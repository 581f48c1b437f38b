-------------------------- MODULE NetRoutingProofs --------------------------
(***************************************************************************)
(* Proofs about the routes, for any network, any order in which terminals  *)
(* meet and any number of connections lost.                                *)
(***************************************************************************)
EXTENDS NetRouting, SequenceTheorems, WellFoundedInduction, TLAPS

(* UpdateRouterInfo keeps one route of each source, and the first of them  *)
(* leads where it led.                                                     *)
LEMMA UpdatedRoutes ==
  ASSUME NEW n \in Nodes, NEW list \in Seq(Routes), OneRouteOfEach(n, list),
         NEW r \in Routes, r.src = n <=> r.nop = Direct
  PROVE  /\ Updated(list, r) \in Seq(Routes) \ {<<>>}
         /\ OneRouteOfEach(n, Updated(list, r))
         /\ list = <<>> => Head(Updated(list, r)) = r
         /\ list # <<>> => Hop(Head(Updated(list, r))) = Hop(Head(list))
<1> DEFINE u == Updated(list, r)
<1>1. CASE From(list, r.src) = {}
  <2>1. u = Append(list, r)
    BY <1>1 DEF Updated, AddTail
  <2>2. /\ u \in Seq(Routes) /\ Len(u) = Len(list) + 1 /\ u[Len(u)] = r
        /\ \A i \in DOMAIN list : u[i] = list[i]
    BY <2>1
  <2>3. \A i \in DOMAIN list : list[i].src # r.src
    BY <1>1 DEF From
  <2>4. OneRouteOfEach(n, u)
    BY <2>2, <2>3 DEF OneRouteOfEach
  <2> QED BY <2>2, <2>4
<1>2. CASE From(list, r.src) # {}
  <2> DEFINE better(i) == list[i].src = r.src /\ r.nop < list[i].nop
  <2>1. u = [i \in 1 .. Len(list) |-> IF better(i) THEN r ELSE list[i]]
    BY <1>2 DEF Updated
  <2>2. \A i \in 1 .. Len(list) : list[i] \in Routes /\ u[i] \in Routes
    BY <2>1
  <2>3. u \in Seq(Routes) /\ Len(u) = Len(list) /\ DOMAIN u = DOMAIN list
    BY <2>1, <2>2
  <2>4. \A i \in DOMAIN list :
          u[i].src = list[i].src /\ (u[i].nop = Direct <=> list[i].nop = Direct)
    BY <2>1 DEF OneRouteOfEach
  <2>5. OneRouteOfEach(n, u)
    BY <2>3, <2>4 DEF OneRouteOfEach
  <2>6. list # <<>>
    BY <1>2 DEF From
  <2>7. Hop(Head(u)) = Hop(Head(list))
    BY <2>3, <2>4, <2>6 DEF Hop
  <2> QED BY <2>3, <2>5, <2>6, <2>7
<1> QED BY <1>1, <1>2

(* What is sent is put behind what was on the links.                       *)
LEMMA SentCommands ==
  ASSUME NEW C, NEW l \in [Links -> Seq(C)], NEW n, NEW reached, NEW cs \in Seq(C)
  PROVE  /\ Sent(l, n, reached, cs) \in [Links -> Seq(C)]
         /\ \A e \in Links : \A i \in DOMAIN Sent(l, n, reached, cs)[e] :
              \/ i \in DOMAIN l[e] /\ Sent(l, n, reached, cs)[e][i] = l[e][i]
              \/ /\ e[1] = n
                 /\ \E j \in DOMAIN cs : Sent(l, n, reached, cs)[e][i] = cs[j]
<1> DEFINE s == Sent(l, n, reached, cs)
<1>1. ASSUME NEW e \in Links
      PROVE  /\ s[e] \in Seq(C)
             /\ \A i \in DOMAIN s[e] :
                  \/ i \in DOMAIN l[e] /\ s[e][i] = l[e][i]
                  \/ e[1] = n /\ \E j \in DOMAIN cs : s[e][i] = cs[j]
  <2>1. CASE e[1] = n /\ e[2] \in reached
    <3>1. s[e] = l[e] \o cs /\ l[e] \in Seq(C)
      BY <2>1 DEF Sent
    <3>2. /\ s[e] \in Seq(C) /\ Len(s[e]) = Len(l[e]) + Len(cs)
          /\ \A i \in 1 .. Len(l[e]) + Len(cs) :
               s[e][i] = IF i <= Len(l[e]) THEN l[e][i] ELSE cs[i - Len(l[e])]
      BY <3>1, ConcatProperties
    <3>3. ASSUME NEW i \in DOMAIN s[e], ~(i \in DOMAIN l[e])
          PROVE  \E j \in DOMAIN cs : s[e][i] = cs[j]
      <4>1. i - Len(l[e]) \in DOMAIN cs /\ s[e][i] = cs[i - Len(l[e])]
        BY <3>1, <3>2, <3>3
      <4> QED BY <4>1
    <3> QED BY <2>1, <3>1, <3>2, <3>3
  <2>2. CASE ~(e[1] = n /\ e[2] \in reached)
    BY <2>2 DEF Sent
  <2> QED BY <2>1, <2>2
<1>2. s \in [Links -> Seq(C)]
  BY <1>1 DEF Sent
<1> QED BY <1>1, <1>2

(* Before anything happened.                                               *)
LEMMA InitRouting == Init => RoutingInv
<1> SUFFICES ASSUME Init PROVE RoutingInv
  OBVIOUS
<1>1. TypeOK
  BY NetRoutingAssumption DEF Init, TypeOK
<1>2. OneRouteOfEachSource /\ routes[Dest] = <<>>
  BY NetRoutingAssumption DEF Init, OneRouteOfEachSource, OneRouteOfEach
<1>3. OnlyRoutedSend /\ NextHopFirst
  BY DEF Init, OnlyRoutedSend, NextHopFirst, Routed
<1> QED BY <1>1, <1>2, <1>3 DEF RoutingInv

(* A terminal takes a route, its first or another, from a terminal that    *)
(* has one or from the destination itself.                                 *)
LEMMA TakesRoute ==
  ASSUME RoutingInv, NEW n \in Nodes \ {Dest}, NEW r \in Routes,
         r.src = n <=> r.nop = Direct,
         cut = {} => Hop(r) \in Routed \cup {Dest},
         routes' = [routes EXCEPT ![n] = Updated(@, r)], Learn(n)
  PROVE  /\ routes' \in [Nodes -> Seq(Routes)] /\ learnt' \in [Nodes -> Nat] /\ clock' \in Nat
         /\ OneRouteOfEachSource' /\ routes'[Dest] = <<>>
         /\ Routed' = Routed \cup {n}
         /\ cut = {} => NextHopFirst'
<1>1. /\ routes \in [Nodes -> Seq(Routes)] /\ OneRouteOfEach(n, routes[n])
      /\ routes[Dest] = <<>> /\ learnt \in [Nodes -> Nat] /\ clock \in Nat
  BY DEF RoutingInv, TypeOK, OneRouteOfEachSource
<1>2. /\ routes'[n] \in Seq(Routes) \ {<<>>} /\ OneRouteOfEach(n, routes'[n])
      /\ routes[n] = <<>> => Head(routes'[n]) = r
      /\ routes[n] # <<>> => Hop(Head(routes'[n])) = Hop(Head(routes[n]))
  BY <1>1, UpdatedRoutes
<1>3. \A k \in Nodes \ {n} : routes'[k] = routes[k]
  BY <1>1
<1>4. routes' \in [Nodes -> Seq(Routes)] /\ routes'[Dest] = <<>>
  BY <1>1, <1>2
<1>5. OneRouteOfEachSource'
  BY <1>2, <1>3 DEF OneRouteOfEachSource, RoutingInv
<1>6. Routed' = Routed \cup {n}
  BY <1>2, <1>3 DEF Routed
<1>7. learnt' \in [Nodes -> Nat] /\ clock' \in Nat
  <2>1. CASE routes[n] = <<>>
    <3>1. clock' = clock + 1 /\ learnt' = [learnt EXCEPT ![n] = clock + 1]
      BY <1>2, <2>1 DEF Learn
    <3> QED BY <1>1, <3>1
  <2>2. CASE routes[n] # <<>>
    BY <1>1, <2>2 DEF Learn
  <2> QED BY <2>1, <2>2
<1>8. ASSUME cut = {} PROVE NextHopFirst'
  <2>1. NextHopFirst /\ Hop(r) \in Routed \cup {Dest}
    BY <1>8 DEF RoutingInv
  <2>2. \A k \in Routed : NextHop(k)' = NextHop(k)
    BY <1>2, <1>3 DEF Routed, NextHop
  <2>3. clock <= clock' /\ \A k \in Routed : learnt'[k] = learnt[k]
    BY <1>1, <1>2 DEF Learn, Routed
  <2>4. \A k \in Routed : k \in Nodes /\ learnt[k] <= clock
    BY <2>1 DEF NextHopFirst, Routed
  <2>5. ASSUME NEW k \in Routed
        PROVE  /\ learnt'[k] <= clock'
               /\ NextHop(k)' # Dest => NextHop(k)' \in Routed' /\ learnt'[NextHop(k)'] < learnt'[k]
    <3>1. learnt'[k] <= clock'
      BY <1>1, <1>7, <2>3, <2>4
    <3>2. NextHop(k) # Dest => NextHop(k) \in Routed /\ learnt[NextHop(k)] < learnt[k]
      BY <2>1 DEF NextHopFirst
    <3> QED BY <1>6, <2>2, <2>3, <3>1, <3>2
  <2>6. ASSUME n \notin Routed
        PROVE  /\ learnt'[n] <= clock'
               /\ NextHop(n)' # Dest => NextHop(n)' \in Routed' /\ learnt'[NextHop(n)'] < learnt'[n]
    <3>1. learnt'[n] = clock + 1 /\ clock' = clock + 1
      BY <1>1, <1>2, <2>6 DEF Learn, Routed
    <3>2. NextHop(n)' = Hop(r)
      BY <1>2, <2>6 DEF NextHop, Routed
    <3>3. Hop(r) # Dest => Hop(r) \in Routed /\ learnt'[Hop(r)] <= clock
      BY <2>1, <2>3, <2>4
    <3>4. Hop(r) # Dest => learnt'[Hop(r)] < clock + 1
      BY <1>1, <1>7, <3>3 DEF Routed
    <3> QED BY <1>1, <1>6, <3>1, <3>2, <3>3, <3>4
  <2> QED BY <1>6, <2>5, <2>6 DEF NextHopFirst
<1> QED BY <1>4, <1>5, <1>6, <1>7, <1>8

(* No route changes.                                                       *)
LEMMA SameRoutes ==
  ASSUME RoutingInv, NEW n, routes' = routes, Learn(n)
  PROVE  /\ learnt' = learnt /\ clock' = clock
         /\ OneRouteOfEachSource' /\ routes'[Dest] = <<>> /\ Routed' = Routed
         /\ cut = {} => NextHopFirst'
<1>1. learnt' = learnt /\ clock' = clock
  BY DEF Learn
<1> QED BY <1>1 DEF RoutingInv, OneRouteOfEachSource, Routed, NextHopFirst, NextHop

(* While no connection is lost a terminal that sends updates has a route.  *)
LEMMA RoutedSend ==
  ASSUME NEW l \in [Links -> Seq(Commands)], NEW n, NEW reached, NEW cs \in Seq(Commands),
         \A e \in Links : \A i \in DOMAIN l[e] : l[e][i] # Delete /\ e[1] \in Routed,
         \A j \in DOMAIN cs : cs[j] # Delete /\ n \in Routed',
         Routed \subseteq Routed',
         link' = Sent(l, n, reached, cs)
  PROVE  OnlyRoutedSend'
<1>1. ASSUME NEW e \in Links, NEW i \in DOMAIN link'[e]
      PROVE  link'[e][i] # Delete /\ e[1] \in Routed'
  <2>1. \/ i \in DOMAIN l[e] /\ link'[e][i] = l[e][i]
        \/ e[1] = n /\ \E j \in DOMAIN cs : link'[e][i] = cs[j]
    BY <1>1, SentCommands
  <2> QED BY <1>1, <2>1
<1> QED BY <1>1 DEF OnlyRoutedSend

(* Taking a command off a link.                                            *)
LEMMA TakenCommand ==
  ASSUME RoutingInv, NEW m, NEW n, Pending(m, n)
  PROVE  /\ Command(m, n) \in Commands
         /\ Taken(m, n) \in [Links -> Seq(Commands)]
         /\ cut = {} => /\ Command(m, n) # Delete /\ m \in Routed
                        /\ \A e \in Links : \A i \in DOMAIN Taken(m, n)[e] :
                             Taken(m, n)[e][i] # Delete /\ e[1] \in Routed
<1> DEFINE c == <<m, n>>
           t == Taken(m, n)
<1>1. c \in Links /\ link[c] \in Seq(Commands) /\ link[c] # <<>>
      /\ link \in [Links -> Seq(Commands)]
  BY DEF RoutingInv, TypeOK, Pending
<1>2. /\ Head(link[c]) \in Commands /\ Tail(link[c]) \in Seq(Commands)
      /\ Len(Tail(link[c])) = Len(link[c]) - 1
      /\ \A i \in 1 .. Len(Tail(link[c])) : Tail(link[c])[i] = link[c][i + 1]
  BY <1>1, HeadTailProperties
<1>3. t \in [Links -> Seq(Commands)] /\ t[c] = Tail(link[c])
      /\ \A e \in Links \ {c} : t[e] = link[e]
  BY <1>1, <1>2 DEF Taken
<1>4. ASSUME cut = {}
      PROVE  /\ Head(link[c]) # Delete /\ m \in Routed
             /\ \A e \in Links : \A i \in DOMAIN t[e] : t[e][i] # Delete /\ e[1] \in Routed
  <2>1. \A e \in Links : \A i \in DOMAIN link[e] : link[e][i] # Delete /\ e[1] \in Routed
    BY <1>4 DEF RoutingInv, OnlyRoutedSend
  <2>2. 1 \in DOMAIN link[c] /\ Head(link[c]) = link[c][1] /\ c[1] = m
    BY <1>1
  <2>3. \A i \in DOMAIN Tail(link[c]) :
          i + 1 \in DOMAIN link[c] /\ Tail(link[c])[i] = link[c][i + 1]
    BY <1>1, <1>2
  <2>4. \A i \in DOMAIN t[c] : t[c][i] # Delete /\ c[1] \in Routed
    BY <1>1, <1>3, <2>1, <2>3
  <2>5. \A e \in Links \ {c} : \A i \in DOMAIN t[e] : t[e][i] # Delete /\ e[1] \in Routed
    BY <1>3, <2>1
  <2> QED BY <1>1, <2>1, <2>2, <2>4, <2>5
<1> QED BY <1>2, <1>3, <1>4 DEF Command

(* A terminal and its neighbour connect.                                   *)
LEMMA JoinKeeps ==
  ASSUME RoutingInv, NEW n \in Nodes, NEW m \in Nodes, Join(n, m)
  PROVE  RoutingInv'
<1>1. TypeOK /\ n # m /\ (m # Dest \/ n # Dest) /\ UNCHANGED <<cut, left>> /\ Learn(n)
  BY NetRoutingAssumption DEF Join, RoutingInv
<1>2. /\ terminals' \in [Nodes -> SUBSET Nodes] /\ cut' \subseteq Links /\ left' \subseteq cut'
      /\ link \in [Links -> Seq(Commands)]
  BY <1>1 DEF Join, TypeOK
<1>3. ASSUME cut = {}
      PROVE  \A e \in Links : \A i \in DOMAIN link[e] : link[e][i] # Delete /\ e[1] \in Routed
  BY <1>3 DEF RoutingInv, OnlyRoutedSend
<1>4. CASE m = Dest
  <2>1. PICK reached \in Reached(n, terminals[n] \cup {m}) :
          link' = Sent(link, n, reached \ {m}, <<Direct + 1>>)
    BY <1>4 DEF Join
  <2>2. <<Direct + 1>> \in Seq(Commands) /\ \A j \in DOMAIN <<Direct + 1>> : <<Direct + 1>>[j] # Delete
    BY DEF Commands, Delete, Direct
  <2>3. link' \in [Links -> Seq(Commands)]
    BY <1>2, <2>1, <2>2, SentCommands
  <2>4. /\ Route(n, Direct) \in Routes /\ Hop(Route(n, Direct)) = Dest
        /\ Route(n, Direct).src = n /\ Route(n, Direct).nop = Direct
    BY DEF Route, Routes, Hop, Direct
  <2>5. routes' = [routes EXCEPT ![n] = Updated(@, Route(n, Direct))]
    BY <1>4 DEF Join
  <2>6. /\ routes' \in [Nodes -> Seq(Routes)] /\ learnt' \in [Nodes -> Nat] /\ clock' \in Nat
        /\ OneRouteOfEachSource' /\ routes'[Dest] = <<>> /\ Routed' = Routed \cup {n}
        /\ cut = {} => NextHopFirst'
    BY <1>1, <1>4, <2>4, <2>5, TakesRoute
  <2>7. cut = {} => OnlyRoutedSend'
    BY <1>2, <1>3, <2>1, <2>2, <2>6, RoutedSend
  <2> QED BY <1>1, <1>2, <2>3, <2>6, <2>7 DEF RoutingInv, TypeOK
<1>5. CASE m # Dest
  <2>1. PICK reached \in Reached(n, terminals[n] \cup {m}) :
          link' = Sent(link, n, reached \cap {m}, Known(n))
    BY <1>5 DEF Join
  <2>2. Known(n) \in Seq(Commands) /\ \A j \in DOMAIN Known(n) : Known(n)[j] # Delete
    <3>1. routes[n] \in Seq(Routes)
      BY <1>1 DEF TypeOK
    <3>2. \A r \in Routes : r.nop + 1 \in Commands \ {Delete}
      BY DEF Routes, Commands, Direct, Delete
    <3>3. \A i \in 1 .. Len(routes[n]) : routes[n][i].nop + 1 \in Commands \ {Delete}
      BY <3>1, <3>2, ElementOfSeq
    <3> QED BY <3>1, <3>3 DEF Known
  <2>3. link' \in [Links -> Seq(Commands)]
    BY <1>2, <2>1, <2>2, SentCommands
  <2>4. \A j \in DOMAIN Known(n) : n \in Routed
    BY <1>1 DEF Known, Routed, TypeOK
  <2>5. routes' = routes
    BY <1>5 DEF Join
  <2>6. /\ learnt' = learnt /\ clock' = clock
        /\ OneRouteOfEachSource' /\ routes'[Dest] = <<>> /\ Routed' = Routed
        /\ cut = {} => NextHopFirst'
    BY <1>1, <2>5, SameRoutes
  <2>7. cut = {} => OnlyRoutedSend'
    BY <1>2, <1>3, <2>1, <2>2, <2>4, <2>6, RoutedSend
  <2> QED BY <1>1, <1>2, <2>3, <2>5, <2>6, <2>7 DEF RoutingInv, TypeOK
<1> QED BY <1>4, <1>5

(* An update is handled, and passed on if it changed something.            *)
LEMMA UpdateKeeps ==
  ASSUME RoutingInv, NEW n \in Nodes, NEW m \in Nodes, RecvUpdate(m, n)
  PROVE  RoutingInv'
<1> DEFINE r == Route(m, Command(m, n))
           t == Taken(m, n)
           cs == <<r.nop + 1>>
<1>1. /\ TypeOK /\ Pending(m, n) /\ Command(m, n) # Delete /\ Learn(n)
      /\ UNCHANGED <<terminals, cut, left>> /\ m # n
  BY NetRoutingAssumption DEF RecvUpdate, RoutingInv, Pending
<1>2. /\ t \in [Links -> Seq(Commands)] /\ Command(m, n) \in Commands
      /\ cut = {} => /\ m \in Routed
                     /\ \A e \in Links : \A i \in DOMAIN t[e] : t[e][i] # Delete /\ e[1] \in Routed
  BY <1>1, TakenCommand
<1>3. r \in Routes /\ r.src = m /\ r.nop # Direct /\ Hop(r) = m /\ r.nop \in Nat
  BY <1>1, <1>2 DEF Route, Routes, Hop, Commands, Delete, Direct
<1>4. CASE Changes(n, r)
  <2>1. n # Dest /\ routes' = [routes EXCEPT ![n] = Updated(@, r)]
    BY <1>4 DEF RecvUpdate, Changes
  <2>2. PICK reached \in Reached(n, Others(n, m)) : link' = Sent(t, n, reached, cs)
    BY <1>4 DEF RecvUpdate
  <2>3. cs \in Seq(Commands) /\ \A j \in DOMAIN cs : cs[j] # Delete
    BY <1>3 DEF Commands, Delete, Direct
  <2>4. link' \in [Links -> Seq(Commands)]
    BY <1>2, <2>2, <2>3, SentCommands
  <2>5. /\ routes' \in [Nodes -> Seq(Routes)] /\ learnt' \in [Nodes -> Nat] /\ clock' \in Nat
        /\ OneRouteOfEachSource' /\ routes'[Dest] = <<>> /\ Routed' = Routed \cup {n}
        /\ cut = {} => NextHopFirst'
    BY <1>1, <1>2, <1>3, <2>1, TakesRoute
  <2>6. ASSUME cut = {} PROVE OnlyRoutedSend'
    <3>1. \A e \in Links : \A i \in DOMAIN t[e] : t[e][i] # Delete /\ e[1] \in Routed
      BY <1>2, <2>6
    <3>2. n \in Routed' /\ Routed \subseteq Routed'
      BY <2>5
    <3> HIDE DEF t, cs
    <3> QED BY <1>2, <2>2, <2>3, <3>1, <3>2, RoutedSend
  <2> QED BY <1>1, <2>4, <2>5, <2>6 DEF RoutingInv, TypeOK
<1>5. CASE ~Changes(n, r)
  <2>1. routes' = routes /\ link' = t
    BY <1>5 DEF RecvUpdate
  <2>2. /\ learnt' = learnt /\ clock' = clock
        /\ OneRouteOfEachSource' /\ routes'[Dest] = <<>> /\ Routed' = Routed
        /\ cut = {} => NextHopFirst'
    BY <1>1, <2>1, SameRoutes
  <2>3. cut = {} => OnlyRoutedSend'
    BY <1>2, <2>1, <2>2 DEF OnlyRoutedSend
  <2> QED BY <1>1, <1>2, <2>1, <2>2, <2>3 DEF RoutingInv, TypeOK
<1> QED BY <1>4, <1>5

(* A withdrawal is handled: one is under way only after a connection was   *)
(* lost, and then nothing is promised but types and one route of each.     *)
LEMMA DeleteKeeps ==
  ASSUME RoutingInv, NEW n \in Nodes, NEW m \in Nodes, RecvDelete(m, n)
  PROVE  RoutingInv'
<1>1. TypeOK /\ Pending(m, n) /\ Command(m, n) = Delete
      /\ routes' = [routes EXCEPT ![n] = <<>>]
      /\ UNCHANGED <<terminals, cut, left, learnt, clock>>
  BY DEF RecvDelete, RoutingInv
<1>2. Taken(m, n) \in [Links -> Seq(Commands)] /\ cut # {}
  BY <1>1, TakenCommand
<1>3. PICK reached \in Reached(n, Others(n, m)) : link' = Sent(Taken(m, n), n, reached, <<Delete>>)
  BY DEF RecvDelete
<1>4. <<Delete>> \in Seq(Commands)
  BY DEF Commands
<1>5. link' \in [Links -> Seq(Commands)]
  BY <1>2, <1>3, <1>4, SentCommands
<1>6. routes' \in [Nodes -> Seq(Routes)]
  BY <1>1 DEF TypeOK
<1>7. OneRouteOfEachSource' /\ routes'[Dest] = <<>>
  BY <1>1, NetRoutingAssumption DEF RoutingInv, TypeOK, OneRouteOfEachSource, OneRouteOfEach
<1> QED BY <1>1, <1>2, <1>5, <1>6, <1>7 DEF RoutingInv, TypeOK

\* A connection is lost.
LEMMA CutKeeps ==
  ASSUME RoutingInv, NEW n \in Nodes, NEW m \in Nodes, Cut(n, m)
  PROVE  RoutingInv'
<1>1. TypeOK /\ UNCHANGED <<terminals, routes, left, learnt, clock>>
      /\ <<n, m>> \in Links /\ cut' = cut \cup {<<n, m>>, <<m, n>>}
  BY DEF Cut, RoutingInv
<1>2. <<m, n>> \in Links
  BY <1>1, NetRoutingAssumption
<1>3. PICK i \in 0 .. Len(link[<<n, m>>]), j \in 0 .. Len(link[<<m, n>>]) :
        link' = [link EXCEPT ![<<n, m>>] = SubSeq(@, 1, i), ![<<m, n>>] = SubSeq(@, 1, j)]
  BY DEF Cut
<1>4. /\ link \in [Links -> Seq(Commands)]
      /\ link[<<n, m>>] \in Seq(Commands) /\ link[<<m, n>>] \in Seq(Commands)
  BY <1>1, <1>2 DEF TypeOK
<1>5. link' \in [Links -> Seq(Commands)]
  <2>1. n # m
    BY <1>1, NetRoutingAssumption
  <2>2. /\ SubSeq(link[<<n, m>>], 1, i) \in Seq(Commands)
        /\ SubSeq(link[<<m, n>>], 1, j) \in Seq(Commands)
    BY <1>4
  <2>3. <<n, m>> # <<m, n>>
    BY <2>1
  <2>4. link' = [link EXCEPT ![<<n, m>>] = SubSeq(link[<<n, m>>], 1, i),
                             ![<<m, n>>] = SubSeq(link[<<m, n>>], 1, j)]
    BY <1>1, <1>2, <1>3, <1>4, <2>3
  <2> QED BY <1>1, <1>2, <1>4, <2>2, <2>4
<1>6. cut' # {} /\ cut' \subseteq Links /\ left' \subseteq cut'
  BY <1>1, <1>2 DEF TypeOK
<1>7. OneRouteOfEachSource' /\ routes'[Dest] = <<>>
  BY <1>1 DEF RoutingInv, OneRouteOfEachSource
<1> QED BY <1>1, <1>5, <1>6, <1>7 DEF RoutingInv, TypeOK

(* A list of routes that loses one keeps one of each source.               *)
LEMMA DroppedRoutes ==
  ASSUME NEW n \in Nodes, NEW list \in Seq(Routes), OneRouteOfEach(n, list),
         NEW i \in DOMAIN list
  PROVE  Dropped(list, i) \in Seq(Routes) /\ OneRouteOfEach(n, Dropped(list, i))
<1> DEFINE a == SubSeq(list, 1, i - 1)
           b == SubSeq(list, i + 1, Len(list))
           d == a \o b
           at(k) == IF k < i THEN k ELSE k + 1
<1>1. i \in 1 .. Len(list) /\ Len(list) \in Nat /\ d = Dropped(list, i)
  BY DEF Dropped
<1>2. /\ a \in Seq(Routes) /\ Len(a) = i - 1
      /\ \A k \in 1 .. i - 1 : a[k] = list[k]
  BY <1>1
<1>3. /\ b \in Seq(Routes) /\ Len(b) = Len(list) - i
      /\ \A k \in 1 .. Len(list) - i : b[k] = list[i + k]
  BY <1>1
<1> HIDE DEF a, b
<1>4. /\ d \in Seq(Routes) /\ Len(d) = Len(list) - 1
      /\ \A k \in 1 .. Len(list) - 1 : d[k] = IF k <= i - 1 THEN a[k] ELSE b[k - (i - 1)]
  <2>1. /\ d \in Seq(Routes) /\ Len(d) = Len(a) + Len(b)
        /\ \A k \in 1 .. Len(a) + Len(b) : d[k] = IF k <= Len(a) THEN a[k] ELSE b[k - Len(a)]
    BY <1>2, <1>3, ConcatProperties
  <2>2. Len(a) + Len(b) = Len(list) - 1
    BY <1>1, <1>2, <1>3
  <2> QED BY <1>2, <2>1, <2>2
<1> HIDE DEF d
<1>5. ASSUME NEW k \in 1 .. Len(list) - 1
      PROVE  at(k) \in DOMAIN list /\ d[k] = list[at(k)]
  <2>1. CASE k < i
    BY <1>1, <1>2, <1>4, <2>1
  <2>2. CASE ~(k < i)
    <3>1. /\ k - (i - 1) \in 1 .. Len(list) - i /\ i + (k - (i - 1)) = k + 1
          /\ ~(k <= i - 1)
      BY <1>1, <2>2
    <3>2. d[k] = b[k - (i - 1)]
      BY <1>4, <3>1
    <3> QED BY <1>1, <1>3, <2>2, <3>1, <3>2
  <2> QED BY <2>1, <2>2
<1>6. \A k, l \in 1 .. Len(list) - 1 : at(k) = at(l) => k = l
  BY <1>1
<1>7. DOMAIN d = 1 .. Len(list) - 1
  BY <1>4
<1> HIDE DEF at
<1>8. OneRouteOfEach(n, d)
  BY <1>5, <1>6, <1>7 DEF OneRouteOfEach
<1> QED BY <1>1, <1>4, <1>8

(* The end of a lost connection is told of it: nothing is promised either. *)
LEMMA LeaveKeeps ==
  ASSUME RoutingInv, NEW n \in Nodes, NEW m \in Nodes, Leave(n, m)
  PROVE  RoutingInv'
<1>1. TypeOK /\ <<n, m>> \in cut /\ left' = left \cup {<<n, m>>}
      /\ UNCHANGED <<cut, learnt, clock>>
  BY DEF Leave, RoutingInv
<1>2. terminals' \in [Nodes -> SUBSET Nodes]
  BY <1>1 DEF Leave, TypeOK
<1>3. link' \in [Links -> Seq(Commands)]
  <2>1. link \in [Links -> Seq(Commands)] /\ <<Delete>> \in Seq(Commands)
    BY <1>1 DEF TypeOK, Commands
  <2>2. link' = link \/ \E reached : link' = Sent(link, n, reached, <<Delete>>)
    BY DEF Leave
  <2>3. CASE \E reached : link' = Sent(link, n, reached, <<Delete>>)
    <3>1. PICK reached : link' = Sent(link, n, reached, <<Delete>>)
      BY <2>3
    <3> QED BY <2>1, <3>1, SentCommands
  <2> QED BY <2>1, <2>2, <2>3
<1>4. /\ routes' \in [Nodes -> Seq(Routes)]
      /\ OneRouteOfEachSource' /\ routes'[Dest] = <<>>
  <2>1. routes \in [Nodes -> Seq(Routes)] /\ OneRouteOfEachSource /\ routes[Dest] = <<>>
    BY DEF RoutingInv, TypeOK
  <2>2. \/ routes' = routes
        \/ routes' = [routes EXCEPT ![n] = <<>>]
        \/ \E i \in From(routes[n], m) : routes' = [routes EXCEPT ![n] = Dropped(@, i)]
    BY DEF Leave
  <2>3. CASE routes' = routes
    BY <2>1, <2>3 DEF OneRouteOfEachSource
  <2>4. CASE routes' = [routes EXCEPT ![n] = <<>>]
    BY <2>1, <2>4, NetRoutingAssumption DEF OneRouteOfEachSource, OneRouteOfEach
  <2>5. CASE \E i \in From(routes[n], m) : routes' = [routes EXCEPT ![n] = Dropped(@, i)]
    <3>1. PICK i \in DOMAIN routes[n] : routes' = [routes EXCEPT ![n] = Dropped(@, i)]
      BY <2>5 DEF From
    <3>2. OneRouteOfEach(n, routes[n])
      BY <2>1 DEF OneRouteOfEachSource
    <3>3. Dropped(routes[n], i) \in Seq(Routes) /\ OneRouteOfEach(n, Dropped(routes[n], i))
      BY <2>1, <3>2, DroppedRoutes
    <3>4. n # Dest
      BY <2>1, <3>1
    <3> QED BY <2>1, <3>1, <3>3, <3>4 DEF OneRouteOfEachSource
  <2> QED BY <2>2, <2>3, <2>4, <2>5
<1> QED BY <1>1, <1>2, <1>3, <1>4 DEF RoutingInv, TypeOK

(* Nothing happens.                                                        *)
LEMMA StutterKeeps ==
  ASSUME RoutingInv, UNCHANGED vars
  PROVE  RoutingInv'
<1>1. TypeOK' /\ OneRouteOfEachSource' /\ routes'[Dest] = <<>>
  BY DEF vars, RoutingInv, TypeOK, OneRouteOfEachSource
<1>2. cut' = {} => OnlyRoutedSend' /\ NextHopFirst'
  BY DEF vars, RoutingInv, OnlyRoutedSend, NextHopFirst, NextHop, Routed
<1> QED BY <1>1, <1>2 DEF RoutingInv

(* The invariant: one route of each source; before a connection is lost    *)
(* only terminals with a route send, and every next hop had its own first. *)
THEOREM RoutingInvariance == Spec => []RoutingInv
<1>1. RoutingInv /\ [Next]_vars => RoutingInv'
  BY JoinKeeps, UpdateKeeps, DeleteKeeps, CutKeeps, LeaveKeeps, StutterKeeps DEF Next
<1> QED BY <1>1, InitRouting, PTL DEF Spec

(* Terminals, routes and commands keep their types.                        *)
THEOREM RoutingTypes == Spec => []TypeOK
<1>1. RoutingInv => TypeOK
  BY DEF RoutingInv
<1> QED BY <1>1, RoutingInvariance, PTL

(* Of terminals that have a route the one that had its first before the    *)
(* others has its next hop outside: no packet goes round among them.       *)
LEMMA FirstLeadsOut ==
  ASSUME RoutingInv, cut = {}, NEW S \in SUBSET Routed, S # {}
  PROVE  \E n \in S : NextHop(n) \in (Routed \cup {Dest}) \ S
<1> DEFINE T == {learnt[n] : n \in S}
<1>1. NextHopFirst /\ learnt \in [Nodes -> Nat] /\ S \subseteq Nodes /\ Dest \notin S
  BY DEF RoutingInv, TypeOK, Routed
<1>2. T \subseteq Nat /\ T # {}
  BY <1>1
<1>3. PICK x \in T : \A y \in T : ~(<<y, x>> \in OpToRel(<, Nat))
  BY <1>2, WFMin, NatLessThanWellFounded
<1>4. \A y \in T : ~(y < x)
  BY <1>2, <1>3 DEF OpToRel
<1>5. PICK n \in S : learnt[n] = x
  BY <1>3
<1>6. CASE NextHop(n) = Dest
  BY <1>1, <1>6
<1>7. CASE NextHop(n) # Dest
  <2>1. NextHop(n) \in Routed /\ learnt[NextHop(n)] < x
    BY <1>1, <1>5, <1>7 DEF NextHopFirst
  <2>2. NextHop(n) \notin S
    BY <1>4, <2>1
  <2> QED BY <2>1, <2>2
<1> QED BY <1>6, <1>7

(* A packet that is passed on from next hop to next hop gets there.        *)
THEOREM RoutesLeadToDest == Spec => []RoutesLead
<1>1. RoutingInv => RoutesLead
  BY FirstLeadsOut DEF RoutesLead
<1> QED BY <1>1, RoutingInvariance, PTL

-----------------------------------------------------------------------------
(* A route of a terminal leads over one of its own connections.            *)
HopsAreLinks ==
  \A n \in Nodes : \A i \in DOMAIN routes[n] : <<n, Hop(routes[n][i])>> \in Links

\* What UpdateRouterInfo leaves is the new route or one that was there.
LEMMA UpdatedFrom ==
  ASSUME NEW list \in Seq(Routes), NEW r \in Routes, NEW i \in DOMAIN Updated(list, r)
  PROVE  Updated(list, r)[i] = r \/ \E j \in DOMAIN list : Updated(list, r)[i] = list[j]
<1>1. CASE From(list, r.src) = {}
  <2>1. Updated(list, r) = Append(list, r)
    BY <1>1 DEF Updated, AddTail
  <2> QED BY <2>1
<1>2. CASE From(list, r.src) # {}
  BY <1>2 DEF Updated
<1> QED BY <1>1, <1>2

\* What is left of a list was in it.
LEMMA DroppedFrom ==
  ASSUME NEW list \in Seq(Routes), NEW i \in DOMAIN list, NEW k \in DOMAIN Dropped(list, i)
  PROVE  \E j \in DOMAIN list : Dropped(list, i)[k] = list[j]
<1> DEFINE a == SubSeq(list, 1, i - 1)
           b == SubSeq(list, i + 1, Len(list))
<1>1. i \in 1 .. Len(list) /\ Len(list) \in Nat
  OBVIOUS
<1>2. a \in Seq(Routes) /\ Len(a) = i - 1 /\ \A j \in 1 .. i - 1 : a[j] = list[j]
  BY <1>1
<1>3. b \in Seq(Routes) /\ Len(b) = Len(list) - i /\ \A j \in 1 .. Len(list) - i : b[j] = list[i + j]
  BY <1>1
<1>4. /\ Len(a \o b) = Len(a) + Len(b)
      /\ \A j \in 1 .. Len(a) + Len(b) : (a \o b)[j] = IF j <= Len(a) THEN a[j] ELSE b[j - Len(a)]
  <2> HIDE DEF a, b
  <2> QED BY <1>2, <1>3, ConcatProperties
<1>5. k \in 1 .. Len(a) + Len(b) /\ Dropped(list, i)[k] = IF k <= Len(a) THEN a[k] ELSE b[k - Len(a)]
  <2>1. Dropped(list, i) = a \o b /\ a \o b \in Seq(Routes)
    BY <1>2, <1>3, ConcatProperties DEF Dropped
  <2> HIDE DEF a, b
  <2> QED BY <1>4, <2>1
<1> HIDE DEF a, b
<1>6. CASE k <= Len(a)
  BY <1>1, <1>2, <1>5, <1>6
<1>7. CASE ~(k <= Len(a))
  <2>1. Len(a) = i - 1 /\ Len(b) = Len(list) - i /\ DOMAIN list = 1 .. Len(list)
    BY <1>2, <1>3
  <2>2. k \in 1 .. (i - 1) + (Len(list) - i) /\ ~(k <= i - 1)
    BY <1>5, <1>7, <2>1
  <2>3. k - (i - 1) \in 1 .. Len(list) - i /\ i + (k - (i - 1)) \in 1 .. Len(list)
    BY <1>1, <2>2
  <2>4. Dropped(list, i)[k] = list[i + (k - (i - 1))]
    BY <1>3, <1>5, <1>7, <2>1, <2>3
  <2> QED BY <2>1, <2>3, <2>4
<1> QED BY <1>6, <1>7

\* A step gives a terminal only routes that lead over its connections.
LEMMA StepHops ==
  ASSUME RoutingInv, HopsAreLinks, [Next]_vars
  PROVE  HopsAreLinks'
<1>1. routes \in [Nodes -> Seq(Routes)]
  BY DEF RoutingInv, TypeOK
<1>2. ASSUME NEW n \in Nodes, NEW r \in Routes, <<n, Hop(r)>> \in Links,
             routes' = [routes EXCEPT ![n] = Updated(@, r)]
      PROVE  HopsAreLinks'
  <2>1. ASSUME NEW k \in Nodes, NEW i \in DOMAIN routes'[k]
        PROVE  <<k, Hop(routes'[k][i])>> \in Links
    <3>1. CASE k = n
      <4>1. routes[n] \in Seq(Routes) /\ routes'[n] = Updated(routes[n], r)
        BY <1>1, <1>2
      <4>2. routes'[n][i] = r \/ \E j \in DOMAIN routes[n] : routes'[n][i] = routes[n][j]
        BY <2>1, <3>1, <4>1, UpdatedFrom
      <4> QED BY <1>2, <3>1, <4>2 DEF HopsAreLinks
    <3>2. CASE k # n
      BY <1>1, <1>2, <3>2 DEF HopsAreLinks
    <3> QED BY <3>1, <3>2
  <2> QED BY <2>1 DEF HopsAreLinks
<1>3. ASSUME NEW n \in Nodes, NEW m \in Nodes, Join(n, m) PROVE HopsAreLinks'
  <2>1. CASE m = Dest
    <3>1. /\ <<n, Dest>> \in Links
          /\ routes' = [routes EXCEPT ![n] = Updated(@, Route(n, Direct))]
      BY <1>3, <2>1 DEF Join
    <3>2. Route(n, Direct) \in Routes /\ Hop(Route(n, Direct)) = Dest
      BY DEF Route, Routes, Direct, Hop
    <3> QED BY <1>2, <3>1, <3>2
  <2>2. CASE m # Dest
    BY <1>3, <2>2 DEF Join, HopsAreLinks
  <2> QED BY <2>1, <2>2
<1>4. ASSUME NEW n \in Nodes, NEW m \in Nodes, RecvUpdate(m, n) PROVE HopsAreLinks'
  <2> DEFINE r == Route(m, Command(m, n))
  <2>1. Pending(m, n) /\ Command(m, n) # Delete /\ <<n, m>> \in Links
    BY <1>4, NetRoutingAssumption DEF RecvUpdate, Pending
  <2>2. Command(m, n) \in Commands
    BY <2>1, TakenCommand
  <2>3. r \in Routes /\ Hop(r) = m
    BY <2>1, <2>2 DEF Route, Routes, Hop, Commands, Delete, Direct
  <2>4. CASE Changes(n, r)
    <3>1. routes' = [routes EXCEPT ![n] = Updated(@, r)]
      BY <1>4, <2>4 DEF RecvUpdate
    <3> HIDE DEF r
    <3> QED BY <1>2, <2>1, <2>3, <3>1
  <2>5. CASE ~Changes(n, r)
    BY <1>4, <2>5 DEF RecvUpdate, HopsAreLinks
  <2> QED BY <2>4, <2>5
<1>5. ASSUME NEW n \in Nodes, NEW m \in Nodes, RecvDelete(m, n) \/ Leave(n, m) PROVE HopsAreLinks'
  <2>1. \/ routes' = routes
        \/ routes' = [routes EXCEPT ![n] = <<>>]
        \/ \E i \in From(routes[n], m) : routes' = [routes EXCEPT ![n] = Dropped(@, i)]
    BY <1>5 DEF RecvDelete, Leave
  <2>2. CASE routes' = routes
    BY <2>2 DEF HopsAreLinks
  <2>3. CASE routes' = [routes EXCEPT ![n] = <<>>]
    BY <1>1, <2>3 DEF HopsAreLinks
  <2>4. CASE \E i \in From(routes[n], m) : routes' = [routes EXCEPT ![n] = Dropped(@, i)]
    <3>1. PICK i \in DOMAIN routes[n] : routes' = [routes EXCEPT ![n] = Dropped(@, i)]
      BY <2>4 DEF From
    <3>2. ASSUME NEW k \in Nodes, NEW l \in DOMAIN routes'[k]
          PROVE  \E j \in DOMAIN routes[k] : routes'[k][l] = routes[k][j]
      <4>1. CASE k = n
        <5>1. routes[n] \in Seq(Routes) /\ routes'[n] = Dropped(routes[n], i)
          BY <1>1, <3>1
        <5> QED BY <3>2, <4>1, <5>1, DroppedFrom
      <4>2. CASE k # n
        BY <1>1, <3>1, <4>2
      <4> QED BY <4>1, <4>2
    <3> QED BY <3>2 DEF HopsAreLinks
  <2> QED BY <2>1, <2>2, <2>3, <2>4
<1>6. ASSUME (\E n, m \in Nodes : Cut(n, m)) \/ UNCHANGED vars PROVE HopsAreLinks'
  BY <1>6 DEF Cut, vars, HopsAreLinks
<1> QED BY <1>3, <1>4, <1>5, <1>6 DEF Next

(* A path that a packet to Dest takes from terminal n: each terminal on it *)
(* passes the packet on to its next hop, over a connection, and none sees  *)
(* the packet twice.                                                       *)
IsPath(p, n) ==
  /\ p \in Seq(Nodes) /\ Len(p) >= 2 /\ p[1] = n /\ p[Len(p)] = Dest
  /\ \A i \in 1 .. Len(p) - 1 :
       p[i] \in Routed /\ p[i+1] = NextHop(p[i]) /\ <<p[i], p[i+1]>> \in Links
  /\ \A i, j \in 1 .. Len(p) : p[i] = p[j] => i = j

\* The terminals of a path had their first routes one before the other.
Ascending(p) ==
  \A i, j \in 1 .. Len(p) - 1 : i < j => learnt[p[j]] < learnt[p[i]]

\* A terminal in front of the path from its next hop makes its own path.
LEMMA LongerPath ==
  ASSUME RoutingInv, HopsAreLinks, cut = {}, NEW n \in Routed, NextHop(n) # Dest,
         NEW q, IsPath(q, NextHop(n)), Ascending(q)
  PROVE  \E p : IsPath(p, n) /\ Ascending(p)
<1> DEFINE p == [i \in 1 .. Len(q) + 1 |-> IF i = 1 THEN n ELSE q[i-1]]
<1>1. /\ routes \in [Nodes -> Seq(Routes)] /\ learnt \in [Nodes -> Nat]
      /\ n \in Nodes /\ Dest \notin Routed
      /\ NextHop(n) \in Routed /\ learnt[NextHop(n)] < learnt[n]
  BY DEF RoutingInv, TypeOK, NextHopFirst, Routed
<1>2. <<n, NextHop(n)>> \in Links
  BY <1>1 DEF HopsAreLinks, NextHop, Routed
<1>3. /\ q \in Seq(Nodes) /\ Len(q) \in Nat /\ Len(q) >= 2
      /\ q[1] = NextHop(n) /\ q[Len(q)] = Dest
      /\ \A i \in 1 .. Len(q) : q[i] \in Nodes
      /\ \A i \in 1 .. Len(q) - 1 :
           q[i] \in Routed /\ q[i+1] = NextHop(q[i]) /\ <<q[i], q[i+1]>> \in Links
      /\ \A i, j \in 1 .. Len(q) : q[i] = q[j] => i = j
  BY DEF IsPath
<1>4. /\ p \in Seq(Nodes) /\ Len(p) = Len(q) + 1 /\ p[1] = n
      /\ \A i \in 1 .. Len(q) : p[i+1] = q[i]
      /\ \A i \in 2 .. Len(q) + 1 : i - 1 \in 1 .. Len(q) /\ p[i] = q[i-1]
  BY <1>1, <1>3
<1> HIDE DEF p
<1>5. \A i \in 1 .. Len(q) - 1 : learnt[q[i]] < learnt[n]
  <2> TAKE i \in 1 .. Len(q) - 1
  <2>1. i \in 1 .. Len(q) /\ 1 \in 1 .. Len(q) /\ 1 \in 1 .. Len(q) - 1
    BY <1>3
  <2>2. i # 1 => learnt[q[i]] < learnt[q[1]]
    BY <2>1 DEF Ascending
  <2>3. q[i] \in Nodes /\ q[1] \in Nodes
    BY <1>3, <2>1
  <2>4. learnt[q[i]] \in Nat /\ learnt[n] \in Nat /\ learnt[q[1]] \in Nat
    BY <1>1, <2>3
  <2>5. learnt[q[1]] < learnt[n]
    BY <1>1, <1>3
  <2> QED BY <2>2, <2>4, <2>5
<1>6. \A i \in 1 .. Len(q) : q[i] # n
  <2> TAKE i \in 1 .. Len(q)
  <2>1. CASE i = Len(q)
    BY <1>1, <1>3, <2>1
  <2>2. CASE i # Len(q)
    <3>1. i \in 1 .. Len(q) - 1
      BY <1>3, <2>2
    <3>2. q[i] \in Nodes /\ learnt[q[i]] < learnt[n]
      BY <1>3, <1>5, <3>1
    <3>3. learnt[q[i]] \in Nat /\ learnt[n] \in Nat
      BY <1>1, <3>2
    <3> QED BY <3>2, <3>3
  <2> QED BY <2>1, <2>2
<1>7. \A i \in 1 .. Len(p) - 1 :
        p[i] \in Routed /\ p[i+1] = NextHop(p[i]) /\ <<p[i], p[i+1]>> \in Links
  <2> TAKE i \in 1 .. Len(p) - 1
  <2>1. CASE i = 1
    <3>1. 1 \in 1 .. Len(q) /\ i + 1 = 1 + 1
      BY <1>3, <2>1
    <3>2. p[i] = n /\ p[i+1] = NextHop(n)
      BY <1>3, <1>4, <2>1, <3>1
    <3> QED BY <1>2, <3>2
  <2>2. CASE i # 1
    <3>1. i - 1 \in 1 .. Len(q) - 1 /\ p[i] = q[i-1] /\ p[i+1] = q[(i-1) + 1]
      BY <1>3, <1>4, <2>2
    <3> QED BY <1>3, <3>1
  <2> QED BY <2>1, <2>2
<1>8. \A i, j \in 1 .. Len(p) : p[i] = p[j] => i = j
  <2> TAKE i, j \in 1 .. Len(p)
  <2>1. (i # 1 => i - 1 \in 1 .. Len(q) /\ p[i] = q[i-1]) /\ (j # 1 => j - 1 \in 1 .. Len(q) /\ p[j] = q[j-1])
    BY <1>3, <1>4
  <2> QED BY <1>3, <1>4, <1>6, <2>1
<1>9. Ascending(p)
  <2> SUFFICES ASSUME NEW i \in 1 .. Len(p) - 1, NEW j \in 1 .. Len(p) - 1, i < j
               PROVE  learnt[p[j]] < learnt[p[i]]
    BY DEF Ascending
  <2>1. j - 1 \in 1 .. Len(q) - 1 /\ p[j] = q[j-1]
    BY <1>3, <1>4
  <2>2. CASE i = 1
    BY <1>4, <1>5, <2>1, <2>2
  <2>3. CASE i # 1
    <3>1. i - 1 \in 1 .. Len(q) - 1 /\ p[i] = q[i-1] /\ i - 1 < j - 1
      BY <1>3, <1>4, <2>3
    <3> QED BY <2>1, <3>1 DEF Ascending
  <2> QED BY <2>2, <2>3
<1>10. p[Len(p)] = Dest /\ Len(p) >= 2
  BY <1>3, <1>4
<1>11. IsPath(p, n)
  BY <1>4, <1>7, <1>8, <1>10 DEF IsPath
<1> QED BY <1>9, <1>11

\* Of the terminals without a path the first that had a route has a path.
LEMMA PathOfEach ==
  ASSUME RoutingInv, HopsAreLinks, cut = {}
  PROVE  \A n \in Routed : \E p : IsPath(p, n)
<1> DEFINE HasPath(n) == \E p : IsPath(p, n) /\ Ascending(p)
           S == {n \in Routed : ~HasPath(n)}
           T == {learnt[n] : n \in S}
<1> SUFFICES ASSUME S # {} PROVE FALSE
  OBVIOUS
<1>1. NextHopFirst /\ learnt \in [Nodes -> Nat] /\ Routed \subseteq Nodes /\ Dest \notin Routed
      /\ routes \in [Nodes -> Seq(Routes)]
  BY DEF RoutingInv, TypeOK, Routed
<1>2. PICK n \in S : \A k \in S : ~(learnt[k] < learnt[n])
  <2> HIDE DEF HasPath
  <2>1. T \subseteq Nat /\ T # {}
    BY <1>1
  <2>2. PICK x \in T : \A y \in T : ~(<<y, x>> \in OpToRel(<, Nat))
    <3> HIDE DEF T
    <3> QED BY <2>1, WFMin, NatLessThanWellFounded
  <2>3. \A y \in T : ~(y < x)
    BY <2>1, <2>2 DEF OpToRel
  <2> QED BY <2>2, <2>3
<1>3. n \in Routed /\ n \in Nodes
  BY <1>1, <1>2
<1>4. CASE NextHop(n) = Dest
  <2> DEFINE p == <<n, Dest>>
  <2>1. <<n, Dest>> \in Links
    BY <1>1, <1>3, <1>4 DEF HopsAreLinks, NextHop, Routed
  <2>2. p \in Seq(Nodes) /\ Len(p) = 2 /\ p[1] = n /\ p[2] = Dest /\ n # Dest
    BY <1>1, <1>3, NetRoutingAssumption
  <2>3. IsPath(p, n)
    BY <1>3, <1>4, <2>1, <2>2 DEF IsPath
  <2>4. Ascending(p)
    BY <2>2 DEF Ascending
  <2> QED BY <1>2, <2>3, <2>4
<1>5. CASE NextHop(n) # Dest
  <2>1. NextHop(n) \in Routed /\ learnt[NextHop(n)] < learnt[n]
    BY <1>1, <1>3, <1>5 DEF NextHopFirst
  <2>2. NextHop(n) \notin S
    BY <1>2, <2>1
  <2>3. PICK q : IsPath(q, NextHop(n)) /\ Ascending(q)
    BY <2>1, <2>2
  <2> QED BY <1>2, <1>3, <1>5, <2>3, LongerPath
<1> QED BY <1>4, <1>5

(* While no connection is lost there is a path from every terminal that    *)
(* has a route: FindNextHop, asked at each terminal in turn, brings the    *)
(* packet to the destination, over connections that exist.                 *)
THEOREM PathsToDest == Spec => [](cut = {} => \A n \in Routed : \E p : IsPath(p, n))
<1>1. Init => HopsAreLinks
  BY DEF Init, HopsAreLinks
<1>2. RoutingInv /\ HopsAreLinks /\ [Next]_vars => HopsAreLinks'
  BY StepHops
<1>3. RoutingInv /\ HopsAreLinks => (cut = {} => \A n \in Routed : \E p : IsPath(p, n))
  BY PathOfEach
<1> QED BY <1>1, <1>2, <1>3, RoutingInvariance, PTL DEF Spec

(* The next hops as a function, as RouteTree sees them.                    *)
Hops == [n \in Nodes |-> IF routes[n] = <<>> THEN n ELSE NextHop(n)]

LEMMA HopsType ==
  ASSUME NEW table \in [Nodes -> Seq(Routes)]
  PROVE  [n \in Nodes |-> IF table[n] = <<>> THEN n ELSE Hop(Head(table[n]))] \in [Nodes -> Nodes]
<1>1. ASSUME NEW n \in Nodes, table[n] # <<>>
      PROVE  Hop(Head(table[n])) \in Nodes
  <2>1. Head(table[n]) \in Routes
    BY <1>1, HeadTailProperties
  <2> QED BY <2>1, NetRoutingAssumption DEF Hop, Routes
<1> QED BY <1>1

(* A terminal that has no route takes one from a terminal in the tree, or  *)
(* from the destination; one that has a route keeps its next hop.          *)
LEMMA TakesRouteAdopts ==
  ASSUME RoutingInv, NEW n \in Nodes \ {Dest}, NEW r \in Routes,
         r.src = n <=> r.nop = Direct, cut = {},
         Hop(r) \in (Routed \cup {Dest}) \ {n},
         routes' = [routes EXCEPT ![n] = Updated(@, r)]
  PROVE  \/ Hops' = Hops
         \/ /\ Hops[n] = n
            /\ Hop(r) = Dest \/ Hops[Hop(r)] # Hop(r)
            /\ Hops' = [Hops EXCEPT ![n] = Hop(r)]
<1>1. /\ routes \in [Nodes -> Seq(Routes)] /\ OneRouteOfEach(n, routes[n])
      /\ NextHopFirst /\ routes[Dest] = <<>> /\ learnt \in [Nodes -> Nat]
  BY DEF RoutingInv, TypeOK, OneRouteOfEachSource
<1>2. /\ routes'[n] \in Seq(Routes) \ {<<>>}
      /\ routes[n] = <<>> => Head(routes'[n]) = r
      /\ routes[n] # <<>> => Hop(Head(routes'[n])) = Hop(Head(routes[n]))
      /\ \A k \in Nodes \ {n} : routes'[k] = routes[k]
  BY <1>1, UpdatedRoutes
<1>3. \A k \in Nodes \ {n} : Hops'[k] = Hops[k]
  BY <1>2 DEF Hops, NextHop
<1>4. CASE routes[n] # <<>>
  <2>1. Hops'[n] = Hops[n]
    BY <1>2, <1>4 DEF Hops, NextHop
  <2> QED BY <1>3, <2>1 DEF Hops
<1>5. CASE routes[n] = <<>>
  <2>1. Hops[n] = n /\ Hops'[n] = Hop(r)
    BY <1>2, <1>5 DEF Hops, NextHop
  <2>2. Hops' = [Hops EXCEPT ![n] = Hop(r)]
    BY <1>3, <2>1 DEF Hops
  <2>3. ASSUME Hop(r) # Dest PROVE Hops[Hop(r)] # Hop(r)
    <3>1. Hop(r) \in Routed /\ Hop(r) \in Nodes
      BY <2>3 DEF Routed
    <3>2. Hops[Hop(r)] = NextHop(Hop(r))
      BY <3>1 DEF Hops, Routed
    <3>3. NextHop(Hop(r)) # Dest => learnt[NextHop(Hop(r))] < learnt[Hop(r)]
      BY <1>1, <3>1 DEF NextHopFirst
    <3>4. learnt[Hop(r)] \in Nat
      BY <1>1, <3>1
    <3> QED BY <2>3, <3>2, <3>3, <3>4
  <2> QED BY <2>1, <2>2, <2>3
<1> QED BY <1>4, <1>5

LEMMA JoinInTree ==
  ASSUME RoutingInv, NEW n \in Nodes, NEW m \in Nodes, Join(n, m), cut = {}
  PROVE  Hops' = Hops \/ \E k \in Nodes \ {Dest}, h \in Nodes : k # h /\ Tree!Adopt(k, h)
<1>1. n # m /\ cut' = cut
  BY NetRoutingAssumption DEF Join
<1>2. CASE m = Dest
  <2> DEFINE r == Route(n, Direct)
  <2>1. routes' = [routes EXCEPT ![n] = Updated(@, r)]
    BY <1>2 DEF Join
  <2>2. r \in Routes /\ Hop(r) = Dest /\ r.src = n /\ r.nop = Direct
    BY DEF Route, Routes, Hop, Direct
  <2>3. \/ Hops' = Hops
        \/ Hops[n] = n /\ Hops' = [Hops EXCEPT ![n] = Dest]
    <3> HIDE DEF r
    <3> QED BY <1>1, <1>2, <2>1, <2>2, TakesRouteAdopts
  <2> QED BY <1>1, <1>2, <2>3 DEF Tree!Adopt, Hops
<1>3. CASE m # Dest
  BY <1>3 DEF Join, Hops, NextHop
<1> QED BY <1>2, <1>3

LEMMA UpdateInTree ==
  ASSUME RoutingInv, NEW n \in Nodes, NEW m \in Nodes, RecvUpdate(m, n), cut = {}
  PROVE  Hops' = Hops \/ \E k \in Nodes \ {Dest}, h \in Nodes : k # h /\ Tree!Adopt(k, h)
<1> DEFINE r == Route(m, Command(m, n))
<1>1. n # m /\ cut' = cut /\ Command(m, n) # Delete /\ Pending(m, n)
  BY NetRoutingAssumption DEF RecvUpdate, Pending
<1>2. Command(m, n) \in Commands /\ m \in Routed
  BY <1>1, TakenCommand
<1>3. r \in Routes /\ r.src = m /\ r.nop # Direct /\ Hop(r) = m
  BY <1>1, <1>2 DEF Route, Routes, Hop, Commands, Delete, Direct
<1>4. CASE Changes(n, r)
  <2>1. n # Dest /\ routes' = [routes EXCEPT ![n] = Updated(@, r)]
    BY <1>4 DEF RecvUpdate, Changes
  <2>2. \/ Hops' = Hops
        \/ /\ Hops[n] = n /\ (m = Dest \/ Hops[m] # m)
           /\ Hops' = [Hops EXCEPT ![n] = m]
    <3>1. n \in Nodes \ {Dest} /\ (r.src = n <=> r.nop = Direct)
          /\ Hop(r) \in (Routed \cup {Dest}) \ {n}
      BY <1>1, <1>2, <1>3, <2>1
    <3> HIDE DEF r
    <3>2. \/ Hops' = Hops
          \/ /\ Hops[n] = n /\ (Hop(r) = Dest \/ Hops[Hop(r)] # Hop(r))
             /\ Hops' = [Hops EXCEPT ![n] = Hop(r)]
      BY <1>3, <2>1, <3>1, TakesRouteAdopts
    <3> QED BY <1>3, <3>2
  <2> QED BY <1>1, <2>1, <2>2 DEF Tree!Adopt, Hops
<1>5. CASE ~Changes(n, r)
  BY <1>5 DEF RecvUpdate, Hops, NextHop
<1> QED BY <1>4, <1>5

(* While no connection is lost the routes are a tree that only grows.      *)
THEOREM RoutesAreATree == Spec => ImplementsTree
<1>1. Init => Tree!Init
  BY DEF Init, Tree!Init
<1>2. ASSUME RoutingInv, RoutingInv', [Next]_vars
      PROVE  [Tree!Next]_<<Hops, cut # {}>>
  <2>1. Hops \in [Nodes -> Nodes] /\ Hops' \in [Nodes -> Nodes]
    <3>1. routes \in [Nodes -> Seq(Routes)] /\ routes' \in [Nodes -> Seq(Routes)]
      BY <1>2 DEF RoutingInv, TypeOK
    <3> QED BY <3>1, HopsType DEF Hops, NextHop
  <2>2. CASE \E n, m \in Nodes : Cut(n, m)
    <3>1. Hops' = Hops /\ cut' # {}
      BY <2>2 DEF Cut, Hops, NextHop
    <3> QED BY <3>1 DEF Tree!Next, Tree!Lose, Hops
  <2>3. CASE cut' = cut /\ cut # {}
    BY <2>1, <2>3 DEF Tree!Next, Tree!Unreliable, Hops
  <2>4. CASE cut = {} /\ \E n, m \in Nodes : Join(n, m) \/ RecvUpdate(m, n)
    <3>1. Hops' = Hops \/ \E k \in Nodes \ {Dest}, h \in Nodes : k # h /\ Tree!Adopt(k, h)
      BY <1>2, <2>4, JoinInTree, UpdateInTree
    <3>2. cut' = cut
      BY <2>4 DEF Join, RecvUpdate
    <3> QED BY <2>4, <3>1, <3>2 DEF Tree!Next
  <2>5. CASE cut = {} /\ \E n, m \in Nodes : RecvDelete(m, n) \/ Leave(n, m)
    <3>1. ASSUME NEW n \in Nodes, NEW m \in Nodes PROVE ~Leave(n, m)
      BY <2>5 DEF Leave
    <3>2. ASSUME NEW n \in Nodes, NEW m \in Nodes PROVE ~RecvDelete(m, n)
      BY <1>2, <2>5, TakenCommand DEF RecvDelete
    <3> QED BY <2>5, <3>1, <3>2
  <2>6. CASE UNCHANGED vars
    BY <2>6 DEF vars, Hops, NextHop
  <2>7. cut' = cut \/ \E n, m \in Nodes : Cut(n, m)
    BY <1>2 DEF Next, Join, RecvUpdate, RecvDelete, Leave, vars
  <2> QED BY <1>2, <2>2, <2>3, <2>4, <2>5, <2>6, <2>7 DEF Next
<1>3. RoutingInv /\ RoutingInv' /\ [Next]_vars => [Tree!Next]_<<Hops, cut # {}>>
  BY <1>2
<1> QED BY <1>1, <1>3, RoutingInvariance, PTL DEF Spec, ImplementsTree, Tree!Spec, Hops
=============================================================================
