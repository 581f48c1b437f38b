----------------------------- MODULE NetRouting -----------------------------
(***************************************************************************)
(* The routes to one destination, NetCombTransfer: each terminal keeps, in *)
(* the order they were learnt, the routes its neighbours told it of, uses  *)
(* the first, and passes every change on.  No handler looks at the routes  *)
(* to two destinations at once, so the whole table is a product of these.  *)
(***************************************************************************)
EXTENDS Integers, Sequences, FiniteSets

CONSTANTS
  Nodes,    \* the terminals
  Dest,     \* the terminal the routes lead to
  Links,    \* pairs of terminals that connect, in both orders
  MaxCuts   \* bound on the connections lost

ASSUME NetRoutingAssumption ==
  /\ Dest \in Nodes /\ MaxCuts \in Nat
  /\ Links \subseteq Nodes \X Nodes
  /\ \A e \in Links : e[1] # e[2] /\ <<e[2], e[1]>> \in Links

VARIABLES
  terminals,  \* m_TerminalList of each node: the neighbours it has channels to
  routes,     \* m_RouterInfoList of each node: [src, nop] of each route to Dest
  link,       \* commands from one node to another, not handled yet
  cut,        \* the connections lost
  left,       \* the lost connections whose first end has handled ChannelLeaved
  learnt,     \* history: when each node first had a route, 0 for never
  clock       \* history: the first routes learnt so far

vars == <<terminals, routes, link, cut, left, learnt, clock>>

Delete == -1   \* a command is this, or the hops of an update
Direct == 0

Init ==
  /\ terminals = [n \in Nodes |-> {}]
  /\ routes = [n \in Nodes |-> <<>>]
  /\ link = [e \in Links |-> <<>>]
  /\ cut = {} /\ left = {}
  /\ learnt = [n \in Nodes |-> 0] /\ clock = 0

-----------------------------------------------------------------------------
(* Helpers on one node's list of routes.                                   *)
Route(s, k) == [src |-> s, nop |-> k]

\* Mutant: only the first route is compared with the new one.
FromFirst(list, s) == {i \in DOMAIN list : i = 1 /\ list[i].src = s}

From(list, s) == {i \in DOMAIN list : list[i].src = s}

\* Mutant: a route learnt later is put in front.
AddedInFront(list, r) == <<r>> \o list

AddTail(list, r) == Append(list, r)

(* UpdateRouterInfo: a source's route is replaced by a shorter one, and    *)
(* added if the source has none; anything else changes nothing.            *)
Updated(list, r) ==
  IF From(list, r.src) = {} THEN AddTail(list, r)
  ELSE [i \in DOMAIN list |->
          IF list[i].src = r.src /\ r.nop < list[i].nop THEN r ELSE list[i]]

Changes(n, r) == n # Dest /\ Updated(routes[n], r) # routes[n]

\* A route of no hops leads to the destination, any other to its source.
Hop(r) == IF r.nop = Direct THEN Dest ELSE r.src

\* Mutant: the shortest route decides.
NextHopShortest(n) ==
  LET best == CHOOSE i \in DOMAIN routes[n] :
                \A j \in DOMAIN routes[n] : routes[n][i].nop <= routes[n][j].nop
  IN  Hop(routes[n][best])

(* FindNextHop: the first route in the list decides.                       *)
NextHop(n) == Hop(Head(routes[n]))

-----------------------------------------------------------------------------
(* SendRouterInfoToAll goes through the terminals and stops at the first   *)
(* that cannot be sent to: any of the others may be left out then.  A lost *)
(* connection swallows what is sent, or refuses it.                        *)
Broken(n) == {t \in Nodes : <<n, t>> \in cut}

Reached(n, targets) ==
  IF targets \cap Broken(n) = {} THEN {targets}
  ELSE {r \ Broken(n) : r \in SUBSET targets}

\* Mutant: the test is the wrong way round.
OnlyTheSource(n, ex) == terminals[n] \cap {ex}

(* All terminals but the one the command came from.                        *)
Others(n, ex) == terminals[n] \ {ex}

Sent(l, n, reached, commands) ==
  [e \in Links |-> IF e[1] = n /\ e[2] \in reached THEN l[e] \o commands ELSE l[e]]

(* History: a node that had no route has one now.                          *)
Learn(n) ==
  IF routes[n] = <<>> /\ routes'[n] # <<>>
  THEN clock' = clock + 1 /\ learnt' = [learnt EXCEPT ![n] = clock + 1]
  ELSE UNCHANGED <<clock, learnt>>

\* Mutant: the hop to the neighbour is not counted.
KnownSameHops(n) == [i \in DOMAIN routes[n] |-> routes[n][i].nop]

\* Mutant: the new neighbour is told of nothing.
KnownForgotten(n) == <<>>

(* SendRouterInfo: the new neighbour is told of every route, one hop more, *)
(* unless it is the destination itself.                                    *)
Known(n) == [i \in DOMAIN routes[n] |-> routes[n][i].nop + 1]

(* eCommandRemoteUDPPortNotify, MoveChannelToTerminal: m becomes a         *)
(* terminal of n, with a route of no hops, and the others are told of it.  *)
Join(n, m) ==
  /\ <<n, m>> \in Links \ left
  /\ m \notin terminals[n]
  /\ terminals' = [terminals EXCEPT ![n] = @ \cup {m}]
  /\ routes' = IF m = Dest THEN [routes EXCEPT ![n] = Updated(@, Route(n, Direct))]
               ELSE routes
  /\ \E reached \in Reached(n, terminals[n] \cup {m}) :
       link' = IF m = Dest THEN Sent(link, n, reached \ {m}, <<Direct + 1>>)
               ELSE Sent(link, n, reached \cap {m}, Known(n))
  /\ Learn(n)
  /\ UNCHANGED <<cut, left>>

Pending(m, n) == <<m, n>> \in Links /\ link[<<m, n>>] # <<>>
Command(m, n) == Head(link[<<m, n>>])
Taken(m, n) == [link EXCEPT ![<<m, n>>] = Tail(@)]

(* eCommandRouterInfoNotify: UpdateRouterInfo, and a change is passed on   *)
(* to all terminals but the one it came from.                              *)
RecvUpdate(m, n) ==
  /\ Pending(m, n) /\ Command(m, n) # Delete
  /\ LET r == Route(m, Command(m, n))
     IN IF Changes(n, r)
        THEN /\ routes' = [routes EXCEPT ![n] = Updated(@, r)]
             /\ \E reached \in Reached(n, Others(n, m)) :
                  link' = Sent(Taken(m, n), n, reached, <<r.nop + 1>>)
        ELSE routes' = routes /\ link' = Taken(m, n)
  /\ Learn(n)
  /\ UNCHANGED <<terminals, cut, left>>

(* eCommandRouterInfoDeleteNotify: DeleteRouterInfo drops the routes of    *)
(* every source and is always passed on.                                   *)
RecvDelete(m, n) ==
  /\ Pending(m, n) /\ Command(m, n) = Delete
  /\ routes' = [routes EXCEPT ![n] = <<>>]
  /\ \E reached \in Reached(n, Others(n, m)) :
       link' = Sent(Taken(m, n), n, reached, <<Delete>>)
  /\ UNCHANGED <<terminals, cut, left, learnt, clock>>

-----------------------------------------------------------------------------
(* A connection is lost, and what was under way on it, from some point on: *)
(* what had arrived is in the m_MsgList of its receiver.                   *)
Cut(n, m) ==
  /\ <<n, m>> \in Links \ cut
  /\ Cardinality(cut) < 2 * MaxCuts
  /\ cut' = cut \cup {<<n, m>>, <<m, n>>}
  /\ \E i \in 0 .. Len(link[<<n, m>>]), j \in 0 .. Len(link[<<m, n>>]) :
       link' = [link EXCEPT ![<<n, m>>] = SubSeq(@, 1, i), ![<<m, n>>] = SubSeq(@, 1, j)]
  /\ UNCHANGED <<terminals, routes, left, learnt, clock>>

(* SendRouterInfoToAllAndUpdate: the route a source told of is dropped     *)
(* when the delete commands could be sent.                                 *)
Dropped(list, i) == SubSeq(list, 1, i - 1) \o SubSeq(list, i + 1, Len(list))

(* The last channel to m leaves: TerminalTraverse takes m out of the       *)
(* terminals and withdraws the routes to it, or those it told of.          *)
Leave(n, m) ==
  /\ <<n, m>> \in cut \ left
  /\ left' = left \cup {<<n, m>>}
  /\ terminals' = [terminals EXCEPT ![n] = @ \ {m}]
  /\ IF m \in terminals[n] /\ (m = Dest \/ From(routes[n], m) # {})
     THEN LET rest == terminals[n] \ {m}
          IN \E reached \in Reached(n, rest) :
               /\ link' = Sent(link, n, reached, <<Delete>>)
               /\ \/ /\ m = Dest
                     /\ routes' = [routes EXCEPT ![n] = <<>>]
                  \/ /\ m # Dest
                     /\ \E i \in From(routes[n], m) :
                          routes' = [routes EXCEPT ![n] = Dropped(@, i)]
                  \/ /\ m # Dest /\ rest \cap Broken(n) # {}
                     /\ routes' = routes
     ELSE UNCHANGED <<routes, link>>
  /\ UNCHANGED <<cut, learnt, clock>>

-----------------------------------------------------------------------------
Next ==
  \E n, m \in Nodes :
    Join(n, m) \/ RecvUpdate(m, n) \/ RecvDelete(m, n) \/ Cut(n, m) \/ Leave(n, m)

Spec == Init /\ [][Next]_vars

(* Channels get through and the command thread runs; what is lost is told. *)
LiveSpec ==
  /\ Spec
  /\ \A e \in Links : /\ WF_vars(Join(e[1], e[2])) /\ WF_vars(Leave(e[1], e[2]))
                      /\ WF_vars(RecvUpdate(e[1], e[2])) /\ WF_vars(RecvDelete(e[1], e[2]))

-----------------------------------------------------------------------------
Routes == [src : Nodes, nop : Nat]
Commands == {Delete} \cup (Nat \ {Direct})

TypeOK ==
  /\ terminals \in [Nodes -> SUBSET Nodes]
  /\ routes \in [Nodes -> Seq(Routes)]
  /\ link \in [Links -> Seq(Commands)]
  /\ cut \subseteq Links /\ left \subseteq cut
  /\ learnt \in [Nodes -> Nat] /\ clock \in Nat

Routed == {n \in Nodes : routes[n] # <<>>}

(* As long as no connection is lost a packet that is passed on from next   *)
(* hop to next hop gets to the destination: it meets no terminal without a *)
(* route, and no terminals pass it around among themselves, whatever the   *)
(* order in which they met and learnt their routes (FindNextHop takes the  *)
(* first route, not the shortest).                                         *)
RoutesLead ==
  cut = {} =>
    \A S \in SUBSET Routed :
      S # {} => \E n \in S : NextHop(n) \in (Routed \cup {Dest}) \ S

(* While no connection is lost the first routes of all terminals are a     *)
(* tree that only grows: a terminal never changes its next hop (RouteTree, *)
(* UpdateRouterInfo adds at the end of the list and replaces in place).    *)
Tree == INSTANCE RouteTree
  WITH hop <- [n \in Nodes |-> IF routes[n] = <<>> THEN n ELSE NextHop(n)],
       lost <- cut # {}

ImplementsTree == Tree!Spec

(* What the proofs of the properties above rest on: a node has one route   *)
(* of each source, and only its own is direct; until a connection is lost  *)
(* only nodes with a route send updates, and a next hop had its route      *)
(* first.                                                                  *)
OneRouteOfEach(n, list) ==
  \A i, j \in DOMAIN list :
    /\ list[i].src = list[j].src => i = j
    /\ list[i].src = n <=> list[i].nop = Direct

OneRouteOfEachSource == \A n \in Nodes : OneRouteOfEach(n, routes[n])

OnlyRoutedSend ==
  \A e \in Links : \A i \in DOMAIN link[e] : link[e][i] # Delete /\ e[1] \in Routed

NextHopFirst ==
  \A n \in Routed :
    /\ learnt[n] <= clock
    /\ NextHop(n) # Dest => NextHop(n) \in Routed /\ learnt[NextHop(n)] < learnt[n]

RoutingInv ==
  /\ TypeOK /\ OneRouteOfEachSource /\ routes[Dest] = <<>>
  /\ cut = {} => OnlyRoutedSend /\ NextHopFirst

(* Every terminal gets a route, in whatever order they meet, as long as no *)
(* connection is lost.                                                     *)
EveryTerminalRouted == <>(cut # {} \/ Routed = Nodes \ {Dest})

(* The commands die out: updates and deletes are not passed on for ever.   *)
CommandsDieOut == <>[](\A e \in Links : link[e] = <<>>)

(* A terminal that is connected has a route (DoRecvData takes no data of a *)
(* terminal without one: "judge whether the sender is online now").        *)
OnlineTerminalHasRoute ==
  \A n \in Nodes : Dest \in terminals[n] => routes[n] # <<>>

=============================================================================
