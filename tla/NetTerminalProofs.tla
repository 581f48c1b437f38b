------------------------- MODULE NetTerminalProofs -------------------------
(***************************************************************************)
(* Proofs about the channels of a terminal, for any connections, terminals *)
(* and bounds: no connected channel is lost and the rotation is fair.      *)
(***************************************************************************)
EXTENDS NetTerminal, SequenceTheorems, WellFoundedInduction, TLAPS

(* There is a first position, and it is one of the positions.              *)
LEMMA FirstIsOne ==
  ASSUME NEW S \in SUBSET Nat, S # {}
  PROVE  FirstOf(S) \in S
<1>1. PICK i \in S : \A j \in S : ~(<<j, i>> \in OpToRel(<, Nat))
  BY WFMin, NatLessThanWellFounded
<1>2. \A j \in S : ~(j < i)
  BY <1>1 DEF OpToRel
<1>3. \A j \in S : i <= j
  BY <1>2
<1> QED
  BY <1>3 DEF FirstOf

LEMMA PositionOf ==
  ASSUME NEW S, NEW s \in Seq(S), NEW o \in Elements(s)
  PROVE  Position(s, o) \in DOMAIN s /\ s[Position(s, o)] = o
<1>1. {i \in DOMAIN s : s[i] = o} \in SUBSET Nat /\ {i \in DOMAIN s : s[i] = o} # {}
  BY DEF Elements
<1> QED
  BY <1>1, FirstIsOne DEF Position

(* The channel WithCid finds is in the list and has the number.            *)
LEMMA FoundChannel ==
  ASSUME NEW list \in Seq(Made), NEW c
  PROVE  \/ WithCid(list, c) = None /\ \A o \in Elements(list) : Cid(o) # c
         \/ WithCid(list, c) \in Elements(list) /\ Cid(WithCid(list, c)) = c
<1> DEFINE found == {i \in DOMAIN list : Cid(list[i]) = c}
<1>1. CASE found = {}
  BY <1>1 DEF WithCid, Elements
<1>2. CASE found # {}
  <2>1. found \in SUBSET Nat
    BY DOMAIN list = 1 .. Len(list)
  <2> HIDE DEF found
  <2>2. FirstOf(found) \in found
    BY <1>2, <2>1, FirstIsOne
  <2> QED BY <1>2, <2>2 DEF WithCid, Elements, found
<1> QED BY <1>1, <1>2

(* RemoveAt takes out one position and closes the gap.                     *)
Skip(m, i) == IF i < m THEN i ELSE i + 1

LEMMA Removed ==
  ASSUME NEW S, NEW list \in Seq(S), NEW o \in Elements(list)
  PROVE  /\ RemoveAt(list, o) \in Seq(S)
         /\ Len(RemoveAt(list, o)) = Len(list) - 1
         /\ Position(list, o) \in 1 .. Len(list)
         /\ \A i \in 1 .. Len(list) - 1 :
              /\ RemoveAt(list, o)[i] = list[Skip(Position(list, o), i)]
              /\ Skip(Position(list, o), i) \in 1 .. Len(list)
<1> DEFINE m == Position(list, o)
           a == SubSeq(list, 1, m - 1)
           b == SubSeq(list, m + 1, Len(list))
<1>1. m \in 1 .. Len(list) /\ Len(list) \in Nat
  BY PositionOf, DOMAIN list = 1 .. Len(list)
<1> HIDE DEF m
<1>2. /\ a \in Seq(S) /\ Len(a) = m - 1 /\ \A i \in 1 .. m - 1 : a[i] = list[i]
  BY <1>1, SubSeqProperties
<1>3. /\ b \in Seq(S) /\ Len(b) = Len(list) - m /\ \A i \in 1 .. Len(list) - m : b[i] = list[m + i]
  BY <1>1, SubSeqProperties
<1>4. RemoveAt(list, o) = a \o b
  BY DEF RemoveAt, m
<1> HIDE DEF a, b
<1>5. /\ a \o b \in Seq(S) /\ Len(a \o b) = Len(list) - 1
      /\ \A i \in 1 .. Len(list) - 1 : (a \o b)[i] = IF i <= m - 1 THEN a[i] ELSE b[i - (m - 1)]
  <2>1. /\ a \o b \in Seq(S) /\ Len(a \o b) = Len(a) + Len(b)
        /\ \A i \in 1 .. Len(a) + Len(b) : (a \o b)[i] = IF i <= Len(a) THEN a[i] ELSE b[i - Len(a)]
    BY <1>2, <1>3, ConcatProperties, Zenon
  <2>2. Len(a) + Len(b) = Len(list) - 1 /\ Len(a) = m - 1
    BY <1>1, <1>2, <1>3
  <2> QED BY <2>1, <2>2
<1>6. ASSUME NEW i \in 1 .. Len(list) - 1
      PROVE  (a \o b)[i] = list[Skip(m, i)] /\ Skip(m, i) \in 1 .. Len(list)
  <2>1. CASE i < m
    BY <1>1, <1>2, <1>5, <2>1 DEF Skip
  <2>2. CASE ~(i < m)
    <3>1. i - (m - 1) \in 1 .. Len(list) - m /\ m + (i - (m - 1)) = i + 1
      BY <1>1, <2>2
    <3> QED BY <1>1, <1>3, <1>5, <2>2, <3>1 DEF Skip
  <2> QED BY <2>1, <2>2
<1> QED BY <1>1, <1>4, <1>5, <1>6 DEF m

LEMMA RemovedElements ==
  ASSUME NEW S, NEW list \in Seq(S), NEW o
  PROVE  /\ RemoveAt(list, o) \in Seq(S)
         /\ Elements(list) \ {o} \subseteq Elements(RemoveAt(list, o))
         /\ Elements(RemoveAt(list, o)) \subseteq Elements(list)
         /\ Once(list) => Once(RemoveAt(list, o)) /\ o \notin Elements(RemoveAt(list, o))
<1>1. CASE o \notin Elements(list)
  BY <1>1 DEF RemoveAt
<1>2. CASE o \in Elements(list)
  <2> DEFINE m == Position(list, o)
             r == RemoveAt(list, o)
  <2>1. /\ r \in Seq(S) /\ Len(r) = Len(list) - 1 /\ m \in 1 .. Len(list) /\ list[m] = o
        /\ DOMAIN r = 1 .. Len(list) - 1 /\ DOMAIN list = 1 .. Len(list) /\ Len(list) \in Nat
    BY <1>2, Removed, PositionOf
  <2>2. \A i \in DOMAIN r : r[i] = list[Skip(m, i)] /\ Skip(m, i) \in DOMAIN list
    BY <1>2, <2>1, Removed
  <2> HIDE DEF m, r
  <2>3. ASSUME NEW x \in Elements(list), x # o PROVE x \in Elements(r)
    <3>1. PICK i \in DOMAIN list : list[i] = x /\ i # m
      BY <2>1, <2>3 DEF Elements
    <3>2. CASE i < m
      <4>1. i \in DOMAIN r /\ Skip(m, i) = i
        BY <2>1, <3>1, <3>2 DEF Skip
      <4> QED BY <2>2, <3>1, <4>1 DEF Elements
    <3>3. CASE i > m
      <4>1. i - 1 \in DOMAIN r /\ Skip(m, i - 1) = i
        BY <2>1, <3>1, <3>3 DEF Skip
      <4> QED BY <2>2, <3>1, <4>1 DEF Elements
    <3> QED BY <2>1, <3>1, <3>2, <3>3
  <2>4. Elements(r) \subseteq Elements(list)
    BY <2>2 DEF Elements
  <2>5. ASSUME Once(list) PROVE Once(r) /\ o \notin Elements(r)
    <3>1. \A i, j \in DOMAIN r : r[i] = r[j] => Skip(m, i) = Skip(m, j)
      BY <2>2, <2>5 DEF Once
    <3>2. \A i, j \in DOMAIN r : Skip(m, i) = Skip(m, j) => i = j
      BY <2>1 DEF Skip
    <3>3. \A i \in DOMAIN r : Skip(m, i) # m
      BY <2>1 DEF Skip
    <3>4. \A i \in DOMAIN r : r[i] # o
      BY <2>1, <2>2, <2>5, <3>3 DEF Once
    <3> QED BY <3>1, <3>2, <3>4 DEF Once, Elements
  <2> QED BY <2>1, <2>3, <2>4, <2>5 DEF r
<1> QED BY <1>1, <1>2

-----------------------------------------------------------------------------
Records == [cid : Cids, remote : Peers, tid : Peers \cup {None},
            state : {"connected", "rid", "port"}, temp : BOOLEAN]

LEMMA Channels ==
  ASSUME TypeOK
  PROVE  /\ Made = 1 .. Len(channels) /\ Len(channels) \in Nat
         /\ channels \in Seq(Records)
         /\ \A o \in Made : o # None /\ channels[o] \in Records /\ Cid(o) \in Cids
<1>1. channels \in Seq(Records)
  BY DEF TypeOK, Records
<1>2. Made = 1 .. Len(channels) /\ Len(channels) \in Nat /\ \A o \in Made : channels[o] \in Records
  BY <1>1, LenProperties, ElementOfSeq DEF Made
<1>3. \A o \in Made : channels[o].cid \in Cids
  BY <1>2 DEF Records
<1> QED BY <1>1, <1>2, <1>3 DEF Cid, None

(* One channel is changed.                                                 *)
LEMMA OneChanged ==
  ASSUME TypeOK, NEW o \in Made, NEW r \in Records, channels' = [channels EXCEPT ![o] = r]
  PROVE  /\ channels' \in Seq(Records) /\ Made' = Made
         /\ \A x \in Made : channels'[x] = IF x = o THEN r ELSE channels[x]
<1>1. o \in 1 .. Len(channels) /\ channels \in Seq(Records)
  BY Channels
<1>2. channels' \in Seq(Records) /\ Len(channels') = Len(channels)
  BY <1>1, ExceptSeq
<1>3. \A x \in 1 .. Len(channels) : channels'[x] = IF x = o THEN r ELSE channels[x]
  BY <1>1, ExceptSeq
<1>4. DOMAIN channels' = DOMAIN channels
  BY <1>1, <1>2, LenProperties
<1> QED BY <1>1, <1>2, <1>3, <1>4, Channels DEF Made

LEMMA Unmarked ==
  ASSUME TypeOK, NEW o \in Made, UnmarkTemp(o)
  PROVE  /\ channels' \in Seq(Records) /\ Made' = Made
         /\ \A x \in Made : /\ channels'[x].cid = channels[x].cid
                            /\ channels'[x].tid = channels[x].tid
                            /\ channels'[x].state = channels[x].state
<1>1. channels[o] \in Records
  BY Channels
<1> DEFINE r == [channels[o] EXCEPT !.temp = FALSE]
<1>2. r \in Records /\ r.cid = channels[o].cid /\ r.tid = channels[o].tid /\ r.state = channels[o].state
  BY <1>1 DEF Records
<1>3. channels' = [channels EXCEPT ![o] = r]
  BY DEF UnmarkTemp
<1> HIDE DEF r
<1>4. /\ channels' \in Seq(Records) /\ Made' = Made
      /\ \A x \in Made : channels'[x] = IF x = o THEN r ELSE channels[x]
  BY <1>2, <1>3, OneChanged, Zenon
<1> QED BY <1>2, <1>4

\* What the lists may rely on: connections, numbers and ports stay.
PortsKept ==
  /\ Made' = Made
  /\ \A x \in Made :
       /\ channels'[x].cid = channels[x].cid
       /\ channels'[x].state = "port" <=> channels[x].state = "port"
       /\ channels[x].state = "port" => channels'[x].tid = channels[x].tid

LEMMA ElementsAreMade ==
  ASSUME TypeOK
  PROVE  /\ Elements(tempList) \subseteq Made
         /\ \A p \in Peers : chanList[p] \in Seq(Made) /\ Elements(chanList[p]) \subseteq Made
         /\ \A p \in Peers : DOMAIN chanList[p] = 1 .. Len(chanList[p]) /\ Len(chanList[p]) \in Nat
         /\ DOMAIN waiting = Made
BY ElementOfSeq, LenProperties DEF TypeOK, Elements

LEMMA TurnsSame ==
  ASSUME TurnsInv, PortsKept, UNCHANGED <<chanList, next, waiting>>
  PROVE  TurnsInv'
BY DEF TurnsInv, PortsKept, Elements

(* Nothing moves among the lists.                                          *)
LEMMA ListsKept ==
  ASSUME TypeOK, NoChannelLost, ListsInv, TurnsInv, PortsKept,
         \A x \in Made : Alive(x)' => Alive(x),
         UNCHANGED <<tempList, chanList, next, waiting, moving>>
  PROVE  NoChannelLost' /\ ListsInv' /\ TurnsInv'
<1>1. \A x \in Made : Alive(x)' => Alive(x)
  OBVIOUS
<1>2. \A x : Held(x)' <=> Held(x)
  BY DEF Held, Elements
<1>3. NoChannelLost'
  BY <1>1, <1>2 DEF NoChannelLost, PortsKept, Elements
<1>4. moving \in Made \cup {None} /\ next \in [Peers -> Made \cup {None}]
  BY DEF TypeOK
<1>5. ListsInv'
  <2>1. Once(tempList)' /\ \A o \in Elements(tempList)' : o # moving' => channels'[o].state # "port"
    BY ElementsAreMade DEF ListsInv, PortsKept, Elements, Once
  <2>2. ASSUME NEW p \in Peers
        PROVE  /\ Once(chanList[p])'
               /\ \A o \in Elements(chanList[p])' : channels'[o].tid = p /\ channels'[o].state = "port"
               /\ next'[p] # None => channels'[next'[p]].state = "port"
    BY <1>4, ElementsAreMade DEF ListsInv, PortsKept, Elements, Once
  <2>3. moving' # None => channels'[moving'].state = "port" /\ (Alive(moving)' => Held(moving)')
    BY <1>1, <1>2, <1>4 DEF ListsInv, PortsKept
  <2> QED BY <2>1, <2>2, <2>3 DEF ListsInv
<1>6. TurnsInv'
  BY TurnsSame
<1> QED BY <1>3, <1>5, <1>6

LEMMA ListsSame ==
  ASSUME TypeOK, NoChannelLost, ListsInv, TurnsInv, PortsKept, broken \subseteq broken',
         UNCHANGED <<tempList, chanList, next, waiting, moving, link>>
  PROVE  NoChannelLost' /\ ListsInv' /\ TurnsInv'
<1>1. \A x \in Made : Alive(x)' => Alive(x)
  BY DEF Alive, Up, Cid, PortsKept
<1> QED BY <1>1, ListsKept

LEMMA StutterKeeps ==
  ASSUME TerminalInv, UNCHANGED vars
  PROVE  TerminalInv'
<1>1. TypeOK'
  BY DEF TerminalInv, vars, TypeOK, Made
<1>2. LinksInv'
  BY DEF TerminalInv, vars, LinksInv, Cid, Up
<1>3. PortsKept
  BY DEF PortsKept, vars, Made
<1> QED BY <1>1, <1>2, <1>3, ListsSame DEF TerminalInv, vars

LEMMA BreakKeeps ==
  ASSUME TerminalInv, NEW c \in Cids, Break(c)
  PROVE  TerminalInv'
<1>1. TypeOK'
  <2>1. wire' \in [Cids -> Seq({"rid", "port"})] /\ broken' \subseteq Cids
    BY EmptySeq DEF TerminalInv, Break, TypeOK
  <2> QED BY <2>1 DEF TerminalInv, Break, TypeOK, Made
<1>2. LinksInv'
  <2>1. wire \in [Cids -> Seq({"rid", "port"})]
    BY DEF TerminalInv, TypeOK
  <2> QED BY <2>1 DEF TerminalInv, Break, LinksInv, Cid, Up
<1>3. PortsKept
  BY DEF PortsKept, Break, Made
<1> QED BY <1>1, <1>2, <1>3, ListsSame DEF TerminalInv, Break

LEMMA ArriveKeeps ==
  ASSUME TerminalInv, NEW c \in Cids, Arrive(c)
  PROVE  TerminalInv'
<1> DEFINE m == [kind |-> Head(wire[c]), cid |-> c, tid |-> channels[link[c]].remote]
<1>1. /\ wire \in [Cids -> Seq({"rid", "port"})] /\ wire[c] # <<>>
      /\ link \in [Cids -> Made \cup {None}] /\ Up(c)
  BY DEF TerminalInv, TypeOK, Arrive, LinksInv
<1>2. Head(wire[c]) \in {"rid", "port"} /\ Tail(wire[c]) \in Seq({"rid", "port"})
  BY <1>1, HeadTailProperties
<1>3. channels[link[c]].remote \in Peers
  BY <1>1, Channels DEF TerminalInv, Up, Records
<1>4. m \in [kind : {"rid", "port"}, cid : Cids, tid : Peers]
  BY <1>2, <1>3
<1>5. msgList' \in Seq([kind : {"rid", "port"}, cid : Cids, tid : Peers])
  <2>1. msgList \in Seq([kind : {"rid", "port"}, cid : Cids, tid : Peers]) /\ msgList' = Append(msgList, m)
    BY DEF TerminalInv, TypeOK, Arrive
  <2> HIDE DEF m
  <2> QED BY <1>4, <2>1, AppendProperties
<1>6. wire' \in [Cids -> Seq({"rid", "port"})]
  BY <1>1, <1>2 DEF Arrive
<1>7. TypeOK'
  BY <1>5, <1>6 DEF TerminalInv, Arrive, TypeOK, Made
<1>8. LinksInv'
  BY <1>1 DEF TerminalInv, Arrive, LinksInv, Cid, Up
<1>9. PortsKept
  BY DEF PortsKept, Arrive, Made
<1> QED BY <1>7, <1>8, <1>9, ListsSame DEF TerminalInv, Arrive

(* An answer is asked for only over a connection that is up.               *)
LEMMA AskedTypes ==
  ASSUME TypeOK, LinksInv, NEW c \in Cids, NEW kind \in {"rid", "port"}
  PROVE  /\ Asked(c, kind) \in Seq({"rid", "port"})
         /\ Asked(c, kind) # <<>> => Up(c)
<1>1. wire[c] \in Seq({"rid", "port"})
  BY DEF TypeOK
<1>2. Append(wire[c], kind) \in Seq({"rid", "port"})
  BY <1>1, AppendProperties
<1> QED BY <1>1, <1>2 DEF Asked, LinksInv

LEMMA TakenCommand ==
  ASSUME TypeOK, NEW kind, Pending(kind)
  PROVE  /\ Tail(msgList) \in Seq([kind : {"rid", "port"}, cid : Cids, tid : Peers])
         /\ Head(msgList) \in [kind : {"rid", "port"}, cid : Cids, tid : Peers]
         /\ moving = None
BY HeadTailProperties DEF TypeOK, Pending

LEMMA RemoteIDKeeps ==
  ASSUME TerminalInv, RecvRemoteID
  PROVE  TerminalInv'
<1> DEFINE m == Head(msgList)
           o == WithCid(tempList, m.cid)
<1>1. /\ TypeOK /\ LinksInv /\ ListsInv /\ TurnsInv /\ NoChannelLost
      /\ m \in [kind : {"rid", "port"}, cid : Cids, tid : Peers]
      /\ msgList' \in Seq([kind : {"rid", "port"}, cid : Cids, tid : Peers])
      /\ moving = None
  BY TakenCommand DEF TerminalInv, RecvRemoteID
<1>2. m.cid \in Cids /\ m.tid \in Peers
  BY <1>1
<1>3. UNCHANGED <<link, broken, tempList, chanList, next, moving, udpOpen, waiting>>
  BY DEF RecvRemoteID
<1>4. CASE o = None
  <2>1. UNCHANGED <<channels, wire>>
    BY <1>4 DEF RecvRemoteID
  <2>2. TypeOK'
    BY <1>1, <1>3, <2>1 DEF TypeOK, Made
  <2>3. LinksInv'
    BY <1>1, <1>3, <2>1 DEF LinksInv, Cid, Up
  <2>4. PortsKept
    BY <2>1 DEF PortsKept, Made
  <2> QED BY <1>1, <1>3, <2>2, <2>3, <2>4, ListsSame DEF TerminalInv
<1>5. CASE o # None
  <2>1. o \in Elements(tempList) /\ o \in Made /\ channels[o].state # "port"
    <3>1. tempList \in Seq(Made)
      BY <1>1 DEF TypeOK
    <3>2. o \in Elements(tempList)
      BY <1>5, <3>1, FoundChannel
    <3>3. o \in Made
      BY <1>1, <3>2, ElementsAreMade
    <3> QED BY <1>1, <1>5, <3>2, <3>3 DEF ListsInv
  <2> DEFINE r == [channels[o] EXCEPT !.tid = m.tid, !.state = "rid"]
  <2>2. channels' = [channels EXCEPT ![o].tid = m.tid, ![o].state = "rid"]
    BY <1>5 DEF RecvRemoteID
  <2>3. channels' = [channels EXCEPT ![o] = r]
    BY <1>1, <2>1, <2>2, Channels
  <2>4. r \in Records /\ r.cid = channels[o].cid /\ r.tid = m.tid /\ r.state = "rid"
    BY <1>1, <1>2, <2>1, Channels DEF Records
  <2>5. wire' \in {wire, [wire EXCEPT ![m.cid] = Asked(m.cid, "port")]}
    BY <1>5 DEF RecvRemoteID
  <2> HIDE DEF m, o, r
  <2>6. /\ channels' \in Seq(Records) /\ Made' = Made
        /\ \A x \in Made : channels'[x] = IF x = o THEN r ELSE channels[x]
    BY <1>1, <2>1, <2>3, <2>4, OneChanged, Zenon
  <2>7. wire \in [Cids -> Seq({"rid", "port"})]
    BY <1>1 DEF TypeOK
  <2>8. /\ Asked(m.cid, "port") \in Seq({"rid", "port"})
        /\ Asked(m.cid, "port") # <<>> => Up(m.cid)
    BY <1>1, <1>2, AskedTypes
  <2>9. wire' \in [Cids -> Seq({"rid", "port"})]
    BY <2>5, <2>7, <2>8
  <2>10. \A x \in Made' : channels'[x].state = "connected" <=> channels'[x].tid = None
    <3>1. m.tid # None
      BY <1>2, NetTerminalAssumption DEF None
    <3> QED BY <1>1, <2>4, <2>6, <3>1 DEF TypeOK
  <2>11. TypeOK'
    BY <1>1, <1>3, <2>6, <2>9, <2>10 DEF TypeOK, Records
  <2>12. \A x \in Made : channels'[x].cid = channels[x].cid
    BY <2>4, <2>6
  <2>13. LinksInv'
    <3>1. link \in [Cids -> Made \cup {None}]
      BY <1>1 DEF TypeOK
    <3>2. \A c \in Cids : wire'[c] # <<>> => Up(c)
      BY <1>1, <2>5, <2>7, <2>8 DEF LinksInv
    <3> QED BY <1>1, <1>3, <2>12, <3>1, <3>2 DEF LinksInv, Cid, Up
  <2>14. PortsKept
    BY <2>1, <2>4, <2>6, <2>12 DEF PortsKept
  <2> QED BY <1>1, <1>3, <2>11, <2>13, <2>14, ListsSame DEF TerminalInv
<1> QED BY <1>4, <1>5

LEMMA TraverseKeeps ==
  ASSUME TerminalInv, TempTraverse
  PROVE  TerminalInv'
<1>1. TypeOK /\ LinksInv /\ ListsInv /\ TurnsInv /\ NoChannelLost
  BY DEF TerminalInv
<1>2. \A state : Request(state) \in {"rid", "port"}
  BY DEF Request
<1>3. ASSUME NEW c \in Cids
      PROVE  wire'[c] \in Seq({"rid", "port"}) /\ (wire'[c] # <<>> => Up(c))
  <2>1. wire[c] \in Seq({"rid", "port"}) /\ (wire[c] # <<>> => Up(c))
    BY <1>1 DEF TypeOK, LinksInv
  <2> DEFINE kind == Request(channels[WithCid(tempList, c)].state)
  <2>2. wire'[c] = wire[c] \/ wire'[c] = Asked(c, kind)
    BY DEF TempTraverse
  <2>3. kind \in {"rid", "port"}
    BY <1>2
  <2> HIDE DEF kind
  <2> QED BY <1>1, <2>1, <2>2, <2>3, AskedTypes
<1>4. TypeOK'
  <2>1. wire' \in [Cids -> Seq({"rid", "port"})]
    <3>1. DOMAIN wire' = Cids /\ wire' = [c \in Cids |-> wire'[c]]
      BY DEF TempTraverse
    <3> QED BY <1>3, <3>1
  <2> QED BY <1>1, <2>1 DEF TempTraverse, TypeOK, Made
<1>5. LinksInv'
  BY <1>1, <1>3 DEF TempTraverse, LinksInv, Cid, Up
<1>6. PortsKept
  BY DEF PortsKept, TempTraverse, Made
<1> QED BY <1>1, <1>4, <1>5, <1>6, ListsSame DEF TerminalInv, TempTraverse

LEMMA FinishKeeps ==
  ASSUME TerminalInv, FinishMove
  PROVE  TerminalInv'
<1>1. TypeOK /\ LinksInv /\ ListsInv /\ TurnsInv /\ NoChannelLost
  BY DEF TerminalInv
<1>2. moving \in Made /\ tempList \in Seq(Made)
  BY <1>1 DEF TypeOK, FinishMove
<1>3. /\ channels' \in Seq(Records) /\ Made' = Made
      /\ \A x \in Made : /\ channels'[x].cid = channels[x].cid
                         /\ channels'[x].tid = channels[x].tid
                         /\ channels'[x].state = channels[x].state
  BY <1>1, <1>2, Unmarked DEF FinishMove
<1>4. UNCHANGED <<link, broken, wire, msgList, chanList, next, waiting>> /\ moving' = None
  BY DEF FinishMove
<1>5. /\ tempList' \in Seq(Made)
      /\ Elements(tempList) \ {moving} \subseteq Elements(tempList)'
      /\ Elements(tempList)' \subseteq Elements(tempList)
      /\ Once(tempList)' /\ moving \notin Elements(tempList)'
  <2>1. tempList' = RemoveAt(tempList, moving) /\ Once(tempList)
    BY <1>1 DEF FinishMove, ListsInv
  <2> DEFINE r == RemoveAt(tempList, moving)
  <2>2. /\ r \in Seq(Made)
        /\ Elements(tempList) \ {moving} \subseteq Elements(r)
        /\ Elements(r) \subseteq Elements(tempList)
        /\ Once(r) /\ moving \notin Elements(r)
    BY <1>2, <2>1, RemovedElements, Zenon
  <2> HIDE DEF r
  <2>3. tempList' = r
    BY <2>1 DEF r
  <2> QED BY <2>2, <2>3 DEF Elements, Once
<1>6. TypeOK'
  <2>1. udpOpen' \subseteq Cids
    BY <1>1 DEF TypeOK, FinishMove, CloseUDPOfKnown
  <2> QED BY <1>1, <1>3, <1>4, <1>5, <2>1 DEF TypeOK, Records
<1>7. LinksInv'
  <2>1. link \in [Cids -> Made \cup {None}]
    BY <1>1 DEF TypeOK
  <2> QED BY <1>1, <1>3, <1>4, <2>1 DEF LinksInv, Cid, Up
<1>8. \A x \in Made : Alive(x)' => Alive(x)
  BY <1>3, <1>4 DEF Alive, Up, Cid
<1>9. \A x : Held(x)' <=> Held(x)
  BY <1>4 DEF Held, Elements
<1>10. NoChannelLost'
  BY <1>1, <1>2, <1>3, <1>5, <1>8, <1>9 DEF NoChannelLost, ListsInv, FinishMove
<1>11. ListsInv'
  <2>1. \A o \in Elements(tempList)' : o # moving' => channels'[o].state # "port"
    BY <1>1, <1>3, <1>5, ElementsAreMade DEF ListsInv
  <2>2. ASSUME NEW p \in Peers
        PROVE  /\ Once(chanList[p])'
               /\ \A o \in Elements(chanList[p])' : channels'[o].tid = p /\ channels'[o].state = "port"
               /\ next'[p] # None => channels'[next'[p]].state = "port"
    <3>1. next[p] \in Made \cup {None}
      BY <1>1 DEF TypeOK
    <3> QED BY <1>1, <1>3, <1>4, <3>1, ElementsAreMade DEF ListsInv, Elements, Once
  <2> QED BY <1>4, <1>5, <2>1, <2>2 DEF ListsInv
<1>12. TurnsInv'
  <2>1. PortsKept
    BY <1>3 DEF PortsKept
  <2> QED BY <1>1, <1>4, <2>1, TurnsSame
<1> QED BY <1>6, <1>7, <1>10, <1>11, <1>12 DEF TerminalInv

(* A channel more: the new one is the last of the temporary ones.          *)
LEMMA ArrivedKeeps ==
  ASSUME TerminalInv, NEW c \in Cids, NEW p \in Peers, ChannelArrived(c, p)
  PROVE  TerminalInv'
<1> DEFINE n == Len(channels) + 1
           r == [cid |-> c, remote |-> p, tid |-> None, state |-> "connected", temp |-> TRUE]
<1>1. TypeOK /\ LinksInv /\ ListsInv /\ TurnsInv /\ NoChannelLost
  BY DEF TerminalInv
<1>2. /\ channels \in Seq(Records) /\ Len(channels) \in Nat /\ Made = 1 .. Len(channels)
      /\ n \notin Made /\ n \in Nat /\ n # None
  BY <1>1, Channels DEF None
<1>3. /\ channels' = Append(channels, r) /\ link' = [link EXCEPT ![c] = n]
      /\ tempList' = Append(tempList, n) /\ waiting' = Append(waiting, {})
      /\ udpOpen' = udpOpen \cup {c} /\ link[c] = None
      /\ wire' \in {[wire EXCEPT ![c] = <<>>], [wire EXCEPT ![c] = <<"rid">>]}
      /\ UNCHANGED <<broken, msgList, chanList, next, moving>>
  BY DEF ChannelArrived
<1>4. r \in Records /\ r.cid = c /\ r.tid = None /\ r.state = "connected"
  BY DEF Records
<1> HIDE DEF r
<1>5. channels' \in Seq(Records) /\ Made' = Made \cup {n}
  <2>1. channels' \in Seq(Records) /\ Len(channels') = n
    BY <1>2, <1>3, <1>4, AppendProperties
  <2>2. Made' = 1 .. n
    BY <2>1, LenProperties DEF Made
  <2> QED BY <1>2, <2>1, <2>2
<1>6. channels'[n] = r /\ \A x \in Made : channels'[x] = channels[x]
  BY <1>2, <1>3, <1>4, AppendProperties
<1> HIDE DEF n
<1>7. /\ waiting' \in [Made' -> SUBSET Made'] /\ waiting'[n] = {}
      /\ \A x \in Made : waiting'[x] = waiting[x]
  <2>1. waiting \in [1 .. Len(channels) -> SUBSET Made]
    BY <1>1, <1>2 DEF TypeOK
  <2>2. waiting \in Seq(SUBSET Made)
    BY <1>2, <2>1, SeqDef
  <2>3. Len(waiting) = Len(channels)
    <3>1. 1 .. Len(waiting) = 1 .. Len(channels) /\ Len(waiting) \in Nat
      BY <2>1, <2>2, LenProperties
    <3> QED BY <1>2, <3>1
  <2>4. /\ waiting' \in Seq(SUBSET Made) /\ Len(waiting') = Len(waiting) + 1
        /\ waiting'[Len(waiting) + 1] = {}
        /\ \A x \in 1 .. Len(waiting) : waiting'[x] = waiting[x]
    <3>1. {} \in SUBSET Made
      OBVIOUS
    <3> QED BY <1>3, <2>2, <3>1, AppendProperties
  <2>5. waiting' \in [1 .. Len(waiting) + 1 -> SUBSET Made]
    BY <2>4, LenProperties
  <2>6. Made' = 1 .. Len(waiting) + 1
    BY <1>2, <1>5, <2>3 DEF n
  <2>7. waiting' \in [Made' -> SUBSET Made']
    BY <1>5, <2>5, <2>6
  <2> QED BY <1>2, <2>3, <2>4, <2>7 DEF n
<1>8. tempList' \in Seq(Made') /\ Elements(tempList)' = Elements(tempList) \cup {n} /\ Once(tempList)'
  <2>1. tempList \in Seq(Made')
    BY <1>1, <1>5, SeqMonotonic DEF TypeOK
  <2>2. /\ tempList' \in Seq(Made') /\ Len(tempList') = Len(tempList) + 1
        /\ tempList'[Len(tempList) + 1] = n
        /\ \A i \in 1 .. Len(tempList) : tempList'[i] = tempList[i]
    BY <1>3, <1>5, <2>1, AppendProperties
  <2>3. /\ DOMAIN tempList = 1 .. Len(tempList) /\ DOMAIN tempList' = 1 .. Len(tempList) + 1
        /\ Len(tempList) \in Nat
    BY <2>1, <2>2, LenProperties
  <2>4. n \notin Elements(tempList)
    BY <1>1, <1>2, ElementsAreMade
  <2> QED BY <1>1, <2>2, <2>3, <2>4 DEF Elements, Once, ListsInv
<1>9. TypeOK'
  <2>1. link' \in [Cids -> Made' \cup {None}] /\ udpOpen' \subseteq Cids /\ broken' \subseteq Cids
    BY <1>1, <1>3, <1>5 DEF TypeOK
  <2>2. wire' \in [Cids -> Seq({"rid", "port"})]
    <3>1. <<>> \in Seq({"rid", "port"}) /\ <<"rid">> \in Seq({"rid", "port"})
      OBVIOUS
    <3> QED BY <1>1, <1>3, <3>1 DEF TypeOK
  <2>3. chanList' \in [Peers -> Seq(Made')]
    <3>1. \A q \in Peers : chanList[q] \in Seq(Made')
      BY <1>1, <1>5, SeqMonotonic DEF TypeOK
    <3> QED BY <1>1, <1>3, <3>1 DEF TypeOK
  <2>4. \A o \in Made' : channels'[o].state = "connected" <=> channels'[o].tid = None
    BY <1>1, <1>4, <1>5, <1>6 DEF TypeOK
  <2>5. next' \in [Peers -> Made' \cup {None}] /\ moving' \in Made' \cup {None}
    BY <1>1, <1>3, <1>5 DEF TypeOK
  <2> QED BY <1>1, <1>3, <1>5, <1>7, <1>8, <2>1, <2>2, <2>3, <2>4, <2>5 DEF TypeOK, Records
<1>11. LinksInv'
  <2>1. link \in [Cids -> Made \cup {None}] /\ wire \in [Cids -> Seq({"rid", "port"})]
    BY <1>1 DEF TypeOK
  <2>2. c \notin broken
    BY <1>1, <1>3 DEF LinksInv
  <2>3. channels'[n].cid = c /\ \A x \in Made : channels'[x].cid = channels[x].cid
    BY <1>4, <1>6
  <2>4. ASSUME NEW d \in Cids
        PROVE  /\ link'[d] # None => channels'[link'[d]].cid = d
               /\ wire'[d] # <<>> => link'[d] # None /\ d \notin broken
               /\ d \in broken => link'[d] # None
    <3>1. CASE d = c
      BY <1>2, <1>3, <2>1, <2>2, <2>3, <3>1
    <3>2. CASE d # c
      <4>1. link'[d] = link[d] /\ wire'[d] = wire[d] /\ link[d] \in Made \cup {None}
        BY <1>3, <2>1, <3>2
      <4> QED BY <1>1, <2>3, <4>1 DEF LinksInv, Cid, Up
    <3> QED BY <3>1, <3>2
  <2> QED BY <1>3, <2>4 DEF LinksInv, Cid, Up
<1>12. \A x \in Made : Alive(x)' => Alive(x)
  <2>1. link \in [Cids -> Made \cup {None}]
    BY <1>1 DEF TypeOK
  <2>2. ASSUME NEW x \in Made, Alive(x)' PROVE Alive(x)
    <3>1. channels'[x].cid = channels[x].cid /\ channels[x].cid \in Cids /\ x # n
      BY <1>1, <1>2, <1>6, Channels DEF Cid
    <3> QED BY <1>3, <2>1, <2>2, <3>1 DEF Alive, Up, Cid
  <2> QED BY <2>2
<1>13. \A x : Held(x)' <=> Held(x)
  BY <1>3 DEF Held, Elements
<1>14. NoChannelLost'
  BY <1>1, <1>5, <1>8, <1>12, <1>13 DEF NoChannelLost
<1>15. ListsInv'
  <2>1. \A o \in Elements(tempList)' : o # moving' => channels'[o].state # "port"
    BY <1>1, <1>3, <1>4, <1>6, <1>8, ElementsAreMade DEF ListsInv
  <2>2. ASSUME NEW q \in Peers
        PROVE  /\ Once(chanList[q])'
               /\ \A o \in Elements(chanList[q])' : channels'[o].tid = q /\ channels'[o].state = "port"
               /\ next'[q] # None => channels'[next'[q]].state = "port"
    <3>1. next[q] \in Made \cup {None}
      BY <1>1 DEF TypeOK
    <3>2. chanList' = chanList /\ next' = next
      BY <1>3
    <3>3. \A o \in Elements(chanList[q]) : o \in Made /\ channels[o].tid = q /\ channels[o].state = "port"
      BY <1>1, ElementsAreMade DEF ListsInv
    <3>4. \A o \in Elements(chanList[q])' : channels'[o].tid = q /\ channels'[o].state = "port"
      BY <1>6, <3>2, <3>3 DEF Elements
    <3>5. Once(chanList[q])'
      BY <1>1, <3>2 DEF ListsInv, Once
    <3>6. next'[q] # None => channels'[next'[q]].state = "port"
      BY <1>1, <1>6, <3>1, <3>2 DEF ListsInv
    <3> QED BY <3>4, <3>5, <3>6
  <2>3. moving' # None => channels'[moving'].state = "port" /\ (Alive(moving)' => Held(moving)')
    <3>1. moving \in Made \cup {None}
      BY <1>1 DEF TypeOK
    <3> QED BY <1>1, <1>3, <1>6, <1>12, <1>13, <3>1 DEF ListsInv
  <2> QED BY <1>8, <2>1, <2>2, <2>3 DEF ListsInv
<1>16. TurnsInv'
  <2>1. \A o \in Made' : channels'[o].state # "port" => waiting'[o] = {}
    BY <1>1, <1>5, <1>6, <1>7 DEF TurnsInv
  <2>2. ASSUME NEW q \in Peers
        PROVE  LET list == chanList[q]'
               IN  /\ next'[q] = None => \A j \in DOMAIN list : waiting'[list[j]] = {}
                   /\ \A j \in DOMAIN list : waiting'[list[j]] \subseteq Elements(list)
                   /\ \A k, i, j \in DOMAIN list :
                        next'[q] = list[k] /\ list[i] \in waiting'[list[j]] => Ahead(k, i, j)
    <3>1. \A j \in DOMAIN chanList[q] : chanList[q][j] \in Made
      BY <1>1, ElementsAreMade DEF Elements
    <3> QED BY <1>1, <1>3, <1>7, <3>1 DEF TurnsInv
  <2> QED BY <2>1, <2>2 DEF TurnsInv, Elements
<1> QED BY <1>9, <1>11, <1>14, <1>15, <1>16 DEF TerminalInv

(* A channel joins its terminal behind those that are there, and nobody    *)
(* waits for it or with it.                                                *)
LEMMA PortKeeps ==
  ASSUME TerminalInv, RecvUDPPort
  PROVE  TerminalInv'
<1> DEFINE o == WithCid(tempList, Head(msgList).cid)
           t == channels[o].tid
<1>1. /\ TypeOK /\ LinksInv /\ ListsInv /\ TurnsInv /\ NoChannelLost
      /\ msgList' \in Seq([kind : {"rid", "port"}, cid : Cids, tid : Peers])
      /\ moving = None
  BY TakenCommand DEF TerminalInv, RecvUDPPort
<1>2. UNCHANGED <<link, broken, wire, tempList, next, udpOpen, waiting>>
  BY DEF RecvUDPPort
<1>3. CASE ~PortExpected(o)
  <2>1. UNCHANGED <<channels, chanList, moving>>
    BY <1>3 DEF RecvUDPPort
  <2>2. TypeOK'
    BY <1>1, <1>2, <2>1 DEF TypeOK, Made
  <2>3. LinksInv'
    BY <1>1, <1>2, <2>1 DEF LinksInv, Cid, Up
  <2>4. PortsKept
    BY <2>1 DEF PortsKept, Made
  <2> QED BY <1>1, <1>2, <2>1, <2>2, <2>3, <2>4, ListsSame DEF TerminalInv
<1>4. CASE PortExpected(o)
  <2>1. o \in Elements(tempList) /\ o \in Made /\ channels[o].state = "rid"
    <3>1. tempList \in Seq(Made)
      BY <1>1 DEF TypeOK
    <3>2. o \in Elements(tempList)
      BY <1>4, <3>1, FoundChannel DEF PortExpected
    <3> QED BY <1>1, <1>4, <3>2, ElementsAreMade DEF PortExpected
  <2>2. t \in Peers
    BY <1>1, <2>1, Channels DEF TypeOK, Records
  <2> DEFINE r == [channels[o] EXCEPT !.state = "port"]
  <2>3. /\ channels' = [channels EXCEPT ![o] = r] /\ moving' = o
        /\ chanList' = [chanList EXCEPT ![t] = Append(@, o)]
    BY <1>4 DEF RecvUDPPort
  <2>4. r \in Records /\ r.cid = channels[o].cid /\ r.tid = t /\ r.state = "port"
    BY <1>1, <2>1, Channels DEF Records
  <2> HIDE DEF o, r, t
  <2>5. /\ channels' \in Seq(Records) /\ Made' = Made
        /\ \A x \in Made : channels'[x] = IF x = o THEN r ELSE channels[x]
    BY <1>1, <2>1, <2>3, <2>4, OneChanged, Zenon
  <2>6. t = channels[o].tid
    BY DEF t
  <2> DEFINE L == chanList[t]
             n == Len(L)
  <2>7. /\ L \in Seq(Made) /\ DOMAIN L = 1 .. n /\ n \in Nat
        /\ chanList'[t] \in Seq(Made) /\ DOMAIN chanList'[t] = 1 .. n + 1
        /\ chanList'[t][n + 1] = o /\ \A i \in 1 .. n : chanList'[t][i] = L[i]
    <3>1. L \in Seq(Made) /\ chanList'[t] = Append(L, o)
      BY <1>1, <2>2, <2>3 DEF TypeOK
    <3> QED BY <2>1, <3>1, AppendProperties, LenProperties
  <2>8. \A q \in Peers : q # t => chanList'[q] = chanList[q]
    BY <1>1, <2>3 DEF TypeOK
  <2>9. \A q \in Peers : o \notin Elements(chanList[q]) /\ next[q] # o
    BY <1>1, <2>1, Channels DEF ListsInv
  <2> HIDE DEF L, n
  <2>10. Elements(chanList'[t]) = Elements(L) \cup {o}
    <3>1. \A j \in 1 .. n + 1 : j \in 1 .. n \/ j = n + 1
      BY <2>7
    <3>2. \A j \in 1 .. n : j \in 1 .. n + 1
      BY <2>7
    <3>3. n + 1 \in 1 .. n + 1
      BY <2>7
    <3>4. \A x \in Elements(chanList'[t]) : x \in Elements(L) \cup {o}
      BY <2>7, <3>1 DEF Elements
    <3>5. \A x \in Elements(L) \cup {o} : x \in Elements(chanList'[t])
      BY <2>7, <3>2, <3>3 DEF Elements
    <3> QED BY <3>4, <3>5
  <2>11. TypeOK'
    <3>1. \A x \in Made' : channels'[x].state = "connected" <=> channels'[x].tid = None
      <4>1. t # None
        BY <2>2, NetTerminalAssumption DEF None
      <4> QED BY <1>1, <2>4, <2>5, <4>1 DEF TypeOK
    <3>2. chanList' \in [Peers -> Seq(Made')]
      <4>1. \A q \in Peers : chanList'[q] \in Seq(Made')
        BY <1>1, <2>5, <2>7, <2>8 DEF TypeOK
      <4> QED BY <1>1, <2>3, <4>1 DEF TypeOK
    <3> QED BY <1>1, <1>2, <2>1, <2>3, <2>5, <3>1, <3>2 DEF TypeOK, Records
  <2>12. \A x \in Made : channels'[x].cid = channels[x].cid
    BY <2>4, <2>5
  <2>13. LinksInv'
    <3>1. link \in [Cids -> Made \cup {None}]
      BY <1>1 DEF TypeOK
    <3> QED BY <1>1, <1>2, <2>12, <3>1 DEF LinksInv, Cid, Up
  <2>14. \A x \in Made : (Alive(x)' => Alive(x)) /\ (Held(x) => Held(x)')
    <3>1. \A x \in Made : Alive(x)' => Alive(x)
      BY <1>2, <2>12 DEF Alive, Up, Cid
    <3>2. \A q \in Peers : Elements(chanList[q]) \subseteq Elements(chanList'[q])
      BY <2>8, <2>10 DEF L
    <3> QED BY <3>1, <3>2 DEF Held, Elements
  <2>15. NoChannelLost'
    BY <1>1, <1>2, <2>5, <2>14 DEF NoChannelLost, Elements
  <2>16. ListsInv'
    <3>1. Once(tempList)' /\ \A x \in Elements(tempList)' : x # moving' => channels'[x].state # "port"
      <4>1. \A x \in Elements(tempList) : x \in Made /\ x # None /\ channels[x].state # "port"
        BY <1>1, ElementsAreMade, Channels DEF ListsInv
      <4>2. Elements(tempList)' = Elements(tempList) /\ (Once(tempList)' <=> Once(tempList))
        BY <1>2 DEF Elements, Once
      <4> QED BY <1>1, <2>3, <2>5, <4>1, <4>2 DEF ListsInv
    <3>2. ASSUME NEW q \in Peers
          PROVE  /\ Once(chanList'[q])
                 /\ \A x \in Elements(chanList'[q]) : channels'[x].tid = q /\ channels'[x].state = "port"
                 /\ next'[q] # None => channels'[next'[q]].state = "port"
      <4>1. next[q] \in Made \cup {None}
        BY <1>1 DEF TypeOK
      <4>2. next'[q] # None => channels'[next'[q]].state = "port"
        BY <1>1, <1>2, <2>4, <2>5, <4>1 DEF ListsInv
      <4>3. \A x \in Elements(chanList[q]) : channels'[x].tid = q /\ channels'[x].state = "port"
        BY <1>1, <2>5, <2>9, ElementsAreMade DEF ListsInv
      <4>4. CASE q # t
        BY <1>1, <2>8, <4>2, <4>3, <4>4 DEF ListsInv
      <4>5. CASE q = t
        <5>1. Once(chanList'[t])
          <6>1. Once(L) /\ o \notin Elements(L)
            BY <1>1, <2>2, <2>9 DEF ListsInv, L
          <6> QED BY <2>7, <6>1 DEF Once, Elements
        <5>2. channels'[o].tid = t /\ channels'[o].state = "port"
          BY <2>1, <2>4, <2>5
        <5> QED BY <2>10, <4>2, <4>3, <4>5, <5>1, <5>2 DEF L
      <4> QED BY <4>4, <4>5
    <3>3. channels'[moving'].state = "port" /\ Held(moving)'
      <4>1. o \in Elements(chanList'[t])
        BY <2>10
      <4> QED BY <2>1, <2>2, <2>3, <2>4, <2>5, <4>1 DEF Held, Elements
    <3> QED BY <3>1, <3>2, <3>3 DEF ListsInv, Once, Elements
  <2>17. TurnsInv'
    <3>1. \A x \in Made' : channels'[x].state # "port" => waiting'[x] = {}
      BY <1>1, <1>2, <2>4, <2>5 DEF TurnsInv
    <3>2. ASSUME NEW q \in Peers
          PROVE  /\ next[q] = None => \A j \in DOMAIN chanList'[q] : waiting[chanList'[q][j]] = {}
                 /\ \A j \in DOMAIN chanList'[q] : waiting[chanList'[q][j]] \subseteq Elements(chanList'[q])
                 /\ \A k, i, j \in DOMAIN chanList'[q] :
                      next[q] = chanList'[q][k] /\ chanList'[q][i] \in waiting[chanList'[q][j]]
                        => Ahead(k, i, j)
      <4>1. CASE q # t
        BY <1>1, <2>8, <4>1 DEF TurnsInv
      <4>2. CASE q = t
        <5>1. waiting[o] = {}
          BY <1>1, <2>1 DEF TurnsInv
        <5>2. /\ next[t] = None => \A j \in DOMAIN L : waiting[L[j]] = {}
              /\ \A j \in DOMAIN L : waiting[L[j]] \subseteq Elements(L)
              /\ \A k, i, j \in DOMAIN L :
                   next[t] = L[k] /\ L[i] \in waiting[L[j]] => Ahead(k, i, j)
              /\ o \notin Elements(L) /\ next[t] # o
          BY <1>1, <2>2, <2>9 DEF TurnsInv, L
        <5>3. \A j \in 1 .. n + 1 : j \in 1 .. n \/ j = n + 1
          BY <2>7
        <5>4. \A j \in 1 .. n + 1 : waiting[chanList'[t][j]] \subseteq Elements(L)
          BY <2>7, <5>1, <5>2, <5>3
        <5>5. next[t] = None => \A j \in 1 .. n + 1 : waiting[chanList'[t][j]] = {}
          BY <2>7, <5>1, <5>2, <5>3
        <5>6. \A k, i, j \in 1 .. n + 1 :
                next[t] = chanList'[t][k] /\ chanList'[t][i] \in waiting[chanList'[t][j]]
                  => k \in 1 .. n /\ i \in 1 .. n /\ j \in 1 .. n
          BY <2>7, <5>1, <5>2, <5>3, <5>4
        <5>7. \A k, i, j \in 1 .. n + 1 :
                next[t] = chanList'[t][k] /\ chanList'[t][i] \in waiting[chanList'[t][j]]
                  => Ahead(k, i, j)
          BY <2>7, <5>2, <5>6
        <5> QED BY <2>7, <2>10, <4>2, <5>4, <5>5, <5>7
      <4> QED BY <4>1, <4>2
    <3> QED BY <1>2, <3>1, <3>2 DEF TurnsInv, Elements
  <2> QED BY <2>11, <2>13, <2>15, <2>16, <2>17 DEF TerminalInv
<1> QED BY <1>3, <1>4

(* The channel taken is next but one round later: all others come before   *)
(* it, and before nobody else that they were not before.                   *)
LEMMA AfterTurn ==
  ASSUME NEW n \in Nat \ {0}, NEW k0 \in 1 .. n, NEW i \in 1 .. n, NEW j \in 1 .. n,
         i # k0, j = k0 \/ Ahead(k0, i, j)
  PROVE  (k0 % n) + 1 \in 1 .. n /\ Ahead((k0 % n) + 1, i, j)
<1>1. CASE k0 < n
  <2>1. k0 % n = k0
    BY <1>1
  <2> QED BY <1>1, <2>1 DEF Ahead
<1>2. CASE k0 = n
  <2>1. k0 % n = 0
    BY <1>2
  <2> QED BY <1>2, <2>1 DEF Ahead
<1> QED BY <1>1, <1>2

LEMMA SelectKeeps ==
  ASSUME TerminalInv, NEW p \in Peers, ChannelSelect(p)
  PROVE  TerminalInv'
<1> DEFINE u == Upcoming(p)
           L == chanList[p]
           n == Len(L)
           k0 == Position(L, u)
<1>1. TypeOK /\ LinksInv /\ ListsInv /\ TurnsInv /\ NoChannelLost
  BY DEF TerminalInv
<1>2. /\ UNCHANGED <<channels, link, broken, wire, msgList, tempList, chanList, moving, udpOpen>>
      /\ Made' = Made
  BY DEF ChannelSelect, Made
<1>3. u \in Elements(L) /\ (next[p] = None \/ next[p] = u)
  BY DEF ChannelSelect, Upcoming
<1>4. L \in Seq(Made) /\ DOMAIN L = 1 .. n /\ n \in Nat /\ Elements(L) \subseteq Made
  BY <1>1, ElementsAreMade
<1>5. k0 \in 1 .. n /\ L[k0] = u
  BY <1>3, <1>4, PositionOf
<1>6. next' = [next EXCEPT ![p] = L[(k0 % n) + 1]]
  BY DEF ChannelSelect, GetNextNode
<1>7. waiting' = [x \in Made |-> IF x = u THEN Elements(L) \ {u} ELSE waiting[x] \ {u}]
  <2>1. waiting' = [x \in DOMAIN waiting |-> IF x = u THEN Elements(L) \ {x} ELSE waiting[x] \ {u}]
    BY DEF ChannelSelect
  <2>2. DOMAIN waiting = Made
    BY <1>1, ElementsAreMade
  <2> HIDE DEF u, L
  <2> QED BY <2>1, <2>2
<1>8. chanList' = chanList
  BY <1>2
<1> HIDE DEF u, k0
<1>9. (k0 % n) + 1 \in 1 .. n /\ n \in Nat \ {0}
  <2>1. n \in Nat \ {0}
    BY <1>4, <1>5
  <2> QED BY <1>5, <2>1
<1> DEFINE k1 == (k0 % n) + 1
<1>10. L[k1] \in Elements(L) /\ next'[p] = L[k1] /\ \A q \in Peers : q # p => next'[q] = next[q]
  <2>1. DOMAIN next = Peers
    BY <1>1 DEF TypeOK
  <2> QED BY <1>4, <1>6, <1>9, <2>1 DEF Elements
<1> HIDE DEF k1
<1>11. TypeOK'
  <2>1. next' \in [Peers -> Made \cup {None}]
    <3>1. L[k1] \in Made
      BY <1>4, <1>10
    <3> QED BY <1>1, <1>6, <3>1 DEF TypeOK, k1
  <2>2. waiting' \in [Made -> SUBSET Made]
    <3>1. waiting \in [Made -> SUBSET Made]
      BY <1>1 DEF TypeOK
    <3> HIDE DEF L, n
    <3> QED BY <1>4, <1>7, <3>1
  <2> QED BY <1>1, <1>2, <2>1, <2>2 DEF TypeOK
<1>12. LinksInv' /\ NoChannelLost'
  BY <1>1, <1>2 DEF LinksInv, NoChannelLost, Cid, Up, Alive, Held, Elements
<1>13. ListsInv'
  <2>1. \A q \in Peers : next'[q] # None => channels[next'[q]].state = "port"
    BY <1>1, <1>10 DEF ListsInv
  <2> QED BY <1>1, <1>2, <2>1 DEF ListsInv, Once, Elements, Alive, Held, Cid, Up
<1>14. TurnsInv'
  <2>1. \A x \in Made : channels[x].state # "port" => waiting'[x] = {}
    <3>1. channels[u].state = "port"
      BY <1>1, <1>3 DEF ListsInv
    <3>2. \A x \in Made : x # u => waiting'[x] \subseteq waiting[x]
      BY <1>7
    <3> QED BY <1>1, <3>1, <3>2 DEF TurnsInv
  <2>2. ASSUME NEW q \in Peers
        PROVE  /\ next'[q] = None => \A j \in DOMAIN chanList[q] : waiting'[chanList[q][j]] = {}
               /\ \A j \in DOMAIN chanList[q] : waiting'[chanList[q][j]] \subseteq Elements(chanList[q])
               /\ \A k, i, j \in DOMAIN chanList[q] :
                    next'[q] = chanList[q][k] /\ chanList[q][i] \in waiting'[chanList[q][j]]
                      => Ahead(k, i, j)
    <3>1. CASE q # p
      <4>1. u \notin Elements(chanList[q])
        BY <1>1, <1>3, <3>1 DEF ListsInv
      <4>2. \A j \in DOMAIN chanList[q] : chanList[q][j] \in Made /\ chanList[q][j] # u
        BY <1>1, <4>1, ElementsAreMade DEF Elements
      <4>3. \A j \in DOMAIN chanList[q] : waiting'[chanList[q][j]] \subseteq waiting[chanList[q][j]]
        BY <1>7, <4>2
      <4>4. next'[q] = next[q]
        BY <1>10, <3>1
      <4>5. /\ next[q] = None => \A j \in DOMAIN chanList[q] : waiting[chanList[q][j]] = {}
            /\ \A j \in DOMAIN chanList[q] : waiting[chanList[q][j]] \subseteq Elements(chanList[q])
            /\ \A k, i, j \in DOMAIN chanList[q] :
                 next[q] = chanList[q][k] /\ chanList[q][i] \in waiting[chanList[q][j]]
                   => Ahead(k, i, j)
        BY <1>1 DEF TurnsInv
      <4> HIDE DEF L, n
      <4> QED BY <4>3, <4>4, <4>5
    <3>2. CASE q = p
      <4>1. L[k1] # None
        BY <1>1, <1>4, <1>10, Channels
      <4>2. /\ \A j \in DOMAIN L : waiting[L[j]] \subseteq Elements(L) /\ L[j] \in Made
            /\ next[p] = None => \A j \in DOMAIN L : waiting[L[j]] = {}
            /\ \A k, i, j \in DOMAIN L :
                 next[p] = L[k] /\ L[i] \in waiting[L[j]] => Ahead(k, i, j)
        BY <1>1, <1>4 DEF TurnsInv, Elements
      <4>3. Once(L)
        BY <1>1 DEF ListsInv
      <4> HIDE DEF L, n
      <4>4. \A j \in DOMAIN L : waiting'[L[j]] \subseteq Elements(L)
        BY <1>7, <4>2
      <4>5. ASSUME NEW k \in DOMAIN L, NEW i \in DOMAIN L, NEW j \in DOMAIN L,
                   L[k1] = L[k], L[i] \in waiting'[L[j]]
            PROVE  Ahead(k, i, j)
        <5>1. k = k1
          BY <1>4, <1>9, <4>3, <4>5 DEF Once, k1
        <5>2. L[j] \in Made /\ L[i] # u
          BY <1>7, <4>2, <4>5
        <5>3. i # k0
          BY <1>5, <5>2
        <5>4. j = k0 \/ Ahead(k0, i, j)
          <6>1. CASE L[j] = u
            BY <1>4, <1>5, <4>3, <6>1 DEF Once
          <6>2. CASE L[j] # u
            <7>1. L[i] \in waiting[L[j]]
              BY <1>7, <4>5, <5>2, <6>2
            <7>2. next[p] = L[k0]
              BY <1>3, <1>5, <4>2, <7>1
            <7> QED BY <1>4, <1>5, <4>2, <7>1, <7>2
          <6> QED BY <6>1, <6>2
        <5>5. k0 \in 1 .. n /\ i \in 1 .. n /\ j \in 1 .. n /\ n \in Nat \ {0}
          BY <1>4, <1>5, <1>9, <4>5
        <5>6. Ahead((k0 % n) + 1, i, j)
          BY <5>3, <5>4, <5>5, AfterTurn
        <5> QED BY <5>1, <5>6 DEF k1
      <4> QED BY <1>10, <3>2, <4>1, <4>4, <4>5 DEF L
    <3> QED BY <3>1, <3>2
  <2> QED BY <1>2, <2>1, <2>2 DEF TurnsInv, Elements
<1> QED BY <1>11, <1>12, <1>13, <1>14 DEF TerminalInv

-----------------------------------------------------------------------------
(* Closing the gap keeps the order of the turns.                           *)
LEMMA SkipAhead ==
  ASSUME NEW m \in Nat, NEW k \in Nat, NEW i \in Nat, NEW j \in Nat,
         Ahead(Skip(m, k), Skip(m, i), Skip(m, j))
  PROVE  Ahead(k, i, j)
BY DEF Ahead, Skip

(* The number of a channel that left is free, and nothing is on its way.   *)
LEMMA LeavedLinks ==
  ASSUME TerminalInv, NEW c \in Cids, ChannelLeaved(c),
         Made' = Made, \A x \in Made : channels'[x].cid = channels[x].cid
  PROVE  /\ LinksInv'
         /\ \A x \in Made : Alive(x)' => Alive(x) /\ Cid(x) # c
<1>1. /\ LinksInv /\ link \in [Cids -> Made \cup {None}]
      /\ c \in broken /\ link' = [link EXCEPT ![c] = None]
      /\ broken' = broken \ {c} /\ wire' = wire
  BY DEF TerminalInv, TypeOK, ChannelLeaved
<1>2. \A x \in Made : x # None /\ channels[x].cid \in Cids
  BY Channels DEF TerminalInv, Cid
<1>3. ASSUME NEW d \in Cids
      PROVE  /\ link'[d] # None => channels'[link'[d]].cid = d
             /\ wire'[d] # <<>> => link'[d] # None /\ d \notin broken'
             /\ d \in broken' => link'[d] # None
  <2>1. CASE d = c
    BY <1>1, <2>1 DEF LinksInv, Up
  <2>2. CASE d # c
    <3>1. link'[d] = link[d] /\ wire'[d] = wire[d] /\ link[d] \in Made \cup {None}
      BY <1>1, <2>2
    <3> QED BY <1>1, <2>2, <3>1 DEF LinksInv, Cid, Up
  <2> QED BY <2>1, <2>2
<1>4. LinksInv'
  BY <1>3 DEF LinksInv, Cid, Up
<1>5. ASSUME NEW x \in Made, Alive(x)'
      PROVE  Alive(x) /\ Cid(x) # c
  <2>1. channels[x].cid # c
    BY <1>1, <1>2, <1>5 DEF Alive, Cid
  <2> QED BY <1>1, <1>2, <1>5, <2>1 DEF Alive, Up, Cid
<1> QED BY <1>4, <1>5

(* A channel less to wait for.                                             *)
LEMMA WaitingShrinks ==
  ASSUME TypeOK, NEW o, waiting' = [x \in DOMAIN waiting |-> waiting[x] \ {o}]
  PROVE  /\ waiting' \in [Made -> SUBSET Made]
         /\ \A x \in Made : waiting'[x] = waiting[x] \ {o}
<1>1. waiting \in [Made -> SUBSET Made] /\ DOMAIN waiting = Made
  BY DEF TypeOK
<1> QED BY <1>1

(* A temporary channel leaves.                                             *)
LEMMA LeaveTempKeeps ==
  ASSUME TerminalInv, NEW c \in Cids, ChannelLeaved(c), WithCid(tempList, c) # None
  PROVE  TerminalInv'
<1> DEFINE o == WithCid(tempList, c)
<1>1. TypeOK /\ LinksInv /\ ListsInv /\ TurnsInv /\ NoChannelLost
  BY DEF TerminalInv
<1>2. o \in Elements(tempList) /\ o \in Made /\ Cid(o) = c /\ tempList \in Seq(Made)
  <2>1. tempList \in Seq(Made)
    BY <1>1 DEF TypeOK
  <2>2. o \in Elements(tempList) /\ Cid(o) = c
    BY <2>1, FoundChannel
  <2> QED BY <1>1, <2>1, <2>2, ElementsAreMade
<1>3. /\ UnmarkTemp(o) /\ udpOpen' \in {udpOpen, udpOpen \ {Cid(o)}}
      /\ tempList' = RemoveAt(tempList, o)
      /\ waiting' = [x \in DOMAIN waiting |-> waiting[x] \ {o}]
      /\ link' = [link EXCEPT ![c] = None] /\ broken' = broken \ {c}
      /\ UNCHANGED <<chanList, next, wire, msgList, moving>>
  BY DEF ChannelLeaved, LeaveTemp, CloseUDPOfKnown
<1> HIDE DEF o
<1>4. /\ channels' \in Seq(Records) /\ Made' = Made
      /\ \A x \in Made : /\ channels'[x].cid = channels[x].cid
                         /\ channels'[x].tid = channels[x].tid
                         /\ channels'[x].state = channels[x].state
  BY <1>1, <1>2, <1>3, Unmarked
<1>5. /\ tempList' \in Seq(Made)
      /\ Elements(tempList) \ {o} \subseteq Elements(tempList)'
      /\ Elements(tempList)' \subseteq Elements(tempList)
      /\ Once(tempList)'
  <2> DEFINE r == RemoveAt(tempList, o)
  <2>1. /\ r \in Seq(Made)
        /\ Elements(tempList) \ {o} \subseteq Elements(r)
        /\ Elements(r) \subseteq Elements(tempList)
        /\ Once(tempList) => Once(r)
    BY <1>2, RemovedElements, Zenon
  <2> HIDE DEF r
  <2>2. tempList' = r /\ Once(tempList)
    BY <1>1, <1>3 DEF r, ListsInv
  <2> QED BY <2>1, <2>2 DEF Elements, Once
<1>6. /\ waiting' \in [Made -> SUBSET Made]
      /\ \A x \in Made : waiting'[x] = waiting[x] \ {o}
  BY <1>1, <1>3, WaitingShrinks
<1>7. TypeOK'
  <2>1. link' \in [Cids -> Made \cup {None}] /\ broken' \subseteq Cids /\ udpOpen' \subseteq Cids
    BY <1>1, <1>3 DEF TypeOK
  <2> QED BY <1>1, <1>3, <1>4, <1>5, <1>6, <2>1 DEF TypeOK, Records
<1>8. LinksInv' /\ \A x \in Made : Alive(x)' => Alive(x) /\ Cid(x) # c
  BY <1>4, LeavedLinks
<1>9. \A x : Held(x)' <=> Held(x)
  BY <1>3 DEF Held, Elements
<1>10. NoChannelLost'
  BY <1>1, <1>2, <1>4, <1>5, <1>8, <1>9 DEF NoChannelLost
<1>11. ListsInv'
  <2>1. \A x \in Elements(tempList)' : x # moving' => channels'[x].state # "port"
    BY <1>1, <1>3, <1>4, <1>5, ElementsAreMade DEF ListsInv
  <2>2. ASSUME NEW q \in Peers
        PROVE  /\ Once(chanList'[q])
               /\ \A x \in Elements(chanList'[q]) : channels'[x].tid = q /\ channels'[x].state = "port"
               /\ next'[q] # None => channels'[next'[q]].state = "port"
    <3>1. next[q] \in Made \cup {None}
      BY <1>1 DEF TypeOK
    <3> QED BY <1>1, <1>3, <1>4, <3>1, ElementsAreMade DEF ListsInv
  <2>3. moving' # None => channels'[moving'].state = "port" /\ (Alive(moving)' => Held(moving)')
    <3>1. moving \in Made \cup {None}
      BY <1>1 DEF TypeOK
    <3> QED BY <1>1, <1>3, <1>4, <1>8, <1>9, <3>1 DEF ListsInv
  <2> QED BY <1>5, <2>1, <2>2, <2>3 DEF ListsInv, Once, Elements
<1>12. TurnsInv'
  <2>1. \A x \in Made : channels'[x].state # "port" => waiting'[x] = {}
    BY <1>1, <1>4, <1>6 DEF TurnsInv
  <2>2. ASSUME NEW q \in Peers
        PROVE  /\ next[q] = None => \A j \in DOMAIN chanList[q] : waiting'[chanList[q][j]] = {}
               /\ \A j \in DOMAIN chanList[q] : waiting'[chanList[q][j]] \subseteq Elements(chanList[q])
               /\ \A k, i, j \in DOMAIN chanList[q] :
                    next[q] = chanList[q][k] /\ chanList[q][i] \in waiting'[chanList[q][j]]
                      => Ahead(k, i, j)
    <3>1. \A j \in DOMAIN chanList[q] : chanList[q][j] \in Made
      BY <1>1, ElementsAreMade DEF Elements
    <3>2. \A j \in DOMAIN chanList[q] : waiting'[chanList[q][j]] \subseteq waiting[chanList[q][j]]
      BY <1>6, <3>1
    <3> QED BY <1>1, <3>2 DEF TurnsInv
  <2>3. chanList' = chanList /\ next' = next /\ Made' = Made
    BY <1>3, <1>4
  <2> QED BY <2>1, <2>2, <2>3 DEF TurnsInv, Elements
<1> QED BY <1>7, <1>8, <1>10, <1>11, <1>12 DEF TerminalInv

(* A channel of a terminal leaves: the turns of the others stay in order.  *)
LEMMA LeaveTerminalKeeps ==
  ASSUME TerminalInv, NEW c \in Cids, ChannelLeaved(c), NEW p \in Peers,
         WithCid(tempList, c) = None, WithCid(chanList[p], c) # None,
         LeaveTerminal(p, WithCid(chanList[p], c)),
         waiting' = [x \in DOMAIN waiting |-> waiting[x] \ {WithCid(chanList[p], c)}]
  PROVE  TerminalInv'
<1> DEFINE L == chanList[p]
           o == WithCid(L, c)
           m == Position(L, o)
           R == RemoveAt(L, o)
<1>1. TypeOK /\ LinksInv /\ ListsInv /\ TurnsInv /\ NoChannelLost
  BY DEF TerminalInv
<1>2. L \in Seq(Made) /\ Elements(L) \subseteq Made /\ DOMAIN L = 1 .. Len(L) /\ Len(L) \in Nat
  BY <1>1, ElementsAreMade
<1>3. o \in Elements(L) /\ o \in Made /\ Cid(o) = c
  BY <1>2, FoundChannel
<1>4. /\ UnmarkTemp(o) /\ udpOpen' \in {udpOpen, udpOpen \ {Cid(o)}}
      /\ chanList' = [chanList EXCEPT ![p] = R]
      /\ next' = NextWithout(p, o)
      /\ waiting' = [x \in DOMAIN waiting |-> waiting[x] \ {o}]
      /\ link' = [link EXCEPT ![c] = None] /\ broken' = broken \ {c}
      /\ UNCHANGED <<tempList, wire, msgList, moving>>
  BY DEF ChannelLeaved, LeaveTerminal, CloseUDPOfKnown
<1> HIDE DEF o, m, R
<1>5. /\ channels' \in Seq(Records) /\ Made' = Made
      /\ \A x \in Made : /\ channels'[x].cid = channels[x].cid
                         /\ channels'[x].tid = channels[x].tid
                         /\ channels'[x].state = channels[x].state
  BY <1>1, <1>3, <1>4, Unmarked
<1>6. /\ R \in Seq(Made) /\ Len(R) = Len(L) - 1 /\ m \in 1 .. Len(L)
      /\ \A i \in 1 .. Len(L) - 1 : R[i] = L[Skip(m, i)] /\ Skip(m, i) \in 1 .. Len(L)
      /\ DOMAIN R = 1 .. Len(L) - 1
  BY <1>2, <1>3, Removed, LenProperties DEF R, m
<1>7. /\ Elements(L) \ {o} \subseteq Elements(R)
      /\ Elements(R) \subseteq Elements(L)
      /\ Once(R)
  <2>1. Once(L)
    BY <1>1 DEF ListsInv
  <2> HIDE DEF L
  <2> QED BY <1>2, <2>1, RemovedElements, Zenon DEF R
<1>8. /\ waiting' \in [Made -> SUBSET Made]
      /\ \A x \in Made : waiting'[x] = waiting[x] \ {o}
  BY <1>1, <1>4, WaitingShrinks
<1>9. chanList'[p] = R /\ \A q \in Peers : q # p => chanList'[q] = chanList[q] /\ next'[q] = next[q]
  BY <1>1, <1>4 DEF TypeOK, NextWithout
<1>10. next' \in [Peers -> Made \cup {None}] /\ next'[p] \in {None, next[p]}
  BY <1>1, <1>4 DEF TypeOK, NextWithout
<1>11. TypeOK'
  <2>1. link' \in [Cids -> Made \cup {None}] /\ broken' \subseteq Cids /\ udpOpen' \subseteq Cids
    BY <1>1, <1>4 DEF TypeOK
  <2>2. chanList' \in [Peers -> Seq(Made)]
    BY <1>1, <1>4, <1>6 DEF TypeOK
  <2> QED BY <1>1, <1>4, <1>5, <1>8, <1>10, <2>1, <2>2 DEF TypeOK, Records
<1>12. LinksInv' /\ \A x \in Made : Alive(x)' => Alive(x) /\ Cid(x) # c
  BY <1>5, LeavedLinks
<1>13. ASSUME NEW x \in Made, x # o, Held(x) PROVE Held(x)'
  <2>1. PICK q \in Peers : x \in Elements(chanList[q])
    BY <1>13 DEF Held
  <2>2. x \in Elements(chanList'[q])
    BY <1>7, <1>9, <1>13, <2>1
  <2> QED BY <2>2 DEF Held, Elements
<1>14. NoChannelLost'
  BY <1>1, <1>3, <1>4, <1>5, <1>12, <1>13 DEF NoChannelLost, Elements
<1>15. ListsInv'
  <2>1. Once(tempList)' /\ \A x \in Elements(tempList)' : x # moving' => channels'[x].state # "port"
    BY <1>1, <1>4, <1>5, ElementsAreMade DEF ListsInv, Once, Elements
  <2>2. ASSUME NEW q \in Peers
        PROVE  /\ Once(chanList'[q])
               /\ \A x \in Elements(chanList'[q]) : channels'[x].tid = q /\ channels'[x].state = "port"
               /\ next'[q] # None => channels'[next'[q]].state = "port"
    <3>1. next[q] \in Made \cup {None} /\ next'[q] \in {None, next[q]}
      BY <1>1, <1>9, <1>10 DEF TypeOK
    <3>2. next'[q] # None => channels'[next'[q]].state = "port"
      BY <1>1, <1>5, <3>1 DEF ListsInv
    <3>3. Once(chanList'[q]) /\ Elements(chanList'[q]) \subseteq Elements(chanList[q])
      BY <1>1, <1>7, <1>9 DEF ListsInv
    <3>4. \A x \in Elements(chanList[q]) : x \in Made /\ channels[x].tid = q /\ channels[x].state = "port"
      BY <1>1, ElementsAreMade DEF ListsInv
    <3> QED BY <1>5, <3>2, <3>3, <3>4
  <2>3. moving' # None => channels'[moving'].state = "port" /\ (Alive(moving)' => Held(moving)')
    <3>1. moving \in Made \cup {None}
      BY <1>1 DEF TypeOK
    <3> QED BY <1>1, <1>3, <1>4, <1>5, <1>12, <1>13, <3>1 DEF ListsInv
  <2> QED BY <2>1, <2>2, <2>3 DEF ListsInv, Once, Elements
<1>16. TurnsInv'
  <2>1. \A x \in Made : channels'[x].state # "port" => waiting'[x] = {}
    BY <1>1, <1>5, <1>8 DEF TurnsInv
  <2>2. ASSUME NEW q \in Peers
        PROVE  /\ next'[q] = None => \A j \in DOMAIN chanList'[q] : waiting'[chanList'[q][j]] = {}
               /\ \A j \in DOMAIN chanList'[q] : waiting'[chanList'[q][j]] \subseteq Elements(chanList'[q])
               /\ \A k, i, j \in DOMAIN chanList'[q] :
                    next'[q] = chanList'[q][k] /\ chanList'[q][i] \in waiting'[chanList'[q][j]]
                      => Ahead(k, i, j)
    <3>1. /\ next[q] = None => \A j \in DOMAIN chanList[q] : waiting[chanList[q][j]] = {}
          /\ \A j \in DOMAIN chanList[q] : waiting[chanList[q][j]] \subseteq Elements(chanList[q])
          /\ \A k, i, j \in DOMAIN chanList[q] :
               next[q] = chanList[q][k] /\ chanList[q][i] \in waiting[chanList[q][j]]
                 => Ahead(k, i, j)
      BY <1>1 DEF TurnsInv
    <3>2. CASE q # p
      <4>1. \A j \in DOMAIN chanList[q] : waiting'[chanList[q][j]] \subseteq waiting[chanList[q][j]]
        BY <1>1, <1>8, ElementsAreMade DEF Elements
      <4>2. chanList'[q] = chanList[q] /\ next'[q] = next[q]
        BY <1>9, <3>2
      <4> HIDE DEF L
      <4> QED BY <3>1, <4>1, <4>2
    <3>3. CASE q = p
      <4> DEFINE n == Len(L) - 1
      <4>1. /\ next[p] = None => \A j \in 1 .. Len(L) : waiting[L[j]] = {}
            /\ \A j \in 1 .. Len(L) : waiting[L[j]] \subseteq Elements(L) /\ L[j] \in Made
            /\ \A k, i, j \in 1 .. Len(L) :
                 next[p] = L[k] /\ L[i] \in waiting[L[j]] => Ahead(k, i, j)
        <5>1. /\ next[p] = None => \A j \in DOMAIN L : waiting[L[j]] = {}
              /\ \A j \in DOMAIN L : waiting[L[j]] \subseteq Elements(L)
              /\ \A k, i, j \in DOMAIN L :
                   next[p] = L[k] /\ L[i] \in waiting[L[j]] => Ahead(k, i, j)
          BY <3>1, <3>3
        <5> HIDE DEF L
        <5>2. \A j \in 1 .. Len(L) : L[j] \in Made
          BY <1>2 DEF Elements
        <5> QED BY <1>2, <5>1, <5>2
      <4>2. \A x \in Made : x # None
        BY <1>1, Channels
      <4>3. next'[p] = next[p] \/ n = 0
        <5>1. CASE L = <<o>>
          BY <5>1
        <5>2. CASE L # <<o>>
          BY <1>4, <5>2 DEF NextWithout
        <5> QED BY <5>1, <5>2
      <4> HIDE DEF L
      <4>4. \A j \in 1 .. n : waiting'[R[j]] = waiting[L[Skip(m, j)]] \ {o}
        BY <1>6, <1>8, <4>1
      <4>5. next'[p] = None => \A j \in 1 .. n : waiting'[R[j]] = {}
        <5>1. CASE n = 0
          <6>1. 1 .. n = {}
            <7> HIDE DEF n
            <7> QED BY <5>1
          <6> QED BY <6>1
        <5>2. CASE next'[p] = next[p]
          BY <1>6, <4>1, <4>4, <5>2
        <5> QED BY <4>3, <5>1, <5>2
      <4>6. \A j \in 1 .. n : waiting'[R[j]] \subseteq Elements(R)
        BY <1>6, <1>7, <4>1, <4>4
      <4>7. ASSUME NEW k \in 1 .. n, NEW i \in 1 .. n, NEW j \in 1 .. n,
                   next'[p] = R[k], R[i] \in waiting'[R[j]]
            PROVE  Ahead(k, i, j)
        <5>1. next[p] = R[k]
          BY <1>2, <4>3, <4>7
        <5>2. Ahead(Skip(m, k), Skip(m, i), Skip(m, j))
          BY <1>6, <4>1, <4>4, <4>7, <5>1
        <5>3. m \in Nat /\ k \in Nat /\ i \in Nat /\ j \in Nat
          BY <1>2, <1>6
        <5> QED BY <5>2, <5>3, SkipAhead
      <4> QED BY <1>6, <1>9, <3>3, <4>5, <4>6, <4>7
    <3> QED BY <3>2, <3>3
  <2> QED BY <1>5, <2>1, <2>2 DEF TurnsInv, Elements
<1> QED BY <1>11, <1>12, <1>14, <1>15, <1>16 DEF TerminalInv

LEMMA LeavedKeeps ==
  ASSUME TerminalInv, NEW c \in Cids, ChannelLeaved(c)
  PROVE  TerminalInv'
<1> DEFINE holders == {p \in Peers : WithCid(chanList[p], c) # None}
<1>1. CASE WithCid(tempList, c) # None
  BY <1>1, LeaveTempKeeps
<1>2. CASE /\ WithCid(tempList, c) = None
           /\ \E p \in holders :
                /\ LeaveTerminal(p, WithCid(chanList[p], c))
                /\ waiting' = [x \in DOMAIN waiting |-> waiting[x] \ {WithCid(chanList[p], c)}]
  BY <1>2, LeaveTerminalKeeps
<1>3. CASE UNCHANGED <<channels, udpOpen, tempList, chanList, next, waiting>>
  <2>1. /\ TypeOK /\ LinksInv /\ ListsInv /\ TurnsInv /\ NoChannelLost
        /\ link' = [link EXCEPT ![c] = None] /\ broken' = broken \ {c}
        /\ UNCHANGED <<wire, msgList, moving>>
    BY DEF TerminalInv, ChannelLeaved
  <2>2. TypeOK'
    <3>1. link' \in [Cids -> Made \cup {None}] /\ broken' \subseteq Cids
      BY <2>1 DEF TypeOK
    <3> QED BY <1>3, <2>1, <3>1 DEF TypeOK, Made
  <2>3. PortsKept
    BY <1>3 DEF PortsKept, Made
  <2>4. LinksInv' /\ \A x \in Made : Alive(x)' => Alive(x) /\ Cid(x) # c
    BY <2>3, LeavedLinks DEF PortsKept
  <2>5. NoChannelLost' /\ ListsInv' /\ TurnsInv'
    BY <1>3, <2>1, <2>3, <2>4, ListsKept
  <2> QED BY <2>2, <2>4, <2>5 DEF TerminalInv
<1> QED BY <1>1, <1>2, <1>3 DEF ChannelLeaved

-----------------------------------------------------------------------------
LEMMA InitKeeps ==
  ASSUME Init
  PROVE  TerminalInv
<1>1. Made = {} /\ \A p \in Peers : chanList[p] = <<>> /\ next[p] = None
  BY DEF Init, Made
<1>2. TypeOK
  <2>1. waiting \in [Made -> SUBSET Made]
    BY <1>1 DEF Init
  <2>2. /\ channels \in Seq(Records) /\ tempList \in Seq(Made)
        /\ msgList \in Seq([kind : {"rid", "port"}, cid : Cids, tid : Peers])
        /\ chanList \in [Peers -> Seq(Made)] /\ wire \in [Cids -> Seq({"rid", "port"})]
    BY EmptySeq DEF Init
  <2> QED BY <1>1, <2>1, <2>2 DEF Init, TypeOK, Records
<1>3. LinksInv
  BY DEF Init, LinksInv
<1>4. ListsInv
  BY <1>1 DEF Init, ListsInv, Once, Elements
<1>5. TurnsInv
  BY <1>1 DEF TurnsInv
<1>6. NoChannelLost
  BY <1>1 DEF NoChannelLost
<1> QED BY <1>2, <1>3, <1>4, <1>5, <1>6 DEF TerminalInv

(* Whatever arrives, answers, moves, leaves or is taken, the invariant of  *)
(* the lists and the turns holds: NetTerminal's actions keep it.           *)
THEOREM TerminalInvariance == Spec => []TerminalInv
<1>1. Init => TerminalInv
  BY InitKeeps
<1>2. TerminalInv /\ [Next]_vars => TerminalInv'
  <2> SUFFICES ASSUME TerminalInv, [Next]_vars PROVE TerminalInv'
    OBVIOUS
  <2>1. CASE \E c \in Cids, p \in Peers : ChannelArrived(c, p)
    BY <2>1, ArrivedKeeps
  <2>2. CASE \E c \in Cids : Break(c) \/ ChannelLeaved(c) \/ Arrive(c)
    BY <2>2, BreakKeeps, LeavedKeeps, ArriveKeeps
  <2>3. CASE Command
    BY <2>3, RemoteIDKeeps, PortKeeps, FinishKeeps DEF Command
  <2>4. CASE TempTraverse
    BY <2>4, TraverseKeeps
  <2>5. CASE \E p \in Peers : ChannelSelect(p)
    BY <2>5, SelectKeeps
  <2>6. CASE UNCHANGED vars
    BY <2>6, StutterKeeps
  <2> QED BY <2>1, <2>2, <2>3, <2>4, <2>5, <2>6 DEF Next
<1> QED BY <1>1, <1>2, PTL DEF Spec

(* The types of NetTerminal's state.                                       *)
THEOREM TerminalTypes == Spec => []TypeOK
<1>1. TerminalInv => TypeOK
  BY DEF TerminalInv
<1> QED BY <1>1, TerminalInvariance, PTL

(* A channel whose connection is up is among the temporary ones or with a  *)
(* terminal, whatever TerminalTraverse takes out meanwhile.                *)
THEOREM ChannelsKept == Spec => []NoChannelLost
<1>1. TerminalInv => NoChannelLost
  BY DEF TerminalInv
<1> QED BY <1>1, TerminalInvariance, PTL

(* ChannelSelect takes every channel that was in the list, and has not     *)
(* left, before it takes one again.                                        *)
THEOREM FairRotation == Spec => []RotationFair
<1>1. ASSUME TerminalInv PROVE RotationFair
  <2> SUFFICES ASSUME NEW p \in Peers, Upcoming(p) # None
               PROVE  waiting[Upcoming(p)] = {}
    BY DEF RotationFair
  <2> DEFINE L == chanList[p]
             u == Upcoming(p)
  <2>1. /\ next[p] = None => \A j \in DOMAIN L : waiting[L[j]] = {}
        /\ \A j \in DOMAIN L : waiting[L[j]] \subseteq Elements(L)
        /\ \A k, i, j \in DOMAIN L :
             next[p] = L[k] /\ L[i] \in waiting[L[j]] => Ahead(k, i, j)
    BY <1>1 DEF TerminalInv, TurnsInv
  <2>2. u \in Elements(L) /\ (next[p] = None \/ next[p] = u)
    BY DEF Upcoming
  <2>3. DOMAIN L = 1 .. Len(L) /\ Len(L) \in Nat
    BY <1>1, ElementsAreMade DEF TerminalInv
  <2> HIDE DEF L, u
  <2>4. PICK k \in DOMAIN L : L[k] = u
    BY <2>2 DEF Elements
  <2>5. CASE next[p] = None
    BY <2>1, <2>4, <2>5 DEF u
  <2>6. CASE next[p] = u
    <3>1. \A i \in DOMAIN L : ~Ahead(k, i, k)
      BY <2>3 DEF Ahead
    <3>2. \A i \in DOMAIN L : L[i] \notin waiting[L[k]]
      BY <2>1, <2>4, <2>6, <3>1
    <3>3. waiting[L[k]] = {}
      BY <2>1, <3>2 DEF Elements
    <3> QED BY <2>4, <3>3 DEF u
  <2> QED BY <2>2, <2>5, <2>6
<1> QED BY <1>1, TerminalInvariance, PTL

=============================================================================
