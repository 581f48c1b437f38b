---------------------------- MODULE RBUDPProofs ----------------------------
(***************************************************************************)
(* Proofs about RBUDP, for any number of packets, copies and losses, and   *)
(* any number of flows of which no two share an end.                       *)
(***************************************************************************)
EXTENDS RBUDP, SequenceTheorems, FiniteSetTheorems, WellFoundedInduction, TLAPS

(* The members of a set of packets from h on without a gap are an          *)
(* interval, empty or not.                                                 *)
LEMMA GaplessRun ==
  ASSUME NEW M \in SUBSET Packets, NEW h \in Nat
  PROVE  \E g \in Nat :
           /\ g >= h /\ g \notin M /\ h .. g - 1 \subseteq M
           /\ \A i \in M : h <= i /\ h .. i \subseteq M <=> i \in h .. g - 1
           /\ Cardinality(h .. g - 1) = g - h
<1> DEFINE T == {k \in Nat : k >= h /\ k \notin M}
<1>1. MaxPackets \in Nat /\ M \subseteq 0 .. MaxPackets - 1
  BY RBUDPAssumption DEF Packets
<1>2. h + MaxPackets \in T
  BY <1>1
<1>3. PICK g \in T : \A k \in T : ~(<<k, g>> \in OpToRel(<, Nat))
  BY <1>2, WFMin, NatLessThanWellFounded
<1>4. g \in Nat /\ g >= h /\ g \notin M /\ \A k \in T : ~(k < g)
  BY <1>3 DEF OpToRel
<1>5. \A k \in h .. g - 1 : k \in M
  BY <1>4
<1>6. ASSUME NEW i \in M PROVE h <= i /\ h .. i \subseteq M <=> i \in h .. g - 1
  <2>1. ASSUME h <= i, h .. i \subseteq M PROVE i \in h .. g - 1
    <3>1. i \in Nat
      BY <1>1
    <3>2. ~(g \in h .. i)
      BY <1>4, <2>1
    <3> QED BY <1>4, <2>1, <3>1, <3>2
  <2>2. ASSUME i \in h .. g - 1 PROVE h <= i /\ h .. i \subseteq M
    BY <1>4, <1>5, <2>2
  <2> QED BY <2>1, <2>2
<1>7. Cardinality(h .. g - 1) = g - h
  <2>1. g - 1 \in Int /\ h \in Int /\ (g - 1) - h + 1 = g - h /\ (h > g - 1 => g - h = 0)
    BY <1>4
  <2> QED BY <2>1, FS_Interval, Zenon
<1> QED BY <1>4, <1>5, <1>6, <1>7

LEMMA RunIsInterval ==
  ASSUME NEW f \in Flows, rMap[f] \in SUBSET Packets, rHead[f] \in Nat
  PROVE  \E g \in Nat : /\ g >= rHead[f] /\ g \notin rMap[f]
                        /\ rHead[f] .. g - 1 \subseteq rMap[f]
                        /\ Run(f) = rHead[f] .. g - 1
                        /\ Cardinality(Run(f)) = g - rHead[f]
<1>1. PICK g \in Nat :
           /\ g >= rHead[f] /\ g \notin rMap[f] /\ rHead[f] .. g - 1 \subseteq rMap[f]
           /\ \A i \in rMap[f] : rHead[f] <= i /\ rHead[f] .. i \subseteq rMap[f] <=> i \in rHead[f] .. g - 1
           /\ Cardinality(rHead[f] .. g - 1) = g - rHead[f]
  BY GaplessRun
<1>2. Run(f) = rHead[f] .. g - 1
  BY <1>1 DEF Run
<1> QED BY <1>1, <1>2

(* In the order of their numbers an interval is its numbers one by one.    *)
LEMMA IntervalInOrder ==
  ASSUME NEW a \in Nat, NEW b \in Nat, a <= b
  PROVE  InOrder(a .. b - 1) = [k \in 1 .. b - a |-> a + k - 1]
<1> DEFINE S == a .. b - 1
<1>1. Cardinality(S) = b - a
  <2>1. b - 1 \in Int /\ a \in Int /\ (b - 1) - a + 1 = b - a /\ (a > b - 1 => b - a = 0)
    OBVIOUS
  <2> QED BY <2>1, FS_Interval, Zenon
<1>2. ASSUME NEW i \in S PROVE Cardinality({j \in S : j < i}) = i - a
  <2>1. {j \in S : j < i} = a .. i - 1
    OBVIOUS
  <2>2. i - 1 \in Int /\ a \in Int /\ (i - 1) - a + 1 = i - a /\ (a > i - 1 => i - a = 0)
    BY <1>2
  <2>3. Cardinality(a .. i - 1) = i - a
    BY <2>2, FS_Interval, Zenon
  <2> QED BY <2>1, <2>3
<1>3. ASSUME NEW k \in 1 .. b - a
      PROVE  (CHOOSE i \in S : Cardinality({j \in S : j < i}) = k - 1) = a + k - 1
  <2>1. a + k - 1 \in S
    BY <1>3
  <2>2. \A i \in S : Cardinality({j \in S : j < i}) = k - 1 <=> i = a + k - 1
    <3>1. \A i \in S : Cardinality({j \in S : j < i}) = k - 1 <=> i - a = k - 1
      BY <1>2
    <3>2. \A i \in S : i - a = k - 1 <=> i = a + k - 1
      BY <1>3
    <3> QED BY <3>1, <3>2
  <2> QED BY <2>1, <2>2
<1> QED BY <1>1, <1>3 DEF InOrder

(* Numbers up to h followed by those up to g.                              *)
LEMMA NumbersGoOn ==
  ASSUME NEW D, NEW h \in Nat, NEW g \in Nat, h <= g,
         NEW x \in Seq(D), x = [k \in 1 .. h |-> k - 1],
         NEW v \in Seq(D), v = [k \in 1 .. g - h |-> h + k - 1]
  PROVE  x \o v = [k \in 1 .. g |-> k - 1]
<1>1. Len(x) = h /\ \A k \in 1 .. h : x[k] = k - 1
  OBVIOUS
<1>2. Len(v) = g - h /\ \A k \in 1 .. g - h : v[k] = h + k - 1
  OBVIOUS
<1>3. /\ x \o v \in Seq(D) /\ Len(x \o v) = Len(x) + Len(v)
      /\ \A k \in 1 .. Len(x) + Len(v) : (x \o v)[k] = IF k <= Len(x) THEN x[k] ELSE v[k - Len(x)]
  BY ConcatProperties
<1>4. Len(x) + Len(v) = g
  BY <1>1, <1>2
<1>5. ASSUME NEW k \in 1 .. g PROVE (x \o v)[k] = k - 1
  <2>1. CASE k <= h
    BY <1>1, <1>3, <1>4, <2>1
  <2>2. CASE ~(k <= h)
    <3>1. k - h \in 1 .. g - h /\ h + (k - h) - 1 = k - 1
      BY <2>2
    <3>2. (x \o v)[k] = v[k - h]
      BY <1>1, <1>3, <1>4, <2>2
    <3> QED BY <1>2, <3>1, <3>2
  <2> QED BY <2>1, <2>2
<1> QED BY <1>3, <1>4, <1>5


(* The ends of a flow are terminals.                                       *)
LEMMA Ends ==
  ASSUME NEW f \in Flows
  PROVE  f[1] \in Terminals /\ f[2] \in Terminals
BY DEF Terminals

LEMMA InitInv == Init => RBUDPInv
<1> SUFFICES ASSUME Init PROVE RBUDPInv
  OBVIOUS
<1> USE DEF Init, PerFlow, PerTerminal, NoCopies
<1>1. TypeOK
  <2>1. 0 \in Packets /\ rHead \in [Flows -> 0 .. MaxPackets] /\ lost \in 0 .. MaxLost
    BY RBUDPAssumption DEF Packets
  <2>2. net \in [Flows -> [Packets -> 0 .. MaxCopies]]
    BY RBUDPAssumption
  <2>3. /\ stored \in [Flows -> Seq(Writers \X Nat)] /\ told \in [Flows -> Seq(Writers \X Nat)]
        /\ upper \in [Flows -> Seq(Packets)] /\ handed \in [Flows -> Seq(Packets)]
        /\ nakQue \in [Terminals -> Seq([flow : Flows, named : SUBSET Packets])]
    OBVIOUS
  <2>4. /\ asked \in [Flows -> BOOLEAN] /\ addAble \in [Flows -> BOOLEAN]
        /\ upTo \in [Flows -> Packets] /\ crashed \in BOOLEAN
    BY <2>1
  <2> QED BY <2>1, <2>2, <2>3, <2>4 DEF TypeOK
<1>2. SenderInv
  BY RBUDPAssumption DEF SenderInv, SentBy
<1>3. ReceiverInv /\ NothingLost /\ InOrderOnce
  BY Ends DEF ReceiverInv, NothingLost, InOrderOnce, SentBy, Got
<1>4. ReportsInv
  BY DEF ReportsInv
<1> QED BY <1>1, <1>2, <1>3, <1>4 DEF RBUDPInv

LEMMA PayloadType ==
  ASSUME TypeOK, NEW f \in Flows, NEW w \in Writers
  PROVE  Payload(f, w) \in Writers \X Nat
<1> DEFINE T == {k \in DOMAIN told[f] : told[f][k][1] = w}
<1>1. T \subseteq 1 .. Len(told[f]) /\ Len(told[f]) \in Nat
  BY DEF TypeOK
<1>2. IsFiniteSet(1 .. Len(told[f]))
  BY <1>1, FS_Interval
<1>3. Cardinality(T) \in Nat
  BY <1>1, <1>2, FS_Subset, FS_CardinalityType
<1> QED BY <1>3 DEF Payload

(* Every report is of a flow and names packets.                            *)
LEMMA ReportType ==
  ASSUME TypeOK, NEW t \in Terminals, NEW k \in DOMAIN nakQue[t]
  PROVE  nakQue[t][k].flow \in Flows /\ nakQue[t][k].named \subseteq Packets
<1>1. nakQue[t] \in Seq([flow : Flows, named : SUBSET Packets])
  BY DEF TypeOK
<1>2. nakQue[t][k] \in [flow : Flows, named : SUBSET Packets]
  BY <1>1, ElementOfSeq, LenProperties
<1> QED BY <1>2

(* SendUserData: what is added is unconfirmed, what goes out is known to   *)
(* have been told.                                                         *)
LEMMA SendKeeps ==
  ASSUME RBUDPInv, NEW f \in Flows, NEW w \in Writers, SendUserData(f, w)
  PROVE  RBUDPInv'
<1> DEFINE i == Len(stored'[f]) - 1
           Stored(g) == /\ addAble[g] => Len(stored[g]) = Len(told[g])
                        /\ ~addAble[g] => Len(stored[g]) = Len(told[g]) + 1
<1>1. /\ TypeOK /\ SenderInv /\ ReceiverInv /\ ReportsInv /\ NothingLost /\ InOrderOnce
      /\ UNCHANGED <<asked, upTo, receiver, manager, crashed>>
  BY DEF RBUDPInv, SendUserData
<1>2. /\ stored \in [Flows -> Seq(Writers \X Nat)] /\ told \in [Flows -> Seq(Writers \X Nat)]
      /\ addAble \in [Flows -> BOOLEAN] /\ sMap \in [Flows -> SUBSET Packets]
      /\ able \in [Flows -> SUBSET Packets] /\ net \in [Flows -> [Packets -> 0 .. MaxCopies]]
      /\ lost \in 0 .. MaxLost
  BY <1>1 DEF TypeOK
<1>13. Payload(f, w) \in Writers \X Nat
  BY <1>1, PayloadType
<1>14. \A g \in Flows : Len(stored[g]) \in Nat /\ Len(told[g]) \in Nat
  BY <1>2, LenProperties
<1>3. /\ stored' \in [Flows -> Seq(Writers \X Nat)]
      /\ \A g \in Flows : Len(stored[g]) <= Len(stored'[g]) /\ Len(stored'[g]) \in Nat
      /\ \A g \in Flows \ {f} : stored'[g] = stored[g]
      /\ addAble[f] => Len(stored'[f]) = Len(stored[f]) + 1
      /\ ~addAble[f] => stored'[f] = stored[f]
      /\ Len(stored'[f]) = Len(told[f]) + 1 /\ Len(stored'[f]) <= MaxPackets
  <2>1. CASE addAble[f]
    <3>1. stored' = [stored EXCEPT ![f] = Append(@, Payload(f, w))] /\ Len(stored[f]) < MaxPackets
      BY <2>1 DEF SendUserData, Adds
    <3>2. stored'[f] = Append(stored[f], Payload(f, w)) /\ \A g \in Flows \ {f} : stored'[g] = stored[g]
      BY <1>2, <3>1
    <3>3. stored'[f] \in Seq(Writers \X Nat) /\ Len(stored'[f]) = Len(stored[f]) + 1
      BY <1>2, <1>13, <3>2, AppendProperties
    <3>4. Len(stored[f]) = Len(told[f])
      BY <1>1, <1>14, <2>1 DEF SenderInv
    <3> QED BY <1>2, <1>14, <2>1, <3>1, <3>2, <3>3, <3>4, RBUDPAssumption
  <2>2. CASE ~addAble[f]
    <3>1. stored' = stored
      BY <2>2 DEF SendUserData, Adds
    <3> QED BY <1>1, <1>2, <1>14, <2>2, <3>1 DEF SenderInv
  <2> QED BY <2>1, <2>2
<1>4. i \in Packets /\ i = Len(told[f]) /\ i + 1 = Len(stored'[f])
  <2>1. Len(told[f]) \in Nat /\ Len(stored'[f]) \in Nat /\ MaxPackets \in Nat
    BY <1>14, <1>3, RBUDPAssumption
  <2> QED BY <1>3, <2>1 DEF Packets
<1>5. /\ \/ addAble[f] /\ sMap' = [sMap EXCEPT ![f] = @ \cup {i}]
         \/ ~addAble[f] /\ sMap' = sMap
      /\ \/ /\ addAble' = [addAble EXCEPT ![f] = TRUE]
            /\ told' = [told EXCEPT ![f] = Append(@, Payload(f, w))]
            /\ Carry(f, i, CopiesOf(i))
         \/ /\ addAble' = [addAble EXCEPT ![f] = FALSE]
            /\ UNCHANGED <<told, wire, able>>
  BY DEF SendUserData, Adds
<1> HIDE DEF i
<1>6. /\ sMap' \in [Flows -> SUBSET Packets]
      /\ \A g \in Flows : sMap[g] \subseteq sMap'[g] /\ sMap'[g] \subseteq SentBy(g)'
                        /\ SentBy(g)' \ sMap'[g] = SentBy(g) \ sMap[g]
  <2>1. \A g \in Flows : sMap[g] \subseteq SentBy(g)
    BY <1>1 DEF SenderInv
  <2>2. \A g \in Flows \ {f} : SentBy(g)' = SentBy(g)
    BY <1>3 DEF SentBy
  <2>3. CASE addAble[f] /\ sMap' = [sMap EXCEPT ![f] = @ \cup {i}]
    <3>1. SentBy(f)' = SentBy(f) \cup {i} /\ i \notin SentBy(f)
      BY <1>14, <1>3, <1>4, <2>3 DEF SentBy
    <3>2. /\ sMap'[f] = sMap[f] \cup {i} /\ \A g \in Flows \ {f} : sMap'[g] = sMap[g]
          /\ sMap' \in [Flows -> SUBSET Packets]
      BY <1>2, <1>4, <2>3
    <3> QED BY <2>1, <2>2, <3>1, <3>2
  <2>4. CASE ~addAble[f] /\ sMap' = sMap
    <3>1. SentBy(f)' = SentBy(f)
      BY <1>14, <1>3, <2>4 DEF SentBy
    <3> QED BY <1>2, <2>1, <2>2, <2>4, <3>1
  <2> QED BY <1>5, <2>3, <2>4
<1>15. net[f][i] = 0
  <2>1. net[f][i] \in 0 .. MaxCopies /\ ~(net[f][i] > 0)
    BY <1>1, <1>2, <1>14, <1>4 DEF SenderInv
  <2> QED BY <2>1, RBUDPAssumption
<1>7. /\ addAble' \in [Flows -> BOOLEAN] /\ told' \in [Flows -> Seq(Writers \X Nat)]
      /\ able' \in [Flows -> SUBSET Packets] /\ net' \in [Flows -> [Packets -> 0 .. MaxCopies]]
      /\ lost' \in 0 .. MaxLost
      /\ \A g \in Flows : /\ Stored(g)'
                          /\ \A k \in Packets : net'[g][k] > 0 \/ k \in able'[g] => k < Len(told'[g])
  <2>1. CASE /\ addAble' = [addAble EXCEPT ![f] = TRUE]
             /\ told' = [told EXCEPT ![f] = Append(@, Payload(f, w))]
             /\ Carry(f, i, CopiesOf(i))
    <3>1. PICK got \in 0 .. CopiesOf(i), new \in {{}, {i}} :
            /\ lost + CopiesOf(i) - got <= MaxLost /\ lost' = lost + CopiesOf(i) - got
            /\ net' = [net EXCEPT ![f][i] = @ + got]
            /\ able' = [able EXCEPT ![f] = @ \cup new]
      <4>1. \A got : \A new \in FedBack(i, got) : new \in {{}, {i}}
        BY DEF FedBack
      <4> QED BY <2>1, <4>1 DEF Carry
    <3>2. got \in Nat /\ got <= 2 /\ CopiesOf(i) \in {1, 2} /\ got <= CopiesOf(i)
      BY DEF CopiesOf
    <3>3. /\ net' \in [Flows -> [Packets -> 0 .. MaxCopies]]
          /\ \A g \in Flows, k \in Packets : ~(g = f /\ k = i) => net'[g][k] = net[g][k]
      <4>1. net' = [net EXCEPT ![f] = [net[f] EXCEPT ![i] = got]]
        BY <1>2, <1>4, <1>15, <3>1, <3>2
      <4>2. got \in 0 .. MaxCopies
        BY <3>2, RBUDPAssumption
      <4>3. [net[f] EXCEPT ![i] = got] \in [Packets -> 0 .. MaxCopies]
        BY <1>2, <1>4, <4>2
      <4> QED BY <1>2, <1>4, <4>1, <4>3
    <3>4. /\ able' \in [Flows -> SUBSET Packets]
          /\ able'[f] \subseteq able[f] \cup {i} /\ \A g \in Flows \ {f} : able'[g] = able[g]
      BY <1>2, <1>4, <3>1
    <3>5. lost' \in 0 .. MaxLost
      BY <1>2, <3>1, <3>2, RBUDPAssumption
    <3>6. /\ told'[f] = Append(told[f], Payload(f, w)) /\ addAble'[f]
          /\ \A g \in Flows \ {f} : told'[g] = told[g] /\ addAble'[g] = addAble[g]
          /\ addAble' \in [Flows -> BOOLEAN]
      BY <1>2, <2>1
    <3>7. told'[f] \in Seq(Writers \X Nat) /\ Len(told'[f]) = Len(told[f]) + 1
      BY <1>2, <1>13, <3>6, AppendProperties
    <3>8. told' \in [Flows -> Seq(Writers \X Nat)]
      BY <1>2, <2>1, <3>7
    <3>9. ASSUME NEW g \in Flows
          PROVE  Stored(g)'
      <4>1. CASE g = f
        BY <1>14, <1>3, <3>6, <3>7, <4>1
      <4>2. CASE g # f
        BY <1>1, <1>3, <3>6, <4>2 DEF SenderInv
      <4> QED BY <4>1, <4>2
    <3>10. ASSUME NEW g \in Flows, NEW k \in Packets, net'[g][k] > 0 \/ k \in able'[g]
           PROVE  k < Len(told'[g])
      <4>1. CASE g = f /\ k = i
        BY <1>14, <1>4, <3>7, <4>1
      <4>2. CASE ~(g = f /\ k = i)
        <5>1. net[g][k] > 0 \/ k \in able[g]
          BY <3>3, <3>4, <3>10, <4>2
        <5>2. k < Len(told[g])
          BY <1>1, <5>1 DEF SenderInv
        <5>3. Len(told[g]) <= Len(told'[g]) /\ Len(told[g]) \in Nat /\ Len(told'[g]) \in Nat
          BY <1>14, <3>6, <3>7
        <5> QED BY <5>2, <5>3 DEF Packets
      <4> QED BY <4>1, <4>2
    <3> QED BY <3>3, <3>4, <3>5, <3>6, <3>8, <3>9, <3>10
  <2>2. CASE addAble' = [addAble EXCEPT ![f] = FALSE] /\ UNCHANGED <<told, wire, able>>
    <3>1. /\ addAble' \in [Flows -> BOOLEAN] /\ ~addAble'[f]
          /\ \A g \in Flows \ {f} : addAble'[g] = addAble[g]
      BY <1>2, <2>2
    <3>2. ASSUME NEW g \in Flows
          PROVE  Stored(g)'
      <4>1. CASE g = f
        BY <1>3, <2>2, <3>1, <4>1
      <4>2. CASE g # f
        BY <1>1, <1>3, <2>2, <3>1, <4>2 DEF SenderInv
      <4> QED BY <4>1, <4>2
    <3> QED BY <1>1, <1>2, <2>2, <3>1, <3>2 DEF SenderInv, wire
  <2> QED BY <1>5, <2>1, <2>2
<1>8. TypeOK'
  BY <1>1, <1>3, <1>6, <1>7 DEF TypeOK, receiver, manager
<1>9. SenderInv'
  <2>1. \A g \in Flows : Len(stored'[g]) <= MaxPackets
    BY <1>1, <1>3 DEF SenderInv
  <2> QED BY <1>6, <1>7, <2>1 DEF SenderInv
<1>10. ReceiverInv'
  <2>1. ASSUME NEW g \in Flows PROVE SentBy(g) \subseteq SentBy(g)' /\ rHead[g] <= Len(stored'[g])
    <3>1. rHead[g] <= Len(stored[g]) /\ rHead[g] \in Nat /\ Len(stored[g]) \in Nat
      BY <1>1, <1>14 DEF ReceiverInv, TypeOK
    <3> QED BY <1>3, <3>1 DEF SentBy
  <2> QED BY <1>1, <1>6, <2>1 DEF ReceiverInv, Got, receiver, manager
<1>11. ReportsInv'
  <2>1. \A t \in Terminals : \A k \in DOMAIN nakQue[t] : nakQue[t][k].flow \in Flows
    BY <1>1, ReportType
  <2> QED BY <1>1, <1>6, <2>1 DEF ReportsInv, ReportOK, Got, receiver, manager
<1>12. NothingLost' /\ InOrderOnce'
  BY <1>1, <1>6 DEF NothingLost, InOrderOnce, receiver
<1> QED BY <1>8, <1>9, <1>10, <1>11, <1>12 DEF RBUDPInv

(* OnCheckTimeOut: only copies of packets that were sent are added.        *)
LEMMA CheckKeeps ==
  ASSUME RBUDPInv, NEW f \in Flows, NEW due \in SUBSET Waiting(f), OnCheckTimeOut(f, due)
  PROVE  RBUDPInv'
<1>1. /\ TypeOK /\ SenderInv /\ ReceiverInv /\ ReportsInv /\ NothingLost /\ InOrderOnce
      /\ UNCHANGED <<sMap, able, upTo, writer, receiver, manager, crashed>>
  BY DEF RBUDPInv, OnCheckTimeOut
<1>2. /\ net \in [Flows -> [Packets -> 0 .. MaxCopies]] /\ asked' \in [Flows -> BOOLEAN]
      /\ lost \in 0 .. MaxLost
  BY <1>1 DEF TypeOK, OnCheckTimeOut
<1>3. due \subseteq Packets /\ due \subseteq able[f] /\ \A i \in due : net[f][i] < MaxCopies
  BY <1>1 DEF TypeOK, Waiting
<1>4. PICK gone \in SUBSET due :
        /\ lost + Cardinality(gone) <= MaxLost /\ lost' = lost + Cardinality(gone)
        /\ net' = [net EXCEPT ![f] = [i \in Packets |->
                                        IF i \in due \ gone THEN @[i] + 1 ELSE @[i]]]
  BY DEF OnCheckTimeOut
<1>5. lost' \in 0 .. MaxLost
  <2>1. IsFiniteSet(Packets)
    BY FS_Interval, RBUDPAssumption DEF Packets
  <2>2. Cardinality(gone) \in Nat
    BY <1>3, <2>1, FS_Subset, FS_CardinalityType
  <2> QED BY <1>2, <1>4, <2>2, RBUDPAssumption
<1>6. /\ \A g \in Flows \ {f} : net'[g] = net[g]
      /\ \A i \in Packets : net'[f][i] = IF i \in due \ gone THEN net[f][i] + 1 ELSE net[f][i]
  BY <1>2, <1>4
<1>7. net' \in [Flows -> [Packets -> 0 .. MaxCopies]]
  <2>1. ASSUME NEW i \in Packets
        PROVE  (IF i \in due \ gone THEN net[f][i] + 1 ELSE net[f][i]) \in 0 .. MaxCopies
    <3>1. net[f][i] \in 0 .. MaxCopies /\ MaxCopies \in Nat
      BY <1>2, RBUDPAssumption
    <3> QED BY <1>3, <3>1
  <2> QED BY <1>2, <1>4, <2>1
<1>8. \A g \in Flows : \A i \in Packets : net'[g][i] > 0 \/ i \in able[g] => i < Len(told[g])
  BY <1>1, <1>3, <1>6 DEF SenderInv
<1>9. TypeOK'
  BY <1>1, <1>2, <1>5, <1>7 DEF TypeOK, writer, receiver, manager
<1>10. SenderInv'
  BY <1>1, <1>8 DEF SenderInv, SentBy, writer
<1>11. ReceiverInv' /\ NothingLost' /\ InOrderOnce'
  BY <1>1 DEF ReceiverInv, NothingLost, InOrderOnce, SentBy, Got, writer, receiver, manager
<1>12. ReportsInv'
  BY <1>1 DEF ReportsInv, ReportOK, Got, receiver, manager
<1> QED BY <1>9, <1>10, <1>11, <1>12 DEF RBUDPInv

(* Upload: the application is given what it was owed.                      *)
LEMMA UploadKeeps ==
  ASSUME RBUDPInv, NEW f \in Flows, Upload(f)
  PROVE  RBUDPInv'
<1>1. /\ TypeOK /\ SenderInv /\ ReceiverInv /\ ReportsInv /\ NothingLost /\ InOrderOnce
      /\ UNCHANGED <<sender, writer, wire, rMap, rSend, rData, rHead, manager, crashed>>
      /\ handed' = [handed EXCEPT ![f] = @ \o upper[f]] /\ upper' = [upper EXCEPT ![f] = <<>>]
  BY DEF RBUDPInv, Upload
<1>2. upper \in [Flows -> Seq(Packets)] /\ handed \in [Flows -> Seq(Packets)]
  BY <1>1 DEF TypeOK
<1>3. /\ handed'[f] = handed[f] \o upper[f] /\ upper'[f] = <<>>
      /\ \A g \in Flows \ {f} : handed'[g] = handed[g] /\ upper'[g] = upper[g]
  BY <1>1, <1>2
<1>4. handed[f] \o upper[f] \in Seq(Packets) /\ (handed[f] \o upper[f]) \o <<>> = handed[f] \o upper[f]
  BY <1>2, ConcatProperties, ConcatEmptySeq
<1>5. TypeOK'
  <2>1. handed' \in [Flows -> Seq(Packets)] /\ upper' \in [Flows -> Seq(Packets)]
    BY <1>1, <1>2, <1>4
  <2> QED BY <1>1, <2>1 DEF TypeOK, sender, writer, wire, manager
<1>6. SenderInv' /\ ReceiverInv' /\ NothingLost'
  BY <1>1 DEF SenderInv, ReceiverInv, NothingLost, SentBy, Got, sender, writer, wire, manager
<1>7. ReportsInv'
  BY <1>1 DEF ReportsInv, ReportOK, Got, sender, manager
<1>8. InOrderOnce'
  BY <1>1, <1>3, <1>4 DEF InOrderOnce
<1> QED BY <1>5, <1>6, <1>7, <1>8 DEF RBUDPInv

(* DealMessageWork: reports are given to a flow of the terminal they are   *)
(* at.                                                                     *)
LEMMA FindKeeps ==
  ASSUME RBUDPInv, NEW t \in Terminals, DealMessageWork(t)
  PROVE  RBUDPInv'
<1>1. /\ TypeOK /\ SenderInv /\ ReceiverInv /\ ReportsInv /\ NothingLost /\ InOrderOnce
      /\ UNCHANGED <<sender, writer, wire, receiver, recvIndex, nakQue, crashed>>
      /\ termNak' = [termNak EXCEPT ![t] = {}]
  BY DEF RBUDPInv, DealMessageWork
<1>2. PICK f \in termNak[t] : hasFind' = [hasFind EXCEPT ![t] = f]
  BY DEF DealMessageWork
<1>3. f \in Flows /\ f[1] = t
  BY <1>1 DEF TypeOK, ReportsInv
<1>4. termNak' \in [Terminals -> SUBSET Flows] /\ hasFind' \in [Terminals -> Flows \cup {None}]
  BY <1>1, <1>2, <1>3 DEF TypeOK
<1>5. TypeOK'
  BY <1>1, <1>4 DEF TypeOK, sender, writer, wire, receiver
<1>6. SenderInv' /\ ReceiverInv' /\ NothingLost' /\ InOrderOnce'
  BY <1>1 DEF SenderInv, ReceiverInv, NothingLost, InOrderOnce, SentBy, Got, sender, writer, wire, receiver
<1>7. ReportsInv'
  <2>1. \A u \in Terminals : \A k \in DOMAIN nakQue[u] : ReportOK(u, k)'
    BY <1>1 DEF ReportsInv, ReportOK, Got, sender, receiver
  <2>2. \A u \in Terminals : /\ \A g \in termNak'[u] : g[1] = u
                             /\ hasFind'[u] # None => hasFind'[u][1] = u
    BY <1>1, <1>2, <1>3 DEF TypeOK, ReportsInv
  <2> QED BY <1>1, <2>1, <2>2 DEF ReportsInv
<1> QED BY <1>5, <1>6, <1>7 DEF RBUDPInv

(* Receive: a packet that is new to the entity is one no report has named. *)
LEMMA ReceiveKeeps ==
  ASSUME RBUDPInv, NEW f \in Flows, NEW i \in Packets, Receive(f, i)
  PROVE  RBUDPInv'
<1>1. /\ TypeOK /\ SenderInv /\ ReceiverInv /\ ReportsInv /\ NothingLost /\ InOrderOnce
      /\ UNCHANGED <<sender, writer, lost, rHead, upper, handed, nakQue, termNak, hasFind, crashed>>
      /\ net[f][i] > 0 /\ net' = [net EXCEPT ![f][i] = @ - 1]
      /\ recvIndex' = [recvIndex EXCEPT ![f[2]] = @ \cup ({i} \ {0})]
  BY DEF RBUDPInv, Receive
<1>2. /\ net \in [Flows -> [Packets -> 0 .. MaxCopies]] /\ recvIndex \in [Terminals -> SUBSET (Packets \ {0})]
      /\ rMap \in [Flows -> SUBSET Packets] /\ rSend \in [Flows -> SUBSET Packets]
      /\ rData \in [Flows -> SUBSET Packets]
  BY <1>1 DEF TypeOK
<1>3. /\ net' \in [Flows -> [Packets -> 0 .. MaxCopies]]
      /\ \A g \in Flows, k \in Packets : net'[g][k] > 0 => net[g][k] > 0
  <2>1. net' = [net EXCEPT ![f] = [net[f] EXCEPT ![i] = net[f][i] - 1]]
    BY <1>1, <1>2
  <2>2. net[f][i] - 1 \in 0 .. MaxCopies
    BY <1>1, <1>2, RBUDPAssumption
  <2>3. [net[f] EXCEPT ![i] = net[f][i] - 1] \in [Packets -> 0 .. MaxCopies]
    BY <1>2, <2>2
  <2>4. net' \in [Flows -> [Packets -> 0 .. MaxCopies]]
    BY <1>2, <2>1, <2>3
  <2>5. \A g \in Flows, k \in Packets : ~(g = f /\ k = i) => net'[g][k] = net[g][k]
    BY <1>2, <2>1
  <2> QED BY <1>1, <2>4, <2>5
<1>4. /\ recvIndex' \in [Terminals -> SUBSET (Packets \ {0})]
      /\ \A t \in Terminals : recvIndex[t] \subseteq recvIndex'[t]
      /\ i # 0 => i \in recvIndex'[f[2]]
  BY <1>1, <1>2, Ends
<1>5. i \in SentBy(f)
  <2>1. i < Len(told[f])
    BY <1>1 DEF SenderInv
  <2>2. Len(told[f]) \in Nat /\ Len(stored[f]) \in Nat /\ i \in Nat
    BY <1>1, LenProperties, RBUDPAssumption DEF TypeOK, Packets
  <2>3. Len(told[f]) <= Len(stored[f])
    BY <1>1, <2>2 DEF SenderInv, TypeOK
  <2> QED BY <2>1, <2>2, <2>3 DEF SentBy
<1>6. SenderInv'
  BY <1>1, <1>3 DEF SenderInv, SentBy, sender, writer
<1>7. CASE UNCHANGED <<rMap, rSend, rData>>
  <2>1. TypeOK'
    BY <1>1, <1>3, <1>4, <1>7 DEF TypeOK, sender, writer
  <2>2. ReceiverInv'
    BY <1>1, <1>4, <1>7, Ends DEF ReceiverInv, SentBy, Got, sender, writer
  <2>3. ReportsInv'
    BY <1>1, <1>7 DEF ReportsInv, ReportOK, Got, sender
  <2>4. NothingLost' /\ InOrderOnce'
    BY <1>1, <1>7 DEF NothingLost, InOrderOnce, SentBy, sender, writer
  <2> QED BY <1>6, <2>1, <2>2, <2>3, <2>4 DEF RBUDPInv
<1>8. CASE /\ i \notin recvIndex[f[2]] /\ i \notin rMap[f]
           /\ rMap' = [rMap EXCEPT ![f] = @ \cup {i}]
           /\ rSend' = [rSend EXCEPT ![f] = @ \cup {i}]
           /\ rData' = [rData EXCEPT ![f] = @ \cup {i}]
  <2>1. /\ rMap'[f] = rMap[f] \cup {i} /\ rSend'[f] = rSend[f] \cup {i} /\ rData'[f] = rData[f] \cup {i}
        /\ \A g \in Flows \ {f} : rMap'[g] = rMap[g] /\ rSend'[g] = rSend[g] /\ rData'[g] = rData[g]
        /\ rMap' \in [Flows -> SUBSET Packets] /\ rSend' \in [Flows -> SUBSET Packets]
        /\ rData' \in [Flows -> SUBSET Packets]
    BY <1>2, <1>8
  <2>2. TypeOK'
    BY <1>1, <1>3, <1>4, <2>1 DEF TypeOK, sender, writer
  <2>3. Got(f)' = Got(f) \cup {i} /\ \A g \in Flows \ {f} : Got(g)' = Got(g)
    BY <1>1, <2>1 DEF Got
  <2>4. i # 0 => i \notin Got(f)
    BY <1>1, <1>8 DEF ReceiverInv
  <2>5. i # 0 => i \in sMap[f]
    <3>1. rHead[f] \in Nat /\ i \in Nat
      BY <1>1, RBUDPAssumption DEF TypeOK, Packets
    <3> QED BY <1>1, <1>5, <2>4, <3>1 DEF NothingLost, Got
  <2>6. ReceiverInv'
    <3>1. SentBy(f)' = SentBy(f) /\ \A g \in Flows : SentBy(g)' = SentBy(g)
      BY <1>1 DEF SentBy, writer
    <3>2. \A g \in Flows : rMap'[g] \subseteq SentBy(g)' /\ rHead'[g] <= Len(stored'[g])
      BY <1>1, <1>5, <2>1, <3>1 DEF ReceiverInv, writer
    <3>3. ASSUME NEW g \in Flows
          PROVE  rSend'[g] \subseteq Got(g)' /\ rSend'[g] \ {0} \subseteq sMap'[g]
      <4>1. rSend[g] \subseteq Got(g) /\ rSend[g] \ {0} \subseteq sMap[g] /\ sMap' = sMap
        BY <1>1 DEF ReceiverInv, sender
      <4>2. CASE g = f
        <5>1. rSend'[f] = rSend[f] \cup {i} /\ Got(f)' = Got(f) \cup {i}
          BY <2>1, <2>3
        <5> QED BY <2>5, <4>1, <4>2, <5>1
      <4>3. CASE g # f
        BY <2>1, <2>3, <4>1, <4>3
      <4> QED BY <4>2, <4>3
    <3>4. \A g \in Flows : Got(g)' \ {0} \subseteq recvIndex'[g[2]]
      BY <1>1, <1>4, <2>3, Ends DEF ReceiverInv
    <3> QED BY <3>2, <3>3, <3>4 DEF ReceiverInv
  <2>7. ReportsInv'
    <3>1. ASSUME NEW t \in Terminals, NEW k \in DOMAIN nakQue[t]
          PROVE  ReportOK(t, k)'
      <4>1. ReportOK(t, k) /\ nakQue[t][k].flow \in Flows
        BY <1>1, ReportType DEF ReportsInv
      <4>2. nakQue[t][k].flow = f => nakQue[t][k].named \cap {i} \subseteq {0}
        BY <2>4, <4>1 DEF ReportOK
      <4> QED BY <1>1, <2>1, <2>3, <4>1, <4>2 DEF ReportOK, sender
    <3> QED BY <1>1, <3>1 DEF ReportsInv
  <2>8. NothingLost' /\ InOrderOnce'
    BY <1>1, <2>1 DEF NothingLost, InOrderOnce, SentBy, sender, writer
  <2> QED BY <1>6, <2>2, <2>6, <2>7, <2>8 DEF RBUDPInv
<1> QED BY <1>7, <1>8 DEF Receive, Seen

(* The receiver's part of a pass of SendNAK: what the run takes out of the *)
(* map it adds to what was handed over.                                    *)
LEMMA PassOfTheRun ==
  ASSUME RBUDPInv, NEW f \in Flows, SendNAK(f), ~RunsOffTheMap(f)
  PROVE  /\ upper' \in [Flows -> Seq(Packets)] /\ rHead' \in [Flows -> 0 .. MaxPackets]
         /\ rMap' \in [Flows -> SUBSET Packets] /\ rData' \in [Flows -> SUBSET Packets]
         /\ rMap'[f] \subseteq rMap[f] /\ Got(f)' = Got(f)
         /\ rHead[f] <= rHead'[f] /\ rHead'[f] <= Len(stored[f])
         /\ handed[f] \o upper'[f] = [k \in 1 .. rHead'[f] |-> k - 1]
         /\ \A i \in rMap'[f] : i >= rHead'[f] => i \in rData'[f]
         /\ \A g \in Flows \ {f} : /\ upper'[g] = upper[g] /\ rHead'[g] = rHead[g]
                                   /\ rMap'[g] = rMap[g] /\ rData'[g] = rData[g]
<1> DEFINE h == rHead[f]
<1>1. /\ TypeOK /\ SenderInv /\ ReceiverInv /\ InOrderOnce
      /\ upper' = [upper EXCEPT ![f] = @ \o InOrder(Run(f))]
      /\ rData' = [rData EXCEPT ![f] = @ \ Run(f)]
      /\ rHead' = [rHead EXCEPT ![f] = @ + Cardinality(Run(f))]
      /\ rMap' = [rMap EXCEPT ![f] = @ \ Run(f)]
  BY DEF RBUDPInv, SendNAK
<1>2. /\ rMap \in [Flows -> SUBSET Packets] /\ rData \in [Flows -> SUBSET Packets]
      /\ rHead \in [Flows -> 0 .. MaxPackets] /\ h \in Nat /\ MaxPackets \in Nat
      /\ upper \in [Flows -> Seq(Packets)] /\ handed \in [Flows -> Seq(Packets)]
      /\ Len(stored[f]) \in Nat
  BY <1>1, LenProperties, RBUDPAssumption DEF TypeOK
<1>3. PICK g \in Nat : /\ g >= h /\ h .. g - 1 \subseteq rMap[f]
                       /\ Run(f) = h .. g - 1 /\ Cardinality(Run(f)) = g - h
  BY <1>2, RunIsInterval
<1>4. g <= Len(stored[f]) /\ g <= MaxPackets
  <2>1. h <= Len(stored[f]) /\ rMap[f] \subseteq SentBy(f) /\ Len(stored[f]) <= MaxPackets
    BY <1>1 DEF ReceiverInv, SenderInv
  <2>2. CASE g = h
    BY <1>2, <2>1, <2>2
  <2>3. CASE g > h
    <3>1. g - 1 \in h .. g - 1
      BY <1>2, <2>3
    <3>2. g - 1 \in SentBy(f)
      BY <1>3, <2>1, <3>1
    <3> QED BY <1>2, <2>1, <3>2 DEF SentBy
  <2> QED BY <1>2, <1>3, <2>2, <2>3
<1>5. /\ rHead'[f] = g /\ rMap'[f] = rMap[f] \ (h .. g - 1) /\ rData'[f] = rData[f] \ (h .. g - 1)
      /\ upper'[f] = upper[f] \o InOrder(Run(f))
      /\ \A k \in Flows \ {f} : /\ upper'[k] = upper[k] /\ rHead'[k] = rHead[k]
                                /\ rMap'[k] = rMap[k] /\ rData'[k] = rData[k]
  BY <1>1, <1>2, <1>3
<1>6. /\ rHead' \in [Flows -> 0 .. MaxPackets]
      /\ rMap' \in [Flows -> SUBSET Packets] /\ rData' \in [Flows -> SUBSET Packets]
  <2>1. h + Cardinality(Run(f)) \in 0 .. MaxPackets
    BY <1>2, <1>3, <1>4
  <2> QED BY <1>1, <1>2, <2>1
<1>7. Got(f)' = Got(f)
  <2>1. 0 .. g - 1 = 0 .. h - 1 \cup h .. g - 1
    BY <1>2, <1>3
  <2> QED BY <1>3, <1>5, <2>1 DEF Got
<1>8. \A i \in rMap'[f] : i >= rHead'[f] => i \in rData'[f]
  <2>1. ASSUME NEW i \in rMap[f], i >= g PROVE i \in rData[f] /\ i \notin h .. g - 1
    <3>1. i \in Nat
      BY <1>2 DEF Packets
    <3> QED BY <1>1, <1>2, <1>3, <2>1, <3>1 DEF InOrderOnce
  <2> QED BY <1>5, <2>1
<1>9. InOrder(Run(f)) = [k \in 1 .. g - h |-> h + k - 1]
  BY <1>2, <1>3, IntervalInOrder
<1>10. InOrder(Run(f)) \in Seq(Packets)
  <2>1. \A k \in 1 .. g - h : h + k - 1 \in Packets
    BY <1>2, <1>4 DEF Packets
  <2> DEFINE n == g - h
             run == [k \in 1 .. n |-> h + k - 1]
  <2>2. n \in Nat
    BY <1>2, <1>3
  <2>3. run \in [1 .. n -> Packets]
    BY <2>1
  <2>4. InOrder(Run(f)) = run
    BY <1>9
  <2> HIDE DEF n, run
  <2>5. run \in Seq(Packets)
    BY <2>2, <2>3, SeqDef
  <2> QED BY <2>4, <2>5
<1>11. upper'[f] \in Seq(Packets) /\ handed[f] \o upper'[f] = (handed[f] \o upper[f]) \o InOrder(Run(f))
  <2>1. handed[f] \in Seq(Packets) /\ upper[f] \in Seq(Packets)
    BY <1>2
  <2>2. upper[f] \o InOrder(Run(f)) \in Seq(Packets)
    BY <1>10, <2>1, ConcatProperties
  <2>3. ASSUME NEW x \in Seq(Packets), NEW y \in Seq(Packets), NEW z \in Seq(Packets)
        PROVE  (x \o y) \o z = x \o (y \o z)
    BY ConcatAssociative
  <2>4. (handed[f] \o upper[f]) \o InOrder(Run(f)) = handed[f] \o (upper[f] \o InOrder(Run(f)))
    BY <1>10, <2>1, <2>3
  <2> QED BY <1>5, <2>2, <2>4
<1>12. upper' \in [Flows -> Seq(Packets)]
  BY <1>1, <1>2, <1>5, <1>11
<1>13. handed[f] \o upper'[f] = [k \in 1 .. g |-> k - 1]
  <2>1. handed[f] \o upper[f] \in Seq(Packets)
    BY <1>2, ConcatProperties
  <2>2. handed[f] \o upper[f] = [k \in 1 .. h |-> k - 1]
    BY <1>1 DEF InOrderOnce
  <2>3. h \in Nat /\ g \in Nat /\ h <= g
    BY <1>2, <1>3
  <2> HIDE DEF h
  <2>4. (handed[f] \o upper[f]) \o InOrder(Run(f)) = [k \in 1 .. g |-> k - 1]
    BY <1>9, <1>10, <2>1, <2>2, <2>3, NumbersGoOn
  <2> QED BY <1>11, <2>4
<1> QED BY <1>3, <1>4, <1>5, <1>6, <1>7, <1>8, <1>12, <1>13

(* SendNAK: what is reported has arrived, and no other report names it.    *)
LEMMA NakKeeps ==
  ASSUME OneToOne, RBUDPInv, NEW f \in Flows, SendNAK(f)
  PROVE  RBUDPInv'
<1>1. /\ TypeOK /\ SenderInv /\ ReceiverInv /\ ReportsInv /\ NothingLost /\ InOrderOnce
      /\ UNCHANGED <<sender, writer, net>>
  BY DEF RBUDPInv, SendNAK
<1>2. CASE RunsOffTheMap(f)
  <2>1. crashed' = TRUE /\ UNCHANGED <<receiver, lost, manager>>
    BY <1>2 DEF SendNAK
  <2>2. TypeOK'
    BY <1>1, <2>1 DEF TypeOK, sender, writer, receiver, manager
  <2>3. SenderInv' /\ ReceiverInv' /\ NothingLost' /\ InOrderOnce'
    BY <1>1, <2>1 DEF SenderInv, ReceiverInv, NothingLost, InOrderOnce, SentBy, Got,
                      sender, writer, receiver, manager
  <2>4. ReportsInv'
    BY <1>1, <2>1 DEF ReportsInv, ReportOK, Got, sender, receiver, manager
  <2> QED BY <2>2, <2>3, <2>4 DEF RBUDPInv
<1>3. CASE ~RunsOffTheMap(f)
  <2> DEFINE src == f[1]
             rep == [flow |-> f, named |-> rSend[f]]
  <2>1. /\ upper' \in [Flows -> Seq(Packets)] /\ rHead' \in [Flows -> 0 .. MaxPackets]
        /\ rMap' \in [Flows -> SUBSET Packets] /\ rData' \in [Flows -> SUBSET Packets]
        /\ rMap'[f] \subseteq rMap[f] /\ Got(f)' = Got(f)
        /\ rHead[f] <= rHead'[f] /\ rHead'[f] <= Len(stored[f])
        /\ handed[f] \o upper'[f] = [k \in 1 .. rHead'[f] |-> k - 1]
        /\ \A i \in rMap'[f] : i >= rHead'[f] => i \in rData'[f]
        /\ \A g \in Flows \ {f} : /\ upper'[g] = upper[g] /\ rHead'[g] = rHead[g]
                                  /\ rMap'[g] = rMap[g] /\ rData'[g] = rData[g]
    BY <1>3, PassOfTheRun
  <2>2. /\ rSend' = [rSend EXCEPT ![f] = {}]
        /\ UNCHANGED <<handed, recvIndex, hasFind, crashed>>
        /\ \/ /\ nakQue' = [nakQue EXCEPT ![src] = Append(@, rep)]
              /\ termNak' = [termNak EXCEPT ![src] = @ \cup {f}]
              /\ lost' = lost
           \/ /\ lost < MaxLost /\ lost' = lost + 1
              /\ UNCHANGED <<nakQue, termNak>>
           \/ UNCHANGED <<nakQue, termNak, lost>>
    BY <1>3 DEF SendNAK
  <2>3. /\ src \in Terminals /\ nakQue \in [Terminals -> Seq([flow : Flows, named : SUBSET Packets])]
        /\ termNak \in [Terminals -> SUBSET Flows] /\ rSend \in [Flows -> SUBSET Packets]
        /\ lost \in 0 .. MaxLost /\ MaxLost \in Nat
        /\ rep \in [flow : Flows, named : SUBSET Packets]
    <3>1. /\ rSend \in [Flows -> SUBSET Packets] /\ termNak \in [Terminals -> SUBSET Flows]
          /\ nakQue \in [Terminals -> Seq([flow : Flows, named : SUBSET Packets])]
          /\ lost \in 0 .. MaxLost
      BY <1>1 DEF TypeOK
    <3>2. src \in Terminals
      BY Ends
    <3>3. rep \in [flow : Flows, named : SUBSET Packets]
      BY <3>1
    <3> QED BY <3>1, <3>2, <3>3, RBUDPAssumption
  <2> HIDE DEF src, rep
  <2>4. /\ rSend'[f] = {} /\ \A g \in Flows \ {f} : rSend'[g] = rSend[g]
        /\ rSend' \in [Flows -> SUBSET Packets]
    BY <2>2, <2>3
  <2>5. /\ termNak' \in [Terminals -> SUBSET Flows] /\ lost' \in 0 .. MaxLost
        /\ \A u \in Terminals : \A g \in termNak'[u] : g \in termNak[u] \/ (u = src /\ g = f)
    <3>1. lost' \in 0 .. MaxLost
      BY <2>2, <2>3
    <3>2. CASE termNak' = [termNak EXCEPT ![src] = @ \cup {f}]
      BY <2>3, <3>1, <3>2
    <3>3. CASE termNak' = termNak
      BY <2>3, <3>1, <3>3
    <3> QED BY <2>2, <3>2, <3>3
  <2>6. /\ nakQue' \in [Terminals -> Seq([flow : Flows, named : SUBSET Packets])]
        /\ \A u \in Terminals \ {src} : nakQue'[u] = nakQue[u]
        /\ nakQue'[src] = nakQue[src] \/ nakQue'[src] = Append(nakQue[src], rep)
    <3>1. Append(nakQue[src], rep) \in Seq([flow : Flows, named : SUBSET Packets])
      BY <2>3, AppendProperties
    <3> QED BY <2>2, <2>3, <3>1
  <2>7. \A g \in Flows : Got(g)' = Got(g)
    BY <2>1 DEF Got
  <2>8. TypeOK'
    BY <1>1, <2>1, <2>2, <2>4, <2>5, <2>6 DEF TypeOK, sender, writer
  <2>9. SenderInv'
    BY <1>1 DEF SenderInv, SentBy, sender, writer
  <2>10. ReceiverInv'
    <3>1. \A g \in Flows : rMap'[g] \subseteq SentBy(g)' /\ rHead'[g] <= Len(stored'[g])
      BY <1>1, <2>1 DEF ReceiverInv, SentBy, writer
    <3>2. \A g \in Flows : rSend'[g] \subseteq Got(g)' /\ rSend'[g] \ {0} \subseteq sMap'[g]
      BY <1>1, <2>4, <2>7 DEF ReceiverInv, sender
    <3>3. \A g \in Flows : Got(g)' \ {0} \subseteq recvIndex'[g[2]]
      BY <1>1, <2>2, <2>7 DEF ReceiverInv
    <3> QED BY <3>1, <3>2, <3>3 DEF ReceiverInv
  <2>11. NothingLost'
    <3>1. ASSUME NEW g \in Flows, NEW i \in SentBy(g) \ sMap[g] PROVE i \in Got(g)
      <4>1. i \in Nat /\ rHead[g] \in Nat
        BY <1>1, LenProperties DEF SentBy, TypeOK
      <4> QED BY <1>1, <4>1 DEF NothingLost, Got
    <3>2. \A g \in Flows : \A i \in Got(g)' : i < rHead'[g] \/ i \in rMap'[g]
      BY <2>1 DEF Got
    <3> QED BY <1>1, <2>7, <3>1, <3>2 DEF NothingLost, SentBy, sender, writer
  <2>12. InOrderOnce'
    BY <1>1, <2>1, <2>2 DEF InOrderOnce
  <2>13. ReportsInv'
    <3>1. \A u \in Terminals : /\ \A g \in termNak'[u] : g[1] = u
                               /\ (hasFind[u] # None => hasFind[u][1] = u)'
      BY <1>1, <2>2, <2>5 DEF ReportsInv, src
    <3>2. ASSUME NEW v \in Terminals, NEW l \in DOMAIN nakQue[v]
          PROVE  \E g \in Flows :
                   /\ nakQue[v][l].flow = g /\ g[1] = v
                   /\ nakQue[v][l].named \subseteq 0 .. rHead'[g] - 1 \cup rMap'[g]
                   /\ nakQue[v][l].named \ {0} \subseteq sMap'[g] \ rSend'[g]
                   /\ nakQue[v][l].named \ {0} \subseteq sMap[g] \ rSend[g]
      <4>1. PICK g \in Flows : g = nakQue[v][l].flow
        BY <1>1, ReportType
      <4>2. /\ g[1] = v /\ nakQue[v][l].named \subseteq Got(g)
            /\ nakQue[v][l].named \ {0} \subseteq sMap[g] \ rSend[g]
        BY <1>1, <4>1 DEF ReportsInv, ReportOK
      <4>3. sMap' = sMap /\ rSend'[g] \subseteq rSend[g] /\ Got(g) = 0 .. rHead'[g] - 1 \cup rMap'[g]
        BY <1>1, <2>4, <2>7 DEF Got, sender
      <4> QED BY <4>1, <4>2, <4>3
    <3>3. ASSUME NEW v \in Terminals, NEW l \in DOMAIN nakQue[v],
                 NEW m \in DOMAIN nakQue[v], l # m
          PROVE  nakQue[v][l].named \cap nakQue[v][m].named \subseteq {0}
      BY <1>1, <3>3 DEF ReportsInv, ReportOK
    <3>4. ASSUME NEW u \in Terminals, NEW k \in DOMAIN nakQue'[u]
          PROVE  ReportOK(u, k)'
      <4>1. CASE nakQue'[u] = nakQue[u]
        BY <3>2, <3>3, <4>1 DEF ReportOK, Got
      <4>2. CASE u = src /\ nakQue'[src] = Append(nakQue[src], rep)
        <5> DEFINE n == Len(nakQue[src])
        <5>1. /\ n \in Nat /\ DOMAIN nakQue[src] = 1 .. n /\ DOMAIN nakQue'[src] = 1 .. n + 1
              /\ nakQue'[src][n + 1] = rep /\ \A l \in 1 .. n : nakQue'[src][l] = nakQue[src][l]
          BY <2>3, <4>2, AppendProperties, LenProperties
        <5>2. /\ rep.flow = f /\ f[1] = src /\ rep.named = rSend[f]
              /\ rep.named \subseteq 0 .. rHead'[f] - 1 \cup rMap'[f]
              /\ rep.named \ {0} \subseteq sMap'[f] \ rSend'[f]
          BY <1>1, <2>4, <2>7 DEF ReceiverInv, Got, sender, rep, src
        <5>3. ASSUME NEW l \in 1 .. n PROVE nakQue[src][l].named \cap rep.named \subseteq {0}
          <6>1. PICK g \in Flows : g[1] = src /\ nakQue[src][l].named \ {0} \subseteq sMap[g] \ rSend[g]
            BY <2>3, <3>2, <5>1
          <6>2. g = f
            BY <5>2, <6>1 DEF OneToOne
          <6> QED BY <5>2, <6>1, <6>2
        <5> HIDE DEF n
        <5>4. CASE k = n + 1
          <6>1. \A l \in DOMAIN nakQue'[src] : l # k => nakQue'[src][l].named \cap rep.named \subseteq {0}
            BY <5>1, <5>3, <5>4
          <6>2. nakQue'[u][k] = rep /\ u = src
            BY <4>2, <5>1, <5>4
          <6> QED BY <5>2, <6>1, <6>2 DEF ReportOK, Got
        <5>5. CASE k # n + 1
          <6>1. k \in 1 .. n /\ k \in DOMAIN nakQue[src]
            BY <4>2, <5>1, <5>5
          <6>2. ASSUME NEW l \in DOMAIN nakQue'[src], l # k
                PROVE  nakQue'[src][k].named \cap nakQue'[src][l].named \subseteq {0}
            <7>1. CASE l = n + 1
              BY <5>1, <5>3, <6>1, <7>1
            <7>2. CASE l # n + 1
              <8>1. l \in DOMAIN nakQue[src] /\ l \in 1 .. n
                BY <5>1, <7>2
              <8>2. nakQue[src][k].named \cap nakQue[src][l].named \subseteq {0}
                BY <2>3, <3>3, <6>1, <6>2, <8>1
              <8> QED BY <5>1, <6>1, <8>1, <8>2
            <7> QED BY <7>1, <7>2
          <6>3. u = src /\ nakQue'[u][k] = nakQue[src][k]
            BY <4>2, <5>1, <6>1
          <6> QED BY <2>3, <3>2, <6>1, <6>2, <6>3 DEF ReportOK, Got
        <5> QED BY <5>4, <5>5
      <4> QED BY <2>6, <4>1, <4>2
    <3>5. \A u \in Terminals : \A k \in DOMAIN nakQue'[u] : ReportOK(u, k)'
      BY <3>4
    <3> QED BY <3>1, <3>5, Zenon DEF ReportsInv
  <2> QED BY <2>8, <2>9, <2>10, <2>11, <2>12, <2>13 DEF RBUDPInv
<1> QED BY <1>2, <1>3

(* When the sender keeps all the numbers of a report but 0, no range of it *)
(* is open, and what is erased is named.                                   *)
LEMMA KeptIsUnnamed ==
  ASSUME NEW M \in SUBSET Packets, NEW S \in SUBSET Packets, S \ {0} \subseteq M
  PROVE  Kept(M, S) \subseteq M /\ M \ Kept(M, S) \subseteq S
<1>1. Open(M, S) = {}
  <2>1. ASSUME NEW r \in Open(M, S) PROVE FALSE
    <3>1. r \in S \X S /\ r[1] < r[2] /\ r[2] \notin M
      BY <2>1 DEF Open, Ranges
    <3>2. r[1] \in S /\ r[2] \in S /\ S \subseteq Nat
      BY <3>1, RBUDPAssumption DEF Packets
    <3>3. r[1] \in Nat /\ r[2] \in Nat
      BY <3>2
    <3>4. r[2] # 0
      BY <3>1, <3>3
    <3> QED BY <3>1, <3>2, <3>4
  <2> QED BY <2>1
<1>2. \A r \in Ranges(S) : r[1] .. r[2] \subseteq S
  BY DEF Ranges
<1> QED BY <1>1, <1>2 DEF Kept

(* The last single number of a report is a number of it, or 0.             *)
LEMMA LastSingleType ==
  ASSUME NEW S \in SUBSET Packets
  PROVE  LastSingle(S) \in Packets
<1>1. Singles(S) \subseteq 0 .. MaxPackets - 1 /\ MaxPackets \in Nat /\ MaxPackets > 0
  <2>1. Singles(S) \subseteq S
    BY DEF Singles
  <2>2. MaxPackets \in Nat /\ MaxPackets > 0
    BY RBUDPAssumption
  <2> QED BY <2>1, <2>2 DEF Packets
<1> DEFINE T == {MaxPackets - i : i \in Singles(S)}
<1>2. CASE Singles(S) = {}
  BY <1>1, <1>2 DEF LastSingle, Packets
<1>3. CASE Singles(S) # {}
  <2>1. PICK i0 \in Singles(S) : TRUE
    BY <1>3
  <2>2. MaxPackets - i0 \in T /\ T \subseteq Nat
    BY <1>1, <2>1
  <2>3. PICK m \in T : \A k \in T : ~(<<k, m>> \in OpToRel(<, Nat))
    BY <2>2, WFMin, NatLessThanWellFounded
  <2>4. \A k \in T : ~(k < m)
    BY <2>2, <2>3 DEF OpToRel
  <2>5. PICK i \in Singles(S) : m = MaxPackets - i
    BY <2>3
  <2>6. \A j \in Singles(S) : j <= i
    <3>1. ASSUME NEW j \in Singles(S) PROVE j <= i
      <4>1. MaxPackets - j \in T
        OBVIOUS
      <4>2. ~(MaxPackets - j < MaxPackets - i)
        BY <2>4, <2>5, <4>1
      <4> QED BY <1>1, <4>2
    <3> QED BY <3>1
  <2>7. LastSingle(S) \in Singles(S)
    BY <1>3, <2>6 DEF LastSingle
  <2> QED BY <1>1, <2>7 DEF Packets
<1> QED BY <1>2, <1>3

(* DealNak gives a report to the flow it is of, and takes from the map     *)
(* only numbers the report names.                                          *)
LEMMA ReportReachesItsFlow ==
  ASSUME OneToOne, RBUDPInv, NEW t \in Terminals, DealNak(t)
  PROVE  \E f \in Flows, S \in SUBSET Packets :
           /\ f = hasFind[t] /\ f[1] = t
           /\ S = nakQue[t][1].named /\ nakQue[t] # <<>>
           /\ S \subseteq Got(f) /\ S \ {0} \subseteq sMap[f] \ rSend[f]
           /\ \/ /\ crashed' = TRUE /\ UNCHANGED <<sender, nakQue>>
              \/ /\ sMap' \in [Flows -> SUBSET Packets]
                 /\ sMap'[f] \subseteq sMap[f] /\ sMap[f] \ sMap'[f] \subseteq S
                 /\ \A g \in Flows \ {f} : sMap'[g] = sMap[g]
                 /\ upTo' \in [Flows -> Packets] /\ asked' \in [Flows -> BOOLEAN]
                 /\ nakQue' = [nakQue EXCEPT ![t] = Tail(@)]
                 /\ UNCHANGED <<able, crashed>>
<1>1. TypeOK /\ ReportsInv
  BY DEF RBUDPInv
<1>2. /\ hasFind[t] # None /\ nakQue[t] # <<>>
      /\ nakQue[t] \in Seq([flow : Flows, named : SUBSET Packets])
      /\ sMap \in [Flows -> SUBSET Packets] /\ upTo \in [Flows -> Packets]
      /\ asked \in [Flows -> BOOLEAN]
  BY <1>1 DEF DealNak, TypeOK
<1>3. PICK f \in Flows : f = hasFind[t] /\ f[1] = t
  BY <1>1, <1>2 DEF TypeOK, ReportsInv
<1>4. 1 \in DOMAIN nakQue[t] /\ Head(nakQue[t]) = nakQue[t][1]
  BY <1>2, EmptySeq, LenProperties, HeadTailProperties
<1>5. PICK S \in SUBSET Packets : S = nakQue[t][1].named
  BY <1>1, <1>4, ReportType
<1>6. nakQue[t][1].flow = f
  <2>1. nakQue[t][1].flow \in Flows /\ nakQue[t][1].flow[1] = t
    BY <1>1, <1>4, ReportType DEF ReportsInv, ReportOK
  <2> QED BY <1>3, <2>1 DEF OneToOne
<1>7. S \subseteq Got(f) /\ S \ {0} \subseteq sMap[f] \ rSend[f]
  BY <1>1, <1>4, <1>5, <1>6 DEF ReportsInv, ReportOK
<1>8. \/ /\ crashed' = TRUE /\ UNCHANGED <<sender, nakQue>>
      \/ /\ sMap' = [sMap EXCEPT ![f] = Kept(@, S)]
         /\ upTo' = [upTo EXCEPT ![f] = IF LastSingle(S) > @ THEN LastSingle(S) ELSE @]
         /\ asked' = [asked EXCEPT ![f] = TRUE]
         /\ nakQue' = [nakQue EXCEPT ![t] = Tail(@)]
         /\ UNCHANGED <<able, crashed>>
  BY <1>3, <1>4, <1>5 DEF DealNak
<1>9. Kept(sMap[f], S) \subseteq sMap[f] /\ sMap[f] \ Kept(sMap[f], S) \subseteq S
  BY <1>2, <1>7, KeptIsUnnamed
<1>10. LastSingle(S) \in Packets
  BY LastSingleType
<1>11. CASE /\ sMap' = [sMap EXCEPT ![f] = Kept(@, S)]
            /\ upTo' = [upTo EXCEPT ![f] = IF LastSingle(S) > @ THEN LastSingle(S) ELSE @]
            /\ asked' = [asked EXCEPT ![f] = TRUE]
            /\ nakQue' = [nakQue EXCEPT ![t] = Tail(@)]
            /\ UNCHANGED <<able, crashed>>
  <2>1. /\ sMap' \in [Flows -> SUBSET Packets] /\ sMap'[f] = Kept(sMap[f], S)
        /\ \A g \in Flows \ {f} : sMap'[g] = sMap[g]
    BY <1>2, <1>9, <1>11
  <2>2. upTo' \in [Flows -> Packets] /\ asked' \in [Flows -> BOOLEAN]
    BY <1>2, <1>10, <1>11
  <2> QED BY <1>2, <1>3, <1>5, <1>7, <1>9, <1>11, <2>1, <2>2
<1> QED BY <1>2, <1>3, <1>5, <1>7, <1>8, <1>11

(* DealNak: what is taken from the sender's map has arrived, and the other *)
(* reports and the numbers still to be reported are untouched.             *)
LEMMA DealKeeps ==
  ASSUME OneToOne, RBUDPInv, NEW t \in Terminals, DealNak(t)
  PROVE  RBUDPInv'
<1>1. /\ TypeOK /\ SenderInv /\ ReceiverInv /\ ReportsInv /\ NothingLost /\ InOrderOnce
      /\ UNCHANGED <<writer, wire, receiver, recvIndex, termNak, hasFind>>
  BY DEF RBUDPInv, DealNak
<1>2. PICK f \in Flows, S \in SUBSET Packets :
           /\ f = hasFind[t] /\ f[1] = t
           /\ S = nakQue[t][1].named /\ nakQue[t] # <<>>
           /\ S \subseteq Got(f) /\ S \ {0} \subseteq sMap[f] \ rSend[f]
           /\ \/ /\ crashed' = TRUE /\ UNCHANGED <<sender, nakQue>>
              \/ /\ sMap' \in [Flows -> SUBSET Packets]
                 /\ sMap'[f] \subseteq sMap[f] /\ sMap[f] \ sMap'[f] \subseteq S
                 /\ \A g \in Flows \ {f} : sMap'[g] = sMap[g]
                 /\ upTo' \in [Flows -> Packets] /\ asked' \in [Flows -> BOOLEAN]
                 /\ nakQue' = [nakQue EXCEPT ![t] = Tail(@)]
                 /\ UNCHANGED <<able, crashed>>
  BY ReportReachesItsFlow
<1>3. CASE crashed' = TRUE /\ UNCHANGED <<sender, nakQue>>
  <2>1. TypeOK'
    BY <1>1, <1>3 DEF TypeOK, sender, writer, wire, receiver
  <2>2. SenderInv' /\ ReceiverInv' /\ NothingLost' /\ InOrderOnce'
    BY <1>1, <1>3 DEF SenderInv, ReceiverInv, NothingLost, InOrderOnce, SentBy, Got,
                      sender, writer, wire, receiver
  <2>3. ReportsInv'
    BY <1>1, <1>3 DEF ReportsInv, ReportOK, Got, sender, receiver
  <2> QED BY <2>1, <2>2, <2>3 DEF RBUDPInv
<1>4. CASE /\ sMap' \in [Flows -> SUBSET Packets]
           /\ sMap'[f] \subseteq sMap[f] /\ sMap[f] \ sMap'[f] \subseteq S
           /\ \A g \in Flows \ {f} : sMap'[g] = sMap[g]
           /\ upTo' \in [Flows -> Packets] /\ asked' \in [Flows -> BOOLEAN]
           /\ nakQue' = [nakQue EXCEPT ![t] = Tail(@)]
           /\ UNCHANGED <<able, crashed>>
  <2> DEFINE n == Len(nakQue[t])
  <2>1. /\ nakQue \in [Terminals -> Seq([flow : Flows, named : SUBSET Packets])]
        /\ nakQue[t] \in Seq([flow : Flows, named : SUBSET Packets])
    BY <1>1 DEF TypeOK
  <2>2. /\ Tail(nakQue[t]) \in Seq([flow : Flows, named : SUBSET Packets])
        /\ n \in Nat /\ n >= 1 /\ DOMAIN nakQue[t] = 1 .. n
        /\ Len(Tail(nakQue[t])) = n - 1 /\ DOMAIN Tail(nakQue[t]) = 1 .. n - 1
        /\ \A k \in 1 .. n - 1 : Tail(nakQue[t])[k] = nakQue[t][k + 1]
    BY <1>2, <2>1, HeadTailProperties, LenProperties, EmptySeq
  <2>3. /\ nakQue' \in [Terminals -> Seq([flow : Flows, named : SUBSET Packets])]
        /\ nakQue'[t] = Tail(nakQue[t]) /\ \A u \in Terminals \ {t} : nakQue'[u] = nakQue[u]
    BY <1>4, <2>1, <2>2
  <2> HIDE DEF n
  <2>4. TypeOK'
    BY <1>1, <1>4, <2>3 DEF TypeOK, writer, wire, receiver
  <2>5. SenderInv'
    <3>1. \A g \in Flows : sMap'[g] \subseteq SentBy(g)
      BY <1>1, <1>4 DEF SenderInv
    <3> QED BY <1>1, <1>4, <3>1 DEF SenderInv, SentBy, writer, wire
  <2>6. ReceiverInv'
    <3>1. \A g \in Flows : rSend[g] \ {0} \subseteq sMap'[g]
      BY <1>1, <1>2, <1>4 DEF ReceiverInv
    <3> QED BY <1>1, <3>1 DEF ReceiverInv, SentBy, Got, writer, receiver
  <2>7. NothingLost'
    <3>1. ASSUME NEW i \in SentBy(f) \ sMap'[f] PROVE i < rHead[f] \/ i \in rMap[f]
      <4>1. CASE i \notin sMap[f]
        BY <1>1, <3>1, <4>1 DEF NothingLost
      <4>2. CASE i \in sMap[f]
        <5>1. i \in Got(f) /\ rHead[f] \in Nat
          BY <1>1, <1>2, <1>4, <3>1, <4>2 DEF TypeOK
        <5> QED BY <5>1 DEF Got
      <4> QED BY <4>1, <4>2
    <3> QED BY <1>1, <1>4, <3>1 DEF NothingLost, SentBy, writer, receiver
  <2>8. InOrderOnce'
    BY <1>1 DEF InOrderOnce, receiver
  <2>9. ReportsInv'
    <3>1. ASSUME NEW v \in Terminals, NEW l \in DOMAIN nakQue[v], ~(v = t /\ l = 1)
          PROVE  \E g \in Flows :
                   /\ nakQue[v][l].flow = g /\ g[1] = v
                   /\ nakQue[v][l].named \subseteq 0 .. rHead'[g] - 1 \cup rMap'[g]
                   /\ nakQue[v][l].named \ {0} \subseteq sMap'[g] \ rSend'[g]
                   /\ \A m \in DOMAIN nakQue[v] :
                        m # l => nakQue[v][l].named \cap nakQue[v][m].named \subseteq {0}
      <4>1. PICK g \in Flows : g = nakQue[v][l].flow
        BY <1>1, ReportType
      <4>2. /\ g[1] = v /\ nakQue[v][l].named \subseteq Got(g)
            /\ nakQue[v][l].named \ {0} \subseteq sMap[g] \ rSend[g]
            /\ \A m \in DOMAIN nakQue[v] :
                 m # l => nakQue[v][l].named \cap nakQue[v][m].named \subseteq {0}
        BY <1>1, <4>1 DEF ReportsInv, ReportOK
      <4>3. nakQue[v][l].named \ {0} \subseteq sMap'[g]
        <5>1. CASE v = t
          <6>1. 1 \in DOMAIN nakQue[t] /\ l # 1
            BY <2>2, <3>1, <5>1
          <6>2. nakQue[v][l].named \cap S \subseteq {0}
            BY <1>2, <4>2, <5>1, <6>1
          <6> QED BY <1>4, <4>2, <6>2
        <5>2. CASE v # t
          <6>1. g # f
            BY <1>2, <4>2, <5>2
          <6> QED BY <1>4, <4>2, <6>1
        <5> QED BY <5>1, <5>2
      <4>4. rSend' = rSend /\ Got(g) = 0 .. rHead'[g] - 1 \cup rMap'[g]
        BY <1>1 DEF Got, receiver
      <4> QED BY <4>1, <4>2, <4>3, <4>4
    <3>2. ASSUME NEW u \in Terminals, NEW k \in DOMAIN nakQue'[u]
          PROVE  ReportOK(u, k)'
      <4>1. CASE u # t
        BY <2>3, <3>1, <4>1 DEF ReportOK, Got
      <4>2. CASE u = t
        <5>1. /\ k \in 1 .. n - 1 /\ k + 1 \in DOMAIN nakQue[t] /\ k + 1 # 1
              /\ nakQue'[t][k] = nakQue[t][k + 1]
          BY <2>2, <2>3, <4>2
        <5>2. ASSUME NEW m \in DOMAIN nakQue'[t], m # k
              PROVE  nakQue'[t][k].named \cap nakQue'[t][m].named \subseteq {0}
          <6>1. m \in 1 .. n - 1 /\ m + 1 \in DOMAIN nakQue[t] /\ m + 1 # k + 1
            BY <2>2, <2>3, <5>1, <5>2
          <6>2. nakQue'[t][m] = nakQue[t][m + 1]
            BY <2>2, <2>3, <6>1
          <6> QED BY <3>1, <5>1, <6>1, <6>2
        <5> QED BY <3>1, <4>2, <5>1, <5>2 DEF ReportOK, Got
      <4> QED BY <4>1, <4>2
    <3>3. \A u \in Terminals : /\ \A g \in termNak'[u] : g[1] = u
                               /\ (hasFind[u] # None => hasFind[u][1] = u)'
      BY <1>1 DEF ReportsInv
    <3>4. \A u \in Terminals : \A k \in DOMAIN nakQue'[u] : ReportOK(u, k)'
      BY <3>2
    <3> QED BY <3>3, <3>4, Zenon DEF ReportsInv
  <2> QED BY <2>4, <2>5, <2>6, <2>7, <2>8, <2>9 DEF RBUDPInv
<1> QED BY <1>2, <1>3, <1>4

LEMMA StutterKeeps == RBUDPInv /\ UNCHANGED vars => RBUDPInv'
<1> SUFFICES ASSUME RBUDPInv, UNCHANGED vars PROVE RBUDPInv'
  OBVIOUS
<1>1. /\ TypeOK /\ SenderInv /\ ReceiverInv /\ ReportsInv /\ NothingLost /\ InOrderOnce
      /\ UNCHANGED <<sender, writer, wire, receiver, manager, crashed>>
  BY DEF RBUDPInv, vars
<1>2. TypeOK'
  BY <1>1 DEF TypeOK, sender, writer, wire, receiver, manager
<1>3. SenderInv' /\ ReceiverInv' /\ NothingLost' /\ InOrderOnce'
  BY <1>1 DEF SenderInv, ReceiverInv, NothingLost, InOrderOnce, SentBy, Got,
              sender, writer, wire, receiver, manager
<1>4. ReportsInv'
  BY <1>1 DEF ReportsInv, ReportOK, Got, sender, receiver, manager
<1> QED BY <1>2, <1>3, <1>4 DEF RBUDPInv

(* Every step keeps the invariant when no two flows share an end.          *)
LEMMA StepKeeps ==
  ASSUME OneToOne, RBUDPInv, [Next]_vars
  PROVE  RBUDPInv'
<1>1. ASSUME NEW f \in Flows, NEW w \in Writers, SendUserData(f, w) PROVE RBUDPInv'
  BY <1>1, SendKeeps
<1>2. ASSUME NEW f \in Flows, NEW due \in SUBSET Waiting(f), OnCheckTimeOut(f, due)
      PROVE  RBUDPInv'
  BY <1>2, CheckKeeps
<1>3. ASSUME NEW f \in Flows, NEW i \in Packets, Receive(f, i) PROVE RBUDPInv'
  BY <1>3, ReceiveKeeps
<1>4. ASSUME NEW f \in Flows, SendNAK(f) PROVE RBUDPInv'
  BY <1>4, NakKeeps
<1>5. ASSUME NEW f \in Flows, Upload(f) PROVE RBUDPInv'
  BY <1>5, UploadKeeps
<1>6. ASSUME NEW t \in Terminals, DealMessageWork(t) PROVE RBUDPInv'
  BY <1>6, FindKeeps
<1>7. ASSUME NEW t \in Terminals, DealNak(t) PROVE RBUDPInv'
  BY <1>7, DealKeeps
<1> QED BY <1>1, <1>2, <1>3, <1>4, <1>5, <1>6, <1>7, StutterKeeps DEF Next

(* The invariant of RBUDP, for terminals that send to one and receive from *)
(* one (m_Nak_que and m_RecvIndex do not tell flows apart).                *)
THEOREM RBUDPInvariance ==
  ASSUME OneToOne
  PROVE  Spec => []RBUDPInv
<1>1. RBUDPInv /\ [Next]_vars => RBUDPInv'
  BY StepKeeps
<1> QED BY <1>1, InitInv, PTL DEF Spec

(* The packets of a flow are handed over in order, each once.              *)
THEOREM OrderOfPackets ==
  ASSUME OneToOne
  PROVE  Spec => []InOrderOnce
<1>1. RBUDPInv => InOrderOnce
  BY DEF RBUDPInv
<1> QED BY <1>1, RBUDPInvariance, PTL

(* The sender forgets no packet the receiving entity does not have.        *)
THEOREM NoPacketLost ==
  ASSUME OneToOne
  PROVE  Spec => []NothingLost
<1>1. RBUDPInv => NothingLost
  BY DEF RBUDPInv
<1> QED BY <1>1, RBUDPInvariance, PTL

(* The variables keep their types.                                         *)
THEOREM RBUDPTypes ==
  ASSUME OneToOne
  PROVE  Spec => []TypeOK
<1>1. RBUDPInv => TypeOK
  BY DEF RBUDPInv
<1> QED BY <1>1, RBUDPInvariance, PTL

(* What a task was told is stored: a packet that was refused is the one    *)
(* the task gives again.                                                   *)
Pending ==
  \A f \in Flows :
    /\ addAble[f] => stored[f] = told[f]
    /\ ~addAble[f] => \E w \in Writers : stored[f] = Append(told[f], Payload(f, w))

LEMMA PendingKept ==
  ASSUME \A v, w \in Writers : v = w, TypeOK, Pending, [Next]_vars
  PROVE  Pending'
<1>1. ASSUME UNCHANGED writer PROVE Pending'
  BY <1>1 DEF Pending, Payload, writer
<1>2. ASSUME NEW e \in Flows, NEW x \in Writers, SendUserData(e, x) PROVE Pending'
  <2>1. /\ stored \in [Flows -> Seq(Writers \X Nat)] /\ told \in [Flows -> Seq(Writers \X Nat)]
        /\ addAble \in [Flows -> BOOLEAN]
    BY DEF TypeOK
  <2>2. /\ stored'[e] = Append(told[e], Payload(e, x))
        /\ \A g \in Flows \ {e} : stored'[g] = stored[g]
    <3>1. CASE Adds(e)
      <4>1. stored' = [stored EXCEPT ![e] = Append(@, Payload(e, x))] /\ stored[e] = told[e]
        BY <1>2, <3>1 DEF SendUserData, Adds, Pending
      <4> QED BY <2>1, <4>1
    <3>2. CASE ~Adds(e)
      <4>1. stored' = stored
        BY <1>2, <3>2 DEF SendUserData
      <4>2. PICK v \in Writers : stored[e] = Append(told[e], Payload(e, v))
        BY <3>2 DEF Adds, Pending
      <4> QED BY <4>1, <4>2
    <3> QED BY <3>1, <3>2
  <2>3. CASE /\ addAble' = [addAble EXCEPT ![e] = TRUE]
             /\ told' = [told EXCEPT ![e] = Append(@, Payload(e, x))]
    <3>1. /\ addAble'[e] /\ told'[e] = Append(told[e], Payload(e, x))
          /\ \A g \in Flows \ {e} : addAble'[g] = addAble[g] /\ told'[g] = told[g]
      BY <2>1, <2>3
    <3>2. ASSUME NEW g \in Flows \ {e}
          PROVE  /\ stored'[g] = stored[g] /\ addAble'[g] = addAble[g] /\ told'[g] = told[g]
                 /\ \A v \in Writers : Payload(g, v)' = Payload(g, v)
      BY <2>2, <3>1 DEF Payload
    <3>3. \A g \in Flows \ {e} : /\ addAble'[g] => stored'[g] = told'[g]
                                 /\ ~addAble'[g] => \E v \in Writers : stored'[g] = Append(told'[g], Payload(g, v)')
      BY <3>2 DEF Pending
    <3> QED BY <2>2, <3>1, <3>3 DEF Pending
  <2>4. CASE addAble' = [addAble EXCEPT ![e] = FALSE] /\ UNCHANGED told
    <3>1. ~addAble'[e] /\ \A g \in Flows \ {e} : addAble'[g] = addAble[g]
      BY <2>1, <2>4
    <3>2. \A g \in Flows, v \in Writers : Payload(g, v)' = Payload(g, v)
      BY <2>4 DEF Payload
    <3>3. \A g \in Flows \ {e} : /\ addAble'[g] => stored'[g] = told'[g]
                                 /\ ~addAble'[g] => \E v \in Writers : stored'[g] = Append(told'[g], Payload(g, v)')
      BY <2>2, <2>4, <3>1, <3>2 DEF Pending
    <3>4. stored'[e] = Append(told'[e], Payload(e, x)')
      BY <2>2, <2>4, <3>2
    <3>5. \E v \in Writers : stored'[e] = Append(told'[e], Payload(e, v)')
      BY <3>4
    <3> QED BY <3>1, <3>3, <3>5 DEF Pending
  <2> QED BY <1>2, <2>3, <2>4 DEF SendUserData
<1>3. CASE UNCHANGED vars
  BY <1>1, <1>3 DEF vars
<1>4. ASSUME NEW f \in Flows, NEW due \in SUBSET Waiting(f), OnCheckTimeOut(f, due) PROVE UNCHANGED writer
  BY <1>4 DEF OnCheckTimeOut
<1>5. ASSUME NEW f \in Flows, NEW i \in Packets, Receive(f, i) PROVE UNCHANGED writer
  BY <1>5 DEF Receive
<1>6. ASSUME NEW f \in Flows, SendNAK(f) PROVE UNCHANGED writer
  BY <1>6 DEF SendNAK
<1>7. ASSUME NEW f \in Flows, Upload(f) PROVE UNCHANGED writer
  BY <1>7 DEF Upload
<1>8. ASSUME NEW t \in Terminals, DealMessageWork(t) \/ DealNak(t) PROVE UNCHANGED writer
  BY <1>8 DEF DealMessageWork, DealNak
<1> QED BY <1>1, <1>2, <1>3, <1>4, <1>5, <1>6, <1>7, <1>8 DEF Next

(* With one task on a flow each payload the task was told is sent is one   *)
(* packet, in the order it was told.                                       *)
THEOREM ToldInOrder ==
  ASSUME OneToOne, \A v, w \in Writers : v = w
  PROVE  Spec => []ToldIsStored
<1>1. Init => Pending
  BY DEF Init, Pending, PerFlow
<1>2. RBUDPInv /\ Pending /\ [Next]_vars => Pending'
  BY PendingKept DEF RBUDPInv
<1>3. RBUDPInv /\ Pending => ToldIsStored
  <2> SUFFICES ASSUME RBUDPInv, Pending, NEW f \in Flows
               PROVE  /\ told[f] = SubSeq(stored[f], 1, Len(told[f]))
                      /\ Len(stored[f]) - Len(told[f]) <= 1
    BY DEF ToldIsStored
  <2>1. TypeOK /\ told[f] \in Seq(Writers \X Nat) /\ Len(told[f]) \in Nat
    BY LenProperties DEF RBUDPInv, TypeOK
  <2>2. CASE stored[f] = told[f]
    BY <2>1, <2>2
  <2>3. CASE \E w \in Writers : stored[f] = Append(told[f], Payload(f, w))
    <3>1. PICK w \in Writers : stored[f] = Append(told[f], Payload(f, w))
      BY <2>3
    <3>2. Payload(f, w) \in Writers \X Nat
      BY <2>1, PayloadType
    <3> QED BY <2>1, <3>1, <3>2
  <2> QED BY <2>1, <2>2, <2>3 DEF Pending, TypeOK
<1> QED BY <1>1, <1>2, <1>3, RBUDPInvariance, PTL DEF Spec

(* The least of a set of numbers.                                          *)
LEMMA LeastIs ==
  ASSUME NEW S \in SUBSET Nat, S # {}
  PROVE  Least(S) \in S /\ \A j \in S : Least(S) <= j
<1>1. PICK x \in S : TRUE
  OBVIOUS
<1>2. PICK m \in S : \A k \in S : ~(<<k, m>> \in OpToRel(<, Nat))
  BY <1>1, WFMin, NatLessThanWellFounded
<1>3. \A k \in S : ~(k < m)
  BY <1>2 DEF OpToRel
<1>4. \A k \in S : m <= k
  BY <1>3
<1> QED BY <1>4 DEF Least

LEMMA LeastIsUnique ==
  ASSUME NEW S \in SUBSET Nat, NEW m \in S, \A j \in S : m <= j
  PROVE  Least(S) = m
<1>1. Least(S) \in S /\ \A j \in S : Least(S) <= j
  BY LeastIs
<1>2. Least(S) \in Nat /\ m \in Nat /\ Least(S) <= m /\ m <= Least(S)
  BY <1>1
<1> QED BY <1>2

LEMMA FlowType ==
  ASSUME Flows # {}
  PROVE  TheFlow \in Flows
BY DEF TheFlow

(* A step that changes nothing of the flow the window is about.            *)
LEMMA SameWindow ==
  ASSUME /\ stored'[TheFlow] = stored[TheFlow] /\ sMap'[TheFlow] = sMap[TheFlow]
         /\ rMap'[TheFlow] = rMap[TheFlow] /\ rHead'[TheFlow] = rHead[TheFlow]
         /\ handed'[TheFlow] = handed[TheFlow]
  PROVE  UNCHANGED Window!vars
<1>1. Run(TheFlow)' = Run(TheFlow)
  BY DEF Run
<1> QED BY <1>1 DEF Window!vars

(* The front of the packets without a gap is no more than was stored.      *)
LEMMA FrontIs ==
  ASSUME RBUDPInv, NEW f \in Flows
  PROVE  \E g \in Nat : /\ rHead[f] + Cardinality(Run(f)) = g
                        /\ rHead[f] <= g /\ g \notin rMap[f] /\ rHead[f] .. g - 1 \subseteq rMap[f]
                        /\ g <= Len(stored[f])
<1>1. TypeOK /\ ReceiverInv
  BY DEF RBUDPInv
<1>2. /\ rMap[f] \in SUBSET Packets /\ rHead[f] \in Nat /\ Len(stored[f]) \in Nat
      /\ rMap[f] \subseteq SentBy(f) /\ rHead[f] <= Len(stored[f])
  BY <1>1, LenProperties, RBUDPAssumption DEF TypeOK, ReceiverInv
<1>3. PICK g \in Nat : /\ g >= rHead[f] /\ g \notin rMap[f]
                       /\ rHead[f] .. g - 1 \subseteq rMap[f]
                       /\ Cardinality(Run(f)) = g - rHead[f]
  BY <1>2, RunIsInterval
<1>4. g <= Len(stored[f])
  <2>1. CASE g = rHead[f]
    BY <1>2, <2>1
  <2>2. CASE g > rHead[f]
    <3>1. g - 1 \in rHead[f] .. g - 1
      BY <1>2, <2>2
    <3>2. g - 1 \in SentBy(f)
      BY <1>2, <1>3, <3>1
    <3> QED BY <1>2, <3>2 DEF SentBy
  <2> QED BY <1>2, <1>3, <2>1, <2>2
<1>5. rHead[f] + Cardinality(Run(f)) = g
  BY <1>2, <1>3
<1> QED BY <1>3, <1>4, <1>5

(* A packet that is added is one more that was sent; the least that is not *)
(* confirmed stays.                                                        *)
LEMMA SendMaps ==
  ASSUME Flows # {}, RBUDPInv, NEW f \in Flows, NEW w \in Writers, SendUserData(f, w)
  PROVE  [Window!Next]_(Window!vars)
<1> DEFINE F == TheFlow
<1>1. F \in Flows /\ TypeOK /\ SenderInv /\ UNCHANGED receiver
  BY FlowType DEF RBUDPInv, SendUserData
<1>2. /\ stored \in [Flows -> Seq(Writers \X Nat)] /\ sMap \in [Flows -> SUBSET Packets]
      /\ Len(stored[F]) \in Nat /\ Payload(f, w) \in Writers \X Nat
      /\ MaxPackets \in Nat
  BY <1>1, PayloadType, LenProperties, RBUDPAssumption DEF TypeOK
<1>3. CASE f = F /\ Adds(f)
  <2> DEFINE n == Len(stored[F])
             S == sMap[F] \cup {n}
             m == Least(S)
  <2>1. /\ stored' = [stored EXCEPT ![F] = Append(@, Payload(f, w))]
        /\ sMap' = [sMap EXCEPT ![F] = @ \cup {Len(stored'[F]) - 1}]
        /\ n < MaxPackets
    BY <1>3 DEF SendUserData
  <2>2. stored'[F] = Append(stored[F], Payload(f, w))
    BY <1>1, <1>2, <2>1
  <2>3. Len(stored'[F]) = n + 1
    BY <1>1, <1>2, <2>2, AppendProperties
  <2>4. sMap'[F] = S
    BY <1>1, <1>2, <2>1, <2>3
  <2>5. S \in SUBSET Nat /\ S # {}
    BY <1>1, <1>2 DEF Packets
  <2>6. m \in S /\ \A j \in S : m <= j
    BY <2>5, LeastIs
  <2>7. n \in Nat /\ n \in S
    BY <1>2
  <2> HIDE DEF S, m, n
  <2>8. S \cup {n + 1} \in SUBSET Nat /\ m \in S \cup {n + 1} /\ m \in Nat
        /\ \A j \in S \cup {n + 1} : m <= j
    BY <2>5, <2>6, <2>7
  <2>9. Least(S \cup {n + 1}) = m
    BY <2>8, LeastIsUnique
  <2>10. Least(sMap'[F] \cup {Len(stored'[F])}) = m
    BY <2>3, <2>4, <2>9
  <2>11. n - m < MaxPackets + 1
    BY <1>2, <2>1, <2>7, <2>8
  <2>12. Run(F)' = Run(F) /\ rHead' = rHead /\ handed' = handed
    BY <1>1 DEF Run, receiver
  <2> QED BY <2>3, <2>10, <2>11, <2>12 DEF Window!Next, Window!Accept, S, m, n
<1>4. CASE f # F \/ ~Adds(f)
  <2>1. stored'[F] = stored[F] /\ sMap'[F] = sMap[F]
    BY <1>1, <1>2, <1>4 DEF SendUserData
  <2>2. UNCHANGED Window!vars
    BY <1>1, <2>1, SameWindow DEF receiver
  <2> QED BY <2>2
<1> QED BY <1>3, <1>4

(* A packet that closes a gap lets the receiving end collect some.         *)
LEMMA ReceiveMaps ==
  ASSUME Flows # {}, RBUDPInv, NEW f \in Flows, NEW i \in Packets, Receive(f, i)
  PROVE  [Window!Next]_(Window!vars)
<1> DEFINE F == TheFlow
<1>1. /\ F \in Flows /\ TypeOK /\ RBUDPInv'
      /\ UNCHANGED <<sender, writer, rHead, handed>>
  BY FlowType, ReceiveKeeps DEF RBUDPInv, Receive
<1>2. /\ rMap \in [Flows -> SUBSET Packets] /\ rHead[F] \in Nat
      /\ rMap' \in [Flows -> SUBSET Packets] /\ Len(stored[F]) \in Nat
  <2>1. /\ rMap \in [Flows -> SUBSET Packets] /\ rHead \in [Flows -> 0 .. MaxPackets]
        /\ stored \in [Flows -> Seq(Writers \X Nat)]
    BY <1>1 DEF TypeOK
  <2>2. rMap' \in [Flows -> SUBSET Packets]
    BY <1>1 DEF RBUDPInv, TypeOK
  <2> QED BY <1>1, <2>1, <2>2, LenProperties, RBUDPAssumption
<1>3. rMap[F] \subseteq rMap'[F]
  BY <1>1, <1>2 DEF Receive
<1>4. PICK g \in Nat : /\ rHead[F] + Cardinality(Run(F)) = g
                       /\ rHead[F] <= g /\ rHead[F] .. g - 1 \subseteq rMap[F]
  BY <1>1, FrontIs
<1>5. PICK k \in Nat : /\ k >= rHead[F] /\ k \notin rMap'[F] /\ rHead[F] .. k - 1 \subseteq rMap'[F]
                       /\ \A j \in rMap'[F] : rHead[F] <= j /\ rHead[F] .. j \subseteq rMap'[F] <=> j \in rHead[F] .. k - 1
                       /\ Cardinality(rHead[F] .. k - 1) = k - rHead[F]
  BY <1>1, <1>2, GaplessRun
<1>6. Run(F)' = rHead[F] .. k - 1
  BY <1>1, <1>5 DEF Run
<1>7. rHead'[F] + Cardinality(Run(F)') = k
  BY <1>1, <1>2, <1>5, <1>6
<1>8. k <= Len(stored[F])
  <2>1. rMap'[F] \subseteq 0 .. Len(stored[F]) - 1 /\ rHead[F] <= Len(stored[F])
    BY <1>1 DEF RBUDPInv, ReceiverInv, SentBy, writer
  <2>2. k > rHead[F] => k - 1 \in rHead[F] .. k - 1
    BY <1>2
  <2> QED BY <1>2, <1>5, <2>1, <2>2
<1>9. g <= k
  <2>1. ~(k \in rHead[F] .. g - 1)
    BY <1>3, <1>4, <1>5
  <2> QED BY <1>2, <1>4, <1>5, <2>1
<1>10. /\ Len(stored'[F]) = Len(stored[F]) /\ Len(handed'[F]) = Len(handed[F])
       /\ Least(sMap'[F] \cup {Len(stored'[F])}) = Least(sMap[F] \cup {Len(stored[F])})
  BY <1>1 DEF sender, writer
<1>11. CASE k = g
  BY <1>4, <1>7, <1>10, <1>11 DEF Window!vars
<1>12. CASE k # g
  <2>1. k \in g + 1 .. Len(stored[F])
    BY <1>2, <1>8, <1>9, <1>12
  <2> QED BY <1>4, <1>7, <1>10, <2>1 DEF Window!Next, Window!Collect
<1> QED BY <1>11, <1>12

(* A pass of SendNAK moves packets from the map to the upper queue: the    *)
(* receiving end had collected them.                                       *)
LEMMA NakMaps ==
  ASSUME Flows # {}, RBUDPInv, NEW f \in Flows, SendNAK(f)
  PROVE  UNCHANGED Window!vars
<1> DEFINE F == TheFlow
<1>1. /\ F \in Flows /\ TypeOK /\ UNCHANGED <<sender, writer>>
  BY FlowType DEF RBUDPInv, SendNAK
<1>2. /\ rMap \in [Flows -> SUBSET Packets] /\ rHead \in [Flows -> 0 .. MaxPackets]
      /\ rHead[F] \in Nat
  <2>1. rMap \in [Flows -> SUBSET Packets] /\ rHead \in [Flows -> 0 .. MaxPackets]
    BY <1>1 DEF TypeOK
  <2>2. rHead[F] \in 0 .. MaxPackets /\ MaxPackets \in Nat
    BY <1>1, <2>1, RBUDPAssumption
  <2> QED BY <2>1, <2>2
<1>3. CASE RunsOffTheMap(f)
  BY <1>1, <1>3, SameWindow DEF SendNAK, receiver, sender, writer
<1>4. CASE ~RunsOffTheMap(f) /\ f # F
  <2>1. rMap'[F] = rMap[F] /\ rHead'[F] = rHead[F] /\ handed' = handed
    BY <1>1, <1>2, <1>4 DEF SendNAK
  <2> QED BY <1>1, <2>1, SameWindow DEF sender, writer
<1>5. CASE ~RunsOffTheMap(f) /\ f = F
  <2>1. /\ rHead'[F] = rHead[F] + Cardinality(Run(F)) /\ rMap'[F] = rMap[F] \ Run(F)
        /\ handed' = handed
    BY <1>1, <1>2, <1>5 DEF SendNAK
  <2>2. PICK g \in Nat : rHead[F] + Cardinality(Run(F)) = g /\ g \notin rMap[F]
    BY <1>1, FrontIs
  <2>3. Run(F)' = {}
    <3>1. ASSUME NEW j \in Run(F)' PROVE FALSE
      <4>1. j \in rMap[F] /\ g <= j /\ g .. j \subseteq rMap'[F]
        BY <2>1, <2>2, <3>1 DEF Run
      <4>2. j \in Nat
        BY <1>1, <1>2, <4>1, RBUDPAssumption DEF Packets
      <4>3. g \in rMap'[F]
        BY <4>1, <4>2
      <4> QED BY <2>1, <2>2, <4>3
    <3> QED BY <3>1
  <2>4. rHead'[F] + Cardinality(Run(F)') = g
    BY <2>1, <2>2, <2>3, FS_EmptySet
  <2> QED BY <1>1, <2>1, <2>2, <2>4 DEF Window!vars, sender, writer
<1> QED BY <1>3, <1>4, <1>5

(* What the application is given was collected.                            *)
LEMMA UploadMaps ==
  ASSUME Flows # {}, RBUDPInv, NEW f \in Flows, Upload(f)
  PROVE  [Window!Next]_(Window!vars)
<1> DEFINE F == TheFlow
<1>1. /\ F \in Flows /\ TypeOK /\ InOrderOnce
      /\ UNCHANGED <<sender, writer, rMap, rHead>>
      /\ upper[f] # <<>> /\ handed' = [handed EXCEPT ![f] = @ \o upper[f]]
  BY FlowType DEF RBUDPInv, Upload
<1>2. /\ handed \in [Flows -> Seq(Packets)] /\ upper[f] \in Seq(Packets)
      /\ rHead[F] \in Nat
  BY <1>1, RBUDPAssumption DEF TypeOK
<1>3. CASE f # F
  <2>1. handed'[F] = handed[F]
    BY <1>1, <1>2, <1>3
  <2> QED BY <1>1, <2>1, SameWindow DEF sender, writer
<1>4. CASE f = F
  <2>1. handed'[F] = handed[F] \o upper[F]
    BY <1>1, <1>2, <1>4
  <2>2. /\ Len(handed[F]) \in Nat /\ Len(upper[F]) \in Nat /\ Len(upper[F]) > 0
        /\ Len(handed'[F]) = Len(handed[F]) + Len(upper[F])
    BY <1>1, <1>2, <1>4, <2>1, ConcatProperties, LenProperties, EmptySeq
  <2>3. Len(handed'[F]) = rHead[F]
    <3>1. handed'[F] = [k \in 1 .. rHead[F] |-> k - 1]
      BY <1>1, <2>1 DEF InOrderOnce
    <3> QED BY <1>2, <3>1
  <2>4. PICK g \in Nat : rHead[F] + Cardinality(Run(F)) = g /\ rHead[F] <= g
    BY <1>1, FrontIs
  <2>5. Len(handed'[F]) \in Len(handed[F]) + 1 .. g
    <3>1. ASSUME NEW a \in Nat, NEW b \in Nat, NEW c \in Nat, b > 0, c = a + b, c <= g
          PROVE  c \in a + 1 .. g
      BY <3>1
    <3>2. Len(handed'[F]) \in Nat /\ Len(handed'[F]) <= g
      BY <1>2, <2>3, <2>4
    <3> QED BY <2>2, <3>1, <3>2
  <2>6. /\ rHead'[F] + Cardinality(Run(F)') = g /\ Len(stored'[F]) = Len(stored[F])
        /\ Least(sMap'[F] \cup {Len(stored'[F])}) = Least(sMap[F] \cup {Len(stored[F])})
    BY <1>1, <2>4 DEF Run, sender, writer
  <2> QED BY <2>4, <2>5, <2>6 DEF Window!Next, Window!HandOver
<1> QED BY <1>3, <1>4

(* What a report confirms was collected: were the least that is left       *)
(* beyond a gap, the packet of the gap would be lost.                      *)
LEMMA DealMaps ==
  ASSUME OneToOne, Flows # {}, RBUDPInv, NEW t \in Terminals, DealNak(t)
  PROVE  [Window!Next]_(Window!vars)
<1> DEFINE F == TheFlow
           n == Len(stored[F])
           A == sMap[F] \cup {n}
           B == sMap'[F] \cup {n}
<1>1. /\ F \in Flows /\ TypeOK /\ RBUDPInv' /\ UNCHANGED <<writer, receiver>>
  BY FlowType, DealKeeps DEF RBUDPInv, DealNak
<1>2. /\ sMap \in [Flows -> SUBSET Packets] /\ n \in Nat /\ rHead[F] \in Nat
  BY <1>1, LenProperties, RBUDPAssumption DEF TypeOK
<1>3. sMap'[F] \subseteq sMap[F]
  <2>1. PICK f \in Flows : /\ sMap' = sMap \/ sMap'[f] \subseteq sMap[f]
                           /\ sMap' = sMap \/ \A g \in Flows \ {f} : sMap'[g] = sMap[g]
    BY ReportReachesItsFlow DEF sender
  <2> QED BY <1>1, <2>1
<1>4. A \in SUBSET Nat /\ B \in SUBSET Nat /\ n \in B /\ B \subseteq A
  BY <1>1, <1>2, <1>3 DEF Packets
<1> HIDE DEF A, B, n
<1>5. /\ Least(A) \in A /\ \A j \in A : Least(A) <= j
      /\ Least(B) \in B /\ \A j \in B : Least(B) <= j
  BY <1>4, LeastIs
<1>6. Least(A) \in Nat /\ Least(B) \in Nat /\ Least(A) <= Least(B) /\ Least(B) <= n
  BY <1>4, <1>5
<1>7. PICK g \in Nat : /\ rHead[F] + Cardinality(Run(F)) = g
                       /\ rHead[F] <= g /\ g \notin rMap[F]
  BY <1>1, FrontIs
<1>8. Least(B) <= g
  <2> SUFFICES ASSUME g < Least(B) PROVE FALSE
    BY <1>6
  <2>1. g \notin sMap'[F]
    <3>1. ~(Least(B) <= g)
      BY <1>6
    <3> QED BY <1>5, <3>1 DEF B
  <2>2. g \in 0 .. n - 1
    BY <1>2, <1>6
  <2>3. g < rHead[F] \/ g \in rMap[F]
    BY <1>1, <2>1, <2>2 DEF RBUDPInv, NothingLost, SentBy, writer, receiver, n
  <2> QED BY <1>2, <1>7, <2>3
<1>9. /\ Len(stored[F]) = n /\ Len(stored'[F]) = n /\ Len(handed'[F]) = Len(handed[F])
      /\ rHead'[F] + Cardinality(Run(F)') = g
      /\ Least(sMap[F] \cup {Len(stored[F])}) = Least(A)
      /\ Least(sMap'[F] \cup {Len(stored'[F])}) = Least(B)
  BY <1>1, <1>7 DEF Run, writer, receiver, n, A, B
<1>10. CASE Least(B) = Least(A)
  BY <1>7, <1>9, <1>10 DEF Window!vars
<1>11. CASE Least(B) # Least(A)
  <2>1. Least(B) \in Least(A) + 1 .. g
    BY <1>6, <1>8, <1>11
  <2> QED BY <1>7, <1>9, <2>1 DEF Window!Next, Window!Confirm
<1> QED BY <1>10, <1>11

(* RBUDP implements the sliding window: what it confirms to its user has   *)
(* arrived, and what it hands over comes in order.                         *)
THEOREM WindowRefined ==
  ASSUME OneToOne, Flows # {}
  PROVE  Spec => ImplementsWindow
<1>1. Init => Window!Init
  <2> SUFFICES ASSUME Init PROVE Window!Init
    OBVIOUS
  <2>1. /\ TheFlow \in Flows /\ stored[TheFlow] = <<>> /\ sMap[TheFlow] = {} /\ rMap[TheFlow] = {}
        /\ rHead[TheFlow] = 0 /\ handed[TheFlow] = <<>>
    BY FlowType DEF Init, PerFlow
  <2>2. Run(TheFlow) = {} /\ Cardinality({}) = 0
    BY <2>1, FS_EmptySet DEF Run
  <2>3. Least({0}) = 0
    BY LeastIsUnique
  <2>4. sMap[TheFlow] \cup {Len(stored[TheFlow])} = {0}
    BY <2>1
  <2> QED BY <2>1, <2>2, <2>3, <2>4 DEF Window!Init
<1>2. RBUDPInv /\ [Next]_vars => [Window!Next]_(Window!vars)
  <2> SUFFICES ASSUME RBUDPInv, [Next]_vars PROVE [Window!Next]_(Window!vars)
    OBVIOUS
  <2>1. ASSUME NEW f \in Flows, NEW w \in Writers, SendUserData(f, w) PROVE [Window!Next]_(Window!vars)
    BY <2>1, SendMaps
  <2>2. ASSUME NEW f \in Flows, NEW due \in SUBSET Waiting(f), OnCheckTimeOut(f, due)
        PROVE  UNCHANGED Window!vars
    BY <2>2, SameWindow DEF OnCheckTimeOut, writer, receiver
  <2>3. ASSUME NEW f \in Flows, NEW i \in Packets, Receive(f, i) PROVE [Window!Next]_(Window!vars)
    BY <2>3, ReceiveMaps
  <2>4. ASSUME NEW f \in Flows, SendNAK(f) PROVE UNCHANGED Window!vars
    BY <2>4, NakMaps
  <2>5. ASSUME NEW f \in Flows, Upload(f) PROVE [Window!Next]_(Window!vars)
    BY <2>5, UploadMaps
  <2>6. ASSUME NEW t \in Terminals, DealMessageWork(t) PROVE UNCHANGED Window!vars
    BY <2>6, SameWindow DEF DealMessageWork, sender, writer, receiver
  <2>7. ASSUME NEW t \in Terminals, DealNak(t) PROVE [Window!Next]_(Window!vars)
    BY <2>7, DealMaps
  <2>8. CASE UNCHANGED vars
    <3>1. UNCHANGED Window!vars
      BY <2>8, SameWindow DEF vars, sender, writer, receiver
    <3> QED BY <3>1
  <2> QED BY <2>1, <2>2, <2>3, <2>4, <2>5, <2>6, <2>7, <2>8 DEF Next
<1> QED BY <1>1, <1>2, RBUDPInvariance, PTL DEF Spec, ImplementsWindow, Window!Spec
=============================================================================
