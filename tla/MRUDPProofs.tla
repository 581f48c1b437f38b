---------------------------- MODULE MRUDPProofs ----------------------------
(***************************************************************************)
(* Proofs about one direction of an MRUDP connection, for every capacity,  *)
(* flow window and number of messages.                                     *)
(***************************************************************************)
EXTENDS MRUDPInv, CircularIndexProofs, SequenceTheorems

\* The three parts of the type invariant.
LEMMA TypeParts ==
  ASSUME TypeOK
  PROVE  SenderTypeOK /\ ReceiverTypeOK /\ NetworkTypeOK
BY DEF TypeOK

\* Both rings are empty and the network is quiet: the invariant holds.
LEMMA InitRingsInv ==
  ASSUME Init
  PROVE RingsInv
<1>1. TypeOK
  <2>1. SenderTypeOK
    BY CapacityAssumption, SenderAssumption DEF SenderTypeOK, Init, SenderInit, Index
  <2>2. ReceiverTypeOK
    BY CapacityAssumption DEF ReceiverTypeOK, Init, ReceiverInit, Index, FackIdle
  <2>3. NetworkTypeOK
    BY DEF NetworkTypeOK, Init, ReceiverInit, NoSlot
  <2> QED BY <2>1, <2>2, <2>3 DEF TypeOK
<1>2. WindowOK /\ NothingLost /\ InOrderOnce /\ RingsAligned
  BY CapacityAssumption DEF Init, SenderInit, ReceiverInit, WindowOK, NothingLost, InOrderOnce, RingsAligned, Confirmed, Collected, At
<1>3. SenderSlots /\ ReceiverSlots
  BY CapacityAssumption DEF Init, SenderInit, ReceiverInit, SenderSlots, SenderSlotOK, ReceiverSlots, ReceiverSlotOK, Collected, Off, Index
<1>4. PacketsOK
  BY DEF Init, ReceiverInit, PacketsOK
<1>5. AcksOK
  BY CapacityAssumption DEF Init, SenderInit, ReceiverInit, AcksOK, AckOK, IsAck, FackIdle, Index, Off
<1> QED BY <1>1, <1>2, <1>3, <1>4, <1>5 DEF RingsInv

-----------------------------------------------------------------------------
(* The counters of a state that satisfies the invariant, and where the two *)
(* heads and the tail lie on the ring.                                     *)
LEMMA Counters ==
  ASSUME RingsInv
  PROVE  /\ Collected \in Nat /\ Confirmed \in Nat /\ accepted \in Nat
         /\ Confirmed <= Collected /\ Collected <= accepted
         /\ accepted - Collected < N
         /\ Off(sHead, rHead) = Collected - Confirmed
         /\ Off(sHead, sTail) = sSize
         /\ Off(rHead, sTail) = accepted - Collected
<1>1. Len(delivered) \in Nat /\ Len(rUpper) \in Nat /\ sSize \in Nat /\ accepted \in Nat
  <2>1. delivered \in Seq(Nat) /\ rUpper \in Seq(Nat) /\ sSize \in 0 .. N /\ accepted \in Nat
    BY DEF RingsInv, TypeOK, SenderTypeOK, ReceiverTypeOK
  <2> QED BY <2>1, CapacityAssumption
<1>2. /\ Collected \in Nat /\ Confirmed \in Nat /\ accepted \in Nat
      /\ Confirmed <= Collected /\ Collected <= accepted
      /\ accepted - Collected < N
  <2>1. sSize < N /\ sSize <= accepted /\ Confirmed <= Collected /\ Collected <= accepted
    BY DEF RingsInv, WindowOK, NothingLost, InOrderOnce
  <2>2. Collected \in Nat /\ Confirmed = accepted - sSize
    BY <1>1 DEF Collected, Confirmed
  <2> QED BY <1>1, <2>1, <2>2, CapacityAssumption
<1>3. /\ sHead \in Index /\ sTail \in Index /\ rHead \in Index
      /\ sSize < N /\ accepted - Confirmed = sSize
      /\ rHead = At(sHead, Collected - Confirmed) /\ sTail = At(sHead, sSize)
  <2>1. /\ sHead \in Index /\ sTail \in Index /\ rHead \in Index /\ sSize < N
        /\ rHead = At(sHead, Collected - Confirmed) /\ sTail = At(sHead, sSize)
    BY DEF RingsInv, TypeOK, SenderTypeOK, ReceiverTypeOK, WindowOK, RingsAligned
  <2> QED BY <1>1, <1>2, <2>1 DEF Confirmed
<1>4. Off(sHead, rHead) = Collected - Confirmed
  <2>1. Collected - Confirmed \in 0 .. N-1
    BY <1>1, <1>2, <1>3, CapacityAssumption
  <2> QED BY <2>1, <1>3, AtTheorem
<1>5. Off(sHead, sTail) = sSize
  <2>1. sSize \in 0 .. N-1
    BY <1>1, <1>3, CapacityAssumption
  <2> QED BY <2>1, <1>3, AtTheorem
<1>6. Off(rHead, sTail) = accepted - Collected
  <2> DEFINE d == Collected - Confirmed
             k == accepted - Collected
  <2>1. d \in 0 .. N-1 /\ sSize \in d .. N-1 /\ k \in 0 .. N-1 /\ sSize - d = k
    BY <1>1, <1>2, <1>3, CapacityAssumption
  <2>2. rHead = At(sHead, d) /\ sTail = At(sHead, sSize)
    BY <1>3
  <2> HIDE DEF d, k
  <2>3. At(rHead, sSize - d) = sTail
    BY <1>3, <2>1, <2>2, AtShift, Zenon
  <2>4. Off(rHead, At(rHead, k)) = k
    BY <1>3, <2>1, AtTheorem, Zenon
  <2> QED BY <2>1, <2>3, <2>4 DEF k
<1> QED BY <1>2, <1>4, <1>5, <1>6

\* AddItem reuses the slot at the tail, which the user left free.
LEMMA UserAddsItemRingsInv ==
  ASSUME RingsInv, UserAddsItem, MaxUnacked < N
  PROVE  RingsInv'
<1> USE CapacityAssumption
<1>0. SenderTypeOK /\ ReceiverTypeOK /\ NetworkTypeOK BY TypeParts DEF RingsInv
<1>1. /\ sSlot' = [sSlot EXCEPT ![sTail] = [cycle |-> sCycle, data |-> accepted + 1]]
      /\ sDue' = sDue \ {sTail}
      /\ sCycle' = IF sTail = N-1 THEN sCycle + 1 ELSE sCycle
      /\ sTail' = Succ(sTail)
      /\ sSize' = sSize + 1
      /\ accepted' = accepted + 1
      /\ toSend' = sTail
      /\ UNCHANGED <<sHead, sExpect, sStalled, net, acks>>
      /\ UNCHANGED <<rHead, rTail, rSize, rSlot, rTemp, rUpper, delivered, rFack, rLastAck>>
  BY DEF UserAddsItem, AddItem, CycleAfterAdd, receiverVars
<1>2. sSize + 1 < N
  BY <1>0, BoundsAssumption DEF UserAddsItem, SenderTypeOK
<1>3. sSlot[sTail].cycle = sCycle - 1 /\ sCycle \in Nat /\ sCycle >= 1
  <2>1. sTail \in Index /\ sCycle \in Nat
    BY <1>0 DEF SenderTypeOK
  <2>2. sCycle >= 1 /\ SenderSlotOK(sTail)
    BY <2>1 DEF RingsInv, SenderSlots
  <2> QED BY <2>1, <2>2 DEF SenderSlotOK, Index
<1>4. TypeOK'
  <2>1. sSlot' \in [Index -> [cycle : Nat, data : Nat]]
    BY <1>0, <1>1 DEF SenderTypeOK
  <2>2. Succ(sTail) \in Index
    BY <1>0 DEF SenderTypeOK, Index, Succ
  <2>3. sSize' \in 0 .. N /\ sCycle' \in Nat /\ accepted' \in Nat /\ sTail' \in Index
    BY <1>0, <1>1, <1>2, <1>3, <2>2 DEF SenderTypeOK
  <2>4. sDue' \subseteq Index /\ toSend' \in Index \cup {NoSlot}
    BY <1>0, <1>1 DEF SenderTypeOK
  <2>5. SenderTypeOK'
    BY <1>0, <1>1, <2>1, <2>3, <2>4 DEF SenderTypeOK
  <2>6. ReceiverTypeOK' /\ NetworkTypeOK'
    BY <1>0, <1>1, <2>4 DEF ReceiverTypeOK, NetworkTypeOK
  <2> QED BY <2>5, <2>6 DEF TypeOK
<1>5. WindowOK'
  BY <1>0, <1>1, <1>2 DEF RingsInv, WindowOK, SenderTypeOK
<1>6. NothingLost' /\ InOrderOnce'
  <2>1. Collected' = Collected /\ Confirmed' = Confirmed
    BY <1>0, <1>1 DEF Collected, Confirmed, SenderTypeOK
  <2> QED BY <2>1, <1>0, <1>1, Counters DEF RingsInv, NothingLost, InOrderOnce
<1>7. RingsAligned'
  <2>1. Collected' = Collected /\ Confirmed' = Confirmed
    BY <1>0, <1>1 DEF Collected, Confirmed, SenderTypeOK
  <2>2. Succ(sTail) = At(sHead, sSize + 1)
    <3>1. sTail = At(sHead, sSize) /\ sHead \in Index /\ sSize \in 0 .. N
      BY <1>0 DEF RingsInv, SenderTypeOK, RingsAligned
    <3> QED BY <1>2, <3>1 DEF At, Succ, Index
  <2>3. Collected \in Nat /\ rSize \in Nat /\ accepted \in Nat /\ RingsAligned
    BY <1>0, Counters DEF RingsInv, SenderTypeOK, ReceiverTypeOK
  <2> QED BY <1>1, <2>1, <2>2, <2>3 DEF RingsAligned, At
<1>8. SenderSlots'
  <2>1. sCycle' >= 1 /\ (sCycle' = 1 => accepted' = sTail')
    <3>1. sCycle = 1 => accepted = sTail
      BY DEF RingsInv, SenderSlots
    <3>2. accepted \in Nat /\ sTail \in Index
      BY <1>0 DEF SenderTypeOK
    <3> QED BY <1>1, <1>3, <3>1, <3>2 DEF Succ, Index
  <2>2. ASSUME NEW i \in Index PROVE SenderSlotOK(i)'
    <3>1. SenderSlotOK(i)
      BY DEF RingsInv, SenderSlots
    <3>2. sSlot[i] \in [cycle : Nat, data : Nat] /\ sTail \in Index /\ accepted \in Nat
      BY <1>0 DEF SenderTypeOK
    <3>3. CASE i = sTail
      <4>1. sSlot'[i] = [cycle |-> sCycle, data |-> accepted + 1]
        BY <1>0, <1>1, <3>3 DEF SenderTypeOK
      <4> QED BY <1>1, <1>3, <3>2, <3>3, <4>1 DEF SenderSlotOK, Back, Succ, Index
    <3>4. CASE i # sTail
      <4>1. sSlot'[i] = sSlot[i]
        BY <1>0, <1>1, <3>4 DEF SenderTypeOK
      <4> QED BY <1>1, <1>3, <3>1, <3>2, <3>4, <4>1 DEF SenderSlotOK, Back, Succ, Index
    <3> QED BY <3>3, <3>4
  <2> QED BY <2>1, <2>2 DEF SenderSlots
<1>9. ReceiverSlots'
  <2> SUFFICES ASSUME NEW i \in Index PROVE ReceiverSlotOK(i)'
    BY DEF ReceiverSlots
  <2>1. ReceiverSlotOK(i)
    BY DEF RingsInv, ReceiverSlots
  <2>2. Collected' = Collected /\ Collected \in Nat /\ accepted \in Nat
    BY <1>1, Counters DEF Collected
  <2>3. Off(rHead, i) \in Nat
    BY <1>0, OffTheorem DEF ReceiverTypeOK
  <2>4. CASE i = sTail
    <3>1. sSlot'[i] = [cycle |-> sCycle, data |-> accepted + 1]
      BY <1>0, <1>1, <2>4 DEF SenderTypeOK
    <3>2. ~rSlot[i].acked /\ rSlot[i].cycle = sCycle - 1 /\ Off(rHead, i) = accepted - Collected
      BY <1>3, <2>1, <2>2, <2>4, Counters DEF ReceiverSlotOK
    <3> QED BY <1>1, <1>3, <2>2, <3>1, <3>2 DEF ReceiverSlotOK
  <2>5. CASE i # sTail
    <3>1. sSlot'[i] = sSlot[i]
      BY <1>0, <1>1, <2>5 DEF SenderTypeOK
    <3>2. Off(rHead, i) # accepted - Collected
      <4>1. Off(rHead, sTail) = accepted - Collected /\ rHead \in Index /\ sTail \in Index
        BY <1>0, Counters DEF SenderTypeOK, ReceiverTypeOK
      <4> QED BY <2>5, <4>1 DEF Off, Index
    <3> QED BY <1>1, <2>1, <2>2, <2>3, <3>1, <3>2 DEF ReceiverSlotOK
  <2> QED BY <2>4, <2>5
<1>10. ASSUME NEW p \in PacketType, PacketOK(p) PROVE PacketOK(p)'
  <2>1. p.index \in Index /\ p.cycle \in Nat
    BY DEF PacketType
  <2>2. CASE p.index = sTail
    BY <1>0, <1>1, <1>3, <1>10, <2>1, <2>2 DEF SenderTypeOK, PacketOK
  <2>3. CASE p.index # sTail
    BY <1>0, <1>1, <1>10, <2>1, <2>3 DEF SenderTypeOK, PacketOK
  <2> QED BY <2>2, <2>3
<1>11. PacketsOK'
  <2>1. net \subseteq PacketType /\ \A k \in 1 .. Len(rTemp) : rTemp[k] \in PacketType
    BY <1>0 DEF NetworkTypeOK
  <2>2. PacketsOK
    BY DEF RingsInv
  <2> QED BY <1>1, <1>10, <2>1, <2>2 DEF PacketsOK
<1>12. ASSUME NEW a, AckOK(a) PROVE AckOK(a)'
  <2>1. a.index \in Index /\ a.cycle \in Nat /\ Collected' = Collected /\ Confirmed' = Confirmed
    BY <1>0, <1>1, <1>12 DEF AckOK, IsAck, Collected, Confirmed, SenderTypeOK
  <2>2. CASE a.index = sTail
    <3>1. sSlot'[a.index].cycle = sCycle /\ a.cycle <= sCycle - 1
      BY <1>0, <1>1, <1>3, <1>12, <2>1, <2>2 DEF SenderTypeOK, AckOK, IsAck
    <3> QED BY <1>3, <2>1, <3>1 DEF AckOK, IsAck
  <2>3. CASE a.index # sTail
    <3>1. Off(sHead, a.index) # sSize
      <4>1. Off(sHead, sTail) = sSize /\ sHead \in Index /\ sTail \in Index
        BY <1>0, Counters DEF SenderTypeOK
      <4> QED BY <2>1, <2>3, <4>1 DEF Off, Index
    <3>2. sSlot'[a.index] = sSlot[a.index] /\ Off(sHead, a.index) \in Nat
      <4>1. sHead \in Index /\ sSlot'[a.index] = sSlot[a.index]
        BY <1>0, <1>1, <2>1, <2>3 DEF SenderTypeOK
      <4> QED BY <2>1, <4>1, OffTheorem
    <3>3. sSize \in Nat
      BY <1>0 DEF SenderTypeOK
    <3> QED BY <1>1, <1>12, <2>1, <3>1, <3>2, <3>3 DEF AckOK, Off
  <2> QED BY <2>2, <2>3
<1>13. AcksOK'
  BY <1>1, <1>12 DEF RingsInv, AcksOK
<1> QED BY <1>4, <1>5, <1>6, <1>7, <1>8, <1>9, <1>11, <1>13 DEF RingsInv

-----------------------------------------------------------------------------
(* A sequence is one over its own elements, which leaves them untyped.     *)
LEMMA OwnRange ==
  ASSUME NEW S, NEW s \in Seq(S)
  PROVE  s \in Seq({s[k] : k \in 1 .. Len(s)})
<1>1. s \in Seq(Range(s)) BY SeqOfRange
<1>2. Range(s) = {s[k] : k \in 1 .. Len(s)} BY RangeEquality
<1> QED BY <1>1, <1>2

(* Steps of the network and of the clock do not touch the two rings.       *)
LEMMA RingsUntouched ==
  ASSUME RingsInv,
         UNCHANGED <<sHead, sTail, sSize, sCycle, sSlot, accepted>>,
         UNCHANGED <<rHead, rTail, rSize, rSlot, rUpper, delivered>>
  PROVE  /\ WindowOK' /\ NothingLost' /\ InOrderOnce' /\ RingsAligned'
         /\ SenderSlots' /\ ReceiverSlots'
         /\ \A p : PacketOK(p) => PacketOK(p)'
         /\ \A a : AckOK(a) => AckOK(a)'
<1>1. Collected' = Collected /\ Confirmed' = Confirmed
  BY DEF Collected, Confirmed
<1>2. WindowOK' /\ NothingLost' /\ InOrderOnce' /\ RingsAligned'
  BY <1>1 DEF RingsInv, WindowOK, NothingLost, InOrderOnce, RingsAligned, At
<1>3. SenderSlots'
  BY DEF RingsInv, SenderSlots, SenderSlotOK, Back
<1>4. ReceiverSlots'
  BY <1>1 DEF RingsInv, ReceiverSlots, ReceiverSlotOK, Off
<1>5. ASSUME NEW p, PacketOK(p) PROVE PacketOK(p)'
  BY <1>5 DEF PacketOK
<1>6. ASSUME NEW a, AckOK(a) PROVE AckOK(a)'
  BY <1>1, <1>6 DEF AckOK, Off
<1> QED BY <1>2, <1>3, <1>4, <1>5, <1>6

\* What a slot of the sender holds may always be sent.
LEMMA PacketOfSlot ==
  ASSUME TypeOK, NEW i \in Index
  PROVE  Packet(i) \in PacketType /\ PacketOK(Packet(i))
<1>1. sSlot[i] \in [cycle : Nat, data : Nat] BY DEF TypeOK, SenderTypeOK
<1> QED BY <1>1 DEF Packet, PacketOK, PacketType

\* Sending, losing and receiving packets, and the clock, keep the rings.
LEMMA NetworkRingsInv ==
  ASSUME RingsInv,
         \/ UserSendsPacket \/ AdjustBandWidth
         \/ \E p \in net : LosePacket(p) \/ RecvData(p)
         \/ \E i \in Index : PacketAges(i)
         \/ ConfirmationAges
  PROVE  RingsInv'
<1>0. SenderTypeOK /\ ReceiverTypeOK /\ NetworkTypeOK BY TypeParts DEF RingsInv
<1>1. /\ UNCHANGED <<sHead, sTail, sSize, sCycle, sSlot, accepted, sExpect>>
      /\ UNCHANGED <<rHead, rTail, rSize, rSlot, rUpper, delivered, rFack, rLastAck, acks>>
  BY DEF UserSendsPacket, AdjustBandWidth, LosePacket, RecvData, Enqueue, PacketAges,
         PacketBecomesDue, ConfirmationAges, ConfirmationOverdue, senderVars, receiverVars
<1>2. /\ sDue' \subseteq Index /\ sStalled' \in BOOLEAN /\ toSend' \in Index \cup {NoSlot}
  BY <1>0 DEF SenderTypeOK, NetworkTypeOK, UserSendsPacket, AdjustBandWidth, LosePacket, RecvData, Enqueue, PacketAges,
         PacketBecomesDue, ConfirmationAges, ConfirmationOverdue, senderVars, receiverVars
<1>3. ASSUME NEW p \in net' PROVE p \in PacketType /\ PacketOK(p)
  <2>1. p \in net \/ \E i \in Index : p = Packet(i)
    <3>1. CASE UserSendsPacket
      BY <1>0, <3>1 DEF NetworkTypeOK, UserSendsPacket
    <3>2. CASE AdjustBandWidth
      BY <3>2 DEF AdjustBandWidth, AllUnacked
    <3>3. CASE ~(UserSendsPacket \/ AdjustBandWidth)
      BY <3>3 DEF LosePacket, RecvData, PacketAges, ConfirmationAges
    <3> QED BY <3>1, <3>2, <3>3
  <2> QED BY <1>0, <2>1, PacketOfSlot DEF RingsInv, NetworkTypeOK, PacketsOK
<1>4. rTemp' \in Seq(PacketType) /\ \A k \in 1 .. Len(rTemp') : PacketOK(rTemp'[k])
  <2>1. CASE \E p \in net : RecvData(p)
    <3>1. PICK p \in net : rTemp' = Append(rTemp, p)
      BY <2>1 DEF RecvData, Enqueue
    <3>2. p \in PacketType /\ PacketOK(p) /\ rTemp \in Seq(PacketType)
      BY <1>0 DEF RingsInv, NetworkTypeOK, PacketsOK
    <3>3. \A k \in 1 .. Len(rTemp) : PacketOK(rTemp[k])
      BY DEF RingsInv, PacketsOK
    <3> QED BY <3>1, <3>2, <3>3, AppendProperties
  <2>2. CASE ~ \E p \in net : RecvData(p)
    <3>1. rTemp' = rTemp
      BY <2>2 DEF UserSendsPacket, AdjustBandWidth, LosePacket, PacketAges, ConfirmationAges, receiverVars
    <3> QED BY <1>0, <3>1 DEF RingsInv, NetworkTypeOK, PacketsOK
  <2> QED BY <2>1, <2>2
<1>5. TypeOK'
  <2>1. SenderTypeOK'
    BY <1>0, <1>1, <1>2 DEF SenderTypeOK
  <2>2. ReceiverTypeOK'
    BY <1>0, <1>1 DEF ReceiverTypeOK
  <2>3. NetworkTypeOK'
    BY <1>0, <1>1, <1>2, <1>3, <1>4 DEF NetworkTypeOK
  <2> QED BY <2>1, <2>2, <2>3 DEF TypeOK
<1>6. PacketsOK'
  BY <1>1, <1>3, <1>4, RingsUntouched DEF PacketsOK
<1>7. AcksOK'
  BY <1>1, RingsUntouched DEF RingsInv, AcksOK
<1> QED BY <1>1, <1>5, <1>6, <1>7, RingsUntouched DEF RingsInv

-----------------------------------------------------------------------------
(* An acknowledgement moves the sender's head by d places, and never past  *)
(* a message that has not been collected.                                  *)
LEMMA AckMovesHead ==
  ASSUME RingsInv, NEW a, AckOK(a)
  PROVE  \E d \in 0 .. N-1 :
           /\ d <= Collected - Confirmed /\ d <= sSize
           /\ HeadAfter(a) = At(sHead, d)
           /\ SizeAfter(a) = sSize - d
<1>0. SenderTypeOK /\ ReceiverTypeOK /\ NetworkTypeOK BY TypeParts DEF RingsInv
<1>1. /\ sHead \in Index /\ sTail \in Index /\ a.index \in Index
      /\ sSize \in Nat /\ sSize < N /\ sTail = At(sHead, sSize)
  BY <1>0, CapacityAssumption DEF SenderTypeOK, AckOK, IsAck, RingsInv, WindowOK, RingsAligned
<1>2. CASE sSize # 0 /\ AckMatches(a)
  <2>1. Off(sHead, a.index) < sSize
    <3>1. IsIndexInValid(sHead, sTail, sSize, a.index)
      BY <1>2 DEF AckMatches, InSendWindow
    <3>2. sSize \in 0 .. N
      BY <1>1, CapacityAssumption
    <3> QED BY <1>1, <3>1, <3>2, ValidTheorem
  <2>2. Off(sHead, a.index) < Collected - Confirmed
    BY <1>0, <1>2, <2>1 DEF AckMatches, AckOK
  <2>3. Off(sHead, a.index) \in Nat /\ Off(sHead, a.index) + 1 \in 0 .. N-1
    BY <1>1, <2>1, OffTheorem, CapacityAssumption
  <2>4. Succ(a.index) = At(sHead, Off(sHead, a.index) + 1)
    BY <1>1, <2>1, CapacityAssumption DEF Succ, At, Off, Index
  <2>5. HeadAfter(a) = Succ(a.index)
    BY <1>2 DEF HeadAfter
  <2>6. SizeAfter(a) = sSize - (Off(sHead, a.index) + 1)
    BY <1>1, <1>2, <2>1, <2>3, <2>4, <2>5, CapacityAssumption DEF SizeAfter, At, Off, Index
  <2>7. Off(sHead, a.index) + 1 <= Collected - Confirmed
    BY <2>2, <2>3, Counters
  <2> QED BY <1>1, <2>1, <2>3, <2>4, <2>5, <2>6, <2>7
<1>3. CASE ~(sSize # 0 /\ AckMatches(a))
  <2>1. HeadAfter(a) = sHead /\ SizeAfter(a) = sSize
    BY <1>1, <1>3 DEF HeadAfter, SizeAfter
  <2>2. At(sHead, 0) = sHead /\ sSize - 0 = sSize
    BY <1>1, CapacityAssumption DEF At, Index
  <2> QED BY <1>1, <2>1, <2>2, Counters, CapacityAssumption
<1> QED BY <1>2, <1>3

\* A retransmission takes packets from the slots only.
LEMMA ResentFromSlots ==
  ASSUME SenderTypeOK, NEW a
  PROVE  Resent(a) \subseteq Index
BY DEF SenderTypeOK, Resent, RequestedBySacks, TimedOut

\* SetHeadIndex forgets collected messages only.
LEMMA RecvAckRingsInv ==
  ASSUME RingsInv, NEW k \in 1 .. Len(acks), RecvAck(k)
  PROVE  RingsInv'
<1>0. SenderTypeOK /\ ReceiverTypeOK /\ NetworkTypeOK BY TypeParts DEF RingsInv
<1> DEFINE a == acks[k]
<1>1. AckOK(a) BY DEF RingsInv, AcksOK
<1>2. PICK d \in 0 .. N-1 : /\ d <= Collected - Confirmed /\ d <= sSize
                            /\ HeadAfter(a) = At(sHead, d) /\ SizeAfter(a) = sSize - d
  BY <1>1, AckMovesHead
<1>3. /\ sHead' = At(sHead, d) /\ sSize' = sSize - d
      /\ sExpect' = ExpectAfter(a) /\ sStalled' = (sStalled /\ ~WindowChanged(a))
      /\ sDue' = sDue \ Resent(a)
      /\ net' = net \cup {Packet(i) : i \in Resent(a)}
      /\ acks' = SubSeq(acks, k+1, Len(acks))
      /\ UNCHANGED <<sTail, sCycle, sSlot, accepted, toSend>>
      /\ UNCHANGED <<rHead, rTail, rSize, rSlot, rTemp, rUpper, delivered, rFack, rLastAck>>
  BY <1>2 DEF RecvAck, OnRecvMessageFromRecvTerm, AcksAfter, receiverVars
<1>4. /\ Collected' = Collected /\ Collected \in Nat /\ Confirmed \in Nat /\ accepted \in Nat
      /\ sSize \in Nat /\ sSize < N /\ Confirmed = accepted - sSize
      /\ sHead \in Index /\ sTail \in Index /\ rHead \in Index /\ rSize \in Nat /\ d \in Nat
  BY <1>0, <1>3, Counters, CapacityAssumption
     DEF Collected, Confirmed, SenderTypeOK, ReceiverTypeOK, RingsInv, WindowOK
<1>5. Confirmed' = Confirmed + d
  BY <1>3, <1>4 DEF Confirmed
<1>6. sHead' \in Index
  BY <1>3, <1>4, AtTheorem
<1>7. /\ acks' \in Seq({acks'[j] : j \in 1 .. Len(acks')})
      /\ \A j \in 1 .. Len(acks') : \E m \in 1 .. Len(acks) : acks'[j] = acks[m]
  <2>1. Len(acks) \in Nat /\ acks \in Seq({acks[j] : j \in 1 .. Len(acks)})
    BY <1>0 DEF NetworkTypeOK
  <2>2. \A j \in k+1 .. Len(acks) : acks[j] \in {acks[m] : m \in 1 .. Len(acks)}
    BY <2>1
  <2>3. acks' \in Seq({acks[m] : m \in 1 .. Len(acks)})
    <3>1. k + 1 \in Int /\ Len(acks) \in Int
      BY <2>1
    <3> HIDE DEF a
    <3> QED BY <1>3, <2>2, <3>1, SubSeqProperties
  <2>4. \A j \in 1 .. Len(acks') : acks'[j] \in {acks[m] : m \in 1 .. Len(acks)}
    BY <2>3, ElementOfSeq
  <2>5. acks' \in Seq({acks'[j] : j \in 1 .. Len(acks')})
    BY <2>3, OwnRange
  <2> QED BY <2>4, <2>5
<1>8. ASSUME NEW b, AckOK(b) PROVE AckOK(b)'
  <2>1. IsAck(b) /\ b.cycle <= sSlot[b.index].cycle
    BY <1>8 DEF AckOK
  <2>2. ASSUME b.cycle = sSlot[b.index].cycle, Off(sHead', b.index) < sSize - d
        PROVE  Off(sHead', b.index) < Collected - (Confirmed + d)
    <3>1. Off(sHead, b.index) = Off(sHead', b.index) + d /\ Off(sHead', b.index) \in Nat
      <4>1. b.index \in Index
        BY <2>1 DEF IsAck
      <4>2. Off(sHead', b.index) \in Nat /\ Off(sHead', b.index) < N - d
        <5>1. Off(sHead', b.index) \in 0 .. N-1
          BY <1>6, <4>1, OffTheorem
        <5> QED BY <1>4, <2>2, <5>1, CapacityAssumption
      <4> QED BY <1>3, <1>4, <4>1, <4>2, OffShift
    <3>2. Off(sHead, b.index) < sSize
      BY <1>4, <2>2, <3>1
    <3>3. Off(sHead, b.index) < Collected - Confirmed
      BY <1>8, <2>2, <3>2 DEF AckOK
    <3> QED BY <1>4, <3>1, <3>3
  <2> QED BY <1>3, <1>4, <1>5, <2>1, <2>2 DEF AckOK, Off
<1>9. TypeOK'
  <2>1. sExpect' \in Nat
    <3>1. sExpect \in Nat /\ SizeAfter(a) = sSize - d
      BY <1>0, <1>2 DEF SenderTypeOK
    <3> QED BY <1>3, <1>4, <3>1, CapacityAssumption DEF ExpectAfter
  <2>2. sSize' \in 0 .. N /\ sDue' \subseteq Index /\ sStalled' \in BOOLEAN
    BY <1>0, <1>2, <1>3, <1>4, CapacityAssumption DEF SenderTypeOK
  <2>3. SenderTypeOK'
    BY <1>0, <1>3, <1>6, <2>1, <2>2 DEF SenderTypeOK
  <2>4. ReceiverTypeOK'
    BY <1>0, <1>3 DEF ReceiverTypeOK
  <2>5. net' \subseteq PacketType
    BY <1>0, <1>3, ResentFromSlots, PacketOfSlot DEF RingsInv, NetworkTypeOK
  <2>6. \A j \in 1 .. Len(acks') : IsAck(acks'[j])
    BY <1>7 DEF RingsInv, AcksOK, AckOK
  <2>7. NetworkTypeOK'
    BY <1>0, <1>3, <1>7, <2>5, <2>6 DEF NetworkTypeOK, IsAck
  <2> QED BY <2>3, <2>4, <2>7 DEF TypeOK
<1>10. WindowOK' /\ NothingLost' /\ InOrderOnce'
  <2>1. WindowOK'
    <3>1. sSize - d < N /\ sSize - d <= accepted
      BY <1>2, <1>4, CapacityAssumption DEF RingsInv, WindowOK
    <3> QED BY <1>3, <3>1 DEF WindowOK
  <2>2. NothingLost'
    BY <1>2, <1>4, <1>5 DEF NothingLost
  <2> QED BY <1>3, <1>4, <2>1, <2>2 DEF RingsInv, InOrderOnce
<1>11. RingsAligned'
  <2>1. sTail = At(sHead', sSize - d)
    <3>1. sTail = At(sHead, sSize) /\ sSize \in d .. N-1
      BY <1>2, <1>4, CapacityAssumption DEF RingsInv, RingsAligned
    <3> QED BY <1>3, <1>4, <3>1, AtShift
  <2>2. rHead = At(sHead', Collected - (Confirmed + d))
    <3>1. rHead = At(sHead, Collected - Confirmed) /\ Collected - Confirmed \in d .. N-1
      BY <1>2, <1>4, Counters, CapacityAssumption DEF RingsInv, RingsAligned
    <3>2. At(At(sHead, d), Collected - Confirmed - d) = At(sHead, Collected - Confirmed)
      BY <1>4, <3>1, AtShift
    <3>3. Collected - (Confirmed + d) = Collected - Confirmed - d
      BY <1>4
    <3> QED BY <1>3, <3>1, <3>2, <3>3
  <2> QED BY <1>3, <1>4, <1>5, <2>1, <2>2 DEF RingsInv, RingsAligned, At
<1>12. SenderSlots'
  BY <1>3 DEF RingsInv, SenderSlots, SenderSlotOK, Back
<1>13. ReceiverSlots'
  BY <1>3, <1>4 DEF RingsInv, ReceiverSlots, ReceiverSlotOK, Off
<1>14. PacketsOK'
  <2>1. \A p \in net' : PacketOK(p)
    BY <1>0, <1>3, ResentFromSlots, PacketOfSlot DEF RingsInv, PacketsOK
  <2> QED BY <1>3, <2>1 DEF RingsInv, PacketsOK, PacketOK
<1>15. AcksOK'
  BY <1>3, <1>7, <1>8 DEF RingsInv, AcksOK
<1> QED BY <1>9, <1>10, <1>11, <1>12, <1>13, <1>14, <1>15 DEF RingsInv

-----------------------------------------------------------------------------
(* A packet that the update thread puts into a slot is the one the         *)
(* sender's slot holds: the slot was not received and one lap behind.      *)
LEMMA AcceptedPacket ==
  ASSUME RingsInv, NEW p \in PacketType, PacketOK(p), Acceptable(p)
  PROVE  /\ Off(rHead, p.index) < accepted - Collected
         /\ p.cycle = sSlot[p.index].cycle /\ p.data = sSlot[p.index].data
         /\ p.cycle > 0
<1>1. /\ p.index \in Index /\ p.cycle \in Nat
      /\ sSlot[p.index].cycle \in Nat /\ rSlot[p.index].cycle \in Nat
  BY TypeParts DEF RingsInv, PacketType, SenderTypeOK, ReceiverTypeOK
<1>2. ReceiverSlotOK(p.index)
  BY <1>1 DEF RingsInv, ReceiverSlots
<1>3. /\ p.cycle <= sSlot[p.index].cycle
      /\ p.cycle = sSlot[p.index].cycle => p.data = sSlot[p.index].data
      /\ p.cycle = rSlot[p.index].cycle + 1 /\ ~rSlot[p.index].acked
  BY DEF PacketOK, Acceptable
<1>4. Off(rHead, p.index) < accepted - Collected
  <2>1. CASE ~(Off(rHead, p.index) < accepted - Collected)
    <3>1. rSlot[p.index].cycle = sSlot[p.index].cycle
      BY <1>2, <2>1 DEF ReceiverSlotOK
    <3> QED BY <1>1, <1>3, <3>1
  <2> QED BY <2>1
<1>5. rSlot[p.index].cycle + 1 = sSlot[p.index].cycle
  BY <1>2, <1>3, <1>4 DEF ReceiverSlotOK
<1> QED BY <1>1, <1>3, <1>4, <1>5

\* NewDealSingleReceiveData puts a packet into its slot and extends the ring.
LEMMA UpdateThreadRingsInv ==
  ASSUME RingsInv, UpdateThread
  PROVE  RingsInv'
<1>0. SenderTypeOK /\ ReceiverTypeOK /\ NetworkTypeOK BY TypeParts DEF RingsInv
<1> DEFINE p == Head(rTemp)
<1>1. /\ UNCHANGED <<sHead, sTail, sSize, sCycle, sSlot, accepted, sExpect, sDue, sStalled>>
      /\ UNCHANGED <<rHead, rUpper, delivered, rFack, rLastAck, toSend, net, acks>>
      /\ rTemp # <<>> /\ rTemp' = Tail(rTemp)
  BY DEF UpdateThread, NewDealSingleReceiveData, senderVars
<1>2. /\ p \in PacketType /\ PacketOK(p)
      /\ rTemp' \in Seq(PacketType)
      /\ \A k \in 1 .. Len(rTemp') : PacketOK(rTemp'[k])
  <2>1. rTemp \in Seq(PacketType) /\ \A k \in 1 .. Len(rTemp) : PacketOK(rTemp[k])
    BY <1>0 DEF RingsInv, NetworkTypeOK, PacketsOK
  <2>2. Len(rTemp) \in Nat /\ Len(rTemp) >= 1
    BY <1>1, <2>1, EmptySeq
  <2>3. p = rTemp[1]
    BY <1>1
  <2>4. /\ Tail(rTemp) \in Seq(PacketType) /\ Len(Tail(rTemp)) = Len(rTemp) - 1
        /\ \A k \in 1 .. Len(Tail(rTemp)) : Tail(rTemp)[k] = rTemp[k+1]
    BY <1>1, <2>1, HeadTailProperties
  <2>5. \A k \in 1 .. Len(Tail(rTemp)) : k+1 \in 1 .. Len(rTemp)
    BY <2>2, <2>4
  <2>6. p \in PacketType
    BY <2>1, <2>2, <2>3, ElementOfSeq
  <2> QED BY <1>1, <2>1, <2>2, <2>3, <2>4, <2>5, <2>6
<1>3. Collected' = Collected /\ Confirmed' = Confirmed
  BY <1>1 DEF Collected, Confirmed
<1>4. /\ Collected \in Nat /\ accepted \in Nat /\ Collected <= accepted /\ accepted - Collected < N
      /\ rSize \in Nat /\ Collected + rSize <= accepted /\ rTail = At(rHead, rSize)
      /\ rHead \in Index /\ rTail \in Index
  BY <1>0, Counters, CapacityAssumption DEF ReceiverTypeOK, RingsInv, RingsAligned
<1>5. PacketsOK' /\ AcksOK'
  <2>1. PacketsOK'
    BY <1>1, <1>2 DEF RingsInv, PacketsOK, PacketOK
  <2> QED BY <1>1, <1>3, <2>1 DEF RingsInv, AcksOK, AckOK, Off
<1>6. WindowOK' /\ NothingLost' /\ InOrderOnce' /\ SenderSlots'
  BY <1>1, <1>3 DEF RingsInv, WindowOK, NothingLost, InOrderOnce, SenderSlots, SenderSlotOK, Back
<1>7. SenderTypeOK' /\ NetworkTypeOK'
  BY <1>0, <1>1, <1>2 DEF SenderTypeOK, NetworkTypeOK
<1>8. CASE ~Acceptable(p)
  <2>1. UNCHANGED <<rSlot, rTail, rSize>>
    BY <1>8 DEF UpdateThread, NewDealSingleReceiveData
  <2>2. ReceiverTypeOK'
    BY <1>0, <1>1, <2>1 DEF ReceiverTypeOK
  <2>3. RingsAligned' /\ ReceiverSlots'
    BY <1>1, <1>3, <2>1 DEF RingsInv, RingsAligned, ReceiverSlots, ReceiverSlotOK, At, Off
  <2> QED BY <1>5, <1>6, <1>7, <2>2, <2>3 DEF RingsInv, TypeOK
<1>9. CASE Acceptable(p)
  <2> DEFINE off == Off(rHead, p.index)
  <2>1. /\ rSlot' = [i \in Index |->
               IF i = p.index THEN [cycle |-> p.cycle, data |-> p.data, acked |-> TRUE]
               ELSE IF i \in Gap(p.index) THEN [rSlot[i] EXCEPT !.acked = FALSE]
               ELSE rSlot[i]]
        /\ rTail' = IF InRecvWindow(p.index) THEN rTail ELSE Succ(p.index)
        /\ rSize' = SizeAfterExtend(p.index)
    BY <1>9 DEF UpdateThread, NewDealSingleReceiveData
  <2>2. /\ off < accepted - Collected /\ off \in Nat /\ p.index \in Index
        /\ p.cycle \in Nat /\ p.data \in Nat /\ p.cycle > 0
        /\ p.cycle = sSlot[p.index].cycle /\ p.data = sSlot[p.index].data
    <3>1. p.index \in Index /\ p.cycle \in Nat /\ p.data \in Nat
      BY <1>2 DEF PacketType
    <3>2. off \in Nat
      BY <1>4, <3>1, OffTheorem
    <3> QED BY <1>2, <1>9, <3>1, <3>2, AcceptedPacket
  <2> HIDE DEF p
  <2>3. InRecvWindow(p.index) <=> off < rSize
    <3>1. rSize \in 0 .. N
      BY <1>4, CapacityAssumption
    <3> QED BY <1>4, <2>2, <3>1, ValidTheorem DEF InRecvWindow
  <2>4. ~InRecvWindow(p.index) => Off(rTail, p.index) = off - rSize
    BY <1>4, <2>2, <2>3, CapacityAssumption DEF At, Off, Index
  <2>5. rSize' = IF off < rSize THEN rSize ELSE off + 1
    BY <1>4, <2>1, <2>2, <2>3, <2>4 DEF SizeAfterExtend
  <2>6. rTail' = At(rHead, rSize') /\ rSize' \in 0 .. N /\ Collected + rSize' <= accepted
    <3>1. CASE off < rSize
      BY <1>4, <2>1, <2>3, <2>5, <3>1, CapacityAssumption
    <3>2. CASE ~(off < rSize)
      <4>1. Succ(p.index) = At(rHead, off + 1)
        BY <1>4, <2>2, CapacityAssumption DEF Succ, At, Off, Index
      <4>2. rTail' = Succ(p.index) /\ rSize' = off + 1
        BY <2>1, <2>3, <2>5, <3>2
      <4>3. off + 1 \in 0 .. N /\ Collected + (off + 1) <= accepted
        BY <1>4, <2>2, CapacityAssumption
      <4> QED BY <4>1, <4>2, <4>3
    <3> QED BY <3>1, <3>2
  <2>7. ASSUME NEW i \in Index, i # p.index PROVE rSlot'[i] = rSlot[i]
    <3>1. rSlot[i] \in [cycle : Nat, data : Nat, acked : BOOLEAN]
      BY <1>0 DEF ReceiverTypeOK
    <3>2. CASE i \in Gap(p.index)
      <4>1. ~InRecvWindow(p.index) /\ Off(rTail, i) < Off(rTail, p.index)
        BY <3>2 DEF Gap, Span
      <4>2. Off(rTail, i) < off - rSize
        BY <2>4, <4>1
      <4>3. Off(rHead, i) = Off(rTail, i) + rSize
        BY <1>4, <2>2, <4>2, CapacityAssumption DEF At, Off, Index
      <4>4. Off(rHead, i) < accepted - Collected /\ ~(Off(rHead, i) < rSize)
        <5>1. Off(rTail, i) \in Nat
          BY <1>4, OffTheorem
        <5> QED BY <1>4, <2>2, <4>2, <4>3, <5>1
      <4>5. ~rSlot[i].acked
        BY <4>4 DEF RingsInv, ReceiverSlots, ReceiverSlotOK
      <4>6. rSlot'[i] = [rSlot[i] EXCEPT !.acked = FALSE]
        BY <2>1, <2>7, <3>2
      <4> QED BY <3>1, <4>5, <4>6
    <3>3. CASE i \notin Gap(p.index)
      BY <2>1, <2>7, <3>3
    <3> QED BY <3>2, <3>3
  <2>8. rSlot'[p.index] = [cycle |-> p.cycle, data |-> p.data, acked |-> TRUE]
    BY <2>1, <2>2
  <2>9. ReceiverTypeOK'
    <3>1. rTail' \in Index
      <4>1. Succ(p.index) \in Index
        BY <2>2, CapacityAssumption DEF Succ, Index
      <4> QED BY <1>4, <2>1, <4>1
    <3>2. rSlot' \in [Index -> [cycle : Nat, data : Nat, acked : BOOLEAN]]
      <4>1. \A i \in Index : rSlot'[i] \in [cycle : Nat, data : Nat, acked : BOOLEAN]
        <5>1. rSlot'[p.index] \in [cycle : Nat, data : Nat, acked : BOOLEAN]
          BY <2>2, <2>8
        <5>2. \A i \in Index : rSlot[i] \in [cycle : Nat, data : Nat, acked : BOOLEAN]
          BY <1>0 DEF ReceiverTypeOK
        <5> QED BY <2>7, <5>1, <5>2
      <4> QED BY <2>1, <4>1
    <3> QED BY <1>0, <1>1, <2>6, <3>1, <3>2 DEF ReceiverTypeOK
  <2>10. RingsAligned'
    BY <1>1, <1>3, <1>4, <2>6 DEF RingsInv, RingsAligned, At
  <2>11. ReceiverSlots'
    <3> SUFFICES ASSUME NEW i \in Index PROVE ReceiverSlotOK(i)'
      BY DEF ReceiverSlots
    <3>1. CASE i = p.index
      <4>1. off < rSize'
        BY <1>4, <2>2, <2>5
      <4> QED BY <1>1, <1>3, <2>2, <2>8, <3>1, <4>1 DEF ReceiverSlotOK, Off
    <3>2. CASE i # p.index
      <4>1. ReceiverSlotOK(i) /\ rSlot'[i] = rSlot[i]
        BY <2>7, <3>2 DEF RingsInv, ReceiverSlots
      <4>2. Off(rHead, i) < rSize => Off(rHead, i) < rSize'
        <5>1. Off(rHead, i) \in Nat
          BY <1>4, OffTheorem
        <5> QED BY <1>4, <2>2, <2>5, <5>1
      <4> QED BY <1>1, <1>3, <4>1, <4>2 DEF ReceiverSlotOK, Off
    <3> QED BY <3>1, <3>2
  <2> QED BY <1>5, <1>6, <1>7, <2>9, <2>10, <2>11 DEF RingsInv, TypeOK
<1> QED BY <1>8, <1>9

-----------------------------------------------------------------------------
(* A slot of the run that is collected holds the message whose turn it is. *)
LEMMA CollectedSlot ==
  ASSUME RingsInv, NEW n \in 0 .. rSize, IsRun(n), NEW k \in 0 .. n-1
  PROVE  /\ At(rHead, k) \in Index /\ Off(rHead, At(rHead, k)) = k
         /\ rSlot[At(rHead, k)].acked
         /\ rSlot[At(rHead, k)].cycle = sSlot[At(rHead, k)].cycle
         /\ rSlot[At(rHead, k)].data = Collected + k + 1
<1>0. SenderTypeOK /\ ReceiverTypeOK /\ NetworkTypeOK BY TypeParts DEF RingsInv
<1>1. /\ Collected \in Nat /\ accepted \in Nat /\ accepted - Collected < N
      /\ rSize \in Nat /\ Collected + rSize <= accepted
      /\ rHead \in Index /\ sTail \in Index /\ Off(rHead, sTail) = accepted - Collected
  BY <1>0, Counters, CapacityAssumption DEF SenderTypeOK, ReceiverTypeOK, RingsInv, RingsAligned
<1>2. k \in Nat /\ k < accepted - Collected /\ k \in 0 .. N-1
  BY <1>1, CapacityAssumption
<1> DEFINE i == At(rHead, k)
<1>3. i \in Index /\ Off(rHead, i) = k
  BY <1>1, <1>2, AtTheorem
<1>4. rSlot[i].acked
  BY DEF IsRun
<1>5. rSlot[i].cycle = sSlot[i].cycle /\ rSlot[i].cycle > 0 /\ rSlot[i].data = sSlot[i].data
  BY <1>2, <1>3, <1>4 DEF RingsInv, ReceiverSlots, ReceiverSlotOK
<1>6. sSlot[i].data + Back(i) = accepted + 1 /\ sSlot[i].data \in Nat
  BY <1>0, <1>3, <1>5 DEF RingsInv, SenderSlots, SenderSlotOK, SenderTypeOK
<1> HIDE DEF i
<1>7. Back(i) = accepted - Collected - k
  BY <1>1, <1>2, <1>3, CapacityAssumption DEF Back, Off, Index
<1>8. sSlot[i].data = Collected + k + 1
  BY <1>1, <1>2, <1>6, <1>7
<1> QED BY <1>3, <1>4, <1>5, <1>8 DEF i

(* The packet before the new head is the sender's; before anything has     *)
(* been sent in the last slot, nothing is collected and the head is empty. *)
LEMMA LastBeforeFirstLap ==
  ASSUME RingsInv, rSize # 0, NEW n \in 0 .. rSize, IsRun(n),
         sSlot[Pred(At(rHead, n))].cycle = 0
  PROVE  n = 0 /\ rSlot[rHead].cycle = 0 /\ sSlot[0].cycle = 1 /\ accepted > 0
<1>0. SenderTypeOK /\ ReceiverTypeOK /\ NetworkTypeOK BY TypeParts DEF RingsInv
<1>1. /\ Collected \in Nat /\ Confirmed \in Nat /\ accepted \in Nat
      /\ accepted - Collected < N /\ Confirmed <= Collected
      /\ rSize \in Nat /\ rSize > 0 /\ Collected + rSize <= accepted
      /\ rHead \in Index /\ sTail \in Index /\ Off(rHead, sTail) = accepted - Collected
      /\ sCycle \in Nat /\ sCycle >= 1
      /\ sCycle = 1 => accepted = sTail
  BY <1>0, Counters, CapacityAssumption
     DEF SenderTypeOK, ReceiverTypeOK, RingsInv, RingsAligned, SenderSlots
<1>2. n \in Nat /\ n < N /\ n <= rSize
  BY <1>1, CapacityAssumption
<1> DEFINE last == Pred(At(rHead, n))
<1>3. last \in Index
  BY <1>1, <1>2, CapacityAssumption DEF At, Pred, Index
<1>4. ~(last < sTail) /\ sCycle = 1
  <2>1. sSlot[last].cycle = IF last < sTail THEN sCycle ELSE sCycle - 1
    BY <1>3 DEF RingsInv, SenderSlots, SenderSlotOK
  <2>2. sSlot[last].cycle = 0
    OBVIOUS
  <2> HIDE DEF last
  <2> QED BY <1>1, <2>1, <2>2
<1>5. accepted = sTail
  BY <1>1, <1>4
<1>6. n = 0 /\ rHead = 0
  BY <1>1, <1>2, <1>4, <1>5, CapacityAssumption DEF At, Off, Pred, Index
<1>7. rSlot[rHead].cycle + 1 = sSlot[rHead].cycle
  <2>1. At(rHead, 0) = rHead /\ Off(rHead, rHead) = 0
    BY <1>1, CapacityAssumption DEF At, Off, Index
  <2>2. ~rSlot[rHead].acked
    BY <1>1, <1>6, <2>1 DEF IsRun
  <2> QED BY <1>1, <2>1, <2>2 DEF RingsInv, ReceiverSlots, ReceiverSlotOK
<1>8. sSlot[0].cycle = 1
  <2>1. SenderSlotOK(0) /\ 0 < sTail
    BY <1>1, <1>5, <1>6 DEF RingsInv, SenderSlots, Index
  <2> QED BY <1>4, <2>1 DEF SenderSlotOK
<1>9. rSlot[rHead].cycle \in Nat
  BY <1>0, <1>1 DEF ReceiverTypeOK
<1> QED BY <1>1, <1>6, <1>7, <1>8, <1>9

\* The two shifts of the ring when its first n slots are collected.
LEMMA OffPastHead ==
  ASSUME NEW h \in Index, NEW n \in 0 .. N-1, NEW i \in Index
  PROVE  Off(At(h, n), i) = IF Off(h, i) >= n THEN Off(h, i) - n ELSE Off(h, i) + N - n
BY CapacityAssumption DEF Index, At, Off

\* NewTraverseForceACK collects the run at the head and names its last packet.
LEMMA FackThreadTraversesRingsInv ==
  ASSUME RingsInv, FackThreadTraverses
  PROVE  RingsInv'
<1>0. SenderTypeOK /\ ReceiverTypeOK /\ NetworkTypeOK BY TypeParts DEF RingsInv
<1>1. PICK n \in 0 .. rSize : IsRun(n) /\ Collect(n)
  BY DEF FackThreadTraverses, FackTraverse
<1> DEFINE head == At(rHead, n)
           last == Pred(head)
           run  == [k \in 1 .. n |-> rSlot[At(rHead, k-1)].data]
           got  == Collected + n
<1>2. /\ UNCHANGED <<sHead, sTail, sSize, sCycle, sSlot, accepted, sExpect, sDue, sStalled>>
      /\ UNCHANGED <<rTail, rTemp, delivered, rLastAck, toSend, net, acks>>
      /\ rSize # 0
  BY DEF FackThreadTraverses, FackTraverse, senderVars
<1>3. /\ rUpper' = rUpper \o run
      /\ rSlot' = [i \in Index |-> IF Off(rHead, i) < n THEN [rSlot[i] EXCEPT !.acked = FALSE]
                                                        ELSE rSlot[i]]
      /\ rHead' = head /\ rSize' = rSize - n
      /\ rFack'.busy = TRUE /\ rFack'.ack = TailOf(rSlot', head)
  BY <1>1 DEF Collect
<1>4. /\ Collected \in Nat /\ Confirmed \in Nat /\ accepted \in Nat /\ n \in Nat
      /\ Confirmed <= Collected /\ accepted - Collected < N
      /\ rSize \in Nat /\ n <= rSize /\ Collected + rSize <= accepted
      /\ n \in 0 .. N-1
      /\ rHead \in Index /\ sHead \in Index /\ sSize \in Nat /\ sSize < N
      /\ accepted - Confirmed = sSize
      /\ Off(sHead, rHead) = Collected - Confirmed /\ rTail = At(rHead, rSize)
  <2>1. /\ Collected \in Nat /\ Confirmed \in Nat /\ accepted \in Nat
        /\ Confirmed <= Collected /\ accepted - Collected < N
        /\ Off(sHead, rHead) = Collected - Confirmed
    BY Counters
  <2>2. rSize \in Nat /\ rHead \in Index /\ sHead \in Index /\ sSize \in Nat
    BY <1>0, CapacityAssumption DEF SenderTypeOK, ReceiverTypeOK
  <2>3. Collected + rSize <= accepted /\ rTail = At(rHead, rSize) /\ sSize < N
    BY DEF RingsInv, RingsAligned, WindowOK
  <2>4. accepted - Confirmed = sSize
    BY <2>1, <2>2 DEF Confirmed
  <2> QED BY <2>1, <2>2, <2>3, <2>4, CapacityAssumption
<1>5. /\ rUpper \in Seq(Nat) /\ run \in Seq(Nat) /\ Len(run) = n
      /\ rUpper \o run \in Seq(Nat) /\ Len(rUpper \o run) = Len(rUpper) + n
      /\ \A k \in 1 .. Len(rUpper) + n :
           (rUpper \o run)[k] = IF k <= Len(rUpper) THEN rUpper[k] ELSE run[k - Len(rUpper)]
  <2>1. rUpper \in Seq(Nat)
    BY <1>0 DEF ReceiverTypeOK
  <2>2. \A k \in 1 .. n : rSlot[At(rHead, k-1)].data \in Nat
    <3> TAKE k \in 1 .. n
    <3>1. k - 1 \in 0 .. n-1
      BY <1>4
    <3>2. At(rHead, k-1) \in Index
      BY <1>1, <3>1, CollectedSlot
    <3> QED BY <1>0, <3>2 DEF ReceiverTypeOK
  <2>3. run \in [1 .. n -> Nat]
    BY <2>2
  <2>4. run \in Seq(Nat)
    BY <1>4, <2>3, SeqDef
  <2>5. Len(run) = n
    BY <1>4, <2>3, <2>4, LenProperties
  <2> HIDE DEF run
  <2> QED BY <2>1, <2>4, <2>5, ConcatProperties
<1>6. Collected' = got /\ Confirmed' = Confirmed
  <2>1. Len(delivered) \in Nat /\ Len(rUpper) \in Nat
    BY <1>0 DEF ReceiverTypeOK
  <2> HIDE DEF run
  <2> QED BY <1>2, <1>3, <1>4, <1>5, <2>1 DEF Collected, Confirmed
<1>7. head \in Index /\ last \in Index /\ rTail = At(head, rSize - n)
  <2>1. head \in Index
    BY <1>4, AtTheorem
  <2>2. last \in Index
    BY <2>1, CapacityAssumption DEF Pred, Index
  <2>3. rSize \in n .. N-1
    BY <1>4, CapacityAssumption
  <2> QED BY <1>4, <2>1, <2>2, <2>3, AtShift
<1>8. \A i \in Index : Off(head, i) = IF Off(rHead, i) >= n THEN Off(rHead, i) - n
                                                           ELSE Off(rHead, i) + N - n
  BY <1>4, OffPastHead
<1>9. ASSUME NEW i \in Index
      PROVE  /\ rSlot'[i].cycle = rSlot[i].cycle /\ rSlot'[i].data = rSlot[i].data
             /\ rSlot'[i].acked = IF Off(rHead, i) < n THEN FALSE ELSE rSlot[i].acked
             /\ rSlot'[i] \in [cycle : Nat, data : Nat, acked : BOOLEAN]
  <2>1. rSlot[i] \in [cycle : Nat, data : Nat, acked : BOOLEAN]
    BY <1>0 DEF ReceiverTypeOK
  <2>2. rSlot'[i] = IF Off(rHead, i) < n THEN [rSlot[i] EXCEPT !.acked = FALSE] ELSE rSlot[i]
    BY <1>3
  <2> QED BY <2>1, <2>2
<1>10. TypeOK'
  <2>1. SenderTypeOK' /\ NetworkTypeOK'
    BY <1>0, <1>2 DEF SenderTypeOK, NetworkTypeOK
  <2>2. rSlot' \in [Index -> [cycle : Nat, data : Nat, acked : BOOLEAN]]
    BY <1>3, <1>9
  <2>3. rSize' \in 0 .. N
    BY <1>3, <1>4, CapacityAssumption
  <2>4. rUpper' \in Seq(Nat)
    BY <1>3, <1>5
  <2> HIDE DEF head, run
  <2>5. ReceiverTypeOK'
    BY <1>0, <1>2, <1>3, <1>7, <2>2, <2>3, <2>4 DEF ReceiverTypeOK
  <2> QED BY <2>1, <2>5 DEF TypeOK
<1>11. WindowOK' /\ NothingLost' /\ SenderSlots'
  <2>1. NothingLost'
    BY <1>4, <1>6 DEF NothingLost
  <2> QED BY <1>2, <2>1 DEF RingsInv, WindowOK, SenderSlots, SenderSlotOK, Back
<1>12. InOrderOnce'
  <2>1. got <= accepted
    BY <1>4
  <2>2. ASSUME NEW k \in 1 .. Len(rUpper) + n
        PROVE  (rUpper \o run)[k] = Len(delivered) + k
    <3>1. Len(delivered) \in Nat /\ Len(rUpper) \in Nat /\ Collected = Len(delivered) + Len(rUpper)
      BY <1>0 DEF ReceiverTypeOK, Collected
    <3>2. CASE k <= Len(rUpper)
      BY <1>5, <3>1, <3>2 DEF RingsInv, InOrderOnce
    <3>3. CASE ~(k <= Len(rUpper))
      <4> DEFINE j == k - Len(rUpper)
      <4>1. j \in 1 .. n /\ j - 1 \in 0 .. n-1
        BY <1>4, <3>1, <3>3
      <4>2. rSlot[At(rHead, j-1)].data = Collected + (j-1) + 1
        BY <1>1, <4>1, CollectedSlot
      <4>3. (rUpper \o run)[k] = run[j]
        BY <1>5, <3>3
      <4>4. run[j] = rSlot[At(rHead, j-1)].data
        BY <4>1
      <4> QED BY <1>4, <3>1, <4>1, <4>2, <4>3, <4>4
    <3> QED BY <3>2, <3>3
  <2> HIDE DEF run
  <2> QED BY <1>2, <1>3, <1>5, <1>6, <2>1, <2>2 DEF RingsInv, InOrderOnce
<1>13. RingsAligned'
  <2>1. head = At(sHead, got - Confirmed)
    BY <1>4, CapacityAssumption DEF At, Off, Index
  <2>2. got + (rSize - n) <= accepted
    BY <1>4
  <2> HIDE DEF head
  <2> QED BY <1>2, <1>3, <1>6, <1>7, <2>1, <2>2 DEF RingsInv, RingsAligned, At
<1>14. ReceiverSlots'
  <2> SUFFICES ASSUME NEW i \in Index PROVE ReceiverSlotOK(i)'
    BY DEF ReceiverSlots
  <2>1. ReceiverSlotOK(i) /\ Off(rHead, i) \in Nat /\ Off(rHead, i) < N
    <3>1. Off(rHead, i) \in 0 .. N-1
      BY <1>4, OffTheorem
    <3>2. ReceiverSlotOK(i)
      BY DEF RingsInv, ReceiverSlots
    <3> QED BY <3>1, <3>2, CapacityAssumption
  <2>2. CASE Off(rHead, i) < n
    <3>1. Off(head, i) = Off(rHead, i) + N - n
      BY <1>4, <1>8, <2>1, <2>2
    <3>2. ~(Off(head, i) < accepted - got)
      BY <1>4, <2>1, <3>1, CapacityAssumption
    <3>3. ~rSlot'[i].acked /\ rSlot'[i].cycle = rSlot[i].cycle
      BY <1>9, <2>2
    <3>4. rSlot[i].cycle = sSlot[i].cycle
      <4>1. Off(rHead, i) \in 0 .. n-1 /\ At(rHead, Off(rHead, i)) = i
        BY <1>4, <2>1, <2>2, OffTheorem
      <4> QED BY <1>1, <4>1, CollectedSlot
    <3> HIDE DEF head
    <3> QED BY <1>2, <1>3, <1>6, <3>2, <3>3, <3>4 DEF ReceiverSlotOK, Off
  <2>3. CASE ~(Off(rHead, i) < n)
    <3>1. Off(head, i) = Off(rHead, i) - n
      BY <1>4, <1>8, <2>1, <2>3
    <3>2. /\ Off(head, i) < accepted - got <=> Off(rHead, i) < accepted - Collected
          /\ Off(rHead, i) < rSize => Off(head, i) < rSize - n
      BY <1>4, <2>1, <3>1
    <3>3. rSlot'[i].acked = rSlot[i].acked /\ rSlot'[i].cycle = rSlot[i].cycle
          /\ rSlot'[i].data = rSlot[i].data
      BY <1>9, <2>3
    <3> HIDE DEF head
    <3> QED BY <1>2, <1>3, <1>6, <2>1, <3>2, <3>3 DEF ReceiverSlotOK, Off
  <2> QED BY <2>2, <2>3
<1>15. PacketsOK'
  BY <1>2 DEF RingsInv, PacketsOK, PacketOK
<1>16. AckOK(rFack.ack)'
  <2> DEFINE lap == rSlot'[last].cycle
             next == rSlot'[head].cycle
             ack == TailOf(rSlot', head)
  <2>1. lap = sSlot[last].cycle /\ lap \in Nat /\ next \in Nat
    <3>1. Off(head, last) = N-1
      BY <1>7, CapacityAssumption DEF Off, Pred, Index
    <3>2. ~(Off(head, last) < accepted - got)
      BY <1>4, <3>1, CapacityAssumption
    <3>3. PICK i \in Index : i = last
      BY <1>7
    <3>4. rSlot'[last].cycle = sSlot[last].cycle
      <4>1. ReceiverSlotOK(i)' /\ ~(Off(head, i) < accepted - got)
        BY <1>14, <3>2, <3>3 DEF ReceiverSlots
      <4> HIDE DEF head
      <4>2. rSlot'[i].cycle = sSlot[i].cycle
        BY <1>2, <1>3, <1>6, <4>1 DEF ReceiverSlotOK, Off
      <4> QED BY <3>3, <4>2
    <3>5. rSlot'[last].cycle \in Nat /\ rSlot'[head].cycle \in Nat
      BY <1>7, <1>9
    <3> QED BY <3>4, <3>5
  <2>2. ack = [index |-> IF lap = 0 THEN 0 ELSE last,
               cycle |-> IF LapTooFar(lap, next) THEN lap - 1 ELSE lap]
    BY DEF TailOf, AckedSlot
  <2>3. CASE lap = 0
    <3>1. n = 0 /\ rSlot[rHead].cycle = 0 /\ sSlot[0].cycle = 1 /\ accepted > 0
      BY <1>1, <1>2, <2>1, <2>3, LastBeforeFirstLap
    <3>2. next = 0
      <4>1. head = rHead
        BY <1>4, <3>1, CapacityAssumption DEF At, Index
      <4> QED BY <1>4, <1>9, <3>1, <4>1
    <3>3. ack = [index |-> 0, cycle |-> 0]
      BY <2>2, <2>3, <3>2 DEF LapTooFar
    <3>4. rFack'.ack.index = 0 /\ rFack'.ack.cycle = 0
      BY <1>3, <3>3
    <3> HIDE DEF ack, head
    <3>5. 0 \in Index /\ sSlot'[0].cycle = 1
      BY <1>2, <3>1, CapacityAssumption DEF Index
    <3> QED BY <3>4, <3>5 DEF AckOK, IsAck
  <2>4. CASE lap # 0
    <3>1. ack.index = last /\ ack.cycle \in Nat /\ ack.cycle <= sSlot[last].cycle
      BY <2>1, <2>2, <2>4
    <3>2. ASSUME Off(sHead, last) < sSize
          PROVE  Off(sHead, last) < got - Confirmed
      <4>1. Off(sHead, head) = got - Confirmed
        BY <1>4, <1>7, CapacityAssumption DEF At, Off, Index
      <4>2. Off(sHead, last) = IF Off(sHead, head) = 0 THEN N-1 ELSE Off(sHead, head) - 1
        BY <1>4, <1>7, CapacityAssumption DEF Pred, Off, Index
      <4> QED BY <1>4, <3>2, <4>1, <4>2, CapacityAssumption
    <3>3. rFack'.ack = ack
      BY <1>3
    <3> HIDE DEF ack, last, got
    <3> QED BY <1>2, <1>6, <1>7, <3>1, <3>2, <3>3 DEF AckOK, IsAck, Off
  <2> QED BY <2>3, <2>4
<1>17. AcksOK'
  <2>1. ASSUME NEW b, AckOK(b) PROVE AckOK(b)'
    <3>1. Off(sHead, b.index) \in Nat
      BY <1>4, <2>1, OffTheorem DEF AckOK, IsAck
    <3>2. Off(sHead, b.index) < Collected - Confirmed => Off(sHead, b.index) < got - Confirmed
      BY <1>4, <3>1
    <3> QED BY <1>2, <1>6, <2>1, <3>2 DEF AckOK, Off
  <2> QED BY <1>2, <1>16, <2>1 DEF RingsInv, AcksOK
<1> QED BY <1>10, <1>11, <1>12, <1>13, <1>14, <1>15, <1>17 DEF RingsInv

-----------------------------------------------------------------------------
\* Pushing an acknowledgement adds it and may drop the oldest one.
LEMMA PushTheorem ==
  ASSUME NetworkTypeOK, NEW a
  PROVE  /\ Push(a) \in Seq({Push(a)[j] : j \in 1 .. Len(Push(a))})
         /\ \A j \in 1 .. Len(Push(a)) :
              Push(a)[j] = a \/ \E m \in 1 .. Len(acks) : Push(a)[j] = acks[m]
<1> DEFINE S   == {acks[m] : m \in 1 .. Len(acks)} \cup {a}
           all == Append(acks, a)
<1>1. acks \in Seq(S)
  <2>1. acks \in Seq({acks[m] : m \in 1 .. Len(acks)})
    BY DEF NetworkTypeOK
  <2>2. {acks[m] : m \in 1 .. Len(acks)} \subseteq S
    OBVIOUS
  <2> HIDE DEF S
  <2> QED BY <2>1, <2>2, SeqMonotonic
<1>2. a \in S
  OBVIOUS
<1>3. Push(a) \in Seq(S)
  <2> HIDE DEF S
  <2>1. all \in Seq(S) /\ all # <<>>
    BY <1>1, <1>2, AppendProperties
  <2>2. Tail(all) \in Seq(S)
    BY <2>1, HeadTailProperties
  <2> QED BY <2>1, <2>2 DEF Push
<1>4. \A j \in 1 .. Len(Push(a)) : Push(a)[j] \in S
  <2> HIDE DEF S
  <2> QED BY <1>3, ElementOfSeq
<1>5. Push(a) \in Seq({Push(a)[j] : j \in 1 .. Len(Push(a))})
  <2> HIDE DEF S
  <2> QED BY <1>3, OwnRange
<1> QED BY <1>4, <1>5

\* A finished or repeated acknowledgement confirms only what is collected.
LEMMA FackThreadSendsRingsInv ==
  ASSUME RingsInv, FackThreadSends \/ FackThreadRepeats
  PROVE  RingsInv'
<1>0. SenderTypeOK /\ ReceiverTypeOK /\ NetworkTypeOK BY TypeParts DEF RingsInv
<1>1. /\ UNCHANGED <<sHead, sTail, sSize, sCycle, sSlot, accepted, sExpect, sDue, sStalled>>
      /\ UNCHANGED <<rHead, rTail, rSize, rSlot, rTemp, rUpper, delivered, toSend, net>>
  BY DEF FackThreadSends, FackThreadRepeats, FackScan, FackRepeat, senderVars, receiverVars
<1>2. /\ acks' = Push(rLastAck') /\ AckOK(rLastAck')
      /\ rFack'.busy \in BOOLEAN /\ (rFack'.busy => AckOK(rFack'.ack))
  <2>1. CASE FackThreadSends
    <3>1. PICK seen : rLastAck' = FinishedAck(seen)
      BY <2>1 DEF FackThreadSends, FackScan
    <3>2. AckOK(rFack.ack)
      BY <2>1 DEF FackThreadSends, FackScan, RingsInv, AcksOK
    <3>3. rLastAck'.index = rFack.ack.index /\ rLastAck'.cycle = rFack.ack.cycle
      BY <3>1 DEF FinishedAck
    <3>4. AckOK(rLastAck')
      BY <3>2, <3>3 DEF AckOK, IsAck
    <3>5. rFack'.busy = FALSE /\ acks' = Push(rLastAck')
      BY <2>1 DEF FackThreadSends, FackScan, FackIdle
    <3> QED BY <3>4, <3>5
  <2>2. CASE FackThreadRepeats
    <3>1. rFack' = rFack /\ rLastAck' = rLastAck /\ acks' = Push(rLastAck)
      BY <2>2 DEF FackThreadRepeats, FackRepeat, receiverVars
    <3> QED BY <1>0, <3>1 DEF RingsInv, AcksOK, ReceiverTypeOK
  <2> QED BY <2>1, <2>2
<1>3. /\ acks' \in Seq({acks'[j] : j \in 1 .. Len(acks')})
      /\ \A j \in 1 .. Len(acks') : AckOK(acks'[j])
  <2>1. PICK a : a = rLastAck'
    OBVIOUS
  <2>2. acks' = Push(a) /\ AckOK(a)
    BY <1>2, <2>1
  <2> QED BY <1>0, <2>2, PushTheorem DEF RingsInv, AcksOK
<1>4. TypeOK'
  <2>1. SenderTypeOK' /\ ReceiverTypeOK'
    BY <1>0, <1>1, <1>2 DEF SenderTypeOK, ReceiverTypeOK
  <2>2. NetworkTypeOK'
    BY <1>0, <1>1, <1>3 DEF NetworkTypeOK, AckOK, IsAck
  <2> QED BY <2>1, <2>2 DEF TypeOK
<1>5. PacketsOK'
  BY <1>1 DEF RingsInv, PacketsOK, PacketOK
<1>6. AcksOK'
  <2>1. Collected' = Collected /\ Confirmed' = Confirmed
    BY <1>1 DEF Collected, Confirmed
  <2> QED BY <1>1, <1>2, <1>3, <2>1 DEF AcksOK, AckOK, IsAck, Off
<1> QED BY <1>1, <1>4, <1>5, <1>6, RingsUntouched DEF RingsInv

\* UploadDataPacket moves the deque to the application, in order.
LEMMA UploadThreadRingsInv ==
  ASSUME RingsInv, UploadThread
  PROVE  RingsInv'
<1>0. SenderTypeOK /\ ReceiverTypeOK /\ NetworkTypeOK BY TypeParts DEF RingsInv
<1>1. /\ UNCHANGED <<sHead, sTail, sSize, sCycle, sSlot, accepted, sExpect, sDue, sStalled>>
      /\ UNCHANGED <<rHead, rTail, rSize, rSlot, rTemp, rFack, rLastAck, toSend, net, acks>>
      /\ delivered' = delivered \o rUpper /\ rUpper' = <<>>
  BY DEF UploadThread, UploadDataPacket, senderVars
<1>2. /\ delivered \in Seq(Nat) /\ rUpper \in Seq(Nat)
      /\ Len(delivered) \in Nat /\ Len(rUpper) \in Nat
  BY <1>0 DEF ReceiverTypeOK
<1>3. /\ delivered' \in Seq(Nat) /\ Len(delivered') = Len(delivered) + Len(rUpper)
      /\ \A k \in 1 .. Len(delivered) + Len(rUpper) :
           delivered'[k] = IF k <= Len(delivered) THEN delivered[k] ELSE rUpper[k - Len(delivered)]
  BY <1>1, <1>2, ConcatProperties
<1>4. rUpper' \in Seq(Nat) /\ Len(rUpper') = 0
  BY <1>1, EmptySeq
<1>5. Collected' = Collected /\ Confirmed' = Confirmed
  BY <1>1, <1>2, <1>3, <1>4 DEF Collected, Confirmed
<1>6. TypeOK'
  <2>1. SenderTypeOK'
    BY <1>0, <1>1 DEF SenderTypeOK
  <2>2. ReceiverTypeOK'
    BY <1>0, <1>1, <1>3, <1>4 DEF ReceiverTypeOK
  <2>3. NetworkTypeOK'
    BY <1>0, <1>1 DEF NetworkTypeOK
  <2> QED BY <2>1, <2>2, <2>3 DEF TypeOK
<1>7. InOrderOnce'
  <2>1. \A k \in 1 .. Len(delivered) + Len(rUpper) : delivered'[k] = k
    <3> TAKE k \in 1 .. Len(delivered) + Len(rUpper)
    <3>1. CASE k <= Len(delivered)
      <4>1. k \in 1 .. Len(delivered)
        BY <1>2, <3>1
      <4> QED BY <1>3, <3>1, <4>1 DEF RingsInv, InOrderOnce
    <3>2. CASE ~(k <= Len(delivered))
      <4>1. k - Len(delivered) \in 1 .. Len(rUpper)
        BY <1>2, <3>2
      <4>2. rUpper[k - Len(delivered)] = Len(delivered) + (k - Len(delivered))
        BY <4>1 DEF RingsInv, InOrderOnce
      <4> QED BY <1>2, <1>3, <3>2, <4>2
    <3> QED BY <3>1, <3>2
  <2> QED BY <1>1, <1>3, <1>4, <1>5, <2>1 DEF RingsInv, InOrderOnce
<1>8. WindowOK' /\ NothingLost' /\ RingsAligned'
  BY <1>1, <1>5 DEF RingsInv, WindowOK, NothingLost, RingsAligned, At
<1>9. SenderSlots' /\ ReceiverSlots' /\ PacketsOK'
  BY <1>1, <1>5 DEF RingsInv, SenderSlots, SenderSlotOK, Back, ReceiverSlots, ReceiverSlotOK, Off,
                    PacketsOK, PacketOK
<1>10. AcksOK'
  BY <1>1, <1>5 DEF RingsInv, AcksOK, AckOK, Off
<1> QED BY <1>6, <1>7, <1>8, <1>9, <1>10 DEF RingsInv

-----------------------------------------------------------------------------
\* Nothing changes.
LEMMA StutterRingsInv ==
  ASSUME RingsInv, UNCHANGED vars
  PROVE  RingsInv'
<1>1. /\ UNCHANGED <<sHead, sTail, sSize, sCycle, sSlot, accepted, sExpect, sDue, sStalled>>
      /\ UNCHANGED <<rHead, rTail, rSize, rSlot, rTemp, rUpper, delivered, rFack, rLastAck>>
      /\ UNCHANGED <<toSend, net, acks>>
  BY DEF vars, senderVars, receiverVars
<1>2. TypeOK'
  <2>1. SenderTypeOK'
    BY <1>1, TypeParts DEF RingsInv, SenderTypeOK
  <2>2. ReceiverTypeOK'
    BY <1>1, TypeParts DEF RingsInv, ReceiverTypeOK
  <2>3. NetworkTypeOK'
    BY <1>1, TypeParts DEF RingsInv, NetworkTypeOK
  <2> QED BY <2>1, <2>2, <2>3 DEF TypeOK
<1>3. PacketsOK' /\ AcksOK'
  BY <1>1, RingsUntouched DEF RingsInv, PacketsOK, AcksOK
<1> QED BY <1>1, <1>2, <1>3, RingsUntouched DEF RingsInv

\* Every step of the protocol preserves the invariant.
LEMMA StepRingsInv ==
  ASSUME MaxUnacked < N, RingsInv, [Next]_vars
  PROVE  RingsInv'
<1>1. CASE UserAddsItem
  BY <1>1, UserAddsItemRingsInv
<1>2. CASE \/ UserSendsPacket \/ AdjustBandWidth
           \/ \E p \in net : LosePacket(p) \/ RecvData(p)
           \/ \E i \in Index : PacketAges(i)
           \/ ConfirmationAges
  BY <1>2, NetworkRingsInv
<1>3. CASE \E k \in 1 .. Len(acks) : RecvAck(k)
  BY <1>3, RecvAckRingsInv
<1>4. CASE UpdateThread
  BY <1>4, UpdateThreadRingsInv
<1>5. CASE FackThreadTraverses
  BY <1>5, FackThreadTraversesRingsInv
<1>6. CASE FackThreadSends \/ FackThreadRepeats
  BY <1>6, FackThreadSendsRingsInv
<1>7. CASE UploadThread
  BY <1>7, UploadThreadRingsInv
<1>8. CASE UNCHANGED vars
  BY <1>8, StutterRingsInv
<1> QED BY <1>1, <1>2, <1>3, <1>4, <1>5, <1>6, <1>7, <1>8 DEF Next

-----------------------------------------------------------------------------
(* A step of MRUDP moves the four counters as a step of the sliding window *)
(* does, or leaves them.                                                   *)
LEMMA CounterStep ==
  ASSUME MaxUnacked < N, RingsInv, [Next]_vars
  PROVE  [Window!Next]_(Window!vars)
<1>0. SenderTypeOK /\ ReceiverTypeOK /\ NetworkTypeOK BY TypeParts DEF RingsInv
<1>1. /\ Collected \in Nat /\ Confirmed \in Nat /\ accepted \in Nat /\ sSize \in Nat
      /\ Confirmed <= Collected /\ Collected <= accepted /\ accepted - Confirmed = sSize
      /\ Len(delivered) \in Nat /\ Len(rUpper) \in Nat
      /\ Collected = Len(delivered) + Len(rUpper) /\ sSize < N
  <2>1. sSize \in Nat /\ Len(delivered) \in Nat /\ Len(rUpper) \in Nat /\ sSize < N
    <3>1. sSize \in 0 .. N /\ delivered \in Seq(Nat) /\ rUpper \in Seq(Nat)
      BY <1>0 DEF SenderTypeOK, ReceiverTypeOK
    <3>2. sSize \in Nat /\ sSize < N
      BY <3>1, CapacityAssumption DEF RingsInv, WindowOK
    <3> QED BY <3>1, <3>2, LenProperties
  <2> QED BY <2>1, Counters DEF Collected, Confirmed
<1> USE DEF Window!Next, Window!vars
<1>2. CASE UserAddsItem
  <2>1. /\ accepted' = accepted + 1 /\ sSize' = sSize + 1
        /\ UNCHANGED <<delivered, rUpper>>
    BY <1>2 DEF UserAddsItem, AddItem, receiverVars
  <2>2. Confirmed' = Confirmed /\ Collected' = Collected
    BY <1>1, <2>1 DEF Confirmed, Collected
  <2> QED BY <1>1, <2>1, <2>2 DEF Window!Accept
<1>3. CASE \E k \in 1 .. Len(acks) : RecvAck(k)
  <2>1. PICK k \in 1 .. Len(acks) : RecvAck(k)
    BY <1>3
  <2>2. AckOK(acks[k])
    BY DEF RingsInv, AcksOK
  <2>3. PICK d \in 0 .. N-1 : d <= Collected - Confirmed /\ SizeAfter(acks[k]) = sSize - d
    BY <2>2, AckMovesHead
  <2>4. accepted' = accepted /\ sSize' = sSize - d /\ UNCHANGED <<delivered, rUpper>>
    BY <2>1, <2>3 DEF RecvAck, OnRecvMessageFromRecvTerm, receiverVars
  <2>5. Confirmed' = Confirmed + d /\ Collected' = Collected /\ d \in Nat
    BY <1>1, <2>3, <2>4, CapacityAssumption DEF Confirmed, Collected
  <2>6. d = 0 \/ Confirmed' \in Confirmed + 1 .. Collected
    BY <1>1, <2>3, <2>5
  <2> QED BY <1>1, <2>4, <2>5, <2>6 DEF Window!Confirm
<1>4. CASE FackThreadTraverses
  <2>1. PICK n \in 0 .. rSize : rUpper' = rUpper \o [k \in 1 .. n |-> rSlot[At(rHead, k-1)].data]
    BY <1>4 DEF FackThreadTraverses, FackTraverse, Collect
  <2>2. UNCHANGED <<accepted, sSize, delivered>>
    BY <1>4 DEF FackThreadTraverses, FackTraverse, senderVars
  <2>3. RingsInv'
    BY <1>4, FackThreadTraversesRingsInv
  <2>4. Confirmed' = Confirmed /\ Collected' <= accepted /\ Collected' \in Nat
    <3>1. Collected' <= accepted' /\ rUpper' \in Seq(Nat)
      BY <2>3 DEF RingsInv, InOrderOnce, TypeOK, ReceiverTypeOK
    <3>2. Len(rUpper') \in Nat
      BY <3>1, LenProperties
    <3> QED BY <1>1, <2>2, <3>1, <3>2 DEF Confirmed, Collected
  <2>5. Collected' >= Collected
    <3> DEFINE run == [k \in 1 .. n |-> rSlot[At(rHead, k-1)].data]
    <3>1. PICK S : S = {run[k] : k \in 1 .. n} \cup Nat
      OBVIOUS
    <3>2. n \in Nat
      BY <1>0, CapacityAssumption DEF ReceiverTypeOK
    <3>3. run \in [1 .. n -> S]
      BY <3>1
    <3>4. run \in Seq(S)
      BY <3>2, <3>3, SeqDef
    <3>5. rUpper \in Seq(S)
      BY <1>0, <3>1, SeqMonotonic DEF ReceiverTypeOK
    <3> HIDE DEF run
    <3>6. Len(rUpper \o run) = Len(rUpper) + Len(run) /\ Len(run) \in Nat
      BY <3>4, <3>5, ConcatProperties, LenProperties
    <3>7. Len(rUpper') = Len(rUpper) + Len(run)
      BY <2>1, <3>6 DEF run
    <3> QED BY <1>1, <2>2, <3>6, <3>7 DEF Collected
  <2>6. Collected' = Collected \/ Collected' \in Collected + 1 .. accepted
    BY <1>1, <2>4, <2>5
  <2> QED BY <2>2, <2>4, <2>6 DEF Window!Collect
<1>5. CASE UploadThread
  <2>1. /\ rUpper # <<>> /\ delivered' = delivered \o rUpper /\ rUpper' = <<>>
        /\ UNCHANGED <<accepted, sSize>>
    BY <1>5 DEF UploadThread, UploadDataPacket, senderVars
  <2>2. /\ Len(delivered') = Len(delivered) + Len(rUpper) /\ Len(rUpper) >= 1 /\ Len(rUpper') = 0
    BY <1>0, <2>1, ConcatProperties, EmptySeq DEF ReceiverTypeOK
  <2>3. Confirmed' = Confirmed /\ Collected' = Collected
    BY <1>1, <2>1, <2>2 DEF Confirmed, Collected
  <2>4. Len(delivered') \in Len(delivered) + 1 .. Collected
    BY <1>1, <2>2
  <2> QED BY <2>1, <2>3, <2>4 DEF Window!HandOver
<1>6. CASE ~(\/ UserAddsItem \/ (\E k \in 1 .. Len(acks) : RecvAck(k))
             \/ FackThreadTraverses \/ UploadThread)
  <2>1. UNCHANGED <<accepted, sSize, delivered, rUpper>>
    BY <1>6 DEF Next, vars, UserSendsPacket, AdjustBandWidth, LosePacket, RecvData, Enqueue,
       UpdateThread, NewDealSingleReceiveData, FackThreadSends, FackScan, FackThreadRepeats,
       FackRepeat, PacketAges, PacketBecomesDue, ConfirmationAges, ConfirmationOverdue,
       senderVars, receiverVars
  <2> QED BY <2>1 DEF Confirmed, Collected
<1> QED BY <1>2, <1>3, <1>4, <1>5, <1>6

-----------------------------------------------------------------------------
(* RingsInv is an invariant: the user keeps at least one slot of the ring  *)
(* free (SendUserData and the flow window), the rest the code does itself. *)
THEOREM RingsInvariance ==
  ASSUME MaxUnacked < N
  PROVE  Spec => []RingsInv
<1>1. Init => RingsInv
  BY InitRingsInv
<1>2. RingsInv /\ [Next]_vars => RingsInv'
  BY StepRingsInv
<1> QED BY <1>1, <1>2, PTL DEF Spec

(* Type correctness of the two queues and of the network between them.     *)
THEOREM TypeCorrectness ==
  ASSUME MaxUnacked < N
  PROVE  Spec => []TypeOK
<1>1. RingsInv => TypeOK
  BY DEF RingsInv
<1> QED BY <1>1, RingsInvariance, PTL

(* The sender forgets a message only after the receiving end has taken it  *)
(* (SetHeadIndex against NewTraverseForceACK), for every capacity of the   *)
(* ring, whatever the network loses, duplicates or reorders.               *)
THEOREM NoLoss ==
  ASSUME MaxUnacked < N
  PROVE  Spec => []NothingLost
<1>1. RingsInv => NothingLost
  BY DEF RingsInv
<1> QED BY <1>1, RingsInvariance, PTL

(* The application gets every message once and in the order sent: laps     *)
(* that come around again never deliver an old packet in place of a new.   *)
THEOREM OrderOnce ==
  ASSUME MaxUnacked < N
  PROVE  Spec => []InOrderOnce
<1>1. RingsInv => InOrderOnce
  BY DEF RingsInv
<1> QED BY <1>1, RingsInvariance, PTL

(* Head, tail and size of both rings agree with each other and with what   *)
(* has been collected and confirmed.                                       *)
THEOREM Alignment ==
  ASSUME MaxUnacked < N
  PROVE  Spec => []RingsAligned
<1>1. RingsInv => RingsAligned
  BY DEF RingsInv
<1> QED BY <1>1, RingsInvariance, PTL

(* MRUDP implements the sliding window of numbered messages: SendUserData  *)
(* is Accept, NewTraverseForceACK Collect, UploadDataPacket HandOver and   *)
(* SetHeadIndex Confirm; every other step leaves the four counters.        *)
THEOREM Refinement ==
  ASSUME MaxUnacked < N
  PROVE  Spec => ImplementsWindow
<1>1. Init => Window!Init
  BY DEF Init, SenderInit, ReceiverInit, Window!Init, Confirmed, Collected
<1>2. RingsInv /\ [Next]_vars => [Window!Next]_(Window!vars)
  BY CounterStep
<1> QED BY <1>1, <1>2, RingsInvariance, PTL DEF Spec, ImplementsWindow, Window!Spec

(* The slots whose message is sent, not collected and not in the ring.     *)
Missing == {i \in Index : Off(rHead, i) < accepted - Collected /\ ~rSlot[i].acked}

\* They are the slots in which the receiver is one lap behind.
LEMMA MissingByLap ==
  RingsInv => Missing = {i \in Index : rSlot[i].cycle + 1 = sSlot[i].cycle}
<1> SUFFICES ASSUME RingsInv, NEW i \in Index
             PROVE  Off(rHead, i) < accepted - Collected /\ ~rSlot[i].acked
                      <=> rSlot[i].cycle + 1 = sSlot[i].cycle
  BY DEF Missing
<1>1. ReceiverSlotOK(i) /\ rSlot[i].cycle \in Nat /\ sSlot[i].cycle \in Nat
  BY TypeParts DEF RingsInv, ReceiverSlots, SenderTypeOK, ReceiverTypeOK
<1> QED BY <1>1 DEF ReceiverSlotOK

(* Whatever the network duplicated or delayed, a packet in flight that     *)
(* NewDealSingleReceiveData would put into its slot is what the sender's   *)
(* slot holds now, and its message is missing; and what the sender would   *)
(* send of a missing message is taken as soon as it comes.                 *)
THEOREM OnlyMissingIsTaken ==
  ASSUME MaxUnacked < N
  PROVE  Spec => [](/\ \A p \in net : Acceptable(p) => p = Packet(p.index)
                    /\ \A i \in Index : Acceptable(Packet(i)) <=> i \in Missing)
<1>1. ASSUME RingsInv, NEW p \in net, Acceptable(p)
      PROVE  p = Packet(p.index)
  <2>1. p \in PacketType /\ PacketOK(p)
    BY <1>1 DEF RingsInv, TypeOK, NetworkTypeOK, PacketsOK
  <2>2. p.cycle = sSlot[p.index].cycle /\ p.data = sSlot[p.index].data
    BY <1>1, <2>1, AcceptedPacket
  <2> QED BY <2>1, <2>2 DEF Packet, PacketType
<1>2. ASSUME RingsInv, NEW i \in Index
      PROVE  Acceptable(Packet(i)) <=> i \in Missing
  <2>1. Packet(i).index = i /\ Packet(i).cycle = sSlot[i].cycle
    BY DEF Packet
  <2>2. ReceiverSlotOK(i) /\ rSlot[i].cycle \in Nat /\ sSlot[i].cycle \in Nat
    BY <1>2, TypeParts DEF RingsInv, ReceiverSlots, SenderTypeOK, ReceiverTypeOK
  <2> QED BY <2>1, <2>2 DEF Acceptable, ReceiverSlotOK, Missing
<1>3. RingsInv => /\ \A p \in net : Acceptable(p) => p = Packet(p.index)
                  /\ \A i \in Index : Acceptable(Packet(i)) <=> i \in Missing
  BY <1>1, <1>2
<1> QED BY <1>3, RingsInvariance, PTL

\* Besides AddItem and NewDealSingleReceiveData no step changes a lap.
LEMMA LapsStay ==
  ASSUME RingsInv, [Next]_vars, ~UserAddsItem, ~UpdateThread
  PROVE  sSlot' = sSlot /\ \A i \in Index : rSlot'[i].cycle = rSlot[i].cycle
<1>1. sSlot' = sSlot
  BY DEF Next, vars, UserSendsPacket, AdjustBandWidth, LosePacket, RecvData, RecvAck,
     OnRecvMessageFromRecvTerm, FackThreadTraverses, FackThreadSends, FackThreadRepeats,
     UploadThread, PacketAges, PacketBecomesDue, ConfirmationAges, ConfirmationOverdue, senderVars
<1>2. CASE FackThreadTraverses
  <2>1. PICK n \in 0 .. rSize : rSlot' = [i \in Index |->
                                  IF Off(rHead, i) < n THEN [rSlot[i] EXCEPT !.acked = FALSE] ELSE rSlot[i]]
    BY <1>2 DEF FackThreadTraverses, FackTraverse, Collect
  <2>2. rSlot \in [Index -> [cycle : Nat, data : Nat, acked : BOOLEAN]]
    BY TypeParts DEF RingsInv, ReceiverTypeOK
  <2> QED BY <1>1, <2>1, <2>2
<1>3. CASE ~FackThreadTraverses
  <2>1. rSlot' = rSlot
    BY <1>3 DEF Next, vars, UserSendsPacket, AdjustBandWidth, LosePacket, RecvData, Enqueue, RecvAck,
       FackThreadSends, FackScan, FackThreadRepeats, FackRepeat, UploadThread, UploadDataPacket,
       PacketAges, ConfirmationAges, receiverVars
  <2> QED BY <1>1, <2>1
<1> QED BY <1>2, <1>3

(* What is missing: a message from the moment AddItem takes it until       *)
(* NewDealSingleReceiveData puts its packet into the ring. In particular   *)
(* marking the slots of a gap as not received, and the slots collected,    *)
(* never makes the ring forget a packet that had arrived.                  *)
THEOREM ReceivedStaysReceived ==
  ASSUME MaxUnacked < N
  PROVE  Spec => [][\/ UserAddsItem /\ Missing' = Missing \cup {sTail}
                    \/ /\ UpdateThread /\ Acceptable(Head(rTemp))
                       /\ Head(rTemp).index \in Missing
                       /\ Missing' = Missing \ {Head(rTemp).index}
                    \/ Missing' = Missing]_vars
<1> DEFINE Step == \/ UserAddsItem /\ Missing' = Missing \cup {sTail}
                   \/ /\ UpdateThread /\ Acceptable(Head(rTemp))
                      /\ Head(rTemp).index \in Missing
                      /\ Missing' = Missing \ {Head(rTemp).index}
                   \/ Missing' = Missing
<1>1. (RingsInv => Missing = {i \in Index : rSlot[i].cycle + 1 = sSlot[i].cycle})'
  BY MissingByLap, PTL
<1>2. ASSUME RingsInv, RingsInv', [Next]_vars
      PROVE  Step
  <2>0. /\ SenderTypeOK /\ ReceiverTypeOK
        /\ Missing = {i \in Index : rSlot[i].cycle + 1 = sSlot[i].cycle}
        /\ Missing' = {i \in Index : rSlot'[i].cycle + 1 = sSlot'[i].cycle}
    BY <1>1, <1>2, MissingByLap, TypeParts DEF RingsInv
  <2>1. CASE UserAddsItem
    <3>1. /\ sSlot' = [sSlot EXCEPT ![sTail] = [cycle |-> sCycle, data |-> accepted + 1]]
          /\ rSlot' = rSlot
      BY <2>1 DEF UserAddsItem, AddItem, receiverVars
    <3>2. sTail \in Index /\ sCycle \in Nat /\ sSlot \in [Index -> [cycle : Nat, data : Nat]]
      BY <2>0 DEF SenderTypeOK
    <3>3. sSlot[sTail].cycle = sCycle - 1
      <4>1. SenderSlotOK(sTail) /\ ~(sTail < sTail)
        BY <1>2, <3>2 DEF RingsInv, SenderSlots, Index
      <4> QED BY <4>1 DEF SenderSlotOK
    <3>4. rSlot[sTail].cycle = sSlot[sTail].cycle
      <4>1. Off(rHead, sTail) = accepted - Collected /\ Off(rHead, sTail) \in Nat
        BY <1>2, <2>0, <3>2, Counters, OffTheorem DEF ReceiverTypeOK
      <4>2. ReceiverSlotOK(sTail) /\ ~(Off(rHead, sTail) < accepted - Collected)
        BY <1>2, <3>2, <4>1 DEF RingsInv, ReceiverSlots
      <4> QED BY <4>2 DEF ReceiverSlotOK
    <3>5. sSlot'[sTail].cycle = sCycle /\ \A i \in Index \ {sTail} : sSlot'[i] = sSlot[i]
      BY <3>1, <3>2
    <3>6. rSlot'[sTail].cycle + 1 = sSlot'[sTail].cycle
      BY <3>1, <3>2, <3>3, <3>4, <3>5
    <3>7. Missing' = Missing \cup {sTail}
      BY <2>0, <3>1, <3>2, <3>5, <3>6
    <3> QED BY <2>1, <3>7
  <2>2. CASE UpdateThread /\ Acceptable(Head(rTemp))
    <3> DEFINE p == Head(rTemp)
    <3>1. p \in PacketType /\ PacketOK(p)
      <4>1. rTemp # <<>> /\ rTemp \in Seq(PacketType) /\ \A k \in 1 .. Len(rTemp) : PacketOK(rTemp[k])
        BY <1>2, <2>2, TypeParts DEF UpdateThread, NewDealSingleReceiveData, RingsInv, NetworkTypeOK, PacketsOK
      <4>2. p \in PacketType /\ p = rTemp[1] /\ Len(rTemp) >= 1 /\ Len(rTemp) \in Nat
        BY <4>1, EmptySeq, HeadTailProperties
      <4> QED BY <4>1, <4>2
    <3>2. p.cycle = sSlot[p.index].cycle /\ p.index \in Index
      BY <1>2, <2>2, <3>1, AcceptedPacket DEF PacketType
    <3>3. /\ sSlot' = sSlot
          /\ rSlot' = [i \in Index |->
               IF i = p.index THEN [cycle |-> p.cycle, data |-> p.data, acked |-> TRUE]
               ELSE IF i \in Gap(p.index) THEN [rSlot[i] EXCEPT !.acked = FALSE]
               ELSE rSlot[i]]
      BY <2>2 DEF UpdateThread, NewDealSingleReceiveData, senderVars
    <3>4. p.cycle = rSlot[p.index].cycle + 1
      BY <2>2 DEF Acceptable
    <3> HIDE DEF p
    <3>5. rSlot \in [Index -> [cycle : Nat, data : Nat, acked : BOOLEAN]] /\ sSlot \in [Index -> [cycle : Nat, data : Nat]]
      BY <2>0 DEF ReceiverTypeOK, SenderTypeOK
    <3>6. rSlot'[p.index].cycle = sSlot[p.index].cycle /\ \A i \in Index \ {p.index} : rSlot'[i].cycle = rSlot[i].cycle
      BY <3>2, <3>3, <3>5
    <3>7. p.index \in Missing
      BY <2>0, <3>2, <3>4
    <3>8. Missing' = Missing \ {p.index}
      <4>1. sSlot[p.index].cycle \in Nat
        BY <3>2, <3>5
      <4>2. ~(rSlot'[p.index].cycle + 1 = sSlot'[p.index].cycle)
        BY <3>3, <3>6, <4>1
      <4> QED BY <2>0, <3>3, <3>6, <4>2
    <3> QED BY <2>2, <3>7, <3>8 DEF p
  <2>3. CASE UpdateThread /\ ~Acceptable(Head(rTemp))
    <3>1. rSlot' = rSlot /\ sSlot' = sSlot
      BY <2>3 DEF UpdateThread, NewDealSingleReceiveData, senderVars
    <3> QED BY <2>0, <3>1
  <2>4. CASE ~UserAddsItem /\ ~UpdateThread
    <3>1. sSlot' = sSlot /\ \A i \in Index : rSlot'[i].cycle = rSlot[i].cycle
      BY <1>2, <2>4, LapsStay
    <3>2. Missing' = Missing
      BY <2>0, <3>1
    <3> QED BY <3>2
  <2> QED BY <2>1, <2>2, <2>3, <2>4
<1> QED BY <1>2, RingsInvariance, PTL DEF Spec

(* No acknowledgement, however late, takes a confirmation back.            *)
THEOREM ConfirmationsStay ==
  ASSUME MaxUnacked < N
  PROVE  Spec => ConfirmedGrows
<1>1. ASSUME RingsInv, [Next]_vars
      PROVE  [Confirmed' >= Confirmed]_vars
  <2>1. [Window!Next]_(Window!vars)
    BY <1>1, CounterStep
  <2>2. Confirmed \in Nat /\ Collected \in Nat
    BY <1>1, Counters
  <2> QED BY <2>1, <2>2 DEF Window!Next, Window!vars, Window!Accept, Window!Collect,
                            Window!HandOver, Window!Confirm
<1> QED BY <1>1, RingsInvariance, PTL DEF Spec, ConfirmedGrows
=============================================================================
