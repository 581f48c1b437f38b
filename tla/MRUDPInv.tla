------------------------------ MODULE MRUDPInv ------------------------------
(***************************************************************************)
(* The inductive invariant behind MRUDP's safety properties.  Only slots   *)
(* are compared, never absolute sequence numbers: what keeps the protocol  *)
(* safe is that a slot of the two rings is never more than one lap apart.  *)
(***************************************************************************)
EXTENDS MRUDP

\* How many places slot i is behind the sender's tail, from 1 to N.
Back(i) == IF i < sTail THEN sTail - i ELSE sTail + N - i

(* Slot i holds the lap and the number of the last message put there.      *)
SenderSlotOK(i) ==
  /\ sSlot[i].cycle = IF i < sTail THEN sCycle ELSE sCycle - 1
  /\ sSlot[i].cycle > 0 => sSlot[i].data + Back(i) = accepted + 1

SenderSlots ==
  /\ sCycle >= 1
  /\ sCycle = 1 => accepted = sTail
  /\ \A i \in Index : SenderSlotOK(i)

(* A message that is sent and not collected is in its slot of the          *)
(* receiver's ring, inside the ring, or the slot is exactly one lap behind.*)
(* All other slots hold what the sender's slot holds, already collected.   *)
ReceiverSlotOK(i) ==
  IF Off(rHead, i) < accepted - Collected
  THEN IF rSlot[i].acked
       THEN /\ rSlot[i].cycle = sSlot[i].cycle
            /\ rSlot[i].cycle > 0
            /\ rSlot[i].data = sSlot[i].data
            /\ Off(rHead, i) < rSize
       ELSE rSlot[i].cycle + 1 = sSlot[i].cycle
  ELSE ~rSlot[i].acked /\ rSlot[i].cycle = sSlot[i].cycle

ReceiverSlots == \A i \in Index : ReceiverSlotOK(i)

(* A packet in flight is the one the sender's slot holds or an older one.  *)
PacketOK(p) ==
  /\ p.cycle <= sSlot[p.index].cycle
  /\ p.cycle = sSlot[p.index].cycle => p.data = sSlot[p.index].data

PacketsOK ==
  /\ \A p \in net : PacketOK(p)
  /\ \A k \in 1 .. Len(rTemp) : PacketOK(rTemp[k])

(* An acknowledgement that would move the sender's head names a message    *)
(* that has been collected.                                                *)
AckOK(a) ==
  /\ IsAck(a)
  /\ a.cycle <= sSlot[a.index].cycle
  /\ a.cycle = sSlot[a.index].cycle /\ Off(sHead, a.index) < sSize
       => Off(sHead, a.index) < Collected - Confirmed

AcksOK ==
  /\ \A k \in 1 .. Len(acks) : AckOK(acks[k])
  /\ AckOK(rLastAck)
  /\ rFack.busy => AckOK(rFack.ack)

(* The user stays below the ring's capacity, so the ring is never full.    *)
WindowOK == sSize < N /\ sSize <= accepted

(* Everything about the two rings and what is in flight between them.      *)
RingsInv ==
  /\ TypeOK
  /\ WindowOK
  /\ NothingLost
  /\ InOrderOnce
  /\ RingsAligned
  /\ SenderSlots
  /\ ReceiverSlots
  /\ PacketsOK
  /\ AcksOK

(* The blocks of an acknowledgement lie in the sender's window, in the     *)
(* order of the ring, for as long as the acknowledgement may arrive.       *)
BlocksOK(a) ==
  /\ a.sack \in Seq(Index)
  /\ \A j \in 1 .. Len(a.sack) : Off(sHead, a.sack[j]) < sSize
  /\ \A j \in 1 .. Len(a.sack) - 1 : Off(sHead, a.sack[j]) <= Off(sHead, a.sack[j+1])

(* What a confirms lies before the blocks of b, which was sent with it or  *)
(* later: a moves the head of the window no further.                       *)
ConfirmsBefore(a, b) ==
  AckMatches(a) =>
    \A j \in 1 .. Len(b.sack) : Off(sHead, a.index) < Off(sHead, b.sack[j])

BlocksInv ==
  /\ rFack.busy => rFack.size \in 0 .. rSize /\ rFack.tail = At(rHead, rFack.size)
  /\ BlocksOK(rLastAck) /\ ConfirmsBefore(rLastAck, rLastAck)
  /\ \A k \in 1 .. Len(acks) :
       /\ BlocksOK(acks[k]) /\ ConfirmsBefore(acks[k], rLastAck)
       /\ \A l \in k .. Len(acks) : ConfirmsBefore(acks[k], acks[l])

(* The inductive invariant of MRUDP: every safety property of one          *)
(* direction follows from it.                                              *)
IInv == RingsInv /\ BlocksInv
=============================================================================
