----------------------- MODULE RecvCircularDataQueue -----------------------
(***************************************************************************)
(* The receiver's window (CircularQueue_CPP/RecvCircularDataQueue.cpp) and *)
(* the three threads that work on it:                                      *)
(*   - the update thread moves packets from m_queue_data_temp to the ring; *)
(*   - the FACK thread collects the head of the ring, then, after          *)
(*     releasing MutexOfQueIndexPtr_, scans the rest for SACK blocks;      *)
(*   - the upload thread hands what was collected to the application.      *)
(***************************************************************************)
EXTENDS CircularIndex, Sequences, FiniteSets

CONSTANT SackMax  \* SACK_BLOCKS_MAX_NUM, two entries a block

ASSUME ReceiverAssumption == SackMax \in Nat \ {0} /\ SackMax % 2 = 0

VARIABLES
  rHead, rTail, rSize,  \* m_queue_head, m_queue_tail, m_queue_size
  rSlot,                \* m_queue_array: lap, payload and IsAcked of each slot
  rTemp,                \* m_queue_data_temp
  rUpper,               \* data_call_back_upper
  delivered,            \* history: the payloads given to the application
  rFack,                \* local variables of NewTraverseForceACK between its two halves
  rLastAck              \* m_force_ack_message_we_send_last_time

receiverVars == <<rHead, rTail, rSize, rSlot, rTemp, rUpper, delivered, rFack, rLastAck>>

ReceiverTypeOK ==
  /\ rHead \in Index /\ rTail \in Index /\ rSize \in 0 .. N
  /\ rSlot \in [Index -> [cycle : Nat, data : Nat, acked : BOOLEAN]]
  /\ rUpper \in Seq(Nat) /\ delivered \in Seq(Nat)
  /\ rFack.busy \in BOOLEAN

FackIdle == [busy |-> FALSE]

ReceiverInit ==
  /\ rHead = 0 /\ rTail = 0 /\ rSize = 0
  /\ rSlot = [i \in Index |-> [cycle |-> 0, data |-> 0, acked |-> FALSE]]
  /\ rTemp = <<>> /\ rUpper = <<>> /\ delivered = <<>>
  /\ rFack = FackIdle
  /\ rLastAck = [index |-> 0, cycle |-> 0, sack |-> <<>>]

InRecvWindow(i) == IsIndexInValid(rHead, rTail, rSize, i)

-----------------------------------------------------------------------------
(* OnRecvDataFromLowerLayers.                                              *)
Enqueue(p) ==
  /\ rTemp' = Append(rTemp, p)
  /\ UNCHANGED <<rHead, rTail, rSize, rSlot, rUpper, delivered, rFack, rLastAck>>

\* Mutant: a retransmission of the packet in the slot is accepted again.
AcceptableAgain(p) ==
  p.cycle \in {rSlot[p.index].cycle, rSlot[p.index].cycle + 1} /\ ~rSlot[p.index].acked

(* NewDealSingleReceiveData takes exactly the next lap of a free slot.     *)
Acceptable(p) == p.cycle = rSlot[p.index].cycle + 1 /\ ~rSlot[p.index].acked

(* The slots that become part of the ring when packet i arrives beyond     *)
(* its tail; all but i itself are marked as not received.                  *)
Gap(i) == IF InRecvWindow(i) THEN {} ELSE Span(rTail, i)

\* Mutant: a tail extended over a gap counts only the packet that arrived.
SizeAfterExtendByOne(i) == IF InRecvWindow(i) THEN rSize ELSE rSize + 1

SizeAfterExtend(i) == IF InRecvWindow(i) THEN rSize ELSE rSize + Off(rTail, i) + 1

NewDealSingleReceiveData ==
  /\ rTemp # <<>>
  /\ rTemp' = Tail(rTemp)
  /\ LET p == Head(rTemp) IN
     IF Acceptable(p)
       THEN /\ rSlot' = [i \in Index |->
                  IF i = p.index THEN [cycle |-> p.cycle, data |-> p.data, acked |-> TRUE]
                  ELSE IF i \in Gap(p.index) THEN [rSlot[i] EXCEPT !.acked = FALSE]
                  ELSE rSlot[i]]
            /\ rTail' = IF InRecvWindow(p.index) THEN rTail ELSE Succ(p.index)
            /\ rSize' = SizeAfterExtend(p.index)
       ELSE UNCHANGED <<rSlot, rTail, rSize>>
  /\ UNCHANGED <<rHead, rUpper, delivered, rFack, rLastAck>>

-----------------------------------------------------------------------------
(* NewTraverseForceACK, first half, under MutexOfQueIndexPtr_.  The loop   *)
(* collects n packets: it counts up while it counts tempQueSize down, so   *)
(* one call takes at most half of the ring, rounded up.                    *)

\* Mutant: the loop does not stop at a packet that is missing.
IsRunPastGap(n) ==
  /\ \A k \in 0 .. n-1 : 2*k < rSize
  /\ 2*n >= rSize

IsRun(n) ==
  /\ \A k \in 0 .. n-1 : 2*k < rSize /\ rSlot[At(rHead, k)].acked
  /\ 2*n >= rSize \/ ~rSlot[At(rHead, n)].acked

(* tail_packet.GetCycleIndex() - slot[head].GetCycleIndex() > 1 in         *)
(* unsigned arithmetic: also true when the difference is negative.         *)
LapTooFar(tail, head) == tail > head + 1 \/ tail < head

\* Mutant: the acknowledgement names the packet at the head, not the one before it.
AckedSlotAtHead(head) == head

AckedSlot(head) == Pred(head)

(* The cumulative part of the acknowledgement: the packet before the head. *)
(* A slot that never held a packet still has packet index 0.               *)
TailOf(slots, head) ==
  LET last == AckedSlot(head)
      lap  == slots[last].cycle
  IN [index |-> IF lap = 0 THEN 0 ELSE last,
      cycle |-> IF LapTooFar(lap, slots[head].cycle) THEN lap - 1 ELSE lap]

Collect(n) ==
  LET head == At(rHead, n)
  IN /\ rUpper' = rUpper \o [k \in 1 .. n |-> rSlot[At(rHead, k-1)].data]
     /\ rSlot' = [i \in Index |->
                    IF Off(rHead, i) < n THEN [rSlot[i] EXCEPT !.acked = FALSE]
                    ELSE rSlot[i]]
     /\ rHead' = head
     /\ rSize' = rSize - n
     /\ rFack' = [busy |-> TRUE, tail |-> rTail, size |-> rSize - n,
                  ack |-> TailOf(rSlot', head),
                  seen |-> {i \in Index : rSlot'[i].acked}]

FackTraverse ==
  /\ ~rFack.busy /\ rSize # 0
  /\ \E n \in 0 .. rSize : IsRun(n) /\ Collect(n)
  /\ UNCHANGED <<rTail, rTemp, delivered, rLastAck>>

-----------------------------------------------------------------------------
(* Second half, without the lock: the ring is read while the update thread *)
(* may add packets to it, so a slot received meanwhile is seen or not.     *)

\* The k-th of some slots, from head on around the ring.
InRingOrder(head, S, k) ==
  CHOOSE i \in S : Cardinality({j \in S : Off(head, j) < Off(head, i)}) = k - 1

\* The first of some slots from head on.
Nearest(head, S) == CHOOSE i \in S : \A j \in S : Off(head, i) <= Off(head, j)

Firsts(head, tail, seen) ==
  {i \in Span(head, tail) \cap seen : i = head \/ Pred(i) \notin seen}

Lasts(head, tail, seen) ==
  {i \in Span(head, tail) \cap seen : Succ(i) = tail \/ Succ(i) \notin seen}

\* The blocks of received packets between the head and tail, first and last
\* packet of each, in ring order and cut at SackMax entries.
SackBlocks(head, tail, seen) ==
  LET firsts   == Firsts(head, tail, seen)
      lasts    == Lasts(head, tail, seen)
      First(b) == InRingOrder(head, firsts, b)
      entries  == IF 2 * Cardinality(firsts) < SackMax THEN 2 * Cardinality(firsts) ELSE SackMax
  IN [k \in 1 .. entries |-> IF k % 2 = 1 THEN First((k+1) \div 2)
                             ELSE Nearest(First(k \div 2), lasts)]

SackAllowed == rFack.size > 0 /\ rFack.size # N

FinishedAck(seen) ==
  [index |-> rFack.ack.index, cycle |-> rFack.ack.cycle,
   sack  |-> IF SackAllowed THEN SackBlocks(rHead, rFack.tail, seen) ELSE <<>>]

FackScan ==
  /\ rFack.busy
  /\ \E late \in SUBSET {i \in Index : rSlot[i].acked /\ i \notin rFack.seen} :
        rLastAck' = FinishedAck(rFack.seen \cup late)
  /\ rFack' = FackIdle
  /\ UNCHANGED <<rHead, rTail, rSize, rSlot, rTemp, rUpper, delivered>>

(* An empty ring repeats the last acknowledgement with a new time stamp.   *)
FackRepeat ==
  /\ ~rFack.busy /\ rSize = 0
  /\ UNCHANGED receiverVars

-----------------------------------------------------------------------------
(* UploadDataPacket: one thread swaps the deque out and calls back in      *)
(* order.                                                                  *)
UploadDataPacket ==
  /\ rUpper # <<>>
  /\ delivered' = delivered \o rUpper
  /\ rUpper' = <<>>
  /\ UNCHANGED <<rHead, rTail, rSize, rSlot, rTemp, rFack, rLastAck>>
=============================================================================
