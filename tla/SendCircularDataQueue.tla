----------------------- MODULE SendCircularDataQueue -----------------------
(***************************************************************************)
(* The sender's window of one End2EndReliableTransmission                  *)
(* (CircularQueue_CPP/SendCircularDataQueue.cpp).  Every operation runs    *)
(* under Mutex_, so each is one step.  What is sent is computed here as a  *)
(* set of slots; the module that composes the two ends puts the packets on *)
(* the network.                                                            *)
(***************************************************************************)
EXTENDS CircularIndex, Sequences, FiniteSets

CONSTANTS
  WindowMin,    \* WINDOWS_EXPECT_NUM_MIN, the first value of the flow window
  BurstSize,    \* the 800 of OnRecvMessageFromRecvTerm
  ScanLimit     \* m_d_scan_next_queue_head_for_retransfer

ASSUME SenderAssumption ==
  WindowMin \in Nat /\ BurstSize \in Nat /\ ScanLimit \in Nat

VARIABLES
  sHead, sTail, sSize,  \* m_queue_head, m_queue_tail, m_queue_size
  sCycle,               \* m_dCycleIndex, the lap the next packet belongs to
  sExpect,              \* m_queue_windows_expect_num
  sSlot,                \* m_queue_array and m_storage: what each slot holds
  sDue,                 \* slots whose last transmission is older than the threshold
  sStalled,             \* now - m_last_confirm_time has reached 400 ms
  accepted              \* history: how many messages AddItem has taken

senderVars == <<sHead, sTail, sSize, sCycle, sExpect, sSlot, sDue, sStalled, accepted>>

SenderTypeOK ==
  /\ sHead \in Index /\ sTail \in Index /\ sSize \in 0 .. N
  /\ sCycle \in Nat /\ sExpect \in Nat /\ accepted \in Nat
  /\ sSlot \in [Index -> [cycle : Nat, data : Nat]]
  /\ sDue \subseteq Index /\ sStalled \in BOOLEAN

(* Messages are numbered in the order in which AddItem takes them: the     *)
(* n-th has payload n.  Payload 0 is the empty store of a fresh slot.      *)
SenderInit ==
  /\ sHead = 0 /\ sTail = 0 /\ sSize = 0
  /\ sCycle = 1
  /\ sExpect = WindowMin
  /\ sSlot = [i \in Index |-> [cycle |-> 0, data |-> 0]]
  /\ sDue = {}
  /\ sStalled \in BOOLEAN
  /\ accepted = 0

InSendWindow(i) == IsIndexInValid(sHead, sTail, sSize, i)

\* The bytes m_storage keeps for slot i.
Packet(i) == [index |-> i, cycle |-> sSlot[i].cycle, data |-> sSlot[i].data]

-----------------------------------------------------------------------------
CanAdd == ~(sSize > sExpect \/ sSize = N)

\* Mutant: a new lap begins one slot early.
CycleAfterAddEarly == IF sTail = N-2 THEN sCycle + 1 ELSE sCycle

CycleAfterAdd == IF sTail = N-1 THEN sCycle + 1 ELSE sCycle

AddItem ==
  /\ CanAdd
  /\ sSlot' = [sSlot EXCEPT ![sTail] = [cycle |-> sCycle, data |-> accepted + 1]]
  /\ sDue' = sDue \ {sTail}
  /\ sCycle' = CycleAfterAdd
  /\ sTail' = Succ(sTail)
  /\ sSize' = sSize + 1
  /\ accepted' = accepted + 1
  /\ UNCHANGED <<sHead, sExpect, sStalled>>

-----------------------------------------------------------------------------
(* SetHeadIndex: an acknowledgement counts when the slot it names still    *)
(* holds that lap's packet and lies in the window.                         *)

\* Mutant: the lap of the acknowledged packet is not compared.
AckMatchesAnyCycle(a) == InSendWindow(a.index)

AckMatches(a) == sSlot[a.index].cycle = a.cycle /\ InSendWindow(a.index)

HeadAfter(a) == IF sSize # 0 /\ AckMatches(a) THEN Succ(a.index) ELSE sHead

\* Mutant: the number of packets left is not corrected when the tail has wrapped.
SizeAfterNoWrap(a) ==
  IF sSize = 0 \/ ~AckMatches(a) THEN sSize ELSE sTail - HeadAfter(a)

\* Mutant: a head that meets the tail is taken for a full ring.
SizeAfterFull(a) ==
  IF sSize = 0 \/ ~AckMatches(a) THEN sSize
  ELSE IF HeadAfter(a) = sTail THEN N ELSE (sTail + N - HeadAfter(a)) % N

SizeAfter(a) ==
  LET head == HeadAfter(a)
  IN IF sSize = 0 \/ ~AckMatches(a) THEN sSize
     ELSE IF head > sTail THEN sTail + N - head
     ELSE IF head < sTail THEN sTail - head
     ELSE 0

ExpectAfter(a) ==
  LET grown == sExpect + (sSize - SizeAfter(a))
  IN IF sSize = 0 \/ ~AckMatches(a) THEN sExpect
     ELSE IF grown > N THEN N ELSE grown

(* isWindowChannge: also true when there was nothing to acknowledge.       *)
WindowChanged(a) == sSize = 0 \/ AckMatches(a)

(* SendDataInSacks over the gaps that the blocks leave: from the head to   *)
(* the first block, and from each block's last packet to the next block.   *)
RequestedBySacks(a) ==
  {i \in sDue :
     \/ i \in Span(HeadAfter(a), a.sack[1])
     \/ \E j \in 2 .. Len(a.sack) - 1 :
          j % 2 = 0 /\ i \in Span(a.sack[j], a.sack[j+1])}

(* Retransfer_UnAcked_Packets_in_SendWindow: due packets from the head on, *)
(* at most ScanLimit + 1 of them; a full ring is scanned only when its     *)
(* head is due, because the scan starts where it ends.                     *)
TimedOut(a) ==
  LET head == HeadAfter(a)
      due  == {i \in sDue : Off(head, i) < SizeAfter(a)}
  IN IF SizeAfter(a) = N /\ head \notin sDue THEN {}
     ELSE {i \in due :
             Cardinality({j \in due : Off(head, j) <= Off(head, i)}) <= ScanLimit + 1}

\* Mutant: the time-out branch is lost, only SACK blocks cause retransmission.
ResentSacksOnly(a) == IF Len(a.sack) >= 2 THEN RequestedBySacks(a) ELSE {}

Resent(a) ==
  IF Len(a.sack) >= 2 THEN RequestedBySacks(a)
  ELSE IF SizeAfter(a) > BurstSize \/ (sStalled /\ ~WindowChanged(a)) THEN TimedOut(a)
  ELSE {}

OnRecvMessageFromRecvTerm(a) ==
  /\ sHead' = HeadAfter(a)
  /\ sSize' = SizeAfter(a)
  /\ sExpect' = ExpectAfter(a)
  /\ sStalled' = (sStalled /\ ~WindowChanged(a))
  /\ sDue' = sDue \ Resent(a)
  /\ UNCHANGED <<sTail, sCycle, sSlot, accepted>>

(* SendAllUnACKPackets: the whole window, whatever its age.                *)
AllUnacked == {i \in Index : InSendWindow(i)}

-----------------------------------------------------------------------------
(* The clock: GetTickCount passes a packet's threshold, or the 400 ms      *)
(* since the last confirmation.  Only slots of the window are aged.        *)
PacketBecomesDue(i) ==
  /\ InSendWindow(i) /\ i \notin sDue
  /\ sDue' = sDue \cup {i}
  /\ UNCHANGED <<sHead, sTail, sSize, sCycle, sExpect, sSlot, sStalled, accepted>>

ConfirmationOverdue ==
  /\ ~sStalled
  /\ sStalled' = TRUE
  /\ UNCHANGED <<sHead, sTail, sSize, sCycle, sExpect, sSlot, sDue, accepted>>
=============================================================================
