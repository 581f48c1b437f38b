------------------------------- MODULE MRUDP -------------------------------
(***************************************************************************)
(* One direction of a reliable connection: the sending half of one         *)
(* End2EndReliableTransmission, the receiving half of its peer, and the    *)
(* network between them.  Data packets travel over UDP and may be lost,    *)
(* duplicated and reordered; acknowledgements may be lost and reordered.   *)
(* Steps are the critical sections of the threads: the user's, the work    *)
(* thread (DoCycle), the FACK, update and upload threads, and the clock.   *)
(***************************************************************************)
EXTENDS SendCircularDataQueue, RecvCircularDataQueue

CONSTANTS
  MaxMessages,  \* bound on the messages the user sends
  MaxUnacked,   \* the user calls only while fewer messages are unconfirmed
  MaxTemp,      \* bound on m_queue_data_temp, which the code does not bound
  MaxAcks       \* bound on the acknowledgements in flight

ASSUME BoundsAssumption ==
  /\ MaxMessages \in Nat /\ MaxUnacked \in Nat
  /\ MaxTemp \in Nat \ {0} /\ MaxAcks \in Nat \ {0}

VARIABLES
  toSend,  \* SendUserData between AddItem and SendByteData: the slot it will send
  net,     \* data packets in flight, m_undealData of the receiver included
  acks     \* acknowledgements in flight, by time stamp, m_mapTermToAck included

vars == <<senderVars, receiverVars, toSend, net, acks>>

NoSlot == N

Init == SenderInit /\ ReceiverInit /\ toSend = NoSlot /\ net = {} /\ acks = <<>>

-----------------------------------------------------------------------------
(* The user's thread.  SendUserData adds the message under the queue's     *)
(* lock and afterwards reads the slot back, without the lock, to send it.  *)
UserAddsItem ==
  /\ toSend = NoSlot
  /\ accepted < MaxMessages
  /\ sSize < MaxUnacked
  /\ AddItem
  /\ toSend' = sTail
  /\ UNCHANGED <<receiverVars, net, acks>>

UserSendsPacket ==
  /\ toSend # NoSlot
  /\ net' = net \cup {Packet(toSend)}
  /\ toSend' = NoSlot
  /\ UNCHANGED <<senderVars, receiverVars, acks>>

(* AdjustBandWidth, asked for by the user or by the peer's message.        *)
AdjustBandWidth ==
  /\ net' = net \cup {Packet(i) : i \in AllUnacked}
  /\ UNCHANGED <<senderVars, receiverVars, toSend, acks>>

-----------------------------------------------------------------------------
(* The network.                                                            *)
LosePacket(p) ==
  /\ p \in net
  /\ net' = net \ {p}
  /\ UNCHANGED <<senderVars, receiverVars, toSend, acks>>

(* DealDataWork gives a data packet to OnReceiveData; the copy that stays  *)
(* in flight is a duplicate.  Bounds: m_queue_data_temp holds MaxTemp      *)
(* packets and no packet twice, a second copy waits in the network.        *)
RecvData(p) ==
  /\ p \in net
  /\ Len(rTemp) < MaxTemp
  /\ \A k \in 1 .. Len(rTemp) : rTemp[k] # p
  /\ Enqueue(p)
  /\ net' \in {net, net \ {p}}
  /\ UNCHANGED <<senderVars, toSend, acks>>

\* The channel keeps the newest MaxAcks acknowledgements; the rest are lost.
Push(a) ==
  LET all == Append(acks, a)
  IN IF Len(all) > MaxAcks THEN Tail(all) ELSE all

\* Mutant: older acknowledgements are processed after a newer one.
AcksAfterNoFilter(k) == SubSeq(acks, 1, k-1) \o SubSeq(acks, k+1, Len(acks))

(* OnReceiveMessage processes an acknowledgement only if its time stamp is *)
(* newer than the last one's, so what was sent before the k-th is dropped. *)
AcksAfter(k) == SubSeq(acks, k+1, Len(acks))

RecvAck(k) ==
  /\ k \in 1 .. Len(acks)
  /\ OnRecvMessageFromRecvTerm(acks[k])
  /\ net' = net \cup {Packet(i) : i \in Resent(acks[k])}
  /\ acks' = AcksAfter(k)
  /\ UNCHANGED <<receiverVars, toSend>>

-----------------------------------------------------------------------------
(* The receiver's threads.                                                 *)
UpdateThread == NewDealSingleReceiveData /\ UNCHANGED <<senderVars, toSend, net, acks>>

FackThreadTraverses == FackTraverse /\ UNCHANGED <<senderVars, toSend, net, acks>>

FackThreadSends ==
  /\ FackScan
  /\ acks' = Push(rLastAck')
  /\ UNCHANGED <<senderVars, toSend, net>>

FackThreadRepeats ==
  /\ FackRepeat
  /\ acks' = Push(rLastAck)
  /\ UNCHANGED <<senderVars, toSend, net>>

UploadThread == UploadDataPacket /\ UNCHANGED <<senderVars, toSend, net, acks>>

-----------------------------------------------------------------------------
(* Time.                                                                   *)
PacketAges(i) == PacketBecomesDue(i) /\ UNCHANGED <<receiverVars, toSend, net, acks>>

ConfirmationAges == ConfirmationOverdue /\ UNCHANGED <<receiverVars, toSend, net, acks>>

-----------------------------------------------------------------------------
Next ==
  \/ UserAddsItem \/ UserSendsPacket \/ AdjustBandWidth
  \/ \E p \in net : LosePacket(p) \/ RecvData(p)
  \/ \E k \in 1 .. Len(acks) : RecvAck(k)
  \/ UpdateThread \/ FackThreadTraverses \/ FackThreadSends \/ FackThreadRepeats
  \/ UploadThread
  \/ \E i \in Index : PacketAges(i)
  \/ ConfirmationAges

Spec == Init /\ [][Next]_vars

LosePacketAt(i, lap) == \E p \in net : p.index = i /\ p.cycle = lap /\ LosePacket(p)

RecvDataAt(i, lap) == \E p \in net : p.index = i /\ p.cycle = lap /\ RecvData(p)

\* The laps that MaxMessages messages need.
Laps == 1 .. (MaxMessages - 1) \div N + 1

(* The threads run for ever and time passes: weak fairness.  The network   *)
(* loses no packet every time it is sent: strong fairness of reception.    *)
(* No copy stays in flight for ever: a packet is duplicated finitely often.*)
(* The commands that resend the whole window come to an end.               *)
Fairness ==
  /\ WF_vars(UserSendsPacket)
  /\ WF_vars(UpdateThread)
  /\ WF_vars(FackThreadTraverses) /\ WF_vars(FackThreadSends) /\ WF_vars(FackThreadRepeats)
  /\ WF_vars(UploadThread)
  /\ \A i \in Index : WF_vars(PacketAges(i))
  /\ WF_vars(ConfirmationAges)
  /\ <>[][~AdjustBandWidth]_vars
  /\ SF_vars(\E k \in 1 .. Len(acks) : RecvAck(k))
  /\ \A i \in Index, lap \in Laps : SF_vars(RecvDataAt(i, lap)) /\ WF_vars(LosePacketAt(i, lap))

LiveSpec == Spec /\ Fairness

-----------------------------------------------------------------------------
Collected == Len(delivered) + Len(rUpper)
Confirmed == accepted - sSize

\* The bytes of a packet; the blocks of an acknowledgement are left untyped.
PacketType == [index : Index, cycle : Nat, data : Nat]

IsAck(a) == a.index \in Index /\ a.cycle \in Nat

NetworkTypeOK ==
  /\ toSend \in Index \cup {NoSlot}
  /\ net \subseteq PacketType
  /\ rTemp \in Seq(PacketType)
  /\ acks \in Seq({acks[k] : k \in 1 .. Len(acks)})
  /\ \A k \in 1 .. Len(acks) : IsAck(acks[k])

(* The types of the variables of both ends and of the network.             *)
TypeOK == SenderTypeOK /\ ReceiverTypeOK /\ NetworkTypeOK

(* No loss: the sender drops a message from its window only after the      *)
(* receiving end has taken it out of its ring for the application.         *)
NothingLost == Confirmed <= Collected

(* Exactly once and in order: what the application and the upload deque    *)
(* hold is the prefix of what the user sent, each message once.            *)
InOrderOnce ==
  /\ Collected <= accepted
  /\ \A k \in 1 .. Len(delivered) : delivered[k] = k
  /\ \A k \in 1 .. Len(rUpper) : rUpper[k] = Len(delivered) + k

(* The two rings stay aligned: the receiver's ring begins inside the       *)
(* sender's window, at the first message not collected, and ends in it;    *)
(* head, tail and size of each ring agree, whatever gaps arrivals leave.   *)
RingsAligned ==
  /\ sTail = At(sHead, sSize)
  /\ rTail = At(rHead, rSize)
  /\ rHead = At(sHead, Collected - Confirmed)
  /\ Collected + rSize <= accepted

(* A retransmission, whatever acknowledgement in flight causes it, sends   *)
(* only packets of the window: SACK ranges do not run around the ring.     *)
ResendsOnlyUnconfirmed ==
  \A k \in 1 .. Len(acks) :
    \A i \in Resent(acks[k]) : Off(HeadAfter(acks[k]), i) < SizeAfter(acks[k])

(* The flow window never takes back a confirmation: the count of messages  *)
(* the sender has forgotten only grows, whatever stale acknowledgement     *)
(* arrives.                                                                *)
ConfirmedGrows == [][Confirmed' >= Confirmed]_vars

(* What MRUDP does is what the sliding window of numbered messages does.   *)
Window == INSTANCE SlidingWindow WITH
  Capacity  <- N,
  sent      <- accepted,
  confirmed <- Confirmed,
  collected <- Collected,
  handed    <- Len(delivered)

ImplementsWindow == Window!Spec

(* Every message is delivered: the user sends finitely many, and from some *)
(* moment on the application has been given all that the user's calls took.*)
EveryMessageDelivered == <>[](Len(delivered) = accepted)

(* The window empties: every message is also confirmed to the sender.      *)
EveryMessageConfirmed == <>[](Confirmed = accepted)
=============================================================================
