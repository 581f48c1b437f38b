------------------------------- MODULE RBUDP --------------------------------
(***************************************************************************)
(* RBUDP, the reliable transport of file transfers: the sender numbers its *)
(* packets from 0 and keeps each until a report of the receiver names it;  *)
(* the receiver hands over the run of packets it has and reports what came *)
(* since its last report.  A flow is one direction between two terminals;  *)
(* the flows of a terminal share queues in its RBUDPManager.               *)
(***************************************************************************)
EXTENDS Integers, Sequences, FiniteSets, Functions

CONSTANTS
  Flows,           \* pairs <<sending terminal, receiving terminal>>
  Writers,         \* the tasks that send on a flow
  Short,           \* numbers of the packets of at most 1300 bytes
  MaxPackets,      \* bound on the packets of a flow
  MaxCopies,       \* bound on the copies of one packet under way
  MaxLost          \* bound on the packets and reports lost

Packets == 0 .. MaxPackets - 1
Terminals == {f[1] : f \in Flows} \cup {f[2] : f \in Flows}
None == <<>>

ASSUME RBUDPAssumption ==
  /\ MaxPackets \in Nat \ {0} /\ Short \subseteq Packets
  /\ MaxCopies \in Nat /\ MaxCopies >= 2 /\ MaxLost \in Nat

VARIABLES
  sMap,       \* the sender's m_queue_map: the packets no report has named
  able,       \* its packets that may time out (b_abletoTimeout)
  asked,      \* timeout_control: a report came since the last check
  upTo,       \* rest_retransfer: the last single packet of a report
  stored,     \* the payloads in the sender's storage, packet 0 first
  addAble,    \* m_add_able: the last packet was taken by SpeedControl
  net,        \* copies of each packet in SpeedControl, the network and m_undealData
  rMap,       \* the receiver's m_queue_map: packets it has, handed over or not
  rSend,      \* its m_send_queue: packets to report
  rData,      \* its m_queue_data_tmp: packets whose bytes it has
  rHead,      \* its m_head_index (m_tail_index is the same between two passes)
  upper,      \* its data_callback_upper
  recvIndex,  \* m_RecvIndex of a terminal: the numbers it has seen
  nakQue,     \* m_Nak_que of a terminal: reports, with the flow they are of
  termNak,    \* m_mapTermNak of a terminal: the flows a report came for
  hasFind,    \* pSocket_hasFind of a terminal: the flow reports are given to
  crashed,    \* a terminal erased a range of a map that is none: the run ends
  told,       \* history: the payloads whose send has returned true
  handed,     \* history: the packets given to the application
  lost        \* packets and reports lost so far

sender == <<sMap, able, asked, upTo>>
writer == <<stored, addAble, told>>
wire == <<net, lost>>
receiver == <<rMap, rSend, rData, rHead, upper, handed>>
manager == <<recvIndex, nakQue, termNak, hasFind>>
vars == <<sender, writer, wire, receiver, manager, crashed>>

PerFlow(v) == [f \in Flows |-> v]
PerTerminal(v) == [t \in Terminals |-> v]
NoCopies == [i \in Packets |-> 0]

Init ==
  /\ sMap = PerFlow({}) /\ able = PerFlow({})
  /\ asked = PerFlow(FALSE) /\ upTo = PerFlow(0)
  /\ stored = PerFlow(<<>>) /\ addAble = PerFlow(TRUE) /\ told = PerFlow(<<>>)
  /\ net = PerFlow(NoCopies)
  /\ rMap = PerFlow({}) /\ rSend = PerFlow({}) /\ rData = PerFlow({})
  /\ rHead = PerFlow(0) /\ upper = PerFlow(<<>>) /\ handed = PerFlow(<<>>)
  /\ recvIndex = PerTerminal({}) /\ nakQue = PerTerminal(<<>>)
  /\ termNak = PerTerminal({}) /\ hasFind = PerTerminal(None)
  /\ crashed = FALSE /\ lost = 0

-----------------------------------------------------------------------------
(* The sender.                                                             *)

\* Mutant: a packet is added on every call, also when the last was refused.
AddsAlways(f) == TRUE

\* A packet is added when the last one was taken, else the last is sent again.
Adds(f) == addAble[f]

\* The next payload of a task: as many of its payloads as it was told of came before.
Payload(f, w) == <<w, Cardinality({k \in DOMAIN told[f] : told[f][k][1] = w})>>

CopiesOf(i) == IF i = 0 THEN 2 ELSE 1

(* SpeedControl feeds the number of a long packet back when it has sent    *)
(* it, and AddItemtoTimeout lets it time out; a packet that could not be   *)
(* sent is gone from SpeedControl's queue and nothing is fed back.         *)
FedBack(i, got) == IF got = 0 THEN {{}, {i} \ Short} ELSE {{i} \ Short}

(* DoSendData: of k copies some get through.  No order is kept of the      *)
(* packets on their way, as the network keeps none.                        *)
Carry(f, i, k) ==
  \E got \in 0 .. k :
    /\ lost + k - got <= MaxLost
    /\ lost' = lost + k - got
    /\ net' = [net EXCEPT ![f][i] = @ + got]
    /\ \E new \in FedBack(i, got) : able' = [able EXCEPT ![f] = @ \cup new]

(* SendUserData: the packet is numbered, kept and given to SpeedControl,   *)
(* packet 0 twice.  When that is refused (five tries) the task is told so  *)
(* and calls again.                                                        *)
SendUserData(f, w) ==
  /\ ~crashed
  /\ ~Adds(f) \/ Len(stored[f]) < MaxPackets
  /\ stored' = IF Adds(f) THEN [stored EXCEPT ![f] = Append(@, Payload(f, w))] ELSE stored
  /\ LET i == Len(stored'[f]) - 1
     IN /\ sMap' = IF Adds(f) THEN [sMap EXCEPT ![f] = @ \cup {i}] ELSE sMap
        /\ \/ /\ addAble' = [addAble EXCEPT ![f] = TRUE]
              /\ told' = [told EXCEPT ![f] = Append(@, Payload(f, w))]
              /\ Carry(f, i, CopiesOf(i))
           \/ /\ addAble' = [addAble EXCEPT ![f] = FALSE]
              /\ UNCHANGED <<told, wire, able>>
  /\ UNCHANGED <<asked, upTo, receiver, manager, crashed>>

\* Mutant: the check every 500 ms looks no further than that after a report.
WaitingUpTo(f) == {i \in sMap[f] \cap able[f] : i <= upTo[f] /\ net[f][i] < MaxCopies}

(* DealTimeOut: after a report the packets up to upTo are due, else, every *)
(* 500 ms, all that are not reported; a packet's own counter lets every    *)
(* eighth check through.                                                   *)
Waiting(f) ==
  {i \in sMap[f] \cap able[f] : (asked[f] => i <= upTo[f]) /\ net[f][i] < MaxCopies}

(* OnCheckTimeOut: what is due is sent again (SendDataInSacks looks it up  *)
(* under the lock of the map, so a report meanwhile is seen); some of it   *)
(* gets lost.                                                              *)
OnCheckTimeOut(f, due) ==
  /\ ~crashed
  /\ due # {} \/ asked[f]
  /\ asked' = [asked EXCEPT ![f] = FALSE]
  /\ UNCHANGED <<sMap, able, upTo, writer, receiver, manager, crashed>>
  /\ \E gone \in SUBSET due :
       /\ lost + Cardinality(gone) <= MaxLost
       /\ lost' = lost + Cardinality(gone)
       /\ net' = [net EXCEPT ![f] = [i \in Packets |->
                                       IF i \in due \ gone THEN @[i] + 1 ELSE @[i]]]

-----------------------------------------------------------------------------
(* The receiver.                                                           *)

\* Mutant: no number is remembered.
SeenNothing(t) == {}

\* m_RecvIndex has the numbers a terminal has seen, on whatever flow.
Seen(t) == recvIndex[t]

(* DoRecvDataOrMessageForRBUDP drops a number seen before; number 0 is not *)
(* remembered.  DealDataWork, AddIndex: a packet the map does not hold is  *)
(* put there, to be reported and handed over.                              *)
Receive(f, i) ==
  /\ ~crashed
  /\ net[f][i] > 0
  /\ net' = [net EXCEPT ![f][i] = @ - 1]
  /\ recvIndex' = [recvIndex EXCEPT ![f[2]] = @ \cup ({i} \ {0})]
  /\ IF i \in Seen(f[2]) \cup rMap[f] THEN UNCHANGED <<rMap, rSend, rData>>
     ELSE /\ rMap' = [rMap EXCEPT ![f] = @ \cup {i}]
          /\ rSend' = [rSend EXCEPT ![f] = @ \cup {i}]
          /\ rData' = [rData EXCEPT ![f] = @ \cup {i}]
  /\ UNCHANGED <<sender, writer, lost, rHead, upper, handed, nakQue, termNak, hasFind, crashed>>

\* Mutant: everything the map holds is handed over.
RunAll(f) == {i \in rMap[f] : i >= rHead[f]}

(* The packets from m_head_index on that the map holds without a gap.      *)
Run(f) == {i \in rMap[f] : rHead[f] <= i /\ rHead[f] .. i \subseteq rMap[f]}

InOrder(S) == [k \in 1 .. Cardinality(S) |-> CHOOSE i \in S : Cardinality({j \in S : j < i}) = k - 1]

(* The range TraverseNAK erases ends at m_head_index - 1 and starts at     *)
(* find(m_tail_index), which is the end of the map when nothing was handed *)
(* over: a second packet 0 and a gap after it make it run off the map.     *)
RunsOffTheMap(f) ==
  Run(f) = {} /\ rHead[f] - 1 \in rMap[f] /\ \E i \in rMap[f] : i > rHead[f]

(* SendNAK, TraverseNAK_WithoutSeg: the run goes to the upper queue, what  *)
(* came since the last report is reported; a report of nothing does not    *)
(* decode.  The report is forgotten, also when it could not be sent.       *)
SendNAK(f) ==
  /\ ~crashed
  /\ rMap[f] # {}
  /\ IF RunsOffTheMap(f)
     THEN crashed' = TRUE /\ UNCHANGED <<receiver, lost, manager>>
     ELSE /\ upper' = [upper EXCEPT ![f] = @ \o InOrder(Run(f))]
          /\ rData' = [rData EXCEPT ![f] = @ \ Run(f)]
          /\ rHead' = [rHead EXCEPT ![f] = @ + Cardinality(Run(f))]
          /\ rMap' = [rMap EXCEPT ![f] = @ \ Run(f)]
          /\ rSend' = [rSend EXCEPT ![f] = {}]
          /\ \/ /\ rSend[f] # {}
                /\ nakQue' = [nakQue EXCEPT ![f[1]] = Append(@, [flow |-> f, named |-> rSend[f]])]
                /\ termNak' = [termNak EXCEPT ![f[1]] = @ \cup {f}]
                /\ lost' = lost
             \/ /\ rSend[f] # {} /\ lost < MaxLost
                /\ lost' = lost + 1
                /\ UNCHANGED <<nakQue, termNak>>
             \/ /\ rSend[f] = {}
                /\ UNCHANGED <<nakQue, termNak, lost>>
          /\ UNCHANGED <<handed, recvIndex, hasFind, crashed>>
  /\ UNCHANGED <<sender, writer, net>>

(* UploadDataPacket gives the application all of the upper queue.          *)
Upload(f) ==
  /\ ~crashed
  /\ upper[f] # <<>>
  /\ handed' = [handed EXCEPT ![f] = @ \o upper[f]]
  /\ upper' = [upper EXCEPT ![f] = <<>>]
  /\ UNCHANGED <<sender, writer, wire, rMap, rSend, rData, rHead, manager, crashed>>

-----------------------------------------------------------------------------
(* The reports at the sender.                                              *)

(* DealMessageWork: the entity of a terminal a report came from becomes    *)
(* the one reports are given to, the last in the map's order.              *)
DealMessageWork(t) ==
  /\ ~crashed
  /\ termNak[t] # {}
  /\ hasFind' \in {[hasFind EXCEPT ![t] = f] : f \in termNak[t]}
  /\ termNak' = [termNak EXCEPT ![t] = {}]
  /\ UNCHANGED <<sender, writer, wire, receiver, recvIndex, nakQue, crashed>>

(* A report is a list of single numbers and of ranges [first, last], the   *)
(* maximal runs of the numbers it names.                                   *)
Ranges(S) ==
  {r \in S \X S : r[1] <= r[2] /\ r[1] .. r[2] \subseteq S /\ r[1] - 1 \notin S /\ r[2] + 1 \notin S}

Singles(S) == {i \in S : <<i, i>> \in Ranges(S)}

(* DeleteIndexInMap erases [find(first), find(last)): to the end of the    *)
(* map when last is not in it, nothing when neither is, and off the map    *)
(* when only last is.                                                      *)
Open(M, S) == {r \in Ranges(S) : r[1] < r[2] /\ r[1] \in M /\ r[2] \notin M}
Backward(M, S) ==
  {r \in Ranges(S) : r[1] \notin M /\ r[2] \in M /\ \A o \in Open(M, S) : r[1] < o[1]}

\* Mutant: the last number of a range is taken for one before the range.
KeptOffByOne(M, S) == {i \in M : \A r \in Ranges(S) : i \notin r[1] .. r[2] + 1}

Kept(M, S) ==
  {i \in M : /\ \A o \in Open(M, S) : i < o[1]
             /\ \A r \in Ranges(S) : {r[1], r[2]} \subseteq M => i \notin r[1] .. r[2]}

\* Mutant: one more than the last single number.
AfterLastSingle(S) ==
  IF Singles(S) = {} THEN 0 ELSE 1 + CHOOSE i \in Singles(S) : \A j \in Singles(S) : j <= i

LastSingle(S) ==
  IF Singles(S) = {} THEN 0 ELSE CHOOSE i \in Singles(S) : \A j \in Singles(S) : j <= i

(* DealNak: the first report is given to the entity found last, whichever  *)
(* terminal it is of.                                                      *)
DealNak(t) ==
  /\ ~crashed
  /\ nakQue[t] # <<>> /\ hasFind[t] # None
  /\ LET f == hasFind[t]
         S == Head(nakQue[t]).named
     IN IF Backward(sMap[f], S) # {}
        THEN crashed' = TRUE /\ UNCHANGED <<sender, nakQue>>
        ELSE /\ sMap' = [sMap EXCEPT ![f] = Kept(@, S)]
             /\ upTo' = [upTo EXCEPT ![f] = IF LastSingle(S) > @ THEN LastSingle(S) ELSE @]
             /\ asked' = [asked EXCEPT ![f] = TRUE]
             /\ nakQue' = [nakQue EXCEPT ![t] = Tail(@)]
             /\ UNCHANGED <<able, crashed>>
  /\ UNCHANGED <<writer, wire, receiver, recvIndex, termNak, hasFind>>

-----------------------------------------------------------------------------
Next ==
  \/ \E f \in Flows :
       \/ \E w \in Writers : SendUserData(f, w)
       \/ \E due \in SUBSET Waiting(f) : OnCheckTimeOut(f, due)
       \/ \E i \in Packets : Receive(f, i)
       \/ SendNAK(f) \/ Upload(f)
  \/ \E t \in Terminals : DealMessageWork(t) \/ DealNak(t)

Spec == Init /\ [][Next]_vars

Checked(f, i) ==
  i \in Waiting(f) /\ \E due \in SUBSET Waiting(f) : i \in due /\ OnCheckTimeOut(f, due)

(* The threads of RBUDP and SpeedControl run, the network delivers what it *)
(* does not lose, and a packet's counter lets it through time and again.   *)
LiveSpec ==
  /\ Spec
  /\ \A f \in Flows :
       /\ WF_vars(SendNAK(f)) /\ WF_vars(Upload(f)) /\ WF_vars(OnCheckTimeOut(f, {}))
       /\ \A i \in Packets :
            WF_vars(Receive(f, i)) /\ SF_vars(Checked(f, i))
  /\ \A t \in {f[1] : f \in Flows} : WF_vars(DealMessageWork(t)) /\ WF_vars(DealNak(t))

-----------------------------------------------------------------------------
TypeOK ==
  /\ sMap \in [Flows -> SUBSET Packets] /\ able \in [Flows -> SUBSET Packets]
  /\ rMap \in [Flows -> SUBSET Packets] /\ rSend \in [Flows -> SUBSET Packets]
  /\ rData \in [Flows -> SUBSET Packets]
  /\ net \in [Flows -> [Packets -> 0 .. MaxCopies]]
  /\ asked \in [Flows -> BOOLEAN] /\ addAble \in [Flows -> BOOLEAN]
  /\ upTo \in [Flows -> Packets] /\ rHead \in [Flows -> 0 .. MaxPackets]
  /\ recvIndex \in [Terminals -> SUBSET (Packets \ {0})]
  /\ termNak \in [Terminals -> SUBSET Flows]
  /\ hasFind \in [Terminals -> Flows \cup {None}]
  /\ nakQue \in [Terminals -> Seq([flow : Flows, named : SUBSET Packets])]
  /\ stored \in [Flows -> Seq(Writers \X Nat)] /\ told \in [Flows -> Seq(Writers \X Nat)]
  /\ upper \in [Flows -> Seq(Packets)] /\ handed \in [Flows -> Seq(Packets)]
  /\ lost \in 0 .. MaxLost /\ crashed \in BOOLEAN

SentBy(f) == 0 .. Len(stored[f]) - 1

(* The packets are handed over in the order of their numbers, each once,   *)
(* packet 0 too, which is sent twice and not filtered; and the bytes of    *)
(* each packet that is still to be handed over are there (TraverseNAK      *)
(* looks them up without a test).                                          *)
InOrderOnce ==
  \A f \in Flows :
    /\ handed[f] \o upper[f] = [k \in 1 .. rHead[f] |-> k - 1]
    /\ \A i \in rMap[f] : i >= rHead[f] => i \in rData[f]

(* The sender keeps a packet until the receiving entity has it: no         *)
(* acknowledged range takes a packet with it that did not arrive.          *)
NothingLost ==
  \A f \in Flows : \A i \in SentBy(f) \ sMap[f] : i < rHead[f] \/ i \in rMap[f]

(* What the proofs of the properties above rest on.  Of a terminal that    *)
(* sends to one and receives from one, a number but 0 is reported once:    *)
(* until its report is handled the sender keeps it, so a reported range is *)
(* whole.                                                                  *)
OneToOne == \A f, g \in Flows : f[1] = g[1] \/ f[2] = g[2] => f = g

Got(f) == 0 .. rHead[f] - 1 \cup rMap[f]

SenderInv ==
  \A f \in Flows :
    /\ Len(stored[f]) <= MaxPackets
    /\ addAble[f] => Len(stored[f]) = Len(told[f])
    /\ ~addAble[f] => Len(stored[f]) = Len(told[f]) + 1
    /\ sMap[f] \subseteq SentBy(f)
    /\ \A i \in Packets : net[f][i] > 0 \/ i \in able[f] => i < Len(told[f])

ReceiverInv ==
  \A f \in Flows :
    /\ rMap[f] \subseteq SentBy(f) /\ rHead[f] <= Len(stored[f])
    /\ rSend[f] \subseteq Got(f) /\ rSend[f] \ {0} \subseteq sMap[f]
    /\ Got(f) \ {0} \subseteq recvIndex[f[2]]

ReportOK(t, k) ==
  LET r == nakQue[t][k]
  IN  /\ r.flow[1] = t
      /\ r.named \subseteq Got(r.flow)
      /\ r.named \ {0} \subseteq sMap[r.flow] \ rSend[r.flow]
      /\ \A l \in DOMAIN nakQue[t] : l # k => r.named \cap nakQue[t][l].named \subseteq {0}

ReportsInv ==
  \A t \in Terminals :
    /\ \A f \in termNak[t] : f[1] = t
    /\ hasFind[t] # None => hasFind[t][1] = t
    /\ \A k \in DOMAIN nakQue[t] : ReportOK(t, k)

RBUDPInv == TypeOK /\ SenderInv /\ ReceiverInv /\ ReportsInv /\ NothingLost /\ InOrderOnce

(* Each payload a task was told is sent is one packet, in the order they   *)
(* were told (m_add_able sends the packet that was refused, not the one it *)
(* is given).                                                              *)
ToldIsStored ==
  \A f \in Flows :
    told[f] = SubSeq(stored[f], 1, Len(told[f])) /\ Len(stored[f]) - Len(told[f]) <= 1

(* RBUDP does for its user what MRUDP does: the packets come out in order  *)
(* and a confirmed one has arrived (SlidingWindow).                        *)
Least(S) == CHOOSE i \in S : \A j \in S : i <= j
TheFlow == CHOOSE f \in Flows : TRUE
Window == INSTANCE SlidingWindow WITH
  Capacity <- MaxPackets + 1,
  sent <- Len(stored[TheFlow]),
  confirmed <- Least(sMap[TheFlow] \cup {Len(stored[TheFlow])}),
  collected <- rHead[TheFlow] + Cardinality(Run(TheFlow)),
  handed <- Len(handed[TheFlow])

ImplementsWindow == Window!Spec

(* A packet that was sent is handed over.                                  *)
EveryPacketHandedOver ==
  \A f \in Flows : \A i \in Packets :
    i \in SentBy(f) ~> i < Len(handed[f]) \/ crashed

(* A packet is handed over when it and those before it left SpeedControl   *)
(* at least once, whatever the network and the link of the reports lose,   *)
(* unless one of the two ends erased a range that is none.                 *)
EveryTransmittedHandedOver ==
  []<>(\/ crashed
       \/ \A f \in Flows : \A i \in Packets : 0 .. i \subseteq able[f] => i < Len(handed[f]))
=============================================================================
