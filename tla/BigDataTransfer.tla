-------------------------- MODULE BigDataTransfer --------------------------
(***************************************************************************)
(* The file transfers of BigDataTransfer: a sending task cuts its file     *)
(* into numbered packets for MRUDP, the receiving task writes them and     *)
(* answers with a verdict, and a terminal that sends files takes none.     *)
(* Each terminal has three threads: the user creates and cancels tasks,    *)
(* the work thread gives every task its turn, and the upload thread of     *)
(* MRUDP dispatches what arrives.                                          *)
(***************************************************************************)
EXTENDS Integers, Sequences, FiniteSets

CONSTANTS
  Tasks,         \* the file transfers, by their task id
  Src, Dst,      \* the sending and the receiving terminal of each
  Packets,       \* the number of packets of each file
  ReadAtOnce,    \* SINGLE_READ_PACKET_NUMBER
  MaxBuffer,     \* MAX_BUFFER_NUM
  MaxTasks,      \* a task is refused when there are more than this many
  MaxMishaps     \* bound on files that fail and connections of MRUDP lost, together

Terminals == {Src[k] : k \in Tasks} \cup {Dst[k] : k \in Tasks}
Links == {<<Src[k], Dst[k]>> : k \in Tasks} \cup {<<Dst[k], Src[k]>> : k \in Tasks}
None == 0   \* invalid_task_id

ASSUME BigDataTransferAssumption ==
  /\ Packets \in [Tasks -> Nat]
  /\ \A k \in Tasks : Src[k] # Dst[k]
  /\ Tasks \subseteq Nat \ {None}
  /\ ReadAtOnce \in Nat \ {0} /\ MaxBuffer \in Nat /\ MaxTasks \in Nat
  /\ MaxMishaps \in Nat

VARIABLES
  creating,   \* the task a terminal's user is creating, the check passed, or None
  sending,    \* m_send_task_map of each terminal
  sState,     \* m_file_state of each sending task
  read,       \* packets of the file put into m_buffer_queue so far
  readAll,    \* m_b_is_file_read_all
  sent,       \* packets MRUDP has taken from m_buffer_queue
  told,       \* the outcomes the user of the sending task was told
  stuck,      \* the task whose lock a terminal's work thread has taken twice, or None
  receiving,  \* m_recv_task_map of each terminal
  rState,     \* m_file_state of each receiving task
  queue,      \* m_p_recv_data_queue
  written,    \* the packets in the received file
  ignored,    \* history: tasks whose first packet was thrown away
  wire,       \* what MRUDP carries from one terminal to another
  faults,     \* files that could not be opened, read or written so far
  breaks      \* connections of MRUDP lost so far

sender == <<creating, sending, sState, read, readAll, sent, told, stuck>>
receiver == <<receiving, rState, queue, written, ignored>>
vars == <<sender, receiver, wire, faults, breaks>>

Init ==
  /\ creating = [t \in Terminals |-> None]
  /\ sending = [t \in Terminals |-> {}] /\ receiving = [t \in Terminals |-> {}]
  /\ sState = [k \in Tasks |-> "none"] /\ rState = [k \in Tasks |-> "none"]
  /\ read = [k \in Tasks |-> 0] /\ readAll = [k \in Tasks |-> FALSE]
  /\ sent = [k \in Tasks |-> 0] /\ told = [k \in Tasks |-> <<>>]
  /\ stuck = [t \in Terminals |-> None]
  /\ queue = [k \in Tasks |-> <<>>] /\ written = [k \in Tasks |-> <<>>]
  /\ ignored = {}
  /\ wire = [e \in Links |-> <<>>]
  /\ faults = 0 /\ breaks = 0

Fault == faults + breaks < MaxMishaps /\ faults' = faults + 1
NoFault == faults' = faults

-----------------------------------------------------------------------------
(* The user of the sending terminal.                                       *)

(* Create_BigDataTransferTask: no task is created while files are being    *)
(* received; the lock of the two maps is given back after this test.       *)
CreateChecks(k) ==
  /\ sState[k] = "none" /\ creating[Src[k]] = None
  /\ receiving[Src[k]] = {}
  /\ creating' = [creating EXCEPT ![Src[k]] = k]
  /\ UNCHANGED <<sending, sState, read, readAll, sent, told, stuck, receiver, wire, faults, breaks>>

(* The task is made and put into the map, if there are not too many.  A    *)
(* file that cannot be opened makes a failed task.                         *)
CreateInserts(k) ==
  /\ creating[Src[k]] = k
  /\ creating' = [creating EXCEPT ![Src[k]] = None]
  /\ IF Cardinality(sending[Src[k]]) <= MaxTasks
     THEN /\ sending' = [sending EXCEPT ![Src[k]] = @ \cup {k}]
          /\ \/ sState' = [sState EXCEPT ![k] = "ing"] /\ NoFault
             \/ sState' = [sState EXCEPT ![k] = "fail"] /\ Fault
     ELSE sState' = [sState EXCEPT ![k] = "refused"] /\ UNCHANGED <<sending, faults>>
  /\ UNCHANGED <<read, readAll, sent, told, stuck, receiver, wire, breaks>>

Outcome(k, state) ==
  /\ sState' = [sState EXCEPT ![k] = state]
  /\ told' = [told EXCEPT ![k] = Append(@, state)]

(* SetFileSendTaskCancel: the task is cancelled in every state; the other  *)
(* end is not told.                                                        *)
Cancel(k) ==
  /\ k \in sending[Src[k]] /\ stuck[Src[k]] # k
  /\ sState[k] # "cancel"
  /\ Outcome(k, "cancel")
  /\ UNCHANGED <<creating, sending, read, readAll, sent, stuck, receiver, wire, faults, breaks>>

-----------------------------------------------------------------------------
(* The work thread and a sending task: FileTransferSendTask.               *)
Runs(t) == stuck[t] = None

(* A task that has ended is taken out of the map.                          *)
SendTaskEnds(k) ==
  /\ k \in sending[Src[k]] /\ Runs(Src[k])
  /\ sState[k] \in {"success", "fail", "cancel"}
  /\ sending' = [sending EXCEPT ![Src[k]] = @ \ {k}]
  /\ UNCHANGED <<creating, sState, read, readAll, sent, told, stuck, receiver, wire, faults, breaks>>

Reads(k) == read[k] - sent[k] <= MaxBuffer /\ ~readAll[k]

\* Mutant: the end of the file is not looked for.
ReadToPastEnd(k) == IF Reads(k) THEN read[k] + ReadAtOnce ELSE read[k]

(* The packets put into m_buffer_queue up to and with the next read.       *)
ReadTo(k) ==
  IF ~Reads(k) THEN read[k]
  ELSE IF read[k] + ReadAtOnce > Packets[k] THEN Packets[k] ELSE read[k] + ReadAtOnce

Data(k, i) == [kind |-> "data", task |-> k, num |-> i]

(* SendData: MRUDP takes the first n packets of the queue and refuses the  *)
(* next, or the queue is empty then.                                       *)
SendData(k, n) ==
  /\ n \in 0 .. ReadTo(k) - sent[k]
  /\ sent' = [sent EXCEPT ![k] = @ + n]
  /\ wire' = [wire EXCEPT ![<<Src[k], Dst[k]>>] = @ \o [i \in 1 .. n |-> Data(k, sent[k] + i)]]

(* DoTask: the next packets are read and sent.  A read does not meet the   *)
(* end of the file when it takes just the rest.                            *)
SendTaskRuns(k, n) ==
  /\ k \in sending[Src[k]] /\ Runs(Src[k])
  /\ sState[k] = "ing"
  /\ read' = [read EXCEPT ![k] = ReadTo(k)]
  /\ readAll' = [readAll EXCEPT ![k] = @ \/ (Reads(k) /\ read[k] + ReadAtOnce > Packets[k])]
  /\ SendData(k, n)
  /\ UNCHANGED <<creating, sending, sState, told, receiver, faults, breaks>>

(* When a packet was refused for TRANSFER_SUCCESS_TIME_MAX the task is to  *)
(* fail: DoRecvFileSendFailed takes the lock DoTask holds, and the thread  *)
(* waits for itself.                                                       *)
SendTaskGivesUp(k, n) ==
  /\ SendTaskRuns(k, n)
  /\ n < ReadTo(k) - sent[k]
  /\ stuck' = [stuck EXCEPT ![Src[k]] = k]

SendTaskGoesOn(k, n) == SendTaskRuns(k, n) /\ stuck' = stuck

(* The file cannot be read.                                                *)
SendTaskFails(k) ==
  /\ k \in sending[Src[k]] /\ Runs(Src[k])
  /\ sState[k] = "ing" /\ Reads(k)
  /\ Outcome(k, "fail") /\ Fault
  /\ sending' = [sending EXCEPT ![Src[k]] = @ \ {k}]
  /\ UNCHANGED <<creating, read, readAll, sent, stuck, receiver, wire, breaks>>

-----------------------------------------------------------------------------
(* The work thread and a receiving task: FileTransferRecvTask.             *)
Verdict(k, kind) ==
  wire' = [wire EXCEPT ![<<Dst[k], Src[k]>>] = Append(@, [kind |-> kind, task |-> k, num |-> 0])]

Erased(k) == receiving' = [receiving EXCEPT ![Dst[k]] = @ \ {k}]

\* Mutant: the task is over also when its verdict could not be sent.
AlwaysErased(k) == Erased(k)

(* A verdict MRUDP does not take is sent again on the task's next turn.    *)
NotSent(k) == UNCHANGED receiving

(* SendFileRecvSuccess, SendFileRecvFailed.                                *)
Answers(k, kind) ==
  \/ Verdict(k, kind) /\ Erased(k)
  \/ NotSent(k) /\ wire' = wire

Fails(k) ==
  /\ rState' = [rState EXCEPT ![k] = "failed"]
  /\ queue' = [queue EXCEPT ![k] = <<>>]
  /\ Answers(k, "failed")

Turn(k) == k \in receiving[Dst[k]] /\ Runs(Dst[k])

\* Mutant: a packet that skips some is taken too.
ExpectedOrLater(k, i) == queue[k][i] >= Len(written[k]) + i

(* m_file_packet_has_transfered has reached the number of the packet.      *)
Expected(k, i) == queue[k][i] = Len(written[k]) + i
Unexpected(k) == {i \in DOMAIN queue[k] : ~Expected(k, i)}

\* Mutant: the last packet is not waited for.
CompleteEarly(k, n) == n >= Packets[k] - 1

Complete(k, n) == n = Packets[k]

(* DoTask writes what is in the queue; the file is received when it has    *)
(* all packets.  The verdict follows on the next turn.                     *)
RecvTaskWrites(k) ==
  /\ Turn(k) /\ rState[k] = "ing"
  /\ queue[k] # <<>> /\ Unexpected(k) = {}
  /\ written' = [written EXCEPT ![k] = @ \o queue[k]]
  /\ IF Complete(k, Len(written'[k]))
     THEN /\ rState' = [rState EXCEPT ![k] = "success"]
          /\ queue' = [queue EXCEPT ![k] = <<>>]
          /\ UNCHANGED <<receiving, wire>>
     ELSE IF Len(written'[k]) > Packets[k]
     THEN Fails(k)
     ELSE /\ queue' = [queue EXCEPT ![k] = <<>>]
          /\ UNCHANGED <<rState, receiving, wire>>
  /\ UNCHANGED <<sender, ignored, faults, breaks>>

(* A packet out of order ends the task, when it has been written.          *)
RecvTaskMisses(k) ==
  /\ Turn(k) /\ rState[k] = "ing"
  /\ \E i \in Unexpected(k) :
       /\ \A j \in Unexpected(k) : i <= j
       /\ written' = [written EXCEPT ![k] = @ \o SubSeq(queue[k], 1, i)]
  /\ Fails(k)
  /\ UNCHANGED <<sender, ignored, faults, breaks>>

(* The file cannot be written any more, from packet i of the queue on.     *)
RecvTaskCannotWrite(k) ==
  /\ Turn(k) /\ rState[k] = "ing"
  /\ \E i \in DOMAIN queue[k] :
       /\ \A j \in Unexpected(k) : i <= j
       /\ written' = [written EXCEPT ![k] = @ \o SubSeq(queue[k], 1, i - 1)]
  /\ Fails(k) /\ Fault
  /\ UNCHANGED <<sender, ignored, breaks>>

\* Mutant: a task that has written something waits for ever.
OverdueAtFirst(k) == queue[k] = <<>> /\ written[k] = <<>>

(* Nothing came for TRANSFER_SUCCESS_TIME_MAX.                             *)
Overdue(k) == queue[k] = <<>>

RecvTaskTimesOut(k) ==
  /\ Turn(k) /\ rState[k] = "ing"
  /\ Overdue(k)
  /\ Fails(k)
  /\ UNCHANGED <<sender, written, ignored, faults, breaks>>

(* A task that has ended gives its verdict.                                *)
RecvTaskAnswers(k) ==
  /\ Turn(k) /\ rState[k] \in {"success", "failed"}
  /\ Answers(k, rState[k])
  /\ UNCHANGED <<sender, rState, queue, written, ignored, faults, breaks>>

-----------------------------------------------------------------------------
(* The upload thread of MRUDP: OnRecvMRUDPData.                            *)
Arrives(e, m) == wire[e] # <<>> /\ Head(wire[e]) = m /\ wire' = [wire EXCEPT ![e] = Tail(@)]

(* DispatchFileTransferData: a terminal that sends files throws the data   *)
(* away; else it is given to its task, which packet 1 makes.  A file that  *)
(* cannot be opened makes a failed task.                                   *)
DispatchData(k, i) ==
  /\ Arrives(<<Src[k], Dst[k]>>, Data(k, i))
  /\ \/ /\ sending[Dst[k]] # {}
        /\ ignored' = IF i = 1 THEN ignored \cup {k} ELSE ignored
        /\ NoFault /\ UNCHANGED <<receiving, rState, queue, written>>
     \/ /\ sending[Dst[k]] = {} /\ k \in receiving[Dst[k]]
        /\ queue' = IF rState[k] = "ing" THEN [queue EXCEPT ![k] = Append(@, i)] ELSE queue
        /\ NoFault /\ UNCHANGED <<receiving, rState, written, ignored>>
     \/ /\ sending[Dst[k]] = {} /\ k \notin receiving[Dst[k]] /\ i = 1
        /\ receiving' = [receiving EXCEPT ![Dst[k]] = @ \cup {k}]
        /\ written' = [written EXCEPT ![k] = <<>>]
        /\ \/ /\ rState' = [rState EXCEPT ![k] = "ing"]
              /\ queue' = [queue EXCEPT ![k] = <<i>>]
              /\ NoFault
           \/ /\ rState' = [rState EXCEPT ![k] = "failed"]
              /\ UNCHANGED queue
              /\ Fault
        /\ UNCHANGED ignored
     \/ /\ sending[Dst[k]] = {} /\ k \notin receiving[Dst[k]] /\ i # 1
        /\ NoFault /\ UNCHANGED receiver
  /\ UNCHANGED <<sender, breaks>>

Answered(k, kind) ==
  Arrives(<<Dst[k], Src[k]>>, [kind |-> kind, task |-> k, num |-> 0])

(* DispatchFileRecvSuccessMessage: a task that is under way has succeeded. *)
(* The thread waits while the task's lock is taken.                        *)
DispatchSuccess(k) ==
  /\ Answered(k, "success") /\ stuck[Src[k]] # k
  /\ IF k \in sending[Src[k]] /\ sState[k] = "ing" THEN Outcome(k, "success")
     ELSE UNCHANGED <<sState, told>>
  /\ UNCHANGED <<creating, sending, read, readAll, sent, stuck, receiver, faults, breaks>>

(* DispatchFileRecvFailedMessage: the task has failed, whatever it was.    *)
DispatchFailed(k) ==
  /\ Answered(k, "failed") /\ stuck[Src[k]] # k
  /\ IF k \in sending[Src[k]] THEN Outcome(k, "fail") ELSE UNCHANGED <<sState, told>>
  /\ UNCHANGED <<creating, sending, read, readAll, sent, stuck, receiver, faults, breaks>>

(* MRUDP loses the connection of two terminals and what it carries, from   *)
(* some packet on.                                                         *)
Break(e) ==
  /\ faults + breaks < MaxMishaps /\ breaks' = breaks + 1
  /\ \E i \in 0 .. Len(wire[e]), j \in 0 .. Len(wire[<<e[2], e[1]>>]) :
       wire' = [wire EXCEPT ![e] = SubSeq(@, 1, i), ![<<e[2], e[1]>>] = SubSeq(@, 1, j)]
  /\ wire' # wire
  /\ UNCHANGED <<sender, receiver, faults>>

-----------------------------------------------------------------------------
SendTask(k) ==
  \/ SendTaskEnds(k) \/ SendTaskFails(k)
  \/ \E n \in 0 .. Packets[k] : SendTaskGoesOn(k, n) \/ SendTaskGivesUp(k, n)

RecvTask(k) ==
  \/ RecvTaskWrites(k) \/ RecvTaskMisses(k) \/ RecvTaskCannotWrite(k)
  \/ RecvTaskTimesOut(k) \/ RecvTaskAnswers(k)

Dispatch(k) ==
  \/ \E i \in 1 .. Packets[k] : DispatchData(k, i)
  \/ DispatchSuccess(k) \/ DispatchFailed(k)

Next ==
  \/ \E k \in Tasks :
       \/ CreateChecks(k) \/ CreateInserts(k) \/ Cancel(k)
       \/ SendTask(k) \/ RecvTask(k) \/ Dispatch(k)
  \/ \E e \in Links : Break(e)

Spec == Init /\ [][Next]_vars

(* The work threads give every task its turns, on which MRUDP takes a      *)
(* packet or a verdict in the end, and MRUDP delivers.                     *)
SendTaskTurn(k) ==
  \/ SendTaskEnds(k)
  \/ \E n \in 0 .. Packets[k] :
       (SendTaskGoesOn(k, n) \/ SendTaskGivesUp(k, n)) /\ (n > 0 \/ read' # read)

RecvTaskTurn(k) ==
  \/ RecvTaskWrites(k) \/ RecvTaskMisses(k) \/ RecvTaskTimesOut(k)
  \/ RecvTaskAnswers(k) /\ receiving' # receiving

LiveSpec ==
  /\ Spec
  /\ \A k \in Tasks :
       WF_vars(SendTaskTurn(k)) /\ WF_vars(RecvTaskTurn(k)) /\ WF_vars(Dispatch(k))

-----------------------------------------------------------------------------
Messages ==
  [kind : {"data"}, task : Tasks, num : Nat] \cup [kind : {"success", "failed"}, task : Tasks, num : {0}]

TypeOK ==
  /\ creating \in [Terminals -> Tasks \cup {None}] /\ stuck \in [Terminals -> Tasks \cup {None}]
  /\ sending \in [Terminals -> SUBSET Tasks] /\ receiving \in [Terminals -> SUBSET Tasks]
  /\ sState \in [Tasks -> {"none", "refused", "ing", "success", "fail", "cancel"}]
  /\ rState \in [Tasks -> {"none", "ing", "success", "failed"}]
  /\ read \in [Tasks -> Nat] /\ sent \in [Tasks -> Nat] /\ readAll \in [Tasks -> BOOLEAN]
  /\ \A k \in Tasks : sent[k] <= read[k] /\ read[k] <= Packets[k]
  /\ told \in [Tasks -> Seq({"success", "fail", "cancel"})]
  /\ queue \in [Tasks -> Seq(Nat)] /\ written \in [Tasks -> Seq(Nat)]
  /\ ignored \subseteq Tasks
  /\ wire \in [Links -> Seq(Messages)]
  /\ faults \in Nat /\ breaks \in Nat /\ faults + breaks <= MaxMishaps

WholeFile(k) == [i \in 1 .. Packets[k] |-> i]

(* A user who was told that a file was sent can rely on it: the receiving  *)
(* end has every packet of it, in order, whatever was lost, thrown away or *)
(* cancelled on the way (the receiver counts packets, DoTask).             *)
SuccessMeansReceived ==
  \A k \in Tasks :
    (\E i \in DOMAIN told[k] : told[k][i] = "success") => written[k] = WholeFile(k)

(* What has been sent, and of which nothing will be heard any more.        *)
UnderWay(k) == \E e \in Links : \E i \in DOMAIN wire[e] : wire[e][i].task = k

Orphan(k) ==
  /\ k \in sending[Src[k]] /\ sState[k] = "ing" /\ sent[k] = Packets[k]
  /\ k \notin receiving[Dst[k]] /\ ~UnderWay(k)

(* A transfer is only left without an answer when its file is empty, its   *)
(* first packet came to a terminal that was sending, or the connection was *)
(* lost: a receiving task always gives a verdict.                          *)
OrphansHaveACause ==
  \A k \in Tasks : Orphan(k) => Packets[k] = 0 \/ k \in ignored \/ breaks > 0

(* What the proofs of the properties above rest on: the numbers on their   *)
(* way grow, packet 1 makes its task only once, a verdict of success finds *)
(* the whole file, and packet 1 or the task it made or a verdict is there  *)
(* as long as the sending task waits.                                      *)
TaskInv ==
  /\ \A t \in Terminals, k \in Tasks : creating[t] = k => sState[k] = "none" /\ t = Src[k]
  /\ \A k \in Tasks :
       /\ sState[k] = "none" => sent[k] = 0 /\ k \notin sending[Src[k]]
       /\ sState[k] = "ing" => k \in sending[Src[k]]

MessageOK(e, m) ==
  /\ m.kind = "data" =>
       /\ e = <<Src[m.task], Dst[m.task]>>
       /\ m.num >= 1 /\ m.num <= sent[m.task]
       /\ rState[m.task] # "none" => m.num > 1
  /\ m.kind = "success" => rState[m.task] = "success"

WireInv ==
  \A e \in Links :
    /\ \A i \in DOMAIN wire[e] : MessageOK(e, wire[e][i])
    /\ \A i, j \in DOMAIN wire[e] :
         /\ i < j /\ wire[e][i].kind = "data" /\ wire[e][j].kind = "data"
         /\ wire[e][i].task = wire[e][j].task
         => wire[e][i].num < wire[e][j].num

FileInv ==
  \A k \in Tasks :
    /\ rState[k] # "none" => sent[k] >= 1
    /\ rState[k] = "ing" => written[k] = [i \in 1 .. Len(written[k]) |-> i]
    /\ rState[k] = "success" => written[k] = WholeFile(k)
    /\ \A i \in DOMAIN told[k] : told[k][i] = "success" => rState[k] = "success"

AnswerUnderWay(k) ==
  \E e \in Links : \E i \in DOMAIN wire[e] :
    wire[e][i].task = k /\ (wire[e][i].kind = "data" => wire[e][i].num = 1)

AnswerInv ==
  \A k \in Tasks :
    sState[k] = "ing" /\ sent[k] > 0 /\ k \notin ignored /\ breaks = 0
      => k \in receiving[Dst[k]] \/ AnswerUnderWay(k)

TransferInv == TypeOK /\ TaskInv /\ WireInv /\ FileInv /\ AnswerInv

Stuck == \E t \in Terminals : stuck[t] # None

(* A transfer ends at both ends, whatever happens to the packets, unless   *)
(* it is left without an answer or a work thread waits for itself.         *)
EveryTransferEnds ==
  \A k \in Tasks :
    k \in sending[Src[k]] \cup receiving[Dst[k]] ~>
      \/ k \notin sending[Src[k]] \cup receiving[Dst[k]]
      \/ Orphan(k) \/ Stuck
=============================================================================
