----------------------- MODULE BigDataTransferProofs -----------------------
(***************************************************************************)
(* What a verdict is worth: for all files, terminals and bounds, a user    *)
(* who is told of success can rely on it, and a task that is never         *)
(* answered has a cause.                                                   *)
(***************************************************************************)
EXTENDS BigDataTransfer, SequenceTheorems, TLAPS

(* Each task has a link to its receiver and one back.                      *)
LEMMA LinksOfTask ==
  ASSUME NEW k \in Tasks
  PROVE  /\ Src[k] \in Terminals /\ Dst[k] \in Terminals
         /\ <<Src[k], Dst[k]>> \in Links /\ <<Dst[k], Src[k]>> \in Links
         /\ <<Src[k], Dst[k]>> # <<Dst[k], Src[k]>>
BY BigDataTransferAssumption DEF Links, Terminals

LEMMA LinkBack ==
  ASSUME NEW e \in Links
  PROVE  <<e[2], e[1]>> \in Links /\ e[1] \in Terminals /\ e[2] \in Terminals
BY DEF Links, Terminals

(* A task is put into a map of tasks or taken out of it.                   *)
LEMMA MapTypes ==
  ASSUME NEW f \in [Terminals -> SUBSET Tasks], NEW t \in Terminals, NEW k \in Tasks
  PROVE  /\ [f EXCEPT ![t] = @ \cup {k}] \in [Terminals -> SUBSET Tasks]
         /\ [f EXCEPT ![t] = @ \ {k}] \in [Terminals -> SUBSET Tasks]
<1>1. f[t] \cup {k} \in SUBSET Tasks /\ f[t] \ {k} \in SUBSET Tasks
  OBVIOUS
<1>2. ASSUME NEW S \in SUBSET Tasks PROVE [f EXCEPT ![t] = S] \in [Terminals -> SUBSET Tasks]
  OBVIOUS
<1> QED
  BY <1>1, <1>2

LEMMA MapMembers ==
  ASSUME NEW f \in [Terminals -> SUBSET Tasks], NEW t \in Terminals, NEW k \in Tasks, NEW u \in Terminals
  PROVE  /\ [f EXCEPT ![t] = @ \cup {k}][u] = IF u = t THEN f[u] \cup {k} ELSE f[u]
         /\ [f EXCEPT ![t] = @ \ {k}][u] = IF u = t THEN f[u] \ {k} ELSE f[u]
OBVIOUS

LEMMA InitTypes == Init => TypeOK
BY BigDataTransferAssumption DEF Init, TypeOK

(* What SendTaskRuns reads and sends stays within the file.                *)
LEMMA ReadWithinFile ==
  ASSUME TypeOK, NEW k \in Tasks
  PROVE  ReadTo(k) \in Nat /\ read[k] <= ReadTo(k) /\ ReadTo(k) <= Packets[k]
BY BigDataTransferAssumption DEF TypeOK, ReadTo, Reads

LEMMA DataIsMessage ==
  ASSUME NEW k \in Tasks, NEW i \in Nat
  PROVE  /\ Data(k, i) \in Messages
         /\ Data(k, i).kind = "data" /\ Data(k, i).task = k /\ Data(k, i).num = i
BY DEF Data, Messages

(* The packets SendData appends.                                           *)
LEMMA SentPackets ==
  ASSUME TypeOK, NEW k \in Tasks, NEW n \in Nat,
         NEW s, s = [i \in 1 .. n |-> Data(k, sent[k] + i)]
  PROVE  s \in Seq(Messages) /\ Len(s) = n /\ DOMAIN s = 1 .. n
<1>1. \A i \in 1 .. n : Data(k, sent[k] + i) \in Messages
  BY DataIsMessage DEF TypeOK
<1>2. s \in [1 .. n -> Messages]
  BY <1>1
<1>3. s \in Seq(Messages)
  BY <1>2, SeqDef
<1> QED
  BY <1>2, <1>3, LenProperties

LEMMA WireTypeOfSend ==
  ASSUME TypeOK, NEW k \in Tasks, NEW n, SendData(k, n)
  PROVE  /\ n \in Nat /\ sent' \in [Tasks -> Nat]
         /\ sent'[k] = sent[k] + n /\ sent'[k] <= ReadTo(k)
         /\ \A l \in Tasks : l # k => sent'[l] = sent[l]
         /\ wire' \in [Links -> Seq(Messages)]
<1>1. n \in Nat /\ n <= ReadTo(k) - sent[k]
  BY ReadWithinFile DEF SendData, TypeOK
<1>2. sent' \in [Tasks -> Nat] /\ sent'[k] = sent[k] + n /\ \A l \in Tasks : l # k => sent'[l] = sent[l]
  BY <1>1 DEF SendData, TypeOK
<1> DEFINE s == [i \in 1 .. n |-> Data(k, sent[k] + i)]
<1>3. s \in Seq(Messages)
  BY <1>1, SentPackets
<1> HIDE DEF s
<1>4. wire' = [wire EXCEPT ![<<Src[k], Dst[k]>>] = @ \o s]
  BY DEF SendData, s
<1> DEFINE e == <<Src[k], Dst[k]>>
<1>e. e \in Links
  BY LinksOfTask
<1> HIDE DEF e
<1>6. wire[e] \o s \in Seq(Messages)
  BY <1>3, <1>e, ConcatProperties DEF TypeOK
<1>5. wire' \in [Links -> Seq(Messages)]
  BY <1>4, <1>e, <1>6 DEF TypeOK, e
<1> QED
  BY <1>1, <1>2, <1>5, ReadWithinFile DEF TypeOK

LEMMA OutcomeTypes ==
  ASSUME TypeOK, NEW k \in Tasks, NEW state \in {"success", "fail", "cancel"}, Outcome(k, state)
  PROVE  /\ sState' \in [Tasks -> {"none", "refused", "ing", "success", "fail", "cancel"}]
         /\ told' \in [Tasks -> Seq({"success", "fail", "cancel"})]
<1>1. Append(told[k], state) \in Seq({"success", "fail", "cancel"})
  BY AppendProperties DEF TypeOK
<1> QED
  BY <1>1 DEF TypeOK, Outcome

LEMMA AnswerTypes ==
  ASSUME TypeOK, NEW k \in Tasks, NEW kind \in {"success", "failed"}, Answers(k, kind)
  PROVE  /\ wire' \in [Links -> Seq(Messages)]
         /\ receiving' \in [Terminals -> SUBSET Tasks]
<1> DEFINE e == <<Dst[k], Src[k]>>
           m == [kind |-> kind, task |-> k, num |-> 0]
<1>1. e \in Links /\ Dst[k] \in Terminals
  BY LinksOfTask
<1>2. m \in Messages
  BY DEF Messages
<1> HIDE DEF e, m
<1>3. Append(wire[e], m) \in Seq(Messages)
  BY <1>1, <1>2, AppendProperties DEF TypeOK
<1>4. wire' = wire \/ wire' = [wire EXCEPT ![e] = Append(@, m)]
  BY DEF Answers, Verdict, e, m
<1>5. wire' \in [Links -> Seq(Messages)]
  BY <1>1, <1>3, <1>4 DEF TypeOK
<1>6. receiving' \in [Terminals -> SUBSET Tasks]
  <2>1. receiving' = receiving \/ receiving' = [receiving EXCEPT ![Dst[k]] = @ \ {k}]
    BY DEF Answers, Erased, NotSent
  <2> QED
    <3>1. receiving \in [Terminals -> SUBSET Tasks]
      BY DEF TypeOK
    <3>2. [receiving EXCEPT ![Dst[k]] = @ \ {k}] \in [Terminals -> SUBSET Tasks]
      BY <3>1, <1>1, MapTypes
    <3> QED
      BY <2>1, <3>1, <3>2
<1> QED
  BY <1>5, <1>6

LEMMA FailTypes ==
  ASSUME TypeOK, NEW k \in Tasks, Fails(k)
  PROVE  /\ wire' \in [Links -> Seq(Messages)]
         /\ receiving' \in [Terminals -> SUBSET Tasks]
         /\ rState' \in [Tasks -> {"none", "ing", "success", "failed"}]
         /\ queue' \in [Tasks -> Seq(Nat)]
<1>1. Answers(k, "failed")
  BY DEF Fails
<1>2. /\ rState' \in [Tasks -> {"none", "ing", "success", "failed"}]
      /\ queue' \in [Tasks -> Seq(Nat)]
  BY DEF Fails, TypeOK
<1> QED
  BY <1>1, <1>2, AnswerTypes

LEMMA ArriveTypes ==
  ASSUME TypeOK, NEW e \in Links, NEW m, Arrives(e, m)
  PROVE  /\ wire' \in [Links -> Seq(Messages)]
         /\ m \in Messages
<1>1. wire[e] \in Seq(Messages) /\ wire[e] # <<>>
  BY DEF TypeOK, Arrives
<1>2. Tail(wire[e]) \in Seq(Messages) /\ Head(wire[e]) \in Messages
  BY <1>1, HeadTailProperties
<1> QED
  BY <1>2 DEF Arrives, TypeOK

(* The three threads change the variables of TypeOK as follows.            *)
LEMMA UserTypes ==
  ASSUME TypeOK, NEW k \in Tasks, CreateChecks(k) \/ CreateInserts(k) \/ Cancel(k)
  PROVE  TypeOK'
<1>t. Src[k] \in Terminals
  BY LinksOfTask
<1>1. CASE CreateChecks(k)
  BY <1>1, <1>t DEF CreateChecks, TypeOK, receiver
<1>2. CASE CreateInserts(k)
  <2>1. creating' \in [Terminals -> Tasks \cup {None}]
    BY <1>2, <1>t DEF CreateInserts, TypeOK
  <2>2. /\ sending' \in [Terminals -> SUBSET Tasks]
        /\ sState' \in [Tasks -> {"none", "refused", "ing", "success", "fail", "cancel"}]
    <3>1. \/ sending' = sending \/ sending' = [sending EXCEPT ![Src[k]] = @ \cup {k}]
      BY <1>2 DEF CreateInserts
    <3>2. sending' \in [Terminals -> SUBSET Tasks]
      <4>1. sending \in [Terminals -> SUBSET Tasks]
        BY DEF TypeOK
      <4>2. [sending EXCEPT ![Src[k]] = @ \cup {k}] \in [Terminals -> SUBSET Tasks]
        BY <4>1, <1>t, MapTypes
      <4> QED
        BY <3>1, <4>1, <4>2
    <3>3. \E state \in {"ing", "fail", "refused"} : sState' = [sState EXCEPT ![k] = state]
      BY <1>2 DEF CreateInserts
    <3> QED
      BY <3>2, <3>3 DEF TypeOK
  <2>3. faults' \in Nat /\ breaks' \in Nat /\ faults' + breaks' <= MaxMishaps
    BY <1>2, BigDataTransferAssumption DEF CreateInserts, TypeOK, Fault, NoFault
  <2> QED
    BY <1>2, <2>1, <2>2, <2>3 DEF CreateInserts, TypeOK, receiver
<1>3. CASE Cancel(k)
  <2>1. Outcome(k, "cancel")
    BY <1>3 DEF Cancel
  <2>2. /\ sState' \in [Tasks -> {"none", "refused", "ing", "success", "fail", "cancel"}]
        /\ told' \in [Tasks -> Seq({"success", "fail", "cancel"})]
    BY <2>1, OutcomeTypes
  <2> QED
    BY <1>3, <2>2 DEF Cancel, TypeOK, receiver
<1> QED
  BY <1>1, <1>2, <1>3

LEMMA RunTypes ==
  ASSUME TypeOK, NEW k \in Tasks, NEW n, SendTaskRuns(k, n),
         stuck' \in [Terminals -> Tasks \cup {None}]
  PROVE  TypeOK'
<1>1. SendData(k, n)
  BY DEF SendTaskRuns
<1>2. /\ n \in Nat /\ sent' \in [Tasks -> Nat]
      /\ sent'[k] = sent[k] + n /\ sent'[k] <= ReadTo(k)
      /\ \A l \in Tasks : l # k => sent'[l] = sent[l]
      /\ wire' \in [Links -> Seq(Messages)]
  BY <1>1, WireTypeOfSend
<1>3. ReadTo(k) \in Nat /\ read[k] <= ReadTo(k) /\ ReadTo(k) <= Packets[k]
  BY ReadWithinFile
<1>4. /\ read' \in [Tasks -> Nat] /\ read'[k] = ReadTo(k)
      /\ \A l \in Tasks : l # k => read'[l] = read[l]
  BY <1>3 DEF SendTaskRuns, TypeOK
<1>5. \A l \in Tasks : sent'[l] <= read'[l] /\ read'[l] <= Packets[l]
  BY <1>2, <1>3, <1>4 DEF TypeOK
<1>6. readAll' \in [Tasks -> BOOLEAN]
  <2>1. \A b \in BOOLEAN : [readAll EXCEPT ![k] = b] \in [Tasks -> BOOLEAN]
    BY DEF TypeOK
  <2>2. (readAll[k] \/ (Reads(k) /\ read[k] + ReadAtOnce > Packets[k])) \in BOOLEAN
    OBVIOUS
  <2> QED
    BY <2>1, <2>2 DEF SendTaskRuns
<1> QED
  BY <1>2, <1>4, <1>5, <1>6 DEF SendTaskRuns, TypeOK, receiver

LEMMA SendTaskTypes ==
  ASSUME TypeOK, NEW k \in Tasks, SendTask(k)
  PROVE  TypeOK'
<1>t. Src[k] \in Terminals
  BY LinksOfTask
<1>1. CASE SendTaskEnds(k)
  BY <1>1, <1>t DEF SendTaskEnds, TypeOK, receiver
<1>2. CASE SendTaskFails(k)
  <2>1. Outcome(k, "fail")
    BY <1>2 DEF SendTaskFails
  <2>2. /\ sState' \in [Tasks -> {"none", "refused", "ing", "success", "fail", "cancel"}]
        /\ told' \in [Tasks -> Seq({"success", "fail", "cancel"})]
    BY <2>1, OutcomeTypes
  <2>3. faults' \in Nat /\ breaks' \in Nat /\ faults' + breaks' <= MaxMishaps
    BY <1>2, BigDataTransferAssumption DEF SendTaskFails, TypeOK, Fault
  <2> QED
    BY <1>2, <1>t, <2>2, <2>3 DEF SendTaskFails, TypeOK, receiver
<1>3. ASSUME NEW n \in 0 .. Packets[k], SendTaskGoesOn(k, n)
      PROVE  TypeOK'
  BY <1>3, RunTypes DEF SendTaskGoesOn, TypeOK
<1>4. ASSUME NEW n \in 0 .. Packets[k], SendTaskGivesUp(k, n)
      PROVE  TypeOK'
  <2>1. SendTaskRuns(k, n) /\ stuck' = [stuck EXCEPT ![Src[k]] = k]
    BY <1>4 DEF SendTaskGivesUp
  <2>2. stuck' \in [Terminals -> Tasks \cup {None}]
    BY <2>1 DEF TypeOK
  <2> QED
    BY <2>1, <2>2, RunTypes
<1> QED
  BY <1>1, <1>2, <1>3, <1>4 DEF SendTask

(* The file of a task and its queue are sequences of numbers.              *)
LEMMA FileTypes ==
  ASSUME TypeOK, NEW k \in Tasks, NEW s \in Seq(Nat),
         written' = [written EXCEPT ![k] = @ \o s]
  PROVE  written' \in [Tasks -> Seq(Nat)]
<1>1. written[k] \o s \in Seq(Nat)
  BY ConcatProperties DEF TypeOK
<1> QED
  BY <1>1 DEF TypeOK

LEMMA FaultTypes ==
  ASSUME TypeOK, Fault \/ NoFault, breaks' = breaks
  PROVE  faults' \in Nat /\ breaks' \in Nat /\ faults' + breaks' <= MaxMishaps
BY BigDataTransferAssumption DEF TypeOK, Fault, NoFault

LEMMA QueuePrefix ==
  ASSUME TypeOK, NEW k \in Tasks, NEW i \in DOMAIN queue[k]
  PROVE  /\ SubSeq(queue[k], 1, i) \in Seq(Nat) /\ SubSeq(queue[k], 1, i - 1) \in Seq(Nat)
         /\ Len(SubSeq(queue[k], 1, i - 1)) = i - 1 /\ i \in Nat
         /\ \A j \in 1 .. i - 1 : SubSeq(queue[k], 1, i - 1)[j] = queue[k][j]
<1>1. queue[k] \in Seq(Nat) /\ i \in 1 .. Len(queue[k]) /\ Len(queue[k]) \in Nat
  BY LenProperties DEF TypeOK
<1> QED
  BY <1>1, SubSeqProperties

LEMMA RecvTaskTypes ==
  ASSUME TypeOK, NEW k \in Tasks, RecvTask(k)
  PROVE  TypeOK'
<1>1. ASSUME RecvTaskWrites(k) PROVE TypeOK'
  <2>1. written' \in [Tasks -> Seq(Nat)]
    BY <1>1, FileTypes DEF RecvTaskWrites, TypeOK
  <2>2. CASE Fails(k)
    BY <1>1, <2>1, <2>2, FailTypes DEF RecvTaskWrites, TypeOK, sender
  <2>3. CASE /\ rState' \in {rState, [rState EXCEPT ![k] = "success"]}
             /\ queue' = [queue EXCEPT ![k] = <<>>]
             /\ UNCHANGED <<receiving, wire>>
    <3>1. rState' \in [Tasks -> {"none", "ing", "success", "failed"}]
      BY <2>3 DEF TypeOK
    <3>2. <<>> \in Seq(Nat)
      BY EmptySeq
    <3>3. queue' \in [Tasks -> Seq(Nat)]
      BY <2>3, <3>2 DEF TypeOK
    <3> QED
      BY <1>1, <2>1, <2>3, <3>1, <3>3 DEF RecvTaskWrites, TypeOK, sender
  <2> QED
    BY <1>1, <2>2, <2>3 DEF RecvTaskWrites
<1>2. ASSUME RecvTaskMisses(k) PROVE TypeOK'
  <2>1. written' \in [Tasks -> Seq(Nat)]
    BY <1>2, FileTypes, QueuePrefix DEF RecvTaskMisses, Unexpected
  <2>2. Fails(k)
    BY <1>2 DEF RecvTaskMisses
  <2> QED
    BY <1>2, <2>1, <2>2, FailTypes DEF RecvTaskMisses, TypeOK, sender
<1>3. ASSUME RecvTaskCannotWrite(k) PROVE TypeOK'
  <2>1. written' \in [Tasks -> Seq(Nat)]
    BY <1>3, FileTypes, QueuePrefix DEF RecvTaskCannotWrite
  <2>2. Fails(k) /\ faults' \in Nat /\ breaks' \in Nat /\ faults' + breaks' <= MaxMishaps
    BY <1>3, FaultTypes DEF RecvTaskCannotWrite
  <2> QED
    BY <1>3, <2>1, <2>2, FailTypes DEF RecvTaskCannotWrite, TypeOK, sender
<1>4. ASSUME RecvTaskTimesOut(k) PROVE TypeOK'
  <2>1. Fails(k)
    BY <1>4 DEF RecvTaskTimesOut
  <2> QED
    BY <1>4, <2>1, FailTypes DEF RecvTaskTimesOut, TypeOK, sender
<1>5. ASSUME RecvTaskAnswers(k) PROVE TypeOK'
  <2>1. rState[k] \in {"success", "failed"} /\ Answers(k, rState[k])
    BY <1>5 DEF RecvTaskAnswers
  <2> QED
    BY <1>5, <2>1, AnswerTypes DEF RecvTaskAnswers, TypeOK, sender
<1> QED
  BY <1>1, <1>2, <1>3, <1>4, <1>5 DEF RecvTask

LEMMA DispatchTypes ==
  ASSUME TypeOK, NEW k \in Tasks, Dispatch(k)
  PROVE  TypeOK'
<1>l. <<Src[k], Dst[k]>> \in Links /\ <<Dst[k], Src[k]>> \in Links /\ Dst[k] \in Terminals
  BY LinksOfTask
<1>1. ASSUME NEW i \in 1 .. Packets[k], DispatchData(k, i)
      PROVE  TypeOK'
  <2>0. i \in Nat
    BY BigDataTransferAssumption
  <2>1. wire' \in [Links -> Seq(Messages)]
    BY <1>1, <1>l, ArriveTypes DEF DispatchData
  <2>2. faults' \in Nat /\ breaks' \in Nat /\ faults' + breaks' <= MaxMishaps
    BY <1>1, FaultTypes DEF DispatchData
  <2>3. ignored' \subseteq Tasks
    BY <1>1 DEF DispatchData, receiver, TypeOK
  <2>4. receiving' \in [Terminals -> SUBSET Tasks]
    <3>1. receiving' = receiving \/ receiving' = [receiving EXCEPT ![Dst[k]] = @ \cup {k}]
      BY <1>1 DEF DispatchData, receiver
    <3>2. receiving \in [Terminals -> SUBSET Tasks]
      BY DEF TypeOK
    <3>3. [receiving EXCEPT ![Dst[k]] = @ \cup {k}] \in [Terminals -> SUBSET Tasks]
      BY <3>2, <1>l, MapTypes
    <3> QED
      BY <3>1, <3>2, <3>3
  <2>5. queue' \in [Tasks -> Seq(Nat)]
    <3>1. \/ queue' = queue \/ queue' = [queue EXCEPT ![k] = <<i>>]
          \/ queue' = [queue EXCEPT ![k] = Append(@, i)]
      BY <1>1 DEF DispatchData, receiver
    <3>2. Append(queue[k], i) \in Seq(Nat) /\ <<i>> \in Seq(Nat)
      BY <2>0, AppendProperties DEF TypeOK
    <3> QED
      BY <3>1, <3>2 DEF TypeOK
  <2>6. rState' \in [Tasks -> {"none", "ing", "success", "failed"}] /\ written' \in [Tasks -> Seq(Nat)]
    <3>1. /\ \/ rState' = rState \/ rState' = [rState EXCEPT ![k] = "ing"]
             \/ rState' = [rState EXCEPT ![k] = "failed"]
          /\ written' = written \/ written' = [written EXCEPT ![k] = <<>>]
      BY <1>1 DEF DispatchData, receiver
    <3>2. rState' \in [Tasks -> {"none", "ing", "success", "failed"}]
      BY <3>1 DEF TypeOK
    <3>3. <<>> \in Seq(Nat)
      BY EmptySeq
    <3>4. written' \in [Tasks -> Seq(Nat)]
      BY <3>1, <3>3 DEF TypeOK
    <3> QED
      BY <3>2, <3>4
  <2> QED
    BY <1>1, <2>1, <2>2, <2>3, <2>4, <2>5, <2>6 DEF DispatchData, TypeOK, sender
<1>2. ASSUME NEW kind \in {"success", "failed"}, Answered(k, kind),
             \/ \E state \in {"success", "fail"} : Outcome(k, state)
             \/ UNCHANGED <<sState, told>>,
             UNCHANGED <<creating, sending, read, readAll, sent, stuck, receiver, faults, breaks>>
      PROVE  TypeOK'
  <2>1. wire' \in [Links -> Seq(Messages)]
    BY <1>2, <1>l, ArriveTypes DEF Answered
  <2>2. /\ sState' \in [Tasks -> {"none", "refused", "ing", "success", "fail", "cancel"}]
        /\ told' \in [Tasks -> Seq({"success", "fail", "cancel"})]
    BY <1>2, OutcomeTypes DEF TypeOK
  <2> QED
    BY <1>2, <2>1, <2>2 DEF TypeOK, receiver
<1>3. DispatchSuccess(k) => TypeOK'
  BY <1>2 DEF DispatchSuccess
<1>4. DispatchFailed(k) => TypeOK'
  BY <1>2 DEF DispatchFailed
<1> QED
  BY <1>1, <1>3, <1>4 DEF Dispatch

LEMMA BreakTypes ==
  ASSUME TypeOK, NEW e \in Links, Break(e)
  PROVE  TypeOK'
<1> DEFINE f == <<e[2], e[1]>>
<1>l. f \in Links
  BY LinkBack
<1> HIDE DEF f
<1>1. PICK i \in 0 .. Len(wire[e]), j \in 0 .. Len(wire[f]) :
        wire' = [wire EXCEPT ![e] = SubSeq(@, 1, i), ![f] = SubSeq(@, 1, j)]
  BY DEF Break, f
<1>2. \A g \in Links : \A n \in 0 .. Len(wire[g]) : SubSeq(wire[g], 1, n) \in Seq(Messages)
  BY SubSeqProperties, LenProperties DEF TypeOK
<1>3. \A s \in Seq(Messages) : \A n \in Nat : n <= Len(s) => SubSeq(s, 1, n) \in Seq(Messages)
  BY SubSeqProperties, LenProperties
<1>4. wire' \in [Links -> Seq(Messages)]
  <2>1. [wire EXCEPT ![e] = SubSeq(@, 1, i)] \in [Links -> Seq(Messages)]
    BY <1>2 DEF TypeOK
  <2>2. e # f
    <3>1. PICK k \in Tasks : e = <<Src[k], Dst[k]>> \/ e = <<Dst[k], Src[k]>>
      BY DEF Links
    <3> QED
      BY <3>1, BigDataTransferAssumption DEF f
  <2> QED
    BY <1>1, <1>2, <1>l, <2>1, <2>2 DEF TypeOK
<1>5. faults' \in Nat /\ breaks' \in Nat /\ faults' + breaks' <= MaxMishaps
  <2>1. faults' = faults /\ breaks' = breaks + 1 /\ faults + breaks < MaxMishaps
    BY DEF Break
  <2> QED
    BY <2>1, BigDataTransferAssumption DEF TypeOK
<1> QED
  BY <1>4, <1>5 DEF Break, TypeOK, sender, receiver

LEMMA TypesKept == TypeOK /\ [Next]_vars => TypeOK'
<1> SUFFICES ASSUME TypeOK, [Next]_vars PROVE TypeOK'
  OBVIOUS
<1>1. CASE UNCHANGED vars
  BY <1>1 DEF vars, sender, receiver, TypeOK
<1>2. CASE Next
  BY <1>2, UserTypes, SendTaskTypes, RecvTaskTypes, DispatchTypes, BreakTypes DEF Next
<1> QED
  BY <1>1, <1>2

-----------------------------------------------------------------------------
(* A step leaves MRUDP what it carries, takes it from one end of a link, or *)
(* adds packets s to link e.                                               *)
Shrinks ==
  \A g \in Links : \E c \in {0, 1} : \A i \in DOMAIN wire'[g] :
    i \in Nat /\ i + c \in DOMAIN wire[g] /\ wire'[g][i] = wire[g][i + c]

Grows(e, s) ==
  \A g \in Links :
    /\ \A i \in DOMAIN wire[g] : i \in DOMAIN wire'[g] /\ wire'[g][i] = wire[g][i]
    /\ \A i \in DOMAIN wire'[g] \ DOMAIN wire[g] :
         /\ g = e
         /\ \E n \in DOMAIN s : i = Len(wire[e]) + n /\ wire'[g][i] = s[n]

LEMMA WireDomain ==
  ASSUME TypeOK, NEW e \in Links
  PROVE  /\ wire[e] \in Seq(Messages) /\ Len(wire[e]) \in Nat
         /\ DOMAIN wire[e] = 1 .. Len(wire[e])
         /\ \A i \in DOMAIN wire[e] : i \in Nat /\ wire[e][i] \in Messages
<1>1. wire[e] \in Seq(Messages)
  BY DEF TypeOK
<1> QED
  BY <1>1, LenProperties, ElementOfSeq

LEMMA WireStays ==
  ASSUME TypeOK, wire' = wire
  PROVE  Shrinks
<1> SUFFICES ASSUME NEW g \in Links
             PROVE  \A i \in DOMAIN wire'[g] : i \in Nat /\ i + 0 \in DOMAIN wire[g] /\ wire'[g][i] = wire[g][i + 0]
  BY DEF Shrinks
<1> QED
  BY WireDomain

LEMMA WireArrives ==
  ASSUME TypeOK, NEW e \in Links, NEW m, Arrives(e, m)
  PROVE  /\ Shrinks
         /\ 1 \in DOMAIN wire[e] /\ m = wire[e][1] /\ m \in Messages
         /\ \A g \in Links : g # e => wire'[g] = wire[g]
         /\ \A i \in DOMAIN wire'[e] : i \in Nat /\ i + 1 \in DOMAIN wire[e] /\ wire'[e][i] = wire[e][i + 1] /\ i + 1 > 1
         /\ \A i \in DOMAIN wire[e] : i # 1 => i - 1 \in DOMAIN wire'[e] /\ wire'[e][i - 1] = wire[e][i]
<1>0. wire[e] # <<>> /\ Head(wire[e]) = m /\ wire' = [wire EXCEPT ![e] = Tail(@)]
  BY DEF Arrives
<1>1. wire[e] \in Seq(Messages) /\ Len(wire[e]) \in Nat /\ DOMAIN wire[e] = 1 .. Len(wire[e])
  BY WireDomain
<1>2. wire'[e] = Tail(wire[e]) /\ \A g \in Links : g # e => wire'[g] = wire[g]
  BY <1>0 DEF TypeOK
<1>3. /\ Tail(wire[e]) \in Seq(Messages) /\ Len(Tail(wire[e])) = Len(wire[e]) - 1
      /\ \A i \in 1 .. Len(Tail(wire[e])) : Tail(wire[e])[i] = wire[e][i + 1]
      /\ m = wire[e][1] /\ m \in Messages
  BY <1>0, <1>1, HeadTailProperties
<1>4. DOMAIN wire'[e] = 1 .. Len(wire[e]) - 1 /\ Len(wire[e]) >= 1
  <2>1. DOMAIN Tail(wire[e]) = 1 .. Len(Tail(wire[e]))
    BY <1>3, LenProperties
  <2>2. Len(wire[e]) # 0
    BY <1>0, <1>1, EmptySeq
  <2> QED
    BY <1>1, <1>2, <1>3, <2>1, <2>2
<1>5. \A i \in DOMAIN wire'[e] : i \in Nat /\ i + 1 \in DOMAIN wire[e] /\ wire'[e][i] = wire[e][i + 1] /\ i + 1 > 1
  BY <1>1, <1>2, <1>3, <1>4
<1>6. \A i \in DOMAIN wire[e] : i # 1 => i - 1 \in DOMAIN wire'[e] /\ wire'[e][i - 1] = wire[e][i]
  <2> SUFFICES ASSUME NEW i \in DOMAIN wire[e], i # 1
               PROVE  i - 1 \in DOMAIN wire'[e] /\ wire'[e][i - 1] = wire[e][i]
    OBVIOUS
  <2>1. i - 1 \in 1 .. Len(wire[e]) - 1 /\ (i - 1) + 1 = i
    BY <1>1
  <2> QED
    BY <2>1, <1>4, <1>5
<1>7. Shrinks
  <2> SUFFICES ASSUME NEW g \in Links
               PROVE  \E c \in {0, 1} : \A i \in DOMAIN wire'[g] :
                        i \in Nat /\ i + c \in DOMAIN wire[g] /\ wire'[g][i] = wire[g][i + c]
    BY DEF Shrinks
  <2>1. CASE g = e
    BY <2>1, <1>5
  <2>2. CASE g # e
    <3>1. wire'[g] = wire[g]
      BY <2>2, <1>2
    <3>2. \A i \in DOMAIN wire'[g] : i \in Nat /\ i + 0 \in DOMAIN wire[g] /\ wire'[g][i] = wire[g][i + 0]
      BY <3>1, WireDomain
    <3> QED
      BY <3>2
  <2> QED
    BY <2>1, <2>2
<1> QED
  BY <1>1, <1>2, <1>3, <1>4, <1>5, <1>6, <1>7

LEMMA WireBreaks ==
  ASSUME TypeOK, NEW e \in Links, Break(e)
  PROVE  Shrinks
<1> DEFINE f == <<e[2], e[1]>>
<1>l. f \in Links
  BY LinkBack
<1> HIDE DEF f
<1>1. PICK i \in 0 .. Len(wire[e]), j \in 0 .. Len(wire[f]) :
        wire' = [wire EXCEPT ![e] = SubSeq(@, 1, i), ![f] = SubSeq(@, 1, j)]
  BY DEF Break, f
<1>2. e # f
  <2>1. PICK k \in Tasks : e = <<Src[k], Dst[k]>> \/ e = <<Dst[k], Src[k]>>
    BY DEF Links
  <2> QED
    BY <2>1, BigDataTransferAssumption DEF f
<1>3. /\ wire'[e] = SubSeq(wire[e], 1, i) /\ wire'[f] = SubSeq(wire[f], 1, j)
      /\ \A g \in Links : g # e /\ g # f => wire'[g] = wire[g]
  BY <1>1, <1>2, <1>l DEF TypeOK
<1>4. ASSUME NEW g \in Links, NEW n \in 0 .. Len(wire[g]), wire'[g] = SubSeq(wire[g], 1, n)
      PROVE  \A d \in DOMAIN wire'[g] : d \in Nat /\ d + 0 \in DOMAIN wire[g] /\ wire'[g][d] = wire[g][d + 0]
  <2>1. wire[g] \in Seq(Messages) /\ Len(wire[g]) \in Nat /\ DOMAIN wire[g] = 1 .. Len(wire[g])
    BY WireDomain
  <2>2. /\ SubSeq(wire[g], 1, n) \in Seq(Messages) /\ Len(SubSeq(wire[g], 1, n)) = n
        /\ \A d \in 1 .. n : SubSeq(wire[g], 1, n)[d] = wire[g][d]
    BY <2>1, SubSeqProperties
  <2>3. DOMAIN wire'[g] = 1 .. n
    BY <1>4, <2>2, LenProperties
  <2> QED
    BY <1>4, <2>1, <2>2, <2>3
<1>5. ASSUME NEW g \in Links, g # e, g # f
      PROVE  \A d \in DOMAIN wire'[g] : d \in Nat /\ d + 0 \in DOMAIN wire[g] /\ wire'[g][d] = wire[g][d + 0]
  BY <1>3, <1>5, WireDomain
<1>6. \A g \in Links : \A d \in DOMAIN wire'[g] :
        d \in Nat /\ d + 0 \in DOMAIN wire[g] /\ wire'[g][d] = wire[g][d + 0]
  BY <1>3, <1>4, <1>5, <1>l
<1> QED
  BY <1>6 DEF Shrinks

LEMMA WireConcat ==
  ASSUME TypeOK, NEW e \in Links, NEW s \in Seq(Messages), wire' = [wire EXCEPT ![e] = @ \o s]
  PROVE  /\ Grows(e, s)
         /\ \A n \in DOMAIN s : Len(wire[e]) + n \in DOMAIN wire'[e] /\ wire'[e][Len(wire[e]) + n] = s[n]
<1>1. wire[e] \in Seq(Messages) /\ Len(wire[e]) \in Nat /\ DOMAIN wire[e] = 1 .. Len(wire[e])
  BY WireDomain
<1>2. wire'[e] = wire[e] \o s /\ \A g \in Links : g # e => wire'[g] = wire[g]
  BY DEF TypeOK
<1>3. DOMAIN s = 1 .. Len(s) /\ Len(s) \in Nat
  BY LenProperties
<1>4. /\ wire'[e] \in Seq(Messages) /\ Len(wire'[e]) = Len(wire[e]) + Len(s)
      /\ \A i \in 1 .. Len(wire[e]) + Len(s) :
           wire'[e][i] = IF i <= Len(wire[e]) THEN wire[e][i] ELSE s[i - Len(wire[e])]
  BY <1>1, <1>2, ConcatProperties
<1>5. DOMAIN wire'[e] = 1 .. Len(wire[e]) + Len(s)
  BY <1>4, LenProperties
<1>6. \A i \in DOMAIN wire[e] : i \in DOMAIN wire'[e] /\ wire'[e][i] = wire[e][i]
  BY <1>1, <1>3, <1>4, <1>5
<1>7. \A i \in DOMAIN wire'[e] \ DOMAIN wire[e] :
        \E n \in DOMAIN s : i = Len(wire[e]) + n /\ wire'[e][i] = s[n]
  <2> SUFFICES ASSUME NEW i \in DOMAIN wire'[e] \ DOMAIN wire[e]
               PROVE  \E n \in DOMAIN s : i = Len(wire[e]) + n /\ wire'[e][i] = s[n]
    OBVIOUS
  <2>1. i - Len(wire[e]) \in DOMAIN s /\ i = Len(wire[e]) + (i - Len(wire[e]))
    BY <1>1, <1>3, <1>5
  <2>2. wire'[e][i] = s[i - Len(wire[e])]
    BY <1>1, <1>3, <1>4, <1>5
  <2> QED
    BY <2>1, <2>2
<1>8. \A n \in DOMAIN s : Len(wire[e]) + n \in DOMAIN wire'[e] /\ wire'[e][Len(wire[e]) + n] = s[n]
  <2> SUFFICES ASSUME NEW n \in DOMAIN s
               PROVE  Len(wire[e]) + n \in DOMAIN wire'[e] /\ wire'[e][Len(wire[e]) + n] = s[n]
    OBVIOUS
  <2>1. Len(wire[e]) + n \in 1 .. Len(wire[e]) + Len(s) /\ ~(Len(wire[e]) + n <= Len(wire[e]))
        /\ (Len(wire[e]) + n) - Len(wire[e]) = n
    BY <1>1, <1>3
  <2> QED
    BY <2>1, <1>4, <1>5
<1>9. Grows(e, s)
  <2> SUFFICES ASSUME NEW g \in Links
               PROVE  /\ \A i \in DOMAIN wire[g] : i \in DOMAIN wire'[g] /\ wire'[g][i] = wire[g][i]
                      /\ \A i \in DOMAIN wire'[g] \ DOMAIN wire[g] :
                           /\ g = e
                           /\ \E n \in DOMAIN s : i = Len(wire[e]) + n /\ wire'[g][i] = s[n]
    BY DEF Grows
  <2>1. CASE g = e
    BY <2>1, <1>6, <1>7
  <2>2. CASE g # e
    BY <2>2, <1>2
  <2> QED
    BY <2>1, <2>2
<1> QED
  BY <1>8, <1>9

(* Nothing that matters for a packet on its way is undone: the packets     *)
(* sent stay sent, a file received stays received, and no other task is    *)
(* made while its packet 1 is on its way.                                  *)
Steady ==
  /\ \A l \in Tasks : sent[l] <= sent'[l] /\ (rState[l] = "success" => rState'[l] = "success")
  /\ \A e \in Links : \A i \in DOMAIN wire'[e] :
       LET m == wire'[e][i]
       IN  m.kind = "data" /\ rState'[m.task] # "none" /\ rState[m.task] = "none" => m.num > 1

LEMMA MessageStays ==
  ASSUME TypeOK, TypeOK', Steady, NEW e \in Links, NEW i \in DOMAIN wire'[e],
         MessageOK(e, wire'[e][i])
  PROVE  MessageOK(e, wire[e][i])'
<1>m. PICK m : m = wire'[e][i]
  OBVIOUS
<1>1. m \in Messages
  BY <1>m, WireDomain, ElementOfSeq, LenProperties DEF TypeOK
<1>2. m.task \in Tasks /\ m.num \in Nat
  BY <1>1 DEF Messages
<1>3. /\ sent[m.task] <= sent'[m.task] /\ (rState[m.task] = "success" => rState'[m.task] = "success")
      /\ m.kind = "data" /\ rState'[m.task] # "none" /\ rState[m.task] = "none" => m.num > 1
  BY <1>m, <1>2 DEF Steady
<1>4. sent[m.task] \in Nat /\ sent'[m.task] \in Nat
  BY <1>2 DEF TypeOK
<1>5. MessageOK(e, m)
  BY <1>m
<1>6. /\ m.kind = "data" =>
           /\ e = <<Src[m.task], Dst[m.task]>>
           /\ m.num >= 1 /\ m.num <= sent'[m.task]
           /\ rState'[m.task] # "none" => m.num > 1
      /\ m.kind = "success" => rState'[m.task] = "success"
  BY <1>2, <1>3, <1>4, <1>5 DEF MessageOK
<1> QED
  BY <1>m, <1>6 DEF MessageOK

(* Packets taken from MRUDP leave those that remain in order.              *)
LEMMA WireInvShrinks ==
  ASSUME TypeOK, TypeOK', WireInv, Steady, Shrinks
  PROVE  WireInv'
<1> SUFFICES ASSUME NEW e \in Links
             PROVE  /\ \A i \in DOMAIN wire'[e] : MessageOK(e, wire[e][i])'
                    /\ \A i, j \in DOMAIN wire'[e] :
                         /\ i < j /\ wire'[e][i].kind = "data" /\ wire'[e][j].kind = "data"
                         /\ wire'[e][i].task = wire'[e][j].task
                         => wire'[e][i].num < wire'[e][j].num
  BY DEF WireInv
<1>1. PICK c \in {0, 1} : \A i \in DOMAIN wire'[e] :
        i \in Nat /\ i + c \in DOMAIN wire[e] /\ wire'[e][i] = wire[e][i + c]
  BY DEF Shrinks
<1>2. ASSUME NEW i \in DOMAIN wire'[e] PROVE MessageOK(e, wire[e][i])'
  <2>1. MessageOK(e, wire'[e][i])
    BY <1>1 DEF WireInv
  <2> QED
    BY <2>1, MessageStays
<1>3. ASSUME NEW i \in DOMAIN wire'[e], NEW j \in DOMAIN wire'[e], i < j,
             wire'[e][i].kind = "data", wire'[e][j].kind = "data",
             wire'[e][i].task = wire'[e][j].task
      PROVE  wire'[e][i].num < wire'[e][j].num
  <2>1. i + c < j + c /\ i + c \in DOMAIN wire[e] /\ j + c \in DOMAIN wire[e]
    BY <1>1, <1>3
  <2>2. wire[e][i + c] = wire'[e][i] /\ wire[e][j + c] = wire'[e][j]
    BY <1>1
  <2>3. wire[e][i + c].num < wire[e][j + c].num
    BY <1>3, <2>1, <2>2 DEF WireInv
  <2> QED
    BY <2>2, <2>3
<1> QED
  BY <1>2, <1>3

(* Packets added to a link come after those it carries.                    *)
LEMMA WireInvGrows ==
  ASSUME TypeOK, TypeOK', WireInv, Steady, NEW e \in Links, NEW s \in Seq(Messages), Grows(e, s),
         \A n \in DOMAIN s : MessageOK(e, s[n])',
         \A n \in DOMAIN s : s[n].kind = "data" =>
           /\ s[n].num > sent[s[n].task]
           /\ \A d \in DOMAIN s : d < n /\ s[d].kind = "data" => s[d].num < s[n].num
  PROVE  WireInv'
<1> SUFFICES ASSUME NEW g \in Links
             PROVE  /\ \A i \in DOMAIN wire'[g] : MessageOK(g, wire[g][i])'
                    /\ \A i, j \in DOMAIN wire'[g] :
                         /\ i < j /\ wire'[g][i].kind = "data" /\ wire'[g][j].kind = "data"
                         /\ wire'[g][i].task = wire'[g][j].task
                         => wire'[g][i].num < wire'[g][j].num
  BY DEF WireInv
<1>0. /\ \A i \in DOMAIN wire[g] : i \in DOMAIN wire'[g] /\ wire'[g][i] = wire[g][i]
      /\ \A i \in DOMAIN wire'[g] \ DOMAIN wire[g] :
           g = e /\ \E n \in DOMAIN s : i = Len(wire[e]) + n /\ wire'[g][i] = s[n]
  BY DEF Grows
<1>d. /\ Len(wire[g]) \in Nat /\ DOMAIN wire[g] = 1 .. Len(wire[g])
      /\ \A i \in DOMAIN wire[g] : i \in Nat /\ wire[g][i] \in Messages
  BY WireDomain
<1>s. \A n \in DOMAIN s : n \in Nat /\ n >= 1 /\ s[n] \in Messages
  BY LenProperties, ElementOfSeq
<1>1. ASSUME NEW i \in DOMAIN wire'[g] PROVE MessageOK(g, wire[g][i])'
  <2>1. CASE i \in DOMAIN wire[g]
    <3>1. MessageOK(g, wire'[g][i])
      BY <2>1, <1>0 DEF WireInv
    <3> QED
      BY <3>1, MessageStays
  <2>2. CASE i \notin DOMAIN wire[g]
    <3>1. PICK n \in DOMAIN s : g = e /\ wire'[g][i] = s[n]
      BY <2>2, <1>0
    <3>2. MessageOK(e, s[n])'
      OBVIOUS
    <3> QED
      BY <3>1, <3>2 DEF MessageOK
  <2> QED
    BY <2>1, <2>2
<1>2. ASSUME NEW i \in DOMAIN wire'[g], NEW j \in DOMAIN wire'[g], i < j,
             wire'[g][i].kind = "data", wire'[g][j].kind = "data",
             wire'[g][i].task = wire'[g][j].task
      PROVE  wire'[g][i].num < wire'[g][j].num
  <2>1. CASE i \in DOMAIN wire[g] /\ j \in DOMAIN wire[g]
    BY <2>1, <1>0, <1>2 DEF WireInv
  <2>2. CASE i \in DOMAIN wire[g] /\ j \notin DOMAIN wire[g]
    <3>1. PICK n \in DOMAIN s : g = e /\ wire'[g][j] = s[n]
      BY <2>2, <1>0
    <3>2. wire'[g][i] = wire[g][i] /\ MessageOK(g, wire[g][i]) /\ wire[g][i] \in Messages
      BY <2>2, <1>0, <1>d DEF WireInv
    <3>3. wire[g][i].num <= sent[wire[g][i].task] /\ wire[g][i].num \in Nat
          /\ wire[g][i].task \in Tasks
      BY <3>2, <1>2 DEF MessageOK, Messages
    <3>4. s[n].num > sent[s[n].task] /\ s[n].num \in Nat /\ s[n].task = wire[g][i].task
      BY <3>1, <3>2, <1>2, <1>s DEF Messages
    <3>5. sent[wire[g][i].task] \in Nat
      BY <3>3 DEF TypeOK
    <3> QED
      BY <3>1, <3>2, <3>3, <3>4, <3>5
  <2>3. CASE i \notin DOMAIN wire[g] /\ j \in DOMAIN wire[g]
    <3>1. PICK n \in DOMAIN s : g = e /\ i = Len(wire[e]) + n
      BY <2>3, <1>0
    <3> QED
      BY <3>1, <2>3, <1>2, <1>d, <1>s
  <2>4. CASE i \notin DOMAIN wire[g] /\ j \notin DOMAIN wire[g]
    <3>1. PICK n \in DOMAIN s : g = e /\ i = Len(wire[e]) + n /\ wire'[g][i] = s[n]
      BY <2>4, <1>0
    <3>2. PICK d \in DOMAIN s : g = e /\ j = Len(wire[e]) + d /\ wire'[g][j] = s[d]
      BY <2>4, <1>0
    <3>3. n < d
      BY <3>1, <3>2, <1>2, <1>d, <1>s
    <3> QED
      BY <3>1, <3>2, <3>3, <1>2
  <2> QED
    BY <2>1, <2>2, <2>3, <2>4
<1> QED
  BY <1>1, <1>2

-----------------------------------------------------------------------------
(* An answer on its way stays there when packets are added, and when one   *)
(* is taken that is no answer of this task.                                *)
LEMMA AnswerStays ==
  ASSUME TypeOK, NEW l \in Tasks, AnswerUnderWay(l),
         wire' = wire \/ \E e \in Links, s \in Seq(Messages) : Grows(e, s)
  PROVE  AnswerUnderWay(l)'
<1>1. PICK g \in Links : \E i \in DOMAIN wire[g] :
        wire[g][i].task = l /\ (wire[g][i].kind = "data" => wire[g][i].num = 1)
  BY DEF AnswerUnderWay
<1>2. PICK i \in DOMAIN wire[g] :
        wire[g][i].task = l /\ (wire[g][i].kind = "data" => wire[g][i].num = 1)
  BY <1>1
<1>3. i \in DOMAIN wire'[g] /\ wire'[g][i] = wire[g][i]
  BY DEF Grows
<1> QED
  BY <1>2, <1>3 DEF AnswerUnderWay

LEMMA AnswerPassedBy ==
  ASSUME TypeOK, NEW l \in Tasks, AnswerUnderWay(l), NEW e \in Links, NEW m, Arrives(e, m),
         m.task = l => m.kind = "data" /\ m.num # 1
  PROVE  AnswerUnderWay(l)'
<1>1. PICK g \in Links : \E i \in DOMAIN wire[g] :
        wire[g][i].task = l /\ (wire[g][i].kind = "data" => wire[g][i].num = 1)
  BY DEF AnswerUnderWay
<1>2. PICK i \in DOMAIN wire[g] :
        wire[g][i].task = l /\ (wire[g][i].kind = "data" => wire[g][i].num = 1)
  BY <1>1
<1>3. /\ m = wire[e][1]
      /\ \A h \in Links : h # e => wire'[h] = wire[h]
      /\ \A j \in DOMAIN wire[e] : j # 1 => j - 1 \in DOMAIN wire'[e] /\ wire'[e][j - 1] = wire[e][j]
  BY WireArrives
<1>4. \E j \in DOMAIN wire'[g] : wire'[g][j] = wire[g][i]
  <2>1. CASE g = e
    BY <2>1, <1>2, <1>3
  <2>2. CASE g # e
    BY <2>2, <1>3
  <2> QED
    BY <2>1, <2>2
<1> QED
  BY <1>2, <1>4 DEF AnswerUnderWay

(* The outcomes a user was told of are added to.                           *)
LEMMA ToldMore ==
  ASSUME TypeOK, NEW k \in Tasks, NEW state \in {"success", "fail", "cancel"}, Outcome(k, state)
  PROVE  /\ sState'[k] = state /\ \A l \in Tasks : l # k => sState'[l] = sState[l]
         /\ \A l \in Tasks : \A i \in DOMAIN told'[l] :
              told'[l][i] = "success" =>
                (\E j \in DOMAIN told[l] : told[l][j] = "success") \/ (l = k /\ state = "success")
<1>1. sState'[k] = state /\ \A l \in Tasks : l # k => sState'[l] = sState[l]
  BY DEF Outcome, TypeOK
<1>2. told'[k] = Append(told[k], state) /\ \A l \in Tasks : l # k => told'[l] = told[l]
  BY DEF Outcome, TypeOK
<1>3. told[k] \in Seq({"success", "fail", "cancel"})
  BY DEF TypeOK
<1>4. /\ Append(told[k], state) \in Seq({"success", "fail", "cancel"})
      /\ Len(Append(told[k], state)) = Len(told[k]) + 1
      /\ \A i \in 1 .. Len(told[k]) : Append(told[k], state)[i] = told[k][i]
      /\ Append(told[k], state)[Len(told[k]) + 1] = state
  BY <1>3, AppendProperties
<1>5. DOMAIN told'[k] = 1 .. Len(told[k]) + 1 /\ DOMAIN told[k] = 1 .. Len(told[k]) /\ Len(told[k]) \in Nat
  BY <1>2, <1>3, <1>4, LenProperties
<1>6. ASSUME NEW i \in DOMAIN told'[k], told'[k][i] = "success"
      PROVE  (\E j \in DOMAIN told[k] : told[k][j] = "success") \/ state = "success"
  <2>1. i \in 1 .. Len(told[k]) \/ i = Len(told[k]) + 1
    BY <1>5
  <2> QED
    BY <2>1, <1>2, <1>4, <1>5, <1>6
<1> QED
  BY <1>1, <1>2, <1>6

(* Files are left alone, and nobody is told of a success.                  *)
LEMMA FilesStay ==
  ASSUME TypeOK, TypeOK', FileInv, UNCHANGED <<rState, written>>,
         \A l \in Tasks : sent[l] <= sent'[l],
         \A l \in Tasks : \A i \in DOMAIN told'[l] : told'[l][i] = "success" =>
           (\E j \in DOMAIN told[l] : told[l][j] = "success") \/ rState[l] = "success"
  PROVE  FileInv'
<1> SUFFICES ASSUME NEW k \in Tasks
             PROVE  /\ rState'[k] # "none" => sent'[k] >= 1
                    /\ rState'[k] = "ing" => written'[k] = [i \in 1 .. Len(written'[k]) |-> i]
                    /\ rState'[k] = "success" => written'[k] = WholeFile(k)
                    /\ \A i \in DOMAIN told'[k] : told'[k][i] = "success" => rState'[k] = "success"
  BY DEF FileInv, WholeFile
<1>1. sent[k] \in Nat /\ sent'[k] \in Nat /\ sent[k] <= sent'[k]
  BY DEF TypeOK
<1>2. rState[k] # "none" => sent[k] >= 1
  BY DEF FileInv
<1>3. \A i \in DOMAIN told[k] : told[k][i] = "success" => rState[k] = "success"
  BY DEF FileInv
<1>4. /\ rState[k] = "ing" => written[k] = [i \in 1 .. Len(written[k]) |-> i]
      /\ rState[k] = "success" => written[k] = WholeFile(k)
  BY DEF FileInv
<1> QED
  BY <1>1, <1>2, <1>3, <1>4

(* Nothing is sent, received, answered or thrown away.                     *)
LEMMA NothingMoves ==
  ASSUME TypeOK, TypeOK', WireInv, FileInv, AnswerInv,
         UNCHANGED <<wire, sent, rState, written, receiving, ignored, breaks>>,
         \A l \in Tasks : sState'[l] = "ing" /\ sent[l] > 0 => sState[l] = "ing",
         \A l \in Tasks : \A i \in DOMAIN told'[l] : told'[l][i] = "success" =>
           \E j \in DOMAIN told[l] : told[l][j] = "success"
  PROVE  WireInv' /\ FileInv' /\ AnswerInv'
<1>1. \A l \in Tasks : sent[l] <= sent'[l]
  BY DEF TypeOK
<1>2. Steady
  BY <1>1 DEF Steady
<1>3. WireInv'
  BY <1>2, WireStays, WireInvShrinks
<1>4. FileInv'
  BY <1>1, FilesStay
<1>5. \A l \in Tasks : AnswerUnderWay(l) => AnswerUnderWay(l)'
  BY AnswerStays
<1>6. AnswerInv'
  BY <1>5 DEF AnswerInv
<1> QED
  BY <1>3, <1>4, <1>6

Inv == TaskInv /\ WireInv /\ FileInv /\ AnswerInv

(* The user's steps.                                                       *)
LEMMA UserKeeps ==
  ASSUME TypeOK, TypeOK', Inv, NEW k \in Tasks, CreateChecks(k) \/ CreateInserts(k) \/ Cancel(k)
  PROVE  Inv'
<1>t. Src[k] \in Terminals /\ k # None
  BY LinksOfTask, BigDataTransferAssumption
<1>1. CASE CreateChecks(k)
  <2>1. TaskInv'
    BY <1>1, <1>t DEF CreateChecks, Inv, TaskInv, TypeOK
  <2>2. WireInv' /\ FileInv' /\ AnswerInv'
    BY <1>1, NothingMoves DEF CreateChecks, Inv, receiver
  <2> QED
    BY <2>1, <2>2 DEF Inv
<1>2. CASE CreateInserts(k)
  <2>1. /\ creating[Src[k]] = k /\ creating' = [creating EXCEPT ![Src[k]] = None]
        /\ sState[k] = "none" /\ sent[k] = 0 /\ sent' = sent
    BY <1>2, <1>t DEF CreateInserts, Inv, TaskInv
  <2>2. \/ sState' = [sState EXCEPT ![k] = "ing"] /\ sending' = [sending EXCEPT ![Src[k]] = @ \cup {k}]
        \/ sState' = [sState EXCEPT ![k] = "fail"] /\ sending' = [sending EXCEPT ![Src[k]] = @ \cup {k}]
        \/ sState' = [sState EXCEPT ![k] = "refused"] /\ sending' = sending
    BY <1>2 DEF CreateInserts
  <2>3. \A l \in Tasks : l # k =>
          /\ sState'[l] = sState[l]
          /\ l \in sending'[Src[l]] <=> l \in sending[Src[l]]
    <3> SUFFICES ASSUME NEW l \in Tasks, l # k
                 PROVE  sState'[l] = sState[l] /\ (l \in sending'[Src[l]] <=> l \in sending[Src[l]])
      OBVIOUS
    <3>1. Src[l] \in Terminals
      BY LinksOfTask
    <3>2. sState'[l] = sState[l]
      BY <2>2 DEF TypeOK
    <3>3. sending \in [Terminals -> SUBSET Tasks]
      BY DEF TypeOK
    <3>4. l \in [sending EXCEPT ![Src[k]] = @ \cup {k}][Src[l]] <=> l \in sending[Src[l]]
      BY <3>1, <3>3, <1>t, MapMembers
    <3>5. l \in sending'[Src[l]] <=> l \in sending[Src[l]]
      BY <2>2, <3>4
    <3> QED
      BY <3>2, <3>5
  <2>4. sState'[k] # "none" /\ (sState'[k] = "ing" => k \in sending'[Src[k]])
    BY <2>2, <1>t DEF TypeOK
  <2>5. TaskInv'
    <3>1. \A t \in Terminals, l \in Tasks : creating'[t] = l => creating[t] = l /\ l # k
      <4> SUFFICES ASSUME NEW t \in Terminals, NEW l \in Tasks, creating'[t] = l
                   PROVE  creating[t] = l /\ l # k
        OBVIOUS
      <4>1. l # None
        BY BigDataTransferAssumption
      <4>2. t # Src[k] /\ creating[t] = l
        BY <2>1, <4>1, <1>t DEF TypeOK
      <4> QED
        BY <4>2, <1>t DEF Inv, TaskInv
    <3>2. \A t \in Terminals, l \in Tasks : creating'[t] = l => sState'[l] = "none" /\ t = Src[l]
      BY <3>1, <2>3 DEF Inv, TaskInv
    <3> QED
      BY <3>2, <2>1, <2>3, <2>4 DEF Inv, TaskInv
  <2>6. WireInv' /\ FileInv' /\ AnswerInv'
    <3>1. \A l \in Tasks : sState'[l] = "ing" /\ sent[l] > 0 => sState[l] = "ing"
      BY <2>1, <2>3
    <3> QED
      BY <1>2, <3>1, NothingMoves DEF CreateInserts, Inv, receiver
  <2> QED
    BY <2>5, <2>6 DEF Inv
<1>3. CASE Cancel(k)
  <2>1. /\ Outcome(k, "cancel") /\ k \in sending[Src[k]]
        /\ UNCHANGED <<creating, sending, sent, receiver, wire, breaks>>
    BY <1>3 DEF Cancel
  <2>2. /\ sState'[k] = "cancel" /\ \A l \in Tasks : l # k => sState'[l] = sState[l]
        /\ \A l \in Tasks : \A i \in DOMAIN told'[l] : told'[l][i] = "success" =>
             \E j \in DOMAIN told[l] : told[l][j] = "success"
    BY <2>1, ToldMore
  <2>3. sState[k] # "none"
    BY <2>1 DEF Inv, TaskInv
  <2>4. TaskInv'
    BY <2>1, <2>2, <2>3 DEF Inv, TaskInv
  <2>5. WireInv' /\ FileInv' /\ AnswerInv'
    BY <2>1, <2>2, NothingMoves DEF Inv, receiver
  <2> QED
    BY <2>4, <2>5 DEF Inv
<1> QED
  BY <1>1, <1>2, <1>3

(* A turn of a sending task puts the next packets on their way.            *)
LEMMA SendKeeps ==
  ASSUME TypeOK, TypeOK', Inv, NEW k \in Tasks, NEW n, SendTaskRuns(k, n)
  PROVE  Inv'
<1>1. /\ SendData(k, n) /\ sState[k] = "ing" /\ k \in sending[Src[k]]
      /\ UNCHANGED <<creating, sending, sState, told, receiver, breaks>>
  BY DEF SendTaskRuns
<1>2. /\ n \in Nat /\ sent'[k] = sent[k] + n
      /\ \A l \in Tasks : l # k => sent'[l] = sent[l]
  BY <1>1, WireTypeOfSend
<1>3. \A l \in Tasks : sent[l] <= sent'[l] /\ sent[l] \in Nat
  <2>1. \A l \in Tasks : sent[l] \in Nat
    BY DEF TypeOK
  <2>2. sent[k] <= sent'[k]
    BY <1>2, <2>1
  <2> QED
    BY <1>2, <2>1, <2>2
<1> DEFINE e == <<Src[k], Dst[k]>>
<1>e. e \in Links
  BY LinksOfTask
<1>4. PICK s : s = [i \in 1 .. n |-> Data(k, sent[k] + i)]
  OBVIOUS
<1>5. s \in Seq(Messages) /\ Len(s) = n /\ DOMAIN s = 1 .. n
  BY <1>2, <1>4, SentPackets
<1>6. wire' = [wire EXCEPT ![e] = @ \o s]
  BY <1>1, <1>4 DEF SendData
<1>7. /\ Grows(e, s)
      /\ \A i \in DOMAIN s : Len(wire[e]) + i \in DOMAIN wire'[e] /\ wire'[e][Len(wire[e]) + i] = s[i]
  BY <1>5, <1>6, <1>e, WireConcat
<1>8. \A i \in 1 .. n : s[i].kind = "data" /\ s[i].task = k /\ s[i].num = sent[k] + i
  BY <1>2, <1>3, <1>4, DataIsMessage
<1>9. Steady
  BY <1>1, <1>3 DEF Steady, receiver
<1>10. TaskInv'
  <2>1. \A l \in Tasks : sState[l] = "none" => sent'[l] = 0 /\ l \notin sending[Src[l]]
    BY <1>1, <1>2 DEF Inv, TaskInv
  <2> QED
    BY <1>1, <2>1 DEF Inv, TaskInv
<1>11. FileInv'
  BY <1>1, <1>3, FilesStay DEF Inv, receiver
<1>12. WireInv'
  <2>1. ASSUME NEW i \in DOMAIN s PROVE MessageOK(e, s[i])'
    <3>1. i \in 1 .. n /\ i >= 1 /\ i <= n /\ i \in Nat
      BY <1>2, <1>5
    <3>2. s[i].kind = "data" /\ s[i].task = k /\ s[i].num = sent[k] + i
      BY <1>8, <3>1
    <3>3. rState[k] # "none" => sent[k] >= 1
      BY DEF Inv, FileInv
    <3>4. s[i].num >= 1 /\ s[i].num <= sent'[k] /\ (rState'[k] # "none" => s[i].num > 1)
      BY <1>1, <1>2, <1>3, <3>1, <3>2, <3>3 DEF receiver
    <3> QED
      BY <3>2, <3>4 DEF MessageOK
  <2>2. \A i \in DOMAIN s : s[i].kind = "data" =>
          /\ s[i].num > sent[s[i].task]
          /\ \A d \in DOMAIN s : d < i /\ s[d].kind = "data" => s[d].num < s[i].num
    BY <1>2, <1>3, <1>5, <1>8
  <2> HIDE DEF e
  <2> QED
    BY <1>5, <1>7, <1>9, <1>e, <2>1, <2>2, WireInvGrows DEF Inv
<1>13. AnswerInv'
  <2> SUFFICES ASSUME NEW l \in Tasks, sState'[l] = "ing", sent'[l] > 0, l \notin ignored', breaks' = 0
               PROVE  l \in receiving'[Dst[l]] \/ AnswerUnderWay(l)'
    BY DEF AnswerInv
  <2>1. CASE sent[l] > 0
    <3>1. l \in receiving[Dst[l]] \/ AnswerUnderWay(l)
      BY <1>1, <2>1 DEF Inv, AnswerInv, receiver
    <3>2. AnswerUnderWay(l) => AnswerUnderWay(l)'
      BY <1>5, <1>7, <1>e, AnswerStays
    <3> QED
      BY <1>1, <3>1, <3>2 DEF receiver
  <2>2. CASE sent[l] = 0
    <3>1. l = k /\ 1 \in 1 .. n /\ sent[k] = 0
      BY <1>2, <2>2
    <3>2. s[1].task = k /\ s[1].num = 1
      BY <1>8, <3>1
    <3>3. Len(wire[e]) + 1 \in DOMAIN wire'[e] /\ wire'[e][Len(wire[e]) + 1] = s[1]
      BY <1>5, <1>7, <3>1
    <3> QED
      BY <1>e, <3>1, <3>2, <3>3 DEF AnswerUnderWay
  <2> QED
    BY <2>1, <2>2, <1>3
<1> QED
  BY <1>10, <1>11, <1>12, <1>13 DEF Inv

LEMMA SendTaskKeeps ==
  ASSUME TypeOK, TypeOK', Inv, NEW k \in Tasks, SendTask(k)
  PROVE  Inv'
<1>t. Src[k] \in Terminals
  BY LinksOfTask
<1>1. CASE SendTaskEnds(k)
  <2>1. /\ sState[k] \in {"success", "fail", "cancel"}
        /\ sending' = [sending EXCEPT ![Src[k]] = @ \ {k}]
        /\ UNCHANGED <<creating, sState, sent, told, receiver, wire, breaks>>
    BY <1>1 DEF SendTaskEnds
  <2>2. \A l \in Tasks : /\ l \in sending'[Src[l]] => l \in sending[Src[l]]
                        /\ l # k /\ l \in sending[Src[l]] => l \in sending'[Src[l]]
    <3> SUFFICES ASSUME NEW l \in Tasks
                 PROVE  /\ l \in sending'[Src[l]] => l \in sending[Src[l]]
                        /\ l # k /\ l \in sending[Src[l]] => l \in sending'[Src[l]]
      OBVIOUS
    <3>1. Src[l] \in Terminals /\ sending \in [Terminals -> SUBSET Tasks]
      BY LinksOfTask DEF TypeOK
    <3>2. sending'[Src[l]] = IF Src[l] = Src[k] THEN sending[Src[l]] \ {k} ELSE sending[Src[l]]
      BY <2>1, <3>1, <1>t, MapMembers
    <3> QED
      BY <3>2
  <2>3. TaskInv'
    BY <2>1, <2>2 DEF Inv, TaskInv
  <2>4. WireInv' /\ FileInv' /\ AnswerInv'
    BY <2>1, NothingMoves DEF Inv, receiver
  <2> QED
    BY <2>3, <2>4 DEF Inv
<1>2. CASE SendTaskFails(k)
  <2>1. /\ sState[k] = "ing" /\ Outcome(k, "fail")
        /\ sending' = [sending EXCEPT ![Src[k]] = @ \ {k}]
        /\ UNCHANGED <<creating, sent, receiver, wire, breaks>>
    BY <1>2 DEF SendTaskFails
  <2>2. \A l \in Tasks : /\ l \in sending'[Src[l]] => l \in sending[Src[l]]
                        /\ l # k /\ l \in sending[Src[l]] => l \in sending'[Src[l]]
    <3> SUFFICES ASSUME NEW l \in Tasks
                 PROVE  /\ l \in sending'[Src[l]] => l \in sending[Src[l]]
                        /\ l # k /\ l \in sending[Src[l]] => l \in sending'[Src[l]]
      OBVIOUS
    <3>1. Src[l] \in Terminals /\ sending \in [Terminals -> SUBSET Tasks]
      BY LinksOfTask DEF TypeOK
    <3>2. sending'[Src[l]] = IF Src[l] = Src[k] THEN sending[Src[l]] \ {k} ELSE sending[Src[l]]
      BY <2>1, <3>1, <1>t, MapMembers
    <3> QED
      BY <3>2
  <2>3. /\ sState'[k] = "fail" /\ \A l \in Tasks : l # k => sState'[l] = sState[l]
        /\ \A l \in Tasks : \A i \in DOMAIN told'[l] : told'[l][i] = "success" =>
             \E j \in DOMAIN told[l] : told[l][j] = "success"
    BY <2>1, ToldMore
  <2>4. TaskInv'
    BY <2>1, <2>2, <2>3 DEF Inv, TaskInv
  <2>5. WireInv' /\ FileInv' /\ AnswerInv'
    BY <2>1, <2>3, NothingMoves DEF Inv, receiver
  <2> QED
    BY <2>4, <2>5 DEF Inv
<1>3. CASE \E n \in 0 .. Packets[k] : SendTaskGoesOn(k, n) \/ SendTaskGivesUp(k, n)
  <2>1. PICK n : SendTaskRuns(k, n)
    BY <1>3 DEF SendTaskGoesOn, SendTaskGivesUp
  <2> QED
    BY <2>1, SendKeeps
<1> QED
  BY <1>1, <1>2, <1>3 DEF SendTask

(* A receiving task's verdict is put on its way when the task is erased.   *)
LEMMA AnswerKeeps ==
  ASSUME TypeOK, TypeOK', WireInv, AnswerInv, Steady, NEW k \in Tasks, NEW kind \in {"success", "failed"},
         Answers(k, kind), kind = "success" => rState'[k] = "success",
         UNCHANGED <<sState, sent, ignored, breaks>>
  PROVE  WireInv' /\ AnswerInv'
<1>1. CASE wire' = wire /\ NotSent(k)
  <2>1. WireInv'
    BY <1>1, WireStays, WireInvShrinks
  <2>2. \A l \in Tasks : AnswerUnderWay(l) => AnswerUnderWay(l)'
    BY <1>1, AnswerStays
  <2>3. AnswerInv'
    BY <1>1, <2>2 DEF AnswerInv, NotSent
  <2> QED
    BY <2>1, <2>3
<1>2. CASE Verdict(k, kind) /\ Erased(k)
  <2> DEFINE e == <<Dst[k], Src[k]>>
  <2>e. e \in Links /\ Dst[k] \in Terminals
    BY LinksOfTask
  <2>1. PICK m : m = [kind |-> kind, task |-> k, num |-> 0]
    OBVIOUS
  <2>2. m \in Messages /\ m.kind = kind /\ m.task = k
    BY <2>1 DEF Messages
  <2>3. PICK s : s = <<m>>
    OBVIOUS
  <2>4. s \in Seq(Messages) /\ DOMAIN s = {1} /\ s[1] = m
    BY <2>2, <2>3
  <2>5. wire' = [wire EXCEPT ![e] = @ \o s]
    <3>1. wire' = [wire EXCEPT ![e] = Append(@, m)]
      BY <1>2, <2>1 DEF Verdict
    <3>2. Append(wire[e], m) = wire[e] \o s
      <4>1. wire[e] \in Seq(Messages)
        BY <2>e DEF TypeOK
      <4> HIDE DEF e
      <4> QED
        BY <2>2, <2>3, <4>1, AppendIsConcat
    <3> QED
      BY <3>1, <3>2
  <2>6. /\ Grows(e, s)
        /\ Len(wire[e]) + 1 \in DOMAIN wire'[e] /\ wire'[e][Len(wire[e]) + 1] = m
    <3> HIDE DEF e
    <3>1. /\ Grows(e, s)
          /\ \A n \in DOMAIN s : Len(wire[e]) + n \in DOMAIN wire'[e] /\ wire'[e][Len(wire[e]) + n] = s[n]
      BY <2>4, <2>5, <2>e, WireConcat
    <3> QED
      BY <2>4, <3>1
  <2>7. \A n \in DOMAIN s : s[n] = m
    BY <2>4
  <2>8. MessageOK(e, m)'
    BY <2>2 DEF MessageOK
  <2>9. WireInv'
    <3>1. \A n \in DOMAIN s : MessageOK(e, s[n])'
      BY <2>7, <2>8
    <3>2. m.kind # "data"
      BY <2>2
    <3>3. \A n \in DOMAIN s : s[n].kind = "data" =>
            /\ s[n].num > sent[s[n].task]
            /\ \A d \in DOMAIN s : d < n /\ s[d].kind = "data" => s[d].num < s[n].num
      BY <2>7, <3>2
    <3> HIDE DEF e
    <3> QED
      BY <2>4, <2>6, <2>e, <3>1, <3>3, WireInvGrows
  <2>10. AnswerUnderWay(k)'
    <3>1. m.kind # "data"
      BY <2>2
    <3> QED
      BY <2>2, <2>6, <2>e, <3>1 DEF AnswerUnderWay
  <2>11. \A l \in Tasks : AnswerUnderWay(l) => AnswerUnderWay(l)'
    BY <2>4, <2>6, <2>e, AnswerStays
  <2>12. \A l \in Tasks : l # k /\ l \in receiving[Dst[l]] => l \in receiving'[Dst[l]]
    <3> SUFFICES ASSUME NEW l \in Tasks, l # k, l \in receiving[Dst[l]]
                 PROVE  l \in receiving'[Dst[l]]
      OBVIOUS
    <3>1. Dst[l] \in Terminals /\ receiving \in [Terminals -> SUBSET Tasks]
      BY LinksOfTask DEF TypeOK
    <3>2. receiving'[Dst[l]] = IF Dst[l] = Dst[k] THEN receiving[Dst[l]] \ {k} ELSE receiving[Dst[l]]
      BY <1>2, <2>e, <3>1, MapMembers DEF Erased
    <3> QED
      BY <3>2
  <2>13. AnswerInv'
    BY <2>10, <2>11, <2>12 DEF AnswerInv
  <2> QED
    BY <2>9, <2>13
<1> QED
  BY <1>1, <1>2 DEF Answers

(* The file of one receiving task changes.                                 *)
LEMMA OneFileChanges ==
  ASSUME TypeOK, TypeOK', FileInv, NEW k \in Tasks, UNCHANGED <<sent, told>>,
         \A l \in Tasks : l # k => rState'[l] = rState[l] /\ written'[l] = written[l],
         rState[k] = "ing",
         \/ rState'[k] = "failed"
         \/ rState'[k] = "ing" /\ written'[k] = [i \in 1 .. Len(written'[k]) |-> i]
         \/ rState'[k] = "success" /\ written'[k] = WholeFile(k)
  PROVE  FileInv'
<1> SUFFICES ASSUME NEW l \in Tasks
             PROVE  /\ rState'[l] # "none" => sent'[l] >= 1
                    /\ rState'[l] = "ing" => written'[l] = [i \in 1 .. Len(written'[l]) |-> i]
                    /\ rState'[l] = "success" => written'[l] = WholeFile(l)
                    /\ \A i \in DOMAIN told'[l] : told'[l][i] = "success" => rState'[l] = "success"
  BY DEF FileInv, WholeFile
<1>0. /\ rState[l] # "none" => sent[l] >= 1
      /\ rState[l] = "ing" => written[l] = [i \in 1 .. Len(written[l]) |-> i]
      /\ rState[l] = "success" => written[l] = WholeFile(l)
      /\ \A i \in DOMAIN told[l] : told[l][i] = "success" => rState[l] = "success"
  BY DEF FileInv
<1>1. CASE l # k
  BY <1>0, <1>1
<1>2. CASE l = k
  BY <1>0, <1>2
<1> QED
  BY <1>1, <1>2

(* What is in order in the queue continues what is written.                *)
LEMMA WritesOn ==
  ASSUME TypeOK, FileInv, NEW k \in Tasks, rState[k] = "ing", Unexpected(k) = {}
  PROVE  LET w == written[k] \o queue[k]
         IN  Len(w) \in Nat /\ w = [i \in 1 .. Len(w) |-> i]
<1> DEFINE w == written[k] \o queue[k]
<1>1. written[k] \in Seq(Nat) /\ queue[k] \in Seq(Nat)
  BY DEF TypeOK
<1>2. /\ Len(written[k]) \in Nat /\ Len(queue[k]) \in Nat
      /\ DOMAIN queue[k] = 1 .. Len(queue[k])
      /\ w \in Seq(Nat) /\ Len(w) = Len(written[k]) + Len(queue[k])
      /\ \A i \in 1 .. Len(written[k]) + Len(queue[k]) :
           w[i] = IF i <= Len(written[k]) THEN written[k][i] ELSE queue[k][i - Len(written[k])]
  <2>1. /\ w \in Seq(Nat) /\ Len(w) = Len(written[k]) + Len(queue[k])
        /\ \A i \in 1 .. Len(written[k]) + Len(queue[k]) :
             w[i] = IF i <= Len(written[k]) THEN written[k][i] ELSE queue[k][i - Len(written[k])]
    BY <1>1, ConcatProperties
  <2>2. /\ Len(written[k]) \in Nat /\ Len(queue[k]) \in Nat
        /\ DOMAIN queue[k] = 1 .. Len(queue[k])
    BY <1>1, LenProperties
  <2> HIDE DEF w
  <2> QED
    BY <2>1, <2>2
<1>3. \A i \in 1 .. Len(queue[k]) : queue[k][i] = Len(written[k]) + i
  BY <1>2 DEF Unexpected, Expected
<1>4. \A i \in 1 .. Len(written[k]) : written[k][i] = i
  <2>1. written[k] = [i \in 1 .. Len(written[k]) |-> i]
    BY DEF FileInv
  <2> QED
    BY <2>1
<1> HIDE DEF w
<1>5. ASSUME NEW i \in 1 .. Len(w) PROVE w[i] = i
  <2> DEFINE p == Len(written[k])
             q == Len(queue[k])
  <2>0. p \in Nat /\ q \in Nat /\ i \in 1 .. p + q
    BY <1>2, <1>5
  <2>a. w[i] = IF i <= p THEN written[k][i] ELSE queue[k][i - p]
    BY <1>2, <2>0
  <2>b. (\A d \in 1 .. p : written[k][d] = d) /\ (\A d \in 1 .. q : queue[k][d] = p + d)
    BY <1>3, <1>4
  <2> HIDE DEF p, q
  <2>1. CASE i <= p
    <3>1. i \in 1 .. p
      BY <2>0, <2>1
    <3> QED
      BY <2>1, <2>a, <2>b, <3>1
  <2>2. CASE ~(i <= p)
    <3>1. i - p \in 1 .. q /\ p + (i - p) = i
      BY <2>0, <2>2
    <3> QED
      BY <2>2, <2>a, <2>b, <3>1
  <2> QED
    BY <2>1, <2>2
<1>6. DOMAIN w = 1 .. Len(w) /\ Len(w) \in Nat
  BY <1>2, LenProperties
<1>7. w = [i \in DOMAIN w |-> w[i]]
  <2>1. w \in UNION {[1 .. n -> Nat] : n \in Nat}
    BY <1>2, SeqDef
  <2> QED
    BY <2>1
<1>8. w = [i \in 1 .. Len(w) |-> i]
  BY <1>5, <1>6, <1>7
<1> QED
  BY <1>6, <1>8 DEF w

(* A turn of a receiving task.                                             *)
LEMMA RecvTaskKeeps ==
  ASSUME TypeOK, TypeOK', Inv, NEW k \in Tasks, RecvTask(k)
  PROVE  Inv'
<1>1. UNCHANGED <<sender, ignored, breaks>>
  BY DEF RecvTask, RecvTaskWrites, RecvTaskMisses, RecvTaskCannotWrite, RecvTaskTimesOut, RecvTaskAnswers
<1>2. TaskInv'
  BY <1>1 DEF Inv, TaskInv, sender
<1>3. \A l \in Tasks : sent[l] <= sent'[l]
  BY <1>1 DEF TypeOK, sender
<1>4. ASSUME rState[k] = "ing", Fails(k),
             \A l \in Tasks : l # k => written'[l] = written[l]
      PROVE  Inv'
  <2>1. rState'[k] = "failed" /\ \A l \in Tasks : l # k => rState'[l] = rState[l]
    BY <1>4 DEF Fails, TypeOK
  <2>2. Steady
    <3>1. \A l \in Tasks : (rState'[l] # "none" => rState[l] # "none") /\ (rState[l] = "success" => rState'[l] = "success")
      BY <1>4, <2>1
    <3>2. \A e \in Links : \A i \in DOMAIN wire'[e] : wire'[e][i].task \in Tasks
      <4> SUFFICES ASSUME NEW e \in Links, NEW i \in DOMAIN wire'[e]
                   PROVE  wire'[e][i].task \in Tasks
        OBVIOUS
      <4>1. wire'[e][i] \in Messages
        BY LenProperties, ElementOfSeq DEF TypeOK
      <4> QED
        BY <4>1 DEF Messages
    <3> QED
      BY <1>3, <3>1, <3>2 DEF Steady
  <2>3. WireInv' /\ AnswerInv'
    BY <1>1, <1>4, <2>2, AnswerKeeps DEF Fails, Inv, sender
  <2>4. FileInv'
    BY <1>1, <1>4, <2>1, OneFileChanges DEF Inv, sender
  <2> QED
    BY <1>2, <2>3, <2>4 DEF Inv
<1>5. CASE RecvTaskWrites(k)
  <2>1. /\ rState[k] = "ing" /\ Unexpected(k) = {}
        /\ written' = [written EXCEPT ![k] = @ \o queue[k]]
    BY <1>5 DEF RecvTaskWrites
  <2>2. written'[k] = written[k] \o queue[k] /\ \A l \in Tasks : l # k => written'[l] = written[l]
    BY <2>1 DEF TypeOK
  <2>3. Len(written'[k]) \in Nat /\ written'[k] = [i \in 1 .. Len(written'[k]) |-> i]
    BY <2>1, <2>2, WritesOn DEF Inv
  <2>4. CASE Fails(k)
    BY <1>4, <2>1, <2>2, <2>4
  <2>5. CASE /\ \/ rState' = rState
                \/ Complete(k, Len(written'[k])) /\ rState' = [rState EXCEPT ![k] = "success"]
             /\ UNCHANGED <<receiving, wire>>
    <3>1. /\ \A l \in Tasks : l # k => rState'[l] = rState[l]
          /\ rState'[k] = "ing" \/ (rState'[k] = "success" /\ Complete(k, Len(written'[k])))
      BY <2>1, <2>5 DEF TypeOK
    <3>2. rState'[k] = "success" => written'[k] = WholeFile(k)
      BY <2>3, <3>1 DEF Complete, WholeFile
    <3>3. FileInv'
      BY <1>1, <2>1, <2>2, <2>3, <3>1, <3>2, OneFileChanges DEF Inv, sender
    <3>4. Steady
      <4>1. \A l \in Tasks : (rState'[l] # "none" => rState[l] # "none") /\ (rState[l] = "success" => rState'[l] = "success")
        BY <2>1, <3>1
      <4>2. \A e \in Links : \A i \in DOMAIN wire'[e] : wire'[e][i].task \in Tasks
        BY <2>5, WireDomain DEF Messages
      <4> QED
        BY <1>3, <4>1, <4>2 DEF Steady
    <3>5. WireInv'
      BY <2>5, <3>4, WireStays, WireInvShrinks DEF Inv
    <3>6. AnswerInv'
      <4>1. \A l \in Tasks : AnswerUnderWay(l) => AnswerUnderWay(l)'
        BY <2>5, AnswerStays
      <4> QED
        BY <1>1, <2>5, <4>1 DEF Inv, AnswerInv, sender
    <3> QED
      BY <1>2, <3>3, <3>5, <3>6 DEF Inv
  <2> QED
    BY <1>5, <2>4, <2>5 DEF RecvTaskWrites
<1>6. CASE RecvTaskMisses(k)
  <2>1. /\ rState[k] = "ing" /\ Fails(k)
        /\ \E s : written' = [written EXCEPT ![k] = @ \o s]
    BY <1>6 DEF RecvTaskMisses
  <2>2. \A l \in Tasks : l # k => written'[l] = written[l]
    BY <2>1 DEF TypeOK
  <2> QED
    BY <1>4, <2>1, <2>2
<1>7. CASE RecvTaskCannotWrite(k)
  <2>1. /\ rState[k] = "ing" /\ Fails(k)
        /\ \E s : written' = [written EXCEPT ![k] = @ \o s]
    BY <1>7 DEF RecvTaskCannotWrite
  <2>2. \A l \in Tasks : l # k => written'[l] = written[l]
    BY <2>1 DEF TypeOK
  <2> QED
    BY <1>4, <2>1, <2>2
<1>8. CASE RecvTaskTimesOut(k)
  BY <1>4, <1>8 DEF RecvTaskTimesOut
<1>9. CASE RecvTaskAnswers(k)
  <2>1. /\ rState[k] \in {"success", "failed"} /\ Answers(k, rState[k])
        /\ UNCHANGED <<rState, written>>
    BY <1>9 DEF RecvTaskAnswers
  <2>2. Steady
    BY <1>3, <2>1 DEF Steady
  <2>3. WireInv' /\ AnswerInv'
    <3>1. PICK kind : kind = rState[k]
      OBVIOUS
    <3>2. kind \in {"success", "failed"} /\ Answers(k, kind) /\ (kind = "success" => rState'[k] = "success")
      BY <2>1, <3>1
    <3> QED
      BY <1>1, <2>2, <3>2, AnswerKeeps DEF Inv, sender
  <2>4. FileInv'
    BY <1>1, <1>3, <2>1, FilesStay DEF Inv, sender
  <2> QED
    BY <1>2, <2>3, <2>4 DEF Inv
<1> QED
  BY <1>5, <1>6, <1>7, <1>8, <1>9 DEF RecvTask

(* What arrives at the sending terminal.                                   *)
LEMMA AnsweredKeeps ==
  ASSUME TypeOK, TypeOK', Inv, NEW k \in Tasks, DispatchSuccess(k) \/ DispatchFailed(k)
  PROVE  Inv'
<1> DEFINE e == <<Dst[k], Src[k]>>
<1>e. e \in Links
  BY LinksOfTask
<1>1. PICK kind \in {"success", "failed"} :
        /\ Answered(k, kind)
        /\ \/ UNCHANGED <<sState, told>> /\ (k \in sending[Src[k]] => sState[k] # "ing")
           \/ /\ kind = "success" /\ Outcome(k, "success") /\ k \in sending[Src[k]]
           \/ /\ kind = "failed" /\ Outcome(k, "fail") /\ k \in sending[Src[k]]
        /\ UNCHANGED <<creating, sending, sent, receiver, breaks>>
  BY DEF DispatchSuccess, DispatchFailed
<1>2. PICK m : m = [kind |-> kind, task |-> k, num |-> 0]
  OBVIOUS
<1>3. Arrives(e, m)
  BY <1>1, <1>2 DEF Answered
<1>4. m.kind = kind /\ m.task = k /\ m.kind # "data"
  BY <1>2
<1> HIDE DEF e
<1>5. Shrinks /\ 1 \in DOMAIN wire[e] /\ m = wire[e][1]
  BY <1>3, <1>e, WireArrives
<1>6. MessageOK(e, m)
  BY <1>5, <1>e DEF Inv, WireInv
<1>7. kind = "success" => rState[k] = "success"
  BY <1>4, <1>6 DEF MessageOK
<1>8. \A l \in Tasks : sent[l] <= sent'[l]
  BY <1>1 DEF TypeOK
<1>9. Steady
  BY <1>1, <1>8 DEF Steady, receiver
<1>10. WireInv'
  BY <1>5, <1>9, WireInvShrinks DEF Inv
<1>11. /\ \A l \in Tasks : l # k => sState'[l] = sState[l]
       /\ sState'[k] # "ing" /\ (sState'[k] = "none" => sState[k] = "none")
       /\ \A l \in Tasks : \A i \in DOMAIN told'[l] : told'[l][i] = "success" =>
            (\E j \in DOMAIN told[l] : told[l][j] = "success") \/ rState[l] = "success"
  <2>1. CASE UNCHANGED <<sState, told>> /\ (k \in sending[Src[k]] => sState[k] # "ing")
    <3>1. sState[k] # "ing"
      BY <2>1 DEF Inv, TaskInv
    <3> QED
      BY <2>1, <3>1
  <2>2. CASE kind = "success" /\ Outcome(k, "success")
    BY <2>2, <1>7, ToldMore
  <2>3. CASE Outcome(k, "fail")
    BY <2>3, ToldMore
  <2> QED
    BY <1>1, <2>1, <2>2, <2>3
<1>12. TaskInv'
  <2>1. \A l \in Tasks : sState[l] = "none" => l \notin sending[Src[l]]
    BY DEF Inv, TaskInv
  <2>2. ASSUME NEW t \in Terminals, NEW l \in Tasks, creating[t] = l
        PROVE  sState'[l] = "none" /\ t = Src[l]
    <3>1. sState[l] = "none" /\ t = Src[l] /\ l \notin sending[Src[l]]
      BY <2>1, <2>2 DEF Inv, TaskInv
    <3>2. l = k => UNCHANGED sState
      BY <1>1, <3>1
    <3> QED
      BY <1>11, <3>1, <3>2
  <2>3. \A l \in Tasks : sState'[l] = "none" => sent[l] = 0 /\ l \notin sending[Src[l]]
    BY <1>11 DEF Inv, TaskInv
  <2>4. \A l \in Tasks : sState'[l] = "ing" => l \in sending[Src[l]]
    BY <1>11 DEF Inv, TaskInv
  <2> QED
    BY <1>1, <2>2, <2>3, <2>4 DEF TaskInv
<1>13. FileInv'
  BY <1>1, <1>8, <1>11, FilesStay DEF Inv, receiver
<1>14. AnswerInv'
  <2>1. \A l \in Tasks : l # k /\ AnswerUnderWay(l) => AnswerUnderWay(l)'
    BY <1>3, <1>4, <1>e, AnswerPassedBy
  <2> QED
    BY <1>1, <1>11, <2>1 DEF Inv, AnswerInv, receiver
<1> QED
  BY <1>10, <1>12, <1>13, <1>14 DEF Inv

(* What arrives at the receiving terminal.                                 *)
LEMMA DataKeeps ==
  ASSUME TypeOK, TypeOK', Inv, NEW k \in Tasks, NEW i \in Nat, DispatchData(k, i)
  PROVE  Inv'
<1> DEFINE e == <<Src[k], Dst[k]>>
<1>e. e \in Links /\ Dst[k] \in Terminals
  BY LinksOfTask
<1>1. Arrives(e, Data(k, i)) /\ UNCHANGED <<sender, breaks>>
  BY DEF DispatchData
<1>2. PICK m : m = Data(k, i)
  OBVIOUS
<1>3. m.kind = "data" /\ m.task = k /\ m.num = i
  BY <1>2, DataIsMessage
<1>4. /\ Shrinks /\ 1 \in DOMAIN wire[e] /\ m = wire[e][1]
      /\ \A g \in Links : g # e => wire'[g] = wire[g]
      /\ \A d \in DOMAIN wire'[e] : d \in Nat /\ d + 1 \in DOMAIN wire[e] /\ wire'[e][d] = wire[e][d + 1] /\ d + 1 > 1
  <2>1. Arrives(e, m)
    BY <1>1, <1>2
  <2> HIDE DEF e
  <2> QED
    BY <2>1, <1>e, WireArrives
<1>5. sent[k] >= 1 /\ (i = 1 => rState[k] = "none")
  <2>1. MessageOK(e, m)
    BY <1>4, <1>e DEF Inv, WireInv
  <2>2. sent[k] \in Nat
    BY DEF TypeOK
  <2> QED
    BY <1>3, <2>1, <2>2 DEF MessageOK
<1>6. \A l \in Tasks : sent[l] <= sent'[l]
  BY <1>1 DEF TypeOK, sender
<1>7. TaskInv'
  BY <1>1 DEF Inv, TaskInv, sender
<1>8. \A l \in Tasks : (l = k => i # 1) /\ AnswerUnderWay(l) => AnswerUnderWay(l)'
  BY <1>1, <1>2, <1>3, <1>e, AnswerPassedBy
<1>9. CASE UNCHANGED <<receiving, rState, written>> /\ ignored \subseteq ignored' /\ (i = 1 => k \in ignored' \/ k \in receiving[Dst[k]])
  <2>1. Steady
    BY <1>6, <1>9 DEF Steady
  <2>2. WireInv'
    BY <1>4, <2>1, WireInvShrinks DEF Inv
  <2>3. FileInv'
    BY <1>1, <1>6, <1>9, FilesStay DEF Inv, sender
  <2>4. AnswerInv'
    BY <1>1, <1>8, <1>9 DEF Inv, AnswerInv, sender
  <2> QED
    BY <1>7, <2>2, <2>3, <2>4 DEF Inv
<1>10. CASE /\ i = 1 /\ receiving' = [receiving EXCEPT ![Dst[k]] = @ \cup {k}]
            /\ written' = [written EXCEPT ![k] = <<>>]
            /\ \E state \in {"ing", "failed"} : rState' = [rState EXCEPT ![k] = state]
            /\ UNCHANGED ignored
  <2>1. /\ rState'[k] \in {"ing", "failed"} /\ \A l \in Tasks : l # k => rState'[l] = rState[l]
        /\ written'[k] = <<>> /\ \A l \in Tasks : l # k => written'[l] = written[l]
    BY <1>10 DEF TypeOK
  <2>2. Steady
    <3>1. \A l \in Tasks : rState[l] = "success" => rState'[l] = "success"
      BY <1>5, <1>10, <2>1
    <3>2. ASSUME NEW g \in Links, NEW d \in DOMAIN wire'[g], wire'[g][d].kind = "data", wire'[g][d].task = k
          PROVE  wire'[g][d].num > 1
      <4>1. PICK c \in DOMAIN wire[g] : wire'[g][d] = wire[g][c] /\ (g = e => c > 1)
        <5>1. CASE g = e
          BY <1>4, <5>1
        <5>2. CASE g # e
          BY <1>4, <5>2
        <5> QED
          BY <5>1, <5>2
      <4>2. MessageOK(g, wire[g][c])
        BY DEF Inv, WireInv
      <4>3. g = e
        BY <3>2, <4>1, <4>2 DEF MessageOK
      <4>4. c > 1 /\ 1 \in DOMAIN wire[e] /\ wire[e][1].num = 1 /\ wire[e][1].task = k /\ wire[e][1].kind = "data"
        BY <1>3, <1>4, <1>10, <4>1, <4>3
      <4>5. wire[e][1].num < wire[e][c].num
        BY <1>e, <3>2, <4>1, <4>3, <4>4 DEF Inv, WireInv
      <4> QED
        BY <4>1, <4>3, <4>4, <4>5
    <3>3. \A g \in Links : \A d \in DOMAIN wire'[g] : wire'[g][d].task \in Tasks
      <4> SUFFICES ASSUME NEW g \in Links, NEW d \in DOMAIN wire'[g]
                   PROVE  wire'[g][d].task \in Tasks
        OBVIOUS
      <4>1. wire'[g][d] \in Messages
        BY LenProperties, ElementOfSeq DEF TypeOK
      <4> QED
        BY <4>1 DEF Messages
    <3>4. ASSUME NEW g \in Links, NEW d \in DOMAIN wire'[g], wire'[g][d].kind = "data",
                 rState'[wire'[g][d].task] # "none", rState[wire'[g][d].task] = "none"
          PROVE  wire'[g][d].num > 1
      BY <2>1, <3>2, <3>3, <3>4
    <3> QED
      BY <1>6, <3>1, <3>4 DEF Steady
  <2>3. WireInv'
    BY <1>4, <2>2, WireInvShrinks DEF Inv
  <2>4. FileInv'
    <3> SUFFICES ASSUME NEW l \in Tasks
                 PROVE  /\ rState'[l] # "none" => sent'[l] >= 1
                        /\ rState'[l] = "ing" => written'[l] = [d \in 1 .. Len(written'[l]) |-> d]
                        /\ rState'[l] = "success" => written'[l] = WholeFile(l)
                        /\ \A d \in DOMAIN told'[l] : told'[l][d] = "success" => rState'[l] = "success"
      BY DEF FileInv, WholeFile
    <3>0. /\ rState[l] # "none" => sent[l] >= 1
          /\ rState[l] = "ing" => written[l] = [d \in 1 .. Len(written[l]) |-> d]
          /\ rState[l] = "success" => written[l] = WholeFile(l)
          /\ \A d \in DOMAIN told[l] : told[l][d] = "success" => rState[l] = "success"
      BY DEF Inv, FileInv
    <3>1. CASE l # k
      BY <1>1, <2>1, <3>0, <3>1 DEF sender
    <3>2. CASE l = k
      <4>1. <<>> = [d \in 1 .. Len(<<>>) |-> d]
        OBVIOUS
      <4>2. sent'[k] >= 1 /\ rState[k] = "none" /\ told' = told
        BY <1>1, <1>5, <1>10 DEF sender
      <4> QED
        BY <2>1, <3>0, <3>2, <4>1, <4>2
    <3> QED
      BY <3>1, <3>2
  <2>5. AnswerInv'
    <3>1. ASSUME NEW l \in Tasks
          PROVE  /\ l \in receiving[Dst[l]] => l \in receiving'[Dst[l]]
                 /\ l = k => l \in receiving'[Dst[l]]
      <4>1. Dst[l] \in Terminals /\ receiving \in [Terminals -> SUBSET Tasks]
        BY LinksOfTask DEF TypeOK
      <4>2. receiving'[Dst[l]] = IF Dst[l] = Dst[k] THEN receiving[Dst[l]] \cup {k} ELSE receiving[Dst[l]]
        BY <1>10, <1>e, <4>1, MapMembers
      <4> QED
        BY <4>2
    <3> QED
      BY <1>1, <1>8, <1>10, <3>1 DEF Inv, AnswerInv, sender
  <2> QED
    BY <1>7, <2>3, <2>4, <2>5 DEF Inv
<1> QED
  BY <1>9, <1>10 DEF DispatchData, receiver

(* MRUDP loses what it carries.                                            *)
LEMMA BreakKeeps ==
  ASSUME TypeOK, TypeOK', Inv, NEW e \in Links, Break(e)
  PROVE  Inv'
<1>1. breaks' = breaks + 1 /\ UNCHANGED <<sender, receiver>>
  BY DEF Break
<1>2. \A l \in Tasks : sent[l] <= sent'[l]
  BY <1>1 DEF TypeOK, sender
<1>3. Steady
  BY <1>1, <1>2 DEF Steady, receiver
<1>4. WireInv'
  BY <1>3, WireBreaks, WireInvShrinks DEF Inv
<1>5. FileInv'
  BY <1>1, <1>2, FilesStay DEF Inv, sender, receiver
<1>6. TaskInv'
  BY <1>1 DEF Inv, TaskInv, sender
<1>7. AnswerInv'
  <2>1. breaks' # 0
    BY <1>1 DEF TypeOK
  <2> QED
    BY <2>1 DEF AnswerInv
<1> QED
  BY <1>4, <1>5, <1>6, <1>7 DEF Inv

-----------------------------------------------------------------------------
LEMMA InitInv == Init => Inv
<1> SUFFICES ASSUME Init PROVE Inv
  OBVIOUS
<1>1. TaskInv
  BY LinksOfTask, BigDataTransferAssumption DEF Init, TaskInv
<1>2. WireInv
  BY DEF Init, WireInv
<1>3. FileInv
  BY DEF Init, FileInv
<1>4. AnswerInv
  BY DEF Init, AnswerInv
<1> QED
  BY <1>1, <1>2, <1>3, <1>4 DEF Inv

LEMMA StepInv == TransferInv /\ [Next]_vars => TransferInv'
<1> SUFFICES ASSUME TypeOK, Inv, [Next]_vars PROVE TypeOK' /\ Inv'
  BY DEF TransferInv, Inv
<1>1. TypeOK'
  BY TypesKept
<1>2. CASE UNCHANGED vars
  <2>1. UNCHANGED <<sender, receiver, wire, breaks>>
    BY <1>2 DEF vars
  <2>2. TaskInv'
    BY <2>1 DEF Inv, TaskInv, sender
  <2>3. WireInv' /\ FileInv' /\ AnswerInv'
    BY <1>1, <2>1, NothingMoves DEF Inv, sender, receiver
  <2> QED
    BY <1>1, <2>2, <2>3 DEF Inv
<1>3. ASSUME NEW k \in Tasks, Dispatch(k) PROVE Inv'
  <2>1. ASSUME NEW i \in 1 .. Packets[k], DispatchData(k, i) PROVE Inv'
    <3>1. i \in Nat
      BY BigDataTransferAssumption
    <3> QED
      BY <1>1, <2>1, <3>1, DataKeeps
  <2> QED
    BY <1>1, <1>3, <2>1, AnsweredKeeps DEF Dispatch
<1>4. CASE Next
  BY <1>1, <1>3, <1>4, UserKeeps, SendTaskKeeps, RecvTaskKeeps, BreakKeeps DEF Next
<1> QED
  BY <1>1, <1>2, <1>4

(* The inductive invariant of the transfers.                               *)
THEOREM TransferInvariance == Spec => []TransferInv
<1>1. Init => TransferInv
  BY InitTypes, InitInv DEF TransferInv, Inv
<1> QED
  BY <1>1, StepInv, PTL DEF Spec

(* Every variable keeps its type.                                          *)
THEOREM TransferTypes == Spec => []TypeOK
<1>1. TransferInv => TypeOK
  BY DEF TransferInv
<1> QED
  BY <1>1, TransferInvariance, PTL

(* A user who is told that a file was sent can rely on it: the other end   *)
(* has the whole file, in order.                                           *)
THEOREM SuccessIsReceived == Spec => []SuccessMeansReceived
<1>1. TransferInv => SuccessMeansReceived
  BY DEF TransferInv, FileInv, SuccessMeansReceived
<1> QED
  BY <1>1, TransferInvariance, PTL

(* A transfer is never left without an answer, unless its file is empty,   *)
(* its first packet was thrown away or the connection was lost.            *)
THEOREM OrphanCauses == Spec => []OrphansHaveACause
<1>1. TransferInv => OrphansHaveACause
  <2> SUFFICES ASSUME TransferInv, NEW k \in Tasks, Orphan(k),
                      Packets[k] # 0, k \notin ignored, ~(breaks > 0)
               PROVE  FALSE
    BY DEF OrphansHaveACause
  <2>1. breaks = 0
    BY DEF TransferInv, TypeOK
  <2>2. sent[k] > 0
    BY BigDataTransferAssumption DEF Orphan
  <2>3. AnswerUnderWay(k)
    BY <2>1, <2>2 DEF TransferInv, AnswerInv, Orphan
  <2> QED
    BY <2>3 DEF AnswerUnderWay, UnderWay, Orphan
<1> QED
  BY <1>1, TransferInvariance, PTL
=============================================================================
