------------------------ MODULE MRUDPManagerProofs ------------------------
(***************************************************************************)
(* Proofs about the manager of a terminal, for any number of terminals,    *)
(* entities and threads, and any queue length.                             *)
(***************************************************************************)
EXTENDS MRUDPManager, SequenceTheorems, TLAPS

(* What is left of a queue that loses its first k packets.                 *)
LEMMA DropFront ==
  ASSUME NEW S, NEW q \in Seq(S), NEW k \in 0 .. Len(q)
  PROVE  /\ SubSeq(q, k + 1, Len(q)) \in Seq(S)
         /\ Len(SubSeq(q, k + 1, Len(q))) = Len(q) - k
OBVIOUS

(* A queue after DoRecvDataOrMessageForMRUDP stored a packet: packets only, *)
(* and within its length if a quarter of it is at least two packets.       *)
LEMMA Received ==
  ASSUME TypeOK, NEW p \in Arriving
  PROVE  LET q == Append(MakeRoom(WithUrgent(p)), p)
         IN  /\ q \in Seq(Arriving)
             /\ QueueLength >= 8 /\ QueueBounded => Len(q) <= QueueLength
<1> DEFINE w == WithUrgent(p)
           k == QueueLength \div 4
<1>1. w \in Seq(Arriving) /\ Len(w) <= Len(undeal) + 1 /\ Len(undeal) \in Nat
  BY DEF TypeOK, WithUrgent
<1>2. k \in Nat /\ k <= QueueLength /\ (QueueLength >= 8 => k >= 2)
  BY ManagerAssumption
<1>3. CASE Len(w) >= QueueLength
  <2>1. k \in 0 .. Len(w)
    BY <1>1, <1>2, <1>3, ManagerAssumption
  <2>2. MakeRoom(w) = SubSeq(w, k + 1, Len(w))
    BY <1>3 DEF MakeRoom
  <2>3. MakeRoom(w) \in Seq(Arriving) /\ Len(MakeRoom(w)) = Len(w) - k
    BY <1>1, <2>1, <2>2, DropFront
  <2> QED BY <2>3, <1>1, <1>2, ManagerAssumption DEF QueueBounded
<1>4. CASE ~(Len(w) >= QueueLength)
  BY <1>1, <1>4, ManagerAssumption DEF MakeRoom
<1> QED BY <1>3, <1>4

\* No terminal has an entity yet, and no thread holds one.
LEMMA InitInv ==
  ASSUME Init
  PROVE  ManagerInv /\ QueueBounded
<1>1. TypeOK
  BY ManagerAssumption DEF Init, TypeOK, NoEntity, NoTerm
<1>2. NewestEntity /\ SweepsFresh /\ HandlesFront /\ QueueBounded
  BY ManagerAssumption DEF Init, NewestEntity, SweepsFresh, HandlesFront, QueueBounded, Online, NoEntity
<1> QED BY <1>1, <1>2 DEF ManagerInv

-----------------------------------------------------------------------------
(* The callbacks change the map only; a new entity has the highest number. *)
LEMMA InitSinglePreserves ==
  ASSUME ManagerInv, NEW t \in Terms, InitSingle(t)
  PROVE  ManagerInv'
<1> USE DEF NoEntity
<1> DEFINE n == Len(owner) + 1
<1>1. n \in Nat \ {0} /\ Len(owner) \in Nat /\ owner' \in Seq(Terms) /\ Len(owner') = n
      /\ owner'[n] = t /\ \A e \in 1 .. Len(owner) : owner'[e] = owner[e]
  BY DEF ManagerInv, TypeOK, InitSingle
<1>2. TypeOK'
  <2>1. entity' \in [Terms -> 0 .. n]
    BY <1>1 DEF ManagerInv, TypeOK, InitSingle
  <2>2. sweep' \in [Sweepers -> SUBSET (1 .. n)]
    BY <1>1 DEF ManagerInv, TypeOK, InitSingle
  <2>3. visited' \in [Sweepers -> [Terms -> 0 .. n]]
    BY <1>1 DEF ManagerInv, TypeOK, InitSingle
  <2>4. work' \in [at : {"messages", "find", "apply", "data", "handle"},
                   batch : SUBSET Terms, tid : Terms \cup {NoTerm},
                   found : 0 .. n, dealt : 0 .. DealOneTime]
    BY <1>1 DEF ManagerInv, TypeOK, InitSingle
  <2>5. undeal' \in Seq(Arriving) /\ ackFrom' \subseteq Terms
    BY DEF ManagerInv, TypeOK, InitSingle
  <2> QED BY <1>1, <2>1, <2>2, <2>3, <2>4, <2>5 DEF TypeOK
<1>3. NewestEntity'
  <2> SUFFICES ASSUME NEW u \in Terms, entity'[u] # 0
               PROVE  /\ owner'[entity'[u]] = u
                      /\ \A e \in 1 .. n : owner'[e] = u => e <= entity'[u]
    BY <1>1 DEF NewestEntity, Online
  <2>1. CASE u = t
    BY <1>1, <2>1 DEF ManagerInv, TypeOK, InitSingle
  <2>2. CASE u # t
    <3>1. entity'[u] = entity[u] /\ entity[u] \in 1 .. Len(owner)
      BY <2>2 DEF ManagerInv, TypeOK, InitSingle
    <3> QED BY <1>1, <2>2, <3>1 DEF ManagerInv, NewestEntity, Online
  <2> QED BY <2>1, <2>2
<1>4. SweepsFresh'
  <2> SUFFICES ASSUME NEW s \in Sweepers
               PROVE  /\ \A u \in Terms : visited[s][u] # 0 => owner'[visited[s][u]] = u
                      /\ \A e \in sweep[s] :
                           /\ e # 0 /\ visited[s][owner'[e]] <= e
                           /\ \A f \in sweep[s] : owner'[e] = owner'[f] => e = f
    BY DEF SweepsFresh, InitSingle
  <2>1. /\ \A u \in Terms : visited[s][u] \in 0 .. Len(owner)
        /\ \A e \in sweep[s] : e \in 1 .. Len(owner)
    BY DEF ManagerInv, TypeOK
  <2> QED BY <1>1, <2>1 DEF ManagerInv, SweepsFresh
<1>5. HandlesFront'
  <2>1. work.found \in 0 .. Len(owner)
    BY DEF ManagerInv, TypeOK
  <2> QED BY <1>1, <2>1 DEF ManagerInv, HandlesFront, FrontStaysFront, InitSingle
<1> QED BY <1>2, <1>3, <1>4, <1>5 DEF ManagerInv

(* Removing an entity from the map leaves the other parts as they were.    *)
LEMMA RemoveSinglePreserves ==
  ASSUME ManagerInv, NEW t \in Terms, RemoveSingle(t)
  PROVE  ManagerInv'
<1>1. TypeOK'
  BY DEF ManagerInv, TypeOK, RemoveSingle, NoEntity
<1>2. NewestEntity'
  BY DEF ManagerInv, TypeOK, RemoveSingle, NewestEntity, Online
<1>3. SweepsFresh' /\ HandlesFront'
  BY DEF ManagerInv, RemoveSingle, SweepsFresh, HandlesFront, FrontStaysFront
<1> QED BY <1>1, <1>2, <1>3 DEF ManagerInv

(* The receiving thread adds to the queues, never while a packet is being  *)
(* handled.                                                                *)
LEMMA ReceivePreserves ==
  ASSUME ManagerInv,
         \/ \E t \in Terms : RecvAckMessage(t)
         \/ \E p \in Arriving : RecvDataPacket(p)
  PROVE  ManagerInv'
<1>1. undeal' \in Seq(Arriving) /\ ackFrom' \subseteq Terms
  BY Received DEF ManagerInv, TypeOK, RecvAckMessage, RecvDataPacket
<1>2. /\ work.at # "handle"
      /\ UNCHANGED <<entity, owner, work, sweep, visited>>
  BY DEF RecvAckMessage, RecvDataPacket, QueueUnlocked
<1>3. TypeOK'
  BY <1>1, <1>2 DEF ManagerInv, TypeOK
<1>4. NewestEntity' /\ SweepsFresh' /\ HandlesFront'
  BY <1>2 DEF ManagerInv, NewestEntity, Online, SweepsFresh, HandlesFront
<1> QED BY <1>3, <1>4 DEF ManagerInv

(* A step of DoCycle takes acknowledgements and packets off, and holds an  *)
(* entity of the packet's terminal when it goes on to handle it.           *)
LEMMA WorkThreadPreserves ==
  ASSUME ManagerInv, WorkThread
  PROVE  ManagerInv' /\ (undeal' = undeal \/ (undeal # <<>> /\ undeal' = Tail(undeal)))
<1> USE DEF NoEntity, NoTerm
<1> DEFINE Places == {"messages", "find", "apply", "data", "handle"}
           Works == [at : Places, batch : SUBSET Terms, tid : Terms \cup {0},
                     found : 0 .. Len(owner), dealt : 0 .. DealOneTime]
           Shrinks == undeal' = undeal \/ (undeal # <<>> /\ undeal' = Tail(undeal))
<1>1. work \in Works /\ Len(owner) \in Nat /\ 0 \in 0 .. Len(owner) /\ 0 \in 0 .. DealOneTime
  BY ManagerAssumption DEF ManagerInv, TypeOK
<1>2. UNCHANGED <<entity, owner, sweep, visited>>
  BY DEF WorkThread, TakeMessages, ApplyAck, MessagesDone, FindEntity, NoMoreData, DealUnknown, DealKnown, HandleIO
<1>3. SUFFICES work' \in Works /\ ackFrom' \subseteq Terms /\ Shrinks /\ HandlesFront'
  <2>1. ASSUME Shrinks PROVE undeal' \in Seq(Arriving)
    <3>1. undeal \in Seq(Arriving)
      BY DEF ManagerInv, TypeOK
    <3>2. undeal # <<>> => Tail(undeal) \in Seq(Arriving)
      BY <3>1, HeadTailProperties
    <3> QED BY <2>1, <3>1, <3>2
  <2>2. ASSUME work' \in Works, ackFrom' \subseteq Terms, Shrinks PROVE TypeOK'
    BY <1>2, <2>1, <2>2 DEF ManagerInv, TypeOK
  <2>3. NewestEntity' /\ SweepsFresh'
    BY <1>2 DEF ManagerInv, NewestEntity, Online, SweepsFresh
  <2> QED BY <2>2, <2>3 DEF ManagerInv
<1>4. CASE TakeMessages
  BY <1>4, <1>1 DEF TakeMessages, ManagerInv, TypeOK, HandlesFront
<1>5. CASE ApplyAck
  BY <1>5, <1>1 DEF ApplyAck, ManagerInv, TypeOK, HandlesFront
<1>6. CASE MessagesDone
  BY <1>6, <1>1 DEF MessagesDone, ManagerInv, TypeOK, HandlesFront
<1>7. ASSUME NEW t \in Terms, FindEntity(t)
      PROVE  work' \in Works /\ ackFrom' \subseteq Terms /\ Shrinks /\ HandlesFront'
  BY <1>7, <1>1 DEF FindEntity, ManagerInv, TypeOK, HandlesFront
<1>8. CASE NoMoreData
  BY <1>8, <1>1 DEF NoMoreData, ManagerInv, TypeOK, HandlesFront
<1>9. CASE DealUnknown
  BY <1>9, <1>1 DEF DealUnknown, DropUnknown, MayDealMore, ManagerInv, TypeOK, HandlesFront
<1>10. CASE DealKnown
  <2>1. undeal # <<>> /\ Head(undeal).tid \in Online /\ UNCHANGED <<undeal, ackFrom>>
        /\ work' = [work EXCEPT !.at = "handle", !.found = entity[Head(undeal).tid]]
    BY <1>10 DEF DealKnown, MayDealMore
  <2>2. entity[Head(undeal).tid] \in 1 .. Len(owner)
        /\ owner[entity[Head(undeal).tid]] = Head(undeal).tid
    BY <2>1 DEF ManagerInv, TypeOK, NewestEntity, Online
  <2>3. work' \in Works
    <3>1. \A f \in 0 .. Len(owner) : [work EXCEPT !.at = "handle", !.found = f] \in Works
      BY <1>1
    <3>2. entity[Head(undeal).tid] \in 0 .. Len(owner)
      BY <1>1, <2>2
    <3> QED BY <2>1, <3>1, <3>2
  <2>4. HandlesFront'
    <3>1. work'.found = entity[Head(undeal).tid] /\ work'.dealt = work.dealt /\ work.dealt < DealOneTime
      BY <1>1, <1>10, <2>1 DEF DealKnown, MayDealMore
    <3> QED BY <1>1, <1>2, <2>1, <2>2, <3>1 DEF HandlesFront, FrontStaysFront
  <2> QED BY <2>1, <2>3, <2>4 DEF ManagerInv, TypeOK
<1>11. CASE HandleIO
  <2>1. undeal # <<>> /\ work.dealt < DealOneTime
    BY <1>11 DEF HandleIO, ManagerInv, HandlesFront, FrontStaysFront
  <2>2. Shrinks /\ ackFrom' \subseteq Terms
    BY <1>11, <2>1 DEF HandleIO, ManagerInv, TypeOK
  <2>3. /\ [work EXCEPT !.at = "data", !.dealt = work.dealt + 1, !.found = 0] \in Works
        /\ [work EXCEPT !.at = "messages", !.found = 0] \in Works
    <3>1. work.dealt + 1 \in 0 .. DealOneTime
      BY <1>1, <2>1, ManagerAssumption
    <3> QED BY <1>1, <3>1
  <2>4. \/ work' = [work EXCEPT !.at = "data", !.dealt = work.dealt + 1, !.found = 0]
        \/ work' = [work EXCEPT !.at = "messages", !.found = 0]
    BY <1>11 DEF HandleIO, Counted
  <2>5. work'.at # "handle"
    BY <1>1, <2>4
  <2> QED BY <2>2, <2>3, <2>4, <2>5 DEF HandlesFront
<1> QED BY <1>4, <1>5, <1>6, <1>7, <1>8, <1>9, <1>10, <1>11 DEF WorkThread

(* A thread copies the map only when it is through with its last copy, and *)
(* the map holds the newest entity of each terminal.                       *)
LEMMA CopyPreserves ==
  ASSUME ManagerInv, NEW s \in Sweepers, CopyEntities(s)
  PROVE  ManagerInv'
<1> USE DEF NoEntity
<1>1. /\ sweep' = [sweep EXCEPT ![s] = {entity[t] : t \in Online}]
      /\ UNCHANGED <<entity, owner, undeal, ackFrom, work, visited>>
  BY DEF CopyEntities, MayCopy, ManagerInv, TypeOK
<1>2. ASSUME NEW t \in Online
      PROVE  entity[t] \in 1 .. Len(owner) /\ owner[entity[t]] = t
  <2>1. t \in Terms /\ entity[t] # 0 /\ Len(owner) \in Nat /\ entity[t] \in 0 .. Len(owner)
    BY DEF ManagerInv, TypeOK, Online
  <2> QED BY <2>1 DEF ManagerInv, NewestEntity
<1>3. TypeOK'
  BY <1>1, <1>2 DEF ManagerInv, TypeOK
<1>4. SweepsFresh'
  <2> SUFFICES ASSUME NEW r \in Sweepers
               PROVE  /\ \A t \in Terms : visited[r][t] # 0 => owner[visited[r][t]] = t
                      /\ \A e \in sweep'[r] :
                           /\ e # 0 /\ visited[r][owner[e]] <= e
                           /\ \A f \in sweep'[r] : owner[e] = owner[f] => e = f
    BY <1>1 DEF SweepsFresh
  <2>1. \A t \in Terms : visited[r][t] # 0 => owner[visited[r][t]] = t
    BY DEF ManagerInv, SweepsFresh
  <2>2. CASE r # s
    BY <1>1, <2>1, <2>2 DEF ManagerInv, TypeOK, SweepsFresh
  <2>3. CASE r = s
    <3> SUFFICES ASSUME NEW e \in sweep'[s]
                 PROVE  /\ e # 0 /\ visited[s][owner[e]] <= e
                        /\ \A f \in sweep'[s] : owner[e] = owner[f] => e = f
      BY <2>1, <2>3
    <3>1. sweep'[s] = {entity[t] : t \in Online}
      BY <1>1 DEF ManagerInv, TypeOK
    <3>2. PICK t \in Online : e = entity[t]
      BY <3>1
    <3>3. e \in 1 .. Len(owner) /\ owner[e] = t /\ t \in Terms
      BY <1>2, <3>2 DEF Online
    <3>4. visited[s][t] \in 0 .. Len(owner)
      BY <3>3 DEF ManagerInv, TypeOK
    <3>5. visited[s][t] <= e
      BY <2>1, <2>3, <3>2, <3>3, <3>4 DEF ManagerInv, NewestEntity
    <3> QED BY <1>2, <3>1, <3>2, <3>3, <3>5
  <2> QED BY <2>2, <2>3
<1>5. NewestEntity' /\ HandlesFront'
  BY <1>1 DEF ManagerInv, NewestEntity, Online, HandlesFront, FrontStaysFront
<1> QED BY <1>3, <1>4, <1>5 DEF ManagerInv

(* Visiting an entity leaves the thread with entities of other terminals.  *)
LEMMA VisitPreserves ==
  ASSUME ManagerInv, NEW s \in Sweepers, NEW e \in sweep[s], VisitEntity(s, e)
  PROVE  /\ ManagerInv'
         /\ \A r \in Sweepers, t \in Terms : visited'[r][t] >= visited[r][t]
<1> USE DEF NoEntity
<1>1. e \in 1 .. Len(owner) /\ owner[e] \in Terms /\ Len(owner) \in Nat
  BY DEF ManagerInv, TypeOK
<1>2. /\ sweep' = [sweep EXCEPT ![s] = sweep[s] \ {e}]
      /\ visited' = [visited EXCEPT ![s][owner[e]] = e]
      /\ UNCHANGED <<entity, owner, undeal, ackFrom, work>>
  BY DEF VisitEntity
<1>3. TypeOK'
  BY <1>1, <1>2 DEF ManagerInv, TypeOK
<1>4. \A r \in Sweepers, t \in Terms :
        /\ visited[r][t] \in 0 .. Len(owner)
        /\ visited'[r][t] = IF r = s /\ t = owner[e] THEN e ELSE visited[r][t]
  BY <1>1, <1>2 DEF ManagerInv, TypeOK
<1>5. SweepsFresh'
  <2> SUFFICES ASSUME NEW r \in Sweepers
               PROVE  /\ \A t \in Terms : visited'[r][t] # 0 => owner[visited'[r][t]] = t
                      /\ \A g \in sweep'[r] :
                           /\ g # 0 /\ visited'[r][owner[g]] <= g
                           /\ \A f \in sweep'[r] : owner[g] = owner[f] => g = f
    BY <1>2 DEF SweepsFresh
  <2>1. sweep'[r] = IF r = s THEN sweep[s] \ {e} ELSE sweep[r]
    BY <1>2 DEF ManagerInv, TypeOK
  <2>2. \A g \in sweep[r] : g \in 1 .. Len(owner) /\ owner[g] \in Terms
    BY DEF ManagerInv, TypeOK
  <2> QED BY <1>1, <1>4, <2>1, <2>2 DEF ManagerInv, SweepsFresh
<1>6. NewestEntity' /\ HandlesFront'
  BY <1>2 DEF ManagerInv, NewestEntity, Online, HandlesFront, FrontStaysFront
<1>7. \A r \in Sweepers, t \in Terms : visited'[r][t] >= visited[r][t]
  BY <1>1, <1>4 DEF ManagerInv, SweepsFresh
<1> QED BY <1>3, <1>5, <1>6, <1>7 DEF ManagerInv

-----------------------------------------------------------------------------
(* Every step of the manager preserves the inductive invariant, keeps the  *)
(* history of visits ascending, and keeps a long enough queue in bounds.   *)
LEMMA StepPreserves ==
  ASSUME ManagerInv, [Next]_vars
  PROVE  /\ ManagerInv'
         /\ \A r \in Sweepers, t \in Terms : visited'[r][t] >= visited[r][t]
         /\ QueueLength >= 8 /\ QueueBounded => QueueBounded'
<1> DEFINE Ascends == \A r \in Sweepers, t \in Terms : visited'[r][t] >= visited[r][t]
           Goal == /\ ManagerInv' /\ Ascends
                   /\ QueueLength >= 8 /\ QueueBounded => QueueBounded'
<1>0. ASSUME UNCHANGED visited PROVE Ascends
  <2>1. \A r \in Sweepers, t \in Terms : visited[r][t] \in Int
    BY DEF ManagerInv, TypeOK
  <2> QED BY <1>0, <2>1
<1>1. ASSUME NEW t \in Terms, InitSingle(t) PROVE Goal
  BY <1>0, <1>1, InitSinglePreserves DEF InitSingle, QueueBounded
<1>2. ASSUME NEW t \in Terms, RemoveSingle(t) PROVE Goal
  BY <1>0, <1>2, RemoveSinglePreserves DEF RemoveSingle, QueueBounded
<1>3. ASSUME NEW t \in Terms, RecvAckMessage(t) PROVE Goal
  BY <1>0, <1>3, ReceivePreserves DEF RecvAckMessage, QueueBounded
<1>4. ASSUME NEW p \in Arriving, RecvDataPacket(p) PROVE Goal
  <2>1. ManagerInv' /\ UNCHANGED visited
    BY <1>4, ReceivePreserves DEF RecvDataPacket
  <2>2. QueueLength >= 8 /\ QueueBounded => QueueBounded'
    BY <1>4, Received DEF RecvDataPacket, QueueBounded, ManagerInv
  <2> QED BY <1>0, <2>1, <2>2
<1>5. CASE WorkThread
  <2>1. UNCHANGED visited
    BY <1>5 DEF WorkThread, TakeMessages, ApplyAck, MessagesDone, FindEntity, NoMoreData, DealUnknown, DealKnown, HandleIO
  <2>2. ManagerInv' /\ (undeal' = undeal \/ (undeal # <<>> /\ undeal' = Tail(undeal)))
    BY <1>5, WorkThreadPreserves
  <2>3. undeal \in Seq(Arriving)
    BY DEF ManagerInv, TypeOK
  <2>4. QueueBounded => QueueBounded'
    BY <2>2, <2>3, ManagerAssumption DEF QueueBounded
  <2> QED BY <1>0, <2>1, <2>2, <2>4
<1>6. ASSUME NEW s \in Sweepers, CopyEntities(s) PROVE Goal
  BY <1>0, <1>6, CopyPreserves DEF CopyEntities, QueueBounded
<1>7. ASSUME NEW s \in Sweepers, NEW e \in sweep[s], VisitEntity(s, e) PROVE Goal
  BY <1>7, VisitPreserves DEF VisitEntity, QueueBounded
<1>8. CASE UNCHANGED vars
  <2>1. ManagerInv'
    BY <1>8 DEF vars, ManagerInv, TypeOK, NewestEntity, Online, SweepsFresh, HandlesFront, FrontStaysFront
  <2> QED BY <1>0, <1>8, <2>1 DEF vars, QueueBounded
<1> QED BY <1>1, <1>2, <1>3, <1>4, <1>5, <1>6, <1>7, <1>8 DEF Next

(* The inductive invariant holds in every state the manager reaches.       *)
THEOREM ManagerInvariance == Spec => []ManagerInv
<1>1. Init => ManagerInv
  BY InitInv
<1>2. ManagerInv /\ [Next]_vars => ManagerInv'
  BY StepPreserves
<1> QED BY <1>1, <1>2, PTL DEF Spec

(* The manager's variables keep their types.                               *)
THEOREM ManagerTypes == Spec => []TypeOK
BY ManagerInvariance, PTL DEF ManagerInv

(* The packet HandleIO works on is the front of m_undealData, and is of    *)
(* the terminal whose entity was looked up, as long as it works on it.     *)
THEOREM FrontStays == Spec => []FrontStaysFront
<1>1. ManagerInv => FrontStaysFront
  BY DEF ManagerInv, HandlesFront, FrontStaysFront
<1> QED BY <1>1, ManagerInvariance, PTL

(* A queue of at least 8 packets never outgrows m_undealDataLength.        *)
THEOREM BoundedQueue ==
  ASSUME QueueLength >= 8
  PROVE  Spec => []QueueBounded
<1>1. Init => QueueBounded
  BY InitInv
<1>2. ManagerInv /\ QueueBounded /\ [Next]_vars => QueueBounded'
  BY StepPreserves
<1> QED BY <1>1, <1>2, ManagerInvariance, PTL DEF Spec

(* No thread goes back to an entity older than one it has visited.         *)
THEOREM VisitsAscend == Spec => NoLateVisit
<1>1. ManagerInv /\ [Next]_vars =>
        [\A s \in Sweepers, t \in Terms : visited'[s][t] >= visited[s][t]]_vars
  BY StepPreserves
<1> QED BY <1>1, ManagerInvariance, PTL DEF Spec, NoLateVisit
=============================================================================
