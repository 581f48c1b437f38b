---------------------------- MODULE MRUDPManager ----------------------------
(***************************************************************************)
(* The manager of one terminal: the map from remote terminals to their     *)
(* End2EndReliableTransmission, the two receive queues, and the threads    *)
(* around them.  A step is a critical section of MapMutex_ or of           *)
(* UndealDataQueueMutex_, or what a thread does between two of them.       *)
(***************************************************************************)
EXTENDS Integers, Sequences

CONSTANTS
  Terms,         \* ids of the remote terminals
  Arriving,      \* bound: the kinds of data packets that arrive
  Sweepers,      \* the threads that visit every entity: update, FACK, upload
  QueueLength,   \* m_undealDataLength
  DealOneTime,   \* MAX_DEAL_DATA_ONE_TIME
  MaxEntities    \* bound on the entities created

ASSUME ManagerAssumption ==
  /\ Terms \subseteq Nat \ {0}
  /\ Arriving \subseteq [tid : Terms, urgent : BOOLEAN]
  /\ QueueLength \in Nat
  /\ DealOneTime \in Nat \ {0} /\ MaxEntities \in Nat

VARIABLES
  entity,   \* m_mapReliableUdpSocket: the entity of each terminal, or NoEntity
  owner,    \* the terminal of each entity ever created, the i-th being entity i
  undeal,   \* m_undealData
  ackFrom,  \* the keys of m_mapTermToAck
  work,     \* DoCycle: its place, the acks it took, the one it is at, pSocketFind, i
  sweep,    \* end2end_queue: what each sweeping thread has still to visit
  visited   \* history: the entity each sweeper last visited, by terminal

vars == <<entity, owner, undeal, ackFrom, work, sweep, visited>>

NoEntity == 0
NoTerm == 0

Online == {t \in Terms : entity[t] # NoEntity}

Init ==
  /\ entity = [t \in Terms |-> NoEntity]
  /\ owner = <<>> /\ undeal = <<>> /\ ackFrom = {}
  /\ work = [at |-> "messages", batch |-> {}, tid |-> NoTerm, found |-> NoEntity, dealt |-> 0]
  /\ sweep = [s \in Sweepers |-> {}]
  /\ visited = [s \in Sweepers |-> [t \in Terms |-> NoEntity]]

-----------------------------------------------------------------------------
(* Callbacks of SpeedControl and NetCombTransfer: terminals and routes     *)
(* come and go.                                                            *)
InitSingle(t) ==
  /\ entity[t] = NoEntity
  /\ Len(owner) < MaxEntities
  /\ owner' = Append(owner, t)
  /\ entity' = [entity EXCEPT ![t] = Len(owner) + 1]
  /\ UNCHANGED <<undeal, ackFrom, work, sweep, visited>>

RemoveSingle(t) ==
  /\ entity[t] # NoEntity
  /\ entity' = [entity EXCEPT ![t] = NoEntity]
  /\ UNCHANGED <<owner, undeal, ackFrom, work, sweep, visited>>

-----------------------------------------------------------------------------
(* DoRecvDataOrMessageForMRUDP.  DealDataWork holds UndealDataQueueMutex_  *)
(* while it handles a packet, and no packet is received meanwhile.         *)
\* Mutant: the lock covers the look at the front only.
QueueAlwaysUnlocked == TRUE

QueueUnlocked == work.at # "handle"

RecvAckMessage(t) ==
  /\ QueueUnlocked
  /\ ackFrom' = ackFrom \cup {t}
  /\ UNCHANGED <<entity, owner, undeal, work, sweep, visited>>

WithUrgent(p) == IF p.urgent THEN <<p>> \o undeal ELSE undeal

\* Mutant: the room is tested before the urgent copy goes in.
MakeRoomLate(q) ==
  IF Len(q) > QueueLength THEN SubSeq(q, QueueLength \div 4 + 1, Len(q)) ELSE q

(* A full queue loses its first quarter.                                   *)
MakeRoom(q) ==
  IF Len(q) >= QueueLength THEN SubSeq(q, QueueLength \div 4 + 1, Len(q)) ELSE q

RecvDataPacket(p) ==
  /\ QueueUnlocked
  /\ undeal' = Append(MakeRoom(WithUrgent(p)), p)
  /\ UNCHANGED <<entity, owner, ackFrom, work, sweep, visited>>

-----------------------------------------------------------------------------
(* DealMessageWork takes the acknowledgements, in no particular order (an  *)
(* unordered_map).  pSocketFind is declared outside the loop over them: a  *)
(* terminal that has no entity leaves it as the terminal before set it.    *)
TakeMessages ==
  /\ work.at = "messages"
  /\ work' = [at |-> "find", batch |-> ackFrom, tid |-> NoTerm,
              found |-> NoEntity, dealt |-> 0]
  /\ ackFrom' = {}
  /\ UNCHANGED <<entity, owner, undeal, sweep, visited>>

FindEntity(t) ==
  /\ work.at = "find"
  /\ t \in work.batch
  /\ work' = [work EXCEPT !.at = "apply", !.tid = t, !.batch = @ \ {t},
                          !.found = IF t \in Online THEN entity[t] ELSE @]
  /\ UNCHANGED <<entity, owner, undeal, ackFrom, sweep, visited>>

(* OnReceiveMessage of the entity found, modelled in MRUDP as RecvAck.     *)
ApplyAck ==
  /\ work.at = "apply"
  /\ work' = [work EXCEPT !.at = "find", !.tid = NoTerm]
  /\ UNCHANGED <<entity, owner, undeal, ackFrom, sweep, visited>>

MessagesDone ==
  /\ work.at = "find"
  /\ work.batch = {}
  /\ work' = [work EXCEPT !.at = "data", !.found = NoEntity]
  /\ UNCHANGED <<entity, owner, undeal, ackFrom, sweep, visited>>

-----------------------------------------------------------------------------
(* DealDataWork, repeated at most DealOneTime times before the next look   *)
(* at the acknowledgements.                                                *)
\* Mutant: one more than the limit.
MayDealOneMore == undeal # <<>> /\ work.dealt <= DealOneTime

MayDealMore == undeal # <<>> /\ work.dealt < DealOneTime

NoMoreData ==
  /\ work.at = "data"
  /\ ~MayDealMore
  /\ work' = [work EXCEPT !.at = "messages"]
  /\ UNCHANGED <<entity, owner, undeal, ackFrom, sweep, visited>>

\* Mutant: a packet is taken off only once its entity has handled it.
DropUnknownKeeps == UNCHANGED undeal

DropUnknown == undeal' = Tail(undeal)

(* A packet of a terminal without entity is dropped and ends the round.    *)
DealUnknown ==
  /\ work.at = "data"
  /\ MayDealMore
  /\ Head(undeal).tid \notin Online
  /\ DropUnknown
  /\ work' = [work EXCEPT !.at = "messages"]
  /\ UNCHANGED <<entity, owner, ackFrom, sweep, visited>>

(* The entity is found under MapMutex_ and kept as a reference into the    *)
(* map; it is used after the mutex is released.                            *)
DealKnown ==
  /\ work.at = "data"
  /\ MayDealMore
  /\ Head(undeal).tid \in Online
  /\ work' = [work EXCEPT !.at = "handle", !.found = entity[Head(undeal).tid]]
  /\ UNCHANGED <<entity, owner, undeal, ackFrom, sweep, visited>>

\* Mutant: the work thread goes on as long as there is data.
Uncounted(i) == i

Counted(i) == i + 1

(* HandleIO, modelled in MRUDP as RecvData.  If the entity was removed     *)
(* meanwhile the reference dangles, and the packet may reach any memory;   *)
(* the thread is taken to survive, testing what it reads for null.         *)
HandleIO ==
  /\ work.at = "handle"
  /\ undeal' = Tail(undeal)
  /\ \/ work' = [work EXCEPT !.at = "data", !.dealt = Counted(@), !.found = NoEntity]
     \/ /\ entity[Head(undeal).tid] # work.found
        /\ work' = [work EXCEPT !.at = "messages", !.found = NoEntity]
  /\ UNCHANGED <<entity, owner, ackFrom, sweep, visited>>

WorkThread ==
  \/ TakeMessages \/ ApplyAck \/ MessagesDone
  \/ \E t \in Terms : FindEntity(t)
  \/ NoMoreData \/ DealUnknown \/ DealKnown \/ HandleIO

-----------------------------------------------------------------------------
(* Deal/Upload/SendFACKForAllEnd2EndTransmission: copy the map's entities  *)
(* under MapMutex_, then visit the copies, some of which may have left the *)
(* map by then.  One thread runs each of the three.                        *)
\* Mutant: a second thread of the kind starts before the first is through.
MayCopyAnytime(s) == TRUE

MayCopy(s) == sweep[s] = {}

CopyEntities(s) ==
  /\ MayCopy(s)
  /\ sweep' = [sweep EXCEPT ![s] = @ \cup {entity[t] : t \in Online}]
  /\ UNCHANGED <<entity, owner, undeal, ackFrom, work, visited>>

VisitEntity(s, e) ==
  /\ e \in sweep[s]
  /\ sweep' = [sweep EXCEPT ![s] = @ \ {e}]
  /\ visited' = [visited EXCEPT ![s][owner[e]] = e]
  /\ UNCHANGED <<entity, owner, undeal, ackFrom, work>>

-----------------------------------------------------------------------------
Next ==
  \/ \E t \in Terms : InitSingle(t) \/ RemoveSingle(t) \/ RecvAckMessage(t)
  \/ \E p \in Arriving : RecvDataPacket(p)
  \/ WorkThread
  \/ \E s \in Sweepers : CopyEntities(s) \/ \E e \in sweep[s] : VisitEntity(s, e)

Spec == Init /\ [][Next]_vars

(* DoCycle loops for ever; nothing is assumed of its environment.          *)
LiveSpec == Spec /\ WF_vars(WorkThread)

-----------------------------------------------------------------------------
TypeOK ==
  /\ entity \in [Terms -> 0 .. Len(owner)]
  /\ owner \in Seq(Terms)
  /\ undeal \in Seq(Arriving)
  /\ ackFrom \subseteq Terms
  /\ work \in [at : {"messages", "find", "apply", "data", "handle"},
               batch : SUBSET Terms, tid : Terms \cup {NoTerm},
               found : 0 .. Len(owner), dealt : 0 .. DealOneTime]
  /\ sweep \in [Sweepers -> SUBSET (1 .. Len(owner))]
  /\ visited \in [Sweepers -> [Terms -> 0 .. Len(owner)]]

(* m_undealData never outgrows m_undealDataLength, although an urgent      *)
(* retransmission is stored twice (DoRecvDataOrMessageForMRUDP).  True for *)
(* lengths of at least 8: below, a quarter is less than the two copies.    *)
QueueBounded == Len(undeal) <= QueueLength

(* While HandleIO is under way there is a packet for it, and the packet is *)
(* of the terminal whose entity was looked up: receiving must not push one *)
(* in front meanwhile (DealDataWork holds a reference to the front).       *)
FrontStaysFront ==
  work.at = "handle" => undeal # <<>> /\ Head(undeal).tid = owner[work.found]

(* Once a thread has visited a terminal's entity it never goes back to one *)
(* that was removed earlier, so data of an entity taken down never reaches *)
(* the application behind its successor's (UploadTempDataQueueForAll...).  *)
NoLateVisit ==
  [][\A s \in Sweepers, t \in Terms : visited'[s][t] >= visited[s][t]]_vars

(* Data that keeps coming does not starve the acknowledgements: DoCycle    *)
(* gets back to m_mapTermToAck whatever the queue holds.                   *)
AcksNotStarved == \A t \in Terms : t \in ackFrom ~> t \notin ackFrom

(* No packet blocks the queue: unless it keeps running empty, DealDataWork *)
(* takes the front off again and again, terminals without entity included. *)
QueueKeepsMoving ==
  []<>(undeal = <<>>) \/ []<><<undeal # <<>> /\ undeal' = Tail(undeal)>>_undeal

(* What the proofs of the properties above rest on: entities are numbered  *)
(* as they are created, so a terminal's entity is its newest, and a thread *)
(* holds at most one entity of a terminal, never older than one it saw.    *)
NewestEntity ==
  \A t \in Online :
    /\ owner[entity[t]] = t
    /\ \A e \in 1 .. Len(owner) : owner[e] = t => e <= entity[t]

SweepsFresh ==
  \A s \in Sweepers :
    /\ \A t \in Terms : visited[s][t] # NoEntity => owner[visited[s][t]] = t
    /\ \A e \in sweep[s] :
         /\ e # NoEntity /\ visited[s][owner[e]] <= e
         /\ \A f \in sweep[s] : owner[e] = owner[f] => e = f

HandlesFront ==
  work.at = "handle" =>
    work.found # NoEntity /\ work.dealt < DealOneTime /\ FrontStaysFront

ManagerInv == TypeOK /\ NewestEntity /\ SweepsFresh /\ HandlesFront
=============================================================================
