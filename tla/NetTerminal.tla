---------------------------- MODULE NetTerminal ----------------------------
(***************************************************************************)
(* The channels of one terminal, NetCombTransfer: how a TCP connection     *)
(* becomes a channel of a remote terminal, how the terminal's channels are *)
(* taken in turn, and how they leave.  Three threads: the epoll thread     *)
(* reports connections made and lost, the command thread handles m_MsgList, *)
(* and the traverse thread repeats what has not been answered.             *)
(***************************************************************************)
EXTENDS Integers, Sequences

CONSTANTS
  Cids,         \* channel numbers of the accepted TCP connections
  Peers,        \* ids of the remote terminals
  MaxConnects,  \* bound on the connections made
  MaxQueued     \* bound on m_MsgList

ASSUME NetTerminalAssumption ==
  /\ MaxConnects \in Nat /\ MaxQueued \in Nat \ {0}
  /\ Peers \subseteq Nat \ {0}

VARIABLES
  channels,   \* every CNetChannel ever made, and the terminal at its other end
  link,       \* the channel whose TCP connection has each number, or None
  broken,     \* the numbers whose connection is lost, the epoll thread not told yet
  wire,       \* answers of the remote terminal under way on each connection
  msgList,    \* m_MsgList
  tempList,   \* m_TempNetTerminal.NetChannelList
  chanList,   \* NetChannelList of each terminal of m_TerminalList; <<>>: no terminal
  next,       \* Current_NextChannel of each terminal
  moving,     \* the channel MoveChannelToTerminal is at, or None
  udpOpen,    \* numbers whose UDP channel is open
  waiting     \* history: who is due before each channel is taken again

vars == <<channels, link, broken, wire, msgList, tempList, chanList, next,
          moving, udpOpen, waiting>>

None == 0
Made == DOMAIN channels
Elements(s) == {s[i] : i \in DOMAIN s}
Cid(o) == channels[o].cid
Up(c) == link[c] # None /\ c \notin broken
Alive(o) == link[Cid(o)] = o /\ Up(Cid(o))

\* Mutant: the channel is looked for by its number.
RemoveWithCid(list, o) == SelectSeq(list, LAMBDA x : Cid(x) # Cid(o))

(* The first of some positions.                                            *)
FirstOf(positions) == CHOOSE i \in positions : \A j \in positions : i <= j

Position(s, o) == FirstOf({i \in DOMAIN s : s[i] = o})

(* RemoveAt: the very channel is taken out of the list.                    *)
RemoveAt(list, o) ==
  IF o \notin Elements(list) THEN list
  ELSE SubSeq(list, 1, Position(list, o) - 1) \o SubSeq(list, Position(list, o) + 1, Len(list))

(* ChannelTraverse(nCID): the first channel of a list with this number.    *)
WithCid(list, c) ==
  LET found == {i \in DOMAIN list : Cid(list[i]) = c}
  IN  IF found = {} THEN None ELSE list[FirstOf(found)]

Init ==
  /\ channels = <<>> /\ link = [c \in Cids |-> None] /\ broken = {}
  /\ wire = [c \in Cids |-> <<>>]
  /\ msgList = <<>> /\ tempList = <<>>
  /\ chanList = [p \in Peers |-> <<>>] /\ next = [p \in Peers |-> None]
  /\ moving = None /\ udpOpen = {}
  /\ waiting = <<>>

(* A request is answered by the remote terminal over the same connection;  *)
(* bound: one answer of a kind under way.                                  *)
Asked(c, kind) ==
  IF Up(c) /\ kind \notin Elements(wire[c]) THEN Append(wire[c], kind) ELSE wire[c]

-----------------------------------------------------------------------------
(* The epoll thread.                                                       *)

(* A TCP connection with terminal p is accepted: ChannelArrived puts a new *)
(* CNetChannel among the temporary ones, CreateUDP opens its UDP channel    *)
(* (unless that number is open), and the remote id is asked for; that the  *)
(* request could not be sent is only logged.                               *)
ChannelArrived(c, p) ==
  /\ link[c] = None
  /\ Len(channels) < MaxConnects
  /\ channels' = Append(channels, [cid |-> c, remote |-> p, tid |-> None,
                                   state |-> "connected", temp |-> TRUE])
  /\ link' = [link EXCEPT ![c] = Len(channels) + 1]
  /\ udpOpen' = udpOpen \cup {c}
  /\ \E answers \in {<<>>, <<"rid">>} : wire' = [wire EXCEPT ![c] = answers]
  /\ tempList' = Append(tempList, Len(channels) + 1)
  /\ waiting' = Append(waiting, {})
  /\ UNCHANGED <<broken, msgList, chanList, next, moving>>

(* The connection is lost; what was under way on it is lost with it.       *)
Break(c) ==
  /\ Up(c)
  /\ broken' = broken \cup {c}
  /\ wire' = [wire EXCEPT ![c] = <<>>]
  /\ UNCHANGED <<channels, link, msgList, tempList, chanList, next, moving, udpOpen, waiting>>

(* RemoveNetChannel closes the UDP channel unless the channel is marked    *)
(* temporary, and then only takes the mark off.                            *)
UnmarkTemp(o) == channels' = [channels EXCEPT ![o].temp = FALSE]

CloseUDPOfKnown(o) ==
  udpOpen' = IF channels[o].temp THEN udpOpen ELSE udpOpen \ {Cid(o)}

LeaveTemp(o) ==
  /\ UnmarkTemp(o) /\ CloseUDPOfKnown(o)
  /\ tempList' = RemoveAt(tempList, o)
  /\ UNCHANGED <<chanList, next>>

(* A terminal left without a channel is destroyed, and its rotation too.   *)
NextWithout(p, o) ==
  IF chanList[p] = <<o>> THEN [next EXCEPT ![p] = None] ELSE next

LeaveTerminal(p, o) ==
  /\ UnmarkTemp(o) /\ CloseUDPOfKnown(o)
  /\ chanList' = [chanList EXCEPT ![p] = RemoveAt(@, o)]
  /\ next' = NextWithout(p, o)
  /\ UNCHANGED tempList

(* ChannelLeaved, TerminalTraverse: the channel is looked for among the    *)
(* temporary ones first, then in every terminal.                           *)
ChannelLeaved(c) ==
  /\ c \in broken
  /\ link' = [link EXCEPT ![c] = None]
  /\ broken' = broken \ {c}
  /\ LET o == WithCid(tempList, c)
         holders == {p \in Peers : WithCid(chanList[p], c) # None}
     IN \/ /\ o # None /\ LeaveTemp(o)
           /\ waiting' = [x \in DOMAIN waiting |-> waiting[x] \ {o}]
        \/ /\ o = None
           /\ \E p \in holders :
                /\ LeaveTerminal(p, WithCid(chanList[p], c))
                /\ waiting' = [x \in DOMAIN waiting |-> waiting[x] \ {WithCid(chanList[p], c)}]
        \/ /\ o = None /\ holders = {}
           /\ UNCHANGED <<channels, udpOpen, tempList, chanList, next, waiting>>
  /\ UNCHANGED <<wire, msgList, moving>>

(* Recv_NetCommBufferNotify: an answer is decoded and put into m_MsgList   *)
(* with the number of its channel.                                         *)
Arrive(c) ==
  /\ wire[c] # <<>>
  /\ Len(msgList) < MaxQueued
  /\ msgList' = Append(msgList, [kind |-> Head(wire[c]), cid |-> c,
                                 tid |-> channels[link[c]].remote])
  /\ wire' = [wire EXCEPT ![c] = Tail(@)]
  /\ UNCHANGED <<channels, link, broken, tempList, chanList, next, moving, udpOpen, waiting>>

-----------------------------------------------------------------------------
(* The command thread: Run takes one command after the other.              *)
Pending(kind) ==
  moving = None /\ msgList # <<>> /\ Head(msgList).kind = kind

(* eCommandRemoteIDNotify: RIDNotify, then the UDP port is asked for; what *)
(* becomes of the request is not looked at.                                *)
RecvRemoteID ==
  /\ Pending("rid")
  /\ msgList' = Tail(msgList)
  /\ LET m == Head(msgList)
         o == WithCid(tempList, m.cid)
     IN IF o = None
        THEN UNCHANGED <<channels, wire>>
        ELSE /\ channels' = [channels EXCEPT ![o].tid = m.tid, ![o].state = "rid"]
             /\ wire' \in {wire, [wire EXCEPT ![m.cid] = Asked(m.cid, "port")]}
  /\ UNCHANGED <<link, broken, tempList, chanList, next, moving, udpOpen, waiting>>

\* Mutant: the port is taken whatever the state of the channel.
AnyState(o) == o # None

PortExpected(o) == o # None /\ channels[o].state = "rid"

(* eCommandRemoteUDPPortNotify: RUDPPortNotify, and the first half of      *)
(* MoveChannelToTerminal: the channel joins its terminal, which is made if *)
(* there is none.                                                          *)
RecvUDPPort ==
  /\ Pending("port")
  /\ msgList' = Tail(msgList)
  /\ LET o == WithCid(tempList, Head(msgList).cid)
     IN IF PortExpected(o)
        THEN /\ channels' = [channels EXCEPT ![o].state = "port"]
             /\ chanList' = [chanList EXCEPT ![channels[o].tid] = Append(@, o)]
             /\ moving' = o
        ELSE UNCHANGED <<channels, chanList, moving>>
  /\ UNCHANGED <<link, broken, wire, tempList, next, udpOpen, waiting>>

(* The second half: the channel leaves the temporary ones.                 *)
FinishMove ==
  /\ moving # None
  /\ UnmarkTemp(moving) /\ CloseUDPOfKnown(moving)
  /\ tempList' = RemoveAt(tempList, moving)
  /\ moving' = None
  /\ UNCHANGED <<link, broken, wire, msgList, chanList, next, waiting>>

-----------------------------------------------------------------------------
(* The traverse thread: ChannelTraverse repeats the request each temporary *)
(* channel waits for, and stops at the first that cannot be sent.          *)
\* Mutant: the first request is repeated in every state.
RequestRid(state) == "rid"

Request(state) == IF state = "connected" THEN "rid" ELSE "port"

Reached(i) ==
  \A j \in 1 .. i - 1 : channels[tempList[j]].state = "port" \/ Up(Cid(tempList[j]))

Repeats ==
  {o \in Elements(tempList) :
     /\ channels[o].state # "port"
     /\ \E i \in DOMAIN tempList : tempList[i] = o /\ Reached(i)}

TempTraverse ==
  /\ wire' = [c \in Cids |->
                IF WithCid(tempList, c) \in Repeats
                THEN Asked(c, Request(channels[WithCid(tempList, c)].state))
                ELSE wire[c]]
  /\ UNCHANGED <<channels, link, broken, msgList, tempList, chanList, next, moving, udpOpen, waiting>>

-----------------------------------------------------------------------------
(* ChannelSelect: the channel Current_NextChannel points to if it is still *)
(* in the list, else nullptr; the one after it is next.                    *)
Upcoming(p) ==
  LET o == IF next[p] = None /\ chanList[p] # <<>> THEN chanList[p][1] ELSE next[p]
  IN  IF o \in Elements(chanList[p]) THEN o ELSE None

\* Mutant: the last channel is followed by nothing but itself.
NextNodeNoWrap(s, o) ==
  IF Position(s, o) = Len(s) THEN o ELSE s[Position(s, o) + 1]

GetNextNode(s, o) == s[(Position(s, o) % Len(s)) + 1]

ChannelSelect(p) ==
  /\ Upcoming(p) # None
  /\ next' = [next EXCEPT ![p] = GetNextNode(chanList[p], Upcoming(p))]
  /\ waiting' = [x \in DOMAIN waiting |->
                   IF x = Upcoming(p) THEN Elements(chanList[p]) \ {x}
                   ELSE waiting[x] \ {Upcoming(p)}]
  /\ UNCHANGED <<channels, link, broken, wire, msgList, tempList, chanList, moving, udpOpen>>

-----------------------------------------------------------------------------
Command == RecvRemoteID \/ RecvUDPPort \/ FinishMove

Next ==
  \/ \E c \in Cids, p \in Peers : ChannelArrived(c, p)
  \/ \E c \in Cids : Break(c) \/ ChannelLeaved(c) \/ Arrive(c)
  \/ Command
  \/ TempTraverse
  \/ \E p \in Peers : ChannelSelect(p)

Spec == Init /\ [][Next]_vars

(* The threads run, and a connection that stays up delivers.               *)
LiveSpec ==
  /\ Spec
  /\ WF_vars(Command) /\ WF_vars(TempTraverse)
  /\ \A c \in Cids : WF_vars(ChannelLeaved(c)) /\ SF_vars(Arrive(c))

-----------------------------------------------------------------------------
TypeOK ==
  /\ channels \in Seq([cid : Cids, remote : Peers, tid : Peers \cup {None},
                       state : {"connected", "rid", "port"}, temp : BOOLEAN])
  /\ \A o \in Made : channels[o].state = "connected" <=> channels[o].tid = None
  /\ link \in [Cids -> Made \cup {None}] /\ broken \subseteq Cids
  /\ wire \in [Cids -> Seq({"rid", "port"})]
  /\ msgList \in Seq([kind : {"rid", "port"}, cid : Cids, tid : Peers])
  /\ tempList \in Seq(Made)
  /\ chanList \in [Peers -> Seq(Made)] /\ next \in [Peers -> Made \cup {None}]
  /\ moving \in Made \cup {None} /\ udpOpen \subseteq Cids
  /\ waiting \in [Made -> SUBSET Made]

Held(o) == \E p \in Peers : o \in Elements(chanList[p])

(* A channel whose connection is up is kept in some list, whatever leaves, *)
(* moves or reuses its number meanwhile (TerminalTraverse runs next to     *)
(* MoveChannelToTerminal): one that is in none is never driven or used.    *)
NoChannelLost ==
  \A o \in Made : Alive(o) => o \in Elements(tempList) \/ Held(o)

(* When a channel is due again every channel that was with it in the list  *)
(* has been taken or has left (ChannelSelect spreads the packets).         *)
RotationFair ==
  \A p \in Peers : Upcoming(p) # None => waiting[Upcoming(p)] = {}

(* What the proofs of the properties above rest on: a connection that      *)
(* carries an answer is up and its channel has its number, a channel is at *)
(* most once in a list and joins a terminal when it gets its port, the     *)
(* channel that is moved stays with its terminal, and a channel is waited  *)
(* for only by those whose turn comes after it.                            *)
LinksInv ==
  \A c \in Cids : /\ link[c] # None => Cid(link[c]) = c
                  /\ wire[c] # <<>> => Up(c)
                  /\ c \in broken => link[c] # None

Once(list) == \A i, j \in DOMAIN list : list[i] = list[j] => i = j

ListsInv ==
  /\ Once(tempList)
  /\ \A o \in Elements(tempList) : o # moving => channels[o].state # "port"
  /\ \A p \in Peers :
       /\ Once(chanList[p])
       /\ \A o \in Elements(chanList[p]) : channels[o].tid = p /\ channels[o].state = "port"
       /\ next[p] # None => channels[next[p]].state = "port"
  /\ moving # None => channels[moving].state = "port" /\ (Alive(moving) => Held(moving))

\* From position k on around the list, i comes before j.
Ahead(k, i, j) == (k <= i /\ i < j) \/ (i < j /\ j < k) \/ (j < k /\ k <= i)

TurnsInv ==
  /\ \A o \in Made : channels[o].state # "port" => waiting[o] = {}
  /\ \A p \in Peers :
       LET list == chanList[p]
       IN  /\ next[p] = None => \A j \in DOMAIN list : waiting[list[j]] = {}
           /\ \A j \in DOMAIN list : waiting[list[j]] \subseteq Elements(list)
           /\ \A k, i, j \in DOMAIN list :
                next[p] = list[k] /\ list[i] \in waiting[list[j]] => Ahead(k, i, j)

TerminalInv == TypeOK /\ NoChannelLost /\ LinksInv /\ ListsInv /\ TurnsInv

(* Every connection that stays up becomes a channel of a terminal: the     *)
(* requests and their answers are repeated until it does.  Time and again  *)
(* all of them have: said of all at once, this gives it for each.          *)
EveryChannelPromoted == []<>(\A o \in Made : Alive(o) => Held(o))

(* A terminal that has a channel offers one: when a channel leaves, the    *)
(* others go on (TerminalTraverse: "no rearrangement for now, the lower    *)
(* layers have been adjusted").                                            *)
OffersAChannel ==
  \A p \in Peers : chanList[p] # <<>> => Upcoming(p) # None
=============================================================================
