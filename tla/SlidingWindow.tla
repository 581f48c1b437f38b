--------------------------- MODULE SlidingWindow ---------------------------
(***************************************************************************)
(* What MRUDP promises its user, without a network: messages are accepted  *)
(* while fewer than Capacity of them are unconfirmed, the receiving end    *)
(* collects them in order and hands them to the application in order, and  *)
(* the sender forgets a message only after the receiving end has collected *)
(* it.  Messages are numbered, so four counters say everything.            *)
(***************************************************************************)
EXTENDS Naturals

CONSTANT Capacity

VARIABLES
  sent,       \* messages accepted from the user
  confirmed,  \* messages the sender has forgotten
  collected,  \* messages the receiving end keeps or has handed over
  handed      \* messages the application has been given

vars == <<sent, confirmed, collected, handed>>

Init == sent = 0 /\ confirmed = 0 /\ collected = 0 /\ handed = 0

Accept ==
  /\ sent - confirmed < Capacity
  /\ sent' = sent + 1
  /\ UNCHANGED <<confirmed, collected, handed>>

Collect ==
  /\ collected' \in collected + 1 .. sent
  /\ UNCHANGED <<sent, confirmed, handed>>

HandOver ==
  /\ handed' \in handed + 1 .. collected
  /\ UNCHANGED <<sent, confirmed, collected>>

Confirm ==
  /\ confirmed' \in confirmed + 1 .. collected
  /\ UNCHANGED <<sent, collected, handed>>

Next == Accept \/ Collect \/ HandOver \/ Confirm

Spec == Init /\ [][Next]_vars
=============================================================================
