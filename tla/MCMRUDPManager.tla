--------------------------- MODULE MCMRUDPManager ---------------------------
(* MRUDPManager on a small instance. *)
EXTENDS MRUDPManager

\* Data of terminal 1 and urgent retransmissions of terminal 2.
DataAndUrgent == {[tid |-> 1, urgent |-> FALSE], [tid |-> 2, urgent |-> TRUE]}

\* Data of both terminals, nothing urgent.
Data == {[tid |-> 1, urgent |-> FALSE], [tid |-> 2, urgent |-> FALSE]}
=============================================================================
