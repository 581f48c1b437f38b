------------------------------ MODULE RouteTree ------------------------------
(***************************************************************************)
(* What the routes to one destination promise while no connection is lost: *)
(* a tree grows from the destination, and a terminal that has a next hop   *)
(* keeps it.  Nothing is promised once a connection is lost.  A terminal   *)
(* without next hop is its own.                                            *)
(***************************************************************************)
CONSTANTS Nodes, Dest

VARIABLES hop, lost

Init == hop = [n \in Nodes |-> n] /\ lost = FALSE

(* A terminal without next hop takes one that is in the tree.              *)
Adopt(n, m) ==
  /\ hop[n] = n
  /\ m = Dest \/ hop[m] # m
  /\ hop' = [hop EXCEPT ![n] = m]
  /\ lost' = lost

Lose == lost' = TRUE /\ hop' = hop

Unreliable == lost /\ lost' = lost /\ hop' \in [Nodes -> Nodes]

Next ==
  \/ ~lost /\ \E n \in Nodes \ {Dest}, m \in Nodes : n # m /\ Adopt(n, m)
  \/ Lose \/ Unreliable

Spec == Init /\ [][Next]_<<hop, lost>>
==============================================================================
