--------------------------- MODULE CircularIndex ---------------------------
(***************************************************************************)
(* Index arithmetic of the two circular queues of MRUDP.  The code writes  *)
(* (i + 1) % m_queue_capacity; every index is below the capacity, so one   *)
(* comparison replaces the modulus and the arithmetic stays linear.        *)
(***************************************************************************)
EXTENDS Naturals

CONSTANT N  \* m_queue_capacity: RUDP_CYCLEFILE_CAPACITY of the ini file

ASSUME CapacityAssumption == N \in Nat /\ N >= 2

Index == 0 .. N-1

Succ(i) == IF i = N-1 THEN 0 ELSE i+1
Pred(i) == IF i = 0 THEN N-1 ELSE i-1

\* The index k places after h, for k \in 0..N.
At(h, k) == IF h + k < N THEN h + k ELSE h + k - N

\* How many steps of the code's loops lead from h to i.
Off(h, i) == IF i >= h THEN i - h ELSE i + N - h

\* The indices a loop "for (t = first; t != last; t = (t + 1) % capacity)" visits.
Span(first, last) == {i \in Index : Off(first, i) < Off(first, last)}

IsIndexInValid(head, tail, size, i) ==
  /\ size # 0
  /\ \/ head > tail /\ ~(i >= tail /\ i < head)
     \/ head < tail /\ i >= head /\ i < tail
     \/ head = tail /\ size = N
=============================================================================
