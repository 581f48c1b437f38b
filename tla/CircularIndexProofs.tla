------------------------ MODULE CircularIndexProofs ------------------------
(***************************************************************************)
(* The index arithmetic of the rings is that of the code, for every        *)
(* capacity, and the facts about it that the other proofs use.             *)
(***************************************************************************)
EXTENDS CircularIndex, TLAPS

(* The comparisons of this module are the remainders the code takes:       *)
(* (i + 1) % capacity, (i + capacity - 1) % capacity and the like.         *)
THEOREM CodeArithmetic ==
  /\ \A i \in Index : Succ(i) = (i + 1) % N /\ Pred(i) = (i + N - 1) % N
  /\ \A h \in Index, k \in 0 .. N : At(h, k) = (h + k) % N
  /\ \A h, i \in Index : Off(h, i) = (i + N - h) % N
<1>1. ASSUME NEW i \in Index PROVE Succ(i) = (i + 1) % N
  BY CapacityAssumption DEF Index, Succ
<1>2. ASSUME NEW i \in Index PROVE Pred(i) = (i + N - 1) % N
  BY CapacityAssumption DEF Index, Pred
<1>3. ASSUME NEW h \in Index, NEW k \in 0 .. N PROVE At(h, k) = (h + k) % N
  BY CapacityAssumption DEF Index, At
<1>4. ASSUME NEW h \in Index, NEW i \in Index PROVE Off(h, i) = (i + N - h) % N
  BY CapacityAssumption DEF Index, Off
<1> QED BY <1>1, <1>2, <1>3, <1>4

\* The k-th place from h is a slot, and k steps away.
LEMMA AtTheorem ==
  ASSUME NEW h \in Index, NEW k \in 0 .. N-1
  PROVE  At(h, k) \in Index /\ Off(h, At(h, k)) = k
BY CapacityAssumption DEF Index, At, Off

\* Every slot is fewer than N steps from h, and that many steps lead there.
LEMMA OffTheorem ==
  ASSUME NEW h \in Index, NEW i \in Index
  PROVE  Off(h, i) \in 0 .. N-1 /\ At(h, Off(h, i)) = i
BY CapacityAssumption DEF Index, At, Off

\* Two slots equally far from the head are the same slot.
LEMMA OffInjective ==
  ASSUME NEW h \in Index, NEW i \in Index, NEW j \in Index, Off(h, i) = Off(h, j)
  PROVE  i = j
BY CapacityAssumption DEF Index, Off

\* A head that advances d places has the k-th place d steps nearer.
LEMMA AtShift ==
  ASSUME NEW h \in Index, NEW d \in 0 .. N-1, NEW k \in d .. N-1
  PROVE  At(At(h, d), k - d) = At(h, k)
BY CapacityAssumption DEF Index, At

\* A slot at least d steps away is d steps nearer to the head moved by d.
LEMMA OffShift ==
  ASSUME NEW h \in Index, NEW d \in 0 .. N-1, NEW i \in Index,
         Off(At(h, d), i) < N - d
  PROVE  Off(h, i) = Off(At(h, d), i) + d
BY CapacityAssumption DEF Index, At, Off

(* The code's loops "for (t = first; t != last; t = (t + 1) % capacity)":  *)
(* after k rounds t is At(first, k), the loop ends after Off(first, last)  *)
(* rounds and not before, and the slots it has seen by then are Span.      *)
THEOREM LoopVisitsSpan ==
  ASSUME NEW first \in Index, NEW last \in Index
  PROVE  /\ At(first, 0) = first
         /\ \A k \in 0 .. N-1 : At(first, k + 1) = Succ(At(first, k))
         /\ At(first, Off(first, last)) = last
         /\ \A k \in 0 .. Off(first, last) - 1 : At(first, k) # last
         /\ Span(first, last) = {At(first, k) : k \in 0 .. Off(first, last) - 1}
<1>1. Off(first, last) \in 0 .. N-1 /\ At(first, Off(first, last)) = last
  BY OffTheorem
<1>2. At(first, 0) = first /\ \A k \in 0 .. N-1 : At(first, k + 1) = Succ(At(first, k))
  BY CapacityAssumption DEF Index, At, Succ
<1>3. \A k \in 0 .. Off(first, last) - 1 :
        At(first, k) \in Index /\ Off(first, At(first, k)) = k /\ k < Off(first, last)
  <2> TAKE k \in 0 .. Off(first, last) - 1
  <2>1. k \in 0 .. N-1 /\ k < Off(first, last)
    BY <1>1, CapacityAssumption
  <2> QED BY <2>1, AtTheorem
<1>4. ASSUME NEW i \in Span(first, last)
      PROVE  i \in {At(first, k) : k \in 0 .. Off(first, last) - 1}
  <2>1. i \in Index /\ Off(first, i) < Off(first, last)
    BY DEF Span
  <2>2. Off(first, i) \in 0 .. N-1 /\ At(first, Off(first, i)) = i
    BY <2>1, OffTheorem
  <2>3. Off(first, i) \in 0 .. Off(first, last) - 1
    BY <1>1, <2>1, <2>2, CapacityAssumption
  <2> QED BY <2>2, <2>3
<1>5. \A k \in 0 .. Off(first, last) - 1 : At(first, k) \in Span(first, last)
  BY <1>3 DEF Span
<1>6. ASSUME NEW k \in 0 .. Off(first, last) - 1, At(first, k) = last PROVE FALSE
  BY <1>1, <1>3, <1>6, CapacityAssumption
<1> QED BY <1>1, <1>2, <1>4, <1>5, <1>6

(* IsIndexInValid, a test of head against tail with four cases, holds of   *)
(* exactly the first size slots from the head.                             *)
THEOREM ValidTheorem ==
  ASSUME NEW head \in Index, NEW size \in 0 .. N, NEW i \in Index
  PROVE  IsIndexInValid(head, At(head, size), size, i) <=> Off(head, i) < size
BY CapacityAssumption DEF Index, At, Off, IsIndexInValid
=============================================================================
