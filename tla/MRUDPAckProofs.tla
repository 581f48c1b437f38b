--------------------------- MODULE MRUDPAckProofs ---------------------------
(***************************************************************************)
(* Proofs about the acknowledgements of MRUDP: what a new one confirms,    *)
(* what its SACK blocks say, and what the sender retransmits because of    *)
(* it, however late it arrives.                                            *)
(***************************************************************************)
EXTENDS MRUDPProofs, FiniteSetTheorems, WellFoundedInduction

(***************************************************************************)
(* Slots in ring order.                                                    *)
(***************************************************************************)

\* A non-empty set of numbers has a least one.
LEMMA LeastNumber ==
  ASSUME NEW S \in SUBSET Nat, S # {}
  PROVE  \E i \in S : \A j \in S : i <= j
<1>1. PICK i \in S : \A j \in S : ~(<<j, i>> \in OpToRel(<, Nat))
  BY WFMin, NatLessThanWellFounded
<1>2. \A j \in S : ~(j < i)
  BY <1>1 DEF OpToRel
<1>3. \A j \in S : i <= j
  BY <1>2
<1> QED BY <1>3

\* A set of slots is finite.
LEMMA SlotsFinite ==
  ASSUME NEW S \in SUBSET Index
  PROVE  IsFiniteSet(S) /\ Cardinality(S) \in Nat
<1>1. IsFiniteSet(Index)
  BY FS_Interval, CapacityAssumption DEF Index
<1> QED BY <1>1, FS_Subset, FS_CardinalityType

\* The nearest of some slots is one of them, and none is nearer.
LEMMA NearestTheorem ==
  ASSUME NEW h \in Index, NEW S \in SUBSET Index, S # {}
  PROVE  /\ Nearest(h, S) \in S
         /\ \A j \in S : Off(h, Nearest(h, S)) <= Off(h, j)
<1> DEFINE T == {Off(h, i) : i \in S}
<1>1. T \in SUBSET Nat /\ T # {}
  BY OffTheorem, CapacityAssumption
<1>2. \E m \in T : \A n \in T : m <= n
  <2> HIDE DEF T
  <2> QED BY <1>1, LeastNumber
<1>3. \E i \in S : \A j \in S : Off(h, i) <= Off(h, j)
  BY <1>2
<1> QED BY <1>3 DEF Nearest

\* The slots of S that come before slot i.
Before(h, S, i) == {j \in S : Off(h, j) < Off(h, i)}

\* Among m slots, one has k - 1 slots before it, for each k from 1 to m.
LEMMA SlotOfEveryRank ==
  ASSUME NEW h \in Index, NEW S \in SUBSET Index
  PROVE  \A k \in 1 .. Cardinality(S) : \E i \in S : Cardinality(Before(h, S, i)) = k - 1
<1> DEFINE Unfilled == {k \in 1 .. Cardinality(S) : ~\E i \in S : Cardinality(Before(h, S, i)) = k - 1}
<1>0. IsFiniteSet(S) /\ Cardinality(S) \in Nat
  BY SlotsFinite
<1> SUFFICES ASSUME Unfilled # {} PROVE FALSE
  OBVIOUS
<1>1. PICK k \in Unfilled : \A l \in Unfilled : k <= l
  <2>1. Unfilled \in SUBSET Nat
    BY <1>0
  <2> HIDE DEF Unfilled
  <2> QED BY <2>1, LeastNumber
<1>2. k \in 1 .. Cardinality(S) /\ \A i \in S : Cardinality(Before(h, S, i)) # k - 1
  BY <1>1
<1>3. \A i \in Index : Off(h, i) \in Nat
  BY OffTheorem, CapacityAssumption
<1>4. CASE k = 1
  <2>1. S # {}
    BY <1>0, <1>2, <1>4, FS_EmptySet
  <2>2. Nearest(h, S) \in S /\ \A j \in S : Off(h, Nearest(h, S)) <= Off(h, j)
    BY <2>1, NearestTheorem
  <2>3. Before(h, S, Nearest(h, S)) = {}
    BY <1>3, <2>2 DEF Before
  <2> QED BY <1>2, <1>4, <2>2, <2>3, FS_EmptySet
<1>5. CASE k # 1
  <2>1. k - 1 \in 1 .. Cardinality(S) /\ k - 1 \notin Unfilled
    BY <1>0, <1>1, <1>2, <1>5
  <2>2. PICK i \in S : Cardinality(Before(h, S, i)) = k - 2
    BY <1>0, <1>2, <2>1
  <2> DEFINE E == Before(h, S, i) \cup {i}
             x == Nearest(h, S \ E)
  <2>3. E \in SUBSET S /\ IsFiniteSet(E) /\ Cardinality(E) = k - 1
    <3>1. IsFiniteSet(Before(h, S, i)) /\ Before(h, S, i) \in SUBSET S
      BY SlotsFinite DEF Before
    <3>2. i \notin Before(h, S, i)
      BY <1>3 DEF Before
    <3> QED BY <1>0, <1>2, <2>2, <3>1, <3>2, FS_AddElement
  <2>4. S \ E # {}
    <3> HIDE DEF E
    <3>1. Cardinality(E) # Cardinality(S)
      BY <1>0, <1>2, <2>3
    <3> QED BY <2>3, <3>1
  <2>5. x \in S \ E /\ \A j \in S \ E : Off(h, x) <= Off(h, j)
    <3> HIDE DEF E
    <3> QED BY <2>4, NearestTheorem
  <2>6. Before(h, S, x) = E
    <3>1. Off(h, i) < Off(h, x)
      <4>1. x \in Index /\ i \in Index /\ x # i /\ ~(Off(h, x) < Off(h, i))
        BY <2>5 DEF Before
      <4> QED BY <1>3, <4>1, OffInjective
    <3>2. \A j \in E : j \in S /\ Off(h, j) < Off(h, x)
      BY <1>3, <2>5, <3>1 DEF Before
    <3>3. \A j \in S : Off(h, j) < Off(h, x) => j \in E
      <4> HIDE DEF E
      <4> QED BY <1>3, <2>5
    <3> HIDE DEF E, x
    <3> QED BY <3>2, <3>3 DEF Before
  <2> QED BY <1>2, <2>3, <2>5, <2>6
<1> QED BY <1>4, <1>5

\* The k-th slot in ring order is one of the slots, k - 1 come before it.
LEMMA InRingOrderTheorem ==
  ASSUME NEW h \in Index, NEW S \in SUBSET Index, NEW k \in 1 .. Cardinality(S)
  PROVE  /\ InRingOrder(h, S, k) \in S
         /\ Cardinality(Before(h, S, InRingOrder(h, S, k))) = k - 1
BY SlotOfEveryRank DEF InRingOrder, Before

\* A later slot in ring order is farther from the head.
LEMMA RingOrderAscends ==
  ASSUME NEW h \in Index, NEW S \in SUBSET Index,
         NEW k \in 1 .. Cardinality(S), NEW l \in 1 .. Cardinality(S), k < l
  PROVE  Off(h, InRingOrder(h, S, k)) < Off(h, InRingOrder(h, S, l))
<1> DEFINE x == InRingOrder(h, S, k)
           y == InRingOrder(h, S, l)
<1>1. /\ x \in S /\ Cardinality(Before(h, S, x)) = k - 1
      /\ y \in S /\ Cardinality(Before(h, S, y)) = l - 1
  BY InRingOrderTheorem
<1>2. Off(h, x) \in Nat /\ Off(h, y) \in Nat /\ \A i \in S : Off(h, i) \in Nat
  BY <1>1, OffTheorem, CapacityAssumption
<1> SUFFICES ASSUME Off(h, y) <= Off(h, x) PROVE FALSE
  BY <1>2
<1>3. Before(h, S, y) \in SUBSET Before(h, S, x)
  <2> HIDE DEF x, y
  <2> QED BY <1>2 DEF Before
<1>4. IsFiniteSet(Before(h, S, x)) /\ Cardinality(S) \in Nat
  BY SlotsFinite DEF Before
<1>5. l - 1 <= k - 1
  <2> HIDE DEF x, y
  <2> QED BY <1>1, <1>3, <1>4, FS_Subset
<1> QED BY <1>4, <1>5

-----------------------------------------------------------------------------
(***************************************************************************)
(* The blocks that one scan finds.                                         *)
(***************************************************************************)

\* A block that begins at f ends at or after f, before the next block begins.
LEMMA BlockHasEnd ==
  ASSUME NEW h \in Index, NEW t \in Index, NEW seen,
         NEW f \in Firsts(h, t, seen)
  PROVE  \E e \in Lasts(h, t, seen) :
           /\ Off(h, f) <= Off(h, e)
           /\ \A g \in Firsts(h, t, seen) : Off(h, f) < Off(h, g) => Off(h, e) < Off(h, g)
<1> DEFINE L == Off(h, t)
           Ends == {o \in Off(h, f) .. L : o = L \/ At(h, o) \notin seen}
<1>0. /\ f \in Index /\ f \in seen
      /\ L \in Nat /\ L < N /\ Off(h, f) \in Nat /\ Off(h, f) < L
  BY OffTheorem, CapacityAssumption DEF Firsts, Span
<1>1. PICK m \in Ends : \A o \in Ends : m <= o
  <2>1. Ends \in SUBSET Nat
    <3> HIDE DEF L
    <3> QED BY <1>0
  <2>2. Ends # {}
    <3>1. L \in Off(h, f) .. L
      <4> HIDE DEF L
      <4> QED BY <1>0
    <3> QED BY <3>1
  <2> HIDE DEF Ends
  <2> QED BY <2>1, <2>2, LeastNumber
<1>2. /\ m \in Nat /\ Off(h, f) <= m /\ m <= L
      /\ m = L \/ At(h, m) \notin seen
      /\ \A o \in Off(h, f) .. L : o < m => o # L /\ At(h, o) \in seen
  <2>1. m \in Off(h, f) .. L /\ (m = L \/ At(h, m) \notin seen)
    OBVIOUS
  <2>2. \A o \in Off(h, f) .. L : o < m => o \notin Ends
    <3> HIDE DEF Ends, L
    <3> QED BY <1>0, <1>1, <2>1
  <2>3. \A o \in Off(h, f) .. L : o < m => o # L /\ At(h, o) \in seen
    BY <2>2
  <2> HIDE DEF Ends, L
  <2> QED BY <1>0, <2>1, <2>3
<1>3. Off(h, f) < m
  <2>1. At(h, Off(h, f)) = f
    BY <1>0, OffTheorem
  <2> HIDE DEF L
  <2> QED BY <1>0, <1>2, <2>1
<1> DEFINE e == At(h, m - 1)
<1>4. m - 1 \in Off(h, f) .. L /\ m - 1 \in 0 .. N-1 /\ m - 1 < L /\ m \in 0 .. N-1
  <2> HIDE DEF L
  <2> QED BY <1>0, <1>2, <1>3, CapacityAssumption
<1>5. e \in Index /\ Off(h, e) = m - 1 /\ e \in seen
  <2>1. At(h, m - 1) \in seen
    <3> HIDE DEF L
    <3> QED BY <1>2, <1>4
  <2> QED BY <1>4, <2>1, AtTheorem
<1>6. Succ(e) = At(h, m)
  BY <1>4, CapacityAssumption DEF Succ, At, Index
<1>7. e \in Lasts(h, t, seen)
  <2>1. e \in Span(h, t)
    BY <1>4, <1>5 DEF Span
  <2>2. Succ(e) = t \/ Succ(e) \notin seen
    <3>1. At(h, L) = t
      BY OffTheorem
    <3> QED BY <1>2, <1>6, <3>1
  <2> QED BY <1>5, <2>1, <2>2 DEF Lasts
<1>8. ASSUME NEW g \in Firsts(h, t, seen), Off(h, f) < Off(h, g)
      PROVE  Off(h, e) < Off(h, g)
  <2>1. /\ g \in Index /\ Off(h, g) \in Nat /\ Off(h, g) < L /\ Off(h, g) > 0
        /\ g = h \/ Pred(g) \notin seen
    BY <1>0, <1>8, OffTheorem, CapacityAssumption DEF Firsts, Span
  <2>2. g # h
    BY <2>1, CapacityAssumption DEF Off, Index
  <2>3. Pred(g) = At(h, Off(h, g) - 1)
    BY <2>1, <2>2, CapacityAssumption DEF Pred, At, Off, Index
  <2>4. Off(h, g) - 1 \in Off(h, f) .. L
    <3> HIDE DEF L
    <3> QED BY <1>0, <1>8, <2>1
  <2>5. ~(Off(h, g) - 1 < m)
    <3> HIDE DEF L
    <3> QED BY <1>2, <2>1, <2>2, <2>3, <2>4
  <2> QED BY <1>2, <1>5, <2>1, <2>5
<1>9. Off(h, f) <= Off(h, e)
  BY <1>0, <1>2, <1>3, <1>5
<1> HIDE DEF e
<1> QED BY <1>7, <1>8, <1>9

\* The end of the block that begins at f, found from f on.
LEMMA BlockEndTheorem ==
  ASSUME NEW h \in Index, NEW t \in Index, NEW seen,
         NEW f \in Firsts(h, t, seen)
  PROVE  /\ Nearest(f, Lasts(h, t, seen)) \in Lasts(h, t, seen)
         /\ Off(h, f) <= Off(h, Nearest(f, Lasts(h, t, seen)))
         /\ \A g \in Firsts(h, t, seen) : Off(h, f) < Off(h, g)
              => Off(h, Nearest(f, Lasts(h, t, seen))) < Off(h, g)
<1> DEFINE A == Lasts(h, t, seen)
           x == Nearest(f, A)
<1>1. PICK e \in A : /\ Off(h, f) <= Off(h, e)
                     /\ \A g \in Firsts(h, t, seen) : Off(h, f) < Off(h, g) => Off(h, e) < Off(h, g)
  BY BlockHasEnd
<1>2. f \in Index /\ e \in Index /\ A \in SUBSET Index
  BY DEF Firsts, Lasts, Span
<1>3. x \in A /\ Off(f, x) <= Off(f, e)
  <2> HIDE DEF A
  <2> QED BY <1>1, <1>2, NearestTheorem
<1>4. x \in Index
  BY <1>2, <1>3
<1>5. Off(h, f) <= Off(h, x) /\ Off(h, x) <= Off(h, e)
  <2> HIDE DEF x, A
  <2> QED BY <1>1, <1>2, <1>3, <1>4, CapacityAssumption DEF Off, Index
<1>6. \A g \in Firsts(h, t, seen) : Off(h, f) < Off(h, g) => Off(h, x) < Off(h, g)
  <2>1. \A g \in Firsts(h, t, seen) : g \in Index
    BY DEF Firsts, Span
  <2>2. \A g \in Index : Off(h, g) \in Nat
    BY OffTheorem, CapacityAssumption
  <2> HIDE DEF x, A
  <2> QED BY <1>1, <1>2, <1>4, <1>5, <2>1, <2>2
<1> QED BY <1>3, <1>5, <1>6

\* The blocks of a scan lie between the head and the tail it ran over, and
\* their first and last packets follow each other around the ring.
LEMMA SackBlocksTheorem ==
  ASSUME NEW h \in Index, NEW t \in Index, NEW seen
  PROVE  /\ SackBlocks(h, t, seen) \in Seq(Index)
         /\ \A j \in 1 .. Len(SackBlocks(h, t, seen)) : SackBlocks(h, t, seen)[j] \in Span(h, t)
         /\ \A j \in 1 .. Len(SackBlocks(h, t, seen)) - 1 :
              Off(h, SackBlocks(h, t, seen)[j]) <= Off(h, SackBlocks(h, t, seen)[j+1])
<1> DEFINE F == Firsts(h, t, seen)
           A == Lasts(h, t, seen)
           First(b) == InRingOrder(h, F, b)
           End(b) == Nearest(First(b), A)
           n == Cardinality(F)
           entries == IF 2 * n < SackMax THEN 2 * n ELSE SackMax
           s == SackBlocks(h, t, seen)
<1>1. /\ F \in SUBSET Index /\ A \in SUBSET Index
      /\ F \in SUBSET Span(h, t) /\ A \in SUBSET Span(h, t)
  BY DEF Firsts, Lasts, Span
<1>2. n \in Nat
  BY <1>1, SlotsFinite
<1>3. entries \in Nat /\ entries <= 2 * n
  <2> HIDE DEF n
  <2> QED BY <1>2, ReceiverAssumption
<1>4. s = [k \in 1 .. entries |-> IF k % 2 = 1 THEN First((k+1) \div 2) ELSE End(k \div 2)]
  BY DEF SackBlocks
<1>5. ASSUME NEW b \in 1 .. n
      PROVE  /\ First(b) \in F /\ End(b) \in A
             /\ Off(h, First(b)) <= Off(h, End(b))
             /\ \A c \in 1 .. n : b < c => Off(h, End(b)) < Off(h, First(c))
  <2>1. First(b) \in F
    BY <1>1, InRingOrderTheorem
  <2>2. \A c \in 1 .. n : b < c => First(c) \in F /\ Off(h, First(b)) < Off(h, First(c))
    BY <1>1, InRingOrderTheorem, RingOrderAscends
  <2>3. /\ End(b) \in A /\ Off(h, First(b)) <= Off(h, End(b))
        /\ \A g \in F : Off(h, First(b)) < Off(h, g) => Off(h, End(b)) < Off(h, g)
    BY <2>1, BlockEndTheorem
  <2> HIDE DEF First, End, F, A, n
  <2> QED BY <2>1, <2>2, <2>3
<1>6. ASSUME NEW k \in 1 .. entries
      PROVE  /\ k % 2 = 1 => (k+1) \div 2 \in 1 .. n
             /\ k % 2 # 1 => k \div 2 \in 1 .. n /\ (k+1+1) \div 2 = k \div 2 + 1 /\ (k+1) % 2 = 1
             /\ k % 2 = 1 => (k+1) % 2 # 1
  <2> HIDE DEF n, entries
  <2> QED BY <1>2, <1>3
<1>7. \A k \in 1 .. entries : s[k] \in Index /\ s[k] \in Span(h, t)
  <2> TAKE k \in 1 .. entries
  <2>1. s[k] = IF k % 2 = 1 THEN First((k+1) \div 2) ELSE End(k \div 2)
    <3> HIDE DEF First, End, entries
    <3> QED BY <1>4
  <2> HIDE DEF First, End, entries, s, F, A, n
  <2> QED BY <1>1, <1>5, <1>6, <2>1
<1>8. s \in Seq(Index) /\ Len(s) = entries
  <2> HIDE DEF First, End, entries
  <2>1. s \in [1 .. entries -> Index]
    BY <1>4, <1>7
  <2> HIDE DEF s
  <2>2. s \in Seq(Index)
    BY <1>3, <2>1, SeqDef
  <2> QED BY <1>3, <2>1, <2>2, LenProperties
<1>9. \A k \in 1 .. entries - 1 : Off(h, s[k]) <= Off(h, s[k+1])
  <2> TAKE k \in 1 .. entries - 1
  <2>0. k \in 1 .. entries /\ k + 1 \in 1 .. entries
    <3> HIDE DEF entries
    <3> QED BY <1>3
  <2>1. /\ s[k] = IF k % 2 = 1 THEN First((k+1) \div 2) ELSE End(k \div 2)
        /\ s[k+1] = IF (k+1) % 2 = 1 THEN First((k+1+1) \div 2) ELSE End((k+1) \div 2)
    <3> HIDE DEF First, End, entries
    <3> QED BY <1>4, <2>0
  <2>2. CASE k % 2 = 1
    <3>1. (k+1) \div 2 \in 1 .. n /\ (k+1) % 2 # 1
      BY <1>6, <2>0, <2>2
    <3>2. s[k] = First((k+1) \div 2) /\ s[k+1] = End((k+1) \div 2)
      <4> HIDE DEF First, End, s, n
      <4> QED BY <2>1, <2>2, <3>1
    <3> HIDE DEF First, End, s, n
    <3> QED BY <1>5, <3>1, <3>2
  <2>3. CASE k % 2 # 1
    <3>1. k \div 2 \in 1 .. n /\ (k+1) % 2 = 1 /\ (k+1+1) \div 2 = k \div 2 + 1
      BY <1>6, <2>0, <2>3
    <3>2. s[k] = End(k \div 2) /\ s[k+1] = First(k \div 2 + 1)
      <4> HIDE DEF First, End, s, n
      <4> QED BY <2>1, <2>3, <3>1
    <3>3. k \div 2 + 1 \in 1 .. n
      BY <1>6, <2>0, <3>1
    <3>4. Off(h, s[k]) < Off(h, s[k+1]) /\ s[k] \in Index /\ s[k+1] \in Index
      <4> HIDE DEF First, End, s, n, F, A
      <4> QED BY <1>1, <1>2, <1>5, <3>1, <3>2, <3>3
    <3>5. Off(h, s[k]) \in Nat /\ Off(h, s[k+1]) \in Nat
      BY <3>4, OffTheorem, CapacityAssumption
    <3> HIDE DEF s
    <3> QED BY <3>4, <3>5
  <2> QED BY <2>2, <2>3
<1> HIDE DEF entries
<1> QED BY <1>7, <1>8, <1>9

\* Of two slots, the nearer one has fewer slots before it.
LEMMA RankUnique ==
  ASSUME NEW h \in Index, NEW S \in SUBSET Index, NEW x \in S, NEW y \in S,
         Cardinality(Before(h, S, x)) = Cardinality(Before(h, S, y))
  PROVE  x = y
<1>1. \A i \in S : Off(h, i) \in Nat
  BY OffTheorem, CapacityAssumption
<1>2. ASSUME NEW u \in S, NEW v \in S, Off(h, u) < Off(h, v)
      PROVE  Cardinality(Before(h, S, u)) # Cardinality(Before(h, S, v))
  <2>1. Before(h, S, u) \in SUBSET Before(h, S, v) /\ u \in Before(h, S, v) /\ u \notin Before(h, S, u)
    BY <1>1, <1>2 DEF Before
  <2>2. IsFiniteSet(Before(h, S, v))
    BY SlotsFinite DEF Before
  <2> QED BY <2>1, <2>2, FS_Subset
<1>3. Off(h, x) = Off(h, y)
  BY <1>1, <1>2
<1> QED BY <1>3, OffInjective

\* Every one of some slots is the k-th in ring order, for some k.
LEMMA EverySlotHasRank ==
  ASSUME NEW h \in Index, NEW S \in SUBSET Index, NEW x \in S
  PROVE  \E k \in 1 .. Cardinality(S) : InRingOrder(h, S, k) = x
<1> DEFINE k == Cardinality(Before(h, S, x)) + 1
<1>1. x \notin Before(h, S, x) /\ Before(h, S, x) \in SUBSET S
  BY OffTheorem, CapacityAssumption DEF Before
<1>2. IsFiniteSet(S) /\ Cardinality(S) \in Nat /\ Cardinality(Before(h, S, x)) \in Nat
  BY <1>1, SlotsFinite
<1>3. Cardinality(Before(h, S, x)) <= Cardinality(S) /\ Cardinality(Before(h, S, x)) # Cardinality(S)
  BY <1>1, <1>2, FS_Subset
<1>4. k \in 1 .. Cardinality(S) /\ k - 1 = Cardinality(Before(h, S, x))
  BY <1>2, <1>3
<1> HIDE DEF k
<1>5. InRingOrder(h, S, k) \in S /\ Cardinality(Before(h, S, InRingOrder(h, S, k))) = k - 1
  BY <1>4, InRingOrderTheorem
<1>6. InRingOrder(h, S, k) = x
  BY <1>4, <1>5, RankUnique
<1> QED BY <1>4, <1>6

\* The entries of an acknowledgement come in pairs, one for each block.
LEMMA SackEntries ==
  ASSUME NEW h \in Index, NEW t \in Index, NEW seen
  PROVE  /\ Len(SackBlocks(h, t, seen)) \in Nat
         /\ Len(SackBlocks(h, t, seen)) =
              IF 2 * Cardinality(Firsts(h, t, seen)) < SackMax
              THEN 2 * Cardinality(Firsts(h, t, seen)) ELSE SackMax
         /\ Cardinality(Firsts(h, t, seen)) \in Nat
         /\ \A b \in 1 .. Cardinality(Firsts(h, t, seen)) : 2*b <= Len(SackBlocks(h, t, seen)) =>
              LET first == InRingOrder(h, Firsts(h, t, seen), b)
              IN  /\ SackBlocks(h, t, seen)[2*b - 1] = first
                  /\ SackBlocks(h, t, seen)[2*b] = Nearest(first, Lasts(h, t, seen))
<1> DEFINE F == Firsts(h, t, seen)
           A == Lasts(h, t, seen)
           First(b) == InRingOrder(h, F, b)
           End(b) == Nearest(First(b), A)
           n == Cardinality(F)
           entries == IF 2 * n < SackMax THEN 2 * n ELSE SackMax
           s == SackBlocks(h, t, seen)
<1>1. n \in Nat
  <2>1. F \in SUBSET Index
    BY DEF Firsts, Span
  <2> QED BY <2>1, SlotsFinite
<1>2. entries \in Nat
  <2> HIDE DEF n
  <2> QED BY <1>1, ReceiverAssumption
<1>3. s = [k \in 1 .. entries |-> IF k % 2 = 1 THEN First((k+1) \div 2) ELSE End(k \div 2)]
  BY DEF SackBlocks
<1>4. s \in Seq(Index) /\ Len(s) = entries
  <2>1. s \in Seq(Index) /\ DOMAIN s = 1 .. entries
    <3>1. DOMAIN s = 1 .. entries
      <4> HIDE DEF First, End, entries
      <4> QED BY <1>3
    <3> HIDE DEF entries
    <3> QED BY <3>1, SackBlocksTheorem
  <2> HIDE DEF s, entries
  <2> QED BY <1>2, <2>1, LenProperties
<1>5. ASSUME NEW b \in 1 .. n, 2*b <= entries
      PROVE  s[2*b - 1] = First(b) /\ s[2*b] = End(b)
  <2>1. /\ 2*b - 1 \in 1 .. entries /\ (2*b - 1) % 2 = 1 /\ ((2*b - 1) + 1) \div 2 = b
        /\ 2*b \in 1 .. entries /\ (2*b) % 2 # 1 /\ (2*b) \div 2 = b
    <3> HIDE DEF n, entries
    <3> QED BY <1>1, <1>2, <1>5
  <2> HIDE DEF First, End, entries, n
  <2> QED BY <1>3, <2>1
<1> HIDE DEF entries
<1>6. Len(s) \in Nat /\ Len(s) = entries /\ \A b \in 1 .. n : 2*b <= Len(s) => s[2*b - 1] = First(b) /\ s[2*b] = End(b)
  BY <1>2, <1>4, <1>5
<1> QED BY <1>1, <1>6 DEF entries

\* Between the first and the last packet of a block every packet is there.
LEMMA BlockHasNoGap ==
  ASSUME NEW h \in Index, NEW t \in Index, NEW seen, NEW f \in Firsts(h, t, seen),
         NEW i \in Index, Off(h, f) <= Off(h, i),
         Off(h, i) <= Off(h, Nearest(f, Lasts(h, t, seen)))
  PROVE  i \in seen
<1> DEFINE A == Lasts(h, t, seen)
           x == Nearest(f, A)
           Gaps == {o \in Off(h, f) .. Off(h, x) : At(h, o) \notin seen}
<1>1. /\ f \in Index /\ f \in seen /\ x \in A /\ x \in Index /\ x \in seen
      /\ Off(h, x) < Off(h, t) /\ Off(h, f) <= Off(h, x)
  BY BlockEndTheorem DEF Firsts, Lasts, Span
<1>2. /\ Off(h, f) \in 0 .. N-1 /\ Off(h, x) \in 0 .. N-1 /\ Off(h, i) \in 0 .. N-1
      /\ Off(h, t) \in 0 .. N-1
      /\ At(h, Off(h, f)) = f /\ At(h, Off(h, x)) = x /\ At(h, Off(h, i)) = i
  BY <1>1, OffTheorem
<1> SUFFICES ASSUME i \notin seen PROVE FALSE
  OBVIOUS
<1> HIDE DEF x, A
<1>3. PICK o \in Gaps : \A p \in Gaps : o <= p
  <2>1. Gaps \in SUBSET Nat /\ Off(h, i) \in Gaps
    BY <1>2, CapacityAssumption DEF x, A
  <2> HIDE DEF Gaps
  <2> QED BY <2>1, LeastNumber
<1>4. /\ o \in Nat /\ Off(h, f) < o /\ o <= Off(h, x) /\ At(h, o) \notin seen
      /\ o - 1 \in Off(h, f) .. Off(h, x) /\ o - 1 \in 0 .. N-1
  <2>1. o \in Off(h, f) .. Off(h, x) /\ At(h, o) \notin seen
    OBVIOUS
  <2> HIDE DEF Gaps
  <2> QED BY <1>1, <1>2, <2>1, CapacityAssumption
<1> DEFINE e == At(h, o - 1)
<1>5. e \in seen
  <2>1. o - 1 \notin Gaps
    <3> HIDE DEF Gaps
    <3> QED BY <1>3, <1>4
  <2> QED BY <1>4, <2>1
<1>6. e \in Index /\ Off(h, e) = o - 1 /\ Succ(e) = At(h, o)
  <2>1. e \in Index /\ Off(h, e) = o - 1
    BY <1>4, AtTheorem
  <2>2. Succ(e) = At(h, o)
    BY <1>2, <1>4, CapacityAssumption DEF Succ, At, Index
  <2> QED BY <2>1, <2>2
<1> HIDE DEF Gaps
<1>7. e \in A
  <2>1. e \in Span(h, t)
    <3>1. Off(h, e) < Off(h, t)
      <4> HIDE DEF e
      <4> QED BY <1>1, <1>2, <1>4, <1>6
    <3> QED BY <1>6, <3>1 DEF Span
  <2> HIDE DEF e
  <2> QED BY <1>4, <1>5, <1>6, <2>1 DEF A, Lasts
<1>8. Off(f, x) <= Off(f, e)
  <2>1. A \in SUBSET Index
    BY DEF A, Lasts, Span
  <2> HIDE DEF e
  <2> QED BY <1>1, <1>7, <2>1, NearestTheorem DEF x
<1> HIDE DEF e
<1> QED BY <1>1, <1>2, <1>4, <1>6, <1>8, CapacityAssumption DEF Off, Index

\* A received packet lies in the block that begins where its run begins.
LEMMA EveryPacketInARun ==
  ASSUME NEW h \in Index, NEW t \in Index, NEW seen, NEW i \in Span(h, t), i \in seen
  PROVE  \E f \in Firsts(h, t, seen) :
           /\ Off(h, f) <= Off(h, i)
           /\ Off(h, i) <= Off(h, Nearest(f, Lasts(h, t, seen)))
<1> DEFINE m == Off(h, i)
           Starts == {d \in 0 .. m : d = m \/ At(h, m - d - 1) \notin seen}
<1>1. i \in Index /\ m \in 0 .. N-1 /\ m < Off(h, t) /\ Off(h, t) \in 0 .. N-1 /\ At(h, m) = i
  BY OffTheorem DEF Span
<1> HIDE DEF m
<1>2. PICK d \in Starts : \A c \in Starts : d <= c
  <2>1. Starts \in SUBSET Nat /\ m \in Starts
    BY <1>1, CapacityAssumption
  <2> HIDE DEF Starts
  <2> QED BY <2>1, LeastNumber
<1>3. /\ d \in 0 .. m /\ (d = m \/ At(h, m - d - 1) \notin seen)
      /\ \A c \in 0 .. m : c < d => c # m /\ At(h, m - c - 1) \in seen
  <2>1. d \in 0 .. m /\ (d = m \/ At(h, m - d - 1) \notin seen)
    OBVIOUS
  <2>2. \A c \in 0 .. m : c < d => c \notin Starts
    <3> HIDE DEF Starts
    <3> QED BY <1>1, <1>2, <2>1
  <2> QED BY <2>1, <2>2
<1> HIDE DEF Starts
<1> DEFINE o == m - d
           f == At(h, o)
<1>4. o \in 0 .. m /\ o \in 0 .. N-1 /\ m \in Nat
  BY <1>1, <1>3, CapacityAssumption
<1>5. \A p \in o .. m : At(h, p) \in seen
  <2> TAKE p \in o .. m
  <2>1. CASE p = m
    BY <1>1, <2>1
  <2>2. CASE p # m
    <3>1. m - p - 1 \in 0 .. m /\ m - p - 1 < d /\ m - (m - p - 1) - 1 = p
      BY <1>3, <1>4, <2>2
    <3> QED BY <1>3, <3>1
  <2> QED BY <2>1, <2>2
<1>6. f \in Index /\ Off(h, f) = o /\ f \in seen
  <2>1. o \in o .. m
    BY <1>4
  <2> HIDE DEF o
  <2> QED BY <1>4, <1>5, <2>1, AtTheorem
<1>7. f = h \/ Pred(f) \notin seen
  <2>1. CASE d = m
    <3>1. o = 0
      BY <1>4, <2>1
    <3> QED BY <3>1, CapacityAssumption DEF At, Index
  <2>2. CASE d # m
    <3>1. At(h, o - 1) \notin seen /\ o > 0
      BY <1>3, <1>4, <2>2
    <3>2. Pred(f) = At(h, o - 1)
      <4> HIDE DEF o
      <4> QED BY <1>4, <3>1, CapacityAssumption DEF Pred, At, Index
    <3> QED BY <3>1, <3>2
  <2> QED BY <2>1, <2>2
<1> HIDE DEF o, f
<1>8. f \in Firsts(h, t, seen)
  <2>1. f \in Span(h, t)
    BY <1>1, <1>4, <1>6 DEF Span
  <2> QED BY <1>6, <1>7, <2>1 DEF Firsts
<1> DEFINE x == Nearest(f, Lasts(h, t, seen))
<1>9. x \in Lasts(h, t, seen) /\ Off(h, f) <= Off(h, x)
  BY <1>8, BlockEndTheorem
<1>10. x \in Index /\ (Succ(x) = t \/ Succ(x) \notin seen) /\ Off(h, x) \in 0 .. N-1
  BY <1>9, OffTheorem DEF Lasts, Span
<1> HIDE DEF x
<1>11. ~(Off(h, x) < m)
  <2> SUFFICES ASSUME Off(h, x) < m PROVE FALSE
    OBVIOUS
  <2>1. Succ(x) = At(h, Off(h, x) + 1)
    BY <1>1, <1>10, CapacityAssumption DEF Succ, At, Off, Index
  <2>2. Off(h, x) + 1 \in o .. m
    BY <1>4, <1>6, <1>9, <1>10
  <2>3. Succ(x) \in seen
    BY <1>5, <2>1, <2>2
  <2>4. Succ(x) = t
    BY <1>10, <2>3
  <2>5. Off(h, t) = Off(h, x) + 1
    BY <1>1, <1>10, <2>1, <2>4, AtTheorem, CapacityAssumption
  <2> QED BY <1>1, <1>4, <1>10, <2>5
<1> QED BY <1>4, <1>6, <1>8, <1>10, <1>11 DEF m, x

(* The blocks of a scan (NewTraverseForceACK) say what was received: each  *)
(* holds received packets only, and every received packet between the head *)
(* and the tail lies in one of them, except beyond the last block when     *)
(* SackMax entries were not enough.                                        *)
THEOREM BlocksSayWhatIsReceived ==
  ASSUME NEW head \in Index, NEW tail \in Index, NEW seen
  PROVE  LET sack == SackBlocks(head, tail, seen)
             InBlock(b, i) == /\ Off(head, sack[2*b - 1]) <= Off(head, i)
                              /\ Off(head, i) <= Off(head, sack[2*b])
         IN  /\ \A b \in Nat \ {0}, i \in Index :
                  2*b <= Len(sack) /\ InBlock(b, i) => i \in Span(head, tail) \cap seen
             /\ \A i \in Span(head, tail) \cap seen :
                  \/ \E b \in Nat \ {0} : 2*b <= Len(sack) /\ InBlock(b, i)
                  \/ Len(sack) = SackMax /\ Off(head, sack[SackMax]) < Off(head, i)
<1> DEFINE F == Firsts(head, tail, seen)
           A == Lasts(head, tail, seen)
           n == Cardinality(F)
           First(b) == InRingOrder(head, F, b)
           End(b) == Nearest(First(b), A)
           sack == SackBlocks(head, tail, seen)
           InBlock(b, i) == /\ Off(head, sack[2*b - 1]) <= Off(head, i)
                            /\ Off(head, i) <= Off(head, sack[2*b])
<1>1. /\ F \in SUBSET Index /\ n \in Nat /\ Len(sack) \in Nat
      /\ Len(sack) = IF 2*n < SackMax THEN 2*n ELSE SackMax
  BY SackEntries DEF Firsts, Span
<1>2. \A b \in 1 .. n : 2*b <= Len(sack) => sack[2*b - 1] = First(b) /\ sack[2*b] = End(b)
  BY SackEntries
<1>3. \A b \in 1 .. n :
        First(b) \in F /\ End(b) \in A /\ Off(head, First(b)) <= Off(head, End(b))
        /\ \A g \in F : Off(head, First(b)) < Off(head, g) => Off(head, End(b)) < Off(head, g)
  <2> TAKE b \in 1 .. n
  <2>1. First(b) \in F
    BY <1>1, InRingOrderTheorem
  <2> HIDE DEF First
  <2> QED BY <2>1, BlockEndTheorem
<1>4. \A i \in Index : Off(head, i) \in Nat
  BY OffTheorem, CapacityAssumption
<1> HIDE DEF n
<1>5. ASSUME NEW b \in Nat \ {0}, NEW i \in Index, 2*b <= Len(sack), InBlock(b, i)
      PROVE  i \in Span(head, tail) \cap seen
  <2>1. b \in 1 .. n
    <3> HIDE DEF sack
    <3> QED BY <1>1, <1>5, ReceiverAssumption
  <2>2. /\ First(b) \in F /\ End(b) \in A
        /\ Off(head, First(b)) <= Off(head, i) /\ Off(head, i) <= Off(head, End(b))
    <3> HIDE DEF sack, First, End, F, A
    <3> QED BY <1>2, <1>3, <1>5, <2>1
  <2>3. i \in seen
    <3> HIDE DEF First
    <3> QED BY <2>2, BlockHasNoGap
  <2>4. End(b) \in Index /\ Off(head, End(b)) < Off(head, tail)
    <3> HIDE DEF End
    <3> QED BY <2>2 DEF Lasts, Span
  <2>5. Off(head, i) < Off(head, tail)
    <3> HIDE DEF End, First
    <3> QED BY <1>4, <2>2, <2>4
  <2> QED BY <2>3, <2>5 DEF Span
<1>6. ASSUME NEW i \in Span(head, tail) \cap seen
      PROVE  \/ \E b \in Nat \ {0} : 2*b <= Len(sack) /\ InBlock(b, i)
             \/ Len(sack) = SackMax /\ Off(head, sack[SackMax]) < Off(head, i)
  <2>0. i \in Index
    BY DEF Span
  <2>1. PICK f \in F : Off(head, f) <= Off(head, i) /\ Off(head, i) <= Off(head, Nearest(f, A))
    BY EveryPacketInARun
  <2>2. PICK b \in 1 .. n : First(b) = f
    BY <1>1, EverySlotHasRank DEF n
  <2>3. Off(head, First(b)) <= Off(head, i) /\ Off(head, i) <= Off(head, End(b))
    <3> HIDE DEF First, A
    <3> QED BY <2>1, <2>2
  <2> HIDE DEF sack, F, A, First, End
  <2>4. CASE 2*b <= Len(sack)
    <3>1. sack[2*b - 1] = First(b) /\ sack[2*b] = End(b)
      BY <1>2, <2>4
    <3>2. InBlock(b, i) /\ b \in Nat \ {0}
      BY <1>1, <2>3, <3>1
    <3> HIDE DEF InBlock
    <3> QED BY <2>4, <3>2
  <2>5. CASE ~(2*b <= Len(sack))
    <3>1. PICK c \in 1 .. n : SackMax = 2*c /\ c < b /\ Len(sack) = 2*c
      <4>1. b \in Nat /\ b <= n /\ SackMax \in Nat \ {0} /\ SackMax % 2 = 0
        BY <1>1, ReceiverAssumption
      <4>2. Len(sack) = SackMax /\ SackMax < 2*b
        BY <1>1, <2>5, <4>1
      <4>3. PICK c \in Nat : SackMax = 2*c
        <5>1. SackMax = 2 * (SackMax \div 2) /\ SackMax \div 2 \in Nat
          BY <4>1
        <5> QED BY <5>1
      <4>4. c \in 1 .. n /\ c < b
        BY <1>1, <4>1, <4>2, <4>3
      <4> QED BY <4>2, <4>3, <4>4
    <3>2. sack[SackMax] = End(c)
      <4>1. 2*c <= Len(sack)
        BY <1>1, <3>1
      <4> QED BY <1>2, <3>1, <4>1
    <3>3. Off(head, First(c)) < Off(head, First(b))
      BY <1>1, <3>1, RingOrderAscends DEF n, First
    <3>4. Off(head, End(c)) < Off(head, First(b))
      BY <1>3, <3>1, <3>3
    <3>5. End(c) \in Index /\ First(b) \in Index
      BY <1>1, <1>3, <3>1 DEF A, Lasts, Span
    <3>6. Off(head, sack[SackMax]) < Off(head, i)
      BY <1>4, <2>0, <2>3, <3>2, <3>4, <3>5
    <3> QED BY <3>1, <3>6
  <2> QED BY <2>4, <2>5
<1> QED BY <1>5, <1>6

-----------------------------------------------------------------------------
(***************************************************************************)
(* Acknowledgements in flight.                                             *)
(***************************************************************************)

\* An acknowledgement counts when its slot still holds the lap it names and
\* lies in the sender's window.
LEMMA MatchTheorem ==
  ASSUME RingsInv, NEW a, a.index \in Index
  PROVE  AckMatches(a) <=> sSlot[a.index].cycle = a.cycle /\ Off(sHead, a.index) < sSize
<1>1. sHead \in Index /\ sSize \in 0 .. N /\ sTail = At(sHead, sSize)
  BY DEF RingsInv, TypeOK, SenderTypeOK, RingsAligned
<1> QED BY <1>1, ValidTheorem DEF AckMatches, InSendWindow

\* The head of the window moves past the message the acknowledgement names.
LEMMA AckDistance ==
  ASSUME RingsInv, NEW a, AckOK(a)
  PROVE  \E d \in 0 .. N-1 :
           /\ d <= sSize /\ HeadAfter(a) = At(sHead, d) /\ SizeAfter(a) = sSize - d
           /\ d > 0 => AckMatches(a) /\ d = Off(sHead, a.index) + 1
<1>1. /\ sHead \in Index /\ a.index \in Index /\ sSize \in Nat /\ sSize < N
  BY CapacityAssumption DEF AckOK, IsAck, RingsInv, WindowOK, TypeOK, SenderTypeOK
<1>2. PICK d \in 0 .. N-1 : d <= sSize /\ HeadAfter(a) = At(sHead, d) /\ SizeAfter(a) = sSize - d
  BY AckMovesHead
<1>3. CASE sSize # 0 /\ AckMatches(a)
  <2>1. HeadAfter(a) = Succ(a.index) /\ Off(sHead, a.index) < sSize
    BY <1>1, <1>3, MatchTheorem DEF HeadAfter
  <2>2. d = Off(sHead, a.index) + 1
    BY <1>1, <1>2, <2>1, CapacityAssumption DEF Succ, At, Off, Index
  <2> QED BY <1>2, <1>3, <2>2
<1>4. CASE ~(sSize # 0 /\ AckMatches(a))
  <2>1. HeadAfter(a) = sHead
    BY <1>4 DEF HeadAfter
  <2>2. d = 0
    BY <1>1, <1>2, <2>1, CapacityAssumption DEF At, Index
  <2> QED BY <1>2, <2>2
<1> QED BY <1>3, <1>4

\* The blocks and confirmations of acknowledgements stay in order when the
\* sender's window only grows at its tail.
LEMMA WindowGrows ==
  ASSUME RingsInv, RingsInv', sHead' = sHead, sSize' >= sSize,
         \A a : AckOK(a) /\ AckMatches(a)' => AckMatches(a)
  PROVE  /\ \A a : BlocksOK(a) => BlocksOK(a)'
         /\ \A a, b : AckOK(a) /\ ConfirmsBefore(a, b) => ConfirmsBefore(a, b)'
<1>1. ASSUME NEW a, BlocksOK(a) PROVE BlocksOK(a)'
  <2>1. /\ a.sack \in Seq(Index)
        /\ \A j \in 1 .. Len(a.sack) : Off(sHead, a.sack[j]) < sSize
        /\ \A j \in 1 .. Len(a.sack) - 1 : Off(sHead, a.sack[j]) <= Off(sHead, a.sack[j+1])
    BY <1>1 DEF BlocksOK
  <2>2. sHead \in Index /\ sSize \in Nat /\ sSize' \in Nat
    BY CapacityAssumption DEF RingsInv, TypeOK, SenderTypeOK
  <2>3. \A j \in 1 .. Len(a.sack) : Off(sHead, a.sack[j]) \in Nat
    <3>1. \A j \in 1 .. Len(a.sack) : a.sack[j] \in Index
      BY <2>1, ElementOfSeq
    <3> QED BY <2>2, <3>1, OffTheorem, CapacityAssumption
  <2> QED BY <2>1, <2>2, <2>3 DEF BlocksOK, Off
<1>2. ASSUME NEW a, NEW b, AckOK(a), ConfirmsBefore(a, b) PROVE ConfirmsBefore(a, b)'
  BY <1>2 DEF ConfirmsBefore, Off
<1> QED BY <1>1, <1>2

\* The same when the sender's window does not change at all.
LEMMA WindowStays ==
  ASSUME UNCHANGED <<sHead, sTail, sSize, sSlot>>
  PROVE  /\ \A a : BlocksOK(a) => BlocksOK(a)'
         /\ \A a, b : ConfirmsBefore(a, b) => ConfirmsBefore(a, b)'
BY DEF BlocksOK, ConfirmsBefore, AckMatches, InSendWindow, IsIndexInValid, Off

\* The same when the head passes messages that precede the blocks.
LEMMA WindowMoves ==
  ASSUME RingsInv, RingsInv', NEW d \in 0 .. N-1, d <= sSize,
         sHead' = At(sHead, d), sSize' = sSize - d, sSlot' = sSlot,
         NEW b, BlocksOK(b), \A j \in 1 .. Len(b.sack) : d <= Off(sHead, b.sack[j])
  PROVE  /\ BlocksOK(b)'
         /\ \A a : AckOK(a) /\ ConfirmsBefore(a, b) => ConfirmsBefore(a, b)'
<1>1. /\ sHead \in Index /\ sHead' \in Index /\ sSize \in Nat /\ sSize < N /\ d \in Nat
  BY CapacityAssumption DEF RingsInv, WindowOK, TypeOK, SenderTypeOK
<1>2. /\ b.sack \in Seq(Index)
      /\ \A j \in 1 .. Len(b.sack) : Off(sHead, b.sack[j]) < sSize
      /\ \A j \in 1 .. Len(b.sack) - 1 : Off(sHead, b.sack[j]) <= Off(sHead, b.sack[j+1])
  BY DEF BlocksOK
<1>3. \A i \in Index : Off(sHead, i) \in Nat /\ Off(sHead', i) \in Nat
  BY <1>1, OffTheorem, CapacityAssumption
<1>4. \A j \in 1 .. Len(b.sack) : b.sack[j] \in Index
  BY <1>2, ElementOfSeq
<1>5. \A j \in 1 .. Len(b.sack) : Off(sHead', b.sack[j]) = Off(sHead, b.sack[j]) - d
  BY <1>1, <1>4, OffPastHead
<1>6. BlocksOK(b)'
  <2>1. Len(b.sack) \in Nat
    BY <1>2
  <2>2. \A j \in 1 .. Len(b.sack) : Off(sHead', b.sack[j]) < sSize'
    <3> TAKE j \in 1 .. Len(b.sack)
    <3>1. Off(sHead, b.sack[j]) < sSize /\ Off(sHead', b.sack[j]) = Off(sHead, b.sack[j]) - d
      BY <1>2, <1>5
    <3>2. Off(sHead, b.sack[j]) \in Nat
      BY <1>3, <1>4
    <3> QED BY <1>1, <3>1, <3>2
  <2>3. \A j \in 1 .. Len(b.sack) - 1 : Off(sHead', b.sack[j]) <= Off(sHead', b.sack[j+1])
    <3> TAKE j \in 1 .. Len(b.sack) - 1
    <3>1. j \in 1 .. Len(b.sack) /\ j + 1 \in 1 .. Len(b.sack)
      BY <2>1
    <3>2. Off(sHead, b.sack[j]) <= Off(sHead, b.sack[j+1])
      BY <1>2
    <3>3. b.sack[j] \in Index /\ b.sack[j+1] \in Index
      BY <1>4, <3>1
    <3>4. /\ Off(sHead', b.sack[j]) = Off(sHead, b.sack[j]) - d
          /\ Off(sHead', b.sack[j+1]) = Off(sHead, b.sack[j+1]) - d
      BY <1>5, <3>1
    <3>5. Off(sHead, b.sack[j]) \in Nat /\ Off(sHead, b.sack[j+1]) \in Nat
      BY <1>3, <3>3
    <3> QED BY <1>1, <3>2, <3>4, <3>5
  <2> QED BY <1>2, <2>2, <2>3 DEF BlocksOK, Off
<1>7. ASSUME NEW a, AckOK(a), ConfirmsBefore(a, b) PROVE ConfirmsBefore(a, b)'
  <2>0. a.index \in Index
    BY <1>7 DEF AckOK, IsAck
  <2> SUFFICES ASSUME AckMatches(a)', NEW j \in 1 .. Len(b.sack)
               PROVE  Off(sHead', a.index) < Off(sHead', b.sack[j])
    BY DEF ConfirmsBefore, Off
  <2>1. sSlot[a.index].cycle = a.cycle /\ Off(sHead', a.index) < sSize - d
    <3>1. sHead' \in Index /\ sSize' \in 0 .. N /\ sTail' = At(sHead', sSize')
      BY DEF RingsInv, TypeOK, SenderTypeOK, RingsAligned, Index
    <3>2. sSlot'[a.index].cycle = a.cycle /\ IsIndexInValid(sHead', sTail', sSize', a.index)
      BY DEF AckMatches, InSendWindow, IsIndexInValid
    <3>3. Off(sHead', a.index) < sSize'
      BY <2>0, <3>1, <3>2, ValidTheorem
    <3> QED BY <3>2, <3>3
  <2>2. Off(sHead', a.index) \in Nat /\ Off(sHead, a.index) \in Nat
    BY <1>3, <2>0
  <2>3. Off(sHead, a.index) = Off(sHead', a.index) + d
    <3>1. Off(sHead', a.index) < N - d
      BY <1>1, <2>1, <2>2, CapacityAssumption
    <3> QED BY <1>1, <2>0, <3>1, OffShift
  <2>4. AckMatches(a)
    <3>1. Off(sHead, a.index) < sSize
      BY <1>1, <2>1, <2>2, <2>3
    <3> QED BY <2>0, <2>1, <3>1, MatchTheorem
  <2>5. Off(sHead, a.index) < Off(sHead, b.sack[j])
    BY <1>7, <2>4 DEF ConfirmsBefore
  <2>6. Off(sHead', b.sack[j]) = Off(sHead, b.sack[j]) - d /\ Off(sHead, b.sack[j]) \in Nat
    BY <1>3, <1>4, <1>5
  <2> QED BY <1>1, <2>2, <2>3, <2>5, <2>6
<1> QED BY <1>6, <1>7

-----------------------------------------------------------------------------
(***************************************************************************)
(* The steps of the protocol.                                              *)
(***************************************************************************)

\* Both ends are idle and no acknowledgement is in flight.
LEMMA InitBlocks ==
  ASSUME Init
  PROVE  BlocksInv
<1>1. /\ rFack.busy = FALSE /\ rLastAck = [index |-> 0, cycle |-> 0, sack |-> <<>>]
      /\ acks = <<>> /\ sSize = 0
  BY DEF Init, SenderInit, ReceiverInit, FackIdle
<1>2. rLastAck.sack = <<>> /\ rLastAck.sack \in Seq(Index) /\ Len(rLastAck.sack) = 0
  BY <1>1, EmptySeq
<1>3. BlocksOK(rLastAck) /\ ConfirmsBefore(rLastAck, rLastAck)
  BY <1>2 DEF BlocksOK, ConfirmsBefore
<1> QED BY <1>1, <1>3 DEF BlocksInv

\* Steps that leave the window, the acknowledgements and the scan alone; the
\* receiver's ring may grow at its tail while the scan runs.
LEMMA BlocksUntouched ==
  ASSUME BlocksInv, rSize \in Nat, rSize' \in Nat, rSize <= rSize',
         UNCHANGED <<sHead, sTail, sSize, sSlot, rHead, rFack, rLastAck, acks>>
  PROVE  BlocksInv'
<1>1. (rFack.busy => rFack.size \in 0 .. rSize /\ rFack.tail = At(rHead, rFack.size))'
  BY DEF BlocksInv, At
<1>2. (BlocksOK(rLastAck) /\ ConfirmsBefore(rLastAck, rLastAck))'
  BY WindowStays DEF BlocksInv
<1>3. (\A k \in 1 .. Len(acks) :
         /\ BlocksOK(acks[k]) /\ ConfirmsBefore(acks[k], rLastAck)
         /\ \A l \in k .. Len(acks) : ConfirmsBefore(acks[k], acks[l]))'
  BY WindowStays DEF BlocksInv
<1> QED BY <1>1, <1>2, <1>3 DEF BlocksInv

\* A new message extends the window; its slot's older lap is confirmed, so no
\* acknowledgement in flight names it.
LEMMA UserAddsItemBlocks ==
  ASSUME RingsInv, RingsInv', BlocksInv, UserAddsItem, MaxUnacked < N
  PROVE  BlocksInv'
<1>1. /\ sSlot' = [sSlot EXCEPT ![sTail] = [cycle |-> sCycle, data |-> accepted + 1]]
      /\ sTail' = Succ(sTail) /\ sSize' = sSize + 1
      /\ UNCHANGED <<sHead, rHead, rSize, rFack, rLastAck, acks>>
  BY DEF UserAddsItem, AddItem, receiverVars
<1>2. /\ sHead \in Index /\ sTail \in Index /\ sSize \in Nat /\ sSize < N
      /\ sSlot \in [Index -> [cycle : Nat, data : Nat]] /\ sCycle \in Nat /\ rSize \in Nat
      /\ Off(sHead, sTail) = sSize
  <2>1. SenderTypeOK /\ ReceiverTypeOK /\ sSize < N
    BY TypeParts DEF RingsInv, WindowOK
  <2>2. Off(sHead, sTail) = sSize
    BY Counters
  <2> QED BY <2>1, <2>2, CapacityAssumption DEF SenderTypeOK, ReceiverTypeOK
<1>3. sSlot[sTail].cycle = sCycle - 1
  <2>1. SenderSlotOK(sTail) /\ sTail \in Nat
    BY <1>2 DEF RingsInv, SenderSlots, Index
  <2> QED BY <2>1 DEF SenderSlotOK
<1>4. ASSUME NEW a, AckOK(a), AckMatches(a)' PROVE AckMatches(a)
  <2>1. a.index \in Index /\ a.cycle \in Nat /\ a.cycle <= sSlot[a.index].cycle
    BY <1>4 DEF AckOK, IsAck
  <2>2. sSlot'[a.index].cycle = a.cycle /\ Off(sHead, a.index) < sSize + 1
    <3>1. sHead' \in Index /\ sSize' \in 0 .. N /\ sTail' = At(sHead', sSize')
      BY DEF RingsInv, TypeOK, SenderTypeOK, RingsAligned, Index
    <3>2. sSlot'[a.index].cycle = a.cycle /\ IsIndexInValid(sHead', sTail', sSize', a.index)
      BY <1>4 DEF AckMatches, InSendWindow, IsIndexInValid
    <3> QED BY <1>1, <2>1, <3>1, <3>2, ValidTheorem
  <2>3. a.index # sTail
    BY <1>1, <1>2, <1>3, <2>1, <2>2
  <2>4. Off(sHead, a.index) # sSize /\ Off(sHead, a.index) \in Nat
    BY <1>2, <2>1, <2>3, OffInjective, OffTheorem, CapacityAssumption
  <2>5. sSlot[a.index].cycle = a.cycle /\ Off(sHead, a.index) < sSize
    BY <1>1, <1>2, <2>1, <2>2, <2>3, <2>4
  <2> QED BY <2>1, <2>5, MatchTheorem
<1>5. /\ \A a : BlocksOK(a) => BlocksOK(a)'
      /\ \A a, b : AckOK(a) /\ ConfirmsBefore(a, b) => ConfirmsBefore(a, b)'
  <2>1. sHead' = sHead /\ sSize' >= sSize
    BY <1>1, <1>2
  <2> QED BY <1>4, <2>1, WindowGrows
<1>6. (rFack.busy => rFack.size \in 0 .. rSize /\ rFack.tail = At(rHead, rFack.size))'
  BY <1>1 DEF BlocksInv, At
<1>7. (BlocksOK(rLastAck) /\ ConfirmsBefore(rLastAck, rLastAck))'
  BY <1>1, <1>5 DEF BlocksInv, RingsInv, AcksOK
<1>8. (\A k \in 1 .. Len(acks) :
         /\ BlocksOK(acks[k]) /\ ConfirmsBefore(acks[k], rLastAck)
         /\ \A l \in k .. Len(acks) : ConfirmsBefore(acks[k], acks[l]))'
  BY <1>1, <1>5 DEF BlocksInv, RingsInv, AcksOK
<1> QED BY <1>6, <1>7, <1>8 DEF BlocksInv

\* An acknowledgement moves the head no further than the blocks of those that
\* were sent after it; those sent before it are dropped by their time stamp.
LEMMA RecvAckBlocks ==
  ASSUME RingsInv, RingsInv', BlocksInv, NEW k \in 1 .. Len(acks), RecvAck(k)
  PROVE  BlocksInv'
<1> DEFINE a == acks[k]
<1>1. AckOK(a) /\ AckOK(rLastAck) /\ \A l \in 1 .. Len(acks) : AckOK(acks[l])
  BY DEF RingsInv, AcksOK
<1>2. PICK d \in 0 .. N-1 :
        /\ d <= sSize /\ HeadAfter(a) = At(sHead, d) /\ SizeAfter(a) = sSize - d
        /\ d > 0 => AckMatches(a) /\ d = Off(sHead, a.index) + 1
  BY <1>1, AckDistance
<1>3. /\ sHead' = At(sHead, d) /\ sSize' = sSize - d
      /\ acks' = SubSeq(acks, k+1, Len(acks))
      /\ UNCHANGED <<sTail, sSlot, rHead, rSize, rFack, rLastAck>>
  BY <1>2 DEF RecvAck, OnRecvMessageFromRecvTerm, AcksAfter, receiverVars
<1>4. ASSUME NEW b, BlocksOK(b), ConfirmsBefore(a, b)
      PROVE  BlocksOK(b)' /\ \A c : AckOK(c) /\ ConfirmsBefore(c, b) => ConfirmsBefore(c, b)'
  <2>1. \A j \in 1 .. Len(b.sack) : d <= Off(sHead, b.sack[j])
    <3> TAKE j \in 1 .. Len(b.sack)
    <3>1. b.sack[j] \in Index /\ sHead \in Index /\ a.index \in Index
      BY <1>1, <1>4, ElementOfSeq DEF BlocksOK, RingsInv, TypeOK, SenderTypeOK, AckOK, IsAck
    <3>2. Off(sHead, b.sack[j]) \in 0 .. N-1 /\ Off(sHead, a.index) \in 0 .. N-1
      BY <3>1, OffTheorem
    <3>3. d > 0 => d = Off(sHead, a.index) + 1 /\ Off(sHead, a.index) < Off(sHead, b.sack[j])
      BY <1>2, <1>4 DEF ConfirmsBefore
    <3> HIDE DEF a
    <3> QED BY <3>2, <3>3, CapacityAssumption
  <2> HIDE DEF a
  <2> QED BY <1>2, <1>3, <1>4, <2>1, WindowMoves
<1>5. /\ Len(acks) \in Nat /\ Len(acks') = Len(acks) - k
      /\ \A j \in 1 .. Len(acks') : k + j \in k .. Len(acks) /\ k + j \in 1 .. Len(acks) /\ acks'[j] = acks[k+j]
  <2>1. acks \in Seq({acks[j] : j \in 1 .. Len(acks)}) /\ Len(acks) \in Nat
    BY DEF RingsInv, TypeOK, NetworkTypeOK
  <2>2. \A j \in k+1 .. Len(acks) : acks[j] \in {acks[m] : m \in 1 .. Len(acks)}
    BY <2>1
  <2>3. k + 1 \in Int /\ Len(acks) \in Int /\ k \in Nat /\ k <= Len(acks)
    BY <2>1
  <2>4. /\ Len(acks') = IF k+1 <= Len(acks) THEN Len(acks) - (k+1) + 1 ELSE 0
        /\ \A j \in 1 .. Len(acks) - (k+1) + 1 : acks'[j] = acks[k+1+j-1]
    <3> HIDE DEF a
    <3> QED BY <1>3, <2>2, <2>3, SubSeqProperties
  <2> HIDE DEF a
  <2>5. Len(acks') = Len(acks) - k
    BY <2>3, <2>4
  <2>6. \A j \in 1 .. Len(acks') : acks'[j] = acks[k+j]
    <3> TAKE j \in 1 .. Len(acks')
    <3>1. j \in 1 .. Len(acks) - (k+1) + 1 /\ k+1+j-1 = k+j
      BY <2>3, <2>5
    <3> QED BY <2>4, <3>1
  <2> QED BY <2>3, <2>5, <2>6
<1>6. (rFack.busy => rFack.size \in 0 .. rSize /\ rFack.tail = At(rHead, rFack.size))'
  BY <1>3 DEF BlocksInv, At
<1>7. (BlocksOK(rLastAck) /\ ConfirmsBefore(rLastAck, rLastAck))'
  BY <1>1, <1>3, <1>4 DEF BlocksInv
<1>8. (\A m \in 1 .. Len(acks) :
         /\ BlocksOK(acks[m]) /\ ConfirmsBefore(acks[m], rLastAck)
         /\ \A l \in m .. Len(acks) : ConfirmsBefore(acks[m], acks[l]))'
  <2>1. ASSUME NEW l \in k .. Len(acks), l \in 1 .. Len(acks), NEW b, b = acks[l]
        PROVE  BlocksOK(b)' /\ \A c : AckOK(c) /\ ConfirmsBefore(c, b) => ConfirmsBefore(c, b)'
    <3>1. BlocksOK(b) /\ ConfirmsBefore(a, b)
      BY <2>1 DEF BlocksInv
    <3> QED BY <1>4, <3>1
  <2>2. ASSUME NEW b, b = rLastAck
        PROVE  \A c : AckOK(c) /\ ConfirmsBefore(c, b) => ConfirmsBefore(c, b)'
    <3>1. BlocksOK(b) /\ ConfirmsBefore(a, b)
      BY <2>2 DEF BlocksInv
    <3> QED BY <1>4, <3>1
  <2> HIDE DEF a
  <2>3. ASSUME NEW m \in 1 .. Len(acks'), NEW b, b = acks'[m]
        PROVE  BlocksOK(b)' /\ \A c : c = rLastAck => ConfirmsBefore(b, c)'
    <3>1. AckOK(b) /\ ConfirmsBefore(b, rLastAck)
      BY <1>1, <1>5, <2>3 DEF BlocksInv
    <3>2. BlocksOK(b)'
      BY <1>5, <2>1, <2>3
    <3>3. \A c : c = rLastAck => ConfirmsBefore(b, c)'
      BY <2>2, <3>1
    <3> QED BY <3>2, <3>3
  <2>4. ASSUME NEW m \in 1 .. Len(acks'), NEW l \in m .. Len(acks'),
               NEW b, b = acks'[m], NEW c, c = acks'[l]
        PROVE  ConfirmsBefore(b, c)'
    <3>1. l \in 1 .. Len(acks') /\ k + l \in k + m .. Len(acks)
      BY <1>5
    <3>2. /\ k + l \in k .. Len(acks) /\ k + l \in 1 .. Len(acks) /\ c = acks[k+l]
          /\ k + m \in 1 .. Len(acks) /\ b = acks[k+m]
      BY <1>5, <2>4, <3>1
    <3>3. AckOK(b) /\ ConfirmsBefore(b, c)
      BY <1>1, <3>1, <3>2 DEF BlocksInv
    <3> QED BY <2>1, <3>2, <3>3
  <2> QED BY <1>3, <2>3, <2>4
<1> QED BY <1>6, <1>7, <1>8 DEF BlocksInv

\* A packet that arrives never shortens the receiver's ring.
LEMMA UpdateThreadBlocks ==
  ASSUME RingsInv, BlocksInv, UpdateThread
  PROVE  BlocksInv'
<1>1. UNCHANGED <<sHead, sTail, sSize, sSlot, rHead, rFack, rLastAck, acks>>
  BY DEF UpdateThread, NewDealSingleReceiveData, senderVars
<1>2. rSize \in Nat /\ rTail \in Index
  BY CapacityAssumption DEF RingsInv, TypeOK, ReceiverTypeOK
<1>3. Head(rTemp).index \in Index
  <2>1. rTemp \in Seq(PacketType) /\ rTemp # <<>>
    BY DEF RingsInv, TypeOK, NetworkTypeOK, UpdateThread, NewDealSingleReceiveData
  <2>2. Head(rTemp) \in PacketType
    BY <2>1, HeadTailProperties
  <2> QED BY <2>2 DEF PacketType
<1>4. rSize' = rSize \/ rSize' = SizeAfterExtend(Head(rTemp).index)
  BY DEF UpdateThread, NewDealSingleReceiveData
<1>5. rSize' \in Nat /\ rSize <= rSize'
  <2>1. Off(rTail, Head(rTemp).index) \in Nat
    BY <1>2, <1>3, OffTheorem, CapacityAssumption
  <2> QED BY <1>2, <1>4, <2>1 DEF SizeAfterExtend
<1> QED BY <1>1, <1>2, <1>5, BlocksUntouched

\* The scan is to run from the new head to the tail that was seen.
LEMMA FackThreadTraversesBlocks ==
  ASSUME RingsInv, BlocksInv, FackThreadTraverses
  PROVE  BlocksInv'
<1>1. PICK n \in 0 .. rSize : Collect(n)
  BY DEF FackThreadTraverses, FackTraverse
<1>2. UNCHANGED <<sHead, sTail, sSize, sSlot, rLastAck, acks>>
  BY DEF FackThreadTraverses, FackTraverse, senderVars
<1>3. /\ rHead' = At(rHead, n) /\ rSize' = rSize - n
      /\ rFack'.size = rSize - n /\ rFack'.tail = rTail
  BY <1>1 DEF Collect
<1>4. /\ rHead \in Index /\ rSize \in Nat /\ rSize < N /\ rTail = At(rHead, rSize)
  <2>1. rSize \in 0 .. N /\ rHead \in Index /\ rTail = At(rHead, rSize) /\ Collected + rSize <= accepted
    BY DEF RingsInv, TypeOK, ReceiverTypeOK, RingsAligned
  <2>2. Collected \in Nat /\ accepted \in Nat /\ accepted - Collected < N
    BY Counters
  <2> QED BY <2>1, <2>2, CapacityAssumption
<1>5. (rFack.busy => rFack.size \in 0 .. rSize /\ rFack.tail = At(rHead, rFack.size))'
  <2>1. n \in 0 .. N-1 /\ rSize \in n .. N-1 /\ rSize - n \in 0 .. rSize - n
    BY <1>4, CapacityAssumption
  <2>2. At(At(rHead, n), rSize - n) = At(rHead, rSize)
    BY <1>4, <2>1, AtShift
  <2> QED BY <1>3, <1>4, <2>1, <2>2 DEF At
<1>6. (BlocksOK(rLastAck) /\ ConfirmsBefore(rLastAck, rLastAck))'
  BY <1>2, WindowStays DEF BlocksInv
<1>7. (\A k \in 1 .. Len(acks) :
         /\ BlocksOK(acks[k]) /\ ConfirmsBefore(acks[k], rLastAck)
         /\ \A l \in k .. Len(acks) : ConfirmsBefore(acks[k], acks[l]))'
  BY <1>2, WindowStays DEF BlocksInv
<1> QED BY <1>5, <1>6, <1>7 DEF BlocksInv

\* The channel after a push: the new acknowledgement last, the others in order.
LEMMA PushInOrder ==
  ASSUME NetworkTypeOK, NEW a
  PROVE  \E o \in {0, 1} :
           /\ Len(acks) \in Nat /\ Len(Push(a)) = Len(acks) + 1 - o
           /\ \A j \in 1 .. Len(Push(a)) : j + o \in 1 .. Len(acks) + 1
           /\ \A j \in 1 .. Len(Push(a)) :
                Push(a)[j] = IF j + o <= Len(acks) THEN acks[j+o] ELSE a
<1> DEFINE S   == {acks[m] : m \in 1 .. Len(acks)} \cup {a}
           all == Append(acks, a)
<1>1. acks \in Seq(S)
  <2>1. acks \in Seq({acks[m] : m \in 1 .. Len(acks)})
    BY DEF NetworkTypeOK
  <2>2. {acks[m] : m \in 1 .. Len(acks)} \subseteq S
    OBVIOUS
  <2> HIDE DEF S
  <2> QED BY <2>1, <2>2, SeqMonotonic
<1>2. a \in S
  OBVIOUS
<1> HIDE DEF S
<1>3. /\ all \in Seq(S) /\ all # <<>> /\ Len(all) = Len(acks) + 1 /\ Len(acks) \in Nat
      /\ \A j \in 1 .. Len(acks) : all[j] = acks[j]
      /\ all[Len(acks) + 1] = a
  BY <1>1, <1>2, AppendProperties
<1>4. \A j \in 1 .. Len(acks) + 1 : all[j] = IF j <= Len(acks) THEN acks[j] ELSE a
  <2> HIDE DEF all
  <2> QED BY <1>3
<1>5. /\ Len(Tail(all)) = Len(acks)
      /\ \A j \in 1 .. Len(acks) : Tail(all)[j] = all[j+1]
  <2> HIDE DEF all
  <2>1. Len(Tail(all)) = Len(all) - 1 /\ \A j \in 1 .. Len(Tail(all)) : Tail(all)[j] = all[j+1]
    BY <1>3, HeadTailProperties
  <2> QED BY <1>3, <2>1
<1>6. Push(a) = IF Len(all) > MaxAcks THEN Tail(all) ELSE all
  BY DEF Push
<1> HIDE DEF all
<1>7. CASE Len(all) > MaxAcks
  <2>1. \A j \in 1 .. Len(acks) : j + 1 \in 1 .. Len(acks) + 1
    BY <1>3
  <2>2. \A j \in 1 .. Len(acks) : Push(a)[j] = IF j + 1 <= Len(acks) THEN acks[j+1] ELSE a
    BY <1>3, <1>4, <1>5, <1>6, <1>7, <2>1
  <2>3. Len(Push(a)) = Len(acks) /\ Len(acks) = Len(acks) + 1 - 1
    BY <1>3, <1>5, <1>6, <1>7
  <2> QED BY <1>3, <2>1, <2>2, <2>3
<1>8. CASE ~(Len(all) > MaxAcks)
  <2>1. Len(Push(a)) = Len(acks) + 1 - 0 /\ Push(a) = all
    BY <1>3, <1>6, <1>8
  <2>2. \A j \in 1 .. Len(acks) + 1 : j + 0 = j
    OBVIOUS
  <2>3. Len(Push(a)) = Len(acks) + 1
    BY <1>3, <2>1
  <2> QED BY <1>3, <1>4, <2>1, <2>2, <2>3
<1> QED BY <1>7, <1>8

\* What a finished scan writes: its blocks begin where everything collected
\* ends, so nothing an acknowledgement confirms lies beyond them.
LEMMA FinishedBlocks ==
  ASSUME RingsInv, BlocksInv, rFack.busy, NEW seen, NEW b, b = FinishedAck(seen)
  PROVE  /\ BlocksOK(b) /\ AckOK(b)
         /\ \A a : AckOK(a) => ConfirmsBefore(a, b)
<1>1. b.index = rFack.ack.index /\ b.cycle = rFack.ack.cycle
  BY DEF FinishedAck
<1>2. AckOK(b)
  BY <1>1 DEF RingsInv, AcksOK, AckOK, IsAck
<1> DEFINE c == Collected - Confirmed
<1>3. /\ sHead \in Index /\ rHead \in Index /\ sSize \in Nat /\ sSize < N /\ rSize \in Nat
      /\ c \in 0 .. N-1 /\ c + rSize <= sSize /\ rHead = At(sHead, c)
  <2>1. SenderTypeOK /\ ReceiverTypeOK /\ sSize < N /\ Collected + rSize <= accepted
        /\ rHead = At(sHead, Collected - Confirmed)
    BY TypeParts DEF RingsInv, WindowOK, RingsAligned
  <2>2. /\ Collected \in Nat /\ Confirmed \in Nat /\ accepted \in Nat
        /\ Confirmed <= Collected /\ Collected <= accepted
    BY Counters
  <2>3. sHead \in Index /\ rHead \in Index /\ sSize \in Nat /\ rSize \in Nat
    BY <2>1, CapacityAssumption DEF SenderTypeOK, ReceiverTypeOK
  <2>4. accepted - Confirmed = sSize
    BY <2>2, <2>3 DEF Confirmed
  <2> QED BY <2>1, <2>2, <2>3, <2>4, CapacityAssumption
<1>4. /\ b.sack \in Seq(Index)
      /\ \A j \in 1 .. Len(b.sack) : b.sack[j] \in Index /\ Off(rHead, b.sack[j]) < rSize
      /\ \A j \in 1 .. Len(b.sack) - 1 : Off(rHead, b.sack[j]) <= Off(rHead, b.sack[j+1])
  <2>1. CASE SackAllowed
    <3>1. rFack.size \in 0 .. rSize /\ rFack.tail = At(rHead, rFack.size)
      BY DEF BlocksInv
    <3>2. rFack.size \in 0 .. N-1
      BY <1>3, <3>1, CapacityAssumption
    <3>3. rFack.tail \in Index /\ Off(rHead, rFack.tail) = rFack.size
      BY <1>3, <3>1, <3>2, AtTheorem
    <3>4. b.sack = SackBlocks(rHead, rFack.tail, seen)
      BY <2>1 DEF FinishedAck
    <3>5. /\ b.sack \in Seq(Index)
          /\ \A j \in 1 .. Len(b.sack) : b.sack[j] \in Span(rHead, rFack.tail)
          /\ \A j \in 1 .. Len(b.sack) - 1 : Off(rHead, b.sack[j]) <= Off(rHead, b.sack[j+1])
      BY <1>3, <3>3, <3>4, SackBlocksTheorem
    <3>6. \A j \in 1 .. Len(b.sack) : b.sack[j] \in Index /\ Off(rHead, b.sack[j]) < rFack.size
      BY <3>3, <3>5 DEF Span
    <3>7. \A i \in Index : Off(rHead, i) \in Nat
      BY <1>3, OffTheorem, CapacityAssumption
    <3>8. \A j \in 1 .. Len(b.sack) : Off(rHead, b.sack[j]) < rSize
      <4> TAKE j \in 1 .. Len(b.sack)
      <4>1. Off(rHead, b.sack[j]) < rFack.size /\ Off(rHead, b.sack[j]) \in Nat
        BY <3>6, <3>7
      <4>2. rFack.size \in Nat /\ rFack.size <= rSize /\ rSize \in Nat
        BY <1>3, <3>1
      <4> QED BY <4>1, <4>2
    <3> QED BY <3>5, <3>6, <3>8
  <2>2. CASE ~SackAllowed
    <3>1. b.sack = <<>>
      BY <2>2 DEF FinishedAck
    <3>2. b.sack \in Seq(Index) /\ Len(b.sack) = 0
      BY <3>1, EmptySeq
    <3> QED BY <3>2
  <2> QED BY <2>1, <2>2
<1> HIDE DEF c
<1>5. ASSUME NEW i \in Index, Off(rHead, i) < rSize
      PROVE  Off(sHead, i) = c + Off(rHead, i)
  <2>1. Off(rHead, i) \in Nat
    BY <1>3, OffTheorem, CapacityAssumption
  <2>2. Off(At(sHead, c), i) < N - c
    BY <1>3, <1>5, <2>1, CapacityAssumption
  <2>3. Off(sHead, i) = Off(At(sHead, c), i) + c
    BY <1>3, <2>2, OffShift
  <2> QED BY <1>3, <2>1, <2>3
<1>6. \A j \in 1 .. Len(b.sack) :
        b.sack[j] \in Index /\ Off(rHead, b.sack[j]) \in Nat /\ Off(rHead, b.sack[j]) < rSize
        /\ Off(sHead, b.sack[j]) = c + Off(rHead, b.sack[j])
  <2>1. \A i \in Index : Off(rHead, i) \in Nat
    BY <1>3, OffTheorem, CapacityAssumption
  <2> QED BY <1>4, <1>5, <2>1
<1>7. BlocksOK(b)
  <2>1. Len(b.sack) \in Nat
    BY <1>4
  <2>2. \A j \in 1 .. Len(b.sack) : Off(sHead, b.sack[j]) < sSize
    BY <1>3, <1>6
  <2>3. \A j \in 1 .. Len(b.sack) - 1 : Off(sHead, b.sack[j]) <= Off(sHead, b.sack[j+1])
    <3> TAKE j \in 1 .. Len(b.sack) - 1
    <3>1. j \in 1 .. Len(b.sack) /\ j + 1 \in 1 .. Len(b.sack)
      BY <2>1
    <3>2. Off(rHead, b.sack[j]) <= Off(rHead, b.sack[j+1])
      BY <1>4
    <3> QED BY <1>3, <1>6, <3>1, <3>2
  <2> QED BY <1>4, <2>2, <2>3 DEF BlocksOK
<1>8. ASSUME NEW a, AckOK(a) PROVE ConfirmsBefore(a, b)
  <2> SUFFICES ASSUME AckMatches(a), NEW j \in 1 .. Len(b.sack)
               PROVE  Off(sHead, a.index) < Off(sHead, b.sack[j])
    BY DEF ConfirmsBefore
  <2>1. a.index \in Index
    BY <1>8 DEF AckOK, IsAck
  <2>2. sSlot[a.index].cycle = a.cycle /\ Off(sHead, a.index) < sSize
    BY <2>1, MatchTheorem
  <2>3. Off(sHead, a.index) < c
    BY <1>8, <2>2 DEF AckOK, c
  <2>4. Off(sHead, a.index) \in Nat
    BY <1>3, <2>1, OffTheorem, CapacityAssumption
  <2> QED BY <1>3, <1>6, <2>3, <2>4
<1> QED BY <1>2, <1>7, <1>8

\* The acknowledgement that is sent goes behind those in flight, all of which
\* confirm only what precedes its blocks.
LEMMA FackThreadSendsBlocks ==
  ASSUME RingsInv, BlocksInv, FackThreadSends \/ FackThreadRepeats
  PROVE  BlocksInv'
<1>1. UNCHANGED <<sHead, sTail, sSize, sSlot, rHead, rSize>>
  BY DEF FackThreadSends, FackThreadRepeats, FackScan, FackRepeat, senderVars, receiverVars
<1>2. PICK b : /\ b = rLastAck' /\ acks' = Push(b)
               /\ BlocksOK(b) /\ ConfirmsBefore(b, b)
               /\ \A k \in 1 .. Len(acks) : ConfirmsBefore(acks[k], b)
               /\ rFack'.busy => rFack.busy /\ rFack' = rFack
  <2>1. CASE FackThreadSends
    <3>1. PICK seen : rLastAck' = FinishedAck(seen)
      BY <2>1 DEF FackThreadSends, FackScan
    <3>2. PICK b : b = FinishedAck(seen)
      OBVIOUS
    <3>3. acks' = Push(b) /\ rFack.busy /\ rFack'.busy = FALSE
      BY <2>1, <3>1, <3>2 DEF FackThreadSends, FackScan, FackIdle
    <3>4. BlocksOK(b) /\ AckOK(b) /\ \A a : AckOK(a) => ConfirmsBefore(a, b)
      BY <3>2, <3>3, FinishedBlocks
    <3>5. \A k \in 1 .. Len(acks) : ConfirmsBefore(acks[k], b)
      BY <3>4 DEF RingsInv, AcksOK
    <3> QED BY <3>1, <3>2, <3>3, <3>4, <3>5
  <2>2. CASE FackThreadRepeats
    <3>1. rFack' = rFack /\ rLastAck' = rLastAck /\ acks' = Push(rLastAck)
      BY <2>2 DEF FackThreadRepeats, FackRepeat, receiverVars
    <3>2. PICK b : b = rLastAck
      OBVIOUS
    <3>3. /\ BlocksOK(b) /\ ConfirmsBefore(b, b)
          /\ \A k \in 1 .. Len(acks) : ConfirmsBefore(acks[k], b)
      BY <3>2 DEF BlocksInv
    <3>4. rFack'.busy => rFack.busy
      BY <3>1
    <3> QED BY <3>1, <3>2, <3>3, <3>4
  <2> QED BY <2>1, <2>2
<1>3. (rFack.busy => rFack.size \in 0 .. rSize /\ rFack.tail = At(rHead, rFack.size))'
  BY <1>1, <1>2 DEF BlocksInv, At
<1>4. (BlocksOK(rLastAck) /\ ConfirmsBefore(rLastAck, rLastAck))'
  BY <1>1, <1>2, WindowStays
<1>5. PICK o \in {0, 1} :
        /\ Len(acks) \in Nat /\ Len(acks') = Len(acks) + 1 - o
        /\ \A j \in 1 .. Len(acks') : j + o \in 1 .. Len(acks) + 1
        /\ \A j \in 1 .. Len(acks') : acks'[j] = IF j + o <= Len(acks) THEN acks[j+o] ELSE b
  <2>1. NetworkTypeOK
    BY TypeParts DEF RingsInv
  <2>2. \E o \in {0, 1} :
          /\ Len(acks) \in Nat /\ Len(Push(b)) = Len(acks) + 1 - o
          /\ \A j \in 1 .. Len(Push(b)) : j + o \in 1 .. Len(acks) + 1
          /\ \A j \in 1 .. Len(Push(b)) :
               Push(b)[j] = IF j + o <= Len(acks) THEN acks[j+o] ELSE b
    BY <2>1, PushInOrder
  <2>3. acks' = Push(b)
    BY <1>2
  <2> QED BY <2>2, <2>3
<1>6. ASSUME NEW k \in 1 .. Len(acks'), NEW x, x = acks'[k]
      PROVE  BlocksOK(x) /\ ConfirmsBefore(x, b)
  <2>1. k + o \in 1 .. Len(acks) + 1 /\ x = IF k + o <= Len(acks) THEN acks[k+o] ELSE b
    BY <1>5, <1>6
  <2>2. CASE k + o <= Len(acks)
    <3>1. k + o \in 1 .. Len(acks) /\ x = acks[k+o]
      BY <1>5, <2>1, <2>2
    <3> QED BY <1>2, <3>1 DEF BlocksInv
  <2>3. CASE ~(k + o <= Len(acks))
    BY <1>2, <2>1, <2>3
  <2> QED BY <2>2, <2>3
<1>7. ASSUME NEW k \in 1 .. Len(acks'), NEW l \in k .. Len(acks'),
             NEW x, x = acks'[k], NEW y, y = acks'[l]
      PROVE  ConfirmsBefore(x, y)
  <2>1. /\ l \in 1 .. Len(acks') /\ k + o <= l + o /\ k + o \in Nat /\ l + o \in Nat
        /\ k + o \in 1 .. Len(acks) + 1 /\ l + o \in 1 .. Len(acks) + 1
    BY <1>5
  <2>2. CASE l + o <= Len(acks)
    <3>1. l + o \in 1 .. Len(acks) /\ k + o \in 1 .. Len(acks) /\ l + o \in k + o .. Len(acks)
      BY <1>5, <2>1, <2>2
    <3>2. y = acks[l+o] /\ x = acks[k+o]
      BY <1>5, <1>7, <2>1, <2>2, <3>1
    <3> QED BY <3>1, <3>2 DEF BlocksInv
  <2>3. CASE ~(l + o <= Len(acks))
    <3>1. y = b
      BY <1>5, <1>7, <2>1, <2>3
    <3> QED BY <1>6, <1>7, <3>1
  <2> QED BY <2>2, <2>3
<1>8. (\A k \in 1 .. Len(acks) :
         /\ BlocksOK(acks[k]) /\ ConfirmsBefore(acks[k], rLastAck)
         /\ \A l \in k .. Len(acks) : ConfirmsBefore(acks[k], acks[l]))'
  <2>1. ASSUME NEW k \in 1 .. Len(acks'), NEW x, x = acks'[k]
        PROVE  BlocksOK(x)' /\ \A y : y = rLastAck' => ConfirmsBefore(x, y)'
    BY <1>1, <1>2, <1>6, <2>1, WindowStays
  <2>2. ASSUME NEW k \in 1 .. Len(acks'), NEW l \in k .. Len(acks'),
               NEW x, x = acks'[k], NEW y, y = acks'[l]
        PROVE  ConfirmsBefore(x, y)'
    BY <1>1, <1>7, <2>2, WindowStays
  <2> QED BY <2>1, <2>2
<1> QED BY <1>3, <1>4, <1>8 DEF BlocksInv

\* Every step of the protocol keeps the blocks in the window.
LEMMA StepBlocks ==
  ASSUME MaxUnacked < N, RingsInv, RingsInv', BlocksInv, [Next]_vars
  PROVE  BlocksInv'
<1>1. CASE UserAddsItem
  BY <1>1, UserAddsItemBlocks
<1>2. CASE \/ UserSendsPacket \/ AdjustBandWidth
           \/ \E p \in net : LosePacket(p) \/ RecvData(p)
           \/ \E i \in Index : PacketAges(i)
           \/ ConfirmationAges \/ UploadThread
           \/ UNCHANGED vars
  <2>1. UNCHANGED <<sHead, sTail, sSize, sSlot, rHead, rSize, rFack, rLastAck, acks>>
    BY <1>2 DEF UserSendsPacket, AdjustBandWidth, LosePacket, RecvData, Enqueue, PacketAges,
                PacketBecomesDue, ConfirmationAges, ConfirmationOverdue, UploadThread,
                UploadDataPacket, vars, senderVars, receiverVars
  <2>2. rSize \in Nat
    BY CapacityAssumption DEF RingsInv, TypeOK, ReceiverTypeOK
  <2> QED BY <2>1, <2>2, BlocksUntouched
<1>3. CASE \E k \in 1 .. Len(acks) : RecvAck(k)
  BY <1>3, RecvAckBlocks
<1>4. CASE UpdateThread
  BY <1>4, UpdateThreadBlocks
<1>5. CASE FackThreadTraverses
  BY <1>5, FackThreadTraversesBlocks
<1>6. CASE FackThreadSends \/ FackThreadRepeats
  BY <1>6, FackThreadSendsBlocks
<1> QED BY <1>1, <1>2, <1>3, <1>4, <1>5, <1>6 DEF Next

-----------------------------------------------------------------------------
(***************************************************************************)
(* What is retransmitted.                                                  *)
(***************************************************************************)

\* A gap between two slots in ring order ends before the second one.
LEMMA GapBetween ==
  ASSUME NEW h \in Index, NEW x \in Index, NEW y \in Index, NEW i \in Index,
         Off(h, x) <= Off(h, y), Off(x, i) < Off(x, y)
  PROVE  Off(h, x) <= Off(h, i) /\ Off(h, i) < Off(h, y)
BY CapacityAssumption DEF Index, Off

\* One acknowledgement, received in whatever state it finds the sender.
LEMMA ResentInWindow ==
  ASSUME RingsInv, NEW a, AckOK(a), BlocksOK(a), ConfirmsBefore(a, a), NEW i \in Resent(a)
  PROVE  Off(HeadAfter(a), i) < SizeAfter(a)
<1>1. PICK d \in 0 .. N-1 :
        /\ d <= sSize /\ HeadAfter(a) = At(sHead, d) /\ SizeAfter(a) = sSize - d
        /\ d > 0 => AckMatches(a) /\ d = Off(sHead, a.index) + 1
  BY AckDistance
<1> DEFINE h == HeadAfter(a)
<1>2. sHead \in Index /\ sSize \in Nat /\ sDue \subseteq Index /\ h \in Index /\ a.index \in Index
  BY <1>1, AtTheorem, CapacityAssumption DEF RingsInv, TypeOK, SenderTypeOK, AckOK, IsAck
<1>3. CASE Len(a.sack) >= 2 /\ i \in RequestedBySacks(a)
  <2>1. /\ a.sack \in Seq(Index) /\ Len(a.sack) \in Nat
        /\ \A j \in 1 .. Len(a.sack) : a.sack[j] \in Index /\ Off(sHead, a.sack[j]) < sSize
        /\ \A j \in 1 .. Len(a.sack) - 1 : Off(sHead, a.sack[j]) <= Off(sHead, a.sack[j+1])
    BY ElementOfSeq DEF BlocksOK
  <2>2. \A j \in 1 .. Len(a.sack) :
          /\ Off(sHead, a.sack[j]) \in Nat /\ d <= Off(sHead, a.sack[j])
          /\ Off(h, a.sack[j]) = Off(sHead, a.sack[j]) - d
    <3> TAKE j \in 1 .. Len(a.sack)
    <3>1. Off(sHead, a.sack[j]) \in Nat /\ Off(sHead, a.index) \in Nat
      <4>1. a.sack[j] \in Index
        BY <2>1
      <4>2. Off(sHead, a.sack[j]) \in 0 .. N-1 /\ Off(sHead, a.index) \in 0 .. N-1
        BY <1>2, <4>1, OffTheorem
      <4> QED BY <4>2, CapacityAssumption
    <3>2. d > 0 => d = Off(sHead, a.index) + 1 /\ Off(sHead, a.index) < Off(sHead, a.sack[j])
      BY <1>1 DEF ConfirmsBefore
    <3>3. d <= Off(sHead, a.sack[j])
      BY <3>1, <3>2, CapacityAssumption
    <3>4. Off(At(sHead, d), a.sack[j]) = Off(sHead, a.sack[j]) - d
      BY <1>2, <2>1, <3>3, OffPastHead
    <3> QED BY <1>1, <3>1, <3>3, <3>4
  <2>3. \A j \in 1 .. Len(a.sack) : Off(h, a.sack[j]) \in Nat /\ Off(h, a.sack[j]) < sSize - d
    <3> HIDE DEF h
    <3> QED BY <1>2, <2>1, <2>2, CapacityAssumption
  <2>4. i \in Index /\ (\/ i \in Span(h, a.sack[1])
                        \/ \E j \in 2 .. Len(a.sack) - 1 : i \in Span(a.sack[j], a.sack[j+1]))
    BY <1>2, <1>3 DEF RequestedBySacks
  <2>5. PICK l \in 1 .. Len(a.sack) : Off(h, i) < Off(h, a.sack[l])
    <3>1. CASE i \in Span(h, a.sack[1])
      <4>1. 1 \in 1 .. Len(a.sack)
        BY <1>3, <2>1
      <4> QED BY <3>1, <4>1 DEF Span
    <3>2. CASE \E j \in 2 .. Len(a.sack) - 1 : i \in Span(a.sack[j], a.sack[j+1])
      <4>1. PICK j \in 2 .. Len(a.sack) - 1 : Off(a.sack[j], i) < Off(a.sack[j], a.sack[j+1])
        BY <3>2 DEF Span
      <4>2. j \in 1 .. Len(a.sack) /\ j + 1 \in 1 .. Len(a.sack) /\ j \in 1 .. Len(a.sack) - 1
        BY <2>1
      <4>3. a.sack[j] \in Index /\ a.sack[j+1] \in Index
        BY <2>1, <4>2
      <4>4. Off(h, a.sack[j]) <= Off(h, a.sack[j+1])
        <5>1. Off(sHead, a.sack[j]) <= Off(sHead, a.sack[j+1])
          BY <2>1, <4>2
        <5>2. /\ Off(h, a.sack[j]) = Off(sHead, a.sack[j]) - d
              /\ Off(h, a.sack[j+1]) = Off(sHead, a.sack[j+1]) - d
              /\ Off(sHead, a.sack[j]) \in Nat /\ Off(sHead, a.sack[j+1]) \in Nat
          BY <2>2, <4>2
        <5> HIDE DEF h
        <5> QED BY <5>1, <5>2, CapacityAssumption
      <4>5. Off(h, i) < Off(h, a.sack[j+1])
        <5> HIDE DEF h
        <5> QED BY <1>2, <2>4, <4>1, <4>3, <4>4, GapBetween
      <4> QED BY <4>2, <4>5
    <3> QED BY <2>4, <3>1, <3>2
  <2>6. Off(h, i) \in Nat
    BY <1>2, <2>4, OffTheorem, CapacityAssumption
  <2> HIDE DEF h
  <2>7. Off(h, i) < sSize - d
    BY <1>2, <2>3, <2>5, <2>6, CapacityAssumption
  <2> QED BY <1>1, <2>7 DEF h
<1>4. CASE i \in TimedOut(a)
  <2>1. i \in {j \in sDue : Off(HeadAfter(a), j) < SizeAfter(a)}
    BY <1>4 DEF TimedOut
  <2> QED BY <2>1
<1> QED BY <1>3, <1>4 DEF Resent

-----------------------------------------------------------------------------
(* IInv is an invariant: the rings as in RingsInvariance, and the blocks   *)
(* of every acknowledgement in flight lie in the window, in ring order,    *)
(* beyond all that it or an earlier one confirms.                          *)
THEOREM Invariance ==
  ASSUME MaxUnacked < N
  PROVE  Spec => []IInv
<1>1. Init => IInv
  BY InitRingsInv, InitBlocks DEF IInv
<1>2. IInv /\ [Next]_vars => IInv'
  BY StepRingsInv, StepBlocks DEF IInv
<1> QED BY <1>1, <1>2, PTL DEF Spec

(* Whatever acknowledgement arrives, and however late, the packets it      *)
(* makes the sender send again (SendDataInSacks over the gaps between its  *)
(* blocks, Retransfer_UnAcked_Packets_in_SendWindow) are of the window     *)
(* that it leaves: no range of blocks runs around the ring.                *)
THEOREM ResendsInWindow ==
  ASSUME MaxUnacked < N
  PROVE  Spec => []ResendsOnlyUnconfirmed
<1>1. ASSUME IInv PROVE ResendsOnlyUnconfirmed
  <2> SUFFICES ASSUME NEW k \in 1 .. Len(acks), NEW i \in Resent(acks[k])
               PROVE  Off(HeadAfter(acks[k]), i) < SizeAfter(acks[k])
    BY DEF ResendsOnlyUnconfirmed
  <2>1. PICK a : a = acks[k]
    OBVIOUS
  <2>2. RingsInv /\ AckOK(a) /\ BlocksOK(a)
    BY <1>1, <2>1 DEF IInv, RingsInv, AcksOK, BlocksInv
  <2>3. ConfirmsBefore(a, a)
    <3>1. k \in k .. Len(acks)
      OBVIOUS
    <3> QED BY <1>1, <2>1, <3>1 DEF IInv, BlocksInv
  <2> QED BY <2>1, <2>2, <2>3, ResentInWindow
<1> QED BY <1>1, Invariance, PTL

-----------------------------------------------------------------------------
(***************************************************************************)
(* Time-outs.                                                              *)
(***************************************************************************)

(* A time-out (Retransfer_UnAcked_Packets_in_SendWindow) sends no more     *)
(* than ScanLimit + 1 packets again, and always that at the head of the    *)
(* window if it is due: the one the receiver's ring waits for.             *)
THEOREM TimeOutBurst ==
  ASSUME TypeOK, NEW a, HeadAfter(a) \in Index
  PROVE  /\ Cardinality(TimedOut(a)) <= ScanLimit + 1
         /\ HeadAfter(a) \in sDue /\ SizeAfter(a) > 0 => HeadAfter(a) \in TimedOut(a)
<1> DEFINE h == HeadAfter(a)
           due == {i \in sDue : Off(h, i) < SizeAfter(a)}
           Upto(i) == {j \in due : Off(h, j) <= Off(h, i)}
           T == TimedOut(a)
<1>1. due \in SUBSET Index
  BY DEF TypeOK, SenderTypeOK
<1>2. \A i \in Index : Off(h, i) \in Nat /\ Off(h, i) < N
  <2>1. \A i \in Index : Off(h, i) \in 0 .. N-1
    BY OffTheorem
  <2> HIDE DEF h
  <2> QED BY <2>1, CapacityAssumption
<1>3. \/ T = {}
      \/ T = {i \in due : Cardinality(Upto(i)) <= ScanLimit + 1}
  BY DEF TimedOut
<1>4. (SizeAfter(a) = N /\ h \notin sDue) \/ T = {i \in due : Cardinality(Upto(i)) <= ScanLimit + 1}
  BY DEF TimedOut
<1> HIDE DEF h, due, T
<1>5. T \in SUBSET due
  BY <1>3
<1>6. Cardinality(T) <= ScanLimit + 1
  <2>1. CASE T = {}
    BY <2>1, FS_EmptySet, SenderAssumption
  <2>2. CASE T # {}
    <3> DEFINE D == {N - Off(h, i) : i \in T}
    <3>1. D \in SUBSET Nat /\ D # {}
      BY <1>1, <1>2, <1>5, <2>2, CapacityAssumption
    <3>2. \E m \in D : \A k \in D : m <= k
      <4> HIDE DEF D
      <4> QED BY <3>1, LeastNumber
    <3>3. PICK x \in T : \A i \in T : N - Off(h, x) <= N - Off(h, i)
      BY <3>2
    <3>4. T \in SUBSET Upto(x)
      BY <1>1, <1>2, <1>5, <3>3, CapacityAssumption
    <3>5. Upto(x) \in SUBSET Index
      BY <1>1
    <3>6. Cardinality(T) <= Cardinality(Upto(x)) /\ Cardinality(Upto(x)) \in Nat /\ Cardinality(T) \in Nat
      <4>1. IsFiniteSet(Upto(x)) /\ Cardinality(Upto(x)) \in Nat
        BY <3>5, SlotsFinite
      <4>2. T \in SUBSET Index
        BY <1>1, <1>5
      <4> HIDE DEF Upto
      <4> QED BY <3>4, <4>1, <4>2, FS_Subset, SlotsFinite
    <3>7. Cardinality(Upto(x)) <= ScanLimit + 1
      BY <1>3, <2>2
    <3> QED BY <3>6, <3>7, SenderAssumption
  <2> QED BY <2>1, <2>2
<1>7. ASSUME h \in sDue, SizeAfter(a) > 0 PROVE h \in T
  <2>0. h \in Index /\ Off(h, h) = 0
    BY CapacityAssumption DEF h, Off, Index
  <2>1. h \in due
    BY <1>7, <2>0 DEF due
  <2>2. Upto(h) = {h}
    <3>1. \A j \in Upto(h) : j = h
      BY <1>1, <1>2, <2>0, OffInjective
    <3>2. h \in Upto(h)
      BY <2>0, <2>1
    <3> HIDE DEF Upto
    <3> QED BY <3>1, <3>2
  <2>3. Cardinality(Upto(h)) <= ScanLimit + 1
    <3>1. Cardinality({h}) = 1
      BY FS_Singleton
    <3> HIDE DEF Upto
    <3> QED BY <2>2, <3>1, SenderAssumption
  <2> QED BY <1>4, <1>7, <2>1, <2>3
<1> QED BY <1>6, <1>7 DEF h, T

-----------------------------------------------------------------------------
(***************************************************************************)
(* What a new acknowledgement confirms.                                    *)
(***************************************************************************)

(* An acknowledgement that has been processed says nothing new: sent again *)
(* by the FACK thread, or delivered twice, it moves the window no further. *)
THEOREM RepeatedAckIsIdle ==
  ASSUME MaxUnacked < N
  PROVE  Spec => [][\A k \in 1 .. Len(acks) : RecvAck(k) =>
                      ~ /\ sSlot'[acks[k].index].cycle = acks[k].cycle
                        /\ IsIndexInValid(sHead', sTail', sSize', acks[k].index)]_vars
<1>0. \A h, i \in Index :
        /\ h = Succ(i) => Off(h, i) = N - 1
        /\ \A d \in 0 .. N-1 : d = Off(h, i) + 1 => Off(At(h, d), i) = N - 1
  BY CapacityAssumption DEF Off, At, Succ, Index
<1>1. ASSUME RingsInv, RingsInv', NEW k \in 1 .. Len(acks), RecvAck(k)
      PROVE  ~ /\ sSlot'[acks[k].index].cycle = acks[k].cycle
               /\ IsIndexInValid(sHead', sTail', sSize', acks[k].index)
  <2> SUFFICES ASSUME NEW a, a = acks[k],
                      sSlot'[a.index].cycle = a.cycle, IsIndexInValid(sHead', sTail', sSize', a.index)
               PROVE  FALSE
    OBVIOUS
  <2>1. AckOK(a)
    BY <1>1 DEF RingsInv, AcksOK
  <2>2. PICK d \in 0 .. N-1 :
          /\ d <= sSize /\ HeadAfter(a) = At(sHead, d) /\ SizeAfter(a) = sSize - d
          /\ d > 0 => AckMatches(a) /\ d = Off(sHead, a.index) + 1
    BY <1>1, <2>1, AckDistance
  <2>3. sHead' = HeadAfter(a) /\ sSize' = SizeAfter(a) /\ sSlot' = sSlot /\ sTail' = sTail
    BY <1>1 DEF RecvAck, OnRecvMessageFromRecvTerm
  <2>4. /\ sHead \in Index /\ a.index \in Index /\ sSize \in Nat /\ sSize < N
        /\ sHead' \in Index /\ sSize' \in 0 .. N /\ sTail' = At(sHead', sSize')
    BY <1>1, <2>1, CapacityAssumption
       DEF RingsInv, WindowOK, RingsAligned, TypeOK, SenderTypeOK, AckOK, IsAck, Index
  <2>5. Off(sHead', a.index) < sSize'
    BY <2>4, ValidTheorem
  <2>6. CASE d = 0
    <3>1. sHead' = sHead /\ sSize' = sSize
      BY <2>2, <2>3, <2>4, <2>6, CapacityAssumption DEF At, Index
    <3>2. AckMatches(a) /\ sSize # 0
      BY <2>3, <3>1 DEF AckMatches, InSendWindow, IsIndexInValid
    <3>3. sHead = Succ(a.index)
      BY <2>3, <3>1, <3>2 DEF HeadAfter
    <3>4. Off(sHead, a.index) = N - 1
      BY <1>0, <2>4, <3>3
    <3> QED BY <2>4, <2>5, <3>1, <3>4, CapacityAssumption
  <2>7. CASE d # 0
    <3>1. d > 0
      BY <2>2, <2>7, CapacityAssumption
    <3>2. Off(At(sHead, d), a.index) = N - 1
      BY <1>0, <2>2, <2>4, <3>1
    <3>3. Off(sHead', a.index) = N - 1 /\ Off(sHead', a.index) < sSize - d
      BY <2>2, <2>3, <2>5, <3>2
    <3> QED BY <2>4, <3>1, <3>3, CapacityAssumption
  <2> QED BY <2>6, <2>7
<1>2. RingsInv /\ RingsInv' =>
        \A k \in 1 .. Len(acks) : RecvAck(k) =>
          ~ /\ sSlot'[acks[k].index].cycle = acks[k].cycle
            /\ IsIndexInValid(sHead', sTail', sSize', acks[k].index)
  BY <1>1
<1> QED BY <1>2, RingsInvariance, PTL DEF Spec

(* The loop of NewTraverseForceACK always ends, and it does so at one      *)
(* place: how many packets it collects is a function of the ring.          *)
THEOREM CollectIsDetermined ==
  ASSUME TypeOK
  PROVE  \E n \in 0 .. rSize : IsRun(n) /\ \A m \in 0 .. rSize : IsRun(m) => m = n
<1> DEFINE Stops == {n \in 0 .. rSize : 2*n >= rSize \/ ~rSlot[At(rHead, n)].acked}
<1>1. rSize \in Nat
  BY TypeParts, CapacityAssumption DEF ReceiverTypeOK
<1>2. rSize \in Stops /\ Stops \in SUBSET Nat
  BY <1>1
<1>3. PICK n \in Stops : \A k \in Stops : n <= k
  <2> HIDE DEF Stops
  <2> QED BY <1>2, LeastNumber
<1>4. n \in 0 .. rSize /\ (2*n >= rSize \/ ~rSlot[At(rHead, n)].acked)
  OBVIOUS
<1>5. ASSUME NEW k \in 0 .. n-1 PROVE 2*k < rSize /\ rSlot[At(rHead, k)].acked
  <2>1. k \in 0 .. rSize /\ k \notin Stops
    BY <1>1, <1>3, <1>4
  <2> QED BY <1>1, <2>1
<1>6. IsRun(n)
  BY <1>4, <1>5 DEF IsRun
<1>7. ASSUME NEW m \in 0 .. rSize, IsRun(m) PROVE m = n
  <2>1. m \in Stops
    BY <1>7 DEF IsRun
  <2>2. ~(n < m)
    <3> SUFFICES ASSUME n < m PROVE FALSE
      OBVIOUS
    <3>1. n \in 0 .. m-1
      BY <1>1, <1>4
    <3>2. 2*n < rSize /\ rSlot[At(rHead, n)].acked
      BY <1>7, <3>1 DEF IsRun
    <3> QED BY <1>1, <1>4, <3>2
  <2>3. n <= m
    BY <1>3, <2>1
  <2> QED BY <1>1, <1>4, <2>2, <2>3
<1> QED BY <1>4, <1>6, <1>7

\* The laps of the slot before the receiver's head and of the head itself.
LEMMA LapsAtHead ==
  ASSUME RingsInv, Confirmed < Collected, rHead # 0 \/ ~rSlot[0].acked
  PROVE  /\ Pred(rHead) \in Index
         /\ rSlot[Pred(rHead)].cycle = sSlot[Pred(rHead)].cycle
         /\ sSlot[Pred(rHead)].cycle > 0
         /\ ~LapTooFar(rSlot[Pred(rHead)].cycle, rSlot[rHead].cycle)
<1> DEFINE last == Pred(rHead)
           c == Collected - Confirmed
<1>1. /\ Collected \in Nat /\ Confirmed \in Nat /\ accepted \in Nat
      /\ Collected <= accepted /\ accepted - Collected < N
      /\ Off(sHead, rHead) = c /\ Off(sHead, sTail) = sSize /\ Off(rHead, sTail) = accepted - Collected
      /\ c > 0
  BY Counters
<1>2. /\ sHead \in Index /\ sTail \in Index /\ rHead \in Index
      /\ sSize \in Nat /\ sSize < N /\ sSize <= accepted /\ accepted - Confirmed = sSize
      /\ sCycle \in Nat /\ sCycle >= 1 /\ (sCycle = 1 => accepted = sTail)
      /\ sSlot \in [Index -> [cycle : Nat, data : Nat]]
      /\ rSlot \in [Index -> [cycle : Nat, data : Nat, acked : BOOLEAN]]
  <2>1. SenderTypeOK /\ ReceiverTypeOK /\ WindowOK /\ SenderSlots
    BY TypeParts DEF RingsInv
  <2>2. sSize \in Nat
    BY <2>1, CapacityAssumption DEF SenderTypeOK
  <2>3. sSize <= accepted /\ accepted - Confirmed = sSize
    BY <1>1, <2>1, <2>2 DEF WindowOK, Confirmed
  <2>4. sSize < N /\ sCycle \in Nat /\ sCycle >= 1 /\ (sCycle = 1 => accepted = sTail)
    BY <2>1 DEF SenderTypeOK, WindowOK, SenderSlots
  <2>5. /\ sHead \in Index /\ sTail \in Index /\ rHead \in Index
        /\ sSlot \in [Index -> [cycle : Nat, data : Nat]]
        /\ rSlot \in [Index -> [cycle : Nat, data : Nat, acked : BOOLEAN]]
    BY <2>1 DEF SenderTypeOK, ReceiverTypeOK
  <2> QED BY <2>2, <2>3, <2>4, <2>5
<1>3. last \in Index /\ Off(rHead, last) = N-1 /\ Off(sHead, last) = c - 1 /\ c <= sSize
  <2>1. last \in Index /\ Off(rHead, last) = N-1
    BY <1>2, CapacityAssumption DEF Pred, Off, Index
  <2>2. Off(sHead, last) = Off(sHead, rHead) - 1
    <3>1. Off(sHead, rHead) > 0
      BY <1>1
    <3> HIDE DEF c
    <3> QED BY <1>2, <3>1, CapacityAssumption DEF Pred, Off, Index
  <2> QED BY <1>1, <1>2, <2>1, <2>2
<1>4. /\ sSlot[last].cycle = IF last < sTail THEN sCycle ELSE sCycle - 1
      /\ sSlot[rHead].cycle = IF rHead < sTail THEN sCycle ELSE sCycle - 1
  BY <1>2, <1>3 DEF RingsInv, SenderSlots, SenderSlotOK
<1>5. rSlot[last].cycle = sSlot[last].cycle
  <2>1. ~(Off(rHead, last) < accepted - Collected)
    BY <1>1, <1>3, CapacityAssumption
  <2>2. ReceiverSlotOK(last)
    BY <1>3 DEF RingsInv, ReceiverSlots
  <2> HIDE DEF last
  <2> QED BY <2>1, <2>2 DEF ReceiverSlotOK
<1>6. /\ rHead # sTail /\ ~rSlot[rHead].acked => rSlot[rHead].cycle + 1 = sSlot[rHead].cycle
      /\ rHead # sTail /\ rSlot[rHead].acked => rSlot[rHead].cycle = sSlot[rHead].cycle
      /\ rHead = sTail => rSlot[rHead].cycle = sSlot[rHead].cycle
  <2>1. ReceiverSlotOK(rHead) /\ Off(rHead, rHead) = 0
    BY <1>2, CapacityAssumption DEF RingsInv, ReceiverSlots, Off, Index
  <2>2. rHead = sTail <=> accepted - Collected = 0
    BY <1>1, <1>2, CapacityAssumption DEF Off, Index
  <2> QED BY <1>1, <2>1, <2>2 DEF ReceiverSlotOK
<1>7. sSlot[last].cycle > 0
  <2>1. sCycle = 1 => last < sTail
    <3> HIDE DEF c
    <3> SUFFICES ASSUME sCycle = 1 PROVE last < sTail
      OBVIOUS
    <3>1. accepted = sTail /\ sSize <= sTail
      BY <1>2
    <3>2. sHead = sTail - sSize
      BY <1>1, <1>2, <3>1, CapacityAssumption DEF Off, Index
    <3>3. Off(sHead, last) < sSize /\ Off(sHead, last) \in Nat
      BY <1>1, <1>2, <1>3, CapacityAssumption DEF c
    <3> HIDE DEF last
    <3> QED BY <1>2, <1>3, <3>2, <3>3, CapacityAssumption DEF Off, Index
  <2> HIDE DEF last
  <2> QED BY <1>2, <1>4, <2>1
<1>8. ~LapTooFar(rSlot[last].cycle, rSlot[rHead].cycle)
  <2>0. rSlot[rHead].cycle \in Nat
    BY <1>2
  <2>1. CASE rHead = 0
    <3>1. last = N-1 /\ ~(last < sTail)
      BY <1>2, <2>1, CapacityAssumption DEF Pred, Index
    <3>2. rSlot[rHead].cycle = sCycle - 1
      <4>1. CASE rHead = sTail
        BY <1>2, <1>4, <1>6, <4>1, <2>1
      <4>2. CASE rHead # sTail
        <5>1. rHead < sTail /\ ~rSlot[rHead].acked
          BY <1>2, <2>1, <4>2 DEF Index
        <5> QED BY <1>2, <1>4, <1>6, <2>0, <4>2, <5>1
      <4> QED BY <4>1, <4>2
    <3>3. rSlot[last].cycle = sCycle - 1
      <4> HIDE DEF last
      <4> QED BY <1>4, <1>5, <3>1
    <3> HIDE DEF last
    <3> QED BY <1>2, <3>2, <3>3 DEF LapTooFar
  <2>2. CASE rHead # 0
    <3>1. last = rHead - 1 /\ rHead \in Nat /\ sTail \in Nat
      BY <1>2, <2>2 DEF Pred, Index
    <3>2. rSlot[last].cycle = IF last < sTail THEN sCycle ELSE sCycle - 1
      <4> HIDE DEF last
      <4> QED BY <1>4, <1>5
    <3> HIDE DEF last
    <3> QED BY <1>2, <1>4, <1>6, <2>0, <3>1, <3>2 DEF LapTooFar
  <2> QED BY <2>1, <2>2
<1> QED BY <1>3, <1>5, <1>7, <1>8

\* An acknowledgement of the state names the packet before the head.
LEMMA TailConfirms ==
  RingsInv /\ AckOK(TailOf(rSlot, rHead)) /\ (rHead # 0 \/ ~rSlot[0].acked)
    => HeadAfter(TailOf(rSlot, rHead)) = rHead
<1> SUFFICES ASSUME RingsInv, rHead # 0 \/ ~rSlot[0].acked, NEW a, a = TailOf(rSlot, rHead), AckOK(a)
             PROVE  HeadAfter(a) = rHead
  OBVIOUS
<1>1. /\ Collected \in Nat /\ Confirmed \in Nat /\ Confirmed <= Collected
      /\ Off(sHead, rHead) = Collected - Confirmed
  BY Counters
<1>2. sHead \in Index /\ rHead \in Index /\ a.index \in Index /\ rHead = At(sHead, Collected - Confirmed)
  BY DEF RingsInv, TypeOK, SenderTypeOK, ReceiverTypeOK, RingsAligned, AckOK, IsAck
<1>3. CASE Confirmed = Collected
  <2>1. rHead = sHead
    BY <1>1, <1>2, <1>3, CapacityAssumption DEF At, Index
  <2>2. ~AckMatches(a)
    <3> SUFFICES ASSUME AckMatches(a) PROVE FALSE
      OBVIOUS
    <3>1. Off(sHead, a.index) < Collected - Confirmed
      BY <1>2, MatchTheorem DEF AckOK
    <3> QED BY <1>1, <1>2, <1>3, <3>1, OffTheorem, CapacityAssumption
  <2> QED BY <2>1, <2>2 DEF HeadAfter
<1>4. CASE Confirmed # Collected
  <2> DEFINE last == Pred(rHead)
  <2>1. /\ last \in Index /\ rSlot[last].cycle = sSlot[last].cycle /\ sSlot[last].cycle > 0
        /\ ~LapTooFar(rSlot[last].cycle, rSlot[rHead].cycle)
    BY <1>1, <1>4, LapsAtHead
  <2>2. a.index = last /\ a.cycle = sSlot[last].cycle
    <3>1. /\ a.index = IF rSlot[last].cycle = 0 THEN 0 ELSE last
          /\ a.cycle = IF LapTooFar(rSlot[last].cycle, rSlot[rHead].cycle)
                       THEN rSlot[last].cycle - 1 ELSE rSlot[last].cycle
      BY DEF TailOf, AckedSlot
    <3>2. rSlot[last].cycle # 0
      BY <2>1
    <3> HIDE DEF last
    <3> QED BY <2>1, <3>1, <3>2
  <2>3. Off(sHead, last) < sSize
    <3>1. Off(sHead, last) = Off(sHead, rHead) - 1
      BY <1>1, <1>2, <1>4, CapacityAssumption DEF Pred, Off, Index
    <3>2. Collected - Confirmed <= sSize /\ sSize \in Nat
      <4>1. Collected <= accepted /\ accepted \in Nat /\ sSize \in Nat
        BY Counters, CapacityAssumption DEF RingsInv, TypeOK, SenderTypeOK
      <4> QED BY <1>1, <4>1 DEF Confirmed
    <3> QED BY <1>1, <3>1, <3>2
  <2>4. AckMatches(a) /\ sSize # 0
    <3>1. sSize \in Nat /\ Off(sHead, last) \in Nat
      BY <1>2, <2>1, OffTheorem, CapacityAssumption DEF RingsInv, TypeOK, SenderTypeOK
    <3> HIDE DEF last
    <3> QED BY <1>2, <2>2, <2>3, <3>1, MatchTheorem
  <2>5. Succ(last) = rHead
    BY <1>2, CapacityAssumption DEF Succ, Pred, Index
  <2> QED BY <2>2, <2>4, <2>5 DEF HeadAfter
<1> QED BY <1>3, <1>4

(* The acknowledgement that NewTraverseForceACK begins confirms everything *)
(* that has been collected: it would move the sender's head to the         *)
(* receiver's. The one exception is a call that stops, half of the ring    *)
(* taken, before a packet received in slot 0: its lap is one above that of *)
(* the packet named, the unsigned difference is large and the              *)
(* acknowledgement names the lap before. A later call makes up for it.     *)
THEOREM NewAckConfirmsAll ==
  ASSUME MaxUnacked < N
  PROVE  Spec => [][FackThreadTraverses /\ (rHead' # 0 \/ ~rSlot'[0].acked)
                      => HeadAfter(rFack'.ack) = rHead']_vars
<1>1. (RingsInv /\ AckOK(TailOf(rSlot, rHead)) /\ (rHead # 0 \/ ~rSlot[0].acked)
         => HeadAfter(TailOf(rSlot, rHead)) = rHead)'
  BY TailConfirms, PTL
<1>2. ASSUME RingsInv, RingsInv', FackThreadTraverses, rHead' # 0 \/ ~rSlot'[0].acked
      PROVE  HeadAfter(rFack'.ack) = rHead'
  <2>1. rFack'.busy /\ rFack'.ack = TailOf(rSlot', rHead')
    BY <1>2 DEF FackThreadTraverses, FackTraverse, Collect
  <2>2. AckOK(rFack.ack)'
    BY <1>2, <2>1 DEF RingsInv, AcksOK
  <2>3. UNCHANGED <<sHead, sTail, sSize, sSlot>>
    BY <1>2 DEF FackThreadTraverses, senderVars
  <2>4. AckOK(TailOf(rSlot, rHead))'
    BY <2>1, <2>2 DEF AckOK, IsAck
  <2>5. HeadAfter(TailOf(rSlot, rHead))' = rHead'
    BY <1>1, <1>2, <2>4
  <2>6. HeadAfter(TailOf(rSlot, rHead))' = HeadAfter(rFack'.ack)
    BY <2>1, <2>3 DEF HeadAfter, AckMatches, InSendWindow, IsIndexInValid
  <2> QED BY <2>5, <2>6
<1>3. RingsInv /\ RingsInv' /\ [Next]_vars =>
        [FackThreadTraverses /\ (rHead' # 0 \/ ~rSlot'[0].acked)
           => HeadAfter(rFack'.ack) = rHead']_vars
  BY <1>2
<1> QED BY <1>3, RingsInvariance, PTL DEF Spec
=============================================================================
