------------------------ MODULE WorkerGeometryProofs ------------------------
(***************************************************************************)
(* The chunks cover the work, for every number of threads and every amount *)
(* of work.  All branches of the split come down to the same equation      *)
(* between number, size and remainder (AddsUp), from which the positions   *)
(* of the chunks follow.                                                   *)
(***************************************************************************)
EXTENDS WorkerGeometry, WellFoundedInduction, TLAPS

\* The least number principle.
LEMMA LeastNatural ==
  ASSUME NEW T, T \subseteq Nat, T # {}
  PROVE  \E x \in T : \A y \in T : x <= y
<1> DEFINE R == {ss \in Nat \X Nat : ss[1] < ss[2]}
<1>1. IsWellFoundedOn(R, Nat)
  BY NatLessThanWellFounded DEF OpToRel
<1> HIDE DEF R
<1>2. PICK x \in T : \A y \in T : ~ (<<y, x>> \in R)
  BY <1>1, WFMin
<1>3. \A y \in T : ~ (y < x)
  BY <1>2 DEF R
<1> QED BY <1>3

\* Quotient and remainder.
LEMMA Division ==
  ASSUME NEW w \in Nat, NEW n \in Nat \ {0}
  PROVE  /\ w \div n \in Nat
         /\ w % n \in 0..(n - 1)
         /\ w = n * (w \div n) + (w % n)
  OBVIOUS

\* Rounding never makes chunks smaller.
LEMMA RoundedIsLarger ==
  ASSUME NEW size \in Nat
  PROVE  Rounded(size) \in Nat /\ size <= Rounded(size)
<1> DEFINE near == {p \in size..(size + 31) : is_power_of_two(p)}
<1>1. CASE near = {}
  BY <1>1 DEF Rounded
<1>2. CASE near # {}
  <2>1. near \subseteq Nat
    OBVIOUS
  <2>2. \E x \in near : \A y \in near : x <= y
    BY <1>2, <2>1, LeastNatural
  <2>3. Min(near) \in near
    BY <2>2 DEF Min
  <2>4. Rounded(size) = Min(near)
    BY <1>2 DEF Rounded
  <2> QED BY <2>1, <2>3, <2>4
<1> QED BY <1>1, <1>2

\* A geometry whose sizes add up to the work.
AddsUp(g, work_size) ==
  /\ g = Geometry(g.num_chunks, g.ordinary_chunk_size, g.remainder)
  /\ g.num_chunks \in Nat \ {0} /\ g.ordinary_chunk_size \in Nat \ {0} /\ g.remainder \in Nat
  /\ \/ g.remainder = 0 /\ g.ordinary_chunk_size * g.num_chunks = work_size
     \/ g.remainder # 0 /\ g.ordinary_chunk_size * (g.num_chunks - 1) + g.remainder = work_size

\* One more chunk.
LEMMA ProductSuccessor ==
  ASSUME NEW s \in Nat, NEW i \in Nat
  PROVE  s * (i + 1) = s * i + s
  OBVIOUS

\* The positions of the chunks follow from the sizes.
LEMMA AddsUpCovers ==
  ASSUME NEW g, NEW work_size \in Nat, AddsUp(g, work_size)
  PROVE  Covers(g, work_size)
<1> DEFINE n == g.num_chunks
           s == g.ordinary_chunk_size
           Start(i) == get_chunk_start_pos(g, i)
           End(i) == Start(i) + get_chunk_size(g, i)
<1>1. n \in Nat \ {0} /\ s \in Nat \ {0} /\ g.remainder \in Nat
  BY DEF AddsUp
<1>2. \A i \in Nat : Start(i) \in Nat /\ Start(i + 1) = Start(i) + s
  BY <1>1, ProductSuccessor DEF get_chunk_start_pos
<1>3. Start(0) = 0
  BY <1>1 DEF get_chunk_start_pos
<1>4. \A i \in 0..(n - 1) : get_chunk_size(g, i) \in Nat \ {0}
  BY <1>1 DEF get_chunk_size
<1>5. \A i \in 0..(n - 1) : i + 1 \in 0..(n - 1) => get_chunk_size(g, i) = s
  BY <1>1 DEF get_chunk_size
<1>6. End(n - 1) = work_size
  <2>1. CASE g.remainder = 0
    <3>1. s * n = work_size
      BY <2>1 DEF AddsUp
    <3>2. s * n = s * (n - 1) + s
      BY <1>1, ProductSuccessor, n - 1 \in Nat
    <3> QED BY <1>1, <2>1, <3>1, <3>2 DEF get_chunk_size, get_chunk_start_pos
  <2>2. CASE g.remainder # 0
    BY <1>1, <2>2 DEF AddsUp, get_chunk_size, get_chunk_start_pos
  <2> QED BY <2>1, <2>2
<1> QED
  <2>1. \A i \in 0..(n - 1) : Start(i) < End(i)
    BY <1>1, <1>2, <1>4
  <2>2. \A i \in 0..(n - 1) : i + 1 \in 0..(n - 1) => Start(i + 1) = End(i)
    BY <1>1, <1>2, <1>5
  <2> QED BY <1>1, <1>3, <1>6, <2>1, <2>2 DEF Covers

\* A last chunk that takes what is left.
LEMMA WithLastAddsUp ==
  ASSUME NEW n \in Nat \ {0}, NEW s \in Nat \ {0}, NEW work_size \in Nat, (n - 1) * s < work_size
  PROVE  /\ AddsUp(WithLast(n, s, work_size), work_size)
         /\ WithLast(n, s, work_size).num_chunks = n
         /\ WithLast(n, s, work_size).ordinary_chunk_size = s
         /\ WithLast(n, s, work_size).remainder = work_size - (n - 1) * s
<1>1. (n - 1) * s \in Nat /\ s * (n - 1) = (n - 1) * s
  OBVIOUS
<1> DEFINE r == work_size - (n - 1) * s
<1>2. r \in Nat /\ r # 0 /\ s * (n - 1) + r = work_size
  BY <1>1
<1> HIDE DEF r
<1>3. AddsUp(Geometry(n, s, r), work_size)
  BY <1>2 DEF AddsUp, Geometry
<1>4. WithLast(n, s, work_size) = Geometry(n, s, r)
  BY DEF WithLast, r
<1> QED BY <1>3, <1>4 DEF Geometry, r

\* Every branch of the split adds up, and the last chunk exceeds the others by
\* less than there are chunks.
LEMMA SplitAddsUp ==
  ASSUME NEW n \in Nat \ {0}, NEW work_size \in Nat \ {0}, n <= work_size
  PROVE  /\ AddsUp(Split(n, work_size), work_size)
         /\ Split(n, work_size).num_chunks = n
         /\ Split(n, work_size).remainder < Split(n, work_size).ordinary_chunk_size + n
<1> DEFINE floor == work_size \div n
           rest == work_size % n
<1>1. /\ floor \in Nat /\ rest \in 0..(n - 1)
      /\ work_size = n * floor + rest
  BY Division
<1>2. floor # 0
  BY <1>1
<1>3. n * floor = (n - 1) * floor + floor /\ (n - 1) * floor \in Nat
  <2>1. floor * ((n - 1) + 1) = floor * (n - 1) + floor
    BY <1>1, ProductSuccessor, n - 1 \in Nat
  <2> HIDE DEF floor
  <2> QED BY <1>1, <2>1, n - 1 \in Nat
<1> DEFINE rounded == Rounded(floor)
<1>4. rounded \in Nat \ {0}
  BY <1>1, <1>2, RoundedIsLarger
<1>5. CASE rest = 0
  <2>1. Split(n, work_size) = Geometry(n, floor, 0)
    BY <1>5 DEF Split
  <2>2. floor * n = work_size
    BY <1>1, <1>5
  <2> HIDE DEF floor
  <2> QED BY <1>1, <1>2, <2>1, <2>2 DEF AddsUp, Geometry
<1>6. CASE rest # 0 /\ (n - 1) * rounded < work_size
  <2>1. Split(n, work_size) = WithLast(n, rounded, work_size)
    BY <1>6 DEF Split
  <2>2. floor <= rounded
    BY <1>1, RoundedIsLarger
  <2>3. work_size < (n - 1) * floor + floor + n
    BY <1>1, <1>3
  <2> HIDE DEF floor, rounded
  <2>4. (n - 1) * floor <= (n - 1) * rounded
    BY <1>1, <1>4, <2>2
  <2>5. (n - 1) * rounded \in Nat
    BY <1>4
  <2>6. work_size - (n - 1) * rounded < rounded + n
    BY <1>1, <1>3, <1>4, <2>2, <2>3, <2>4, <2>5
  <2>7. AddsUp(WithLast(n, rounded, work_size), work_size)
    BY <1>4, <1>6, WithLastAddsUp
  <2> QED BY <1>4, <1>6, <2>1, <2>6, <2>7, WithLastAddsUp
<1>7. CASE rest # 0 /\ ~((n - 1) * rounded < work_size) /\ work_size % (n - 1) # 0
  <2> DEFINE s == work_size \div (n - 1)
  <2>1. n - 1 \in Nat \ {0}
    BY <1>1, <1>7
  <2>2. /\ s \in Nat
        /\ work_size % (n - 1) \in 0..((n - 1) - 1)
        /\ work_size = (n - 1) * s + (work_size % (n - 1))
    BY <2>1, Division
  <2>3. s # 0
    BY <2>1, <2>2
  <2>4. (n - 1) * s < work_size
    BY <1>7, <2>1, <2>2
  <2>5. Split(n, work_size) = WithLast(n, s, work_size)
    BY <1>7 DEF Split
  <2> HIDE DEF s
  <2> QED BY <2>2, <2>3, <2>4, <2>5, WithLastAddsUp
<1>8. CASE rest # 0 /\ ~((n - 1) * rounded < work_size) /\ ~(work_size % (n - 1) # 0)
  <2>1. Split(n, work_size) = WithLast(n, floor, work_size)
    BY <1>8 DEF Split
  <2>2. (n - 1) * floor < work_size
    BY <1>1, <1>2, <1>3
  <2> HIDE DEF floor
  <2> QED BY <1>1, <1>2, <2>1, <2>2, WithLastAddsUp
<1> QED BY <1>5, <1>6, <1>7, <1>8

\* Taking one element for each other chunk from the last keeps the sum.
LEMMA BalancedAddsUp ==
  ASSUME NEW g, NEW n \in Nat \ {0}, NEW work_size \in Nat \ {0},
         AddsUp(g, work_size), g.num_chunks = n, g.remainder < g.ordinary_chunk_size + n
  PROVE  /\ AddsUp(Balanced(g, n), work_size)
         /\ Balanced(g, n) # g => Balanced(g, n).ordinary_chunk_size > Balanced(g, n).remainder
<1> DEFINE s == g.ordinary_chunk_size
           r == g.remainder
<1>1. s \in Nat \ {0} /\ r \in Nat /\ g = Geometry(n, s, r)
  BY DEF AddsUp
<1>2. CASE r > s /\ r > n - 1
  <2>1. s * (n - 1) + r = work_size
    BY <1>1, <1>2 DEF AddsUp
  <2>2. (s + 1) * (n - 1) = s * (n - 1) + (n - 1)
    BY <1>1
  <2>3. (s + 1) * (n - 1) + (r - (n - 1)) = work_size
    BY <1>1, <2>1, <2>2
  <2>4. Balanced(g, n) = Geometry(n, s + 1, r - (n - 1))
    BY <1>1, <1>2 DEF Balanced, Geometry
  <2>5. r - (n - 1) \in Nat \ {0} /\ s + 1 \in Nat \ {0} /\ s + 1 > r - (n - 1)
    BY <1>1, <1>2
  <2> QED BY <2>3, <2>4, <2>5 DEF AddsUp, Geometry
<1>3. CASE ~(r > s /\ r > n - 1)
  BY <1>3 DEF Balanced
<1> QED BY <1>2, <1>3

\* The same for the threads there are.
LEMMA FirstSplitAddsUp ==
  ASSUME NEW num_cores \in Nat \ {0}, NEW work_size \in Nat \ {0}
  PROVE  LET split == FirstSplit(num_cores, work_size)
             balanced == Balanced(split, num_cores)
         IN /\ AddsUp(balanced, work_size)
            /\ balanced.num_chunks <= num_cores
            /\ balanced # split => balanced.ordinary_chunk_size > balanced.remainder
<1> DEFINE n == IF num_cores <= work_size THEN num_cores ELSE work_size
           split == FirstSplit(num_cores, work_size)
<1>1. n \in Nat \ {0} /\ n <= work_size /\ n <= num_cores
  OBVIOUS
<1>2. /\ AddsUp(split, work_size)
      /\ split.num_chunks = n
      /\ split.remainder < split.ordinary_chunk_size + n
  BY <1>1, SplitAddsUp DEF FirstSplit
<1>3. CASE n = num_cores
  BY <1>1, <1>2, <1>3, BalancedAddsUp DEF Balanced, Geometry
<1>4. CASE n # num_cores
  <2>1. n = work_size
    BY <1>4
  <2>2. Split(work_size, work_size).remainder = 0
    BY DEF Split, Geometry
  <2>3. Balanced(split, num_cores) = split
    BY <1>2, <2>1, <2>2 DEF FirstSplit, Balanced, AddsUp
  <2> QED BY <1>1, <1>2, <2>3
<1> QED BY <1>3, <1>4

(***************************************************************************)
(* For every number of threads and every amount of work the chunks of      *)
(* get_geometry_for_num_cores cover the work, one after the other and none *)
(* empty, and there is a thread for each: no slice that a scope cuts is    *)
(* empty, overlaps its neighbour or ends outside.                          *)
(***************************************************************************)
THEOREM GeometryCovers ==
  ASSUME NEW num_cores \in Nat \ {0}, NEW work_size \in Nat \ {0}
  PROVE  /\ Covers(get_geometry_for_num_cores(num_cores, work_size), work_size)
         /\ get_geometry_for_num_cores(num_cores, work_size).num_chunks <= num_cores
<1>1. CASE num_cores = 1
  <2>1. get_geometry_for_num_cores(num_cores, work_size) = Geometry(1, work_size, 0)
    BY <1>1 DEF get_geometry_for_num_cores
  <2>2. AddsUp(Geometry(1, work_size, 0), work_size)
    BY DEF AddsUp, Geometry
  <2> QED BY <1>1, <2>1, <2>2, AddsUpCovers DEF Geometry
<1>2. CASE num_cores # 1
  BY <1>2, FirstSplitAddsUp, AddsUpCovers DEF get_geometry_for_num_cores, FirstSplit
<1> QED BY <1>1, <1>2

(***************************************************************************)
(* The assertion on a rebalanced geometry, that its last chunk is smaller  *)
(* than the others, never fails.                                           *)
(***************************************************************************)
THEOREM RebalancedLastIsSmallest ==
  ASSUME NEW num_cores \in Nat \ {0}, NEW work_size \in Nat \ {0},
         NEW balanced, balanced = Balanced(FirstSplit(num_cores, work_size), num_cores),
         balanced # FirstSplit(num_cores, work_size)
  PROVE  balanced.ordinary_chunk_size > balanced.remainder
  BY FirstSplitAddsUp
=============================================================================
