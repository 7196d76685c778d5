---------------------- MODULE AllocationsTrackerProofs ----------------------
(***************************************************************************)
(* The allocator keeps its regions partitioned, its free blocks merged and *)
(* its two maps in agreement, for every set of regions, every chunk size   *)
(* and every sequence of allocations and frees.                            *)
(*                                                                         *)
(* The invariants say little of each other's blocks, so they are proved    *)
(* from one picture of the memory (Layout): blocks that lie apart, inside  *)
(* regions, and cover them.  An allocation cuts a free block (Cut), a free *)
(* gives its block back (GiveBack) and joins it with its neighbours (Join).*)
(***************************************************************************)
EXTENDS AllocationsTracker, SumTheorems, FiniteSetTheorems, WellFoundedInduction, TLAPS

USE ChunkSizeAssumption, SizesAssumption

\* The least number principle.
LEMMA LeastNatural ==
  ASSUME NEW T, T \subseteq Nat, T # {}
  PROVE  \E x \in T : \A y \in T : x <= y
<1> DEFINE R == {ss \in Nat \X Nat : ss[1] < ss[2]}
<1>1. IsWellFoundedOn(R, Nat)
  BY NatLessThanWellFounded DEF OpToRel
<1> HIDE DEF R
<1>2. PICK x \in T : \A y \in T : ~ (<<y, x>> \in R)
  BY <1>1, WFMin
<1>3. \A y \in T : ~ (y < x)
  BY <1>2 DEF R
<1> QED BY <1>3

\* A finite set of numbers has a greatest one: the smallest set without one
\* would have one element too many.
LEMMA GreatestOfFinite ==
  ASSUME NEW S, S \subseteq Nat, IsFiniteSet(S), S # {}
  PROVE  \E x \in S : \A y \in S : y <= x
<1> DEFINE Greatest(T) == \E x \in T : \A y \in T : y <= x
           Bad == {n \in Nat : \E T \in SUBSET S : Cardinality(T) = n /\ T # {} /\ ~ Greatest(T)}
<1>1. SUFFICES ASSUME Bad # {} PROVE FALSE
  BY FS_CardinalityType
<1>2. PICK n \in Bad : \A m \in Bad : n <= m
  BY <1>1, LeastNatural
<1>3. PICK T \in SUBSET S : Cardinality(T) = n /\ T # {} /\ ~ Greatest(T)
  OBVIOUS
<1>4. PICK x \in T : TRUE
  BY <1>3
<1>5. IsFiniteSet(T)
  BY FS_Subset
<1>6. IsFiniteSet(T \ {x}) /\ Cardinality(T \ {x}) = n - 1
  <2>1. IsFiniteSet(T \ {x}) /\ Cardinality(T \ {x}) = Cardinality(T) - 1
    BY ONLY <1>4, <1>5, FS_RemoveElement
  <2> QED BY ONLY <2>1, <1>3
<1>7. n - 1 \in Nat
  BY <1>6, FS_CardinalityType
<1>8. T \ {x} = {} \/ Greatest(T \ {x})
  <2>1. PICK m \in Nat : m = n - 1
    BY ONLY <1>7
  <2>2. m \notin Bad
    BY <1>2, <2>1
  <2>3. T \ {x} \in SUBSET S /\ Cardinality(T \ {x}) = m
    BY ONLY <1>6, <2>1, T \in SUBSET S
  <2>4. PICK U : U = T \ {x}
    OBVIOUS
  <2>5. U = {} \/ Greatest(U)
    BY <2>2, <2>3, <2>4
  <2> QED BY <2>4, <2>5
<1>9. Greatest(T)
  <2>1. CASE T \ {x} = {}
    BY <2>1, <1>4
  <2>2. CASE Greatest(T \ {x})
    <3>1. PICK m \in T \ {x} : \A y \in T \ {x} : y <= m
      BY <2>2
    <3>2. CASE m <= x
      BY <3>1, <3>2, <1>4
    <3>3. CASE x <= m
      BY <3>1, <3>3, <1>4
    <3> QED BY <3>2, <3>3, <1>4, <3>1
  <2> QED BY <2>1, <2>2, <1>8
<1> QED BY <1>3, <1>9

\* A length is rounded up to at least one chunk.
LEMMA RoundUpIsPositive ==
  ASSUME NEW size \in Nat \ {0}
  PROVE  RoundUp(size) \in Nat \ {0}
<1> DEFINE q == (size + ChunkSize - 1) \div ChunkSize
<1>1. q \in Nat \ {0}
  OBVIOUS
<1> HIDE DEF q
<1>2. q * ChunkSize \in Nat \ {0}
  BY <1>1
<1> QED BY <1>2 DEF RoundUp, q

-----------------------------------------------------------------------------
(* The index by length. *)

Agree(index, f) ==
  /\ \A len : len \in DOMAIN index <=> \E p \in DOMAIN f : f[p] = len
  /\ \A len \in DOMAIN index : \A p : p \in index[len] <=> p \in DOMAIN f /\ f[p] = len

LEMMA RemoveAgrees ==
  ASSUME NEW f, NEW index, Agree(index, f), NEW ptr \in DOMAIN f
  PROVE  Agree(RemoveFromIndex(index, ptr, f[ptr]), Without(f, ptr))
<1> DEFINE len == f[ptr]
<1>1. len \in DOMAIN index /\ ptr \in index[len]
  BY DEF Agree
<1>2. CASE index[len] = {ptr}
  BY <1>1, <1>2 DEF Agree, RemoveFromIndex, Without, Restrict
<1>3. CASE index[len] # {ptr}
  <2>1. PICK p \in DOMAIN f : p # ptr /\ f[p] = len
    BY <1>1, <1>3 DEF Agree
  <2> QED BY <1>1, <1>3, <2>1 DEF Agree, RemoveFromIndex, With, Without, Restrict
<1> QED BY <1>2, <1>3

LEMMA AddAgrees ==
  ASSUME NEW f, NEW index, Agree(index, f), NEW ptr, ptr \notin DOMAIN f, NEW len
  PROVE  Agree(AddToIndex(index, ptr, len), With(f, ptr, len))
<1> DEFINE f2 == With(f, ptr, len)
           set == IF len \in DOMAIN index THEN index[len] \cup {ptr} ELSE {ptr}
           index2 == With(index, len, set)
<1>1. DOMAIN f2 = DOMAIN f \cup {ptr} /\ f2[ptr] = len /\ \A p \in DOMAIN f : f2[p] = f[p]
  BY DEF With
<1>2. /\ DOMAIN index2 = DOMAIN index \cup {len} /\ index2[len] = set
      /\ \A l \in DOMAIN index \ {len} : index2[l] = index[l]
  BY DEF With
<1> HIDE DEF f2, index2
<1>3. \A l : l \in DOMAIN index2 <=> \E p \in DOMAIN f2 : f2[p] = l
  BY <1>1, <1>2 DEF Agree
<1>4. \A p : p \in set <=> p \in DOMAIN f2 /\ f2[p] = len
  BY <1>1 DEF Agree
<1>5. \A l \in DOMAIN index2 : \A p : p \in index2[l] <=> p \in DOMAIN f2 /\ f2[p] = l
  BY <1>1, <1>2, <1>4 DEF Agree
<1> QED BY <1>3, <1>5 DEF Agree, AddToIndex, f2, index2

LEMMA AgreeIsMapsAgree ==
  MapsAgree <=> Agree(free_ptrs_by_len, free_len_by_ptr)
BY DEF MapsAgree, Agree, Range

-----------------------------------------------------------------------------
(* The picture of the memory: f maps the free blocks to their lengths, g   *)
(* the allocated ones.                                                     *)

Sized(f) == \A p \in DOMAIN f : p \in Nat /\ f[p] \in Nat \ {0}

Apart(f) == \A p, q \in DOMAIN f : p < q => p + f[p] <= q

InRegion(r, p, len) == r <= p /\ p + len <= r + Backends[r]

Inside(f) == \A p \in DOMAIN f : \E r \in DOMAIN Backends : InRegion(r, p, f[p])

Disjoint(f, g) == \A p \in DOMAIN f, q \in DOMAIN g : p + f[p] <= q \/ q + g[q] <= p

Holds(f, x) == \E p \in DOMAIN f : p <= x /\ x < p + f[p]

Covered(f, g) ==
  \A r \in DOMAIN Backends, x \in Nat :
    r <= x /\ x < r + Backends[r] => Holds(f, x) \/ Holds(g, x)

Coalesced(f) == \A p, q \in DOMAIN f : p + f[p] = q => q \in DOMAIN Backends

Layout(f, g) ==
  /\ Sized(f) /\ Sized(g)
  /\ Apart(f) /\ Apart(g)
  /\ Inside(f) /\ Inside(g)
  /\ Disjoint(f, g)
  /\ Covered(f, g)

\* The regions themselves lie apart.
LEMMA RegionsApart ==
  /\ \A r \in DOMAIN Backends : r \in Nat /\ Backends[r] \in Nat \ {0}
  /\ \A r, s \in DOMAIN Backends : r < s => r + Backends[r] <= s
BY BackendsAssumption

\* Part of a free block becomes an allocated one.
LEMMA Cut ==
  ASSUME NEW f, NEW g, Layout(f, g), Coalesced(f),
         NEW p \in DOMAIN f, NEW len \in Nat \ {0}, len <= f[p],
         NEW start, NEW rest,
         \/ start = p /\ rest = p + len
         \/ start = p + (f[p] - len) /\ rest = p,
         NEW f2, f2 = IF f[p] = len THEN Without(f, p)
                                    ELSE With(Without(f, p), rest, f[p] - len),
         NEW g2, g2 = With(g, start, len)
  PROVE  Layout(f2, g2) /\ Coalesced(f2)
<1> DEFINE whole == f[p]
<1>1. p \in Nat /\ whole \in Nat \ {0} /\ start \in Nat /\ rest \in Nat
  BY DEF Layout, Sized
<1>2. start \notin DOMAIN g /\ \A q \in DOMAIN g : q + g[q] <= start \/ start + len <= q
  BY <1>1 DEF Layout, Sized, Disjoint
<1>3. DOMAIN g2 = DOMAIN g \cup {start} /\ g2[start] = len /\ \A q \in DOMAIN g : g2[q] = g[q]
  BY <1>2 DEF With
<1>4. \A q \in DOMAIN f \ {p} : q \in Nat /\ f[q] \in Nat \ {0} /\ (q + f[q] <= p \/ p + whole <= q)
  BY <1>1 DEF Layout, Sized, Apart
<1>5. PICK r \in DOMAIN Backends : InRegion(r, p, whole)
  BY DEF Layout, Inside
<1>6. r \in Nat /\ Backends[r] \in Nat
  BY RegionsApart
<1>7. \A q \in DOMAIN g : q \in Nat /\ g[q] \in Nat \ {0}
  BY DEF Layout, Sized
<1>8. CASE whole = len
  <2>1. start = p /\ DOMAIN f2 = DOMAIN f \ {p} /\ \A q \in DOMAIN f2 : f2[q] = f[q]
    BY <1>1, <1>8 DEF Without, Restrict
  <2>2. Sized(f2) /\ Sized(g2)
    BY <1>1, <1>3, <1>4, <1>7, <2>1 DEF Sized
  <2>3. Apart(f2) /\ Apart(g2)
    BY <1>1, <1>2, <1>3, <1>4, <1>7, <2>1 DEF Apart, Layout
  <2>4. Inside(f2) /\ Inside(g2)
    BY <1>3, <1>5, <1>8, <2>1 DEF Inside, Layout
  <2>5. Disjoint(f2, g2)
    BY <1>1, <1>3, <1>4, <1>8, <2>1 DEF Disjoint, Layout
  <2>6. Covered(f2, g2)
    BY <1>3, <1>8, <2>1 DEF Covered, Holds, Layout
  <2>7. Coalesced(f2)
    BY <2>1 DEF Coalesced
  <2> QED BY <2>2, <2>3, <2>4, <2>5, <2>6, <2>7 DEF Layout
<1>9. CASE whole # len
  <2>1. rest \notin DOMAIN f \ {p}
    BY <1>1, <1>4, <1>9
  <2>2. /\ DOMAIN f2 = (DOMAIN f \ {p}) \cup {rest} /\ f2[rest] = whole - len
        /\ \A q \in DOMAIN f \ {p} : f2[q] = f[q]
    BY <1>9, <2>1 DEF With, Without, Restrict
  <2>3. Sized(f2) /\ Sized(g2)
    BY <1>1, <1>3, <1>4, <1>7, <1>9, <2>2 DEF Sized
  <2>4. Apart(f2)
    BY <1>1, <1>4, <1>9, <2>2 DEF Apart, Layout
  <2>5. Apart(g2)
    BY <1>1, <1>2, <1>3, <1>7 DEF Apart, Layout
  <2>6. InRegion(r, rest, whole - len) /\ InRegion(r, start, len)
    BY <1>1, <1>5, <1>6, <1>9 DEF InRegion
  <2>7. Inside(f2) /\ Inside(g2)
    BY <1>3, <2>2, <2>6 DEF Inside, Layout
  <2>8. Disjoint(f2, g2)
    <3> SUFFICES ASSUME NEW b \in DOMAIN f2, NEW q \in DOMAIN g2
                 PROVE  b + f2[b] <= q \/ q + g2[q] <= b
      BY DEF Disjoint
    <3>1. CASE b = rest /\ q = start
      BY <1>1, <1>3, <1>9, <2>2, <3>1
    <3>2. CASE b = rest /\ q # start
      BY <1>1, <1>3, <1>7, <1>9, <2>2, <3>2 DEF Disjoint, Layout
    <3>3. CASE b # rest /\ q = start
      BY <1>1, <1>3, <1>4, <1>9, <2>2, <3>3
    <3>4. CASE b # rest /\ q # start
      BY <1>3, <2>2, <3>4 DEF Disjoint, Layout
    <3> QED BY <3>1, <3>2, <3>3, <3>4
  <2>9. Covered(f2, g2)
    <3> SUFFICES ASSUME NEW s \in DOMAIN Backends, NEW x \in Nat,
                        s <= x, x < s + Backends[s]
                 PROVE  Holds(f2, x) \/ Holds(g2, x)
      BY DEF Covered
    <3>1. CASE p <= x /\ x < p + whole
      <4>1. \/ rest <= x /\ x < rest + (whole - len)
            \/ start <= x /\ x < start + len
        BY <1>1, <1>9, <3>1
      <4> QED BY <4>1, <1>3, <2>2 DEF Holds
    <3>2. CASE ~ (p <= x /\ x < p + whole)
      BY <1>3, <2>2, <3>2 DEF Covered, Layout, Holds
    <3> QED BY <3>1, <3>2
  <2>10. Coalesced(f2)
    <3> SUFFICES ASSUME NEW a \in DOMAIN f2, NEW b \in DOMAIN f2, a + f2[a] = b
                 PROVE  b \in DOMAIN Backends
      BY DEF Coalesced
    <3>1. CASE a # rest /\ b # rest
      BY <2>2, <3>1 DEF Coalesced
    <3>2. CASE a # rest /\ b = rest
      <4>1. rest = p
        BY <1>1, <1>4, <1>9, <2>2, <3>2
      <4> QED BY <4>1, <2>2, <3>2 DEF Coalesced
    <3>3. CASE a = rest /\ b # rest
      <4>1. rest = p + len
        BY <1>1, <1>4, <1>9, <2>2, <3>3
      <4>2. b = p + whole
        BY <4>1, <1>1, <2>2, <3>3
      <4> QED BY <4>2, <2>2, <3>3 DEF Coalesced
    <3>4. ~ (a = rest /\ b = rest)
      BY <1>1, <1>9, <2>2
    <3> QED BY <3>1, <3>2, <3>3, <3>4
  <2> QED BY <2>3, <2>4, <2>5, <2>7, <2>8, <2>9, <2>10 DEF Layout
<1> QED BY <1>8, <1>9

\* A block returns to the free ones.
LEMMA GiveBack ==
  ASSUME NEW f, NEW g, Layout(f, g), NEW p \in DOMAIN g
  PROVE  Layout(With(f, p, g[p]), Without(g, p)) /\ p \notin DOMAIN f
<1> DEFINE f2 == With(f, p, g[p])
           g2 == Without(g, p)
<1>1. p \notin DOMAIN f /\ \A q \in DOMAIN f : q + f[q] <= p \/ p + g[p] <= q
  BY DEF Layout, Sized, Disjoint
<1>2. DOMAIN f2 = DOMAIN f \cup {p} /\ f2[p] = g[p] /\ \A q \in DOMAIN f : f2[q] = f[q]
  BY <1>1 DEF With
<1>3. DOMAIN g2 = DOMAIN g \ {p} /\ \A q \in DOMAIN g2 : g2[q] = g[q]
  BY DEF Without, Restrict
<1>4. \A q \in DOMAIN g2 : q + g[q] <= p \/ p + g[p] <= q
  BY <1>3 DEF Layout, Sized, Apart
<1> HIDE DEF f2, g2
<1>5. Sized(f2) /\ Sized(g2)
  BY <1>2, <1>3 DEF Layout, Sized
<1>6. Apart(f2) /\ Apart(g2)
  BY <1>1, <1>2, <1>3 DEF Layout, Sized, Apart
<1>7. Inside(f2) /\ Inside(g2)
  BY <1>2, <1>3 DEF Layout, Inside
<1>8. Disjoint(f2, g2)
  BY <1>2, <1>3, <1>4 DEF Layout, Sized, Disjoint
<1>9. Covered(f2, g2)
  BY <1>2, <1>3 DEF Layout, Covered, Holds
<1> QED BY <1>1, <1>5, <1>6, <1>7, <1>8, <1>9 DEF Layout, f2, g2

\* The map in which the free block n is part of the one before it, p.
Joined(f, p, n) == With(Without(f, n), p, f[p] + f[n])

\* Two free blocks of a region, side by side, become one.
LEMMA Join ==
  ASSUME NEW f, NEW g, Layout(f, g),
         NEW p \in DOMAIN f, NEW n \in DOMAIN f, n = p + f[p],
         NEW r \in DOMAIN Backends, InRegion(r, p, f[p]), InRegion(r, n, f[n])
  PROVE  Layout(Joined(f, p, n), g)
<1> DEFINE f2 == Joined(f, p, n)
<1>1. p \in Nat /\ n \in Nat /\ f[p] \in Nat \ {0} /\ f[n] \in Nat \ {0} /\ p # n
  BY DEF Layout, Sized
<1>2. /\ DOMAIN f2 = DOMAIN f \ {n} /\ f2[p] = f[p] + f[n]
      /\ \A q \in DOMAIN f2 \ {p} : f2[q] = f[q]
  BY <1>1 DEF Joined, With, Without, Restrict
<1> HIDE DEF f2
<1>3. Sized(f2)
  BY <1>1, <1>2 DEF Layout, Sized
<1>4. Apart(f2)
  BY <1>1, <1>2 DEF Layout, Sized, Apart
<1>5. Inside(f2)
  <2>1. InRegion(r, p, f[p] + f[n])
    BY <1>1, RegionsApart DEF InRegion
  <2> QED BY <2>1, <1>2 DEF Layout, Inside
<1>6. Disjoint(f2, g)
  <2> SUFFICES ASSUME NEW q \in DOMAIN g
               PROVE  p + (f[p] + f[n]) <= q \/ q + g[q] <= p
    BY <1>2 DEF Layout, Disjoint
  <2>1. q \in Nat /\ g[q] \in Nat \ {0}
    BY DEF Layout, Sized
  <2>2. /\ p + f[p] <= q \/ q + g[q] <= p
        /\ n + f[n] <= q \/ q + g[q] <= n
    BY DEF Layout, Disjoint
  <2> QED BY <1>1, <2>1, <2>2
<1>7. Covered(f2, g)
  <2> SUFFICES ASSUME NEW x \in Nat, Holds(f, x)
               PROVE  Holds(f2, x)
    BY DEF Layout, Covered
  <2>1. PICK q \in DOMAIN f : q <= x /\ x < q + f[q]
    BY DEF Holds
  <2>2. CASE q = p \/ q = n
    BY <1>1, <1>2, <2>1, <2>2 DEF Holds
  <2>3. CASE q # p /\ q # n
    BY <1>2, <2>1, <2>3 DEF Holds
  <2> QED BY <2>2, <2>3
<1> QED BY <1>3, <1>4, <1>5, <1>6, <1>7 DEF Layout, f2

-----------------------------------------------------------------------------
(* The operations. *)

MemoryInv ==
  /\ Layout(free_len_by_ptr, allocated)
  /\ Coalesced(free_len_by_ptr)
  /\ Agree(free_ptrs_by_len, free_len_by_ptr)
  /\ IsFiniteSet(DOMAIN free_len_by_ptr)
  /\ used_mem_current \in Int /\ used_mem_peak \in Int

\* The greater of two numbers.
LEMMA MaxOfTwo ==
  ASSUME NEW a \in Int, NEW b \in Int
  PROVE  Max({a, b}) \in Int
<1>1. \E x \in {a, b} : \A y \in {a, b} : x >= y
  OBVIOUS
<1> QED BY <1>1 DEF Max

\* The smaller of two numbers.
LEMMA MinOfTwo ==
  ASSUME NEW a \in Int, NEW b \in Int, a < b
  PROVE  Min({a, b}) = a
BY DEF Min

\* An element alone is its own minimum.
LEMMA MinOfOne ==
  ASSUME NEW a \in Int
  PROVE  Min({a}) = a
BY DEF Min

\* At first the regions are the free blocks.
LEMMA InitMemory == Init => MemoryInv
<1> SUFFICES ASSUME Init PROVE MemoryInv
  OBVIOUS
<1>1. free_len_by_ptr = Backends /\ DOMAIN allocated = {}
  BY DEF Init
<1>2. Layout(free_len_by_ptr, allocated)
  <2>1. Sized(free_len_by_ptr) /\ Sized(allocated) /\ Apart(free_len_by_ptr) /\ Apart(allocated)
    BY <1>1, RegionsApart DEF Sized, Apart
  <2>2. Inside(free_len_by_ptr) /\ Inside(allocated)
    BY <1>1, RegionsApart DEF Inside, InRegion
  <2>3. Disjoint(free_len_by_ptr, allocated) /\ Covered(free_len_by_ptr, allocated)
    BY <1>1 DEF Disjoint, Covered, Holds
  <2> QED BY <2>1, <2>2, <2>3 DEF Layout
<1>3. Coalesced(free_len_by_ptr)
  BY <1>1 DEF Coalesced
<1>4. Agree(free_ptrs_by_len, free_len_by_ptr)
  BY DEF Init, Agree, Range
<1>5. IsFiniteSet(DOMAIN free_len_by_ptr)
  BY <1>1, BackendsAssumption
<1> QED BY <1>2, <1>3, <1>4, <1>5 DEF Init, MemoryInv

\* An allocation cuts a free block that is long enough.
LEMMA FreeBlockFits ==
  ASSUME MemoryInv, NEW len \in Nat, Fitting(len) # {}, NEW placement \in Placements
  PROVE  FreeBlock(len, placement) \in Fitting(len)
<1> DEFINE lens == {l \in DOMAIN free_ptrs_by_len : l >= len}
           shortest == Min(lens)
<1>1. Fitting(len) \subseteq Nat
  BY DEF Fitting, MemoryInv, Layout, Sized
<1>2. CASE placement = "BestFit"
  <2>1. lens \subseteq Nat
    BY DEF MemoryInv, Layout, Sized, Agree
  <2>2. lens # {}
    BY DEF MemoryInv, Agree, Fitting
  <2>3. \E x \in lens : \A y \in lens : x <= y
    BY <2>1, <2>2, LeastNatural
  <2>4. shortest \in lens
    BY <2>3 DEF Min
  <2> HIDE DEF shortest
  <2> DEFINE ptrs == free_ptrs_by_len[shortest]
  <2>5. ptrs # {} /\ ptrs \subseteq Fitting(len)
    BY <2>4 DEF MemoryInv, Agree, Fitting
  <2>6. \E x \in ptrs : \A y \in ptrs : x <= y
    BY <1>1, <2>5, LeastNatural
  <2>7. Min(ptrs) \in ptrs
    BY <2>6 DEF Min
  <2>8. FreeBlock(len, placement) = Min(ptrs)
    BY <1>2 DEF FreeBlock, shortest
  <2> QED BY <2>5, <2>7, <2>8
<1>3. CASE placement = "Bottom"
  <2>1. \E x \in Fitting(len) : \A y \in Fitting(len) : x <= y
    BY <1>1, LeastNatural
  <2>2. Min(Fitting(len)) \in Fitting(len)
    BY <2>1 DEF Min
  <2> QED BY <1>3, <2>2 DEF FreeBlock
<1>4. CASE placement = "Top"
  <2>1. IsFiniteSet(Fitting(len))
    BY FS_Subset DEF MemoryInv, Fitting
  <2>2. \E x \in Fitting(len) : \A y \in Fitting(len) : y <= x
    BY <1>1, <2>1, GreatestOfFinite
  <2>3. Max(Fitting(len)) \in Fitting(len)
    BY <1>1, <2>2 DEF Max
  <2> QED BY <1>4, <2>3 DEF FreeBlock
<1> QED BY <1>2, <1>3, <1>4 DEF Placements

LEMMA AllocKeepsMemory ==
  ASSUME MemoryInv, NEW size \in Sizes, NEW placement \in Placements, Alloc(size, placement)
  PROVE  MemoryInv'
<1> DEFINE len == RoundUp(size)
           ptr == FreeBlock(len, placement)
           free_len == free_len_by_ptr[ptr]
           rest == RemainderEnd(ptr, len, placement)
           start == AllocatedEnd(ptr, free_len, len, placement)
           others == Without(free_len_by_ptr, ptr)
           index == RemoveFromIndex(free_ptrs_by_len, ptr, free_len)
<1>1. len \in Nat \ {0}
  BY RoundUpIsPositive
<1>2. Fitting(len) # {}
  BY DEF Alloc
<1> HIDE DEF len
<1>3. ptr \in Fitting(len)
  BY <1>1, <1>2, FreeBlockFits
<1>4. /\ free_len_by_ptr' = IF free_len = len THEN others ELSE With(others, rest, free_len - len)
      /\ free_ptrs_by_len' = IF free_len = len THEN index ELSE AddToIndex(index, rest, free_len - len)
      /\ allocated' = With(allocated, start, len)
      /\ used_mem_current' = used_mem_current + len
      /\ used_mem_peak' = Max({used_mem_peak, used_mem_current + len})
  BY DEF Alloc, len
<1> HIDE DEF ptr
<1>5. /\ ptr \in DOMAIN free_len_by_ptr /\ len <= free_len
      /\ ptr \in Nat /\ free_len \in Nat
  BY <1>3 DEF Fitting, MemoryInv, Layout, Sized
<1>6. \/ start = ptr /\ rest = ptr + len
      \/ start = ptr + (free_len - len) /\ rest = ptr
  BY DEF AllocatedEnd, RemainderEnd
<1> HIDE DEF rest, start
<1>7. Layout(free_len_by_ptr', allocated') /\ Coalesced(free_len_by_ptr')
  BY <1>1, <1>4, <1>5, <1>6, Cut DEF MemoryInv
<1>8. Agree(index, others)
  BY <1>5, RemoveAgrees DEF MemoryInv
<1>9. DOMAIN others = DOMAIN free_len_by_ptr \ {ptr}
  BY DEF Without, Restrict
<1>10. used_mem_current' \in Int /\ used_mem_peak' \in Int
  <2>1. used_mem_current + len \in Int /\ used_mem_peak \in Int
    BY <1>1 DEF MemoryInv
  <2> QED BY <1>4, <2>1, MaxOfTwo
<1>11. CASE free_len = len
  <2>1. Agree(free_ptrs_by_len', free_len_by_ptr')
    BY <1>4, <1>8, <1>11
  <2>2. IsFiniteSet(DOMAIN others)
    BY <1>9, FS_RemoveElement DEF MemoryInv
  <2>3. free_len_by_ptr' = others
    BY <1>4, <1>11
  <2> QED BY <1>7, <1>9, <1>10, <2>1, <2>2, <2>3 DEF MemoryInv
<1>12. CASE free_len # len
  <2>1. rest \notin DOMAIN others
    BY <1>1, <1>5, <1>6, <1>9, <1>12 DEF MemoryInv, Layout, Sized, Apart
  <2>2. Agree(free_ptrs_by_len', free_len_by_ptr')
    BY <1>4, <1>8, <1>12, <2>1, AddAgrees
  <2>3. IsFiniteSet(DOMAIN others \cup {rest})
    BY <1>9, FS_RemoveElement, FS_AddElement DEF MemoryInv
  <2>4. DOMAIN free_len_by_ptr' = DOMAIN others \cup {rest}
    BY <1>4, <1>12 DEF With
  <2> QED BY <1>7, <1>10, <2>2, <2>3, <2>4 DEF MemoryInv
<1> QED BY <1>11, <1>12

\* An address inside a region lies in that region.
LEMMA RegionOfInside ==
  ASSUME NEW r \in DOMAIN Backends, NEW p \in Nat, r <= p, p < r + Backends[r]
  PROVE  RegionOf(p) = r
<1> DEFINE below == {s \in DOMAIN Backends : s <= p}
<1>1. r \in below /\ \A s \in below : s <= r
  BY RegionsApart
<1>2. below \subseteq Nat
  BY RegionsApart
<1> HIDE DEF below
<1>3. Max(below) = r
  BY <1>1, <1>2 DEF Max
<1> QED BY <1>3 DEF RegionOf, below

\* Two blocks that touch lie in one region, unless a region ends between them.
LEMMA TouchingInRegion ==
  ASSUME NEW r \in DOMAIN Backends, NEW s \in DOMAIN Backends,
         NEW p \in Nat, NEW p_len \in Nat \ {0}, InRegion(r, p, p_len),
         NEW n \in Nat, NEW n_len \in Nat \ {0}, InRegion(s, n, n_len), n = p + p_len
  PROVE  IF n = r + Backends[r] THEN s = n ELSE s = r
BY RegionsApart DEF InRegion

\* What free merges lies in the block's region and beside the block.
LEMMA Neighbours ==
  ASSUME MemoryInv, NEW p \in DOMAIN allocated,
         NEW r \in DOMAIN Backends, InRegion(r, p, allocated[p])
  PROVE  /\ \A n \in DOMAIN free_len_by_ptr :
              n \in MergeableNext(p, allocated[p]) <=>
                n = p + allocated[p] /\ n # r + Backends[r]
         /\ \A n \in MergeableNext(p, allocated[p]) : InRegion(r, n, free_len_by_ptr[n])
         /\ \A q \in DOMAIN free_len_by_ptr :
              q \in MergeablePrev(p) <=> q + free_len_by_ptr[q] = p /\ p # r
         /\ \A q \in MergeablePrev(p) : InRegion(r, q, free_len_by_ptr[q])
<1> DEFINE f == free_len_by_ptr
           len == allocated[p]
<1>1. p \in Nat /\ len \in Nat \ {0} /\ \A q \in DOMAIN f : q \in Nat /\ f[q] \in Nat \ {0}
  BY DEF MemoryInv, Layout, Sized
<1>2. RegionOf(p) = r
  BY <1>1, RegionOfInside, RegionsApart DEF InRegion
<1>3. \A q \in DOMAIN f : \E s \in DOMAIN Backends : InRegion(s, q, f[q])
  BY DEF MemoryInv, Layout, Inside
<1>4. \A n \in MergeableNext(p, len) : InRegion(r, n, f[n])
  <2> SUFFICES ASSUME NEW n \in MergeableNext(p, len) PROVE InRegion(r, n, f[n])
    OBVIOUS
  <2>1. n \in DOMAIN f /\ n = p + len /\ n # r + Backends[r]
    BY <1>2 DEF MergeableNext
  <2>2. PICK s \in DOMAIN Backends : InRegion(s, n, f[n])
    BY <1>3, <2>1
  <2>3. s = r
    BY <1>1, <2>1, <2>2, TouchingInRegion
  <2> QED BY <2>2, <2>3
<1>5. \A q \in DOMAIN f : q \in MergeablePrev(p) <=> q + f[q] = p /\ p # r
  BY <1>1, <1>2 DEF MergeablePrev
<1>6. \A q \in MergeablePrev(p) : InRegion(r, q, f[q])
  <2> SUFFICES ASSUME NEW q \in MergeablePrev(p) PROVE InRegion(r, q, f[q])
    OBVIOUS
  <2>1. q \in DOMAIN f /\ p = q + f[q] /\ p # r
    BY <1>2 DEF MergeablePrev
  <2>2. PICK s \in DOMAIN Backends : InRegion(s, q, f[q])
    BY <1>3, <2>1
  <2>3. s = r
    BY <1>1, <2>1, <2>2, TouchingInRegion
  <2> QED BY <2>2, <2>3
<1> QED BY <1>2, <1>4, <1>5, <1>6 DEF MergeableNext

\* A set of blocks at one address has at most that one.
LEMMA AtMostOne ==
  ASSUME NEW S, NEW x, \A y \in S : y = x
  PROVE  S = {} \/ S = {x}
OBVIOUS

LEMMA FreeKeepsMemory ==
  ASSUME MemoryInv, NEW p \in DOMAIN allocated, Free(p)
  PROVE  MemoryInv'
<1> DEFINE f == free_len_by_ptr
           g == allocated
           len == g[p]
           next == MergeableNext(p, len)
           prev == MergeablePrev(p)
           start == Min(prev \cup {p})
           total == len + FreeLen(next) + FreeLen(prev)
           others == Restrict(f, DOMAIN f \ (next \cup prev))
           index == IndexWithout(IndexWithout(free_ptrs_by_len, next), prev)
           f2 == With(others, start, total)
           g2 == Without(g, p)
<1>1. /\ free_len_by_ptr' = f2
      /\ free_ptrs_by_len' = AddToIndex(index, start, total)
      /\ allocated' = g2
      /\ used_mem_current' = used_mem_current - len
      /\ used_mem_peak' = used_mem_peak
  BY DEF Free
<1>2. /\ Layout(f, g) /\ Coalesced(f) /\ Agree(free_ptrs_by_len, f) /\ IsFiniteSet(DOMAIN f)
      /\ p \in Nat /\ len \in Nat \ {0}
      /\ \A q \in DOMAIN f : q \in Nat /\ f[q] \in Nat \ {0}
  BY DEF MemoryInv, Layout, Sized
<1>3. PICK r \in DOMAIN Backends : InRegion(r, p, len)
  BY <1>2 DEF Layout, Inside
<1>4. r \in Nat /\ Backends[r] \in Nat \ {0}
  BY RegionsApart
<1>5. /\ \A n \in DOMAIN f : n \in next <=> n = p + len /\ n # r + Backends[r]
      /\ \A n \in next : InRegion(r, n, f[n])
      /\ \A q \in DOMAIN f : q \in prev <=> q + f[q] = p /\ p # r
      /\ \A q \in prev : InRegion(r, q, f[q])
  BY <1>3, Neighbours
<1>6. next \subseteq DOMAIN f /\ prev \subseteq DOMAIN f
  BY DEF MergeableNext, MergeablePrev
<1> HIDE DEF next, prev
<1>7. next = {} \/ next = {p + len}
  BY <1>5, <1>6, AtMostOne
<1>8. \A a, b \in prev : a = b
  BY <1>2, <1>5, <1>6 DEF Layout, Apart
<1>9. prev = {} \/ \E q \in prev : prev = {q}
  BY <1>8
<1>10. p \notin DOMAIN f /\ Layout(With(f, p, len), g2)
  BY <1>2, GiveBack
\* What each of the four cases has to show.
<1> DEFINE Result == /\ Layout(f2, g2)
                     /\ start \notin DOMAIN others
                     /\ IF prev = {} THEN start = p ELSE prev = {start}
                     /\ start + total = IF next = {} THEN p + len ELSE p + len + f[p + len]
                     /\ start \in Nat /\ total \in Nat
<1>11. DOMAIN others = DOMAIN f \ (next \cup prev) /\ \A q \in DOMAIN others : others[q] = f[q]
  BY DEF Restrict
<1>12. DOMAIN f2 = DOMAIN others \cup {start} /\ f2[start] = total
       /\ \A q \in DOMAIN others \ {start} : f2[q] = f[q]
  BY <1>11 DEF With
<1> HIDE DEF f, g, len, others
<1>13. FreeLen(next) = IF next = {} THEN 0 ELSE f[p + len]
  <2>1. CASE next = {}
    BY <2>1 DEF FreeLen
  <2>2. CASE next = {p + len}
    BY <1>2, <2>2, MinOfOne DEF FreeLen, f
  <2> QED BY <1>7, <2>1, <2>2
<1> DEFINE given == With(f, p, len)
<1>14. DOMAIN given = DOMAIN f \cup {p} /\ given[p] = len /\ \A q \in DOMAIN f : given[q] = f[q]
  BY <1>10 DEF With
<1> DEFINE n == p + len
           after == IF next = {} THEN given ELSE Joined(given, p, n)
           after_len == len + FreeLen(next)
<1> HIDE DEF given
<1>15. /\ Layout(after, g2)
       /\ DOMAIN after = (DOMAIN f \ next) \cup {p}
       /\ after[p] = after_len /\ after_len \in Nat \ {0}
       /\ InRegion(r, p, after_len)
       /\ \A q \in DOMAIN f \ next : after[q] = f[q]
       /\ after = [q \in DOMAIN after |-> after[q]]
  <2>1. CASE next = {}
    <3>1. after = given /\ after_len = len
      BY <1>2, <1>13, <2>1
    <3> QED BY <1>2, <1>3, <1>10, <1>14, <2>1, <3>1 DEF given, With
  <2>2. CASE next = {n}
    <3>1. n \in DOMAIN f /\ n # p /\ InRegion(r, n, f[n]) /\ f[n] \in Nat \ {0}
      BY <1>2, <1>5, <1>6, <2>2
    <3>2. after = Joined(given, p, n) /\ after_len = len + f[n]
      BY <1>13, <2>2
    <3>3. Layout(after, g2)
      BY <1>3, <1>10, <1>14, <3>1, <3>2, Join DEF given
    <3>4. InRegion(r, p, after_len)
      BY <1>2, <1>3, <1>4, <3>1, <3>2 DEF InRegion
    <3> HIDE DEF after, after_len
    <3>5. /\ DOMAIN after = (DOMAIN f \ next) \cup {p}
          /\ after[p] = len + f[n]
          /\ \A q \in DOMAIN f \ next : after[q] = f[q]
          /\ after = [q \in DOMAIN after |-> after[q]]
      BY <1>10, <1>14, <2>2, <3>1, <3>2 DEF Joined, With, Without, Restrict
    <3> QED BY <1>2, <3>1, <3>2, <3>3, <3>4, <3>5
  <2> QED BY <1>7, <2>1, <2>2
<1> HIDE DEF after, n, f2, g2, start, total
<1>16. p + after_len = IF next = {} THEN p + len ELSE p + len + f[p + len]
  BY <1>2, <1>6, <1>7, <1>13
<1> HIDE DEF after_len
<1>17. Result
  <2>1. CASE prev = {}
    <3>1. start = p
      BY <1>2, <2>1, MinOfOne DEF start
    <3>2. total = after_len
      BY <1>2, <1>13, <1>7, <1>15, <2>1 DEF total, FreeLen, after_len
    <3>3. f2 = after
      BY <1>10, <1>11, <1>12, <1>15, <2>1, <3>1, <3>2 DEF f2, With
    <3> QED BY <1>2, <1>10, <1>11, <1>15, <1>16, <2>1, <3>1, <3>2, <3>3
  <2>2. ASSUME NEW q \in prev, prev = {q}
        PROVE  Result
    <3>1. q \in DOMAIN f /\ p = q + f[q] /\ q \in Nat /\ f[q] \in Nat \ {0} /\ q < p
      BY <1>2, <1>5, <1>6
    <3>2. q \notin next
      BY <1>2, <1>7, <3>1
    <3>3. start = q
      BY <1>2, <2>2, <3>1, MinOfTwo DEF start
    <3>4. total = after_len + f[q]
      BY <2>2, <3>1, MinOfOne DEF total, FreeLen, after_len, f
    <3>5. Layout(Joined(after, q, p), g2)
      <4>1. p \in DOMAIN after /\ q \in DOMAIN after /\ after[q] = f[q]
        BY <1>15, <3>1, <3>2
      <4>2. InRegion(r, q, f[q])
        BY <1>5
      <4> QED BY <1>15, <3>1, <4>1, <4>2, Join
    <3>6. f2 = Joined(after, q, p)
      BY <1>10, <1>11, <1>15, <2>2, <3>1, <3>2, <3>3, <3>4 DEF f2, Joined, With, Without, Restrict
    <3>7. start + total = p + after_len
      BY <1>2, <1>15, <3>1, <3>3, <3>4
    <3> QED BY <1>11, <1>15, <2>2, <3>1, <3>3, <3>4, <3>5, <3>6, <3>7, <1>16
  <2> QED BY <1>9, <2>1, <2>2
<1>18. Coalesced(f2)
  <2> SUFFICES ASSUME NEW a \in DOMAIN f2, NEW b \in DOMAIN f2, a + f2[a] = b
               PROVE  b \in DOMAIN Backends
    BY DEF Coalesced
  <2>1. start \in DOMAIN f \/ (start = p /\ prev = {})
    BY <1>6, <1>17
  <2>2. CASE a # start /\ b # start
    <3>1. a \in DOMAIN f /\ b \in DOMAIN f /\ f2[a] = f[a]
      BY <1>11, <1>12, <2>2
    <3> QED BY <1>2, <3>1 DEF Coalesced, f
  <2>3. CASE a # start /\ b = start
    <3>1. a \in DOMAIN f /\ f2[a] = f[a] /\ a \notin prev
      BY <1>11, <1>12, <2>3
    <3>2. CASE prev = {}
      BY <1>3, <1>5, <1>17, <2>3, <3>1, <3>2
    <3>3. CASE prev # {}
      BY <1>2, <1>6, <1>17, <2>3, <3>1, <3>3 DEF Coalesced
    <3> QED BY <3>2, <3>3
  <2>4. CASE a = start /\ b # start
    <3>1. b \in DOMAIN f /\ b \notin next /\ b = start + total
      BY <1>11, <1>12, <2>4
    <3>2. CASE next = {}
      <4>1. b = p + len /\ b = r + Backends[r]
        BY <1>5, <1>17, <3>1, <3>2
      <4>2. PICK s \in DOMAIN Backends : InRegion(s, b, f[b])
        BY <1>2, <3>1 DEF Layout, Inside
      <4>3. s = b
        BY <1>2, <1>3, <3>1, <4>1, <4>2, TouchingInRegion
      <4> QED BY <4>3
    <3>3. CASE next # {}
      <4>1. p + len \in DOMAIN f /\ b = p + len + f[p + len]
        BY <1>6, <1>7, <1>17, <3>1, <3>3
      <4> QED BY <1>2, <3>1, <4>1 DEF Coalesced
    <3> QED BY <3>2, <3>3
  <2>5. ~ (a = start /\ b = start)
    <3>1. f2[start] \in Nat \ {0}
      BY <1>12, <1>17 DEF Layout, Sized
    <3> QED BY <1>17, <3>1
  <2> QED BY <2>2, <2>3, <2>4, <2>5
<1>19. Agree(free_ptrs_by_len', free_len_by_ptr')
  <2> DEFINE f1 == IF next = {} THEN f ELSE Without(f, p + len)
             i1 == IndexWithout(free_ptrs_by_len, next)
  <2>1. Agree(i1, f1)
    <3>1. CASE next = {}
      BY <1>2, <3>1 DEF IndexWithout, f
    <3>2. CASE next = {p + len}
      <4>1. Min(next) = p + len /\ p + len \in DOMAIN f
        BY <1>2, <1>6, <3>2, MinOfOne
      <4>2. i1 = RemoveFromIndex(free_ptrs_by_len, p + len, f[p + len])
        BY <3>2, <4>1 DEF IndexWithout, f
      <4> HIDE DEF i1
      <4> QED BY <1>2, <3>2, <4>1, <4>2, RemoveAgrees
    <3> QED BY <1>7, <3>1, <3>2
  <2> HIDE DEF i1
  <2>2. Agree(index, others)
    <3>1. CASE prev = {}
      <4>1. index = i1
        BY <3>1 DEF IndexWithout, i1
      <4>2. \A q : q \in DOMAIN f1 <=> q \in DOMAIN others
        BY <1>7, <1>11, <3>1 DEF Without, Restrict
      <4>3. \A q \in DOMAIN others : f1[q] = others[q]
        BY <1>7, <1>11, <3>1 DEF Without, Restrict
      <4> QED BY <2>1, <4>1, <4>2, <4>3 DEF Agree
    <3>2. ASSUME NEW q \in prev, prev = {q}
          PROVE  Agree(index, others)
      <4>1. q \in DOMAIN f /\ q \in Nat /\ q # p + len
        BY <1>2, <1>5, <1>6
      <4>2. DOMAIN f1 = DOMAIN f \ next /\ \A x \in DOMAIN f1 : f1[x] = f[x]
        BY <1>7 DEF Without, Restrict
      <4>3. q \in DOMAIN f1 /\ f1[q] = f[q]
        BY <1>7, <4>1, <4>2
      <4>4. index = RemoveFromIndex(i1, q, f1[q])
        BY <3>2, <4>1, <4>3, MinOfOne DEF IndexWithout, i1, f
      <4> HIDE DEF f1, index
      <4>5. Agree(index, Without(f1, q))
        BY <2>1, <4>3, <4>4, RemoveAgrees
      <4>6. DOMAIN Without(f1, q) = DOMAIN others /\ \A x \in DOMAIN others : Without(f1, q)[x] = others[x]
        BY <1>11, <3>2, <4>2 DEF Without, Restrict
      <4> QED BY <4>5, <4>6 DEF Agree
    <3> QED BY <1>9, <3>1, <3>2
  <2> HIDE DEF index
  <2> QED BY <1>1, <1>17, <2>2, AddAgrees DEF f2
<1>20. IsFiniteSet(DOMAIN free_len_by_ptr')
  <2>1. IsFiniteSet(DOMAIN others)
    BY <1>2, <1>11, FS_Subset
  <2> QED BY <1>1, <1>12, <2>1, FS_AddElement
<1>21. used_mem_current' \in Int /\ used_mem_peak' \in Int
  BY <1>1, <1>2 DEF MemoryInv
<1>22. Layout(free_len_by_ptr', allocated') /\ Coalesced(free_len_by_ptr')
  BY <1>1, <1>17, <1>18
<1> QED BY <1>19, <1>20, <1>21, <1>22 DEF MemoryInv

-----------------------------------------------------------------------------
(* The counters: the bytes of the free and of the allocated blocks add up  *)
(* to those of the regions.                                                *)

Summable(f) == f \in [DOMAIN f -> Int] /\ IsFiniteSet(DOMAIN f)

CountInv ==
  /\ Summable(free_len_by_ptr) /\ Summable(allocated)
  /\ used_mem_current = SumFunction(allocated)
  /\ SumFunction(free_len_by_ptr) + SumFunction(allocated) = SumFunction(Backends)
  /\ used_mem_current <= used_mem_peak
  /\ used_mem_peak <= SumFunction(Backends)

LEMMA SumOfSummable ==
  ASSUME NEW f, Summable(f)
  PROVE  SumFunction(f) \in Int
  BY SumInt DEF Summable

LEMMA SumWithout ==
  ASSUME NEW f, Summable(f), NEW p \in DOMAIN f
  PROVE  /\ Summable(Without(f, p)) /\ f[p] \in Int
         /\ SumFunction(Without(f, p)) = SumFunction(f) - f[p]
<1>1. PICK S : S = DOMAIN f
  OBVIOUS
<1>2. f \in [S -> Int] /\ IsFiniteSet(S) /\ p \in S
  BY <1>1 DEF Summable
<1>3. Without(f, p) = But(f, p)
  BY DEF Without, Restrict, But
<1>4. But(f, p) \in [S \ {p} -> Int] /\ IsFiniteSet(S \ {p}) /\ SumFunction(But(f, p)) \in Int
  BY <1>2, ButType
<1>5. SumFunction(f) = f[p] + SumFunction(But(f, p))
  BY <1>2, SumBut
<1>6. SumFunction(f) \in Int /\ f[p] \in Int
  BY <1>2, SumInt
<1> QED BY <1>3, <1>4, <1>5, <1>6 DEF Summable

LEMMA SumWith ==
  ASSUME NEW f, Summable(f), NEW p, p \notin DOMAIN f, NEW len \in Int
  PROVE  /\ Summable(With(f, p, len))
         /\ SumFunction(With(f, p, len)) = SumFunction(f) + len
<1>1. PICK S : S = DOMAIN f
  OBVIOUS
<1>2. f \in [S -> Int] /\ IsFiniteSet(S) /\ p \notin S
  BY <1>1 DEF Summable
<1>3. PICK g : g = With(f, p, len)
  OBVIOUS
<1>4. g \in [S \cup {p} -> Int] /\ g[p] = len /\ \A y \in S : g[y] = f[y]
  BY <1>1, <1>2, <1>3 DEF With
<1>5. SumFunction(g) = SumFunction(f) + g[p]
  BY <1>2, <1>4, SumAdd
<1>6. IsFiniteSet(S \cup {p})
  BY <1>2, FS_AddElement
<1> QED BY <1>3, <1>4, <1>5, <1>6 DEF Summable

\* At first the regions are the free blocks.
LEMMA InitCounts == Init => CountInv
<1> SUFFICES ASSUME Init PROVE CountInv
  OBVIOUS
<1>1. /\ free_len_by_ptr = Backends /\ DOMAIN allocated = {} /\ allocated \in [{} -> Int]
      /\ used_mem_current = 0 /\ used_mem_peak = 0
  BY DEF Init
<1>2. Summable(Backends)
  BY BackendsAssumption DEF Summable
<1>3. Summable(allocated) /\ SumFunction(allocated) = 0
  BY <1>1, SumEmpty, FS_EmptySet DEF Summable
<1>4. SumFunction(Backends) \in Nat
  BY BackendsAssumption, SumNat
<1> QED BY <1>1, <1>2, <1>3, <1>4 DEF CountInv

\* The maximum of two numbers is one of them.
LEMMA MaxIsGreater ==
  ASSUME NEW a \in Int, NEW b \in Int
  PROVE  Max({a, b}) = IF a >= b THEN a ELSE b
BY DEF Max

LEMMA AllocKeepsCount ==
  ASSUME MemoryInv, CountInv, NEW size \in Sizes, NEW placement \in Placements,
         Alloc(size, placement)
  PROVE  CountInv'
<1> DEFINE len == RoundUp(size)
           ptr == FreeBlock(len, placement)
           free_len == free_len_by_ptr[ptr]
           rest == RemainderEnd(ptr, len, placement)
           start == AllocatedEnd(ptr, free_len, len, placement)
           others == Without(free_len_by_ptr, ptr)
<1>1. len \in Nat \ {0}
  BY RoundUpIsPositive
<1>2. Fitting(len) # {}
  BY DEF Alloc
<1> HIDE DEF len
<1>3. ptr \in Fitting(len)
  BY <1>1, <1>2, FreeBlockFits
<1>4. /\ free_len_by_ptr' = IF free_len = len THEN others ELSE With(others, rest, free_len - len)
      /\ allocated' = With(allocated, start, len)
      /\ used_mem_current' = used_mem_current + len
      /\ used_mem_peak' = Max({used_mem_peak, used_mem_current + len})
  BY DEF Alloc, len
<1> HIDE DEF ptr
<1>5. /\ ptr \in DOMAIN free_len_by_ptr /\ len <= free_len
      /\ ptr \in Nat /\ free_len \in Nat
  BY <1>3 DEF Fitting, MemoryInv, Layout, Sized
<1>6. \/ start = ptr /\ rest = ptr + len
      \/ start = ptr + (free_len - len) /\ rest = ptr
  BY DEF AllocatedEnd, RemainderEnd
<1> HIDE DEF rest, start
\* The two pieces are new.
<1>7. start \notin DOMAIN allocated
  BY <1>1, <1>5, <1>6 DEF MemoryInv, Layout, Sized, Disjoint
<1>8. DOMAIN others = DOMAIN free_len_by_ptr \ {ptr}
  BY DEF Without, Restrict
<1>9. free_len # len => rest \notin DOMAIN others
  BY <1>1, <1>5, <1>6, <1>8 DEF MemoryInv, Layout, Sized, Apart
<1>10. Summable(others) /\ SumFunction(others) = SumFunction(free_len_by_ptr) - free_len
  BY <1>5, SumWithout DEF CountInv
<1> HIDE DEF others
<1>11. /\ Summable(allocated')
       /\ SumFunction(allocated') = SumFunction(allocated) + len
  BY <1>1, <1>4, <1>7, SumWith DEF CountInv
<1>12. /\ Summable(free_len_by_ptr')
       /\ SumFunction(free_len_by_ptr') = SumFunction(free_len_by_ptr) - len
  <2>1. SumFunction(free_len_by_ptr) \in Int
    BY SumOfSummable DEF CountInv
  <2>2. CASE free_len = len
    BY <1>4, <1>10, <2>2
  <2>3. CASE free_len # len
    <3>1. free_len - len \in Int /\ free_len_by_ptr' = With(others, rest, free_len - len)
      BY <1>1, <1>4, <1>5, <2>3
    <3>2. /\ Summable(free_len_by_ptr')
          /\ SumFunction(free_len_by_ptr') = SumFunction(others) + (free_len - len)
      BY <1>9, <1>10, <2>3, <3>1, SumWith
    <3> QED BY <1>1, <1>5, <1>10, <2>1, <3>2
  <2> QED BY <2>2, <2>3
<1>13. SumFunction(free_len_by_ptr') \in Nat
  <2>1. Layout(free_len_by_ptr, allocated)' /\ IsFiniteSet(DOMAIN free_len_by_ptr')
    BY AllocKeepsMemory DEF MemoryInv
  <2>2. PICK f : f = free_len_by_ptr'
    OBVIOUS
  <2>3. PICK S : S = DOMAIN f
    OBVIOUS
  <2>4. f \in [S -> Nat] /\ IsFiniteSet(S)
    BY <1>12, <2>1, <2>2, <2>3 DEF Layout, Sized, Summable
  <2> QED BY <2>2, <2>4, SumNat
<1>14. /\ SumFunction(free_len_by_ptr) \in Int /\ SumFunction(allocated) \in Int
       /\ SumFunction(Backends) \in Int
  BY SumOfSummable DEF CountInv
<1>15. used_mem_peak \in Int /\ used_mem_current + len \in Int
  BY <1>1 DEF MemoryInv
<1>16. used_mem_peak' = IF used_mem_peak >= used_mem_current + len
                        THEN used_mem_peak ELSE used_mem_current + len
  BY <1>4, <1>15, MaxIsGreater
<1> QED BY <1>1, <1>4, <1>11, <1>12, <1>13, <1>14, <1>15, <1>16 DEF CountInv

\* What a free takes from the free blocks: the neighbours, if there are any.
LEMMA SumWithoutNeighbour ==
  ASSUME NEW f, Summable(f), NEW block, block \subseteq DOMAIN f, NEW p \in Int,
         block = {} \/ block = {p}
  PROVE  LET g == Restrict(f, DOMAIN f \ block)
         IN  /\ Summable(g)
             /\ SumFunction(g) = SumFunction(f) - (IF block = {} THEN 0 ELSE f[p])
             /\ (IF block = {} THEN 0 ELSE f[p]) \in Int
<1>1. CASE block = {}
  <2>1. Restrict(f, DOMAIN f \ block) = f
    BY <1>1 DEF Restrict, Summable
  <2> QED BY <1>1, <2>1, SumOfSummable
<1>2. CASE block = {p}
  <2>1. Restrict(f, DOMAIN f \ block) = Without(f, p) /\ p \in DOMAIN f
    BY <1>2 DEF Without
  <2> QED BY <1>2, <2>1, SumWithout
<1> QED BY <1>1, <1>2

LEMMA FreeKeepsCount ==
  ASSUME MemoryInv, CountInv, NEW p \in DOMAIN allocated, Free(p)
  PROVE  CountInv'
<1> DEFINE f == free_len_by_ptr
           len == allocated[p]
           next == MergeableNext(p, len)
           prev == MergeablePrev(p)
           start == Min(prev \cup {p})
           total == len + FreeLen(next) + FreeLen(prev)
           others == Restrict(f, DOMAIN f \ (next \cup prev))
<1>1. /\ free_len_by_ptr' = With(others, start, total)
      /\ allocated' = Without(allocated, p)
      /\ used_mem_current' = used_mem_current - len
      /\ used_mem_peak' = used_mem_peak
  BY DEF Free
<1>2. /\ Layout(f, allocated) /\ p \in Nat /\ len \in Nat \ {0}
      /\ \A q \in DOMAIN f : q \in Nat /\ f[q] \in Nat \ {0}
  BY DEF MemoryInv, Layout, Sized
<1>3. PICK r \in DOMAIN Backends : InRegion(r, p, len)
  BY <1>2 DEF Layout, Inside
<1>4. /\ \A n \in DOMAIN f : n \in next <=> n = p + len /\ n # r + Backends[r]
      /\ \A q \in DOMAIN f : q \in prev <=> q + f[q] = p /\ p # r
  BY <1>3, Neighbours
<1>5. next \subseteq DOMAIN f /\ prev \subseteq DOMAIN f
  BY DEF MergeableNext, MergeablePrev
<1> HIDE DEF next, prev
<1>6. next = {} \/ next = {p + len}
  BY <1>4, <1>5, AtMostOne
<1>7. \A a, b \in prev : a = b
  BY <1>2, <1>4, <1>5 DEF Layout, Apart
<1>8. PICK q \in Int : prev = {} \/ prev = {q}
  BY <1>2, <1>5, <1>7
<1>9. FreeLen(next) = IF next = {} THEN 0 ELSE f[p + len]
  <2>1. CASE next = {}
    BY <2>1 DEF FreeLen
  <2>2. CASE next = {p + len}
    BY <1>2, <2>2, MinOfOne DEF FreeLen, f
  <2> QED BY <1>6, <2>1, <2>2
<1>10. FreeLen(prev) = IF prev = {} THEN 0 ELSE f[q]
  <2>1. CASE prev = {}
    BY <2>1 DEF FreeLen
  <2>2. CASE prev = {q}
    BY <2>2, MinOfOne DEF FreeLen, f
  <2> QED BY <1>8, <2>1, <2>2
<1>11. p \notin DOMAIN f
  BY <1>2, GiveBack
<1>12. start = IF prev = {} THEN p ELSE q
  <2>1. CASE prev = {}
    BY <1>2, <2>1, MinOfOne
  <2>2. CASE prev = {q}
    <3>1. q < p
      BY <1>2, <1>4, <1>5, <2>2
    <3>2. prev \cup {p} = {q, p}
      BY <2>2
    <3> QED BY <1>2, <2>2, <3>1, <3>2, MinOfTwo
  <2> QED BY <1>8, <2>1, <2>2
\* The neighbours are taken out one after the other.
<1>13. PICK g : g = Restrict(f, DOMAIN f \ next)
  OBVIOUS
<1>14. Summable(f) /\ SumFunction(f) \in Int
  BY SumOfSummable DEF CountInv
<1> HIDE DEF f, len, start, total
<1>15. /\ Summable(g) /\ SumFunction(g) = SumFunction(f) - FreeLen(next)
       /\ FreeLen(next) \in Int
  <2>1. p + len \in Int
    BY <1>2
  <2> QED BY <1>5, <1>6, <1>9, <1>13, <1>14, <2>1, SumWithoutNeighbour
<1>16. /\ DOMAIN g = DOMAIN f \ next /\ \A x \in DOMAIN g : g[x] = f[x]
       /\ others = Restrict(g, DOMAIN g \ prev)
  BY <1>13 DEF Restrict
<1>17. prev \subseteq DOMAIN g
  BY <1>2, <1>4, <1>5, <1>6, <1>16
<1>18. /\ Summable(others) /\ SumFunction(others) = SumFunction(g) - FreeLen(prev)
       /\ FreeLen(prev) \in Int
  BY <1>8, <1>10, <1>15, <1>16, <1>17, SumWithoutNeighbour
<1>19. DOMAIN others = DOMAIN f \ (next \cup prev)
  BY DEF Restrict
<1>20. start \notin DOMAIN others
  BY <1>8, <1>11, <1>12, <1>19
<1> HIDE DEF others
<1>21. /\ Summable(free_len_by_ptr')
       /\ SumFunction(free_len_by_ptr') = SumFunction(f) + len
  <2>1. total \in Int
    BY <1>2, <1>15, <1>18 DEF total
  <2>2. /\ Summable(free_len_by_ptr')
        /\ SumFunction(free_len_by_ptr') = SumFunction(others) + total
    BY <1>1, <1>18, <1>20, <2>1, SumWith
  <2> QED BY <1>2, <1>14, <1>15, <1>18, <2>2 DEF total
<1>22. /\ Summable(allocated')
       /\ SumFunction(allocated') = SumFunction(allocated) - len
  BY <1>1, SumWithout DEF CountInv, len
<1>23. SumFunction(allocated) \in Int /\ SumFunction(Backends) \in Int /\ used_mem_peak \in Int
  BY SumOfSummable DEF CountInv, MemoryInv
<1> QED BY <1>1, <1>2, <1>14, <1>21, <1>22, <1>23 DEF CountInv, f

-----------------------------------------------------------------------------
(* The invariants, for every set of regions. *)

LEMMA SpecKeepsMemory == Spec => []MemoryInv
<1>1. Init => MemoryInv
  BY InitMemory
<1>2. MemoryInv /\ [Next]_vars => MemoryInv'
  <2> SUFFICES ASSUME MemoryInv, [Next]_vars PROVE MemoryInv'
    OBVIOUS
  <2>1. ASSUME NEW size \in Sizes, NEW placement \in Placements, Alloc(size, placement)
        PROVE  MemoryInv'
    BY <2>1, AllocKeepsMemory
  <2>2. ASSUME NEW ptr \in DOMAIN allocated, Free(ptr)
        PROVE  MemoryInv'
    BY <2>2, FreeKeepsMemory
  <2>3. CASE ResetUsedMemPeak
    BY <2>3 DEF ResetUsedMemPeak, MemoryInv
  <2>4. CASE UNCHANGED vars
    BY <2>4 DEF vars, MemoryInv
  <2> QED BY <2>1, <2>2, <2>3, <2>4 DEF Next
<1> QED BY <1>1, <1>2, PTL DEF Spec

\* Blocks have an address and a positive length, and the counters are numbers.
THEOREM TypeCorrect == Spec => []TypeOK
<1>1. MemoryInv => TypeOK
  BY DEF MemoryInv, Layout, Sized, TypeOK, Blocks
<1> QED BY <1>1, SpecKeepsMemory, PTL

\* No block, free or allocated, reaches over the end of a region.
THEOREM BlocksStayWithinRegions == Spec => []WithinRegions
<1>1. MemoryInv => WithinRegions
  BY DEF MemoryInv, Layout, Inside, InRegion, WithinRegions, Blocks
<1> QED BY <1>1, SpecKeepsMemory, PTL

\* Every byte of a region is free or in exactly one caller's block: alloc
\* never hands out a byte twice and free never loses one.
THEOREM RegionsStayPartitioned == Spec => []RegionsPartitioned
<1>1. MemoryInv => RegionsPartitioned
  <2> SUFFICES ASSUME MemoryInv, NEW x \in UNION {Bytes(r, Backends[r]) : r \in DOMAIN Backends}
               PROVE  Cardinality({p \in DOMAIN free_len_by_ptr : x \in Bytes(p, free_len_by_ptr[p])})
                        + Cardinality({p \in DOMAIN allocated : x \in Bytes(p, allocated[p])}) = 1
    BY DEF RegionsPartitioned
  <2> DEFINE f == free_len_by_ptr
             g == allocated
             InFree == {p \in DOMAIN f : x \in Bytes(p, f[p])}
             InAllocated == {p \in DOMAIN g : x \in Bytes(p, g[p])}
  <2>1. PICK r \in DOMAIN Backends : x \in Bytes(r, Backends[r])
    OBVIOUS
  <2>2. x \in Nat /\ r <= x /\ x < r + Backends[r]
    BY <2>1, RegionsApart DEF Bytes
  <2>3. /\ \A p \in DOMAIN f : p \in Nat /\ f[p] \in Nat \ {0}
        /\ \A p \in DOMAIN g : p \in Nat /\ g[p] \in Nat \ {0}
        /\ Apart(f) /\ Apart(g) /\ Disjoint(f, g) /\ Covered(f, g)
    BY DEF MemoryInv, Layout, Sized
  <2> HIDE DEF f, g
  <2>4. /\ InFree = {p \in DOMAIN f : p <= x /\ x < p + f[p]}
        /\ InAllocated = {p \in DOMAIN g : p <= x /\ x < p + g[p]}
    BY <2>2, <2>3 DEF Bytes
  <2> HIDE DEF InFree, InAllocated
  <2>5. \A p, q \in InFree : p = q
    BY <2>2, <2>3, <2>4 DEF Apart
  <2>6. \A p, q \in InAllocated : p = q
    BY <2>2, <2>3, <2>4 DEF Apart
  <2>7. InFree = {} \/ InAllocated = {}
    BY <2>2, <2>3, <2>4 DEF Disjoint
  <2>8. InFree # {} \/ InAllocated # {}
    BY <2>2, <2>3, <2>4 DEF Covered, Holds
  <2>9. \/ InFree = {} /\ \E p \in InAllocated : InAllocated = {p}
        \/ InAllocated = {} /\ \E p \in InFree : InFree = {p}
    BY <2>5, <2>6, <2>7, <2>8
  <2>10. Cardinality(InFree) + Cardinality(InAllocated) = 1
    <3>1. Cardinality({}) = 0
      BY FS_EmptySet
    <3>2. \A p : Cardinality({p}) = 1
      BY FS_Singleton
    <3>3. CASE InFree = {}
      <4>1. PICK p \in InAllocated : InAllocated = {p}
        BY <2>9, <3>3
      <4>2. Cardinality(InFree) = 0 /\ Cardinality(InAllocated) = 1
        BY <3>1, <3>2, <3>3, <4>1, Zenon
      <4> QED BY <4>2
    <3>4. CASE InAllocated = {}
      <4>1. PICK p \in InFree : InFree = {p}
        BY <2>9, <3>4
      <4>2. Cardinality(InAllocated) = 0 /\ Cardinality(InFree) = 1
        BY <3>1, <3>2, <3>4, <4>1, Zenon
      <4> QED BY <4>2
    <3> QED BY <2>9, <3>3, <3>4
  <2> QED BY <2>10 DEF InFree, InAllocated, f, g
<1> QED BY <1>1, SpecKeepsMemory, PTL

\* free leaves no two free blocks of a region side by side.
THEOREM FreeBlocksStayCoalesced == Spec => []FullyCoalesced
<1>1. MemoryInv => FullyCoalesced
  BY DEF MemoryInv, Coalesced, FullyCoalesced
<1> QED BY <1>1, SpecKeepsMemory, PTL

\* The maps by address and by length hold the same blocks, so the assertions
\* on their removals and insertions never fail.
THEOREM MapsStayInAgreement == Spec => []MapsAgree
<1>1. MemoryInv => MapsAgree
  BY AgreeIsMapsAgree DEF MemoryInv
<1> QED BY <1>1, SpecKeepsMemory, PTL

\* The counter of used memory is the sum of the blocks the callers hold, the
\* peak is never below it, and neither exceeds the memory there is: no sequence
\* of allocations and frees makes `used_mem_current -= len` drift or underflow.
THEOREM UsedMemStaysExact == Spec => []UsedMemIsExact
<1>1. Init => MemoryInv /\ CountInv
  BY InitMemory, InitCounts
<1>2. MemoryInv /\ CountInv /\ [Next]_vars => CountInv'
  <2> SUFFICES ASSUME MemoryInv, CountInv, [Next]_vars PROVE CountInv'
    OBVIOUS
  <2>1. ASSUME NEW size \in Sizes, NEW placement \in Placements, Alloc(size, placement)
        PROVE  CountInv'
    BY <2>1, AllocKeepsCount
  <2>2. ASSUME NEW ptr \in DOMAIN allocated, Free(ptr)
        PROVE  CountInv'
    BY <2>2, FreeKeepsCount
  <2>3. CASE ResetUsedMemPeak
    <3>1. /\ used_mem_peak' = used_mem_current
          /\ UNCHANGED <<free_len_by_ptr, used_mem_current, allocated>>
      BY <2>3 DEF ResetUsedMemPeak
    <3>2. used_mem_current \in Int /\ used_mem_peak \in Int /\ SumFunction(Backends) \in Int
      BY SumOfSummable DEF MemoryInv, CountInv
    <3> QED BY <3>1, <3>2 DEF CountInv
  <2>4. CASE UNCHANGED vars
    BY <2>4 DEF vars, CountInv
  <2> QED BY <2>1, <2>2, <2>3, <2>4 DEF Next
<1>3. CountInv => UsedMemIsExact
  BY DEF CountInv, UsedMemIsExact
<1> QED BY <1>1, <1>2, <1>3, SpecKeepsMemory, PTL DEF Spec

=============================================================================
