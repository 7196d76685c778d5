------------------------- MODULE AllocationsTracker -------------------------
(***************************************************************************)
(* The static allocator behind all device and pinned host memory of the    *)
(* GPU prover: InnerStaticAllocator, which rounds lengths up to chunks,    *)
(* over AllocationsTracker, which keeps the free blocks of the memory      *)
(* regions ("backends") in two maps, by address and by length.             *)
(*                                                                         *)
(* Every operation runs under a mutex (or in one thread), so it is one     *)
(* action.  A failed allocation and a zero-length one change nothing.      *)
(***************************************************************************)
EXTENDS Integers, FiniteSets, FiniteSetsExt, Functions

CONSTANTS
  Backends,   \* a function: start address of a region -> its length (ptrs, lens)
  ChunkSize,  \* 1 << log_chunk_size
  Sizes       \* the sizes, in bytes, that callers ask for

Multiples == {k \in Nat : k % ChunkSize = 0}

ASSUME ChunkSizeAssumption == ChunkSize \in Nat \ {0}
ASSUME SizesAssumption == Sizes \subseteq Nat \ {0}
ASSUME BackendsAssumption ==
  /\ IsFiniteSet(DOMAIN Backends) /\ DOMAIN Backends # {}
  /\ Backends \in [DOMAIN Backends -> Nat \ {0}]
  /\ \A r \in DOMAIN Backends : r \in Nat /\ Backends[r] % ChunkSize = 0
  /\ \A r, s \in DOMAIN Backends : r < s => r + Backends[r] <= s

VARIABLES
  free_len_by_ptr,   \* free blocks: address -> length
  free_ptrs_by_len,  \* free blocks: length -> set of addresses
  used_mem_current,
  used_mem_peak,
  allocated          \* blocks the callers hold: address -> alloc_len

vars == <<free_len_by_ptr, free_ptrs_by_len, used_mem_current, used_mem_peak, allocated>>

Placements == {"BestFit", "Bottom", "Top"}

-----------------------------------------------------------------------------
(* The two maps. *)

With(f, key, value) ==
  [k \in DOMAIN f \cup {key} |-> IF k = key THEN value ELSE f[k]]

Without(f, key) == Restrict(f, DOMAIN f \ {key})

\* entry(len).or_default().insert(ptr)
AddToIndex(index, ptr, len) ==
  With(index, len, IF len \in DOMAIN index THEN index[len] \cup {ptr} ELSE {ptr})

\* A slip: the set of a length stays in the map when it becomes empty.
RemoveFromIndexOnly(index, ptr, len) == With(index, len, index[len] \ {ptr})

\* An entry whose set becomes empty is removed.
RemoveFromIndex(index, ptr, len) ==
  IF index[len] = {ptr} THEN Without(index, len) ELSE With(index, len, index[len] \ {ptr})

-----------------------------------------------------------------------------

Init ==
  /\ free_len_by_ptr = Backends
  /\ free_ptrs_by_len =
       [len \in Range(Backends) |-> {r \in DOMAIN Backends : Backends[r] = len}]
  /\ used_mem_current = 0
  /\ used_mem_peak = 0
  /\ allocated = [ptr \in {} |-> 0]

\* A slip: the length is rounded the wrong way.
RoundDown(size) == (size \div ChunkSize) * ChunkSize

\* next_multiple_of(1 << log_chunk_size)
RoundUp(size) == ((size + ChunkSize - 1) \div ChunkSize) * ChunkSize

Fitting(len) == {ptr \in DOMAIN free_len_by_ptr : free_len_by_ptr[ptr] >= len}

\* The free block an allocation is cut from: the lowest of the shortest that
\* fit, the lowest that fits, or the highest that fits.
FreeBlock(len, placement) ==
  CASE placement = "BestFit" ->
         LET shortest == Min({l \in DOMAIN free_ptrs_by_len : l >= len})
         IN  Min(free_ptrs_by_len[shortest])
    [] placement = "Bottom" -> Min(Fitting(len))
    [] placement = "Top" -> Max(Fitting(len))

\* A slip: the caller gets the low end of a block whatever the placement.
LowEnd(ptr, free_len, len, placement) == ptr

\* Top allocations take the high end of the block, the others the low end.
AllocatedEnd(ptr, free_len, len, placement) ==
  IF placement = "Top" THEN ptr + (free_len - len) ELSE ptr

RemainderEnd(ptr, len, placement) == IF placement = "Top" THEN ptr ELSE ptr + len

Alloc(size, placement) ==
  LET len == RoundUp(size)
      ptr == FreeBlock(len, placement)
      free_len == free_len_by_ptr[ptr]
      rest == RemainderEnd(ptr, len, placement)
      others == Without(free_len_by_ptr, ptr)
      index == RemoveFromIndex(free_ptrs_by_len, ptr, free_len)
  IN  /\ Fitting(len) # {}
      /\ IF free_len = len
         THEN free_len_by_ptr' = others /\ free_ptrs_by_len' = index
         ELSE /\ free_len_by_ptr' = With(others, rest, free_len - len)
              /\ free_ptrs_by_len' = AddToIndex(index, rest, free_len - len)
      /\ allocated' = With(allocated, AllocatedEnd(ptr, free_len, len, placement), len)
      /\ used_mem_current' = used_mem_current + len
      /\ used_mem_peak' = Max({used_mem_peak, used_mem_current + len})

\* The region an address lies in.
RegionOf(ptr) == Max({r \in DOMAIN Backends : r <= ptr})

\* A slip: regions are not told apart when blocks are merged.
NextTouching(ptr, len) == {next \in DOMAIN free_len_by_ptr : next = ptr + len}

\* The free block right behind [ptr, ptr + len), or right before it, in the
\* same region: at most one each.
MergeableNext(ptr, len) ==
  {next \in DOMAIN free_len_by_ptr :
     /\ next = ptr + len
     /\ next # RegionOf(ptr) + Backends[RegionOf(ptr)]}

\* A slip: a block is only merged with what lies behind it.
NoPrevious(ptr) == {}

MergeablePrev(ptr) ==
  {prev \in DOMAIN free_len_by_ptr :
     /\ prev < ptr
     /\ prev + free_len_by_ptr[prev] = ptr
     /\ ptr # RegionOf(ptr)}

\* The length of the block, if there is one, and the index without it.
FreeLen(block) == IF block = {} THEN 0 ELSE free_len_by_ptr[Min(block)]
IndexWithout(index, block) ==
  IF block = {} THEN index ELSE RemoveFromIndex(index, Min(block), free_len_by_ptr[Min(block)])

\* The allocation's data names the block; free merges it with its neighbours.
Free(ptr) ==
  LET len == allocated[ptr]
      next == MergeableNext(ptr, len)
      prev == MergeablePrev(ptr)
      merged_ptr == Min(prev \cup {ptr})
      merged_len == len + FreeLen(next) + FreeLen(prev)
      others == Restrict(free_len_by_ptr, DOMAIN free_len_by_ptr \ (next \cup prev))
      index == IndexWithout(IndexWithout(free_ptrs_by_len, next), prev)
  IN  /\ used_mem_current' = used_mem_current - len
      /\ free_len_by_ptr' = With(others, merged_ptr, merged_len)
      /\ free_ptrs_by_len' = AddToIndex(index, merged_ptr, merged_len)
      /\ allocated' = Without(allocated, ptr)
      /\ UNCHANGED used_mem_peak

\* A slip: the peak restarts from nothing while memory is in use.
ResetUsedMemPeakToZero ==
  /\ used_mem_peak' = 0
  /\ UNCHANGED <<free_len_by_ptr, free_ptrs_by_len, used_mem_current, allocated>>

ResetUsedMemPeak ==
  /\ used_mem_peak' = used_mem_current
  /\ UNCHANGED <<free_len_by_ptr, free_ptrs_by_len, used_mem_current, allocated>>

Next ==
  \/ \E size \in Sizes, placement \in Placements : Alloc(size, placement)
  \/ \E ptr \in DOMAIN allocated : Free(ptr)
  \/ ResetUsedMemPeak

Spec == Init /\ [][Next]_vars

-----------------------------------------------------------------------------
(* Properties *)

Blocks(f) == {<<ptr, f[ptr]>> : ptr \in DOMAIN f}

TypeOK ==
  /\ \A block \in Blocks(free_len_by_ptr) \cup Blocks(allocated) :
       block \in Nat \X (Nat \ {0})
  /\ used_mem_current \in Int
  /\ used_mem_peak \in Int

Bytes(ptr, len) == ptr .. (ptr + len - 1)

\* Callers never share a byte, a byte handed out is not free, and no byte of a
\* region is lost, after any sequence of allocations and frees of any placement.
RegionsPartitioned ==
  \A x \in UNION {Bytes(r, Backends[r]) : r \in DOMAIN Backends} :
    Cardinality({ptr \in DOMAIN free_len_by_ptr : x \in Bytes(ptr, free_len_by_ptr[ptr])})
      + Cardinality({ptr \in DOMAIN allocated : x \in Bytes(ptr, allocated[ptr])}) = 1

\* A block, free or allocated, never reaches over the end of its region, even
\* where two regions touch.
WithinRegions ==
  \A block \in Blocks(free_len_by_ptr) \cup Blocks(allocated) :
    \E r \in DOMAIN Backends :
      r <= block[1] /\ block[1] + block[2] <= r + Backends[r]

\* Freeing leaves no two free blocks of a region side by side, so the memory
\* returns to whole regions when everything has been freed: fragmentation never
\* outlives the allocations that caused it.
FullyCoalesced ==
  \A p, q \in DOMAIN free_len_by_ptr :
    p + free_len_by_ptr[p] = q => q \in DOMAIN Backends

\* The map by length holds the same blocks as the map by address and no empty
\* set (pop_first().unwrap(), and the assertions on every remove and insert).
MapsAgree ==
  /\ DOMAIN free_ptrs_by_len = Range(free_len_by_ptr)
  /\ \A len \in DOMAIN free_ptrs_by_len :
       free_ptrs_by_len[len] = {p \in DOMAIN free_len_by_ptr : free_len_by_ptr[p] = len}

\* The counter is the memory the callers hold, the peak bounds it, and neither
\* exceeds the capacity.
UsedMemIsExact ==
  /\ used_mem_current = SumFunction(allocated)
  /\ used_mem_current <= used_mem_peak
  /\ used_mem_peak <= SumFunction(Backends)

=============================================================================
