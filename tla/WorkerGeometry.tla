--------------------------- MODULE WorkerGeometry ---------------------------
(***************************************************************************)
(* How the worker pool splits work into one contiguous chunk per thread:   *)
(* every loop under scope(work_size, ..) hands geometry.len() slices to    *)
(* threads, cut out of the memory by start and size alone.  The last chunk *)
(* takes what the others leave; their size is rounded up to a power of two *)
(* that is near, unless that leaves nothing.                               *)
(***************************************************************************)
EXTENDS Integers, FiniteSetsExt

\* Without an odd divisor.
is_power_of_two(p) == p # 0 /\ \A d \in 2..p : p % d = 0 => d % 2 = 0

\* next_power_of_two, where it is less than 32 away.
Rounded(size) ==
  LET near == {p \in size..(size + 31) : is_power_of_two(p)}
  IN IF near = {} THEN size ELSE Min(near)

Geometry(num_chunks, ordinary_chunk_size, remainder) ==
  [num_chunks |-> num_chunks, ordinary_chunk_size |-> ordinary_chunk_size, remainder |-> remainder]

\* All chunks of one size, and the last takes what is left.
WithLast(num_chunks, size, work_size) ==
  Geometry(num_chunks, size, work_size - (num_chunks - 1) * size)

Split(num_chunks, work_size) ==
  LET floor == work_size \div num_chunks
      rounded == Rounded(floor)
  IN IF work_size % num_chunks = 0
     THEN Geometry(num_chunks, floor, 0)
     ELSE IF (num_chunks - 1) * rounded < work_size
          THEN WithLast(num_chunks, rounded, work_size)
          ELSE IF work_size % (num_chunks - 1) # 0
               THEN WithLast(num_chunks, work_size \div (num_chunks - 1), work_size)
               ELSE WithLast(num_chunks, floor, work_size)

\* The last chunk is made the smallest if possible.
Balanced(geometry, num_cores) ==
  IF /\ geometry.remainder > geometry.ordinary_chunk_size
     /\ geometry.remainder > num_cores - 1
  THEN Geometry(geometry.num_chunks, geometry.ordinary_chunk_size + 1,
                geometry.remainder - (num_cores - 1))
  ELSE geometry

FirstSplit(num_cores, work_size) ==
  Split(IF num_cores <= work_size THEN num_cores ELSE work_size, work_size)

get_geometry_for_num_cores(num_cores, work_size) ==
  IF num_cores = 1
  THEN Geometry(1, work_size, 0)
  ELSE Balanced(FirstSplit(num_cores, work_size), num_cores)

get_chunk_size(geometry, chunk_idx) ==
  IF geometry.remainder # 0 /\ chunk_idx = geometry.num_chunks - 1
  THEN geometry.remainder
  ELSE geometry.ordinary_chunk_size

get_chunk_start_pos(geometry, chunk_idx) == geometry.ordinary_chunk_size * chunk_idx

\* The chunks are not empty, each begins where the one before it ends, and
\* the last ends where the work does.
Covers(geometry, work_size) ==
  LET chunks == 0..(geometry.num_chunks - 1)
      start(i) == get_chunk_start_pos(geometry, i)
      end(i) == start(i) + get_chunk_size(geometry, i)
  IN /\ geometry.num_chunks \in Nat \ {0}
     /\ start(0) = 0
     /\ \A i \in chunks : start(i) < end(i)
     /\ \A i \in chunks : i + 1 \in chunks => start(i + 1) = end(i)
     /\ end(geometry.num_chunks - 1) = work_size
=============================================================================
