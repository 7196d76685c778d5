\* Programs of two or three blocks over every class of instruction, stopped at some bounds.
SPECIFICATION Spec
CONSTANTS
  None = None
  Programs <- Programs3
  Images = {3}
  Bounds <- SomeBounds
  MaxAddress = 3
  TRACE_CHUNK_LEN = 2
  MAX_TRACE_CHUNK_LEN = 5
  Rounds = 2
  ReducedRounds = 1
  BoundModulus = 32
  Blocks = {"add", "rom", "load", "follow", "store", "byte", "input", "output", "branch", "skip", "call", "bigint", "blake", "reduced"}
INVARIANTS
  TypeOK ReplayReachesRecorded RowsMatchCounters AccessesGoForward MemoryArgumentBalances CachedHolderIsClean ChunkWithinCapacity BoundIsKept
CHECK_DEADLOCK FALSE
