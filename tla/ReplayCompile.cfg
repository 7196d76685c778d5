\* Programs with an instruction that writes to x0.
SPECIFICATION FairSpec
CONSTANTS
  None = None
  Programs <- ProgramWithNop
  Images = {3}
  Bounds = {None}
  MaxAddress = 3
  TRACE_CHUNK_LEN = 2
  MAX_TRACE_CHUNK_LEN = 5
  Rounds = 2
  ReducedRounds = 1
  BoundModulus = 1024
  Blocks = {"nop"}
PROPERTY CompilationEnds
CHECK_DEADLOCK FALSE
