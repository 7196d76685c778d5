\* The unrolled machine with fewer allocators than the run needs; safety and liveness.
SPECIFICATION FairSpec
CONSTANTS
  r1 = r1
  r2 = r2
  Unified = FALSE
  Types <- UnrolledTypes
  Run <- UnrolledRun
  CyclesPerCircuit <- UnrolledCycles
  TouchedWords = 2
  PartitionSize = 2
  ChunkCapacity = 2
  Allocators = 3
  Replayers <- OneReplayer
  MinFreeAllocators = 2
  Withheld = 2
INVARIANTS
  AssertionsHold
PROPERTY CallReturns
