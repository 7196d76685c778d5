\* A unified run whose last circuit is shorter than the rest of its memory.
SPECIFICATION FairSpec
CONSTANTS
  r1 = r1
  r2 = r2
  Unified = TRUE
  Types <- RaggedTypes
  Run <- RaggedRun
  CyclesPerCircuit <- RaggedCycles
  TouchedWords = 2
  PartitionSize = 3
  ChunkCapacity = 3
  Allocators = 6
  Replayers <- OneReplayer
  MinFreeAllocators = 2
  Withheld = 2
PROPERTY CallReturns
CHECK_DEADLOCK FALSE
