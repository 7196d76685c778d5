\* All entry points on the unified machine, two replayers, trimming at almost every step.
SPECIFICATION Spec
CONSTANTS
  r1 = r1
  r2 = r2
  Unified = TRUE
  Types <- UnifiedTypes
  Run <- UnifiedRun
  CyclesPerCircuit <- UnifiedCycles
  TouchedWords = 2
  PartitionSize = 2
  ChunkCapacity = 2
  Allocators = 6
  Replayers <- TwoReplayers
  MinFreeAllocators = 5
  Withheld = 1
SYMMETRY Symmetry
INVARIANTS
  TypeOK AllocatorsConserved TraceChunksConserved SentTracesAreWritten AssertionsHold CallComplete
PROPERTY NoTraceLeavesShared
