\* The end of the commitment call against the end of its simulator task.
SPECIFICATION Spec
CONSTANTS
  r1 = r1
  r2 = r2
  Unified = FALSE
  Types <- UnrolledTypes
  Run <- UnrolledRun
  CyclesPerCircuit <- UnrolledCycles
  TouchedWords = 2
  PartitionSize = 2
  ChunkCapacity = 2
  Allocators = 6
  Replayers <- OneReplayer
  MinFreeAllocators = 2
  Withheld = 2
INVARIANT SourceIsReturned
