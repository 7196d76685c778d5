\* Two regions that touch and one apart, of unequal length.
SPECIFICATION Spec
CONSTANTS
  Backends <- TouchingAndApart
  ChunkSize = 2
  Sizes = {1, 4, 5}
INVARIANTS
  TypeOK
  RegionsPartitioned
  WithinRegions
  FullyCoalesced
  MapsAgree
  UsedMemIsExact
