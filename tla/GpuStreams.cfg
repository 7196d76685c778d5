\* Three requests of different circuits through one worker.
SPECIFICATION FairSpec
CONSTANTS
  None = None
  Circuits <- ThreeCircuits
  DeviceBlocks = 7
INVARIANTS
  TypeOK StreamsDoNotRace KernelsFindTheirData SourcesAreHeld JobsHaveResults
PROPERTY EveryRequestIsAnswered
