\* Two callers at the same time, two devices.
SPECIFICATION Spec
CONSTANTS
  Batches <- TwoBatches
  Workers <- TwoWorkers
  MaxRequests = 2
  Exclusive = FALSE
  None = None
INVARIANTS
  TypeOK
  QueueMirrorsPipeline
  InFlightBatchesHaveSenders
  ReusedIdIsFresh
  CleanExit
  RequestsConserved
PROPERTIES
  ImplementsWorkBatches
