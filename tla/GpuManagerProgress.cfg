\* Two callers at the same time on one device; what remains live.
SPECIFICATION FairSpec
CONSTANTS
  Batches <- TwoBatches
  Workers <- OneWorker
  MaxRequests = 2
  Exclusive = FALSE
  None = None
PROPERTIES
  ClosedBatchIsAnswered
