\* One caller at a time, reusing its batch id, two devices; liveness.
SPECIFICATION FairSpec
CONSTANTS
  Batches <- OneBatch
  Workers <- TwoWorkers
  MaxRequests = 3
  Exclusive = TRUE
  None = None
PROPERTIES
  BatchReturns
  DropCompletes
  ImplementsFairWorkBatches
