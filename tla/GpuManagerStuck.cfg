\* Two callers at the same time: a call of get_result that never returns.
SPECIFICATION DiligentSpec
CONSTANTS
  Batches <- TwoBatches
  Workers <- OneWorker
  MaxRequests = 2
  Exclusive = FALSE
  None = None
PROPERTIES
  BatchReturns
