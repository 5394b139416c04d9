\* Two pushes, the worker with pages of two rows, failing statements and crashes.
SPECIFICATION FairResultsSpec
CONSTANTS
  MaxTxns = 2
  MaxDeliveries = 0
  Limit = 1
  Requests <- OneRequest
  NoReq = NoReq
  Faults = {"db", "crash"}
  Handlers = {h1}
INVARIANTS
  ResultsTypeOK
  QueriesNameNoPush
PROPERTIES
  WorkerIsNoActor
  RoundLeavesOnePage
  
CHECK_DEADLOCK FALSE
