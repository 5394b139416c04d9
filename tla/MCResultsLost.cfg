\* One push whose row a crash has left behind.
SPECIFICATION FairResultsSpec
CONSTANTS
  MaxTxns = 1
  MaxDeliveries = 0
  Limit = 0
  Requests <- OneRequest
  NoReq = NoReq
  Faults = {"crash"}
  Handlers = {h1}
PROPERTIES
  OverdueGetsResult
CHECK_DEADLOCK FALSE
