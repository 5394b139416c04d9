\* No fault at all: a callback that overtakes its push.
SPECIFICATION Spec
CONSTANTS
  MaxTxns = 1
  MaxDeliveries = 1
  Requests <- OneRequest
  NoReq = NoReq
  Faults = {}
  Handlers = {h1}
PROPERTIES
  UnmatchedCallbackCreates
CHECK_DEADLOCK FALSE
