\* Two pushes at once, two handlers, every fault: results do not cross over.
SPECIFICATION Spec
CONSTANTS
  MaxTxns = 2
  MaxDeliveries = 1
  Requests <- OneRequest
  NoReq = NoReq
  Faults = {"db", "redis", "slow", "encode", "crash"}
  Handlers = {h1, h2}
SYMMETRY HandlerSymmetry
INVARIANTS
  PublishedIsRecorded
PROPERTIES
  ImplementsLedger
CHECK_DEADLOCK FALSE
