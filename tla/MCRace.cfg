\* One push, its answer posted twice to two handlers, two orders to mark it
\* processed, every fault.
SPECIFICATION ProcessingSpec
CONSTANTS
  MaxTxns = 1
  MaxDeliveries = 2
  MaxOrders = 2
  MaxReads = 1
  Requests <- AllRequests
  NoReq = NoReq
  Faults = {"db", "redis", "slow", "encode", "crash"}
  Handlers = {h1, h2}
SYMMETRY HandlerSymmetry
INVARIANTS
  IInv
  CachedRequestHasRow
  UnmatchedCallbackHasNoRequest
  ResultIsMpesas
  PublishedIsRecorded
  ProcessingTypeOK
  ProcessedWasOrdered
  OrderFindsItsRow
  RepublishedStands
PROPERTIES
  ResultIsFinal
  StatusLostOnlyToLateFailure
  FlagFollowsOrders
CHECK_DEADLOCK FALSE
