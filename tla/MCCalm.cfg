\* Crashes and lost responses only: a final status is final, and only orders change
\* the processed flag.
SPECIFICATION ProcessingSpec
CONSTANTS
  MaxTxns = 1
  MaxDeliveries = 3
  MaxOrders = 2
  MaxReads = 1
  Requests <- AllRequests
  NoReq = NoReq
  Faults = {"crash"}
  Handlers = {h1, h2}
SYMMETRY HandlerSymmetry
INVARIANTS
  ProcessedIsLastOrdered
PROPERTIES
  FinalStatusStays
CHECK_DEADLOCK FALSE
