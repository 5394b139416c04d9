\* No fault at all: an order by transaction id.
SPECIFICATION ProcessingSpec
CONSTANTS
  MaxTxns = 1
  MaxDeliveries = 1
  MaxOrders = 1
  MaxReads = 1
  Requests <- OneRequest
  NoReq = NoReq
  Faults = {}
  Handlers = {h1}
PROPERTIES
  ProcessingUpdates
CHECK_DEADLOCK FALSE
