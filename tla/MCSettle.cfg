\* Neither store fails and the process lives, though M-Pesa or MySQL may be slow and
\* the goroutine's Set time out: pushes and callbacks get recorded, initiators are told.
SPECIFICATION FairSpec
CONSTANTS
  MaxTxns = 1
  MaxDeliveries = 2
  Requests <- PublishedRequests
  NoReq = NoReq
  Faults = {"slow", "encode"}
  Handlers = {h1, h2}
PROPERTIES
  SubmittedRowSettles
  FoundCallbackIsRecorded
  ReadRequestIsPublished
CHECK_DEADLOCK FALSE
