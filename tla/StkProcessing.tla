---------------------------- MODULE StkProcessing ---------------------------
(***************************************************************************)
(* What follows a result: its consumer (external) acts on it and has the   *)
(* transaction marked as processed, over the Redis channel processWorker   *)
(* listens on (internal/stk/v1/worker.go) or by the RPC                    *)
(* ProcessStkTransaction (stk.go), which both end in.  The worker runs one *)
(* goroutine per message, so orders are carried out in any order.  An      *)
(* administrator reads a transaction and publishes the copy it was given   *)
(* (GetStkTransaction, PublishStkTransaction), whatever has become of the  *)
(* row in the meantime.                                                    *)
(***************************************************************************)
EXTENDS StkService

CONSTANTS
  MaxOrders,    \* bound: how many orders consumers give
  MaxReads      \* bound: how many copies the administrator reads

VARIABLES
  orders,       \* the orders being carried out
  asked,        \* how many have been given
  carriedOut,   \* those whose Update MySQL carried out, acknowledged or not
  lastOrder,    \* what the last of them by the row's receipt said
  copy,         \* the administrator's copy of a transaction
  reads,        \* how many it has read
  republished   \* the copies it has published

processingVars == <<orders, asked, carriedOut, lastOrder, copy, reads, republished>>
orderVars == <<orders, asked, carriedOut, lastOrder>>
copyVars == <<copy, reads, republished>>

ASSUME ProcessingAssumption == MaxOrders \in Nat /\ MaxReads \in Nat

\* A ProcessStkTransactionRequest: by transaction id when it is not 0, else by receipt.
Order == [n: 1..MaxOrders, id: Ids \cup {0}, receipt: Int, processed: BOOLEAN]

ByReceipt(o, t) == o.id = 0 /\ o.receipt = ReceiptId(t)

\* Slip: the request's bool written as text.
ProcessedText(o) == IF o.processed THEN "true" ELSE "false"

\* The column value for the request's bool.
ProcessedColumn(o) == IF o.processed THEN "YES" ELSE "NO"

\* Slip: an Update whose Where is lost.
SelectedAll(o) == {t \in Ids : rows[t].status # "absent"}

\* The rows its Where selects.  The variable `key' the id branch compares with is
\* never assigned, and no row has the id 0.
Selected(o) ==
  LET key == 0
  IN  {t \in Ids : /\ rows[t].status # "absent"
                   /\ IF o.id # 0 THEN t = key ELSE rows[t].receipt = o.receipt}

\* What a consumer hears: results the gateway publishes and copies the
\* administrator does.  Both name the transaction and its receipt.
Heard == {[id |-> m.id, receipt |-> m.receipt] : m \in published \cup republished}

\* A consumer that heard of a transaction orders it processed, or not processed
\* after all; what reaches processWorker's goroutine names the receipt only.
GiveOrder(m, o) ==
  /\ asked < MaxOrders
  /\ m \in Heard
  /\ o.n = asked + 1
  /\ \/ o.id = m.id /\ o.receipt = 0
     \/ o.id = 0 /\ o.receipt = m.receipt /\ m.receipt # 0
  /\ orders' = orders \cup {o}
  /\ asked' = asked + 1
  /\ UNCHANGED <<vars, carriedOut, lastOrder, copyVars>>

\* Redis delivers to whoever is subscribed at the moment, and to nobody else; an
\* order may also die of a token that cannot be generated.
LoseOrder(o) ==
  /\ "redis" \in Faults
  /\ o \in orders
  /\ orders' = orders \ {o}
  /\ UNCHANGED <<vars, asked, carriedOut, lastOrder, copyVars>>

\* Update("processed") on the rows selected: no row is no error, and a statement
\* that reports one may have been carried out.
ProcessStkTransaction(o) ==
  /\ o \in orders
  /\ orders' = orders \ {o}
  /\ \/ /\ rows' = [t \in Ids |-> IF t \in Selected(o)
                                    THEN [rows[t] EXCEPT !.processed = ProcessedColumn(o)]
                                    ELSE rows[t]]
        /\ carriedOut' = carriedOut \cup {o}
        /\ lastOrder' = [t \in Ids |-> IF ByReceipt(o, t) THEN ProcessedColumn(o)
                                                        ELSE lastOrder[t]]
     \/ "db" \in Faults /\ UNCHANGED <<rows, carriedOut, lastOrder>>
  /\ UNCHANGED <<cache, mpesaVars, pushVars, gatewayVars, asked, copyVars>>

-----------------------------------------------------------------------------

\* The enum of the API adds the value a status no member has is turned into.
ProtoStatus == StkStatus \cup {"STK_STATUS_UNKNOWN"}

\* A StkTransaction message; the result code of a NULL is blank.
StkTransaction ==
  [id: Ids \cup {0}, status: ProtoStatus, resultCode: {"blank", "0", "1"}, receipt: Int,
   succeeded: BOOLEAN, processed: BOOLEAN]

NoCopy ==
  [id |-> 0, status |-> "STK_STATUS_UNKNOWN", resultCode |-> "blank", receipt |-> 0,
   succeeded |-> FALSE, processed |-> FALSE]

\* Slip: success read off the status, which a pushed row's is too.
ToProtoByStatus(t) ==
  [id |-> t,
   status |-> IF rows[t].status \in StkStatus THEN rows[t].status ELSE "STK_STATUS_UNKNOWN",
   resultCode |-> IF rows[t].resultCode = "null" THEN "blank" ELSE rows[t].resultCode,
   receipt |-> rows[t].receipt,
   succeeded |-> rows[t].status \in {"STK_REQUEST_SUCCESS", "STK_SUCCESS"},
   processed |-> rows[t].processed = "YES"]

\* The message made of a row.
ToProto(t) ==
  [id |-> t,
   status |-> IF rows[t].status \in StkStatus THEN rows[t].status ELSE "STK_STATUS_UNKNOWN",
   resultCode |-> IF rows[t].resultCode = "null" THEN "blank" ELSE rows[t].resultCode,
   receipt |-> rows[t].receipt,
   succeeded |-> rows[t].succeeded = "YES",
   processed |-> rows[t].processed = "YES"]

\* The administrator keeps the copy it is given.
Keep(t) ==
  /\ reads < MaxReads
  /\ copy' = ToProto(t)
  /\ reads' = reads + 1
  /\ UNCHANGED <<vars, orderVars, republished>>

\* First by receipt; the lookup by id compares with the same unassigned key, and
\* NotFound leaves the administrator with what it had.
GetStkTransaction(req) ==
  \E t \in Selected(req) : (\A u \in Selected(req) : t <= u) /\ Keep(t)

\* A page of ListStkTransactions (module StkListing) has the row.
ReadListed(t) == rows[t].status # "absent" /\ Keep(t)

StkProcessedState ==
  {"STK_PROCESS_STATE_UNSPECIFIED", "STK_PROCESSED", "STK_NOT_PROCESSED"}

\* The switch on the state asked for, which looks at the message and not at the row.
PublishedInState(c, state) ==
  /\ state = "STK_PROCESSED" => c.processed
  /\ state = "STK_NOT_PROCESSED" => ~c.processed

\* The RPC.  An empty channel is answered without publishing anything.
PublishStkTransaction(state) ==
  /\ copy # NoCopy
  /\ PublishedInState(copy, state)
  /\ republished' = republished \cup {copy}
  /\ UNCHANGED <<vars, orderVars, copy, reads>>

ServiceStep == Step /\ UNCHANGED processingVars

\* A crash takes the goroutines that carry orders out with it.
ServiceCrash == Crash /\ orders' = {} /\ UNCHANGED <<asked, carriedOut, lastOrder, copyVars>>

ProcessingInit ==
  /\ Init
  /\ orders = {}
  /\ asked = 0
  /\ carriedOut = {}
  /\ lastOrder = [t \in Ids |-> "NO"]
  /\ copy = NoCopy
  /\ reads = 0
  /\ republished = {}

\* What consumers and administrators name a transaction by.
Naming == [id: Ids \cup {0}, receipt: Ids \cup {0}]

ProcessingNext ==
  \/ ServiceStep
  \/ ServiceCrash
  \/ \E m \in Heard, o \in [n: {asked + 1}, id: Ids \cup {0}, receipt: Ids \cup {0},
                             processed: BOOLEAN] : GiveOrder(m, o)
  \/ \E o \in orders : LoseOrder(o)
  \/ \E o \in orders : ProcessStkTransaction(o)
  \/ \E req \in Naming : (req.id # 0 \/ req.receipt # 0) /\ GetStkTransaction(req)
  \/ \E t \in Ids : ReadListed(t)
  \/ \E state \in StkProcessedState : PublishStkTransaction(state)

ProcessingSpec == ProcessingInit /\ [][ProcessingNext]_<<vars, processingVars>>

-----------------------------------------------------------------------------

\* Every variable of this layer has its type.
ProcessingTypeOK ==
  /\ TypeOK
  /\ orders \subseteq Order
  /\ asked \in 0..MaxOrders
  /\ carriedOut \subseteq Order
  /\ lastOrder \in [Ids -> YesNo]
  /\ copy \in StkTransaction
  /\ reads \in 0..MaxReads
  /\ republished \subseteq StkTransaction

\* Only a paid transaction is ever processed, and only because an order by its
\* receipt, the last one carried out, said so: duplicate callbacks and the steps of
\* other pushes never set the flag (stk.go:341, :375, :661, cmd/app/stk.go:164).
ProcessedWasOrdered ==
  \A t \in Ids : rows[t].processed = "YES" =>
    /\ rows[t].resultCode = "0"
    /\ lastOrder[t] = "YES"

\* The processed flag of a row changes in two ways only: an order by its own receipt
\* is carried out and says so, or the goroutine that sent its push fails after the
\* row could be found and writes NO over it (stk.go:373, :661).  Duplicate and late
\* callbacks, crashes and orders for other rows leave it as it is.
FlagFollowsOrders ==
  [][\A t \in Ids : rows'[t].processed # rows[t].processed =>
       \/ \E o \in orders \ orders' :
            ByReceipt(o, t) /\ rows'[t].processed = ProcessedColumn(o)
       \/ push[t].pc = "failing" /\ rows'[t].processed = "NO"]_<<vars, processingVars>>

\* When neither store reports an error, none of the goroutine's calls outlasts its
\* context and requests can be encoded, the second way is closed: the flag is what
\* the last order carried out by receipt made it.
ProcessedIsLastOrdered ==
  \A t \in Ids : rows[t].processed = lastOrder[t]

\* A consumer that names a receipt it has heard of never overtakes the row: the
\* result is in the table before it is published (cmd/app/stk.go:164 before :236),
\* no later step takes the receipt away, and no two rows share it, so the order
\* selects its own transaction and no other (stk.go:661).
OrderFindsItsRow ==
  \A o \in orders : o.id = 0 =>
    \E t \in Ids : Selected(o) = {t} /\ o.receipt = ReceiptId(t)

\* However old the administrator's copy, what it says of an outcome still stands
\* when consumers get it, and it calls processed only what was ordered processed
\* (stk.go:395-423, :705-727): callbacks, late failures and other orders may
\* overtake it without making it false.
CopyStands(c) ==
  /\ c.resultCode # "blank" =>
       rows[c.id].resultCode = c.resultCode /\ rows[c.id].receipt = c.receipt
  /\ c.succeeded => rows[c.id].resultCode = "0"
  /\ c.processed => \E o \in carriedOut : ByReceipt(o, c.id) /\ o.processed

RepublishedStands == \A c \in republished : CopyStands(c)

\* api/proto/stk.v1.proto:83 of ProcessStkTransaction: "Processes stk transaction
\* updating its status", whichever of its two keys the request gives.
ProcessingUpdates ==
  [][\A o \in orders : carriedOut' = carriedOut \cup {o} /\ o.id # 0 /\ o \notin carriedOut =>
       rows'[o.id].processed = ProcessedColumn(o)]_<<vars, processingVars>>
=============================================================================
