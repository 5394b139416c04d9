----------------------------- MODULE StkGateway -----------------------------
(***************************************************************************)
(* The callback gateway (cmd/app/stk.go): the HTTP handler M-Pesa posts an *)
(* answer to.  It reads the initiated request from Redis, finds the row by *)
(* CheckoutRequestID, writes the answer into it and publishes it to the    *)
(* channel the initiator asked for.  net/http runs each POST in its own    *)
(* goroutine: a handler is one such goroutine, with its local variables.   *)
(***************************************************************************)
EXTENDS Mpesa

CONSTANTS
  Handlers    \* callbacks the server may be handling at one time

VARIABLES
  handler,    \* each handler's step and local variables
  published   \* the messages published to Redis channels so far

gatewayVars == <<handler, published>>

HandlerStates == {"idle", "finding", "recording", "publishing"}

\* push: the push the callback answers; paid: its ResultCode is 0; req: initReq;
\* id, row: the row First found (id 0 when it found none).
IdleHandler ==
  [pc |-> "idle", push |-> 0, paid |-> FALSE, req |-> NoReq, id |-> 0, row |-> NoRow]

Message ==
  [id: Ids, push: Ids, succeeded: YesNo, receipt: Int]

Free(h) == handler' = [handler EXCEPT ![h] = IdleHandler]

\* What the callback carries: the receipt number comes with a payment only.
CallbackReceipt(h) == IF handler[h].paid THEN ReceiptId(handler[h].push) ELSE 0

FirstVal(a, b) == IF a # 0 THEN a ELSE b

\* Slip: success for any ResultCode but 0, as the not-found branch has it.
RecordedInverted(h, row) ==
  [row EXCEPT
    !.resultCode = IF handler[h].paid THEN "0" ELSE "1",
    !.receipt    = FirstVal(CallbackReceipt(h), handler[h].row.receipt),
    !.status     = IF handler[h].paid THEN "STK_SUCCESS" ELSE "STK_FAILED",
    !.succeeded  = IF handler[h].paid THEN "NO" ELSE "YES"]

\* Slip: processed reset with the result, as the not-found branch has it.
RecordedUnprocessed(h, row) ==
  [row EXCEPT
    !.resultCode = IF handler[h].paid THEN "0" ELSE "1",
    !.receipt    = FirstVal(CallbackReceipt(h), handler[h].row.receipt),
    !.status     = IF handler[h].paid THEN "STK_SUCCESS" ELSE "STK_FAILED",
    !.succeeded  = IF handler[h].paid THEN "YES" ELSE "NO",
    !.processed  = "NO"]

\* The columns Updates writes, receipt falling back on the one already read.
Recorded(h, row) ==
  [row EXCEPT
    !.resultCode = IF handler[h].paid THEN "0" ELSE "1",
    !.receipt    = FirstVal(CallbackReceipt(h), handler[h].row.receipt),
    !.status     = IF handler[h].paid THEN "STK_SUCCESS" ELSE "STK_FAILED",
    !.succeeded  = IF handler[h].paid THEN "YES" ELSE "NO"]

\* The row the not-found branch builds: the MerchantRequestID in the
\* CheckoutRequestID column, and success for a ResultCode other than 0.
CreatedRow(h) ==
  [NoRow EXCEPT
    !.checkout   = MerchantId(handler[h].push),
    !.resultCode = IF handler[h].paid THEN "0" ELSE "1",
    !.receipt    = CallbackReceipt(h),
    !.status     = IF handler[h].paid THEN "STK_SUCCESS" ELSE "STK_FAILED",
    !.succeeded  = IF handler[h].paid THEN "NO" ELSE "YES"]

-----------------------------------------------------------------------------

\* Decode and validate the POST, then RedisDB.Get: any error leaves initReq empty.
ReceiveCallback(h, p) ==
  /\ handler[h].pc = "idle"
  /\ PostAnswer(p)
  /\ \E req \in {cache[CheckoutId(p)]} \cup (IF "redis" \in Faults THEN {NoReq} ELSE {}) :
       handler' = [handler EXCEPT ![h] =
         [pc |-> "finding", push |-> p, paid |-> (mpesa[p] = "paid"), req |-> req,
          id |-> 0, row |-> NoRow]]
  /\ UNCHANGED <<storeVars, published>>

\* Slip: First by the callback's other identifier.
FindByMerchantId(h) ==
  /\ handler[h].pc = "finding"
  /\ LET id == FirstByCheckout(MerchantId(handler[h].push))
     IN  handler' = [handler EXCEPT
           ![h].pc = "recording", ![h].id = id,
           ![h].row = IF id = 0 THEN NoRow ELSE rows[id]]
  /\ UNCHANGED <<storeVars, mpesaVars, published>>

\* SQLDB.First by checkout_request_id; an error answers 500.
FindTransaction(h) ==
  /\ handler[h].pc = "finding"
  /\ \/ LET id == FirstByCheckout(CheckoutId(handler[h].push))
        IN  handler' = [handler EXCEPT
              ![h].pc = "recording", ![h].id = id,
              ![h].row = IF id = 0 THEN NoRow ELSE rows[id]]
     \/ "db" \in Faults /\ Free(h)
  /\ UNCHANGED <<storeVars, mpesaVars, published>>

\* Updates on the row found.  The unique receipt index, or a fault, answers 500, and
\* what was recorded under a fault is not published.
RecordResult(h) ==
  LET id       == handler[h].id
      recorded == [rows EXCEPT ![id] = Recorded(h, @)]
      clash    == ReceiptTaken(id, Recorded(h, rows[id]).receipt)
  IN  /\ handler[h].pc = "recording"
      /\ id # 0
      /\ \/ /\ ~clash
            /\ rows' = recorded
            /\ handler' = [handler EXCEPT ![h].pc = "publishing", ![h].row = Recorded(h, @)]
         \/ clash /\ Free(h) /\ UNCHANGED rows
         \/ /\ "db" \in Faults
            /\ Free(h)
            /\ rows' \in FailedOutcomes(rows, IF clash THEN rows ELSE recorded)
      /\ UNCHANGED <<cache, mpesaVars, published>>

\* No row has the CheckoutRequestID.  Building the new row dereferences
\* initReq.PublishMessage: with an empty initReq the handler panics, net/http
\* recovers and nothing is saved; otherwise the row is created.
RecordUnmatched(h) ==
  /\ handler[h].pc = "recording"
  /\ handler[h].id = 0
  /\ IF handler[h].req = NoReq
       THEN Free(h) /\ UNCHANGED rows
       ELSE \E t \in Ids :
              /\ IsNextId(t)
              /\ rows' = [rows EXCEPT ![t] = CreatedRow(h)]
              /\ handler' = [handler EXCEPT
                   ![h].pc = "publishing", ![h].id = t, ![h].row = CreatedRow(h)]
  /\ UNCHANGED <<cache, mpesaVars, published>>

\* Slip: only_on_success forgotten, and its test the wrong way round.
WantsPublishAnyResult(h) ==
  LET req == handler[h].req
  IN  req # NoReq /\ req.publish /\ req.channel

WantsPublishSwapped(h) ==
  LET req == handler[h].req
  IN  /\ req # NoReq
      /\ req.publish
      /\ ~req.onlyOnSuccess => handler[h].row.succeeded = "YES"
      /\ req.channel

\* Whether the row goes to the initiator's channel; PublishStkTransaction, called
\* without a processed state, only turns an empty channel away.
WantsPublish(h) ==
  LET req == handler[h].req
  IN  /\ req # NoReq
      /\ req.publish
      /\ req.onlyOnSuccess => handler[h].row.succeeded = "YES"
      /\ req.channel

\* Publish, then answer 200; a publish that fails is logged and answered 200 too.
PublishResult(h) ==
  /\ handler[h].pc = "publishing"
  /\ \/ published' = IF WantsPublish(h)
                       THEN published \cup
                            {[id |-> handler[h].id, push |-> handler[h].push,
                              succeeded |-> handler[h].row.succeeded,
                              receipt |-> handler[h].row.receipt]}
                       ELSE published
     \/ "redis" \in Faults /\ UNCHANGED published
  /\ Free(h)
  /\ UNCHANGED <<storeVars, mpesaVars>>

HandlerStep(h) ==
  \/ FindTransaction(h)
  \/ RecordResult(h)
  \/ RecordUnmatched(h)
  \/ PublishResult(h)

GatewayInit ==
  /\ handler = [h \in Handlers |-> IdleHandler]
  /\ published = {}

GatewayTypeOK ==
  /\ handler \in [Handlers ->
       [pc: HandlerStates, push: Ids \cup {0}, paid: BOOLEAN,
        req: Requests \cup {NoReq}, id: Ids \cup {0}, row: STKTransaction]]
  /\ published \subseteq Message
=============================================================================
