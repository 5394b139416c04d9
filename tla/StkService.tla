----------------------------- MODULE StkService -----------------------------
(***************************************************************************)
(* The service: the goroutines InitiateSTK starts and the callback         *)
(* handlers, which share nothing but the database and Redis, and M-Pesa    *)
(* between them.  This module interleaves the components' steps, lets the  *)
(* process die, and states what the two sides promise together.            *)
(***************************************************************************)
EXTENDS StkPush, StkGateway

vars == <<storeVars, mpesaVars, pushVars, gatewayVars>>

Init ==
  /\ StoreInit
  /\ MpesaInit
  /\ PushInit
  /\ GatewayInit

\* The process dies (log.Fatal, a panic outside a handler, a kill) and starts
\* again: goroutines are gone, MySQL and Redis keep what they have.
Crash ==
  /\ "crash" \in Faults
  /\ push' = [t \in Ids |-> IF Live(t) THEN [push[t] EXCEPT !.pc = "dead"] ELSE push[t]]
  /\ handler' = [h \in Handlers |-> IdleHandler]
  /\ UNCHANGED <<storeVars, mpesaVars, published>>

ClientStep ==
  /\ \E t \in Ids, req \in Requests : InitiateSTK(t, req)
  /\ UNCHANGED gatewayVars

ServerPushStep(t) == PushStep(t) /\ UNCHANGED gatewayVars

MpesaStep ==
  /\ \E p \in Ids : AnswerPush(p) \/ AnswerPrompt(p)
  /\ UNCHANGED <<storeVars, pushVars, gatewayVars>>

CallbackStep ==
  /\ \E h \in Handlers, p \in Ids : ReceiveCallback(h, p)
  /\ UNCHANGED pushVars

ServerHandlerStep(h) == HandlerStep(h) /\ UNCHANGED pushVars

CacheExpiry ==
  /\ \E c \in Ids : ExpireRequest(c)
  /\ UNCHANGED <<mpesaVars, pushVars, gatewayVars>>

\* A step of the program, its clients or its stores while the process lives.
Step ==
  \/ ClientStep
  \/ \E t \in Ids : ServerPushStep(t)
  \/ MpesaStep
  \/ CallbackStep
  \/ \E h \in Handlers : ServerHandlerStep(h)
  \/ CacheExpiry

Next == Step \/ Crash

Spec == Init /\ [][Next]_vars

\* The Go scheduler runs every goroutine, and no call in one waits for ever:
\* HTTPClient has a timeout of 30 s.  Clients, customers, M-Pesa, the expiry of
\* a key and the crash owe nothing.
Fairness ==
  /\ \A t \in Ids : WF_vars(ServerPushStep(t))
  /\ \A h \in Handlers : WF_vars(ServerHandlerStep(h))

FairSpec == Spec /\ Fairness

-----------------------------------------------------------------------------

\* Every variable has its type.
TypeOK ==
  /\ StoreTypeOK
  /\ MpesaTypeOK
  /\ PushTypeOK
  /\ GatewayTypeOK

\* The request is cached only after the row can be found by its
\* CheckoutRequestID, and it is the request that row was made for
\* (internal/stk/v1/stk.go:335 before :361): a handler that has a request also
\* finds a row to publish it for.
CachedRequestHasRow ==
  \A t \in Ids : cache[CheckoutId(t)] # NoReq =>
    /\ rows[t].checkout = CheckoutId(t)
    /\ cache[CheckoutId(t)] = push[t].req

\* A handler reads Redis before MySQL and the push writes MySQL before Redis, so
\* a callback no row matches has no request either (cmd/app/stk.go:149, :159):
\* the branch that builds a row never has one to build it from.
UnmatchedCallbackHasNoRequest ==
  \A h \in Handlers :
    handler[h].pc = "recording" /\ handler[h].id = 0 => handler[h].req = NoReq

\* Whatever the order of callbacks, late answers and failures, what a row says of
\* the outcome is what the customer did: the result code and receipt always, and
\* the status and the succeeded flag whenever they claim a final result.
ResultIsMpesas ==
  \A t \in Ids :
    /\ rows[t].resultCode = "0" => mpesa[t] = "paid" /\ rows[t].receipt = ReceiptId(t)
    /\ rows[t].resultCode = "1" => mpesa[t] = "declined" /\ rows[t].receipt = 0
    /\ rows[t].resultCode = "null" => rows[t].receipt = 0
    /\ rows[t].status = "STK_SUCCESS" => rows[t].resultCode = "0"
    /\ rows[t].status = "STK_FAILED" => rows[t].resultCode = "1"
    /\ rows[t].succeeded = "YES" <=> rows[t].status = "STK_SUCCESS"

\* A consumer never hears of a result that is not in the row it names, nor of one
\* the initiator did not ask for, and never gets one transaction's result for
\* another's (cmd/app/stk.go:220-245).
PublishedIsRecorded ==
  \A m \in published :
    /\ m.id = m.push
    /\ rows[m.id].resultCode = IF m.succeeded = "YES" THEN "0" ELSE "1"
    /\ rows[m.id].receipt = m.receipt
    /\ push[m.id].req.publish
    /\ push[m.id].req.onlyOnSuccess => m.succeeded = "YES"

\* Once a callback's result is in a row, no later callback and no late step of
\* the goroutine that sent the push changes the result code or the receipt: the
\* goroutine's Updates leave those columns alone (stk.go:335, :373).
ResultIsFinal ==
  [][\A t \in Ids : rows[t].resultCode # "null" =>
       /\ rows'[t].resultCode = rows[t].resultCode
       /\ rows'[t].receipt = rows[t].receipt]_vars

-----------------------------------------------------------------------------
(* The inductive invariant: what ties a row to the goroutine that made it, to  *)
(* M-Pesa's push of it and to the cache, what a handler may rely on between    *)
(* its steps, and what a message says.                                         *)

RowInv(t) ==
  LET row == rows[t]
      pc  == push[t].pc
  IN  /\ row.status = "absent" <=> pc = "none"
      /\ pc = "none" => row = NoRow
      /\ pc \in {"none", "posting"} => mpesa[t] = "idle"
      /\ pc \in {"none", "posting", "waiting", "saving"} => row.checkout = 0
      /\ pc = "saving" => Accepted(t)
      /\ pc = "caching" => row.checkout = CheckoutId(t)
      /\ pc = "failing" /\ LateFaults \cap Faults = {} => row.checkout = 0
      /\ row.checkout \in {0, CheckoutId(t)}
      /\ row.checkout # 0 => Accepted(t)
      /\ row.status = "STK_REQUEST_SUBMITED" => row.checkout = 0
      /\ row.resultCode # "null" => row.checkout # 0
      /\ cache[CheckoutId(t)] # NoReq =>
           row.checkout # 0 /\ cache[CheckoutId(t)] = push[t].req

HandlerInv(h) ==
  LET me == handler[h]
      p  == me.push
  IN  me.pc # "idle" =>
        /\ p \in Ids
        /\ mpesa[p] = IF me.paid THEN "paid" ELSE "declined"
        /\ me.req # NoReq => rows[p].checkout # 0 /\ me.req = push[p].req
        /\ me.id \in {0, p}
        /\ me.row.receipt \in {0, CallbackReceipt(h)}
        /\ me.id # 0 => rows[p].checkout # 0
        /\ me.pc = "recording" /\ me.id = 0 => me.req = NoReq
        /\ me.pc = "publishing" =>
             /\ me.id = p
             /\ rows[p].resultCode = IF me.paid THEN "0" ELSE "1"
             /\ me.row.succeeded = IF me.paid THEN "YES" ELSE "NO"
             /\ me.row.receipt = CallbackReceipt(h)

IInv ==
  /\ TypeOK
  /\ \A t \in Ids : RowInv(t)
  /\ ResultIsMpesas
  /\ \A h \in Handlers : HandlerInv(h)
  /\ PublishedIsRecorded

-----------------------------------------------------------------------------

Final(status) == status \in {"STK_SUCCESS", "STK_FAILED"}

\* The status a client reads does not keep that promise: it goes back from a
\* final status, and then only to STK_REQUEST_FAILED and only by the goroutine
\* that fails after its row could already be found: in an Updates that was carried
\* out although it reported an error, in Marshal or in Set (stk.go:335, :353, :361,
\* :373).
StatusLostOnlyToLateFailure ==
  [][\A t \in Ids : Final(rows[t].status) /\ ~Final(rows'[t].status) =>
       /\ push[t].pc = "failing"
       /\ rows'[t].status = "STK_REQUEST_FAILED"]_vars

\* When neither store reports an error, none of the goroutine's calls outlasts its
\* context and requests can be encoded, a final status stays: no lost response, late
\* failure of Do, duplicate callback or crash takes it away, since the failures that
\* are left come before the row can be found (stk.go:307-333 before :335).
FinalStatusStays ==
  [][\A t \in Ids : Final(rows[t].status) => rows'[t].status = rows[t].status]_vars

\* Every submitted row learns whether M-Pesa took the push, as long as the
\* database answers and the process lives: no path of the goroutine ends without
\* one of its two Updates (stk.go:302-385).
SubmittedRowSettles ==
  \A t \in Ids : rows[t].status = "STK_REQUEST_SUBMITED"
                   ~> rows[t].status # "STK_REQUEST_SUBMITED"

\* A callback that comes when its row can be found has its result recorded, as
\* long as the database answers and the process lives (cmd/app/stk.go:159-175).
FoundCallbackIsRecorded ==
  \A h \in Handlers, t \in Ids :
    handler[h].pc = "finding" /\ handler[h].push = t /\ rows[t].checkout = CheckoutId(t)
      ~> rows[t].resultCode # "null"

\* The initiator of push t wants to hear of the callback h has just read.
OwesMessage(h, t) ==
  /\ handler[h].pc = "finding"
  /\ handler[h].push = t
  /\ handler[h].req # NoReq
  /\ handler[h].req.publish
  /\ handler[h].req.onlyOnSuccess => handler[h].paid

\* A callback that finds the request in Redis reaches the initiator, when it
\* asked to be told of the result, as long as neither store fails
\* (cmd/app/stk.go:149-245).
ReadRequestIsPublished ==
  \A h \in Handlers, t \in Ids : OwesMessage(h, t) ~> \E m \in published : m.push = t

\* The refinement mapping: the customer's answer is M-Pesa's state of the push,
\* the ledger is the result_code column, the initiators are told what is published.
AnswerOf(t) == IF Answered(t) THEN mpesa[t] ELSE "none"

EntryOf(t) ==
  IF rows[t].status = "absent" THEN "unknown"
  ELSE CASE rows[t].resultCode = "null" -> "open"
         [] rows[t].resultCode = "0"    -> "paid"
         [] rows[t].resultCode = "1"    -> "declined"

ToldBy(m) == <<m.push, IF m.succeeded = "YES" THEN "paid" ELSE "declined">>

Ledger == INSTANCE StkLedger WITH
  Txns   <- Ids,
  answer <- [t \in Ids |-> AnswerOf(t)],
  ledger <- [t \in Ids |-> EntryOf(t)],
  told   <- {ToldBy(m) : m \in published}

\* Every behaviour of the service, with its races, faults and crashes, is one of
\* the ledger: a transaction is settled once, with its own customer's answer, and
\* no initiator is told anything the table does not already say.
ImplementsLedger == Ledger!LedgerSpec

\* What the comment at cmd/app/stk.go:177 says of a callback no row matches:
\* "Create STK transaction".
UnmatchedCallbackCreates ==
  [][\A h \in Handlers :
       handler[h].pc = "recording" /\ handler[h].id = 0 /\ handler'[h].pc # "recording" =>
         \E t \in Ids : rows[t].status = "absent" /\ rows'[t].status # "absent"]_vars
=============================================================================
