------------------------------ MODULE StkStore ------------------------------
(***************************************************************************)
(* The two stores every part of the service shares: the MySQL table of STK *)
(* transactions (internal/stk/v1/model.go) and the Redis cache that keeps  *)
(* an initiated request for the callback that will answer it.              *)
(*                                                                         *)
(* A row keeps the columns that control what the service does next; names, *)
(* phone numbers and amounts are data no step branches on.  Identifiers    *)
(* are integers: 0 is SQL NULL, t > 0 the identifier M-Pesa gave to the    *)
(* push of row t, -t the MerchantRequestID of that same push.              *)
(***************************************************************************)
EXTENDS Integers, FiniteSetsExt

CONSTANTS
  MaxTxns,    \* how many rows the table may hold
  Requests,   \* the InitiateSTK requests clients may send
  NoReq,      \* an InitiateSTKRequest that was never filled in
  Faults      \* which faults happen, a subset of FaultKinds

VARIABLES
  rows,       \* the table stk_transactions
  cache       \* Redis: CheckoutRequestID -> the request saved under "stk:<id>"

storeVars == <<rows, cache>>

Ids == 1..MaxTxns

\* A statement on MySQL or a command on Redis reports an error, whether it took
\* effect or not; M-Pesa or MySQL takes more than 15 seconds over a call; a request
\* completed with the configured short code cannot be encoded; the process dies.
FaultKinds == {"db", "redis", "slow", "encode", "crash"}

\* What a statement or a command that reports an error may leave: what was there,
\* or, when only the acknowledgement was lost, what it was to write.
FailedOutcomes(before, after) == {before, after}

RequestType ==
  [complete: BOOLEAN, publish: BOOLEAN, onlyOnSuccess: BOOLEAN, channel: BOOLEAN]

ASSUME StoreAssumption ==
  /\ MaxTxns \in Nat
  /\ Requests \subseteq RequestType
  /\ NoReq \notin Requests
  /\ Faults \subseteq FaultKinds

-----------------------------------------------------------------------------

StkStatus ==
  {"STK_REQUEST_SUBMITED", "STK_REQUEST_FAILED", "STK_REQUEST_SUCCESS",
   "STK_RESULT_SUCCESS", "STK_RESULT_FAILED", "STK_SUCCESS", "STK_FAILED"}

YesNo == {"YES", "NO"}

\* The columns the control depends on.  "absent" marks an unused id.
STKTransaction ==
  [status: StkStatus \cup {"absent"}, checkout: Int, receipt: Int,
   resultCode: {"null", "0", "1"}, succeeded: YesNo, processed: YesNo]

NoRow ==
  [status |-> "absent", checkout |-> 0, receipt |-> 0, resultCode |-> "null",
   succeeded |-> "NO", processed |-> "NO"]

\* Identifiers M-Pesa hands out for the push of row t.
CheckoutId(t) == t
MerchantId(t) == -t
ReceiptId(t)  == t

\* AUTO_INCREMENT: the least id no row has.
IsNextId(t) ==
  /\ rows[t].status = "absent"
  /\ \A u \in Ids : u < t => rows[u].status # "absent"

\* Slip: First without its condition, the row of least id.
FirstRow(c) ==
  LET found == {t \in Ids : rows[t].status # "absent"}
  IN  IF found = {} THEN 0 ELSE Min(found)

\* First(db, "checkout_request_id = ?", c): the matching row of least id, 0 if none.
FirstByCheckout(c) ==
  LET found == {t \in Ids : rows[t].checkout = c}
  IN  IF found = {} THEN 0 ELSE Min(found)

\* The unique index on mpesa_receipt_id: NULLs never collide.
ReceiptTaken(t, receipt) ==
  receipt # 0 /\ \E u \in Ids \ {t} : rows[u].receipt = receipt

\* The 15 minutes a cached request lives have passed.
ExpireRequest(c) ==
  /\ cache[c] # NoReq
  /\ cache' = [cache EXCEPT ![c] = NoReq]
  /\ UNCHANGED rows

StoreInit ==
  /\ rows = [t \in Ids |-> NoRow]
  /\ cache = [c \in Ids |-> NoReq]

StoreTypeOK ==
  /\ rows \in [Ids -> STKTransaction]
  /\ cache \in [Ids -> Requests \cup {NoReq}]
=============================================================================
