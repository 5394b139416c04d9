-------------------------- MODULE StkServiceProofs --------------------------
(***************************************************************************)
(* Proofs about StkService, for any number of transactions, handlers and   *)
(* deliveries, any requests and any faults: the inductive invariant IInv,  *)
(* and from it the safety properties and the ledger the service keeps.     *)
(***************************************************************************)
EXTENDS StkService, TLAPS

(* What the definitions of the model give, stated once.                    *)

\* 0, SQL's NULL, is no transaction, and M-Pesa's identifiers are not 0.
LEMMA IdsFacts == Ids \subseteq Int /\ 0 \notin Ids
BY StoreAssumption DEF Ids

\* First by checkout_request_id finds the row of that push, if it has been saved.
LEMMA FirstFinds ==
  ASSUME \A t \in Ids : rows[t].checkout \in {0, CheckoutId(t)},
         NEW p \in Ids
  PROVE  FirstByCheckout(CheckoutId(p)) = IF rows[p].checkout = 0 THEN 0 ELSE p
<1> DEFINE found == {t \in Ids : rows[t].checkout = p}
<1>1. CASE rows[p].checkout = 0
  <2>1. found = {}
    BY <1>1, IdsFacts DEF CheckoutId
  <2> QED BY <1>1, <2>1 DEF FirstByCheckout, CheckoutId
<1>2. CASE rows[p].checkout # 0
  <2>1. found = {p}
    BY <1>2, IdsFacts DEF CheckoutId
  <2>2. Min({p}) = p
    BY IdsFacts DEF Min
  <2>3. {p} # {}
    OBVIOUS
  <2>4. FirstByCheckout(CheckoutId(p)) = IF found = {} THEN 0 ELSE Min(found)
    BY DEF FirstByCheckout, CheckoutId
  <2> HIDE DEF found
  <2> QED BY <1>2, <2>1, <2>2, <2>3, <2>4
<1> QED BY <1>1, <1>2

\* What each Updates does to the columns the control depends on.
LEMMA SavedAnswerFacts ==
  ASSUME NEW row \in STKTransaction, NEW c \in Int
  PROVE  LET new == SavedAnswer(row, c)
         IN  /\ new \in STKTransaction
             /\ new.checkout = c /\ new.status = "STK_REQUEST_SUCCESS" /\ new.succeeded = "NO"
             /\ new.resultCode = row.resultCode /\ new.receipt = row.receipt
BY DEF SavedAnswer, STKTransaction, StkStatus, YesNo

LEMMA SavedFailureFacts ==
  ASSUME NEW row \in STKTransaction
  PROVE  LET new == SavedFailure(row)
         IN  /\ new \in STKTransaction
             /\ new.status = "STK_REQUEST_FAILED" /\ new.succeeded = "NO"
             /\ new.checkout = row.checkout
             /\ new.resultCode = row.resultCode /\ new.receipt = row.receipt
BY DEF SavedFailure, STKTransaction, StkStatus, YesNo

\* A goroutine that moves on keeps its request, and no other moves.
LEMMA GotoFacts ==
  ASSUME PushTypeOK, NEW t \in Ids, NEW pc \in PushStates, Goto(t, pc)
  PROVE  /\ PushTypeOK'
         /\ push'[t].pc = pc /\ push'[t].req = push[t].req
         /\ \A u \in Ids : push'[u].req = push[u].req
         /\ \A u \in Ids \ {t} : push'[u] = push[u]
BY DEF PushTypeOK, PushStates, Goto

-----------------------------------------------------------------------------

\* The initial state satisfies the inductive invariant.
LEMMA InitIInv == Init => IInv
<1> SUFFICES ASSUME Init PROVE IInv
  OBVIOUS
<1> USE DEF Init, StoreInit, MpesaInit, PushInit, GatewayInit
<1>1. NoRow \in STKTransaction /\ NoRow.status = "absent" /\ NoRow.checkout = 0
      /\ NoRow.resultCode = "null" /\ NoRow.receipt = 0 /\ NoRow.succeeded = "NO"
  BY DEF NoRow, STKTransaction, StkStatus, YesNo
<1>2. TypeOK
  <2>1. StoreTypeOK
    BY <1>1 DEF StoreTypeOK
  <2>2. MpesaTypeOK
    BY DeliveriesAssumption DEF MpesaTypeOK, MpesaStates
  <2>3. PushTypeOK
    BY DEF PushTypeOK, PushStates
  <2>4. GatewayTypeOK
    BY <1>1 DEF GatewayTypeOK, HandlerStates, IdleHandler
  <2> QED BY <2>1, <2>2, <2>3, <2>4 DEF TypeOK
<1>3. \A t \in Ids : RowInv(t)
  BY <1>1 DEF RowInv, CheckoutId
<1>4. ResultIsMpesas
  BY <1>1 DEF ResultIsMpesas
<1>5. \A h \in Handlers : HandlerInv(h)
  BY DEF HandlerInv, IdleHandler
<1>6. PublishedIsRecorded
  BY DEF PublishedIsRecorded
<1> QED BY <1>2, <1>3, <1>4, <1>5, <1>6 DEF IInv

-----------------------------------------------------------------------------
(* One lemma per action: each keeps the inductive invariant.               *)

\* The new row is one no handler, message or cache entry names yet.
LEMMA InitiateSTKKeeps ==
  ASSUME IInv, NEW t \in Ids, NEW req \in Requests,
         InitiateSTK(t, req), UNCHANGED gatewayVars
  PROVE  IInv'
<1> USE DEF InitiateSTK, IsNextId, gatewayVars, mpesaVars
<1>1. /\ SubmittedRow \in STKTransaction
      /\ SubmittedRow.status = "STK_REQUEST_SUBMITED"
      /\ SubmittedRow.checkout = 0 /\ SubmittedRow.resultCode = "null"
      /\ SubmittedRow.receipt = 0 /\ SubmittedRow.succeeded = "NO"
  BY DEF SubmittedRow, NoRow, STKTransaction, StkStatus, YesNo
<1>2. rows[t] = NoRow /\ rows[t].checkout = 0 /\ mpesa[t] = "idle" /\ cache[t] = NoReq
  BY DEF IInv, RowInv, NoRow, CheckoutId
<1>3. TypeOK'
  BY <1>1 DEF IInv, TypeOK, StoreTypeOK, MpesaTypeOK, PushTypeOK, PushStates, GatewayTypeOK
<1>4. ASSUME NEW u \in Ids PROVE RowInv(u)'
  BY <1>1, <1>2 DEF IInv, TypeOK, StoreTypeOK, PushTypeOK, RowInv, CheckoutId, Accepted
<1>5. ResultIsMpesas'
  BY <1>1, <1>2 DEF IInv, TypeOK, StoreTypeOK, ResultIsMpesas
<1>6. ASSUME NEW h \in Handlers PROVE HandlerInv(h)'
  BY <1>1, <1>2 DEF IInv, TypeOK, StoreTypeOK, PushTypeOK, HandlerInv, CallbackReceipt
<1>7. PublishedIsRecorded'
  BY <1>1, <1>2 DEF IInv, TypeOK, StoreTypeOK, PushTypeOK, GatewayTypeOK, Message,
                    PublishedIsRecorded, NoRow
<1> QED BY <1>3, <1>4, <1>5, <1>6, <1>7 DEF IInv

\* The push goes out for a row nothing has been recorded in.
LEMMA PostPushKeeps ==
  ASSUME IInv, NEW t \in Ids, PostPush(t), UNCHANGED gatewayVars
  PROVE  IInv'
<1> USE DEF PostPush, gatewayVars, storeVars
<1>1. rows[t].checkout = 0 /\ mpesa[t] = "idle" /\ rows[t].resultCode = "null"
  BY DEF IInv, RowInv
<1>2. /\ PushTypeOK'
      /\ push'[t].pc = "waiting" /\ push'[t].req = push[t].req
      /\ \A u \in Ids : push'[u].req = push[u].req
      /\ \A u \in Ids \ {t} : push'[u] = push[u]
  BY GotoFacts DEF IInv, TypeOK, PushStates
<1>3. TypeOK'
  BY <1>2 DEF IInv, TypeOK, StoreTypeOK, MpesaTypeOK, MpesaStates, GatewayTypeOK
<1>4. ASSUME NEW u \in Ids PROVE RowInv(u)'
  BY <1>1, <1>2 DEF IInv, TypeOK, MpesaTypeOK, RowInv, CheckoutId, Accepted
<1>5. ResultIsMpesas'
  BY <1>1 DEF IInv, TypeOK, MpesaTypeOK, ResultIsMpesas
<1>6. ASSUME NEW h \in Handlers PROVE HandlerInv(h)'
  BY <1>1, <1>2 DEF IInv, TypeOK, MpesaTypeOK, HandlerInv, CallbackReceipt
<1>7. PublishedIsRecorded'
  BY <1>2 DEF IInv, TypeOK, GatewayTypeOK, Message, PublishedIsRecorded
<1> QED BY <1>3, <1>4, <1>5, <1>6, <1>7 DEF IInv

\* A goroutine that only moves on keeps what its row says of it.
LEMMA MovingKeeps ==
  ASSUME IInv, NEW t \in Ids,
         PushAnswered(t) \/ PushFails(t),
         UNCHANGED gatewayVars
  PROVE  IInv'
<1> USE DEF gatewayVars, storeVars, mpesaVars
<1>1. /\ push[t].pc \in {"posting", "waiting"}
      /\ UNCHANGED <<storeVars, mpesaVars>>
      /\ \E pc \in {"saving", "failing"} : Goto(t, pc) /\ (pc = "saving" => Accepted(t))
  BY DEF PushAnswered, PushFails
<1>2. PICK pc \in {"saving", "failing"} : Goto(t, pc) /\ (pc = "saving" => Accepted(t))
  BY <1>1
<1>3. /\ PushTypeOK'
      /\ push'[t].pc = pc /\ push'[t].req = push[t].req
      /\ \A u \in Ids : push'[u].req = push[u].req
      /\ \A u \in Ids \ {t} : push'[u] = push[u]
  BY <1>2, GotoFacts DEF IInv, TypeOK, PushStates
<1>4. TypeOK'
  BY <1>1, <1>3 DEF IInv, TypeOK, StoreTypeOK, MpesaTypeOK, GatewayTypeOK
<1>5. ASSUME NEW u \in Ids PROVE RowInv(u)'
  BY <1>1, <1>2, <1>3 DEF IInv, RowInv, CheckoutId, Accepted
<1>6. ResultIsMpesas'
  BY <1>1 DEF IInv, ResultIsMpesas
<1>7. ASSUME NEW h \in Handlers PROVE HandlerInv(h)'
  BY <1>1, <1>3 DEF IInv, TypeOK, HandlerInv, CallbackReceipt
<1>8. PublishedIsRecorded'
  BY <1>1, <1>3 DEF IInv, TypeOK, GatewayTypeOK, Message, PublishedIsRecorded
<1> QED BY <1>4, <1>5, <1>6, <1>7, <1>8 DEF IInv

\* Updates that touch neither the result code nor the receipt of a row, and say
\* that it did not succeed, keep everything handlers and messages rely on.
LEMMA UpdateKeeps ==
  ASSUME IInv, NEW t \in Ids, NEW new \in STKTransaction,
         NEW pc \in {"caching", "failing", "done"},
         rows' = [rows EXCEPT ![t] = new], Goto(t, pc),
         UNCHANGED <<cache, mpesaVars, gatewayVars>>,
         push[t].pc \in {"saving", "failing"},
         new.status \in {"STK_REQUEST_SUCCESS", "STK_REQUEST_FAILED"}, new.succeeded = "NO",
         new.resultCode = rows[t].resultCode, new.receipt = rows[t].receipt,
         new.checkout # rows[t].checkout =>
           new.checkout = CheckoutId(t) /\ rows[t].checkout = 0 /\ Accepted(t),
         pc = "caching" => new.checkout = CheckoutId(t),
         pc = "failing" => LateFaults \cap Faults # {}
  PROVE  IInv'
<1> USE DEF gatewayVars, mpesaVars
<1>1. rows'[t] = new /\ \A u \in Ids \ {t} : rows'[u] = rows[u]
  BY DEF IInv, TypeOK, StoreTypeOK
<1>2. /\ PushTypeOK'
      /\ push'[t].pc = pc /\ push'[t].req = push[t].req
      /\ \A u \in Ids : push'[u].req = push[u].req
      /\ \A u \in Ids \ {t} : push'[u] = push[u]
  BY GotoFacts DEF IInv, TypeOK, PushStates
<1>3. TypeOK'
  BY <1>2 DEF IInv, TypeOK, StoreTypeOK, MpesaTypeOK, GatewayTypeOK
<1>4. ASSUME NEW u \in Ids PROVE RowInv(u)'
  BY <1>1, <1>2, IdsFacts DEF IInv, RowInv, CheckoutId, Accepted
<1>5. ResultIsMpesas'
  BY <1>1 DEF IInv, ResultIsMpesas
<1>6. ASSUME NEW h \in Handlers PROVE HandlerInv(h)'
  BY <1>1, <1>2, IdsFacts DEF IInv, HandlerInv, CallbackReceipt, CheckoutId
<1>7. PublishedIsRecorded'
  BY <1>1, <1>2 DEF IInv, TypeOK, GatewayTypeOK, Message, PublishedIsRecorded
<1> QED BY <1>3, <1>4, <1>5, <1>6, <1>7 DEF IInv

\* A goroutine that goes to its failure branch with nothing updated.
LEMMA FailingKeeps ==
  ASSUME IInv, NEW t \in Ids, NEW pc \in {"failing", "done"}, Goto(t, pc),
         push[t].pc \in {"saving", "failing"},
         UNCHANGED <<storeVars, mpesaVars, gatewayVars>>
  PROVE  IInv'
<1> USE DEF gatewayVars, mpesaVars, storeVars
<1>1. /\ PushTypeOK'
      /\ push'[t].pc = pc /\ push'[t].req = push[t].req
      /\ \A u \in Ids : push'[u].req = push[u].req
      /\ \A u \in Ids \ {t} : push'[u] = push[u]
  BY GotoFacts DEF IInv, TypeOK, PushStates
<1>2. TypeOK'
  BY <1>1 DEF IInv, TypeOK, StoreTypeOK, MpesaTypeOK, GatewayTypeOK
<1>3. ASSUME NEW u \in Ids PROVE RowInv(u)'
  BY <1>1 DEF IInv, RowInv, CheckoutId, Accepted
<1>4. ResultIsMpesas'
  BY DEF IInv, ResultIsMpesas
<1>5. ASSUME NEW h \in Handlers PROVE HandlerInv(h)'
  BY <1>1 DEF IInv, HandlerInv, CallbackReceipt
<1>6. PublishedIsRecorded'
  BY <1>1 DEF IInv, TypeOK, GatewayTypeOK, Message, PublishedIsRecorded
<1> QED BY <1>2, <1>3, <1>4, <1>5, <1>6 DEF IInv

\* What the goroutine's two updates may do to the rows.
LEMMA SaveAnswerOutcomes ==
  ASSUME NEW t \in Ids, SaveAnswer(t)
  PROVE  /\ push[t].pc = "saving"
         /\ UNCHANGED <<cache, mpesaVars>>
         /\ \/ /\ rows' = [rows EXCEPT ![t] = SavedAnswer(rows[t], CheckoutId(t))]
               /\ \E pc \in {"caching", "failing"} :
                    Goto(t, pc) /\ (pc = "failing" => LateFaults \cap Faults # {})
            \/ UNCHANGED rows /\ Goto(t, "failing")
BY DEF SaveAnswer, FailedOutcomes, LateFaults

LEMMA MarkFailedOutcomes ==
  ASSUME NEW t \in Ids, MarkFailed(t)
  PROVE  /\ push[t].pc = "failing"
         /\ UNCHANGED <<cache, mpesaVars>>
         /\ Goto(t, "done")
         /\ rows' = [rows EXCEPT ![t] = SavedFailure(rows[t])] \/ UNCHANGED rows
BY DEF MarkFailed, FailedOutcomes

\* The row gets its CheckoutRequestID before any callback can have found it.
LEMMA SaveAnswerKeeps ==
  ASSUME IInv, NEW t \in Ids, SaveAnswer(t), UNCHANGED gatewayVars
  PROVE  IInv'
<1>1. push[t].pc = "saving" /\ rows[t].checkout = 0 /\ Accepted(t)
  BY DEF IInv, RowInv, SaveAnswer
<1>2. ASSUME rows' = [rows EXCEPT ![t] = SavedAnswer(rows[t], CheckoutId(t))],
             NEW pc \in {"caching", "failing"}, Goto(t, pc),
             pc = "failing" => LateFaults \cap Faults # {}
      PROVE  IInv'
  <2>1. rows[t] \in STKTransaction /\ CheckoutId(t) \in Int
    BY IdsFacts DEF IInv, TypeOK, StoreTypeOK, CheckoutId
  <2>2. UNCHANGED <<cache, mpesaVars, gatewayVars>>
    BY SaveAnswerOutcomes
  <2> QED BY <1>1, <1>2, <2>1, <2>2, SavedAnswerFacts, UpdateKeeps
<1>3. CASE Goto(t, "failing") /\ UNCHANGED rows
  BY <1>1, <1>3, SaveAnswerOutcomes, FailingKeeps DEF storeVars
<1> QED BY <1>2, <1>3, SaveAnswerOutcomes

\* The failure branch leaves the identifiers, the result code and the receipt alone.
LEMMA MarkFailedKeeps ==
  ASSUME IInv, NEW t \in Ids, MarkFailed(t), UNCHANGED gatewayVars
  PROVE  IInv'
<1>1. push[t].pc = "failing" /\ Goto(t, "done") /\ UNCHANGED <<cache, mpesaVars, gatewayVars>>
  BY MarkFailedOutcomes
<1>2. CASE rows' = [rows EXCEPT ![t] = SavedFailure(rows[t])]
  <2>1. rows[t] \in STKTransaction
    BY DEF IInv, TypeOK, StoreTypeOK
  <2> QED BY <1>1, <1>2, <2>1, SavedFailureFacts, UpdateKeeps
<1>3. CASE UNCHANGED rows
  BY <1>1, <1>3, FailingKeeps DEF storeVars
<1> QED BY <1>2, <1>3, MarkFailedOutcomes

\* What is cached is the goroutine's own request, and its row is already saved.
LEMMA CacheRequestKeeps ==
  ASSUME IInv, NEW t \in Ids, CacheRequest(t), UNCHANGED gatewayVars
  PROVE  IInv'
<1> USE DEF gatewayVars, mpesaVars
<1>1. rows[t].checkout = t /\ push[t].pc = "caching"
  BY DEF IInv, RowInv, CacheRequest, CheckoutId
<1>2. PICK pc \in {"done", "failing"} :
        Goto(t, pc) /\ (pc = "failing" => LateFaults \cap Faults # {})
  BY DEF CacheRequest, LateFaults
<1>3. /\ PushTypeOK'
      /\ push'[t].pc = pc /\ push'[t].req = push[t].req
      /\ \A u \in Ids : push'[u].req = push[u].req
      /\ \A u \in Ids \ {t} : push'[u] = push[u]
  BY <1>2, GotoFacts DEF IInv, TypeOK, PushStates
<1>4. push[t].req \in Requests \cup {NoReq}
  BY DEF IInv, TypeOK, PushTypeOK
<1>5. cache' \in {cache, [cache EXCEPT ![t] = push[t].req]} /\ UNCHANGED <<rows, mpesaVars>>
  BY DEF CacheRequest, FailedOutcomes, CheckoutId
<1>6. TypeOK'
  BY <1>3, <1>4, <1>5 DEF IInv, TypeOK, StoreTypeOK, MpesaTypeOK, GatewayTypeOK
<1>7. ASSUME NEW u \in Ids PROVE RowInv(u)'
  BY <1>1, <1>2, <1>3, <1>5, IdsFacts DEF IInv, TypeOK, StoreTypeOK, RowInv, CheckoutId, Accepted
<1>8. ResultIsMpesas'
  BY <1>5 DEF IInv, ResultIsMpesas
<1>9. ASSUME NEW h \in Handlers PROVE HandlerInv(h)'
  BY <1>3, <1>5 DEF IInv, HandlerInv, CallbackReceipt
<1>10. PublishedIsRecorded'
  BY <1>3, <1>5 DEF IInv, TypeOK, GatewayTypeOK, Message, PublishedIsRecorded
<1> QED BY <1>6, <1>7, <1>8, <1>9, <1>10 DEF IInv

\* M-Pesa answers a push, or a customer answers M-Pesa: before the answer there is
\* no result, no handler and no message about the push.
LEMMA MpesaKeeps ==
  ASSUME IInv, NEW p \in Ids, AnswerPush(p) \/ AnswerPrompt(p),
         UNCHANGED <<storeVars, pushVars, gatewayVars>>
  PROVE  IInv'
<1> USE DEF storeVars, pushVars, gatewayVars
<1>1. PICK s \in {"accepted", "refused", "paid", "declined"} :
        /\ mpesa' = [mpesa EXCEPT ![p] = s]
        /\ mpesa[p] \in {"requested", "accepted"}
        /\ mpesa[p] = "accepted" => s \in {"paid", "declined"}
  BY DEF AnswerPush, AnswerPrompt
<1>2. UNCHANGED deliveries
  BY DEF AnswerPush, AnswerPrompt
<1>3. TypeOK'
  BY <1>1, <1>2 DEF IInv, TypeOK, StoreTypeOK, MpesaTypeOK, MpesaStates, PushTypeOK, GatewayTypeOK
<1>4. ASSUME NEW u \in Ids PROVE RowInv(u)'
  BY <1>1 DEF IInv, TypeOK, MpesaTypeOK, RowInv, Accepted, CheckoutId
<1>5. ResultIsMpesas'
  BY <1>1 DEF IInv, TypeOK, MpesaTypeOK, ResultIsMpesas
<1>6. ASSUME NEW h \in Handlers PROVE HandlerInv(h)'
  BY <1>1 DEF IInv, TypeOK, MpesaTypeOK, HandlerInv, CallbackReceipt
<1>7. PublishedIsRecorded'
  BY DEF IInv, PublishedIsRecorded
<1> QED BY <1>3, <1>4, <1>5, <1>6, <1>7 DEF IInv

\* A cached request expires.
LEMMA ExpiryKeeps ==
  ASSUME IInv, NEW c \in Ids, ExpireRequest(c),
         UNCHANGED <<mpesaVars, pushVars, gatewayVars>>
  PROVE  IInv'
<1> USE DEF ExpireRequest, mpesaVars, pushVars, gatewayVars
<1>1. TypeOK'
  BY DEF IInv, TypeOK, StoreTypeOK, MpesaTypeOK, PushTypeOK, GatewayTypeOK
<1>2. ASSUME NEW u \in Ids PROVE RowInv(u)'
  BY DEF IInv, TypeOK, StoreTypeOK, RowInv, Accepted, CheckoutId
<1>3. ResultIsMpesas'
  BY DEF IInv, ResultIsMpesas
<1>4. ASSUME NEW h \in Handlers PROVE HandlerInv(h)'
  BY DEF IInv, HandlerInv, CallbackReceipt
<1>5. PublishedIsRecorded'
  BY DEF IInv, PublishedIsRecorded
<1> QED BY <1>1, <1>2, <1>3, <1>4, <1>5 DEF IInv

\* A step of handler h that leaves stores, M-Pesa, pushes and messages alone has
\* only to keep what that handler relies on.
LEMMA HandlerMoveKeeps ==
  ASSUME IInv, NEW h \in Handlers,
         NEW me \in [pc: HandlerStates, push: Ids \cup {0}, paid: BOOLEAN,
                     req: Requests \cup {NoReq}, id: Ids \cup {0}, row: STKTransaction],
         handler' = [handler EXCEPT ![h] = me],
         deliveries' \in [Ids -> 0..MaxDeliveries],
         UNCHANGED <<storeVars, mpesa, pushVars, published>>,
         HandlerInv(h)'
  PROVE  IInv'
<1> USE DEF storeVars, pushVars
<1>1. TypeOK'
  BY DEF IInv, TypeOK, StoreTypeOK, MpesaTypeOK, PushTypeOK, GatewayTypeOK
<1>2. ASSUME NEW u \in Ids PROVE RowInv(u)'
  BY DEF IInv, RowInv, Accepted, CheckoutId
<1>3. ResultIsMpesas'
  BY DEF IInv, ResultIsMpesas
<1>4. ASSUME NEW g \in Handlers, g # h PROVE HandlerInv(g)'
  BY <1>4 DEF IInv, TypeOK, GatewayTypeOK, HandlerInv, CallbackReceipt
<1>5. PublishedIsRecorded'
  BY DEF IInv, PublishedIsRecorded
<1> QED BY <1>1, <1>2, <1>3, <1>4, <1>5 DEF IInv

\* The idle handler relies on nothing.
LEMMA IdleFacts ==
  IdleHandler \in [pc: HandlerStates, push: Ids \cup {0}, paid: BOOLEAN,
                   req: Requests \cup {NoReq}, id: Ids \cup {0}, row: STKTransaction]
BY DEF IdleHandler, HandlerStates, STKTransaction, NoRow, StkStatus, YesNo

LEMMA FreeKeeps ==
  ASSUME IInv, NEW h \in Handlers, Free(h),
         UNCHANGED <<storeVars, mpesaVars, pushVars, published>>
  PROVE  IInv'
<1>1. handler' = [handler EXCEPT ![h] = IdleHandler]
  BY DEF Free
<1>2. handler'[h].pc = "idle"
  BY <1>1 DEF IInv, TypeOK, GatewayTypeOK, IdleHandler
<1>3. HandlerInv(h)'
  BY <1>2 DEF HandlerInv
<1>4. deliveries' \in [Ids -> 0..MaxDeliveries]
  BY DEF IInv, TypeOK, MpesaTypeOK, mpesaVars
<1> QED BY <1>1, <1>3, <1>4, IdleFacts, HandlerMoveKeeps DEF mpesaVars

\* The request read from Redis is that of the push the callback answers, and its
\* row is saved.
LEMMA ReceiveCallbackKeeps ==
  ASSUME IInv, NEW h \in Handlers, NEW p \in Ids, ReceiveCallback(h, p), UNCHANGED pushVars
  PROVE  IInv'
<1>1. PICK req \in {cache[p]} \cup (IF "redis" \in Faults THEN {NoReq} ELSE {}) :
        handler' = [handler EXCEPT ![h] =
          [pc |-> "finding", push |-> p, paid |-> (mpesa[p] = "paid"), req |-> req,
           id |-> 0, row |-> NoRow]]
  BY DEF ReceiveCallback, CheckoutId
<1> DEFINE me == [pc |-> "finding", push |-> p, paid |-> (mpesa[p] = "paid"), req |-> req,
                  id |-> 0, row |-> NoRow]
<1>2. req \in Requests \cup {NoReq} /\ (req # NoReq => rows[p].checkout # 0 /\ req = push[p].req)
  BY <1>1 DEF IInv, TypeOK, StoreTypeOK, RowInv, CheckoutId
<1>3. /\ me \in [pc: HandlerStates, push: Ids \cup {0}, paid: BOOLEAN,
                 req: Requests \cup {NoReq}, id: Ids \cup {0}, row: STKTransaction]
      /\ me.pc = "finding" /\ me.push = p /\ me.paid = (mpesa[p] = "paid") /\ me.req = req
      /\ me.id = 0 /\ me.row.receipt = 0
  <2>1. NoRow \in STKTransaction /\ NoRow.receipt = 0
    BY DEF STKTransaction, NoRow, StkStatus, YesNo
  <2> QED BY <1>2, <2>1 DEF HandlerStates
<1>4. deliveries' \in [Ids -> 0..MaxDeliveries]
  BY DeliveriesAssumption DEF IInv, TypeOK, MpesaTypeOK, ReceiveCallback, PostAnswer
<1>5. UNCHANGED <<storeVars, mpesa, published>> /\ mpesa[p] \in {"paid", "declined"}
  BY DEF ReceiveCallback, PostAnswer, Answered
<1> HIDE DEF me
<1>6. handler' = [handler EXCEPT ![h] = me] /\ handler'[h] = me
  BY <1>1 DEF me, IInv, TypeOK, GatewayTypeOK
<1>7. HandlerInv(h)'
  BY <1>2, <1>3, <1>5, <1>6 DEF HandlerInv, CallbackReceipt, storeVars, pushVars
<1> QED BY <1>3, <1>4, <1>5, <1>6, <1>7, HandlerMoveKeeps

\* First finds the row of the push the callback answers, or the push has not been
\* saved, and then its request cannot have been read.
LEMMA FindTransactionKeeps ==
  ASSUME IInv, NEW h \in Handlers, FindTransaction(h), UNCHANGED pushVars
  PROVE  IInv'
<1> DEFINE p  == handler[h].push
           id == FirstByCheckout(CheckoutId(p))
           row == IF id = 0 THEN NoRow ELSE rows[id]
           me == [handler[h] EXCEPT !.pc = "recording", !.id = id, !.row = row]
<1>1. CASE Free(h)
  BY <1>1, FreeKeeps DEF FindTransaction
<1>2. CASE handler' = [handler EXCEPT ![h].pc = "recording", ![h].id = id, ![h].row = row]
  <2>1. /\ handler[h].pc = "finding" /\ p \in Ids
        /\ handler[h] \in [pc: HandlerStates, push: Ids \cup {0}, paid: BOOLEAN,
                           req: Requests \cup {NoReq}, id: Ids \cup {0}, row: STKTransaction]
    BY DEF IInv, TypeOK, GatewayTypeOK, FindTransaction, HandlerInv
  <2>2. id = IF rows[p].checkout = 0 THEN 0 ELSE p
    BY <2>1, FirstFinds DEF IInv, RowInv
  <2>3. row \in STKTransaction
    BY <2>1, <2>2, IdleFacts DEF IInv, TypeOK, StoreTypeOK, NoRow, STKTransaction, StkStatus, YesNo
  <2>4. row.receipt \in {0, CallbackReceipt(h)}
    <3>1. NoRow.receipt = 0
      BY DEF NoRow
    <3>2. rows[p].receipt \in {0, CallbackReceipt(h)}
      <4>1. mpesa[p] = IF handler[h].paid THEN "paid" ELSE "declined"
        BY <2>1 DEF IInv, HandlerInv
      <4>2. rows[p].resultCode \in {"null", "0", "1"}
        BY <2>1 DEF IInv, TypeOK, StoreTypeOK, STKTransaction
      <4> QED BY <2>1, <4>1, <4>2 DEF IInv, ResultIsMpesas, CallbackReceipt
    <3> QED BY <2>1, <2>2, <3>1, <3>2
  <2>5. id \in {0, p} /\ (id # 0 => rows[p].checkout # 0) /\ (id = 0 => handler[h].req = NoReq)
    BY <2>1, <2>2, IdsFacts DEF IInv, HandlerInv
  <2> HIDE DEF id, row
  <2>6. /\ me \in [pc: HandlerStates, push: Ids \cup {0}, paid: BOOLEAN,
                   req: Requests \cup {NoReq}, id: Ids \cup {0}, row: STKTransaction]
        /\ me.pc = "recording" /\ me.id = id /\ me.row = row
        /\ me.push = p /\ me.paid = handler[h].paid /\ me.req = handler[h].req
    BY <2>1, <2>3, <2>5 DEF HandlerStates
  <2>7. handler' = [handler EXCEPT ![h] = me] /\ handler'[h] = me
    BY <1>2 DEF IInv, TypeOK, GatewayTypeOK
  <2> HIDE DEF me
  <2>8. HandlerInv(h)'
    BY <2>1, <2>4, <2>5, <2>6, <2>7
       DEF IInv, HandlerInv, CallbackReceipt, FindTransaction, storeVars, mpesaVars, pushVars
  <2>9. deliveries' \in [Ids -> 0..MaxDeliveries]
    BY DEF IInv, TypeOK, MpesaTypeOK, FindTransaction, mpesaVars
  <2> QED BY <2>6, <2>7, <2>8, <2>9, HandlerMoveKeeps DEF FindTransaction, mpesaVars
<1> QED BY <1>1, <1>2 DEF FindTransaction

\* The columns a callback writes are those of the answer it carries.
LEMMA RecordedFacts ==
  ASSUME IInv, NEW h \in Handlers, handler[h].pc = "recording", NEW row \in STKTransaction
  PROVE  LET new == Recorded(h, row)
         IN  /\ new \in STKTransaction
             /\ new.checkout = row.checkout
             /\ new.receipt = CallbackReceipt(h)
             /\ new.resultCode = IF handler[h].paid THEN "0" ELSE "1"
             /\ new.status = IF handler[h].paid THEN "STK_SUCCESS" ELSE "STK_FAILED"
             /\ new.succeeded = IF handler[h].paid THEN "YES" ELSE "NO"
<1>1. handler[h].push \in Ids /\ handler[h].row.receipt \in {0, CallbackReceipt(h)}
  BY DEF IInv, HandlerInv
<1>2. FirstVal(CallbackReceipt(h), handler[h].row.receipt) = CallbackReceipt(h)
  BY <1>1 DEF FirstVal
<1>3. CallbackReceipt(h) \in Int
  <2>1. handler[h].push \in Int
    BY <1>1, IdsFacts
  <2> QED BY <2>1 DEF CallbackReceipt, ReceiptId
<1> QED BY <1>2, <1>3 DEF Recorded, STKTransaction, StkStatus, YesNo

\* What a handler's update may do: nothing, or record the answer in the row, and then
\* the handler goes on unless the statement reported an error all the same.
RecordResultOutcomes(h) ==
  LET id == handler[h].id
  IN  /\ UNCHANGED <<cache, mpesaVars, published>>
      /\ \/ Free(h) /\ UNCHANGED rows
         \/ /\ rows' = [rows EXCEPT ![id] = Recorded(h, rows[id])]
            /\ \/ Free(h)
               \/ handler' = [handler EXCEPT ![h].pc = "publishing", ![h].row = Recorded(h, @)]

LEMMA RecordResultCases ==
  ASSUME NEW h \in Handlers, RecordResult(h)
  PROVE  RecordResultOutcomes(h)
<1> DEFINE id    == handler[h].id
           clash == ReceiptTaken(id, Recorded(h, rows[id]).receipt)
           recorded == [rows EXCEPT ![id] = Recorded(h, rows[id])]
<1>1. /\ UNCHANGED <<cache, mpesaVars, published>>
      /\ \/ /\ rows' = recorded
            /\ handler' = [handler EXCEPT ![h].pc = "publishing", ![h].row = Recorded(h, @)]
         \/ Free(h) /\ UNCHANGED rows
         \/ Free(h) /\ rows' \in {rows, IF clash THEN rows ELSE recorded}
  BY DEF RecordResult, FailedOutcomes
<1> QED BY <1>1 DEF RecordResultOutcomes

\* The result goes into the row of the push it answers.
LEMMA RecordResultKeeps ==
  ASSUME IInv, NEW h \in Handlers, RecordResult(h), UNCHANGED pushVars
  PROVE  IInv'
<1> DEFINE p   == handler[h].push
           new == Recorded(h, rows[p])
           got == Recorded(h, handler[h].row)
           me  == [handler[h] EXCEPT !.pc = "publishing", !.row = got]
<1>0. RecordResultOutcomes(h)
  BY RecordResultCases
<1>1. /\ handler[h].pc = "recording" /\ p \in Ids /\ handler[h].id = p
      /\ rows[p].checkout # 0 /\ p # 0
      /\ mpesa[p] = IF handler[h].paid THEN "paid" ELSE "declined"
  BY IdsFacts DEF IInv, HandlerInv, RecordResult
<1>2. rows[p] \in STKTransaction
      /\ handler[h] \in [pc: HandlerStates, push: Ids \cup {0}, paid: BOOLEAN,
                         req: Requests \cup {NoReq}, id: Ids \cup {0}, row: STKTransaction]
  BY <1>1 DEF IInv, TypeOK, StoreTypeOK, GatewayTypeOK
<1>3. CASE Free(h) /\ UNCHANGED rows
  BY <1>3, FreeKeeps DEF RecordResult, storeVars
<1>4. ASSUME NEW m \in {me, IdleHandler},
             rows' = [rows EXCEPT ![p] = new],
             handler' = [handler EXCEPT ![h] = m]
      PROVE  IInv'
  <2>1. /\ new \in STKTransaction /\ new.checkout = rows[p].checkout
        /\ new.receipt = CallbackReceipt(h)
        /\ new.resultCode = IF handler[h].paid THEN "0" ELSE "1"
        /\ new.status = IF handler[h].paid THEN "STK_SUCCESS" ELSE "STK_FAILED"
        /\ new.succeeded = IF handler[h].paid THEN "YES" ELSE "NO"
    BY <1>1, <1>2, RecordedFacts
  <2>2. /\ got \in STKTransaction /\ got.receipt = CallbackReceipt(h)
        /\ got.succeeded = IF handler[h].paid THEN "YES" ELSE "NO"
    BY <1>1, <1>2, RecordedFacts
  <2> HIDE DEF new, got
  <2>3. /\ me \in [pc: HandlerStates, push: Ids \cup {0}, paid: BOOLEAN,
                   req: Requests \cup {NoReq}, id: Ids \cup {0}, row: STKTransaction]
        /\ me.pc = "publishing" /\ me.push = p /\ me.paid = handler[h].paid
        /\ me.id = p /\ me.req = handler[h].req /\ me.row = got
    BY <1>1, <1>2, <2>2 DEF HandlerStates
  <2> HIDE DEF me
  <2>4. /\ m \in [pc: HandlerStates, push: Ids \cup {0}, paid: BOOLEAN,
                   req: Requests \cup {NoReq}, id: Ids \cup {0}, row: STKTransaction]
        /\ m = me \/ m.pc = "idle"
    <3>1. IdleHandler.pc = "idle"
      BY DEF IdleHandler
    <3> QED BY <1>4, <2>3, <3>1, IdleFacts
  <2>5. /\ rows'[p] = new /\ \A u \in Ids \ {p} : rows'[u] = rows[u]
        /\ handler'[h] = m /\ \A g \in Handlers \ {h} : handler'[g] = handler[g]
    BY <1>1, <1>4 DEF IInv, TypeOK, StoreTypeOK, GatewayTypeOK
  <2>6. UNCHANGED <<cache, mpesa, deliveries, push, published>>
    BY DEF RecordResult, mpesaVars, pushVars
  <2>7. rows[p].resultCode \in {"null", new.resultCode}
        /\ (rows[p].resultCode # "null" => rows[p].receipt = new.receipt)
    <3>1. rows[p].resultCode \in {"null", "0", "1"}
      BY <1>2 DEF STKTransaction
    <3> QED BY <1>1, <2>1, <3>1 DEF IInv, ResultIsMpesas, CallbackReceipt
  <2>8. TypeOK'
    BY <1>1, <1>4, <2>1, <2>4, <2>6
       DEF IInv, TypeOK, StoreTypeOK, MpesaTypeOK, PushTypeOK, GatewayTypeOK
  <2>9. ASSUME NEW u \in Ids PROVE RowInv(u)'
    BY <1>1, <2>1, <2>5, <2>6 DEF IInv, RowInv, Accepted, CheckoutId
  <2>10. ResultIsMpesas'
    BY <1>1, <2>1, <2>5, <2>6 DEF IInv, ResultIsMpesas, CallbackReceipt
  <2>11. ASSUME NEW g \in Handlers PROVE HandlerInv(g)'
    <3>1. CASE g = h
      BY <1>1, <2>1, <2>2, <2>3, <2>4, <2>5, <2>6, <3>1 DEF IInv, HandlerInv, CallbackReceipt
    <3>2. CASE g # h
      BY <1>1, <2>1, <2>5, <2>6, <3>2 DEF IInv, HandlerInv, CallbackReceipt
    <3> QED BY <3>1, <3>2
  <2>12. PublishedIsRecorded'
    BY <1>1, <2>5, <2>6, <2>7 DEF IInv, TypeOK, GatewayTypeOK, Message, PublishedIsRecorded
  <2> QED BY <2>8, <2>9, <2>10, <2>11, <2>12 DEF IInv
<1>5. CASE /\ rows' = [rows EXCEPT ![p] = Recorded(h, rows[p])]
           /\ \/ Free(h)
              \/ handler' = [handler EXCEPT ![h].pc = "publishing", ![h].row = Recorded(h, @)]
  <2>1. handler' = [handler EXCEPT ![h] = IdleHandler] \/ handler' = [handler EXCEPT ![h] = me]
    BY <1>5 DEF Free, IInv, TypeOK, GatewayTypeOK
  <2> QED BY <1>4, <1>5, <2>1
<1> QED BY <1>0, <1>1, <1>3, <1>5 DEF RecordResultOutcomes

\* A callback no row matches leaves nothing behind.
LEMMA RecordUnmatchedKeeps ==
  ASSUME IInv, NEW h \in Handlers, RecordUnmatched(h), UNCHANGED pushVars
  PROVE  IInv'
<1>1. handler[h].req = NoReq
  BY DEF IInv, HandlerInv, RecordUnmatched
<1>2. Free(h) /\ UNCHANGED <<rows, cache, mpesaVars, published>>
  BY <1>1 DEF RecordUnmatched
<1> QED BY <1>2, FreeKeeps DEF storeVars

\* What is published is the row just written, to an initiator who asked for it.
LEMMA PublishResultKeeps ==
  ASSUME IInv, NEW h \in Handlers, PublishResult(h), UNCHANGED pushVars
  PROVE  IInv'
<1> DEFINE p == handler[h].push
           m == [id |-> handler[h].id, push |-> p, succeeded |-> handler[h].row.succeeded,
                 receipt |-> handler[h].row.receipt]
<1>1. /\ handler[h].pc = "publishing" /\ Free(h)
      /\ UNCHANGED <<rows, cache, mpesa, deliveries, push>>
  BY DEF PublishResult, storeVars, mpesaVars, pushVars
<1>2. CASE UNCHANGED published
  BY <1>1, <1>2, FreeKeeps DEF storeVars, mpesaVars
<1>3. CASE published' = published \cup {m} /\ WantsPublish(h)
  <2>1. /\ p \in Ids /\ handler[h].id = p
        /\ rows[p].resultCode = IF handler[h].paid THEN "0" ELSE "1"
        /\ handler[h].row.succeeded = IF handler[h].paid THEN "YES" ELSE "NO"
        /\ handler[h].row.receipt = CallbackReceipt(h)
        /\ handler[h].req # NoReq => handler[h].req = push[p].req
        /\ mpesa[p] = IF handler[h].paid THEN "paid" ELSE "declined"
    BY <1>1 DEF IInv, HandlerInv
  <2>2. rows[p].receipt = handler[h].row.receipt
    BY <2>1 DEF IInv, ResultIsMpesas, CallbackReceipt
  <2>3. push[p].req.publish /\ (push[p].req.onlyOnSuccess => handler[h].row.succeeded = "YES")
    BY <1>3, <2>1 DEF WantsPublish
  <2>4. m \in Message /\ m.id = p /\ m.push = p
        /\ m.succeeded = handler[h].row.succeeded /\ m.receipt = handler[h].row.receipt
    <3>1. CallbackReceipt(h) \in Int
      BY <2>1, IdsFacts DEF CallbackReceipt, ReceiptId
    <3>2. handler[h].row.succeeded \in YesNo
      BY <2>1 DEF YesNo
    <3> QED BY <2>1, <3>1, <3>2 DEF Message
  <2> HIDE DEF m
  <2>5. /\ handler'[h].pc = "idle"
        /\ \A g \in Handlers \ {h} : handler'[g] = handler[g]
        /\ GatewayTypeOK'
    BY <1>1, <1>3, <2>4, IdleFacts DEF IInv, TypeOK, GatewayTypeOK, Free, IdleHandler
  <2>6. TypeOK'
    BY <1>1, <2>5 DEF IInv, TypeOK, StoreTypeOK, MpesaTypeOK, PushTypeOK
  <2>7. ASSUME NEW u \in Ids PROVE RowInv(u)'
    BY <1>1 DEF IInv, RowInv, Accepted, CheckoutId
  <2>8. ResultIsMpesas'
    BY <1>1 DEF IInv, ResultIsMpesas
  <2>9. ASSUME NEW g \in Handlers PROVE HandlerInv(g)'
    BY <1>1, <2>5 DEF IInv, HandlerInv, CallbackReceipt
  <2>10. PublishedIsRecorded'
    BY <1>1, <1>3, <2>1, <2>2, <2>3, <2>4 DEF IInv, PublishedIsRecorded
  <2> QED BY <2>6, <2>7, <2>8, <2>9, <2>10 DEF IInv
<1> QED BY <1>1, <1>2, <1>3 DEF PublishResult

\* A crash leaves rows, cache, messages and M-Pesa as they are.
LEMMA CrashKeeps ==
  ASSUME IInv, Crash
  PROVE  IInv'
<1>1. UNCHANGED <<rows, cache, mpesa, deliveries, published>>
  BY DEF Crash, storeVars, mpesaVars
<1>2. ASSUME NEW t \in Ids
      PROVE  /\ push'[t].req = push[t].req
             /\ push'[t].pc \in {push[t].pc, "dead"}
             /\ push[t].pc = "none" <=> push'[t].pc = "none"
             /\ push'[t] \in [pc: PushStates, req: Requests \cup {NoReq}]
  BY DEF IInv, TypeOK, PushTypeOK, PushStates, Crash, Live
<1>3. PushTypeOK'
  BY <1>2 DEF PushTypeOK, Crash
<1>4. TypeOK'
  BY <1>1, <1>3, IdleFacts DEF IInv, TypeOK, StoreTypeOK, MpesaTypeOK, GatewayTypeOK, Crash
<1>5. ASSUME NEW u \in Ids PROVE RowInv(u)'
  BY <1>1, <1>2 DEF IInv, RowInv, Accepted, CheckoutId
<1>6. ResultIsMpesas'
  BY <1>1 DEF IInv, ResultIsMpesas
<1>7. ASSUME NEW h \in Handlers PROVE HandlerInv(h)'
  BY DEF HandlerInv, Crash, IdleHandler
<1>8. PublishedIsRecorded'
  BY <1>1, <1>2 DEF IInv, TypeOK, GatewayTypeOK, Message, PublishedIsRecorded
<1> QED BY <1>4, <1>5, <1>6, <1>7, <1>8 DEF IInv

\* A stuttering step.
LEMMA StutterKeeps ==
  ASSUME IInv, UNCHANGED vars
  PROVE  IInv'
<1> USE DEF vars, storeVars, mpesaVars, pushVars, gatewayVars
<1>1. TypeOK'
  BY DEF IInv, TypeOK, StoreTypeOK, MpesaTypeOK, PushTypeOK, GatewayTypeOK
<1>2. ASSUME NEW u \in Ids PROVE RowInv(u)'
  BY DEF IInv, RowInv, Accepted, CheckoutId
<1>3. ResultIsMpesas'
  BY DEF IInv, ResultIsMpesas
<1>4. ASSUME NEW h \in Handlers PROVE HandlerInv(h)'
  BY DEF IInv, HandlerInv, CallbackReceipt
<1>5. PublishedIsRecorded'
  BY DEF IInv, PublishedIsRecorded
<1> QED BY <1>1, <1>2, <1>3, <1>4, <1>5 DEF IInv

\* Every step of the service keeps the inductive invariant.
LEMMA NextKeeps == IInv /\ [Next]_vars => IInv'
<1> SUFFICES ASSUME IInv, [Next]_vars PROVE IInv'
  OBVIOUS
<1>1. CASE ClientStep
  BY <1>1, InitiateSTKKeeps DEF ClientStep
<1>2. CASE \E t \in Ids : ServerPushStep(t)
  <2>1. PICK t \in Ids : PushStep(t) /\ UNCHANGED gatewayVars
    BY <1>2 DEF ServerPushStep
  <2> QED BY <2>1, PostPushKeeps, MovingKeeps, SaveAnswerKeeps, CacheRequestKeeps,
             MarkFailedKeeps DEF PushStep
<1>3. CASE MpesaStep
  BY <1>3, MpesaKeeps DEF MpesaStep
<1>4. CASE CallbackStep
  BY <1>4, ReceiveCallbackKeeps DEF CallbackStep
<1>5. CASE \E h \in Handlers : ServerHandlerStep(h)
  <2>1. PICK h \in Handlers : HandlerStep(h) /\ UNCHANGED pushVars
    BY <1>5 DEF ServerHandlerStep
  <2> QED BY <2>1, FindTransactionKeeps, RecordResultKeeps, RecordUnmatchedKeeps,
             PublishResultKeeps DEF HandlerStep
<1>6. CASE CacheExpiry
  BY <1>6, ExpiryKeeps DEF CacheExpiry
<1>7. CASE Crash
  BY <1>7, CrashKeeps
<1>8. CASE UNCHANGED vars
  BY <1>8, StutterKeeps
<1> QED BY <1>1, <1>2, <1>3, <1>4, <1>5, <1>6, <1>7, <1>8 DEF Next, Step

-----------------------------------------------------------------------------
(* The theorems.                                                           *)

\* The inductive invariant holds in every reachable state.
THEOREM Invariance == Spec => []IInv
<1> QED BY InitIInv, NextKeeps, PTL DEF Spec

\* Every variable keeps its type.
THEOREM TypeCorrect == Spec => []TypeOK
<1>1. IInv => TypeOK
  BY DEF IInv
<1> QED BY <1>1, Invariance, PTL

\* What a row says of the outcome is what the customer did.
THEOREM RowsTellTheOutcome == Spec => []ResultIsMpesas
<1>1. IInv => ResultIsMpesas
  BY DEF IInv
<1> QED BY <1>1, Invariance, PTL

\* Consumers are told only what is in the row, and only what was asked for.
THEOREM MessagesAreRecorded == Spec => []PublishedIsRecorded
<1>1. IInv => PublishedIsRecorded
  BY DEF IInv
<1> QED BY <1>1, Invariance, PTL

\* A cached request belongs to a row a callback can find.
THEOREM CacheFollowsRow == Spec => []CachedRequestHasRow
<1>1. IInv => CachedRequestHasRow
  BY IdsFacts DEF IInv, RowInv, CachedRequestHasRow, CheckoutId
<1> QED BY <1>1, Invariance, PTL

\* The branch for a callback no row matches never has a request to build a row from.
THEOREM UnmatchedHasNothing == Spec => []UnmatchedCallbackHasNoRequest
<1>1. IInv => UnmatchedCallbackHasNoRequest
  BY DEF IInv, HandlerInv, UnmatchedCallbackHasNoRequest
<1> QED BY <1>1, Invariance, PTL

-----------------------------------------------------------------------------
(* What one step does to one row, and the action properties it gives.      *)

\* A row is left alone, created, saved or marked by its goroutine, or recorded in
\* by the handler of its own answer.
LEMMA RowChange ==
  ASSUME IInv, [Next]_vars, NEW t \in Ids
  PROVE  \/ rows'[t] = rows[t]
         \/ rows[t].status = "absent" /\ rows'[t] = SubmittedRow
         \/ push[t].pc = "saving" /\ rows'[t] = SavedAnswer(rows[t], CheckoutId(t))
         \/ push[t].pc = "failing" /\ rows'[t] = SavedFailure(rows[t])
         \/ \E h \in Handlers : /\ handler[h].pc = "recording" /\ handler[h].push = t
                                /\ handler[h].id = t /\ rows'[t] = Recorded(h, rows[t])
<1> USE DEF IInv, TypeOK, StoreTypeOK
<1>1. CASE ClientStep
  BY <1>1 DEF ClientStep, InitiateSTK, IsNextId
<1>2. CASE \E u \in Ids : ServerPushStep(u)
  <2>1. PICK u \in Ids : PushStep(u)
    BY <1>2 DEF ServerPushStep
  <2>2. CASE PostPush(u) \/ PushAnswered(u) \/ PushFails(u) \/ CacheRequest(u)
    BY <2>2 DEF PostPush, PushAnswered, PushFails, CacheRequest, storeVars
  <2>3. CASE SaveAnswer(u)
    BY <2>3, SaveAnswerOutcomes
  <2>4. CASE MarkFailed(u)
    BY <2>4, MarkFailedOutcomes
  <2> QED BY <2>1, <2>2, <2>3, <2>4 DEF PushStep
<1>3. CASE MpesaStep \/ CallbackStep \/ CacheExpiry \/ Crash \/ UNCHANGED vars
  BY <1>3 DEF MpesaStep, CallbackStep, ReceiveCallback, CacheExpiry, ExpireRequest, Crash, vars,
              storeVars
<1>4. CASE \E h \in Handlers : ServerHandlerStep(h)
  <2>1. PICK h \in Handlers : HandlerStep(h)
    BY <1>4 DEF ServerHandlerStep
  <2>2. CASE FindTransaction(h) \/ PublishResult(h)
    BY <2>2 DEF FindTransaction, PublishResult, storeVars
  <2>3. CASE RecordResult(h)
    <3>1. handler[h].id = handler[h].push /\ handler[h].push \in Ids
      BY <2>3 DEF RecordResult, HandlerInv
    <3> QED BY <2>3, <3>1, RecordResultCases DEF RecordResult, RecordResultOutcomes
  <2>4. CASE RecordUnmatched(h)
    BY <2>4 DEF RecordUnmatched, HandlerInv
  <2> QED BY <2>1, <2>2, <2>3, <2>4 DEF HandlerStep
<1> QED BY <1>1, <1>2, <1>3, <1>4 DEF Next, Step

\* A recorded result belongs to a row whose goroutine is past saving, and a row a
\* handler records in again gets what it already has.
LEMMA RecordedAgain ==
  ASSUME IInv, NEW t \in Ids, NEW h \in Handlers,
         handler[h].pc = "recording", handler[h].push = t, rows[t].resultCode # "null"
  PROVE  LET new == Recorded(h, rows[t])
         IN  /\ new.resultCode = rows[t].resultCode /\ new.receipt = rows[t].receipt
             /\ Final(new.status)
             /\ Final(rows[t].status) => new.status = rows[t].status
<1>1. /\ mpesa[t] = IF handler[h].paid THEN "paid" ELSE "declined"
      /\ rows[t] \in STKTransaction
  BY DEF IInv, HandlerInv, TypeOK, StoreTypeOK
<1>2. rows[t].resultCode \in {"0", "1"}
  BY <1>1 DEF STKTransaction
<1> QED BY <1>1, <1>2, RecordedFacts DEF IInv, ResultIsMpesas, Final, CallbackReceipt

\* A step of the service leaves a recorded outcome alone.
LEMMA OutcomeKept ==
  ASSUME IInv, [Next]_vars, NEW t \in Ids, rows[t].resultCode # "null"
  PROVE  rows'[t].resultCode = rows[t].resultCode /\ rows'[t].receipt = rows[t].receipt
<1>1. push[t].pc # "saving" /\ rows[t].status # "absent" /\ rows[t] \in STKTransaction
  BY DEF IInv, RowInv, NoRow, TypeOK, StoreTypeOK
<1> QED BY <1>1, RowChange, RecordedAgain, SavedFailureFacts

\* A final status of a row belongs to a recorded result, past the goroutine's save.
LEMMA FinalFacts ==
  ASSUME IInv, NEW t \in Ids, Final(rows[t].status)
  PROVE  /\ rows[t].resultCode # "null" /\ rows[t].status # "absent"
         /\ rows[t] \in STKTransaction /\ push[t].pc # "saving"
         /\ push[t].pc = "failing" => LateFaults \cap Faults # {}
<1>1. rows[t].resultCode # "null" /\ rows[t].status # "absent" /\ rows[t] \in STKTransaction
  BY DEF IInv, ResultIsMpesas, Final, TypeOK, StoreTypeOK
<1> QED BY <1>1 DEF IInv, RowInv

\* A step that changes a final status is the goroutine's failure branch.
LEMMA StatusKept ==
  ASSUME IInv, [Next]_vars, NEW t \in Ids, Final(rows[t].status)
  PROVE  \/ rows'[t].status = rows[t].status
         \/ push[t].pc = "failing" /\ rows'[t].status = "STK_REQUEST_FAILED"
BY FinalFacts, RowChange, RecordedAgain, SavedFailureFacts

\* Once recorded, the result code and the receipt never change.
THEOREM ResultsAreFinal == Spec => ResultIsFinal
<1>1. IInv /\ [Next]_vars => [\A t \in Ids : rows[t].resultCode # "null" =>
                               /\ rows'[t].resultCode = rows[t].resultCode
                               /\ rows'[t].receipt = rows[t].receipt]_vars
  BY OutcomeKept
<1> QED BY <1>1, Invariance, PTL DEF Spec, ResultIsFinal

\* A final status is lost only to the failure branch of the goroutine that sent the push.
THEOREM FinalStatusLost == Spec => StatusLostOnlyToLateFailure
<1>1. IInv /\ [Next]_vars => [\A t \in Ids : Final(rows[t].status) /\ ~Final(rows'[t].status) =>
                               /\ push[t].pc = "failing"
                               /\ rows'[t].status = "STK_REQUEST_FAILED"]_vars
  BY StatusKept
<1> QED BY <1>1, Invariance, PTL DEF Spec, StatusLostOnlyToLateFailure

\* When no call of the goroutine can fail once its row can be found, a final status is
\* final, whatever responses are lost and however often the process dies.
THEOREM FinalStatusKept ==
  ASSUME LateFaults \cap Faults = {}
  PROVE  Spec => FinalStatusStays
<1>1. IInv /\ [Next]_vars =>
        [\A t \in Ids : Final(rows[t].status) => rows'[t].status = rows[t].status]_vars
  BY StatusKept, FinalFacts
<1> QED BY <1>1, Invariance, PTL DEF Spec, FinalStatusStays

-----------------------------------------------------------------------------
(* The service keeps the ledger.                                           *)

\* The entry of a row in the ledger depends on two of its columns.
LEMMA EntryFacts ==
  ASSUME NEW t \in Ids, rows[t] \in STKTransaction
  PROVE  /\ rows[t].status = "absent" => EntryOf(t) = "unknown"
         /\ rows[t].status # "absent" /\ rows[t].resultCode = "null" => EntryOf(t) = "open"
         /\ rows[t].status # "absent" /\ rows[t].resultCode = "0" => EntryOf(t) = "paid"
         /\ rows[t].status # "absent" /\ rows[t].resultCode = "1" => EntryOf(t) = "declined"
BY DEF EntryOf, STKTransaction

LEMMA InitLedger == Init => Ledger!LedgerInit
<1> SUFFICES ASSUME Init PROVE Ledger!LedgerInit
  OBVIOUS
<1>1. ASSUME NEW t \in Ids PROVE AnswerOf(t) = "none" /\ EntryOf(t) = "unknown"
  BY DEF Init, StoreInit, MpesaInit, AnswerOf, Answered, EntryOf, NoRow
<1>2. published = {}
  BY DEF Init, GatewayInit
<1> QED BY <1>1, <1>2 DEF Ledger!LedgerInit

\* A step that changes neither result code, nor what M-Pesa answered, nor what is
\* published, of a row that stays, is a stutter of the ledger.
LEMMA LedgerStutter ==
  ASSUME \A t \in Ids : AnswerOf(t)' = AnswerOf(t) /\ EntryOf(t)' = EntryOf(t),
         UNCHANGED published
  PROVE  UNCHANGED Ledger!ledgerVars
<1>1. {ToldBy(m) : m \in published}' = {ToldBy(m) : m \in published}
  BY DEF ToldBy
<1> QED BY <1>1 DEF Ledger!ledgerVars

\* An update of a row that keeps its result code, and does not create it, keeps its entry.
LEMMA SameEntry ==
  ASSUME NEW t \in Ids,
         rows[t] \in STKTransaction, rows'[t] \in STKTransaction,
         rows'[t].resultCode = rows[t].resultCode,
         rows[t].status = "absent" <=> rows'[t].status = "absent"
  PROVE  EntryOf(t)' = EntryOf(t)
BY DEF EntryOf, STKTransaction

\* A client's step opens an entry.
LEMMA InitiateOpens ==
  ASSUME IInv, NEW t \in Ids, NEW req \in Requests, InitiateSTK(t, req), UNCHANGED gatewayVars
  PROVE  Ledger!Open(t)
<1>1. EntryOf(t) = "unknown"
  BY DEF InitiateSTK, IsNextId, EntryOf
<1>2. EntryOf(t)' = "open"
  BY DEF InitiateSTK, EntryOf, SubmittedRow, NoRow, IInv, TypeOK, StoreTypeOK
<1>3. ASSUME NEW u \in Ids, u # t PROVE EntryOf(u)' = EntryOf(u)
  <2>1. rows'[u] = rows[u]
    BY <1>3 DEF InitiateSTK, IInv, TypeOK, StoreTypeOK
  <2> QED BY <2>1 DEF EntryOf
<1>4. ASSUME NEW u \in Ids PROVE AnswerOf(u)' = AnswerOf(u)
  BY DEF InitiateSTK, AnswerOf, Answered, mpesaVars
<1>5. {ToldBy(m) : m \in published}' = {ToldBy(m) : m \in published}
  BY DEF gatewayVars, ToldBy
<1> QED BY <1>1, <1>2, <1>3, <1>4, <1>5 DEF Ledger!Open

\* The goroutine's steps are none of the ledger's.
LEMMA PushStutters ==
  ASSUME IInv, IInv', NEW t \in Ids, PushStep(t), UNCHANGED gatewayVars
  PROVE  UNCHANGED Ledger!ledgerVars
<1>1. ASSUME NEW u \in Ids PROVE AnswerOf(u)' = AnswerOf(u)
  <2>1. mpesa'[u] = mpesa[u] \/ (mpesa[u] = "idle" /\ mpesa'[u] = "requested")
    BY DEF PushStep, PostPush, PushAnswered, PushFails, SaveAnswer, CacheRequest, MarkFailed,
           mpesaVars, IInv, TypeOK, MpesaTypeOK, RowInv
  <2> QED BY <2>1 DEF AnswerOf, Answered
<1>2. ASSUME NEW u \in Ids PROVE EntryOf(u)' = EntryOf(u)
  <2>1. rows[u] \in STKTransaction /\ rows'[u] \in STKTransaction /\ rows[t] \in STKTransaction
    BY DEF IInv, TypeOK, StoreTypeOK
  <2>2. CASE rows'[u] = rows[u]
    BY <2>2 DEF EntryOf
  <2>3. CASE u = t /\ SaveAnswer(t) /\ rows'[t] = SavedAnswer(rows[t], CheckoutId(t))
    <3>1. rows[t].status # "absent" /\ CheckoutId(t) \in Int
      BY <2>3, IdsFacts DEF SaveAnswer, IInv, RowInv, CheckoutId
    <3> QED BY <2>1, <2>3, <3>1, SavedAnswerFacts, SameEntry
  <2>4. CASE u = t /\ MarkFailed(t) /\ rows'[t] = SavedFailure(rows[t])
    <3>1. rows[t].status # "absent"
      BY <2>4 DEF MarkFailed, IInv, RowInv
    <3> QED BY <2>1, <2>4, <3>1, SavedFailureFacts, SameEntry
  <2>5. \/ rows'[u] = rows[u]
        \/ u = t /\ SaveAnswer(t) /\ rows'[t] = SavedAnswer(rows[t], CheckoutId(t))
        \/ u = t /\ MarkFailed(t) /\ rows'[t] = SavedFailure(rows[t])
    BY SaveAnswerOutcomes, MarkFailedOutcomes
       DEF PushStep, PostPush, PushAnswered, PushFails, CacheRequest, storeVars, IInv, TypeOK,
           StoreTypeOK
  <2> QED BY <2>2, <2>3, <2>4, <2>5
<1>3. UNCHANGED published
  BY DEF gatewayVars
<1> QED BY <1>1, <1>2, <1>3, LedgerStutter

\* A customer's answer is the ledger's answer; M-Pesa's own is nothing to it.
LEMMA MpesaAnswers ==
  ASSUME IInv, NEW p \in Ids, AnswerPush(p) \/ AnswerPrompt(p),
         UNCHANGED <<storeVars, pushVars, gatewayVars>>
  PROVE  Ledger!Answer(p) \/ UNCHANGED Ledger!ledgerVars
<1>1. ASSUME NEW u \in Ids PROVE EntryOf(u)' = EntryOf(u)
  BY DEF EntryOf, storeVars
<1>2. {ToldBy(m) : m \in published}' = {ToldBy(m) : m \in published}
  BY DEF ToldBy, gatewayVars
<1>3. CASE AnswerPush(p)
  <2>1. ASSUME NEW u \in Ids PROVE AnswerOf(u)' = AnswerOf(u)
    BY <1>3 DEF AnswerPush, AnswerOf, Answered, IInv, TypeOK, MpesaTypeOK
  <2> QED BY <1>1, <2>1, LedgerStutter DEF gatewayVars
<1>4. CASE AnswerPrompt(p)
  <2>1. mpesa[p] = "accepted"
    BY <1>4 DEF AnswerPrompt
  <2>2. PICK s \in {"paid", "declined"} : mpesa' = [mpesa EXCEPT ![p] = s]
    BY <1>4 DEF AnswerPrompt
  <2>3. rows[p] \in STKTransaction
    BY DEF IInv, TypeOK, StoreTypeOK
  <2>4. rows[p].status # "absent"
    BY <2>1 DEF IInv, RowInv
  <2>5. rows[p].resultCode = "null"
    BY <2>1, <2>3 DEF IInv, ResultIsMpesas, STKTransaction
  <2>6. EntryOf(p) = "open"
    BY <2>3, <2>4, <2>5, EntryFacts
  <2>7. AnswerOf(p) = "none" /\ AnswerOf(p)' = s
    BY <2>1, <2>2 DEF AnswerOf, Answered, IInv, TypeOK, MpesaTypeOK
  <2>8. ASSUME NEW u \in Ids, u # p PROVE AnswerOf(u)' = AnswerOf(u)
    BY <2>2, <2>8 DEF AnswerOf, Answered, IInv, TypeOK, MpesaTypeOK
  <2> QED BY <1>1, <1>2, <2>6, <2>7, <2>8 DEF Ledger!Answer, Ledger!Results
<1> QED BY <1>3, <1>4

\* Recording a result settles the entry, the first time.
LEMMA RecordSettles ==
  ASSUME IInv, IInv', NEW h \in Handlers, NEW p \in Ids, handler[h].push = p,
         RecordResult(h), UNCHANGED pushVars
  PROVE  Ledger!Settle(p) \/ UNCHANGED Ledger!ledgerVars
<1>1. /\ handler[h].pc = "recording" /\ handler[h].id = p
      /\ mpesa[p] = IF handler[h].paid THEN "paid" ELSE "declined"
      /\ rows[p].checkout # 0
  BY IdsFacts DEF IInv, HandlerInv, RecordResult
<1>2. rows[p] \in STKTransaction /\ rows'[p] \in STKTransaction /\ rows[p].status # "absent"
  BY <1>1 DEF IInv, TypeOK, StoreTypeOK, RowInv
<1>3. ASSUME NEW u \in Ids PROVE AnswerOf(u)' = AnswerOf(u)
  BY DEF AnswerOf, Answered, RecordResult, mpesaVars
<1>4. UNCHANGED published /\ {ToldBy(m) : m \in published}' = {ToldBy(m) : m \in published}
  BY DEF ToldBy, RecordResult
<1>5. CASE UNCHANGED rows
  BY <1>3, <1>4, <1>5, LedgerStutter DEF EntryOf
<1>6. CASE rows' = [rows EXCEPT ![p] = Recorded(h, rows[p])]
  <2>1. rows'[p] = Recorded(h, rows[p]) /\ \A u \in Ids \ {p} : rows'[u] = rows[u]
    BY <1>6 DEF IInv, TypeOK, StoreTypeOK
  <2>2. /\ rows'[p].resultCode = IF handler[h].paid THEN "0" ELSE "1"
        /\ rows'[p].status # "absent"
    BY <1>1, <1>2, <2>1, RecordedFacts
  <2>3. ASSUME NEW u \in Ids, u # p PROVE EntryOf(u)' = EntryOf(u)
    <3>1. rows'[u] = rows[u]
      BY <2>1, <2>3
    <3> QED BY <3>1 DEF EntryOf
  <2>4. CASE rows[p].resultCode = "null"
    <3>1. EntryOf(p) = "open"
      BY <1>1, <1>2, <2>4, EntryFacts
    <3>2. EntryOf(p)' = IF handler[h].paid THEN "paid" ELSE "declined"
      BY <1>2, <2>2 DEF EntryOf
    <3>3. AnswerOf(p) = IF handler[h].paid THEN "paid" ELSE "declined"
      BY <1>1 DEF AnswerOf, Answered
    <3> QED BY <1>3, <1>4, <2>3, <3>1, <3>2, <3>3 DEF Ledger!Settle, Ledger!Results
  <2>5. CASE rows[p].resultCode # "null"
    <3>1. rows'[p].resultCode = rows[p].resultCode
      BY <1>1, <2>1, <2>5, RecordedAgain
    <3>2. EntryOf(p)' = EntryOf(p)
      BY <1>2, <2>2, <3>1, SameEntry
    <3> QED BY <1>3, <1>4, <2>3, <3>2, LedgerStutter
  <2> QED BY <2>4, <2>5
<1> QED BY <1>1, <1>5, <1>6, RecordResultCases DEF RecordResultOutcomes

\* Publishing tells what the ledger says.
LEMMA PublishTells ==
  ASSUME IInv, NEW h \in Handlers, PublishResult(h), UNCHANGED pushVars
  PROVE  Ledger!Tell(handler[h].push) \/ UNCHANGED Ledger!ledgerVars
<1> DEFINE p == handler[h].push
           m == [id |-> handler[h].id, push |-> p, succeeded |-> handler[h].row.succeeded,
                 receipt |-> handler[h].row.receipt]
<1>1. ASSUME NEW u \in Ids PROVE AnswerOf(u)' = AnswerOf(u) /\ EntryOf(u)' = EntryOf(u)
  BY DEF AnswerOf, Answered, EntryOf, PublishResult, storeVars, mpesaVars
<1>2. CASE UNCHANGED published
  BY <1>1, <1>2, LedgerStutter
<1>3. CASE published' = published \cup {m}
  <2>1. /\ p \in Ids /\ handler[h].id = p /\ rows[p].checkout # 0
        /\ rows[p].resultCode = IF handler[h].paid THEN "0" ELSE "1"
        /\ handler[h].row.succeeded = IF handler[h].paid THEN "YES" ELSE "NO"
    BY IdsFacts DEF IInv, HandlerInv, PublishResult
  <2>2. EntryOf(p) = IF handler[h].paid THEN "paid" ELSE "declined"
    <3>1. rows[p] \in STKTransaction /\ rows[p].status # "absent"
      BY <2>1 DEF IInv, TypeOK, StoreTypeOK, RowInv
    <3> QED BY <2>1, <3>1, EntryFacts
  <2>3. ToldBy(m) = <<p, EntryOf(p)>>
    BY <2>1, <2>2 DEF ToldBy
  <2> HIDE DEF m
  <2>4. {ToldBy(n) : n \in published}' = {ToldBy(n) : n \in published} \cup {<<p, EntryOf(p)>>}
    <3>1. {ToldBy(n) : n \in published}' = {ToldBy(n) : n \in published'}
      BY DEF ToldBy
    <3> QED BY <1>3, <2>3, <3>1
  <2> HIDE DEF p
  <2>5. Ledger!Tell(p)
    BY <1>1, <2>1, <2>2, <2>4 DEF Ledger!Tell, Ledger!Results
  <2> QED BY <2>5 DEF p
<1> QED BY <1>2, <1>3 DEF PublishResult

\* Every step of the service is one of the ledger, or none.
LEMMA NextLedger == IInv /\ IInv' /\ [Next]_vars => [Ledger!LedgerNext]_Ledger!ledgerVars
<1> SUFFICES ASSUME IInv, IInv', [Next]_vars
             PROVE  Ledger!LedgerNext \/ UNCHANGED Ledger!ledgerVars
  OBVIOUS
<1>1. CASE ClientStep
  BY <1>1, InitiateOpens DEF ClientStep, Ledger!LedgerNext
<1>2. CASE \E t \in Ids : ServerPushStep(t)
  BY <1>2, PushStutters DEF ServerPushStep
<1>3. CASE MpesaStep
  BY <1>3, MpesaAnswers DEF MpesaStep, Ledger!LedgerNext
<1>4. CASE CallbackStep \/ CacheExpiry \/ Crash \/ UNCHANGED vars
  <2>1. UNCHANGED <<rows, mpesa, published>>
    BY <1>4 DEF CallbackStep, ReceiveCallback, PostAnswer, CacheExpiry, ExpireRequest, Crash, vars,
                storeVars, mpesaVars, gatewayVars
  <2> QED BY <2>1, LedgerStutter DEF AnswerOf, Answered, EntryOf
<1>5. CASE \E h \in Handlers : ServerHandlerStep(h)
  <2>1. PICK h \in Handlers : HandlerStep(h) /\ UNCHANGED pushVars
    BY <1>5 DEF ServerHandlerStep
  <2>2. PICK p \in Ids : handler[h].push = p
    BY <2>1 DEF HandlerStep, FindTransaction, RecordResult, RecordUnmatched, PublishResult,
                IInv, HandlerInv
  <2>3. CASE FindTransaction(h) \/ RecordUnmatched(h)
    <3>1. UNCHANGED <<rows, mpesa, published>>
      BY <2>3 DEF FindTransaction, RecordUnmatched, IInv, HandlerInv, storeVars, mpesaVars
    <3> QED BY <3>1, LedgerStutter DEF AnswerOf, Answered, EntryOf
  <2>4. CASE RecordResult(h)
    BY <2>1, <2>2, <2>4, RecordSettles DEF Ledger!LedgerNext
  <2>5. CASE PublishResult(h)
    BY <2>1, <2>2, <2>5, PublishTells DEF Ledger!LedgerNext
  <2> QED BY <2>1, <2>3, <2>4, <2>5 DEF HandlerStep
<1> QED BY <1>1, <1>2, <1>3, <1>4, <1>5 DEF Next, Step

\* The service implements the ledger: each transaction is settled once, with its
\* own customer's answer, and initiators are told only what is settled.
THEOREM ServiceKeepsLedger == Spec => ImplementsLedger
<1> QED BY InitIInv, InitLedger, NextKeeps, NextLedger, Invariance, PTL
    DEF Spec, ImplementsLedger, Ledger!LedgerSpec

=============================================================================
