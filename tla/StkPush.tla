------------------------------- MODULE StkPush ------------------------------
(***************************************************************************)
(* InitiateSTK (internal/stk/v1/stk.go): the RPC saves a row and returns;  *)
(* a goroutine then posts the push to M-Pesa, writes the answer into the   *)
(* row and caches the request for the callback.  One goroutine per row,    *)
(* named by the row's id; its record holds where it is and the request it  *)
(* closed over.                                                            *)
(***************************************************************************)
EXTENDS Mpesa

VARIABLES push

pushVars == <<push>>

PushStates ==
  {"none", "posting", "waiting", "saving", "caching", "failing", "done", "dead"}

Live(t) == push[t].pc \notin {"none", "done", "dead"}

\* The switch that validates a request; the other cases return an error
\* before anything is written.
ValidInitiate(req) == req.complete /\ (req.publish => req.channel)

\* The row Create inserts; succeeded and processed take the column default.
SubmittedRow == [NoRow EXCEPT !.status = "STK_REQUEST_SUBMITED"]

\* Columns the goroutine's two Updates write.
SavedAnswer(row, c) ==
  [row EXCEPT !.checkout = c, !.status = "STK_REQUEST_SUCCESS",
              !.succeeded = "NO", !.processed = "NO"]

\* Slip: Save of the goroutine's own copy instead of Updates of three columns.
SavedWholeCopy(row) == [SubmittedRow EXCEPT !.status = "STK_REQUEST_FAILED"]

SavedFailure(row) ==
  [row EXCEPT !.status = "STK_REQUEST_FAILED", !.succeeded = "NO", !.processed = "NO"]

\* The faults that send the goroutine into its failure branch when its row can be
\* found already.
LateFaults == {"db", "redis", "slow", "encode"}

Goto(t, pc) == push' = [push EXCEPT ![t].pc = pc]

-----------------------------------------------------------------------------

\* The RPC: validate, insert the row, start the goroutine, answer "Processing".
\* When the insert reports an error the RPC does, and no goroutine is started: a row
\* that was inserted all the same has none.
InitiateSTK(t, req) ==
  /\ ValidInitiate(req)
  /\ IsNextId(t)
  /\ rows' = [rows EXCEPT ![t] = SubmittedRow]
  /\ \E pc \in {"posting"} \cup (IF "db" \in Faults THEN {"dead"} ELSE {}) :
       push' = [push EXCEPT ![t] = [pc |-> pc, req |-> req]]
  /\ UNCHANGED <<cache, mpesaVars>>

\* HTTPClient.Do puts the push on the wire.
PostPush(t) ==
  /\ push[t].pc = "posting"
  /\ mpesa' = [mpesa EXCEPT ![t] = "requested"]
  /\ Goto(t, "waiting")
  /\ UNCHANGED <<storeVars, deliveries>>

\* Slip: caching the request before the row is updated.
PushAnsweredUnsaved(t) ==
  /\ push[t].pc = "waiting"
  /\ Accepted(t)
  /\ Goto(t, "caching")
  /\ UNCHANGED <<storeVars, mpesaVars>>

\* Do returns JSON with a CheckoutRequestID in it.
PushAnswered(t) ==
  /\ push[t].pc = "waiting"
  /\ Accepted(t)
  /\ Goto(t, "saving")
  /\ UNCHANGED <<storeVars, mpesaVars>>

\* Slip: an early return that skips the failure branch.
PushFailsSilently(t) ==
  /\ push[t].pc \in {"posting", "waiting"}
  /\ Goto(t, "done")
  /\ UNCHANGED <<storeVars, mpesaVars>>

\* Do fails (no route, or 30 s without a response, whatever M-Pesa did with the
\* push), or the response is undecodable, carries an errorMessage, has no
\* CheckoutRequestID or is of another content type.
PushFails(t) ==
  /\ push[t].pc \in {"posting", "waiting"}
  /\ Goto(t, "failing")
  /\ UNCHANGED <<storeVars, mpesaVars>>

\* Model(db).Updates(REQUEST_SUCCESS ...): from here a callback can find the row,
\* also when the statement reports an error and has been carried out.
SaveAnswer(t) ==
  LET saved == [rows EXCEPT ![t] = SavedAnswer(@, CheckoutId(t))]
  IN  /\ push[t].pc = "saving"
      /\ \/ rows' = saved /\ Goto(t, "caching")
         \/ "db" \in Faults /\ rows' \in FailedOutcomes(rows, saved) /\ Goto(t, "failing")
      /\ UNCHANGED <<cache, mpesaVars>>

\* Slip: taking the failure branch without looking at Set's error.
CacheRequestUnchecked(t) ==
  /\ push[t].pc = "caching"
  /\ cache' = [cache EXCEPT ![CheckoutId(t)] = push[t].req]
  /\ Goto(t, "failing")
  /\ UNCHANGED <<rows, mpesaVars>>

\* Slip: writing the answer into the row once more after the request is cached.
CacheThenSaveAgain(t) ==
  /\ push[t].pc = "caching"
  /\ cache' = [cache EXCEPT ![CheckoutId(t)] = push[t].req]
  /\ rows' = [rows EXCEPT ![t] = SavedAnswer(@, CheckoutId(t))]
  /\ Goto(t, "done")
  /\ UNCHANGED mpesaVars

\* proto.Marshal, which may fail, and RedisDB.Set, under the 15 s context the goroutine
\* opened before a Do that may take 30 s and an Updates that may take any time: Set
\* fails when Redis does or when either was slow, and one that reports an error may
\* have stored the value all the same.
CacheRequest(t) ==
  LET cached == [cache EXCEPT ![CheckoutId(t)] = push[t].req]
  IN  /\ push[t].pc = "caching"
      /\ \/ cache' = cached /\ Goto(t, "done")
         \/ "encode" \in Faults /\ Goto(t, "failing") /\ UNCHANGED cache
         \/ /\ {"redis", "slow"} \cap Faults # {}
            /\ cache' \in FailedOutcomes(cache, cached)
            /\ Goto(t, "failing")
      /\ UNCHANGED <<rows, mpesaVars>>

\* The failure branch, whichever step failed; its own failure is only logged.
MarkFailed(t) ==
  LET marked == [rows EXCEPT ![t] = SavedFailure(@)]
  IN  /\ push[t].pc = "failing"
      /\ rows' \in {marked} \cup (IF "db" \in Faults THEN FailedOutcomes(rows, marked) ELSE {})
      /\ Goto(t, "done")
      /\ UNCHANGED <<cache, mpesaVars>>

PushStep(t) ==
  \/ PostPush(t)
  \/ PushAnswered(t)
  \/ PushFails(t)
  \/ SaveAnswer(t)
  \/ CacheRequest(t)
  \/ MarkFailed(t)

PushInit == push = [t \in Ids |-> [pc |-> "none", req |-> NoReq]]

PushTypeOK ==
  push \in [Ids -> [pc: PushStates, req: Requests \cup {NoReq}]]
=============================================================================
