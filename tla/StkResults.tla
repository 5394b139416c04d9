----------------------------- MODULE StkResults -----------------------------
(***************************************************************************)
(* The results worker (internal/stk/v1/worker.go), which runs when         *)
(* AllowQueryStatus is set: every five minutes it takes the rows that are  *)
(* still STK_REQUEST_SUBMITED ten minutes after they were made, a page at  *)
(* a time, asks M-Pesa for the result of each and writes it into the row.  *)
(* It runs beside the goroutines and handlers of StkService.               *)
(***************************************************************************)
EXTENDS StkService

CONSTANTS
  Limit       \* a page holds Limit + 1 rows; 1000 in the code

VARIABLES
  aged,       \* the rows made more than ten minutes ago
  worker      \* the worker's step and local variables

resultsVars == <<vars, aged, worker>>

ASSUME LimitAssumption == Limit \in Nat

\* A row of dbs as it was when the page was read.
Query == [id: Ids, checkout: Int]

\* after, next: ID and next; batch: the rows the goroutines of the round have still
\* to ask about.
SleepingWorker == [pc |-> "sleeping", after |-> 0, next |-> TRUE, batch |-> {}]

\* Slip: every old row, whatever its status.
BacklogOfAll(after) == {t \in aged : t > after}


\* The rows the query selects, before the limit.
Backlog(after) == {t \in aged : rows[t].status = "STK_REQUEST_SUBMITED" /\ t > after}

\* Order id desc, Limit + 1 rows.
Page(after) ==
  {t \in Backlog(after) : Cardinality({u \in Backlog(after) : u > t}) <= Limit}

\* A goroutine for each row of the page.
Queries(page) == {[id |-> t, checkout |-> rows[t].checkout] : t \in page}

\* The loop over a page leaves its last id in ID, or ID as it was.
LastOf(page, last) ==
  IF page = {} THEN last = worker.after ELSE last \in page /\ \A t \in page : last <= t

\* The receipt the worker makes up for a row: a system id no M-Pesa receipt equals.
SystemId(t) == MaxTxns + t

\* The row as a positive answer about checkout makes it.  M-Pesa has a result only
\* for a push that was answered; a negative one writes the bool false into
\* enum('YES','NO') and the statement fails.
WithQueryResult(q) ==
  IF q.checkout \in Ids /\ mpesa[q.checkout] = "paid"
    THEN [rows EXCEPT ![q.id] =
           [@ EXCEPT !.resultCode = "0", !.receipt = SystemId(q.id),
                     !.status = "STK_RESULT_SUCCESS", !.succeeded = "YES"]]
    ELSE rows

-----------------------------------------------------------------------------

\* Ten minutes pass.
Age(t) ==
  /\ rows[t].status # "absent"
  /\ t \notin aged
  /\ aged' = aged \cup {t}
  /\ UNCHANGED <<vars, worker>>

\* The timer fires; with no access token the round ends at once, which is no step.
StartRound ==
  /\ worker.pc = "sleeping"
  /\ worker' = [SleepingWorker EXCEPT !.pc = "paging"]
  /\ UNCHANGED <<vars, aged>>

\* Slip: ID advanced by the size of a page, as an offset would be.
SelectPageByOffset ==
  /\ worker.pc = "paging"
  /\ LET page == Page(worker.after)
     IN  worker' =
           [pc    |-> "querying",
            after |-> worker.after + Limit + 1,
            next  |-> Cardinality(page) > Limit,
            batch |-> worker.batch \cup Queries(page)]
  /\ UNCHANGED <<vars, aged>>

\* Slip: ID declared again inside the loop, so that the one outside it stays as it was.
SelectPageShadowed ==
  /\ worker.pc = "paging"
  /\ LET page == Page(worker.after)
     IN  worker' =
           [worker EXCEPT !.pc = "querying", !.next = Cardinality(page) > Limit,
                          !.batch = @ \cup Queries(page)]
  /\ UNCHANGED <<vars, aged>>

\* Find one page, and start its goroutines.
SelectPage ==
  /\ worker.pc = "paging"
  /\ LET page == Page(worker.after)
     IN  \E last \in Ids \cup {0} :
           /\ LastOf(page, last)
           /\ worker' =
                [pc    |-> "querying",
                 after |-> last,
                 next  |-> Cardinality(page) > Limit,
                 batch |-> worker.batch \cup Queries(page)]
  /\ UNCHANGED <<vars, aged>>

\* Find fails: the round ends.
SelectFails ==
  /\ "db" \in Faults
  /\ worker.pc = "paging"
  /\ worker' = SleepingWorker
  /\ UNCHANGED <<vars, aged>>

\* One goroutine of the page, from the place it gets in sem to wg.Done: sem lets five
\* of them do this at a time, in no fixed order, and each has one statement that
\* matters.  A query or a statement that fails is logged.
UpdateSTKResult(q) ==
  /\ worker.pc = "querying"
  /\ q \in worker.batch
  /\ worker' = [worker EXCEPT !.batch = @ \ {q}]
  /\ \/ rows' = WithQueryResult(q)
     \/ {"db", "slow"} \cap Faults # {} /\ UNCHANGED rows
  /\ UNCHANGED <<cache, mpesaVars, pushVars, gatewayVars, aged>>

\* wg.Wait returns: the next page, or sleep.
EndPage ==
  /\ worker.pc = "querying"
  /\ worker.batch = {}
  /\ worker' = [worker EXCEPT !.pc = IF worker.next THEN "paging" ELSE "sleeping"]
  /\ UNCHANGED <<vars, aged>>

WorkerStep ==
  \/ StartRound
  \/ SelectPage
  \/ SelectFails
  \/ \E q \in worker.batch : UpdateSTKResult(q)
  \/ EndPage

StepBesideWorker == Step /\ UNCHANGED <<aged, worker>>

CrashWithWorker == Crash /\ worker' = SleepingWorker /\ UNCHANGED aged

ResultsInit ==
  /\ Init
  /\ aged = {}
  /\ worker = SleepingWorker

ResultsNext ==
  \/ StepBesideWorker
  \/ CrashWithWorker
  \/ \E t \in Ids : Age(t)
  \/ WorkerStep

ResultsSpec == ResultsInit /\ [][ResultsNext]_resultsVars

\* The worker's goroutine runs, as those of the service do, and after some time
\* the process crashes no more and the worker's Find fails no more.
FairResultsSpec ==
  /\ ResultsSpec
  /\ \A t \in Ids : WF_resultsVars(ServerPushStep(t) /\ UNCHANGED <<aged, worker>>)
  /\ WF_resultsVars(WorkerStep)
  /\ <>[][~CrashWithWorker /\ ~SelectFails]_resultsVars

-----------------------------------------------------------------------------

\* Every variable of the worker has its type.
ResultsTypeOK ==
  /\ aged \subseteq Ids
  /\ worker \in [pc: {"sleeping", "paging", "querying"}, after: Ids \cup {0},
                 next: BOOLEAN, batch: SUBSET Query]

\* No row the worker selects has a CheckoutRequestID: the statement that saves it
\* (stk.go:335) also ends the status the worker selects by (worker.go:120), so the
\* query at worker.go:165 never names a push.
QueriesNameNoPush == \A q \in worker.batch : q.checkout = 0

\* Of a round that goes on after a page, what is left was on that page: the next
\* one starts above the least id of this one, and no more than Limit rows were
\* overdue above it when it was read (worker.go:118-132).  So the loop ends unless
\* rows keep falling due, and an older backlog is not reached by going on.
RoundLeavesOnePage ==
  [][worker.pc = "paging" /\ worker'.pc = "querying" /\ worker'.next =>
       /\ worker'.after > worker.after
       /\ Backlog(worker'.after) \subseteq Page(worker.after)
       /\ Cardinality(Backlog(worker'.after)) <= Limit]_resultsVars

\* Since its queries name no push, the worker has no effect on a row, and everything
\* the service promises without it holds with it, whatever it reads and however late
\* it acts.
WorkerIsNoActor == Spec

\* The rows that are due for a query.
Overdue == {t \in aged : rows[t].status = "STK_REQUEST_SUBMITED"}

Newest(t) == t \in Overdue /\ Cardinality({u \in Overdue : u > t}) <= Limit


\* stk.go:179, "Worker for updating STK results": an overdue row whose customer has
\* paid gets its result, when the worker runs and its queries are answered.
OverdueGetsResult ==
  \A t \in Ids : t \in Overdue /\ mpesa[t] = "paid" ~> t \notin Overdue
=============================================================================
