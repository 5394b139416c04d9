-------------------------- MODULE StkResultsProofs --------------------------
(***************************************************************************)
(* Proofs about StkResults, for any number of rows, pages of any size and  *)
(* any faults: the worker's queries name no push, and so its steps are     *)
(* stuttering steps of the service; and a round that goes on goes on with  *)
(* rows it has had.                                                        *)
(***************************************************************************)
EXTENDS StkResults, StkServiceProofs, FiniteSetTheorems

\* The inductive invariant of the worker.
WInv == ResultsTypeOK /\ QueriesNameNoPush

\* What a page holds are submitted rows, and their ids.
LEMMA PageFacts ==
  ASSUME aged \subseteq Ids, NEW after \in Ids \cup {0}
  PROVE  /\ Page(after) \subseteq Ids
         /\ \A t \in Page(after) : rows[t].status = "STK_REQUEST_SUBMITED"
BY DEF Page, Backlog

\* Any set of rows is finite.
LEMMA SomeIds ==
  ASSUME NEW S \in SUBSET Ids
  PROVE  IsFiniteSet(S) /\ Cardinality(S) \in Nat
<1>1. IsFiniteSet(Ids)
  <2>1. MaxTxns \in Int /\ 1 \in Int
    BY StoreAssumption
  <2>2. IsFiniteSet(1..MaxTxns)
    BY <2>1, FS_Interval
  <2> QED BY <2>2 DEF Ids
<1>2. IsFiniteSet(S)
  BY <1>1, FS_Subset
<1> QED BY <1>2, FS_CardinalityType

\* The backlog above a row of the page, which the limit bounds.
LEMMA BacklogFacts ==
  ASSUME aged \subseteq Ids, NEW after \in Ids \cup {0}, NEW last \in Page(after)
  PROVE  LET left == {u \in Backlog(after) : u > last}
         IN  /\ IsFiniteSet(left) /\ Cardinality(left) \in Nat /\ Cardinality(left) <= Limit
             /\ left = Backlog(last) /\ last > after
<1> DEFINE left == {u \in Backlog(after) : u > last}
<1>1. last \in Backlog(after) /\ Cardinality(left) <= Limit
  BY DEF Page
<1>2. last \in Int /\ after \in Int /\ last > after /\ \A u \in aged : u \in Int
  BY <1>1, IdsFacts DEF Backlog
<1>3. left = Backlog(last)
  <2>1. \A u \in aged : u > last => u > after
    BY <1>2
  <2>2. \A u : u \in left <=> u \in Backlog(last)
    BY <2>1 DEF Backlog
  <2> QED BY <2>2
<1>4. left \in SUBSET Ids
  BY DEF Backlog
<1> HIDE DEF left
<1>5. IsFiniteSet(left) /\ Cardinality(left) \in Nat
  BY <1>4, SomeIds
<1> QED BY <1>1, <1>2, <1>3, <1>5 DEF left

\* What lies above a row of the page is on the page.
LEMMA PageAbove ==
  ASSUME aged \subseteq Ids, NEW after \in Ids \cup {0}, NEW last \in Page(after)
  PROVE  {u \in Backlog(after) : u > last} \subseteq Page(after)
<1> SUFFICES ASSUME NEW t \in Backlog(after), t > last PROVE t \in Page(after)
  OBVIOUS
<1> DEFINE above(r) == {u \in Backlog(after) : u > r}
<1>1. t \in Int /\ last \in Int /\ \A u \in Backlog(after) : u \in Int
  BY IdsFacts DEF Backlog, Page
<1>2. above(t) \in SUBSET above(last)
  <2>1. \A u \in Backlog(after) : u > t => u > last
    BY <1>1
  <2> QED BY <2>1
<1>3. IsFiniteSet(above(last)) /\ Cardinality(above(last)) \in Nat
      /\ Cardinality(above(last)) <= Limit
  BY BacklogFacts
<1>4. Cardinality(above(t)) \in Nat
  <2>1. above(t) \in SUBSET Ids
    BY DEF Backlog
  <2> HIDE DEF above
  <2> QED BY <2>1, SomeIds
<1>5. Cardinality(above(t)) <= Cardinality(above(last))
  <2> HIDE DEF above
  <2> QED BY <1>2, <1>3, FS_Subset
<1>6. Cardinality(above(t)) <= Limit
  <2> HIDE DEF above
  <2> QED BY <1>3, <1>4, <1>5, LimitAssumption
<1> QED BY <1>6 DEF Page

\* Reading a page.  A submitted row has no CheckoutRequestID, so no query has one.
LEMMA SelectPageKeeps ==
  ASSUME IInv, WInv, SelectPage
  PROVE  WInv'
<1> USE DEF WInv, ResultsTypeOK
<1> DEFINE page == Page(worker.after)
<1>1. page \subseteq Ids /\ \A t \in page : rows[t].status = "STK_REQUEST_SUBMITED"
  BY PageFacts
<1>2. \A t \in page : rows[t].checkout = 0
  BY <1>1 DEF IInv, RowInv
<1>3. Queries(page) \in SUBSET Query /\ \A q \in Queries(page) : q.checkout = 0
  BY <1>1, <1>2 DEF Query, Queries
<1>4. \E last \in Ids \cup {0} :
        worker' = [pc |-> "querying", after |-> last, next |-> Cardinality(page) > Limit,
                   batch |-> worker.batch \cup Queries(page)]
  BY DEF SelectPage
<1>5. aged' = aged
  BY DEF SelectPage
<1> HIDE DEF page
<1> QED BY <1>3, <1>4, <1>5 DEF QueriesNameNoPush

\* Every step of the whole keeps what the worker may rely on.
LEMMA WInvKeeps ==
  ASSUME IInv, WInv, [ResultsNext]_resultsVars
  PROVE  WInv'
<1> USE DEF WInv, ResultsTypeOK, QueriesNameNoPush
<1>1. CASE StepBesideWorker \/ UNCHANGED resultsVars
  BY <1>1 DEF StepBesideWorker, resultsVars
<1>2. CASE CrashWithWorker
  BY <1>2 DEF CrashWithWorker, SleepingWorker
<1>3. CASE \E t \in Ids : Age(t)
  BY <1>3 DEF Age
<1>4. CASE StartRound
  BY <1>4 DEF StartRound, SleepingWorker
<1>5. CASE SelectPage
  BY <1>5, SelectPageKeeps
<1>6. CASE \E q \in worker.batch : UpdateSTKResult(q)
  <2>1. PICK q \in worker.batch : UpdateSTKResult(q)
    BY <1>6
  <2>2. worker' = [worker EXCEPT !.batch = worker.batch \ {q}] /\ aged' = aged
    BY <2>1 DEF UpdateSTKResult
  <2> QED BY <2>2
<1>7. CASE EndPage
  BY <1>7 DEF EndPage
<1>8. CASE SelectFails
  BY <1>8 DEF SelectFails, SleepingWorker
<1> QED BY <1>1, <1>2, <1>3, <1>4, <1>5, <1>6, <1>7, <1>8 DEF ResultsNext, WorkerStep

\* A query that names no push has no answer to write into its row.
LEMMA QueryWritesNothing ==
  ASSUME WInv, NEW q \in worker.batch, UpdateSTKResult(q)
  PROVE  UNCHANGED vars
<1>1. q.checkout \notin Ids
  BY IdsFacts DEF WInv, QueriesNameNoPush
<1>2. UNCHANGED rows
  BY <1>1 DEF UpdateSTKResult, WithQueryResult
<1> QED BY <1>2 DEF UpdateSTKResult, vars, storeVars

\* Every step of the whole is a step of the service or none.
LEMMA ResultsStepIsService ==
  ASSUME WInv, [ResultsNext]_resultsVars
  PROVE  [Next]_vars
<1>1. CASE StepBesideWorker \/ CrashWithWorker
  BY <1>1 DEF StepBesideWorker, CrashWithWorker, Next
<1>2. CASE \E q \in worker.batch : UpdateSTKResult(q)
  BY <1>2, QueryWritesNothing
<1>3. CASE (\E t \in Ids : Age(t)) \/ StartRound \/ SelectPage \/ SelectFails \/ EndPage
            \/ UNCHANGED resultsVars
  BY <1>3 DEF Age, StartRound, SelectPage, SelectFails, EndPage, resultsVars
<1> QED BY <1>1, <1>2, <1>3 DEF ResultsNext, WorkerStep

LEMMA InitWInv == ResultsInit => Init /\ IInv /\ WInv
<1> SUFFICES ASSUME ResultsInit PROVE Init /\ IInv /\ WInv
  OBVIOUS
<1> QED BY InitIInv
    DEF ResultsInit, WInv, ResultsTypeOK, QueriesNameNoPush, SleepingWorker

\* The service's invariant holds beside the worker, and the worker's own.
THEOREM ResultsInvariance == ResultsSpec => [](IInv /\ WInv)
<1>1. IInv /\ WInv /\ [ResultsNext]_resultsVars => (IInv /\ WInv)'
  BY ResultsStepIsService, NextKeeps, WInvKeeps
<1> QED BY InitWInv, <1>1, PTL DEF ResultsSpec

\* Every variable of the worker keeps its type.
THEOREM ResultsTypeCorrect == ResultsSpec => []ResultsTypeOK
<1>1. WInv => ResultsTypeOK
  BY DEF WInv
<1> QED BY <1>1, ResultsInvariance, PTL

\* No query the worker makes names a push.
THEOREM QueriesAreBlank == ResultsSpec => []QueriesNameNoPush
<1>1. WInv => QueriesNameNoPush
  BY DEF WInv
<1> QED BY <1>1, ResultsInvariance, PTL

\* A round that goes on after a page has nothing left but rows of that page.
THEOREM RoundsLeaveOnePage == ResultsSpec => RoundLeavesOnePage
<1>1. ASSUME WInv, [ResultsNext]_resultsVars,
             worker.pc = "paging", worker'.pc = "querying", worker'.next
      PROVE  /\ worker'.after > worker.after
             /\ Backlog(worker'.after) \subseteq Page(worker.after)
             /\ Cardinality(Backlog(worker'.after)) <= Limit
  <2> DEFINE page == Page(worker.after)
  <2>1. aged \subseteq Ids /\ worker.after \in Ids \cup {0}
    BY <1>1 DEF WInv, ResultsTypeOK
  <2>2. SelectPage
    <3>1. CASE UNCHANGED worker
      BY <1>1, <3>1
    <3>2. CASE worker' = SleepingWorker
      BY <1>1, <3>2 DEF SleepingWorker
    <3>3. CASE StartRound \/ (\E q \in worker.batch : UpdateSTKResult(q)) \/ EndPage
      BY <1>1, <3>3 DEF StartRound, UpdateSTKResult, EndPage
    <3> QED BY <1>1, <3>1, <3>2, <3>3
            DEF ResultsNext, WorkerStep, StepBesideWorker, CrashWithWorker, Age, SelectFails,
                resultsVars
  <2>3. LastOf(page, worker'.after) /\ Cardinality(page) > Limit
    <3> DEFINE batch == worker.batch \cup Queries(page)
    <3>1. PICK last \in Ids \cup {0} :
            /\ LastOf(page, last)
            /\ worker' = [pc |-> "querying", after |-> last,
                          next |-> Cardinality(page) > Limit, batch |-> batch]
      BY <2>2 DEF SelectPage
    <3> HIDE DEF batch, page
    <3>2. worker'.after = last /\ worker'.next = (Cardinality(page) > Limit)
      BY <3>1
    <3> QED BY <1>1, <3>1, <3>2
  <2>4. page # {}
    <3>1. Cardinality({}) = 0
      BY FS_EmptySet
    <3> QED BY <2>3, <3>1, LimitAssumption
  <2>5. worker'.after \in page
    BY <2>3, <2>4 DEF LastOf
  <2> DEFINE left == {u \in Backlog(worker.after) : u > worker'.after}
  <2>6. /\ Cardinality(left) <= Limit /\ left = Backlog(worker'.after)
        /\ worker'.after > worker.after
    BY <2>1, <2>5, BacklogFacts
  <2>7. left \subseteq page
    BY <2>1, <2>5, PageAbove
  <2> QED BY <2>6, <2>7
<1>2. WInv /\ [ResultsNext]_resultsVars =>
        [worker.pc = "paging" /\ worker'.pc = "querying" /\ worker'.next =>
           /\ worker'.after > worker.after
           /\ Backlog(worker'.after) \subseteq Page(worker.after)
           /\ Cardinality(Backlog(worker'.after)) <= Limit]_resultsVars
  BY <1>1
<1> QED BY <1>2, ResultsInvariance, PTL DEF ResultsSpec, RoundLeavesOnePage

\* The service with the worker does what the service does without it.
THEOREM WorkerHasNoEffect == ResultsSpec => WorkerIsNoActor
<1>1. WInv /\ [ResultsNext]_resultsVars => [Next]_vars
  BY ResultsStepIsService
<1> QED BY InitWInv, <1>1, ResultsInvariance, PTL DEF ResultsSpec, WorkerIsNoActor, Spec

\* So the ledger is kept with the worker running, too.
THEOREM WorkerKeepsLedger == ResultsSpec => ImplementsLedger
<1> QED BY WorkerHasNoEffect, ServiceKeepsLedger DEF WorkerIsNoActor
=============================================================================
