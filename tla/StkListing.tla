----------------------------- MODULE StkListing -----------------------------
(***************************************************************************)
(* ListStkTransactions (internal/stk/v1/stk.go), which hands out a page of *)
(* the table and a token for the next.  A client reads page after page     *)
(* while requests insert rows, answers and callbacks move the              *)
(* transaction_time and the status of others, orders mark them processed   *)
(* and the phones the client may see change, so a listing is a session     *)
(* that many other steps interleave with, and a request several            *)
(* statements.  Filters on columns that never change select a fixed part   *)
(* of the table, which here is the table.  A time a statement writes was   *)
(* taken before it ran, by whichever replica, so rows may be moved back.   *)
(***************************************************************************)
EXTENDS Integers, FiniteSets, FiniteSetsExt

CONSTANTS
  MaxRows,      \* bound: rows ever inserted
  MaxTime,      \* bound: how far the clock runs
  LateRows,     \* bound: the rows whose times may be written late
  Ticks,        \* clock ticks in a second; a million in a datetime(6)
  DefaultPageSize,
  PageSizes,    \* the page sizes clients ask for
  Windows,      \* the times of which they ask for rows
  PhoneOf,      \* the phone of each row
  PhoneSets     \* the sets of phones a client may be restricted to

VARIABLES
  now,          \* the clock
  count,        \* rows 1..count exist
  txTime,       \* their transaction_time
  match,        \* the rows whose status, processed flag and receipt the filter asks for
  allowed,      \* the client's set of phones in Redis
  session       \* one client's listing

vars == <<now, count, txTime, match, allowed, session>>

AllTime == [from |-> 0, to |-> MaxTime]

ASSUME ListingAssumption ==
  /\ MaxRows \in Nat
  /\ MaxTime \in Nat
  /\ Ticks \in Nat \ {0}
  /\ DefaultPageSize \in Nat \ {0}
  /\ PageSizes \subseteq Nat
  /\ AllTime \in Windows

Ids == 1..MaxRows
Rows == 1..count

StkOrderField == {"STK_ORDER_FIELD_UNSPECIFIED", "CREATE_TIMESTAMP", "TRANSACTION_TIMESTAMP"}

NoKey == -1

Stages == {"new", "asked", "counted", "open", "asked again", "done"}

\* order, window: of the session's requests; key: what its page token holds; phones:
\* those the request being served found in Redis; seen: how often each row has been
\* returned.  For the properties: first, the last row there was when the rows were
\* counted, or at the first page; moved and wavered, the rows that since then were
\* moved, or at some moment were not asked for or not allowed; sunk, those a listing by
\* transaction time had returned when they were moved back; keys, all its tokens';
\* granted, the client's sets of phones since the request being served began.
Session ==
  [pc: Stages, order: StkOrderField, window: Windows, key: Nat \cup {NoKey},
   phones: PhoneSets, seen: [Ids -> Nat], first: Ids \cup {0}, moved: SUBSET Ids,
   wavered: SUBSET Ids, sunk: SUBSET Ids, keys: SUBSET Nat, granted: SUBSET PhoneSets]

NewSession(order, window, phones) ==
  [pc |-> "new", order |-> order, window |-> window, key |-> NoKey, phones |-> phones,
   seen |-> [r \in Ids |-> 0], first |-> 0, moved |-> {}, wavered |-> {}, sunk |-> {},
   keys |-> {}, granted |-> {}]

\* The page size a request gets: only an administrator's is more than the default.
PageSize(asked, admin) ==
  IF asked = 0 \/ (asked > DefaultPageSize /\ ~admin) THEN DefaultPageSize ELSE asked

\* No phones is no restriction.
Permitted(phones) == {r \in Ids : phones # {} => PhoneOf[r] \in phones}

\* BETWEEN, on the column the order field names; with no order field nothing.
InWindow(s, r) ==
  s.order = "TRANSACTION_TIMESTAMP" => s.window.from <= txTime[r] /\ txTime[r] <= s.window.to

\* Slip: formatted without UTC(), in a zone behind it.
SecondLocal(t) == t - (t % Ticks) - Ticks

\* RFC3339 keeps whole seconds.
Second(t) == t - (t % Ticks)

\* Slip: the key's own row selected again.
NotAboveKey(s, r) ==
  s.key # NoKey =>
    /\ s.order = "CREATE_TIMESTAMP" => r <= s.key
    /\ s.order = "TRANSACTION_TIMESTAMP" => txTime[r] <= s.key

\* The Where on the key.
BelowKey(s, r) ==
  s.key # NoKey =>
    /\ s.order = "CREATE_TIMESTAMP" => r < s.key
    /\ s.order = "TRANSACTION_TIMESTAMP" => txTime[r] < s.key

\* Slip: the phones not put into the query.
SelectedUnrestricted(s) == {r \in Rows \cap match : InWindow(s, r) /\ BelowKey(s, r)}

\* The rows the query's conditions leave.  One on initiator_transaction_reference names
\* no column of the table: that query fails, which is no step.
Selected(s) ==
  {r \in Rows \cap match \cap Permitted(s.phones) : InWindow(s, r) /\ BelowKey(s, r)}

\* Whether Order may put p before q; without an order any row may come first.
Before(order, p, q) ==
  CASE order = "CREATE_TIMESTAMP" -> p > q
    [] order = "TRANSACTION_TIMESTAMP" -> txTime[p] >= txTime[q]
    [] OTHER -> TRUE

\* The pages of at most size rows that a Find over sel may begin with.
IsPage(order, sel, size, page) ==
  /\ page \subseteq sel
  /\ Cardinality(page) = IF Cardinality(sel) > size THEN size ELSE Cardinality(sel)
  /\ \A p \in page, q \in sel \ page : Before(order, p, q)

LastInPage(order, page, r) == r \in page /\ \A p \in page : Before(order, p, r) \/ p = r

\* Slip: the key of the row that was fetched only to see whether there is a next page.
KeyAfterExtra(order, r) ==
  CASE order = "CREATE_TIMESTAMP" -> r - 1
    [] order = "TRANSACTION_TIMESTAMP" -> Second(txTime[r])
    [] OTHER -> NoKey

\* Slip: a key made exclusive, though the Where already is.
KeyAfterBelow(order, r) ==
  CASE order = "CREATE_TIMESTAMP" -> r
    [] order = "TRANSACTION_TIMESTAMP" -> Second(txTime[r]) - 1
    [] OTHER -> NoKey

\* Slip: a key where no Where uses one.
KeyAfterAnyway(order, r) ==
  IF order = "TRANSACTION_TIMESTAMP" THEN Second(txTime[r]) ELSE r

\* The key of the last row of a page, from which the token is made.
KeyAfter(order, r) ==
  CASE order = "CREATE_TIMESTAMP" -> r
    [] order = "TRANSACTION_TIMESTAMP" -> Second(txTime[r])
    [] OTHER -> NoKey

\* The key of the next page, when the query found one row more than a page.
NextKeys(order, sel, size, page) ==
  IF Cardinality(sel) > size
    THEN {KeyAfter(order, r) : r \in {p \in page : LastInPage(order, page, p)}}
    ELSE {NoKey}

-----------------------------------------------------------------------------

\* The times a statement may write: its request took one before it ran.
TakenTimes(r) == IF r \in LateRows THEN 0..now ELSE {now}

\* InitiateSTK inserts a row, which the filter may ask for.
Insert ==
  /\ count < MaxRows
  /\ count' = count + 1
  /\ \E taken \in TakenTimes(count + 1) : txTime' = [txTime EXCEPT ![count + 1] = taken]
  /\ match' \in {match, match \cup {count + 1}}
  /\ UNCHANGED <<now, allowed, session>>

\* A request is between its statements.
Serving == session.pc \in {"asked", "counted", "asked again"}

\* What the history gains: of the rows there were, if the client counts on them yet.
Gains(history, rows) == history \cup (rows \cap 1..session.first)

\* Row r has been returned by a listing by transaction time, and moves back to taken.
Sinks(r, taken) ==
  /\ session.order = "TRANSACTION_TIMESTAMP"
  /\ session.seen[r] # 0
  /\ taken < txTime[r]

\* The answer to a row's push, its failure or a callback's result changes the status
\* and moves the transaction_time to the moment it was handled, which another that
\* was handled later may have overtaken.
RecordResult(r) ==
  /\ r \in Rows
  /\ match' \in {match \cup {r}, match \ {r}}
  /\ \E taken \in TakenTimes(r) :
       /\ txTime' = [txTime EXCEPT ![r] = taken]
       /\ session' = [session EXCEPT !.moved = Gains(@, {r}),
                                     !.wavered = Gains(@, {r} \ match'),
                                     !.sunk = IF Sinks(r, taken) THEN @ \cup {r} ELSE @]
  /\ UNCHANGED <<now, count, allowed>>

\* An order changes the processed flag alone.
Remark(r) ==
  /\ r \in Rows
  /\ match' \in {match \cup {r}, match \ {r}}
  /\ session' = [session EXCEPT !.wavered = Gains(@, {r} \ match')]
  /\ UNCHANGED <<now, count, txTime, allowed>>

\* Whoever keeps the sets of phones changes the client's (external).
ChangeAllowed(phones) ==
  /\ allowed' = phones
  /\ session' = IF Serving THEN [session EXCEPT !.granted = @ \cup {phones}] ELSE session
  /\ UNCHANGED <<now, count, txTime, match>>

Tick ==
  /\ now < MaxTime
  /\ now' = now + 1
  /\ UNCHANGED <<count, txTime, match, allowed, session>>

\* A request begins with SMembers; what it reads is not read again.
ReadAllowed ==
  /\ session.pc \in {"new", "open"}
  /\ session' = [session EXCEPT !.pc = IF @ = "new" THEN "asked" ELSE "asked again",
                                !.phones = allowed, !.granted = {allowed},
                                !.wavered = Gains(@, Ids \ Permitted(allowed))]
  /\ UNCHANGED <<now, count, txTime, match, allowed>>

\* The session as it is when the client begins to count on the rows there are.
Counted(s) ==
  [s EXCEPT !.first = count, !.moved = {},
            !.wavered = Rows \ (match \cap Permitted(s.phones))]

\* In the basic view the first request counts the rows, in a statement of its own.
CountCollection ==
  /\ session.pc = "asked"
  /\ session' = [Counted(session) EXCEPT !.pc = "counted"]
  /\ UNCHANGED <<now, count, txTime, match, allowed>>

\* Find: a page, and the token of the next one when the query found one row more.
\* With no order field no key is ever set, and the token of no key is no token.
ListStkTransactions(size) ==
  /\ Serving
  /\ \E page \in SUBSET Rows :
       /\ IsPage(session.order, Selected(session), size, page)
       /\ \E key \in NextKeys(session.order, Selected(session), size, page) :
            session' =
              [(IF session.pc = "asked" THEN Counted(session) ELSE session) EXCEPT
                 !.pc = IF key = NoKey THEN "done" ELSE "open",
                 !.key = key, !.granted = {},
                 !.keys = IF key = NoKey THEN @ ELSE @ \cup {key},
                 !.seen = [r \in Ids |-> IF r \in page THEN @[r] + 1 ELSE @[r]]]
  /\ UNCHANGED <<now, count, txTime, match, allowed>>

Init ==
  /\ now = 0
  /\ count = 0
  /\ txTime = [r \in Ids |-> 0]
  /\ match = {}
  /\ allowed \in PhoneSets
  /\ \E order \in StkOrderField, window \in Windows :
       /\ order # "TRANSACTION_TIMESTAMP" => window = AllTime
       /\ session = NewSession(order, window, allowed)

\* Bound: what happens after the listing's end is left out.
Next ==
  /\ session.pc # "done"
  /\ \/ Insert
     \/ \E r \in Ids : RecordResult(r)
     \/ \E r \in Ids : Remark(r)
     \/ \E phones \in PhoneSets : ChangeAllowed(phones)
     \/ Tick
     \/ ReadAllowed
     \/ CountCollection
     \/ \E asked \in PageSizes, admin \in BOOLEAN :
          ListStkTransactions(PageSize(asked, admin))

Spec == Init /\ [][Next]_vars

-----------------------------------------------------------------------------

\* Every variable has its type.
TypeOK ==
  /\ now \in 0..MaxTime
  /\ count \in 0..MaxRows
  /\ txTime \in [Ids -> 0..MaxTime]
  /\ match \in SUBSET Ids
  /\ allowed \in PhoneSets
  /\ session \in Session

\* No listing returns a row twice, whatever is inserted, moved, marked or allowed
\* between its pages and however large they are (stk.go:486, :488), but for one: a row
\* that a listing by transaction time has returned and that an earlier callback, whose
\* statement ran later, has moved back since (cmd/app/stk.go:168).
NoRowTwice ==
  \A r \in Ids : session.seen[r] > 1 =>
    session.order = "TRANSACTION_TIMESTAMP" /\ r \in session.sunk

\* A listing by creation that has come to its end has returned every row that was
\* counted and that its filter and the client's phones never left out meanwhile: an
\* administrator who works off the unprocessed rows misses none by processing the
\* others (stk.go:486, :550-564, :570, :577, :608).
CreationListingComplete ==
  session.pc = "done" /\ session.order = "CREATE_TIMESTAMP" =>
    \A r \in 1..session.first \ session.wavered : session.seen[r] = 1

\* A listing by transaction time may leave out more of them, but only rows an answer
\* or a callback moved while it ran and rows of the same second as the last of some
\* page, since the token keeps whole seconds (stk.go:603).
TimeListingGaps ==
  session.pc = "done" /\ session.order = "TRANSACTION_TIMESTAMP" =>
    \A r \in 1..session.first \ session.wavered : InWindow(session, r) =>
      \/ session.seen[r] = 1
      \/ r \in session.moved
      \/ Second(txTime[r]) \in session.keys

\* A listing without an order field ends with its first page, as if there were no
\* more (stk.go:599-611): it has returned all it should, or just a page.
UnorderedListingEnds ==
  session.pc \in {"open", "done"} /\ session.order = "STK_ORDER_FIELD_UNSPECIFIED" =>
    /\ session.pc = "done"
    /\ \/ \A r \in 1..session.first \ session.wavered : session.seen[r] = 1
       \/ Cardinality({r \in Ids : session.seen[r] = 1})
             \in {PageSize(asked, admin) : asked \in PageSizes, admin \in BOOLEAN}

\* A client sees a row only if it was allowed to while the page was asked for: the
\* phones read before the two queries are never older than the request
\* (stk.go:451, :499), nor a former page's.
ShownWasAllowed ==
  [][\A r \in Ids : session'.seen[r] # session.seen[r] =>
       \E phones \in session.granted : r \in Permitted(phones)]_vars
=============================================================================
