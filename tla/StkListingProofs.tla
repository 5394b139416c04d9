-------------------------- MODULE StkListingProofs --------------------------
(***************************************************************************)
(* Proofs about StkListing, for tables and pages of any size and seconds   *)
(* of any number of ticks: what a listing may leave out and that it never  *)
(* repeats a row.                                                          *)
(***************************************************************************)
EXTENDS StkListing, FiniteSetTheorems, TLAPS

\* A second begins no later than the times in it.
LEMMA SecondFacts ==
  ASSUME NEW t \in Nat
  PROVE  Second(t) \in Nat /\ Second(t) <= t
<1>1. t % Ticks \in 0..(Ticks - 1)
  BY ListingAssumption
<1>2. t % Ticks <= t
  BY ListingAssumption
<1> QED BY <1>1, <1>2, ListingAssumption DEF Second

\* A time between the beginning of a second and a time in it is in it too.
LEMMA SameSecond ==
  ASSUME NEW t \in Nat, NEW u \in Nat, Second(t) <= u, u <= t
  PROVE  Second(u) = Second(t)
<1>1. t % Ticks \in 0..(Ticks - 1) /\ u % Ticks \in 0..(Ticks - 1)
  BY ListingAssumption
<1> DEFINE q == t \div Ticks
<1>2. t = Ticks * q + (t % Ticks) /\ q \in Nat
  BY ListingAssumption
<1>3. u = Ticks * q + (u - Ticks * q) /\ u - Ticks * q \in 0..(Ticks - 1)
  BY <1>1, <1>2, ListingAssumption DEF Second
<1>4. u % Ticks = u - Ticks * q
  BY <1>3, <1>2, ListingAssumption
<1> QED BY <1>2, <1>4, ListingAssumption DEF Second

-----------------------------------------------------------------------------

\* A listing before its first page, and one between its pages.
Fresh == session.pc \in {"new", "asked", "counted"}
Going == session.pc \in {"open", "asked again"}

\* The rows the client counts on, as long as nothing left them out.
Steady(s) == 1..s.first \ s.wavered

\* What the key of a going session says of the rows seen so far.
OpenByCreation ==
  Going /\ session.order = "CREATE_TIMESTAMP" =>
    \A r \in Ids :
      /\ r < session.key => session.seen[r] = 0
      /\ r \in Steady(session) /\ session.key <= r => session.seen[r] = 1

OpenByTime ==
  Going /\ session.order = "TRANSACTION_TIMESTAMP" =>
    /\ session.key <= now
    /\ \A r \in Ids : session.seen[r] # 0 => session.key <= txTime[r] \/ r \in session.sunk
    /\ \A r \in Steady(session) : InWindow(session, r) =>
         \/ session.seen[r] = 1
         \/ r \in session.moved
         \/ Second(txTime[r]) \in session.keys
         \/ txTime[r] < session.key

\* The query finds the rows the client counts on, unless their time or key forbids.
SteadyRowsMatch ==
  /\ session.pc \in {"new", "asked"} => session.first = 0
  /\ session.pc # "done" => Steady(session) \subseteq match
  /\ session.pc \in {"counted", "asked again"} =>
       Steady(session) \subseteq Permitted(session.phones)

\* Only what has been returned can sink, by a late write, and of the rows the client
\* counts on those that sink are moved.
SunkWereMoved ==
  /\ session.sunk \subseteq LateRows
  /\ Fresh => session.sunk = {}
  /\ \A r \in session.sunk : r \in 1..session.first => r \in session.moved

LInv ==
  /\ TypeOK
  /\ \A r \in Ids : txTime[r] <= now
  /\ \A r \in Ids : session.seen[r] # 0 => r <= count
  /\ SunkWereMoved
  /\ session.first <= count
  /\ Fresh => session.key = NoKey /\ \A r \in Ids : session.seen[r] = 0
  /\ Going => session.key \in Nat /\ session.order # "STK_ORDER_FIELD_UNSPECIFIED"
  /\ Serving => session.phones \in session.granted
  /\ SteadyRowsMatch
  /\ OpenByCreation
  /\ OpenByTime
  /\ NoRowTwice
  /\ CreationListingComplete
  /\ TimeListingGaps
  /\ UnorderedListingEnds

LEMMA InitLInv == Init => LInv
<1> SUFFICES ASSUME Init PROVE LInv
  OBVIOUS
<1>1. PICK order \in StkOrderField, window \in Windows :
        session = NewSession(order, window, allowed)
  BY DEF Init
<1>2. session \in Session /\ session.pc = "new" /\ session.first = 0 /\ session.key = NoKey
      /\ session.sunk = {} /\ \A r \in Ids : session.seen[r] = 0
  BY <1>1 DEF NewSession, Session, Stages, Init
<1>3. TypeOK
  BY <1>2, ListingAssumption DEF Init, TypeOK
<1>4. SteadyRowsMatch
  BY <1>2 DEF SteadyRowsMatch, Steady
<1> QED BY <1>2, <1>3, <1>4, ListingAssumption
    DEF Init, LInv, SunkWereMoved, Fresh, Going, Serving, OpenByCreation, OpenByTime, NoRowTwice,
        CreationListingComplete, TimeListingGaps, UnorderedListingEnds, Ids

\* Steps of others, and of the session up to a page: what has been seen, the key and
\* the keys stay, and of the rows the client counts on none is gained.
LEMMA QuietStep ==
  ASSUME LInv, TypeOK', session.pc # "done", session'.pc # "done",
         Fresh' <=> Fresh, Going' <=> Going,
         session'.order = session.order, session'.window = session.window,
         session'.key = session.key, session'.keys = session.keys,
         session'.seen = session.seen, session'.first <= count', count <= count',
         now <= now', \A r \in Ids : txTime'[r] <= now',
         session.sunk \subseteq session'.sunk, SunkWereMoved',
         Serving' => session'.phones \in session'.granted,
         SteadyRowsMatch',
         Going => /\ Steady(session') \subseteq Steady(session)
                  /\ \A r \in Ids :
                       session.order = "TRANSACTION_TIMESTAMP" /\ session.seen[r] # 0 =>
                         txTime[r] <= txTime'[r] \/ r \in session'.sunk
                  /\ session.moved \subseteq session'.moved
                  /\ \A r \in Steady(session') \ session'.moved : txTime'[r] = txTime[r]
  PROVE  LInv'
<1>1. /\ now \in Nat /\ now' \in Nat
      /\ \A r \in Ids : txTime[r] \in Nat /\ txTime'[r] \in Nat
      /\ Going => session.key \in Nat
  BY ListingAssumption DEF LInv, TypeOK
<1>2. \A r \in Steady(session) : r \in Ids
  BY ListingAssumption DEF LInv, TypeOK, Session, Steady, Ids
<1>3. OpenByCreation'
  BY DEF LInv, OpenByCreation
<1>4. OpenByTime'
  <2> SUFFICES ASSUME Going, session.order = "TRANSACTION_TIMESTAMP" PROVE OpenByTime'
    BY DEF OpenByTime
  <2>1. /\ session.key <= now
        /\ \A r \in Ids :
             session.seen[r] # 0 => session.key <= txTime[r] \/ r \in session.sunk
        /\ \A r \in Steady(session) : InWindow(session, r) =>
             \/ session.seen[r] = 1
             \/ r \in session.moved
             \/ Second(txTime[r]) \in session.keys
             \/ txTime[r] < session.key
    BY DEF LInv, OpenByTime
  <2>2. session.key <= now'
    BY <1>1, <2>1
  <2>3. ASSUME NEW r \in Ids, session.seen[r] # 0
        PROVE  session.key <= txTime'[r] \/ r \in session'.sunk
    BY <1>1, <2>1, <2>3
  <2>4. ASSUME NEW r \in Steady(session'), InWindow(session, r)', r \notin session'.moved
        PROVE  \/ session.seen[r] = 1
               \/ Second(txTime'[r]) \in session.keys
               \/ txTime'[r] < session.key
    BY <2>1, <2>4 DEF InWindow
  <2> QED BY <2>2, <2>3, <2>4 DEF OpenByTime
<1>5. NoRowTwice' /\ CreationListingComplete' /\ TimeListingGaps'
  BY DEF LInv, NoRowTwice, CreationListingComplete, TimeListingGaps
<1>6. UnorderedListingEnds'
  <2>1. session'.pc = "open" => session'.order # "STK_ORDER_FIELD_UNSPECIFIED"
    BY DEF LInv, Going
  <2> QED BY <2>1 DEF UnorderedListingEnds
<1>7. \A r \in Ids : session'.seen[r] # 0 => r <= count'
  <2>1. count \in Nat /\ count' \in Nat /\ \A r \in Ids : r \in Nat
    BY ListingAssumption DEF LInv, TypeOK, Ids
  <2> QED BY <2>1 DEF LInv
<1> QED BY <1>3, <1>4, <1>5, <1>6, <1>7 DEF LInv

\* The times a statement may write have passed.
LEMMA TakenFacts ==
  ASSUME LInv, NEW r, NEW taken \in TakenTimes(r)
  PROVE  taken \in 0..MaxTime /\ taken <= now
BY ListingAssumption DEF LInv, TypeOK, TakenTimes

\* A new row is beyond every session that has begun.
LEMMA InsertKeeps ==
  ASSUME LInv, session.pc # "done", Insert
  PROVE  LInv'
<1>1. /\ count + 1 \in Ids /\ count' = count + 1 /\ count' \in 0..MaxRows /\ count < count'
      /\ now' = now /\ session' = session /\ allowed' = allowed
      /\ match \subseteq match' /\ match' \in SUBSET Ids
  <2>1. count \in 0..MaxRows /\ match \in SUBSET Ids
    BY DEF LInv, TypeOK
  <2>2. /\ count < MaxRows /\ count' = count + 1
        /\ match' \in {match, match \cup {count + 1}}
        /\ now' = now /\ session' = session /\ allowed' = allowed
    BY DEF Insert
  <2>3. count + 1 \in Ids /\ count' \in 0..MaxRows /\ count < count'
    BY <2>1, <2>2, ListingAssumption DEF Ids
  <2> QED BY <2>1, <2>2, <2>3
<1>2. /\ txTime' \in [Ids -> 0..MaxTime]
      /\ txTime'[count + 1] <= now
      /\ \A r \in Ids : r # count + 1 => txTime'[r] = txTime[r]
  <2>1. PICK taken \in TakenTimes(count + 1) : txTime' = [txTime EXCEPT ![count + 1] = taken]
    BY DEF Insert
  <2>2. taken \in 0..MaxTime /\ taken <= now
    BY TakenFacts
  <2> QED BY <1>1, <2>1, <2>2 DEF LInv, TypeOK
<1>3. TypeOK'
  BY <1>1, <1>2 DEF LInv, TypeOK
<1>4. \A r \in 1..session.first : r \in Ids /\ r # count + 1
  BY <1>1, ListingAssumption DEF LInv, TypeOK, Session, Ids
<1>5. \A r \in Ids : txTime'[r] <= now' /\ (session.seen[r] # 0 => txTime[r] <= txTime'[r])
  <2>1. now \in Nat /\ \A r \in Ids : txTime[r] \in Nat /\ txTime[r] <= now
    BY ListingAssumption DEF LInv, TypeOK
  <2>2. session.seen[count + 1] = 0
    BY <1>1, ListingAssumption DEF LInv, TypeOK
  <2> QED BY <1>1, <1>2, <2>1, <2>2
<1>6. session'.first <= count' /\ count <= count' /\ now <= now'
  BY <1>1, <1>4, ListingAssumption DEF LInv, TypeOK, Session, Ids
<1>7. SteadyRowsMatch'
  BY <1>1 DEF LInv, SteadyRowsMatch
<1>8. \A r \in Steady(session') : txTime'[r] = txTime[r]
  BY <1>1, <1>2, <1>4 DEF Steady
<1>9. (Fresh' <=> Fresh) /\ (Going' <=> Going)
  BY <1>1 DEF Fresh, Going
<1>10. Serving' => session'.phones \in session'.granted
  BY <1>1 DEF LInv, Serving
<1>11. SunkWereMoved'
  BY <1>1, <1>9 DEF LInv, SunkWereMoved
<1> QED BY <1>1, <1>3, <1>5, <1>6, <1>7, <1>8, <1>9, <1>10, <1>11, QuietStep

\* What becomes of the rows the client counts on when some waver.
LEMMA GainsFacts ==
  ASSUME LInv, NEW rows, NEW history
  PROVE  /\ history \subseteq Gains(history, rows)
         /\ history \in SUBSET Ids => Gains(history, rows) \in SUBSET Ids
         /\ \A r \in 1..session.first : r \in rows => r \in Gains(history, rows)
<1>1. 1..session.first \subseteq Ids
  BY ListingAssumption DEF LInv, TypeOK, Session, Ids
<1> QED BY <1>1 DEF Gains

\* An answer or a callback moves a row, and the session notes it, the more if it
\* moves back.
LEMMA RecordResultKeeps ==
  ASSUME LInv, session.pc # "done", NEW r \in Ids, RecordResult(r)
  PROVE  LInv'
<1> DEFINE moved == Gains(session.moved, {r})
           wavered == Gains(session.wavered, {r} \ match')
           Sunk(taken) == IF Sinks(r, taken) THEN session.sunk \cup {r} ELSE session.sunk
<1>0. PICK taken \in TakenTimes(r) :
        /\ txTime' = [txTime EXCEPT ![r] = taken]
        /\ session' = [session EXCEPT !.moved = moved, !.wavered = wavered, !.sunk = Sunk(taken)]
  BY DEF RecordResult
<1> DEFINE sunk == Sunk(taken)
<1>1. /\ txTime' \in [Ids -> 0..MaxTime]
      /\ txTime'[r] = taken /\ taken <= now
      /\ \A u \in Ids : u # r => txTime'[u] = txTime[u]
      /\ UNCHANGED <<now, count, allowed>>
      /\ match' \in SUBSET Ids /\ match \ {r} \subseteq match'
  BY <1>0, TakenFacts DEF LInv, TypeOK, RecordResult
<1>2. session \in Session
  BY DEF LInv, TypeOK
<1>3. session' = [session EXCEPT !.moved = moved, !.wavered = wavered, !.sunk = sunk]
  BY <1>0
<1>14. /\ sunk \in SUBSET Ids /\ session.sunk \subseteq sunk /\ sunk \subseteq session.sunk \cup {r}
       /\ r \in sunk \ session.sunk => session.seen[r] # 0 /\ taken < txTime[r]
       /\ session.order = "TRANSACTION_TIMESTAMP" /\ session.seen[r] # 0 /\ taken < txTime[r] =>
            r \in sunk
  BY <1>2 DEF Session, Sinks
<1>4. /\ moved \in SUBSET Ids /\ wavered \in SUBSET Ids
      /\ session.moved \subseteq moved /\ session.wavered \subseteq wavered
      /\ \A u \in 1..session.first : u = r => u \in moved
      /\ \A u \in 1..session.first : u = r /\ u \notin match' => u \in wavered
  BY <1>2, GainsFacts DEF Session
<1> HIDE DEF moved, wavered, Sunk, sunk
<1>5. /\ session' \in Session
      /\ session'.pc = session.pc /\ session'.order = session.order
      /\ session'.window = session.window /\ session'.key = session.key
      /\ session'.seen = session.seen /\ session'.first = session.first
      /\ session'.keys = session.keys /\ session'.phones = session.phones
      /\ session'.granted = session.granted
      /\ session'.moved = moved /\ session'.wavered = wavered /\ session'.sunk = sunk
  BY <1>2, <1>3, <1>4, <1>14 DEF Session
<1>6. TypeOK'
  BY <1>1, <1>5 DEF LInv, TypeOK
<1>7. \A u \in Ids :
        /\ txTime'[u] <= now'
        /\ session.order = "TRANSACTION_TIMESTAMP" /\ session.seen[u] # 0 =>
             txTime[u] <= txTime'[u] \/ u \in session'.sunk
  <2>1. now \in Nat /\ \A u \in Ids : txTime[u] \in Nat /\ txTime[u] <= now
    BY ListingAssumption DEF LInv, TypeOK
  <2>2. taken \in Nat
    BY <1>0, TakenFacts, ListingAssumption
  <2> QED BY <1>1, <1>5, <1>14, <2>1, <2>2
<1>8. session'.first <= count' /\ count <= count' /\ now <= now'
  BY <1>1, <1>5, ListingAssumption DEF LInv, TypeOK
<1>9. Steady(session') \subseteq Steady(session)
  BY <1>4, <1>5 DEF Steady
<1>10. SteadyRowsMatch'
  <2>1. session.pc # "done" => Steady(session') \subseteq match'
    <3>1. SUFFICES ASSUME NEW u \in Steady(session') PROVE u \in match'
      OBVIOUS
    <3>2. u \in match /\ u \in 1..session.first /\ u \notin wavered
      BY <1>5, <1>9 DEF LInv, SteadyRowsMatch, Steady
    <3> QED BY <3>2, <1>1, <1>4
  <2> QED BY <1>5, <1>9, <2>1 DEF LInv, SteadyRowsMatch
<1>11. \A u \in Steady(session') \ session'.moved : txTime'[u] = txTime[u]
  <2>1. SUFFICES ASSUME NEW u \in Steady(session'), u \notin moved PROVE txTime'[u] = txTime[u]
    BY <1>5
  <2>2. u \in 1..session.first /\ u # r
    BY <2>1, <1>4, <1>5 DEF Steady
  <2>3. u \in Ids
    BY <2>2, ListingAssumption DEF LInv, TypeOK, Session, Ids
  <2> QED BY <2>2, <2>3, <1>1
<1>12. (Fresh' <=> Fresh) /\ (Going' <=> Going)
  BY <1>5 DEF Fresh, Going
<1>13. Serving' => session'.phones \in session'.granted
  BY <1>5 DEF LInv, Serving
<1>15. SunkWereMoved'
  <2>1. Fresh' => sunk = {}
    BY <1>12, <1>14 DEF LInv, SunkWereMoved
  <2>2. \A u \in sunk : u \in 1..session.first => u \in moved
    BY <1>4, <1>14 DEF LInv, SunkWereMoved
  <2>3. r \notin LateRows => ~(taken < txTime[r])
    <3>1. r \notin LateRows => taken = now
      BY <1>0 DEF TakenTimes
    <3> QED BY <3>1, ListingAssumption DEF LInv, TypeOK
  <2>4. sunk \subseteq LateRows
    BY <2>3, <1>14 DEF LInv, SunkWereMoved
  <2> QED BY <1>5, <2>1, <2>2, <2>4 DEF SunkWereMoved
<1> QED BY <1>1, <1>4, <1>5, <1>6, <1>7, <1>8, <1>9, <1>10, <1>11, <1>12, <1>13,
           <1>14, <1>15, QuietStep

\* So does an order, which moves nothing.
LEMMA RemarkKeeps ==
  ASSUME LInv, session.pc # "done", NEW r \in Ids, Remark(r)
  PROVE  LInv'
<1>1. /\ UNCHANGED <<now, count, txTime, allowed>>
      /\ match' \in SUBSET Ids /\ match \ {r} \subseteq match'
  BY DEF LInv, TypeOK, Remark
<1>2. session \in Session
  BY DEF LInv, TypeOK
<1> DEFINE wavered == Gains(session.wavered, {r} \ match')
<1>3. session' = [session EXCEPT !.wavered = wavered]
  BY DEF Remark
<1>4. /\ wavered \in SUBSET Ids /\ session.wavered \subseteq wavered
      /\ \A u \in 1..session.first : u = r /\ u \notin match' => u \in wavered
  BY <1>2, GainsFacts DEF Session
<1> HIDE DEF wavered
<1>5. /\ session' \in Session
      /\ session'.pc = session.pc /\ session'.order = session.order
      /\ session'.window = session.window /\ session'.key = session.key
      /\ session'.seen = session.seen /\ session'.first = session.first
      /\ session'.keys = session.keys /\ session'.phones = session.phones
      /\ session'.granted = session.granted
      /\ session'.moved = session.moved /\ session'.wavered = wavered
      /\ session'.sunk = session.sunk
  BY <1>2, <1>3, <1>4 DEF Session
<1>6. TypeOK'
  BY <1>1, <1>5 DEF LInv, TypeOK
<1>7. now \in Nat /\ \A u \in Ids : txTime[u] \in Nat /\ txTime'[u] <= now' /\ txTime[u] <= txTime'[u]
  BY <1>1, ListingAssumption DEF LInv, TypeOK
<1>8. session'.first <= count' /\ count <= count' /\ now <= now'
  BY <1>1, <1>5, <1>7, ListingAssumption DEF LInv, TypeOK
<1>9. Steady(session') \subseteq Steady(session)
  BY <1>4, <1>5 DEF Steady
<1>10. SteadyRowsMatch'
  <2>1. Steady(session') \subseteq match'
    <3>1. SUFFICES ASSUME NEW u \in Steady(session') PROVE u \in match'
      OBVIOUS
    <3>2. u \in match /\ u \in 1..session.first /\ u \notin wavered
      BY <1>5, <1>9 DEF LInv, SteadyRowsMatch, Steady
    <3> QED BY <3>2, <1>1, <1>4
  <2> QED BY <1>5, <1>9, <2>1 DEF LInv, SteadyRowsMatch
<1>12. (Fresh' <=> Fresh) /\ (Going' <=> Going)
  BY <1>5 DEF Fresh, Going
<1>13. Serving' => session'.phones \in session'.granted
  BY <1>5 DEF LInv, Serving
<1>14. SunkWereMoved'
  BY <1>5, <1>12 DEF LInv, SunkWereMoved
<1> QED BY <1>1, <1>5, <1>6, <1>7, <1>8, <1>9, <1>10, <1>12, <1>13, <1>14, QuietStep

\* Others change the client's phones: the request being served notes it.
LEMMA ChangeAllowedKeeps ==
  ASSUME LInv, session.pc # "done", NEW phones \in PhoneSets, ChangeAllowed(phones)
  PROVE  LInv'
<1>1. session \in Session /\ UNCHANGED <<now, count, txTime, match>> /\ allowed' \in PhoneSets
  BY DEF LInv, TypeOK, ChangeAllowed
<1>2. /\ session' \in Session
      /\ session'.pc = session.pc /\ session'.order = session.order
      /\ session'.window = session.window /\ session'.key = session.key
      /\ session'.seen = session.seen /\ session'.first = session.first
      /\ session'.keys = session.keys /\ session'.phones = session.phones
      /\ session'.moved = session.moved /\ session'.wavered = session.wavered
      /\ session'.sunk = session.sunk
      /\ session.granted \subseteq session'.granted
  BY <1>1 DEF ChangeAllowed, Session
<1>3. TypeOK'
  BY <1>1, <1>2 DEF LInv, TypeOK
<1>4. now \in Nat /\ \A u \in Ids : txTime[u] \in Nat /\ txTime'[u] <= now'
  BY <1>1, ListingAssumption DEF LInv, TypeOK
<1>5. session'.first <= count' /\ count <= count' /\ now <= now'
  BY <1>1, <1>2, <1>4, ListingAssumption DEF LInv, TypeOK
<1>6. Steady(session') = Steady(session)
  BY <1>2 DEF Steady
<1>7. SteadyRowsMatch'
  BY <1>1, <1>2, <1>6 DEF LInv, SteadyRowsMatch
<1>8. (Fresh' <=> Fresh) /\ (Going' <=> Going)
  BY <1>2 DEF Fresh, Going
<1>9. Serving' => session'.phones \in session'.granted
  BY <1>2 DEF LInv, Serving
<1>10. SunkWereMoved'
  BY <1>2, <1>8 DEF LInv, SunkWereMoved
<1> QED BY <1>1, <1>2, <1>3, <1>4, <1>5, <1>6, <1>7, <1>8, <1>9, <1>10, QuietStep

LEMMA TickKeeps ==
  ASSUME LInv, session.pc # "done", Tick
  PROVE  LInv'
<1>1. UNCHANGED <<count, txTime, match, allowed, session>> /\ now' \in 0..MaxTime /\ now <= now'
  BY ListingAssumption DEF LInv, TypeOK, Tick
<1>2. TypeOK'
  BY <1>1 DEF LInv, TypeOK
<1>3. now \in Nat /\ now' \in Nat /\ \A u \in Ids : txTime[u] \in Nat /\ txTime'[u] <= now'
  BY <1>1, ListingAssumption DEF LInv, TypeOK
<1>4. SteadyRowsMatch' /\ (Fresh' <=> Fresh) /\ (Going' <=> Going)
  BY <1>1 DEF LInv, SteadyRowsMatch, Fresh, Going
<1>5. Serving' => session'.phones \in session'.granted
  BY <1>1 DEF LInv, Serving
<1>6. SunkWereMoved' /\ count <= count'
  BY <1>1, <1>4, ListingAssumption DEF LInv, TypeOK, SunkWereMoved
<1> QED BY <1>1, <1>2, <1>3, <1>4, <1>5, <1>6, QuietStep DEF LInv

\* A request that begins leaves out of what the client counts on the rows of phones
\* it may no longer see.
LEMMA ReadAllowedKeeps ==
  ASSUME LInv, ReadAllowed
  PROVE  LInv'
<1>1. /\ session \in Session /\ allowed \in PhoneSets /\ session.pc \in {"new", "open"}
      /\ UNCHANGED <<now, count, txTime, match, allowed>>
  BY DEF LInv, TypeOK, ReadAllowed
<1> DEFINE wavered == Gains(session.wavered, Ids \ Permitted(allowed))
<1>2. session' = [session EXCEPT !.pc = IF session.pc = "new" THEN "asked" ELSE "asked again",
                                 !.phones = allowed, !.granted = {allowed},
                                 !.wavered = wavered]
  BY DEF ReadAllowed
<1>3. /\ wavered \in SUBSET Ids /\ session.wavered \subseteq wavered
      /\ \A u \in 1..session.first : u \in Ids \ Permitted(allowed) => u \in wavered
  BY <1>1, GainsFacts DEF Session
<1> HIDE DEF wavered
<1>4. /\ session' \in Session
      /\ session'.pc = IF session.pc = "new" THEN "asked" ELSE "asked again"
      /\ session'.order = session.order
      /\ session'.window = session.window /\ session'.key = session.key
      /\ session'.seen = session.seen /\ session'.first = session.first
      /\ session'.keys = session.keys /\ session'.phones = allowed
      /\ session'.granted = {allowed}
      /\ session'.moved = session.moved /\ session'.wavered = wavered
      /\ session'.sunk = session.sunk
  BY <1>1, <1>2, <1>3 DEF Session, Stages
<1>5. TypeOK'
  BY <1>1, <1>4 DEF LInv, TypeOK
<1>6. now \in Nat /\ \A u \in Ids : txTime[u] \in Nat /\ txTime'[u] <= now'
  BY <1>1, ListingAssumption DEF LInv, TypeOK
<1>7. session'.first <= count' /\ count <= count' /\ now <= now'
  <2>1. session'.first <= count' /\ count' = count
    BY <1>1, <1>4 DEF LInv
  <2>2. count \in Nat
    BY ListingAssumption DEF LInv, TypeOK
  <2>3. now <= now'
    BY <1>1, <1>6
  <2> QED BY <2>1, <2>2, <2>3
<1>8. Steady(session') \subseteq Steady(session)
  BY <1>3, <1>4 DEF Steady
<1>9. Steady(session') \subseteq Permitted(allowed)
  <2>1. SUFFICES ASSUME NEW u \in Steady(session') PROVE u \in Permitted(allowed)
    OBVIOUS
  <2>2. u \in 1..session.first /\ u \notin wavered
    BY <1>4 DEF Steady
  <2>3. u \in Ids
    BY <2>2, ListingAssumption DEF LInv, TypeOK, Session, Ids
  <2> QED BY <2>2, <2>3, <1>3
<1>10. SteadyRowsMatch'
  BY <1>1, <1>4, <1>8, <1>9 DEF LInv, SteadyRowsMatch
<1>11. (Fresh' <=> Fresh) /\ (Going' <=> Going)
  BY <1>1, <1>4 DEF Fresh, Going
<1>12. session.pc # "done" /\ session'.pc # "done" /\ session'.phones \in session'.granted
  BY <1>1, <1>4
<1>13. \A u \in Ids : txTime'[u] = txTime[u] /\ txTime[u] <= txTime'[u]
  BY <1>1, <1>6
<1>14. \A u \in Steady(session') : txTime'[u] = txTime[u]
  BY <1>1
<1>15. SunkWereMoved'
  BY <1>4, <1>11 DEF LInv, SunkWereMoved
<1> QED BY <1>4, <1>5, <1>6, <1>7, <1>8, <1>10, <1>11, <1>12, <1>13, <1>14, <1>15, QuietStep

\* What a session is once it counts on the rows there are.
LEMMA CountedFacts ==
  ASSUME LInv
  PROVE  /\ Counted(session) \in Session
         /\ Counted(session) = [Counted(session) EXCEPT !.pc = session.pc]
         /\ Counted(session).order = session.order /\ Counted(session).key = session.key
         /\ Counted(session).window = session.window /\ Counted(session).seen = session.seen
         /\ Counted(session).keys = session.keys /\ Counted(session).phones = session.phones
         /\ Counted(session).granted = session.granted
         /\ Counted(session).first = count /\ Counted(session).sunk = session.sunk
         /\ Steady(Counted(session)) \subseteq match \cap Permitted(session.phones)
<1>1. session \in Session /\ count \in Ids \cup {0} /\ Rows \in SUBSET Ids
  BY ListingAssumption DEF LInv, TypeOK, Ids, Rows
<1> DEFINE wavered == Rows \ (match \cap Permitted(session.phones))
<1>2. Counted(session) = [session EXCEPT !.first = count, !.moved = {}, !.wavered = wavered]
  BY DEF Counted
<1>3. wavered \in SUBSET Ids
  BY <1>1
<1>4. \A u \in 1..count : u \notin wavered => u \in match \cap Permitted(session.phones)
  BY DEF Rows
<1> HIDE DEF wavered
<1> QED BY <1>1, <1>2, <1>3, <1>4 DEF Session, Steady

LEMMA CountCollectionKeeps ==
  ASSUME LInv, CountCollection
  PROVE  LInv'
<1>1. /\ session \in Session /\ session.pc = "asked"
      /\ UNCHANGED <<now, count, txTime, match, allowed>>
      /\ session' = [Counted(session) EXCEPT !.pc = "counted"]
  BY DEF LInv, TypeOK, CountCollection
<1> DEFINE c == Counted(session)
<1>2. /\ c \in Session /\ c.order = session.order /\ c.key = session.key
      /\ c.window = session.window /\ c.seen = session.seen
      /\ c.keys = session.keys /\ c.phones = session.phones
      /\ c.granted = session.granted /\ c.first = count /\ c.sunk = session.sunk
      /\ Steady(c) \subseteq match \cap Permitted(session.phones)
  BY CountedFacts
<1>3. session' = [c EXCEPT !.pc = "counted"]
  BY <1>1
<1> HIDE DEF c
<1>4. /\ session' \in Session /\ session'.pc = "counted"
      /\ session'.order = c.order /\ session'.window = c.window /\ session'.key = c.key
      /\ session'.seen = c.seen /\ session'.first = c.first /\ session'.keys = c.keys
      /\ session'.phones = c.phones /\ session'.granted = c.granted
      /\ session'.moved = c.moved /\ session'.wavered = c.wavered
      /\ session'.sunk = c.sunk
  BY <1>2, <1>3 DEF Session, Stages
<1>5. TypeOK'
  BY <1>1, <1>4 DEF LInv, TypeOK
<1>6. now \in Nat /\ \A u \in Ids : txTime[u] \in Nat /\ txTime'[u] <= now'
  BY <1>1, ListingAssumption DEF LInv, TypeOK
<1>7. count \in Nat
  BY ListingAssumption DEF LInv, TypeOK
<1>8. session'.first <= count' /\ count <= count' /\ now <= now'
  BY <1>1, <1>2, <1>4, <1>6, <1>7
<1>9. Steady(session') = Steady(c)
  BY <1>4 DEF Steady
<1>10. SteadyRowsMatch'
  BY <1>1, <1>2, <1>4, <1>9 DEF SteadyRowsMatch
<1>11. Fresh /\ Fresh' /\ ~Going /\ ~Going'
  BY <1>1, <1>4 DEF Fresh, Going
<1>12. Serving' => session'.phones \in session'.granted
  BY <1>1, <1>2, <1>4 DEF LInv, Serving
<1>13. SunkWereMoved'
  BY <1>2, <1>4, <1>11 DEF LInv, SunkWereMoved
<1> QED BY <1>1, <1>2, <1>4, <1>5, <1>6, <1>8, <1>10, <1>11, <1>12, <1>13, QuietStep

-----------------------------------------------------------------------------

\* The session to which Find adds a page.
Base == IF session.pc = "asked" THEN Counted(session) ELSE session

LEMMA BaseFacts ==
  ASSUME LInv, Serving
  PROVE  /\ Base \in Session
         /\ Base.order = session.order /\ Base.key = session.key
         /\ Base.window = session.window /\ Base.seen = session.seen
         /\ Base.keys = session.keys /\ Base.phones = session.phones
         /\ Base.sunk = session.sunk
         /\ Base.first <= count /\ Base.first \in Nat
         /\ Steady(Base) \subseteq match \cap Permitted(session.phones)
         /\ session.pc # "asked" => Base = session
<1>1. session \in Session /\ session.first <= count /\ count \in Nat /\ session.first \in Nat
  BY ListingAssumption DEF LInv, TypeOK, Session, Ids
<1>2. CASE session.pc = "asked"
  <2>1. Base = Counted(session)
    BY <1>2 DEF Base
  <2> QED BY <1>1, <1>2, <2>1, CountedFacts
<1>3. CASE session.pc # "asked"
  <2>1. Base = session
    BY <1>3 DEF Base
  <2>2. Steady(session) \subseteq match \cap Permitted(session.phones)
    BY <1>3 DEF LInv, SteadyRowsMatch, Serving
  <2> QED BY <1>1, <1>3, <2>1, <2>2
<1> QED BY <1>2, <1>3

\* The rows a page is taken from.
LEMMA SelectedFacts ==
  ASSUME LInv
  PROVE  /\ Selected(session) \subseteq Rows
         /\ Selected(session) \subseteq Permitted(session.phones)
         /\ Rows \subseteq Ids
         /\ IsFiniteSet(Selected(session))
         /\ Cardinality(Selected(session)) \in Nat
<1>1. /\ Selected(session) \subseteq Rows /\ Rows \subseteq Ids
      /\ Selected(session) \subseteq Permitted(session.phones)
  BY ListingAssumption DEF LInv, TypeOK, Selected, Rows, Ids
<1>2. IsFiniteSet(Rows)
  BY FS_Interval DEF LInv, TypeOK, Rows
<1>3. IsFiniteSet(Selected(session))
  BY <1>1, <1>2, FS_Subset
<1> QED BY <1>1, <1>3, FS_CardinalityType

\* The page of a query that found no row more holds all that was selected.
LEMMA LastPage ==
  ASSUME LInv, NEW size, NEW page, IsPage(session.order, Selected(session), size, page),
         ~(Cardinality(Selected(session)) > size)
  PROVE  page = Selected(session)
<1>1. page \subseteq Selected(session) /\ Cardinality(page) = Cardinality(Selected(session))
  BY DEF IsPage
<1> QED BY <1>1, SelectedFacts, FS_Subset

\* Of the rows the client counts on, the window and the key select; the key always does.
LEMMA SelectedByKey ==
  ASSUME LInv, Serving
  PROVE  /\ \A u \in Selected(session) : BelowKey(session, u)
         /\ \A u \in Steady(Base) :
              u \in Selected(session) <=> InWindow(session, u) /\ BelowKey(session, u)
         /\ Fresh => \A u : BelowKey(session, u)
         /\ ~Fresh => \A u : /\ session.order = "CREATE_TIMESTAMP" =>
                                  (BelowKey(session, u) <=> u < session.key)
                             /\ session.order = "TRANSACTION_TIMESTAMP" =>
                                  (BelowKey(session, u) <=> txTime[u] < session.key)
<1>1. \A u \in Steady(Base) : u \in Rows /\ u \in match /\ u \in Permitted(session.phones)
  <2>1. \A u \in 1..Base.first : u \in Rows
    BY BaseFacts DEF Rows, LInv, TypeOK
  <2> QED BY <2>1, BaseFacts DEF Steady
<1>2. ~Fresh => session.key # NoKey
  <2>1. ~Fresh => session.key \in Nat
    BY DEF LInv, Fresh, Going, Serving
  <2> QED BY <2>1 DEF NoKey
<1>3. Fresh => session.key = NoKey
  BY DEF LInv
<1> QED BY <1>1, <1>2, <1>3 DEF Selected, BelowKey

\* The key a page's token holds is that of its last row.
LEMMA NextKeyFacts ==
  ASSUME LInv, NEW size, NEW page \in SUBSET Rows,
         NEW key \in NextKeys(session.order, Selected(session), size, page)
  PROVE  /\ key \in Nat \cup {NoKey}
         /\ ~(Cardinality(Selected(session)) > size) => key = NoKey
         /\ Cardinality(Selected(session)) > size =>
              \E r \in page : LastInPage(session.order, page, r) /\ key = KeyAfter(session.order, r)
<1>1. /\ ~(Cardinality(Selected(session)) > size) => key = NoKey
      /\ Cardinality(Selected(session)) > size =>
           \E r \in page : LastInPage(session.order, page, r) /\ key = KeyAfter(session.order, r)
  BY DEF NextKeys
<1>2. ASSUME NEW r \in page PROVE KeyAfter(session.order, r) \in Nat \cup {NoKey}
  <2>1. r \in Ids /\ r \in Nat /\ txTime[r] \in Nat
    BY SelectedFacts, ListingAssumption DEF LInv, TypeOK, Ids
  <2>2. Second(txTime[r]) \in Nat
    BY <2>1, SecondFacts
  <2> QED BY <2>1, <2>2 DEF KeyAfter
<1> QED BY <1>1, <1>2

\* What a page does to the session, field by field.
PageOf(size, page, key) ==
  /\ IsPage(session.order, Selected(session), size, page)
  /\ session'.pc = IF key = NoKey THEN "done" ELSE "open"
  /\ session'.order = session.order
  /\ session'.window = session.window
  /\ session'.key = key
  /\ session'.keys = IF key = NoKey THEN session.keys ELSE session.keys \cup {key}
  /\ \A r \in Ids : session'.seen[r] =
       IF r \in page THEN session.seen[r] + 1 ELSE session.seen[r]
  /\ session'.first = Base.first
  /\ session'.moved = Base.moved
  /\ session'.wavered = Base.wavered
  /\ session'.sunk = session.sunk
  /\ session' \in Session

LEMMA PageStep ==
  ASSUME LInv, NEW size, ListStkTransactions(size)
  PROVE  /\ Serving
         /\ UNCHANGED <<now, count, txTime, match, allowed>>
         /\ \E page \in SUBSET Rows :
            \E key \in NextKeys(session.order, Selected(session), size, page) :
              PageOf(size, page, key)
<1>1. Serving /\ UNCHANGED <<now, count, txTime, match, allowed>>
  BY DEF ListStkTransactions
<1>2. PICK page \in SUBSET Rows :
        /\ IsPage(session.order, Selected(session), size, page)
        /\ \E key \in NextKeys(session.order, Selected(session), size, page) :
             session' = [Base EXCEPT
               !.pc = IF key = NoKey THEN "done" ELSE "open",
               !.key = key, !.granted = {},
               !.keys = IF key = NoKey THEN @ ELSE @ \cup {key},
               !.seen = [r \in Ids |-> IF r \in page THEN @[r] + 1 ELSE @[r]]]
  BY DEF ListStkTransactions, Base
<1>3. PICK key \in NextKeys(session.order, Selected(session), size, page) :
             session' = [Base EXCEPT
               !.pc = IF key = NoKey THEN "done" ELSE "open",
               !.key = key, !.granted = {},
               !.keys = IF key = NoKey THEN @ ELSE @ \cup {key},
               !.seen = [r \in Ids |-> IF r \in page THEN @[r] + 1 ELSE @[r]]]
  BY <1>2
<1> DEFINE b == Base
           seen == [r \in Ids |-> IF r \in page THEN b.seen[r] + 1 ELSE b.seen[r]]
           keys == IF key = NoKey THEN b.keys ELSE b.keys \cup {key}
           pc == IF key = NoKey THEN "done" ELSE "open"
<1>4. /\ b \in Session /\ b.order = session.order /\ b.window = session.window
      /\ b.seen = session.seen /\ b.keys = session.keys /\ b.sunk = session.sunk
  BY <1>1, BaseFacts
<1>5. session' = [b EXCEPT !.pc = pc, !.key = key, !.granted = {}, !.keys = keys, !.seen = seen]
  BY <1>3
<1>6. key \in Nat \cup {NoKey}
  BY <1>2, NextKeyFacts
<1>7. \A r \in Ids : b.seen[r] \in Nat
  BY <1>4 DEF Session
<1>8. seen \in [Ids -> Nat]
  BY <1>7
<1>9. keys \in SUBSET Nat
  BY <1>4, <1>6 DEF Session
<1>10. pc \in Stages
  BY DEF Stages
<1>11. \A r \in Ids : seen[r] = IF r \in page THEN session.seen[r] + 1 ELSE session.seen[r]
  BY <1>4
<1>12. keys = IF key = NoKey THEN session.keys ELSE session.keys \cup {key}
  BY <1>4
<1>13. pc = IF key = NoKey THEN "done" ELSE "open"
  OBVIOUS
<1>14. b = Base
  OBVIOUS
<1> HIDE DEF b, seen, keys, pc
<1>15. /\ session' \in Session
       /\ session'.pc = pc /\ session'.order = b.order /\ session'.window = b.window
       /\ session'.key = key /\ session'.keys = keys /\ session'.seen = seen
       /\ session'.first = b.first /\ session'.moved = b.moved
       /\ session'.wavered = b.wavered /\ session'.sunk = b.sunk
  BY <1>4, <1>5, <1>6, <1>8, <1>9, <1>10 DEF Session
<1>16. PageOf(size, page, key)
  BY <1>2, <1>4, <1>11, <1>12, <1>13, <1>14, <1>15 DEF PageOf
<1> QED BY <1>1, <1>16

\* The order in which each listing takes rows, against the last row of a page.
LEMMA PageOrder ==
  ASSUME LInv, NEW size, NEW page \in SUBSET Rows,
         IsPage(session.order, Selected(session), size, page),
         NEW r \in page, LastInPage(session.order, page, r)
  PROVE  /\ session.order = "CREATE_TIMESTAMP" =>
              /\ \A u \in page : u >= r
              /\ \A u \in Selected(session) \ page : r > u
         /\ session.order = "TRANSACTION_TIMESTAMP" =>
              /\ \A u \in page : txTime[u] >= txTime[r]
              /\ \A u \in Selected(session) \ page : txTime[r] >= txTime[u]
<1>1. /\ page \subseteq Ids /\ Selected(session) \subseteq Ids
      /\ \A u \in Ids : u \in Nat /\ txTime[u] \in Nat
  BY SelectedFacts, ListingAssumption DEF LInv, TypeOK, Ids
<1>2. /\ \A u \in page : Before(session.order, u, r) \/ u = r
      /\ \A u \in Selected(session) \ page : Before(session.order, r, u)
  BY DEF LastInPage, IsPage
<1> QED BY <1>1, <1>2 DEF Before

\* A page adds what was not seen yet, or has sunk since, and nothing else.
LEMMA PageSeen ==
  ASSUME LInv, NEW size, NEW page \in SUBSET Rows, NEW key, Serving, PageOf(size, page, key)
  PROVE  /\ \A u \in page : /\ u \in Ids /\ session'.seen[u] \in Nat \ {0}
                           /\ \/ session.seen[u] = 0 /\ session'.seen[u] = 1
                              \/ /\ session.order = "TRANSACTION_TIMESTAMP" /\ ~Fresh
                                 /\ u \in session.sunk
         /\ \A u \in Ids \ page : session'.seen[u] = session.seen[u]
<1>1. page \subseteq Selected(session) /\ page \subseteq Ids
  BY SelectedFacts DEF PageOf, IsPage
<1>2. \A u \in Ids : u \in Nat /\ txTime[u] \in Nat /\ session.seen[u] \in Nat
  BY ListingAssumption DEF LInv, TypeOK, Session, Ids
<1>3. \A u \in page : BelowKey(session, u)
  BY <1>1, SelectedByKey
<1>4. \A u \in page : \/ session.seen[u] = 0
                      \/ /\ session.order = "TRANSACTION_TIMESTAMP" /\ ~Fresh
                         /\ u \in session.sunk
  <2>1. CASE Fresh
    BY <2>1, <1>1 DEF LInv
  <2>2. CASE ~Fresh /\ session.order = "CREATE_TIMESTAMP"
    <3>1. \A u \in page : u < session.key
      BY <2>2, <1>3, SelectedByKey
    <3> QED BY <3>1, <2>2, <1>1 DEF LInv, OpenByCreation, Going, Fresh, Serving
  <2>3. CASE ~Fresh /\ session.order = "TRANSACTION_TIMESTAMP"
    <3>1. \A u \in page : txTime[u] < session.key
      BY <2>3, <1>3, SelectedByKey
    <3>2. Going
      BY <2>3 DEF Going, Fresh, Serving
    <3>3. /\ session.key \in Nat
          /\ \A u \in Ids : session.seen[u] # 0 =>
               session.key <= txTime[u] \/ u \in session.sunk
      BY <2>3, <3>2 DEF LInv, OpenByTime
    <3>4. SUFFICES ASSUME NEW u \in page, session.seen[u] # 0, u \notin session.sunk PROVE FALSE
      BY <2>3
    <3>5. txTime[u] < session.key /\ session.key <= txTime[u]
      BY <3>1, <3>3, <3>4, <1>1
    <3> QED BY <3>3, <3>5, <1>1, <1>2
  <2>4. ~Fresh => session.order # "STK_ORDER_FIELD_UNSPECIFIED"
    BY DEF LInv, Going, Fresh, Serving
  <2>5. session.order \in StkOrderField
    BY DEF LInv, TypeOK, Session
  <2> QED BY <2>1, <2>2, <2>3, <2>4, <2>5 DEF StkOrderField
<1>5. \A u \in page : session'.seen[u] = session.seen[u] + 1
  BY <1>1 DEF PageOf
<1>6. \A u \in Ids \ page : session'.seen[u] = session.seen[u]
  BY DEF PageOf
<1>7. \A u \in page : session'.seen[u] \in Nat \ {0} /\ (session.seen[u] = 0 => session'.seen[u] = 1)
  BY <1>1, <1>2, <1>5
<1> QED BY <1>1, <1>4, <1>6, <1>7

\* What a page does to a listing by creation.
LEMMA CreationPage ==
  ASSUME LInv, NEW size, NEW page \in SUBSET Rows,
         NEW key \in NextKeys(session.order, Selected(session), size, page),
         Serving, PageOf(size, page, key), session.order = "CREATE_TIMESTAMP"
  PROVE  OpenByCreation' /\ CreationListingComplete'
<1> DEFINE sel == Selected(session)
           more == Cardinality(sel) > size
<1>1. /\ session'.pc = IF key = NoKey THEN "done" ELSE "open"
      /\ session'.key = key /\ session'.order = session.order
      /\ IsPage(session.order, sel, size, page)
      /\ Steady(session') = Steady(Base)
  BY DEF PageOf, Steady
<1>2. /\ page \subseteq sel /\ sel \subseteq Ids /\ Rows \subseteq Ids
      /\ \A u \in Steady(Base) : u \in Ids
  <2>1. Steady(Base) \subseteq match /\ match \subseteq Ids
    BY BaseFacts DEF LInv, TypeOK
  <2> QED BY <1>1, <2>1, SelectedFacts DEF IsPage
<1>3. ~more => page = sel /\ key = NoKey
  BY <1>1, LastPage, NextKeyFacts
<1>4. \A u \in Ids : u \in Nat
  BY ListingAssumption DEF LInv, TypeOK, Ids
<1>5. /\ \A u \in page : session'.seen[u] = 1
      /\ \A u \in Ids \ page : session'.seen[u] = session.seen[u]
  BY PageSeen
<1>6. /\ Fresh => \A u \in Ids : session.seen[u] = 0
      /\ Fresh => \A u \in Steady(Base) : u \in sel
  BY SelectedByKey DEF LInv, InWindow
<1>7. ~Fresh =>
        /\ session.key \in Nat
        /\ \A u \in sel : u < session.key
        /\ \A u \in Steady(Base) : u \in sel <=> u < session.key
        /\ \A u \in Ids : u < session.key => session.seen[u] = 0
        /\ \A u \in Steady(Base) : session.key <= u => session.seen[u] = 1
  <2>1. ~Fresh => Going /\ Base = session
    BY BaseFacts DEF Fresh, Going, Serving
  <2>2. \A u : InWindow(session, u)
    BY DEF InWindow
  <2> QED BY <2>1, <2>2, <1>2, SelectedByKey DEF LInv, OpenByCreation
\* A row the client counts on that the query did not find was seen before.
<1>8. ASSUME NEW u \in Steady(Base), u \notin sel
      PROVE  session'.seen[u] = 1
  <2>1. u \in Ids /\ u \notin page /\ ~Fresh
    BY <1>8, <1>2, <1>6
  <2>2. session.key <= u
    BY <2>1, <1>8, <1>4, <1>7
  <2> QED BY <2>1, <2>2, <1>5, <1>7
<1>9. CASE more
  <2>1. PICK r \in page : LastInPage(session.order, page, r) /\ key = r
    BY <1>9, NextKeyFacts DEF KeyAfter
  <2>2. (\A u \in page : u >= r) /\ (\A u \in sel \ page : r > u)
    BY <2>1, <1>1, PageOrder
  <2>3. r \in Nat /\ r \in sel /\ r # NoKey /\ session'.pc = "open" /\ session'.key = r
    BY <2>1, <1>1, <1>2, <1>4 DEF NoKey
  <2>4. ASSUME NEW u \in Ids, u < r PROVE session'.seen[u] = 0
    <3>1. u \notin page
      BY <2>2, <2>3, <2>4, <1>4
    <3>2. ~Fresh => u < session.key
      BY <2>3, <2>4, <1>4, <1>7
    <3> QED BY <3>1, <3>2, <1>5, <1>6, <1>7
  <2>5. ASSUME NEW u \in Steady(Base), r <= u PROVE session'.seen[u] = 1
    <3>1. u \in sel => u \in page
      BY <2>2, <2>3, <2>5, <1>2, <1>4
    <3> QED BY <3>1, <1>5, <1>8
  <2> QED BY <2>3, <2>4, <2>5, <1>1 DEF OpenByCreation, CreationListingComplete
<1>10. CASE ~more
  <2>1. session'.pc = "done"
    BY <1>10, <1>1, <1>3
  <2>2. \A u \in Steady(Base) : session'.seen[u] = 1
    BY <1>10, <1>3, <1>5, <1>8
  <2>3. \A u \in 1..session'.first \ session'.wavered : session'.seen[u] = 1
    BY <2>2, <1>1 DEF Steady
  <2> QED BY <2>1, <2>3 DEF OpenByCreation, CreationListingComplete, Going
<1> QED BY <1>9, <1>10

\* What a page does to a listing by transaction time.
LEMMA TimePage ==
  ASSUME LInv, NEW size, NEW page \in SUBSET Rows,
         NEW key \in NextKeys(session.order, Selected(session), size, page),
         UNCHANGED <<now, txTime>>,
         Serving, PageOf(size, page, key), session.order = "TRANSACTION_TIMESTAMP"
  PROVE  OpenByTime' /\ TimeListingGaps'
<1> DEFINE sel == Selected(session)
           more == Cardinality(sel) > size
<1>1. /\ session'.pc = IF key = NoKey THEN "done" ELSE "open"
      /\ session'.key = key /\ session'.order = session.order
      /\ session'.window = session.window
      /\ session'.keys = IF key = NoKey THEN session.keys ELSE session.keys \cup {key}
      /\ IsPage(session.order, sel, size, page)
      /\ Steady(session') = Steady(Base) /\ session'.moved = Base.moved
      /\ session'.sunk = session.sunk
  BY DEF PageOf, Steady
<1>2. /\ page \subseteq sel /\ sel \subseteq Ids /\ Rows \subseteq Ids
      /\ \A u \in Steady(Base) : u \in Ids
  <2>1. Steady(Base) \subseteq match /\ match \subseteq Ids
    BY BaseFacts DEF LInv, TypeOK
  <2> QED BY <1>1, <2>1, SelectedFacts DEF IsPage
<1>3. ~more => page = sel /\ key = NoKey
  BY <1>1, LastPage, NextKeyFacts
<1>4. now \in Nat /\ \A u \in Ids : u \in Nat /\ txTime[u] \in Nat /\ txTime[u] <= now
  BY ListingAssumption DEF LInv, TypeOK, Ids
<1>5. /\ \A u \in page : session'.seen[u] # 0
      /\ \A u \in page : u \in Steady(Base) => session'.seen[u] = 1 \/ u \in Base.moved
      /\ \A u \in Ids \ page : session'.seen[u] = session.seen[u]
  <2>1. /\ \A u \in page : /\ session'.seen[u] \in Nat \ {0}
                           /\ session'.seen[u] = 1 \/ (~Fresh /\ u \in session.sunk)
        /\ \A u \in Ids \ page : session'.seen[u] = session.seen[u]
    BY PageSeen
  <2>2. ~Fresh => \A u \in Steady(Base) : u \in session.sunk => u \in Base.moved
    <3>1. ~Fresh => Base = session
      BY BaseFacts DEF Fresh
    <3> QED BY <3>1 DEF LInv, SunkWereMoved, Steady
  <2> QED BY <2>1, <2>2
<1>6. /\ Fresh => \A u \in Ids : session.seen[u] = 0
      /\ Fresh => \A u \in Steady(Base) : InWindow(session, u) => u \in sel
  BY SelectedByKey DEF LInv
<1>7. ~Fresh =>
        /\ session.key \in Nat
        /\ \A u \in sel : txTime[u] < session.key
        /\ \A u \in Steady(Base) : InWindow(session, u) => (u \in sel <=> txTime[u] < session.key)
        /\ \A u \in Ids : session.seen[u] # 0 => session.key <= txTime[u] \/ u \in session.sunk
        /\ \A u \in Steady(Base) : InWindow(session, u) =>
             \/ session.seen[u] = 1
             \/ u \in Base.moved
             \/ Second(txTime[u]) \in session.keys
             \/ txTime[u] < session.key
  <2>1. ~Fresh => Going /\ Base = session
    BY BaseFacts DEF Fresh, Going, Serving
  <2>2. ~Fresh => /\ \A u \in sel : txTime[u] < session.key
                  /\ \A u \in Steady(Base) :
                       InWindow(session, u) => (u \in sel <=> txTime[u] < session.key)
    BY SelectedByKey
  <2> QED BY <2>1, <2>2 DEF LInv, OpenByTime
\* A row the client counts on that the query did not find.
<1>8. ASSUME NEW u \in Steady(Base), InWindow(session, u), u \notin sel
      PROVE  \/ session'.seen[u] = 1
             \/ u \in session'.moved
             \/ Second(txTime[u]) \in session'.keys
  <2>1. u \in Ids /\ u \notin page /\ ~Fresh
    BY <1>8, <1>2, <1>6
  <2>2. ~(txTime[u] < session.key)
    BY <2>1, <1>8, <1>7
  <2>3. session.keys \subseteq session'.keys /\ session'.seen[u] = session.seen[u]
    BY <1>1, <1>5, <2>1
  <2> QED BY <2>1, <2>2, <2>3, <1>1, <1>7, <1>8
<1>9. \A u : InWindow(session, u)' <=> InWindow(session, u)
  BY <1>1 DEF InWindow
<1>10. CASE more
  <2>1. PICK r \in page : LastInPage(session.order, page, r) /\ key = Second(txTime[r])
    BY <1>10, NextKeyFacts DEF KeyAfter
  <2>2. (\A u \in page : txTime[u] >= txTime[r]) /\ (\A u \in sel \ page : txTime[r] >= txTime[u])
    BY <2>1, <1>1, PageOrder
  <2>3. r \in Ids /\ r \in sel /\ key \in Nat /\ key <= txTime[r]
    BY <2>1, <1>2, <1>4, SecondFacts
  <2>4. session'.pc = "open" /\ session'.key = key /\ key \in session'.keys
    BY <2>3, <1>1 DEF NoKey
  <2>5. key <= now
    BY <2>3, <1>4
  <2>6. ASSUME NEW u \in Ids, session'.seen[u] # 0
        PROVE  key <= txTime[u] \/ u \in session'.sunk
    <3>1. CASE u \in page
      BY <3>1, <2>2, <2>3, <1>4
    <3>2. CASE u \notin page
      <4>1. session.seen[u] # 0 /\ ~Fresh
        BY <3>2, <2>6, <1>5, <1>6
      <4>2. /\ session.key <= txTime[u] \/ u \in session'.sunk
            /\ txTime[r] < session.key /\ session.key \in Nat
        BY <4>1, <1>1, <1>7, <2>3
      <4> QED BY <4>2, <2>3, <1>4
    <3> QED BY <3>1, <3>2
  <2>7. ASSUME NEW u \in Steady(Base), InWindow(session, u)
        PROVE  \/ session'.seen[u] = 1
               \/ u \in session'.moved
               \/ Second(txTime[u]) \in session'.keys
               \/ txTime[u] < key
    <3>1. u \in Ids
      BY <1>2
    <3>2. CASE u \in page
      BY <3>2, <1>1, <1>5
    <3>3. CASE u \in sel \ page
      <4>1. txTime[u] <= txTime[r]
        BY <3>3, <2>2, <3>1, <2>3, <1>4
      <4>2. CASE key <= txTime[u]
        <5>1. Second(txTime[u]) = Second(txTime[r])
          BY <4>1, <4>2, <2>1, <2>3, <3>1, <1>4, SameSecond
        <5> QED BY <5>1, <2>1, <2>4
      <4> QED BY <4>2, <3>1, <2>3, <1>4
    <3>4. CASE u \notin sel
      BY <3>4, <2>7, <1>8
    <3> QED BY <3>2, <3>3, <3>4
  <2>8. OpenByTime'
    BY <2>4, <2>5, <2>6, <2>7, <1>1, <1>9 DEF OpenByTime
  <2> QED BY <2>4, <2>8 DEF TimeListingGaps
<1>11. CASE ~more
  <2>1. session'.pc = "done"
    BY <1>11, <1>1, <1>3
  <2>2. \A u \in sel : u \in Steady(Base) => session'.seen[u] = 1 \/ u \in session'.moved
    BY <1>11, <1>1, <1>3, <1>5
  <2>3. \A u \in 1..session'.first \ session'.wavered : InWindow(session, u)' =>
          \/ session'.seen[u] = 1
          \/ u \in session'.moved
          \/ Second(txTime[u]) \in session'.keys
    BY <2>2, <1>1, <1>8, <1>9 DEF Steady
  <2> QED BY <2>1, <2>3, <1>1 DEF OpenByTime, TimeListingGaps, Going
<1> QED BY <1>10, <1>11

\* What a page does to a listing in no order: it ends it.
LEMMA UnorderedPage ==
  ASSUME LInv, NEW asked \in PageSizes, NEW admin \in BOOLEAN, NEW page \in SUBSET Rows,
         NEW key \in NextKeys(session.order, Selected(session), PageSize(asked, admin), page),
         Serving, PageOf(PageSize(asked, admin), page, key),
         session.order = "STK_ORDER_FIELD_UNSPECIFIED"
  PROVE  session'.pc = "done" /\ UnorderedListingEnds'
<1> DEFINE sel == Selected(session)
           size == PageSize(asked, admin)
<1>1. key = NoKey
  BY NextKeyFacts DEF KeyAfter
<1>2. session'.pc = "done" /\ IsPage(session.order, sel, size, page)
  BY <1>1 DEF PageOf
<1>3. Fresh /\ \A u \in Ids : session.seen[u] = 0
  BY DEF LInv, Fresh, Going, Serving
<1>4. /\ \A u \in page : u \in Ids /\ session'.seen[u] = 1
      /\ \A u \in Ids \ page : session'.seen[u] = 0
  BY <1>3, PageSeen
<1>5. Steady(session') \subseteq sel
  <2>1. Steady(session') = Steady(Base)
    BY DEF PageOf, Steady
  <2>2. \A u : InWindow(session, u)
    BY DEF InWindow
  <2> QED BY <2>1, <2>2, <1>3, SelectedByKey
<1>6. CASE Cardinality(sel) > size
  <2>1. {u \in Ids : session'.seen[u] = 1} = page
    BY <1>4
  <2>2. Cardinality(page) = size
    BY <1>2, <1>6 DEF IsPage
  <2> QED BY <1>2, <2>1, <2>2 DEF UnorderedListingEnds
<1>7. CASE ~(Cardinality(sel) > size)
  <2>1. page = sel
    BY <1>2, <1>7, LastPage
  <2> QED BY <1>2, <1>4, <1>5, <2>1 DEF UnorderedListingEnds, Steady
<1> QED BY <1>6, <1>7

\* A page leaves every part of the invariant as it was.
LEMMA ListKeeps ==
  ASSUME LInv, NEW asked \in PageSizes, NEW admin \in BOOLEAN,
         ListStkTransactions(PageSize(asked, admin))
  PROVE  LInv'
<1> DEFINE size == PageSize(asked, admin)
<1>1. Serving /\ UNCHANGED <<now, count, txTime, match, allowed>>
  BY PageStep
<1>2. PICK page \in SUBSET Rows :
        \E key \in NextKeys(session.order, Selected(session), size, page) : PageOf(size, page, key)
  BY PageStep
<1>3. PICK key \in NextKeys(session.order, Selected(session), size, page) : PageOf(size, page, key)
  BY <1>2
<1>4. /\ session'.pc = IF key = NoKey THEN "done" ELSE "open"
      /\ session'.key = key /\ session'.order = session.order /\ session' \in Session
      /\ session'.first = Base.first /\ session'.sunk = session.sunk
      /\ Steady(session') = Steady(Base)
  BY <1>3 DEF PageOf, Steady
<1>5. TypeOK'
  BY <1>1, <1>4 DEF LInv, TypeOK
<1>6. session'.first <= count' /\ \A r \in Ids : txTime'[r] <= now'
  BY <1>1, <1>4, BaseFacts DEF LInv
<1>7. ~Serving' /\ ~Fresh' /\ SteadyRowsMatch'
  <2>1. Steady(session') \subseteq match'
    BY <1>1, <1>4, BaseFacts
  <2> QED BY <1>4, <2>1 DEF Serving, Fresh, SteadyRowsMatch
<1>8. NoRowTwice'
  <2>1. \A u \in Ids :
          \/ session'.seen[u] = 1
          \/ session'.seen[u] = session.seen[u]
          \/ session'.order = "TRANSACTION_TIMESTAMP" /\ u \in session'.sunk
    BY <1>1, <1>3, <1>4, PageSeen
  <2> QED BY <1>4, <2>1 DEF LInv, NoRowTwice
<1>14. SunkWereMoved' /\ \A u \in Ids : session'.seen[u] # 0 => u <= count'
  <2>1. \A u \in Ids : session'.seen[u] # 0 => u \in page \/ session.seen[u] # 0
    BY <1>1, <1>3, PageSeen
  <2>2. \A u \in page : u <= count
    BY ListingAssumption DEF LInv, TypeOK, Rows
  <2>3. \A u \in session'.sunk : u \in 1..session'.first => u \in session'.moved
    <3>1. Fresh => session'.sunk = {}
      BY <1>3 DEF PageOf, LInv, SunkWereMoved
    <3>2. ~Fresh => /\ session'.sunk = session.sunk /\ session'.first = session.first
                    /\ session'.moved = session.moved
      BY <1>1, <1>3, BaseFacts DEF PageOf, Fresh
    <3> QED BY <3>1, <3>2 DEF LInv, SunkWereMoved
  <2>4. session'.sunk \subseteq LateRows
    BY <1>4 DEF LInv, SunkWereMoved
  <2>5. \A u \in Ids : session'.seen[u] # 0 => u <= count'
    BY <1>1, <2>1, <2>2 DEF LInv
  <2> QED BY <1>7, <2>3, <2>4, <2>5 DEF SunkWereMoved
<1>9. session.order \in StkOrderField
  BY DEF LInv, TypeOK, Session
<1>10. key \in Nat \cup {NoKey}
  BY NextKeyFacts
<1>11. CASE session.order = "CREATE_TIMESTAMP"
  <2>1. OpenByCreation' /\ CreationListingComplete'
    BY <1>1, <1>3, <1>11, CreationPage
  <2>2. Going' => session'.key \in Nat
    BY <1>4, <1>10 DEF Going
  <2>3. OpenByTime' /\ TimeListingGaps' /\ UnorderedListingEnds'
    BY <1>4, <1>11 DEF OpenByTime, TimeListingGaps, UnorderedListingEnds
  <2> QED BY <1>4, <1>5, <1>6, <1>7, <1>8, <1>14, <1>11, <2>1, <2>2, <2>3 DEF LInv
<1>12. CASE session.order = "TRANSACTION_TIMESTAMP"
  <2>1. OpenByTime' /\ TimeListingGaps'
    BY <1>1, <1>3, <1>12, TimePage
  <2>2. Going' => session'.key \in Nat
    BY <1>4, <1>10 DEF Going
  <2>3. OpenByCreation' /\ CreationListingComplete' /\ UnorderedListingEnds'
    BY <1>4, <1>12 DEF OpenByCreation, CreationListingComplete, UnorderedListingEnds
  <2> QED BY <1>4, <1>5, <1>6, <1>7, <1>8, <1>14, <1>12, <2>1, <2>2, <2>3 DEF LInv
<1>13. CASE session.order = "STK_ORDER_FIELD_UNSPECIFIED"
  <2>1. session'.pc = "done" /\ UnorderedListingEnds'
    BY <1>1, <1>3, <1>13, UnorderedPage
  <2>2. ~Going'
    BY <2>1 DEF Going
  <2>3. /\ OpenByCreation' /\ CreationListingComplete'
        /\ OpenByTime' /\ TimeListingGaps'
    BY <1>4, <1>13 DEF OpenByCreation, CreationListingComplete, OpenByTime, TimeListingGaps
  <2> QED BY <1>5, <1>6, <1>7, <1>8, <1>14, <2>1, <2>2, <2>3 DEF LInv
<1> QED BY <1>9, <1>11, <1>12, <1>13 DEF StkOrderField

\* Every step of the system keeps the invariant.
LEMMA NextLInv == LInv /\ [Next]_vars => LInv'
<1> SUFFICES ASSUME LInv, [Next]_vars PROVE LInv'
  OBVIOUS
<1>1. CASE session.pc # "done" /\ Insert
  BY <1>1, InsertKeeps
<1>2. CASE session.pc # "done" /\ \E r \in Ids : RecordResult(r)
  BY <1>2, RecordResultKeeps
<1>3. CASE session.pc # "done" /\ \E r \in Ids : Remark(r)
  BY <1>3, RemarkKeeps
<1>4. CASE session.pc # "done" /\ \E phones \in PhoneSets : ChangeAllowed(phones)
  BY <1>4, ChangeAllowedKeeps
<1>5. CASE session.pc # "done" /\ Tick
  BY <1>5, TickKeeps
<1>6. CASE ReadAllowed
  BY <1>6, ReadAllowedKeeps
<1>7. CASE CountCollection
  BY <1>7, CountCollectionKeeps
<1>8. CASE \E asked \in PageSizes, admin \in BOOLEAN :
             ListStkTransactions(PageSize(asked, admin))
  BY <1>8, ListKeeps
<1>9. CASE UNCHANGED vars
  <2>1. /\ now' = now /\ count' = count /\ txTime' = txTime /\ match' = match
        /\ allowed' = allowed /\ session' = session
    BY <1>9 DEF vars
  <2>2. TypeOK' /\ (Fresh' <=> Fresh) /\ (Going' <=> Going) /\ (Serving' <=> Serving)
    BY <2>1 DEF LInv, TypeOK, Fresh, Going, Serving
  <2>3. SteadyRowsMatch' /\ OpenByCreation' /\ NoRowTwice' /\ CreationListingComplete'
        /\ SunkWereMoved'
    BY <2>1, <2>2 DEF LInv, SunkWereMoved, SteadyRowsMatch, OpenByCreation, NoRowTwice, CreationListingComplete
  <2>4. OpenByTime' /\ TimeListingGaps' /\ UnorderedListingEnds'
    BY <2>1, <2>2 DEF LInv, OpenByTime, TimeListingGaps, UnorderedListingEnds, InWindow
  <2> QED BY <2>1, <2>2, <2>3, <2>4 DEF LInv
<1> QED BY <1>1, <1>2, <1>3, <1>4, <1>5, <1>6, <1>7, <1>8, <1>9 DEF Next

\* Only a page shows rows, of those the query selected.
LEMMA ShownStep ==
  ASSUME LInv, [Next]_vars, NEW r \in Ids, session'.seen[r] # session.seen[r]
  PROVE  \E phones \in session.granted : r \in Permitted(phones)
<1>1. CASE \E asked \in PageSizes, admin \in BOOLEAN :
             ListStkTransactions(PageSize(asked, admin))
  <2>1. PICK size : ListStkTransactions(size)
    BY <1>1
  <2>2. PICK page \in SUBSET Rows :
          \E key \in NextKeys(session.order, Selected(session), size, page) :
            PageOf(size, page, key)
    BY <2>1, PageStep
  <2>3. page \subseteq Permitted(session.phones) /\ r \in page
    BY <2>2, SelectedFacts DEF PageOf, IsPage
  <2>4. session.phones \in session.granted
    BY <2>1, PageStep DEF LInv
  <2> QED BY <2>3, <2>4
<1>2. session \in Session
  BY DEF LInv, TypeOK
<1>3. CASE Insert \/ Tick \/ UNCHANGED vars \/ ReadAllowed
        \/ \E u \in Ids : RecordResult(u) \/ Remark(u)
  <2>1. session'.seen = session.seen
    BY <1>2, <1>3 DEF Insert, Tick, vars, ReadAllowed, RecordResult, Remark, Session
  <2> QED BY <2>1
<1>4. CASE \E phones \in PhoneSets : ChangeAllowed(phones)
  <2>1. session'.seen = session.seen
    BY <1>2, <1>4 DEF ChangeAllowed, Session
  <2> QED BY <2>1
<1>5. CASE CountCollection
  <2>1. session'.seen = session.seen
    BY <1>2, <1>5 DEF CountCollection, Counted, Session
  <2> QED BY <2>1
<1> QED BY <1>1, <1>3, <1>4, <1>5 DEF Next

-----------------------------------------------------------------------------

\* The key of a going listing always separates the rows returned from those to come.
THEOREM ListingInvariance == Spec => []LInv
<1>1. Init => LInv
  BY InitLInv
<1>2. LInv /\ [Next]_vars => LInv'
  BY NextLInv
<1> QED BY <1>1, <1>2, PTL DEF Spec

\* Every variable keeps its type.
THEOREM ListingTypeCorrect == Spec => []TypeOK
<1>1. LInv => TypeOK
  BY DEF LInv
<1> QED BY <1>1, ListingInvariance, PTL

\* No listing in any order, with pages of any size and any rows inserted, moved or
\* marked between them, returns a row twice (stk.go:486, :488), unless a late write
\* has moved the row back since it was returned (cmd/app/stk.go:168).
THEOREM ListingNeverRepeats == Spec => []NoRowTwice
<1>1. LInv => NoRowTwice
  BY DEF LInv
<1> QED BY <1>1, ListingInvariance, PTL

\* Where no write is late none is returned twice at all.
THEOREM PromptListingNeverRepeats ==
  ASSUME LateRows = {}
  PROVE  Spec => [](\A r \in Ids : session.seen[r] <= 1)
<1>1. LInv => \A r \in Ids : session.seen[r] <= 1
  <2> SUFFICES ASSUME LInv, NEW r \in Ids PROVE session.seen[r] <= 1
    OBVIOUS
  <2>1. session.seen[r] \in Nat
    BY DEF LInv, TypeOK, Session
  <2>2. ~(session.seen[r] > 1)
    BY DEF LInv, NoRowTwice, SunkWereMoved
  <2> QED BY <2>1, <2>2
<1> QED BY <1>1, ListingInvariance, PTL

\* A finished listing by creation has returned every row that was counted and that
\* its filter and the client's phones never left out (stk.go:550-564, :570, :577, :608).
THEOREM CreationListingIsComplete == Spec => []CreationListingComplete
<1>1. LInv => CreationListingComplete
  BY DEF LInv
<1> QED BY <1>1, ListingInvariance, PTL

\* What a finished listing by transaction time left out besides, was moved or
\* the page token rounded away (stk.go:603).
THEOREM TimeListingGapsAreKnown == Spec => []TimeListingGaps
<1>1. LInv => TimeListingGaps
  BY DEF LInv
<1> QED BY <1>1, ListingInvariance, PTL

\* A listing in no order is a single page (stk.go:599-611).
THEOREM UnorderedListingIsOnePage == Spec => []UnorderedListingEnds
<1>1. LInv => UnorderedListingEnds
  BY DEF LInv
<1> QED BY <1>1, ListingInvariance, PTL

\* No row is shown that the client was not allowed to see while the page was asked
\* for (stk.go:451, :499).
THEOREM OnlyAllowedShown == Spec => ShownWasAllowed
<1>1. LInv /\ [Next]_vars =>
        [\A r \in Ids : session'.seen[r] # session.seen[r] =>
           \E phones \in session.granted : r \in Permitted(phones)]_vars
  BY ShownStep
<1> QED BY <1>1, ListingInvariance, PTL DEF Spec, ShownWasAllowed
=============================================================================
