-------------------------- MODULE AccessTokenProofs -------------------------
(***************************************************************************)
(* Proofs about AccessToken and StkServer, for any interval, backoff,      *)
(* lifetime, number of failures and configurations.                        *)
(***************************************************************************)
EXTENDS StkServer, TLAPS

TInv == TypeOK /\ expo >= Expo /\ AgeBounded

\* Whatever is configured, the worker has an interval.
LEMMA DurFacts == Dur \in Nat \ {0}
BY TokenAssumption DEF Dur

\* One more failure earns one more interval.
LEMMA OneMoreInterval ==
  ASSUME NEW n \in Nat
  PROVE  /\ Intervals(n) \in Nat
         /\ Intervals(n) >= Dur
         /\ Intervals(n + 1) = Intervals(n) + Dur
BY DurFacts DEF Intervals

LEMMA InitTInv == Init => TInv
<1>1. Intervals(0) >= Dur /\ Intervals(0) \in Nat
  BY OneMoreInterval
<1> QED BY <1>1, TokenAssumption DEF Init, TInv, TypeOK, AgeBounded

LEMMA NextTInv == TInv /\ [Next]_vars => TInv'
<1> SUFFICES ASSUME TInv, [Next]_vars PROVE TInv'
  OBVIOUS
<1> USE TokenAssumption, DurFacts DEF TInv, TypeOK
<1>1. failures \in Nat /\ Intervals(failures) \in Nat /\ Intervals(failures) >= Dur
  BY OneMoreInterval
<1>2. CASE Tick
  BY <1>1, <1>2 DEF Tick, AgeBounded
<1>3. CASE StoreToken
  BY <1>1, <1>3 DEF StoreToken, AgeBounded
<1>4. CASE Fail
  <2>1. TypeOK' /\ expo' >= Expo
    BY <1>4 DEF Fail
  <2>2. Intervals(failures') = Intervals(failures) + Dur
    BY <1>1, <1>4, OneMoreInterval DEF Fail
  <2> QED BY <1>1, <1>4, <2>1, <2>2 DEF Fail, AgeBounded
<1>5. CASE Die
  <2>1. Intervals(0) \in Nat
    BY OneMoreInterval
  <2> QED BY <1>5, <2>1 DEF Die, AgeBounded
<1>6. CASE UNCHANGED vars
  BY <1>6 DEF vars, AgeBounded
<1> QED BY <1>2, <1>3, <1>4, <1>5, <1>6 DEF Next

\* The invariant holds in every reachable state.
THEOREM TokenInvariance == Spec => []TInv
BY InitTInv, NextTInv, PTL DEF Spec

\* Every variable keeps its type.
THEOREM TokenTypeCorrect == Spec => []TypeOK
<1>1. TInv => TypeOK
  BY DEF TInv
<1> QED BY <1>1, TokenInvariance, PTL

\* A token is never older than the failures of this life of the process account for.
THEOREM TokenAge == Spec => []AgeBounded
<1>1. TInv => AgeBounded
  BY DEF TInv
<1> QED BY <1>1, TokenInvariance, PTL

-----------------------------------------------------------------------------
(* The doublings, as a table of the delay after each number of failures.       *)

IsDelay(D) ==
  /\ D \in [0..MaxFailures -> Nat]
  /\ D[0] = Expo
  /\ \A n \in 0..MaxFailures : n + 1 \in 0..MaxFailures => D[n + 1] = 2 * D[n]

\* The longest a token is in use, n failures into a life of the process.
LongestUse(D, n) == Intervals(n) + (D[n] - Expo)

\* With D the doublings of the first delay, the next delay is D[failures].
LEMMA DelayInvariance ==
  ASSUME NEW CONSTANT D, IsDelay(D)
  PROVE  Spec => [](TInv /\ expo = D[failures])
<1>1. Init => expo = D[failures]
  BY DEF Init, IsDelay
<1>2. TInv /\ expo = D[failures] /\ [Next]_vars => (expo = D[failures])'
  <2> SUFFICES ASSUME TInv, expo = D[failures], [Next]_vars
               PROVE  expo' = D[failures']
    OBVIOUS
  <2>1. CASE Fail
    BY <2>1, TokenAssumption DEF Fail, TInv, TypeOK, IsDelay
  <2>2. CASE Die
    BY <2>2 DEF Die, IsDelay
  <2>3. CASE UNCHANGED <<expo, failures>>
    BY <2>3
  <2> QED BY <2>1, <2>2, <2>3 DEF Next, Tick, StoreToken, vars
<1> QED BY <1>1, <1>2, InitTInv, NextTInv, PTL DEF Spec

\* A token outlives its use whenever the longest use that many failures bring about
\* is shorter than M-Pesa's lifetime.
THEOREM TokenInTime ==
  ASSUME NEW CONSTANT D, IsDelay(D),
         \A n \in 0..MaxFailures : n <= Tolerated => LongestUse(D, n) < Lifetime
  PROVE  Spec => []NotExpired
<1>1. TInv /\ expo = D[failures] => NotExpired
  <2> SUFFICES ASSUME TInv, expo = D[failures], failures <= Tolerated
               PROVE  age < Lifetime
    BY DEF NotExpired
  <2>1. age + ticker <= LongestUse(D, failures) /\ failures \in 0..MaxFailures
        /\ age \in Nat /\ ticker \in Nat
    BY DEF TInv, TypeOK, AgeBounded, LongestUse
  <2>2. Intervals(failures) \in Nat /\ D[failures] \in Nat
    BY <2>1, OneMoreInterval, TokenAssumption DEF IsDelay
  <2>3. LongestUse(D, failures) \in Int
    BY <2>2, TokenAssumption DEF LongestUse
  <2> QED BY <2>1, <2>3, TokenAssumption
<1> QED BY <1>1, DelayInvariance, PTL

-----------------------------------------------------------------------------
(* The process around the worker.                                              *)

\* The longest a header's token is in use: the header waits on top of it.
HeaderAge == Intervals(failures) + (expo - Expo) + header.held

HeaderInv ==
  header.pc # "idle" =>
    /\ header.pc = "reading" => (header.of = "unread" <=> header.len # "unread")
    /\ header.pc = "built" => header.of # "unread" /\ header.len # "unread"
    /\ header.age <= HeaderAge
    /\ header.pc = "reading" /\ ~header.crossed =>
         {header.of, header.len} \subseteq {token, "unread"}
    /\ header.pc = "built" => header.of = header.len \/ header.crossed
    /\ header.sound => /\ token \in Tokens
                       /\ header.of \in Tokens \cup {"unread"}
                       /\ header.len \in Tokens \cup {"unread"}

\* The inductive invariant of the process.
SInv ==
  /\ TInv
  /\ ServerTypeOK
  /\ ReadyBeforeWork
  /\ phase \in {"down", "booted"} \/ \A o \in RequiredOptions : OptionSet(o)
  /\ phase \in {"migrated", "registering", "serving"} => table
  /\ workers # {} => phase \in {"registering", "serving"}
  /\ header.pc # "idle" => phase = "serving"
  /\ HeaderInv

LEMMA InitSInv == ServerInit => SInv
<1> SUFFICES ASSUME ServerInit PROVE SInv
  OBVIOUS
<1> USE DEF ServerInit
<1>1. TInv
  BY InitTInv
<1> QED BY <1>1, ServerAssumption
        DEF SInv, TInv, ServerTypeOK, Phases, Texts, NoHeader, ReadyBeforeWork, HeaderInv

\* A panic leaves nothing to say but what the configuration and the table are.
LEMMA PanicKeeps == ASSUME SInv, Panics PROVE SInv'
<1> USE DEF Panics
<1>1. TInv'
  BY NextTInv DEF SInv, Next
<1> QED BY <1>1, ServerAssumption
        DEF SInv, TInv, ServerTypeOK, Phases, Texts, NoHeader, ReadyBeforeWork, HeaderInv

\* A move of the startup that leaves the worker and the header alone.
LEMMA MoveKeeps ==
  ASSUME SInv, UNCHANGED <<vars, config, header>>, trouble' \in BOOLEAN,
         ServerTypeOK', ReadyBeforeWork',
         phase' \in {"down", "booted"} \/ \A o \in RequiredOptions : OptionSet(o),
         phase' \in {"migrated", "registering", "serving"} => table',
         workers' # {} => phase' \in {"registering", "serving"},
         header.pc # "idle" => phase' = "serving"
  PROVE  SInv'
<1>1. TInv' /\ HeaderInv'
  BY DEF SInv, TInv, TypeOK, AgeBounded, vars, HeaderInv, HeaderAge
<1> QED BY <1>1 DEF SInv, OptionSet

\* Starting up, and what other replicas and the database do meanwhile.
LEMMA StartupKeeps ==
  ASSUME SInv, Startup \/ DatabaseFails \/ OtherReplicaCreates \/ Crash \/ Calm
  PROVE  SInv'
<1> USE DEF SInv, ServerTypeOK, Phases, ReadyBeforeWork, Moves
<1>1. CASE Boot
  BY <1>1, PanicKeeps, MoveKeeps DEF Boot, TypeOK, vars, OptionSet
<1>2. CASE CheckOptions
  <2>1. CASE ValidateOptionSTK /\ phase' = "validated"
    BY <1>2, <2>1, MoveKeeps DEF CheckOptions, TypeOK, vars, OptionSet, ValidateOptionSTK, Panics
  <2> QED BY <1>2, <2>1, PanicKeeps DEF CheckOptions
<1>3. CASE LookForTable
  BY <1>3, MoveKeeps DEF LookForTable, TypeOK, vars, OptionSet
<1>4. CASE CreateTable
  BY <1>4, PanicKeeps, MoveKeeps DEF CreateTable, TypeOK, vars, OptionSet
<1>5. CASE StartWorkers
  BY <1>5, MoveKeeps DEF StartWorkers, Workers, TypeOK, vars, OptionSet
<1>6. CASE RegisterAPIs
  BY <1>6, MoveKeeps DEF RegisterAPIs, TypeOK, vars, OptionSet
<1>7. CASE DatabaseFails
  BY <1>7, PanicKeeps, MoveKeeps DEF DatabaseFails, TypeOK, vars, OptionSet
<1>8. CASE OtherReplicaCreates
  BY <1>8, MoveKeeps DEF OtherReplicaCreates, TypeOK, vars, OptionSet
<1>9. CASE Crash
  BY <1>9, PanicKeeps DEF Crash
<1>10. CASE Calm
  <2>1. trouble' \in BOOLEAN /\ UNCHANGED <<vars, config, phase, table, workers, header>>
    BY <1>10, Zenon DEF Calm
  <2> QED BY <2>1, MoveKeeps DEF TypeOK, vars, OptionSet
<1> HIDE DEF SInv, ServerTypeOK, Phases, ReadyBeforeWork, Moves
<1>11. \/ Boot \/ CheckOptions \/ LookForTable \/ CreateTable \/ StartWorkers
       \/ RegisterAPIs \/ DatabaseFails \/ OtherReplicaCreates \/ Crash \/ Calm
  BY Zenon DEF Startup
<1> QED BY <1>1, <1>2, <1>3, <1>4, <1>5, <1>6, <1>7, <1>8, <1>9, <1>10, <1>11

\* The worker's runs, which may come between the words of a read.
LEMMA WorkerKeeps ==
  ASSUME SInv, WorkerStores \/ WorkerFails
  PROVE  SInv'
<1> USE DEF SInv
<1>1. TInv'
  BY NextTInv DEF WorkerStores, WorkerFails, Next
<1>2. /\ \E s, c \in BOOLEAN : header' = [header EXCEPT !.sound = s, !.crossed = c]
      /\ UNCHANGED <<config, phase, table, workers, trouble>>
  <2>1. CASE WorkerStores
    BY <2>1 DEF WorkerStores, ServerTypeOK
  <2>2. CASE WorkerFails
    <3>1. header' = [header EXCEPT !.sound = header.sound, !.crossed = header.crossed]
          /\ header.sound \in BOOLEAN /\ header.crossed \in BOOLEAN
      BY <2>2 DEF WorkerFails, serverVars, ServerTypeOK
    <3> QED BY <2>2, <3>1 DEF WorkerFails, serverVars
  <2> QED BY <2>1, <2>2
<1>3. ServerTypeOK' /\ ReadyBeforeWork'
  BY <1>1, <1>2 DEF TInv, ServerTypeOK, ReadyBeforeWork, OptionSet
<1>4. HeaderAge' >= HeaderAge /\ HeaderAge' \in Int /\ HeaderAge \in Int
  <2>1. failures \in Nat /\ Intervals(failures) \in Nat
    BY OneMoreInterval DEF TInv, TypeOK
  <2>2. header.held \in Nat /\ header'.held = header.held
    BY <1>2, ServerAssumption DEF ServerTypeOK
  <2>3. CASE WorkerStores
    BY <2>1, <2>2, <2>3, TokenAssumption DEF WorkerStores, StoreToken, HeaderAge, TInv, TypeOK
  <2>4. CASE WorkerFails
    <3>1. Intervals(failures') = Intervals(failures) + Dur
      BY <2>1, <2>4, OneMoreInterval DEF WorkerFails, Fail
    <3> QED BY <2>1, <2>2, <2>4, <3>1, DurFacts, TokenAssumption
            DEF WorkerFails, Fail, HeaderAge, TInv, TypeOK
  <2> QED BY <2>3, <2>4
<1>5. /\ header.pc # "idle" /\ header'.sound => header.sound /\ token' \in Tokens
      /\ header.crossed => header'.crossed
      /\ header.pc = "reading" /\ ~header'.crossed => token' = token
  <2>1. CASE WorkerStores
    BY <2>1 DEF WorkerStores, HeaderInv, ServerTypeOK
  <2>2. CASE WorkerFails
    BY <2>2 DEF WorkerFails, Fail, serverVars, HeaderInv, ServerTypeOK
  <2> QED BY <2>1, <2>2
<1>6. HeaderInv'
  <2>1. /\ header'.pc = header.pc /\ header'.of = header.of /\ header'.len = header.len
        /\ header'.age = header.age /\ header.age \in Int
    BY <1>2 DEF ServerTypeOK
  <2> QED BY <1>4, <1>5, <2>1 DEF HeaderInv
<1>7. header'.pc = header.pc
  BY <1>2 DEF ServerTypeOK
<1> QED BY <1>1, <1>2, <1>3, <1>6, <1>7 DEF OptionSet

\* Time passes for the header too.
LEMMA WaitKeeps == ASSUME SInv, Wait PROVE SInv'
<1> USE DEF SInv, Wait
<1>1. TInv'
  BY NextTInv DEF Next
<1>2. ReadyBeforeWork' /\ UNCHANGED <<config, phase, table, workers, trouble>>
  BY DEF ReadyBeforeWork, OptionSet
<1>3. CASE header.pc = "idle"
  <2>1. header' = header
    BY <1>3
  <2>2. ServerTypeOK' /\ HeaderInv'
    BY <1>1, <1>2, <1>3, <2>1 DEF TInv, ServerTypeOK, HeaderInv
  <2> QED BY <1>1, <1>2, <2>2 DEF OptionSet
<1>4. CASE header.pc # "idle"
  <2>1. header' = [header EXCEPT !.held = header.held + 1, !.age = header.age + 1]
        /\ header.held < MaxHold
    BY <1>4
  <2>2. header.held \in 0..MaxHold /\ header.age \in Nat
    BY DEF ServerTypeOK
  <2>3. header.held + 1 \in 0..MaxHold /\ header.age + 1 \in Nat
    BY <2>1, <2>2, ServerAssumption
  <2>4. ServerTypeOK'
    BY <1>1, <1>2, <2>1, <2>3 DEF TInv, ServerTypeOK
  <2>5. /\ header'.pc = header.pc /\ header'.of = header.of /\ header'.len = header.len
        /\ header'.sound = header.sound /\ header'.crossed = header.crossed
        /\ header'.age = header.age + 1
        /\ header'.held = header.held + 1
    BY <2>1 DEF ServerTypeOK
  <2>6. HeaderAge' = HeaderAge + 1 /\ HeaderAge \in Int
    <3>1. Intervals(failures) \in Nat /\ expo \in Nat /\ UNCHANGED <<failures, expo>>
      BY OneMoreInterval DEF TInv, TypeOK, Tick
    <3> QED BY <2>2, <2>5, <3>1, TokenAssumption, ServerAssumption DEF HeaderAge
  <2>7. HeaderInv'
    BY <2>2, <2>5, <2>6 DEF HeaderInv, Tick
  <2> QED BY <1>1, <1>2, <2>4, <2>7 DEF OptionSet
<1> QED BY <1>3, <1>4

\* The header's own steps.
LEMMA HeaderKeeps ==
  ASSUME SInv, ReadOneWord \/ ReadOtherWord \/ UseHeader
  PROVE  SInv'
<1> USE DEF SInv
<1>1. UNCHANGED <<vars, config, phase, table, workers, trouble>>
  BY DEF ReadOneWord, ReadOtherWord, UseHeader
<1>2. TInv' /\ ReadyBeforeWork'
  BY <1>1 DEF TInv, TypeOK, AgeBounded, vars, ReadyBeforeWork, OptionSet
<1>3. /\ age \in Nat /\ token \in Texts
      /\ age <= Intervals(failures) + (expo - Expo)
      /\ Intervals(failures) + (expo - Expo) \in Int
      /\ UNCHANGED <<token, failures, expo>>
  <2>1. Intervals(failures) \in Nat
    BY OneMoreInterval DEF TInv, TypeOK
  <2> QED BY <1>1, <2>1, TokenAssumption DEF TInv, TypeOK, AgeBounded, Texts, vars
<1>3a. header'.pc # "idle" => phase' = "serving"
  BY <1>1 DEF ReadOneWord, ReadOtherWord, UseHeader, NoHeader
<1>4. ASSUME ServerTypeOK', HeaderInv' PROVE SInv'
  BY <1>1, <1>2, <1>3a, <1>4 DEF OptionSet
<1>5. ASSUME header' = NoHeader PROVE ServerTypeOK' /\ HeaderInv'
  BY <1>1, <1>2, <1>5, ServerAssumption DEF TInv, ServerTypeOK, NoHeader, HeaderInv, Texts
<1>6. CASE ReadOneWord
  <2>1. PICK of \in {token, "unread"}, len \in {token, "unread"} :
          /\ of = "unread" <=> len = token
          /\ header' = [pc |-> "reading", of |-> of, len |-> len, age |-> age, held |-> 0,
                        crossed |-> FALSE, sound |-> token \in Tokens]
    BY <1>6 DEF ReadOneWord
  <2>2. ServerTypeOK'
    BY <1>1, <1>2, <1>3, <2>1, ServerAssumption DEF TInv, ServerTypeOK, Texts
  <2>3. token # "unread"
    BY <1>3, TokenAssumption DEF Texts, Tokens
  <2>4. /\ header'.pc = "reading" /\ header'.of = of /\ header'.len = len /\ header'.age = age
        /\ header'.held = 0 /\ header'.sound = (token \in Tokens)
    BY <2>1
  <2>5. header'.age <= HeaderAge'
    BY <1>1, <1>3, <2>4 DEF HeaderAge, Intervals
  <2>6. HeaderInv'
    BY <1>3, <2>1, <2>3, <2>4, <2>5 DEF HeaderInv
  <2> QED BY <1>4, <2>2, <2>6
<1>7. CASE ReadOtherWord
  <2> DEFINE h == IF header.of = "unread"
                  THEN [header EXCEPT !.pc = "built", !.of = token, !.age = age]
                  ELSE [header EXCEPT !.pc = "built", !.len = token]
  <2>1. header' = h \/ header' = NoHeader
    BY <1>7 DEF ReadOtherWord
  <2>2. CASE header' = h
    <3>1. /\ h.pc = "built" /\ h.held = header.held /\ h.sound = header.sound
          /\ h.crossed = header.crossed
          /\ h.of = IF header.of = "unread" THEN token ELSE header.of
          /\ h.len = IF header.of = "unread" THEN header.len ELSE token
          /\ h.age = IF header.of = "unread" THEN age ELSE header.age
      BY DEF ServerTypeOK
    <3>2. h \in [pc: {"idle", "reading", "built"}, of: Texts \cup {"unread"},
                 len: Texts \cup {"unread"}, age: Nat, held: 0..MaxHold,
                 crossed: BOOLEAN, sound: BOOLEAN]
      BY <1>3 DEF ServerTypeOK
    <3> HIDE DEF h
    <3>3. ServerTypeOK'
      BY <1>1, <1>2, <2>2, <3>2 DEF TInv, ServerTypeOK
    <3>4. header.pc = "reading" /\ header.held \in Nat /\ token # "unread"
      BY <1>3, <1>7, TokenAssumption, ServerAssumption
      DEF ReadOtherWord, ServerTypeOK, Texts, Tokens
    <3>5. header'.age <= HeaderAge'
      BY <1>3, <2>2, <3>1, <3>4 DEF HeaderInv, HeaderAge, Intervals
    <3>6. /\ header'.of # "unread" /\ header'.len # "unread"
          /\ header'.sound => header'.of \in Tokens /\ header'.len \in Tokens /\ token \in Tokens
          /\ header'.of = header'.len \/ header'.crossed
      <4>1. header.of = "unread" <=> header.len # "unread"
        BY <3>4 DEF HeaderInv
      <4>2. /\ header.sound => /\ token \in Tokens
                               /\ header.of \in Tokens \cup {"unread"}
                               /\ header.len \in Tokens \cup {"unread"}
            /\ ~header.crossed => {header.of, header.len} \subseteq {token, "unread"}
        BY <3>4 DEF HeaderInv
      <4>3. header.of \in Texts \cup {"unread"} /\ header.len \in Texts \cup {"unread"}
        BY DEF ServerTypeOK
      <4> QED BY <2>2, <3>1, <3>4, <4>1, <4>2, <4>3
    <3>7. HeaderInv'
      BY <1>3, <2>2, <3>1, <3>5, <3>6 DEF HeaderInv
    <3> QED BY <1>4, <3>3, <3>7
  <2>3. CASE header' = NoHeader
    BY <1>4, <1>5, <2>3
  <2> HIDE DEF h
  <2> QED BY <2>1, <2>2, <2>3
<1>8. CASE UseHeader
  BY <1>4, <1>5, <1>8 DEF UseHeader
<1> QED BY <1>6, <1>7, <1>8

LEMMA NextSInv == SInv /\ [ServerNext]_<<vars, serverVars>> => SInv'
<1> SUFFICES ASSUME SInv, [ServerNext]_<<vars, serverVars>> PROVE SInv'
  OBVIOUS
<1>1. CASE WorkerPanics
  BY <1>1, PanicKeeps DEF WorkerPanics
<1>2. CASE UNCHANGED <<vars, serverVars>>
  BY <1>2 DEF SInv, TInv, TypeOK, AgeBounded, ServerTypeOK, ReadyBeforeWork, OptionSet,
              HeaderInv, HeaderAge, vars, serverVars
<1> QED BY <1>1, <1>2, StartupKeeps, WorkerKeeps, WaitKeeps, HeaderKeeps DEF ServerNext

\* The invariant of the process holds in every reachable state.
THEOREM ServerInvariance == ServerSpec => []SInv
<1> QED BY InitSInv, NextSInv, PTL DEF ServerSpec

\* Every variable of the process keeps its type.
THEOREM ServerTypeCorrect == ServerSpec => []ServerTypeOK
<1>1. SInv => ServerTypeOK
  BY DEF SInv
<1> QED BY <1>1, ServerInvariance, PTL

\* The process around the worker only ever runs the worker, lets time pass or dies,
\* so what is proved of the worker is true of the process.
THEOREM ServerRunsWorker == ServerSpec => Spec
<1>1. ServerInit => Init
  BY DEF ServerInit
<1>2. [ServerNext]_<<vars, serverVars>> => [Next]_vars
  BY DEF ServerNext, Startup, Boot, CheckOptions, LookForTable, CreateTable, StartWorkers,
         RegisterAPIs, DatabaseFails, OtherReplicaCreates, Crash, Calm, WorkerStores,
         WorkerFails, WorkerPanics, Wait, ReadOneWord, ReadOtherWord, UseHeader, Panics, Next,
         serverVars
<1> QED BY <1>1, <1>2, PTL DEF ServerSpec, Spec

\* No worker runs and no request is served before the table is there and every
\* required option is set, however replicas race and queries fail.
THEOREM WorkOnlyWhenReady == ServerSpec => []ReadyBeforeWork
<1>1. SInv => ReadyBeforeWork
  BY DEF SInv
<1> QED BY <1>1, ServerInvariance, PTL

\* In an environment that behaves a configured process goes down only before it has
\* started anything, and with the table there.
THEOREM CalmProcessesStay == ServerSpec => DownOnlyBeforeWork
<1>1. ASSUME SInv, [ServerNext]_<<vars, serverVars>>,
             Complete, ~trouble, phase # "down", phase' = "down"
      PROVE  table /\ workers = {} /\ header.pc = "idle"
  <2>1. ValidateOptionSTK
    BY <1>1 DEF Complete
  <2>2. CreateTable /\ table /\ phase = "creating"
    BY <1>1, <2>1
       DEF ServerNext, Startup, Boot, CheckOptions, LookForTable, CreateTable, StartWorkers,
           RegisterAPIs, DatabaseFails, OtherReplicaCreates, Crash, Calm, WorkerStores,
           WorkerFails, WorkerPanics, Wait, ReadOneWord, ReadOtherWord, UseHeader, Moves,
           serverVars
  <2> QED BY <1>1, <2>2 DEF SInv
<1>2. SInv /\ [ServerNext]_<<vars, serverVars>> =>
        [Complete /\ ~trouble /\ phase # "down" /\ phase' = "down" =>
           table /\ workers = {} /\ header.pc = "idle"]_<<vars, serverVars>>
  BY <1>1
<1> QED BY <1>2, ServerInvariance, PTL DEF ServerSpec, DownOnlyBeforeWork

\* Pushes carry tokens that have not expired, whenever the longest use and the longest
\* wait of a header together are shorter than M-Pesa's lifetime, and only a token of
\* another length that is stored between the two reads makes one that is not whole.
THEOREM HeadersAreGood ==
  ASSUME NEW CONSTANT D, IsDelay(D),
         \A n \in 0..MaxFailures : n <= Tolerated => LongestUse(D, n) + MaxHold < Lifetime
  PROVE  ServerSpec => []HeaderIsGood
<1>1. SInv /\ TInv /\ expo = D[failures] => HeaderIsGood
  <2> SUFFICES ASSUME SInv, expo = D[failures], header.pc = "built", header.sound
               PROVE  /\ header.of \in Tokens /\ header.len \in Tokens
                      /\ Whole(header) \/ header.crossed
                      /\ failures <= Tolerated => header.age < Lifetime
    BY DEF HeaderIsGood
  <2>0. "unread" \notin Tokens
    BY TokenAssumption DEF Tokens
  <2>1. /\ header.of \in Tokens /\ header.len \in Tokens
        /\ header.of = header.len \/ header.crossed
        /\ header.age <= HeaderAge
    BY <2>0 DEF SInv, HeaderInv
  <2>2. header.age \in Nat /\ header.held \in 0..MaxHold /\ failures \in 0..MaxFailures
    BY DEF SInv, ServerTypeOK, TypeOK
  <2>3. Intervals(failures) \in Nat /\ D[failures] \in Nat
    BY <2>2, OneMoreInterval, TokenAssumption DEF IsDelay
  <2>4. HeaderAge <= LongestUse(D, failures) + MaxHold
        /\ HeaderAge \in Int /\ LongestUse(D, failures) \in Int
    BY <2>2, <2>3, TokenAssumption, ServerAssumption DEF HeaderAge, LongestUse
  <2>5. failures <= Tolerated => header.age < Lifetime
    BY <2>1, <2>2, <2>4, TokenAssumption, ServerAssumption
  <2> QED BY <2>1, <2>5 DEF Whole
<1> QED BY <1>1, ServerInvariance, ServerRunsWorker, DelayInvariance, PTL

\* If all of M-Pesa's tokens have one length no header is torn, whenever the worker
\* stores: the length read with one of them is right for every other.
THEOREM OneLengthNeverTears ==
  ASSUME \A a, b \in Tokens : Length[a] = Length[b]
  PROVE  ServerSpec => [](header.pc = "built" /\ header.sound => Whole(header))
<1>1. SInv /\ header.pc = "built" /\ header.sound => Whole(header)
  BY TokenAssumption DEF SInv, HeaderInv, Whole, Tokens
<1> QED BY <1>1, ServerInvariance, PTL
=============================================================================
