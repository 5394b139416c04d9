----------------------------- MODULE StkServer ------------------------------
(***************************************************************************)
(* The life of one server process.  main (cmd/app/main.go) reads the       *)
(* configuration; NewStkAPI (internal/stk/v1/stk.go) checks the options,   *)
(* makes the table and starts the workers; the API and the callback        *)
(* gateway are registered and the process serves.  An error on the way     *)
(* panics, and whatever runs the process starts it again, while other      *)
(* replicas start against the same database.  Once it serves, InitiateSTK  *)
(* puts into each push's header the token the worker writes, with no lock  *)
(* between them: a Go string is two words, a pointer and a length.         *)
(***************************************************************************)
EXTENDS AccessToken

CONSTANTS
  Configs,      \* the configurations a process may find: sets of set keys
  MaxHold       \* bound: how long a header waits for its row before it is sent

VARIABLES
  config,       \* the keys the configuration file sets
  phase,        \* how far the process has come
  table,        \* whether the database has the transactions' table
  workers,      \* the goroutines NewStkAPI has started
  header,       \* a push's Authorization header in the making
  trouble       \* whether databases, connections and processes still fail

serverVars == <<config, phase, table, workers, header, trouble>>

ASSUME ServerAssumption == MaxHold \in Nat

\* The keys main takes each option from: the first that is set.
OptionKeys ==
  [AccessTokenURL    |-> {"MPESA_ACCESS_TOKEN_URL"},
   ConsumerKey       |-> {"STK_CONSUMER_KEY", "SAF_CONSUMER_KEY"},
   ConsumerSecret    |-> {"STK_CONSUMER_SECRET", "SAF_CONSUMER_SECRET"},
   BusinessShortCode |-> {"STK_BUSINESS_SHORT_CODE"},
   AccountReference  |-> {"STK_MPESA_ACCOUNT_REFERENCE"},
   Timestamp         |-> {"STK_MPESA_ACCESS_TIMESTAMP"},
   PassKey           |-> {"STK_LNM_PASSKEY"},
   CallBackURL       |-> {"STK_RESULT_URL"},
   PostURL           |-> {"STK_MPESA_POST_URL"},
   QueryURL          |-> {"STK_MPESA_QUERY_URL"}]

OptionSet(o) == OptionKeys[o] \cap config # {}

\* The cases of the switch that return an error; an empty QueryURL has a case that
\* does not.
RequiredOptions == DOMAIN OptionKeys \ {"QueryURL"}

ValidateOptionSTK == \A o \in RequiredOptions : OptionSet(o)

Complete == "JWT_SIGNING_KEY" \in config /\ ValidateOptionSTK

Workers ==
  {"updateAccessTokenWorker"}
    \cup (IF "STK_STATUS_QUERY_STATUS_ENABLED" \in config THEN {"updateSTKResultsWorker"} ELSE {})
    \cup (IF "STK_PROCESS_CHANNEL" \in config THEN {"processWorker"} ELSE {})

Phases ==
  {"down", "booted", "validated", "migrating", "creating", "migrated", "registering", "serving"}

\* What a header is made of: the text the pointer that was read points to, the text
\* whose length was read, the age of the one and how long the header has waited;
\* crossed if the worker has put another text in place between the two reads; sound
\* unless M-Pesa's own answers have left the worker without a token.
NoHeader ==
  [pc |-> "idle", of |-> "unread", len |-> "unread", age |-> 0, held |-> 0,
   crossed |-> FALSE, sound |-> FALSE]

Moves(from, to) == phase = from /\ phase' = to

-----------------------------------------------------------------------------

\* errs.Panic, or a panic of a goroutine: everything the process held is gone.
Panics ==
  /\ Die
  /\ phase' = "down"
  /\ workers' = {}
  /\ header' = NoHeader
  /\ UNCHANGED <<config, table, trouble>>

\* The configuration is read, the database opened, the middlewares are made; without
\* a JWT key the process panics here, every time it is started.
Boot ==
  /\ phase = "down"
  /\ \/ /\ "JWT_SIGNING_KEY" \in config
        /\ phase' = "booted"
        /\ UNCHANGED <<vars, config, table, workers, header, trouble>>
     \/ "JWT_SIGNING_KEY" \notin config /\ Panics

CheckOptions ==
  /\ phase = "booted"
  /\ \/ /\ ValidateOptionSTK
        /\ phase' = "validated"
        /\ UNCHANGED <<vars, config, table, workers, header, trouble>>
     \/ ~ValidateOptionSTK /\ Panics

\* Slip: looking for the table under a name it does not have.
LookInVain ==
  /\ Moves("validated", "migrating") \/ Moves("migrating", "creating")
  /\ UNCHANGED <<vars, config, table, workers, header, trouble>>

\* HasTable, and AutoMigrate's own look at the table.
LookForTable ==
  /\ \/ Moves("validated", IF table THEN "migrated" ELSE "migrating")
     \/ Moves("migrating", IF table THEN "migrated" ELSE "creating")
  /\ UNCHANGED <<vars, config, table, workers, header, trouble>>

\* Slip: the error of AutoMigrate not returned.
CreateTableUnchecked ==
  /\ Moves("creating", "migrated")
  /\ table' \in {table, TRUE}
  /\ UNCHANGED <<vars, config, workers, header, trouble>>

\* CREATE TABLE, which MySQL refuses when another replica was quicker.
CreateTable ==
  /\ phase = "creating"
  /\ \/ /\ ~table
        /\ table' = TRUE
        /\ phase' = "migrated"
        /\ UNCHANGED <<vars, config, workers, header, trouble>>
     \/ table /\ Panics

\* A query that fails reads as no table; a CREATE that fails is an error.
DatabaseFails ==
  /\ trouble
  /\ \/ /\ Moves("validated", "migrating") \/ Moves("migrating", "creating")
        /\ UNCHANGED <<vars, config, table, workers, header, trouble>>
     \/ phase = "creating" /\ Panics

\* Another replica on its way up.
OtherReplicaCreates ==
  /\ ~table
  /\ table' = TRUE
  /\ UNCHANGED <<vars, config, phase, workers, header, trouble>>

StartWorkers ==
  /\ Moves("migrated", "registering")
  /\ workers' = Workers
  /\ UNCHANGED <<vars, config, table, header, trouble>>

\* The gRPC service, the REST gateway and the callback endpoint.
RegisterAPIs ==
  /\ Moves("registering", "serving")
  /\ UNCHANGED <<vars, config, table, workers, header, trouble>>

\* A kill, a panic of another goroutine, or the gateway's token that is not made.
Crash == trouble /\ phase # "down" /\ Panics

\* From here on the environment behaves, as it may at any time.
Calm == trouble /\ trouble' = FALSE /\ UNCHANGED <<vars, config, phase, table, workers, header>>

-----------------------------------------------------------------------------

WorkerRuns == "updateAccessTokenWorker" \in workers

\* A whole run of the worker's callback; what it writes may come between the two
\* words of a read.
WorkerStores ==
  /\ WorkerRuns
  /\ StoreToken
  /\ header' = [header EXCEPT !.sound = @ /\ token' \in Tokens,
                             !.crossed = @ \/ (header.pc = "reading" /\ token' # token)]
  /\ UNCHANGED <<config, phase, table, workers, trouble>>

\* Slip: log.Fatal when a token cannot be had.
WorkerFailsFatally == WorkerRuns /\ ticker = 0 /\ failures < MaxFailures /\ Panics

WorkerFails == WorkerRuns /\ Fail /\ UNCHANGED serverVars

WorkerPanics == trouble /\ WorkerRuns /\ ClosedConnection /\ Panics

\* Time passes for the process that serves; it takes none to start.
Wait ==
  /\ phase = "serving"
  /\ Tick
  /\ header.pc # "idle" => header.held < MaxHold
  /\ header' = IF header.pc = "idle" THEN header
               ELSE [header EXCEPT !.held = @ + 1, !.age = @ + 1]
  /\ UNCHANGED <<config, phase, table, workers, trouble>>

\* InitiateSTK comes to fmt.Sprintf("Bearer %s", accessToken); the words of a string
\* another goroutine may be writing are read in either order.
ReadOneWord ==
  /\ phase = "serving"
  /\ header.pc = "idle"
  /\ \E of, len \in {token, "unread"} :
       /\ of = "unread" <=> len = token
       /\ header' = [pc |-> "reading", of |-> of, len |-> len, age |-> age, held |-> 0,
                     crossed |-> FALSE, sound |-> token \in Tokens]
  /\ UNCHANGED <<vars, config, phase, table, workers, trouble>>

\* A pointer of one text and a length of another make a text that is cut short or
\* runs past its end; a length without a pointer is a fault the recovery interceptor
\* makes an error of.
ReadOtherWord ==
  /\ header.pc = "reading"
  /\ LET h == IF header.of = "unread"
               THEN [header EXCEPT !.pc = "built", !.of = token, !.age = age]
               ELSE [header EXCEPT !.pc = "built", !.len = token]
     IN  header' = IF h.of = "none" /\ h.len # "none" THEN NoHeader ELSE h
  /\ UNCHANGED <<vars, config, phase, table, workers, trouble>>

\* The row is inserted and the goroutine posts the push with this header, or the
\* insert fails and the header goes unused.
UseHeader ==
  /\ header.pc = "built"
  /\ header' = NoHeader
  /\ UNCHANGED <<vars, config, phase, table, workers, trouble>>

ServerInit ==
  /\ Init
  /\ config \in Configs
  /\ phase = "down"
  /\ table \in BOOLEAN
  /\ workers = {}
  /\ header = NoHeader
  /\ trouble = TRUE

Startup == Boot \/ CheckOptions \/ LookForTable \/ CreateTable \/ StartWorkers \/ RegisterAPIs

ServerNext ==
  \/ Startup
  \/ DatabaseFails
  \/ OtherReplicaCreates
  \/ Crash
  \/ Calm
  \/ WorkerStores
  \/ WorkerFails
  \/ WorkerPanics
  \/ Wait
  \/ ReadOneWord
  \/ ReadOtherWord
  \/ UseHeader

ServerSpec == ServerInit /\ [][ServerNext]_<<vars, serverVars>>

\* The process is started again whenever it is down, its goroutines run and time
\* passes; M-Pesa answers an attempt or fails it, failing as often in one life as
\* MaxFailures allows; there is an end to trouble, though another replica may still
\* come first.
ServerFairness ==
  /\ WF_<<vars, serverVars>>(Startup)
  /\ WF_<<vars, serverVars>>(WorkerStores \/ WorkerFails)
  /\ WF_<<vars, serverVars>>(Wait)
  /\ WF_<<vars, serverVars>>(ReadOtherWord \/ UseHeader)
  /\ WF_<<vars, serverVars>>(Calm)

FairServerSpec == ServerSpec /\ ServerFairness

-----------------------------------------------------------------------------

Texts == {"none", "nil"} \cup Tokens

\* Every variable of the process has its type.
ServerTypeOK ==
  /\ TypeOK
  /\ phase \in Phases
  /\ table \in BOOLEAN /\ trouble \in BOOLEAN
  /\ workers \in SUBSET {"updateAccessTokenWorker", "updateSTKResultsWorker", "processWorker"}
  /\ header \in [pc: {"idle", "reading", "built"}, of: Texts \cup {"unread"},
                 len: Texts \cup {"unread"}, age: Nat, held: 0..MaxHold,
                 crossed: BOOLEAN, sound: BOOLEAN]

\* However two replicas' looks at the table and their CREATEs interleave, and
\* whatever queries fail meanwhile, no worker runs and no request is served before
\* the table is there and every required option is set (stk.go:93-122, :142,
\* :164-177, cmd/app/main.go:199-245).
ReadyBeforeWork ==
  workers # {} \/ phase = "serving" =>
    /\ table
    /\ \A o \in RequiredOptions : OptionSet(o)

\* The length that was read is that of the text that was pointed to.
Whole(h) == h.of \in Tokens /\ h.len \in Tokens /\ Length[h.of] = Length[h.len]

\* A push carries a token of M-Pesa's that has not expired after at most Tolerated
\* failures, and the whole of it unless the worker puts one of another length in its
\* place between the two reads of a string no lock protects: that alone makes a header
\* out of two tokens, however the worker's runs, failures and the wait for the row fall
\* between its steps (worker.go:81, stk.go:274 before :296 and :307).  Only headers read
\* while M-Pesa's last answers carried a token are meant.
HeaderIsGood ==
  header.pc = "built" /\ header.sound =>
    /\ header.of \in Tokens /\ header.len \in Tokens
    /\ Whole(header) \/ header.crossed
    /\ failures <= Tolerated => header.age < Lifetime

\* Nothing that has started is lost when the environment behaves: a configured process
\* goes down by itself only before it has a worker, a request or a header, and finds
\* the table when it is started again.  No missing option, no failure to get a token
\* and no replica takes it down later (stk.go:164-169, cmd/app/main.go:222,
\* worker.go:44-51).
DownOnlyBeforeWork ==
  [][Complete /\ ~trouble /\ phase # "down" /\ phase' = "down" =>
       table /\ workers = {} /\ header.pc = "idle"]_<<vars, serverVars>>

\* Losing the race for the table costs a restart and no more: a process that is
\* configured comes to serve and stays (stk.go:164-169, main.go:222).
ComesToServe == Complete => <>[](phase = "serving")

\* The worker never gives up: while the process lives a token is replaced by another
\* answer of M-Pesa's, however many failures came before, even that of the very first
\* attempt (worker.go:44-51).
Refreshes == Complete => []<>(token # "none" /\ age = 0)
=============================================================================
