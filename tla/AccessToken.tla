----------------------------- MODULE AccessToken ----------------------------
(***************************************************************************)
(* The access token worker (internal/stk/v1/worker.go): it asks M-Pesa for *)
(* a token when the process starts and then whenever its ticker fires, and *)
(* InitiateSTK and the results worker send whatever token there is.  Time  *)
(* is counted in the units of the constants; a request to M-Pesa takes     *)
(* none, which a Dur longer than the client's timeout of 30 s allows.      *)
(***************************************************************************)
EXTENDS Integers

CONSTANTS
  Configured,   \* UpdateAccessTokenDuration, as the configuration gives it
  DefaultDur,   \* 15 minutes
  Expo,         \* the first extra delay after a failure, 10 seconds
  Lifetime,     \* how long M-Pesa honours a token (external), an hour
  MaxFailures,  \* bound: failures in one life of the process
  Tolerated,    \* how many failures the worker is meant to outlast
  Length        \* the texts of M-Pesa's tokens (external), and how long each is

VARIABLES
  token,        \* OptionSTK.accessToken: empty, the text of a nil, or one of M-Pesa's
  age,          \* time since it was stored
  ticker,       \* time until the ticker fires
  expo,         \* the extra delay of the next failure
  failures      \* failures in this life of the process

vars == <<token, age, ticker, expo, failures>>

ASSUME TokenAssumption ==
  /\ Configured \in Int
  /\ DefaultDur \in Nat \ {0}
  /\ Expo \in Nat \ {0}
  /\ Lifetime \in Nat
  /\ MaxFailures \in Nat
  /\ Length \in [DOMAIN Length -> Nat \ {0}]
  /\ DOMAIN Length \cap {"none", "nil", "unread"} = {}

Tokens == DOMAIN Length

\* The interval NewStkAPI gives the worker.
Dur == IF Configured > 0 THEN Configured ELSE DefaultDur

Stopped == -1

Init ==
  /\ token = "none"
  /\ age = 0
  /\ ticker = 0
  /\ expo = Expo
  /\ failures = 0

Tick ==
  /\ ticker > 0
  /\ ticker' = ticker - 1
  /\ age' = age + 1
  /\ UNCHANGED <<token, expo, failures>>

\* Slip: no new token while there is one.
StoreFirstToken ==
  /\ ticker = 0
  /\ token = "none"
  /\ \E answer \in Tokens \cup {"nil"} : token' = answer
  /\ age' = 0
  /\ ticker' = Dur
  /\ UNCHANGED <<expo, failures>>

\* Whatever M-Pesa answers with status 200 is a token, a new one or the same again:
\* without an access_token in it, or without a body, it is the text of a nil interface.
StoreToken ==
  /\ ticker = 0
  /\ \E answer \in Tokens \cup {"nil"} : token' = answer
  /\ age' = 0
  /\ ticker' = Dur
  /\ UNCHANGED <<expo, failures>>

\* Slip: the delays multiplied, and a failure that stops the ticker.
FailMultiplied ==
  /\ ticker = 0
  /\ failures < MaxFailures
  /\ ticker' = (expo + 1) * Dur
  /\ expo' = expo * 2
  /\ failures' = failures + 1
  /\ UNCHANGED <<token, age>>

FailStopped ==
  /\ ticker = 0
  /\ failures < MaxFailures
  /\ ticker' = Stopped
  /\ failures' = failures + 1
  /\ UNCHANGED <<token, age, expo>>

\* Slip: a failure that forgets the token there is.
FailForgets ==
  /\ ticker = 0
  /\ failures < MaxFailures
  /\ token' = "none"
  /\ ticker' = expo + Dur
  /\ expo' = expo * 2
  /\ failures' = failures + 1
  /\ UNCHANGED age

\* No connection, another status, or a body that is not JSON: the token there is
\* stays, and the next attempt waits longer than any before, since nothing ever
\* sets expo back.
Fail ==
  /\ ticker = 0
  /\ failures < MaxFailures
  /\ ticker' = expo + Dur
  /\ expo' = expo * 2
  /\ failures' = failures + 1
  /\ UNCHANGED <<token, age>>

\* The process dies; the next one begins without a token.
Die ==
  /\ token' = "none"
  /\ age' = 0
  /\ ticker' = 0
  /\ expo' = Expo
  /\ failures' = 0

\* A connection M-Pesa closes is io.EOF, which is let through to dump a response
\* that is nil: the goroutine panics, and takes the process with it.
ClosedConnection == ticker = 0 /\ Die

Next == Tick \/ StoreToken \/ Fail \/ Die

Spec == Init /\ [][Next]_vars

-----------------------------------------------------------------------------

\* Every variable has its type.
TypeOK ==
  /\ token \in {"none", "nil"} \cup Tokens
  /\ age \in Nat
  /\ ticker \in Nat
  /\ expo \in Nat \ {0}
  /\ failures \in 0..MaxFailures

\* The time of n failures' intervals and the one before the first of them.
Intervals(n) == Dur * (n + 1)

\* Between two attempts there is never more than the interval and the backoff the
\* failures of this life have earned (worker.go:33-37): a token is at most this old
\* when it is used, however successes and failures alternate.
AgeBounded == age + ticker <= Intervals(failures) + (expo - Expo)

\* A process that has seen at most Tolerated failures never sends an expired token.
NotExpired == token \in Tokens /\ failures <= Tolerated => age < Lifetime
=============================================================================
