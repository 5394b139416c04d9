------------------------------ MODULE StkLedger -----------------------------
(***************************************************************************)
(* What the service promises, with no goroutine, cache or handler in it:   *)
(* a ledger of transactions, each open until the customer's own answer is  *)
(* entered in it once and for good, and initiators who are only told what  *)
(* the ledger already says.                                                *)
(***************************************************************************)
CONSTANTS Txns

VARIABLES
  answer,   \* the customer's answer to each push, "none" until there is one
  ledger,   \* what the service has on record
  told      \* the pairs <<transaction, result>> initiators have been told

ledgerVars == <<answer, ledger, told>>

Results == {"paid", "declined"}

LedgerInit ==
  /\ answer = [t \in Txns |-> "none"]
  /\ ledger = [t \in Txns |-> "unknown"]
  /\ told = {}

\* A client initiates a transaction.
Open(t) ==
  /\ ledger[t] = "unknown"
  /\ ledger' = [ledger EXCEPT ![t] = "open"]
  /\ UNCHANGED <<answer, told>>

\* The customer of an open transaction answers.
Answer(t) ==
  /\ ledger[t] = "open"
  /\ answer[t] = "none"
  /\ \E r \in Results : answer' = [answer EXCEPT ![t] = r]
  /\ UNCHANGED <<ledger, told>>

\* The answer is entered.
Settle(t) ==
  /\ ledger[t] = "open"
  /\ answer[t] \in Results
  /\ ledger' = [ledger EXCEPT ![t] = answer[t]]
  /\ UNCHANGED <<answer, told>>

\* The initiator is told what the ledger says.
Tell(t) ==
  /\ ledger[t] \in Results
  /\ told' = told \cup {<<t, ledger[t]>>}
  /\ UNCHANGED <<answer, ledger>>

LedgerNext == \E t \in Txns : Open(t) \/ Answer(t) \/ Settle(t) \/ Tell(t)

LedgerSpec == LedgerInit /\ [][LedgerNext]_ledgerVars
=============================================================================
