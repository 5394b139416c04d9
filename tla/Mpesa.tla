-------------------------------- MODULE Mpesa -------------------------------
(***************************************************************************)
(* Safaricom's M-Pesa as the service sees it (external): it takes a push   *)
(* request or refuses it, asks the customer, and posts the customer's      *)
(* answer to the callback URL.  Nothing it does is under the service's     *)
(* control, so no step of it is fair; an answer may be posted again, and   *)
(* it may be posted before the response to the push request has arrived.   *)
(* A push is named by the row it was sent for.                             *)
(***************************************************************************)
EXTENDS StkStore

CONSTANTS
  MaxDeliveries   \* bound: how often one answer is posted

VARIABLES
  mpesa,          \* where M-Pesa is with each push
  deliveries      \* how often the answer to each push has been posted

mpesaVars == <<mpesa, deliveries>>

ASSUME DeliveriesAssumption == MaxDeliveries \in Nat

MpesaStates == {"idle", "requested", "refused", "accepted", "paid", "declined"}

Accepted(p) == mpesa[p] \in {"accepted", "paid", "declined"}
Answered(p) == mpesa[p] \in {"paid", "declined"}

\* The push is taken and its CheckoutRequestID assigned, or refused.
AnswerPush(p) ==
  /\ mpesa[p] = "requested"
  /\ \E s \in {"accepted", "refused"} : mpesa' = [mpesa EXCEPT ![p] = s]
  /\ UNCHANGED deliveries

\* The customer pays (ResultCode 0), or cancels or times out (any other code).
AnswerPrompt(p) ==
  /\ mpesa[p] = "accepted"
  /\ \E s \in {"paid", "declined"} : mpesa' = [mpesa EXCEPT ![p] = s]
  /\ UNCHANGED deliveries

\* One POST of the answer to the callback URL.
PostAnswer(p) ==
  /\ Answered(p)
  /\ deliveries[p] < MaxDeliveries
  /\ deliveries' = [deliveries EXCEPT ![p] = @ + 1]
  /\ UNCHANGED mpesa

MpesaInit ==
  /\ mpesa = [p \in Ids |-> "idle"]
  /\ deliveries = [p \in Ids |-> 0]

MpesaTypeOK ==
  /\ mpesa \in [Ids -> MpesaStates]
  /\ deliveries \in [Ids -> 0..MaxDeliveries]
=============================================================================
