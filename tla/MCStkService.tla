---------------------------- MODULE MCStkService ----------------------------
(***************************************************************************)
(* StkService for TLC: the kinds of request clients send, and the symmetry *)
(* of the handlers, which differ in nothing but their name.                *)
(***************************************************************************)
EXTENDS StkService, TLC

Silent ==
  [complete |-> TRUE, publish |-> FALSE, onlyOnSuccess |-> FALSE, channel |-> FALSE]
Always == [Silent EXCEPT !.publish = TRUE, !.channel = TRUE]
OnSuccess == [Always EXCEPT !.onlyOnSuccess = TRUE]
NoChannel == [Always EXCEPT !.channel = FALSE]
Incomplete == [Silent EXCEPT !.complete = FALSE]

\* Every kind of request, valid or not; the two that are published; one of them.
AllRequests == {Silent, Always, OnSuccess, NoChannel, Incomplete}
PublishedRequests == {Always, OnSuccess}
OneRequest == {Always}

HandlerSymmetry == Permutations(Handlers)
=============================================================================
