---------------------------- MODULE MCStkResults ----------------------------
(***************************************************************************)
(* StkResults for TLC.                                                     *)
(***************************************************************************)
EXTENDS StkResults, TLC

Silent ==
  [complete |-> TRUE, publish |-> FALSE, onlyOnSuccess |-> FALSE, channel |-> FALSE]

OneRequest == {Silent}

HandlerSymmetry == Permutations(Handlers)
=============================================================================
