------------------------- MODULE MCCallbackMetadata -------------------------
(***************************************************************************)
(* CallbackMetadata for TLC: amounts of one digit to ten, on both sides of *)
(* what a float32 holds and halfway between two of them; dates with every  *)
(* number of trailing zeros from the second to midnight.                   *)
(***************************************************************************)
EXTENDS CallbackMetadata, TLC

MCAmounts ==
  {[id |-> ToString(n[1]), value |-> n[1], digits |-> n[2], significant |-> n[3]] :
     n \in {<<1, 1, 1>>, <<70000, 5, 1>>, <<1250000, 7, 3>>, <<16777215, 8, 8>>,
            <<16777217, 8, 8>>, <<16777219, 8, 8>>, <<33554435, 8, 8>>,
            <<MaxAmount, 10, 10>>}}
MCReceipts == {"LK451H35OP", "LK451H35OQ"}
MCPhones ==
  {[id |-> "p1", digits |-> 12, significant |-> 12], [id |-> "p2", digits |-> 12, significant |-> 8]}
MCDates == {[id |-> ToString(n), digits |-> 14, significant |-> n] : n \in 7..14}
=============================================================================
