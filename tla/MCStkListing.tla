---------------------------- MODULE MCStkListing ----------------------------
(***************************************************************************)
(* StkListing for TLC: the whole time or the first second of it, rows of   *)
(* two phones, and a client that is restricted to one of them or to none.  *)
(***************************************************************************)
EXTENDS StkListing

SomeWindows == {AllTime, [from |-> 0, to |-> Ticks - 1]}

TwoPhones == [r \in Ids |-> IF r = 1 THEN "p1" ELSE "p2"]

NoneOrOne == {{}, {"p1"}}
=============================================================================
