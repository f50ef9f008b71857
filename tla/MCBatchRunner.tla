---------------------------- MODULE MCBatchRunner ----------------------------
(* Two slices: in one the trades of two symbols alternate and a price stands*)
(* out, in the other a quantity does, after a line that cannot be parsed.   *)
EXTENDS BatchRunner
Trade(s, p, q) == [symbol |-> s, price |-> p, quantity |-> q]
MCSlices ==
  [z \in Seeds |->
     IF z = 1
     THEN <<Trade(1, 9, 1), Trade(2, 1, 1), Trade(1, 1, 1), Trade(2, 1, 1),
            Trade(1, 1, 1)>>
     ELSE <<Malformed, Trade(1, 1, 1), Trade(1, 1, 4), Trade(1, 1, 1)>>]
=============================================================================
