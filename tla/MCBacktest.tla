------------------------------ MODULE MCBacktest ------------------------------
(* The evaluation on small tapes, with a file of rules scaled to them.     *)
EXTENDS Backtest
CONSTANT MinTrades
MCRules ==
  [min_trades |-> MinTrades, median_multiplier |-> 2,
   velocity_window |-> 3, velocity_max |-> 2, velocity_critical |-> 3,
   min_events |-> 3, imbalance_ratio |-> 3,
   wash_window |-> 3, price_tolerance |-> 10]
(* A Spark job with the numbers of that ruleset, a more sensitive one and   *)
(* one that is less so.                                                     *)
MCJobs ==
  {[lookback |-> 3, velocity_seconds |-> 1, price_z |-> 30, vol_ratio |-> 2, velocity |-> 2],
   [lookback |-> 2, velocity_seconds |-> 2, price_z |-> 20, vol_ratio |-> 2, velocity |-> 1],
   [lookback |-> 3, velocity_seconds |-> 1, price_z |-> 140, vol_ratio |-> 6, velocity |-> 3]}
(* The trades come from the simulator and not from a set.                   *)
MCTrades == {}
(* Down and up by a tenth.                                                  *)
MCSpikes == {-10, 10}
Interchangeable == Permutations(Symbols) \cup Permutations(Accounts)
=============================================================================
