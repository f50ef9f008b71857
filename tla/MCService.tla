------------------------------ MODULE MCService ------------------------------
(* The service with trades on a few symbols.  A source's symbols and those  *)
(* that clients post may overlap.  Their clocks need not: the simulator     *)
(* stamps its trades from an epoch of its own, up to Elapsed, and a posted  *)
(* trade without a timestamp is stamped by the wall clock, from Wall on.    *)
EXTENDS Service, TLC
CONSTANTS MaxTime, Elapsed, Wall, SourceSymbols, BadSymbols
MCTrades == [symbol : Symbols, ts : 0..MaxTime]
MCSource == {t \in MCTrades : t.symbol \in SourceSymbols}
MCPlausible == {t \in MCTrades : t.symbol \notin BadSymbols}
MCSimulated == {t \in MCSource : t.ts <= Elapsed}
MCStamped == {t \in MCPlausible : t.ts >= Wall}
Interchangeable == Permutations(Clients)
=============================================================================
