-------------------------- MODULE MCDetectionEngine --------------------------
(* The engine on trades that differ in their symbol and event time.         *)
EXTENDS DetectionEngine, TLC
CONSTANT MaxTime
MCTrades == [symbol : Symbols, ts : 0..MaxTime]
Interchangeable == Permutations(Symbols) \cup Permutations(Detectors)
=============================================================================
