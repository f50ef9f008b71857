------------------------------- MODULE Features -------------------------------
(***************************************************************************)
(* The features a model is trained on (ml/features.py): a row per trade,    *)
(* computed from its symbol's window before the trade is folded in.  A      *)
(* quotient is a pair, its numerator and its denominator; the z-score of    *)
(* the price stands squared.                                                *)
(***************************************************************************)
EXTENDS Inspection

(* A volume spike is at least twice the median, and a price moves.          *)
ASSUME FeaturesAssumption ==
  /\ Rules.pct_threshold \in Nat \ {0}
  /\ Rules.median_multiplier \in Nat /\ Rules.median_multiplier >= 2
  /\ Rules.critical_multiplier \in Nat /\ Rules.critical_multiplier >= 2

AtLeast(quotient, a, b) == quotient[1] * b >= a * quotient[2]
-----------------------------------------------------------------------------
(* Population statistics, not the sample's that the live detectors use.     *)
PriceZSquared(w, t) ==
  LET ps == Prices(w)  n == Len(ps)
      distance == n * t.price - Total(ps)
      spread == n * Total([i \in 1..n |-> ps[i] * ps[i]]) - Total(ps) * Total(ps)
  IN  IF spread > 0 THEN <<distance * distance, spread>> ELSE <<0, 1>>

SizeVsMedian(w, t) ==
  LET median == TwiceMedian(Sorted(Quantities(w)))
  IN  IF median > 0 THEN <<2 * t.quantity, median>> ELSE <<1, 1>>

PctMove(w, t) ==
  IF w = << >> THEN <<0, 1>> ELSE <<Abs(t.price - Last(w).price), Last(w).price>>

SideImbalance(w, recent) ==
  LET buys == Cardinality(OnSide(w, recent, "buy"))  all == Cardinality(recent)
  IN  IF recent = {} THEN <<0, 1>> ELSE <<2 * buys - all, all>>

(* transform_one(t) on the window w before it; the logarithm of the         *)
(* notional is left out, spread_from_last and qty_z are like their pairs,    *)
(* and the five seconds are those of the default ruleset.                   *)
FeatureRow(w, t) ==
  LET recent == Recent(w, t.ts, Rules.velocity_window)
  IN  [price_z |-> PriceZSquared(w, t), price_pct_move |-> PctMove(w, t),
       size_vs_median |-> SizeVsMedian(w, t), trades_in_5s |-> Cardinality(recent),
       side_imbalance |-> SideImbalance(w, recent)]

(* The window the builder has before the last trade of a tape: its windows  *)
(* are of the engine's class and are fed the same trades.                   *)
History(tape) == FoldLeft(Add, << >>, Front(tape))

(* Mutant: the trade is folded into its window before the row is computed.  *)
RowLeaking(tape) ==
  FeatureRow(FoldLeft(Add, << >>, tape), Last(tape))

(* The row of the last trade of a symbol's tape.                            *)
RowOf(tape) == FeatureRow(History(tape), Last(tape))
-----------------------------------------------------------------------------
(* What the live engine says of a trade is there for the model to see: the  *)
(* row of a trade that pushes nothing out of its window bears out every     *)
(* statistical detector that speaks.  For the volume spike, grade and all,  *)
(* it is what decides, although volume_median() leaves out the largest      *)
(* volume and not the trade's: where the two medians differ the trade is    *)
(* smaller than twice the lesser of them, and no multiplier is below 2.     *)
FeaturesBearOut ==
  \A s \in DOMAIN windows :
    LET w == windows[s]  t == Last(w)  row == RowOf(arrived[s])
        size(k) == Len(w) > 1 /\ AtLeast(row.size_vs_median, k, 1)
        k == Rules.price_threshold
    IN  Len(w) = Len(History(arrived[s])) + 1 =>
          /\ ZScore(t, w) # NoAlert => AtLeast(row.price_z, k * k, 100)
          /\ PriceSpike(t, w) # NoAlert <=>
               AtLeast(row.price_pct_move, Rules.pct_threshold, 1000)
          /\ VolumeSpike(t, w) = Grade(Ready(w) /\ size(Rules.median_multiplier),
                                       size(Rules.critical_multiplier))
          /\ Velocity(t, w) # NoAlert <=> row.trades_in_5s + 1 >= Rules.velocity_max
=============================================================================
