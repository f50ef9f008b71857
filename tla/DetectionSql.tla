----------------------------- MODULE DetectionSql -----------------------------
(***************************************************************************)
(* The statistical detectors as window functions of Spark SQL               *)
(* (spark/detection_sql.py), over whole tapes.  A tape is all the trades of *)
(* one symbol, in the order of their times.                                 *)
(***************************************************************************)
EXTENDS Inspection

CONSTANTS Second,      (* ticks to a second: Spark truncates times to it     *)
          Jobs         (* the numbers a job may be run with: the defaults of *)
                       (* the query, or the flags of batch_backtest.py       *)

(* Positive where a row without a deviation or a mean, whose quotients the  *)
(* query takes to be 0, would be flagged otherwise.  Thresholds of prices   *)
(* are in tenths.                                                           *)
ASSUME SqlAssumption ==
  /\ Second \in Nat \ {0}
  /\ Jobs \subseteq [lookback : Nat, velocity_seconds : Nat, price_z : Nat \ {0},
                    vol_ratio : Nat \ {0}, velocity : Nat]

SecondOf(t) == t.ts \div Second
-----------------------------------------------------------------------------
(* Window "prior" of row i in the job q.  Rows of one second come in any    *)
(* order, here in that of the tape.                                         *)
PriorRows(q, tape, i) ==
  SubSeq(tape, IF i > q.lookback THEN i - q.lookback ELSE 1, i - 1)

(* Mutant: the second that is just velocity_seconds back is left out.       *)
RecentRowsLess(q, tape, i) ==
  {j \in DOMAIN tape : /\ SecondOf(tape[j]) <= SecondOf(tape[i])
                       /\ SecondOf(tape[j]) > SecondOf(tape[i]) - q.velocity_seconds}

(* Window "recent", a range of seconds: with row i those of its own second  *)
(* that come after it.                                                      *)
RecentRows(q, tape, i) ==
  {j \in DOMAIN tape : /\ SecondOf(tape[j]) <= SecondOf(tape[i])
                       /\ SecondOf(tape[j]) >= SecondOf(tape[i]) - q.velocity_seconds}

(* is_price, is_vol and is_velocity of flag_anomalies(), on the columns of  *)
(* add_statistical_features(): the thresholds are the job's own, whatever   *)
(* the ruleset says, and no row waits for min_trades.                       *)
IsPrice(q, tape, i) == FarFrom(Prices(PriorRows(q, tape, i)), tape[i].price, q.price_z)

IsVol(q, tape, i) ==
  LET prior == PriorRows(q, tape, i)
      volume == Total(Quantities(prior))
  IN  volume > 0 /\ tape[i].quantity * Len(prior) >= q.vol_ratio * volume

IsVelocity(q, tape, i) == Cardinality(RecentRows(q, tape, i)) >= q.velocity

(* The detector named in row i of the output.                               *)
SqlDetector(q, tape, i) ==
  IF IsPrice(q, tape, i) THEN "zscore"
  ELSE IF IsVol(q, tape, i) THEN "volume_spike"
  ELSE IF IsVelocity(q, tape, i) THEN "velocity" ELSE NoAlert
-----------------------------------------------------------------------------
(* The batch layer and the live engine judge a tape alike as far as the     *)
(* job's numbers and those of the ruleset let them.  A job whose velocity   *)
(* numbers are no stricter than the ruleset's flags every trade of a burst  *)
(* that the live velocity detector speaks of.  One whose price threshold is *)
(* no higher names zscore for whatever the live detector speaks of, one     *)
(* whose threshold is no lower for nothing else, once the live detector is  *)
(* warm, as long as its window holds the trades the job looks back at and   *)
(* no other trade shares the second.  With equal numbers they agree; with a *)
(* tuned ruleset and an untuned job only one half is left.                  *)
SqlAgrees ==
  \A q \in Jobs : \A s \in DOMAIN windows : \A i \in DOMAIN arrived[s] :
    LET tape == arrived[s]
        w == FoldLeft(Add, << >>, SubSeq(tape, 1, i))
        alone == \A j \in DOMAIN tape : SecondOf(tape[j]) = SecondOf(tape[i]) => j = i
    IN  /\ /\ q.velocity <= Rules.velocity_max
           /\ q.velocity_seconds * Second >= Rules.velocity_window
           /\ Velocity(tape[i], w) # NoAlert
           => SqlDetector(q, tape, i) # NoAlert
        /\ Ready(w) /\ Len(w) = i /\ i <= q.lookback + 1 /\ alone =>
             /\ q.price_z <= Rules.price_threshold /\ ZScore(tape[i], w) # NoAlert
                => SqlDetector(q, tape, i) = "zscore"
             /\ q.price_z >= Rules.price_threshold /\ SqlDetector(q, tape, i) = "zscore"
                => ZScore(tape[i], w) # NoAlert
=============================================================================
