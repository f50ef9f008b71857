------------------------------ MODULE Backtest ------------------------------
(***************************************************************************)
(* The evaluation harness (evaluate.py, evaluate): a labelled batch of the  *)
(* simulator's trades goes through the engine with its detectors, and what  *)
(* was flagged is scored against the labels.  The engine is that of         *)
(* DetectionEngine with the verdicts of the real detectors in place of the  *)
(* nondeterministic ones; only the isolation forest's score is left open.   *)
(***************************************************************************)
EXTENDS Features, DetectionSql, IsolationForest, MarketSimulator, Evaluation

VARIABLES records,    (* (label, was flagged) of each trade                  *)
          episodes    (* history: the batches the simulator injected         *)

ASSUME BacktestAssumption == Market \subseteq Symbols

backtestVars == <<engineVars, forestVars, simVars, records, episodes>>
-----------------------------------------------------------------------------
(* What inspect() of each detector may come to, given the models in use.    *)
VerdictsOn(t, inUse) ==
  LET rule == RuleVerdict(t)
      forest == IF t.symbol \in DOMAIN inUse THEN {NoAlert, "medium", "high"}
                ELSE {NoAlert}
  IN  {[d \in Detectors |-> IF d = "isolation_forest" THEN x ELSE rule[d]] :
         x \in IF "isolation_forest" \in Detectors THEN forest ELSE {NoAlert}}

(* The detector that is there for a kind of anomaly.                        *)
Keeper == [price_spike |-> "price_spike", velocity_burst |-> "velocity",
           wash_trade |-> "wash_trade"]

(* History: a new episode, or one more trade of the current one; whether it *)
(* was flagged by any detector, and caught by its keeper.                   *)
Injected(b, t, raised) ==
  LET old == Len(episodes)
      left == Len(b.plans) - 1
      flagged == raised # {}
      caught == b.label \in DOMAIN Keeper /\ Keeper[b.label] \in raised
  IN  IF b.label = NoLabel THEN episodes
      ELSE IF batch.plans # << >>
      THEN [episodes EXCEPT ![old].last = t.ts, ![old].left = left,
                             ![old].flagged = @ \/ flagged,
                             ![old].caught = @ \/ caught]
      ELSE Append(episodes,
             [label |-> b.label, symbol |-> b.symbol, first |-> t.ts, last |-> t.ts,
              left |-> left, flagged |-> flagged, caught |-> caught,
              alone |-> Len(Add(Window(t.symbol), t)) = 1,
              joined |-> records # << >> /\ Last(records).label = b.label])

(* labeled_batch() cuts the last batch off, so the replay may end in one.   *)
Replay ==
  /\ Len(records) < MaxProcessed
  /\ \E b \in Current : \E t \in Drawn(b) :
       /\ Yields(b, t)
       /\ Learn(t)
       /\ \E v \in VerdictsOn(t, models') :
            /\ Process(t, v)
            /\ records' = Append(records, [label |-> b.label,
                                          flagged |-> Raised(t, v) # {}])
            /\ episodes' = Injected(b, t, Raised(t, v))

BacktestInit ==
  /\ EngineInit /\ ForestInit /\ SimInit
  /\ records = << >> /\ episodes = << >>

BacktestSpec == BacktestInit /\ [][Replay]_backtestVars
-----------------------------------------------------------------------------
(* The alert of e's keeper was held back by one from before the episode.    *)
HeldBack(e) ==
  LET times == emitted[<<e.symbol, Keeper[e.label]>>]
  IN  \E i \in 1..Len(times) : times[i] < e.first /\ e.last - times[i] < Cooldown

(* No injected price spike, velocity burst or wash trade slips through: an  *)
(* episode that ended without an alert of the detector that is there for    *)
(* its kind was a spike with no trade before it in its window, or that      *)
(* detector's cooldown was still running from an alert before the episode.  *)
InjectedAreCaught ==
  \A i \in 1..Len(episodes) :
    LET e == episodes[i]
    IN  e.label \in DOMAIN Keeper /\ e.left = 0 /\ ~e.caught =>
          (e.label = "price_spike" /\ e.alone) \/ HeldBack(e)

(* The report's recall is about the injected episodes, except that episodes *)
(* of one kind that follow each other directly, of whatever symbol, count   *)
(* as one event, detected if any of them is, under its label too; its       *)
(* precision is about those and the maximal runs of flagged normal trades.  *)
EpisodesAreScored ==
  LET report == Report(Score(records))
      heads == {i \in 1..Len(episodes) : ~episodes[i].joined}
      flagged(i) == \E j \in i..Len(episodes) :
                     episodes[j].flagged /\ \A k \in (i + 1)..j : episodes[k].joined
      recall(S) == <<Cardinality({i \in S : flagged(i)}), Cardinality(S)>>
      normal == {i \in 1..Len(records) : records[i].label = NoLabel}
      alarms == {i \in normal : records[i].flagged}
      runs == {i \in alarms : i - 1 \notin alarms}
  IN  /\ report.recall = recall(heads)
      /\ report.precision = <<recall(heads)[1], recall(heads)[1] + Cardinality(runs)>>
      /\ report.false_positive_rate = <<Cardinality(alarms), Cardinality(normal)>>
      /\ report.per_label_recall =
           [l \in {episodes[i].label : i \in heads} |->
              recall({i \in heads : episodes[i].label = l})]
=============================================================================
