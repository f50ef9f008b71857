----------------------------- MODULE Evaluation -----------------------------
(***************************************************************************)
(* The scoring of the evaluation harness (evaluate.py, _score): a sequence  *)
(* of records, each the label of a trade and whether an alert was raised on *)
(* it, is read once from the left.                                          *)
(***************************************************************************)
EXTENDS Naturals, Sequences, SequencesExt

CONSTANT NoLabel       (* None: a normal trade                               *)

NoScore == [events |-> 0, detected |-> 0, false_alarms |-> 0, normal |-> 0,
            normal_flagged |-> 0, per_label |-> << >>,
            run |-> NoLabel, any_flag |-> FALSE]

One(b) == IF b THEN 1 ELSE 0

(* per_label with n events more of a label, hits of them detected.          *)
Tallied(per, label, n, hits) ==
  [k \in DOMAIN per \cup {label} |->
     LET old == IF k \in DOMAIN per THEN per[k] ELSE <<0, 0>>
     IN  IF k = label THEN <<old[1] + hits, old[2] + n>> ELSE old]

(* Mutant: every injected trade is an event of its own.                     *)
ScoreEachTrade(z, r) ==
  IF r.label = NoLabel THEN z
  ELSE [z EXCEPT !.events = @ + 1, !.detected = @ + One(r.flagged),
                 !.per_label = Tallied(@, r.label, 1, One(r.flagged))]

(* One record more.  run is the label of the episode being consumed, and    *)
(* any_flag whether it has been flagged; between episodes any_flag is       *)
(* in_episode, whether the last normal trade was flagged.                   *)
ScoreRecord(z, r) ==
  LET same == r.label = z.run
      fresh == r.flagged /\ ~(same /\ z.any_flag)
  IN  IF r.label = NoLabel
      THEN [z EXCEPT !.normal = @ + 1, !.normal_flagged = @ + One(r.flagged),
                     !.false_alarms = @ + One(fresh),
                     !.run = NoLabel, !.any_flag = r.flagged]
      ELSE [z EXCEPT !.events = @ + One(~same), !.detected = @ + One(fresh),
                     !.per_label = Tallied(@, r.label, One(~same), One(fresh)),
                     !.run = r.label,
                     !.any_flag = r.flagged \/ (same /\ z.any_flag)]

Score(records) == FoldLeft(ScoreRecord, NoScore, records)

(* EvalReport: each ratio as its two numbers, 0 if the second one is; F1 is *)
(* computed from the first two.                                             *)
Report(z) ==
  [precision |-> <<z.detected, z.detected + z.false_alarms>>,
   recall |-> <<z.detected, z.events>>,
   false_positive_rate |-> <<z.normal_flagged, z.normal>>,
   per_label_recall |-> z.per_label]
=============================================================================
