--------------------------- MODULE IsolationForest ---------------------------
(***************************************************************************)
(* The isolation-forest detector (detectors/ml_isolation.py): per symbol a  *)
(* buffer of the latest feature rows, a count of rows since the last fit    *)
(* and the model in use.  A row is its number in the order of its symbol's  *)
(* rows, a model the rows it was fitted on; fitting and scoring belong to   *)
(* scikit-learn.                                                            *)
(***************************************************************************)
EXTENDS WindowStore

CONSTANTS WarmUp,         (* window.min_trades                               *)
          TrainSize, RetrainEvery

ASSUME ForestAssumption ==
  /\ WarmUp \in Nat
  /\ TrainSize \in Nat \ {0} /\ RetrainEvery \in Nat \ {0}

VARIABLES buffers,    (* _buffers: deques of at most TrainSize rows          *)
          sinceFit,   (* _since_fit                                          *)
          models,     (* _models: partial, by symbol                         *)
          rows        (* history: the rows computed so far, by symbol        *)

forestVars == <<buffers, sinceFit, models, rows>>
-----------------------------------------------------------------------------
(* buf.append(row) on a deque with maxlen TrainSize.                        *)
Buffered(buf, row) ==
  IF Len(buf) < TrainSize THEN Append(buf, row) ELSE Append(Tail(buf), row)

(* Mutant: one row more than retrain_every before the next fit.             *)
FitsLate(s, buf, since) ==
  /\ Len(buf) >= TrainSize
  /\ s \notin DOMAIN models \/ since > RetrainEvery

(* Whether _maybe_fit(symbol) fits a new model, since counting this row.    *)
Fits(s, buf, since) ==
  /\ Len(buf) >= TrainSize
  /\ s \notin DOMAIN models \/ since >= RetrainEvery

(* inspect(t) on the window with t in it, up to the model t is judged by;   *)
(* no row, and nothing learned, while the window is not warm.               *)
Learn(t) ==
  LET s == t.symbol
      row == rows[s] + 1
      buf == Buffered(buffers[s], row)
      fits == Fits(s, buf, sinceFit[s] + 1)
  IN  IF Len(Add(Window(s), t)) > WarmUp
      THEN /\ buffers' = [buffers EXCEPT ![s] = buf]
           /\ sinceFit' = [sinceFit EXCEPT ![s] = IF fits THEN 0 ELSE @ + 1]
           /\ models' = IF ~fits THEN models
                        ELSE [z \in DOMAIN models \cup {s} |->
                                IF z = s THEN buf ELSE models[z]]
           /\ rows' = [rows EXCEPT ![s] = row]
      ELSE UNCHANGED forestVars

ForestInit ==
  /\ buffers = [s \in Symbols |-> << >>]
  /\ sinceFit = [s \in Symbols |-> 0]
  /\ models = << >>
  /\ rows = [s \in Symbols |-> 0]

ForestNext == \E t \in Trades : OnTime(t) /\ Store(t) /\ Learn(t)

ForestSpec == StoreInit /\ ForestInit /\ [][ForestNext]_<<storeVars, forestVars>>
-----------------------------------------------------------------------------
ForestTypeOK ==
  /\ buffers \in [Symbols -> Seq(Nat)]
  /\ sinceFit \in [Symbols -> Nat]
  /\ DOMAIN models \subseteq Symbols
  /\ \A s \in DOMAIN models : models[s] \in Seq(Nat)
  /\ rows \in [Symbols -> Nat]

(* The model a trade is judged by: there is one as soon as TrainSize rows   *)
(* were computed, it was fitted on TrainSize consecutive rows of the same   *)
(* symbol, and fewer than RetrainEvery rows have come since.  Rows and not  *)
(* trades or time: while a window is not warm nothing ages the model.       *)
ModelIsFresh ==
  \A s \in Symbols :
    IF rows[s] < TrainSize THEN s \notin DOMAIN models
    ELSE /\ s \in DOMAIN models
         /\ \E last \in TrainSize..rows[s] :
              /\ rows[s] - last < RetrainEvery
              /\ models[s] = [i \in 1..TrainSize |-> last - TrainSize + i]
=============================================================================
