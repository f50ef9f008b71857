--------------------------- MODULE DetectionEngine ---------------------------
(***************************************************************************)
(* The detection engine (engine.py, class DetectionEngine): every trade is  *)
(* stored in its symbol's window, shown to every detector, and the alerts   *)
(* the detectors raise pass a cooldown kept per (symbol, detector) in event *)
(* time.  process() awaits nothing, so it is one action.  What a detector   *)
(* says of a trade is nondeterministic here: nothing, an alert of some      *)
(* severity, or an exception.                                               *)
(***************************************************************************)
EXTENDS WindowStore, FiniteSets, Functions

CONSTANTS Detectors,    (* the names of the enabled detectors               *)
          Severities,   (* the severities their alerts may have             *)
          Cooldown      (* max(0, alert_cooldown_seconds)                   *)

NoAlert == "none"
Failure == "error"

ASSUME EngineAssumption ==
  /\ Cooldown \in Nat
  /\ NoAlert \notin Severities
  /\ Failure \notin Severities
  /\ IsFiniteSet(Detectors) /\ IsFiniteSet(Severities)
  /\ IsFiniteSet(Symbols)   (* they are strings of at most 32 characters    *)

Keys == Symbols \X Detectors
Verdicts == [Detectors -> Severities \cup {NoAlert, Failure}]

VARIABLES lastAlertTs,        (* _last_alert_ts: partial, by (symbol, detector) *)
          tradesProcessed, alertsRaised, alertsSuppressed,
          byDetector,         (* alerts_by_detector[name]                    *)
          errorsByDetector,   (* alerts_by_detector[name + ":error"]         *)
          bySeverity,
          emitted,            (* history: event times of the alerts raised,  *)
                              (* by key, in order                            *)
          suppressed          (* history: of those the cooldown held back    *)

counters == <<tradesProcessed, alertsRaised, alertsSuppressed,
              byDetector, errorsByDetector, bySeverity>>
engineVars == <<storeVars, lastAlertTs, counters, emitted, suppressed>>
-----------------------------------------------------------------------------
(* Mutant: the cooldown is kept per symbol, whatever the detector.          *)
SuppressedByAny(t, d) ==
  /\ Cooldown > 0
  /\ \E e \in Detectors : /\ <<t.symbol, e>> \in DOMAIN lastAlertTs
                         /\ t.ts - lastAlertTs[<<t.symbol, e>>] < Cooldown

(* _suppressed(trade, detector): a fresh alert of the key, or one at least  *)
(* Cooldown after the last emitted, gets through.                           *)
Suppressed(t, d) ==
  /\ Cooldown > 0
  /\ <<t.symbol, d>> \in DOMAIN lastAlertTs
  /\ t.ts - lastAlertTs[<<t.symbol, d>>] < Cooldown

Fired(v) == {d \in Detectors : v[d] \in Severities}
Raised(t, v) == {d \in Fired(v) : ~Suppressed(t, d)}
Held(t, v) == {d \in Fired(v) : Suppressed(t, d)}

(* The keys of t's symbol for the detectors D.                              *)
KeysOf(t, D) == {<<t.symbol, d>> : d \in D}

(* Mutant: setdefault(), the first alert of a key is the one remembered.    *)
RememberFirst(t, raised) ==
  [k \in DOMAIN lastAlertTs \cup KeysOf(t, raised) |->
     IF k \in DOMAIN lastAlertTs THEN lastAlertTs[k] ELSE t.ts]

(* Mutant: the key is the detector's name without the symbol.               *)
RememberByDetector(t, raised) ==
  [k \in DOMAIN lastAlertTs \cup raised |->
     IF k \in raised THEN t.ts ELSE lastAlertTs[k]]

(* The event times remembered once the alerts of the detectors in raised    *)
(* got through; with no cooldown nothing is remembered.                     *)
Remember(t, raised) ==
  IF Cooldown = 0
    THEN lastAlertTs
    ELSE [k \in DOMAIN lastAlertTs \cup KeysOf(t, raised) |->
            IF k \in KeysOf(t, raised) THEN t.ts ELSE lastAlertTs[k]]

(* Mutant: = 1 for += 1.                                                    *)
SetToOne(f, D) == [d \in DOMAIN f |-> IF d \in D THEN 1 ELSE f[d]]

(* f with one more at every point of D.                                     *)
CountUp(f, D) == [d \in DOMAIN f |-> f[d] + (IF d \in D THEN 1 ELSE 0)]

(* h with ts appended at every key of K.                                    *)
Note(h, K, ts) == [k \in DOMAIN h |-> IF k \in K THEN Append(h[k], ts) ELSE h[k]]

(* The detector loop of process() on the trade t, v being what each         *)
(* detector's inspect() comes to.                                           *)
Detect(t, v) ==
  LET raised == Raised(t, v)
      held == Held(t, v)
  IN  /\ lastAlertTs' = Remember(t, raised)
      /\ alertsRaised' = alertsRaised + Cardinality(raised)
      /\ alertsSuppressed' = alertsSuppressed + Cardinality(held)
      /\ byDetector' = CountUp(byDetector, raised)
      /\ errorsByDetector' =
           CountUp(errorsByDetector, {d \in Detectors : v[d] = Failure})
      /\ bySeverity' = [s \in Severities |->
                          bySeverity[s] + Cardinality({d \in raised : v[d] = s})]
      /\ emitted' = Note(emitted, KeysOf(t, raised), t.ts)
      /\ suppressed' = Note(suppressed, KeysOf(t, held), t.ts)

Process(t, v) ==
  /\ Store(t)
  /\ tradesProcessed' = tradesProcessed + 1
  /\ Detect(t, v)

EngineInit ==
  /\ StoreInit
  /\ lastAlertTs = << >>
  /\ tradesProcessed = 0 /\ alertsRaised = 0 /\ alertsSuppressed = 0
  /\ byDetector = [d \in Detectors |-> 0]
  /\ errorsByDetector = [d \in Detectors |-> 0]
  /\ bySeverity = [s \in Severities |-> 0]
  /\ emitted = [k \in Keys |-> << >>]
  /\ suppressed = [k \in Keys |-> << >>]

EngineNext ==
  \E t \in Trades, v \in Verdicts :
    OnTime(t) /\ tradesProcessed < MaxProcessed /\ Process(t, v)

EngineSpec == EngineInit /\ [][EngineNext]_engineVars
-----------------------------------------------------------------------------
EngineTypeOK ==
  /\ StoreTypeOK
  /\ DOMAIN lastAlertTs \subseteq Keys
  /\ \A k \in DOMAIN lastAlertTs : lastAlertTs[k] \in Nat
  /\ tradesProcessed \in Nat /\ alertsRaised \in Nat /\ alertsSuppressed \in Nat
  /\ byDetector \in [Detectors -> Nat]
  /\ errorsByDetector \in [Detectors -> Nat]
  /\ bySeverity \in [Severities -> Nat]
  /\ emitted \in [Keys -> Seq(Nat)]
  /\ suppressed \in [Keys -> Seq(Nat)]

(* Any two alerts a key emits are at least the cooldown apart in event      *)
(* time, the later one later, in whatever order its trades arrive           *)
(* (engine.py, _suppressed): one episode, one alert.                        *)
CooldownSpacing ==
  Cooldown > 0 =>
    \A k \in Keys : \A j \in 1..Len(emitted[k]) : \A i \in 1..(j - 1) :
      emitted[k][j] - emitted[k][i] >= Cooldown

(* Nothing is swallowed without a reason: each alert held back has an       *)
(* alert of the same key, emitted, less than the cooldown before it, or     *)
(* after it by no more than the lateness of the feed.                       *)
SuppressionJustified ==
  \A k \in Keys : \A i \in 1..Len(suppressed[k]) :
    \E j \in 1..Len(emitted[k]) :
      /\ suppressed[k][i] - emitted[k][j] < Cooldown
      /\ emitted[k][j] - suppressed[k][i] <= Lateness

(* How long each of a family of histories is.                               *)
Lengths(h) == [k \in DOMAIN h |-> Len(h[k])]

(* The counters of /stats agree with each other and with what happened:     *)
(* alerts by detector and by severity both add up to the alerts raised, and *)
(* so do the trades stored to the trades processed.                         *)
Accounting ==
  /\ SumFunction(Lengths(emitted)) = alertsRaised
  /\ SumFunction(Lengths(suppressed)) = alertsSuppressed
  /\ SumFunction(byDetector) = alertsRaised
  /\ SumFunction(bySeverity) = alertsRaised
  /\ SumFunction(Lengths(arrived)) = tradesProcessed

(* What the configuration says of the cooldown: an alert is held back only  *)
(* within Cooldown of event time of one that was emitted.                   *)
SuppressesOnlyWithinCooldown ==
  \A k \in Keys : \A i \in 1..Len(suppressed[k]) :
    \E j \in 1..Len(emitted[k]) :
      /\ suppressed[k][i] - emitted[k][j] < Cooldown
      /\ emitted[k][j] - suppressed[k][i] < Cooldown
=============================================================================
