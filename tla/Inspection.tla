----------------------------- MODULE Inspection -----------------------------
(***************************************************************************)
(* The statistical and rule detectors (detectors/), as functions of a trade *)
(* and its symbol's window, the trade itself being the last in it.  Prices  *)
(* and quantities are whole numbers, fractions of a price or a quantity are *)
(* per mille, standard deviations are counted in tenths.                    *)
(***************************************************************************)
EXTENDS DetectionEngine, Statistics

CONSTANTS RulesFile,   (* what the file of rules sets, a record              *)
          NoAccount    (* account_id or counterparty_id is None              *)

(* The built-in ruleset (config.py), with a tick of one second.             *)
Defaults ==
  [min_trades |-> 20, price_threshold |-> 30, z_critical |-> 48,
   pct_threshold |-> 30, critical_pct |-> 80,
   median_multiplier |-> 6, critical_multiplier |-> 15,
   velocity_window |-> 5, velocity_max |-> 25, velocity_critical |-> 60,
   spoof_window |-> 3, imbalance_ratio |-> 5, min_events |-> 8,
   wash_window |-> 5, price_tolerance |-> 1, quantity_tolerance |-> 20]

(* DetectionConfig.load(): the file's rules, the built-in ones for the rest.*)
Rules == RulesFile @@ Defaults

(* Counts, seconds and thresholds are not negative.                         *)
ASSUME RulesAssumption ==
  /\ Rules.min_trades \in Nat /\ Rules.price_threshold \in Nat
  /\ Rules.velocity_window \in Nat
  /\ Rules.velocity_max \in Nat /\ Rules.velocity_critical \in Nat

Abs(x) == IF x < 0 THEN -x ELSE x
Prices(w) == [i \in 1..Len(w) |-> w[i].price]
Quantities(w) == [i \in 1..Len(w) |-> w[i].quantity]

Grade(alert, critical) ==
  IF ~alert THEN NoAlert ELSE IF critical THEN "critical" ELSE "high"
-----------------------------------------------------------------------------
(* ready(min_trades): enough trades before the current one.                 *)
Ready(w) == Len(w) > Rules.min_trades

(* sorted(): the i-th is the least of the values that i do not exceed.      *)
Sorted(vs) ==
  [i \in 1..Len(vs) |->
     Min({v \in Range(vs) : Cardinality({j \in 1..Len(vs) : vs[j] <= v}) >= i})]

(* Twice the median of sorted values, 0 of none.                            *)
TwiceMedian(s) ==
  LET mid == Len(s) \div 2
  IN  IF s = << >> THEN 0
      ELSE IF Len(s) % 2 = 1 THEN 2 * s[mid + 1] ELSE s[mid] + s[mid + 1]

(* volume_median(): sorts the volumes and then leaves the last one out, the *)
(* largest.                                                                 *)
TwiceVolumeMedian(w) == TwiceMedian(Front(Sorted(Quantities(w))))

(* The positions of the recent trades of a side.                            *)
OnSide(w, recent, side) == {i \in recent : w[i].side = side}

(* |a - b| is at most the tolerance's part of whole.                        *)
Within(a, b, tolerance, whole) == 1000 * Abs(a - b) <= tolerance * whole
-----------------------------------------------------------------------------
ZScore(t, w) ==
  LET ps == Prices(Front(w))
  IN  Grade(Ready(w) /\ FarFrom(ps, t.price, Rules.price_threshold),
            FarFrom(ps, t.price, Rules.z_critical))

PriceSpike(t, w) ==
  IF Len(w) < 2 THEN NoAlert
  ELSE LET prev == w[Len(w) - 1].price
           moved(pct) == 1000 * Abs(t.price - prev) >= pct * prev
       IN  Grade(prev > 0 /\ moved(Rules.pct_threshold), moved(Rules.critical_pct))

VolumeSpike(t, w) ==
  LET atLeast(k) == 2 * t.quantity >= k * TwiceVolumeMedian(w)
  IN  Grade(/\ Ready(w) /\ TwiceVolumeMedian(w) > 0
            /\ atLeast(Rules.median_multiplier),
            atLeast(Rules.critical_multiplier))

(* Mutant: the limit must be exceeded.                                      *)
VelocityAbove(t, w) ==
  LET count == Cardinality(Recent(w, t.ts, Rules.velocity_window))
  IN  IF count <= Rules.velocity_max THEN NoAlert ELSE "medium"

Velocity(t, w) ==
  LET count == Cardinality(Recent(w, t.ts, Rules.velocity_window))
  IN  CASE count < Rules.velocity_max -> NoAlert
        [] count >= Rules.velocity_critical /\ count >= Rules.velocity_max -> "critical"
        [] OTHER -> "medium"

Spoofing(t, w) ==
  LET recent == Recent(w, w[Len(w)].ts, Rules.spoof_window)
      buys == Cardinality(OnSide(w, recent, "buy"))
      sells == Cardinality(recent) - buys
      heavy == IF buys >= sells THEN buys ELSE sells
      light == buys + sells - heavy
  IN  Grade(/\ buys + sells >= Rules.min_events
            /\ heavy >= Rules.imbalance_ratio * (light + 1), FALSE)

(* The recent trades that t crosses: another trade of its account, on the   *)
(* other side, at about its price and of about its size.                    *)
Crossed(t, w) ==
  {i \in Recent(w, t.ts, Rules.wash_window) :
     LET larger == IF w[i].quantity > t.quantity THEN w[i].quantity ELSE t.quantity
     IN  /\ w[i].trade_id # t.trade_id /\ w[i].account = t.account
         /\ w[i].side # t.side
         /\ Within(w[i].price, t.price, Rules.price_tolerance, t.price)
         /\ Within(w[i].quantity, t.quantity, Rules.quantity_tolerance, larger)}

WashTrade(t, w) ==
  LET itself == t.account # NoAccount /\ t.account = t.counterparty
      cross == t.account # NoAccount /\ t.price > 0 /\ Crossed(t, w) # {}
  IN  Grade(itself \/ cross, TRUE)

(* What each rule detector says of t once t is in its window.               *)
RuleVerdict(t) ==
  LET w == Add(Window(t.symbol), t)
  IN  [zscore |-> ZScore(t, w), price_spike |-> PriceSpike(t, w),
       volume_spike |-> VolumeSpike(t, w), velocity |-> Velocity(t, w),
       spoofing |-> Spoofing(t, w), wash_trade |-> WashTrade(t, w)]
=============================================================================
