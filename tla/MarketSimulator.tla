--------------------------- MODULE MarketSimulator ---------------------------
(***************************************************************************)
(* The market simulator (sources/simulator.py), one trade at a time: a      *)
(* batch of _next_batch() is planned when the last one is used up, and its  *)
(* trades follow in order.  The random number generator is a choice, the    *)
(* event time a count of ticks since the simulator's epoch.                 *)
(***************************************************************************)
EXTENDS Integers, Sequences, FiniteSets

CONSTANTS Market,        (* states: the symbols simulated                    *)
          StartPrice,
          Moves,         (* what a normal trade may add to the price         *)
          Spikes,        (* percents a price spike may add                   *)
          Sizes,         (* the sizes of ordinary trades                     *)
          Blocks,        (* the sizes of volume spikes                       *)
          Sides, Accounts,
          NormalGaps,    (* ticks between ordinary trades                    *)
          BurstGap,      (* ticks between the trades of a burst              *)
          Bursts,        (* lengths of velocity bursts                       *)
          Layers         (* lengths of spoofing bursts                       *)

(* Prices, sizes and lengths are positive, time does not run back.          *)
ASSUME SimulatorAssumption ==
  /\ StartPrice \in Nat \ {0} /\ Moves \subseteq Int /\ Spikes \subseteq Int
  /\ Sizes \subseteq Nat \ {0} /\ Blocks \subseteq Nat \ {0}
  /\ NormalGaps \subseteq Nat /\ BurstGap \in Nat
  /\ Bursts \subseteq Nat \ {0} /\ Layers \subseteq Nat \ {0}

Normal == "normal"      (* the label None                                    *)

VARIABLES price,      (* state.price, by symbol                              *)
          elapsed,    (* _elapsed: the event-time cursor                     *)
          batch,      (* the rest of the current batch: its label and symbol *)
                      (* and the plans of the trades still to come           *)
          drawn       (* how many trades were yielded; numbers them          *)

simVars == <<price, elapsed, batch, drawn>>
-----------------------------------------------------------------------------
(* A planned trade: the gaps it may follow after and what it overrides.     *)
Free == << >>
Ordinary(over) == [gaps |-> NormalGaps, over |-> over]
Quick(over) == [gaps |-> {BurstGap}, over |-> over]

Spiked(s, percent) ==
  LET p == (price[s] * (100 + percent)) \div 100 IN IF p > 1 THEN p ELSE 1

(* Both sides of a trade of an account with itself.                         *)
SelfCross(s, a, q) ==
  LET leg(side) == [side |-> side, price |-> price[s], quantity |-> q,
                    account |-> a, counterparty |-> a]
  IN  <<Ordinary(leg("buy")), Quick(leg("sell"))>>

(* The plans _next_batch() may come to for a symbol, by label.              *)
Plans(s, label) ==
  CASE label = Normal -> {<<Ordinary(Free)>>}
    [] label = "price_spike" ->
         {<<Ordinary([price |-> Spiked(s, k)])>> : k \in Spikes}
    [] label = "volume_spike" -> {<<Ordinary([quantity |-> b])>> : b \in Blocks}
    [] label = "velocity_burst" -> {[i \in 1..n |-> Quick(Free)] : n \in Bursts}
    [] label = "spoofing" ->
         {[i \in 1..n |-> Quick([side |-> x])] : n \in Layers, x \in Sides}
    [] label = "wash_trade" -> {SelfCross(s, a, q) : a \in Accounts, q \in Sizes}

Labels == {Normal, "price_spike", "volume_spike", "velocity_burst",
           "spoofing", "wash_trade"}

Batches ==
  UNION {{[symbol |-> s, label |-> l, plans |-> p] : p \in Plans(s, l)} :
           s \in Market, l \in Labels}

(* next_price(): where the price of a symbol may walk.                      *)
Walk(s) == {IF price[s] + m > 1 THEN price[s] + m ELSE 1 : m \in Moves}

(* A trade with what the plan overrides.                                    *)
Overridden(trade, over) ==
  [k \in DOMAIN trade |-> IF k \in DOMAIN over THEN over[k] ELSE trade[k]]

(* _normal(): a trade of b's symbol as its first plan has it, the rest      *)
(* drawn; the price walks unless the plan overrides it.                     *)
Drawn(b) ==
  LET s == b.symbol  plan == Head(b.plans)
      walk == IF "price" \in DOMAIN plan.over THEN {price[s]} ELSE Walk(s)
  IN  {Overridden([trade_id |-> drawn + 1, symbol |-> s, ts |-> elapsed + gap,
                   price |-> p, quantity |-> q, side |-> x,
                   account |-> pair[1], counterparty |-> pair[2]], plan.over) :
         gap \in plan.gaps, p \in walk, q \in Sizes, x \in Sides,
         pair \in {u \in Accounts \X Accounts : u[1] # u[2]}}

(* The batches the next trade may come from.                                *)
Current == IF batch.plans = << >> THEN Batches ELSE {batch}

(* The simulator yields t, the next trade of batch b.                       *)
Yields(b, t) ==
  /\ elapsed' = t.ts
  /\ price' = [price EXCEPT ![b.symbol] = t.price]
  /\ batch' = [b EXCEPT !.plans = Tail(@)]
  /\ drawn' = drawn + 1

SimInit ==
  /\ price = [s \in Market |-> StartPrice]
  /\ elapsed = 0
  /\ \E s \in Market : batch = [symbol |-> s, label |-> Normal, plans |-> << >>]
  /\ drawn = 0
=============================================================================
