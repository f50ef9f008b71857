---------------------------- MODULE SymbolWindow ----------------------------
(***************************************************************************)
(* The bounded, event-time window of one symbol (windows.py, class         *)
(* SymbolWindow), as operators on a sequence of trades, oldest arrival     *)
(* first.  A trade is any record with a field ts, its event time; what     *)
(* else it carries is left to the modules that use the window.             *)
(***************************************************************************)
EXTENDS Integers, Sequences, FiniteSetsExt

CONSTANTS MaxTrades,   (* max_trades: how many trades a window may hold     *)
          Horizon      (* horizon_seconds: how old its oldest trade may be  *)

ASSUME WindowAssumption == MaxTrades \in Nat \ {0} /\ Horizon \in Nat

-----------------------------------------------------------------------------
(* Mutant: pop() for popleft(), the newest trades go instead of the oldest. *)
TrimNewest(w) == IF Len(w) > MaxTrades THEN SubSeq(w, 1, MaxTrades) ELSE w

(* "Trim by count": drop from the head until at most MaxTrades remain.      *)
TrimByCount(w) ==
  IF Len(w) > MaxTrades THEN SubSeq(w, Len(w) - MaxTrades + 1, Len(w)) ELSE w

(* Mutant: a trade exactly as old as the horizon counts as stale.           *)
StrictlyFresh(w, now) == {i \in 1..Len(w) : w[i].ts > now - Horizon}

(* Positions of the trades that are not older than the horizon at time now. *)
Fresh(w, now) == {i \in 1..Len(w) : w[i].ts >= now - Horizon}

(* "Trim by age": drop from the head while the head is too old.  The loop   *)
(* stops at the first fresh trade, so a stale one behind it stays.          *)
TrimByAge(w, now) ==
  IF Fresh(w, now) = {} THEN << >> ELSE SubSeq(w, Min(Fresh(w, now)), Len(w))

Evict(w, now) == TrimByAge(TrimByCount(w), now)

(* Mutant: adding a trade trims by count alone.                             *)
AddWithoutAging(w, t) == TrimByCount(Append(w, t))

(* add(trade): the time that ages the window is the new trade's own.        *)
Add(w, t) == Evict(Append(w, t), t.ts)

(* Mutant: a trade exactly at the cutoff does not count.                    *)
RecentStrictly(w, at, span) == {i \in 1..Len(w) : w[i].ts > at - span}

(* count_within(span, at), recent(span, at): the positions of the trades no *)
(* older than span at time at.  A trade ahead of that time counts as recent.*)
Recent(w, at, span) == {i \in 1..Len(w) : w[i].ts >= at - span}
=============================================================================
