----------------------------- MODULE WindowStore -----------------------------
(***************************************************************************)
(* The registry of per-symbol windows (windows.py, class WindowStore) under *)
(* the trades that reach it.  Event time is the trade's own timestamp, so   *)
(* it need not grow from one arrival to the next: Lateness bounds how far   *)
(* behind the newest trade of its symbol a trade may arrive.  Lateness = 0  *)
(* is a feed whose timestamps are monotonic per symbol.                     *)
(***************************************************************************)
EXTENDS SymbolWindow

CONSTANTS Symbols,
          Trades,        (* the trades that may arrive, as records with at   *)
                         (* least a symbol and an event time ts              *)
          Lateness,
          MaxProcessed   (* bound on the number of trades of a behaviour     *)

ASSUME StoreAssumption ==
  /\ \A t \in Trades : t.symbol \in Symbols /\ t.ts \in Nat
  /\ Lateness \in Nat
  /\ MaxProcessed \in Nat

VARIABLES windows,   (* _windows: the windows created so far, by symbol      *)
          arrived,   (* history: every trade of a symbol, in arrival order   *)
          newest     (* history: the greatest event time seen, by symbol     *)

storeVars == <<windows, arrived, newest>>
-----------------------------------------------------------------------------
(* get(symbol): the symbol's window, created empty on first use.            *)
Window(s) == IF s \in DOMAIN windows THEN windows[s] ELSE << >>

OnTime(t) == t.ts >= newest[t.symbol] - Lateness

(* get(trade.symbol).add(trade).                                            *)
Store(t) ==
  /\ windows' = [s \in DOMAIN windows \cup {t.symbol} |->
                   IF s = t.symbol THEN Add(Window(s), t) ELSE windows[s]]
  /\ arrived' = [arrived EXCEPT ![t.symbol] = Append(@, t)]
  /\ newest' = [newest EXCEPT ![t.symbol] = IF t.ts > @ THEN t.ts ELSE @]

StoreInit ==
  /\ windows = << >>
  /\ arrived = [s \in Symbols |-> << >>]
  /\ newest = [s \in Symbols |-> 0]

StoreNext ==
  \E t \in Trades :
    /\ OnTime(t)
    /\ \A s \in Symbols : Len(arrived[s]) < MaxProcessed
    /\ Store(t)

StoreSpec == StoreInit /\ [][StoreNext]_storeVars
-----------------------------------------------------------------------------
StoreTypeOK ==
  /\ DOMAIN windows \subseteq Symbols
  /\ \A s \in DOMAIN windows : windows[s] \in Seq(Trades)
  /\ arrived \in [Symbols -> Seq(Trades)]
  /\ newest \in [Symbols -> Nat]

(* A window holds the latest arrivals of its symbol, at least the last one  *)
(* and at most max_trades, with no gap and in order: the detectors read the *)
(* current trade and its predecessors from its end.                         *)
WindowIsSuffix ==
  \A s \in DOMAIN windows :
    LET n == Len(arrived[s])  m == Len(windows[s])
    IN  m \in 1..MaxTrades /\ m <= n
        /\ \A i \in 1..m : windows[s][i] = arrived[s][n - m + i]

(* No trade in a window is older, against the trade added last, than the    *)
(* horizon plus the lateness of the feed.  On a monotonic feed this is the  *)
(* horizon itself; on a late feed a stale trade may sit behind a fresh head,*)
(* but never one staler than that.                                          *)
WindowAgeBounded ==
  \A s \in DOMAIN windows : \A i \in 1..Len(windows[s]) :
    windows[s][i].ts >= windows[s][Len(windows[s])].ts - Horizon - Lateness

(* Eviction never takes a trade it should have kept: a trade that has left  *)
(* its window is beyond the last MaxTrades, or an arrival outdated it, by   *)
(* the horizon, together with everything before it.                         *)
NothingEvictedEarly ==
  \A s \in DOMAIN windows :
    \A i \in 1..(Len(arrived[s]) - Len(windows[s])) :
      \/ i <= Len(arrived[s]) - MaxTrades
      \/ arrived[s][i].ts < newest[s] - Horizon

(* A detector that looks back over a span of time loses nothing to eviction *)
(* by age: as long as the span and the lateness of the feed fit into the    *)
(* horizon, what it finds recent at the trade just added is what it would   *)
(* find in the last max_trades arrivals of the symbol, evicted or not.      *)
RecentIsComplete ==
  \A s \in DOMAIN windows : \A span \in 0..(Horizon - Lateness) :
    LET n == Len(arrived[s])
        m == Len(windows[s])
        at == arrived[s][n].ts
    IN  {n - m + i : i \in Recent(windows[s], at, span)}
          = {i \in 1..n : i > n - MaxTrades /\ arrived[s][i].ts >= at - span}

(* What the project's documents say of the window without qualification:    *)
(* every trade in it is within the horizon of the trade added last.         *)
WindowWithinHorizon ==
  \A s \in DOMAIN windows : \A i \in 1..Len(windows[s]) :
    windows[s][i].ts >= windows[s][Len(windows[s])].ts - Horizon
=============================================================================
