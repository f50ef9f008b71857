------------------------------- MODULE Service -------------------------------
(***************************************************************************)
(* The service's two ways in and everything a trade touches on the way:     *)
(* the background pipeline's trades (pipeline.py, _handle_trade with the    *)
(* hooks and the sink AppState gives it) and POST /trades (api/app.py,      *)
(* ingest_trade) behind the rate limiter and the guardrails.  Both run on   *)
(* one event loop and await nothing between the engine and the last alert   *)
(* published, so a trade is one action on either way; the two interleave.   *)
(***************************************************************************)
EXTENDS DetectionEngine, RateLimiter

CONSTANTS SourceTrades,   (* the trades the pipeline's source may yield      *)
          Plausible,      (* those that pass the checks of a trade by itself *)
          SymbolCap,      (* max_symbol_cardinality                          *)
          KeyRequired,    (* an API key is configured                        *)
          TsWindow        (* ts_window: the seconds the metrics look back    *)

ASSUME ServiceAssumption ==
  /\ SourceTrades \subseteq Trades /\ Plausible \subseteq Trades
  /\ SymbolCap \in Nat /\ KeyRequired \in BOOLEAN
  /\ TsWindow \in Nat \ {0}
  /\ IsFiniteSet(Clients)

VARIABLES known,           (* guardrails: _symbols                           *)
          totalTrades, totalAlerts,      (* metrics: the totals, trades per  *)
          symbolTrades,    (* symbol, partial like _symbols, and alerts      *)
          detectorAlerts, severityAlerts,    (* by_detector and by_severity  *)
          buckets,         (* _ts_trades and _ts_alerts, partial, by second  *)
          lastTrim,        (* _last_trim                                     *)
          tally,           (* history: buckets as they are never trimmed     *)
          publishedTrades, publishedAlerts,   (* what the broadcaster was    *)
                           (* given, by count                                *)
          audit            (* how many records of each kind                  *)

views == <<totalTrades, totalAlerts, symbolTrades, detectorAlerts, severityAlerts,
           buckets, lastTrim, tally, publishedTrades, publishedAlerts>>
serviceVars == <<engineVars, limiterVars, known, views, audit>>
-----------------------------------------------------------------------------
(* Mutant: the cap on symbols is not asked.                                 *)
PassesAnySymbol(t) == t \in Plausible

(* Guardrails.check(trade), and the symbols it remembers.                   *)
Passes(t) ==
  t \in Plausible /\ (t.symbol \in known \/ Cardinality(known) < SymbolCap)

(* Mutant: = 1 for += 1.                                                    *)
SymbolFirst(f, s) == [k \in DOMAIN f \cup {s} |-> IF k = s THEN 1 ELSE f[k]]

(* f with a trade more of a symbol, which may be a new one.                 *)
SymbolOnceMore(f, s) ==
  [k \in DOMAIN f \cup {s} |->
     (IF k \in DOMAIN f THEN f[k] ELSE 0) + (IF k = s THEN 1 ELSE 0)]

(* b with a trade and its alerts more in the bucket of a second.            *)
Bucket(b, sec) == IF sec \in DOMAIN b THEN b[sec] ELSE [trades |-> 0, alerts |-> 0]

Counted(b, sec, alerts) ==
  [k \in DOMAIN b \cup {sec} |->
     IF k # sec THEN b[k]
     ELSE [trades |-> Bucket(b, k).trades + 1, alerts |-> Bucket(b, k).alerts + alerts]]

(* Mutant: <= for <, the oldest second of the look-back goes too.           *)
TrimOneMore(b, sec) == [k \in {j \in DOMAIN b : j > sec - TsWindow} |-> b[k]]

(* _trim(sec): drop the buckets that have left the look-back.               *)
Trim(b, sec) == [k \in {j \in DOMAIN b : j >= sec - TsWindow} |-> b[k]]

(* MetricsCollector.record(trade, alerts, _), the alerts being those of the *)
(* detectors raised, a tick of the clock a second; it trims when the second *)
(* is not the one it trimmed in last.                                       *)
Record(t, raised, v) ==
  LET alerts == Cardinality(raised)
      counted == Counted(buckets, now, alerts)
  IN
  /\ tally' = Counted(tally, now, alerts)
  /\ buckets' = IF now = lastTrim THEN counted ELSE Trim(counted, now)
  /\ lastTrim' = now
  /\ totalTrades' = totalTrades + 1
  /\ totalAlerts' = totalAlerts + alerts
  /\ detectorAlerts' = CountUp(detectorAlerts, raised)
  /\ severityAlerts' = [s \in Severities |->
                          severityAlerts[s] + Cardinality({d \in raised : v[d] = s})]
  /\ symbolTrades' = SymbolOnceMore(symbolTrades, t.symbol)

(* What both ways do: publish the trade, run the engine on it, record it,   *)
(* publish the alerts raised.                                               *)
Handle(t, v) ==
  /\ OnTime(t) /\ tradesProcessed < MaxProcessed
  /\ publishedTrades' = publishedTrades + 1
  /\ Process(t, v)
  /\ Record(t, Raised(t, v), v)
  /\ publishedAlerts' = publishedAlerts + Cardinality(Raised(t, v))

(* The pipeline asks neither the rate limiter nor the guardrails.           *)
Stream(t, v) ==
  /\ t \in SourceTrades
  /\ Handle(t, v)
  /\ UNCHANGED <<limiterVars, known, audit>>

Post(c, t, v) ==
  /\ Allow(c)
  /\ Passes(t)
  /\ known' = known \cup {t.symbol}
  /\ Handle(t, v)
  /\ audit' = [audit EXCEPT !["ingested"] = @ + 1]

(* Mutant: the guardrails remember a symbol before they judge the trade.    *)
PostRejectedButKnown(c, t) ==
  /\ Allow(c)
  /\ ~Passes(t)
  /\ audit["rejected"] < MaxProcessed
  /\ known' = known \cup {t.symbol}
  /\ audit' = [audit EXCEPT !["rejected"] = @ + 1]
  /\ UNCHANGED <<engineVars, views>>

(* 422: the request has used up its place in the client's quota.            *)
PostRejected(c, t) ==
  /\ Allow(c)
  /\ ~Passes(t)
  /\ audit["rejected"] < MaxProcessed
  /\ audit' = [audit EXCEPT !["rejected"] = @ + 1]
  /\ UNCHANGED <<engineVars, known, views>>

(* Mutant: a request over the limit is not audited.                         *)
PostLimitedUnaudited(c) == Deny(c) /\ UNCHANGED <<engineVars, known, views, audit>>

(* 429                                                                      *)
PostLimited(c) ==
  /\ Deny(c)
  /\ audit' = [audit EXCEPT !["limited"] = @ + 1]
  /\ UNCHANGED <<engineVars, known, views>>

(* 401: the dependency that asks for the key runs before ingest_trade does. *)
PostUnauthorized ==
  /\ KeyRequired
  /\ audit["unauthorized"] < MaxDenied
  /\ audit' = [audit EXCEPT !["unauthorized"] = @ + 1]
  /\ UNCHANGED <<engineVars, limiterVars, known, views>>

ClockTicks == Tick /\ UNCHANGED <<engineVars, known, views, audit>>

ServiceInit ==
  /\ EngineInit /\ LimiterInit
  /\ known = {}
  /\ totalTrades = 0 /\ totalAlerts = 0 /\ symbolTrades = << >>
  /\ detectorAlerts = [d \in Detectors |-> 0]
  /\ severityAlerts = [s \in Severities |-> 0]
  /\ buckets = << >> /\ lastTrim = now /\ tally = << >>
  /\ publishedTrades = 0 /\ publishedAlerts = 0
  /\ audit = [k \in {"ingested", "rejected", "limited", "unauthorized"} |-> 0]

ServiceNext ==
  \/ ClockTicks
  \/ \E t \in Trades, v \in Verdicts : Stream(t, v)
  \/ \E c \in Clients, t \in Trades, v \in Verdicts : Post(c, t, v)
  \/ \E c \in Clients, t \in Trades : PostRejected(c, t)
  \/ \E c \in Clients : PostLimited(c)
  \/ PostUnauthorized

ServiceSpec == ServiceInit /\ [][ServiceNext]_serviceVars
-----------------------------------------------------------------------------
(* What GET /stats returns, the engine's own counts (but for the failures   *)
(* of detectors, which only the engine counts) ...                          *)
Stats ==
  [trades |-> tradesProcessed, alerts |-> alertsRaised, symbols |-> DOMAIN windows,
   by_detector |-> byDetector, by_severity |-> bySeverity]

(* ... and GET /api/metrics and /metrics, those of the metrics collector.   *)
Snapshot ==
  [trades |-> totalTrades, alerts |-> totalAlerts, symbols |-> DOMAIN symbolTrades,
   by_detector |-> detectorAlerts, by_severity |-> severityAlerts]
-----------------------------------------------------------------------------
(* /stats, /api/metrics and the live feeds tell one story: however the two  *)
(* ways in interleave, the engine, the metrics and the broadcaster have     *)
(* seen the same trades, the same alerts, of the same detectors and         *)
(* severities, and the same symbols.                                        *)
ViewsAgree ==
  /\ Snapshot = Stats
  /\ publishedTrades = tradesProcessed /\ publishedAlerts = alertsRaised
  /\ \A s \in DOMAIN symbolTrades : symbolTrades[s] = Len(arrived[s])

(* What timeseries() and rate() read, up to TsWindow seconds back, is what   *)
(* happened in each of those seconds: a trade trims only what no later      *)
(* reading looks for, however long the feed was silent.  And what is kept   *)
(* for it is bounded.                                                       *)
SeriesIsExact ==
  /\ \A sec \in (now - TsWindow)..now : Bucket(buckets, sec) = Bucket(tally, sec)
  /\ Cardinality(DOMAIN buckets) <= TsWindow + 1

(* The audit trail accounts for every request: each one let through was     *)
(* ingested or rejected, each one denied was recorded as such.              *)
AuditComplete ==
  /\ audit["ingested"] + audit["rejected"] = SumFunction(Lengths(accepted))
  /\ audit["limited"] = SumFunction(denied)

(* A refused request leaves no trace but its audit record and, if the       *)
(* guardrails refused it, its place in the quota; above all it uses up none *)
(* of the symbols the guardrails admit, nor, without the key, any quota.    *)
RefusalsLeaveNoTrace ==
  [][audit["ingested"]' = audit["ingested"] /\ audit' # audit =>
       /\ UNCHANGED <<engineVars, known, views>>
       /\ audit["unauthorized"]' # audit["unauthorized"] => UNCHANGED limiterVars
    ]_serviceVars

(* The symbols the service keeps state for are those the guardrails         *)
(* admitted, never more than the cap, and those of its own source.          *)
SymbolsBounded ==
  /\ Cardinality(known) <= SymbolCap
  /\ DOMAIN windows \subseteq known \cup {t.symbol : t \in SourceTrades}

(* max_symbol_cardinality: "cap distinct symbols tracked".                  *)
TrackedWithinCap == Cardinality(DOMAIN windows) <= SymbolCap
=============================================================================
