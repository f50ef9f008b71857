# TradeWatch: verification project

TradeWatch watches a stream of trades and raises alerts on the suspicious ones. One asyncio
process takes trades from a source (a simulator or a Kafka topic) and from `POST /trades`,
keeps a sliding window per symbol, runs a set of detectors on every trade, holds repeated
alerts back by a cooldown, and fans trades and alerts out to sinks and WebSocket clients. A
batch layer (ETL, MapReduce, Airflow, Spark, Snowflake) works on files beside it.

These TLA+ modules model the service (window store, engine, detectors, pipeline, live feed,
Kafka source, request path and metrics), the simulator and the evaluation that measures the
detectors, and the batch layer (batch runner, MapReduce job, Spark query, training features,
daily ETL). TLC checks them on small instances; TLAPS proves the properties of the windows,
engine, isolation forest, features, Spark query, evaluation, rate limiter, request path,
pipeline, live feed, Kafka source, batch runner and ETL for every value of the constants.
`PROJECT.json` names the source lines of every definition. Paths below are relative to `src/`,
and `tradewatch/` stands for `src/tradewatch/`.

    tlc -workers 2 -config Engine.cfg MCDetectionEngine     # a run
    tlapm ServiceProofs.tla                                 # a proof

## 1. The system

| Component | State | Operations | Interacts with |
|---|---|---|---|
| **Symbol windows** `tradewatch/windows.py` | a deque of trades per symbol | `get`, `add`, `_evict`, statistics | filled by the engine, read by detectors |
| **Detection engine** `tradewatch/engine.py` | windows, `_last_alert_ts`, counters | `process`, `_suppressed` | called by the pipeline and `POST /trades`; calls detectors |
| **Statistical and rule detectors** `tradewatch/detectors/` | none | `inspect` | read the window |
| **Isolation-forest detector** `detectors/ml_isolation.py` | per symbol: buffer, count since fit, model | `inspect`, refit | scikit-learn |
| **Pipeline** `tradewatch/pipeline.py` | `_running`, the sinks | `run`, `_handle_trade`, `_dispatch`, `close` | source, engine, hooks, sinks; cancelled by `AppState.stop` |
| **Broadcaster and pumps** `sinks/websocket.py`, `api/app.py` `_pump` | ring of recent alerts, subscriber queues; per connection its place in `_pump` | publish, subscribe, replay, send | pipeline and `POST /trades` publish; WebSocket clients |
| **Console and file sinks** `sinks/` | a file handle | `emit`, `close` | pipeline |
| **Kafka source** `sources/kafka_source.py` | the consumer | `stream`, `_ensure_consumer`, `close` | consumer library and its group offset |
| **Market simulator** `sources/simulator.py` | prices, event-time cursor, RNG | `stream`, `batch`, anomalies | pipeline, CLI, evaluation |
| **Request path** `api/app.py`, `guardrails.py`, `api/security.py` | `_symbols`, `_hits`, audit records | `POST /trades`, `allow`, `check` | engine, metrics, broadcaster |
| **Metrics** `metrics.py` | totals, counts by symbol, detector and severity, per-second buckets, latencies | `record`, `snapshot`, `timeseries` | pipeline hook, request path |
| **Evaluation** `evaluate.py` | none | `evaluate`, `_score` | simulator, engine |
| **Batch runner** `scripts/batch_runner.py` | `trades.jsonl`, `trades.parquet`, `anomalies.parquet`, the heartbeat `batch_status.json` | a cycle of jobs | generator, Spark, MapReduce scripts as child processes |
| **Platform health** `platform_health.py` | none | TCP probes, `_batch_status` | reads the heartbeat |
| **MapReduce** `hadoop/` | the rows of the symbol being reduced | mapper, reducer | piped by the batch runner, run by the DAG |
| **Spark jobs** `spark/`, `databricks/` | tables of an external engine | `add_statistical_features`, `flag_anomalies` | files, Kafka |
| **ETL, warehouse** `airflow/`, `warehouse/` | the day's partitions, the `ANOMALIES` table | five tasks with retries | Spark, Hadoop, Hive, Snowflake |
| **ML training** `ml/` | the builder's windows | features, fitting | simulator |
| **Dashboard** `api/dashboard.html` | counters, alert list, reconnect timer | WebSocket client | both feeds |
| **CLI, configuration, benchmark, deployment** | none | wiring | all |

Everything inside the service runs on one event loop. What runs between two `await`s is
atomic, and everything else interleaves: two ways in for trades, one pump per connection,
clients that leave, a shutdown that cancels the pipeline at whatever `await` it is at, and a
process that may die at any point while Kafka remembers only a committed offset.

What is hard, and what correctness means for each part:

- *Windows.* Event time is not monotonic, and eviction looks only at the head. A window must
  be a gapless suffix of its symbol's arrivals, bounded in length and in age, and must not
  lose what it could keep.
- *Engine.* The cooldown keeps one time per (symbol, detector), overwritten by late trades.
  The alerts of a key must be spaced, none swallowed without cause, and the counters agree
  even when detectors raise.
- *Pipeline.* Sinks raise or hang, in `emit()` and in `close()`, and shutdown cuts in anywhere.
  Every alert must be accounted for at every sink, nothing may reach a sink being closed, and
  shutdown must end where nothing it awaits hangs.
- *Feed.* Alerts are published while others are being replayed. A client must see each once
  and in order, a slow one must not slow the others, a leaving one must be forgotten.
- *Kafka.* A crash between processing and commit. No trade may be dropped; replays may come
  only from restarts; bad records must not stop the flow.
- *Request path.* The quota must hold for every minute, the symbol cap must hold, a refusal
  must leave no trace, and engine, metrics and feed must agree whatever the interleaving.
- *Metrics.* Buckets are trimmed when trades come and read when somebody asks. What is read
  must be what happened, and the three views of the service (`/stats`, `/api/metrics`, the
  feeds) must tell one story.
- *Detectors, simulator, evaluation.* An injected anomaly must be caught in spite of
  warm-ups, boundaries, windows that age and the cooldown, and the score must be about the
  episodes that were injected.
- *Isolation forest.* The model must be one of the same symbol, and not an old one.
- *Features, Spark query.* They restate the live rules elsewhere; they must agree with them
  where they can.
- *Batch runner, health board.* Files are rewritten in place, steps fail or hang, the process
  dies in the middle of one, and what some children return is not looked at. A heartbeat must
  not pass an old Spark result off as new, the loop must go on, and "up" must mean something.
- *ETL.* Tasks are retried and cleared. Nothing partial may be loaded, and nothing twice.

`PROJECT.json` lists each hazard at its line, with the properties that would catch it, or a
note on why none does yet.

## 2. The modules

| Module | Models | Composition |
|---|---|---|
| `SymbolWindow` | one window, as operators on a sequence: `Add`, `Evict`, `TrimByCount`, `TrimByAge`, `Recent` | |
| `WindowStore` | `WindowStore.get/add` under a feed with bounded lateness | extends `SymbolWindow` |
| `DetectionEngine` | `process()` as the action `Process(t, v)`: store, inspect, cooldown, counters | extends `WindowStore` |
| `Statistics` | sums, and "this many standard deviations from the mean" | |
| `Inspection` | the six statistical and rule detectors and the ruleset | extends `DetectionEngine`, `Statistics` |
| `IsolationForest` | buffers, refits and models of the isolation-forest detector | extends `WindowStore` |
| `MarketSimulator` | batches, price walk and event-time cursor of the simulator | |
| `Features` | `ml/features.py`, as a function of a tape | extends `Inspection` |
| `DetectionSql` | the Spark query, as a function of a tape | extends `Inspection` |
| `Evaluation` | `_score` as a fold over records, and its report | |
| `Backtest` | `evaluate()`: simulator, engine, detectors and scoring together | extends `Features`, `DetectionSql`, `IsolationForest`, `MarketSimulator`, `Evaluation` |
| `RateLimiter` | `allow()` as `Allow` and `Deny`, and the clock | |
| `Service` | both ways in: `Stream` (the pipeline's `_handle_trade` with its hooks and its broadcaster sink), `Post`, `PostRejected` (422), `PostLimited` (429), `PostUnauthorized` (401); the metrics collector | extends `DetectionEngine` and `RateLimiter` |
| `AlertDelivery` | abstract: a receiver gets issued alerts, in order, each at most once | implemented by the next two |
| `AlertFeed` | `Broadcaster` and `_pump`, per connection | `ImplementsDelivery` |
| `Pipeline` | `run()`, `_dispatch`, `close()`, `AppState.stop()`, and the command line's `simulate` | `ImplementsDelivery` |
| `KafkaIngest` | `KafkaTradeSource` under the pipeline's task, with topic and commit external | |
| `MapReduce` | mapper, shuffle and reducer, as folds over lines | extends `Statistics` |
| `BatchRunner` | a cycle of `batch_runner.py` step by step, and `_batch_status` | extends `MapReduce` |
| `DailyEtl` | the DAG of one day with retries and clears, its partitions and the appending load | |
| `MC*` | the constants of the runs | |
| `*Proofs` | theorems and proofs | extend the module they are named after; those of `WindowStore` are in `DetectionEngineProofs`, those of `RateLimiter` in `ServiceProofs`, those of all that `Backtest` extends (simulator, forest, features, Spark query, scoring) in `BacktestProofs` |

How state corresponds to the code:

- **Windows, engine.** `windows` is `_windows`, a function on the symbols seen so far.
  `lastAlertTs` is `_last_alert_ts`, partial in the same way. `byDetector`,
  `errorsByDetector` and `bySeverity` are the counters of `EngineStats`. `arrived`,
  `newest`, `emitted` and `suppressed` are history variables that no action reads, except
  that `newest` states the environment's assumption `OnTime`. In the runs `engine` and
  `service` what a detector says of a trade is a choice: no alert, an alert of some
  severity, or an exception.
- **Detectors.** They have no state. `RuleVerdict(t)` is what they say of `t` on the window
  it has just been added to; `Rules` is a file's ruleset over the built-in one, as
  `DetectionConfig.load` merges them.
- **Isolation forest.** `buffers`, `sinceFit` and `models` are `_buffers`, `_since_fit` and
  `_models`. A feature row is its number, a model the rows it was fitted on. What a model
  says of a trade is a choice.
- **Backtest.** `price`, `elapsed` and `batch` are the simulator's per-symbol prices, its
  event-time cursor and the rest of the batch being yielded; `records` is the list `_score`
  reads. `episodes` is history: what was injected, and whether it was flagged. One step is
  one trade, through simulator, forest, detectors and engine.
- **Pipeline.** `owner` says who runs it: the service, whose `stop()` cancels the task and
  closes the sinks, or `simulate`, which awaits `run()` and is interrupted by Ctrl-C. `task`
  is the `await` that `run()` is at; `alert` and `sink` are where its two nested loops are (the
  alerts of the trade in hand and, in `_dispatch`, the sinks), so that `Pending(s)` is what is
  still to come for the sink `s`; `stopping` is how far its owner has come with stopping it,
  `open` what is not closed yet. `cut` is history: what a cancellation kept from each sink. The
  cancellation is delivered in a step of its own (`CancelBeforeStart`, `CancelRun`,
  `CancelClose`), at the await the task is at. A `close()`, the source's or a sink's, returns
  (`SourceCloses`, `CloseSink`) or, where `FlakyClose` and `HangingClose` let it, raises or never
  returns: a source's exception ends `run()`, a sink's ends `pipeline.close()` and its owner with
  it (`stopping = "failed"`), and `"stuck"` is an await that nothing but a cancellation ends.
  `InterruptClose` is a Ctrl-C that comes only while `simulate` closes its sinks. `refused` is
  history: whose `close()` came out with an exception.
- **Feed.** `pc[c]` is where `_pump` of connection `c` is: between `accept()` and the first
  await (`Open`), in the replay loop, in `queue.get()`, in `send_json()`. A payload is its
  number in the order of publication. `since[c]` is history: the first payload meant for
  `c`.
- **Kafka.** An offset is an index into `topic`; `position` is the consumer's, `committed`
  the group's, and `joined` where the group first began to read. The library's auto-commit
  may happen at any moment while the consumer runs, and `close()` commits once more.
- **Service.** `known` is the guardrails' `_symbols`, `hits` the limiter's `_hits`; the
  metrics are their totals, their counts by symbol, detector and severity, and their
  `buckets` by second with `_last_trim`; `tally` is history, the buckets as they are never
  trimmed. `Stats` and `Snapshot` are what `/stats` and `/api/metrics` answer. The
  broadcaster and the audit log are counts.
- **Batch runner.** `stage` is the line of `run_cycle` the process is at, or `"sleep"` or
  `"down"`; `jsonl`, `parquet`, `anomalies` and `beat` are the four files, each of which may
  be missing, torn, or of an earlier seed; `sparkOk` and `found` are `spark_ok` and `mr`.
  `ChildDies` is a mapper or a reducer that does not get to its end, so that what it has written
  is counted; `died` is history: that it happened in this cycle.
  `age` and `stamp` count the ticks since the time written, or about to be written, in the
  heartbeat.
- **ETL.** `state` and `tries` are what Airflow keeps per task; `partition` and `crosscheck`
  the outputs of the Spark and the MapReduce task; `copies` how many times the table holds
  the day's rows.

An operator whose comment begins with "Mutant:" is a plausible wrong version of the
definition after it. No specification uses it; it is there to show that the property it is
listed with in `PROJECT.json` can fail.

**Abstractions.** In `engine`, `service` and the forest's proofs trades carry a symbol and an
event time only; in `backtest` they also carry a price, a quantity, a side and accounts, as
whole numbers and model values. Ratios are compared by multiplying out, standard deviations
by their squares (thresholds in tenths), fractions in thousandths, so no rounding is modelled
and none of the floating point's is shown. Scores, wording, formatting and logging are left
out, and so is the logarithm of the notional, which no property is about. The
order of alerts raised by one trade is kept in `Pipeline` (they are numbered) and not in the
engine, where it makes no difference. The engine's exceptions inside a detector are counted;
those of `on_processed` are logged by the code and change nothing. `on_trade` is the service's,
which does not await (an asynchronous one, which no code in `src/` installs, would put an await
before the engine), and `IsolationForest.fit()` does not raise. In the ETL, to clear a task
clears what comes after it too, as Airflow does unless told otherwise. The HTTP middlewares and
the disabled forms of limiter and guardrails are left out; so are, of the metrics, latencies,
the tape and last prices. The simulator's random generator is a choice over small sets: its
prices move by a fixed step instead of a random walk, and its seeds are not modelled.

## 3. The runs

Passing runs:

| Run | Instance | What it shows |
|---|---|---|
| `engine` (`Engine.cfg`) | 2 symbols, 2 detectors, windows of 3 trades, horizon 2, lateness 1, cooldown 2, every tape of 4 trades with event times 0..4 | a window is a suffix of the arrivals, bounded in count and age; nothing is evicted early, and a look-back over a span finds all there is; the alerts of a key are spaced; every alert held back has a reason; the counters add up |
| `service` (`Service.cfg`) | 2 clients, quota of 2 per tick, 3 clock ticks, a key required, one source symbol, one symbol the guardrails refuse, cap of 1, 3 trades, metrics that look back 1 tick | engine, metrics and feed tell one story under both ways in; the time series is exact over its look-back; the quota and the cap hold; refusals leave no trace; each request is audited |
| `feed` (`AlertFeed.cfg`) | 2 alert connections, one of which may stall, 1 trade connection, queues of 1, replay of 2, 3 alerts, 1 trade | exactly once and in order, with drops only where a queue was full; replay reaches as far back as it should; a slow client holds nobody up; leavers are unsubscribed; implements `AlertDelivery` |
| `pipeline` (`Pipeline.cfg`) | either owner, 2 sinks that may raise in `emit()` and in `close()`, one of which may hang in either, a source whose `close()` may raise or hang, 2 trades with up to 2 alerts, a stop at any point | each alert in exactly one place per sink; a cancellation cuts off only a tail; nothing happens once sinks are being closed, no sink is passed over, and what stays open has a `close()` to blame; shutdown ends unless a `close()` hangs; implements `AlertDelivery` |
| `kafka` (`Kafka.cfg`) | 4 messages of any kind, 2 process ends, outages, `earliest` | nothing dropped, no replay within a process, and only a source that failed stops the flow |
| `backtest` (`Backtest.cfg`) | 2 symbols, all seven detectors, every labelled tape of 4 simulated trades (bursts of 2 and 3, layers of 3, spikes up and down, blocks, wash trades), windows of 3 trades and 8 ticks, cooldown 4, a second of 3 ticks, Spark jobs with the ruleset's numbers and with looser and stricter ones, forest of 2 rows refitted after 1 | an injected spike, burst or wash trade is caught by its detector unless it had nothing to be compared with or the cooldown of an earlier alert was running; the report scores the injected episodes; the forest's model is fresh; the offline features bear out the live verdicts; the Spark query agrees as far as its own thresholds and those of the ruleset let it |
| `batch` (`BatchRunner.cfg`) | 2 seeds with slices of 5 and 4 lines (alternating symbols, an outlier of each kind, a malformed line), every failure, hang and crash, children that die unnoticed, a heartbeat stale after 2 ticks | `spark` in a heartbeat is about the slice it names; the MapReduce count is that of one slice or of the beginning of one, symbol by symbol, unless a child of this cycle died; cycles keep coming; a torn heartbeat is repaired; a board that stays up has a runner behind it |

Runs in which the code breaks what the repository says of it (findings in `PROJECT.json`):

| Run | Property | What happens |
|---|---|---|
| `feed_leak` | `SubscribersAreServed` | A client that leaves during its replay makes `send_json` raise outside the `try` of `_pump` (`api/app.py:283-284`); its queue stays subscribed for the life of the process. |
| `service_two_clocks` | `SuppressesOnlyWithinCooldown` | `_suppressed` has no lower bound (`engine.py:103`). A posted trade without a timestamp gets the wall clock (`models.py:64`); if it raises an alert, the same detector is silent for that symbol's simulated trades, stamped from 2025-01-01 (`simulator.py:34`), for ever after. |
| `pipeline_hung_sink` | `IngestionContinues` | A sink whose `emit()` never returns stops ingestion (`pipeline.py:78`); `docs/ARCHITECTURE.md:258` says the pipeline continues. |
| `kafka_undecodable` | `TradesKeepFlowing` | A message that is not JSON raises in the deserializer, inside the iterator and outside the `try` (`kafka_source.py:49`, `:56`), and ends the ingestion until a restart. |
| `etl_double_load` | `NoDoubleCounting` | An attempt to load that fails once its rows are in (or a cleared run) is made again, and the load appends (`load_snowflake.py:57`): the day is in the table twice. `docs/ARCHITECTURE.md:262-264` says a failed nightly run "re-runs without double-counting". |

**Why the bounds are enough.** *Engine:* windows of 3 and 4 trades let a window fill, overflow
and be trimmed by age with a late trade in it: a stale trade stays behind a fresh head, staler
than the horizon by all of the lateness, and another one is evicted by a newer arrival before a
late one comes whose look-back reaches it (`WindowWithinHorizon`, and `RecentIsComplete` for
spans up to the horizon itself, fail in this run). The times 0..4 reach beyond horizon
plus lateness and to twice the cooldown, so that a key emits, suppresses, emits again and meets a late
trade in between. Two symbols and two detectors show keys kept apart. *Service:* the cap of 1
with two admissible symbols lets it be reached and bypassed by the source; quota 2 with a clock
past its window lets hits expire, and a look-back of 1 in 3 ticks lets buckets leave it. *Feed:*
with queues of 1 and 3 alerts a queue fills, drops and drains while another connection replays;
the history and the replay are shorter than what is published. *Pipeline:* two trades of two
alerts give every place a cancellation may hit: before the start, between two sinks, between two
alerts, between trades, during `close()`; of two sinks the first may fail to close and leave the
second open, and the last may fail alone. *Kafka:* four messages and two ends allow a commit
behind, at and after a bad record, and a replay of a replay. *Backtest:* four trades hold
several episodes in a row (a burst of 2 and a wash trade, say), a whole burst with trades before
it, a burst that evicts by count, and one cut off by the end of the tape; the file of rules
scales the thresholds to that (a burst of 2 reaches the velocity limit, one of 3 is critical, 3
layers reach the spoofing limit), and prices that rise by 1 and spikes of 10% either way are
enough to give every detector both answers. The horizon and the cooldown are shorter than a
tape, so windows age and alerts are held back. A symbol's third row, the most that four trades
of it give, refits its forest on the two latest; longer waits for a refit, and every other size,
are left to `BacktestModelIsFresh`. A fifth trade would multiply the 113,000 states by more than
ten; what the five properties say of longer tapes is proved. The Spark jobs stand on either side
of the ruleset, so that each half of `SqlAgrees` is met with a threshold that is equal and with
one that is not. *Batch:* two seeds tell an old file from a new one; more cycles add nothing,
since a cycle leaves only its four files behind. The slices are long enough for a child's death
to make the count smaller, and greater: of half a symbol's trades more may stand out than of
all. *ETL:* one clear on top of two retries is more than the counterexample needs. Symmetry is
used over symbols, detectors, clients and accounts, only in runs without liveness properties,
whose definitions treat those values alike.

Deadlock tells nothing here: each model stops at its bounds (the tape, the topic, the messages
published) or with its day's tasks done, the pipeline stops because its owner does, and in
`batch` the clock always ticks. Whether something stops that should not is asked by the
liveness properties.

**Fairness.** *Feed:* the publishers go on publishing and the pump of a connection that
reads runs when it can (`WF`), for the event loop runs what is ready; nothing is assumed of
a stalled connection, of `Open` or of `Leave`. *Pipeline:* `WF` on the task's start, the
source's next trade, the delivery of a cancellation, the closing steps, and each sink's emit
and each `close()` coming to an end or, where it may, to hanging; nobody has to call `stop()`
or to interrupt a closing, and no source has to end.
*Kafka:* `WF` on consuming, on closing and on starting a process that ended (a container's
restart policy); no fairness on `Produce`, `AutoCommit`, `Crash` or on the end of a process
whose source failed. *Batch:* `WF` on the cycle of a live process (sleep ends, scripts other
than Spark end by themselves, the timeout of `_spark_backtest` fires) and on the clock, and
`SF` on the two halves of writing the heartbeat: they may fail, but not every time, since a
disk that is always full leaves no heartbeat whatever the code does. Nobody has to start the
runner again, and a killed runner is assumed to take its child processes along. All but that
are weak: no step is needed more often than being ready for it implies.

**Environment.** `OnTime` says that a trade arrives at most `Lateness` behind the newest of
its symbol. The code checks nothing of the kind. Lateness is a parameter of every theorem,
and the bounds proved say how the guarantees degrade with it; `service_two_clocks` is what
happens when it exceeds the cooldown. In `backtest` it is 0, for the simulator's event
time never runs backwards.

## 4. What is proved

Each proof is for every value of the constants allowed by the `ASSUME`s: positive window size,
quota and replay limit, natural numbers for the rest, the sinks a sequence without repetition,
and finitely many detectors, severities, symbols and clients. The last are needed where counts
are added up; names of symbols are of bounded length (`tradewatch/models.py:65`), and a service
has met finitely many clients. For the evaluation there are in addition:

- `SimulatorAssumption`: prices, sizes and the lengths of bursts are positive and no gap is
  negative (`sources/simulator.py:28-33`, `:81-82`, `:137-163`). What a price may move by is
  any set of integers.
- `BacktestAssumption`: the simulated symbols are among the symbols there are.
- `RulesAssumption`: counts, seconds and thresholds of the ruleset are not negative. Pydantic
  does not check it; every ruleset of the repository is so.
- `FeaturesAssumption`: the multipliers of `volume_spike` are at least 2 (they are 6 and 15 in
  `config/detection_rules.yaml`) and the relative price move is positive. Below 2 the median
  that leaves out the largest volume and the one that leaves out the last may give different
  verdicts (see 5), so the theorem would be false.
- `SqlAssumption`: a second is some ticks, and a job's numbers are natural, its price threshold
  and its volume ratio positive: at 0 a row without a deviation or a mean, whose quotients the
  query takes to be 0, would be flagged. They need not be those of the ruleset.

- **Windows** (`DetectionEngineProofs`). The invariant `WindowInv` of one symbol says that the
  window is a suffix of its arrivals, that everything before the suffix is excused by count or
  age, and that all of it lies within `Lateness` of the running maximum. The last part makes
  it inductive: age is measured against the latest *arrival*, and only the bound on lateness
  relates that to what was evicted against an earlier one. `AddDropsHead` says what `add`
  does; `AddKeepsWindowInv` carries the invariant over it. `StoreRecentIsComplete`: what
  eviction by age took is, by the invariant, behind the running maximum by more than the
  horizon, hence behind the last arrival by more than horizon minus lateness, and no shorter
  span reaches it. `MonotonicFeedWithinHorizon`: with lateness 0 the age bound is the horizon,
  as the documents say.
- **Engine** (`DetectionEngineProofs`). `KeyInv` ties a key's remembered time to its
  history: it is the time of the *last* alert let through, which is also the *greatest*, for
  a trade passes only if it is at least a cooldown ahead. That is why spacing holds however
  late the trades come, and it is not visible in `CooldownSpacing` itself.
  `CooldownAsDocumented`: with lateness below the cooldown an alert is held back only within
  the cooldown.
- **Sums** (`DetectionEngineProofs`, used in `ServiceProofs`). `Accounting` and
  `AuditComplete` add counts up with `SumFunction`, a recursion over sets that no induction
  theorem can be applied to here. `Measures(g, f)` says that `g` gives each subset of `f`'s
  domain its sum: 0 for none, and for every element the element's value more than without it.
  `SumIsMeasure` shows that such a `g` is what `SumFunction` computes: were they to differ,
  there would be a least size at which they do, and one element less is no counterexample.
  `Sums(f, n)` says that some measure of `f` comes to `n`; the lemmas `SumOfZeros`,
  `SumOfSums`, `SumOfParts`, `SumOfOneMore` and those that follow from them say how it changes
  by what an action does. The inductive invariants `AccountInv` and `AuditInv` are
  stated with `Sums`: one alert raised is one more in the count of its detector, in that of its
  severity and in the history of its key; one request let through is one more of one client and
  one more audit record.
- **Rate limiter** (`ServiceProofs`). `ClientInv`: the deque is a suffix of the requests
  let through, these are in time order, and those outside the deque are more than a minute
  old. From it follow the bound of any `PerMinute + 1` requests in a row, and that a denial
  has `PerMinute` accepted requests of the last minute behind it.
- **Service** (`ServiceProofs`). Every step is a step or a stutter of `EngineSpec` and of
  `LimiterSpec`, so that the theorems above carry over. `ViewsInv` and `SymbolsInv` are the
  properties with the type facts they need. `CapHoldsForPostsAlone`: without a source of its
  own the service tracks at most `SymbolCap` symbols.
  `ServiceSeriesIsExact` rests on `SeriesInv`: the buckets kept are exactly those of the tally
  that were in reach at the last trade, and since the clock only moves on, later readings
  reach no further back.
  `ServiceRefusalsLeaveNoTrace` is the action property, action by action.
- **Pipeline** (`PipelineProofs`). Any sink may raise or hang in `emit()` and in `close()`, and
  the source in `close()`. `PipelineInv` joins `LoopsInv` (the loops are within their
  bounds, and stand at their start unless an emit is under way), `SinkInv` (delivered in order;
  what was delivered, failed and cut does not overlap and is all that was raised but for what is
  pending), `EndInv` (a run that left its `try` has a verdict and is not running, sinks are
  closed only behind a task that is over, and that leaves the source open only if its `close()`
  came out with an exception or a cancellation came before `run()` began), `ClosedInOrder` and
  `CutIsATail` themselves. `EachAlertOncePerSink` says where an alert
  is, but not where the loops are, and without `LoopsInv` the next emit could repeat one.
  `PipelineImplementsDelivery`: each `EmitReturns` delivers an alert above all the sink got
  before, and every other step is a new trade's alerts or a stutter.
- **Feed** (`AlertFeedProofs`). `FeedInv` has three parts. `RingInv`: the ring holds the latest
  alerts, a gapless run up to the last published. `PumpInv`: where a pump is determines which
  of its backlog, queue and hand may hold something, and whether it is subscribed. `StreamInv`:
  for a pump that serves, what was sent, then the backlog, the hand and the queue are an
  ascending sequence that together with what was dropped is exactly all from its first payload
  on. The replay and the queue are filled in one step of the event loop (`Open`), which is why
  they join without gap or repeat; the proof uses `RingInv` there and nowhere else.
  `FeedImplementsDelivery`: what a client is sent next is above all it got, being ahead in the
  same ascending sequence.
- **Isolation forest** (`BacktestProofs`). `Trained` adds to `ModelIsFresh` what is in
  the buffer (the latest rows, which the next model will be fitted on) and that `sinceFit` is
  the model's age in rows; without either, freshness is not inductive. It is proved for any
  feed, and for the evaluation's (`BacktestModelIsFresh`).
- **Simulator and tapes** (`BacktestProofs`). `SimTypeOK` and the lemmas `PlansType`,
  `DrawnType` and `YieldsType` say what a simulated trade is, and that event time never runs
  backwards, which is what the next two rest on. `TapesInv`: each symbol's tape is in time
  order and ends with its window, which is what `add` makes of the tape from its beginning, and
  its last trade is not ahead of the simulator's clock. Being a fold, `FoldLeft(Add, ...)` is
  unfolded once: `AddStep` names the step as a function, and two folds with one step agree at
  every length because there is no least length at which they differ (`FoldsAgree`).
- **Spark query** (`BacktestProofs`). `BacktestSqlAgrees`, from `TapesInv`: what eviction took
  from the window lies too far back to count, so the live velocity counts rows of the tape
  that the query's range of seconds contains as well if the job's seconds are enough for the
  ruleset's window (`VelocityAgrees`); and where a window is the whole tape, the query's
  look-back is that window, so that the two compare one deviation with two thresholds, of which
  the lower is met whenever the higher is (`FarFromGrows`). The job's numbers are its own: the
  theorem says for any pair of job and ruleset which half of the agreement is left.
- **Features** (`BacktestProofs`). Four verdicts, four comparisons on one window. The z-score
  needs that the sample's variance is not less than the population's (`Total` is
  split off its last summand). The volume spike needs the medians: a sorted sequence is known
  by the ranks of its values, for the number of values up to `x` is the same before and after
  sorting, and so the median of all but the largest and that of all but the last
  volume differ by at most one rank; where they do, twice the greater exceeds the volume.
- **Evaluation** (`BacktestProofs`). `ScoringInv` says what the running values of `_score`
  mean at every record: `Reading` (`run` is the label of the last record, and `any_flag` is
  whether the event that the last episode belongs to has been hit, or the last normal trade was
  flagged), and the counts, as cardinalities of the episodes that open an event (`HeadsOf`), of
  those that were hit (`HitsOf`) and of the runs of false alarms (`RunsOf`). A trade either
  prolongs the last event, in which no head but the last may be newly hit (`Prolongs`), or opens
  one (`Opens`); `TallySteps` turns either into one step of every count and of every label's
  tally. A batch that is not used up has the label of the last record, which ties the
  simulator's episodes to the records.
- **What is injected is caught** (`BacktestProofs`). `InjectedAreCaught` is false for some
  numbers (a spike of 2%, a burst of ten trades), so `BacktestInjectedAreCaught` names those for
  which it holds: `Catchable(low)`. Time moves on with every trade, an account is never `None`,
  a spike at a price of `low` or more is a price move for the rules, a burst is at least
  `velocity_max` trades long, and that many trades of it lie within the velocity window, the
  horizon and `max_trades`. The simulator's numbers and the shipped rules fit: gaps of at least
  0.01 s, spikes of 5% to 15% against 3%, bursts of 30 to 70 trades 0.02 s apart against 25 in
  5 s, windows of 200 trades and 300 s (`sources/simulator.py:31-33`, `:82`, `:138`, `:147`,
  `config/detection_rules.yaml`). `low` and the hypothesis that prices stay at or above it are
  about rounding: to whole units of price, 5% of a price below 50 units need not be 3% of it,
  and 50 units of the fourth decimal that the simulator rounds to are half a cent. With the
  numbers of the run `low` is 13. `CaughtInv` joins `ScoringInv` with `Kept` (a window ends at
  the symbol's price), `Underway` (what is left of a batch is as it was planned; of a burst with
  `m` trades so far the last `m` of the window, or as many as velocity wants, are the burst's:
  `Trail`), `Remembered` (what the cooldown remembers of a key was emitted, and not in the
  future) and `Pending` (of an episode that is not caught yet nothing since its first trade is
  remembered). `KeeperSpeaks` is the heart: at its last trade an episode's detector does fire,
  and if the cooldown then holds the alert back, `Remembered` and `Pending` name the alert that
  did, from before the episode.
- **Batch runner** (`BatchRunnerProofs`). `SparkInv`: Spark runs only on the slice of its own
  cycle, because a failed generation skips it, and `spark_ok` is set by nothing but a job that
  succeeded in this cycle. `FileInv`: what is in `trades.jsonl` is one slice or the beginning of
  one, of whichever cycle. `CountInv`: while the heartbeat is due the count is what the job makes
  of the file there is, which nothing replaces until then, or a child has died in this cycle.
  `RunnerCountIsOfTheSlice` takes from the job that it counts each such file right,
  `Anomalies(lines) = Expected(lines)`; that it does is left to the run. Nothing is claimed of
  the count of a child that died, nor that the slice counted is the one the heartbeat names.
- **ETL** (`DailyEtlProofs`). `EtlInv`: no task has been touched before all that comes before
  it succeeded, also after a clear; a successful Spark task has a whole partition; each copy in
  the table has an attempt of its own. `EtlLoadReadsWhole` and `EtlExtraCopiesHaveACause`
  follow, the second being what is left of `NoDoubleCounting`.
- **Kafka** (`KafkaIngestProofs`). `KafkaInv` adds to `NothingDropped` that the *committed*
  offset is covered too (a restart resumes there, so nothing else makes the step `Start`
  safe) and that a running consumer has a position and a group that has joined. The theorem
  assumes `OffsetReset = "earliest"`, and is false without it. `ProcessInv` is about one process
  and holds for `latest` too: what it consumed is in the topic's order and leaves out nothing
  between where it started and its position, and what lies between the committed offset, once
  there is one, and the position has been given to an engine. `KafkaReplayOnlyAcrossRestarts` and
  `KafkaCommitSkipsNothing` follow; the second says that what `latest` loses is lost before the
  group's first commit.

The theorems are listed in `PROJECT.json`. Only model-checked:

- What mapper, shuffle and reducer compute, `Anomalies(lines)`, against `Expected`: the shuffle
  is `SortSeq`, which takes its order as an operator, and that a sorted permutation exists for
  every slice needs induction over data. The run checks it on two slices and all their
  beginnings, as part of `CountIsOfTheSlice`.
- Liveness (`AlertsReachEverySink`, `StopCompletes`, `QueuedIsDelivered`,
  `LeaversAreForgotten`, and the properties of Kafka and the batch runner), which together with
  ENABLED is out of this prover's reach.

## 5. Other divergences met

They have no run of their own, because no document contradicts the code plainly, because the
divergence is one of numbers or wording, or because the part is not modelled:

*Service.*

- `auto_offset_reset` defaults to `latest` (`tradewatch/config.py:128`): a process that dies
  before its group's first commit drops what was produced up to the next start. Setting
  `OffsetReset = "latest"` in `Kafka.cfg` violates `NothingDropped`. The compose files set
  `earliest`.
- `max_symbol_cardinality` ("cap distinct symbols tracked", `guardrails.py:30`) does not
  bind the pipeline's trades; `TrackedWithinCap` fails in `service` when added to it, while
  `SymbolsBounded` is what does hold.
- "Within the horizon" holds only for monotonic feeds (`WindowWithinHorizon`); on others
  `WindowAgeBounded` does.
- `recent_alerts(0)` returns the whole ring (`sinks/websocket.py:64`).
- A consumer that fails to start is not retried, and `/health` stays up
  (`kafka_source.py:51`).
- A cancellation before the pipeline's first step, or during the source's `close()`, leaves
  the source unclosed, and so does a `close()` that raises (`pipeline.py:54`;
  `kafka_source.py:65-66` keeps the consumer then).
- `pipeline.close()` has neither a `try` nor a timeout (`pipeline.py:86-88`): a sink whose
  `close()` raises leaves itself and the sinks after it open and makes `stop()` raise, and one
  whose `close()` hangs keeps `stop()` from its end, as a source's does if it hangs with no
  cancellation to come. `ClosedInOrder` and `StopCompletes` say what is left.

*Detectors, features, Spark.*

- `volume_median(exclude_last)` sorts first and so excludes the largest volume, not the last
  (`windows.py:71`). `FeaturesBearOut` shows that this never changes a verdict while no
  multiplier is below 2: where the medians differ, the trade is too small to matter.
- `min_trades`: "detectors stay silent until this much history"
  (`config/detection_rules.yaml:9`), but only `zscore`, `volume_spike` and the isolation
  forest wait for it; the other four speak from the first trades on.
- `ml/features.py:5-6` says that "the offline model sees exactly what the online engine sees".
  Its window is neither trimmed nor aged for the trade at hand, and its z-score uses the
  population's deviation where the detector uses the sample's. `FeaturesBearOut` is what does
  hold.
- `docs/ARCHITECTURE.md:59` speaks of identical rules in both layers, and `:102-106` of "the
  same thresholds from the same ruleset", for which "the online layer will behave identically".
  The Spark job reads no ruleset: its thresholds are constants (`spark/detection_sql.py:37-38`,
  `:73-75`) and flags of its own (`spark/batch_backtest.py:28-31`, none for the velocity's
  seconds), and so are the reducer's (`hadoop/reducer.py:24-26`). They are those of the shipped
  file; with a tuned one (`docs/ARCHITECTURE.md:292`) the layers part. And the query looks
  back 100 rows, not `max_trades`, and knows neither horizon nor warm-up; it compares volumes
  with the mean and not the median; it truncates times to seconds, so that trades of one second
  come in any order and a trade's velocity counts later ones of its second. `SqlAgrees` is what
  does hold, with which of the two is the stricter as a hypothesis; the opposite of its first
  half (what the job calls a burst the live detector does) is false even for equal numbers.
- `ml/train.py` chooses the champion by its score on the test set (`train.py:120`) that it then
  reports as held out (`train.py:175`).

*Simulator, evaluation.*

- The simulator tests `max_trades` between batches and overshoots it (`simulator.py:89`;
  `cli.py:44`).
- Two episodes of one kind in direct succession, even on different symbols, are scored as one
  event (`evaluate.py:132`); `EpisodesAreScored` states the score with this exception.

*Batch layer.*

- The heartbeat names the seed of its cycle even when the generation of `trades.jsonl` failed
  and an older file, or part of this one, was counted (`batch_runner.py:70`);
  `CountIsOfTheSlice` therefore says that the count is of one slice, not of which.
- `_mapreduce` looks at the return code of neither child (`batch_runner.py:57`, `:60-61`): a
  mapper or a reducer that dies makes the count of a good slice too small, 0 or, where only part
  of a symbol's trades got through, too large, and the heartbeat says nothing of it.
- The heartbeat is rewritten in place and may be read torn (`batch_runner.py:93`), as "unknown".
- `batch_loop.sh:39` loads whatever `anomalies.parquet` is there, also one of an earlier cycle,
  and appends it every cycle.
- `write_pandas` returns a success flag that is printed and not acted on
  (`load_snowflake.py:57-58`): a load that loaded nothing succeeds.
- The quality gate is to fail "if the day produced zero curated anomalies"
  (`airflow/dags/tradewatch_etl.py:38`), but it looks for the `_SUCCESS` marker, which a job
  with no rows writes too, and it runs after the load.
- `run_streaming.sh` ends with `hdfs dfs -cat ... | head -20` under `pipefail`: a job that is
  done may be reported as failed.

*Dashboard.*

- It counts replayed alerts again after each reconnect (`dashboard.html:970`), and a slow
  answer to an earlier poll may overwrite a later one (`dashboard.html:974`).

## 6. Not modelled, and why

- The dashboard, a page in a browser whose state is its own; TCP probes of the health board,
  console and file output (pure I/O); formatting and the exposition format (no state); metrics'
  latencies, tape and last prices (values shown and not acted on).
- The HTTP middlewares, and a disabled limiter or guardrails: they add no state to what is
  modelled.
- The simulator's `stream()` with delays and `max_trades`; its random walk and its seeds.
- The Spark streaming job, the Databricks notebook, the warehouse's SQL: run by external
  engines. `batch_loop.sh`, the shell variant of the batch runner.
- Training and choosing a model (`ml/train.py`) and the forest itself: numerical fitting.
- Command line but for `simulate`, settings but for the ruleset, validation by pydantic,
  benchmark and load generator, deployment files: no state machine.

## 7. Assurance of the checks

Every property has a mutant that breaks it under the run's own constants. All actions and
disjuncts of the next-state relations of the passing runs fire.

## 8. Plan

Done: windows, engine, detectors, isolation forest, simulator, evaluation, features, Spark
query, service with limiter and metrics, feed, pipeline, Kafka, MapReduce, batch runner, daily
ETL; proofs of windows, engine with its sums, forest, tapes of the simulator, features, Spark
query and scoring, what is injected is caught, limiter, service with its audit trail, pipeline
and feed with their refinement of `AlertDelivery`, Kafka, batch runner and ETL.

1. *Prove more.* The fold of the reducer, symbol by symbol, by the argument used for the folds
   of the evaluation, once the shuffle is stated by ranks like `Sorted`.
2. *Extend the model.* A dashboard client across reconnects and polls; the platform board's
   probes; the streaming job's watermark; `stream()` with `max_trades`; `batch_loop.sh`.
