----------------------------- MODULE BatchRunner -----------------------------
(***************************************************************************)
(* The batch runner (scripts/batch_runner.py) and the board that watches it *)
(* (platform_health.py, _batch_status): a loop of cycles, each of which     *)
(* generates a slice of history, runs Spark and MapReduce over it and       *)
(* writes a heartbeat file, all in place in one data directory.  Any step   *)
(* may fail, the process may end at any moment and be started again, and    *)
(* the board may be looked at at any moment.                                *)
(***************************************************************************)
EXTENDS MapReduce

CONSTANTS Seeds,
          Slices,        (* the lines of the slice of each seed              *)
          StaleAfter,    (* 900 seconds, in ticks: from then on it is stale  *)
          Nothing,       (* no such file                                     *)
          Torn           (* a file that is empty or cut off                  *)

ASSUME RunnerAssumption == StaleAfter \in Nat \ {0}

VARIABLES stage,      (* where the runner is in its cycle, or "down"         *)
          seed,       (* the seed of the cycle                               *)
          jsonl,      (* trades.jsonl, its lines                             *)
          parquet,    (* trades.parquet, the seed of its slice               *)
          anomalies,  (* anomalies.parquet, the seed of the slice it is of   *)
          sparkOk, found,   (* spark_ok and mr                               *)
          died,       (* history: the mapper or the reducer of this cycle    *)
                      (* died on the way                                     *)
          hung,       (* the Spark job will not return by itself             *)
          beat,       (* batch_status.json                                   *)
          age,        (* ticks since the epoch in beat, up to StaleAfter     *)
          stamp       (* ticks since the epoch of the heartbeat in writing   *)

files == <<jsonl, parquet, anomalies, beat>>
locals == <<seed, sparkOk, found, died, hung>>
clocks == <<age, stamp>>
vars == <<stage, files, locals, clocks>>
-----------------------------------------------------------------------------
(* What a writer that does not finish may leave of each output.             *)
PrefixesOf(s) == {SubSeq(s, 1, k) : k \in 0..(Len(s) - 1)}
JsonCut == {jsonl} \cup PrefixesOf(Slices[seed])
ParquetCut == {parquet, Torn}
AnomaliesCut == {anomalies, Torn}

(* The records of a mapper that dies: the first ones, the last of which may *)
(* be cut within its quantity.  Cut earlier it has no three fields, and the *)
(* reducer skips it.                                                        *)
MappedCut(lines) ==
  LET records == Mapped(lines)
      cutAt(k) == {Append(SubSeq(records, 1, k), [records[k + 1] EXCEPT !.quantity = q]) :
                     q \in 0..(records[k + 1].quantity - 1)}
  IN  PrefixesOf(records) \cup UNION {cutAt(k) : k \in 0..(Len(records) - 1)}

(* What a generation that succeeds or fails can leave in trades.jsonl.      *)
SliceFiles == UNION {{Slices[z]} \cup PrefixesOf(Slices[z]) : z \in Seeds}

(* The names run_cycle() leaves behind when it ends.                        *)
Forget == sparkOk' = FALSE /\ found' = 0 /\ died' = FALSE /\ hung' = FALSE

(* The process is started, or wakes up, and begins a cycle.                 *)
BeginCycle ==
  /\ stage \in {"down", "sleep"}
  /\ stage' = "json"
  /\ seed' \in Seeds
  /\ UNCHANGED <<files, sparkOk, found, died, hung, clocks>>

(* _gen(jsonl): its result is not looked at.                                *)
JsonDone ==
  /\ stage = "json"
  /\ stage' = "parquet" /\ jsonl' = Slices[seed]
  /\ UNCHANGED <<parquet, anomalies, beat, locals, clocks>>

(* Mutant: what a failed generation left is removed.                        *)
JsonFailsClean ==
  /\ stage = "json"
  /\ stage' = "parquet" /\ jsonl' = Nothing
  /\ UNCHANGED <<parquet, anomalies, beat, locals, clocks>>

JsonFails ==
  /\ stage = "json"
  /\ stage' = "parquet" /\ jsonl' \in JsonCut
  /\ UNCHANGED <<parquet, anomalies, beat, locals, clocks>>

(* _gen(parquet): without the file there is no Spark job.                   *)
ParquetDone ==
  /\ stage = "parquet"
  /\ stage' = "spark" /\ parquet' = seed
  /\ UNCHANGED <<jsonl, anomalies, beat, locals, clocks>>

(* Mutant: the result of _gen() is not looked at here either.               *)
ParquetIgnored ==
  /\ stage = "parquet"
  /\ stage' = "spark" /\ parquet' \in ParquetCut
  /\ UNCHANGED <<jsonl, anomalies, beat, locals, clocks>>

ParquetFails ==
  /\ stage = "parquet"
  /\ stage' = "mapreduce" /\ parquet' \in ParquetCut
  /\ UNCHANGED <<jsonl, anomalies, beat, locals, clocks>>

(* _spark_backtest(): the job rewrites its output or fails; one that hangs  *)
(* is killed when its time is up.                                           *)
SparkDone ==
  /\ stage = "spark" /\ ~hung /\ parquet \in Seeds
  /\ stage' = "mapreduce" /\ anomalies' = parquet /\ sparkOk' = TRUE
  /\ UNCHANGED <<jsonl, parquet, beat, seed, found, died, hung, clocks>>

SparkFails ==
  /\ stage = "spark" /\ ~hung
  /\ stage' = "mapreduce" /\ anomalies' \in AnomaliesCut
  /\ UNCHANGED <<jsonl, parquet, beat, locals, clocks>>

SparkHangs ==
  /\ stage = "spark" /\ ~hung
  /\ hung' = TRUE /\ anomalies' \in AnomaliesCut
  /\ UNCHANGED <<stage, jsonl, parquet, beat, seed, sparkOk, found, died, clocks>>

(* Mutant: no timeout, only a job that returns is done with.                *)
SparkOutlasts == hung /\ SparkFails

SparkTimesOut ==
  /\ stage = "spark" /\ hung
  /\ stage' = "mapreduce" /\ hung' = FALSE
  /\ UNCHANGED <<files, seed, sparkOk, found, died, clocks>>

(* _mapreduce(jsonl): raises if there is no such file, which ends the cycle.*)
MapReduceDone ==
  /\ stage = "mapreduce" /\ jsonl # Nothing
  /\ stage' = "stamp"
  /\ UNCHANGED <<files, seed, sparkOk, died, hung, clocks>>
  /\ found' = Anomalies(jsonl)

(* The mapper, the reducer or both die on the way.  Nobody looks at their   *)
(* return codes: what they have written by then goes on.                    *)
ChildDies ==
  /\ stage = "mapreduce" /\ jsonl # Nothing
  /\ stage' = "stamp" /\ died' = TRUE
  /\ UNCHANGED <<files, seed, sparkOk, hung, clocks>>
  /\ \E m \in {Mapped(jsonl)} \cup MappedCut(jsonl) :
       found' \in 0..Len(Reduced(Shuffled(m)))

MapReduceRaises ==
  /\ stage = "mapreduce" /\ jsonl = Nothing
  /\ stage' = "sleep"
  /\ Forget /\ UNCHANGED <<files, seed, clocks>>

(* The heartbeat takes the time; write_text() empties the file and then     *)
(* fills it.                                                                *)
Truncate ==
  /\ stage = "stamp"
  /\ stage' = "write" /\ beat' = Torn /\ stamp' = 0
  /\ UNCHANGED <<jsonl, parquet, anomalies, locals, age>>

Write ==
  /\ stage = "write"
  /\ stage' = "sleep" /\ beat' = [seed |-> seed, mr |-> found, spark |-> sparkOk]
  /\ age' = stamp /\ stamp' = 0
  /\ Forget /\ UNCHANGED <<jsonl, parquet, anomalies, seed>>

(* The file cannot be opened or filled; main() goes on to the next cycle.   *)
BeatFails ==
  /\ stage \in {"stamp", "write"}
  /\ stage' = "sleep" /\ stamp' = 0
  /\ Forget /\ UNCHANGED <<files, seed, age>>

(* The process ends, its children with it.                                  *)
Crash ==
  /\ stage # "down"
  /\ stage' = "down"
  /\ IF stage = "json" THEN jsonl' \in JsonCut ELSE jsonl' = jsonl
  /\ IF stage = "parquet" THEN parquet' \in ParquetCut ELSE parquet' = parquet
  /\ IF stage = "spark" THEN anomalies' \in AnomaliesCut ELSE anomalies' = anomalies
  /\ stamp' = 0
  /\ Forget /\ UNCHANGED <<seed, beat, age>>

Older(ticks) == IF ticks < StaleAfter THEN ticks + 1 ELSE ticks

Tick ==
  /\ age' = Older(age)
  /\ stamp' = IF stage = "write" THEN Older(stamp) ELSE stamp
  /\ UNCHANGED <<stage, files, locals>>

Generate == JsonDone \/ JsonFails \/ ParquetDone \/ ParquetFails
Spark == SparkDone \/ SparkFails \/ SparkHangs \/ SparkTimesOut
Count == MapReduceDone \/ ChildDies \/ MapReduceRaises
Report == Truncate \/ Write \/ BeatFails

Next == BeginCycle \/ Generate \/ Spark \/ Count \/ Report \/ Crash \/ Tick

Init ==
  /\ stage = "down"
  /\ seed \in Seeds
  /\ jsonl = Nothing /\ parquet = Nothing /\ anomalies = Nothing /\ beat = Nothing
  /\ sparkOk = FALSE /\ found = 0 /\ died = FALSE /\ hung = FALSE
  /\ age = StaleAfter /\ stamp = 0

(* The runner goes on while its process lives: sleeping ends, and scripts   *)
(* other than Spark end by themselves.  The disk is not full whenever the   *)
(* heartbeat is written.  Nothing obliges anyone to start the runner again. *)
Cycle == (stage = "sleep" /\ BeginCycle) \/ Generate \/ Spark \/ Count \/ Report

Spec ==
  Init /\ [][Next]_vars
       /\ WF_vars(Cycle) /\ WF_vars(Tick)
       /\ SF_vars(Truncate) /\ SF_vars(Write)
-----------------------------------------------------------------------------
(* Mutant: the age of the heartbeat is not looked at.                       *)
StatusIfReadable == IF beat \in {Nothing, Torn} THEN "unknown" ELSE "up"

(* What /api/platform says of the batch layer, _batch_status().             *)
BatchStatus ==
  CASE beat \in {Nothing, Torn} -> "unknown"
    [] OTHER -> IF age < StaleAfter THEN "up" ELSE "stale"

(* How many trades of a file breach a threshold of the job, taking each     *)
(* symbol by itself.                                                        *)
Expected(lines) ==
  LET trades == {i \in 1..Len(lines) : lines[i] # Malformed}
      of(i) == SelectSeq(lines, LAMBDA x : x # Malformed /\ x.symbol = lines[i].symbol)
      n(i) == Len(of(i))
      priceOf(i) == [j \in 1..n(i) |-> of(i)[j].price]
      volumeOf(i) == Total([j \in 1..n(i) |-> of(i)[j].quantity])
  IN  Cardinality({i \in trades :
        /\ n(i) >= MinRows
        /\ \/ FarFrom(priceOf(i), lines[i].price, PriceZ)
           \/ volumeOf(i) > 0 /\ lines[i].quantity * n(i) >= VolRatio * volumeOf(i)})

(* While the heartbeat is in the making, spark_ok is set only if            *)
(* anomalies.parquet is the result for the slice of the seed it will name,  *)
(* whatever earlier cycles, failures and crashes left in the directory.     *)
SparkReportIsCurrent ==
  stage \in {"mapreduce", "stamp", "write"} /\ sparkOk => anomalies = seed

(* The MapReduce count about to be reported is that of one slice or of the  *)
(* beginning of one, symbol by symbol.  It need not be this cycle's: that   *)
(* a generation fails goes unnoticed, and the file may be an earlier one.   *)
(* Nothing but a child that died in this very cycle, which goes unnoticed   *)
(* as well, makes it another number.                                        *)
CountIsOfTheSlice ==
  stage \in {"stamp", "write"} =>
    /\ jsonl \in SliceFiles
    /\ ~died => found = Expected(jsonl)

Running == stage # "down"

(* Nothing that fails in a cycle, a Spark job that hangs included, keeps    *)
(* the runner from the next one (main, _spark_backtest).                    *)
CyclesKeepComing == <>[]Running => []<>(stage = "sleep")

(* A heartbeat torn by a crash or a full disk is repaired by a runner that  *)
(* keeps running: the cycle does get to its report.                         *)
TornIsTransient == <>[]Running => []<>(beat # Torn)

(* A board that says "up" again and again has a runner behind it that       *)
(* completes cycles again and again.                                        *)
UpMeansRunning == []<>(BatchStatus = "up") => []<><<Write>>_vars
=============================================================================
