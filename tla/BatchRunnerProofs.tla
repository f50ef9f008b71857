-------------------------- MODULE BatchRunnerProofs --------------------------
(* Proofs about what the batch runner's heartbeat claims, for any seeds,    *)
(* slices, failures and crashes: never a Spark result that is not there,    *)
(* and another count than that of the file only if a child of the count     *)
(* died.                                                                    *)
EXTENDS BatchRunner, TLAPS

(* Beyond SparkReportIsCurrent: Spark runs only on the slice of its cycle,  *)
(* and spark_ok is set by nothing but a job that succeeded in this cycle.   *)
SparkInv ==
  /\ stage = "spark" => parquet = seed
  /\ sparkOk =>
       stage \in {"mapreduce", "stamp", "write"} /\ anomalies = seed

(* Every step of the cycle, the crashes and the clock keep the invariant.   *)
LEMMA SparkStepInv ==
  ASSUME SparkInv, [Next]_vars
  PROVE  SparkInv'
<1> USE DEF SparkInv, files, locals, clocks, Forget
<1>1. CASE BeginCycle
  BY <1>1 DEF BeginCycle
<1>2. CASE Generate
  BY <1>2 DEF Generate, JsonDone, JsonFails, ParquetDone, ParquetFails
<1>3. CASE Spark
  <2>1. CASE SparkDone
    BY <2>1 DEF SparkDone
  <2>2. CASE SparkFails
    BY <2>2 DEF SparkFails
  <2>3. CASE SparkHangs
    BY <2>3 DEF SparkHangs
  <2>4. CASE SparkTimesOut
    BY <2>4 DEF SparkTimesOut
  <2> QED BY <1>3, <2>1, <2>2, <2>3, <2>4 DEF Spark
<1>4. CASE Count
  BY <1>4 DEF Count, MapReduceDone, ChildDies, MapReduceRaises
<1>5. CASE Report
  BY <1>5 DEF Report, Truncate, Write, BeatFails
<1>6. CASE Crash
  BY <1>6 DEF Crash
<1>7. CASE Tick
  BY <1>7 DEF Tick
<1>8. CASE UNCHANGED vars
  BY <1>8 DEF vars
<1> QED BY <1>1, <1>2, <1>3, <1>4, <1>5, <1>6, <1>7, <1>8 DEF Next

(* No leftover of an earlier cycle or of a crash is ever reported as this   *)
(* cycle's Spark result (run_cycle).                                        *)
THEOREM RunnerSparkReportIsCurrent == Spec => []SparkReportIsCurrent
<1>1. Init => SparkInv
  BY DEF Init, SparkInv
<1>2. SparkInv /\ [Next]_vars => SparkInv'
  BY SparkStepInv
<1>3. SparkInv => SparkReportIsCurrent
  BY DEF SparkInv, SparkReportIsCurrent
<1> QED BY <1>1, <1>2, <1>3, PTL DEF Spec

(* The file a count is of is what some generation left.                     *)
FileInv == seed \in Seeds /\ jsonl \in {Nothing} \cup SliceFiles

(* Generations alone write the file, and those that fail leave it as it was *)
(* or with the beginning of a slice.                                        *)
LEMMA FileStepInv ==
  ASSUME FileInv, [Next]_vars
  PROVE  FileInv'
<1> USE DEF FileInv, files, locals, clocks, Forget
<1>1. /\ Slices[seed] \in SliceFiles
      /\ JsonCut \subseteq {Nothing} \cup SliceFiles
  BY DEF SliceFiles, JsonCut
<1> HIDE DEF SliceFiles, JsonCut
<1>2. CASE BeginCycle
  BY <1>2 DEF BeginCycle
<1>3. CASE Generate
  BY <1>1, <1>3 DEF Generate, JsonDone, JsonFails, ParquetDone, ParquetFails
<1>4. CASE Spark
  BY <1>4 DEF Spark, SparkDone, SparkFails, SparkHangs, SparkTimesOut
<1>5. CASE Count
  BY <1>5 DEF Count, MapReduceDone, ChildDies, MapReduceRaises
<1>6. CASE Report
  BY <1>6 DEF Report, Truncate, Write, BeatFails
<1>7. CASE Crash
  BY <1>1, <1>7 DEF Crash
<1>8. CASE Tick
  BY <1>8 DEF Tick
<1>9. CASE UNCHANGED vars
  BY <1>9 DEF vars
<1> QED BY <1>2, <1>3, <1>4, <1>5, <1>6, <1>7, <1>8, <1>9 DEF Next

(* The count is that of the file there is unless a child died, and no crash *)
(* or later step of the cycle puts another file under it.  died is of this  *)
(* cycle: nobody has died before its mapper starts.                         *)
CountInv ==
  /\ stage \in {"stamp", "write"} =>
       jsonl # Nothing /\ (~died => found = Anomalies(jsonl))
  /\ died => stage \in {"stamp", "write"}

(* Every step of the cycle, the crashes and the clock keep it.              *)
LEMMA CountStepInv ==
  ASSUME CountInv, [Next]_vars
  PROVE  CountInv'
<1> USE DEF CountInv, files, locals, clocks, Forget
<1>1. CASE BeginCycle
  BY <1>1 DEF BeginCycle
<1>2. CASE Generate
  BY <1>2 DEF Generate, JsonDone, JsonFails, ParquetDone, ParquetFails
<1>3. CASE Spark
  <2>1. stage = "spark" /\ stage' \in {"spark", "mapreduce"} /\ died' = died
    BY <1>3 DEF Spark, SparkDone, SparkFails, SparkHangs, SparkTimesOut
  <2> QED BY <2>1
<1>4. CASE Count
  BY <1>4 DEF Count, MapReduceDone, ChildDies, MapReduceRaises
<1>5. CASE Report
  BY <1>5 DEF Report, Truncate, Write, BeatFails
<1>6. CASE Crash
  BY <1>6 DEF Crash
<1>7. CASE Tick
  BY <1>7 DEF Tick
<1>8. CASE UNCHANGED vars
  BY <1>8 DEF vars
<1> QED BY <1>1, <1>2, <1>3, <1>4, <1>5, <1>6, <1>7, <1>8 DEF Next

(* Whatever generations, Spark jobs and crashes left behind, the count of a *)
(* mapper and a reducer that live is what the job makes of one slice or of  *)
(* the beginning of one (run_cycle), which is right if the job is right     *)
(* about each such file.  Of a child that died nothing of the kind holds.   *)
THEOREM RunnerCountIsOfTheSlice ==
  ASSUME \A lines \in SliceFiles : Anomalies(lines) = Expected(lines)
  PROVE  Spec => []CountIsOfTheSlice
<1> DEFINE Inv == FileInv /\ CountInv
<1>1. Init => Inv
  BY DEF Init, FileInv, CountInv
<1>2. Inv /\ [Next]_vars => Inv'
  BY FileStepInv, CountStepInv
<1>3. Inv => CountIsOfTheSlice
  BY DEF FileInv, CountInv, CountIsOfTheSlice
<1> HIDE DEF Inv
<1> QED BY <1>1, <1>2, <1>3, PTL DEF Spec
=============================================================================
