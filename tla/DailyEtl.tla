------------------------------ MODULE DailyEtl ------------------------------
(***************************************************************************)
(* The daily surveillance ETL (airflow/dags/tradewatch_etl.py) for one day: *)
(* five tasks, each retried by Airflow, over the day's partitions.  Spark   *)
(* and MapReduce rewrite theirs; the load appends the anomalies to the      *)
(* Snowflake table.  Days share nothing but that table, and rows of         *)
(* different days differ in their DT.                                       *)
(***************************************************************************)
EXTENDS Naturals

CONSTANT MaxClears     (* bound on how often the run is cleared              *)

Retries == 2

(* spark >> [mapreduce, hive] >> load >> gate.                              *)
Upstream ==
  [spark |-> {}, mapreduce |-> {"spark"}, hive |-> {"spark"},
   load |-> {"mapreduce", "hive"}, gate |-> {"load"}]

Tasks == DOMAIN Upstream

(* A task and all that comes after it.                                      *)
Downstream ==
  [spark |-> Tasks, mapreduce |-> {"mapreduce", "load", "gate"},
   hive |-> {"hive", "load", "gate"}, load |-> {"load", "gate"}, gate |-> {"gate"}]

VARIABLES state,        (* of each task, as Airflow has it                   *)
          tries,        (* attempts begun since the task was last cleared    *)
          partition,    (* the day's curated anomalies: "none", "partial" or *)
                        (* "whole", then with its _SUCCESS marker            *)
          crosscheck,   (* the output of the MapReduce job, likewise         *)
          copies,       (* how many times the table holds the day's rows     *)
          unnoticed,    (* history: attempts to load that failed once the    *)
                        (* rows were in                                      *)
          clears        (* history: how often the run was cleared            *)

vars == <<state, tries, partition, crosscheck, copies, unnoticed, clears>>
-----------------------------------------------------------------------------
(* Airflow begins an attempt: all that comes before it has succeeded.       *)
Begin(k) ==
  /\ state[k] \in {"waiting", "retry"}
  /\ \A u \in Upstream[k] : state[u] = "success"
  /\ state' = [state EXCEPT ![k] = "running"]
  /\ tries' = [tries EXCEPT ![k] = @ + 1]
  /\ UNCHANGED <<partition, crosscheck, copies, unnoticed, clears>>

(* The attempt comes to an end, well or not; a worker that is lost counts   *)
(* as a failure wherever it was.                                            *)
Succeeds(k) ==
  /\ state[k] = "running"
  /\ state' = [state EXCEPT ![k] = "success"]
  /\ UNCHANGED <<tries, clears>>

Fails(k) ==
  /\ state[k] = "running"
  /\ state' = [state EXCEPT ![k] = IF tries[k] > Retries THEN "failed" ELSE "retry"]
  /\ UNCHANGED <<tries, clears>>

(* What a job that rewrites its output may leave of it when it fails: the   *)
(* old one, a part, or all of the new one.                                  *)
Rewriting(old) == {old, "none", "partial", "whole"}

Spark ==
  /\ \/ Succeeds("spark") /\ partition' = "whole"
     \/ Fails("spark") /\ partition' \in Rewriting(partition)
  /\ UNCHANGED <<crosscheck, copies, unnoticed>>

MapReduce ==
  /\ \/ Succeeds("mapreduce") /\ crosscheck' = "whole"
     \/ Fails("mapreduce") /\ crosscheck' \in Rewriting(crosscheck)
  /\ UNCHANGED <<partition, copies, unnoticed>>

Hive ==
  /\ Succeeds("hive") \/ Fails("hive")
  /\ UNCHANGED <<partition, crosscheck, copies, unnoticed>>

(* write_pandas() says of its success what nobody asks.                     *)
Load ==
  /\ \/ Succeeds("load") /\ copies' \in {copies, copies + 1} /\ unnoticed' = unnoticed
     \/ Fails("load") /\ copies' = copies /\ unnoticed' = unnoticed
     \/ Fails("load") /\ copies' = copies + 1 /\ unnoticed' = unnoticed + 1
  /\ UNCHANGED <<partition, crosscheck>>

(* The gate looks for the marker and at no row.                             *)
Gate ==
  /\ \/ Succeeds("gate") /\ partition = "whole"
     \/ Fails("gate")
  /\ UNCHANGED <<partition, crosscheck, copies, unnoticed>>

(* Somebody clears a task of a run that failed, and what comes after it, so *)
(* that they run again.                                                     *)
Clear(k) ==
  /\ \E f \in Tasks : state[f] = "failed"
  /\ \A r \in Tasks : state[r] \notin {"running", "retry"}
  /\ clears < MaxClears
  /\ state' = [r \in Tasks |-> IF r \in Downstream[k] THEN "waiting" ELSE state[r]]
  /\ tries' = [r \in Tasks |-> IF r \in Downstream[k] THEN 0 ELSE tries[r]]
  /\ clears' = clears + 1
  /\ UNCHANGED <<partition, crosscheck, copies, unnoticed>>

Init ==
  /\ state = [k \in Tasks |-> "waiting"]
  /\ tries = [k \in Tasks |-> 0]
  /\ partition = "none" /\ crosscheck = "none"
  /\ copies = 0 /\ unnoticed = 0 /\ clears = 0

Next ==
  \/ \E k \in Tasks : Begin(k) \/ Clear(k)
  \/ Spark \/ MapReduce \/ Hive \/ Load \/ Gate

Spec == Init /\ [][Next]_vars
-----------------------------------------------------------------------------
(* What is loaded is the whole partition of a Spark job that succeeded, not *)
(* what a failed or a running one left.                                     *)
LoadReadsWhole == state["load"] = "running" => partition = "whole"

(* A day's rows are in the table more than once only by attempts that       *)
(* failed after they had loaded, or by a run that was cleared.              *)
ExtraCopiesHaveACause == copies <= 1 + unnoticed + clears

(* What the architecture says of the nightly run: "re-runs without          *)
(* double-counting".                                                        *)
NoDoubleCounting == copies <= 1
=============================================================================
