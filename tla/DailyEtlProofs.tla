--------------------------- MODULE DailyEtlProofs ---------------------------
(* Proofs about the daily ETL, for any number of failures, retries and      *)
(* clearings: what a load reads, and where extra copies come from.          *)
EXTENDS DailyEtl, TLAPS

EtlTypeOK ==
  /\ state \in [Tasks -> {"waiting", "running", "retry", "success", "failed"}]
  /\ copies \in Nat /\ unnoticed \in Nat /\ clears \in Nat

(* A task is touched only once all that comes before it has succeeded.      *)
InOrder ==
  \A k \in Tasks : state[k] # "waiting" =>
    \A u \in Upstream[k] : state[u] = "success"

SparkOutputWhole == state["spark"] = "success" => partition = "whole"

(* Each copy has its attempt: one that went unnoticed, one that was cleared,*)
(* or the one that succeeded.                                               *)
CopiesAccountedFor ==
  copies <= unnoticed + clears + (IF state["load"] = "success" THEN 1 ELSE 0)

EtlInv == EtlTypeOK /\ InOrder /\ SparkOutputWhole /\ CopiesAccountedFor
-----------------------------------------------------------------------------
(* The tasks by name.                                                       *)
LEMMA TasksAre == Tasks = {"spark", "mapreduce", "hive", "load", "gate"}
BY DEF Tasks, Upstream

(* A task begins only once all before it have succeeded.                    *)
LEMMA BeginKeepsInv ==
  ASSUME EtlInv, NEW k \in Tasks, Begin(k)
  PROVE  EtlInv'
<1> USE DEF Begin
<1>1. EtlTypeOK'
  BY DEF EtlInv, EtlTypeOK
<1>2. InOrder'
  BY TasksAre DEF EtlInv, EtlTypeOK, InOrder, Upstream
<1>3. SparkOutputWhole' /\ CopiesAccountedFor'
  BY TasksAre DEF EtlInv, EtlTypeOK, SparkOutputWhole, CopiesAccountedFor
<1> QED BY <1>1, <1>2, <1>3 DEF EtlInv

(* An attempt that ends was running, so nothing after it had begun.         *)
LEMMA EndKeepsOrder ==
  ASSUME EtlInv, NEW k \in Tasks, Succeeds(k) \/ Fails(k)
  PROVE  /\ state' \in [Tasks -> {"waiting", "running", "retry", "success", "failed"}]
         /\ InOrder'
         /\ \A r \in Tasks : r # k => state'[r] = state[r]
         /\ state[k] = "running" /\ clears' = clears
         /\ Succeeds(k) => state'[k] = "success"
         /\ Fails(k) => state'[k] # "success"
<1> USE DEF Succeeds, Fails
<1>1. /\ state[k] = "running" /\ clears' = clears
      /\ \A r \in Tasks : r # k => state'[r] = state[r]
      /\ state' \in [Tasks -> {"waiting", "running", "retry", "success", "failed"}]
      /\ Succeeds(k) => state'[k] = "success"
      /\ Fails(k) => state'[k] # "success"
      /\ state'[k] # "waiting"
  BY DEF EtlInv, EtlTypeOK
<1>2. ASSUME NEW r \in Tasks, state'[r] # "waiting", NEW u \in Upstream[r]
      PROVE  state'[u] = "success"
  <2>1. u \in Tasks
    BY <1>2, TasksAre DEF Upstream
  <2>2. state[r] # "waiting" /\ state[u] = "success"
    BY <1>1, <1>2 DEF EtlInv, InOrder
  <2> QED BY <1>1, <2>1, <2>2
<1> QED BY <1>1, <1>2 DEF InOrder

(* An attempt ends, having written its output whole, in part or not.        *)
LEMMA EndsKeepInv ==
  ASSUME EtlInv, Spark \/ MapReduce \/ Hive \/ Load \/ Gate
  PROVE  EtlInv'
<1> USE TasksAre DEF EtlInv, EtlTypeOK, SparkOutputWhole, CopiesAccountedFor
<1>1. CASE Spark
  BY <1>1, EndKeepsOrder DEF Spark
<1>2. CASE MapReduce
  BY <1>2, EndKeepsOrder DEF MapReduce
<1>3. CASE Hive
  BY <1>3, EndKeepsOrder DEF Hive
<1>4. CASE Load
  <2>1. CASE Succeeds("load") /\ copies' \in {copies, copies + 1} /\ unnoticed' = unnoticed
    BY <1>4, <2>1, EndKeepsOrder DEF Load
  <2>2. CASE Fails("load") /\ \/ copies' = copies /\ unnoticed' = unnoticed
                              \/ copies' = copies + 1 /\ unnoticed' = unnoticed + 1
    BY <1>4, <2>2, EndKeepsOrder DEF Load
  <2> QED BY <1>4, <2>1, <2>2 DEF Load
<1>5. CASE Gate
  BY <1>5, EndKeepsOrder DEF Gate
<1> QED BY <1>1, <1>2, <1>3, <1>4, <1>5

(* What is cleared takes all that comes after it along.                     *)
LEMMA ClearKeepsInv ==
  ASSUME EtlInv, NEW k \in Tasks, Clear(k)
  PROVE  EtlInv'
<1> USE DEF Clear
<1>1. EtlTypeOK'
  BY DEF EtlInv, EtlTypeOK
<1>2. ASSUME NEW r \in Tasks, r \notin Downstream[k], NEW u \in Upstream[r]
      PROVE  u \in Tasks /\ u \notin Downstream[k]
  BY <1>2, TasksAre DEF Upstream, Downstream
<1>3. InOrder'
  BY <1>2 DEF EtlInv, InOrder
<1>4. SparkOutputWhole' /\ CopiesAccountedFor'
  BY TasksAre DEF EtlInv, EtlTypeOK, SparkOutputWhole, CopiesAccountedFor
<1> QED BY <1>1, <1>3, <1>4 DEF EtlInv

(* The invariant holds however tasks fail, are retried and cleared.         *)
LEMMA EtlInvariant == Spec => []EtlInv
<1>1. Init => EtlInv
  BY TasksAre DEF Init, EtlInv, EtlTypeOK, InOrder, SparkOutputWhole, CopiesAccountedFor
<1>2. EtlInv /\ [Next]_vars => EtlInv'
  <2> SUFFICES ASSUME EtlInv, [Next]_vars PROVE EtlInv'
    OBVIOUS
  <2>1. CASE \E k \in Tasks : Begin(k) \/ Clear(k)
    BY <2>1, BeginKeepsInv, ClearKeepsInv
  <2>2. CASE Spark \/ MapReduce \/ Hive \/ Load \/ Gate
    BY <2>2, EndsKeepInv
  <2>3. CASE UNCHANGED vars
    BY <2>3 DEF vars, EtlInv, EtlTypeOK, InOrder, SparkOutputWhole, CopiesAccountedFor
  <2> QED BY <2>1, <2>2, <2>3 DEF Next
<1> QED BY <1>1, <1>2, PTL DEF Spec

(* Whatever failed and was retried or cleared, a load reads the output of a *)
(* Spark job that succeeded (the order of the tasks of the DAG).            *)
THEOREM EtlLoadReadsWhole == Spec => []LoadReadsWhole
<1>1. EtlInv => LoadReadsWhole
  BY TasksAre DEF EtlInv, InOrder, SparkOutputWhole, LoadReadsWhole, Upstream
<1> QED BY <1>1, EtlInvariant, PTL

(* The appending load is the only source of double counting, and only by an *)
(* attempt that failed after it had loaded or a run that was cleared.       *)
THEOREM EtlExtraCopiesHaveACause == Spec => []ExtraCopiesHaveACause
<1>1. EtlInv => ExtraCopiesHaveACause
  BY TasksAre DEF EtlInv, EtlTypeOK, CopiesAccountedFor, ExtraCopiesHaveACause
<1> QED BY <1>1, EtlInvariant, PTL
=============================================================================
