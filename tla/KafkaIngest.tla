----------------------------- MODULE KafkaIngest -----------------------------
(***************************************************************************)
(* The service fed by a Kafka topic: KafkaTradeSource                       *)
(* (sources/kafka_source.py) under the pipeline's task, across crashes and  *)
(* restarts of the process.  The topic, the consumer library and its        *)
(* periodic commit are external, modelled from how the source configures    *)
(* and uses them: one partition, the library's own commits, and a           *)
(* value_deserializer that runs inside the library's iterator.              *)
(***************************************************************************)
EXTENDS Integers, Sequences

CONSTANTS Feed,           (* the kinds of messages producers send            *)
          OffsetReset,    (* auto_offset_reset: "latest" or "earliest"       *)
          Outages,        (* whether the broker may be away at a start       *)
          MaxProduced,    (* bound on the messages of the topic              *)
          MaxExits        (* bound on the ends of a process                  *)

(* A message is a trade; or JSON that is no Trade; or no JSON at all.       *)
Kinds == {"trade", "malformed", "undecodable"}
None == -1

ASSUME KafkaAssumption ==
  /\ Feed \subseteq Kinds
  /\ OffsetReset \in {"latest", "earliest"}
  /\ Outages \in BOOLEAN
  /\ MaxProduced \in Nat /\ MaxExits \in Nat

VARIABLES topic,       (* the kind of each message produced, by offset + 1   *)
          committed,   (* the group's committed offset, None before the first*)
          consumer,    (* where the source of this process is                *)
          position,    (* the offset it reads next, None before it has any   *)
          exits,       (* how many processes have ended                      *)
          joined,      (* history: where the group first started to read     *)
          processed,   (* history: the offsets given to an engine            *)
          current      (* history: those of this process, in order           *)

vars == <<topic, committed, consumer, position, exits, joined, processed, current>>

(* no process; in stream(); in close(), the service stopping or not; closed *)
(* with the service still up and nothing to feed it                         *)
Stages == {"down", "streaming", "stopping", "failing", "failed"}
End == Len(topic)
KindAt(o) == topic[o + 1]
-----------------------------------------------------------------------------
Produce ==
  /\ End < MaxProduced
  /\ \E k \in Feed : topic' = Append(topic, k)
  /\ UNCHANGED <<committed, consumer, position, exits, joined, processed, current>>

(* The group resumes at its committed offset; without one, where            *)
(* auto_offset_reset says.                                                  *)
StartAt ==
  IF committed # None THEN committed
  ELSE IF OffsetReset = "latest" THEN End ELSE 0

(* A new process, up to the end of _ensure_consumer.                        *)
Start ==
  /\ consumer = "down"
  /\ consumer' = "streaming" /\ position' = StartAt
  /\ joined' = IF joined = None THEN StartAt ELSE joined
  /\ current' = << >>
  /\ UNCHANGED <<topic, committed, exits, processed>>

(* The consumer's start() raises: stream() ends before it began.            *)
StartFails ==
  /\ Outages /\ consumer = "down"
  /\ consumer' = "failing" /\ position' = None
  /\ current' = << >>
  /\ UNCHANGED <<topic, committed, exits, joined, processed>>

(* stream() yields a Trade and the pipeline's _handle_trade runs before the *)
(* consumer is asked for more.                                              *)
ConsumeTrade ==
  /\ consumer = "streaming" /\ position < End /\ KindAt(position) = "trade"
  /\ position' = position + 1
  /\ processed' = processed \cup {position}
  /\ current' = Append(current, position)
  /\ UNCHANGED <<topic, committed, consumer, exits, joined>>

(* Mutant: skipping a malformed message takes the next one with it.         *)
SkipTwo ==
  /\ consumer = "streaming" /\ position + 1 < End /\ KindAt(position) = "malformed"
  /\ position' = position + 2
  /\ UNCHANGED <<topic, committed, consumer, exits, joined, processed, current>>

(* Mutant: a malformed message is read again and again.                     *)
SkipNothing ==
  /\ consumer = "streaming" /\ position < End /\ KindAt(position) = "malformed"
  /\ UNCHANGED vars

(* model_validate raises: the message is skipped.                           *)
SkipMalformed ==
  /\ consumer = "streaming" /\ position < End /\ KindAt(position) = "malformed"
  /\ position' = position + 1
  /\ UNCHANGED <<topic, committed, consumer, exits, joined, processed, current>>

(* The deserializer raises inside the iterator, outside the try of stream():*)
(* the exception ends the stream and run() closes the source.  Whether the  *)
(* library had moved past the message is its own affair.                    *)
StreamRaises ==
  /\ consumer = "streaming" /\ position < End /\ KindAt(position) = "undecodable"
  /\ consumer' = "failing"
  /\ position' \in {position, position + 1}
  /\ UNCHANGED <<topic, committed, exits, joined, processed, current>>

(* Mutant: the commit covers all that was fetched, processed or not.        *)
CommitFetched ==
  /\ consumer = "streaming"
  /\ committed' = End
  /\ UNCHANGED <<topic, consumer, position, exits, joined, processed, current>>

(* The library's periodic commit of what the application was handed.        *)
AutoCommit ==
  /\ consumer = "streaming"
  /\ committed' = position
  /\ UNCHANGED <<topic, consumer, position, exits, joined, processed, current>>

(* stop() cancels the task; run() closes the source on its way out.         *)
Stop ==
  /\ consumer = "streaming" /\ exits < MaxExits
  /\ consumer' = "stopping"
  /\ UNCHANGED <<topic, committed, position, exits, joined, processed, current>>

(* close() stops the consumer, which commits a last time; then the service  *)
(* exits, if it is stopping at all.                                         *)
Close ==
  /\ consumer \in {"stopping", "failing"}
  /\ committed' = IF position = None THEN committed ELSE position
  /\ IF consumer = "stopping"
       THEN consumer' = "down" /\ exits' = exits + 1
       ELSE consumer' = "failed" /\ UNCHANGED exits
  /\ UNCHANGED <<topic, position, joined, processed, current>>

(* The process dies, or is killed once somebody sees that it is idle.       *)
Crash ==
  /\ consumer # "down" /\ exits < MaxExits
  /\ consumer' = "down" /\ exits' = exits + 1
  /\ UNCHANGED <<topic, committed, position, joined, processed, current>>

Init ==
  /\ topic = << >> /\ committed = None
  /\ consumer = "down" /\ position = None /\ exits = 0
  /\ joined = None /\ processed = {} /\ current = << >>

Consume == ConsumeTrade \/ SkipMalformed \/ StreamRaises

Next ==
  \/ Produce \/ Start \/ StartFails \/ Consume \/ AutoCommit \/ Stop \/ Close \/ Crash

Spec == Init /\ [][Next]_vars

(* The event loop runs the source, and the container's restart policy or    *)
(* the next deployment starts a process again that ended; nothing ends one  *)
(* whose source failed, and nobody has to produce.                          *)
FairSpec == Spec /\ WF_vars(Consume) /\ WF_vars(Close) /\ WF_vars(Start)
-----------------------------------------------------------------------------
TypeOK ==
  /\ topic \in Seq(Kinds)
  /\ committed \in 0..End \cup {None}
  /\ consumer \in Stages
  /\ position \in 0..End \cup {None} /\ exits \in Nat
  /\ joined \in Nat \cup {None}
  /\ processed \subseteq Nat
  /\ current \in Seq(Nat)

TradesIn(S) == {o \in S : KindAt(o) = "trade"}

(* The commit never runs ahead of the engine: every trade between where the *)
(* group started and the committed offset has been processed, so a process  *)
(* that resumes at the commit misses none.                                  *)
CommittedWasProcessed ==
  committed # None => TradesIn(joined..(committed - 1)) \subseteq processed

(* Within one process the engine gets each trade once, in the order of the  *)
(* topic and without a gap: a restart may replay trades, a running consumer *)
(* never does.                                                              *)
ReplayOnlyAcrossRestarts ==
  /\ \A i, j \in 1..Len(current) : i < j => current[i] < current[j]
  /\ current # << >> =>
       \A o \in TradesIn(current[1]..(position - 1)) :
         \E i \in 1..Len(current) : current[i] = o

(* "No trades are silently dropped": every trade the group has read past    *)
(* has been processed, restarts included.                                   *)
NothingDropped ==
  joined # None /\ position # None =>
    TradesIn(joined..(position - 1)) \subseteq processed

(* Restarts, crashes and malformed messages delay a trade but never lose    *)
(* it: each one produced since the group joined is processed in the end,    *)
(* unless the source of a process fails, which nothing restarts.            *)
OnlyFailureStopsFlow ==
  \A o \in 0..(MaxProduced - 1) :
    (joined # None /\ o >= joined /\ o < End /\ KindAt(o) = "trade")
      ~> (o \in processed \/ consumer = "failed")

(* Malformed records are skipped "without stopping ingestion": every trade  *)
(* produced since the group joined is processed in the end, whatever lies   *)
(* before it in the topic and however often the process restarts.           *)
TradesKeepFlowing ==
  \A o \in 0..(MaxProduced - 1) :
    (joined # None /\ o >= joined /\ o < End /\ KindAt(o) = "trade")
      ~> (o \in processed)
=============================================================================
