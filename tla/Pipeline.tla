------------------------------- MODULE Pipeline -------------------------------
(***************************************************************************)
(* The streaming pipeline (pipeline.py, class Pipeline) from the start of   *)
(* its task to the closing of its sinks, which it fans alerts out to: by    *)
(* AppState.stop() (api/app.py), where the service owns it, or by the end   *)
(* of `tradewatch simulate` (cli.py).  An action is what runs between two   *)
(* awaits.  Trades are counted; an alert is its number in the order the     *)
(* engine raised it, and how many a trade raises is nondeterministic.       *)
(***************************************************************************)
EXTENDS Integers, Sequences, SequencesExt

CONSTANTS Order,       (* self.sinks, in their order                         *)
          Flaky,       (* the sinks whose emit() may raise                   *)
          Hanging,     (* the sinks whose emit() may never return            *)
          FlakyClose,  (* those, the source included, whose close() may raise*)
          HangingClose,(* those whose close() may never return               *)
          MaxAlerts,   (* bound on the alerts of one trade                   *)
          MaxTrades    (* bound on the trades the source has                 *)

Sinks == ToSet(Order)
Source == "source"

ASSUME PipelineAssumption ==
  /\ Order \in Seq(Sinks) /\ Order # << >>
  /\ \A i, j \in 1..Len(Order) : i # j => Order[i] # Order[j]
  /\ Flaky \subseteq Sinks /\ Hanging \subseteq Sinks
  /\ Source \notin Sinks
  /\ FlakyClose \subseteq Sinks \cup {Source}
  /\ HangingClose \subseteq Sinks \cup {Source}
  /\ MaxAlerts \in Nat /\ MaxTrades \in Nat

VARIABLES owner,      (* who runs it                                         *)
          task,       (* where run() is: "created", in the source's          *)
                      (* __anext__ ("pulling"), in a sink's emit ("emitting")*)
                      (* or one that will never return ("hung"), in          *)
                      (* source.close ("closing") or one that will never     *)
                      (* return ("stuck"), or "over"                         *)
          verdict,    (* how it came out of its try: "none" yet, "ended",    *)
                      (* "failed" or "cancelled"                             *)
          running,    (* _running                                            *)
          stopping,   (* where its owner is with stopping it: "no",          *)
                      (* "requested", "cancelled", in pipeline.close()       *)
                      (* ("awaited"), in a sink's close that will never      *)
                      (* return ("stuck"), at its end ("stopped"), or out of *)
                      (* it with an exception ("failed")                     *)
          handled,    (* how many trades on_trade and the engine were given  *)
          raised,     (* how many alerts the engine raised on them           *)
          alert,      (* the alert its loop over them has come to, one past  *)
                      (* the last when there is none left                    *)
          sink,       (* the place in Order of the sink _dispatch gives it to*)
          delivered,  (* history: the alerts each sink's emit() returned for *)
          failed,     (* history: the alerts it raised an exception on       *)
          cut,        (* history: the alerts the cancellation kept from it   *)
          open,       (* the source and the sinks not closed yet             *)
          refused     (* history: those whose close() came out with an       *)
                      (* exception, its own or the cancellation's            *)

vars == <<owner, task, verdict, running, stopping, handled, raised, alert,
          sink, delivered, failed, cut, open, refused>>
work == <<handled, raised, alert, sink, delivered, failed, cut>>
ends == <<open, refused>>

(* The service, whose lifespan has a task for run(), and the command line's *)
(* _run_simulate, which awaits run() itself.                                *)
Owners == {"service", "simulate"}
-----------------------------------------------------------------------------
(* What is still to come of the fan-out of the trade in hand, for the sink  *)
(* s: each alert goes to every sink before the next one goes to any.        *)
Pending(s) ==
  {a \in alert..raised : a = alert => \E i \in sink..Len(Order) : Order[i] = s}

(* The task's first step.                                                   *)
Start ==
  /\ task = "created" /\ stopping = "no"
  /\ task' = "pulling" /\ running' = TRUE
  /\ UNCHANGED <<owner, verdict, stopping, work, ends>>

(* Mutant: the engine returns a list it keeps, and every trade is given all *)
(* the alerts so far.                                                       *)
HandleTradeAllOver ==
  /\ task = "pulling" /\ stopping # "requested"
  /\ handled < MaxTrades
  /\ handled' = handled + 1
  /\ \E n \in 0..MaxAlerts : raised' = raised + n
  /\ alert' = 1
  /\ task' = IF raised' > 0 THEN "emitting" ELSE "pulling"
  /\ UNCHANGED <<owner, verdict, running, stopping, sink, delivered, failed,
                 cut, ends>>

(* The source yields a trade: on_trade, the engine and on_processed run     *)
(* without an await, then the loop over the alerts starts.  An exception in *)
(* on_processed is logged and changes nothing here.                         *)
HandleTrade ==
  /\ task = "pulling" /\ stopping # "requested"
  /\ handled < MaxTrades
  /\ handled' = handled + 1
  /\ \E n \in 0..MaxAlerts : raised' = raised + n
  /\ alert' = raised + 1
  /\ task' = IF raised' > raised THEN "emitting" ELSE "pulling"
  /\ UNCHANGED <<owner, verdict, running, stopping, sink, delivered, failed,
                 cut, ends>>

(* The loop over the sinks inside the loop over the alerts goes on to its   *)
(* next emit, or to the next trade.                                         *)
NextEmit ==
  /\ IF sink < Len(Order)
       THEN sink' = sink + 1 /\ UNCHANGED alert
       ELSE sink' = 1 /\ alert' = alert + 1
  /\ task' = IF alert' > raised THEN "pulling" ELSE "emitting"

(* The emit awaited returns, or raises, which _dispatch logs; either way    *)
(* the next one is called.                                                  *)
EmitDone ==
  /\ NextEmit
  /\ UNCHANGED <<owner, verdict, running, stopping, handled, raised, cut,
                 ends>>

EmitReturns(s) ==
  /\ task = "emitting" /\ stopping # "requested" /\ Order[sink] = s
  /\ delivered' = [delivered EXCEPT ![s] = Append(@, alert)]
  /\ EmitDone
  /\ UNCHANGED failed

(* The frames of the two loops go, with what was still to come.             *)
DropFanOut == alert' = raised + 1 /\ sink' = 1

(* Mutant: the exception ends the loop over the sinks, and the rest of the  *)
(* fan-out of the trade goes with it.                                       *)
EmitRaisesThrough(s) ==
  /\ task = "emitting" /\ stopping # "requested" /\ Order[sink] = s
  /\ s \in Flaky
  /\ failed' = [failed EXCEPT ![s] = @ \cup {alert}]
  /\ DropFanOut /\ task' = "pulling"
  /\ UNCHANGED <<owner, verdict, running, stopping, handled, raised, cut,
                 ends, delivered>>

(* Mutant: the exception leaves run(), as if _dispatch had no try.          *)
EmitRaisesOut(s) ==
  /\ task = "emitting" /\ stopping # "requested" /\ Order[sink] = s
  /\ s \in Flaky
  /\ failed' = [failed EXCEPT ![s] = @ \cup {alert}]
  /\ DropFanOut /\ task' = "closing" /\ verdict' = "failed" /\ running' = FALSE
  /\ UNCHANGED <<owner, stopping, handled, raised, cut, ends, delivered>>

EmitRaises(s) ==
  /\ task = "emitting" /\ stopping # "requested" /\ Order[sink] = s
  /\ s \in Flaky
  /\ failed' = [failed EXCEPT ![s] = @ \cup {alert}]
  /\ EmitDone
  /\ UNCHANGED delivered

(* The await of an emit has no timeout, so nothing but a cancellation ends  *)
(* one that does not return.                                                *)
EmitHangs(s) ==
  /\ task = "emitting" /\ stopping # "requested" /\ Order[sink] = s
  /\ s \in Hanging
  /\ task' = "hung"
  /\ UNCHANGED <<owner, verdict, running, stopping, work, ends>>

(* run() leaves its try with the verdict v: running is reset and the        *)
(* source's close() starts.                                                 *)
LeaveTry(v) ==
  /\ task' = "closing" /\ verdict' = v /\ running' = FALSE
  /\ UNCHANGED <<handled, raised, delivered, failed>>

(* The source is exhausted, or its stream raises.                           *)
SourceEnds ==
  /\ task = "pulling" /\ stopping # "requested"
  /\ \E v \in {"ended", "failed"} : LeaveTry(v)
  /\ UNCHANGED <<owner, stopping, alert, sink, cut, ends>>

(* `await self.source.close()`, with neither a try nor a timeout: it        *)
(* returns, or raises, and run() ends with that exception and the source as *)
(* it is, or never returns.                                                 *)
SourceCloses ==
  /\ task = "closing" /\ stopping # "requested"
  /\ task' = "over" /\ open' = open \ {Source}
  /\ UNCHANGED <<owner, verdict, running, stopping, work, refused>>

SourceCloseRaises ==
  /\ task = "closing" /\ stopping # "requested" /\ Source \in FlakyClose
  /\ task' = "over" /\ refused' = refused \cup {Source}
  /\ UNCHANGED <<owner, verdict, running, stopping, work, open>>

SourceCloseHangs ==
  /\ task = "closing" /\ stopping # "requested" /\ Source \in HangingClose
  /\ task' = "stuck"
  /\ UNCHANGED <<owner, verdict, running, stopping, work, ends>>

(* Mutant: stop() goes on to close the sinks without awaiting the task.     *)
StopAtOnce ==
  /\ owner = "service" /\ stopping = "no"
  /\ stopping' = "awaited"
  /\ UNCHANGED <<owner, task, verdict, running, work, ends>>

(* stop(): task.cancel(), which does nothing to a task that is over.        *)
Stop ==
  /\ owner = "service" /\ stopping = "no"
  /\ stopping' = IF task = "over" THEN "awaited" ELSE "requested"
  /\ UNCHANGED <<owner, task, verdict, running, work, ends>>

(* Ctrl-C in `tradewatch simulate`: asyncio.run() cancels its main task,    *)
(* the one that is in run().  A second one is left out.                     *)
Interrupt ==
  /\ owner = "simulate" /\ stopping = "no" /\ task \notin {"created", "over"}
  /\ stopping' = "requested"
  /\ UNCHANGED <<owner, task, verdict, running, work, ends>>

(* There run() also ends by itself, and `finally` closes the sinks at once. *)
RunReturns ==
  /\ owner = "simulate" /\ stopping = "no" /\ task = "over"
  /\ stopping' = "awaited"
  /\ UNCHANGED <<owner, task, verdict, running, work, ends>>

(* The CancelledError is thrown into the await the task is at.  A task that *)
(* never ran ends there; neither `except Exception` nor the sinks catch it. *)
CancelBeforeStart ==
  /\ task = "created" /\ stopping = "requested"
  /\ task' = "over" /\ verdict' = "cancelled" /\ stopping' = "awaited"
  /\ UNCHANGED <<owner, running, work, ends>>

(* Mutant: the dispatch catches BaseException, and its loop goes on.        *)
CancelSwallowed ==
  /\ stopping = "requested" /\ stopping' = "cancelled"
  /\ \/ /\ task = "pulling" /\ LeaveTry("cancelled")
        /\ UNCHANGED <<alert, sink, cut>>
     \/ /\ task \in {"emitting", "hung"} /\ NextEmit
        /\ cut' = [cut EXCEPT ![Order[sink]] = @ \cup {alert}]
        /\ UNCHANGED <<verdict, running, handled, raised, delivered, failed>>
  /\ UNCHANGED <<owner, ends>>

CancelRun ==
  /\ task \in {"pulling", "emitting", "hung"} /\ stopping = "requested"
  /\ LeaveTry("cancelled")
  /\ cut' = [s \in Sinks |-> Pending(s)] /\ DropFanOut
  /\ stopping' = "cancelled"
  /\ UNCHANGED <<owner, ends>>

(* Thrown into source.close(), it leaves the finally, and the source as it  *)
(* is.                                                                      *)
CancelClose ==
  /\ task \in {"closing", "stuck"} /\ stopping = "requested"
  /\ task' = "over" /\ verdict' = "cancelled" /\ stopping' = "awaited"
  /\ refused' = refused \cup {Source}
  /\ UNCHANGED <<owner, running, work, open>>

(* Mutant: stop() discards the CancelledError only, and an exception of the *)
(* source's close() keeps it from the sinks.                                *)
TaskAwaitedUnlessRaising ==
  /\ task = "over" /\ stopping = "cancelled" /\ Source \notin refused
  /\ stopping' = "awaited"
  /\ UNCHANGED <<owner, task, verdict, running, work, ends>>

(* `await self._task` returns, or raises what stop() discards, as `await    *)
(* pipeline.run()` raises what _run_simulate lets through once it has closed *)
(* the sinks.                                                               *)
TaskAwaited ==
  /\ task = "over" /\ stopping = "cancelled"
  /\ stopping' = "awaited"
  /\ UNCHANGED <<owner, task, verdict, running, work, ends>>

(* pipeline.close(): the sinks, in their order, each close() awaited with   *)
(* neither a try nor a timeout.  One that raises ends it, and stop() or     *)
(* _run_simulate with it; the sinks from that one on stay as they are.      *)
NextToClose(i) ==
  /\ Order[i] \in open /\ \A j \in 1..(i - 1) : Order[j] \notin open

CloseSink(i) ==
  /\ stopping = "awaited" /\ NextToClose(i)
  /\ open' = open \ {Order[i]}
  /\ stopping' = IF i = Len(Order) THEN "stopped" ELSE "awaited"
  /\ UNCHANGED <<owner, task, verdict, running, work, refused>>

CloseRaises(i) ==
  /\ stopping = "awaited" /\ NextToClose(i) /\ Order[i] \in FlakyClose
  /\ stopping' = "failed" /\ refused' = refused \cup {Order[i]}
  /\ UNCHANGED <<owner, task, verdict, running, work, open>>

CloseHangs(i) ==
  /\ stopping = "awaited" /\ NextToClose(i) /\ Order[i] \in HangingClose
  /\ stopping' = "stuck"
  /\ UNCHANGED <<owner, task, verdict, running, work, ends>>

(* A first Ctrl-C that comes only then is thrown into the close awaited.    *)
InterruptClose(i) ==
  /\ owner = "simulate" /\ verdict # "cancelled"
  /\ stopping \in {"awaited", "stuck"} /\ NextToClose(i)
  /\ stopping' = "failed" /\ refused' = refused \cup {Order[i]}
  /\ UNCHANGED <<owner, task, verdict, running, work, open>>

Init ==
  /\ owner \in Owners
  /\ task = "created" /\ verdict = "none"
  /\ running = FALSE /\ stopping = "no"
  /\ handled = 0 /\ raised = 0 /\ alert = 1 /\ sink = 1
  /\ delivered = [s \in Sinks |-> << >>]
  /\ failed = [s \in Sinks |-> {}]
  /\ cut = [s \in Sinks |-> {}]
  /\ open = Sinks \cup {Source} /\ refused = {}

Cancel == CancelBeforeStart \/ CancelRun \/ CancelClose
Emit(s) == EmitReturns(s) \/ EmitRaises(s) \/ EmitHangs(s)
SourceClose == SourceCloses \/ SourceCloseRaises \/ SourceCloseHangs
SinkClose(i) == CloseSink(i) \/ CloseRaises(i) \/ CloseHangs(i)
Closing ==
  SourceClose \/ TaskAwaited \/ RunReturns \/ \E i \in 1..Len(Order) : SinkClose(i)

Next ==
  \/ Start \/ HandleTrade \/ SourceEnds
  \/ \E s \in Sinks : Emit(s)
  \/ Stop \/ Interrupt \/ Cancel \/ Closing
  \/ \E i \in 1..Len(Order) : InterruptClose(i)

Spec == Init /\ [][Next]_vars

(* The event loop runs what can run and the source goes on yielding; an     *)
(* emit or a close comes to its end, or to hang where it may.  Nobody has   *)
(* to stop the pipeline or to interrupt a close, nor does its source have   *)
(* to end.                                                                  *)
FairSpec ==
  /\ Spec
  /\ WF_vars(Start) /\ WF_vars(HandleTrade) /\ WF_vars(Cancel) /\ WF_vars(Closing)
  /\ \A s \in Sinks : WF_vars(Emit(s))
-----------------------------------------------------------------------------
(* Whatever the other sinks do, every alert the engine raised is, for each  *)
(* sink, in exactly one place: its emit returned, in the order the alerts   *)
(* were raised, or raised an exception, or is still to come, or the         *)
(* cancellation cut it off.                                                 *)
EachAlertOncePerSink ==
  \A s \in Sinks :
    LET places == <<ToSet(delivered[s]), failed[s], Pending(s), cut[s]>>
    IN  /\ \A i, j \in 1..Len(delivered[s]) :
             i < j => delivered[s][i] < delivered[s][j]
        /\ UNION ToSet(places) = 1..raised
        /\ \A i, j \in 1..4 : i # j => places[i] \cap places[j] = {}

(* A cancellation cuts off the end of one trade's fan-out: what a sink is   *)
(* spared, every sink after it in the list is spared too, and no sink got   *)
(* a later alert.  Nothing else ever cuts anything off.                     *)
CutIsATail ==
  \A i \in 1..Len(Order) : \A a \in cut[Order[i]] :
    /\ verdict = "cancelled"
    /\ \A j \in i..Len(Order) : a \in cut[Order[j]]
    /\ \A s \in Sinks : (a + 1)..raised \subseteq cut[s]

(* Whoever misbehaves in close(), the sinks are closed in their order and   *)
(* only by pipeline.close(): at its end all are closed, and if it comes to  *)
(* another end, or to none, just those are left open that follow the one    *)
(* that is to blame, and that one.                                          *)
Ended == {"awaited", "stuck", "stopped", "failed"}
ClosedInOrder ==
  /\ stopping \notin Ended => Sinks \subseteq open
  /\ \A i \in 1..Len(Order) : Order[i] \in open =>
       \A j \in i..Len(Order) : Order[j] \in open
  /\ stopping = "stopped" => open \subseteq {Source}
  /\ stopping = "failed" =>
       \E i \in 1..Len(Order) : NextToClose(i) /\ Order[i] \in refused
  /\ stopping = "stuck" =>
       \E i \in 1..Len(Order) : NextToClose(i) /\ Order[i] \in HangingClose

(* Once its owner has begun to close the sinks the pipeline is done, and    *)
(* /health says so: it takes no trade and no sink is handed another alert,  *)
(* however the closing goes on; no sink is passed over; and a source is     *)
(* left unclosed only by a close() that came out with an exception, or by a *)
(* cancellation before run() began.                                         *)
NothingAfterClose ==
  [][/\ stopping \in Ended => UNCHANGED work /\ task = "over" /\ ~running
     /\ ClosedInOrder
     /\ task = "over" /\ Source \in open =>
          Source \in refused \/ (verdict = "cancelled" /\ handled = 0)]_vars

(* The fan-out to the sinks implements the abstract delivery.               *)
Delivery == INSTANCE AlertDelivery
              WITH Receivers <- Sinks, issued <- raised, got <- delivered
ImplementsDelivery == Delivery!DeliverySpec

(* Each alert raised is tried on each sink sooner or later, unless a        *)
(* cancellation cuts it off or an emit hangs: a sink that raises exceptions *)
(* costs the others nothing.                                                *)
AlertsReachEverySink ==
  \A a \in 1..(MaxTrades * MaxAlerts) :
    (a <= raised) ~>
      \/ task = "hung"
      \/ \A s \in Sinks : a \in ToSet(delivered[s]) \cup failed[s] \cup cut[s]

(* "The pipeline continues if a single sink throws or blocks": it goes on   *)
(* taking trades until it is stopped or its source ends.                    *)
IngestionContinues ==
  <>(handled = MaxTrades \/ verdict # "none" \/ stopping # "no")

(* Stopping comes to its end, all sinks closed or at the exception of one   *)
(* sink's close(), even with a sink that hangs in emit() or a source whose  *)
(* close() raises: the cancellation interrupts the one, and the other is    *)
(* discarded.  Only a close() that never returns can keep it from that: a   *)
(* sink's, or that of a source which no cancellation is on its way to.  Nor *)
(* does `tradewatch simulate` otherwise leave its sinks alone: it ends with *)
(* the run.                                                                 *)
StopCompletes ==
  (stopping # "no" \/ (owner = "simulate" /\ verdict # "none"))
    ~> \/ stopping \in {"stopped", "failed", "stuck"}
       \/ task = "stuck" /\ stopping # "requested"
=============================================================================
