---------------------------- MODULE PipelineProofs ----------------------------
(***************************************************************************)
(* Proofs about the pipeline, for every list of sinks, whichever of them    *)
(* raise exceptions or hang, in emit() or in close(), the source included,  *)
(* any number of trades and of alerts a trade, and a stop or an interrupt   *)
(* at every await.                                                          *)
(***************************************************************************)
EXTENDS Pipeline, SequenceTheorems, TLAPS

Tasks == {"created", "pulling", "emitting", "hung", "closing", "stuck", "over"}
Verdicts == {"none", "ended", "failed", "cancelled"}
Stops == {"no", "requested", "cancelled"} \cup Ended

TypeOK ==
  /\ owner \in Owners /\ task \in Tasks /\ verdict \in Verdicts
  /\ running \in BOOLEAN /\ stopping \in Stops
  /\ handled \in Nat /\ raised \in Nat
  /\ alert \in Nat \ {0} /\ sink \in 1..Len(Order)
  /\ delivered \in [Sinks -> Seq(Nat)]
  /\ failed \in [Sinks -> SUBSET Nat] /\ cut \in [Sinks -> SUBSET Nat]
  /\ open \subseteq Sinks \cup {Source} /\ refused \subseteq Sinks \cup {Source}

(* Where the two loops are: inside them exactly while an emit is awaited,   *)
(* and then at an alert that was raised.                                    *)
LoopsInv ==
  /\ alert <= raised + 1
  /\ task \in {"emitting", "hung"} <=> alert <= raised
  /\ alert = raised + 1 => sink = 1

(* One sink: the alerts its emit returned for, in order, and all of the     *)
(* raised ones in one place each.                                           *)
Ascending(q) == \A i, j \in 1..Len(q) : i < j => q[i] < q[j]

SinkInv(s) ==
  /\ Ascending(delivered[s])
  /\ ToSet(delivered[s]) \cup failed[s] \cup cut[s] = (1..raised) \ Pending(s)
  /\ ToSet(delivered[s]) \cap failed[s] = {}
  /\ ToSet(delivered[s]) \cap cut[s] = {}
  /\ failed[s] \cap cut[s] = {}

(* How the end comes about: the verdict is there once the loop was left,    *)
(* and the sinks are closed only behind a task that is over.                *)
EndInv ==
  /\ verdict # "none" <=> task \in {"closing", "stuck", "over"}
  /\ stopping \in Ended => task = "over"
  /\ task \in {"created", "closing", "stuck", "over"} => ~running
  /\ task = "created" => handled = 0
  /\ task = "over" /\ Source \in open =>
       Source \in refused \/ (verdict = "cancelled" /\ handled = 0)

PipelineInv ==
  /\ TypeOK /\ LoopsInv /\ (\A s \in Sinks : SinkInv(s))
  /\ EndInv /\ ClosedInOrder /\ CutIsATail
-----------------------------------------------------------------------------
(* What appending a greater number does to an ascending sequence.           *)
LEMMA AscendingAppend ==
  ASSUME NEW q \in Seq(Nat), NEW n \in Nat, Ascending(q),
         \A a \in ToSet(q) : a < n
  PROVE  /\ Append(q, n) \in Seq(Nat) /\ Ascending(Append(q, n))
         /\ ToSet(Append(q, n)) = ToSet(q) \cup {n}
<1> DEFINE r == Append(q, n)
<1>1. /\ Len(q) \in Nat /\ r \in Seq(Nat) /\ Len(r) = Len(q) + 1
      /\ \A i \in 1..Len(q) : r[i] = q[i] /\ q[i] \in ToSet(q) /\ q[i] \in Nat
      /\ r[Len(q) + 1] = n
  BY AppendProperties, LenProperties, ElementOfSeq DEF ToSet
<1>2. DOMAIN q = 1..Len(q) /\ DOMAIN r = 1..(Len(q) + 1)
  BY <1>1, LenProperties
<1> HIDE DEF r
<1>3. Ascending(r)
  <2> SUFFICES ASSUME NEW i \in 1..Len(r), NEW j \in 1..Len(r), i < j
               PROVE  r[i] < r[j]
    BY DEF Ascending
  <2>1. i \in 1..Len(q) /\ r[i] = q[i] /\ q[i] \in ToSet(q)
    BY <1>1
  <2>2. CASE j = Len(q) + 1
    BY <1>1, <2>1, <2>2
  <2>3. CASE j # Len(q) + 1
    <3>1. j \in 1..(Len(q) + 1) /\ Len(q) \in Nat
      BY <1>1
    <3>2. j \in 1..Len(q)
      BY <2>3, <3>1
    <3>3. r[j] = q[j]
      BY <1>1, <3>2
    <3> QED BY <2>1, <3>2, <3>3 DEF Ascending
  <2> QED BY <2>2, <2>3
<1>4. ToSet(r) = ToSet(q) \cup {n}
  <2>1. ASSUME NEW a \in ToSet(r) PROVE a \in ToSet(q) \cup {n}
    <3>1. PICK i \in DOMAIN r : a = r[i]
      BY <2>1, Zenon DEF ToSet
    <3>2. i \in 1..Len(q) \/ i = Len(q) + 1
      BY <1>1, <1>2, <3>1
    <3> QED BY <1>1, <3>1, <3>2, Zenon
  <2>2. ASSUME NEW a \in ToSet(q) PROVE a \in ToSet(r)
    <3>1. PICK i \in DOMAIN q : a = q[i]
      BY <2>2, Zenon DEF ToSet
    <3>2. i \in DOMAIN r /\ r[i] = a
      BY <1>1, <1>2, <3>1
    <3> QED BY <3>2, Zenon DEF ToSet
  <2>3. n \in ToSet(r)
    <3>1. Len(q) + 1 \in DOMAIN r /\ r[Len(q) + 1] = n
      BY <1>1, <1>2
    <3> QED BY <3>1, Zenon DEF ToSet
  <2> QED BY <2>1, <2>2, <2>3
<1> QED BY <1>1, <1>3, <1>4 DEF r

(* The sinks are the elements of the list, each at one place of it.         *)
LEMMA PlacesOfSinks ==
  /\ Len(Order) \in Nat \ {0}
  /\ \A i \in 1..Len(Order) : Order[i] \in Sinks
  /\ \A s \in Sinks : \E i \in 1..Len(Order) : Order[i] = s
  /\ \A i, j \in 1..Len(Order) : Order[i] = Order[j] => i = j
<1>1. Order \in Seq(Sinks) /\ Order # << >>
  BY PipelineAssumption
<1>2. Len(Order) \in Nat /\ DOMAIN Order = 1..Len(Order)
  BY <1>1, LenProperties
<1>3. Len(Order) # 0
  BY <1>1, EmptySeq
<1>4. \A s \in Sinks : \E i \in 1..Len(Order) : Order[i] = s
  BY <1>2 DEF Sinks, ToSet
<1>5. \A i \in 1..Len(Order) : Order[i] \in Sinks
  BY <1>2 DEF Sinks, ToSet
<1> QED BY <1>2, <1>3, <1>4, <1>5, PipelineAssumption

(* What is to come for a sink lies among the alerts raised, from the one in *)
(* hand on, and the greater ones are to come for all.                       *)
LEMMA PendingIsAhead ==
  ASSUME TypeOK, NEW s \in Sinks
  PROVE  /\ Pending(s) \subseteq alert..raised /\ Pending(s) \subseteq 1..raised
         /\ (alert + 1)..raised \subseteq Pending(s)
         /\ alert > raised => Pending(s) = {}
         /\ sink = 1 => Pending(s) = alert..raised
<1>1. alert \in Nat \ {0} /\ raised \in Nat
  BY DEF TypeOK
<1>2. \E i \in 1..Len(Order) : Order[i] = s
  BY PlacesOfSinks
<1> QED BY <1>1, <1>2 DEF Pending

(* The next emit: the alert in hand is no longer to come for the sink that  *)
(* was awaited, and nothing changes for the others.                         *)
LEMMA NextEmitPending ==
  ASSUME TypeOK, LoopsInv, alert <= raised, NextEmit, UNCHANGED raised
  PROVE  /\ alert' \in Nat \ {0} /\ sink' \in 1..Len(Order)
         /\ task' \in {"pulling", "emitting"}
         /\ LoopsInv'
         /\ \A s \in Sinks :
              Pending(s)' = IF s = Order[sink] THEN Pending(s) \ {alert} ELSE Pending(s)
<1>1. /\ alert \in Nat \ {0} /\ raised \in Nat /\ sink \in 1..Len(Order)
      /\ Len(Order) \in Nat \ {0}
  BY PlacesOfSinks DEF TypeOK
<1>2. CASE sink < Len(Order)
  <2>1. sink' = sink + 1 /\ alert' = alert
    BY <1>2 DEF NextEmit
  <2>2. task' = "emitting"
    BY <1>1, <2>1 DEF NextEmit
  <2>3. LoopsInv'
    BY <1>1, <2>1, <2>2 DEF LoopsInv
  <2>4. ASSUME NEW s \in Sinks
        PROVE  Pending(s)' = IF s = Order[sink] THEN Pending(s) \ {alert} ELSE Pending(s)
    <3>1. PICK k \in 1..Len(Order) : Order[k] = s
      BY PlacesOfSinks
    <3>2. \A i \in 1..Len(Order) : Order[i] = s <=> i = k
      BY <3>1, PlacesOfSinks
    <3>3. Order[sink] = s <=> sink = k
      BY <1>1, <3>2
    <3>4. (\E i \in sink..Len(Order) : Order[i] = s) <=> k >= sink
      BY <1>1, <3>1, <3>2
    <3>5. (\E i \in sink'..Len(Order) : Order[i] = s) <=> k > sink
      BY <1>1, <2>1, <3>1, <3>2
    <3>6. Pending(s) = {a \in alert..raised : a = alert => k >= sink}
      BY <3>4 DEF Pending
    <3>7. Pending(s)' = {a \in alert..raised : a = alert => k > sink}
      BY <2>1, <3>5 DEF Pending
    <3>8. CASE s = Order[sink]
      BY <1>1, <3>3, <3>6, <3>7, <3>8
    <3>9. CASE s # Order[sink]
      <4>1. k >= sink <=> k > sink
        BY <1>1, <3>1, <3>3, <3>9
      <4> QED BY <3>6, <3>7, <3>9, <4>1
    <3> QED BY <3>8, <3>9
  <2>5. sink' \in 1..Len(Order)
    BY <1>1, <1>2, <2>1
  <2> QED BY <1>1, <2>1, <2>2, <2>3, <2>4, <2>5
<1>3. CASE ~(sink < Len(Order))
  <2>1. sink = Len(Order) /\ sink' = 1 /\ alert' = alert + 1
    BY <1>1, <1>3 DEF NextEmit
  <2>2. task' = IF alert + 1 > raised THEN "pulling" ELSE "emitting"
    BY <2>1 DEF NextEmit
  <2>3. LoopsInv'
    BY <1>1, <2>1, <2>2 DEF LoopsInv
  <2>4. ASSUME NEW s \in Sinks
        PROVE  Pending(s)' = IF s = Order[sink] THEN Pending(s) \ {alert} ELSE Pending(s)
    <3>1. PICK k \in 1..Len(Order) : Order[k] = s
      BY PlacesOfSinks
    <3>2. (\E i \in sink..Len(Order) : Order[i] = s) <=> Order[sink] = s
      BY <1>1, <2>1
    <3>3. Pending(s) = {a \in alert..raised : a = alert => Order[sink] = s}
      BY <3>2 DEF Pending
    <3>4. Pending(s)' = (alert + 1)..raised
      BY <2>1, <3>1 DEF Pending
    <3>5. CASE s = Order[sink]
      BY <1>1, <3>3, <3>4, <3>5
    <3>6. CASE s # Order[sink]
      <4>1. Pending(s) = {a \in alert..raised : a # alert}
        BY <3>3, <3>6
      <4>2. {a \in alert..raised : a # alert} = (alert + 1)..raised
        BY <1>1
      <4> QED BY <3>4, <3>6, <4>1, <4>2
    <3> QED BY <3>5, <3>6
  <2> QED BY <1>1, <2>1, <2>2, <2>3, <2>4
<1> QED BY <1>2, <1>3
-----------------------------------------------------------------------------
(* Before its first step the pipeline has nothing in hand.                  *)
LEMMA InitEstablishesInv == Init => PipelineInv
<1> SUFFICES ASSUME Init PROVE PipelineInv
  OBVIOUS
<1>1. Len(Order) \in Nat \ {0}
  BY PlacesOfSinks
<1>2. TypeOK
  <2>1. << >> \in Seq(Nat) /\ 1 \in 1..Len(Order)
    BY <1>1, EmptySeq
  <2>2. delivered \in [Sinks -> Seq(Nat)]
    BY <2>1 DEF Init
  <2>3. failed \in [Sinks -> SUBSET Nat] /\ cut \in [Sinks -> SUBSET Nat]
    BY DEF Init
  <2>4. /\ task \in Tasks /\ verdict \in Verdicts /\ stopping \in Stops
        /\ running \in BOOLEAN
    BY DEF Init, Tasks, Verdicts, Stops
  <2>5. /\ owner \in Owners /\ handled \in Nat /\ raised \in Nat
        /\ alert \in Nat \ {0} /\ sink \in 1..Len(Order)
        /\ open \subseteq Sinks \cup {Source} /\ refused \subseteq Sinks \cup {Source}
    BY <2>1 DEF Init
  <2> QED BY <2>2, <2>3, <2>4, <2>5 DEF TypeOK
<1>3. LoopsInv
  BY DEF Init, LoopsInv
<1>4. ASSUME NEW s \in Sinks PROVE SinkInv(s)
  <2>1. Pending(s) = {}
    BY <1>2, PendingIsAhead DEF Init
  <2>2. delivered[s] = << >> /\ failed[s] = {} /\ cut[s] = {} /\ raised = 0
    BY DEF Init
  <2>3. Ascending(<< >>) /\ ToSet(<< >>) = {}
    BY DEF Ascending, ToSet
  <2> QED BY <2>1, <2>2, <2>3 DEF SinkInv
<1>5. EndInv
  BY DEF Init, EndInv, Ended
<1>6. CutIsATail
  BY PlacesOfSinks DEF Init, CutIsATail
<1>7. ClosedInOrder
  <2>1. /\ stopping = "no" /\ Sinks \subseteq open
        /\ \A i \in 1..Len(Order) : Order[i] \in open
    BY PlacesOfSinks DEF Init
  <2>2. \A i \in 1..Len(Order) : \A j \in i..Len(Order) : j \in 1..Len(Order)
    BY <1>1
  <2> QED BY <2>1, <2>2 DEF ClosedInOrder
<1> QED BY <1>2, <1>3, <1>4, <1>5, <1>6, <1>7 DEF PipelineInv

(* What neither closes a sink nor brings the closing of the sinks to its    *)
(* end leaves them closed in their order.                                   *)
LEMMA OrderUntouched ==
  ASSUME ClosedInOrder, TypeOK,
         open' \subseteq open, open \ {Source} \subseteq open', refused \subseteq refused',
         \/ stopping' = stopping
         \/ /\ stopping' \notin {"stopped", "failed", "stuck"}
            /\ stopping \in Ended => stopping' \in Ended
  PROVE  ClosedInOrder'
<1>1. \A s \in Sinks : s \in open' <=> s \in open
  BY PipelineAssumption
<1>2. \A i \in 1..Len(Order) : Order[i] \in Sinks
  BY PlacesOfSinks
<1>3. Len(Order) \in Nat
  BY PlacesOfSinks
<1>4. \A i \in 1..Len(Order) : Order[i] \in open' <=> Order[i] \in open
  BY <1>1, <1>2
<1>5. /\ \A i \in 1..Len(Order) : \A j \in 1..(i - 1) : j \in 1..Len(Order)
      /\ \A i \in 1..Len(Order) : \A j \in i..Len(Order) : j \in 1..Len(Order)
  BY <1>3
<1>6. \A i \in 1..Len(Order) : NextToClose(i) => NextToClose(i)'
  BY <1>4, <1>5 DEF NextToClose
<1>7. \A i \in 1..Len(Order) : Order[i] \in open' =>
        \A j \in i..Len(Order) : Order[j] \in open'
  BY <1>4, <1>5 DEF ClosedInOrder
<1>8. stopping' \notin Ended => Sinks \subseteq open'
  BY <1>1 DEF ClosedInOrder
<1>9. stopping' = "stopped" => open' \subseteq {Source}
  BY DEF ClosedInOrder
<1>10. stopping' = "failed" =>
         \E i \in 1..Len(Order) : NextToClose(i)' /\ Order[i] \in refused'
  BY <1>6 DEF ClosedInOrder
<1>11. stopping' = "stuck" =>
         \E i \in 1..Len(Order) : NextToClose(i)' /\ Order[i] \in HangingClose
  BY <1>6 DEF ClosedInOrder
<1> QED BY <1>7, <1>8, <1>9, <1>10, <1>11 DEF ClosedInOrder

(* The close of a sink that returns leaves the sinks after it open, and if  *)
(* it was the last one, none.                                               *)
LEMMA CloseSinkKeepsOrder ==
  ASSUME ClosedInOrder, TypeOK, NEW i \in 1..Len(Order), CloseSink(i)
  PROVE  ClosedInOrder'
<1>1. /\ stopping = "awaited" /\ open' = open \ {Order[i]}
      /\ stopping' = IF i = Len(Order) THEN "stopped" ELSE "awaited"
      /\ Order[i] \in open /\ \A j \in 1..(i - 1) : Order[j] \notin open
  BY DEF CloseSink, NextToClose
<1>2. Len(Order) \in Nat
  BY PlacesOfSinks
<1>3. ASSUME NEW k \in 1..Len(Order), Order[k] \in open', NEW j \in k..Len(Order)
      PROVE  Order[j] \in open'
  <2>1. Order[k] \in open /\ Order[j] \in open /\ k # i
    BY <1>1, <1>3 DEF ClosedInOrder
  <2>2. k \notin 1..(i - 1)
    BY <1>1, <2>1
  <2>3. j # i
    BY <1>2, <2>1, <2>2
  <2>4. j \in 1..Len(Order)
    BY <1>2
  <2>5. Order[j] # Order[i]
    BY <2>3, <2>4, PlacesOfSinks
  <2> QED BY <1>1, <2>1, <2>5
<1>4. ASSUME i = Len(Order) PROVE open' \subseteq {Source}
  <2>1. ASSUME NEW s \in Sinks PROVE s \notin open'
    <3>1. PICK j \in 1..Len(Order) : Order[j] = s
      BY PlacesOfSinks
    <3>2. j = i \/ j \in 1..(i - 1)
      BY <1>2, <1>4
    <3> QED BY <1>1, <3>1, <3>2
  <2> QED BY <1>1, <2>1 DEF TypeOK
<1> QED BY <1>1, <1>3, <1>4 DEF ClosedInOrder, Ended

(* A sink's close that comes to another end, or to none, leaves the sinks   *)
(* from that one on as they are.                                            *)
LEMMA CloseEndsElsewhere ==
  ASSUME ClosedInOrder, NEW i \in 1..Len(Order), NextToClose(i), open' = open,
         \/ stopping' = "failed" /\ Order[i] \in refused'
         \/ stopping' = "stuck" /\ Order[i] \in HangingClose
  PROVE  ClosedInOrder'
<1>1. NextToClose(i)'
  BY DEF NextToClose
<1>2. \A k \in 1..Len(Order) : Order[k] \in open' =>
        \A j \in k..Len(Order) : Order[j] \in open'
  BY DEF ClosedInOrder
<1> QED BY <1>1, <1>2 DEF ClosedInOrder, Ended

(* A step that leaves the fan-out alone leaves every sink's account alone,  *)
(* and what was cut off stays a tail unless the verdict is taken back.      *)
LEMMA WorkUntouched ==
  ASSUME PipelineInv, UNCHANGED work, verdict = "cancelled" => verdict' = "cancelled"
  PROVE  (\A s \in Sinks : SinkInv(s))' /\ CutIsATail'
<1>1. /\ raised' = raised /\ alert' = alert /\ sink' = sink
      /\ delivered' = delivered /\ failed' = failed /\ cut' = cut
  BY DEF work
<1>2. ASSUME NEW s \in Sinks PROVE SinkInv(s)'
  <2>1. Pending(s)' = Pending(s)
    BY <1>1 DEF Pending
  <2> QED BY <1>1, <2>1 DEF SinkInv, PipelineInv
<1>3. CutIsATail'
  BY <1>1 DEF CutIsATail, PipelineInv
<1> QED BY <1>2, <1>3

(* Nothing is cut off before the cancellation.                              *)
LEMMA NothingCutYet ==
  ASSUME PipelineInv, verdict # "cancelled", NEW s \in Sinks
  PROVE  cut[s] = {}
<1>1. PICK i \in 1..Len(Order) : Order[i] = s
  BY PlacesOfSinks
<1> QED BY <1>1 DEF PipelineInv, CutIsATail

(* What the return and the failure of an emit have in common: the sink's    *)
(* account gains the alert in hand on the side S of those given to it.      *)
LEMMA AlertInHandIsPending ==
  ASSUME TypeOK, LoopsInv, task \in {"emitting", "hung"}
  PROVE  alert \in Pending(Order[sink]) /\ alert <= raised /\ Order[sink] \in Sinks
<1>1. alert \in Nat \ {0} /\ raised \in Nat /\ sink \in 1..Len(Order)
      /\ Len(Order) \in Nat /\ alert <= raised
  BY PlacesOfSinks DEF TypeOK, LoopsInv
<1>2. sink \in sink..Len(Order) /\ alert \in alert..raised
  BY <1>1
<1> QED BY <1>1, <1>2, PlacesOfSinks DEF Pending

(* A new trade's alerts are all still to come, at every sink.               *)
LEMMA HandleTradeKeepsInv ==
  ASSUME PipelineInv, HandleTrade
  PROVE  PipelineInv'
<1>1. /\ task = "pulling" /\ verdict = "none" /\ alert = raised + 1 /\ sink = 1
      /\ raised \in Nat /\ handled \in Nat
  BY DEF PipelineInv, HandleTrade, TypeOK, LoopsInv, EndInv
<1>2. PICK n \in 0..MaxAlerts : raised' = raised + n
  BY DEF HandleTrade
<1>3. raised' \in Nat /\ raised' >= raised /\ alert' = alert /\ sink' = sink
  BY <1>1, <1>2, PipelineAssumption DEF HandleTrade
<1>4. TypeOK'
  BY <1>1, <1>3 DEF PipelineInv, HandleTrade, TypeOK, Tasks, ends
<1>5. LoopsInv'
  BY <1>1, <1>3 DEF HandleTrade, LoopsInv
<1>6. ASSUME NEW s \in Sinks PROVE SinkInv(s)'
  <2>1. cut[s] = {}
    BY <1>1, NothingCutYet
  <2>2. Pending(s) = {}
    BY <1>1, PendingIsAhead DEF PipelineInv
  <2>3. Pending(s)' = (raised + 1)..raised'
    BY <1>1, <1>3, <1>4, PlacesOfSinks DEF Pending
  <2>4. (1..raised') \ Pending(s)' = (1..raised) \ Pending(s)
    BY <1>1, <1>3, <2>2, <2>3
  <2>5. UNCHANGED <<delivered, failed, cut>>
    BY DEF HandleTrade
  <2> QED BY <2>4, <2>5 DEF SinkInv, PipelineInv
<1>7. EndInv'
  BY <1>1 DEF PipelineInv, HandleTrade, EndInv, ends
<1>8. CutIsATail'
  <2>1. ASSUME NEW i \in 1..Len(Order) PROVE cut'[Order[i]] = {}
    BY <1>1, NothingCutYet, PlacesOfSinks DEF HandleTrade
  <2> QED BY <2>1 DEF CutIsATail
<1>9. ClosedInOrder'
  <2>1. ClosedInOrder /\ TypeOK /\ open' = open /\ refused' = refused /\ stopping' = stopping
    BY DEF PipelineInv, HandleTrade, ends
  <2> QED BY <2>1, OrderUntouched
<1> QED BY <1>4, <1>5, <1>6, <1>7, <1>8, <1>9 DEF PipelineInv

(* One emit that came to its end, whichever way: the account of the sink    *)
(* that was awaited gains the alert in hand, the others' stay as they are.  *)
LEMMA EmitDoneKeepsInv ==
  ASSUME PipelineInv, task = "emitting", EmitDone, NEW s \in Sinks, Order[sink] = s,
         \/ /\ delivered' = [delivered EXCEPT ![s] = Append(@, alert)]
            /\ failed' = failed
         \/ /\ failed' = [failed EXCEPT ![s] = @ \cup {alert}]
            /\ delivered' = delivered
  PROVE  PipelineInv'
<1>1. TypeOK /\ LoopsInv /\ SinkInv(s) /\ EndInv
  BY DEF PipelineInv
<1>2. /\ alert \in Nat \ {0} /\ raised \in Nat /\ alert <= raised
      /\ delivered[s] \in Seq(Nat) /\ failed[s] \subseteq Nat
  BY <1>1 DEF TypeOK, LoopsInv
<1>3. /\ UNCHANGED <<owner, verdict, running, stopping, handled, raised, cut, open, refused>>
      /\ NextEmit
  BY DEF EmitDone, ends
<1>4. /\ alert' \in Nat \ {0} /\ sink' \in 1..Len(Order)
      /\ task' \in {"pulling", "emitting"} /\ LoopsInv'
      /\ \A t \in Sinks :
           Pending(t)' = IF t = s THEN Pending(t) \ {alert} ELSE Pending(t)
  BY <1>1, <1>2, <1>3, NextEmitPending
<1>5. verdict = "none"
  BY <1>1 DEF EndInv
<1>6. /\ alert \in Pending(s) /\ Pending(s) \subseteq alert..raised
      /\ Pending(s) \subseteq 1..raised /\ (alert + 1)..raised \subseteq Pending(s)
  BY <1>1, AlertInHandIsPending, PendingIsAhead
<1>7. \A a \in ToSet(delivered[s]) : a < alert
  <2> TAKE a \in ToSet(delivered[s])
  <2>1. a \in (1..raised) \ Pending(s)
    BY <1>1 DEF SinkInv
  <2>2. a \notin alert..raised
    BY <1>2, <1>6, <2>1
  <2> QED BY <1>2, <2>1, <2>2
<1>8. /\ Append(delivered[s], alert) \in Seq(Nat)
      /\ Ascending(Append(delivered[s], alert))
      /\ ToSet(Append(delivered[s], alert)) = ToSet(delivered[s]) \cup {alert}
  BY <1>1, <1>2, <1>7, AscendingAppend DEF SinkInv
<1>9. delivered' \in [Sinks -> Seq(Nat)] /\ failed' \in [Sinks -> SUBSET Nat]
  <2>1. delivered \in [Sinks -> Seq(Nat)] /\ failed \in [Sinks -> SUBSET Nat]
    BY <1>1 DEF TypeOK
  <2>2. failed[s] \cup {alert} \in SUBSET Nat
    BY <1>2
  <2> QED BY <1>8, <2>1, <2>2
<1>10. TypeOK'
  BY <1>1, <1>3, <1>4, <1>9 DEF TypeOK, Tasks
<1>11. ASSUME NEW t \in Sinks PROVE SinkInv(t)'
  <2>1. CASE t # s
    <3>1. delivered'[t] = delivered[t] /\ failed'[t] = failed[t] /\ cut'[t] = cut[t]
      BY <1>1, <1>3, <2>1 DEF TypeOK
    <3>2. Pending(t)' = Pending(t) /\ raised' = raised
      BY <1>3, <1>4, <2>1
    <3> QED BY <3>1, <3>2 DEF SinkInv, PipelineInv
  <2>2. CASE t = s
    <3> DEFINE D == ToSet(delivered[s])
               F == failed[s]
    <3>1. cut'[s] = cut[s] /\ cut[s] = {} /\ raised' = raised
      BY <1>3, <1>5, NothingCutYet
    <3>2. Pending(s)' = Pending(s) \ {alert}
      BY <1>4
    <3>3. D \cup F = (1..raised) \ Pending(s) /\ D \cap F = {}
          /\ alert \notin D /\ alert \notin F /\ Ascending(delivered[s])
      BY <1>1, <1>6, <3>1 DEF SinkInv
    <3>4. (1..raised) \ (Pending(s) \ {alert}) = ((1..raised) \ Pending(s)) \cup {alert}
      BY <1>6
    <3>5. CASE delivered'[s] = Append(delivered[s], alert) /\ failed'[s] = failed[s]
      <4>1. ToSet(delivered'[s]) = D \cup {alert} /\ Ascending(delivered'[s])
        BY <1>8, <3>5
      <4> HIDE DEF D, F
      <4>2. ToSet(delivered'[s]) \cup failed'[s] = (1..raised) \ (Pending(s) \ {alert})
        BY <3>3, <3>4, <3>5, <4>1 DEF F
      <4>3. ToSet(delivered'[s]) \cap failed'[s] = {}
        BY <3>3, <3>5, <4>1 DEF F
      <4> QED BY <2>2, <3>1, <3>2, <4>1, <4>2, <4>3 DEF SinkInv
    <3>6. CASE delivered'[s] = delivered[s] /\ failed'[s] = failed[s] \cup {alert}
      <4> HIDE DEF D, F
      <4>1. ToSet(delivered'[s]) = D /\ failed'[s] = F \cup {alert}
            /\ Ascending(delivered'[s])
        BY <3>3, <3>6 DEF D, F
      <4>2. ToSet(delivered'[s]) \cup failed'[s] = (1..raised) \ (Pending(s) \ {alert})
        BY <3>3, <3>4, <4>1
      <4>3. ToSet(delivered'[s]) \cap failed'[s] = {}
        BY <3>3, <4>1
      <4> QED BY <2>2, <3>1, <3>2, <4>1, <4>2, <4>3 DEF SinkInv
    <3> QED BY <1>1, <3>5, <3>6 DEF TypeOK
  <2> QED BY <2>1, <2>2
<1>12. EndInv'
  BY <1>1, <1>3, <1>4, <1>5 DEF EndInv
<1>13. CutIsATail'
  BY <1>3 DEF PipelineInv, CutIsATail
<1>14. ClosedInOrder'
  BY <1>1, <1>3, OrderUntouched DEF PipelineInv
<1> QED BY <1>4, <1>10, <1>11, <1>12, <1>13, <1>14 DEF PipelineInv

(* The cancellation takes all that is still to come, which is a tail.       *)
LEMMA CancelRunKeepsInv ==
  ASSUME PipelineInv, CancelRun
  PROVE  PipelineInv'
<1>1. TypeOK /\ LoopsInv /\ EndInv
  BY DEF PipelineInv
<1>2. /\ verdict = "none" /\ verdict' = "cancelled" /\ task' = "closing"
      /\ alert' = raised + 1 /\ sink' = 1 /\ running' = FALSE
      /\ stopping = "requested" /\ stopping' = "cancelled"
      /\ cut' = [t \in Sinks |-> Pending(t)]
      /\ UNCHANGED <<owner, handled, raised, delivered, failed, open, refused>>
  BY <1>1 DEF CancelRun, LeaveTry, DropFanOut, EndInv, ends
<1>3. /\ alert \in Nat \ {0} /\ raised \in Nat /\ sink \in 1..Len(Order)
      /\ Len(Order) \in Nat \ {0}
  BY <1>1, PlacesOfSinks DEF TypeOK
<1>4. \A t \in Sinks : Pending(t) \subseteq Nat
  BY <1>3 DEF Pending
<1>5. TypeOK'
  <2>1. cut' \in [Sinks -> SUBSET Nat]
    BY <1>2, <1>4
  <2>2. alert' \in Nat \ {0} /\ sink' \in 1..Len(Order)
    BY <1>2, <1>3
  <2>3. task' \in Tasks /\ verdict' \in Verdicts /\ stopping' \in Stops
    BY <1>2 DEF Tasks, Verdicts, Stops
  <2> QED BY <1>1, <1>2, <2>1, <2>2, <2>3 DEF TypeOK
<1>6. LoopsInv'
  BY <1>2, <1>3 DEF LoopsInv
<1>7. ASSUME NEW t \in Sinks PROVE SinkInv(t)'
  <2>1. Pending(t)' = {}
    BY <1>2, <1>3 DEF Pending
  <2>2. cut[t] = {} /\ cut'[t] = Pending(t) /\ Pending(t) \subseteq 1..raised
    BY <1>1, <1>2, NothingCutYet, PendingIsAhead
  <2>3. SinkInv(t)
    BY DEF PipelineInv
  <2> QED BY <1>2, <2>1, <2>2, <2>3 DEF SinkInv
<1>8. EndInv'
  BY <1>2 DEF EndInv, Ended
<1>9. ClosedInOrder'
  BY <1>1, <1>2, OrderUntouched DEF PipelineInv, Ended
<1>10. CutIsATail'
  <2> SUFFICES ASSUME NEW i \in 1..Len(Order), NEW a \in Pending(Order[i])
               PROVE  /\ \A j \in i..Len(Order) : a \in Pending(Order[j])
                      /\ \A t \in Sinks : (a + 1)..raised \subseteq Pending(t)
    <3>1. \A t \in Sinks : cut'[t] = Pending(t)
      BY <1>2
    <3>2. \A i \in 1..Len(Order) : \A j \in i..Len(Order) : Order[j] \in Sinks
      BY <1>3, PlacesOfSinks
    <3>3. \A i \in 1..Len(Order) : Order[i] \in Sinks
      BY PlacesOfSinks
    <3> QED BY <1>2, <3>1, <3>2, <3>3 DEF CutIsATail
  <2>1. a \in alert..raised
    BY <1>1, PendingIsAhead, PlacesOfSinks
  <2>2. ASSUME NEW j \in i..Len(Order) PROVE a \in Pending(Order[j])
    <3>1. a = alert => i >= sink
      BY <1>3, PlacesOfSinks DEF Pending
    <3>2. a = alert => j \in sink..Len(Order)
      BY <1>3, <3>1
    <3> QED BY <2>1, <3>2 DEF Pending
  <2>3. ASSUME NEW t \in Sinks PROVE (a + 1)..raised \subseteq Pending(t)
    <3>1. (alert + 1)..raised \subseteq Pending(t)
      BY <1>1, PendingIsAhead
    <3> QED BY <1>3, <2>1, <3>1
  <2> QED BY <2>2, <2>3
<1> QED BY <1>5, <1>6, <1>7, <1>8, <1>9, <1>10 DEF PipelineInv

(* The other steps leave the fan-out alone.                                 *)
LEMMA ControlKeepsInv ==
  ASSUME PipelineInv, UNCHANGED work,
         \/ Start \/ SourceEnds \/ (\E s \in Sinks : EmitHangs(s))
         \/ Stop \/ Interrupt \/ CancelBeforeStart \/ CancelClose
         \/ SourceClose \/ TaskAwaited \/ RunReturns \/ UNCHANGED vars
  PROVE  PipelineInv'
<1>1. TypeOK /\ LoopsInv /\ EndInv /\ ClosedInOrder
  BY DEF PipelineInv
<1> USE DEF TypeOK, LoopsInv, EndInv, work, ends, Tasks, Verdicts, Stops, Ended
<1> DEFINE OpenKept ==
     /\ open' \subseteq open /\ open \ {Source} \subseteq open' /\ refused \subseteq refused'
     /\ \/ stopping' = stopping
        \/ /\ stopping' \notin {"stopped", "failed", "stuck"}
           /\ stopping \in Ended => stopping' \in Ended
     /\ verdict = "cancelled" => verdict' = "cancelled"
<1>2. ASSUME TypeOK', LoopsInv', EndInv', OpenKept PROVE PipelineInv'
  <2>1. (\A s \in Sinks : SinkInv(s))' /\ CutIsATail'
    BY <1>2, WorkUntouched
  <2>2. ClosedInOrder'
    BY <1>1, <1>2, OrderUntouched
  <2> QED BY <1>2, <2>1, <2>2 DEF PipelineInv
<1>3. CASE Start
  <2>1. TypeOK' /\ LoopsInv' /\ EndInv'
    BY <1>1, <1>3 DEF Start
  <2>2. OpenKept
    BY <1>1, <1>3 DEF Start
  <2> QED BY <1>2, <2>1, <2>2
<1>4. CASE SourceEnds
  <2>1. TypeOK' /\ LoopsInv' /\ EndInv'
    BY <1>1, <1>4 DEF SourceEnds, LeaveTry
  <2>2. OpenKept
    BY <1>1, <1>4 DEF SourceEnds, LeaveTry
  <2> QED BY <1>2, <2>1, <2>2
<1>5. CASE \E s \in Sinks : EmitHangs(s)
  <2>1. TypeOK' /\ LoopsInv' /\ EndInv'
    BY <1>1, <1>5 DEF EmitHangs
  <2>2. OpenKept
    BY <1>1, <1>5 DEF EmitHangs
  <2> QED BY <1>2, <2>1, <2>2
<1>6. CASE Stop
  <2>1. TypeOK' /\ LoopsInv' /\ EndInv'
    BY <1>1, <1>6 DEF Stop
  <2>2. OpenKept
    BY <1>1, <1>6 DEF Stop
  <2> QED BY <1>2, <2>1, <2>2
<1>7. CASE Interrupt
  <2>1. TypeOK' /\ LoopsInv' /\ EndInv'
    BY <1>1, <1>7 DEF Interrupt
  <2>2. OpenKept
    BY <1>1, <1>7 DEF Interrupt
  <2> QED BY <1>2, <2>1, <2>2
<1>8. CASE CancelBeforeStart
  <2>1. TypeOK' /\ LoopsInv' /\ EndInv'
    BY <1>1, <1>8 DEF CancelBeforeStart
  <2>2. OpenKept
    BY <1>1, <1>8 DEF CancelBeforeStart
  <2> QED BY <1>2, <2>1, <2>2
<1>9. CASE CancelClose
  <2>1. TypeOK' /\ LoopsInv' /\ EndInv'
    BY <1>1, <1>9 DEF CancelClose
  <2>2. OpenKept
    BY <1>1, <1>9 DEF CancelClose
  <2> QED BY <1>2, <2>1, <2>2
<1>10. CASE SourceCloses
  <2>1. TypeOK' /\ LoopsInv' /\ EndInv'
    BY <1>1, <1>10 DEF SourceCloses
  <2>2. OpenKept
    BY <1>1, <1>10 DEF SourceCloses
  <2> QED BY <1>2, <2>1, <2>2
<1>11. CASE SourceCloseRaises
  <2>1. TypeOK' /\ LoopsInv' /\ EndInv'
    BY <1>1, <1>11 DEF SourceCloseRaises
  <2>2. OpenKept
    BY <1>1, <1>11 DEF SourceCloseRaises
  <2> QED BY <1>2, <2>1, <2>2
<1>12. CASE SourceCloseHangs
  <2>1. TypeOK' /\ LoopsInv' /\ EndInv'
    BY <1>1, <1>12 DEF SourceCloseHangs
  <2>2. OpenKept
    BY <1>1, <1>12 DEF SourceCloseHangs
  <2> QED BY <1>2, <2>1, <2>2
<1>13. CASE TaskAwaited
  <2>1. TypeOK' /\ LoopsInv' /\ EndInv'
    BY <1>1, <1>13 DEF TaskAwaited
  <2>2. OpenKept
    BY <1>1, <1>13 DEF TaskAwaited
  <2> QED BY <1>2, <2>1, <2>2
<1>14. CASE RunReturns
  <2>1. TypeOK' /\ LoopsInv' /\ EndInv'
    BY <1>1, <1>14 DEF RunReturns
  <2>2. OpenKept
    BY <1>1, <1>14 DEF RunReturns
  <2> QED BY <1>2, <2>1, <2>2
<1>15. CASE UNCHANGED vars
  <2>1. TypeOK' /\ LoopsInv' /\ EndInv'
    BY <1>1, <1>15 DEF vars
  <2>2. OpenKept
    BY <1>1, <1>15 DEF vars
  <2> QED BY <1>2, <2>1, <2>2
<1> QED BY <1>3, <1>4, <1>5, <1>6, <1>7, <1>8, <1>9, <1>10, <1>11, <1>12, <1>13, <1>14, <1>15
        DEF SourceClose

(* So do the ways in which the close of a sink may come out.                *)
LEMMA SinkCloseKeepsInv ==
  ASSUME PipelineInv, NEW i \in 1..Len(Order), SinkClose(i) \/ InterruptClose(i)
  PROVE  PipelineInv'
<1>1. TypeOK /\ LoopsInv /\ EndInv /\ ClosedInOrder
  BY DEF PipelineInv
<1>2. /\ UNCHANGED <<owner, task, verdict, running, work>>
      /\ stopping \in {"awaited", "stuck"} /\ stopping' \in Ended
      /\ open' \subseteq open /\ refused \subseteq refused'
      /\ refused' \subseteq refused \cup {Order[i]}
  BY DEF SinkClose, CloseSink, CloseRaises, CloseHangs, InterruptClose, ends, Ended
<1>3. task = "over" /\ Order[i] \in Sinks
  BY <1>1, <1>2, PlacesOfSinks DEF EndInv, Ended
<1>4. TypeOK'
  BY <1>1, <1>2, <1>3 DEF TypeOK, work, Stops
<1>5. LoopsInv'
  BY <1>1, <1>2 DEF LoopsInv, work
<1>6. EndInv'
  BY <1>1, <1>2, <1>3 DEF EndInv, work
<1>7. (\A s \in Sinks : SinkInv(s))' /\ CutIsATail'
  BY <1>2, WorkUntouched
<1>8. ClosedInOrder'
  <2>1. CASE CloseSink(i)
    BY <1>1, <2>1, CloseSinkKeepsOrder
  <2>2. CASE CloseRaises(i) \/ InterruptClose(i)
    <3>1. NextToClose(i) /\ open' = open /\ stopping' = "failed" /\ Order[i] \in refused'
      BY <2>2 DEF CloseRaises, InterruptClose
    <3> QED BY <1>1, <3>1, CloseEndsElsewhere
  <2>3. CASE CloseHangs(i)
    <3>1. NextToClose(i) /\ open' = open /\ stopping' = "stuck" /\ Order[i] \in HangingClose
      BY <2>3 DEF CloseHangs, ends
    <3> QED BY <1>1, <3>1, CloseEndsElsewhere
  <2> QED BY <2>1, <2>2, <2>3 DEF SinkClose
<1> QED BY <1>4, <1>5, <1>6, <1>7, <1>8 DEF PipelineInv

(* Every step of the task and of its owner keeps the invariant.             *)
LEMMA StepKeepsInv ==
  ASSUME PipelineInv, [Next]_vars
  PROVE  PipelineInv'
<1>1. CASE HandleTrade
  BY <1>1, HandleTradeKeepsInv
<1>2. ASSUME NEW s \in Sinks, EmitReturns(s) PROVE PipelineInv'
  <2>1. /\ task = "emitting" /\ Order[sink] = s /\ EmitDone /\ failed' = failed
        /\ delivered' = [delivered EXCEPT ![s] = Append(@, alert)]
    BY <1>2 DEF EmitReturns
  <2> QED BY <2>1, EmitDoneKeepsInv
<1>3. ASSUME NEW s \in Sinks, EmitRaises(s) PROVE PipelineInv'
  <2>1. /\ task = "emitting" /\ Order[sink] = s /\ EmitDone /\ delivered' = delivered
        /\ failed' = [failed EXCEPT ![s] = @ \cup {alert}]
    BY <1>3 DEF EmitRaises
  <2> QED BY <2>1, EmitDoneKeepsInv
<1>4. CASE CancelRun
  BY <1>4, CancelRunKeepsInv
<1>5. CASE \/ Start \/ SourceEnds \/ (\E s \in Sinks : EmitHangs(s))
           \/ Stop \/ Interrupt \/ CancelBeforeStart \/ CancelClose
           \/ SourceClose \/ TaskAwaited \/ RunReturns \/ UNCHANGED vars
  <2>1. UNCHANGED work
    BY <1>5 DEF work, vars, Start, SourceEnds, LeaveTry, EmitHangs, Stop, Interrupt,
                CancelBeforeStart, CancelClose, SourceClose, SourceCloses,
                SourceCloseRaises, SourceCloseHangs, TaskAwaited, RunReturns
  <2> QED BY <1>5, <2>1, ControlKeepsInv
<1>6. ASSUME NEW i \in 1..Len(Order), SinkClose(i) \/ InterruptClose(i) PROVE PipelineInv'
  BY <1>6, SinkCloseKeepsInv
<1> QED BY <1>1, <1>2, <1>3, <1>4, <1>5, <1>6 DEF Next, Emit, Cancel, Closing

(* The loops over alerts and sinks, the accounts of the sinks and the order *)
(* in which the end comes about hold for ever.                              *)
THEOREM PipelineInvariant == Spec => []PipelineInv
<1>1. Init => PipelineInv
  BY InitEstablishesInv
<1>2. PipelineInv /\ [Next]_vars => PipelineInv'
  BY StepKeepsInv
<1> QED BY <1>1, <1>2, PTL DEF Spec

(* Every variable of the pipeline keeps its type.                           *)
THEOREM PipelineTypeCorrect == Spec => []TypeOK
<1>1. PipelineInv => TypeOK
  BY DEF PipelineInv
<1> QED BY <1>1, PipelineInvariant, PTL

(* Whatever the other sinks do, every alert the engine raised is for each   *)
(* sink in exactly one place: returned for, in order, failed, to come or    *)
(* cut off (_handle_trade, _dispatch).                                      *)
THEOREM PipelineEachAlertOnce == Spec => []EachAlertOncePerSink
<1>1. ASSUME PipelineInv PROVE EachAlertOncePerSink
  <2> SUFFICES ASSUME NEW s \in Sinks
               PROVE  LET places == <<ToSet(delivered[s]), failed[s], Pending(s), cut[s]>>
                      IN  /\ \A i, j \in 1..Len(delivered[s]) :
                               i < j => delivered[s][i] < delivered[s][j]
                          /\ UNION ToSet(places) = 1..raised
                          /\ \A i, j \in 1..4 : i # j => places[i] \cap places[j] = {}
    BY DEF EachAlertOncePerSink
  <2> DEFINE D == ToSet(delivered[s])
             F == failed[s]
             P == Pending(s)
             C == cut[s]
             places == <<D, F, P, C>>
  <2>1. SinkInv(s) /\ TypeOK
    BY <1>1 DEF PipelineInv
  <2>2. /\ D \cup F \cup C = (1..raised) \ P /\ P \subseteq 1..raised
        /\ D \cap F = {} /\ D \cap C = {} /\ F \cap C = {}
    BY <2>1, PendingIsAhead DEF SinkInv
  <2>3. ToSet(places) = {D, F, P, C}
    BY DEF ToSet
  <2>4. places[1] = D /\ places[2] = F /\ places[3] = P /\ places[4] = C
    OBVIOUS
  <2>5. \A i, j \in 1..Len(delivered[s]) : i < j => delivered[s][i] < delivered[s][j]
    BY <2>1 DEF SinkInv, Ascending
  <2> HIDE DEF D, F, P, C, places
  <2>6. UNION ToSet(places) = 1..raised
    BY <2>2, <2>3
  <2>7. D \cap P = {} /\ F \cap P = {} /\ C \cap P = {}
    BY <2>2
  <2>8. ASSUME NEW i \in 1..4, NEW j \in 1..4, i # j PROVE places[i] \cap places[j] = {}
    <3>1. /\ i = 1 \/ i = 2 \/ i = 3 \/ i = 4
          /\ j = 1 \/ j = 2 \/ j = 3 \/ j = 4
      OBVIOUS
    <3>2. CASE i = 1
      BY <2>2, <2>4, <2>7, <2>8, <3>1, <3>2
    <3>3. CASE i = 2
      BY <2>2, <2>4, <2>7, <2>8, <3>1, <3>3
    <3>4. CASE i = 3
      BY <2>2, <2>4, <2>7, <2>8, <3>1, <3>4
    <3>5. CASE i = 4
      BY <2>2, <2>4, <2>7, <2>8, <3>1, <3>5
    <3> QED BY <3>1, <3>2, <3>3, <3>4, <3>5
  <2> QED BY <2>5, <2>6, <2>8 DEF D, F, P, C, places
<1> QED BY <1>1, PipelineInvariant, PTL

(* A cancellation takes the end of one trade's fan-out from the sinks, and  *)
(* nothing else takes anything (run, _dispatch).                            *)
THEOREM PipelineCutIsATail == Spec => []CutIsATail
<1>1. PipelineInv => CutIsATail
  BY DEF PipelineInv
<1> QED BY <1>1, PipelineInvariant, PTL

(* Once the sinks are being closed the pipeline is done, whatever their     *)
(* close() comes to; they are closed in order, up to one that is to blame;  *)
(* and a source stays unclosed only if its close() came out with an         *)
(* exception or run() never began (AppState.stop, run, close).              *)
THEOREM PipelineNothingAfterClose == Spec => NothingAfterClose
<1>1. ASSUME PipelineInv, [Next]_vars
      PROVE  /\ stopping \in Ended => UNCHANGED work /\ task = "over" /\ ~running
             /\ ClosedInOrder
             /\ task = "over" /\ Source \in open =>
                  Source \in refused \/ (verdict = "cancelled" /\ handled = 0)
  <2>1. EndInv /\ ClosedInOrder
    BY <1>1 DEF PipelineInv
  <2>2. ASSUME stopping \in Ended PROVE UNCHANGED work
    <3>1. task = "over" /\ stopping # "requested"
      BY <2>1, <2>2 DEF EndInv, Ended
    <3>2. CASE \/ SourceClose \/ TaskAwaited \/ RunReturns
               \/ \E i \in 1..Len(Order) : SinkClose(i) \/ InterruptClose(i)
      BY <3>2 DEF work, SourceClose, SourceCloses, SourceCloseRaises, SourceCloseHangs,
                  TaskAwaited, RunReturns, SinkClose, CloseSink, CloseRaises, CloseHangs,
                  InterruptClose
    <3>3. CASE \/ Start \/ HandleTrade \/ SourceEnds \/ \E s \in Sinks : Emit(s)
      BY <3>1, <3>3 DEF Start, HandleTrade, SourceEnds, Emit, EmitReturns, EmitRaises,
                        EmitHangs
    <3>4. CASE Stop \/ Interrupt \/ Cancel \/ UNCHANGED vars
      BY <3>1, <3>4 DEF vars, work, Stop, Interrupt, Cancel, CancelBeforeStart, CancelRun,
                        CancelClose
    <3> QED BY <1>1, <3>2, <3>3, <3>4 DEF Next, Closing
  <2> QED BY <2>1, <2>2 DEF EndInv
<1>2. PipelineInv /\ [Next]_vars =>
        [/\ stopping \in Ended => UNCHANGED work /\ task = "over" /\ ~running
         /\ ClosedInOrder
         /\ task = "over" /\ Source \in open =>
              Source \in refused \/ (verdict = "cancelled" /\ handled = 0)]_vars
  BY <1>1
<1> QED BY <1>2, PipelineInvariant, PTL DEF Spec, NothingAfterClose

(* What a sink is given next comes after all it was given.                  *)
LEMMA LastIsBehind ==
  ASSUME PipelineInv, task = "emitting", NEW s \in Sinks, Order[sink] = s
  PROVE  /\ Delivery!LastOf(delivered[s]) \in Nat
         /\ Delivery!LastOf(delivered[s]) < alert
<1>1. TypeOK /\ LoopsInv /\ SinkInv(s)
  BY DEF PipelineInv
<1>2. alert \in Nat \ {0} /\ raised \in Nat /\ delivered[s] \in Seq(Nat)
  BY <1>1 DEF TypeOK
<1>3. CASE delivered[s] = << >>
  BY <1>2, <1>3 DEF Delivery!LastOf
<1>4. CASE delivered[s] # << >>
  <2>1. Len(delivered[s]) \in 1..Len(delivered[s])
        /\ DOMAIN delivered[s] = 1..Len(delivered[s])
    BY <1>2, <1>4, EmptySeq, LenProperties
  <2>2. Delivery!LastOf(delivered[s]) \in ToSet(delivered[s])
    BY <1>4, <2>1 DEF ToSet, Delivery!LastOf
  <2>3. Delivery!LastOf(delivered[s]) \in (1..raised) \ Pending(s)
    BY <1>1, <2>2 DEF SinkInv
  <2>4. alert \in Pending(s) /\ (alert + 1)..raised \subseteq Pending(s)
    BY <1>1, AlertInHandIsPending, PendingIsAhead
  <2>5. Delivery!LastOf(delivered[s]) \notin alert..raised
    BY <1>2, <2>3, <2>4
  <2> QED BY <1>2, <2>3, <2>5
<1> QED BY <1>3, <1>4

(* The fan-out to the sinks implements the abstract delivery: every emit    *)
(* that returns is a delivery, a trade issues its alerts, and no other step *)
(* is seen (_handle_trade, _dispatch).                                      *)
THEOREM PipelineImplementsDelivery == Spec => ImplementsDelivery
<1>1. Init => Delivery!DeliveryInit
  BY DEF Init, Delivery!DeliveryInit
<1>2. ASSUME PipelineInv, [Next]_vars
      PROVE  [Delivery!DeliveryNext]_(Delivery!deliveryVars)
  <2>1. TypeOK /\ LoopsInv
    BY <1>2 DEF PipelineInv
  <2>2. CASE HandleTrade
    <3>1. PICK n \in 0..MaxAlerts : raised' = raised + n
      BY <2>2 DEF HandleTrade
    <3>2. raised' \in Nat /\ raised' >= raised /\ delivered' = delivered
      BY <2>1, <2>2, <3>1, PipelineAssumption DEF HandleTrade, TypeOK
    <3> QED BY <3>2 DEF Delivery!DeliveryNext, Delivery!Issue
  <2>3. ASSUME NEW s \in Sinks, EmitReturns(s)
        PROVE  Delivery!Deliver(s)
    <3>1. /\ task = "emitting" /\ Order[sink] = s /\ raised' = raised
          /\ delivered' = [delivered EXCEPT ![s] = Append(@, alert)]
      BY <2>3 DEF EmitReturns, EmitDone
    <3>2. /\ Delivery!LastOf(delivered[s]) \in Nat
          /\ Delivery!LastOf(delivered[s]) < alert
      BY <1>2, <3>1, LastIsBehind
    <3>3. alert \in (Delivery!LastOf(delivered[s]) + 1)..raised
      BY <2>1, <3>1, <3>2 DEF TypeOK, LoopsInv
    <3> QED BY <3>1, <3>3 DEF Delivery!Deliver
  <2>4. CASE \/ Start \/ SourceEnds \/ Stop \/ Interrupt \/ Cancel \/ Closing
             \/ (\E i \in 1..Len(Order) : InterruptClose(i))
             \/ (\E s \in Sinks : EmitRaises(s) \/ EmitHangs(s)) \/ UNCHANGED vars
    <3>1. UNCHANGED <<raised, delivered>>
      BY <2>4 DEF vars, work, Start, SourceEnds, LeaveTry, Stop, Interrupt, Cancel,
                  CancelBeforeStart, CancelRun, CancelClose, Closing, SourceClose,
                  SourceCloses, SourceCloseRaises, SourceCloseHangs, TaskAwaited,
                  RunReturns, SinkClose, CloseSink, CloseRaises, CloseHangs,
                  InterruptClose, EmitRaises, EmitDone, EmitHangs
    <3> QED BY <3>1 DEF Delivery!deliveryVars
  <2> QED BY <1>2, <2>2, <2>3, <2>4 DEF Next, Emit, Delivery!DeliveryNext
<1> QED BY <1>1, <1>2, PipelineInvariant, PTL
        DEF Spec, ImplementsDelivery, Delivery!DeliverySpec
=============================================================================
