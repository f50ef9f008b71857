-------------------------- MODULE KafkaIngestProofs --------------------------
(***************************************************************************)
(* Proofs about the Kafka path, for any topic, any number of crashes and    *)
(* restarts and any choice of the moments at which the library commits.     *)
(***************************************************************************)
EXTENDS KafkaIngest, SequenceTheorems, TLAPS

(* Every trade of the group's from its first offset up to n is processed.   *)
Covered(n) == TradesIn(joined..(n - 1)) \subseteq processed

(* The inductive invariant: the group has processed all the trades before   *)
(* the offset it committed and before the one it reads next.                *)
KafkaInv ==
  /\ TypeOK
  /\ committed # None => joined # None /\ Covered(committed)
  /\ position # None /\ joined # None => Covered(position)
  /\ consumer \in {"streaming", "stopping"} => position # None /\ joined # None
  /\ joined = None => position = None

(* Nothing is read, committed or processed yet.                             *)
LEMMA KafkaInitInv == Init => KafkaInv
<1> SUFFICES ASSUME Init PROVE KafkaInv
  OBVIOUS
<1>1. << >> \in Seq(Kinds) /\ << >> \in Seq(Nat)
  BY EmptySeq
<1> QED BY <1>1 DEF Init, KafkaInv, TypeOK, None, Stages

(* What a new message does to none of the old ones.                         *)
LEMMA ProduceKeepsKinds ==
  ASSUME TypeOK, NEW k \in Kinds, topic' = Append(topic, k)
  PROVE  /\ topic' \in Seq(Kinds)
         /\ End \in Nat /\ End' = End + 1
         /\ \A o \in 0..(End - 1) : KindAt(o)' = KindAt(o)
<1>1. topic \in Seq(Kinds)
  BY DEF TypeOK
<1>2. Len(topic) \in Nat
  BY <1>1, LenProperties
<1>3. /\ Append(topic, k) \in Seq(Kinds)
      /\ Len(Append(topic, k)) = Len(topic) + 1
      /\ \A i \in 1..Len(topic) : Append(topic, k)[i] = topic[i]
  BY <1>1, AppendProperties
<1>4. ASSUME NEW o \in 0..(Len(topic) - 1)
      PROVE  topic'[o + 1] = topic[o + 1]
  <2>1. o + 1 \in 1..Len(topic)
    BY <1>2
  <2> QED BY <1>3, <2>1
<1> QED BY <1>2, <1>3, <1>4 DEF End, KindAt

(* Every step keeps the invariant, provided a group that has not committed  *)
(* yet starts where its first process did.                                  *)
LEMMA KafkaStepInv ==
  ASSUME OffsetReset = "earliest", KafkaInv, [Next]_vars
  PROVE  KafkaInv'
<1> USE DEF None
<1>0. TypeOK /\ End \in Nat
  <2>1. topic \in Seq(Kinds)
    BY DEF KafkaInv, TypeOK
  <2> QED BY <2>1, LenProperties DEF KafkaInv, End
<1>1. CASE Produce
  <2>1. PICK k \in Kinds : topic' = Append(topic, k)
    BY <1>1, KafkaAssumption DEF Produce
  <2>2. UNCHANGED <<committed, consumer, position, exits, joined, processed, current>>
    BY <1>1 DEF Produce
  <2>3. /\ topic' \in Seq(Kinds) /\ End' = End + 1
        /\ \A o \in 0..(End - 1) : KindAt(o)' = KindAt(o)
    BY <1>0, <2>1, ProduceKeepsKinds
  <2>4. ASSUME NEW n \in Nat, n <= End, joined \in Nat, Covered(n)
        PROVE  \A o \in joined..(n - 1) : KindAt(o)' = "trade" => o \in processed
    <3>1. \A o \in joined..(n - 1) : o \in 0..(End - 1)
      BY <1>0, <2>4
    <3>2. \A o \in joined..(n - 1) : KindAt(o) = "trade" => o \in processed
      BY <2>4 DEF Covered, TradesIn
    <3> QED BY <2>3, <3>1, <3>2
  <2>5. TypeOK'
    BY <1>0, <2>2, <2>3 DEF TypeOK
  <2>6. committed # None => joined # None /\ Covered(committed)'
    <3> SUFFICES ASSUME committed # None
                 PROVE  joined # None /\ Covered(committed)'
      OBVIOUS
    <3>1. committed \in Nat /\ joined \in Nat /\ committed <= End /\ Covered(committed)
      BY <1>0 DEF KafkaInv, TypeOK
    <3>2. \A o \in joined..(committed - 1) : KindAt(o)' = "trade" => o \in processed
      BY <2>4, <3>1
    <3> QED BY <1>0, <2>2, <2>3, <3>1, <3>2 DEF Covered, TradesIn
  <2>7. position # None /\ joined # None => Covered(position)'
    <3> SUFFICES ASSUME position # None, joined # None
                 PROVE  Covered(position)'
      OBVIOUS
    <3>1. position \in Nat /\ joined \in Nat /\ position <= End /\ Covered(position)
      BY <1>0 DEF KafkaInv, TypeOK
    <3>2. \A o \in joined..(position - 1) : KindAt(o)' = "trade" => o \in processed
      BY <2>4, <3>1
    <3> QED BY <1>0, <2>2, <2>3, <3>1, <3>2 DEF Covered, TradesIn
  <2> QED BY <2>2, <2>5, <2>6, <2>7 DEF KafkaInv, Covered
<1>2. CASE Start
  <2>1. /\ consumer' = "streaming" /\ position' = StartAt /\ current' = << >>
        /\ joined' = IF joined = None THEN StartAt ELSE joined
        /\ UNCHANGED <<topic, committed, exits, processed>>
    BY <1>2 DEF Start
  <2>2. StartAt = IF committed # None THEN committed ELSE 0
    BY DEF StartAt
  <2>3. StartAt \in Nat /\ StartAt <= End
    BY <1>0, <2>2 DEF KafkaInv, TypeOK
  <2>4. joined' \in Nat /\ joined' # None
    BY <1>0, <2>1, <2>3 DEF TypeOK
  <2>5. committed # None => joined' = joined /\ Covered(committed)'
    BY <2>1 DEF KafkaInv, Covered, TradesIn, KindAt
  <2>6. Covered(position)'
    <3>1. CASE committed # None
      BY <2>1, <2>2, <2>5, <3>1 DEF Covered
    <3>2. CASE committed = None
      <4>1. position' = 0 /\ joined'..(0 - 1) = {}
        BY <2>1, <2>2, <2>4, <3>2
      <4> QED BY <4>1 DEF Covered, TradesIn
    <3> QED BY <3>1, <3>2
  <2>7. End' = End
    BY <2>1 DEF End
  <2>8. TypeOK'
    BY <1>0, <2>1, <2>3, <2>4, <2>7, EmptySeq DEF TypeOK, Stages
  <2> QED BY <2>1, <2>3, <2>4, <2>5, <2>6, <2>7, <2>8 DEF KafkaInv
<1>3. CASE StartFails
  BY <1>0, <1>3, EmptySeq
  DEF StartFails, KafkaInv, TypeOK, Stages, End, Covered, TradesIn, KindAt
<1>4. CASE ConsumeTrade
  <2>1. /\ position \in Nat /\ joined \in Nat /\ position < End
        /\ position' = position + 1
        /\ processed' = processed \cup {position}
        /\ current' = Append(current, position)
        /\ UNCHANGED <<topic, committed, consumer, exits, joined>>
    BY <1>0, <1>4 DEF ConsumeTrade, KafkaInv, TypeOK
  <2>2. current' \in Seq(Nat)
    BY <1>0, <2>1, AppendProperties DEF TypeOK
  <2>3. End' = End
    BY <2>1 DEF End
  <2>4. TypeOK'
    BY <1>0, <2>1, <2>2, <2>3 DEF TypeOK
  <2>5. Covered(position)'
    <3>1. Covered(position)
      BY <2>1 DEF KafkaInv
    <3>2. \A o \in joined..(position + 1 - 1) : o \in joined..(position - 1) \/ o = position
      BY <2>1
    <3> QED BY <2>1, <3>1, <3>2 DEF Covered, TradesIn, KindAt
  <2>6. committed # None => Covered(committed)'
    BY <2>1 DEF KafkaInv, Covered, TradesIn, KindAt
  <2> QED BY <1>0, <2>1, <2>3, <2>4, <2>5, <2>6 DEF KafkaInv
<1>5. ASSUME position \in Nat, joined \in Nat, position < End,
             KindAt(position) # "trade",
             position' \in {position, position + 1},
             UNCHANGED <<topic, committed, exits, joined, processed, current>>,
             consumer' \in Stages, Covered(position)
      PROVE  KafkaInv'
  <2>1. End' = End
    BY <1>5 DEF End
  <2>2. TypeOK'
    BY <1>0, <1>5, <2>1 DEF TypeOK
  <2>3. Covered(position)'
    <3>1. \A o \in joined..(position + 1 - 1) : o \in joined..(position - 1) \/ o = position
      BY <1>5
    <3>2. CASE position' = position
      BY <1>5, <3>2 DEF Covered, TradesIn, KindAt
    <3>3. CASE position' = position + 1
      BY <1>5, <3>1, <3>3 DEF Covered, TradesIn, KindAt
    <3> QED BY <1>5, <3>2, <3>3
  <2>4. committed # None => Covered(committed)'
    BY <1>5 DEF KafkaInv, Covered, TradesIn, KindAt
  <2> QED BY <1>5, <2>1, <2>2, <2>3, <2>4 DEF KafkaInv
<1>6. CASE SkipMalformed \/ StreamRaises
  <2>1. consumer = "streaming" /\ position < End
    BY <1>6 DEF SkipMalformed, StreamRaises
  <2>2. position \in Nat /\ joined \in Nat /\ Covered(position)
    BY <1>0, <2>1 DEF KafkaInv, TypeOK
  <2> QED BY <1>5, <1>6, <2>1, <2>2 DEF SkipMalformed, StreamRaises, Stages
<1>7. CASE AutoCommit
  BY <1>0, <1>7 DEF AutoCommit, KafkaInv, TypeOK, End, Covered, TradesIn, KindAt
<1>8. CASE Stop
  BY <1>0, <1>8 DEF Stop, KafkaInv, TypeOK, Stages, End, Covered, TradesIn, KindAt
<1>9. CASE Close
  <2>1. UNCHANGED <<topic, position, joined, processed, current>> /\ exits' \in Nat
        /\ consumer' \in {"down", "failed"}
        /\ committed' = IF position = None THEN committed ELSE position
    BY <1>0, <1>9 DEF Close, TypeOK
  <2> QED BY <1>0, <2>1 DEF KafkaInv, TypeOK, Stages, End, Covered, TradesIn, KindAt
<1>10. CASE Crash
  BY <1>0, <1>10 DEF Crash, KafkaInv, TypeOK, Stages, End, Covered, TradesIn, KindAt
<1>11. CASE UNCHANGED vars
  BY <1>0, <1>11 DEF vars, KafkaInv, TypeOK, End, Covered, TradesIn, KindAt
<1> QED BY <1>1, <1>2, <1>3, <1>4, <1>6, <1>7, <1>8, <1>9, <1>10, <1>11
        DEF Next, Consume

-----------------------------------------------------------------------------
(* With auto_offset_reset = "earliest" no trade is dropped, however often   *)
(* the process crashes and whenever the library commits: every trade the    *)
(* group has read past has reached an engine.                               *)
THEOREM EarliestDropsNothing ==
  ASSUME OffsetReset = "earliest"
  PROVE  Spec => []NothingDropped
<1>1. Init => KafkaInv
  BY KafkaInitInv
<1>2. KafkaInv /\ [Next]_vars => KafkaInv'
  BY KafkaStepInv
<1>3. KafkaInv => NothingDropped
  BY DEF KafkaInv, NothingDropped, Covered
<1> QED BY <1>1, <1>2, <1>3, PTL DEF Spec

(* Nor does the commit ever run ahead of the engine.                        *)
THEOREM CommitFollowsEngine ==
  ASSUME OffsetReset = "earliest"
  PROVE  Spec => []CommittedWasProcessed
<1>1. Init => KafkaInv
  BY KafkaInitInv
<1>2. KafkaInv /\ [Next]_vars => KafkaInv'
  BY KafkaStepInv
<1>3. KafkaInv => CommittedWasProcessed
  BY DEF KafkaInv, CommittedWasProcessed, Covered
<1> QED BY <1>1, <1>2, <1>3, PTL DEF Spec
-----------------------------------------------------------------------------
(* The inductive invariant of a single process, which holds wherever a      *)
(* group without a commit starts: what its engine got is behind its         *)
(* position, in order, and from the first on with no trade left out; and no *)
(* trade between the commit and the position is left out.                   *)
InOrder == \A i, j \in 1..Len(current) : i < j => current[i] < current[j]
Got(o) == \E i \in 1..Len(current) : current[i] = o
NoneLeftOut == \A o \in TradesIn(current[1]..(position - 1)) : Got(o)
CommitReached ==
  committed # None /\ position # None =>
    TradesIn(committed..(position - 1)) \subseteq processed

ProcessInv ==
  /\ TypeOK
  /\ consumer \in {"streaming", "stopping"} => position # None
  /\ InOrder
  /\ current # << >> =>
       /\ position # None
       /\ \A i \in 1..Len(current) : current[i] < position
       /\ NoneLeftOut
  /\ CommitReached

(* A sequence that has elements has a first.                                *)
LEMMA FirstIsElement ==
  ASSUME NEW q \in Seq(Nat), q # << >>
  PROVE  1 \in 1..Len(q) /\ q[1] \in Nat
<1>1. Len(q) \in Nat /\ Len(q) # 0
  BY LenProperties, EmptySeq
<1>2. 1 \in 1..Len(q)
  BY <1>1
<1> QED BY <1>2, ElementOfSeq

(* What is left as it is by a step that reads nothing and commits nothing.  *)
LEMMA ProcessUntouched ==
  ASSUME ProcessInv, UNCHANGED <<topic, committed, position, processed, current>>,
         consumer' \in Stages, exits' \in Nat, joined' = joined,
         consumer' \in {"streaming", "stopping"} => position # None
  PROVE  ProcessInv'
BY DEF ProcessInv, TypeOK, End, InOrder, NoneLeftOut, Got, CommitReached, TradesIn, KindAt

(* The next message is read or stays unread; if it is a trade, it is read   *)
(* and handed to the engine.                                                *)
LEMMA ReadKeepsProcess ==
  ASSUME ProcessInv, position \in Nat, position < End,
         UNCHANGED <<topic, committed, exits, joined>>, consumer' \in Stages,
         \/ /\ KindAt(position) # "trade"
            /\ position' \in {position, position + 1}
            /\ UNCHANGED <<processed, current>>
         \/ /\ position' = position + 1
            /\ processed' = processed \cup {position}
            /\ current' = Append(current, position)
  PROVE  ProcessInv'
<1> DEFINE p == position
<1>1. /\ TypeOK /\ End \in Nat /\ End' = End /\ current \in Seq(Nat)
      /\ Len(current) \in Nat /\ p \in Nat
  <2>1. topic \in Seq(Kinds)
    BY DEF ProcessInv, TypeOK
  <2> QED BY <2>1, LenProperties DEF ProcessInv, TypeOK, End
<1>2. \A o : KindAt(o)' = KindAt(o)
  BY DEF KindAt
<1>3. CommitReached'
  <2> SUFFICES ASSUME committed # None
               PROVE  \A o \in committed..(position' - 1) :
                        KindAt(o) = "trade" => o \in processed'
    BY <1>2 DEF CommitReached, TradesIn
  <2>1. committed \in Nat
    BY <1>1 DEF TypeOK, None
  <2>2. \A o \in committed..(p - 1) : KindAt(o) = "trade" => o \in processed
    BY <1>1 DEF ProcessInv, CommitReached, TradesIn, None
  <2>3. \A o \in committed..(position' - 1) : o \in committed..(p - 1) \/ o = p
    BY <1>1, <2>1
  <2> QED BY <1>1, <2>2, <2>3
<1>4. CASE /\ KindAt(p) # "trade" /\ position' \in {p, p + 1}
           /\ UNCHANGED <<processed, current>>
  <2>1. TypeOK'
    BY <1>1, <1>4 DEF TypeOK, None
  <2>2. InOrder'
    BY <1>4 DEF ProcessInv, InOrder
  <2>3. ASSUME current # << >>
        PROVE  /\ \A i \in 1..Len(current) : current[i] < position'
               /\ NoneLeftOut'
    <3>1. /\ \A i \in 1..Len(current) : current[i] < p /\ current[i] \in Nat
          /\ NoneLeftOut
      BY <1>1, <2>3, ElementOfSeq DEF ProcessInv
    <3>2. current[1] \in Nat
      BY <1>1, <2>3, FirstIsElement
    <3>3. \A o \in current[1]..(position' - 1) : o \in current[1]..(p - 1) \/ o = p
      <4> DEFINE m == current[1]
      <4>1. m \in Nat /\ p \in Nat
        BY <1>1, <3>2
      <4> HIDE DEF m, p
      <4>2. \A n \in {p, p + 1} : \A o \in m..(n - 1) : o \in m..(p - 1) \/ o = p
        BY <4>1
      <4> QED BY <1>4, <4>2, Zenon DEF m
    <3>4. \A o \in current[1]..(p - 1) : KindAt(o) = "trade" => Got(o)
      BY <3>1 DEF NoneLeftOut, TradesIn
    <3>5. \A o \in current[1]..(position' - 1) : KindAt(o) = "trade" => Got(o)
      BY <1>4, <3>3, <3>4
    <3>6. \A o : Got(o)' = Got(o)
      BY <1>4 DEF Got
    <3>7. NoneLeftOut'
      BY <1>2, <1>4, <3>5, <3>6 DEF NoneLeftOut, TradesIn
    <3> QED BY <1>1, <1>4, <3>1, <3>7
  <2>4. position' # None
    BY <1>1, <1>4 DEF None
  <2> QED BY <1>3, <1>4, <2>1, <2>2, <2>3, <2>4 DEF ProcessInv
<1>5. CASE /\ position' = p + 1 /\ processed' = processed \cup {p}
           /\ current' = Append(current, p)
  <2>1. /\ current' \in Seq(Nat) /\ Len(current') = Len(current) + 1
        /\ \A i \in 1..Len(current) : current'[i] = current[i] /\ current[i] \in Nat
        /\ current'[Len(current) + 1] = p /\ current' # << >>
    BY <1>1, <1>5, AppendProperties, ElementOfSeq
  <2>2. TypeOK'
    BY <1>1, <1>5, <2>1 DEF TypeOK, None
  <2>3. \A i \in 1..Len(current) : current[i] < p
    <3>1. CASE current = << >>
      <4>1. Len(current) = 0
        BY <3>1, EmptySeq
      <4> QED BY <4>1
    <3>2. CASE current # << >>
      BY <3>2 DEF ProcessInv
    <3> QED BY <3>1, <3>2
  <2> HIDE DEF p
  <2>4. \A i \in 1..Len(current') : i \in 1..Len(current) \/ i = Len(current) + 1
    BY <1>1, <2>1
  <2>5. InOrder'
    <3> SUFFICES ASSUME NEW i \in 1..Len(current'), NEW j \in 1..Len(current'), i < j
                 PROVE  current'[i] < current'[j]
      BY DEF InOrder
    <3>1. i \in 1..Len(current)
      BY <1>1, <2>1
    <3>2. CASE j \in 1..Len(current)
      BY <2>1, <3>1, <3>2 DEF ProcessInv, InOrder
    <3>3. CASE j = Len(current) + 1
      BY <2>1, <2>3, <3>1, <3>3
    <3> QED BY <2>4, <3>2, <3>3, Zenon
  <2>6. \A i \in 1..Len(current') : current'[i] < p + 1
    <3> SUFFICES ASSUME NEW i \in 1..Len(current') PROVE current'[i] < p + 1
      OBVIOUS
    <3>1. CASE i \in 1..Len(current)
      <4>1. current'[i] = current[i] /\ current[i] \in Nat /\ current[i] < p
        BY <2>1, <2>3, <3>1
      <4> QED BY <1>1, <4>1
    <3>2. CASE i = Len(current) + 1
      <4>1. current'[i] = p
        BY <2>1, <3>2, Zenon
      <4> QED BY <1>1, <4>1
    <3> QED BY <2>4, <3>1, <3>2, Zenon
  <2>7. \A o : o = p \/ Got(o) => Got(o)'
    <3>1. Len(current) + 1 \in 1..Len(current')
      BY <1>1, <2>1
    <3>2. 1..Len(current) \subseteq 1..Len(current')
      BY <1>1, <2>1
    <3> QED BY <2>1, <3>1, <3>2 DEF Got
  <2>8. NoneLeftOut'
    <3> SUFFICES ASSUME NEW o \in current'[1]..p, KindAt(o) = "trade"
                 PROVE  Got(o)'
      <4>1. position' - 1 = p
        BY <1>1, <1>5 DEF p
      <4> QED BY <1>2, <4>1 DEF NoneLeftOut, TradesIn
    <3>1. CASE current = << >>
      <4>1. Len(current) = 0
        BY <3>1, EmptySeq
      <4>2. current'[1] = p
        BY <2>1, <4>1
      <4>3. o = p
        BY <1>1, <4>2
      <4> QED BY <2>7, <4>3, Zenon
    <3>2. CASE current # << >>
      <4>1. NoneLeftOut
        BY <3>2 DEF ProcessInv
      <4>2. 1 \in 1..Len(current)
        BY <1>1, <3>2, FirstIsElement
      <4>3. current'[1] = current[1] /\ current[1] \in Nat
        BY <2>1, <4>2
      <4>4. o = p \/ o \in current[1]..(p - 1)
        BY <1>1, <4>3
      <4>5. o \in current[1]..(p - 1) => Got(o)
        BY <4>1 DEF NoneLeftOut, TradesIn, p
      <4> QED BY <2>7, <4>4, <4>5, Zenon
    <3> QED BY <3>1, <3>2
  <2>9. position' # None
    BY <1>1, <1>5 DEF None, p
  <2> QED BY <1>3, <1>5, <2>1, <2>2, <2>5, <2>6, <2>8, <2>9 DEF ProcessInv, p
<1> QED BY <1>4, <1>5

(* Every step keeps it, for either auto_offset_reset.                       *)
LEMMA ProcessStepInv ==
  ASSUME ProcessInv, [Next]_vars
  PROVE  ProcessInv'
<1>1. /\ TypeOK /\ End \in Nat /\ topic \in Seq(Kinds)
      /\ << >> \in Seq(Nat) /\ Len(<< >>) = 0
  <2>1. topic \in Seq(Kinds)
    BY DEF ProcessInv, TypeOK
  <2> QED BY <2>1, LenProperties, EmptySeq DEF ProcessInv, End
<1>2. consumer = "streaming" => position \in Nat
  BY <1>1 DEF ProcessInv, TypeOK, None
<1>3. CASE Produce
  <2>1. PICK k \in Kinds : topic' = Append(topic, k)
    BY <1>3, KafkaAssumption DEF Produce
  <2>2. UNCHANGED <<committed, consumer, position, exits, joined, processed, current>>
    BY <1>3 DEF Produce
  <2>3. /\ topic' \in Seq(Kinds) /\ End' = End + 1
        /\ \A o \in 0..(End - 1) : KindAt(o)' = KindAt(o)
    BY <1>1, <2>1, ProduceKeepsKinds
  <2>4. TypeOK'
    BY <1>1, <2>2, <2>3 DEF TypeOK, None
  <2>5. ASSUME NEW m \in Nat, NEW o \in m..(position - 1)
        PROVE  KindAt(o)' = KindAt(o)
    <3>1. o \in 0..(End - 1)
      BY <1>1, <2>5 DEF TypeOK, None
    <3> QED BY <2>3, <3>1
  <2>6. CommitReached'
    <3> SUFFICES ASSUME committed # None, position # None
                 PROVE  \A o \in committed..(position - 1) :
                          KindAt(o)' = "trade" => o \in processed
      BY <2>2 DEF CommitReached, TradesIn
    <3>1. committed \in Nat
      BY <1>1 DEF TypeOK, None
    <3> QED BY <2>5, <3>1 DEF ProcessInv, CommitReached, TradesIn
  <2>7. ASSUME current # << >> PROVE NoneLeftOut'
    <3>1. current[1] \in Nat
      BY <1>1, <2>7, FirstIsElement DEF TypeOK
    <3>2. \A o \in current[1]..(position - 1) : KindAt(o)' = "trade" => Got(o)
      BY <2>5, <2>7, <3>1 DEF ProcessInv, NoneLeftOut, TradesIn
    <3>3. \A o : Got(o)' = Got(o)
      BY <2>2 DEF Got
    <3> QED BY <2>2, <3>2, <3>3 DEF NoneLeftOut, TradesIn
  <2> QED BY <2>2, <2>4, <2>6, <2>7 DEF ProcessInv, InOrder
<1>4. CASE Start
  <2>1. /\ consumer' = "streaming" /\ position' = StartAt /\ current' = << >>
        /\ joined' = IF joined = None THEN StartAt ELSE joined
        /\ UNCHANGED <<topic, committed, exits, processed>>
    BY <1>4 DEF Start
  <2>2. StartAt \in 0..End /\ StartAt # None /\ (committed # None => StartAt = committed)
    BY <1>1 DEF StartAt, TypeOK, None
  <2>3. TypeOK'
    BY <1>1, <2>1, <2>2 DEF TypeOK, Stages, End
  <2>4. committed # None => committed'..(position' - 1) = {}
    BY <1>1, <2>1, <2>2 DEF TypeOK, None
  <2>5. CommitReached'
    BY <2>1, <2>4 DEF CommitReached, TradesIn
  <2> QED BY <1>1, <2>1, <2>2, <2>3, <2>5 DEF ProcessInv, InOrder
<1>5. CASE StartFails
  BY <1>1, <1>5
  DEF StartFails, ProcessInv, TypeOK, Stages, End, InOrder, CommitReached
<1>6. CASE Consume
  BY <1>2, <1>6, ReadKeepsProcess
  DEF Consume, ConsumeTrade, SkipMalformed, StreamRaises, Stages, ProcessInv, TypeOK
<1>7. CASE AutoCommit \/ Close
  <2>1. /\ UNCHANGED <<topic, position, joined, processed, current>> /\ exits' \in Nat
        /\ consumer' \in Stages
        /\ consumer' \in {"streaming", "stopping"} => position # None
        /\ committed' = position \/ (committed' = committed /\ position = None)
    BY <1>1, <1>2, <1>7 DEF AutoCommit, Close, TypeOK, Stages, None
  <2>2. CommitReached'
    <3>1. position # None => position..(position - 1) = {}
      BY <1>1 DEF TypeOK, None
    <3> QED BY <2>1, <3>1 DEF CommitReached, TradesIn
  <2>3. TypeOK'
    BY <1>1, <2>1 DEF TypeOK, End
  <2> QED BY <2>1, <2>2, <2>3 DEF ProcessInv, InOrder, NoneLeftOut, Got, TradesIn, KindAt
<1>8. CASE Stop \/ Crash
  BY <1>1, <1>2, <1>8, ProcessUntouched DEF Stop, Crash, Stages, TypeOK, None
<1>9. CASE UNCHANGED vars
  BY <1>1, <1>9, ProcessUntouched DEF vars, ProcessInv, TypeOK
<1> QED BY <1>3, <1>4, <1>5, <1>6, <1>7, <1>8, <1>9 DEF Next

(* The invariant of a process holds for ever.                               *)
THEOREM ProcessInvariant == Spec => []ProcessInv
<1>1. Init => ProcessInv
  <2>1. << >> \in Seq(Nat) /\ << >> \in Seq(Kinds) /\ Len(<< >>) = 0
    BY EmptySeq
  <2> QED BY <2>1 DEF Init, ProcessInv, TypeOK, InOrder, CommitReached, Stages, None
<1>2. ProcessInv /\ [Next]_vars => ProcessInv'
  BY ProcessStepInv
<1> QED BY <1>1, <1>2, PTL DEF Spec

(* Every variable of the Kafka path keeps its type, wherever a group        *)
(* without a commit starts.                                                 *)
THEOREM KafkaTypeCorrect == Spec => []TypeOK
<1>1. ProcessInv => TypeOK
  BY DEF ProcessInv
<1> QED BY <1>1, ProcessInvariant, PTL

(* Within one process the engine gets each trade once, in the order of the  *)
(* topic and without a gap, for "latest" as for "earliest": only a restart  *)
(* replays (stream() and the commits of the consumer it configures).        *)
THEOREM KafkaReplayOnlyAcrossRestarts == Spec => []ReplayOnlyAcrossRestarts
<1>1. ProcessInv => ReplayOnlyAcrossRestarts
  BY DEF ProcessInv, InOrder, NoneLeftOut, Got, ReplayOnlyAcrossRestarts
<1> QED BY <1>1, ProcessInvariant, PTL

(* A commit that follows another skips no trade, for "latest" too: all that *)
(* it moves over has been given to an engine.  So what "latest" can lose is *)
(* lost before the first commit of the group, and nothing after it.         *)
CommitSkipsNothing ==
  [][committed # None => TradesIn(committed..(committed' - 1)) \subseteq processed']_vars

(* So it is for every topic, every run of processes that end or crash, and  *)
(* either setting of auto_offset_reset (kafka_source.py, config.py).        *)
THEOREM KafkaCommitSkipsNothing == Spec => CommitSkipsNothing
<1>1. ASSUME ProcessInv, [Next]_vars, committed # None
      PROVE  TradesIn(committed..(committed' - 1)) \subseteq processed'
  <2>1. processed \subseteq processed'
    BY <1>1 DEF Next, vars, Produce, Start, StartFails, Consume, ConsumeTrade,
                SkipMalformed, StreamRaises, AutoCommit, Stop, Close, Crash
  <2>2. CASE committed' = committed
    <3>1. committed..(committed' - 1) = {}
      BY <1>1, <2>2 DEF ProcessInv, TypeOK, None
    <3> QED BY <3>1 DEF TradesIn
  <2>3. CASE committed' # committed
    <3>1. committed' = position /\ position # None
      BY <1>1, <2>3 DEF Next, vars, Produce, Start, StartFails, Consume, ConsumeTrade,
                SkipMalformed, StreamRaises, AutoCommit, Stop, Close, Crash, ProcessInv
    <3> QED BY <1>1, <2>1, <3>1 DEF ProcessInv, CommitReached
  <2> QED BY <2>2, <2>3
<1>2. ProcessInv /\ [Next]_vars =>
        [committed # None => TradesIn(committed..(committed' - 1)) \subseteq processed']_vars
  BY <1>1
<1> QED BY <1>2, ProcessInvariant, PTL DEF Spec, CommitSkipsNothing
=============================================================================
