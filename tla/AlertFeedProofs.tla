--------------------------- MODULE AlertFeedProofs ---------------------------
(***************************************************************************)
(* Proofs about the hub and its pumps, for any connections that come, stall *)
(* and leave, any history, replay limit and queue size, and any number of   *)
(* alerts and trades.                                                       *)
(***************************************************************************)
EXTENDS AlertFeed, SequenceTheorems, TLAPS

Stages == {"new", "replaying", "waiting", "sending", "closed", "failed"}

TypeOK ==
  /\ published \in [Feeds -> Nat] /\ recent \in Seq(Nat)
  /\ subs \subseteq Conns
  /\ queue \in [Conns -> Seq(Nat)] /\ dropped \in [Conns -> SUBSET Nat]
  /\ pc \in [Conns -> Stages] /\ connected \in [Conns -> BOOLEAN]
  /\ backlog \in [Conns -> Seq(Nat)] /\ sending \in [Conns -> Seq(Nat)]
  /\ received \in [Conns -> Seq(Nat)] /\ since \in [Conns -> Nat \ {0}]

Ascending(q) == \A i, j \in 1..Len(q) : i < j => q[i] < q[j]

(* The latest numbers up to n, with no gap.                                 *)
RunUpTo(q, n) == \A i \in 1..Len(q) : q[i] = n - Len(q) + i

(* The ring holds the latest alerts, as many as it has place for.           *)
RingInv ==
  /\ RunUpTo(recent, published["alerts"])
  /\ Len(recent) = IF published["alerts"] < History THEN published["alerts"] ELSE History

(* Where its pump is says what else a connection has.                       *)
PumpInv(c) ==
  /\ pc[c] = "new" => /\ received[c] = << >> /\ backlog[c] = << >>
                      /\ sending[c] = << >> /\ queue[c] = << >>
                      /\ dropped[c] = {}
  /\ pc[c] \in Serving =>
       /\ backlog[c] # << >> <=> pc[c] = "replaying"
       /\ Len(sending[c]) = IF pc[c] = "sending" THEN 1 ELSE 0
  /\ pc[c] # "failed" => (c \in subs <=> pc[c] \in Serving)
  /\ Len(queue[c]) <= QueueSize

(* A connection that is served has all that was published since it came, in *)
(* order, but for what its full queue dropped.                              *)
StreamInv(c) ==
  pc[c] \in Serving =>
    /\ since[c] <= published[Feed(c)] + 1
    /\ Ascending(Stream(c))
    /\ ToSet(Stream(c)) \cap dropped[c] = {}
    /\ ToSet(Stream(c)) \cup dropped[c] = since[c]..published[Feed(c)]

FeedInv == TypeOK /\ RingInv /\ \A c \in Conns : PumpInv(c) /\ StreamInv(c)
-----------------------------------------------------------------------------
(* What appending a greater number does to an ascending sequence.           *)
LEMMA AscendingAppend ==
  ASSUME NEW q \in Seq(Nat), NEW n \in Nat, Ascending(q),
         \A a \in ToSet(q) : a < n
  PROVE  /\ Append(q, n) \in Seq(Nat) /\ Ascending(Append(q, n))
         /\ ToSet(Append(q, n)) = ToSet(q) \cup {n}
<1> DEFINE r == Append(q, n)
<1>1. /\ Len(q) \in Nat /\ r \in Seq(Nat) /\ Len(r) = Len(q) + 1
      /\ \A i \in 1..Len(q) : r[i] = q[i] /\ q[i] \in ToSet(q) /\ q[i] \in Nat
      /\ r[Len(q) + 1] = n
  BY AppendProperties, LenProperties, ElementOfSeq DEF ToSet
<1>2. DOMAIN q = 1..Len(q) /\ DOMAIN r = 1..(Len(q) + 1)
  BY <1>1, LenProperties
<1> HIDE DEF r
<1>3. Ascending(r)
  <2> SUFFICES ASSUME NEW i \in 1..Len(r), NEW j \in 1..Len(r), i < j
               PROVE  r[i] < r[j]
    BY DEF Ascending
  <2>1. i \in 1..Len(q) /\ r[i] = q[i] /\ q[i] \in ToSet(q)
    BY <1>1
  <2>2. CASE j = Len(q) + 1
    BY <1>1, <2>1, <2>2
  <2>3. CASE j # Len(q) + 1
    <3>1. j \in 1..(Len(q) + 1) /\ Len(q) \in Nat
      BY <1>1
    <3>2. j \in 1..Len(q)
      BY <2>3, <3>1
    <3>3. r[j] = q[j]
      BY <1>1, <3>2
    <3> QED BY <2>1, <3>2, <3>3 DEF Ascending
  <2> QED BY <2>2, <2>3
<1>4. ToSet(r) = ToSet(q) \cup {n}
  <2>1. ASSUME NEW a \in ToSet(r) PROVE a \in ToSet(q) \cup {n}
    <3>1. PICK i \in DOMAIN r : a = r[i]
      BY <2>1, Zenon DEF ToSet
    <3>2. i \in 1..Len(q) \/ i = Len(q) + 1
      BY <1>1, <1>2, <3>1
    <3> QED BY <1>1, <3>1, <3>2, Zenon
  <2>2. ASSUME NEW a \in ToSet(q) PROVE a \in ToSet(r)
    <3>1. PICK i \in DOMAIN q : a = q[i]
      BY <2>2, Zenon DEF ToSet
    <3>2. i \in DOMAIN r /\ r[i] = a
      BY <1>1, <1>2, <3>1
    <3> QED BY <3>2, Zenon DEF ToSet
  <2>3. n \in ToSet(r)
    <3>1. Len(q) + 1 \in DOMAIN r /\ r[Len(q) + 1] = n
      BY <1>1, <1>2
    <3> QED BY <3>1, Zenon DEF ToSet
  <2> QED BY <2>1, <2>2, <2>3
<1> QED BY <1>1, <1>3, <1>4 DEF r

(* A run is ascending and has every number from its first to its last.      *)
LEMMA RunIsAscending ==
  ASSUME NEW q \in Seq(Nat), NEW n \in Nat, RunUpTo(q, n), Len(q) <= n
  PROVE  Ascending(q) /\ ToSet(q) = (n - Len(q) + 1)..n
<1>1. Len(q) \in Nat /\ DOMAIN q = 1..Len(q)
  BY LenProperties
<1>2. Ascending(q)
  BY <1>1 DEF Ascending, RunUpTo
<1>3. ASSUME NEW a \in ToSet(q) PROVE a \in (n - Len(q) + 1)..n
  BY <1>1 DEF ToSet, RunUpTo
<1>4. ASSUME NEW a \in (n - Len(q) + 1)..n PROVE a \in ToSet(q)
  <2>1. a - (n - Len(q)) \in 1..Len(q)
    BY <1>1
  <2>2. q[a - (n - Len(q))] = a
    BY <1>1, <2>1 DEF RunUpTo
  <2> QED BY <1>1, <2>1, <2>2 DEF ToSet
<1> QED BY <1>2, <1>3, <1>4

(* The latest of a run are a run again, as long as there are as many.       *)
LEMMA LatestOfRun ==
  ASSUME NEW q \in Seq(Nat), NEW n \in Nat, NEW k \in Nat, RunUpTo(q, n)
  PROVE  /\ LatestOf(q, k) \in Seq(Nat) /\ RunUpTo(LatestOf(q, k), n)
         /\ Len(LatestOf(q, k)) = IF Len(q) > k THEN k ELSE Len(q)
<1> DEFINE m == IF Len(q) > k THEN Len(q) - k + 1 ELSE 1
           l == LatestOf(q, k)
<1>1. Len(q) \in Nat /\ \A i \in 1..Len(q) : q[i] \in Nat
  BY LenProperties, ElementOfSeq
<1>2. /\ m \in Nat /\ m >= 1 /\ m <= Len(q) + 1
      /\ Len(q) - m + 1 = IF Len(q) > k THEN k ELSE Len(q)
  BY <1>1
<1> HIDE DEF m
<1>3. l = SubSeq(q, m, Len(q))
  BY DEF LatestOf, m
<1> HIDE DEF l
<1>4. /\ l \in Seq(Nat) /\ Len(l) = IF m <= Len(q) THEN Len(q) - m + 1 ELSE 0
      /\ \A i \in 1..(Len(q) - m + 1) : l[i] = q[m + i - 1]
  <2>1. \A i \in m..Len(q) : q[i] \in Nat
    BY <1>1, <1>2
  <2> QED BY <1>1, <1>2, <1>3, <2>1, SubSeqProperties
<1>5. Len(l) = Len(q) - m + 1
  BY <1>1, <1>2, <1>4
<1>6. RunUpTo(l, n)
  <2> SUFFICES ASSUME NEW i \in 1..Len(l) PROVE l[i] = n - Len(l) + i
    BY DEF RunUpTo
  <2>1. i \in 1..(Len(q) - m + 1) /\ m + i - 1 \in 1..Len(q)
    BY <1>1, <1>2, <1>5
  <2>2. l[i] = q[m + i - 1] /\ q[m + i - 1] = n - Len(q) + (m + i - 1)
    BY <1>4, <2>1 DEF RunUpTo
  <2> QED BY <1>1, <1>2, <1>5, <2>1, <2>2
<1> QED BY <1>2, <1>4, <1>5, <1>6 DEF l

(* A sequence is its head followed by its tail.                             *)
LEMMA HeadAndTail ==
  ASSUME NEW q \in Seq(Nat), q # << >>
  PROVE  /\ Head(q) \in Nat /\ Tail(q) \in Seq(Nat) /\ <<Head(q)>> \in Seq(Nat)
         /\ <<Head(q)>> \o Tail(q) = q
         /\ Len(q) \in Nat \ {0} /\ Len(Tail(q)) = Len(q) - 1
<1>1. /\ Len(q) \in Nat \ {0}
      /\ Head(q) \in Nat /\ Tail(q) \in Seq(Nat) /\ Len(Tail(q)) = Len(q) - 1
  BY EmptySeq, HeadTailProperties
<1>2. 1 \in 1..Len(q) /\ Len(q) \in 1..Len(q)
  BY <1>1
<1>3. SubSeq(q, 1, Len(q)) = <<q[1]>> \o SubSeq(q, 1 + 1, Len(q))
  BY <1>2, SubSeqRecursiveFirst
<1>4. SubSeq(q, 1, Len(q)) = q /\ Tail(q) = SubSeq(q, 2, Len(q)) /\ Head(q) = q[1]
  BY SubSeqFull, TailIsSubSeq
<1>5. <<Head(q)>> \in Seq(Nat)
  BY <1>1
<1>6. 1 + 1 = 2
  OBVIOUS
<1>7. <<Head(q)>> \o Tail(q) = q
  BY <1>3, <1>4, <1>6, Zenon
<1> QED BY <1>1, <1>5, <1>7, Zenon

(* Concatenations can be regrouped.                                         *)
LEMMA ConcatRegroups ==
  ASSUME NEW u \in Seq(Nat), NEW v \in Seq(Nat), NEW w \in Seq(Nat)
  PROVE  (u \o v) \o w = u \o (v \o w)
BY ConcatAssociative, SMTT(30)

(* The head of a sequence may as well be the end of the one before it.      *)
LEMMA HeadMovesOver ==
  ASSUME NEW h \in Seq(Nat), NEW q \in Seq(Nat), q # << >>
  PROVE  /\ (h \o <<Head(q)>>) \o Tail(q) = h \o q
         /\ Append(h, Head(q)) \o Tail(q) = h \o q
<1> DEFINE x == <<Head(q)>>
           y == Tail(q)
<1>1. x \in Seq(Nat) /\ y \in Seq(Nat) /\ x \o y = q /\ Head(q) \in Nat
  BY HeadAndTail
<1>2. Append(h, Head(q)) = h \o x
  BY <1>1, AppendIsConcat
<1> HIDE DEF x, y
<1>3. (h \o x) \o y = h \o (x \o y)
  BY <1>1, ConcatRegroups
<1> QED BY <1>1, <1>2, <1>3 DEF x, y

(* Appending to the second of two sequences appends to the whole.           *)
LEMMA AppendRegroups ==
  ASSUME NEW h \in Seq(Nat), NEW q \in Seq(Nat), NEW n \in Nat
  PROVE  h \o Append(q, n) = Append(h \o q, n)
<1> DEFINE y == <<n>>
<1>1. y \in Seq(Nat)
  OBVIOUS
<1>2. h \o q \in Seq(Nat)
  BY ConcatProperties
<1>3. Append(q, n) = q \o y /\ Append(h \o q, n) = (h \o q) \o y
  BY <1>2, AppendIsConcat
<1> HIDE DEF y
<1>4. (h \o q) \o y = h \o (q \o y)
  BY <1>1, ConcatRegroups
<1> QED BY <1>3, <1>4

(* The parts of a stream joined, and one number appended, as operators of   *)
(* their own, so that equalities of sequences stay closed to the provers.   *)
Joined(r, b, s, q) == r \o b \o s \o q
With(q, n) == Append(q, n)

(* Two sequences of payloads joined are one.                                *)
LEMMA JoinedIsSeq ==
  ASSUME NEW r \in Seq(Nat), NEW b \in Seq(Nat), NEW s \in Seq(Nat), NEW q \in Seq(Nat)
  PROVE  Joined(r, b, s, q) \in Seq(Nat)
BY ConcatProperties DEF Joined

(* What is appended to the last part is appended to the whole.              *)
LEMMA AppendToStream ==
  ASSUME NEW r \in Seq(Nat), NEW b \in Seq(Nat), NEW s \in Seq(Nat),
         NEW q \in Seq(Nat), NEW n \in Nat
  PROVE  Joined(r, b, s, With(q, n)) = With(Joined(r, b, s, q), n)
<1> DEFINE h == r \o b \o s
<1>1. h \in Seq(Nat)
  BY ConcatProperties
<1> HIDE DEF h
<1>2. h \o Append(q, n) = Append(h \o q, n)
  BY <1>1, AppendRegroups
<1> QED BY <1>2, Zenon DEF h, Joined, With

(* A payload that moves on from one part of a stream to the next leaves the *)
(* order of the stream as it is: from the replay list to what was sent,     *)
LEMMA ReplayMoves ==
  ASSUME NEW r \in Seq(Nat), NEW b \in Seq(Nat), NEW s \in Seq(Nat),
         NEW q \in Seq(Nat), b # << >>
  PROVE  Joined(With(r, Head(b)), Tail(b), s, q) = Joined(r, b, s, q)
<1>1. Append(r, Head(b)) \o Tail(b) = r \o b
  BY HeadMovesOver
<1> QED BY <1>1, Zenon DEF Joined, With

(* from the queue into the send,                                            *)
LEMMA TakeMoves ==
  ASSUME NEW r \in Seq(Nat), NEW b \in Seq(Nat), NEW q \in Seq(Nat), q # << >>
  PROVE  Joined(r, b, <<Head(q)>>, Tail(q)) = Joined(r, b, << >>, q)
<1> DEFINE h == r \o b
<1>1. h \in Seq(Nat)
  BY ConcatProperties
<1> HIDE DEF h
<1>2. (h \o <<Head(q)>>) \o Tail(q) = h \o q
  BY <1>1, HeadMovesOver
<1>3. h \o << >> = h
  BY <1>1, ConcatEmptySeq
<1> QED BY <1>2, <1>3, Zenon DEF h, Joined

(* and from the send to what was sent.                                      *)
LEMMA SendMoves ==
  ASSUME NEW r \in Seq(Nat), NEW s \in Seq(Nat), NEW q \in Seq(Nat)
  PROVE  Joined(r \o s, << >>, << >>, q) = Joined(r, << >>, s, q)
<1> DEFINE h == r \o s
<1>1. h \in Seq(Nat)
  BY ConcatProperties
<1> HIDE DEF h
<1>2. h \o << >> = h /\ r \o << >> = r
  BY <1>1, ConcatEmptySeq
<1>3. Joined(h, << >>, << >>, q) = h \o q
  BY <1>2, Zenon DEF Joined
<1>4. Joined(r, << >>, s, q) = h \o q
  BY <1>2, Zenon DEF Joined, h
<1> QED BY <1>3, <1>4, Zenon DEF h
-----------------------------------------------------------------------------
(* A connection that is none yet, or no more, has no stream to speak of.    *)
LEMMA FeedInitInv == Init => FeedInv
<1> SUFFICES ASSUME Init PROVE FeedInv
  OBVIOUS
<1>1. << >> \in Seq(Nat) /\ Len(<< >>) = 0 /\ QueueSize \in Nat
  BY EmptySeq, FeedAssumption
<1>2. TypeOK
  BY <1>1 DEF Init, TypeOK, Stages
<1>3. RingInv
  BY <1>1, FeedAssumption DEF Init, RingInv, RunUpTo, Feeds
<1>4. ASSUME NEW c \in Conns PROVE PumpInv(c) /\ StreamInv(c)
  BY <1>1 DEF Init, PumpInv, StreamInv, Serving
<1> QED BY <1>2, <1>3, <1>4 DEF FeedInv

(* Every connection is of one feed.                                         *)
LEMMA FeedOfConn ==
  /\ \A c \in Conns : Feed(c) \in Feeds
  /\ \A c \in AlertConns : c \in Conns /\ Feed(c) = "alerts"
BY DEF Conns, Feed, Feeds

(* What a connection has to do with a step: nothing, if none of what is its *)
(* own changes and nothing is published that it should have.                *)
LEMMA ConnUntouched ==
  ASSUME NEW c \in Conns, PumpInv(c), StreamInv(c),
         pc'[c] = pc[c], backlog'[c] = backlog[c], sending'[c] = sending[c],
         received'[c] = received[c], since'[c] = since[c],
         queue'[c] = queue[c], dropped'[c] = dropped[c],
         c \in subs' <=> c \in subs,
         pc[c] \in Serving => published'[Feed(c)] = published[Feed(c)]
  PROVE  (PumpInv(c) /\ StreamInv(c))'
<1>1. Stream(c)' = Stream(c)
  BY DEF Stream
<1>2. PumpInv(c)'
  BY DEF PumpInv
<1>3. StreamInv(c)'
  BY <1>1 DEF StreamInv
<1> QED BY <1>2, <1>3

(* A stream that goes on being served, with its parts moved, is as good as  *)
(* before.                                                                  *)
LEMMA StreamMoved ==
  ASSUME NEW c \in Conns, StreamInv(c), pc[c] \in Serving,
         Stream(c)' = Stream(c), UNCHANGED <<published, dropped, since>>
  PROVE  StreamInv(c)'
BY DEF StreamInv

(* The parts of a connection are sequences of numbers, and so is the whole. *)
LEMMA ConnTypes ==
  ASSUME TypeOK, NEW c \in Conns
  PROVE  /\ received[c] \in Seq(Nat) /\ backlog[c] \in Seq(Nat)
         /\ sending[c] \in Seq(Nat) /\ queue[c] \in Seq(Nat)
         /\ dropped[c] \in SUBSET Nat /\ since[c] \in Nat \ {0}
         /\ published[Feed(c)] \in Nat /\ pc[c] \in Stages
         /\ Stream(c) \in Seq(Nat)
<1>1. /\ received[c] \in Seq(Nat) /\ backlog[c] \in Seq(Nat)
      /\ sending[c] \in Seq(Nat) /\ queue[c] \in Seq(Nat)
      /\ dropped[c] \in SUBSET Nat /\ since[c] \in Nat \ {0}
      /\ published[Feed(c)] \in Nat /\ pc[c] \in Stages
  BY FeedOfConn DEF TypeOK
<1>2. Stream(c) \in Seq(Nat)
  <2>1. Stream(c) = Joined(received[c], backlog[c], sending[c], queue[c])
    BY Zenon DEF Stream, Joined
  <2>2. Joined(received[c], backlog[c], sending[c], queue[c]) \in Seq(Nat)
    BY <1>1, JoinedIsSeq
  <2> QED BY <2>1, <2>2, Zenon
<1> QED BY <1>1, <1>2

(* One payload is published: each subscriber of its feed gets it at the end *)
(* of its stream or, its queue being full, among what was dropped.          *)
LEMMA FanOutKeepsConns ==
  ASSUME FeedInv, NEW f \in Feeds,
         published' = [published EXCEPT ![f] = @ + 1],
         FanOut(f, published'[f]), UNCHANGED <<subs, pumps>>
  PROVE  /\ published' \in [Feeds -> Nat]
         /\ queue' \in [Conns -> Seq(Nat)] /\ dropped' \in [Conns -> SUBSET Nat]
         /\ \A c \in Conns : (PumpInv(c) /\ StreamInv(c))'
<1> DEFINE n == published[f] + 1
<1>1. /\ TypeOK /\ published[f] \in Nat /\ n \in Nat /\ published'[f] = n
      /\ published' \in [Feeds -> Nat]
      /\ \A g \in Feeds \ {f} : published'[g] = published[g]
  BY DEF FeedInv, TypeOK
<1>2. /\ queue' = [c \in Conns |->
                     IF (c \in subs /\ Feed(c) = f) /\ Len(queue[c]) < QueueSize
                       THEN Append(queue[c], n) ELSE queue[c]]
      /\ dropped' = [c \in Conns |->
                     IF (c \in subs /\ Feed(c) = f) /\ Len(queue[c]) >= QueueSize
                       THEN dropped[c] \cup {n} ELSE dropped[c]]
  BY <1>1 DEF FanOut
<1>3. UNCHANGED <<subs, pc, backlog, sending, connected, received, since>>
  BY DEF pumps
<1> HIDE DEF n
<1>4. ASSUME NEW c \in Conns
      PROVE  /\ queue'[c] \in Seq(Nat) /\ dropped'[c] \in SUBSET Nat
             /\ (PumpInv(c) /\ StreamInv(c))'
  <2>1. /\ PumpInv(c) /\ StreamInv(c) /\ Feed(c) \in Feeds
        /\ queue[c] \in Seq(Nat) /\ dropped[c] \in SUBSET Nat
        /\ Len(queue[c]) \in Nat /\ QueueSize \in Nat
        /\ since[c] \in Nat \ {0} /\ Stream(c) \in Seq(Nat)
    BY <1>1, ConnTypes, FeedOfConn, LenProperties, FeedAssumption DEF FeedInv
  <2>2. CASE ~(c \in subs /\ Feed(c) = f)
    <3>1. queue'[c] = queue[c] /\ dropped'[c] = dropped[c]
      BY <1>2, <2>2
    <3>2. pc[c] \in Serving => published'[Feed(c)] = published[Feed(c)]
      BY <1>1, <2>1, <2>2 DEF PumpInv, Serving
    <3> QED BY <1>3, <2>1, <3>1, <3>2, ConnUntouched
  <2>3. CASE (c \in subs /\ Feed(c) = f) /\ Len(queue[c]) < QueueSize
    <3>1. queue'[c] = Append(queue[c], n) /\ dropped'[c] = dropped[c]
      BY <1>2, <2>1, <2>3
    <3>2. queue'[c] \in Seq(Nat) /\ Len(queue'[c]) = Len(queue[c]) + 1
      BY <1>1, <2>1, <3>1, AppendProperties
    <3>3. PumpInv(c)'
      <4>1. Len(queue'[c]) <= QueueSize
        BY <2>1, <2>3, <3>2
      <4> QED BY <1>3, <2>1, <2>3, <3>1, <4>1 DEF PumpInv, Serving
    <3>4. StreamInv(c)'
      <4> SUFFICES ASSUME pc[c] \in Serving PROVE StreamInv(c)'
        BY <1>3 DEF StreamInv
      <4> DEFINE T == ToSet(Stream(c))
                 D == dropped[c]
                 p == published[f]
      <4>1. Stream(c)' = Append(Stream(c), n)
        <5>1. /\ received[c] \in Seq(Nat) /\ backlog[c] \in Seq(Nat)
              /\ sending[c] \in Seq(Nat)
          BY <1>1, ConnTypes
        <5>2. Joined(received[c], backlog[c], sending[c], With(queue[c], n))
                = With(Joined(received[c], backlog[c], sending[c], queue[c]), n)
          BY <1>1, <2>1, <5>1, AppendToStream
        <5>3. Stream(c) = Joined(received[c], backlog[c], sending[c], queue[c])
          BY Zenon DEF Stream, Joined
        <5>4. Stream(c)' = Joined(received'[c], backlog'[c], sending'[c], queue'[c])
          BY Zenon DEF Stream, Joined
        <5>5. queue'[c] = With(queue[c], n)
          BY <3>1, Zenon DEF With
        <5>6. Stream(c)' = With(Stream(c), n)
          BY <1>3, <5>2, <5>3, <5>4, <5>5
        <5> QED BY <5>6, Zenon DEF With
      <4>2. /\ since[c] <= p + 1 /\ Ascending(Stream(c)) /\ T \cap D = {}
            /\ T \cup D = since[c]..p
        BY <2>1, <2>3 DEF StreamInv
      <4>3. p \in Nat /\ n = p + 1 /\ \A a \in T \cup D : a < n
        BY <1>1, <2>1, <4>2 DEF n
      <4>4. /\ Ascending(Append(Stream(c), n))
            /\ ToSet(Append(Stream(c), n)) = T \cup {n}
        BY <1>1, <2>1, <4>2, <4>3, AscendingAppend
      <4>5. n \notin D /\ n \notin T
        BY <1>1, <4>3
      <4> HIDE DEF T, D, p
      <4>6. since[c]..n = (since[c]..p) \cup {n}
        BY <2>1, <4>2, <4>3
      <4>7. (T \cup {n}) \cup D = since[c]..n /\ (T \cup {n}) \cap D = {}
        BY <4>2, <4>5, <4>6
      <4>8. published'[Feed(c)] = n /\ since'[c] = since[c] /\ since[c] <= n + 1
        BY <1>1, <1>3, <2>1, <2>3, <4>2, <4>3
      <4> QED BY <3>1, <4>1, <4>4, <4>7, <4>8 DEF StreamInv, D
    <3> QED BY <2>1, <3>1, <3>2, <3>3, <3>4
  <2>4. CASE (c \in subs /\ Feed(c) = f) /\ ~(Len(queue[c]) < QueueSize)
    <3>1. queue'[c] = queue[c] /\ dropped'[c] = dropped[c] \cup {n}
      BY <1>2, <2>1, <2>4
    <3>2. PumpInv(c)'
      BY <1>3, <2>1, <2>4, <3>1 DEF PumpInv, Serving
    <3>3. StreamInv(c)'
      <4> SUFFICES ASSUME pc[c] \in Serving PROVE StreamInv(c)'
        BY <1>3 DEF StreamInv
      <4> DEFINE T == ToSet(Stream(c))
                 D == dropped[c]
                 p == published[f]
      <4>1. Stream(c)' = Stream(c)
        BY <1>3, <3>1 DEF Stream
      <4>2. /\ since[c] <= p + 1 /\ Ascending(Stream(c)) /\ T \cap D = {}
            /\ T \cup D = since[c]..p
        BY <2>1, <2>4 DEF StreamInv
      <4>3. p \in Nat /\ n = p + 1 /\ \A a \in T \cup D : a < n
        BY <1>1, <2>1, <4>2 DEF n
      <4>4. n \notin T
        BY <1>1, <4>3
      <4>5. published'[Feed(c)] = n /\ since'[c] = since[c]
        BY <1>1, <1>3, <2>1, <2>4
      <4> HIDE DEF T, D, p
      <4>6. since[c]..n = (since[c]..p) \cup {n} /\ since[c] <= n + 1
        BY <2>1, <4>2, <4>3
      <4>7. T \cup (D \cup {n}) = since[c]..n /\ T \cap (D \cup {n}) = {}
        BY <4>2, <4>4, <4>6
      <4> QED BY <3>1, <4>1, <4>2, <4>5, <4>6, <4>7 DEF StreamInv, T, D
    <3>4. dropped'[c] \in SUBSET Nat
      BY <1>1, <2>1, <3>1
    <3> QED BY <2>1, <3>1, <3>2, <3>3, <3>4
  <2> QED BY <2>2, <2>3, <2>4
<1>5. queue' \in [Conns -> Seq(Nat)]
  <2>1. queue' = [c \in Conns |-> queue'[c]]
    BY <1>2
  <2> QED BY <1>4, <2>1
<1>6. dropped' \in [Conns -> SUBSET Nat]
  <2>1. dropped' = [c \in Conns |-> dropped'[c]]
    BY <1>2
  <2> QED BY <1>4, <2>1
<1> QED BY <1>1, <1>4, <1>5, <1>6

(* An alert published goes into the ring and into each queue that has room. *)
LEMMA PublishAlertKeepsInv ==
  ASSUME FeedInv, PublishAlert
  PROVE  FeedInv'
<1> DEFINE n == published["alerts"] + 1
           q == Append(recent, n)
<1>1. /\ TypeOK /\ RingInv /\ published["alerts"] \in Nat /\ n \in Nat
      /\ "alerts" \in Feeds
  BY DEF FeedInv, TypeOK, Feeds
<1>2. /\ published' = [published EXCEPT !["alerts"] = @ + 1] /\ published'["alerts"] = n
      /\ recent' = LatestOf(q, History)
      /\ FanOut("alerts", published'["alerts"]) /\ UNCHANGED <<subs, pumps>>
  BY <1>1 DEF PublishAlert, TypeOK
<1>3. /\ published' \in [Feeds -> Nat]
      /\ queue' \in [Conns -> Seq(Nat)] /\ dropped' \in [Conns -> SUBSET Nat]
      /\ \A c \in Conns : (PumpInv(c) /\ StreamInv(c))'
  BY <1>1, <1>2, FanOutKeepsConns
<1>4. /\ q \in Seq(Nat) /\ Len(q) = Len(recent) + 1 /\ Len(recent) \in Nat
      /\ \A i \in 1..Len(recent) : q[i] = recent[i]
      /\ q[Len(recent) + 1] = n
  BY <1>1, AppendProperties, LenProperties DEF TypeOK
<1>5. \A i \in 1..Len(recent) : recent[i] = published["alerts"] - Len(recent) + i
  BY <1>1 DEF RingInv, RunUpTo
<1> HIDE DEF q
<1>6. RunUpTo(q, n)
  <2> SUFFICES ASSUME NEW i \in 1..Len(q) PROVE q[i] = n - Len(q) + i
    BY DEF RunUpTo
  <2>1. i \in 1..(Len(recent) + 1)
    BY <1>4
  <2>2. CASE i = Len(recent) + 1
    BY <1>1, <1>4, <2>2
  <2>3. CASE i # Len(recent) + 1
    <3>1. i \in 1..Len(recent)
      BY <1>4, <2>1, <2>3
    <3>2. q[i] = published["alerts"] - Len(recent) + i
      BY <1>4, <1>5, <3>1
    <3> QED BY <1>1, <1>4, <3>1, <3>2
  <2> QED BY <2>2, <2>3
<1>7. /\ recent' \in Seq(Nat) /\ RunUpTo(recent', n)
      /\ Len(recent') = IF Len(q) > History THEN History ELSE Len(q)
  BY <1>1, <1>2, <1>4, <1>6, LatestOfRun, FeedAssumption
<1>8. Len(recent') = IF n < History THEN n ELSE History
  <2>1. Len(recent) = IF published["alerts"] < History THEN published["alerts"] ELSE History
    BY <1>1 DEF RingInv
  <2> QED BY <1>1, <1>4, <1>7, <2>1, FeedAssumption
<1>9. RingInv'
  BY <1>2, <1>7, <1>8 DEF RingInv
<1>10. TypeOK'
  BY <1>1, <1>2, <1>3, <1>7 DEF TypeOK, pumps
<1> QED BY <1>3, <1>9, <1>10 DEF FeedInv

(* A trade published goes into the queues only: there is no ring of trades. *)
LEMMA PublishTradeKeepsInv ==
  ASSUME FeedInv, PublishTrade
  PROVE  FeedInv'
<1>1. TypeOK /\ RingInv /\ "trades" \in Feeds /\ "alerts" \in Feeds
  BY DEF FeedInv, Feeds
<1>2. /\ published' = [published EXCEPT !["trades"] = @ + 1]
      /\ FanOut("trades", published'["trades"]) /\ UNCHANGED <<recent, subs, pumps>>
  BY DEF PublishTrade
<1>3. /\ published' \in [Feeds -> Nat]
      /\ queue' \in [Conns -> Seq(Nat)] /\ dropped' \in [Conns -> SUBSET Nat]
      /\ \A c \in Conns : (PumpInv(c) /\ StreamInv(c))'
  BY <1>1, <1>2, FanOutKeepsConns
<1>4. published'["alerts"] = published["alerts"]
  BY <1>1, <1>2 DEF TypeOK
<1>5. RingInv'
  BY <1>1, <1>2, <1>4 DEF RingInv
<1>6. TypeOK'
  BY <1>1, <1>2, <1>3 DEF TypeOK, pumps
<1> QED BY <1>3, <1>5, <1>6 DEF FeedInv

(* The list a connection has replayed to it: a run up to the latest alert.  *)
LEMMA ReplayIsRun ==
  ASSUME FeedInv
  PROVE  LET l == RecentAlerts(ReplayLimit)
         IN  /\ l \in Seq(Nat) /\ RunUpTo(l, published["alerts"])
             /\ Len(l) = IF Len(recent) > ReplayLimit THEN ReplayLimit ELSE Len(recent)
             /\ Len(l) \in Nat /\ Len(l) <= published["alerts"]
<1>1. /\ recent \in Seq(Nat) /\ published["alerts"] \in Nat /\ Len(recent) \in Nat
      /\ RunUpTo(recent, published["alerts"]) /\ Len(recent) <= published["alerts"]
  <2>1. recent \in Seq(Nat) /\ published["alerts"] \in Nat /\ RingInv
    BY DEF FeedInv, TypeOK, Feeds
  <2> QED BY <2>1, LenProperties, FeedAssumption DEF RingInv
<1>2. ReplayLimit \in Nat \ {0}
  BY FeedAssumption
<1> DEFINE l == LatestOf(recent, ReplayLimit)
<1>3. /\ l \in Seq(Nat) /\ RunUpTo(l, published["alerts"])
      /\ Len(l) = IF Len(recent) > ReplayLimit THEN ReplayLimit ELSE Len(recent)
  BY <1>1, <1>2, LatestOfRun
<1>4. RecentAlerts(ReplayLimit) = l
  BY <1>2 DEF RecentAlerts
<1> HIDE DEF l
<1>5. Len(l) \in Nat /\ Len(l) <= published["alerts"]
  BY <1>1, <1>2, <1>3
<1> QED BY <1>3, <1>4, <1>5

(* A new connection: its stream is what it has replayed to it, which is     *)
(* what was published from since on.                                        *)
LEMMA OpenKeepsInv ==
  ASSUME FeedInv, NEW c \in Conns, Open(c)
  PROVE  FeedInv'
<1> DEFINE l == IF Feed(c) = "alerts" THEN RecentAlerts(ReplayLimit) ELSE << >>
           p == published[Feed(c)]
<1>1. /\ TypeOK /\ RingInv /\ PumpInv(c) /\ pc[c] = "new" /\ p \in Nat
      /\ received[c] = << >> /\ sending[c] = << >> /\ queue[c] = << >>
      /\ dropped[c] = {}
  BY ConnTypes DEF FeedInv, Open, PumpInv
<1>2. /\ l \in Seq(Nat) /\ Len(l) \in Nat /\ Len(l) <= p /\ RunUpTo(l, p)
      /\ l = << >> <=> Len(l) = 0
  <2>1. CASE Feed(c) = "alerts"
    <3>1. l = RecentAlerts(ReplayLimit) /\ p = published["alerts"]
      BY <2>1
    <3> HIDE DEF l, p
    <3>2. l \in Seq(Nat) /\ Len(l) \in Nat /\ Len(l) <= p /\ RunUpTo(l, p)
      BY <3>1, ReplayIsRun
    <3> QED BY <3>2, EmptySeq
  <2>2. CASE Feed(c) # "alerts"
    <3>1. l = << >>
      BY <2>2
    <3> HIDE DEF l
    <3> QED BY <1>1, <3>1, EmptySeq DEF RunUpTo
  <2> QED BY <2>1, <2>2
<1>3. /\ connected' = [connected EXCEPT ![c] = TRUE] /\ subs' = subs \cup {c}
      /\ backlog' = [backlog EXCEPT ![c] = l]
      /\ pc' = [pc EXCEPT ![c] = IF l = << >> THEN "waiting" ELSE "replaying"]
      /\ since' = [since EXCEPT ![c] = p - Len(l) + 1]
      /\ UNCHANGED <<published, recent, queue, dropped, sending, received>>
  BY DEF Open
<1> HIDE DEF l, p
<1>4. /\ pc'[c] = (IF l = << >> THEN "waiting" ELSE "replaying")
      /\ backlog'[c] = l /\ since'[c] = p - Len(l) + 1
      /\ p - Len(l) + 1 \in Nat \ {0}
      /\ received'[c] = << >> /\ sending'[c] = << >> /\ queue'[c] = << >>
      /\ dropped'[c] = {} /\ published'[Feed(c)] = p
  BY <1>1, <1>2, <1>3 DEF TypeOK, p
<1>5. TypeOK'
  BY <1>1, <1>2, <1>3, <1>4 DEF TypeOK, Stages
<1>6. RingInv'
  BY <1>1, <1>3 DEF RingInv
<1>7. ASSUME NEW d \in Conns, d # c PROVE (PumpInv(d) /\ StreamInv(d))'
  <2>1. /\ pc'[d] = pc[d] /\ backlog'[d] = backlog[d] /\ sending'[d] = sending[d]
        /\ received'[d] = received[d] /\ since'[d] = since[d]
        /\ queue'[d] = queue[d] /\ dropped'[d] = dropped[d]
        /\ d \in subs' <=> d \in subs
    BY <1>1, <1>3, <1>7 DEF TypeOK
  <2> QED BY <1>3, <2>1, ConnUntouched DEF FeedInv
<1>8. PumpInv(c)'
  <2>1. Len(<< >>) = 0 /\ QueueSize \in Nat
    BY EmptySeq, FeedAssumption
  <2> QED BY <1>3, <1>4, <2>1 DEF PumpInv, Serving
<1>9. StreamInv(c)'
  <2>1. Stream(c)' = Joined(received'[c], backlog'[c], sending'[c], queue'[c])
    BY Zenon DEF Stream, Joined
  <2>2. Joined(<< >>, l, << >>, << >>) = l
    <3>1. << >> \o l = l /\ l \o << >> = l
      BY <1>2, ConcatEmptySeq
    <3> QED BY <3>1, Zenon DEF Joined
  <2>3. Stream(c)' = l
    BY <1>4, <2>1, <2>2, Zenon
  <2>4. Ascending(l) /\ ToSet(l) = (p - Len(l) + 1)..p
    BY <1>1, <1>2, RunIsAscending
  <2>5. /\ Ascending(Stream(c)') /\ ToSet(Stream(c)') = since'[c]..p
    BY <1>4, <2>3, <2>4, Zenon
  <2>6. since'[c] <= p + 1
    BY <1>1, <1>2, <1>4
  <2> QED BY <1>4, <2>5, <2>6 DEF StreamInv
<1> QED BY <1>5, <1>6, <1>7, <1>8, <1>9 DEF FeedInv

(* A pump hands its client a payload or takes the next one: one connection  *)
(* moves along its stream, and nobody else's changes.                       *)
LEMMA PumpMoves ==
  ASSUME FeedInv, NEW c \in Conns, TypeOK',
         UNCHANGED <<published, recent, subs, dropped, since>>,
         pc[c] \in Serving, pc'[c] \in Serving,
         Stream(c)' = Stream(c), PumpInv(c)',
         \A d \in Conns \ {c} :
           /\ pc'[d] = pc[d] /\ backlog'[d] = backlog[d] /\ sending'[d] = sending[d]
           /\ received'[d] = received[d] /\ queue'[d] = queue[d]
  PROVE  FeedInv'
<1>1. RingInv'
  BY DEF FeedInv, RingInv
<1>2. ASSUME NEW d \in Conns, d # c PROVE (PumpInv(d) /\ StreamInv(d))'
  BY <1>2, ConnUntouched DEF FeedInv
<1>3. StreamInv(c)'
  BY StreamMoved DEF FeedInv
<1> QED BY <1>1, <1>2, <1>3 DEF FeedInv

(* The replay goes on by one alert, which the client gets, or comes to its  *)
(* end.                                                                     *)
LEMMA ReplayKeepsInv ==
  ASSUME FeedInv, NEW c \in Conns, Replay(c)
  PROVE  FeedInv'
<1> DEFINE b == backlog[c]
<1>1. /\ TypeOK /\ PumpInv(c) /\ pc[c] = "replaying" /\ pc[c] \in Serving
      /\ received[c] \in Seq(Nat) /\ sending[c] \in Seq(Nat) /\ queue[c] \in Seq(Nat)
      /\ b \in Seq(Nat)
  BY ConnTypes DEF FeedInv, Replay, Serving
<1>2. /\ received' = [received EXCEPT ![c] = Append(@, Head(b))]
      /\ backlog' = [backlog EXCEPT ![c] = Tail(@)]
      /\ pc' = [pc EXCEPT ![c] = IF Len(b) = 1 THEN "waiting" ELSE "replaying"]
      /\ UNCHANGED <<published, recent, subs, queue, dropped, sending, connected, since>>
  BY DEF Replay
<1>3. b # << >>
  BY <1>1 DEF PumpInv
<1> HIDE DEF b
<1>4. /\ Head(b) \in Nat /\ Tail(b) \in Seq(Nat) /\ Len(b) \in Nat \ {0}
      /\ Len(Tail(b)) = Len(b) - 1
  BY <1>1, <1>3, HeadAndTail
<1>5. Append(received[c], Head(b)) \in Seq(Nat)
  BY <1>1, <1>4, AppendProperties
<1>6. /\ received'[c] = With(received[c], Head(b)) /\ backlog'[c] = Tail(b)
      /\ pc'[c] = IF Len(b) = 1 THEN "waiting" ELSE "replaying"
  BY <1>1, <1>2, Zenon DEF TypeOK, b, With
<1>7. TypeOK'
  <2>1. received' \in [Conns -> Seq(Nat)]
    BY <1>1, <1>2, <1>5 DEF TypeOK
  <2>2. backlog' \in [Conns -> Seq(Nat)]
    BY <1>1, <1>2, <1>4 DEF TypeOK, b
  <2>3. pc' \in [Conns -> Stages]
    BY <1>1, <1>2 DEF TypeOK, Stages
  <2> QED BY <1>1, <1>2, <2>1, <2>2, <2>3 DEF TypeOK
<1>8. Stream(c)' = Stream(c)
  <2>1. Stream(c)' = Joined(received'[c], backlog'[c], sending'[c], queue'[c])
        /\ Stream(c) = Joined(received[c], b, sending[c], queue[c])
    BY Zenon DEF Stream, Joined, b
  <2>2. Joined(With(received[c], Head(b)), Tail(b), sending[c], queue[c])
          = Joined(received[c], b, sending[c], queue[c])
    BY <1>1, <1>3, ReplayMoves
  <2>3. sending'[c] = sending[c] /\ queue'[c] = queue[c]
    BY <1>2
  <2> QED BY <1>6, <2>1, <2>2, <2>3, Zenon
<1>9. PumpInv(c)'
  <2> DEFINE t == Tail(b)
  <2>1. t = << >> <=> Len(b) = 1
    <3>1. t \in Seq(Nat) /\ Len(t) = Len(b) - 1
      BY <1>4
    <3> HIDE DEF t
    <3> QED BY <1>4, <3>1, EmptySeq
  <2>2. sending'[c] = sending[c] /\ queue'[c] = queue[c] /\ subs' = subs
    BY <1>2
  <2> QED BY <1>1, <1>6, <2>1, <2>2 DEF PumpInv, Serving
<1>10. pc'[c] \in Serving
  BY <1>6 DEF Serving
<1>11. \A d \in Conns \ {c} :
         /\ pc'[d] = pc[d] /\ backlog'[d] = backlog[d] /\ sending'[d] = sending[d]
         /\ received'[d] = received[d] /\ queue'[d] = queue[d]
  BY <1>1, <1>2 DEF TypeOK
<1> QED BY <1>1, <1>2, <1>7, <1>8, <1>9, <1>10, <1>11, PumpMoves

(* The pump takes the head of its queue in hand.                            *)
LEMMA TakeKeepsInv ==
  ASSUME FeedInv, NEW c \in Conns, Take(c)
  PROVE  FeedInv'
<1> DEFINE q == queue[c]
<1>1. /\ TypeOK /\ PumpInv(c) /\ pc[c] = "waiting" /\ pc[c] \in Serving /\ q # << >>
      /\ received[c] \in Seq(Nat) /\ backlog[c] \in Seq(Nat) /\ q \in Seq(Nat)
      /\ sending[c] \in Seq(Nat)
  BY ConnTypes DEF FeedInv, Take, Serving
<1>2. /\ sending' = [sending EXCEPT ![c] = <<Head(q)>>]
      /\ queue' = [queue EXCEPT ![c] = Tail(@)]
      /\ pc' = [pc EXCEPT ![c] = "sending"]
      /\ UNCHANGED <<published, recent, subs, dropped, backlog, connected, received, since>>
  BY DEF Take
<1>3. sending[c] = << >> /\ Len(q) <= QueueSize /\ QueueSize \in Nat
  BY <1>1, EmptySeq, FeedAssumption DEF PumpInv
<1> HIDE DEF q
<1>4. /\ <<Head(q)>> \in Seq(Nat) /\ Tail(q) \in Seq(Nat) /\ Len(q) \in Nat
      /\ Len(Tail(q)) = Len(q) - 1
  BY <1>1, HeadAndTail
<1>5. sending'[c] = <<Head(q)>> /\ queue'[c] = Tail(q) /\ pc'[c] = "sending"
  BY <1>1, <1>2, Zenon DEF TypeOK, q
<1>6. TypeOK'
  <2>1. sending' \in [Conns -> Seq(Nat)]
    BY <1>1, <1>2, <1>4 DEF TypeOK
  <2>2. queue' \in [Conns -> Seq(Nat)]
    BY <1>1, <1>2, <1>4 DEF TypeOK, q
  <2>3. pc' \in [Conns -> Stages]
    BY <1>1, <1>2 DEF TypeOK, Stages
  <2> QED BY <1>1, <1>2, <2>1, <2>2, <2>3 DEF TypeOK
<1>7. Stream(c)' = Stream(c)
  <2>1. Stream(c)' = Joined(received'[c], backlog'[c], sending'[c], queue'[c])
        /\ Stream(c) = Joined(received[c], backlog[c], sending[c], q)
    BY Zenon DEF Stream, Joined, q
  <2>2. Joined(received[c], backlog[c], <<Head(q)>>, Tail(q))
          = Joined(received[c], backlog[c], << >>, q)
    BY <1>1, TakeMoves
  <2>3. received'[c] = received[c] /\ backlog'[c] = backlog[c]
    BY <1>2
  <2> QED BY <1>3, <1>5, <2>1, <2>2, <2>3, Zenon
<1>8. PumpInv(c)'
  <2>1. Len(<<Head(q)>>) = 1 /\ Len(Tail(q)) <= QueueSize
    BY <1>3, <1>4
  <2>2. backlog'[c] = backlog[c] /\ subs' = subs
    BY <1>2
  <2> QED BY <1>1, <1>5, <2>1, <2>2 DEF PumpInv, Serving
<1>9. pc'[c] \in Serving
  BY <1>5 DEF Serving
<1>10. \A d \in Conns \ {c} :
         /\ pc'[d] = pc[d] /\ backlog'[d] = backlog[d] /\ sending'[d] = sending[d]
         /\ received'[d] = received[d] /\ queue'[d] = queue[d]
  BY <1>1, <1>2 DEF TypeOK
<1> QED BY <1>1, <1>2, <1>6, <1>7, <1>8, <1>9, <1>10, PumpMoves

(* What was in hand has reached the client.                                 *)
LEMMA SendKeepsInv ==
  ASSUME FeedInv, NEW c \in Conns, Send(c)
  PROVE  FeedInv'
<1>1. /\ TypeOK /\ PumpInv(c) /\ pc[c] = "sending" /\ pc[c] \in Serving
      /\ received[c] \in Seq(Nat) /\ backlog[c] \in Seq(Nat) /\ queue[c] \in Seq(Nat)
      /\ sending[c] \in Seq(Nat)
  BY ConnTypes DEF FeedInv, Send, Serving
<1>2. /\ received' = [received EXCEPT ![c] = @ \o sending[c]]
      /\ sending' = [sending EXCEPT ![c] = << >>]
      /\ pc' = [pc EXCEPT ![c] = "waiting"]
      /\ UNCHANGED <<published, recent, subs, queue, dropped, backlog, connected, since>>
  BY DEF Send
<1>3. backlog[c] = << >>
  BY <1>1 DEF PumpInv
<1>4. received[c] \o sending[c] \in Seq(Nat) /\ << >> \in Seq(Nat) /\ Len(<< >>) = 0
  BY <1>1, ConcatProperties, EmptySeq
<1>5. /\ received'[c] = received[c] \o sending[c] /\ sending'[c] = << >>
      /\ pc'[c] = "waiting"
  BY <1>1, <1>2, Zenon DEF TypeOK
<1>6. TypeOK'
  <2>1. received' \in [Conns -> Seq(Nat)]
    BY <1>1, <1>2, <1>4 DEF TypeOK
  <2>2. sending' \in [Conns -> Seq(Nat)]
    BY <1>1, <1>2, <1>4 DEF TypeOK
  <2>3. pc' \in [Conns -> Stages]
    BY <1>1, <1>2 DEF TypeOK, Stages
  <2> QED BY <1>1, <1>2, <2>1, <2>2, <2>3 DEF TypeOK
<1>7. Stream(c)' = Stream(c)
  <2>1. Stream(c)' = Joined(received'[c], backlog'[c], sending'[c], queue'[c])
        /\ Stream(c) = Joined(received[c], backlog[c], sending[c], queue[c])
    BY Zenon DEF Stream, Joined
  <2>2. Joined(received[c] \o sending[c], << >>, << >>, queue[c])
          = Joined(received[c], << >>, sending[c], queue[c])
    BY <1>1, SendMoves
  <2>3. queue'[c] = queue[c] /\ backlog'[c] = backlog[c]
    BY <1>2
  <2> QED BY <1>3, <1>5, <2>1, <2>2, <2>3, Zenon
<1>8. PumpInv(c)'
  <2>1. backlog'[c] = backlog[c] /\ subs' = subs /\ queue'[c] = queue[c]
    BY <1>2
  <2> QED BY <1>1, <1>3, <1>4, <1>5, <2>1 DEF PumpInv, Serving
<1>9. pc'[c] \in Serving
  BY <1>5 DEF Serving
<1>10. \A d \in Conns \ {c} :
         /\ pc'[d] = pc[d] /\ backlog'[d] = backlog[d] /\ sending'[d] = sending[d]
         /\ received'[d] = received[d] /\ queue'[d] = queue[d]
  BY <1>1, <1>2 DEF TypeOK
<1> QED BY <1>1, <1>2, <1>6, <1>7, <1>8, <1>9, <1>10, PumpMoves

(* A pump that ends has no stream left to keep.                             *)
LEMMA ReplayFailsKeepsInv ==
  ASSUME FeedInv, NEW c \in Conns, ReplayFails(c)
  PROVE  FeedInv'
<1>1. /\ TypeOK /\ PumpInv(c) /\ pc[c] = "replaying"
  BY DEF FeedInv, ReplayFails
<1>2. /\ pc' = [pc EXCEPT ![c] = "failed"] /\ backlog' = [backlog EXCEPT ![c] = << >>]
      /\ UNCHANGED <<published, recent, subs, queue, dropped, sending, connected,
                     received, since>>
  BY DEF ReplayFails
<1>3. << >> \in Seq(Nat) /\ pc'[c] = "failed"
  BY <1>1, <1>2, EmptySeq DEF TypeOK
<1>4. TypeOK'
  BY <1>1, <1>2, <1>3 DEF TypeOK, Stages
<1>5. RingInv'
  BY <1>2 DEF FeedInv, RingInv
<1>6. ASSUME NEW d \in Conns, d # c PROVE (PumpInv(d) /\ StreamInv(d))'
  <2>1. pc'[d] = pc[d] /\ backlog'[d] = backlog[d]
    BY <1>1, <1>2, <1>6 DEF TypeOK
  <2> QED BY <1>2, <2>1, ConnUntouched DEF FeedInv
<1>7. PumpInv(c)' /\ StreamInv(c)'
  BY <1>1, <1>2, <1>3 DEF PumpInv, StreamInv, Serving
<1> QED BY <1>4, <1>5, <1>6, <1>7 DEF FeedInv

(* The client has left; the pump unsubscribes its queue.                    *)
LEMMA SendFailsKeepsInv ==
  ASSUME FeedInv, NEW c \in Conns, SendFails(c)
  PROVE  FeedInv'
<1>1. /\ TypeOK /\ PumpInv(c) /\ pc[c] = "sending"
  BY DEF FeedInv, SendFails
<1>2. /\ pc' = [pc EXCEPT ![c] = "closed"] /\ sending' = [sending EXCEPT ![c] = << >>]
      /\ subs' = subs \ {c}
      /\ UNCHANGED <<published, recent, queue, dropped, backlog, connected, received,
                     since>>
  BY DEF SendFails
<1>3. << >> \in Seq(Nat) /\ pc'[c] = "closed"
  BY <1>1, <1>2, EmptySeq DEF TypeOK
<1>4. TypeOK'
  BY <1>1, <1>2, <1>3 DEF TypeOK, Stages
<1>5. RingInv'
  BY <1>2 DEF FeedInv, RingInv
<1>6. ASSUME NEW d \in Conns, d # c PROVE (PumpInv(d) /\ StreamInv(d))'
  <2>1. pc'[d] = pc[d] /\ sending'[d] = sending[d] /\ (d \in subs' <=> d \in subs)
    BY <1>1, <1>2, <1>6 DEF TypeOK
  <2> QED BY <1>2, <2>1, ConnUntouched DEF FeedInv
<1>7. PumpInv(c)' /\ StreamInv(c)'
  BY <1>1, <1>2, <1>3 DEF PumpInv, StreamInv, Serving
<1> QED BY <1>4, <1>5, <1>6, <1>7 DEF FeedInv

(* Every step keeps the invariant.                                          *)
LEMMA FeedStepInv ==
  ASSUME FeedInv, [Next]_vars
  PROVE  FeedInv'
<1>1. CASE PublishAlert
  BY <1>1, PublishAlertKeepsInv
<1>2. CASE PublishTrade
  BY <1>2, PublishTradeKeepsInv
<1>3. ASSUME NEW c \in Conns, Open(c) PROVE FeedInv'
  BY <1>3, OpenKeepsInv
<1>4. ASSUME NEW c \in Conns, Pump(c) PROVE FeedInv'
  BY <1>4, ReplayKeepsInv, ReplayFailsKeepsInv, TakeKeepsInv, SendKeepsInv,
     SendFailsKeepsInv DEF Pump
<1>5. ASSUME NEW c \in Conns, Leave(c) PROVE FeedInv'
  <2>1. /\ connected' = [connected EXCEPT ![c] = FALSE]
        /\ UNCHANGED <<published, recent, subs, queue, dropped, pc, backlog, sending,
                       received, since>>
    BY <1>5 DEF Leave
  <2>2. TypeOK'
    BY <2>1 DEF FeedInv, TypeOK
  <2>3. RingInv'
    BY <2>1 DEF FeedInv, RingInv
  <2>4. ASSUME NEW d \in Conns PROVE (PumpInv(d) /\ StreamInv(d))'
    BY <2>1, ConnUntouched DEF FeedInv
  <2> QED BY <2>2, <2>3, <2>4 DEF FeedInv
<1>6. CASE UNCHANGED vars
  <2>1. UNCHANGED <<published, recent, subs, queue, dropped, pc, backlog, sending,
                    connected, received, since>>
    BY <1>6 DEF vars, pumps
  <2>2. TypeOK'
    BY <2>1 DEF FeedInv, TypeOK
  <2>3. RingInv'
    BY <2>1 DEF FeedInv, RingInv
  <2>4. ASSUME NEW d \in Conns PROVE (PumpInv(d) /\ StreamInv(d))'
    BY <2>1, ConnUntouched DEF FeedInv
  <2> QED BY <2>2, <2>3, <2>4 DEF FeedInv
<1> QED BY <1>1, <1>2, <1>3, <1>4, <1>5, <1>6 DEF Next

(* The ring, the pumps and the streams hold for ever.                       *)
THEOREM FeedInvariant == Spec => []FeedInv
<1>1. Init => FeedInv
  BY FeedInitInv
<1>2. FeedInv /\ [Next]_vars => FeedInv'
  BY FeedStepInv
<1> QED BY <1>1, <1>2, PTL DEF Spec
-----------------------------------------------------------------------------
(* Every variable of the feed keeps its type.                               *)
THEOREM FeedTypeCorrect == Spec => []TypeOK
<1>1. FeedInv => TypeOK
  BY DEF FeedInv
<1> QED BY <1>1, FeedInvariant, PTL

(* A client being served gets every payload once and in order: the replay   *)
(* joins the live feed with no gap and no repeat, and only what a full      *)
(* queue dropped is missing (_pump, publish_alert, _fan_out).               *)
THEOREM FeedExactlyOnceInOrder == Spec => []ExactlyOnceInOrder
<1>1. FeedInv => ExactlyOnceInOrder
  BY DEF FeedInv, StreamInv, ExactlyOnceInOrder, Ascending
<1> QED BY <1>1, FeedInvariant, PTL

(* Who serves is subscribed and nobody else is, but for a pump that failed  *)
(* in its replay, and a queue never grows past its bound (_pump).           *)
THEOREM FeedSubscribedWhileServing == Spec => []SubscribedWhileServing
<1>1. FeedInv => SubscribedWhileServing
  BY DEF FeedInv, PumpInv, SubscribedWhileServing
<1> QED BY <1>1, FeedInvariant, PTL

(* A client that connects starts as far back as the ring and the replay     *)
(* limit reach, and no further (recent_alerts, _pump).                      *)
THEOREM FeedReplayReachesBack == Spec => ReplayReachesBack
<1> DEFINE p == published["alerts"]
           back == Max({1, p + 1 - Min({History, ReplayLimit})})
<1>1. ASSUME FeedInv, [Next]_vars, NEW c \in AlertConns,
             pc[c] = "new", pc'[c] \in Serving
      PROVE  since'[c] = back
  <2>1. /\ c \in Conns /\ Feed(c) = "alerts" /\ TypeOK /\ RingInv /\ p \in Nat
        /\ History \in Nat /\ ReplayLimit \in Nat
    BY <1>1, FeedOfConn, FeedAssumption DEF FeedInv, TypeOK, Feeds
  <2>2. Open(c)
    BY <1>1, <2>1 DEF Next, vars, pumps, PublishAlert, PublishTrade, Open, Pump, Replay,
                      ReplayFails, Take, Send, SendFails, Leave, Serving, TypeOK
  <2> DEFINE l == RecentAlerts(ReplayLimit)
  <2>3. since'[c] = p - Len(l) + 1
    BY <2>1, <2>2 DEF Open, TypeOK
  <2>4. /\ Len(l) = IF Len(recent) > ReplayLimit THEN ReplayLimit ELSE Len(recent)
        /\ Len(recent) = IF p < History THEN p ELSE History
    BY <1>1, <2>1, ReplayIsRun DEF RingInv
  <2> DEFINE k == Min({History, ReplayLimit})
  <2>5. k = IF History < ReplayLimit THEN History ELSE ReplayLimit
    BY <2>1 DEF Min
  <2> HIDE DEF k
  <2>6. Max({1, p + 1 - k}) = IF 1 > p + 1 - k THEN 1 ELSE p + 1 - k
    <3>1. k \in Nat
      BY <2>1, <2>5
    <3> QED BY <2>1, <3>1 DEF Max
  <2> HIDE DEF l, p
  <2>7. since'[c] = IF 1 > p + 1 - k THEN 1 ELSE p + 1 - k
    BY <2>1, <2>3, <2>4, <2>5
  <2> QED BY <2>6, <2>7 DEF k, p
<1> HIDE DEF back, p
<1>2. FeedInv /\ [Next]_vars =>
        [\A c \in AlertConns :
           pc[c] = "new" /\ pc'[c] \in Serving =>
             since'[c] = Max({1, published["alerts"] + 1 - Min({History, ReplayLimit})})]_vars
  BY <1>1 DEF back, p
<1> QED BY <1>2, FeedInvariant, PTL DEF Spec, ReplayReachesBack
-----------------------------------------------------------------------------
(* Two parts of an ascending sequence: the first is ascending, its elements *)
(* are the whole's, and the second starts above where the first ends.       *)
LEMMA AscendingParts ==
  ASSUME NEW h \in Seq(Nat), NEW t \in Seq(Nat), Ascending(h \o t),
         \A a \in ToSet(h \o t) : a > 0
  PROVE  /\ Ascending(h) /\ \A a \in ToSet(h) : a \in ToSet(h \o t)
         /\ Delivery!LastOf(h) \in Nat
         /\ t # << >> => t[1] \in ToSet(h \o t) /\ Delivery!LastOf(h) < t[1]
<1> DEFINE u == h \o t
<1>1. /\ u \in Seq(Nat) /\ Len(u) = Len(h) + Len(t)
      /\ \A i \in 1..Len(h) + Len(t) :
           u[i] = IF i <= Len(h) THEN h[i] ELSE t[i - Len(h)]
  BY ConcatProperties
<1>2. /\ Len(h) \in Nat /\ Len(t) \in Nat /\ DOMAIN h = 1..Len(h)
      /\ \A i \in 1..Len(h) : h[i] \in Nat
      /\ h = << >> <=> Len(h) = 0
      /\ t = << >> <=> Len(t) = 0
      /\ t # << >> => t[1] \in Nat
  BY LenProperties, ElementOfSeq, EmptySeq
<1>3. DOMAIN u = 1..(Len(h) + Len(t))
  BY <1>1, LenProperties
<1> HIDE DEF u
<1>4. ASSUME NEW i \in 1..Len(h)
      PROVE  u[i] = h[i] /\ i \in 1..Len(u)
  <2>1. i \in 1..Len(h) + Len(t) /\ i <= Len(h)
    BY <1>2
  <2> QED BY <1>1, <2>1
<1>5. Ascending(h)
  <2> SUFFICES ASSUME NEW i \in 1..Len(h), NEW j \in 1..Len(h), i < j
               PROVE  h[i] < h[j]
    BY DEF Ascending
  <2>1. Ascending(u)
    BY DEF u
  <2> QED BY <1>4, <2>1 DEF Ascending
<1>6. \A a \in ToSet(h) : a \in ToSet(u)
  BY <1>1, <1>2, <1>3, <1>4 DEF ToSet
<1>7. Delivery!LastOf(h) \in Nat
  BY <1>2 DEF Delivery!LastOf
<1>8. ASSUME t # << >>
      PROVE  t[1] \in ToSet(u) /\ Delivery!LastOf(h) < t[1]
  <2>1. /\ Len(h) + 1 \in 1..Len(u) /\ u[Len(h) + 1] = t[1]
    <3>1. Len(t) >= 1
      BY <1>2, <1>8
    <3>2. Len(h) + 1 \in 1..Len(h) + Len(t) /\ ~(Len(h) + 1 <= Len(h))
          /\ (Len(h) + 1) - Len(h) = 1
      BY <1>2, <3>1
    <3>3. u[Len(h) + 1] = t[(Len(h) + 1) - Len(h)]
      BY <1>1, <3>2
    <3> QED BY <1>1, <3>2, <3>3
  <2>2. t[1] \in ToSet(u)
    BY <1>1, <1>3, <2>1 DEF ToSet
  <2>3. CASE h = << >>
    <3>1. t[1] > 0
      BY <2>2 DEF u
    <3> QED BY <2>2, <2>3, <3>1 DEF Delivery!LastOf
  <2>4. CASE h # << >>
    <3>1. Len(h) \in 1..Len(h) /\ Len(h) < Len(h) + 1
      BY <1>2, <2>4
    <3>2. u[Len(h)] < u[Len(h) + 1]
      <4>1. Ascending(u)
        BY DEF u
      <4> QED BY <1>4, <2>1, <3>1, <4>1 DEF Ascending
    <3> QED BY <1>4, <2>1, <2>2, <2>4, <3>1, <3>2 DEF Delivery!LastOf
  <2> QED BY <2>2, <2>3, <2>4
<1> QED BY <1>5, <1>6, <1>7, <1>8 DEF u

(* A sequence of length one is its element.                                 *)
LEMMA SingleElement ==
  ASSUME NEW q \in Seq(Nat), Len(q) > 0, Len(q) < 2
  PROVE  q # << >> /\ q[1] \in Nat /\ q = <<q[1]>>
<1>1. q # << >>
  BY EmptySeq
<1>2. q[1] \in Nat /\ Len(q) \in Nat
  BY LenProperties, ElementOfSeq
<1> DEFINE t == Tail(q)
<1>3. t \in Seq(Nat) /\ Len(t) = 0 /\ Head(q) = q[1] /\ <<Head(q)>> \o t = q
  BY <1>1, <1>2, HeadAndTail
<1> HIDE DEF t
<1>4. t = << >>
  BY <1>3, EmptySeq
<1>5. <<q[1]>> \in Seq(Nat)
  BY <1>2
<1>6. <<q[1]>> \o << >> = <<q[1]>>
  BY <1>5, ConcatEmptySeq
<1> QED BY <1>1, <1>2, <1>3, <1>4, <1>6

(* What a pump sends next, be it of its replay or of its queue, was         *)
(* published after all that its client got.                                 *)
LEMMA NextIsNew ==
  ASSUME FeedInv, NEW c \in AlertConns, pc[c] \in Serving
  PROVE  /\ Delivery!LastOf(received[c]) \in Nat
         /\ backlog[c] # << >> =>
              backlog[c][1] \in (Delivery!LastOf(received[c]) + 1)..published["alerts"]
         /\ backlog[c] = << >> /\ sending[c] # << >> =>
              sending[c][1] \in (Delivery!LastOf(received[c]) + 1)..published["alerts"]
<1> DEFINE r == received[c]
           b == backlog[c]
           s == sending[c]
           q == queue[c]
           p == published["alerts"]
           T == ToSet(Stream(c))
<1>1. /\ c \in Conns /\ Feed(c) = "alerts" /\ TypeOK /\ StreamInv(c)
  BY FeedOfConn DEF FeedInv
<1>2. /\ r \in Seq(Nat) /\ b \in Seq(Nat) /\ s \in Seq(Nat) /\ q \in Seq(Nat)
      /\ since[c] \in Nat \ {0} /\ p \in Nat
  BY <1>1, ConnTypes
<1>3. Ascending(Stream(c)) /\ \A a \in T : a \in Nat \ {0} /\ a <= p
  BY <1>1, <1>2 DEF StreamInv
<1>4. Stream(c) = Joined(r, b, s, q)
  BY Zenon DEF Stream, Joined
<1> HIDE DEF r, b, s, q, p
<1> DEFINE rb == r \o b
           rbs == rb \o s
<1>5. rb \in Seq(Nat)
  BY <1>2, ConcatProperties
<1>6. rb = r \o b
  OBVIOUS
<1> HIDE DEF rb
<1>7. rbs \in Seq(Nat)
  BY <1>2, <1>5, ConcatProperties
<1>8. rbs = rb \o s
  OBVIOUS
<1> HIDE DEF rbs
<1>9. Stream(c) = rbs \o q
  BY <1>4, <1>6, <1>8, Zenon DEF Joined
<1>10. /\ Ascending(rbs \o q) /\ ToSet(rbs \o q) = T
  BY <1>3, <1>9, Zenon
<1> HIDE DEF T
<1>11. Ascending(rbs) /\ \A a \in ToSet(rbs) : a \in T
  BY <1>2, <1>3, <1>7, <1>10, AscendingParts
<1>12. /\ Ascending(rb \o s) /\ \A a \in ToSet(rb \o s) : a \in T
  BY <1>8, <1>11, Zenon
<1>13. /\ Ascending(rb) /\ \A a \in ToSet(rb) : a \in T
       /\ s # << >> => s[1] \in T /\ Delivery!LastOf(rb) < s[1]
  BY <1>2, <1>3, <1>5, <1>12, AscendingParts
<1>14. /\ Ascending(r \o b) /\ \A a \in ToSet(r \o b) : a \in T
  BY <1>6, <1>13, Zenon
<1>15. /\ Delivery!LastOf(r) \in Nat
       /\ b # << >> => b[1] \in T /\ Delivery!LastOf(r) < b[1]
  BY <1>2, <1>3, <1>14, AscendingParts
<1>16. b # << >> => b[1] \in (Delivery!LastOf(r) + 1)..p
  BY <1>2, <1>3, <1>15
<1>17. b = << >> => rb = r
  BY <1>2, <1>6, ConcatEmptySeq
<1>18. b = << >> /\ s # << >> => s[1] \in (Delivery!LastOf(r) + 1)..p
  BY <1>2, <1>3, <1>13, <1>15, <1>17
<1> QED BY <1>15, <1>16, <1>18 DEF r, b, s, p

(* The feed of alerts implements the abstract delivery: publish_alert       *)
(* issues one, and each send_json of a pump, in the replay or after it,     *)
(* delivers one that its client has not got and that comes after all those  *)
(* it has (publish_alert, _pump).                                           *)
THEOREM FeedImplementsDelivery == Spec => ImplementsDelivery
<1> DEFINE G == [c \in AlertConns |-> received[c]]
<1>1. Init => Delivery!DeliveryInit
  BY FeedOfConn DEF Init, Delivery!DeliveryInit, Feeds
<1>2. ASSUME FeedInv, [Next]_vars
      PROVE  [Delivery!DeliveryNext]_(Delivery!deliveryVars)
  <2>1. TypeOK /\ published["alerts"] \in Nat /\ "alerts" \in Feeds
    BY <1>2 DEF FeedInv, TypeOK, Feeds
  <2>2. CASE PublishAlert
    <3>1. /\ published'["alerts"] = published["alerts"] + 1 /\ received' = received
      BY <2>1, <2>2 DEF PublishAlert, pumps, TypeOK
    <3> QED BY <2>1, <3>1 DEF Delivery!DeliveryNext, Delivery!Issue
  <2>3. CASE PublishTrade
    <3>1. published'["alerts"] = published["alerts"] /\ received' = received
      BY <2>1, <2>3 DEF PublishTrade, pumps, TypeOK
    <3> QED BY <3>1 DEF Delivery!deliveryVars
  <2>4. ASSUME NEW c \in Conns, Replay(c) \/ Send(c)
        PROVE  [Delivery!DeliveryNext]_(Delivery!deliveryVars)
    <3>1. PICK x \in Nat :
            /\ received' = [received EXCEPT ![c] = With(@, x)]
            /\ c \in AlertConns =>
                 x \in (Delivery!LastOf(received[c]) + 1)..published["alerts"]
      <4>1. /\ received[c] \in Seq(Nat) /\ backlog[c] \in Seq(Nat)
            /\ sending[c] \in Seq(Nat) /\ PumpInv(c) /\ pc[c] \in Serving
        BY <1>2, <2>1, <2>4, ConnTypes DEF FeedInv, Replay, Send, Serving
      <4>2. CASE Replay(c)
        <5>1. backlog[c] # << >> /\ Head(backlog[c]) \in Nat
              /\ Head(backlog[c]) = backlog[c][1]
          BY <4>1, <4>2, HeadAndTail DEF PumpInv, Replay
        <5>2. received' = [received EXCEPT ![c] = With(@, Head(backlog[c]))]
          BY <4>2, Zenon DEF Replay, With
        <5> QED BY <1>2, <4>1, <5>1, <5>2, NextIsNew
      <4>3. CASE Send(c)
        <5> DEFINE s == sending[c]
                   r == received[c]
        <5>1. backlog[c] = << >> /\ Len(s) > 0 /\ Len(s) < 2
          <6>1. backlog[c] = << >>
            BY <4>1, <4>3 DEF PumpInv, Send
          <6>2. \E k : k = 1 /\ Len(sending[c]) = k
            BY <4>1, <4>3, Zenon DEF PumpInv, Send
          <6>3. PICK k : k = 1 /\ Len(sending[c]) = k
            BY <6>2, Zenon
          <6>4. k > 0 /\ k < 2
            BY <6>3
          <6> QED BY <6>1, <6>3, <6>4, Zenon
        <5>2. received' = [received EXCEPT ![c] = r \o s]
          BY <4>3 DEF Send
        <5>3. s \in Seq(Nat) /\ r \in Seq(Nat)
          BY <4>1
        <5> HIDE DEF s, r
        <5>4. s # << >> /\ s[1] \in Nat /\ s = <<s[1]>>
          BY <5>1, <5>3, SingleElement
        <5>5. Append(r, s[1]) = r \o s
          BY <5>3, <5>4, AppendIsConcat
        <5>6. received' = [received EXCEPT ![c] = With(r, s[1])]
          BY <5>2, <5>5, Zenon DEF With
        <5> QED BY <1>2, <4>1, <5>1, <5>4, <5>6, NextIsNew DEF r, s
      <4> QED BY <2>4, <4>2, <4>3
    <3>2. published' = published
      BY <2>4 DEF Replay, Send
    <3>3. CASE c \in AlertConns
      <4>1. G' = [G EXCEPT ![c] = With(@, x)]
        BY <2>1, <3>1, <3>3, FeedOfConn DEF TypeOK
      <4>2. G' = [G EXCEPT ![c] = Append(@, x)]
        BY <4>1, Zenon DEF With
      <4>3. G[c] = received[c]
        BY <3>3
      <4> QED BY <3>1, <3>2, <3>3, <4>2, <4>3 DEF Delivery!DeliveryNext, Delivery!Deliver
    <3>4. CASE c \notin AlertConns
      <4>1. G' = G
        BY <2>1, <3>1, <3>4, FeedOfConn DEF TypeOK
      <4> QED BY <3>2, <4>1 DEF Delivery!deliveryVars
    <3> QED BY <3>3, <3>4
  <2>5. CASE \/ (\E c \in Conns : Open(c) \/ ReplayFails(c) \/ Take(c) \/ SendFails(c)
                              \/ Leave(c))
             \/ UNCHANGED vars
    <3>1. UNCHANGED <<published, received>>
      BY <2>5 DEF vars, pumps, Open, ReplayFails, Take, SendFails, Leave
    <3> QED BY <3>1 DEF Delivery!deliveryVars
  <2> QED BY <1>2, <2>2, <2>3, <2>4, <2>5 DEF Next, Pump
<1> QED BY <1>1, <1>2, FeedInvariant, PTL
        DEF Spec, ImplementsDelivery, Delivery!DeliverySpec
=============================================================================
