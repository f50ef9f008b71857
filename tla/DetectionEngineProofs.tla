------------------------ MODULE DetectionEngineProofs ------------------------
(***************************************************************************)
(* Proofs about the windows of the symbols and about the detection engine   *)
(* over them: what a window and the store of windows hold, and the cooldown *)
(* of the alerts, for every window size, horizon, lateness, cooldown, set   *)
(* of detectors and tape of trades.                                         *)
(***************************************************************************)
EXTENDS DetectionEngine, SequenceTheorems, FiniteSetTheorems,
        NaturalsInduction, WellFoundedInduction, TLAPS

(* - - - the window of one symbol and the store of windows - - - - - - - -  *)

(* A non-empty set of naturals has the minimum that Min chooses.            *)
LEMMA MinOfNaturals ==
  ASSUME NEW F \in SUBSET Nat, F # {}
  PROVE  Min(F) \in F /\ \A y \in F : Min(F) <= y
<1>1. PICK x \in F : \A y \in F : ~(<<y, x>> \in OpToRel(<, Nat))
  BY NatLessThanWellFounded, WFMin, Zenon
<1>2. \A y \in F : x <= y
  <2> TAKE y \in F
  <2>1. ~(y < x)
    BY <1>1 DEF OpToRel
  <2> QED BY <2>1
<1> QED BY <1>2, Zenon DEF Min

(* What is left of a sequence once its first m - 1 elements are dropped.    *)
LEMMA DropHead ==
  ASSUME NEW S, NEW w \in Seq(S), NEW m \in 1..Len(w)
  PROVE  /\ SubSeq(w, m, Len(w)) \in Seq(S)
         /\ Len(SubSeq(w, m, Len(w))) = Len(w) - m + 1
         /\ \A i \in 1..(Len(w) - m + 1) : SubSeq(w, m, Len(w))[i] = w[m + i - 1]
<1>1. Len(w) \in Nat /\ \A i \in m..Len(w) : w[i] \in S
  BY LenProperties, ElementOfSeq
<1> QED BY <1>1, SubSeqProperties

(* A set of trades, of which only the event time matters here.              *)
Timed(T) == \A t \in T : t.ts \in Nat

(* The trades of the feed are such a set.                                   *)
LEMMA TradesAreTimed == Timed(Trades)
BY StoreAssumption DEF Timed

(* Trimming by count drops the oldest of a sequence, just as many as it     *)
(* has too many.                                                            *)
LEMMA TrimByCountDropsHead ==
  ASSUME NEW T, NEW w \in Seq(T), w # << >>
  PROVE  \E k \in 1..Len(w) :
           /\ TrimByCount(w) = SubSeq(w, k, Len(w))
           /\ Len(w) - k + 1 <= MaxTrades
           /\ k - 1 <= Len(w) - MaxTrades \/ k = 1
<1>1. Len(w) \in Nat \ {0} /\ MaxTrades \in Nat \ {0}
  BY EmptySeq, WindowAssumption
<1>2. CASE Len(w) > MaxTrades
  <2> DEFINE k == Len(w) - MaxTrades + 1
  <2>1. /\ k \in 1..Len(w)
        /\ Len(w) - k + 1 <= MaxTrades
        /\ k - 1 <= Len(w) - MaxTrades
    BY <1>1, <1>2
  <2>2. TrimByCount(w) = SubSeq(w, k, Len(w))
    BY <1>2 DEF TrimByCount
  <2> HIDE DEF k
  <2> QED BY <2>1, <2>2
<1>3. CASE ~(Len(w) > MaxTrades)
  <2>1. TrimByCount(w) = SubSeq(w, 1, Len(w))
    BY <1>3, SubSeqFull DEF TrimByCount
  <2> QED BY <1>1, <1>3, <2>1
<1> QED BY <1>2, <1>3

(* Trimming by age drops the trades before the first fresh one.             *)
LEMMA TrimByAgeDropsHead ==
  ASSUME NEW T, Timed(T), NEW w \in Seq(T), NEW now \in Nat,
         w # << >>, w[Len(w)].ts >= now - Horizon
  PROVE  \E k \in 1..Len(w) :
           /\ TrimByAge(w, now) = SubSeq(w, k, Len(w))
           /\ w[k].ts >= now - Horizon
           /\ \A i \in 1..(k - 1) : w[i].ts < now - Horizon
<1>1. Len(w) \in Nat \ {0}
  BY EmptySeq
<1>2. \A i \in 1..Len(w) : w[i].ts \in Nat
  BY ElementOfSeq DEF Timed
<1>3. Fresh(w, now) \in SUBSET Nat /\ Len(w) \in Fresh(w, now)
  BY <1>1 DEF Fresh
<1> DEFINE k == Min(Fresh(w, now))
<1>4. k \in Fresh(w, now) /\ \A y \in Fresh(w, now) : k <= y
  BY <1>3, MinOfNaturals
<1>5. TrimByAge(w, now) = SubSeq(w, k, Len(w))
  BY <1>3 DEF TrimByAge
<1>6. k \in 1..Len(w) /\ w[k].ts >= now - Horizon
  BY <1>4 DEF Fresh
<1>7. \A i \in 1..(k - 1) : w[i].ts < now - Horizon
  <2> TAKE i \in 1..(k - 1)
  <2>1. i \in 1..Len(w) /\ i < k
    BY <1>1, <1>6
  <2>2. i \notin Fresh(w, now)
    BY <1>4, <1>6, <2>1
  <2> QED BY <1>2, <2>1, <2>2, WindowAssumption DEF Fresh
<1> QED BY <1>5, <1>6, <1>7

(* What add() leaves: the arrivals from some position k on, no more than    *)
(* MaxTrades of them, the first one fresh; everything before k is too far   *)
(* back or too old.                                                         *)
LEMMA AddDropsHead ==
  ASSUME NEW T, Timed(T), NEW w \in Seq(T), NEW t \in T
  PROVE  \E k \in 1..(Len(w) + 1) :
           /\ Add(w, t) \in Seq(T)
           /\ Len(Add(w, t)) = Len(w) + 2 - k
           /\ Len(Add(w, t)) <= MaxTrades
           /\ \A i \in 1..(Len(w) + 2 - k) :
                Add(w, t)[i] = Append(w, t)[k + i - 1]
           /\ Append(w, t)[k].ts >= t.ts - Horizon
           /\ \A i \in 1..(k - 1) :
                i <= Len(w) + 1 - MaxTrades \/ Append(w, t)[i].ts < t.ts - Horizon
<1> DEFINE v == Append(w, t)
           u == TrimByCount(v)
<1>1. /\ v \in Seq(T) /\ Len(v) = Len(w) + 1 /\ v # << >>
      /\ v[Len(v)] = t
      /\ Len(w) \in Nat
  BY AppendProperties, LenProperties
<1>2. t.ts \in Nat /\ Horizon \in Nat /\ MaxTrades \in Nat \ {0}
  BY WindowAssumption DEF Timed
<1> HIDE DEF v
<1>3. PICK c \in 1..Len(v) :
        /\ u = SubSeq(v, c, Len(v))
        /\ Len(v) - c + 1 <= MaxTrades
        /\ c - 1 <= Len(v) - MaxTrades \/ c = 1
  BY <1>1, TrimByCountDropsHead
<1>4. /\ u \in Seq(T) /\ Len(u) = Len(v) - c + 1
      /\ \A i \in 1..Len(u) : u[i] = v[c + i - 1]
  BY <1>1, <1>3, DropHead
<1> HIDE DEF u
<1>5. /\ u # << >> /\ u[Len(u)] = t
      /\ u[Len(u)].ts >= t.ts - Horizon
  <2>1. Len(u) \in 1..Len(v) /\ c + Len(u) - 1 = Len(v)
    BY <1>1, <1>4
  <2>2. u[Len(u)] = v[Len(v)]
    BY <1>4, <2>1
  <2>3. u # << >>
    BY <1>4, <2>1, EmptySeq
  <2> QED BY <1>1, <1>2, <2>2, <2>3
<1>6. PICK a \in 1..Len(u) :
        /\ TrimByAge(u, t.ts) = SubSeq(u, a, Len(u))
        /\ u[a].ts >= t.ts - Horizon
        /\ \A i \in 1..(a - 1) : u[i].ts < t.ts - Horizon
  BY <1>2, <1>4, <1>5, TrimByAgeDropsHead
<1>7. Add(w, t) = SubSeq(u, a, Len(u))
  BY <1>6 DEF Add, Evict, u, v
<1>8. /\ Add(w, t) \in Seq(T) /\ Len(Add(w, t)) = Len(u) - a + 1
      /\ \A i \in 1..(Len(u) - a + 1) : Add(w, t)[i] = u[a + i - 1]
  <2>1. u \in Seq(T) /\ a \in 1..Len(u)
    BY <1>4
  <2>2. /\ SubSeq(u, a, Len(u)) \in Seq(T) /\ Len(SubSeq(u, a, Len(u))) = Len(u) - a + 1
        /\ \A i \in 1..(Len(u) - a + 1) : SubSeq(u, a, Len(u))[i] = u[a + i - 1]
    BY <2>1, DropHead, Zenon
  <2> QED BY <1>7, <2>2, Zenon
<1> DEFINE k == c + a - 1
<1>9. k \in 1..(Len(w) + 1) /\ Len(Add(w, t)) = Len(w) + 2 - k
  BY <1>1, <1>4, <1>8
<1>10. Len(Add(w, t)) <= MaxTrades
  BY <1>1, <1>2, <1>3, <1>4, <1>8
<1>11. ASSUME NEW i \in 1..(Len(w) + 2 - k)
       PROVE  Add(w, t)[i] = v[k + i - 1]
  <2>1. i \in 1..(Len(u) - a + 1) /\ a + i - 1 \in 1..Len(u)
    BY <1>1, <1>4
  <2>2. Add(w, t)[i] = u[a + i - 1] /\ u[a + i - 1] = v[c + (a + i - 1) - 1]
    BY <1>4, <1>8, <2>1
  <2>3. c + (a + i - 1) - 1 = k + i - 1
    BY <1>1, <1>4, <2>1
  <2> QED BY <2>2, <2>3
<1>12. v[k].ts >= t.ts - Horizon
  BY <1>4, <1>6
<1>13. ASSUME NEW i \in 1..(k - 1)
       PROVE  i <= Len(w) + 1 - MaxTrades \/ v[i].ts < t.ts - Horizon
  <2>1. CASE i < c
    BY <1>1, <1>2, <1>3, <2>1
  <2>2. CASE i >= c
    <3>1. i - c + 1 \in 1..(a - 1) /\ i - c + 1 \in 1..Len(u)
      BY <1>1, <1>4, <2>2
    <3>2. u[i - c + 1] = v[c + (i - c + 1) - 1] /\ c + (i - c + 1) - 1 = i
      BY <1>1, <1>4, <3>1
    <3> QED BY <1>6, <3>1, <3>2
  <2> QED BY <1>1, <2>1, <2>2
<1> HIDE DEF k
<1> QED BY <1>8, <1>9, <1>10, <1>11, <1>12, <1>13 DEF v

-----------------------------------------------------------------------------
(* The inductive invariant, for one symbol: w its window, a its arrivals,   *)
(* n its newest event time.  The conjuncts on order and on n are what the   *)
(* bound on the age needs: a trade behind the head is at most Lateness      *)
(* older than the head, because nothing arrives later than that.            *)
WindowInv(w, a, n) ==
  /\ Len(w) <= MaxTrades /\ Len(w) <= Len(a)
  /\ Len(a) > 0 => Len(w) > 0
  /\ \A i \in 1..Len(w) : w[i] = a[Len(a) - Len(w) + i]
  /\ \A i \in 1..Len(w) : w[i].ts <= n
  /\ \A i \in 1..Len(w) : \A j \in i..Len(w) : w[j].ts >= w[i].ts - Lateness
  /\ \A i \in 1..Len(w) : w[i].ts >= w[Len(w)].ts - Horizon - Lateness
  /\ \A i \in 1..(Len(a) - Len(w)) :
       i <= Len(a) - MaxTrades \/ a[i].ts < n - Horizon
  /\ Len(a) > 0 => a[Len(a)].ts >= n - Lateness

Newest(t, n) == IF t.ts > n THEN t.ts ELSE n

(* Adding a trade no later than the feed allows keeps the invariant of its  *)
(* symbol.                                                                  *)
LEMMA AddKeepsWindowInv ==
  ASSUME NEW w \in Seq(Trades), NEW a \in Seq(Trades), NEW n \in Nat,
         NEW t \in Trades, t.ts >= n - Lateness, WindowInv(w, a, n)
  PROVE  WindowInv(Add(w, t), Append(a, t), Newest(t, n))
<1> DEFINE x == Add(w, t)
           b == Append(a, t)
           p == Newest(t, n)
           v == Append(w, t)
<1>1. PICK k \in 1..(Len(w) + 1) :
        /\ x \in Seq(Trades)
        /\ Len(x) = Len(w) + 2 - k
        /\ Len(x) <= MaxTrades
        /\ \A i \in 1..(Len(w) + 2 - k) : x[i] = v[k + i - 1]
        /\ v[k].ts >= t.ts - Horizon
        /\ \A i \in 1..(k - 1) :
             i <= Len(w) + 1 - MaxTrades \/ v[i].ts < t.ts - Horizon
  BY TradesAreTimed, AddDropsHead
<1>2. /\ Len(w) \in Nat /\ Len(a) \in Nat /\ Len(x) \in Nat
      /\ Len(v) = Len(w) + 1 /\ v[Len(w) + 1] = t
      /\ \A i \in 1..Len(w) : v[i] = w[i]
      /\ Len(b) = Len(a) + 1 /\ b[Len(a) + 1] = t
      /\ \A i \in 1..Len(a) : b[i] = a[i]
  BY <1>1, AppendProperties, LenProperties
<1>3. /\ t.ts \in Nat /\ Horizon \in Nat /\ Lateness \in Nat
      /\ MaxTrades \in Nat \ {0}
      /\ \A i \in 1..Len(w) : w[i].ts \in Nat
      /\ \A i \in 1..Len(a) : a[i].ts \in Nat
      /\ \A i \in 1..Len(x) : x[i].ts \in Nat
      /\ \A i \in 1..Len(v) : v[i].ts \in Nat
  BY <1>1, <1>2, StoreAssumption, WindowAssumption, ElementOfSeq, AppendProperties
<1>4. p \in Nat /\ n <= p /\ t.ts <= p
  BY <1>3 DEF Newest
<1>5. ASSUME NEW i \in 1..Len(v)
      PROVE  v[i].ts <= p
  <2>1. CASE i \in 1..Len(w)
    <3>1. v[i] = w[i] /\ w[i].ts \in Nat /\ w[i].ts <= n
      BY <1>2, <1>3, <2>1 DEF WindowInv
    <3> QED BY <1>4, <3>1
  <2>2. CASE i = Len(w) + 1
    BY <1>2, <1>4, <2>2
  <2>3. i \in 1..Len(w) \/ i = Len(w) + 1
    BY <1>2
  <2> QED BY <2>1, <2>2, <2>3
<1>6. \A i \in 1..Len(v) : \A j \in i..Len(v) : v[j].ts >= v[i].ts - Lateness
  <2> TAKE i \in 1..Len(v)
  <2> TAKE j \in i..Len(v)
  <2>1. CASE j <= Len(w)
    BY <1>2, <2>1 DEF WindowInv
  <2>2. CASE j = Len(w) + 1 /\ i <= Len(w)
    <3>1. v[i].ts <= n
      BY <1>2, <2>2 DEF WindowInv
    <3>2. v[j].ts = t.ts /\ v[i].ts \in Nat /\ t.ts >= n - Lateness
      BY <1>2, <1>3, <2>2
    <3> QED BY <1>3, <3>1, <3>2
  <2>3. CASE i = Len(w) + 1 /\ j = i
    BY <1>2, <1>3, <2>3
  <2> QED BY <1>2, <2>1, <2>2, <2>3
<1>7. \A i \in 1..Len(v) : v[i] = b[Len(b) - Len(v) + i]
  <2> TAKE i \in 1..Len(v)
  <2>1. CASE i <= Len(w)
    <3>1. v[i] = a[Len(a) - Len(w) + i] /\ Len(a) - Len(w) + i \in 1..Len(a)
      BY <1>2, <2>1 DEF WindowInv
    <3>2. Len(b) - Len(v) + i = Len(a) - Len(w) + i
      BY <1>2, <2>1
    <3> QED BY <1>2, <3>1, <3>2
  <2>2. CASE i = Len(w) + 1
    <3>1. Len(b) - Len(v) + i = Len(a) + 1
      BY <1>2, <2>2
    <3> QED BY <1>2, <2>2, <3>1
  <2>3. i <= Len(w) \/ i = Len(w) + 1
    BY <1>2
  <2> QED BY <2>1, <2>2, <2>3
<1>8. /\ Len(w) <= Len(a)
      /\ \A i \in 1..(Len(a) - Len(w)) :
           i <= Len(a) - MaxTrades \/ a[i].ts < n - Horizon
  BY DEF WindowInv
<1> HIDE DEF x, b, p, v
<1>9. ASSUME NEW i \in 1..Len(x)
      PROVE  /\ k + i - 1 \in k..Len(v) /\ k + i - 1 \in 1..Len(v)
             /\ x[i] = v[k + i - 1]
  <2>1. i \in 1..(Len(w) + 2 - k)
    BY <1>1
  <2>2. k + i - 1 \in k..Len(v) /\ k + i - 1 \in 1..Len(v)
    BY <1>2, <2>1
  <2> QED BY <1>1, <2>1, <2>2
<1>10. Len(x) <= Len(b) /\ Len(x) > 0
  BY <1>1, <1>2, <1>8
<1>11. ASSUME NEW i \in 1..Len(x)
       PROVE  x[i] = b[Len(b) - Len(x) + i]
  <2>1. Len(b) - Len(v) + (k + i - 1) = Len(b) - Len(x) + i
    BY <1>1, <1>2
  <2> QED BY <1>7, <1>9, <2>1
<1>12. ASSUME NEW i \in 1..Len(x)
       PROVE  x[i].ts <= p
  BY <1>5, <1>9
<1>13. ASSUME NEW i \in 1..Len(x), NEW j \in i..Len(x)
       PROVE  x[j].ts >= x[i].ts - Lateness
  <2>1. j \in 1..Len(x) /\ k + j - 1 \in (k + i - 1)..Len(v)
    BY <1>1, <1>2
  <2>2. k + i - 1 \in 1..Len(v)
    BY <1>1, <1>2
  <2>3. v[k + j - 1].ts >= v[k + i - 1].ts - Lateness
    BY <1>6, <2>1, <2>2, Zenon
  <2> QED BY <1>9, <2>1, <2>3, Zenon
<1>14. ASSUME NEW i \in 1..Len(x)
       PROVE  x[i].ts >= x[Len(x)].ts - Horizon - Lateness
  <2>1. x[1] = v[k] /\ x[Len(x)] = t
    <3>1. /\ 1 \in 1..Len(x) /\ k + 1 - 1 = k
          /\ Len(x) \in 1..Len(x) /\ k + Len(x) - 1 = Len(v)
      BY <1>1, <1>2, <1>10
    <3>2. x[1] = v[k + 1 - 1] /\ x[Len(x)] = v[k + Len(x) - 1]
      BY <1>9, <3>1, Zenon
    <3> QED BY <1>2, <3>1, <3>2, Zenon
  <2>2. x[i].ts >= x[1].ts - Lateness
    BY <1>2, <1>10, <1>13
  <2>3. x[1].ts >= x[Len(x)].ts - Horizon
    BY <1>1, <2>1
  <2>4. /\ x[1].ts \in Nat /\ x[i].ts \in Nat /\ x[Len(x)].ts \in Nat
        /\ Horizon \in Nat /\ Lateness \in Nat
    BY <1>2, <1>3, <1>10
  <2>5. \A p1, q, r \in Nat : \A h, l \in Nat :
          p1 >= q - l /\ q >= r - h => p1 >= r - h - l
    OBVIOUS
  <2> QED BY <2>2, <2>3, <2>4, <2>5
<1>15. ASSUME NEW i \in 1..(Len(b) - Len(x))
       PROVE  i <= Len(b) - MaxTrades \/ b[i].ts < p - Horizon
  <2>1. Len(b) - Len(x) = (Len(a) - Len(w)) + (k - 1)
    BY <1>1, <1>2
  <2>2. CASE i <= Len(a) - Len(w)
    <3>1. i \in 1..Len(a) /\ b[i] = a[i]
      BY <1>2, <2>2
    <3>2. CASE i <= Len(a) - MaxTrades
      BY <1>2, <1>3, <3>1, <3>2
    <3>3. CASE a[i].ts < n - Horizon
      <4>1. a[i].ts \in Nat /\ n \in Nat /\ p \in Nat /\ n <= p /\ Horizon \in Nat
        BY <1>3, <1>4, <3>1
      <4> QED BY <3>1, <3>3, <4>1
    <3> QED BY <1>8, <2>2, <3>2, <3>3
  <2>3. CASE i > Len(a) - Len(w)
    <3> DEFINE j == i - (Len(a) - Len(w))
    <3>1. j \in 1..(k - 1) /\ j \in 1..Len(v) /\ Len(b) - Len(v) + j = i
      BY <1>2, <1>8, <2>1, <2>3
    <3>2. v[j] = b[i]
      BY <1>7, <3>1
    <3>3. j <= Len(w) + 1 - MaxTrades \/ v[j].ts < t.ts - Horizon
      BY <1>1, <3>1
    <3>4. CASE j <= Len(w) + 1 - MaxTrades
      BY <1>2, <1>3, <3>4
    <3>5. CASE v[j].ts < t.ts - Horizon
      <4>1. /\ v[j].ts \in Nat /\ t.ts \in Nat /\ p \in Nat /\ t.ts <= p
            /\ Horizon \in Nat
        BY <1>3, <1>4, <3>1
      <4> QED BY <3>2, <3>5, <4>1
    <3> QED BY <3>3, <3>4, <3>5
  <2> QED BY <1>2, <1>8, <2>2, <2>3
<1>16. b[Len(b)].ts >= p - Lateness
  BY <1>2, <1>3 DEF p, Newest
<1>17. WindowInv(x, b, p)
  BY <1>1, <1>2, <1>10, <1>11, <1>12, <1>13, <1>14, <1>15, <1>16 DEF WindowInv
<1> QED BY <1>17 DEF x, b, p

-----------------------------------------------------------------------------
StoreInv ==
  /\ StoreTypeOK
  /\ \A s \in Symbols :
       /\ WindowInv(Window(s), arrived[s], newest[s])
       /\ s \in DOMAIN windows <=> arrived[s] # << >>

(* The store starts in its invariant.                                       *)
LEMMA StoreInitInv == StoreInit => StoreInv
<1> SUFFICES ASSUME StoreInit PROVE StoreInv
  OBVIOUS
<1>1. DOMAIN windows = {} /\ << >> \in Seq(Trades) /\ Len(<< >>) = 0
  BY EmptySeq, LenProperties DEF StoreInit
<1>2. StoreTypeOK
  BY <1>1 DEF StoreInit, StoreTypeOK
<1>3. ASSUME NEW s \in Symbols
      PROVE  WindowInv(Window(s), arrived[s], newest[s])
  <2>1. Window(s) = << >> /\ arrived[s] = << >> /\ newest[s] = 0
    BY <1>1 DEF StoreInit, Window
  <2> QED BY <1>1, <2>1, WindowAssumption DEF WindowInv
<1> QED BY <1>1, <1>2, <1>3 DEF StoreInit, StoreInv

(* Storing a trade that is on time keeps the invariant; the engine's steps  *)
(* are such steps too.                                                      *)
LEMMA StoreKeepsInv ==
  ASSUME StoreInv, NEW t \in Trades, OnTime(t), Store(t)
  PROVE  StoreInv'
<1> DEFINE z == t.symbol
<1>1. z \in Symbols /\ t.ts \in Nat /\ Lateness \in Nat
  BY StoreAssumption
<1>2. \A s \in Symbols : Window(s) \in Seq(Trades)
  BY EmptySeq DEF Window, StoreInv, StoreTypeOK
<1>3. /\ arrived[z] \in Seq(Trades) /\ newest[z] \in Nat
      /\ WindowInv(Window(z), arrived[z], newest[z])
      /\ t.ts >= newest[z] - Lateness
  BY <1>1 DEF StoreInv, StoreTypeOK, OnTime
<1>4. WindowInv(Add(Window(z), t), Append(arrived[z], t), Newest(t, newest[z]))
  BY <1>2, <1>3, <1>1, AddKeepsWindowInv
<1>5. Add(Window(z), t) \in Seq(Trades)
  BY <1>1, <1>2, TradesAreTimed, AddDropsHead
<1>6. /\ DOMAIN windows' = DOMAIN windows \cup {z}
      /\ windows'[z] = Add(Window(z), t)
      /\ \A s \in DOMAIN windows : s # z => windows'[s] = windows[s]
  BY DEF Store
<1>7. /\ arrived' = [arrived EXCEPT ![z] = Append(arrived[z], t)]
      /\ newest' = [newest EXCEPT ![z] = Newest(t, newest[z])]
  BY <1>1 DEF Store, Newest, StoreInv, StoreTypeOK
<1>8. /\ Append(arrived[z], t) \in Seq(Trades) /\ Append(arrived[z], t) # << >>
      /\ Newest(t, newest[z]) \in Nat
  BY <1>1, <1>3, AppendProperties DEF Newest
<1>9. StoreTypeOK'
  BY <1>1, <1>5, <1>6, <1>7, <1>8 DEF StoreTypeOK, StoreInv
<1>10. ASSUME NEW s \in Symbols
       PROVE  /\ WindowInv(Window(s)', arrived'[s], newest'[s])
              /\ s \in DOMAIN windows' <=> arrived'[s] # << >>
  <2>1. CASE s = z
    <3>1. /\ Window(s)' = Add(Window(z), t)
          /\ arrived'[s] = Append(arrived[z], t)
          /\ newest'[s] = Newest(t, newest[z])
      BY <1>1, <1>6, <1>7, <2>1 DEF Window, StoreInv, StoreTypeOK
    <3> QED BY <1>4, <1>6, <1>8, <2>1, <3>1
  <2>2. CASE s # z
    <3>1. /\ Window(s)' = Window(s)
          /\ arrived'[s] = arrived[s]
          /\ newest'[s] = newest[s]
          /\ s \in DOMAIN windows' <=> s \in DOMAIN windows
      BY <1>1, <1>6, <1>7, <2>2 DEF Window, StoreInv, StoreTypeOK
    <3> QED BY <3>1 DEF StoreInv
  <2> QED BY <2>1, <2>2
<1> QED BY <1>9, <1>10 DEF StoreInv

(* A step that leaves the store alone keeps its invariant.                  *)
LEMMA StoreStutter ==
  ASSUME StoreInv, UNCHANGED storeVars
  PROVE  StoreInv'
<1>1. windows' = windows /\ arrived' = arrived /\ newest' = newest
  BY DEF storeVars
<1>2. StoreTypeOK'
  BY <1>1 DEF StoreInv, StoreTypeOK
<1>3. \A s \in Symbols : Window(s)' = Window(s)
  BY <1>1 DEF Window
<1> QED BY <1>1, <1>2, <1>3 DEF StoreInv

(* What the invariant says of the windows that exist.                       *)
LEMMA StoreInvImplies ==
  ASSUME StoreInv
  PROVE  WindowIsSuffix /\ WindowAgeBounded /\ NothingEvictedEarly
<1>1. ASSUME NEW s \in DOMAIN windows
      PROVE  /\ s \in Symbols /\ Window(s) = windows[s]
             /\ WindowInv(windows[s], arrived[s], newest[s])
             /\ arrived[s] # << >>
             /\ arrived[s] \in Seq(Trades) /\ windows[s] \in Seq(Trades)
             /\ Len(arrived[s]) \in Nat \ {0} /\ Len(windows[s]) \in Nat
  BY EmptySeq, LenProperties DEF StoreInv, StoreTypeOK, Window
<1>2. ASSUME NEW s \in DOMAIN windows
      PROVE  Len(windows[s]) \in 1..MaxTrades
  BY <1>1, WindowAssumption DEF WindowInv
<1>3. WindowIsSuffix
  BY <1>1, <1>2 DEF WindowIsSuffix, WindowInv
<1>4. WindowAgeBounded
  BY <1>1 DEF WindowAgeBounded, WindowInv
<1>5. NothingEvictedEarly
  BY <1>1 DEF NothingEvictedEarly, WindowInv
<1> QED BY <1>3, <1>4, <1>5

(* The window store keeps its invariant for ever.                           *)
THEOREM StoreInvariant == StoreSpec => []StoreInv
<1>1. StoreInv /\ [StoreNext]_storeVars => StoreInv'
  BY StoreKeepsInv, StoreStutter DEF StoreNext
<1> QED BY <1>1, StoreInitInv, PTL DEF StoreSpec

(* Every variable of the store keeps its type.                              *)
THEOREM StoreTypeCorrect == StoreSpec => []StoreTypeOK
<1>1. StoreInv => StoreTypeOK
  BY DEF StoreInv
<1> QED BY <1>1, StoreInvariant, PTL

(* Whatever the sizes and the arrivals: a window is a gapless suffix of its *)
(* symbol's arrivals, neither empty nor longer than max_trades.             *)
THEOREM StoreWindowIsSuffix == StoreSpec => []WindowIsSuffix
<1>1. StoreInv => WindowIsSuffix
  BY StoreInvImplies
<1> QED BY <1>1, StoreInvariant, PTL

(* No trade of a window is older than horizon plus lateness.                *)
THEOREM StoreWindowAgeBounded == StoreSpec => []WindowAgeBounded
<1>1. StoreInv => WindowAgeBounded
  BY StoreInvImplies
<1> QED BY <1>1, StoreInvariant, PTL

(* Eviction takes no trade that count and age allow to stay.                *)
THEOREM StoreNothingEvictedEarly == StoreSpec => []NothingEvictedEarly
<1>1. StoreInv => NothingEvictedEarly
  BY StoreInvImplies
<1> QED BY <1>1, StoreInvariant, PTL

(* With the invariant, what a span of time no longer than horizon minus     *)
(* lateness holds of the arrivals is found in the window.                   *)
LEMMA StoreInvRecent == StoreInv => RecentIsComplete
<1> SUFFICES ASSUME StoreInv, NEW s \in DOMAIN windows,
                    NEW span \in 0..(Horizon - Lateness)
             PROVE  LET n == Len(arrived[s])
                        m == Len(windows[s])
                        at == arrived[s][n].ts
                    IN  {n - m + i : i \in Recent(windows[s], at, span)}
                          = {i \in 1..n :
                               i > n - MaxTrades /\ arrived[s][i].ts >= at - span}
  BY DEF RecentIsComplete
<1> DEFINE n == Len(arrived[s])
           m == Len(windows[s])
           at == arrived[s][n].ts
           L == {n - m + i : i \in Recent(windows[s], at, span)}
           R == {i \in 1..n : i > n - MaxTrades /\ arrived[s][i].ts >= at - span}
<1>1. /\ s \in Symbols /\ arrived[s] \in Seq(Trades) /\ windows[s] \in Seq(Trades)
      /\ newest[s] \in Nat /\ WindowInv(windows[s], arrived[s], newest[s])
      /\ arrived[s] # << >>
  BY DEF StoreInv, StoreTypeOK, Window
<1>2. /\ n \in Nat \ {0} /\ m \in Nat /\ m <= n /\ m <= MaxTrades
      /\ Horizon \in Nat /\ Lateness \in Nat /\ MaxTrades \in Nat
      /\ span \in Int /\ span <= Horizon - Lateness
      /\ \A i \in 1..n : arrived[s][i].ts \in Nat
  BY <1>1, EmptySeq, LenProperties, ElementOfSeq, StoreAssumption, WindowAssumption
     DEF WindowInv
<1>3. /\ \A i \in 1..m : windows[s][i] = arrived[s][n - m + i]
      /\ \A i \in 1..(n - m) :
           i <= n - MaxTrades \/ arrived[s][i].ts < newest[s] - Horizon
      /\ at >= newest[s] - Lateness /\ at \in Nat
  BY <1>1, <1>2 DEF WindowInv
<1> HIDE DEF n, m, at
<1>4. ASSUME NEW j \in L PROVE j \in R
  <2>1. PICK i \in 1..m : j = n - m + i /\ windows[s][i].ts >= at - span
    BY <1>4 DEF Recent, m
  <2>2. j \in 1..n /\ j > n - MaxTrades
    BY <1>2, <2>1
  <2> QED BY <1>3, <2>1, <2>2
<1>5. ASSUME NEW j \in R PROVE j \in L
  <2>1. j \in 1..n /\ j > n - MaxTrades /\ arrived[s][j].ts >= at - span
    BY <1>5
  <2>2. ~(arrived[s][j].ts < newest[s] - Horizon)
    BY <1>1, <1>2, <1>3, <2>1
  <2>3. j > n - m
    <3>1. CASE j \in 1..(n - m)
      BY <1>2, <1>3, <2>1, <2>2, <3>1
    <3> QED BY <1>2, <2>1, <3>1
  <2>4. PICK i \in 1..m : j = n - m + i
    <3>1. j - (n - m) \in 1..m /\ j = n - m + (j - (n - m))
      BY <1>2, <2>1, <2>3
    <3> QED BY <3>1
  <2>5. i \in Recent(windows[s], at, span)
    BY <1>3, <2>1, <2>4 DEF Recent, m
  <2> QED BY <2>4, <2>5
<1>6. L = R
  BY <1>4, <1>5
<1> QED BY <1>6 DEF n, m, at

(* Whatever the sizes: eviction by age hides nothing from a detector whose  *)
(* span and the feed's lateness fit into the horizon.                       *)
THEOREM StoreRecentIsComplete == StoreSpec => []RecentIsComplete
BY StoreInvRecent, StoreInvariant, PTL

(* On a feed whose timestamps never run backwards the windows are what the  *)
(* documents say: nothing in them is older than the horizon.                *)
THEOREM MonotonicFeedWithinHorizon ==
  ASSUME Lateness = 0
  PROVE  StoreSpec => []WindowWithinHorizon
<1>1. StoreInv => WindowWithinHorizon
  <2> SUFFICES ASSUME StoreInv, NEW s \in DOMAIN windows,
                      NEW i \in 1..Len(windows[s])
               PROVE  windows[s][i].ts >= windows[s][Len(windows[s])].ts - Horizon
    BY DEF WindowWithinHorizon
  <2>1. windows[s][i].ts >= windows[s][Len(windows[s])].ts - Horizon - 0
    BY StoreInvImplies DEF WindowAgeBounded
  <2>2. Len(windows[s]) \in 1..Len(windows[s]) /\ windows[s] \in Seq(Trades)
    BY StoreInvImplies DEF WindowIsSuffix, StoreInv, StoreTypeOK
  <2>3. windows[s][Len(windows[s])].ts \in Nat /\ Horizon \in Nat
    BY <2>2, ElementOfSeq, StoreAssumption, WindowAssumption
  <2> QED BY <2>1, <2>3
<1> QED BY <1>1, StoreInvariant, PTL
-----------------------------------------------------------------------------
(* - - - the cooldown of the engine - - - - - - - - - - - - - - - - - - -   *)

(* The inductive invariant, for one key: e the event times it emitted, h    *)
(* those it held back, n the newest event time of its symbol.  The bound by *)
(* n is what limits how far ahead of a late trade the last alert can be.    *)
KeyInv(e, h, n) ==
  /\ \A j \in 1..Len(e) : e[j] <= n
  /\ Cooldown > 0 =>
       \A j \in 1..Len(e) : \A i \in 1..(j - 1) : e[j] - e[i] >= Cooldown
  /\ \A i \in 1..Len(h) : \E j \in 1..Len(e) :
       h[i] - e[j] < Cooldown /\ e[j] - h[i] <= Lateness

(* What comes m after b comes m after whatever b itself is m after.         *)
LEMMA SpacingAdds ==
  ASSUME NEW a \in Nat, NEW b \in Nat, NEW c \in Nat, NEW m \in Nat,
         a - b >= m, c = b \/ b - c >= m
  PROVE  a - c >= m
OBVIOUS

(* An alert that the cooldown lets through keeps the invariant of its key.  *)
LEMMA EmitKeepsKeyInv ==
  ASSUME NEW e \in Seq(Nat), NEW h \in Seq(Nat), NEW n \in Nat, NEW m \in Nat,
         NEW ts \in Nat, KeyInv(e, h, n), n <= m, ts <= m,
         Cooldown = 0 \/ e = << >> \/ ts - e[Len(e)] >= Cooldown
  PROVE  KeyInv(Append(e, ts), h, m)
<1> DEFINE x == Append(e, ts)
<1>1. /\ Len(e) \in Nat /\ Len(h) \in Nat /\ Len(x) = Len(e) + 1
      /\ x[Len(e) + 1] = ts /\ \A i \in 1..Len(e) : x[i] = e[i]
      /\ \A i \in 1..Len(e) : e[i] \in Nat
      /\ \A i \in 1..Len(h) : h[i] \in Nat
      /\ Cooldown \in Nat
  BY AppendProperties, LenProperties, ElementOfSeq, EngineAssumption
<1> HIDE DEF x
<1>2. ASSUME NEW j \in 1..Len(x)
      PROVE  x[j] <= m
  <2>1. CASE j <= Len(e)
    <3>1. j \in 1..Len(e) /\ x[j] = e[j] /\ e[j] \in Nat
      BY <1>1, <2>1
    <3>2. e[j] <= n
      BY <3>1 DEF KeyInv
    <3> QED BY <3>1, <3>2
  <2>2. CASE j = Len(e) + 1
    BY <1>1, <2>2
  <2> QED BY <1>1, <2>1, <2>2
<1>3. ASSUME Cooldown > 0, NEW j \in 1..Len(x), NEW i \in 1..(j - 1)
      PROVE  x[j] - x[i] >= Cooldown
  <2>1. CASE j <= Len(e)
    <3>1. j \in 1..Len(e) /\ i \in 1..Len(e) /\ x[j] = e[j] /\ x[i] = e[i]
      BY <1>1, <2>1
    <3> QED BY <1>3, <3>1 DEF KeyInv
  <2>2. CASE j = Len(e) + 1
    <3>1. i \in 1..Len(e) /\ Len(e) \in 1..Len(e)
      BY <1>1, <2>2
    <3>2. ts - e[Len(e)] >= Cooldown
      BY <1>1, <1>3, <3>1, EmptySeq
    <3>3. e[i] = e[Len(e)] \/ e[Len(e)] - e[i] >= Cooldown
      <4>1. CASE i < Len(e)
        <5>1. i \in 1..(Len(e) - 1)
          BY <1>1, <3>1, <4>1
        <5> QED BY <1>3, <3>1, <5>1 DEF KeyInv
      <4>2. CASE ~(i < Len(e))
        <5>1. i = Len(e)
          BY <1>1, <3>1, <4>2
        <5> QED BY <5>1
      <4> QED BY <4>1, <4>2
    <3>4. e[i] \in Nat /\ e[Len(e)] \in Nat
      BY <1>1, <3>1
    <3>5. ts - e[i] >= Cooldown
      BY <1>1, <3>2, <3>3, <3>4, SpacingAdds
    <3> QED BY <1>1, <2>2, <3>1, <3>5
  <2>3. j <= Len(e) \/ j = Len(e) + 1
    BY <1>1
  <2> QED BY <2>1, <2>2, <2>3
<1>4. ASSUME NEW i \in 1..Len(h)
      PROVE  \E j \in 1..Len(x) : h[i] - x[j] < Cooldown /\ x[j] - h[i] <= Lateness
  <2>1. PICK j \in 1..Len(e) : h[i] - e[j] < Cooldown /\ e[j] - h[i] <= Lateness
    BY DEF KeyInv
  <2>2. j \in 1..Len(x) /\ x[j] = e[j]
    BY <1>1
  <2> QED BY <2>1, <2>2
<1>5. KeyInv(x, h, m)
  BY <1>2, <1>3, <1>4 DEF KeyInv
<1> QED BY <1>5 DEF x

(* So does one that it holds back, since the last alert is less than the    *)
(* cooldown before it and the trade is not later than the feed allows.      *)
LEMMA HoldKeepsKeyInv ==
  ASSUME NEW e \in Seq(Nat), NEW h \in Seq(Nat), NEW n \in Nat, NEW m \in Nat,
         NEW ts \in Nat, KeyInv(e, h, n), n <= m, ts >= n - Lateness,
         e # << >>, ts - e[Len(e)] < Cooldown
  PROVE  KeyInv(e, Append(h, ts), m)
<1> DEFINE x == Append(h, ts)
<1>1. /\ Len(e) \in Nat \ {0} /\ Len(h) \in Nat /\ Len(x) = Len(h) + 1
      /\ x[Len(h) + 1] = ts /\ \A i \in 1..Len(h) : x[i] = h[i]
      /\ \A i \in 1..Len(e) : e[i] \in Nat
      /\ Lateness \in Nat
  BY AppendProperties, LenProperties, ElementOfSeq, EmptySeq, StoreAssumption
<1> HIDE DEF x
<1>2. Len(e) \in 1..Len(e) /\ e[Len(e)] \in Nat /\ e[Len(e)] <= n
  BY <1>1 DEF KeyInv
<1>3. \A j \in 1..Len(e) : e[j] <= m
  BY <1>1 DEF KeyInv
<1>4. ASSUME NEW i \in 1..Len(x)
      PROVE  \E j \in 1..Len(e) : x[i] - e[j] < Cooldown /\ e[j] - x[i] <= Lateness
  <2>1. CASE i <= Len(h)
    <3>1. i \in 1..Len(h) /\ x[i] = h[i]
      BY <1>1, <2>1
    <3> QED BY <3>1 DEF KeyInv
  <2>2. CASE i = Len(h) + 1
    <3>1. x[i] - e[Len(e)] < Cooldown /\ e[Len(e)] - x[i] <= Lateness
      BY <1>1, <1>2, <2>2
    <3> QED BY <1>2, <3>1
  <2> QED BY <1>1, <2>1, <2>2
<1>5. KeyInv(e, x, m)
  BY <1>3, <1>4 DEF KeyInv
<1> QED BY <1>5 DEF x

(* And so does the passing of event time alone.                             *)
LEMMA NewerKeepsKeyInv ==
  ASSUME NEW e \in Seq(Nat), NEW h \in Seq(Nat), NEW n \in Nat, NEW m \in Nat,
         KeyInv(e, h, n), n <= m
  PROVE  KeyInv(e, h, m)
<1>1. \A j \in 1..Len(e) : e[j] \in Nat
  BY ElementOfSeq
<1> QED BY <1>1 DEF KeyInv

-----------------------------------------------------------------------------
(* - - - sums - - - - - - - - - - - - - - - - - - - - - - - - - - - - - - - *)

(* g measures the subsets of f's domain by adding f up over them.           *)
Measures(g, f) ==
  /\ g \in [SUBSET DOMAIN f -> Nat]
  /\ g[{}] = 0
  /\ \A T \in SUBSET DOMAIN f : \A x \in T : g[T] = f[x] + g[T \ {x}]

(* it is the fold that SumFunction is defined by.                           *)
SumStep(it, f) ==
  it = [s \in SUBSET DOMAIN f |->
          IF s = {} THEN 0
          ELSE f[CHOOSE x \in s : TRUE] + it[s \ {CHOOSE x \in s : TRUE}]]

(* The sum of a function is what its fold comes to for all of its domain.   *)
LEMMA SumIsFold ==
  ASSUME NEW f
  PROVE  SumFunction(f) = (CHOOSE it : SumStep(it, f))[DOMAIN f]
BY DEF SumFunction, SumFunctionOnSet, FoldFunctionOnSet, MapThenFoldSet, SumStep

(* Whatever order the fold takes the elements in, it comes to any measure:  *)
(* there is no smallest set for which it does not.                          *)
LEMMA SumIsMeasure ==
  ASSUME NEW f, IsFiniteSet(DOMAIN f), NEW g, Measures(g, f)
  PROVE  SumFunction(f) = g[DOMAIN f]
<1> DEFINE D == DOMAIN f
           some(s) == CHOOSE x \in s : TRUE
           it == CHOOSE it : SumStep(it, f)
<1>1. SumStep(g, f)
  <2>1. ASSUME NEW s \in SUBSET D, s # {} PROVE g[s] = f[some(s)] + g[s \ {some(s)}]
    <3>1. some(s) \in s
      BY <2>1
    <3> QED BY <3>1 DEF Measures
  <2> QED BY <2>1 DEF Measures, SumStep
<1>2. SumStep(it, f)
  BY <1>1, Zenon
<1> HIDE DEF it
<1>3. \A s \in SUBSET D : it[s] = IF s = {} THEN 0 ELSE f[some(s)] + it[s \ {some(s)}]
  BY <1>2 DEF SumStep
<1>4. ASSUME NEW U \in SUBSET D, it[U] # g[U] PROVE FALSE
  <2> DEFINE F == {Cardinality(s) : s \in {u \in SUBSET D : it[u] # g[u]}}
  <2>1. \A s \in SUBSET D : IsFiniteSet(s) /\ Cardinality(s) \in Nat
    BY FS_Subset, FS_CardinalityType
  <2>2. F \in SUBSET Nat /\ F # {}
    BY <1>4, <2>1
  <2>3. PICK n \in F : \A m \in F : n <= m
    BY <2>2, MinOfNaturals
  <2>4. PICK s \in SUBSET D : it[s] # g[s] /\ Cardinality(s) = n
    BY <2>3
  <2>5. s # {}
    BY <1>3, <2>4 DEF Measures
  <2> DEFINE x == some(s)
  <2>6. x \in s
    BY <2>5
  <2> HIDE DEF x
  <2>7. it[s] = f[x] + it[s \ {x}]
    BY <1>3, <2>5 DEF x
  <2>8. g[s] = f[x] + g[s \ {x}]
    BY <2>6 DEF Measures
  <2>9. s \ {x} \in SUBSET D /\ it[s \ {x}] # g[s \ {x}]
    BY <2>4, <2>7, <2>8
  <2>10. Cardinality(s \ {x}) \in F /\ Cardinality(s \ {x}) = n - 1
    BY <2>1, <2>4, <2>6, <2>9, FS_RemoveElement
  <2>11. n \in Nat
    BY <2>2
  <2> QED BY <2>3, <2>10, <2>11
<1> QED BY <1>4, SumIsFold DEF it

(* f sums up to n.                                                          *)
Sums(f, n) == \E g : Measures(g, f) /\ g[DOMAIN f] = n

(* There is but one number a function sums up to, and SumFunction is it.    *)
LEMMA SumOfFunction ==
  ASSUME NEW f, IsFiniteSet(DOMAIN f), NEW n, Sums(f, n)
  PROVE  SumFunction(f) = n
BY SumIsMeasure DEF Sums

(* Zeros sum up to zero,                                                    *)
LEMMA SumOfZeros ==
  ASSUME NEW D
  PROVE  Sums([x \in D |-> 0], 0)
<1> DEFINE f == [x \in D |-> 0]
           g == [T \in SUBSET D |-> 0]
<1>1. Measures(g, f) /\ g[DOMAIN f] = 0
  BY DEF Measures
<1> QED BY <1>1 DEF Sums

(* and the sum of two functions to the sum of their sums.                   *)
LEMMA SumOfSums ==
  ASSUME NEW D, NEW f \in [D -> Nat], NEW h \in [D -> Nat],
         NEW n, NEW m, Sums(f, n), Sums(h, m)
  PROVE  Sums([x \in D |-> f[x] + h[x]], n + m)
<1> DEFINE e == [x \in D |-> f[x] + h[x]]
<1>1. PICK a : Measures(a, f) /\ a[D] = n
  BY DEF Sums
<1>2. PICK b : Measures(b, h) /\ b[D] = m
  BY DEF Sums
<1> DEFINE g == [T \in SUBSET D |-> a[T] + b[T]]
<1>3. \A T \in SUBSET D : a[T] \in Nat /\ b[T] \in Nat
  BY <1>1, <1>2 DEF Measures
<1>4. g \in [SUBSET D -> Nat] /\ g[{}] = 0 /\ g[D] = n + m
  BY <1>1, <1>2, <1>3 DEF Measures
<1>5. ASSUME NEW T \in SUBSET D, NEW x \in T
      PROVE  g[T] = e[x] + g[T \ {x}]
  <2>1. /\ a[T] = f[x] + a[T \ {x}] /\ b[T] = h[x] + b[T \ {x}]
        /\ x \in D /\ T \ {x} \in SUBSET D
    BY <1>1, <1>2 DEF Measures
  <2>2. /\ a[T] \in Nat /\ b[T] \in Nat /\ f[x] \in Nat /\ h[x] \in Nat
        /\ a[T \ {x}] \in Nat /\ b[T \ {x}] \in Nat
    BY <1>3, <2>1
  <2>3. e[x] = f[x] + h[x] /\ g[T] = a[T] + b[T] /\ g[T \ {x}] = a[T \ {x}] + b[T \ {x}]
    BY <2>1
  <2> HIDE DEF e, g
  <2> QED BY <2>1, <2>2, <2>3
<1>6. DOMAIN e = D
  OBVIOUS
<1> HIDE DEF e, g
<1>7. Measures(g, e)
  BY <1>4, <1>5, <1>6 DEF Measures
<1> QED BY <1>4, <1>6, <1>7 DEF Sums, e

(* The parts of a set, by what v says of its elements, make up the set.     *)
LEMMA SumOfParts ==
  ASSUME NEW D, NEW R, IsFiniteSet(R), NEW v, \A d \in R : v[d] \in D
  PROVE  Sums([s \in D |-> Cardinality({d \in R : v[d] = s})], Cardinality(R))
<1> DEFINE part(T) == {d \in R : v[d] \in T}
           h == [s \in D |-> Cardinality({d \in R : v[d] = s})]
           g == [T \in SUBSET D |-> Cardinality(part(T))]
<1>1. \A S \in SUBSET R : IsFiniteSet(S) /\ Cardinality(S) \in Nat
  BY FS_Subset, FS_CardinalityType
<1>2. /\ g \in [SUBSET D -> Nat] /\ g[{}] = 0 /\ g[D] = Cardinality(R)
  <2>1. \A T \in SUBSET D : part(T) \in SUBSET R
    OBVIOUS
  <2>2. part({}) = {} /\ part(D) = R
    OBVIOUS
  <2> QED BY <1>1, <2>1, <2>2, FS_EmptySet
<1>3. ASSUME NEW T \in SUBSET D, NEW s \in T
      PROVE  g[T] = h[s] + g[T \ {s}]
  <2> DEFINE A == {d \in R : v[d] = s}
             B == part(T \ {s})
  <2>1. A \in SUBSET R /\ B \in SUBSET R /\ part(T) = A \cup B /\ A \cap B = {}
    OBVIOUS
  <2>2. g[T] = Cardinality(part(T)) /\ h[s] = Cardinality(A) /\ g[T \ {s}] = Cardinality(B)
    OBVIOUS
  <2> HIDE DEF A, B, g, h, part
  <2>3. /\ IsFiniteSet(A) /\ IsFiniteSet(B)
        /\ Cardinality(A) \in Nat /\ Cardinality(B) \in Nat
    BY <1>1, <2>1
  <2>4. Cardinality(A \cup B) = Cardinality(A) + Cardinality(B) - Cardinality(A \cap B)
    BY <2>3, FS_Union
  <2>5. Cardinality({}) = 0
    BY FS_EmptySet
  <2>6. Cardinality(A \cup B) = Cardinality(A) + Cardinality(B)
    BY <2>1, <2>3, <2>4, <2>5
  <2> QED BY <2>1, <2>2, <2>6, Zenon
<1>4. DOMAIN h = D
  OBVIOUS
<1> HIDE DEF g, h
<1>5. Measures(g, h)
  BY <1>2, <1>3, <1>4 DEF Measures
<1> QED BY <1>2, <1>4, <1>5 DEF Sums, h

(* f, and one more at each of the points that v takes R to.                 *)
UpAt(f, D, R, v) == [x \in D |-> f[x] + (IF \E d \in R : v[d] = x THEN 1 ELSE 0)]

(* One more at each of the points that v, one to one, takes R to.           *)
LEMMA SumOfOneMore ==
  ASSUME NEW D, NEW f \in [D -> Nat], NEW n \in Nat, Sums(f, n),
         NEW R, IsFiniteSet(R), NEW v, \A d \in R : v[d] \in D,
         \A d, e \in R : v[d] = v[e] => d = e
  PROVE  Sums(UpAt(f, D, R, v), n + Cardinality(R))
<1> DEFINE h == [s \in D |-> Cardinality({d \in R : v[d] = s})]
           e == UpAt(f, D, R, v)
<1>1. Sums(h, Cardinality(R))
  BY SumOfParts
<1>2. ASSUME NEW x \in D PROVE h[x] = IF \E d \in R : v[d] = x THEN 1 ELSE 0
  <2>1. CASE \E d \in R : v[d] = x
    <3>1. PICK d \in R : v[d] = x
      BY <2>1
    <3>2. {y \in R : v[y] = x} = {d}
      BY <3>1
    <3> QED BY <2>1, <3>2, FS_Singleton
  <2>2. CASE ~\E d \in R : v[d] = x
    <3>1. {y \in R : v[y] = x} = {}
      BY <2>2
    <3> QED BY <2>2, <3>1, FS_EmptySet
  <2> QED BY <2>1, <2>2
<1>3. h \in [D -> Nat]
  <2>1. \A x \in D : h[x] \in Nat
    BY <1>2
  <2> QED BY <2>1
<1>4. e = [x \in D |-> f[x] + h[x]]
  BY <1>2 DEF UpAt
<1> HIDE DEF h
<1>5. Sums([x \in D |-> f[x] + h[x]], n + Cardinality(R))
  BY <1>1, <1>3, SumOfSums
<1> QED BY <1>4, <1>5

(* One more at a single point.                                              *)
LEMMA SumOfOneUp ==
  ASSUME NEW D, NEW f \in [D -> Nat], NEW n \in Nat, Sums(f, n), NEW s \in D
  PROVE  Sums([f EXCEPT ![s] = @ + 1], n + 1)
<1> DEFINE R == {s}
           v == [d \in R |-> d]
           e == UpAt(f, D, R, v)
           g == [f EXCEPT ![s] = @ + 1]
<1>1. IsFiniteSet(R) /\ Cardinality(R) = 1
  BY FS_Singleton
<1>2. (\A d \in R : v[d] \in D) /\ (\A d, x \in R : v[d] = v[x] => d = x)
  OBVIOUS
<1>3. \A x \in D : (\E d \in R : v[d] = x) <=> x = s
  OBVIOUS
<1>4. g = [x \in D |-> IF x = s THEN f[x] + 1 ELSE f[x]]
  OBVIOUS
<1> HIDE DEF R, v, g
<1>5. \A x \in D : f[x] + (IF \E d \in R : v[d] = x THEN 1 ELSE 0)
                    = IF x = s THEN f[x] + 1 ELSE f[x]
  BY <1>3
<1>6. e = g
  BY <1>4, <1>5 DEF UpAt
<1>7. Sums(e, n + Cardinality(R))
  BY <1>1, <1>2, SumOfOneMore
<1> QED BY <1>1, <1>6, <1>7 DEF g

(* The lengths of histories are numbers.                                    *)
LEMMA LengthsType ==
  ASSUME NEW D, NEW S, NEW h \in [D -> Seq(S)]
  PROVE  Lengths(h) \in [D -> Nat] /\ \A x \in D : Lengths(h)[x] = Len(h[x])
<1>1. \A x \in D : Len(h[x]) \in Nat
  BY LenProperties
<1> QED BY <1>1 DEF Lengths

(* One history grows by an entry.                                           *)
LEMMA SumOfAppend ==
  ASSUME NEW D, NEW S, NEW h \in [D -> Seq(S)], NEW n \in Nat, Sums(Lengths(h), n),
         NEW s \in D, NEW x \in S
  PROVE  Sums(Lengths([h EXCEPT ![s] = Append(@, x)]), n + 1)
<1> DEFINE g == [h EXCEPT ![s] = Append(@, x)]
           l == Lengths(h)
<1>1. /\ Append(h[s], x) \in Seq(S) /\ Len(Append(h[s], x)) = Len(h[s]) + 1
      /\ Len(h[s]) \in Nat
  BY AppendProperties, LenProperties
<1>2. /\ g \in [D -> Seq(S)] /\ Len(g[s]) = Len(h[s]) + 1
      /\ \A d \in D \ {s} : g[d] = h[d]
  BY <1>1
<1>3. l \in [D -> Nat] /\ \A d \in D : l[d] = Len(h[d])
  BY LengthsType
<1> HIDE DEF g, l
<1>4. Lengths(g) = [d \in D |-> Len(g[d])]
  BY <1>2 DEF Lengths
<1>5. Lengths(g) = [l EXCEPT ![s] = @ + 1]
  BY <1>2, <1>3, <1>4
<1>6. Sums([l EXCEPT ![s] = @ + 1], n + 1)
  BY <1>3, SumOfOneUp DEF l
<1> QED BY <1>5, <1>6 DEF g

(* What Detect counts up and notes: one more for each detector of D.        *)
LEMMA SumOfCountUp ==
  ASSUME NEW f \in [Detectors -> Nat], NEW n \in Nat, Sums(f, n),
         NEW D \in SUBSET Detectors
  PROVE  Sums(CountUp(f, D), n + Cardinality(D))
<1> DEFINE v == [d \in D |-> d]
           e == UpAt(f, Detectors, D, v)
<1>1. IsFiniteSet(D)
  BY EngineAssumption, FS_Subset
<1>2. (\A d \in D : v[d] \in Detectors) /\ (\A d, x \in D : v[d] = v[x] => d = x)
  OBVIOUS
<1>3. e = CountUp(f, D)
  BY DEF CountUp, UpAt
<1> HIDE DEF v
<1>4. Sums(e, n + Cardinality(D))
  BY <1>1, <1>2, SumOfOneMore
<1> QED BY <1>3, <1>4

(* The histories of the detectors of D each grow by the trade's time.        *)
LEMMA SumOfNote ==
  ASSUME NEW h \in [Keys -> Seq(Nat)], NEW n \in Nat, Sums(Lengths(h), n),
         NEW t \in Trades, NEW D \in SUBSET Detectors
  PROVE  Sums(Lengths(Note(h, KeysOf(t, D), t.ts)), n + Cardinality(D))
<1> DEFINE v == [d \in D |-> <<t.symbol, d>>]
           l == Lengths(h)
           g == Note(h, KeysOf(t, D), t.ts)
           e == UpAt(l, Keys, D, v)
<1>1. IsFiniteSet(D) /\ t.symbol \in Symbols /\ t.ts \in Nat
  BY EngineAssumption, FS_Subset, StoreAssumption
<1>2. (\A d \in D : v[d] \in Keys) /\ (\A d, x \in D : v[d] = v[x] => d = x)
  BY <1>1 DEF Keys
<1>3. l \in [Keys -> Nat] /\ \A k \in Keys : l[k] = Len(h[k])
  BY LengthsType
<1>4. \A k \in Keys : g[k] = IF \E d \in D : v[d] = k THEN Append(h[k], t.ts) ELSE h[k]
  BY DEF Note, KeysOf
<1>5. DOMAIN g = Keys
  BY DEF Note
<1> HIDE DEF v, g, l
<1>6. ASSUME NEW k \in Keys
      PROVE  Len(g[k]) = l[k] + (IF \E d \in D : v[d] = k THEN 1 ELSE 0)
  <2>1. Len(Append(h[k], t.ts)) = Len(h[k]) + 1 /\ l[k] = Len(h[k]) /\ l[k] \in Nat
    BY <1>1, <1>3, AppendProperties
  <2>2. CASE \E d \in D : v[d] = k
    <3>1. g[k] = Append(h[k], t.ts)
      BY <1>4, <2>2
    <3> QED BY <2>1, <2>2, <3>1
  <2>3. CASE ~\E d \in D : v[d] = k
    <3>1. g[k] = h[k]
      BY <1>4, <2>3
    <3> QED BY <2>1, <2>3, <3>1
  <2> QED BY <2>2, <2>3, Zenon
<1>7. Lengths(g) = e
  BY <1>5, <1>6 DEF Lengths, UpAt
<1>8. Sums(l, n)
  BY DEF l
<1>9. Sums(e, n + Cardinality(D))
  <2>1. l \in [Keys -> Nat]
    BY <1>3
  <2> QED BY <1>1, <1>2, <1>8, <2>1, SumOfOneMore
<1> QED BY <1>7, <1>9 DEF g

-----------------------------------------------------------------------------
EngineInv ==
  /\ StoreInv
  /\ EngineTypeOK
  /\ \A k \in Keys : KeyInv(emitted[k], suppressed[k], newest[k[1]])
  /\ \A k \in Keys :
       k \in DOMAIN lastAlertTs <=> Cooldown > 0 /\ emitted[k] # << >>
  /\ \A k \in DOMAIN lastAlertTs : lastAlertTs[k] = emitted[k][Len(emitted[k])]

(* The engine starts in its invariant.                                      *)
LEMMA EngineInitInv == EngineInit => EngineInv
<1> SUFFICES ASSUME EngineInit PROVE EngineInv
  OBVIOUS
<1>1. /\ << >> \in Seq(Nat) /\ Len(<< >>) = 0 /\ DOMAIN lastAlertTs = {}
  BY EmptySeq DEF EngineInit
<1>2. StoreInv
  BY StoreInitInv DEF EngineInit
<1>3. EngineTypeOK
  BY <1>1, <1>2 DEF EngineInit, EngineTypeOK, StoreInv
<1>4. ASSUME NEW k \in Keys
      PROVE  KeyInv(emitted[k], suppressed[k], newest[k[1]])
  <2>1. emitted[k] = << >> /\ suppressed[k] = << >>
    BY DEF EngineInit
  <2> QED BY <1>1, <2>1 DEF KeyInv
<1>5. \A k \in Keys : emitted[k] = << >>
  BY DEF EngineInit
<1> QED BY <1>1, <1>2, <1>3, <1>4, <1>5 DEF EngineInv

(* What Detect does to the histories and the remembered time of one key.    *)
LEMMA DetectOnKey ==
  ASSUME EngineTypeOK, NEW t \in Trades, NEW v \in Verdicts, Detect(t, v),
         NEW k \in Keys
  PROVE  \/ /\ k[1] = t.symbol /\ ~Suppressed(t, k[2])
            /\ emitted'[k] = Append(emitted[k], t.ts)
            /\ suppressed'[k] = suppressed[k]
            /\ Cooldown > 0 => k \in DOMAIN lastAlertTs' /\ lastAlertTs'[k] = t.ts
            /\ Cooldown = 0 => lastAlertTs' = lastAlertTs
         \/ /\ k[1] = t.symbol /\ Suppressed(t, k[2])
            /\ emitted'[k] = emitted[k]
            /\ suppressed'[k] = Append(suppressed[k], t.ts)
            /\ k \in DOMAIN lastAlertTs' <=> k \in DOMAIN lastAlertTs
            /\ k \in DOMAIN lastAlertTs => lastAlertTs'[k] = lastAlertTs[k]
         \/ /\ emitted'[k] = emitted[k]
            /\ suppressed'[k] = suppressed[k]
            /\ k \in DOMAIN lastAlertTs' <=> k \in DOMAIN lastAlertTs
            /\ k \in DOMAIN lastAlertTs => lastAlertTs'[k] = lastAlertTs[k]
<1> DEFINE R == KeysOf(t, Raised(t, v))
           H == KeysOf(t, Held(t, v))
<1>1. /\ k \in R <=> k[1] = t.symbol /\ k[2] \in Raised(t, v)
      /\ k \in H <=> k[1] = t.symbol /\ k[2] \in Held(t, v)
      /\ k[2] \in Raised(t, v) => ~Suppressed(t, k[2])
      /\ k[2] \in Held(t, v) => Suppressed(t, k[2])
  BY DEF Keys, KeysOf, Raised, Held
<1>2. /\ emitted' = Note(emitted, R, t.ts)
      /\ suppressed' = Note(suppressed, H, t.ts)
      /\ lastAlertTs' = Remember(t, Raised(t, v))
  BY DEF Detect
<1>3. k \in DOMAIN emitted /\ k \in DOMAIN suppressed
  BY DEF EngineTypeOK
<1>4. /\ emitted'[k] = IF k \in R THEN Append(emitted[k], t.ts) ELSE emitted[k]
      /\ suppressed'[k] = IF k \in H THEN Append(suppressed[k], t.ts) ELSE suppressed[k]
  BY <1>2, <1>3 DEF Note
<1>5. CASE Cooldown = 0
  <2>1. lastAlertTs' = lastAlertTs
    BY <1>2, <1>5 DEF Remember
  <2> QED BY <1>1, <1>4, <1>5, <2>1
<1>6. CASE Cooldown # 0
  <2>1. /\ DOMAIN lastAlertTs' = DOMAIN lastAlertTs \cup R
        /\ \A x \in DOMAIN lastAlertTs \cup R :
             lastAlertTs'[x] = IF x \in R THEN t.ts ELSE lastAlertTs[x]
    BY <1>2, <1>6 DEF Remember
  <2> HIDE DEF R, H
  <2> QED BY <1>1, <1>4, <1>6, <2>1
<1> QED BY <1>5, <1>6

(* Counting up keeps a function to the naturals one.                        *)
LEMMA CountUpType ==
  ASSUME NEW f \in [Detectors -> Nat], NEW D
  PROVE  CountUp(f, D) \in [Detectors -> Nat]
BY DEF CountUp

(* Noting a time keeps the histories sequences of times.                    *)
LEMMA NoteType ==
  ASSUME NEW h \in [Keys -> Seq(Nat)], NEW K, NEW ts \in Nat
  PROVE  Note(h, K, ts) \in [Keys -> Seq(Nat)]
<1>1. \A k \in Keys : h[k] \in Seq(Nat) /\ Append(h[k], ts) \in Seq(Nat)
  BY AppendProperties
<1> QED BY <1>1 DEF Note

(* Every step of the engine keeps the types.                                *)
LEMMA ProcessKeepsType ==
  ASSUME EngineInv, NEW t \in Trades, NEW v \in Verdicts, OnTime(t), Process(t, v)
  PROVE  EngineTypeOK'
<1>1. StoreTypeOK'
  BY StoreKeepsInv DEF EngineInv, StoreInv, Process
<1>2. t.symbol \in Symbols /\ t.ts \in Nat
  BY StoreAssumption
<1>3. ASSUME NEW D \in SUBSET Detectors
      PROVE  Cardinality(D) \in Nat
  BY EngineAssumption, FS_Subset, FS_CardinalityType
<1>4. Raised(t, v) \in SUBSET Detectors /\ Held(t, v) \in SUBSET Detectors
  BY DEF Raised, Held, Fired
<1>5. tradesProcessed' \in Nat /\ alertsRaised' \in Nat /\ alertsSuppressed' \in Nat
  <2>1. Cardinality(Raised(t, v)) \in Nat /\ Cardinality(Held(t, v)) \in Nat
    BY <1>3, <1>4
  <2> QED BY <2>1 DEF EngineInv, EngineTypeOK, Process, Detect
<1>6. byDetector' \in [Detectors -> Nat] /\ errorsByDetector' \in [Detectors -> Nat]
  BY CountUpType DEF EngineInv, EngineTypeOK, Process, Detect
<1>7. bySeverity' \in [Severities -> Nat]
  <2>1. \A s \in Severities : Cardinality({d \in Raised(t, v) : v[d] = s}) \in Nat
    BY <1>3, <1>4
  <2>2. bySeverity' = [s \in Severities |->
                         bySeverity[s] + Cardinality({d \in Raised(t, v) : v[d] = s})]
    BY DEF Process, Detect
  <2>3. bySeverity \in [Severities -> Nat]
    BY DEF EngineInv, EngineTypeOK
  <2> QED BY <2>1, <2>2, <2>3
<1>8. emitted' \in [Keys -> Seq(Nat)] /\ suppressed' \in [Keys -> Seq(Nat)]
  BY <1>2, NoteType DEF EngineInv, EngineTypeOK, Process, Detect
<1>9. /\ DOMAIN lastAlertTs' \subseteq Keys
      /\ \A k \in DOMAIN lastAlertTs' : lastAlertTs'[k] \in Nat
  <2>1. lastAlertTs' = Remember(t, Raised(t, v))
    BY DEF Process, Detect
  <2>2. KeysOf(t, Raised(t, v)) \subseteq Keys
    BY <1>2, <1>4 DEF KeysOf, Keys
  <2>3. /\ DOMAIN lastAlertTs \subseteq Keys
        /\ \A k \in DOMAIN lastAlertTs : lastAlertTs[k] \in Nat
    BY DEF EngineInv, EngineTypeOK
  <2> QED BY <1>2, <2>1, <2>2, <2>3 DEF Remember
<1> QED BY <1>1, <1>5, <1>6, <1>7, <1>8, <1>9 DEF EngineTypeOK

(* Every step of the engine keeps its invariant.                            *)
LEMMA ProcessKeepsInv ==
  ASSUME EngineInv, NEW t \in Trades, NEW v \in Verdicts, OnTime(t), Process(t, v)
  PROVE  EngineInv'
<1>1. StoreInv' /\ EngineTypeOK'
  BY StoreKeepsInv, ProcessKeepsType DEF EngineInv, Process
<1>2. /\ t.symbol \in Symbols /\ t.ts \in Nat
      /\ t.ts >= newest[t.symbol] - Lateness
      /\ Cooldown \in Nat /\ Lateness \in Nat
  BY StoreAssumption, EngineAssumption DEF OnTime
<1>3. /\ newest \in [Symbols -> Nat] /\ newest' \in [Symbols -> Nat]
      /\ \A s \in Symbols : newest[s] <= newest'[s]
      /\ t.ts <= newest'[t.symbol]
  BY <1>1, <1>2 DEF Process, Store, EngineInv, StoreInv, StoreTypeOK
<1>4. ASSUME NEW k \in Keys
      PROVE  /\ KeyInv(emitted'[k], suppressed'[k], newest'[k[1]])
             /\ k \in DOMAIN lastAlertTs' <=> Cooldown > 0 /\ emitted'[k] # << >>
             /\ k \in DOMAIN lastAlertTs' =>
                  lastAlertTs'[k] = emitted'[k][Len(emitted'[k])]
  <2> DEFINE e == emitted[k]
             h == suppressed[k]
             n == newest[k[1]]
             m == newest'[k[1]]
  <2>1. /\ e \in Seq(Nat) /\ h \in Seq(Nat) /\ n \in Nat /\ m \in Nat /\ n <= m
        /\ KeyInv(e, h, n)
        /\ k \in DOMAIN lastAlertTs <=> Cooldown > 0 /\ e # << >>
        /\ k \in DOMAIN lastAlertTs => lastAlertTs[k] = e[Len(e)]
        /\ k = <<k[1], k[2]>>
    <3>1. k[1] \in Symbols /\ k = <<k[1], k[2]>>
      BY DEF Keys
    <3> QED BY <1>3, <3>1 DEF EngineInv, EngineTypeOK
  <2>2. CASE /\ k[1] = t.symbol /\ ~Suppressed(t, k[2])
             /\ emitted'[k] = Append(e, t.ts) /\ suppressed'[k] = h
             /\ Cooldown > 0 => k \in DOMAIN lastAlertTs' /\ lastAlertTs'[k] = t.ts
             /\ Cooldown = 0 => lastAlertTs' = lastAlertTs
    <3>1. Cooldown = 0 \/ e = << >> \/ ~(t.ts - e[Len(e)] < Cooldown)
      <4>1. k = <<t.symbol, k[2]>>
        BY <2>1, <2>2
      <4>2. CASE Cooldown > 0 /\ e # << >>
        <5>1. k \in DOMAIN lastAlertTs /\ lastAlertTs[k] = e[Len(e)]
          BY <2>1, <4>2
        <5>2. ~(t.ts - lastAlertTs[k] < Cooldown)
          BY <2>2, <4>1, <4>2, <5>1, Zenon DEF Suppressed
        <5> QED BY <5>1, <5>2
      <4> QED BY <1>2, <4>2
    <3>2. e = << >> \/ e[Len(e)] \in Nat
      BY <2>1, ElementOfSeq, EmptySeq
    <3>3. Cooldown = 0 \/ e = << >> \/ t.ts - e[Len(e)] >= Cooldown
      BY <1>2, <3>1, <3>2
    <3>4. KeyInv(Append(e, t.ts), h, m)
      BY <1>2, <1>3, <2>1, <2>2, <3>3, EmitKeepsKeyInv
    <3>5. /\ Append(e, t.ts) # << >>
          /\ Append(e, t.ts)[Len(Append(e, t.ts))] = t.ts
      BY <1>2, <2>1, AppendProperties
    <3> HIDE DEF e, h, n, m
    <3> QED BY <1>2, <2>1, <2>2, <3>4, <3>5 DEF m
  <2>3. CASE /\ k[1] = t.symbol /\ Suppressed(t, k[2])
             /\ emitted'[k] = e /\ suppressed'[k] = Append(h, t.ts)
             /\ k \in DOMAIN lastAlertTs' <=> k \in DOMAIN lastAlertTs
             /\ k \in DOMAIN lastAlertTs => lastAlertTs'[k] = lastAlertTs[k]
    <3>1. e # << >> /\ t.ts - e[Len(e)] < Cooldown
      BY <2>1, <2>3 DEF Suppressed
    <3>2. KeyInv(e, Append(h, t.ts), m)
      BY <1>2, <2>1, <2>3, <3>1, HoldKeepsKeyInv
    <3> QED BY <2>1, <2>3, <3>2
  <2>4. CASE /\ emitted'[k] = e /\ suppressed'[k] = h
             /\ k \in DOMAIN lastAlertTs' <=> k \in DOMAIN lastAlertTs
             /\ k \in DOMAIN lastAlertTs => lastAlertTs'[k] = lastAlertTs[k]
    <3>1. KeyInv(e, h, m)
      BY <2>1, NewerKeepsKeyInv
    <3> QED BY <2>1, <2>4, <3>1
  <2>5. EngineTypeOK /\ Detect(t, v)
    BY DEF EngineInv, Process
  <2> QED BY <2>2, <2>3, <2>4, <2>5, DetectOnKey
<1>5. DOMAIN lastAlertTs' \subseteq Keys
  BY <1>1 DEF EngineTypeOK
<1> QED BY <1>1, <1>4, <1>5 DEF EngineInv

(* A step that leaves the engine alone keeps it.                            *)
LEMMA EngineStutter ==
  ASSUME EngineInv, UNCHANGED engineVars
  PROVE  EngineInv'
<1>1. StoreInv'
  BY StoreStutter DEF engineVars, EngineInv
<1>2. EngineTypeOK'
  BY <1>1 DEF EngineInv, EngineTypeOK, engineVars, counters, StoreInv
<1>3. /\ lastAlertTs' = lastAlertTs /\ emitted' = emitted
      /\ suppressed' = suppressed /\ newest' = newest
  BY DEF engineVars, storeVars
<1> QED BY <1>1, <1>2, <1>3 DEF EngineInv

(* The engine keeps its invariant for ever.                                 *)
THEOREM EngineInvariant == EngineSpec => []EngineInv
<1>1. EngineInv /\ [EngineNext]_engineVars => EngineInv'
  BY ProcessKeepsInv, EngineStutter DEF EngineNext
<1> QED BY <1>1, EngineInitInv, PTL DEF EngineSpec

(* Every variable of the engine keeps its type.                             *)
THEOREM EngineTypeCorrect == EngineSpec => []EngineTypeOK
<1>1. EngineInv => EngineTypeOK
  BY DEF EngineInv
<1> QED BY <1>1, EngineInvariant, PTL

(* In the running engine, too, a window is a gapless suffix of its symbol's *)
(* arrivals, neither empty nor longer than max_trades.                      *)
THEOREM EngineWindowIsSuffix == EngineSpec => []WindowIsSuffix
<1>1. EngineInv => WindowIsSuffix
  BY StoreInvImplies DEF EngineInv
<1> QED BY <1>1, EngineInvariant, PTL

(* No trade a detector reads from a window is older, against the current    *)
(* one, than horizon plus lateness.                                         *)
THEOREM EngineWindowAgeBounded == EngineSpec => []WindowAgeBounded
<1>1. EngineInv => WindowAgeBounded
  BY StoreInvImplies DEF EngineInv
<1> QED BY <1>1, EngineInvariant, PTL

(* And none that count and age allow to stay is missing from it.            *)
THEOREM EngineNothingEvictedEarly == EngineSpec => []NothingEvictedEarly
<1>1. EngineInv => NothingEvictedEarly
  BY StoreInvImplies DEF EngineInv
<1> QED BY <1>1, EngineInvariant, PTL

(* Nor is a recent one missing, for detectors whose span fits the horizon.  *)
THEOREM EngineRecentIsComplete == EngineSpec => []RecentIsComplete
<1>1. EngineInv => RecentIsComplete
  BY StoreInvRecent DEF EngineInv
<1> QED BY <1>1, EngineInvariant, PTL

(* Whatever the detectors say and in whatever order trades arrive, the      *)
(* alerts of a (symbol, detector) are at least the cooldown apart.          *)
THEOREM EngineCooldownSpacing == EngineSpec => []CooldownSpacing
<1>1. EngineInv => CooldownSpacing
  BY DEF EngineInv, CooldownSpacing, KeyInv
<1> QED BY <1>1, EngineInvariant, PTL

(* An alert is held back only because of one emitted less than the cooldown *)
(* before it, or ahead of it by no more than the lateness of the feed.      *)
THEOREM EngineSuppressionJustified == EngineSpec => []SuppressionJustified
<1>1. EngineInv => SuppressionJustified
  BY DEF EngineInv, SuppressionJustified, KeyInv
<1> QED BY <1>1, EngineInvariant, PTL

(* On a feed less late than the cooldown is long, the cooldown does what    *)
(* the configuration says of it.                                            *)
THEOREM CooldownAsDocumented ==
  ASSUME Lateness < Cooldown
  PROVE  EngineSpec => []SuppressesOnlyWithinCooldown
<1>1. EngineInv => SuppressesOnlyWithinCooldown
  <2> SUFFICES ASSUME EngineInv, NEW k \in Keys, NEW i \in 1..Len(suppressed[k])
               PROVE  \E j \in 1..Len(emitted[k]) :
                        /\ suppressed[k][i] - emitted[k][j] < Cooldown
                        /\ emitted[k][j] - suppressed[k][i] < Cooldown
    BY DEF SuppressesOnlyWithinCooldown
  <2>1. PICK j \in 1..Len(emitted[k]) :
          /\ suppressed[k][i] - emitted[k][j] < Cooldown
          /\ emitted[k][j] - suppressed[k][i] <= Lateness
    BY DEF EngineInv, KeyInv
  <2>2. suppressed[k] \in Seq(Nat) /\ emitted[k] \in Seq(Nat)
    BY DEF EngineInv, EngineTypeOK
  <2>3. suppressed[k][i] \in Nat /\ emitted[k][j] \in Nat
    BY <2>2, ElementOfSeq
  <2>4. Lateness \in Nat /\ Cooldown \in Nat /\ Lateness < Cooldown
    BY StoreAssumption, EngineAssumption
  <2> QED BY <2>1, <2>3, <2>4
<1> QED BY <1>1, EngineInvariant, PTL
-----------------------------------------------------------------------------
(* The accounts, inductively: that a counter is the sum of the counts it    *)
(* totals says nothing of the next state until it is said how sums grow.    *)
AccountInv ==
  /\ Sums(Lengths(emitted), alertsRaised)
  /\ Sums(Lengths(suppressed), alertsSuppressed)
  /\ Sums(byDetector, alertsRaised)
  /\ Sums(bySeverity, alertsRaised)
  /\ Sums(Lengths(arrived), tradesProcessed)

(* All counts start at zero.                                                *)
LEMMA AccountInitInv == EngineInit => AccountInv
<1> SUFFICES ASSUME EngineInit PROVE AccountInv
  OBVIOUS
<1>1. Len(<< >>) = 0
  BY EmptySeq
<1>2. /\ Lengths(emitted) = [k \in Keys |-> 0]
      /\ Lengths(suppressed) = [k \in Keys |-> 0]
      /\ Lengths(arrived) = [s \in Symbols |-> 0]
  BY <1>1 DEF EngineInit, StoreInit, Lengths
<1> QED BY <1>2, SumOfZeros DEF EngineInit, AccountInv

(* One trade: each alert raised is noted under one key and counted for one  *)
(* detector and for one severity.                                           *)
LEMMA ProcessKeepsAccounts ==
  ASSUME EngineInv, AccountInv, NEW t \in Trades, NEW v \in Verdicts, Process(t, v)
  PROVE  AccountInv'
<1> DEFINE R == Raised(t, v)
           H == Held(t, v)
<1>1. /\ R \in SUBSET Detectors /\ H \in SUBSET Detectors
      /\ \A d \in R : v[d] \in Severities
  BY DEF Raised, Held, Fired
<1>2. /\ tradesProcessed \in Nat /\ alertsRaised \in Nat /\ alertsSuppressed \in Nat
      /\ byDetector \in [Detectors -> Nat] /\ bySeverity \in [Severities -> Nat]
      /\ emitted \in [Keys -> Seq(Nat)] /\ suppressed \in [Keys -> Seq(Nat)]
      /\ arrived \in [Symbols -> Seq(Trades)]
  BY DEF EngineInv, EngineTypeOK, StoreTypeOK
<1>3. /\ alertsRaised' = alertsRaised + Cardinality(R)
      /\ alertsSuppressed' = alertsSuppressed + Cardinality(H)
      /\ byDetector' = CountUp(byDetector, R)
      /\ bySeverity' = [s \in Severities |->
                          bySeverity[s] + Cardinality({d \in R : v[d] = s})]
      /\ emitted' = Note(emitted, KeysOf(t, R), t.ts)
      /\ suppressed' = Note(suppressed, KeysOf(t, H), t.ts)
      /\ tradesProcessed' = tradesProcessed + 1
      /\ arrived' = [arrived EXCEPT ![t.symbol] = Append(@, t)]
  BY DEF Process, Detect, Store
<1> HIDE DEF R, H
<1>4. Sums(Lengths(emitted'), alertsRaised')
  BY <1>1, <1>2, <1>3, SumOfNote DEF AccountInv
<1>5. Sums(Lengths(suppressed'), alertsSuppressed')
  BY <1>1, <1>2, <1>3, SumOfNote DEF AccountInv
<1>6. Sums(byDetector', alertsRaised')
  BY <1>1, <1>2, <1>3, SumOfCountUp DEF AccountInv
<1>7. Sums(bySeverity', alertsRaised')
  <2> DEFINE h == [s \in Severities |-> Cardinality({d \in R : v[d] = s})]
  <2>1. IsFiniteSet(R) /\ \A T \in SUBSET R : Cardinality(T) \in Nat
    BY <1>1, EngineAssumption, FS_Subset, FS_CardinalityType
  <2>2. Sums(h, Cardinality(R))
    BY <1>1, <2>1, SumOfParts
  <2>3. h \in [Severities -> Nat]
    BY <2>1
  <2>4. bySeverity' = [s \in Severities |-> bySeverity[s] + h[s]]
    BY <1>3
  <2> HIDE DEF h
  <2>5. Sums([s \in Severities |-> bySeverity[s] + h[s]], alertsRaised + Cardinality(R))
    BY <1>2, <2>2, <2>3, SumOfSums DEF AccountInv
  <2> QED BY <1>3, <2>4, <2>5
<1>8. Sums(Lengths(arrived'), tradesProcessed')
  BY <1>2, <1>3, StoreAssumption, SumOfAppend DEF AccountInv
<1> QED BY <1>4, <1>5, <1>6, <1>7, <1>8 DEF AccountInv, Lengths

(* The counters of /stats agree with each other and with what happened, for *)
(* any detectors, severities and symbols: the alerts by detector and by     *)
(* severity add up to the alerts raised, those of the keys too, and the     *)
(* trades stored to the trades processed (engine.py, process).              *)
THEOREM EngineAccounting == EngineSpec => []Accounting
<1>1. EngineInv /\ AccountInv /\ [EngineNext]_engineVars => AccountInv'
  <2>1. ASSUME UNCHANGED engineVars, AccountInv PROVE AccountInv'
    BY <2>1 DEF engineVars, counters, storeVars, AccountInv, Lengths
  <2> QED BY <2>1, ProcessKeepsAccounts DEF EngineNext
<1>2. EngineInv /\ AccountInv => Accounting
  <2> SUFFICES ASSUME EngineInv, AccountInv PROVE Accounting
    OBVIOUS
  <2>1. /\ byDetector \in [Detectors -> Nat] /\ bySeverity \in [Severities -> Nat]
        /\ emitted \in [Keys -> Seq(Nat)] /\ suppressed \in [Keys -> Seq(Nat)]
        /\ arrived \in [Symbols -> Seq(Trades)]
    BY DEF EngineInv, EngineTypeOK, StoreTypeOK
  <2>2. IsFiniteSet(Detectors) /\ IsFiniteSet(Severities) /\ IsFiniteSet(Symbols)
    BY EngineAssumption
  <2>3. IsFiniteSet(Keys)
    BY <2>2, FS_Product DEF Keys
  <2>4. /\ DOMAIN byDetector = Detectors /\ DOMAIN bySeverity = Severities
        /\ DOMAIN Lengths(emitted) = Keys /\ DOMAIN Lengths(suppressed) = Keys
        /\ DOMAIN Lengths(arrived) = Symbols
    BY <2>1 DEF Lengths
  <2> QED BY <2>2, <2>3, <2>4, SumOfFunction DEF AccountInv, Accounting
<1> QED BY <1>1, <1>2, AccountInitInv, EngineInvariant, PTL DEF EngineSpec
=============================================================================
