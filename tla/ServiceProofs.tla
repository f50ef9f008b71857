---------------------------- MODULE ServiceProofs ----------------------------
(***************************************************************************)
(* Proofs about the service: what the rate limiter grants, for every quota, *)
(* length of window, set of clients and course of the clock that does not   *)
(* run backwards; that what holds of the engine alone survives the          *)
(* interleaving of the pipeline with POST /trades, and that the views of it *)
(* agree, for any trades, verdicts, clients and limits.                     *)
(***************************************************************************)
EXTENDS Service, DetectionEngineProofs

(* - - - the rate limiter - - - - - - - - - - - - - - - - - - - - - - - -   *)

(* Purging drops a prefix, all of it more than a minute old; what is left   *)
(* is empty or starts with a request of the last minute.                    *)
LEMMA PurgeDropsHead ==
  ASSUME NEW dq \in Seq(Nat), NEW t \in Nat
  PROVE  \E k \in 1..(Len(dq) + 1) :
           /\ Purge(dq, t) \in Seq(Nat)
           /\ Len(Purge(dq, t)) = Len(dq) + 1 - k
           /\ \A i \in 1..(Len(dq) + 1 - k) : Purge(dq, t)[i] = dq[k + i - 1]
           /\ \A i \in 1..(k - 1) : dq[i] < t - Minute
           /\ k <= Len(dq) => dq[k] >= t - Minute
<1>1. /\ Len(dq) \in Nat /\ Minute \in Nat
      /\ \A i \in 1..Len(dq) : dq[i] \in Nat
  BY LenProperties, ElementOfSeq, LimiterAssumption
<1>2. CASE Remembered(dq, t) = {}
  <2>1. Purge(dq, t) = << >> /\ << >> \in Seq(Nat) /\ Len(<< >>) = 0
    BY <1>2, EmptySeq DEF Purge
  <2>2. \A i \in 1..Len(dq) : dq[i] < t - Minute
    BY <1>1, <1>2 DEF Remembered
  <2>3. /\ Len(dq) + 1 \in 1..(Len(dq) + 1)
        /\ Len(dq) + 1 - (Len(dq) + 1) = 0
        /\ (Len(dq) + 1) - 1 = Len(dq)
        /\ ~(Len(dq) + 1 <= Len(dq))
    BY <1>1
  <2> QED BY <2>1, <2>2, <2>3
<1>3. CASE Remembered(dq, t) # {}
  <2> DEFINE k == Min(Remembered(dq, t))
  <2>1. k \in Remembered(dq, t) /\ \A y \in Remembered(dq, t) : k <= y
    <3>1. Remembered(dq, t) \in SUBSET Nat
      BY <1>1 DEF Remembered
    <3> QED BY <1>3, <3>1, MinOfNaturals
  <2>2. k \in 1..Len(dq) /\ dq[k] >= t - Minute
    BY <2>1 DEF Remembered
  <2>3. Purge(dq, t) = SubSeq(dq, k, Len(dq))
    BY <1>3 DEF Purge
  <2> HIDE DEF k
  <2>4. \A i \in 1..(k - 1) : dq[i] < t - Minute
    <3> TAKE i \in 1..(k - 1)
    <3>1. i \in 1..Len(dq) /\ i < k
      BY <1>1, <2>2
    <3>2. i \notin Remembered(dq, t)
      BY <2>1, <2>2, <3>1
    <3> QED BY <1>1, <3>1, <3>2 DEF Remembered
  <2>5. \A i \in k..Len(dq) : dq[i] \in Nat
    BY <1>1, <2>2
  <2>6. /\ Purge(dq, t) \in Seq(Nat)
        /\ Len(Purge(dq, t)) = Len(dq) - k + 1
        /\ \A i \in 1..(Len(dq) - k + 1) : Purge(dq, t)[i] = dq[k + i - 1]
    BY <1>1, <2>2, <2>3, <2>5, SubSeqProperties
  <2>7. k \in 1..(Len(dq) + 1) /\ Len(dq) - k + 1 = Len(dq) + 1 - k
    BY <1>1, <2>2
  <2> QED BY <2>2, <2>4, <2>6, <2>7
<1> QED BY <1>2, <1>3

-----------------------------------------------------------------------------
(* The inductive invariant, for one client: dq its deque, a its accepted    *)
(* requests, t the clock.  The deque is a suffix of them, and what it no    *)
(* longer holds is more than a minute old.                                  *)
ClientInv(dq, a, t) ==
  /\ Len(dq) <= Len(a)
  /\ \A i \in 1..Len(dq) : dq[i] = a[Len(a) - Len(dq) + i]
  /\ \A i \in 1..(Len(a) - Len(dq)) : a[i] < t - Minute
  /\ \A i \in 1..Len(a) : a[i] <= t
  /\ \A i \in 1..Len(a) : \A j \in i..Len(a) : a[i] <= a[j]
  /\ \A i \in 1..(Len(a) - PerMinute) : a[i + PerMinute] - a[i] > Minute

(* Purging keeps the invariant of a client.                                 *)
LEMMA PurgeKeepsClientInv ==
  ASSUME NEW dq \in Seq(Nat), NEW a \in Seq(Nat), NEW t \in Nat,
         ClientInv(dq, a, t)
  PROVE  ClientInv(Purge(dq, t), a, t)
<1> DEFINE x == Purge(dq, t)
<1>1. PICK k \in 1..(Len(dq) + 1) :
           /\ x \in Seq(Nat)
           /\ Len(x) = Len(dq) + 1 - k
           /\ \A i \in 1..(Len(dq) + 1 - k) : x[i] = dq[k + i - 1]
           /\ \A i \in 1..(k - 1) : dq[i] < t - Minute
  BY PurgeDropsHead
<1>2. Len(dq) \in Nat /\ Len(a) \in Nat /\ Len(x) \in Nat /\ Len(dq) <= Len(a)
  BY <1>1, LenProperties DEF ClientInv
<1> HIDE DEF x
<1>3. ASSUME NEW i \in 1..Len(x)
      PROVE  x[i] = a[Len(a) - Len(x) + i]
  <2>1. i \in 1..(Len(dq) + 1 - k)
    BY <1>1
  <2>2. k + i - 1 \in 1..Len(dq)
        /\ Len(a) - Len(dq) + (k + i - 1) = Len(a) - Len(x) + i
    BY <1>1, <1>2, <2>1
  <2>3. x[i] = dq[k + i - 1] /\ dq[k + i - 1] = a[Len(a) - Len(dq) + (k + i - 1)]
    BY <1>1, <2>1, <2>2 DEF ClientInv
  <2> QED BY <2>2, <2>3
<1>4. ASSUME NEW i \in 1..(Len(a) - Len(x))
      PROVE  a[i] < t - Minute
  <2>1. CASE i <= Len(a) - Len(dq)
    <3>1. i \in 1..(Len(a) - Len(dq))
      BY <1>2, <2>1
    <3> QED BY <3>1 DEF ClientInv
  <2>2. CASE i > Len(a) - Len(dq)
    <3> DEFINE j == i - (Len(a) - Len(dq))
    <3>1. j \in 1..(k - 1) /\ j \in 1..Len(dq) /\ Len(a) - Len(dq) + j = i
      BY <1>1, <1>2, <2>2
    <3>2. dq[j] = a[i]
      BY <3>1 DEF ClientInv
    <3> QED BY <1>1, <3>1, <3>2
  <2> QED BY <1>2, <2>1, <2>2
<1>5. Len(x) <= Len(a)
  BY <1>1, <1>2
<1>6. ClientInv(x, a, t)
  BY <1>3, <1>4, <1>5 DEF ClientInv
<1> QED BY <1>6 DEF x

(* A place of a range one longer is in the range or is its last.            *)
LEMMA LastOfRange ==
  ASSUME NEW l \in Nat, NEW p \in Nat, NEW i \in 1..(l + 1 - p)
  PROVE  i \in 1..(l - p) \/ i + p = l + 1
<1>1. i \in Nat /\ l - p \in Int /\ (i <= l - p \/ i + p = l + 1) /\ i >= 1
  OBVIOUS
<1> QED BY <1>1

(* Letting a request through keeps the invariant: with fewer than PerMinute *)
(* remembered, the request PerMinute before it is out of the deque.         *)
LEMMA AllowKeepsClientInv ==
  ASSUME NEW x \in Seq(Nat), NEW a \in Seq(Nat), NEW t \in Nat,
         ClientInv(x, a, t), Len(x) < PerMinute
  PROVE  ClientInv(Append(x, t), Append(a, t), t)
<1> DEFINE y == Append(x, t)
           b == Append(a, t)
<1>1. /\ Len(x) \in Nat /\ Len(a) \in Nat /\ Len(x) <= Len(a)
      /\ PerMinute \in Nat \ {0} /\ Minute \in Nat
      /\ \A i \in 1..Len(a) : a[i] \in Nat
  BY LenProperties, ElementOfSeq, LimiterAssumption DEF ClientInv
<1>2. /\ Len(y) = Len(x) + 1
      /\ \A i \in 1..Len(x) : y[i] = x[i]
      /\ y[Len(x) + 1] = t
  BY AppendProperties
<1>3. /\ Len(b) = Len(a) + 1
      /\ \A i \in 1..Len(a) : b[i] = a[i]
      /\ b[Len(a) + 1] = t
  BY AppendProperties
<1> HIDE DEF y, b
<1>4. ASSUME NEW i \in 1..Len(y)
      PROVE  y[i] = b[Len(b) - Len(y) + i]
  <2>1. CASE i \in 1..Len(x)
    <3>1. Len(b) - Len(y) + i = Len(a) - Len(x) + i
      BY <1>1, <1>2, <1>3
    <3>2. Len(a) - Len(x) + i \in 1..Len(a)
      BY <1>1, <2>1
    <3>3. x[i] = a[Len(a) - Len(x) + i]
      BY <2>1 DEF ClientInv
    <3> QED BY <1>2, <1>3, <2>1, <3>1, <3>2, <3>3
  <2>2. CASE i = Len(x) + 1
    <3>1. Len(b) - Len(y) + i = Len(a) + 1
      BY <1>1, <1>2, <1>3, <2>2
    <3> QED BY <1>2, <1>3, <2>2, <3>1
  <2>3. i \in 1..Len(x) \/ i = Len(x) + 1
    BY <1>1, <1>2
  <2> QED BY <2>1, <2>2, <2>3
<1>5. ASSUME NEW i \in 1..(Len(b) - Len(y))
      PROVE  b[i] < t - Minute
  <2>1. i \in 1..(Len(a) - Len(x)) /\ i \in 1..Len(a)
    BY <1>1, <1>2, <1>3
  <2> QED BY <1>3, <2>1 DEF ClientInv
<1>6. \A i \in 1..Len(b) : i \in 1..Len(a) \/ i = Len(a) + 1
  BY <1>1, <1>3
<1>7. \A i \in 1..Len(b) : b[i] <= t
  <2> TAKE i \in 1..Len(b)
  <2>1. CASE i \in 1..Len(a)
    BY <1>3, <2>1 DEF ClientInv
  <2>2. CASE i = Len(a) + 1
    BY <1>3, <2>2
  <2> QED BY <1>6, <2>1, <2>2
<1>8. \A i \in 1..Len(b) : \A j \in i..Len(b) : b[i] <= b[j]
  <2> TAKE i \in 1..Len(b)
  <2> TAKE j \in i..Len(b)
  <2>1. CASE j \in 1..Len(a)
    <3>1. i \in 1..Len(a) /\ j \in i..Len(a)
      BY <1>1, <2>1
    <3> QED BY <1>3, <3>1, <2>1 DEF ClientInv
  <2>2. CASE j = Len(a) + 1
    BY <1>3, <1>7, <2>2
  <2>3. j \in 1..Len(a) \/ j = Len(a) + 1
    BY <1>1, <1>3
  <2> QED BY <2>1, <2>2, <2>3
<1>9. ASSUME NEW i \in 1..(Len(b) - PerMinute)
      PROVE  b[i + PerMinute] - b[i] > Minute
  <2>1. i \in 1..Len(a) /\ a[i] \in Nat /\ b[i] = a[i]
    BY <1>1, <1>3
  <2>2. CASE i \in 1..(Len(a) - PerMinute)
    <3>1. i + PerMinute \in 1..Len(a)
      BY <1>1, <2>2
    <3> QED BY <1>3, <2>1, <2>2, <3>1 DEF ClientInv
  <2>3. CASE i + PerMinute = Len(a) + 1
    <3>1. i \in 1..(Len(a) - Len(x))
      BY <1>1, <2>3
    <3>2. a[i] < t - Minute
      BY <3>1 DEF ClientInv
    <3>3. b[i + PerMinute] = t
      BY <1>3, <2>3
    <3> QED BY <1>1, <2>1, <3>2, <3>3
  <2>4. i \in 1..(Len(a) - PerMinute) \/ i + PerMinute = Len(a) + 1
    <3>1. i \in 1..(Len(a) + 1 - PerMinute) /\ PerMinute \in Nat
      BY <1>1, <1>3
    <3> QED BY <1>1, <3>1, LastOfRange, Zenon
  <2> QED BY <2>2, <2>3, <2>4
<1>10. Len(y) <= Len(b)
  BY <1>1, <1>2, <1>3
<1>11. ClientInv(y, b, t)
  BY <1>4, <1>5, <1>7, <1>8, <1>9, <1>10 DEF ClientInv
<1> QED BY <1>11 DEF y, b

(* Time passing keeps the invariant of a client.                            *)
LEMMA TickKeepsClientInv ==
  ASSUME NEW dq \in Seq(Nat), NEW a \in Seq(Nat), NEW t \in Nat, NEW u \in Nat,
         t <= u, ClientInv(dq, a, t)
  PROVE  ClientInv(dq, a, u)
<1>1. /\ Len(dq) \in Nat /\ Len(a) \in Nat /\ Minute \in Nat
      /\ \A i \in 1..Len(a) : a[i] \in Nat
  BY LenProperties, ElementOfSeq, LimiterAssumption
<1>2. \A i \in 1..(Len(a) - Len(dq)) : a[i] < u - Minute
  <2> TAKE i \in 1..(Len(a) - Len(dq))
  <2>1. a[i] < t - Minute /\ i \in 1..Len(a)
    BY <1>1 DEF ClientInv
  <2> QED BY <1>1, <2>1
<1>3. \A i \in 1..Len(a) : a[i] <= u
  BY <1>1 DEF ClientInv
<1> QED BY <1>2, <1>3 DEF ClientInv

-----------------------------------------------------------------------------
LimiterInv ==
  LimiterTypeOK /\ \A c \in Clients : ClientInv(hits[c], accepted[c], now)

(* The limiter starts with nothing remembered.                              *)
LEMMA LimiterInitInv == LimiterInit => LimiterInv
<1>1. << >> \in Seq(Nat) /\ Len(<< >>) = 0
  BY EmptySeq
<1>2. ClientInv(<< >>, << >>, 0)
  BY <1>1, LimiterAssumption DEF ClientInv
<1> QED BY <1>1, <1>2 DEF LimiterInit, LimiterInv, LimiterTypeOK

(* Every step keeps the invariant, action by action.                        *)
LEMMA LimiterStepInv ==
  ASSUME LimiterInv, [LimiterNext]_limiterVars
  PROVE  LimiterInv'
<1> USE DEF LimiterInv
<1>1. CASE Tick
  <2>1. now' \in Nat /\ now <= now'
    BY <1>1, LimiterAssumption DEF Tick, LimiterTypeOK
  <2>2. UNCHANGED <<hits, accepted, denied>>
    BY <1>1 DEF Tick
  <2>3. \A c \in Clients : ClientInv(hits[c], accepted[c], now')
    BY <2>1, TickKeepsClientInv DEF LimiterTypeOK
  <2> QED BY <2>1, <2>2, <2>3 DEF LimiterTypeOK
<1>2. ASSUME NEW c \in Clients, Allow(c)
      PROVE  LimiterInv'
  <2> DEFINE x == Purge(hits[c], now)
  <2>1. /\ hits[c] \in Seq(Nat) /\ accepted[c] \in Seq(Nat) /\ now \in Nat
        /\ x \in Seq(Nat) /\ Len(x) < PerMinute
    BY <1>2, PurgeDropsHead DEF LimiterTypeOK, Allow
  <2>2. ClientInv(x, accepted[c], now)
    BY <2>1, PurgeKeepsClientInv
  <2>3. /\ hits' = [hits EXCEPT ![c] = Append(x, now)]
        /\ accepted' = [accepted EXCEPT ![c] = Append(accepted[c], now)]
        /\ now' = now /\ denied' = denied
    BY <1>2 DEF Allow
  <2> HIDE DEF x
  <2>4. ClientInv(Append(x, now), Append(accepted[c], now), now)
    BY <2>1, <2>2, AllowKeepsClientInv
  <2>5. Append(x, now) \in Seq(Nat) /\ Append(accepted[c], now) \in Seq(Nat)
    BY <2>1, AppendProperties
  <2>6. LimiterTypeOK'
    BY <2>3, <2>5 DEF LimiterTypeOK
  <2>7. \A d \in Clients : ClientInv(hits'[d], accepted'[d], now')
    <3> TAKE d \in Clients
    <3>1. CASE d = c
      BY <2>3, <2>4, <3>1 DEF LimiterTypeOK
    <3>2. CASE d # c
      BY <2>3, <3>2 DEF LimiterTypeOK
    <3> QED BY <3>1, <3>2
  <2> QED BY <2>6, <2>7
<1>3. ASSUME NEW c \in Clients, Deny(c)
      PROVE  LimiterInv'
  <2> DEFINE x == Purge(hits[c], now)
  <2>1. /\ hits[c] \in Seq(Nat) /\ accepted[c] \in Seq(Nat) /\ now \in Nat
        /\ x \in Seq(Nat)
    BY PurgeDropsHead DEF LimiterTypeOK
  <2>2. ClientInv(x, accepted[c], now)
    BY <2>1, PurgeKeepsClientInv
  <2>3. /\ hits' = [hits EXCEPT ![c] = x]
        /\ denied' = [denied EXCEPT ![c] = @ + 1]
        /\ now' = now /\ accepted' = accepted
    BY <1>3 DEF Deny
  <2> HIDE DEF x
  <2>4. LimiterTypeOK'
    BY <2>1, <2>3 DEF LimiterTypeOK
  <2>5. \A d \in Clients : ClientInv(hits'[d], accepted'[d], now')
    BY <2>2, <2>3 DEF LimiterTypeOK
  <2> QED BY <2>4, <2>5
<1>4. CASE UNCHANGED limiterVars
  BY <1>4 DEF limiterVars, LimiterTypeOK, ClientInv
<1> QED BY <1>1, <1>2, <1>3, <1>4 DEF LimiterNext

(* The inductive invariant holds in every reachable state.                  *)
THEOREM LimiterInvariant == LimiterSpec => []LimiterInv
BY LimiterInitInv, LimiterStepInv, PTL DEF LimiterSpec

(* The state keeps its type.                                                *)
THEOREM LimiterTypeCorrect == LimiterSpec => []LimiterTypeOK
<1>1. LimiterInv => LimiterTypeOK
  BY DEF LimiterInv
<1> QED BY <1>1, LimiterInvariant, PTL

(* However the requests of a client are spread, no minute sees more than    *)
(* PerMinute of them let through (security.py, RateLimiter.allow).          *)
THEOREM LimiterRateBound == LimiterSpec => []RateBound
<1>1. LimiterInv => RateBound
  BY DEF LimiterInv, ClientInv, RateBound
<1> QED BY <1>1, LimiterInvariant, PTL

(* A request is denied only when the client used up its quota within the    *)
(* minute before it.                                                        *)
THEOREM LimiterDeniesOnlyOverQuota == LimiterSpec => DeniedOnlyOverQuota
<1> DEFINE Justified ==
      \A c \in Clients : denied'[c] # denied[c] =>
        /\ Len(accepted[c]) >= PerMinute
        /\ accepted[c][Len(accepted[c]) - PerMinute + 1] >= now - Minute
<1>1. ASSUME LimiterInv, LimiterNext
      PROVE  Justified
  <2> SUFFICES ASSUME NEW c \in Clients, denied'[c] # denied[c]
               PROVE  /\ Len(accepted[c]) >= PerMinute
                      /\ accepted[c][Len(accepted[c]) - PerMinute + 1]
                           >= now - Minute
    OBVIOUS
  <2>1. Deny(c)
    BY <1>1 DEF LimiterNext, Tick, Allow, Deny, LimiterInv, LimiterTypeOK
  <2> DEFINE dq == hits[c]
             a == accepted[c]
             x == Purge(dq, now)
  <2>2. dq \in Seq(Nat) /\ a \in Seq(Nat) /\ now \in Nat /\ ClientInv(dq, a, now)
    BY <1>1 DEF LimiterInv, LimiterTypeOK
  <2>3. ClientInv(x, a, now) /\ x \in Seq(Nat)
    BY <2>2, PurgeKeepsClientInv, PurgeDropsHead
  <2>4. PICK k \in 1..(Len(dq) + 1) :
           /\ Len(x) = Len(dq) + 1 - k
           /\ \A i \in 1..(Len(dq) + 1 - k) : x[i] = dq[k + i - 1]
           /\ k <= Len(dq) => dq[k] >= now - Minute
    BY <2>2, PurgeDropsHead
  <2>5. Len(x) >= PerMinute
    BY <2>1 DEF Deny
  <2>6. /\ PerMinute \in Nat \ {0} /\ Minute \in Nat
        /\ Len(x) \in Nat /\ Len(dq) \in Nat /\ Len(a) \in Nat
        /\ \A i \in 1..Len(a) : a[i] \in Nat
    BY <2>2, <2>3, LenProperties, ElementOfSeq, LimiterAssumption
  <2>7. Len(x) <= Len(a) /\ 1 \in 1..Len(x) /\ x[1] = a[Len(a) - Len(x) + 1]
    BY <2>3, <2>5, <2>6 DEF ClientInv
  <2>8. x[1] >= now - Minute
    <3>1. k <= Len(dq) /\ 1 \in 1..(Len(dq) + 1 - k) /\ k + 1 - 1 = k
      BY <2>4, <2>6, <2>7
    <3>2. x[1] = dq[k]
      BY <2>4, <3>1
    <3> QED BY <2>4, <3>1, <3>2
  <2> HIDE DEF x, a, dq
  <2>9. Len(a) - Len(x) + 1 \in 1..Len(a)
    BY <2>5, <2>6, <2>7
  <2>10. Len(a) - PerMinute + 1 \in (Len(a) - Len(x) + 1)..Len(a)
    BY <2>5, <2>6, <2>7
  <2>11. a[Len(a) - Len(x) + 1] <= a[Len(a) - PerMinute + 1]
    BY <2>3, <2>9, <2>10 DEF ClientInv
  <2>12. Len(a) - PerMinute + 1 \in 1..Len(a)
    BY <2>6, <2>9, <2>10
  <2>13. a[Len(a) - PerMinute + 1] \in Nat /\ a[Len(a) - Len(x) + 1] \in Nat
    BY <2>6, <2>9, <2>12
  <2>14. a[Len(a) - PerMinute + 1] >= now - Minute
    <3>1. a[Len(a) - Len(x) + 1] >= now - Minute /\ now \in Nat /\ Minute \in Nat
      BY <2>2, <2>6, <2>7, <2>8, Zenon
    <3> QED BY <2>11, <2>13, <3>1
  <2>15. Len(a) >= PerMinute
    BY <2>5, <2>6, <2>7
  <2> QED BY <2>14, <2>15 DEF a
<1>2. ASSUME UNCHANGED limiterVars
      PROVE  [Justified]_limiterVars
  BY <1>2
<1>3. ASSUME LimiterInv, [LimiterNext]_limiterVars
      PROVE  [Justified]_limiterVars
  BY <1>1, <1>2, <1>3
<1> QED BY <1>3, LimiterInvariant, PTL DEF LimiterSpec, DeniedOnlyOverQuota
-----------------------------------------------------------------------------
(* - - - the service - - - - - - - - - - - - - - - - - - - - - - - - - -   *)

(* A step of the service is, for the engine, a step of its own or none.     *)
LEMMA ServiceStepsEngine ==
  ASSUME [ServiceNext]_serviceVars
  PROVE  [EngineNext]_engineVars
<1>1. ASSUME NEW t \in Trades, NEW v \in Verdicts, Handle(t, v)
      PROVE  EngineNext
  BY <1>1 DEF Handle, EngineNext
<1>2. CASE \E t \in Trades, v \in Verdicts : Stream(t, v)
  BY <1>1, <1>2 DEF Stream
<1>3. CASE \E c \in Clients, t \in Trades, v \in Verdicts : Post(c, t, v)
  BY <1>1, <1>3 DEF Post
<1>4. CASE \E c \in Clients, t \in Trades : PostRejected(c, t)
  BY <1>4 DEF PostRejected
<1>5. CASE ClockTicks \/ PostUnauthorized \/ \E c \in Clients : PostLimited(c)
  BY <1>5 DEF ClockTicks, PostLimited, PostUnauthorized
<1>6. CASE UNCHANGED serviceVars
  BY <1>6 DEF serviceVars
<1> QED BY <1>2, <1>3, <1>4, <1>5, <1>6 DEF ServiceNext

(* The service implements the engine: the two ways in are only a            *)
(* restriction of the arrivals the engine is specified for.                 *)
THEOREM ServiceImplementsEngine == ServiceSpec => EngineSpec
<1>1. ServiceInit => EngineInit
  BY DEF ServiceInit
<1>2. [ServiceNext]_serviceVars => [EngineNext]_engineVars
  BY ServiceStepsEngine
<1> QED BY <1>1, <1>2, PTL DEF ServiceSpec, EngineSpec

(* For the rate limiter, a step of the service is one of its own or none.   *)
LEMMA ServiceStepsLimiter ==
  ASSUME [ServiceNext]_serviceVars
  PROVE  [LimiterNext]_limiterVars
<1>1. CASE \E t \in Trades, v \in Verdicts : Stream(t, v)
  BY <1>1 DEF Stream
<1>2. CASE \E c \in Clients, t \in Trades, v \in Verdicts : Post(c, t, v)
  BY <1>2 DEF Post, LimiterNext
<1>3. CASE \E c \in Clients, t \in Trades : PostRejected(c, t)
  BY <1>3 DEF PostRejected, LimiterNext
<1>4. CASE ClockTicks \/ PostUnauthorized \/ \E c \in Clients : PostLimited(c)
  BY <1>4 DEF ClockTicks, PostLimited, PostUnauthorized, LimiterNext
<1>5. CASE UNCHANGED serviceVars
  BY <1>5 DEF serviceVars
<1> QED BY <1>1, <1>2, <1>3, <1>4, <1>5 DEF ServiceNext

(* The service implements the rate limiter: the pipeline's trades use up    *)
(* nothing of a client's quota.                                             *)
THEOREM ServiceImplementsLimiter == ServiceSpec => LimiterSpec
<1>1. ServiceInit => LimiterInit
  BY DEF ServiceInit
<1>2. [ServiceNext]_serviceVars => [LimiterNext]_limiterVars
  BY ServiceStepsLimiter
<1> QED BY <1>1, <1>2, PTL DEF ServiceSpec, LimiterSpec

(* In the running service, too, no minute sees more than PerMinute requests *)
(* of one client let through.                                               *)
THEOREM ServiceRateBound == ServiceSpec => []RateBound
BY ServiceImplementsLimiter, LimiterRateBound, PTL

(* So no two alerts of a (symbol, detector) are closer than the cooldown,   *)
(* though one came in by POST and the other from the pipeline.              *)
THEOREM ServiceCooldownSpacing == ServiceSpec => []CooldownSpacing
BY ServiceImplementsEngine, EngineCooldownSpacing, PTL

-----------------------------------------------------------------------------
(* The views, as far as the next step needs to know them.                   *)
ViewsInv ==
  /\ EngineInv
  /\ totalTrades \in Nat /\ totalAlerts \in Nat
  /\ ViewsAgree

(* All views start empty.                                                   *)
LEMMA ViewsInitInv == ServiceInit => ViewsInv
<1> SUFFICES ASSUME ServiceInit PROVE ViewsInv
  OBVIOUS
<1>1. EngineInv
  BY EngineInitInv DEF ServiceInit
<1>2. DOMAIN windows = {} /\ DOMAIN symbolTrades = {}
  BY DEF ServiceInit, EngineInit, StoreInit
<1>3. Snapshot = Stats
  BY <1>2 DEF ServiceInit, EngineInit, Snapshot, Stats
<1> QED BY <1>1, <1>2, <1>3 DEF ServiceInit, EngineInit, ViewsInv, ViewsAgree

(* Handling a trade, by either way in, keeps the views in agreement.        *)
LEMMA HandleKeepsViews ==
  ASSUME ViewsInv, NEW t \in Trades, NEW v \in Verdicts, Handle(t, v)
  PROVE  ViewsInv'
<1>0. /\ totalTrades = tradesProcessed /\ totalAlerts = alertsRaised
      /\ DOMAIN symbolTrades = DOMAIN windows
      /\ detectorAlerts = byDetector /\ severityAlerts = bySeverity
  BY DEF ViewsInv, ViewsAgree, Snapshot, Stats
<1>1. /\ OnTime(t) /\ Process(t, v)
      /\ Store(t) /\ Detect(t, v) /\ tradesProcessed' = tradesProcessed + 1
      /\ publishedTrades' = publishedTrades + 1
      /\ Record(t, Raised(t, v), v)
      /\ publishedAlerts' = publishedAlerts + Cardinality(Raised(t, v))
  BY DEF Handle, Process
<1>2. EngineInv'
  BY <1>1, ProcessKeepsInv DEF ViewsInv
<1>3. /\ alertsRaised' = alertsRaised + Cardinality(Raised(t, v))
      /\ byDetector' = CountUp(byDetector, Raised(t, v))
      /\ bySeverity' = [s \in Severities |->
                          bySeverity[s] + Cardinality({d \in Raised(t, v) : v[d] = s})]
  BY <1>1 DEF Detect
<1>4. /\ totalTrades' = totalTrades + 1
      /\ totalAlerts' = totalAlerts + Cardinality(Raised(t, v))
      /\ detectorAlerts' = CountUp(detectorAlerts, Raised(t, v))
      /\ severityAlerts' = [s \in Severities |->
            severityAlerts[s] + Cardinality({d \in Raised(t, v) : v[d] = s})]
  BY <1>1 DEF Record
<1>5. /\ totalTrades' = tradesProcessed' /\ publishedTrades' = tradesProcessed'
      /\ totalAlerts' = alertsRaised' /\ publishedAlerts' = alertsRaised'
      /\ detectorAlerts' = byDetector' /\ severityAlerts' = bySeverity'
  BY <1>0, <1>1, <1>3, <1>4 DEF ViewsInv, ViewsAgree
<1>6. totalTrades' \in Nat /\ totalAlerts' \in Nat
  BY <1>2, <1>5 DEF EngineInv, EngineTypeOK
<1>7. t.symbol \in Symbols /\ arrived \in [Symbols -> Seq(Trades)]
      /\ DOMAIN windows \subseteq Symbols
  BY StoreAssumption DEF ViewsInv, EngineInv, StoreInv, StoreTypeOK
<1>8. /\ DOMAIN windows' = DOMAIN windows \cup {t.symbol}
      /\ DOMAIN symbolTrades' = DOMAIN symbolTrades \cup {t.symbol}
  BY <1>1 DEF Store, Record, SymbolOnceMore
<1>9. ASSUME NEW s \in DOMAIN symbolTrades'
      PROVE  symbolTrades'[s] = Len(arrived'[s])
  <2>1. s \in Symbols /\ arrived[s] \in Seq(Trades) /\ Len(arrived[s]) \in Nat
    BY <1>0, <1>7, <1>8, LenProperties
  <2>2. symbolTrades'[s] = (IF s \in DOMAIN symbolTrades THEN symbolTrades[s] ELSE 0)
                             + (IF s = t.symbol THEN 1 ELSE 0)
    BY <1>1, <1>8 DEF Record, SymbolOnceMore
  <2>3. (IF s \in DOMAIN symbolTrades THEN symbolTrades[s] ELSE 0) = Len(arrived[s])
    <3>1. CASE s \in DOMAIN symbolTrades
      BY <3>1 DEF ViewsInv, ViewsAgree
    <3>2. CASE s \notin DOMAIN symbolTrades
      <4>1. arrived[s] = << >>
        BY <1>0, <2>1, <3>2 DEF ViewsInv, EngineInv, StoreInv
      <4> QED BY <3>2, <4>1, EmptySeq
    <3> QED BY <3>1, <3>2
  <2>4. arrived'[s] = IF s = t.symbol THEN Append(arrived[s], t) ELSE arrived[s]
    BY <1>1, <1>7, <2>1 DEF Store
  <2>5. CASE s = t.symbol
    <3>1. Len(arrived'[s]) = Len(arrived[s]) + 1
      BY <2>1, <2>4, <2>5, AppendProperties
    <3> QED BY <2>1, <2>2, <2>3, <2>5, <3>1
  <2>6. CASE s # t.symbol
    BY <2>1, <2>2, <2>3, <2>4, <2>6
  <2> QED BY <2>5, <2>6
<1>10. DOMAIN symbolTrades' = DOMAIN windows'
  BY <1>0, <1>8
<1>11. Snapshot' = Stats'
  BY <1>5, <1>10 DEF Snapshot, Stats
<1> QED BY <1>2, <1>5, <1>6, <1>9, <1>11 DEF ViewsInv, ViewsAgree

(* Only a trade handled changes a view.                                     *)
LEMMA ViewsStepInv ==
  ASSUME ViewsInv, [ServiceNext]_serviceVars
  PROVE  ViewsInv'
<1>1. CASE \E t \in Trades, v \in Verdicts : Stream(t, v)
  BY <1>1, HandleKeepsViews DEF Stream
<1>2. CASE \E c \in Clients, t \in Trades, v \in Verdicts : Post(c, t, v)
  BY <1>2, HandleKeepsViews DEF Post
<1>3. ASSUME UNCHANGED <<engineVars, views>>
      PROVE  ViewsInv'
  <2>1. EngineInv'
    BY <1>3, EngineStutter DEF ViewsInv
  <2> QED BY <1>3, <2>1 DEF ViewsInv, ViewsAgree, Snapshot, Stats,
                            engineVars, storeVars, counters, views
<1>4. CASE \/ ClockTicks \/ PostUnauthorized
           \/ \E c \in Clients, t \in Trades : PostRejected(c, t)
           \/ \E c \in Clients : PostLimited(c)
  BY <1>3, <1>4 DEF ClockTicks, PostRejected, PostLimited, PostUnauthorized
<1>5. CASE UNCHANGED serviceVars
  BY <1>3, <1>5 DEF serviceVars
<1> QED BY <1>1, <1>2, <1>4, <1>5 DEF ServiceNext

(* /stats, /api/metrics and the feeds never disagree, by any interleaving.  *)
THEOREM ServiceViewsAgree == ServiceSpec => []ViewsAgree
<1>1. ViewsInv => ViewsAgree
  BY DEF ViewsInv
<1>2. ViewsInv /\ [ServiceNext]_serviceVars => ViewsInv'
  BY ViewsStepInv
<1> QED BY <1>1, <1>2, ViewsInitInv, PTL DEF ServiceSpec

-----------------------------------------------------------------------------
(* The seconds still in reach of the metrics when they were last trimmed.   *)
InReach == {j \in DOMAIN tally : j >= lastTrim - TsWindow}

(* Strengthening of SeriesIsExact: the buckets kept are, as of the last     *)
(* trade, all those in reach and no others.                                 *)
SeriesInv ==
  /\ now \in Nat /\ lastTrim \in Nat /\ lastTrim <= now
  /\ DOMAIN tally \subseteq 0..lastTrim
  /\ DOMAIN buckets = InReach
  /\ \A k \in InReach : buckets[k] = tally[k]

(* Recording a trade, and the trim it may bring, keeps the buckets in       *)
(* reach.                                                                   *)
LEMMA RecordKeepsSeries ==
  ASSUME SeriesInv, NEW t, NEW raised, NEW v, Record(t, raised, v), now' = now
  PROVE  SeriesInv'
<1> DEFINE alerts == Cardinality(raised)
<1> USE ServiceAssumption DEF SeriesInv, InReach
<1>1. /\ tally' = Counted(tally, now, alerts) /\ lastTrim' = now
      /\ buckets' = IF now = lastTrim THEN Counted(buckets, now, alerts)
                    ELSE Trim(Counted(buckets, now, alerts), now)
  BY DEF Record
<1> HIDE DEF alerts
<1>2. /\ DOMAIN tally' = DOMAIN tally \cup {now}
      /\ \A k \in DOMAIN tally : k # now => tally'[k] = tally[k]
      /\ tally'[now] = [trades |-> Bucket(tally, now).trades + 1,
                        alerts |-> Bucket(tally, now).alerts + alerts]
  BY <1>1 DEF Counted
<1>3. now \in DOMAIN buckets <=> now \in DOMAIN tally
  OBVIOUS
<1>4. Bucket(buckets, now) = Bucket(tally, now)
  BY <1>3 DEF Bucket
<1>5. DOMAIN tally' \subseteq 0..lastTrim'
  BY <1>1, <1>2
<1>6. /\ DOMAIN buckets' = {j \in DOMAIN buckets \cup {now} : j >= now - TsWindow}
      /\ \A k \in DOMAIN buckets' :
           buckets'[k] = IF k # now THEN buckets[k]
                         ELSE [trades |-> Bucket(buckets, now).trades + 1,
                               alerts |-> Bucket(buckets, now).alerts + alerts]
  <2>1. CASE now = lastTrim
    BY <1>1, <2>1 DEF Counted
  <2>2. CASE now # lastTrim
    BY <1>1, <2>2 DEF Counted, Trim
  <2> QED BY <2>1, <2>2
<1>7. DOMAIN buckets' = {j \in DOMAIN tally' : j >= lastTrim' - TsWindow}
  BY <1>1, <1>2, <1>6
<1>8. ASSUME NEW k \in DOMAIN buckets' PROVE buckets'[k] = tally'[k]
  <2>1. CASE k = now
    BY <1>2, <1>4, <1>6, <1>8, <2>1
  <2>2. CASE k # now
    <3>1. k \in DOMAIN buckets /\ k \in DOMAIN tally
      BY <1>6, <1>8, <2>2
    <3> QED BY <1>2, <1>6, <1>8, <2>2, <3>1
  <2> QED BY <2>1, <2>2
<1> QED BY <1>1, <1>5, <1>7, <1>8

(* Only a trade recorded or the clock matters to the series.                *)
LEMMA SeriesStepInv ==
  ASSUME SeriesInv, LimiterTypeOK', [ServiceNext]_serviceVars
  PROVE  SeriesInv'
<1> USE DEF InReach
<1>1. ASSUME NEW t, NEW v, Handle(t, v), now' = now
      PROVE  SeriesInv'
  BY <1>1, RecordKeepsSeries DEF Handle
<1>2. CASE \E t \in Trades, v \in Verdicts : Stream(t, v)
  BY <1>1, <1>2 DEF Stream, limiterVars
<1>3. CASE \E c \in Clients, t \in Trades, v \in Verdicts : Post(c, t, v)
  BY <1>1, <1>3 DEF Post, Allow
<1>4. CASE ClockTicks
  <2>1. UNCHANGED <<buckets, lastTrim, tally>>
    BY <1>4 DEF ClockTicks, views
  <2>2. now' \in Nat /\ now' >= now
    BY <1>4, LimiterAssumption DEF ClockTicks, Tick, LimiterTypeOK, SeriesInv
  <2> QED BY <2>1, <2>2 DEF SeriesInv
<1>5. CASE \/ \E c \in Clients, t \in Trades : PostRejected(c, t)
           \/ \E c \in Clients : PostLimited(c)
           \/ PostUnauthorized \/ UNCHANGED serviceVars
  BY <1>5 DEF PostRejected, PostLimited, PostUnauthorized, Allow, Deny,
              serviceVars, limiterVars, views, SeriesInv
<1> QED BY <1>2, <1>3, <1>4, <1>5 DEF ServiceNext

(* The per-second series and the rates the dashboard shows are exact, and   *)
(* what they take to keep is bounded, however trades and silences alternate.*)
THEOREM ServiceSeriesIsExact == ServiceSpec => []SeriesIsExact
<1>1. ServiceInit => SeriesInv
  BY DEF ServiceInit, LimiterInit, SeriesInv, InReach
<1>2. SeriesInv /\ LimiterTypeOK' /\ [ServiceNext]_serviceVars => SeriesInv'
  BY SeriesStepInv
<1>3. SeriesInv => SeriesIsExact
  <2> SUFFICES ASSUME SeriesInv PROVE SeriesIsExact
    OBVIOUS
  <2> USE ServiceAssumption DEF SeriesInv, InReach
  <2>1. ASSUME NEW sec \in (now - TsWindow)..now
        PROVE  Bucket(buckets, sec) = Bucket(tally, sec)
    BY <2>1 DEF Bucket
  <2>2. DOMAIN buckets \in SUBSET ((lastTrim - TsWindow)..lastTrim)
    OBVIOUS
  <2>3. /\ IsFiniteSet((lastTrim - TsWindow)..lastTrim)
        /\ Cardinality((lastTrim - TsWindow)..lastTrim) = TsWindow + 1
    <3> DEFINE a == lastTrim - TsWindow
               b == lastTrim
    <3>1. a \in Int /\ b \in Int /\ ~(a > b) /\ b - a + 1 = TsWindow + 1
      OBVIOUS
    <3> HIDE DEF a, b
    <3>2. IsFiniteSet(a..b) /\ Cardinality(a..b) = b - a + 1
      BY ONLY <3>1, FS_Interval
    <3>3. IsFiniteSet(a..b) /\ Cardinality(a..b) = TsWindow + 1
      BY ONLY <3>1, <3>2
    <3> QED BY ONLY <3>3 DEF a, b
  <2>4. Cardinality(DOMAIN buckets) <= TsWindow + 1
    BY <2>2, <2>3, FS_Subset
  <2> QED BY <2>1, <2>4 DEF SeriesIsExact
<1> QED BY <1>1, <1>2, <1>3, ServiceImplementsLimiter, LimiterTypeCorrect, PTL DEF ServiceSpec

-----------------------------------------------------------------------------
SymbolsInv ==
  /\ known \subseteq Symbols /\ IsFiniteSet(known)
  /\ DOMAIN windows \subseteq Symbols
  /\ SymbolsBounded

(* No symbol is known at first.                                             *)
LEMMA SymbolsInitInv == ServiceInit => SymbolsInv
<1> SUFFICES ASSUME ServiceInit PROVE SymbolsInv
  OBVIOUS
<1>1. known = {} /\ DOMAIN windows = {}
  BY DEF ServiceInit, EngineInit, StoreInit
<1>2. IsFiniteSet({}) /\ Cardinality({}) = 0
  BY FS_EmptySet
<1> QED BY <1>1, <1>2, ServiceAssumption DEF SymbolsInv, SymbolsBounded

(* The symbols an admitted trade adds: to the guardrails' at most one, and  *)
(* only below the cap; to the windows its own.                              *)
LEMMA SymbolsStepInv ==
  ASSUME SymbolsInv, [ServiceNext]_serviceVars
  PROVE  SymbolsInv'
<1>1. ASSUME NEW t \in Trades, NEW v \in Verdicts, Handle(t, v)
      PROVE  /\ DOMAIN windows' = DOMAIN windows \cup {t.symbol}
             /\ t.symbol \in Symbols
  BY <1>1, StoreAssumption DEF Handle, Process, Store
<1>2. ASSUME NEW t \in Trades, NEW v \in Verdicts, Stream(t, v)
      PROVE  SymbolsInv'
  <2>1. /\ t \in SourceTrades /\ known' = known
        /\ DOMAIN windows' = DOMAIN windows \cup {t.symbol}
        /\ t.symbol \in Symbols
    BY <1>1, <1>2 DEF Stream
  <2>2. t.symbol \in {u.symbol : u \in SourceTrades}
    BY <2>1
  <2>3. DOMAIN windows' \subseteq known' \cup {u.symbol : u \in SourceTrades}
    BY <2>1, <2>2 DEF SymbolsInv, SymbolsBounded
  <2>4. known' \subseteq Symbols /\ IsFiniteSet(known') /\ Cardinality(known') <= SymbolCap
    BY <2>1 DEF SymbolsInv, SymbolsBounded
  <2>5. DOMAIN windows' \subseteq Symbols
    BY <2>1 DEF SymbolsInv
  <2> QED BY <2>3, <2>4, <2>5 DEF SymbolsInv, SymbolsBounded
<1>3. ASSUME NEW c \in Clients, NEW t \in Trades, NEW v \in Verdicts, Post(c, t, v)
      PROVE  SymbolsInv'
  <2>1. /\ known' = known \cup {t.symbol} /\ Handle(t, v)
        /\ t.symbol \in known \/ Cardinality(known) < SymbolCap
    BY <1>3 DEF Post, Passes
  <2>2. /\ IsFiniteSet(known')
        /\ Cardinality(known') =
             IF t.symbol \in known THEN Cardinality(known) ELSE Cardinality(known) + 1
    BY <2>1, FS_AddElement DEF SymbolsInv
  <2>3. Cardinality(known) \in Nat
    BY FS_CardinalityType DEF SymbolsInv
  <2>4. Cardinality(known') <= SymbolCap
    BY <2>1, <2>2, <2>3, ServiceAssumption DEF SymbolsInv, SymbolsBounded
  <2> QED BY <1>1, <2>1, <2>2, <2>4 DEF SymbolsInv, SymbolsBounded
<1>4. ASSUME UNCHANGED <<engineVars, known>>
      PROVE  SymbolsInv'
  BY <1>4 DEF SymbolsInv, SymbolsBounded, engineVars, storeVars
<1>5. CASE \/ ClockTicks \/ PostUnauthorized
           \/ \E c \in Clients, t \in Trades : PostRejected(c, t)
           \/ \E c \in Clients : PostLimited(c)
  BY <1>4, <1>5 DEF ClockTicks, PostRejected, PostLimited, PostUnauthorized
<1>6. CASE UNCHANGED serviceVars
  BY <1>4, <1>6 DEF serviceVars
<1> QED BY <1>2, <1>3, <1>5, <1>6 DEF ServiceNext

(* The guardrails admit no more symbols than their cap, and the engine      *)
(* keeps windows only for those and for the source's own.                   *)
THEOREM ServiceSymbolsBounded == ServiceSpec => []SymbolsBounded
<1>1. SymbolsInv => SymbolsBounded
  BY DEF SymbolsInv
<1>2. SymbolsInv /\ [ServiceNext]_serviceVars => SymbolsInv'
  BY SymbolsStepInv
<1> QED BY <1>1, <1>2, SymbolsInitInv, PTL DEF ServiceSpec

(* Without a source of its own the service tracks no more symbols than the  *)
(* configuration says.                                                      *)
THEOREM CapHoldsForPostsAlone ==
  ASSUME SourceTrades = {}
  PROVE  ServiceSpec => []TrackedWithinCap
<1>1. SymbolsInv => TrackedWithinCap
  <2> SUFFICES ASSUME SymbolsInv PROVE TrackedWithinCap
    OBVIOUS
  <2>1. DOMAIN windows \subseteq known
    BY DEF SymbolsInv, SymbolsBounded
  <2>2. /\ IsFiniteSet(DOMAIN windows)
        /\ Cardinality(DOMAIN windows) <= Cardinality(known)
    BY <2>1, FS_Subset DEF SymbolsInv
  <2>3. Cardinality(known) \in Nat /\ Cardinality(DOMAIN windows) \in Nat
    BY <2>2, FS_CardinalityType DEF SymbolsInv
  <2> QED BY <2>2, <2>3, ServiceAssumption
          DEF TrackedWithinCap, SymbolsInv, SymbolsBounded
<1>2. SymbolsInv /\ [ServiceNext]_serviceVars => SymbolsInv'
  BY SymbolsStepInv
<1> QED BY <1>1, <1>2, SymbolsInitInv, PTL DEF ServiceSpec

-----------------------------------------------------------------------------
Kinds == {"ingested", "rejected", "limited", "unauthorized"}

(* Strengthening of AuditComplete: the trail has a count of each kind, and  *)
(* the counts are the sums over the clients of what the limiter did.        *)
AuditInv ==
  /\ audit \in [Kinds -> Nat]
  /\ Sums(Lengths(accepted), audit["ingested"] + audit["rejected"])
  /\ Sums(denied, audit["limited"])

(* The trail starts empty, as every client's history does.                  *)
LEMMA AuditInitInv == ServiceInit => AuditInv
<1> SUFFICES ASSUME ServiceInit PROVE AuditInv
  OBVIOUS
<1>1. Len(<< >>) = 0
  BY EmptySeq
<1>2. Lengths(accepted) = [c \in Clients |-> 0] /\ denied = [c \in Clients |-> 0]
  BY <1>1 DEF ServiceInit, LimiterInit, Lengths
<1>3. audit = [k \in Kinds |-> 0]
  BY DEF ServiceInit, Kinds
<1>4. audit \in [Kinds -> Nat] /\ audit["limited"] = 0
      /\ audit["ingested"] + audit["rejected"] = 0
  BY <1>3 DEF Kinds
<1> QED BY <1>2, <1>4, SumOfZeros DEF AuditInv

(* A request let through adds one to what one client got through, and one   *)
(* record, of the ingested or of the rejected.                              *)
LEMMA AllowKeepsAudit ==
  ASSUME LimiterTypeOK, AuditInv, NEW c \in Clients, Allow(c),
         NEW k \in {"ingested", "rejected"}, audit' = [audit EXCEPT ![k] = @ + 1]
  PROVE  AuditInv'
<1>1. /\ accepted \in [Clients -> Seq(Nat)] /\ now \in Nat
      /\ accepted' = [accepted EXCEPT ![c] = Append(@, now)]
      /\ denied' = denied
  BY DEF LimiterTypeOK, Allow
<1>2. /\ audit' \in [Kinds -> Nat] /\ audit'["limited"] = audit["limited"]
      /\ audit["ingested"] \in Nat /\ audit["rejected"] \in Nat
      /\ audit'["ingested"] + audit'["rejected"] = audit["ingested"] + audit["rejected"] + 1
  <2>1. CASE k = "ingested"
    BY <2>1 DEF AuditInv, Kinds
  <2>2. CASE k = "rejected"
    BY <2>2 DEF AuditInv, Kinds
  <2> QED BY <2>1, <2>2
<1>3. Sums(Lengths(accepted'), audit["ingested"] + audit["rejected"] + 1)
  <2>1. audit["ingested"] + audit["rejected"] \in Nat
    BY <1>2
  <2> QED BY <1>1, <2>1, SumOfAppend DEF AuditInv
<1> QED BY <1>1, <1>2, <1>3 DEF AuditInv, Lengths

(* A request denied adds one to what one client was denied, and one record. *)
LEMMA DenyKeepsAudit ==
  ASSUME LimiterTypeOK, AuditInv, NEW c \in Clients, Deny(c),
         audit' = [audit EXCEPT !["limited"] = @ + 1]
  PROVE  AuditInv'
<1>1. /\ denied \in [Clients -> Nat] /\ denied' = [denied EXCEPT ![c] = @ + 1]
      /\ accepted' = accepted
  BY DEF LimiterTypeOK, Deny
<1>2. /\ audit' \in [Kinds -> Nat] /\ audit["limited"] \in Nat
      /\ audit'["limited"] = audit["limited"] + 1
      /\ audit'["ingested"] = audit["ingested"] /\ audit'["rejected"] = audit["rejected"]
  BY DEF AuditInv, Kinds
<1>3. Sums(denied', audit["limited"] + 1)
  BY <1>1, <1>2, SumOfOneUp DEF AuditInv
<1> QED BY <1>1, <1>2, <1>3 DEF AuditInv, Lengths

(* Every step keeps the trail and what the limiter did in step.             *)
LEMMA AuditStepInv ==
  ASSUME LimiterTypeOK, AuditInv, [ServiceNext]_serviceVars
  PROVE  AuditInv'
<1>1. CASE \E c \in Clients, t \in Trades, v \in Verdicts : Post(c, t, v)
  BY <1>1, AllowKeepsAudit DEF Post
<1>2. CASE \E c \in Clients, t \in Trades : PostRejected(c, t)
  BY <1>2, AllowKeepsAudit DEF PostRejected
<1>3. CASE \E c \in Clients : PostLimited(c)
  BY <1>3, DenyKeepsAudit DEF PostLimited
<1>4. ASSUME UNCHANGED <<accepted, denied, audit>>
      PROVE  AuditInv'
  BY <1>4 DEF AuditInv, Lengths
<1>5. CASE \/ ClockTicks \/ UNCHANGED serviceVars
           \/ \E t \in Trades, v \in Verdicts : Stream(t, v)
  BY <1>4, <1>5 DEF ClockTicks, Tick, Stream, serviceVars, limiterVars
<1>6. CASE PostUnauthorized
  BY <1>6 DEF PostUnauthorized, limiterVars, AuditInv, Kinds, Lengths
<1> QED BY <1>1, <1>2, <1>3, <1>5, <1>6 DEF ServiceNext

(* However requests of any number of clients and the pipeline's own trades  *)
(* interleave, no request goes unrecorded and none is recorded twice        *)
(* (api/app.py, ingest_trade and its audit calls).                          *)
THEOREM ServiceAuditComplete == ServiceSpec => []AuditComplete
<1>1. LimiterTypeOK /\ AuditInv /\ [ServiceNext]_serviceVars => AuditInv'
  BY AuditStepInv
<1>2. LimiterTypeOK /\ AuditInv => AuditComplete
  <2> SUFFICES ASSUME LimiterTypeOK, AuditInv PROVE AuditComplete
    OBVIOUS
  <2>1. DOMAIN Lengths(accepted) = Clients /\ DOMAIN denied = Clients
    BY DEF LimiterTypeOK, Lengths
  <2> QED BY <2>1, ServiceAssumption, SumOfFunction DEF AuditInv, AuditComplete
<1> QED BY <1>1, <1>2, AuditInitInv, ServiceImplementsLimiter, LimiterTypeCorrect, PTL
        DEF ServiceSpec

(* The engine's counters agree with what happened, whichever way its trades *)
(* came in.                                                                 *)
THEOREM ServiceAccounting == ServiceSpec => []Accounting
BY ServiceImplementsEngine, EngineAccounting, PTL

(* A refused request changes nothing but the trail and, refused by the      *)
(* guardrails or the limiter, the client's deque; without the key not even  *)
(* that.                                                                    *)
THEOREM ServiceRefusalsLeaveNoTrace == ServiceSpec => RefusalsLeaveNoTrace
<1> DEFINE NoTrace ==
      audit["ingested"]' = audit["ingested"] /\ audit' # audit =>
        /\ UNCHANGED <<engineVars, known, views>>
        /\ audit["unauthorized"]' # audit["unauthorized"] => UNCHANGED limiterVars
<1>1. AuditInv /\ [ServiceNext]_serviceVars => [NoTrace]_serviceVars
  <2> SUFFICES ASSUME AuditInv, [ServiceNext]_serviceVars
               PROVE  NoTrace
    OBVIOUS
  <2>1. CASE \E c \in Clients, t \in Trades, v \in Verdicts : Post(c, t, v)
    <3>1. audit' = [audit EXCEPT !["ingested"] = @ + 1]
      BY <2>1 DEF Post
    <3>2. audit'["ingested"] # audit["ingested"]
      BY <3>1 DEF AuditInv, Kinds
    <3> QED BY <3>2
  <2>2. CASE \/ ClockTicks \/ UNCHANGED serviceVars
             \/ \E t \in Trades, v \in Verdicts : Stream(t, v)
    <3>1. audit' = audit
      BY <2>2 DEF ClockTicks, Stream, serviceVars
    <3> QED BY <3>1
  <2>3. CASE \E c \in Clients, t \in Trades : PostRejected(c, t)
    <3>1. audit' = [audit EXCEPT !["rejected"] = @ + 1] /\ UNCHANGED <<engineVars, known, views>>
      BY <2>3 DEF PostRejected
    <3>2. audit'["unauthorized"] = audit["unauthorized"]
      BY <3>1 DEF AuditInv, Kinds
    <3> QED BY <3>1, <3>2
  <2>4. CASE \E c \in Clients : PostLimited(c)
    <3>1. audit' = [audit EXCEPT !["limited"] = @ + 1] /\ UNCHANGED <<engineVars, known, views>>
      BY <2>4 DEF PostLimited
    <3>2. audit'["unauthorized"] = audit["unauthorized"]
      BY <3>1 DEF AuditInv, Kinds
    <3> QED BY <3>1, <3>2
  <2>5. CASE PostUnauthorized
    BY <2>5 DEF PostUnauthorized
  <2> QED BY <2>1, <2>2, <2>3, <2>4, <2>5 DEF ServiceNext
<1>2. LimiterTypeOK /\ AuditInv /\ [ServiceNext]_serviceVars => AuditInv'
  BY AuditStepInv
<1> QED BY <1>1, <1>2, AuditInitInv, ServiceImplementsLimiter, LimiterTypeCorrect, PTL
        DEF ServiceSpec, RefusalsLeaveNoTrace, NoTrace
=============================================================================
