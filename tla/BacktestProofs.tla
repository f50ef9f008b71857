---------------------------- MODULE BacktestProofs ----------------------------
(***************************************************************************)
(* Proofs about the evaluation harness and what it composes: the tapes and  *)
(* windows of the simulator's trades, the Spark job's columns, the features *)
(* of the offline models, the isolation forest and the scoring, for every   *)
(* market, set of rules and length of replay.                               *)
(***************************************************************************)
EXTENDS Backtest, DetectionEngineProofs

(* - - - folds - - - - - - - - - - - - - - - - - - - - - - - - - - - - - - - *)

(* A set of numbers with 0 in it, and with each number the next, has all.   *)
LEMMA AllNumbers ==
  ASSUME NEW S, 0 \in S, \A n \in Nat : n \in S => n + 1 \in S
  PROVE  \A n \in Nat : n \in S
<1> DEFINE F == {n \in Nat : n \notin S}
<1> SUFFICES ASSUME F # {} PROVE FALSE
  OBVIOUS
<1>1. PICK n \in F : \A m \in F : n <= m
  BY MinOfNaturals
<1>2. n - 1 \in Nat /\ n - 1 \notin F
  BY <1>1
<1> QED BY <1>2

(* The greatest of a set of numbers that all lie below one of them.         *)
LEMMA MaxIsGreatest ==
  ASSUME NEW s \in SUBSET Int, NEW n \in s, \A y \in s : y <= n
  PROVE  Max(s) = n
<1>1. \A x \in s : (\A y \in s : x >= y) => x = n
  OBVIOUS
<1>2. n \in s /\ \A y \in s : n >= y
  OBVIOUS
<1> QED BY <1>1, <1>2 DEF Max

(* The first n numbers, as a fold takes them: the greatest of them last.    *)
LEMMA FirstOf ==
  ASSUME NEW N \in Nat, NEW n \in 1..N
  PROVE  /\ 1..n \in SUBSET (1..N) /\ 1..n # {}
         /\ Max(1..n) = n /\ (1..n) \ {Max(1..n)} = 1..(n - 1)
<1>1. 1..n \in SUBSET Int /\ n \in 1..n /\ \A y \in 1..n : y <= n
  OBVIOUS
<1>2. Max(1..n) = n
  BY <1>1, MaxIsGreatest
<1> QED BY <1>2

(* How a fold h over subsets of 1..n becomes one, g, over those of          *)
(* 1..(n + 1), last being what the last number makes of the fold before.    *)
Extends(g, h, last, n) ==
  g = [u \in SUBSET (1..(n + 1)) |->
         IF n + 1 \in u THEN last[u \ {n + 1}] ELSE h[u]]

(* What that comes to at s.                                                 *)
Extended(g, h, last, n, s) ==
  /\ g[s \ {Max(s)}] = h[s \ {Max(s)}]
  /\ IF n + 1 \in s
     THEN Max(s) = n + 1 /\ s \ {Max(s)} \in SUBSET (1..n) /\ g[s] = last[s \ {Max(s)}]
     ELSE s \in SUBSET (1..n) /\ g[s] = h[s]

(* A fold made so takes the step that last stands for, and h's elsewhere.   *)
LEMMA FoldExtends ==
  ASSUME NEW n \in Nat, NEW g, NEW h, NEW last, Extends(g, h, last, n)
  PROVE  \A s \in SUBSET (1..(n + 1)) : s # {} => Extended(g, h, last, n, s)
<1> TAKE s \in SUBSET (1..(n + 1))
<1> HAVE s # {}
<1>1. CASE n + 1 \in s
  <2>1. Max(s) = n + 1
    BY <1>1, MaxIsGreatest
  <2>2. s \ {n + 1} \in SUBSET (1..n) /\ s \ {n + 1} \in SUBSET (1..(n + 1))
    OBVIOUS
  <2> QED BY <1>1, <2>1, <2>2 DEF Extends, Extended
<1>2. CASE n + 1 \notin s
  <2> DEFINE u == s \ {Max(s)}
  <2>1. u \in SUBSET (1..(n + 1)) /\ n + 1 \notin u
    BY <1>2
  <2>2. s \in SUBSET (1..n)
    BY <1>2
  <2> HIDE DEF u
  <2>3. g[u] = h[u] /\ g[s] = h[s]
    BY <1>2, <2>1 DEF Extends
  <2> QED BY <1>2, <2>2, <2>3 DEF u, Extended
<1> QED BY <1>1, <1>2

(* Two functions of sets that agree on the empty one, and on 1..n whenever  *)
(* they do on 1..(n - 1).                                                   *)
Alike(g, h, N) ==
  /\ g[{}] = h[{}]
  /\ \A n \in 1..N : g[1..(n - 1)] = h[1..(n - 1)] => g[1..n] = h[1..n]

(* Such functions agree on all of 1..N.                                     *)
LEMMA FoldsAgree ==
  ASSUME NEW N \in Nat, NEW g, NEW h, Alike(g, h, N)
  PROVE  g[1..N] = h[1..N]
<1> DEFINE S == {n \in Nat : n <= N => g[1..n] = h[1..n]}
<1>1. 1..0 = {}
  OBVIOUS
<1>2. 0 \in S
  BY <1>1 DEF Alike
<1>3. ASSUME NEW n \in Nat, n \in S PROVE n + 1 \in S
  <2>1. CASE n + 1 <= N
    <3>1. n + 1 \in 1..N /\ (n + 1) - 1 = n /\ n <= N
      BY <2>1
    <3>2. g[1..n] = h[1..n]
      BY <1>3, <3>1
    <3> QED BY <3>1, <3>2 DEF Alike
  <2>2. CASE ~(n + 1 <= N)
    BY <2>2
  <2> QED BY <2>1, <2>2
<1> HIDE DEF S
<1>4. \A n \in Nat : n \in S
  BY <1>2, <1>3, AllNumbers
<1> QED BY <1>4 DEF S

(* A set of the first n numbers has the greatest element that Max chooses.  *)
LEMMA MaxOfNumbers ==
  ASSUME NEW n \in Nat, NEW s \in SUBSET (1..n), s # {}
  PROVE  Max(s) \in s
<1> DEFINE F == {k \in Nat : n - k \in s}
<1>1. F # {}
  <2>1. PICK x \in s : TRUE
    OBVIOUS
  <2>2. n - x \in F
    BY <2>1
  <2> QED BY <2>2
<1>2. PICK k \in F : \A m \in F : k <= m
  BY <1>1, MinOfNaturals
<1>3. \A y \in s : n - y \in F
  OBVIOUS
<1>4. n - k \in s /\ \A y \in s : y <= n - k
  BY <1>2, <1>3
<1>5. s \in SUBSET Int
  OBVIOUS
<1> QED BY <1>4, <1>5, MaxIsGreatest

(* it is a fold of q by the function step, from base: what FoldLeft comes   *)
(* to once its operator is a function.                                      *)
FoldOf(it, step, base, q, n) ==
  it = [s \in SUBSET (1..n) |->
          IF s = {} THEN base ELSE step[it[s \ {Max(s)}]][q[Max(s)]]]

Folded(step, base, q) == (CHOOSE it : FoldOf(it, step, base, q, Len(q)))[1..Len(q)]

HasFold(X, step, base, q, n) ==
  \E it \in [SUBSET (1..n) -> X] : FoldOf(it, step, base, q, n)

(* There is one, with all its values in X.                                  *)
LEMMA FoldExists ==
  ASSUME NEW X, NEW T, NEW base \in X, NEW step \in [X -> [T -> X]], NEW q \in Seq(T)
  PROVE  HasFold(X, step, base, q, Len(q))
<1> DEFINE N == Len(q)
           S == {n \in Nat : n <= N => HasFold(X, step, base, q, n)}
<1>0. N \in Nat /\ \A i \in 1..N : q[i] \in T
  OBVIOUS
<1> HIDE DEF N
<1>1. 0 \in S
  <2> DEFINE g == [s \in SUBSET (1..0) |-> base]
  <2>1. FoldOf(g, step, base, q, 0)
    BY DEF FoldOf
  <2>2. g \in [SUBSET (1..0) -> X]
    OBVIOUS
  <2> HIDE DEF g
  <2> QED BY <2>1, <2>2 DEF HasFold
<1>2. ASSUME NEW n \in Nat, n \in S PROVE n + 1 \in S
  <2> SUFFICES ASSUME n + 1 <= N PROVE HasFold(X, step, base, q, n + 1)
    OBVIOUS
  <2>8. HasFold(X, step, base, q, n)
    BY <1>0, <1>2
  <2>1. PICK h \in [SUBSET (1..n) -> X] : FoldOf(h, step, base, q, n)
    BY <2>8, Zenon DEF HasFold
  <2>0. q[n + 1] \in T
    BY <1>0
  <2> DEFINE last == [u \in SUBSET (1..n) |-> step[h[u]][q[n + 1]]]
             g == [u \in SUBSET (1..(n + 1)) |->
                     IF n + 1 \in u THEN last[u \ {n + 1}] ELSE h[u]]
  <2>2. ASSUME NEW s \in SUBSET (1..(n + 1)), s # {}
        PROVE  g[s] = step[g[s \ {Max(s)}]][q[Max(s)]]
    <3>0. Extends(g, h, last, n)
      BY DEF Extends
    <3> HIDE DEF last, g
    <3>1. Extended(g, h, last, n, s)
      BY <2>2, <3>0, FoldExtends
    <3>2. CASE n + 1 \in s
      BY <3>1, <3>2 DEF last, Extended
    <3>3. CASE n + 1 \notin s
      BY <2>1, <2>2, <3>1, <3>3 DEF FoldOf, Extended
    <3> QED BY <3>2, <3>3
  <2>3. g[{}] = base
    BY <2>1 DEF FoldOf
  <2>4. g = [s \in SUBSET (1..(n + 1)) |-> g[s]]
    OBVIOUS
  <2>6. ASSUME NEW s \in SUBSET (1..(n + 1)) PROVE g[s] \in X
    <3>1. CASE n + 1 \in s
      <4>1. s \ {n + 1} \in SUBSET (1..n)
        OBVIOUS
      <4>2. g[s] = step[h[s \ {n + 1}]][q[n + 1]]
        BY <3>1, <4>1
      <4>3. h[s \ {n + 1}] \in X
        BY <2>1, <4>1
      <4>4. step[h[s \ {n + 1}]] \in [T -> X]
        BY <4>3
      <4> QED BY <2>0, <4>2, <4>4
    <3>2. CASE n + 1 \notin s
      <4>1. s \in SUBSET (1..n)
        BY <3>2
      <4> QED BY <2>1, <3>2, <4>1
    <3> QED BY <3>1, <3>2
  <2> HIDE DEF g
  <2>5. FoldOf(g, step, base, q, n + 1)
    BY <2>2, <2>3, <2>4 DEF FoldOf
  <2>7. g \in [SUBSET (1..(n + 1)) -> X]
    BY <2>4, <2>6
  <2> QED BY <2>5, <2>7 DEF HasFold
<1> HIDE DEF S
<1>3. \A n \in Nat : n \in S
  BY <1>1, <1>2, AllNumbers
<1> QED BY <1>0, <1>3 DEF S, N

(* What a fold comes to on the first k elements, for each k.                *)
Partial(it, step, base, q, n) ==
  /\ it[{}] = base
  /\ \A k \in 1..n : it[1..k] = step[it[1..(k - 1)]][q[k]]

(* Any fold has these partial results.                                      *)
LEMMA FoldAt ==
  ASSUME NEW step, NEW base, NEW q, NEW n \in Nat, NEW it, FoldOf(it, step, base, q, n)
  PROVE  Partial(it, step, base, q, n)
<1>1. it[{}] = base
  BY DEF FoldOf
<1>2. ASSUME NEW k \in 1..n PROVE it[1..k] = step[it[1..(k - 1)]][q[k]]
  BY FirstOf DEF FoldOf
<1> QED BY <1>1, <1>2 DEF Partial

(* A fold reads its sequence from the left: one element more, one more step.*)
Unfolds(X, step, base, q, x) ==
  /\ Folded(step, base, << >>) = base
  /\ Folded(step, base, q) \in X
  /\ Folded(step, base, Append(q, x)) = step[Folded(step, base, q)][x]

(* That is so of any step function and any sequence of its elements.        *)
LEMMA FoldUnfolds ==
  ASSUME NEW X, NEW T, NEW base \in X, NEW step \in [X -> [T -> X]], NEW q \in Seq(T),
         NEW x \in T
  PROVE  Unfolds(X, step, base, q, x)
<1> DEFINE n == Len(q)  p == Append(q, x)
           g == CHOOSE it : FoldOf(it, step, base, q, n)
           h == CHOOSE it : FoldOf(it, step, base, p, n + 1)
           e == CHOOSE it : FoldOf(it, step, base, << >>, 0)
<1>1. /\ n \in Nat /\ p \in Seq(T) /\ Len(p) = n + 1 /\ Len(<< >>) = 0 /\ << >> \in Seq(T)
      /\ p[n + 1] = x /\ \A i \in 1..n : p[i] = q[i]
  OBVIOUS
<1> HIDE DEF p
<1>2. PICK it \in [SUBSET (1..n) -> X] : FoldOf(it, step, base, q, n)
  BY FoldExists, Zenon DEF HasFold
<1>3. /\ \E i : FoldOf(i, step, base, p, n + 1)
      /\ \E i : FoldOf(i, step, base, << >>, 0)
  <2>1. /\ HasFold(X, step, base, p, Len(p))
        /\ HasFold(X, step, base, << >>, Len(<< >>))
    BY <1>1, FoldExists
  <2>2. HasFold(X, step, base, p, n + 1) /\ HasFold(X, step, base, << >>, 0)
    BY <1>1, <2>1
  <2> QED BY <2>2, Zenon DEF HasFold
<1>5. /\ FoldOf(g, step, base, q, n) /\ FoldOf(h, step, base, p, n + 1)
      /\ FoldOf(e, step, base, << >>, 0)
  BY <1>2, <1>3, Zenon
<1>6. /\ Folded(step, base, q) = g[1..n] /\ Folded(step, base, p) = h[1..(n + 1)]
      /\ Folded(step, base, << >>) = e[1..0]
  BY <1>1, Zenon DEF Folded
<1> HIDE DEF g, h, e, n
<1>7. /\ Partial(g, step, base, q, n) /\ Partial(it, step, base, q, n)
      /\ Partial(h, step, base, p, n + 1) /\ Partial(e, step, base, << >>, 0)
  <2>1. 0 \in Nat /\ n + 1 \in Nat
    BY <1>1
  <2> QED BY <1>1, <1>2, <1>5, <2>1, FoldAt
<1>8. g[1..n] = h[1..n] /\ g[1..n] = it[1..n]
  <2>1. ASSUME NEW k \in 1..n
        PROVE  /\ g[1..(k - 1)] = it[1..(k - 1)] => g[1..k] = it[1..k]
               /\ g[1..(k - 1)] = h[1..(k - 1)] => g[1..k] = h[1..k]
    <3>1. k \in 1..(n + 1) /\ p[k] = q[k]
      <4>1. p[k] = q[k] /\ n \in Nat
        BY <1>1, Zenon
      <4> QED BY <4>1
    <3>2. /\ g[1..k] = step[g[1..(k - 1)]][q[k]] /\ it[1..k] = step[it[1..(k - 1)]][q[k]]
          /\ h[1..k] = step[h[1..(k - 1)]][q[k]]
      BY <1>7, <3>1 DEF Partial
    <3> QED BY <3>2, Zenon
  <2>2. g[{}] = it[{}] /\ g[{}] = h[{}]
    BY <1>7 DEF Partial
  <2>3. Alike(g, it, n) /\ Alike(g, h, n)
    BY <2>1, <2>2, Zenon DEF Alike
  <2> QED BY <1>1, <2>3, FoldsAgree
<1>9. h[1..(n + 1)] = step[h[1..n]][x]
  <2>1. n + 1 \in 1..(n + 1) /\ (n + 1) - 1 = n
    BY <1>1
  <2> QED BY <1>1, <1>7, <2>1 DEF Partial
<1>10. 1..0 = {} /\ it[1..n] \in X /\ e[{}] = base
  BY <1>1, <1>2, <1>7 DEF Partial
<1> QED BY <1>6, <1>8, <1>9, <1>10 DEF p, Unfolds

(* What takes the steps that step takes comes to the same.                  *)
Follows(g, X, step, base, q) ==
  /\ g[{}] = base
  /\ \A k \in 1..Len(q) : g[1..(k - 1)] \in X =>
                             g[1..k] = step[g[1..(k - 1)]][q[k]]

(* That is so of any function of sets of positions.                         *)
LEMMA SameSteps ==
  ASSUME NEW X, NEW T, NEW base \in X, NEW step \in [X -> [T -> X]], NEW q \in Seq(T),
         NEW g, Follows(g, X, step, base, q)
  PROVE  g[1..Len(q)] = Folded(step, base, q) /\ g[1..Len(q)] \in X
<1> DEFINE n == Len(q)  f == CHOOSE it : FoldOf(it, step, base, q, n)
<1>1. n \in Nat /\ \A k \in 1..n : q[k] \in T
  OBVIOUS
<1>2. PICK it \in [SUBSET (1..n) -> X] : FoldOf(it, step, base, q, n)
  BY FoldExists, Zenon DEF HasFold
<1>3. Folded(step, base, q) = f[1..n]
  BY DEF Folded
<1>4. FoldOf(f, step, base, q, n)
  BY <1>2, Zenon
<1> HIDE DEF f, n
<1>5. Partial(f, step, base, q, n) /\ Partial(it, step, base, q, n)
  BY <1>1, <1>2, <1>4, FoldAt
<1>6. ASSUME NEW k \in 1..n
      PROVE  /\ f[1..(k - 1)] = it[1..(k - 1)] => f[1..k] = it[1..k]
             /\ g[1..(k - 1)] = it[1..(k - 1)] => g[1..k] = it[1..k]
  <2>1. 1..(k - 1) \in SUBSET (1..n)
    BY <1>1
  <2>2. it[1..(k - 1)] \in X
    BY <1>2, <2>1
  <2>3. /\ f[1..k] = step[f[1..(k - 1)]][q[k]]
        /\ it[1..k] = step[it[1..(k - 1)]][q[k]]
    BY <1>5, Zenon DEF Partial
  <2>4. g[1..(k - 1)] \in X => g[1..k] = step[g[1..(k - 1)]][q[k]]
    BY DEF n, Follows
  <2> QED BY <2>2, <2>3, <2>4, Zenon
<1>7. f[{}] = it[{}] /\ g[{}] = it[{}]
  BY <1>5 DEF Partial, Follows
<1>8. Alike(f, it, n) /\ Alike(g, it, n)
  BY <1>6, <1>7, Zenon DEF Alike
<1>9. f[1..n] = it[1..n] /\ g[1..n] = it[1..n]
  BY <1>1, <1>8, FoldsAgree
<1>10. it[1..n] \in X
  BY <1>2
<1> QED BY <1>3, <1>9, <1>10 DEF n
-----------------------------------------------------------------------------
(* - - - windows and tapes - - - - - - - - - - - - - - - - - - - - - - - - - *)

(* The fold of a window out of a tape.                                      *)
WindowOf(tape) == FoldLeft(Add, << >>, tape)

(* The fold that WindowOf is defined by, over the first n trades of q.      *)
AddFold(it, q, n) ==
  it = [s \in SUBSET (1..n) |->
          IF s = {} THEN << >> ELSE Add(it[s \ {Max(s)}], q[Max(s)])]

(* The window of a tape is such a fold's value at the whole tape.           *)
LEMMA WindowIsFold ==
  ASSUME NEW q, NEW n, DOMAIN q = 1..n
  PROVE  WindowOf(q) = (CHOOSE it : AddFold(it, q, n))[1..n]
BY DEF WindowOf, FoldLeft, MapThenFoldSet, AddFold

(* Add as a function.                                                       *)
AddStep(T) == [w \in Seq(T) |-> [t \in T |-> Add(w, t)]]

(* It is a function of windows of trades and of trades.                     *)
LEMMA AddStepType ==
  ASSUME NEW T, Timed(T)
  PROVE  AddStep(T) \in [Seq(T) -> [T -> Seq(T)]]
<1>1. \A w \in Seq(T), t \in T : Add(w, t) \in Seq(T)
  BY AddDropsHead
<1> QED BY <1>1 DEF AddStep

(* A window is what its tape comes to by the steps of Add.                  *)
LEMMA WindowIsFolded ==
  ASSUME NEW T, Timed(T), NEW q \in Seq(T)
  PROVE  WindowOf(q) = Folded(AddStep(T), << >>, q)
<1> DEFINE n == Len(q)  g == CHOOSE it : AddFold(it, q, n)
<1>1. /\ n \in Nat /\ DOMAIN q = 1..n /\ \A k \in 1..n : q[k] \in T
      /\ << >> \in Seq(T)
  OBVIOUS
<1>2. PICK it \in [SUBSET (1..n) -> Seq(T)] : FoldOf(it, AddStep(T), << >>, q, n)
  BY <1>1, AddStepType, FoldExists, Zenon DEF HasFold
<1>3. \A w \in Seq(T), t \in T : AddStep(T)[w][t] = Add(w, t)
  BY DEF AddStep
<1>4. WindowOf(q) = g[1..n]
  BY <1>1, WindowIsFold
<1> HIDE DEF n
<1>5. AddFold(it, q, n)
  <2>1. ASSUME NEW s \in SUBSET (1..n), s # {}
        PROVE  AddStep(T)[it[s \ {Max(s)}]][q[Max(s)]] = Add(it[s \ {Max(s)}], q[Max(s)])
    <3>1. Max(s) \in 1..n
      BY <1>1, <2>1, MaxOfNumbers
    <3>2. s \ {Max(s)} \in SUBSET (1..n)
      OBVIOUS
    <3>3. q[Max(s)] \in T /\ it[s \ {Max(s)}] \in Seq(T)
      BY <1>1, <1>2, <3>1, <3>2
    <3> QED BY <1>3, <3>3
  <2> QED BY <1>2, <2>1 DEF AddFold, FoldOf
<1>6. AddFold(g, q, n)
  BY <1>5, Zenon
<1> HIDE DEF g
<1>7. g[{}] = << >>
  BY <1>6 DEF AddFold
<1>8. ASSUME NEW k \in 1..n PROVE g[1..k] = Add(g[1..(k - 1)], q[k])
  <2>1. /\ 1..k \in SUBSET (1..n) /\ 1..k # {}
        /\ Max(1..k) = k /\ (1..k) \ {Max(1..k)} = 1..(k - 1)
    BY <1>1, FirstOf, Zenon
  <2>2. g[1..k] = Add(g[(1..k) \ {Max(1..k)}], q[Max(1..k)])
    BY <1>6, <2>1 DEF AddFold
  <2> QED BY <2>1, <2>2, Zenon
<1>9. ASSUME NEW k \in 1..n, g[1..(k - 1)] \in Seq(T)
      PROVE  g[1..k] = AddStep(T)[g[1..(k - 1)]][q[k]]
  BY <1>1, <1>3, <1>8, <1>9
<1>10. g[1..n] = Folded(AddStep(T), << >>, q)
  <2> DEFINE X == Seq(T)  step == AddStep(T)  base == << >>
  <2>1. base \in X /\ step \in [X -> [T -> X]]
    BY <1>1, AddStepType
  <2>2. Follows(g, X, step, base, q)
    BY <1>7, <1>9, Zenon DEF Follows, n
  <2> HIDE DEF X, step, base
  <2>3. g[1..Len(q)] = Folded(step, base, q)
    BY <2>1, <2>2, SameSteps
  <2> QED BY <2>3 DEF step, base, n
<1> QED BY <1>4, <1>10

(* The window takes the trades of its tape in one by one.                   *)
LEMMA WindowUnfolds ==
  ASSUME NEW T, Timed(T), NEW q \in Seq(T), NEW t \in T
  PROVE  /\ WindowOf(<< >>) = << >>
         /\ WindowOf(q) \in Seq(T)
         /\ WindowOf(Append(q, t)) = Add(WindowOf(q), t)
<1> DEFINE p == Append(q, t)
<1>1. << >> \in Seq(T) /\ p \in Seq(T)
  OBVIOUS
<1> HIDE DEF p
<1>2. /\ WindowOf(<< >>) = Folded(AddStep(T), << >>, << >>)
      /\ WindowOf(q) = Folded(AddStep(T), << >>, q)
      /\ WindowOf(p) = Folded(AddStep(T), << >>, p)
  BY <1>1, WindowIsFolded
<1>3. /\ Folded(AddStep(T), << >>, << >>) = << >>
      /\ Folded(AddStep(T), << >>, q) \in Seq(T)
      /\ Folded(AddStep(T), << >>, Append(q, t)) = AddStep(T)[Folded(AddStep(T), << >>, q)][t]
  <2> DEFINE X == Seq(T)  step == AddStep(T)  base == << >>
  <2>1. base \in X /\ step \in [X -> [T -> X]]
    BY <1>1, AddStepType
  <2> HIDE DEF X, step, base
  <2>2. Unfolds(X, step, base, q, t)
    BY <2>1, FoldUnfolds
  <2> QED BY <2>2 DEF Unfolds, X, step, base
<1>4. \A w \in Seq(T) : AddStep(T)[w][t] = Add(w, t)
  BY DEF AddStep
<1> QED BY <1>2, <1>3, <1>4 DEF p

(* Nothing in, nothing held.                                                *)
LEMMA EmptyWindow == WindowOf(<< >>) = << >>
<1>1. << >> \in Seq({[ts |-> 0]}) /\ [ts |-> 0] \in {[ts |-> 0]} /\ Timed({[ts |-> 0]})
  BY DEF Timed
<1> QED BY <1>1, WindowUnfolds

(* w is what is left of the first i trades of a tape.                       *)
Suffix(w, tape, i) ==
  /\ Len(w) \in 0..i /\ (i > 0 => Len(w) > 0)
  /\ \A j \in 1..Len(w) : w[j] = tape[i - Len(w) + j]

(* The trades of a tape come in the order of their times.                   *)
Ordered(tape) == \A i \in 1..Len(tape) : \A j \in 1..i : tape[j].ts <= tape[i].ts

(* One trade more takes a suffix to a suffix.                               *)
LEMMA AddKeepsSuffix ==
  ASSUME NEW T, Timed(T), NEW tape \in Seq(T), NEW i \in Nat, i + 1 \in 1..Len(tape),
         NEW w \in Seq(T), Suffix(w, tape, i)
  PROVE  Suffix(Add(w, tape[i + 1]), tape, i + 1)
<1> DEFINE t == tape[i + 1]  x == Add(w, t)  v == Append(w, t)
<1>1. t \in T
  OBVIOUS
<1>2. PICK k \in 1..(Len(w) + 1) :
        /\ x \in Seq(T) /\ Len(x) = Len(w) + 2 - k
        /\ Len(x) <= MaxTrades
        /\ \A j \in 1..(Len(w) + 2 - k) : x[j] = v[k + j - 1]
        /\ v[k].ts >= t.ts - Horizon
        /\ \A j \in 1..(k - 1) :
             j <= Len(w) + 1 - MaxTrades \/ v[j].ts < t.ts - Horizon
  BY <1>1, AddDropsHead, Zenon
<1>3. /\ Len(w) \in Nat /\ v[Len(w) + 1] = t
      /\ \A j \in 1..Len(w) : v[j] = w[j]
  OBVIOUS
<1>4. \A j \in 1..(Len(w) + 1) : v[j] = tape[i - Len(w) + j]
  <2> TAKE j \in 1..(Len(w) + 1)
  <2>1. CASE j = Len(w) + 1
    <3>1. i - Len(w) + j = i + 1
      BY <1>3, <2>1
    <3> QED BY <1>3, <2>1, <3>1
  <2>2. CASE j # Len(w) + 1
    <3>1. j \in 1..Len(w)
      BY <1>3, <2>2
    <3>2. w[j] = tape[i - Len(w) + j]
      BY <3>1 DEF Suffix
    <3> QED BY <1>3, <3>1, <3>2
  <2> QED BY <2>1, <2>2
<1> HIDE DEF x, v, t
<1>5. ASSUME NEW j \in 1..Len(x) PROVE x[j] = tape[(i + 1) - Len(x) + j]
  <2>1. k + j - 1 \in 1..(Len(w) + 1) /\ i - Len(w) + (k + j - 1) = (i + 1) - Len(x) + j
    BY <1>2, <1>3 DEF Suffix
  <2> QED BY <1>2, <1>4, <2>1
<1>6. Len(x) \in 0..(i + 1) /\ Len(x) > 0
  BY <1>2, <1>3 DEF Suffix
<1> QED BY <1>5, <1>6 DEF Suffix, x, t

(* The window of a tape, after each of its trades, is a suffix of it.       *)
LEMMA WindowOfPrefix ==
  ASSUME NEW T, Timed(T), NEW tape \in Seq(T), NEW i \in 0..Len(tape)
  PROVE  /\ WindowOf(SubSeq(tape, 1, i)) \in Seq(T)
         /\ Suffix(WindowOf(SubSeq(tape, 1, i)), tape, i)
<1> DEFINE w(n) == WindowOf(SubSeq(tape, 1, n))
           S == {n \in Nat : n <= Len(tape) => w(n) \in Seq(T) /\ Suffix(w(n), tape, n)}
<1>1. 0 \in S
  <2>1. SubSeq(tape, 1, 0) = << >> /\ Len(<< >>) = 0
    OBVIOUS
  <2>2. << >> \in Seq(T)
    OBVIOUS
  <2>3. w(0) = << >>
    BY <2>1, EmptyWindow
  <2>4. w(0) \in Seq(T) /\ Suffix(w(0), tape, 0)
    <3>1. Suffix(<< >>, tape, 0)
      BY <2>1 DEF Suffix
    <3> HIDE DEF w
    <3> QED BY <2>2, <2>3, <3>1, Zenon
  <2> HIDE DEF w
  <2> QED BY <2>4
<1>2. ASSUME NEW n \in Nat, n \in S PROVE n + 1 \in S
  <2> SUFFICES ASSUME n + 1 <= Len(tape)
               PROVE  w(n + 1) \in Seq(T) /\ Suffix(w(n + 1), tape, n + 1)
    OBVIOUS
  <2> DEFINE q == SubSeq(tape, 1, n)
  <2>1. q \in Seq(T) /\ tape[n + 1] \in T /\ n + 1 \in 1..Len(tape)
    OBVIOUS
  <2>2. SubSeq(tape, 1, n + 1) = Append(q, tape[n + 1])
    OBVIOUS
  <2>3. w(n) \in Seq(T) /\ Suffix(w(n), tape, n)
    BY <1>2
  <2> HIDE DEF q
  <2>4. w(n + 1) = Add(w(n), tape[n + 1])
    <3>1. WindowOf(Append(q, tape[n + 1])) = Add(WindowOf(q), tape[n + 1])
      BY <2>1, WindowUnfolds
    <3> QED BY <2>2, <3>1 DEF q
  <2>5. Add(w(n), tape[n + 1]) \in Seq(T)
    BY <2>1, <2>3, AddDropsHead
  <2> HIDE DEF w
  <2> QED BY <2>1, <2>3, <2>4, <2>5, AddKeepsSuffix
<1> HIDE DEF S
<1>3. \A n \in Nat : n \in S
  BY <1>1, <1>2, AllNumbers
<1>4. i \in Nat /\ i <= Len(tape)
  OBVIOUS
<1> QED BY <1>3, <1>4 DEF S

-----------------------------------------------------------------------------
(* - - - the simulator - - - - - - - - - - - - - - - - - - - - - - - - - - - *)

(* Prices and quantities are positive, a side is one drawn or one of a leg. *)
Whole == Nat \ {0}
AnySide == Sides \cup {"buy", "sell"}

(* What a plan may override, as any function from some of these fields.     *)
Overrides ==
  {over \in UNION {[D -> Whole \cup AnySide \cup Accounts] :
                     D \in SUBSET {"side", "price", "quantity", "account", "counterparty"}} :
     /\ "side" \in DOMAIN over => over["side"] \in AnySide
     /\ "price" \in DOMAIN over => over["price"] \in Whole
     /\ "quantity" \in DOMAIN over => over["quantity"] \in Whole
     /\ "account" \in DOMAIN over => over["account"] \in Accounts
     /\ "counterparty" \in DOMAIN over => over["counterparty"] \in Accounts}

(* A planned trade and a batch of them.                                     *)
Planned == [gaps : SUBSET Nat, over : Overrides]
Batch == [symbol : Market, label : Labels, plans : Seq(Planned)]

(* A trade of the simulator.                                                *)
Simulated == [trade_id : Nat, symbol : Market, ts : Nat, price : Whole,
              quantity : Whole, side : AnySide,
              account : Accounts, counterparty : Accounts]

(* The types of the simulator's state.                                      *)
SimTypeOK ==
  /\ price \in [Market -> Whole]
  /\ elapsed \in Nat
  /\ batch \in Batch
  /\ drawn \in Nat

(* A plan may override nothing.                                             *)
LEMMA FreeIsOverride == Free \in Overrides
BY DEF Free, Overrides

(* What the plans of the simulator's anomalies override.                    *)
LEMMA OverridesType ==
  /\ \A p \in Whole : [price |-> p] \in Overrides
  /\ \A q \in Whole : [quantity |-> q] \in Overrides
  /\ \A x \in AnySide : [side |-> x] \in Overrides
  /\ \A x \in AnySide, p \in Whole, q \in Whole, a \in Accounts :
       [side |-> x, price |-> p, quantity |-> q, account |-> a, counterparty |-> a]
         \in Overrides
<1> DEFINE V == Whole \cup AnySide \cup Accounts
           F == {"side", "price", "quantity", "account", "counterparty"}
<1>1. ASSUME NEW p \in Whole PROVE [price |-> p] \in Overrides
  <2>1. [price |-> p] \in [{"price"} -> V] /\ {"price"} \in SUBSET F
    OBVIOUS
  <2> QED BY <2>1 DEF Overrides
<1>2. ASSUME NEW q \in Whole PROVE [quantity |-> q] \in Overrides
  <2>1. [quantity |-> q] \in [{"quantity"} -> V] /\ {"quantity"} \in SUBSET F
    OBVIOUS
  <2> QED BY <2>1 DEF Overrides
<1>3. ASSUME NEW x \in AnySide PROVE [side |-> x] \in Overrides
  <2>1. [side |-> x] \in [{"side"} -> V] /\ {"side"} \in SUBSET F
    OBVIOUS
  <2> QED BY <2>1 DEF Overrides
<1>4. ASSUME NEW x \in AnySide, NEW p \in Whole, NEW q \in Whole, NEW a \in Accounts
      PROVE  [side |-> x, price |-> p, quantity |-> q, account |-> a, counterparty |-> a]
               \in Overrides
  <2>1. [side |-> x, price |-> p, quantity |-> q, account |-> a, counterparty |-> a]
          \in [F -> V]
    OBVIOUS
  <2> QED BY <2>1 DEF Overrides
<1> QED BY <1>1, <1>2, <1>3, <1>4

(* Every plan of _next_batch() is of planned trades, at least one.          *)
LEMMA PlansType ==
  ASSUME SimTypeOK, NEW s \in Market, NEW l \in Labels, NEW p \in Plans(s, l)
  PROVE  p \in Seq(Planned) /\ p # << >>
<1> USE SimulatorAssumption
<1>0. price[s] \in Whole
  BY DEF SimTypeOK
<1>1. \A over \in Overrides : Ordinary(over) \in Planned /\ Quick(over) \in Planned
  BY DEF Ordinary, Quick, Planned
<1>2. \A x \in Planned : <<x>> \in Seq(Planned) /\ <<x>> # << >>
  OBVIOUS
<1>3. ASSUME NEW n \in Nat \ {0}, NEW x \in Planned
      PROVE  [i \in 1..n |-> x] \in Seq(Planned) /\ [i \in 1..n |-> x] # << >>
  <2>1. [i \in 1..n |-> x] \in Seq(Planned) /\ Len([i \in 1..n |-> x]) = n
    OBVIOUS
  <2> QED BY <2>1
<1>4. CASE l = Normal
  <2>1. p = <<Ordinary(Free)>>
    BY <1>4 DEF Plans, Normal
  <2> QED BY <1>1, <1>2, <2>1, FreeIsOverride
<1>5. CASE l = "price_spike"
  <2>1. PICK k \in Spikes : p = <<Ordinary([price |-> Spiked(s, k)])>>
    BY <1>5 DEF Plans, Normal
  <2>2. Spiked(s, k) \in Whole
    BY <1>0 DEF Spiked, Whole
  <2> QED BY <1>1, <1>2, <2>1, <2>2, OverridesType
<1>6. CASE l = "volume_spike"
  <2>1. PICK b \in Blocks : p = <<Ordinary([quantity |-> b])>>
    BY <1>6 DEF Plans, Normal
  <2>2. b \in Whole
    BY DEF Whole
  <2> QED BY <1>1, <1>2, <2>1, <2>2, OverridesType
<1>7. CASE l = "velocity_burst"
  <2>1. PICK n \in Bursts : p = [i \in 1..n |-> Quick(Free)]
    BY <1>7 DEF Plans, Normal
  <2> QED BY <1>1, <1>3, <2>1, FreeIsOverride
<1>8. CASE l = "spoofing"
  <2> DEFINE burst(n, x) == [i \in 1..n |-> Quick([side |-> x])]
  <2>3. Plans(s, l) = {burst(n, x) : n \in Layers, x \in Sides}
    BY <1>8 DEF Plans, Normal
  <2> HIDE DEF burst
  <2>1. PICK n \in Layers, x \in Sides : p = burst(n, x)
    BY <2>3
  <2>2. Quick([side |-> x]) \in Planned
    BY <1>1, OverridesType DEF AnySide
  <2> QED BY <1>3, <2>1, <2>2 DEF burst
<1>9. CASE l = "wash_trade"
  <2>1. PICK a \in Accounts, q \in Sizes : p = SelfCross(s, a, q)
    BY <1>9 DEF Plans, Normal
  <2> DEFINE leg(x) == [side |-> x, price |-> price[s], quantity |-> q,
                        account |-> a, counterparty |-> a]
  <2>2. leg("buy") \in Overrides /\ leg("sell") \in Overrides
    <3>1. q \in Whole /\ "buy" \in AnySide /\ "sell" \in AnySide
      BY DEF Whole, AnySide
    <3> QED BY <1>0, <3>1, OverridesType
  <2>3. p = <<Ordinary(leg("buy")), Quick(leg("sell"))>>
    BY <2>1 DEF SelfCross
  <2> HIDE DEF leg
  <2>4. Ordinary(leg("buy")) \in Planned /\ Quick(leg("sell")) \in Planned
    BY <1>1, <2>2
  <2> QED BY <2>3, <2>4
<1> QED BY <1>4, <1>5, <1>6, <1>7, <1>8, <1>9 DEF Labels

(* A batch a trade comes from has trades left.                              *)
LEMMA CurrentType ==
  ASSUME SimTypeOK, NEW b \in Current
  PROVE  b \in Batch /\ b.plans # << >>
<1>1. CASE batch.plans = << >>
  <2>1. b \in Batches
    BY <1>1 DEF Current
  <2>2. PICK s \in Market : \E l \in Labels : \E p \in Plans(s, l) :
          b = [symbol |-> s, label |-> l, plans |-> p]
    BY <2>1 DEF Batches
  <2>3. PICK l \in Labels : \E p \in Plans(s, l) :
          b = [symbol |-> s, label |-> l, plans |-> p]
    BY <2>2
  <2>4. PICK p \in Plans(s, l) : b = [symbol |-> s, label |-> l, plans |-> p]
    BY <2>3
  <2> QED BY <2>4, PlansType DEF Batch
<1>2. CASE batch.plans # << >>
  BY <1>2 DEF Current, SimTypeOK
<1> QED BY <1>1, <1>2

(* The plan has both sides be one account.                                  *)
Crossing(over) ==
  /\ "account" \in DOMAIN over /\ "counterparty" \in DOMAIN over
  /\ over["account"] = over["counterparty"]

(* What is as planned in a trade.                                           *)
AsPlanned(t, plan) ==
  /\ \E gap \in plan.gaps : t.ts = elapsed + gap
  /\ "price" \in DOMAIN plan.over => t.price = plan.over["price"]
  /\ Crossing(plan.over) => t.account = t.counterparty

(* A trade drawn is one of the simulator, no earlier than the last, and as  *)
(* the first plan of the batch has it.                                      *)
LEMMA DrawnType ==
  ASSUME SimTypeOK, NEW b \in Current, NEW t \in Drawn(b)
  PROVE  /\ b \in Batch /\ b.plans # << >>
         /\ t \in Simulated /\ t.symbol = b.symbol /\ t.ts >= elapsed
         /\ AsPlanned(t, Head(b.plans))
<1> USE SimulatorAssumption
<1> DEFINE s == b.symbol  plan == Head(b.plans)
           walk == IF "price" \in DOMAIN plan.over THEN {price[s]} ELSE Walk(s)
<1>1. b \in Batch /\ b.plans # << >> /\ s \in Market
  BY CurrentType DEF Batch
<1>2. plan \in Planned
  BY <1>1 DEF Batch
<1>3. plan.gaps \in SUBSET Nat /\ plan.over \in Overrides
  BY <1>2 DEF Planned
<1>4. price[s] \in Whole /\ elapsed \in Nat /\ drawn \in Nat
  BY <1>1 DEF SimTypeOK
<1>5. walk \in SUBSET Whole
  BY <1>4 DEF Walk, Whole
<1>6. PICK gap \in plan.gaps : \E p \in walk, q \in Sizes, x \in Sides,
             pair \in {u \in Accounts \X Accounts : u[1] # u[2]} :
        t = Overridden([trade_id |-> drawn + 1, symbol |-> s, ts |-> elapsed + gap,
                        price |-> p, quantity |-> q, side |-> x,
                        account |-> pair[1], counterparty |-> pair[2]], plan.over)
  BY DEF Drawn
<1>7. PICK p \in walk, q \in Sizes, x \in Sides,
           pair \in {u \in Accounts \X Accounts : u[1] # u[2]} :
        t = Overridden([trade_id |-> drawn + 1, symbol |-> s, ts |-> elapsed + gap,
                        price |-> p, quantity |-> q, side |-> x,
                        account |-> pair[1], counterparty |-> pair[2]], plan.over)
  BY <1>6
<1> DEFINE over == plan.over  a == pair[1]  c == pair[2]
           trade == [trade_id |-> drawn + 1, symbol |-> s, ts |-> elapsed + gap,
                     price |-> p, quantity |-> q, side |-> x,
                     account |-> a, counterparty |-> c]
<1>8. /\ p \in Whole /\ q \in Whole /\ x \in AnySide /\ gap \in Nat
      /\ a \in Accounts /\ c \in Accounts
  BY <1>3, <1>5 DEF AnySide, Whole
<1>9. /\ DOMAIN over \subseteq {"side", "price", "quantity", "account", "counterparty"}
      /\ "side" \in DOMAIN over => over["side"] \in AnySide
      /\ "price" \in DOMAIN over => over["price"] \in Whole
      /\ "quantity" \in DOMAIN over => over["quantity"] \in Whole
      /\ "account" \in DOMAIN over => over["account"] \in Accounts
      /\ "counterparty" \in DOMAIN over => over["counterparty"] \in Accounts
  BY <1>3 DEF Overrides
<1> DEFINE pick(k, v) == IF k \in DOMAIN over THEN over[k] ELSE v
<1>10. t = [trade_id |-> drawn + 1, symbol |-> s, ts |-> elapsed + gap,
            price |-> pick("price", p), quantity |-> pick("quantity", q),
            side |-> pick("side", x), account |-> pick("account", a),
            counterparty |-> pick("counterparty", c)]
  <2> HIDE DEF over, s, a, c, plan
  <2>1. t = Overridden(trade, over)
    BY <1>7 DEF over, a, c
  <2> QED BY <1>9, <2>1 DEF Overridden
<1>11. /\ pick("price", p) \in Whole /\ pick("quantity", q) \in Whole
       /\ pick("side", x) \in AnySide /\ pick("account", a) \in Accounts
       /\ pick("counterparty", c) \in Accounts
  BY <1>8, <1>9
<1>12. /\ t.price = pick("price", p) /\ t.account = pick("account", a)
       /\ t.counterparty = pick("counterparty", c) /\ t.ts = elapsed + gap
  <2> HIDE DEF pick
  <2> QED BY <1>10
<1>13. AsPlanned(t, plan)
  <2>1. "price" \in DOMAIN over => t.price = over["price"]
    BY <1>12
  <2>2. Crossing(over) => t.account = t.counterparty
    BY <1>12 DEF Crossing
  <2> HIDE DEF pick, s, plan
  <2> QED BY <1>6, <1>12, <2>1, <2>2 DEF AsPlanned
<1> HIDE DEF pick, s, plan, walk, over
<1>14. t \in Simulated /\ t.symbol = s /\ t.ts = elapsed + gap
  BY <1>1, <1>4, <1>8, <1>10, <1>11 DEF Simulated
<1> QED BY <1>1, <1>4, <1>8, <1>13, <1>14 DEF s, plan

(* The simulator starts in such a state (__init__).                         *)
LEMMA SimInitType == SimInit => SimTypeOK
<1> SUFFICES ASSUME SimInit PROVE SimTypeOK
  OBVIOUS
<1>1. PICK s \in Market : batch = [symbol |-> s, label |-> Normal, plans |-> << >>]
  BY DEF SimInit
<1>2. batch \in Batch
  BY <1>1 DEF Batch, Labels
<1> QED BY <1>2, SimulatorAssumption DEF SimInit, SimTypeOK, Whole

(* A trade yielded leaves it in one, in a batch of the same label.          *)
LEMMA YieldsType ==
  ASSUME SimTypeOK, NEW b \in Current, NEW t \in Drawn(b), Yields(b, t)
  PROVE  SimTypeOK' /\ batch'.label = b.label
<1>1. b \in Batch /\ b.plans # << >> /\ t \in Simulated
  BY DrawnType
<1>2. Tail(b.plans) \in Seq(Planned)
  BY <1>1 DEF Batch
<1>3. batch' = [symbol |-> b.symbol, label |-> b.label, plans |-> Tail(b.plans)]
  BY <1>1 DEF Yields, Batch
<1>4. batch' \in Batch
  BY <1>1, <1>2, <1>3 DEF Batch
<1>5. t.price \in Whole /\ t.ts \in Nat /\ b.symbol \in Market
  BY <1>1 DEF Simulated, Batch
<1> QED BY <1>3, <1>4, <1>5 DEF Yields, SimTypeOK

(* The simulator's trades have times.                                       *)
LEMMA SimulatedAreTimed == Timed(Simulated)
BY DEF Timed, Simulated
-----------------------------------------------------------------------------
(* - - - the tapes of the replay - - - - - - - - - - - - - - - - - - - - - - *)

(* Beyond what is to be shown of them, the tapes of the replay hold trades  *)
(* of the simulator in the order of their times, up to the time it has come *)
(* to, and the windows what Add makes of the tapes.                         *)
Tape(s) ==
  /\ arrived[s] \in Seq(Simulated) /\ Ordered(arrived[s])
  /\ \A i \in 1..Len(arrived[s]) : arrived[s][i].ts <= elapsed
  /\ Window(s) = WindowOf(arrived[s])
  /\ s \in DOMAIN windows <=> arrived[s] # << >>

TapesInv ==
  /\ SimTypeOK
  /\ DOMAIN windows \subseteq Symbols
  /\ DOMAIN arrived = Symbols
  /\ \A s \in Symbols : Tape(s)

(* Nothing has arrived at first.                                            *)
LEMMA TapesInit == BacktestInit => TapesInv
<1> SUFFICES ASSUME BacktestInit PROVE TapesInv
  OBVIOUS
<1>1. SimTypeOK
  BY SimInitType DEF BacktestInit
<1>2. windows = << >> /\ arrived = [s \in Symbols |-> << >>]
  BY DEF BacktestInit, EngineInit, StoreInit
<1>3. DOMAIN windows = {} /\ DOMAIN arrived = Symbols
  BY <1>2
<1>4. ASSUME NEW s \in Symbols PROVE Tape(s)
  BY <1>2, <1>3, EmptyWindow DEF Tape, Ordered, Window
<1> QED BY <1>1, <1>3, <1>4 DEF TapesInv

(* What a step of the replay is, of the trades and of the windows.          *)
LEMMA ReplayStores ==
  ASSUME SimTypeOK, Replay
  PROVE  \E b \in Current : \E t \in Drawn(b) :
           /\ SimTypeOK' /\ elapsed' = t.ts /\ Store(t)
           /\ t \in Simulated /\ t.symbol \in Symbols /\ t.ts >= elapsed
<1>1. PICK b \in Current : \E t \in Drawn(b) : Yields(b, t) /\ Store(t)
  BY DEF Replay, Process
<1>2. PICK t \in Drawn(b) : Yields(b, t) /\ Store(t)
  BY <1>1
<1>3. /\ b \in Batch /\ t \in Simulated /\ t.symbol = b.symbol /\ t.ts >= elapsed
  BY DrawnType
<1>4. t.symbol \in Symbols
  BY <1>3, BacktestAssumption DEF Batch
<1>5. SimTypeOK' /\ elapsed' = t.ts
  BY <1>2, YieldsType DEF Yields
<1> QED BY <1>2, <1>3, <1>4, <1>5

(* Every trade of the replay goes to the end of its tape and its window.    *)
LEMMA TapesStep == TapesInv /\ Replay => TapesInv'
<1> SUFFICES ASSUME TapesInv, Replay PROVE TapesInv'
  OBVIOUS
<1>1. PICK b \in Current : \E t \in Drawn(b) :
        /\ SimTypeOK' /\ elapsed' = t.ts /\ Store(t)
        /\ t \in Simulated /\ t.symbol \in Symbols /\ t.ts >= elapsed
  BY ReplayStores, Zenon DEF TapesInv
<1>2. PICK t \in Drawn(b) :
        /\ SimTypeOK' /\ elapsed' = t.ts /\ Store(t)
        /\ t \in Simulated /\ t.symbol \in Symbols /\ t.ts >= elapsed
  BY <1>1
<1> DEFINE z == t.symbol  tape == arrived[z]
<1>3. /\ DOMAIN windows' = DOMAIN windows \cup {z}
      /\ windows'[z] = Add(Window(z), t)
      /\ \A s \in DOMAIN windows : s # z => windows'[s] = windows[s]
  BY <1>2 DEF Store
<1>4. /\ DOMAIN arrived' = Symbols /\ arrived'[z] = Append(tape, t)
      /\ \A s \in Symbols : s # z => arrived'[s] = arrived[s]
  BY <1>2 DEF Store, TapesInv
<1>5. t.ts \in Nat /\ elapsed \in Nat
  BY <1>2 DEF Simulated, TapesInv, SimTypeOK
<1>6. ASSUME NEW s \in Symbols, s # z PROVE Tape(s)'
  <2>1. Tape(s)
    BY DEF TapesInv
  <2>2. /\ arrived'[s] = arrived[s] /\ Window(s)' = Window(s)
        /\ s \in DOMAIN windows' <=> s \in DOMAIN windows
    BY <1>3, <1>4, <1>6 DEF Window
  <2>3. \A i \in 1..Len(arrived[s]) : arrived[s][i].ts \in Nat
    <3>1. \A i \in 1..Len(arrived[s]) : arrived[s][i] \in Simulated
      BY <2>1 DEF Tape
    <3> QED BY <3>1, SimulatedAreTimed DEF Timed
  <2>4. \A i \in 1..Len(arrived[s]) : arrived[s][i].ts <= elapsed'
    BY <1>2, <1>5, <2>1, <2>3 DEF Tape
  <2> QED BY <2>1, <2>2, <2>4 DEF Tape
<1>7. Tape(z)'
  <2>1. Tape(z) /\ z \in Symbols
    BY <1>2 DEF TapesInv
  <2>2. tape \in Seq(Simulated) /\ t \in Simulated
    BY <1>2, <2>1 DEF Tape
  <2> DEFINE q == Append(tape, t)
  <2>3. /\ q \in Seq(Simulated) /\ q # << >> /\ Len(q) = Len(tape) + 1
        /\ Len(tape) \in Nat /\ q[Len(tape) + 1] = t
        /\ \A i \in 1..Len(tape) : q[i] = tape[i] /\ tape[i].ts \in Nat
    <3>1. \A i \in 1..Len(tape) : tape[i] \in Simulated
      BY <2>2
    <3>2. \A i \in 1..Len(tape) : tape[i].ts \in Nat
      BY <3>1, SimulatedAreTimed DEF Timed
    <3> HIDE DEF tape
    <3> QED BY <2>2, <3>2
  <2> HIDE DEF q
  <2>4. \A i \in 1..Len(q) : q[i].ts <= t.ts
    BY <1>2, <1>5, <2>1, <2>3 DEF Tape
  <2>5. Ordered(q)
    <3> SUFFICES ASSUME NEW i \in 1..Len(q), NEW j \in 1..i PROVE q[j].ts <= q[i].ts
      BY DEF Ordered
    <3>1. CASE i = Len(tape) + 1
      <4>1. j \in 1..Len(q) /\ q[i] = t
        BY <2>3, <3>1
      <4> QED BY <2>4, <4>1
    <3>2. CASE i # Len(tape) + 1
      <4>1. i \in 1..Len(tape) /\ j \in 1..Len(tape) /\ q[i] = tape[i] /\ q[j] = tape[j]
        BY <2>3, <3>2
      <4>2. tape[j].ts <= tape[i].ts
        BY <2>1, <4>1 DEF Tape, Ordered
      <4> QED BY <4>1, <4>2
    <3> QED BY <3>1, <3>2
  <2>6. WindowOf(q) = Add(WindowOf(tape), t)
    BY <2>2, SimulatedAreTimed, WindowUnfolds DEF q
  <2>7. Window(z)' = WindowOf(q)
    BY <1>3, <2>1, <2>6 DEF Tape, Window
  <2>8. arrived'[z] = q /\ elapsed' = t.ts /\ z \in DOMAIN windows'
    BY <1>2, <1>3, <1>4 DEF q
  <2> HIDE DEF z
  <2> QED BY <2>3, <2>4, <2>5, <2>7, <2>8 DEF Tape
<1>8. DOMAIN windows' \subseteq Symbols /\ SimTypeOK'
  BY <1>2, <1>3 DEF TapesInv
<1> QED BY <1>4, <1>6, <1>7, <1>8 DEF TapesInv

(* The tapes and the windows are so throughout the replay.                  *)
LEMMA TapesInvariant == BacktestSpec => []TapesInv
<1>1. TapesInv /\ UNCHANGED backtestVars => TapesInv'
  BY DEF backtestVars, engineVars, storeVars, simVars, TapesInv, SimTypeOK, Tape, Window
<1>2. TapesInv /\ [Replay]_backtestVars => TapesInv'
  BY <1>1, TapesStep
<1> QED BY <1>2, TapesInit, PTL DEF BacktestSpec
-----------------------------------------------------------------------------
(* - - - counting positions - - - - - - - - - - - - - - - - - - - - - - - - -*)

(* Sets of positions are finite.                                            *)
LEMMA Positions ==
  ASSUME NEW n \in Nat, NEW S \in SUBSET (1..n)
  PROVE  IsFiniteSet(S) /\ Cardinality(S) \in Nat
<1>1. IsFiniteSet(1..n)
  BY FS_Interval
<1>2. IsFiniteSet(S)
  BY <1>1, FS_Subset
<1> QED BY <1>2, FS_CardinalityType

(* One element more, or none.                                               *)
LEMMA OneMore ==
  ASSUME NEW n \in Nat, NEW S \in SUBSET (1..n), NEW b \in BOOLEAN,
         NEW x, b => x \notin S
  PROVE  Cardinality(IF b THEN S \cup {x} ELSE S) = Cardinality(S) + One(b)
<1>1. IsFiniteSet(S) /\ Cardinality(S) \in Nat
  BY Positions
<1>2. b => Cardinality(S \cup {x}) = Cardinality(S) + 1
  BY <1>1, FS_AddElement
<1> QED BY <1>1, <1>2 DEF One

(* As many positions in S as in a set of positions that a shift by k takes  *)
(* S into.                                                                  *)
LEMMA Shifted ==
  ASSUME NEW n \in Nat, NEW m \in Nat, NEW S \in SUBSET (1..m), NEW R \in SUBSET (1..n),
         NEW k \in Int, \A j \in S : k + j \in R
  PROVE  Cardinality(S) <= Cardinality(R)
<1> DEFINE f == [j \in S |-> k + j]
<1>1. f \in Injection(S, R)
  BY DEF Injection, IsInjective
<1>2. IsFiniteSet(R)
  BY Positions
<1> HIDE DEF f
<1> QED BY <1>1, <1>2, FS_Injection

-----------------------------------------------------------------------------
(* - - - sorting - - - - - - - - - - - - - - - - - - - - - - - - - - - - - - *)

(* The positions of the values that x is not exceeded by.                   *)
UpTo(vs, x) == {j \in 1..Len(vs) : vs[j] <= x}

(* The first k values of a sequence have an upper bound.                    *)
Under(vs, k, b) == \A j \in 1..k : vs[j] <= b
HasBound(vs, k) == \E b \in Nat : Under(vs, k, b)

(* All of it has one.                                                       *)
LEMMA Bounded ==
  ASSUME NEW vs \in Seq(Nat)
  PROVE  HasBound(vs, Len(vs))
<1> DEFINE n == Len(vs)  S == {k \in Nat : k <= n => HasBound(vs, k)}
<1>1. n \in Nat /\ \A j \in 1..n : vs[j] \in Nat
  OBVIOUS
<1> HIDE DEF n
<1>2. 0 \in S
  <2>1. Under(vs, 0, 0)
    BY DEF Under
  <2> QED BY <2>1 DEF HasBound
<1>3. ASSUME NEW k \in Nat, k \in S PROVE k + 1 \in S
  <2> SUFFICES ASSUME k + 1 <= n PROVE HasBound(vs, k + 1)
    OBVIOUS
  <2>1. k <= n
    BY <1>1
  <2>2. HasBound(vs, k)
    BY <1>3, <2>1
  <2>3. PICK b \in Nat : Under(vs, k, b)
    BY <2>2 DEF HasBound
  <2>4. \A j \in 1..(k + 1) : vs[j] \in Nat /\ (j # k + 1 => j \in 1..k)
    BY <1>1
  <2>5. vs[k + 1] \in Nat
    BY <2>4
  <2>6. CASE vs[k + 1] <= b
    <3>1. Under(vs, k + 1, b)
      BY <2>3, <2>4, <2>6 DEF Under
    <3> QED BY <2>3, <3>1 DEF HasBound
  <2>7. CASE vs[k + 1] > b
    <3>1. Under(vs, k + 1, vs[k + 1])
      BY <2>3, <2>4, <2>5, <2>7 DEF Under
    <3> QED BY <2>5, <3>1 DEF HasBound
  <2> QED BY <2>3, <2>5, <2>6, <2>7
<1> HIDE DEF S
<1>4. \A k \in Nat : k \in S
  BY <1>2, <1>3, AllNumbers
<1>5. n \in S
  BY <1>1, <1>4
<1> QED BY <1>1, <1>5 DEF S, n

(* As many as i of the values do not exceed x just if the i-th of the       *)
(* sorted ones does not.                                                    *)
LEMMA SortedIsRank ==
  ASSUME NEW vs \in Seq(Nat), NEW i \in 1..Len(vs)
  PROVE  /\ Sorted(vs)[i] \in Range(vs)
         /\ \A x \in Nat : Sorted(vs)[i] <= x <=> i <= Cardinality(UpTo(vs, x))
<1> DEFINE n == Len(vs)
           F == {v \in Range(vs) : Cardinality(UpTo(vs, v)) >= i}
           G == {v \in Nat : Cardinality(UpTo(vs, v)) >= i}
<1>1. n \in Nat /\ i \in 1..n /\ (\A j \in 1..n : vs[j] \in Nat) /\ Range(vs) \subseteq Nat
  BY DEF Range
<1>2. Sorted(vs)[i] = Min(F)
  BY DEF Sorted, UpTo
<1>3. \A x \in Nat : UpTo(vs, x) \in SUBSET (1..n)
  BY DEF UpTo
<1>4. \A x \in Nat : IsFiniteSet(UpTo(vs, x)) /\ Cardinality(UpTo(vs, x)) \in Nat
  BY <1>1, <1>3, Positions
<1>5. G # {}
  <2>1. PICK b \in Nat : Under(vs, n, b)
    BY Bounded DEF HasBound
  <2>2. UpTo(vs, b) = 1..n
    BY <2>1 DEF UpTo, Under
  <2>3. Cardinality(1..n) = n
    <3>1. ASSUME NEW k \in Nat, k > 0 PROVE Cardinality(1..k) = k
      <4>1. 1 \in Int /\ k \in Int /\ ~(1 > k) /\ k - 1 + 1 = k
        BY <3>1
      <4> QED BY <4>1, FS_Interval
    <3> QED BY <1>1, <3>1
  <2>4. Cardinality(UpTo(vs, b)) >= i
    BY <1>1, <2>2, <2>3
  <2> QED BY <2>1, <2>4
<1>6. PICK m \in G : \A y \in G : m <= y
  BY <1>5, MinOfNaturals
<1>7. m \in Range(vs)
  <2> SUFFICES ASSUME m \notin Range(vs) PROVE FALSE
    OBVIOUS
  <2>1. \A j \in 1..n : vs[j] # m
    BY DEF Range
  <2>2. CASE m = 0
    <3>1. UpTo(vs, m) = {}
      BY <1>1, <2>1, <2>2 DEF UpTo
    <3>2. Cardinality({}) = 0
      BY FS_EmptySet
    <3>3. Cardinality(UpTo(vs, m)) >= i
      BY <1>6
    <3> QED BY <1>1, <3>1, <3>2, <3>3
  <2>3. CASE m # 0
    <3>1. UpTo(vs, m - 1) = UpTo(vs, m)
      BY <1>1, <1>6, <2>1 DEF UpTo
    <3>2. m - 1 \in G
      BY <1>6, <2>3, <3>1
    <3> QED BY <1>6, <3>2
  <2> QED BY <2>2, <2>3
<1>8. Min(F) = m
  <2>1. F \in SUBSET Nat /\ m \in F /\ \A y \in F : m <= y
    BY <1>1, <1>6, <1>7
  <2> HIDE DEF F, G
  <2>2. Min(F) \in F /\ Min(F) <= m
    BY <2>1, MinOfNaturals
  <2>3. Min(F) \in Nat /\ m \in Nat /\ m <= Min(F)
    BY <2>1, <2>2
  <2> QED BY <2>2, <2>3
<1>9. ASSUME NEW x \in Nat PROVE m <= x <=> i <= Cardinality(UpTo(vs, x))
  <2>1. ASSUME m <= x PROVE i <= Cardinality(UpTo(vs, x))
    <3>1. m \in Nat /\ Cardinality(UpTo(vs, m)) >= i
      BY <1>6
    <3>2. UpTo(vs, m) \in SUBSET UpTo(vs, x)
      BY <1>1, <2>1, <3>1 DEF UpTo
    <3>3. Cardinality(UpTo(vs, m)) <= Cardinality(UpTo(vs, x))
      BY <1>4, <3>2, FS_Subset
    <3> QED BY <1>1, <1>4, <3>1, <3>3
  <2>2. ASSUME i <= Cardinality(UpTo(vs, x)) PROVE m <= x
    <3>1. x \in G
      BY <1>4, <1>1, <2>2
    <3> QED BY <1>6, <3>1
  <2> QED BY <2>1, <2>2
<1> HIDE DEF F, G
<1> QED BY <1>2, <1>7, <1>8, <1>9

(* One value more.                                                          *)
LEMMA UpToOneMore ==
  ASSUME NEW vs \in Seq(Nat), NEW q \in Nat, NEW x \in Nat
  PROVE  Cardinality(UpTo(Append(vs, q), x)) = Cardinality(UpTo(vs, x)) + One(q <= x)
<1> DEFINE n == Len(vs)  S == UpTo(vs, x)
<1>1. /\ n \in Nat /\ Len(Append(vs, q)) = n + 1 /\ Append(vs, q)[n + 1] = q
      /\ \A j \in 1..n : Append(vs, q)[j] = vs[j]
  OBVIOUS
<1>2. UpTo(Append(vs, q), x) = IF q <= x THEN S \cup {n + 1} ELSE S
  BY <1>1 DEF UpTo
<1>3. S \in SUBSET (1..n) /\ n + 1 \notin S
  BY <1>1 DEF UpTo
<1>4. (q <= x) \in BOOLEAN
  OBVIOUS
<1> HIDE DEF n, S
<1>5. Cardinality(IF q <= x THEN S \cup {n + 1} ELSE S) = Cardinality(S) + One(q <= x)
  BY <1>1, <1>3, <1>4, OneMore
<1> QED BY <1>2, <1>5 DEF S

(* So many values are a number.                                             *)
LEMMA UpToCount ==
  ASSUME NEW vs \in Seq(Nat), NEW x \in Nat
  PROVE  Cardinality(UpTo(vs, x)) \in Nat
<1>1. Len(vs) \in Nat /\ UpTo(vs, x) \in SUBSET (1..Len(vs))
  BY DEF UpTo
<1> QED BY <1>1, Positions

(* Sorting keeps the length and takes values from among those sorted.       *)
LEMMA SortedType ==
  ASSUME NEW X \in SUBSET Nat, NEW vs \in Seq(X)
  PROVE  Sorted(vs) \in Seq(X) /\ Len(Sorted(vs)) = Len(vs)
<1>1. vs \in Seq(Nat) /\ Len(vs) \in Nat /\ Range(vs) \subseteq X
  <2>1. Len(vs) \in Nat /\ \A i \in 1..Len(vs) : vs[i] \in X
    OBVIOUS
  <2>2. vs = [i \in 1..Len(vs) |-> vs[i]]
    OBVIOUS
  <2>3. vs \in Seq(Nat)
    BY <2>1, <2>2
  <2>4. Range(vs) \subseteq X
    BY <2>1 DEF Range
  <2> QED BY <2>1, <2>3, <2>4
<1>2. \A i \in 1..Len(vs) : Sorted(vs)[i] \in X
  BY <1>1, SortedIsRank
<1>3. Sorted(vs) = [i \in 1..Len(vs) |-> Sorted(vs)[i]]
  BY DEF Sorted
<1> HIDE DEF Sorted
<1> QED BY <1>1, <1>2, <1>3

(* The sorted values ascend.                                                *)
LEMMA SortedAscends ==
  ASSUME NEW vs \in Seq(Nat), NEW i \in 1..Len(vs), NEW j \in 1..i
  PROVE  Sorted(vs)[j] <= Sorted(vs)[i]
<1> DEFINE x == Sorted(vs)[i]
<1>1. i \in Nat /\ j \in Nat /\ j <= i /\ j \in 1..Len(vs)
  OBVIOUS
<1>2. x \in Nat
  BY SortedIsRank DEF Range
<1> HIDE DEF x
<1>3. Cardinality(UpTo(vs, x)) \in Nat
  BY <1>2, UpToCount
<1>4. i <= Cardinality(UpTo(vs, x))
  <2>1. x <= x
    BY <1>2
  <2> QED BY <1>2, <2>1, SortedIsRank DEF x
<1>5. j <= Cardinality(UpTo(vs, x))
  BY <1>1, <1>3, <1>4
<1> QED BY <1>1, <1>2, <1>5, SortedIsRank DEF x

(* With one value more none at its place grows; one that the value is not   *)
(* less than stays, any other does not fall below it.                       *)
LEMMA SortedOneMore ==
  ASSUME NEW vs \in Seq(Nat), NEW q \in Nat, NEW i \in 1..Len(vs)
  PROVE  LET a == Sorted(vs)[i]  b == Sorted(Append(vs, q))[i]
         IN  /\ a \in Nat /\ b \in Nat /\ b <= a
             /\ a <= q => b = a
             /\ q <= a => q <= b
<1> DEFINE us == Append(vs, q)  a == Sorted(vs)[i]  b == Sorted(us)[i]
<1>1. us \in Seq(Nat) /\ i \in 1..Len(us) /\ i \in Nat
  OBVIOUS
<1> HIDE DEF us
<1>2. a \in Nat /\ \A x \in Nat : a <= x <=> i <= Cardinality(UpTo(vs, x))
  BY SortedIsRank DEF Range
<1>3. b \in Nat /\ \A x \in Nat : b <= x <=> i <= Cardinality(UpTo(us, x))
  BY <1>1, SortedIsRank DEF Range
<1>4. \A x \in Nat : Cardinality(UpTo(vs, x)) \in Nat
  BY UpToCount
<1>5. \A x \in Nat : Cardinality(UpTo(us, x))
                       = Cardinality(UpTo(vs, x)) + (IF q <= x THEN 1 ELSE 0)
  BY UpToOneMore DEF us, One
<1> HIDE DEF a, b
<1>6. b <= a
  <2>1. i <= Cardinality(UpTo(vs, a))
    BY <1>2
  <2>2. /\ Cardinality(UpTo(vs, a)) \in Nat
        /\ Cardinality(UpTo(us, a)) = Cardinality(UpTo(vs, a)) + (IF q <= a THEN 1 ELSE 0)
    BY <1>2, <1>4, <1>5
  <2>3. i <= Cardinality(UpTo(us, a))
    BY <1>1, <2>1, <2>2
  <2> QED BY <1>2, <1>3, <2>3
<1>7. q <= b \/ a <= b
  <2>1. i <= Cardinality(UpTo(us, b))
    BY <1>3
  <2>2. ~(q <= b) => i <= Cardinality(UpTo(vs, b))
    BY <1>1, <1>3, <1>4, <1>5, <2>1
  <2> QED BY <1>2, <1>3, <2>2
<1>8. (a <= q => b = a) /\ (q <= a => q <= b)
  BY <1>2, <1>3, <1>6, <1>7
<1> QED BY <1>2, <1>3, <1>6, <1>8 DEF a, b, us

(* A trade is as many times the median of the volumes before it just if it  *)
(* is as many times that of those volumes and its own without the largest,  *)
(* for any number from 2 on.                                                *)
LEMMA MediansAgree ==
  ASSUME NEW vs \in Seq(Whole), vs # << >>, NEW q \in Whole, NEW k \in Nat, k >= 2
  PROVE  LET before == TwiceMedian(Sorted(vs))
             live == TwiceMedian(Front(Sorted(Append(vs, q))))
         IN  /\ before > 0 /\ live > 0
             /\ 2 * q >= k * live <=> 2 * q >= k * before
<1> DEFINE s == Sorted(vs)  z == Sorted(Append(vs, q))  f == Front(z)
           n == Len(vs)  mid == n \div 2
<1>1. vs \in Seq(Nat) /\ q \in Nat /\ q > 0 /\ n \in Nat /\ n > 0
  BY DEF Whole
<1>2. s \in Seq(Whole) /\ Len(s) = n
  BY SortedType DEF Whole
<1>3. z \in Seq(Whole) /\ Len(z) = n + 1
  <2>1. Append(vs, q) \in Seq(Whole) /\ Len(Append(vs, q)) = n + 1
    OBVIOUS
  <2>2. Whole \in SUBSET Nat
    BY DEF Whole
  <2> QED BY <2>1, <2>2, SortedType
<1>4. \A i \in 1..n : /\ z[i] <= s[i] /\ (s[i] <= q => z[i] = s[i])
                      /\ (q <= s[i] => q <= z[i])
  BY <1>1, SortedOneMore
<1>5. \A i \in 1..n : \A j \in 1..i : s[j] <= s[i]
  BY <1>1, SortedAscends
<1> HIDE DEF s, z
<1>6. Len(f) = n /\ \A i \in 1..n : f[i] = z[i]
  BY <1>1, <1>3 DEF Front
<1>7. \A i \in 1..n : s[i] \in Nat /\ s[i] > 0 /\ z[i] \in Nat /\ z[i] > 0
  <2>1. \A i \in 1..n : s[i] \in Whole /\ z[i] \in Whole
    BY <1>1, <1>2, <1>3
  <2> QED BY <2>1 DEF Whole
<1>8. s # << >> /\ f # << >>
  BY <1>1, <1>2, <1>6
<1> HIDE DEF f, n
<1>9. mid \in Nat /\ mid + 1 \in 1..n /\ (n % 2 # 1 => mid \in 1..n) /\ mid <= mid + 1
  BY <1>1
<1> DEFINE odd == n % 2 = 1  c == mid + 1  d == IF odd THEN c ELSE mid
<1>10. c \in 1..n /\ d \in 1..n /\ d <= c
  BY <1>9
<1>11. TwiceMedian(s) = s[c] + s[d] /\ TwiceMedian(f) = z[c] + z[d]
  <2>1. TwiceMedian(s) = IF odd THEN 2 * s[c] ELSE s[mid] + s[c]
    BY <1>2, <1>8 DEF TwiceMedian
  <2>2. TwiceMedian(f) = IF odd THEN 2 * f[c] ELSE f[mid] + f[c]
    BY <1>6, <1>8 DEF TwiceMedian
  <2>3. s[c] \in Nat /\ s[d] \in Nat /\ f[c] = z[c] /\ f[d] = z[d] /\ z[c] \in Nat /\ z[d] \in Nat
    BY <1>6, <1>7, <1>10
  <2> HIDE DEF mid, c, odd
  <2> QED BY <2>1, <2>2, <2>3
<1>12. d \in 1..c /\ s[d] <= s[c]
  BY <1>5, <1>10
<1> DEFINE sc == s[c]  sd == s[d]  zc == z[c]  zd == z[d]
<1>13. /\ sc \in Nat /\ sd \in Nat /\ zc \in Nat /\ zd \in Nat
       /\ sc > 0 /\ sd > 0 /\ zc > 0 /\ zd > 0 /\ zc <= sc /\ zd <= sd /\ sd <= sc
       /\ sc <= q => zc = sc
       /\ sd <= q => zd = sd
       /\ q <= sc => q <= zc
  BY <1>4, <1>7, <1>10, <1>12
<1> HIDE DEF mid, c, d, sc, sd, zc, zd
<1>14. CASE sc <= q
  <2>1. zc + zd = sc + sd
    BY <1>1, <1>13, <1>14
  <2> QED BY <1>11, <1>13, <2>1 DEF sc, sd, zc, zd, s, f, z
<1>15. CASE ~(sc <= q)
  <2>1. zc + zd > q /\ sc + sd > q
    BY <1>1, <1>13, <1>15
  <2>2. ASSUME NEW x \in Nat, x > q PROVE ~(2 * q >= k * x)
    <3>1. k * x >= 2 * x
      BY <2>2
    <3> QED BY <1>1, <2>2, <3>1
  <2>3. ~(2 * q >= k * (zc + zd)) /\ ~(2 * q >= k * (sc + sd))
    <3>1. zc + zd \in Nat /\ sc + sd \in Nat
      BY <1>13
    <3> QED BY <2>1, <2>2, <3>1
  <2>4. sc + sd > 0 /\ zc + zd > 0
    BY <1>13
  <2> QED BY <1>11, <2>3, <2>4 DEF sc, sd, zc, zd, s, f, z
<1> QED BY <1>14, <1>15
-----------------------------------------------------------------------------
(* - - - sums - - - - - - - - - - - - - - - - - - - - - - - - - - - - - - - - *)

(* The fold that Total is defined by, over the first n numbers of q.        *)
TotalFold(it, q, n) ==
  it = [s \in SUBSET (1..n) |->
          IF s = {} THEN 0 ELSE it[s \ {Max(s)}] + q[Max(s)]]

(* Addition as a function.                                                  *)
Plus(T) == [a \in Int |-> [x \in T |-> a + x]]

(* A total is such a fold's value at the whole sequence.                    *)
LEMMA TotalIsFold ==
  ASSUME NEW q, NEW n, DOMAIN q = 1..n
  PROVE  Total(q) = (CHOOSE it : TotalFold(it, q, n))[1..n]
BY DEF Total, FoldLeft, MapThenFoldSet, TotalFold

(* The sum of whole numbers is one.                                         *)
LEMMA TotalType ==
  ASSUME NEW T \in SUBSET Int, NEW q \in Seq(T)
  PROVE  Total(q) \in Int
<1> DEFINE n == Len(q)  g == CHOOSE it : TotalFold(it, q, n)
<1>1. n \in Nat /\ DOMAIN q = 1..n /\ 0 \in Int /\ \A k \in 1..n : q[k] \in T
  OBVIOUS
<1>3. Plus(T) \in [Int -> [T -> Int]] /\ \A a \in Int, x \in T : Plus(T)[a][x] = a + x
  BY DEF Plus
<1>2. PICK it \in [SUBSET (1..n) -> Int] : FoldOf(it, Plus(T), 0, q, n)
  BY <1>3, <1>1, FoldExists, Zenon DEF HasFold
<1>4. Total(q) = g[1..n]
  BY <1>1, TotalIsFold
<1> HIDE DEF n
<1>5. TotalFold(it, q, n)
  <2>1. ASSUME NEW s \in SUBSET (1..n), s # {}
        PROVE  Plus(T)[it[s \ {Max(s)}]][q[Max(s)]] = it[s \ {Max(s)}] + q[Max(s)]
    <3>1. Max(s) \in 1..n
      BY <1>1, <2>1, MaxOfNumbers
    <3>2. s \ {Max(s)} \in SUBSET (1..n)
      OBVIOUS
    <3>3. q[Max(s)] \in T /\ it[s \ {Max(s)}] \in Int
      BY <1>1, <1>2, <3>1, <3>2
    <3> QED BY <1>3, <3>3
  <2> QED BY <1>2, <2>1 DEF TotalFold, FoldOf
<1>6. TotalFold(g, q, n)
  BY <1>5, Zenon
<1> HIDE DEF g
<1>7. g[{}] = 0
  BY <1>6 DEF TotalFold
<1>8. ASSUME NEW k \in 1..n PROVE g[1..k] = g[1..(k - 1)] + q[k]
  <2>1. /\ 1..k \in SUBSET (1..n) /\ 1..k # {}
        /\ Max(1..k) = k /\ (1..k) \ {Max(1..k)} = 1..(k - 1)
    BY <1>1, FirstOf, Zenon
  <2>2. g[1..k] = g[(1..k) \ {Max(1..k)}] + q[Max(1..k)]
    BY <1>6, <2>1 DEF TotalFold
  <2> QED BY <2>1, <2>2, Zenon
<1>9. ASSUME NEW k \in 1..n, g[1..(k - 1)] \in Int
      PROVE  g[1..k] = Plus(T)[g[1..(k - 1)]][q[k]]
  BY <1>3, <1>1, <1>8, <1>9
<1>10. Follows(g, Int, Plus(T), 0, q)
  BY <1>7, <1>9, Zenon DEF Follows, n
<1>11. g[1..n] \in Int
  <2> DEFINE X == Int  base == 0  step == Plus(T)
  <2>1. /\ q \in Seq(T) /\ base \in X /\ step \in [X -> [T -> X]]
        /\ Follows(g, X, step, base, q)
    BY <1>3, <1>1, <1>10
  <2> HIDE DEF X, base, step
  <2>2. g[1..Len(q)] \in X
    BY <2>1, SameSteps
  <2> QED BY <2>2 DEF n, X
<1> QED BY <1>4, <1>11
-----------------------------------------------------------------------------
(* - - - features and detectors - - - - - - - - - - - - - - - - - - - - - - - *)

(* What a trade of the simulator carries, and its window with it.           *)
LEMMA SimulatedFields ==
  ASSUME NEW h \in Seq(Simulated), NEW t \in Simulated
  PROVE  /\ Len(h) \in Nat /\ Append(h, t) \in Seq(Simulated)
         /\ Len(Append(h, t)) = Len(h) + 1 /\ Append(h, t)[Len(h) + 1] = t
         /\ \A j \in 1..Len(h) : Append(h, t)[j] = h[j]
         /\ t.ts \in Nat /\ t.price \in Whole /\ t.quantity \in Whole
         /\ \A j \in 1..Len(h) : /\ h[j].ts \in Nat /\ h[j].price \in Whole
                                 /\ h[j].quantity \in Whole
<1>1. \A x \in Simulated : x.ts \in Nat /\ x.price \in Whole /\ x.quantity \in Whole
  BY DEF Simulated
<1>2. \A j \in 1..Len(h) : h[j] \in Simulated
  OBVIOUS
<1> QED BY <1>1, <1>2

(* The window without its last trade is what it was.                        *)
LEMMA FrontOfAppend ==
  ASSUME NEW T, NEW h \in Seq(T), NEW t \in T
  PROVE  Front(Append(h, t)) = h /\ Last(Append(h, t)) = t
BY DEF Front, Last

(* A price that is k tenths of the sample's deviation off its mean is as    *)
(* far off in the population's, which is the smaller.                       *)
LEMMA SampleToPopulation ==
  ASSUME NEW n \in Nat, NEW D \in Nat, NEW B \in Nat,
         NEW total \in Int, NEW squares \in Int,
         n * squares - total * total > 0, D * (n - 1) >= B * n
  PROVE  D >= B
<1>1. n > 0
  <2> SUFFICES ASSUME n = 0 PROVE FALSE
    OBVIOUS
  <2>1. n * squares = 0 /\ total * total >= 0
    OBVIOUS
  <2> QED BY <2>1
<1> SUFFICES ASSUME D < B PROVE FALSE
  OBVIOUS
<1>2. D * (n - 1) <= B * (n - 1)
  BY <1>1
<1>3. B * n = B * (n - 1) + B
  OBVIOUS
<1> QED BY <1>2, <1>3

(* The row bears the z-score detector out.                                  *)
LEMMA ZScoreBorneOut ==
  ASSUME NEW h \in Seq(Simulated), NEW t \in Simulated, ZScore(t, Append(h, t)) # NoAlert
  PROVE  AtLeast(PriceZSquared(h, t), Rules.price_threshold * Rules.price_threshold, 100)
<1> DEFINE k == Rules.price_threshold  ps == Prices(h)  n == Len(ps)
           total == Total(ps)  squares == Total([i \in 1..n |-> ps[i] * ps[i]])
           spread == n * squares - total * total  d == n * t.price - total
<1>1. k \in Nat /\ t.price \in Int
  BY RulesAssumption, SimulatedFields DEF Whole
<1>2. n \in Nat /\ ps \in Seq(Int) /\ [i \in 1..n |-> ps[i] * ps[i]] \in Seq(Int)
  <2>1. \A j \in 1..Len(h) : h[j].price \in Int
    BY SimulatedFields DEF Whole
  <2>2. Len(h) \in Nat
    OBVIOUS
  <2>3. ps \in Seq(Int)
    BY <2>1, <2>2 DEF Prices
  <2> HIDE DEF ps
  <2> QED BY <2>3
<1>3. total \in Int /\ squares \in Int
  BY <1>2, TotalType
<1>4. FarFrom(ps, t.price, k)
  BY FrontOfAppend DEF ZScore, Grade
<1>5. spread > 0 /\ 100 * d * d * (n - 1) >= k * k * n * spread
  BY <1>4 DEF FarFrom
<1>6. PriceZSquared(h, t) = <<d * d, spread>>
  BY <1>5 DEF PriceZSquared
<1> HIDE DEF n, total, squares, k
<1> DEFINE D == 100 * d * d  B == k * k * spread  p == t.price
<1>7. d \in Int /\ spread \in Nat /\ d * d \in Nat /\ k * k \in Nat
  <2>1. \A x \in Int : x * x \in Nat
    OBVIOUS
  <2>2. d \in Int /\ spread \in Nat
    BY <1>1, <1>2, <1>3, <1>5
  <2> HIDE DEF d, spread
  <2> QED BY <1>1, <2>1, <2>2
<1>8. D \in Nat /\ B \in Nat /\ D * (n - 1) >= B * n
  <2> HIDE DEF d, spread
  <2>1. D = 100 * (d * d)
    BY <1>7
  <2>2. k * k * n * spread = B * n
    BY <1>1, <1>2, <1>7
  <2>3. B \in Nat
    BY <1>7
  <2> QED BY <1>5, <1>7, <2>1, <2>2, <2>3
<1>9. D >= B
  <2> HIDE DEF D, B
  <2> QED BY <1>2, <1>3, <1>5, <1>8, SampleToPopulation
<1>10. (d * d) * 100 >= (k * k) * spread
  <2> HIDE DEF d, spread
  <2> QED BY <1>7, <1>9
<1> QED BY <1>6, <1>10 DEF AtLeast, k

(* It does the price-spike detector, exactly.                               *)
LEMMA PriceSpikeBorneOut ==
  ASSUME NEW h \in Seq(Simulated), NEW t \in Simulated
  PROVE  PriceSpike(t, Append(h, t)) # NoAlert
           <=> AtLeast(PctMove(h, t), Rules.pct_threshold, 1000)
<1> DEFINE w == Append(h, t)  n == Len(h)  pct == Rules.pct_threshold
<1>1. pct \in Nat /\ pct > 0
  BY FeaturesAssumption
<1>2. /\ n \in Nat /\ Len(w) = n + 1
      /\ \A j \in 1..n : w[j] = h[j] /\ h[j].price \in Nat /\ h[j].price > 0
  BY SimulatedFields DEF Whole
<1> HIDE DEF w
<1>3. CASE n = 0
  <2>1. h = << >>
    BY <1>3
  <2>2. PctMove(h, t) = <<0, 1>>
    BY <2>1 DEF PctMove
  <2>3. ~AtLeast(PctMove(h, t), pct, 1000)
    BY <1>1, <2>2 DEF AtLeast
  <2>4. PriceSpike(t, w) = NoAlert
    BY <1>2, <1>3 DEF PriceSpike
  <2> QED BY <2>3, <2>4 DEF w
<1>4. CASE n # 0
  <2> DEFINE prev == h[n].price  move == Abs(t.price - prev)
  <2>1. h # << >> /\ Last(h) = h[n] /\ n \in 1..n
    BY <1>2, <1>4 DEF Last
  <2>2. prev \in Nat /\ prev > 0 /\ w[n] = h[n]
    BY <1>2, <2>1
  <2>3. PctMove(h, t) = <<move, prev>>
    BY <2>1 DEF PctMove
  <2>4. AtLeast(PctMove(h, t), pct, 1000) <=> move * 1000 >= pct * prev
    BY <2>3 DEF AtLeast
  <2>5. move \in Int
    <3>1. t.price \in Int
      BY SimulatedFields DEF Whole
    <3> HIDE DEF prev
    <3> QED BY <2>2, <3>1 DEF Abs
  <2>6. PriceSpike(t, w) # NoAlert <=> 1000 * move >= pct * prev
    <3>1. w[Len(w) - 1].price = prev /\ ~(Len(w) < 2)
      BY <1>2, <1>4, <2>2
    <3>2. PriceSpike(t, w) # NoAlert <=> prev > 0 /\ 1000 * move >= pct * prev
      BY <3>1 DEF PriceSpike, Grade, NoAlert
    <3> QED BY <2>2, <3>2
  <2>7. 1000 * move = move * 1000
    <3> HIDE DEF move
    <3> QED BY <2>5
  <2> QED BY <2>4, <2>6, <2>7 DEF w
<1> QED BY <1>3, <1>4

(* It does the volume-spike detector, at any multiplier from 2 on.          *)
LEMMA VolumeSpikeBorneOut ==
  ASSUME NEW h \in Seq(Simulated), NEW t \in Simulated, NEW k \in Nat, k >= 2
  PROVE  LET w == Append(h, t)
         IN  /\ Len(w) > 1 <=> TwiceVolumeMedian(w) > 0
             /\ Len(w) > 1 =>
                  (2 * t.quantity >= k * TwiceVolumeMedian(w)
                     <=> AtLeast(SizeVsMedian(h, t), k, 1))
<1> DEFINE w == Append(h, t)  vs == Quantities(h)  q == t.quantity
           before == TwiceMedian(Sorted(vs))
           live == TwiceMedian(Front(Sorted(Append(vs, q))))
<1>1. /\ Len(h) \in Nat /\ q \in Whole
      /\ Len(w) = Len(h) + 1 /\ w[Len(h) + 1] = t
      /\ \A j \in 1..Len(h) : w[j] = h[j] /\ h[j].quantity \in Whole
  BY SimulatedFields
<1>2. vs \in Seq(Whole) /\ Len(vs) = Len(h)
  BY <1>1 DEF Quantities
<1>3. Quantities(w) = Append(vs, q)
  <2>1. Append(vs, q) = [i \in 1..(Len(h) + 1) |-> IF i = Len(h) + 1 THEN q ELSE vs[i]]
    <3> HIDE DEF vs, w, q
    <3>1. vs \in Seq(Whole) /\ q \in Whole
      BY <1>1, <1>2
    <3> DEFINE us == Append(vs, q)
    <3>2. /\ us \in Seq(Whole) /\ Len(us) = Len(vs) + 1 /\ us[Len(vs) + 1] = q
          /\ \A i \in 1..Len(vs) : us[i] = vs[i]
      BY <3>1
    <3> HIDE DEF us
    <3>3. us = [i \in 1..(Len(vs) + 1) |-> us[i]]
      BY <3>2
    <3>4. Len(vs) + 1 = Len(h) + 1
      BY <1>2
    <3>5. ASSUME NEW i \in 1..(Len(h) + 1)
          PROVE  us[i] = IF i = Len(h) + 1 THEN q ELSE vs[i]
      <4>1. CASE i = Len(h) + 1
        BY <1>2, <3>2, <4>1
      <4>2. CASE i # Len(h) + 1
        <5>1. i \in 1..Len(vs)
          BY <1>1, <1>2, <4>2
        <5> QED BY <3>2, <4>2, <5>1
      <4> QED BY <4>1, <4>2
    <3>6. us = [i \in 1..(Len(h) + 1) |-> IF i = Len(h) + 1 THEN q ELSE vs[i]]
      BY <3>3, <3>4, <3>5
    <3> QED BY <3>6 DEF us
  <2>2. \A i \in 1..Len(h) : vs[i] = w[i].quantity
    BY <1>1 DEF Quantities
  <2>3. Quantities(w) = [i \in 1..(Len(h) + 1) |-> w[i].quantity]
    BY <1>1 DEF Quantities
  <2> HIDE DEF vs, w
  <2> QED BY <1>1, <2>1, <2>2, <2>3
<1>4. TwiceVolumeMedian(w) = live
  BY <1>3 DEF TwiceVolumeMedian
<1> HIDE DEF w, vs
<1>5. CASE h = << >>
  <2>1. vs = << >>
    BY <1>2, <1>5
  <2>2. Len(Sorted(Append(vs, q))) = 1
    <3>1. Append(vs, q) \in Seq(Whole) /\ Len(Append(vs, q)) = 1 /\ Whole \in SUBSET Nat
      BY <1>1, <1>2, <2>1 DEF Whole
    <3> QED BY <3>1, SortedType
  <2>3. Front(Sorted(Append(vs, q))) = << >>
    BY <2>2 DEF Front
  <2>4. live = 0
    BY <2>3 DEF TwiceMedian
  <2>5. Len(w) = 1
    BY <1>1, <1>5
  <2> QED BY <1>4, <2>4, <2>5 DEF w
<1>6. CASE h # << >>
  <2>1. vs # << >> /\ Len(w) > 1
    BY <1>1, <1>2, <1>6
  <2>2. before > 0 /\ live > 0 /\ (2 * q >= k * live <=> 2 * q >= k * before)
    BY <1>1, <1>2, <2>1, MediansAgree
  <2>3. SizeVsMedian(h, t) = <<2 * q, before>>
    BY <2>2 DEF SizeVsMedian, vs
  <2>4. AtLeast(SizeVsMedian(h, t), k, 1) <=> (2 * q) * 1 >= k * before
    BY <2>3 DEF AtLeast
  <2>5. (2 * q) * 1 = 2 * q
    BY <1>1 DEF Whole
  <2> QED BY <1>4, <2>1, <2>2, <2>4, <2>5 DEF w
<1> QED BY <1>5, <1>6

(* It does the velocity detector, exactly, but for the trade itself.        *)
LEMMA VelocityBorneOut ==
  ASSUME NEW h \in Seq(Simulated), NEW t \in Simulated
  PROVE  LET span == Rules.velocity_window
         IN  Velocity(t, Append(h, t)) # NoAlert
               <=> Cardinality(Recent(h, t.ts, span)) + 1 >= Rules.velocity_max
<1> DEFINE w == Append(h, t)  span == Rules.velocity_window  n == Len(h)
           R == Recent(h, t.ts, span)
<1>1. /\ n \in Nat /\ Len(w) = n + 1 /\ w[n + 1] = t /\ t.ts \in Nat
      /\ \A j \in 1..n : w[j] = h[j]
  BY SimulatedFields
<1>2. span \in Nat /\ Rules.velocity_max \in Nat
  BY RulesAssumption
<1>3. Recent(w, t.ts, span) = R \cup {n + 1}
  <2> HIDE DEF w, span, n
  <2>1. 1..(n + 1) = (1..n) \cup {n + 1}
    BY <1>1
  <2>2. w[n + 1].ts >= t.ts - span
    BY <1>1, <1>2
  <2> QED BY <1>1, <2>1, <2>2 DEF Recent, n
<1>4. R \in SUBSET (1..n) /\ n + 1 \notin R
  BY <1>1 DEF Recent
<1>5. /\ Cardinality(R) \in Nat
      /\ Cardinality(Recent(w, t.ts, span)) = Cardinality(R) + 1
  <2> HIDE DEF R, n
  <2>1. IsFiniteSet(R) /\ Cardinality(R) \in Nat
    BY <1>1, <1>4, Positions
  <2>2. Cardinality(R \cup {n + 1}) = Cardinality(R) + 1
    BY <1>4, <2>1, FS_AddElement
  <2> QED BY <1>3, <2>1, <2>2
<1> HIDE DEF w, R, span
<1>6. Velocity(t, w) # NoAlert <=> ~(Cardinality(Recent(w, t.ts, span)) < Rules.velocity_max)
  BY <1>2, <1>5 DEF Velocity, NoAlert, span
<1> QED BY <1>2, <1>5, <1>6 DEF w, R, span

(* A trade that pushes nothing out of its window is at the end of it.       *)
LEMMA NothingPushedOut ==
  ASSUME NEW h \in Seq(Simulated), NEW t \in Simulated, Len(Add(h, t)) = Len(h) + 1
  PROVE  Add(h, t) = Append(h, t)
<1> DEFINE x == Add(h, t)  v == Append(h, t)
<1>1. PICK k \in 1..(Len(h) + 1) :
        /\ x \in Seq(Simulated) /\ Len(x) = Len(h) + 2 - k
        /\ Len(x) <= MaxTrades
        /\ \A j \in 1..(Len(h) + 2 - k) : x[j] = v[k + j - 1]
        /\ v[k].ts >= t.ts - Horizon
        /\ \A j \in 1..(k - 1) :
             j <= Len(h) + 1 - MaxTrades \/ v[j].ts < t.ts - Horizon
  BY SimulatedAreTimed, AddDropsHead, Zenon
<1>2. v \in Seq(Simulated) /\ Len(v) = Len(h) + 1 /\ Len(h) \in Nat
  OBVIOUS
<1> HIDE DEF x, v
<1>3. k = 1
  BY <1>1, <1>2 DEF x
<1>4. Len(x) = Len(v) /\ \A j \in 1..Len(v) : x[j] = v[j]
  BY <1>1, <1>2, <1>3
<1>5. x = v
  BY <1>1, <1>2, <1>4
<1> QED BY <1>5 DEF x, v

(* A trade is as far from the detectors as its row is from the limits.      *)
LEMMA RowBearsOut ==
  ASSUME NEW h \in Seq(Simulated), NEW t \in Simulated
  PROVE  LET w == Append(h, t)  row == FeatureRow(h, t)
             size(m) == Len(w) > 1 /\ AtLeast(row.size_vs_median, m, 1)
             k == Rules.price_threshold
         IN  /\ ZScore(t, w) # NoAlert => AtLeast(row.price_z, k * k, 100)
             /\ PriceSpike(t, w) # NoAlert <=>
                  AtLeast(row.price_pct_move, Rules.pct_threshold, 1000)
             /\ VolumeSpike(t, w) = Grade(Ready(w) /\ size(Rules.median_multiplier),
                                          size(Rules.critical_multiplier))
             /\ Velocity(t, w) # NoAlert <=> row.trades_in_5s + 1 >= Rules.velocity_max
<1> DEFINE w == Append(h, t)  row == FeatureRow(h, t)
           size(m) == Len(w) > 1 /\ AtLeast(row.size_vs_median, m, 1)
<1>1. /\ row.price_z = PriceZSquared(h, t) /\ row.price_pct_move = PctMove(h, t)
      /\ row.size_vs_median = SizeVsMedian(h, t)
      /\ row.trades_in_5s = Cardinality(Recent(h, t.ts, Rules.velocity_window))
  BY DEF FeatureRow
<1> HIDE DEF row
<1>2. VolumeSpike(t, w) = Grade(Ready(w) /\ size(Rules.median_multiplier),
                                size(Rules.critical_multiplier))
  <2> DEFINE a == Rules.median_multiplier  c == Rules.critical_multiplier
             m == TwiceVolumeMedian(w)
  <2>1. a \in Nat /\ a >= 2 /\ c \in Nat /\ c >= 2
    BY FeaturesAssumption
  <2>2. /\ Len(w) > 1 <=> m > 0
        /\ Len(w) > 1 => (2 * t.quantity >= a * m <=> AtLeast(row.size_vs_median, a, 1))
        /\ Len(w) > 1 => (2 * t.quantity >= c * m <=> AtLeast(row.size_vs_median, c, 1))
    <3> HIDE DEF a, c
    <3> QED BY <1>1, <2>1, VolumeSpikeBorneOut
  <2>3. VolumeSpike(t, w) = Grade(Ready(w) /\ m > 0 /\ 2 * t.quantity >= a * m,
                                  2 * t.quantity >= c * m)
    BY DEF VolumeSpike
  <2> HIDE DEF m, w, a, c
  <2> QED BY <2>2, <2>3, Zenon DEF Grade, a, c
<1>3. ZScore(t, w) # NoAlert
        => AtLeast(row.price_z, Rules.price_threshold * Rules.price_threshold, 100)
  BY <1>1, ZScoreBorneOut
<1>4. PriceSpike(t, w) # NoAlert <=>
        AtLeast(row.price_pct_move, Rules.pct_threshold, 1000)
  BY <1>1, PriceSpikeBorneOut
<1>5. Velocity(t, w) # NoAlert <=> row.trades_in_5s + 1 >= Rules.velocity_max
  BY <1>1, VelocityBorneOut
<1> QED BY <1>2, <1>3, <1>4, <1>5 DEF w, row

(* On such tapes the rows bear the live detectors out.                      *)
LEMMA TapesImplyFeatures == TapesInv => FeaturesBearOut
<1> SUFFICES ASSUME TapesInv, NEW s \in DOMAIN windows,
                    Len(windows[s]) = Len(History(arrived[s])) + 1
             PROVE  LET w == windows[s]  t == Last(w)  row == RowOf(arrived[s])
                        size(m) == Len(w) > 1 /\ AtLeast(row.size_vs_median, m, 1)
                        k == Rules.price_threshold
                    IN  /\ ZScore(t, w) # NoAlert => AtLeast(row.price_z, k * k, 100)
                        /\ PriceSpike(t, w) # NoAlert <=>
                             AtLeast(row.price_pct_move, Rules.pct_threshold, 1000)
                        /\ VolumeSpike(t, w) = Grade(Ready(w) /\ size(Rules.median_multiplier),
                                                     size(Rules.critical_multiplier))
                        /\ Velocity(t, w) # NoAlert <=>
                             row.trades_in_5s + 1 >= Rules.velocity_max
  BY DEF FeaturesBearOut
<1> DEFINE tape == arrived[s]  q == Front(tape)  h == History(tape)  t == Last(tape)
           w == windows[s]
<1>1. tape \in Seq(Simulated) /\ tape # << >> /\ w = WindowOf(tape)
  BY DEF TapesInv, Tape, Window
<1> HIDE DEF tape
<1>2. q \in Seq(Simulated) /\ t \in Simulated /\ tape = Append(q, t)
  <2>1. Len(tape) \in Nat /\ Len(tape) > 0
    BY <1>1
  <2>2. q \in Seq(Simulated) /\ t \in Simulated
    BY <1>1, <2>1 DEF Front, Last
  <2>3. tape = Append(q, t)
    BY <1>1, <2>1 DEF Front, Last
  <2> QED BY <2>2, <2>3
<1>3. h = WindowOf(q)
  BY DEF History, WindowOf
<1> HIDE DEF q, h, t
<1>4. h \in Seq(Simulated) /\ w = Add(h, t)
  BY <1>1, <1>2, <1>3, SimulatedAreTimed, WindowUnfolds
<1>5. w = Append(h, t)
  BY <1>2, <1>4, NothingPushedOut DEF h, tape
<1>6. Last(w) = t
  BY <1>2, <1>4, <1>5, FrontOfAppend
<1>7. RowOf(tape) = FeatureRow(h, t)
  BY DEF RowOf, h, t
<1> HIDE DEF w
<1> QED BY <1>2, <1>4, <1>5, <1>6, <1>7, RowBearsOut DEF w, tape

(* The row a model is trained on bears out what the live detectors said of  *)
(* the trade (transform_one(), detectors).                                  *)
THEOREM BacktestFeaturesBearOut == BacktestSpec => []FeaturesBearOut
BY TapesImplyFeatures, TapesInvariant, PTL
-----------------------------------------------------------------------------
(* - - - the Spark job - - - - - - - - - - - - - - - - - - - - - - - - - - - *)

(* Whole seconds of times no further apart than so many seconds.            *)
LEMMA SecondsApart ==
  ASSUME NEW a \in Nat, NEW b \in Nat, NEW n \in Nat, NEW span \in Nat,
         n * Second >= span
  PROVE  /\ a <= b => a \div Second <= b \div Second
         /\ a >= b - span => a \div Second >= b \div Second - n
<1> USE SqlAssumption
<1> DEFINE x == a \div Second  y == b \div Second
<1>1. /\ x \in Int /\ y \in Int
      /\ a = x * Second + (a % Second) /\ a % Second \in 0..(Second - 1)
      /\ b = y * Second + (b % Second) /\ b % Second \in 0..(Second - 1)
  <2>1. ASSUME NEW m \in Nat
        PROVE  /\ m \div Second \in Int /\ m % Second \in 0..(Second - 1)
               /\ m = (m \div Second) * Second + (m % Second)
    OBVIOUS
  <2> QED BY <2>1
<1> HIDE DEF x, y
<1>2. ASSUME NEW u \in Int, NEW v \in Int, NEW r \in 0..(Second - 1),
             NEW s \in 0..(Second - 1), u * Second + r <= v * Second + s
      PROVE  u <= v
  <2> SUFFICES ASSUME u >= v + 1 PROVE FALSE
    OBVIOUS
  <2>1. u * Second >= (v + 1) * Second
    OBVIOUS
  <2>2. (v + 1) * Second = v * Second + Second
    OBVIOUS
  <2> QED BY <1>2, <2>1, <2>2
<1>3. a <= b => x <= y
  BY <1>1, <1>2
<1>4. a >= b - span => x >= y - n
  <2>1. (y - n) * Second = y * Second - n * Second
    BY <1>1
  <2>2. a >= b - span => (y - n) * Second + (b % Second) <= x * Second + (a % Second)
    BY <1>1, <2>1
  <2>3. y - n \in Int
    BY <1>1
  <2> QED BY <1>1, <1>2, <2>2, <2>3
<1> QED BY <1>3, <1>4 DEF x, y

(* A burst that the live velocity detector speaks of at a trade of a tape   *)
(* is one for a job that is no stricter.                                    *)
LEMMA VelocityAgrees ==
  ASSUME NEW q \in Jobs, q.velocity <= Rules.velocity_max,
         q.velocity_seconds * Second >= Rules.velocity_window,
         NEW T, Timed(T), NEW tape \in Seq(T), NEW i \in 1..Len(tape), NEW w \in Seq(T),
         Ordered(tape), Suffix(w, tape, i), Velocity(tape[i], w) # NoAlert
  PROVE  IsVelocity(q, tape, i)
<1> DEFINE span == Rules.velocity_window  at == tape[i].ts
           S == Recent(w, at, span)  R == RecentRows(q, tape, i)  k == i - Len(w)
           seconds == q.velocity_seconds
<1>1. /\ Len(tape) \in Nat /\ Len(w) \in Nat /\ i \in Nat /\ k \in Nat
      /\ \A j \in 1..Len(tape) : tape[j].ts \in Nat
  <2>1. \A j \in 1..Len(tape) : tape[j] \in T
    OBVIOUS
  <2> QED BY <2>1 DEF Timed, Suffix
<1>2. S \in SUBSET (1..Len(w)) /\ R \in SUBSET (1..Len(tape))
  BY DEF Recent, RecentRows
<1>3. span \in Nat /\ seconds \in Nat /\ seconds * Second >= span
  BY RulesAssumption, SqlAssumption
<1>4. ASSUME NEW j \in S PROVE k + j \in R
  <2>1. j \in 1..Len(w) /\ w[j] = tape[k + j] /\ w[j].ts >= at - span
    BY <1>2 DEF Suffix, Recent
  <2>2. k + j \in 1..i /\ k + j \in 1..Len(tape)
    BY <1>1, <2>1
  <2>3. tape[k + j].ts <= at
    BY <2>2 DEF Ordered
  <2>4. tape[k + j].ts \in Nat /\ at \in Nat
    BY <1>1, <2>2
  <2> HIDE DEF k, at, span, seconds
  <2>5. /\ tape[k + j].ts \div Second <= at \div Second
        /\ tape[k + j].ts \div Second >= at \div Second - seconds
    BY <1>3, <2>1, <2>3, <2>4, SecondsApart
  <2> QED BY <2>2, <2>5 DEF RecentRows, SecondOf, at, span, seconds
<1>5. Cardinality(S) <= Cardinality(R) /\ Cardinality(S) \in Nat /\ Cardinality(R) \in Nat
  <2>1. k \in Int
    BY <1>1
  <2> DEFINE n == Len(tape)  m == Len(w)
  <2>2. n \in Nat /\ m \in Nat /\ S \in SUBSET (1..m) /\ R \in SUBSET (1..n)
    BY <1>1, <1>2
  <2> HIDE DEF S, R, k, n, m
  <2>3. Cardinality(S) <= Cardinality(R)
    BY <1>4, <2>1, <2>2, Shifted
  <2>4. Cardinality(S) \in Nat
    BY <2>2, Positions
  <2>5. Cardinality(R) \in Nat
    BY <2>2, Positions
  <2> QED BY <2>3, <2>4, <2>5
<1>6. ~(Cardinality(S) < Rules.velocity_max)
  BY <1>5, RulesAssumption DEF Velocity
<1>7. q.velocity \in Nat /\ Rules.velocity_max \in Nat
  BY SqlAssumption, RulesAssumption
<1> QED BY <1>5, <1>6, <1>7 DEF IsVelocity

(* Where its window holds what the job looks back at, the live detector of  *)
(* prices sees the same prices.                                             *)
LEMMA SamePrices ==
  ASSUME NEW q \in Jobs, NEW T, NEW tape \in Seq(T), NEW i \in 1..Len(tape), NEW w \in Seq(T),
         Suffix(w, tape, i), Len(w) = i, i <= q.lookback + 1
  PROVE  Prices(Front(w)) = Prices(PriorRows(q, tape, i))
<1>1. Len(tape) \in Nat /\ i \in Nat /\ q.lookback \in Nat
  BY SqlAssumption
<1>2. PriorRows(q, tape, i) = SubSeq(tape, 1, i - 1)
  BY <1>1 DEF PriorRows
<1>3. /\ Len(SubSeq(tape, 1, i - 1)) = i - 1 /\ Len(Front(w)) = i - 1
      /\ \A j \in 1..(i - 1) : SubSeq(tape, 1, i - 1)[j] = tape[j]
      /\ \A j \in 1..(i - 1) : Front(w)[j] = w[j]
  BY <1>1 DEF Front
<1>4. \A j \in 1..(i - 1) : w[j] = tape[j]
  BY <1>1 DEF Suffix
<1> QED BY <1>2, <1>3, <1>4 DEF Prices

(* A greater multiple of a square is not less than a smaller one.           *)
LEMMA SquaresGrow ==
  ASSUME NEW k \in Nat, NEW m \in Nat, k <= m, NEW n \in Nat, NEW x \in Nat
  PROVE  k * k * n * x <= m * m * n * x
<1>1. k * k <= m * k /\ m * k <= m * m /\ k * k \in Nat /\ m * m \in Nat /\ m * k \in Nat
  OBVIOUS
<1> DEFINE a == k * k  b == m * m
<1>2. a \in Nat /\ b \in Nat /\ a <= b
  BY <1>1
<1> HIDE DEF a, b
<1>3. a * n <= b * n /\ a * n \in Nat /\ b * n \in Nat
  BY <1>2
<1> DEFINE c == a * n  d == b * n
<1>4. c \in Nat /\ d \in Nat /\ c <= d
  BY <1>3
<1> HIDE DEF c, d
<1>5. c * x <= d * x
  BY <1>4
<1> QED BY <1>5 DEF a, b, c, d

(* What is far from the mean by one threshold is so by a lower one.         *)
LEMMA FarFromGrows ==
  ASSUME NEW ps \in Seq(Int), NEW p \in Int, NEW k \in Nat, NEW m \in Nat, k <= m,
         FarFrom(ps, p, m)
  PROVE  FarFrom(ps, p, k)
<1> DEFINE n == Len(ps)  total == Total(ps)
           squares == Total([i \in 1..n |-> ps[i] * ps[i]])
           spread == n * squares - total * total  d == n * p - total
           far == 100 * d * d * (n - 1)
<1>1. n \in Nat /\ [i \in 1..n |-> ps[i] * ps[i]] \in Seq(Int)
  OBVIOUS
<1>2. total \in Int /\ squares \in Int
  BY <1>1, TotalType
<1>3. spread > 0 /\ far >= m * m * n * spread
  BY DEF FarFrom
<1> HIDE DEF n, total, squares
<1>4. spread \in Nat /\ d \in Int
  BY <1>1, <1>2, <1>3
<1> HIDE DEF spread, d
<1>5. far \in Int
  BY <1>1, <1>4
<1>6. k * k * n * spread <= m * m * n * spread
  BY <1>1, <1>4, SquaresGrow
<1>7. k * k * n * spread \in Int /\ m * m * n * spread \in Int
  BY <1>1, <1>4
<1>8. far >= k * k * n * spread
  <2> DEFINE low == k * k * n * spread  high == m * m * n * spread
  <2>1. low \in Int /\ high \in Int /\ far \in Int /\ low <= high /\ far >= high
    BY <1>3, <1>5, <1>6, <1>7
  <2> HIDE DEF low, high, far
  <2>2. far >= low
    BY <2>1
  <2> QED BY <2>2 DEF low
<1> QED BY <1>3, <1>8 DEF FarFrom, n, total, squares, spread, d

(* On such tapes the job and the live engine agree as far as their numbers  *)
(* let them.                                                                *)
LEMMA TapesImplySql == TapesInv => SqlAgrees
<1> SUFFICES ASSUME TapesInv, NEW q \in Jobs, NEW s \in DOMAIN windows,
                    NEW i \in DOMAIN arrived[s]
             PROVE  LET tape == arrived[s]
                        w == FoldLeft(Add, << >>, SubSeq(tape, 1, i))
                        alone == \A j \in DOMAIN tape :
                                   SecondOf(tape[j]) = SecondOf(tape[i]) => j = i
                    IN  /\ /\ q.velocity <= Rules.velocity_max
                           /\ q.velocity_seconds * Second >= Rules.velocity_window
                           /\ Velocity(tape[i], w) # NoAlert
                           => SqlDetector(q, tape, i) # NoAlert
                        /\ Ready(w) /\ Len(w) = i /\ i <= q.lookback + 1 /\ alone =>
                             /\ /\ q.price_z <= Rules.price_threshold
                                /\ ZScore(tape[i], w) # NoAlert
                                => SqlDetector(q, tape, i) = "zscore"
                             /\ /\ q.price_z >= Rules.price_threshold
                                /\ SqlDetector(q, tape, i) = "zscore"
                                => ZScore(tape[i], w) # NoAlert
  BY Zenon DEF SqlAgrees
<1> DEFINE tape == arrived[s]  w == WindowOf(SubSeq(tape, 1, i))
<1>1. tape \in Seq(Simulated) /\ Ordered(tape) /\ i \in 1..Len(tape)
  BY DEF TapesInv, Tape
<1>2. w \in Seq(Simulated) /\ Suffix(w, tape, i)
  <2>1. i \in 0..Len(tape)
    BY <1>1
  <2> QED BY <1>1, <2>1, SimulatedAreTimed, WindowOfPrefix
<1>3. w = FoldLeft(Add, << >>, SubSeq(tape, 1, i))
  BY DEF WindowOf
<1> HIDE DEF w, tape
<1>4. ASSUME q.velocity <= Rules.velocity_max,
             q.velocity_seconds * Second >= Rules.velocity_window,
             Velocity(tape[i], w) # NoAlert
      PROVE  SqlDetector(q, tape, i) # NoAlert
  <2>1. IsVelocity(q, tape, i) => SqlDetector(q, tape, i) # NoAlert
    BY DEF SqlDetector, NoAlert
  <2> QED BY <1>1, <1>2, <1>4, <2>1, SimulatedAreTimed, VelocityAgrees
<1>5. ASSUME Ready(w), Len(w) = i, i <= q.lookback + 1
      PROVE  /\ q.price_z <= Rules.price_threshold /\ ZScore(tape[i], w) # NoAlert
                => SqlDetector(q, tape, i) = "zscore"
             /\ q.price_z >= Rules.price_threshold /\ SqlDetector(q, tape, i) = "zscore"
                => ZScore(tape[i], w) # NoAlert
  <2> DEFINE ps == Prices(Front(w))  p == tape[i].price
             k == q.price_z  m == Rules.price_threshold
  <2>1. ps = Prices(PriorRows(q, tape, i))
    BY <1>1, <1>2, <1>5, SamePrices
  <2>2. ZScore(tape[i], w) # NoAlert <=> FarFrom(ps, p, m)
    BY <1>5 DEF ZScore, Grade, NoAlert
  <2>3. SqlDetector(q, tape, i) = "zscore" <=> FarFrom(ps, p, k)
    BY <2>1 DEF SqlDetector, NoAlert, IsPrice
  <2>4. k \in Nat /\ m \in Nat
    BY SqlAssumption, RulesAssumption
  <2>5. ps \in Seq(Int) /\ p \in Int
    <3>1. /\ Len(w) \in Nat /\ i \in Nat /\ i >= 1
          /\ \A j \in 1..Len(w) : w[j].price \in Int
          /\ tape[i].price \in Int
      BY <1>1, <1>2, SimulatedFields DEF Whole
    <3>2. /\ Len(Front(w)) = i - 1
          /\ \A j \in 1..(i - 1) : Front(w)[j] = w[j]
      BY <1>5, <3>1 DEF Front
    <3>3. \A j \in 1..Len(Front(w)) : Front(w)[j].price \in Int
      BY <1>5, <3>1, <3>2
    <3> QED BY <3>1, <3>2, <3>3 DEF Prices
  <2> HIDE DEF ps, p, k, m
  <2>6. k <= m /\ FarFrom(ps, p, m) => FarFrom(ps, p, k)
    BY <2>4, <2>5, FarFromGrows
  <2>7. m <= k /\ FarFrom(ps, p, k) => FarFrom(ps, p, m)
    BY <2>4, <2>5, FarFromGrows
  <2>8. m <= k <=> k >= m
    BY <2>4
  <2>9. /\ k <= m /\ ZScore(tape[i], w) # NoAlert => SqlDetector(q, tape, i) = "zscore"
        /\ k >= m /\ SqlDetector(q, tape, i) = "zscore" => ZScore(tape[i], w) # NoAlert
    BY <2>2, <2>3, <2>6, <2>7, <2>8, Zenon
  <2> QED BY <2>9 DEF k, m
<1> QED BY <1>3, <1>4, <1>5, Zenon DEF tape

(* Whatever the ruleset and the numbers of the job, one that is no stricter *)
(* flags every burst the live velocity detector speaks of, and where both   *)
(* see the same trades the two z-scores differ only as their thresholds do  *)
(* (flag_anomalies(), detectors).                                           *)
THEOREM BacktestSqlAgrees == BacktestSpec => []SqlAgrees
BY TapesImplySql, TapesInvariant, PTL
-----------------------------------------------------------------------------
(* - - - the isolation forest - - - - - - - - - - - - - - - - - - - - - - - *)

(* buf holds the latest of n rows, TrainSize of them once there are so many.*)
Latest(buf, n) ==
  /\ buf \in Seq(Nat)
  /\ Len(buf) = IF n < TrainSize THEN n ELSE TrainSize
  /\ \A i \in 1..Len(buf) : buf[i] = n - Len(buf) + i

(* Beyond ModelIsFresh, the invariant says what is in the buffer, which the *)
(* next model is fitted on, and that sinceFit is the model's age in rows.   *)
Trained(s) ==
  /\ Latest(buffers[s], rows[s])
  /\ s \in DOMAIN models <=> rows[s] >= TrainSize
  /\ s \in DOMAIN models =>
       /\ sinceFit[s] < RetrainEvery
       /\ rows[s] - sinceFit[s] >= TrainSize
       /\ models[s] = [i \in 1..TrainSize |-> rows[s] - sinceFit[s] - TrainSize + i]

ForestInv ==
  /\ ForestTypeOK
  /\ \A s \in Symbols : Trained(s)
-----------------------------------------------------------------------------
(* One row more in a deque of at most TrainSize.                            *)
LEMMA BufferedIsLatest ==
  ASSUME NEW buf, NEW n \in Nat, Latest(buf, n)
  PROVE  Latest(Buffered(buf, n + 1), n + 1)
<1> USE ForestAssumption
<1>1. CASE Len(buf) < TrainSize
  <2>1. Buffered(buf, n + 1) = Append(buf, n + 1)
    BY <1>1 DEF Buffered
  <2>2. n < TrainSize /\ Len(buf) = n
    BY <1>1 DEF Latest
  <2> QED
    BY <2>1, <2>2 DEF Latest
<1>2. CASE ~(Len(buf) < TrainSize)
  <2>1. n >= TrainSize /\ Len(buf) = TrainSize /\ buf \in Seq(Nat)
    BY <1>2 DEF Latest
  <2>2. Buffered(buf, n + 1) = Append(Tail(buf), n + 1)
    BY <1>2 DEF Buffered
  <2>3. /\ Tail(buf) \in Seq(Nat) /\ Len(Tail(buf)) = TrainSize - 1
        /\ \A i \in 1..(TrainSize - 1) : Tail(buf)[i] = buf[i + 1]
    BY <2>1
  <2>4. \A i \in 1..(TrainSize - 1) : Tail(buf)[i] = n - TrainSize + (i + 1)
    BY <2>1, <2>3 DEF Latest
  <2>5. /\ Append(Tail(buf), n + 1) \in Seq(Nat)
        /\ Len(Append(Tail(buf), n + 1)) = TrainSize
        /\ \A i \in 1..(TrainSize - 1) : Append(Tail(buf), n + 1)[i] = Tail(buf)[i]
        /\ Append(Tail(buf), n + 1)[TrainSize] = n + 1
    BY <2>3
  <2>6. ASSUME NEW i \in 1..TrainSize
        PROVE  Append(Tail(buf), n + 1)[i] = (n + 1) - TrainSize + i
    <3>1. CASE i = TrainSize
      BY <3>1, <2>5
    <3>2. CASE i # TrainSize
      <4>1. i \in 1..(TrainSize - 1)
        BY <2>6, <3>2
      <4>2. Append(Tail(buf), n + 1)[i] = n - TrainSize + (i + 1)
        BY <4>1, <2>4, <2>5
      <4>3. n - TrainSize + (i + 1) = (n + 1) - TrainSize + i
        BY <2>6
      <4> QED BY <4>2, <4>3
    <3> QED BY <3>1, <3>2
  <2>7. TrainSize = IF n + 1 < TrainSize THEN n + 1 ELSE TrainSize
    BY <2>1
  <2> HIDE ForestAssumption
  <2> QED
    BY <2>2, <2>5, <2>6, <2>7 DEF Latest
<1> QED BY <1>1, <1>2

(* The latest n rows, one by one.                                           *)
LEMMA LatestAsFunction ==
  ASSUME NEW buf, NEW n \in Nat, Latest(buf, n), n >= TrainSize
  PROVE  buf = [i \in 1..TrainSize |-> n - TrainSize + i]
BY ForestAssumption DEF Latest

(* Nothing is learned while the detector sees no trade.                     *)
LEMMA ForestStutter == ForestInv /\ UNCHANGED forestVars => ForestInv'
BY DEF forestVars, ForestInv, ForestTypeOK, Trained, Latest

(* Each trade the detector sees keeps the invariant.                        *)
LEMMA LearnKeepsForestInv ==
  ASSUME ForestInv, NEW s \in Symbols, NEW t, t.symbol = s, Learn(t)
  PROVE  ForestInv'
<1> DEFINE row == rows[s] + 1
           buf == Buffered(buffers[s], row)
           fits == Fits(s, buf, sinceFit[s] + 1)
<1> USE ForestAssumption
<1>1. CASE UNCHANGED forestVars
  BY <1>1, ForestStutter
<1>2. CASE /\ buffers' = [buffers EXCEPT ![s] = buf]
           /\ sinceFit' = [sinceFit EXCEPT ![s] = IF fits THEN 0 ELSE @ + 1]
           /\ models' = IF ~fits THEN models
                        ELSE [z \in DOMAIN models \cup {s} |->
                                IF z = s THEN buf ELSE models[z]]
           /\ rows' = [rows EXCEPT ![s] = row]
  <2>1. /\ s \in Symbols /\ rows \in [Symbols -> Nat] /\ sinceFit \in [Symbols -> Nat]
        /\ buffers \in [Symbols -> Seq(Nat)] /\ DOMAIN models \subseteq Symbols
        /\ rows[s] \in Nat /\ sinceFit[s] \in Nat /\ Trained(s)
    BY DEF ForestInv, ForestTypeOK
  <2>2. Latest(buf, row)
    BY <2>1, BufferedIsLatest DEF Trained
  <2>3. buf \in Seq(Nat) /\ Len(buf) = IF row < TrainSize THEN row ELSE TrainSize
    BY <2>2 DEF Latest
  <2>4. /\ buffers'[s] = buf /\ rows'[s] = row
        /\ sinceFit'[s] = IF fits THEN 0 ELSE sinceFit[s] + 1
    BY <1>2, <2>1
  <2>5. fits <=> row >= TrainSize /\ (s \notin DOMAIN models \/ sinceFit[s] + 1 >= RetrainEvery)
    BY <2>1, <2>3 DEF Fits
  <2> HIDE DEF buf, fits
  <2>6. ForestTypeOK'
    <3>1. buffers' \in [Symbols -> Seq(Nat)] /\ rows' \in [Symbols -> Nat]
      BY <1>2, <2>1, <2>3
    <3>2. sinceFit' \in [Symbols -> Nat]
      BY <1>2, <2>1
    <3>3. DOMAIN models' \subseteq Symbols /\ \A z \in DOMAIN models' : models'[z] \in Seq(Nat)
      <4>1. CASE fits
        BY <4>1, <1>2, <2>1, <2>3 DEF ForestInv, ForestTypeOK
      <4>2. CASE ~fits
        BY <4>2, <1>2 DEF ForestInv, ForestTypeOK
      <4> QED BY <4>1, <4>2
    <3> QED BY <3>1, <3>2, <3>3 DEF ForestTypeOK
  <2>7. Trained(s)'
    <3>1. CASE fits
      <4>1. s \in DOMAIN models' /\ models'[s] = buf /\ sinceFit'[s] = 0 /\ row >= TrainSize
        BY <3>1, <1>2, <2>4, <2>5
      <4>2. buf = [i \in 1..TrainSize |-> row - TrainSize + i]
        <5>1. row \in Nat /\ row >= TrainSize
          BY <2>1, <4>1
        <5> HIDE DEF row
        <5> QED BY <2>2, <5>1, LatestAsFunction
      <4>3. [i \in 1..TrainSize |-> row - TrainSize + i]
              = [i \in 1..TrainSize |-> row - 0 - TrainSize + i]
        BY <2>1
      <4>4. 0 < RetrainEvery /\ row - 0 >= TrainSize
        BY <2>1, <4>1
      <4>5. Latest(buffers'[s], rows'[s])
        BY <2>2, <2>4
      <4> QED BY <2>4, <4>1, <4>2, <4>3, <4>4, <4>5 DEF Trained, Latest
    <3>2. CASE ~fits
      <4>1. models' = models /\ sinceFit'[s] = sinceFit[s] + 1
        BY <3>2, <1>2, <2>4
      <4>2. s \in DOMAIN models <=> row >= TrainSize
        BY <3>2, <2>1, <2>5 DEF Trained
      <4>3. ASSUME s \in DOMAIN models
            PROVE  /\ sinceFit[s] + 1 < RetrainEvery
                   /\ row - (sinceFit[s] + 1) >= TrainSize
                   /\ models[s] = [i \in 1..TrainSize |->
                                     row - (sinceFit[s] + 1) - TrainSize + i]
        <5>1. sinceFit[s] + 1 < RetrainEvery
          BY <3>2, <4>2, <4>3, <2>1, <2>5
        <5>2. row - (sinceFit[s] + 1) = rows[s] - sinceFit[s]
          BY <2>1
        <5> QED BY <2>1, <4>3, <5>1, <5>2 DEF Trained
      <4> QED BY <2>2, <2>4, <4>1, <4>2, <4>3 DEF Trained, Latest
    <3> QED BY <3>1, <3>2
  <2>8. ASSUME NEW z \in Symbols, z # s PROVE Trained(z)'
    <3>1. /\ buffers'[z] = buffers[z] /\ rows'[z] = rows[z] /\ sinceFit'[z] = sinceFit[z]
          /\ z \in DOMAIN models' <=> z \in DOMAIN models
          /\ z \in DOMAIN models => models'[z] = models[z]
      BY <1>2, <2>1, <2>8
    <3>2. Trained(z)
      BY DEF ForestInv
    <3> QED BY <3>1, <3>2 DEF Trained, Latest
  <2> QED BY <2>6, <2>7, <2>8 DEF ForestInv
<1>3. UNCHANGED forestVars \/
        /\ buffers' = [buffers EXCEPT ![s] = buf]
        /\ sinceFit' = [sinceFit EXCEPT ![s] = IF fits THEN 0 ELSE @ + 1]
        /\ models' = IF ~fits THEN models
                     ELSE [z \in DOMAIN models \cup {s} |->
                             IF z = s THEN buf ELSE models[z]]
        /\ rows' = [rows EXCEPT ![s] = row]
  BY DEF Learn
<1> QED BY <1>1, <1>2, <1>3

(* Nothing is learned at first.                                             *)
LEMMA ForestInitInv == ForestInit => ForestInv
<1> USE ForestAssumption
<1> SUFFICES ASSUME ForestInit PROVE ForestInv
  OBVIOUS
<1>1. DOMAIN models = {} /\ \A s \in Symbols : rows[s] = 0 /\ buffers[s] = << >>
  BY DEF ForestInit
<1>2. ForestTypeOK
  BY <1>1 DEF ForestInit, ForestTypeOK
<1>3. ASSUME NEW s \in Symbols PROVE Trained(s)
  <2>1. rows[s] = 0 /\ buffers[s] = << >> /\ s \notin DOMAIN models
    BY <1>1
  <2>2. Latest(<< >>, 0)
    BY DEF Latest
  <2> QED BY <2>1, <2>2 DEF Trained
<1> QED BY <1>2, <1>3 DEF ForestInv

(* Every step of every tape keeps the invariant.                            *)
LEMMA ForestInvIsInvariant == ForestSpec => []ForestInv
<1>1. ForestInv /\ [ForestNext]_<<storeVars, forestVars>> => ForestInv'
  BY StoreAssumption, LearnKeepsForestInv, ForestStutter DEF ForestNext
<1> QED BY <1>1, ForestInitInv, PTL DEF ForestSpec

(* What is learned so is never older than it may be.                        *)
LEMMA ForestInvImplies == ForestInv => ModelIsFresh
<1> SUFFICES ASSUME ForestInv, NEW s \in Symbols
             PROVE  IF rows[s] < TrainSize THEN s \notin DOMAIN models
                    ELSE /\ s \in DOMAIN models
                         /\ \E last \in TrainSize..rows[s] :
                              /\ rows[s] - last < RetrainEvery
                              /\ models[s] = [i \in 1..TrainSize |-> last - TrainSize + i]
  BY DEF ModelIsFresh
<1>1. Trained(s) /\ rows[s] \in Nat /\ sinceFit[s] \in Nat
  BY DEF ForestInv, ForestTypeOK
<1>2. CASE rows[s] < TrainSize
  BY <1>1, <1>2, ForestAssumption DEF Trained
<1>3. CASE rows[s] >= TrainSize
  <2> DEFINE last == rows[s] - sinceFit[s]
  <2>1. s \in DOMAIN models /\ models[s] = [i \in 1..TrainSize |-> last - TrainSize + i]
    BY <1>1, <1>3 DEF Trained
  <2>2. last \in TrainSize..rows[s] /\ rows[s] - last < RetrainEvery
    BY <1>1, <1>3, <2>1, ForestAssumption DEF Trained
  <2>3. ~(rows[s] < TrainSize)
    BY <1>1, <1>3, ForestAssumption
  <2> HIDE DEF last
  <2> QED BY <2>1, <2>2, <2>3
<1>4. rows[s] < TrainSize \/ rows[s] >= TrainSize
  BY <1>1, ForestAssumption
<1> QED BY <1>2, <1>3, <1>4

(* The detector's maps are of the types the code declares, on every feed.   *)
THEOREM ForestTypeCorrect == ForestSpec => []ForestTypeOK
<1>1. ForestInv => ForestTypeOK
  BY DEF ForestInv
<1> QED BY <1>1, ForestInvIsInvariant, PTL

(* On every feed the model in use was fitted on TrainSize consecutive rows  *)
(* of its own symbol, fewer than RetrainEvery rows ago (_maybe_fit).        *)
THEOREM ForestModelIsFresh == ForestSpec => []ModelIsFresh
BY ForestInvImplies, ForestInvIsInvariant, PTL

(* So it is in the evaluation, whose trades are the simulator's: the model  *)
(* that a trade is judged by there knows no later row (evaluate()).         *)
THEOREM BacktestModelIsFresh == BacktestSpec => []ModelIsFresh
<1>1. BacktestInit => SimTypeOK /\ ForestInv
  BY SimInitType, ForestInitInv DEF BacktestInit
<1>2. SimTypeOK /\ ForestInv /\ Replay => SimTypeOK' /\ ForestInv'
  <2> SUFFICES ASSUME SimTypeOK, ForestInv, Replay PROVE SimTypeOK' /\ ForestInv'
    OBVIOUS
  <2>1. PICK b \in Current : \E t \in Drawn(b) : Yields(b, t) /\ Learn(t)
    BY DEF Replay
  <2>2. PICK t \in Drawn(b) : Yields(b, t) /\ Learn(t)
    BY <2>1
  <2>3. t.symbol \in Symbols
    BY DrawnType, BacktestAssumption DEF Batch
  <2> QED BY <2>2, <2>3, YieldsType, LearnKeepsForestInv
<1>3. SimTypeOK /\ ForestInv /\ UNCHANGED backtestVars => SimTypeOK' /\ ForestInv'
  BY ForestStutter DEF backtestVars, simVars, SimTypeOK
<1>4. SimTypeOK /\ ForestInv /\ [Replay]_backtestVars => SimTypeOK' /\ ForestInv'
  BY <1>2, <1>3
<1> QED BY <1>1, <1>4, ForestInvImplies, PTL DEF BacktestSpec
-----------------------------------------------------------------------------
(* - - - the scoring - - - - - - - - - - - - - - - - - - - - - - - - - - - - *)

(* it is the fold that Score is defined by, over the first n records of q.  *)
ScoreFold(it, q, n) ==
  it = [s \in SUBSET (1..n) |->
          IF s = {} THEN NoScore
          ELSE ScoreRecord(it[s \ {Max(s)}], q[Max(s)])]

(* What Score comes to is such a fold's value at all the records.           *)
LEMMA ScoreIsFold ==
  ASSUME NEW q, NEW n, DOMAIN q = 1..n
  PROVE  Score(q) = (CHOOSE it : ScoreFold(it, q, n))[1..n]
BY DEF Score, FoldLeft, MapThenFoldSet, ScoreFold

(* There is such a fold.                                                    *)
LEMMA ScoreFoldExists ==
  ASSUME NEW q
  PROVE  \A n \in Nat : \E it : ScoreFold(it, q, n)
<1> DEFINE S == {n \in Nat : \E it : ScoreFold(it, q, n)}
<1>1. 0 \in S
  <2> DEFINE g == [s \in SUBSET (1..0) |-> NoScore]
  <2>1. ScoreFold(g, q, 0)
    BY DEF ScoreFold
  <2> QED BY <2>1
<1>2. ASSUME NEW n \in Nat, n \in S PROVE n + 1 \in S
  <2>1. PICK h : ScoreFold(h, q, n)
    BY <1>2
  <2> DEFINE last == [u \in SUBSET (1..n) |-> ScoreRecord(h[u], q[n + 1])]
             g == [u \in SUBSET (1..(n + 1)) |->
                     IF n + 1 \in u THEN last[u \ {n + 1}] ELSE h[u]]
  <2>2. ASSUME NEW s \in SUBSET (1..(n + 1)), s # {}
        PROVE  g[s] = ScoreRecord(g[s \ {Max(s)}], q[Max(s)])
    <3>0. Extends(g, h, last, n)
      BY DEF Extends
    <3> HIDE DEF last, g
    <3>1. Extended(g, h, last, n, s)
      BY <2>2, <3>0, FoldExtends
    <3>2. CASE n + 1 \in s
      BY <3>1, <3>2 DEF last, Extended
    <3>3. CASE n + 1 \notin s
      BY <2>1, <2>2, <3>1, <3>3 DEF ScoreFold, Extended
    <3> QED BY <3>2, <3>3
  <2>3. g[{}] = NoScore
    BY <2>1 DEF ScoreFold
  <2>4. g = [s \in SUBSET (1..(n + 1)) |-> g[s]]
    OBVIOUS
  <2> HIDE DEF g
  <2>5. ScoreFold(g, q, n + 1)
    BY <2>2, <2>3, <2>4 DEF ScoreFold
  <2> QED BY <2>5
<1> HIDE DEF S
<1>3. \A n \in Nat : n \in S
  BY <1>1, <1>2, AllNumbers
<1> QED BY <1>3 DEF S

(* Score reads the records from the left: one record more, one step more.   *)
LEMMA ScoreUnfolds ==
  ASSUME NEW R, NEW q \in Seq(R), NEW r \in R
  PROVE  /\ Score(<< >>) = NoScore
         /\ Score(Append(q, r)) = ScoreRecord(Score(q), r)
<1> DEFINE n == Len(q)  p == Append(q, r)
           g == CHOOSE it : ScoreFold(it, q, n)
           h == CHOOSE it : ScoreFold(it, p, n + 1)
           e == CHOOSE it : ScoreFold(it, << >>, 0)
<1>1. /\ n \in Nat /\ n + 1 \in Nat /\ 0 \in Nat /\ n + 1 \in 1..(n + 1)
      /\ DOMAIN q = 1..n /\ DOMAIN p = 1..(n + 1) /\ DOMAIN << >> = 1..0
      /\ p[n + 1] = r /\ \A i \in 1..n : p[i] = q[i]
  OBVIOUS
<1> HIDE DEF p, n
<1>2. ScoreFold(g, q, n) /\ ScoreFold(h, p, n + 1) /\ ScoreFold(e, << >>, 0)
  BY <1>1, ScoreFoldExists, Zenon
<1> HIDE DEF g, h, e
<1>3. Score(q) = g[1..n] /\ Score(p) = h[1..(n + 1)] /\ Score(<< >>) = e[1..0]
  BY <1>1, ScoreIsFold, Zenon DEF g, h, e
<1>4. g[{}] = NoScore /\ h[{}] = NoScore /\ e[{}] = NoScore
  BY <1>2 DEF ScoreFold
<1>5. ASSUME NEW k \in 1..n PROVE g[1..k] = ScoreRecord(g[1..(k - 1)], q[k])
  <2>1. /\ 1..k \in SUBSET (1..n) /\ 1..k # {}
        /\ Max(1..k) = k /\ (1..k) \ {Max(1..k)} = 1..(k - 1)
    BY <1>1, FirstOf, Zenon
  <2>2. g[1..k] = ScoreRecord(g[(1..k) \ {Max(1..k)}], q[Max(1..k)])
    BY <1>2, <2>1 DEF ScoreFold
  <2> QED BY <2>1, <2>2, Zenon
<1>6. ASSUME NEW k \in 1..(n + 1) PROVE h[1..k] = ScoreRecord(h[1..(k - 1)], p[k])
  <2>1. /\ 1..k \in SUBSET (1..(n + 1)) /\ 1..k # {}
        /\ Max(1..k) = k /\ (1..k) \ {Max(1..k)} = 1..(k - 1)
    BY <1>1, FirstOf, Zenon
  <2>2. h[1..k] = ScoreRecord(h[(1..k) \ {Max(1..k)}], p[Max(1..k)])
    BY <1>2, <2>1 DEF ScoreFold
  <2> QED BY <2>1, <2>2, Zenon
<1>7. g[1..n] = h[1..n]
  <2>1. \A k \in 1..n : g[1..(k - 1)] = h[1..(k - 1)] => g[1..k] = h[1..k]
    BY <1>1, <1>5, <1>6
  <2>2. g[{}] = h[{}]
    BY <1>4
  <2>3. Alike(g, h, n)
    BY <2>1, <2>2 DEF Alike
  <2> QED BY <1>1, <2>3, FoldsAgree
<1>8. h[1..(n + 1)] = ScoreRecord(h[1..n], r)
  BY <1>1, <1>6
<1>9. 1..0 = {}
  OBVIOUS
<1> QED BY <1>1, <1>3, <1>4, <1>7, <1>8, <1>9 DEF p

(* The types of a record, of an episode and of the score.                   *)
Record == [label : Labels, flagged : BOOLEAN]
Episode == [label : Labels, symbol : Market, first : Nat, last : Nat, left : Nat,
            flagged : BOOLEAN, caught : BOOLEAN, alone : BOOLEAN, joined : BOOLEAN]
PerLabel == UNION {[L -> Nat \X Nat] : L \in SUBSET Labels}
ScoreType == [events : Nat, detected : Nat, false_alarms : Nat, normal : Nat,
              normal_flagged : Nat, per_label : PerLabel,
              run : Labels \cup {NoLabel}, any_flag : BOOLEAN]

(* The episodes E an event of the report begins with, those of them that    *)
(* are flagged or joined by a flagged one, and those of S with a label.     *)
HeadsOf(E) == {i \in 1..Len(E) : ~E[i].joined}
Reached(E, i) == \E j \in i..Len(E) :
                   E[j].flagged /\ \A k \in (i + 1)..j : E[k].joined
HitsOf(E) == {i \in HeadsOf(E) : Reached(E, i)}
Those(E, S, l) == {i \in S : E[i].label = l}
Tally(E) ==
  [l \in {E[i].label : i \in HeadsOf(E)} |->
     <<Cardinality(Those(E, HitsOf(E), l)), Cardinality(Those(E, HeadsOf(E), l))>>]

(* The normal trades among the records R, those flagged, and those a run of *)
(* flagged ones begins with.                                                *)
NormalOf(R) == {i \in 1..Len(R) : R[i].label = NoLabel}
AlarmsOf(R) == {i \in NormalOf(R) : R[i].flagged}
RunsOf(R) == {i \in AlarmsOf(R) : i - 1 \notin AlarmsOf(R)}

(* h begins the event that the last episode belongs to.                     *)
LastHead(E, h) == h \in HeadsOf(E) /\ \A k \in (h + 1)..Len(E) : E[k].joined

(* What z says of the normal trades, of the episodes, and of the one being  *)
(* read.                                                                    *)
CountsNormal(z, R) ==
  /\ z.normal = Cardinality(NormalOf(R))
  /\ z.normal_flagged = Cardinality(AlarmsOf(R))
  /\ z.false_alarms = Cardinality(RunsOf(R))
CountsEpisodes(z, E) ==
  /\ z.events = Cardinality(HeadsOf(E))
  /\ z.detected = Cardinality(HitsOf(E))
  /\ z.per_label = Tally(E)
Reading(z, R, E) ==
  IF R = << >> \/ R[Len(R)].label = NoLabel
  THEN z.run = NoLabel /\ (z.any_flag <=> R # << >> /\ R[Len(R)].flagged)
  ELSE /\ z.run = R[Len(R)].label
       /\ \E h : /\ LastHead(E, h) /\ E[h].label = z.run
                 /\ z.any_flag <=> Reached(E, h)
ScoreAgrees(z, R, E) ==
  z \in ScoreType /\ CountsNormal(z, R) /\ CountsEpisodes(z, E) /\ Reading(z, R, E)

(* What a record more makes of a score, field by field.                     *)
LEMMA RecordFields ==
  ASSUME NEW z \in ScoreType, NEW r \in Record
  PROVE  LET y == ScoreRecord(z, r)
             same == r.label = z.run
             fresh == r.flagged /\ ~(same /\ z.any_flag)
         IN  IF r.label = NoLabel
             THEN /\ y.normal = z.normal + 1
                  /\ y.normal_flagged = z.normal_flagged + One(r.flagged)
                  /\ y.false_alarms = z.false_alarms + One(fresh)
                  /\ y.run = NoLabel /\ y.any_flag = r.flagged
                  /\ y.events = z.events /\ y.detected = z.detected
                  /\ y.per_label = z.per_label
             ELSE /\ y.events = z.events + One(~same)
                  /\ y.detected = z.detected + One(fresh)
                  /\ y.per_label = Tallied(z.per_label, r.label, One(~same), One(fresh))
                  /\ y.run = r.label
                  /\ y.any_flag = (r.flagged \/ (same /\ z.any_flag))
                  /\ y.normal = z.normal /\ y.normal_flagged = z.normal_flagged
                  /\ y.false_alarms = z.false_alarms
<1>1. DOMAIN z = {"events", "detected", "false_alarms", "normal", "normal_flagged",
                  "per_label", "run", "any_flag"}
  BY DEF ScoreType
<1> QED BY <1>1 DEF ScoreRecord

(* The tallies of the labels stay tallies.                                  *)
LEMMA TalliedType ==
  ASSUME NEW per \in PerLabel, NEW l \in Labels, NEW n \in Nat, NEW k \in Nat
  PROVE  Tallied(per, l, n, k) \in PerLabel
<1>1. PICK L \in SUBSET Labels : per \in [L -> Nat \X Nat]
  BY DEF PerLabel
<1>2. \A x \in L : /\ per[x] \in Nat \X Nat
                   /\ per[x][1] \in Nat /\ per[x][2] \in Nat
  BY <1>1
<1>3. Tallied(per, l, n, k) \in [L \cup {l} -> Nat \X Nat]
  <2> DEFINE old(x) == IF x \in L THEN per[x] ELSE <<0, 0>>
             new(x) == IF x = l THEN <<old(x)[1] + k, old(x)[2] + n>> ELSE old(x)
  <2>1. \A x \in L \cup {l} : old(x) \in Nat \X Nat /\ old(x)[1] \in Nat /\ old(x)[2] \in Nat
    BY <1>2
  <2>2. DOMAIN per = L
    BY <1>1
  <2>3. Tallied(per, l, n, k) = [x \in L \cup {l} |-> new(x)]
    BY <2>2 DEF Tallied
  <2> HIDE DEF old
  <2>4. \A x \in L \cup {l} : new(x) \in Nat \X Nat
    BY <2>1
  <2> HIDE DEF new
  <2> QED BY <2>3, <2>4
<1> QED BY <1>3 DEF PerLabel

(* A record more leaves a score a score.                                    *)
LEMMA ScoreRecordType ==
  ASSUME NEW z \in ScoreType, NEW r \in Record
  PROVE  ScoreRecord(z, r) \in ScoreType
<1>1. /\ z.events \in Nat /\ z.detected \in Nat /\ z.false_alarms \in Nat
      /\ z.normal \in Nat /\ z.normal_flagged \in Nat /\ z.per_label \in PerLabel
      /\ z.run \in Labels \cup {NoLabel} /\ z.any_flag \in BOOLEAN
      /\ r.label \in Labels /\ r.flagged \in BOOLEAN
  BY DEF ScoreType, Record
<1> DEFINE same == r.label = z.run  fresh == r.flagged /\ ~(same /\ z.any_flag)
           per == Tallied(z.per_label, r.label, One(~same), One(fresh))
<1>2. /\ One(~same) \in Nat /\ One(fresh) \in Nat /\ One(r.flagged) \in Nat
      /\ fresh \in BOOLEAN /\ (r.flagged \/ (same /\ z.any_flag)) \in BOOLEAN
  BY <1>1 DEF One
<1>3. per \in PerLabel
  BY <1>1, <1>2, TalliedType
<1> DEFINE y == ScoreRecord(z, r)
<1>4. y = [events |-> y.events, detected |-> y.detected, false_alarms |-> y.false_alarms,
           normal |-> y.normal, normal_flagged |-> y.normal_flagged,
           per_label |-> y.per_label, run |-> y.run, any_flag |-> y.any_flag]
  <2>1. z = [events |-> z.events, detected |-> z.detected, false_alarms |-> z.false_alarms,
             normal |-> z.normal, normal_flagged |-> z.normal_flagged,
             per_label |-> z.per_label, run |-> z.run, any_flag |-> z.any_flag]
    BY DEF ScoreType
  <2> HIDE DEF same, fresh
  <2> QED BY <2>1 DEF ScoreRecord
<1>5. IF r.label = NoLabel
      THEN /\ y.normal = z.normal + 1
           /\ y.normal_flagged = z.normal_flagged + One(r.flagged)
           /\ y.false_alarms = z.false_alarms + One(fresh)
           /\ y.run = NoLabel /\ y.any_flag = r.flagged
           /\ y.events = z.events /\ y.detected = z.detected
           /\ y.per_label = z.per_label
      ELSE /\ y.events = z.events + One(~same)
           /\ y.detected = z.detected + One(fresh)
           /\ y.per_label = per /\ y.run = r.label
           /\ y.any_flag = (r.flagged \/ (same /\ z.any_flag))
           /\ y.normal = z.normal /\ y.normal_flagged = z.normal_flagged
           /\ y.false_alarms = z.false_alarms
  BY RecordFields
<1> HIDE DEF y, fresh, same, per
<1>6. /\ y.events \in Nat /\ y.detected \in Nat /\ y.false_alarms \in Nat
      /\ y.normal \in Nat /\ y.normal_flagged \in Nat /\ y.per_label \in PerLabel
      /\ y.run \in Labels \cup {NoLabel}
  BY <1>1, <1>2, <1>3, <1>5
<1>7. y.any_flag \in BOOLEAN
  BY <1>1, <1>2, <1>5
<1>8. y \in ScoreType
  BY <1>4, <1>6, <1>7 DEF ScoreType
<1> QED BY <1>8 DEF y
-----------------------------------------------------------------------------
(* The normal trades, alarms and runs of one record more, r being a normal  *)
(* trade just if a is so.                                                   *)
LEMMA NormalSets ==
  ASSUME NEW R \in Seq(Record), NEW r \in Record
  PROVE  LET n == Len(R)  p == Append(R, r)
             alarm == r.label = NoLabel /\ r.flagged
             fresh == alarm /\ n \notin AlarmsOf(R)
         IN  /\ NormalOf(p) = IF r.label = NoLabel THEN NormalOf(R) \cup {n + 1}
                              ELSE NormalOf(R)
             /\ AlarmsOf(p) = IF alarm THEN AlarmsOf(R) \cup {n + 1} ELSE AlarmsOf(R)
             /\ RunsOf(p) = IF fresh THEN RunsOf(R) \cup {n + 1} ELSE RunsOf(R)
             /\ NormalOf(R) \in SUBSET (1..n) /\ AlarmsOf(R) \in SUBSET (1..n)
             /\ RunsOf(R) \in SUBSET (1..n) /\ n \in Nat
<1> DEFINE n == Len(R)  p == Append(R, r)
           alarm == r.label = NoLabel /\ r.flagged
           fresh == alarm /\ n \notin AlarmsOf(R)
<1>1. /\ n \in Nat /\ Len(p) = n + 1 /\ p[n + 1] = r
      /\ \A i \in 1..n : p[i] = R[i]
  OBVIOUS
<1> HIDE DEF p
<1>2. 1..(n + 1) = (1..n) \cup {n + 1} /\ n + 1 \notin 1..n
  BY <1>1
<1>3. NormalOf(p) = IF r.label = NoLabel THEN NormalOf(R) \cup {n + 1} ELSE NormalOf(R)
  BY <1>1, <1>2 DEF NormalOf
<1>4. NormalOf(R) \in SUBSET (1..n) /\ AlarmsOf(R) \in SUBSET (1..n)
      /\ RunsOf(R) \in SUBSET (1..n)
  BY DEF NormalOf, AlarmsOf, RunsOf
<1>5. AlarmsOf(p) = IF alarm THEN AlarmsOf(R) \cup {n + 1} ELSE AlarmsOf(R)
  <2>1. \A i \in NormalOf(R) : p[i] = R[i]
    BY <1>1, <1>4
  <2> HIDE DEF n
  <2> QED BY <1>1, <1>2, <1>3, <1>4, <2>1 DEF AlarmsOf
<1> HIDE DEF alarm
<1>6. RunsOf(p) = IF fresh THEN RunsOf(R) \cup {n + 1} ELSE RunsOf(R)
  <2>1. \A i \in 1..n : i - 1 \in AlarmsOf(p) <=> i - 1 \in AlarmsOf(R)
    BY <1>1, <1>4, <1>5
  <2>2. (n + 1) - 1 = n /\ (n \in AlarmsOf(p) <=> n \in AlarmsOf(R))
    BY <1>1, <1>4, <1>5
  <2> HIDE DEF n
  <2> QED BY <1>1, <1>2, <1>4, <1>5, <2>1, <2>2 DEF RunsOf
<1> QED BY <1>1, <1>3, <1>4, <1>5, <1>6 DEF p, alarm

(* What is being read tells a fresh alarm from one of a run.                *)
LEMMA AlarmIsFresh ==
  ASSUME NEW R \in Seq(Record), NEW r \in Record, r.label = NoLabel,
         NEW z \in ScoreType, NEW E, Reading(z, R, E)
  PROVE  (r.label = z.run /\ z.any_flag) <=> Len(R) \in AlarmsOf(R)
<1>1. Len(R) \in Nat /\ (R = << >> <=> Len(R) = 0)
  OBVIOUS
<1>2. Len(R) \in AlarmsOf(R) <=>
        R # << >> /\ R[Len(R)].label = NoLabel /\ R[Len(R)].flagged
  BY <1>1 DEF AlarmsOf, NormalOf
<1>3. z.any_flag \in BOOLEAN
  BY DEF ScoreType
<1>4. CASE R = << >> \/ R[Len(R)].label = NoLabel
  <2>1. z.run = NoLabel /\ (z.any_flag <=> R # << >> /\ R[Len(R)].flagged)
    BY <1>4 DEF Reading
  <2> QED BY <1>2, <1>4, <2>1
<1>5. CASE ~(R = << >> \/ R[Len(R)].label = NoLabel)
  <2>1. z.run = R[Len(R)].label
    BY <1>5 DEF Reading
  <2> QED BY <1>2, <1>5, <2>1
<1> QED BY <1>4, <1>5

(* A normal trade more.                                                     *)
LEMMA NormalAgrees ==
  ASSUME NEW R \in Seq(Record), NEW r \in Record, r.label = NoLabel,
         NEW z, NEW E, ScoreAgrees(z, R, E)
  PROVE  ScoreAgrees(ScoreRecord(z, r), Append(R, r), E)
<1> DEFINE y == ScoreRecord(z, r)  p == Append(R, r)  n == Len(R)
           fresh == r.flagged /\ ~(r.label = z.run /\ z.any_flag)
<1>1. /\ z \in ScoreType /\ CountsNormal(z, R) /\ CountsEpisodes(z, E) /\ Reading(z, R, E)
      /\ y \in ScoreType /\ r.flagged \in BOOLEAN
  BY ScoreRecordType DEF ScoreAgrees, Record
<1>2. /\ y.normal = z.normal + 1
      /\ y.normal_flagged = z.normal_flagged + One(r.flagged)
      /\ y.false_alarms = z.false_alarms + One(fresh)
      /\ y.run = NoLabel /\ y.any_flag = r.flagged
      /\ y.events = z.events /\ y.detected = z.detected
      /\ y.per_label = z.per_label
  BY <1>1, RecordFields
<1>3. fresh <=> r.flagged /\ n \notin AlarmsOf(R)
  BY <1>1, AlarmIsFresh
<1>4. /\ NormalOf(p) = NormalOf(R) \cup {n + 1}
      /\ AlarmsOf(p) = IF r.flagged THEN AlarmsOf(R) \cup {n + 1} ELSE AlarmsOf(R)
      /\ RunsOf(p) = IF fresh THEN RunsOf(R) \cup {n + 1} ELSE RunsOf(R)
      /\ NormalOf(R) \in SUBSET (1..n) /\ AlarmsOf(R) \in SUBSET (1..n)
      /\ RunsOf(R) \in SUBSET (1..n) /\ n \in Nat
  BY <1>3, NormalSets
<1>5. /\ n + 1 \notin NormalOf(R) /\ n + 1 \notin AlarmsOf(R) /\ n + 1 \notin RunsOf(R)
      /\ fresh \in BOOLEAN
  BY <1>1, <1>4
<1>6. Len(p) = n + 1 /\ p[n + 1] = r /\ p # << >>
  OBVIOUS
<1> HIDE DEF y, p, n, fresh
<1>7. Cardinality(NormalOf(p)) = Cardinality(NormalOf(R)) + 1
  BY <1>4, <1>5, Positions, FS_AddElement
<1>8. Cardinality(AlarmsOf(p)) = Cardinality(AlarmsOf(R)) + One(r.flagged)
  <2>1. /\ n \in Nat /\ AlarmsOf(R) \in SUBSET (1..n) /\ r.flagged \in BOOLEAN
        /\ r.flagged => n + 1 \notin AlarmsOf(R)
    BY <1>1, <1>4, <1>5, Zenon
  <2>2. Cardinality(IF r.flagged THEN AlarmsOf(R) \cup {n + 1} ELSE AlarmsOf(R))
          = Cardinality(AlarmsOf(R)) + One(r.flagged)
    BY <2>1, OneMore, Zenon
  <2> QED BY <1>4, <2>2, Zenon
<1>9. Cardinality(RunsOf(p)) = Cardinality(RunsOf(R)) + One(fresh)
  <2>1. /\ n \in Nat /\ RunsOf(R) \in SUBSET (1..n) /\ fresh \in BOOLEAN
        /\ fresh => n + 1 \notin RunsOf(R)
    BY <1>4, <1>5, Zenon
  <2>2. Cardinality(IF fresh THEN RunsOf(R) \cup {n + 1} ELSE RunsOf(R))
          = Cardinality(RunsOf(R)) + One(fresh)
    BY <2>1, OneMore, Zenon
  <2> QED BY <1>4, <2>2, Zenon
<1>10. CountsNormal(y, p)
  BY <1>1, <1>2, <1>7, <1>8, <1>9 DEF CountsNormal
<1>11. CountsEpisodes(y, E)
  BY <1>1, <1>2 DEF CountsEpisodes
<1>12. Reading(y, p, E)
  BY <1>1, <1>2, <1>6 DEF Reading
<1>13. ScoreAgrees(y, p, E)
  BY <1>1, <1>10, <1>11, <1>12 DEF ScoreAgrees
<1> QED BY <1>13 DEF y, p

(* An injected trade is none of the normal ones.                            *)
LEMMA InjectedCounts ==
  ASSUME NEW R \in Seq(Record), NEW r \in Record, r.label # NoLabel,
         NEW z \in ScoreType, CountsNormal(z, R)
  PROVE  CountsNormal(ScoreRecord(z, r), Append(R, r))
<1> DEFINE y == ScoreRecord(z, r)  p == Append(R, r)
<1>1. /\ y.normal = z.normal /\ y.normal_flagged = z.normal_flagged
      /\ y.false_alarms = z.false_alarms
  BY RecordFields
<1>2. NormalOf(p) = NormalOf(R) /\ AlarmsOf(p) = AlarmsOf(R) /\ RunsOf(p) = RunsOf(R)
  BY NormalSets
<1> QED BY <1>1, <1>2 DEF CountsNormal

-----------------------------------------------------------------------------
(* From the episodes E to F: one head more if a, one hit more if b, and it  *)
(* is x, which has label l; the heads keep their labels.                    *)
Grown(S, T, b, x) == T = (IF b THEN S \cup {x} ELSE S) /\ (b => x \notin S)
Labelled(E, F, S) == \A i \in S : F[i].label = E[i].label
Steps(E, F, a, b, x, l) ==
  /\ Grown(HeadsOf(E), HeadsOf(F), a, x)
  /\ Grown(HitsOf(E), HitsOf(F), b, x)
  /\ x \in HeadsOf(F) /\ F[x].label = l
  /\ Labelled(E, F, HeadsOf(E))

(* What that makes of the counts of the report.                             *)
Counted(E, F, a, b, l) ==
  /\ Cardinality(HeadsOf(F)) = Cardinality(HeadsOf(E)) + One(a)
  /\ Cardinality(HitsOf(F)) = Cardinality(HitsOf(E)) + One(b)
  /\ Tally(F) = Tallied(Tally(E), l, One(a), One(b))

(* And of one of the sets, seen label by label.                             *)
Gained(E, F, S, T, b, l, m) ==
  Cardinality(Those(F, T, m)) = Cardinality(Those(E, S, m)) + One(b /\ m = l)

(* One more of a set of positions is one more of its label.                 *)
LEMMA ThoseGrow ==
  ASSUME NEW n \in Nat, NEW S \in SUBSET (1..n), NEW T, NEW b \in BOOLEAN, NEW x,
         NEW E, NEW F, NEW l, NEW m, Grown(S, T, b, x), F[x].label = l,
         Labelled(E, F, S)
  PROVE  Gained(E, F, S, T, b, l, m)
<1> DEFINE c == b /\ m = l  U == Those(E, S, m)
<1>1. c \in BOOLEAN /\ U \in SUBSET (1..n) /\ (c => x \notin U)
  BY DEF Those, Grown
<1>2. Those(F, T, m) = IF c THEN U \cup {x} ELSE U
  BY DEF Those, Grown, Labelled
<1> HIDE DEF c, U
<1>3. Cardinality(Those(F, T, m)) = Cardinality(U) + One(c)
  BY <1>1, <1>2, OneMore
<1> QED BY <1>3 DEF c, U, Gained

(* A step of the episodes is one of the counts, and of the tallies.         *)
LEMMA TallySteps ==
  ASSUME NEW E \in Seq(Episode), NEW F, NEW a \in BOOLEAN, NEW b \in BOOLEAN,
         NEW x, NEW l, Steps(E, F, a, b, x, l)
  PROVE  Counted(E, F, a, b, l)
<1> DEFINE n == Len(E)  H == HeadsOf(E)  K == HitsOf(E)
           HF == HeadsOf(F)  KF == HitsOf(F)
           D == {E[i].label : i \in H}
<1>1. n \in Nat /\ H \in SUBSET (1..n) /\ K \in SUBSET (1..n) /\ K \subseteq H
  BY DEF HeadsOf, HitsOf
<1>2. /\ Grown(H, HF, a, x) /\ Grown(K, KF, b, x)
      /\ x \in HF /\ F[x].label = l /\ Labelled(E, F, H) /\ Labelled(E, F, K)
  BY <1>1 DEF Steps, Labelled
<1>3. Cardinality(HF) = Cardinality(H) + One(a)
  <2>1. n \in Nat /\ H \in SUBSET (1..n)
    BY <1>1
  <2>2. HF = (IF a THEN H \cup {x} ELSE H) /\ (a => x \notin H)
    BY <1>2, Zenon DEF Grown
  <2>3. Cardinality(IF a THEN H \cup {x} ELSE H) = Cardinality(H) + One(a)
    <3> HIDE DEF n, H, HF
    <3> QED BY <2>1, <2>2, OneMore, Zenon
  <2> QED BY <2>2, <2>3, Zenon
<1>4. Cardinality(KF) = Cardinality(K) + One(b)
  <2>1. n \in Nat /\ K \in SUBSET (1..n)
    BY <1>1
  <2>2. KF = (IF b THEN K \cup {x} ELSE K) /\ (b => x \notin K)
    BY <1>2, Zenon DEF Grown
  <2>3. Cardinality(IF b THEN K \cup {x} ELSE K) = Cardinality(K) + One(b)
    <3> HIDE DEF n, K, KF
    <3> QED BY <2>1, <2>2, OneMore, Zenon
  <2> QED BY <2>2, <2>3, Zenon
<1>5. {F[i].label : i \in HF} = D \cup {l}
  BY <1>2 DEF Grown, Labelled
<1> DEFINE hits(m) == Cardinality(Those(E, K, m))
           heads(m) == Cardinality(Those(E, H, m))
           old(m) == IF m \in D THEN <<hits(m), heads(m)>> ELSE <<0, 0>>
<1>6. Tally(F) = [m \in D \cup {l} |->
                    <<Cardinality(Those(F, KF, m)), Cardinality(Those(F, HF, m))>>]
  BY <1>5 DEF Tally
<1>7. Tally(E) = [m \in D |-> <<hits(m), heads(m)>>]
  BY DEF Tally
<1>8. ASSUME NEW m \in D \cup {l}
      PROVE  /\ old(m) = <<hits(m), heads(m)>>
             /\ hits(m) \in Nat /\ heads(m) \in Nat
  <2>1. Those(E, K, m) \in SUBSET (1..n) /\ Those(E, H, m) \in SUBSET (1..n)
    BY <1>1 DEF Those
  <2>2. m \notin D => Those(E, K, m) = {} /\ Those(E, H, m) = {}
    BY <1>1 DEF Those
  <2>3. hits(m) \in Nat /\ heads(m) \in Nat
    BY <1>1, <2>1, Positions
  <2> QED BY <2>2, <2>3, FS_EmptySet
<1>9. ASSUME NEW m \in D \cup {l}
      PROVE  /\ Cardinality(Those(F, KF, m)) = hits(m) + One(b /\ m = l)
             /\ Cardinality(Those(F, HF, m)) = heads(m) + One(a /\ m = l)
  <2> HIDE DEF n, H, K, HF, KF, D
  <2>1. Gained(E, F, K, KF, b, l, m)
    BY <1>1, <1>2, ThoseGrow
  <2>2. Gained(E, F, H, HF, a, l, m)
    BY <1>1, <1>2, ThoseGrow
  <2> QED BY <2>1, <2>2 DEF Gained
<1>10. Tallied(Tally(E), l, One(a), One(b)) =
         [m \in D \cup {l} |->
            IF m = l THEN <<old(m)[1] + One(b), old(m)[2] + One(a)>> ELSE old(m)]
  <2> HIDE DEF D, hits, heads
  <2>1. DOMAIN Tally(E) = D /\ \A m \in D : Tally(E)[m] = <<hits(m), heads(m)>>
    BY <1>7
  <2> QED BY <2>1 DEF Tallied
<1> HIDE DEF D, H, K, HF, KF, hits, heads, old
<1>11. ASSUME NEW m \in D \cup {l}
       PROVE  <<Cardinality(Those(F, KF, m)), Cardinality(Those(F, HF, m))>> =
              IF m = l THEN <<old(m)[1] + One(b), old(m)[2] + One(a)>> ELSE old(m)
  <2>1. CASE m = l
    <3>1. One(b /\ m = l) = One(b) /\ One(a /\ m = l) = One(a)
      BY <2>1
    <3> QED BY <1>8, <1>9, <2>1, <3>1
  <2>2. CASE m # l
    <3>1. One(b /\ m = l) = 0 /\ One(a /\ m = l) = 0
      BY <2>2 DEF One
    <3> QED BY <1>8, <1>9, <2>2, <3>1
  <2> QED BY <2>1, <2>2
<1>12. Tally(F) = Tallied(Tally(E), l, One(a), One(b))
  BY <1>6, <1>10, <1>11
<1> QED BY <1>3, <1>4, <1>12 DEF Counted, H, K, HF, KF

(* The last event goes on in F, f being whether its trade was flagged: the  *)
(* last episode has it, or there is one more, that is joined to the last.   *)
Prolonged(E, F, f) ==
  /\ Len(F) \in Nat /\ Len(F) >= Len(E)
  /\ \A i \in 1..Len(E) : F[i].label = E[i].label /\ F[i].joined = E[i].joined
  /\ \A i \in (Len(E) + 1)..Len(F) : F[i].joined
  /\ \A i \in 1..Len(F) : F[i].flagged <=>
       (i \in 1..Len(E) /\ E[i].flagged) \/ (f /\ i = Len(F))

(* The heads stay, and only the last one may be newly hit.                  *)
LEMMA Prolongs ==
  ASSUME NEW E \in Seq(Episode), NEW F, NEW f \in BOOLEAN, NEW h,
         LastHead(E, h), Prolonged(E, F, f)
  PROVE  /\ Steps(E, F, FALSE, f /\ ~Reached(E, h), h, E[h].label)
         /\ LastHead(F, h)
         /\ Reached(F, h) <=> f \/ Reached(E, h)
<1> DEFINE n == Len(E)  m == Len(F)
<1>1. /\ n \in Nat /\ m \in Nat /\ m >= n /\ h \in 1..n /\ h \in HeadsOf(E)
      /\ ~E[h].joined /\ \A k \in (h + 1)..n : E[k].joined
  BY DEF LastHead, HeadsOf, Prolonged
<1>2. /\ \A i \in 1..n : F[i].label = E[i].label /\ F[i].joined = E[i].joined
      /\ \A i \in (n + 1)..m : F[i].joined
      /\ \A i \in 1..m : F[i].flagged <=>
           (i \in 1..n /\ E[i].flagged) \/ (f /\ i = m)
  BY DEF Prolonged
<1>3. HeadsOf(F) = {i \in 1..m : ~F[i].joined} /\ HeadsOf(E) = {i \in 1..n : ~E[i].joined}
  BY DEF HeadsOf
<1> HIDE DEF n, m
<1>4. HeadsOf(F) = HeadsOf(E)
  BY <1>1, <1>2, <1>3
<1>5. \A k \in (h + 1)..m : F[k].joined
  BY <1>1, <1>2
<1>6. LastHead(F, h)
  BY <1>1, <1>4, <1>5 DEF LastHead, m
<1>7. Reached(F, h) <=> f \/ Reached(E, h)
  <2>1. ASSUME f PROVE Reached(F, h)
    <3>1. m \in h..m /\ F[m].flagged
      BY <1>1, <1>2, <2>1
    <3> QED BY <1>5, <3>1 DEF Reached, m
  <2>2. ASSUME Reached(E, h) PROVE Reached(F, h)
    <3>1. PICK j \in h..n : E[j].flagged /\ \A k \in (h + 1)..j : E[k].joined
      BY <2>2 DEF Reached, n
    <3>2. j \in h..m /\ j \in 1..n /\ j \in 1..m
      BY <1>1, <3>1
    <3>3. F[j].flagged
      BY <1>2, <3>1, <3>2
    <3>4. \A k \in (h + 1)..j : F[k].joined
      BY <1>1, <1>5, <3>2
    <3> QED BY <3>2, <3>3, <3>4 DEF Reached, m
  <2>3. ASSUME Reached(F, h), ~f PROVE Reached(E, h)
    <3>1. PICK j \in h..m : F[j].flagged
      BY <2>3 DEF Reached, m
    <3>2. j \in 1..m
      BY <1>1, <3>1
    <3>3. j \in 1..n /\ E[j].flagged
      BY <1>2, <2>3, <3>1, <3>2
    <3>4. j \in h..n /\ \A k \in (h + 1)..j : E[k].joined
      BY <1>1, <3>1, <3>3
    <3> QED BY <3>3, <3>4 DEF Reached, n
  <2> QED BY <2>1, <2>2, <2>3
<1>8. ASSUME NEW i \in HeadsOf(E), i # h PROVE Reached(F, i) <=> Reached(E, i)
  <2>1. i \in 1..n /\ i < h
    BY <1>1, <1>3, <1>8
  <2>2. ASSUME Reached(E, i) PROVE Reached(F, i)
    <3>1. PICK j \in i..n : E[j].flagged /\ \A k \in (i + 1)..j : E[k].joined
      BY <2>2 DEF Reached, n
    <3>2. j \in i..m /\ j \in 1..n /\ j \in 1..m
      BY <1>1, <2>1, <3>1
    <3>3. \A k \in (i + 1)..j : k \in 1..n
      BY <1>1, <2>1, <3>2
    <3>4. \A k \in (i + 1)..j : F[k].joined
      BY <1>2, <3>1, <3>3
    <3>5. F[j].flagged
      BY <1>2, <3>1, <3>2
    <3> QED BY <3>2, <3>4, <3>5 DEF Reached, m
  <2>3. ASSUME Reached(F, i) PROVE Reached(E, i)
    <3>1. PICK j \in i..m : F[j].flagged /\ \A k \in (i + 1)..j : F[k].joined
      BY <2>3 DEF Reached, m
    <3>2. j < h
      BY <1>1, <1>2, <2>1, <3>1
    <3>3. j \in i..n /\ j \in 1..n /\ j \in 1..m /\ j # m
      BY <1>1, <2>1, <3>1, <3>2
    <3>4. \A k \in (i + 1)..j : k \in 1..n
      BY <1>1, <2>1, <3>3
    <3>5. \A k \in (i + 1)..j : E[k].joined
      BY <1>2, <3>1, <3>4
    <3>6. E[j].flagged
      BY <1>2, <3>1, <3>3
    <3> QED BY <3>3, <3>5, <3>6 DEF Reached, n
  <2> QED BY <2>2, <2>3
<1> DEFINE b == f /\ ~Reached(E, h)
<1>9. HitsOf(F) = (IF b THEN HitsOf(E) \cup {h} ELSE HitsOf(E)) /\ (b => h \notin HitsOf(E))
  BY <1>1, <1>4, <1>7, <1>8 DEF HitsOf
<1>10. Labelled(E, F, HeadsOf(E)) /\ F[h].label = E[h].label
  BY <1>1, <1>2, <1>3 DEF Labelled
<1> HIDE DEF b
<1>11. Steps(E, F, FALSE, b, h, E[h].label)
  BY <1>1, <1>4, <1>9, <1>10 DEF Steps, Grown
<1> QED BY <1>6, <1>7, <1>11 DEF b

(* An episode that is not joined begins an event, hit if it is flagged.     *)
LEMMA Opens ==
  ASSUME NEW E \in Seq(Episode), NEW e \in Episode, ~e.joined
  PROVE  LET n == Len(E)  F == Append(E, e)
         IN  /\ Steps(E, F, TRUE, e.flagged, n + 1, e.label)
             /\ LastHead(F, n + 1)
             /\ Reached(F, n + 1) <=> e.flagged
<1> DEFINE n == Len(E)  F == Append(E, e)
<1>1. /\ n \in Nat /\ Len(F) = n + 1 /\ F[n + 1] = e
      /\ \A i \in 1..n : F[i] = E[i]
  OBVIOUS
<1>2. HeadsOf(F) = {i \in 1..(n + 1) : ~F[i].joined} /\ HeadsOf(E) = {i \in 1..n : ~E[i].joined}
  BY <1>1 DEF HeadsOf
<1>3. \A i : Reached(F, i) <=> \E j \in i..(n + 1) :
                                 F[j].flagged /\ \A k \in (i + 1)..j : F[k].joined
  BY <1>1 DEF Reached
<1>4. \A i : Reached(E, i) <=> \E j \in i..n :
                                 E[j].flagged /\ \A k \in (i + 1)..j : E[k].joined
  BY DEF Reached
<1> HIDE DEF n, F
<1>5. HeadsOf(F) = HeadsOf(E) \cup {n + 1} /\ n + 1 \notin HeadsOf(E)
  BY <1>1, <1>2
<1>6. LastHead(F, n + 1)
  BY <1>1, <1>5 DEF LastHead
<1>7. Reached(F, n + 1) <=> e.flagged
  BY <1>1, <1>3
<1>8. ASSUME NEW i \in HeadsOf(E) PROVE Reached(F, i) <=> Reached(E, i)
  <2>1. i \in 1..n
    BY <1>2
  <2>2. ASSUME Reached(E, i) PROVE Reached(F, i)
    <3>1. PICK j \in i..n : E[j].flagged /\ \A k \in (i + 1)..j : E[k].joined
      BY <1>4, <2>2
    <3>2. j \in i..(n + 1) /\ F[j].flagged /\ \A k \in (i + 1)..j : F[k].joined
      BY <1>1, <2>1, <3>1
    <3> QED BY <1>3, <3>2
  <2>3. ASSUME Reached(F, i) PROVE Reached(E, i)
    <3>1. PICK j \in i..(n + 1) : F[j].flagged /\ \A k \in (i + 1)..j : F[k].joined
      BY <1>3, <2>3
    <3>2. j # n + 1
      BY <1>1, <2>1, <3>1
    <3>3. j \in i..n /\ E[j].flagged /\ \A k \in (i + 1)..j : E[k].joined
      BY <1>1, <2>1, <3>1, <3>2
    <3> QED BY <1>4, <3>3
  <2> QED BY <2>2, <2>3
<1>9. HitsOf(F) = (IF e.flagged THEN HitsOf(E) \cup {n + 1} ELSE HitsOf(E))
      /\ n + 1 \notin HitsOf(E)
  BY <1>5, <1>7, <1>8 DEF HitsOf
<1>10. Labelled(E, F, HeadsOf(E)) /\ F[n + 1].label = e.label
  BY <1>1, <1>2 DEF Labelled
<1>11. Steps(E, F, TRUE, e.flagged, n + 1, e.label)
  BY <1>5, <1>9, <1>10 DEF Steps, Grown
<1> QED BY <1>6, <1>7, <1>11 DEF n, F

(* An injected trade more: a is whether its episode opens an event, b       *)
(* whether the event at x is newly hit by it.                               *)
LEMMA InjectedAgrees ==
  ASSUME NEW R \in Seq(Record), NEW r \in Record, r.label # NoLabel,
         NEW z, NEW E \in Seq(Episode), NEW F, NEW x, NEW a \in BOOLEAN, NEW b \in BOOLEAN,
         ScoreAgrees(z, R, E), Steps(E, F, a, b, x, r.label), LastHead(F, x),
         a <=> r.label # z.run,
         b <=> r.flagged /\ ~(r.label = z.run /\ z.any_flag),
         Reached(F, x) <=> r.flagged \/ (r.label = z.run /\ z.any_flag)
  PROVE  ScoreAgrees(ScoreRecord(z, r), Append(R, r), F)
<1> DEFINE y == ScoreRecord(z, r)  p == Append(R, r)  n == Len(R)
           same == r.label = z.run
           fresh == r.flagged /\ ~(same /\ z.any_flag)
<1>1. /\ z \in ScoreType /\ CountsNormal(z, R) /\ CountsEpisodes(z, E)
      /\ y \in ScoreType /\ r.flagged \in BOOLEAN /\ z.any_flag \in BOOLEAN
  BY ScoreRecordType DEF ScoreAgrees, Record, ScoreType
<1>2. /\ y.events = z.events + One(~same) /\ y.detected = z.detected + One(fresh)
      /\ y.per_label = Tallied(z.per_label, r.label, One(~same), One(fresh))
      /\ y.run = r.label /\ y.any_flag = (r.flagged \/ (same /\ z.any_flag))
  BY <1>1, RecordFields
<1>3. CountsNormal(y, p)
  BY <1>1, InjectedCounts
<1>4. Len(p) = n + 1 /\ p[n + 1] = r /\ p # << >>
  OBVIOUS
<1>5. Counted(E, F, a, b, r.label)
  BY TallySteps
<1>6. a = ~same /\ b = fresh
  BY <1>1
<1>7. y.any_flag <=> Reached(F, x)
  BY <1>1, <1>2
<1>8. F[x].label = r.label
  BY DEF Steps
<1> HIDE DEF y, p, n, same, fresh
<1>9. CountsEpisodes(y, F)
  BY <1>1, <1>2, <1>5, <1>6 DEF CountsEpisodes, Counted
<1>10. Reading(y, p, F)
  BY <1>2, <1>4, <1>7, <1>8 DEF Reading
<1>11. ScoreAgrees(y, p, F)
  BY <1>1, <1>3, <1>9, <1>10 DEF ScoreAgrees
<1> QED BY <1>11 DEF y, p

(* One that goes on with the event that is being read.                      *)
LEMMA ProlongedAgrees ==
  ASSUME NEW R \in Seq(Record), NEW r \in Record, r.label # NoLabel,
         NEW z, NEW E \in Seq(Episode), NEW F, ScoreAgrees(z, R, E),
         R # << >>, R[Len(R)].label = r.label, Prolonged(E, F, r.flagged)
  PROVE  ScoreAgrees(ScoreRecord(z, r), Append(R, r), F)
<1>1. PICK h : /\ LastHead(E, h) /\ E[h].label = z.run
               /\ z.any_flag <=> Reached(E, h)
  BY DEF ScoreAgrees, Reading
<1>2. z.run = r.label /\ r.flagged \in BOOLEAN /\ z.any_flag \in BOOLEAN
  BY DEF ScoreAgrees, Reading, Record, ScoreType
<1> DEFINE b == r.flagged /\ ~Reached(E, h)
<1>3. /\ Steps(E, F, FALSE, b, h, r.label) /\ LastHead(F, h)
      /\ Reached(F, h) <=> r.flagged \/ Reached(E, h)
  <2>1. r.flagged \in BOOLEAN /\ E[h].label = r.label /\ LastHead(E, h) /\ Prolonged(E, F, r.flagged)
    BY <1>1, <1>2
  <2>2. /\ Steps(E, F, FALSE, r.flagged /\ ~Reached(E, h), h, E[h].label) /\ LastHead(F, h)
        /\ Reached(F, h) <=> r.flagged \/ Reached(E, h)
    BY <2>1, Prolongs, Zenon
  <2> QED BY <2>1, <2>2, Zenon
<1>4. b <=> r.flagged /\ ~(r.label = z.run /\ z.any_flag)
  BY <1>1, <1>2
<1>5. Reached(F, h) <=> r.flagged \/ (r.label = z.run /\ z.any_flag)
  BY <1>1, <1>2, <1>3
<1>6. b \in BOOLEAN
  BY <1>2
<1> HIDE DEF b
<1> QED BY <1>2, <1>3, <1>4, <1>5, <1>6, InjectedAgrees

(* One that opens another.                                                  *)
LEMMA OpenedAgrees ==
  ASSUME NEW R \in Seq(Record), NEW r \in Record, r.label # NoLabel,
         NEW z, NEW E \in Seq(Episode), NEW e \in Episode, ScoreAgrees(z, R, E),
         R = << >> \/ R[Len(R)].label # r.label,
         ~e.joined, e.label = r.label, e.flagged = r.flagged
  PROVE  ScoreAgrees(ScoreRecord(z, r), Append(R, r), Append(E, e))
<1>1. z.run # r.label /\ r.flagged \in BOOLEAN
  BY DEF ScoreAgrees, Reading, Record
<1> DEFINE F == Append(E, e)  x == Len(E) + 1
<1>2. /\ Steps(E, F, TRUE, r.flagged, x, r.label) /\ LastHead(F, x)
      /\ Reached(F, x) <=> r.flagged
  BY Opens
<1> HIDE DEF F, x
<1>3. ScoreAgrees(ScoreRecord(z, r), Append(R, r), F)
  BY <1>1, <1>2, InjectedAgrees
<1> QED BY <1>3 DEF F

(* What is kept: the histories are of records and episodes, the score of    *)
(* the one agrees with the other, and a batch that has trades left is that  *)
(* of the last record.                                                      *)
ScoringInv ==
  /\ SimTypeOK
  /\ records \in Seq(Record) /\ episodes \in Seq(Episode)
  /\ ScoreAgrees(Score(records), records, episodes)
  /\ batch.plans # << >> => records # << >> /\ records[Len(records)].label = batch.label

(* It holds before the first trade.                                         *)
LEMMA ScoringInit == BacktestInit => ScoringInv
<1> SUFFICES ASSUME BacktestInit PROVE ScoringInv
  OBVIOUS
<1>1. SimTypeOK /\ records = << >> /\ episodes = << >> /\ batch.plans = << >>
  BY SimInitType DEF BacktestInit, SimInit
<1>2. Score(<< >>) = NoScore
  <2>1. << >> \in Seq(Record) /\ [label |-> Normal, flagged |-> FALSE] \in Record
    BY DEF Record, Labels
  <2> QED BY <2>1, ScoreUnfolds
<1>3. NoScore \in ScoreType
  <2>1. << >> \in PerLabel
    <3>1. << >> \in [{} -> Nat \X Nat]
      OBVIOUS
    <3> QED BY <3>1 DEF PerLabel
  <2> QED BY <2>1 DEF NoScore, ScoreType
<1>4. /\ HeadsOf(<< >>) = {} /\ HitsOf(<< >>) = {}
      /\ NormalOf(<< >>) = {} /\ AlarmsOf(<< >>) = {} /\ RunsOf(<< >>) = {}
  BY DEF HeadsOf, HitsOf, NormalOf, AlarmsOf, RunsOf
<1>5. Tally(<< >>) = << >>
  BY <1>4 DEF Tally
<1>6. Cardinality({}) = 0
  BY FS_EmptySet
<1>7. ScoreAgrees(NoScore, << >>, << >>)
  BY <1>3, <1>4, <1>5, <1>6 DEF ScoreAgrees, CountsNormal, CountsEpisodes, Reading, NoScore
<1>8. << >> \in Seq(Record) /\ << >> \in Seq(Episode)
  OBVIOUS
<1> QED BY <1>1, <1>2, <1>7, <1>8 DEF ScoringInv

(* An episode of which that changes that the next trade may change.         *)
LEMMA EpisodeChanged ==
  ASSUME NEW o \in Episode, NEW x \in Nat, NEW y \in Nat,
         NEW f \in BOOLEAN, NEW c \in BOOLEAN
  PROVE  [o EXCEPT !.last = x, !.left = y, !.flagged = f, !.caught = c] \in Episode
BY DEF Episode

(* The last of the episodes F is that of b, and t its latest trade; those   *)
(* before it are as they were.                                              *)
Injects(F, b, t, raised) ==
  LET E == episodes  n == Len(F)  e == F[n]
      caught == b.label \in DOMAIN Keeper /\ Keeper[b.label] \in raised
  IN  /\ n \in Nat \ {0} /\ \A i \in 1..(n - 1) : i <= Len(E) /\ F[i] = E[i]
      /\ e.last = t.ts /\ e.left = Len(b.plans) - 1
      /\ IF batch.plans # << >>
         THEN /\ n = Len(E) /\ e.label = E[n].label /\ e.symbol = E[n].symbol
              /\ e.first = E[n].first /\ e.caught = (E[n].caught \/ caught)
         ELSE /\ e.label = b.label /\ e.symbol = b.symbol
              /\ e.first = t.ts /\ e.caught = caught
              /\ e.alone = (Len(Add(Window(t.symbol), t)) = 1)

(* What an injected trade makes of the episodes: the last one goes on, or   *)
(* there is one more, joined if the record before has its label.            *)
LEMMA InjectedSteps ==
  ASSUME ScoringInv, NEW b \in Current, NEW t \in Drawn(b), NEW raised,
         b.label # NoLabel
  PROVE  LET F == Injected(b, t, raised)  n == Len(records)
         IN  /\ F \in Seq(Episode) /\ Injects(F, b, t, raised)
             /\ \/ /\ records # << >> /\ records[n].label = b.label
                   /\ Prolonged(episodes, F, raised # {})
                \/ /\ records = << >> \/ records[n].label # b.label
                   /\ \E e \in Episode :
                        /\ F = Append(episodes, e) /\ ~e.joined
                        /\ e.label = b.label /\ e.flagged = (raised # {})
<1> DEFINE F == Injected(b, t, raised)  E == episodes  old == Len(E)  m == Len(records)
           left == Len(b.plans) - 1  f == raised # {}
           caught == b.label \in DOMAIN Keeper /\ Keeper[b.label] \in raised
<1>1. /\ SimTypeOK /\ records \in Seq(Record) /\ E \in Seq(Episode)
      /\ ScoreAgrees(Score(records), records, E)
      /\ batch.plans # << >> => records # << >> /\ records[m].label = batch.label
  BY DEF ScoringInv
<1>2. b \in Batch /\ b.plans # << >> /\ t \in Simulated /\ t.symbol = b.symbol
  BY <1>1, DrawnType
<1>3. left \in Nat
  <2>1. b.plans \in Seq(Planned)
    BY <1>2 DEF Batch
  <2> QED BY <1>2, <2>1
<1>4. /\ b.label \in Labels /\ t.symbol \in Market /\ t.ts \in Nat
      /\ f \in BOOLEAN /\ caught \in BOOLEAN
  BY <1>2 DEF Batch, Simulated
<1>5. CASE batch.plans # << >>
  <2>1. b = batch
    BY <1>5 DEF Current
  <2>2. records # << >> /\ records[m].label = b.label
    BY <1>1, <1>5, <2>1
  <2>3. PICK h : LastHead(E, h)
    BY <1>1, <2>2 DEF ScoreAgrees, Reading
  <2>4. old \in Nat /\ old \in 1..old /\ E[old] \in Episode
    <3>1. h \in 1..old /\ old \in Nat
      BY <1>1, <2>3 DEF LastHead, HeadsOf
    <3>2. old \in 1..old
      BY <3>1
    <3> QED BY <1>1, <3>1, <3>2
  <2> DEFINE new == [E[old] EXCEPT !.last = t.ts, !.left = left,
                                   !.flagged = E[old].flagged \/ f,
                                   !.caught = E[old].caught \/ caught]
  <2>5. F = [E EXCEPT ![old] = new]
    <3>1. F = [E EXCEPT ![old].last = t.ts, ![old].left = left,
                        ![old].flagged = @ \/ f, ![old].caught = @ \/ caught]
      BY <1>5 DEF Injected
    <3> HIDE DEF F, left, f, caught
    <3> QED BY <1>1, <2>4, <3>1
  <2>6. /\ new.label = E[old].label /\ new.joined = E[old].joined
        /\ new.flagged = (E[old].flagged \/ f)
        /\ new.symbol = E[old].symbol /\ new.first = E[old].first
        /\ new.last = t.ts /\ new.left = left
        /\ new.caught = (E[old].caught \/ caught)
        /\ new \in Episode
    <3> DEFINE o == E[old]
    <3>1. o = [label |-> o.label, symbol |-> o.symbol, first |-> o.first,
               last |-> o.last, left |-> o.left, flagged |-> o.flagged,
               caught |-> o.caught, alone |-> o.alone, joined |-> o.joined]
      BY <2>4 DEF Episode
    <3>2. /\ o.label \in Labels /\ o.symbol \in Market /\ o.first \in Nat
          /\ o.flagged \in BOOLEAN /\ o.caught \in BOOLEAN
          /\ o.alone \in BOOLEAN /\ o.joined \in BOOLEAN
      BY <2>4 DEF Episode
    <3> HIDE DEF left, f, caught, o
    <3>4. /\ new.label = o.label /\ new.symbol = o.symbol /\ new.first = o.first
          /\ new.last = t.ts /\ new.left = left
          /\ new.alone = o.alone /\ new.joined = o.joined
      BY <3>1 DEF o
    <3>5. new.flagged = (o.flagged \/ f)
      BY <3>1 DEF o
    <3>6. new.caught = (o.caught \/ caught)
      BY <3>1 DEF o
    <3> HIDE DEF new
    <3>7. /\ (o.flagged \/ f) \in BOOLEAN /\ (o.caught \/ caught) \in BOOLEAN
      BY <1>4, <3>2
    <3>8. [o EXCEPT !.last = t.ts, !.left = left, !.flagged = o.flagged \/ f,
                    !.caught = o.caught \/ caught] \in Episode
      BY <1>3, <1>4, <2>4, <3>7, EpisodeChanged, Zenon DEF o
    <3>9. new \in Episode
      BY <3>8, Zenon DEF o, new
    <3> QED BY <3>4, <3>5, <3>6, <3>9 DEF o
  <2> HIDE DEF new, F, f, left, caught
  <2>7. /\ F \in Seq(Episode) /\ Len(F) = old /\ F[old] = new
        /\ \A i \in 1..old : i # old => F[i] = E[i]
    BY <1>1, <2>4, <2>5, <2>6
  <2>8. Prolonged(E, F, f)
    <3>1. \A i \in 1..old : F[i].label = E[i].label /\ F[i].joined = E[i].joined
      BY <2>6, <2>7
    <3>2. \A i \in 1..old : F[i].flagged <=> E[i].flagged \/ (f /\ i = old)
      BY <2>6, <2>7
    <3> QED BY <2>4, <2>7, <3>1, <3>2 DEF Prolonged
  <2>9. Injects(F, b, t, raised)
    <3>1. \A i \in 1..(old - 1) : i \in 1..old /\ i # old /\ i <= old
      BY <2>4
    <3>2. \A i \in 1..(old - 1) : i <= old /\ F[i] = E[i]
      BY <2>7, <3>1
    <3> HIDE DEF old
    <3>3. old \in Nat \ {0}
      BY <2>4
    <3> QED BY <1>5, <2>6, <2>7, <3>2, <3>3 DEF Injects, left, caught, old
  <2> QED BY <2>2, <2>7, <2>8, <2>9 DEF F, f
<1>6. CASE batch.plans = << >>
  <2> DEFINE alone == Len(Add(Window(t.symbol), t)) = 1
             joined == records # << >> /\ records[m].label = b.label
             e == [label |-> b.label, symbol |-> b.symbol, first |-> t.ts,
                   last |-> t.ts, left |-> left, flagged |-> f, caught |-> caught,
                   alone |-> alone, joined |-> joined]
  <2>1. F = Append(E, e)
    BY <1>6 DEF Injected, Last
  <2>2. alone \in BOOLEAN /\ joined \in BOOLEAN /\ b.symbol \in Market
    BY <1>2, <1>4
  <2> HIDE DEF F, f, left, caught, alone, joined
  <2>3. /\ e \in Episode /\ e.label = b.label /\ e.flagged = f
        /\ e.joined = joined /\ e.symbol = b.symbol /\ e.first = t.ts
        /\ e.last = t.ts /\ e.left = left /\ e.caught = caught /\ e.alone = alone
    BY <1>3, <1>4, <2>2 DEF Episode
  <2> HIDE DEF e
  <2>4. /\ F \in Seq(Episode) /\ Len(F) = old + 1 /\ F[old + 1] = e /\ old \in Nat
        /\ \A i \in 1..old : F[i] = E[i]
    BY <1>1, <2>1, <2>3
  <2>5. Injects(F, b, t, raised)
    <3> DEFINE n == Len(F)
    <3>1. /\ n - 1 = old /\ n \in Nat \ {0} /\ F[n] = e
          /\ \A i \in 1..old : i <= old /\ F[i] = E[i]
      <4> HIDE DEF old
      <4> QED BY <2>4
    <3> HIDE DEF n, old
    <3>2. \A i \in 1..(n - 1) : i <= old /\ F[i] = E[i]
      BY <3>1
    <3> QED BY <1>6, <2>3, <3>1, <3>2 DEF Injects, left, caught, alone, n, old
  <2>6. CASE joined
    <3>1. Prolonged(E, F, f)
      <4>0. F[old + 1].joined
        BY <2>3, <2>4, <2>6
      <4>1. \A i \in (old + 1)..(old + 1) : F[i].joined
        BY <2>4, <4>0
      <4>2. F[old + 1].flagged = f
        BY <2>3, <2>4
      <4>3. \A i \in 1..(old + 1) : F[i].flagged <=>
              (i \in 1..old /\ E[i].flagged) \/ (f /\ i = old + 1)
        BY <2>4, <4>2
      <4>4. Len(F) \in Nat /\ Len(F) >= old
        BY <2>4
      <4> HIDE DEF old
      <4> QED BY <2>4, <4>1, <4>3, <4>4 DEF Prolonged, old
    <3> QED BY <2>4, <2>5, <2>6, <3>1 DEF F, f, joined
  <2>7. CASE ~joined
    <3> QED BY <2>1, <2>3, <2>4, <2>5, <2>7 DEF F, f, joined
  <2> QED BY <2>6, <2>7
<1> QED BY <1>5, <1>6

(* Every trade of the replay keeps it.                                      *)
LEMMA ScoringStep == ScoringInv /\ Replay => ScoringInv'
<1> SUFFICES ASSUME ScoringInv, Replay PROVE ScoringInv'
  OBVIOUS
<1>1. PICK b \in Current : \E t \in Drawn(b) :
        /\ Yields(b, t)
        /\ \E v : /\ records' = Append(records, [label |-> b.label,
                                                flagged |-> Raised(t, v) # {}])
                  /\ episodes' = Injected(b, t, Raised(t, v))
  BY DEF Replay
<1>2. PICK t \in Drawn(b) :
        /\ Yields(b, t)
        /\ \E v : /\ records' = Append(records, [label |-> b.label,
                                                flagged |-> Raised(t, v) # {}])
                  /\ episodes' = Injected(b, t, Raised(t, v))
  BY <1>1
<1>3. PICK v : /\ records' = Append(records, [label |-> b.label,
                                             flagged |-> Raised(t, v) # {}])
               /\ episodes' = Injected(b, t, Raised(t, v))
  BY <1>2
<1> DEFINE raised == Raised(t, v)  f == raised # {}
           r == [label |-> b.label, flagged |-> f]
           F == Injected(b, t, raised)
<1>4. /\ SimTypeOK /\ records \in Seq(Record) /\ episodes \in Seq(Episode)
      /\ ScoreAgrees(Score(records), records, episodes)
  BY DEF ScoringInv
<1>5. r \in Record /\ r.label = b.label /\ r.flagged = f
  <2>1. b.label \in Labels /\ f \in BOOLEAN
    BY <1>4, CurrentType DEF Batch
  <2> HIDE DEF f
  <2> QED BY <2>1 DEF Record
<1>6. SimTypeOK' /\ batch'.label = b.label
  BY <1>2, <1>4, YieldsType
<1>7. records' = Append(records, r) /\ episodes' = F
  BY <1>3
<1> HIDE DEF raised, f, r, F
<1>8. /\ records' \in Seq(Record) /\ records' # << >>
      /\ records'[Len(records')].label = batch'.label
  BY <1>4, <1>5, <1>6, <1>7
<1>9. Score(Append(records, r)) = ScoreRecord(Score(records), r)
  BY <1>4, <1>5, ScoreUnfolds
<1>10. F \in Seq(Episode) /\ ScoreAgrees(ScoreRecord(Score(records), r), Append(records, r), F)
  <2>1. CASE b.label = NoLabel
    <3>1. F = episodes
      BY <2>1 DEF F, Injected
    <3> QED BY <1>4, <1>5, <2>1, <3>1, NormalAgrees
  <2>2. CASE b.label # NoLabel
    <3>1. /\ F \in Seq(Episode)
          /\ \/ /\ records # << >> /\ records[Len(records)].label = b.label
                /\ Prolonged(episodes, F, f)
             \/ /\ records = << >> \/ records[Len(records)].label # b.label
                /\ \E e \in Episode :
                     /\ F = Append(episodes, e) /\ ~e.joined
                     /\ e.label = b.label /\ e.flagged = f
      BY <2>2, InjectedSteps DEF F, f
    <3>2. CASE /\ records # << >> /\ records[Len(records)].label = b.label
               /\ Prolonged(episodes, F, f)
      BY <1>4, <1>5, <2>2, <3>1, <3>2, ProlongedAgrees
    <3>3. CASE /\ records = << >> \/ records[Len(records)].label # b.label
               /\ \E e \in Episode :
                    /\ F = Append(episodes, e) /\ ~e.joined
                    /\ e.label = b.label /\ e.flagged = f
      <4>1. PICK e \in Episode : /\ F = Append(episodes, e) /\ ~e.joined
                                 /\ e.label = b.label /\ e.flagged = f
        BY <3>3
      <4>2. ScoreAgrees(ScoreRecord(Score(records), r), Append(records, r),
                        Append(episodes, e))
        BY <1>4, <1>5, <2>2, <3>3, <4>1, OpenedAgrees
      <4> QED BY <3>1, <4>1, <4>2
    <3> QED BY <3>1, <3>2, <3>3
  <2> QED BY <2>1, <2>2
<1>11. ScoreAgrees(Score(records'), records', episodes') /\ episodes' \in Seq(Episode)
  BY <1>7, <1>9, <1>10
<1> QED BY <1>6, <1>8, <1>11 DEF ScoringInv

(* The score read off such histories is the report that is asked for.       *)
LEMMA ScoringImplies == ScoringInv => EpisodesAreScored
<1> SUFFICES ASSUME ScoringInv PROVE EpisodesAreScored
  OBVIOUS
<1> DEFINE z == Score(records)  E == episodes  R == records
<1>1. CountsNormal(z, R) /\ CountsEpisodes(z, E)
  BY DEF ScoringInv, ScoreAgrees
<1>2. /\ z.normal = Cardinality(NormalOf(R)) /\ z.normal_flagged = Cardinality(AlarmsOf(R))
      /\ z.false_alarms = Cardinality(RunsOf(R))
      /\ z.events = Cardinality(HeadsOf(E)) /\ z.detected = Cardinality(HitsOf(E))
      /\ z.per_label = Tally(E)
  BY <1>1 DEF CountsNormal, CountsEpisodes
<1> HIDE DEF z
<1> DEFINE report == Report(z)
           recall(S) == <<Cardinality({i \in S : Reached(E, i)}), Cardinality(S)>>
<1>3. /\ report.recall = recall(HeadsOf(E))
      /\ report.precision = <<recall(HeadsOf(E))[1],
                              recall(HeadsOf(E))[1] + Cardinality(RunsOf(R))>>
      /\ report.false_positive_rate = <<Cardinality(AlarmsOf(R)), Cardinality(NormalOf(R))>>
  BY <1>2 DEF Report, HitsOf
<1>4. report.per_label_recall =
        [l \in {E[i].label : i \in HeadsOf(E)} |->
           recall({i \in HeadsOf(E) : E[i].label = l})]
  <2>1. ASSUME NEW l
        PROVE  Those(E, HitsOf(E), l) =
               {i \in {j \in HeadsOf(E) : E[j].label = l} : Reached(E, i)}
    BY DEF Those, HitsOf
  <2>2. Tally(E) = [l \in {E[i].label : i \in HeadsOf(E)} |->
                      recall({i \in HeadsOf(E) : E[i].label = l})]
    BY <2>1 DEF Tally, Those
  <2> QED BY <1>2, <2>2 DEF Report
<1> HIDE DEF report, recall
<1>5. report = Report(Score(records))
  BY DEF report, z
<1> QED BY <1>3, <1>4, <1>5 DEF EpisodesAreScored, recall, HeadsOf, Reached,
                              NormalOf, AlarmsOf, RunsOf

(* The report counts the injected episodes, the directly following ones of  *)
(* a kind as one, and the runs of false alarms (evaluate.py, _score).       *)
THEOREM BacktestEpisodesAreScored == BacktestSpec => []EpisodesAreScored
<1>1. ScoringInv /\ UNCHANGED backtestVars => ScoringInv'
  BY DEF ScoringInv, backtestVars, simVars, SimTypeOK, ScoreAgrees, CountsNormal,
         CountsEpisodes, Reading
<1>2. ScoringInv /\ [Replay]_backtestVars => ScoringInv'
  BY <1>1, ScoringStep
<1> QED BY <1>2, ScoringInit, ScoringImplies, PTL DEF BacktestSpec
-----------------------------------------------------------------------------
(* - - - what is injected is caught - - - - - - - - - - - - - - - - - - - - *)

(* A price with a spike of k percent on it.                                 *)
Jumped(p, k) ==
  LET q == (p * (100 + k)) \div 100 IN IF q > 1 THEN q ELSE 1

(* The numbers of the simulator and of the rules fit each other: time moves *)
(* on, a self-cross has an account, from a price of low on a spike is one   *)
(* for the rules, a burst has as many trades as the velocity detector wants *)
(* and these are within its window, its horizon and its capacity.           *)
Catchable(low) ==
  /\ {"price_spike", "velocity", "wash_trade"} \subseteq Detectors
  /\ {"medium", "high", "critical"} \subseteq Severities
  /\ 0 \notin NormalGaps /\ BurstGap > 0
  /\ NoAccount \notin Accounts
  /\ \A k \in Spikes : \A p \in Nat :
       p >= low => 1000 * Abs(Jumped(p, k) - p) >= Rules.pct_threshold * p
  /\ \A n \in Bursts : n >= Rules.velocity_max
  /\ Rules.velocity_max <= MaxTrades
  /\ \A back \in 0..(Rules.velocity_max - 1) :
       back * BurstGap <= Rules.velocity_window /\ back * BurstGap <= Horizon

(* The last m trades of a window, as far as the velocity detector wants     *)
(* them, follow each other as those of a burst.                             *)
Trail(w, m, now) ==
  \A back \in 0..(Rules.velocity_max - 1) :
    back < m => back < Len(w) /\ w[Len(w) - back].ts >= now - back * BurstGap

(* The new trade is the last of its window, after the one that was.         *)
LEMMA AddIsLast ==
  ASSUME NEW T, Timed(T), NEW w \in Seq(T), NEW t \in T
  PROVE  LET x == Add(w, t)
         IN  /\ x \in Seq(T) /\ Len(x) > 0 /\ x[Len(x)] = t
             /\ Len(x) >= 2 => w # << >> /\ x[Len(x) - 1] = w[Len(w)]
<1> DEFINE x == Add(w, t)  v == Append(w, t)
<1>1. PICK k \in 1..(Len(w) + 1) :
        /\ x \in Seq(T)
        /\ Len(x) = Len(w) + 2 - k
        /\ Len(x) <= MaxTrades
        /\ \A i \in 1..(Len(w) + 2 - k) : x[i] = v[k + i - 1]
        /\ v[k].ts >= t.ts - Horizon
        /\ \A i \in 1..(k - 1) :
             i <= Len(w) + 1 - MaxTrades \/ v[i].ts < t.ts - Horizon
  BY AddDropsHead, Zenon
<1>2. /\ Len(w) \in Nat /\ v[Len(w) + 1] = t
      /\ \A j \in 1..Len(w) : v[j] = w[j]
  OBVIOUS
<1> HIDE DEF x, v
<1>3. Len(x) > 0 /\ x[Len(x)] = t
  <2>1. Len(x) \in 1..(Len(w) + 2 - k) /\ k + Len(x) - 1 = Len(w) + 1
    BY <1>1, <1>2
  <2>2. x[Len(x)] = v[k + Len(x) - 1]
    BY <1>1, <2>1
  <2> QED BY <1>2, <2>1, <2>2
<1>4. ASSUME Len(x) >= 2 PROVE w # << >> /\ x[Len(x) - 1] = w[Len(w)]
  <2>1. /\ Len(x) - 1 \in 1..(Len(w) + 2 - k) /\ k + (Len(x) - 1) - 1 = Len(w)
        /\ Len(w) \in 1..Len(w)
    BY <1>1, <1>2, <1>4
  <2>2. x[Len(x) - 1] = v[k + (Len(x) - 1) - 1]
    BY <1>1, <2>1
  <2> QED BY <1>2, <2>1, <2>2
<1> QED BY <1>1, <1>3, <1>4 DEF x

(* No earlier than an age back is no earlier than a greater one back.       *)
LEMMA NoEarlier ==
  ASSUME NEW a \in Nat, NEW b \in Nat, NEW age \in Nat, NEW h \in Nat,
         age <= h, a >= b - age
  PROVE  a >= b - h /\ ~(a < b - h)
OBVIOUS

(* A place counted from the end of a sequence is one of the part of it that *)
(* begins at k, when it is no earlier than k.                               *)
LEMMA PlaceOfTheRest ==
  ASSUME NEW l \in Nat, NEW k \in 1..(l + 1), NEW back \in Nat, (l + 1) - back >= k
  PROVE  /\ back < l + 2 - k /\ (l + 2 - k) - back \in 1..(l + 2 - k)
         /\ k + ((l + 2 - k) - back) - 1 = (l + 1) - back
OBVIOUS

(* One trade more of a burst, and none of it has been evicted.              *)
LEMMA TrailGrows ==
  ASSUME NEW low, Catchable(low), NEW T, Timed(T), NEW w \in Seq(T), NEW t \in T,
         NEW m \in Nat, NEW now \in Nat, t.ts = now + BurstGap, Trail(w, m, now)
  PROVE  Trail(Add(w, t), m + 1, t.ts)
<1> USE SimulatorAssumption, RulesAssumption, WindowAssumption
<1> DEFINE x == Add(w, t)  v == Append(w, t)  last == Len(w) + 1
           vm == Rules.velocity_max
<1>1. PICK k \in 1..(Len(w) + 1) :
        /\ x \in Seq(T)
        /\ Len(x) = Len(w) + 2 - k
        /\ Len(x) <= MaxTrades
        /\ \A i \in 1..(Len(w) + 2 - k) : x[i] = v[k + i - 1]
        /\ v[k].ts >= t.ts - Horizon
        /\ \A i \in 1..(k - 1) :
             i <= Len(w) + 1 - MaxTrades \/ v[i].ts < t.ts - Horizon
  BY AddDropsHead, Zenon
<1>2. /\ Len(w) \in Nat /\ v[last] = t /\ t.ts \in Nat
      /\ \A j \in 1..Len(w) : v[j] = w[j] /\ v[j].ts \in Nat
  <2>1. \A j \in 1..Len(w) : w[j] \in T
    OBVIOUS
  <2> QED BY <2>1 DEF Timed
<1>3. /\ vm \in Nat /\ vm <= MaxTrades
      /\ \A back \in 0..(vm - 1) : back * BurstGap <= Horizon /\ back * BurstGap \in Nat
  BY DEF Catchable
<1> HIDE DEF x, v, last, vm
<1> SUFFICES ASSUME NEW back \in 0..(vm - 1), back < m + 1
             PROVE  back < Len(x) /\ x[Len(x) - back].ts >= t.ts - back * BurstGap
  BY DEF Trail, x, vm
<1> DEFINE j == last - back
<1>4. j \in 1..last /\ v[j].ts >= t.ts - back * BurstGap /\ v[j].ts \in Nat
  <2>1. CASE back = 0
    BY <1>2, <2>1 DEF last
  <2>2. CASE back # 0
    <3> DEFINE p == back - 1
    <3>1. p \in 0..(vm - 1) /\ p < m /\ p \in Nat
      BY <1>3, <2>2
    <3>2. p < Len(w) /\ w[Len(w) - p].ts >= now - p * BurstGap
      BY <3>1 DEF Trail, vm
    <3>3. j = Len(w) - p /\ j \in 1..Len(w)
      BY <1>2, <3>1, <3>2 DEF last
    <3>4. p * BurstGap = back * BurstGap - BurstGap
      <4>1. (back - 1) * BurstGap = back * BurstGap - BurstGap
        BY <1>3
      <4> QED BY <4>1
    <3>5. p * BurstGap \in Nat /\ back * BurstGap \in Nat
      BY <1>3, <3>1
    <3>6. v[j] = w[j] /\ v[j].ts \in Nat /\ j \in 1..last
      BY <1>2, <3>3 DEF last
    <3>7. w[j].ts >= now - p * BurstGap
      BY <3>2, <3>3
    <3> HIDE DEF p, j
    <3>8. w[j].ts >= (now + BurstGap) - back * BurstGap
      BY <3>4, <3>5, <3>6, <3>7
    <3> QED BY <3>6, <3>8
  <2> QED BY <2>1, <2>2
<1>5. j >= k
  <2> SUFFICES ASSUME j < k PROVE FALSE
    BY <1>1, <1>4
  <2>1. j \in 1..(k - 1)
    BY <1>1, <1>4
  <2>2. j > Len(w) + 1 - MaxTrades
    BY <1>2, <1>3 DEF last
  <2>3. back * BurstGap <= Horizon /\ back * BurstGap \in Nat
    BY <1>3
  <2>4. j <= Len(w) + 1 - MaxTrades \/ v[j].ts < t.ts - Horizon
    BY <1>1, <2>1
  <2>5. j \in Int
    BY <1>2, <1>4 DEF last
  <2> DEFINE age == back * BurstGap
  <2>6. age <= Horizon /\ age \in Nat /\ v[j].ts >= t.ts - age
    BY <1>4, <2>3
  <2> HIDE DEF j, age
  <2>7. ~(v[j].ts < t.ts - Horizon)
    <3>1. v[j].ts \in Nat /\ t.ts \in Nat /\ Horizon \in Nat
      BY <1>2, <1>4
    <3> QED BY <2>6, <3>1, NoEarlier, Zenon
  <2> QED BY <1>2, <2>2, <2>4, <2>5, <2>7
<1>6. /\ back < Len(x) /\ Len(x) - back \in 1..(Len(w) + 2 - k)
      /\ k + (Len(x) - back) - 1 = j
  <2> DEFINE l == Len(w)
  <2>1. /\ l \in Nat /\ back \in Nat /\ (l + 1) - back >= k
        /\ j = (l + 1) - back /\ k \in 1..(l + 1) /\ Len(x) = l + 2 - k
    BY <1>1, <1>2, <1>3, <1>5 DEF last
  <2> HIDE SimulatorAssumption, RulesAssumption, WindowAssumption DEF l, j
  <2>2. /\ back < l + 2 - k /\ (l + 2 - k) - back \in 1..(l + 2 - k)
        /\ k + ((l + 2 - k) - back) - 1 = (l + 1) - back
    BY <2>1, PlaceOfTheRest, Zenon
  <2> QED BY <2>1, <2>2, Zenon DEF l
<1>7. x[Len(x) - back] = v[j]
  BY <1>1, <1>6
<1> QED BY <1>4, <1>6, <1>7

(* A burst that is long enough is one for the velocity detector.            *)
LEMMA TrailIsVelocity ==
  ASSUME NEW low, Catchable(low), NEW T, Timed(T), NEW w \in Seq(T), NEW t, t.ts \in Nat,
         NEW m \in Nat, m >= Rules.velocity_max, Trail(w, m, t.ts)
  PROVE  Velocity(t, w) \in {"medium", "critical"}
<1> USE SimulatorAssumption, RulesAssumption
<1> DEFINE vm == Rules.velocity_max  span == Rules.velocity_window
           R == Recent(w, t.ts, span)  n == Len(w)
<1>1. /\ n \in Nat /\ vm \in Nat /\ span \in Nat /\ R \in SUBSET (1..n)
      /\ \A back \in 0..(vm - 1) : back * BurstGap <= span /\ back * BurstGap \in Nat
      /\ \A i \in 1..n : w[i].ts \in Nat
  <2>1. \A i \in 1..n : w[i] \in T
    OBVIOUS
  <2> QED BY <2>1 DEF Catchable, Recent, Timed
<1>2. ASSUME NEW j \in 1..vm PROVE (n - vm) + j \in R
  <2> DEFINE back == vm - j
  <2>1. back \in 0..(vm - 1) /\ back < m
    BY <1>1
  <2>2. back < n /\ w[n - back].ts >= t.ts - back * BurstGap
    BY <2>1 DEF Trail
  <2>3. n - back = (n - vm) + j /\ n - back \in 1..n
    <3>1. n \in Nat /\ vm \in Nat /\ j \in Nat /\ j >= 1 /\ back = vm - j
      BY <1>1
    <3>2. back \in Nat /\ back < n
      BY <1>1, <2>1, <2>2
    <3> HIDE DEF n, vm, back
    <3> QED BY <3>1, <3>2
  <2>4. w[n - back].ts >= t.ts - span
    <3>1. back * BurstGap <= span /\ back * BurstGap \in Nat /\ w[n - back].ts \in Nat
      BY <1>1, <2>1, <2>3
    <3> HIDE DEF back, span
    <3>2. t.ts \in Nat /\ span \in Nat
      BY <1>1
    <3> QED BY <2>2, <3>1, <3>2, NoEarlier, Zenon
  <2> QED BY <2>3, <2>4 DEF Recent
<1> HIDE DEF R
<1>3. Cardinality(1..vm) <= Cardinality(R)
  <2>1. 1..vm \in SUBSET (1..vm) /\ n - vm \in Int
    BY <1>1
  <2> HIDE DEF n, vm
  <2> QED BY <1>1, <1>2, <2>1, Shifted
<1>4. Cardinality(1..vm) = vm
  <2>1. 1 \in Int /\ vm \in Int /\ vm >= 0
    BY <1>1
  <2> HIDE DEF vm
  <2>2. Cardinality(1..vm) = IF 1 > vm THEN 0 ELSE vm - 1 + 1
    BY <2>1, FS_Interval
  <2> QED BY <2>1, <2>2
<1>5. Cardinality(R) \in Nat
  BY <1>1, Positions
<1>6. ~(Cardinality(R) < vm)
  BY <1>1, <1>3, <1>4, <1>5
<1> QED BY <1>6 DEF Velocity, R


(* What a batch of an anomaly still has to come: a spike of the price it is *)
(* at, a burst that goes on as it began, a self-cross.                      *)
Fitting(b) ==
  LET n == Len(b.plans)
  IN  /\ \A i \in 1..n : b.plans[i].gaps \in {NormalGaps, {BurstGap}}
      /\ b.label = "price_spike" =>
           n = 1 /\ \E k \in Spikes :
                      b.plans[1].over = [price |-> Jumped(price[b.symbol], k)]
      /\ b.label = "velocity_burst" =>
           /\ \A i \in 1..n : b.plans[i].gaps = {BurstGap}
           /\ \E m \in Nat : m + n \in Bursts /\ Trail(Window(b.symbol), m, elapsed)
      /\ b.label = "wash_trade" => \A i \in 1..n : Crossing(b.plans[i].over)

(* So is every batch that _next_batch() plans.                              *)
LEMMA PlansFit ==
  ASSUME SimTypeOK, NEW s \in Market, NEW l \in Labels, NEW p \in Plans(s, l)
  PROVE  Fitting([symbol |-> s, label |-> l, plans |-> p])
<1> USE SimulatorAssumption
<1> DEFINE b == [symbol |-> s, label |-> l, plans |-> p]
<1>0. /\ b.symbol = s /\ b.label = l /\ b.plans = p
      /\ \A i \in 1..1 : i = 1
  OBVIOUS
<1> HIDE DEF b
<1>1. CASE l = Normal
  <2>1. p = <<Ordinary(Free)>>
    BY <1>1 DEF Plans, Normal
  <2>2. Len(p) = 1 /\ p[1].gaps = NormalGaps
    BY <2>1 DEF Ordinary
  <2> QED BY <1>0, <1>1, <2>2 DEF Fitting, Normal
<1>2. CASE l = "price_spike"
  <2>1. PICK k \in Spikes : p = <<Ordinary([price |-> Spiked(s, k)])>>
    BY <1>2 DEF Plans, Normal
  <2>2. /\ Len(p) = 1 /\ p[1].gaps = NormalGaps
        /\ p[1].over = [price |-> Jumped(price[s], k)]
    BY <2>1 DEF Ordinary, Spiked, Jumped
  <2> QED BY <1>0, <1>2, <2>2 DEF Fitting
<1>3. CASE l = "volume_spike"
  <2>1. PICK q \in Blocks : p = <<Ordinary([quantity |-> q])>>
    BY <1>3 DEF Plans, Normal
  <2>2. Len(p) = 1 /\ p[1].gaps = NormalGaps
    BY <2>1 DEF Ordinary
  <2> QED BY <1>0, <1>3, <2>2 DEF Fitting
<1>4. CASE l = "velocity_burst"
  <2>1. PICK n \in Bursts : p = [i \in 1..n |-> Quick(Free)]
    BY <1>4 DEF Plans, Normal
  <2>2. /\ Len(p) = n /\ n \in Nat
        /\ \A i \in 1..n : p[i].gaps = {BurstGap}
    BY <2>1 DEF Quick
  <2>3. Trail(Window(s), 0, elapsed) /\ 0 + n \in Bursts
    BY <2>2 DEF Trail
  <2> QED BY <1>0, <1>4, <2>2, <2>3 DEF Fitting
<1>5. CASE l = "spoofing"
  <2> DEFINE burst(n, x) == [i \in 1..n |-> Quick([side |-> x])]
  <2>3. Plans(s, l) = {burst(n, x) : n \in Layers, x \in Sides}
    BY <1>5 DEF Plans, Normal
  <2> HIDE DEF burst
  <2>1. PICK n \in Layers, x \in Sides : p = burst(n, x)
    BY <2>3
  <2>2. Len(p) = n /\ \A i \in 1..n : p[i].gaps = {BurstGap}
    BY <2>1 DEF burst, Quick
  <2> QED BY <1>0, <1>5, <2>2 DEF Fitting
<1>6. CASE l = "wash_trade"
  <2>1. PICK a \in Accounts, q \in Sizes : p = SelfCross(s, a, q)
    BY <1>6 DEF Plans, Normal
  <2> DEFINE leg(x) == [side |-> x, price |-> price[s], quantity |-> q,
                        account |-> a, counterparty |-> a]
  <2>2. p = <<Ordinary(leg("buy")), Quick(leg("sell"))>>
    BY <2>1 DEF SelfCross
  <2>3. Crossing(leg("buy")) /\ Crossing(leg("sell"))
    BY DEF Crossing
  <2> HIDE DEF leg
  <2>4. /\ Len(p) = 2 /\ p[1].gaps = NormalGaps /\ p[2].gaps = {BurstGap}
        /\ p[1].over = leg("buy") /\ p[2].over = leg("sell")
    BY <2>2 DEF Ordinary, Quick
  <2>5. \A i \in 1..2 : i = 1 \/ i = 2
    OBVIOUS
  <2> QED BY <1>0, <1>6, <2>3, <2>4, <2>5 DEF Fitting
<1> QED BY <1>1, <1>2, <1>3, <1>4, <1>5, <1>6 DEF Labels, b

(* The batch under way fits too; a spike is all of its batch.               *)
Underway == batch.plans # << >> => Fitting(batch) /\ batch.label # "price_spike"

(* So is the batch that the next trade comes from.                          *)
LEMMA CurrentFits ==
  ASSUME SimTypeOK, Underway, NEW b \in Current
  PROVE  Fitting(b)
<1>1. CASE batch.plans = << >>
  <2>1. b \in Batches
    BY <1>1 DEF Current
  <2>2. PICK s \in Market : \E l \in Labels : \E p \in Plans(s, l) :
          b = [symbol |-> s, label |-> l, plans |-> p]
    BY <2>1 DEF Batches
  <2>3. PICK l \in Labels : \E p \in Plans(s, l) :
          b = [symbol |-> s, label |-> l, plans |-> p]
    BY <2>2
  <2>4. PICK p \in Plans(s, l) : b = [symbol |-> s, label |-> l, plans |-> p]
    BY <2>3
  <2> QED BY <2>4, PlansFit
<1>2. CASE batch.plans # << >>
  BY <1>2 DEF Current, Underway
<1> QED BY <1>1, <1>2

(* The window of a symbol of the market, its last trade at the symbol's     *)
(* price.                                                                   *)
Kept(s) ==
  /\ Window(s) \in Seq(Simulated)
  /\ Window(s) # << >> => Window(s)[Len(Window(s))].price = price[s]

(* What a trade of a symbol does to the windows and prices.                 *)
LEMMA KeptStep ==
  ASSUME SimTypeOK, \A s \in Market : Kept(s), NEW b \in Current, NEW t \in Drawn(b),
         Yields(b, t), Store(t)
  PROVE  /\ \A s \in Market : Kept(s)'
         /\ Window(t.symbol)' = Add(Window(t.symbol), t)
<1>1. b \in Batch /\ t \in Simulated /\ t.symbol = b.symbol /\ b.symbol \in Market
  BY DrawnType DEF Batch
<1> DEFINE z == t.symbol  x == Add(Window(z), t)
<1>2. /\ DOMAIN windows' = DOMAIN windows \cup {z} /\ windows'[z] = x
      /\ \A s \in DOMAIN windows : s # z => windows'[s] = windows[s]
  BY DEF Store
<1>3. /\ price' \in [Market -> Whole] /\ price'[z] = t.price
      /\ \A s \in Market : s # z => price'[s] = price[s]
  BY <1>1 DEF Yields, SimTypeOK, Simulated
<1>4. Window(z)' = x
  BY <1>2 DEF Window
<1>5. x \in Seq(Simulated) /\ Len(x) > 0 /\ x[Len(x)] = t
  BY <1>1, SimulatedAreTimed, AddIsLast DEF Kept
<1>6. ASSUME NEW s \in Market, s # z PROVE Kept(s)'
  BY <1>2, <1>3, <1>6 DEF Kept, Window
<1>7. Kept(z)'
  BY <1>3, <1>4, <1>5 DEF Kept
<1> QED BY <1>4, <1>6, <1>7

(* A trade of a batch leaves the rest of it as it was planned.              *)
LEMMA UnderwayStep ==
  ASSUME NEW low \in Nat, Catchable(low), SimTypeOK, Underway,
         \A s \in Market : Kept(s), NEW b \in Current, NEW t \in Drawn(b),
         Yields(b, t), Store(t)
  PROVE  Underway'
<1> USE SimulatorAssumption
<1>1. /\ b \in Batch /\ b.plans # << >> /\ t \in Simulated /\ t.symbol = b.symbol
      /\ b.symbol \in Market /\ AsPlanned(t, Head(b.plans))
  BY DrawnType DEF Batch
<1>2. Fitting(b)
  BY CurrentFits
<1> DEFINE p == b.plans  n == Len(p)  r == Tail(p)  c == batch'
<1>3. /\ p \in Seq(Planned) /\ n \in Nat \ {0} /\ Head(p) = p[1]
      /\ r \in Seq(Planned) /\ Len(r) = n - 1 /\ \A i \in 1..(n - 1) : r[i] = p[i + 1]
  <2>1. p \in Seq(Planned) /\ p # << >>
    BY <1>1 DEF Batch
  <2> HIDE DEF p
  <2> QED BY <2>1
<1>4. c = [symbol |-> b.symbol, label |-> b.label, plans |-> r]
  BY <1>1 DEF Yields, Batch
<1>5. c.symbol = b.symbol /\ c.label = b.label /\ c.plans = r
  BY <1>4
<1> HIDE DEF p, r
<1> SUFFICES ASSUME r # << >> PROVE Fitting(batch)' /\ b.label # "price_spike"
  BY <1>5 DEF Underway
<1>6. n > 1 /\ 1 \in 1..n /\ \A i \in 1..(n - 1) : i + 1 \in 1..n
  BY <1>3
<1>7. \A i \in 1..(n - 1) : r[i].gaps \in {NormalGaps, {BurstGap}}
  BY <1>2, <1>3, <1>6 DEF Fitting, p
<1>8. b.label # "price_spike"
  <2>1. b.label = "price_spike" => Len(b.plans) = 1
    BY <1>2, Zenon DEF Fitting
  <2>2. b.plans = p
    BY DEF p
  <2>3. n # 1
    BY <1>3, <1>6
  <2> QED BY <2>1, <2>2, <2>3
<1>9. ASSUME b.label = "velocity_burst"
      PROVE  /\ \A i \in 1..(n - 1) : r[i].gaps = {BurstGap}
             /\ \E m \in Nat : m + (n - 1) \in Bursts
                               /\ Trail(Window(b.symbol), m, elapsed)'
  <2>1. /\ \A i \in 1..n : p[i].gaps = {BurstGap}
        /\ \E m \in Nat : m + n \in Bursts /\ Trail(Window(b.symbol), m, elapsed)
    BY <1>2, <1>9 DEF Fitting, p
  <2>2. PICK m \in Nat : m + n \in Bursts /\ Trail(Window(b.symbol), m, elapsed)
    BY <2>1
  <2>3. t.ts = elapsed + BurstGap /\ elapsed \in Nat
    BY <1>1, <1>3, <1>6, <2>1 DEF AsPlanned, SimTypeOK, p
  <2>4. Window(b.symbol) \in Seq(Simulated)
    BY <1>1 DEF Kept
  <2>5. Trail(Add(Window(b.symbol), t), m + 1, t.ts)
    BY <1>1, <2>2, <2>3, <2>4, SimulatedAreTimed, TrailGrows
  <2>6. Window(b.symbol)' = Add(Window(b.symbol), t) /\ elapsed' = t.ts
    BY <1>1, KeptStep DEF Yields
  <2>7. Trail(Window(b.symbol), m + 1, elapsed)'
    BY <2>5, <2>6 DEF Trail
  <2>8. m + 1 \in Nat /\ (m + 1) + (n - 1) = m + n
    BY <1>3
  <2>9. \A i \in 1..(n - 1) : r[i].gaps = {BurstGap}
    BY <1>3, <1>6, <2>1
  <2> QED BY <2>2, <2>7, <2>8, <2>9
<1>10. ASSUME b.label = "wash_trade" PROVE \A i \in 1..(n - 1) : Crossing(r[i].over)
  BY <1>2, <1>3, <1>6, <1>10 DEF Fitting, p
<1> HIDE DEF n, c
<1> QED BY <1>3, <1>5, <1>7, <1>8, <1>9, <1>10 DEF Fitting, c, n

(* What the cooldown remembers of a key is when an alert of it was emitted, *)
(* and no later than now.                                                   *)
Remembered ==
  /\ emitted \in [Keys -> Seq(Nat)]
  /\ \A k \in DOMAIN lastAlertTs :
       /\ k \in Keys /\ lastAlertTs[k] \in Nat /\ lastAlertTs[k] <= elapsed
       /\ \E i \in 1..Len(emitted[k]) : emitted[k][i] = lastAlertTs[k]

(* The alerts emitted stay in their places.                                 *)
Grows(old, new) ==
  /\ Len(new) \in Nat /\ Len(old) <= Len(new)
  /\ \A i \in 1..Len(old) : new[i] = old[i]

(* A trade's alerts are remembered, those of a detector that raised none    *)
(* stay as they were.                                                       *)
LEMMA RememberedStep ==
  ASSUME SimTypeOK, Remembered, NEW b \in Current, NEW t \in Drawn(b), Yields(b, t),
         NEW v, Detect(t, v)
  PROVE  /\ Remembered' /\ \A k \in Keys : Grows(emitted[k], emitted'[k])
         /\ \A d : d \notin Raised(t, v) /\ <<t.symbol, d>> \in DOMAIN lastAlertTs' =>
              /\ <<t.symbol, d>> \in DOMAIN lastAlertTs
              /\ lastAlertTs'[<<t.symbol, d>>] = lastAlertTs[<<t.symbol, d>>]
<1> DEFINE raised == Raised(t, v)  K == KeysOf(t, raised)
<1>1. /\ t.symbol \in Symbols /\ t.ts \in Nat /\ t.ts >= elapsed
      /\ elapsed \in Nat /\ elapsed' = t.ts
  BY DrawnType, BacktestAssumption DEF Batch, Simulated, Yields, SimTypeOK
<1>2. /\ raised \subseteq Detectors /\ K \in SUBSET Keys
      /\ \A d : <<t.symbol, d>> \in K => d \in raised
  BY <1>1 DEF Raised, Fired, KeysOf, Keys
<1>3. /\ emitted' = Note(emitted, K, t.ts) /\ lastAlertTs' = Remember(t, raised)
  BY DEF Detect
<1> HIDE DEF raised, K
<1>4. /\ emitted' \in [Keys -> Seq(Nat)]
      /\ \A k \in Keys : emitted'[k] = IF k \in K THEN Append(emitted[k], t.ts) ELSE emitted[k]
  BY <1>1, <1>3 DEF Note, Remembered
<1>5. ASSUME NEW k \in Keys PROVE Grows(emitted[k], emitted'[k])
  <2> DEFINE q == emitted[k]
  <2>1. q \in Seq(Nat)
    BY DEF Remembered
  <2>2. /\ Len(Append(q, t.ts)) = Len(q) + 1 /\ Len(q) \in Nat
        /\ \A i \in 1..Len(q) : Append(q, t.ts)[i] = q[i]
    BY <1>1, <2>1
  <2> HIDE DEF q
  <2>3. emitted'[k] = IF k \in K THEN Append(q, t.ts) ELSE q
    BY <1>4 DEF q
  <2>4. CASE k \in K
    BY <2>2, <2>3, <2>4 DEF Grows, q
  <2>5. CASE k \notin K
    BY <2>2, <2>3, <2>5 DEF Grows, q
  <2> QED BY <2>4, <2>5
<1>6. ASSUME NEW k \in DOMAIN lastAlertTs'
      PROVE  IF k \in K /\ Cooldown # 0 THEN lastAlertTs'[k] = t.ts
             ELSE k \in DOMAIN lastAlertTs /\ lastAlertTs'[k] = lastAlertTs[k]
  BY <1>3 DEF Remember, K
<1>7. ASSUME NEW k \in DOMAIN lastAlertTs'
      PROVE  /\ k \in Keys /\ lastAlertTs'[k] \in Nat /\ lastAlertTs'[k] <= elapsed'
             /\ \E i \in 1..Len(emitted'[k]) : emitted'[k][i] = lastAlertTs'[k]
  <2>1. CASE k \in K /\ Cooldown # 0
    <3>1. k \in Keys /\ lastAlertTs'[k] = t.ts /\ emitted'[k] = Append(emitted[k], t.ts)
      BY <1>2, <1>4, <1>6, <2>1
    <3>2. emitted[k] \in Seq(Nat)
      BY <3>1 DEF Remembered
    <3>3. /\ Len(emitted'[k]) \in 1..Len(emitted'[k])
          /\ emitted'[k][Len(emitted'[k])] = t.ts
      BY <1>1, <3>1, <3>2
    <3> QED BY <1>1, <3>1, <3>3
  <2>2. CASE ~(k \in K /\ Cooldown # 0)
    <3>1. k \in DOMAIN lastAlertTs /\ lastAlertTs'[k] = lastAlertTs[k]
      BY <1>6, <2>2
    <3>2. /\ k \in Keys /\ lastAlertTs[k] \in Nat /\ lastAlertTs[k] <= elapsed
          /\ \E i \in 1..Len(emitted[k]) : emitted[k][i] = lastAlertTs[k]
      BY <3>1 DEF Remembered
    <3>3. PICK i \in 1..Len(emitted[k]) : emitted[k][i] = lastAlertTs[k]
      BY <3>2
    <3>4. Grows(emitted[k], emitted'[k]) /\ Len(emitted[k]) \in Nat
      BY <1>5, <3>2 DEF Remembered
    <3>5. i \in 1..Len(emitted'[k]) /\ emitted'[k][i] = emitted[k][i]
      BY <3>4 DEF Grows
    <3> QED BY <1>1, <3>1, <3>2, <3>3, <3>5
  <2> QED BY <2>1, <2>2
<1>8. ASSUME NEW d, d \notin raised, <<t.symbol, d>> \in DOMAIN lastAlertTs'
      PROVE  /\ <<t.symbol, d>> \in DOMAIN lastAlertTs
             /\ lastAlertTs'[<<t.symbol, d>>] = lastAlertTs[<<t.symbol, d>>]
  BY <1>2, <1>6, <1>8
<1>9. Remembered'
  BY <1>4, <1>7 DEF Remembered
<1> QED BY <1>5, <1>8, <1>9 DEF raised

(* At the last trade of an episode the detector that is there for its kind  *)
(* speaks, but for a spike that is alone in its window.                     *)
LEMMA KeeperSpeaks ==
  ASSUME NEW low \in Nat, Catchable(low), SimTypeOK, Underway, \A s \in Market : Kept(s),
         NEW b \in Current, NEW t \in Drawn(b), NEW inUse, NEW v \in VerdictsOn(t, inUse),
         b.label \in DOMAIN Keeper, Len(b.plans) = 1, price[b.symbol] >= low
  PROVE  \/ Keeper[b.label] \in Fired(v)
         \/ b.label = "price_spike" /\ Len(Add(Window(t.symbol), t)) = 1
<1> USE SimulatorAssumption
<1>1. /\ b \in Batch /\ b.plans # << >> /\ t \in Simulated /\ t.symbol = b.symbol
      /\ b.symbol \in Market /\ AsPlanned(t, Head(b.plans))
  BY DrawnType DEF Batch
<1>2. Fitting(b)
  BY CurrentFits
<1> DEFINE w == Window(b.symbol)  x == Add(w, t)  plan == b.plans[1]
<1>3. Head(b.plans) = plan
  BY <1>1 DEF Batch
<1>4. w \in Seq(Simulated) /\ (w # << >> => w[Len(w)].price = price[b.symbol])
  BY <1>1 DEF Kept
<1>5. /\ x \in Seq(Simulated) /\ Len(x) > 0 /\ x[Len(x)] = t
      /\ Len(x) >= 2 => w # << >> /\ x[Len(x) - 1] = w[Len(w)]
  BY <1>1, <1>4, SimulatedAreTimed, AddIsLast
<1>6. ASSUME NEW d \in {"price_spike", "velocity", "wash_trade"}
      PROVE  d \in Detectors /\ v[d] = RuleVerdict(t)[d]
  BY DEF VerdictsOn, Catchable
<1>7. /\ RuleVerdict(t)["price_spike"] = PriceSpike(t, x)
      /\ RuleVerdict(t)["velocity"] = Velocity(t, x)
      /\ RuleVerdict(t)["wash_trade"] = WashTrade(t, x)
  BY <1>1 DEF RuleVerdict
<1> HIDE DEF w, x, plan
<1>8. CASE b.label = "price_spike" /\ Len(x) # 1
  <2>1. PICK k \in Spikes : plan.over = [price |-> Jumped(price[b.symbol], k)]
    BY <1>2, <1>8 DEF Fitting, plan
  <2>2. t.price = Jumped(price[b.symbol], k)
    BY <1>1, <1>3, <2>1 DEF AsPlanned
  <2> DEFINE prev == price[b.symbol]
  <2>3. prev \in Nat /\ prev > 0 /\ prev >= low
    BY <1>1 DEF SimTypeOK, Whole
  <2>4. Len(x) >= 2 /\ x[Len(x) - 1].price = prev
    <3> DEFINE len == Len(x)
    <3>1. len \in Nat /\ len > 0 /\ len # 1
      BY <1>5, <1>8
    <3> HIDE DEF len
    <3>2. len >= 2
      BY <3>1
    <3> QED BY <1>4, <1>5, <3>2 DEF len
  <2>5. 1000 * Abs(t.price - prev) >= Rules.pct_threshold * prev
    BY <2>2, <2>3 DEF Catchable
  <2>6. PriceSpike(t, x) \in {"high", "critical"}
    BY <2>3, <2>4, <2>5 DEF PriceSpike, Grade
  <2> QED BY <1>6, <1>7, <1>8, <2>6 DEF Fired, Catchable, Keeper
<1>9. CASE b.label = "velocity_burst"
  <2>1. /\ plan.gaps = {BurstGap}
        /\ \E m \in Nat : m + 1 \in Bursts /\ Trail(w, m, elapsed)
    BY <1>2, <1>9 DEF Fitting, plan, w
  <2>2. PICK m \in Nat : m + 1 \in Bursts /\ Trail(w, m, elapsed)
    BY <2>1
  <2>3. t.ts = elapsed + BurstGap /\ elapsed \in Nat /\ t.ts \in Nat
    BY <1>1, <1>3, <2>1 DEF AsPlanned, SimTypeOK, Simulated
  <2>4. Trail(x, m + 1, t.ts)
    BY <1>1, <1>4, <2>2, <2>3, SimulatedAreTimed, TrailGrows DEF x
  <2>5. m + 1 \in Nat /\ m + 1 >= Rules.velocity_max
    BY <2>2 DEF Catchable
  <2>6. Velocity(t, x) \in {"medium", "critical"}
    BY <1>5, <2>3, <2>4, <2>5, SimulatedAreTimed, TrailIsVelocity
  <2> QED BY <1>6, <1>7, <1>9, <2>6 DEF Fired, Catchable, Keeper
<1>10. CASE b.label = "wash_trade"
  <2>1. Crossing(plan.over)
    BY <1>2, <1>10 DEF Fitting, plan
  <2>2. t.account = t.counterparty /\ t.account # NoAccount
    BY <1>1, <1>3, <2>1 DEF AsPlanned, Simulated, Catchable
  <2>3. WashTrade(t, x) = "critical"
    BY <2>2 DEF WashTrade, Grade
  <2> QED BY <1>6, <1>7, <1>10, <2>3 DEF Fired, Catchable, Keeper
<1> QED BY <1>1, <1>8, <1>9, <1>10 DEF Keeper, x, w

(* What InjectedAreCaught says of one episode.                              *)
Answered(e) ==
  e.label \in DOMAIN Keeper /\ e.left = 0 /\ ~e.caught =>
    (e.label = "price_spike" /\ e.alone) \/ HeldBack(e)

(* No alert of its keeper since it began is remembered of an episode that   *)
(* is not caught.                                                           *)
Unanswered(e) ==
  LET k == <<e.symbol, Keeper[e.label]>>
  IN  ~e.caught /\ k \in DOMAIN lastAlertTs => lastAlertTs[k] < e.first

(* The last episode is that of the batch under way.                         *)
Pending ==
  batch.plans # << >> /\ batch.label # NoLabel =>
    LET n == Len(episodes)
    IN  /\ episodes[n].label = batch.label /\ episodes[n].symbol = batch.symbol
        /\ batch.label \in DOMAIN Keeper => Unanswered(episodes[n])

(* What is kept, beyond what the scoring and the tapes keep: the windows    *)
(* end at the price, the rest of a batch fits, what the cooldown remembers  *)
(* was emitted, and every episode that ended is answered.                   *)
CaughtInv ==
  /\ ScoringInv
  /\ \A s \in Market : Kept(s)
  /\ Underway /\ Remembered /\ Pending
  /\ \A i \in 1..Len(episodes) : Answered(episodes[i])

(* It holds before the first trade.                                         *)
LEMMA CaughtInit == BacktestInit => CaughtInv
<1> SUFFICES ASSUME BacktestInit PROVE CaughtInv
  OBVIOUS
<1>1. /\ batch.plans = << >> /\ windows = << >> /\ lastAlertTs = << >>
      /\ emitted = [k \in Keys |-> << >>] /\ episodes = << >>
  BY DEF BacktestInit, EngineInit, StoreInit, SimInit
<1>2. \A s \in Market : Kept(s)
  <2>1. DOMAIN windows = {}
    BY <1>1
  <2> QED BY <2>1 DEF Kept, Window
<1>3. Remembered
  <2>1. DOMAIN lastAlertTs = {}
    BY <1>1
  <2> QED BY <1>1, <2>1 DEF Remembered
<1>4. \A i \in 1..Len(episodes) : Answered(episodes[i])
  BY <1>1
<1> QED BY <1>1, <1>2, <1>3, <1>4, ScoringInit DEF CaughtInv, Underway, Pending

(* An alert that held one back goes on doing so.                            *)
LEMMA HeldBackStays ==
  ASSUME NEW e \in Episode, e.label \in DOMAIN Keeper, HeldBack(e), Market \subseteq Symbols,
         {"price_spike", "velocity", "wash_trade"} \subseteq Detectors,
         \A k \in Keys : Grows(emitted[k], emitted'[k])
  PROVE  \E i \in 1..Len(emitted'[<<e.symbol, Keeper[e.label]>>]) :
           LET at == emitted'[<<e.symbol, Keeper[e.label]>>][i]
           IN  at < e.first /\ e.last - at < Cooldown
<1> DEFINE k == <<e.symbol, Keeper[e.label]>>
<1>1. k \in Keys
  BY DEF Keys, Keeper, Episode
<1>2. PICK i \in 1..Len(emitted[k]) :
        emitted[k][i] < e.first /\ e.last - emitted[k][i] < Cooldown
  BY DEF HeldBack
<1>3. i \in 1..Len(emitted'[k]) /\ emitted'[k][i] = emitted[k][i]
  <2> HIDE DEF k
  <2> QED BY <1>1 DEF Grows
<1> QED BY <1>2, <1>3

(* An answered episode stays so.                                            *)
LEMMA AnsweredStays ==
  ASSUME NEW e \in Episode, Answered(e), Market \subseteq Symbols,
         {"price_spike", "velocity", "wash_trade"} \subseteq Detectors,
         \A k \in Keys : Grows(emitted[k], emitted'[k])
  PROVE  Answered(e)'
BY HeldBackStays DEF Answered, HeldBack

(* Each trade of the replay answers the episode it ends.                    *)
LEMMA CaughtStep ==
  ASSUME NEW low \in Nat, Catchable(low), \A s \in Market : price[s] >= low,
         CaughtInv, Replay
  PROVE  CaughtInv'
<1> USE SimulatorAssumption
<1>1. PICK b \in Current : \E t \in Drawn(b) :
        /\ Yields(b, t)
        /\ \E v \in VerdictsOn(t, models') :
             Process(t, v) /\ episodes' = Injected(b, t, Raised(t, v))
  BY DEF Replay
<1>2. PICK t \in Drawn(b) :
        /\ Yields(b, t)
        /\ \E v \in VerdictsOn(t, models') :
             Process(t, v) /\ episodes' = Injected(b, t, Raised(t, v))
  BY <1>1
<1>3. PICK v \in VerdictsOn(t, models') :
        Process(t, v) /\ episodes' = Injected(b, t, Raised(t, v))
  BY <1>2
<1>4. Store(t) /\ Detect(t, v)
  BY <1>3 DEF Process
<1>5. /\ ScoringInv /\ SimTypeOK /\ \A s \in Market : Kept(s)
      /\ Underway /\ Remembered /\ Pending
      /\ \A i \in 1..Len(episodes) : Answered(episodes[i])
  BY DEF CaughtInv, ScoringInv
<1>6. /\ b \in Batch /\ b.plans \in Seq(Planned) /\ b.plans # << >> /\ t \in Simulated
      /\ t.symbol = b.symbol /\ b.symbol \in Market /\ AsPlanned(t, Head(b.plans))
  BY <1>5, DrawnType DEF Batch
<1>7. ScoringInv' /\ episodes' \in Seq(Episode) /\ episodes \in Seq(Episode)
  BY <1>5, ScoringStep DEF ScoringInv
<1>8. \A s \in Market : Kept(s)'
  BY <1>2, <1>4, <1>5, KeptStep
<1>9. Underway'
  BY <1>2, <1>4, <1>5, UnderwayStep
<1> DEFINE raised == Raised(t, v)
<1>10. /\ Remembered' /\ \A k \in Keys : Grows(emitted[k], emitted'[k])
       /\ \A d : d \notin raised /\ <<t.symbol, d>> \in DOMAIN lastAlertTs' =>
            /\ <<t.symbol, d>> \in DOMAIN lastAlertTs
            /\ lastAlertTs'[<<t.symbol, d>>] = lastAlertTs[<<t.symbol, d>>]
  BY <1>2, <1>4, <1>5, RememberedStep
<1> HIDE DEF raised
<1>11. /\ Market \subseteq Symbols
       /\ {"price_spike", "velocity", "wash_trade"} \subseteq Detectors
  BY BacktestAssumption DEF Catchable
<1>12. /\ batch'.plans = Tail(b.plans) /\ batch'.label = b.label
       /\ batch'.symbol = b.symbol
  BY <1>2, <1>6 DEF Yields, Batch
<1>13. PICK F : F = Injected(b, t, raised)
  OBVIOUS
<1>14. episodes' = F /\ F \in Seq(Episode)
  BY <1>3, <1>7, <1>13 DEF raised
<1>15. ASSUME NEW i \in 1..Len(F), i <= Len(episodes), F[i] = episodes[i]
       PROVE  Answered(F[i])'
  <2>1. PICK e : e = F[i]
    OBVIOUS
  <2>2. i \in 1..Len(episodes) /\ e \in Episode
    BY <1>7, <1>14, <1>15, <2>1
  <2>3. Answered(e)
    BY <1>5, <1>15, <2>1, <2>2
  <2>4. Answered(e)'
    BY <1>10, <1>11, <2>2, <2>3, AnsweredStays
  <2> QED BY <2>1, <2>4 DEF Answered, HeldBack
<1>16. CASE b.label = NoLabel
  <2>1. F = episodes
    BY <1>13, <1>16 DEF Injected
  <2>2. \A i \in 1..Len(F) : Answered(F[i])'
    BY <1>7, <1>15, <2>1
  <2>3. Pending'
    BY <1>12, <1>16 DEF Pending
  <2> QED BY <1>7, <1>8, <1>9, <1>10, <1>14, <2>2, <2>3 DEF CaughtInv
<1>17. CASE b.label # NoLabel
  <2> DEFINE n == Len(F)
  <2>1. Injects(F, b, t, raised)
    BY <1>5, <1>13, <1>17, InjectedSteps
  <2>2. PICK e : e = F[n]
    OBVIOUS
  <2>3. /\ n \in Nat \ {0} /\ \A i \in 1..(n - 1) : i <= Len(episodes) /\ F[i] = episodes[i]
        /\ e.last = t.ts /\ e.left = Len(b.plans) - 1 /\ e \in Episode
    BY <1>14, <2>1, <2>2 DEF Injects
  <2>4. \A i \in 1..(n - 1) : Answered(F[i])'
    BY <1>15, <2>3
  <2>5. /\ e.label = b.label /\ e.symbol = b.symbol
        /\ b.label \in DOMAIN Keeper =>
             /\ Unanswered(e) /\ (~e.caught => Keeper[b.label] \notin raised)
             /\ b.label = "price_spike" =>
                  e.alone = (Len(Add(Window(t.symbol), t)) = 1)
    <3>1. CASE batch.plans # << >>
      <4>1. b = batch
        BY <3>1 DEF Current
      <4>2. /\ n = Len(episodes) /\ episodes[n].label = b.label
            /\ episodes[n].symbol = b.symbol
            /\ b.label \in DOMAIN Keeper => Unanswered(episodes[n])
        BY <1>5, <1>17, <2>1, <3>1, <4>1 DEF Pending, Injects
      <4>3. /\ e.label = episodes[n].label /\ e.symbol = episodes[n].symbol
            /\ e.first = episodes[n].first
            /\ e.caught = (episodes[n].caught
                            \/ (b.label \in DOMAIN Keeper /\ Keeper[b.label] \in raised))
        BY <2>1, <2>2, <3>1 DEF Injects
      <4>4. b.label # "price_spike"
        BY <1>5, <3>1, <4>1 DEF Underway
      <4> QED BY <4>2, <4>3, <4>4 DEF Unanswered
    <3>2. CASE batch.plans = << >>
      <4>1. /\ e.label = b.label /\ e.symbol = b.symbol /\ e.first = t.ts
            /\ e.caught = (b.label \in DOMAIN Keeper /\ Keeper[b.label] \in raised)
            /\ e.alone = (Len(Add(Window(t.symbol), t)) = 1)
        BY <2>1, <2>2, <3>2 DEF Injects
      <4>2. elapsed < t.ts
        <5>1. Fitting(b) /\ Len(b.plans) \in Nat \ {0} /\ Head(b.plans) = b.plans[1]
          BY <1>5, <1>6, CurrentFits
        <5>2. b.plans[1].gaps \in {NormalGaps, {BurstGap}}
          BY <5>1 DEF Fitting
        <5>3. PICK gap \in b.plans[1].gaps : t.ts = elapsed + gap
          BY <1>6, <5>1 DEF AsPlanned
        <5>4. gap \in Nat \ {0} /\ elapsed \in Nat
          BY <1>5, <5>2 DEF Catchable, SimTypeOK
        <5> QED BY <5>3, <5>4
      <4>3. \A k \in DOMAIN lastAlertTs : lastAlertTs[k] < t.ts
        <5>1. elapsed \in Nat /\ t.ts \in Nat
          BY <1>5, <1>6 DEF SimTypeOK, Simulated
        <5> QED BY <1>5, <4>2, <5>1 DEF Remembered
      <4> QED BY <4>1, <4>3 DEF Unanswered
    <3> QED BY <3>1, <3>2
  <2>6. ASSUME b.label \in DOMAIN Keeper PROVE Unanswered(e)'
    <3> DEFINE k == <<t.symbol, Keeper[b.label]>>
    <3>1. k = <<e.symbol, Keeper[e.label]>>
      BY <1>6, <2>5, <2>6
    <3>2. ASSUME ~e.caught, k \in DOMAIN lastAlertTs' PROVE lastAlertTs'[k] < e.first
      <4>1. k \in DOMAIN lastAlertTs /\ lastAlertTs'[k] = lastAlertTs[k]
        BY <1>10, <2>5, <2>6, <3>2
      <4> QED BY <2>5, <2>6, <3>1, <3>2, <4>1 DEF Unanswered
    <3> QED BY <3>1, <3>2 DEF Unanswered
  <2>7. Answered(e)'
    <3> SUFFICES ASSUME b.label \in DOMAIN Keeper, e.left = 0, ~e.caught,
                        ~(e.label = "price_spike" /\ e.alone)
                 PROVE  HeldBack(e)'
      BY <2>5 DEF Answered
    <3> DEFINE d == Keeper[b.label]  k == <<t.symbol, d>>
    <3>1. d \in Fired(v)
      <4>1. Len(b.plans) = 1
        <5> DEFINE m == Len(b.plans)
        <5>1. m \in Nat
          BY <1>6
        <5>2. m - 1 = 0
          BY <2>3
        <5> HIDE DEF m
        <5>3. m = 1
          BY <5>1, <5>2
        <5> QED BY <5>3 DEF m
      <4>2. price[b.symbol] >= low
        BY <1>6
      <4>3. \/ d \in Fired(v)
            \/ b.label = "price_spike" /\ Len(Add(Window(t.symbol), t)) = 1
        BY <1>5, <4>1, <4>2, KeeperSpeaks
      <4> QED BY <2>5, <4>3
    <3>2. Suppressed(t, d)
      BY <2>5, <3>1 DEF Raised, raised
    <3>3. /\ k \in DOMAIN lastAlertTs /\ t.ts - lastAlertTs[k] < Cooldown
          /\ k = <<e.symbol, Keeper[e.label]>>
      BY <1>6, <2>5, <3>2 DEF Suppressed
    <3>4. lastAlertTs[k] < e.first
      BY <2>5, <3>3 DEF Unanswered
    <3>5. PICK i \in 1..Len(emitted[k]) : emitted[k][i] = lastAlertTs[k]
      BY <1>5, <3>3 DEF Remembered
    <3>6. HeldBack(e)
      <4> HIDE DEF k
      <4> QED BY <2>3, <3>3, <3>4, <3>5 DEF HeldBack
    <3>7. \E j \in 1..Len(emitted'[<<e.symbol, Keeper[e.label]>>]) :
            LET at == emitted'[<<e.symbol, Keeper[e.label]>>][j]
            IN  at < e.first /\ e.last - at < Cooldown
      BY <1>10, <1>11, <2>3, <2>5, <3>6, HeldBackStays
    <3> QED BY <3>7 DEF HeldBack
  <2>8. \A i \in 1..n : Answered(F[i])'
    <3>1. ASSUME NEW i \in 1..n, i # n PROVE i \in 1..(n - 1)
      BY <2>3, <3>1
    <3>2. Answered(F[n])'
      BY <2>2, <2>7 DEF Answered, HeldBack
    <3> QED BY <2>4, <3>1, <3>2
  <2>9. Pending'
    <3>1. e.label = batch'.label /\ e.symbol = batch'.symbol
      BY <1>12, <2>5
    <3>2. batch'.label \in DOMAIN Keeper => Unanswered(e)'
      BY <1>12, <2>6
    <3> QED BY <1>14, <2>2, <3>1, <3>2 DEF Pending, Unanswered
  <2> QED BY <1>7, <1>8, <1>9, <1>10, <1>14, <2>8, <2>9 DEF CaughtInv
<1> QED BY <1>16, <1>17

(* Nothing else does anything to it.                                        *)
LEMMA CaughtStutter == CaughtInv /\ UNCHANGED backtestVars => CaughtInv'
<1> SUFFICES ASSUME CaughtInv, UNCHANGED backtestVars PROVE CaughtInv'
  OBVIOUS
<1>1. /\ windows' = windows /\ lastAlertTs' = lastAlertTs /\ emitted' = emitted
      /\ price' = price /\ elapsed' = elapsed /\ batch' = batch /\ drawn' = drawn
      /\ records' = records /\ episodes' = episodes
  BY DEF backtestVars, engineVars, storeVars, simVars
<1>2. ScoringInv'
  BY <1>1 DEF CaughtInv, ScoringInv, SimTypeOK, ScoreAgrees, CountsNormal,
              CountsEpisodes, Reading
<1>3. (\A s \in Market : Kept(s))'
  BY <1>1 DEF CaughtInv, Kept, Window
<1>4. Underway'
  BY <1>1 DEF CaughtInv, Underway, Fitting, Trail, Window
<1>5. Remembered' /\ Pending'
  BY <1>1 DEF CaughtInv, Remembered, Pending, Unanswered
<1>6. (\A i \in 1..Len(episodes) : Answered(episodes[i]))'
  BY <1>1 DEF CaughtInv, Answered, HeldBack
<1> QED BY <1>2, <1>3, <1>4, <1>5, <1>6 DEF CaughtInv

(* No injected spike, burst or self-cross slips through the detector that   *)
(* is there for its kind, but for a spike that is alone in its window and   *)
(* an alert of that detector just before (evaluate.py, evaluate), if the    *)
(* numbers of the simulator and the rules fit each other and prices do not  *)
(* fall to where they are too coarse for a spike to show.                   *)
THEOREM BacktestInjectedAreCaught ==
  ASSUME NEW low \in Nat, Catchable(low)
  PROVE  BacktestSpec /\ [](\A s \in Market : price[s] >= low) => []InjectedAreCaught
<1> DEFINE Fine == \A s \in Market : price[s] >= low
<1>1. CaughtInv /\ Fine /\ [Replay]_backtestVars => CaughtInv'
  BY CaughtStep, CaughtStutter
<1>2. CaughtInv => InjectedAreCaught
  BY DEF CaughtInv, Answered, InjectedAreCaught
<1> HIDE DEF Fine
<1>3. BacktestSpec /\ []Fine => []InjectedAreCaught
  BY <1>1, <1>2, CaughtInit, PTL DEF BacktestSpec
<1> QED BY <1>3 DEF Fine
=============================================================================
