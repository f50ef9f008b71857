----------------------------- MODULE Statistics -----------------------------
(* Sums and outliers of whole numbers.  A quotient is compared by           *)
(* multiplying out and a standard deviation by its square, so that no       *)
(* rounding is modelled.                                                    *)
EXTENDS Integers, Sequences, SequencesExt

Total(s) == FoldLeft(LAMBDA a, x : a + x, 0, s)

(* |p - mean| >= tenths / 10 * std of the values ps, whose std is not 0.    *)
FarFrom(ps, p, tenths) ==
  LET n == Len(ps)
      spread == n * Total([i \in 1..n |-> ps[i] * ps[i]]) - Total(ps) * Total(ps)
      distance == n * p - Total(ps)
  IN  /\ spread > 0
      /\ 100 * distance * distance * (n - 1) >= tenths * tenths * n * spread
=============================================================================
