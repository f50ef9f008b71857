------------------------------ MODULE MapReduce ------------------------------
(***************************************************************************)
(* The Hadoop Streaming job (hadoop/mapper.py, hadoop/reducer.py) as the    *)
(* batch runner pipes it: mapper, sort, reducer.  A line of its input is    *)
(* Malformed or a trade, a record with a symbol (a number, in the order of  *)
(* their names), a price and a quantity.                                    *)
(***************************************************************************)
EXTENDS Statistics, TLC

CONSTANTS Malformed,
          MinRows, PriceZ, VolRatio   (* MIN_TRADES, PRICE_Z_THRESHOLD,      *)
                                      (* VOL_RATIO_THRESHOLD                 *)
-----------------------------------------------------------------------------
(* The mapper: one record a line, malformed lines skipped.                  *)
Mapped(lines) == SelectSeq(lines, LAMBDA x : x # Malformed)

(* The shuffle: whole lines sorted, so the symbol decides first.            *)
Before(a, b) ==
  \/ a.symbol < b.symbol
  \/ a.symbol = b.symbol /\ a.price < b.price
  \/ a.symbol = b.symbol /\ a.price = b.price /\ a.quantity < b.quantity

Shuffled(records) == SortSeq(records, Before)

(* The rows of one symbol that flush() emits.                               *)
Flagged(rows) ==
  LET n == Len(rows)
      prices == [i \in 1..n |-> rows[i].price]
      volume == Total([i \in 1..n |-> rows[i].quantity])
      odd(r) == \/ FarFrom(prices, r.price, PriceZ)
                \/ volume > 0 /\ r.quantity * n >= VolRatio * volume
  IN  IF n < MinRows THEN << >> ELSE SelectSeq(rows, odd)

(* Mutant: the rows are not reset when the symbol changes.                  *)
ReduceOnto(z, r) ==
  IF z.rows = << >> \/ Last(z.rows).symbol = r.symbol
  THEN [z EXCEPT !.rows = Append(@, r)]
  ELSE [rows |-> Append(z.rows, r), out |-> z.out \o Flagged(z.rows)]

(* One record more, rows being those of the symbol being collected.         *)
Reduce(z, r) ==
  IF z.rows = << >> \/ Last(z.rows).symbol = r.symbol
  THEN [z EXCEPT !.rows = Append(@, r)]
  ELSE [rows |-> <<r>>, out |-> z.out \o Flagged(z.rows)]

Reduced(records) ==
  LET z == FoldLeft(Reduce, [rows |-> << >>, out |-> << >>], records)
  IN  z.out \o Flagged(z.rows)

(* How many lines come out of the pipe for what is in the file.             *)
Anomalies(lines) == Len(Reduced(Shuffled(Mapped(lines))))
=============================================================================
