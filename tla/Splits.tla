------------------------------- MODULE Splits -------------------------------
(***************************************************************************)
(* models/validation.py: time-ordered folds over markets.  A row is        *)
(* [market, settle], rows map indices to rows; a split never parts the     *)
(* rows of one market.  A plan is the splitter's configuration: scheme,    *)
(* folds, trainSize, embargo and minTrain, all counted in markets.         *)
(***************************************************************************)
EXTENDS Integers, Sequences, FiniteSets, FiniteSetsExt

\* The members of a finite set in the order Before gives them.
InOrder(S, Before(_, _)) ==
  LET rank == [s \in S |-> Cardinality({t \in S : Before(t, s)})]
  IN  [k \in 1..Cardinality(S) |-> CHOOSE s \in S : rank[s] = k - 1]

MarketsOf(rows) == {rows[i].market : i \in DOMAIN rows}
Earliest(rows, g) == Min({rows[i].settle : i \in {j \in DOMAIN rows : rows[j].market = g}})

\* Markets by their earliest timestamp; the identifier breaks ties.
Precedes(rows, g, h) ==
  \/ Earliest(rows, g) < Earliest(rows, h)
  \/ Earliest(rows, g) = Earliest(rows, h) /\ g < h
MarketOrder(rows) == InOrder(MarketsOf(rows), LAMBDA g, h : Precedes(rows, g, h))

\* The rows, by index, of the markets at positions first+1 .. last.
RowsAt(rows, first, last) ==
  LET earlier(g) == Cardinality({h \in MarketsOf(rows) : Precedes(rows, h, g)})
      chosen     == {g \in MarketsOf(rows) : first <= earlier(g) /\ earlier(g) < last}
  IN  UNION {{i \in DOMAIN rows : rows[i].market = g} : g \in chosen}

TooFew(rows, plan) ==
  DOMAIN rows # {} /\ Cardinality(MarketsOf(rows)) < plan.minTrain + plan.folds

\* A slip: training runs up to the test period.
NoEmbargo(plan, start) == start
TrainEnd(plan, start) == Max({0, start - plan.embargo})

\* One fold's rows: k counts from 0, the last fold runs to the end.
FoldAt(rows, plan, k) ==
  LET total == Cardinality(MarketsOf(rows))
      size  == Max({1, (total - plan.minTrain) \div plan.folds})
      start == plan.minTrain + k * size
      end   == IF k = plan.folds - 1 THEN total ELSE start + size
      cut   == TrainEnd(plan, start)
      begin == IF plan.scheme = "rolling" THEN Max({0, cut - plan.trainSize}) ELSE 0
  IN  [train |-> RowsAt(rows, begin, cut), test |-> RowsAt(rows, start, end)]

\* What split() yields: folds with an empty side are skipped.
Folds(rows, plan) ==
  IF DOMAIN rows = {} \/ TooFew(rows, plan) THEN {}
  ELSE {f \in {FoldAt(rows, plan, k) : k \in 0..(plan.folds - 1)} : f.train # {} /\ f.test # {}}

\* final_holdout(): the tail of the markets, percent of them, kept apart.
Develop(rows, percent) ==
  LET total == Cardinality(MarketsOf(rows))
  IN  RowsAt(rows, 0, Max({1, (total * (100 - percent)) \div 100}))
Holdout(rows, percent) == DOMAIN rows \ Develop(rows, percent)

\* assert_no_leakage_between().
Leaks(rows, train, test) ==
  /\ train # {} /\ test # {}
  /\ \/ \E i \in train, j \in test : rows[i].market = rows[j].market
     \/ Max({rows[i].settle : i \in train}) > Min({rows[j].settle : j \in test})

=============================================================================
