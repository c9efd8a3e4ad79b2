----------------------------- MODULE Statistics -----------------------------
(***************************************************************************)
(* The exact tests the gates rest on (models/statistics.py), over whole    *)
(* numbers: a probability is a fraction num/den and a significance level a *)
(* percentage.  The bootstrap and the normal approximation are sampling    *)
(* and real arithmetic and are left out.                                   *)
(***************************************************************************)
EXTENDS Integers, FiniteSetsExt, Combinatorics

\* P(X >= k) for n draws of probability num/den, in units of den^n.
UpperTail(n, k, num, den) ==
    MapThenSumSet(LAMBDA j : choose(n, j) * num ^ j * (den - num) ^ (n - j), k..n)

\* binomial_vs_breakeven(...).significant(alpha) with a positive effect.
BeatsBreakEven(wins, total, num, den, alphaPct) ==
    /\ total > 0
    /\ wins * den > num * total
    /\ 100 * UpperTail(total, wins, num, den) < alphaPct * den ^ total

\* mcnemar(...).significant(alpha): what only one of two models got right.
McNemar(onlyA, onlyB, alphaPct) ==
    /\ onlyA + onlyB > 0
    /\ 100 * UpperTail(onlyA + onlyB, onlyA, 1, 2) < alphaPct * 2 ^ (onlyA + onlyB)

\* The sum of squared errors of a set of forecasts, points of a grid of unit
\* steps, of what happened: the Brier score times the number of forecasts.
SquaredError(S, Prob(_), Happened(_), unit) ==
    LET miss(x) == Prob(x) - (IF Happened(x) THEN unit ELSE 0)
    IN  SumFunction([x \in S |-> miss(x) * miss(x)])

\* The forecasts on the right side of one half.
Correct(S, Prob(_), Happened(_), unit) ==
    Cardinality({x \in S : (2 * Prob(x) >= unit) <=> Happened(x)})

=============================================================================
