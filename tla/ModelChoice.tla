----------------------------- MODULE ModelChoice -----------------------------
(***************************************************************************)
(* The three computations a training rests on before its verdict: which    *)
(* columns are kept (features/selection.py), which parameters win the      *)
(* search (models/search.py), and how far a model's probabilities are from *)
(* the frequencies (models/calibration.py).                                *)
(*                                                                         *)
(* Columns are numbers in their order.  How a method ranks them is data: a *)
(* sequence of the columns, best first, empty if the method failed.        *)
(* Scores and probabilities are whole numbers of a common unit.            *)
(***************************************************************************)
EXTENDS Integers, Sequences, FiniteSetsExt, Functions, SequencesExt

CONSTANTS
  Benches,     \* the inputs tried: [job, ...] by job
  VotePercent, \* vote_threshold
  One          \* the probability 1, and the worst Brier score

Failed == -1

\* Four methods rank, always; a search has a bench of folds, the same for every
\* candidate; a probability may be anything.
IsSelection(in) ==
  /\ in.job = "selection"
  /\ in \in [job : {"selection"}, columns : Seq(Nat), constant : SUBSET Nat,
             twins : SUBSET SUBSET Nat, rankings : [1..4 -> Seq(Nat)], limit : Nat \ {0}]
IsSearch(in) ==
  /\ in.job = "search"
  /\ in \in [job : {"search"}, first : Seq(Nat) \ {<<>>}, second : Seq(Nat) \ {<<>>},
             trials : Nat, folds : {in.folds}]
  /\ \A c \in Range(in.first) \X Range(in.second) :
       /\ in.folds[c] \in Seq(0..One \cup {Failed}) \ {<<>>}
       /\ \A d \in Range(in.first) \X Range(in.second) : DOMAIN in.folds[c] = DOMAIN in.folds[d]
IsCurve(in) ==
  /\ in.job = "calibration"
  /\ in \in [job : {"calibration"}, bins : Nat \ {0}, floor : Nat,
             forecasts : Seq([p : Int, up : BOOLEAN])]
  /\ 2 * in.floor <= One

IsBench(in) == IsSelection(in) \/ IsSearch(in) \/ IsCurve(in)

ChoiceConstants == One \in Nat \ {0} /\ VotePercent \in 1..100
ASSUME ChoiceAssumption == ChoiceConstants /\ \A in \in Benches : IsBench(in)

VARIABLE bench
benchVars == <<bench>>

-----------------------------------------------------------------------------
(* select_features(): input [columns, constant, twins, rankings, limit]. *)

Twins(in, c, d) == {c, d} \in in.twins

\* A slip: a column is compared with the last one kept only.
RedundantNeighbour(in, kept, c) == kept # <<>> /\ Twins(in, c, kept[Len(kept)])
Redundant(in, kept, c) == \E i \in DOMAIN kept : Twins(in, c, kept[i])

\* Of correlated columns the earlier one stays; a constant one never does.
Prune(in) ==
  LET kept[n \in 0..Len(in.columns)] ==
        IF n = 0 THEN <<>>
        ELSE IF in.columns[n] \in in.constant \/ Redundant(in, kept[n - 1], in.columns[n])
             THEN kept[n - 1]
             ELSE Append(kept[n - 1], in.columns[n])
  IN  kept[Len(in.columns)]
Pruned(in) == Range(Prune(in))

\* round(), half to even, of percent * n / 100.
Rounded(n, percent) ==
  LET whole == (percent * n) \div 100
      rest  == (percent * n) % 100
  IN  IF rest > 50 \/ (rest = 50 /\ whole % 2 = 1) THEN whole + 1 ELSE whole

\* A method that ran ranks the columns kept; its first ones get its vote.
Usable(in) == {i \in DOMAIN in.rankings : Range(in.rankings[i]) \cap Pruned(in) # {}}
Cutoff(in) == Max({1, Min({in.limit, Len(Prune(in))})})
Top(in, r) ==
  {r[k] : k \in {l \in DOMAIN r : r[l] \in Pruned(in)
                                /\ Cardinality({j \in 1..l : r[j] \in Pruned(in)}) <= Cutoff(in)}}
Votes(in, c) == Cardinality({i \in Usable(in) : c \in Top(in, in.rankings[i])})
Required(in) == Max({1, Rounded(Cardinality(Usable(in)), VotePercent)})
Survivors(in) == {c \in Pruned(in) : Votes(in, c) >= Required(in)}

\* By votes, then by name.
Ahead(in, c, d) == Votes(in, c) > Votes(in, d) \/ (Votes(in, c) = Votes(in, d) /\ c < d)

FirstOf(seq, n) == SubSeq(seq, 1, Min({n, Len(seq)}))
Selected(in) ==
  IF Usable(in) = {} THEN FirstOf(Prune(in), in.limit)
  ELSE [k \in 1..Min({in.limit, Cardinality(Survivors(in))}) |->
          CHOOSE c \in Survivors(in) : Cardinality({d \in Survivors(in) : Ahead(in, d, c)}) = k - 1]

\* The trainer falls back to every column when no feature survives.
Chosen(in) == IF Selected(in) = <<>> THEN in.columns ELSE Selected(in)

-----------------------------------------------------------------------------
(* HyperparameterSearch.run(): input [first, second, trials, folds], two    *)
(* parameters with their values, and the score of each pair by fold, Failed *)
(* where the fit raised.                                                    *)

\* Every combination in the order of the keys, then the first of them.
GridCandidates(in) ==
  [k \in 1..(Len(in.first) * Len(in.second)) |->
     <<in.first[((k - 1) \div Len(in.second)) + 1], in.second[((k - 1) % Len(in.second)) + 1]>>]
Tried(in) == FirstOf(GridCandidates(in), in.trials)

FoldScore(s) == IF s = Failed THEN One ELSE s
\* The sum over the folds; every candidate has the same folds.
TrialScore(in, c) == SumFunction([k \in DOMAIN in.folds[c] |-> FoldScore(in.folds[c][k])])

\* The candidate itself stands for its hash, which breaks ties.
Better(in, c, d) ==
  \/ TrialScore(in, c) < TrialScore(in, d)
  \/ /\ TrialScore(in, c) = TrialScore(in, d)
     /\ c[1] < d[1] \/ (c[1] = d[1] /\ c[2] < d[2])
Untried == <<>>
Winner(in) ==
  IF Tried(in) = <<>> THEN Untried
  ELSE CHOOSE c \in Range(Tried(in)) : \A d \in Range(Tried(in)) \ {c} : Better(in, c, d)

-----------------------------------------------------------------------------
(* calibration_curve(): input [bins, floor, forecasts], a sequence of       *)
(* [p, up]; probabilities are kept away from 0 and One by the floor.        *)

Clipped(in, p) == Max({in.floor, Min({One - in.floor, p})})

\* Bins are closed below; the last is closed above.
InBin(in, b, p) ==
  /\ One * (b - 1) <= in.bins * p
  /\ IF b < in.bins THEN in.bins * p < One * b ELSE in.bins * p <= One * b

Bin(in, b) == {i \in DOMAIN in.forecasts : InBin(in, b, Clipped(in, in.forecasts[i].p))}
\* How far a forecast is from what came, and count * gap of a bin.
Misses(in) ==
  [i \in DOMAIN in.forecasts |->
     Clipped(in, in.forecasts[i].p) - (IF in.forecasts[i].up THEN One ELSE 0)]
WeightedGap(in, b) ==
  LET off == SumFunctionOnSet(Misses(in), Bin(in, b))
  IN  IF off < 0 THEN -off ELSE off
\* The curve's ECE times the number of samples.
EceTimesSamples(in) ==
  IF in.forecasts = <<>> THEN One
  ELSE SumFunction([b \in 1..in.bins |-> WeightedGap(in, b)])

-----------------------------------------------------------------------------
NoBench == [job |-> "none"]
BenchInit == bench = NoBench
Work(in) == bench = NoBench /\ bench' = in
BenchNext == \E in \in Benches : Work(in)
ChoiceSpec == BenchInit /\ [][BenchNext]_benchVars

-----------------------------------------------------------------------------
(* Properties. *)

\* What the selection returns was kept by the pruning, holds no constant and
\* no two correlated columns; every column has a vote, and at a threshold of a
\* half or more the votes of half of the methods that could rank, although the
\* product is rounded half to even; and two selections of the same rankings in
\* another order agree.
SelectionIsSound(in) ==
  LET s == Range(Selected(in))
      usable == Cardinality(Usable(in))
      shuffled == [in EXCEPT !.rankings = Reverse(in.rankings)]
  IN  /\ s \cap in.constant = {} /\ Cardinality(s) <= in.limit
      /\ \A c, d \in s : c # d => ~Twins(in, c, d)
      /\ usable # 0 => \A c \in s : /\ Votes(in, c) >= 1
                                   /\ VotePercent >= 50 => 2 * Votes(in, c) >= usable
      /\ Selected(in) = Selected(shuffled)

\* A candidate whose fits all failed wins only if every fit of every candidate
\* failed, and trying more candidates never gives a worse winner.
SearchIsSound(in) ==
  LET best == Winner(in)
      tried == Range(Tried(in))
  IN  /\ (in.trials # 0) = (best \in tried)
      /\ best \in tried /\ Range(in.folds[best]) = {Failed}
           => \A c \in tried, k \in DOMAIN in.folds[best] : FoldScore(in.folds[c][k]) = One
      /\ \A n \in 1..in.trials :
           TrialScore(in, best) <= TrialScore(in, Winner([in EXCEPT !.trials = n]))

\* Each forecast is counted in one bin, so no bin hides a bad one: the curve's
\* error is at least the difference between the mean forecast and the base
\* rate, whatever the bins are.
CurveIsSound(in) ==
  LET whole == [in EXCEPT !.bins = 1]
  IN  /\ \A i \in DOMAIN in.forecasts :
           Cardinality({b \in 1..in.bins : InBin(in, b, Clipped(in, in.forecasts[i].p))}) = 1
      /\ EceTimesSamples(in) >= EceTimesSamples(whole)

\* What a training takes from the three computations is sound: its features, its
\* parameters and its calibration error.
ChoicesAreSound ==
  CASE bench.job = "selection"   -> SelectionIsSound(bench)
    [] bench.job = "search"      -> SearchIsSound(bench)
    [] bench.job = "calibration" -> CurveIsSound(bench)
    [] OTHER -> TRUE
=============================================================================
