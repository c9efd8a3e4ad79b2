------------------------------- MODULE EdgeScan -------------------------------
(***************************************************************************)
(* The scan of the candidate horizons (backtest/edgescan.py): a strict     *)
(* walk-forward at each of them (backtest/walkforward.py), refitted in     *)
(* every fold of the splitter, a verdict on how stable its profit is, and  *)
(* how far a model fitted once is from the book.                           *)
(*                                                                         *)
(* What the engine makes of a row is data here: its profit, 0 where it     *)
(* does not trade, and the squared errors of the model and of the book.    *)
(* Every trade stakes one unit, and the bankroll starts anew in each fold. *)
(***************************************************************************)
EXTENDS Splits

CONSTANTS
    Scans,            \* [rows, pnl, model, book, folds, horizons], the latter a sequence
    EmbargoWindows    \* model.embargo_windows

\* The rows are of one series, which settles one market at a time.
IsScan(s) ==
    /\ s.folds \in Nat \ {0} /\ s.horizons \in Seq({s.horizons[k] : k \in DOMAIN s.horizons})
    /\ IsFiniteSet(DOMAIN s.rows)
    /\ \A i \in DOMAIN s.rows :
         s.rows[i].market \in Int /\ s.rows[i].settle \in Int /\ s.pnl[i] \in Int
    /\ \A i, j \in DOMAIN s.rows :
         s.rows[i].market = s.rows[j].market <=> s.rows[i].settle = s.rows[j].settle

ASSUME ScanAssumption == EmbargoWindows \in Nat /\ \A s \in Scans : IsScan(s)

VARIABLES
    scan,
    looked,    \* how many of its horizons have been looked at
    verdicts   \* report.horizons

scanVars == <<scan, looked, verdicts>>

\* A slip: a small embargo rounds to none.
PlanUnguarded(s) ==
    [scheme |-> "expanding", folds |-> s.folds, trainSize |-> 0,
     embargo |-> EmbargoWindows \div 4, minTrain |-> Max({10, 4 * s.folds})]

\* run_strict_walk_forward(): its splitter.
WalkPlan(s) ==
    [scheme |-> "expanding", folds |-> s.folds, trainSize |-> 0,
     embargo |-> Max({1, EmbargoWindows \div 4}), minTrain |-> Max({10, 4 * s.folds})]

At(s, h, idx) == {i \in idx : s.rows[i].horizon = h}
Net(s, idx) == SumFunctionOnSet(s.pnl, idx)
ErrorOf(by, idx) == SumFunctionOnSet(by, idx)

\* _earliest_training_slice(): as many markets as the splitter trains on at least.
EarliestSlice(s) == RowsAt(s.rows, 0, Min({WalkPlan(s).minTrain, Cardinality(MarketsOf(s.rows))}))

\* One horizon: the folds pooled, and the disagreement of the earliest model.
HorizonResult(s, h, folds) ==
    LET pooled == UNION {At(s, h, f.test) : f \in folds}
    IN  [horizon |-> h, folds |-> Cardinality(folds),
         profitable |-> Cardinality({f \in folds : Net(s, At(s, h, f.test)) > 0}),
         net |-> SumFunction([f \in folds |-> Net(s, At(s, h, f.test))]),
         trades |-> Cardinality({i \in pooled : s.pnl[i] # 0}),
         model |-> ErrorOf(s.model, pooled), book |-> ErrorOf(s.book, pooled),
         learnt |-> [i \in pooled |-> (CHOOSE f \in folds : i \in f.test).train],
         disagreement |-> [learnt |-> EarliestSlice(s), measured |-> At(s, h, DOMAIN s.rows)]]

\* Profitable, in most folds, and better than the book's own forecast.
Stable(r) ==
    /\ r.net > 0 /\ r.folds > 0
    /\ 10 * r.profitable >= 6 * r.folds
    /\ r.book > 0 /\ r.model < r.book

\* The highest return on stake among the stable; the first of equals.
BestOf(rs) ==
    {i \in DOMAIN rs :
        /\ Stable(rs[i])
        /\ \A j \in DOMAIN rs : Stable(rs[j]) =>
             IF j < i THEN rs[i].net * rs[j].trades > rs[j].net * rs[i].trades
                      ELSE rs[i].net * rs[j].trades >= rs[j].net * rs[i].trades}

ScanInit == scan \in Scans /\ looked = 0 /\ verdicts = <<>>

\* scan_horizons(): a horizon without rows is passed over.
ScanHorizon ==
    /\ looked < Len(scan.horizons)
    /\ looked' = looked + 1
    /\ \E folds \in {Folds(scan.rows, WalkPlan(scan))}, h \in {scan.horizons[looked + 1]} :
         verdicts' = IF At(scan, h, DOMAIN scan.rows) = {} THEN verdicts
                     ELSE Append(verdicts, HorizonResult(scan, h, folds))
    /\ UNCHANGED scan

ScanNext == ScanHorizon
ScanSpec == ScanInit /\ [][ScanNext]_scanVars

-----------------------------------------------------------------------------
SettlesOf(idx) == {scan.rows[i].settle : i \in idx}

\* "No horizon is ever chosen using data it was also evaluated on"
\* (edgescan.py:334), as far as its forecasts go: each was made by a model that
\* learnt from earlier markets only, at least one market lying between; a market
\* counts once however the folds fall; the model whose disagreement is shown
\* learnt nothing of the windows the verdict rests on.  A verdict of stable does
\* not rest on one of the folds asked for, unless the embargo is as long as the
\* first training period and costs folds.  And one best horizon is named exactly
\* when there is a stable one.
EvidenceIsForward ==
    /\ \A k \in DOMAIN verdicts :
         LET r == verdicts[k]
         IN  /\ \A i \in DOMAIN r.learnt : \E t \in SettlesOf(DOMAIN scan.rows) :
                  Max(SettlesOf(r.learnt[i])) < t /\ t < scan.rows[i].settle
             /\ r.net = Net(scan, DOMAIN r.learnt)
             /\ SettlesOf(DOMAIN r.learnt) \cap SettlesOf(r.disagreement.learnt) = {}
             /\ Stable(r) /\ scan.folds > 1 /\ EmbargoWindows < 40 => r.profitable > 1
    /\ Cardinality(BestOf(verdicts)) =
         IF \E k \in DOMAIN verdicts : Stable(verdicts[k]) THEN 1 ELSE 0

=============================================================================
