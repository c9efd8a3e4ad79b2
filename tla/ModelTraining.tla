---------------------------- MODULE ModelTraining ----------------------------
(***************************************************************************)
(* `pmbtc train` and `pmbtc dataset-export` over a data set, and the model *)
(* registry they leave behind: a directory per model with a card and an    *)
(* estimator, and the file that names the production model.  One command   *)
(* runs at a time; a kill may cut any of its writes.                       *)
(*                                                                         *)
(* What the estimator learns is data: a training's Evaluation says how it  *)
(* scored, on the one scale every model is scored on.                      *)
(***************************************************************************)
EXTENDS DatasetChecks

CONSTANTS
  Datasets,         \* [markets, snapshots] the command may find
  Plans, HoldoutPct,
  ModelIds,         \* a training takes the next; bounds the trainings
  Evaluations,      \* [columns, score, bars, significant, ece, deterministic, fast, stable, beats]
  Margin,           \* min_baseline_improvement
  MinImprovement,   \* min_brier_improvement
  MaxEce

ASSUME RegistryAssumption == ModelIds \subseteq Nat \ {0}

\* The store keys its markets by id and holds those of one series; a snapshot
\* has a line of its own.
ASSUME DatasetAssumption ==
  /\ GuardTolerance \in Nat
  /\ \A d \in Datasets :
       /\ IsFiniteSet(d.markets) /\ IsFiniteSet(d.snapshots)
       /\ \A m \in d.markets : /\ m.id \in Int /\ m.settle \in Int
                               /\ m.outcome \in {"none", "up", "down"}
       /\ \A m, n \in d.markets : m.series = n.series /\ (m.id = n.id => m = n)
       /\ \A s \in d.snapshots : /\ s.at \in Int /\ s.horizon \in Int /\ s.line \in Int
                                 /\ \A o \in s.obs : o.event \in Int /\ o.seen \in Int
       /\ \A s, t \in d.snapshots : s.line = t.line => s = t

ASSUME PlanAssumption ==
  \A p \in Plans : /\ p.folds \in Nat \ {0} /\ p.trainSize \in Nat \ {0}
                   /\ p.embargo \in Nat /\ p.minTrain \in Nat

VARIABLES
  step,        \* of the running command
  data, rows,  \* of the running command: [markets, snapshots, plan] and the joined rows
  trial,       \* the training under way: [id, holdout, touched, eval, approved]
  cards, estimators, \* files by model: "none", "torn", "whole"; a promoted card is "marked"
  results,     \* promoted model -> its Evaluation
  pointer      \* Nothing, Cut or a model

trainVars == <<step, data, rows, trial, cards, estimators, results, pointer>>

NoTrial == [id |-> 0]
NoResult == [columns |-> ""]
NoData == [markets |-> {}, snapshots |-> {}]
Nothing == 0
Cut == -1
Unstarted == {i \in ModelIds : cards[i] = "none"}
NewModel == CHOOSE i \in Unstarted : TRUE

-----------------------------------------------------------------------------
(* The rows each stage is given. *)

\* A slip: the ranking of the features sees every row.
SelectsOnAll(all, dev) == DOMAIN all
SelectsOn(all, dev) == dev

Rank(dev, i) == Cardinality({j \in dev : j <= i})
FitCut(dev) == Max({1, (85 * Cardinality(dev)) \div 100})

Restricted(all, dev) == [i \in dev |-> all[i]]
SearchRows(all, dev, p) == UNION {f.train \cup f.test : f \in Folds(Restricted(all, dev), p)}

Touched(all, dev, p) ==
  [selection  |-> SelectsOn(all, dev),
   search     |-> SearchRows(all, dev, p),
   fit        |-> {i \in dev : Rank(dev, i) <= FitCut(dev)},
   calibrator |-> {i \in dev : Rank(dev, i) > FitCut(dev)},
   baselines  |-> dev]

-----------------------------------------------------------------------------
(* The promotion gate. *)

\* A baseline blocks unless it is beaten by the margin.
Blocking(e) == {b \in DOMAIN e.bars : e.bars[b] - e.score < Margin}

\* The artifact is never reloaded, so that check always holds.
ShadowPasses(e, holdout) == holdout # {} /\ e.deterministic /\ e.fast /\ e.stable

\* A slip: any improvement will do.
AnyGain(e, champion) == champion.score > e.score
BeatsChampion(e, champion) ==
  /\ champion.score - e.score >= MinImprovement
  /\ e.beats

\* The champion's predictions count when it loads and has the same columns.
Comparable(id, e) ==
  /\ id \in ModelIds
  /\ estimators[id] = "whole"
  /\ results[id].columns = e.columns

Approves(e, holdout) ==
  /\ Blocking(e) = {}
  /\ e.significant
  /\ e.ece <= MaxEce
  /\ ShadowPasses(e, holdout)
  /\ Comparable(pointer, e) => BeatsChampion(e, results[pointer])

-----------------------------------------------------------------------------
TrainInit ==
  /\ step = "idle"
  /\ data = NoData /\ rows = <<>>
  /\ trial = NoTrial
  /\ cards = [i \in ModelIds |-> "none"] /\ estimators = cards
  /\ results = [i \in ModelIds |-> NoResult]
  /\ pointer = Nothing

registry == <<cards, estimators, results, pointer>>

Stop == step' = "idle" /\ trial' = NoTrial /\ data' = NoData /\ rows' = <<>>
Go(next) == step' = next /\ UNCHANGED <<data, rows>>

\* The command reads the store and joins it; without rows it ends.
StartTraining(d, p) ==
  /\ step = "idle"
  /\ Unstarted # {}
  /\ data' = [markets |-> d.markets, snapshots |-> d.snapshots, plan |-> p]
  /\ rows' = BuildRows(d.markets, d.snapshots, TRUE)
  /\ rows' # <<>>
  /\ step' = "gates"
  /\ UNCHANGED <<trial, registry>>

\* Readiness, then the audit: a failure of either ends the training.
PassGates ==
  /\ step = "gates"
  /\ IF \/ ReadinessFailures(data.markets, data.snapshots) # {}
        \/ AuditFailures(data.markets, data.snapshots) # {}
     THEN Stop
     ELSE Go("develop") /\ UNCHANGED trial
  /\ UNCHANGED registry

\* Holdout, selection, search, cross-validation, fit, calibration, scores.
DevelopModel(e) ==
  LET dev  == Develop(rows, HoldoutPct)
      kept == Holdout(rows, HoldoutPct)
  IN  /\ step = "develop"
      /\ IF Leaks(rows, dev, kept) \/ TooFew(Restricted(rows, dev), data.plan)
         THEN Stop
         ELSE /\ trial' = [id |-> NewModel, holdout |-> kept, eval |-> e,
                           touched |-> Touched(rows, dev, data.plan)]
              /\ Go("judge")
      /\ UNCHANGED registry

\* The champion is read here; a card that does not load ends the training.
Judge ==
  /\ step = "judge"
  /\ IF pointer \in ModelIds /\ cards[pointer] \notin {"whole", "marked"}
     THEN Stop
     ELSE /\ trial' = [id |-> trial.id, eval |-> trial.eval,
                       approved |-> Approves(trial.eval, trial.holdout)]
          /\ Go("card")
  /\ UNCHANGED registry

SaveCard ==
  /\ step = "card"
  /\ cards' = [cards EXCEPT ![trial.id] = "whole"]
  /\ Go("estimator")
  /\ UNCHANGED <<trial, estimators, results, pointer>>

\* A slip: the pointer moves first, the card is marked afterwards.
PointerFirst == "pointer"
AfterSave == "promote"

SaveEstimator ==
  /\ step = "estimator"
  /\ estimators' = [estimators EXCEPT ![trial.id] = "whole"]
  /\ IF trial.approved THEN Go(AfterSave) /\ UNCHANGED trial ELSE Stop
  /\ UNCHANGED <<cards, results, pointer>>

\* promote() writes the card again, marked, and then the pointer.
MarkCard ==
  /\ step = "promote"
  /\ cards' = [cards EXCEPT ![trial.id] = "marked"]
  /\ Go("pointer")
  /\ UNCHANGED <<trial, estimators, results, pointer>>

MovePointer ==
  /\ step = "pointer"
  /\ pointer' = trial.id
  /\ results' = [results EXCEPT ![trial.id] = trial.eval]
  /\ Stop
  /\ UNCHANGED <<cards, estimators>>

\* The exporter joins the same way, with --include-unlabelled every market, and
\* writes its rows at the end.
StartExport(d, labelledOnly) ==
  /\ step = "idle"
  /\ ~ExportRefused(d.markets, d.snapshots, labelledOnly)
  /\ rows' = BuildRows(d.markets, d.snapshots, labelledOnly)
  /\ step' = IF labelledOnly THEN "export" ELSE "export_all"
  /\ UNCHANGED <<data, trial, registry>>
FinishExport == step \in {"export", "export_all"} /\ Stop /\ UNCHANGED registry

\* A kill: the file being written may be cut.
Kill ==
  /\ step \in {"card", "estimator", "promote", "pointer"}
  /\ Stop
  /\ cards' \in {cards} \cup
       IF step \in {"card", "promote"} THEN {[cards EXCEPT ![trial.id] = "torn"]} ELSE {}
  /\ estimators' \in {estimators} \cup
       IF step = "estimator" THEN {[estimators EXCEPT ![trial.id] = "torn"]} ELSE {}
  /\ pointer' \in {pointer} \cup IF step = "pointer" THEN {Cut} ELSE {}
  /\ UNCHANGED results

TrainNext ==
  \/ \E d \in Datasets, p \in Plans : StartTraining(d, p)
  \/ PassGates
  \/ \E e \in Evaluations : DevelopModel(e)
  \/ Judge
  \/ SaveCard \/ SaveEstimator \/ MarkCard \/ MovePointer
  \/ \E d \in Datasets, labelledOnly \in BOOLEAN : StartExport(d, labelledOnly)
  \/ FinishExport
  \/ Kill

TrainSpec == TrainInit /\ [][TrainNext]_trainVars

-----------------------------------------------------------------------------
(* Properties. *)

\* models/validation.py:5-20: in every fold a market is on one side, nothing
\* trained on settles after what is tested, the embargo lies between them, and
\* the folds together test every market after the first minTrain once.
FoldsAreClean ==
  step = "develop" =>
    LET order == MarketOrder(rows)
        place(i) == CHOOSE k \in DOMAIN order : order[k] = rows[i].market
        folds == Folds(rows, data.plan)
    IN  /\ \A f \in folds : \A i \in f.train, j \in f.test :
             /\ rows[i].settle <= rows[j].settle
             /\ place(i) + data.plan.embargo < place(j)
        /\ data.plan.embargo < data.plan.minTrain /\ ~TooFew(rows, data.plan) =>
             \A j \in {i \in DOMAIN rows : place(i) > data.plan.minTrain} :
               Cardinality({f \in folds : j \in f.test}) = 1

\* The holdout is used for the verdict alone: no stage before it was given a
\* row of a market that is held out, and the calibrator never saw a row the
\* model was fitted on.
HoldoutUntouched ==
  step = "judge" =>
    /\ \A stage \in DOMAIN trial.touched :
         \A i \in trial.touched[stage], j \in trial.holdout : rows[i].market # rows[j].market
    /\ trial.touched.fit \cap trial.touched.calibrator = {}

\* Whatever reaches a model or a file was known at its own instant.  What
\* reaches a model, or a file of which all markets were not asked for
\* (cli.py:624-626), was labelled; what reaches a model holds no window and no
\* snapshot twice.
Known(r) ==
  \A o \in r.obs : /\ o.name \notin Forbidden
                   /\ o.known => o.event <= r.at /\ o.seen <= r.at + GuardTolerance
SoundRows ==
  /\ step \in {"export", "export_all", "develop"} =>
       \A i \in DOMAIN rows : Known(rows[i])
  /\ step \in {"export", "develop"} =>
       \A i \in DOMAIN rows : rows[i].label \in {"up", "down"}
  /\ step = "develop" =>
       /\ \A i \in DOMAIN rows : rows[i].at <= rows[i].settle
       /\ \A i, j \in DOMAIN rows :
            i # j => \/ rows[i].settle # rows[j].settle
                     \/ rows[i].horizon # rows[j].horizon

\* A model in production has its card, marked, and its estimator: whatever
\* write a kill cut, the pointer never names a model that does not load.
ProductionLoads ==
  pointer \in ModelIds => cards[pointer] = "marked" /\ estimators[pointer] = "whole"

\* The model that replaces a champion of the same columns beats it by the
\* configured improvement, and cleared every baseline.
ChampionYieldsToBetter ==
  [][ pointer' # pointer /\ pointer' \in ModelIds =>
        LET new == results'[pointer']
        IN  /\ Blocking(new) = {}
            /\ pointer \in ModelIds /\ new.columns = results[pointer].columns =>
                 results[pointer].score - new.score >= MinImprovement ]_trainVars

=============================================================================
