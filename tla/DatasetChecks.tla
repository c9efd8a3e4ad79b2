---------------------------- MODULE DatasetChecks ----------------------------
(***************************************************************************)
(* What stands between the collected records and a model: the quality      *)
(* flags of an observation, the leakage scan, the eight checks of the      *)
(* audit, the readiness gate, and the join of snapshots to labels.         *)
(*                                                                         *)
(* Markets and snapshots are sets of records, a snapshot's line is its     *)
(* place in the file.  Time is in seconds, shares in percent.              *)
(***************************************************************************)
EXTENDS Splits

CONSTANTS
  Budgets,     \* source -> [late, hard, stale, trust], DEFAULT_BUDGETS
  Unregistered,\* the budget of every other source, FALLBACK_BUDGET
  Grid,        \* the snapshot horizons of the configuration
  WindowLen, LabelGrace, GuardTolerance, Provider,
  Forbidden,   \* names that are an outcome
  Engineered,  \* names a model is trained on
  Gates        \* TrainingConfig: [labelled, timelines, coverage, balance, low, samples]

-----------------------------------------------------------------------------
(* Observations and their quality. *)

BudgetFor(source) == IF source \in DOMAIN Budgets THEN Budgets[source] ELSE Unregistered

\* A reading [name, known, source, event, seen, notes] at the instant `at`.
FlagsOf(r, at) ==
  LET b     == BudgetFor(r.source)
      late  == r.seen - r.event
      flags == r.notes \cup
               IF ~r.known THEN {"missing"}
               ELSE (IF late > b.hard THEN {"out_of_budget"}
                     ELSE IF late > b.late THEN {"delayed"} ELSE {})
                    \cup (IF at - r.event > b.stale THEN {"stale"} ELSE {})
  IN  IF flags = {} THEN {"ok"} ELSE flags

Observe(r, at) ==
  [name |-> r.name, known |-> r.known, event |-> r.event, seen |-> r.seen,
   flags |-> FlagsOf(r, at), trust |-> BudgetFor(r.source).trust]

Penalty == [ok |-> 0, out_of_budget |-> 100, missing |-> 100, stale |-> 50, estimated |-> 35,
            interpolated |-> 30, delayed |-> 20, source_degraded |-> 25]

\* Observation.quality_score, times 10000.
Score(o) == IF o.known THEN (100 - Max({Penalty[f] : f \in o.flags})) * o.trust ELSE 0

\* FeatureSnapshot.quality_score >= percent and coverage >= percent.
QualityAtLeast(s, percent) ==
  /\ s.obs # {}
  /\ MapThenSumSet(Score, s.obs) >= 100 * percent * Cardinality(s.obs)
CoverageAtLeast(s, percent) ==
  /\ s.obs # {}
  /\ 100 * Cardinality({o \in s.obs : o.known}) >= percent * Cardinality(s.obs)

-----------------------------------------------------------------------------
(* Leakage. *)

LeaksOf(s, o) ==
  {k \in {"label_in_features", "future_event", "future_observation", "post_settlement"} :
     CASE k = "label_in_features"  -> o.name \in Forbidden
       [] k = "future_event"       -> o.known /\ o.event > s.at
       [] k = "future_observation" -> o.known /\ o.seen > s.at + GuardTolerance
       [] k = "post_settlement"    -> o.known /\ o.event > s.settle}

Inspect(s) ==
  (IF s.at > s.settle THEN {"snapshot_after_settlement"} ELSE {})
  \cup (IF s.at # s.settle - s.horizon THEN {"horizon_mismatch"} ELSE {})
  \cup UNION {LeaksOf(s, o) : o \in s.obs}

ScanFindsLeak(snapshots) == \E s \in snapshots : Inspect(s) # {}

\* scan_monotonicity(): a later snapshot's newest event is older.
Newest(s) == Max({o.event : o \in {p \in s.obs : p.known}})
OutOfOrder(snapshots) ==
  \E s, t \in {u \in snapshots : \E o \in u.obs : o.known} :
     /\ s.market = t.market
     /\ s.horizon > t.horizon
     /\ Newest(t) < Newest(s)

-----------------------------------------------------------------------------
(* The audit: the names of the checks that fail. *)

Labelled(markets) == {m \in markets : m.outcome # "none"}

BadMarketTimes(m) ==
  \/ ~(m.open < m.lock /\ m.lock <= m.settle)
  \/ m.settle - m.open # WindowLen
  \/ m.discovered > m.settle
OutsideItsWindow(markets, s) ==
  \E m \in markets : m.id = s.market /\ ~(m.open <= s.at /\ s.at <= m.settle)

Overdue(markets) ==
  {m \in markets : /\ m.outcome = "none"
                   /\ Max({n.settle : n \in markets}) - m.settle > LabelGrace}

NamesIn(ss) == UNION {{o.name : o \in s.obs} : s \in ss}
Vanished(snapshots) ==
  LET order == InOrder(snapshots,
        LAMBDA s, t : s.at < t.at \/ (s.at = t.at /\ s.line < t.line))
      half  == Max({1, Len(order) \div 2})
  IN  NamesIn({order[i] : i \in 1..half}) \ NamesIn({order[i] : i \in (half + 1)..Len(order)})

Minority(markets) ==
  LET n  == Cardinality(Labelled(markets))
      up == Cardinality({m \in markets : m.outcome = "up"})
  IN  (100 * Min({up, n - up})) \div n

\* A slip: a window recorded twice goes unseen.
NoDuplicateCheck(markets) == FALSE
SameWindowTwice(markets) ==
  \E m, n \in markets : m # n /\ m.settle = n.settle /\ m.series = n.series

AuditChecks(markets, snapshots) ==
  [label_leakage       |-> ScanFindsLeak(snapshots) \/ OutOfOrder(snapshots),
   duplicate_markets   |-> SameWindowTwice(markets),
   duplicate_snapshots |-> \E s, t \in snapshots :
                             s # t /\ s.market = t.market /\ s.horizon = t.horizon,
   timestamps          |-> \/ \E m \in markets : BadMarketTimes(m)
                           \/ \E s \in snapshots : OutsideItsWindow(markets, s),
   missing_labels      |-> Overdue(markets) # {},
   schema_drift        |-> snapshots # {} /\ Vanished(snapshots) # {},
   provider_mismatch   |-> \/ \E m \in markets : m.provider # Provider
                           \/ Cardinality({m.spec : m \in markets}) > 1,
   class_imbalance     |-> \/ Labelled(markets) = {}
                           \/ Minority(markets) < Gates.balance]
AuditFailures(markets, snapshots) ==
  LET fails == AuditChecks(markets, snapshots)
  IN  {c \in DOMAIN fails : fails[c]}

-----------------------------------------------------------------------------
(* Readiness: the names of the gates that are not met. *)

Timelines(markets, snapshots) ==
  {m \in Labelled(markets) : Grid \subseteq {s.horizon : s \in {t \in snapshots : t.market = m.id}}}

\* Engineered features that some snapshot holds a value of.
Present(snapshots) ==
  Engineered \cap UNION {{o.name : o \in {p \in s.obs : p.known}} : s \in snapshots}

ReadinessFailures(markets, snapshots) ==
  LET low   == {s \in snapshots : ~QualityAtLeast(s, 50)}
      fails == [
        labelled_markets   |-> Cardinality(Labelled(markets)) < Gates.labelled,
        complete_timelines |-> Cardinality(Timelines(markets, snapshots)) < Gates.timelines,
        feature_coverage   |-> /\ Engineered # {}
                               /\ 100 * Cardinality(Present(snapshots))
                                    < Gates.coverage * Cardinality(Engineered),
        class_balance      |-> \/ Labelled(markets) = {}
                               \/ Minority(markets) < Gates.balance,
        quality            |-> /\ snapshots # {}
                               /\ 100 * Cardinality(low) > Gates.low * Cardinality(snapshots),
        min_samples        |-> Cardinality(snapshots) < Gates.samples]
  IN  {c \in DOMAIN fails : fails[c]}

-----------------------------------------------------------------------------
(* The join. *)

MarketNamed(markets, id) == CHOOSE m \in markets : m.id = id

\* A snapshot needs its market and, unless the caller asks for all, its label.
Keeps(markets, s, labelledOnly) ==
  /\ \E m \in markets : m.id = s.market
  /\ labelledOnly => MarketNamed(markets, s.market) \in Labelled(markets)
  /\ QualityAtLeast(s, 50)
  /\ CoverageAtLeast(s, 60)

\* build_rows(): a row carries its market's settlement and label.
RowOf(markets, s) ==
  [market |-> s.market, horizon |-> s.horizon, at |-> s.at, obs |-> s.obs, line |-> s.line,
   settle |-> MarketNamed(markets, s.market).settle,
   label  |-> MarketNamed(markets, s.market).outcome]

RowPrecedes(r, q) ==
  \/ r.settle < q.settle
  \/ r.settle = q.settle /\ r.horizon > q.horizon
  \/ r.settle = q.settle /\ r.horizon = q.horizon /\ r.line < q.line

Joined(markets, snapshots, labelledOnly) ==
  {RowOf(markets, s) : s \in {t \in snapshots : Keeps(markets, t, labelledOnly)}}
BuildRows(markets, snapshots, labelledOnly) ==
  InOrder(Joined(markets, snapshots, labelledOnly), RowPrecedes)

\* DatasetExporter.export(): refused over a leak or for want of rows.
ExportRefused(markets, snapshots, labelledOnly) ==
  ScanFindsLeak(snapshots) \/ BuildRows(markets, snapshots, labelledOnly) = <<>>
=============================================================================
