# TLA+ models of pmbtc

Specifications of `pmbtc`, a paper-trading system for Polymarket's five-minute Bitcoin
markets: what its ledgers, journals, feeds, gates, archives and long-running processes
promise, and what its offline half (data set, training, backtest, reports) computes;
model-checked with TLC and, where it matters most, proved with TLAPS.
Paths below are relative to `src/pmbtc/` of the repository.

## The system

Two long-running processes, and short commands beside them.

| component | state it keeps | operations that change it | with whom it interacts |
|---|---|---|---|
| risk ledger `trading/risk.py` | bankroll, exposure, day and week P&L, streak, cool-off, halt (memory) | `check` (rolls the periods), `register_open`, `register_close` | called by the paper engine and the backtest; reads the kill-switch file |
| paper engine, runner `paper/engine.py`, `runner.py` | the ledger, sessions | `evaluate`, `settle`, the loop | discovery, CLOB feed, journal, Gamma |
| paper journal `paper/journal.py` | a JSONL file; keys of decided and settled markets (memory) | `record_decision`, `record_settlement`, `_load_keys` | read back by `pending`, reports |
| feed and books `live/feed.py`, `clob.py`, `book.py` | connection state, uptime, seen hashes, two books (memory) | connect, `handle`, disconnect, `stop` | the venue's websocket; read by features and the paper engine |
| tick archive `live/archive.py` | buffers, gzip files | `write`, rotate, `close` | written by every feed |
| reference feed, trade tape `live/binance.py`, `tape.py` | last trade and quote, a window of trades (memory) | `handle`, `append`, trimming | the venue's stream; read by features and the service |
| discovery, lifecycle `gamma/discovery.py`, `lifecycle.py` | market states (memory and JSONL) | `scan`, `observe` | Gamma; settlement history; feeds the two loops |
| Gamma client, schema registry, replay `gamma/` | archived responses; versions of payload shapes (memory and JSON) | requests, `_record`, `validate`, `observe` | the venue; discovery |
| settlement parser `settlement/parser.py`, `spec.py`, `providers.py` | none | `parse` and the checks of `verify` | asked by discovery |
| settlement history, verifier `settlement/store.py`, `verifier.py` | hash of each market and of each series (memory and JSONL) | `record` | asked by discovery |
| collection service `live/service.py` | sessions, open prices, error count | the loop: scan, capture, label, heartbeat | discovery, feeds, collector |
| dataset collector, store, guard `dataset/` | markets, snapshots (memory and JSONL), misses | `register`, `capture`, `sweep_missed`, `resolve_pending_labels` | features, Gamma |
| feature engine `features/` | graph, previous values | `compute`, whole or incremental | called by the provider of snapshots |
| supervisor, heartbeat `ops/` | lock, child, failure count; heartbeat file | `run`, `_watch`, `stop_child` | the operating system, the collector process |
| alerts `ops/alerts.py` | one JSON file | `evaluate`, `dispatch` | collector, supervisor, `pmbtc watch` |
| clock `clock.py` | samples, offset | `add_sample`, `sync` | read by everything |
| decision, sizing, costs, validation `trading/` | the validator's monitor | `decide`, `size`, `fill` | paper engine and backtest |
| backtest `backtest/` | one ledger for each run | replay, reports, horizon scan | data set, decision chain |
| data set tools `dataset/` | files | audit, quality filter, export | the store; training |
| training `models/`, `features/selection.py` | registry: cards, estimators, the production pointer | `train`, `promote` | data set; read by the engines |
| paper record `paper/execution.py`, `report.py` | none | measurement, report, promotion gate | journal and tape |

What is hard: everything in one process runs on one asyncio loop, so interleavings happen at
`await`s only; but processes are killed and restarted over append-only files whose last line
may be torn, memory and file are written one after the other, requests and writes fail in the
middle of a pass, frames are lost at a reconnect and delivered twice, days turn over with
positions open, outcomes come late and are corrected, and two supervisors may run. The list
with lines is `hazards` in `PROJECT.json`, each with the property that is about it or the
reason why there is none.

## Modules

```
Holdings ── StakeAccount          abstract account
   └─ RiskRules ── RiskLedger ── MCRiskLedger          LedgerProofs
        ├───────── PaperTrading ── MCPaperTrading      PaperTradingProofs
        │  JsonlFile ──┘
        └───────── Backtest ── MCBacktest              LedgerProofs
     Opportunity, Statistics ──┘
ClobFeed ── MCClobFeed                ClobFeedProofs
Supervisor                            OperationsProofs
SettlementGate ── MCSettlementGate    SettlementGateProofs
Collection ── MCCollection            DatasetProofs
Splits ── DatasetChecks ── ModelTraining ─┐           DatasetProofs
   └───── EdgeScan ───────────────────────┤
FeatureEngine, ModelChoice ───────────────┼── MCResearch
Statistics ── PaperRecord ────────────────┘           DatasetProofs
GammaRequests, GammaArchive, SchemaRegistry ── Gamma ─┐  OperationsProofs
ClockService, Alerts, SettlementSpec, ReferencePrice ─┤  OperationsProofs
TickArchive ── TradeTape ─────────────────────────────┤  OperationsProofs
                                                      └── MCOperations
```

`MCResearch` and `MCOperations` put parts that share no state into one run: `part` says which
of them a behaviour is about, the others rest at an initial state. Nothing is concluded there
about two parts together.

### The ledgers, feeds and services

**Holdings** - sums and counts over the open positions. **StakeAccount** - the abstract
account: a stake leaves the cash once and its payoff enters it once; no limits.

**RiskRules** - `RiskState` and the methods of `RiskLedger` as operators on a record
(`RollPeriods`, `Allowed`, `RegisterOpen`, `RegisterClose` with `CountStreak` for
`stand_down` and `HaltIfBreached` for `halt`), shared by the two modules that own a ledger.
Money is in whole units, time in ticks, calendars are constants. **RiskLedger** - the ledger
with any caller that keeps its contract: `Open` is a `check` that allowed a stake the sizer
can return, followed by `register_open` at a cost the fill model can give; `Close` is
`register_close`. `stakes`, `realised`, `booked`, `drought`, `pausedAt` are what an observer
knows; the ledger reads none of them. It implements `StakeAccount` (`AccountSpec`).

**JsonlFile** - the append-only file: a write cut short leaves a line without a newline and
the next append continues on it. **PaperTrading** - engine, runner and journal over that file
and a ledger from `RiskRules`. `Skip` and `Trade` are `evaluate`, `Settle` is `settle`,
`EvaluateFails` and `SettleFails` the same with a write that fails, in the code's order
(journal before ledger in one, ledger before journal in the other). `Crash` may cut a write;
`Restart` reloads the keys and builds a fresh ledger. The decision band is one tick, markets
follow each other as in the venue's series. Journal and bankroll together implement
`StakeAccount` (`JournalIsAccount`).

**ClobFeed** - the loop of `WebSocketFeed._run` (`Connecting`, `Connect`, `Quiet`,
`Disconnect`, `Stop`), the handler (`Handle`: `book` replaces, `price_change` sets a level,
known hashes are dropped) and the venue behind a connection that delivers in order until it
breaks (`Move`, `SendBook`, `Redelivered`). `past` keeps the venue's books so that properties
can say what the feed's book should be. A hash names a version of a book, as the comments at
`live/clob.py:138` and `live/book.py:45` take it to.

**Supervisor** - runs of `CollectorSupervisor`, the collectors they spawn, the machine lock,
the one heartbeat file. A heartbeat is written in steps (`Open`, `Publish`, `PublishFails`) by
way of the one `heartbeat.tmp`: two that write it at the same time may leave either payload or
one that does not parse. `Judge` reads the file as it is, `JudgeBlind` is refused it by the
system. Time is ages that stop at the point where they no longer matter, so the module has no
time bound.

**SettlementGate** - `MarketDiscovery._process` for the markets of one series, as `Unreadable`,
`Unhealthy`, `Refused`, `Accepted`, with the settlement history (`Record`, `Known`), the
lifecycle log (`Observe`), amendments by the venue, kills between any two markets and
between `record()` and the verdict (`CrashAfterRecord`), and appends that the disk refuses:
`RecordFails` leaves nothing behind, `RejectionFails` and `VerdictFails` leave the transition in
memory that the log lacks (`unlogged`), and each abandons its scan. Memory and files are
separate variables; a restart rebuilds the one from the other.

**Collection** - an iteration of `CollectionService.run`: `Sync` (close), `Scanned` (open and
register), then each session in turn: `Capture`, a step for each horizon that is due, and
`Sweep`; `BeginLabels` and an answer for each market, `Rest`. What is due is decided by the
clock as the pass has read it (`readAt`), what is captured is stamped with the clock of then:
a pass may take up to `PassTime`. `...Fails` actions are the same steps
with a request or a write that raises: the rest of the iteration is lost, too many in a row
end the process. Memory (`label`, `snaps`) and files are separate.

### The decision chain and the offline half

**Opportunity** - the chain of `trading/` from a model's claim to a position or a named
refusal, as operators: the disagreement monitor, the blend with the book, each gate of
`decide()` in its order, Kelly with its caps and rounding, prices, fees, depth, and
`ValidConfig`, the ranges and cross checks of `config.py` that it rests on. **Statistics** -
the exact binomial tests. **Backtest** - `BacktestEngine` over every data set of rows, one
window at a time, with a `RiskRules` ledger for each lookback and one monitor throughout;
`Report` is what `metrics.py`, `attribution.py` and the verdict make of a run.

**Splits** - walk-forward folds over markets, embargo, holdout. **DatasetChecks** - flags and
exclusions of an observation, the leakage scan, the checks of the audit, the readiness gate,
the join of snapshots to labels. **ModelTraining** - `pmbtc train` as one action for each
write it makes (estimator, card, marked card, pointer) after the gates that may refuse it, an
export between, with or without the markets that have no label (`--include-unlabelled`), kills
that cut a write; what an estimator learns is data (`Evaluation`).
**FeatureEngine** - the graph (`Build`, topological order, impact of a change) and passes over
it; a value is what was read to compute it. **ModelChoice** - selection by votes, the search's
ranking of trials, the calibration curve: pure operators over bounded inputs.
**EdgeScan** - the walk-forward at each candidate horizon, its verdict, and the model whose
disagreement with the book is shown. **PaperRecord** - the tape that follows a paper decision,
the measurement of its fill, the report and the gate before live trading.

### The helpers

**ClockService** - references, samples, offset and uncertainty, under a machine clock that is
set now and then, and `can_submit_order`. **Alerts** - three processes over one file, each in
steps: `Load` reads it, `Dispatch` decides and sends the notices, `Save` writes the file;
`SaveFails` leaves it as it was or cut off, `Interrupted` is a kill with some of the notices sent.
**TickArchive** - buffers, rotation and gzip members of one feed: `Write` puts a frame into the
buffer, `Flush` writes a buffer that is full, `FlushFails` writes some or all of it and keeps it;
kills at any point, and reading a day back.
**TradeTape** - windows over trades that come in any order; with the archive, what a feed leaves
behind (`RecordsAreWhole`). **SettlementSpec** - from the
channels of a payload (rules' words, URLs, slugs, instants) to a specification with evidence,
conflicts and hash, and every check of `verify()`. **GammaRequests** - a lookup with two
queries and their retries, while the market closes. **GammaArchive** - captures and their
replay against a baseline. **SchemaRegistry** - contract, fingerprints and the numbering file
with two processes over it. **ReferencePrice** - the open price of a window, from the stream
(with drops, restarts and any time between two looks of the service) and from minute bars.

Every definition that models code is in `map` of `PROJECT.json` with its lines. Operators
marked `variant` are small changes of the definition that follows, each a plausible mistake
in that code: `mutants` pairs each property with one that breaks it.

## What is checked

A property that is a conjunction of named parts is stated once and checked once; the parts are
defined beside it.

| run | asks | result |
|---|---|---|
| `risk_ledger` | two positions, three days, two weeks, kill switch at any time: `BooksAreRight` (types, exposure, money, day P&L, no overdraft, streaks), the daily limit, halts, cool-offs, and refinement of the account | holds |
| `paper` | three markets in one process: ledger and journal agree and the limits bind (`LedgerMatchesJournal`), the account is implemented, all is settled in the end | holds |
| `paper_crash` | one kill and one failed write, at any point: each market is decided and settled once, settlements follow their decisions (`JournalIsSound`), losses are bounded | holds |
| `feed` | two tokens, two connections: books are the venue's and nothing crosses a gap (`BooksAreWhole`), uptime, coming back | holds |
| `feed_reconnect` | is a fresh, two-sided book the venue's? | violated: the snapshot after a reconnect is dropped as a redelivery |
| `supervisor` | two runs, three collectors: one tended collector; only silent ones stopped, unless the file is torn, which takes a killed supervisor; hung ones are replaced and another one is started (`CollectionGoesOn`) | holds |
| `gate` | two markets, three mechanics, an amendment, a kill and a refused append: a restart loses only what was refused, the log moves forward (`HistoriesAreSound`), a change is refused at sight | holds |
| `collection` | two markets, one session slot, two faults: snapshots once, never early and no later than jitter and pass allow, labels stand (`DatasetIsSound`), each horizon of an open session is captured or counted as missed (`CountdownIsSound`), sessions end and labels come on file (`MarketsAreFinished`) | holds |
| `collection_late` | is nothing in a snapshot later than its instant? | violated: the stamps are capped, the book is not |
| `backtest` | three markets, all data sets of eight kinds of row, two lookbacks, four configurations: no lookahead, UP and DOWN are mirror images, a trade is inside its caps and leaves the edge asked for at its moment, the report's money is the ledger's | holds |
| `research` | folds and holdout, rows that reach a model, the pointer under kills, champions; incremental against whole passes; selection, search, calibration; the horizon scan; the paper record and its gate | holds |
| `operations` | clock and order gate, alerts of three writers, archive and tape, settlement texts, lookups, replays and shapes, the reference price | holds |

`findings` explains the violated ones and lists the other divergences met while modelling; most
of those have no run. Each was found when a property was first stated without an exception
that it now has, and the exception is named in the property: `OneCollector` sets orphans
aside (a killed supervisor's collector writes on beside the next one), `ChangeIsRefusedAtSight`
speaks of the look that finds the change (the next scan accepts it), `LedgerMatchesJournal` is
checked without kills only (a restart forgets open trades, and a torn line has a position
closed again on every sweep), `BooksAreWhole` speaks of books whose whole snapshot this
connection has applied, `NotifiesOnce` allows a notice more for each write that undid another's
or was torn and for each notice that was sent and whose key never came on file,
`StopsOnlySilent` sets the torn heartbeat aside once a supervisor was killed,
`RestartLosesOnlyRefused` the transitions whose line was refused, `EventuallyLabelled` an
outcome whose write failed while the process that holds it lives on, `ReplayIsWhatArrived` speaks
of the files of one day, leaves out those that a kill cut and a restart wrote on, and lets what a
failed flush had written come again, `PricesOfTheirTime` ties the open price to the service's
first look and not to the opening, `ClockIsHonest` speaks of samples taken since the
machine's clock was last set, `RecomputingLessChangesNothing` of features that read nothing of
an earlier pass, `NoLookahead` of one lookback from its own start, `DifferencesAreReal` of markets
with one form in the archive, `ShapesKeepTheirVersion` of one writer, `TradesAreJustified` of the
edge that is asked for at the moment of the row (`decide()` may ask for less late in the bar).
`EvidenceIsForward` says that a stable verdict rests on more than one of several folds where
`embargo_windows` is below 40: `config.py` sets it no upper bound, and an embargo as long as the
first training period leaves the first folds nothing to train on, so that they are skipped and
one fold can be all there is.

### Bounds

The small numbers are chosen so that each interesting case happens.

- *risk_ledger*: five ticks with days of two and weeks of four put a position over midnight
  and over a week; two positions make the limits interact; four trades are two full streaks;
  a fee of one separates cost from stake.
- *paper*: markets one tick apart with settlement open-ended let three decisions be pending
  at once. *paper_crash*: one kill and one failed write combine into a torn line followed by
  an append and a restart. `MaxCloses` = 2 is one more than a position should ever be closed.
- *feed*: two connections are one gap; three frames on the wire are a snapshot and a change or
  a redelivery behind it; `HashWindow` = 3 is filled and evicts.
- *supervisor*: two runs and three collectors are a restart beside an orphan; ages need one
  value above the budget; a grace and a budget of one tick keep the order of events free. An
  orphan and the child of the next run are the two that tear the heartbeat file.
- *gate*: two sound hashes and an unsound one, a scan that lists a market twice, two open
  markets and time for both to settle; one refused append (`MaxFailed`) is a memory ahead of its file, and
  the kill and the later scans show what becomes of it.
- *collection*: a horizon of each market due in each tick, a jitter of one tick so that on
  time, late and missed all occur, a pass that may take a tick (`PassTime`) so that what was in
  time when it was checked is late when it is captured, a slot for one session while two markets
  overlap, two faults so that a process gives up (`MaxErrors` = 2) or is killed and restarted with
  a failure besides. One market is never paid out, the other is voided, paid out and corrected
  (`MCCourse`).
- *backtest*: three markets a window apart are two trades that influence a third; eight kinds
  of row take every exit of `decide()` and of the fill; two lookbacks show what one leaves to
  the other; the four configurations differ in trust (none, some, all), caps, costs and depth.
- *research*: two trainings are a promotion and one that is refused or overtakes it, with a
  kill between any two writes; sixteen data sets lie on both sides of each gate; all graphs of
  three features and one of six contain chains, diamonds and features nothing reads; three
  horizons and three paper decisions are the least with a best, a worst and one in between.
- *operations*: two clock references (they can disagree), three writers of the alert file of
  whom two are at work at once (`MaxAtWork`) and one mishap with the file (`MaxDisturbed`), after
  which the bound is two notices; frames of three hours on two days, a buffer of three, two kills
  within an hour (the second cuts what the first left) and a flush that fails (`MaxFaults`), two
  queries with retries, a window with a trade on either side of each edge, two
  minute bars around an opening.

### Fairness

*paper*: the sweep settles a decision that stays due, and a dead process is started again (a
service manager does). *feed*: weak on `Connecting` and `Receive` (a task of a running loop),
strong on `Connect`, as attempts fail and are repeated: a venue that may be reached accepts in
the end; without it the feed rightly never comes back. *supervisor*: time passes and a living
supervisor goes on with its loop; nothing is assumed of the collectors. *collection*: the
process is started again, steps of the loop go on; strong on `Sync` and `BeginLabels`, since an
iteration on which a scan or a label pass is due comes again and again (`discovery_poll_seconds`,
`label_backfill_seconds`) though not every iteration has one. Faults are bounded in number, as
no property about the end of things holds if every request fails for ever.

`CHECK_DEADLOCK FALSE` stands where the system really may come to rest or a bound lets it:
after the last market, fault, connection or command (`paper`, `paper_crash`, `feed`,
`feed_reconnect`, `supervisor`, `gate`, `backtest`, `research`, `operations`).

## What is proved

Each theorem holds for every value of the constants that satisfies the named assumptions,
without the bounds of the runs: any number of markets, faults, kills and connections. What
the assumptions say:

- `CalendarAssumption`, `LimitsAssumption`, `CallerAssumption`, `MarketAssumption`: days and
  weeks follow the clock, limits are positive, positions and markets are finitely many, a fill
  costs something.
- `ReplayAssumption`, `RowAssumption`, `GridAssumption`: configurations are those `config.py`
  accepts (`ValidConfig`), windows of different markets do not overlap, prices and depths of
  a row are typed and its mid is a price of the grid, log-odds grow and are odd about 1/2.
- `FeedAssumption`, `SupervisorAssumption`, `GateAssumption`, `CollectionAssumption`: finitely
  many of whatever the module counts, positive budgets; a market's course is a list of outcomes.
- `RegistryAssumption`, `DatasetAssumption`, `PlanAssumption`: model ids are numbers; the
  store holds one series, a market once and each snapshot on a line of its own; a plan has at
  least one fold and one training row.
- `RequestAssumption`, `ArchivedAssumption`, `SchemaAssumption`, `SpecAssumption`,
  `PayloadAssumption`: retries are a number; archive files have a day, an endpoint and a
  moment; the contract has a required field, so that an empty body is no shape of it; a
  payload names finitely many things.
- `RecordAssumption`, `DeclarationAssumption`: decisions are typed, and a traded one has a side,
  a cost and a price strictly between nothing and a whole share; a declaration is a list of
  features that name raw sources which exist, with names in an order.
- `ScanAssumption`: a scan's rows are finitely many, and of one series, in which a settlement
  time is one market's; profits are whole numbers of the ledger's unit.
- `PriceAssumption`, `ClockAssumption`: windows open on a bar's edge, as five minutes are whole
  bars; delays and steps of a reference are not negative.
- `ChoiceAssumption`: an input is one of the three jobs; four methods rank, always; every candidate
  of a search has the same folds, with scores between 0 and 1 or failed; the floor of a
  probability is at most a half.
- `ArchiveAssumption`, `TapeAssumption`: frames arrive in hours that do not go back, a buffer
  holds one at least; a trade has a time and a signed size.

### The ledger and the replay: *LedgerProofs*

- `Accounting`: types, `ExposureIsOpenCost`, `Conserved`. The invariant `AccountInv` ties
  exposure and position count to the sums over open positions; it is inductive because
  `LedgerLemmas` shows how the sums change when one position opens or closes, so that the
  clamps at zero are never reached.
- `Limits`: `DayPnlIsBooked`, `NeverOverdrawn`, `StreakNeverLatches`. `LedgerInv` adds that no
  later day has anything booked on it and that the ledger's day is not after the clock's; only
  with it is a close on a new day known to start from zero. `Books` joins the two theorems to
  the invariant the run checks, `BooksAreRight`.
- `HaltLasts`: `HaltLastsItsDay`, from the same invariant.
- `StreakPauses`: `StreakPausesTrading`. `StreakInv` says that the ledger counts the closes
  without a profit modulo `MaxLosses` and that its cool-off runs from the last time that count
  was full; `NextRemainder` is the arithmetic it needs.
- `DailyLoss`: `DailyLossBound`, if one stake fits the daily limit. The loss of a day plus
  what is still at stake stays under a bound that grows with the position count; positions
  carried over midnight are why the bound is not on closes alone. `DailyLimit`: with one
  position at a time and no fee the bound is the limit itself.
- `LedgerIsAccount`: the refinement, by initial states and steps.
- `Foresight` (`NoLookahead`) and `Merit` (`TradesAreJustified`), from `ReplayInv` = `Typed`,
  `Ordered`, `Worthy` (`Replayed` is its type part). `Ordered`: a run visits its markets by
  rank of their settlement, so what is still to do lies a window after all that is done; that
  a sort by rank gives this is `OrderLemmas`, without induction over the list. `Worthy` follows
  the decision chain gate by gate: each lemma says what one operator of `Opportunity` returns
  (`DecideFacts`, `SizeFacts`, `FillFacts`). That a model without trust never trades is not a
  gate of the code: its blended claim is then the market's mid, and a positive edge needs a
  claim beyond the mid (`EntryBeyondMid`).
- `Figures` (`ReportsAddUp`), about `ReplaySpec`. `BookInv`: each window stands as it was entered
  and paid, and the bankroll of the ledger is what the run started from and the profit of the
  windows. Sums of parts (ladder, buckets) add up by the lemmas on sums; the drawdown is a walk
  over the equity curve whose ratios are compared by cross products, and as fees and gas have
  no bound the curve may fall below zero, but only from its highest point so far.
- `Symmetry` (`MirrorImage`): each operator of the chain commutes with telling the market of
  the other token (`Mirror...`). The blend is the hard one: it is the grid point nearest in
  log-odds, found by a search, so it has to be unique and its mirror image nearest as well;
  claim and market lie on one side of it or the other, and the table is strictly monotone.

### The journal: *PaperTradingProofs*

- `Replay` (`JournalIsSound`). Memory and file do not agree: a record whose write was cut just
  before its newline is on file and its key unknown. It is then the file's unfinished line,
  which the next append destroys. So the invariant's `Known` speaks of the finished lines only,
  and `MayFollow` says which record keeps the file a history when it becomes the last line
  (`AppendKeeps`) or the unfinished one (`CutKeeps`).
- `CutWritesCostTwo` (`LossIsBounded`). `LossInv`: the lost records and the one that the
  unfinished line still owes are at most two for each kill or refused write.
- `Agreement` (`LedgerMatchesJournal`), as long as nothing was killed or refused
  (`Undisturbed`): the run `paper` makes the same exception by its bounds, and a finding says
  what a restart does to the agreement. `Steady` ties exposure and count to the pending trades
  of a file without an unfinished line.
- `JournalAccount` (`JournalIsAccount`): the refinement of the abstract account, with the
  stakes read off the journal and the cash off the ledger's bankroll.

### The feed: *ClobFeedProofs*

`Whole` (`BooksAreWhole`) and `Banked` (`UptimeBanked`). `IInv` = `TypeOK`, `BookInv`,
`GapInv`, `UptimeInv`. In `BookInv` the wire is in order (`Ordered`) and complete (`Complete`:
from what a token has been shown, each later move is a change further back on the wire), and a
known hash is never newer than what was shown (`KnownIsOld`): so nothing that a whole book
needs is ever dropped as a redelivery.

### Discovery: *SettlementGateProofs*

`Histories` (`HistoriesAreSound`) and `SightRefuses` (`ChangeIsRefusedAtSight`). A restart
looks for the last line of each market, so the invariant says that every market written of has
one and that the index in memory is that of the file, of the history (`HistoryInv`) and of the
log (`LogInv`), and that a candidate of a scan settles soundly (`ScanInv`). A refused append
leaves memory ahead of the log: `OnlyRefusedAhead` says for which markets, and that it is ahead
and not merely different is what keeps the log moving forward when the next transition of such a
market is written.

### The data set and its models: *DatasetProofs*

- `Dataset` (`DatasetIsSound`). The memory of a process never knows less than the files
  (`Knows`), also after a write that failed, as memory is changed first; a label pass asks
  only for markets without an outcome (`Unlabelled`); and a pass over the sessions is never
  longer behind its clock than `PassTime` (`InPass`), which with the jitter bounds how late a
  capture is stamped.
- `Countdown` (`CountdownIsSound`), from `CountInv`: the sessions are distinct (`Sessions`);
  the clock of a pass is never ahead of the time (`Counts`), so a horizon that is
  counted as missed is late for good and is never captured (`Tally`). That closing and opening
  sessions keep the list what it is rests on its being a sort by rank.
- `Loads` (`ProductionLoads`) and `Yields` (`ChampionYieldsToBetter`). The model under way is
  new to the registry, so nothing a kill cuts is the champion's (`Fresh`), and what the gate
  saw of the champion is still so when the pointer moves (`Judged`).
- `HeldOut` (`HoldoutUntouched`), `Sound` (`SoundRows`), `SplitIsClean` (`FoldsAreClean`). The
  rows of a command are those of one data set that passed the checks before it (`Gated`).
  Holdout and folds part the markets in the order they settle, and the rows of a market go with
  it: the facts are about ranks and intervals of ranks.

The theorems on models and their data are about `TrainSpec`, one command at a time. What
follows is about `RecordSpec`, the paper record a promotion is decided on, `EngineSpec`, the
feature engine, `ScanSpec`, the scan of horizons, and `ChoiceSpec`, what a training rests on:

- `Promotes` (`RecordPromotesOnlyResults`). `RecordInv`: a settlement is well formed and its
  measurement honest. The figures of a report are sums over its trades; an open trade enters
  none of them but the stake (`OpenTrade`), which it can only raise, and a return asked of more
  stake is not missed on less (`ReturnOnLess`).
- `Recomputing` (`RecomputingLessChangesNothing`). The graph comes first: Kahn's order has each
  feature once and after its dependencies (`OrderIsSorted`), and one as long as the declaration
  has them all (`OrderIsWhole`), so that its places rank the features (`Places`) and none
  reaches itself (`ReachesAll`). Then a walk down the order: what a place is given at its turn
  is what it holds at the end (`ReadsTheEnd`), so a pass computes its targets from what it
  leaves behind (`PassComputes`). `EngineInv` says more than the property: also while sources
  move, a stateless feature that depends on none of them is up to date, which is what lets an
  incremental pass skip it. Up to date features agree with a fresh pass by induction on rank.
- `Evidence` (`EvidenceIsForward`). `VerdictInv`: a verdict is that of one horizon over the folds of
  the splitter. The lemmas of `SplitIsClean` give the rest: with an embargo of at least one
  there is a place, hence a market, between training and test (`MarketBetween`); tests are
  disjoint (`TestsApart`), so the folds' profits add up to the pooled rows' (`NetAdds`); every
  test lies behind the slice of the model that is shown (`SliceApart`); two folds asked for are
  two (`SeveralFolds`). Stable verdicts have trades (`ProfitIsTraded`), so that comparing
  returns by their products is a strict order with one last element (`OneBest`).
- `ChoicesSound` (`ChoicesAreSound`): three computations, none with a state. Pruning is a fold, so
  what it keeps is apart by induction over its steps (`PrunedApart`). The selection is the kept
  columns by their rank among the survivors; turning the order of the methods renames who
  voted and leaves the counts (`Mirrored`), so survivors, ranks and selection stay
  (`FlippedSelects`). That at a threshold of a half a survivor has the votes of half of the
  methods needs that there are four at most: rounding half to even would make 2 of 5
  (`HalfOfFour`). Every step of the grid is a pair of values; the winner exists as a least
  element of a strict order on a finite set (`WinnerIs`), and a mean no better than failures is
  made of failures or of worst scores (`AsBadAsFailed`). Bins are the quotients of the
  division by their width (`SomeBin`, `OneBin`); they share out the forecasts (`BinsShare`), so
  their signed misses add up to the whole's, and the gaps cover it (`GapsCover`).

### The helpers: *OperationsProofs*

- `SupervisorTypes`, `AtMostOneTended` (`OneCollector`), `CondemnsOnlySilent`
  (`StopsOnlySilent`). `IInv` = `Shape` (types), `LockInv` (the lock is where the supervising
  run is), `ProcInv` (a living process is the child of its run unless that was killed),
  `BeatInv` (the file is never older than the last heartbeat of a process that wrote it) and
  `TornInv` (unless a supervisor was killed, no two write a heartbeat at the same time and the
  file parses). Mutual exclusion needs the lock and the ownership of processes together, and so
  does a single writer of the heartbeat (`OneWriter`); the last theorem needs besides that a
  child silent for less than the budget keeps the file fresh, whoever else writes it.
- `NoticedOnce` (`NotifiesOnce`). `AlertInv`: but for as often as something went wrong with the
  file, a condition that was notified is active in it or in what a producer is about to save, so
  no producer that reads it raises it again; and what a producer is about to retract has been
  notified no more often than that, since its evaluation found it clear.
- `Settles` (`SettlesBeyondDoubt`), for the gate `MinConfidence` = 10, the 1.0 that is the
  default: only then is every field's evidence needed. No invariant: the verdict is a function
  of the payload, and the theorem says which payloads are verified.
- `ReadRight` (`GammaIsReadRight`), from one invariant for each part: `LookupInv` (which states
  the market was seen in, against the queries left), `ReplayInv` (readings of the baseline are
  of forms it was made of, and a file has one place in the order) and `SchemaInv` (while no
  process wrote over another, file and answers are the shapes in the order first seen).
- `PricesAreTimely` (`PricesOfTheirTime`). `StreamInv`: the tape's last price is the newest
  trade heard, so what the first look of the service finds is the newest of then, however late
  that look is, and it is kept. `ReadInv`: bars of a reading ended by its instant, as whole bars do.
- `HonestClock` (`ClockIsHonest`), for one or two references (`OneOrTwo`). `ClockInv`: a sample
  is off by half its round trip and its reference's step. The offset is a median. With two
  references it is off by half of what they disagree, which the uncertainty counts; the
  bound is not true of three in general, and the code configures two.
- `Records` (`RecordsAreWhole`), about `ArchiveSpec` and `TapeSpec`. `ArchiveInv`: each frame
  that arrived is in a file, in the buffer or lost; the frames of a file, and those of the files
  by hour, are in the order of arrival, before what is buffered (`Filed`), but for a frame that
  was there before, once a flush has failed. That a flush breaks neither needs one thing more:
  every file that has frames has one of its own hour, so none of a later hour is behind what is
  written now. Without a kill or a failed flush only the open file's last member lacks its end
  (`Tidy`). `TapeInv`: the tape is the newest trades, and what was dropped is older than the
  longest window before the newest one; sums over a window are then sums over shifted places.

*LedgerLemmas* (sums and counts over positions, the methods of the ledger) and *OrderLemmas*
(ranks, least and greatest elements, division, sums) hold what several of these need. The
library's induction theorems take operators as parameters, which the installed provers cannot
instantiate; `OrderLemmas` has induction from least elements instead, over a set of numbers
(`Induction`, `CountsUpTo`) and over a set of subsets (`SetInduction`), and shows with it that a
recursive function has its values (`IteratedFrom`) and that a sum over a finite set exists,
takes its elements in any order and splits with the set.

### Only model-checked

- Liveness (`EventuallySettled`, `ComesBack`, `CollectionGoesOn`, `MarketsAreFinished`), which
  is beyond the prover.

Every invariant and every property of steps that a run checks is stated by a theorem. What a
theorem says is of the module's own specification; the bounds, and what the modules leave out,
are listed below.

## Left out

- *RiskLedger*: `peak_bankroll_usdc` and `wins`, which no limit reads.
- *PaperTrading*: the kill switch (in RiskLedger), several horizons, the width of the decision
  band, requests that fail (an absent `Settle`), opening the feed of a session (as in
  ClobFeed).
- *ClobFeed*: lengths of back-off, last-trade frames, events with several changes, a start
  after a stop, figures derived from a book.
- *Supervisor*: a collector started by hand, the wait of `stop_child` (20 s; a kill is
  immediate), checks of `check_health` that only log. Ages are capped. A heartbeat counts as of
  its publication, though it is stamped at the start of its pass, and what two overlapping writes
  leave is any of their payloads or none, without the order of single bytes.
- *SettlementGate*: several series (independent of each other), liquidity and schema files,
  torn lines (JsonlFile has them): an append that the disk refuses writes nothing; a second
  process over the same files.
- *Collection*: the two cadences (fairness), torn lines, fields other than the label, `stop()`
  and the label pass that ends a run, `HistoricalCollector.run`, a second writer. A capture
  pass awaits nothing, as its only provider in the service does not, so nothing else happens
  within it; it takes up to `PassTime`, which the code does not bound. A market's answers
  are a fixed course; void outcomes are written on each pass as long as they last in the code,
  once in the model.
- *Opportunity, Backtest*: rows are markets with a snapshot at the decision horizon, money is
  in whole units with shares rounded down, log-odds are a table; Sharpe, calibration,
  volatility and regime tables have no model. What one lookback leaves to the next in the
  monitor is a finding, and each property is about one lookback from its start.
- *DatasetChecks*: a snapshot's line is its place in the file; percentages are exact.
- *ModelTraining*: two trainings at once (the registry has no lock), what an estimator learns
  (its scores are data), bootstrap significance (a relation `beats`), formats and manifest of
  an export.
- *FeatureEngine*: the mathematics of features; time between passes is positive. Incremental
  passes have no caller in production.
- *ModelChoice*: rankings and scores of fits are data; random and Bayesian candidates.
- *EdgeScan*: the trades of a row are data and stake one unit.
- *PaperRecord*: one series, a session closed before the next decision; gas, latencies, daily and
  weekly buckets.
- *ClockService*: a sample takes no time; uncertainty and offset are doubled to stay whole.
  Other modules take time as never stepping back: a resync may set it back in the code, and a
  stepped-back day would reopen a period of the ledger.
- *Alerts*: one key for each condition, no sinks; a file that exists and cannot be read is not
  told from one that does not parse. *TickArchive*: one feed, arrival hours that do not go back; a
  failed write or a kill cuts between two frames, and a `close()` that raises is a `FlushFails`
  with a `KillArchive` behind it. Lines cut in the middle, which `read_frames` skips, and what
  the compressor had not yet passed on are left out.
- *SettlementSpec*: a payload is what its channels say; texts, URL forms and fallbacks that say
  the same are one. `trading_enabled` outside the live modes.
- *GammaRequests, GammaArchive, SchemaRegistry*: lengths of back-off, endpoints of one request,
  additive drift, counters of a fingerprint.
- *ReferencePrice, TradeTape*: a price stands for the moment it is of; realised volatility and rates.
- Components without a model, with the reason in `components`: operations summary, liquidity,
  manifest and statistics, backtest adapters, model explanation, feature matrix with drift and
  consistency, fixtures. They format, describe or compare, and nothing decides by them.

## Plan

Done, in this order: ledger (with account and proofs), journal and paper trader, feed,
supervisor (with proofs), settlement gate, collection; then the decision chain with the
backtest, training and its data, the helpers; then the proofs of feed, gate, collection, journal,
registry, data set, helpers, backtest with its report, paper record, feature engine, edge scan,
archive and tape, selection, search and calibration. What is next:

1. Composition: the service's session with its feed, so that `NeverBackdated` speaks of a book
   that `ClobFeed` produced; discovery feeding Collection.
2. A second process over the data set's files (`pmbtc dataset-label` beside the service), and
   `HistoricalCollector.run`.
3. A paper engine that reloads its open trades, once the code does: `LedgerMatchesJournal` would
   then be asked under kills.
4. Random and Bayesian candidates of a search, which the grid stands for.
