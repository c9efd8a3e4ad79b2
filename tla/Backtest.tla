------------------------------ MODULE Backtest ------------------------------
(***************************************************************************)
(* The walk-forward backtest (backtest/engine.py, walkforward.py): one     *)
(* engine replays the settled markets of each lookback in order, every     *)
(* market through the gauntlet paper trading uses (trading/pipeline.py)    *)
(* with a ledger of that run's own, and each run is reported               *)
(* (backtest/metrics.py, attribution.py).                                  *)
(*                                                                         *)
(* The ledger is fresh in every run; the engine, and with it the monitor   *)
(* of the validator, is the same one throughout.                           *)
(***************************************************************************)
EXTENDS RiskRules, Opportunity, Statistics, SequencesExt

CONSTANTS
    Configs,          \* the trading configurations looked at, records of Opportunity
    Window,           \* app.window_seconds, in ticks
    Market,           \* condition ids, ordered as numbers
    Settle,           \* market -> tick it settles at
    Horizons,         \* the snapshot horizons of the data set, in ticks before settlement
    RowKind,          \* what a snapshot row can hold: [quote, prob, settled]
    Lookbacks,        \* backtest.windows_days, in ticks and in ascending order
    Bar               \* the backtest section: what a report must clear, ratios in percent

Void    == "none"     \* the row has no official outcome and no label

ASSUME ReplayAssumption ==
    /\ \A c \in Configs : ValidConfig(c) /\ c.window = Window /\ c.maxPosition <= MaxStake
    /\ Window \in Nat /\ Market \subseteq Nat /\ Settle \in [Market -> Time]
    /\ Horizons \subseteq 1..Window /\ Horizons # {}
    /\ \A m, n \in Market : m # n => AbsDiff(Settle[m], Settle[n]) >= Window
    /\ \A m \in Market : Settle[m] >= Window

ASSUME RowAssumption ==
    \A r \in RowKind :
      /\ {r.quote.bid, r.quote.ask} \subseteq Prices
      /\ {r.quote.bidDepth, r.quote.askDepth, r.quote.age} \subseteq Nat
      /\ Valid(r.quote) => (r.quote.bid + r.quote.ask) % 2 = 0      \* the mid is a grid point
      /\ r.prob \in Prices /\ r.settled \in {"UP", "DOWN", Void}

VARIABLES
    cfg,          \* the configuration the engine was built from
    rows,         \* the data set: market -> its row at the decision horizon
    ledger,       \* the ledger of the run in progress
    seen,         \* observations of the engine's disagreement monitor
    windows,      \* results of the run in progress, one per market looked at
    todo,         \* markets of the run in progress that are still to come
    reports       \* one per finished lookback

replayVars == <<cfg, rows, ledger, seen, windows, todo, reports>>

-----------------------------------------------------------------------------
\* _default_horizon(): the last snapshot the timing gates still allow.
DecisionHorizon ==
    LET allowed == {h \in Horizons : Window - h >= cfg.minInto /\ h >= cfg.minLeft}
    IN  IF allowed = {} THEN Min(Horizons) ELSE Min(allowed)

Earlier(m, n) == Settle[m] < Settle[n] \/ (Settle[m] = Settle[n] /\ m < n)

OrderById(S) ==                                  \* variant: as the store listed them
    CHOOSE s \in [1..Cardinality(S) -> S] : \A i, j \in DOMAIN s : i < j => s[i] < s[j]

\* _group()
InSettlementOrder(S) ==
    CHOOSE s \in [1..Cardinality(S) -> S] : \A i, j \in DOMAIN s : i < j => Earlier(s[i], s[j])

\* The markets that have a snapshot at the decision horizon.
Present == DOMAIN rows

\* slice_recent(): markets that settled within a lookback of the last one.
Recent(days) == {m \in Present : \A n \in Present : Settle[m] >= Settle[n] - days}

\* A decision with its stake, put to the risk limits and filled.
Attempt(row, now, st, decision, stake) ==
    LET sized    == decision.reason = NoReason /\ stake.reason = NoReason
        rolled   == RollPeriods(st, now)
        allowed  == sized /\ Allowed(rolled, now, FALSE, stake.usdc)
        fill     == Fill(cfg, row.quote, decision.side, stake.usdc)
    IN  [reason |-> CASE decision.reason # NoReason -> decision.reason
                      [] stake.reason # NoReason /\ decision.reason = NoReason -> stake.reason
                      [] sized /\ ~allowed -> "risk_limit"
                      [] OTHER -> fill.reason,
         side |-> decision.side, confidence |-> decision.confidence,
         prob |-> decision.prob, market |-> decision.market,
         entry |-> decision.entry, seen |-> decision.seen,
         stake |-> IF sized THEN stake.usdc ELSE 0,
         attempted |-> allowed,
         ledger |-> IF sized THEN rolled ELSE st,
         fill |-> IF allowed THEN fill ELSE NoFill(NoReason)]

\* One row through decide, size, check and fill; nothing is opened yet.
Evaluate(row, settles, st, observed) ==
    LET h        == DecisionHorizon
        decision == Decide(cfg, [prob |-> row.prob, quote |-> row.quote,
                                 into |-> Window - h, left |-> h,
                                 vol |-> Absent, cal |-> Absent, agree |-> Absent],
                           observed)
        stake    == Size(cfg, st.bankroll, decision.confidence, decision.entry, Absent)
    IN  Attempt(row, settles - h, st, decision, stake)

KeepStake(fill, side, settled) ==                 \* variant: a void market loses its stake
    Payoff(fill, side, settled) - (IF Payoff(fill, side, settled) > 0 THEN cfg.gas ELSE 0)

\* What comes back at settlement: a void market returns the cost, and the gas
\* of a redemption is taken from a winner's payoff.
NetPayoff(fill, side, settled) ==
    IF settled = Void THEN Cost(fill)
    ELSE Payoff(fill, side, settled) -
         (IF Payoff(fill, side, settled) > 0 THEN cfg.gas ELSE 0)

\* A filled market is opened and settled on the spot.
Settled(m, e, cost, payoff) ==
    IF e.attempted /\ e.fill.reason = NoReason
    THEN RegisterClose(RegisterOpen(e.ledger, cost), Settle[m], cost, payoff)
    ELSE e.ledger

\* The result of a market that was evaluated as e and left the ledger at after.
Result(m, e, cost, payoff, after) ==
    LET row    == rows[m]
        traded == e.attempted /\ e.fill.reason = NoReason
    IN  [market |-> m, reason |-> e.reason, side |-> e.side, settled |-> row.settled,
         claim |-> e.prob, book |-> e.market,
         confidence |-> e.confidence, before |-> ledger.bankroll,
         traded |-> traded, attempted |-> e.attempted, stake |-> e.stake,
         mid |-> MidOf(row.quote, e.side), touch |-> Touch(row.quote, e.side),
         entry |-> IF traded THEN e.fill.price ELSE e.entry,
         fill |-> e.fill, pnl |-> IF traded THEN payoff - cost ELSE 0,
         bankroll |-> after.bankroll]

\* _evaluate()
Enter(m, e, cost, payoff) ==
    /\ ledger' = Settled(m, e, cost, payoff)
    /\ seen' = e.seen
    /\ windows' = Append(windows, Result(m, e, cost, payoff, ledger'))

Replay(m) ==
    LET e == Evaluate(rows[m], Settle[m], ledger, seen)
    IN  Enter(m, e, Cost(e.fill), NetPayoff(e.fill, e.side, rows[m].settled))

-----------------------------------------------------------------------------
(* The report on a finished run *)

SumOver(ws, Amount(_), Test(_)) ==
    SumFunction([i \in {k \in DOMAIN ws : Test(ws[k])} |-> Amount(ws[i])])

Won(w) == w.settled = w.side
Worth(w, price) == (IF Won(w) THEN (w.stake * Unit) \div price ELSE 0) - w.stake
FullFee(w) == Fee(cfg, w.stake) + (IF Won(w) THEN cfg.gas ELSE 0)

PaidFee(w) == w.fill.fee + (IF Won(w) THEN cfg.gas ELSE 0)

\* decompose(): the same intents at the mid, at the touch, at the modelled
\* price, with fees, without those the risk limits stopped, and as they filled.
Decompose(ws) ==
    LET Intended(w) == w.stake > 0
        Reached(w)  == Intended(w) /\ w.attempted
        Filled(w)   == Reached(w) /\ w.traded
        p0 == SumOver(ws, LAMBDA w : Worth(w, w.mid), Intended)
        p1 == SumOver(ws, LAMBDA w : Worth(w, w.touch), Intended)
        p2 == SumOver(ws, LAMBDA w : Worth(w, w.entry), Intended)
        p3 == SumOver(ws, LAMBDA w : Worth(w, w.entry) - FullFee(w), Intended)
        p4 == SumOver(ws, LAMBDA w : Worth(w, w.entry) - FullFee(w), Reached)
        p5 == SumOver(ws, LAMBDA w : (IF Won(w) THEN w.fill.shares ELSE 0)
                                     - w.fill.notional - PaidFee(w), Filled)
    IN  [raw |-> p0, spread |-> p0 - p1, slippage |-> p1 - p2, fees |-> p2 - p3,
         risk |-> p3 - p4, missed |-> p4 - p5, net |-> p5]

\* The bankroll at the start and after each trade.
Equity(ws) ==
    LET upTo[k \in 0..Len(ws)] ==
          IF k = 0 THEN <<Start>>
          ELSE IF ws[k].traded THEN Append(upTo[k - 1], ws[k].bankroll) ELSE upTo[k - 1]
    IN  upTo[Len(ws)]

\* max_drawdown(): the deepest fall from a running peak, as <<fall, peak>>.
Deeper(a, b) == IF a[1] * b[2] >= b[1] * a[2] THEN a ELSE b
Fallen(acc, value) ==
    LET peak == Max({acc.peak, value})
    IN  [peak |-> peak, worst |-> Deeper(acc.worst, <<peak - value, peak>>)]
MaxDrawdown(equity) ==
    LET after[k \in 0..Len(equity)] ==
          IF k = 0 THEN [peak |-> equity[1], worst |-> <<0, 1>>]
          ELSE Fallen(after[k - 1], equity[k])
    IN  after[Len(equity)].worst

\* compute_metrics(), the traded windows: what was won and lost, the drawdown
\* and the average price as <<sum of prices, trades>>.
Money(ws, start, end) ==
    LET Traded(w) == w.traded
        trades == Cardinality({i \in DOMAIN ws : ws[i].traded})
    IN  [trades |-> trades, start |-> start, end |-> end, fall |-> MaxDrawdown(Equity(ws)),
         profit |-> SumOver(ws, LAMBDA w : w.pnl, LAMBDA w : w.traded /\ w.pnl > 0),
         loss |-> SumOver(ws, LAMBDA w : -w.pnl, LAMBDA w : w.traded /\ w.pnl <= 0),
         wins |-> Cardinality({i \in DOMAIN ws : ws[i].traded /\ ws[i].pnl > 0}),
         staked |-> SumOver(ws, LAMBDA w : Cost(w.fill), Traded),
         prices |-> SumOver(ws, LAMBDA w : w.fill.price, Traded)]

\* compute_metrics(), every window with a label: the model against the book.
Forecast(ws) ==
    LET labelled == {i \in DOMAIN ws : ws[i].settled # Void}
        Up(i)     == ws[i].settled = "UP"
        Model(i)  == ws[i].claim
        Quoted(i) == ws[i].book
    IN  [n |-> Cardinality(labelled),
         right |-> Correct(labelled, Model, Up, Unit),
         model |-> SquaredError(labelled, Model, Up, Unit),
         market |-> SquaredError(labelled, Quoted, Up, Unit)]

\* evaluate_backtest(): the checks, all of which a run must pass.  The Sharpe
\* ratio is left out.
Approved(money, forecast, ladder) ==
    /\ money.trades >= Bar.minTrades
    /\ (money.end - money.start) * 100 >= Bar.minRoi * money.start
    /\ money.profit * 100 >= Bar.minProfitFactor * (IF money.loss > 0 THEN money.loss ELSE 1)
    /\ money.fall[1] * 100 <= Bar.maxDrawdown * money.fall[2]
    /\ forecast.right * 100 >= Bar.minAccuracy * forecast.n
    /\ forecast.model <= Bar.maxBrier * forecast.n
    /\ forecast.model < forecast.market
    /\ ladder.net > 0 /\ money.end > money.start
    /\ ladder.net = money.end - money.start
    /\ BeatsBreakEven(money.wins, money.trades, money.prices, money.trades * Unit, Bar.alpha)

Report(ws, start, end) ==
    LET money == Money(ws, start, end)
    IN  [windows |-> ws, money |-> money, ladder |-> Decompose(ws),
         approved |-> Approved(money, Forecast(ws), Decompose(ws))]

-----------------------------------------------------------------------------
\* A run starts with a fresh ledger; a lookback without rows is skipped.
StartRun(i) == IF i \in DOMAIN Lookbacks THEN InSettlementOrder(Recent(Lookbacks[i])) ELSE << >>

ReplayInit ==
    /\ cfg \in Configs
    /\ rows \in UNION {[S -> RowKind] : S \in SUBSET Market}
    /\ ledger = FreshLedger
    /\ seen = << >>
    /\ windows = << >>
    /\ todo = StartRun(1)
    /\ reports = << >>

NextMarket == /\ todo # << >>
              /\ Replay(Head(todo))
              /\ todo' = Tail(todo)
              /\ UNCHANGED <<cfg, rows, reports>>

FinishRun == /\ todo = << >> /\ windows # << >>
             /\ Len(reports) < Len(Lookbacks)
             /\ reports' = Append(reports, Report(windows, Start, ledger.bankroll))
             /\ todo' = StartRun(Len(reports) + 2)
             /\ ledger' = FreshLedger
             /\ windows' = << >>
             /\ UNCHANGED <<cfg, rows, seen>>

ReplayNext == NextMarket \/ FinishRun
ReplaySpec == ReplayInit /\ [][ReplayNext]_replayVars

-----------------------------------------------------------------------------
Markets(ws) == {ws[i].market : i \in DOMAIN ws}

ReplayTypes ==
    /\ cfg \in Configs
    /\ ledger \in RiskState
    /\ Len(seen) <= cfg.history
    /\ Markets(windows) \cup {todo[i] : i \in DOMAIN todo} \subseteq Present

\* What a decision has learnt from had settled by then: of any two windows in
\* the order the run visits them, the earlier one settled no later than the
\* moment the later one is decided at, a horizon before its own settlement.
NoLookahead ==
    \A i, j \in DOMAIN windows :
        i < j => Settle[windows[i].market] <= Settle[windows[j].market] - DecisionHorizon

\* The same market told of the other token: complement prices, claim and
\* outcome, and the two sides of the book swapped.
Flip == [UP |-> "DOWN", DOWN |-> "UP", none |-> Void]
Mirror(row) ==
    LET q == row.quote
    IN  [quote |-> [bid |-> Unit - q.ask, ask |-> Unit - q.bid,
                    bidDepth |-> q.askDepth, askDepth |-> q.bidDepth, age |-> q.age],
         prob |-> Unit - row.prob, settled |-> Flip[row.settled]]

Mirrored(a, b) ==
    /\ <<a.reason, a.stake, a.attempted, a.fill, a.seen>>
       = <<b.reason, b.stake, b.attempted, b.fill, b.seen>>
    /\ a.stake > 0 => b.side = Flip[a.side]

\* UP and DOWN are two names of one market: replaying a market as its mirror
\* image stakes the same money at the same price on the other side, or refuses
\* for the same reason (DOWN is bought from the UP bid, trading/costs.py:135).
MirrorImage ==
    todo # << >> =>
        LET m == Head(todo)
            a == Evaluate(rows[m], Settle[m], ledger, seen)
            b == Evaluate(Mirror(rows[m]), Settle[m], ledger, seen)
        IN  Mirrored(a, b)

\* A trade was worth it when it was made: a model that is not trusted at all
\* never trades, the stake is whole steps inside every cap of the bankroll it
\* was sized from, and a share is paid for with the edge that is asked for at
\* its moment to spare, unless the fill is priced beyond the touch.
TradesAreJustified ==
    \A i \in DOMAIN windows :
        LET w == windows[i]
        IN  w.traded =>
              /\ cfg.trust > 0
              /\ w.stake % cfg.step = 0 /\ w.stake \in cfg.minPosition..cfg.maxPosition
              /\ w.stake * 100 <= cfg.maxRiskPct * w.before
              /\ w.fill.notional \in 1..w.stake
              /\ cfg.style # "aggressive" =>
                    w.fill.price + RequiredEdge(cfg, DecisionHorizon) <= w.confidence

VoidCost(ws) == SumOver(ws, LAMBDA w : Cost(w.fill), LAMBDA w : w.traded /\ w.settled = Void)

PnlAddsUp(r) == r.money.profit - r.money.loss = r.money.end - Start

\* The ladder takes a void market for a loss although the ledger returned its
\* stake; otherwise it ends where the bankroll does.
LadderAddsUp(r) == r.ladder.net + VoidCost(r.windows) = r.money.end - Start

\* A fall is from a point above zero to a later one; to below zero, where a
\* lower peak is lost more than once, from the highest point so far.
FallsTo(e, j) ==
    LET from == {i \in 1..j : e[i] > 0 /\ (e[j] < 0 => \A k \in 1..j : e[k] <= e[i])}
    IN  {<<e[i] - e[j], e[i]>> : i \in from}

FallIsDeepest(r) ==
    LET e == Equity(r.windows)
    IN  /\ \A j \in DOMAIN e : \A f \in FallsTo(e, j) :
              f[1] * r.money.fall[2] <= r.money.fall[1] * f[2]
        /\ \E j \in DOMAIN e : \E f \in FallsTo(e, j) :
              f[1] * r.money.fall[2] = r.money.fall[1] * f[2]

\* What a report says of the money agrees with the ledger of its run: the
\* profits and losses, the ladder from raw edge to net profit and the drawdown,
\* and no run with a void trade is approved.
ReportsAddUp ==
    \A i \in DOMAIN reports :
        LET r == reports[i]
        IN  /\ PnlAddsUp(r) /\ LadderAddsUp(r) /\ FallIsDeepest(r)
            /\ r.approved => VoidCost(r.windows) = 0

=============================================================================
