----------------------------- MODULE PaperRecord -----------------------------
(***************************************************************************)
(* What paper trading makes of its record: the tape after each decision    *)
(* against the price it assumed (paper/execution.py), and the report with  *)
(* the gate before live trading (paper/report.py).  The tape of a market   *)
(* is its session's (paper/runner.py): it is gone when the session closes, *)
(* and what Polymarket publishes later is settled without it.              *)
(*                                                                         *)
(* One series: a session is closed before the next market is decided on.   *)
(* Prices are of the UP token, in steps of which a share pays ShareUnit.   *)
(***************************************************************************)
EXTENDS Statistics, SequencesExt

CONSTANTS
    ShareUnit,
    Tickets,          \* decisions: [traded, side, price, cost, claim, book]
    Prices,           \* at which the tape prints
    PaperBar,         \* config.paper: minTrades, and minRoi and alpha in percent
    MaxRuns           \* bound

ASSUME RecordAssumption ==
    /\ ShareUnit \in Nat \ {0} /\ Prices \subseteq 0..ShareUnit
    /\ \A d \in Tickets :
         /\ d.traded \in BOOLEAN /\ d.cost \in Nat /\ {d.claim, d.book} \subseteq 0..ShareUnit
         /\ d.traded => d.price \in 1..(ShareUnit - 1) /\ d.cost > 0 /\ d.side \in {"UP", "DOWN"}
    /\ PaperBar.minRoi \in Int

VARIABLES
    runs,             \* the journal: decisions with their settlements
    watched,          \* the run whose market session is open, 0 for none
    tape              \* the prints of that session, [price, later]

recordVars == <<runs, watched, tape>>

Unsettled == [settled |-> FALSE, outcome |-> "none", pnl |-> 0, won |-> FALSE, measured |-> {}]
Run(d) == [decision |-> d, settlement |-> Unsettled]

-----------------------------------------------------------------------------
(* Execution quality. *)

\* A slip: both tokens are judged by the UP token's rule.
FilledAsUp(side, price, print) == print <= price

\* would_have_filled()
WouldHaveFilled(side, price, print) ==
    IF side = "UP" THEN print <= price ELSE print >= ShareUnit - price

After(prints) == {p.price : p \in {q \in prints : q.later}}

\* The best price later prints offered, in the order's own direction.
BestPrice(side, later) == IF side = "UP" THEN Min(later) ELSE ShareUnit - Max(later)

\* measure_execution(): the price error and the prints that would have filled
\* the order, if there was anything to measure.
Measure(d, prints) ==
    IF ~d.traded \/ After(prints) = {} THEN {}
    ELSE {[error |-> d.price - BestPrice(d.side, After(prints)),
           filling |-> {p \in After(prints) : WouldHaveFilled(d.side, d.price, p)}]}

-----------------------------------------------------------------------------
(* The report. *)

TradesOf(rs)  == {i \in DOMAIN rs : rs[i].decision.traded}
SettledOf(rs) == {i \in TradesOf(rs) : rs[i].settlement.settled}
WinsOf(rs)    == {i \in SettledOf(rs) : rs[i].settlement.won}

\* _accumulate(): what is staked counts from the decision on.
Staked(rs, S) == SumFunction([i \in S |-> rs[i].decision.cost])
NetPnl(rs)    == SumFunction([i \in SettledOf(rs) |-> rs[i].settlement.pnl])

\* summarise_execution(): the sum of the errors measured.
MeasuredError(s) == SumFunction([q \in s.measured |-> q.error])
Errors(rs) == SumFunction([i \in TradesOf(rs) |-> MeasuredError(rs[i].settlement)])
SimulationIsOptimistic(rs) == Errors(rs) < 0

\* Every run with a label is a forecast, traded or not.
Forecasts(rs) == {i \in DOMAIN rs : rs[i].settlement.outcome # "none"}
BeatsMarketForecast(rs) ==
    LET Up(i) == rs[i].settlement.outcome = "UP"
    IN  SquaredError(Forecasts(rs), LAMBDA i : rs[i].decision.claim, Up, ShareUnit)
          < SquaredError(Forecasts(rs), LAMBDA i : rs[i].decision.book, Up, ShareUnit)

\* The break-even rate is the average price paid.
Significant(rs) ==
    LET n      == Cardinality(SettledOf(rs))
        prices == SumFunction([i \in SettledOf(rs) |-> rs[i].decision.price])
    IN  n > 0 /\ 100 * UpperTail(n, Cardinality(WinsOf(rs)), prices, n * ShareUnit)
                   < PaperBar.alpha * (n * ShareUnit) ^ n

\* _gate()
PromotionApproved(rs) ==
    /\ Cardinality(SettledOf(rs)) >= PaperBar.minTrades
    /\ 100 * NetPnl(rs) >= PaperBar.minRoi * Staked(rs, TradesOf(rs))
    /\ NetPnl(rs) > 0
    /\ Significant(rs)
    /\ BeatsMarketForecast(rs)
    /\ ~SimulationIsOptimistic(rs)

-----------------------------------------------------------------------------
(* The runner. *)

RecordInit == runs = <<>> /\ watched = 0 /\ tape = {}

\* A session with the prints so far, and the one decision made in it.
EnterMarket(d, before) ==
    /\ Len(runs) < MaxRuns /\ watched = 0
    /\ runs' = Append(runs, Run(d))
    /\ watched' = Len(runs) + 1
    /\ tape' = {[price |-> p, later |-> FALSE] : p \in before}

PrintOn(price) ==
    /\ watched # 0
    /\ tape' = tape \cup {[price |-> price, later |-> TRUE]}
    /\ tape' # tape
    /\ UNCHANGED <<runs, watched>>

\* _sync_sessions() at the first pass past the settlement, and _close_all().
CloseMarket == watched # 0 /\ watched' = 0 /\ tape' = {} /\ UNCHANGED runs

\* settle(): a market without an outcome returns the cost and is no win.
Settled(i, outcome, measured) ==
    LET d   == runs[i].decision
        won == d.traded /\ d.side = outcome
    IN  [settled |-> TRUE, outcome |-> outcome, won |-> won, measured |-> measured,
         pnl |-> CASE ~d.traded \/ outcome = "none" -> 0
                   [] won -> (d.cost * ShareUnit) \div d.price - d.cost
                   [] OTHER -> -d.cost]

\* _settle_pending(), with _measure(): no session, no measurement.
SettlePending(i, outcome) ==
    /\ ~runs[i].settlement.settled
    /\ runs' = [runs EXCEPT ![i].settlement =
                  Settled(i, outcome, IF i = watched THEN Measure(runs[i].decision, tape) ELSE {})]
    /\ UNCHANGED <<watched, tape>>

RecordNext ==
    \/ \E d \in Tickets, before \in {{}, Prices} : EnterMarket(d, before)
    \/ CloseMarket \/ \E price \in Prices : PrintOn(price)
    \/ \E i \in DOMAIN runs, outcome \in {"UP", "DOWN", "none"} : SettlePending(i, outcome)

RecordSpec == RecordInit /\ [][RecordNext]_recordVars

-----------------------------------------------------------------------------
\* A simulated price was too good exactly when no later print would have filled
\* it, on either token, and no print from before the decision speaks for it.
\* Open trades promote nothing: a record that is refused is refused with any
\* further decision in it, and what is approved earned its return on the stake
\* of its settled trades alone as well.
RecordPromotesOnlyResults ==
    /\ \A i \in DOMAIN runs : \A q \in runs[i].settlement.measured : q.error < 0 <=> q.filling = {}
    /\ ~PromotionApproved(runs) => \A d \in Tickets : ~PromotionApproved(Append(runs, Run(d)))
    /\ PromotionApproved(runs) => 100 * NetPnl(runs) >= PaperBar.minRoi * Staked(runs, SettledOf(runs))

=============================================================================
