---------------------------- MODULE PaperTrading ----------------------------
(***************************************************************************)
(* The paper trader: PaperTradingEngine (paper/engine.py) run by           *)
(* PaperRunner (paper/runner.py) over its PaperJournal (paper/journal.py)  *)
(* and its RiskLedger (RiskRules).  It decides each market once, in a      *)
(* narrow band before the market settles, and settles the decision when    *)
(* the venue publishes the outcome, which may be long after.               *)
(*                                                                         *)
(* The journal is a file and survives the process; the ledger and the sets *)
(* of decided and settled markets are its memory and do not.  The process  *)
(* is killed and started again at any point, also in the middle of a write *)
(* to the journal, and a write may fail while it runs.                     *)
(***************************************************************************)
EXTENDS RiskRules, Holdings, JsonlFile

CONSTANTS
    Market,           \* the markets discovery offers
    SettleAt,         \* market -> tick of its settlement time
    Horizon,          \* decision_horizon(), in ticks
    Side,             \* the outcomes a model may back
    Fill,             \* [cost, shares]: the fills a book can give
    MaxShares,        \* bound: the most shares a fill buys
    MaxCrashes,       \* bound: how often the process is killed
    MaxWriteErrors,   \* bound: how many writes to the journal fail
    MaxCloses         \* bound: how often one position is closed

ASSUME MarketAssumption ==
    /\ IsFiniteSet(Market)
    /\ SettleAt \in [Market -> Time]
    /\ Horizon \in Nat \ {0}
    /\ Side \subseteq {"UP", "DOWN"}
    /\ MaxShares \in Nat /\ MaxCrashes \in Nat /\ MaxWriteErrors \in Nat /\ MaxCloses \in Nat
    /\ \A f \in Fill : f.cost \in 1..MaxCost /\ f.shares \in 0..MaxShares

VARIABLES
    now,              \* the clock
    up,               \* is the process running?
    venue,            \* market -> what the venue has published
    file,             \* the journal on disk
    st,               \* the ledger's state
    decided, settled, \* the journal's keys in memory: _decided, _settled
    crashes, writeErrors,
    known,            \* (kind, market) of the records written or read back so far
    closes            \* market -> register_close calls this process made for it

vars == <<now, up, venue, file, st, decided, settled,
          crashes, writeErrors, known, closes>>
memory == <<st, decided, settled>>
counts == <<crashes, writeErrors>>

Published == {"open", "UP", "DOWN", "VOID"}

-----------------------------------------------------------------------------
(***************************************************************************)
(* The journal.                                                            *)
(***************************************************************************)

Decision(m, traded, side, fill) ==
    [kind |-> "decision", market |-> m, traded |-> traded,
     side |-> side, cost |-> fill.cost, shares |-> fill.shares]

NoFill == [cost |-> 0, shares |-> 0]

Skipped(m)            == Decision(m, FALSE, "", NoFill)
Traded(m, side, fill) == Decision(m, TRUE, side, fill)

Settlement(m, status, pnl) ==
    [kind |-> "settlement", market |-> m, status |-> status, pnl |-> pnl]

OfKind(f, kind)     == {r \in Readable(f) : r.kind = kind}
Named(f, kind)      == {r.market : r \in OfKind(f, kind)}

PendingTrades(f) == {d \in OfKind(f, "decision") :        \* variant: skips are not swept
                        d.traded /\ d.market \notin Named(f, "settlement")}

\* pending(): the decisions without a settlement, as the file tells them.
Pending(f) == {d \in OfKind(f, "decision") : d.market \notin Named(f, "settlement")}

\* The (kind, market) of every record a reader of the file finds.
Labels(f) == {<<r.kind, r.market>> : r \in Readable(f)}

-----------------------------------------------------------------------------
(***************************************************************************)
(* The engine's two operations on the ledger.                              *)
(***************************************************************************)

\* horizon <= seconds_left <= horizon + EVALUATION_TOLERANCE_S
InBand(m) == now = SettleAt[m] - Horizon

EvaluateAgain(m) == up /\ InBand(m)          \* variant: without the has_decision check

\* evaluate() gets past its early returns.
MayEvaluate(m) == up /\ InBand(m) /\ m \notin decided

\* evaluate_opportunity() ends without a fill; the ledger was asked or not.
LedgersOfSkip == {st, RollPeriods(st, now)}

\* The fills evaluate_opportunity() can end with: check() allowed a stake the
\* sizer returned and the fill costs no more than the stake and the fee.
FillsAllowed ==
    {f \in Fill : \E stake \in Stakes(st) :
        /\ Allowed(RollPeriods(st, now), now, FALSE, stake)
        /\ f.cost <= stake + MaxFee}

Won(d) == d.side = venue[d.market]

\* What settle() passes to register_close as the payoff.
PayoffOf(d) == CASE venue[d.market] = "VOID" -> d.cost
                 [] Won(d)                   -> d.shares
                 [] OTHER                    -> 0

StatusOf(d) == CASE ~d.traded                -> "REJECTED"
                 [] venue[d.market] = "VOID" -> "VOIDED"
                 [] Won(d)                   -> "SETTLED_WIN"
                 [] OTHER                    -> "SETTLED_LOSS"

\* register_close() for a traded decision, nothing for a skipped one.
LedgerAfter(d) ==
    IF d.traded THEN RegisterClose(st, now, d.cost, PayoffOf(d)) ELSE st

SettlementOf(d) ==
    Settlement(d.market, StatusOf(d), IF d.traded THEN PayoffOf(d) - d.cost ELSE 0)

DuePending(d) == now >= SettleAt[d.market] /\ venue[d.market] # "open"

\* _settle_pending() comes to this decision: it is pending in the file, its
\* time has passed and the venue has published it.
MaySettle(d) == up /\ d \in Pending(file) /\ DuePending(d)

-----------------------------------------------------------------------------
Init == /\ now = 0
        /\ up = TRUE
        /\ venue = [m \in Market |-> "open"]
        /\ file = EmptyFile
        /\ st = FreshLedger
        /\ decided = {} /\ settled = {}
        /\ crashes = 0 /\ writeErrors = 0
        /\ known = {}
        /\ closes = [m \in Market |-> 0]

Tick == /\ now < MaxTime
        /\ now' = now + 1
        /\ UNCHANGED <<up, venue, file, memory, counts, known, closes>>

\* Polymarket publishes a resolution some time after the settlement time.
Publish(m, outcome) ==
    /\ venue[m] = "open"
    /\ now >= SettleAt[m]
    /\ venue' = [venue EXCEPT ![m] = outcome]
    /\ UNCHANGED <<now, up, file, memory, counts, known, closes>>

\* record_decision() and record_settlement() once the write has succeeded.
RecordDecision(rec) ==
    /\ file' = AppendLine(file, rec)
    /\ decided' = decided \cup {rec.market}
    /\ known' = known \cup {<<"decision", rec.market>>}

RecordSettlement(rec) ==
    IF rec.market \in settled
    THEN UNCHANGED <<file, settled, known>>
    ELSE /\ file' = AppendLine(file, rec)
         /\ settled' = settled \cup {rec.market}
         /\ known' = known \cup {<<"settlement", rec.market>>}

\* evaluate() records a skip.
Skip(m) ==
    /\ MayEvaluate(m)
    /\ st' \in LedgersOfSkip
    /\ RecordDecision(Skipped(m))
    /\ UNCHANGED <<now, up, venue, settled, counts, closes>>

\* evaluate() records a trade, then register_open debits it.
Trade(m, side, fill) ==
    /\ MayEvaluate(m)
    /\ fill \in FillsAllowed
    /\ st' = RegisterOpen(RollPeriods(st, now), fill.cost)
    /\ RecordDecision(Traded(m, side, fill))
    /\ UNCHANGED <<now, up, venue, settled, counts, closes>>

\* settle(): register_close, then the settlement record.
Settle(d) ==
    /\ MaySettle(d)
    /\ d.traded => closes[d.market] < MaxCloses
    /\ st' = LedgerAfter(d)
    /\ closes' = [closes EXCEPT ![d.market] = IF d.traded THEN @ + 1 ELSE @]
    /\ RecordSettlement(SettlementOf(d))
    /\ UNCHANGED <<now, up, venue, decided, counts>>

\* The records evaluate() and settle() may be about to write.
DecisionsBeingWritten ==
    LET due == {m \in Market : MayEvaluate(m)} IN
    {Skipped(m) : m \in due}
        \cup {Traded(m, side, fill) :
                m \in due, side \in Side, fill \in FillsAllowed}

SettlementsBeingWritten ==
    {SettlementOf(d) : d \in {e \in Pending(file) : MaySettle(e) /\ e.market \notin settled}}

\* The same two operations when the write to the journal fails: the exception
\* ends the loop's iteration before register_open, but after register_close.
EvaluateFails(rec) ==
    /\ rec \in DecisionsBeingWritten
    /\ writeErrors < MaxWriteErrors
    /\ st' \in LedgersOfSkip
    /\ file' \in AppendCutShort(file, rec)
    /\ writeErrors' = writeErrors + 1
    /\ known' = known \cup Labels(file')
    /\ UNCHANGED <<now, up, venue, decided, settled, crashes, closes>>

SettleFails(d) ==
    /\ MaySettle(d)
    /\ d.market \notin settled
    /\ writeErrors < MaxWriteErrors
    /\ d.traded => closes[d.market] < MaxCloses
    /\ st' = LedgerAfter(d)
    /\ closes' = [closes EXCEPT ![d.market] = IF d.traded THEN @ + 1 ELSE @]
    /\ file' \in AppendCutShort(file, SettlementOf(d))
    /\ writeErrors' = writeErrors + 1
    /\ known' = known \cup Labels(file')
    /\ UNCHANGED <<now, up, venue, decided, settled, crashes>>

\* The process is killed, between two steps or in the middle of a write.
Crash ==
    /\ up
    /\ crashes < MaxCrashes
    /\ up' = FALSE
    /\ crashes' = crashes + 1
    /\ \/ UNCHANGED file
       \/ \E rec \in DecisionsBeingWritten \cup SettlementsBeingWritten :
              file' \in AppendCutShort(file, rec)
    /\ UNCHANGED <<now, venue, memory, writeErrors, known, closes>>

\* A new process: _load_keys() reads the journal, the ledger starts afresh.
Restart ==
    /\ ~up
    /\ up' = TRUE
    /\ st' = FreshLedger
    /\ decided' = Named(file, "decision")
    /\ settled' = Named(file, "settlement")
    /\ known' = known \cup Labels(file)
    /\ closes' = [m \in Market |-> 0]
    /\ UNCHANGED <<now, venue, file, counts>>

SettleSome(m) == \E d \in Pending(file) : d.market = m /\ Settle(d)

Next ==
    \/ Tick
    \/ \E m \in Market, outcome \in Published \ {"open"} : Publish(m, outcome)
    \/ \E m \in Market : Skip(m)
    \/ \E m \in Market, side \in Side, fill \in Fill : Trade(m, side, fill)
    \/ \E m \in Market : SettleSome(m)
    \/ \E rec \in DecisionsBeingWritten : EvaluateFails(rec)
    \/ \E d \in Pending(file) : SettleFails(d)
    \/ Crash
    \/ Restart

\* The loop sweeps the pending decisions again and again, and an operator or a
\* supervisor starts the process again.
Fairness == /\ \A m \in Market : WF_vars(SettleSome(m))
            /\ WF_vars(Restart)

Spec     == Init /\ [][Next]_vars
LiveSpec == Spec /\ Fairness

-----------------------------------------------------------------------------
(***************************************************************************)
(* What the journal says the ledger should be.                             *)
(***************************************************************************)

PendingOn(f, m) == {d \in PendingTrades(f) : d.market = m}
CostOf(trades)  == StakedTotal([d \in trades |-> d.cost], MaxCost)

OpenCost(f)      == CostOf(PendingTrades(f))
JournalStakes(f) == [m \in Market |-> CostOf(PendingOn(f, m))]

\* The P&L of the settlements, profits less losses.
Profits(results) == StakedTotal([s \in results |-> AtLeastZero(s.pnl)], MaxShares)
Losses(results)  == StakedTotal([s \in results |-> AtLeastZero(-s.pnl)], MaxCost)
JournalPnl(f)    == LET results == OfKind(f, "settlement")
                    IN  Profits(results) - Losses(results)

Payoffs == {0} \cup {f.shares : f \in Fill} \cup {f.cost : f \in Fill}
Account == INSTANCE StakeAccount
               WITH Position <- Market, cash <- st.bankroll,
                    stakes <- JournalStakes(file), realised <- JournalPnl(file)

TypeOK == /\ now \in Time /\ up \in BOOLEAN
          /\ venue \in [Market -> Published]
          /\ \A r \in Readable(file) : r.kind \in {"decision", "settlement"}
          /\ Len(file.tail) <= 1
          /\ st \in RiskState
          /\ decided \in SUBSET Market /\ settled \in SUBSET Market
          /\ crashes \in 0..MaxCrashes /\ writeErrors \in 0..MaxWriteErrors
          /\ known \in SUBSET ({"decision", "settlement"} \X Market)
          /\ closes \in [Market -> 0..MaxCloses]

(***************************************************************************)
(* Properties of a process that is neither killed nor refused a write.     *)
(***************************************************************************)

\* The exposure and position count check() reads in memory are those of the
\* pending trades in the journal, although evaluate() writes the journal first
\* and settle() the ledger first.
ExposureMatchesJournal ==
    up => /\ st.exposure = OpenCost(file)
          /\ st.positions = Cardinality(PendingTrades(file))

\* "concurrent-position and exposure limits bind exactly as they would with
\* real money" (evaluate(), paper/engine.py:259): of the trades the journal
\* still has to settle.
LimitsBind == /\ Cardinality(PendingTrades(file)) <= MaxConcurrent
              /\ OpenCost(file) <= MaxExposure + MaxFee

\* The ledger that decides about the next trade and the journal that outlives
\* it say the same at every step, and the limits bind of what both say.
LedgerMatchesJournal == TypeOK /\ ExposureMatchesJournal /\ LimitsBind

\* "The stake leaves the bankroll now and returns at settlement": the bankroll
\* and the journal, read together, are an account in which each stake is
\* placed once and comes back once.
JournalIsAccount == Account!Spec

\* Every decision whose market is published is settled in the end, whatever
\* else happens to be pending.
EventuallySettled ==
    \A m \in Market : (m \in decided /\ venue[m] # "open") ~> m \in settled

(***************************************************************************)
(* Properties that survive kills and failed writes.                        *)
(***************************************************************************)

\* "One decision per market per horizon" (has_decision), and one settlement, in
\* the file and so across restarts.
RecordedOnce ==
    \A r, s \in Readable(file) : r.kind = s.kind /\ r.market = s.market => r = s

\* The journal replays in order: a settlement comes after the decision it
\* settles and carries that decision's result.
SettlesItsDecision ==
    LET all == file.lines \o file.tail IN
    \A i \in DOMAIN all : all[i].kind = "settlement" =>
        \E j \in 1..(i - 1) :
            /\ all[j].kind = "decision" /\ all[j].market = all[i].market
            /\ all[i].status = StatusOf(all[j])

\* The file replays to one history, whatever was killed or refused while it was
\* written (PaperJournal, paper/journal.py:226-289).
JournalIsSound == RecordedOnce /\ SettlesItsDecision

\* A write cut short costs the reader at most the record it was writing and the
\* next one, which is appended to the same line.
LossIsBounded ==
    Cardinality(known \ Labels(file)) <= 2 * (crashes + writeErrors)

=============================================================================
