----------------------------- MODULE RiskLedger -----------------------------
(***************************************************************************)
(* The risk ledger (class RiskLedger, trading/risk.py) driven by any       *)
(* caller that keeps its contract: a position is opened only after check() *)
(* allowed a stake the sizer could have returned, and is closed once, with *)
(* the cost it was opened at.  Several positions may be open, they settle  *)
(* in any order, days and weeks turn over in between, and the operator may *)
(* create or remove the kill-switch file at any time.                      *)
(***************************************************************************)
EXTENDS RiskRules, Holdings

CONSTANTS
    Position,         \* the positions a behaviour may open, one after another or together
    MaxPayoff,        \* bound: the largest payoff a settlement returns
    MaxTrades         \* bound: how many positions a behaviour opens in all

ASSUME CallerAssumption == /\ IsFiniteSet(Position)
                           /\ MaxPayoff \in Nat
                           /\ MaxTrades \in Nat

VARIABLES
    now,          \* the caller's clock, in ticks
    killSwitch,   \* does the kill-switch file exist?
    st,           \* RiskLedger.state
    \* what the caller and an outside observer know; the ledger reads none of it
    stakes,       \* position -> its cost while it is open, 0 otherwise
    realised,     \* sum of the P&L of every close
    booked,       \* day -> sum of the P&L of the closes on that day
    drought,      \* closes without a profit since the last profitable one
    pausedAt      \* when the drought last reached a multiple of MaxLosses

world == <<now, killSwitch>>
books == <<stakes, realised, booked, drought, pausedAt>>
vars  == <<now, killSwitch, st, stakes, realised, booked, drought, pausedAt>>

Payoffs == 0..MaxPayoff
Account == INSTANCE StakeAccount WITH cash <- st.bankroll

Days     == {DayOf[t] : t \in Time}
NeverYet == -1

TypeOK == /\ now \in Time
          /\ killSwitch \in BOOLEAN
          /\ st \in RiskState
          /\ stakes \in [Position -> 0..MaxCost]
          /\ realised \in Int
          /\ booked \in [Days -> Int]
          /\ drought \in Nat
          /\ pausedAt \in Time \cup {NeverYet}

Init == /\ now = 0
        /\ killSwitch \in BOOLEAN
        /\ st = FreshLedger
        /\ stakes = [p \in Position |-> 0]
        /\ realised = 0
        /\ booked = [d \in Days |-> 0]
        /\ drought = 0
        /\ pausedAt = NeverYet

-----------------------------------------------------------------------------
Tick == /\ now < MaxTime
        /\ now' = now + 1
        /\ UNCHANGED <<killSwitch, st, books>>

ToggleKillSwitch == /\ killSwitch' = ~killSwitch
                    /\ UNCHANGED <<now, st, books>>

\* check() and nothing after it: the verdict was a refusal, or the fill model
\* found no book to fill against.  The periods have been rolled all the same.
CheckOnly == /\ st' = RollPeriods(st, now)
             /\ UNCHANGED <<world, books>>

\* check() allowed the stake, the order filled, register_open debits its cost.
Open(p, stake, cost) ==
    LET rolled == RollPeriods(st, now) IN
    /\ stakes[p] = 0
    /\ st.trades + st.positions < MaxTrades
    /\ Allowed(rolled, now, killSwitch, stake)
    /\ st' = RegisterOpen(rolled, cost)
    /\ stakes' = [stakes EXCEPT ![p] = cost]
    /\ UNCHANGED <<world, realised, booked, drought, pausedAt>>

Close(p, payoff) ==
    LET pnl == payoff - stakes[p] IN
    /\ stakes[p] > 0
    /\ st' = RegisterClose(st, now, stakes[p], payoff)
    /\ stakes' = [stakes EXCEPT ![p] = 0]
    /\ realised' = realised + pnl
    /\ booked' = [booked EXCEPT ![DayOf[now]] = @ + pnl]
    /\ drought' = IF pnl > 0 THEN 0 ELSE drought + 1
    /\ pausedAt' = IF pnl <= 0 /\ (drought + 1) % MaxLosses = 0 THEN now ELSE pausedAt
    /\ UNCHANGED world

Next ==
    \/ Tick
    \/ ToggleKillSwitch
    \/ CheckOnly
    \/ \E p \in Position : \E stake \in Stakes(st) : \E cost \in Costs(stake) :
           Open(p, stake, cost)
    \/ \E p \in Position : \E payoff \in Payoffs : Close(p, payoff)

Spec == Init /\ [][Next]_vars

-----------------------------------------------------------------------------
(***************************************************************************)
(* Safety.                                                                 *)
(***************************************************************************)

\* The exposure and the position count the limits are computed from are those
\* of the positions really open, whatever order they settle in: the clamps at
\* zero in register_close never hide a discrepancy.
ExposureIsOpenCost ==
    /\ st.exposure = StakedTotal(stakes, MaxCost)
    /\ st.positions = HeldCount(stakes)

\* register_open and register_close neither create nor lose money.
Conserved == st.bankroll + StakedTotal(stakes, MaxCost) = Start + realised

\* The daily P&L the limits read is that of the closes of that day, although
\* only check() and register_close() ever look at the calendar.
DayPnlIsBooked == st.day.key # NoPeriod => st.day.pnl = booked[st.day.key]

\* What check()'s worst case amounts to on any day: each check counts the
\* losses booked and the stake asked for, but neither the other open positions
\* nor the fee.  With one position at a time and no fee this is the limit.
DailyLossBound ==
    \A d \in Days :
        -booked[d] <= MaxDailyLoss + (MaxConcurrent - 1) * MaxCost + MaxFee

\* "a trade that could breach the daily limit is refused before it is placed,
\* not regretted afterwards" (check(), trading/risk.py:191).
DailyLimitHolds == \A d \in Days : -booked[d] <= MaxDailyLoss

\* A bankroll is spent at most down to the fee of the last fill.
NeverOverdrawn == st.bankroll >= -MaxFee

\* The streak gate of check() cannot latch: a full streak has always been
\* turned into a cool-off (stand_down).
StreakNeverLatches == st.losses < MaxLosses

\* What a caller may rely on when it reads the ledger, after any sequence of
\* opens, closes and checks over days and weeks: the exposure, the money, the
\* day's P&L and the streak that check() decides by are those of the trades
\* made (RiskLedger, trading/risk.py:143-271).
BooksAreRight == /\ TypeOK
                 /\ ExposureIsOpenCost
                 /\ Conserved
                 /\ DayPnlIsBooked
                 /\ NeverOverdrawn
                 /\ StreakNeverLatches

(***************************************************************************)
(* Action properties.                                                      *)
(***************************************************************************)

\* A daily halt is lifted only by a later day than the one it was booked on
\* (roll_periods; the case register_close rolls first for).
HaltLastsItsDay ==
    [][st.halted /\ ~st'.halted => DayOf[now] > st.day.key]_vars

\* After MaxLosses closes without a profit in between, and again after every
\* MaxLosses more, nothing opens until the cool-off is over.
StreakPausesTrading ==
    [][HeldCount(stakes)' > HeldCount(stakes)
       => pausedAt = NeverYet \/ now >= pausedAt + Cooldown]_vars

\* The ledger implements the account that knows no limits.
AccountSpec == Account!Spec

=============================================================================
