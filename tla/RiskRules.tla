------------------------------ MODULE RiskRules ------------------------------
(***************************************************************************)
(* RiskState and the methods of RiskLedger (trading/risk.py) as operators  *)
(* on the state record, so that the ledger alone (RiskLedger) and the      *)
(* engine that owns one (PaperTrading) are built from the same rules.      *)
(*                                                                         *)
(* Money is counted in whole units and time in ticks.  The two calendar    *)
(* functions are parameters: all the limits need of them is that a later   *)
(* moment is never in an earlier day or week.                              *)
(***************************************************************************)
EXTENDS Integers

CONSTANTS
    MaxTime,          \* bound: the last tick a behaviour reaches
    DayOf, WeekOf,    \* tick -> number of its UTC day, of its ISO week
    Start,            \* starting_bankroll_usdc
    MaxStake,         \* sizing.max_position_usdc
    MaxFee,           \* the largest fee_usdc added to a fill of MaxStake
    MaxDailyLoss,     \* risk.max_daily_loss_usdc
    DailyPct,         \* risk.max_daily_loss_fraction, in percent
    WeeklyPct,        \* risk.max_weekly_loss_fraction, in percent
    MaxExposure,      \* risk.max_total_exposure_usdc
    MaxConcurrent,    \* risk.max_concurrent_positions
    MaxLosses,        \* risk.max_consecutive_losses
    Cooldown          \* risk.cooldown_minutes, in ticks

Time    == 0..MaxTime
MaxCost == MaxStake + MaxFee
NoPeriod == -1        \* day_key = "" and week_key = ""

ASSUME CalendarAssumption ==
    /\ MaxTime \in Nat
    /\ DayOf \in [Time -> Nat]
    /\ WeekOf \in [Time -> Nat]
    /\ \A s, t \in Time : s <= t => DayOf[s] <= DayOf[t] /\ WeekOf[s] <= WeekOf[t]

ASSUME LimitsAssumption ==
    /\ Start \in Nat \ {0}
    /\ MaxStake \in Nat \ {0}
    /\ MaxFee \in Nat
    /\ MaxDailyLoss \in Nat \ {0}
    /\ DailyPct \in Nat \ {0}
    /\ WeeklyPct \in Nat \ {0}
    /\ MaxExposure \in Nat \ {0}
    /\ MaxConcurrent \in Nat \ {0}
    /\ MaxLosses \in Nat \ {0}
    /\ Cooldown \in Nat

\* day_key, day_pnl_usdc and day_start_bankroll_usdc, or the same three for a week.
Period == [key : Int, pnl : Int, start : Int]

\* peak_bankroll_usdc and wins are left out: reports read them, no limit does.
RiskState ==
    [bankroll : Int, day : Period, week : Period, losses : Nat,
     exposure : Nat, positions : Nat, cooldownUntil : Nat,
     halted : BOOLEAN, trades : Nat]

NewPeriod(key, bankroll) == [key |-> key, pnl |-> 0, start |-> bankroll]

FreshLedger ==
    [bankroll |-> Start,
     day |-> NewPeriod(NoPeriod, Start), week |-> NewPeriod(NoPeriod, Start),
     losses |-> 0, exposure |-> 0, positions |-> 0,
     cooldownUntil |-> 0, halted |-> FALSE, trades |-> 0]

-----------------------------------------------------------------------------
AtLeastZero(n) == IF n > 0 THEN n ELSE 0

\* loss / max(base, 1e-9) > pct / 100, on whole units of money.
ExceedsPct(loss, base, pct) == loss * 100 > pct * AtLeastZero(base)

\* The only reason the code ever halts for starts with "daily", so a halt is
\* a boolean and a new day lifts it.
RollDay(st, now) ==
    IF DayOf[now] = st.day.key THEN st
    ELSE [st EXCEPT !.day = NewPeriod(DayOf[now], st.bankroll), !.halted = FALSE]

RollWeek(st, now) ==
    IF WeekOf[now] = st.week.key THEN st
    ELSE [st EXCEPT !.week = NewPeriod(WeekOf[now], st.bankroll)]

RollPeriods(st, now) == RollWeek(RollDay(st, now), now)

RoomForOneMore(st) == st.positions <= MaxConcurrent       \* variant: off by one

RoomForPosition(st) == st.positions < MaxConcurrent

LossSoFarFits(st, stake) == -st.day.pnl <= MaxDailyLoss   \* variant: regrets, does not prevent

\* check()'s daily limit in absolute terms: the losses booked and this stake.
FitsDailyLoss(st, stake)  == stake - st.day.pnl <= MaxDailyLoss

\* The verdict of check(), on a ledger whose periods have been rolled.
Allowed(st, now, killSwitch, stake) ==
    /\ ~killSwitch
    /\ ~st.halted
    /\ now >= st.cooldownUntil
    /\ st.bankroll > 0
    /\ RoomForPosition(st)
    /\ st.exposure + stake <= MaxExposure
    /\ FitsDailyLoss(st, stake)
    /\ ~ExceedsPct(stake - st.day.pnl, st.day.start, DailyPct)
    /\ ~ExceedsPct(stake - st.week.pnl, st.week.start, WeeklyPct)
    /\ st.losses < MaxLosses

\* The stakes PositionSizer can return: never above the cap or the bankroll.
Stakes(st) == {s \in 1..MaxStake : s <= st.bankroll}

\* The costs of a fill of that stake: depth may cut it, the fee is on top.
Costs(stake) == 1..(stake + MaxFee)

OpenWithoutDebit(st, cost) ==                \* variant: the stake stays in the bankroll
    [st EXCEPT !.exposure = @ + cost, !.positions = @ + 1]

RegisterOpen(st, cost) ==
    [st EXCEPT !.bankroll = @ - cost, !.exposure = @ + cost, !.positions = @ + 1]

\* The bookkeeping of register_close before the limits are looked at.
BookPnl(st, cost, payoff) ==
    [st EXCEPT !.bankroll  = @ + payoff,
               !.exposure  = AtLeastZero(@ - cost),
               !.positions = AtLeastZero(@ - 1),
               !.day.pnl   = @ + payoff - cost,
               !.week.pnl  = @ + payoff - cost,
               !.trades    = @ + 1]

CountRealLosses(st, now, pnl) ==             \* variant: breaking even ends the streak
    IF pnl >= 0 THEN [st EXCEPT !.losses = 0]
    ELSE IF st.losses + 1 < MaxLosses THEN [st EXCEPT !.losses = @ + 1]
    ELSE [st EXCEPT !.losses = 0, !.cooldownUntil = now + Cooldown]

\* A profit ends the losing streak; anything else extends it, and a streak at
\* its limit turns into a cool-off that starts the count afresh (stand_down).
CountStreak(st, now, pnl) ==
    IF pnl > 0 THEN [st EXCEPT !.losses = 0]
    ELSE IF st.losses + 1 < MaxLosses THEN [st EXCEPT !.losses = @ + 1]
    ELSE [st EXCEPT !.losses = 0, !.cooldownUntil = now + Cooldown]

DailyBreached(st) == \/ -st.day.pnl > MaxDailyLoss
                     \/ ExceedsPct(-st.day.pnl, st.day.start, DailyPct)

HaltWhileBreached(st) ==                     \* variant: a later win lifts the halt
    [st EXCEPT !.halted = DailyBreached(st)]

HaltIfBreached(st) == IF DailyBreached(st) THEN [st EXCEPT !.halted = TRUE] ELSE st

CloseUnrolled(st, now, cost, payoff) ==      \* variant: books on the day last looked at
    HaltIfBreached(CountStreak(BookPnl(st, cost, payoff), now, payoff - cost))

RegisterClose(st, now, cost, payoff) ==
    HaltIfBreached(
        CountStreak(BookPnl(RollPeriods(st, now), cost, payoff),
                    now, payoff - cost))

=============================================================================
