---------------------------- MODULE LedgerProofs ----------------------------
(***************************************************************************)
(* What holds of the ledger for every choice of its limits, of the         *)
(* calendar and of the number of positions (RiskLedger), and of the        *)
(* decisions and trades the replay enters into a ledger, for every         *)
(* configuration, grid of prices and data set (Backtest).                  *)
(***************************************************************************)
EXTENDS RiskLedger, Backtest, LedgerLemmas, OrderLemmas, SequenceTheorems

(***************************************************************************)
(* The invariants.                                                         *)
(***************************************************************************)

\* Inductive whatever the clock does.
AccountInv == TypeOK /\ ExposureIsOpenCost /\ Conserved

\* The types of what a step may be given.
LEMMA StepTypes ==
    ASSUME TypeOK
    PROVE  /\ Stakes(st) \subseteq Nat /\ \A stake \in Stakes(st) :
                  /\ stake \in 1..MaxStake /\ stake <= st.bankroll
                  /\ Costs(stake) \subseteq 1..MaxCost
                  /\ \A cost \in Costs(stake) : cost <= stake + MaxFee
           /\ Payoffs \subseteq Nat
           /\ DayOf[now] \in Days /\ Days \subseteq Nat
<1>1. Stakes(st) \subseteq 1..MaxStake /\ Payoffs \subseteq Nat
  BY CallerAssumption DEF Stakes, Payoffs
<1>2. ASSUME NEW stake \in Stakes(st)
      PROVE  /\ stake <= st.bankroll
             /\ Costs(stake) \subseteq 1..MaxCost
             /\ \A cost \in Costs(stake) : cost <= stake + MaxFee
  BY <1>1, LimitsAssumption DEF Stakes, Costs, MaxCost
<1>3. DayOf[now] \in Days /\ Days \subseteq Nat
  BY CalendarAssumption DEF Days, TypeOK
<1>4. QED
  BY <1>1, <1>2, <1>3, LimitsAssumption

\* The fresh ledger has nothing open and nothing at stake.
LEMMA InitAccount == Init => AccountInv
<1> SUFFICES ASSUME Init PROVE AccountInv
  OBVIOUS
<1>1. MaxCost \in Nat
  BY MaxCostType
<1>2. FreshLedger \in RiskState
  BY FreshTyped
<1>3. TypeOK
  BY <1>1, <1>2, CalendarAssumption DEF Init, TypeOK, Time, Days
<1>4. StakedTotal(stakes, MaxCost) = 0 /\ HeldCount(stakes) = 0
  BY <1>1, StakedNone DEF Init
<1>5. st.exposure = 0 /\ st.positions = 0 /\ st.bankroll = Start /\ realised = 0
  BY DEF Init, FreshLedger
<1>6. QED
  BY <1>3, <1>4, <1>5, LimitsAssumption DEF AccountInv, ExposureIsOpenCost, Conserved

\* register_open moves the cost from the bankroll to the exposure.
LEMMA OpenKeepsAccount ==
    ASSUME AccountInv, NEW p \in Position, NEW stake \in Stakes(st),
           NEW cost \in Costs(stake), Open(p, stake, cost)
    PROVE  AccountInv'
<1> DEFINE rolled == RollPeriods(st, now)
<1>1. /\ MaxCost \in Nat /\ IsFiniteSet(Position) /\ cost \in 1..MaxCost
      /\ stakes \in [Position -> 0..MaxCost]
      /\ st \in RiskState /\ now \in Time /\ realised \in Int
  BY MaxCostType, CallerAssumption, StepTypes DEF AccountInv, TypeOK
<1>2. /\ rolled \in RiskState /\ rolled.bankroll = st.bankroll
      /\ rolled.exposure = st.exposure /\ rolled.positions = st.positions
  BY <1>1, RollFacts
<1>3. st' = RegisterOpen(rolled, cost)
  BY DEF Open
<1> HIDE DEF rolled
<1>4. /\ st' \in RiskState /\ st'.bankroll = st.bankroll - cost
      /\ st'.exposure = st.exposure + cost /\ st'.positions = st.positions + 1
  <2>1. cost \in Nat
    BY <1>1
  <2>2. QED
    BY <1>2, <1>3, <2>1, OpenFacts
<1>5. /\ stakes' \in [Position -> 0..MaxCost] /\ stakes[p] = 0 /\ stakes'[p] = cost
      /\ \A q \in Position : q # p => stakes'[q] = stakes[q]
  BY <1>1 DEF Open
<1>6. /\ StakedTotal(stakes', MaxCost) = StakedTotal(stakes, MaxCost) + cost
      /\ HeldCount(stakes') = HeldCount(stakes) + 1
  BY <1>1, <1>5, StakedPlace
<1>7. StakedTotal(stakes, MaxCost) \in Nat
  BY <1>1, StakedFinite
<1>8. TypeOK'
  BY <1>4, <1>5 DEF AccountInv, TypeOK, Open, world
<1>9. ExposureIsOpenCost' /\ Conserved'
  <2>1. realised' = realised
    BY DEF Open
  <2>2. st.bankroll \in Int /\ Start \in Int
    BY <1>1, LimitsAssumption DEF RiskState
  <2>3. QED
    BY <1>1, <1>4, <1>6, <1>7, <2>1, <2>2 DEF AccountInv, ExposureIsOpenCost, Conserved
<1>10. QED
  BY <1>8, <1>9 DEF AccountInv

\* register_close gives the exposure back, and its clamp at zero never bites.
LEMMA CloseKeepsAccount ==
    ASSUME AccountInv, NEW p \in Position, NEW payoff \in Nat, Close(p, payoff)
    PROVE  AccountInv' /\ st'.exposure = st.exposure - stakes[p]
<1>1. /\ MaxCost \in Nat /\ IsFiniteSet(Position)
      /\ stakes \in [Position -> 0..MaxCost]
      /\ st \in RiskState /\ now \in Time /\ realised \in Int
  BY MaxCostType, CallerAssumption, StepTypes DEF AccountInv, TypeOK
<1>2. PICK cost \in Nat : cost = stakes[p] /\ cost > 0
  BY <1>1 DEF Close
<1>3. st' = RegisterClose(st, now, cost, payoff)
  BY <1>2 DEF Close
<1>4. /\ st' \in RiskState /\ st'.bankroll = st.bankroll + payoff
      /\ st'.exposure = AtLeastZero(st.exposure - cost)
      /\ st'.positions = AtLeastZero(st.positions - 1)
  <2>1. ClosedTo(st, now, cost, payoff, RegisterClose(st, now, cost, payoff))
    BY <1>1, CloseFacts
  <2>2. ClosedTo(st, now, cost, payoff, st')
    BY <1>3, <2>1
  <2>3. QED
    BY <2>2 DEF ClosedTo
<1>5. /\ stakes' \in [Position -> 0..MaxCost] /\ stakes'[p] = 0
      /\ \A q \in Position : q # p => stakes'[q] = stakes[q]
  BY <1>1 DEF Close
<1>6. /\ StakedTotal(stakes', MaxCost) = StakedTotal(stakes, MaxCost) - stakes[p]
      /\ HeldCount(stakes') = HeldCount(stakes) - 1
      /\ stakes[p] <= StakedTotal(stakes, MaxCost)
      /\ 1 <= HeldCount(stakes)
  BY <1>1, <1>2, <1>5, StakedSettle
<1>7. StakedTotal(stakes, MaxCost) \in Nat /\ HeldCount(stakes) \in Nat
  BY <1>1, StakedFinite
<1>8. realised' = realised + (payoff - cost)
  BY <1>2 DEF Close
<1>9. TypeOK'
  <2>1. booked' \in [Days -> Int]
    <3>1. booked' = [booked EXCEPT ![DayOf[now]] = @ + (payoff - cost)]
      BY <1>2 DEF Close
    <3>2. booked \in [Days -> Int]
      BY DEF AccountInv, TypeOK
    <3>3. DayOf[now] \in Days /\ payoff - cost \in Int
      BY <1>1, <1>2, StepTypes DEF AccountInv
    <3>4. booked[DayOf[now]] + (payoff - cost) \in Int
      BY <3>2, <3>3
    <3>5. QED
      BY <3>1, <3>2, <3>3, <3>4
  <2>2. drought' \in Nat /\ pausedAt' \in Time \cup {NeverYet}
    BY <1>1 DEF Close, AccountInv, TypeOK
  <2>3. realised' \in Int
    BY <1>1, <1>2, <1>8
  <2>4. QED
    BY <1>4, <1>5, <2>1, <2>2, <2>3 DEF AccountInv, TypeOK, Close, world
<1>10. st'.exposure = st.exposure - cost /\ st'.positions = st.positions - 1
  BY <1>2, <1>4, <1>6, <1>7 DEF AccountInv, ExposureIsOpenCost, AtLeastZero
<1>11. ExposureIsOpenCost' /\ Conserved'
  <2>1. st.bankroll \in Int /\ Start \in Int
    BY <1>1, LimitsAssumption DEF RiskState
  <2>2. ExposureIsOpenCost'
    BY <1>2, <1>6, <1>10 DEF AccountInv, ExposureIsOpenCost
  <2>3. Conserved'
    BY <1>1, <1>2, <1>4, <1>6, <1>7, <1>8, <2>1 DEF AccountInv, Conserved
  <2>4. QED
    BY <2>2, <2>3
<1>12. QED
  BY <1>2, <1>9, <1>10, <1>11 DEF AccountInv

\* Every step of the ledger keeps the accounting.
LEMMA NextKeepsAccount == AccountInv /\ [Next]_vars => AccountInv'
<1> SUFFICES ASSUME AccountInv, [Next]_vars PROVE AccountInv'
  OBVIOUS
<1> USE DEF AccountInv
<1>1. CASE Tick
  BY <1>1, CalendarAssumption DEF Tick, books, TypeOK, Time, ExposureIsOpenCost, Conserved
<1>2. CASE ToggleKillSwitch
  BY <1>2 DEF ToggleKillSwitch, books, TypeOK, ExposureIsOpenCost, Conserved
<1>3. CASE CheckOnly
  <2>1. /\ st' \in RiskState /\ st'.bankroll = st.bankroll
        /\ st'.exposure = st.exposure /\ st'.positions = st.positions
    BY <1>3, RollFacts DEF CheckOnly, TypeOK
  <2>2. QED
    BY <1>3, <2>1 DEF CheckOnly, world, books, TypeOK, ExposureIsOpenCost, Conserved
<1>4. ASSUME NEW p \in Position, NEW stake \in Stakes(st), NEW cost \in Costs(stake),
             Open(p, stake, cost)
      PROVE  AccountInv'
  BY <1>4, OpenKeepsAccount
<1>5. ASSUME NEW p \in Position, NEW payoff \in Payoffs, Close(p, payoff)
      PROVE  AccountInv'
  BY <1>5, CloseKeepsAccount, StepTypes
<1>6. CASE UNCHANGED vars
  BY <1>6 DEF vars, TypeOK, ExposureIsOpenCost, Conserved
<1>7. QED
  BY <1>1, <1>2, <1>3, <1>4, <1>5, <1>6 DEF Next

\* Type correctness, and the two facts every limit rests on: the ledger's
\* exposure and position count are those of the positions really open, and
\* the bankroll plus the money at stake is the start plus the realised P&L.
THEOREM Accounting == Spec => [](TypeOK /\ ExposureIsOpenCost /\ Conserved)
<1>1. Spec => []AccountInv
  BY InitAccount, NextKeepsAccount, PTL DEF Spec
<1>2. AccountInv => TypeOK /\ ExposureIsOpenCost /\ Conserved
  BY DEF AccountInv
<1>3. QED
  BY <1>1, <1>2, PTL

-----------------------------------------------------------------------------
(***************************************************************************)
(* The calendar: the day the ledger was last used on, and its P&L.         *)
(***************************************************************************)

\* The ledger's day is not in the future, its P&L is what was booked on it,
\* and nothing is booked on a later day yet.
OnCalendar(s, t, bk) ==
    /\ s.day.key = NoPeriod \/ (s.day.key \in Days /\ s.day.key <= DayOf[t])
    /\ s.day.key # NoPeriod => s.day.pnl = bk[s.day.key]
    /\ \A d \in Days : d > s.day.key => bk[d] = 0

\* On another day than the ledger's nothing has been booked yet.
LEMMA AnotherDay ==
    ASSUME NEW s \in RiskState, NEW t \in Time, NEW bk \in [Days -> Int],
           OnCalendar(s, t, bk), DayOf[t] # s.day.key
    PROVE  DayOf[t] > s.day.key /\ bk[DayOf[t]] = 0
<1>1. DayOf[t] \in Days /\ DayOf[t] \in Nat /\ s.day.key \in Int
  BY CalendarAssumption DEF Days, RiskState, Period
<1>2. DayOf[t] > s.day.key
  BY <1>1 DEF OnCalendar, NoPeriod
<1>3. QED
  BY <1>1, <1>2 DEF OnCalendar

\* Rolling to a new day starts from a day on which nothing is booked.
LEMMA RollOnCalendar ==
    ASSUME NEW s \in RiskState, NEW t \in Time, NEW bk \in [Days -> Int],
           OnCalendar(s, t, bk)
    PROVE  OnCalendar(RollPeriods(s, t), t, bk)
<1> DEFINE r == RollPeriods(s, t)
<1>1. /\ r \in RiskState /\ r.day.key = DayOf[t]
      /\ DayOf[t] = s.day.key => r.day.pnl = s.day.pnl
      /\ DayOf[t] # s.day.key => r.day.pnl = 0
  BY RollFacts
<1> SUFFICES OnCalendar(r, t, bk)
  OBVIOUS
<1> HIDE DEF r
<1>2. DayOf[t] \in Days /\ DayOf[t] \in Nat /\ s.day.key \in Int /\ Days \subseteq Nat
  BY CalendarAssumption DEF Days, RiskState, Period
<1>3. CASE DayOf[t] = s.day.key
  BY <1>1, <1>2, <1>3 DEF OnCalendar, NoPeriod
<1>4. CASE DayOf[t] # s.day.key
  <2>1. DayOf[t] > s.day.key /\ bk[DayOf[t]] = 0
    BY <1>4, AnotherDay
  <2>2. \A d \in Days : d > DayOf[t] => bk[d] = 0
    BY <1>2, <2>1 DEF OnCalendar
  <2>3. QED
    BY <1>1, <1>2, <1>4, <2>1, <2>2 DEF OnCalendar
<1>5. QED
  BY <1>3, <1>4

\* A close books its P&L on the day it happens, in memory as in the books.
LEMMA CloseOnCalendar ==
    ASSUME NEW s \in RiskState, NEW t \in Time, NEW bk \in [Days -> Int],
           OnCalendar(s, t, bk), NEW cost \in Nat, NEW payoff \in Nat,
           NEW r \in RiskState, ClosedTo(s, t, cost, payoff, r),
           NEW after \in [Days -> Int],
           after = [bk EXCEPT ![DayOf[t]] = @ + (payoff - cost)]
    PROVE  OnCalendar(r, t, after) /\ after[DayOf[t]] = r.day.pnl
<1>1. /\ r.day.key = DayOf[t]
      /\ DayOf[t] = s.day.key => r.day.pnl = s.day.pnl + payoff - cost
      /\ DayOf[t] # s.day.key => r.day.pnl = payoff - cost
  BY DEF ClosedTo
<1>2. /\ DayOf[t] \in Days /\ DayOf[t] \in Nat /\ Days \subseteq Nat
      /\ s.day.key \in Int /\ s.day.pnl \in Int
  BY CalendarAssumption DEF Days, RiskState, Period
<1>3. after[DayOf[t]] = bk[DayOf[t]] + (payoff - cost)
  BY <1>2
<1>4. after[DayOf[t]] = r.day.pnl
  <2>1. CASE DayOf[t] = s.day.key
    BY <1>1, <1>2, <1>3, <2>1 DEF OnCalendar, NoPeriod
  <2>2. CASE DayOf[t] # s.day.key
    <3>1. bk[DayOf[t]] = 0
      BY <2>2, AnotherDay
    <3>2. QED
      BY <1>1, <1>3, <2>2, <3>1
  <2>3. QED
    BY <2>1, <2>2
<1>5. ASSUME NEW d \in Days, d > DayOf[t]
      PROVE  after[d] = 0
  <2>1. s.day.key <= DayOf[t]
    BY <1>2 DEF OnCalendar, NoPeriod
  <2>2. bk[d] = 0
    BY <1>2, <1>5, <2>1 DEF OnCalendar
  <2>3. d # DayOf[t]
    BY <1>2, <1>5
  <2>4. QED
    BY <2>2, <2>3
<1>6. QED
  BY <1>1, <1>2, <1>4, <1>5 DEF OnCalendar

\* What the ledger's own limits add to the accounting.
LedgerInv == /\ AccountInv
             /\ OnCalendar(st, now, booked)
             /\ NeverOverdrawn
             /\ StreakNeverLatches

\* The fresh ledger has used no day and lost nothing.
LEMMA InitLedger == Init => LedgerInv
<1> SUFFICES ASSUME Init PROVE LedgerInv
  OBVIOUS
<1>1. AccountInv
  BY InitAccount
<1>2. /\ st.day.key = NoPeriod /\ st.bankroll = Start /\ st.losses = 0
      /\ \A d \in Days : booked[d] = 0
  BY DEF Init, FreshLedger, NewPeriod
<1>3. QED
  BY <1>1, <1>2, LimitsAssumption
     DEF LedgerInv, OnCalendar, NeverOverdrawn, StreakNeverLatches

\* A day may end while the ledger's periods stay where they were.
LEMMA TickKeepsLedger == LedgerInv /\ Tick => LedgerInv'
<1> SUFFICES ASSUME LedgerInv, Tick PROVE LedgerInv'
  OBVIOUS
<1>1. /\ now \in Time /\ now' \in Time /\ now <= now'
      /\ st' = st /\ booked' = booked /\ st \in RiskState
  BY CalendarAssumption DEF LedgerInv, AccountInv, TypeOK, Tick, Time, books
<1>2. DayOf[now] <= DayOf[now'] /\ DayOf[now] \in Nat /\ DayOf[now'] \in Nat
  BY <1>1, CalendarAssumption
<1>3. st.day.key \in Int
  BY <1>1 DEF RiskState, Period
<1>4. OnCalendar(st', now', booked')
  BY <1>1, <1>2, <1>3 DEF LedgerInv, OnCalendar
<1>5. AccountInv'
  BY NextKeepsAccount DEF LedgerInv, Next
<1>6. QED
  BY <1>1, <1>4, <1>5 DEF LedgerInv, NeverOverdrawn, StreakNeverLatches

\* A check that opens nothing rolls the periods and moves no money.
LEMMA CheckKeepsLedger == LedgerInv /\ CheckOnly => LedgerInv'
<1> SUFFICES ASSUME LedgerInv, CheckOnly PROVE LedgerInv'
  OBVIOUS
<1>1. /\ now \in Time /\ st \in RiskState /\ booked \in [Days -> Int]
      /\ OnCalendar(st, now, booked)
  BY DEF LedgerInv, AccountInv, TypeOK
<1>2. OnCalendar(st', now, booked)
  BY <1>1, RollOnCalendar DEF CheckOnly
<1>3. st'.bankroll = st.bankroll /\ st'.losses = st.losses
  BY <1>1, RollFacts DEF CheckOnly
<1>4. AccountInv'
  BY NextKeepsAccount DEF LedgerInv, Next
<1>5. now' = now /\ booked' = booked
  BY DEF CheckOnly, world, books
<1>6. QED
  BY <1>2, <1>3, <1>4, <1>5 DEF LedgerInv, NeverOverdrawn, StreakNeverLatches

\* The sizer's cap at the bankroll is what keeps an opening affordable.
LEMMA OpenKeepsLedger ==
    ASSUME LedgerInv, NEW p \in Position, NEW stake \in Stakes(st),
           NEW cost \in Costs(stake), Open(p, stake, cost)
    PROVE  LedgerInv'
<1> DEFINE rolled == RollPeriods(st, now)
<1>1. /\ now \in Time /\ st \in RiskState /\ booked \in [Days -> Int]
      /\ OnCalendar(st, now, booked) /\ TypeOK
  BY DEF LedgerInv, AccountInv, TypeOK
<1>2. /\ rolled \in RiskState /\ rolled.bankroll = st.bankroll
      /\ rolled.losses = st.losses
  BY <1>1, RollFacts
<1>3. OnCalendar(rolled, now, booked)
  BY <1>1, RollOnCalendar
<1>4. st' = RegisterOpen(rolled, cost)
  BY DEF Open
<1> HIDE DEF rolled
<1>5. /\ cost \in Nat /\ stake \in Nat /\ MaxFee \in Nat
      /\ cost <= stake + MaxFee /\ stake <= st.bankroll /\ st.bankroll \in Int
  BY <1>1, StepTypes, MaxCostType, LimitsAssumption DEF RiskState
<1>6. /\ st'.bankroll = st.bankroll - cost /\ st'.losses = st.losses
      /\ st'.day = rolled.day
  <2>1. rolled \in RiskState /\ cost \in Nat
    BY <1>2, <1>5
  <2>2. /\ st'.bankroll = rolled.bankroll - cost
        /\ st'.losses = rolled.losses
        /\ st'.day = rolled.day
    BY <2>1, <1>4, OpenFacts
  <2>3. QED
    BY <1>2, <2>2
<1>7. now' = now /\ booked' = booked
  BY DEF Open, world
<1>8. OnCalendar(st', now', booked')
  BY <1>3, <1>6, <1>7 DEF OnCalendar
<1>9. NeverOverdrawn' /\ StreakNeverLatches'
  BY <1>5, <1>6 DEF LedgerInv, NeverOverdrawn, StreakNeverLatches
<1>10. AccountInv'
  BY OpenKeepsAccount DEF LedgerInv
<1>11. QED
  BY <1>8, <1>9, <1>10 DEF LedgerInv

\* What Close does to the ledger, in the form the lemmas on ClosedTo need.
LEMMA CloseStep ==
    ASSUME AccountInv, NEW p \in Position, NEW payoff \in Nat, Close(p, payoff)
    PROVE  \E cost \in Nat :
             /\ cost = stakes[p]
             /\ st' \in RiskState /\ ClosedTo(st, now, cost, payoff, st')
             /\ booked' \in [Days -> Int]
             /\ booked' = [booked EXCEPT ![DayOf[now]] = @ + (payoff - cost)]
<1>1. stakes \in [Position -> 0..MaxCost] /\ MaxCost \in Nat /\ st \in RiskState /\ now \in Time
  BY MaxCostType DEF AccountInv, TypeOK
<1>2. PICK cost \in Nat : cost = stakes[p]
  BY <1>1
<1>3. ClosedTo(st, now, cost, payoff, RegisterClose(st, now, cost, payoff))
  BY <1>1, CloseFacts
<1>4. st' = RegisterClose(st, now, cost, payoff)
  BY <1>2 DEF Close
<1>5. ClosedTo(st, now, cost, payoff, st')
  BY <1>3, <1>4
<1>6. AccountInv'
  BY CloseKeepsAccount
<1>7. booked' = [booked EXCEPT ![DayOf[now]] = @ + (payoff - cost)]
  BY <1>2 DEF Close
<1>8. st' \in RiskState /\ booked' \in [Days -> Int]
  BY <1>6 DEF AccountInv, TypeOK
<1>9. QED
  BY <1>2, <1>5, <1>7, <1>8

\* A close never debits, and stand_down empties a full streak.
LEMMA CloseKeepsLedger ==
    ASSUME LedgerInv, NEW p \in Position, NEW payoff \in Nat, Close(p, payoff)
    PROVE  LedgerInv'
<1>1. /\ now \in Time /\ st \in RiskState /\ booked \in [Days -> Int]
      /\ OnCalendar(st, now, booked) /\ AccountInv
  BY DEF LedgerInv, AccountInv, TypeOK
<1>2. PICK cost \in Nat :
        /\ st' \in RiskState /\ ClosedTo(st, now, cost, payoff, st')
        /\ booked' \in [Days -> Int]
        /\ booked' = [booked EXCEPT ![DayOf[now]] = @ + (payoff - cost)]
  BY <1>1, CloseStep
<1>3. OnCalendar(st', now, booked')
  BY <1>1, <1>2, CloseOnCalendar
<1>4. NeverOverdrawn' /\ StreakNeverLatches'
  <2>1. /\ st'.bankroll = st.bankroll + payoff
        /\ st.losses < MaxLosses => st'.losses < MaxLosses
    BY <1>2 DEF ClosedTo
  <2>2. st.bankroll \in Int /\ MaxFee \in Nat
    BY <1>1, LimitsAssumption DEF RiskState
  <2>3. QED
    BY <2>1, <2>2 DEF LedgerInv, NeverOverdrawn, StreakNeverLatches
<1>5. AccountInv'
  BY <1>1, CloseKeepsAccount
<1>6. now' = now
  BY DEF Close, world
<1>7. QED
  BY <1>3, <1>4, <1>5, <1>6 DEF LedgerInv

\* Every step of the ledger keeps its limits.
LEMMA NextKeepsLedger == LedgerInv /\ [Next]_vars => LedgerInv'
<1> SUFFICES ASSUME LedgerInv, [Next]_vars PROVE LedgerInv'
  OBVIOUS
<1>1. CASE Tick
  BY <1>1, TickKeepsLedger
<1>2. CASE ToggleKillSwitch
  <2>1. AccountInv'
    BY <1>2, NextKeepsAccount DEF LedgerInv, Next
  <2>2. QED
    BY <1>2, <2>1 DEF ToggleKillSwitch, books, LedgerInv, OnCalendar, NeverOverdrawn,
                      StreakNeverLatches
<1>3. CASE CheckOnly
  BY <1>3, CheckKeepsLedger
<1>4. ASSUME NEW p \in Position, NEW stake \in Stakes(st), NEW cost \in Costs(stake),
             Open(p, stake, cost)
      PROVE  LedgerInv'
  BY <1>4, OpenKeepsLedger
<1>5. ASSUME NEW p \in Position, NEW payoff \in Payoffs, Close(p, payoff)
      PROVE  LedgerInv'
  BY <1>5, CloseKeepsLedger, StepTypes DEF LedgerInv, AccountInv
<1>6. CASE UNCHANGED vars
  <2>1. AccountInv'
    BY <1>6, NextKeepsAccount DEF LedgerInv
  <2>2. QED
    BY <1>6, <2>1 DEF vars, LedgerInv, OnCalendar, NeverOverdrawn, StreakNeverLatches
<1>7. QED
  BY <1>1, <1>2, <1>3, <1>4, <1>5, <1>6 DEF Next

\* The invariant the action properties below are read from.
LEMMA LedgerInvariant == Spec => []LedgerInv
BY InitLedger, NextKeepsLedger, PTL DEF Spec

\* The day's P&L in memory is what was booked on that day, the bankroll is never
\* overdrawn by more than a fee, and a losing streak never latches.
THEOREM Limits == Spec => [](DayPnlIsBooked /\ NeverOverdrawn /\ StreakNeverLatches)
<1>1. LedgerInv => DayPnlIsBooked /\ NeverOverdrawn /\ StreakNeverLatches
  BY DEF LedgerInv, OnCalendar, DayPnlIsBooked
<1>2. QED
  BY <1>1, LedgerInvariant, PTL

\* Both together: what a caller reads of the ledger before it decides is
\* always the account of the trades made.
THEOREM Books == Spec => []BooksAreRight
<1>1. TypeOK /\ ExposureIsOpenCost /\ Conserved
      /\ DayPnlIsBooked /\ NeverOverdrawn /\ StreakNeverLatches => BooksAreRight
  BY DEF BooksAreRight
<1>2. QED
  BY <1>1, Accounting, Limits, PTL

\* A step that lifts a halt is taken on a later day than the ledger's.
LEMMA NextKeepsHalt ==
    ASSUME LedgerInv, [Next]_vars, st.halted, ~st'.halted
    PROVE  DayOf[now] > st.day.key
<1>1. /\ now \in Time /\ st \in RiskState /\ booked \in [Days -> Int]
      /\ OnCalendar(st, now, booked) /\ AccountInv /\ TypeOK
  BY DEF LedgerInv, AccountInv, TypeOK
<1>2. st.halted = TRUE /\ st'.halted # TRUE
  BY <1>1 DEF RiskState
<1>3. DayOf[now] # st.day.key => DayOf[now] > st.day.key
  BY <1>1, AnotherDay
<1>4. DayOf[now] = st.day.key => RollPeriods(st, now).halted = TRUE
  BY <1>1, <1>2, RollFacts
<1>5. CASE st' = st
  BY <1>2, <1>5
<1>6. CASE CheckOnly
  BY <1>2, <1>3, <1>4, <1>6 DEF CheckOnly
<1>7. ASSUME NEW p \in Position, NEW stake \in Stakes(st), NEW cost \in Costs(stake),
             Open(p, stake, cost)
      PROVE  DayOf[now] > st.day.key
  <2> DEFINE rolled == RollPeriods(st, now)
  <2>1. rolled \in RiskState
    BY <1>1, RollFacts
  <2>2. st' = RegisterOpen(rolled, cost) /\ cost \in Nat
    BY <1>1, <1>7, StepTypes, MaxCostType DEF Open
  <2>3. DayOf[now] = st.day.key => rolled.halted = TRUE
    BY <1>4
  <2> HIDE DEF rolled
  <2>4. st'.halted = rolled.halted
    BY <2>1, <2>2, OpenFacts
  <2>5. QED
    BY <1>2, <1>3, <2>3, <2>4
<1>8. ASSUME NEW p \in Position, NEW payoff \in Payoffs, Close(p, payoff)
      PROVE  DayOf[now] > st.day.key
  <2>1. payoff \in Nat
    BY <1>1, StepTypes
  <2>2. PICK cost \in Nat : ClosedTo(st, now, cost, payoff, st')
    BY <1>1, <1>8, <2>1, CloseStep
  <2>3. DayOf[now] = st.day.key /\ st.halted = TRUE => st'.halted = TRUE
    BY <2>2 DEF ClosedTo
  <2>4. QED
    BY <1>2, <1>3, <2>3
<1>9. QED
  BY <1>5, <1>6, <1>7, <1>8 DEF Next, Tick, ToggleKillSwitch, books, vars

\* A daily halt lasts until a later day, whatever closes in between.
THEOREM HaltLasts == Spec => HaltLastsItsDay
<1>1. LedgerInv /\ [Next]_vars => [st.halted /\ ~st'.halted => DayOf[now] > st.day.key]_vars
  BY NextKeepsHalt
<1>2. QED
  BY <1>1, LedgerInvariant, PTL DEF Spec, HaltLastsItsDay

-----------------------------------------------------------------------------
(***************************************************************************)
(* The losing streak.                                                      *)
(***************************************************************************)

\* The ledger counts the drought modulo the streak at which it stands down, and
\* is in its cool-off from the last time that count was full.
StreakInv == /\ st.losses = drought % MaxLosses
             /\ pausedAt # NeverYet => st.cooldownUntil = pausedAt + Cooldown

LEMMA Remainder ==
    ASSUME NEW n \in Nat, NEW l \in Int, l > 0
    PROVE  \E q \in Int : \E r \in 0..(l - 1) : n = l * q + r /\ n % l = r
OBVIOUS

LEMMA OneRemainder ==
    ASSUME NEW l \in Nat \ {0}, NEW q \in Int, NEW k \in Int,
           NEW r \in 0..(l - 1), NEW s \in 0..(l - 1), l * q + r = l * k + s
    PROVE  r = s
OBVIOUS

\* Counting modulo l.
LEMMA NextRemainder ==
    ASSUME NEW n \in Nat, NEW l \in Nat \ {0}
    PROVE  /\ n % l \in 0..(l - 1) /\ 0 % l = 0
           /\ (n + 1) % l = IF (n % l) + 1 < l THEN (n % l) + 1 ELSE 0
<1>1. PICK q \in Int, r \in 0..(l - 1) : n = l * q + r /\ n % l = r
  BY Remainder
<1>2. PICK k \in Int, s \in 0..(l - 1) : n + 1 = l * k + s /\ (n + 1) % l = s
  <2>1. n + 1 \in Nat
    OBVIOUS
  <2>2. QED
    BY <2>1, Remainder
<1>3. CASE r + 1 < l
  <2>1. r + 1 \in 0..(l - 1)
    BY <1>3
  <2>2. l * q + (r + 1) = l * k + s
    BY <1>1, <1>2
  <2>3. r + 1 = s
    BY <2>1, <2>2, OneRemainder
  <2>4. QED
    BY <1>1, <1>2, <1>3, <2>3
<1>4. CASE r + 1 = l
  <2>1. 0 \in 0..(l - 1) /\ q + 1 \in Int
    OBVIOUS
  <2>2. l * (q + 1) + 0 = l * k + s
    BY <1>1, <1>2, <1>4
  <2>3. 0 = s
    BY <2>1, <2>2, OneRemainder
  <2>4. QED
    BY <1>1, <1>2, <1>4, <2>3
<1>5. 0 % l = 0
  <2>1. PICK j \in Int, o \in 0..(l - 1) : 0 = l * j + o /\ 0 % l = o
    BY Remainder
  <2>2. l * 0 + 0 = l * j + o /\ 0 \in 0..(l - 1)
    BY <2>1
  <2>3. 0 = o
    BY <2>2, OneRemainder
  <2>4. QED
    BY <2>1, <2>3
<1>6. QED
  BY <1>1, <1>3, <1>4, <1>5

\* Rolling the periods and opening leave the streak alone.
LEMMA StreakOfRoll ==
    ASSUME NEW s \in RiskState, NEW t \in Time
    PROVE  /\ RollPeriods(s, t).losses = s.losses
           /\ RollPeriods(s, t).cooldownUntil = s.cooldownUntil
<1>1. /\ RollDay(s, t).losses = s.losses
      /\ RollDay(s, t).cooldownUntil = s.cooldownUntil
      /\ DOMAIN RollDay(s, t) = DOMAIN s
      /\ {"losses", "cooldownUntil"} \subseteq DOMAIN s
  BY DEF RollDay, RiskState
<1>2. QED
  BY <1>1 DEF RollPeriods, RollWeek

\* What register_close makes of the streak.
LEMMA StreakOfClose ==
    ASSUME NEW s \in RiskState, NEW t \in Time, NEW cost \in Nat, NEW payoff \in Nat,
           NEW r, r = RegisterClose(s, t, cost, payoff)
    PROVE  /\ payoff - cost > 0 => r.losses = 0 /\ r.cooldownUntil = s.cooldownUntil
           /\ payoff - cost <= 0 /\ s.losses + 1 < MaxLosses =>
                r.losses = s.losses + 1 /\ r.cooldownUntil = s.cooldownUntil
           /\ payoff - cost <= 0 /\ ~(s.losses + 1 < MaxLosses) =>
                r.losses = 0 /\ r.cooldownUntil = t + Cooldown
<1> DEFINE rolled  == RollPeriods(s, t)
           booking == BookPnl(rolled, cost, payoff)
           counted == CountStreak(booking, t, payoff - cost)
<1>1. /\ rolled \in RiskState /\ rolled.losses = s.losses
      /\ rolled.cooldownUntil = s.cooldownUntil
  BY RollFacts, StreakOfRoll
<1>2. r = HaltIfBreached(counted)
  BY DEF RegisterClose
<1> HIDE DEF rolled
<1>3. /\ booking.losses = s.losses /\ booking.cooldownUntil = s.cooldownUntil
      /\ DOMAIN booking = DOMAIN rolled
      /\ "losses" \in DOMAIN rolled /\ "cooldownUntil" \in DOMAIN rolled
  BY <1>1 DEF BookPnl, RiskState
<1> HIDE DEF booking
<1>4. /\ counted = IF payoff - cost > 0 THEN [booking EXCEPT !.losses = 0]
                   ELSE IF booking.losses + 1 < MaxLosses
                        THEN [booking EXCEPT !.losses = booking.losses + 1]
                        ELSE [booking EXCEPT !.losses = 0, !.cooldownUntil = t + Cooldown]
  BY DEF CountStreak
<1> HIDE DEF counted
<1>5. /\ payoff - cost > 0 => counted.losses = 0 /\ counted.cooldownUntil = s.cooldownUntil
      /\ payoff - cost <= 0 /\ s.losses + 1 < MaxLosses =>
           counted.losses = s.losses + 1 /\ counted.cooldownUntil = s.cooldownUntil
      /\ payoff - cost <= 0 /\ ~(s.losses + 1 < MaxLosses) =>
           counted.losses = 0 /\ counted.cooldownUntil = t + Cooldown
  BY <1>3, <1>4
<1>6. r.losses = counted.losses /\ r.cooldownUntil = counted.cooldownUntil
  BY <1>2 DEF HaltIfBreached
<1>7. QED
  BY <1>5, <1>6

LEMMA InitStreak == Init => StreakInv
<1>1. 0 % MaxLosses = 0
  BY NextRemainder, LimitsAssumption
<1>2. QED
  BY <1>1 DEF Init, FreshLedger, StreakInv

LEMMA CloseKeepsStreak ==
    ASSUME AccountInv, StreakInv, NEW p \in Position, NEW payoff \in Nat, Close(p, payoff)
    PROVE  StreakInv'
<1>1. /\ st \in RiskState /\ now \in Time /\ drought \in Nat /\ MaxLosses \in Nat \ {0}
      /\ pausedAt \in Int /\ now \in Int /\ now # NeverYet
  BY LimitsAssumption, CalendarAssumption DEF AccountInv, TypeOK, Time, NeverYet
<1>2. stakes[p] \in Nat
  BY MaxCostType DEF AccountInv, TypeOK
<1> DEFINE pnl == payoff - stakes[p]
<1>3. /\ drought' = IF pnl > 0 THEN 0 ELSE drought + 1
      /\ pausedAt' = IF pnl <= 0 /\ (drought + 1) % MaxLosses = 0 THEN now ELSE pausedAt
      /\ st' = RegisterClose(st, now, stakes[p], payoff)
  BY DEF Close
<1>4. /\ pnl > 0 => st'.losses = 0 /\ st'.cooldownUntil = st.cooldownUntil
      /\ pnl <= 0 /\ st.losses + 1 < MaxLosses =>
           st'.losses = st.losses + 1 /\ st'.cooldownUntil = st.cooldownUntil
      /\ pnl <= 0 /\ ~(st.losses + 1 < MaxLosses) =>
           st'.losses = 0 /\ st'.cooldownUntil = now + Cooldown
  BY <1>1, <1>2, <1>3, StreakOfClose
<1>5. pnl \in Int
  BY <1>2
<1> HIDE DEF pnl
<1>6. /\ drought % MaxLosses \in 0..(MaxLosses - 1) /\ 0 % MaxLosses = 0
      /\ (drought + 1) % MaxLosses =
           IF (drought % MaxLosses) + 1 < MaxLosses
           THEN (drought % MaxLosses) + 1 ELSE 0
  BY <1>1, NextRemainder
<1>7. st.losses = drought % MaxLosses /\ st.losses \in Nat
  BY <1>1 DEF StreakInv, RiskState
<1>8. CASE pnl > 0
  BY <1>3, <1>4, <1>5, <1>6, <1>8 DEF StreakInv
<1>9. CASE pnl <= 0 /\ st.losses + 1 < MaxLosses
  <2>1. (drought + 1) % MaxLosses = st.losses + 1 /\ (drought + 1) % MaxLosses # 0
    BY <1>6, <1>7, <1>9
  <2>2. drought' = drought + 1 /\ pausedAt' = pausedAt
    BY <1>3, <1>5, <1>9, <2>1
  <2>3. QED
    BY <1>4, <1>9, <2>1, <2>2 DEF StreakInv
<1>10. CASE pnl <= 0 /\ ~(st.losses + 1 < MaxLosses)
  <2>1. (drought + 1) % MaxLosses = 0
    BY <1>6, <1>7, <1>10
  <2>2. drought' = drought + 1 /\ pausedAt' = now
    BY <1>3, <1>5, <1>10, <2>1
  <2>3. QED
    BY <1>4, <1>10, <2>1, <2>2 DEF StreakInv
<1>11. QED
  BY <1>5, <1>8, <1>9, <1>10

LEMMA NextKeepsStreak == AccountInv /\ StreakInv /\ [Next]_vars => StreakInv'
<1> SUFFICES ASSUME AccountInv, StreakInv, [Next]_vars PROVE StreakInv'
  OBVIOUS
<1>1. st \in RiskState /\ now \in Time
  BY DEF AccountInv, TypeOK
<1>2. CASE /\ st'.losses = st.losses /\ st'.cooldownUntil = st.cooldownUntil
           /\ UNCHANGED <<drought, pausedAt>>
  BY <1>2 DEF StreakInv
<1>3. CASE CheckOnly
  BY <1>1, <1>2, <1>3, StreakOfRoll DEF CheckOnly, books
<1>4. ASSUME NEW p \in Position, NEW stake \in Stakes(st), NEW cost \in Costs(stake),
             Open(p, stake, cost)
      PROVE  StreakInv'
  <2>1. st' = RegisterOpen(RollPeriods(st, now), cost) /\ cost \in Nat
    BY <1>4, StepTypes, MaxCostType DEF Open, AccountInv
  <2>2. RollPeriods(st, now) \in RiskState
    BY <1>1, RollFacts
  <2>3. /\ st'.losses = RollPeriods(st, now).losses
        /\ st'.cooldownUntil = RollPeriods(st, now).cooldownUntil
    BY <2>1, <2>2 DEF RegisterOpen, RiskState
  <2>4. QED
    BY <1>1, <1>2, <1>4, <2>3, StreakOfRoll DEF Open
<1>5. ASSUME NEW p \in Position, NEW payoff \in Payoffs, Close(p, payoff)
      PROVE  StreakInv'
  BY <1>5, CloseKeepsStreak, StepTypes DEF AccountInv
<1>6. CASE Tick \/ ToggleKillSwitch \/ UNCHANGED vars
  BY <1>2, <1>6 DEF Tick, ToggleKillSwitch, vars, books
<1>7. QED
  BY <1>3, <1>4, <1>5, <1>6 DEF Next

\* Only register_open makes one position more, and check() refuses in a cool-off.
LEMMA OpensAfterPause ==
    ASSUME AccountInv, StreakInv, [Next]_vars, HeldCount(stakes)' > HeldCount(stakes)
    PROVE  pausedAt = NeverYet \/ now >= pausedAt + Cooldown
<1>1. st \in RiskState /\ now \in Time /\ st.positions = HeldCount(stakes)
  BY DEF AccountInv, TypeOK, ExposureIsOpenCost
<1>2. HeldCount(stakes) \in Nat
  BY <1>1 DEF RiskState
<1>3. stakes' # stakes
  <2>1. stakes' = stakes => HeldCount(stakes)' = HeldCount(stakes)
    OBVIOUS
  <2>2. QED
    BY <1>2, <2>1
<1>4. ASSUME NEW p \in Position, NEW stake \in Stakes(st), NEW cost \in Costs(stake),
             Open(p, stake, cost)
      PROVE  pausedAt = NeverYet \/ now >= pausedAt + Cooldown
  BY <1>1, <1>4, StreakOfRoll DEF Open, Allowed, StreakInv
<1>5. ASSUME NEW p \in Position, NEW payoff \in Payoffs, Close(p, payoff)
      PROVE  FALSE
  <2>1. payoff \in Nat
    BY StepTypes DEF AccountInv
  <2>2. AccountInv'
    BY <1>5, <2>1, CloseKeepsAccount
  <2>3. st'.positions = HeldCount(stakes)'
    BY <2>2 DEF AccountInv, ExposureIsOpenCost
  <2>4. st'.positions = AtLeastZero(st.positions - 1)
    BY <1>5, <2>1, CloseStep DEF ClosedTo
  <2>5. QED
    BY <1>1, <1>2, <2>3, <2>4 DEF AtLeastZero
<1>6. ~(Tick \/ ToggleKillSwitch \/ CheckOnly \/ UNCHANGED vars)
  BY <1>3 DEF Tick, ToggleKillSwitch, CheckOnly, vars, books
<1>7. QED
  BY <1>4, <1>5, <1>6 DEF Next

\* After a full streak, whatever is closed or rolled over in between, nothing
\* opens until the cool-off is over (stand_down, trading/risk.py:273).
THEOREM StreakPauses == Spec => StreakPausesTrading
<1>1. Spec => []AccountInv
  BY InitAccount, NextKeepsAccount, PTL DEF Spec
<1>2. Init => StreakInv
  BY InitStreak
<1>3. AccountInv /\ StreakInv /\ [Next]_vars => StreakInv'
  BY NextKeepsStreak
<1>4. AccountInv /\ StreakInv /\ [Next]_vars
        => [HeldCount(stakes)' > HeldCount(stakes)
              => pausedAt = NeverYet \/ now >= pausedAt + Cooldown]_vars
  BY OpensAfterPause
<1>5. QED
  BY <1>1, <1>2, <1>3, <1>4, PTL DEF Spec, StreakPausesTrading

-----------------------------------------------------------------------------
(***************************************************************************)
(* The daily loss.                                                         *)
(***************************************************************************)

DayBound == MaxDailyLoss + (MaxConcurrent - 1) * MaxCost + MaxFee

\* What the open positions and the losses of the day can come to together.
LossInv == /\ st.positions <= MaxConcurrent
           /\ st.exposure - st.day.pnl <= DayBound
           /\ \A d \in Days : -booked[d] <= DayBound

\* A product of natural numbers grows with its first factor.
LEMMA ProductGrows ==
    ASSUME NEW a \in Nat, NEW b \in Nat, NEW c \in Nat, a <= b
    PROVE  a * c <= b * c
OBVIOUS

\* The bound on a day's losses is a natural number, term by term.
LEMMA DayBoundType == /\ DayBound \in Nat
                      /\ (MaxConcurrent - 1) * MaxCost \in Nat
                      /\ MaxConcurrent * MaxCost = (MaxConcurrent - 1) * MaxCost + MaxCost
BY MaxCostType, LimitsAssumption DEF DayBound

\* The exposure is at most what the counted positions can have cost.
LEMMA ExposureByCount ==
    ASSUME AccountInv, NEW n \in Nat, st.positions <= n
    PROVE  st.exposure <= n * MaxCost
<1>1. /\ IsFiniteSet(Position) /\ MaxCost \in Nat /\ stakes \in [Position -> 0..MaxCost]
  BY MaxCostType, CallerAssumption DEF AccountInv, TypeOK
<1>2. /\ StakedTotal(stakes, MaxCost) <= HeldCount(stakes) * MaxCost
      /\ HeldCount(stakes) \in Nat /\ StakedTotal(stakes, MaxCost) \in Nat
  BY <1>1, StakedBound, StakedFinite
<1>3. st.exposure = StakedTotal(stakes, MaxCost) /\ st.positions = HeldCount(stakes)
  BY DEF AccountInv, ExposureIsOpenCost
<1>4. HeldCount(stakes) * MaxCost <= n * MaxCost
  BY <1>1, <1>2, <1>3, ProductGrows
<1>5. HeldCount(stakes) * MaxCost \in Nat /\ n * MaxCost \in Nat
  BY <1>1, <1>2
<1>6. QED
  BY <1>2, <1>3, <1>4, <1>5

\* On another day the day's P&L starts afresh, and what is still open is what a
\* full set of positions can have cost at most.
LEMMA RollKeepsLoss ==
    ASSUME LedgerInv, LossInv, MaxStake <= MaxDailyLoss,
           NEW r \in RiskState, r = RollPeriods(st, now)
    PROVE  r.exposure - r.day.pnl <= DayBound
<1>1. /\ now \in Time /\ st \in RiskState /\ AccountInv
      /\ st.exposure \in Nat /\ st.positions \in Nat
  BY DEF LedgerInv, AccountInv, TypeOK, RiskState
<1>2. /\ r.exposure = st.exposure
      /\ DayOf[now] = st.day.key => r.day.pnl = st.day.pnl
      /\ DayOf[now] # st.day.key => r.day.pnl = 0
  BY <1>1, RollFacts
<1>3. CASE DayOf[now] = st.day.key
  BY <1>2, <1>3 DEF LossInv
<1>4. CASE DayOf[now] # st.day.key
  <2>1. st.exposure <= MaxConcurrent * MaxCost
    BY <1>1, LimitsAssumption, ExposureByCount DEF LossInv
  <2>2. MaxCost = MaxStake + MaxFee /\ MaxStake \in Nat /\ MaxFee \in Nat /\ MaxDailyLoss \in Nat
    BY LimitsAssumption DEF MaxCost
  <2> DEFINE rest == (MaxConcurrent - 1) * MaxCost
             all  == MaxConcurrent * MaxCost
  <2>3. rest \in Nat /\ all = rest + MaxCost /\ DayBound = MaxDailyLoss + rest + MaxFee
    BY DayBoundType DEF DayBound
  <2>4. st.exposure <= all
    BY <2>1
  <2> HIDE DEF rest, all
  <2>5. st.exposure <= DayBound
    BY <1>1, <2>2, <2>3, <2>4
  <2>6. QED
    BY <1>1, <1>2, <1>4, <2>5
<1>5. QED
  BY <1>3, <1>4

\* check() leaves room for the stake, and the other positions fit the rest.
LEMMA OpenKeepsLoss ==
    ASSUME LedgerInv, LossInv, MaxStake <= MaxDailyLoss,
           NEW p \in Position, NEW stake \in Stakes(st), NEW cost \in Costs(stake),
           Open(p, stake, cost)
    PROVE  LossInv'
<1> DEFINE rolled == RollPeriods(st, now)
<1>1. /\ now \in Time /\ st \in RiskState /\ AccountInv /\ TypeOK
  BY DEF LedgerInv, AccountInv, TypeOK
<1>2. /\ rolled \in RiskState /\ rolled.exposure = st.exposure
      /\ rolled.positions = st.positions
  BY <1>1, RollFacts
<1>3. /\ st' = RegisterOpen(rolled, cost)
      /\ rolled.positions < MaxConcurrent
      /\ stake - rolled.day.pnl <= MaxDailyLoss
  BY DEF Open, Allowed, RoomForPosition, FitsDailyLoss
<1> HIDE DEF rolled
<1>4. cost \in Nat /\ stake \in Nat /\ cost <= stake + MaxFee
  BY <1>1, StepTypes, MaxCostType, LimitsAssumption
<1>5. /\ st'.exposure = rolled.exposure + cost
      /\ st'.positions = rolled.positions + 1
      /\ st'.day = rolled.day
  BY ONLY <1>2, <1>3, <1>4, OpenFacts
<1>6. /\ rolled.positions \in Nat /\ rolled.exposure \in Nat /\ rolled.day.pnl \in Int
      /\ MaxConcurrent \in Nat \ {0} /\ MaxFee \in Nat /\ MaxDailyLoss \in Nat
  BY <1>2, LimitsAssumption DEF RiskState, Period
<1>7. st'.positions <= MaxConcurrent
  BY <1>3, <1>5, <1>6
<1>8. st'.exposure - st'.day.pnl <= DayBound
  <2> DEFINE rest == (MaxConcurrent - 1) * MaxCost
  <2>1. MaxConcurrent - 1 \in Nat /\ st.positions <= MaxConcurrent - 1
    BY <1>2, <1>3, <1>6
  <2>2. st.exposure <= rest
    BY <1>1, <2>1, ExposureByCount
  <2>3. rest \in Nat /\ DayBound = MaxDailyLoss + rest + MaxFee
    BY DayBoundType DEF DayBound
  <2> HIDE DEF rest
  <2>4. QED
    BY <1>2, <1>3, <1>4, <1>5, <1>6, <2>2, <2>3
<1>9. booked' = booked
  BY DEF Open
<1>10. QED
  BY <1>7, <1>8, <1>9 DEF LossInv

\* A close turns exposure into a loss of at most the same amount.
LEMMA CloseKeepsLoss ==
    ASSUME LedgerInv, LossInv, MaxStake <= MaxDailyLoss,
           NEW p \in Position, NEW payoff \in Nat, Close(p, payoff)
    PROVE  LossInv'
<1> DEFINE rolled == RollPeriods(st, now)
<1>1. /\ now \in Time /\ st \in RiskState /\ AccountInv /\ booked \in [Days -> Int]
      /\ OnCalendar(st, now, booked)
  BY DEF LedgerInv, AccountInv, TypeOK
<1>2. PICK cost \in Nat :
        /\ cost = stakes[p]
        /\ st' \in RiskState /\ ClosedTo(st, now, cost, payoff, st')
        /\ booked' \in [Days -> Int]
        /\ booked' = [booked EXCEPT ![DayOf[now]] = @ + (payoff - cost)]
  BY <1>1, CloseStep
<1>3. st'.exposure = st.exposure - cost
  BY <1>1, <1>2, CloseKeepsAccount
<1>4. /\ rolled \in RiskState /\ rolled.exposure = st.exposure
      /\ DayOf[now] = st.day.key => rolled.day.pnl = st.day.pnl
      /\ DayOf[now] # st.day.key => rolled.day.pnl = 0
  BY <1>1, RollFacts
<1>5. rolled.exposure - rolled.day.pnl <= DayBound
  BY <1>4, RollKeepsLoss
<1> HIDE DEF rolled
<1>6. /\ st'.exposure \in Nat /\ st'.day.pnl \in Int /\ rolled.day.pnl \in Int
      /\ st.exposure \in Nat /\ st.positions \in Nat /\ DayBound \in Nat
      /\ st.day.pnl \in Int
  BY <1>1, <1>2, <1>4, DayBoundType DEF RiskState, Period
<1>7. st'.day.pnl = rolled.day.pnl + payoff - cost
  <2>1. /\ DayOf[now] = st.day.key => st'.day.pnl = st.day.pnl + payoff - cost
        /\ DayOf[now] # st.day.key => st'.day.pnl = payoff - cost
    BY <1>2 DEF ClosedTo
  <2>2. QED
    BY <1>4, <1>6, <2>1
<1>8. st'.exposure - st'.day.pnl <= DayBound
  BY <1>3, <1>4, <1>5, <1>6, <1>7
<1>9. st'.positions <= MaxConcurrent
  <2>1. st'.positions = AtLeastZero(st.positions - 1) /\ MaxConcurrent \in Nat
    BY <1>2, LimitsAssumption DEF ClosedTo
  <2>2. QED
    BY <1>6, <2>1 DEF LossInv, AtLeastZero
<1>10. booked'[DayOf[now]] = st'.day.pnl
  BY <1>1, <1>2, CloseOnCalendar
<1>11. ASSUME NEW d \in Days
       PROVE  -booked'[d] <= DayBound
  <2>1. CASE d = DayOf[now]
    BY <1>6, <1>8, <1>10, <2>1
  <2>2. CASE d # DayOf[now]
    BY <1>1, <1>2, <2>2 DEF LossInv
  <2>3. QED
    BY <2>1, <2>2
<1>12. QED
  BY <1>8, <1>9, <1>11 DEF LossInv

\* Every step of the ledger keeps the bound on the day's losses.
LEMMA NextKeepsLoss ==
    ASSUME LedgerInv, LossInv, MaxStake <= MaxDailyLoss, [Next]_vars
    PROVE  LossInv'
<1>1. CASE st' = st /\ booked' = booked
  BY <1>1 DEF LossInv
<1>2. CASE CheckOnly
  <2> DEFINE rolled == RollPeriods(st, now)
  <2>1. /\ rolled \in RiskState /\ rolled.positions = st.positions
    BY RollFacts DEF LedgerInv, AccountInv, TypeOK
  <2>2. rolled.exposure - rolled.day.pnl <= DayBound
    BY <2>1, RollKeepsLoss
  <2>3. st' = rolled /\ booked' = booked
    BY <1>2 DEF CheckOnly, books
  <2> HIDE DEF rolled
  <2>4. QED
    BY <2>1, <2>2, <2>3 DEF LossInv
<1>3. ASSUME NEW p \in Position, NEW stake \in Stakes(st), NEW cost \in Costs(stake),
             Open(p, stake, cost)
      PROVE  LossInv'
  BY <1>3, OpenKeepsLoss
<1>4. ASSUME NEW p \in Position, NEW payoff \in Payoffs, Close(p, payoff)
      PROVE  LossInv'
  BY <1>4, CloseKeepsLoss, StepTypes DEF LedgerInv, AccountInv
<1>5. QED
  BY <1>1, <1>2, <1>3, <1>4 DEF Next, Tick, ToggleKillSwitch, books, vars

\* What check() promises about a day, for every configuration in which one
\* stake fits the daily limit: the losses booked on it stay within the limit
\* plus what the other positions and the last fee can add.
THEOREM DailyLoss ==
    ASSUME MaxStake <= MaxDailyLoss
    PROVE  Spec => []DailyLossBound
<1>1. Init => LossInv
  <2> SUFFICES ASSUME Init PROVE LossInv
    OBVIOUS
  <2>1. /\ st.positions = 0 /\ st.exposure = 0 /\ st.day.pnl = 0
        /\ \A d \in Days : booked[d] = 0
    BY DEF Init, FreshLedger, NewPeriod
  <2>2. DayBound \in Nat /\ MaxConcurrent \in Nat
    BY DayBoundType, LimitsAssumption
  <2>3. QED
    BY <2>1, <2>2 DEF LossInv
<1>2. LedgerInv /\ LossInv /\ [Next]_vars => LossInv'
  BY NextKeepsLoss
<1>3. LossInv => DailyLossBound
  BY DEF LossInv, DailyLossBound, DayBound
<1>4. QED
  BY <1>1, <1>2, <1>3, LedgerInvariant, PTL DEF Spec

\* With one position at a time and no fee that is the limit itself, as check()
\* says: "refused before it is placed, not regretted afterwards".
THEOREM DailyLimit ==
    ASSUME MaxStake <= MaxDailyLoss, MaxConcurrent = 1, MaxFee = 0
    PROVE  Spec => []DailyLimitHolds
<1>1. Spec => []DailyLossBound
  BY DailyLoss
<1>2. DailyLossBound => DailyLimitHolds
  <2>1. (MaxConcurrent - 1) * MaxCost = 0 /\ MaxDailyLoss \in Nat
    BY MaxCostType, LimitsAssumption
  <2>2. QED
    BY <2>1 DEF DailyLossBound, DailyLimitHolds
<1>3. QED
  BY <1>1, <1>2, PTL

-----------------------------------------------------------------------------
(***************************************************************************)
(* Refinement: the ledger is the account of StakeAccount, whatever the     *)
(* limits allow or refuse.                                                 *)
(***************************************************************************)

\* An opening is a placement of its cost.
LEMMA OpenIsPlace ==
    ASSUME AccountInv, NEW p \in Position, NEW stake \in Stakes(st),
           NEW cost \in Costs(stake), Open(p, stake, cost)
    PROVE  Account!Next
<1> DEFINE rolled == RollPeriods(st, now)
<1>1. st \in RiskState /\ now \in Time /\ TypeOK
  BY DEF AccountInv, TypeOK
<1>2. cost \in 1..MaxCost /\ cost \in Nat
  BY <1>1, StepTypes, MaxCostType
<1>3. rolled \in RiskState /\ rolled.bankroll = st.bankroll
  BY <1>1, RollFacts
<1>4. st' = RegisterOpen(rolled, cost)
  BY DEF Open
<1> HIDE DEF rolled
<1>5. st'.bankroll = rolled.bankroll - cost
  BY <1>2, <1>3, <1>4, OpenFacts
<1>6. Account!Place(p, cost)
  BY <1>3, <1>5 DEF Open, Account!Place
<1>7. QED
  BY <1>2, <1>6 DEF Account!Next

\* A close is a settlement of its payoff.
LEMMA CloseIsSettle ==
    ASSUME AccountInv, NEW p \in Position, NEW payoff \in Payoffs, Close(p, payoff)
    PROVE  Account!Next
<1>1. payoff \in Nat /\ stakes \in [Position -> 0..MaxCost] /\ realised \in Int /\ MaxCost \in Nat
  BY StepTypes, MaxCostType DEF AccountInv, TypeOK
<1>2. PICK cost \in Nat : cost = stakes[p] /\ ClosedTo(st, now, cost, payoff, st')
  BY <1>1, CloseStep
<1>3. st'.bankroll = st.bankroll + payoff
  BY <1>2 DEF ClosedTo
<1>4. realised' = realised + payoff - stakes[p]
  BY <1>1, <1>2 DEF Close
<1>5. Account!Settle(p, payoff)
  BY <1>3, <1>4 DEF Close, Account!Settle
<1>6. QED
  BY <1>5 DEF Account!Next

\* Every other step leaves the account alone.
LEMMA StepIsAccountStep ==
    AccountInv /\ [Next]_vars => [Account!Next]_(Account!vars)
<1> SUFFICES ASSUME AccountInv, [Next]_vars
             PROVE  Account!Next \/ UNCHANGED Account!vars
  OBVIOUS
<1>1. CASE st' = st /\ stakes' = stakes /\ realised' = realised
  BY <1>1 DEF Account!vars
<1>2. CASE CheckOnly
  <2>1. st'.bankroll = st.bankroll
    BY <1>2, RollFacts DEF CheckOnly, AccountInv, TypeOK
  <2>2. QED
    BY <1>2, <2>1 DEF CheckOnly, books, Account!vars
<1>3. ASSUME NEW p \in Position, NEW stake \in Stakes(st), NEW cost \in Costs(stake),
             Open(p, stake, cost)
      PROVE  Account!Next
  BY <1>3, OpenIsPlace
<1>4. ASSUME NEW p \in Position, NEW payoff \in Payoffs, Close(p, payoff)
      PROVE  Account!Next
  BY <1>4, CloseIsSettle
<1>5. QED
  BY <1>1, <1>2, <1>3, <1>4 DEF Next, Tick, ToggleKillSwitch, books, vars

\* Every behaviour of the ledger is a behaviour of the account: a stake leaves
\* the bankroll when its position opens and its payoff enters it once.
THEOREM LedgerIsAccount == Spec => AccountSpec
<1>1. Init => Account!Init
  BY DEF Init, FreshLedger, Account!Init
<1>2. AccountInv /\ [Next]_vars => [Account!Next]_(Account!vars)
  BY StepIsAccountStep
<1>3. Spec => []AccountInv
  BY InitAccount, NextKeepsAccount, PTL DEF Spec
<1>4. QED
  BY <1>1, <1>2, <1>3, PTL DEF Spec, AccountSpec, Account!Spec

(***************************************************************************)
(* The decision chain: gates, prices, the blend with the book.             *)
(***************************************************************************)

\* A list of gates, none of which refuses for no reason.
Gates(s) == /\ s \in Seq({s[i] : i \in DOMAIN s})
            /\ \A i \in DOMAIN s : s[i].reason # NoReason

NoneStops(s) == \A i \in DOMAIN s : ~s[i].stops

\* Without a refusal no gate stops.
LEMMA Passed ==
    ASSUME NEW s, Gates(s), FirstRefusal(s) = NoReason
    PROVE  NoneStops(s)
<1> DEFINE stops == {i \in DOMAIN s : s[i].stops}
<1>1. DOMAIN s = 1..Len(s) /\ Len(s) \in Nat
  BY DEF Gates
<1>2. IsFiniteSet(1..Len(s))
  <2>1. 1 \in Int /\ Len(s) \in Int
    BY <1>1
  <2>2. QED
    BY ONLY <2>1, FS_Interval
<1>3. stops \in SUBSET Int /\ IsFiniteSet(stops)
  BY <1>1, <1>2, FS_Subset
<1>4. ASSUME stops # {} PROVE FALSE
  <2>1. Min(stops) \in stops
    BY <1>3, <1>4, LeastAndGreatest
  <2>2. FirstRefusal(s) = s[Min(stops)].reason
    BY <1>4 DEF FirstRefusal
  <2>3. QED
    BY <2>1, <2>2 DEF Gates
<1>5. QED
  BY <1>4 DEF NoneStops

LEMMA PassedBoth ==
    ASSUME NEW s, NEW t, Gates(s), Gates(t)
    PROVE  /\ Gates(s \o t)
           /\ FirstRefusal(s \o t) = NoReason => NoneStops(s) /\ NoneStops(t)
<1> DEFINE G == {s[i] : i \in DOMAIN s} \cup {t[i] : i \in DOMAIN t}
           u == s \o t
<1>1. /\ s \in Seq(G) /\ t \in Seq(G) /\ Len(s) \in Nat /\ Len(t) \in Nat
      /\ DOMAIN s = 1..Len(s) /\ DOMAIN t = 1..Len(t)
  BY DEF Gates
<1> HIDE DEF G
<1>2. /\ u \in Seq(G) /\ Len(u) = Len(s) + Len(t)
      /\ \A i \in 1..(Len(s) + Len(t)) : u[i] = IF i <= Len(s) THEN s[i] ELSE t[i - Len(s)]
  BY <1>1, ConcatProperties
<1> HIDE DEF u
<1>3. DOMAIN u = 1..(Len(s) + Len(t))
  BY <1>2
<1>4. \A i \in DOMAIN s : i \in DOMAIN u /\ u[i] = s[i]
  BY <1>1, <1>2, <1>3
<1>5. \A i \in DOMAIN t : i + Len(s) \in DOMAIN u /\ u[i + Len(s)] = t[i]
  BY <1>1, <1>2, <1>3
<1>6. \A i \in DOMAIN u : u[i].reason # NoReason
  <2> SUFFICES ASSUME NEW i \in DOMAIN u PROVE u[i].reason # NoReason
    OBVIOUS
  <2>1. CASE i <= Len(s)
    BY <1>1, <1>2, <1>3, <2>1 DEF Gates
  <2>2. CASE ~(i <= Len(s))
    <3>1. i - Len(s) \in DOMAIN t /\ u[i] = t[i - Len(s)]
      BY <1>1, <1>2, <1>3, <2>2
    <3>2. QED
      BY <3>1 DEF Gates
  <2>3. QED
    BY <2>1, <2>2
<1>7. Gates(u)
  <2>1. u \in Seq({u[i] : i \in DOMAIN u})
    BY <1>2, SeqOfRange DEF Range
  <2>2. QED
    BY <1>6, <2>1 DEF Gates
<1>8. ASSUME FirstRefusal(u) = NoReason PROVE NoneStops(s) /\ NoneStops(t)
  <2>1. NoneStops(u)
    BY <1>7, <1>8, Passed
  <2>2. QED
    BY <1>4, <1>5, <2>1 DEF NoneStops
<1>9. QED
  BY <1>7, <1>8 DEF u

LEMMA GateLists ==
    ASSUME NEW c, NEW claim, NEW p, NEW market, NEW monitor, NEW side, NEW confidence
    PROVE  /\ Gates(DataGates(c, claim)) /\ Gates(MarketGates(c, claim)) /\ Gates(RegimeGates(c, claim))
           /\ Gates(ClaimGates(c, p, market, monitor))
           /\ Gates(OpinionGates(c, claim, side, confidence))
<1>1. Gates(DataGates(c, claim))
  BY DEF DataGates, Gate, Gates, NoReason
<1>2. Gates(MarketGates(c, claim))
  BY DEF MarketGates, Gate, Gates, NoReason
<1>3. Gates(RegimeGates(c, claim))
  BY DEF RegimeGates, Gate, Gates, NoReason
<1>4. Gates(ClaimGates(c, p, market, monitor))
  BY DEF ClaimGates, Gate, Gates, NoReason
<1>5. Gates(OpinionGates(c, claim, side, confidence))
  BY DEF OpinionGates, Gate, Gates, NoReason
<1>6. QED
  BY <1>1, <1>2, <1>3, <1>4, <1>5

\* The grid: one half is a grid point.
LEMMA HalfIsPrice == Unit \in Nat /\ Unit > 1 /\ Fair \in Nat /\ Fair > 0 /\ Unit = 2 * Fair
<1>1. Unit \in Nat /\ Unit # 0 /\ Unit # 1 /\ Unit = 2 * Fair
  BY GridAssumption
<1>2. \A n \in Nat : n \div 2 \in Nat
  BY Z3
<1>3. Fair \in Nat
  BY <1>1, <1>2 DEF Fair
<1>4. QED
  BY <1>1, <1>3

LEMMA Clamped ==
    ASSUME NEW x \in Int
    PROVE  Clamp(x) = IF x < 1 THEN 1 ELSE IF x > Unit - 1 THEN Unit - 1 ELSE x
<1>1. Unit - 1 \in Int /\ 1 <= Unit - 1
  BY HalfIsPrice
<1>2. Max({1, x}) = IF 1 <= x THEN x ELSE 1
  BY OfTwo
<1>3. Max({1, x}) \in Int
  BY <1>2
<1>4. Clamp(x) = IF Unit - 1 <= Max({1, x}) THEN Unit - 1 ELSE Max({1, x})
  BY <1>1, <1>3, OfTwo DEF Clamp
<1>5. QED
  BY <1>1, <1>2, <1>4

\* A quote a data set can hold.
Quoted(q) == /\ {q.bid, q.ask} \subseteq Prices
             /\ {q.bidDepth, q.askDepth, q.age} \subseteq Nat
             /\ Valid(q) => (q.bid + q.ask) % 2 = 0

\* The mid lies between the two sides.
LEMMA MidBetween ==
    ASSUME NEW q, Quoted(q), Valid(q)
    PROVE  /\ q.bid \in 1..(Unit - 1) /\ q.ask \in 1..(Unit - 1) /\ Mid(q) \in 1..(Unit - 1)
           /\ q.bid < Mid(q) /\ Mid(q) < q.ask /\ 2 * Mid(q) = q.bid + q.ask
<1>1. \A n \in Nat : n % 2 = 0 => n \div 2 \in Nat /\ 2 * (n \div 2) = n
  BY Z3
<1>2. q.bid \in 1..(Unit - 1) /\ q.ask \in 1..(Unit - 1) /\ q.bid < q.ask
  BY DEF Valid
<1>3. q.bid + q.ask \in Nat /\ (q.bid + q.ask) % 2 = 0
  BY <1>2, HalfIsPrice DEF Quoted
<1>4. Mid(q) \in Nat /\ 2 * Mid(q) = q.bid + q.ask
  BY <1>1, <1>3 DEF Mid
<1>5. QED
  BY <1>2, <1>4, HalfIsPrice

\* The price of an entry is a price, and it is never better than the mid.
LEMMA EntryBeyondMid ==
    ASSUME NEW c, c.slippage \in Nat, NEW q, Quoted(q), Valid(q), NEW side
    PROVE  /\ EntryPrice(c, q, side) \in 1..(Unit - 1)
           /\ Touch(q, side) \in 1..(Unit - 1) /\ MidOf(q, side) \in 1..(Unit - 1)
           /\ MidOf(q, side) < EntryPrice(c, q, side)
<1>1. /\ q.bid \in 1..(Unit - 1) /\ q.ask \in 1..(Unit - 1) /\ Mid(q) \in 1..(Unit - 1)
      /\ q.bid < Mid(q) /\ Mid(q) < q.ask
  BY MidBetween
<1>2. /\ Touch(q, side) \in 1..(Unit - 1) /\ MidOf(q, side) \in 1..(Unit - 1)
      /\ MidOf(q, side) < Touch(q, side)
  <2>1. CASE side = "UP"
    BY <1>1, <2>1, HalfIsPrice DEF Touch, MidOf
  <2>2. CASE side # "UP"
    BY <1>1, <2>2, HalfIsPrice DEF Touch, MidOf
  <2>3. QED
    BY <2>1, <2>2
<1>3. Touch(q, side) + c.slippage \in Int
  BY <1>2
<1>4. EntryPrice(c, q, side) = IF Touch(q, side) + c.slippage > Unit - 1 THEN Unit - 1
                               ELSE Touch(q, side) + c.slippage
  BY <1>2, <1>3, Clamped, HalfIsPrice DEF EntryPrice
<1>5. QED
  BY <1>2, <1>4, HalfIsPrice

\* A part of a whole.
LEMMA PartOf == \A n, k \in Nat : k <= 100 => (n * k) \div 100 \in 0..n
<1> SUFFICES ASSUME NEW n \in Nat, NEW k \in Nat, k <= 100 PROVE (n * k) \div 100 \in 0..n
  OBVIOUS
<1>1. n * k \in Nat /\ n * k <= n * 100
  <2>1. PICK d \in Nat : d = 100 - k
    OBVIOUS
  <2>2. n * d \in Nat /\ n * k \in Nat
    OBVIOUS
  <2>3. n * 100 = n * (k + d)
    BY <2>1
  <2>4. n * (k + d) = n * k + n * d
    OBVIOUS
  <2>5. QED
    BY <2>2, <2>3, <2>4
<1>2. PICK m \in Nat : m = n * k
  BY <1>1
<1>3. m <= n * 100
  BY <1>1, <1>2
<1>4. m \div 100 \in Nat /\ (m \div 100) * 100 <= m
  BY Z3
<1>5. QED
  BY <1>2, <1>3, <1>4

\* Shrinking keeps a price a price, and treats the two sides alike.
LEMMA Shrunk ==
    ASSUME NEW c, ValidPrediction(c), NEW prob \in Prices
    PROVE  /\ ShrinkTowardFair(c, prob, Absent) \in Prices
           /\ Unit - prob \in Prices
           /\ ShrinkTowardFair(c, Unit - prob, Absent) = Unit - ShrinkTowardFair(c, prob, Absent)
<1> DEFINE keep == 100 - (c.shrinkage * 100) \div 100
           shrunk(p) == IF p >= Fair THEN Fair + ((p - Fair) * keep) \div 100
                        ELSE Fair - ((Fair - p) * keep) \div 100
<1>1. \A n \in Nat : (n * 100) \div 100 = n
  BY Z3
<1>2. c.shrinkage \in Nat /\ c.shrinkage <= 100
  BY DEF ValidPrediction
<1>3. keep \in Nat /\ keep <= 100
  BY <1>1, <1>2
<1>4. \A p : ShrinkTowardFair(c, p, Absent) = shrunk(p)
  BY DEF ShrinkTowardFair
<1> HIDE DEF keep
<1>5. \A n \in Nat : (n * keep) \div 100 \in 0..n
  BY <1>3, PartOf
<1>6. CASE prob > Fair
  <2>1. PICK n \in Nat : prob = Fair + n /\ n > 0 /\ n <= Fair
    <3>1. prob - Fair \in Nat /\ prob = Fair + (prob - Fair) /\ prob - Fair > 0 /\ prob - Fair <= Fair
      BY <1>6, HalfIsPrice DEF Prices
    <3>2. QED
      BY <3>1
  <2>2. prob - Fair = n /\ prob >= Fair /\ Unit - prob = Fair - n /\ ~(Unit - prob >= Fair)
        /\ Fair - (Unit - prob) = n
    BY <2>1, HalfIsPrice
  <2>3. shrunk(prob) = Fair + (n * keep) \div 100 /\ shrunk(Unit - prob) = Fair - (n * keep) \div 100
    BY <2>2
  <2>4. QED
    BY <1>4, <1>5, <2>1, <2>2, <2>3, HalfIsPrice DEF Prices
<1>7. CASE prob = Fair
  <2>1. Unit - prob = Fair /\ prob - Fair = 0 /\ prob >= Fair
    BY <1>7, HalfIsPrice
  <2>2. (0 * keep) \div 100 = 0
    BY <1>5
  <2>3. shrunk(prob) = Fair + (0 * keep) \div 100
    BY <2>1
  <2>4. shrunk(prob) = Fair
    BY <2>2, <2>3, HalfIsPrice
  <2>5. QED
    BY <1>4, <1>7, <2>1, <2>4, HalfIsPrice DEF Prices
<1>8. CASE prob < Fair
  <2>1. PICK n \in Nat : prob = Fair - n /\ n > 0 /\ n <= Fair
    <3>1. Fair - prob \in Nat /\ prob = Fair - (Fair - prob) /\ Fair - prob > 0 /\ Fair - prob <= Fair
      BY <1>8, HalfIsPrice DEF Prices
    <3>2. QED
      BY <3>1
  <2>2. Fair - prob = n /\ ~(prob >= Fair) /\ Unit - prob = Fair + n /\ Unit - prob >= Fair
        /\ (Unit - prob) - Fair = n
    BY <2>1, HalfIsPrice
  <2>3. shrunk(prob) = Fair - (n * keep) \div 100 /\ shrunk(Unit - prob) = Fair + (n * keep) \div 100
    BY <2>2
  <2>4. QED
    BY <1>4, <1>5, <2>1, <2>2, <2>3, HalfIsPrice DEF Prices
<1>9. QED
  BY <1>6, <1>7, <1>8, HalfIsPrice DEF Prices

\* Among finitely many things there is one with the least key.
LEMMA LeastKey ==
    ASSUME NEW S, IsFiniteSet(S), S # {}, NEW key, \A s \in S : key[s] \in Int
    PROVE  \E s \in S : \A t \in S : key[s] <= key[t]
<1> DEFINE n == Cardinality(S)
<1>1. n \in Nat /\ n # 0
  BY FS_CardinalityType, FS_EmptySet
<1>2. PICK f \in [1..n -> S] : IsInjective(f) /\ \A i, j \in DOMAIN f : i < j => key[f[i]] <= key[f[j]]
  BY SortedExists
<1> HIDE DEF n
<1>3. IsFiniteSet(1..n) /\ Cardinality(1..n) = n
  BY <1>1, UpToSize
<1>4. f \in Injection(1..n, S)
  BY <1>2 DEF Injection
<1>5. f \in Surjection(1..n, S)
  BY <1>3, <1>4, FS_Injection DEF n
<1>6. 1 \in 1..n /\ f[1] \in S
  BY <1>1, <1>2
<1>7. ASSUME NEW t \in S PROVE key[f[1]] <= key[t]
  <2>1. PICK i \in 1..n : f[i] = t
    BY <1>5 DEF Surjection
  <2>2. CASE i = 1
    BY <1>6, <2>1, <2>2
  <2>3. CASE i # 1
    BY <1>1, <1>2, <1>6, <2>1, <2>3
  <2>4. QED
    BY <2>2, <2>3
<1>8. QED
  BY <1>6, <1>7

\* What BlendTowardMarket chooses: of the points nearest the target, the one
\* nearest the market.
Off(target, x) == AbsDiff(100 * Logit[x], target)
Nearest(target) == {x \in Prices : \A y \in Prices : Off(target, x) <= Off(target, y)}
Blended(target, market, x) ==
    x \in Nearest(target) /\ \A y \in Nearest(target) : AbsDiff(x, market) <= AbsDiff(y, market)

LEMMA PricesFinite == IsFiniteSet(Prices) /\ Prices # {} /\ Prices \subseteq Nat
<1>1. 0 \in Int /\ Unit \in Int
  BY HalfIsPrice
<1>2. IsFiniteSet(0..Unit)
  BY ONLY <1>1, FS_Interval
<1>3. QED
  BY <1>2, HalfIsPrice DEF Prices

LEMMA LogitTyped == \A x \in Prices : Logit[x] \in Int /\ 100 * Logit[x] \in Int
BY GridAssumption

LEMMA OffTyped == \A target \in Int, x \in Prices : Off(target, x) \in Nat
BY LogitTyped DEF Off, AbsDiff

\* There is one such point.
LEMMA BlendedExists ==
    ASSUME NEW target \in Int, NEW market \in Prices
    PROVE  \E x \in Prices : Blended(target, market, x)
<1> DEFINE off == [x \in Prices |-> Off(target, x)]
           far == [x \in Nearest(target) |-> AbsDiff(x, market)]
<1>1. \E x \in Prices : \A y \in Prices : off[x] <= off[y]
  <2>1. \A x \in Prices : off[x] \in Int
    BY OffTyped
  <2> HIDE DEF off
  <2>2. QED
    BY <2>1, PricesFinite, LeastKey
<1>2. \A x \in Prices : off[x] = Off(target, x)
  OBVIOUS
<1> HIDE DEF off
<1>3. Nearest(target) # {} /\ Nearest(target) \in SUBSET Prices
  BY <1>1, <1>2 DEF Nearest
<1>4. IsFiniteSet(Nearest(target))
  BY <1>3, PricesFinite, FS_Subset
<1>5. \A x \in Nearest(target) : far[x] = AbsDiff(x, market) /\ far[x] \in Int
  <2> SUFFICES ASSUME NEW x \in Nearest(target)
               PROVE  far[x] = AbsDiff(x, market) /\ AbsDiff(x, market) \in Int
    OBVIOUS
  <2>1. x \in Nat /\ market \in Nat
    BY <1>3, PricesFinite
  <2>2. QED
    BY <2>1 DEF AbsDiff
<1> HIDE DEF far
<1>6. \E x \in Nearest(target) : \A y \in Nearest(target) : far[x] <= far[y]
  BY <1>3, <1>4, <1>5, LeastKey
<1>7. QED
  BY <1>3, <1>5, <1>6 DEF Blended

\* All points nearest the target are on the same side of the market.
LEMMA OneSided ==
    ASSUME NEW target \in Int, NEW market \in Prices
    PROVE  \/ \A x \in Nearest(target) : market <= x
           \/ \A x \in Nearest(target) : x <= market
<1>1. \A x \in Prices : x \in Nat
  BY PricesFinite
<1>2. ASSUME NEW x \in Prices, NEW y \in Prices, x < y PROVE 100 * Logit[x] < 100 * Logit[y]
  BY <1>2, GridAssumption
<1>3. CASE 100 * Logit[market] <= target
  <2> SUFFICES ASSUME NEW x \in Nearest(target), ~(market <= x) PROVE FALSE
    OBVIOUS
  <2>1. x \in Prices /\ Off(target, x) <= Off(target, market)
    BY DEF Nearest
  <2>2. x < market
    BY <1>1, <2>1
  <2>3. 100 * Logit[x] < 100 * Logit[market]
    BY <1>2, <2>1, <2>2
  <2>4. QED
    BY <1>3, <2>1, <2>3, LogitTyped DEF Off, AbsDiff
<1>4. CASE ~(100 * Logit[market] <= target)
  <2> SUFFICES ASSUME NEW x \in Nearest(target), ~(x <= market) PROVE FALSE
    OBVIOUS
  <2>1. x \in Prices /\ Off(target, x) <= Off(target, market)
    BY DEF Nearest
  <2>2. market < x
    BY <1>1, <2>1
  <2>3. 100 * Logit[market] < 100 * Logit[x]
    BY <1>2, <2>1, <2>2
  <2>4. QED
    BY <1>4, <2>1, <2>3, LogitTyped DEF Off, AbsDiff
<1>5. QED
  BY <1>3, <1>4

LEMMA BlendedUnique ==
    ASSUME NEW target \in Int, NEW market \in Prices, NEW x, NEW y,
           Blended(target, market, x), Blended(target, market, y)
    PROVE  x = y
<1>1. /\ x \in Nearest(target) /\ y \in Nearest(target) /\ x \in Nat /\ y \in Nat /\ market \in Nat
      /\ AbsDiff(x, market) <= AbsDiff(y, market) /\ AbsDiff(y, market) <= AbsDiff(x, market)
  BY PricesFinite DEF Blended, Nearest
<1>2. CASE \A z \in Nearest(target) : market <= z
  BY <1>1, <1>2 DEF AbsDiff
<1>3. CASE \A z \in Nearest(target) : z <= market
  BY <1>1, <1>3 DEF AbsDiff
<1>4. QED
  BY <1>2, <1>3, OneSided

\* The mirror image of the point is the point of the mirror image.
LEMMA BlendedMirror ==
    ASSUME NEW target \in Int, NEW market \in Prices, NEW x, Blended(target, market, x)
    PROVE  Blended(-target, Unit - market, Unit - x)
<1>1. \A y \in Prices : Unit - y \in Prices /\ y \in Nat /\ Unit - (Unit - y) = y
  BY HalfIsPrice DEF Prices
<1>2. \A y \in Prices : Off(-target, Unit - y) = Off(target, y)
  <2> SUFFICES ASSUME NEW y \in Prices PROVE Off(-target, Unit - y) = Off(target, y)
    OBVIOUS
  <2>1. Logit[Unit - y] = -Logit[y] /\ Logit[y] \in Int
    BY GridAssumption
  <2>2. 100 * Logit[Unit - y] = -(100 * Logit[y]) /\ 100 * Logit[y] \in Int
    BY <2>1
  <2>3. QED
    BY <2>2 DEF Off, AbsDiff
<1>3. \A y \in Prices : y \in Nearest(target) <=> Unit - y \in Nearest(-target)
  <2> SUFFICES ASSUME NEW y \in Prices
               PROVE  y \in Nearest(target) <=> Unit - y \in Nearest(-target)
    OBVIOUS
  <2>1. y \in Nearest(target) <=> \A z \in Prices : Off(target, y) <= Off(target, z)
    BY DEF Nearest
  <2>2. Unit - y \in Nearest(-target) <=> \A z \in Prices : Off(-target, Unit - y) <= Off(-target, z)
    BY <1>1 DEF Nearest
  <2>3. ASSUME \A z \in Prices : Off(target, y) <= Off(target, z), NEW z \in Prices
        PROVE  Off(-target, Unit - y) <= Off(-target, z)
    <3>1. Off(-target, z) = Off(target, Unit - z)
      <4>1. Unit - z \in Prices /\ Unit - (Unit - z) = z
        BY <1>1
      <4>2. QED
        BY <1>2, <4>1
    <3>2. QED
      BY <1>1, <1>2, <2>3, <3>1
  <2>4. ASSUME \A z \in Prices : Off(-target, Unit - y) <= Off(-target, z), NEW z \in Prices
        PROVE  Off(target, y) <= Off(target, z)
    BY <1>1, <1>2, <2>4
  <2>5. QED
    BY <2>1, <2>2, <2>3, <2>4
<1>4. \A y \in Prices : AbsDiff(Unit - y, Unit - market) = AbsDiff(y, market)
  BY <1>1, HalfIsPrice DEF AbsDiff
<1>5. x \in Prices /\ x \in Nearest(target)
  BY DEF Blended, Nearest
<1>6. ASSUME NEW y \in Nearest(-target) PROVE AbsDiff(Unit - x, Unit - market) <= AbsDiff(y, Unit - market)
  <2>1. y \in Prices /\ Unit - y \in Prices /\ Unit - (Unit - y) = y
    BY <1>1 DEF Nearest
  <2>2. Unit - y \in Nearest(target)
    BY <1>3, <2>1
  <2>3. AbsDiff(x, market) <= AbsDiff(Unit - y, market)
    BY <2>2 DEF Blended
  <2>4. AbsDiff(Unit - y, market) = AbsDiff(y, Unit - market)
    BY <1>4, <2>1
  <2>5. QED
    BY <1>4, <1>5, <2>3, <2>4
<1>7. QED
  BY <1>3, <1>5, <1>6 DEF Blended

\* The blend is a price, that of the market without trust, and it treats the
\* two sides alike.
LEMMA BlendFacts ==
    ASSUME NEW p \in Prices, NEW market \in Prices, NEW trust \in 0..100
    PROVE  /\ BlendTowardMarket(p, market, trust) \in Prices
           /\ trust = 0 => BlendTowardMarket(p, market, trust) = market
           /\ BlendTowardMarket(Unit - p, Unit - market, trust)
              = Unit - BlendTowardMarket(p, market, trust)
<1> DEFINE target(a, b) == trust * Logit[a] + (100 - trust) * Logit[b]
           choice(t, b) == CHOOSE x \in Nearest(t) :
                             \A y \in Nearest(t) : AbsDiff(x, b) <= AbsDiff(y, b)
<1>1. \A x \in Prices : Unit - x \in Prices /\ Logit[x] \in Int /\ Logit[Unit - x] = -Logit[x]
  BY HalfIsPrice, GridAssumption DEF Prices
<1>2. \A a, b : trust # 100 /\ trust # 0 =>
        BlendTowardMarket(a, b, trust) = choice(target(a, b), b)
  BY DEF BlendTowardMarket, Nearest, Off
<1>3. \A t \in Int, b \in Prices : Blended(t, b, choice(t, b)) /\ choice(t, b) \in Prices
  <2> SUFFICES ASSUME NEW t \in Int, NEW b \in Prices
               PROVE  Blended(t, b, choice(t, b)) /\ choice(t, b) \in Prices
    OBVIOUS
  <2>1. \E x \in Nearest(t) : \A y \in Nearest(t) : AbsDiff(x, b) <= AbsDiff(y, b)
    BY BlendedExists DEF Blended
  <2>2. Blended(t, b, choice(t, b))
    BY <2>1 DEF Blended
  <2>3. QED
    BY <2>2 DEF Blended, Nearest
<1>4. target(p, market) \in Int
  BY <1>1
<1>5. target(Unit - p, Unit - market) = -target(p, market)
  <2>1. PICK a \in Int, b \in Int : a = Logit[p] /\ b = Logit[market]
    BY <1>1
  <2>2. Logit[Unit - p] = -a /\ Logit[Unit - market] = -b
    BY <1>1, <2>1
  <2>3. PICK k \in Int, l \in Int : k = trust /\ l = 100 - trust
    OBVIOUS
  <2>4. k * (-a) + l * (-b) = -(k * a + l * b)
    BY Z3
  <2>5. QED
    BY <2>1, <2>2, <2>3, <2>4
<1> HIDE DEF choice, target
<1>6. CASE trust = 100
  BY <1>1, <1>6 DEF BlendTowardMarket
<1>7. CASE trust = 0
  BY <1>1, <1>7 DEF BlendTowardMarket
<1>8. CASE trust # 100 /\ trust # 0
  <2> DEFINE x == choice(target(p, market), market)
             y == choice(target(Unit - p, Unit - market), Unit - market)
  <2>1. Blended(target(p, market), market, x) /\ x \in Prices
    BY <1>3, <1>4
  <2>2. -target(p, market) \in Int /\ Unit - market \in Prices
    BY <1>1, <1>4
  <2>3. Blended(-target(p, market), Unit - market, y)
    BY <1>3, <1>5, <2>2
  <2>4. Blended(-target(p, market), Unit - market, Unit - x)
    BY <1>4, <2>1, BlendedMirror
  <2>5. y = Unit - x
    BY <2>2, <2>3, <2>4, BlendedUnique
  <2>6. QED
    BY <1>2, <1>8, <2>1, <2>5
<1>9. QED
  BY <1>6, <1>7, <1>8

\* What the engine asks about a row, at its decision horizon.
ClaimOf(row, h) == [prob |-> row.prob, quote |-> row.quote, into |-> Window - h, left |-> h,
                    vol |-> Absent, cal |-> Absent, agree |-> Absent]

\* A row a data set can hold.
RowTyped(row) == Quoted(row.quote) /\ row.prob \in Prices /\ row.settled \in {"UP", "DOWN", Void}

LEMMA EdgeRequired ==
    ASSUME NEW c, ValidPrediction(c), ValidExecution(c), NEW left
    PROVE  RequiredEdge(c, left) \in Nat /\ RequiredEdge(c, left) > 0
BY HalfIsPrice DEF ValidPrediction, ValidExecution, RequiredEdge

\* A decision to trade: the quote is sound, the claim leaves the edge asked for
\* above the price of entry, and the model is trusted.
LEMMA DecideFacts ==
    ASSUME NEW c, ValidConfig(c), NEW row, RowTyped(row), NEW h, NEW monitor,
           NEW d, d = Decide(c, ClaimOf(row, h), monitor), d.reason = NoReason
    PROVE  /\ Valid(row.quote) /\ c.trust > 0
           /\ d.confidence \in Prices
           /\ d.entry = EntryPrice(c, row.quote, d.side) /\ d.entry \in 1..(Unit - 1)
           /\ d.entry + RequiredEdge(c, h) <= d.confidence
<1> DEFINE claim == ClaimOf(row, h)
           q     == row.quote
           p     == ShrinkTowardFair(c, row.prob, Absent)
           acted == BlendTowardMarket(p, Mid(q), c.trust)
           side  == IF acted >= Fair THEN "UP" ELSE "DOWN"
           conf  == IF side = "UP" THEN acted ELSE Unit - acted
           early == DataGates(c, claim) \o MarketGates(c, claim) \o RegimeGates(c, claim)
           late  == ClaimGates(c, p, Mid(q), monitor) \o OpinionGates(c, claim, side, conf)
<1>1. claim.quote = q /\ claim.prob = row.prob /\ claim.cal = Absent /\ claim.left = h
  BY DEF ClaimOf
<1>2. /\ d.reason = IF FirstRefusal(early) # NoReason THEN FirstRefusal(early) ELSE FirstRefusal(late)
      /\ d.side = side /\ d.confidence = conf /\ d.entry = EntryPrice(c, q, side)
  BY <1>1 DEF Decide
<1> HIDE DEF claim, p, acted, early, late
<1>3. NoneStops(DataGates(c, claim)) /\ NoneStops(OpinionGates(c, claim, side, conf))
  <2>1. FirstRefusal(early) = NoReason /\ FirstRefusal(late) = NoReason
    BY <1>2
  <2>2. /\ Gates(DataGates(c, claim)) /\ Gates(MarketGates(c, claim)) /\ Gates(RegimeGates(c, claim))
        /\ Gates(ClaimGates(c, p, Mid(q), monitor)) /\ Gates(OpinionGates(c, claim, side, conf))
    BY GateLists
  <2>3. Gates(DataGates(c, claim) \o MarketGates(c, claim))
    BY <2>2, PassedBoth
  <2>4. NoneStops(DataGates(c, claim) \o MarketGates(c, claim))
    BY <2>1, <2>2, <2>3, PassedBoth DEF early
  <2>5. NoneStops(DataGates(c, claim))
    BY <2>2, <2>3, <2>4, PassedBoth, Passed DEF NoneStops
  <2>6. QED
    BY <2>1, <2>2, <2>5, PassedBoth DEF late
<1>4. Valid(q)
  <2>1. 1 \in DOMAIN DataGates(c, claim) /\ DataGates(c, claim)[1].stops = ~Valid(q)
    BY <1>1 DEF DataGates, Gate
  <2>2. QED
    BY <1>3, <2>1 DEF NoneStops
<1>5. ~(conf - EntryPrice(c, q, side) < RequiredEdge(c, h))
  <2> HIDE DEF side, conf
  <2>1. /\ 3 \in DOMAIN OpinionGates(c, claim, side, conf)
        /\ OpinionGates(c, claim, side, conf)[3].stops
           = (conf - EntryPrice(c, q, side) < RequiredEdge(c, h))
    BY <1>1 DEF OpinionGates, Gate
  <2>2. QED
    BY <1>3, <2>1 DEF NoneStops
<1>6. /\ ValidPrediction(c) /\ ValidExecution(c) /\ c.trust \in 0..100 /\ c.slippage \in Nat
      /\ Quoted(q) /\ row.prob \in Prices
  BY DEF ValidConfig, ValidPrediction, ValidCosts, RowTyped
<1>7. p \in Prices /\ Mid(q) \in Prices
  BY <1>4, <1>6, Shrunk, MidBetween, HalfIsPrice DEF p, Prices
<1>8. acted \in Prices /\ (c.trust = 0 => acted = Mid(q))
  BY <1>6, <1>7, BlendFacts DEF acted
<1>9. conf \in Prices
  BY <1>8, HalfIsPrice DEF Prices
<1>10. EntryPrice(c, q, side) \in 1..(Unit - 1) /\ MidOf(q, side) < EntryPrice(c, q, side)
  BY <1>4, <1>6, EntryBeyondMid
<1>11. RequiredEdge(c, h) \in Nat /\ RequiredEdge(c, h) > 0
  BY <1>6, EdgeRequired
<1>12. c.trust = 0 => conf = MidOf(q, side)
  BY <1>8 DEF MidOf
<1> HIDE DEF side, conf
<1>13. conf \in Nat /\ EntryPrice(c, q, side) \in Nat /\ MidOf(q, side) \in Nat
  <2>1. MidOf(q, side) \in 1..(Unit - 1)
    BY <1>4, <1>6, EntryBeyondMid
  <2>2. QED
    BY <1>9, <1>10, <2>1, HalfIsPrice DEF Prices
<1>14. EntryPrice(c, q, side) + RequiredEdge(c, h) <= conf
  BY <1>5, <1>11, <1>13
<1>15. c.trust # 0
  BY <1>10, <1>11, <1>12, <1>13, <1>14
<1>16. QED
  BY <1>2, <1>4, <1>6, <1>9, <1>10, <1>14, <1>15

(***************************************************************************)
(* The stake and the fill.                                                 *)
(***************************************************************************)

\* A positive factor can be cancelled, and a product keeps an order.
LEMMA Factors ==
    /\ \A x, y, z \in Nat : z > 0 /\ x * z <= y * z => x <= y
    /\ \A x, y, z \in Nat : x <= y => x * z <= y * z
<1>1. ASSUME NEW x \in Nat, NEW y \in Nat, NEW z \in Nat, z > 0, x * z <= y * z PROVE x <= y
  <2>1. x * z \in Nat /\ y * z \in Nat
    OBVIOUS
  <2>2. y < x => y * z + z <= x * z
    BY Multiples
  <2>3. QED
    BY <1>1, <2>1, <2>2
<1>2. ASSUME NEW x \in Nat, NEW y \in Nat, NEW z \in Nat, x <= y PROVE x * z <= y * z
  <2>1. x * z \in Nat /\ y * z \in Nat
    OBVIOUS
  <2>2. x < y => x * z + z <= y * z
    BY Multiples
  <2>3. QED
    BY <1>2, <2>1, <2>2
<1>3. QED
  BY <1>1, <1>2

\* A multiple of the step leaves no remainder.
LEMMA NoRemainder == \A k, s \in Nat : s > 0 => (k * s) % s = 0
BY Z3

\* A stake in whole steps, inside every cap.
Capable(c, bankroll, usdc) ==
    /\ usdc \in Nat /\ usdc % c.step = 0 /\ usdc <= c.maxPosition
    /\ usdc * 100 <= c.maxRiskPct * bankroll

LEMMA CappedFacts ==
    ASSUME NEW c, ValidSizing(c), NEW bankroll \in Nat, bankroll > 0,
           NEW x \in Nat, NEW y \in Nat, y > 0
    PROVE  Capable(c, bankroll, Capped(c, bankroll, <<x, y>>))
<1>1. PICK r \in Nat, step \in Nat, most \in Nat :
        r = c.maxRiskPct /\ step = c.step /\ step > 0 /\ most = c.maxPosition
  BY DEF ValidSizing
<1> DEFINE u == IF x * 100 > r * y THEN (bankroll * r) \div 100 ELSE (bankroll * x) \div y
<1>2. u \in Nat /\ u * 100 <= bankroll * r
  <2>1. CASE x * 100 > r * y
    <3>1. PICK n \in Nat : n = bankroll * r
      OBVIOUS
    <3>2. n \div 100 \in Nat /\ (n \div 100) * 100 <= n
      BY Quotient
    <3>3. QED
      BY <2>1, <3>1, <3>2
  <2>2. CASE ~(x * 100 > r * y)
    <3>1. PICK n \in Nat : n = bankroll * x
      OBVIOUS
    <3>2. PICK m \in Nat : m = n \div y /\ m * y <= n
      BY Quotient
    <3>3. x * 100 <= r * y /\ x * 100 \in Nat /\ r * y \in Nat
      BY <2>2
    <3>4. (x * 100) * bankroll <= (r * y) * bankroll
      BY <3>3, Factors
    <3>5. (x * 100) * bankroll = n * 100
      BY <3>1
    <3>6. (r * y) * bankroll = (bankroll * r) * y
      OBVIOUS
    <3>7. (m * 100) * y = (m * y) * 100
      OBVIOUS
    <3>8. m * y \in Nat /\ (m * y) * 100 <= n * 100
      BY <3>2
    <3>9. (bankroll * r) * y \in Nat /\ m * 100 \in Nat /\ bankroll * r \in Nat
      OBVIOUS
    <3>10. (m * 100) * y <= (bankroll * r) * y
      BY <3>4, <3>5, <3>6, <3>7, <3>8, <3>9
    <3>11. m * 100 <= bankroll * r
      BY <3>9, <3>10, Factors
    <3>12. u = m
      BY <2>2, <3>1, <3>2
    <3>13. QED
      BY <3>11, <3>12
  <2>3. QED
    BY <2>1, <2>2
<1> DEFINE v == Min({u, most, bankroll})
<1>3. Capped(c, bankroll, <<x, y>>) = (v \div step) * step
  BY <1>1 DEF Capped, RoundedDown
<1> HIDE DEF u
<1>4. v \in Nat /\ v <= u /\ v <= most
  <2>1. {u, most, bankroll} \in SUBSET Int /\ {u, most, bankroll} # {}
    BY <1>2
  <2>2. IsFiniteSet({u, most, bankroll})
    <3>1. {u, most, bankroll} = ({u} \cup {most}) \cup {bankroll}
      OBVIOUS
    <3>2. IsFiniteSet({u})
      BY FS_Singleton
    <3>3. IsFiniteSet({u} \cup {most})
      BY <3>2, FS_AddElement
    <3>4. QED
      BY <3>1, <3>3, FS_AddElement
  <2>3. v \in {u, most, bankroll} /\ \A z \in {u, most, bankroll} : v <= z
    BY <2>1, <2>2, LeastAndGreatest
  <2>4. QED
    BY <1>2, <2>3
<1> HIDE DEF v
<1>5. PICK k \in Nat : k = v \div step /\ k * step <= v
  BY <1>1, <1>4, Quotient
<1>6. PICK w \in Nat : w = k * step /\ w <= v
  BY <1>1, <1>5
<1>7. w % step = 0
  BY <1>1, <1>6, NoRemainder
<1>8. bankroll * r \in Nat /\ r * bankroll = bankroll * r
  BY Multiples
<1>9. w * 100 <= bankroll * r
  BY <1>2, <1>4, <1>6, <1>8
<1>10. QED
  BY <1>1, <1>3, <1>4, <1>5, <1>6, <1>7, <1>8, <1>9 DEF Capable

\* The fraction of the bankroll is one.
LEMMA FractionTyped ==
    ASSUME NEW c, ValidSizing(c), NEW bankroll \in Nat, bankroll > 0,
           NEW prob \in Prices, NEW price \in 1..(Unit - 1)
    PROVE  \E x \in Nat, y \in Nat : y > 0 /\ Fraction(c, bankroll, prob, price) = <<x, y>>
<1>1. prob \in Nat /\ price \in Nat /\ Unit - price \in Nat /\ Unit - price > 0
  BY HalfIsPrice DEF Prices
<1>2. CASE c.mode = "kelly"
  <2>1. prob - price \in Int /\ 0 \in Int
    BY <1>1
  <2>2. Max({0, prob - price}) = IF 0 <= prob - price THEN prob - price ELSE 0
    BY ONLY <2>1, OfTwo
  <2>3. PICK a \in Nat, k \in Nat : a = Max({0, prob - price}) /\ k = c.kellyPct
    BY <2>1, <2>2 DEF ValidSizing
  <2>4. a * k \in Nat /\ (Unit - price) * 100 \in Nat /\ (Unit - price) * 100 > 0
    BY <1>1
  <2>5. Fraction(c, bankroll, prob, price) = <<a * k, (Unit - price) * 100>>
    BY <1>2, <2>3 DEF Fraction
  <2>6. QED
    BY <2>4, <2>5
<1>3. CASE c.mode = "fixed_fraction"
  <2>1. c.fixedPct \in Nat /\ 100 \in Nat /\ 100 > 0
    BY DEF ValidSizing
  <2>2. Fraction(c, bankroll, prob, price) = <<c.fixedPct, 100>>
    BY <1>3 DEF Fraction
  <2>3. QED
    BY <2>1, <2>2
<1>4. CASE c.mode = "fixed_usdc"
  <2>1. c.fixedUsdc \in Nat
    BY DEF ValidSizing
  <2>2. Min({bankroll, c.fixedUsdc}) \in Nat
    BY <2>1, OfTwo
  <2>3. Fraction(c, bankroll, prob, price) = <<Min({bankroll, c.fixedUsdc}), bankroll>>
    BY <1>4 DEF Fraction
  <2>4. QED
    BY <2>2, <2>3
<1>5. QED
  BY <1>2, <1>3, <1>4 DEF ValidSizing

\* A stake that is not refused is inside every cap and not too small.
LEMMA SizeFacts ==
    ASSUME NEW c, ValidSizing(c), NEW bankroll \in Int, NEW prob \in Prices,
           NEW price \in 1..(Unit - 1),
           NEW s, s = Size(c, bankroll, prob, price, Absent), s.reason = NoReason
    PROVE  /\ bankroll > 0 /\ Capable(c, bankroll, s.usdc) /\ s.usdc >= c.minPosition
<1> DEFINE f     == Fraction(c, bankroll, prob, price)
           cut   == <<f[1] * Haircut(c, Absent), f[2] * 100>>
           usdc  == Capped(c, bankroll, cut)
           gates == << Gate("risk_limit", bankroll <= 0),
                       Gate("stale_data", price \notin 1..(Unit - 1)),
                       Gate("negative_ev", c.mode = "kelly" /\ f[1] = 0),
                       Gate("model_uncalibrated", cut[1] = 0),
                       Gate("size_below_minimum", usdc < c.minPosition) >>
           first == FirstRefusal(SubSeq(gates, 1, 2))
<1>1. s = IF first # NoReason THEN [usdc |-> 0, reason |-> first]
          ELSE [usdc |-> IF FirstRefusal(gates) = NoReason THEN usdc ELSE 0,
                reason |-> FirstRefusal(gates)]
  BY DEF Size
<1> HIDE DEF usdc, first
<1>2. Gates(gates)
  BY DEF Gate, Gates, NoReason
<1>3. gates[1].stops = (bankroll <= 0) /\ gates[5].stops = (usdc < c.minPosition)
      /\ 1 \in DOMAIN gates /\ 5 \in DOMAIN gates
  BY DEF Gate
<1> HIDE DEF gates
<1>4. FirstRefusal(gates) = NoReason /\ s.usdc = usdc
  BY <1>1
<1>5. NoneStops(gates)
  BY <1>2, <1>4, Passed
<1>6. ~(bankroll <= 0) /\ ~(usdc < c.minPosition)
  BY <1>3, <1>5 DEF NoneStops
<1>7. bankroll \in Nat /\ bankroll > 0
  BY <1>6
<1>8. PICK x \in Nat, y \in Nat : y > 0 /\ f = <<x, y>>
  BY <1>7, FractionTyped
<1> HIDE DEF f
<1>9. Haircut(c, Absent) = 100
  BY DEF Haircut
<1>10. cut = <<x * 100, y * 100>>
  BY <1>8, <1>9
<1>11. x * 100 \in Nat /\ y * 100 \in Nat /\ y * 100 > 0
  BY <1>8
<1>12. Capable(c, bankroll, usdc)
  BY <1>7, <1>10, <1>11, CappedFacts DEF usdc
<1>13. usdc >= c.minPosition
  BY <1>6, <1>12 DEF Capable, ValidSizing
<1>14. QED
  BY <1>4, <1>7, <1>12, <1>13

\* A fill spends at most the stake, at a price the entry allows for unless it
\* is priced beyond the touch.
LEMMA FillFacts ==
    ASSUME NEW c, ValidCosts(c), NEW q, Quoted(q), NEW side, NEW stake \in Nat, stake > 0,
           NEW fill, fill = Fill(c, q, side, stake), fill.reason = NoReason
    PROVE  /\ Valid(q) /\ fill.notional \in 1..stake
           /\ fill.shares \in Nat \ {0} /\ fill.fee \in Nat
           /\ c.style # "aggressive" => fill.price <= EntryPrice(c, q, side)
           /\ fill.price \in Int
<1> DEFINE depth == DepthFor(q, side)
           spent == IF c.pessimistic THEN Min({stake, depth}) ELSE stake
           price == Clamp(FillPrice(c, q, side))
<1>1. /\ Valid(q) /\ ~(c.pessimistic /\ depth <= 0)
      /\ fill = [reason |-> NoReason, price |-> price, shares |-> (spent * Unit) \div price,
                 notional |-> spent, fee |-> Fee(c, spent)]
  BY DEF Fill, NoFill, NoReason
<1>2. depth \in Nat
  BY DEF DepthFor, Quoted
<1>3. spent \in 1..stake
  <2>1. Min({stake, depth}) = IF stake <= depth THEN stake ELSE depth
    BY <1>2, OfTwo
  <2>2. QED
    BY <1>1, <1>2, <2>1
<1>4. c.slippage \in Nat /\ c.feePct \in Nat /\ c.style \in {"touch", "mid", "aggressive"}
  BY DEF ValidCosts
<1>5. /\ EntryPrice(c, q, side) \in 1..(Unit - 1)
      /\ Touch(q, side) \in 1..(Unit - 1) /\ MidOf(q, side) \in 1..(Unit - 1)
      /\ MidOf(q, side) < EntryPrice(c, q, side)
  BY <1>1, <1>4, EntryBeyondMid
<1>6. Spread(q) \in Nat
  BY <1>1, MidBetween DEF Spread
<1>7. FillPrice(c, q, side) \in Int /\ Unit - 1 \in Int /\ 1 <= Unit - 1
  BY <1>4, <1>5, <1>6, HalfIsPrice DEF FillPrice
<1>8. price \in 1..(Unit - 1)
  BY <1>7, Clamped
<1>9. c.style # "aggressive" => price <= EntryPrice(c, q, side)
  <2>1. CASE c.style = "touch"
    BY <1>5, <2>1, HalfIsPrice DEF FillPrice, EntryPrice
  <2>2. CASE c.style = "mid"
    <3>1. FillPrice(c, q, side) = MidOf(q, side)
      BY <2>2 DEF FillPrice
    <3>2. price = MidOf(q, side)
      BY <1>5, <1>7, <3>1, Clamped
    <3>3. QED
      BY <1>5, <3>2
  <2>3. QED
    BY <1>4, <2>1, <2>2
<1> HIDE DEF spent, price
<1>10. (spent * Unit) \div price \in Nat \ {0}
  <2>1. Unit \in Nat /\ Unit > 1 /\ spent \in Nat /\ spent >= 1
    BY <1>3, HalfIsPrice
  <2>2. PICK n \in Nat : n = spent * Unit
    BY <2>1
  <2>3. price \in Nat /\ price > 0 /\ price <= Unit
    BY <1>8, <2>1
  <2>4. n >= Unit
    <3>1. 1 * Unit <= spent * Unit /\ 1 * Unit = Unit
      BY <2>1, Times
    <3>2. QED
      BY <2>2, <3>1
  <2>5. n >= price
    BY <2>1, <2>3, <2>4
  <2>6. n \div price \in Nat /\ n \div price >= 1
    BY <2>3, <2>5, Quotient
  <2>7. QED
    BY <2>2, <2>6
<1>11. Fee(c, spent) \in Nat
  <2>1. PICK n \in Nat : n = spent * c.feePct
    BY <1>3, <1>4
  <2>2. n \div 100 \in Nat
    BY Quotient
  <2>3. QED
    BY <2>1, <2>2 DEF Fee
<1>12. QED
  BY <1>1, <1>3, <1>8, <1>9, <1>10, <1>11

(***************************************************************************)
(* The replay of a data set.                                               *)
(***************************************************************************)

LEMMA HorizonFacts ==
    /\ DecisionHorizon \in Horizons /\ DecisionHorizon \in 1..Window
    /\ Window \in Nat /\ Window > 0
<1> DEFINE allowed == {h \in Horizons : Window - h >= cfg.minInto /\ h >= cfg.minLeft}
<1>1. Horizons \in SUBSET (1..Window) /\ Horizons # {} /\ Window \in Nat
  BY ReplayAssumption
<1>2. IsFiniteSet(1..Window)
  BY <1>1, UpToSize
<1>3. IsFiniteSet(Horizons) /\ Horizons \in SUBSET Int
  <2>1. IsFiniteSet(Horizons)
    BY ONLY <1>1, <1>2, FS_Subset
  <2>2. QED
    BY <1>1, <2>1
<1>4. IsFiniteSet(allowed) /\ allowed \in SUBSET Int
  BY <1>3, FS_Subset
<1>5. DecisionHorizon = IF allowed = {} THEN Min(Horizons) ELSE Min(allowed)
  BY DEF DecisionHorizon
<1>6. Min(Horizons) \in Horizons
  BY <1>1, <1>3, LeastAndGreatest
<1>7. allowed # {} => Min(allowed) \in Horizons
  BY <1>4, LeastAndGreatest
<1> HIDE DEF allowed
<1>8. DecisionHorizon \in Horizons
  BY <1>5, <1>6, <1>7
<1>9. QED
  BY <1>1, <1>8

\* One market is over before another one is begun.
Apart(m, n) == Settle[m] + Window <= Settle[n]

LEMMA MarketsApart ==
    /\ \A m \in Market : m \in Nat /\ Settle[m] \in Nat /\ Settle[m] \in Time /\ Settle[m] >= Window
    /\ \A m, n \in Market : m # n => Apart(m, n) \/ Apart(n, m)
<1>1. \A m \in Market : m \in Nat /\ Settle[m] \in Nat /\ Settle[m] \in Time /\ Settle[m] >= Window
  BY ReplayAssumption, CalendarAssumption DEF Time
<1>2. ASSUME NEW m \in Market, NEW n \in Market, m # n PROVE Apart(m, n) \/ Apart(n, m)
  <2>1. AbsDiff(Settle[m], Settle[n]) >= Window
    BY <1>2, ReplayAssumption
  <2>2. QED
    BY <1>1, <2>1, HorizonFacts DEF AbsDiff, Apart
<1>3. QED
  BY <1>1, <1>2

LEMMA MarketFinite == IsFiniteSet(Market)
<1> DEFINE at == [m \in Market |-> Settle[m]]
<1>1. at \in [Market -> Time]
  BY MarketsApart
<1>2. \A m, n \in Market : at[m] = at[n] => m = n
  BY MarketsApart, HorizonFacts DEF Apart
<1> HIDE DEF at
<1>3. at \in Injection(Market, Time)
  BY <1>1, <1>2 DEF Injection, IsInjective
<1>4. IsFiniteSet(Time)
  <2>1. 0 \in Int /\ MaxTime \in Int
    BY CalendarAssumption
  <2>2. IsFiniteSet(0..MaxTime)
    BY ONLY <2>1, FS_Interval
  <2>3. QED
    BY <2>2 DEF Time
<1>5. QED
  BY <1>3, <1>4, FS_Injection

\* A run visits its markets in the order they settle in, each over before the
\* next one begins.
InTurn(s) == \A i, j \in DOMAIN s : i < j => Apart(s[i], s[j])

LEMMA InOrder ==
    ASSUME NEW S \in SUBSET Market
    PROVE  InSettlementOrder(S) \in Seq(S) /\ InTurn(InSettlementOrder(S))
<1> DEFINE R == {p \in S \X S : Earlier(p[1], p[2])}
           n == Cardinality(S)
           order == InSettlementOrder(S)
<1>1. IsFiniteSet(S)
  BY MarketFinite, FS_Subset
<1>2. \A x, y \in S : <<x, y>> \in R <=> Earlier(x, y)
  OBVIOUS
<1> HIDE DEF R
<1>3. \A x \in S : x \in Nat /\ Settle[x] \in Nat
  BY MarketsApart
<1>4. StrictOrder(S, R)
  BY <1>2, <1>3 DEF StrictOrder, Earlier
<1>5. n \in Nat
  BY <1>1, FS_CardinalityType
<1> HIDE DEF n
<1> DEFINE f == [k \in 1..n |-> AtPlace(S, R, k - 1)]
<1>6. \A k \in 1..n : f[k] \in S /\ Place(S, R)[f[k]] = k - 1
  <2> SUFFICES ASSUME NEW k \in 1..n
               PROVE  f[k] \in S /\ Place(S, R)[f[k]] = k - 1
    OBVIOUS
  <2>1. k - 1 \in 0..(n - 1)
    BY <1>5
  <2>2. QED
    BY <1>1, <1>4, <2>1, AtPlaceIs DEF n
<1>7. f \in [1..n -> S] /\ DOMAIN f = 1..n
  BY <1>6
<1> HIDE DEF f
<1>8. \A i, j \in DOMAIN f : i < j => Earlier(f[i], f[j])
  <2> SUFFICES ASSUME NEW i \in DOMAIN f, NEW j \in DOMAIN f, i < j PROVE Earlier(f[i], f[j])
    OBVIOUS
  <2>1. i \in 1..n /\ j \in 1..n /\ f[i] \in S /\ f[j] \in S
    BY <1>7
  <2>2. Place(S, R)[f[i]] < Place(S, R)[f[j]]
    BY <1>5, <1>6, <2>1
  <2>3. QED
    BY <1>1, <1>2, <1>4, <2>1, <2>2, PlaceGrows
<1>9. order \in [1..n -> S] /\ \A i, j \in DOMAIN order : i < j => Earlier(order[i], order[j])
  BY <1>7, <1>8 DEF InSettlementOrder, n
<1> HIDE DEF order
<1>10. order \in Seq(S)
  BY <1>5, <1>9
<1>11. ASSUME NEW i \in DOMAIN order, NEW j \in DOMAIN order, i < j PROVE Apart(order[i], order[j])
  <2>1. order[i] \in S /\ order[j] \in S /\ Earlier(order[i], order[j])
    BY <1>9, <1>11
  <2>2. order[i] # order[j]
    BY <1>3, <2>1 DEF Earlier
  <2>3. Apart(order[i], order[j]) \/ Apart(order[j], order[i])
    BY <2>1, <2>2, MarketsApart
  <2>4. ~Apart(order[j], order[i])
    BY <1>3, <2>1, HorizonFacts DEF Earlier, Apart
  <2>5. QED
    BY <2>3, <2>4
<1>12. QED
  BY <1>10, <1>11 DEF order, InTurn

\* What the evaluation of a row leaves, and what it says of a trade.
Sequence(s) == \E G : s \in Seq(G)

Sound(c, h, before, e) ==
    /\ c.trust > 0
    /\ Capable(c, before, e.stake) /\ e.stake >= c.minPosition
    /\ e.fill.notional \in 1..e.stake /\ e.fill.fee \in Nat /\ e.fill.shares \in Nat \ {0}
    /\ e.stake > 0 /\ e.side \in {"UP", "DOWN"}
    /\ c.style # "aggressive" => e.fill.price + RequiredEdge(c, h) <= e.confidence

Evaluated(c, h, before, e) ==
    /\ e.ledger \in RiskState /\ e.ledger.bankroll = before
    /\ Sequence(e.seen) /\ Len(e.seen) <= c.history
    /\ e.attempted \in BOOLEAN
    /\ e.attempted /\ e.fill.reason = NoReason => Sound(c, h, before, e)

LEMMA Observed ==
    ASSUME NEW c, ValidPrediction(c), NEW s, Sequence(s), Len(s) <= c.history, NEW value
    PROVE  Sequence(Observe(c, s, value)) /\ Len(Observe(c, s, value)) <= c.history
<1>1. PICK G : s \in Seq(G)
  BY DEF Sequence
<1> DEFINE H   == G \cup {value}
           all == Append(s, value)
<1>2. s \in Seq(H) /\ value \in H /\ Len(s) \in Nat
  BY <1>1
<1> HIDE DEF H
<1>3. all \in Seq(H) /\ Len(all) = Len(s) + 1 /\ all # << >>
  BY <1>2, AppendProperties
<1> HIDE DEF all
<1>4. Tail(all) \in Seq(H) /\ Len(Tail(all)) = Len(all) - 1
  BY <1>3, HeadTailProperties
<1>5. c.history \in Nat
  BY DEF ValidPrediction
<1>6. Observe(c, s, value) = IF Len(all) > c.history THEN Tail(all) ELSE all
  BY DEF Observe, all
<1>7. QED
  BY <1>2, <1>3, <1>4, <1>5, <1>6 DEF Sequence

LEMMA EvaluateFacts ==
    ASSUME cfg \in Configs, NEW row, RowTyped(row), NEW settles \in Time, settles >= Window,
           NEW own \in RiskState, NEW monitor, Sequence(monitor), Len(monitor) <= cfg.history
    PROVE  Evaluated(cfg, DecisionHorizon, own.bankroll, Evaluate(row, settles, own, monitor))
<1> DEFINE h     == DecisionHorizon
           d     == Decide(cfg, ClaimOf(row, h), monitor)
           stake == Size(cfg, own.bankroll, d.confidence, d.entry, Absent)
           sized == d.reason = NoReason /\ stake.reason = NoReason
           tick   == settles - h
           rolled  == RollPeriods(own, tick)
           allowed == sized /\ Allowed(rolled, tick, FALSE, stake.usdc)
           fill  == Fill(cfg, row.quote, d.side, stake.usdc)
           e     == Evaluate(row, settles, own, monitor)
<1>1. /\ e.ledger = IF sized THEN rolled ELSE own
      /\ e.seen = d.seen /\ e.attempted = allowed
      /\ e.stake = IF sized THEN stake.usdc ELSE 0
      /\ e.confidence = d.confidence /\ e.side = d.side
      /\ e.fill = IF allowed THEN fill ELSE NoFill(NoReason)
  BY DEF Evaluate, Attempt, ClaimOf
<1>2. /\ ValidConfig(cfg) /\ ValidPrediction(cfg) /\ ValidSizing(cfg) /\ ValidCosts(cfg)
  BY ReplayAssumption DEF ValidConfig
<1>3. tick \in Time
  BY HorizonFacts, CalendarAssumption DEF Time
<1>4. d.seen = monitor \/ \E gap : d.seen = Observe(cfg, monitor, gap)
  BY DEF Decide
<1>5. Sequence(d.seen) /\ Len(d.seen) <= cfg.history
  BY <1>2, <1>4, Observed
<1>6. allowed \in BOOLEAN /\ d.side \in {"UP", "DOWN"}
  BY DEF Decide
<1> HIDE DEF e, d, h, stake, tick, rolled, fill
<1>7. rolled \in RiskState /\ rolled.bankroll = own.bankroll
  BY <1>3, RollFacts DEF rolled
<1>8. ASSUME allowed, fill.reason = NoReason
      PROVE  Sound(cfg, h, own.bankroll, e)
  <2>1. /\ Valid(row.quote) /\ cfg.trust > 0 /\ d.confidence \in Prices
        /\ d.entry = EntryPrice(cfg, row.quote, d.side) /\ d.entry \in 1..(Unit - 1)
        /\ d.entry + RequiredEdge(cfg, h) <= d.confidence
    BY <1>2, <1>8, DecideFacts DEF d
  <2>2. own.bankroll \in Int
    BY DEF RiskState
  <2>3. Capable(cfg, own.bankroll, stake.usdc) /\ stake.usdc >= cfg.minPosition
    BY <1>2, <1>8, <2>1, <2>2, SizeFacts DEF stake
  <2>4. stake.usdc \in Nat /\ stake.usdc > 0
    BY <1>2, <2>3 DEF Capable, ValidSizing
  <2>5. Quoted(row.quote)
    BY DEF RowTyped
  <2>6. /\ fill.notional \in 1..stake.usdc /\ fill.shares \in Nat \ {0} /\ fill.fee \in Nat
        /\ cfg.style # "aggressive" => fill.price <= EntryPrice(cfg, row.quote, d.side)
        /\ fill.price \in Int
    BY <1>2, <1>8, <2>4, <2>5, FillFacts DEF fill
  <2>7. RequiredEdge(cfg, h) \in Int /\ d.confidence \in Int
    <3>1. ValidExecution(cfg)
      BY <1>2 DEF ValidConfig
    <3>2. RequiredEdge(cfg, h) \in Nat
      BY <1>2, <3>1, EdgeRequired
    <3>3. d.confidence \in Nat
      BY <2>1, PricesFinite
    <3>4. QED
      BY <3>2, <3>3
  <2>8. cfg.style # "aggressive" => fill.price + RequiredEdge(cfg, h) <= d.confidence
    <3>1. d.entry \in Int
      BY <2>1
    <3>2. QED
      BY <2>1, <2>6, <2>7, <3>1
  <2>9. e.stake = stake.usdc /\ e.fill = fill /\ e.confidence = d.confidence /\ e.side = d.side
    BY <1>1, <1>8
  <2>10. QED
    BY <1>6, <2>1, <2>3, <2>4, <2>6, <2>8, <2>9 DEF Sound
<1>9. e.ledger \in RiskState /\ e.ledger.bankroll = own.bankroll
  BY <1>1, <1>7
<1>10. e.attempted /\ e.fill.reason = NoReason => Sound(cfg, h, own.bankroll, e)
  BY <1>1, <1>8
<1>11. QED
  BY <1>1, <1>5, <1>6, <1>9, <1>10 DEF Evaluated, e, h

\* What a run has found so far and what it still has to visit.
Justified(c, h, w) ==
    w.traded =>
      /\ c.trust > 0
      /\ w.stake % c.step = 0 /\ w.stake \in c.minPosition..c.maxPosition
      /\ w.stake * 100 <= c.maxRiskPct * w.before
      /\ w.fill.notional \in 1..w.stake
      /\ c.style # "aggressive" => w.fill.price + RequiredEdge(c, h) <= w.confidence

Typed == /\ cfg \in Configs /\ Present \in SUBSET Market /\ \A m \in Present : rows[m] \in RowKind
         /\ ledger \in RiskState
         /\ Sequence(seen) /\ Len(seen) <= cfg.history
         /\ Sequence(windows) /\ \A i \in DOMAIN windows : windows[i].market \in Present

Ordered == /\ todo \in Seq(Present) /\ InTurn(todo)
           /\ \A i, j \in DOMAIN windows : i < j => Apart(windows[i].market, windows[j].market)
           /\ \A i \in DOMAIN windows, j \in DOMAIN todo : Apart(windows[i].market, todo[j])

Worthy == \A i \in DOMAIN windows : Justified(cfg, DecisionHorizon, windows[i])

ReplayInv == Typed /\ Ordered /\ Worthy

LEMMA RowsTyped == \A row \in RowKind : RowTyped(row)
BY RowAssumption DEF RowTyped, Quoted

LEMMA StartOrdered ==
    ASSUME Present \in SUBSET Market, NEW i
    PROVE  StartRun(i) \in Seq(Present) /\ InTurn(StartRun(i))
<1>1. CASE i \in DOMAIN Lookbacks
  <2> DEFINE S == Recent(Lookbacks[i])
  <2>1. S \in SUBSET Present /\ S \in SUBSET Market
    BY DEF Recent
  <2>2. StartRun(i) = InSettlementOrder(S)
    BY <1>1 DEF StartRun
  <2> HIDE DEF S
  <2>3. InSettlementOrder(S) \in Seq(S) /\ InTurn(InSettlementOrder(S))
    BY <2>1, InOrder
  <2>4. QED
    BY <2>1, <2>2, <2>3
<1>2. CASE i \notin DOMAIN Lookbacks
  BY <1>2 DEF StartRun, InTurn
<1>3. QED
  BY <1>1, <1>2

LEMMA NoWindows == Sequence(<< >>) /\ DOMAIN << >> = {}
<1>1. << >> \in Seq(Nat)
  OBVIOUS
<1>2. QED
  BY <1>1 DEF Sequence

LEMMA ReplayInitInv == ReplayInit => ReplayInv
<1> SUFFICES ASSUME ReplayInit PROVE ReplayInv
  OBVIOUS
<1>1. cfg \in Configs /\ ledger = FreshLedger /\ seen = << >> /\ windows = << >> /\ todo = StartRun(1)
  BY DEF ReplayInit
<1>2. PICK S \in SUBSET Market : rows \in [S -> RowKind]
  BY DEF ReplayInit
<1>3. Present = S /\ \A m \in Present : rows[m] \in RowKind
  BY <1>2 DEF Present
<1>4. Len(seen) <= cfg.history
  BY <1>1, ReplayAssumption DEF ValidConfig, ValidPrediction
<1>5. Typed
  BY <1>1, <1>2, <1>3, <1>4, NoWindows, FreshTyped DEF Typed
<1>6. Ordered
  BY <1>1, <1>2, <1>3, NoWindows, StartOrdered DEF Ordered
<1>7. Worthy
  BY <1>1, NoWindows DEF Worthy
<1>8. QED
  BY <1>5, <1>6, <1>7 DEF ReplayInv

\* The next market of a run.
LEMMA MarketStep == ReplayInv /\ NextMarket => ReplayInv'
<1> SUFFICES ASSUME ReplayInv, NextMarket PROVE ReplayInv'
  OBVIOUS
<1> DEFINE m      == Head(todo)
           row    == rows[m]
           e      == Evaluate(row, Settle[m], ledger, seen)
           cost   == Cost(e.fill)
           payoff == NetPayoff(e.fill, e.side, row.settled)
           w      == Result(m, e, cost, payoff, ledger')
           n      == Len(windows)
<1>1. /\ todo # << >> /\ todo' = Tail(todo) /\ UNCHANGED <<cfg, rows, reports>>
      /\ ledger' = Settled(m, e, cost, payoff) /\ seen' = e.seen /\ windows' = Append(windows, w)
  BY DEF NextMarket, Replay, Enter
<1>2. /\ todo \in Seq(Present) /\ m \in Present /\ Tail(todo) \in Seq(Present)
      /\ Len(todo) \in Nat /\ Len(todo) > 0 /\ DOMAIN todo = 1..Len(todo) /\ m = todo[1]
      /\ DOMAIN Tail(todo) = 1..(Len(todo) - 1)
      /\ \A i \in DOMAIN Tail(todo) : i + 1 \in DOMAIN todo /\ Tail(todo)[i] = todo[i + 1]
  <2>1. todo \in Seq(Present) /\ todo # << >>
    BY <1>1 DEF ReplayInv, Ordered
  <2>2. QED
    BY <2>1
<1> HIDE DEF m
<1>3. m \in Market /\ RowTyped(row) /\ cfg \in Configs
  BY <1>2, RowsTyped DEF ReplayInv, Typed
<1>4. Evaluated(cfg, DecisionHorizon, ledger.bankroll, e)
  <2>1. /\ ledger \in RiskState /\ Sequence(seen) /\ Len(seen) <= cfg.history
        /\ Settle[m] \in Time /\ Settle[m] >= Window
    BY <1>3, MarketsApart DEF ReplayInv, Typed
  <2> HIDE DEF row
  <2>2. QED
    BY <1>3, <2>1, EvaluateFacts
<1> HIDE DEF e
<1>5. ledger' \in RiskState
  <2>1. CASE e.attempted /\ e.fill.reason = NoReason
    <3>1. Sound(cfg, DecisionHorizon, ledger.bankroll, e) /\ e.ledger \in RiskState
      BY <1>4, <2>1 DEF Evaluated
    <3>2. e.fill.notional \in Nat /\ e.fill.fee \in Nat /\ e.fill.shares \in Nat
      BY <3>1 DEF Sound, Capable
    <3>3. cost \in Nat
      BY <3>2 DEF Cost
    <3>4. Payoff(e.fill, e.side, row.settled) \in Nat
      BY <3>2 DEF Payoff
    <3>5. cfg.gas \in Nat
      BY <1>3, ReplayAssumption DEF ValidConfig, ValidCosts
    <3>6. payoff \in Int
      BY <3>3, <3>4, <3>5 DEF NetPayoff
    <3> HIDE DEF cost, payoff
    <3>7. RegisterOpen(e.ledger, cost) \in RiskState
      BY <3>1, <3>3, OpenFacts
    <3>8. Settle[m] \in Time
      BY <1>3, MarketsApart
    <3>9. ClosedTo(RegisterOpen(e.ledger, cost), Settle[m], cost, payoff,
                   RegisterClose(RegisterOpen(e.ledger, cost), Settle[m], cost, payoff))
      BY <3>3, <3>6, <3>7, <3>8, CloseFacts
    <3>10. QED
      BY <1>1, <2>1, <3>9 DEF Settled, ClosedTo
  <2>2. CASE ~(e.attempted /\ e.fill.reason = NoReason)
    BY <1>1, <1>4, <2>2 DEF Settled, Evaluated
  <2>3. QED
    BY <2>1, <2>2
<1>6. /\ w.market = m /\ w.traded = (e.attempted /\ e.fill.reason = NoReason)
      /\ w.stake = e.stake /\ w.before = ledger.bankroll /\ w.fill = e.fill
      /\ w.confidence = e.confidence
  BY DEF Result
<1>7. Justified(cfg, DecisionHorizon, w)
  <2> SUFFICES ASSUME w.traded PROVE Justified(cfg, DecisionHorizon, w)
    BY DEF Justified
  <2>1. Sound(cfg, DecisionHorizon, ledger.bankroll, e)
    BY <1>4, <1>6 DEF Evaluated
  <2>2. ValidSizing(cfg)
    BY <1>3, ReplayAssumption DEF ValidConfig
  <2> HIDE DEF w
  <2>3. w.stake \in cfg.minPosition..cfg.maxPosition
    BY <1>6, <2>1, <2>2 DEF Sound, Capable, ValidSizing
  <2>4. QED
    BY <1>6, <2>1, <2>3 DEF Justified, Sound, Capable
<1> HIDE DEF w
<1>8. /\ Sequence(windows') /\ n \in Nat
      /\ DOMAIN windows = 1..n /\ DOMAIN windows' = 1..(n + 1)
      /\ windows'[n + 1] = w /\ \A i \in 1..n : windows'[i] = windows[i]
  <2>1. PICK G : windows \in Seq(G)
    BY DEF ReplayInv, Typed, Sequence
  <2> DEFINE H == G \cup {w}
  <2>2. windows \in Seq(H) /\ w \in H
    BY <2>1
  <2> HIDE DEF H
  <2>3. windows' \in Seq(H)
    BY <1>1, <2>2, AppendProperties
  <2>4. QED
    BY <1>1, <2>2, <2>3 DEF Sequence
<1> HIDE DEF n
<1>9. Present' = Present /\ DecisionHorizon' = DecisionHorizon
  BY <1>1 DEF Present, DecisionHorizon
<1>10. Typed'
  <2>1. \A i \in DOMAIN windows' : windows'[i].market \in Present
    <3> SUFFICES ASSUME NEW i \in 1..(n + 1) PROVE windows'[i].market \in Present
      BY <1>8
    <3>1. CASE i = n + 1
      BY <1>2, <1>6, <1>8, <3>1
    <3>2. CASE i # n + 1
      BY <1>8, <3>2 DEF ReplayInv, Typed
    <3>3. QED
      BY <3>1, <3>2
  <2>2. Sequence(seen)' /\ Len(seen') <= cfg'.history
    BY <1>1, <1>4 DEF Evaluated, Sequence
  <2>3. (\A k \in Present : rows[k] \in RowKind)'
    BY <1>1, <1>9 DEF ReplayInv, Typed
  <2>4. QED
    BY <1>1, <1>5, <1>8, <1>9, <2>1, <2>2, <2>3 DEF ReplayInv, Typed, Sequence
<1>11. Ordered'
  <2>1. InTurn(Tail(todo))
    BY <1>2 DEF InTurn, ReplayInv, Ordered
  <2>2. \A j \in DOMAIN Tail(todo) : Apart(m, Tail(todo)[j])
    <3> SUFFICES ASSUME NEW j \in DOMAIN Tail(todo) PROVE Apart(m, Tail(todo)[j])
      OBVIOUS
    <3>1. 1 \in DOMAIN todo /\ j + 1 \in DOMAIN todo /\ 1 < j + 1 /\ Tail(todo)[j] = todo[j + 1]
      BY <1>2
    <3>2. QED
      BY <1>2, <3>1 DEF InTurn, ReplayInv, Ordered
  <2>3. \A i \in 1..n : Apart(windows[i].market, m)
    BY <1>2, <1>8 DEF ReplayInv, Ordered
  <2>4. \A i \in 1..n, j \in DOMAIN Tail(todo) : Apart(windows[i].market, Tail(todo)[j])
    BY <1>2, <1>8 DEF ReplayInv, Ordered
  <2>5. \A i, j \in DOMAIN windows' : i < j => Apart(windows'[i].market, windows'[j].market)
    <3> SUFFICES ASSUME NEW i \in 1..(n + 1), NEW j \in 1..(n + 1), i < j
                 PROVE  Apart(windows'[i].market, windows'[j].market)
      BY <1>8
    <3>1. i \in 1..n
      BY <1>8
    <3>2. CASE j = n + 1
      BY <1>6, <1>8, <2>3, <3>1, <3>2
    <3>3. CASE j # n + 1
      BY <1>8, <3>1, <3>3 DEF ReplayInv, Ordered
    <3>4. QED
      BY <3>2, <3>3
  <2>6. \A i \in DOMAIN windows', j \in DOMAIN Tail(todo) : Apart(windows'[i].market, Tail(todo)[j])
    <3> SUFFICES ASSUME NEW i \in 1..(n + 1), NEW j \in DOMAIN Tail(todo)
                 PROVE  Apart(windows'[i].market, Tail(todo)[j])
      BY <1>8
    <3>1. CASE i = n + 1
      BY <1>6, <1>8, <2>2, <3>1
    <3>2. CASE i # n + 1
      BY <1>8, <2>4, <3>2
    <3>3. QED
      BY <3>1, <3>2
  <2>7. QED
    BY <1>1, <1>2, <1>9, <2>1, <2>5, <2>6 DEF Ordered, InTurn, Apart
<1>12. Worthy'
  <2> SUFFICES ASSUME NEW i \in 1..(n + 1) PROVE Justified(cfg, DecisionHorizon, windows'[i])
    BY <1>1, <1>8, <1>9 DEF Worthy, Justified
  <2>1. CASE i = n + 1
    BY <1>7, <1>8, <2>1
  <2>2. CASE i # n + 1
    BY <1>8, <2>2 DEF ReplayInv, Worthy
  <2>3. QED
    BY <2>1, <2>2
<1>13. QED
  BY <1>10, <1>11, <1>12 DEF ReplayInv

\* The next lookback begins.
LEMMA RunStep == ReplayInv /\ FinishRun => ReplayInv'
<1> SUFFICES ASSUME ReplayInv, FinishRun PROVE ReplayInv'
  OBVIOUS
<1>1. /\ UNCHANGED <<cfg, rows, seen>> /\ ledger' = FreshLedger /\ windows' = << >>
      /\ todo' = StartRun(Len(reports) + 2)
  BY DEF FinishRun
<1>2. Present' = Present /\ Present \in SUBSET Market
  BY <1>1 DEF Present, ReplayInv, Typed
<1>3. Typed'
  BY <1>1, <1>2, NoWindows, FreshTyped DEF ReplayInv, Typed, Sequence
<1>4. StartRun(Len(reports) + 2) \in Seq(Present) /\ InTurn(StartRun(Len(reports) + 2))
  BY <1>2, StartOrdered
<1>5. Ordered'
  BY <1>1, <1>2, <1>4, NoWindows DEF Ordered, InTurn, Apart
<1>6. Worthy'
  BY <1>1, NoWindows DEF Worthy
<1>7. QED
  BY <1>3, <1>5, <1>6 DEF ReplayInv

LEMMA ReplayInvariant == ReplaySpec => []ReplayInv
<1>1. ReplayInv /\ UNCHANGED replayVars => ReplayInv'
  <2> SUFFICES ASSUME ReplayInv, UNCHANGED replayVars PROVE ReplayInv'
    OBVIOUS
  <2> USE DEF replayVars
  <2>1. Typed'
    BY DEF ReplayInv, Typed, Present, Sequence
  <2>2. Ordered'
    BY DEF ReplayInv, Ordered, Present, InTurn, Apart
  <2>3. Worthy'
    BY DEF ReplayInv, Worthy, Justified, DecisionHorizon
  <2>4. QED
    BY <2>1, <2>2, <2>3 DEF ReplayInv
<1>2. ReplayInv /\ [ReplayNext]_replayVars => ReplayInv'
  BY <1>1, MarketStep, RunStep DEF ReplayNext
<1>3. QED
  BY <1>2, ReplayInitInv, PTL DEF ReplaySpec

\* Of two windows of a run, the earlier one was over when the later was decided.
THEOREM Foresight == ReplaySpec => []NoLookahead
<1>1. ReplayInv => NoLookahead
  <2> SUFFICES ASSUME ReplayInv, NEW i \in DOMAIN windows, NEW j \in DOMAIN windows, i < j
               PROVE  Settle[windows[i].market] <= Settle[windows[j].market] - DecisionHorizon
    BY DEF NoLookahead
  <2>1. windows[i].market \in Market /\ windows[j].market \in Market
    BY DEF ReplayInv, Typed
  <2>2. Apart(windows[i].market, windows[j].market)
    BY DEF ReplayInv, Ordered
  <2>3. QED
    BY <2>1, <2>2, MarketsApart, HorizonFacts DEF Apart
<1>2. QED
  BY <1>1, ReplayInvariant, PTL

\* A trade of the replay was worth it when it was made.
THEOREM Merit == ReplaySpec => []TradesAreJustified
<1>1. ReplayInv => TradesAreJustified
  BY DEF ReplayInv, Worthy, Justified, TradesAreJustified
<1>2. QED
  BY <1>1, ReplayInvariant, PTL

\* The values a replay holds.
THEOREM Replayed == ReplaySpec => []ReplayTypes
<1>1. ReplayInv => ReplayTypes
  <2> SUFFICES ASSUME ReplayInv PROVE ReplayTypes
    OBVIOUS
  <2>1. Markets(windows) \subseteq Present
    BY DEF ReplayInv, Typed, Markets
  <2>2. {todo[i] : i \in DOMAIN todo} \subseteq Present
    BY DEF ReplayInv, Ordered
  <2>3. QED
    BY <2>1, <2>2 DEF ReplayInv, Typed, ReplayTypes
<1>2. QED
  BY <1>1, ReplayInvariant, PTL

(***************************************************************************)
(* The drawdown, a fraction compared by products.                         *)
(***************************************************************************)

\* The fold of max_drawdown() and what it has found of the first points.
Depths == [peak : Positive, worst : Int \X Positive]

From(e, i, j) == i \in 1..j /\ e[i] > 0 /\ (e[j] < 0 => \A k \in 1..j : e[k] <= e[i])

Dominates(w, a, p) == a * w[2] <= w[1] * p

Searched(e, n, acc) ==
    /\ \A k \in 1..n : e[k] <= acc.peak
    /\ e[1] <= acc.peak /\ \E k \in 1..Len(e) : (k <= n \/ k = 1) /\ e[k] = acc.peak
    /\ \A j \in 1..n : \A i \in 1..j : From(e, i, j) => Dominates(acc.worst, e[i] - e[j], e[i])
    /\ \E j \in 1..Len(e) : \E i \in 1..j :
          From(e, i, j) /\ (e[i] - e[j]) * acc.worst[2] = acc.worst[1] * e[i]

LEMMA DeeperFacts ==
    ASSUME NEW v \in Int \X Positive, NEW w \in Int \X Positive
    PROVE  /\ Deeper(v, w) \in {v, w}
           /\ v[1] * Deeper(v, w)[2] <= Deeper(v, w)[1] * v[2]
           /\ w[1] * Deeper(v, w)[2] <= Deeper(v, w)[1] * w[2]
<1>1. v[1] \in Int /\ v[2] \in Int /\ w[1] \in Int /\ w[2] \in Int
  BY DEF Positive
<1>2. v[1] * w[2] \in Int /\ w[1] * v[2] \in Int /\ v[1] * v[2] \in Int /\ w[1] * w[2] \in Int
  BY <1>1
<1>3. CASE v[1] * w[2] >= w[1] * v[2]
  BY <1>2, <1>3 DEF Deeper
<1>4. CASE ~(v[1] * w[2] >= w[1] * v[2])
  BY <1>2, <1>4 DEF Deeper
<1>5. QED
  BY <1>3, <1>4

LEMMA Distributes ==
    \A x, y, z \in Int : (x - y) * z = x * z - y * z /\ x * y = y * x
BY ONLY Z3

\* One point more.
LEMMA PointMore ==
    ASSUME NEW e \in Seq(Int), e[1] > 0, NEW n \in Nat, n + 1 <= Len(e),
           NEW acc \in Depths, Searched(e, n, acc)
    PROVE  Fallen(acc, e[n + 1]) \in Depths /\ Searched(e, n + 1, Fallen(acc, e[n + 1]))
<1> DEFINE v    == e[n + 1]
           peak == Max({acc.peak, v})
           fall == <<peak - v, peak>>
           then == Fallen(acc, v)
<1>1. /\ Len(e) \in Nat /\ \A k \in 1..Len(e) : e[k] \in Int
      /\ 1 \in 1..Len(e) /\ n + 1 \in 1..Len(e)
  OBVIOUS
<1>2. acc.peak \in Positive /\ acc.peak \in Int /\ acc.worst \in Int \X Positive /\ v \in Int
  BY <1>1 DEF Depths, Positive
<1>3. peak = IF acc.peak <= v THEN v ELSE acc.peak
  BY <1>2, OfTwo
<1>4. /\ peak \in Positive /\ peak \in Int /\ peak > 0 /\ v <= peak /\ acc.peak <= peak
      /\ peak = v \/ peak = acc.peak
  BY <1>2, <1>3 DEF Positive
<1>5. fall \in Int \X Positive
  BY <1>2, <1>4
<1>6. then = [peak |-> peak, worst |-> Deeper(acc.worst, fall)]
  BY DEF Fallen
<1> HIDE DEF v, peak, fall, then
<1>7. /\ then.worst \in {acc.worst, fall} /\ then.worst \in Int \X Positive
      /\ acc.worst[1] * then.worst[2] <= then.worst[1] * acc.worst[2]
      /\ fall[1] * then.worst[2] <= then.worst[1] * fall[2]
  BY <1>2, <1>5, <1>6, DeeperFacts
<1>8. then \in Depths
  BY <1>4, <1>6, <1>7 DEF Depths
<1>9. \A k \in 1..(n + 1) : e[k] <= peak
  <2> SUFFICES ASSUME NEW k \in 1..(n + 1) PROVE e[k] <= peak
    OBVIOUS
  <2>1. CASE k = n + 1
    BY <1>4, <2>1 DEF v
  <2>2. CASE k # n + 1
    <3>1. k \in 1..n /\ k \in 1..Len(e)
      BY <1>1, <2>2
    <3>2. e[k] <= acc.peak /\ e[k] \in Int
      BY <1>1, <3>1 DEF Searched
    <3>3. QED
      BY <1>2, <1>4, <3>2
  <2>3. QED
    BY <2>1, <2>2
<1>10. PICK top \in 1..Len(e) : top <= n + 1 /\ e[top] = peak
  <2>1. CASE peak = v
    BY <1>1, <2>1 DEF v
  <2>2. CASE peak # v
    <3>1. peak = acc.peak
      BY <1>4, <2>2
    <3>2. PICK k \in 1..Len(e) : (k <= n \/ k = 1) /\ e[k] = acc.peak
      BY DEF Searched
    <3>3. k <= n + 1
      BY <3>2
    <3>4. QED
      BY <3>1, <3>2, <3>3
  <2>3. QED
    BY <2>1, <2>2
<1>11. From(e, top, n + 1)
  BY <1>4, <1>9, <1>10 DEF From
<1>12. ASSUME NEW i \in 1..(n + 1), From(e, i, n + 1)
       PROVE  (e[i] - v) * fall[2] <= fall[1] * e[i]
  <2>1. e[i] \in Int /\ e[i] > 0 /\ e[i] <= peak
    BY <1>1, <1>9, <1>12 DEF From
  <2>2. CASE v < 0
    <3>1. e[i] >= e[top] /\ e[top] = peak
      BY <1>10, <1>12, <2>2 DEF From, v
    <3>2. e[i] = peak
      BY <1>4, <2>1, <3>1
    <3>3. (peak - v) * peak \in Int
      BY <1>2, <1>4
    <3>4. QED
      BY <3>2, <3>3 DEF fall
  <2>3. CASE v >= 0
    <3>1. v \in Nat
      BY <1>2, <2>3
    <3>2. PICK x \in Int : x = e[i]
      BY <2>1
    <3>3. x * v <= peak * v
      BY <1>4, <2>1, <3>1, <3>2, Times
    <3>4. (x - v) * peak = x * peak - peak * v /\ (peak - v) * x = x * peak - x * v
      <4>1. (x - v) * peak = x * peak - v * peak /\ (peak - v) * x = peak * x - v * x
        BY <1>2, <1>4, Distributes
      <4>2. v * peak = peak * v /\ peak * x = x * peak /\ v * x = x * v
        BY <1>2, <1>4, Distributes
      <4>3. QED
        BY ONLY <4>1, <4>2
    <3>7. x * peak \in Int /\ peak * v \in Int /\ x * v \in Int
      BY <1>2, <1>4, <3>2
    <3>5. (e[i] - v) * peak <= (peak - v) * e[i]
      BY ONLY <3>2, <3>3, <3>4, <3>7
    <3>6. QED
      BY <3>5 DEF fall
  <2>4. QED
    BY <1>2, <2>2, <2>3
<1>13. ASSUME NEW j \in 1..(n + 1), NEW i \in 1..j, From(e, i, j)
       PROVE  Dominates(then.worst, e[i] - e[j], e[i])
  <2>1. e[i] \in Int /\ e[j] \in Int /\ e[i] > 0 /\ e[i] - e[j] \in Int /\ e[i] \in Positive
    BY <1>1, <1>13 DEF From, Positive
  <2>2. /\ then.worst[1] \in Int /\ then.worst[2] \in Positive
        /\ acc.worst[1] \in Int /\ acc.worst[2] \in Positive
        /\ fall[1] \in Int /\ fall[2] \in Positive
    BY <1>2, <1>5, <1>7
  <2>3. CASE j = n + 1
    <3>1. (e[i] - e[j]) * fall[2] <= fall[1] * e[i]
      BY <1>12, <1>13, <2>3 DEF v
    <3>4. SteeperBy(e[i] - e[j], fall[1], then.worst[1], e[i], fall[2], then.worst[2])
      BY <2>1, <2>2, SteeperThan
    <3>2. (e[i] - e[j]) * then.worst[2] <= then.worst[1] * e[i]
      BY ONLY <1>7, <3>1, <3>4 DEF SteeperBy
    <3>3. QED
      BY <3>2 DEF Dominates
  <2>4. CASE j # n + 1
    <3>1. j \in 1..n
      BY <2>4
    <3>2. (e[i] - e[j]) * acc.worst[2] <= acc.worst[1] * e[i]
      BY <1>13, <3>1 DEF Searched, Dominates
    <3>5. SteeperBy(e[i] - e[j], acc.worst[1], then.worst[1], e[i], acc.worst[2], then.worst[2])
      BY <2>1, <2>2, SteeperThan
    <3>3. (e[i] - e[j]) * then.worst[2] <= then.worst[1] * e[i]
      BY ONLY <1>7, <3>2, <3>5 DEF SteeperBy
    <3>4. QED
      BY <3>3 DEF Dominates
  <2>5. QED
    BY <2>3, <2>4
<1>14. \E j \in 1..Len(e) : \E i \in 1..j :
          From(e, i, j) /\ (e[i] - e[j]) * then.worst[2] = then.worst[1] * e[i]
  <2>1. CASE then.worst = acc.worst
    BY <2>1 DEF Searched
  <2>2. CASE then.worst = fall
    <3>1. (e[top] - e[n + 1]) * fall[2] = fall[1] * e[top]
      BY <1>10 DEF fall, v
    <3>2. top \in 1..(n + 1)
      BY <1>10
    <3>3. QED
      BY <1>1, <1>11, <2>2, <3>1, <3>2
  <2>3. QED
    BY <1>7, <2>1, <2>2
<1>15. then.peak = peak /\ e[1] <= peak
  BY <1>1, <1>6, <1>9
<1>16. Searched(e, n + 1, then)
  BY <1>9, <1>10, <1>13, <1>14, <1>15 DEF Searched
<1>17. QED
  BY <1>8, <1>16 DEF then, v

After(e) == CHOOSE after : after =
    [k \in 0..Len(e) |-> IF k = 0 THEN [peak |-> e[1], worst |-> <<0, 1>>]
                         ELSE Fallen(after[k - 1], e[k])]

LEMMA DrawdownIsAfter == \A e : MaxDrawdown(e) = After(e)[Len(e)].worst
BY DEF MaxDrawdown, After

LEMMA DrawdownIsDeepest ==
    ASSUME NEW e \in Seq(Int), Len(e) >= 1, e[1] > 0
    PROVE  /\ MaxDrawdown(e) \in Int \X Positive
           /\ \A j \in DOMAIN e : \A f \in FallsTo(e, j) :
                f[1] * MaxDrawdown(e)[2] <= MaxDrawdown(e)[1] * f[2]
           /\ \E j \in DOMAIN e : \E f \in FallsTo(e, j) :
                f[1] * MaxDrawdown(e)[2] = MaxDrawdown(e)[1] * f[2]
<1> DEFINE n    == Len(e)
           base == [peak |-> e[1], worst |-> <<0, 1>>]
           next == [k \in 1..n |-> [acc \in Depths |-> Fallen(acc, e[k])]]
<1>1. n \in Nat /\ \A k \in 1..n : e[k] \in Int
  OBVIOUS
<1>2. base \in Depths
  BY <1>1 DEF Depths, Positive
<1>3. ASSUME NEW acc \in Depths, NEW k \in 1..n PROVE Fallen(acc, e[k]) \in Depths
  <2>1. acc.peak \in Positive /\ acc.peak \in Int /\ acc.worst \in Int \X Positive /\ e[k] \in Int
    BY <1>1 DEF Depths, Positive
  <2> DEFINE v    == e[k]
             peak == Max({acc.peak, v})
  <2>9. v \in Int
    BY <2>1
  <2> HIDE DEF v
  <2>2. peak = IF acc.peak <= v THEN v ELSE acc.peak
    <3> DEFINE p == acc.peak
    <3>1. p \in Int
      BY <2>1
    <3> HIDE DEF p
    <3>2. Max({p, v}) = IF p <= v THEN v ELSE p
      BY <2>9, <3>1, OfTwo
    <3>3. QED
      BY <3>2 DEF p
  <2> HIDE DEF peak
  <2>3. peak \in Positive /\ <<peak - v, peak>> \in Int \X Positive
    BY <2>1, <2>2, <2>9 DEF Positive
  <2>4. Deeper(acc.worst, <<peak - v, peak>>) \in Int \X Positive
    BY <2>1, <2>3 DEF Deeper
  <2>5. QED
    BY <2>3, <2>4 DEF Fallen, Depths, peak, v
<1>4. next \in [1..n -> [Depths -> Depths]]
  BY <1>3
<1>5. PICK f \in [0..n -> Depths] :
        f = [k \in 0..n |-> IF k = 0 THEN base ELSE next[k][f[k - 1]]]
  <2>1. n \in Nat
    BY <1>1
  <2> HIDE DEF n, base, next
  <2>2. QED
    <3>1. IteratedBy(Depths, base, n, next)
      BY <1>2, <1>4, <2>1, IteratedFrom
    <3>2. QED
      BY ONLY <3>1 DEF IteratedBy
<1>6. f = [k \in 0..n |-> IF k = 0 THEN base ELSE Fallen(f[k - 1], e[k])]
  <2>3. \A k \in 1..n : \A acc \in Depths : next[k][acc] = Fallen(acc, e[k])
    OBVIOUS
  <2>4. \A k \in 0..n : k # 0 => k \in 1..n /\ k - 1 \in 0..n
    BY <1>1
  <2>1. \A k \in 0..n : k # 0 => k \in 1..n /\ k - 1 \in 0..n /\ next[k][f[k - 1]] = Fallen(f[k - 1], e[k])
    <3> HIDE DEF next, base, n
    <3>1. QED
      BY ONLY <2>3, <2>4, f \in [0..n -> Depths]
  <2> HIDE DEF next, base, n
  <2>2. QED
    BY <1>5, <2>1
<1>7. After(e) = [k \in 0..n |-> IF k = 0 THEN base ELSE Fallen(After(e)[k - 1], e[k])]
  BY <1>6 DEF After
<1> DEFINE a == After(e)
<1> HIDE DEF a
<1>8. a[0] = base /\ \A k \in 1..n : a[k] = Fallen(a[k - 1], e[k])
  <2> HIDE DEF base
  <2>1. QED
    BY <1>1, <1>7 DEF a
<1> DEFINE K == {k \in Nat : k <= n => a[k] \in Depths /\ Searched(e, k, a[k])}
<1>9. 0 \in K
  <2>1. 1 \in 1..Len(e) /\ From(e, 1, 1) /\ e[1] \in Int
    BY <1>1 DEF From
  <2>2. (e[1] - e[1]) * 1 = 0 * e[1]
    BY <2>1
  <2>3. Searched(e, 0, base)
    BY <2>1, <2>2 DEF Searched
  <2>4. QED
    BY <1>2, <1>8, <2>3
<1>10. ASSUME NEW k \in Nat, k \in K PROVE k + 1 \in K
  <2> SUFFICES ASSUME k + 1 <= n PROVE a[k + 1] \in Depths /\ Searched(e, k + 1, a[k + 1])
    OBVIOUS
  <2>1. a[k] \in Depths /\ Searched(e, k, a[k])
    BY <1>1, <1>10
  <2>2. a[k + 1] = Fallen(a[k], e[k + 1])
    BY <1>1, <1>8
  <2>3. QED
    BY <2>1, <2>2, PointMore
<1>11. \A k \in Nat : k \in K
  <2> HIDE DEF K
  <2>1. \A k \in Nat : k \in K => k + 1 \in K
    BY <1>10
  <2>2. QED
    BY ONLY <1>9, <2>1, Induction
<1>12. a[n] \in Depths /\ Searched(e, n, a[n])
  BY <1>1, <1>11
<1>13. MaxDrawdown(e) = a[n].worst
  BY DrawdownIsAfter DEF a
<1> HIDE DEF a
<1> DEFINE w == MaxDrawdown(e)
<1> HIDE DEF w
<1>14. w \in Int \X Positive
  BY <1>12, <1>13 DEF Depths, w
<1>15. DOMAIN e = 1..n
  OBVIOUS
<1>16. ASSUME NEW j \in 1..n, NEW f2 \in FallsTo(e, j) PROVE f2[1] * w[2] <= w[1] * f2[2]
  <2>1. PICK i \in 1..j : From(e, i, j) /\ f2 = <<e[i] - e[j], e[i]>>
    BY <1>16 DEF FallsTo, From
  <2>2. Dominates(w, e[i] - e[j], e[i])
    BY <1>12, <1>13, <2>1 DEF Searched, w
  <2>3. QED
    BY <2>1, <2>2 DEF Dominates
<1>17. \E j \in 1..n : \E f2 \in FallsTo(e, j) : f2[1] * w[2] = w[1] * f2[2]
  <2>1. PICK j \in 1..n : \E i \in 1..j : From(e, i, j) /\ (e[i] - e[j]) * w[2] = w[1] * e[i]
    BY <1>12, <1>13 DEF Searched, w
  <2>2. PICK i \in 1..j : From(e, i, j) /\ (e[i] - e[j]) * w[2] = w[1] * e[i]
    BY <2>1
  <2>3. <<e[i] - e[j], e[i]>> \in FallsTo(e, j)
    BY <2>2 DEF FallsTo, From
  <2>4. QED
    BY <2>2, <2>3
<1>18. QED
  BY <1>14, <1>15, <1>16, <1>17 DEF w

(***************************************************************************)
(* What a report adds up.                                                  *)
(***************************************************************************)

TradedIn(ws) == {i \in DOMAIN ws : ws[i].traded}
PnlOf(ws) == SumFunction([i \in TradedIn(ws) |-> ws[i].pnl])

\* A window as it was entered, with what its trade brought at settlement.
Entered(w) ==
    /\ w.traded \in BOOLEAN /\ w.bankroll \in Int /\ w.pnl \in Int
    /\ w.traded =>
         /\ w.stake > 0 /\ w.attempted
         /\ w.fill.shares \in Nat /\ w.fill.notional \in Nat /\ w.fill.fee \in Nat
         /\ w.settled = Void => w.pnl = 0 /\ ~Won(w)
         /\ w.settled # Void => w.pnl = (IF Won(w) THEN w.fill.shares - cfg.gas ELSE 0) - Cost(w.fill)

LEMMA EquityPoints ==
    ASSUME NEW ws, Sequence(ws), \A i \in DOMAIN ws : ws[i].bankroll \in Int
    PROVE  Equity(ws) \in Seq(Int) /\ Len(Equity(ws)) >= 1 /\ Equity(ws)[1] = Start
<1> DEFINE n    == Len(ws)
           V    == {s \in Seq(Int) : Len(s) >= 1 /\ s[1] = Start}
           Make(k, s) == IF ws[k].traded THEN Append(s, ws[k].bankroll) ELSE s
           next == [k \in 1..n |-> [s \in V |-> Make(k, s)]]
<1>1. n \in Nat /\ DOMAIN ws = 1..n
  BY DEF Sequence
<1>2. <<Start>> \in V
  BY LimitsAssumption
<1>3. ASSUME NEW k \in 1..n, NEW s \in V PROVE Make(k, s) \in V
  <2>1. s \in Seq(Int) /\ Len(s) >= 1 /\ s[1] = Start /\ ws[k].bankroll \in Int
    BY <1>1
  <2> DEFINE b == ws[k].bankroll
             t == Append(s, b)
  <2>6. b \in Int
    BY <2>1
  <2> HIDE DEF b
  <2>2. t \in Seq(Int) /\ Len(t) = Len(s) + 1 /\ t[1] = s[1]
    BY <2>1, <2>6, AppendProperties
  <2>3. Len(s) \in Nat
    BY <2>1
  <2> HIDE DEF t
  <2>4. t \in V
    BY <2>1, <2>2, <2>3
  <2> HIDE DEF V
  <2>5. QED
    BY <2>4 DEF t, b
<1>4. next \in [1..n -> [V -> V]]
  <2> HIDE DEF V, Make, n
  <2>1. QED
    BY <1>3
<1>5. PICK f \in [0..n -> V] :
        f = [k \in 0..n |-> IF k = 0 THEN <<Start>> ELSE next[k][f[k - 1]]]
  <2>1. n \in Nat
    BY <1>1
  <2> HIDE DEF V, Make, n, next
  <2>2. IteratedBy(V, <<Start>>, n, next)
    BY <1>2, <1>4, <2>1, IteratedFrom
  <2>3. QED
    BY ONLY <2>2 DEF IteratedBy
<1>6. f = [k \in 0..n |-> IF k = 0 THEN <<Start>> ELSE Make(k, f[k - 1])]
  <2> HIDE DEF V, Make
  <2>1. \A k \in 0..n : k # 0 => next[k][f[k - 1]] = Make(k, f[k - 1])
    <3> SUFFICES ASSUME NEW k \in 0..n, k # 0 PROVE next[k][f[k - 1]] = Make(k, f[k - 1])
      OBVIOUS
    <3>1. k \in 1..n /\ k - 1 \in 0..n
      BY <1>1
    <3>2. QED
      BY <3>1
  <2> HIDE DEF next, n
  <2>2. QED
    BY <1>5, <2>1
<1> DEFINE UpTo(u) == u = [k \in 0..n |-> IF k = 0 THEN <<Start>> ELSE Make(k, u[k - 1])]
           u == CHOOSE u : UpTo(u)
<1>7. UpTo(u)
  <2>1. UpTo(f)
    BY <1>6
  <2> HIDE DEF UpTo
  <2>2. QED
    BY <2>1
<1>8. Equity(ws) = u[n]
  BY DEF Equity
<1> HIDE DEF u
<1>9. u[0] = <<Start>> /\ \A k \in 1..n : u[k] = Make(k, u[k - 1])
  <2>1. \A k \in 1..n : k \in 0..n /\ k # 0
    BY <1>1
  <2>2. 0 \in 0..n
    BY <1>1
  <2> HIDE DEF Make, n, V, next
  <2>3. u[0] = <<Start>>
    BY ONLY <1>7, <2>2
  <2>4. QED
    BY ONLY <1>7, <2>1, <2>3
<1> HIDE DEF UpTo
<1> DEFINE K == {k \in Nat : k <= n => u[k] \in V}
<1> HIDE DEF V, Make, next
<1>10. 0 \in K
  BY <1>2, <1>9
<1>11. ASSUME NEW k \in Nat, k \in K PROVE k + 1 \in K
  <2> SUFFICES ASSUME k + 1 <= n PROVE u[k + 1] \in V
    OBVIOUS
  <2>1. k <= n /\ k + 1 \in 1..n /\ (k + 1) - 1 = k
    BY <1>1
  <2>2. u[k + 1] = Make(k + 1, u[k])
    BY <1>9, <2>1
  <2>3. QED
    BY <1>3, <1>11, <2>1, <2>2
<1>12. \A k \in Nat : k \in K
  <2> HIDE DEF K
  <2>1. \A k \in Nat : k \in K => k + 1 \in K
    BY <1>11
  <2>2. QED
    BY ONLY <1>10, <2>1, Induction
<1>13. u[n] \in V
  BY <1>1, <1>12
<1>14. QED
  BY <1>8, <1>13 DEF V

LEMMA ReportAddsUp ==
    ASSUME cfg \in Configs, NEW ws, Sequence(ws), \A i \in DOMAIN ws : Entered(ws[i]),
           NEW end, end = Start + PnlOf(ws),
           NEW r, r = Report(ws, Start, end)
    PROVE  /\ PnlAddsUp(r) /\ LadderAddsUp(r) /\ FallIsDeepest(r)
           /\ r.approved => VoidCost(r.windows) = 0
<1> DEFINE T == TradedIn(ws)
           A == {k \in DOMAIN ws : ws[k].traded /\ ws[k].pnl > 0}
           B == {k \in DOMAIN ws : ws[k].traded /\ ws[k].pnl <= 0}
           U == {k \in DOMAIN ws : ws[k].traded /\ ws[k].settled = Void}
           Taken(w) == (IF Won(w) THEN w.fill.shares ELSE 0) - w.fill.notional - PaidFee(w)
           pnl  == [i \in T |-> ws[i].pnl]
           loss == [i \in T |-> -ws[i].pnl]
           took == [i \in T |-> Taken(ws[i])]
           void == [i \in T |-> IF ws[i].settled = Void THEN Cost(ws[i].fill) ELSE 0]
<1>1. /\ r.windows = ws /\ r.money = Money(ws, Start, end) /\ r.ladder = Decompose(ws)
      /\ r.approved = Approved(Money(ws, Start, end), Forecast(ws), Decompose(ws))
  BY DEF Report
<1>2. /\ r.money.end = end /\ r.money.start = Start /\ r.money.fall = MaxDrawdown(Equity(ws))
      /\ r.money.profit = SumFunction([i \in A |-> ws[i].pnl])
      /\ r.money.loss = SumFunction([i \in B |-> -ws[i].pnl])
  <2> DEFINE money == Money(ws, Start, end)
  <2>1. money.end = end /\ money.start = Start /\ money.fall = MaxDrawdown(Equity(ws))
    BY DEF Money
  <2>2. money.profit = SumFunction([i \in A |-> ws[i].pnl])
    BY DEF Money, SumOver
  <2>3. money.loss = SumFunction([i \in B |-> -ws[i].pnl])
    BY DEF Money, SumOver
  <2> HIDE DEF money, A, B
  <2>4. QED
    BY <1>1, <2>1, <2>2, <2>3 DEF money
<1>3. r.ladder.net = SumFunction([i \in {k \in DOMAIN ws : (ws[k].stake > 0 /\ ws[k].attempted) /\ ws[k].traded}
                                    |-> Taken(ws[i])])
  BY <1>1 DEF Decompose, SumOver
<1>4. VoidCost(ws) = SumFunction([i \in U |-> Cost(ws[i].fill)])
  BY DEF VoidCost, SumOver
<1>5. {k \in DOMAIN ws : (ws[k].stake > 0 /\ ws[k].attempted) /\ ws[k].traded} = T
  BY DEF Entered, TradedIn
<1>6. A \in SUBSET T /\ B \in SUBSET T /\ U \in SUBSET T /\ A \cap B = {} /\ A \cup B = T
  <2>1. \A k \in T : ws[k].pnl \in Int /\ k \in DOMAIN ws /\ ws[k].traded
    BY DEF Entered, TradedIn
  <2>2. \A k \in T : k \in A \/ k \in B
    BY <2>1
  <2>3. QED
    BY <2>1, <2>2 DEF TradedIn
<1>7. IsFiniteSet(T)
  <2>1. Len(ws) \in Nat /\ DOMAIN ws = 1..Len(ws)
    BY DEF Sequence
  <2>2. QED
    BY <2>1, UpToSize, FS_Subset DEF TradedIn
<1>8. ASSUME NEW i \in T
      PROVE  /\ ws[i].pnl \in Int /\ Taken(ws[i]) \in Int /\ void[i] \in Int
             /\ ws[i].pnl = Taken(ws[i]) + void[i]
             /\ (ws[i].settled = Void => void[i] = Cost(ws[i].fill))
             /\ (ws[i].settled # Void => void[i] = 0)
  <2>1. Entered(ws[i]) /\ ws[i].traded
    BY DEF TradedIn
  <2>2. cfg.gas \in Nat
    BY ReplayAssumption DEF ValidConfig, ValidCosts
  <2>3. CASE ws[i].settled = Void
    BY <2>1, <2>2, <2>3 DEF Entered, Cost, PaidFee
  <2>4. CASE ws[i].settled # Void
    BY <2>1, <2>2, <2>4 DEF Entered, Cost, PaidFee
  <2>5. QED
    BY <2>3, <2>4
<1> HIDE DEF A, B, U, Taken
<1>9. /\ \A i \in T : pnl[i] = ws[i].pnl /\ loss[i] = -pnl[i] /\ took[i] = Taken(ws[i])
                      /\ pnl[i] = took[i] + void[i]
      /\ Whole(pnl, T) /\ Whole(loss, T) /\ Whole(took, T) /\ Whole(void, T)
  BY <1>8 DEF Whole
<1> HIDE DEF pnl, loss, took, void, T
<1>10. PnlOf(ws) = SumFunctionOnSet(pnl, T) /\ SumFunctionOnSet(pnl, T) \in Int
  <2>1. PnlOf(ws) = SumFunction([i \in T |-> ws[i].pnl])
    BY DEF PnlOf, T
  <2>2. T \in SUBSET T /\ \A i \in T : [j \in T |-> ws[j].pnl][i] = pnl[i]
    BY <1>9
  <2>3. QED
    BY <1>7, <1>9, <2>1, <2>2, SumPart
<1>11. PnlAddsUp(r)
  <2>1. r.money.profit = SumFunctionOnSet(pnl, A) /\ r.money.profit \in Int
    <3> DEFINE f == [j \in A |-> ws[j].pnl]
    <3>1. DOMAIN f = A /\ \A i \in A : f[i] = pnl[i]
      BY <1>6, <1>9
    <3>2. r.money.profit = SumFunction(f)
      BY <1>2
    <3> HIDE DEF f
    <3>3. SumFunction(f) = SumFunctionOnSet(pnl, A) /\ SumFunction(f) \in Int
      BY <1>6, <1>7, <1>9, <3>1, SumPart
    <3>4. QED
      BY <3>2, <3>3
  <2>2. r.money.loss = SumFunctionOnSet(loss, B) /\ r.money.loss \in Int
    <3> DEFINE f == [j \in B |-> -ws[j].pnl]
    <3>1. DOMAIN f = B /\ \A i \in B : f[i] = loss[i]
      BY <1>6, <1>9
    <3>2. r.money.loss = SumFunction(f)
      BY <1>2
    <3> HIDE DEF f
    <3>3. SumFunction(f) = SumFunctionOnSet(loss, B) /\ SumFunction(f) \in Int
      BY <1>6, <1>7, <1>9, <3>1, SumPart
    <3>4. QED
      BY <3>2, <3>3
  <2>3. IsFiniteSet(A) /\ IsFiniteSet(B) /\ Whole(pnl, A) /\ Whole(pnl, B)
    BY <1>6, <1>7, <1>9, FS_Subset DEF Whole
  <2>4. SumFunctionOnSet(pnl, T) = SumFunctionOnSet(pnl, A) + SumFunctionOnSet(pnl, B)
    BY <1>6, <2>3, SumOfUnion
  <2>5. SumFunctionOnSet(loss, B) = -SumFunctionOnSet(pnl, B)
    BY <1>6, <1>9, <2>3, SumOpposite
  <2>6. SumFunctionOnSet(pnl, B) \in Int /\ Start \in Int
    BY <1>6, <1>7, <1>9, SumOfSubset, LimitsAssumption
  <2>7. r.money.profit - r.money.loss = SumFunctionOnSet(pnl, T)
    BY <2>1, <2>2, <2>4, <2>5, <2>6
  <2>8. r.money.end - Start = SumFunctionOnSet(pnl, T)
    BY <1>2, <1>10, <2>6
  <2>9. QED
    BY <2>7, <2>8 DEF PnlAddsUp
<1>12. /\ r.ladder.net + VoidCost(ws) = SumFunctionOnSet(pnl, T)
       /\ r.ladder.net \in Int /\ VoidCost(ws) \in Int
  <2>1. r.ladder.net = SumFunctionOnSet(took, T) /\ r.ladder.net \in Int
    <3>1. T \in SUBSET T /\ \A i \in T : [j \in T |-> Taken(ws[j])][i] = took[i]
      BY <1>9
    <3>2. r.ladder.net = SumFunction([j \in T |-> Taken(ws[j])])
      BY <1>3, <1>5
    <3>3. QED
      BY <1>7, <1>9, <3>1, <3>2, SumPart
  <2>2. VoidCost(ws) = SumFunctionOnSet(void, U) /\ VoidCost(ws) \in Int
    <3>1. \A i \in U : [j \in U |-> Cost(ws[j].fill)][i] = void[i]
      BY <1>6, <1>8 DEF U
    <3>2. QED
      BY <1>4, <1>6, <1>7, <1>9, <3>1, SumPart
  <2>3. \A i \in T \ U : void[i] = 0
    BY <1>8 DEF U, T, TradedIn
  <2>4. /\ IsFiniteSet(U) /\ IsFiniteSet(T \ U) /\ Whole(void, U) /\ Whole(void, T \ U)
        /\ U \cap (T \ U) = {} /\ U \cup (T \ U) = T
    BY <1>6, <1>7, <1>9, FS_Subset DEF Whole
  <2>5. SumFunctionOnSet(void, U \cup (T \ U)) = SumFunctionOnSet(void, U) + SumFunctionOnSet(void, T \ U)
    BY ONLY <2>4, SumOfUnion
  <2>6. SumFunctionOnSet(void, T \ U) = 0
    BY <2>3, <2>4, SumOfZeros
  <2>7. SumFunctionOnSet(pnl, T) = SumFunctionOnSet(took, T) + SumFunctionOnSet(void, T)
    BY <1>7, <1>9, SumAdds
  <2>8. SumFunctionOnSet(void, T) = SumFunctionOnSet(void, U) + 0
    BY <2>4, <2>5, <2>6
  <2>9. QED
    BY <2>1, <2>2, <2>7, <2>8
<1>13. r.money.end - Start = SumFunctionOnSet(pnl, T) /\ r.money.end \in Int /\ Start \in Int
  BY <1>2, <1>10, LimitsAssumption
<1>14. LadderAddsUp(r)
  BY <1>1, <1>12, <1>13 DEF LadderAddsUp
<1>15. FallIsDeepest(r)
  <2>1. Equity(ws) \in Seq(Int) /\ Len(Equity(ws)) >= 1 /\ Equity(ws)[1] = Start
    BY EquityPoints DEF Entered
  <2>2. Start > 0
    BY LimitsAssumption
  <2> DEFINE e == Equity(ws)
  <2>3. e \in Seq(Int) /\ Len(e) >= 1 /\ e[1] > 0
    BY <2>1, <2>2
  <2> HIDE DEF e
  <2>4. /\ \A j \in DOMAIN e : \A f \in FallsTo(e, j) :
              f[1] * MaxDrawdown(e)[2] <= MaxDrawdown(e)[1] * f[2]
        /\ \E j \in DOMAIN e : \E f \in FallsTo(e, j) :
              f[1] * MaxDrawdown(e)[2] = MaxDrawdown(e)[1] * f[2]
    BY <2>3, DrawdownIsDeepest
  <2>5. Equity(r.windows) = e /\ r.money.fall = MaxDrawdown(e)
    BY <1>1, <1>2 DEF e
  <2>6. QED
    BY ONLY <2>4, <2>5 DEF FallIsDeepest
<1>16. ASSUME r.approved PROVE VoidCost(ws) = 0
  <2>1. r.ladder.net = r.money.end - r.money.start
    BY <1>1, <1>16 DEF Approved
  <2>2. QED
    BY <1>2, <1>12, <1>13, <2>1
<1>17. QED
  BY <1>1, <1>11, <1>14, <1>15, <1>16

(***************************************************************************)
(* The money of a run in progress and the reports on those before it.      *)
(***************************************************************************)

BookInv == /\ \A i \in DOMAIN windows : Entered(windows[i])
           /\ ledger.bankroll = Start + PnlOf(windows)
           /\ Sequence(reports) /\ ReportsAddUp

\* One window more.
LEMMA PnlGrows ==
    ASSUME NEW ws, Sequence(ws), \A i \in DOMAIN ws : Entered(ws[i]),
           NEW w, Entered(w), NEW vs, Sequence(vs),
           DOMAIN vs = 1..(Len(ws) + 1), vs[Len(ws) + 1] = w,
           \A i \in 1..Len(ws) : vs[i] = ws[i]
    PROVE  /\ PnlOf(ws) \in Int
           /\ PnlOf(vs) = PnlOf(ws) + (IF w.traded THEN w.pnl ELSE 0)
<1> DEFINE n  == Len(ws)
           S  == 1..(n + 1)
           T  == TradedIn(ws)
           V  == TradedIn(vs)
           g  == [i \in S |-> vs[i].pnl]
           fT == [i \in T |-> ws[i].pnl]
           fV == [i \in V |-> vs[i].pnl]
<1>1. n \in Nat /\ DOMAIN ws = 1..n /\ n + 1 \in S /\ n + 1 \notin 1..n /\ 1..n \subseteq S
  BY DEF Sequence
<1>2. \A i \in S : vs[i].pnl \in Int
  <2> SUFFICES ASSUME NEW i \in S PROVE vs[i].pnl \in Int
    OBVIOUS
  <2>1. CASE i = n + 1
    BY <2>1 DEF Entered
  <2>2. CASE i # n + 1
    <3>1. i \in 1..n
      BY <1>1, <2>2
    <3>2. QED
      BY <1>1, <3>1 DEF Entered
  <2>3. QED
    BY <2>1, <2>2
<1>3. T \in SUBSET (1..n) /\ T \in SUBSET S /\ n + 1 \notin T
  BY <1>1 DEF TradedIn
<1>4. V \in SUBSET S
  BY DEF TradedIn
<1>5. w.traded => V = T \cup {n + 1}
  BY <1>1 DEF TradedIn
<1>6. ~w.traded => V = T
  BY <1>1 DEF TradedIn
<1>7. IsFiniteSet(S)
  BY <1>1, FS_Interval
<1>8. /\ DOMAIN fT = T /\ \A i \in T : fT[i] = g[i]
      /\ DOMAIN fV = V /\ \A i \in V : fV[i] = g[i]
  BY <1>3, <1>4
<1>9. Whole(g, S) /\ g[n + 1] = w.pnl
  BY <1>1, <1>2 DEF Whole
<1>10. PnlOf(ws) = SumFunction(fT) /\ PnlOf(vs) = SumFunction(fV)
  BY DEF PnlOf
<1> HIDE DEF S, T, V, g, fT, fV
<1>11. SumFunction(fT) = SumFunctionOnSet(g, T) /\ SumFunction(fT) \in Int
  <2>1. T \in SUBSET S /\ DOMAIN fT = T /\ \A i \in T : fT[i] = g[i]
    BY <1>3, <1>8
  <2>2. Whole(g, S)
    BY <1>9
  <2>3. QED
    BY ONLY <1>7, <2>1, <2>2, SumPart
<1>12. SumFunction(fV) = SumFunctionOnSet(g, V)
  BY ONLY <1>4, <1>7, <1>8, <1>9, SumPart
<1>13. CASE w.traded
  <2>1. IsFiniteSet(T) /\ Whole(g, T) /\ g[n + 1] \in Int
    BY <1>1, <1>3, <1>7, <1>9, FS_Subset DEF Whole
  <2> HIDE DEF n
  <2>2. SumFunctionOnSet(g, T \cup {n + 1}) = g[n + 1] + SumFunctionOnSet(g, T)
    BY ONLY <1>3, <2>1, SumGains
  <2>3. PnlOf(vs) = w.pnl + PnlOf(ws)
    BY <1>5, <1>9, <1>10, <1>11, <1>12, <1>13, <2>2
  <2>4. (IF w.traded THEN w.pnl ELSE 0) = w.pnl
    BY <1>13
  <2>5. w.pnl \in Int /\ PnlOf(ws) \in Int
    BY <1>9, <1>10, <1>11, <2>1
  <2>6. QED
    BY ONLY <2>3, <2>4, <2>5
<1>14. CASE ~w.traded
  BY <1>6, <1>10, <1>11, <1>12, <1>14
<1>15. QED
  BY <1>10, <1>11, <1>13, <1>14 DEF Entered

\* A market is settled for what its trade paid.
LEMMA SettledFor ==
    ASSUME cfg \in Configs, ledger \in RiskState, NEW m \in Market,
           NEW e, Evaluated(cfg, DecisionHorizon, ledger.bankroll, e),
           NEW cost, cost = Cost(e.fill),
           NEW payoff, payoff = NetPayoff(e.fill, e.side, rows[m].settled),
           NEW after, after = Settled(m, e, cost, payoff),
           NEW w, w = Result(m, e, cost, payoff, after)
    PROVE  /\ Entered(w)
           /\ after.bankroll = ledger.bankroll + (IF w.traded THEN w.pnl ELSE 0)
<1>1. /\ w.traded = (e.attempted /\ e.fill.reason = NoReason) /\ w.attempted = e.attempted
      /\ w.stake = e.stake /\ w.side = e.side /\ w.fill = e.fill /\ w.settled = rows[m].settled
      /\ w.pnl = (IF w.traded THEN payoff - cost ELSE 0) /\ w.bankroll = after.bankroll
  BY DEF Result
<1>2. /\ e.attempted \in BOOLEAN /\ e.ledger \in RiskState /\ e.ledger.bankroll = ledger.bankroll
      /\ ledger.bankroll \in Int
  BY DEF Evaluated, RiskState
<1>3. w.traded \in BOOLEAN
  BY <1>1, <1>2
<1>4. CASE ~w.traded
  <2>1. after = e.ledger /\ w.pnl = 0
    BY <1>1, <1>4 DEF Settled
  <2>2. QED
    BY <1>1, <1>2, <1>3, <1>4, <2>1 DEF Entered
<1>5. CASE w.traded
  <2>1. Sound(cfg, DecisionHorizon, ledger.bankroll, e)
    BY <1>1, <1>5 DEF Evaluated
  <2>2. /\ e.fill.notional \in Nat /\ e.fill.fee \in Nat /\ e.fill.shares \in Nat /\ e.fill.shares > 0
        /\ e.stake > 0 /\ e.side # Void
    BY <2>1 DEF Sound, Capable, Void
  <2>3. cost \in Nat
    BY <2>2 DEF Cost
  <2>4. cfg.gas \in Nat
    BY ReplayAssumption DEF ValidConfig, ValidCosts
  <2>5. Won(w) <=> rows[m].settled = e.side
    BY <1>1 DEF Won
  <2>6. rows[m].settled = Void => payoff = cost /\ ~Won(w)
    BY <2>2, <2>5 DEF NetPayoff
  <2>7. rows[m].settled # Void /\ Won(w) => payoff = e.fill.shares - cfg.gas
    BY <2>2, <2>5 DEF NetPayoff, Payoff
  <2>8. rows[m].settled # Void /\ ~Won(w) => payoff = 0
    BY <2>5 DEF NetPayoff, Payoff
  <2>9. payoff \in Int
    BY <2>2, <2>3, <2>4, <2>6, <2>7, <2>8
  <2>10. after.bankroll = (ledger.bankroll - cost) + payoff
    <3> DEFINE opened == RegisterOpen(e.ledger, cost)
    <3>1. after = RegisterClose(opened, Settle[m], cost, payoff)
      BY <1>1, <1>5 DEF Settled
    <3>2. opened \in RiskState /\ opened.bankroll = ledger.bankroll - cost
      BY <1>2, <2>3, OpenFacts
    <3>3. Settle[m] \in Time
      BY MarketsApart
    <3> HIDE DEF opened
    <3>4. ClosedTo(opened, Settle[m], cost, payoff, RegisterClose(opened, Settle[m], cost, payoff))
      BY <2>3, <2>9, <3>2, <3>3, CloseFacts
    <3>5. QED
      BY <3>1, <3>2, <3>4 DEF ClosedTo
  <2>11. w.pnl = payoff - cost
    BY <1>1, <1>5
  <2>12. /\ w.pnl \in Int /\ w.bankroll \in Int
         /\ after.bankroll = ledger.bankroll + w.pnl
    BY <1>1, <1>2, <2>3, <2>9, <2>10, <2>11
  <2>13. /\ w.settled = Void => w.pnl = 0 /\ ~Won(w)
         /\ w.settled # Void => w.pnl = (IF Won(w) THEN w.fill.shares - cfg.gas ELSE 0) - Cost(w.fill)
    BY <1>1, <2>3, <2>6, <2>7, <2>8, <2>11
  <2>14. QED
    BY <1>1, <1>3, <1>5, <2>2, <2>12, <2>13 DEF Entered
<1>6. QED
  BY <1>3, <1>4, <1>5

LEMMA MarketBooks == ReplayInv /\ BookInv /\ NextMarket => BookInv'
<1> SUFFICES ASSUME ReplayInv, BookInv, NextMarket PROVE BookInv'
  OBVIOUS
<1> DEFINE m      == Head(todo)
           e      == Evaluate(rows[m], Settle[m], ledger, seen)
           cost   == Cost(e.fill)
           payoff == NetPayoff(e.fill, e.side, rows[m].settled)
           w      == Result(m, e, cost, payoff, ledger')
           n      == Len(windows)
<1>1. /\ todo # << >> /\ UNCHANGED <<cfg, rows, reports>>
      /\ ledger' = Settled(m, e, cost, payoff) /\ windows' = Append(windows, w)
  BY DEF NextMarket, Replay, Enter
<1>2. m \in Market /\ m \in Present
  <2>1. todo \in Seq(Present) /\ todo # << >> /\ Present \in SUBSET Market
    BY <1>1 DEF ReplayInv, Ordered, Typed
  <2>2. QED
    BY <2>1
<1> HIDE DEF m
<1>3. cfg \in Configs /\ ledger \in RiskState /\ RowTyped(rows[m])
  BY <1>2, RowsTyped DEF ReplayInv, Typed
<1>4. Evaluated(cfg, DecisionHorizon, ledger.bankroll, e)
  <2>1. Sequence(seen) /\ Len(seen) <= cfg.history /\ Settle[m] \in Time /\ Settle[m] >= Window
    BY <1>2, MarketsApart DEF ReplayInv, Typed
  <2>2. QED
    BY <1>3, <2>1, EvaluateFacts
<1> HIDE DEF e
<1>5. Entered(w) /\ ledger'.bankroll = ledger.bankroll + (IF w.traded THEN w.pnl ELSE 0)
  <2> DEFINE after == ledger'
  <2>1. after = Settled(m, e, cost, payoff) /\ w = Result(m, e, cost, payoff, after)
    BY <1>1
  <2> HIDE DEF cost, payoff, w, after
  <2>2. Entered(w) /\ after.bankroll = ledger.bankroll + (IF w.traded THEN w.pnl ELSE 0)
    BY <1>2, <1>3, <1>4, <2>1, SettledFor DEF cost, payoff
  <2>3. QED
    BY <2>2 DEF after
<1> HIDE DEF w
<1>6. /\ Sequence(windows) /\ Sequence(windows') /\ n \in Nat
      /\ DOMAIN windows = 1..n /\ DOMAIN windows' = 1..(n + 1)
      /\ windows'[n + 1] = w /\ \A i \in 1..n : windows'[i] = windows[i]
  <2>1. PICK G : windows \in Seq(G)
    BY DEF ReplayInv, Typed, Sequence
  <2> DEFINE H == G \cup {w}
  <2>2. windows \in Seq(H) /\ w \in H
    BY <2>1
  <2> HIDE DEF H
  <2>3. windows' \in Seq(H)
    BY <1>1, <2>2, AppendProperties
  <2>4. QED
    BY <1>1, <2>2, <2>3 DEF Sequence
<1>7. /\ PnlOf(windows) \in Int
      /\ PnlOf(windows') = PnlOf(windows) + (IF w.traded THEN w.pnl ELSE 0)
  <2> DEFINE vs == windows'
  <2>1. /\ Sequence(vs) /\ DOMAIN vs = 1..(Len(windows) + 1) /\ vs[Len(windows) + 1] = w
        /\ \A i \in 1..Len(windows) : vs[i] = windows[i]
    BY <1>6
  <2> HIDE DEF vs
  <2>2. /\ PnlOf(windows) \in Int
        /\ PnlOf(vs) = PnlOf(windows) + (IF w.traded THEN w.pnl ELSE 0)
    BY <1>5, <1>6, <2>1, PnlGrows DEF BookInv
  <2>3. QED
    BY <2>2 DEF vs
<1>8. ledger'.bankroll = Start + PnlOf(windows')
  <2>1. ledger.bankroll = Start + PnlOf(windows) /\ Start \in Int
    BY LimitsAssumption DEF BookInv
  <2>2. w.traded \in BOOLEAN /\ w.pnl \in Int
    BY <1>5 DEF Entered
  <2>3. QED
    BY <1>5, <1>7, <2>1, <2>2
<1>9. \A i \in DOMAIN windows' : Entered(windows'[i])
  <2> SUFFICES ASSUME NEW i \in 1..(n + 1) PROVE Entered(windows'[i])
    BY <1>6
  <2>1. CASE i = n + 1
    BY <1>5, <1>6, <2>1
  <2>2. CASE i # n + 1
    BY <1>6, <2>2 DEF BookInv
  <2>3. QED
    BY <2>1, <2>2
<1>10. (\A i \in DOMAIN windows : Entered(windows[i]))'
  BY <1>1, <1>9 DEF Entered
<1>11. ReportsAddUp'
  BY <1>1 DEF BookInv, ReportsAddUp
<1>12. QED
  BY <1>1, <1>8, <1>10, <1>11 DEF BookInv, PnlOf, TradedIn, Sequence

LEMMA NothingTraded == PnlOf(<< >>) = 0
<1>1. TradedIn(<< >>) = {}
  BY DEF TradedIn
<1> DEFINE f == [i \in TradedIn(<< >>) |-> << >>[i].pnl]
<1>2. DOMAIN f = {} /\ PnlOf(<< >>) = SumFunction(f)
  BY <1>1 DEF PnlOf
<1> HIDE DEF f
<1>3. QED
  BY <1>2, SumOverDomain, SumOfNone

\* The figures of a finished run.
LEMMA RunBooks == ReplayInv /\ BookInv /\ FinishRun => BookInv'
<1> SUFFICES ASSUME ReplayInv, BookInv, FinishRun PROVE BookInv'
  OBVIOUS
<1> DEFINE r == Report(windows, Start, ledger.bankroll)
           n == Len(reports)
<1>1. /\ UNCHANGED <<cfg, rows>> /\ ledger' = FreshLedger /\ windows' = << >>
      /\ reports' = Append(reports, r)
  BY DEF FinishRun
<1>2. /\ PnlAddsUp(r) /\ LadderAddsUp(r) /\ FallIsDeepest(r)
      /\ r.approved => VoidCost(r.windows) = 0
  <2>1. /\ cfg \in Configs /\ Sequence(windows) /\ \A i \in DOMAIN windows : Entered(windows[i])
        /\ ledger.bankroll = Start + PnlOf(windows)
    BY DEF ReplayInv, Typed, BookInv
  <2>2. QED
    BY <2>1, ReportAddsUp
<1> HIDE DEF r
<1>3. /\ Sequence(reports') /\ n \in Nat
      /\ DOMAIN reports = 1..n /\ DOMAIN reports' = 1..(n + 1)
      /\ reports'[n + 1] = r /\ \A i \in 1..n : reports'[i] = reports[i]
  <2>1. PICK G : reports \in Seq(G)
    BY DEF BookInv, Sequence
  <2> DEFINE H == G \cup {r}
  <2>2. reports \in Seq(H) /\ r \in H
    BY <2>1
  <2> HIDE DEF H
  <2>3. reports' \in Seq(H)
    BY <1>1, <2>2, AppendProperties
  <2>4. QED
    BY <1>1, <2>2, <2>3 DEF Sequence
<1> DEFINE Adds(x) == /\ PnlAddsUp(x) /\ LadderAddsUp(x) /\ FallIsDeepest(x)
                      /\ x.approved => VoidCost(x.windows) = 0
<1>4. \A i \in DOMAIN reports' : Adds(reports'[i])
  <2>1. Adds(r)
    BY <1>2
  <2>2. \A i \in DOMAIN reports : Adds(reports[i])
    BY DEF BookInv, ReportsAddUp
  <2> HIDE DEF Adds
  <2> SUFFICES ASSUME NEW i \in 1..(n + 1) PROVE Adds(reports'[i])
    BY <1>3
  <2>3. CASE i = n + 1
    BY <1>3, <2>1, <2>3
  <2>4. CASE i # n + 1
    BY <1>3, <2>2, <2>4
  <2>5. QED
    BY <2>3, <2>4
<1>5. ReportsAddUp'
  BY <1>4 DEF ReportsAddUp
<1>6. ledger'.bankroll = Start + PnlOf(windows')
  BY <1>1, NothingTraded, LimitsAssumption DEF FreshLedger
<1>7. QED
  BY <1>1, <1>3, <1>5, <1>6, NoWindows DEF BookInv, PnlOf, TradedIn, Sequence

LEMMA BookStart == ReplayInit => BookInv
<1> SUFFICES ASSUME ReplayInit PROVE BookInv
  OBVIOUS
<1>1. ledger = FreshLedger /\ windows = << >> /\ reports = << >>
  BY DEF ReplayInit
<1>2. ledger.bankroll = Start + PnlOf(windows)
  BY <1>1, NothingTraded, LimitsAssumption DEF FreshLedger
<1>3. QED
  BY <1>1, <1>2, NoWindows DEF BookInv, ReportsAddUp

\* Whatever the configuration, the prices and the data set, the profits less the
\* losses of a report are what its ledger gained, the ladder of decompose() ends
\* there once the void trades are put back, its drawdown is the deepest fall of
\* the bankroll, and a run with a void trade is not approved.
THEOREM Figures == ReplaySpec => []ReportsAddUp
<1>1. BookInv /\ UNCHANGED replayVars => BookInv'
  BY DEF BookInv, replayVars, Entered, PnlOf, TradedIn, Sequence, ReportsAddUp
<1>2. ReplayInv /\ BookInv /\ [ReplayNext]_replayVars => BookInv'
  BY <1>1, MarketBooks, RunBooks DEF ReplayNext
<1>3. BookInv => ReportsAddUp
  BY DEF BookInv
<1>4. QED
  BY <1>2, <1>3, BookStart, ReplayInvariant, PTL DEF ReplaySpec

(***************************************************************************)
(* The two names of a market.                                              *)
(***************************************************************************)

LEMMA MirrorRow ==
    ASSUME NEW row, RowTyped(row), NEW r, r = Mirror(row)
    PROVE  /\ RowTyped(r)
           /\ r.prob = Unit - row.prob /\ r.quote.age = row.quote.age
           /\ r.quote.bid = Unit - row.quote.ask /\ r.quote.ask = Unit - row.quote.bid
           /\ r.quote.bidDepth = row.quote.askDepth /\ r.quote.askDepth = row.quote.bidDepth
           /\ Valid(r.quote) <=> Valid(row.quote)
           /\ Spread(r.quote) = Spread(row.quote)
           /\ Valid(row.quote) => Mid(r.quote) = Unit - Mid(row.quote)
<1> DEFINE q == row.quote
           p == r.quote
<1>1. /\ r.prob = Unit - row.prob /\ p.age = q.age /\ r.settled = Flip[row.settled]
      /\ p.bid = Unit - q.ask /\ p.ask = Unit - q.bid
      /\ p.bidDepth = q.askDepth /\ p.askDepth = q.bidDepth
  BY DEF Mirror
<1>2. q.bid \in Nat /\ q.ask \in Nat /\ q.bid <= Unit /\ q.ask <= Unit
  BY HalfIsPrice DEF RowTyped, Quoted, Prices
<1> HIDE DEF p, q
<1>3. Valid(p) <=> Valid(q)
  BY <1>1, <1>2, HalfIsPrice DEF Valid
<1>4. Spread(p) = Spread(q)
  BY <1>1, <1>2, HalfIsPrice DEF Spread
<1>5. ASSUME Valid(q) PROVE (p.bid + p.ask) % 2 = 0 /\ Mid(p) = Unit - Mid(q)
  <2>1. Mid(q) \in Nat /\ 2 * Mid(q) = q.bid + q.ask /\ Mid(q) < Unit
    BY <1>2, <1>5, MidBetween, HalfIsPrice DEF RowTyped, q
  <2>2. PICK n \in Nat : n = Unit - Mid(q)
    BY <2>1, HalfIsPrice
  <2>3. p.bid + p.ask = 2 * n
    BY <1>1, <1>2, <2>1, <2>2, HalfIsPrice
  <2>4. (2 * n) % 2 = 0 /\ (2 * n) \div 2 = n
    BY Z3
  <2>5. QED
    BY <2>2, <2>3, <2>4 DEF Mid
<1>6. Quoted(p)
  <2>1. p.bid \in Prices /\ p.ask \in Prices
    BY <1>1, <1>2, HalfIsPrice DEF Prices
  <2>2. {p.bidDepth, p.askDepth, p.age} \subseteq Nat
    BY <1>1 DEF RowTyped, Quoted, q
  <2>3. QED
    BY <1>3, <1>5, <2>1, <2>2 DEF Quoted
<1>7. r.prob \in Prices
  BY <1>1, HalfIsPrice DEF Prices, RowTyped
<1>8. r.settled \in {"UP", "DOWN", Void}
  BY <1>1 DEF Flip, RowTyped, Void
<1>9. QED
  BY <1>1, <1>3, <1>4, <1>5, <1>6, <1>7, <1>8 DEF RowTyped, p, q

\* The first refusal of two lists of gates.
LEMMA FirstOfBoth ==
    ASSUME NEW s, NEW t, Gates(s), Gates(t)
    PROVE  FirstRefusal(s \o t)
           = IF FirstRefusal(s) # NoReason THEN FirstRefusal(s) ELSE FirstRefusal(t)
<1> DEFINE u == s \o t
           stops(g) == {i \in DOMAIN g : g[i].stops}
<1>1. /\ Len(s) \in Nat /\ Len(t) \in Nat /\ DOMAIN s = 1..Len(s) /\ DOMAIN t = 1..Len(t)
      /\ DOMAIN u = 1..(Len(s) + Len(t))
      /\ \A i \in 1..(Len(s) + Len(t)) : u[i] = IF i <= Len(s) THEN s[i] ELSE t[i - Len(s)]
  BY DEF Gates
<1> HIDE DEF u
<1>2. \A g : FirstRefusal(g) = IF stops(g) = {} THEN NoReason ELSE g[Min(stops(g))].reason
  BY DEF FirstRefusal
<1>3. IsFiniteSet(1..Len(s)) /\ IsFiniteSet(1..Len(t)) /\ IsFiniteSet(1..(Len(s) + Len(t)))
  <2>1. Len(s) + Len(t) \in Nat
    BY <1>1
  <2>2. QED
    BY <1>1, <2>1, UpToSize
<1>4. /\ IsFiniteSet(stops(s)) /\ IsFiniteSet(stops(t)) /\ IsFiniteSet(stops(u))
      /\ stops(s) \in SUBSET Int /\ stops(t) \in SUBSET Int /\ stops(u) \in SUBSET Int
  <2>1. /\ stops(s) \in SUBSET (1..Len(s)) /\ stops(t) \in SUBSET (1..Len(t))
        /\ stops(u) \in SUBSET (1..(Len(s) + Len(t)))
    BY <1>1
  <2>2. IsFiniteSet(stops(s)) /\ IsFiniteSet(stops(t)) /\ IsFiniteSet(stops(u))
    BY ONLY <1>3, <2>1, FS_Subset
  <2>3. QED
    BY <1>1, <2>1, <2>2
<1>5. \A i \in 1..Len(s) : i \in stops(u) <=> i \in stops(s)
  BY <1>1
<1>6. \A i \in 1..Len(t) : i + Len(s) \in stops(u) <=> i \in stops(t)
  BY <1>1
<1>7. \A i \in stops(u) : i \in 1..Len(s) \/ i - Len(s) \in 1..Len(t)
  BY <1>1
<1>8. stops(s) \in SUBSET (1..Len(s)) /\ stops(t) \in SUBSET (1..Len(t))
  BY <1>1
<1> HIDE DEF stops
<1>9. CASE stops(s) # {}
  <2> DEFINE a == Min(stops(s))
             b == Min(stops(u))
  <2>1. a \in stops(s) /\ a \in 1..Len(s) /\ \A i \in stops(s) : a <= i
    BY <1>4, <1>8, <1>9, LeastAndGreatest
  <2>2. stops(u) # {} /\ a \in stops(u)
    BY <1>5, <2>1
  <2>3. b \in stops(u) /\ b <= a /\ b \in Int
    BY <1>4, <2>2, LeastAndGreatest
  <2> HIDE DEF a, b
  <2>4. b \in 1..Len(s)
    BY <1>1, <1>7, <2>1, <2>3
  <2>5. b = a
    BY <1>5, <2>1, <2>3, <2>4
  <2>6. FirstRefusal(u) = s[a].reason /\ FirstRefusal(s) = s[a].reason
    BY <1>1, <1>2, <1>9, <2>1, <2>2, <2>5 DEF a, b
  <2>7. s[a].reason # NoReason
    BY <1>1, <2>1 DEF Gates
  <2>8. QED
    BY <2>6, <2>7 DEF u
<1>10. CASE stops(s) = {} /\ stops(t) = {}
  <2>1. ASSUME NEW i \in stops(u) PROVE FALSE
    <3>1. i \in Int /\ (i - Len(s)) + Len(s) = i
      BY <1>1, <1>4
    <3>2. QED
      BY <1>5, <1>6, <1>7, <1>10, <3>1
  <2>2. QED
    BY <1>2, <1>10, <2>1 DEF u
<1>11. CASE stops(s) = {} /\ stops(t) # {}
  <2> DEFINE a == Min(stops(t))
             b == Min(stops(u))
  <2>1. a \in stops(t) /\ a \in 1..Len(t) /\ \A i \in stops(t) : a <= i
    BY <1>4, <1>8, <1>11, LeastAndGreatest
  <2>2. stops(u) # {} /\ a + Len(s) \in stops(u)
    BY <1>6, <2>1
  <2>3. b \in stops(u) /\ b <= a + Len(s) /\ b \in Int
    BY <1>4, <2>2, LeastAndGreatest
  <2> HIDE DEF a, b
  <2>4. b - Len(s) \in 1..Len(t)
    BY <1>5, <1>7, <1>11, <2>3
  <2>5. b - Len(s) \in stops(t)
    <3>1. (b - Len(s)) + Len(s) = b
      BY <1>1, <2>3
    <3>2. QED
      BY <1>6, <2>3, <2>4, <3>1
  <2>6. b = a + Len(s)
    BY <1>1, <2>1, <2>3, <2>5
  <2>7. u[b] = t[a]
    BY <1>1, <2>1, <2>6
  <2>8. FirstRefusal(u) = t[a].reason /\ FirstRefusal(t) = t[a].reason /\ FirstRefusal(s) = NoReason
    BY <1>2, <1>11, <2>2, <2>7 DEF a, b
  <2>9. QED
    BY <2>8 DEF u
<1>12. QED
  BY <1>9, <1>10, <1>11

\* The book of the other token quotes the same price for the other side.
LEMMA MirrorPrices ==
    ASSUME NEW c, c.slippage \in Nat, NEW row, RowTyped(row), Valid(row.quote), NEW r, r = Mirror(row)
    PROVE  \A side \in {"UP", "DOWN"} :
             /\ Touch(r.quote, Flip[side]) = Touch(row.quote, side)
             /\ MidOf(r.quote, Flip[side]) = MidOf(row.quote, side)
             /\ DepthFor(r.quote, Flip[side]) = DepthFor(row.quote, side)
             /\ EntryPrice(c, r.quote, Flip[side]) = EntryPrice(c, row.quote, side)
             /\ FillPrice(c, r.quote, Flip[side]) = FillPrice(c, row.quote, side)
<1> DEFINE q == row.quote
           p == r.quote
<1>1. /\ p.bid = Unit - q.ask /\ p.ask = Unit - q.bid
      /\ p.bidDepth = q.askDepth /\ p.askDepth = q.bidDepth
      /\ Spread(p) = Spread(q) /\ Mid(p) = Unit - Mid(q)
  BY MirrorRow
<1>2. q.bid \in Nat /\ q.ask \in Nat /\ Mid(q) \in Nat /\ Unit \in Nat
  BY MidBetween, HalfIsPrice DEF RowTyped
<1> HIDE DEF p, q
<1>3. Flip["UP"] = "DOWN" /\ Flip["DOWN"] = "UP"
  BY DEF Flip
<1> SUFFICES ASSUME NEW side \in {"UP", "DOWN"}
             PROVE  /\ Touch(p, Flip[side]) = Touch(q, side)
                    /\ MidOf(p, Flip[side]) = MidOf(q, side)
                    /\ DepthFor(p, Flip[side]) = DepthFor(q, side)
                    /\ EntryPrice(c, p, Flip[side]) = EntryPrice(c, q, side)
                    /\ FillPrice(c, p, Flip[side]) = FillPrice(c, q, side)
  BY DEF p, q
<1>4. Touch(p, Flip[side]) = Touch(q, side)
  BY <1>1, <1>2, <1>3 DEF Touch
<1>5. MidOf(p, Flip[side]) = MidOf(q, side)
  BY <1>1, <1>2, <1>3 DEF MidOf
<1>6. DepthFor(p, Flip[side]) = DepthFor(q, side)
  BY <1>1, <1>3 DEF DepthFor
<1>7. EntryPrice(c, p, Flip[side]) = EntryPrice(c, q, side)
  BY <1>4 DEF EntryPrice
<1>8. FillPrice(c, p, Flip[side]) = FillPrice(c, q, side)
  BY <1>1, <1>4, <1>5 DEF FillPrice
<1>9. QED
  BY <1>4, <1>5, <1>6, <1>7, <1>8

LEMMA MirrorGap ==
    ASSUME NEW p \in Prices, NEW m \in Prices
    PROVE  Divergence(Unit - p, Unit - m) = Divergence(p, m)
<1>1. \A x \in Prices : Logit[x] \in Int /\ Logit[Unit - x] = -Logit[x]
  BY GridAssumption
<1>2. \A x, y \in Int : AbsDiff(-x, -y) = AbsDiff(x, y)
  BY DEF AbsDiff
<1>3. QED
  BY <1>1, <1>2 DEF Divergence

\* The decision about the mirror image of a row.
LEMMA DecideMirror ==
    ASSUME NEW c, ValidConfig(c), NEW row, RowTyped(row), NEW r, r = Mirror(row), NEW h, NEW monitor,
           NEW a, a = Decide(c, ClaimOf(row, h), monitor), NEW b, b = Decide(c, ClaimOf(r, h), monitor)
    PROVE  /\ a.reason = b.reason /\ a.seen = b.seen
           /\ a.reason = NoReason =>
                /\ a.confidence = b.confidence /\ a.entry = b.entry
                /\ a.side \in {"UP", "DOWN"} /\ b.side = Flip[a.side]
<1> DEFINE ca    == ClaimOf(row, h)
           cb    == ClaimOf(r, h)
           p     == ShrinkTowardFair(c, row.prob, Absent)
           s     == ShrinkTowardFair(c, r.prob, Absent)
           m     == Mid(row.quote)
           n     == Mid(r.quote)
           act   == BlendTowardMarket(p, m, c.trust)
           tca   == BlendTowardMarket(s, n, c.trust)
           side  == IF act >= Fair THEN "UP" ELSE "DOWN"
           edis  == IF tca >= Fair THEN "UP" ELSE "DOWN"
           conf  == IF side = "UP" THEN act ELSE Unit - act
           fnoc  == IF edis = "UP" THEN tca ELSE Unit - tca
           early(x) == FirstRefusal(DataGates(c, x) \o MarketGates(c, x) \o RegimeGates(c, x))
           late(x, u, v, z, w) == FirstRefusal(ClaimGates(c, u, v, monitor) \o OpinionGates(c, x, z, w))
<1>1. /\ ca.quote = row.quote /\ ca.prob = row.prob /\ ca.cal = Absent /\ ca.left = h /\ ca.into = Window - h
      /\ ca.vol = Absent /\ ca.agree = Absent
      /\ cb.quote = r.quote /\ cb.prob = r.prob /\ cb.cal = Absent /\ cb.left = h /\ cb.into = Window - h
      /\ cb.vol = Absent /\ cb.agree = Absent
  BY DEF ClaimOf
<1>2. /\ a.reason = IF early(ca) # NoReason THEN early(ca) ELSE late(ca, p, m, side, conf)
      /\ a.side = side /\ a.confidence = conf /\ a.entry = EntryPrice(c, row.quote, side)
      /\ a.seen = IF early(ca) # NoReason THEN monitor ELSE Observe(c, monitor, Divergence(p, m))
  BY <1>1 DEF Decide
<1>3. /\ b.reason = IF early(cb) # NoReason THEN early(cb) ELSE late(cb, s, n, edis, fnoc)
      /\ b.side = edis /\ b.confidence = fnoc /\ b.entry = EntryPrice(c, r.quote, edis)
      /\ b.seen = IF early(cb) # NoReason THEN monitor ELSE Observe(c, monitor, Divergence(s, n))
  BY <1>1 DEF Decide
<1> HIDE DEF ca, cb, p, s, m, n, act, tca
<1>4. /\ r.prob = Unit - row.prob /\ r.quote.age = row.quote.age /\ Valid(r.quote) = Valid(row.quote)
      /\ Spread(r.quote) = Spread(row.quote)
  BY MirrorRow DEF Valid
<1>5. early(ca) = early(cb)
  <2>1. DataGates(c, ca) = DataGates(c, cb)
    BY <1>1, <1>4 DEF DataGates, Gate
  <2>2. MarketGates(c, ca) = MarketGates(c, cb)
    BY <1>1, <1>4 DEF MarketGates, Gate
  <2>3. RegimeGates(c, ca) = RegimeGates(c, cb)
    BY <1>1 DEF RegimeGates, Gate
  <2>4. QED
    BY <2>1, <2>2, <2>3
<1>6. CASE early(ca) # NoReason
  BY <1>2, <1>3, <1>5, <1>6
<1>7. CASE early(ca) = NoReason
  <2>1. Valid(row.quote)
    <3>1. /\ Gates(DataGates(c, ca)) /\ Gates(MarketGates(c, ca)) /\ Gates(RegimeGates(c, ca))
      BY GateLists
    <3>2. FirstRefusal(DataGates(c, ca)) = NoReason
      BY <1>7, <3>1, PassedBoth, FirstOfBoth
    <3>3. NoneStops(DataGates(c, ca))
      BY <3>1, <3>2, Passed
    <3>4. 1 \in DOMAIN DataGates(c, ca) /\ DataGates(c, ca)[1].stops = ~Valid(row.quote)
      BY <1>1 DEF DataGates, Gate
    <3>5. QED
      BY <3>3, <3>4 DEF NoneStops
  <2>2. /\ ValidPrediction(c) /\ c.trust \in 0..100 /\ c.slippage \in Nat
        /\ row.prob \in Prices /\ Quoted(row.quote)
    BY DEF ValidConfig, ValidPrediction, ValidCosts, RowTyped
  <2>3. p \in Prices /\ s = Unit - p
    BY <1>4, <2>2, Shrunk DEF p, s
  <2>4. m \in Prices /\ n = Unit - m
    <3>1. m \in 1..(Unit - 1)
      BY <2>1, <2>2, MidBetween DEF m
    <3>2. QED
      BY <2>1, <3>1, MirrorRow, HalfIsPrice DEF m, n, Prices
  <2>5. act \in Prices /\ tca = Unit - act
    BY <2>2, <2>3, <2>4, BlendFacts DEF act, tca
  <2>6. Divergence(s, n) = Divergence(p, m)
    BY <2>3, <2>4, MirrorGap
  <2>7. ClaimGates(c, s, n, monitor) = ClaimGates(c, p, m, monitor)
    <3>1. c.minPlausible \in Int /\ p \in Int /\ Unit \in Int
      BY <2>2, <2>3, PricesFinite, HalfIsPrice DEF ValidPrediction
    <3>2. (s < c.minPlausible \/ s > Unit - c.minPlausible)
          = (p < c.minPlausible \/ p > Unit - c.minPlausible)
      BY <2>3, <3>1
    <3>3. QED
      BY <2>6, <3>2 DEF ClaimGates
  <2>8. CASE act # Fair
    <3>1. edis = Flip[side] /\ fnoc = conf /\ side \in {"UP", "DOWN"}
      BY <2>5, <2>8, HalfIsPrice DEF Flip, Prices
    <3> HIDE DEF side, edis, conf, fnoc
    <3>2. /\ EntryPrice(c, r.quote, edis) = EntryPrice(c, row.quote, side)
          /\ DepthFor(r.quote, edis) = DepthFor(row.quote, side)
      BY <2>1, <2>2, <3>1, MirrorPrices
    <3>3. OpinionGates(c, ca, side, conf) = OpinionGates(c, cb, edis, fnoc)
      BY <1>1, <3>1, <3>2 DEF OpinionGates
    <3>4. QED
      BY <1>2, <1>3, <1>5, <1>7, <2>6, <2>7, <3>1, <3>2, <3>3
  <2>9. CASE act = Fair
    <3>1. conf = Fair /\ fnoc = Fair
      BY <2>5, <2>9, HalfIsPrice
    <3> HIDE DEF side, edis, conf, fnoc
    <3>2. Fair < c.minConfidence
      BY <2>2, HalfIsPrice DEF ValidPrediction
    <3>3. \A x, z : FirstRefusal(OpinionGates(c, x, z, Fair)) = "low_confidence"
      <4> SUFFICES ASSUME NEW x, NEW z
                   PROVE  FirstRefusal(OpinionGates(c, x, z, Fair)) = "low_confidence"
        OBVIOUS
      <4> DEFINE g == OpinionGates(c, x, z, Fair)
                 stops == {i \in DOMAIN g : g[i].stops}
      <4>1. g[1].stops /\ g[1].reason = "low_confidence" /\ DOMAIN g = 1..5
        <5>1. g[1] = Gate("low_confidence", Fair < c.minConfidence) /\ DOMAIN g = 1..5
          BY DEF OpinionGates
        <5>2. PICK front : front = g[1]
          OBVIOUS
        <5> HIDE DEF g
        <5>3. front.reason = "low_confidence" /\ front.stops = (Fair < c.minConfidence)
          BY <5>1, <5>2 DEF Gate
        <5>4. QED
          BY <3>2, <5>1, <5>2, <5>3
      <4> HIDE DEF g
      <4>2. 1 \in stops /\ \A i \in stops : 1 <= i
        BY <4>1
      <4>3. Min(stops) = 1
        <5>1. stops \in SUBSET Int
          BY <4>1
        <5>2. QED
          BY <4>2, <5>1 DEF Min
      <4>4. FirstRefusal(g) = g[Min(stops)].reason
        BY <4>2 DEF FirstRefusal
      <4>5. QED
        BY <4>1, <4>3, <4>4 DEF g
    <3>4. /\ Gates(ClaimGates(c, p, m, monitor))
          /\ Gates(OpinionGates(c, ca, side, conf)) /\ Gates(OpinionGates(c, cb, edis, fnoc))
      BY GateLists
    <3>5. late(ca, p, m, side, conf) = late(cb, s, n, edis, fnoc) /\ late(ca, p, m, side, conf) # NoReason
      <4>1. \A x, y : Gates(x) /\ Gates(y) =>
              FirstRefusal(x \o y) = IF FirstRefusal(x) # NoReason THEN FirstRefusal(x) ELSE FirstRefusal(y)
        BY FirstOfBoth
      <4>2. QED
        BY <2>7, <3>1, <3>3, <3>4, <4>1 DEF NoReason
    <3>6. QED
      BY <1>2, <1>3, <1>5, <1>7, <2>6, <3>5
  <2>10. QED
    BY <2>8, <2>9
<1>8. QED
  BY <1>6, <1>7

\* The evaluation of it.
LEMMA EvaluateMirror ==
    ASSUME cfg \in Configs, NEW row, RowTyped(row), NEW settles, NEW own, NEW monitor
    PROVE  Mirrored(Evaluate(row, settles, own, monitor), Evaluate(Mirror(row), settles, own, monitor))
<1> DEFINE h == DecisionHorizon
           r == Mirror(row)
           a == Decide(cfg, ClaimOf(row, h), monitor)
           b == Decide(cfg, ClaimOf(r, h), monitor)
           x == Size(cfg, own.bankroll, a.confidence, a.entry, Absent)
           y == Size(cfg, own.bankroll, b.confidence, b.entry, Absent)
           k == settles - h
           e == Evaluate(row, settles, own, monitor)
           f == Evaluate(r, settles, own, monitor)
<1>1. ValidConfig(cfg) /\ cfg.slippage \in Nat
  BY ReplayAssumption DEF ValidConfig, ValidCosts
<1>2. e = Attempt(row, k, own, a, x) /\ f = Attempt(r, k, own, b, y)
  BY DEF Evaluate, ClaimOf
<1>3. /\ a.reason = b.reason /\ a.seen = b.seen
      /\ a.reason = NoReason =>
           /\ a.confidence = b.confidence /\ a.entry = b.entry
           /\ a.side \in {"UP", "DOWN"} /\ b.side = Flip[a.side]
  BY <1>1, DecideMirror
<1>4. a.reason = NoReason => Valid(row.quote)
  BY <1>1, DecideFacts
<1> HIDE DEF e, f, a, b, h, k, r
<1>5. CASE a.reason # NoReason
  <2>1. /\ e.reason = a.reason /\ e.stake = 0 /\ e.attempted = FALSE /\ e.fill = NoFill(NoReason)
        /\ e.seen = a.seen
    BY <1>2, <1>5 DEF Attempt
  <2>2. /\ f.reason = b.reason /\ f.stake = 0 /\ f.attempted = FALSE /\ f.fill = NoFill(NoReason)
        /\ f.seen = b.seen
    BY <1>2, <1>3, <1>5 DEF Attempt
  <2>3. <<e.reason, e.stake, e.attempted, e.fill, e.seen>>
        = <<f.reason, f.stake, f.attempted, f.fill, f.seen>>
    BY <1>3, <2>1, <2>2
  <2>4. ~(e.stake > 0)
    BY <2>1
  <2>5. Mirrored(e, f)
    BY <2>3, <2>4 DEF Mirrored
  <2>6. QED
    BY <2>5 DEF e, f, r
<1>6. CASE a.reason = NoReason
  <2>1. x = y /\ Valid(row.quote) /\ a.side \in {"UP", "DOWN"} /\ b.side = Flip[a.side]
    BY <1>3, <1>4, <1>6
  <2> HIDE DEF x, y
  <2>2. Fill(cfg, row.quote, a.side, x.usdc) = Fill(cfg, r.quote, b.side, y.usdc)
    <3>1. /\ FillPrice(cfg, r.quote, b.side) = FillPrice(cfg, row.quote, a.side)
          /\ DepthFor(r.quote, b.side) = DepthFor(row.quote, a.side)
      BY <1>1, <2>1, MirrorPrices DEF r
    <3>2. Valid(r.quote)
      BY <2>1, MirrorRow DEF r
    <3>3. QED
      BY <2>1, <3>1, <3>2 DEF Fill
  <2>3. /\ e.reason = f.reason /\ e.stake = f.stake /\ e.attempted = f.attempted /\ e.fill = f.fill
        /\ e.seen = a.seen /\ f.seen = b.seen /\ e.side = a.side /\ f.side = b.side
    BY <1>2, <1>3, <1>6, <2>1, <2>2 DEF Attempt
  <2>4. QED
    BY <1>3, <2>1, <2>3 DEF Mirrored, e, f, r
<1>7. QED
  BY <1>5, <1>6

\* UP and DOWN are two names of one market.
THEOREM Symmetry == ReplaySpec => []MirrorImage
<1>1. ReplayInv => MirrorImage
  <2> SUFFICES ASSUME ReplayInv, todo # << >>
               PROVE  Mirrored(Evaluate(rows[Head(todo)], Settle[Head(todo)], ledger, seen),
                               Evaluate(Mirror(rows[Head(todo)]), Settle[Head(todo)], ledger, seen))
    BY DEF MirrorImage
  <2>1. Head(todo) \in Present
    BY DEF ReplayInv, Ordered
  <2>2. cfg \in Configs /\ RowTyped(rows[Head(todo)])
    BY <2>1, RowsTyped DEF ReplayInv, Typed
  <2>3. QED
    BY <2>2, EvaluateMirror
<1>2. QED
  BY <1>1, ReplayInvariant, PTL

=============================================================================
