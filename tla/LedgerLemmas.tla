---------------------------- MODULE LedgerLemmas ----------------------------
(***************************************************************************)
(* What the proofs about money need of its operators: how the count and    *)
(* the total of a set of positions change when one is gained, lost, opened *)
(* or closed, and what the methods of the ledger do to its fields.         *)
(***************************************************************************)
EXTENDS RiskRules, Holdings, FiniteSetTheorems, TLAPS

\* The numbers up to n are n in number.
LEMMA UpToSize ==
    ASSUME NEW n \in Nat
    PROVE  IsFiniteSet(1..n) /\ Cardinality(1..n) = n
<1>1. 1 \in Int /\ n \in Int
  OBVIOUS
<1>2. IsFiniteSet(1..n) /\ Cardinality(1..n) = IF 1 > n THEN 0 ELSE n - 1 + 1
  BY <1>1, FS_Interval
<1>3. QED
  BY <1>2

\* The units at stake are finitely many, so their number is a natural number.
LEMMA StakedFinite ==
    ASSUME NEW P, IsFiniteSet(P), NEW cap \in Nat, NEW f \in [P -> 0..cap]
    PROVE  /\ IsFiniteSet(Staked(f, cap)) /\ StakedTotal(f, cap) \in Nat
           /\ IsFiniteSet(Held(f)) /\ HeldCount(f) \in Nat
<1>1. IsFiniteSet(1..cap)
  BY UpToSize
<1>2. IsFiniteSet(P \X (1..cap))
  BY <1>1, FS_Product
<1>3. Staked(f, cap) \subseteq P \X (1..cap) /\ Held(f) \subseteq P
  BY DEF Staked, Held
<1>4. IsFiniteSet(Staked(f, cap)) /\ IsFiniteSet(Held(f))
  BY <1>2, <1>3, FS_Subset
<1>5. QED
  BY <1>4, FS_CardinalityType DEF StakedTotal, HeldCount

\* With nothing open, nothing is at stake.
LEMMA StakedNone ==
    ASSUME NEW P, NEW cap \in Nat, NEW f, f = [p \in P |-> 0]
    PROVE  StakedTotal(f, cap) = 0 /\ HeldCount(f) = 0
<1>1. Staked(f, cap) = {} /\ Held(f) = {}
  BY DEF Staked, Held
<1>2. QED
  BY <1>1, FS_EmptySet DEF StakedTotal, HeldCount

\* Opening a position adds exactly its cost to the total and one to the count.
LEMMA StakedPlace ==
    ASSUME NEW P, IsFiniteSet(P), NEW cap \in Nat,
           NEW f \in [P -> 0..cap], NEW g \in [P -> 0..cap],
           NEW p \in P, f[p] = 0, g[p] > 0, \A q \in P : q # p => g[q] = f[q]
    PROVE  /\ StakedTotal(g, cap) = StakedTotal(f, cap) + g[p]
           /\ HeldCount(g) = HeldCount(f) + 1
<1> DEFINE cost == g[p]
           own == {p} \X (1..cost)
<1>0. cost \in 1..cap /\ DOMAIN g = P /\ DOMAIN f = P
  OBVIOUS
<1>1. Staked(g, cap) = Staked(f, cap) \cup own
  <2>1. ASSUME NEW unit \in P \X (1..cap)
        PROVE  unit \in Staked(g, cap) <=> unit \in Staked(f, cap) \cup own
    <3>1. CASE unit[1] = p
      BY <3>1 DEF Staked
    <3>2. CASE unit[1] # p
      BY <3>2 DEF Staked
    <3>3. QED
      BY <3>1, <3>2
  <2>2. /\ Staked(g, cap) \subseteq P \X (1..cap)
        /\ Staked(f, cap) \subseteq P \X (1..cap)
    BY DEF Staked
  <2>3. own \subseteq P \X (1..cap)
    OBVIOUS
  <2> HIDE DEF own
  <2>4. QED
    BY <2>1, <2>2, <2>3
<1>2. Staked(f, cap) \cap own = {}
  BY DEF Staked
<1>3. IsFiniteSet(own) /\ Cardinality(own) = cost
  <2>1. IsFiniteSet(1..cost) /\ Cardinality(1..cost) = cost
    BY UpToSize
  <2>2. IsFiniteSet({p}) /\ Cardinality({p}) = 1
    BY FS_Singleton
  <2>3. cost \in Nat
    OBVIOUS
  <2> HIDE DEF cost
  <2>4. IsFiniteSet(own) /\ Cardinality(own) = Cardinality({p}) * Cardinality(1..cost)
    BY <2>1, <2>2, FS_Product
  <2>5. QED
    BY <2>1, <2>2, <2>3, <2>4
<1>4. Cardinality(Staked(g, cap)) = Cardinality(Staked(f, cap)) + cost
  <2>1. IsFiniteSet(Staked(f, cap)) /\ Cardinality(Staked(f, cap)) \in Nat
    BY StakedFinite DEF StakedTotal
  <2> HIDE DEF own
  <2>2. Cardinality(Staked(f, cap) \cup own)
        = Cardinality(Staked(f, cap)) + Cardinality(own) - Cardinality({})
    BY <1>2, <1>3, <2>1, FS_Union
  <2>3. QED
    BY <1>1, <1>3, <2>1, <2>2, FS_EmptySet
<1>5. Held(g) = Held(f) \cup {p} /\ p \notin Held(f)
  BY DEF Held
<1>6. Cardinality(Held(g)) = Cardinality(Held(f)) + 1
  <2>1. IsFiniteSet(Held(f))
    BY StakedFinite
  <2>2. Cardinality(Held(f) \cup {p}) = Cardinality(Held(f)) + 1
    BY ONLY <1>5, <2>1, FS_AddElement
  <2>3. QED
    BY ONLY <1>5, <2>2
<1>7. QED
  BY <1>4, <1>6 DEF StakedTotal, HeldCount

\* Closing a position takes exactly its cost off the total, one off the count.
LEMMA StakedSettle ==
    ASSUME NEW P, IsFiniteSet(P), NEW cap \in Nat,
           NEW f \in [P -> 0..cap], NEW g \in [P -> 0..cap],
           NEW p \in P, f[p] > 0, g[p] = 0, \A q \in P : q # p => g[q] = f[q]
    PROVE  /\ StakedTotal(g, cap) = StakedTotal(f, cap) - f[p]
           /\ HeldCount(g) = HeldCount(f) - 1
           /\ f[p] <= StakedTotal(f, cap)
           /\ 1 <= HeldCount(f)
<1>1. /\ StakedTotal(f, cap) = StakedTotal(g, cap) + f[p]
      /\ HeldCount(f) = HeldCount(g) + 1
  BY StakedPlace
<1>2. StakedTotal(g, cap) \in Nat /\ HeldCount(g) \in Nat
  BY StakedFinite
<1>3. f[p] \in Nat
  OBVIOUS
<1>4. QED
  BY <1>1, <1>2, <1>3

\* A further position adds what it cost to the total, and nothing if that is 0.
LEMMA StakedGain ==
    ASSUME NEW P, IsFiniteSet(P), NEW cap \in Nat, NEW p, p \notin P,
           NEW f \in [P -> 0..cap], NEW g \in [P \cup {p} -> 0..cap],
           \A q \in P : g[q] = f[q]
    PROVE  StakedTotal(g, cap) = StakedTotal(f, cap) + g[p]
<1> DEFINE Q    == P \cup {p}
           zero == [q \in Q |-> IF q = p THEN 0 ELSE f[q]]
<1>1. IsFiniteSet(Q)
  BY FS_AddElement
<1>2. /\ zero \in [Q -> 0..cap] /\ g \in [Q -> 0..cap] /\ p \in Q /\ zero[p] = 0
      /\ \A q \in Q : q # p => g[q] = zero[q]
  OBVIOUS
<1>3. Staked(zero, cap) = Staked(f, cap)
  <2>1. /\ Staked(zero, cap) \subseteq Q \X (1..cap) /\ Staked(f, cap) \subseteq Q \X (1..cap)
    BY DEF Staked
  <2>2. ASSUME NEW q \in Q, NEW n \in 1..cap
        PROVE  <<q, n>> \in Staked(zero, cap) <=> <<q, n>> \in Staked(f, cap)
    BY DEF Staked
  <2> HIDE DEF Q, zero
  <2>3. QED
    BY <2>1, <2>2
<1> HIDE DEF Q, zero
<1>4. CASE g[p] = 0
  <2>1. \A q \in Q : g[q] = zero[q]
    BY <1>2, <1>4
  <2>2. g = zero
    BY <1>2, <2>1
  <2>3. StakedTotal(g, cap) = StakedTotal(f, cap) /\ StakedTotal(f, cap) \in Nat
    BY <1>3, <2>2, StakedFinite DEF StakedTotal
  <2>4. QED
    BY <1>4, <2>3
<1>5. CASE g[p] # 0
  <2>1. g[p] > 0
    BY <1>2, <1>5
  <2>2. StakedTotal(g, cap) = StakedTotal(zero, cap) + g[p]
    BY <1>1, <1>2, <2>1, StakedPlace
  <2>3. QED
    BY <1>3, <2>2 DEF StakedTotal
<1>6. QED
  BY <1>4, <1>5

\* A position that goes takes what it cost off the total.
LEMMA StakedLoss ==
    ASSUME NEW P, IsFiniteSet(P), NEW cap \in Nat, NEW p \in P,
           NEW f \in [P -> 0..cap], NEW g \in [P \ {p} -> 0..cap],
           \A q \in P \ {p} : g[q] = f[q]
    PROVE  StakedTotal(g, cap) = StakedTotal(f, cap) - f[p] /\ f[p] <= StakedTotal(f, cap)
<1> DEFINE Q == P \ {p}
<1>1. IsFiniteSet(Q) /\ p \notin Q /\ P = Q \cup {p}
  BY FS_RemoveElement
<1>2. g \in [Q -> 0..cap] /\ f \in [Q \cup {p} -> 0..cap] /\ \A q \in Q : f[q] = g[q]
  BY <1>1
<1> HIDE DEF Q
<1>3. StakedTotal(f, cap) = StakedTotal(g, cap) + f[p]
  BY <1>1, <1>2, StakedGain
<1>4. StakedTotal(g, cap) \in Nat
  BY <1>1, <1>2, StakedFinite
<1>5. f[p] \in Nat
  OBVIOUS
<1>6. QED
  BY <1>3, <1>4, <1>5

\* The total is at most the cap for every position counted.
LEMMA StakedBound ==
    ASSUME NEW P, IsFiniteSet(P), NEW cap \in Nat, NEW f \in [P -> 0..cap]
    PROVE  StakedTotal(f, cap) <= HeldCount(f) * cap
<1> DEFINE box == Held(f) \X (1..cap)
<1>1. IsFiniteSet(Held(f)) /\ HeldCount(f) \in Nat
  BY StakedFinite
<1>2. IsFiniteSet(1..cap) /\ Cardinality(1..cap) = cap
  BY UpToSize
<1>3. IsFiniteSet(box) /\ Cardinality(box) = HeldCount(f) * cap
  BY <1>1, <1>2, FS_Product DEF HeldCount
<1>4. Staked(f, cap) \subseteq box
  BY DEF Staked, Held
<1>5. Cardinality(Staked(f, cap)) <= Cardinality(box)
  <2> HIDE DEF box
  <2> QED
    BY <1>3, <1>4, FS_Subset
<1>6. QED
  BY <1>3, <1>5 DEF StakedTotal

-----------------------------------------------------------------------------
\* The most a position can cost is a positive number.
LEMMA MaxCostType == MaxCost \in Nat \ {0}
BY LimitsAssumption DEF MaxCost

(***************************************************************************)
(* What the methods of the ledger do to the fields the proofs read.        *)
(***************************************************************************)

\* The ledger a process starts with.
LEMMA FreshTyped == FreshLedger \in RiskState
<1>1. NewPeriod(NoPeriod, Start) \in Period
  BY LimitsAssumption DEF NewPeriod, NoPeriod, Period
<1>2. QED
  BY <1>1, LimitsAssumption DEF FreshLedger, RiskState

\* Rolling the periods moves no money and forgets no position; on the same
\* day it keeps the day's P&L and a halt, on another it starts the P&L afresh.
LEMMA RollFacts ==
    ASSUME NEW s \in RiskState, NEW t \in Time, NEW r, r = RollPeriods(s, t)
    PROVE  /\ r \in RiskState
           /\ r.bankroll = s.bankroll
           /\ r.exposure = s.exposure
           /\ r.positions = s.positions
           /\ r.losses = s.losses
           /\ r.day.key = DayOf[t]
           /\ DayOf[t] = s.day.key => r.day.pnl = s.day.pnl /\ r.halted = s.halted
           /\ DayOf[t] # s.day.key => r.day.pnl = 0
<1> DEFINE d == RollDay(s, t)
<1>1. DayOf[t] \in Int /\ WeekOf[t] \in Int /\ s.bankroll \in Int
  BY CalendarAssumption DEF RiskState
<1>2. /\ NewPeriod(DayOf[t], s.bankroll) \in Period
      /\ NewPeriod(WeekOf[t], s.bankroll) \in Period
  BY <1>1 DEF NewPeriod, Period
<1>3. /\ d \in RiskState
      /\ d.bankroll = s.bankroll
      /\ d.exposure = s.exposure
      /\ d.positions = s.positions
      /\ d.losses = s.losses
      /\ d.day.key = DayOf[t]
      /\ DayOf[t] = s.day.key => d.day.pnl = s.day.pnl /\ d.halted = s.halted
      /\ DayOf[t] # s.day.key => d.day.pnl = 0
  <2>1. CASE DayOf[t] = s.day.key
    BY <2>1 DEF RollDay
  <2>2. CASE DayOf[t] # s.day.key
    <3>1. d = [s EXCEPT !.day = NewPeriod(DayOf[t], s.bankroll), !.halted = FALSE]
      BY <2>2 DEF RollDay
    <3>2. d \in RiskState
      BY <1>2, <3>1 DEF RiskState
    <3>3. d.day = NewPeriod(DayOf[t], s.bankroll)
      BY <3>1 DEF RiskState
    <3>4. d.day.key = DayOf[t] /\ d.day.pnl = 0
      BY <3>3 DEF NewPeriod
    <3>5. QED
      BY <2>2, <3>1, <3>2, <3>4 DEF RiskState
  <2>3. QED
    BY <2>1, <2>2
<1> HIDE DEF d
<1>4. /\ RollWeek(d, t) \in RiskState
      /\ RollWeek(d, t).bankroll = d.bankroll
      /\ RollWeek(d, t).exposure = d.exposure
      /\ RollWeek(d, t).positions = d.positions
      /\ RollWeek(d, t).losses = d.losses
      /\ RollWeek(d, t).day = d.day
      /\ RollWeek(d, t).halted = d.halted
  <2>1. NewPeriod(WeekOf[t], d.bankroll) \in Period
    BY <1>2, <1>3
  <2>2. QED
    BY <1>3, <2>1 DEF RiskState, RollWeek
<1>5. r = RollWeek(d, t)
  BY DEF RollPeriods, d
<1>6. QED
  BY <1>3, <1>4, <1>5

\* register_open takes the cost out of the bankroll and counts the position.
LEMMA OpenFacts ==
    ASSUME NEW s \in RiskState, NEW cost \in Nat, NEW r, r = RegisterOpen(s, cost)
    PROVE  /\ r \in RiskState
           /\ r.bankroll = s.bankroll - cost
           /\ r.exposure = s.exposure + cost
           /\ r.positions = s.positions + 1
           /\ r.losses = s.losses
           /\ r.day = s.day
           /\ r.halted = s.halted
<1>1. /\ s.bankroll - cost \in Int
      /\ s.exposure + cost \in Nat
      /\ s.positions + 1 \in Nat
  BY DEF RiskState
<1>2. r = [s EXCEPT !.bankroll = s.bankroll - cost,
                    !.exposure = s.exposure + cost,
                    !.positions = s.positions + 1]
  BY DEF RegisterOpen
<1>3. r \in RiskState
  BY <1>1, <1>2 DEF RiskState
<1>4. QED
  BY <1>2, <1>3 DEF RiskState

\* register_close books the P&L on the day of the close, whatever day the
\* ledger was last used on, and leaves no streak at its limit.
ClosedTo(s, t, cost, payoff, r) ==
    /\ r \in RiskState
    /\ r.bankroll = s.bankroll + payoff
    /\ r.exposure = AtLeastZero(s.exposure - cost)
    /\ r.positions = AtLeastZero(s.positions - 1)
    /\ s.losses < MaxLosses => r.losses < MaxLosses
    /\ r.day.key = DayOf[t]
    /\ DayOf[t] = s.day.key => r.day.pnl = s.day.pnl + payoff - cost
    /\ DayOf[t] = s.day.key /\ s.halted = TRUE => r.halted = TRUE
    /\ DayOf[t] # s.day.key => r.day.pnl = payoff - cost

\* ClosedTo is what register_close does.
LEMMA CloseFacts ==
    ASSUME NEW s \in RiskState, NEW t \in Time, NEW cost \in Nat, NEW payoff \in Int
    PROVE  ClosedTo(s, t, cost, payoff, RegisterClose(s, t, cost, payoff))
<1> DEFINE r == RegisterClose(s, t, cost, payoff)
<1> DEFINE rolled  == RollPeriods(s, t)
           booking == BookPnl(rolled, cost, payoff)
           counted == CountStreak(booking, t, payoff - cost)
<1>1. /\ rolled \in RiskState
      /\ rolled.bankroll = s.bankroll
      /\ rolled.exposure = s.exposure
      /\ rolled.positions = s.positions
      /\ rolled.losses = s.losses
      /\ rolled.day.key = DayOf[t]
      /\ DayOf[t] = s.day.key =>
           rolled.day.pnl = s.day.pnl /\ rolled.halted = s.halted
      /\ DayOf[t] # s.day.key => rolled.day.pnl = 0
  BY RollFacts
<1> HIDE DEF rolled
<1>2. /\ booking \in RiskState
      /\ booking.bankroll = rolled.bankroll + payoff
      /\ booking.exposure = AtLeastZero(rolled.exposure - cost)
      /\ booking.positions = AtLeastZero(rolled.positions - 1)
      /\ booking.losses = rolled.losses
      /\ booking.day.key = rolled.day.key
      /\ booking.day.pnl = rolled.day.pnl + payoff - cost
      /\ booking.halted = rolled.halted
  <2> DEFINE day  == [rolled.day EXCEPT !.pnl = @ + payoff - cost]
             week == [rolled.week EXCEPT !.pnl = @ + payoff - cost]
  <2>1. /\ rolled.bankroll + payoff \in Int
        /\ AtLeastZero(rolled.exposure - cost) \in Nat
        /\ AtLeastZero(rolled.positions - 1) \in Nat
        /\ rolled.trades + 1 \in Nat
    BY <1>1 DEF RiskState, AtLeastZero
  <2>2. /\ day \in Period /\ day.key = rolled.day.key
        /\ day.pnl = rolled.day.pnl + payoff - cost
        /\ week \in Period
    BY <1>1 DEF RiskState, Period
  <2>3. booking = [rolled EXCEPT !.bankroll = rolled.bankroll + payoff,
                                 !.exposure = AtLeastZero(rolled.exposure - cost),
                                 !.positions = AtLeastZero(rolled.positions - 1),
                                 !.day = day, !.week = week,
                                 !.trades = rolled.trades + 1]
    BY <1>1 DEF BookPnl, RiskState
  <2> HIDE DEF booking, day, week
  <2>4. booking \in RiskState
    BY <1>1, <2>1, <2>2, <2>3 DEF RiskState
  <2>5. QED
    BY <1>1, <2>2, <2>3, <2>4 DEF RiskState
<1> HIDE DEF booking
<1>3. /\ counted \in RiskState
      /\ counted.bankroll = booking.bankroll
      /\ counted.exposure = booking.exposure
      /\ counted.positions = booking.positions
      /\ booking.losses < MaxLosses => counted.losses < MaxLosses
      /\ counted.day = booking.day
      /\ counted.halted = booking.halted
  <2> DEFINE pnl   == payoff - cost
             until == t + Cooldown
  <2>1. until \in Nat /\ MaxLosses \in Nat \ {0} /\ pnl \in Int
    BY LimitsAssumption, CalendarAssumption DEF Time
  <2>2. counted = CountStreak(booking, t, pnl)
    OBVIOUS
  <2> HIDE DEF counted, pnl, until
  <2>3. CASE pnl > 0
    <3>1. counted = [booking EXCEPT !.losses = 0]
      BY <2>2, <2>3 DEF CountStreak
    <3>2. QED
      BY <1>2, <2>1, <3>1 DEF RiskState
  <2>4. CASE ~(pnl > 0) /\ booking.losses + 1 < MaxLosses
    <3>1. counted = [booking EXCEPT !.losses = booking.losses + 1]
      BY <2>2, <2>4 DEF CountStreak
    <3>2. QED
      BY <1>2, <2>1, <2>4, <3>1 DEF RiskState
  <2>5. CASE ~(pnl > 0) /\ ~(booking.losses + 1 < MaxLosses)
    <3>1. counted = [booking EXCEPT !.losses = 0, !.cooldownUntil = until]
      BY <2>2, <2>5 DEF CountStreak, until
    <3>2. counted \in RiskState
      BY <1>2, <2>1, <3>1 DEF RiskState
    <3>3. counted.losses < MaxLosses
      BY <1>2, <2>1, <3>1 DEF RiskState
    <3>4. QED
      BY <1>2, <3>1, <3>2, <3>3 DEF RiskState
  <2>6. QED
    BY <2>3, <2>4, <2>5
<1> HIDE DEF counted
<1>4. r = HaltIfBreached(counted)
  BY DEF RegisterClose, rolled, booking, counted
<1> HIDE DEF r
<1>5. /\ r \in RiskState
      /\ r.bankroll = counted.bankroll
      /\ r.exposure = counted.exposure
      /\ r.positions = counted.positions
      /\ r.losses = counted.losses
      /\ r.day = counted.day
      /\ counted.halted = TRUE => r.halted = TRUE
  BY <1>3, <1>4 DEF RiskState, HaltIfBreached
<1>6. ClosedTo(s, t, cost, payoff, r)
  BY <1>1, <1>2, <1>3, <1>5 DEF RiskState, Period, ClosedTo
<1>7. QED
  BY <1>6 DEF r

=============================================================================
