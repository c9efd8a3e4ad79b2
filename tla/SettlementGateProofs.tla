------------------------ MODULE SettlementGateProofs ------------------------
(***************************************************************************)
(* The two histories of SettlementGate are sound for any number of         *)
(* markets, ways to settle, scans, kills and refused appends: IInv adds to *)
(* HistoriesAreSound that every market written of has a last line, which is*)
(* where a restart looks.                                                  *)
(***************************************************************************)
EXTENDS SettlementGate, SequenceTheorems, TLAPS

SpecLine == [market : Market, hash : Hash]
LifeLine == [market : Market, state : State \ {"UNSEEN"}]

\* i is the last of the lines of m.
IsLast(i, f, m) == /\ i \in LinesOf(f, m)
                   /\ \A j \in LinesOf(f, m) : j <= i

Ended(f) == \A m \in Market : LinesOf(f, m) # {} => \E i \in LinesOf(f, m) : IsLast(i, f, m)

LEMMA LastIsMax ==
    ASSUME NEW R, NEW f \in Seq(R), NEW m, NEW i, IsLast(i, f, m)
    PROVE  LinesOf(f, m) # {} /\ Max(LinesOf(f, m)) = i /\ LastLine(f, m) = f[i]
<1>1. LinesOf(f, m) \subseteq Nat
  BY DEF LinesOf
<1>2. i \in LinesOf(f, m) /\ \A j \in LinesOf(f, m) : i >= j
  BY <1>1 DEF IsLast
<1>3. Max(LinesOf(f, m)) \in LinesOf(f, m) /\ \A j \in LinesOf(f, m) : Max(LinesOf(f, m)) >= j
  BY <1>2 DEF Max
<1>4. Max(LinesOf(f, m)) = i
  BY <1>1, <1>2, <1>3
<1>5. QED
  BY <1>2, <1>4 DEF LastLine

\* A line more is the last line of its market, and of no other.
LEMMA OneLineMore ==
    ASSUME NEW R, NEW f \in Seq(R), NEW r \in R, r.market \in Market, Ended(f)
    PROVE  /\ Ended(Append(f, r))
           /\ LinesOf(Append(f, r), r.market) # {}
           /\ LastLine(Append(f, r), r.market) = r
           /\ \A m \in Market : m # r.market =>
                 /\ LinesOf(Append(f, r), m) = LinesOf(f, m)
                 /\ LinesOf(f, m) # {} => LastLine(Append(f, r), m) = LastLine(f, m)
<1> DEFINE g == Append(f, r)
<1>1. /\ g \in Seq(R) /\ Len(f) \in Nat /\ DOMAIN f = 1..Len(f)
      /\ DOMAIN g = 1..(Len(f) + 1)
      /\ g[Len(f) + 1] = r /\ \A i \in 1..Len(f) : g[i] = f[i]
  OBVIOUS
<1> HIDE DEF g
<1>2. IsLast(Len(f) + 1, g, r.market)
  BY <1>1 DEF IsLast, LinesOf
<1>3. LinesOf(g, r.market) # {} /\ LastLine(g, r.market) = r
  BY <1>1, <1>2, LastIsMax
<1>4. ASSUME NEW m \in Market, m # r.market
      PROVE  LinesOf(g, m) = LinesOf(f, m)
  BY <1>1, <1>4 DEF LinesOf
<1>5. ASSUME NEW m \in Market, m # r.market, LinesOf(f, m) # {}
      PROVE  LastLine(g, m) = LastLine(f, m)
  <2>1. Max(LinesOf(f, m)) \in 1..Len(f)
    <3>1. PICK i \in LinesOf(f, m) : IsLast(i, f, m)
      BY <1>5 DEF Ended
    <3>2. Max(LinesOf(f, m)) = i
      BY <3>1, LastIsMax
    <3>3. QED
      BY <1>1, <3>1, <3>2 DEF LinesOf
  <2>2. QED
    BY <1>1, <1>4, <1>5, <2>1 DEF LastLine
<1>6. Ended(g)
  <2> SUFFICES ASSUME NEW m \in Market, LinesOf(g, m) # {}
               PROVE  \E i \in LinesOf(g, m) : IsLast(i, g, m)
    BY DEF Ended
  <2>1. CASE m = r.market
    BY <1>2, <2>1 DEF IsLast
  <2>2. CASE m # r.market
    <3>1. LinesOf(g, m) = LinesOf(f, m)
      BY <1>4, <2>2
    <3>2. PICK i \in LinesOf(f, m) : IsLast(i, f, m)
      BY <3>1 DEF Ended
    <3>3. QED
      BY <3>1, <3>2 DEF IsLast
  <2>3. QED
    BY <2>1, <2>2
<1>7. QED
  BY <1>3, <1>4, <1>5, <1>6 DEF g

-----------------------------------------------------------------------------
\* The settlement history, its file and its two indexes.
HistoryInv ==
    /\ specFile \in Seq(SpecLine) /\ Ended(specFile)
    /\ specs = IndexOf(specFile) /\ series = SeriesOf(specFile)

\* What the log is behind of: the transitions that were refused.
OnlyRefusedAhead ==
    \A m \in Market :
        IF m \in unlogged THEN Order[StatesOf(lifeFile)[m]] < Order[life[m]]
                          ELSE StatesOf(lifeFile)[m] = life[m]

\* The lifecycle log, its file and its index; states only go forward.
LogInv ==
    /\ lifeFile \in Seq(LifeLine) /\ Ended(lifeFile)
    /\ life \in [Market -> State] /\ unlogged \subseteq Market
    /\ OnlyRefusedAhead
    /\ LogMovesForward

\* The scan in progress.
ScanInv ==
    /\ listed \in Seq(Market) /\ seen \subseteq Market
    /\ \A c \in candidates : c.market \in seen /\ c.hash \in Sound

WorldInv == now \in 0..MaxTime /\ mechanics \in [Market -> Hash]

IInv == WorldInv /\ HistoryInv /\ LogInv /\ ScanInv

LEMMA IndexTypes ==
    /\ HistoryInv => specs \in [Market -> Hash \cup {NoHash}] /\ series \in Hash \cup {NoHash}
    /\ LogInv => StatesOf(lifeFile) \in [Market -> State]
<1>1. ASSUME NEW R, NEW f \in Seq(R), Ended(f), NEW m \in Market, LinesOf(f, m) # {}
      PROVE  LastLine(f, m) \in R
  <2>1. PICK i \in LinesOf(f, m) : IsLast(i, f, m)
    BY <1>1 DEF Ended
  <2>2. LastLine(f, m) = f[i]
    BY <1>1, <2>1, LastIsMax
  <2>3. QED
    BY <2>2 DEF LinesOf
<1>2. ASSUME HistoryInv PROVE specs \in [Market -> Hash \cup {NoHash}]
  <2>1. \A m \in Market : LinesOf(specFile, m) # {} => LastLine(specFile, m) \in SpecLine
    BY <1>1, <1>2 DEF HistoryInv
  <2>2. \A m \in Market : LinesOf(specFile, m) # {} => LastLine(specFile, m).hash \in Hash
    BY <2>1 DEF SpecLine
  <2>3. QED
    BY <1>2, <2>2 DEF HistoryInv, IndexOf
<1>3. ASSUME HistoryInv PROVE series \in Hash \cup {NoHash}
  <2>1. CASE specFile = <<>>
    BY <1>3, <2>1 DEF HistoryInv, SeriesOf
  <2>2. CASE specFile # <<>>
    <3>1. specFile[Len(specFile)] \in SpecLine
      BY <1>3, <2>2 DEF HistoryInv
    <3>2. QED
      BY <1>3, <2>2, <3>1 DEF HistoryInv, SeriesOf, SpecLine
  <2>3. QED
    BY <2>1, <2>2
<1>4. ASSUME LogInv PROVE StatesOf(lifeFile) \in [Market -> State]
  <2>1. \A m \in Market : LinesOf(lifeFile, m) # {} => LastLine(lifeFile, m) \in LifeLine
    BY <1>1, <1>4 DEF LogInv
  <2>2. \A m \in Market : LinesOf(lifeFile, m) # {} => LastLine(lifeFile, m).state \in State
    BY <2>1 DEF LifeLine
  <2>3. "UNSEEN" \in State
    BY DEF State, Order
  <2>4. QED
    BY <2>2, <2>3 DEF StatesOf
<1>5. QED
  BY <1>2, <1>3, <1>4

LEMMA InvIsSound == IInv => HistoriesAreSound
<1> SUFFICES ASSUME IInv PROVE HistoriesAreSound
  OBVIOUS
<1>1. TypeOK
  BY IndexTypes DEF IInv, WorldInv, HistoryInv, LogInv, ScanInv, SpecLine, LifeLine, TypeOK
<1>2. QED
  BY <1>1 DEF IInv, HistoryInv, LogInv, OnlyRefusedAhead, HistoriesAreSound,
              RestartLosesOnlyRefused

LEMMA InitInv == Init => IInv
<1> SUFFICES ASSUME Init PROVE IInv
  OBVIOUS
<1>1. /\ \A R : <<>> \in Seq(R)
      /\ \A m \in Market : LinesOf(<<>>, m) = {}
  BY DEF LinesOf
<1>2. Ended(<<>>)
  BY <1>1 DEF Ended
<1>3. HistoryInv
  BY <1>1, <1>2 DEF Init, HistoryInv, SeriesOf
<1>4. LogInv
  <2>1. life = StatesOf(<<>>) /\ lifeFile = <<>> /\ unlogged = {}
    BY DEF Init
  <2>2. StatesOf(<<>>) = [m \in Market |-> "UNSEEN"]
    BY <1>1 DEF StatesOf
  <2>3. OnlyRefusedAhead
    BY <2>1 DEF OnlyRefusedAhead
  <2>4. "UNSEEN" \in State
    BY DEF State, Order
  <2>5. life \in [Market -> State]
    BY <2>1, <2>2, <2>4
  <2>6. QED
    BY <1>1, <1>2, <2>1, <2>3, <2>5 DEF LogInv, LogMovesForward
<1>5. ScanInv
  BY <1>1 DEF Init, ScanInv
<1>6. QED
  BY <1>3, <1>4, <1>5, GateAssumption DEF Init, IInv, WorldInv

-----------------------------------------------------------------------------
LEMMA Untouched ==
    /\ HistoryInv /\ UNCHANGED history => HistoryInv'
    /\ LogInv /\ UNCHANGED log => LogInv'
    /\ ScanInv /\ UNCHANGED scan => ScanInv'
    /\ WorldInv /\ UNCHANGED <<now, mechanics>> => WorldInv'
<1>1. HistoryInv /\ UNCHANGED history => HistoryInv'
  BY DEF history, HistoryInv, Ended, IsLast, LinesOf, IndexOf, LastLine, SeriesOf
<1>2. LogInv /\ UNCHANGED log => LogInv'
  <2> SUFFICES ASSUME LogInv, lifeFile' = lifeFile, life' = life, unlogged' = unlogged
               PROVE  LogInv'
    BY DEF log
  <2>1. StatesOf(lifeFile)' = StatesOf(lifeFile)
    BY DEF StatesOf, LinesOf, LastLine
  <2>2. OnlyRefusedAhead'
    BY <2>1 DEF LogInv, OnlyRefusedAhead
  <2>3. LogMovesForward' /\ Ended(lifeFile)'
    BY DEF LogInv, LogMovesForward, Ended, IsLast, LinesOf
  <2>4. QED
    BY <2>2, <2>3 DEF LogInv
<1>3. ScanInv /\ UNCHANGED scan => ScanInv'
  BY DEF scan, ScanInv
<1>4. WorldInv /\ UNCHANGED <<now, mechanics>> => WorldInv'
  BY DEF WorldInv
<1>5. QED
  BY <1>1, <1>2, <1>3, <1>4

\* record() writes what it indexes.
LEMMA RecordKeepsHistory ==
    ASSUME HistoryInv, NEW m \in Market, NEW h \in Hash, Record(m, h)
    PROVE  HistoryInv'
<1>1. CASE Unchanged(m, h)
  BY <1>1, Untouched DEF Record
<1>2. CASE ~Unchanged(m, h)
  <2> DEFINE r == [market |-> m, hash |-> h]
  <2>1. /\ specFile' = Append(specFile, r) /\ specs' = [specs EXCEPT ![m] = h] /\ series' = h
        /\ r \in SpecLine /\ specFile \in Seq(SpecLine) /\ Ended(specFile) /\ r.market = m
        /\ r.hash = h
    BY <1>2 DEF Record, HistoryInv, SpecLine
  <2> HIDE DEF r
  <2>2. /\ Ended(specFile')
        /\ LinesOf(specFile', m) # {} /\ LastLine(specFile', m) = r
        /\ \A n \in Market : n # m =>
              /\ LinesOf(specFile', n) = LinesOf(specFile, n)
              /\ LinesOf(specFile, n) # {} => LastLine(specFile', n) = LastLine(specFile, n)
    BY <2>1, OneLineMore
  <2>3. specs' = IndexOf(specFile')
    <3>1. specs = IndexOf(specFile)
      BY DEF HistoryInv
    <3>2. \A n \in Market : specs'[n] = IndexOf(specFile')[n]
      BY <2>1, <2>2, <3>1 DEF IndexOf
    <3>3. specs' = [n \in Market |-> specs'[n]]
      BY <2>1, <3>1 DEF IndexOf
    <3>4. IndexOf(specFile') = [n \in Market |-> IndexOf(specFile')[n]]
      BY DEF IndexOf
    <3>5. QED
      BY <3>2, <3>3, <3>4
  <2>4. specFile' \in Seq(SpecLine) /\ specFile' # <<>> /\ specFile'[Len(specFile')] = r
    BY <2>1
  <2>5. series' = SeriesOf(specFile')
    BY <2>1, <2>4 DEF SeriesOf
  <2>6. Ended(specFile)' /\ IndexOf(specFile)' = IndexOf(specFile') /\ SeriesOf(specFile)' = SeriesOf(specFile')
    BY <2>2 DEF Ended, IsLast, LinesOf, IndexOf, LastLine, SeriesOf
  <2>7. QED
    BY <2>3, <2>4, <2>5, <2>6 DEF HistoryInv
<1>3. QED
  BY <1>1, <1>2

\* observe() logs a step forward of the market and nothing else.
LEMMA ObserveKeepsLog ==
    ASSUME LogInv, NEW m \in Market, NEW s \in State \ {"UNSEEN"}, Observe(m, s)
    PROVE  LogInv'
<1>1. CASE ~Forward(m, s)
  BY <1>1, Untouched DEF Observe
<1>2. CASE Forward(m, s)
  <2> DEFINE r == [market |-> m, state |-> s]
  <2>1. /\ lifeFile' = Append(lifeFile, r) /\ life' = [life EXCEPT ![m] = s]
        /\ unlogged' = unlogged \ {m} /\ life \in [Market -> State]
        /\ r \in LifeLine /\ lifeFile \in Seq(LifeLine) /\ Ended(lifeFile) /\ r.market = m
        /\ r.state = s
    BY <1>2 DEF Observe, LogInv, LifeLine
  <2> HIDE DEF r
  <2>2. /\ Ended(lifeFile')
        /\ LinesOf(lifeFile', m) # {} /\ LastLine(lifeFile', m) = r
        /\ \A n \in Market : n # m =>
              /\ LinesOf(lifeFile', n) = LinesOf(lifeFile, n)
              /\ LinesOf(lifeFile, n) # {} => LastLine(lifeFile', n) = LastLine(lifeFile, n)
    BY <2>1, OneLineMore
  <2>3. OnlyRefusedAhead'
    <3>1. StatesOf(lifeFile')[m] = s
      BY <2>1, <2>2 DEF StatesOf
    <3>2. \A n \in Market : n # m => StatesOf(lifeFile')[n] = StatesOf(lifeFile)[n]
      BY <2>2 DEF StatesOf
    <3>3. life'[m] = s /\ \A n \in Market : n # m => life'[n] = life[n]
      BY <2>1
    <3>4. m \notin unlogged' /\ \A n \in Market : n # m => (n \in unlogged' <=> n \in unlogged)
      BY <2>1
    <3>5. OnlyRefusedAhead
      BY DEF LogInv
    <3>6. StatesOf(lifeFile)' = StatesOf(lifeFile')
      BY DEF StatesOf, LinesOf, LastLine
    <3>7. QED
      BY <3>1, <3>2, <3>3, <3>4, <3>5, <3>6 DEF OnlyRefusedAhead
  <2>4. /\ Len(lifeFile) \in Nat /\ DOMAIN lifeFile = 1..Len(lifeFile)
        /\ DOMAIN lifeFile' = 1..(Len(lifeFile) + 1)
        /\ lifeFile'[Len(lifeFile) + 1] = r
        /\ \A i \in 1..Len(lifeFile) : lifeFile'[i] = lifeFile[i] /\ lifeFile[i] \in LifeLine
        /\ lifeFile' \in Seq(LifeLine)
    BY <2>1
  <2>5. \A x \in State : Order[x] \in Int
    BY DEF State, Order
  <2>6. ASSUME NEW i \in 1..Len(lifeFile), lifeFile[i].market = m
        PROVE  Order[lifeFile[i].state] < Order[s]
    <3>1. i \in LinesOf(lifeFile, m)
      BY <2>4, <2>6 DEF LinesOf
    <3>2. PICK k \in LinesOf(lifeFile, m) : IsLast(k, lifeFile, m)
      BY <2>1, <3>1 DEF Ended
    <3>3. Order[lifeFile[k].state] <= Order[life[m]]
      <4>1. StatesOf(lifeFile)[m] = lifeFile[k].state
        BY <2>1, <3>1, <3>2, LastIsMax DEF StatesOf
      <4>2. \/ Order[lifeFile[k].state] < Order[life[m]]
            \/ lifeFile[k].state = life[m]
        BY <4>1 DEF LogInv, OnlyRefusedAhead
      <4>3. lifeFile[k].state \in State /\ life[m] \in State
        BY <2>1, <2>4, <3>2 DEF IsLast, LinesOf, LifeLine
      <4>4. QED
        BY <2>5, <4>2, <4>3
    <3>4. k \in 1..Len(lifeFile) /\ lifeFile[k].market = m /\ i <= k
      BY <2>4, <3>1, <3>2 DEF IsLast, LinesOf
    <3>5. Order[lifeFile[i].state] <= Order[lifeFile[k].state]
      <4>1. CASE i = k
        BY <2>4, <2>5, <3>4, <4>1 DEF LifeLine
      <4>2. CASE i < k
        <5>1. Order[lifeFile[i].state] < Order[lifeFile[k].state]
          BY <2>4, <2>6, <3>4, <4>2 DEF LogInv, LogMovesForward
        <5>2. lifeFile[i].state \in State /\ lifeFile[k].state \in State
          BY <2>4, <3>4 DEF LifeLine
        <5>3. QED
          BY <2>5, <5>1, <5>2
      <4>3. QED
        BY <3>4, <4>1, <4>2
    <3>6. lifeFile[i].state \in State /\ lifeFile[k].state \in State
      BY <2>4, <3>4 DEF LifeLine
    <3>7. QED
      <4>1. life[m] \in State
        BY <2>1
      <4>2. Order[life[m]] < Order[s]
        BY <1>2, <2>5, <4>1 DEF Forward
      <4>3. QED
        BY <2>5, <3>3, <3>5, <3>6, <4>1, <4>2
  <2>7. LogMovesForward'
    <3> SUFFICES ASSUME NEW i \in 1..(Len(lifeFile) + 1), NEW j \in 1..(Len(lifeFile) + 1),
                        i < j, lifeFile'[i].market = lifeFile'[j].market
                 PROVE  Order[lifeFile'[i].state] < Order[lifeFile'[j].state]
      BY <2>4 DEF LogMovesForward
    <3>1. i \in 1..Len(lifeFile) /\ lifeFile'[i] = lifeFile[i]
      BY <2>4
    <3>2. CASE j = Len(lifeFile) + 1
      BY <2>1, <2>4, <2>6, <3>1, <3>2
    <3>3. CASE j # Len(lifeFile) + 1
      <4>1. j \in 1..Len(lifeFile) /\ lifeFile'[j] = lifeFile[j]
        BY <2>4, <3>3
      <4>2. QED
        BY <2>4, <3>1, <4>1 DEF LogInv, LogMovesForward
    <3>4. QED
      BY <3>2, <3>3
  <2>8. Ended(lifeFile)' /\ StatesOf(lifeFile)' = StatesOf(lifeFile')
    BY <2>2 DEF Ended, IsLast, LinesOf, StatesOf, LastLine
  <2>9. life' \in [Market -> State] /\ unlogged' \subseteq Market
    BY <2>1 DEF LogInv
  <2>10. QED
    BY <2>3, <2>4, <2>7, <2>8, <2>9 DEF LogInv
<1>3. QED
  BY <1>1, <1>2

\* A refused line leaves the log as it is and its market ahead of it.
LEMMA RefusalKeepsLog ==
    ASSUME LogInv, NEW m \in Market, NEW s \in State, ObserveFails(m, s)
    PROVE  LogInv'
<1>1. /\ life \in [Market -> State] /\ lifeFile' = lifeFile
      /\ life' = [life EXCEPT ![m] = s] /\ unlogged' = unlogged \cup {m}
  BY DEF LogInv, ObserveFails
<1>2. StatesOf(lifeFile)' = StatesOf(lifeFile)
  BY <1>1 DEF StatesOf, LinesOf, LastLine
<1>3. \A x \in State : Order[x] \in Int
  BY DEF State, Order
<1>4. Order[StatesOf(lifeFile)[m]] < Order[s]
  <2>1. StatesOf(lifeFile)[m] \in State /\ life[m] \in State
    BY <1>1, IndexTypes
  <2>2. Order[life[m]] < Order[s]
    BY <1>3, <2>1 DEF ObserveFails, Forward
  <2>3. Order[StatesOf(lifeFile)[m]] <= Order[life[m]]
    <3>1. CASE m \in unlogged
      BY <1>3, <2>1, <3>1 DEF LogInv, OnlyRefusedAhead
    <3>2. CASE m \notin unlogged
      <4>1. StatesOf(lifeFile)[m] = life[m]
        BY <3>2 DEF LogInv, OnlyRefusedAhead
      <4>2. QED
        BY <1>3, <2>1, <4>1
    <3>3. QED
      BY <3>1, <3>2
  <2>4. QED
    BY <1>3, <2>1, <2>2, <2>3
<1>5. OnlyRefusedAhead'
  BY <1>1, <1>2, <1>4 DEF LogInv, OnlyRefusedAhead
<1>6. LogMovesForward'
  BY <1>1 DEF LogInv, LogMovesForward
<1>7. Ended(lifeFile)' /\ lifeFile' \in Seq(LifeLine)
  BY <1>1 DEF LogInv, Ended, IsLast, LinesOf
<1>8. life' \in [Market -> State] /\ unlogged' \subseteq Market
  BY <1>1 DEF LogInv
<1>9. QED
  BY <1>5, <1>6, <1>7, <1>8 DEF LogInv

LEMMA HeadOfListed ==
    ASSUME ScanInv, listed # <<>>
    PROVE  Head(listed) \in Market /\ Tail(listed) \in Seq(Market)
  BY DEF ScanInv

LEMMA RestartKeepsLog ==
    ASSUME LogInv, Restarted
    PROVE  LogInv' /\ ScanInv'
<1>1. lifeFile' = lifeFile /\ life' = StatesOf(lifeFile) /\ unlogged' = {}
  BY DEF Restarted, LoadLog
<1>2. StatesOf(lifeFile)' = StatesOf(lifeFile)
  BY <1>1 DEF StatesOf, LinesOf, LastLine
<1>3. OnlyRefusedAhead'
  BY <1>1, <1>2 DEF OnlyRefusedAhead
<1>4. life' \in [Market -> State]
  BY <1>1, IndexTypes
<1>5. LogMovesForward' /\ Ended(lifeFile)' /\ lifeFile' \in Seq(LifeLine)
  BY <1>1 DEF LogInv, LogMovesForward, Ended, IsLast, LinesOf
<1>6. LogInv'
  BY <1>1, <1>3, <1>4, <1>5 DEF LogInv
<1>7. ScanInv'
  BY DEF Restarted, ScanInv
<1>8. QED
  BY <1>6, <1>7

\* A refused append ends the scan.
LEMMA AbandonedScan ==
    ASSUME ScanInv, Abandoned
    PROVE  ScanInv'
  BY DEF Abandoned, ScanInv

LEMMA NextInv == IInv /\ [Next]_vars => IInv'
<1> SUFFICES ASSUME IInv, [Next]_vars PROVE IInv'
  OBVIOUS
<1> USE DEF IInv
<1>1. CASE UNCHANGED vars
  BY <1>1, Untouched DEF vars, history, log, scan
<1>2. CASE Tick
  <2>1. WorldInv'
    BY <1>2, GateAssumption DEF Tick, WorldInv
  <2>2. QED
    BY <1>2, <2>1, Untouched DEF Tick
<1>3. ASSUME NEW m \in Market, NEW h \in Hash, Amend(m, h) PROVE IInv'
  <2>1. WorldInv'
    BY <1>3 DEF Amend, WorldInv
  <2>2. QED
    BY <1>3, <2>1, Untouched DEF Amend
<1>4. ASSUME NEW markets \in SeqOf(Market, MaxListed), Scan(markets) PROVE IInv'
  <2>1. markets \in Seq(Market)
    <3>1. PICK n \in 0..MaxListed : markets \in [1..n -> Market]
      BY DEF SeqOf
    <3>2. QED
      BY <3>1, SeqDef
  <2>2. ScanInv'
    BY <1>4, <2>1 DEF Scan, ScanInv
  <2>3. QED
    BY <1>4, <2>2, Untouched DEF Scan
<1>5. "REJECTED" \in State \ {"UNSEEN"}
  BY DEF State, Order
<1>6. CASE Unreadable
  <2>1. LogInv'
    BY <1>5, <1>6, HeadOfListed, ObserveKeepsLog DEF Unreadable
  <2>2. ScanInv'
    BY <1>6, HeadOfListed DEF Unreadable, ScanInv
  <2>3. QED
    BY <1>6, <2>1, <2>2, Untouched DEF Unreadable
<1>7. CASE Unhealthy
  <2>1. LogInv'
    BY <1>5, <1>7, HeadOfListed, ObserveKeepsLog DEF Unhealthy
  <2>2. ScanInv'
    BY <1>7, HeadOfListed DEF Unhealthy, ScanInv
  <2>3. QED
    BY <1>7, <2>1, <2>2, Untouched DEF Unhealthy
<1>8. CASE Refused
  <2>1. Head(listed) \in Market /\ Tail(listed) \in Seq(Market)
    BY <1>8, HeadOfListed DEF Refused
  <2>2. mechanics[Head(listed)] \in Hash
    BY <2>1 DEF WorldInv
  <2>3. HistoryInv'
    BY <1>8, <2>1, <2>2, RecordKeepsHistory DEF Refused
  <2>4. LogInv'
    BY <1>5, <1>8, <2>1, ObserveKeepsLog DEF Refused
  <2>5. ScanInv'
    BY <1>8, <2>1 DEF Refused, ScanInv
  <2>6. QED
    BY <1>8, <2>3, <2>4, <2>5, Untouched DEF Refused
<1>9. ASSUME NEW accepting \in BOOLEAN, Accepted(accepting) PROVE IInv'
  <2>1. Head(listed) \in Market /\ Tail(listed) \in Seq(Market)
    BY <1>9, HeadOfListed DEF Accepted
  <2>2. mechanics[Head(listed)] \in Hash
    BY <2>1 DEF WorldInv
  <2>3. HistoryInv'
    BY <1>9, <2>1, <2>2, RecordKeepsHistory DEF Accepted
  <2>4. Classify(Head(listed), accepting) \in State \ {"UNSEEN"}
    BY DEF Classify, State, Order
  <2>5. LogInv'
    BY <1>9, <2>1, <2>4, ObserveKeepsLog DEF Accepted
  <2>6. mechanics[Head(listed)] \in Sound
    BY <1>9 DEF Accepted, Verified
  <2>7. ScanInv'
    BY <1>9, <2>1, <2>6 DEF Accepted, ScanInv
  <2>8. QED
    BY <1>9, <2>3, <2>5, <2>7, Untouched DEF Accepted
<1>10. CASE Crash
  <2>1. UNCHANGED history
    BY <1>10 DEF Crash, HistoryInv, history
  <2>2. UNCHANGED <<now, mechanics>>
    BY <1>10 DEF Crash, Restarted
  <2>3. LogInv' /\ ScanInv'
    BY <1>10, RestartKeepsLog DEF Crash
  <2>4. QED
    BY <2>1, <2>2, <2>3, Untouched
<1>11. CASE CrashAfterRecord
  <2>1. Head(listed) \in Market
    BY <1>11, HeadOfListed DEF CrashAfterRecord
  <2>2. mechanics[Head(listed)] \in Hash
    BY <2>1 DEF WorldInv
  <2>3. HistoryInv'
    BY <1>11, <2>1, <2>2, RecordKeepsHistory DEF CrashAfterRecord
  <2>4. UNCHANGED <<now, mechanics>>
    BY <1>11 DEF CrashAfterRecord, Restarted
  <2>5. LogInv' /\ ScanInv'
    BY <1>11, RestartKeepsLog DEF CrashAfterRecord
  <2>6. QED
    BY <2>3, <2>4, <2>5, Untouched
<1>12. CASE RecordFails
  <2>1. ScanInv'
    BY <1>12, AbandonedScan DEF RecordFails
  <2>2. QED
    BY <1>12, <2>1, Untouched DEF RecordFails, Abandoned
<1>13. CASE RejectionFails
  <2>1. Abandoned /\ Head(listed) \in Market
    BY <1>13, HeadOfListed DEF RejectionFails, Abandoned
  <2>2. ScanInv'
    BY <2>1, AbandonedScan
  <2>3. LogInv'
    BY <1>5, <1>13, <2>1, RefusalKeepsLog DEF RejectionFails
  <2>4. QED
    BY <1>13, <2>1, <2>2, <2>3, Untouched DEF RejectionFails, Abandoned
<1>14. ASSUME NEW accepting \in BOOLEAN, VerdictFails(accepting) PROVE IInv'
  <2>1. Abandoned /\ Head(listed) \in Market
    BY <1>14, HeadOfListed DEF VerdictFails, Abandoned
  <2>2. mechanics[Head(listed)] \in Hash
    BY <2>1 DEF WorldInv
  <2>3. ScanInv'
    BY <2>1, AbandonedScan
  <2>4. HistoryInv'
    BY <1>14, <2>1, <2>2, RecordKeepsHistory DEF VerdictFails
  <2>5. Classify(Head(listed), accepting) \in State
    BY DEF Classify, State, Order
  <2>6. PICK s \in State : ObserveFails(Head(listed), s)
    BY <1>5, <1>14, <2>5 DEF VerdictFails
  <2>7. LogInv'
    BY <2>1, <2>6, RefusalKeepsLog
  <2>8. QED
    BY <2>1, <2>3, <2>4, <2>7, Untouched DEF Abandoned
<1>15. QED
  BY <1>1, <1>2, <1>3, <1>4, <1>6, <1>7, <1>8, <1>9, <1>10, <1>11, <1>12, <1>13, <1>14
     DEF Next

\* Over any number of scans, amendments, kills and refused appends, also between
\* the two writes of one verdict: what the process knows of the series and of
\* each market is what a restart would read; so is each state but those whose
\* last line was refused, which a restart takes back; the log goes forward.
THEOREM Histories == Spec => []HistoriesAreSound
<1>1. QED
  BY InitInv, NextInv, InvIsSound, PTL DEF Spec

\* A look accepts a market only if it settles as the series did before it.
THEOREM SightRefuses == Spec => ChangeIsRefusedAtSight
<1>1. ASSUME [Next]_vars
      PROVE  [\A c \in candidates' \ candidates : c.hash = series \/ series = NoHash]_vars
  <2> SUFFICES ASSUME Next, NEW c \in candidates' \ candidates
               PROVE  c.hash = series \/ series = NoHash
    BY <1>1
  <2>1. PICK accepting \in BOOLEAN : Accepted(accepting)
    BY DEF Next, Tick, Unreadable, Unhealthy, Refused, Crash, CrashAfterRecord, Restarted,
           RecordFails, RejectionFails, VerdictFails, Abandoned, Amend, Scan, scan
  <2> DEFINE h == mechanics[Head(listed)]
  <2>2. c.hash = h /\ Known(Head(listed), h) = h
    BY <2>1 DEF Accepted, Verified
  <2>3. QED
    BY <2>2 DEF Known
<1>2. QED
  BY <1>1, PTL DEF Spec, ChangeIsRefusedAtSight

=============================================================================
