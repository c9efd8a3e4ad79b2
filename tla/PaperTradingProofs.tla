------------------------- MODULE PaperTradingProofs -------------------------
(***************************************************************************)
(* The journal of PaperTrading replays to one history, for any markets,    *)
(* kills and failed writes; a cut write costs at most two records; and     *)
(* while nothing is killed or refused the ledger is the journal's, to the  *)
(* cent, so that the two together are the account of AccountSpec.          *)
(*                                                                         *)
(* A record may be on file without being known in memory: its write was    *)
(* cut just before the newline.  It is then the file's unfinished line,    *)
(* and whatever is appended next destroys it.  So the invariant speaks of  *)
(* the finished lines: those are known to a running process (Known).       *)
(***************************************************************************)
EXTENDS PaperTrading, LedgerLemmas, SequenceTheorems

TradeRec ==
    [kind : {"decision"}, market : Market, traded : {TRUE}, side : Side,
     cost : {fill.cost : fill \in Fill}, shares : {fill.shares : fill \in Fill}]
SkipRec ==
    [kind : {"decision"}, market : Market, traded : {FALSE}, side : {""},
     cost : {0}, shares : {0}]
DecisionRec == TradeRec \cup SkipRec
SettlementRec ==
    [kind : {"settlement"}, market : Market,
     status : {"REJECTED", "VOIDED", "SETTLED_WIN", "SETTLED_LOSS"},
     pnl : (-MaxCost)..MaxShares]
Record == DecisionRec \cup SettlementRec \cup {Unparseable}
Files  == [lines : Seq(Record), tail : Seq(Record)]

All(f) == f.lines \o f.tail

\* One record of a kind and market.
Once(all) ==
    \A i, j \in DOMAIN all :
        /\ all[i].kind \in {"decision", "settlement"}
        /\ all[i].kind = all[j].kind /\ all[i].market = all[j].market
        => all[i] = all[j]

\* StatusOf under the outcomes v.
StatusIn(v, d) == CASE ~d.traded              -> "REJECTED"
                    [] v[d.market] = "VOID"   -> "VOIDED"
                    [] d.side = v[d.market]   -> "SETTLED_WIN"
                    [] OTHER                  -> "SETTLED_LOSS"

\* A settlement is of a published market and of an earlier decision on it.
Follows(v, all) ==
    \A i \in DOMAIN all : all[i].kind = "settlement" =>
        /\ v[all[i].market] # "open"
        /\ \E j \in 1..(i - 1) :
              /\ all[j].kind = "decision" /\ all[j].market = all[i].market
              /\ all[i].status = StatusIn(v, all[j])

Shape ==
    /\ file \in Files /\ Len(file.tail) <= 1
    /\ venue \in [Market -> Published]

Known ==
    up => \A i \in DOMAIN file.lines :
        /\ file.lines[i].kind = "decision"   => file.lines[i].market \in decided
        /\ file.lines[i].kind = "settlement" => file.lines[i].market \in settled

IInv == Shape /\ Known /\ Once(All(file)) /\ Follows(venue, All(file))

-----------------------------------------------------------------------------
(***************************************************************************)
(* Files and records.                                                      *)
(***************************************************************************)

LEMMA FileParts ==
    ASSUME Shape
    PROVE  /\ file.lines \in Seq(Record) /\ file.tail \in Seq(Record)
           /\ Len(file.lines) \in Nat /\ DOMAIN file.lines = 1..Len(file.lines)
           /\ \A i \in DOMAIN file.lines : file.lines[i] \in Record
           /\ \/ file.tail = <<>> /\ All(file) = file.lines
              \/ \E r \in Record : file.tail = <<r>> /\ All(file) = Append(file.lines, r)
<1>1. file.lines \in Seq(Record) /\ file.tail \in Seq(Record) /\ Len(file.tail) <= 1
  BY DEF Shape, Files
<1>2. CASE file.tail = <<>>
  BY <1>1, <1>2, ConcatProperties, ConcatEmptySeq DEF All
<1>3. CASE file.tail # <<>>
  <2> DEFINE t == file.tail
  <2>1. t \in Seq(Record) /\ Len(t) <= 1 /\ t # <<>>
    BY <1>1, <1>3
  <2>2. file.lines \o t = All(file)
    BY DEF All
  <2> HIDE DEF t
  <2>3. Len(t) \in Nat /\ Len(t) # 0
    BY <2>1, EmptySeq
  <2>4. Len(t) = 1
    <3>1. Len(t) <= 1
      BY <2>1
    <3>2. \A n \in Nat : n # 0 /\ n <= 1 => n = 1
      BY ONLY SMT
    <3>3. QED
      BY ONLY <2>3, <3>1, <3>2, Zenon
  <2>5. t[1] \in Record /\ t = <<t[1]>>
    BY <2>1, <2>4
  <2>6. file.lines \o <<t[1]>> = Append(file.lines, t[1])
    BY <1>1, <2>5, AppendIsConcat
  <2>7. \E r \in Record : t = <<r>> /\ All(file) = Append(file.lines, r)
    BY <2>2, <2>5, <2>6
  <2>8. QED
    BY <1>1, <2>7 DEF t
<1>4. QED
  BY <1>1, <1>2, <1>3

LEMMA RecordKinds ==
    /\ \A r \in Record : \/ r.kind = "decision" /\ r.market \in Market
                         \/ r.kind = "settlement" /\ r.market \in Market
                         \/ r = Unparseable
    /\ Unparseable \in Record /\ Unparseable.kind = "unparseable"
  BY DEF Record, DecisionRec, TradeRec, SkipRec, SettlementRec, Unparseable

\* The money in a decision.
LEMMA DecisionMoney ==
    ASSUME NEW d \in DecisionRec
    PROVE  /\ d.kind = "decision" /\ d.market \in Market
           /\ d.traded \in BOOLEAN
           /\ d.cost \in 0..MaxCost /\ d.shares \in 0..MaxShares
           /\ d.traded => d.cost \in 1..MaxCost
           /\ d.traded => d.shares \in {fill.shares : fill \in Fill}
           /\ d.traded => d.cost \in {fill.cost : fill \in Fill}
           /\ MaxCost \in Nat /\ MaxShares \in Nat
<1>1. MaxCost \in Nat /\ MaxShares \in Nat
  BY MaxCostType, MarketAssumption
<1>2. CASE d \in TradeRec
  <2>1. d.traded = TRUE
    BY <1>2 DEF TradeRec
  <2>2. /\ d.kind = "decision" /\ d.market \in Market
        /\ d.cost \in {fill.cost : fill \in Fill}
        /\ d.shares \in {fill.shares : fill \in Fill}
    BY <1>2 DEF TradeRec
  <2>3. d.cost \in 1..MaxCost /\ d.shares \in 0..MaxShares
    BY <2>2, MarketAssumption
  <2>4. d.cost \in 0..MaxCost
    BY <1>1, <2>3
  <2>5. QED
    BY <1>1, <2>1, <2>2, <2>3, <2>4
<1>3. CASE d \in SkipRec
  <2>1. d.traded = FALSE
    BY <1>3 DEF SkipRec
  <2>2. d.kind = "decision" /\ d.market \in Market /\ d.cost = 0 /\ d.shares = 0
    BY <1>3 DEF SkipRec
  <2>3. d.cost \in 0..MaxCost /\ d.shares \in 0..MaxShares
    BY <1>1, <2>2
  <2>4. ~d.traded /\ d.traded \in BOOLEAN
    BY <2>1
  <2>5. QED
    BY <1>1, <2>2, <2>3, <2>4
<1>4. d \in TradeRec \/ d \in SkipRec
  BY DEF DecisionRec
<1>5. QED
  BY <1>2, <1>3, <1>4

\* What holds of the whole file holds of its finished lines.
LEMMA LinesToo ==
    ASSUME IInv
    PROVE  Once(file.lines) /\ Follows(venue, file.lines)
<1>1. CASE All(file) = file.lines
  BY <1>1 DEF IInv
<1>2. ASSUME NEW r \in Record, All(file) = Append(file.lines, r)
      PROVE  Once(file.lines) /\ Follows(venue, file.lines)
  <2> DEFINE all == All(file)
  <2>1. /\ file.lines \in Seq(Record) /\ Len(file.lines) \in Nat
        /\ DOMAIN file.lines = 1..Len(file.lines)
    BY FileParts DEF IInv
  <2>2. /\ DOMAIN all = 1..(Len(file.lines) + 1)
        /\ \A i \in 1..Len(file.lines) : all[i] = file.lines[i]
    BY <1>2, <2>1
  <2>3. Once(all) /\ Follows(venue, all)
    BY DEF IInv
  <2> HIDE DEF all
  <2>4. Once(file.lines)
    BY <2>1, <2>2, <2>3 DEF Once
  <2>5. Follows(venue, file.lines)
    <3> SUFFICES ASSUME NEW i \in DOMAIN file.lines, file.lines[i].kind = "settlement"
                 PROVE  /\ venue[file.lines[i].market] # "open"
                        /\ \E j \in 1..(i - 1) :
                              /\ file.lines[j].kind = "decision"
                              /\ file.lines[j].market = file.lines[i].market
                              /\ file.lines[i].status = StatusIn(venue, file.lines[j])
      BY DEF Follows
    <3>1. i \in DOMAIN all /\ all[i] = file.lines[i] /\ i \in 1..Len(file.lines)
      BY <2>1, <2>2
    <3>2. /\ venue[all[i].market] # "open"
          /\ \E j \in 1..(i - 1) : /\ all[j].kind = "decision" /\ all[j].market = all[i].market
                                   /\ all[i].status = StatusIn(venue, all[j])
      BY <2>3, <3>1 DEF Follows
    <3>3. \A j \in 1..(i - 1) : all[j] = file.lines[j]
      BY <2>1, <2>2, <3>1
    <3>4. QED
      BY <3>1, <3>2, <3>3
  <2>6. QED
    BY <2>4, <2>5
<1>3. QED
  BY <1>1, <1>2, FileParts DEF IInv

\* A line that may follow: what does not parse, the only decision on a market,
\* or the only settlement of a decision on file.
MayFollow(r) ==
    \/ r = Unparseable
    \/ /\ r.kind = "decision"
       /\ \A i \in DOMAIN file.lines :
             file.lines[i].kind = "decision" => file.lines[i].market # r.market
    \/ /\ r.kind = "settlement" /\ venue[r.market] # "open"
       /\ \A i \in DOMAIN file.lines :
             file.lines[i].kind = "settlement" => file.lines[i].market # r.market
       /\ \E j \in DOMAIN file.lines : /\ file.lines[j].kind = "decision"
                                       /\ file.lines[j].market = r.market
                                       /\ r.status = StatusIn(venue, file.lines[j])

LEMMA OneMore ==
    ASSUME IInv, NEW r \in Record, MayFollow(r)
    PROVE  Once(Append(file.lines, r)) /\ Follows(venue, Append(file.lines, r))
<1> DEFINE all == Append(file.lines, r)
           n == Len(file.lines)
<1>1. /\ file.lines \in Seq(Record) /\ n \in Nat /\ DOMAIN file.lines = 1..n
  BY FileParts DEF IInv
<1>2. /\ DOMAIN all = 1..(n + 1) /\ all[n + 1] = r
      /\ \A i \in 1..n : all[i] = file.lines[i]
  BY <1>1
<1>3. Once(file.lines) /\ Follows(venue, file.lines)
  BY LinesToo
<1> HIDE DEF all, n
<1>4. Once(all)
  <2> SUFFICES ASSUME NEW i \in DOMAIN all, NEW j \in DOMAIN all,
                      all[i].kind \in {"decision", "settlement"},
                      all[i].kind = all[j].kind, all[i].market = all[j].market
               PROVE  all[i] = all[j]
    BY DEF Once
  <2>1. CASE i \in 1..n /\ j \in 1..n
    BY <1>1, <1>2, <1>3, <2>1 DEF Once
  <2>2. ASSUME NEW k \in 1..n, r.kind \in {"decision", "settlement"},
               file.lines[k].kind = r.kind, file.lines[k].market = r.market
        PROVE  FALSE
    <3>1. k \in DOMAIN file.lines /\ r # Unparseable
      BY <1>1, <2>2, RecordKinds
    <3>2. QED
      BY <2>2, <3>1 DEF MayFollow
  <2>3. (i \in 1..n \/ i = n + 1) /\ (j \in 1..n \/ j = n + 1)
    BY <1>1, <1>2
  <2>4. CASE i \in 1..n /\ j = n + 1
    BY <1>2, <2>2, <2>4
  <2>5. CASE i = n + 1 /\ j \in 1..n
    BY <1>2, <2>2, <2>5
  <2>6. CASE i = n + 1 /\ j = n + 1
    BY <2>6
  <2>7. QED
    BY <2>1, <2>3, <2>4, <2>5, <2>6
<1>5. Follows(venue, all)
  <2> SUFFICES ASSUME NEW i \in DOMAIN all, all[i].kind = "settlement"
               PROVE  /\ venue[all[i].market] # "open"
                      /\ \E j \in 1..(i - 1) : /\ all[j].kind = "decision"
                                               /\ all[j].market = all[i].market
                                               /\ all[i].status = StatusIn(venue, all[j])
    BY DEF Follows
  <2>1. CASE i \in 1..n
    <3>1. /\ venue[file.lines[i].market] # "open"
          /\ \E j \in 1..(i - 1) : /\ file.lines[j].kind = "decision"
                                   /\ file.lines[j].market = file.lines[i].market
                                   /\ file.lines[i].status = StatusIn(venue, file.lines[j])
      BY <1>1, <1>2, <1>3, <2>1 DEF Follows
    <3>2. \A j \in 1..(i - 1) : all[j] = file.lines[j]
      BY <1>1, <1>2, <2>1
    <3>3. QED
      BY <1>2, <2>1, <3>1, <3>2
  <2>2. CASE i = n + 1
    <3>1. r.kind = "settlement" /\ r # Unparseable /\ all[i] = r
      BY <1>2, <2>2, RecordKinds
    <3>2. /\ venue[r.market] # "open"
          /\ \E j \in DOMAIN file.lines : /\ file.lines[j].kind = "decision"
                                          /\ file.lines[j].market = r.market
                                          /\ r.status = StatusIn(venue, file.lines[j])
      BY <3>1 DEF MayFollow
    <3>3. \A j \in DOMAIN file.lines : j \in 1..(i - 1) /\ all[j] = file.lines[j]
      BY <1>1, <1>2, <2>2
    <3>4. QED
      BY <3>1, <3>2, <3>3
  <2>3. QED
    BY <1>1, <1>2, <2>1, <2>2
<1>6. QED
  BY <1>4, <1>5 DEF all

-----------------------------------------------------------------------------
(***************************************************************************)
(* Appending, whole and cut short.                                         *)
(***************************************************************************)

LEMMA AppendKeeps ==
    ASSUME IInv, NEW r \in Record, file.tail = <<>> => MayFollow(r),
           file' = AppendLine(file, r), venue' = venue,
           \A i \in DOMAIN file.lines :
              up' => /\ file.lines[i].kind = "decision"   => file.lines[i].market \in decided'
                     /\ file.lines[i].kind = "settlement" => file.lines[i].market \in settled',
           r.kind = "decision" => r.market \in decided',
           r.kind = "settlement" => r.market \in settled'
    PROVE  IInv'
<1> DEFINE x == IF file.tail = <<>> THEN r ELSE Unparseable
<1>1. /\ file.lines \in Seq(Record) /\ DOMAIN file.lines = 1..Len(file.lines)
      /\ Len(file.lines) \in Nat
  BY FileParts DEF IInv
<1>2. x \in Record /\ MayFollow(x) /\ (x = r \/ x = Unparseable)
  BY RecordKinds DEF MayFollow
<1>3. file' = [lines |-> Append(file.lines, x), tail |-> <<>>]
  BY DEF AppendLine
<1> HIDE DEF x
<1>4. file'.lines = Append(file.lines, x) /\ file'.tail = <<>> /\ file'.lines \in Seq(Record)
  BY <1>1, <1>2, <1>3
<1>5. All(file)' = Append(file.lines, x)
  BY <1>1, <1>2, <1>4, ConcatEmptySeq DEF All
<1>6. Shape'
  <2>1. file' \in Files
    BY <1>3, <1>4 DEF Files
  <2>2. Len(file'.tail) <= 1
    BY <1>4
  <2>3. QED
    BY <2>1, <2>2 DEF Shape, IInv
<1>7. Known'
  <2>1. /\ DOMAIN file'.lines = 1..(Len(file.lines) + 1)
        /\ file'.lines[Len(file.lines) + 1] = x
        /\ \A i \in DOMAIN file.lines : file'.lines[i] = file.lines[i]
    BY <1>1, <1>4
  <2>2. /\ x.kind = "decision" => x.market \in decided'
        /\ x.kind = "settlement" => x.market \in settled'
    BY <1>2, RecordKinds
  <2>3. QED
    BY <1>1, <2>1, <2>2 DEF Known
<1>8. Once(Append(file.lines, x)) /\ Follows(venue, Append(file.lines, x))
  BY <1>2, OneMore
<1>9. Once(All(file))'
  BY <1>5, <1>8
<1>10. Follows(venue, All(file))'
  BY <1>5, <1>8
<1>11. QED
  BY <1>6, <1>7, <1>9, <1>10 DEF IInv

LEMMA CutKeeps ==
    ASSUME IInv, NEW r \in Record, file.tail = <<>> => MayFollow(r),
           file' \in AppendCutShort(file, r), venue' = venue,
           up' => up, UNCHANGED <<decided, settled>>
    PROVE  IInv'
<1>1. /\ file.lines \in Seq(Record) /\ file.tail \in Seq(Record) /\ file \in Files
      /\ Unparseable \in Record /\ Len(file.tail) <= 1
  BY FileParts, RecordKinds DEF IInv, Shape
<1>2. CASE file' = file
  <2>1. Once(All(file))' /\ Follows(venue, All(file))'
    BY <1>2 DEF IInv
  <2>2. Shape' /\ Known'
    BY <1>2 DEF IInv, Shape, Known
  <2>3. QED
    BY <2>1, <2>2 DEF IInv
<1>3. ASSUME NEW x \in Record, MayFollow(x), file' = [file EXCEPT !.tail = <<x>>]
      PROVE  IInv'
  <2>1. file' = [lines |-> file.lines, tail |-> <<x>>]
    BY <1>1, <1>3 DEF Files
  <2>2. file'.lines = file.lines /\ file'.tail = <<x>>
    BY <2>1
  <2>3. All(file)' = Append(file.lines, x)
    <3>1. file.lines \o <<x>> = Append(file.lines, x)
      BY <1>1, AppendIsConcat
    <3>2. QED
      BY <2>2, <3>1 DEF All
  <2>4. Shape'
    <3>1. <<x>> \in Seq(Record) /\ Len(<<x>>) = 1
      OBVIOUS
    <3>2. file' \in Files
      BY <1>1, <2>1, <3>1 DEF Files
    <3>3. QED
      BY <2>2, <3>1, <3>2 DEF Shape, IInv
  <2>5. Known'
    BY <2>2 DEF IInv, Known
  <2>6. Once(Append(file.lines, x)) /\ Follows(venue, Append(file.lines, x))
    BY <1>3, OneMore
  <2>7. Once(All(file))'
    BY <2>3, <2>6
  <2>8. Follows(venue, All(file))'
    BY <2>3, <2>6
  <2>9. QED
    BY <2>4, <2>5, <2>7, <2>8 DEF IInv
<1>4. \/ file' = file
      \/ file' = [file EXCEPT !.tail = <<Unparseable>>]
      \/ file.tail = <<>> /\ file' = [file EXCEPT !.tail = <<r>>]
  BY DEF AppendCutShort
<1>5. MayFollow(Unparseable)
  BY DEF MayFollow
<1>6. QED
  BY <1>1, <1>2, <1>3, <1>4, <1>5

\* Steps that write nothing.
LEMMA NoWriteKeeps ==
    ASSUME IInv, UNCHANGED <<file, venue, decided, settled>>, up' => up
    PROVE  IInv'
<1>1. Once(All(file))' /\ Follows(venue, All(file))'
  BY DEF IInv
<1>2. Shape' /\ Known'
  BY DEF IInv, Shape, Known
<1>3. QED
  BY <1>1, <1>2 DEF IInv

-----------------------------------------------------------------------------
(***************************************************************************)
(* The records of evaluate() and settle().                                 *)
(***************************************************************************)

\* A decision on a market that is not known to be decided.
LEMMA DecisionMayFollow ==
    ASSUME IInv, NEW m \in Market, MayEvaluate(m),
           NEW r \in DecisionRec, r.market = m
    PROVE  r \in Record /\ r.kind = "decision" /\ MayFollow(r)
<1>1. r \in Record /\ r.kind = "decision"
  BY DecisionMoney DEF Record
<1>2. \A i \in DOMAIN file.lines : file.lines[i].kind = "decision" => file.lines[i].market # m
  BY DEF IInv, Known, MayEvaluate
<1>3. QED
  BY <1>1, <1>2 DEF MayFollow

LEMMA SkipIsDecision ==
    ASSUME NEW m \in Market
    PROVE  Skipped(m) \in DecisionRec /\ Skipped(m).market = m
  BY DEF Skipped, Decision, NoFill, DecisionRec, SkipRec

LEMMA TradeIsDecision ==
    ASSUME NEW m \in Market, NEW side \in Side, NEW fill \in Fill
    PROVE  /\ Traded(m, side, fill) \in DecisionRec
           /\ Traded(m, side, fill).market = m
<1>1. Traded(m, side, fill) \in TradeRec /\ Traded(m, side, fill).market = m
  BY DEF Traded, Decision, TradeRec
<1>2. QED
  BY <1>1 DEF DecisionRec

LEMMA StatusSame ==
    \A d : StatusOf(d) = StatusIn(venue, d)
  BY DEF StatusOf, StatusIn, Won

LEMMA SettlementMayFollow ==
    ASSUME IInv, NEW d \in Pending(file), MaySettle(d), d.market \notin settled
    PROVE  LET r == SettlementOf(d)
           IN  /\ r \in Record /\ r.kind = "settlement" /\ r.market = d.market
               /\ d.market \in Market /\ MayFollow(IF file.tail = <<>> THEN r ELSE Unparseable)
<1> DEFINE r == SettlementOf(d)
<1>1. d \in Readable(file) /\ d.kind = "decision" /\ d # Unparseable
  BY DEF Pending, OfKind, Readable
<1>2. \E i \in DOMAIN All(file) : All(file)[i] = d
  BY <1>1 DEF Readable, ToSet, All
<1>3. d \in Record
  <2>1. All(file) \in Seq(Record)
    BY ConcatProperties DEF IInv, Shape, Files, All
  <2>2. QED
    BY <1>2, <2>1
<1>4. d \in DecisionRec
  BY <1>1, <1>3 DEF Record, SettlementRec
<1>5. /\ d.market \in Market /\ d.cost \in 0..MaxCost /\ d.shares \in 0..MaxShares
      /\ MaxCost \in Nat /\ MaxShares \in Nat
  BY <1>4, DecisionMoney
<1>6. StatusOf(d) \in {"REJECTED", "VOIDED", "SETTLED_WIN", "SETTLED_LOSS"}
  BY DEF StatusOf
<1>7. (IF d.traded THEN PayoffOf(d) - d.cost ELSE 0) \in (-MaxCost)..MaxShares
  <2>1. PayoffOf(d) = d.cost \/ PayoffOf(d) = d.shares \/ PayoffOf(d) = 0
    BY DEF PayoffOf
  <2>2. QED
    BY <1>5, <2>1
<1>8. r \in Record /\ r.kind = "settlement" /\ r.market = d.market /\ r.status = StatusOf(d)
  BY <1>5, <1>6, <1>7 DEF SettlementOf, Settlement, Record, SettlementRec
<1> HIDE DEF r
<1>9. CASE file.tail = <<>>
  <2>1. All(file) = file.lines
    BY <1>9, FileParts DEF IInv
  <2>2. \E j \in DOMAIN file.lines : file.lines[j] = d
    BY <1>2, <2>1
  <2>3. \A i \in DOMAIN file.lines : file.lines[i].kind = "settlement" => file.lines[i].market # d.market
    BY DEF IInv, Known, MaySettle
  <2>4. venue[d.market] # "open"
    BY DEF MaySettle, DuePending
  <2>5. MayFollow(r)
    BY <1>1, <1>8, <2>2, <2>3, <2>4, StatusSame DEF MayFollow
  <2>6. QED
    BY <1>5, <1>8, <1>9, <2>5 DEF r
<1>10. CASE file.tail # <<>>
  BY <1>5, <1>8, <1>10 DEF MayFollow, r
<1>11. QED
  BY <1>9, <1>10

-----------------------------------------------------------------------------
(***************************************************************************)
(* The steps.                                                              *)
(***************************************************************************)

LEMMA InitHolds == Init => IInv
<1> SUFFICES ASSUME Init PROVE IInv
  OBVIOUS
<1>1. file.lines = <<>> /\ file.tail = <<>> /\ file = [lines |-> <<>>, tail |-> <<>>]
  BY DEF Init, EmptyFile
<1>2. <<>> \in Seq(Record) /\ Len(<<>>) = 0 /\ <<>> \o <<>> = <<>>
  OBVIOUS
<1>3. All(file) = <<>> /\ DOMAIN All(file) = {}
  BY <1>1, <1>2 DEF All
<1>4. file \in Files /\ Len(file.tail) <= 1
  BY <1>1, <1>2 DEF Files
<1>5. venue \in [Market -> Published]
  BY DEF Init, Published
<1>6. DOMAIN file.lines = {}
  BY <1>1
<1>7. Once(All(file)) /\ Follows(venue, All(file))
  BY <1>3 DEF Once, Follows
<1>8. Shape /\ Known
  BY <1>4, <1>5, <1>6 DEF Shape, Known
<1>9. QED
  BY <1>7, <1>8 DEF IInv

\* A settlement is of a published market, so publishing another one leaves the
\* settlements and the decisions they settle alone.
LEMMA PublishKeeps ==
    ASSUME IInv, NEW m \in Market, NEW outcome \in Published \ {"open"}, Publish(m, outcome)
    PROVE  IInv'
<1>1. /\ venue \in [Market -> Published] /\ venue[m] = "open"
      /\ venue' = [venue EXCEPT ![m] = outcome]
      /\ file' = file /\ up' = up /\ decided' = decided /\ settled' = settled
  BY DEF Publish, memory, IInv, Shape
<1>2. \A k : k # m => venue'[k] = venue[k]
  BY <1>1
<1>3. Shape' /\ Known' /\ Once(All(file))'
  BY <1>1 DEF IInv, Shape, Known
<1>4. Follows(venue', All(file))
  <2> DEFINE all == All(file)
  <2>1. Follows(venue, all)
    BY DEF IInv
  <2> HIDE DEF all
  <2> SUFFICES ASSUME NEW i \in DOMAIN all, all[i].kind = "settlement"
               PROVE  /\ venue'[all[i].market] # "open"
                      /\ \E j \in 1..(i - 1) : /\ all[j].kind = "decision"
                                               /\ all[j].market = all[i].market
                                               /\ all[i].status = StatusIn(venue', all[j])
    BY DEF Follows, all
  <2>2. /\ venue[all[i].market] # "open"
        /\ \E j \in 1..(i - 1) : /\ all[j].kind = "decision" /\ all[j].market = all[i].market
                                 /\ all[i].status = StatusIn(venue, all[j])
    BY <2>1 DEF Follows
  <2>3. venue'[all[i].market] = venue[all[i].market]
    BY <1>1, <1>2, <2>2
  <2>4. \A j \in 1..(i - 1) : all[j].market = all[i].market
                                => StatusIn(venue', all[j]) = StatusIn(venue, all[j])
    BY <2>3 DEF StatusIn
  <2>5. QED
    BY <2>2, <2>3, <2>4
<1>5. QED
  BY <1>1, <1>3, <1>4 DEF IInv

LEMMA DecisionsWritten ==
    ASSUME IInv, NEW r \in DecisionsBeingWritten
    PROVE  r \in Record /\ up /\ MayFollow(r)
<1> DEFINE due == {m \in Market : MayEvaluate(m)}
<1>1. \/ \E m \in due : r = Skipped(m)
      \/ \E m \in due, side \in Side, fill \in FillsAllowed : r = Traded(m, side, fill)
  BY DEF DecisionsBeingWritten
<1>2. CASE \E m \in due : r = Skipped(m)
  <2>1. PICK m \in Market : MayEvaluate(m) /\ r = Skipped(m)
    BY <1>2
  <2>2. r \in DecisionRec /\ r.market = m
    BY <2>1, SkipIsDecision
  <2>3. QED
    BY <2>1, <2>2, DecisionMayFollow DEF MayEvaluate
<1>3. CASE \E m \in due, side \in Side, fill \in FillsAllowed : r = Traded(m, side, fill)
  <2>1. PICK m \in due, side \in Side, fill \in FillsAllowed : r = Traded(m, side, fill)
    BY <1>3
  <2>2. m \in Market /\ MayEvaluate(m)
    OBVIOUS
  <2>3. fill \in Fill
    BY DEF FillsAllowed
  <2>4. r \in DecisionRec /\ r.market = m
    BY <2>1, <2>2, <2>3, TradeIsDecision
  <2>5. QED
    BY <2>2, <2>4, DecisionMayFollow DEF MayEvaluate
<1>4. QED
  BY <1>1, <1>2, <1>3

LEMMA SettlementsWritten ==
    ASSUME IInv, NEW r \in SettlementsBeingWritten
    PROVE  r \in Record /\ up /\ (file.tail = <<>> => MayFollow(r))
<1>1. PICK d \in Pending(file) : MaySettle(d) /\ d.market \notin settled /\ r = SettlementOf(d)
  BY DEF SettlementsBeingWritten
<1>2. QED
  BY <1>1, SettlementMayFollow DEF MaySettle

LEMMA SkipKeeps ==
    ASSUME IInv, NEW m \in Market, Skip(m)
    PROVE  IInv'
<1> DEFINE r == Skipped(m)
<1>1. r \in DecisionRec /\ r.market = m
  BY SkipIsDecision
<1>2. /\ file' = AppendLine(file, r) /\ decided' = decided \cup {m} /\ MayEvaluate(m)
      /\ settled' = settled /\ venue' = venue /\ up' = up
  BY <1>1 DEF Skip, RecordDecision
<1> HIDE DEF r
<1>3. r \in Record /\ r.kind = "decision" /\ MayFollow(r)
  BY <1>1, <1>2, DecisionMayFollow
<1>4. QED
  BY <1>1, <1>2, <1>3, AppendKeeps DEF IInv, Known

LEMMA TradeKeeps ==
    ASSUME IInv, NEW m \in Market, NEW side \in Side, NEW fill \in Fill, Trade(m, side, fill)
    PROVE  IInv'
<1> DEFINE r == Traded(m, side, fill)
<1>1. r \in DecisionRec /\ r.market = m
  BY TradeIsDecision
<1>2. /\ file' = AppendLine(file, r) /\ decided' = decided \cup {m} /\ MayEvaluate(m)
      /\ settled' = settled /\ venue' = venue /\ up' = up
  BY <1>1 DEF Trade, RecordDecision
<1> HIDE DEF r
<1>3. r \in Record /\ r.kind = "decision" /\ MayFollow(r)
  BY <1>1, <1>2, DecisionMayFollow
<1>4. QED
  BY <1>1, <1>2, <1>3, AppendKeeps DEF IInv, Known

LEMMA SettleKeeps ==
    ASSUME IInv, NEW d \in Pending(file), Settle(d)
    PROVE  IInv'
<1> DEFINE r == SettlementOf(d)
<1>1. venue' = venue /\ up' = up /\ decided' = decided /\ MaySettle(d)
  BY DEF Settle
<1>2. CASE d.market \in settled
  <2>1. r.market = d.market
    BY DEF SettlementOf, Settlement
  <2>2. UNCHANGED <<file, venue, decided, settled>>
    BY <1>1, <1>2, <2>1 DEF Settle, RecordSettlement
  <2>3. QED
    BY <1>1, <2>2, NoWriteKeeps
<1>3. CASE d.market \notin settled
  <2>1. /\ r \in Record /\ r.kind = "settlement" /\ r.market = d.market
        /\ file.tail = <<>> => MayFollow(r)
    BY <1>1, <1>3, SettlementMayFollow
  <2>2. file' = AppendLine(file, r) /\ settled' = settled \cup {d.market}
    BY <1>3, <2>1 DEF Settle, RecordSettlement
  <2> HIDE DEF r
  <2>3. QED
    BY <1>1, <2>1, <2>2, AppendKeeps DEF IInv, Known
<1>4. QED
  BY <1>2, <1>3

\* A new process reads its keys from the file.
LEMMA RestartKeeps ==
    ASSUME IInv, Restart
    PROVE  IInv'
<1>1. /\ venue' = venue /\ file' = file
      /\ decided' = Named(file, "decision") /\ settled' = Named(file, "settlement")
  BY DEF Restart
<1>2. \A i \in DOMAIN file.lines : \E j \in DOMAIN All(file) : All(file)[j] = file.lines[i]
  <2>1. /\ file.lines \in Seq(Record) /\ Len(file.lines) \in Nat
        /\ DOMAIN file.lines = 1..Len(file.lines)
        /\ \/ All(file) = file.lines
           \/ \E r \in Record : All(file) = Append(file.lines, r)
    BY FileParts DEF IInv
  <2>2. QED
    BY <2>1
<1>3. \A i \in DOMAIN file.lines : file.lines[i] # Unparseable => file.lines[i] \in Readable(file)
  BY <1>2 DEF Readable, ToSet, All
<1>4. \A i \in DOMAIN file.lines :
         /\ file.lines[i].kind = "decision"   => file.lines[i].market \in decided'
         /\ file.lines[i].kind = "settlement" => file.lines[i].market \in settled'
  BY <1>1, <1>3, RecordKinds DEF Named, OfKind
<1>5. Known'
  BY <1>1, <1>4 DEF Known
<1>6. Shape' /\ Once(All(file))' /\ Follows(venue, All(file))'
  BY <1>1 DEF IInv, Shape
<1>7. QED
  BY <1>5, <1>6 DEF IInv

LEMMA StepKeeps == IInv /\ [Next]_vars => IInv'
<1> SUFFICES ASSUME IInv, [Next]_vars PROVE IInv'
  OBVIOUS
<1>1. CASE Tick
  BY <1>1, NoWriteKeeps DEF Tick, memory
<1>2. CASE \E m \in Market, outcome \in Published \ {"open"} : Publish(m, outcome)
  BY <1>2, PublishKeeps
<1>3. CASE \E m \in Market : Skip(m)
  BY <1>3, SkipKeeps
<1>4. CASE \E m \in Market, side \in Side, fill \in Fill : Trade(m, side, fill)
  BY <1>4, TradeKeeps
<1>5. CASE \E m \in Market : SettleSome(m)
  BY <1>5, SettleKeeps DEF SettleSome
<1>6. CASE \E rec \in DecisionsBeingWritten : EvaluateFails(rec)
  <2>1. PICK rec \in DecisionsBeingWritten : EvaluateFails(rec)
    BY <1>6
  <2>2. rec \in Record /\ MayFollow(rec)
    BY DecisionsWritten
  <2>3. /\ file' \in AppendCutShort(file, rec) /\ venue' = venue /\ up' = up
        /\ UNCHANGED <<decided, settled>>
    BY <2>1 DEF EvaluateFails
  <2>4. QED
    BY <2>2, <2>3, CutKeeps
<1>7. CASE \E d \in Pending(file) : SettleFails(d)
  <2>1. PICK d \in Pending(file) : SettleFails(d)
    BY <1>7
  <2>2. MaySettle(d) /\ d.market \notin settled
    BY <2>1 DEF SettleFails
  <2>3. SettlementOf(d) \in Record /\ (file.tail = <<>> => MayFollow(SettlementOf(d)))
    BY <2>2, SettlementMayFollow
  <2>4. /\ file' \in AppendCutShort(file, SettlementOf(d)) /\ venue' = venue /\ up' = up
        /\ UNCHANGED <<decided, settled>>
    BY <2>1 DEF SettleFails
  <2>5. QED
    BY <2>3, <2>4, CutKeeps
<1>8. CASE Crash
  <2>1. /\ up /\ up' = FALSE /\ venue' = venue /\ UNCHANGED <<decided, settled>>
        /\ \/ file' = file
           \/ \E rec \in DecisionsBeingWritten \cup SettlementsBeingWritten :
                 file' \in AppendCutShort(file, rec)
    BY <1>8 DEF Crash, memory
  <2>2. CASE file' = file
    BY <2>1, <2>2, NoWriteKeeps
  <2>3. ASSUME NEW rec \in DecisionsBeingWritten \cup SettlementsBeingWritten,
               file' \in AppendCutShort(file, rec)
        PROVE  IInv'
    <3>1. rec \in Record /\ (file.tail = <<>> => MayFollow(rec))
      BY DecisionsWritten, SettlementsWritten
    <3>2. QED
      BY <2>1, <2>3, <3>1, CutKeeps
  <2>4. QED
    BY <2>1, <2>2, <2>3
<1>9. CASE Restart
  BY <1>9, RestartKeeps
<1>10. CASE UNCHANGED vars
  BY <1>10, NoWriteKeeps DEF vars, memory
<1>11. QED
  BY <1>1, <1>2, <1>3, <1>4, <1>5, <1>6, <1>7, <1>8, <1>9, <1>10 DEF Next

LEMMA Replays == IInv => JournalIsSound
<1> SUFFICES ASSUME IInv PROVE JournalIsSound
  OBVIOUS
<1> DEFINE all == All(file)
<1>1. /\ Once(all) /\ Follows(venue, all)
      /\ \A r \in Readable(file) : r # Unparseable /\ \E i \in DOMAIN all : all[i] = r
  BY DEF IInv, Readable, ToSet, All
<1>2. \A i \in DOMAIN all : all[i] \in Record
  <2>1. all \in Seq(Record)
    BY ConcatProperties DEF IInv, Shape, Files, All
  <2>2. QED
    BY <2>1
<1>3. all = file.lines \o file.tail
  BY DEF All
<1> HIDE DEF all
<1>4. RecordedOnce
  <2> SUFFICES ASSUME NEW r \in Readable(file), NEW s \in Readable(file),
                      r.kind = s.kind, r.market = s.market
               PROVE  r = s
    BY DEF RecordedOnce
  <2>1. PICK i \in DOMAIN all : all[i] = r
    BY <1>1
  <2>2. PICK j \in DOMAIN all : all[j] = s
    BY <1>1
  <2>3. r.kind \in {"decision", "settlement"}
    BY <1>1, <1>2, <2>1, RecordKinds
  <2>4. QED
    BY <1>1, <2>1, <2>2, <2>3 DEF Once
<1>5. SettlesItsDecision
  <2> SUFFICES ASSUME NEW i \in DOMAIN all, all[i].kind = "settlement"
               PROVE  \E j \in 1..(i - 1) : /\ all[j].kind = "decision"
                                            /\ all[j].market = all[i].market
                                            /\ all[i].status = StatusOf(all[j])
    BY <1>3 DEF SettlesItsDecision
  <2>1. \E j \in 1..(i - 1) : /\ all[j].kind = "decision" /\ all[j].market = all[i].market
                              /\ all[i].status = StatusIn(venue, all[j])
    BY <1>1 DEF Follows
  <2>2. QED
    BY <2>1, StatusSame
<1>6. QED
  BY <1>4, <1>5 DEF JournalIsSound

-----------------------------------------------------------------------------
\* However often the process is killed or refused a write, the journal replays
\* to one history: a market has one decision and one settlement, which comes
\* after the decision and carries its result (paper/journal.py:226-289).
THEOREM Replay == Spec => []JournalIsSound
<1>1. Init => IInv
  BY InitHolds
<1>2. IInv /\ [Next]_vars => IInv'
  BY StepKeeps
<1>3. IInv => JournalIsSound
  BY Replays
<1>4. QED
  BY <1>1, <1>2, <1>3, PTL DEF Spec

-----------------------------------------------------------------------------
(***************************************************************************)
(* The records a reader finds.                                             *)
(***************************************************************************)

LEMMA SetOfConcat ==
    ASSUME NEW S, NEW s \in Seq(S), NEW t \in Seq(S)
    PROVE  ToSet(s \o t) = ToSet(s) \cup ToSet(t)
<1> DEFINE u == s \o t
<1>1. /\ Len(s) \in Nat /\ Len(t) \in Nat
      /\ DOMAIN s = 1..Len(s) /\ DOMAIN t = 1..Len(t) /\ DOMAIN u = 1..(Len(s) + Len(t))
      /\ \A i \in 1..Len(s) : u[i] = s[i]
      /\ \A i \in 1..Len(t) : u[Len(s) + i] = t[i]
  OBVIOUS
<1> HIDE DEF u
<1>2. ASSUME NEW i \in DOMAIN u PROVE u[i] \in ToSet(s) \cup ToSet(t)
  <2>1. CASE i \in 1..Len(s)
    BY <1>1, <2>1 DEF ToSet
  <2>2. CASE i \notin 1..Len(s)
    <3>1. i - Len(s) \in 1..Len(t) /\ i = Len(s) + (i - Len(s))
      BY <1>1, <2>2
    <3>2. u[i] = t[i - Len(s)]
      BY <1>1, <3>1
    <3>3. QED
      BY <1>1, <3>1, <3>2 DEF ToSet
  <2>3. QED
    BY <2>1, <2>2
<1>3. ASSUME NEW i \in DOMAIN s PROVE s[i] \in ToSet(u)
  BY <1>1 DEF ToSet
<1>4. ASSUME NEW i \in DOMAIN t PROVE t[i] \in ToSet(u)
  <2>1. Len(s) + i \in DOMAIN u /\ t[i] = u[Len(s) + i]
    BY <1>1
  <2>2. QED
    BY <2>1 DEF ToSet
<1>5. QED
  BY <1>2, <1>3, <1>4 DEF ToSet, u

LEMMA SetOfFew ==
    /\ ToSet(<<>>) = {}
    /\ \A x : ToSet(<<x>>) = {x}
<1>1. ToSet(<<>>) = {}
  BY DEF ToSet
<1>2. ASSUME NEW x PROVE ToSet(<<x>>) = {x}
  <2>1. DOMAIN <<x>> = {1} /\ <<x>>[1] = x
    OBVIOUS
  <2>2. QED
    BY <2>1 DEF ToSet
<1>3. QED
  BY <1>1, <1>2

\* A reader finds the finished lines and the unfinished one, where they parse.
LEMMA ReadableOf ==
    ASSUME NEW f \in Files
    PROVE  /\ Readable(f) = (ToSet(f.lines) \cup ToSet(f.tail)) \ {Unparseable}
           /\ Readable(f) \subseteq DecisionRec \cup SettlementRec
<1>1. f.lines \in Seq(Record) /\ f.tail \in Seq(Record)
  BY DEF Files
<1>2. Readable(f) = (ToSet(f.lines) \cup ToSet(f.tail)) \ {Unparseable}
  BY <1>1, SetOfConcat DEF Readable
<1>3. ToSet(f.lines) \subseteq Record /\ ToSet(f.tail) \subseteq Record
  BY <1>1 DEF ToSet
<1>4. QED
  BY <1>2, <1>3 DEF Record

\* A tail is nothing, or one line.
Tails(f) == f.tail = <<>> \/ \E x \in Record : f.tail = <<x>>

LEMMA TailCases ==
    ASSUME NEW f \in Files, Len(f.tail) <= 1
    PROVE  Tails(f)
<1>1. f.tail \in Seq(Record)
  BY DEF Files
<1>2. CASE f.tail # <<>>
  <2>1. PICK t \in Seq(Record) : t = f.tail /\ t # <<>> /\ Len(t) <= 1
    BY <1>1, <1>2
  <2>2. Len(t) \in Nat /\ Len(t) # 0 /\ Len(t) <= 1
    BY <2>1, EmptySeq
  <2>3. Len(t) = 1
    <3>1. \A n \in Nat : n # 0 /\ n <= 1 => n = 1
      OBVIOUS
    <3>2. QED
      BY <2>2, <3>1
  <2>4. t = <<t[1]>> /\ t[1] \in Record
    BY <2>1, <2>3
  <2>5. QED
    BY <2>1, <2>4 DEF Tails
<1>3. QED
  BY <1>2 DEF Tails

\* What an append adds and what it destroys.
LEMMA AppendReads ==
    ASSUME NEW f \in Files, NEW r \in Record
    PROVE  /\ AppendLine(f, r) \in Files
           /\ f.tail = <<>> /\ r # Unparseable =>
                 Readable(AppendLine(f, r)) = Readable(f) \cup {r}
           /\ \A x : f.tail = <<x>> =>
                 /\ Readable(AppendLine(f, r)) = ToSet(f.lines) \ {Unparseable}
                 /\ Readable(f) = (ToSet(f.lines) \cup {x}) \ {Unparseable}
<1>1. f.lines \in Seq(Record) /\ f.tail \in Seq(Record) /\ Unparseable \in Record
  BY RecordKinds DEF Files
<1> DEFINE y == IF f.tail = <<>> THEN r ELSE Unparseable
           g == AppendLine(f, r)
<1>2. /\ y \in Record
      /\ f.tail = <<>> => y = r
      /\ f.tail # <<>> => y = Unparseable
  BY <1>1
<1>3. /\ g = [lines |-> Append(f.lines, y), tail |-> <<>>]
      /\ g.lines = Append(f.lines, y) /\ g.tail = <<>>
  BY DEF AppendLine
<1> HIDE DEF g, y
<1>4. g \in Files
  <2>1. Append(f.lines, y) \in Seq(Record) /\ <<>> \in Seq(Record)
    BY <1>1, <1>2
  <2>2. QED
    BY <1>3, <2>1 DEF Files
<1>5. Append(f.lines, y) = f.lines \o <<y>> /\ <<y>> \in Seq(Record)
  BY <1>1, <1>2, AppendIsConcat
<1>6. ToSet(g.lines) = ToSet(f.lines) \cup {y}
  <2>1. ToSet(f.lines \o <<y>>) = ToSet(f.lines) \cup ToSet(<<y>>)
    BY ONLY <1>1, <1>5, SetOfConcat, ZenonT(60)
  <2>2. ToSet(<<y>>) = {y}
    BY SetOfFew
  <2>3. QED
    BY <1>3, <1>5, <2>1, <2>2
<1>7. Readable(g) = (ToSet(f.lines) \cup {y}) \ {Unparseable}
  BY <1>3, <1>4, <1>6, ReadableOf, SetOfFew
<1>8. Readable(f) = (ToSet(f.lines) \cup ToSet(f.tail)) \ {Unparseable}
  BY ReadableOf
<1>9. ASSUME NEW x, f.tail = <<x>>
      PROVE  /\ Readable(g) = ToSet(f.lines) \ {Unparseable}
             /\ Readable(f) = (ToSet(f.lines) \cup {x}) \ {Unparseable}
  <2>1. f.tail # <<>> /\ ToSet(f.tail) = {x}
    BY <1>9, SetOfFew
  <2>2. QED
    BY <1>2, <1>7, <1>8, <2>1
<1>10. ASSUME f.tail = <<>>, r # Unparseable
       PROVE  Readable(g) = Readable(f) \cup {r}
  BY <1>2, <1>7, <1>8, <1>10, SetOfFew
<1>11. QED
  BY <1>4, <1>9, <1>10 DEF g

\* What a write cut short leaves.
LEMMA CutReads ==
    ASSUME NEW f \in Files, NEW r \in Record, NEW g \in AppendCutShort(f, r)
    PROVE  /\ g \in Files
           /\ \/ g = f
              \/ g.tail = <<Unparseable>> /\ Readable(g) = ToSet(f.lines) \ {Unparseable}
              \/ f.tail = <<>> /\ g.tail = <<r>> /\ Readable(f) \subseteq Readable(g)
<1>1. f.lines \in Seq(Record) /\ Unparseable \in Record /\ f = [lines |-> f.lines, tail |-> f.tail]
  BY RecordKinds DEF Files
<1>2. \/ g = f
      \/ g = [lines |-> f.lines, tail |-> <<Unparseable>>]
      \/ f.tail = <<>> /\ g = [lines |-> f.lines, tail |-> <<r>>]
  BY <1>1 DEF AppendCutShort
<1>3. ASSUME NEW x \in Record, g = [lines |-> f.lines, tail |-> <<x>>]
      PROVE  g \in Files /\ Readable(g) = (ToSet(f.lines) \cup {x}) \ {Unparseable} /\ g.tail = <<x>>
  <2>1. <<x>> \in Seq(Record) /\ g.lines = f.lines /\ g.tail = <<x>>
    BY <1>3
  <2>2. g \in Files
    BY <1>1, <1>3, <2>1 DEF Files
  <2>3. QED
    BY <2>1, <2>2, ReadableOf, SetOfFew
<1>4. f.tail = <<>> => Readable(f) = ToSet(f.lines) \ {Unparseable}
  BY ReadableOf, SetOfFew
<1>5. CASE g = [lines |-> f.lines, tail |-> <<Unparseable>>]
  BY <1>1, <1>3, <1>5
<1>6. CASE f.tail = <<>> /\ g = [lines |-> f.lines, tail |-> <<r>>]
  BY <1>3, <1>4, <1>6
<1>7. QED
  BY <1>2, <1>5, <1>6

-----------------------------------------------------------------------------
(***************************************************************************)
(* Types.                                                                  *)
(***************************************************************************)

Labelled == {"decision", "settlement"} \X Market

Rest ==
    /\ now \in Time /\ up \in BOOLEAN /\ st \in RiskState
    /\ decided \in SUBSET Market /\ settled \in SUBSET Market
    /\ crashes \in 0..MaxCrashes /\ writeErrors \in 0..MaxWriteErrors
    /\ known \in SUBSET Labelled
    /\ closes \in [Market -> 0..MaxCloses]

LEMMA NamesTyped ==
    ASSUME NEW f \in Files
    PROVE  /\ \A r \in Readable(f) : /\ r.kind \in {"decision", "settlement"}
                                     /\ r.market \in Market
           /\ \A kind : Named(f, kind) \subseteq Market
           /\ Labels(f) \subseteq Labelled
<1>1. \A r \in Readable(f) : r.kind \in {"decision", "settlement"} /\ r.market \in Market
  BY ReadableOf, RecordKinds DEF Record, Unparseable, DecisionRec, TradeRec, SkipRec, SettlementRec
<1>2. \A kind : Named(f, kind) \subseteq Market
  BY <1>1 DEF Named, OfKind
<1>3. Labels(f) \subseteq Labelled
  BY <1>1 DEF Labels, Labelled
<1>4. QED
  BY <1>1, <1>2, <1>3

LEMMA PendingIsDecision ==
    ASSUME file \in Files, NEW d \in Pending(file)
    PROVE  /\ d \in DecisionRec /\ d \in Readable(file)
           /\ d.market \notin Named(file, "settlement")
<1>1. d \in Readable(file) /\ d.kind = "decision" /\ d.market \notin Named(file, "settlement")
  BY DEF Pending, OfKind
<1>2. d \in DecisionRec \cup SettlementRec
  BY <1>1, ReadableOf
<1>3. d \in DecisionRec
  BY <1>1, <1>2 DEF SettlementRec
<1>4. QED
  BY <1>1, <1>3

\* What settle() does to the ledger.
LEMMA LedgerOfSettle ==
    ASSUME st \in RiskState, now \in Time, NEW d \in DecisionRec
    PROVE  /\ d.traded => /\ PayoffOf(d) \in Payoffs
                          /\ ClosedTo(st, now, d.cost, PayoffOf(d), LedgerAfter(d))
           /\ ~d.traded => LedgerAfter(d) = st
           /\ PayoffOf(d) \in Nat
           /\ LedgerAfter(d) \in RiskState
<1>1. d.cost \in Nat /\ d.shares \in Nat /\ d.traded \in BOOLEAN
  BY DecisionMoney
<1>2. PayoffOf(d) = d.cost \/ PayoffOf(d) = d.shares \/ PayoffOf(d) = 0
  BY DEF PayoffOf
<1>3. PayoffOf(d) \in Nat
  BY <1>1, <1>2
<1>4. ClosedTo(st, now, d.cost, PayoffOf(d), RegisterClose(st, now, d.cost, PayoffOf(d)))
  BY <1>1, <1>3, CloseFacts
<1>5. ASSUME d.traded
      PROVE  /\ PayoffOf(d) \in Payoffs /\ LedgerAfter(d) \in RiskState
             /\ ClosedTo(st, now, d.cost, PayoffOf(d), LedgerAfter(d))
  <2>1. LedgerAfter(d) = RegisterClose(st, now, d.cost, PayoffOf(d))
    BY <1>5 DEF LedgerAfter
  <2>2. d.cost \in {fill.cost : fill \in Fill} /\ d.shares \in {fill.shares : fill \in Fill}
    BY <1>5, DecisionMoney
  <2>3. PayoffOf(d) \in Payoffs
    BY <1>2, <2>2 DEF Payoffs
  <2>4. ClosedTo(st, now, d.cost, PayoffOf(d), LedgerAfter(d))
    BY <1>4, <2>1
  <2>5. LedgerAfter(d) \in RiskState
    BY <2>4 DEF ClosedTo
  <2>6. QED
    BY <2>3, <2>4, <2>5
<1>6. ~d.traded => LedgerAfter(d) = st
  BY DEF LedgerAfter
<1>7. QED
  BY <1>1, <1>3, <1>5, <1>6

LEMMA SkipLedger ==
    ASSUME st \in RiskState, now \in Time, NEW r \in LedgersOfSkip
    PROVE  /\ r \in RiskState /\ r.bankroll = st.bankroll
           /\ r.exposure = st.exposure /\ r.positions = st.positions
  BY RollFacts DEF LedgersOfSkip

\* register_open() after check(), for a fill that check() allowed.
LEMMA TradeLedger ==
    ASSUME st \in RiskState, now \in Time, NEW fill \in FillsAllowed,
           NEW r, r = RegisterOpen(RollPeriods(st, now), fill.cost)
    PROVE  /\ r \in RiskState /\ fill \in Fill /\ fill.cost \in 1..MaxCost
           /\ r.bankroll = st.bankroll - fill.cost
           /\ r.exposure = st.exposure + fill.cost
           /\ r.positions = st.positions + 1
           /\ r.positions <= MaxConcurrent
           /\ r.exposure <= MaxExposure + MaxFee
<1> DEFINE rolled == RollPeriods(st, now)
<1>1. /\ rolled \in RiskState /\ rolled.bankroll = st.bankroll
      /\ rolled.exposure = st.exposure /\ rolled.positions = st.positions
  BY RollFacts
<1>2. PICK stake \in Stakes(st) : Allowed(rolled, now, FALSE, stake) /\ fill.cost <= stake + MaxFee
  BY DEF FillsAllowed
<1>3. fill \in Fill /\ fill.cost \in 1..MaxCost /\ MaxCost \in Nat
  BY MarketAssumption, MaxCostType DEF FillsAllowed
<1>4. rolled.positions < MaxConcurrent /\ rolled.exposure + stake <= MaxExposure
  BY <1>2 DEF Allowed, RoomForPosition
<1>5. stake \in Nat /\ fill.cost \in Nat
  BY <1>3, LimitsAssumption DEF Stakes
<1>11. r = RegisterOpen(rolled, fill.cost)
  OBVIOUS
<1> HIDE DEF rolled
<1>6. /\ r \in RiskState /\ r.bankroll = rolled.bankroll - fill.cost
      /\ r.exposure = rolled.exposure + fill.cost /\ r.positions = rolled.positions + 1
  BY ONLY <1>1, <1>5, <1>11, OpenFacts, ZenonT(60)
<1>7. /\ rolled.positions \in Nat /\ rolled.exposure \in Nat
      /\ MaxConcurrent \in Nat /\ MaxExposure \in Nat /\ MaxFee \in Nat
  BY <1>1, LimitsAssumption DEF RiskState
<1>8. r.positions <= MaxConcurrent
  BY <1>4, <1>6, <1>7
<1>9. r.exposure <= MaxExposure + MaxFee
  BY <1>2, <1>4, <1>5, <1>6, <1>7
<1>10. QED
  BY <1>1, <1>3, <1>6, <1>8, <1>9

LEMMA InitTyped == Init => Rest
<1> SUFFICES ASSUME Init PROVE Rest
  OBVIOUS
<1>1. FreshLedger \in RiskState
  BY FreshTyped
<1>2. 0 \in 0..MaxCrashes /\ 0 \in 0..MaxWriteErrors /\ 0 \in 0..MaxCloses /\ 0 \in Time
  BY MarketAssumption, CalendarAssumption DEF Time
<1>3. QED
  BY <1>1, <1>2 DEF Init, Rest

\* A close counted.
LEMMA OneMoreClose ==
    ASSUME Rest, NEW d \in DecisionRec, d.traded => closes[d.market] < MaxCloses,
           closes' = [closes EXCEPT ![d.market] = IF d.traded THEN @ + 1 ELSE @]
    PROVE  closes' \in [Market -> 0..MaxCloses]
<1>1. d.market \in Market /\ closes \in [Market -> 0..MaxCloses] /\ MaxCloses \in Nat
  BY DecisionMoney, MarketAssumption DEF Rest
<1>2. (IF d.traded THEN closes[d.market] + 1 ELSE closes[d.market]) \in 0..MaxCloses
  BY <1>1
<1>3. QED
  BY <1>1, <1>2

LEMMA RecordKeepsTypes ==
    ASSUME Rest, NEW r, r.market \in Market, RecordDecision(r)
    PROVE  decided' \in SUBSET Market /\ known' \in SUBSET Labelled
  BY DEF Rest, RecordDecision, Labelled

LEMMA StepTyped ==
    ASSUME IInv, IInv', Rest, [Next]_vars
    PROVE  Rest'
<1>0. file \in Files /\ file' \in Files /\ st \in RiskState /\ now \in Time
  BY DEF IInv, Shape, Rest
<1>1. CASE Tick
  <2>1. now' \in Time
    BY <1>0, <1>1, CalendarAssumption DEF Tick, Time
  <2>2. QED
    BY <1>1, <2>1 DEF Tick, Rest, memory, counts
<1>2. ASSUME NEW m \in Market, NEW outcome \in Published, Publish(m, outcome)
      PROVE  Rest'
  BY <1>2 DEF Publish, Rest, memory, counts
<1>3. ASSUME NEW m \in Market, Skip(m)
      PROVE  Rest'
  <2>1. decided' \in SUBSET Market /\ known' \in SUBSET Labelled
    BY <1>3, SkipIsDecision, RecordKeepsTypes DEF Skip
  <2>2. st' \in RiskState
    BY <1>0, <1>3, SkipLedger DEF Skip
  <2>3. QED
    BY <1>3, <2>1, <2>2 DEF Skip, Rest, counts
<1>4. ASSUME NEW m \in Market, NEW side \in Side, NEW fill \in Fill, Trade(m, side, fill)
      PROVE  Rest'
  <2>1. decided' \in SUBSET Market /\ known' \in SUBSET Labelled
    BY <1>4, TradeIsDecision, RecordKeepsTypes DEF Trade
  <2>2. st' \in RiskState
    BY <1>0, <1>4, TradeLedger DEF Trade
  <2>3. QED
    BY <1>4, <2>1, <2>2 DEF Trade, Rest, counts
<1>5. ASSUME NEW d \in Pending(file), Settle(d)
      PROVE  Rest'
  <2>1. d \in DecisionRec /\ d.market \in Market
    BY <1>0, PendingIsDecision, DecisionMoney
  <2>2. st' \in RiskState
    BY <1>0, <1>5, <2>1, LedgerOfSettle DEF Settle
  <2>3. closes' \in [Market -> 0..MaxCloses]
    BY <1>5, <2>1, OneMoreClose DEF Settle
  <2>4. SettlementOf(d).market = d.market
    BY DEF SettlementOf, Settlement
  <2>5. settled' \in SUBSET Market /\ known' \in SUBSET Labelled
    BY <1>5, <2>1, <2>4 DEF Settle, RecordSettlement, Rest, Labelled
  <2>6. QED
    BY <1>5, <2>2, <2>3, <2>5 DEF Settle, Rest, counts
<1>6. ASSUME NEW rec \in DecisionsBeingWritten, EvaluateFails(rec)
      PROVE  Rest'
  <2>1. st' \in RiskState
    BY <1>0, <1>6, SkipLedger DEF EvaluateFails
  <2>2. known' \in SUBSET Labelled
    BY <1>0, <1>6, NamesTyped DEF EvaluateFails, Rest
  <2>3. writeErrors' \in 0..MaxWriteErrors
    BY <1>6, MarketAssumption DEF EvaluateFails, Rest
  <2>4. QED
    BY <1>6, <2>1, <2>2, <2>3 DEF EvaluateFails, Rest
<1>7. ASSUME NEW d \in Pending(file), SettleFails(d)
      PROVE  Rest'
  <2>1. d \in DecisionRec
    BY <1>0, PendingIsDecision
  <2>2. st' \in RiskState
    BY <1>0, <1>7, <2>1, LedgerOfSettle DEF SettleFails
  <2>3. closes' \in [Market -> 0..MaxCloses]
    BY <1>7, <2>1, OneMoreClose DEF SettleFails
  <2>4. known' \in SUBSET Labelled
    BY <1>0, <1>7, NamesTyped DEF SettleFails, Rest
  <2>5. writeErrors' \in 0..MaxWriteErrors
    BY <1>7, MarketAssumption DEF SettleFails, Rest
  <2>6. QED
    BY <1>7, <2>2, <2>3, <2>4, <2>5 DEF SettleFails, Rest
<1>8. CASE Crash
  <2>1. crashes' \in 0..MaxCrashes
    BY <1>8, MarketAssumption DEF Crash, Rest
  <2>2. QED
    BY <1>8, <2>1 DEF Crash, Rest, memory
<1>9. CASE Restart
  <2>1. decided' \in SUBSET Market /\ settled' \in SUBSET Market
    BY <1>0, <1>9, NamesTyped DEF Restart
  <2>2. known' \in SUBSET Labelled
    BY <1>0, <1>9, NamesTyped DEF Restart, Rest
  <2>3. closes' \in [Market -> 0..MaxCloses]
    BY <1>9, MarketAssumption DEF Restart
  <2>4. QED
    BY <1>9, <2>1, <2>2, <2>3, FreshTyped DEF Restart, Rest, counts
<1>10. CASE UNCHANGED vars
  BY <1>10 DEF vars, Rest
<1>11. QED
  BY <1>1, <1>2, <1>3, <1>4, <1>5, <1>6, <1>7, <1>8, <1>9, <1>10 DEF Next, SettleSome

LEMMA Typed == IInv /\ Rest => TypeOK
<1> SUFFICES ASSUME IInv, Rest PROVE TypeOK
  OBVIOUS
<1>1. file \in Files /\ Len(file.tail) <= 1 /\ venue \in [Market -> Published]
  BY DEF IInv, Shape
<1>2. \A r \in Readable(file) : r.kind \in {"decision", "settlement"}
  BY <1>1, NamesTyped
<1>3. QED
  BY <1>1, <1>2 DEF Rest, TypeOK, Labelled

\* Types hold whatever is killed or refused.
LEMMA WellFormed == Spec => [](IInv /\ Rest)
<1>1. Init => IInv /\ Rest
  BY InitHolds, InitTyped
<1>2. IInv /\ Rest /\ [Next]_vars => (IInv /\ Rest)'
  BY StepKeeps, StepTyped
<1>3. QED
  BY <1>1, <1>2, PTL DEF Spec

-----------------------------------------------------------------------------
(***************************************************************************)
(* What the file has lost.                                                 *)
(*                                                                         *)
(* The bound is not inductive: a write that is cut short leaves a tail     *)
(* whose damage is done only by the next append.  So the invariant counts  *)
(* what the tail may still cost: a whole record without its newline and    *)
(* the one appended to it, or the one appended to half a record.           *)
(***************************************************************************)

Owed(tail) == IF tail = <<>> THEN 0 ELSE IF tail = <<Unparseable>> THEN 1 ELSE 2

Lost(f, k) == Cardinality(k \ Labels(f))

LossInv == Lost(file, known) + Owed(file.tail) <= 2 * (crashes + writeErrors)

Label(r) == <<r.kind, r.market>>

LEMMA SmallerSet ==
    ASSUME NEW A, NEW B, IsFiniteSet(B), A \subseteq B
    PROVE  IsFiniteSet(A) /\ Cardinality(A) \in Nat /\ Cardinality(A) <= Cardinality(B)
  BY FS_Subset, FS_CardinalityType

LEMMA OneMoreElement ==
    ASSUME NEW A, NEW B, IsFiniteSet(B), NEW x, A \subseteq B \cup {x}
    PROVE  IsFiniteSet(A) /\ Cardinality(A) \in Nat /\ Cardinality(A) <= Cardinality(B) + 1
<1>1. IsFiniteSet(B \cup {x}) /\ Cardinality(B) \in Nat
      /\ (Cardinality(B \cup {x}) = Cardinality(B) \/ Cardinality(B \cup {x}) = Cardinality(B) + 1)
  <2>1. CASE x \in B
    <3>1. B \cup {x} = B
      BY <2>1
    <3>2. QED
      BY <3>1, FS_CardinalityType
  <2>2. CASE x \notin B
    BY <2>2, FS_AddElement, FS_CardinalityType
  <2>3. QED
    BY <2>1, <2>2
<1>2. /\ IsFiniteSet(A) /\ Cardinality(A) \in Nat
      /\ Cardinality(A) <= Cardinality(B \cup {x})
  BY <1>1, SmallerSet
<1>3. QED
  BY <1>1, <1>2

LEMMA KnownFinite ==
    ASSUME Rest
    PROVE  IsFiniteSet(known) /\ \A f : IsFiniteSet(known \ Labels(f)) /\ Lost(f, known) \in Nat
<1>1. IsFiniteSet(Labelled)
  <2>1. IsFiniteSet({"decision", "settlement"})
    <3>1. IsFiniteSet({"decision"}) /\ {"decision", "settlement"} = {"decision"} \cup {"settlement"}
      BY FS_Singleton
    <3>2. QED
      BY <3>1, FS_AddElement
  <2>2. IsFiniteSet(Market)
    BY MarketAssumption
  <2>3. QED
    BY <2>1, <2>2, FS_Product DEF Labelled
<1>2. IsFiniteSet(known)
  BY <1>1, FS_Subset DEF Rest
<1>3. ASSUME NEW f PROVE IsFiniteSet(known \ Labels(f)) /\ Lost(f, known) \in Nat
  BY <1>2, SmallerSet DEF Lost
<1>4. QED
  BY <1>2, <1>3

\* The labels of a smaller set of records.
LEMMA FewerLabels ==
    ASSUME NEW f, NEW g, NEW x, Readable(f) \subseteq Readable(g) \cup {x}
    PROVE  Labels(f) \subseteq Labels(g) \cup {Label(x)}
  BY DEF Labels, Label

LEMMA OwedCases ==
    ASSUME NEW f \in Files, Len(f.tail) <= 1
    PROVE  \/ f.tail = <<>> /\ Owed(f.tail) = 0
           \/ f.tail = <<Unparseable>> /\ Owed(f.tail) = 1
           \/ \E x \in Record : f.tail = <<x>> /\ Owed(f.tail) = 2
<1>1. f.tail = <<>> \/ \E x \in Record : f.tail = <<x>>
  BY TailCases DEF Tails
<1>2. \A x : <<x>> # <<>>
  OBVIOUS
<1>3. QED
  BY <1>1, <1>2 DEF Owed

\* An append loses what the tail still owed, and no more.
LEMMA AppendLoses ==
    ASSUME IInv, Rest, NEW r \in Record, r # Unparseable,
           file' = AppendLine(file, r), known' = known \cup {Label(r)}
    PROVE  Lost(file, known)' + Owed(file.tail)' <= Lost(file, known) + Owed(file.tail)
<1>1. file \in Files /\ Len(file.tail) <= 1
  BY DEF IInv, Shape
<1>2. IsFiniteSet(known \ Labels(file)) /\ Lost(file, known) \in Nat
  BY KnownFinite
<1>3. file'.tail = <<>> /\ Owed(file.tail)' = 0
  BY DEF AppendLine, Owed
<1>4. CASE file.tail = <<>> /\ Owed(file.tail) = 0
  <2>1. Readable(file') = Readable(file) \cup {r}
    BY <1>1, <1>4, AppendReads
  <2>2. Labels(file') = Labels(file) \cup {Label(r)}
    BY <2>1 DEF Labels, Label
  <2>3. known' \ Labels(file') \subseteq known \ Labels(file)
    BY <2>2
  <2>4. Lost(file', known') \in Nat /\ Lost(file', known') <= Lost(file, known)
    BY <1>2, <2>3, SmallerSet DEF Lost
  <2>5. QED
    BY <1>2, <1>3, <1>4, <2>4
<1>5. CASE file.tail = <<Unparseable>> /\ Owed(file.tail) = 1
  <2>0. /\ Readable(file') = ToSet(file.lines) \ {Unparseable}
        /\ Readable(file) = (ToSet(file.lines) \cup {Unparseable}) \ {Unparseable}
    BY <1>1, <1>5, AppendReads
  <2>1. Readable(file') = Readable(file)
    BY <2>0
  <2>2. Labels(file') = Labels(file)
    BY <2>1 DEF Labels
  <2>3. known' \ Labels(file') \subseteq (known \ Labels(file)) \cup {Label(r)}
    BY <2>2
  <2>4. Lost(file', known') \in Nat /\ Lost(file', known') <= Lost(file, known) + 1
    BY <1>2, <2>3, OneMoreElement DEF Lost
  <2>5. QED
    BY <1>2, <1>3, <1>5, <2>4
<1>6. ASSUME NEW x \in Record, file.tail = <<x>>, Owed(file.tail) = 2
      PROVE  Lost(file, known)' + Owed(file.tail)' <= Lost(file, known) + Owed(file.tail)
  <2>1. Readable(file) \subseteq Readable(file') \cup {x}
    BY <1>1, <1>6, AppendReads
  <2>2. Labels(file) \subseteq Labels(file') \cup {Label(x)}
    BY <2>1, FewerLabels
  <2> DEFINE B == (known \ Labels(file)) \cup {Label(r)}
  <2>3. known' \ Labels(file') \subseteq B \cup {Label(x)}
    BY <2>2
  <2>4. /\ IsFiniteSet(B) /\ Cardinality(B) \in Nat
        /\ Cardinality(B) <= Cardinality(known \ Labels(file)) + 1
    BY <1>2, OneMoreElement
  <2> HIDE DEF B
  <2>5. Lost(file', known') \in Nat /\ Lost(file', known') <= Cardinality(B) + 1
    BY <2>3, <2>4, OneMoreElement DEF Lost
  <2>6. QED
    BY <1>2, <1>3, <1>6, <2>4, <2>5 DEF Lost
<1>7. QED
  BY <1>1, <1>4, <1>5, <1>6, OwedCases

\* A write cut short costs two records at most, now or at the next append.
LEMMA CutLoses ==
    ASSUME IInv, Rest, NEW r \in Record, file' \in AppendCutShort(file, r),
           known' = known \/ known' = known \cup Labels(file')
    PROVE  Lost(file, known)' + Owed(file.tail)' <= Lost(file, known) + Owed(file.tail) + 2
<1>1. file \in Files /\ Len(file.tail) <= 1
  BY DEF IInv, Shape
<1>2. IsFiniteSet(known \ Labels(file)) /\ Lost(file, known) \in Nat
  BY KnownFinite
<1>3. known' \ Labels(file') = known \ Labels(file')
  OBVIOUS
<1>4. \A n : Owed(n) \in {0, 1, 2}
  BY DEF Owed
<1>5. CASE file' = file
  <2>1. known' \ Labels(file') = known \ Labels(file)
    BY <1>3, <1>5
  <2>2. Lost(file', known') = Lost(file, known) /\ Owed(file'.tail) = Owed(file.tail)
    BY <1>5, <2>1 DEF Lost
  <2>3. QED
    BY <1>2, <1>4, <2>2
<1>6. CASE file'.tail = <<Unparseable>> /\ Readable(file') = ToSet(file.lines) \ {Unparseable}
  <2>0. Owed(file'.tail) = 1
    BY <1>6 DEF Owed
  <2>1. CASE file.tail = <<>> \/ file.tail = <<Unparseable>>
    <3>1. Readable(file) = Readable(file')
      BY <1>1, <1>6, <2>1, ReadableOf, SetOfFew
    <3>2. Labels(file') = Labels(file)
      BY <3>1 DEF Labels
    <3>3. Lost(file', known') = Lost(file, known)
      BY <1>3, <3>2 DEF Lost
    <3>4. QED
      BY <1>2, <1>4, <2>0, <3>3
  <2>2. ASSUME NEW x \in Record, file.tail = <<x>>, Owed(file.tail) = 2
        PROVE  Lost(file', known') + Owed(file'.tail) <= Lost(file, known) + Owed(file.tail) + 2
    <3>1. Readable(file) \subseteq Readable(file') \cup {x}
      BY <1>1, <1>6, <2>2, ReadableOf, SetOfFew
    <3>2. Labels(file) \subseteq Labels(file') \cup {Label(x)}
      BY <3>1, FewerLabels
    <3>3. known' \ Labels(file') \subseteq (known \ Labels(file)) \cup {Label(x)}
      BY <1>3, <3>2
    <3>4. Lost(file', known') \in Nat /\ Lost(file', known') <= Lost(file, known) + 1
      BY <1>2, <3>3, OneMoreElement DEF Lost
    <3>5. QED
      BY <1>2, <2>0, <2>2, <3>4
  <2>3. QED
    BY <1>1, <2>1, <2>2, OwedCases
<1>7. CASE file.tail = <<>> /\ file'.tail = <<r>> /\ Readable(file) \subseteq Readable(file')
  <2>1. Labels(file) \subseteq Labels(file')
    BY <1>7 DEF Labels
  <2>2. known' \ Labels(file') \subseteq known \ Labels(file)
    BY <1>3, <2>1
  <2>3. Lost(file', known') \in Nat /\ Lost(file', known') <= Lost(file, known)
    BY <1>2, <2>2, SmallerSet DEF Lost
  <2>4. QED
    BY <1>2, <1>4, <2>3
<1>8. \/ file' = file
      \/ file'.tail = <<Unparseable>> /\ Readable(file') = ToSet(file.lines) \ {Unparseable}
      \/ file.tail = <<>> /\ file'.tail = <<r>> /\ Readable(file) \subseteq Readable(file')
  BY <1>1, CutReads
<1>9. QED
  BY <1>5, <1>6, <1>7, <1>8

LEMMA StepLoses ==
    ASSUME IInv, Rest, LossInv, [Next]_vars
    PROVE  LossInv'
<1>1. /\ file \in Files /\ Len(file.tail) <= 1 /\ Lost(file, known) \in Nat
      /\ crashes \in Nat /\ writeErrors \in Nat /\ Owed(file.tail) \in Nat
  <2>1. Owed(file.tail) \in Nat
    BY DEF Owed
  <2>2. crashes \in Nat /\ writeErrors \in Nat
    BY MarketAssumption DEF Rest
  <2>3. QED
    BY <2>1, <2>2, KnownFinite DEF IInv, Shape
<1> DEFINE Drop == Lost(file, known)' + Owed(file.tail)'
           Had  == Lost(file, known) + Owed(file.tail)
<1>2. ASSUME UNCHANGED <<file, known, crashes, writeErrors>> PROVE LossInv'
  BY <1>2 DEF LossInv
<1>3. ASSUME NEW r \in Record, r # Unparseable,
             file' = AppendLine(file, r), known' = known \cup {Label(r)},
             UNCHANGED <<crashes, writeErrors>>
      PROVE  LossInv'
  <2>1. Drop <= Had
    BY <1>3, AppendLoses
  <2>2. Had <= 2 * (crashes + writeErrors) /\ Had \in Nat
    BY <1>1 DEF LossInv
  <2>3. Drop \in Int
    <3>1. Owed(file'.tail) = 0
      BY <1>3 DEF AppendLine, Owed
    <3>2. IsFiniteSet(known' \ Labels(file'))
      <4>1. IsFiniteSet(known \cup {Label(r)})
        BY KnownFinite, OneMoreElement
      <4>2. QED
        BY <1>3, <4>1, SmallerSet
    <3>3. Lost(file', known') \in Nat
      BY <3>2, FS_CardinalityType DEF Lost
    <3>4. QED
      BY <3>1, <3>3
  <2> HIDE DEF Drop, Had
  <2>4. Drop <= 2 * (crashes' + writeErrors')
    BY <1>1, <1>3, <2>1, <2>2, <2>3
  <2>5. QED
    BY <2>4 DEF LossInv, Drop
<1>4. ASSUME NEW r \in Record, file' \in AppendCutShort(file, r),
             known' = known \/ known' = known \cup Labels(file'),
             crashes' + writeErrors' = crashes + writeErrors + 1
      PROVE  LossInv'
  <2>1. Drop <= Had + 2
    BY <1>4, CutLoses
  <2>2. Had <= 2 * (crashes + writeErrors) /\ Had \in Nat
    BY <1>1 DEF LossInv
  <2>3. Drop \in Int
    <3>1. Owed(file'.tail) \in Nat
      BY DEF Owed
    <3>2. known' \ Labels(file') = known \ Labels(file')
      BY <1>4
    <3>3. Lost(file', known') \in Nat
      BY <3>2, KnownFinite DEF Lost
    <3>4. QED
      BY <3>1, <3>3
  <2> HIDE DEF Drop, Had
  <2>4. Drop <= 2 * (crashes' + writeErrors')
    BY <1>1, <1>4, <2>1, <2>2, <2>3
  <2>5. QED
    BY <2>4 DEF LossInv, Drop
<1> HIDE DEF Drop, Had
<1>5. CASE Tick
  BY <1>2, <1>5 DEF Tick, counts
<1>6. ASSUME NEW m \in Market, NEW outcome \in Published, Publish(m, outcome)
      PROVE  LossInv'
  BY <1>2, <1>6 DEF Publish, counts
<1>7. ASSUME NEW m \in Market, Skip(m)
      PROVE  LossInv'
  <2>1. Skipped(m) \in Record /\ Skipped(m) # Unparseable
    BY SkipIsDecision, DecisionMoney DEF Record, Unparseable
  <2>2. Skipped(m).kind = "decision"
    BY SkipIsDecision, DecisionMoney
  <2>3. QED
    BY <1>3, <1>7, <2>1, <2>2 DEF Skip, RecordDecision, Label, counts
<1>8. ASSUME NEW m \in Market, NEW side \in Side, NEW fill \in Fill, Trade(m, side, fill)
      PROVE  LossInv'
  <2>1. /\ Traded(m, side, fill) \in Record /\ Traded(m, side, fill) # Unparseable
        /\ Traded(m, side, fill).kind = "decision"
    BY TradeIsDecision, DecisionMoney DEF Record, Unparseable
  <2>2. QED
    BY <1>3, <1>8, <2>1 DEF Trade, RecordDecision, Label, counts
<1>9. ASSUME NEW d \in Pending(file), Settle(d)
      PROVE  LossInv'
  <2> DEFINE r == SettlementOf(d)
  <2>1. r.market = d.market /\ r.kind = "settlement"
    BY DEF SettlementOf, Settlement
  <2>2. CASE d.market \in settled
    BY <1>2, <1>9, <2>1, <2>2 DEF Settle, RecordSettlement, counts
  <2>3. CASE d.market \notin settled
    <3>1. MaySettle(d)
      BY <1>9 DEF Settle
    <3>2. r \in Record /\ r # Unparseable
      BY <2>1, <2>3, <3>1, SettlementMayFollow DEF Unparseable
    <3>3. file' = AppendLine(file, r) /\ known' = known \cup {Label(r)}
      BY <1>9, <2>1, <2>3 DEF Settle, RecordSettlement, Label
    <3>4. UNCHANGED <<crashes, writeErrors>>
      BY <1>9 DEF Settle, counts
    <3> HIDE DEF r
    <3>5. QED
      BY <1>3, <3>2, <3>3, <3>4
  <2>4. QED
    BY <2>2, <2>3
<1>10. ASSUME NEW rec \in DecisionsBeingWritten, EvaluateFails(rec)
       PROVE  LossInv'
  <2>1. rec \in Record
    BY DecisionsWritten
  <2>2. crashes' + writeErrors' = crashes + writeErrors + 1
    BY <1>1, <1>10 DEF EvaluateFails
  <2>3. QED
    BY <1>4, <1>10, <2>1, <2>2 DEF EvaluateFails
<1>11. ASSUME NEW d \in Pending(file), SettleFails(d)
       PROVE  LossInv'
  <2>1. SettlementOf(d) \in Record
    BY <1>11, SettlementMayFollow DEF SettleFails
  <2>2. crashes' + writeErrors' = crashes + writeErrors + 1
    BY <1>1, <1>11 DEF SettleFails
  <2>3. QED
    BY <1>4, <1>11, <2>1, <2>2 DEF SettleFails
<1>12. CASE Crash
  <2>1. crashes' + writeErrors' = crashes + writeErrors + 1 /\ known' = known
    BY <1>1, <1>12 DEF Crash
  <2>2. CASE file' = file
    <3>1. file' \in AppendCutShort(file, Unparseable) /\ Unparseable \in Record
      BY <2>2, RecordKinds DEF AppendCutShort
    <3>2. QED
      BY <1>4, <2>1, <3>1
  <2>3. ASSUME NEW rec \in DecisionsBeingWritten \cup SettlementsBeingWritten,
               file' \in AppendCutShort(file, rec)
        PROVE  LossInv'
    <3>1. rec \in Record
      BY DecisionsWritten, SettlementsWritten
    <3>2. QED
      BY <1>4, <2>1, <2>3, <3>1
  <2>4. QED
    BY <1>12, <2>2, <2>3 DEF Crash
<1>13. CASE Restart
  <2>1. file' = file /\ known' = known \cup Labels(file) /\ UNCHANGED <<crashes, writeErrors>>
    BY <1>13 DEF Restart, counts
  <2>2. known' \ Labels(file') = known \ Labels(file)
    BY <2>1
  <2>3. Lost(file', known') = Lost(file, known) /\ Owed(file'.tail) = Owed(file.tail)
    BY <2>1, <2>2 DEF Lost
  <2>4. QED
    BY <2>1, <2>3 DEF LossInv
<1>14. CASE UNCHANGED vars
  BY <1>2, <1>14 DEF vars, counts
<1>15. QED
  BY <1>5, <1>6, <1>7, <1>8, <1>9, <1>10, <1>11, <1>12, <1>13, <1>14 DEF Next, SettleSome

\* A write cut short, by a kill or by the disk, costs the reader at most the
\* record it was writing and the next one, which is appended to the same line
\* (_append and read_records, paper/journal.py:271-289).
THEOREM CutWritesCostTwo == Spec => []LossIsBounded
<1>1. Init => LossInv
  <2> SUFFICES ASSUME Init PROVE LossInv
    OBVIOUS
  <2>1. known \ Labels(file) = {} /\ file.tail = <<>> /\ crashes = 0 /\ writeErrors = 0
    BY DEF Init, EmptyFile
  <2>2. Lost(file, known) = 0 /\ Owed(file.tail) = 0
    BY <2>1, FS_EmptySet DEF Lost, Owed
  <2>3. QED
    BY <2>1, <2>2 DEF LossInv
<1>2. IInv /\ Rest /\ LossInv /\ [Next]_vars => LossInv'
  BY StepLoses
<1>3. IInv /\ Rest /\ LossInv => LossIsBounded
  <2> SUFFICES ASSUME IInv, Rest, LossInv PROVE LossIsBounded
    OBVIOUS
  <2>1. Lost(file, known) \in Nat
    BY KnownFinite
  <2>2. crashes \in Nat /\ writeErrors \in Nat
    BY MarketAssumption DEF Rest
  <2>3. Owed(file.tail) \in Nat
    BY DEF Owed
  <2>4. Lost(file, known) <= 2 * (crashes + writeErrors)
    BY <2>1, <2>2, <2>3 DEF LossInv
  <2>5. QED
    BY <2>4 DEF LossIsBounded, Lost
<1>4. QED
  BY <1>1, <1>2, <1>3, WellFormed, PTL DEF Spec

-----------------------------------------------------------------------------
(***************************************************************************)
(* What the journal says the ledger should be.                             *)
(***************************************************************************)

LEMMA JournalTyped ==
    ASSUME NEW f \in Files
    PROVE  /\ PendingTrades(f) \subseteq TradeRec
           /\ OfKind(f, "settlement") \subseteq SettlementRec
           /\ PendingTrades(f) \subseteq Readable(f) /\ OfKind(f, "settlement") \subseteq Readable(f)
<1>1. OfKind(f, "settlement") \subseteq SettlementRec
  BY ReadableOf DEF OfKind, DecisionRec, TradeRec, SkipRec
<1>2. PendingTrades(f) \subseteq TradeRec
  <2> SUFFICES ASSUME NEW d \in PendingTrades(f) PROVE d \in TradeRec
    OBVIOUS
  <2>1. d \in Readable(f) /\ d.kind = "decision" /\ d.traded
    BY DEF PendingTrades, OfKind
  <2>2. d \in TradeRec \/ d \in SkipRec
    BY <2>1, ReadableOf DEF DecisionRec, SettlementRec
  <2>3. QED
    BY <2>1, <2>2 DEF SkipRec
<1>3. QED
  BY <1>1, <1>2 DEF PendingTrades, OfKind

LEMMA TradeMoney ==
    ASSUME NEW d \in TradeRec
    PROVE  d.cost \in 1..MaxCost /\ d.cost \in 0..MaxCost /\ d.market \in Market /\ d.traded = TRUE
  BY DecisionMoney DEF DecisionRec, TradeRec

LEMMA CostNone == CostOf({}) = 0
<1>1. [d \in {} |-> d.cost] = [d \in {} |-> 0]
  OBVIOUS
<1>2. QED
  BY <1>1, MaxCostType, StakedNone DEF CostOf

LEMMA CostGain ==
    ASSUME NEW S \in SUBSET TradeRec, IsFiniteSet(S), NEW d \in TradeRec, d \notin S
    PROVE  CostOf(S \cup {d}) = CostOf(S) + d.cost
<1> DEFINE f == [e \in S |-> e.cost]
           g == [e \in S \cup {d} |-> e.cost]
<1>1. f \in [S -> 0..MaxCost] /\ g \in [S \cup {d} -> 0..MaxCost] /\ MaxCost \in Nat
  BY TradeMoney, MaxCostType
<1>2. g[d] = d.cost /\ \A e \in S : g[e] = f[e]
  OBVIOUS
<1>3. CostOf(S) = StakedTotal(f, MaxCost) /\ CostOf(S \cup {d}) = StakedTotal(g, MaxCost)
  BY DEF CostOf
<1> HIDE DEF f, g
<1>4. StakedTotal(g, MaxCost) = StakedTotal(f, MaxCost) + g[d]
  BY <1>1, <1>2, StakedGain
<1>5. QED
  BY <1>2, <1>3, <1>4

LEMMA CostDrop ==
    ASSUME NEW S \in SUBSET TradeRec, IsFiniteSet(S), NEW d \in S
    PROVE  /\ CostOf(S \ {d}) = CostOf(S) - d.cost
           /\ CostOf(S \ {d}) \in Nat /\ CostOf(S) \in Nat
<1> DEFINE f == [e \in S |-> e.cost]
           g == [e \in S \ {d} |-> e.cost]
<1>1. f \in [S -> 0..MaxCost] /\ g \in [S \ {d} -> 0..MaxCost] /\ MaxCost \in Nat
  BY TradeMoney, MaxCostType
<1>2. f[d] = d.cost /\ \A e \in S \ {d} : g[e] = f[e]
  OBVIOUS
<1>3. CostOf(S) = StakedTotal(f, MaxCost) /\ CostOf(S \ {d}) = StakedTotal(g, MaxCost)
  BY DEF CostOf
<1> HIDE DEF f, g
<1>4. StakedTotal(g, MaxCost) = StakedTotal(f, MaxCost) - f[d]
  BY <1>1, <1>2, StakedLoss
<1>5. IsFiniteSet(S \ {d})
  BY FS_Subset
<1>6. StakedTotal(g, MaxCost) \in Nat /\ StakedTotal(f, MaxCost) \in Nat
  BY <1>1, <1>5, StakedFinite
<1>7. QED
  BY <1>2, <1>3, <1>4, <1>6

\* The signed sum of the settlements grows by the P&L of the one added.
LEMMA PnlGain ==
    ASSUME NEW R \in SUBSET SettlementRec, IsFiniteSet(R), NEW r \in SettlementRec, r \notin R
    PROVE  Profits(R \cup {r}) - Losses(R \cup {r}) = Profits(R) - Losses(R) + r.pnl
<1>1. MaxCost \in Nat /\ MaxShares \in Nat
  BY MaxCostType, MarketAssumption
<1>2. \A s \in SettlementRec : /\ s.pnl \in Int
                               /\ AtLeastZero(s.pnl) \in 0..MaxShares
                               /\ AtLeastZero(-s.pnl) \in 0..MaxCost
                               /\ AtLeastZero(s.pnl) - AtLeastZero(-s.pnl) = s.pnl
  BY <1>1 DEF SettlementRec, AtLeastZero
<1> DEFINE won  == [s \in R |-> AtLeastZero(s.pnl)]
           wonr == [s \in R \cup {r} |-> AtLeastZero(s.pnl)]
           lost  == [s \in R |-> AtLeastZero(-s.pnl)]
           lostr == [s \in R \cup {r} |-> AtLeastZero(-s.pnl)]
<1>3. /\ won \in [R -> 0..MaxShares] /\ wonr \in [R \cup {r} -> 0..MaxShares]
      /\ lost \in [R -> 0..MaxCost] /\ lostr \in [R \cup {r} -> 0..MaxCost]
  BY <1>2
<1>4. /\ wonr[r] = AtLeastZero(r.pnl) /\ lostr[r] = AtLeastZero(-r.pnl)
      /\ \A s \in R : wonr[s] = won[s]
      /\ \A s \in R : lostr[s] = lost[s]
  OBVIOUS
<1>5. /\ Profits(R) = StakedTotal(won, MaxShares) /\ Profits(R \cup {r}) = StakedTotal(wonr, MaxShares)
      /\ Losses(R) = StakedTotal(lost, MaxCost) /\ Losses(R \cup {r}) = StakedTotal(lostr, MaxCost)
  BY DEF Profits, Losses
<1> HIDE DEF won, wonr, lost, lostr
<1>6. StakedTotal(wonr, MaxShares) = StakedTotal(won, MaxShares) + wonr[r]
  BY <1>1, <1>3, <1>4, StakedGain, SMTT(20)
<1>7. StakedTotal(lostr, MaxCost) = StakedTotal(lost, MaxCost) + lostr[r]
  BY <1>1, <1>3, <1>4, StakedGain
<1>8. StakedTotal(won, MaxShares) \in Nat /\ StakedTotal(lost, MaxCost) \in Nat
  BY <1>1, <1>3, StakedFinite
<1>9. QED
  BY <1>2, <1>4, <1>5, <1>6, <1>7, <1>8

\* What a decision more says.
DecisionSaid(f, g, r) ==
    /\ Named(g, "decision") = Named(f, "decision") \cup {r.market}
    /\ OfKind(g, "settlement") = OfKind(f, "settlement")
    /\ Named(g, "settlement") = Named(f, "settlement")
    /\ r.traded = TRUE => PendingTrades(g) = PendingTrades(f) \cup {r}
    /\ r.traded = FALSE => PendingTrades(g) = PendingTrades(f)

LEMMA DecisionAdds ==
    ASSUME NEW f, NEW g, NEW r, Readable(g) = Readable(f) \cup {r},
           r.kind = "decision", r.market \notin Named(f, "settlement")
    PROVE  DecisionSaid(f, g, r)
<1>1. OfKind(g, "decision") = OfKind(f, "decision") \cup {r}
  BY DEF OfKind
<1>2. OfKind(g, "settlement") = OfKind(f, "settlement")
  BY DEF OfKind
<1>3. /\ Named(g, "decision") = Named(f, "decision") \cup {r.market}
      /\ Named(g, "settlement") = Named(f, "settlement")
  BY <1>1, <1>2 DEF Named
<1>4. QED
  BY <1>1, <1>2, <1>3 DEF PendingTrades, DecisionSaid

\* What a settlement more says.
LEMMA SettlementAdds ==
    ASSUME NEW f, NEW g, NEW r, Readable(g) = Readable(f) \cup {r},
           r.kind = "settlement", NEW d \in Readable(f), d.market = r.market,
           \A e \in Readable(f) : e.kind = "decision" /\ e.market = d.market => e = d
    PROVE  /\ Named(g, "decision") = Named(f, "decision")
           /\ OfKind(g, "settlement") = OfKind(f, "settlement") \cup {r}
           /\ Named(g, "settlement") = Named(f, "settlement") \cup {r.market}
           /\ PendingTrades(g) = PendingTrades(f) \ {d}
<1>1. OfKind(g, "decision") = OfKind(f, "decision")
  BY DEF OfKind
<1>2. OfKind(g, "settlement") = OfKind(f, "settlement") \cup {r}
  BY DEF OfKind
<1>3. /\ Named(g, "decision") = Named(f, "decision")
      /\ Named(g, "settlement") = Named(f, "settlement") \cup {r.market}
  BY <1>1, <1>2 DEF Named
<1>4. \A e \in OfKind(f, "decision") : e.market = r.market => e = d
  BY DEF OfKind
<1>5. QED
  BY <1>1, <1>2, <1>3, <1>4 DEF PendingTrades

-----------------------------------------------------------------------------
(***************************************************************************)
(* While nothing has been killed or refused, the journal and the ledger    *)
(* say the same.  The agreement needs the keys in memory to be those of    *)
(* the file, and every line to be whole.                                   *)
(***************************************************************************)

Undisturbed == crashes = 0 /\ writeErrors = 0

Steady ==
    /\ up /\ file.tail = <<>> /\ IsFiniteSet(Readable(file))
    /\ decided = Named(file, "decision") /\ settled = Named(file, "settlement")
    /\ st.exposure = OpenCost(file)
    /\ st.positions = Cardinality(PendingTrades(file))
    /\ st.exposure <= MaxExposure + MaxFee /\ st.positions <= MaxConcurrent

\* Settled markets have been decided.
LEMMA SettledAreDecided ==
    ASSUME IInv
    PROVE  Named(file, "settlement") \subseteq Named(file, "decision")
<1> SUFFICES ASSUME NEW s \in Readable(file), s.kind = "settlement"
             PROVE  s.market \in Named(file, "decision")
  BY DEF Named, OfKind
<1> DEFINE all == file.lines \o file.tail
<1>1. PICK i \in DOMAIN all : all[i] = s
  BY DEF Readable, ToSet
<1>2. all \in Seq(Record) /\ DOMAIN all = 1..Len(all)
  BY ConcatProperties DEF IInv, Shape, Files
<1>3. SettlesItsDecision
  BY Replays DEF JournalIsSound
<1>4. \E j \in 1..(i - 1) : all[j].kind = "decision" /\ all[j].market = s.market
  BY <1>1, <1>3 DEF SettlesItsDecision
<1>5. \A j \in DOMAIN all : all[j] # Unparseable => all[j] \in Readable(file)
  BY DEF Readable, ToSet
<1> HIDE DEF all
<1>6. PICK j \in 1..(i - 1) : all[j].kind = "decision" /\ all[j].market = s.market
  BY <1>4
<1>7. Len(all) \in Nat /\ i \in 1..Len(all)
  BY <1>1, <1>2
<1>8. j \in DOMAIN all
  BY <1>2, <1>7
<1>9. all[j] \in Readable(file)
  BY <1>5, <1>6, <1>8, RecordKinds
<1>10. QED
  BY <1>6, <1>9 DEF Named, OfKind

\* What a decision on an undecided market does to a steady journal.
LEMMA DecisionWrites ==
    ASSUME IInv, Steady, NEW r \in DecisionRec, r.market \notin decided,
           file' = AppendLine(file, r)
    PROVE  /\ file'.tail = <<>> /\ IsFiniteSet(Readable(file'))
           /\ Named(file', "decision") = decided \cup {r.market}
           /\ Named(file', "settlement") = settled
           /\ OfKind(file', "settlement") = OfKind(file, "settlement")
           /\ r.traded = TRUE => PendingTrades(file') = PendingTrades(file) \cup {r}
           /\ r.traded = FALSE => PendingTrades(file') = PendingTrades(file)
           /\ r \notin PendingTrades(file) /\ PendingOn(file, r.market) = {}
<1>1. r \in Record /\ r.kind = "decision" /\ r # Unparseable /\ file \in Files
  BY DecisionMoney DEF Record, Unparseable, IInv, Shape
<1>2. Readable(file') = Readable(file) \cup {r} /\ file'.tail = <<>>
  BY <1>1, AppendReads DEF Steady, AppendLine
<1>3. IsFiniteSet(Readable(file'))
  BY <1>2, OneMoreElement DEF Steady
<1>4. r.market \notin Named(file, "settlement")
  BY SettledAreDecided DEF Steady
<1>5. \A d \in PendingTrades(file) : d.market # r.market
  BY DEF Steady, Named, PendingTrades, OfKind
<1>6. r \notin PendingTrades(file) /\ PendingOn(file, r.market) = {}
  BY <1>5 DEF PendingOn
<1>7. /\ Named(file', "decision") = Named(file, "decision") \cup {r.market}
      /\ OfKind(file', "settlement") = OfKind(file, "settlement")
      /\ Named(file', "settlement") = Named(file, "settlement")
      /\ r.traded = TRUE => PendingTrades(file') = PendingTrades(file) \cup {r}
      /\ r.traded = FALSE => PendingTrades(file') = PendingTrades(file)
  <2>1. DecisionSaid(file, file', r)
    BY <1>1, <1>2, <1>4, DecisionAdds
  <2>2. QED
    BY <2>1 DEF DecisionSaid
<1>8. QED
  BY <1>2, <1>3, <1>6, <1>7 DEF Steady

\* What the settlement of a pending decision does to a steady journal.
LEMMA SettlementWrites ==
    ASSUME IInv, Steady, NEW d \in Pending(file), MaySettle(d),
           file' = AppendLine(file, SettlementOf(d))
    PROVE  /\ file'.tail = <<>> /\ IsFiniteSet(Readable(file'))
           /\ Named(file', "decision") = decided
           /\ Named(file', "settlement") = settled \cup {d.market}
           /\ OfKind(file', "settlement") = OfKind(file, "settlement") \cup {SettlementOf(d)}
           /\ SettlementOf(d) \notin OfKind(file, "settlement")
           /\ SettlementOf(d) \in SettlementRec
           /\ PendingTrades(file') = PendingTrades(file) \ {d}
           /\ d.market \notin settled
           /\ d.traded = TRUE => d \in PendingTrades(file) /\ PendingOn(file, d.market) = {d}
           /\ d.traded = FALSE => d \notin PendingTrades(file)
<1> DEFINE r == SettlementOf(d)
<1>1. /\ file \in Files /\ d \in DecisionRec /\ d \in Readable(file) /\ d.kind = "decision"
      /\ d.market \notin Named(file, "settlement")
  BY PendingIsDecision, DecisionMoney DEF IInv, Shape
<1>2. d.market \notin settled
  BY <1>1 DEF Steady
<1>3. r \in Record /\ r.kind = "settlement" /\ r.market = d.market
  BY <1>2, SettlementMayFollow
<1> HIDE DEF r
<1>4. r # Unparseable /\ r \in SettlementRec
  <2>1. r # Unparseable
    BY <1>3 DEF Unparseable
  <2>2. r \notin DecisionRec
    BY <1>3, DecisionMoney
  <2>3. QED
    BY <1>3, <2>1, <2>2 DEF Record
<1>5. \A e \in Readable(file) : e.kind = "decision" /\ e.market = d.market => e = d
  BY <1>1, Replays DEF JournalIsSound, RecordedOnce
<1>6. r \notin OfKind(file, "settlement")
  BY <1>1, <1>3 DEF Named
<1>7. Readable(file') = Readable(file) \cup {r} /\ file'.tail = <<>>
  BY <1>1, <1>3, <1>4, AppendReads DEF Steady, AppendLine, r
<1>8. IsFiniteSet(Readable(file'))
  BY <1>7, OneMoreElement DEF Steady
<1>9. /\ Named(file', "decision") = Named(file, "decision")
      /\ OfKind(file', "settlement") = OfKind(file, "settlement") \cup {r}
      /\ Named(file', "settlement") = Named(file, "settlement") \cup {r.market}
      /\ PendingTrades(file') = PendingTrades(file) \ {d}
  BY <1>1, <1>3, <1>5, <1>7, SettlementAdds
<1>10. d.traded = TRUE => d \in PendingTrades(file)
  BY <1>1 DEF PendingTrades, OfKind
<1>11. \A e \in PendingTrades(file) : e.market = d.market => e = d
  BY <1>5 DEF PendingTrades, OfKind
<1>12. d.traded = TRUE => PendingOn(file, d.market) = {d}
  BY <1>10, <1>11 DEF PendingOn
<1>13. d.traded = FALSE => d \notin PendingTrades(file)
  BY DEF PendingTrades
<1>14. QED
  BY <1>2, <1>3, <1>4, <1>6, <1>7, <1>8, <1>9, <1>10, <1>12, <1>13 DEF Steady, r

LEMMA TradesCounted ==
    ASSUME IInv, Steady
    PROVE  /\ PendingTrades(file) \in SUBSET TradeRec
           /\ OfKind(file, "settlement") \in SUBSET SettlementRec
           /\ IsFiniteSet(PendingTrades(file)) /\ Cardinality(PendingTrades(file)) \in Nat
           /\ IsFiniteSet(OfKind(file, "settlement"))
  BY JournalTyped, SmallerSet DEF IInv, Shape, Steady

LEMMA SkipSteady ==
    ASSUME IInv, Rest, Steady, NEW m \in Market, Skip(m)
    PROVE  Steady'
<1> DEFINE r == Skipped(m)
<1>1. /\ r \in DecisionRec /\ r.market = m /\ r.traded = FALSE
      /\ file' = AppendLine(file, r) /\ decided' = decided \cup {m} /\ m \notin decided
      /\ settled' = settled /\ up' = up
  BY SkipIsDecision DEF Skip, RecordDecision, MayEvaluate, Skipped, Decision
<1>2. st'.exposure = st.exposure /\ st'.positions = st.positions
  BY SkipLedger DEF Skip, Rest
<1> HIDE DEF r
<1>3. /\ file'.tail = <<>> /\ IsFiniteSet(Readable(file'))
      /\ Named(file', "decision") = decided \cup {m} /\ Named(file', "settlement") = settled
      /\ PendingTrades(file') = PendingTrades(file)
  BY <1>1, DecisionWrites
<1>4. OpenCost(file') = OpenCost(file)
  BY <1>3 DEF OpenCost
<1>5. QED
  BY <1>1, <1>2, <1>3, <1>4 DEF Steady

LEMMA TradeSteady ==
    ASSUME IInv, Rest, Steady, NEW m \in Market, NEW side \in Side, NEW fill \in Fill,
           Trade(m, side, fill)
    PROVE  Steady'
<1> DEFINE r == Traded(m, side, fill)
<1>1. /\ r \in DecisionRec /\ r \in TradeRec /\ r.market = m /\ r.traded = TRUE /\ r.cost = fill.cost
      /\ file' = AppendLine(file, r) /\ decided' = decided \cup {m} /\ m \notin decided
      /\ settled' = settled /\ up' = up
  BY TradeIsDecision DEF Trade, RecordDecision, MayEvaluate, Traded, Decision, TradeRec
<1>2. /\ st'.exposure = st.exposure + fill.cost /\ st'.positions = st.positions + 1
      /\ st'.positions <= MaxConcurrent /\ st'.exposure <= MaxExposure + MaxFee
  BY TradeLedger DEF Trade, Rest
<1> HIDE DEF r
<1>3. /\ file'.tail = <<>> /\ IsFiniteSet(Readable(file'))
      /\ Named(file', "decision") = decided \cup {m} /\ Named(file', "settlement") = settled
      /\ PendingTrades(file') = PendingTrades(file) \cup {r} /\ r \notin PendingTrades(file)
  BY <1>1, DecisionWrites
<1>4. OpenCost(file') = OpenCost(file) + fill.cost
  BY <1>1, <1>3, TradesCounted, CostGain DEF OpenCost
<1>5. Cardinality(PendingTrades(file')) = Cardinality(PendingTrades(file)) + 1
  BY <1>3, TradesCounted, FS_AddElement
<1>6. st'.exposure = OpenCost(file') /\ st'.positions = Cardinality(PendingTrades(file'))
  BY <1>2, <1>4, <1>5 DEF Steady
<1>7. QED
  BY <1>1, <1>2, <1>3, <1>6 DEF Steady

LEMMA SettleSteady ==
    ASSUME IInv, Rest, Steady, NEW d \in Pending(file), Settle(d)
    PROVE  Steady'
<1>1. d \in DecisionRec /\ MaySettle(d) /\ d.traded \in BOOLEAN /\ d.cost \in Nat
  BY PendingIsDecision, DecisionMoney DEF Settle, IInv, Shape
<1>2. d.market \notin settled /\ SettlementOf(d).market = d.market
  BY PendingIsDecision DEF Steady, IInv, Shape, SettlementOf, Settlement
<1>3. /\ file' = AppendLine(file, SettlementOf(d)) /\ settled' = settled \cup {d.market}
      /\ decided' = decided /\ up' = up /\ st' = LedgerAfter(d)
  BY <1>2 DEF Settle, RecordSettlement
<1>4. /\ file'.tail = <<>> /\ IsFiniteSet(Readable(file'))
      /\ Named(file', "decision") = decided /\ Named(file', "settlement") = settled \cup {d.market}
      /\ PendingTrades(file') = PendingTrades(file) \ {d}
      /\ d.traded = TRUE => d \in PendingTrades(file)
      /\ d.traded = FALSE => d \notin PendingTrades(file)
  BY <1>1, <1>3, SettlementWrites
<1>5. /\ st.exposure = OpenCost(file) /\ st.positions = Cardinality(PendingTrades(file))
      /\ st.exposure <= MaxExposure + MaxFee /\ st.positions <= MaxConcurrent
      /\ st.exposure \in Nat /\ st.positions \in Nat
      /\ MaxExposure \in Nat /\ MaxFee \in Nat /\ MaxConcurrent \in Nat
  BY LimitsAssumption DEF Steady, Rest, RiskState
<1>6. CASE d.traded = TRUE
  <2>1. ClosedTo(st, now, d.cost, PayoffOf(d), st')
    BY <1>1, <1>3, <1>6, LedgerOfSettle DEF Rest
  <2>2. /\ st'.exposure = AtLeastZero(st.exposure - d.cost)
        /\ st'.positions = AtLeastZero(st.positions - 1)
    BY <2>1 DEF ClosedTo
  <2>3. /\ OpenCost(file') = OpenCost(file) - d.cost /\ OpenCost(file') \in Nat
    BY <1>4, <1>6, TradesCounted, CostDrop DEF OpenCost
  <2>4. /\ Cardinality(PendingTrades(file')) = Cardinality(PendingTrades(file)) - 1
        /\ Cardinality(PendingTrades(file')) \in Nat
    BY <1>4, <1>6, TradesCounted, FS_RemoveElement, FS_CardinalityType
  <2>5. st'.exposure = OpenCost(file') /\ st'.exposure <= MaxExposure + MaxFee
    BY <1>1, <1>5, <2>2, <2>3 DEF AtLeastZero
  <2>6. st'.positions = Cardinality(PendingTrades(file')) /\ st'.positions <= MaxConcurrent
    BY <1>5, <2>2, <2>4 DEF AtLeastZero
  <2>7. QED
    BY <1>3, <1>4, <2>5, <2>6 DEF Steady
<1>7. CASE d.traded = FALSE
  <2>1. st' = st
    BY <1>1, <1>3, <1>7, LedgerOfSettle DEF Rest
  <2>2. PendingTrades(file') = PendingTrades(file)
    BY <1>4, <1>7
  <2>3. OpenCost(file') = OpenCost(file)
    BY <2>2 DEF OpenCost
  <2>4. QED
    BY <1>3, <1>4, <2>1, <2>2, <2>3 DEF Steady
<1>8. QED
  BY <1>1, <1>6, <1>7

LEMMA StepSteady ==
    ASSUME IInv, Rest, Undisturbed => Steady, [Next]_vars
    PROVE  Undisturbed' => Steady'
<1> SUFFICES ASSUME Undisturbed' PROVE Steady'
  OBVIOUS
<1>1. crashes \in Nat /\ writeErrors \in Nat /\ crashes' = 0 /\ writeErrors' = 0
  BY MarketAssumption DEF Rest, Undisturbed
<1>2. ASSUME UNCHANGED <<up, file, decided, settled, st, counts>>
      PROVE  Steady'
  <2>1. Steady
    BY <1>1, <1>2 DEF Undisturbed, counts
  <2>2. QED
    BY <1>2, <2>1 DEF Steady
<1>3. CASE Tick
  BY <1>2, <1>3 DEF Tick, memory
<1>4. ASSUME NEW m \in Market, NEW outcome \in Published, Publish(m, outcome)
      PROVE  Steady'
  BY <1>2, <1>4 DEF Publish, memory
<1>5. ASSUME NEW m \in Market, Skip(m)
      PROVE  Steady'
  BY <1>1, <1>5, SkipSteady DEF Skip, counts, Undisturbed
<1>6. ASSUME NEW m \in Market, NEW side \in Side, NEW fill \in Fill, Trade(m, side, fill)
      PROVE  Steady'
  BY <1>1, <1>6, TradeSteady DEF Trade, counts, Undisturbed
<1>7. ASSUME NEW d \in Pending(file), Settle(d)
      PROVE  Steady'
  BY <1>1, <1>7, SettleSteady DEF Settle, counts, Undisturbed
<1>8. ASSUME NEW rec \in DecisionsBeingWritten, EvaluateFails(rec)
      PROVE  FALSE
  BY <1>1, <1>8 DEF EvaluateFails
<1>9. ASSUME NEW d \in Pending(file), SettleFails(d)
      PROVE  FALSE
  BY <1>1, <1>9 DEF SettleFails
<1>10. ASSUME Crash PROVE FALSE
  BY <1>1, <1>10 DEF Crash
<1>11. ASSUME Restart PROVE FALSE
  BY <1>1, <1>11 DEF Restart, counts, Undisturbed, Steady
<1>12. CASE UNCHANGED vars
  BY <1>2, <1>12 DEF vars, memory, counts
<1>13. QED
  BY <1>3, <1>4, <1>5, <1>6, <1>7, <1>8, <1>9, <1>10, <1>11, <1>12 DEF Next, SettleSome

LEMMA NothingWritten ==
    ASSUME file = EmptyFile
    PROVE  /\ Readable(file) = {} /\ PendingTrades(file) = {} /\ OpenCost(file) = 0
           /\ \A kind : OfKind(file, kind) = {} /\ Named(file, kind) = {}
<1>1. file.lines = <<>> /\ file.tail = <<>> /\ <<>> \o <<>> = <<>>
  BY DEF EmptyFile
<1>2. Readable(file) = {}
  BY <1>1, SetOfFew DEF Readable
<1>3. \A kind : OfKind(file, kind) = {} /\ Named(file, kind) = {}
  BY <1>2 DEF OfKind, Named
<1>4. PendingTrades(file) = {}
  BY <1>3 DEF PendingTrades
<1>5. QED
  BY <1>2, <1>3, <1>4, CostNone DEF OpenCost

LEMMA InitSteady == Init => Steady
<1> SUFFICES ASSUME Init PROVE Steady
  OBVIOUS
<1>1. /\ up /\ file.tail = <<>> /\ decided = {} /\ settled = {} /\ file = EmptyFile
      /\ st.exposure = 0 /\ st.positions = 0
  BY DEF Init, EmptyFile, FreshLedger
<1>2. /\ Readable(file) = {} /\ PendingTrades(file) = {} /\ OpenCost(file) = 0
      /\ \A kind : Named(file, kind) = {}
  BY <1>1, NothingWritten
<1>3. IsFiniteSet({}) /\ Cardinality({}) = 0
  BY FS_EmptySet
<1>4. 0 <= MaxExposure + MaxFee /\ 0 <= MaxConcurrent
  BY LimitsAssumption
<1>5. QED
  BY <1>1, <1>2, <1>3, <1>4 DEF Steady

LEMMA SteadyThroughout == Spec => [](Undisturbed => Steady)
<1>1. Init => (Undisturbed => Steady)
  BY InitSteady
<1>2. (IInv /\ Rest) /\ (Undisturbed => Steady) /\ [Next]_vars => (Undisturbed => Steady)'
  BY StepSteady
<1>3. QED
  BY <1>1, <1>2, WellFormed, PTL DEF Spec

\* Until the process is first killed or refused a write, the exposure and the
\* positions check() reads in memory are those of the trades the journal still
\* has to settle, and the limits bind of them (evaluate() and settle(),
\* paper/engine.py:182-355, which write the two in opposite orders).
THEOREM Agreement == Spec => [](Undisturbed => LedgerMatchesJournal)
<1>1. IInv /\ Rest /\ Steady => LedgerMatchesJournal
  <2> SUFFICES ASSUME IInv, Rest, Steady PROVE LedgerMatchesJournal
    OBVIOUS
  <2>1. TypeOK
    BY Typed
  <2>2. ExposureMatchesJournal /\ LimitsBind
    BY DEF Steady, ExposureMatchesJournal, LimitsBind
  <2>3. QED
    BY <2>1, <2>2 DEF LedgerMatchesJournal
<1>2. QED
  BY <1>1, WellFormed, SteadyThroughout, PTL

-----------------------------------------------------------------------------
(***************************************************************************)
(* Refinement: bankroll and journal together are the account.              *)
(***************************************************************************)

LEMMA CostOfOne ==
    ASSUME NEW d \in TradeRec
    PROVE  CostOf({d}) = d.cost
<1>0. PICK S \in SUBSET TradeRec : S = {}
  OBVIOUS
<1>1. CostOf(S \cup {d}) = CostOf(S) + d.cost
  <2>1. IsFiniteSet(S) /\ d \notin S
    BY <1>0, FS_EmptySet
  <2>2. QED
    BY <2>1, CostGain
<1>2. d.cost \in Nat
  <2>1. d.cost \in 0..MaxCost
    BY TradeMoney
  <2>2. QED
    BY <2>1
<1>3. S \cup {d} = {d} /\ CostOf(S) = 0
  BY <1>0, CostNone
<1>4. QED
  BY <1>1, <1>2, <1>3

LEMMA TradeIsPlace ==
    ASSUME IInv, Rest, Steady, NEW m \in Market, NEW side \in Side, NEW fill \in Fill,
           Trade(m, side, fill)
    PROVE  Account!Next
<1> DEFINE r == Traded(m, side, fill)
<1>1. /\ r \in DecisionRec /\ r \in TradeRec /\ r.market = m /\ r.traded = TRUE /\ r.cost = fill.cost
      /\ file' = AppendLine(file, r) /\ m \notin decided
  BY TradeIsDecision DEF Trade, RecordDecision, MayEvaluate, Traded, Decision, TradeRec
<1>2. st'.bankroll = st.bankroll - fill.cost /\ fill.cost \in 1..MaxCost
  BY TradeLedger DEF Trade, Rest
<1> HIDE DEF r
<1>3. /\ PendingTrades(file') = PendingTrades(file) \cup {r}
      /\ PendingOn(file, m) = {} /\ OfKind(file', "settlement") = OfKind(file, "settlement")
  BY <1>1, DecisionWrites
<1>4. PendingOn(file', m) = {r} /\ \A k \in Market \ {m} : PendingOn(file', k) = PendingOn(file, k)
  BY <1>1, <1>3 DEF PendingOn
<1>5. /\ CostOf(PendingOn(file, m)) = 0 /\ CostOf(PendingOn(file', m)) = fill.cost
      /\ \A k \in Market \ {m} : CostOf(PendingOn(file', k)) = CostOf(PendingOn(file, k))
  BY <1>1, <1>3, <1>4, CostNone, CostOfOne
<1>6. JournalStakes(file)[m] = 0 /\ JournalStakes(file') = [JournalStakes(file) EXCEPT ![m] = fill.cost]
  BY <1>5 DEF JournalStakes
<1>7. JournalPnl(file') = JournalPnl(file)
  BY <1>3 DEF JournalPnl
<1>8. Account!Place(m, fill.cost)
  BY <1>2, <1>6, <1>7 DEF Account!Place
<1>9. QED
  BY <1>2, <1>8 DEF Account!Next

LEMMA SettleIsSettle ==
    ASSUME IInv, Rest, Steady, NEW d \in Pending(file), Settle(d)
    PROVE  Account!Next \/ UNCHANGED Account!vars
<1> DEFINE r == SettlementOf(d)
<1>1. /\ d \in DecisionRec /\ MaySettle(d) /\ d.traded \in BOOLEAN /\ d.market \in Market
      /\ d.cost \in Nat /\ st.bankroll \in Int
  BY PendingIsDecision, DecisionMoney DEF Settle, IInv, Shape, Rest, RiskState
<1>2. d.market \notin settled /\ r.market = d.market
  BY PendingIsDecision DEF Steady, IInv, Shape, SettlementOf, Settlement
<1>3. file' = AppendLine(file, r) /\ st' = LedgerAfter(d)
  BY <1>2 DEF Settle, RecordSettlement
<1>4. /\ PendingTrades(file') = PendingTrades(file) \ {d}
      /\ OfKind(file', "settlement") = OfKind(file, "settlement") \cup {r}
      /\ r \notin OfKind(file, "settlement") /\ r \in SettlementRec
      /\ d.traded = TRUE => d \in PendingTrades(file) /\ PendingOn(file, d.market) = {d}
      /\ d.traded = FALSE => d \notin PendingTrades(file)
  BY <1>1, <1>3, SettlementWrites
<1>5. r.pnl = (IF d.traded THEN PayoffOf(d) - d.cost ELSE 0)
  BY DEF SettlementOf, Settlement
<1>6. JournalPnl(file') = JournalPnl(file) + r.pnl
  BY <1>4, TradesCounted, PnlGain DEF JournalPnl
<1>7. JournalPnl(file) \in Int
  <2> DEFINE R == OfKind(file, "settlement")
             won  == [s \in R |-> AtLeastZero(s.pnl)]
             lost == [s \in R |-> AtLeastZero(-s.pnl)]
  <2>1. R \in SUBSET SettlementRec /\ IsFiniteSet(R) /\ MaxCost \in Nat /\ MaxShares \in Nat
    BY TradesCounted, MaxCostType, MarketAssumption
  <2> HIDE DEF R
  <2>2. won \in [R -> 0..MaxShares] /\ lost \in [R -> 0..MaxCost]
    BY <2>1 DEF SettlementRec, AtLeastZero
  <2>3. Profits(R) = StakedTotal(won, MaxShares) /\ Losses(R) = StakedTotal(lost, MaxCost)
    BY DEF Profits, Losses
  <2> HIDE DEF won, lost
  <2>4. Profits(R) \in Nat /\ Losses(R) \in Nat
    BY <2>1, <2>2, <2>3, StakedFinite
  <2>5. QED
    BY <2>4 DEF JournalPnl, R
<1> HIDE DEF r
<1>8. CASE d.traded = TRUE
  <2>1. ClosedTo(st, now, d.cost, PayoffOf(d), st') /\ PayoffOf(d) \in Payoffs /\ PayoffOf(d) \in Nat
    BY <1>1, <1>3, <1>8, LedgerOfSettle DEF Rest
  <2>2. st'.bankroll = st.bankroll + PayoffOf(d)
    BY <2>1 DEF ClosedTo
  <2>3. /\ PendingOn(file', d.market) = {}
        /\ \A k \in Market \ {d.market} : PendingOn(file', k) = PendingOn(file, k)
    BY <1>4, <1>8 DEF PendingOn
  <2>4. d \in TradeRec
    BY <1>4, <1>8, TradesCounted
  <2>5. /\ CostOf(PendingOn(file, d.market)) = d.cost /\ CostOf(PendingOn(file', d.market)) = 0
        /\ \A k \in Market \ {d.market} : CostOf(PendingOn(file', k)) = CostOf(PendingOn(file, k))
    BY <1>4, <1>8, <2>3, <2>4, CostNone, CostOfOne
  <2>6. /\ JournalStakes(file)[d.market] = d.cost /\ d.cost > 0
        /\ JournalStakes(file') = [JournalStakes(file) EXCEPT ![d.market] = 0]
    <3>1. d.cost > 0
      <4>1. d.cost \in 1..MaxCost /\ MaxCost \in Nat
        BY <2>4, TradeMoney, MaxCostType
      <4>2. QED
        BY <4>1
    <3>2. JournalStakes(file)[d.market] = d.cost
      BY <1>1, <2>5 DEF JournalStakes
    <3>3. JournalStakes(file') = [JournalStakes(file) EXCEPT ![d.market] = 0]
      BY <1>1, <2>5 DEF JournalStakes
    <3>4. QED
      BY <3>1, <3>2, <3>3
  <2>7. JournalPnl(file') = JournalPnl(file) + PayoffOf(d) - JournalStakes(file)[d.market]
    BY <1>1, <1>5, <1>6, <1>7, <1>8, <2>1, <2>6
  <2>8. Account!Settle(d.market, PayoffOf(d))
    BY <2>2, <2>6, <2>7 DEF Account!Settle
  <2>9. QED
    BY <1>1, <2>1, <2>8 DEF Account!Next
<1>9. CASE d.traded = FALSE
  <2>1. st' = st
    BY <1>1, <1>3, <1>9, LedgerOfSettle DEF Rest
  <2>2. PendingTrades(file') = PendingTrades(file)
    BY <1>4, <1>9
  <2>3. JournalStakes(file') = JournalStakes(file)
    BY <2>2 DEF JournalStakes, PendingOn
  <2>4. JournalPnl(file') = JournalPnl(file)
    BY <1>5, <1>6, <1>7, <1>9
  <2>5. QED
    BY <2>1, <2>3, <2>4 DEF Account!vars
<1>10. QED
  BY <1>1, <1>8, <1>9

LEMMA StepIsAccountStep ==
    ASSUME IInv, Rest, Steady, Undisturbed', [Next]_vars
    PROVE  Account!Next \/ UNCHANGED Account!vars
<1>1. crashes \in Nat /\ writeErrors \in Nat /\ crashes' = 0 /\ writeErrors' = 0
  BY MarketAssumption DEF Rest, Undisturbed
<1>2. ASSUME file' = file, st' = st PROVE UNCHANGED Account!vars
  BY <1>2 DEF Account!vars
<1>3. ASSUME Tick \/ UNCHANGED vars PROVE UNCHANGED Account!vars
  BY <1>2, <1>3 DEF Tick, vars, memory
<1>4. ASSUME NEW m \in Market, NEW outcome \in Published, Publish(m, outcome)
      PROVE  UNCHANGED Account!vars
  BY <1>2, <1>4 DEF Publish, memory
<1>5. ASSUME NEW m \in Market, Skip(m)
      PROVE  UNCHANGED Account!vars
  <2> DEFINE r == Skipped(m)
  <2>1. /\ r \in DecisionRec /\ r.market = m /\ r.traded = FALSE
        /\ file' = AppendLine(file, r) /\ m \notin decided
    BY <1>5, SkipIsDecision DEF Skip, RecordDecision, MayEvaluate, Skipped, Decision
  <2>2. st'.bankroll = st.bankroll
    BY <1>5, SkipLedger DEF Skip, Rest
  <2> HIDE DEF r
  <2>3. /\ PendingTrades(file') = PendingTrades(file)
        /\ OfKind(file', "settlement") = OfKind(file, "settlement")
    BY <2>1, DecisionWrites
  <2>4. JournalStakes(file') = JournalStakes(file) /\ JournalPnl(file') = JournalPnl(file)
    BY <2>3 DEF JournalStakes, JournalPnl, PendingOn
  <2>5. QED
    BY <2>2, <2>4 DEF Account!vars
<1>6. ASSUME NEW m \in Market, NEW side \in Side, NEW fill \in Fill, Trade(m, side, fill)
      PROVE  Account!Next
  BY <1>6, TradeIsPlace
<1>7. ASSUME NEW d \in Pending(file), Settle(d)
      PROVE  Account!Next \/ UNCHANGED Account!vars
  BY <1>7, SettleIsSettle
<1>8. ASSUME NEW rec \in DecisionsBeingWritten, EvaluateFails(rec)
      PROVE  FALSE
  BY <1>1, <1>8 DEF EvaluateFails
<1>9. ASSUME NEW d \in Pending(file), SettleFails(d)
      PROVE  FALSE
  BY <1>1, <1>9 DEF SettleFails
<1>10. ASSUME Crash PROVE FALSE
  BY <1>1, <1>10 DEF Crash
<1>11. ASSUME Restart PROVE FALSE
  BY <1>11 DEF Restart, Steady
<1>12. QED
  BY <1>3, <1>4, <1>5, <1>6, <1>7, <1>8, <1>9, <1>10, <1>11 DEF Next, SettleSome

\* In every behaviour without kills and failed writes the bankroll and the
\* journal are an account: "the stake leaves the bankroll now and returns at
\* settlement" (evaluate(), paper/engine.py:259), once.
THEOREM JournalAccount == Spec /\ []Undisturbed => JournalIsAccount
<1>1. Init => Account!Init
  <2> SUFFICES ASSUME Init PROVE Account!Init
    OBVIOUS
  <2>1. file = EmptyFile /\ st.bankroll = Start
    BY DEF Init, FreshLedger
  <2>2. PendingTrades(file) = {} /\ OfKind(file, "settlement") = {}
    BY <2>1, NothingWritten
  <2>3. \A m \in Market : PendingOn(file, m) = {}
    BY <2>2 DEF PendingOn
  <2>4. JournalStakes(file) = [m \in Market |-> 0]
    BY <2>3, CostNone DEF JournalStakes
  <2>5. JournalPnl(file) = 0
    <3>1. /\ [s \in {} |-> AtLeastZero(s.pnl)] = [s \in {} |-> 0]
          /\ [s \in {} |-> AtLeastZero(-s.pnl)] = [s \in {} |-> 0]
      OBVIOUS
    <3>2. Profits({}) = 0 /\ Losses({}) = 0
      BY <3>1, MaxCostType, MarketAssumption, StakedNone DEF Profits, Losses
    <3>3. QED
      BY <2>2, <3>2 DEF JournalPnl
  <2>6. QED
    BY <2>1, <2>4, <2>5 DEF Account!Init
<1>2. IInv /\ Rest /\ Steady /\ Undisturbed' /\ [Next]_vars => [Account!Next]_(Account!vars)
  BY StepIsAccountStep
<1>3. QED
  BY <1>1, <1>2, WellFormed, SteadyThroughout, PTL DEF Spec, JournalIsAccount, Account!Spec

=============================================================================
