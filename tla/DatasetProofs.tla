---------------------------- MODULE DatasetProofs ----------------------------
(***************************************************************************)
(* The data set, from its collection to the model trained on it.           *)
(*                                                                         *)
(* Collection: the memory of a process never knows less than the files     *)
(* (Knows): a key on file is among the store's snapshots and an outcome on *)
(* file is the label in memory, also after a write that failed and after   *)
(* the files were read back.  The markets a label pass asks for have no    *)
(* outcome yet (Unlabelled).  A horizon is missed when it is over and not  *)
(* captured, and the count of the missed is their number (CountInv).       *)
(*                                                                         *)
(* ModelTraining: the model under way is new to the registry, so nothing a *)
(* kill cuts is the champion's (Fresh); what the gate saw of the champion  *)
(* is still so when the pointer moves, as nothing else moves it (Judged).  *)
(* The rows of a command are those of one data set that passed the checks  *)
(* before it (Gated), and the splits part markets, never their rows.       *)
(*                                                                         *)
(* PaperRecord: a run's settlement is well formed and its measurement      *)
(* honest (RecordInv); the report's figures are sums, and an open trade    *)
(* enters none but the stake (OpenTrade).                                  *)
(*                                                                         *)
(* FeatureEngine: the topological order is complete and ranks the features *)
(* (Places), a pass computes its targets from what it leaves behind        *)
(* (PassComputes), and a feature no moved source reaches is up to date     *)
(* also between passes (EngineInv).                                        *)
(*                                                                         *)
(* EdgeScan: a verdict is HorizonResult of one horizon and of the folds    *)
(* (VerdictInv); between a fold's training rows and a test row settles a   *)
(* market (MarketBetween), no row is tested twice (TestsApart), and the    *)
(* stable verdicts are strictly ordered by their returns (OneBest).        *)
(*                                                                         *)
(* ModelChoice: the columns kept are apart (PrunedApart) and those selected*)
(* are among them (SelectedIs), the winner is the best of the tried        *)
(* (WinnerIs), and a forecast lies in one bin (SomeBin, OneBin).           *)
(***************************************************************************)
EXTENDS Collection, ModelTraining, PaperRecord, FeatureEngine, EdgeScan, ModelChoice, OrderLemmas,
        SequenceTheorems, TLAPS

Up == phase # "down"

\* The last line of a market's record.
HasOutcome(m) == marketFile[m] # <<>> /\ Last(marketFile[m]) \in Outcome

Shape ==
    /\ now \in Nat /\ readAt \in Nat
    /\ given \in [Market -> Nat] /\ \A m \in Market : given[m] <= Len(Course[m])
    /\ marketFile \in [Market -> Seq(Label)]
    /\ snapFile \in [Key -> Seq(Nat)]
    /\ label \in [Market -> Label \cup {"unknown"}]

Knows ==
    Up => /\ \A k \in Key : snapFile[k] # <<>> => k \in snaps
          /\ \A m \in Market : HasOutcome(m) => label[m] = Last(marketFile[m])

Unlabelled ==
    phase = "label" => \A m \in Market : m \in asked => label[m] \in {"blank", "void"}

\* The clock that a pass began with is not far behind.
InPass ==
    phase = "capture" => readAt <= now /\ now <= readAt + PassTime

IInv == Shape /\ Knows /\ Unlabelled /\ InPass /\ DatasetIsSound

-----------------------------------------------------------------------------
LEMMA Instants ==
    /\ \A k \in Key : Instant(k) \in Int
    /\ Jitter \in Nat /\ PassTime \in Nat
    /\ \A m \in Market : Course[m] \in Seq({"UP", "DOWN", "void"})
<1>1. /\ Horizon \subseteq Nat \ {0} /\ SettlesAt \in [Market -> Nat] /\ Jitter \in Nat
      /\ PassTime \in Nat /\ Course \in [Market -> Seq({"UP", "DOWN", "void"})]
  BY CollectionAssumption
<1>2. ASSUME NEW k \in Key
      PROVE  Instant(k) \in Int
  <2>1. k[1] \in Market /\ k[2] \in Horizon
    BY DEF Key
  <2>2. SettlesAt[k[1]] \in Nat /\ k[2] \in Nat
    BY <1>1, <2>1
  <2>3. QED
    BY <2>2 DEF Instant
<1>3. QED
  BY <1>1, <1>2

\* A line more at the end of a record.
LEMMA LineMore ==
    ASSUME NEW S, NEW f \in Seq(S), NEW l \in S
    PROVE  /\ Append(f, l) \in Seq(S) /\ Append(f, l) # <<>> /\ Last(Append(f, l)) = l
           /\ DOMAIN Append(f, l) = 1..(Len(f) + 1) /\ DOMAIN f = 1..Len(f) /\ Len(f) \in Nat
           /\ Append(f, l)[Len(f) + 1] = l
           /\ \A i \in 1..Len(f) : Append(f, l)[i] = f[i]
           /\ f # <<>> => Last(f) = f[Len(f)] /\ Len(f) \in 1..Len(f)
<1> DEFINE g == Append(f, l)
<1>1. /\ g \in Seq(S) /\ Len(g) = Len(f) + 1 /\ g[Len(f) + 1] = l
      /\ \A i \in 1..Len(f) : g[i] = f[i]
      /\ Len(f) \in Nat /\ DOMAIN f = 1..Len(f)
  OBVIOUS
<1>2. f # <<>> => Len(f) \in 1..Len(f)
  OBVIOUS
<1> HIDE DEF g
<1>3. g # <<>> /\ DOMAIN g = 1..(Len(f) + 1)
  BY <1>1
<1>4. Last(g) = l /\ Last(f) = f[Len(f)]
  BY <1>1 DEF Last
<1>5. QED
  BY <1>1, <1>2, <1>3, <1>4 DEF g

\* A snapshot of a key that is not in memory, taken in time.
LEMMA CaptureKeeps ==
    ASSUME IInv, Up, NEW k \in Key, k \notin snaps, now - Instant(k) \in 0..Jitter + PassTime,
           snapFile' = [snapFile EXCEPT ![k] = Append(@, now)]
    PROVE  /\ snapFile' \in [Key -> Seq(Nat)]
           /\ \A j \in Key : snapFile'[j] # <<>> => snapFile[j] # <<>> \/ j = k
           /\ SnapshotOnce' /\ NeverBackdated'
<1>1. snapFile \in [Key -> Seq(Nat)] /\ now \in Nat
  BY DEF IInv, Shape
<1>2. snapFile[k] = <<>>
  BY DEF IInv, Knows
<1>3. snapFile'[k] = <<now>> /\ \A j \in Key : j # k => snapFile'[j] = snapFile[j]
  BY <1>1, <1>2
<1>4. snapFile' \in [Key -> Seq(Nat)]
  BY <1>1
<1>5. SnapshotOnce'
  <2> SUFFICES ASSUME NEW j \in Key PROVE Len(snapFile'[j]) <= 1
    BY DEF SnapshotOnce
  <2>1. CASE j = k
    <3>1. Len(<<now>>) = 1
      OBVIOUS
    <3>2. Len(snapFile'[j]) = 1
      BY <1>3, <2>1, <3>1
    <3>3. QED
      BY ONLY <3>2
  <2>2. CASE j # k
    BY <1>3, <2>2 DEF IInv, DatasetIsSound, SnapshotOnce
  <2>3. QED
    BY <2>1, <2>2
<1>6. NeverBackdated'
  <2> SUFFICES ASSUME NEW j \in Key, NEW i \in DOMAIN snapFile'[j]
               PROVE  snapFile'[j][i] - Instant(j) \in 0..Jitter + PassTime
    BY DEF NeverBackdated, Instant
  <2>1. CASE j = k
    <3>1. i = 1 /\ snapFile'[j][i] = now
      BY <1>3, <2>1
    <3>2. QED
      BY <2>1, <3>1
  <2>2. CASE j # k
    BY <1>3, <2>2 DEF IInv, DatasetIsSound, NeverBackdated
  <2>3. QED
    BY <2>1, <2>2
<1>7. QED
  BY <1>3, <1>4, <1>5, <1>6

\* A market's record that ends in l, and whose first outcome stands.
Extends(g, l) ==
    /\ g \in Seq(Label) /\ g # <<>> /\ Last(g) = l
    /\ \A i, j \in DOMAIN g : i < j /\ g[i] \in Outcome => g[j] = g[i]

\* A line of a market that has no outcome on file.
LEMMA OutcomeStays ==
    ASSUME IInv, NEW m \in Market, NEW l \in Label, ~HasOutcome(m)
    PROVE  Extends(Append(marketFile[m], l), l)
<1> DEFINE g == Append(marketFile[m], l)
<1>1. marketFile[m] \in Seq(Label)
  BY DEF IInv, Shape
<1>2. /\ g \in Seq(Label) /\ g # <<>> /\ Last(g) = l
      /\ DOMAIN g = 1..(Len(marketFile[m]) + 1)
      /\ DOMAIN marketFile[m] = 1..Len(marketFile[m]) /\ Len(marketFile[m]) \in Nat
      /\ \A i \in 1..Len(marketFile[m]) : g[i] = marketFile[m][i]
      /\ marketFile[m] # <<>> => /\ Last(marketFile[m]) = marketFile[m][Len(marketFile[m])]
                                 /\ Len(marketFile[m]) \in 1..Len(marketFile[m])
  BY <1>1, LineMore
<1> HIDE DEF g
<1>3. \A i \in 1..Len(marketFile[m]) : marketFile[m][i] \notin Outcome
  <2> SUFFICES ASSUME NEW i \in 1..Len(marketFile[m]), marketFile[m][i] \in Outcome
               PROVE  FALSE
    OBVIOUS
  <2>1. marketFile[m] # <<>> /\ Last(marketFile[m]) \notin Outcome
    BY <1>2 DEF HasOutcome
  <2>2. i # Len(marketFile[m])
    BY <1>2, <2>1
  <2>3. i < Len(marketFile[m]) /\ Len(marketFile[m]) \in DOMAIN marketFile[m]
    BY <1>2, <2>1, <2>2
  <2>4. marketFile[m][Len(marketFile[m])] = marketFile[m][i]
    BY <1>2, <2>3 DEF IInv, DatasetIsSound, LabelStands
  <2>5. QED
    BY <1>2, <2>1, <2>4
<1>4. \A i, j \in DOMAIN g : i < j /\ g[i] \in Outcome => g[j] = g[i]
  BY <1>2, <1>3
<1>5. QED
  BY <1>2, <1>4 DEF Extends, g

\* Steps of the loop that touch neither store nor files.
LEMMA IdleKeeps ==
    ASSUME IInv, UNCHANGED <<files, store>>, now' \in Nat, readAt' \in Nat,
           given' \in [Market -> Nat], \A m \in Market : given'[m] <= Len(Course[m]),
           Up' => Up, InPass',
           phase' = "label" =>
              \A m \in Market : m \in asked' => label[m] \in {"blank", "void"}
    PROVE  IInv'
<1>1. UNCHANGED <<marketFile, snapFile, label, snaps>>
  BY DEF files, store
<1>2. Shape'
  BY <1>1 DEF IInv, Shape
<1>3. Knows'
  BY <1>1 DEF IInv, Knows, HasOutcome
<1>4. Unlabelled'
  BY <1>1 DEF Unlabelled
<1>5. DatasetIsSound'
  <2>1. SnapshotOnce'
    BY <1>1 DEF IInv, DatasetIsSound, SnapshotOnce
  <2>2. NeverBackdated'
    BY <1>1 DEF IInv, DatasetIsSound, NeverBackdated, Instant
  <2>3. LabelStands'
    BY <1>1 DEF IInv, DatasetIsSound, LabelStands
  <2>4. QED
    BY <2>1, <2>2, <2>3 DEF DatasetIsSound
<1>6. QED
  BY <1>2, <1>3, <1>4, <1>5 DEF IInv

\* Where a step that fails leaves the loop.
LEMMA FailsEnds ==
    ASSUME NEW sessions, Fails(sessions)
    PROVE  phase' \in {"rest", "down"} /\ readAt' = 0
  BY DEF Fails, Ended

\* Markets that are registered, of which these reach the file.
LEMMA RegisteredKeeps ==
    ASSUME IInv, Up, NEW markets, NEW written, Registered(markets, written),
           UNCHANGED <<given, snapFile, snaps>>, now' \in Nat, readAt' \in Nat,
           phase' # "label", InPass'
    PROVE  IInv'
<1> DEFINE new == {m \in markets : label[m] = "unknown"}
<1>1. /\ label \in [Market -> Label \cup {"unknown"}] /\ marketFile \in [Market -> Seq(Label)]
      /\ "blank" \in Label
  BY DEF IInv, Shape, Label
<1>2. /\ label' = [m \in Market |-> IF m \in new THEN "blank" ELSE label[m]]
      /\ marketFile' = [m \in Market |-> IF m \in new \cap written
                                            THEN Append(marketFile[m], "blank")
                                            ELSE marketFile[m]]
  BY DEF Registered
<1>3. \A m \in Market : m \in new => ~HasOutcome(m)
  BY DEF IInv, Knows, HasOutcome, Outcome
<1> HIDE DEF new
<1>4. \A m \in Market : m \in new \cap written =>
         /\ marketFile'[m] \in Seq(Label) /\ marketFile'[m] # <<>> /\ Last(marketFile'[m]) = "blank"
         /\ \A i, j \in DOMAIN marketFile'[m] :
               i < j /\ marketFile'[m][i] \in Outcome => marketFile'[m][j] = marketFile'[m][i]
  <2> SUFFICES ASSUME NEW m \in Market, m \in new \cap written
               PROVE  /\ marketFile'[m] \in Seq(Label) /\ marketFile'[m] # <<>>
                      /\ Last(marketFile'[m]) = "blank"
                      /\ \A i, j \in DOMAIN marketFile'[m] :
                           i < j /\ marketFile'[m][i] \in Outcome
                              => marketFile'[m][j] = marketFile'[m][i]
    OBVIOUS
  <2>1. marketFile'[m] = Append(marketFile[m], "blank")
    BY <1>2
  <2>2. ~HasOutcome(m)
    BY <1>3
  <2>3. "blank" \in Label
    BY <1>1
  <2>4. QED
    BY <2>1, <2>2, <2>3, OutcomeStays DEF Extends
<1>5. \A m \in Market : m \notin new \cap written => marketFile'[m] = marketFile[m]
  BY <1>2
<1>6. marketFile' \in [Market -> Seq(Label)]
  <2>1. \A m \in Market : marketFile'[m] \in Seq(Label)
    BY <1>1, <1>4, <1>5
  <2>2. QED
    BY <1>2, <2>1
<1>7. label' \in [Market -> Label \cup {"unknown"}]
  BY <1>1, <1>2
<1>8. Shape'
  BY <1>6, <1>7 DEF IInv, Shape
<1>9. Knows'
  <2>1. \A k \in Key : snapFile'[k] # <<>> => k \in snaps'
    BY DEF IInv, Knows
  <2>2. ASSUME NEW m \in Market, HasOutcome(m)'
        PROVE  label'[m] = Last(marketFile'[m])
    <3>1. m \notin new \cap written
      BY <1>4, <2>2 DEF HasOutcome, Outcome
    <3>2. HasOutcome(m) /\ marketFile'[m] = marketFile[m]
      BY <1>5, <2>2, <3>1 DEF HasOutcome
    <3>3. m \notin new
      BY <1>3, <3>2
    <3>4. QED
      BY <1>2, <3>2, <3>3 DEF IInv, Knows
  <2>3. QED
    BY <2>1, <2>2 DEF Knows
<1>10. DatasetIsSound'
  <2>1. SnapshotOnce'
    BY DEF IInv, DatasetIsSound, SnapshotOnce
  <2>2. NeverBackdated'
    BY DEF IInv, DatasetIsSound, NeverBackdated, Instant
  <2>3. LabelStands'
    <3> SUFFICES ASSUME NEW m \in Market
                 PROVE  \A i, j \in DOMAIN marketFile'[m] :
                           i < j /\ marketFile'[m][i] \in Outcome
                              => marketFile'[m][j] = marketFile'[m][i]
      BY DEF LabelStands
    <3>1. CASE m \in new \cap written
      BY <1>4, <3>1
    <3>2. CASE m \notin new \cap written
      BY <1>5, <3>2 DEF IInv, DatasetIsSound, LabelStands
    <3>3. QED
      BY <3>1, <3>2
  <2>4. QED
    BY <2>1, <2>2, <2>3 DEF DatasetIsSound
<1>11. QED
  BY <1>8, <1>9, <1>10 DEF IInv, Unlabelled

\* What a pass leaves, or the part of it before a write failed: the file with
\* the snapshots of some keys that memory holds too.
LEMMA PassKeeps ==
    ASSUME IInv, Up, snapFile' \in [Key -> Seq(Nat)], SnapshotOnce', NeverBackdated',
           \A k \in Key : snapFile'[k] # <<>> => snapFile[k] # <<>> \/ k \in snaps',
           snaps \subseteq snaps', UNCHANGED <<now, given, marketFile, label>>,
           readAt' \in Nat, phase' # "label", InPass'
    PROVE  IInv'
<1>1. Shape'
  BY DEF IInv, Shape
<1>2. Knows'
  BY DEF IInv, Knows, HasOutcome
<1>3. LabelStands'
  BY DEF IInv, DatasetIsSound, LabelStands
<1>4. QED
  BY <1>1, <1>2, <1>3 DEF IInv, DatasetIsSound, Unlabelled

LEMMA FileKeeps ==
    ASSUME IInv, UNCHANGED snapFile
    PROVE  snapFile' \in [Key -> Seq(Nat)] /\ SnapshotOnce' /\ NeverBackdated'
  BY DEF IInv, Shape, DatasetIsSound, SnapshotOnce, NeverBackdated, Instant

\* The horizon that a session is captured at next.
LEMMA NextIsDue ==
    ASSUME IInv, phase = "capture", NEW m, Capturable(m) # {}
    PROVE  /\ NextDue(m) \notin snaps /\ Up
           /\ m \in Market => NextDue(m) \in Key
           /\ NextDue(m) \in Key => /\ readAt - Instant(NextDue(m)) \in 0..Jitter
                                   /\ now - Instant(NextDue(m)) \in 0..Jitter + PassTime
<1> DEFINE h == Max(Capturable(m))
           k == <<m, h>>
<1>1. h \in Capturable(m)
  <2>1. Capturable(m) \subseteq Horizon /\ Horizon \subseteq Int
    BY CollectionAssumption DEF Capturable, Due
  <2>2. IsFiniteSet(Capturable(m))
    BY <2>1, CollectionAssumption, FS_Subset
  <2>3. QED
    BY <2>1, <2>2, LeastAndGreatest
<1> HIDE DEF h
<1>2. h \in Horizon /\ readAt >= Instant(k) /\ k \notin snaps /\ readAt - Instant(k) <= Jitter
  BY <1>1 DEF Capturable, Due
<1>3. m \in Market => k \in Key
  BY <1>2 DEF Key
<1>4. /\ readAt \in Nat /\ now \in Nat /\ Jitter \in Nat /\ PassTime \in Nat
      /\ readAt <= now /\ now <= readAt + PassTime
      /\ k \in Key => Instant(k) \in Int
  BY Instants DEF IInv, Shape, InPass
<1>5. k \in Key => /\ readAt - Instant(k) \in 0..Jitter
                  /\ now - Instant(k) \in 0..Jitter + PassTime
  BY <1>2, <1>4
<1>6. NextDue(m) = k
  BY DEF NextDue, h
<1>7. QED
  BY <1>2, <1>3, <1>5, <1>6 DEF Up

\* An answer for a market that was asked for.
LEMMA AnswerKeeps ==
    ASSUME IInv, phase = "label", NEW m \in Market, m \in asked, NEW l \in Label,
           NEW written, Upsert(m, l, written), UNCHANGED <<given, snapFile, snaps>>,
           now' \in Nat, readAt' \in Nat, phase' # "capture",
           phase' = "label" => asked' = asked \ {m}
    PROVE  IInv'
<1>1. /\ label \in [Market -> Label \cup {"unknown"}] /\ marketFile \in [Market -> Seq(Label)]
  BY DEF IInv, Shape
<1>2. Up /\ ~HasOutcome(m)
  BY DEF IInv, Unlabelled, Knows, HasOutcome, Outcome, Up
<1>3. /\ label' \in [Market -> Label \cup {"unknown"}] /\ label'[m] = l
      /\ \A u \in Market : u # m => label'[u] = label[u]
  BY <1>1 DEF Upsert
<1>4. \/ marketFile' = marketFile
      \/ marketFile' = [marketFile EXCEPT ![m] = Append(marketFile[m], l)]
  BY DEF Upsert
<1> DEFINE g == Append(marketFile[m], l)
<1> HIDE DEF g
<1>5. /\ g \in Seq(Label) /\ g # <<>> /\ Last(g) = l
      /\ \A i, j \in DOMAIN g : i < j /\ g[i] \in Outcome => g[j] = g[i]
  <2>1. g = Append(marketFile[m], l)
    BY DEF g
  <2>2. Extends(g, l)
    BY <1>2, <2>1, OutcomeStays
  <2>3. QED
    BY <2>2 DEF Extends
<1>6. /\ marketFile' \in [Market -> Seq(Label)]
      /\ \A u \in Market : u # m => marketFile'[u] = marketFile[u]
      /\ marketFile'[m] = marketFile[m] \/ marketFile'[m] = g
  <2>1. g \in Seq(Label) /\ (\/ marketFile' = marketFile
                             \/ marketFile' = [marketFile EXCEPT ![m] = g])
    BY <1>4, <1>5 DEF g
  <2>2. QED
    BY <1>1, <2>1
<1>7. Shape'
  BY <1>3, <1>6 DEF IInv, Shape
<1>8. Knows'
  <2>1. \A k \in Key : snapFile'[k] # <<>> => k \in snaps'
    BY <1>2 DEF IInv, Knows
  <2>2. ASSUME NEW u \in Market, HasOutcome(u)'
        PROVE  label'[u] = Last(marketFile'[u])
    <3>1. CASE u # m
      <4>1. HasOutcome(u) /\ marketFile'[u] = marketFile[u]
        BY <1>6, <2>2, <3>1 DEF HasOutcome
      <4>2. QED
        BY <1>2, <1>3, <3>1, <4>1 DEF IInv, Knows
    <3>2. CASE u = m
      <4>1. marketFile'[m] = g
        BY <1>2, <1>6, <2>2, <3>2 DEF HasOutcome
      <4>2. QED
        BY <1>3, <1>5, <3>2, <4>1
    <3>3. QED
      BY <3>1, <3>2
  <2>3. QED
    BY <2>1, <2>2 DEF Knows
<1>9. Unlabelled'
  BY <1>3 DEF IInv, Unlabelled
<1>10. DatasetIsSound'
  <2>1. SnapshotOnce' /\ NeverBackdated'
    BY DEF IInv, DatasetIsSound, SnapshotOnce, NeverBackdated, Instant
  <2>2. LabelStands'
    <3> SUFFICES ASSUME NEW u \in Market
                 PROVE  \A i, j \in DOMAIN marketFile'[u] :
                           i < j /\ marketFile'[u][i] \in Outcome
                              => marketFile'[u][j] = marketFile'[u][i]
      BY DEF LabelStands
    <3>1. CASE marketFile'[u] = marketFile[u]
      BY <3>1 DEF IInv, DatasetIsSound, LabelStands
    <3>2. CASE marketFile'[u] = g
      BY <1>5, <3>2
    <3>3. QED
      BY <1>6, <3>1, <3>2
  <2>3. QED
    BY <2>1, <2>2 DEF DatasetIsSound
<1>11. QED
  BY <1>7, <1>8, <1>9, <1>10 DEF IInv, InPass

\* What the venue pays a market out by.
LEMMA VenueLabels ==
    ASSUME IInv, NEW m \in Market, Venue(m) # "none"
    PROVE  Venue(m) \in Label
<1>1. Course[m] \in Seq({"UP", "DOWN", "void"}) /\ given[m] \in Nat /\ given[m] <= Len(Course[m])
  BY Instants DEF IInv, Shape
<1>2. given[m] # 0 /\ Venue(m) = Course[m][given[m]]
  BY DEF Venue
<1>3. given[m] \in 1..Len(Course[m])
  BY <1>1, <1>2
<1>4. Course[m][given[m]] \in {"UP", "DOWN", "void"}
  BY <1>1, <1>3
<1>5. QED
  BY <1>2, <1>4 DEF Label, Outcome

-----------------------------------------------------------------------------
LEMMA InitHolds ==
    ASSUME Init
    PROVE  IInv
<1>1. Shape
  <2>1. \A m \in Market : Len(Course[m]) \in Nat
    BY Instants
  <2>2. given \in [Market -> Nat] /\ \A m \in Market : given[m] <= Len(Course[m])
    BY <2>1 DEF Init
  <2>3. marketFile \in [Market -> Seq(Label)] /\ snapFile \in [Key -> Seq(Nat)]
    BY DEF Init
  <2>4. QED
    BY <2>2, <2>3 DEF Init, Shape
<1>2. Knows /\ Unlabelled /\ InPass
  BY DEF Init, Knows, Unlabelled, InPass, Up
<1>3. SnapshotOnce /\ NeverBackdated /\ LabelStands
  <2>1. \A k \in Key : snapFile[k] = <<>>
    BY DEF Init
  <2>2. \A m \in Market : marketFile[m] = <<>>
    BY DEF Init
  <2>3. QED
    BY <2>1, <2>2 DEF SnapshotOnce, NeverBackdated, LabelStands
<1>4. QED
  BY <1>1, <1>2, <1>3 DEF IInv, DatasetIsSound

\* A new process reads back what is on file.
LEMMA StartKeeps ==
    ASSUME IInv, Start
    PROVE  IInv'
<1>1. UNCHANGED <<now, given, readAt, marketFile, snapFile>> /\ phase' = "rest"
  BY DEF Start, files
<1>2. \A m \in Market : label'[m] = IndexMarket(m)
  BY DEF Start
<1>3. \A m \in Market : marketFile[m] # <<>> => label'[m] = Last(marketFile[m])
  BY <1>2 DEF IndexMarket
<1>4. label' \in [Market -> Label \cup {"unknown"}]
  <2>1. ASSUME NEW m \in Market
        PROVE  IndexMarket(m) \in Label \cup {"unknown"}
    <3>1. marketFile[m] \in Seq(Label)
      BY DEF IInv, Shape
    <3>2. marketFile[m] # <<>> => Last(marketFile[m]) \in Label
      BY <3>1 DEF Last
    <3>3. QED
      BY <3>2 DEF IndexMarket
  <2>2. QED
    BY <2>1 DEF Start
<1>5. Shape'
  BY <1>1, <1>4 DEF IInv, Shape
<1>6. Knows'
  <2>1. \A k \in Key : snapFile'[k] # <<>> => k \in snaps'
    BY <1>1 DEF Start, IndexSnapshots
  <2>2. QED
    BY <1>1, <1>3, <2>1 DEF Knows, HasOutcome
<1>7. SnapshotOnce' /\ NeverBackdated' /\ LabelStands'
  BY <1>1 DEF IInv, DatasetIsSound, SnapshotOnce, NeverBackdated, LabelStands, Instant
<1>8. QED
  BY <1>1, <1>5, <1>6, <1>7 DEF IInv, Unlabelled, InPass, DatasetIsSound

LEMMA NextKeeps ==
    ASSUME IInv, [Next]_vars
    PROVE  IInv'
<1>1. now \in Nat /\ now + 1 \in Nat /\ readAt \in Nat /\ 0 \in Nat /\ given \in [Market -> Nat]
      /\ \A m \in Market : given[m] <= Len(Course[m]) /\ Len(Course[m]) \in Nat
  BY Instants DEF IInv, Shape
<1>2. phase = "label" => \A m \in Market : m \in asked => label[m] \in {"blank", "void"}
  BY DEF IInv, Unlabelled
<1>17. InPass /\ PassTime \in Nat
  BY Instants DEF IInv
<1>3. CASE Tick \/ UNCHANGED vars
  <2>1. InPass'
    BY <1>1, <1>3, <1>17 DEF InPass, Tick, vars, loop
  <2>2. QED
    BY <1>1, <1>2, <1>3, <2>1, IdleKeeps DEF Tick, vars, loop, Up, files, store
<1>4. CASE \E m \in Market : Publish(m)
  <2>1. PICK m \in Market : Publish(m)
    BY <1>4
  <2>2. given' \in [Market -> Nat] /\ \A u \in Market : given'[u] <= Len(Course[u])
    BY <1>1, <2>1 DEF Publish
  <2>3. InPass'
    BY <1>17, <2>1 DEF InPass, Publish, loop
  <2>4. QED
    BY <1>1, <1>2, <2>1, <2>2, <2>3, IdleKeeps DEF Publish, loop, Up
<1>5. CASE Start
  BY <1>5, StartKeeps
<1>6. CASE Crash \/ ScanFails
  <2>1. UNCHANGED <<now, given, files, store>>
    BY <1>6 DEF Crash, ScanFails
  <2>2. phase' \in {"rest", "down"} /\ readAt' = 0 /\ Up
    BY <1>6, FailsEnds DEF Crash, ScanFails, Ended, Up
  <2>3. QED
    BY <1>1, <2>1, <2>2, IdleKeeps DEF InPass
<1>7. CASE Sync \/ Skip \/ Rest
  <2>1. UNCHANGED <<now, given, files, store>> /\ readAt' \in {0, now} /\ Up
    BY <1>7 DEF Sync, Skip, Rest, BeginPass, Up
  <2>2. phase' # "label"
    BY <1>7 DEF Sync, Skip, Rest, BeginPass
  <2>3. InPass'
    BY <1>1, <1>7, <1>17 DEF InPass, Sync, Skip, Rest, BeginPass
  <2>4. QED
    BY <1>1, <2>1, <2>2, <2>3, IdleKeeps
<1>8. CASE ScanFinds
  <2>1. PICK found \in SUBSET Market : Scanned(found)
    BY <1>8 DEF ScanFinds
  <2>2. /\ Registered(ToSet(Opens(found)), Market) /\ Up /\ phase' # "label"
        /\ UNCHANGED <<now, given, snapFile, snaps>> /\ readAt' = now
    BY <2>1 DEF Scanned, BeginPass, Up
  <2>3. InPass'
    BY <1>1, <1>17, <2>2 DEF InPass
  <2>4. QED
    BY <1>1, <2>2, <2>3, RegisteredKeeps
<1>9. CASE \E found \in SUBSET Market, n \in 1..MaxSessions : RegisterFails(found, n)
  <2>1. PICK found \in SUBSET Market, n \in 1..MaxSessions : RegisterFails(found, n)
    BY <1>9
  <2>2. PICK before :
          /\ Registered(ToSet(before) \cup {Opens(found)[n]}, ToSet(before))
          /\ Fails(open \o before)
    BY <2>1 DEF RegisterFails
  <2>3. phase' \in {"rest", "down"} /\ readAt' = 0
    BY <2>2, FailsEnds
  <2>4. Up /\ UNCHANGED <<now, given, snapFile, snaps>>
    BY <2>1 DEF RegisterFails, Up
  <2>5. QED
    BY <1>1, <2>2, <2>3, <2>4, RegisteredKeeps DEF InPass
<1>10. CASE Capture \/ CaptureFails
  <2>1. /\ phase = "capture" /\ todo # <<>> /\ Capturable(Head(todo)) # {}
        /\ snaps' = snaps \cup {NextDue(Head(todo))}
        /\ UNCHANGED <<now, given, marketFile, label>>
    BY <1>10 DEF Capture, CaptureFails, files
  <2> DEFINE k == NextDue(Head(todo))
  <2>2. /\ k \notin snaps /\ Up
        /\ k \in Key => now - Instant(k) \in 0..Jitter + PassTime
    BY <2>1, NextIsDue
  <2>3. \/ snapFile' = [snapFile EXCEPT ![k] = Append(@, now)] /\ UNCHANGED loop
        \/ UNCHANGED snapFile /\ Fails(open)
    BY <1>10 DEF Capture, CaptureFails, files
  <2> HIDE DEF k
  <2>4. /\ snapFile' \in [Key -> Seq(Nat)] /\ SnapshotOnce' /\ NeverBackdated'
        /\ \A j \in Key : snapFile'[j] # <<>> => snapFile[j] # <<>> \/ j = k
    <3>1. CASE k \in Key
      BY <2>2, <2>3, <3>1, CaptureKeeps, FileKeeps
    <3>2. CASE k \notin Key
      <4>1. UNCHANGED snapFile
        BY <2>3, <3>2 DEF IInv, Shape
      <4>2. QED
        BY <4>1, FileKeeps
    <3>3. QED
      BY <3>1, <3>2
  <2>5. readAt' \in Nat /\ phase' # "label" /\ InPass'
    BY <1>1, <1>17, <2>1, <2>3, FailsEnds DEF InPass, loop
  <2>6. k \in snaps' /\ snaps \subseteq snaps'
    BY <2>1 DEF k
  <2>7. QED
    BY <2>1, <2>2, <2>4, <2>5, <2>6, PassKeeps
<1>11. CASE Sweep
  <2>1. UNCHANGED <<now, given, files, store, phase, readAt>> /\ phase' # "label" /\ Up
    BY <1>11 DEF Sweep, Up
  <2>2. InPass'
    BY <1>17, <2>1 DEF InPass
  <2>3. QED
    BY <1>1, <2>1, <2>2, IdleKeeps
<1>12. CASE BeginLabels
  <2>1. /\ UNCHANGED <<now, given, files, store>> /\ readAt' = now /\ Up
        /\ asked' = Ask
    BY <1>12 DEF BeginLabels, Up
  <2>2. \A m \in Market : m \in asked' => label[m] \in {"blank", "void"}
    BY <2>1 DEF Ask
  <2>3. InPass'
    BY <1>12 DEF BeginLabels, InPass
  <2>4. QED
    BY <1>1, <2>1, <2>2, <2>3, IdleKeeps
<1>13. CASE \E m \in Market : NoAnswer(m)
  <2>1. PICK m \in Market : NoAnswer(m)
    BY <1>13
  <2>2. UNCHANGED <<now, given, files, store, phase, readAt>> /\ asked' = asked \ {m} /\ Up
    BY <2>1 DEF NoAnswer, Up
  <2>3. InPass'
    BY <1>17, <2>2 DEF InPass
  <2>4. QED
    BY <1>1, <1>2, <2>2, <2>3, IdleKeeps
<1>14. CASE \E m \in Market : Resolve(m)
  <2>1. PICK m \in Market : Resolve(m)
    BY <1>14
  <2>2. /\ phase = "label" /\ m \in asked /\ Venue(m) # "none" /\ Upsert(m, Venue(m), TRUE)
        /\ asked' = asked \ {m} /\ UNCHANGED <<now, given, phase, readAt, snapFile, snaps>>
    BY <2>1 DEF Resolve
  <2>3. Venue(m) \in Label
    BY <2>2, VenueLabels
  <2>4. QED
    BY <1>1, <2>2, <2>3, AnswerKeeps
<1>15. CASE \E m \in Market : ResolveFails(m)
  <2>1. PICK m \in Market : ResolveFails(m)
    BY <1>15
  <2>2. /\ phase = "label" /\ m \in asked /\ Venue(m) # "none" /\ Upsert(m, Venue(m), FALSE)
        /\ Fails(open) /\ UNCHANGED <<now, given, snapFile, snaps>>
    BY <2>1 DEF ResolveFails
  <2>3. Venue(m) \in Label
    BY <2>2, VenueLabels
  <2>4. phase' \in {"rest", "down"} /\ readAt' = 0
    BY <2>2, FailsEnds
  <2>5. QED
    BY <1>1, <2>2, <2>3, <2>4, AnswerKeeps
<1>16. QED
  BY <1>3, <1>4, <1>5, <1>6, <1>7, <1>8, <1>9, <1>10, <1>11, <1>12, <1>13, <1>14, <1>15
     DEF Next, Answers

(***************************************************************************)
(* Each snapshot is on file once, taken no later than the jitter and the   *)
(* time of a pass allow, and an outcome on file is for good: the data set  *)
(* of the collection service, whatever fails, however long its passes take *)
(* and however often it is restarted.                                      *)
(***************************************************************************)
THEOREM Dataset == Spec => []DatasetIsSound
<1>1. Init => IInv
  BY InitHolds
<1>2. IInv /\ [Next]_vars => IInv'
  BY NextKeeps
<1>3. IInv => DatasetIsSound
  BY DEF IInv
<1>4. QED
  BY <1>1, <1>2, <1>3, PTL DEF Spec

-----------------------------------------------------------------------------
(***************************************************************************)
(* The countdown.  The sessions are distinct and known to the store.  They *)
(* are looked at with the clock as the pass has read it: a horizon that is *)
(* counted as missed is late by every later reading and is never captured. *)
(***************************************************************************)

Sessions ==
    /\ open \in Seq(Market) /\ IsInjective(open) /\ Len(open) <= MaxSessions
    /\ phase = "down" => open = <<>>
    /\ \A m \in ToSet(open) : label[m] # "unknown"

Counts ==
    /\ now \in 0..MaxTime /\ readAt \in 0..now
    /\ phase \in {"down", "rest", "scan", "capture", "label"}
    /\ todo \in Seq(Market) /\ asked \subseteq Market /\ errors \in 0..(MaxErrors - 1)
    /\ snaps \subseteq Key /\ missed \subseteq Key /\ faults \in 0..MaxFaults

Seen(k) == readAt - Instant(k) > Jitter => k \in snaps \cup missed

Tally ==
    /\ \A k \in missed : k \notin snaps /\ now - Instant(k) > Jitter /\ snapFile[k] = <<>>
    /\ phase = "capture" => \A k \in missed : readAt - Instant(k) > Jitter
    /\ phase = "capture" => \A k \in (ToSet(open) \ ToSet(todo)) \X Horizon : Seen(k)

CountInv == Sessions /\ Counts /\ Tally

LEMMA CountConstants ==
    /\ {MaxTime, MaxFaults, Jitter, Warmup, MaxSessions, MaxErrors} \subseteq Nat
    /\ MaxErrors > 0 /\ IsFiniteSet(Market) /\ SettlesAt \in [Market -> Nat]
  BY CollectionAssumption

LEMMA NthIs ==
    ASSUME NEW P \in SUBSET Int, IsFiniteSet(P)
    PROVE  /\ Cardinality(P) \in Nat
           /\ \A k \in 1..Cardinality(P) :
                Nth(P, k) \in P /\ Cardinality({j \in P : j < Nth(P, k)}) = k - 1
<1> DEFINE R == {p \in P \X P : p[1] < p[2]}
<1>1. \A i, j \in P : <<i, j>> \in R <=> i < j
  OBVIOUS
<1> HIDE DEF R
<1>2. StrictOrder(P, R)
  BY <1>1 DEF StrictOrder
<1>3. Cardinality(P) \in Nat
  BY FS_CardinalityType
<1>4. ASSUME NEW i \in P PROVE Place(P, R)[i] = Cardinality({j \in P : j < i})
  <2>1. {j \in P : <<j, i>> \in R} = {j \in P : j < i}
    BY <1>1
  <2>2. QED
    BY <2>1 DEF Place
<1>5. ASSUME NEW k \in 1..Cardinality(P)
      PROVE  Nth(P, k) \in P /\ Cardinality({j \in P : j < Nth(P, k)}) = k - 1
  <2>1. k - 1 \in 0..(Cardinality(P) - 1)
    BY <1>3
  <2>2. \A l \in 0..(Cardinality(P) - 1) : \E i \in P : Place(P, R)[i] = l
    BY <1>2, PlacesTaken
  <2>3. \E i \in P : Cardinality({j \in P : j < i}) = k - 1
    BY <1>4, <2>1, <2>2
  <2>4. QED
    BY <2>3 DEF Nth
<1>6. QED
  BY <1>3, <1>5

\* The sessions that stay are some of those that were open.
LEMMA Staying ==
    ASSUME Sessions
    PROVE  /\ StillOpen \in Seq(Market) /\ IsInjective(StillOpen)
           /\ Len(StillOpen) <= MaxSessions /\ ToSet(StillOpen) \subseteq ToSet(open)
<1> DEFINE kept == {i \in DOMAIN open : ~Closes(open[i])}
           n == Cardinality(kept)
<1>1. /\ open \in Seq(Market) /\ DOMAIN open = 1..Len(open) /\ Len(open) \in Nat
      /\ Len(open) <= MaxSessions /\ MaxSessions \in Nat
  BY CountConstants DEF Sessions
<1>2. kept \in SUBSET (1..Len(open)) /\ kept \in SUBSET Int
  BY <1>1
<1>3. IsFiniteSet(1..Len(open)) /\ Cardinality(1..Len(open)) = Len(open)
  <2>1. 1 \in Int /\ Len(open) \in Int
    BY <1>1
  <2>2. /\ IsFiniteSet(1..Len(open))
        /\ Cardinality(1..Len(open)) = IF 1 > Len(open) THEN 0 ELSE Len(open) - 1 + 1
    BY ONLY <2>1, FS_Interval
  <2>3. QED
    BY <1>1, <2>2
<1>4. IsFiniteSet(kept) /\ n <= Len(open)
  BY <1>2, <1>3, FS_Subset
<1>5. StillOpen = [k \in 1..n |-> open[Nth(kept, k)]]
  BY DEF StillOpen
<1> HIDE DEF kept, n
<1>6. n \in Nat /\ \A k \in 1..n : Nth(kept, k) \in kept
                                   /\ Cardinality({j \in kept : j < Nth(kept, k)}) = k - 1
  BY <1>2, <1>4, NthIs DEF n
<1>7. \A k \in 1..n : Nth(kept, k) \in 1..Len(open) /\ open[Nth(kept, k)] \in Market
  <2>1. \A i \in 1..Len(open) : open[i] \in Market
    BY <1>1
  <2>2. \A k \in 1..n : Nth(kept, k) \in 1..Len(open)
    BY <1>2, <1>6
  <2>3. QED
    BY <2>1, <2>2
<1>8. StillOpen \in Seq(Market) /\ Len(StillOpen) = n /\ DOMAIN StillOpen = 1..n
  BY <1>5, <1>6, <1>7
<1>9. IsInjective(StillOpen)
  <2> SUFFICES ASSUME NEW k \in 1..n, NEW l \in 1..n, StillOpen[k] = StillOpen[l]
               PROVE  k = l
    BY <1>8 DEF IsInjective
  <2>1. open[Nth(kept, k)] = open[Nth(kept, l)]
    BY <1>5
  <2>2. Nth(kept, k) = Nth(kept, l)
    BY <1>1, <1>7, <2>1 DEF Sessions, IsInjective
  <2>3. k - 1 = l - 1
    BY <1>6, <2>2
  <2>4. QED
    BY <1>6, <2>3
<1>10. ToSet(StillOpen) \subseteq ToSet(open)
  BY <1>1, <1>5, <1>7, <1>8 DEF ToSet
<1>11. QED
  BY <1>1, <1>4, <1>6, <1>8, <1>9, <1>10

\* Sessions that may be opened beside those that are open.
Fits(s) ==
    /\ s \in Seq(Market) /\ IsInjective(s) /\ Len(s) <= MaxSessions - Len(open)
    /\ ToSet(s) \cap ToSet(open) = {}

LEMMA Opening ==
    ASSUME Sessions, NEW found \in SUBSET Market
    PROVE  Fits(Opens(found))
<1> DEFINE S == {m \in found \ ToSet(open) : OpensAt[m] - readAt <= Warmup}
           n == Cardinality(S)
           near == BySettlement(S)
           room == MaxSessions - Len(open)
           c == Min({n, room})
<1>1. open \in Seq(Market) /\ room \in Nat /\ MaxSessions \in Nat
  BY CountConstants DEF Sessions
<1>2. IsFiniteSet(S) /\ S \subseteq Market /\ S \cap ToSet(open) = {}
  BY CountConstants, FS_Subset
<1>3. n \in Nat
  BY <1>2, FS_CardinalityType
<1>4. \E s \in [1..n -> S] :
         IsInjective(s) /\ \A i, j \in DOMAIN s : i < j => SettlesAt[s[i]] <= SettlesAt[s[j]]
  <2>1. \A m \in S : SettlesAt[m] \in Int
    BY <1>2, CountConstants
  <2> HIDE DEF S
  <2>2. QED
    BY <1>2, <2>1, SortedExists
<1>5. Opens(found) = SubSeq(near, 1, Min({Len(near), room}))
  BY DEF Opens
<1> HIDE DEF S
<1>6. near \in [1..n -> S] /\ IsInjective(near)
  BY <1>4 DEF BySettlement
<1> HIDE DEF near, n
<1>7. Len(near) = n
  BY <1>3, <1>6
<1>8. c \in Nat /\ c <= n /\ c <= room
  <2>1. c = IF n <= room THEN n ELSE room
    BY <1>1, <1>3, OfTwo
  <2>2. QED
    BY <1>1, <1>3, <2>1
<1>9. Opens(found) = SubSeq(near, 1, c)
  BY <1>5, <1>7
<1> HIDE DEF c, room
<1>10. \A i \in 1..c : i \in 1..n /\ near[i] \in S
  BY <1>3, <1>6, <1>8
<1>11. /\ Opens(found) \in Seq(S) /\ Len(Opens(found)) = c
       /\ \A i \in 1..c : Opens(found)[i] = near[i]
  <2>1. 1 \in Int /\ c \in Int /\ c - 1 + 1 = c
    BY <1>8
  <2>2. /\ SubSeq(near, 1, c) \in Seq(S)
        /\ Len(SubSeq(near, 1, c)) = IF 1 <= c THEN c - 1 + 1 ELSE 0
        /\ \A i \in 1..(c - 1 + 1) : SubSeq(near, 1, c)[i] = near[1 + i - 1]
    BY <1>10, <2>1, SubSeqProperties
  <2>3. \A i \in 1..c : 1 + i - 1 = i
    BY <1>8
  <2>4. QED
    BY <1>8, <1>9, <2>1, <2>2, <2>3
<1>12. Opens(found) \in Seq(Market)
  BY <1>2, <1>11
<1>13. DOMAIN Opens(found) = 1..c
  BY <1>11
<1>14. IsInjective(Opens(found))
  BY <1>6, <1>10, <1>11, <1>13 DEF IsInjective
<1>15. ToSet(Opens(found)) \subseteq S
  BY <1>10, <1>11, <1>13 DEF ToSet
<1>16. QED
  BY <1>2, <1>8, <1>11, <1>12, <1>14, <1>15 DEF Fits, room

\* Those opened before the one that cannot be registered.
LEMMA OpenedBefore ==
    ASSUME NEW s, Fits(s), NEW n \in DOMAIN s, open \in Seq(Market)
    PROVE  Fits(SubSeq(s, 1, n - 1)) /\ ToSet(SubSeq(s, 1, n - 1)) \subseteq ToSet(s)
<1>1. s \in Seq(Market) /\ n \in 1..Len(s) /\ Len(s) \in Nat /\ n - 1 \in Nat /\ n \in Int
  BY DEF Fits
<1> DEFINE b == SubSeq(s, 1, n - 1)
<1>2. \A i \in 1..(n - 1) : i \in 1..Len(s) /\ s[i] \in Market
  BY <1>1
<1>3. b \in Seq(Market) /\ Len(b) = n - 1 /\ \A i \in 1..(n - 1) : b[i] = s[i]
  <2>1. 1 \in Int /\ n - 1 \in Int /\ (n - 1) - 1 + 1 = n - 1
    BY <1>1
  <2>2. /\ b \in Seq(Market)
        /\ Len(b) = IF 1 <= n - 1 THEN (n - 1) - 1 + 1 ELSE 0
        /\ \A i \in 1..((n - 1) - 1 + 1) : b[i] = s[1 + i - 1]
    BY <1>2, <2>1, SubSeqProperties
  <2>3. \A i \in 1..(n - 1) : 1 + i - 1 = i
    BY <1>1
  <2>4. QED
    BY <1>1, <2>1, <2>2, <2>3
<1> HIDE DEF b
<1>4. DOMAIN b = 1..(n - 1)
  BY <1>3
<1>5. IsInjective(b)
  BY <1>1, <1>2, <1>3, <1>4 DEF Fits, IsInjective
<1>6. ToSet(b) \subseteq ToSet(s)
  BY <1>1, <1>2, <1>3, <1>4 DEF ToSet
<1>7. MaxSessions - Len(open) \in Int
  BY CountConstants
<1>8. Len(b) <= MaxSessions - Len(open)
  BY <1>1, <1>3, <1>7 DEF Fits
<1>9. QED
  BY <1>3, <1>5, <1>6, <1>8 DEF Fits, b

LEMMA JoinedSessions ==
    ASSUME Sessions, NEW s, Fits(s)
    PROVE  /\ open \o s \in Seq(Market) /\ IsInjective(open \o s)
           /\ Len(open \o s) <= MaxSessions /\ ToSet(open \o s) = ToSet(open) \cup ToSet(s)
<1> DEFINE t == open \o s
<1>1. /\ open \in Seq(Market) /\ s \in Seq(Market) /\ Len(open) \in Nat /\ Len(s) \in Nat
      /\ DOMAIN open = 1..Len(open) /\ DOMAIN s = 1..Len(s) /\ MaxSessions \in Nat
  BY CountConstants DEF Sessions, Fits
<1>2. /\ t \in Seq(Market) /\ Len(t) = Len(open) + Len(s)
      /\ \A i \in 1..(Len(open) + Len(s)) :
            t[i] = IF i <= Len(open) THEN open[i] ELSE s[i - Len(open)]
  BY <1>1, ConcatProperties
<1> HIDE DEF t
<1>3. DOMAIN t = 1..(Len(open) + Len(s))
  BY <1>2
<1>4. \A i \in 1..Len(open) : i \in DOMAIN t /\ t[i] = open[i] /\ t[i] \in ToSet(open)
  BY <1>1, <1>2, <1>3 DEF ToSet
<1>5. \A i \in DOMAIN t : i \notin 1..Len(open) =>
         i - Len(open) \in 1..Len(s) /\ t[i] = s[i - Len(open)] /\ t[i] \in ToSet(s)
  BY <1>1, <1>2, <1>3 DEF ToSet
<1>6. ToSet(t) = ToSet(open) \cup ToSet(s)
  <2>1. ToSet(t) \subseteq ToSet(open) \cup ToSet(s)
    BY <1>4, <1>5 DEF ToSet
  <2>2. ToSet(open) \subseteq ToSet(t)
    BY <1>1, <1>4 DEF ToSet
  <2>3. ASSUME NEW j \in 1..Len(s) PROVE s[j] \in ToSet(t)
    <3>1. j + Len(open) \in DOMAIN t /\ j + Len(open) \notin 1..Len(open)
      BY <1>1, <1>3
    <3>2. t[j + Len(open)] = s[j]
      BY <1>1, <1>5, <3>1
    <3>3. QED
      BY <3>1, <3>2 DEF ToSet
  <2>4. ToSet(s) \subseteq ToSet(t)
    BY <1>1, <2>3 DEF ToSet
  <2>5. QED
    BY <2>1, <2>2, <2>4
<1>7. IsInjective(t)
  <2> SUFFICES ASSUME NEW i \in DOMAIN t, NEW j \in DOMAIN t, t[i] = t[j] PROVE i = j
    BY DEF IsInjective
  <2>1. i \in Int /\ j \in Int /\ ToSet(s) \cap ToSet(open) = {}
    BY <1>3 DEF Fits
  <2>2. CASE i \in 1..Len(open) /\ j \in 1..Len(open)
    BY <1>1, <1>4, <2>2 DEF Sessions, IsInjective
  <2>3. CASE i \notin 1..Len(open) /\ j \notin 1..Len(open)
    <3>1. i - Len(open) = j - Len(open)
      BY <1>1, <1>5, <2>3 DEF Fits, IsInjective
    <3>2. QED
      BY <1>1, <2>1, <3>1
  <2>4. QED
    BY <1>4, <1>5, <2>1, <2>2, <2>3
<1>8. Len(t) <= MaxSessions
  BY <1>1, <1>2 DEF Fits
<1>9. QED
  BY <1>2, <1>6, <1>7, <1>8 DEF t

\* A record in memory is never unknown again.
LEMMA KnownStays ==
    ASSUME NEW markets, NEW written, Registered(markets, written), NEW m \in Market,
           m \in markets \/ label[m] # "unknown"
    PROVE  label'[m] # "unknown"
  BY DEF Registered

LEMMA FailsLeaves ==
    ASSUME Counts, NEW sessions, Fails(sessions)
    PROVE  /\ phase' \in {"rest", "down"} /\ readAt' = 0 /\ todo' = <<>> /\ asked' = {}
           /\ errors' \in 0..(MaxErrors - 1) /\ faults' \in 0..MaxFaults
           /\ open' = <<>> \/ (open' = sessions /\ phase' = "rest")
<1>1. errors \in 0..(MaxErrors - 1) /\ faults \in 0..MaxFaults /\ MaxErrors \in Nat
      /\ MaxErrors > 0 /\ MaxFaults \in Nat
  BY CountConstants DEF Counts
<1>2. faults' \in 0..MaxFaults
  BY <1>1 DEF Fails
<1>3. QED
  BY <1>1, <1>2 DEF Fails, Ended

LEMMA CountInit ==
    ASSUME Init
    PROVE  CountInv
<1>1. Sessions
  BY CountConstants DEF Init, Sessions, IsInjective, ToSet
<1>2. Counts
  BY CountConstants DEF Init, Counts
<1>3. Tally
  BY DEF Init, Tally
<1>4. QED
  BY <1>1, <1>2, <1>3 DEF CountInv

\* What becomes of the sessions when a step ends or is given up.
LEMMA SessionsEnd ==
    ASSUME CountInv, NEW sessions, Fails(sessions), UNCHANGED <<now, missed>>,
           sessions \in Seq(Market), IsInjective(sessions), Len(sessions) <= MaxSessions,
           \A m \in ToSet(sessions) : label'[m] # "unknown", snaps' \subseteq Key
    PROVE  Sessions' /\ Counts'
<1>1. /\ phase' \in {"rest", "down"} /\ readAt' = 0 /\ todo' = <<>> /\ asked' = {}
      /\ errors' \in 0..(MaxErrors - 1) /\ faults' \in 0..MaxFaults
      /\ open' = <<>> \/ (open' = sessions /\ phase' = "rest")
  BY FailsLeaves DEF CountInv
<1>2. Sessions'
  <2>1. CASE open' = <<>>
    BY <2>1, CountConstants DEF Sessions, IsInjective, ToSet
  <2>2. CASE open' = sessions /\ phase' = "rest"
    BY <2>2 DEF Sessions
  <2>3. QED
    BY <1>1, <2>1, <2>2
<1>3. now \in 0..MaxTime /\ 0 \in 0..now /\ missed \subseteq Key
  BY CountConstants DEF CountInv, Counts
<1>4. Counts'
  BY <1>1, <1>3 DEF Counts
<1>5. QED
  BY <1>2, <1>4

\* Nothing is counted and nothing captured by a step that leaves the pass.
LEMMA TallyStays ==
    ASSUME CountInv, phase' # "capture", UNCHANGED <<now, missed, snaps, snapFile>>
    PROVE  Tally'
  BY DEF CountInv, Tally

\* A horizon that is captured is not late.
LEMMA NotLate ==
    ASSUME IInv, CountInv, phase = "capture", NEW m \in Market, Capturable(m) # {}
    PROVE  NextDue(m) \notin missed
<1>1. NextDue(m) \in Key /\ readAt - Instant(NextDue(m)) \in 0..Jitter
  BY NextIsDue
<1>2. Jitter \in Nat
  BY Instants
<1>3. ~(readAt - Instant(NextDue(m)) > Jitter)
  BY <1>1, <1>2
<1>4. QED
  BY <1>3 DEF CountInv, Tally

\* Sessions that are registered are known.
LEMMA AllKnown ==
    ASSUME Sessions, NEW s, Fits(s), NEW markets, NEW written, Registered(markets, written),
           ToSet(s) \subseteq markets
    PROVE  \A m \in ToSet(open \o s) : label'[m] # "unknown"
<1> SUFFICES ASSUME NEW m \in ToSet(open \o s) PROVE label'[m] # "unknown"
  OBVIOUS
<1>1. m \in ToSet(open) \/ m \in ToSet(s)
  BY JoinedSessions
<1>2. open \in Seq(Market) /\ s \in Seq(Market)
  BY DEF Sessions, Fits
<1>3. m \in Market
  BY <1>1, <1>2 DEF ToSet
<1>4. m \in markets \/ label[m] # "unknown"
  BY <1>1 DEF Sessions
<1>5. QED
  BY <1>3, <1>4, KnownStays

\* A pass over the sessions begins.
LEMMA PassBegins ==
    ASSUME CountInv, NEW s, BeginPass(s), UNCHANGED <<now, missed, snaps, snapFile, errors, asked, faults>>,
           s \in Seq(Market), IsInjective(s), Len(s) <= MaxSessions, open' = s,
           \A m \in ToSet(s) : label'[m] # "unknown"
    PROVE  CountInv'
<1>1. Sessions'
  BY DEF BeginPass, Sessions
<1>2. Counts'
  <2>1. now \in 0..now
    BY CountConstants DEF CountInv, Counts
  <2>2. QED
    BY <2>1 DEF BeginPass, CountInv, Counts
<1>3. Tally'
  <2>1. ToSet(open') \ ToSet(todo') = {}
    BY DEF BeginPass
  <2>2. \A k \in missed : k \notin snaps /\ now - Instant(k) > Jitter /\ snapFile[k] = <<>>
    BY DEF CountInv, Tally
  <2>3. missed' = missed /\ readAt' = now
    BY DEF BeginPass
  <2>4. \A k \in missed : Instant(k)' = Instant(k)
    BY DEF Instant
  <2>5. QED
    BY <2>1, <2>2, <2>3, <2>4 DEF Tally
<1>4. QED
  BY <1>1, <1>2, <1>3 DEF CountInv

LEMMA TickCounts ==
    ASSUME IInv, CountInv, Tick
    PROVE  CountInv'
<1>1. Sessions'
  BY DEF Tick, loop, store, CountInv, Sessions
<1>2. Counts'
  <2>1. now \in Nat /\ MaxTime \in Nat /\ readAt \in 0..now /\ now < MaxTime
    BY CountConstants DEF Tick, IInv, Shape, CountInv, Counts
  <2>2. now + 1 \in 0..MaxTime /\ readAt \in 0..(now + 1)
    BY <2>1
  <2>3. QED
    BY <2>2 DEF Tick, loop, store, CountInv, Counts
<1>3. Tally'
  <2>1. ASSUME NEW k \in missed PROVE now + 1 - Instant(k) > Jitter
    <3>1. k \in Key /\ now - Instant(k) > Jitter
      BY DEF CountInv, Counts, Tally
    <3>2. Instant(k) \in Int /\ Jitter \in Nat /\ now \in Nat
      BY <3>1, Instants DEF IInv, Shape
    <3>3. QED
      BY <3>1, <3>2
  <2>2. \A k \in missed' : k \notin snaps' /\ now' - Instant(k) > Jitter /\ snapFile'[k] = <<>>
    <3> SUFFICES ASSUME NEW k \in missed'
                 PROVE  k \notin snaps' /\ now' - Instant(k) > Jitter /\ snapFile'[k] = <<>>
      OBVIOUS
    <3>1. missed' = missed /\ snaps' = snaps /\ snapFile' = snapFile /\ now' = now + 1
      BY DEF Tick, files, store
    <3>2. k \notin snaps /\ snapFile[k] = <<>>
      BY <3>1 DEF CountInv, Tally
    <3>3. now + 1 - Instant(k) > Jitter
      BY <2>1, <3>1
    <3>4. now' - Instant(k) > Jitter
      <4>1. k \in Key /\ now \in Nat
        BY <3>1 DEF IInv, Shape, CountInv, Counts
      <4>2. now' \in Int /\ Instant(k) \in Int
        BY <3>1, <4>1, Instants
      <4>3. QED
        BY <3>1, <3>3, <4>1, <4>2
    <3>5. k \notin snaps' /\ snapFile'[k] = <<>>
      BY <3>1, <3>2
    <3>6. QED
      BY <3>4, <3>5
  <2>3. UNCHANGED <<phase, readAt, open, todo, snaps, missed>>
    BY DEF Tick, loop, store
  <2>4. QED
    BY <2>2, <2>3 DEF CountInv, Tally, Seen, Instant
<1>4. QED
  BY <1>1, <1>2, <1>3 DEF CountInv

LEMMA StartCounts ==
    ASSUME IInv, CountInv, Start
    PROVE  CountInv'
<1>1. open = <<>>
  BY DEF Start, CountInv, Sessions
<1>2. Sessions'
  BY <1>1, CountConstants DEF Start, Sessions, IsInjective, ToSet
<1>3. IndexSnapshots \subseteq Key
  BY DEF IndexSnapshots
<1>4. Counts'
  BY <1>3 DEF Start, CountInv, Counts
<1>5. Tally'
  BY DEF Start, Tally
<1>6. QED
  BY <1>2, <1>4, <1>5 DEF CountInv

LEMMA CrashCounts ==
    ASSUME CountInv, Crash
    PROVE  CountInv'
<1>1. Sessions'
  BY CountConstants DEF Crash, Ended, Sessions, IsInjective, ToSet
<1>2. Counts'
  <2>1. faults + 1 \in 0..MaxFaults /\ 0 \in 0..now /\ 0 \in 0..(MaxErrors - 1)
    BY CountConstants DEF Crash, CountInv, Counts
  <2>2. <<>> \in Seq(Market) /\ {} \subseteq Market
    OBVIOUS
  <2>3. QED
    BY <2>1, <2>2 DEF Crash, Ended, store, CountInv, Counts
<1>3. Tally'
  BY TallyStays DEF Crash, Ended, files, store
<1>4. QED
  BY <1>1, <1>2, <1>3 DEF CountInv

LEMMA SyncCounts ==
    ASSUME IInv, CountInv, Sync
    PROVE  CountInv'
<1>1. /\ StillOpen \in Seq(Market) /\ IsInjective(StillOpen)
      /\ Len(StillOpen) <= MaxSessions /\ ToSet(StillOpen) \subseteq ToSet(open)
  BY Staying DEF CountInv
<1>2. Sessions'
  BY <1>1 DEF Sync, store, CountInv, Sessions
<1>3. now \in 0..now
  BY DEF IInv, Shape
<1>4. Counts'
  BY <1>3 DEF Sync, store, CountInv, Counts
<1>5. Tally'
  BY TallyStays DEF Sync, files, store
<1>6. QED
  BY <1>2, <1>4, <1>5 DEF CountInv

LEMMA ScannedCounts ==
    ASSUME CountInv, NEW found \in SUBSET Market, Scanned(found)
    PROVE  CountInv'
<1> DEFINE s == Opens(found)
<1>1. Sessions /\ Fits(s)
  BY Opening DEF CountInv
<1>2. Registered(ToSet(s), Market) /\ BeginPass(open \o s) /\ open' = open \o s
  BY DEF Scanned
<1>3. /\ open \o s \in Seq(Market) /\ IsInjective(open \o s) /\ Len(open \o s) <= MaxSessions
  BY <1>1, JoinedSessions
<1>4. \A m \in ToSet(open \o s) : label'[m] # "unknown"
  BY <1>1, <1>2, AllKnown
<1>5. UNCHANGED <<now, missed, snaps, snapFile, errors, asked, faults>>
  BY DEF Scanned
<1> HIDE DEF s
<1>6. QED
  BY <1>2, <1>3, <1>4, <1>5, PassBegins

LEMMA RegisterCounts ==
    ASSUME CountInv, NEW found \in SUBSET Market, NEW n \in 1..MaxSessions, RegisterFails(found, n)
    PROVE  CountInv'
<1> DEFINE s == Opens(found)
           before == SubSeq(s, 1, n - 1)
           markets == ToSet(before) \cup {s[n]}
<1>1. Sessions /\ Fits(s) /\ open \in Seq(Market)
  BY Opening DEF CountInv, Sessions
<1>2. n \in DOMAIN s /\ Registered(markets, ToSet(before)) /\ Fails(open \o before)
  BY DEF RegisterFails
<1>3. UNCHANGED <<now, missed, snaps, snapFile>>
  BY DEF RegisterFails
<1> HIDE DEF s
<1>4. Fits(before) /\ ToSet(before) \subseteq markets
  BY <1>1, <1>2, OpenedBefore
<1> HIDE DEF before, markets
<1>5. open \o before \in Seq(Market) /\ IsInjective(open \o before) /\ Len(open \o before) <= MaxSessions
  BY <1>1, <1>4, JoinedSessions
<1>6. \A m \in ToSet(open \o before) : label'[m] # "unknown"
  BY <1>1, <1>2, <1>4, AllKnown
<1>7. snaps' \subseteq Key
  BY <1>3 DEF CountInv, Counts
<1>8. Sessions' /\ Counts'
  BY <1>2, <1>3, <1>5, <1>6, <1>7, SessionsEnd
<1>9. Tally'
  BY <1>2, <1>3, FailsLeaves, TallyStays DEF CountInv
<1>10. QED
  BY <1>8, <1>9 DEF CountInv

LEMMA CaptureCounts ==
    ASSUME IInv, CountInv, Capture
    PROVE  CountInv'
<1> DEFINE k == NextDue(Head(todo))
<1>1. /\ phase = "capture" /\ todo # <<>> /\ Capturable(Head(todo)) # {}
      /\ snaps' = snaps \cup {k} /\ snapFile' = [snapFile EXCEPT ![k] = Append(@, now)]
      /\ UNCHANGED <<now, phase, readAt, open, todo, asked, errors, label, missed, faults>>
  BY DEF Capture, loop
<1>2. Head(todo) \in Market
  BY <1>1 DEF CountInv, Counts
<1>3. k \in Key /\ k \notin missed
  BY <1>1, <1>2, NextIsDue, NotLate
<1> HIDE DEF k
<1>4. Sessions' /\ Counts'
  BY <1>1, <1>3 DEF CountInv, Sessions, Counts
<1>5. ASSUME NEW j \in missed'
      PROVE  j \notin snaps' /\ now' - Instant(j) > Jitter /\ snapFile'[j] = <<>>
  <2>1. j \in missed /\ j # k /\ j \in Key
    BY <1>1, <1>3 DEF CountInv, Counts
  <2>2. snapFile'[j] = snapFile[j]
    BY <1>1, <2>1 DEF IInv, Shape
  <2>3. QED
    BY <1>1, <2>1, <2>2 DEF CountInv, Tally
<1>6. \A j : Seen(j) => Seen(j)'
  BY <1>1 DEF Seen, Instant
<1>7. Tally'
  BY <1>1, <1>5, <1>6 DEF CountInv, Tally, Instant
<1>8. QED
  BY <1>4, <1>7 DEF CountInv

LEMMA CaptureFailsCounts ==
    ASSUME IInv, CountInv, CaptureFails
    PROVE  CountInv'
<1> DEFINE k == NextDue(Head(todo))
<1>1. /\ phase = "capture" /\ todo # <<>> /\ Capturable(Head(todo)) # {}
      /\ snaps' = snaps \cup {k} /\ Fails(open)
      /\ UNCHANGED <<now, given, marketFile, snapFile, label, missed>>
  BY DEF CaptureFails, files
<1>2. Head(todo) \in Market
  BY <1>1 DEF CountInv, Counts
<1>3. k \in Key /\ k \notin missed
  BY <1>1, <1>2, NextIsDue, NotLate
<1> HIDE DEF k
<1>4. snaps' \subseteq Key
  BY <1>1, <1>3 DEF CountInv, Counts
<1>5. Sessions' /\ Counts'
  <2>1. /\ open \in Seq(Market) /\ IsInjective(open) /\ Len(open) <= MaxSessions
        /\ \A u \in ToSet(open) : label'[u] # "unknown"
    BY <1>1 DEF CountInv, Sessions
  <2>2. QED
    BY <1>1, <1>4, <2>1, SessionsEnd
<1>6. phase' # "capture"
  BY <1>1, FailsLeaves DEF CountInv
<1>7. Tally'
  BY <1>1, <1>3, <1>6 DEF CountInv, Tally, Instant
<1>8. QED
  BY <1>5, <1>7 DEF CountInv

LEMMA SweepCounts ==
    ASSUME IInv, CountInv, Sweep
    PROVE  CountInv'
<1> DEFINE m == Head(todo)
<1>1. /\ phase = "capture" /\ todo \in Seq(Market) /\ todo # <<>>
      /\ missed' = missed \cup Late(m) /\ todo' = Tail(todo)
      /\ UNCHANGED <<now, phase, readAt, open, asked, errors, snapFile, label, snaps, faults>>
  BY DEF Sweep, CountInv, Counts, files, store
<1>2. m \in Market /\ todo' \in Seq(Market)
  BY <1>1
<1>3. Late(m) \subseteq Key
  BY <1>2 DEF Late, Key
<1>4. /\ readAt \in Nat /\ now \in Nat /\ readAt <= now /\ Jitter \in Nat
      /\ \A k \in Key : Instant(k) \in Int
  BY <1>1, Instants DEF IInv, Shape, InPass
<1>5. \A h \in Horizon : readAt - Instant(<<m, h>>) > Jitter => <<m, h>> \in snaps \cup Late(m)
  BY DEF Late
<1>6. \A k \in Late(m) : readAt - Instant(k) > Jitter /\ k \notin snaps
  BY DEF Late
<1>7. Sessions' /\ Counts'
  BY <1>1, <1>2, <1>3 DEF CountInv, Sessions, Counts
<1>8. ASSUME NEW k \in missed'
      PROVE  /\ k \notin snaps' /\ now' - Instant(k) > Jitter /\ snapFile'[k] = <<>>
             /\ readAt' - Instant(k) > Jitter
  <2>1. CASE k \in missed
    BY <1>1, <2>1 DEF CountInv, Tally
  <2>2. CASE k \in Late(m)
    <3>1. k \in Key /\ readAt - Instant(k) > Jitter /\ k \notin snaps
      BY <1>3, <1>6, <2>2
    <3>2. now - Instant(k) > Jitter
      BY <1>4, <3>1
    <3>3. snapFile[k] = <<>>
      BY <1>1, <3>1 DEF IInv, Knows, Up
    <3>4. QED
      BY <1>1, <3>1, <3>2, <3>3
  <2>3. QED
    BY <1>1, <2>1, <2>2
<1>9. ASSUME NEW k \in (ToSet(open') \ ToSet(todo')) \X Horizon
      PROVE  Seen(k)'
  <2>1. k[1] \in ToSet(open) \ ToSet(todo') /\ k[2] \in Horizon /\ k = <<k[1], k[2]>>
    BY <1>1
  <2>2. CASE k[1] = m
    BY <1>1, <1>5, <2>1, <2>2 DEF Seen
  <2>3. CASE k[1] # m
    <3>1. ASSUME NEW i \in DOMAIN todo, todo[i] = k[1] PROVE FALSE
      <4>1. DOMAIN todo = 1..Len(todo) /\ Len(todo) \in Nat /\ todo[1] = m
        BY <1>1
      <4>2. i # 1 /\ i \in 2..Len(todo)
        BY <2>3, <3>1, <4>1
      <4>3. i - 1 \in DOMAIN Tail(todo) /\ Tail(todo)[i - 1] = todo[i]
        BY <1>1, <4>1, <4>2
      <4>4. k[1] \in ToSet(todo')
        BY <1>1, <3>1, <4>3 DEF ToSet
      <4>5. QED
        BY <2>1, <4>4
    <3>2. k[1] \in ToSet(open) \ ToSet(todo)
      BY <2>1, <3>1 DEF ToSet
    <3>3. Seen(k)
      BY <1>1, <2>1, <3>2 DEF CountInv, Tally
    <3>4. QED
      BY <1>1, <3>3 DEF Seen
  <2>4. QED
    BY <2>2, <2>3
<1>10. Tally'
  <2>1. \A k : Instant(k)' = Instant(k)
    BY DEF Instant
  <2>2. QED
    BY <1>8, <1>9, <2>1 DEF Tally
<1>11. QED
  BY <1>7, <1>10 DEF CountInv

\* Steps of the pass for labels, which leave the sessions alone.
LEMMA LabelCounts ==
    ASSUME IInv, CountInv, NEW m \in Market, NoAnswer(m) \/ Resolve(m)
    PROVE  CountInv'
<1>1. /\ phase = "label" /\ phase' = "label" /\ asked' = asked \ {m} /\ faults' \in 0..MaxFaults
      /\ UNCHANGED <<now, readAt, open, todo, errors, snapFile, snaps, missed>>
  <2>1. faults \in 0..MaxFaults /\ MaxFaults \in Nat
    BY CountConstants DEF CountInv, Counts
  <2>2. CASE NoAnswer(m)
    BY <2>1, <2>2 DEF NoAnswer, files, store
  <2>3. CASE Resolve(m)
    BY <2>1, <2>3 DEF Resolve
  <2>4. QED
    BY <2>2, <2>3
<1>2. \A u \in Market : label[u] # "unknown" => label'[u] # "unknown"
  <2>1. CASE NoAnswer(m)
    BY <2>1 DEF NoAnswer, store
  <2>2. CASE Resolve(m)
    <3>1. Venue(m) # "unknown" /\ label' = [label EXCEPT ![m] = Venue(m)]
      BY <2>2, VenueLabels DEF Resolve, Upsert, Label, Outcome
    <3>2. label \in [Market -> Label \cup {"unknown"}]
      BY DEF IInv, Shape
    <3>3. QED
      BY <3>1, <3>2
  <2>3. QED
    BY <2>1, <2>2
<1>3. ToSet(open) \subseteq Market
  BY DEF CountInv, Sessions, ToSet
<1>4. Sessions'
  BY <1>1, <1>2, <1>3 DEF CountInv, Sessions
<1>5. Counts'
  BY <1>1 DEF CountInv, Counts
<1>6. Tally'
  BY <1>1, TallyStays
<1>7. QED
  BY <1>4, <1>5, <1>6 DEF CountInv

LEMMA ResolveFailsCounts ==
    ASSUME IInv, CountInv, NEW m \in Market, ResolveFails(m)
    PROVE  CountInv'
<1>1. /\ Fails(open) /\ UNCHANGED <<now, missed, snaps, snapFile>>
      /\ label' = [label EXCEPT ![m] = Venue(m)] /\ Venue(m) # "none"
  BY DEF ResolveFails, Upsert
<1>2. Venue(m) # "unknown"
  BY <1>1, VenueLabels DEF Label, Outcome
<1>3. label \in [Market -> Label \cup {"unknown"}]
  BY DEF IInv, Shape
<1>4. /\ open \in Seq(Market) /\ IsInjective(open) /\ Len(open) <= MaxSessions
      /\ ToSet(open) \subseteq Market /\ \A u \in ToSet(open) : label[u] # "unknown"
  BY DEF CountInv, Sessions, ToSet
<1>5. \A u \in ToSet(open) : label'[u] # "unknown"
  BY <1>1, <1>2, <1>3, <1>4
<1>6. Sessions' /\ Counts'
  BY <1>1, <1>4, <1>5, SessionsEnd DEF CountInv, Counts
<1>7. Tally'
  BY <1>1, FailsLeaves, TallyStays DEF CountInv
<1>8. QED
  BY <1>6, <1>7 DEF CountInv

LEMMA NextCounts == IInv /\ CountInv /\ [Next]_vars => CountInv'
<1> SUFFICES ASSUME IInv, CountInv, [Next]_vars PROVE CountInv'
  OBVIOUS
<1>1. CASE UNCHANGED vars
  BY <1>1 DEF vars, CountInv, Sessions, Counts, Tally, Seen
<1>2. CASE ScanFails
  <2>1. /\ Fails(open) /\ UNCHANGED <<now, missed, snaps, snapFile, label>>
    BY <1>2 DEF ScanFails, files, store
  <2>2. Sessions' /\ Counts'
    BY <2>1, SessionsEnd DEF CountInv, Sessions, Counts
  <2>3. Tally'
    BY <2>1, FailsLeaves, TallyStays DEF CountInv
  <2>4. QED
    BY <2>2, <2>3 DEF CountInv
<1>3. CASE Skip
  <2>1. /\ BeginPass(open) /\ open' = open
        /\ UNCHANGED <<now, missed, snaps, snapFile, errors, asked, faults, label>>
    BY <1>3 DEF Skip, files, store
  <2>2. QED
    BY <2>1, PassBegins DEF CountInv, Sessions
<1>4. CASE BeginLabels
  <2>1. /\ phase = "capture" /\ phase' = "label" /\ readAt' = now /\ asked' = Ask
        /\ UNCHANGED <<now, open, todo, errors, label, snaps, snapFile, missed, faults>>
    BY <1>4 DEF BeginLabels, files, store
  <2>2. Ask \subseteq Market
    BY DEF Ask
  <2>3. now \in 0..now
    BY DEF IInv, Shape
  <2>4. Sessions' /\ Counts'
    BY <2>1, <2>2, <2>3 DEF CountInv, Sessions, Counts
  <2>5. QED
    BY <2>1, <2>4, TallyStays DEF CountInv
<1>5. CASE Rest
  <2>1. /\ phase # "down" /\ phase' = "rest" /\ readAt' = 0 /\ errors' = 0
        /\ UNCHANGED <<now, open, todo, asked, label, snaps, snapFile, missed, faults>>
    BY <1>5 DEF Rest, files, store
  <2>2. 0 \in 0..now /\ 0 \in 0..(MaxErrors - 1)
    BY CountConstants DEF IInv, Shape
  <2>3. Sessions' /\ Counts'
    BY <2>1, <2>2 DEF CountInv, Sessions, Counts
  <2>4. QED
    BY <2>1, <2>3, TallyStays DEF CountInv
<1>6. ASSUME NEW m \in Market, Publish(m) PROVE CountInv'
  <2>1. UNCHANGED <<now, phase, readAt, open, todo, asked, errors, label, snaps, snapFile, missed, faults>>
    BY <1>6 DEF Publish, loop, files, store
  <2>2. QED
    BY <2>1 DEF CountInv, Sessions, Counts, Tally, Seen
<1>7. QED
  BY <1>1, <1>2, <1>3, <1>4, <1>5, <1>6, TickCounts, StartCounts, CrashCounts, SyncCounts,
     ScannedCounts, RegisterCounts, CaptureCounts, CaptureFailsCounts, SweepCounts, LabelCounts,
     ResolveFailsCounts DEF Next, ScanFinds, Answers

(***************************************************************************)
(* Every horizon of a session that is over is captured or counted, none is *)
(* both, and the sessions are distinct, no more than allowed, and known:   *)
(* over failed writes, passes that are given up and restarts.              *)
(***************************************************************************)
THEOREM Countdown == Spec => []CountdownIsSound
<1>1. Init => IInv /\ CountInv
  BY InitHolds, CountInit
<1>2. (IInv /\ CountInv) /\ [Next]_vars => (IInv /\ CountInv)'
  BY NextKeeps, NextCounts
<1>3. IInv /\ CountInv => CountdownIsSound
  <2> SUFFICES ASSUME IInv, CountInv PROVE CountdownIsSound
    OBVIOUS
  <2>1. \A m \in Market : given[m] \in 0..Len(Course[m])
    BY Instants DEF IInv, Shape
  <2>2. TypeOK
    BY <2>1 DEF IInv, Shape, CountInv, Sessions, Counts, TypeOK
  <2>3. Accounted
    BY DEF CountInv, Tally, Seen, Accounted
  <2>4. QED
    BY <2>2, <2>3 DEF CountdownIsSound
<1>4. QED
  BY <1>1, <1>2, <1>3, PTL DEF Spec

-----------------------------------------------------------------------------
(***************************************************************************)
(* The registry that trainings leave behind.                               *)
(***************************************************************************)

File == {"none", "torn", "whole", "marked"}

RegistryShape == /\ cards \in [ModelIds -> File]
         /\ estimators \in [ModelIds -> {"none", "torn", "whole"}]
         /\ DOMAIN results = ModelIds

\* The model under way is not the champion; its files are those of its step.
Fresh ==
    /\ step \in {"gates", "develop"} => Unstarted # {}
    /\ step \in {"judge", "card", "estimator", "promote", "pointer"} =>
         /\ trial.id \in ModelIds /\ trial.id # pointer
         /\ step \in {"judge", "card"}       => cards[trial.id] = "none"
         /\ step = "estimator"               => cards[trial.id] = "whole"
         /\ step \in {"promote", "pointer"}  => estimators[trial.id] = "whole"
         /\ step = "pointer"                 => cards[trial.id] = "marked"

\* A training goes on to promote() only with the gate's approval.
Approved(e) ==
    /\ Blocking(e) = {}
    /\ pointer \in ModelIds /\ results[pointer].columns = e.columns =>
         results[pointer].score - e.score >= MinImprovement

Judged ==
    /\ step \in {"card", "estimator"} /\ trial.approved => Approved(trial.eval)
    /\ step \in {"promote", "pointer"} => Approved(trial.eval)

RegistryInv == RegistryShape /\ Fresh /\ Judged /\ ProductionLoads

-----------------------------------------------------------------------------
LEMMA NoModelYet == Nothing \notin ModelIds /\ Cut \notin ModelIds
  BY RegistryAssumption DEF Nothing, Cut

LEMMA RegistryInit == TrainInit => RegistryInv
  BY NoModelYet DEF TrainInit, RegistryInv, RegistryShape, File, Fresh, Judged, ProductionLoads

LEMMA RegistryKeeps == RegistryInv /\ [TrainNext]_trainVars => RegistryInv'
<1> SUFFICES ASSUME RegistryInv, [TrainNext]_trainVars PROVE RegistryInv'
  OBVIOUS
<1> USE NoModelYet
\* Steps that end the command, or go to one at which nothing is under way.
<1>1. ASSUME UNCHANGED registry, step' \in {"idle", "export", "export_all"}
      PROVE  RegistryInv'
  BY <1>1 DEF registry, RegistryInv, RegistryShape, Fresh, Judged, ProductionLoads
<1>2. ASSUME NEW d \in Datasets, NEW p \in Plans, StartTraining(d, p)
      PROVE  RegistryInv'
  BY <1>2 DEF StartTraining, registry, RegistryInv, RegistryShape, Fresh, Judged, ProductionLoads, Unstarted
<1>3. CASE PassGates
  <2>1. CASE Stop
    BY <1>1, <1>3, <2>1 DEF PassGates, Stop
  <2>2. CASE Go("develop")
    BY <1>3, <2>2 DEF PassGates, Go, registry, RegistryInv, RegistryShape, Fresh, Judged,
                      ProductionLoads, Unstarted
  <2>3. QED
    BY <1>3, <2>1, <2>2 DEF PassGates
<1>4. ASSUME NEW e \in Evaluations, DevelopModel(e)
      PROVE  RegistryInv'
  <2>1. CASE Stop
    BY <1>1, <1>4, <2>1 DEF DevelopModel, Stop
  <2>2. CASE ~Stop
    <3>1. UNCHANGED registry /\ step = "develop" /\ step' = "judge" /\ trial'.id = NewModel
      BY <1>4, <2>2 DEF DevelopModel, Go
    <3>2. NewModel \in Unstarted
      BY <3>1 DEF NewModel, RegistryInv, Fresh
    <3>3. NewModel \in ModelIds /\ cards[NewModel] = "none" /\ NewModel # pointer
      BY <3>2 DEF Unstarted, RegistryInv, ProductionLoads
    <3>4. QED
      BY <3>1, <3>3 DEF registry, RegistryInv, RegistryShape, Fresh, Judged, ProductionLoads
  <2>3. QED
    BY <2>1, <2>2
<1>5. CASE Judge
  <2>1. CASE Stop
    BY <1>1, <1>5, <2>1 DEF Judge, Stop
  <2>2. CASE ~Stop
    <3>1. /\ UNCHANGED registry /\ step = "judge" /\ step' = "card"
          /\ trial' = [id |-> trial.id, eval |-> trial.eval,
                       approved |-> Approves(trial.eval, trial.holdout)]
      BY <1>5, <2>2 DEF Judge, Go
    <3>2. ASSUME Approves(trial.eval, trial.holdout)
          PROVE  Approved(trial.eval)
      BY <3>2 DEF Approves, Approved, Comparable, BeatsChampion, RegistryInv, ProductionLoads
    <3>3. /\ trial'.id = trial.id /\ trial'.eval = trial.eval
          /\ trial'.approved => Approved(trial.eval)
      BY <3>1, <3>2
    <3>4. Fresh' /\ RegistryShape' /\ ProductionLoads'
      BY <3>1, <3>3 DEF registry, RegistryInv, RegistryShape, Fresh, ProductionLoads
    <3>5. Judged'
      BY <3>1, <3>3 DEF registry, Judged, Approved
    <3>6. QED
      BY <3>4, <3>5 DEF RegistryInv
  <2>3. QED
    BY <2>1, <2>2
<1>6. CASE SaveCard
  <2>1. RegistryShape' /\ Fresh' /\ ProductionLoads'
    BY <1>6 DEF SaveCard, Go, RegistryInv, RegistryShape, File, Fresh, ProductionLoads
  <2>2. Judged'
    BY <1>6 DEF SaveCard, Go, RegistryInv, Judged, Approved
  <2>3. QED
    BY <2>1, <2>2 DEF RegistryInv
<1>7. CASE SaveEstimator
  <2>1. RegistryShape' /\ ProductionLoads'
    BY <1>7 DEF SaveEstimator, RegistryInv, RegistryShape, Fresh, ProductionLoads
  <2>2. CASE ~trial.approved
    BY <1>7, <2>1, <2>2 DEF SaveEstimator, Stop, RegistryInv, Fresh, Judged
  <2>3. CASE trial.approved
    BY <1>7, <2>1, <2>3 DEF SaveEstimator, AfterSave, Go, RegistryInv, RegistryShape, Fresh, Judged, Approved
  <2>4. QED
    BY <2>2, <2>3
<1>8. CASE MarkCard
  <2>1. RegistryShape' /\ Fresh' /\ ProductionLoads'
    BY <1>8 DEF MarkCard, Go, RegistryInv, RegistryShape, File, Fresh, ProductionLoads
  <2>2. Judged'
    BY <1>8 DEF MarkCard, Go, RegistryInv, Judged, Approved
  <2>3. QED
    BY <2>1, <2>2 DEF RegistryInv
<1>9. CASE MovePointer
  BY <1>9 DEF MovePointer, Stop, RegistryInv, RegistryShape, Fresh, Judged, ProductionLoads
<1>10. ASSUME NEW d \in Datasets, NEW only \in BOOLEAN, StartExport(d, only)
       PROVE  RegistryInv'
  <2>1. /\ step' = "export" \/ step' = "export_all"
        /\ UNCHANGED registry
    BY <1>10 DEF StartExport
  <2>2. QED
    BY <1>1, <2>1
<1>11. CASE FinishExport
  BY <1>1, <1>11 DEF FinishExport, Stop
<1>12. CASE Kill
  <2>1. /\ step' = "idle" /\ trial.id \in ModelIds /\ trial.id # pointer
        /\ cards' = cards \/ cards' = [cards EXCEPT ![trial.id] = "torn"]
        /\ estimators' = estimators \/ estimators' = [estimators EXCEPT ![trial.id] = "torn"]
        /\ pointer' = pointer \/ pointer' = Cut
        /\ results' = results
    BY <1>12 DEF Kill, Stop, RegistryInv, Fresh
  <2>2. QED
    BY <2>1 DEF RegistryInv, RegistryShape, File, Fresh, Judged, ProductionLoads
<1>13. CASE UNCHANGED trainVars
  BY <1>13 DEF trainVars, RegistryInv, RegistryShape, Fresh, Judged, Approved, ProductionLoads, Unstarted
<1>14. QED
  BY <1>2, <1>3, <1>4, <1>5, <1>6, <1>7, <1>8, <1>9, <1>10, <1>11, <1>12, <1>13 DEF TrainNext

\* Only promote() names another model.
LEMMA PointerMoves ==
    RegistryInv /\ [TrainNext]_trainVars =>
        [ pointer' # pointer /\ pointer' \in ModelIds =>
            LET new == results'[pointer']
            IN  /\ Blocking(new) = {}
                /\ pointer \in ModelIds /\ new.columns = results[pointer].columns =>
                     results[pointer].score - new.score >= MinImprovement ]_trainVars
<1> SUFFICES ASSUME RegistryInv, TrainNext, pointer' # pointer, pointer' \in ModelIds
             PROVE  LET new == results'[pointer']
                    IN  /\ Blocking(new) = {}
                        /\ pointer \in ModelIds /\ new.columns = results[pointer].columns =>
                             results[pointer].score - new.score >= MinImprovement
  BY DEF trainVars
<1>1. MovePointer
  BY NoModelYet DEF TrainNext, StartTraining, PassGates, DevelopModel, Judge, SaveCard,
                    SaveEstimator, MarkCard, StartExport, FinishExport, Kill, registry
<1>2. results'[pointer'] = trial.eval
  BY <1>1 DEF MovePointer, RegistryInv, RegistryShape
<1>3. Approved(trial.eval)
  BY <1>1 DEF MovePointer, RegistryInv, Judged
<1>4. QED
  BY <1>2, <1>3 DEF Approved

-----------------------------------------------------------------------------
LEMMA RegistryInvariant == TrainSpec => []RegistryInv
  BY RegistryInit, RegistryKeeps, PTL DEF TrainSpec

\* Whatever write a kill cuts, the production pointer never names a model
\* without its card, marked, and its estimator (models/registry.py).
THEOREM Loads == TrainSpec => []ProductionLoads
<1>1. RegistryInv => ProductionLoads
  BY DEF RegistryInv
<1>2. QED
  BY <1>1, RegistryInvariant, PTL

\* A champion yields only to a model that beat it by the configured margin and
\* cleared every baseline (models/promotion.py).
THEOREM Yields == TrainSpec => ChampionYieldsToBetter
<1>1. QED
  BY RegistryInvariant, PointerMoves, PTL DEF TrainSpec, ChampionYieldsToBetter

-----------------------------------------------------------------------------
(***************************************************************************)
(* The rows a command joins.                                               *)
(***************************************************************************)

Kept(d, only) == {s \in d.snapshots : Keeps(d.markets, s, only)}
RowOrder(R) == {p \in R \X R : RowPrecedes(p[1], p[2])}

\* A row's market, and the snapshot it was made from.
LEMMA RowOfSnapshot ==
    ASSUME NEW d \in Datasets, NEW only \in BOOLEAN, NEW s \in Kept(d, only)
    PROVE  \E m \in d.markets :
             /\ m.id = s.market /\ m.settle \in Int /\ m.id \in Int
             /\ only => m.outcome \in {"up", "down"}
             /\ RowOf(d.markets, s) =
                  [market |-> s.market, horizon |-> s.horizon, at |-> s.at, obs |-> s.obs,
                   line |-> s.line, settle |-> m.settle, label |-> m.outcome]
<1>1. PICK m \in d.markets : m.id = s.market
  BY DEF Kept, Keeps
<1>2. MarketNamed(d.markets, s.market) = m
  BY <1>1, DatasetAssumption DEF MarketNamed
<1>3. only => m.outcome # "none"
  BY <1>2 DEF Kept, Keeps, Labelled
<1>4. m.outcome \in {"none", "up", "down"} /\ m.settle \in Int /\ m.id \in Int
  BY <1>1, DatasetAssumption
<1>5. QED
  BY <1>1, <1>2, <1>3, <1>4 DEF RowOf

\* Two kept snapshots make two rows.
LEMMA RowsOfSnapshots ==
    ASSUME NEW d \in Datasets, NEW only \in BOOLEAN
    PROVE  /\ \A r \in Joined(d.markets, d.snapshots, only) :
                \E s \in Kept(d, only) : r = RowOf(d.markets, s)
           /\ IsFiniteSet(Joined(d.markets, d.snapshots, only))
           /\ \A r \in Joined(d.markets, d.snapshots, only) :
                r.settle \in Int /\ r.horizon \in Int /\ r.line \in Int /\ r.market \in Int
           /\ \A r, q \in Joined(d.markets, d.snapshots, only) : r.line = q.line => r = q
<1> DEFINE K == Kept(d, only)
           J == Joined(d.markets, d.snapshots, only)
           make == [s \in K |-> RowOf(d.markets, s)]
<1>1. J = {RowOf(d.markets, s) : s \in K}
  BY DEF Joined, Kept
<1>2. K \in SUBSET d.snapshots /\ IsFiniteSet(K)
  BY DatasetAssumption, FS_Subset DEF Kept
<1> HIDE DEF J, K
<1>3. make \in Surjection(K, J)
  BY <1>1 DEF Surjection
<1>4. IsFiniteSet(J)
  BY <1>2, <1>3, FS_Surjection
<1>5. ASSUME NEW s \in K
      PROVE  /\ RowOf(d.markets, s).line = s.line /\ s.line \in Int
             /\ RowOf(d.markets, s).settle \in Int /\ RowOf(d.markets, s).horizon \in Int
             /\ RowOf(d.markets, s).market \in Int
  <2>1. s \in d.snapshots
    BY <1>2
  <2>2. s.line \in Int /\ s.horizon \in Int
    BY <2>1, DatasetAssumption
  <2>3. PICK m \in d.markets :
          /\ m.id = s.market /\ m.settle \in Int /\ m.id \in Int
          /\ RowOf(d.markets, s) =
               [market |-> s.market, horizon |-> s.horizon, at |-> s.at, obs |-> s.obs,
                line |-> s.line, settle |-> m.settle, label |-> m.outcome]
    BY RowOfSnapshot DEF K
  <2>4. QED
    BY <2>2, <2>3
<1>6. ASSUME NEW s \in K, NEW t \in K, s.line = t.line PROVE s = t
  BY <1>2, <1>6, DatasetAssumption
<1>7. \A r \in J : \E s \in K : r = RowOf(d.markets, s)
  BY <1>1
<1>8. \A r \in J : r.settle \in Int /\ r.horizon \in Int /\ r.line \in Int /\ r.market \in Int
  BY <1>5, <1>7
<1>9. ASSUME NEW r \in J, NEW q \in J, r.line = q.line PROVE r = q
  <2>1. PICK s \in K : r = RowOf(d.markets, s)
    BY <1>7
  <2>2. PICK t \in K : q = RowOf(d.markets, t)
    BY <1>7
  <2>3. s.line = t.line
    BY <1>5, <1>9, <2>1, <2>2
  <2>4. QED
    BY <1>6, <2>1, <2>2, <2>3
<1>10. QED
  BY <1>4, <1>7, <1>8, <1>9 DEF J, K

\* build_rows() sorts them; it drops none and repeats none.
LEMMA RowsInOrder ==
    ASSUME NEW d \in Datasets, NEW only \in BOOLEAN
    PROVE  LET B == BuildRows(d.markets, d.snapshots, only)
               J == Joined(d.markets, d.snapshots, only)
           IN  /\ IsFiniteSet(DOMAIN B)
               /\ \A i \in DOMAIN B : B[i] \in J
               /\ \A i, j \in DOMAIN B : B[i] = B[j] => i = j
<1> DEFINE B == BuildRows(d.markets, d.snapshots, only)
           J == Joined(d.markets, d.snapshots, only)
           R == RowOrder(J)
           n == Cardinality(J)
           rank == [r \in J |-> Cardinality({q \in J : RowPrecedes(q, r)})]
<1>1. B = [k \in 1..n |-> CHOOSE r \in J : rank[r] = k - 1]
  BY DEF BuildRows, InOrder
<1>2. /\ IsFiniteSet(J)
      /\ \A r \in J : r.settle \in Int /\ r.horizon \in Int /\ r.line \in Int
      /\ \A r, q \in J : r.line = q.line => r = q
  BY RowsOfSnapshots
<1>3. \A r, q \in J : <<r, q>> \in R <=> RowPrecedes(r, q)
  BY DEF RowOrder
<1> HIDE DEF B, J, R
<1>4. StrictOrder(J, R)
  <2>1. \A r \in J : <<r, r>> \notin R
    BY <1>2, <1>3 DEF RowPrecedes
  <2>2. \A r, q, s \in J : <<r, q>> \in R /\ <<q, s>> \in R => <<r, s>> \in R
    BY <1>2, <1>3 DEF RowPrecedes
  <2>3. ASSUME NEW r \in J, NEW q \in J, r # q
        PROVE  <<r, q>> \in R \/ <<q, r>> \in R
    <3>1. r.line # q.line
      BY <1>2, <2>3
    <3>2. /\ r.settle \in Int /\ r.horizon \in Int /\ r.line \in Int
          /\ q.settle \in Int /\ q.horizon \in Int /\ q.line \in Int
      BY <1>2
    <3>3. RowPrecedes(r, q) \/ RowPrecedes(q, r)
      BY <3>1, <3>2 DEF RowPrecedes
    <3>4. QED
      BY <1>3, <3>3
  <2>4. QED
    BY <2>1, <2>2, <2>3 DEF StrictOrder
<1>5. \A r \in J : {q \in J : RowPrecedes(q, r)} = {q \in J : <<q, r>> \in R}
  BY <1>3
<1>6. Place(J, R) = rank
  BY <1>5 DEF Place
<1> HIDE DEF rank
<1>7. \A k \in 1..n : B[k] = AtPlace(J, R, k - 1)
  BY <1>1, <1>6 DEF AtPlace
<1>8. n \in Nat
  BY <1>2, FS_CardinalityType
<1>9. DOMAIN B = 1..n /\ IsFiniteSet(1..n)
  BY <1>1, <1>8, FS_Interval
<1> HIDE DEF n
<1>10. ASSUME NEW i \in 1..n PROVE B[i] \in J /\ Place(J, R)[B[i]] = i - 1
  <2>1. i - 1 \in 0..(n - 1)
    BY <1>8
  <2>2. QED
    BY <1>2, <1>4, <1>7, <2>1, AtPlaceIs DEF n
<1>11. ASSUME NEW i \in 1..n, NEW j \in 1..n, B[i] = B[j] PROVE i = j
  <2>1. i - 1 = j - 1
    BY <1>10, <1>11
  <2>2. QED
    BY <1>8, <2>1
<1>12. QED
  BY <1>9, <1>10, <1>11 DEF B, J

-----------------------------------------------------------------------------
(***************************************************************************)
(* What the gates leave of them.                                           *)
(***************************************************************************)

\* A snapshot without a leak makes a row known at its own instant.
LEMMA CleanRow ==
    ASSUME NEW d \in Datasets, NEW only \in BOOLEAN, NEW s \in Kept(d, only), Inspect(s) = {}
    PROVE  Known(RowOf(d.markets, s))
<1>1. PICK m \in d.markets :
        /\ RowOf(d.markets, s) =
             [market |-> s.market, horizon |-> s.horizon, at |-> s.at, obs |-> s.obs,
              line |-> s.line, settle |-> m.settle, label |-> m.outcome]
  BY RowOfSnapshot
<1>2. ASSUME NEW o \in s.obs PROVE LeaksOf(s, o) = {}
  BY DEF Inspect
<1>3. ASSUME NEW o \in s.obs
      PROVE  o.name \notin Forbidden /\ (o.known => ~(o.event > s.at) /\ ~(o.seen > s.at + GuardTolerance))
  <2>1. o.name \notin Forbidden
    BY <1>2 DEF LeaksOf
  <2>2. o.known => ~(o.event > s.at)
    BY <1>2 DEF LeaksOf
  <2>3. o.known => ~(o.seen > s.at + GuardTolerance)
    BY <1>2 DEF LeaksOf
  <2>4. QED
    BY <2>1, <2>2, <2>3
<1>4. s.at \in Int /\ GuardTolerance \in Nat /\ \A o \in s.obs : o.event \in Int /\ o.seen \in Int
  BY DatasetAssumption DEF Kept
<1>5. \A o \in s.obs : /\ o.name \notin Forbidden
                       /\ o.known => o.event <= s.at /\ o.seen <= s.at + GuardTolerance
  BY <1>3, <1>4
<1>6. QED
  BY <1>1, <1>5 DEF Known

\* An audit without failures.
LEMMA Audited ==
    ASSUME NEW markets, NEW snapshots, AuditFailures(markets, snapshots) = {}
    PROVE  /\ ~ScanFindsLeak(snapshots)
           /\ ~SameWindowTwice(markets)
           /\ \A s, t \in snapshots : s # t => s.market # t.market \/ s.horizon # t.horizon
           /\ \A s \in snapshots : ~OutsideItsWindow(markets, s)
<1> DEFINE checks == AuditChecks(markets, snapshots)
<1>0. \A c \in DOMAIN checks : ~checks[c]
  BY DEF AuditFailures
<1>1. ~ScanFindsLeak(snapshots)
  <2>1. /\ "label_leakage" \in DOMAIN checks
        /\ checks["label_leakage"] = (ScanFindsLeak(snapshots) \/ OutOfOrder(snapshots))
    BY DEF AuditChecks
  <2>2. QED
    BY <1>0, <2>1
<1>2. ~SameWindowTwice(markets)
  <2>1. "duplicate_markets" \in DOMAIN checks /\ checks["duplicate_markets"] = SameWindowTwice(markets)
    BY DEF AuditChecks
  <2>2. QED
    BY <1>0, <2>1
<1>3. \A s, t \in snapshots : s # t => s.market # t.market \/ s.horizon # t.horizon
  <2>1. /\ "duplicate_snapshots" \in DOMAIN checks
        /\ checks["duplicate_snapshots"] =
             \E s, t \in snapshots : s # t /\ s.market = t.market /\ s.horizon = t.horizon
    BY DEF AuditChecks
  <2>2. QED
    BY <1>0, <2>1
<1>4. \A s \in snapshots : ~OutsideItsWindow(markets, s)
  <2>1. /\ "timestamps" \in DOMAIN checks
        /\ checks["timestamps"] = (\/ \E m \in markets : BadMarketTimes(m)
                                   \/ \E s \in snapshots : OutsideItsWindow(markets, s))
    BY DEF AuditChecks
  <2>2. QED
    BY <1>0, <2>1
<1>5. QED
  BY <1>1, <1>2, <1>3, <1>4

\* An audited data set joins to sound rows.
LEMMA AuditedRows ==
    ASSUME NEW d \in Datasets, NEW only \in BOOLEAN,
           NEW B, B = BuildRows(d.markets, d.snapshots, only),
           AuditFailures(d.markets, d.snapshots) = {}
    PROVE  /\ \A i \in DOMAIN B : Known(B[i]) /\ B[i].at <= B[i].settle
           /\ \A i, j \in DOMAIN B : i # j => B[i].settle # B[j].settle \/ B[i].horizon # B[j].horizon
<1> DEFINE J == Joined(d.markets, d.snapshots, only)
<1>1. /\ ~ScanFindsLeak(d.snapshots) /\ ~SameWindowTwice(d.markets)
      /\ \A s, t \in d.snapshots : s # t => s.market # t.market \/ s.horizon # t.horizon
      /\ \A s \in d.snapshots : ~OutsideItsWindow(d.markets, s)
  BY Audited
<1>2. /\ \A i \in DOMAIN B : B[i] \in J
      /\ \A i, j \in DOMAIN B : B[i] = B[j] => i = j
  BY RowsInOrder
<1>3. \A r \in J : \E s \in Kept(d, only) : r = RowOf(d.markets, s)
  BY RowsOfSnapshots
<1> HIDE DEF J
<1>4. ASSUME NEW s \in Kept(d, only)
      PROVE  Known(RowOf(d.markets, s)) /\ RowOf(d.markets, s).at <= RowOf(d.markets, s).settle
  <2>1. s \in d.snapshots /\ Inspect(s) = {}
    BY <1>1 DEF Kept, ScanFindsLeak
  <2>2. PICK m \in d.markets :
          /\ m.id = s.market
          /\ RowOf(d.markets, s) =
               [market |-> s.market, horizon |-> s.horizon, at |-> s.at, obs |-> s.obs,
                line |-> s.line, settle |-> m.settle, label |-> m.outcome]
    BY RowOfSnapshot
  <2>3. s.at <= m.settle
    BY <1>1, <2>1, <2>2 DEF OutsideItsWindow
  <2>4. Known(RowOf(d.markets, s))
    BY <2>1, CleanRow
  <2>5. QED
    BY <2>2, <2>3, <2>4
<1>5. ASSUME NEW s \in Kept(d, only), NEW t \in Kept(d, only), s # t,
             RowOf(d.markets, s).settle = RowOf(d.markets, t).settle
      PROVE  RowOf(d.markets, s).horizon # RowOf(d.markets, t).horizon
  <2>1. s \in d.snapshots /\ t \in d.snapshots
    BY DEF Kept
  <2>2. PICK m \in d.markets :
          /\ m.id = s.market
          /\ RowOf(d.markets, s) =
               [market |-> s.market, horizon |-> s.horizon, at |-> s.at, obs |-> s.obs,
                line |-> s.line, settle |-> m.settle, label |-> m.outcome]
    BY RowOfSnapshot
  <2>3. PICK n \in d.markets :
          /\ n.id = t.market
          /\ RowOf(d.markets, t) =
               [market |-> t.market, horizon |-> t.horizon, at |-> t.at, obs |-> t.obs,
                line |-> t.line, settle |-> n.settle, label |-> n.outcome]
    BY RowOfSnapshot
  <2>4. m.settle = n.settle
    BY <1>5, <2>2, <2>3
  <2>5. m = n
    BY <1>1, <2>4, DatasetAssumption DEF SameWindowTwice
  <2>6. s.horizon # t.horizon
    BY <1>1, <1>5, <2>1, <2>2, <2>3, <2>5
  <2>7. QED
    BY <2>2, <2>3, <2>6
<1>6. \A i \in DOMAIN B : Known(B[i]) /\ B[i].at <= B[i].settle
  BY <1>2, <1>3, <1>4
<1>7. ASSUME NEW i \in DOMAIN B, NEW j \in DOMAIN B, i # j
      PROVE  B[i].settle # B[j].settle \/ B[i].horizon # B[j].horizon
  <2>1. B[i] # B[j]
    BY <1>2, <1>7
  <2>2. PICK s \in Kept(d, only) : B[i] = RowOf(d.markets, s)
    BY <1>2, <1>3
  <2>3. PICK t \in Kept(d, only) : B[j] = RowOf(d.markets, t)
    BY <1>2, <1>3
  <2>4. s # t
    BY <2>1, <2>2, <2>3
  <2>5. QED
    BY <1>5, <2>2, <2>3, <2>4
<1>8. QED
  BY <1>6, <1>7

\* Rows without a leak are known, whatever else is wrong with them.
LEMMA ScannedRows ==
    ASSUME NEW d \in Datasets, NEW only \in BOOLEAN,
           NEW B, B = BuildRows(d.markets, d.snapshots, only),
           ~ScanFindsLeak(d.snapshots)
    PROVE  \A i \in DOMAIN B : Known(B[i])
<1> DEFINE J == Joined(d.markets, d.snapshots, only)
<1>1. \A i \in DOMAIN B : B[i] \in J
  BY RowsInOrder
<1>2. \A r \in J : \E s \in Kept(d, only) : r = RowOf(d.markets, s)
  BY RowsOfSnapshots
<1> HIDE DEF J
<1>3. \A s \in Kept(d, only) : Inspect(s) = {}
  BY DEF Kept, ScanFindsLeak
<1>4. \A s \in Kept(d, only) : Known(RowOf(d.markets, s))
  BY <1>3, CleanRow
<1>5. QED
  BY <1>1, <1>2, <1>4

\* Unless all markets were asked for, each row has its label.
LEMMA LabelledRows ==
    ASSUME NEW d \in Datasets, NEW B, B = BuildRows(d.markets, d.snapshots, TRUE)
    PROVE  \A i \in DOMAIN B : B[i].label \in {"up", "down"}
<1> DEFINE J == Joined(d.markets, d.snapshots, TRUE)
<1>1. \A i \in DOMAIN B : B[i] \in J
  BY RowsInOrder
<1>2. \A r \in J : \E s \in Kept(d, TRUE) : r = RowOf(d.markets, s)
  BY RowsOfSnapshots
<1> HIDE DEF J
<1>3. \A s \in Kept(d, TRUE) : RowOf(d.markets, s).label \in {"up", "down"}
  <2> SUFFICES ASSUME NEW s \in Kept(d, TRUE)
               PROVE  RowOf(d.markets, s).label \in {"up", "down"}
    OBVIOUS
  <2>1. PICK m \in d.markets :
          /\ m.outcome \in {"up", "down"}
          /\ RowOf(d.markets, s) =
               [market |-> s.market, horizon |-> s.horizon, at |-> s.at, obs |-> s.obs,
                line |-> s.line, settle |-> m.settle, label |-> m.outcome]
    BY RowOfSnapshot
  <2>2. QED
    BY <2>1
<1>4. QED
  BY <1>1, <1>2, <1>3

-----------------------------------------------------------------------------
(***************************************************************************)
(* What a split gives to each side.                                        *)
(***************************************************************************)

\* A split takes whole markets.
LEMMA WholeMarkets ==
    ASSUME NEW R, NEW first, NEW last
    PROVE  /\ RowsAt(R, first, last) \subseteq DOMAIN R
           /\ \A i \in RowsAt(R, first, last), j \in DOMAIN R :
                R[i].market = R[j].market => j \in RowsAt(R, first, last)
<1> DEFINE earlier(g) == Cardinality({h \in MarketsOf(R) : Precedes(R, h, g)})
           chosen == {g \in MarketsOf(R) : first <= earlier(g) /\ earlier(g) < last}
<1>1. RowsAt(R, first, last) = UNION {{i \in DOMAIN R : R[i].market = g} : g \in chosen}
  BY DEF RowsAt
<1> HIDE DEF chosen
<1>2. QED
  BY <1>1

LEMMA FoldRows ==
    ASSUME NEW R, NEW p, NEW f \in Folds(R, p)
    PROVE  f.train \subseteq DOMAIN R /\ f.test \subseteq DOMAIN R
<1>1. PICK k \in 0..(p.folds - 1) : f = FoldAt(R, p, k)
  BY DEF Folds
<1>2. \E a, b, c, e : f = [train |-> RowsAt(R, a, b), test |-> RowsAt(R, c, e)]
  BY <1>1 DEF FoldAt
<1>3. QED
  BY <1>2, WholeMarkets

\* No stage before the verdict is given a row of a market that is held out.
LEMMA StagesKeepOff ==
    ASSUME NEW R, IsFiniteSet(DOMAIN R), NEW p,
           NEW dev, dev = Develop(R, HoldoutPct), NEW kept, kept = Holdout(R, HoldoutPct),
           NEW touched, touched = Touched(R, dev, p)
    PROVE  /\ \A stage \in DOMAIN touched : \A i \in touched[stage], j \in kept :
                R[i].market # R[j].market
           /\ touched.fit \cap touched.calibrator = {}
<1>1. dev \subseteq DOMAIN R /\ \A i \in dev, j \in DOMAIN R : R[i].market = R[j].market => j \in dev
  BY WholeMarkets DEF Develop
<1>2. kept = DOMAIN R \ dev
  BY DEF Holdout
<1>3. SearchRows(R, dev, p) \subseteq dev
  <2> DEFINE D == Restricted(R, dev)
  <2>1. DOMAIN D = dev
    BY DEF Restricted
  <2> HIDE DEF D
  <2>2. \A f \in Folds(D, p) : f.train \subseteq dev /\ f.test \subseteq dev
    BY <2>1, FoldRows
  <2>3. SearchRows(R, dev, p) = UNION {f.train \cup f.test : f \in Folds(D, p)}
    BY DEF SearchRows, D
  <2>4. QED
    BY <2>2, <2>3
<1>4. \A stage \in DOMAIN touched : touched[stage] \subseteq dev
  <2>1. DOMAIN touched = {"selection", "search", "fit", "calibrator", "baselines"}
    BY DEF Touched
  <2>2. touched.selection = dev /\ touched.search = SearchRows(R, dev, p) /\ touched.baselines = dev
    BY DEF Touched, SelectsOn
  <2>3. touched.fit \subseteq dev /\ touched.calibrator \subseteq dev
    BY DEF Touched
  <2>4. QED
    BY <1>3, <2>1, <2>2, <2>3
<1>5. touched.fit \cap touched.calibrator = {}
  <2>1. IsFiniteSet(dev)
    BY <1>1, FS_Subset
  <2>2. FitCut(dev) \in Int
    <3>1. Cardinality(dev) \in Nat
      BY <2>1, FS_CardinalityType
    <3>2. \A n \in Nat : (85 * n) \div 100 \in Int
      BY SMTT(20)
    <3>3. ASSUME NEW a \in Int PROVE Max({1, a}) \in Int
      <4>1. Max({1, a}) = IF 1 <= a THEN a ELSE 1
        BY OfTwo
      <4>2. QED
        BY <4>1
    <3>4. QED
      BY <3>1, <3>2, <3>3 DEF FitCut
  <2>3. ASSUME NEW i \in dev PROVE Rank(dev, i) \in Int
    <3> DEFINE upTo == {j \in dev : j <= i}
    <3>1. IsFiniteSet(upTo)
      BY <2>1, FS_Subset
    <3> HIDE DEF upTo
    <3>2. Cardinality(upTo) \in Nat
      BY <3>1, FS_CardinalityType
    <3>3. QED
      BY <3>2 DEF Rank, upTo
  <2>4. /\ touched.fit = {i \in dev : Rank(dev, i) <= FitCut(dev)}
        /\ touched.calibrator = {i \in dev : Rank(dev, i) > FitCut(dev)}
    BY DEF Touched
  <2>5. QED
    BY <2>2, <2>3, <2>4
<1>6. QED
  BY <1>1, <1>2, <1>4, <1>5

-----------------------------------------------------------------------------
(***************************************************************************)
(* What the rows of a command are, at each step.                           *)
(***************************************************************************)

RowsOfDataset(d) ==
    /\ data.markets = d.markets /\ data.snapshots = d.snapshots /\ data.plan \in Plans
    /\ rows = BuildRows(d.markets, d.snapshots, TRUE)

Exported(only) ==
    \E d \in Datasets : /\ rows = BuildRows(d.markets, d.snapshots, only)
                        /\ ~ScanFindsLeak(d.snapshots)

Gated ==
    /\ step = "gates" => \E d \in Datasets : RowsOfDataset(d)
    /\ step = "develop" =>
         \E d \in Datasets : RowsOfDataset(d) /\ AuditFailures(d.markets, d.snapshots) = {}
    /\ step = "export" => Exported(TRUE)
    /\ step = "export_all" => Exported(FALSE)
    /\ HoldoutUntouched

LEMMA GatedInit == TrainInit => Gated
  BY DEF TrainInit, Gated, HoldoutUntouched

LEMMA GatedKeeps == Gated /\ [TrainNext]_trainVars => Gated'
<1> SUFFICES ASSUME Gated, [TrainNext]_trainVars PROVE Gated'
  OBVIOUS
\* Most steps lead where nothing is said of the rows.
<1>1. ASSUME step' \notin {"gates", "develop", "export", "export_all", "judge"} PROVE Gated'
  BY <1>1 DEF Gated, HoldoutUntouched
<1>2. ASSUME NEW d \in Datasets, NEW p \in Plans, StartTraining(d, p) PROVE Gated'
  <2>1. /\ step' = "gates" /\ rows' = BuildRows(d.markets, d.snapshots, TRUE)
        /\ data' = [markets |-> d.markets, snapshots |-> d.snapshots, plan |-> p]
    BY <1>2 DEF StartTraining
  <2>2. RowsOfDataset(d)'
    BY <2>1 DEF RowsOfDataset
  <2>3. QED
    BY <2>1, <2>2 DEF Gated, HoldoutUntouched
<1>3. CASE PassGates
  <2>1. CASE Stop
    BY <1>1, <2>1 DEF Stop
  <2>2. CASE ~Stop
    <3>1. /\ step = "gates" /\ step' = "develop" /\ UNCHANGED <<data, rows>>
          /\ AuditFailures(data.markets, data.snapshots) = {}
      BY <1>3, <2>2 DEF PassGates, Go
    <3>2. PICK d \in Datasets : RowsOfDataset(d)
      BY <3>1 DEF Gated
    <3>3. RowsOfDataset(d)' /\ AuditFailures(d.markets, d.snapshots) = {}
      BY <3>1, <3>2 DEF RowsOfDataset
    <3>4. QED
      BY <3>1, <3>3 DEF Gated, HoldoutUntouched
  <2>3. QED
    BY <2>1, <2>2
<1>4. ASSUME NEW e \in Evaluations, DevelopModel(e) PROVE Gated'
  <2> DEFINE dev  == Develop(rows, HoldoutPct)
             kept == Holdout(rows, HoldoutPct)
  <2>1. CASE Stop
    BY <1>1, <2>1 DEF Stop
  <2>2. CASE ~Stop
    <3>0. IsFiniteSet(DOMAIN rows)
      BY <1>4, RowsInOrder DEF DevelopModel, Gated, RowsOfDataset
    <3>1. /\ step' = "judge" /\ UNCHANGED <<data, rows>>
          /\ trial'.touched = Touched(rows, dev, data.plan) /\ trial'.holdout = kept
      BY <1>4, <2>2 DEF DevelopModel, Go
    <3>2. /\ \A stage \in DOMAIN trial'.touched :
               \A i \in trial'.touched[stage], j \in trial'.holdout : rows[i].market # rows[j].market
          /\ trial'.touched.fit \cap trial'.touched.calibrator = {}
      BY <3>0, <3>1, StagesKeepOff
    <3>3. HoldoutUntouched'
      BY <3>1, <3>2 DEF HoldoutUntouched
    <3>4. QED
      BY <3>1, <3>3 DEF Gated
  <2>3. QED
    BY <2>1, <2>2
<1>5. CASE Judge
  BY <1>1, <1>5 DEF Judge, Stop, Go
<1>6. CASE SaveCard \/ SaveEstimator \/ MarkCard \/ MovePointer \/ FinishExport \/ Kill
  <2>1. step' \in {"estimator", "promote", "pointer", "idle"}
    BY <1>6 DEF SaveCard, SaveEstimator, MarkCard, MovePointer, FinishExport, Kill, Go, Stop, AfterSave
  <2>2. QED
    BY <1>1, <2>1
<1>7. ASSUME NEW d \in Datasets, NEW only \in BOOLEAN, StartExport(d, only) PROVE Gated'
  <2>1. /\ step' = IF only THEN "export" ELSE "export_all"
        /\ rows' = BuildRows(d.markets, d.snapshots, only)
        /\ ~ScanFindsLeak(d.snapshots)
    BY <1>7 DEF StartExport, ExportRefused
  <2>2. Exported(only)'
    BY <2>1 DEF Exported
  <2>3. CASE only
    BY <2>1, <2>2, <2>3 DEF Gated, HoldoutUntouched
  <2>4. CASE ~only
    BY <2>1, <2>2, <2>4 DEF Gated, HoldoutUntouched
  <2>5. QED
    BY <2>3, <2>4
<1>8. CASE UNCHANGED trainVars
  <2>1. /\ Exported(TRUE) => Exported(TRUE)'
        /\ Exported(FALSE) => Exported(FALSE)'
    BY <1>8 DEF trainVars, Exported
  <2>2. \A d \in Datasets : RowsOfDataset(d) => RowsOfDataset(d)'
    BY <1>8 DEF trainVars, RowsOfDataset
  <2>3. step' = step /\ HoldoutUntouched'
    BY <1>8 DEF trainVars, Gated, HoldoutUntouched
  <2>4. QED
    BY <2>1, <2>2, <2>3 DEF Gated
<1>9. QED
  BY <1>2, <1>3, <1>4, <1>5, <1>6, <1>7, <1>8 DEF TrainNext

\* No stage of a training, from the ranking of its features to its baselines,
\* is given a row of a market that is held out for the verdict, and its
\* calibrator none that it was fitted on (models/training.py:182-360).
THEOREM HeldOut == TrainSpec => []HoldoutUntouched
<1>1. Gated => HoldoutUntouched
  BY DEF Gated
<1>2. QED
  BY <1>1, GatedInit, GatedKeeps, PTL DEF TrainSpec

\* Whatever data set the store holds: no row that reaches a model or a file
\* knows more than its own instant, none reaches a model or an export of the
\* labelled markets without its label, and no window reaches a model twice
\* (dataset/leakage.py, dataset/audit.py, dataset/export.py).
THEOREM Sound == TrainSpec => []SoundRows
<1>1. Gated => SoundRows
  <2> SUFFICES ASSUME Gated PROVE SoundRows
    OBVIOUS
  <2>1. ASSUME NEW only \in BOOLEAN, Exported(only)
        PROVE  /\ \A i \in DOMAIN rows : Known(rows[i])
               /\ only => \A i \in DOMAIN rows : rows[i].label \in {"up", "down"}
    <3>1. PICK d \in Datasets : rows = BuildRows(d.markets, d.snapshots, only)
                                  /\ ~ScanFindsLeak(d.snapshots)
      BY <2>1 DEF Exported
    <3>2. \A i \in DOMAIN rows : Known(rows[i])
      BY <3>1, ScannedRows
    <3>3. ASSUME only PROVE \A i \in DOMAIN rows : rows[i].label \in {"up", "down"}
      <4>1. rows = BuildRows(d.markets, d.snapshots, TRUE)
        BY <3>1, <3>3
      <4>2. QED
        BY <4>1, LabelledRows
    <3>4. QED
      BY <3>2, <3>3
  <2>2. ASSUME step = "develop"
        PROVE  /\ \A i \in DOMAIN rows : /\ Known(rows[i]) /\ rows[i].at <= rows[i].settle
                                         /\ rows[i].label \in {"up", "down"}
               /\ \A i, j \in DOMAIN rows :
                    i # j => \/ rows[i].settle # rows[j].settle
                             \/ rows[i].horizon # rows[j].horizon
    <3>1. PICK d \in Datasets : RowsOfDataset(d) /\ AuditFailures(d.markets, d.snapshots) = {}
      BY <2>2 DEF Gated
    <3>2. rows = BuildRows(d.markets, d.snapshots, TRUE)
      BY <3>1 DEF RowsOfDataset
    <3>3. /\ \A i \in DOMAIN rows : Known(rows[i]) /\ rows[i].at <= rows[i].settle
          /\ \A i, j \in DOMAIN rows :
               i # j => \/ rows[i].settle # rows[j].settle
                        \/ rows[i].horizon # rows[j].horizon
      <4> DEFINE B == BuildRows(d.markets, d.snapshots, TRUE)
      <4>1. /\ \A i \in DOMAIN B : Known(B[i]) /\ B[i].at <= B[i].settle
            /\ \A i, j \in DOMAIN B :
                 i # j => B[i].settle # B[j].settle \/ B[i].horizon # B[j].horizon
        BY ONLY <3>1, AuditedRows
      <4>2. QED
        BY ONLY <3>2, <4>1
    <3>4. \A i \in DOMAIN rows : rows[i].label \in {"up", "down"}
      BY <3>2, LabelledRows
    <3>5. QED
      BY ONLY <3>3, <3>4
  <2>3. step = "export" => Exported(TRUE)
    BY DEF Gated
  <2>4. step = "export_all" => Exported(FALSE)
    BY DEF Gated
  <2>5. QED
    BY <2>1, <2>2, <2>3, <2>4 DEF SoundRows
<1>2. QED
  BY <1>1, GatedInit, GatedKeeps, PTL DEF TrainSpec

-----------------------------------------------------------------------------
(***************************************************************************)
(* The folds: markets in order of settlement, and periods of places.       *)
(***************************************************************************)

RowTypes(R) ==
    /\ IsFiniteSet(DOMAIN R)
    /\ \A i \in DOMAIN R : R[i].market \in Int /\ R[i].settle \in Int
    /\ \A i, j \in DOMAIN R : R[i].market = R[j].market => R[i].settle = R[j].settle

MarketRel(R) == {p \in MarketsOf(R) \X MarketsOf(R) : Precedes(R, p[1], p[2])}
PlaceOf(R, i) == Place(MarketsOf(R), MarketRel(R))[R[i].market]

LEMMA MarketsFinite ==
    ASSUME NEW R, RowTypes(R)
    PROVE  IsFiniteSet(MarketsOf(R)) /\ Cardinality(MarketsOf(R)) \in Nat
<1> DEFINE f == [i \in DOMAIN R |-> R[i].market]
<1>1. f \in Surjection(DOMAIN R, MarketsOf(R))
  BY DEF Surjection, MarketsOf
<1> HIDE DEF f
<1>2. IsFiniteSet(MarketsOf(R))
  BY <1>1, FS_Surjection DEF RowTypes
<1>3. QED
  BY <1>2, FS_CardinalityType

LEMMA EarliestIsSettle ==
    ASSUME NEW R, RowTypes(R), NEW i \in DOMAIN R
    PROVE  Earliest(R, R[i].market) = R[i].settle
<1> DEFINE S == {R[k].settle : k \in {j \in DOMAIN R : R[j].market = R[i].market}}
<1>1. S = {R[i].settle}
  BY DEF RowTypes
<1>2. Min({R[i].settle}) = R[i].settle
  BY DEF Min, RowTypes
<1>3. QED
  BY <1>1, <1>2 DEF Earliest

LEMMA MarketsOrdered ==
    ASSUME NEW R, RowTypes(R)
    PROVE  StrictOrder(MarketsOf(R), MarketRel(R))
<1> DEFINE M == MarketsOf(R)
           L == MarketRel(R)
<1>1. \A g, h \in M : <<g, h>> \in L <=> Precedes(R, g, h)
  BY DEF MarketRel
<1>2. ASSUME NEW g \in M PROVE g \in Int /\ Earliest(R, g) \in Int
  <2>1. PICK i \in DOMAIN R : g = R[i].market
    BY DEF MarketsOf
  <2>2. QED
    BY <2>1, EarliestIsSettle DEF RowTypes
<1> HIDE DEF M, L
<1>3. \A g \in M : <<g, g>> \notin L
  BY <1>1, <1>2 DEF Precedes
<1>4. \A g, h, k \in M : <<g, h>> \in L /\ <<h, k>> \in L => <<g, k>> \in L
  BY <1>1, <1>2 DEF Precedes
<1>5. ASSUME NEW g \in M, NEW h \in M, g # h PROVE <<g, h>> \in L \/ <<h, g>> \in L
  <2>1. g \in Int /\ h \in Int /\ Earliest(R, g) \in Int /\ Earliest(R, h) \in Int
    BY <1>2
  <2>2. Precedes(R, g, h) \/ Precedes(R, h, g)
    BY <1>5, <2>1 DEF Precedes
  <2>3. QED
    BY <1>1, <2>2
<1>6. QED
  BY <1>3, <1>4, <1>5 DEF StrictOrder, M, L

LEMMA PlaceOfType ==
    ASSUME NEW R, RowTypes(R)
    PROVE  \A i \in DOMAIN R : PlaceOf(R, i) \in 0..(Cardinality(MarketsOf(R)) - 1)
<1> SUFFICES ASSUME NEW i \in DOMAIN R
             PROVE  PlaceOf(R, i) \in 0..(Cardinality(MarketsOf(R)) - 1)
  OBVIOUS
<1>1. R[i].market \in MarketsOf(R)
  BY DEF MarketsOf
<1>2. QED
  BY <1>1, MarketsFinite, MarketsOrdered, PlacesTaken DEF PlaceOf

\* A split takes the rows of its places.
LEMMA RowsAtPlaces ==
    ASSUME NEW R, RowTypes(R), NEW a, NEW b, NEW i \in DOMAIN R
    PROVE  i \in RowsAt(R, a, b) <=> a <= PlaceOf(R, i) /\ PlaceOf(R, i) < b
<1> DEFINE earlier(g) == Cardinality({h \in MarketsOf(R) : Precedes(R, h, g)})
           chosen == {g \in MarketsOf(R) : a <= earlier(g) /\ earlier(g) < b}
           g0 == R[i].market
<1>1. RowsAt(R, a, b) = UNION {{k \in DOMAIN R : R[k].market = g} : g \in chosen}
  BY DEF RowsAt
<1>2. g0 \in MarketsOf(R)
  BY DEF MarketsOf
<1>3. {h \in MarketsOf(R) : Precedes(R, h, g0)} = {h \in MarketsOf(R) : <<h, g0>> \in MarketRel(R)}
  BY <1>2 DEF MarketRel
<1>4. earlier(g0) = PlaceOf(R, i)
  BY <1>2, <1>3 DEF PlaceOf, Place
<1>5. i \in RowsAt(R, a, b) <=> g0 \in chosen
  <2> HIDE DEF chosen
  <2>1. QED
    BY <1>1
<1>6. QED
  BY <1>2, <1>4, <1>5

\* The place in MarketOrder counts from one.
LEMMA PlaceInOrder ==
    ASSUME NEW R, RowTypes(R), NEW i \in DOMAIN R
    PROVE  (CHOOSE k \in DOMAIN MarketOrder(R) : MarketOrder(R)[k] = R[i].market) = PlaceOf(R, i) + 1
<1> DEFINE M == MarketsOf(R)
           L == MarketRel(R)
           n == Cardinality(M)
           rank == [g \in M |-> Cardinality({h \in M : Precedes(R, h, g)})]
           order == MarketOrder(R)
           g0 == R[i].market
<1>1. order = [k \in 1..n |-> CHOOSE g \in M : rank[g] = k - 1]
  BY DEF MarketOrder, InOrder
<1>2. \A g \in M : {h \in M : Precedes(R, h, g)} = {h \in M : <<h, g>> \in L}
  BY DEF MarketRel
<1>3. Place(M, L) = rank
  BY <1>2 DEF Place
<1>4. g0 \in M /\ PlaceOf(R, i) = Place(M, L)[g0]
  BY DEF MarketsOf, PlaceOf
<1>5. IsFiniteSet(M) /\ n \in Nat /\ StrictOrder(M, L)
  BY MarketsFinite, MarketsOrdered
<1>6. PlaceOf(R, i) \in 0..(n - 1)
  BY PlaceOfType
<1> HIDE DEF rank, order, M, L
<1>7. \A k \in 1..n : order[k] = AtPlace(M, L, k - 1)
  BY <1>1, <1>3 DEF AtPlace
<1>8. DOMAIN order = 1..n
  BY <1>1
<1>9. ASSUME NEW k \in 1..n PROVE order[k] = g0 <=> k = PlaceOf(R, i) + 1
  <2>1. k - 1 \in 0..(n - 1)
    BY <1>5
  <2>2. AtPlace(M, L, k - 1) \in M /\ Place(M, L)[AtPlace(M, L, k - 1)] = k - 1
    BY <1>5, <2>1, AtPlaceIs DEF n
  <2>3. AtPlace(M, L, PlaceOf(R, i)) = g0
    BY <1>4, <1>5, AtPlaceIs
  <2>4. order[k] = g0 => k - 1 = PlaceOf(R, i)
    BY <1>4, <1>7, <2>2
  <2>5. k - 1 = PlaceOf(R, i) => order[k] = g0
    BY <1>7, <2>3
  <2>6. QED
    BY <1>5, <1>6, <2>4, <2>5
<1> HIDE DEF n, g0
<1>10. PlaceOf(R, i) + 1 \in 1..n
  BY <1>5, <1>6
<1>11. QED
  BY <1>8, <1>9, <1>10 DEF order, g0

LEMMA JoinedTypes ==
    ASSUME NEW d \in Datasets, NEW only \in BOOLEAN
    PROVE  RowTypes(BuildRows(d.markets, d.snapshots, only))
<1> DEFINE B == BuildRows(d.markets, d.snapshots, only)
           J == Joined(d.markets, d.snapshots, only)
<1>1. IsFiniteSet(DOMAIN B) /\ \A i \in DOMAIN B : B[i] \in J
  BY RowsInOrder
<1>2. /\ \A r \in J : \E s \in Kept(d, only) : r = RowOf(d.markets, s)
      /\ \A r \in J : r.settle \in Int /\ r.market \in Int
  BY RowsOfSnapshots
<1> HIDE DEF B, J
<1>3. ASSUME NEW r \in J, NEW q \in J, r.market = q.market PROVE r.settle = q.settle
  <2>1. PICK s \in Kept(d, only) : r = RowOf(d.markets, s)
    BY <1>2
  <2>2. PICK t \in Kept(d, only) : q = RowOf(d.markets, t)
    BY <1>2
  <2>3. /\ r.market = s.market /\ r.settle = MarketNamed(d.markets, s.market).settle
        /\ q.market = t.market /\ q.settle = MarketNamed(d.markets, t.market).settle
    BY <2>1, <2>2 DEF RowOf
  <2>4. QED
    BY <1>3, <2>3
<1>4. QED
  BY <1>1, <1>2, <1>3 DEF RowTypes, B

\* A splitter's configuration; the length of the training period is read by the
\* rolling scheme alone.
PlanTypes(p) ==
    /\ p.folds \in Nat \ {0} /\ p.embargo \in Nat /\ p.minTrain \in Nat /\ p.trainSize \in Nat
    /\ p.scheme = "rolling" => p.trainSize > 0

\* The periods of the folds, in places from zero.
TotalOf(R)       == Cardinality(MarketsOf(R))
SizeOf(R, p)     == Max({1, (TotalOf(R) - p.minTrain) \div p.folds})
StartOf(R, p, k) == p.minTrain + k * SizeOf(R, p)
EndOf(R, p, k)   == IF k = p.folds - 1 THEN TotalOf(R) ELSE StartOf(R, p, k) + SizeOf(R, p)
BeginOf(R, p, k) == IF p.scheme = "rolling"
                    THEN Max({0, TrainEnd(p, StartOf(R, p, k)) - p.trainSize}) ELSE 0

LEMMA FoldPeriods ==
    ASSUME NEW R, RowTypes(R), NEW p, PlanTypes(p), NEW k \in 0..(p.folds - 1), NEW i \in DOMAIN R
    PROVE  /\ i \in FoldAt(R, p, k).train <=>
                BeginOf(R, p, k) <= PlaceOf(R, i) /\ PlaceOf(R, i) < TrainEnd(p, StartOf(R, p, k))
           /\ i \in FoldAt(R, p, k).test <=>
                StartOf(R, p, k) <= PlaceOf(R, i) /\ PlaceOf(R, i) < EndOf(R, p, k)
<1>1. /\ FoldAt(R, p, k).train = RowsAt(R, BeginOf(R, p, k), TrainEnd(p, StartOf(R, p, k)))
      /\ FoldAt(R, p, k).test = RowsAt(R, StartOf(R, p, k), EndOf(R, p, k))
  BY DEF FoldAt, BeginOf, EndOf, StartOf, SizeOf, TotalOf
<1>2. QED
  BY <1>1, RowsAtPlaces

\* The size of a period, when there are markets enough.
LEMMA PeriodSize ==
    ASSUME NEW R, RowTypes(R), NEW p, PlanTypes(p), p.minTrain + p.folds <= TotalOf(R)
    PROVE  /\ SizeOf(R, p) \in Nat /\ SizeOf(R, p) >= 1
           /\ p.folds * SizeOf(R, p) <= TotalOf(R) - p.minTrain
<1>1. TotalOf(R) \in Nat /\ p.minTrain \in Nat /\ p.folds \in Nat /\ p.folds > 0
  BY MarketsFinite DEF TotalOf, PlanTypes
<1>2. PICK n \in Nat : n = TotalOf(R) - p.minTrain
  BY <1>1
<1>3. PICK f \in Nat : f = p.folds
  BY <1>1
<1>4. PICK q \in Nat : q = n \div f /\ q * f <= n /\ n < (q + 1) * f
  BY <1>1, <1>3, Quotient
<1>5. f > 0 /\ n >= f
  BY <1>1, <1>2, <1>3
<1>6. q >= 1
  BY <1>4, <1>5, Quotient
<1>7. SizeOf(R, p) = q
  <2>1. Max({1, q}) = q
    <3>1. 1 \in Int /\ q \in Int
      OBVIOUS
    <3>2. Max({1, q}) = IF 1 <= q THEN q ELSE 1
      BY ONLY <3>1, OfTwo
    <3>3. QED
      BY <1>6, <3>2
  <2>2. SizeOf(R, p) = Max({1, (TotalOf(R) - p.minTrain) \div p.folds})
    BY DEF SizeOf
  <2>3. n \div f = q
    BY <1>4
  <2>4. QED
    BY <1>2, <1>3, <2>1, <2>2, <2>3, Zenon
<1>8. f * q <= n
  BY <1>4, Multiples
<1>9. QED
  BY <1>2, <1>3, <1>6, <1>7, <1>8

\* The periods lie one behind another, from minTrain to the end.
LEMMA PeriodsFit ==
    ASSUME NEW R, RowTypes(R), NEW p, PlanTypes(p), p.minTrain + p.folds <= TotalOf(R),
           NEW k \in 0..(p.folds - 1)
    PROVE  /\ StartOf(R, p, k) \in Nat /\ p.minTrain <= StartOf(R, p, k)
           /\ EndOf(R, p, k) \in Nat /\ EndOf(R, p, k) <= TotalOf(R)
           /\ StartOf(R, p, k) < EndOf(R, p, k)
           /\ k # p.folds - 1 => EndOf(R, p, k) = StartOf(R, p, k) + SizeOf(R, p)
           /\ \A l \in 0..(p.folds - 1) : k < l => EndOf(R, p, k) <= StartOf(R, p, l)
<1>1. /\ TotalOf(R) \in Nat /\ p.minTrain \in Nat /\ p.folds \in Nat /\ k \in Nat
      /\ SizeOf(R, p) \in Nat /\ SizeOf(R, p) >= 1 /\ p.folds * SizeOf(R, p) <= TotalOf(R) - p.minTrain
  BY MarketsFinite, PeriodSize DEF TotalOf, PlanTypes
<1>2. PICK s \in Nat : s = SizeOf(R, p)
  BY <1>1
<1>3. PICK fs \in Nat : fs = p.folds * SizeOf(R, p)
  BY <1>1, Multiples
<1>4. \A l \in 0..(p.folds - 1) : l * s \in Nat /\ l * s + s <= fs /\ StartOf(R, p, l) = p.minTrain + l * s
  BY <1>1, <1>2, <1>3, Multiples DEF StartOf
<1>5. PICK ks \in Nat : ks = k * s
  BY <1>4
<1>6. ks + s <= fs /\ StartOf(R, p, k) = p.minTrain + ks
  BY <1>4, <1>5
<1>7. EndOf(R, p, k) = IF k = p.folds - 1 THEN TotalOf(R) ELSE StartOf(R, p, k) + s
  BY <1>2 DEF EndOf
<1>8. ASSUME NEW l \in 0..(p.folds - 1), k < l PROVE EndOf(R, p, k) <= StartOf(R, p, l)
  <2>1. k # p.folds - 1
    BY <1>1, <1>8
  <2>2. PICK ls \in Nat : ls = l * s
    BY <1>4
  <2>3. ks + s <= ls
    BY <1>1, <1>5, <1>8, <2>2, Multiples
  <2>4. StartOf(R, p, l) = p.minTrain + ls
    BY <1>4, <2>2
  <2>5. QED
    BY <1>1, <1>6, <1>7, <2>1, <2>3, <2>4
<1>9. QED
  BY <1>1, <1>2, <1>3, <1>6, <1>7, <1>8

\* Training ends an embargo before the test period, and begins before it ends.
LEMMA TrainingSide ==
    ASSUME NEW R, NEW p, PlanTypes(p), NEW k, StartOf(R, p, k) \in Nat
    PROVE  /\ TrainEnd(p, StartOf(R, p, k)) \in Nat
           /\ TrainEnd(p, StartOf(R, p, k)) > 0 =>
                /\ TrainEnd(p, StartOf(R, p, k)) = StartOf(R, p, k) - p.embargo
                /\ BeginOf(R, p, k) \in Nat /\ BeginOf(R, p, k) < TrainEnd(p, StartOf(R, p, k))
           /\ p.embargo < StartOf(R, p, k) => TrainEnd(p, StartOf(R, p, k)) > 0
<1>1. p.embargo \in Nat /\ p.trainSize \in Nat /\ (p.scheme = "rolling" => p.trainSize > 0)
  BY DEF PlanTypes
<1>2. PICK start \in Nat : start = StartOf(R, p, k)
  OBVIOUS
<1>3. \A a \in Int : Max({0, a}) = IF 0 <= a THEN a ELSE 0
  BY ONLY OfTwo
<1>4. PICK cut \in Nat : /\ cut = TrainEnd(p, StartOf(R, p, k))
                         /\ cut = IF 0 <= start - p.embargo THEN start - p.embargo ELSE 0
  BY <1>1, <1>2, <1>3 DEF TrainEnd
<1>5. cut - p.trainSize \in Int
  BY <1>1
<1>6. BeginOf(R, p, k) =
        IF p.scheme = "rolling"
        THEN IF 0 <= cut - p.trainSize THEN cut - p.trainSize ELSE 0
        ELSE 0
  BY <1>3, <1>4, <1>5 DEF BeginOf
<1>7. cut > 0 => BeginOf(R, p, k) \in Nat /\ BeginOf(R, p, k) < cut
  BY <1>1, <1>6
<1>8. QED
  BY <1>1, <1>2, <1>4, <1>7

\* A market in an earlier place settled no later.
LEMMA PlaceSettles ==
    ASSUME NEW R, RowTypes(R), NEW i \in DOMAIN R, NEW j \in DOMAIN R,
           PlaceOf(R, i) < PlaceOf(R, j)
    PROVE  R[i].settle <= R[j].settle
<1>1. R[i].market \in MarketsOf(R) /\ R[j].market \in MarketsOf(R)
  BY DEF MarketsOf
<1>2. Place(MarketsOf(R), MarketRel(R))[R[i].market] < Place(MarketsOf(R), MarketRel(R))[R[j].market]
  BY DEF PlaceOf
<1>3. <<R[i].market, R[j].market>> \in MarketRel(R)
  BY <1>1, <1>2, MarketsFinite, MarketsOrdered, PlaceGrows
<1>4. Precedes(R, R[i].market, R[j].market)
  BY <1>3 DEF MarketRel
<1>5. Earliest(R, R[i].market) \in Int /\ Earliest(R, R[j].market) \in Int
  BY EarliestIsSettle DEF RowTypes
<1>6. Earliest(R, R[i].market) <= Earliest(R, R[j].market)
  BY <1>4, <1>5 DEF Precedes
<1>7. QED
  BY <1>6, EarliestIsSettle

\* Who trains settled before who is tested, an embargo of markets apart.
LEMMA FoldsApart ==
    ASSUME NEW R, RowTypes(R), NEW p, PlanTypes(p), NEW f \in Folds(R, p),
           NEW i \in f.train, NEW j \in f.test
    PROVE  R[i].settle <= R[j].settle /\ PlaceOf(R, i) + p.embargo < PlaceOf(R, j)
<1>1. PICK k \in 0..(p.folds - 1) : f = FoldAt(R, p, k)
  BY DEF Folds
<1>2. i \in DOMAIN R /\ j \in DOMAIN R
  BY FoldRows
<1>3. DOMAIN R # {} /\ ~TooFew(R, p)
  BY <1>2 DEF Folds
<1>4. p.minTrain + p.folds <= TotalOf(R)
  BY <1>3, MarketsFinite DEF TooFew, TotalOf, PlanTypes
<1>5. StartOf(R, p, k) \in Nat
  BY <1>4, PeriodsFit
<1>6. /\ PlaceOf(R, i) < TrainEnd(p, StartOf(R, p, k))
      /\ StartOf(R, p, k) <= PlaceOf(R, j)
  BY <1>1, <1>2, FoldPeriods
<1>7. PlaceOf(R, i) \in Nat /\ PlaceOf(R, j) \in Nat /\ p.embargo \in Nat
  BY <1>2, PlaceOfType, MarketsFinite DEF PlanTypes
<1>8. TrainEnd(p, StartOf(R, p, k)) \in Nat
  BY <1>5, TrainingSide
<1>9. TrainEnd(p, StartOf(R, p, k)) = StartOf(R, p, k) - p.embargo
  BY <1>5, <1>6, <1>7, <1>8, TrainingSide
<1>10. PlaceOf(R, i) + p.embargo < PlaceOf(R, j)
  BY <1>5, <1>6, <1>7, <1>9
<1>11. QED
  BY <1>2, <1>7, <1>10, PlaceSettles

\* The period a place behind the first minTrain falls into.
LEMMA SomePeriod ==
    ASSUME NEW R, RowTypes(R), NEW p, PlanTypes(p), p.minTrain + p.folds <= TotalOf(R),
           NEW x \in Nat, p.minTrain <= x, x < TotalOf(R)
    PROVE  \E k \in 0..(p.folds - 1) : StartOf(R, p, k) <= x /\ x < EndOf(R, p, k)
<1>1. /\ TotalOf(R) \in Nat /\ p.minTrain \in Nat /\ p.folds \in Nat /\ p.folds > 0
      /\ SizeOf(R, p) \in Nat /\ SizeOf(R, p) >= 1
  BY MarketsFinite, PeriodSize DEF TotalOf, PlanTypes
<1>2. PICK s \in Nat : s = SizeOf(R, p)
  BY <1>1
<1>3. PICK last \in Nat : last = p.folds - 1
  BY <1>1
<1>4. PICK y \in Nat : y = x - p.minTrain
  BY <1>1
<1>5. PICK top \in Nat : top = last * s
  BY Multiples
<1>6. CASE top <= y
  <2>1. StartOf(R, p, last) = p.minTrain + top /\ EndOf(R, p, last) = TotalOf(R)
    BY <1>2, <1>3, <1>5 DEF StartOf, EndOf
  <2>2. QED
    BY <1>1, <1>3, <1>4, <1>6, <2>1
<1>7. CASE y < top
  <2>1. PICK q \in Nat : q * s <= y /\ y < (q + 1) * s
    <3>1. s > 0
      BY <1>1, <1>2
    <3>2. y \div s \in Nat /\ (y \div s) * s <= y /\ y < (y \div s + 1) * s
      BY <3>1, Quotient
    <3>3. QED
      BY <3>2
  <2>2. PICK qs \in Nat : qs = q * s
    BY Multiples
  <2>3. (q + 1) * s = qs + s
    BY <2>2
  <2>4. q < last
    <3>1. CASE last < q
      BY <1>1, <1>2, <1>5, <1>7, <2>1, <2>2, <3>1, Multiples
    <3>2. CASE last = q
      BY <1>5, <1>7, <2>1, <3>2
    <3>3. QED
      BY <3>1, <3>2
  <2>5. /\ StartOf(R, p, q) = p.minTrain + qs
        /\ EndOf(R, p, q) = p.minTrain + qs + s
    BY <1>1, <1>2, <1>3, <2>2, <2>4 DEF StartOf, EndOf
  <2>6. q \in 0..(p.folds - 1)
    BY <1>1, <1>3, <2>4
  <2>7. StartOf(R, p, q) <= x /\ x < EndOf(R, p, q)
    BY <1>1, <1>4, <2>1, <2>2, <2>3, <2>5
  <2>8. QED
    BY <2>6, <2>7
<1>8. QED
  BY <1>6, <1>7

\* Every place is some row's.
LEMMA EveryPlace ==
    ASSUME NEW R, RowTypes(R)
    PROVE  \A x \in 0..(TotalOf(R) - 1) : \E i \in DOMAIN R : PlaceOf(R, i) = x
<1> SUFFICES ASSUME NEW x \in 0..(TotalOf(R) - 1) PROVE \E i \in DOMAIN R : PlaceOf(R, i) = x
  OBVIOUS
<1>1. PICK g \in MarketsOf(R) : Place(MarketsOf(R), MarketRel(R))[g] = x
  BY MarketsFinite, MarketsOrdered, PlacesTaken DEF TotalOf
<1>2. PICK i \in DOMAIN R : R[i].market = g
  BY DEF MarketsOf
<1>3. QED
  BY <1>1, <1>2 DEF PlaceOf

\* Both sides of a fold have rows, if the embargo leaves any to train on.
LEMMA SidesHaveRows ==
    ASSUME NEW R, RowTypes(R), NEW p, PlanTypes(p), p.embargo < p.minTrain,
           p.minTrain + p.folds <= TotalOf(R), NEW k \in 0..(p.folds - 1)
    PROVE  FoldAt(R, p, k).train # {} /\ FoldAt(R, p, k).test # {}
<1> DEFINE start == StartOf(R, p, k)
           cut   == TrainEnd(p, start)
           begin == BeginOf(R, p, k)
<1>1. /\ p.embargo \in Nat /\ p.minTrain \in Nat /\ TotalOf(R) \in Nat
      /\ start \in Nat /\ p.minTrain <= start
      /\ start < EndOf(R, p, k) /\ EndOf(R, p, k) <= TotalOf(R) /\ EndOf(R, p, k) \in Nat
  BY PeriodsFit, MarketsFinite DEF PlanTypes, TotalOf
<1>2. p.embargo < start
  BY <1>1
<1>3. cut \in Nat /\ cut > 0 /\ cut = start - p.embargo /\ begin \in Nat /\ begin < cut
  BY <1>1, <1>2, TrainingSide
<1> HIDE DEF start, cut, begin
<1>4. \A x \in 0..(TotalOf(R) - 1) : \E i \in DOMAIN R : PlaceOf(R, i) = x
  BY EveryPlace
<1>5. cut - 1 \in 0..(TotalOf(R) - 1) /\ start \in 0..(TotalOf(R) - 1)
  BY <1>1, <1>3
<1>6. PICK i \in DOMAIN R : PlaceOf(R, i) = cut - 1
  BY <1>4, <1>5
<1>7. PICK j \in DOMAIN R : PlaceOf(R, j) = start
  BY <1>4, <1>5
<1>8. begin <= PlaceOf(R, i) /\ PlaceOf(R, i) < cut
  BY <1>3, <1>6
<1>9. i \in FoldAt(R, p, k).train
  BY <1>8, FoldPeriods DEF begin, cut, start
<1>10. start <= PlaceOf(R, j) /\ PlaceOf(R, j) < EndOf(R, p, k)
  BY <1>1, <1>7
<1>11. j \in FoldAt(R, p, k).test
  BY <1>10, FoldPeriods DEF start
<1>12. QED
  BY <1>9, <1>11

\* No row is tested in two folds.
LEMMA TestedInOne ==
    ASSUME NEW R, RowTypes(R), NEW p, PlanTypes(p), p.minTrain + p.folds <= TotalOf(R),
           NEW k \in 0..(p.folds - 1), NEW l \in 0..(p.folds - 1), NEW j \in DOMAIN R,
           j \in FoldAt(R, p, k).test, j \in FoldAt(R, p, l).test
    PROVE  k = l
<1>1. /\ StartOf(R, p, k) <= PlaceOf(R, j) /\ PlaceOf(R, j) < EndOf(R, p, k)
      /\ StartOf(R, p, l) <= PlaceOf(R, j) /\ PlaceOf(R, j) < EndOf(R, p, l)
      /\ PlaceOf(R, j) \in Int
  BY FoldPeriods, PlaceOfType, MarketsFinite
<1>2. /\ k \in Nat /\ l \in Nat
      /\ StartOf(R, p, l) \in Nat /\ EndOf(R, p, l) \in Nat
      /\ StartOf(R, p, k) \in Nat /\ EndOf(R, p, k) \in Nat
  BY PeriodsFit
<1>3. /\ k < l => EndOf(R, p, k) <= StartOf(R, p, l)
      /\ l < k => EndOf(R, p, l) <= StartOf(R, p, k)
  BY PeriodsFit
<1>4. QED
  BY <1>1, <1>2, <1>3

\* Every market behind the first minTrain is tested in one fold.
LEMMA TestedOnce ==
    ASSUME NEW R, RowTypes(R), NEW p, PlanTypes(p), p.embargo < p.minTrain, ~TooFew(R, p),
           NEW j \in DOMAIN R, p.minTrain <= PlaceOf(R, j)
    PROVE  Cardinality({f \in Folds(R, p) : j \in f.test}) = 1
<1>1. p.minTrain + p.folds <= TotalOf(R)
  BY MarketsFinite DEF TooFew, TotalOf, PlanTypes
<1>2. PlaceOf(R, j) \in Nat /\ PlaceOf(R, j) < TotalOf(R) /\ TotalOf(R) \in Nat
  BY PlaceOfType, MarketsFinite DEF TotalOf
<1>3. PICK k \in 0..(p.folds - 1) : StartOf(R, p, k) <= PlaceOf(R, j) /\ PlaceOf(R, j) < EndOf(R, p, k)
  BY <1>1, <1>2, SomePeriod
<1>4. j \in FoldAt(R, p, k).test
  BY <1>3, FoldPeriods
<1>5. FoldAt(R, p, k).train # {}
  BY <1>1, SidesHaveRows
<1>6. FoldAt(R, p, k) \in Folds(R, p)
  BY <1>4, <1>5 DEF Folds
<1>7. ASSUME NEW f \in Folds(R, p), j \in f.test PROVE f = FoldAt(R, p, k)
  <2>1. PICK l \in 0..(p.folds - 1) : f = FoldAt(R, p, l)
    BY DEF Folds
  <2>2. k = l
    BY <1>1, <1>4, <1>7, <2>1, TestedInOne
  <2>3. QED
    BY <2>1, <2>2
<1>8. {f \in Folds(R, p) : j \in f.test} = {FoldAt(R, p, k)}
  BY <1>4, <1>6, <1>7
<1>9. QED
  BY <1>8, FS_Singleton

\* Whatever the data and the plan: a training row settled before a test row of
\* its fold, an embargo of markets apart, and every market that has a training
\* side before it is tested once (models/validation.py:93-160).
THEOREM SplitIsClean == TrainSpec => []FoldsAreClean
<1>1. Gated => FoldsAreClean
  <2> SUFFICES ASSUME Gated, step = "develop" PROVE FoldsAreClean
    BY DEF FoldsAreClean
  <2> DEFINE order == MarketOrder(rows)
             place(i) == CHOOSE k \in DOMAIN order : order[k] = rows[i].market
             p == data.plan
  <2>1. PICK d \in Datasets : RowsOfDataset(d)
    BY DEF Gated
  <2>2. RowTypes(rows) /\ PlanTypes(p)
    <3>1. RowTypes(BuildRows(d.markets, d.snapshots, TRUE))
      BY JoinedTypes
    <3>2. rows = BuildRows(d.markets, d.snapshots, TRUE) /\ p \in Plans
      BY <2>1 DEF RowsOfDataset
    <3>3. PlanTypes(p)
      BY <3>2, PlanAssumption DEF PlanTypes
    <3>4. QED
      BY <3>1, <3>2, <3>3
  <2>3. ASSUME NEW i \in DOMAIN rows PROVE place(i) = PlaceOf(rows, i) + 1
    BY <2>2, PlaceInOrder
  <2>4. \A i \in DOMAIN rows : PlaceOf(rows, i) \in Nat
    BY <2>2, PlaceOfType, MarketsFinite
  <2>5. p.embargo \in Nat /\ p.minTrain \in Nat
    BY <2>2 DEF PlanTypes
  <2> HIDE DEF place, p, order
  <2>6. ASSUME NEW f \in Folds(rows, p), NEW i \in f.train, NEW j \in f.test
        PROVE  rows[i].settle <= rows[j].settle /\ place(i) + p.embargo < place(j)
    <3>1. i \in DOMAIN rows /\ j \in DOMAIN rows
      BY FoldRows
    <3>2. rows[i].settle <= rows[j].settle /\ PlaceOf(rows, i) + p.embargo < PlaceOf(rows, j)
      BY <2>2, FoldsApart
    <3>3. QED
      BY <2>3, <2>4, <2>5, <3>1, <3>2
  <2>7. ASSUME p.embargo < p.minTrain, ~TooFew(rows, p),
               NEW j \in DOMAIN rows, place(j) > p.minTrain
        PROVE  Cardinality({f \in Folds(rows, p) : j \in f.test}) = 1
    <3>1. p.minTrain <= PlaceOf(rows, j)
      BY <2>3, <2>4, <2>5, <2>7
    <3>2. QED
      BY <2>2, <2>7, <3>1, TestedOnce
  <2>8. QED
    BY <2>6, <2>7 DEF FoldsAreClean, place, p, order
<1>2. QED
  BY <1>1, GatedInit, GatedKeeps, PTL DEF TrainSpec

-----------------------------------------------------------------------------
(***************************************************************************)
(* The paper record.  An open trade has no result yet: it is in none of    *)
(* the sums but the stake, which it can only raise.                        *)
(***************************************************************************)

Verdict == [settled : BOOLEAN, outcome : {"UP", "DOWN", "none"}, pnl : Int, won : BOOLEAN,
            measured : SUBSET [error : Int, filling : SUBSET Prices]]
RunType == [decision : Tickets, settlement : Verdict]

Honest(s) == /\ IsFiniteSet(s.measured)
             /\ \A q \in s.measured : q.error < 0 <=> q.filling = {}

RecordInv ==
    /\ runs \in Seq(RunType) /\ \A i \in DOMAIN runs : Honest(runs[i].settlement)
    /\ tape \subseteq [price : Prices, later : BOOLEAN]

LEMMA Measurement ==
    ASSUME NEW d \in Tickets, NEW prints, prints \subseteq [price : Prices, later : BOOLEAN]
    PROVE  /\ Measure(d, prints) \subseteq [error : Int, filling : SUBSET Prices]
           /\ IsFiniteSet(Measure(d, prints))
           /\ \A q \in Measure(d, prints) : q.error < 0 <=> q.filling = {}
<1>1. CASE ~d.traded \/ After(prints) = {}
  <2>1. Measure(d, prints) = {}
    BY <1>1 DEF Measure
  <2>2. QED
    BY <2>1, FS_EmptySet
<1>2. CASE d.traded /\ After(prints) # {}
  <2> DEFINE later == After(prints)
             q == [error |-> d.price - BestPrice(d.side, later),
                   filling |-> {p \in later : WouldHaveFilled(d.side, d.price, p)}]
  <2>1. later \subseteq Prices /\ later # {}
    BY <1>2 DEF After
  <2>2. later \in SUBSET Int /\ ShareUnit \in Nat /\ d.price \in Int
    <3>1. Prices \subseteq 0..ShareUnit /\ ShareUnit \in Nat
      BY RecordAssumption
    <3>2. d.price \in 1..(ShareUnit - 1)
      BY <1>2, RecordAssumption
    <3>3. later \subseteq 0..ShareUnit
      BY <2>1, <3>1
    <3> HIDE DEF later
    <3>4. QED
      BY <3>1, <3>2, <3>3
  <2>3. IsFiniteSet(later)
    <3>1. 0 \in Int /\ ShareUnit \in Int
      BY <2>2
    <3>2. IsFiniteSet(0..ShareUnit)
      BY ONLY <3>1, FS_Interval
    <3>3. later \subseteq 0..ShareUnit
      BY <2>1, RecordAssumption
    <3>4. QED
      BY ONLY <3>2, <3>3, FS_Subset
  <2>4. Measure(d, prints) = {q}
    BY <1>2 DEF Measure
  <2> HIDE DEF later
  <2>5. /\ Min(later) \in later /\ \A x \in later : Min(later) <= x
        /\ Max(later) \in later /\ \A x \in later : x <= Max(later)
    BY <2>1, <2>2, <2>3, LeastAndGreatest
  <2>6. Min(later) \in Int /\ Max(later) \in Int
    BY <2>2, <2>5
  <2>7. CASE d.side = "UP"
    <3>1. q.error = d.price - Min(later) /\ q.filling = {p \in later : p <= d.price}
      BY <2>7 DEF BestPrice, WouldHaveFilled
    <3>2. q.error \in Int /\ q.filling \subseteq Prices /\ (q.error < 0 <=> q.filling = {})
      <4>1. d.price - Min(later) \in Int
        BY <2>2, <2>6
      <4>2. d.price - Min(later) < 0 <=> \A p \in later : ~(p <= d.price)
        BY <2>2, <2>5, <2>6
      <4> HIDE DEF q
      <4>3. q.filling \subseteq Prices /\ (q.filling = {} <=> \A p \in later : ~(p <= d.price))
        BY <2>1, <3>1
      <4>4. QED
        BY <3>1, <4>1, <4>2, <4>3
    <3>3. q \in [error : Int, filling : SUBSET Prices]
      BY <3>2
    <3> HIDE DEF q
    <3>4. IsFiniteSet({q})
      BY FS_Singleton
    <3>5. QED
      BY <2>4, <3>2, <3>3, <3>4
  <2>8. CASE d.side # "UP"
    <3>1. /\ q.error = d.price - (ShareUnit - Max(later))
          /\ q.filling = {p \in later : p >= ShareUnit - d.price}
      BY <2>8 DEF BestPrice, WouldHaveFilled
    <3>2. q.error \in Int /\ q.filling \subseteq Prices /\ (q.error < 0 <=> q.filling = {})
      <4>1. d.price - (ShareUnit - Max(later)) \in Int
        BY <2>2, <2>6
      <4>2. d.price - (ShareUnit - Max(later)) < 0 <=> \A p \in later : ~(p >= ShareUnit - d.price)
        BY <2>2, <2>5, <2>6
      <4> HIDE DEF q
      <4>3. q.filling \subseteq Prices /\ (q.filling = {} <=> \A p \in later : ~(p >= ShareUnit - d.price))
        BY <2>1, <3>1
      <4>4. QED
        BY <3>1, <4>1, <4>2, <4>3
    <3>3. q \in [error : Int, filling : SUBSET Prices]
      BY <3>2
    <3> HIDE DEF q
    <3>4. IsFiniteSet({q})
      BY FS_Singleton
    <3>5. QED
      BY <2>4, <3>2, <3>3, <3>4
  <2>9. QED
    BY <2>7, <2>8
<1>3. QED
  BY <1>1, <1>2, RecordAssumption

LEMMA NewRun ==
    ASSUME NEW d \in Tickets
    PROVE  Run(d) \in RunType /\ Honest(Run(d).settlement)
BY FS_EmptySet DEF Run, RunType, Verdict, Unsettled, Honest

LEMMA SettledRun ==
    ASSUME RecordInv, NEW i \in DOMAIN runs, NEW outcome \in {"UP", "DOWN", "none"},
           NEW measured \in SUBSET [error : Int, filling : SUBSET Prices]
    PROVE  Settled(i, outcome, measured) \in Verdict
<1> DEFINE d == runs[i].decision
           won == d.traded /\ d.side = outcome
           pnl == CASE ~d.traded \/ outcome = "none" -> 0
                    [] won -> (d.cost * ShareUnit) \div d.price - d.cost
                    [] OTHER -> -d.cost
<1>1. runs[i] \in RunType
  BY DEF RecordInv
<1>2. d \in Tickets
  BY <1>1 DEF RunType
<1>3. d.traded \in BOOLEAN /\ d.cost \in Nat /\ (d.traded => d.price \in 1..(ShareUnit - 1))
      /\ ShareUnit \in Nat /\ (d.traded => d.side \in {"UP", "DOWN"})
  BY <1>2, RecordAssumption
<1>4. won \in BOOLEAN
  BY <1>3
<1>5. pnl \in Int
  <2>1. CASE ~d.traded \/ outcome = "none"
    <3>1. pnl = 0
      BY <1>3, <2>1
    <3> HIDE DEF pnl
    <3>2. QED
      BY <3>1
  <2>2. CASE ~(~d.traded \/ outcome = "none") /\ won
    <3>1. d.price \in Nat /\ d.price > 0
      BY <1>3, <2>2
    <3>2. PICK paid \in Nat : paid = d.cost * ShareUnit
      BY <1>3, Multiples
    <3>3. paid \div d.price \in Nat
      BY <3>1, <3>2, Quotient
    <3>4. pnl = paid \div d.price - d.cost
      BY <2>2, <3>2
    <3> HIDE DEF pnl
    <3>5. QED
      BY <1>3, <3>3, <3>4
  <2>3. CASE ~(~d.traded \/ outcome = "none") /\ ~won
    BY <1>3, <2>3
  <2>4. QED
    BY <2>1, <2>2, <2>3
<1> HIDE DEF pnl, won
<1>6. Settled(i, outcome, measured) =
        [settled |-> TRUE, outcome |-> outcome, won |-> won, measured |-> measured, pnl |-> pnl]
  BY DEF Settled, won, pnl
<1>7. QED
  BY <1>4, <1>5, <1>6 DEF Verdict

LEMMA RecordKeeps == RecordInv /\ [RecordNext]_recordVars => RecordInv'
<1> SUFFICES ASSUME RecordInv, [RecordNext]_recordVars PROVE RecordInv'
  OBVIOUS
<1>0. DOMAIN runs = 1..Len(runs) /\ Len(runs) \in Nat /\ runs \in Seq(RunType)
      /\ \A i \in DOMAIN runs : runs[i] \in RunType
  BY DEF RecordInv
<1>1. ASSUME NEW d \in Tickets, NEW before \in {{}, Prices}, EnterMarket(d, before)
      PROVE  RecordInv'
  <2>1. runs' = Append(runs, Run(d)) /\ tape' = {[price |-> p, later |-> FALSE] : p \in before}
    BY <1>1 DEF EnterMarket
  <2>2. runs' \in Seq(RunType) /\ DOMAIN runs' = 1..(Len(runs) + 1)
        /\ \A i \in 1..(Len(runs) + 1) :
              runs'[i] = IF i <= Len(runs) THEN runs[i] ELSE Run(d)
    BY <1>0, <2>1, NewRun, AppendProperties
  <2>3. \A i \in DOMAIN runs' : Honest(runs'[i].settlement)
    BY <1>0, <2>2, NewRun DEF RecordInv
  <2>4. tape' \subseteq [price : Prices, later : BOOLEAN]
    <3>1. before \subseteq Prices
      OBVIOUS
    <3>2. \A p \in before : [price |-> p, later |-> FALSE] \in [price : Prices, later : BOOLEAN]
      BY <3>1
    <3>3. QED
      BY <2>1, <3>2
  <2>5. QED
    BY <2>2, <2>3, <2>4 DEF RecordInv
<1>2. CASE CloseMarket
  BY <1>2 DEF CloseMarket, RecordInv
<1>3. ASSUME NEW price \in Prices, PrintOn(price) PROVE RecordInv'
  <2>1. [price |-> price, later |-> TRUE] \in [price : Prices, later : BOOLEAN]
    OBVIOUS
  <2>2. tape' = tape \cup {[price |-> price, later |-> TRUE]} /\ runs' = runs
    BY <1>3 DEF PrintOn
  <2>3. QED
    BY <2>1, <2>2 DEF RecordInv
<1>4. ASSUME NEW i \in DOMAIN runs, NEW outcome \in {"UP", "DOWN", "none"},
             SettlePending(i, outcome)
      PROVE  RecordInv'
  <2> DEFINE measured == IF i = watched THEN Measure(runs[i].decision, tape) ELSE {}
             verdict == Settled(i, outcome, measured)
  <2>1. runs' = [runs EXCEPT ![i].settlement = verdict] /\ tape' = tape
    BY <1>4 DEF SettlePending
  <2>2. runs[i].decision \in Tickets
    BY <1>0 DEF RunType
  <2>3. /\ measured \in SUBSET [error : Int, filling : SUBSET Prices]
        /\ IsFiniteSet(measured) /\ \A q \in measured : q.error < 0 <=> q.filling = {}
    BY <2>2, Measurement, FS_EmptySet DEF RecordInv
  <2> HIDE DEF measured
  <2>4. verdict \in Verdict /\ verdict.measured = measured
    <3>1. verdict \in Verdict
      BY <2>3, SettledRun
    <3>2. QED
      BY <3>1 DEF Settled
  <2> HIDE DEF verdict
  <2>5. Honest(verdict)
    BY <2>3, <2>4 DEF Honest
  <2>6. /\ DOMAIN runs' = DOMAIN runs
        /\ \A j \in DOMAIN runs : runs'[j] = IF j = i THEN [runs[i] EXCEPT !.settlement = verdict]
                                             ELSE runs[j]
    BY <1>0, <2>1
  <2>7. [runs[i] EXCEPT !.settlement = verdict] \in RunType
        /\ [runs[i] EXCEPT !.settlement = verdict].settlement = verdict
    BY <1>0, <2>4 DEF RunType
  <2>8. runs' \in Seq(RunType)
    <3>1. runs' \in [1..Len(runs) -> RunType]
      <4>1. runs' = [j \in DOMAIN runs |-> runs'[j]]
        BY <2>1
      <4>2. \A j \in DOMAIN runs : runs'[j] \in RunType
        BY <1>0, <2>6, <2>7
      <4>3. QED
        BY <1>0, <4>1, <4>2
    <3>2. QED
      BY <1>0, <3>1, SeqDef
  <2>9. \A j \in DOMAIN runs' : Honest(runs'[j].settlement)
    BY <2>5, <2>6, <2>7 DEF RecordInv
  <2>10. QED
    BY <2>1, <2>8, <2>9 DEF RecordInv
<1>5. CASE UNCHANGED recordVars
  BY <1>5 DEF recordVars, RecordInv
<1>6. QED
  BY <1>1, <1>2, <1>3, <1>4, <1>5 DEF RecordNext

\* A record as the report reads it.
OnRecord(rs) == rs \in Seq(RunType) /\ \A i \in DOMAIN rs : Honest(rs[i].settlement)

LEMMA RecordFigures ==
    ASSUME NEW rs, OnRecord(rs)
    PROVE  /\ DOMAIN rs = 1..Len(rs) /\ Len(rs) \in Nat /\ IsFiniteSet(DOMAIN rs)
           /\ \A i \in DOMAIN rs : /\ rs[i] \in RunType /\ rs[i].decision \in Tickets
                                   /\ rs[i].decision.cost \in Nat
                                   /\ rs[i].settlement.pnl \in Int
                                   /\ MeasuredError(rs[i].settlement) \in Int
<1>1. DOMAIN rs = 1..Len(rs) /\ Len(rs) \in Nat /\ \A i \in DOMAIN rs : rs[i] \in RunType
  BY DEF OnRecord
<1>2. IsFiniteSet(DOMAIN rs)
  <2>1. 1 \in Int /\ Len(rs) \in Int
    BY <1>1
  <2>2. IsFiniteSet(1..Len(rs))
    BY ONLY <2>1, FS_Interval
  <2>3. QED
    BY ONLY <1>1, <2>2
<1>3. ASSUME NEW i \in DOMAIN rs
      PROVE  /\ rs[i].decision \in Tickets /\ rs[i].decision.cost \in Nat
             /\ rs[i].settlement.pnl \in Int
             /\ MeasuredError(rs[i].settlement) \in Int
  <2>1. rs[i].decision \in Tickets /\ rs[i].settlement \in Verdict
    BY <1>1 DEF RunType
  <2> DEFINE m == rs[i].settlement.measured
             f == [q \in m |-> q.error]
  <2>2. m \subseteq [error : Int, filling : SUBSET Prices] /\ IsFiniteSet(m)
    BY <2>1 DEF Verdict, OnRecord, Honest
  <2>3. Whole(f, m)
    BY <2>2 DEF Whole
  <2>4. MeasuredError(rs[i].settlement) = SumFunctionOnSet(f, m)
    BY SumOverDomain DEF MeasuredError
  <2> HIDE DEF f, m
  <2>5. SumFunctionOnSet(f, m) \in Int
    BY <2>2, <2>3, SumOfSubset
  <2>6. QED
    BY <2>1, <2>4, <2>5, RecordAssumption DEF Verdict
<1>4. QED
  BY <1>1, <1>2, <1>3

\* What the report says of a record, and of the same with an open trade more.
LEMMA OpenTrade ==
    ASSUME NEW rs, OnRecord(rs), NEW d \in Tickets
    PROVE  LET more == Append(rs, Run(d))
           IN  /\ SettledOf(more) = SettledOf(rs) /\ WinsOf(more) = WinsOf(rs)
               /\ NetPnl(more) = NetPnl(rs) /\ Errors(more) = Errors(rs)
               /\ Significant(more) = Significant(rs)
               /\ BeatsMarketForecast(more) = BeatsMarketForecast(rs)
               /\ Staked(rs, TradesOf(rs)) <= Staked(more, TradesOf(more))
               /\ Staked(rs, TradesOf(rs)) \in Nat /\ Staked(more, TradesOf(more)) \in Nat
<1> DEFINE more == Append(rs, Run(d))
           n == Len(rs)
<1>1. /\ DOMAIN more = 1..(n + 1) /\ n \in Nat /\ DOMAIN rs = 1..n /\ more \in Seq(RunType)
      /\ \A i \in 1..n : more[i] = rs[i]
      /\ more[n + 1] = Run(d) /\ n + 1 \notin 1..n
  BY NewRun, AppendProperties DEF OnRecord
<1>2. OnRecord(more)
  <2>1. \A i \in DOMAIN more : Honest(more[i].settlement)
    BY <1>1, NewRun DEF OnRecord
  <2>2. QED
    BY <1>1, <2>1 DEF OnRecord
<1> HIDE DEF more, n
<1>3. /\ more[n + 1].decision = d /\ more[n + 1].settlement = Unsettled
      /\ Unsettled.settled = FALSE /\ Unsettled.outcome = "none" /\ Unsettled.measured = {}
  BY <1>1 DEF Run, Unsettled
<1>4. TradesOf(more) = TradesOf(rs) \cup {i \in {n + 1} : d.traded}
  BY <1>1, <1>3 DEF TradesOf
<1>5. SettledOf(more) = SettledOf(rs)
  BY <1>1, <1>3, <1>4 DEF SettledOf, TradesOf
<1>6. SettledOf(rs) \subseteq 1..n /\ TradesOf(rs) \subseteq 1..n /\ n + 1 \notin TradesOf(rs)
  BY <1>1 DEF SettledOf, TradesOf
<1>7. WinsOf(more) = WinsOf(rs)
  BY <1>1, <1>5, <1>6 DEF WinsOf
<1>8. NetPnl(more) = NetPnl(rs)
  <2>1. [i \in SettledOf(more) |-> more[i].settlement.pnl]
        = [i \in SettledOf(rs) |-> rs[i].settlement.pnl]
    BY <1>1, <1>5, <1>6
  <2>2. QED
    BY <2>1 DEF NetPnl
<1>9. Significant(more) = Significant(rs)
  <2>1. [i \in SettledOf(more) |-> more[i].decision.price]
        = [i \in SettledOf(rs) |-> rs[i].decision.price]
    BY <1>1, <1>5, <1>6
  <2>2. QED
    BY <1>5, <1>7, <2>1 DEF Significant
<1>10. BeatsMarketForecast(more) = BeatsMarketForecast(rs)
  <2>1. Forecasts(more) = Forecasts(rs) /\ Forecasts(rs) \subseteq 1..n
    BY <1>1, <1>3 DEF Forecasts
  <2>2. \A i \in Forecasts(rs) : more[i] = rs[i]
    BY <1>1, <2>1
  <2>3. QED
    BY <2>1, <2>2 DEF BeatsMarketForecast, SquaredError
<1>11. IsFiniteSet(TradesOf(rs)) /\ IsFiniteSet(TradesOf(more))
  <2>1. TradesOf(rs) \subseteq DOMAIN rs /\ TradesOf(more) \subseteq DOMAIN more
    BY DEF TradesOf
  <2>2. QED
    BY <1>2, <2>1, RecordFigures, FS_Subset
<1>12. Errors(more) = Errors(rs)
  <2> DEFINE e  == [i \in TradesOf(rs) |-> MeasuredError(rs[i].settlement)]
             e2 == [i \in TradesOf(more) |-> MeasuredError(more[i].settlement)]
  <2>1. Errors(rs) = SumFunctionOnSet(e, TradesOf(rs))
        /\ Errors(more) = SumFunctionOnSet(e2, TradesOf(more))
    BY SumOverDomain DEF Errors
  <2>2. Whole(e, TradesOf(rs)) /\ Whole(e2, TradesOf(more))
    <3>1. TradesOf(rs) \subseteq DOMAIN rs /\ TradesOf(more) \subseteq DOMAIN more
      BY DEF TradesOf
    <3>2. QED
      BY <1>2, <3>1, RecordFigures DEF Whole
  <2>3. \A i \in TradesOf(rs) : e2[i] = e[i]
    BY <1>1, <1>4, <1>6
  <2>4. n + 1 \in TradesOf(more) => e2[n + 1] = 0
    <3>1. MeasuredError(Unsettled) = 0
      <4>1. MeasuredError(Unsettled)
            = SumFunctionOnSet([q \in Unsettled.measured |-> q.error], Unsettled.measured)
        BY SumOverDomain DEF MeasuredError
      <4>2. QED
        BY <1>3, <4>1, SumOfNone
    <3>2. QED
      BY <1>3, <3>1
  <2> HIDE DEF e, e2
  <2>5. SumFunctionOnSet(e2, TradesOf(rs)) = SumFunctionOnSet(e, TradesOf(rs))
    BY <1>11, <2>2, <2>3, SumSame
  <2>6. CASE d.traded
    <3>1. TradesOf(more) = TradesOf(rs) \cup {n + 1}
      BY <1>4, <2>6
    <3>2. Whole(e2, TradesOf(rs)) /\ e2[n + 1] = 0 /\ e2[n + 1] \in Int
      BY <2>2, <2>4, <3>1 DEF Whole
    <3>3. SumFunctionOnSet(e2, TradesOf(more)) = 0 + SumFunctionOnSet(e2, TradesOf(rs))
      BY <1>6, <1>11, <3>1, <3>2, SumGains
    <3>4. SumFunctionOnSet(e, TradesOf(rs)) \in Int
      BY <1>11, <2>2, SumOfSubset
    <3>5. QED
      BY <2>1, <2>5, <3>3, <3>4
  <2>7. CASE ~d.traded
    <3>1. TradesOf(more) = TradesOf(rs)
      BY <1>4, <2>7
    <3>2. QED
      BY <2>1, <2>5, <3>1
  <2>8. QED
    BY <2>6, <2>7
<1>13. /\ Staked(rs, TradesOf(rs)) <= Staked(more, TradesOf(more))
       /\ Staked(rs, TradesOf(rs)) \in Nat /\ Staked(more, TradesOf(more)) \in Nat
  <2> DEFINE c  == [i \in TradesOf(rs) |-> rs[i].decision.cost]
             c2 == [i \in TradesOf(more) |-> more[i].decision.cost]
  <2>1. Staked(rs, TradesOf(rs)) = SumFunctionOnSet(c, TradesOf(rs))
        /\ Staked(more, TradesOf(more)) = SumFunctionOnSet(c2, TradesOf(more))
    BY SumOverDomain DEF Staked
  <2>2. (\A i \in TradesOf(rs) : c[i] \in Nat) /\ \A i \in TradesOf(more) : c2[i] \in Nat
    <3>1. TradesOf(rs) \subseteq DOMAIN rs /\ TradesOf(more) \subseteq DOMAIN more
      BY DEF TradesOf
    <3>2. QED
      BY <1>2, <3>1, RecordFigures
  <2>3. \A i \in TradesOf(rs) : c2[i] = c[i]
    BY <1>1, <1>4, <1>6
  <2>4. TradesOf(rs) \in SUBSET TradesOf(more)
    BY <1>4
  <2> HIDE DEF c, c2
  <2>5. Whole(c, TradesOf(rs))
    BY <2>2 DEF Whole
  <2>6. SumFunctionOnSet(c2, TradesOf(rs)) = SumFunctionOnSet(c, TradesOf(rs))
    BY <1>11, <2>3, <2>5, SumSame
  <2>7. /\ SumFunctionOnSet(c2, TradesOf(rs)) \in Nat /\ SumFunctionOnSet(c2, TradesOf(more)) \in Nat
        /\ SumFunctionOnSet(c2, TradesOf(rs)) <= SumFunctionOnSet(c2, TradesOf(more))
    BY <1>11, <2>2, <2>4, SumGrows
  <2>8. QED
    BY <2>1, <2>6, <2>7
<1>14. QED
  BY <1>5, <1>7, <1>8, <1>9, <1>10, <1>12, <1>13 DEF more

\* The return asked for on a smaller stake is no more than on a larger one, as
\* long as something was earned.
LEMMA ReturnOnLess ==
    ASSUME NEW net \in Int, net > 0, NEW roi \in Int, NEW a \in Nat, NEW b \in Nat,
           a <= b, 100 * net >= roi * b
    PROVE  100 * net >= roi * a
<1>1. CASE roi >= 0
  <2>1. PICK r \in Nat : r = roi
    BY <1>1
  <2>2. r * a <= r * b /\ r * a \in Nat /\ r * b \in Nat
    BY FactorGrows
  <2>3. QED
    BY <2>1, <2>2
<1>2. CASE roi < 0
  <2>1. PICK r \in Nat : roi = -r
    BY <1>2
  <2>2. r * a \in Nat /\ roi * a = -(r * a)
    BY <2>1, FactorGrows
  <2>3. QED
    BY <2>2
<1>3. QED
  BY <1>1, <1>2

LEMMA RecordImplies == RecordInv => RecordPromotesOnlyResults
<1> SUFFICES ASSUME RecordInv PROVE RecordPromotesOnlyResults
  OBVIOUS
<1>0. OnRecord(runs)
  BY DEF RecordInv, OnRecord
<1>1. \A i \in DOMAIN runs : \A q \in runs[i].settlement.measured : q.error < 0 <=> q.filling = {}
  BY DEF RecordInv, Honest
<1>2. NetPnl(runs) \in Int
  <2> DEFINE f == [i \in SettledOf(runs) |-> runs[i].settlement.pnl]
  <2>1. SettledOf(runs) \subseteq DOMAIN runs
    BY DEF SettledOf, TradesOf
  <2>2. IsFiniteSet(SettledOf(runs)) /\ Whole(f, SettledOf(runs))
    BY <1>0, <2>1, RecordFigures, FS_Subset DEF Whole
  <2>3. NetPnl(runs) = SumFunctionOnSet(f, SettledOf(runs))
    BY SumOverDomain DEF NetPnl
  <2> HIDE DEF f
  <2>4. QED
    BY <2>2, <2>3, SumOfSubset
<1>3. PaperBar.minRoi \in Int
  BY RecordAssumption
<1>4. ASSUME NEW d \in Tickets, PromotionApproved(Append(runs, Run(d)))
      PROVE  PromotionApproved(runs)
  <2> DEFINE more == Append(runs, Run(d))
  <2> HIDE DEF more
  <2>1. /\ SettledOf(more) = SettledOf(runs) /\ NetPnl(more) = NetPnl(runs)
        /\ Errors(more) = Errors(runs) /\ Significant(more) = Significant(runs)
        /\ BeatsMarketForecast(more) = BeatsMarketForecast(runs)
        /\ Staked(runs, TradesOf(runs)) <= Staked(more, TradesOf(more))
        /\ Staked(runs, TradesOf(runs)) \in Nat /\ Staked(more, TradesOf(more)) \in Nat
    BY <1>0, OpenTrade DEF more
  <2>2. PromotionApproved(more)
    BY <1>4 DEF more
  <2>3. /\ NetPnl(runs) > 0
        /\ 100 * NetPnl(runs) >= PaperBar.minRoi * Staked(more, TradesOf(more))
    BY <2>1, <2>2 DEF PromotionApproved
  <2>4. 100 * NetPnl(runs) >= PaperBar.minRoi * Staked(runs, TradesOf(runs))
    BY <1>2, <1>3, <2>1, <2>3, ReturnOnLess
  <2>5. QED
    BY <2>1, <2>2, <2>3, <2>4 DEF PromotionApproved, SimulationIsOptimistic
<1>5. ASSUME PromotionApproved(runs)
      PROVE  100 * NetPnl(runs) >= PaperBar.minRoi * Staked(runs, SettledOf(runs))
  <2> DEFINE c == [i \in TradesOf(runs) |-> runs[i].decision.cost]
             s == [i \in SettledOf(runs) |-> runs[i].decision.cost]
  <2>1. /\ TradesOf(runs) \subseteq DOMAIN runs /\ SettledOf(runs) \in SUBSET TradesOf(runs)
    BY DEF SettledOf, TradesOf
  <2>2. IsFiniteSet(TradesOf(runs)) /\ IsFiniteSet(SettledOf(runs))
    BY <1>0, <2>1, RecordFigures, FS_Subset
  <2>3. (\A i \in TradesOf(runs) : c[i] \in Nat) /\ (\A i \in SettledOf(runs) : s[i] = c[i])
    BY <1>0, <2>1, RecordFigures
  <2>4. Staked(runs, TradesOf(runs)) = SumFunctionOnSet(c, TradesOf(runs))
        /\ Staked(runs, SettledOf(runs)) = SumFunctionOnSet(s, SettledOf(runs))
    BY SumOverDomain DEF Staked
  <2> HIDE DEF c, s
  <2>5. Whole(c, SettledOf(runs))
    BY <2>1, <2>3 DEF Whole
  <2>6. SumFunctionOnSet(s, SettledOf(runs)) = SumFunctionOnSet(c, SettledOf(runs))
    BY <2>2, <2>3, <2>5, SumSame
  <2>7. /\ SumFunctionOnSet(c, SettledOf(runs)) \in Nat /\ SumFunctionOnSet(c, TradesOf(runs)) \in Nat
        /\ SumFunctionOnSet(c, SettledOf(runs)) <= SumFunctionOnSet(c, TradesOf(runs))
    BY <2>1, <2>2, <2>3, SumGrows
  <2>8. NetPnl(runs) > 0 /\ 100 * NetPnl(runs) >= PaperBar.minRoi * Staked(runs, TradesOf(runs))
    BY <1>5 DEF PromotionApproved
  <2>9. QED
    BY <1>2, <1>3, <2>4, <2>6, <2>7, <2>8, ReturnOnLess
<1>6. QED
  BY <1>1, <1>4, <1>5 DEF RecordPromotesOnlyResults

\* RecordPromotesOnlyResults (paper/execution.py, paper/report.py:_gate), for any
\* decisions, prints, outcomes and bars.
THEOREM Promotes == RecordSpec => []RecordPromotesOnlyResults
<1>1. RecordInit => RecordInv
  BY DEF RecordInit, RecordInv
<1>2. QED
  BY <1>1, RecordKeeps, RecordImplies, PTL DEF RecordSpec

-----------------------------------------------------------------------------
(***************************************************************************)
(* The order of the features.                                              *)
(***************************************************************************)

\* What build_graph() has made sure of.
IsGraph(g) ==
    /\ DOMAIN g \in SUBSET Nat /\ IsFiniteSet(DOMAIN g)
    /\ \A n \in DOMAIN g : g[n].deps \in SUBSET DOMAIN g /\ g[n].raws \in SUBSET Sources

\* Names one after the other, each after its dependencies and once.
Sorted(g, s) ==
    /\ s \in Seq(DOMAIN g)
    /\ \A i, j \in DOMAIN s : s[i] = s[j] => i = j
    /\ \A i \in DOMAIN s : \A d \in g[s[i]].deps : \E j \in DOMAIN s : j < i /\ s[j] = d

Ready(g, done) == {n \in DOMAIN g \ done : g[n].deps \subseteq done}
Extended(g, s) ==
    s \o IF Ready(g, Range(s)) = {} THEN <<>> ELSE <<Min(Ready(g, Range(s)))>>

LEMMA ExtendedSorted ==
    ASSUME NEW g, IsGraph(g), NEW s, Sorted(g, s)
    PROVE  Sorted(g, Extended(g, s))
<1> DEFINE ready == Ready(g, Range(s))
           N == DOMAIN g
<1>1. s \in Seq(N) /\ Len(s) \in Nat /\ DOMAIN s = 1..Len(s)
  BY DEF Sorted
<1>2. CASE ready = {}
  BY <1>1, <1>2, ConcatEmptySeq DEF Extended
<1>3. CASE ready # {}
  <2> DEFINE m == Min(ready)
             t == Append(s, m)
             n == Len(s)
  <2>1. ready \in SUBSET Int /\ IsFiniteSet(ready)
    BY FS_Subset DEF IsGraph, Ready
  <2>2. m \in ready
    <3> HIDE DEF ready
    <3>1. QED
      BY <1>3, <2>1, LeastAndGreatest
  <2>3. m \in N /\ m \notin Range(s) /\ g[m].deps \subseteq Range(s)
    BY <2>2 DEF Ready
  <2>4. Extended(g, s) = t
    BY <1>1, <1>3, <2>3, AppendIsConcat DEF Extended
  <2> HIDE DEF m, ready
  <2>5. /\ t \in Seq(N) /\ DOMAIN t = 1..(n + 1) /\ n \in Nat /\ DOMAIN s = 1..n
        /\ t[n + 1] = m /\ \A i \in 1..n : t[i] = s[i]
    BY <1>1, <2>3, AppendProperties
  <2> HIDE DEF t, n
  <2>6. \A i \in 1..n : s[i] # m
    BY <2>3, <2>5 DEF Range
  <2>7. \A i, j \in DOMAIN t : t[i] = t[j] => i = j
    <3> SUFFICES ASSUME NEW i \in 1..(n + 1), NEW j \in 1..(n + 1), t[i] = t[j] PROVE i = j
      BY <2>5
    <3>1. CASE i \in 1..n /\ j \in 1..n
      BY <2>5, <3>1 DEF Sorted
    <3>2. CASE i = n + 1 \/ j = n + 1
      BY <2>5, <2>6, <3>2
    <3>3. QED
      BY <2>5, <3>1, <3>2
  <2>8. \A i \in DOMAIN t : \A d \in g[t[i]].deps : \E j \in DOMAIN t : j < i /\ t[j] = d
    <3> SUFFICES ASSUME NEW i \in 1..(n + 1), NEW d \in g[t[i]].deps
                 PROVE  \E j \in 1..(n + 1) : j < i /\ t[j] = d
      BY <2>5
    <3>1. CASE i \in 1..n
      <4>1. d \in g[s[i]].deps
        BY <2>5, <3>1
      <4>2. PICK j \in 1..n : j < i /\ s[j] = d
        BY <2>5, <3>1, <4>1 DEF Sorted
      <4>3. QED
        BY <2>5, <4>2
    <3>2. CASE i = n + 1
      <4>1. d \in Range(s)
        BY <2>3, <2>5, <3>2
      <4>2. PICK j \in 1..n : s[j] = d
        BY <2>5, <4>1 DEF Range
      <4>3. QED
        BY <2>5, <3>2, <4>2
    <3>3. QED
      BY <2>5, <3>1, <3>2
  <2>9. QED
    BY <2>4, <2>5, <2>7, <2>8 DEF Sorted
<1>4. QED
  BY <1>2, <1>3

LEMMA OrderIsSorted ==
    ASSUME NEW g, IsGraph(g)
    PROVE  Sorted(g, TopologicalOrder(g))
<1> DEFINE n    == Cardinality(DOMAIN g)
           V    == {s \in Seq(DOMAIN g) : Sorted(g, s)}
           next == [k \in 1..n |-> [s \in V |-> Extended(g, s)]]
<1>1. n \in Nat
  BY FS_CardinalityType DEF IsGraph
<1>2. <<>> \in V
  BY DEF Sorted
<1>3. \A s \in V : Extended(g, s) \in V
  BY ExtendedSorted DEF Sorted
<1>4. next \in [1..n -> [V -> V]]
  <2> HIDE DEF V
  <2>1. QED
    BY <1>3
<1> DEFINE Is(u) == u = [k \in 0..n |-> IF k = 0 THEN <<>> ELSE Extended(g, u[k - 1])]
           order == CHOOSE u : Is(u)
<1>5. \E f : Is(f)
  <2>1. IteratedBy(V, <<>>, n, next)
    <3> HIDE DEF V, n, next
    <3>1. QED
      BY <1>1, <1>2, <1>4, IteratedFrom
  <2>2. PICK f \in [0..n -> V] : f = [k \in 0..n |-> IF k = 0 THEN <<>> ELSE next[k][f[k - 1]]]
    <3> HIDE DEF V, n, next
    <3>1. QED
      BY ONLY <2>1 DEF IteratedBy
  <2>3. \A k \in 0..n : k # 0 => next[k][f[k - 1]] = Extended(g, f[k - 1])
    <3> HIDE DEF V
    <3> SUFFICES ASSUME NEW k \in 0..n, k # 0 PROVE next[k][f[k - 1]] = Extended(g, f[k - 1])
      OBVIOUS
    <3>1. k \in 1..n /\ k - 1 \in 0..n
      BY <1>1
    <3>2. QED
      BY <3>1
  <2> HIDE DEF V, n, next
  <2>4. Is(f)
    BY <2>2, <2>3
  <2>5. QED
    BY <2>4
<1>6. Is(order)
  <2> HIDE DEF Is
  <2>1. QED
    BY <1>5
<1>7. TopologicalOrder(g) = order[n]
  BY DEF TopologicalOrder, Extended, Ready
<1> HIDE DEF order
<1>8. order[0] = <<>> /\ \A k \in 1..n : order[k] = Extended(g, order[k - 1])
  <2>1. 0 \in 0..n /\ \A k \in 1..n : k \in 0..n /\ k # 0
    BY <1>1
  <2> HIDE DEF n
  <2>2. QED
    BY ONLY <1>6, <2>1
<1> DEFINE K == {k \in Nat : order[k] \in V}
<1>9. \A k \in 0..n : k \in K
  <2> HIDE DEF V
  <2>1. 0 \in K
    BY <1>2, <1>8
  <2>2. ASSUME NEW k \in Nat, k < n, k \in K PROVE k + 1 \in K
    <3>1. k + 1 \in 1..n /\ (k + 1) - 1 = k
      BY <1>1, <2>2
    <3>2. order[k + 1] = Extended(g, order[k])
      BY <1>8, <3>1
    <3>3. QED
      BY <1>3, <2>2, <3>2
  <2> HIDE DEF K, n
  <2>3. QED
    BY <1>1, <2>1, <2>2, CountsUpTo
<1>10. QED
  BY <1>1, <1>7, <1>9

\* An order as long as the graph has every feature in it.
LEMMA OrderIsWhole ==
    ASSUME NEW g, IsGraph(g), NEW s, Sorted(g, s), Len(s) >= Cardinality(DOMAIN g)
    PROVE  /\ Len(s) = Cardinality(DOMAIN g)
           /\ \A n \in DOMAIN g : \E i \in DOMAIN s : s[i] = n
<1> DEFINE N == DOMAIN g
<1>1. s \in Seq(N) /\ Len(s) \in Nat /\ DOMAIN s = 1..Len(s)
  BY DEF Sorted
<1>2. s \in [1..Len(s) -> N]
  BY <1>1
<1>3. s \in Injection(1..Len(s), N)
  BY <1>1, <1>2 DEF Sorted, Injection, IsInjective
<1>4. IsFiniteSet(N) /\ Cardinality(N) \in Nat
  BY FS_CardinalityType DEF IsGraph
<1>5. Cardinality(1..Len(s)) = Len(s)
  <2>1. 1 \in Int /\ Len(s) \in Int
    BY <1>1
  <2>2. Cardinality(1..Len(s)) = IF 1 > Len(s) THEN 0 ELSE Len(s) - 1 + 1
    BY ONLY <2>1, FS_Interval
  <2>3. QED
    BY <1>1, <2>2
<1>6. /\ Cardinality(1..Len(s)) <= Cardinality(N)
      /\ Cardinality(1..Len(s)) = Cardinality(N) <=> s \in Surjection(1..Len(s), N)
  BY <1>3, <1>4, FS_Injection
<1>7. s \in Surjection(1..Len(s), N)
  BY <1>1, <1>4, <1>5, <1>6
<1>8. Len(s) = Cardinality(N)
  BY <1>1, <1>4, <1>5, <1>6
<1>9. QED
  BY <1>1, <1>7, <1>8 DEF Surjection

-----------------------------------------------------------------------------
(***************************************************************************)
(* What a feature reaches.                                                 *)
(***************************************************************************)

Ranked(g, r) ==
    /\ r \in [DOMAIN g -> 1..Cardinality(DOMAIN g)]
    /\ \A n \in DOMAIN g : \A d \in g[n].deps : r[d] < r[n]

Further(g, c) == [n \in DOMAIN g |-> c[n] \cup UNION {c[m] : m \in c[n]}]

\* What k doublings reach: features of a lower rank, and from the low ranks all
\* there is to reach.
Reached(g, r, k, c) ==
    /\ c \in [DOMAIN g -> SUBSET DOMAIN g]
    /\ \A n \in DOMAIN g : g[n].deps \subseteq c[n] /\ \A m \in c[n] : r[m] < r[n]
    /\ \A n \in DOMAIN g : r[n] <= k + 1 => \A m \in c[n] : c[m] \subseteq c[n]

LEMMA InFurther ==
    ASSUME NEW g, NEW c, NEW n \in DOMAIN g, NEW x
    PROVE  x \in Further(g, c)[n] <=> x \in c[n] \/ \E m \in c[n] : x \in c[m]
<1>1. Further(g, c)[n] = c[n] \cup UNION {c[m] : m \in c[n]}
  BY DEF Further
<1>2. QED
  BY <1>1

LEMMA ReachesFurther ==
    ASSUME NEW g, IsGraph(g), NEW r, Ranked(g, r), NEW k \in Nat, NEW c, Reached(g, r, k, c)
    PROVE  Reached(g, r, k + 1, Further(g, c))
<1> DEFINE N == DOMAIN g
           f == Further(g, c)
<1>1. c \in [N -> SUBSET N] /\ \A n \in N : r[n] \in Nat
  <2>1. r \in [N -> 1..Cardinality(N)]
    BY DEF Ranked
  <2>2. \A n \in N : r[n] \in Nat
    <3> SUFFICES ASSUME NEW n \in N PROVE r[n] \in Nat
      OBVIOUS
    <3>1. r[n] \in 1..Cardinality(N)
      BY <2>1
    <3>2. QED
      BY <3>1
  <2>3. QED
    BY <2>2 DEF Reached
<1>2. /\ DOMAIN f = N
      /\ \A n \in N : \A x : x \in f[n] <=> x \in c[n] \/ \E m \in c[n] : x \in c[m]
  BY InFurther DEF Further
<1>3. f = [n \in N |-> f[n]]
  BY DEF Further
<1> HIDE DEF f
<1>4. \A n \in N : c[n] \subseteq f[n] /\ f[n] \in SUBSET N
  <2> SUFFICES ASSUME NEW n \in N PROVE c[n] \subseteq f[n] /\ f[n] \subseteq N
    OBVIOUS
  <2>1. c[n] \subseteq N /\ \A m \in c[n] : c[m] \subseteq N
    BY <1>1
  <2>2. QED
    BY <1>2, <2>1
<1>5. \A n \in N : \A m \in f[n] : m \in c[n] \/ \E x \in c[n] : m \in c[x]
  BY ONLY <1>2
<1>6. \A n \in N : \A m \in c[n] : m \in N /\ r[m] < r[n]
  BY <1>1 DEF Reached
<1>7. f \in [N -> SUBSET N]
  BY <1>3, <1>4
<1>8. \A n \in N : g[n].deps \subseteq f[n] /\ \A m \in f[n] : r[m] < r[n]
  <2> SUFFICES ASSUME NEW n \in N PROVE g[n].deps \subseteq f[n] /\ \A m \in f[n] : r[m] < r[n]
    OBVIOUS
  <2>1. g[n].deps \subseteq f[n]
    BY <1>4 DEF Reached
  <2>2. ASSUME NEW m \in f[n] PROVE r[m] < r[n]
    <3>1. CASE m \in c[n]
      BY <1>6, <3>1
    <3>2. CASE \E x \in c[n] : m \in c[x]
      <4>1. PICK x \in c[n] : m \in c[x]
        BY <3>2
      <4>2. x \in N /\ m \in N /\ r[x] < r[n] /\ r[m] < r[x]
        BY <1>6, <4>1
      <4>3. r[x] \in Nat /\ r[m] \in Nat /\ r[n] \in Nat
        BY <1>1, <4>2
      <4>4. QED
        BY <4>2, <4>3
    <3>3. QED
      BY <1>5, <3>1, <3>2
  <2>3. QED
    BY <2>1, <2>2
<1>9. \A n \in N : r[n] <= k + 1 => f[n] = c[n]
  <2> SUFFICES ASSUME NEW n \in N, r[n] <= k + 1 PROVE f[n] = c[n]
    OBVIOUS
  <2>1. \A m \in c[n] : c[m] \subseteq c[n]
    BY DEF Reached
  <2>2. \A x : x \in f[n] <=> x \in c[n]
    BY <1>2, <2>1
  <2>3. QED
    BY <2>2
<1>10. ASSUME NEW n \in N, r[n] <= (k + 1) + 1, NEW m \in f[n] PROVE f[m] \subseteq f[n]
  <2>1. m \in N /\ r[m] < r[n] /\ r[m] \in Nat /\ r[n] \in Nat
    BY <1>1, <1>4, <1>8
  <2>2. r[m] <= k + 1
    BY <1>10, <2>1
  <2>3. f[m] = c[m]
    BY <1>9, <2>1, <2>2
  <2>4. CASE m \in c[n]
    BY <1>2, <2>3, <2>4
  <2>5. CASE \E x \in c[n] : m \in c[x]
    <3>1. PICK x \in c[n] : m \in c[x]
      BY <2>5
    <3>2. x \in N /\ r[x] < r[n] /\ r[x] \in Nat
      BY <1>1, <1>6, <3>1
    <3>3. r[x] <= k + 1
      BY <1>10, <2>1, <3>2
    <3>4. c[m] \subseteq c[x]
      BY <3>1, <3>2, <3>3 DEF Reached
    <3>5. c[x] \subseteq f[n]
      BY <1>2, <3>1
    <3>6. QED
      BY <2>3, <3>4, <3>5
  <2>6. QED
    BY <1>5, <2>4, <2>5
<1>11. QED
  BY <1>7, <1>8, <1>10 DEF Reached, f

LEMMA ReachesAll ==
    ASSUME NEW g, IsGraph(g), NEW r, Ranked(g, r)
    PROVE  /\ Reaches(g) \in [DOMAIN g -> SUBSET DOMAIN g]
           /\ \A n \in DOMAIN g :
                /\ g[n].deps \subseteq Reaches(g)[n] /\ n \notin Reaches(g)[n]
                /\ \A m \in Reaches(g)[n] : Reaches(g)[m] \subseteq Reaches(g)[n]
<1> DEFINE N    == DOMAIN g
           n    == Cardinality(N)
           V    == [N -> SUBSET N]
           base == [x \in N |-> g[x].deps]
           next == [k \in 1..n |-> [c \in V |-> Further(g, c)]]
<1>1. n \in Nat /\ \A x \in N : r[x] \in 1..n
  BY FS_CardinalityType DEF IsGraph, Ranked
<1>2. base \in V
  BY DEF IsGraph
<1>3. \A c \in V : Further(g, c) \in V
  <2> SUFFICES ASSUME NEW c \in V PROVE Further(g, c) \in V
    OBVIOUS
  <2>1. \A x \in N : \A m \in c[x] : m \in N /\ c[m] \subseteq N
    OBVIOUS
  <2>2. \A x \in N : \A y \in Further(g, c)[x] : y \in N
    BY <2>1, InFurther
  <2>3. Further(g, c) = [x \in N |-> Further(g, c)[x]]
    BY DEF Further
  <2>4. QED
    BY <2>2, <2>3
<1>4. next \in [1..n -> [V -> V]]
  <2> HIDE DEF V, n
  <2>1. QED
    BY <1>3
<1> DEFINE Is(u) == u = [k \in 0..n |-> IF k = 0 THEN base ELSE Further(g, u[k - 1])]
           walk == CHOOSE u : Is(u)
<1>5. \E f : Is(f)
  <2>1. IteratedBy(V, base, n, next)
    <3> HIDE DEF V, n, next, base
    <3>1. QED
      BY <1>1, <1>2, <1>4, IteratedFrom
  <2>2. PICK f \in [0..n -> V] : f = [k \in 0..n |-> IF k = 0 THEN base ELSE next[k][f[k - 1]]]
    <3> HIDE DEF V, n, next, base
    <3>1. QED
      BY ONLY <2>1 DEF IteratedBy
  <2>3. \A k \in 0..n : k # 0 => next[k][f[k - 1]] = Further(g, f[k - 1])
    <3> HIDE DEF V, n, base
    <3> SUFFICES ASSUME NEW k \in 0..n, k # 0 PROVE next[k][f[k - 1]] = Further(g, f[k - 1])
      OBVIOUS
    <3>1. k \in 1..n /\ k - 1 \in 0..n
      BY <1>1
    <3>2. QED
      BY <3>1
  <2> HIDE DEF V, n, next, base
  <2>4. Is(f)
    BY <2>2, <2>3
  <2>5. QED
    BY <2>4
<1>6. Is(walk)
  <2> HIDE DEF Is
  <2>1. QED
    BY <1>5
<1>7. Reaches(g) = walk[n]
  BY DEF Reaches, Further
<1> HIDE DEF walk
<1>8. walk[0] = base /\ \A k \in 1..n : walk[k] = Further(g, walk[k - 1])
  <2>1. 0 \in 0..n /\ \A k \in 1..n : k \in 0..n /\ k # 0
    BY <1>1
  <2> HIDE DEF n, base
  <2>2. QED
    BY ONLY <1>6, <2>1
<1>9. Reached(g, r, 0, base)
  <2>1. \A x \in N : \A m \in base[x] : m \in N /\ r[m] < r[x]
    BY DEF IsGraph, Ranked
  <2>2. \A x \in N : r[x] <= 0 + 1 => base[x] = {}
    <3> SUFFICES ASSUME NEW x \in N, r[x] <= 1, NEW m \in base[x] PROVE FALSE
      OBVIOUS
    <3>1. m \in N /\ r[m] < r[x]
      BY <2>1
    <3>2. r[m] >= 1 /\ r[m] \in Int /\ r[x] \in Int
      BY <1>1, <3>1
    <3>3. QED
      BY <3>1, <3>2
  <2>3. \A x \in N : base[x] = g[x].deps
    OBVIOUS
  <2> HIDE DEF base
  <2>4. QED
    BY <1>2, <2>1, <2>2, <2>3 DEF Reached
<1> DEFINE K == {k \in Nat : Reached(g, r, k, walk[k])}
<1>10. \A k \in 0..n : k \in K
  <2>1. 0 \in K
    BY <1>8, <1>9
  <2>2. ASSUME NEW k \in Nat, k < n, k \in K PROVE k + 1 \in K
    <3>1. k + 1 \in 1..n /\ (k + 1) - 1 = k
      BY <1>1, <2>2
    <3>2. walk[k + 1] = Further(g, walk[k])
      BY <1>8, <3>1
    <3>3. Reached(g, r, k + 1, Further(g, walk[k]))
      BY <2>2, ReachesFurther
    <3>4. QED
      BY <3>2, <3>3
  <2> HIDE DEF K, n
  <2>3. QED
    BY <1>1, <2>1, <2>2, CountsUpTo
<1>11. Reached(g, r, n, walk[n])
  BY <1>1, <1>10
<1>12. \A x \in N : r[x] <= n + 1 /\ ~(r[x] < r[x])
  BY <1>1
<1> HIDE DEF n
<1>13. QED
  BY <1>7, <1>11, <1>12 DEF Reached

-----------------------------------------------------------------------------
(***************************************************************************)
(* A declaration that was not refused.                                     *)
(***************************************************************************)

Complete(g, s) ==
    /\ Sorted(g, s)
    /\ DOMAIN s = 1..Cardinality(DOMAIN g)
    /\ \A n \in DOMAIN g : \E i \in DOMAIN s : s[i] = n

IsBuilt(g) == IsGraph(g) /\ Complete(g, TopologicalOrder(g))

LEMMA Built ==
    ASSUME DeclarationAssumption, NEW list \in Declarations, ~BuildRefused(list)
    PROVE  IsBuilt(ByName(list))
<1> DEFINE g == ByName(list)
           N == NamesOf(list)
           S == {list[i] : i \in DOMAIN list}
           nameOf == [i \in DOMAIN list |-> list[i].name]
           s == TopologicalOrder(g)
<1>1. list \in Seq(S) /\ Len(list) \in Nat /\ DOMAIN list = 1..Len(list)
  <2>1. list \in Seq(S)
    BY DEF DeclarationAssumption
  <2> HIDE DEF S
  <2>2. QED
    BY <2>1
<1>2. \A i \in DOMAIN list : list[i].name \in Nat /\ list[i].raws \subseteq Sources
  BY DEF DeclarationAssumption
<1>3. IsFiniteSet(DOMAIN list) /\ Cardinality(DOMAIN list) = Len(list)
  <2>1. 1 \in Int /\ Len(list) \in Int
    BY <1>1
  <2>2. /\ IsFiniteSet(1..Len(list))
        /\ Cardinality(1..Len(list)) = IF 1 > Len(list) THEN 0 ELSE Len(list) - 1 + 1
    BY ONLY <2>1, FS_Interval
  <2>3. QED
    BY <1>1, <2>2
<1>4. IsFiniteSet(N) /\ Cardinality(N) <= Len(list) /\ Cardinality(N) \in Nat
  <2>1. nameOf \in Surjection(DOMAIN list, N)
    BY DEF NamesOf, Surjection
  <2>2. IsFiniteSet(N) /\ Cardinality(N) <= Cardinality(DOMAIN list)
    <3> HIDE DEF N, nameOf
    <3>1. QED
      BY <1>3, <2>1, FS_Surjection
  <2>3. QED
    BY <1>3, <2>2, FS_CardinalityType
<1>5. DOMAIN g = N /\ \A n \in N : \E i \in DOMAIN list : g[n] = list[i] /\ list[i].name = n
  BY DEF ByName, NamesOf
<1>6. \A i \in DOMAIN list : list[i].deps \in SUBSET N
  BY DEF BuildRefused
<1>7. IsGraph(g)
  <2>1. N \in SUBSET Nat
    BY <1>2 DEF NamesOf
  <2> HIDE DEF g, N
  <2>2. \A n \in N : g[n].deps \in SUBSET N /\ g[n].raws \in SUBSET Sources
    BY <1>2, <1>5, <1>6
  <2>3. QED
    BY <1>4, <1>5, <2>1, <2>2 DEF IsGraph
<1>8. Sorted(g, s)
  BY <1>7, OrderIsSorted
<1>9. Len(s) \in Nat /\ Len(s) >= Len(list)
  <2>1. Len(s) \in Nat
    <3> HIDE DEF g
    <3>1. QED
      BY <1>8 DEF Sorted
  <2>2. ~(Len(s) < Len(list))
    BY DEF BuildRefused
  <2>3. QED
    BY <1>1, <2>1, <2>2
<1> HIDE DEF g, N, s
<1>10. Len(s) >= Cardinality(DOMAIN g)
  BY <1>1, <1>4, <1>5, <1>9
<1>11. /\ Len(s) = Cardinality(DOMAIN g)
       /\ \A n \in DOMAIN g : \E i \in DOMAIN s : s[i] = n
  BY <1>7, <1>8, <1>10, OrderIsWhole
<1>12. DOMAIN s = 1..Len(s)
  BY <1>8 DEF Sorted
<1>13. Complete(g, s)
  BY <1>8, <1>11, <1>12 DEF Complete
<1>14. QED
  BY <1>7, <1>13 DEF IsBuilt, g, s

LEMMA InPlace ==
    ASSUME NEW g, NEW s, Complete(g, s)
    PROVE  /\ Len(s) \in Nat /\ DOMAIN s = 1..Len(s)
           /\ \A i, j \in DOMAIN s : s[i] = s[j] => i = j
           /\ \A i \in DOMAIN s : s[i] \in DOMAIN g
<1>1. s \in Seq(DOMAIN g) /\ \A i, j \in DOMAIN s : s[i] = s[j] => i = j
  BY DEF Complete, Sorted
<1>2. Len(s) \in Nat /\ DOMAIN s = 1..Len(s)
  BY <1>1
<1>3. \A i \in DOMAIN s : s[i] \in DOMAIN g
  BY <1>1
<1>4. QED
  BY <1>1, <1>2, <1>3

\* A feature's place in the order ranks it.
LEMMA Places ==
    ASSUME NEW g, IsGraph(g), NEW s, Complete(g, s)
    PROVE  \E r : /\ Ranked(g, r)
                  /\ \A i \in DOMAIN s : r[s[i]] = i
                  /\ \A n \in DOMAIN g : r[n] \in DOMAIN s /\ s[r[n]] = n
<1> DEFINE N == DOMAIN g
           r == [n \in N |-> CHOOSE i \in DOMAIN s : s[i] = n]
<1>1. \A n \in N : r[n] \in DOMAIN s /\ s[r[n]] = n
  <2> SUFFICES ASSUME NEW n \in N PROVE r[n] \in DOMAIN s /\ s[r[n]] = n
    OBVIOUS
  <2>1. \E i \in DOMAIN s : s[i] = n
    BY DEF Complete
  <2>2. QED
    BY <2>1
<1>2. r = [n \in N |-> r[n]]
  OBVIOUS
<1> HIDE DEF r
<1>3. /\ \A i \in DOMAIN s : s[i] \in N
      /\ \A i, j \in DOMAIN s : s[i] = s[j] => i = j
  BY ONLY Complete(g, s), InPlace
<1>4. ASSUME NEW i \in DOMAIN s PROVE r[s[i]] = i
  <2>1. r[s[i]] \in DOMAIN s /\ s[r[s[i]]] = s[i]
    BY <1>1, <1>3
  <2>2. QED
    BY <1>3, <2>1
<1>5. ASSUME NEW n \in N, NEW d \in g[n].deps PROVE r[d] < r[n]
  <2>1. r[n] \in DOMAIN s /\ s[r[n]] = n
    BY <1>1
  <2>2. PICK j \in DOMAIN s : j < r[n] /\ s[j] = d
    BY <2>1 DEF Complete, Sorted
  <2>3. QED
    BY <1>4, <2>2
<1>6. Ranked(g, r)
  BY <1>1, <1>2, <1>5 DEF Ranked, Complete
<1>7. QED
  BY <1>1, <1>4, <1>6

-----------------------------------------------------------------------------
(***************************************************************************)
(* Filling in the features one by one: what a place of the order holds at  *)
(* the end is what it was given at its turn, out of what its dependencies  *)
(* hold at the end.                                                        *)
(***************************************************************************)

\* c[k] is c[k - 1] but for the k-th feature.
FilledIn(N, s, c) ==
    /\ \A k \in {0} \cup DOMAIN s : c[k] = [n \in N |-> c[k][n]]
    /\ \A k \in DOMAIN s : \A n \in N \ {s[k]} : c[k][n] = c[k - 1][n]

Turns(N, s, m) ==
    /\ DOMAIN s = 1..m
    /\ \A i, j \in 1..m : s[i] = s[j] => i = j
    /\ \A i \in 1..m : s[i] \in N

Given(s, m, c) ==
    \A i \in 1..m : \A k \in 0..m :
      c[k][s[i]] = IF k < i THEN c[0][s[i]] ELSE c[i][s[i]]

LEMMA GivenOnce ==
    ASSUME NEW N, NEW m \in Nat, NEW s, Turns(N, s, m), NEW c, FilledIn(N, s, c)
    PROVE  Given(s, m, c)
<1> SUFFICES ASSUME NEW i \in 1..m
             PROVE  \A k \in 0..m : c[k][s[i]] = IF k < i THEN c[0][s[i]] ELSE c[i][s[i]]
  BY DEF Given
<1> USE DEF Turns
<1> DEFINE K == {k \in Nat : c[k][s[i]] = IF k < i THEN c[0][s[i]] ELSE c[i][s[i]]}
<1>1. 0 \in K
  OBVIOUS
<1>2. ASSUME NEW k \in Nat, k < m, k \in K PROVE k + 1 \in K
  <2>1. k + 1 \in 1..m /\ (k + 1) - 1 = k
    BY <1>2
  <2>2. CASE k + 1 = i
    BY <2>1, <2>2
  <2>3. CASE k + 1 # i
    <3>1. s[i] \in N \ {s[k + 1]}
      BY <2>1, <2>3
    <3>2. c[k + 1][s[i]] = c[k][s[i]]
      BY <2>1, <3>1 DEF FilledIn
    <3>3. k + 1 < i <=> k < i
      BY <2>3
    <3>4. QED
      BY <1>2, <3>2, <3>3
  <2>4. QED
    BY <2>2, <2>3
<1> HIDE DEF K
<1>3. \A k \in 0..m : k \in K
  BY <1>1, <1>2, CountsUpTo
<1>4. QED
  BY <1>3 DEF K

\* What the k-th turn reads of the features before it is what they end with.
LEMMA ReadsTheEnd ==
    ASSUME NEW g, IsGraph(g), NEW s, Complete(g, s), NEW c, FilledIn(DOMAIN g, s, c)
    PROVE  \A k \in DOMAIN s :
             /\ c[Len(s)][s[k]] = c[k][s[k]] /\ c[k - 1][s[k]] = c[0][s[k]]
             /\ \A d \in g[s[k]].deps : c[k - 1][d] = c[Len(s)][d]
<1> DEFINE N == DOMAIN g
           m == Len(s)
<1>1. m \in Nat /\ Turns(N, s, m) /\ DOMAIN s = 1..m
  BY InPlace DEF Turns
<1> HIDE DEF m
<1>2. Given(s, m, c)
  BY <1>1, GivenOnce
<1> SUFFICES ASSUME NEW k \in 1..m
             PROVE  /\ c[m][s[k]] = c[k][s[k]] /\ c[k - 1][s[k]] = c[0][s[k]]
                    /\ \A d \in g[s[k]].deps : c[k - 1][d] = c[m][d]
  BY <1>1 DEF m
<1>3. k - 1 \in 0..m /\ k - 1 < k /\ m \in 0..m /\ ~(m < k)
  BY <1>1
<1>4. c[m][s[k]] = c[k][s[k]] /\ c[k - 1][s[k]] = c[0][s[k]]
  BY <1>2, <1>3 DEF Given
<1>5. ASSUME NEW d \in g[s[k]].deps PROVE c[k - 1][d] = c[m][d]
  <2>1. PICK j \in 1..m : j < k /\ s[j] = d
    BY <1>1 DEF Complete, Sorted
  <2>2. ~(k - 1 < j) /\ ~(m < j)
    BY <1>1, <2>1
  <2>3. QED
    BY <1>2, <1>3, <2>1, <2>2 DEF Given
<1>6. QED
  BY <1>4, <1>5

-----------------------------------------------------------------------------
(***************************************************************************)
(* The sources a feature depends on, and a pass.                           *)
(***************************************************************************)

\* One turn of each.
Found(g, s, k, c) ==
    [c EXCEPT ![s[k]] = g[s[k]].raws \cup UNION {c[d] : d \in g[s[k]].deps}]
Evaluated(g, A, reading, old, s, k, c) ==
    IF s[k] \notin A THEN c
    ELSE [c EXCEPT ![s[k]] = Evaluate(g[s[k]], reading, c, old)]

LEMMA SourcesAreFound ==
    ASSUME NEW g, IsBuilt(g)
    PROVE  \E c : /\ FilledIn(DOMAIN g, TopologicalOrder(g), c)
                  /\ c[0] = [n \in DOMAIN g |-> {}]
                  /\ \A k \in DOMAIN TopologicalOrder(g) :
                       c[k] = Found(g, TopologicalOrder(g), k, c[k - 1])
                  /\ SourcesOf(g) = c[Len(TopologicalOrder(g))]
<1> DEFINE N == DOMAIN g
           s == TopologicalOrder(g)
           m == Len(s)
           base == [n \in DOMAIN g |-> {}]
           Upto(k, u) == u = [j \in 0..k |-> IF j = 0 THEN base ELSE Found(g, s, j, u[j - 1])]
           c == CHOOSE u : Upto(m, u)
<1>1. m \in Nat /\ DOMAIN s = 1..m /\ \A i \in DOMAIN s : s[i] \in N
  BY InPlace DEF IsBuilt
<1>2. base = [n \in N |-> base[n]]
  OBVIOUS
<1>3. SourcesOf(g) = c[m]
  BY DEF SourcesOf, Found
<1> HIDE DEF s, m, base
<1> DEFINE K == {k \in Nat : \E u : Upto(k, u)}
<1>4. \A k \in 0..m : k \in K
  <2>1. 0 \in K
    <3>1. Upto(0, [j \in 0..0 |-> base])
      OBVIOUS
    <3>2. QED
      BY <3>1
  <2>2. ASSUME NEW k \in Nat, k < m, k \in K PROVE k + 1 \in K
    <3>1. PICK u : Upto(k, u)
      BY <2>2
    <3> DEFINE w == [j \in 0..(k + 1) |->
                       IF j <= k THEN u[j] ELSE Found(g, s, k + 1, u[k])]
    <3>2. /\ u[0] = base
          /\ \A j \in 1..k : u[j] = Found(g, s, j, u[j - 1])
      BY <3>1
    <3>3. /\ \A j \in 0..k : w[j] = u[j]
          /\ w[k + 1] = Found(g, s, k + 1, u[k])
      OBVIOUS
    <3>4. w = [j \in 0..(k + 1) |-> w[j]]
      OBVIOUS
    <3> HIDE DEF w
    <3>5. ASSUME NEW j \in 0..(k + 1)
          PROVE  w[j] = IF j = 0 THEN base ELSE Found(g, s, j, w[j - 1])
      <4>1. CASE j = 0
        BY <3>2, <3>3, <4>1
      <4>2. CASE j \in 1..k
        <5>1. j \in 0..k /\ j - 1 \in 0..k /\ j # 0
          BY <4>2
        <5>2. w[j] = u[j] /\ w[j - 1] = u[j - 1]
          BY <3>3, <5>1
        <5>3. QED
          BY <3>2, <4>2, <5>1, <5>2
      <4>3. CASE j = k + 1
        <5>1. j # 0 /\ j - 1 = k /\ k \in 0..k
          BY <4>3
        <5>2. w[j - 1] = u[k]
          BY <3>3, <5>1
        <5>3. QED
          BY <3>3, <4>3, <5>1, <5>2
      <4>4. QED
        BY <4>1, <4>2, <4>3
    <3>6. Upto(k + 1, w)
      BY <3>4, <3>5
    <3>7. QED
      BY <3>6
  <2> HIDE DEF K
  <2>3. QED
    BY <1>1, <2>1, <2>2, CountsUpTo
<1>5. Upto(m, c)
  <2>1. \E u : Upto(m, u)
    <3>1. m \in K
      BY <1>1, <1>4
    <3>2. QED
      BY <3>1
  <2> HIDE DEF Upto
  <2>2. QED
    BY <2>1
<1> HIDE DEF c, K
<1>6. /\ c[0] = base
      /\ \A k \in 1..m : c[k] = Found(g, s, k, c[k - 1])
  <2>1. 0 \in 0..m /\ \A k \in 1..m : k \in 0..m /\ k # 0
    BY <1>1
  <2>2. QED
    BY ONLY <1>5, <2>1
<1> DEFINE J == {k \in Nat : c[k] = [n \in N |-> c[k][n]]}
<1>7. \A k \in 0..m : k \in J
  <2>1. 0 \in J
    BY <1>2, <1>6
  <2>2. ASSUME NEW k \in Nat, k < m, k \in J PROVE k + 1 \in J
    <3>1. k + 1 \in 1..m /\ (k + 1) - 1 = k
      BY <1>1, <2>2
    <3>2. c[k + 1] = Found(g, s, k + 1, c[k])
      BY <1>6, <3>1
    <3>3. QED
      BY <2>2, <3>2 DEF Found
  <2> HIDE DEF J
  <2>3. QED
    BY <1>1, <2>1, <2>2, CountsUpTo
<1>8. \A k \in {0} \cup DOMAIN s : c[k] = [n \in N |-> c[k][n]]
  <2>1. \A k \in {0} \cup DOMAIN s : k \in 0..m
    BY <1>1
  <2>2. QED
    BY <1>7, <2>1
<1>9. ASSUME NEW k \in DOMAIN s, NEW n \in N \ {s[k]} PROVE c[k][n] = c[k - 1][n]
  <2>1. c[k] = Found(g, s, k, c[k - 1])
    BY <1>1, <1>6
  <2>2. k - 1 \in 0..m
    BY <1>1
  <2>3. c[k - 1] = [x \in N |-> c[k - 1][x]]
    BY <1>7, <2>2
  <2>4. QED
    BY <2>1, <2>3 DEF Found
<1>10. FilledIn(N, s, c)
  BY <1>8, <1>9 DEF FilledIn
<1>11. QED
  BY <1>1, <1>3, <1>6, <1>10 DEF s, m, base

LEMMA PassIsWalked ==
    ASSUME NEW g, IsBuilt(g), NEW A, NEW reading, NEW old, NEW held,
           held = [n \in DOMAIN g |-> held[n]]
    PROVE  \E c : /\ FilledIn(DOMAIN g, TopologicalOrder(g), c)
                  /\ c[0] = held
                  /\ \A k \in DOMAIN TopologicalOrder(g) :
                       c[k] = Evaluated(g, A, reading, old, TopologicalOrder(g), k, c[k - 1])
                  /\ Pass(g, A, reading, held, old) = c[Len(TopologicalOrder(g))]
<1> DEFINE N == DOMAIN g
           s == TopologicalOrder(g)
           m == Len(s)
           Upto(k, u) == u = [j \in 0..k |-> IF j = 0 THEN held ELSE Evaluated(g, A, reading, old, s, j, u[j - 1])]
           c == CHOOSE u : Upto(m, u)
<1>1. m \in Nat /\ DOMAIN s = 1..m /\ \A i \in DOMAIN s : s[i] \in N
  BY InPlace DEF IsBuilt
<1>2. held = [n \in N |-> held[n]]
  OBVIOUS
<1>3. Pass(g, A, reading, held, old) = c[m]
  BY DEF Pass, Evaluated
<1> HIDE DEF s, m
<1> DEFINE K == {k \in Nat : \E u : Upto(k, u)}
<1>4. \A k \in 0..m : k \in K
  <2>1. 0 \in K
    <3>1. Upto(0, [j \in 0..0 |-> held])
      OBVIOUS
    <3>2. QED
      BY <3>1
  <2>2. ASSUME NEW k \in Nat, k < m, k \in K PROVE k + 1 \in K
    <3>1. PICK u : Upto(k, u)
      BY <2>2
    <3> DEFINE w == [j \in 0..(k + 1) |->
                       IF j <= k THEN u[j] ELSE Evaluated(g, A, reading, old, s, k + 1, u[k])]
    <3>2. /\ u[0] = held
          /\ \A j \in 1..k : u[j] = Evaluated(g, A, reading, old, s, j, u[j - 1])
      BY <3>1
    <3>3. /\ \A j \in 0..k : w[j] = u[j]
          /\ w[k + 1] = Evaluated(g, A, reading, old, s, k + 1, u[k])
      OBVIOUS
    <3>4. w = [j \in 0..(k + 1) |-> w[j]]
      OBVIOUS
    <3> HIDE DEF w
    <3>5. ASSUME NEW j \in 0..(k + 1)
          PROVE  w[j] = IF j = 0 THEN held ELSE Evaluated(g, A, reading, old, s, j, w[j - 1])
      <4>1. CASE j = 0
        BY <3>2, <3>3, <4>1
      <4>2. CASE j \in 1..k
        <5>1. j \in 0..k /\ j - 1 \in 0..k /\ j # 0
          BY <4>2
        <5>2. w[j] = u[j] /\ w[j - 1] = u[j - 1]
          BY <3>3, <5>1
        <5>3. QED
          BY <3>2, <4>2, <5>1, <5>2
      <4>3. CASE j = k + 1
        <5>1. j # 0 /\ j - 1 = k /\ k \in 0..k
          BY <4>3
        <5>2. w[j - 1] = u[k]
          BY <3>3, <5>1
        <5>3. QED
          BY <3>3, <4>3, <5>1, <5>2
      <4>4. QED
        BY <4>1, <4>2, <4>3
    <3>6. Upto(k + 1, w)
      BY <3>4, <3>5
    <3>7. QED
      BY <3>6
  <2> HIDE DEF K
  <2>3. QED
    BY <1>1, <2>1, <2>2, CountsUpTo
<1>5. Upto(m, c)
  <2>1. \E u : Upto(m, u)
    <3>1. m \in K
      BY <1>1, <1>4
    <3>2. QED
      BY <3>1
  <2> HIDE DEF Upto
  <2>2. QED
    BY <2>1
<1> HIDE DEF c, K
<1>6. /\ c[0] = held
      /\ \A k \in 1..m : c[k] = Evaluated(g, A, reading, old, s, k, c[k - 1])
  <2>1. 0 \in 0..m /\ \A k \in 1..m : k \in 0..m /\ k # 0
    BY <1>1
  <2>2. QED
    BY ONLY <1>5, <2>1
<1> DEFINE J == {k \in Nat : c[k] = [n \in N |-> c[k][n]]}
<1>7. \A k \in 0..m : k \in J
  <2>1. 0 \in J
    BY <1>2, <1>6
  <2>2. ASSUME NEW k \in Nat, k < m, k \in J PROVE k + 1 \in J
    <3>1. k + 1 \in 1..m /\ (k + 1) - 1 = k
      BY <1>1, <2>2
    <3>2. c[k + 1] = Evaluated(g, A, reading, old, s, k + 1, c[k])
      BY <1>6, <3>1
    <3>3. QED
      BY <2>2, <3>2 DEF Evaluated
  <2> HIDE DEF J
  <2>3. QED
    BY <1>1, <2>1, <2>2, CountsUpTo
<1>8. \A k \in {0} \cup DOMAIN s : c[k] = [n \in N |-> c[k][n]]
  <2>1. \A k \in {0} \cup DOMAIN s : k \in 0..m
    BY <1>1
  <2>2. QED
    BY <1>7, <2>1
<1>9. ASSUME NEW k \in DOMAIN s, NEW n \in N \ {s[k]} PROVE c[k][n] = c[k - 1][n]
  <2>1. c[k] = Evaluated(g, A, reading, old, s, k, c[k - 1])
    BY <1>1, <1>6
  <2>2. k - 1 \in 0..m
    BY <1>1
  <2>3. c[k - 1] = [x \in N |-> c[k - 1][x]]
    BY <1>7, <2>2
  <2>4. QED
    BY <2>1, <2>3 DEF Evaluated
<1>10. FilledIn(N, s, c)
  BY <1>8, <1>9 DEF FilledIn
<1>11. QED
  BY <1>1, <1>3, <1>6, <1>10 DEF s, m

\* A feature depends on its own sources and on those of its dependencies.
LEMMA SourcesAreInherited ==
    ASSUME NEW g, IsBuilt(g), NEW n \in DOMAIN g
    PROVE  /\ g[n].raws \subseteq SourcesOf(g)[n]
           /\ \A d \in g[n].deps : SourcesOf(g)[d] \subseteq SourcesOf(g)[n]
<1> DEFINE s == TopologicalOrder(g)
           v == SourcesOf(g)
<1>1. IsGraph(g) /\ Complete(g, s)
  BY DEF IsBuilt
<1>2. PICK c : /\ FilledIn(DOMAIN g, s, c)
               /\ \A k \in DOMAIN s : c[k] = Found(g, s, k, c[k - 1])
               /\ v = c[Len(s)]
               /\ c[0] = [x \in DOMAIN g |-> {}]
  BY SourcesAreFound
<1> HIDE DEF s, v
<1>3. PICK k \in DOMAIN s : s[k] = n
  BY <1>1 DEF Complete
<1>4. v[n] = c[k][n] /\ \A d \in g[n].deps : c[k - 1][d] = v[d]
  BY <1>1, <1>2, <1>3, ReadsTheEnd
<1>5. c[k - 1] = [x \in DOMAIN g |-> c[k - 1][x]]
  <2>1. k - 1 \in {0} \cup DOMAIN s
    BY <1>1, InPlace
  <2>2. QED
    BY <1>2, <2>1 DEF FilledIn
<1>6. c[k][n] = g[n].raws \cup UNION {c[k - 1][d] : d \in g[n].deps}
  <2> DEFINE own == g[n].raws \cup UNION {c[k - 1][d] : d \in g[n].deps}
  <2>1. c[k] = Found(g, s, k, c[k - 1])
    BY <1>2
  <2>2. c[k] = [c[k - 1] EXCEPT ![n] = own]
    BY ONLY <1>3, <2>1 DEF Found
  <2> HIDE DEF own
  <2>3. c[k][n] = own
    BY <1>5, <2>2
  <2>4. QED
    BY <2>3 DEF own
<1>7. g[n].raws \subseteq v[n]
  BY <1>4, <1>6
<1>8. ASSUME NEW d \in g[n].deps PROVE v[d] \subseteq v[n]
  <2>1. c[k - 1][d] \subseteq c[k][n]
    BY <1>6
  <2>2. QED
    BY <1>4, <2>1
<1>9. QED
  BY <1>7, <1>8 DEF v

\* A feature's value is of its own inputs alone.
LEMMA SameInputs ==
    ASSUME NEW f, NEW one, NEW two, NEW computed, NEW held, NEW old,
           \A s \in f.raws : one[s] = two[s], \A d \in f.deps : computed[d] = held[d]
    PROVE  Evaluate(f, one, computed, old) = Evaluate(f, two, held, old)
<1>1. [s \in f.raws |-> one[s]] = [s \in f.raws |-> two[s]]
  OBVIOUS
<1>2. [d \in f.deps |-> computed[d]] = [d \in f.deps |-> held[d]]
  OBVIOUS
<1>3. /\ (\E s \in f.raws : one[s] = Broken) <=> \E s \in f.raws : two[s] = Broken
      /\ (\E d \in f.deps : computed[d] = Missing) <=> \E d \in f.deps : held[d] = Missing
  OBVIOUS
<1>4. QED
  BY <1>1, <1>2, <1>3 DEF Evaluate

LEMMA NoPriors ==
    ASSUME NEW f, f.priors = {}, NEW reading, NEW computed, NEW old, NEW older
    PROVE  Evaluate(f, reading, computed, old) = Evaluate(f, reading, computed, older)
<1>1. [p \in f.priors |-> old[p]] = [p \in f.priors |-> older[p]]
  OBVIOUS
<1>2. /\ ~\E p \in f.priors : p \notin DOMAIN old \/ old[p] = Missing
      /\ ~\E p \in f.priors : p \notin DOMAIN older \/ older[p] = Missing
  OBVIOUS
<1>3. QED
  BY <1>1, <1>2 DEF Evaluate

\* A pass computes its targets from what it leaves behind, and holds the rest.
LEMMA PassComputes ==
    ASSUME NEW g, IsBuilt(g), NEW A, NEW reading, NEW old, NEW held,
           held = [n \in DOMAIN g |-> held[n]]
    PROVE  LET v == Pass(g, A, reading, held, old)
           IN  /\ v = [n \in DOMAIN g |-> v[n]]
               /\ \A n \in DOMAIN g :
                    v[n] = IF n \in A THEN Evaluate(g[n], reading, v, old) ELSE held[n]
<1> DEFINE s == TopologicalOrder(g)
           v == Pass(g, A, reading, held, old)
<1>1. IsGraph(g) /\ Complete(g, s)
  BY DEF IsBuilt
<1>2. PICK c : /\ FilledIn(DOMAIN g, s, c)
               /\ c[0] = held
               /\ \A k \in DOMAIN s : c[k] = Evaluated(g, A, reading, old, s, k, c[k - 1])
               /\ v = c[Len(s)]
  BY PassIsWalked
<1> HIDE DEF s, v
<1>3. \A k \in {0} \cup DOMAIN s : c[k] = [n \in DOMAIN g |-> c[k][n]]
  BY <1>2 DEF FilledIn
<1>4. v = [n \in DOMAIN g |-> v[n]]
  <2>1. Len(s) \in {0} \cup DOMAIN s
    BY <1>1, InPlace
  <2>2. QED
    BY <1>2, <1>3, <2>1
<1>5. ASSUME NEW n \in DOMAIN g
      PROVE  v[n] = IF n \in A THEN Evaluate(g[n], reading, v, old) ELSE held[n]
  <2>1. PICK k \in DOMAIN s : s[k] = n
    BY <1>1 DEF Complete
  <2>2. /\ v[n] = c[k][n] /\ c[k - 1][n] = held[n]
        /\ \A d \in g[n].deps : c[k - 1][d] = v[d]
    BY <1>1, <1>2, <2>1, ReadsTheEnd
  <2>3. c[k - 1] = [x \in DOMAIN g |-> c[k - 1][x]]
    <3>1. k - 1 \in {0} \cup DOMAIN s
      BY <1>1, InPlace
    <3>2. QED
      BY <1>3, <3>1
  <2>4. c[k] = Evaluated(g, A, reading, old, s, k, c[k - 1])
    BY <1>2
  <2>5. CASE n \notin A
    BY <2>1, <2>2, <2>4, <2>5 DEF Evaluated
  <2>6. CASE n \in A
    <3>1. c[k][n] = Evaluate(g[n], reading, c[k - 1], old)
      BY <2>1, <2>3, <2>4, <2>6 DEF Evaluated
    <3>2. Evaluate(g[n], reading, c[k - 1], old) = Evaluate(g[n], reading, v, old)
      BY <2>2, SameInputs
    <3>3. QED
      BY <2>2, <2>6, <3>1, <3>2
  <2>7. QED
    BY <2>5, <2>6
<1>6. QED
  BY <1>4, <1>5 DEF v

\* What a stateless feature depends on is stateless.
LEMMA StatelessInherits ==
    ASSUME NEW g, IsBuilt(g), NEW n \in Stateless(g)
    PROVE  /\ n \in DOMAIN g /\ g[n].priors = {}
           /\ \A d \in g[n].deps : d \in Stateless(g)
<1>1. PICK r : Ranked(g, r)
  BY Places DEF IsBuilt
<1>2. /\ Reaches(g) \in [DOMAIN g -> SUBSET DOMAIN g]
      /\ \A x \in DOMAIN g :
           /\ g[x].deps \subseteq Reaches(g)[x]
           /\ \A m \in Reaches(g)[x] : Reaches(g)[m] \subseteq Reaches(g)[x]
  BY <1>1, ReachesAll DEF IsBuilt
<1>3. n \in DOMAIN g /\ \A m \in {n} \cup Reaches(g)[n] : g[m].priors = {}
  BY DEF Stateless
<1>4. ASSUME NEW d \in g[n].deps PROVE d \in Stateless(g)
  <2>1. d \in Reaches(g)[n] /\ d \in DOMAIN g /\ Reaches(g)[d] \subseteq Reaches(g)[n]
    BY <1>2, <1>3
  <2>2. \A m \in {d} \cup Reaches(g)[d] : g[m].priors = {}
    BY <1>3, <2>1
  <2>3. QED
    BY <2>1, <2>2 DEF Stateless
<1>5. QED
  BY <1>3, <1>4

LEMMA OrderSound ==
    ASSUME NEW g, IsBuilt(g)
    PROVE  OrderIsSound(g)
<1> DEFINE s == TopologicalOrder(g)
<1>1. IsGraph(g) /\ Complete(g, s)
  BY DEF IsBuilt
<1> HIDE DEF s
<1>2. PICK r : Ranked(g, r) /\ \A i \in DOMAIN s : r[s[i]] = i
  BY <1>1, Places
<1>3. \A n \in DOMAIN g : n \notin Reaches(g)[n]
  BY <1>1, <1>2, ReachesAll
<1>4. \A i \in DOMAIN s : s[i] \in DOMAIN g
  BY <1>1, InPlace
<1>5. ASSUME NEW i \in DOMAIN s, NEW j \in DOMAIN s, s[j] \in g[s[i]].deps PROVE j < i
  BY <1>2, <1>4, <1>5 DEF Ranked
<1>6. QED
  BY <1>3, <1>5 DEF OrderIsSound, s

-----------------------------------------------------------------------------
(***************************************************************************)
(* The engine.  What no moved source reaches is as a pass would leave it:  *)
(* this holds while sources move too, which is what lets the next pass     *)
(* skip it.                                                                *)
(***************************************************************************)

UpToDate(g, n) == values[n] = Evaluate(g[n], raw, values, <<>>)

EngineInv ==
    /\ raw = [s \in Sources |-> raw[s]]
    /\ passes \in Nat
    /\ declared # <<>> =>
         LET g == ByName(declared)
         IN  /\ IsBuilt(g)
             /\ values = [n \in DOMAIN g |-> values[n]]
             /\ passes > 0 =>
                  \A n \in Stateless(g) :
                    SourcesOf(g)[n] \cap pending = {} => UpToDate(g, n)

LEMMA EngineStarts ==
    ASSUME EngineInit
    PROVE  EngineInv
BY DEF EngineInit, EngineInv

LEMMA BuildKeeps ==
    ASSUME DeclarationAssumption, EngineInv, NEW list \in Declarations, BuildEngine(list)
    PROVE  EngineInv'
<1>1. raw' = raw /\ passes' = 0 /\ declared' = list /\ ~BuildRefused(list)
  BY DEF BuildEngine, Cleared
<1>2. raw' = [s \in Sources |-> raw'[s]]
  BY <1>1 DEF EngineInv
<1>3. IsBuilt(ByName(list))
  BY <1>1, Built
<1>4. values' = [n \in DOMAIN ByName(list) |-> values'[n]]
  <2>1. DOMAIN ByName(list) = NamesOf(list)
    BY DEF ByName
  <2>2. values' = [n \in NamesOf(list) |-> Missing]
    BY DEF BuildEngine, Cleared
  <2>3. QED
    BY <2>1, <2>2
<1>5. ~(passes' > 0) /\ passes' \in Nat
  BY <1>1
<1>6. QED
  BY <1>1, <1>2, <1>3, <1>4, <1>5 DEF EngineInv

LEMMA MoveKeeps ==
    ASSUME EngineInv, NEW s \in Sources, NEW r \in Readings, Moves(s, r)
    PROVE  EngineInv'
<1> DEFINE g == ByName(declared)
<1>1. /\ declared' = declared /\ declared # <<>> /\ values' = values /\ passes' = passes
      /\ raw' = [raw EXCEPT ![s] = r] /\ pending' = pending \cup {s}
  BY DEF Moves
<1>2. raw' = [x \in Sources |-> raw'[x]] /\ \A x \in Sources \ {s} : raw'[x] = raw[x]
  BY <1>1 DEF EngineInv
<1>3. IsBuilt(g) /\ values = [n \in DOMAIN g |-> values[n]]
  BY <1>1 DEF EngineInv
<1>4. ASSUME passes > 0, NEW n \in Stateless(g), SourcesOf(g)[n] \cap pending' = {}
      PROVE  values[n] = Evaluate(g[n], raw', values, <<>>)
  <2>1. n \in DOMAIN g
    BY DEF Stateless
  <2>2. SourcesOf(g)[n] \cap pending = {} /\ s \notin SourcesOf(g)[n]
    BY <1>1, <1>4
  <2>3. values[n] = Evaluate(g[n], raw, values, <<>>)
    BY <1>1, <1>4, <2>2 DEF EngineInv, UpToDate
  <2>4. g[n].raws \subseteq SourcesOf(g)[n]
    BY <1>3, <2>1, SourcesAreInherited
  <2>5. g[n].raws \subseteq Sources
    BY <1>3, <2>1 DEF IsBuilt, IsGraph
  <2>6. \A x \in g[n].raws : raw[x] = raw'[x]
    BY <1>2, <2>2, <2>4, <2>5
  <2>7. Evaluate(g[n], raw, values, <<>>) = Evaluate(g[n], raw', values, <<>>)
    BY <2>6, SameInputs
  <2>8. QED
    BY <2>3, <2>7
<1>5. QED
  <2>1. passes' \in Nat
    BY <1>1 DEF EngineInv
  <2> HIDE DEF g
  <2>2. ByName(declared') = g
    BY <1>1 DEF g
  <2>3. passes' > 0 => \A n \in Stateless(g) :
          SourcesOf(g)[n] \cap pending' = {} => values'[n] = Evaluate(g[n], raw', values', <<>>)
    BY <1>1, <1>4
  <2>4. QED
    BY <1>1, <1>2, <1>3, <2>1, <2>2, <2>3 DEF EngineInv, UpToDate

\* A pass over targets that every skipped, unmoved feature can do without.
LEMMA ComputeKeeps ==
    ASSUME EngineInv, NEW targets, Compute(targets),
           \/ targets = NamesOf(declared)
           \/ passes > 0 /\ targets = AffectedBy(ByName(declared), pending)
    PROVE  EngineInv'
<1> DEFINE g == ByName(declared)
           v == Pass(g, targets, raw, values, previous)
<1>1. /\ declared' = declared /\ declared # <<>> /\ values' = v /\ passes' = passes + 1
      /\ raw' = raw /\ pending' = {}
  BY DEF Compute
<1>2. IsBuilt(g) /\ values = [n \in DOMAIN g |-> values[n]] /\ passes \in Nat
  BY <1>1 DEF EngineInv
<1>3. /\ v = [n \in DOMAIN g |-> v[n]]
      /\ \A n \in DOMAIN g :
           v[n] = IF n \in targets THEN Evaluate(g[n], raw, v, previous) ELSE values[n]
  BY <1>2, PassComputes
<1>4. DOMAIN g = NamesOf(declared)
  BY DEF ByName
<1> HIDE DEF g, v
<1>5. ASSUME NEW n \in Stateless(g) PROVE v[n] = Evaluate(g[n], raw, v, <<>>)
  <2>1. n \in DOMAIN g /\ g[n].priors = {} /\ \A d \in g[n].deps : d \in Stateless(g)
    BY <1>2, StatelessInherits
  <2>2. CASE n \in targets
    <3>1. v[n] = Evaluate(g[n], raw, v, previous)
      BY <1>3, <2>1, <2>2
    <3>2. Evaluate(g[n], raw, v, previous) = Evaluate(g[n], raw, v, <<>>)
      BY <2>1, NoPriors
    <3>3. QED
      BY <3>1, <3>2
  <2>3. CASE n \notin targets
    <3>1. passes > 0 /\ targets = AffectedBy(g, pending)
      BY <1>4, <2>1, <2>3 DEF g
    <3>2. \A m \in DOMAIN g : m \notin targets <=> SourcesOf(g)[m] \cap pending = {}
      BY <3>1 DEF AffectedBy, Impact
    <3>3. SourcesOf(g)[n] \cap pending = {}
      BY <2>1, <2>3, <3>2
    <3>4. values[n] = Evaluate(g[n], raw, values, <<>>)
      BY <1>1, <3>1, <3>3 DEF EngineInv, UpToDate, g
    <3>5. \A d \in g[n].deps : values[d] = v[d]
      <4> SUFFICES ASSUME NEW d \in g[n].deps PROVE values[d] = v[d]
        OBVIOUS
      <4>1. d \in DOMAIN g
        BY <2>1 DEF Stateless
      <4>2. SourcesOf(g)[d] \subseteq SourcesOf(g)[n]
        BY <1>2, <2>1, SourcesAreInherited
      <4>3. d \notin targets
        BY <3>2, <3>3, <4>1, <4>2
      <4>4. QED
        BY <1>3, <4>1, <4>3
    <3>6. Evaluate(g[n], raw, values, <<>>) = Evaluate(g[n], raw, v, <<>>)
      BY <3>5, SameInputs
    <3>7. QED
      BY <1>3, <2>1, <2>3, <3>4, <3>6
  <2>4. QED
    BY <2>2, <2>3
<1>6. QED
  <2>1. passes' \in Nat /\ raw' = [s \in Sources |-> raw'[s]]
    BY <1>1, <1>2 DEF EngineInv
  <2>2. ByName(declared') = g
    BY <1>1 DEF g
  <2>3. \A n \in Stateless(g) : values'[n] = Evaluate(g[n], raw', values', <<>>)
    BY <1>1, <1>5
  <2>4. values' = [n \in DOMAIN g |-> values'[n]]
    BY <1>1, <1>3
  <2>5. QED
    BY <1>1, <1>2, <2>1, <2>2, <2>3, <2>4 DEF EngineInv, UpToDate

LEMMA ResetKeeps ==
    ASSUME EngineInv, Reset
    PROVE  EngineInv'
<1> DEFINE g == ByName(declared)
<1>1. /\ declared' = declared /\ declared # <<>> /\ passes' = 0 /\ raw' = raw
      /\ values' = [n \in NamesOf(declared) |-> Missing]
  BY DEF Reset, Cleared
<1>2. IsBuilt(g) /\ DOMAIN g = NamesOf(declared) /\ raw = [s \in Sources |-> raw[s]]
  BY <1>1 DEF EngineInv, ByName
<1> HIDE DEF g
<1>3. ByName(declared') = g
  BY <1>1 DEF g
<1>4. values' = [n \in DOMAIN g |-> values'[n]]
  BY <1>1, <1>2
<1>5. passes' \in Nat /\ ~(passes' > 0)
  BY <1>1
<1>6. QED
  BY <1>1, <1>2, <1>3, <1>4, <1>5 DEF EngineInv

\* Up to date features all hold what a fresh pass computes.
LEMMA FreshIsTheSame ==
    ASSUME NEW g, IsBuilt(g), \A n \in Stateless(g) : UpToDate(g, n),
           NEW fresh, \A n \in DOMAIN g : fresh[n] = Evaluate(g[n], raw, fresh, <<>>)
    PROVE  \A n \in Stateless(g) : values[n] = fresh[n]
<1>1. PICK r : Ranked(g, r)
  BY Places DEF IsBuilt
<1> DEFINE top == Cardinality(DOMAIN g)
           K == {k \in Nat : \A n \in Stateless(g) : r[n] <= k => values[n] = fresh[n]}
<1>2. top \in Nat /\ \A n \in DOMAIN g : r[n] \in 1..top
  BY <1>1, FS_CardinalityType DEF IsBuilt, IsGraph, Ranked
<1> HIDE DEF top
<1>3. \A n \in Stateless(g) : /\ n \in DOMAIN g /\ g[n].priors = {}
                              /\ \A d \in g[n].deps : d \in Stateless(g)
  BY StatelessInherits
<1>4. 0 \in K
  BY <1>2, <1>3
<1>5. ASSUME NEW k \in Nat, k < top, k \in K PROVE k + 1 \in K
  <2> SUFFICES ASSUME NEW n \in Stateless(g), r[n] <= k + 1 PROVE values[n] = fresh[n]
    OBVIOUS
  <2>1. \A d \in g[n].deps : values[d] = fresh[d]
    <3> SUFFICES ASSUME NEW d \in g[n].deps PROVE values[d] = fresh[d]
      OBVIOUS
    <3>1. d \in Stateless(g) /\ d \in DOMAIN g /\ n \in DOMAIN g /\ r[d] < r[n]
      BY <1>1, <1>3 DEF Ranked
    <3>2. r[d] \in 1..top /\ r[n] \in 1..top
      BY <1>2, <3>1
    <3>3. r[d] <= k
      BY <1>2, <3>1, <3>2
    <3>4. QED
      BY <1>5, <3>1, <3>3
  <2>2. values[n] = Evaluate(g[n], raw, values, <<>>)
    BY DEF UpToDate
  <2>3. Evaluate(g[n], raw, values, <<>>) = Evaluate(g[n], raw, fresh, <<>>)
    BY <2>1, SameInputs
  <2>4. QED
    BY <1>3, <2>2, <2>3
<1>6. top \in K
  <2> HIDE DEF K
  <2>1. \A k \in 0..top : k \in K
    BY <1>2, <1>4, <1>5, CountsUpTo
  <2>2. QED
    BY <1>2, <2>1
<1>7. QED
  BY <1>2, <1>3, <1>6

\* RecomputingLessChangesNothing: after any history of moves, passes and
\* resets, a feature that reads nothing of an earlier pass holds what a fresh
\* engine would compute, and the order an engine is built with is sound.
THEOREM Recomputing == EngineSpec => []RecomputingLessChangesNothing
<1>1. EngineInit => EngineInv
  BY EngineStarts
<1>2. EngineInv /\ [EngineNext]_engineVars => EngineInv'
  <2> SUFFICES ASSUME EngineInv, [EngineNext]_engineVars PROVE EngineInv'
    OBVIOUS
  <2>1. ASSUME NEW list \in Declarations, BuildEngine(list) PROVE EngineInv'
    BY <2>1, BuildKeeps, DeclarationAssumption
  <2>2. ASSUME NEW s \in Sources, NEW r \in Readings, Moves(s, r) PROVE EngineInv'
    BY <2>2, MoveKeeps
  <2>3. CASE ComputeAll
    BY <2>3, ComputeKeeps DEF ComputeAll
  <2>4. CASE ComputeChanged
    BY <2>4, ComputeKeeps DEF ComputeChanged
  <2>5. CASE Reset
    BY <2>5, ResetKeeps
  <2>6. CASE UNCHANGED engineVars
    BY <2>6 DEF engineVars, EngineInv, UpToDate
  <2>7. QED
    BY <2>1, <2>2, <2>3, <2>4, <2>5, <2>6 DEF EngineNext
<1>3. EngineInv => RecomputingLessChangesNothing
  <2> DEFINE g == ByName(declared)
             blank == [n \in DOMAIN g |-> Missing]
             fresh == Pass(g, DOMAIN g, raw, blank, <<>>)
  <2> SUFFICES ASSUME EngineInv, declared # <<>>
               PROVE  /\ OrderIsSound(g)
                      /\ passes > 0 /\ pending = {} =>
                           \A n \in Stateless(g) : values[n] = fresh[n]
    BY DEF RecomputingLessChangesNothing
  <2>1. IsBuilt(g)
    BY DEF EngineInv
  <2>2. OrderIsSound(g)
    BY <2>1, OrderSound
  <2>3. \A n \in DOMAIN g : fresh[n] = Evaluate(g[n], raw, fresh, <<>>)
    <3>1. blank = [n \in DOMAIN g |-> blank[n]]
      OBVIOUS
    <3> HIDE DEF g, blank
    <3>2. QED
      BY <2>1, <3>1, PassComputes
  <2>4. ASSUME passes > 0, pending = {}
        PROVE  \A n \in Stateless(g) : values[n] = fresh[n]
    <3>1. \A n \in Stateless(g) : UpToDate(g, n)
      BY <2>4 DEF EngineInv
    <3> HIDE DEF g, fresh
    <3>2. QED
      BY <2>1, <2>3, <3>1, FreshIsTheSame
  <2>5. QED
    BY <2>2, <2>4
<1>4. QED
  BY <1>1, <1>2, <1>3, PTL DEF EngineSpec

-----------------------------------------------------------------------------
(***************************************************************************)
(* The edge scan: what a verdict's forecasts learnt from.                  *)
(***************************************************************************)

\* One market settles at a time.
OneMarketAtATime(R) == \A i, j \in DOMAIN R : R[i].settle = R[j].settle => R[i].market = R[j].market

LEMMA ScanTypes ==
    ASSUME NEW s \in Scans
    PROVE  /\ RowTypes(s.rows) /\ OneMarketAtATime(s.rows) /\ Whole(s.pnl, DOMAIN s.rows)
           /\ PlanTypes(WalkPlan(s)) /\ WalkPlan(s).folds = s.folds /\ WalkPlan(s).embargo >= 1
           /\ EmbargoWindows < 40 => WalkPlan(s).embargo < WalkPlan(s).minTrain
<1> DEFINE p == WalkPlan(s)
<1>1. EmbargoWindows \in Nat /\ s.folds \in Nat \ {0}
  BY ScanAssumption DEF IsScan
<1>2. PICK q \in Nat : q = EmbargoWindows \div 4 /\ q * 4 <= EmbargoWindows
  BY <1>1, Quotient
<1>3. PICK m \in Nat : m = 4 * s.folds
  BY <1>1
<1>4. /\ p.embargo = Max({1, q}) /\ p.minTrain = Max({10, m}) /\ p.folds = s.folds
      /\ p.scheme = "expanding" /\ p.trainSize = 0
  BY <1>2, <1>3 DEF WalkPlan
<1> HIDE DEF p
<1>5. p.embargo = IF 1 <= q THEN q ELSE 1
  <2>1. 1 \in Int /\ q \in Int
    OBVIOUS
  <2>2. QED
    BY ONLY <1>4, <2>1, OfTwo
<1>6. p.minTrain = IF 10 <= m THEN m ELSE 10
  <2>1. 10 \in Int /\ m \in Int
    OBVIOUS
  <2>2. QED
    BY ONLY <1>4, <2>1, OfTwo
<1>7. PlanTypes(p) /\ p.embargo >= 1
  BY <1>1, <1>4, <1>5, <1>6 DEF PlanTypes
<1>8. EmbargoWindows < 40 => p.embargo < p.minTrain
  BY <1>1, <1>2, <1>5, <1>6
<1>9. RowTypes(s.rows) /\ OneMarketAtATime(s.rows) /\ Whole(s.pnl, DOMAIN s.rows)
  BY ScanAssumption DEF IsScan, RowTypes, OneMarketAtATime, Whole
<1>10. QED
  BY <1>4, <1>7, <1>8, <1>9 DEF p

LEMMA SettlesInPlace ==
    ASSUME NEW R, RowTypes(R), OneMarketAtATime(R), NEW i \in DOMAIN R, NEW j \in DOMAIN R,
           PlaceOf(R, i) < PlaceOf(R, j)
    PROVE  R[i].settle < R[j].settle
<1>1. R[i].settle <= R[j].settle
  BY PlaceSettles
<1>2. PlaceOf(R, i) # PlaceOf(R, j)
  BY PlaceOfType, MarketsFinite
<1>3. R[i].settle # R[j].settle
  BY <1>2 DEF OneMarketAtATime, PlaceOf
<1>4. R[i].settle \in Int /\ R[j].settle \in Int
  BY DEF RowTypes
<1>5. QED
  BY <1>1, <1>3, <1>4

LEMMA EnoughMarkets ==
    ASSUME NEW R, RowTypes(R), NEW p, PlanTypes(p), Folds(R, p) # {}
    PROVE  p.minTrain + p.folds <= TotalOf(R)
<1>1. DOMAIN R # {} /\ ~TooFew(R, p)
  BY DEF Folds
<1>2. QED
  BY <1>1, MarketsFinite DEF TooFew, TotalOf, PlanTypes

\* Between what a fold learns from and what it is tested on settles a market.
LEMMA MarketBetween ==
    ASSUME NEW R, RowTypes(R), OneMarketAtATime(R), NEW p, PlanTypes(p), p.embargo >= 1,
           NEW f \in Folds(R, p), NEW j \in f.test
    PROVE  \E t \in {R[i].settle : i \in DOMAIN R} :
             Max({R[i].settle : i \in f.train}) < t /\ t < R[j].settle
<1> DEFINE T == {R[i].settle : i \in f.train}
<1>1. f.train # {} /\ f.train \in SUBSET DOMAIN R /\ j \in DOMAIN R
  BY FoldRows DEF Folds
<1>2. IsFiniteSet(T) /\ T \in SUBSET Int /\ T # {}
  <2>1. IsFiniteSet(f.train)
    BY <1>1, FS_Subset DEF RowTypes
  <2>2. [i \in f.train |-> R[i].settle] \in Surjection(f.train, T)
    BY DEF Surjection
  <2> HIDE DEF T
  <2>3. IsFiniteSet(T)
    BY <2>1, <2>2, FS_Surjection
  <2>4. QED
    BY <1>1, <2>3 DEF T, RowTypes
<1>3. Max(T) \in T
  <2> HIDE DEF T
  <2>1. QED
    BY <1>2, LeastAndGreatest
<1>4. PICK i \in f.train : Max(T) = R[i].settle
  BY <1>3
<1>5. i \in DOMAIN R /\ PlaceOf(R, i) + p.embargo < PlaceOf(R, j)
  BY <1>1, FoldsApart
<1>6. /\ PlaceOf(R, i) \in 0..(TotalOf(R) - 1) /\ PlaceOf(R, j) \in 0..(TotalOf(R) - 1)
      /\ TotalOf(R) \in Nat /\ p.embargo \in Nat
  BY <1>1, <1>5, PlaceOfType, MarketsFinite DEF TotalOf, PlanTypes
<1>7. PICK k \in DOMAIN R : PlaceOf(R, k) = PlaceOf(R, i) + 1
  <2>1. PlaceOf(R, i) + 1 \in 0..(TotalOf(R) - 1)
    BY <1>5, <1>6
  <2>2. QED
    BY <2>1, EveryPlace
<1>8. PlaceOf(R, i) < PlaceOf(R, k) /\ PlaceOf(R, k) < PlaceOf(R, j)
  BY <1>5, <1>6, <1>7
<1>9. R[i].settle < R[k].settle /\ R[k].settle < R[j].settle
  BY <1>1, <1>5, <1>6, <1>7, <1>8, SettlesInPlace
<1>10. QED
  BY <1>4, <1>7, <1>9

\* The folds are finitely many, and no two of them are tested on one row.
LEMMA FoldsFinite ==
    ASSUME NEW R, NEW p, PlanTypes(p)
    PROVE  IsFiniteSet(Folds(R, p))
<1> DEFINE all == {FoldAt(R, p, k) : k \in 0..(p.folds - 1)}
<1>1. IsFiniteSet(0..(p.folds - 1))
  <2>1. 0 \in Int /\ p.folds - 1 \in Int
    BY DEF PlanTypes
  <2>2. QED
    BY ONLY <2>1, FS_Interval
<1>2. [k \in 0..(p.folds - 1) |-> FoldAt(R, p, k)] \in Surjection(0..(p.folds - 1), all)
  BY DEF Surjection
<1>3. IsFiniteSet(all)
  <2> HIDE DEF all
  <2>1. QED
    BY <1>1, <1>2, FS_Surjection
<1>4. Folds(R, p) \in SUBSET all
  BY DEF Folds
<1>5. QED
  BY <1>3, <1>4, FS_Subset

LEMMA TestsApart ==
    ASSUME NEW R, RowTypes(R), NEW p, PlanTypes(p), NEW f \in Folds(R, p), NEW g \in Folds(R, p),
           f # g
    PROVE  f.test \cap g.test = {}
<1> SUFFICES ASSUME NEW j \in f.test, j \in g.test PROVE FALSE
  OBVIOUS
<1>1. j \in DOMAIN R /\ p.minTrain + p.folds <= TotalOf(R)
  BY FoldRows, EnoughMarkets
<1>2. PICK k \in 0..(p.folds - 1) : f = FoldAt(R, p, k)
  BY DEF Folds
<1>3. PICK l \in 0..(p.folds - 1) : g = FoldAt(R, p, l)
  BY DEF Folds
<1>4. k = l
  BY <1>1, <1>2, <1>3, TestedInOne
<1>5. QED
  BY <1>2, <1>3, <1>4

\* Two folds that were asked for are two.
LEMMA SeveralFolds ==
    ASSUME NEW R, RowTypes(R), NEW p, PlanTypes(p), p.embargo < p.minTrain, p.folds > 1,
           Folds(R, p) # {}
    PROVE  Cardinality(Folds(R, p)) >= 2
<1> DEFINE a == FoldAt(R, p, 0)
           b == FoldAt(R, p, 1)
<1>1. p.minTrain + p.folds <= TotalOf(R) /\ DOMAIN R # {} /\ ~TooFew(R, p)
  BY EnoughMarkets DEF Folds
<1>2. 0 \in 0..(p.folds - 1) /\ 1 \in 0..(p.folds - 1)
  BY DEF PlanTypes
<1>3. a.train # {} /\ a.test # {} /\ b.train # {} /\ b.test # {}
  BY <1>1, <1>2, SidesHaveRows
<1> HIDE DEF a, b
<1>4. a \in Folds(R, p) /\ b \in Folds(R, p)
  BY <1>1, <1>2, <1>3 DEF Folds, a, b
<1>5. a # b
  <2> SUFFICES ASSUME a = b PROVE FALSE
    OBVIOUS
  <2>1. PICK j \in a.test : TRUE
    BY <1>3
  <2>2. j \in DOMAIN R /\ j \in b.test
    BY <1>4, FoldRows
  <2>3. 0 = 1
    BY <1>1, <1>2, <2>2, TestedInOne DEF a, b
  <2>4. QED
    BY <2>3
<1>6. IsFiniteSet({a}) /\ Cardinality({a}) = 1 /\ b \notin {a}
  BY <1>5, FS_Singleton
<1>7. IsFiniteSet({a} \cup {b}) /\ Cardinality({a} \cup {b}) = 2
  <2>1. Cardinality({a} \cup {b}) = IF b \in {a} THEN Cardinality({a}) ELSE Cardinality({a}) + 1
    BY ONLY <1>6, FS_AddElement
  <2>2. IsFiniteSet({a} \cup {b})
    BY ONLY <1>6, FS_AddElement
  <2>3. QED
    BY ONLY <1>6, <2>1, <2>2
<1>8. IsFiniteSet(Folds(R, p)) /\ {a} \cup {b} \in SUBSET Folds(R, p)
  BY <1>4, FoldsFinite
<1>9. Cardinality({a} \cup {b}) <= Cardinality(Folds(R, p)) /\ Cardinality(Folds(R, p)) \in Nat
  BY <1>8, FS_Subset, FS_CardinalityType
<1>10. QED
  BY <1>7, <1>9

-----------------------------------------------------------------------------
\* The verdict on a horizon of the scan.
VerdictOn(s, h) == HorizonResult(s, h, Folds(s.rows, WalkPlan(s)))
PooledAt(s, h)  == UNION {At(s, h, f.test) : f \in Folds(s.rows, WalkPlan(s))}

LEMMA PooledRows ==
    ASSUME NEW s \in Scans, NEW h
    PROVE  /\ PooledAt(s, h) \in SUBSET DOMAIN s.rows /\ IsFiniteSet(PooledAt(s, h))
           /\ Whole(s.pnl, PooledAt(s, h))
           /\ \A i \in PooledAt(s, h) : \E f \in Folds(s.rows, WalkPlan(s)) : i \in f.test
<1>1. \A i \in PooledAt(s, h) : \E f \in Folds(s.rows, WalkPlan(s)) : i \in f.test
  BY DEF PooledAt, At
<1>2. PooledAt(s, h) \in SUBSET DOMAIN s.rows
  BY <1>1, FoldRows
<1>3. QED
  BY <1>1, <1>2, ScanTypes, FS_Subset DEF RowTypes, Whole

\* The folds' profits add up to that of the rows they pool.
LEMMA NetAdds ==
    ASSUME NEW s \in Scans, NEW h
    PROVE  VerdictOn(s, h).net = Net(s, PooledAt(s, h)) /\ VerdictOn(s, h).net \in Int
<1> DEFINE folds == Folds(s.rows, WalkPlan(s))
           part  == [f \in folds |-> At(s, h, f.test)]
           net   == [f \in folds |-> Net(s, At(s, h, f.test))]
<1>1. VerdictOn(s, h).net = SumFunction(net)
  BY DEF VerdictOn, HorizonResult
<1>2. SumFunction(net) = SumFunctionOnSet(net, folds)
  BY SumOverDomain
<1>3. IsFiniteSet(folds) /\ RowTypes(s.rows) /\ PlanTypes(WalkPlan(s))
  BY FoldsFinite, ScanTypes
<1>4. ASSUME NEW f \in folds
      PROVE  /\ part[f] \in SUBSET f.test /\ part[f] \in SUBSET DOMAIN s.rows
             /\ net[f] = SumFunctionOnSet(s.pnl, part[f])
  BY FoldRows DEF At, Net
<1>5. UNION {part[f] : f \in folds} = PooledAt(s, h)
  BY DEF PooledAt
<1> HIDE DEF folds, part, net
<1>6. ASSUME NEW f \in folds PROVE IsFiniteSet(part[f]) /\ Whole(s.pnl, part[f])
  BY <1>4, ScanTypes, FS_Subset DEF RowTypes, Whole
<1>7. ASSUME NEW f \in folds, NEW g \in folds, f # g PROVE part[f] \cap part[g] = {}
  <2>1. f \in Folds(s.rows, WalkPlan(s)) /\ g \in Folds(s.rows, WalkPlan(s)) /\ f # g
    BY <1>7 DEF folds
  <2>2. f.test \cap g.test = {}
    BY ONLY <1>3, <2>1, TestsApart
  <2>3. QED
    BY <1>4, <2>2
<1>8. SumFunctionOnSet(net, folds) = SumFunctionOnSet(s.pnl, UNION {part[f] : f \in folds})
  <2>1. \A f \in folds : /\ IsFiniteSet(part[f]) /\ Whole(s.pnl, part[f])
                         /\ net[f] = SumFunctionOnSet(s.pnl, part[f])
    BY <1>4, <1>6
  <2>2. \A f, g \in folds : f # g => part[f] \cap part[g] = {}
    BY <1>7
  <2>3. QED
    BY ONLY <1>3, <2>1, <2>2, SumOfParts
<1>9. SumFunctionOnSet(s.pnl, PooledAt(s, h)) \in Int
  BY PooledRows, SumOfSubset
<1>10. QED
  BY <1>1, <1>2, <1>5, <1>8, <1>9 DEF Net

\* A verdict of profit rests on trades.
LEMMA ProfitIsTraded ==
    ASSUME NEW s \in Scans, NEW h
    PROVE  /\ VerdictOn(s, h).trades \in Nat
           /\ VerdictOn(s, h).net > 0 => VerdictOn(s, h).trades \in Positive
<1> DEFINE traded == {i \in PooledAt(s, h) : s.pnl[i] # 0}
<1>1. VerdictOn(s, h).trades = Cardinality(traded)
  BY DEF VerdictOn, HorizonResult, PooledAt
<1>2. IsFiniteSet(traded)
  BY PooledRows, FS_Subset
<1>3. Cardinality(traded) \in Nat /\ (Cardinality(traded) = 0 <=> traded = {})
  <2> HIDE DEF traded
  <2>1. QED
    BY <1>2, FS_CardinalityType, FS_EmptySet
<1>4. ASSUME traded = {} PROVE VerdictOn(s, h).net = 0
  <2>1. \A i \in PooledAt(s, h) : s.pnl[i] = 0
    BY <1>4
  <2>2. SumFunctionOnSet(s.pnl, PooledAt(s, h)) = 0
    BY <2>1, PooledRows, SumOfZeros
  <2>3. QED
    BY <2>2, NetAdds DEF Net
<1> HIDE DEF traded
<1>5. VerdictOn(s, h).net > 0 => Cardinality(traded) # 0
  BY <1>3, <1>4
<1>6. QED
  BY <1>1, <1>3, <1>5 DEF Positive

\* The model whose disagreement is shown was fitted before the first test.
LEMMA SliceApart ==
    ASSUME NEW s \in Scans, NEW f \in Folds(s.rows, WalkPlan(s)), NEW i \in f.test,
           NEW j \in EarliestSlice(s)
    PROVE  j \in DOMAIN s.rows /\ s.rows[i].settle # s.rows[j].settle
<1> DEFINE R == s.rows
           p == WalkPlan(s)
<1>1. RowTypes(R) /\ OneMarketAtATime(R) /\ PlanTypes(p)
  BY ScanTypes
<1>2. EarliestSlice(s) = RowsAt(R, 0, Min({p.minTrain, TotalOf(R)}))
  BY DEF EarliestSlice, TotalOf
<1> HIDE DEF R, p
<1>3. f \in Folds(R, p)
  BY DEF R, p
<1>4. i \in DOMAIN R /\ p.minTrain + p.folds <= TotalOf(R)
  BY <1>1, <1>3, FoldRows, EnoughMarkets
<1>5. j \in DOMAIN R
  BY <1>2 DEF RowsAt
<1>6. PICK k \in 0..(p.folds - 1) : f = FoldAt(R, p, k)
  BY <1>3 DEF Folds
<1>7. StartOf(R, p, k) <= PlaceOf(R, i)
  BY <1>1, <1>4, <1>6, FoldPeriods
<1>8. StartOf(R, p, k) \in Nat /\ p.minTrain <= StartOf(R, p, k)
  BY <1>1, <1>4, PeriodsFit
<1>9. /\ p.minTrain \in Int /\ TotalOf(R) \in Int
      /\ PlaceOf(R, i) \in Int /\ PlaceOf(R, j) \in Int
  BY <1>1, <1>4, <1>5, PlaceOfType, MarketsFinite DEF PlanTypes, TotalOf
<1>10. Min({p.minTrain, TotalOf(R)}) \in Int /\ Min({p.minTrain, TotalOf(R)}) <= p.minTrain
  BY <1>9, OfTwo
<1>11. PlaceOf(R, j) < Min({p.minTrain, TotalOf(R)})
  BY <1>1, <1>2, <1>5, RowsAtPlaces
<1>12. PlaceOf(R, i) # PlaceOf(R, j)
  BY <1>7, <1>8, <1>9, <1>10, <1>11
<1>13. R[i].market # R[j].market
  BY <1>12 DEF PlaceOf
<1>14. QED
  BY <1>1, <1>4, <1>5, <1>13 DEF OneMarketAtATime, R

\* What the scan promises of one verdict.
ForwardOnly(r) ==
    /\ \A i \in DOMAIN r.learnt : \E t \in SettlesOf(DOMAIN scan.rows) :
         Max(SettlesOf(r.learnt[i])) < t /\ t < scan.rows[i].settle
    /\ r.net = Net(scan, DOMAIN r.learnt)
    /\ SettlesOf(DOMAIN r.learnt) \cap SettlesOf(r.disagreement.learnt) = {}
    /\ Stable(r) /\ scan.folds > 1 /\ EmbargoWindows < 40 => r.profitable > 1

LEMMA VerdictIsForward ==
    ASSUME scan \in Scans, NEW h
    PROVE  ForwardOnly(VerdictOn(scan, h))
<1> DEFINE R == scan.rows
           p == WalkPlan(scan)
           folds == Folds(R, p)
           r == VerdictOn(scan, h)
<1>1. /\ DOMAIN r.learnt = PooledAt(scan, h)
      /\ \A i \in PooledAt(scan, h) : r.learnt[i] = (CHOOSE f \in folds : i \in f.test).train
      /\ r.disagreement.learnt = EarliestSlice(scan)
      /\ r.folds = Cardinality(folds)
      /\ r.profitable = Cardinality({f \in folds : Net(scan, At(scan, h, f.test)) > 0})
  BY DEF VerdictOn, HorizonResult, PooledAt
<1>2. /\ RowTypes(R) /\ OneMarketAtATime(R) /\ PlanTypes(p) /\ p.embargo >= 1
      /\ p.folds = scan.folds /\ (EmbargoWindows < 40 => p.embargo < p.minTrain)
  BY ScanTypes
<1>3. \A i \in PooledAt(scan, h) : i \in DOMAIN R /\ \E f \in folds : i \in f.test
  BY PooledRows
<1>4. IsFiniteSet(folds)
  BY <1>2, FoldsFinite
<1> HIDE DEF r
<1>5. ASSUME NEW i \in PooledAt(scan, h)
      PROVE  \E t \in SettlesOf(DOMAIN R) :
               Max(SettlesOf(r.learnt[i])) < t /\ t < R[i].settle
  <2> DEFINE f == CHOOSE g \in folds : i \in g.test
  <2>1. f \in folds /\ i \in f.test
    BY <1>3
  <2>2. r.learnt[i] = f.train
    BY <1>1
  <2> HIDE DEF f
  <2>3. \E t \in {R[k].settle : k \in DOMAIN R} :
          Max({R[k].settle : k \in f.train}) < t /\ t < R[i].settle
    BY <1>2, <2>1, MarketBetween
  <2>4. QED
    BY <2>2, <2>3 DEF SettlesOf
<1>6. SettlesOf(PooledAt(scan, h)) \cap SettlesOf(EarliestSlice(scan)) = {}
  BY <1>3, SliceApart DEF SettlesOf
<1>7. ASSUME Stable(r), scan.folds > 1, EmbargoWindows < 40 PROVE r.profitable > 1
  <2>1. r.folds > 0 /\ 10 * r.profitable >= 6 * r.folds
    BY <1>7 DEF Stable
  <2>2. folds # {}
    BY <1>1, <2>1, FS_EmptySet
  <2>3. Cardinality(folds) >= 2
    BY <1>2, <1>7, <2>2, SeveralFolds
  <2>4. Cardinality(folds) \in Nat /\ r.profitable \in Nat
    <3>1. IsFiniteSet({f \in folds : Net(scan, At(scan, h, f.test)) > 0})
      BY <1>4, FS_Subset
    <3>2. QED
      BY <1>1, <1>4, <3>1, FS_CardinalityType
  <2>5. QED
    BY <1>1, <2>1, <2>3, <2>4
<1>8. r.net = Net(scan, PooledAt(scan, h))
  BY NetAdds DEF r
<1>9. ForwardOnly(r)
  BY <1>1, <1>5, <1>6, <1>7, <1>8 DEF ForwardOnly
<1>10. QED
  BY <1>9 DEF r

-----------------------------------------------------------------------------
\* Returns on stake compared by their products: the first of equals is best.
OneOfTheStable(rs) ==
    Cardinality(BestOf(rs)) = IF \E k \in DOMAIN rs : Stable(rs[k]) THEN 1 ELSE 0

LEMMA OneBest ==
    ASSUME NEW rs, DOMAIN rs \in SUBSET Int, IsFiniteSet(DOMAIN rs),
           \A k \in DOMAIN rs : Stable(rs[k]) => rs[k].net \in Int /\ rs[k].trades \in Positive
    PROVE  OneOfTheStable(rs)
<1> DEFINE S == {k \in DOMAIN rs : Stable(rs[k])}
           gain(i, j) == rs[i].net * rs[j].trades
           R == {q \in S \X S : \/ gain(q[1], q[2]) < gain(q[2], q[1])
                                \/ gain(q[1], q[2]) = gain(q[2], q[1]) /\ q[2] < q[1]}
<1>1. \A i, j \in S : <<i, j>> \in R <=> \/ gain(i, j) < gain(j, i)
                                         \/ gain(i, j) = gain(j, i) /\ j < i
  OBVIOUS
<1>2. BestOf(rs) = {i \in S : \A j \in S : IF j < i THEN gain(i, j) > gain(j, i)
                                                     ELSE gain(i, j) >= gain(j, i)}
  BY DEF BestOf
<1>3. \A i \in S : i \in Int /\ rs[i].net \in Int /\ rs[i].trades \in Positive
  OBVIOUS
<1>4. \A i, j \in S : gain(i, j) \in Int
  <2> SUFFICES ASSUME NEW i \in S, NEW j \in S PROVE gain(i, j) \in Int
    OBVIOUS
  <2>1. PICK a \in Int : a = rs[i].net
    BY <1>3
  <2>2. PICK b \in Int : b = rs[j].trades
    BY <1>3 DEF Positive
  <2>3. QED
    BY <2>1, <2>2
<1>5. \A i, j, k \in S : gain(i, j) <= gain(j, i) /\ gain(j, k) <= gain(k, j)
                           => gain(i, k) <= gain(k, i)
  <2> SUFFICES ASSUME NEW i \in S, NEW j \in S, NEW k \in S
               PROVE  gain(i, j) <= gain(j, i) /\ gain(j, k) <= gain(k, j)
                        => gain(i, k) <= gain(k, i)
    OBVIOUS
  <2>1. SteeperBy(rs[i].net, rs[j].net, rs[k].net, rs[i].trades, rs[j].trades, rs[k].trades)
    BY <1>3, SteeperThan
  <2>2. QED
    BY <2>1 DEF SteeperBy
<1>6. IsFiniteSet(S)
  BY FS_Subset
<1> HIDE DEF S, gain, R
<1>7. StrictOrder(S, R)
  <2>1. \A i \in S : <<i, i>> \notin R
    BY <1>1, <1>3, <1>4
  <2>2. ASSUME NEW i \in S, NEW j \in S, NEW k \in S, <<i, j>> \in R, <<j, k>> \in R
        PROVE  <<i, k>> \in R
    <3>1. gain(i, j) <= gain(j, i) /\ gain(j, k) <= gain(k, j)
      BY <1>1, <1>4, <2>2
    <3>2. gain(i, k) <= gain(k, i)
      BY <1>5, <3>1
    <3>3. CASE gain(i, k) = gain(k, i)
      <4>1. gain(k, i) <= gain(i, k)
        BY <1>4, <3>3
      <4>2. gain(j, i) <= gain(i, j)
        BY <1>5, <3>1, <4>1
      <4>3. gain(k, j) <= gain(j, k)
        BY <1>5, <3>1, <4>1
      <4>4. gain(i, j) = gain(j, i) /\ gain(j, k) = gain(k, j)
        BY <1>4, <3>1, <4>2, <4>3
      <4>5. j < i /\ k < j
        BY <1>1, <1>4, <2>2, <4>4
      <4>6. k < i
        BY <1>3, <4>5
      <4>7. QED
        BY <1>1, <3>3, <4>6
    <3>4. QED
      BY <1>1, <1>4, <3>2, <3>3
  <2>3. ASSUME NEW i \in S, NEW j \in S, i # j PROVE <<i, j>> \in R \/ <<j, i>> \in R
    <3>1. gain(i, j) \in Int /\ gain(j, i) \in Int /\ i \in Int /\ j \in Int
      BY <1>3, <1>4
    <3>2. QED
      BY <1>1, <2>3, <3>1
  <2>4. QED
    BY <2>1, <2>2, <2>3 DEF StrictOrder
<1>8. BestOf(rs) = {i \in S : \A j \in S : j = i \/ <<j, i>> \in R}
  <2>1. ASSUME NEW i \in S, NEW j \in S
        PROVE  (IF j < i THEN gain(i, j) > gain(j, i) ELSE gain(i, j) >= gain(j, i))
                 <=> (j = i \/ <<j, i>> \in R)
    <3>1. gain(i, j) \in Int /\ gain(j, i) \in Int /\ i \in Int /\ j \in Int
      BY <1>3, <1>4
    <3>2. QED
      BY <1>1, <3>1
  <2>2. QED
    BY <1>2, <2>1
<1>9. (\E k \in DOMAIN rs : Stable(rs[k])) <=> S # {}
  BY DEF S
<1>10. CASE S = {}
  BY <1>8, <1>9, <1>10, FS_EmptySet DEF OneOfTheStable
<1>11. CASE S # {}
  <2>1. PICK b \in S : \A j \in S : j = b \/ <<j, b>> \in R
    BY <1>6, <1>7, <1>11, LastInOrder
  <2>2. ASSUME NEW c \in S, \A j \in S : j = c \/ <<j, c>> \in R PROVE c = b
    BY <1>7, <2>1, <2>2 DEF StrictOrder
  <2>3. BestOf(rs) = {b}
    BY <1>8, <2>1, <2>2
  <2>4. QED
    BY <1>9, <1>11, <2>3, FS_Singleton DEF OneOfTheStable
<1>12. QED
  BY <1>10, <1>11

VerdictInv ==
    /\ scan \in Scans /\ looked \in Nat
    /\ verdicts \in Seq({VerdictOn(scan, scan.horizons[k]) : k \in DOMAIN scan.horizons})

LEMMA ScanKeeps == VerdictInv /\ [ScanNext]_scanVars => VerdictInv'
<1> DEFINE V == {VerdictOn(scan, scan.horizons[k]) : k \in DOMAIN scan.horizons}
<1> SUFFICES ASSUME VerdictInv, [ScanNext]_scanVars PROVE VerdictInv'
  OBVIOUS
<1>1. scan \in Scans /\ looked \in Nat /\ verdicts \in Seq(V)
  BY DEF VerdictInv
<1>2. CASE ScanHorizon
  <2>1. scan' = scan /\ looked' = looked + 1 /\ looked < Len(scan.horizons)
    BY <1>2 DEF ScanHorizon
  <2>2. looked + 1 \in DOMAIN scan.horizons
    <3>1. scan.horizons \in Seq({scan.horizons[k] : k \in DOMAIN scan.horizons})
      BY <1>1, ScanAssumption DEF IsScan
    <3>2. Len(scan.horizons) \in Nat /\ DOMAIN scan.horizons = 1..Len(scan.horizons)
      BY <3>1, LenProperties
    <3>3. QED
      BY <1>1, <2>1, <3>2
  <2>3. \/ verdicts' = verdicts
        \/ verdicts' = Append(verdicts, VerdictOn(scan, scan.horizons[looked + 1]))
    BY <1>2 DEF ScanHorizon, VerdictOn
  <2>4. VerdictOn(scan, scan.horizons[looked + 1]) \in V
    BY <2>2
  <2>5. V' = V
    BY <2>1 DEF VerdictOn, HorizonResult, At, Net, ErrorOf, EarliestSlice, WalkPlan
  <2> HIDE DEF V
  <2>6. verdicts' \in Seq(V)
    BY <1>1, <2>3, <2>4, AppendProperties
  <2>7. QED
    BY <1>1, <2>1, <2>5, <2>6 DEF VerdictInv, V
<1>3. CASE UNCHANGED scanVars
  BY <1>3 DEF scanVars, VerdictInv, VerdictOn, HorizonResult, At, Net, ErrorOf, EarliestSlice, WalkPlan
<1>4. QED
  BY <1>2, <1>3 DEF ScanNext

\* Whatever the rows, the folds and the embargo: a forecast learnt only from
\* markets before the one it is tested on, one lying between; the folds' profits
\* are those of the rows they pool; the model that is shown knows nothing of
\* them; and one best horizon is named, if any is stable
\* (backtest/edgescan.py:277-381).
THEOREM Evidence == ScanSpec => []EvidenceIsForward
<1>1. ScanInit => VerdictInv
  BY EmptySeq DEF ScanInit, VerdictInv
<1>2. VerdictInv => EvidenceIsForward
  <2> DEFINE V == {VerdictOn(scan, scan.horizons[k]) : k \in DOMAIN scan.horizons}
  <2> SUFFICES ASSUME VerdictInv PROVE EvidenceIsForward
    OBVIOUS
  <2>1. scan \in Scans /\ verdicts \in Seq(V)
    BY DEF VerdictInv
  <2>2. DOMAIN verdicts = 1..Len(verdicts) /\ Len(verdicts) \in Nat
    BY <2>1, LenProperties
  <2>3. \A k \in DOMAIN verdicts : verdicts[k] \in V
    <3> HIDE DEF V
    <3>1. QED
      BY <2>1, <2>2, ElementOfSeq
  <2>4. ASSUME NEW k \in DOMAIN verdicts
        PROVE  /\ ForwardOnly(verdicts[k])
               /\ Stable(verdicts[k]) => verdicts[k].net \in Int /\ verdicts[k].trades \in Positive
    <3>1. PICK l \in DOMAIN scan.horizons : verdicts[k] = VerdictOn(scan, scan.horizons[l])
      BY <2>3
    <3>2. ForwardOnly(VerdictOn(scan, scan.horizons[l]))
      BY <2>1, VerdictIsForward
    <3>3. /\ VerdictOn(scan, scan.horizons[l]).net \in Int
          /\ VerdictOn(scan, scan.horizons[l]).net > 0
               => VerdictOn(scan, scan.horizons[l]).trades \in Positive
      BY <2>1, NetAdds, ProfitIsTraded
    <3>4. QED
      BY <3>1, <3>2, <3>3 DEF Stable
  <2>5. IsFiniteSet(DOMAIN verdicts) /\ DOMAIN verdicts \in SUBSET Int
    <3>1. 1 \in Int /\ Len(verdicts) \in Int
      BY <2>2
    <3>2. IsFiniteSet(1..Len(verdicts))
      BY ONLY <3>1, FS_Interval
    <3>3. QED
      BY <2>2, <3>2
  <2>6. OneOfTheStable(verdicts)
    BY <2>4, <2>5, OneBest
  <2>7. QED
    BY <2>4, <2>6 DEF EvidenceIsForward, ForwardOnly, OneOfTheStable
<1>3. QED
  BY <1>1, <1>2, ScanKeeps, PTL DEF ScanSpec

-----------------------------------------------------------------------------
(***************************************************************************)
(* What a training rests on: its features, its parameters, its calibration.*)
(* The columns kept are reached one at a time (PruneIsWalked).             *)
(***************************************************************************)
\* What one more column adds to those kept.
KeptWith(in, kept, c) ==
    IF c \in in.constant \/ Redundant(in, kept, c) THEN kept ELSE Append(kept, c)

LEMMA PruneIsWalked ==
    ASSUME NEW in, in.columns \in Seq(Nat)
    PROVE  \E kept \in [0..Len(in.columns) -> Seq(Nat)] :
             /\ Prune(in) = kept[Len(in.columns)] /\ kept[0] = <<>>
             /\ \A n \in 1..Len(in.columns) :
                  kept[n] = KeptWith(in, kept[n - 1], in.columns[n])
<1> DEFINE V == Seq(Nat)
           m == Len(in.columns)
           next == [k \in 1..m |-> [s \in V |-> KeptWith(in, s, in.columns[k])]]
           Walk(f) == f = [n \in 0..m |->
                             IF n = 0 THEN <<>>
                             ELSE IF in.columns[n] \in in.constant \/ Redundant(in, f[n - 1], in.columns[n])
                                  THEN f[n - 1]
                                  ELSE Append(f[n - 1], in.columns[n])]
           kept == CHOOSE f : Walk(f)
<1>1. m \in Nat /\ \A k \in 1..m : in.columns[k] \in Nat
  BY LenProperties, ElementOfSeq
<1>2. <<>> \in V
  BY EmptySeq
<1>3. Prune(in) = kept[m]
  BY DEF Prune
<1> HIDE DEF m
<1>4. next \in [1..m -> [V -> V]]
  <2>1. ASSUME NEW k \in 1..m, NEW s \in V PROVE KeptWith(in, s, in.columns[k]) \in V
    BY <1>1, AppendProperties DEF KeptWith
  <2>2. QED
    BY <2>1
<1>5. \A k \in 1..m : \A s \in V : next[k][s] = KeptWith(in, s, in.columns[k])
  OBVIOUS
<1> HIDE DEF next, V
<1>6. PICK f \in [0..m -> V] : f = [k \in 0..m |-> IF k = 0 THEN <<>> ELSE next[k][f[k - 1]]]
  <2>1. IteratedBy(V, <<>>, m, next)
    BY <1>1, <1>2, <1>4, IteratedFrom
  <2>2. QED
    BY <2>1 DEF IteratedBy
<1>7. f[0] = <<>> /\ \A n \in 1..m : n \in 0..m /\ n # 0 /\ n - 1 \in 0..m
  BY <1>1, <1>6
<1>8. \A n \in 1..m : f[n] = KeptWith(in, f[n - 1], in.columns[n])
  BY <1>5, <1>6, <1>7
<1>9. \A n \in 0..m : n = 0 \/ n \in 1..m
  BY <1>1
<1>10. \E g : Walk(g)
  <2>1. f = [n \in 0..m |-> f[n]]
    OBVIOUS
  <2>2. \A n \in 0..m : f[n] = IF n = 0 THEN <<>>
                             ELSE IF in.columns[n] \in in.constant \/ Redundant(in, f[n - 1], in.columns[n])
                                  THEN f[n - 1]
                                  ELSE Append(f[n - 1], in.columns[n])
    BY <1>7, <1>8, <1>9 DEF KeptWith
  <2>3. Walk(f)
    BY <2>1, <2>2
  <2>4. QED
    BY <2>3
<1>11. Walk(kept)
  <2> HIDE DEF Walk
  <2>1. QED
    BY <1>10
<1> HIDE DEF kept
<1>12. /\ kept[0] = <<>> /\ kept = [n \in 0..m |-> kept[n]]
       /\ \A n \in 1..m : kept[n] = KeptWith(in, kept[n - 1], in.columns[n])
  <2>1. kept[0] = <<>> /\ kept = [n \in 0..m |-> kept[n]]
    BY <1>1, <1>11
  <2>2. ASSUME NEW n \in 1..m PROVE kept[n] = KeptWith(in, kept[n - 1], in.columns[n])
    <3>1. n \in 0..m /\ n # 0
      BY <1>7
    <3>2. QED
      BY <1>11, <3>1 DEF KeptWith
  <2>3. QED
    BY <2>1, <2>2
<1> DEFINE K == {n \in Nat : kept[n] \in V}
<1>13. \A n \in 0..m : n \in K
  <2>1. 0 \in K
    BY <1>2, <1>12
  <2>2. ASSUME NEW n \in Nat, n < m, n \in K PROVE n + 1 \in K
    <3>1. n + 1 \in 1..m /\ (n + 1) - 1 = n
      BY <1>1, <2>2
    <3>2. kept[n + 1] = KeptWith(in, kept[n], in.columns[n + 1])
      BY <1>12, <3>1
    <3>3. kept[n] \in Seq(Nat) /\ in.columns[n + 1] \in Nat
      BY <1>1, <2>2, <3>1 DEF V
    <3>4. kept[n + 1] \in Seq(Nat)
      BY <3>2, <3>3, AppendProperties DEF KeptWith
    <3>5. QED
      BY <3>4 DEF V
  <2> HIDE DEF K
  <2>3. QED
    BY <1>1, <2>1, <2>2, CountsUpTo
<1>14. kept \in [0..m -> V]
  BY <1>12, <1>13
<1>15. QED
  BY <1>3, <1>12, <1>14 DEF m, V

\* No constant is kept, and none that a column kept before it makes redundant.
KeptApart(in, s) ==
    \A i \in DOMAIN s : /\ s[i] \notin in.constant
                        /\ \A j \in DOMAIN s : i < j => ~Twins(in, s[j], s[i])

LEMMA PrunedApart ==
    ASSUME NEW in, in.columns \in Seq(Nat)
    PROVE  /\ Prune(in) \in Seq(Nat) /\ Pruned(in) \cap in.constant = {}
           /\ \A c, d \in Pruned(in) : c # d => ~Twins(in, c, d)
<1> DEFINE m == Len(in.columns)
<1>1. m \in Nat /\ \A k \in 1..m : in.columns[k] \in Nat
  BY LenProperties, ElementOfSeq
<1>2. PICK kept \in [0..m -> Seq(Nat)] :
        /\ Prune(in) = kept[m] /\ kept[0] = <<>>
        /\ \A n \in 1..m : kept[n] = KeptWith(in, kept[n - 1], in.columns[n])
  BY PruneIsWalked
<1> HIDE DEF m
<1> DEFINE K == {n \in Nat : KeptApart(in, kept[n])}
<1>3. \A n \in 0..m : n \in K
  <2>1. 0 \in K
    <3>1. DOMAIN kept[0] = {}
      BY <1>2
    <3>2. QED
      BY <3>1 DEF KeptApart
  <2>2. ASSUME NEW n \in Nat, n < m, n \in K PROVE n + 1 \in K
    <3>1. n + 1 \in 1..m /\ (n + 1) - 1 = n /\ n \in 0..m
      BY <1>1, <2>2
    <3> DEFINE c == in.columns[n + 1]
    <3>2. kept[n + 1] = KeptWith(in, kept[n], c) /\ kept[n] \in Seq(Nat) /\ c \in Nat
      BY <1>1, <1>2, <3>1
    <3>3. PICK s \in Seq(Nat) : s = kept[n]
      BY <3>2
    <3>4. KeptApart(in, s) /\ kept[n + 1] = KeptWith(in, s, c)
      BY <2>2, <3>2, <3>3
    <3> HIDE DEF c
    <3>5. CASE c \in in.constant \/ Redundant(in, s, c)
      BY <3>4, <3>5 DEF KeptWith
    <3>6. CASE ~(c \in in.constant \/ Redundant(in, s, c))
      <4> DEFINE t == Append(s, c)
      <4>1. Len(s) \in Nat /\ DOMAIN s = 1..Len(s)
        BY LenProperties
      <4>2. /\ DOMAIN t = 1..(Len(s) + 1) /\ t[Len(s) + 1] = c
            /\ \A i \in 1..Len(s) : t[i] = s[i]
        BY <3>2, <4>1, AppendProperties, LenProperties
      <4> HIDE DEF t
      <4>3. \A i \in 1..(Len(s) + 1) : i \in 1..Len(s) \/ i = Len(s) + 1
        BY <4>1
      <4>4. ASSUME NEW i \in DOMAIN t PROVE t[i] \notin in.constant
        BY <3>4, <3>6, <4>1, <4>2, <4>3 DEF KeptApart
      <4>5. ASSUME NEW i \in DOMAIN t, NEW j \in DOMAIN t, i < j PROVE ~Twins(in, t[j], t[i])
        <5>1. i \in 1..Len(s)
          BY <4>1, <4>2, <4>5
        <5>2. CASE j = Len(s) + 1
          BY <3>6, <4>1, <4>2, <5>1, <5>2 DEF Redundant
        <5>3. CASE j \in 1..Len(s)
          BY <3>4, <4>1, <4>2, <4>5, <5>1, <5>3 DEF KeptApart
        <5>4. QED
          BY <4>2, <4>3, <5>2, <5>3
      <4>6. KeptApart(in, t)
        BY <4>4, <4>5 DEF KeptApart
      <4>7. kept[n + 1] = t
        BY <3>4, <3>6 DEF KeptWith, t
      <4>8. QED
        BY <4>6, <4>7
    <3>7. QED
      BY <3>5, <3>6
  <2> HIDE DEF K
  <2>3. QED
    BY <1>1, <2>1, <2>2, CountsUpTo
<1>4. m \in 0..m
  BY <1>1
<1>5. PICK s \in Seq(Nat) : s = Prune(in) /\ KeptApart(in, s)
  BY <1>2, <1>3, <1>4
<1>6. Len(s) \in Nat /\ DOMAIN s = 1..Len(s)
  BY LenProperties
<1>7. Pruned(in) = {s[i] : i \in DOMAIN s}
  BY <1>5 DEF Pruned, Range
<1>8. ASSUME NEW c \in Pruned(in), NEW d \in Pruned(in), c # d PROVE ~Twins(in, c, d)
  <2>1. PICK i \in DOMAIN s : c = s[i]
    BY <1>7
  <2>2. PICK j \in DOMAIN s : d = s[j]
    BY <1>7
  <2>3. i < j \/ j < i
    BY <1>6, <1>8, <2>1, <2>2
  <2>4. {c, d} = {d, c}
    OBVIOUS
  <2>5. QED
    BY <1>5, <2>1, <2>2, <2>3, <2>4 DEF KeptApart, Twins
<1>9. QED
  BY <1>5, <1>7, <1>8 DEF KeptApart

-----------------------------------------------------------------------------
FirstIs(s, n, m) ==
    /\ m <= n /\ m <= Len(s) /\ (m = n \/ m = Len(s))
    /\ DOMAIN FirstOf(s, n) = 1..m /\ Range(FirstOf(s, n)) = {s[i] : i \in 1..m}
    /\ \A i \in 1..m : i \in DOMAIN s
    /\ FirstOf(s, n) = <<>> <=> m = 0

\* The first of a sequence, and how many values a sequence can have.
LEMMA FirstOnes ==
    ASSUME NEW S, NEW s \in Seq(S), NEW n \in Nat
    PROVE  \E m \in Nat : FirstIs(s, n, m)
<1> DEFINE m == Min({n, Len(s)})
           t == SubSeq(s, 1, m)
<1>1. Len(s) \in Nat /\ DOMAIN s = 1..Len(s) /\ \A i \in 1..Len(s) : s[i] \in S
  BY LenProperties, ElementOfSeq
<1>2. m = IF n <= Len(s) THEN n ELSE Len(s)
  BY <1>1, OfTwo
<1>3. m \in Nat /\ m <= n /\ m <= Len(s) /\ (m = n \/ m = Len(s))
  BY <1>1, <1>2
<1>4. FirstOf(s, n) = t
  BY DEF FirstOf
<1> HIDE DEF m
<1>5. 1 \in Int /\ m \in Int /\ \A i \in 1..m : i \in 1..Len(s) /\ s[i] \in S
  <2>1. PICK l \in Nat : l = Len(s) /\ m <= l
    BY <1>1, <1>3
  <2>2. m \in Nat /\ \A i \in 1..l : s[i] \in S
    BY <1>1, <1>3, <2>1
  <2>3. \A i \in 1..m : i \in 1..l
    BY ONLY <2>1, <2>2
  <2>4. QED
    BY ONLY <2>1, <2>2, <2>3
<1>6. /\ t \in Seq(S) /\ Len(t) = (IF 1 <= m THEN m - 1 + 1 ELSE 0)
      /\ \A i \in 1..(m - 1 + 1) : t[i] = s[1 + i - 1]
  BY ONLY <1>5, SubSeqProperties
<1> HIDE DEF t
<1>7. DOMAIN t = 1..Len(t) /\ Len(t) = m
  BY <1>3, <1>6, LenProperties
<1>8. \A i \in 1..m : t[i] = s[i]
  <2>1. ASSUME NEW i \in 1..m PROVE t[i] = s[i]
    <3>1. i \in 1..(m - 1 + 1) /\ 1 + i - 1 = i
      BY <1>3
    <3>2. QED
      BY <1>6, <3>1
  <2>2. QED
    BY <2>1
<1>9. Range(t) = {s[i] : i \in 1..m}
  BY <1>7, <1>8 DEF Range
<1>10. t = <<>> <=> m = 0
  BY <1>3, <1>6, <1>7, EmptySeq
<1>11. FirstIs(s, n, m)
  BY <1>1, <1>3, <1>4, <1>5, <1>7, <1>9, <1>10 DEF FirstIs
<1>12. QED
  BY <1>3, <1>11

LEMMA FewValues ==
    ASSUME NEW m \in Nat, NEW f, DOMAIN f = 1..m
    PROVE  IsFiniteSet(Range(f)) /\ Cardinality(Range(f)) \in Nat /\ Cardinality(Range(f)) <= m
<1> DEFINE D == 1..m
           g == [i \in D |-> f[i]]
<1>1. g \in Surjection(D, Range(f))
  BY DEF Surjection, Range
<1>2. IsFiniteSet(D) /\ Cardinality(D) = m
  <2>1. 1 \in Int /\ m \in Int
    OBVIOUS
  <2>2. IsFiniteSet(1..m) /\ Cardinality(1..m) = IF 1 > m THEN 0 ELSE m - 1 + 1
    BY ONLY <2>1, FS_Interval
  <2>3. QED
    BY <2>2
<1> HIDE DEF g, D
<1>3. IsFiniteSet(Range(f)) /\ Cardinality(Range(f)) <= Cardinality(D)
  BY <1>1, <1>2, FS_Surjection
<1>4. QED
  BY <1>2, <1>3, FS_CardinalityType

-----------------------------------------------------------------------------
LEMMA SelectionTypes ==
    ASSUME NEW in, IsSelection(in)
    PROVE  /\ in.columns \in Seq(Nat) /\ in.limit \in Nat /\ in.limit >= 1
           /\ Prune(in) \in Seq(Nat) /\ IsFiniteSet(Pruned(in)) /\ Pruned(in) \subseteq Nat
           /\ in.rankings \in Seq(Seq(Nat)) /\ Len(in.rankings) = 4 /\ DOMAIN in.rankings = 1..4
           /\ IsFiniteSet(Usable(in)) /\ Usable(in) \subseteq 1..4
           /\ Cardinality(Usable(in)) \in 0..4
<1>1. in.columns \in Seq(Nat) /\ in.limit \in Nat /\ in.limit >= 1
  BY DEF IsSelection
<1>2. Prune(in) \in Seq(Nat)
  BY <1>1, PrunedApart
<1>3. Len(Prune(in)) \in Nat /\ DOMAIN Prune(in) = 1..Len(Prune(in))
  BY <1>2, LenProperties
<1>4. IsFiniteSet(Pruned(in)) /\ Pruned(in) \subseteq Nat
  <2>1. IsFiniteSet(Range(Prune(in)))
    BY <1>3, FewValues
  <2>2. \A i \in DOMAIN Prune(in) : Prune(in)[i] \in Nat
    BY <1>2, <1>3, ElementOfSeq
  <2>3. QED
    BY <2>1, <2>2 DEF Pruned, Range
<1>5. in.rankings \in [1..4 -> Seq(Nat)]
  BY DEF IsSelection
<1>6. in.rankings \in Seq(Seq(Nat))
  <2>1. PICK T : T = Seq(Nat)
    OBVIOUS
  <2>2. in.rankings \in [1..4 -> T] /\ 4 \in Nat
    BY <1>5, <2>1
  <2>3. in.rankings \in UNION {[1..n -> T] : n \in Nat}
    BY ONLY <2>2
  <2>4. QED
    BY <2>1, <2>3, SeqDef
<1>7. Len(in.rankings) \in Nat /\ DOMAIN in.rankings = 1..Len(in.rankings) /\ DOMAIN in.rankings = 1..4
  BY <1>5, <1>6, LenProperties
<1>8. Len(in.rankings) = 4
  <2>1. PICK k \in Nat : k = Len(in.rankings)
    BY <1>7
  <2>2. 1..k = 1..4
    BY <1>7, <2>1
  <2>3. 4 \in 1..k /\ (k = 0 \/ k \in 1..4)
    BY ONLY <2>2
  <2>4. k = 4
    BY ONLY <2>3
  <2>5. QED
    BY <2>1, <2>4
<1>9. IsFiniteSet(1..4) /\ Cardinality(1..4) = 4
  <2>1. 1 \in Int /\ 4 \in Int
    OBVIOUS
  <2>2. IsFiniteSet(1..4) /\ Cardinality(1..4) = IF 1 > 4 THEN 0 ELSE 4 - 1 + 1
    BY ONLY <2>1, FS_Interval
  <2>3. QED
    BY <2>2
<1>10. Usable(in) \in SUBSET (1..4)
  BY <1>7 DEF Usable
<1>11. IsFiniteSet(Usable(in)) /\ Cardinality(Usable(in)) <= 4 /\ Cardinality(Usable(in)) \in Nat
  <2>1. IsFiniteSet(Usable(in)) /\ Cardinality(Usable(in)) <= Cardinality(1..4)
    BY ONLY <1>9, <1>10, FS_Subset
  <2>2. QED
    BY <1>9, <2>1, FS_CardinalityType
<1>12. Cardinality(Usable(in)) \in 0..4
  BY <1>11
<1>13. QED
  BY <1>1, <1>2, <1>4, <1>6, <1>7, <1>8, <1>10, <1>11, <1>12

\* A product rounded half to even is at least half of up to four at a threshold
\* of a half.
LEMMA HalfOfFour ==
    ASSUME NEW n \in 1..4, NEW percent \in 50..100
    PROVE  Rounded(n, percent) \in Nat /\ (2 * Rounded(n, percent) >= n \/ n = 1)
<1> DEFINE x == percent * n
           q == x \div 100
           r == x % 100
<1>1. x \in Nat /\ x >= 50 * n
  <2>1. n = 1 \/ n = 2 \/ n = 3 \/ n = 4
    OBVIOUS
  <2>2. QED
    BY <2>1
<1> HIDE DEF x
<1>2. q \in Nat /\ q * 100 <= x /\ x < (q + 1) * 100
  BY <1>1, Quotient
<1>3. x = 100 * q + r /\ r \in 0..99
  BY <1>1, Z3
<1>4. q % 2 = 1 \/ q % 2 = 0
  BY <1>2, Z3
<1>5. Rounded(n, percent) = IF r > 50 \/ (r = 50 /\ q % 2 = 1) THEN q + 1 ELSE q
  BY DEF Rounded, x
<1>6. n = 4 => q >= 2
  BY <1>1, <1>2
<1>7. n = 2 => q >= 1
  BY <1>1, <1>2
<1>8. n = 3 => q >= 2 \/ (q = 1 /\ r >= 50)
  BY <1>1, <1>2, <1>3
<1>9. q = 1 => q % 2 = 1
  BY Z3
<1> HIDE DEF q, r
<1>10. n = 1 \/ n = 2 \/ n = 3 \/ n = 4
  OBVIOUS
<1>11. QED
  BY <1>2, <1>3, <1>5, <1>6, <1>7, <1>8, <1>9, <1>10

-----------------------------------------------------------------------------
\* The survivors in their order, and the selection as the first of them.
Order(in) == {p \in Survivors(in) \X Survivors(in) : Ahead(in, p[1], p[2])}

LEMMA VotesType ==
    ASSUME NEW in, IsSelection(in)
    PROVE  /\ \A c : Votes(in, c) \in Nat
           /\ IsFiniteSet(Survivors(in)) /\ Survivors(in) \subseteq Pruned(in)
           /\ Cardinality(Survivors(in)) \in Nat
           /\ StrictOrder(Survivors(in), Order(in))
<1>1. ASSUME NEW c PROVE Votes(in, c) \in Nat
  <2> DEFINE voters == {i \in Usable(in) : c \in Top(in, in.rankings[i])}
  <2>1. IsFiniteSet(Usable(in)) /\ voters \in SUBSET Usable(in)
    BY SelectionTypes
  <2>2. Votes(in, c) = Cardinality(voters)
    BY DEF Votes
  <2> HIDE DEF voters
  <2>3. QED
    BY <2>1, <2>2, FS_Subset, FS_CardinalityType
<1>2. Survivors(in) \in SUBSET Pruned(in)
  BY DEF Survivors
<1>3. IsFiniteSet(Survivors(in)) /\ Cardinality(Survivors(in)) \in Nat
  BY <1>2, SelectionTypes, FS_Subset, FS_CardinalityType
<1>4. \A c \in Survivors(in) : c \in Nat /\ Votes(in, c) \in Nat
  BY <1>1, <1>2, SelectionTypes
<1>5. \A c, d \in Survivors(in) : <<c, d>> \in Order(in) <=> Ahead(in, c, d)
  BY DEF Order
<1>6. StrictOrder(Survivors(in), Order(in))
  <2>1. \A c \in Survivors(in) : ~Ahead(in, c, c)
    BY <1>4 DEF Ahead
  <2>2. \A c, d, e \in Survivors(in) : Ahead(in, c, d) /\ Ahead(in, d, e) => Ahead(in, c, e)
    BY <1>4 DEF Ahead
  <2>3. \A c, d \in Survivors(in) : c = d \/ Ahead(in, c, d) \/ Ahead(in, d, c)
    BY <1>4 DEF Ahead
  <2>4. QED
    BY <1>5, <2>1, <2>2, <2>3 DEF StrictOrder
<1>7. QED
  BY <1>1, <1>2, <1>3, <1>6

\* As many as the limit lets through, each at its place.
ByAhead(S, R, n) == [k \in 1..Min({n, Cardinality(S)}) |-> AtPlace(S, R, k - 1)]

LEMMA SelectedIs ==
    ASSUME NEW in, IsSelection(in), Usable(in) # {}
    PROVE  /\ Selected(in) = ByAhead(Survivors(in), Order(in), in.limit)
           /\ DOMAIN Selected(in) = 1..Min({in.limit, Cardinality(Survivors(in))})
           /\ \A k \in DOMAIN Selected(in) : Selected(in)[k] \in Survivors(in)
<1> DEFINE S == Survivors(in)
           R == Order(in)
           ahead(c) == {d \in S : Ahead(in, d, c)}
           chosen(k) == CHOOSE c \in S : Cardinality(ahead(c)) = k - 1
           m == Min({in.limit, Cardinality(S)})
<1>1. /\ IsFiniteSet(S) /\ Cardinality(S) \in Nat /\ StrictOrder(S, R)
      /\ in.limit \in Nat /\ in.limit >= 1
  BY VotesType, SelectionTypes
<1>2. m \in Nat /\ m <= Cardinality(S)
  BY <1>1, OfTwo
<1>3. Selected(in) = [k \in 1..m |-> chosen(k)]
  BY DEF Selected
<1>4. \A c \in S : ahead(c) = {t \in S : <<t, c>> \in R}
  BY DEF Order
<1>5. \A c \in S : Cardinality(ahead(c)) = Place(S, R)[c]
  BY <1>4 DEF Place
<1> HIDE DEF S, R, m, ahead
<1>6. ASSUME NEW k \in 1..m PROVE chosen(k) \in S /\ chosen(k) = AtPlace(S, R, k - 1)
  <2>1. k - 1 \in 0..(Cardinality(S) - 1)
    BY <1>1, <1>2
  <2>2. AtPlace(S, R, k - 1) \in S /\ Place(S, R)[AtPlace(S, R, k - 1)] = k - 1
    BY <1>1, <2>1, AtPlaceIs
  <2>3. chosen(k) \in S /\ Cardinality(ahead(chosen(k))) = k - 1
    <3>1. \E c \in S : Cardinality(ahead(c)) = k - 1
      BY <1>5, <2>2
    <3>2. QED
      BY <3>1
  <2>4. Place(S, R)[chosen(k)] = k - 1
    BY <1>5, <2>3
  <2>5. chosen(k) = AtPlace(S, R, k - 1)
    BY <1>1, <2>2, <2>3, <2>4, PlacesTaken
  <2>6. QED
    BY <2>3, <2>5
<1> HIDE DEF chosen
<1>7. DOMAIN Selected(in) = 1..m /\ \A k \in 1..m : Selected(in)[k] = chosen(k)
  BY <1>3
<1>8. \A k \in DOMAIN Selected(in) : Selected(in)[k] \in S
  BY <1>6, <1>7
<1>9. Selected(in) = [k \in 1..m |-> AtPlace(S, R, k - 1)]
  BY <1>3, <1>6
<1>10. QED
  BY <1>7, <1>8, <1>9 DEF ByAhead, S, R, m

LEMMA SelectedAreKept ==
    ASSUME NEW in, IsSelection(in)
    PROVE  /\ Range(Selected(in)) \subseteq Pruned(in)
           /\ Cardinality(Range(Selected(in))) <= in.limit
           /\ Usable(in) # {} => Range(Selected(in)) \subseteq Survivors(in)
<1>1. in.limit \in Nat /\ Prune(in) \in Seq(Nat)
  BY SelectionTypes
<1>2. CASE Usable(in) = {}
  <2> DEFINE s == Prune(in)
  <2>1. Selected(in) = FirstOf(s, in.limit)
    BY <1>2 DEF Selected
  <2>2. PICK m \in Nat : FirstIs(s, in.limit, m)
    BY <1>1, FirstOnes
  <2>3. Pruned(in) = {s[i] : i \in DOMAIN s}
    BY DEF Pruned, Range
  <2> HIDE DEF s
  <2>4. Range(Selected(in)) \subseteq Pruned(in)
    BY <2>1, <2>2, <2>3 DEF FirstIs
  <2>5. Cardinality(Range(Selected(in))) <= m /\ Cardinality(Range(Selected(in))) \in Nat
    BY <2>1, <2>2, FewValues DEF FirstIs
  <2>6. QED
    BY <1>1, <1>2, <2>2, <2>4, <2>5 DEF FirstIs
<1>3. CASE Usable(in) # {}
  <2> DEFINE m == Min({in.limit, Cardinality(Survivors(in))})
  <2>1. /\ DOMAIN Selected(in) = 1..m
        /\ \A k \in DOMAIN Selected(in) : Selected(in)[k] \in Survivors(in)
    BY <1>3, SelectedIs
  <2>2. Cardinality(Survivors(in)) \in Nat /\ Survivors(in) \subseteq Pruned(in)
    BY VotesType
  <2>3. m \in Nat /\ m <= in.limit
    BY <1>1, <2>2, OfTwo
  <2> HIDE DEF m
  <2>4. Range(Selected(in)) \subseteq Survivors(in)
    BY <2>1 DEF Range
  <2>5. Cardinality(Range(Selected(in))) <= m /\ Cardinality(Range(Selected(in))) \in Nat
    BY <2>1, <2>3, FewValues
  <2>6. QED
    BY <1>1, <2>2, <2>3, <2>4, <2>5
<1>4. QED
  BY <1>2, <1>3

\* A survivor has the votes the threshold asks for.
LEMMA SurvivorsHaveVotes ==
    ASSUME NEW in, IsSelection(in), Usable(in) # {}, NEW c \in Survivors(in)
    PROVE  /\ Votes(in, c) >= 1
           /\ VotePercent >= 50 => 2 * Votes(in, c) >= Cardinality(Usable(in))
<1> DEFINE n == Cardinality(Usable(in))
           required == Rounded(n, VotePercent)
<1>1. n \in 1..4
  <2>1. IsFiniteSet(Usable(in)) /\ n \in 0..4
    BY SelectionTypes
  <2>2. n # 0
    BY <2>1, FS_EmptySet
  <2> HIDE DEF n
  <2>3. QED
    BY <2>1, <2>2
<1>2. Votes(in, c) \in Nat /\ Votes(in, c) >= Required(in) /\ Required(in) = Max({1, required})
  BY VotesType DEF Survivors, Required
<1>3. VotePercent \in 1..100
  BY ChoiceAssumption DEF ChoiceConstants
<1> HIDE DEF n
<1>4. required \in Int
  <2>1. VotePercent * n \in Nat
    BY <1>1, <1>3
  <2>2. (VotePercent * n) \div 100 \in Nat
    BY <2>1, Quotient
  <2>3. QED
    BY <2>2 DEF Rounded
<1>5. VotePercent >= 50 => required \in Nat /\ (2 * required >= n \/ n = 1)
  BY <1>1, <1>3, HalfOfFour
<1> HIDE DEF required
<1>6. Required(in) = IF 1 <= required THEN required ELSE 1
  BY <1>2, <1>4, OfTwo
<1>7. Votes(in, c) >= 1 /\ (VotePercent >= 50 => 2 * Votes(in, c) >= n)
  BY <1>1, <1>2, <1>4, <1>5, <1>6
<1>8. QED
  BY <1>7 DEF n

-----------------------------------------------------------------------------
\* Rankings in another order: the same columns, votes and selection.
Flipped(in) == [in EXCEPT !.rankings = Reverse(in.rankings)]

LEMMA FlippedIs ==
    ASSUME NEW in, IsSelection(in)
    PROVE  /\ IsSelection(Flipped(in))
           /\ Flipped(in).columns = in.columns /\ Flipped(in).limit = in.limit
           /\ Flipped(in).constant = in.constant /\ Flipped(in).twins = in.twins
           /\ \A i \in 1..4 : Flipped(in).rankings[i] = in.rankings[5 - i]
<1> DEFINE r == Reverse(in.rankings)
           f == Flipped(in)
<1>1. Len(in.rankings) = 4 /\ in.rankings \in [1..4 -> Seq(Nat)]
  BY SelectionTypes DEF IsSelection
<1>2. r = [i \in 1..4 |-> in.rankings[5 - i]]
  <2>1. \A i \in 1..4 : (4 - i) + 1 = 5 - i
    OBVIOUS
  <2>2. r = [i \in 1..4 |-> in.rankings[(4 - i) + 1]]
    BY <1>1 DEF Reverse
  <2>3. QED
    BY <2>1, <2>2
<1>3. r \in [1..4 -> Seq(Nat)]
  <2>1. \A i \in 1..4 : 5 - i \in 1..4
    OBVIOUS
  <2>2. \A i \in 1..4 : in.rankings[5 - i] \in Seq(Nat)
    BY <1>1, <2>1
  <2>3. QED
    BY <1>2, <2>2
<1> HIDE DEF r
<1>4. in \in [job : {"selection"}, columns : Seq(Nat), constant : SUBSET Nat,
              twins : SUBSET SUBSET Nat, rankings : [1..4 -> Seq(Nat)], limit : Nat \ {0}]
  BY DEF IsSelection
<1>5. f = [in EXCEPT !.rankings = r]
  BY DEF Flipped, r
<1> HIDE DEF f
<1>6. /\ f.columns = in.columns /\ f.limit = in.limit /\ f.constant = in.constant
      /\ f.twins = in.twins /\ f.rankings = r /\ f.job = in.job
  BY <1>4, <1>5
<1>7. IsSelection(f)
  <2>1. f \in [job : {"selection"}, columns : Seq(Nat), constant : SUBSET Nat,
               twins : SUBSET SUBSET Nat, rankings : [1..4 -> Seq(Nat)], limit : Nat \ {0}]
    BY <1>3, <1>4, <1>5
  <2>2. f.job = "selection"
    BY <2>1
  <2>3. QED
    BY <2>1, <2>2 DEF IsSelection
<1>8. \A i \in 1..4 : f.rankings[i] = in.rankings[5 - i]
  BY <1>2, <1>6
<1>9. QED
  BY <1>6, <1>7, <1>8 DEF f

\* The pruning reads nothing of the rankings.
LEMMA FlippedPrune ==
    ASSUME NEW in, IsSelection(in)
    PROVE  Prune(Flipped(in)) = Prune(in)
<1> DEFINE f == Flipped(in)
           m == Len(in.columns)
<1>1. /\ f.columns = in.columns /\ f.constant = in.constant /\ f.twins = in.twins
      /\ in.columns \in Seq(Nat)
  BY FlippedIs, SelectionTypes
<1>2. m \in Nat
  BY <1>1, LenProperties
<1> HIDE DEF f
<1>3. PICK a \in [0..m -> Seq(Nat)] :
        /\ Prune(in) = a[m] /\ a[0] = <<>>
        /\ \A n \in 1..m : a[n] = KeptWith(in, a[n - 1], in.columns[n])
  BY <1>1, PruneIsWalked
<1>4. f.columns \in Seq(Nat) /\ Len(f.columns) = m
  BY <1>1
<1>5. PICK b \in [0..Len(f.columns) -> Seq(Nat)] :
        /\ Prune(f) = b[Len(f.columns)] /\ b[0] = <<>>
        /\ \A n \in 1..Len(f.columns) : b[n] = KeptWith(f, b[n - 1], f.columns[n])
  BY <1>4, PruneIsWalked
<1>6. \A s, c : KeptWith(f, s, c) = KeptWith(in, s, c)
  BY <1>1 DEF KeptWith, Redundant, Twins
<1> HIDE DEF m
<1>7. /\ Prune(f) = b[m] /\ b[0] = <<>>
      /\ \A n \in 1..m : b[n] = KeptWith(in, b[n - 1], in.columns[n])
  BY <1>1, <1>4, <1>5, <1>6
<1> DEFINE K == {n \in Nat : a[n] = b[n]}
<1>8. \A n \in 0..m : n \in K
  <2>1. 0 \in K
    BY <1>3, <1>7
  <2>2. ASSUME NEW n \in Nat, n < m, n \in K PROVE n + 1 \in K
    <3>1. n + 1 \in 1..m /\ (n + 1) - 1 = n
      BY <1>2, <2>2
    <3>2. /\ a[n + 1] = KeptWith(in, a[n], in.columns[n + 1])
          /\ b[n + 1] = KeptWith(in, b[n], in.columns[n + 1])
      BY <1>3, <1>7, <3>1
    <3>3. QED
      BY <2>2, <3>2
  <2> HIDE DEF K
  <2>3. QED
    BY <1>2, <2>1, <2>2, CountsUpTo
<1>9. m \in 0..m
  BY <1>2
<1>10. QED
  BY <1>3, <1>7, <1>8, <1>9 DEF f

\* Places counted from the other end are as many.
LEMMA Mirrored ==
    ASSUME NEW A \in SUBSET (1..4), IsFiniteSet(A), NEW B \in SUBSET (1..4),
           \A i \in 1..4 : i \in B <=> 5 - i \in A
    PROVE  Cardinality(B) = Cardinality(A)
<1> DEFINE g == [i \in A |-> 5 - i]
<1>1. \A i \in 1..4 : 5 - i \in 1..4 /\ 5 - (5 - i) = i
  OBVIOUS
<1>2. \A i \in A : g[i] \in B
  BY <1>1
<1>3. \A j \in B : \E i \in A : g[i] = j
  <2> SUFFICES ASSUME NEW j \in B PROVE \E i \in A : g[i] = j
    OBVIOUS
  <2>1. 5 - j \in A /\ g[5 - j] = j
    BY <1>1
  <2>2. QED
    BY <2>1
<1>4. \A i, j \in A : g[i] = g[j] => i = j
  BY <1>1
<1>5. g \in [A -> B]
  <2>1. g = [i \in A |-> g[i]]
    OBVIOUS
  <2> HIDE DEF g
  <2>2. QED
    BY <1>2, <2>1
<1> HIDE DEF g
<1>6. g \in Surjection(A, B) /\ g \in Injection(A, B)
  BY <1>3, <1>4, <1>5 DEF Surjection, Injection, IsInjective
<1>7. QED
  BY <1>6, FS_Surjection

LEMMA FlippedSelects ==
    ASSUME NEW in, IsSelection(in)
    PROVE  Selected(Flipped(in)) = Selected(in)
<1> DEFINE f == Flipped(in)
<1>1. /\ IsSelection(f) /\ f.limit = in.limit
      /\ \A i \in 1..4 : f.rankings[i] = in.rankings[5 - i]
  BY FlippedIs
<1>2. Prune(f) = Prune(in)
  BY FlippedPrune
<1> HIDE DEF f
<1>3. Pruned(f) = Pruned(in) /\ Cutoff(f) = Cutoff(in)
  BY <1>1, <1>2 DEF Pruned, Cutoff
<1>4. \A r : Top(f, r) = Top(in, r)
  BY <1>3 DEF Top
<1>5. /\ DOMAIN in.rankings = 1..4 /\ DOMAIN f.rankings = 1..4
      /\ IsFiniteSet(Usable(in)) /\ Usable(in) \in SUBSET (1..4) /\ Usable(f) \in SUBSET (1..4)
  BY <1>1, SelectionTypes
<1>6. \A i \in 1..4 : 5 - i \in 1..4 /\ 5 - (5 - i) = i
  OBVIOUS
<1>7. \A i \in 1..4 : i \in Usable(f) <=> 5 - i \in Usable(in)
  BY <1>1, <1>3, <1>5, <1>6 DEF Usable
<1>8. Cardinality(Usable(f)) = Cardinality(Usable(in))
  BY <1>5, <1>7, Mirrored
<1>9. ASSUME NEW c PROVE Votes(f, c) = Votes(in, c)
  <2> DEFINE A == {i \in Usable(in) : c \in Top(in, in.rankings[i])}
             B == {i \in Usable(f) : c \in Top(f, f.rankings[i])}
  <2>1. Votes(in, c) = Cardinality(A) /\ Votes(f, c) = Cardinality(B)
    BY DEF Votes
  <2>2. A \in SUBSET (1..4) /\ B \in SUBSET (1..4) /\ A \in SUBSET Usable(in)
    BY <1>5
  <2>3. \A i \in 1..4 : i \in B <=> 5 - i \in A
    BY <1>1, <1>4, <1>6, <1>7
  <2> HIDE DEF A, B
  <2>4. IsFiniteSet(A)
    BY <1>5, <2>2, FS_Subset
  <2>5. QED
    BY <2>1, <2>2, <2>3, <2>4, Mirrored
<1>10. Usable(f) = {} <=> Usable(in) = {}
  <2>1. IsFiniteSet(Usable(f))
    BY <1>1, SelectionTypes
  <2>2. QED
    BY <1>5, <1>8, <2>1, FS_EmptySet
<1>11. CASE Usable(in) = {}
  BY <1>1, <1>2, <1>10, <1>11 DEF Selected, f
<1>12. CASE Usable(in) # {}
  <2>1. Required(f) = Required(in)
    BY <1>8 DEF Required
  <2>2. Survivors(f) = Survivors(in)
    BY <1>3, <1>9, <2>1 DEF Survivors
  <2>3. \A c, d : Ahead(f, c, d) = Ahead(in, c, d)
    BY <1>9 DEF Ahead
  <2>4. Order(f) = Order(in)
    BY <2>2, <2>3 DEF Order
  <2>5. /\ Selected(in) = ByAhead(Survivors(in), Order(in), in.limit)
        /\ Selected(f) = ByAhead(Survivors(f), Order(f), f.limit)
    BY <1>1, <1>10, <1>12, SelectedIs
  <2>6. QED
    BY <1>1, <2>2, <2>4, <2>5 DEF f
<1>13. QED
  BY <1>11, <1>12

LEMMA SelectionHolds ==
    ASSUME NEW in, IsSelection(in)
    PROVE  SelectionIsSound(in)
<1> DEFINE s == Range(Selected(in))
<1>1. s \subseteq Pruned(in) /\ Cardinality(s) <= in.limit
  BY SelectedAreKept
<1>2. /\ Pruned(in) \cap in.constant = {}
      /\ \A c, d \in Pruned(in) : c # d => ~Twins(in, c, d)
  BY SelectionTypes, PrunedApart
<1>3. Cardinality(Usable(in)) # 0 => \A c \in s : /\ Votes(in, c) >= 1
                                   /\ VotePercent >= 50 => 2 * Votes(in, c) >= Cardinality(Usable(in))
  <2> SUFFICES ASSUME Cardinality(Usable(in)) # 0, NEW c \in s
               PROVE  /\ Votes(in, c) >= 1
                      /\ VotePercent >= 50 => 2 * Votes(in, c) >= Cardinality(Usable(in))
    OBVIOUS
  <2>1. Usable(in) # {}
    BY FS_EmptySet
  <2>2. c \in Survivors(in)
    BY <2>1, SelectedAreKept
  <2>3. QED
    BY <2>1, <2>2, SurvivorsHaveVotes
<1>4. Selected(in) = Selected([in EXCEPT !.rankings = Reverse(in.rankings)])
  BY FlippedSelects DEF Flipped
<1> HIDE DEF s
<1>5. s \cap in.constant = {} /\ \A c, d \in s : c # d => ~Twins(in, c, d)
  BY <1>1, <1>2
<1>6. QED
  BY <1>1, <1>3, <1>4, <1>5 DEF SelectionIsSound, s

-----------------------------------------------------------------------------
(* The search. *)

Values(in) == Range(in.first) \X Range(in.second)

LEMMA GridInside ==
    ASSUME NEW in, IsSearch(in)
    PROVE  /\ in.trials \in Nat
           /\ GridCandidates(in) \in Seq(Values(in)) /\ GridCandidates(in) # <<>>
<1> DEFINE n == Len(in.first)
           m == Len(in.second)
           G == GridCandidates(in)
<1>1. in.trials \in Nat /\ in.first \in Seq(Nat) /\ in.second \in Seq(Nat)
      /\ in.first # <<>> /\ in.second # <<>>
  BY DEF IsSearch
<1>2. /\ n \in Nat /\ n > 0 /\ m \in Nat /\ m > 0
      /\ DOMAIN in.first = 1..n /\ DOMAIN in.second = 1..m
  <2>1. n \in Nat \ {0} /\ m \in Nat \ {0}
    BY <1>1, EmptySeq
  <2>2. DOMAIN in.first = 1..n /\ DOMAIN in.second = 1..m
    BY <1>1, LenProperties
  <2>3. QED
    BY <2>1, <2>2
<1>3. G = [k \in 1..(n * m) |-> <<in.first[((k - 1) \div m) + 1], in.second[((k - 1) % m) + 1]>>]
  BY DEF GridCandidates
<1> HIDE DEF n, m, G
<1>4. n * m \in Nat /\ n * m >= 1
  <2>1. PICK d \in Nat : n = 1 + d
    <3>1. n - 1 \in Nat /\ n = 1 + (n - 1)
      BY <1>2
    <3>2. QED
      BY <3>1
  <2>2. n * m = m + d * m /\ d * m \in Nat
    BY <1>2, <2>1
  <2>3. QED
    BY <1>2, <2>2
<1>5. ASSUME NEW k \in 1..(n * m)
      PROVE  ((k - 1) \div m) + 1 \in 1..n /\ ((k - 1) % m) + 1 \in 1..m
  <2>1. PICK x \in Nat : x = k - 1 /\ x < n * m
    <3>1. k - 1 \in Nat /\ k - 1 < n * m
      BY <1>4
    <3>2. QED
      BY <3>1
  <2>2. PICK q \in Nat : q = x \div m /\ q * m <= x
    BY <1>2, Quotient
  <2>3. x % m \in 0..(m - 1)
    BY <1>2, Z3
  <2>4. q < n
    <3>1. q * m < n * m /\ q * m \in Int
      BY <1>2, <1>4, <2>1, <2>2
    <3>2. ~(n * m <= q * m)
      BY <1>4, <3>1
    <3>3. ~(n <= q)
      BY <1>2, <3>2, Times
    <3>4. QED
      BY <1>2, <3>3
  <2>5. (x \div m) + 1 \in 1..n
    BY <1>2, <2>2, <2>4
  <2>6. (x % m) + 1 \in 1..m
    BY <1>2, <2>3
  <2>7. QED
    BY <2>1, <2>5, <2>6
<1>6. ASSUME NEW k \in 1..(n * m) PROVE G[k] \in Values(in)
  <2>1. PICK i \in 1..n : i = ((k - 1) \div m) + 1
    BY <1>5
  <2>2. PICK j \in 1..m : j = ((k - 1) % m) + 1
    BY <1>5
  <2>3. G[k] = <<in.first[i], in.second[j]>>
    BY <1>3, <2>1, <2>2
  <2>4. in.first[i] \in Range(in.first) /\ in.second[j] \in Range(in.second)
    BY <1>2 DEF Range
  <2>5. QED
    BY <2>3, <2>4 DEF Values
<1>7. G \in [1..(n * m) -> Values(in)]
  <2>1. DOMAIN G = 1..(n * m) /\ G = [k \in 1..(n * m) |-> G[k]]
    BY <1>3
  <2>2. QED
    BY <1>6, <2>1
<1>8. G \in Seq(Values(in))
  <2>1. PICK p \in Nat : p = n * m
    BY <1>4
  <2>2. G \in UNION {[1..l -> Values(in)] : l \in Nat}
    BY <1>7, <2>1
  <2>3. QED
    BY <2>2, SeqDef
<1>9. G # <<>>
  <2>1. 1 \in DOMAIN G
    BY <1>4, <1>7
  <2>2. DOMAIN <<>> = {}
    OBVIOUS
  <2>3. QED
    BY <2>1, <2>2
<1>10. QED
  BY <1>1, <1>8, <1>9 DEF G

\* The candidates tried are a finite set of pairs, empty at no trials, and more
\* trials try the same and more.
LEMMA TriedIs ==
    ASSUME NEW in, IsSearch(in)
    PROVE  /\ IsFiniteSet(Range(Tried(in))) /\ Range(Tried(in)) \subseteq Values(in)
           /\ Tried(in) = <<>> <=> in.trials = 0
           /\ Range(Tried(in)) = {} <=> in.trials = 0
<1> DEFINE G == GridCandidates(in)
           T == Tried(in)
<1>1. in.trials \in Nat /\ G \in Seq(Values(in)) /\ G # <<>>
  BY GridInside
<1>2. Len(G) \in Nat \ {0} /\ DOMAIN G = 1..Len(G)
  BY <1>1, EmptySeq, LenProperties
<1>3. T = FirstOf(G, in.trials)
  BY DEF Tried
<1> HIDE DEF G, T
<1>4. PICK m \in Nat : FirstIs(G, in.trials, m)
  BY <1>1, FirstOnes
<1>5. /\ DOMAIN T = 1..m /\ Range(T) = {G[i] : i \in 1..m}
      /\ \A i \in 1..m : i \in DOMAIN G
      /\ T = <<>> <=> m = 0
      /\ m <= in.trials /\ (m = in.trials \/ m = Len(G))
  BY <1>3, <1>4 DEF FirstIs
<1>6. m = 0 <=> in.trials = 0
  <2>1. PICK l \in Nat \ {0} : l = Len(G)
    BY <1>2
  <2>2. PICK t \in Nat : t = in.trials
    BY <1>1
  <2>3. m \in Nat /\ m <= t /\ (m = t \/ m = l)
    BY <1>4, <1>5, <2>1, <2>2
  <2>4. m = 0 <=> t = 0
    BY ONLY <2>1, <2>2, <2>3
  <2>5. QED
    BY ONLY <2>2, <2>4
<1>7. IsFiniteSet(Range(T))
  BY <1>5, FewValues
<1>8. Range(T) \subseteq Values(in)
  <2>1. \A i \in DOMAIN G : G[i] \in Values(in)
    BY <1>1, <1>2, ElementOfSeq
  <2>2. QED
    BY <1>5, <2>1
<1>9. Range(T) = {} <=> m = 0
  <2>1. m # 0 => 1 \in 1..m
    OBVIOUS
  <2>2. m = 0 => 1..m = {}
    OBVIOUS
  <2>3. QED
    BY <1>5, <2>1, <2>2
<1>10. QED
  BY <1>5, <1>6, <1>7, <1>8, <1>9 DEF T

FewerTrials(in, n) == [in EXCEPT !.trials = n]

LEMMA FewerTried ==
    ASSUME NEW in, IsSearch(in), NEW n \in Nat, n <= in.trials
    PROVE  /\ IsSearch(FewerTrials(in, n)) /\ FewerTrials(in, n).folds = in.folds
           /\ FewerTrials(in, n).trials = n
           /\ Range(Tried(FewerTrials(in, n))) \subseteq Range(Tried(in))
<1> DEFINE f == FewerTrials(in, n)
           G == GridCandidates(in)
<1>1. in \in [job : {"search"}, first : Seq(Nat) \ {<<>>}, second : Seq(Nat) \ {<<>>},
              trials : Nat, folds : {in.folds}]
  BY DEF IsSearch
<1>2. f = [in EXCEPT !.trials = n]
  BY DEF FewerTrials
<1> HIDE DEF f
<1>3. /\ f.first = in.first /\ f.second = in.second /\ f.folds = in.folds /\ f.trials = n
      /\ f.job = "search"
  BY <1>1, <1>2
<1>4. f \in [job : {"search"}, first : Seq(Nat) \ {<<>>}, second : Seq(Nat) \ {<<>>},
             trials : Nat, folds : {f.folds}]
  BY <1>1, <1>2, <1>3
<1>5. IsSearch(f)
  BY <1>3, <1>4 DEF IsSearch
<1>6. GridCandidates(f) = G
  BY <1>3 DEF GridCandidates
<1> HIDE DEF G
<1>7. in.trials \in Nat /\ G \in Seq(Values(in))
  BY GridInside DEF G
<1>8. PICK k \in Nat : FirstIs(G, in.trials, k)
  BY <1>7, FirstOnes
<1>9. PICK l \in Nat : FirstIs(G, n, l)
  BY <1>7, FirstOnes
<1>10. Range(Tried(in)) = {G[i] : i \in 1..k} /\ Range(Tried(f)) = {G[i] : i \in 1..l}
  BY <1>3, <1>6, <1>8, <1>9 DEF Tried, FirstIs, G
<1>11. l <= k
  <2>1. PICK e \in Nat : e = Len(G)
    BY <1>7, LenProperties
  <2>2. /\ k <= in.trials /\ k <= e /\ (k = in.trials \/ k = e)
        /\ l <= n /\ l <= e /\ (l = n \/ l = e)
    BY <1>8, <1>9, <2>1 DEF FirstIs
  <2>3. QED
    BY <1>7, <2>1, <2>2
<1>12. \A i \in 1..l : i \in 1..k
  BY <1>11
<1>13. Range(Tried(f)) \subseteq Range(Tried(in))
  BY <1>10, <1>12
<1>14. QED
  BY <1>3, <1>5, <1>13 DEF f

\* The scores of one candidate by fold.
Scored(in, c) == [k \in DOMAIN in.folds[c] |-> FoldScore(in.folds[c][k])]

LEMMA ScoreType ==
    ASSUME NEW in, IsSearch(in), NEW c \in Values(in)
    PROVE  /\ IsFiniteSet(DOMAIN in.folds[c]) /\ DOMAIN in.folds[c] # {}
           /\ \A d \in Values(in) : DOMAIN in.folds[d] = DOMAIN in.folds[c]
           /\ \A k \in DOMAIN in.folds[c] : Scored(in, c)[k] \in 0..One
           /\ TrialScore(in, c) = SumFunctionOnSet(Scored(in, c), DOMAIN in.folds[c])
           /\ TrialScore(in, c) \in Int
<1> DEFINE s == in.folds[c]
           F == 0..One \cup {Failed}
<1>1. /\ s \in Seq(F) /\ s # <<>>
      /\ \A d \in Values(in) : DOMAIN in.folds[d] = DOMAIN s
  BY DEF IsSearch, Values
<1>2. One \in Nat
  BY ChoiceAssumption DEF ChoiceConstants
<1>3. Scored(in, c) = [k \in DOMAIN s |-> FoldScore(s[k])]
  BY DEF Scored
<1> HIDE DEF s
<1>4. Len(s) \in Nat \ {0} /\ DOMAIN s = 1..Len(s) /\ \A k \in DOMAIN s : s[k] \in F
  BY <1>1, EmptySeq, LenProperties, ElementOfSeq
<1>5. IsFiniteSet(DOMAIN s)
  <2>1. 1 \in Int /\ Len(s) \in Int
    BY <1>4
  <2>2. IsFiniteSet(1..Len(s))
    BY ONLY <2>1, FS_Interval
  <2>3. QED
    BY <1>4, <2>2
<1>6. DOMAIN s # {}
  <2>1. 1 \in DOMAIN s
    BY <1>4
  <2>2. QED
    BY <2>1
<1>7. \A k \in DOMAIN s : Scored(in, c)[k] \in 0..One
  BY <1>2, <1>3, <1>4 DEF FoldScore
<1>8. TrialScore(in, c) = SumFunctionOnSet(Scored(in, c), DOMAIN s)
  <2>1. TrialScore(in, c) = SumFunction(Scored(in, c))
    BY DEF TrialScore, Scored
  <2>2. SumFunction(Scored(in, c)) = SumFunctionOnSet(Scored(in, c), DOMAIN Scored(in, c))
    BY SumOverDomain
  <2>3. DOMAIN Scored(in, c) = DOMAIN s
    BY <1>3
  <2>4. QED
    BY <2>1, <2>2, <2>3
<1>9. SumFunctionOnSet(Scored(in, c), DOMAIN s) \in Int
  <2>1. Whole(Scored(in, c), DOMAIN s)
    BY <1>2, <1>7 DEF Whole
  <2>2. DOMAIN s \in SUBSET DOMAIN s
    OBVIOUS
  <2>3. QED
    BY <1>5, <2>1, <2>2, SumOfSubset
<1>10. QED
  BY <1>1, <1>5, <1>6, <1>7, <1>8, <1>9 DEF s

\* There is a winner, and none scores better.
LEMMA WinnerIs ==
    ASSUME NEW in, IsSearch(in), in.trials # 0
    PROVE  /\ Winner(in) \in Range(Tried(in))
           /\ \A c \in Range(Tried(in)) : TrialScore(in, Winner(in)) <= TrialScore(in, c)
<1> DEFINE T == Range(Tried(in))
           R == {p \in T \X T : Better(in, p[2], p[1])}
<1>1. IsFiniteSet(T) /\ T \subseteq Values(in) /\ T # {} /\ Tried(in) # <<>>
  BY TriedIs
<1>2. \A c, d \in T : <<c, d>> \in R <=> Better(in, d, c)
  OBVIOUS
<1>3. \A c \in T : /\ TrialScore(in, c) \in Int
                   /\ c[1] \in Nat /\ c[2] \in Nat /\ c = <<c[1], c[2]>>
  <2> SUFFICES ASSUME NEW c \in T
               PROVE  /\ TrialScore(in, c) \in Int
                      /\ c[1] \in Nat /\ c[2] \in Nat /\ c = <<c[1], c[2]>>
    OBVIOUS
  <2>1. c \in Values(in)
    BY <1>1
  <2>2. TrialScore(in, c) \in Int
    BY <2>1, ScoreType
  <2>3. c[1] \in Range(in.first) /\ c[2] \in Range(in.second) /\ c = <<c[1], c[2]>>
    BY <2>1 DEF Values
  <2>4. in.first \in Seq(Nat) /\ in.second \in Seq(Nat)
    BY DEF IsSearch
  <2>5. \A s \in Seq(Nat) : \A x \in Range(s) : x \in Nat
    <3> SUFFICES ASSUME NEW s \in Seq(Nat), NEW x \in Range(s) PROVE x \in Nat
      OBVIOUS
    <3>1. DOMAIN s = 1..Len(s)
      BY LenProperties
    <3>2. PICK i \in DOMAIN s : x = s[i]
      BY DEF Range
    <3>3. QED
      BY <3>1, <3>2, ElementOfSeq
  <2>6. QED
    BY <2>2, <2>3, <2>4, <2>5
<1>4. Winner(in) = CHOOSE c \in T : \A d \in T \ {c} : Better(in, c, d)
  BY <1>1 DEF Winner
<1> HIDE DEF T, R
<1>5. StrictOrder(T, R)
  <2>1. \A c \in T : ~Better(in, c, c)
    BY <1>3 DEF Better
  <2>2. ASSUME NEW c \in T, NEW d \in T, NEW e \in T, Better(in, d, c), Better(in, e, d)
        PROVE  Better(in, e, c)
    <3>1. /\ TrialScore(in, c) \in Int /\ TrialScore(in, d) \in Int /\ TrialScore(in, e) \in Int
          /\ c[1] \in Nat /\ d[1] \in Nat /\ e[1] \in Nat
          /\ c[2] \in Nat /\ d[2] \in Nat /\ e[2] \in Nat
      BY <1>3
    <3>2. QED
      BY ONLY <2>2, <3>1 DEF Better
  <2>3. ASSUME NEW c \in T, NEW d \in T, c # d PROVE Better(in, c, d) \/ Better(in, d, c)
    <3>1. /\ TrialScore(in, c) \in Int /\ TrialScore(in, d) \in Int
          /\ c[1] \in Nat /\ d[1] \in Nat /\ c[2] \in Nat /\ d[2] \in Nat
          /\ c[1] # d[1] \/ c[2] # d[2]
      BY <1>3, <2>3
    <3>2. QED
      BY ONLY <3>1 DEF Better
  <2>4. QED
    BY <1>2, <2>1, <2>2, <2>3 DEF StrictOrder
<1>6. PICK w \in T : \A d \in T : d = w \/ <<d, w>> \in R
  BY <1>1, <1>5, LastInOrder
<1>7. \A d \in T \ {w} : Better(in, w, d)
  BY <1>2, <1>6
<1>8. Winner(in) \in T /\ \A d \in T \ {Winner(in)} : Better(in, Winner(in), d)
  BY <1>4, <1>7
<1>9. ASSUME NEW c \in T PROVE TrialScore(in, Winner(in)) <= TrialScore(in, c)
  <2>1. TrialScore(in, Winner(in)) \in Int /\ TrialScore(in, c) \in Int
    BY <1>3, <1>8
  <2>2. CASE c = Winner(in)
    BY <2>1, <2>2
  <2>3. CASE c # Winner(in)
    <3>1. Better(in, Winner(in), c)
      BY <1>8, <2>3
    <3>2. QED
      BY <2>1, <3>1 DEF Better
  <2>4. QED
    BY <2>2, <2>3
<1>10. QED
  BY <1>8, <1>9 DEF T

\* A candidate that scores no better than failures has failed in every fold, or
\* was as bad.
LEMMA AsBadAsFailed ==
    ASSUME NEW in, IsSearch(in), NEW b \in Values(in), Range(in.folds[b]) = {Failed},
           NEW c \in Values(in), TrialScore(in, b) <= TrialScore(in, c)
    PROVE  \A k \in DOMAIN in.folds[b] : FoldScore(in.folds[c][k]) = One
<1> DEFINE D == DOMAIN in.folds[b]
           f == Scored(in, c)
           h == Scored(in, b)
           gap == [k \in D |-> One - f[k]]
<1>1. One \in Nat
  BY ChoiceAssumption DEF ChoiceConstants
<1>2. /\ IsFiniteSet(D) /\ DOMAIN in.folds[c] = D
      /\ \A k \in D : f[k] \in 0..One
      /\ TrialScore(in, c) = SumFunctionOnSet(f, D) /\ TrialScore(in, c) \in Int
      /\ TrialScore(in, b) = SumFunctionOnSet(h, D) /\ TrialScore(in, b) \in Int
  BY ScoreType
<1>3. \A k \in D : h[k] = One
  BY DEF Scored, FoldScore, Range
<1>4. \A k \in D : f[k] = FoldScore(in.folds[c][k])
  BY <1>2 DEF Scored
<1> HIDE DEF D, f, h
<1>5. \A k \in D : gap[k] \in Nat /\ h[k] = f[k] + gap[k] /\ gap[k] = One - f[k]
  BY <1>1, <1>2, <1>3
<1> HIDE DEF gap
<1>6. Whole(f, D) /\ Whole(gap, D)
  BY <1>1, <1>2, <1>5 DEF Whole
<1>7. SumFunctionOnSet(h, D) = SumFunctionOnSet(f, D) + SumFunctionOnSet(gap, D)
  BY <1>2, <1>5, <1>6, SumAdds
<1>8. SumFunctionOnSet(gap, D) <= 0
  <2>1. D \in SUBSET D
    OBVIOUS
  <2>2. SumFunctionOnSet(gap, D) \in Int
    BY <1>2, <1>6, <2>1, SumOfSubset
  <2>3. QED
    BY <1>2, <1>7, <2>2
<1>9. ASSUME NEW k \in D PROVE f[k] = One
  <2>1. {k} \in SUBSET D /\ IsFiniteSet({k}) /\ Whole(gap, {k}) /\ k \in {k} /\ {k} \ {k} = {}
    BY <1>6, FS_Singleton DEF Whole
  <2>2. SumFunctionOnSet(gap, {k}) = gap[k] + SumFunctionOnSet(gap, {k} \ {k})
    BY <2>1, SumTakes
  <2>7. SumFunctionOnSet(gap, {k} \ {k}) = 0
    BY <2>1, SumOfNone
  <2>3. SumFunctionOnSet(gap, {k}) = gap[k]
    <3>1. gap[k] \in Nat
      BY <1>5
    <3>2. QED
      BY ONLY <2>2, <2>7, <3>1
  <2>4. \A j \in D : gap[j] \in Nat
    BY <1>5
  <2>5. SumFunctionOnSet(gap, {k}) <= SumFunctionOnSet(gap, D) /\ SumFunctionOnSet(gap, D) \in Nat
    BY <1>2, <2>1, <2>4, SumGrows
  <2>6. gap[k] = 0
    BY <1>5, <1>8, <2>3, <2>5
  <2>8. QED
    BY <1>1, <1>2, <1>5, <2>6
<1>10. QED
  BY <1>4, <1>9 DEF D

LEMMA SearchHolds ==
    ASSUME NEW in, IsSearch(in)
    PROVE  SearchIsSound(in)
<1> DEFINE best == Winner(in)
           tried == Range(Tried(in))
<1>1. in.trials \in Nat /\ tried \subseteq Values(in) /\ (tried = {} <=> in.trials = 0)
  BY GridInside, TriedIs
<1>2. in.trials # 0 => /\ best \in tried
                       /\ \A c \in tried : TrialScore(in, best) <= TrialScore(in, c)
  BY WinnerIs
<1>3. (in.trials # 0) = (best \in tried)
  BY <1>1, <1>2
<1>4. ASSUME best \in tried, Range(in.folds[best]) = {Failed},
             NEW c \in tried, NEW k \in DOMAIN in.folds[best]
      PROVE  FoldScore(in.folds[c][k]) = One
  <2>1. best \in Values(in) /\ c \in Values(in) /\ TrialScore(in, best) <= TrialScore(in, c)
    BY <1>1, <1>2, <1>3, <1>4
  <2> HIDE DEF best, tried
  <2>2. QED
    BY <1>4, <2>1, AsBadAsFailed
<1>5. ASSUME NEW n \in 1..in.trials
      PROVE  TrialScore(in, best) <= TrialScore(in, Winner([in EXCEPT !.trials = n]))
  <2> DEFINE f == FewerTrials(in, n)
  <2>1. n \in Nat /\ n <= in.trials /\ n # 0 /\ in.trials # 0
    BY <1>1
  <2>2. IsSearch(f) /\ f.trials = n /\ Range(Tried(f)) \subseteq tried
    BY <2>1, FewerTried
  <2>3. f = [in EXCEPT !.trials = n]
    BY DEF FewerTrials
  <2> HIDE DEF f
  <2>4. Winner(f) \in Range(Tried(f))
    BY <2>1, <2>2, WinnerIs
  <2>5. QED
    BY <1>2, <2>1, <2>2, <2>3, <2>4
<1> HIDE DEF best, tried
<1>6. QED
  BY <1>3, <1>4, <1>5 DEF SearchIsSound, best, tried

-----------------------------------------------------------------------------
(***************************************************************************)
(* The calibration curve.                                                  *)
(***************************************************************************)

LEMMA CurveTypes ==
    ASSUME NEW in, IsCurve(in)
    PROVE  /\ One \in Nat \ {0} /\ in.bins \in Nat \ {0} /\ in.floor \in Nat
           /\ 2 * in.floor <= One
           /\ in.forecasts \in Seq([p : Int, up : BOOLEAN])
           /\ IsFiniteSet(DOMAIN in.forecasts)
           /\ \A i \in DOMAIN in.forecasts : in.forecasts[i].p \in Int
<1>1. /\ One \in Nat \ {0} /\ in.bins \in Nat \ {0} /\ in.floor \in Nat
      /\ 2 * in.floor <= One
      /\ in.forecasts \in Seq([p : Int, up : BOOLEAN])
  BY ChoiceAssumption DEF ChoiceConstants, IsCurve
<1>2. PICK l \in Nat : l = Len(in.forecasts)
  BY <1>1, LenProperties
<1>3. DOMAIN in.forecasts = 1..l
  BY <1>1, <1>2, LenProperties
<1>4. IsFiniteSet(1..l)
  BY <1>2, FS_Interval
<1>5. \A i \in DOMAIN in.forecasts : in.forecasts[i] \in [p : Int, up : BOOLEAN]
  BY <1>1, <1>2, <1>3, ElementOfSeq
<1>6. QED
  BY <1>1, <1>3, <1>4, <1>5

\* The floor keeps a probability between 0 and One, for a floor of a half or less.
LEMMA ClippedInside ==
    ASSUME NEW in, IsCurve(in), NEW p \in Int
    PROVE  Clipped(in, p) \in 0..One
<1>1. One \in Nat /\ in.floor \in Nat /\ 2 * in.floor <= One
  BY CurveTypes
<1>2. PICK o \in Nat : o = One
  BY <1>1
<1>3. PICK f \in Nat : f = in.floor
  BY <1>1
<1>4. PICK low \in Int : low = Min({One - in.floor, p})
  <2>1. o - f \in Int
    BY <1>2, <1>3
  <2>2. Min({o - f, p}) \in Int
    BY <2>1, OfTwo
  <2>3. QED
    BY <1>2, <1>3, <2>2
<1>5. low <= o - f
  <2>1. o - f \in Int
    BY <1>2, <1>3
  <2>2. Min({o - f, p}) <= o - f
    BY <2>1, OfTwo
  <2>3. QED
    BY <1>2, <1>3, <1>4, <2>2
<1>6. Max({f, low}) = IF f <= low THEN low ELSE f
  <2>1. f \in Int
    BY <1>3
  <2>2. QED
    BY <2>1, OfTwo
<1>7. Clipped(in, p) = Max({f, low})
  BY <1>3, <1>4 DEF Clipped
<1>8. Max({f, low}) \in 0..o
  BY <1>1, <1>2, <1>3, <1>5, <1>6
<1>9. QED
  BY <1>2, <1>7, <1>8

\* Every probability lies in a bin.
LEMMA SomeBin ==
    ASSUME NEW in, IsCurve(in), NEW p \in 0..One
    PROVE  \E b \in 1..in.bins : InBin(in, b, p)
<1>1. PICK o \in Nat \ {0} : o = One
  BY CurveTypes
<1>2. PICK m \in Nat \ {0} : m = in.bins
  BY CurveTypes
<1>3. PICK n \in Nat : n = m * p
  BY <1>1, <1>2
<1>4. PICK q \in Nat : q * o <= n /\ n < (q + 1) * o
  <2>1. n \div o \in Nat /\ (n \div o) * o <= n /\ n < (n \div o + 1) * o
    BY <1>1, <1>3, Quotient
  <2>2. QED
    BY <2>1
<1>5. p \in Nat /\ p <= o
  BY <1>1
<1>6. n <= m * o
  BY <1>1, <1>2, <1>3, <1>5, FactorGrows
<1>7. q <= m
  <2>1. q * o <= m * o
    <3>1. q * o \in Nat /\ m * o \in Nat
      BY <1>1, <1>2, <1>4
    <3>2. QED
      BY ONLY <1>3, <1>4, <1>6, <3>1
  <2>2. QED
    BY <1>1, <1>2, <1>4, <2>1, Times
<1>8. \A b \in 1..m : /\ o * (b - 1) <= n
                      /\ IF b < m THEN n < o * b ELSE n <= o * b
                      => InBin(in, b, p)
  BY <1>1, <1>2, <1>3 DEF InBin
<1>9. CASE q < m
  <2>1. q + 1 \in 1..m /\ (q + 1) - 1 = q
    BY <1>2, <1>4, <1>9
  <2>2. o * q = q * o /\ o * (q + 1) = (q + 1) * o /\ o * q \in Int /\ o * (q + 1) \in Int
    BY <1>1, <1>4
  <2>3. o * ((q + 1) - 1) <= n /\ n < o * (q + 1) /\ n <= o * (q + 1)
    BY <1>3, <1>4, <2>1, <2>2
  <2>4. InBin(in, q + 1, p)
    BY <1>8, <2>1, <2>3
  <2>5. QED
    BY <1>2, <2>1, <2>4
<1>10. CASE q = m
  <2>1. m \in 1..m /\ m - 1 \in Nat /\ m - 1 <= m
    BY <1>2
  <2>2. o * (m - 1) <= o * m /\ o * (m - 1) \in Nat /\ o * m \in Nat
    BY <1>1, <1>2, <2>1, FactorGrows
  <2>3. o * m = m * o
    BY <1>1, <1>2
  <2>4. o * (m - 1) <= n /\ n <= o * m
    BY ONLY <1>3, <1>4, <1>6, <1>10, <2>2, <2>3
  <2>5. ~(m < m)
    BY <1>2
  <2>6. InBin(in, m, p)
    BY <1>8, <2>1, <2>4, <2>5
  <2>7. QED
    BY <1>2, <2>1, <2>6
<1>11. QED
  BY <1>2, <1>4, <1>7, <1>9, <1>10

\* No probability lies in two.
LEMMA OneBin ==
    ASSUME NEW in, IsCurve(in), NEW p \in 0..One,
           NEW b \in 1..in.bins, NEW c \in 1..in.bins, b < c
    PROVE  ~(InBin(in, b, p) /\ InBin(in, c, p))
<1>1. PICK o \in Nat \ {0} : o = One
  BY CurveTypes
<1>2. PICK m \in Nat \ {0} : m = in.bins
  BY CurveTypes
<1>3. b \in Nat /\ c - 1 \in Nat /\ b <= c - 1 /\ b < m
  BY <1>2
<1>4. o * b <= o * (c - 1) /\ o * b \in Nat /\ o * (c - 1) \in Nat
  BY <1>1, <1>3, FactorGrows
<1>5. m * p \in Nat
  BY <1>1, <1>2
<1>6. InBin(in, b, p) => m * p < o * b
  BY <1>1, <1>2, <1>3 DEF InBin
<1>7. InBin(in, c, p) => o * (c - 1) <= m * p
  BY <1>1, <1>2 DEF InBin
<1>8. QED
  BY ONLY <1>4, <1>5, <1>6, <1>7

LEMMA BinOfEach ==
    ASSUME NEW in, IsCurve(in), NEW p \in 0..One
    PROVE  Cardinality({b \in 1..in.bins : InBin(in, b, p)}) = 1
<1>1. PICK b \in 1..in.bins : InBin(in, b, p)
  BY SomeBin
<1>2. ASSUME NEW c \in 1..in.bins, InBin(in, c, p) PROVE c = b
  <2>1. b \in Int /\ c \in Int
    BY CurveTypes
  <2>2. ~(b < c)
    BY <1>1, <1>2, OneBin
  <2>3. ~(c < b)
    BY <1>1, <1>2, OneBin
  <2>4. QED
    BY ONLY <2>1, <2>2, <2>3
<1>3. {c \in 1..in.bins : InBin(in, c, p)} = {b}
  BY <1>1, <1>2
<1>4. QED
  BY <1>3, FS_Singleton

\* The bins share out the forecasts.
LEMMA BinsShare ==
    ASSUME NEW in, IsCurve(in)
    PROVE  /\ \A b \in 1..in.bins : Bin(in, b) \subseteq DOMAIN in.forecasts
           /\ \A b, c \in 1..in.bins : b # c => Bin(in, b) \cap Bin(in, c) = {}
           /\ UNION {Bin(in, b) : b \in 1..in.bins} = DOMAIN in.forecasts
<1>1. ASSUME NEW i \in DOMAIN in.forecasts PROVE Clipped(in, in.forecasts[i].p) \in 0..One
  <2>1. in.forecasts[i].p \in Int
    BY CurveTypes
  <2>2. QED
    BY <2>1, ClippedInside
<1>2. \A b \in 1..in.bins : Bin(in, b) \subseteq DOMAIN in.forecasts
  BY DEF Bin
<1>3. ASSUME NEW b \in 1..in.bins, NEW c \in 1..in.bins, b # c,
             NEW i \in Bin(in, b), i \in Bin(in, c)
      PROVE  FALSE
  <2>1. /\ i \in DOMAIN in.forecasts
        /\ InBin(in, b, Clipped(in, in.forecasts[i].p))
        /\ InBin(in, c, Clipped(in, in.forecasts[i].p))
    BY <1>3 DEF Bin
  <2>2. Clipped(in, in.forecasts[i].p) \in 0..One
    BY <1>1, <2>1
  <2>3. ~(b < c)
    BY <2>1, <2>2, OneBin
  <2>4. ~(c < b)
    BY <2>1, <2>2, OneBin
  <2>5. b \in Int /\ c \in Int
    BY CurveTypes
  <2>6. QED
    BY ONLY <1>3, <2>3, <2>4, <2>5
<1>4. ASSUME NEW i \in DOMAIN in.forecasts PROVE \E b \in 1..in.bins : i \in Bin(in, b)
  <2>1. \E b \in 1..in.bins : InBin(in, b, Clipped(in, in.forecasts[i].p))
    BY <1>1, SomeBin
  <2>2. QED
    BY <2>1 DEF Bin
<1>5. QED
  BY <1>2, <1>3, <1>4

\* The misses of all forecasts together.
AllMisses(in) == SumFunctionOnSet(Misses(in), DOMAIN in.forecasts)

LEMMA MissesType ==
    ASSUME NEW in, IsCurve(in)
    PROVE  /\ Whole(Misses(in), DOMAIN in.forecasts) /\ AllMisses(in) \in Int
           /\ \A b \in 1..in.bins :
                /\ IsFiniteSet(Bin(in, b)) /\ Whole(Misses(in), Bin(in, b))
                /\ SumFunctionOnSet(Misses(in), Bin(in, b)) \in Int
                /\ WeightedGap(in, b) \in Nat
<1>1. IsFiniteSet(DOMAIN in.forecasts)
  BY CurveTypes
<1>2. ASSUME NEW i \in DOMAIN in.forecasts PROVE Misses(in)[i] \in Int
  <2>1. One \in Nat /\ in.forecasts[i].p \in Int
    BY CurveTypes
  <2>2. Clipped(in, in.forecasts[i].p) \in 0..One
    BY <2>1, ClippedInside
  <2>3. QED
    BY <2>1, <2>2 DEF Misses
<1>3. Whole(Misses(in), DOMAIN in.forecasts)
  BY <1>2 DEF Whole
<1>4. \A T \in SUBSET DOMAIN in.forecasts : SumFunctionOnSet(Misses(in), T) \in Int
  BY <1>1, <1>3, SumOfSubset
<1>5. AllMisses(in) \in Int
  <2>1. DOMAIN in.forecasts \in SUBSET DOMAIN in.forecasts
    OBVIOUS
  <2>2. QED
    BY <1>4, <2>1 DEF AllMisses
<1>6. ASSUME NEW b \in 1..in.bins
      PROVE  /\ IsFiniteSet(Bin(in, b)) /\ Whole(Misses(in), Bin(in, b))
             /\ SumFunctionOnSet(Misses(in), Bin(in, b)) \in Int
             /\ WeightedGap(in, b) \in Nat
  <2>1. Bin(in, b) \in SUBSET DOMAIN in.forecasts
    BY DEF Bin
  <2>2. IsFiniteSet(Bin(in, b))
    BY <1>1, <2>1, FS_Subset
  <2>3. Whole(Misses(in), Bin(in, b))
    BY <1>3, <2>1 DEF Whole
  <2>4. PICK off \in Int : off = SumFunctionOnSet(Misses(in), Bin(in, b))
    BY <1>4, <2>1
  <2>5. WeightedGap(in, b) = IF off < 0 THEN -off ELSE off
    BY <2>4 DEF WeightedGap
  <2>6. QED
    BY <2>2, <2>3, <2>4, <2>5
<1>7. QED
  BY <1>3, <1>5, <1>6

\* The gaps of the bins are at least the miss of all forecasts.
LEMMA GapsCover ==
    ASSUME NEW in, IsCurve(in)
    PROVE  LET gaps == SumFunction([b \in 1..in.bins |-> WeightedGap(in, b)])
           IN  gaps \in Int /\ -gaps <= AllMisses(in) /\ AllMisses(in) <= gaps
<1> DEFINE B == 1..in.bins
           part == [b \in B |-> Bin(in, b)]
           net == [b \in B |-> SumFunctionOnSet(Misses(in), Bin(in, b))]
           gap == [b \in B |-> WeightedGap(in, b)]
           miss == Misses(in)
<1>1. IsFiniteSet(B)
  <2>1. PICK m \in Nat : m = in.bins
    BY CurveTypes
  <2>2. IsFiniteSet(1..m)
    BY FS_Interval
  <2>3. QED
    BY <2>1, <2>2
<1>2. \A b \in B : /\ IsFiniteSet(part[b]) /\ Whole(miss, part[b])
                   /\ net[b] = SumFunctionOnSet(miss, part[b])
                   /\ net[b] \in Int /\ gap[b] \in Nat
  BY MissesType
<1>3. \A b \in B : -gap[b] <= net[b] /\ net[b] <= gap[b]
  <2> SUFFICES ASSUME NEW b \in B PROVE -gap[b] <= net[b] /\ net[b] <= gap[b]
    OBVIOUS
  <2>1. PICK off \in Int : off = net[b]
    BY <1>2
  <2>2. gap[b] = IF off < 0 THEN -off ELSE off
    BY <2>1 DEF WeightedGap
  <2>3. QED
    BY <2>1, <2>2
<1>4. /\ \A b, c \in B : b # c => part[b] \cap part[c] = {}
      /\ UNION {part[b] : b \in B} = DOMAIN in.forecasts
  BY BinsShare
<1>5. DOMAIN gap = B
  OBVIOUS
<1>6. AllMisses(in) = SumFunctionOnSet(miss, DOMAIN in.forecasts) /\ AllMisses(in) \in Int
  BY MissesType DEF AllMisses
<1> HIDE DEF B, part, net, gap, miss
<1>7. SumFunctionOnSet(net, B) = SumFunctionOnSet(miss, UNION {part[b] : b \in B})
  BY <1>1, <1>2, <1>4, SumOfParts
<1>8. SumFunctionOnSet(net, B) = AllMisses(in)
  BY <1>4, <1>6, <1>7
<1>9. \A b \in B : net[b] \in Int /\ gap[b] \in Int /\ -gap[b] <= net[b] /\ net[b] <= gap[b]
  BY <1>2, <1>3
<1>10. SumFunctionOnSet(net, B) \in -SumFunctionOnSet(gap, B)..SumFunctionOnSet(gap, B)
  BY <1>1, <1>9, SumWithin
<1>11. SumFunctionOnSet(gap, B) \in Int
  <2>1. Whole(gap, B) /\ B \in SUBSET B
    BY <1>9 DEF Whole
  <2>2. QED
    BY <1>1, <2>1, SumOfSubset
<1>12. SumFunction(gap) = SumFunctionOnSet(gap, B)
  BY <1>5, SumOverDomain
<1>13. SumFunction(gap) \in Int /\ -SumFunction(gap) <= AllMisses(in) /\ AllMisses(in) <= SumFunction(gap)
  BY <1>8, <1>10, <1>11, <1>12
<1>14. QED
  BY <1>13 DEF gap, B

\* One bin for all.
InOneBin(in) == [in EXCEPT !.bins = 1]

LEMMA OneBinOfAll ==
    ASSUME NEW in, IsCurve(in)
    PROVE  /\ IsCurve(InOneBin(in)) /\ InOneBin(in).forecasts = in.forecasts
           /\ SumFunction([b \in 1..InOneBin(in).bins |-> WeightedGap(InOneBin(in), b)])
                = IF AllMisses(in) < 0 THEN -AllMisses(in) ELSE AllMisses(in)
<1> DEFINE one == InOneBin(in)
           gap == [b \in 1..one.bins |-> WeightedGap(one, b)]
<1>1. IsCurve(one) /\ one.forecasts = in.forecasts /\ one.bins = 1 /\ one.floor = in.floor
  BY DEF InOneBin, IsCurve
<1>2. Misses(one) = Misses(in)
  BY <1>1 DEF Misses, Clipped
<1> HIDE DEF one
<1>3. 1..one.bins = {1}
  BY <1>1
<1>4. Bin(one, 1) = DOMAIN in.forecasts
  BY <1>1, <1>3, BinsShare
<1>5. PICK off \in Int : off = AllMisses(in)
  BY MissesType
<1>6. gap[1] = IF off < 0 THEN -off ELSE off
  BY <1>2, <1>3, <1>4, <1>5 DEF WeightedGap, AllMisses
<1>7. DOMAIN gap = {1}
  BY <1>3
<1> HIDE DEF gap
<1>8. gap[1] \in Int
  BY <1>6
<1>9. /\ IsFiniteSet({1}) /\ Whole(gap, {1})
      /\ {1} \in SUBSET {1} /\ {1} \ {1} = {} /\ 1 \in {1}
  BY <1>8, FS_Singleton DEF Whole
<1>10. SumFunctionOnSet(gap, {1}) = gap[1] + SumFunctionOnSet(gap, {1} \ {1})
  BY <1>9, SumTakes
<1>11. SumFunctionOnSet(gap, {1} \ {1}) = 0
  BY <1>9, SumOfNone
<1>12. SumFunctionOnSet(gap, {1}) = gap[1]
  BY ONLY <1>8, <1>10, <1>11
<1>13. SumFunction(gap) = gap[1]
  BY <1>7, <1>12, SumOverDomain
<1>14. QED
  BY <1>1, <1>5, <1>6, <1>13 DEF gap, one

LEMMA CurveHolds ==
    ASSUME NEW in, IsCurve(in)
    PROVE  CurveIsSound(in)
<1>1. ASSUME NEW i \in DOMAIN in.forecasts
      PROVE  Cardinality({b \in 1..in.bins : InBin(in, b, Clipped(in, in.forecasts[i].p))}) = 1
  <2>1. in.forecasts[i].p \in Int
    BY CurveTypes
  <2>2. Clipped(in, in.forecasts[i].p) \in 0..One
    BY <2>1, ClippedInside
  <2>3. QED
    BY <2>2, BinOfEach
<1>2. EceTimesSamples(in) >= EceTimesSamples(InOneBin(in))
  <2>1. IsCurve(InOneBin(in)) /\ InOneBin(in).forecasts = in.forecasts
    BY OneBinOfAll
  <2>2. CASE in.forecasts = <<>>
    BY <2>1, <2>2, CurveTypes DEF EceTimesSamples
  <2>3. CASE in.forecasts # <<>>
    <3>1. PICK gaps \in Int : /\ gaps = SumFunction([b \in 1..in.bins |-> WeightedGap(in, b)])
                              /\ -gaps <= AllMisses(in) /\ AllMisses(in) <= gaps
      BY GapsCover
    <3>2. PICK off \in Int : off = AllMisses(in)
      BY MissesType
    <3>3. EceTimesSamples(InOneBin(in)) = IF off < 0 THEN -off ELSE off
      BY <2>1, <2>3, <3>2, OneBinOfAll DEF EceTimesSamples
    <3>4. EceTimesSamples(in) = gaps
      BY <2>3, <3>1 DEF EceTimesSamples
    <3>5. QED
      BY <3>1, <3>2, <3>3, <3>4
  <2>4. QED
    BY <2>2, <2>3
<1>3. QED
  BY <1>1, <1>2 DEF CurveIsSound, InOneBin

-----------------------------------------------------------------------------
\* Whatever the columns, rankings, candidates, scores and forecasts are: the
\* features selected hold no constant and no correlated pair and have the votes
\* required, in whatever order the methods ran (features/selection.py); the
\* search never prefers a candidate whose fits failed, and more trials never
\* give a worse winner (models/search.py); and no choice of bins hides a bias
\* of the forecasts (models/calibration.py).
THEOREM ChoicesSound == ChoiceSpec => []ChoicesAreSound
<1> DEFINE OnBench == bench = NoBench \/ bench \in Benches
<1>1. BenchInit => OnBench
  BY DEF BenchInit
<1>2. OnBench /\ [BenchNext]_benchVars => OnBench'
  BY DEF BenchNext, Work, benchVars
<1>3. OnBench => ChoicesAreSound
  <2>1. CASE bench = NoBench
    BY <2>1 DEF NoBench, ChoicesAreSound
  <2>2. CASE bench \in Benches
    <3>1. IsBench(bench)
      BY <2>2, ChoiceAssumption
    <3>2. CASE IsSelection(bench)
      <4>1. bench.job = "selection"
        BY <3>2 DEF IsSelection
      <4>2. SelectionIsSound(bench)
        BY <3>2, SelectionHolds
      <4>3. QED
        BY <4>1, <4>2 DEF ChoicesAreSound
    <3>3. CASE IsSearch(bench)
      <4>1. bench.job = "search"
        BY <3>3 DEF IsSearch
      <4>2. SearchIsSound(bench)
        BY <3>3, SearchHolds
      <4>3. QED
        BY <4>1, <4>2 DEF ChoicesAreSound
    <3>4. CASE IsCurve(bench)
      <4>1. bench.job = "calibration"
        BY <3>4 DEF IsCurve
      <4>2. CurveIsSound(bench)
        BY <3>4, CurveHolds
      <4>3. QED
        BY <4>1, <4>2 DEF ChoicesAreSound
    <3>5. QED
      BY <3>1, <3>2, <3>3, <3>4 DEF IsBench
  <2>3. QED
    BY <2>1, <2>2
<1>4. QED
  BY <1>1, <1>2, <1>3, PTL DEF ChoiceSpec

=============================================================================
