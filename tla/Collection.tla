----------------------------- MODULE Collection -----------------------------
(***************************************************************************)
(* How the dataset is built: the loop of CollectionService                 *)
(* (live/service.py) with the countdown of HistoricalCollector             *)
(* (dataset/collector.py), the store it writes (dataset/store.py) and its  *)
(* leakage guard (dataset/leakage.py).                                     *)
(*                                                                         *)
(* The loop opens a session for a market whose window is near, takes a     *)
(* snapshot of it at fixed instants before its settlement, closes the      *)
(* session, and asks the venue for the outcomes of markets that have       *)
(* settled.  A step that fails costs the rest of its iteration, too many   *)
(* in a row end the process, and it may be killed; it is then started      *)
(* again over the files it left.                                           *)
(***************************************************************************)
EXTENDS Integers, SequencesExt, FiniteSetsExt

CONSTANTS
    Market,           \* condition ids
    Horizon,          \* snapshot_horizons_s, in ticks
    OpensAt, SettlesAt, \* market -> tick
    Lively,           \* the markets whose book never rests
    Warmup,           \* warmup_seconds, in ticks
    MaxSessions,      \* max_concurrent_markets
    Jitter,           \* max_snapshot_jitter_ms, in ticks
    PassTime,         \* how long a pass over the sessions may take, in ticks
    Tolerance,        \* observation_tolerance_ms, in ticks
    MaxWait,          \* resolution_max_wait_s, in ticks
    MaxErrors,        \* max_consecutive_errors
    MaxTime,          \* bound: ticks
    Course,           \* market -> the outcomes the venue may give it, in order
    MaxFaults         \* bound: requests and writes that fail, and kills

Key == Market \X Horizon
Instant(k) == SettlesAt[k[1]] - k[2]

ASSUME CollectionAssumption ==
    /\ IsFiniteSet(Market) /\ IsFiniteSet(Horizon) /\ Horizon \subseteq Nat \ {0}
    /\ OpensAt \in [Market -> Nat] /\ SettlesAt \in [Market -> Nat] /\ Lively \subseteq Market
    /\ {Warmup, Jitter, PassTime, Tolerance, MaxWait} \subseteq Nat
    /\ {MaxSessions, MaxErrors} \subseteq Nat \ {0} /\ {MaxTime, MaxFaults} \subseteq Nat
    /\ Course \in [Market -> Seq({"UP", "DOWN", "void"})]

VARIABLES
    now,              \* clock.now_ms()
    given,            \* market -> how many outcomes the venue has given it
    phase,            \* where the loop is; "down" when there is no process
    readAt,           \* the clock as the step in progress has read it, else 0
    open,             \* the open sessions, in the order of self.sessions
    todo,             \* the sessions this pass has still to look at
    asked,            \* the markets this pass has still to ask for
    errors,           \* consecutive_errors
    marketFile,       \* market -> the labels of its lines in markets.jsonl
    snapFile,         \* key -> when its lines in snapshots.jsonl were captured
    label,            \* store._markets: market -> label of its record
    snaps,            \* the keys of store._snapshots
    missed,           \* collector._known_misses
    faults

vars == <<now, given, phase, readAt, open, todo, asked, errors, marketFile,
          snapFile, label, snaps, missed, faults>>
loop  == <<phase, readAt, open, todo, asked, errors>>
files == <<marketFile, snapFile>>
store == <<label, snaps>>

Outcome == {"UP", "DOWN"}

\* The outcome a market is paid out by, for the time being.
Venue(m) == IF given[m] = 0 THEN "none" ELSE Course[m][given[m]]

Label   == Outcome \cup {"blank", "void"}      \* of a record; both of the latter are no label

-----------------------------------------------------------------------------
(***************************************************************************)
(* The store.                                                              *)
(***************************************************************************)

\* _index_market() over the lines of the file.
IndexMarket(m) == IF marketFile[m] = <<>> THEN "unknown" ELSE Last(marketFile[m])

IndexNone == {}                                \* variant: snapshots are not read back

\* _index_snapshot() over the lines of the file.
IndexSnapshots == {k \in Key : snapFile[k] # <<>>}

\* upsert_market(): refuses nothing here, since a labelled market is not asked
\* for again.  A record that has not changed is not written, one that has is
\* kept in memory whether the write succeeds or not.
Upsert(m, l, written) ==
    /\ label' = [label EXCEPT ![m] = l]
    /\ marketFile' = IF label[m] # l /\ written
                       THEN [marketFile EXCEPT ![m] = Append(@, l)]
                       ELSE marketFile

\* books.up.last_update_ms: the book is read as it is, not as it was.
LastUpdate(m) == IF m \in Lively THEN now ELSE OpensAt[m]

\* How the engineered features of a snapshot are stamped: nothing is said to
\* have happened, or to have been received, after the instant.
Stamps(k) == [event_time       |-> Min({LastUpdate(k[1]), Instant(k)}),
              observation_time |-> Instant(k)]

\* LeakageGuard.inspect() finds nothing.
Clean(k, stamps) ==
    /\ stamps.event_time <= Instant(k)
    /\ stamps.observation_time <= Instant(k) + Tolerance
    /\ stamps.event_time <= SettlesAt[k[1]]

-----------------------------------------------------------------------------
(***************************************************************************)
(* The countdown of one market.                                            *)
(***************************************************************************)

\* due_horizons()
Due(m) ==
    {h \in Horizon : /\ readAt >= Instant(<<m, h>>)
                     /\ <<m, h>> \notin snaps
                     /\ readAt - Instant(<<m, h>>) <= Jitter}

LateAll(m) ==                                  \* variant: what was captured is not looked up
    {k \in {m} \X Horizon : readAt - Instant(k) > Jitter}

\* sweep_missed(); it comes after the captures.
Late(m) ==
    {k \in {m} \X Horizon : readAt - Instant(k) > Jitter /\ k \notin snaps}

\* What is due and passes the guard is captured in this order.
Capturable(m) == {h \in Due(m) : Clean(<<m, h>>, Stamps(<<m, h>>))}
NextDue(m)    == <<m, Max(Capturable(m))>>

-----------------------------------------------------------------------------
Init == /\ now = 0
        /\ given = [m \in Market |-> 0]
        /\ phase = "down" /\ readAt = 0
        /\ open = <<>> /\ todo = <<>> /\ asked = {} /\ errors = 0
        /\ marketFile = [m \in Market |-> <<>>]
        /\ snapFile = [k \in Key |-> <<>>]
        /\ label = [m \in Market |-> "unknown"] /\ snaps = {} /\ missed = {}
        /\ faults = 0

\* Time passes while the loop waits; a pass over the sessions awaits nothing, and
\* takes what it takes to compute and to write.
Tick == /\ phase = "capture" => now < readAt + PassTime
        /\ now < MaxTime
        /\ now' = now + 1
        /\ UNCHANGED <<given, loop, files, store, missed, faults>>

\* The venue resolves a market, or corrects an outcome it has given.
Publish(m) ==
    /\ now >= SettlesAt[m] /\ given[m] < Len(Course[m])
    /\ given' = [given EXCEPT ![m] = @ + 1]
    /\ UNCHANGED <<now, loop, files, store, missed, faults>>

-----------------------------------------------------------------------------
(***************************************************************************)
(* The process.                                                            *)
(***************************************************************************)

\* The store reads its files, and the loop begins.
Start ==
    /\ phase = "down"
    /\ phase' = "rest"
    /\ label' = [m \in Market |-> IndexMarket(m)]
    /\ snaps' = IndexSnapshots
    /\ missed' = {}
    /\ UNCHANGED <<now, given, readAt, open, todo, asked, errors, files, faults>>

\* What ends the process ends its sessions.
Ended == /\ phase' = "down" /\ readAt' = 0
         /\ open' = <<>> /\ todo' = <<>> /\ asked' = {} /\ errors' = 0

Crash == /\ phase # "down" /\ faults < MaxFaults
         /\ faults' = faults + 1
         /\ Ended
         /\ UNCHANGED <<now, given, files, store, missed>>

\* The except clause of run(): the iteration is given up, with these sessions
\* open, and after too many in a row the process.
Fails(sessions) ==
    /\ faults < MaxFaults /\ faults' = faults + 1
    /\ IF errors + 1 >= MaxErrors
         THEN Ended
         ELSE /\ phase' = "rest" /\ readAt' = 0 /\ errors' = errors + 1
              /\ todo' = <<>> /\ asked' = {} /\ open' = sessions

\* Does _sync_sessions() close this session?
Closes(m) == readAt' >= SettlesAt[m]

\* The k-th of a set of positions.
Nth(P, k) == CHOOSE i \in P : Cardinality({j \in P : j < i}) = k - 1

\* The sessions that stay, in their order.
StillOpen ==
    LET kept == {i \in DOMAIN open : ~Closes(open[i])}
    IN  [k \in 1..Cardinality(kept) |-> open[Nth(kept, k)]]

\* An iteration on which a scan is due: _sync_sessions() up to the scan.
Sync ==
    /\ phase = "rest"
    /\ readAt' = now
    /\ open' = StillOpen
    /\ phase' = "scan"
    /\ UNCHANGED <<now, given, todo, asked, errors, files, store, missed, faults>>

\* Discovery or the first request of the scan fails.
ScanFails ==
    /\ phase = "scan"
    /\ Fails(open)
    /\ UNCHANGED <<now, given, files, store, missed>>

\* sorted() by settlement; what settles together comes in some order.
BySettlement(S) ==
    CHOOSE s \in [1..Cardinality(S) -> S] :
        IsInjective(s) /\ \A i, j \in DOMAIN s : i < j => SettlesAt[s[i]] <= SettlesAt[s[j]]

\* The candidates _sync_sessions() opens: the first to settle of those near
\* enough, while there is room.
Opens(found) ==
    LET near == BySettlement({m \in found \ ToSet(open) : OpensAt[m] - readAt <= Warmup})
    IN  SubSeq(near, 1, Min({Len(near), MaxSessions - Len(open)}))

\* The pass over the sessions that follows begins, with the clock read anew.
BeginPass(sessions) ==
    /\ phase' = "capture"
    /\ readAt' = now
    /\ todo' = sessions

\* upsert_market() for each of these, of which these are written: what the
\* store did not know yet is new.
Registered(markets, written) ==
    LET new == {m \in markets : label[m] = "unknown"}
    IN  /\ label' = [m \in Market |-> IF m \in new THEN "blank" ELSE label[m]]
        /\ marketFile' = [m \in Market |-> IF m \in new \cap written
                                              THEN Append(marketFile[m], "blank")
                                              ELSE marketFile[m]]

\* The scan finds markets that have not settled; they are registered, which
\* keeps the label of a known one, and streamed.
Scanned(found) ==
    /\ phase = "scan"
    /\ \A m \in found : now < SettlesAt[m]
    /\ open' = open \o Opens(found)
    /\ Registered(ToSet(Opens(found)), Market)
    /\ BeginPass(open')
    /\ UNCHANGED <<now, given, asked, errors, snapFile, snaps, missed, faults>>

\* The n-th of them cannot be written: it is in memory, and not streamed.
RegisterFails(found, n) ==
    /\ phase = "scan"
    /\ \A m \in found : now < SettlesAt[m]
    /\ n \in DOMAIN Opens(found) /\ label[Opens(found)[n]] = "unknown"
    /\ LET before == SubSeq(Opens(found), 1, n - 1)
       IN  /\ Registered(ToSet(before) \cup {Opens(found)[n]}, ToSet(before))
           /\ Fails(open \o before)
    /\ UNCHANGED <<now, given, snapFile, snaps, missed>>

\* An iteration on which no scan is due.
Skip ==
    /\ phase = "rest"
    /\ BeginPass(open)
    /\ UNCHANGED <<now, given, open, asked, errors, files, store, missed, faults>>

\* capture() of a horizon that was due when the pass began; captured_at_ms is
\* the clock read anew.
Capture ==
    /\ phase = "capture" /\ todo # <<>> /\ Capturable(Head(todo)) # {}
    /\ LET k == NextDue(Head(todo))
       IN  /\ snaps' = snaps \cup {k}
           /\ snapFile' = [snapFile EXCEPT ![k] = Append(@, now)]
    /\ UNCHANGED <<now, given, loop, marketFile, label, missed, faults>>

\* It cannot be written; it is in memory all the same.
CaptureFails ==
    /\ phase = "capture" /\ todo # <<>> /\ Capturable(Head(todo)) # {}
    /\ snaps' = snaps \cup {NextDue(Head(todo))}
    /\ Fails(open)
    /\ UNCHANGED <<now, given, files, label, missed>>

\* What is over is counted by the clock the pass began with.
Sweep ==
    /\ phase = "capture" /\ todo # <<>> /\ Capturable(Head(todo)) = {}
    /\ missed' = missed \cup Late(Head(todo))
    /\ todo' = Tail(todo)
    /\ UNCHANGED <<now, given, phase, readAt, open, asked, errors, files, store, faults>>

-----------------------------------------------------------------------------
(***************************************************************************)
(* Labels.                                                                 *)
(***************************************************************************)

AskSessions ==                                 \* variant: only for the markets streamed
    {m \in ToSet(open) : label[m] \notin Outcome /\ readAt' >= SettlesAt[m]}

\* resolve_pending_labels() asks for these: unlabelled, settled and not too old.
Ask == {m \in Market : /\ label[m] \in {"blank", "void"}
                       /\ readAt' >= SettlesAt[m]
                       /\ readAt' - SettlesAt[m] <= MaxWait}

\* An iteration on which the label pass is due.
BeginLabels ==
    /\ phase = "capture" /\ todo = <<>>
    /\ phase' = "label"
    /\ readAt' = now
    /\ asked' = Ask
    /\ UNCHANGED <<now, given, open, todo, errors, files, store, missed, faults>>

\* No answer for this market, or one that is no settled payout.
NoAnswer(m) ==
    /\ phase = "label" /\ m \in asked
    /\ \/ Venue(m) = "none" /\ UNCHANGED faults
       \/ faults < MaxFaults /\ faults' = faults + 1
    /\ asked' = asked \ {m}
    /\ UNCHANGED <<now, given, phase, readAt, open, todo, errors, files, store, missed>>

\* The market is closed and paid out: the outcome becomes its label.
Resolve(m) ==
    /\ phase = "label" /\ m \in asked /\ Venue(m) # "none"
    /\ Upsert(m, Venue(m), TRUE)
    /\ asked' = asked \ {m}
    /\ UNCHANGED <<now, given, phase, readAt, open, todo, errors, snapFile, snaps, missed, faults>>

ResolveFails(m) ==
    /\ phase = "label" /\ m \in asked /\ Venue(m) \notin {"none", label[m]}
    /\ Upsert(m, Venue(m), FALSE)
    /\ Fails(open)
    /\ UNCHANGED <<now, given, snapFile, snaps, missed>>

\* The iteration ends without an error, after a label pass or without one.
Rest ==
    /\ \/ phase = "capture" /\ todo = <<>>
       \/ phase = "label" /\ asked = {}
    /\ phase' = "rest" /\ readAt' = 0
    /\ errors' = 0
    /\ UNCHANGED <<now, given, open, todo, asked, files, store, missed, faults>>

-----------------------------------------------------------------------------
ScanFinds == \E found \in SUBSET Market : Scanned(found)
Answers   == \E m \in Market : NoAnswer(m) \/ Resolve(m)

Next ==
    \/ Tick \/ Start \/ Crash \/ Sync \/ ScanFails \/ ScanFinds \/ Skip \/ Capture
    \/ CaptureFails \/ Sweep \/ BeginLabels \/ Answers \/ Rest
    \/ \E found \in SUBSET Market, n \in 1..MaxSessions : RegisterFails(found, n)
    \/ \E m \in Market : Publish(m) \/ ResolveFails(m)

Spec == Init /\ [][Next]_vars

\* The process is started again, the loop goes on, and scans and label passes
\* keep coming due.
Fairness ==
    /\ WF_vars(Start) /\ WF_vars(ScanFinds) /\ WF_vars(Capture) /\ WF_vars(Rest)
    /\ WF_vars(Sweep) /\ WF_vars(Answers) /\ WF_vars(Skip)
    /\ SF_vars(Sync) /\ SF_vars(BeginLabels)

LiveSpec == Spec /\ Fairness

-----------------------------------------------------------------------------
(***************************************************************************)
(* Types; the sessions are distinct, no more than allowed, and the process *)
(* knows every market it streams (live/service.py:241-253).                *)
(***************************************************************************)
TypeOK ==
    /\ now \in 0..MaxTime /\ readAt \in 0..now
    /\ \A m \in Market : given[m] \in 0..Len(Course[m])
    /\ phase \in {"down", "rest", "scan", "capture", "label"}
    /\ open \in Seq(Market) /\ IsInjective(open) /\ Len(open) <= MaxSessions
    /\ \A m \in ToSet(open) : label[m] # "unknown"
    /\ todo \in Seq(Market) /\ asked \subseteq Market
    /\ errors \in 0..MaxErrors - 1
    /\ \A m \in Market : marketFile[m] \in Seq(Label)
    /\ \A k \in Key : snapFile[k] \in Seq(Nat)
    /\ label \in [Market -> Label \cup {"unknown"}]
    /\ snaps \subseteq Key /\ missed \subseteq Key
    /\ faults \in 0..MaxFaults

(***************************************************************************)
(* A horizon of a market is on file at most once, over failed writes and   *)
(* restarts in the middle of a window (dataset/store.py:123-143,           *)
(* dataset/collector.py:15-17).                                            *)
(***************************************************************************)
SnapshotOnce == \A k \in Key : Len(snapFile[k]) <= 1

(***************************************************************************)
(* Every snapshot on file was taken at its instant or after it, and by no  *)
(* more than the jitter and the time a pass takes: the check for lateness  *)
(* is made once per session, with the clock of the start of the pass, so   *)
(* the jitter alone does not bound captured_at_ms                          *)
(* (dataset/collector.py:163-176, 216; live/service.py:279-291).           *)
(***************************************************************************)
NeverBackdated ==
    \A k \in Key : \A i \in DOMAIN snapFile[k] :
        snapFile[k][i] - Instant(k) \in 0..Jitter + PassTime

(***************************************************************************)
(* An outcome on file is never changed by a later line, whatever the venue *)
(* says afterwards and whoever reads the file anew                         *)
(* (dataset/store.py:83-108, dataset/collector.py:284-339).                *)
(***************************************************************************)
LabelStands ==
    \A m \in Market : \A i, j \in DOMAIN marketFile[m] :
        i < j /\ marketFile[m][i] \in Outcome => marketFile[m][j] = marketFile[m][i]

(***************************************************************************)
(* The dataset holds what was collected: each snapshot once and of its     *)
(* time, each outcome for good, over restarts and writes that fail.        *)
(***************************************************************************)
DatasetIsSound == SnapshotOnce /\ NeverBackdated /\ LabelStands

(***************************************************************************)
(* A horizon counted as missed is in no file, and a session that a pass    *)
(* has looked at has each horizon that is over captured or counted: the    *)
(* two cut-offs leave no gap and no overlap                                *)
(* (dataset/collector.py:163-206).                                         *)
(***************************************************************************)
Accounted ==
    /\ \A k \in missed : snapFile[k] = <<>>
    /\ phase = "capture" =>
         \A k \in (ToSet(open) \ ToSet(todo)) \X Horizon :
             readAt - Instant(k) > Jitter => k \in snaps \cup missed

(***************************************************************************)
(* The countdown of every session is kept and accounts for each horizon.   *)
(***************************************************************************)
CountdownIsSound == TypeOK /\ Accounted

(***************************************************************************)
(* No session outlives its market: the feed of a market that has settled   *)
(* is closed, also when scans and captures fail (live/service.py:18-22).   *)
(***************************************************************************)
SettledIsClosed ==
    \A m \in Market :
        m \in ToSet(open) /\ now >= SettlesAt[m] ~> m \notin ToSet(open)

\* The outcome is in memory and not on file: a process that holds it asks for it
\* no more.
Unwritten(m) == label[m] \in Outcome /\ IndexMarket(m) \notin Outcome

(***************************************************************************)
(* A market on record that the venue pays out gets its label, in the file, *)
(* unless it waits too long: over failed requests, a void that is          *)
(* corrected, and restarts that end the sessions.  The exception is a      *)
(* label whose write failed, for as long as the process lives: a restart   *)
(* makes up for it (dataset/collector.py:284-339, dataset/store.py:83-108).*)
(***************************************************************************)
EventuallyLabelled ==
    \A m \in Market :
        /\ marketFile[m] # <<>> /\ Venue(m) \in Outcome
        ~> \/ IndexMarket(m) \in Outcome
           \/ now - SettlesAt[m] > MaxWait
           \/ Venue(m) \notin Outcome
           \/ []Unwritten(m)

(***************************************************************************)
(* The loop gets done what a market needs of it, whatever fails meanwhile: *)
(* its session ends, and its outcome is on file unless a write of it fails *)
(* and the process that holds it is never restarted.                       *)
(***************************************************************************)
MarketsAreFinished == SettledIsClosed /\ EventuallyLabelled

(***************************************************************************)
(* "For a snapshot at instant S, every observation must satisfy            *)
(* event_time <= S" (dataset/leakage.py:22-24): no snapshot on file holds a *)
(* book that has moved since the instant.  The book is read as it is when  *)
(* the snapshot is taken, and the stamps the guard sees are capped at S.   *)
(***************************************************************************)
NothingFromLater ==
    \A k \in Lively \X Horizon : \A i \in DOMAIN snapFile[k] : snapFile[k][i] <= Instant(k)

=============================================================================
