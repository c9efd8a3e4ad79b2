--------------------------- MODULE SettlementGate ---------------------------
(***************************************************************************)
(* Which markets may be traded: the acceptance pipeline of MarketDiscovery *)
(* (gamma/discovery.py) with the settlement history it consults            *)
(* (settlement/store.py, settlement/verifier.py) and the lifecycle log it  *)
(* keeps (gamma/lifecycle.py).                                             *)
(*                                                                         *)
(* Markets of one series settle by some mechanics, which the fingerprint   *)
(* of their specification names; the venue may change them from one market *)
(* to the next, and for a market it has already listed.  History and log   *)
(* are files that outlive the process; it reads them back when it starts.  *)
(***************************************************************************)
EXTENDS Integers, SequencesExt

CONSTANTS
    Market,           \* condition ids
    Hash,             \* spec_hash: the ways a market may settle
    Sound,            \* those that pass every other check of the verifier
    NoHash,           \* a series or a market without a record
    OpensAt, SettlesAt, \* market -> tick
    SafetyWindow,     \* order_safety_window_seconds, in ticks
    MaxTime,          \* bound: ticks
    MaxListed,        \* bound: markets in one answer of Gamma
    MaxAmends,        \* bound: changes of a listed market
    MaxFailed,        \* bound: appends that the disk refuses
    MaxCrashes        \* bound: how often the process is killed

ASSUME GateAssumption ==
    /\ Sound \subseteq Hash /\ NoHash \notin Hash
    /\ OpensAt \in [Market -> Nat] /\ SettlesAt \in [Market -> Nat]
    /\ SafetyWindow \in Nat /\ MaxTime \in Nat

VARIABLES
    now,
    mechanics,        \* market -> how the venue says it settles
    specFile,         \* settlement_specs.jsonl
    specs,            \* store._by_condition: market -> hash
    series,           \* store._series_hash of the series
    lifeFile,         \* market_lifecycle.jsonl
    life,             \* tracker._state: market -> state
    unlogged,         \* history: the markets whose last transition was refused
                      \* by the disk in this process
    listed,           \* what is left of the markets of this scan
    seen,             \* seen_conditions of this scan
    candidates,       \* result.candidates of the last scan
    amends, failed, crashes

vars == <<now, mechanics, specFile, specs, series, lifeFile, life, unlogged, listed,
          seen, candidates, amends, failed, crashes>>
history == <<specFile, specs, series>>
log     == <<lifeFile, life, unlogged>>
scan    == <<listed, seen, candidates>>

Order == [UNSEEN |-> -1, DISCOVERED |-> 0, OPEN |-> 1, NEAR_SETTLEMENT |-> 2,
          SETTLED |-> 3, ARCHIVED |-> 4, REJECTED |-> 5]
State == DOMAIN Order

-----------------------------------------------------------------------------
(***************************************************************************)
(* The settlement history.                                                 *)
(***************************************************************************)

\* The lines of a file about a market, and the last of them.
LinesOf(f, m) == {i \in DOMAIN f : f[i].market = m}
LastLine(f, m) == f[Max(LinesOf(f, m))]

\* _index() over the lines of the file.
IndexOf(f)  == [m \in Market |-> IF LinesOf(f, m) = {} THEN NoHash ELSE LastLine(f, m).hash]
SeriesOf(f) == IF f = <<>> THEN NoHash ELSE f[Len(f)].hash

Unchanged(m, h) == specs[m] = h

OncePerSeries(m, h) ==                       \* variant: a hash is written once for the series
    /\ specFile' = IF series = h THEN specFile ELSE Append(specFile, [market |-> m, hash |-> h])
    /\ specs' = [specs EXCEPT ![m] = h]
    /\ series' = h

\* record(): writes and indexes what is new for this market.
Record(m, h) ==
    IF Unchanged(m, h)
      THEN UNCHANGED history
      ELSE /\ specFile' = Append(specFile, [market |-> m, hash |-> h])
           /\ specs' = [specs EXCEPT ![m] = h]
           /\ series' = h

KnownAfterRecord(m, h) == IF Unchanged(m, h) THEN series ELSE h   \* variant: asked after record()

\* What the verifier compares with: previous_hash of a change that record()
\* reports, else the hash that the series has by now.
Known(m, h) ==
    CASE Unchanged(m, h)  -> series
      [] series = NoHash  -> h
      [] OTHER            -> series

\* trading_enabled
Verified(m, h) == h \in Sound /\ Known(m, h) = h

-----------------------------------------------------------------------------
(***************************************************************************)
(* The lifecycle log.                                                      *)
(***************************************************************************)

StatesOf(f) == [m \in Market |->
                  IF LinesOf(f, m) = {} THEN "UNSEEN" ELSE LastLine(f, m).state]

\* classify(); health has refused a closed market before.
Classify(m, accepting) ==
    CASE now >= SettlesAt[m]                -> "SETTLED"
      [] now >= SettlesAt[m] - SafetyWindow -> "NEAR_SETTLEMENT"
      [] now >= OpensAt[m] /\ accepting     -> "OPEN"
      [] OTHER                              -> "DISCOVERED"

Forward(m, s) == Order[s] > Order[life[m]]

\* observe(): a step forward is logged, anything else is not.
Observe(m, s) ==
    IF Forward(m, s)
      THEN /\ life' = [life EXCEPT ![m] = s]
           /\ lifeFile' = Append(lifeFile, [market |-> m, state |-> s])
           /\ unlogged' = unlogged \ {m}
      ELSE UNCHANGED log

\* The disk refuses the line: _state has the new state already.
ObserveFails(m, s) ==
    /\ Forward(m, s)
    /\ life' = [life EXCEPT ![m] = s]
    /\ unlogged' = unlogged \cup {m}
    /\ UNCHANGED lifeFile

-----------------------------------------------------------------------------
Init == /\ now = 0
        /\ mechanics \in [Market -> Hash]
        /\ specFile = <<>> /\ specs = IndexOf(<<>>) /\ series = NoHash
        /\ lifeFile = <<>> /\ life = StatesOf(<<>>) /\ unlogged = {}
        /\ listed = <<>> /\ seen = {} /\ candidates = {}
        /\ amends = 0 /\ failed = 0 /\ crashes = 0

Tick == /\ now < MaxTime
        /\ now' = now + 1
        /\ UNCHANGED <<mechanics, history, log, scan, amends, failed, crashes>>

\* The venue changes how a market it has listed settles.
Amend(m, h) ==
    /\ amends < MaxAmends /\ mechanics[m] # h
    /\ amends' = amends + 1
    /\ mechanics' = [mechanics EXCEPT ![m] = h]
    /\ UNCHANGED <<now, history, log, scan, failed, crashes>>

\* scan() has fetched the markets of the series; one may be listed twice.
Scan(markets) ==
    /\ listed = <<>>
    /\ listed' = markets
    /\ seen' = {} /\ candidates' = {}
    /\ UNCHANGED <<now, mechanics, history, log, amends, failed, crashes>>

\* The schema check or the parser refuses the payload.
Unreadable ==
    /\ listed # <<>>
    /\ Observe(Head(listed), "REJECTED")
    /\ listed' = Tail(listed)
    /\ UNCHANGED <<now, mechanics, history, seen, candidates, amends, failed, crashes>>

\* The health check refuses: quotes, venue flags, or one of the two below.
Unhealthy ==
    /\ listed # <<>>
    /\ seen' = seen \cup {Head(listed)}
    /\ Observe(Head(listed), "REJECTED")
    /\ listed' = Tail(listed)
    /\ UNCHANGED <<now, mechanics, history, candidates, amends, failed, crashes>>

MayBeHealthy(m) == m \notin seen /\ now < SettlesAt[m]

\* The verifier refuses.
Refused ==
    /\ listed # <<>> /\ MayBeHealthy(Head(listed))
    /\ LET m == Head(listed) IN
        /\ ~Verified(m, mechanics[m])
        /\ Record(m, mechanics[m])
        /\ Observe(m, "REJECTED")
        /\ seen' = seen \cup {m}
    /\ listed' = Tail(listed)
    /\ UNCHANGED <<now, mechanics, candidates, amends, failed, crashes>>

\* Every gate is passed.
Accepted(accepting) ==
    /\ listed # <<>> /\ MayBeHealthy(Head(listed))
    /\ LET m == Head(listed)
           s == Classify(m, accepting)
       IN  /\ Verified(m, mechanics[m])
           /\ Record(m, mechanics[m])
           /\ Observe(m, s)
           /\ seen' = seen \cup {m}
           /\ candidates' = candidates \cup {[market |-> m, hash |-> mechanics[m]]}
    /\ listed' = Tail(listed)
    /\ UNCHANGED <<now, mechanics, amends, failed, crashes>>

\* An append raises: scan() ends there and its result is lost.
Abandoned ==
    /\ listed # <<>> /\ failed < MaxFailed
    /\ failed' = failed + 1
    /\ listed' = <<>> /\ seen' = {} /\ candidates' = {}
    /\ UNCHANGED <<now, mechanics, amends, crashes>>

\* The disk refuses the line of the settlement history: nothing is indexed.
RecordFails ==
    /\ Abandoned
    /\ MayBeHealthy(Head(listed))
    /\ ~Unchanged(Head(listed), mechanics[Head(listed)])
    /\ UNCHANGED <<history, log>>

\* The disk refuses the line about a market that is rejected unverified.
RejectionFails ==
    /\ Abandoned
    /\ ObserveFails(Head(listed), "REJECTED")
    /\ UNCHANGED history

\* It refuses the line about a market that was verified, for better or worse.
VerdictFails(accepting) ==
    /\ Abandoned
    /\ LET m == Head(listed) IN
        /\ MayBeHealthy(m)
        /\ Record(m, mechanics[m])
        /\ ObserveFails(m, IF Verified(m, mechanics[m]) THEN Classify(m, accepting)
                                                       ELSE "REJECTED")

\* LifecycleTracker._load()
LoadLog == life' = StatesOf(lifeFile) /\ unlogged' = {}

Restarted ==
    /\ LoadLog
    /\ listed' = <<>> /\ seen' = {} /\ candidates' = {}
    /\ crashes < MaxCrashes /\ crashes' = crashes + 1
    /\ UNCHANGED <<now, mechanics, lifeFile, amends, failed>>

\* The process is killed between two markets and started again.
Crash ==
    /\ Restarted
    /\ specs' = IndexOf(specFile) /\ series' = SeriesOf(specFile)
    /\ UNCHANGED specFile

\* It is killed after record() has written and before the verdict is logged.
CrashAfterRecord ==
    /\ listed # <<>> /\ MayBeHealthy(Head(listed))
    /\ Record(Head(listed), mechanics[Head(listed)])
    /\ Restarted

Next ==
    \/ Tick \/ Unreadable \/ Unhealthy \/ Refused \/ RecordFails \/ RejectionFails
    \/ Crash \/ CrashAfterRecord
    \/ \E m \in Market, h \in Hash : Amend(m, h)
    \/ \E markets \in SeqOf(Market, MaxListed) : Scan(markets)
    \/ \E accepting \in BOOLEAN : Accepted(accepting) \/ VerdictFails(accepting)

Spec == Init /\ [][Next]_vars

-----------------------------------------------------------------------------
(***************************************************************************)
(* Types; every candidate is among the markets this scan has looked at and *)
(* settles in a way that passes the verifier's other checks                *)
(* (gamma/discovery.py:244-341).                                           *)
(***************************************************************************)
TypeOK ==
    /\ now \in 0..MaxTime
    /\ mechanics \in [Market -> Hash]
    /\ specFile \in Seq([market : Market, hash : Hash])
    /\ specs \in [Market -> Hash \cup {NoHash}] /\ series \in Hash \cup {NoHash}
    /\ lifeFile \in Seq([market : Market, state : State \ {"UNSEEN"}])
    /\ life \in [Market -> State] /\ unlogged \subseteq Market
    /\ listed \in Seq(Market) /\ seen \subseteq Market
    /\ \A c \in candidates : c.market \in seen /\ c.hash \in Sound

(***************************************************************************)
(* What the process knows of the mechanics is what it would read back      *)
(* after a restart, whatever appends the disk has refused: the hash of     *)
(* every market and the hash of the series (settlement/store.py:89-144).   *)
(* So is the state of every market, but for those whose last transition    *)
(* was refused: of these the process knows more than the log says, and a   *)
(* restart takes them back (gamma/lifecycle.py:111-158).                   *)
(***************************************************************************)
RestartLosesOnlyRefused ==
    /\ specs = IndexOf(specFile)
    /\ series = SeriesOf(specFile)
    /\ \A m \in Market :
          IF m \in unlogged THEN Order[StatesOf(lifeFile)[m]] < Order[life[m]]
                            ELSE StatesOf(lifeFile)[m] = life[m]

(***************************************************************************)
(* The log of a market only moves forward, over restarts and for every     *)
(* order of observations and refusals (gamma/lifecycle.py:47-48).          *)
(***************************************************************************)
LogMovesForward ==
    \A i, j \in DOMAIN lifeFile :
        i < j /\ lifeFile[i].market = lifeFile[j].market
            => Order[lifeFile[i].state] < Order[lifeFile[j].state]

(***************************************************************************)
(* Both histories can be relied on: they say what the process knows but    *)
(* for what the disk refused, and neither forgets nor goes back, whatever  *)
(* was killed or refused between two writes.                               *)
(***************************************************************************)
HistoriesAreSound == TypeOK /\ RestartLosesOnlyRefused /\ LogMovesForward

(***************************************************************************)
(* A market is never accepted by the look that first finds its series      *)
(* settling another way: what is accepted settles as the series did before *)
(* that look (gamma/discovery.py:301-318).                                 *)
(***************************************************************************)
ChangeIsRefusedAtSight ==
    [][\A c \in candidates' \ candidates : c.hash = series \/ series = NoHash]_vars

=============================================================================
