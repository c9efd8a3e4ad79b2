-------------------------------- MODULE Alerts --------------------------------
(***************************************************************************)
(* Alerts that notify once (ops/alerts.py) and the three that raise them:  *)
(* the collector's status tick (live/service.py), `pmbtc watch` (cli.py)   *)
(* and the supervisor (ops/supervisor.py).  Each reads alert_state.json,   *)
(* decides, sends its notices, and then writes the whole file again.       *)
(* Nothing keeps the others out meanwhile, the file is not replaced in one *)
(* step, and the write may fail or be cut off after the notices are out.   *)
(***************************************************************************)
EXTENDS Integers, FiniteSetsExt

CONSTANTS
    Conditions,       \* keys of the conditions evaluate() finds in the world
    Regressed,        \* the key of a readiness metric that fell
    RestartFailing,   \* the key of the supervisor's own alert
    MaxCount,         \* bound: the readiness metric
    MaxDisturbed,     \* bound: what may go wrong with the file
    MaxAtWork         \* bound: producers at work on it at once

Producer == {"service", "watch", "supervisor"}
Evaluated == Conditions \cup {Regressed}
Keys == Evaluated \cup {RestartFailing}

VARIABLES
    standing,         \* conditions that hold in the world
    count,            \* check.actual of the metric that only grows
    disk,             \* alert_state.json, or Torn
    stage,            \* producer -> "away", "read" the file, or "sent" its notices
    held, saving,     \* producer -> the AlertState it read, and the one it is to save
    notices,          \* key -> notices since an evaluation last found it clear (history)
    disturbed         \* times the file was not as its producers left it (history)

alertVars == <<standing, count, disk, stage, held, saving, notices, disturbed>>

Empty == [active |-> {}, high |-> 0]
Torn  == [active |-> {}, high |-> -1]

-----------------------------------------------------------------------------
\* AlertState._load(): a file that does not parse is an empty state.
Loaded == IF disk = Torn THEN Empty ELSE disk

\* The readiness check of evaluate(): below 98% of the highest seen.
Fell(state) == 100 * count < 98 * state.high
Raised(state) == standing \cup (IF Fell(state) THEN {Regressed} ELSE {})

\* A slip: whatever is not raised is retracted, the supervisor's alert too.
RetractAll(state) == state.active \cap Raised(state)

\* Only what evaluate() itself produces is retracted.
Kept(state) == (state.active \ Evaluated) \cup (state.active \cap Raised(state))

\* dispatch(): what is not active fires and is marked.
Marked(state, raised, kept, high) == [active |-> kept \cup raised, high |-> high]

Evaluation(state) == Marked(state, Raised(state), Kept(state), Max({state.high, count}))
RestartAlert(state) == Marked(state, {RestartFailing}, state.active, state.high)

Outcome(p) == IF p = "supervisor" THEN RestartAlert(held[p]) ELSE Evaluation(held[p])
Fired(p) == Outcome(p).active \ held[p].active
FoundClear(p) == IF p = "supervisor" THEN {} ELSE Evaluated \ Raised(held[p])

\* What is marked and not on file: its loss is a notice forgotten.
Unsaved(p) == IF stage[p] = "sent" THEN saving[p].active \ held[p].active ELSE {}

\* The file is another's now, or about to be.
Overtaken(p) == Loaded # held[p] \/ \E q \in Producer \ {p} : stage[q] = "sent"

-----------------------------------------------------------------------------
AlertInit ==
    /\ standing = {} /\ count = 0
    /\ disk = Empty
    /\ stage = [p \in Producer |-> "away"]
    /\ held = [p \in Producer |-> Empty] /\ saving = held
    /\ notices = [k \in Keys |-> 0]
    /\ disturbed = 0

World(conditions, metric) ==
    /\ <<conditions, metric>> # <<standing, count>>
    /\ standing' = conditions /\ count' = metric
    /\ UNCHANGED <<disk, stage, held, saving, notices, disturbed>>

Disturb(happened) ==
    /\ disturbed' = IF happened THEN disturbed + 1 ELSE disturbed
    /\ disturbed' <= MaxDisturbed

Send(p, sent) ==
    notices' = [k \in Keys |-> IF k \in FoundClear(p) THEN 0
                               ELSE IF k \in sent THEN notices[k] + 1 ELSE notices[k]]

Leave(p) ==
    /\ stage' = [stage EXCEPT ![p] = "away"]
    /\ held' = [held EXCEPT ![p] = Empty] /\ saving' = [saving EXCEPT ![p] = Empty]

\* AlertState(path)
Load(p) ==
    /\ stage[p] = "away" /\ Cardinality({q \in Producer : stage[q] # "away"}) < MaxAtWork
    /\ stage' = [stage EXCEPT ![p] = "read"] /\ held' = [held EXCEPT ![p] = Loaded]
    /\ UNCHANGED <<standing, count, disk, saving, notices, disturbed>>

\* evaluate(), and dispatch() up to its save().
Dispatch(p) ==
    /\ stage[p] = "read"
    /\ stage' = [stage EXCEPT ![p] = "sent"] /\ saving' = [saving EXCEPT ![p] = Outcome(p)]
    /\ Send(p, Fired(p))
    /\ Disturb(Fired(p) # {} /\ Overtaken(p))
    /\ UNCHANGED <<standing, count, disk, held>>

\* state.save()
Save(p) ==
    /\ stage[p] = "sent"
    /\ disk' = saving[p]
    /\ Disturb(Loaded # held[p])
    /\ Leave(p)
    /\ UNCHANGED <<standing, count, notices>>

\* save() raises, which every caller survives, or the process is killed in it:
\* the file is as it was or cut off.
SaveFails(p) ==
    /\ stage[p] = "sent"
    /\ disk' \in {disk, Torn}
    /\ Disturb(disk' # disk \/ Unsaved(p) # {})
    /\ Leave(p)
    /\ UNCHANGED <<standing, count, notices>>

\* Killed before save(), with some of its notices sent.
Interrupted(p, sent) ==
    /\ stage[p] = "read"
    /\ Send(p, sent)
    /\ Disturb(sent # {})
    /\ Leave(p)
    /\ UNCHANGED <<standing, count, disk>>

AlertNext ==
    \/ \E conditions \in SUBSET Conditions, metric \in 0..MaxCount : World(conditions, metric)
    \/ \E p \in Producer : Load(p) \/ Dispatch(p) \/ Save(p) \/ SaveFails(p)
    \/ \E p \in Producer : \E sent \in SUBSET Fired(p) : Interrupted(p, sent)

AlertSpec == AlertInit /\ [][AlertNext]_alertVars

-----------------------------------------------------------------------------
\* alerts.py:21: "a persistent condition notifies once and then goes quiet
\* until it clears".  It notifies once more each time a write undid another's
\* or a notice was sent meanwhile, the file was torn, or a save was lost after
\* its notices were out, and never otherwise: what was notified is on file, the
\* supervisor's alert included, or about to be, until an evaluation that may
\* retract it finds it clear.
Remembered(k) == k \in disk.active \/ \E p \in Producer : k \in Unsaved(p)
NotifiesOnce ==
    \A k \in Keys : notices[k] <= IF Remembered(k) THEN disturbed + 1 ELSE disturbed

=============================================================================
