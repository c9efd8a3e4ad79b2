----------------------------- MODULE Supervisor -----------------------------
(***************************************************************************)
(* Runs of CollectorSupervisor (ops/supervisor.py), the collector          *)
(* processes they spawn and what the two share: the machine lock and the   *)
(* heartbeat file (ops/heartbeat.py).                                      *)
(*                                                                         *)
(* A run holds the lock from acquire() until it ends or is killed; the     *)
(* operating system then frees it.  The collector is a process of its own  *)
(* that never asks for the lock and survives its supervisor.  Every        *)
(* collector writes the one heartbeat file, stamped with its run's token,  *)
(* and does so by way of the one heartbeat.tmp: what is left of two writes *)
(* at the same time is any of the payloads, or none that can be parsed.    *)
(*                                                                         *)
(* Time is kept as ages that stop counting once they no longer matter.     *)
(***************************************************************************)
EXTENDS Integers

CONSTANTS
    Run,              \* runs of `pmbtc supervise`; each is its own token
    Proc,             \* bound: the collector processes that can be spawned
    Nobody,           \* no run, no process
    Unparsable,       \* no payload that can be parsed
    Probe,            \* `pmbtc supervisor-status`, which tries the lock
    Budget,           \* status_interval_seconds * 3, in ticks
    Grace,            \* startup_grace_s, in ticks
    HealthyRun,       \* HEALTHY_RUN_SECONDS, in ticks
    MaxErrors         \* max_consecutive_errors

ASSUME SupervisorAssumption ==
    /\ {Budget, Grace, HealthyRun, MaxErrors} \subseteq Nat
    /\ Grace <= HealthyRun
    /\ {Nobody, Probe, Unparsable} \cap (Run \cup Proc) = {}
    /\ Nobody # Probe /\ Nobody # Unparsable

VARIABLES
    lock,             \* who holds the lock
    pc,               \* run -> where run() is
    child,            \* run -> self.child
    ranFor,           \* run -> time since its child was spawned, while it watches it
    failures,         \* run -> stats.consecutive_failures
    proc,             \* process -> what it is doing
    owner,            \* process -> the run that spawned it
    writing,          \* process -> whether it writes a heartbeat, and with others
    beat,             \* the heartbeat file: its age and its token
    silent            \* process -> time since its own last heartbeat

vars == <<lock, pc, child, ranFor, failures, proc, owner, writing, beat, silent>>
processes == <<proc, owner, writing, silent>>

Alive       == {"collecting", "hung"}
Watching    == {"watching", "stopping", "blind"}
Supervising == Watching \cup {"spawning", "waiting", "interrupted"}

\* An age one tick later, or at its limit.
Older(age, limit) == IF age < limit THEN age + 1 ELSE age

Never == Budget + 1

\* The silence of a collector that has written no heartbeat yet.
Mute == Budget + 2

Init == /\ lock = Nobody
        /\ pc = [r \in Run |-> "new"]
        /\ child = [r \in Run |-> Nobody]
        /\ ranFor = [r \in Run |-> 0]
        /\ failures = [r \in Run |-> 0]
        /\ proc = [p \in Proc |-> "unborn"]
        /\ owner = [p \in Proc |-> Nobody]
        /\ writing = [p \in Proc |-> "no"]
        /\ beat = [age |-> Never, token |-> Nobody]
        /\ silent = [p \in Proc |-> Mute]

Tick ==
    /\ ranFor' = [r \in Run |-> IF pc[r] \in Watching THEN Older(ranFor[r], HealthyRun)
                                                      ELSE ranFor[r]]
    /\ beat' = [beat EXCEPT !.age = Older(@, Never)]
    /\ silent' = [p \in Proc |-> Older(silent[p], Never)]
    /\ UNCHANGED <<lock, pc, child, failures, proc, owner, writing>>

-----------------------------------------------------------------------------
(***************************************************************************)
(* The collector processes.                                                *)
(***************************************************************************)

MidWrite == {p \in Proc : writing[p] # "no"}

\* write_text() empties heartbeat.tmp, under the hands of whoever fills it.
Open(p) ==
    /\ proc[p] = "collecting" /\ writing[p] = "no"
    /\ writing' = [q \in Proc |-> IF q \notin MidWrite \cup {p} THEN writing[q]
                                  ELSE IF MidWrite = {} THEN "alone" ELSE "shared"]
    /\ UNCHANGED <<lock, pc, child, ranFor, failures, proc, owner, beat, silent>>

\* What the file holds once p has replaced it.
Left(p) == IF writing[p] = "shared" THEN {owner[q] : q \in MidWrite} \cup {Unparsable}
                                    ELSE {owner[p]}

\* The rest of write_heartbeat(): heartbeat.tmp becomes heartbeat.json.
Publish(p) ==
    /\ proc[p] = "collecting" /\ writing[p] # "no"
    /\ writing' = [writing EXCEPT ![p] = "no"]
    /\ \E token \in Left(p) : beat' = [age |-> 0, token |-> token]
    /\ silent' = [silent EXCEPT ![p] = 0]
    /\ UNCHANGED <<lock, pc, child, ranFor, failures, proc, owner>>

\* It fails, on a full disk or because another has taken heartbeat.tmp; the
\* service goes on.
PublishFails(p) ==
    /\ proc[p] = "collecting" /\ writing[p] # "no"
    /\ writing' = [writing EXCEPT ![p] = "no"]
    /\ UNCHANGED <<lock, pc, child, ranFor, failures, proc, owner, beat, silent>>

\* The process runs and no longer gets round its loop, or does so again.
Hang(p) ==
    /\ \/ proc[p] = "collecting" /\ proc' = [proc EXCEPT ![p] = "hung"]
       \/ proc[p] = "hung" /\ proc' = [proc EXCEPT ![p] = "collecting"]
    /\ UNCHANGED <<lock, pc, child, ranFor, failures, owner, writing, beat, silent>>

Exits(p) == /\ proc' = [q \in Proc |-> IF q = p THEN "exited" ELSE proc[q]]
            /\ writing' = [q \in Proc |-> IF q = p THEN "no" ELSE writing[q]]
            /\ silent' = [q \in Proc |-> IF q = p THEN Mute ELSE silent[q]]

Exit(p) ==
    /\ proc[p] \in Alive
    /\ Exits(p)
    /\ UNCHANGED <<lock, pc, child, ranFor, failures, owner, beat>>

-----------------------------------------------------------------------------
(***************************************************************************)
(* The lock.                                                               *)
(***************************************************************************)

LockPerSession == TRUE                       \* variant: the Local\ mutex of one logon session

LockFree == lock = Nobody

\* acquire(), and the refusal of a second instance.
Start(r) ==
    /\ pc[r] = "new"
    /\ IF LockFree
         THEN lock' = r    /\ pc' = [pc EXCEPT ![r] = "spawning"]
         ELSE lock' = lock /\ pc' = [pc EXCEPT ![r] = "refused"]
    /\ UNCHANGED <<child, ranFor, failures, processes, beat>>

\* supervisor-status takes the lock to see whether it can, and releases it.
ProbeLock ==
    /\ \/ LockFree /\ lock' = Probe
       \/ lock = Probe /\ lock' = Nobody
    /\ UNCHANGED <<pc, child, ranFor, failures, processes, beat>>

-----------------------------------------------------------------------------
(***************************************************************************)
(* The supervisor.                                                         *)
(***************************************************************************)

Unborn == {p \in Proc : proc[p] = "unborn"}

\* Which of them it is makes no difference.
NextProc == CHOOSE p \in Unborn : TRUE

Spawn(r) ==
    /\ pc[r] = "spawning" /\ Unborn # {}
    /\ proc' = [proc EXCEPT ![NextProc] = "collecting"]
    /\ owner' = [owner EXCEPT ![NextProc] = r]
    /\ child' = [child EXCEPT ![r] = NextProc]
    /\ ranFor' = [ranFor EXCEPT ![r] = 0]
    /\ pc' = [pc EXCEPT ![r] = "watching"]
    /\ UNCHANGED <<lock, failures, writing, beat, silent>>

\* The child is gone: count the run as a failure, or forget the earlier ones.
Ended(r) ==
    /\ pc' = [pc EXCEPT ![r] = "waiting"]
    /\ failures' = [failures EXCEPT ![r] =
                      IF ranFor[r] >= HealthyRun THEN 0 ELSE Older(@, MaxErrors)]
    /\ ranFor' = [ranFor EXCEPT ![r] = 0]

\* _watch() sees that the child has exited.
SeesExit(r) ==
    /\ pc[r] = "watching" /\ proc[child[r]] = "exited"
    /\ Ended(r)
    /\ UNCHANGED <<lock, child, processes, beat>>

HungOrForeign(r) == beat.age > Budget \/ beat.token # r   \* variant: a foreign token is a hang
HungIfGone(r)    == proc[child[r]] = "exited"             \* variant: a PID check alone

\* check_health() fails "heartbeat": the file is stale, missing or cannot be
\* parsed.  Whose it is only degrades the report.
Hung(r) == beat.age > Budget \/ beat.token = Unparsable

\* _watch() finds the child hung and terminates it.
Judge(r) ==
    /\ pc[r] = "watching" /\ proc[child[r]] # "exited"
    /\ ranFor[r] >= Grace
    /\ Hung(r)
    /\ pc' = [pc EXCEPT ![r] = "stopping"]
    /\ UNCHANGED <<lock, child, ranFor, failures, processes, beat>>

\* The same where the system refuses to read the file, whatever it holds.
JudgeBlind(r) ==
    /\ pc[r] = "watching" /\ proc[child[r]] # "exited"
    /\ ranFor[r] >= Grace
    /\ pc' = [pc EXCEPT ![r] = "blind"]
    /\ UNCHANGED <<lock, child, ranFor, failures, processes, beat>>

\* stop_child(): the child obeys SIGTERM in time or gets SIGKILL.
ChildStopped(r) == Exits(child[r])

Stop(r) ==
    /\ pc[r] \in Watching \ {"watching"}
    /\ ChildStopped(r)
    /\ Ended(r)
    /\ UNCHANGED <<lock, child, owner, beat>>

\* The backoff is over; however often it failed, it tries again.
Restart(r) ==
    /\ pc[r] = "waiting"
    /\ pc' = [pc EXCEPT ![r] = "spawning"]
    /\ UNCHANGED <<lock, child, ranFor, failures, processes, beat>>

Interrupt(r) ==
    /\ pc[r] \in Supervising \ {"interrupted"}
    /\ pc' = [pc EXCEPT ![r] = "interrupted"]
    /\ ranFor' = [ranFor EXCEPT ![r] = 0]
    /\ UNCHANGED <<lock, child, failures, processes, beat>>

\* lock.release() in the finally.
Release(r) == lock' = IF lock = r THEN Nobody ELSE lock

\* The handler of KeyboardInterrupt stops the child before the lock goes.
End(r) ==
    /\ pc[r] = "interrupted"
    /\ ChildStopped(r)
    /\ Release(r)
    /\ pc' = [pc EXCEPT ![r] = "ended"]
    /\ UNCHANGED <<child, ranFor, failures, owner, beat>>

\* max_restarts is reached.
Finish(r) ==
    /\ pc[r] = "waiting"
    /\ Release(r)
    /\ pc' = [pc EXCEPT ![r] = "ended"]
    /\ UNCHANGED <<child, ranFor, failures, processes, beat>>

\* The supervisor is killed; the kernel frees the lock, the child lives on.
Killed(r) ==
    /\ pc[r] \in Supervising
    /\ pc' = [pc EXCEPT ![r] = "killed"]
    /\ lock' = Nobody
    /\ ranFor' = [ranFor EXCEPT ![r] = 0]
    /\ UNCHANGED <<child, failures, processes, beat>>

Next ==
    \/ Tick \/ ProbeLock
    \/ \E p \in Proc : Open(p) \/ Publish(p) \/ PublishFails(p) \/ Hang(p) \/ Exit(p)
    \/ \E r \in Run :
        \/ Start(r) \/ SeesExit(r) \/ Judge(r) \/ JudgeBlind(r) \/ Stop(r)
        \/ Restart(r) \/ Spawn(r) \/ Interrupt(r) \/ End(r) \/ Finish(r) \/ Killed(r)

Spec == Init /\ [][Next]_vars

\* Time passes, and a supervisor that lives goes on with its loop.
LiveSpec ==
    /\ Spec /\ WF_vars(Tick)
    /\ \A r \in Run : /\ WF_vars(SeesExit(r)) /\ WF_vars(Judge(r)) /\ WF_vars(Stop(r))
                      /\ WF_vars(Restart(r)) /\ WF_vars(Spawn(r))

-----------------------------------------------------------------------------
Writers == {p \in Proc : proc[p] = "collecting"}
Orphans == {p \in Proc : proc[p] \in Alive /\ owner[p] \in Run /\ pc[owner[p]] = "killed"}

\* The types of the variables; the lock is held by the run that supervises and
\* by nobody once a run is over (ops/supervisor.py:553-554).
TypeOK ==
    /\ lock \in Run \cup {Nobody, Probe}
    /\ pc \in [Run -> Supervising \cup {"new", "refused", "ended", "killed"}]
    /\ \A r \in Run : pc[r] \in Supervising <=> lock = r
    /\ child \in [Run -> Proc \cup {Nobody}]
    /\ ranFor \in [Run -> 0..HealthyRun]
    /\ failures \in [Run -> 0..MaxErrors]
    /\ proc \in [Proc -> Alive \cup {"unborn", "exited"}]
    /\ owner \in [Proc -> Run \cup {Nobody}]
    /\ writing \in [Proc -> {"no", "alone", "shared"}]
    /\ beat \in [age : 0..Never, token : Run \cup {Nobody, Unparsable}]
    /\ silent \in [Proc -> 0..Mute]

(***************************************************************************)
(* At most one collector can write the store, orphans of killed            *)
(* supervisors aside: a restart never overlaps the child it replaces and   *)
(* a second run never adds one of its own (ops/supervisor.py:21-25).       *)
(***************************************************************************)
OneCollector == \A p, q \in Writers \ Orphans : p = q

(***************************************************************************)
(* A heartbeat file that can be read costs no working collector its life,  *)
(* whoever else writes it: a child that is condemned wrote no heartbeat    *)
(* for the whole budget, or has not written its first one though the grace *)
(* is over, or the file is torn, and that takes a collector whose          *)
(* supervisor was killed (ops/supervisor.py:110-115, 576-591,              *)
(* ops/heartbeat.py:70-76).                                                *)
(***************************************************************************)
SomeKilled == \E s \in Run : pc[s] = "killed"

StopsOnlySilent ==
    [][\A r \in Run : pc[r] = "watching" /\ pc'[r] = "stopping"
           => \/ silent[child[r]] = Never
              \/ silent[child[r]] = Mute /\ ranFor[r] >= Grace
              \/ beat.token = Unparsable /\ SomeKilled]_vars

(***************************************************************************)
(* Where no supervisor was killed, a collector that hangs is replaced      *)
(* (ops/supervisor.py:16-19): its process recovers or is ended, as long    *)
(* as its supervisor lives.                                                *)
(***************************************************************************)
HungIsReplaced ==
    \A r \in Run, p \in Proc :
        (pc[r] = "watching" /\ child[r] = p /\ proc[p] = "hung")
            ~> (proc[p] # "hung" \/ pc[r] \notin Supervising \/ pc[r] = "interrupted"
                    \/ Orphans # {})

(***************************************************************************)
(* A supervisor that lost its collector starts another one, whatever the   *)
(* number of failures, unless it is stopped (ops/supervisor.py:510-548).   *)
(***************************************************************************)
StartsAnother ==
    \A r \in Run :
        (pc[r] = "waiting")
            ~> (pc[r] \notin {"waiting", "spawning"} \/ Unborn = {})

(***************************************************************************)
(* Recording never ends while a supervisor lives: neither a collector that *)
(* hangs nor one that exits is the last one (ops/supervisor.py:16-19).     *)
(***************************************************************************)
CollectionGoesOn == HungIsReplaced /\ StartsAnother

=============================================================================
