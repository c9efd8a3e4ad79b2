-------------------------- MODULE OperationsProofs --------------------------
(***************************************************************************)
(* The long-running helpers.                                               *)
(*                                                                         *)
(* Supervisor: each living process is the child of the run that spawned    *)
(* it, which watches or stops it, or that run was killed (ProcInv); the    *)
(* lock leaves one such run, so two write a heartbeat at the same time     *)
(* only once a run was killed (TornInv).  Alerts: the notices since the    *)
(* file was last seen clear are what the file and the writers remember     *)
(* (AlertInv).  SettlementSpec and Gamma: what is concluded follows from   *)
(* the payload, the answers and the archive it was concluded from.         *)
(* ReferencePrice: the price of a session is of the last moment that had   *)
(* one (StreamInv).  ClockService: a sample is off by its delay and its    *)
(* reference's step (ClockInv), so the median of two is off by less than   *)
(* is stated.  TickArchive, TradeTape: each frame that arrived is in a     *)
(* file, in the buffer or lost (ArchiveInv), and what the tape dropped is  *)
(* older than any window it could be asked for in (TapeInv).               *)
(***************************************************************************)
EXTENDS Supervisor, Alerts, ClockService, SettlementSpec, Gamma, ReferencePrice,
        TradeTape, OrderLemmas, SequenceTheorems, TLAPS

WithChild == Watching \cup {"interrupted"}

\* A process that lives and is no orphan is the child of the run that holds the lock.
Tended(p) == /\ owner[p] \in Run
             /\ child[owner[p]] = p
             /\ pc[owner[p]] \in WithChild

ProcInv == \A p \in Proc :
    /\ proc[p] \in Alive => pc[owner[p]] = "killed" \/ Tended(p)
    /\ proc[p] \in Alive => owner[p] \in Run
    /\ proc[p] = "unborn" => owner[p] = Nobody

LockInv == \A r \in Run : pc[r] \in Supervising <=> lock = r

Shape == /\ lock \in Run \cup {Nobody, Probe}
         /\ pc \in [Run -> Supervising \cup {"new", "refused", "ended", "killed"}]
         /\ child \in [Run -> Proc \cup {Nobody}]
         /\ \A r \in Run : pc[r] \in Watching => child[r] \in Proc
         /\ ranFor \in [Run -> 0..HealthyRun]
         /\ failures \in [Run -> 0..MaxErrors]
         /\ proc \in [Proc -> Alive \cup {"unborn", "exited"}]
         /\ owner \in [Proc -> Run \cup {Nobody}]
         /\ writing \in [Proc -> {"no", "alone", "shared"}]
         /\ beat \in [age : 0..Never, token : Run \cup {Nobody, Unparsable}]
         /\ silent \in [Proc -> 0..Mute]

\* No process has been silent for less time than the file is old.
BeatInv == \A p \in Proc : beat.age <= silent[p]

\* Only the living write; two at the same time, and so a torn file, take a killed run.
TornInv == /\ \A p \in Proc : writing[p] # "no" => proc[p] \in Alive
           /\ \/ SomeKilled
              \/ beat.token # Unparsable /\ \A p \in Proc : writing[p] # "shared"

IInv == Shape /\ LockInv /\ ProcInv /\ BeatInv /\ TornInv

-----------------------------------------------------------------------------
\* An age stays within its limit.
LEMMA OlderType ==
    ASSUME NEW limit \in Nat, NEW age \in 0..limit
    PROVE  Older(age, limit) \in 0..limit
BY DEF Older

\* The limits of the ages are natural numbers.
LEMMA Limits == /\ HealthyRun \in Nat /\ MaxErrors \in Nat /\ Never \in Nat
                /\ Mute = Never + 1 /\ Unparsable \notin Run /\ Unparsable # Nobody
                /\ Nobody \notin Run /\ Nobody \notin Proc
                /\ Probe \notin Run /\ Probe # Nobody
BY SupervisorAssumption DEF SupervisorAssumption, Never, Mute

\* The process that Spawn takes is a free one.
LEMMA NextProcFree == Unborn # {} => NextProc \in Proc /\ proc[NextProc] = "unborn"
BY DEF Unborn, NextProc

\* The invariant holds at the start.
LEMMA InitInv == Init => IInv
BY Limits DEF Init, IInv, Shape, LockInv, ProcInv, BeatInv, TornInv, Supervising, Watching, Alive

-----------------------------------------------------------------------------
\* A step keeps the types.
LEMMA ShapeStep == IInv /\ [Next]_vars => Shape'
<1> SUFFICES ASSUME IInv, [Next]_vars PROVE Shape'
    OBVIOUS
<1> USE Limits
<1>0. ASSUME NEW q PROVE Exits(q) => /\ proc' \in [Proc -> Alive \cup {"unborn", "exited"}]
                                     /\ writing' \in [Proc -> {"no", "alone", "shared"}]
                                     /\ silent' \in [Proc -> 0..Mute]
    BY DEF Exits, IInv, Shape, Alive
<1>1. CASE Tick
  <2>1. ranFor' \in [Run -> 0..HealthyRun]
      BY <1>1, OlderType DEF Tick, IInv, Shape
  <2>2. silent' \in [Proc -> 0..Mute]
      BY <1>1 DEF Tick, IInv, Shape, Older
  <2>3. beat' \in [age : 0..Never, token : Run \cup {Nobody, Unparsable}]
      BY <1>1, OlderType DEF Tick, IInv, Shape
  <2> QED
      BY <1>1, <2>1, <2>2, <2>3 DEF Tick, IInv, Shape
<1>2. CASE ProbeLock
    BY <1>2 DEF ProbeLock, IInv, Shape, LockFree, processes
<1>3. ASSUME NEW p \in Proc, Hang(p) \/ Exit(p) PROVE Shape'
    BY <1>0, <1>3 DEF Hang, Exit, IInv, Shape, Alive
<1>4. ASSUME NEW p \in Proc, Open(p) \/ Publish(p) \/ PublishFails(p) PROVE Shape'
  <2>1. \A q \in Proc : owner[q] \in Run \cup {Nobody}
      BY DEF IInv, Shape
  <2>2. Left(p) \subseteq Run \cup {Nobody, Unparsable}
      BY <2>1 DEF Left, MidWrite
  <2> QED
      BY <1>4, <2>2 DEF Open, Publish, PublishFails, IInv, Shape
<1>5. ASSUME NEW r \in Run, Start(r) PROVE Shape'
    BY <1>5 DEF Start, IInv, Shape, LockFree, processes, Supervising, Watching
<1>6. ASSUME NEW r \in Run, Spawn(r) PROVE Shape'
    BY <1>6, NextProcFree DEF Spawn, IInv, Shape, Supervising, Watching, Alive
<1>7. ASSUME NEW r \in Run, SeesExit(r) \/ Judge(r) \/ JudgeBlind(r) \/ Stop(r) PROVE Shape'
  <2>1. Ended(r) => /\ failures' \in [Run -> 0..MaxErrors]
                    /\ ranFor' \in [Run -> 0..HealthyRun]
    <3>1. failures[r] \in 0..MaxErrors
        BY DEF IInv, Shape
    <3>2. Older(failures[r], MaxErrors) \in 0..MaxErrors /\ 0 \in 0..MaxErrors
        BY <3>1, OlderType
    <3> QED
        BY <3>2 DEF Ended, IInv, Shape
  <2>2. CASE SeesExit(r)
      BY <2>1, <2>2 DEF SeesExit, Ended, IInv, Shape, Supervising, Watching, processes
  <2>3. CASE Judge(r) \/ JudgeBlind(r)
      BY <2>3 DEF Judge, JudgeBlind, IInv, Shape, Supervising, Watching, processes
  <2>4. CASE Stop(r)
      BY <1>0, <2>1, <2>4 DEF Stop, Ended, ChildStopped, IInv, Shape, Supervising, Watching
  <2> QED
      BY <1>7, <2>2, <2>3, <2>4
<1>8. ASSUME NEW r \in Run, Restart(r) \/ Interrupt(r) \/ Finish(r) \/ Killed(r)
      PROVE Shape'
    BY <1>8 DEF Restart, Interrupt, Finish, Killed, Release, IInv, Shape, Supervising,
                Watching, processes
<1>9. ASSUME NEW r \in Run, End(r) PROVE Shape'
    BY <1>0, <1>9 DEF End, Release, ChildStopped, IInv, Shape, Supervising, Watching
<1>10. CASE UNCHANGED vars
    BY <1>10 DEF vars, IInv, Shape
<1> QED
    BY <1>1, <1>2, <1>3, <1>4, <1>5, <1>6, <1>7, <1>8, <1>9, <1>10 DEF Next

\* A step keeps the lock with the run that supervises.
LEMMA LockStep == IInv /\ [Next]_vars => LockInv'
<1> SUFFICES ASSUME IInv, [Next]_vars PROVE LockInv'
    OBVIOUS
<1> USE Limits DEF Supervising, Watching
<1>1. CASE Tick
    BY <1>1 DEF Tick, IInv, LockInv
<1>2. CASE ProbeLock
    BY <1>2 DEF ProbeLock, IInv, LockInv, LockFree
<1>3. ASSUME NEW p \in Proc,
             Open(p) \/ Publish(p) \/ PublishFails(p) \/ Hang(p) \/ Exit(p)
      PROVE  LockInv'
    BY <1>3 DEF Open, Publish, PublishFails, Hang, Exit, IInv, LockInv
<1>4. ASSUME NEW r \in Run, Start(r) PROVE LockInv'
    BY <1>4 DEF Start, IInv, LockInv, Shape, LockFree
<1>5. ASSUME NEW r \in Run,
             Spawn(r) \/ SeesExit(r) \/ Judge(r) \/ JudgeBlind(r) \/ Stop(r)
      PROVE  LockInv'
    BY <1>5 DEF Spawn, SeesExit, Judge, JudgeBlind, Stop, Ended, IInv, LockInv, Shape
<1>6. ASSUME NEW r \in Run, Restart(r) \/ Interrupt(r) PROVE LockInv'
    BY <1>6 DEF Restart, Interrupt, IInv, LockInv, Shape
<1>7. ASSUME NEW r \in Run, End(r) \/ Finish(r) \/ Killed(r) PROVE LockInv'
    BY <1>7 DEF End, Finish, Killed, Release, IInv, LockInv, Shape
<1>8. CASE UNCHANGED vars
    BY <1>8 DEF vars, IInv, LockInv
<1> QED
    BY <1>1, <1>2, <1>3, <1>4, <1>5, <1>6, <1>7, <1>8 DEF Next

-----------------------------------------------------------------------------
\* A step leaves every living process with its run.
LEMMA ProcStep == IInv /\ [Next]_vars => ProcInv'
<1> SUFFICES ASSUME IInv, [Next]_vars PROVE ProcInv'
    OBVIOUS
<1> USE Limits DEF Alive, Watching
<1>1. CASE Tick
    BY <1>1 DEF Tick, IInv, ProcInv, Tended
<1>2. CASE ProbeLock
    BY <1>2 DEF ProbeLock, IInv, ProcInv, Tended, processes
<1>3. ASSUME NEW p \in Proc,
             Open(p) \/ Publish(p) \/ PublishFails(p) \/ Hang(p) \/ Exit(p)
      PROVE  ProcInv'
    BY <1>3 DEF Open, Publish, PublishFails, Hang, Exit, Exits, IInv, Shape, ProcInv, Tended
<1>4. ASSUME NEW r \in Run, Start(r) PROVE ProcInv'
    BY <1>4 DEF Start, IInv, Shape, ProcInv, Tended, WithChild, processes
<1>5. ASSUME NEW r \in Run, Spawn(r) PROVE ProcInv'
    BY <1>5, NextProcFree DEF Spawn, IInv, Shape, ProcInv, Tended, WithChild
<1>6. ASSUME NEW r \in Run, SeesExit(r) PROVE ProcInv'
    BY <1>6 DEF SeesExit, Ended, IInv, Shape, ProcInv, Tended, WithChild, processes
<1>7. ASSUME NEW r \in Run, Judge(r) \/ JudgeBlind(r) PROVE ProcInv'
    BY <1>7 DEF Judge, JudgeBlind, IInv, Shape, ProcInv, Tended, WithChild, processes
<1>8. ASSUME NEW r \in Run, Stop(r) PROVE ProcInv'
    BY <1>8 DEF Stop, ChildStopped, Exits, Ended, IInv, Shape, ProcInv, Tended, WithChild
<1>9. ASSUME NEW r \in Run, Restart(r) PROVE ProcInv'
    BY <1>9 DEF Restart, IInv, Shape, ProcInv, Tended, WithChild, processes
<1>10. ASSUME NEW r \in Run, Interrupt(r) PROVE ProcInv'
    BY <1>10 DEF Interrupt, IInv, Shape, ProcInv, Tended, WithChild, processes, Supervising
<1>11. ASSUME NEW r \in Run, End(r) PROVE ProcInv'
    BY <1>11 DEF End, ChildStopped, Exits, IInv, Shape, ProcInv, Tended, WithChild
<1>12. ASSUME NEW r \in Run, Finish(r) PROVE ProcInv'
    BY <1>12 DEF Finish, IInv, Shape, ProcInv, Tended, WithChild, processes
<1>13. ASSUME NEW r \in Run, Killed(r) PROVE ProcInv'
    BY <1>13 DEF Killed, IInv, Shape, ProcInv, Tended, WithChild, processes
<1>14. CASE UNCHANGED vars
    BY <1>14 DEF vars, IInv, ProcInv, Tended
<1> QED
    BY <1>1, <1>2, <1>3, <1>4, <1>5, <1>6, <1>7, <1>8, <1>9, <1>10, <1>11, <1>12, <1>13,
       <1>14 DEF Next

-----------------------------------------------------------------------------
\* The file stays at least as young as the last heartbeat of any process.
LEMMA BeatStep == IInv /\ [Next]_vars => BeatInv'
<1> SUFFICES ASSUME IInv, [Next]_vars PROVE BeatInv'
    OBVIOUS
<1> USE Limits
<1>1. CASE Tick
    BY <1>1 DEF Tick, Older, IInv, Shape, BeatInv
<1>2. ASSUME NEW p \in Proc, Publish(p) PROVE BeatInv'
    BY <1>2 DEF Publish, IInv, Shape, BeatInv
<1>3. ASSUME UNCHANGED <<beat, silent>> PROVE BeatInv'
    BY <1>3 DEF IInv, BeatInv
<1>4. CASE ProbeLock \/ UNCHANGED vars
    BY <1>3, <1>4 DEF ProbeLock, vars, processes
<1>5. ASSUME NEW p \in Proc, Open(p) \/ PublishFails(p) \/ Hang(p) PROVE BeatInv'
    BY <1>3, <1>5 DEF Open, PublishFails, Hang
<1>6. ASSUME NEW q, Exits(q), beat' = beat PROVE BeatInv'
    BY <1>6 DEF Exits, IInv, Shape, BeatInv
<1>7. ASSUME NEW p \in Proc, Exit(p) PROVE BeatInv'
    BY <1>6, <1>7 DEF Exit
<1>8. ASSUME NEW r \in Run, Stop(r) \/ End(r) PROVE BeatInv'
    BY <1>6, <1>8 DEF Stop, End, ChildStopped
<1>9. ASSUME NEW r \in Run,
             \/ Start(r) \/ Spawn(r) \/ SeesExit(r) \/ Judge(r) \/ JudgeBlind(r) \/ Restart(r)
             \/ Interrupt(r) \/ Finish(r) \/ Killed(r)
      PROVE  BeatInv'
    BY <1>3, <1>9 DEF Start, Spawn, SeesExit, Judge, JudgeBlind, Restart, Interrupt, Finish,
                      Killed, processes
<1> QED
    BY <1>1, <1>2, <1>4, <1>5, <1>7, <1>8, <1>9 DEF Next

-----------------------------------------------------------------------------
\* A killed run stays killed.
LEMMA KilledStays == IInv /\ [Next]_vars /\ SomeKilled => SomeKilled'
<1> SUFFICES ASSUME IInv, [Next]_vars, NEW s \in Run, pc[s] = "killed"
             PROVE  pc'[s] = "killed"
    BY DEF SomeKilled
<1>1. CASE UNCHANGED pc
    BY <1>1
<1>2. CASE Tick \/ ProbeLock \/ UNCHANGED vars
    BY <1>1, <1>2 DEF Tick, ProbeLock, vars
<1>3. ASSUME NEW p \in Proc, Open(p) \/ Publish(p) \/ PublishFails(p) \/ Hang(p) \/ Exit(p)
      PROVE  pc'[s] = "killed"
    BY <1>1, <1>3 DEF Open, Publish, PublishFails, Hang, Exit
<1>4. ASSUME NEW r \in Run,
             \/ Start(r) \/ Spawn(r) \/ SeesExit(r) \/ Judge(r) \/ JudgeBlind(r) \/ Stop(r)
             \/ Restart(r) \/ Interrupt(r) \/ End(r) \/ Finish(r) \/ Killed(r)
      PROVE  pc'[s] = "killed"
  <2>1. pc \in [Run -> Supervising \cup {"new", "refused", "ended", "killed"}]
      BY DEF IInv, Shape
  <2> QED
      BY <1>4, <2>1 DEF Start, Spawn, SeesExit, Ended, Judge, JudgeBlind, Stop, Restart,
                        Interrupt, End, Finish, Killed, Supervising, Watching
<1> QED
    BY <1>2, <1>3, <1>4 DEF Next

\* Where no run was killed, the writer of a heartbeat is alone.
LEMMA OneWriter ==
    ASSUME IInv, ~SomeKilled, NEW p \in Proc, proc[p] \in Alive, writing[p] = "no"
    PROVE  MidWrite = {}
<1> SUFFICES ASSUME NEW q \in MidWrite PROVE FALSE
    OBVIOUS
<1>1. q \in Proc /\ proc[q] \in Alive /\ q # p
    BY DEF MidWrite, IInv, TornInv
<1>2. Tended(p) /\ Tended(q)
    BY <1>1 DEF IInv, ProcInv, SomeKilled
<1>3. owner[p] = lock /\ owner[q] = lock
    BY <1>2 DEF IInv, LockInv, Tended, WithChild, Supervising
<1> QED
    BY <1>1, <1>2, <1>3 DEF Tended

\* A step tears the file, and two write it, only once a run was killed.
LEMMA TornStep == IInv /\ [Next]_vars => TornInv'
<1> SUFFICES ASSUME IInv, [Next]_vars PROVE TornInv'
    OBVIOUS
<1> DEFINE Intact == beat.token # Unparsable /\ \A p \in Proc : writing[p] # "shared"
<1>1. SomeKilled \/ Intact
    BY DEF IInv, TornInv
<1>2. SomeKilled => SomeKilled'
    BY KilledStays
<1>3. ASSUME UNCHANGED <<proc, writing>>, beat'.token = beat.token PROVE TornInv'
    BY <1>1, <1>2, <1>3 DEF IInv, TornInv
<1>4. CASE Tick
    BY <1>3, <1>4 DEF Tick, IInv, Shape
<1>5. CASE ProbeLock \/ UNCHANGED vars
    BY <1>3, <1>5 DEF ProbeLock, vars, processes
<1>6. ASSUME NEW p \in Proc, Open(p) PROVE TornInv'
  <2>1. proc[p] \in Alive /\ writing[p] = "no"
      BY <1>6 DEF Open, Alive
  <2>2. \A q \in Proc : writing'[q] # "no" => proc'[q] \in Alive
      BY <1>6, <2>1 DEF Open, MidWrite, IInv, TornInv
  <2>3. ~SomeKilled => Intact'
    <3> SUFFICES ASSUME ~SomeKilled PROVE Intact'
        OBVIOUS
    <3>1. MidWrite = {}
        BY <2>1, OneWriter
    <3> QED
        BY <1>1, <1>6, <3>1 DEF Open
  <2> QED
      BY <1>2, <2>2, <2>3 DEF TornInv
<1>7. ASSUME NEW p \in Proc, Publish(p) PROVE TornInv'
  <2>1. \A q \in Proc : writing'[q] # "no" => proc'[q] \in Alive
      BY <1>7 DEF Publish, IInv, Shape, TornInv
  <2>2. Intact => Intact'
    <3>1. owner[p] \in Run
        BY <1>7 DEF Publish, IInv, ProcInv, Alive
    <3> QED
        BY <1>7, <3>1, Limits DEF Publish, Left, IInv, Shape
  <2> QED
      BY <1>1, <1>2, <2>1, <2>2 DEF TornInv
<1>8. ASSUME NEW p \in Proc, PublishFails(p) PROVE TornInv'
    BY <1>1, <1>2, <1>8 DEF PublishFails, IInv, Shape, TornInv
<1>9. ASSUME NEW p \in Proc, Hang(p) PROVE TornInv'
    BY <1>1, <1>2, <1>9 DEF Hang, IInv, Shape, TornInv, Alive
<1>10. ASSUME NEW q, Exits(q), beat' = beat PROVE TornInv'
    BY <1>1, <1>2, <1>10 DEF Exits, IInv, TornInv
<1>11. ASSUME NEW p \in Proc, Exit(p) PROVE TornInv'
    BY <1>10, <1>11 DEF Exit
<1>12. ASSUME NEW r \in Run, Stop(r) \/ End(r) PROVE TornInv'
    BY <1>10, <1>12 DEF Stop, End, ChildStopped
<1>13. ASSUME NEW r \in Run, Spawn(r) PROVE TornInv'
  <2>1. \A q \in Proc : proc[q] \in Alive => proc'[q] \in Alive
      BY <1>13, NextProcFree DEF Spawn, Alive, IInv, Shape
  <2> QED
      BY <1>1, <1>2, <1>13, <2>1 DEF Spawn, IInv, TornInv
<1>14. ASSUME NEW r \in Run,
              \/ Start(r) \/ SeesExit(r) \/ Judge(r) \/ JudgeBlind(r) \/ Restart(r)
              \/ Interrupt(r) \/ Finish(r) \/ Killed(r)
       PROVE  TornInv'
    BY <1>3, <1>14 DEF Start, SeesExit, Judge, JudgeBlind, Restart, Interrupt, Finish,
                       Killed, processes
<1> QED
    BY <1>4, <1>5, <1>6, <1>7, <1>8, <1>9, <1>11, <1>12, <1>13, <1>14 DEF Next

-----------------------------------------------------------------------------
\* A process that lives and is no orphan is the child of the holder of the lock.
LEMMA InvGivesOne == IInv => OneCollector
<1> SUFFICES ASSUME IInv, NEW p \in Writers \ Orphans, NEW q \in Writers \ Orphans
             PROVE  p = q
    BY DEF OneCollector
<1>1. Tended(p) /\ Tended(q)
    BY DEF IInv, ProcInv, Writers, Orphans, Alive
<1>2. owner[p] = lock /\ owner[q] = lock
    BY <1>1 DEF IInv, LockInv, Tended, WithChild, Supervising
<1> QED
    BY <1>1, <1>2 DEF Tended

\* The inductive invariant of every behaviour.
LEMMA Invariance == Spec => []IInv
<1>1. IInv /\ [Next]_vars => IInv'
    BY ShapeStep, LockStep, ProcStep, BeatStep, TornStep DEF IInv
<1> QED
    BY <1>1, InitInv, PTL DEF Spec

(***************************************************************************)
(* For any number of runs and of collectors, the types are kept and the    *)
(* lock belongs to the run that supervises (ops/supervisor.py:496-554).    *)
(***************************************************************************)
THEOREM SupervisorTypes == Spec => []TypeOK
<1>1. IInv => TypeOK
    BY DEF IInv, Shape, LockInv, TypeOK, Supervising, Watching
<1> QED
    BY <1>1, Invariance, PTL

(***************************************************************************)
(* For any number of runs and of collectors, at most one collector writes  *)
(* the store, orphans of killed supervisors aside                          *)
(* (ops/supervisor.py:21-25).                                              *)
(***************************************************************************)
THEOREM AtMostOneTended == Spec => []OneCollector
BY Invariance, InvGivesOne, PTL

(***************************************************************************)
(* A heartbeat file that can be read is judged by the child's own silence, *)
(* and one that cannot be parsed takes a killed supervisor                 *)
(* (ops/supervisor.py:576-591, ops/heartbeat.py:70-87).                    *)
(***************************************************************************)
THEOREM CondemnsOnlySilent == Spec => StopsOnlySilent
<1> DEFINE Condemned == \A r \in Run : pc[r] = "watching" /\ pc'[r] = "stopping"
                              => \/ silent[child[r]] = Never
                                 \/ silent[child[r]] = Mute /\ ranFor[r] >= Grace
                                 \/ beat.token = Unparsable /\ SomeKilled
<1>1. ASSUME IInv, [Next]_vars PROVE Condemned
  <2> SUFFICES ASSUME NEW r \in Run, pc[r] = "watching", pc'[r] = "stopping"
               PROVE  \/ silent[child[r]] = Never
                      \/ silent[child[r]] = Mute /\ ranFor[r] >= Grace
                      \/ beat.token = Unparsable /\ SomeKilled
      OBVIOUS
  <2>1. Judge(r)
    <3>1. ~UNCHANGED pc
        OBVIOUS
    <3>2. PICK s \in Run : \/ Start(s) \/ Spawn(s) \/ SeesExit(s) \/ Judge(s)
                            \/ JudgeBlind(s) \/ Stop(s) \/ Restart(s) \/ Interrupt(s)
                            \/ End(s) \/ Finish(s) \/ Killed(s)
        BY <1>1, <3>1 DEF Next, vars, Tick, ProbeLock, Open, Publish, PublishFails, Hang, Exit
    <3>3. s = r
        BY <1>1, <3>2 DEF Start, Spawn, SeesExit, Ended, Judge, JudgeBlind, Stop, Restart,
                    Interrupt, End, Finish, Killed, IInv, Shape
    <3> QED
        BY <1>1, <3>2, <3>3 DEF Start, Spawn, SeesExit, Ended, Judge, JudgeBlind, Stop,
                    Restart, Interrupt, End, Finish, Killed, IInv, Shape, Watching
  <2>2. child[r] \in Proc /\ ranFor[r] >= Grace
      BY <1>1, <2>1 DEF Judge, IInv, Shape, Watching
  <2>3. CASE beat.token = Unparsable
      BY <1>1, <2>3 DEF IInv, TornInv
  <2>4. CASE beat.age > Budget
    <3>1. beat.age \in 0..Never /\ silent[child[r]] \in 0..Mute /\ beat.age <= silent[child[r]]
        BY <1>1, <2>2 DEF IInv, Shape, BeatInv
    <3>2. Budget \in Nat
        BY SupervisorAssumption DEF SupervisorAssumption
    <3>3. silent[child[r]] = Never \/ silent[child[r]] = Mute
        BY <2>4, <3>1, <3>2 DEF Never, Mute
    <3> QED
        BY <2>2, <3>3
  <2> QED
      BY <2>1, <2>3, <2>4 DEF Judge, Hung
<1>2. IInv /\ [Next]_vars => [Condemned]_vars
    BY <1>1
<1> QED
    BY <1>2, Invariance, PTL DEF Spec, StopsOnlySilent

-----------------------------------------------------------------------------
(***************************************************************************)
(* Alerts: a standing condition is notified once.                          *)
(*                                                                         *)
(* A key that was notified once more than the file was disturbed is on     *)
(* file or about to be, so whoever reads the file does not fire it again;  *)
(* and one that a producer found clear, and has yet to take off the file,  *)
(* was not notified since but by one who worked on it meanwhile.           *)
(***************************************************************************)

Retracts(p) == IF stage[p] = "sent" THEN held[p].active \ saving[p].active ELSE {}

AlertInv ==
    /\ notices \in [Keys -> Int] /\ disturbed \in Nat
    /\ stage \in [Producer -> {"away", "read", "sent"}]
    /\ DOMAIN held = Producer /\ DOMAIN saving = Producer
    /\ NotifiesOnce
    /\ \A p \in Producer : \A k \in Keys : k \in Retracts(p) => notices[k] <= disturbed

\* What a producer keeps of what was active: all but what it found clear.
LEMMA OutcomeKeeps ==
    ASSUME NEW p \in Producer
    PROVE  /\ \A k \in Keys : k \in held[p].active => k \in Outcome(p).active \/ k \in FoundClear(p)
           /\ \A k \in Fired(p) : k \in Outcome(p).active /\ k \notin held[p].active
           /\ FoundClear(p) \cap Fired(p) = {}
<1>1. CASE p = "supervisor"
  BY <1>1 DEF Outcome, RestartAlert, Marked, Fired, FoundClear
<1>2. CASE p # "supervisor"
  <2>1. Outcome(p).active = Kept(held[p]) \cup Raised(held[p])
    BY <1>2 DEF Outcome, Evaluation, Marked
  <2>2. FoundClear(p) = Evaluated \ Raised(held[p])
    BY <1>2 DEF FoundClear
  <2>3. QED
    BY <2>1, <2>2 DEF Kept, Fired
<1>3. QED
  BY <1>1, <1>2

LEMMA Disturbances ==
    ASSUME disturbed \in Nat, NEW happened \in BOOLEAN, Disturb(happened)
    PROVE  disturbed' \in Nat /\ disturbed' = IF happened THEN disturbed + 1 ELSE disturbed
  BY DEF Disturb

LEMMA DispatchNotifiesOnce ==
    ASSUME AlertInv, NEW p \in Producer, Dispatch(p)
    PROVE  AlertInv'
<1> DEFINE late == Fired(p) # {} /\ Overtaken(p)
<1>0. /\ notices \in [Keys -> Int] /\ disturbed \in Nat
      /\ stage \in [Producer -> {"away", "read", "sent"}]
      /\ DOMAIN held = Producer /\ DOMAIN saving = Producer
      /\ \A k \in Keys : notices[k] <= IF Remembered(k) THEN disturbed + 1 ELSE disturbed
      /\ \A q \in Producer : \A k \in Keys : k \in Retracts(q) => notices[k] <= disturbed
  BY DEF AlertInv, NotifiesOnce
<1>1. /\ stage[p] = "read" /\ disk' = disk /\ held' = held
      /\ stage' = [stage EXCEPT ![p] = "sent"]
      /\ saving' = [saving EXCEPT ![p] = Outcome(p)]
      /\ notices' = [k \in Keys |-> IF k \in FoundClear(p) THEN 0
                                    ELSE IF k \in Fired(p) THEN notices[k] + 1 ELSE notices[k]]
      /\ Disturb(late)
  BY DEF Dispatch, Send
<1>2. disturbed' \in Nat /\ disturbed' = IF late THEN disturbed + 1 ELSE disturbed
  BY <1>0, <1>1, Disturbances
<1>3. /\ notices' \in [Keys -> Int] /\ stage' \in [Producer -> {"away", "read", "sent"}]
      /\ DOMAIN held' = Producer /\ DOMAIN saving' = Producer
  BY <1>0, <1>1
<1>4. \A q \in Producer \ {p} : Unsaved(q)' = Unsaved(q) /\ Retracts(q)' = Retracts(q)
  BY <1>0, <1>1 DEF Unsaved, Retracts
<1>5. /\ Unsaved(p) = {} /\ Unsaved(p)' = Fired(p)
      /\ Retracts(p)' = held[p].active \ Outcome(p).active
  BY <1>0, <1>1 DEF Unsaved, Retracts, Fired
<1>6. ASSUME NEW k \in Keys
      PROVE  Remembered(k)' <=> Remembered(k) \/ k \in Fired(p)
  BY <1>1, <1>4, <1>5 DEF Remembered
<1>7. ASSUME NEW k \in Keys, k \in Fired(p), ~late PROVE ~Remembered(k)
  <2>1. Loaded = held[p] /\ \A q \in Producer \ {p} : stage[q] # "sent"
    BY <1>7 DEF Overtaken
  <2>2. k \notin held[p].active
    BY <1>7, OutcomeKeeps
  <2>3. k \notin disk.active
    BY <2>1, <2>2 DEF Loaded, Torn
  <2>4. \A q \in Producer : k \notin Unsaved(q)
    BY <1>5, <2>1 DEF Unsaved
  <2>5. QED
    BY <2>3, <2>4 DEF Remembered
<1> HIDE DEF late
<1>8. ASSUME NEW k \in Keys
      PROVE  notices'[k] <= IF Remembered(k)' THEN disturbed' + 1 ELSE disturbed'
  <2>1. CASE k \in FoundClear(p)
    BY <1>1, <1>2, <2>1
  <2>2. CASE k \notin FoundClear(p) /\ k \in Fired(p)
    <3>1. notices'[k] = notices[k] + 1 /\ Remembered(k)'
      BY <1>1, <1>6, <2>2
    <3>2. late \/ notices[k] <= disturbed
      BY <1>0, <1>7, <2>2
    <3>3. notices[k] <= disturbed + 1 /\ notices[k] \in Int
      BY <1>0
    <3>4. QED
      BY <1>0, <1>2, <3>1, <3>2, <3>3
  <2>3. CASE k \notin FoundClear(p) /\ k \notin Fired(p)
    BY <1>0, <1>1, <1>2, <1>6, <2>3
  <2>4. QED
    BY <2>1, <2>2, <2>3
<1>9. ASSUME NEW q \in Producer, NEW k \in Keys, k \in Retracts(q)'
      PROVE  notices'[k] <= disturbed'
  <2>1. CASE k \in FoundClear(p)
    BY <1>1, <1>2, <2>1
  <2>2. CASE k \notin FoundClear(p)
    <3>1. q # p
      BY <1>5, <1>9, <2>2, OutcomeKeeps
    <3>2. k \in Retracts(q) /\ stage[q] = "sent" /\ notices[k] <= disturbed /\ notices[k] \in Int
      BY <1>0, <1>4, <1>9, <3>1 DEF Retracts
    <3>3. k \in Fired(p) => late
      BY <3>1, <3>2 DEF late, Overtaken
    <3>4. notices'[k] = IF k \in Fired(p) THEN notices[k] + 1 ELSE notices[k]
      BY <1>1, <2>2
    <3>5. QED
      BY <1>0, <1>2, <3>2, <3>3, <3>4
  <2>3. QED
    BY <2>1, <2>2
<1>10. QED
  BY <1>2, <1>3, <1>8, <1>9 DEF AlertInv, NotifiesOnce

\* A step of one producer that goes away: what the others are about to save
\* and to retract is as it was.
LEMMA LeavesOthers ==
    ASSUME AlertInv, NEW p \in Producer, Leave(p)
    PROVE  /\ stage' \in [Producer -> {"away", "read", "sent"}]
           /\ DOMAIN held' = Producer /\ DOMAIN saving' = Producer
           /\ \A q \in Producer \ {p} : Unsaved(q)' = Unsaved(q) /\ Retracts(q)' = Retracts(q)
           /\ Unsaved(p)' = {} /\ Retracts(p)' = {}
<1>1. /\ stage \in [Producer -> {"away", "read", "sent"}]
      /\ DOMAIN held = Producer /\ DOMAIN saving = Producer
  BY DEF AlertInv
<1>2. /\ stage' = [stage EXCEPT ![p] = "away"]
      /\ held' = [held EXCEPT ![p] = Empty] /\ saving' = [saving EXCEPT ![p] = Empty]
  BY DEF Leave
<1>3. QED
  BY <1>1, <1>2 DEF Unsaved, Retracts

LEMMA SaveNotifiesOnce ==
    ASSUME AlertInv, NEW p \in Producer, Save(p)
    PROVE  AlertInv'
<1>1. /\ stage[p] = "sent" /\ disk' = saving[p] /\ Disturb(Loaded # held[p])
      /\ Leave(p) /\ notices' = notices
  BY DEF Save
<1>2. disturbed \in Nat /\ notices \in [Keys -> Int]
  BY DEF AlertInv
<1>3. disturbed' \in Nat /\ disturbed' = IF Loaded # held[p] THEN disturbed + 1 ELSE disturbed
  BY <1>1, <1>2, Disturbances
<1>4. /\ stage' \in [Producer -> {"away", "read", "sent"}]
      /\ DOMAIN held' = Producer /\ DOMAIN saving' = Producer
      /\ \A q \in Producer \ {p} : Unsaved(q)' = Unsaved(q) /\ Retracts(q)' = Retracts(q)
      /\ Unsaved(p)' = {} /\ Retracts(p)' = {}
  BY <1>1, LeavesOthers
<1>5. ASSUME NEW k \in Keys PROVE notices[k] <= IF Remembered(k)' THEN disturbed' + 1 ELSE disturbed'
  <2>1. notices[k] \in Int /\ notices[k] <= IF Remembered(k) THEN disturbed + 1 ELSE disturbed
    BY <1>2 DEF AlertInv, NotifiesOnce
  <2>2. CASE Loaded # held[p] \/ notices[k] <= disturbed
    BY <1>2, <1>3, <2>1, <2>2
  <2>3. CASE Loaded = held[p] /\ ~(notices[k] <= disturbed)
    <3>1. Remembered(k) /\ k \notin Retracts(p)
      BY <1>2, <2>1, <2>3 DEF AlertInv
    <3>2. CASE k \in disk.active
      <4>1. k \in held[p].active
        BY <2>3, <3>2 DEF Loaded, Torn
      <4>2. k \in saving[p].active
        BY <1>1, <3>1, <4>1 DEF Retracts
      <4>3. QED
        BY <1>1, <1>3, <2>1, <2>3, <3>1, <4>2 DEF Remembered
    <3>3. ASSUME NEW q \in Producer, k \in Unsaved(q) PROVE Remembered(k)'
      <4>1. CASE q = p
        BY <1>1, <3>3, <4>1 DEF Unsaved, Remembered
      <4>2. CASE q # p
        BY <1>4, <3>3, <4>2 DEF Remembered
      <4>3. QED
        BY <4>1, <4>2
    <3>4. QED
      BY <1>3, <2>1, <2>3, <3>1, <3>2, <3>3 DEF Remembered
  <2>4. QED
    BY <2>2, <2>3
<1>6. ASSUME NEW q \in Producer, NEW k \in Keys, k \in Retracts(q)' PROVE notices[k] <= disturbed'
  <2>1. k \in Retracts(q)
    BY <1>4, <1>6
  <2>2. notices[k] <= disturbed /\ notices[k] \in Int
    BY <1>2, <2>1 DEF AlertInv
  <2>3. QED
    BY <1>2, <1>3, <2>2
<1>7. QED
  BY <1>1, <1>2, <1>3, <1>4, <1>5, <1>6 DEF AlertInv, NotifiesOnce

LEMMA SaveFailsNotifiesOnce ==
    ASSUME AlertInv, NEW p \in Producer, SaveFails(p)
    PROVE  AlertInv'
<1>1. /\ stage[p] = "sent" /\ Disturb(disk' # disk \/ Unsaved(p) # {})
      /\ Leave(p) /\ notices' = notices
  BY DEF SaveFails
<1>2. disturbed \in Nat /\ notices \in [Keys -> Int]
  BY DEF AlertInv
<1>3. /\ disturbed' \in Nat
      /\ disturbed' = IF disk' # disk \/ Unsaved(p) # {} THEN disturbed + 1 ELSE disturbed
  BY <1>1, <1>2, Disturbances
<1>4. /\ stage' \in [Producer -> {"away", "read", "sent"}]
      /\ DOMAIN held' = Producer /\ DOMAIN saving' = Producer
      /\ \A q \in Producer \ {p} : Unsaved(q)' = Unsaved(q) /\ Retracts(q)' = Retracts(q)
      /\ Unsaved(p)' = {} /\ Retracts(p)' = {}
  BY <1>1, LeavesOthers
<1>5. ASSUME NEW k \in Keys PROVE notices[k] <= IF Remembered(k)' THEN disturbed' + 1 ELSE disturbed'
  <2>1. notices[k] \in Int /\ notices[k] <= IF Remembered(k) THEN disturbed + 1 ELSE disturbed
    BY <1>2 DEF AlertInv, NotifiesOnce
  <2>2. CASE disk' # disk \/ Unsaved(p) # {}
    BY <1>2, <1>3, <2>1, <2>2
  <2>3. CASE disk' = disk /\ Unsaved(p) = {}
    <3>1. Remembered(k) => Remembered(k)'
      BY <1>4, <2>3 DEF Remembered
    <3>2. QED
      BY <1>2, <1>3, <2>1, <2>3, <3>1
  <2>4. QED
    BY <2>2, <2>3
<1>6. ASSUME NEW q \in Producer, NEW k \in Keys, k \in Retracts(q)' PROVE notices[k] <= disturbed'
  <2>1. k \in Retracts(q)
    BY <1>4, <1>6
  <2>2. notices[k] <= disturbed /\ notices[k] \in Int
    BY <1>2, <2>1 DEF AlertInv
  <2>3. QED
    BY <1>2, <1>3, <2>2
<1>7. QED
  BY <1>1, <1>2, <1>3, <1>4, <1>5, <1>6 DEF AlertInv, NotifiesOnce

LEMMA InterruptedNotifiesOnce ==
    ASSUME AlertInv, NEW p \in Producer, NEW out \in SUBSET Fired(p), Interrupted(p, out)
    PROVE  AlertInv'
<1>1. /\ stage[p] = "read" /\ disk' = disk /\ Leave(p) /\ Disturb(out # {})
      /\ notices' = [k \in Keys |-> IF k \in FoundClear(p) THEN 0
                                    ELSE IF k \in out THEN notices[k] + 1 ELSE notices[k]]
  BY DEF Interrupted, Send
<1>2. disturbed \in Nat /\ notices \in [Keys -> Int]
  BY DEF AlertInv
<1>3. disturbed' \in Nat /\ disturbed' = IF out # {} THEN disturbed + 1 ELSE disturbed
  BY <1>1, <1>2, Disturbances
<1>4. /\ stage' \in [Producer -> {"away", "read", "sent"}]
      /\ DOMAIN held' = Producer /\ DOMAIN saving' = Producer
      /\ \A q \in Producer \ {p} : Unsaved(q)' = Unsaved(q) /\ Retracts(q)' = Retracts(q)
      /\ Unsaved(p)' = {} /\ Retracts(p)' = {}
  BY <1>1, LeavesOthers
<1>5. Unsaved(p) = {}
  BY <1>1 DEF Unsaved
<1>6. ASSUME NEW k \in Keys
      PROVE  /\ notices'[k] \in Int
             /\ notices'[k] = 0 \/ notices'[k] <= notices[k] + (disturbed' - disturbed)
  BY <1>1, <1>2, <1>3
<1>7. ASSUME NEW k \in Keys PROVE Remembered(k)' <=> Remembered(k)
  BY <1>1, <1>4, <1>5 DEF Remembered
<1>8. ASSUME NEW k \in Keys
      PROVE  notices'[k] <= IF Remembered(k)' THEN disturbed' + 1 ELSE disturbed'
  <2>1. notices[k] \in Int /\ notices[k] <= IF Remembered(k) THEN disturbed + 1 ELSE disturbed
    BY <1>2 DEF AlertInv, NotifiesOnce
  <2>2. QED
    BY <1>2, <1>3, <1>6, <1>7, <2>1
<1>9. ASSUME NEW q \in Producer, NEW k \in Keys, k \in Retracts(q)' PROVE notices'[k] <= disturbed'
  <2>1. k \in Retracts(q)
    BY <1>4, <1>9
  <2>2. notices[k] <= disturbed /\ notices[k] \in Int
    BY <1>2, <2>1 DEF AlertInv
  <2>3. QED
    BY <1>2, <1>3, <1>6, <2>2
<1>10. notices' \in [Keys -> Int]
  BY <1>1, <1>2
<1>11. QED
  BY <1>3, <1>4, <1>8, <1>9, <1>10 DEF AlertInv, NotifiesOnce

\* "A persistent condition notifies once and then goes quiet until it clears"
\* (ops/alerts.py:21), for any conditions and metrics, whichever of the three
\* producers evaluates it: it notifies again only as often as the file was
\* disturbed, and else what was notified is remembered until found clear.
THEOREM NoticedOnce == AlertSpec => []NotifiesOnce
<1>1. AlertInit => AlertInv
  BY DEF AlertInit, AlertInv, NotifiesOnce, Retracts
<1>2. AlertInv /\ [AlertNext]_alertVars => AlertInv'
  <2> SUFFICES ASSUME AlertInv, [AlertNext]_alertVars PROVE AlertInv'
    OBVIOUS
  <2>1. ASSUME UNCHANGED <<disk, stage, held, saving, notices, disturbed>> PROVE AlertInv'
    <3>1. \A k \in Keys : Remembered(k)' <=> Remembered(k)
      BY <2>1 DEF Remembered, Unsaved
    <3>2. \A p \in Producer : Retracts(p)' = Retracts(p)
      BY <2>1 DEF Retracts
    <3>3. QED
      BY <2>1, <3>1, <3>2 DEF AlertInv, NotifiesOnce
  <2>2. ASSUME NEW conditions, NEW metric, World(conditions, metric) PROVE AlertInv'
    BY <2>1, <2>2 DEF World
  <2>3. ASSUME NEW p \in Producer, Load(p) PROVE AlertInv'
    <3>1. /\ stage[p] = "away" /\ UNCHANGED <<disk, saving, notices, disturbed>>
          /\ stage' = [stage EXCEPT ![p] = "read"] /\ held' = [held EXCEPT ![p] = Loaded]
      BY <2>3 DEF Load
    <3>2. stage \in [Producer -> {"away", "read", "sent"}] /\ DOMAIN held = Producer
      BY DEF AlertInv
    <3>3. \A q \in Producer : Unsaved(q)' = Unsaved(q) /\ Retracts(q)' = Retracts(q)
      BY <3>1, <3>2 DEF Unsaved, Retracts
    <3>4. \A k \in Keys : Remembered(k)' <=> Remembered(k)
      BY <3>1, <3>3 DEF Remembered
    <3>5. QED
      BY <3>1, <3>2, <3>3, <3>4 DEF AlertInv, NotifiesOnce
  <2>4. ASSUME NEW p \in Producer, Dispatch(p) PROVE AlertInv'
    BY <2>4, DispatchNotifiesOnce
  <2>5. ASSUME NEW p \in Producer, Save(p) \/ SaveFails(p) PROVE AlertInv'
    BY <2>5, SaveNotifiesOnce, SaveFailsNotifiesOnce
  <2>6. ASSUME NEW p \in Producer, NEW out \in SUBSET Fired(p), Interrupted(p, out) PROVE AlertInv'
    BY <2>6, InterruptedNotifiesOnce
  <2>7. QED
    BY <2>1, <2>2, <2>3, <2>4, <2>5, <2>6 DEF AlertNext, alertVars
<1>3. AlertInv => NotifiesOnce
  BY DEF AlertInv
<1>4. QED
  BY <1>1, <1>2, <1>3, PTL DEF AlertSpec

-----------------------------------------------------------------------------
(***************************************************************************)
(* SettlementSpec: at a gate of 1.0 only what is beyond doubt is verified. *)
(***************************************************************************)

\* The fields of a verified specification are known, and surely.
Sure(f) == ~f.conflict /\ ~f.missing /\ f.confidence = 10

LEMMA ThreeAreFinite == \A a, b, c : \A S \in SUBSET {a, b, c} : IsFiniteSet(S)
<1> SUFFICES ASSUME NEW a, NEW b, NEW c PROVE IsFiniteSet({a, b, c})
  BY FS_Subset
<1>1. IsFiniteSet({a})
  BY FS_Singleton
<1>2. IsFiniteSet({a} \cup {b})
  BY <1>1, FS_AddElement
<1>3. IsFiniteSet({a} \cup {b} \cup {c})
  BY <1>2, FS_AddElement
<1>4. {a, b, c} = {a} \cup {b} \cup {c}
  OBVIOUS
<1>5. QED
  BY <1>3, <1>4

LEMMA One ==
    ASSUME NEW S, IsFiniteSet(S), NEW c, NEW nothing
    PROVE  /\ \A x : S = {x} => Agreed(S, c, nothing) = Known(x, c)
           /\ ~Agreed(S, c, nothing).conflict =>
                \E x : S = {x} /\ Agreed(S, c, nothing) = Known(x, c)
<1>1. Cardinality(S) = 1 <=> \E x : S = {x}
  BY FS_Singleton
<1>2. \A x : S = {x} => The(S) = x
  BY DEF The
<1>3. \A x : S = {x} => Agreed(S, c, nothing) = Known(x, c)
  BY <1>1, <1>2 DEF Agreed
<1>4. ASSUME ~(\E x : S = {x}) PROVE Agreed(S, c, nothing).conflict
  BY <1>1, <1>4 DEF Agreed, Absent, Disputed, Fact
<1>5. QED
  BY <1>3, <1>4

\* Of each field that is sure, what the payload says.
LEMMA ProviderSure ==
    ASSUME NEW p \in Payloads, NEW s
    PROVE  Sure(ProviderOf(p)) /\ ProviderOf(p).value = s <=> p.urls = {s} /\ p.texts = {s}
<1>1. IsFiniteSet(p.urls) /\ IsFiniteSet(p.texts)
  BY PayloadAssumption
<1>2. ASSUME p.urls = {s}, p.texts = {s}
      PROVE  ProviderOf(p) = Known(s, 10)
  <2>1. Agreed(p.urls, 10, UnknownSource) = Known(s, 10)
    BY <1>1, <1>2, One
  <2>2. QED
    BY <1>2, <2>1 DEF ProviderOf
<1>3. ASSUME Sure(ProviderOf(p)), ProviderOf(p).value = s
      PROVE  p.urls = {s} /\ p.texts = {s}
  <2>1. p.urls # {}
    <3>1. SUFFICES ASSUME p.urls = {} PROVE FALSE
      OBVIOUS
    <3>2. ProviderOf(p) = Agreed(p.texts, 7, UnknownSource)
      BY <3>1 DEF ProviderOf
    <3>3. PICK x : ProviderOf(p) = Known(x, 7)
      BY <1>1, <1>3, <3>2, One DEF Sure
    <3>4. QED
      BY <1>3, <3>3 DEF Sure, Known, Fact
  <2>2. p.texts \in {{}, p.urls}
    <3>1. SUFFICES ASSUME p.texts \notin {{}, p.urls} PROVE FALSE
      OBVIOUS
    <3>2. ProviderOf(p) = Disputed(UnknownSource)
      BY <2>1, <3>1 DEF ProviderOf
    <3>3. QED
      BY <1>3, <3>2 DEF Sure, Disputed, Fact
  <2>3. PICK c \in {9, 10} : /\ c = IF p.texts = {} THEN 9 ELSE 10
                             /\ ProviderOf(p) = Agreed(p.urls, c, UnknownSource)
    BY <2>1, <2>2 DEF ProviderOf
  <2>4. PICK x : p.urls = {x} /\ ProviderOf(p) = Known(x, c)
    BY <1>1, <1>3, <2>3, One DEF Sure
  <2>5. x = s /\ c = 10
    BY <1>3, <2>4 DEF Sure, Known, Fact
  <2>6. QED
    BY <2>2, <2>3, <2>4, <2>5
<1>4. QED
  BY <1>2, <1>3 DEF Sure, Known, Fact

LEMMA PairSure ==
    ASSUME NEW p \in Payloads, NEW provider, provider # UnknownSource, NEW x
    PROVE  Sure(PairOf(p, provider)) /\ PairOf(p, provider).value = x
             <=> p.pairs = {x} /\ x \in Supports[provider]
<1>1. IsFiniteSet(p.pairs)
  BY PayloadAssumption
<1>2. ASSUME p.pairs = {x}, x \in Supports[provider] PROVE PairOf(p, provider) = Known(x, 10)
  <2>1. Agreed(p.pairs, 10, Missing) = Known(x, 10)
    BY <1>1, <1>2, One
  <2>2. QED
    BY <1>2, <2>1 DEF PairOf
<1>3. ASSUME Sure(PairOf(p, provider)), PairOf(p, provider).value = x
      PROVE  p.pairs = {x} /\ x \in Supports[provider]
  <2>1. p.pairs # {} /\ p.pairs \subseteq Supports[provider]
    BY <1>3 DEF PairOf, Sure, Known, Disputed, Fact
  <2>2. PairOf(p, provider) = Agreed(p.pairs, 10, Missing)
    BY <2>1 DEF PairOf
  <2>3. PICK y : p.pairs = {y} /\ PairOf(p, provider) = Known(y, 10)
    BY <1>1, <1>3, <2>2, One DEF Sure
  <2>4. y = x
    BY <1>3, <2>3 DEF Known, Fact
  <2>5. QED
    BY <2>1, <2>3, <2>4
<1>4. QED
  BY <1>2, <1>3 DEF Sure, Known, Fact

LEMMA OpenSure ==
    ASSUME NEW p \in Payloads
    PROVE  /\ Sure(OpenOf(p)) <=> p.open # Missing /\ p.slugOpen = p.open
           /\ p.open # Missing /\ p.slugOpen = p.open => OpenOf(p).value = p.open
<1>1. p.open \in Nat /\ p.slugOpen \in Nat
  BY PayloadAssumption
<1> DEFINE S == {p.open, p.slugOpen} \ {Missing}
           c == IF p.open = Missing THEN 7 ELSE IF p.slugOpen = Missing THEN 9 ELSE 10
<1>2. IsFiniteSet(S)
  <2>1. S \in SUBSET {p.open, p.slugOpen, p.open}
    OBVIOUS
  <2>2. QED
    BY <2>1, ThreeAreFinite
<1>3. OpenOf(p) = Agreed(S, c, Missing)
  BY DEF OpenOf
<1>4. ASSUME p.open # Missing, p.slugOpen = p.open PROVE OpenOf(p) = Known(p.open, 10)
  <2>1. S = {p.open} /\ c = 10
    BY <1>4
  <2>2. QED
    BY <1>2, <1>3, <2>1, One
<1>5. ASSUME Sure(OpenOf(p)) PROVE p.open # Missing /\ p.slugOpen = p.open
  <2>1. PICK x : S = {x} /\ OpenOf(p) = Known(x, c)
    <3> HIDE DEF S, c
    <3>1. QED
      BY <1>2, <1>3, <1>5, One DEF Sure
  <2>2. c = 10
    <3> HIDE DEF c
    <3>1. QED
      BY <1>5, <2>1 DEF Sure, Known, Fact
  <2>3. QED
    BY <2>1, <2>2
<1>6. QED
  BY <1>4, <1>5 DEF Sure, Known, Fact

LEMMA IntervalSure ==
    ASSUME NEW p \in Payloads, NEW x
    PROVE  Sure(IntervalOf(p)) /\ IntervalOf(p).value = x
             <=> Intervals(p) = {x} /\ Channels(p) >= 2
<1>1. IsFiniteSet(Intervals(p))
  <2>1. Intervals(p) \in SUBSET {p.recurrence, p.slugInterval, Derived(p)}
    BY DEF Intervals
  <2>2. QED
    BY <2>1, ThreeAreFinite
<1>2. ASSUME Intervals(p) = {x}, Channels(p) >= 2 PROVE IntervalOf(p) = Known(x, 10)
  BY <1>1, <1>2, One DEF IntervalOf
<1>3. ASSUME Sure(IntervalOf(p)), IntervalOf(p).value = x
      PROVE  Intervals(p) = {x} /\ Channels(p) >= 2
  <2>1. PICK c : c = (IF Channels(p) >= 2 THEN 10 ELSE 9)
    OBVIOUS
  <2>2. IntervalOf(p) = Agreed(Intervals(p), c, Missing)
    BY <2>1 DEF IntervalOf
  <2>3. PICK y : Intervals(p) = {y} /\ IntervalOf(p) = Known(y, c)
    BY <1>1, <1>3, <2>2, One DEF Sure
  <2>4. y = x /\ c = 10
    BY <1>3, <2>3 DEF Sure, Known, Fact
  <2>5. QED
    BY <2>1, <2>3, <2>4
<1>4. QED
  BY <1>2, <1>3 DEF Sure, Known, Fact

LEMMA TieSure ==
    ASSUME NEW p \in Payloads
    PROVE  /\ Sure(TieRuleOf(p)) <=> Cardinality(p.ties) = 1
           /\ Cardinality(p.ties) = 1 => TieRuleOf(p).value # Missing
<1>1. IsFiniteSet(p.ties) /\ Missing \notin p.ties
  BY PayloadAssumption
<1>2. ASSUME NEW x, p.ties = {x} PROVE TieRuleOf(p) = Known(x, 10)
  BY <1>1, <1>2, One DEF TieRuleOf
<1>3. ASSUME Sure(TieRuleOf(p)) PROVE \E x : p.ties = {x}
  BY <1>1, <1>3, One DEF TieRuleOf, Sure
<1>4. Cardinality(p.ties) = 1 <=> \E x : p.ties = {x}
  BY <1>1, FS_Singleton
<1>5. ASSUME NEW x, p.ties = {x} PROVE Sure(TieRuleOf(p)) /\ TieRuleOf(p).value # Missing
  <2>1. x # Missing
    BY <1>1, <1>5
  <2>2. QED
    BY <1>2, <1>5, <2>1 DEF Sure, Known, Fact
<1>6. QED
  BY <1>3, <1>4, <1>5

\* A fact that the parser makes is sure of something, or of nothing.
IsFact(f) == f.confidence \in 0..10 /\ f.conflict \in BOOLEAN /\ f.missing \in BOOLEAN

LEMMA Facts ==
    ASSUME NEW p \in Payloads, NEW f \in RequiredFields
    PROVE  IsFact(ParseSettlementSpec(p)[f])
<1>1. \A v : IsFact(Absent(v)) /\ IsFact(Disputed(v))
  BY DEF IsFact, Absent, Disputed, Fact
<1>2. ASSUME NEW c \in {7, 9, 10} PROVE \A v : IsFact(Known(v, c))
  BY DEF IsFact, Known, Fact
<1>3. ASSUME NEW c \in {7, 9, 10} PROVE \A S, v : IsFact(Agreed(S, c, v))
  BY <1>1, <1>2 DEF Agreed
<1>4. IsFact(ProviderOf(p))
  BY <1>1, <1>3 DEF ProviderOf
<1>5. \A provider : IsFact(PairOf(p, provider))
  BY <1>1, <1>2, <1>3 DEF PairOf
<1>6. IsFact(OpenOf(p)) /\ IsFact(IntervalOf(p)) /\ IsFact(TieRuleOf(p)) /\ IsFact(CloseOf(p))
  BY <1>1, <1>2, <1>3 DEF OpenOf, IntervalOf, TieRuleOf, CloseOf
<1>7. IsFact(ParseSettlementSpec(p).decimals)
  BY <1>1, <1>2 DEF ParseSettlementSpec
<1>8. QED
  BY <1>4, <1>5, <1>6, <1>7 DEF RequiredFields, ParseSettlementSpec

\* At a gate of 1.0 the confidence of the specification is that of its fields.
LEMMA FullConfidence ==
    ASSUME NEW p \in Payloads
    PROVE  Confidence(ParseSettlementSpec(p)) < 10
             <=> \E f \in RequiredFields : ParseSettlementSpec(p)[f].confidence # 10
<1> DEFINE spec == ParseSettlementSpec(p)
           C == {spec[f].confidence : f \in RequiredFields}
<1>1. C \in SUBSET (0..10) /\ C # {}
  BY Facts DEF IsFact, RequiredFields
<1>2. IsFiniteSet(0..10)
  <2>1. 0 \in Int /\ 10 \in Int
    OBVIOUS
  <2>2. QED
    BY ONLY <2>1, FS_Interval
<1>3. IsFiniteSet(C) /\ C \in SUBSET Int
  BY <1>1, <1>2, FS_Subset
<1>4. Confidence(spec) = Min(C)
  BY DEF Confidence
<1> HIDE DEF C, spec
<1>5. Min(C) \in C /\ \A x \in C : Min(C) <= x
  BY <1>1, <1>3, LeastAndGreatest
<1>6. Min(C) < 10 <=> \E x \in C : x # 10
  <2>1. \A x \in C : x \in Int /\ x <= 10
    BY <1>1
  <2>2. ASSUME NEW x \in C, x # 10 PROVE Min(C) < 10
    BY <1>5, <2>1, <2>2
  <2>3. Min(C) < 10 => Min(C) # 10
    BY <1>5, <2>1
  <2>4. QED
    BY <1>5, <2>2, <2>3
<1>7. QED
  BY <1>4, <1>6 DEF C, spec

\* What passes every check but the one for a change.
Passes(spec) ==
    /\ \A f \in RequiredFields : Sure(spec[f])
    /\ ~spec.reference.conflict
    /\ spec.provider.value = ExpectedSource /\ PairFits(spec)
    /\ spec.interval.value = WindowSeconds /\ TimingFits(spec) /\ spec.tie.value # Missing

LEMMA PassesChecks ==
    ASSUME NEW p \in Payloads, NEW known, MinConfidence = 10
    PROVE  Failed(ParseSettlementSpec(p), known) \subseteq {"settlement_unchanged"}
             <=> Passes(ParseSettlementSpec(p))
<1> DEFINE spec == ParseSettlementSpec(p)
           failed == Failed(spec, known)
<1>1. DOMAIN spec = RequiredFields \cup {"reference"}
  BY DEF ParseSettlementSpec, RequiredFields
<1>2. \A f \in RequiredFields : IsFact(spec[f])
  BY Facts
<1>3. Confidence(spec) < MinConfidence <=> \E f \in RequiredFields : spec[f].confidence # 10
  BY FullConfidence
<1>4. spec.reference.conflict \in BOOLEAN
  BY DEF ParseSettlementSpec, ReferenceOf, Absent, Known, Fact
<1> HIDE DEF spec
<1>5. /\ "no_source_conflict" \in failed       <=> Conflicts(spec) # {}
      /\ "required_fields_present" \in failed  <=> MissingFields(spec) # {}
      /\ "provider_matches_config" \in failed  <=> spec.provider.value # ExpectedSource
      /\ "trading_pair_supported" \in failed   <=> ~PairFits(spec)
      /\ "interval_matches_config" \in failed  <=> spec.interval.value # WindowSeconds
      /\ "window_timing_consistent" \in failed <=> ~TimingFits(spec)
      /\ "tie_rule_known" \in failed           <=> spec.tie.value = Missing
      /\ "detection_confidence" \in failed     <=> Confidence(spec) < MinConfidence
      /\ failed \subseteq {"no_source_conflict", "required_fields_present", "provider_matches_config",
                           "trading_pair_supported", "interval_matches_config", "window_timing_consistent",
                           "tie_rule_known", "detection_confidence", "settlement_unchanged"}
  BY DEF Failed
<1> HIDE DEF failed
<1>6. Conflicts(spec) = {} <=> (\A f \in RequiredFields : ~spec[f].conflict) /\ ~spec.reference.conflict
  BY <1>1 DEF Conflicts
<1>7. MissingFields(spec) = {} <=> \A f \in RequiredFields : ~spec[f].missing
  BY DEF MissingFields
<1>8. failed \subseteq {"settlement_unchanged"} <=>
        /\ Conflicts(spec) = {} /\ MissingFields(spec) = {}
        /\ spec.provider.value = ExpectedSource /\ PairFits(spec)
        /\ spec.interval.value = WindowSeconds /\ TimingFits(spec)
        /\ spec.tie.value # Missing /\ ~(Confidence(spec) < MinConfidence)
  BY <1>5
<1>9. (\A f \in RequiredFields : Sure(spec[f])) <=>
        /\ \A f \in RequiredFields : ~spec[f].conflict
        /\ \A f \in RequiredFields : ~spec[f].missing
        /\ \A f \in RequiredFields : spec[f].confidence = 10
  BY DEF Sure
<1>10. QED
  BY <1>3, <1>6, <1>7, <1>8, <1>9 DEF Passes, failed, spec

\* And that is what is beyond doubt, of an interval two channels state.
LEMMA PassesIsBeyondDoubt ==
    ASSUME NEW p \in Payloads
    PROVE  Passes(ParseSettlementSpec(p)) <=> BeyondDoubt(p) /\ Channels(p) >= 2
<1> DEFINE spec == ParseSettlementSpec(p)
<1>1. /\ spec.provider = ProviderOf(p) /\ spec.pair = PairOf(p, ProviderOf(p).value)
      /\ spec.interval = IntervalOf(p) /\ spec.open = OpenOf(p) /\ spec.close = CloseOf(p)
      /\ spec.tie = TieRuleOf(p) /\ spec.reference = ReferenceOf(p)
      /\ spec.decimals = IF ProviderOf(p).value = UnknownSource THEN Absent(Missing) ELSE Known(Missing, 10)
  BY DEF ParseSettlementSpec
<1>2. /\ ~spec.reference.conflict <=> p.reference # Missing
      /\ Sure(spec.close) <=> p.close # Missing
      /\ p.close # Missing => spec.close.value = p.close
  BY <1>1 DEF ReferenceOf, CloseOf, Absent, Known, Fact, Sure
<1>3. /\ p.open \in Nat /\ p.close \in Nat /\ p.urls \subseteq Providers /\ Missing \notin p.pairs
      /\ p.recurrence \in Nat /\ p.slugInterval \in Nat
  BY PayloadAssumption
<1>4. UnknownSource \notin Providers /\ WindowSeconds \in Nat /\ WindowSeconds > 0
  BY SpecAssumption
<1> HIDE DEF spec
<1>5. ASSUME Passes(spec) PROVE BeyondDoubt(p) /\ Channels(p) >= 2
  <2>1. \A f \in RequiredFields : Sure(spec[f])
    BY <1>5 DEF Passes
  <2>2. p.urls = {ExpectedSource} /\ p.texts = {ExpectedSource}
    <3>1. Sure(ProviderOf(p)) /\ ProviderOf(p).value = ExpectedSource
      BY <1>1, <1>5, <2>1 DEF Passes, RequiredFields
    <3>2. QED
      BY <3>1, ProviderSure
  <2>3. ExpectedSource \in Providers /\ ExpectedSource # UnknownSource /\ spec.provider.value = ExpectedSource
    BY <1>3, <1>4, <1>5, <2>2 DEF Passes
  <2>4. p.pairs = {spec.pair.value} /\ spec.pair.value \in Supports[ExpectedSource]
    BY <1>1, <2>1, <2>3, PairSure DEF RequiredFields
  <2>5. ExpectedPair \in {Missing, spec.pair.value}
    BY <1>5 DEF Passes, PairFits
  <2>6. Intervals(p) = {WindowSeconds} /\ Channels(p) >= 2
    BY <1>1, <1>5, <2>1, IntervalSure DEF Passes, RequiredFields
  <2>7. p.open # Missing /\ p.slugOpen = p.open /\ spec.open.value = p.open
    BY <1>1, <2>1, OpenSure DEF RequiredFields
  <2>8. p.close # Missing /\ spec.close.value = p.close
    BY <1>2, <2>1 DEF RequiredFields
  <2>9. p.close = p.open + WindowSeconds /\ p.open % WindowSeconds = 0
    BY <1>3, <1>4, <1>5, <2>7, <2>8 DEF Passes, TimingFits
  <2>10. p.recurrence \in {Missing, WindowSeconds} /\ p.slugInterval \in {Missing, WindowSeconds}
    BY <2>6 DEF Intervals
  <2>11. Cardinality(p.ties) = 1 /\ p.reference # Missing
    BY <1>1, <1>2, <1>5, <2>1, TieSure DEF Passes, RequiredFields
  <2>12. QED
    BY <2>2, <2>4, <2>5, <2>6, <2>7, <2>9, <2>10, <2>11 DEF BeyondDoubt
<1>6. ASSUME BeyondDoubt(p), Channels(p) >= 2 PROVE Passes(spec)
  <2>1. /\ p.urls = {ExpectedSource} /\ p.texts = {ExpectedSource}
        /\ p.open # Missing /\ p.slugOpen = p.open /\ p.open % WindowSeconds = 0
        /\ p.close = p.open + WindowSeconds /\ Cardinality(p.ties) = 1 /\ p.reference # Missing
        /\ p.recurrence \in {Missing, WindowSeconds} /\ p.slugInterval \in {Missing, WindowSeconds}
    BY <1>6 DEF BeyondDoubt
  <2>2. PICK pair \in Supports[ExpectedSource] : p.pairs = {pair} /\ ExpectedPair \in {Missing, pair}
    BY <1>6 DEF BeyondDoubt
  <2>3. Sure(spec.provider) /\ spec.provider.value = ExpectedSource
    BY <1>1, <2>1, ProviderSure
  <2>4. ExpectedSource \in Providers /\ ExpectedSource # UnknownSource
    BY <1>3, <1>4, <2>1
  <2>5. Sure(spec.pair) /\ spec.pair.value = pair
    BY <1>1, <2>2, <2>3, <2>4, PairSure
  <2>6. Sure(spec.open) /\ spec.open.value = p.open
    BY <1>1, <2>1, OpenSure
  <2>7. Intervals(p) = {WindowSeconds}
    <3>1. OpenOf(p).value = p.open
      BY <1>1, <2>6
    <3>2. Derived(p) = WindowSeconds
      BY <1>3, <1>4, <2>1, <3>1 DEF Derived
    <3>3. WindowSeconds # Missing
      BY <1>4 DEF Missing
    <3>4. QED
      BY <2>1, <3>2, <3>3 DEF Intervals
  <2>8. Sure(spec.interval) /\ spec.interval.value = WindowSeconds
    BY <1>1, <1>6, <2>7, IntervalSure
  <2>9. Sure(spec.close) /\ spec.close.value = p.close
    <3>1. p.close # Missing
      BY <1>3, <1>4, <2>1 DEF Missing
    <3>2. QED
      BY <1>2, <3>1
  <2>10. Sure(spec.tie) /\ spec.tie.value # Missing
    BY <1>1, <2>1, TieSure
  <2>11. Sure(spec.decimals)
    BY <1>1, <2>3, <2>4 DEF Sure, Known, Fact
  <2>12. pair # Missing
    BY <1>3, <2>2
  <2>13. PairFits(spec)
    BY <2>2, <2>3, <2>4, <2>5, <2>12 DEF PairFits
  <2>14. TimingFits(spec)
    BY <1>3, <1>4, <2>1, <2>6, <2>8, <2>9 DEF TimingFits
  <2>15. QED
    BY <1>2, <2>1, <2>3, <2>5, <2>6, <2>8, <2>9, <2>10, <2>11, <2>13, <2>14 DEF Passes, RequiredFields
<1>7. QED
  BY <1>5, <1>6 DEF spec

\* A verdict was reached from the payload and what was known before.
Judged ==
    /\ payload \in Payloads
    /\ verdict # "none" => \E known : verdict = StatusFor(Failed(ParseSettlementSpec(payload), known))

LEMMA JudgedRightly == Judged /\ MinConfidence = 10 => SettlesBeyondDoubt
<1> SUFFICES ASSUME Judged, MinConfidence = 10, verdict # "none" PROVE SettlesBeyondDoubt
  BY DEF SettlesBeyondDoubt
<1>1. PICK known : verdict = StatusFor(Failed(ParseSettlementSpec(payload), known))
  BY DEF Judged
<1> DEFINE failed == Failed(ParseSettlementSpec(payload), known)
<1>2. failed \subseteq {"settlement_unchanged"} <=> BeyondDoubt(payload) /\ Channels(payload) >= 2
  BY PassesChecks, PassesIsBeyondDoubt DEF Judged
<1> HIDE DEF failed
<1>3. verdict = StatusFor(failed)
  BY <1>1 DEF failed
<1>4. verdict = "VERIFIED" <=> failed = {}
  BY <1>3 DEF StatusFor
<1>5. failed = {"settlement_unchanged"} => verdict = "REJECTED_PROVIDER_CHANGED"
  BY <1>3 DEF StatusFor
<1>6. failed \subseteq {"settlement_unchanged"} => failed = {} \/ failed = {"settlement_unchanged"}
  OBVIOUS
<1>7. QED
  BY <1>2, <1>4, <1>5, <1>6 DEF SettlesBeyondDoubt

\* For any providers, configuration and payloads: at a gate of 1.0 a market is
\* verified exactly when nothing about its settlement is in doubt
\* (settlement/parser.py, settlement/verifier.py, settlement/spec.py:16).
THEOREM Settles == MinConfidence = 10 /\ SettlementSpecs => []SettlesBeyondDoubt
<1>1. SpecInit => Judged
  BY DEF SpecInit, Judged
<1>2. Judged /\ [SpecNext]_specVars => Judged'
  BY DEF Judged, SpecNext, Verify, NextMarket, specVars
<1>3. SettlementSpecs => []Judged
  BY <1>1, <1>2, PTL DEF SettlementSpecs
<1>4. ASSUME MinConfidence = 10 PROVE Judged => SettlesBeyondDoubt
  BY <1>4, JudgedRightly
<1>5. ASSUME MinConfidence = 10 PROVE SettlementSpecs => []SettlesBeyondDoubt
  BY <1>3, <1>4, <1>5, PTL
<1>6. QED
  BY <1>5

-----------------------------------------------------------------------------
(***************************************************************************)
(* Gamma: a lookup that finds nothing.  The queries still to ask say what  *)
(* those already answered have ruled out.                                  *)
(***************************************************************************)

Asking ==
    /\ tries \in 1..(MaxRetries + 1)
    /\ \/ asked = "any" /\ queries = <<"closed", "open">> /\ sent = tries - 1
       \/ /\ asked = "any" /\ queries = <<"open">>
          /\ sent <= MaxRetries + tries /\ \E state \in saw : state # "closed"
       \/ asked \in {"closed", "open"} /\ queries = <<asked>> /\ sent = tries - 1

LookupInv ==
    /\ market \in Life /\ asked \in {"any", "closed", "open"}
    /\ result \in {"idle", "asking", "found", "none", "error"}
    /\ saw \in SUBSET Life /\ sent \in Nat /\ sent <= 2 * (MaxRetries + 1)
    /\ result = "asking" => market \in saw /\ Asking
    /\ result = "none" => \/ "absent" \in saw
                          \/ "open" \in saw /\ "closed" \in saw
                          \/ asked # "any" /\ \E state \in saw : state # asked

LEMMA LookupKeeps == LookupInv /\ [RequestNext]_requestVars => LookupInv'
<1> SUFFICES ASSUME LookupInv, [RequestNext]_requestVars PROVE LookupInv'
  OBVIOUS
<1>0. MaxRetries \in Nat
  BY RequestAssumption
<1>1. ASSUME NEW closed \in {"any", "closed", "open"}, StartLookup(closed) PROVE LookupInv'
  BY <1>0, <1>1 DEF StartLookup, LookupInv, Asking, Queries, Life
<1>2. ASSUME NEW state \in Life, MarketMoves(state) PROVE LookupInv'
  <2>1. /\ market' = state /\ UNCHANGED <<asked, queries, tries, result, sent>>
        /\ saw' = IF result = "asking" THEN saw \cup {state} ELSE saw
    BY <1>2 DEF MarketMoves
  <2>2. CASE result = "asking"
    BY <1>0, <2>1, <2>2 DEF LookupInv, Asking, Life
  <2>3. CASE result # "asking"
    BY <1>0, <2>1, <2>3 DEF LookupInv, Asking, Life
  <2>4. QED
    BY <2>2, <2>3
<1>3. CASE Answered
  <2>1. /\ result = "asking" /\ Asking /\ market \in saw /\ market \in Life
        /\ tries' = 1 /\ sent' = sent + 1 /\ queries' = Tail(queries)
        /\ UNCHANGED <<market, asked, saw>>
        /\ result' = IF market = Head(queries) THEN "found"
                     ELSE IF Len(queries) = 1 THEN "none" ELSE "asking"
    BY <1>3 DEF Answered, LookupInv
  <2>2. CASE asked = "any" /\ queries = <<"closed", "open">>
    <3>1. Head(queries) = "closed" /\ Tail(queries) = <<"open">> /\ Len(queries) = 2
      BY <2>2
    <3>2. sent <= MaxRetries
      BY <1>0, <2>1, <2>2 DEF Asking, LookupInv
    <3>3. CASE market = "closed"
      BY <1>0, <2>1, <3>1, <3>2, <3>3 DEF LookupInv
    <3>4. CASE market # "closed"
      <4>1. result' = "asking" /\ queries' = <<"open">> /\ asked' = "any" /\ tries' = 1
        BY <2>1, <2>2, <3>1, <3>4
      <4>2. sent' \in Nat /\ sent' <= MaxRetries + 1
        BY <1>0, <2>1, <3>2 DEF LookupInv
      <4>3. \E state \in saw' : state # "closed"
        BY <2>1, <3>4
      <4>4. Asking'
        BY <1>0, <4>1, <4>2, <4>3 DEF Asking
      <4>5. QED
        BY <1>0, <2>1, <4>1, <4>2, <4>4 DEF LookupInv
    <3>5. QED
      BY <3>3, <3>4
  <2>3. CASE asked = "any" /\ queries = <<"open">>
    <3>1. Head(queries) = "open" /\ Len(queries) = 1
      BY <2>3
    <3>2. sent' \in Nat /\ sent' <= 2 * (MaxRetries + 1) /\ \E state \in saw : state # "closed"
      BY <1>0, <2>1, <2>3 DEF Asking, LookupInv
    <3>3. result' = IF market = "open" THEN "found" ELSE "none"
      BY <2>1, <3>1
    <3>4. market # "open" => \/ "absent" \in saw
                             \/ ("open" \in saw /\ "closed" \in saw)
      <4>1. PICK state \in saw : state # "closed"
        BY <3>2
      <4>2. state \in Life /\ market \in Life /\ market \in saw
        BY <2>1 DEF LookupInv
      <4>3. QED
        BY <4>1, <4>2 DEF Life
    <3>5. QED
      BY <2>1, <3>2, <3>3, <3>4 DEF LookupInv
  <2>4. CASE asked \in {"closed", "open"} /\ queries = <<asked>>
    <3>1. Head(queries) = asked /\ Len(queries) = 1
      BY <2>4
    <3>2. sent' \in Nat /\ sent' <= 2 * (MaxRetries + 1)
      BY <1>0, <2>1, <2>4 DEF Asking, LookupInv
    <3>3. result' = IF market = asked THEN "found" ELSE "none"
      BY <2>1, <3>1
    <3>4. QED
      BY <2>1, <2>4, <3>2, <3>3 DEF LookupInv
  <2>5. QED
    BY <2>1, <2>2, <2>3, <2>4 DEF Asking
<1>4. ASSUME NEW answer \in Answers \ {"ok"}, RequestFails(answer) PROVE LookupInv'
  <2>1. /\ result = "asking" /\ Asking /\ sent' = sent + 1
        /\ UNCHANGED <<market, asked, queries, saw>>
        /\ \/ tries <= MaxRetries /\ tries' = tries + 1 /\ result' = "asking"
           \/ result' = "error" /\ tries' = tries
    BY <1>4 DEF RequestFails, Retries, LookupInv
  <2>2. sent' \in Nat /\ sent' <= 2 * (MaxRetries + 1)
    BY <1>0, <2>1 DEF Asking, LookupInv
  <2>3. CASE result' = "error"
    BY <2>1, <2>2, <2>3 DEF LookupInv
  <2>4. CASE tries <= MaxRetries /\ tries' = tries + 1 /\ result' = "asking"
    <3>1. Asking'
      BY <1>0, <2>1, <2>4 DEF Asking, LookupInv
    <3>2. QED
      BY <2>1, <2>2, <2>4, <3>1 DEF LookupInv
  <2>5. QED
    BY <2>1, <2>3, <2>4
<1>5. CASE Done
  BY <1>0, <1>5 DEF Done, LookupInv
<1>6. CASE UNCHANGED requestVars
  BY <1>6 DEF requestVars, LookupInv, Asking
<1>7. QED
  BY <1>1, <1>2, <1>3, <1>4, <1>5, <1>6 DEF RequestNext

LEMMA Conclusive == LookupInv => LookupIsConclusive
<1> SUFFICES ASSUME LookupInv, result = "none", asked = "any" \/ saw = {asked}
             PROVE  "absent" \in saw \/ Cardinality(saw) > 1
  BY DEF LookupInv, LookupIsConclusive
<1>1. CASE "absent" \in saw
  BY <1>1
<1>2. CASE "open" \in saw /\ "closed" \in saw
  <2>1. IsFiniteSet(saw)
    BY ThreeAreFinite DEF LookupInv, Life
  <2>2. Cardinality(saw) \in Nat /\ Cardinality(saw) # 0 /\ Cardinality(saw) # 1
    BY <1>2, <2>1, FS_CardinalityType, FS_EmptySet, FS_Singleton
  <2>3. QED
    BY <2>2
<1>3. CASE asked # "any" /\ \E state \in saw : state # asked
  BY <1>3
<1>4. QED
  BY <1>1, <1>2, <1>3 DEF LookupInv

LEMMA Lookups == RequestSpec => []LookupIsConclusive
<1>1. RequestInit => LookupInv
  BY RequestAssumption DEF RequestInit, LookupInv, Life
<1>2. QED
  BY <1>1, LookupKeeps, Conclusive, PTL DEF RequestSpec

-----------------------------------------------------------------------------
(***************************************************************************)
(* Gamma: the archived responses.  The order of the files is strict, so a  *)
(* market that is archived has a last file.                                *)
(***************************************************************************)

CaptureType == [day : Days, endpoint : Endpoints, at : Moments, market : Markets, form : Forms]

ReplayInv ==
    /\ captures \in SUBSET CaptureType /\ IsFiniteSet(captures) /\ IsFiniteSet(basis)
    /\ \A a, b \in captures : <<a.day, a.endpoint, a.at>> = <<b.day, b.endpoint, b.at>> => a = b
    /\ dayOrder \in [1..Cardinality(Days) -> Days] /\ IsInjective(dayOrder)
    /\ parsers \in Nat
    /\ parsers = 0 /\ baseline # <<>> =>
         \A m \in Markets : baseline[m] # NoReading =>
           \E f \in FormsOf(basis, m) : baseline[m] = reading[f]
    /\ report = NoReport \/ (report = Compared /\ baseline # <<>>)

LEMMA Positions ==
    ASSUME ReplayInv
    PROVE  /\ \A day \in Days : Position(day) \in Nat
           /\ \A day, other \in Days : Position(day) = Position(other) => day = other
<1>1. IsFiniteSet(Days) /\ Cardinality(Days) \in Nat
  BY ArchivedAssumption, FS_CardinalityType
<1>2. dayOrder \in Injection(1..Cardinality(Days), Days)
  BY DEF ReplayInv, IsInjective, Injection
<1>3. 1 \in Int /\ Cardinality(Days) \in Int
  BY <1>1
<1>4. Cardinality(1..Cardinality(Days)) = Cardinality(Days)
  BY <1>1, <1>3, FS_Interval
<1>5. dayOrder \in Surjection(1..Cardinality(Days), Days)
  BY <1>1, <1>2, <1>4, FS_Injection
<1>6. ASSUME NEW day \in Days PROVE Position(day) \in DOMAIN dayOrder /\ dayOrder[Position(day)] = day
  <2>1. \E i \in DOMAIN dayOrder : dayOrder[i] = day
    BY <1>5 DEF Surjection
  <2>2. QED
    BY <2>1 DEF Position
<1>7. DOMAIN dayOrder \subseteq Nat
  BY <1>1 DEF ReplayInv
<1>8. QED
  BY <1>6, <1>7

LEMMA LastFile ==
    ASSUME ReplayInv, NEW m \in Archived
    PROVE  LastWins(m) \in captures /\ LastWins(m).market = m
<1> DEFINE S == {d \in captures : d.market = m}
           R == {p \in S \X S : Before(p[1], p[2])}
<1>1. IsFiniteSet(S) /\ S # {} /\ S \in SUBSET CaptureType
  BY FS_Subset DEF Archived, ReplayInv
<1>2. \A a, b \in S : <<a, b>> \in R <=> Before(a, b)
  OBVIOUS
<1>3. \A a, b \in S : a.day = b.day /\ a.endpoint = b.endpoint /\ a.at = b.at => a = b
  BY DEF ReplayInv
<1> HIDE DEF S, R
<1>4. ASSUME NEW a \in S
      PROVE  /\ a.day \in Days /\ a.endpoint \in Int /\ a.at \in Int
             /\ Position(a.day) \in Int
  <2>1. a.day \in Days /\ a.endpoint \in Int /\ a.at \in Int
    BY <1>1, ArchivedAssumption DEF CaptureType
  <2>2. \A day \in Days : Position(day) \in Nat
    BY Positions
  <2>3. QED
    BY <2>1, <2>2
<1>5. \A a, b \in S : Position(a.day) = Position(b.day) => a.day = b.day
  BY <1>4, Positions
<1>6. ASSUME NEW a \in S PROVE ~Before(a, a)
  BY <1>4 DEF Before
<1>7. ASSUME NEW a \in S, NEW b \in S, NEW c \in S, Before(a, b), Before(b, c) PROVE Before(a, c)
  BY <1>4, <1>5, <1>7 DEF Before
<1>8. ASSUME NEW a \in S, NEW b \in S PROVE a = b \/ Before(a, b) \/ Before(b, a)
  BY <1>3, <1>4, <1>5 DEF Before
<1>9. StrictOrder(S, R)
  BY <1>2, <1>6, <1>7, <1>8 DEF StrictOrder
<1>10. \E c \in S : \A d \in S : d = c \/ Before(d, c)
  BY <1>1, <1>2, <1>9, LastInOrder
<1>11. \E c \in {d \in captures : d.market = m} :
         \A d \in captures : d.market = m => d = c \/ Before(d, c)
  BY <1>10 DEF S
<1>12. LastWins(m) \in {d \in captures : d.market = m}
  BY <1>11 DEF LastWins
<1>13. QED
  BY <1>12

LEMMA FormsFinite ==
    ASSUME NEW C, IsFiniteSet(C), NEW m
    PROVE  IsFiniteSet(FormsOf(C, m))
<1> DEFINE D == {d \in C : d.market = m}
           f == [c \in D |-> c.form]
<1>1. IsFiniteSet(D)
  BY FS_Subset
<1>2. f \in Surjection(D, FormsOf(C, m))
  BY DEF Surjection, FormsOf
<1>3. QED
  BY <1>1, <1>2, FS_Surjection

\* What the parser reads of an archived market is what it makes of one of the
\* forms the archive has of it.
LEMMA InterpretIs ==
    ASSUME ReplayInv, NEW m \in Markets
    PROVE  /\ m \in Archived => \E f \in FormsOf(captures, m) : Interpret[m] = reading[f]
           /\ m \notin Archived => Interpret[m] = NoReading
<1>1. m \notin Archived => Interpret[m] = NoReading
  BY DEF Interpret
<1>2. ASSUME m \in Archived PROVE \E f \in FormsOf(captures, m) : Interpret[m] = reading[f]
  <2>1. LastWins(m) \in captures /\ LastWins(m).market = m
    BY <1>2, LastFile
  <2>2. LastWins(m).form \in FormsOf(captures, m)
    BY <2>1 DEF FormsOf
  <2>3. Interpret[m] = reading[LastWins(m).form]
    BY <1>2 DEF Interpret
  <2>4. QED
    BY <2>2, <2>3
<1>3. QED
  BY <1>1, <1>2

LEMMA ReplayKeeps == ReplayInv /\ [ReplayNext]_archiveReplayVars => ReplayInv'
<1> SUFFICES ASSUME ReplayInv, [ReplayNext]_archiveReplayVars PROVE ReplayInv'
  OBVIOUS
<1>1. ASSUME NEW c \in CaptureType, Capture(c) PROVE ReplayInv'
  <2> DEFINE kept == {d \in captures : <<d.day, d.endpoint, d.at>> # <<c.day, c.endpoint, c.at>>}
  <2>1. /\ captures' = {c} \cup kept /\ report' = NoReport
        /\ UNCHANGED <<dayOrder, reading, baseline, basis, parsers>>
    BY <1>1 DEF Capture
  <2>2. kept \in SUBSET captures /\ IsFiniteSet(kept)
    BY FS_Subset DEF ReplayInv
  <2>3. IsFiniteSet(kept \cup {c}) /\ captures' = kept \cup {c}
    BY <2>1, <2>2, FS_AddElement
  <2>4. \A a, b \in captures' : <<a.day, a.endpoint, a.at>> = <<b.day, b.endpoint, b.at>> => a = b
    BY <2>1 DEF ReplayInv
  <2>5. captures' \in SUBSET CaptureType
    BY <2>1 DEF ReplayInv
  <2>6. QED
    BY <2>1, <2>3, <2>4, <2>5 DEF ReplayInv, FormsOf
<1>2. CASE WriteBaseline
  <2>1. /\ baseline' = Interpret /\ basis' = captures /\ report' = NoReport
        /\ UNCHANGED <<captures, dayOrder, reading, parsers>>
    BY <1>2 DEF WriteBaseline
  <2>2. ASSUME NEW m \in Markets, Interpret[m] # NoReading
        PROVE  \E f \in FormsOf(captures, m) : Interpret[m] = reading[f]
    BY <2>2, InterpretIs
  <2>3. FormsOf(basis, Markets)' = FormsOf(captures, Markets)
    BY <2>1 DEF FormsOf
  <2>4. \A m \in Markets : baseline'[m] # NoReading =>
           \E f \in FormsOf(basis', m) : baseline'[m] = reading'[f]
    BY <2>1, <2>2
  <2>5. QED
    BY <2>1, <2>4 DEF ReplayInv
<1>3. ASSUME NEW r \in [Forms -> Readings], ParserChanges(r) PROVE ReplayInv'
  <2>1. /\ parsers' = parsers + 1 /\ report' = NoReport
        /\ UNCHANGED <<captures, dayOrder, baseline, basis>>
    BY <1>3 DEF ParserChanges
  <2>2. parsers' \in Nat /\ parsers' # 0
    BY <2>1 DEF ReplayInv
  <2>3. QED
    BY <2>1, <2>2 DEF ReplayInv
<1>4. CASE CompareToBaseline
  <2>1. /\ baseline # <<>> /\ report' = Compared
        /\ UNCHANGED <<captures, dayOrder, reading, baseline, basis, parsers>>
    BY <1>4 DEF CompareToBaseline
  <2>2. \A m \in Markets : LastWins(m)' = LastWins(m)
    BY <2>1 DEF LastWins, Before, Position
  <2>3. Interpret' = Interpret
    BY <2>1, <2>2 DEF Interpret, Archived
  <2>4. Compared' = Compared
    BY <2>1, <2>3 DEF Compared, Read
  <2>5. QED
    BY <2>1, <2>4 DEF ReplayInv, FormsOf
<1>5. CASE UNCHANGED archiveReplayVars
  <2>1. UNCHANGED <<captures, dayOrder, reading, baseline, basis, report, parsers>>
    BY <1>5 DEF archiveReplayVars
  <2>2. \A m \in Markets : LastWins(m)' = LastWins(m)
    BY <2>1 DEF LastWins, Before, Position
  <2>3. Interpret' = Interpret
    BY <2>1, <2>2 DEF Interpret, Archived
  <2>4. Compared' = Compared
    BY <2>1, <2>3 DEF Compared, Read
  <2>5. QED
    BY <2>1, <2>4 DEF ReplayInv, FormsOf
<1>6. QED
  BY <1>1, <1>2, <1>3, <1>4, <1>5 DEF ReplayNext, CaptureType

LEMMA RealDifferences == ReplayInv => DifferencesAreReal
<1> SUFFICES ASSUME ReplayInv, NEW m \in Markets
             PROVE  /\ m \in report.differences =>
                         \/ parsers > 0
                         \/ Cardinality(FormsOf(captures, m) \cup FormsOf(basis, m)) > 1
                    /\ report.made /\ m \in Read(baseline) =>
                         \A f \in FormsOf(captures, m) :
                           FormsOf(captures, m) \cup FormsOf(basis, m) = {f} =>
                             (m \in report.differences \cup report.missing <=> reading[f] # baseline[m])
  BY DEF DifferencesAreReal
<1> DEFINE every == FormsOf(captures, m) \cup FormsOf(basis, m)
<1>1. CASE report = NoReport
  BY <1>1 DEF NoReport
<1>2. CASE report = Compared /\ baseline # <<>>
  <2>1. /\ m \in report.differences <=> /\ Interpret[m] # NoReading /\ baseline[m] # NoReading
                                        /\ Interpret[m] # baseline[m]
        /\ m \in report.missing <=> baseline[m] # NoReading /\ ~(Interpret[m] # NoReading)
        /\ m \in Read(baseline) <=> baseline[m] # NoReading
    BY <1>2 DEF Compared, Read
  <2>2. ASSUME m \in report.differences, parsers = 0 PROVE Cardinality(every) > 1
    <3>1. PICK f \in FormsOf(captures, m) : Interpret[m] = reading[f]
      BY <2>1, <2>2, InterpretIs
    <3>2. PICK g \in FormsOf(basis, m) : baseline[m] = reading[g]
      BY <1>2, <2>1, <2>2 DEF ReplayInv
    <3>3. f \in every /\ g \in every /\ f # g
      BY <2>1, <2>2, <3>1, <3>2
    <3>4. IsFiniteSet(every)
      BY FormsFinite, FS_Union DEF ReplayInv
    <3> HIDE DEF every
    <3>5. Cardinality(every) \in Nat /\ Cardinality(every) # 0 /\ Cardinality(every) # 1
      BY <3>3, <3>4, FS_CardinalityType, FS_EmptySet, FS_Singleton
    <3>6. QED
      BY <3>5
  <2>3. ASSUME baseline[m] # NoReading, NEW f \in FormsOf(captures, m), every = {f}
        PROVE  m \in report.differences \cup report.missing <=> reading[f] # baseline[m]
    <3>1. m \in Archived
      BY DEF Archived, FormsOf
    <3>2. Interpret[m] = reading[f]
      BY <2>3, <3>1, InterpretIs
    <3>3. QED
      BY <2>1, <2>3, <3>2
  <2>4. parsers \in Nat
    BY DEF ReplayInv
  <2>5. m \in report.differences => parsers > 0 \/ Cardinality(every) > 1
    BY <2>2, <2>4
  <2>6. QED
    BY <2>1, <2>3, <2>5
<1>3. QED
  BY <1>1, <1>2 DEF ReplayInv

LEMMA Replays == ReplaySpec => []DifferencesAreReal
<1>1. ReplayInit => ReplayInv
  BY FS_EmptySet DEF ReplayInit, ReplayInv
<1>2. QED
  BY <1>1, ReplayKeeps, RealDifferences, PTL DEF ReplaySpec

-----------------------------------------------------------------------------
(***************************************************************************)
(* Gamma: the shapes of the payloads.  As long as no write was undone, the *)
(* file is the memory of every check so far; a fingerprint that has an     *)
(* event's field says of every field of the contract what type it has.     *)
(***************************************************************************)

Shapes == {Fingerprint(p) : p \in Documents}
Contents == [versions : SUBSET [shape : Shapes, version : Int], next : Int]
InOrderSeen == {[shape |-> sighted[i], version |-> i] : i \in DOMAIN sighted}

SchemaInv ==
    /\ registry \in [Checkers -> Contents] /\ file \in Contents /\ sighted \in Seq(Shapes)
    /\ verdicts \subseteq {[shape |-> Fingerprint(p), accepted |-> Accepts(p)] : p \in Documents}
    /\ ~spoilt => /\ file.versions = answers /\ answers = InOrderSeen
                  /\ file.next = Len(sighted) + 1

LEMMA OneMoreSeen ==
    ASSUME sighted \in Seq(Shapes), NEW shape \in Shapes, sighted' = Append(sighted, shape)
    PROVE  InOrderSeen' = InOrderSeen \cup {[shape |-> shape, version |-> Len(sighted) + 1]}
<1>1. /\ DOMAIN sighted' = DOMAIN sighted \cup {Len(sighted) + 1}
      /\ sighted'[Len(sighted) + 1] = shape
      /\ \A i \in DOMAIN sighted : sighted'[i] = sighted[i]
  OBVIOUS
<1>2. QED
  BY <1>1 DEF InOrderSeen

LEMMA CheckKeeps ==
    ASSUME SchemaInv, NEW c \in Checkers, NEW p \in Documents, Check(c, p)
    PROVE  SchemaInv'
<1> DEFINE shape == Fingerprint(p)
           known == VersionsOf(registry[c], shape) # {}
           new == Numbered(registry[c], shape)
<1>1. /\ registry' = [registry EXCEPT ![c] = IF known THEN registry[c] ELSE new]
      /\ file' = IF known THEN registry[c] ELSE new
      /\ answers' = answers \cup VersionsOf(registry'[c], shape)
      /\ sighted' = IF known THEN sighted ELSE Append(sighted, shape)
      /\ verdicts' = verdicts \cup {[shape |-> shape, accepted |-> Accepts(p)]}
      /\ spoilt' = (spoilt \/ file # registry[c])
  BY DEF Check, Saved
<1>2. shape \in Shapes /\ registry[c] \in Contents
  BY DEF Shapes, SchemaInv
<1>3. new \in Contents
  BY <1>2 DEF Numbered, Contents
<1>4. registry' \in [Checkers -> Contents] /\ file' \in Contents /\ sighted' \in Seq(Shapes)
  <2> HIDE DEF shape, known, new
  <2>1. registry \in [Checkers -> Contents] /\ sighted \in Seq(Shapes)
    BY DEF SchemaInv
  <2>2. QED
    BY <1>1, <1>2, <1>3, <2>1
<1>5. verdicts' \subseteq {[shape |-> Fingerprint(q), accepted |-> Accepts(q)] : q \in Documents}
  <2>1. [shape |-> shape, accepted |-> Accepts(p)]
          \in {[shape |-> Fingerprint(q), accepted |-> Accepts(q)] : q \in Documents}
    OBVIOUS
  <2>2. QED
    BY <1>1, <2>1 DEF SchemaInv
<1>6. ASSUME ~spoilt'
      PROVE  /\ file'.versions = answers' /\ answers' = InOrderSeen'
             /\ file'.next = Len(sighted') + 1
  <2>1. /\ file = registry[c] /\ file.versions = answers /\ answers = InOrderSeen
        /\ file.next = Len(sighted) + 1
    BY <1>1, <1>6 DEF SchemaInv
  <2>2. CASE known
    <3>1. registry'[c] = registry[c] /\ file' = file /\ sighted' = sighted
      <4> HIDE DEF shape, known, new
      <4>1. QED
        BY <1>1, <2>1, <2>2 DEF SchemaInv
    <3>2. VersionsOf(registry'[c], shape) \subseteq answers
      BY <2>1, <3>1 DEF VersionsOf
    <3>3. answers' = answers /\ InOrderSeen' = InOrderSeen
      BY <1>1, <3>1, <3>2 DEF InOrderSeen
    <3>4. QED
      BY <2>1, <3>1, <3>3
  <2>3. CASE ~known
    <3>1. registry'[c] = new /\ file' = new /\ sighted' = Append(sighted, shape)
      <4> HIDE DEF shape, known, new
      <4>1. QED
        BY <1>1, <2>3 DEF SchemaInv
    <3>2. /\ new.versions = answers \cup {[shape |-> shape, version |-> Len(sighted) + 1]}
          /\ new.next = Len(sighted) + 2
      <4>1. Len(sighted) \in Nat
        BY DEF SchemaInv
      <4>2. QED
        BY <2>1, <4>1 DEF Numbered
    <3>3. VersionsOf(new, shape) = {[shape |-> shape, version |-> Len(sighted) + 1]}
      <4>1. VersionsOf(registry[c], shape) = {v \in answers : v.shape = shape}
        BY <2>1 DEF VersionsOf
      <4>2. {v \in answers : v.shape = shape} = {}
        BY <2>3, <4>1
      <4> HIDE DEF shape, known, new
      <4>3. QED
        BY <3>2, <4>2 DEF VersionsOf
    <3>4. answers' = answers \cup {[shape |-> shape, version |-> Len(sighted) + 1]}
      BY <1>1, <3>1, <3>3
    <3>5. InOrderSeen' = InOrderSeen \cup {[shape |-> shape, version |-> Len(sighted) + 1]}
      BY <1>2, <3>1, OneMoreSeen DEF SchemaInv
    <3>6. Len(sighted') = Len(sighted) + 1 /\ Len(sighted) \in Nat
      BY <1>2, <3>1 DEF SchemaInv
    <3>7. file'.versions = answers' /\ answers' = InOrderSeen'
      BY <2>1, <3>1, <3>2, <3>4, <3>5
    <3>8. file'.next = Len(sighted') + 1
      <4> HIDE DEF new
      <4>1. QED
        BY <3>1, <3>2, <3>6
    <3>9. QED
      BY <3>7, <3>8
  <2>4. QED
    BY <2>2, <2>3
<1>7. QED
  BY <1>4, <1>5, <1>6 DEF SchemaInv

LEMMA SchemaKeeps == SchemaInv /\ [SchemaNext]_schemaVars => SchemaInv'
<1> SUFFICES ASSUME SchemaInv, [SchemaNext]_schemaVars PROVE SchemaInv'
  OBVIOUS
<1>1. NoShapes \in Contents /\ Shut \in Contents /\ TornRegistry \in Contents
  BY DEF NoShapes, Shut, TornRegistry, Contents
<1>2. ASSUME NEW c \in Checkers, OpenChecker(c) \/ CloseChecker(c) PROVE SchemaInv'
  <2>1. UNCHANGED <<file, verdicts, sighted, answers, spoilt>>
    BY <1>2 DEF OpenChecker, CloseChecker
  <2>2. registry' \in [Checkers -> Contents]
    <3>1. PICK r \in Contents : registry' = [registry EXCEPT ![c] = r]
      BY <1>1, <1>2 DEF OpenChecker, CloseChecker, SchemaInv
    <3>2. QED
      BY <3>1 DEF SchemaInv
  <2>3. InOrderSeen' = InOrderSeen
    BY <2>1 DEF InOrderSeen
  <2>4. QED
    BY <2>1, <2>2, <2>3 DEF SchemaInv
<1>3. ASSUME NEW c \in Checkers, KillChecker(c) PROVE SchemaInv'
  <2>1. /\ registry' = [registry EXCEPT ![c] = Shut] /\ file' = TornRegistry /\ spoilt'
        /\ UNCHANGED <<verdicts, sighted, answers>>
    BY <1>3 DEF KillChecker
  <2>2. registry' \in [Checkers -> Contents]
    BY <1>1, <2>1 DEF SchemaInv
  <2>3. QED
    BY <1>1, <2>1, <2>2 DEF SchemaInv
<1>4. ASSUME NEW c \in Checkers, NEW p \in Documents, Check(c, p) PROVE SchemaInv'
  BY <1>4, CheckKeeps
<1>5. CASE UNCHANGED schemaVars
  BY <1>5 DEF schemaVars, SchemaInv, InOrderSeen
<1>6. QED
  BY <1>2, <1>3, <1>4, <1>5 DEF SchemaNext

\* The type of an opened field can be read off the fingerprint.
LEMMA FieldIsInShape ==
    ASSUME NEW p, NEW scope \in Opened(p), NEW f
    PROVE  \A type : type # Lacking =>
             (<<scope, f, type>> \in Fingerprint(p) <=> TypeOf(p, scope, f) = type)
<1> SUFFICES ASSUME NEW type, type # Lacking
             PROVE  <<scope, f, type>> \in Fingerprint(p) <=> TypeOf(p, scope, f) = type
  OBVIOUS
<1>1. <<scope, f, type>> \in Types(p, scope) <=> f \in DOMAIN p[scope] /\ p[scope][f] = type
  BY DEF Types
<1>2. \A other : <<scope, f, type>> \in Types(p, other) => other = scope
  BY DEF Types
<1>3. <<scope, f, type>> \in Fingerprint(p) <=> <<scope, f, type>> \in Types(p, scope)
  BY <1>2 DEF Fingerprint
<1>4. TypeOf(p, scope, f) = type <=> f \in DOMAIN p[scope] /\ p[scope][f] = type
  BY DEF TypeOf
<1>5. QED
  BY <1>1, <1>3, <1>4

LEMMA SameTypes ==
    ASSUME NEW p, NEW q, Fingerprint(p) = Fingerprint(q),
           NEW scope, scope \in Opened(p), scope \in Opened(q), NEW f
    PROVE  TypeOf(p, scope, f) = TypeOf(q, scope, f)
<1>1. \A type : type # Lacking => (TypeOf(p, scope, f) = type <=> TypeOf(q, scope, f) = type)
  BY FieldIsInShape
<1>2. QED
  BY <1>1

LEMMA EventIsOpen ==
    ASSUME NEW p, \E t \in Fingerprint(p) : t[1] = "event"
    PROVE  p.eventsAre = "list"
<1>1. PICK t \in Fingerprint(p) : t[1] = "event"
  OBVIOUS
<1>2. PICK s \in Opened(p) : t \in Types(p, s)
  BY DEF Fingerprint
<1>3. s = "event"
  BY <1>1, <1>2 DEF Types
<1>4. QED
  BY <1>2, <1>3 DEF Opened

\* A series that is not described, and a series without a field, both break
\* the contract.
LEMMA BareSeriesBreaks ==
    ASSUME NEW p, NEW q, Fingerprint(p) = Fingerprint(q),
           p.eventsAre = "list", p.seriesAre = "list", q.seriesAre # "list", q.eventsAre = "list"
    PROVE  ~Accepts(p) /\ ~Accepts(q)
<1>1. ~Accepts(q)
  BY DEF Accepts, Breaking
<1>2. PICK f \in DOMAIN Contract["series"] : Contract["series"][f].required
  BY SchemaAssumption
<1>3. "series" \in Opened(p) /\ "series" \notin Opened(q)
  BY DEF Opened
<1>4. TypeOf(p, "series", f) = Lacking
  <2>1. SUFFICES ASSUME TypeOf(p, "series", f) # Lacking PROVE FALSE
    OBVIOUS
  <2>2. <<"series", f, TypeOf(p, "series", f)>> \in Fingerprint(q)
    BY <1>3, <2>1, FieldIsInShape
  <2>3. PICK s \in Opened(q) : <<"series", f, TypeOf(p, "series", f)>> \in Types(q, s)
    BY <2>2 DEF Fingerprint
  <2>4. s = "series"
    BY <2>3 DEF Types
  <2>5. QED
    BY <1>3, <2>3, <2>4
<1>5. Broken(p, "series", f)
  BY <1>2, <1>4 DEF Broken
<1>6. <<"series", f>> \in Fields(p, TRUE)
  <2>1. <<"series", f>> \in UNION {{s} \X DOMAIN Contract[s] : s \in Opened(p)}
    BY <1>3
  <2>2. QED
    BY <1>2, <1>5, <2>1 DEF Fields
<1>7. QED
  BY <1>1, <1>6 DEF Accepts, Breaking

LEMMA ShapeSettles ==
    ASSUME NEW p, NEW q, Fingerprint(p) = Fingerprint(q), p.eventsAre = "list", q.eventsAre = "list"
    PROVE  Accepts(p) <=> Accepts(q)
<1>1. CASE p.seriesAre = "list" <=> q.seriesAre = "list"
  <2>1. Opened(p) = Opened(q)
    BY <1>1 DEF Opened
  <2>2. ASSUME NEW scope \in Opened(p), NEW f PROVE Broken(p, scope, f) <=> Broken(q, scope, f)
    <3>1. TypeOf(p, scope, f) = TypeOf(q, scope, f)
      BY <2>1, SameTypes
    <3>2. QED
      BY <3>1 DEF Broken
  <2>3. ASSUME NEW required PROVE Fields(p, required) = Fields(q, required)
    <3> DEFINE Named == UNION {{s} \X DOMAIN Contract[s] : s \in Opened(p)}
    <3>1. Named = UNION {{s} \X DOMAIN Contract[s] : s \in Opened(q)}
      BY <2>1
    <3>2. \A field \in Named : Broken(p, field[1], field[2]) <=> Broken(q, field[1], field[2])
      BY <2>2
    <3> HIDE DEF Named
    <3>3. Fields(p, required) = {field \in Named : /\ Contract[field[1]][field[2]].required = required
                                                   /\ Broken(p, field[1], field[2])}
      BY DEF Fields, Named
    <3>4. Fields(q, required) = {field \in Named : /\ Contract[field[1]][field[2]].required = required
                                                   /\ Broken(q, field[1], field[2])}
      BY <3>1 DEF Fields
    <3>5. QED
      BY <3>2, <3>3, <3>4
  <2>4. Breaking(p) = Breaking(q) /\ Changed(p) = Changed(q)
    BY <1>1, <2>3 DEF Breaking, Changed
  <2>5. QED
    BY <2>4 DEF Accepts
<1>2. CASE ~(p.seriesAre = "list" <=> q.seriesAre = "list")
  BY <1>2, BareSeriesBreaks
<1>3. QED
  BY <1>1, <1>2

LEMMA SettledByShape == SchemaInv => ShapesKeepTheirVersion
<1> SUFFICES ASSUME SchemaInv PROVE ShapesKeepTheirVersion
  OBVIOUS
<1>1. ~spoilt => answers = {[shape |-> sighted[i], version |-> i] : i \in DOMAIN sighted}
  BY DEF SchemaInv, InOrderSeen
<1>2. ASSUME NEW a \in verdicts, NEW b \in verdicts, a.shape = b.shape,
             \E t \in a.shape : t[1] = "event"
      PROVE  a.accepted = b.accepted
  <2>1. PICK p \in Documents : a = [shape |-> Fingerprint(p), accepted |-> Accepts(p)]
    BY DEF SchemaInv
  <2>2. PICK q \in Documents : b = [shape |-> Fingerprint(q), accepted |-> Accepts(q)]
    BY DEF SchemaInv
  <2>3. Fingerprint(p) = Fingerprint(q)
    BY <1>2, <2>1, <2>2
  <2>4. p.eventsAre = "list" /\ q.eventsAre = "list"
    BY <1>2, <2>1, <2>3, EventIsOpen
  <2>5. Accepts(p) <=> Accepts(q)
    BY <2>3, <2>4, ShapeSettles
  <2>6. Accepts(p) \in BOOLEAN /\ Accepts(q) \in BOOLEAN
    BY DEF Accepts
  <2>7. Accepts(p) = Accepts(q)
    BY <2>5, <2>6
  <2>8. QED
    BY <2>1, <2>2, <2>7
<1>3. QED
  BY <1>1, <1>2 DEF ShapesKeepTheirVersion

LEMMA Numbering == SchemaSpec => []ShapesKeepTheirVersion
<1>1. SchemaInit => SchemaInv
  BY DEF SchemaInit, SchemaInv, NoShapes, Shut, Contents, InOrderSeen
<1>2. QED
  BY <1>1, SchemaKeeps, SettledByShape, PTL DEF SchemaSpec

\* GammaIsReadRight, of the three side by side (gamma/client.py:126-245,
\* gamma/replay.py:109-180, gamma/schema.py:215-329): a market is said to be
\* absent only if some answer was empty or two of them disagreed; a difference
\* in a replay is one of the parser, or of a market with several forms; over
\* restarts the n-th shape ever seen has version n, and shape settles verdict.
THEOREM ReadRight == RequestSpec /\ ReplaySpec /\ SchemaSpec => []GammaIsReadRight
<1>1. LookupIsConclusive /\ DifferencesAreReal /\ ShapesKeepTheirVersion => GammaIsReadRight
  BY DEF GammaIsReadRight
<1>2. QED
  BY <1>1, Lookups, Replays, Numbering, PTL

-----------------------------------------------------------------------------
(***************************************************************************)
(* Reference price.  The stream's last price is the latest trade heard, so *)
(* the open price, once the service has looked at the open window, is the  *)
(* latest heard before that look, however long the look was in coming.     *)
(***************************************************************************)

ReadInv ==
    read.at # 0 =>
      /\ \A p \in read.holds : p < read.at /\ p < read.stamp
      /\ read.at >= WindowOpen + Bar => read.open = WindowOpen

StreamInv ==
    /\ moment \in Nat \ {0} /\ printed \subseteq Nat
    /\ last \in 0..moment /\ quote \in 0..moment
    /\ session \in 0..moment /\ looked \in 0..moment /\ openPrice \in 0..moment
    /\ heard \subseteq 1..moment /\ \A p \in heard : last # 0 /\ p <= last
    /\ looked # 0 => session # 0 /\ WindowOpen <= looked
    /\ openPrice # 0 => looked # 0
    /\ looked # 0 => \A p \in heard : p < looked => p <= openPrice /\ openPrice <= looked

LEMMA PriceConstants ==
    /\ Bar \in Nat /\ Bar > 0 /\ WindowOpen \in Nat /\ WindowOpen > 0 /\ History \in Nat
    /\ WindowOpen - History * Bar \in Nat \ {0}
    /\ WindowOpen \div Bar \in Nat /\ (WindowOpen \div Bar) * Bar = WindowOpen
<1>1. Bar \in Nat /\ Bar > 0 /\ WindowOpen \in Nat /\ WindowOpen % Bar = 0 /\ History \in Nat
  BY PriceAssumption
<1>2. PICK past \in Nat : past = History * Bar
  BY <1>1, Multiples
<1>3. WindowOpen > 0 /\ WindowOpen - History * Bar \in Nat \ {0}
  BY <1>1, <1>2, PriceAssumption
<1>4. \A n, m \in Nat : m > 0 /\ n % m = 0 => n \div m \in Nat /\ (n \div m) * m = n
  BY Z3
<1>5. QED
  BY <1>1, <1>3, <1>4

\* What the bars that closed by an instant tell of it.
LEMMA ClosedBars ==
    ASSUME NEW t \in Nat, t >= WindowOpen
    PROVE  /\ IsFiniteSet(Usable(t)) /\ Usable(t) \subseteq Int
           /\ \A b \in Usable(t) : (b + 1) * Bar <= t
           /\ t >= WindowOpen + Bar => WindowOpen \div Bar \in Usable(t)
<1> DEFINE first == WindowOpen \div Bar
<1>1. Bar \in Nat /\ Bar > 0 /\ WindowOpen \in Nat /\ first \in Nat /\ first * Bar = WindowOpen
      /\ History \in Nat
  BY PriceConstants
<1>2. t \div Bar \in Nat /\ t < (t \div Bar + 1) * Bar
  BY <1>1, Quotient
<1> HIDE DEF first
<1>3. IsFiniteSet((first - History)..(t \div Bar))
  <2>1. first - History \in Int /\ t \div Bar \in Int
    BY <1>1, <1>2
  <2>2. QED
    BY ONLY <2>1, FS_Interval
<1>4. IsFiniteSet(Usable(t)) /\ Usable(t) \subseteq Int
  <2>1. Fetched(t) = (first - History)..(t \div Bar)
    BY DEF Fetched, first
  <2>2. IsFiniteSet(Fetched(t)) /\ Fetched(t) \subseteq Int
    BY <1>3, <2>1
  <2>3. Usable(t) \subseteq Fetched(t)
    BY DEF Usable
  <2>4. QED
    BY <2>2, <2>3, FS_Subset
<1>5. \A b \in Usable(t) : (b + 1) * Bar <= t
  BY DEF Usable
<1>6. ASSUME t >= WindowOpen + Bar PROVE first \in Usable(t)
  <2>1. (first + 1) * Bar = first * Bar + Bar
    BY <1>1
  <2>2. (first + 1) * Bar <= t
    BY <1>1, <1>6, <2>1
  <2>3. first <= t \div Bar
    <3>1. SUFFICES ASSUME t \div Bar < first PROVE FALSE
      BY <1>1, <1>2
    <3>2. (t \div Bar) * Bar + Bar <= first * Bar
      BY <1>1, <1>2, <3>1, Multiples
    <3>3. (t \div Bar + 1) * Bar = (t \div Bar) * Bar + Bar
      BY <1>1, <1>2
    <3>4. PICK k \in Nat : k = (t \div Bar) * Bar
      BY <1>1, <1>2, Multiples
    <3>5. QED
      BY <1>1, <1>2, <1>6, <3>2, <3>3, <3>4
  <2>4. first \in Fetched(t)
    BY <1>1, <1>2, <2>3 DEF Fetched, first
  <2>5. QED
    BY <2>2, <2>4 DEF Usable
<1>7. QED
  BY <1>4, <1>5, <1>6 DEF first

LEMMA OpensWithWindow ==
    ASSUME NEW t \in Nat, t >= WindowOpen + Bar
    PROVE  Usable(t) # {} /\ OpeningBar(t) * Bar = WindowOpen
<1> DEFINE first == WindowOpen \div Bar
           inWindow == {b \in Usable(t) : b * Bar >= WindowOpen}
<1>1. Bar \in Nat /\ Bar > 0 /\ WindowOpen \in Nat /\ first \in Nat /\ first * Bar = WindowOpen
  BY PriceConstants
<1>2. IsFiniteSet(Usable(t)) /\ Usable(t) \subseteq Int /\ first \in Usable(t)
  BY <1>1, ClosedBars
<1> HIDE DEF first
<1>3. first \in inWindow /\ inWindow \in SUBSET Int /\ IsFiniteSet(inWindow)
  BY <1>1, <1>2, FS_Subset
<1>4. \A b \in inWindow : first <= b
  <2>1. SUFFICES ASSUME NEW b \in inWindow, b < first PROVE FALSE
    BY <1>1, <1>3
  <2>2. b \in Int /\ b * Bar >= WindowOpen
    BY <1>2
  <2>3. PICK d \in Nat : first = b + 1 + d
    <3>1. first - b - 1 \in Nat /\ first = b + 1 + (first - b - 1)
      BY <1>1, <2>1, <2>2
    <3>2. QED
      BY <3>1
  <2>4. first * Bar = b * Bar + Bar + d * Bar
    BY <1>1, <2>2, <2>3
  <2>5. d * Bar \in Nat /\ b * Bar \in Int
    BY <1>1, <2>2, <2>3
  <2>6. QED
    BY <1>1, <2>2, <2>4, <2>5
<1>5. Min(inWindow) = first
  <2> HIDE DEF inWindow
  <2>1. Min(inWindow) \in inWindow /\ Min(inWindow) <= first
    BY <1>3, LeastAndGreatest
  <2>2. first <= Min(inWindow) /\ Min(inWindow) \in Int
    BY <1>3, <1>4, <2>1
  <2>3. QED
    BY ONLY <1>1, <2>1, <2>2
<1>6. OpeningBar(t) = first
  BY <1>3, <1>5 DEF OpeningBar
<1>7. QED
  BY <1>1, <1>2, <1>6

LEMMA PollKeeps ==
    ASSUME printed \subseteq Nat, NEW t \in Instants, Poll(t)
    PROVE  ReadInv'
<1>1. t \in Nat /\ t >= WindowOpen /\ Bar \in Nat /\ Bar > 0 /\ WindowOpen \in Nat
  BY PriceAssumption, PriceConstants
<1>2. /\ read'.at = t /\ read'.holds = Content(Usable(t))
      /\ read'.stamp = IF Usable(t) = {} THEN t ELSE (Max(Usable(t)) + 1) * Bar
      /\ read'.open = IF Usable(t) = {} THEN 0 ELSE OpeningBar(t) * Bar
  BY DEF Poll
<1>3. ASSUME NEW p \in Content(Usable(t)) PROVE p < t /\ p < read'.stamp
  <2>1. p \in Nat /\ p \div Bar \in Usable(t)
    BY DEF Content
  <2>2. p < (p \div Bar + 1) * Bar /\ p \div Bar \in Nat
    BY <1>1, <2>1, Quotient
  <2>3. (p \div Bar + 1) * Bar <= t
    BY <1>1, <2>1, ClosedBars
  <2>4. PICK closed \in Nat : closed = (p \div Bar + 1) * Bar
    <3>1. p \div Bar + 1 \in Nat
      BY <2>2
    <3>2. QED
      BY <1>1, <3>1, Multiples
  <2>5. Max(Usable(t)) \in Usable(t) /\ p \div Bar <= Max(Usable(t)) /\ Usable(t) \subseteq Int
    <3>1. Usable(t) \in SUBSET Int /\ IsFiniteSet(Usable(t)) /\ Usable(t) # {}
      BY <1>1, <2>1, ClosedBars
    <3>2. QED
      BY <2>1, <3>1, LeastAndGreatest
  <2>6. p < (Max(Usable(t)) + 1) * Bar
    <3>1. PICK d \in Nat : Max(Usable(t)) + 1 = p \div Bar + 1 + d
      <4>1. /\ Max(Usable(t)) - p \div Bar \in Nat
            /\ Max(Usable(t)) + 1 = p \div Bar + 1 + (Max(Usable(t)) - p \div Bar)
        BY <2>2, <2>5
      <4>2. QED
        BY <4>1
    <3>2. (Max(Usable(t)) + 1) * Bar = (p \div Bar + 1) * Bar + d * Bar
      BY <1>1, <2>2, <3>1
    <3>3. PICK more \in Nat : more = d * Bar
      BY <1>1, Multiples
    <3>4. QED
      BY <2>1, <2>2, <2>4, <3>2, <3>3
  <2>7. p < t
    BY <1>1, <2>1, <2>2, <2>3, <2>4
  <2>8. QED
    BY <1>2, <2>1, <2>6, <2>7
<1>4. ASSUME t >= WindowOpen + Bar PROVE read'.open = WindowOpen
  BY <1>1, <1>2, <1>4, OpensWithWindow
<1>5. QED
  BY <1>2, <1>3, <1>4 DEF ReadInv

LEMMA StreamKeeps == StreamInv /\ [PriceNext]_priceVars => StreamInv'
<1> SUFFICES ASSUME StreamInv, [PriceNext]_priceVars PROVE StreamInv'
  OBVIOUS
<1>1. WindowOpen \in Nat /\ WindowOpen > 0
  BY PriceConstants
<1>2. CASE NextMoment
  BY <1>2 DEF NextMoment, StreamInv, feed
<1>3. CASE AggTrade
  <2>1. CASE linked
    <3>1. /\ last' = moment /\ heard' = heard \cup {moment} /\ printed' = printed \cup {moment}
          /\ UNCHANGED <<moment, quote, session, openPrice, looked>>
      BY <1>3, <2>1 DEF AggTrade
    <3>2. /\ moment \in Nat \ {0} /\ printed' \subseteq Nat /\ last' \in 0..moment
          /\ heard' \subseteq 1..moment /\ \A p \in heard' : last' # 0 /\ p <= last'
      BY <3>1 DEF StreamInv
    <3>3. looked # 0 => \A p \in heard' : p < looked => p <= openPrice /\ openPrice <= looked
      BY <3>1 DEF StreamInv
    <3>4. QED
      BY <3>1, <3>2, <3>3 DEF StreamInv
  <2>2. CASE ~linked
    BY <1>3, <2>2 DEF AggTrade, StreamInv
  <2>3. QED
    BY <2>1, <2>2
<1>4. CASE BookTicker
  BY <1>4 DEF BookTicker, StreamInv
<1>5. CASE Disconnect
  BY <1>5 DEF Disconnect, StreamInv
<1>6. CASE Connect
  BY <1>6 DEF Connect, StreamInv
<1>7. CASE RestartService
  BY <1>7 DEF RestartService, StreamInv
<1>8. CASE OpenSession
  BY <1>8 DEF OpenSession, StreamInv, feed
<1>9. CASE Look
  <2>1. /\ session # 0
        /\ UNCHANGED <<moment, printed, last, quote, session, heard>>
        /\ openPrice' = IF openPrice # 0 \/ moment < WindowOpen THEN openPrice
                        ELSE IF last # 0 THEN last ELSE quote
        /\ looked' = IF looked = 0 /\ moment >= WindowOpen THEN moment ELSE looked
    BY <1>9 DEF Look, feed, OpenPriceAfter, LastPrice
  <2>2. CASE moment < WindowOpen
    BY <1>1, <2>1, <2>2 DEF StreamInv
  \* The first look at the open window takes the latest price there is.
  <2>3. CASE moment >= WindowOpen /\ looked = 0
    <3>1. looked' = moment /\ openPrice' = IF last # 0 THEN last ELSE quote
      BY <1>1, <2>1, <2>3 DEF StreamInv
    <3>2. openPrice' \in 0..moment /\ \A p \in heard : p <= openPrice' /\ openPrice' <= moment
      BY <3>1 DEF StreamInv
    <3>3. QED
      BY <1>1, <2>1, <2>3, <3>1, <3>2 DEF StreamInv
  \* A later one finds it taken, or nothing heard before the first.
  <2>4. CASE moment >= WindowOpen /\ looked # 0
    <3>1. looked' = looked /\ openPrice' \in 0..moment
      BY <2>1, <2>4 DEF StreamInv
    <3>2. ASSUME NEW p \in heard, p < looked
          PROVE  openPrice' = openPrice /\ p <= openPrice /\ openPrice <= looked
      <4>1. p <= openPrice /\ openPrice <= looked /\ p \in 1..moment /\ openPrice \in Nat
        BY <2>4, <3>2 DEF StreamInv
      <4>2. QED
        BY <2>1, <4>1
    <3>3. QED
      BY <2>1, <2>4, <3>1, <3>2 DEF StreamInv
  <2>5. QED
    BY <1>1, <2>2, <2>3, <2>4 DEF StreamInv
<1>10. ASSUME NEW t \in Instants, Poll(t) PROVE StreamInv'
  BY <1>10 DEF Poll, StreamInv, feed
<1>11. CASE UNCHANGED priceVars
  BY <1>11 DEF priceVars, StreamInv, feed
<1>12. QED
  BY <1>2, <1>3, <1>4, <1>5, <1>6, <1>7, <1>8, <1>9, <1>10, <1>11 DEF PriceNext

LEMMA ReadKeeps == StreamInv /\ ReadInv /\ [PriceNext]_priceVars => ReadInv'
<1> SUFFICES ASSUME StreamInv, ReadInv, [PriceNext]_priceVars PROVE ReadInv'
  OBVIOUS
<1>1. CASE NextMoment
  BY <1>1 DEF NextMoment, NotRead, ReadInv
<1>2. ASSUME NEW t \in Instants, Poll(t) PROVE ReadInv'
  BY <1>2, PollKeeps DEF StreamInv
<1>3. CASE UNCHANGED read
  BY <1>3 DEF ReadInv
<1>4. QED
  BY <1>1, <1>2, <1>3 DEF PriceNext, priceVars, AggTrade, BookTicker, Disconnect, Connect,
     RestartService, OpenSession, Look

\* PricesOfTheirTime (live/service.py:_capture_open_price, live/binance.py,
\* dataset/providers.py:_fetch_bars), for any delays: a reading from bars holds
\* no trade after its instant and opens with the window; the price a window is
\* measured from is the latest heard at the first look from its opening on.
THEOREM PricesAreTimely == PriceSpec => []PricesOfTheirTime
<1>1. PriceInit => StreamInv /\ ReadInv
  <2> SUFFICES ASSUME PriceInit PROVE StreamInv /\ ReadInv
    OBVIOUS
  <2>2. moment \in Nat \ {0}
    <3>1. moment = WindowOpen - History * Bar
      BY DEF PriceInit
    <3>2. WindowOpen - History * Bar \in Nat \ {0}
      BY PriceConstants
    <3>3. QED
      BY ONLY <3>1, <3>2
  <2>3. StreamInv
    <3>1. /\ printed = {} /\ heard = {} /\ last = 0 /\ quote = 0
          /\ session = 0 /\ openPrice = 0 /\ looked = 0
      BY DEF PriceInit
    <3>2. QED
      BY <2>2, <3>1 DEF StreamInv
  <2>4. ReadInv
    BY DEF PriceInit, ReadInv, NotRead
  <2>5. QED
    BY <2>3, <2>4
<1>2. StreamInv /\ ReadInv => PricesOfTheirTime
  BY DEF StreamInv, ReadInv, PricesOfTheirTime
<1>3. QED
  BY <1>1, <1>2, StreamKeeps, ReadKeeps, PTL DEF PriceSpec

-----------------------------------------------------------------------------
(***************************************************************************)
(* Clock.  What a reference said is off by no more than half the round     *)
(* trip and its step, as long as the machine's clock was not set since.    *)
(* With two references the mean of the two is off from the better one by   *)
(* half of what they disagree, which is what the uncertainty counts; with  *)
(* three it need not be.                                                   *)
(***************************************************************************)

OneOrTwo == \E a, b : References = {a, b}

Near(r) == /\ samples[r].half \in Nat
           /\ samples[r].offset - skew \in -(samples[r].half + Grain[r])..samples[r].half

ClockInv ==
    /\ utc \in Int /\ skew \in Int
    /\ samples \in [References -> [offset : Int, half : Int, taken : Int]]
    /\ \A r \in References : samples[r] # NoSample /\ r \notin foreign => Near(r)

LEMMA ClockKeeps == ClockInv /\ [ClockNext]_clockVars => ClockInv'
<1> SUFFICES ASSUME ClockInv, [ClockNext]_clockVars PROVE ClockInv'
  OBVIOUS
<1>1. CASE Pass
  BY <1>1 DEF Pass, ClockInv, Near
<1>2. ASSUME NEW s \in Skews, SetClock(s) PROVE ClockInv'
  <2>1. skew' \in Int /\ UNCHANGED <<utc, samples>> /\ foreign' = Held
    BY <1>2, ClockAssumption DEF SetClock
  <2>2. \A r \in References : samples[r] # NoSample => r \in foreign'
    BY <2>1 DEF Held
  <2>3. QED
    BY <2>1, <2>2 DEF ClockInv
<1>3. ASSUME NEW r \in References, SyncOne(r) PROVE ClockInv'
  <2>0. PICK half \in Halves : \E err \in -(half + Grain[r])..half :
          AddSample(r, [offset |-> skew + err, half |-> half, taken |-> Local])
    BY <1>3 DEF SyncOne
  <2>1. PICK err \in -(half + Grain[r])..half :
          AddSample(r, [offset |-> skew + err, half |-> half, taken |-> Local])
    BY <2>0
  <2>2. half \in Nat /\ Grain[r] \in Nat /\ utc \in Int /\ skew \in Int /\ err \in Int
    BY ClockAssumption DEF ClockInv
  <2>3. /\ samples' = [samples EXCEPT ![r] = [offset |-> skew + err, half |-> half, taken |-> Local]]
        /\ foreign' = foreign \ {r} /\ UNCHANGED <<utc, skew>>
    BY <1>3, <2>1 DEF AddSample, SyncOne
  <2>4. [offset |-> skew + err, half |-> half, taken |-> Local] \in [offset : Int, half : Int, taken : Int]
    BY <2>2 DEF Local
  <2>5. samples' \in [References -> [offset : Int, half : Int, taken : Int]]
    BY <2>3, <2>4 DEF ClockInv
  <2>6. Near(r)'
    <3>1. samples'[r].offset = skew + err /\ samples'[r].half = half /\ skew' = skew
      BY <2>3 DEF ClockInv
    <3>2. QED
      BY <2>1, <2>2, <3>1 DEF Near
  <2>7. ASSUME NEW q \in References, samples'[q] # NoSample, q \notin foreign' PROVE Near(q)'
    <3>1. CASE q = r
      BY <2>6, <3>1
    <3>2. CASE q # r
      <4>1. samples'[q] = samples[q] /\ q \notin foreign /\ skew' = skew
        BY <2>3, <2>7, <3>2 DEF ClockInv
      <4>2. QED
        BY <2>7, <4>1 DEF ClockInv, Near
    <3>3. QED
      BY <3>1, <3>2
  <2>8. QED
    BY <2>2, <2>3, <2>5, <2>7 DEF ClockInv
<1>4. CASE UNCHANGED clockVars
  BY <1>4 DEF clockVars, ClockInv, Near
<1>5. QED
  BY <1>1, <1>2, <1>3, <1>4 DEF ClockNext

LEMMA SizesOfPairs ==
    /\ Cardinality({}) = 0 /\ \A x : IsFiniteSet({x}) /\ Cardinality({x}) = 1
    /\ \A x, y : IsFiniteSet({x, y})
    /\ \A x, y : x # y => Cardinality({x, y}) = 2
<1>1. /\ Cardinality({}) = 0 /\ \A x : IsFiniteSet({x}) /\ Cardinality({x}) = 1
  BY FS_EmptySet, FS_Singleton
<1>2. ASSUME NEW x, NEW y
      PROVE  IsFiniteSet({x, y}) /\ (x # y => Cardinality({x, y}) = 2)
  <2>1. {x, y} = {x} \cup {y}
    OBVIOUS
  <2>2. /\ IsFiniteSet({x} \cup {y})
        /\ y \notin {x} => Cardinality({x} \cup {y}) = Cardinality({x}) + 1
    BY <1>1, FS_AddElement
  <2>3. Cardinality({x}) = 1
    BY <1>1
  <2>4. x # y => Cardinality({x} \cup {y}) = 2
    BY ONLY <2>2, <2>3
  <2>5. QED
    BY ONLY <2>1, <2>2, <2>4
<1>3. QED
  BY <1>1, <1>2

\* The median of one offset and of two.
LEMMA MedianOfOne ==
    ASSUME NEW a, Held = {a}, samples[a].offset \in Int
    PROVE  Median2 = 2 * samples[a].offset
<1>1. Below(a) = {} /\ UpTo(a) = {a} /\ Offsets = {samples[a].offset}
  BY DEF Below, UpTo, Offsets
<1>2. Cardinality(Held) = 1 /\ (1 + 1) \div 2 = 1 /\ (1 \div 2) + 1 = 1
  <2>1. Cardinality({a}) = 1
    BY SizesOfPairs
  <2>2. (1 + 1) \div 2 = 1 /\ (1 \div 2) + 1 = 1
    OBVIOUS
  <2>3. QED
    BY <2>1, <2>2
<1>3. \E o \in Offsets : \E r \in Held :
        samples[r].offset = o /\ Cardinality(Below(r)) < 1 /\ 1 <= Cardinality(UpTo(r))
  BY <1>1, SizesOfPairs
<1>4. Ranked(1) \in Offsets
  BY <1>3 DEF Ranked
<1>5. Ranked(1) = samples[a].offset
  BY <1>1, <1>4
<1>6. Median2 = Ranked(1) + Ranked(1)
  BY <1>2 DEF Median2
<1>7. QED
  BY <1>5, <1>6

LEMMA MedianOfTwo ==
    ASSUME NEW a, NEW b, a # b, Held = {a, b},
           samples[a].offset \in Int, samples[b].offset \in Int,
           samples[a].offset <= samples[b].offset
    PROVE  Median2 = samples[a].offset + samples[b].offset
<1> DEFINE o == samples[a].offset
           p == samples[b].offset
<1>0. /\ Cardinality({}) = 0 /\ Cardinality({a}) = 1 /\ Cardinality({a, b}) = 2
  BY SizesOfPairs
<1>1. Cardinality(Held) = 2 /\ (2 + 1) \div 2 = 1 /\ (2 \div 2) + 1 = 2
  <2>1. (2 + 1) \div 2 = 1 /\ (2 \div 2) + 1 = 2
    OBVIOUS
  <2>2. QED
    BY <1>0, <2>1
<1>2. Median2 = Ranked(1) + Ranked(2)
  BY <1>1 DEF Median2
<1>3. Offsets = {o, p}
  BY DEF Offsets
<1>4. Below(a) = {} /\ UpTo(b) = {a, b}
  BY DEF Below, UpTo
<1>5. CASE o = p
  <2>1. /\ Below(b) = {} /\ UpTo(a) = {a, b}
    BY <1>5 DEF Below, UpTo
  <2>2. Offsets = {o}
    BY <1>3, <1>5
  <2>3. ASSUME NEW k \in {1, 2} PROVE Ranked(k) = o
    <3>1. \E x \in Offsets : \E r \in Held :
            samples[r].offset = x /\ Cardinality(Below(r)) < k /\ k <= Cardinality(UpTo(r))
      BY <1>0, <1>4, <2>1, <2>2
    <3>2. Ranked(k) \in Offsets
      BY <3>1 DEF Ranked
    <3>3. QED
      BY <2>2, <3>2
  <2>4. QED
    BY <1>2, <1>5, <2>3
<1>6. CASE o < p
  <2>1. Below(b) = {a} /\ UpTo(a) = {a}
    BY <1>6 DEF Below, UpTo
  <2>2. /\ Cardinality(Below(a)) = 0 /\ Cardinality(UpTo(a)) = 1
        /\ Cardinality(Below(b)) = 1 /\ Cardinality(UpTo(b)) = 2
    BY <1>0, <1>4, <2>1
  <2>3. Ranked(1) = o
    <3>1. \E x \in Offsets : \E r \in Held :
            samples[r].offset = x /\ Cardinality(Below(r)) < 1 /\ 1 <= Cardinality(UpTo(r))
      BY <1>3, <2>2
    <3>2. \E r \in Held : /\ samples[r].offset = Ranked(1)
                          /\ Cardinality(Below(r)) < 1 /\ 1 <= Cardinality(UpTo(r))
      BY <3>1 DEF Ranked
    <3>3. QED
      BY <2>2, <3>2
  <2>4. Ranked(2) = p
    <3>1. \E x \in Offsets : \E r \in Held :
            samples[r].offset = x /\ Cardinality(Below(r)) < 2 /\ 2 <= Cardinality(UpTo(r))
      BY <1>3, <2>2
    <3>2. \E r \in Held : /\ samples[r].offset = Ranked(2)
                          /\ Cardinality(Below(r)) < 2 /\ 2 <= Cardinality(UpTo(r))
      BY <3>1 DEF Ranked
    <3>3. QED
      BY <2>2, <3>2
  <2>5. QED
    BY <1>2, <2>3, <2>4
<1>7. QED
  BY <1>5, <1>6

LEMMA UncertaintyOfOne ==
    ASSUME NEW a, Held = {a}, samples[a].offset \in Int, samples[a].half \in Int
    PROVE  Uncertainty2 = 2 * samples[a].half
<1>1. Offsets = {samples[a].offset, samples[a].offset}
      /\ {samples[r].half : r \in Held} = {samples[a].half, samples[a].half}
  BY DEF Offsets
<1>2. /\ Max(Offsets) = samples[a].offset /\ Min(Offsets) = samples[a].offset
      /\ Min({samples[r].half : r \in Held}) = samples[a].half
  BY <1>1, OfTwo
<1>3. QED
  BY <1>2 DEF Uncertainty2, Spread2

LEMMA UncertaintyOfTwo ==
    ASSUME NEW a, NEW b, Held = {a, b},
           samples[a].offset \in Int, samples[b].offset \in Int,
           samples[a].half \in Int, samples[b].half \in Int,
           samples[a].offset <= samples[b].offset
    PROVE  \E best \in {a, b} :
             Uncertainty2 = 2 * samples[best].half + samples[b].offset - samples[a].offset
<1>1. Offsets = {samples[a].offset, samples[b].offset}
      /\ {samples[r].half : r \in Held} = {samples[a].half, samples[b].half}
  BY DEF Offsets
<1>2. Max(Offsets) - Min(Offsets) = samples[b].offset - samples[a].offset
  <2>1. /\ Min({samples[a].offset, samples[b].offset}) = samples[a].offset
        /\ Max({samples[a].offset, samples[b].offset}) = samples[b].offset
    BY OfTwo
  <2>2. QED
    BY <1>1, <2>1
<1>3. \E best \in {a, b} : Min({samples[a].half, samples[b].half}) = samples[best].half
  BY OfTwo
<1>4. PICK best \in {a, b} : Min({samples[r].half : r \in Held}) = samples[best].half
  BY <1>1, <1>3
<1>5. Uncertainty2 = 2 * samples[best].half + (samples[b].offset - samples[a].offset)
  BY <1>2, <1>4 DEF Uncertainty2, Spread2
<1>6. samples[best].half \in Int
  BY <1>4
<1>7. QED
  BY <1>4, <1>5, <1>6

LEMMA CoarseStepBounds ==
    ASSUME OneOrTwo
    PROVE  CoarseStep \in Nat /\ \A r \in References : Grain[r] <= CoarseStep
<1>1. PICK a, b : References = {a, b}
  BY DEF OneOrTwo
<1>2. Grain[a] \in Nat /\ Grain[b] \in Nat
  BY <1>1, ClockAssumption
<1>3. {Grain[r] : r \in References} = {Grain[a], Grain[b]}
  BY <1>1
<1>4. CoarseStep = IF Grain[a] <= Grain[b] THEN Grain[b] ELSE Grain[a]
  <2>1. \A x, y \in Nat : Max({x, y}) = IF x <= y THEN y ELSE x
    BY OfTwo
  <2>2. QED
    BY <1>2, <1>3, <2>1 DEF CoarseStep
<1>5. QED
  BY <1>1, <1>2, <1>4

\* The correction misses by no more than the uncertainty and the coarse step.
LEMMA CorrectionIsClose ==
    ASSUME OneOrTwo, ClockInv, Held # {}, foreign \cap Held = {}
    PROVE  /\ Median2 \in Int /\ Uncertainty2 \in Int
           /\ -(Uncertainty2 + 2 * CoarseStep) <= Median2 - 2 * skew
           /\ Median2 - 2 * skew <= Uncertainty2 + 2 * CoarseStep
<1>1. CoarseStep \in Nat /\ \A r \in References : Grain[r] \in Nat /\ Grain[r] <= CoarseStep
  BY CoarseStepBounds, ClockAssumption
<1>2. ASSUME NEW r \in Held
      PROVE  /\ r \in References /\ samples[r].half \in Nat /\ samples[r].offset \in Int
             /\ samples[r].offset - skew <= samples[r].half
             /\ -(samples[r].half + CoarseStep) <= samples[r].offset - skew
  <2>1. r \in References /\ Near(r)
    BY DEF Held, ClockInv
  <2>2. samples[r].offset \in Int /\ skew \in Int
    BY <2>1 DEF ClockInv
  <2>3. QED
    BY <1>1, <2>1, <2>2 DEF Near
<1>3. skew \in Int
  BY DEF ClockInv
<1>4. ASSUME NEW a, Held = {a} PROVE
           /\ Median2 \in Int /\ Uncertainty2 \in Int
           /\ -(Uncertainty2 + 2 * CoarseStep) <= Median2 - 2 * skew
           /\ Median2 - 2 * skew <= Uncertainty2 + 2 * CoarseStep
  <2>1. Median2 = 2 * samples[a].offset /\ Uncertainty2 = 2 * samples[a].half
    BY <1>2, <1>4, MedianOfOne, UncertaintyOfOne
  <2>2. /\ samples[a].half \in Nat /\ samples[a].offset \in Int
        /\ samples[a].offset - skew <= samples[a].half
        /\ -(samples[a].half + CoarseStep) <= samples[a].offset - skew
    BY <1>2, <1>4
  <2>3. QED
    BY <1>1, <1>3, <2>1, <2>2
<1>5. ASSUME NEW a, NEW b, a # b, Held = {a, b}, samples[a].offset <= samples[b].offset PROVE
           /\ Median2 \in Int /\ Uncertainty2 \in Int
           /\ -(Uncertainty2 + 2 * CoarseStep) <= Median2 - 2 * skew
           /\ Median2 - 2 * skew <= Uncertainty2 + 2 * CoarseStep
  <2>1. a \in Held /\ b \in Held
    BY <1>5
  <2>2. samples[a].offset \in Int /\ samples[b].offset \in Int
        /\ samples[a].half \in Int /\ samples[b].half \in Int
    BY <1>2, <2>1
  <2>3. Median2 = samples[a].offset + samples[b].offset
    BY <1>5, <2>2, MedianOfTwo
  <2>4. PICK best \in {a, b} :
          Uncertainty2 = 2 * samples[best].half + samples[b].offset - samples[a].offset
    BY <1>5, <2>2, UncertaintyOfTwo
  <2>5. /\ samples[best].half \in Nat /\ samples[best].offset \in Int
        /\ samples[best].offset - skew <= samples[best].half
        /\ -(samples[best].half + CoarseStep) <= samples[best].offset - skew
    BY <1>2, <2>1, <2>4
  <2>6. samples[best].offset = samples[a].offset \/ samples[best].offset = samples[b].offset
    BY <2>4
  <2>7. QED
    BY <1>1, <1>3, <1>5, <2>2, <2>3, <2>4, <2>5, <2>6
<1>6. PICK a, b : References = {a, b}
  BY DEF OneOrTwo
<1>7. Held \subseteq {a, b}
  BY <1>6 DEF Held
<1>8. CASE \E c : Held = {c}
  BY <1>4, <1>8
<1>9. CASE ~(\E c : Held = {c})
  <2>1. Held = {a, b} /\ Held = {b, a} /\ a # b
    BY <1>7, <1>9
  <2>2. samples[a].offset <= samples[b].offset \/ samples[b].offset <= samples[a].offset
    BY <1>2, <2>1
  <2>3. QED
    BY <1>5, <2>1, <2>2
<1>10. QED
  BY <1>8, <1>9

\* ClockIsHonest (clock.py:_is_worse, combined offset and uncertainty,
\* can_submit_order), for one reference or two and any settings of clock and
\* limits: as long as no held sample is older than the last setting of the
\* machine's clock, the correction is as good as it says, and an order is let
\* through only while the safety window is truly ahead.
THEOREM HonestClock == OneOrTwo /\ ClockSpec => []ClockIsHonest
<1> SUFFICES ASSUME OneOrTwo PROVE ClockSpec => []ClockIsHonest
  OBVIOUS
<1>1. ClockInit => ClockInv
  BY ClockAssumption DEF ClockInit, ClockInv, NoSample
<1>2. ClockInv => ClockIsHonest
  <2> SUFFICES ASSUME ClockInv, Held # {}, foreign \cap Held = {}
               PROVE  /\ Median2 - 2 * skew
                           \in -(Uncertainty2 + 2 * CoarseStep)..(Uncertainty2 + 2 * CoarseStep)
                      /\ \A s \in Settlements :
                           CanSubmitOrder(s) => s - utc > OrderSafety - CoarseStep
    BY DEF ClockIsHonest
  <2>1. /\ Median2 \in Int /\ Uncertainty2 \in Int
        /\ -(Uncertainty2 + 2 * CoarseStep) <= Median2 - 2 * skew
        /\ Median2 - 2 * skew <= Uncertainty2 + 2 * CoarseStep
    BY CorrectionIsClose
  <2>2. CoarseStep \in Nat /\ OrderSafety \in Nat /\ utc \in Int /\ skew \in Int
    BY CoarseStepBounds, ClockAssumption DEF ClockInv
  <2>3. ASSUME NEW s \in Settlements, CanSubmitOrder(s) PROVE s - utc > OrderSafety - CoarseStep
    <3>1. s \in Int
      BY ClockAssumption
    <3>2. (2 * s - (2 * (utc - skew) + Median2)) - Uncertainty2 > 2 * OrderSafety
      BY <2>3 DEF CanSubmitOrder, Remaining2, Local
    <3>3. QED
      BY <2>1, <2>2, <3>1, <3>2
  <2>4. QED
    BY <2>1, <2>2, <2>3
<1>3. QED
  BY <1>1, <1>2, ClockKeeps, PTL DEF ClockSpec

-----------------------------------------------------------------------------
(***************************************************************************)
(* TickArchive: the frames of a file, and of the files one after another.  *)
(***************************************************************************)

\* The first of a list of sequences, one behind another.
Joins(seqs, f) == f = [i \in DOMAIN f |-> IF i = 1 THEN seqs[i] ELSE f[i - 1] \o seqs[i]]

LEMMA FlattenWalks ==
    ASSUME NEW seqs, NEW n \in Nat, n = Len(seqs), n > 0
    PROVE  \E f : /\ DOMAIN f = 1..n /\ Joins(seqs, f)
                  /\ FlattenSeq(seqs) = f[n]
<1> DEFINE Upto(k, u) == u = [i \in 1..k |-> IF i = 1 THEN seqs[i] ELSE u[i - 1] \o seqs[i]]
           c == CHOOSE u : Upto(n, u)
           K == {k \in Nat : \E u : Upto(k, u)}
<1>1. FlattenSeq(seqs) = c[n]
  BY DEF FlattenSeq
<1>2. \A k \in 0..n : k \in K
  <2>1. 0 \in K
    <3>1. Upto(0, [i \in 1..0 |-> seqs])
      OBVIOUS
    <3>2. QED
      BY <3>1
  <2>2. ASSUME NEW k \in Nat, k < n, k \in K PROVE k + 1 \in K
    <3>1. PICK u : Upto(k, u)
      BY <2>2
    <3> DEFINE w == [i \in 1..(k + 1) |->
                       IF i <= k THEN u[i]
                       ELSE IF i = 1 THEN seqs[i] ELSE u[k] \o seqs[i]]
    <3>2. \A i \in 1..k : u[i] = IF i = 1 THEN seqs[i] ELSE u[i - 1] \o seqs[i]
      BY <3>1
    <3>3. /\ \A i \in 1..k : w[i] = u[i]
          /\ w[k + 1] = IF k + 1 = 1 THEN seqs[k + 1] ELSE u[k] \o seqs[k + 1]
      <4>1. /\ \A i \in 1..k : i \in 1..(k + 1) /\ i <= k
            /\ k + 1 \in 1..(k + 1) /\ ~(k + 1 <= k)
        OBVIOUS
      <4>2. QED
        BY <4>1
    <3>4. w = [i \in 1..(k + 1) |-> w[i]]
      OBVIOUS
    <3> HIDE DEF w
    <3>5. ASSUME NEW i \in 1..(k + 1)
          PROVE  w[i] = IF i = 1 THEN seqs[i] ELSE w[i - 1] \o seqs[i]
      <4>1. CASE i \in 1..k
        <5>1. i # 1 => i - 1 \in 1..k
          BY <4>1
        <5>2. i # 1 => w[i - 1] = u[i - 1]
          BY <3>3, <5>1
        <5>3. QED
          BY <3>2, <3>3, <4>1, <5>2
      <4>2. CASE i = k + 1
        <5>1. i # 1 => i - 1 = k /\ k \in 1..k
          BY <4>2
        <5>2. i # 1 => w[i - 1] = u[k]
          BY <3>3, <5>1
        <5>3. QED
          BY <3>3, <4>2, <5>1, <5>2
      <4>3. QED
        BY <4>1, <4>2
    <3>6. Upto(k + 1, w)
      BY <3>4, <3>5
    <3> HIDE DEF Upto
    <3>7. QED
      BY <3>6
  <2> HIDE DEF K
  <2>3. QED
    BY <2>1, <2>2, CountsUpTo
<1>3. Upto(n, c)
  <2> HIDE DEF Upto
  <2>1. \E u : Upto(n, u)
    <3>1. n \in 0..n
      OBVIOUS
    <3>2. n \in K
      BY <1>2, <3>1
    <3>3. QED
      BY <3>2
  <2>2. QED
    BY <2>1
<1> HIDE DEF c
<1>4. DOMAIN c = 1..n /\ Joins(seqs, c)
  BY <1>3 DEF Joins
<1>5. QED
  BY <1>1, <1>4

\* A value that may stand behind a sequence: greater than each of its values or,
\* once z flushes have failed, one that was there by then.
Fits(s, y, z) == \A k \in DOMAIN s : s[k] < y \/ (z > 0 /\ \E m \in 1..k : s[m] = y)
FitsAll(seqs, y, z) == \A i \in DOMAIN seqs : Fits(seqs[i], y, z)

Among(seqs, x) == \E i \in DOMAIN seqs : \E k \in DOMAIN seqs[i] : seqs[i][k] = x
Holds(s, x) == \E i \in DOMAIN s : s[i] = x

\* Each value may stand behind those before it.
Ascends(s, z) ==
    \A i, j \in DOMAIN s : i < j => s[i] < s[j] \/ (z > 0 /\ \E m \in 1..i : s[m] = s[j])

\* So may the values of a list of sequences, read one behind another.
AscendsWhole(seqs, z) ==
    /\ \A i \in DOMAIN seqs : Ascends(seqs[i], z)
    /\ \A i, j \in DOMAIN seqs : i < j => \A y : Holds(seqs[j], y) => Fits(seqs[i], y, z)

\* A sequence behind another one.
LEMMA Behind ==
    ASSUME NEW s \in Seq(Int), NEW t \in Seq(Int), NEW z
    PROVE  /\ s \o t \in Seq(Int)
           /\ \A x : Holds(s \o t, x) <=> Holds(s, x) \/ Holds(t, x)
           /\ \A y : Fits(s, y, z) /\ Fits(t, y, z) => Fits(s \o t, y, z)
           /\ Ascends(s, z) /\ Ascends(t, z) /\ (\A y : Holds(t, y) => Fits(s, y, z))
                => Ascends(s \o t, z)
<1> DEFINE m == Len(s)
           n == Len(t)
           u == s \o t
<1>1. m \in Nat /\ n \in Nat /\ DOMAIN s = 1..m /\ DOMAIN t = 1..n
  BY LenProperties
<1>2. /\ u \in Seq(Int) /\ Len(u) = m + n
      /\ \A i \in 1..(m + n) : u[i] = IF i <= m THEN s[i] ELSE t[i - m]
  BY ConcatProperties
<1>3. DOMAIN u = 1..(m + n)
  BY <1>2, LenProperties
<1> HIDE DEF m, n, u
<1>4. ASSUME NEW x PROVE Holds(u, x) <=> Holds(s, x) \/ Holds(t, x)
  <2>1. ASSUME NEW i \in DOMAIN u PROVE Holds(s, u[i]) \/ Holds(t, u[i])
    <3>1. CASE i <= m
      <4>1. i \in 1..m /\ u[i] = s[i]
        BY <1>1, <1>2, <1>3, <3>1
      <4>2. QED
        BY <1>1, <4>1 DEF Holds
    <3>2. CASE i > m
      <4>1. i - m \in 1..n /\ u[i] = t[i - m]
        BY <1>1, <1>2, <1>3, <3>2
      <4>2. QED
        BY <1>1, <4>1 DEF Holds
    <3>3. QED
      BY <1>1, <1>3, <3>1, <3>2
  <2>2. ASSUME NEW i \in DOMAIN s PROVE Holds(u, s[i])
    <3>1. i \in 1..(m + n) /\ u[i] = s[i]
      BY <1>1, <1>2
    <3>2. QED
      BY <1>3, <3>1 DEF Holds
  <2>3. ASSUME NEW i \in DOMAIN t PROVE Holds(u, t[i])
    <3>1. m + i \in 1..(m + n) /\ ~(m + i <= m) /\ (m + i) - m = i
      BY <1>1
    <3>2. u[m + i] = t[i]
      BY <1>2, <3>1
    <3>3. QED
      BY <1>3, <3>1, <3>2 DEF Holds
  <2>4. QED
    BY <2>1, <2>2, <2>3 DEF Holds
<1>5. /\ \A i \in 1..m : i \in DOMAIN u /\ u[i] = s[i]
      /\ \A i \in 1..n : m + i \in DOMAIN u /\ u[m + i] = t[i]
  <2>1. \A i \in 1..m : i \in 1..(m + n) /\ i <= m
    BY <1>1
  <2>2. \A i \in 1..n : m + i \in 1..(m + n) /\ ~(m + i <= m) /\ (m + i) - m = i
    BY <1>1
  <2>3. QED
    BY <1>2, <1>3, <2>1, <2>2
<1>6. \A i \in DOMAIN u : i \in 1..m \/ \E k \in 1..n : i = m + k
  <2> SUFFICES ASSUME NEW i \in 1..(m + n), i \notin 1..m PROVE \E k \in 1..n : i = m + k
    BY <1>3
  <2>1. i - m \in 1..n /\ i = m + (i - m)
    BY <1>1
  <2>2. QED
    BY <2>1
<1>7. ASSUME NEW k \in 1..m, NEW y, \E q \in 1..k : s[q] = y PROVE \E q \in 1..k : u[q] = y
  <2>1. PICK q \in 1..k : s[q] = y
    BY <1>7
  <2>2. q \in 1..m
    BY <1>1
  <2>3. QED
    BY <1>5, <2>1, <2>2
<1>8. ASSUME NEW k \in 1..n, NEW y, \E q \in 1..k : t[q] = y PROVE \E q \in 1..(m + k) : u[q] = y
  <2>1. PICK q \in 1..k : t[q] = y
    BY <1>8
  <2>2. q \in 1..n /\ m + q \in 1..(m + k)
    BY <1>1
  <2>3. QED
    BY <1>5, <2>1, <2>2
<1>9. ASSUME NEW y, Fits(s, y, z), Fits(t, y, z) PROVE Fits(u, y, z)
  <2> SUFFICES ASSUME NEW i \in DOMAIN u
               PROVE  u[i] < y \/ (z > 0 /\ \E q \in 1..i : u[q] = y)
    BY DEF Fits
  <2>1. CASE i \in 1..m
    <3>1. s[i] < y \/ (z > 0 /\ \E q \in 1..i : s[q] = y)
      BY <1>1, <1>9, <2>1 DEF Fits
    <3>2. QED
      BY <1>5, <1>7, <2>1, <3>1
  <2>2. ASSUME NEW k \in 1..n, i = m + k PROVE u[i] < y \/ (z > 0 /\ \E q \in 1..i : u[q] = y)
    <3>1. t[k] < y \/ (z > 0 /\ \E q \in 1..k : t[q] = y)
      BY <1>1, <1>9 DEF Fits
    <3>2. QED
      BY <1>5, <1>8, <2>2, <3>1
  <2>3. QED
    BY <1>6, <2>1, <2>2
<1>10. ASSUME Ascends(s, z), Ascends(t, z), \A y : Holds(t, y) => Fits(s, y, z)
       PROVE  Ascends(u, z)
  <2> SUFFICES ASSUME NEW i \in DOMAIN u, NEW j \in DOMAIN u, i < j
               PROVE  u[i] < u[j] \/ (z > 0 /\ \E q \in 1..i : u[q] = u[j])
    BY DEF Ascends
  <2>1. CASE i \in 1..m /\ j \in 1..m
    <3>1. s[i] < s[j] \/ (z > 0 /\ \E q \in 1..i : s[q] = s[j])
      BY <1>1, <1>10, <2>1 DEF Ascends
    <3>2. u[i] = s[i] /\ u[j] = s[j]
      BY <1>5, <2>1
    <3>3. QED
      BY <1>7, <2>1, <3>1, <3>2
  <2>2. ASSUME i \in 1..m, NEW l \in 1..n, j = m + l
        PROVE  u[i] < u[j] \/ (z > 0 /\ \E q \in 1..i : u[q] = u[j])
    <3>1. u[i] = s[i] /\ u[j] = t[l]
      BY <1>5, <2>2
    <3>2. Fits(s, t[l], z)
      BY <1>1, <1>10 DEF Holds
    <3>3. s[i] < t[l] \/ (z > 0 /\ \E q \in 1..i : s[q] = t[l])
      BY <1>1, <2>2, <3>2 DEF Fits
    <3>4. QED
      BY <1>7, <2>2, <3>1, <3>3
  <2>3. ASSUME NEW k \in 1..n, i = m + k, NEW l \in 1..n, j = m + l
        PROVE  u[i] < u[j] \/ (z > 0 /\ \E q \in 1..i : u[q] = u[j])
    <3>1. k < l
      BY <1>1, <2>3
    <3>2. t[k] < t[l] \/ (z > 0 /\ \E q \in 1..k : t[q] = t[l])
      BY <1>1, <1>10, <3>1 DEF Ascends
    <3>3. u[i] = t[k] /\ u[j] = t[l]
      BY <1>5, <2>3
    <3>4. QED
      BY <1>8, <2>3, <3>2, <3>3
  <2>4. ~(\E k \in 1..n : i = m + k /\ j \in 1..m)
    BY <1>1
  <2>5. QED
    BY <1>6, <2>1, <2>2, <2>3, <2>4
<1>11. QED
  BY <1>2, <1>4, <1>9, <1>10 DEF u

\* A list read as one sequence: its values, and their order.
LEMMA FlattenIs ==
    ASSUME NEW seqs \in Seq(Seq(Int)), NEW z
    PROVE  /\ FlattenSeq(seqs) \in Seq(Int)
           /\ \A x : Holds(FlattenSeq(seqs), x) <=> Among(seqs, x)
           /\ \A y : FitsAll(seqs, y, z) => Fits(FlattenSeq(seqs), y, z)
           /\ AscendsWhole(seqs, z) => Ascends(FlattenSeq(seqs), z)
<1>1. PICK n \in Nat : n = Len(seqs) /\ DOMAIN seqs = 1..n /\ \A i \in 1..n : seqs[i] \in Seq(Int)
  BY LenProperties
<1>2. CASE n = 0
  <2>1. FlattenSeq(seqs) = seqs /\ seqs = <<>>
    BY <1>1, <1>2, EmptySeq DEF FlattenSeq
  <2>2. <<>> \in Seq(Int) /\ DOMAIN <<>> = {}
    BY EmptySeq
  <2>3. QED
    BY <2>1, <2>2 DEF Holds, Among, Ascends, Fits
<1>3. CASE n > 0
  <2>1. PICK f : /\ DOMAIN f = 1..n /\ Joins(seqs, f) /\ FlattenSeq(seqs) = f[n]
    BY <1>1, <1>3, FlattenWalks
  <2>2. \A i \in 1..n : f[i] = IF i = 1 THEN seqs[i] ELSE f[i - 1] \o seqs[i]
    BY <2>1 DEF Joins
  <2> DEFINE AmongFirst(k, x) == \E i \in 1..k : \E l \in DOMAIN seqs[i] : seqs[i][l] = x
             FitsFirst(k, y) == \A i \in 1..k : Fits(seqs[i], y, z)
             Good(k) == /\ f[k] \in Seq(Int)
                        /\ \A x : Holds(f[k], x) <=> AmongFirst(k, x)
                        /\ \A y : FitsFirst(k, y) => Fits(f[k], y, z)
                        /\ AscendsWhole(seqs, z) => Ascends(f[k], z)
             K == {k \in Nat : k > 0 => Good(k)}
  <2>3. ASSUME NEW i \in 1..n
        PROVE  /\ \A x : Holds(seqs[i], x) <=> \E l \in DOMAIN seqs[i] : seqs[i][l] = x
               /\ AscendsWhole(seqs, z) => Ascends(seqs[i], z)
    BY <1>1 DEF Holds, AscendsWhole
  <2>4. \A k \in 0..n : k \in K
    <3>1. 0 \in K
      OBVIOUS
    <3>2. ASSUME NEW k \in Nat, k < n, k \in K PROVE k + 1 \in K
      <4>1. CASE k = 0
        <5>1. f[1] = seqs[1] /\ 1 \in 1..n
          BY <1>3, <2>2
        <5>2. \A x : AmongFirst(1, x) <=> \E l \in DOMAIN seqs[1] : seqs[1][l] = x
          OBVIOUS
        <5>3. Good(1)
          <6>1. \A y : FitsFirst(1, y) => Fits(seqs[1], y, z)
            BY <5>1
          <6>2. QED
            BY <1>1, <2>3, <5>1, <5>2, <6>1
        <5>4. QED
          BY <4>1, <5>3
      <4>2. CASE k > 0
        <5>1. k + 1 \in 1..n /\ k + 1 # 1 /\ (k + 1) - 1 = k
          <6>1. n \in Nat /\ k \in Nat /\ k < n
            BY <3>2
          <6>2. QED
            BY ONLY <4>2, <6>1
        <5>2. f[k + 1] = f[k] \o seqs[k + 1]
          BY <2>2, <5>1
        <5>3. Good(k)
          BY <3>2, <4>2
        <5>4. seqs[k + 1] \in Seq(Int)
          BY <1>1, <5>1
        <5>5. /\ f[k] \o seqs[k + 1] \in Seq(Int)
              /\ \A x : Holds(f[k] \o seqs[k + 1], x) <=> Holds(f[k], x) \/ Holds(seqs[k + 1], x)
              /\ \A y : Fits(f[k], y, z) /\ Fits(seqs[k + 1], y, z) => Fits(f[k] \o seqs[k + 1], y, z)
              /\ /\ Ascends(f[k], z) /\ Ascends(seqs[k + 1], z)
                 /\ \A y : Holds(seqs[k + 1], y) => Fits(f[k], y, z)
                 => Ascends(f[k] \o seqs[k + 1], z)
          BY <5>3, <5>4, Behind
        <5>6. \A x : AmongFirst(k + 1, x) <=> AmongFirst(k, x) \/ Holds(seqs[k + 1], x)
          <6>1. \A i \in 1..(k + 1) : i \in 1..k \/ i = k + 1
            OBVIOUS
          <6>2. \A i \in 1..k : i \in 1..(k + 1)
            OBVIOUS
          <6>3. k + 1 \in 1..(k + 1)
            OBVIOUS
          <6>4. QED
            BY <6>1, <6>2, <6>3 DEF Holds
        <5>7. ASSUME AscendsWhole(seqs, z), NEW y, Holds(seqs[k + 1], y)
              PROVE  Fits(f[k], y, z)
          <6>1. \A i \in 1..k : i \in DOMAIN seqs /\ i < k + 1
            BY <1>1, <5>1
          <6>2. k + 1 \in DOMAIN seqs
            BY <1>1, <5>1
          <6>3. FitsFirst(k, y)
            BY <5>7, <6>1, <6>2 DEF AscendsWhole
          <6>4. QED
            BY <5>3, <6>3
        <5>8. \A y : FitsFirst(k + 1, y) => FitsFirst(k, y) /\ Fits(seqs[k + 1], y, z)
          <6>1. \A i \in 1..k : i \in 1..(k + 1)
            OBVIOUS
          <6>2. k + 1 \in 1..(k + 1)
            OBVIOUS
          <6>3. QED
            BY <6>1, <6>2
        <5> HIDE DEF FitsFirst
        <5> HIDE DEF AmongFirst
        <5>9. \A x : Holds(f[k + 1], x) <=> AmongFirst(k + 1, x)
          BY <5>2, <5>3, <5>5, <5>6
        <5>10. AscendsWhole(seqs, z) => Ascends(f[k + 1], z)
          BY <2>3, <5>1, <5>2, <5>3, <5>5, <5>7
        <5>11. \A y : FitsFirst(k + 1, y) => Fits(f[k + 1], y, z)
          BY <5>2, <5>3, <5>5, <5>8
        <5>12. Good(k + 1)
          BY <5>2, <5>5, <5>9, <5>10, <5>11
        <5>13. QED
          BY <5>12
      <4>3. QED
        BY <4>1, <4>2
    <3> HIDE DEF K
    <3>3. QED
      BY <3>1, <3>2, CountsUpTo
  <2>5. Good(n)
    <3> HIDE DEF Good
    <3>1. n \in 0..n
      OBVIOUS
    <3>2. QED
      BY <1>3, <2>4, <3>1
  <2>6. QED
    BY <1>1, <2>1, <2>5 DEF Among, FitsAll
<1>4. QED
  BY <1>1, <1>2, <1>3

-----------------------------------------------------------------------------
\* The frames of the members of a file, and whether a frame is in one.
FramesOf(ms)    == [i \in DOMAIN ms |-> ms[i].frames]
InFile(f, h, x) == Among(FramesOf(f[h]), x)
OneMember       == [frames : Seq(Int), ended : BOOLEAN]

\* Each frame before those behind it.
Rises(s) == \A i, j \in DOMAIN s : i < j => s[i] < s[j]

\* What the buffer holds may stand behind what a file holds, whose hour has come.
FileHolds(f, h, b, n, z) ==
    /\ AscendsWhole(FramesOf(f[h]), z)
    /\ \A x : InFile(f, h, x) => x \in 1..n /\ HourOf[x] <= h /\ h <= HourOf[n]
    /\ \A y : Holds(b, y) => FitsAll(FramesOf(f[h]), y, z)

\* Files f, o of them open, and a buffer b, after n frames have arrived and z
\* flushes have failed.
Filed(f, o, b, n, z) ==
    /\ n \in 0..Len(HourOf) /\ o \in Hours \cup {NoHour} /\ z \in Nat
    /\ b \in Seq(1..n) /\ Rises(b)
    /\ b # <<>> => Last(b) = n
    /\ f \in [Hours -> Seq(OneMember)]
    /\ o # NoHour => f[o] # <<>>
    /\ \A h \in Hours : FileHolds(f, h, b, n, z)
    /\ \A g, h \in Hours : \A y : g < h /\ InFile(f, h, y) => FitsAll(FramesOf(f[g]), y, z)

\* Every member is ended, but the last of the open file.
Tidy(f, o) ==
    \A h \in Hours : \A i \in DOMAIN f[h] : f[h][i].ended \/ (h = o /\ i = Len(f[h]))

LEMMA HourTypes ==
    /\ Len(HourOf) \in Nat /\ DOMAIN HourOf = 1..Len(HourOf)
    /\ \A x \in 1..Len(HourOf) : HourOf[x] \in Hours
    /\ Hours \in SUBSET Nat /\ NoHour \notin Hours
    /\ \A x, y \in 1..Len(HourOf) : x <= y => HourOf[x] <= HourOf[y]
<1>1. HourOf \in Seq(Nat \ {0})
  BY ArchiveAssumption
<1>2. Len(HourOf) \in Nat /\ DOMAIN HourOf = 1..Len(HourOf)
  BY <1>1, LenProperties
<1>3. \A x \in 1..Len(HourOf) : HourOf[x] \in Nat \ {0}
  BY <1>1, ElementOfSeq
<1>4. Hours = {HourOf[x] : x \in 1..Len(HourOf)}
  BY <1>2 DEF Hours, Range
<1>5. \A x, y \in 1..Len(HourOf) : x <= y => HourOf[x] <= HourOf[y]
  BY <1>2, ArchiveAssumption
<1>6. QED
  BY <1>2, <1>3, <1>4, <1>5 DEF NoHour

\* The same frames, in members ended or begun.
LEMMA SameFrames ==
    ASSUME NEW f, NEW o, NEW b, NEW n, NEW z, Filed(f, o, b, n, z),
           NEW p \in Hours \cup {NoHour}, NEW g \in [Hours -> Seq(OneMember)],
           p # NoHour => g[p] # <<>>,
           \A h \in Hours : AscendsWhole(FramesOf(f[h]), z) => AscendsWhole(FramesOf(g[h]), z),
           \A h \in Hours : \A y : FitsAll(FramesOf(f[h]), y, z) => FitsAll(FramesOf(g[h]), y, z),
           \A h \in Hours : \A x : InFile(g, h, x) <=> InFile(f, h, x)
    PROVE  Filed(g, p, b, n, z)
<1>1. ASSUME NEW h \in Hours PROVE FileHolds(g, h, b, n, z)
  <2>1. FileHolds(f, h, b, n, z)
    BY DEF Filed
  <2>2. AscendsWhole(FramesOf(g[h]), z)
    BY <2>1 DEF FileHolds
  <2>3. /\ \A x : InFile(g, h, x) <=> InFile(f, h, x)
        /\ \A y : FitsAll(FramesOf(f[h]), y, z) => FitsAll(FramesOf(g[h]), y, z)
    OBVIOUS
  <2>4. QED
    BY ONLY <2>1, <2>2, <2>3 DEF FileHolds
<1>2. \A h, k \in Hours : \A y : h < k /\ InFile(g, k, y) => FitsAll(FramesOf(g[h]), y, z)
  BY DEF Filed
<1>3. QED
  BY <1>1, <1>2 DEF Filed

LEMMA ClosedKeeps ==
    ASSUME NEW f, NEW o, NEW b, NEW n, NEW z, Filed(f, o, b, n, z)
    PROVE  /\ Filed(Closed(f, o), NoHour, b, n, z)
           /\ \A h \in Hours : \A x : InFile(Closed(f, o), h, x) <=> InFile(f, h, x)
           /\ Tidy(f, o) => Tidy(Closed(f, o), NoHour)
<1> DEFINE g == Closed(f, o)
<1>1. o \in Hours \cup {NoHour} /\ f \in [Hours -> Seq(OneMember)] /\ (o # NoHour => f[o] # <<>>)
  BY DEF Filed
<1>2. CASE o = NoHour
  <2>1. g = f
    BY <1>2 DEF Closed
  <2>2. QED
    BY <1>2, <2>1
<1>3. CASE o # NoHour
  <2> DEFINE l == Len(f[o])
             filled == [f[o][l] EXCEPT !.ended = TRUE]
             ms == [f[o] EXCEPT ![l] = filled]
  <2>1. o \in Hours /\ f[o] \in Seq(OneMember) /\ f[o] # <<>>
    BY <1>1, <1>3
  <2>2. l \in 1..l /\ l \in Nat /\ DOMAIN f[o] = 1..l
    BY <2>1, EmptySeq, LenProperties
  <2>3. f[o][l] \in OneMember
    BY <2>1, <2>2, ElementOfSeq
  <2>4. filled \in OneMember /\ filled.frames = f[o][l].frames /\ filled.ended = TRUE
    BY <2>3 DEF OneMember
  <2>5. g = [f EXCEPT ![o] = ms]
    BY <1>3 DEF Closed
  <2> HIDE DEF filled
  <2>6. ms \in Seq(OneMember) /\ Len(ms) = l /\ \A j \in 1..l : ms[j] = IF j = l THEN filled ELSE f[o][j]
    BY <2>1, <2>2, <2>4, ExceptSeq
  <2>7. DOMAIN ms = 1..l
    BY <2>6, LenProperties
  <2> HIDE DEF ms, l, g
  <2>8. g \in [Hours -> Seq(OneMember)] /\ g[o] = ms /\ \A h \in Hours : h # o => g[h] = f[h]
    BY <1>1, <2>1, <2>5, <2>6
  <2>9. \A j \in 1..l : ms[j].frames = f[o][j].frames
    BY <2>4, <2>6
  <2>10. FramesOf(ms) = FramesOf(f[o])
    BY <2>2, <2>7, <2>9 DEF FramesOf
  <2>11. \A h \in Hours : FramesOf(g[h]) = FramesOf(f[h])
    BY <2>8, <2>10
  <2>12. \A h \in Hours : \A x : InFile(g, h, x) <=> InFile(f, h, x)
    BY <2>11 DEF InFile
  <2>13. Filed(g, NoHour, b, n, z)
    <3>1. /\ \A h \in Hours : AscendsWhole(FramesOf(f[h]), z) => AscendsWhole(FramesOf(g[h]), z)
          /\ \A h \in Hours : \A y : FitsAll(FramesOf(f[h]), y, z) => FitsAll(FramesOf(g[h]), y, z)
      BY <2>11
    <3>2. NoHour \in Hours \cup {NoHour}
      OBVIOUS
    <3>3. QED
      BY <2>8, <2>12, <3>1, <3>2, SameFrames
  <2>14. ASSUME Tidy(f, o) PROVE Tidy(g, NoHour)
    <3> SUFFICES ASSUME NEW h \in Hours, NEW i \in DOMAIN g[h] PROVE g[h][i].ended
      BY DEF Tidy
    <3>1. CASE h = o
      <4>1. i \in 1..l /\ g[h][i] = IF i = l THEN filled ELSE f[o][i]
        BY <2>6, <2>7, <2>8, <3>1
      <4>2. i # l => f[o][i].ended
        BY <2>1, <2>2, <2>14, <4>1 DEF Tidy, l
      <4>3. QED
        BY <2>4, <4>1, <4>2
    <3>2. CASE h # o
      <4>1. g[h] = f[h]
        BY <2>8, <3>2
      <4>2. QED
        BY <2>14, <3>2, <4>1 DEF Tidy
    <3>3. QED
      BY <3>1, <3>2
  <2>15. QED
    BY <2>12, <2>13, <2>14 DEF g
<1>4. QED
  BY <1>2, <1>3

LEMMA OpenedKeeps ==
    ASSUME NEW f, NEW b, NEW n, NEW z, Filed(f, NoHour, b, n, z), NEW hour \in Hours
    PROVE  /\ Filed(OpenFor(f, hour), hour, b, n, z)
           /\ \A h \in Hours : \A x : InFile(OpenFor(f, hour), h, x) <=> InFile(f, h, x)
           /\ Tidy(f, NoHour) => Tidy(OpenFor(f, hour), hour)
<1> DEFINE g == OpenFor(f, hour)
           new == Member(<<>>, FALSE)
           ms == Append(f[hour], new)
           l == Len(f[hour])
<1>1. f \in [Hours -> Seq(OneMember)] /\ f[hour] \in Seq(OneMember)
  BY DEF Filed
<1>2. new \in OneMember /\ DOMAIN new.frames = {}
  BY EmptySeq DEF OneMember, Member
<1>3. g = [f EXCEPT ![hour] = ms]
  BY DEF OpenFor
<1> HIDE DEF new
<1>4. /\ ms \in Seq(OneMember) /\ Len(ms) = l + 1
      /\ \A i \in 1..l : ms[i] = f[hour][i]
      /\ ms[l + 1] = new
  BY <1>1, <1>2, AppendProperties
<1>5. l \in Nat /\ DOMAIN f[hour] = 1..l /\ DOMAIN ms = 1..(l + 1)
  BY <1>1, <1>4, LenProperties
<1> HIDE DEF ms, l, g
<1>6. g \in [Hours -> Seq(OneMember)] /\ g[hour] = ms /\ \A h \in Hours : h # hour => g[h] = f[h]
  BY <1>1, <1>3, <1>4
<1>7. /\ DOMAIN FramesOf(ms) = 1..(l + 1) /\ DOMAIN FramesOf(f[hour]) = 1..l
      /\ \A i \in 1..l : FramesOf(ms)[i] = FramesOf(f[hour])[i]
      /\ DOMAIN FramesOf(ms)[l + 1] = {}
      /\ \A i \in 1..(l + 1) : i \in 1..l \/ i = l + 1
      /\ \A i \in 1..l : i \in 1..(l + 1)
  <2>1. /\ DOMAIN FramesOf(ms) = 1..(l + 1) /\ DOMAIN FramesOf(f[hour]) = 1..l
        /\ \A i \in 1..(l + 1) : i \in 1..l \/ i = l + 1
        /\ \A i \in 1..l : i \in 1..(l + 1)
        /\ l + 1 \in 1..(l + 1)
    BY <1>5 DEF FramesOf
  <2>2. \A i \in 1..(l + 1) : FramesOf(ms)[i] = ms[i].frames
    BY <1>5 DEF FramesOf
  <2>3. \A i \in 1..l : FramesOf(f[hour])[i] = f[hour][i].frames
    BY <1>5 DEF FramesOf
  <2>4. QED
    BY <1>2, <1>4, <2>1, <2>2, <2>3
<1>8. \A x : Among(FramesOf(ms), x) <=> Among(FramesOf(f[hour]), x)
  BY <1>7 DEF Among
<1>9. /\ AscendsWhole(FramesOf(f[hour]), z) => AscendsWhole(FramesOf(ms), z)
      /\ \A y : FitsAll(FramesOf(f[hour]), y, z) => FitsAll(FramesOf(ms), y, z)
  <2> DEFINE old == FramesOf(f[hour])
             grown == FramesOf(ms)
  <2>1. /\ DOMAIN grown = 1..(l + 1) /\ DOMAIN old = 1..l
        /\ \A i \in 1..l : grown[i] = old[i]
        /\ DOMAIN grown[l + 1] = {}
        /\ \A i \in 1..(l + 1) : i \in 1..l \/ i = l + 1
    BY <1>7
  <2> HIDE DEF old, grown
  <2>2. Ascends(grown[l + 1], z) /\ \A y : Fits(grown[l + 1], y, z) /\ ~Holds(grown[l + 1], y)
    BY <2>1 DEF Ascends, Fits, Holds
  <2>3. \A y : FitsAll(old, y, z) => FitsAll(grown, y, z)
    BY <2>1, <2>2 DEF FitsAll
  <2>4. ASSUME AscendsWhole(old, z) PROVE AscendsWhole(grown, z)
    <3>1. \A i \in DOMAIN grown : Ascends(grown[i], z)
      BY <2>1, <2>2, <2>4 DEF AscendsWhole
    <3>2. ASSUME NEW i \in DOMAIN grown, NEW j \in DOMAIN grown, i < j, NEW y, Holds(grown[j], y)
          PROVE  Fits(grown[i], y, z)
      <4>1. j \in 1..l
        BY <2>1, <2>2, <3>2
      <4>2. i \in 1..l
        BY <1>5, <2>1, <3>2, <4>1
      <4>3. QED
        BY <2>1, <2>4, <3>2, <4>1, <4>2 DEF AscendsWhole
    <3>3. QED
      BY <3>1, <3>2 DEF AscendsWhole
  <2>5. QED
    BY <2>3, <2>4 DEF old, grown
<1>10. \A h \in Hours : \A x : InFile(g, h, x) <=> InFile(f, h, x)
  BY <1>6, <1>8 DEF InFile
<1>11. /\ \A h \in Hours : AscendsWhole(FramesOf(f[h]), z) => AscendsWhole(FramesOf(g[h]), z)
       /\ \A h \in Hours : \A y : FitsAll(FramesOf(f[h]), y, z) => FitsAll(FramesOf(g[h]), y, z)
  BY <1>6, <1>9
<1>12. g[hour] # <<>>
  BY <1>4, <1>5, <1>6, EmptySeq
<1>13. Filed(g, hour, b, n, z)
  <2>1. hour \in Hours \cup {NoHour}
    OBVIOUS
  <2>2. QED
    BY <1>6, <1>10, <1>11, <1>12, <2>1, SameFrames
<1>14. ASSUME Tidy(f, NoHour) PROVE Tidy(g, hour)
  <2> SUFFICES ASSUME NEW h \in Hours, NEW i \in DOMAIN g[h]
               PROVE  g[h][i].ended \/ (h = hour /\ i = Len(g[h]))
    BY DEF Tidy
  <2>1. NoHour \notin Hours
    BY HourTypes
  <2>2. \A k \in DOMAIN f[h] : f[h][k].ended
    BY <1>14, <2>1 DEF Tidy
  <2>3. CASE h = hour
    <3>1. i \in 1..l \/ i = l + 1
      BY <1>5, <1>6, <2>3
    <3>2. i \in 1..l => i \in DOMAIN f[h] /\ g[h][i] = f[h][i]
      BY <1>4, <1>5, <1>6, <2>3
    <3>3. QED
      BY <1>4, <1>6, <2>2, <2>3, <3>1, <3>2
  <2>4. CASE h # hour
    BY <1>6, <2>2, <2>4
  <2>5. QED
    BY <2>3, <2>4
<1>15. QED
  BY <1>10, <1>13, <1>14 DEF g

LEMMA HandleKeeps ==
    ASSUME NEW b, NEW n, NEW z, Filed(files, open, b, n, z), NEW hour \in Hours
    PROVE  /\ Filed(Handle(hour), hour, b, n, z)
           /\ \A h \in Hours : \A x : InFile(Handle(hour), h, x) <=> InFile(files, h, x)
           /\ Tidy(files, open) => Tidy(Handle(hour), hour)
<1>1. CASE open = hour
  BY <1>1 DEF Handle
<1>2. CASE open # hour
  <2> DEFINE f == Closed(files, open)
  <2>1. Handle(hour) = OpenFor(f, hour)
    BY <1>2 DEF Handle
  <2>2. /\ Filed(f, NoHour, b, n, z)
        /\ \A h \in Hours : \A x : InFile(f, h, x) <=> InFile(files, h, x)
        /\ Tidy(files, open) => Tidy(f, NoHour)
    BY ClosedKeeps
  <2> HIDE DEF f
  <2>3. /\ Filed(OpenFor(f, hour), hour, b, n, z)
        /\ \A h \in Hours : \A x : InFile(OpenFor(f, hour), h, x) <=> InFile(f, h, x)
        /\ Tidy(f, NoHour) => Tidy(OpenFor(f, hour), hour)
    BY <2>2, OpenedKeeps
  <2>4. QED
    BY <2>1, <2>2, <2>3
<1>3. QED
  BY <1>1, <1>2

\* A sequence behind the last one of a list.
LEMMA LastGrows ==
    ASSUME NEW n \in Nat \ {0}, NEW seqs \in [1..n -> Seq(Int)], NEW b \in Seq(Int), NEW z,
           AscendsWhole(seqs, z), Ascends(b, z), \A y : Holds(b, y) => FitsAll(seqs, y, z),
           NEW out \in [1..n -> Seq(Int)],
           \A j \in 1..n : out[j] = IF j = n THEN seqs[n] \o b ELSE seqs[j]
    PROVE  /\ AscendsWhole(out, z)
           /\ \A x : Among(out, x) <=> Among(seqs, x) \/ Holds(b, x)
           /\ \A y : FitsAll(seqs, y, z) /\ Fits(b, y, z) => FitsAll(out, y, z)
<1>1. n \in 1..n /\ DOMAIN seqs = 1..n /\ DOMAIN out = 1..n
  OBVIOUS
<1>2. /\ \A x : Among(seqs, x) <=> \E j \in 1..n : Holds(seqs[j], x)
      /\ \A x : Among(out, x) <=> \E j \in 1..n : Holds(out[j], x)
  BY <1>1 DEF Among, Holds
<1>3. /\ \A j \in 1..n : Ascends(seqs[j], z)
      /\ \A i, j \in 1..n : \A y : i < j /\ Holds(seqs[j], y) => Fits(seqs[i], y, z)
      /\ \A j \in 1..n : \A y : Holds(b, y) => Fits(seqs[j], y, z)
  BY <1>1 DEF AscendsWhole, FitsAll
<1>4. out[n] = seqs[n] \o b /\ \A j \in 1..n : j # n => out[j] = seqs[j]
  BY <1>1
<1>5. /\ \A x : Holds(out[n], x) <=> Holds(seqs[n], x) \/ Holds(b, x)
      /\ \A y : Fits(seqs[n], y, z) /\ Fits(b, y, z) => Fits(out[n], y, z)
      /\ Ascends(out[n], z)
  <2>1. seqs[n] \in Seq(Int) /\ Ascends(seqs[n], z) /\ \A y : Holds(b, y) => Fits(seqs[n], y, z)
    BY <1>1, <1>3
  <2>2. QED
    BY <1>4, <2>1, Behind
<1>6. ASSUME NEW i \in 1..n, NEW j \in 1..n, NEW y, i < j, Holds(out[j], y)
      PROVE  Fits(out[i], y, z)
  <2>1. i # n /\ out[i] = seqs[i]
    BY <1>4, <1>6
  <2>2. Holds(seqs[j], y) \/ Holds(b, y)
    BY <1>4, <1>5, <1>6
  <2>3. QED
    BY <1>3, <1>6, <2>1, <2>2
<1>7. AscendsWhole(out, z)
  <2>1. \A j \in 1..n : Ascends(out[j], z)
    BY <1>3, <1>4, <1>5
  <2>2. QED
    BY <1>1, <1>6, <2>1 DEF AscendsWhole
<1>8. \A x : Among(out, x) <=> Among(seqs, x) \/ Holds(b, x)
  BY <1>1, <1>2, <1>4, <1>5
<1>9. \A y : FitsAll(seqs, y, z) /\ Fits(b, y, z) => FitsAll(out, y, z)
  BY <1>1, <1>4, <1>5 DEF FitsAll
<1>10. QED
  BY <1>7, <1>8, <1>9

\* What rises ascends, and of what rises the first ones are in front of all.
LEMMA RisingFits ==
    ASSUME NEW b \in Seq(Int), Rises(b), NEW m \in 0..Len(b), NEW r, r = SubSeq(b, 1, m), NEW z
    PROVE  /\ r \in Seq(Int) /\ Ascends(r, z)
           /\ \A x : Holds(r, x) => Holds(b, x)
           /\ z > 0 => \A y : Holds(b, y) => Fits(r, y, z)
<1>1. PICK l \in Nat : l = Len(b) /\ DOMAIN b = 1..l /\ \A i \in 1..l : b[i] \in Int
  BY LenProperties, ElementOfSeq
<1>2. m \in Int /\ 1 \in Int /\ \A i \in 1..m : i \in 1..l /\ 1 + i - 1 = i
  BY <1>1
<1>3. /\ r \in Seq(Int) /\ Len(r) = IF 1 <= m THEN m - 1 + 1 ELSE 0
      /\ \A i \in 1..(m - 1 + 1) : r[i] = b[1 + i - 1]
  <2>1. \A i \in 1..m : b[i] \in Int
    BY <1>1, <1>2
  <2>2. QED
    BY <1>2, <2>1, SubSeqProperties
<1>4. Len(r) = m /\ m - 1 + 1 = m
  BY <1>1, <1>3
<1>5. DOMAIN r = 1..m /\ \A i \in 1..m : r[i] = b[i]
  BY <1>2, <1>3, <1>4, LenProperties
<1>6. Ascends(r, z)
  BY <1>1, <1>2, <1>5 DEF Ascends, Rises
<1>7. \A x : Holds(r, x) => Holds(b, x)
  BY <1>1, <1>2, <1>5 DEF Holds
<1>8. ASSUME z > 0, NEW q \in 1..l, NEW k \in 1..m
      PROVE  r[k] < b[q] \/ \E j \in 1..k : r[j] = b[q]
  <2>1. CASE q <= k
    <3>1. q \in 1..k /\ q \in 1..m
      BY <1>1, <2>1
    <3>2. QED
      BY <1>5, <3>1
  <2>2. CASE k < q
    <3>1. b[k] < b[q]
      BY <1>1, <1>2, <2>2 DEF Rises
    <3>2. QED
      BY <1>5, <3>1
  <2>3. QED
    BY <1>1, <2>1, <2>2
<1>9. ASSUME z > 0, NEW y, Holds(b, y) PROVE Fits(r, y, z)
  <2>1. PICK q \in 1..l : b[q] = y
    BY <1>1, <1>9 DEF Holds
  <2>2. \A k \in 1..m : r[k] < b[q] \/ \E j \in 1..k : r[j] = b[q]
    BY <1>8, <1>9
  <2>3. QED
    BY <1>5, <1>9, <2>1, <2>2 DEF Fits
<1>10. QED
  BY <1>3, <1>6, <1>7, <1>9

\* A buffer that is not empty, after n frames: the last is the newest.
LEMMA NewestIsLast ==
    ASSUME NEW n \in 0..Len(HourOf), NEW b \in Seq(1..n), Rises(b), b # <<>>
    PROVE  /\ Holds(b, Last(b)) /\ Last(b) \in 1..n /\ HourOf[Last(b)] \in Hours
           /\ \A y : Holds(b, y) => y \in 1..n /\ y <= Last(b) /\ HourOf[y] <= HourOf[Last(b)]
<1>1. PICK l \in Nat : l = Len(b) /\ DOMAIN b = 1..l
  BY LenProperties
<1>2. l > 0
  BY <1>1, EmptySeq
<1>3. Last(b) = b[l] /\ l \in DOMAIN b
  BY <1>1, <1>2 DEF Last
<1>4. \A i \in 1..l : b[i] \in 1..n
  BY <1>1, ElementOfSeq
<1>5. Len(HourOf) \in Nat /\ n \in Nat /\ n <= Len(HourOf)
  BY HourTypes
<1>6. 1..n \subseteq 1..Len(HourOf)
  BY <1>5
<1>7. \A i \in 1..l : b[i] <= b[l]
  <2> SUFFICES ASSUME NEW i \in 1..l PROVE b[i] <= b[l]
    OBVIOUS
  <2>1. b[i] \in Int /\ b[l] \in Int
    BY <1>1, <1>3, <1>4
  <2>2. i < l => b[i] < b[l]
    BY <1>1, <1>3 DEF Rises
  <2>3. QED
    BY <2>1, <2>2
<1>8. \A i \in 1..l : HourOf[b[i]] <= HourOf[b[l]]
  BY <1>1, <1>3, <1>4, <1>6, <1>7, HourTypes
<1>9. HourOf[b[l]] \in Hours
  BY <1>1, <1>3, <1>4, <1>6, HourTypes
<1>10. QED
  BY <1>1, <1>3, <1>4, <1>7, <1>8, <1>9 DEF Holds

\* Frames r, written behind those of the open file's last member.
Fills(f, hour, r, g) ==
    \E filled : /\ filled = Member(Last(f[hour]).frames \o r, Last(f[hour]).ended)
              /\ g = [f EXCEPT ![hour] = [f[hour] EXCEPT ![Len(f[hour])] = filled]]

\* They are added to the file of an hour.
Gains(g, f, hour, r) ==
    \A h \in Hours : \A x : InFile(g, h, x) <=> InFile(f, h, x) \/ (h = hour /\ Holds(r, x))

\* Of a buffer b, frames r are written and c are kept.
Leaves(b, r, c, z) ==
    /\ r \in Seq(Int) /\ Ascends(r, z) /\ \A x : Holds(r, x) => Holds(b, x)
    /\ (c = <<>> \/ c = b)
    /\ \A y : Holds(c, y) => Fits(r, y, z)

LEMMA FilledKeeps ==
    ASSUME NEW f, NEW b, NEW n, NEW z, NEW hour \in Hours, Filed(f, hour, b, n, z), b # <<>>,
           hour = HourOf[Last(b)],
           NEW r, NEW c, Leaves(b, r, c, z),
           NEW g, Fills(f, hour, r, g)
    PROVE  /\ Filed(g, hour, c, n, z)
           /\ Gains(g, f, hour, r)
           /\ Tidy(f, hour) => Tidy(g, hour)
<1>0. PICK filled : /\ filled = Member(Last(f[hour]).frames \o r, Last(f[hour]).ended)
                  /\ g = [f EXCEPT ![hour] = [f[hour] EXCEPT ![Len(f[hour])] = filled]]
  BY DEF Fills
<1>left. /\ r \in Seq(Int) /\ Ascends(r, z) /\ \A x : Holds(r, x) => Holds(b, x)
      /\ (c = <<>> \/ c = b)
      /\ \A y : Holds(c, y) => Fits(r, y, z)
  BY DEF Leaves
<1> DEFINE l == Len(f[hour])
           ms == [f[hour] EXCEPT ![l] = filled]
<1>1. /\ n \in 0..Len(HourOf) /\ b \in Seq(1..n) /\ Rises(b) /\ Last(b) = n /\ z \in Nat
      /\ f \in [Hours -> Seq(OneMember)] /\ f[hour] \in Seq(OneMember) /\ f[hour] # <<>>
  BY HourTypes DEF Filed
<1>2. l \in 1..l /\ l \in Nat /\ DOMAIN f[hour] = 1..l
  BY <1>1, EmptySeq, LenProperties
<1>3. f[hour][l] \in OneMember
  BY <1>1, <1>2, ElementOfSeq
<1>4. f[hour][l].frames \in Seq(Int) /\ f[hour][l].frames \o r \in Seq(Int)
  BY <1>3, <1>left, ConcatProperties DEF OneMember
<1>5. filled \in OneMember /\ filled.frames = f[hour][l].frames \o r /\ filled.ended = f[hour][l].ended
  BY <1>0, <1>3, <1>4 DEF OneMember, Member, Last
<1>6. g = [f EXCEPT ![hour] = ms]
  BY <1>0
<1>7. ms \in Seq(OneMember) /\ Len(ms) = l /\ \A j \in 1..l : ms[j] = IF j = l THEN filled ELSE f[hour][j]
  <2>1. l \in 1..Len(f[hour]) /\ filled \in OneMember
    BY <1>2, <1>5
  <2>2. QED
    BY ONLY <1>1, <2>1, ExceptSeq
<1>8. DOMAIN ms = 1..l
  BY <1>7, LenProperties
<1> HIDE DEF ms, l
<1>9. g \in [Hours -> Seq(OneMember)] /\ g[hour] = ms /\ \A h \in Hours : h # hour => g[h] = f[h]
  BY <1>1, <1>6, <1>7
<1> DEFINE old == FramesOf(f[hour])
           new == FramesOf(ms)
<1>10. /\ old \in [1..l -> Seq(Int)] /\ new \in [1..l -> Seq(Int)]
       /\ \A j \in 1..l : new[j] = IF j = l THEN old[l] \o r ELSE old[j]
  <2>1. \A j \in 1..l : f[hour][j] \in OneMember /\ ms[j] \in OneMember
    BY <1>1, <1>2, <1>7, <1>8, ElementOfSeq DEF l
  <2>2. /\ old = [j \in 1..l |-> f[hour][j].frames] /\ new = [j \in 1..l |-> ms[j].frames]
    BY <1>2, <1>8 DEF FramesOf
  <2>3. \A j \in 1..l : f[hour][j].frames \in Seq(Int) /\ ms[j].frames \in Seq(Int)
    BY <2>1 DEF OneMember
  <2> HIDE DEF old, new
  <2>4. /\ \A j \in 1..l : old[j] = f[hour][j].frames /\ new[j] = ms[j].frames
        /\ old \in [1..l -> Seq(Int)] /\ new \in [1..l -> Seq(Int)]
    BY <2>2, <2>3
  <2>5. \A j \in 1..l : j # l => new[j] = old[j]
    BY ONLY <1>7, <2>4
  <2>6. l \in 1..l
    BY <1>2
  <2>7. new[l] = filled.frames /\ old[l] = f[hour][l].frames
    BY ONLY <1>7, <2>4, <2>6
  <2>8. new[l] = old[l] \o r
    BY ONLY <1>5, <2>7
  <2>9. QED
    BY ONLY <2>4, <2>5, <2>8
<1> HIDE DEF old, new
<1>11. FileHolds(f, hour, b, n, z)
  BY <1>1 DEF Filed
<1>12. /\ AscendsWhole(new, z)
       /\ \A x : Among(new, x) <=> Among(old, x) \/ Holds(r, x)
       /\ \A y : FitsAll(old, y, z) /\ Fits(r, y, z) => FitsAll(new, y, z)
  <2>1. AscendsWhole(old, z) /\ (\A y : Holds(r, y) => FitsAll(old, y, z)) /\ Ascends(r, z)
    BY <1>11, <1>left DEF FileHolds, old
  <2>2. QED
    <3>1. l \in Nat \ {0}
      BY <1>2
    <3>2. QED
      BY <1>10, <1>left, <2>1, <3>1, LastGrows
<1>13. \A h \in Hours : \A x : InFile(g, h, x) <=> InFile(f, h, x) \/ (h = hour /\ Holds(r, x))
  BY <1>9, <1>12 DEF InFile, old, new
<1>14. /\ \A y : Holds(b, y) => y \in 1..n /\ HourOf[y] <= hour
       /\ hour = HourOf[n] /\ hour \in Nat
  BY <1>1, NewestIsLast, HourTypes
<1>15. \A y : Holds(c, y) => Holds(b, y)
  <2>1. DOMAIN <<>> = {}
    OBVIOUS
  <2>2. QED
    BY <1>left, <2>1 DEF Holds
<1>16. ASSUME NEW h \in Hours PROVE FileHolds(g, h, c, n, z)
  <2>1. FileHolds(f, h, b, n, z)
    BY DEF Filed
  <2>2. CASE h = hour
    <3>1. AscendsWhole(FramesOf(g[h]), z)
      BY <1>9, <1>12, <2>2 DEF new
    <3>2. \A x : InFile(g, h, x) => x \in 1..n /\ HourOf[x] <= h /\ h <= HourOf[n]
      BY <1>13, <1>14, <1>left, <2>1, <2>2 DEF FileHolds
    <3>3. \A y : Holds(c, y) => FitsAll(FramesOf(g[h]), y, z)
      <4>1. \A y : Holds(c, y) => FitsAll(old, y, z) /\ Fits(r, y, z)
        BY <1>15, <1>left, <2>1, <2>2 DEF FileHolds, old
      <4>2. QED
        BY <1>9, <1>12, <2>2, <4>1 DEF new
    <3>4. QED
      BY ONLY <3>1, <3>2, <3>3 DEF FileHolds
  <2>3. CASE h # hour
    <3>1. \A x : InFile(g, h, x) <=> InFile(f, h, x)
      BY <1>13, <2>3
    <3>2. g[h] = f[h]
      BY <1>9, <2>3
    <3>3. QED
      BY ONLY <1>15, <2>1, <3>1, <3>2 DEF FileHolds
  <2>4. QED
    BY <2>2, <2>3
<1>17. ASSUME NEW h \in Hours, NEW k \in Hours, NEW y, h < k, InFile(g, k, y)
       PROVE  FitsAll(FramesOf(g[h]), y, z)
  <2>1. h \in Nat /\ k \in Nat
    BY HourTypes
  <2>2. CASE h = hour
    <3>1. FileHolds(f, k, b, n, z)
      BY DEF Filed
    <3>2. k # hour
      BY <1>17, <2>1, <2>2
    <3>3. k <= hour
      BY <1>13, <1>14, <1>17, <3>1, <3>2 DEF FileHolds
    <3>4. QED
      BY <1>17, <2>1, <2>2, <3>3
  <2>3. CASE h # hour
    <3>1. g[h] = f[h]
      BY <1>9, <2>3
    <3>2. CASE InFile(f, k, y)
      BY <1>17, <3>1, <3>2 DEF Filed
    <3>3. CASE Holds(r, y)
      <4>1. FileHolds(f, h, b, n, z)
        BY DEF Filed
      <4>2. QED
        BY <1>left, <3>1, <3>3, <4>1 DEF FileHolds
    <3>4. QED
      BY <1>13, <1>17, <3>2, <3>3
  <2>4. QED
    BY <2>2, <2>3
<1>18. c \in Seq(1..n) /\ Rises(c) /\ (c # <<>> => Last(c) = n)
  <2>1. DOMAIN <<>> = {} /\ <<>> \in Seq(1..n)
    BY EmptySeq
  <2>2. Rises(<<>>)
    BY <2>1 DEF Rises
  <2>3. QED
    BY <1>1, <1>left, <2>1, <2>2
<1>19. g[hour] # <<>>
  BY <1>2, <1>7, <1>9, EmptySeq
<1>20. Filed(g, hour, c, n, z)
  BY <1>1, <1>9, <1>16, <1>17, <1>18, <1>19 DEF Filed
<1>21. ASSUME Tidy(f, hour) PROVE Tidy(g, hour)
  <2> SUFFICES ASSUME NEW h \in Hours, NEW i \in DOMAIN g[h]
               PROVE  g[h][i].ended \/ (h = hour /\ i = Len(g[h]))
    BY DEF Tidy
  <2>1. CASE h = hour
    <3>1. i \in 1..l /\ g[h] = ms /\ Len(g[h]) = l
      BY <1>7, <1>8, <1>9, <2>1
    <3>2. i # l => f[h][i].ended
      BY <1>2, <1>21, <2>1, <3>1 DEF Tidy, l
    <3>3. QED
      BY <1>7, <2>1, <3>1, <3>2
  <2>2. CASE h # hour
    <3>1. g[h] = f[h]
      BY <1>9, <2>2
    <3>2. QED
      BY <1>21, <2>2, <3>1 DEF Tidy
  <2>3. QED
    BY <2>1, <2>2
<1>22. QED
  BY <1>13, <1>20, <1>21 DEF Gains

\* _flush_feed(): frames r of the buffer, in the file of its newest frame's hour.
LEMMA PutKeeps ==
    ASSUME NEW n, NEW z, Filed(files, open, buffer, n, z), buffer # <<>>,
           NEW r, NEW c, Leaves(buffer, r, c, z), NEW g, g = Put(r, BufferHour)
    PROVE  /\ Filed(g, BufferHour, c, n, z)
           /\ Gains(g, files, BufferHour, r)
           /\ Tidy(files, open) => Tidy(g, BufferHour)
<1>1. PICK hour : hour = BufferHour
  OBVIOUS
<1>2. hour \in Hours /\ hour = HourOf[Last(buffer)]
  BY <1>1, NewestIsLast DEF Filed, BufferHour
<1>3. PICK f : f = Handle(hour)
  OBVIOUS
<1>4. /\ Filed(f, hour, buffer, n, z)
      /\ \A h \in Hours : \A x : InFile(f, h, x) <=> InFile(files, h, x)
      /\ Tidy(files, open) => Tidy(f, hour)
  BY <1>2, <1>3, HandleKeeps
<1>5. Fills(f, hour, r, g)
  BY <1>1, <1>3 DEF Put, Fills
<1>6. /\ Filed(g, hour, c, n, z)
      /\ Gains(g, f, hour, r)
      /\ Tidy(f, hour) => Tidy(g, hour)
  <2>1. Leaves(buffer, r, c, z) /\ buffer # <<>>
    OBVIOUS
  <2>2. PICK b : b = buffer
    OBVIOUS
  <2>3. Leaves(b, r, c, z) /\ b # <<>> /\ Filed(f, hour, b, n, z) /\ hour = HourOf[Last(b)]
    BY <1>2, <1>4, <2>1, <2>2
  <2>4. QED
    BY ONLY <1>2, <1>5, <2>3, FilledKeeps
<1>7. QED
  BY ONLY <1>1, <1>4, <1>6 DEF Gains

\* The whole buffer.
LEMMA FlushKeeps ==
    ASSUME NEW n, NEW z, Filed(files, open, buffer, n, z), buffer # <<>>
    PROVE  /\ Filed(Flushed, BufferHour, <<>>, n, z)
           /\ Gains(Flushed, files, BufferHour, buffer)
           /\ Tidy(files, open) => Tidy(Flushed, BufferHour)
<1>1. buffer \in Seq(Int) /\ Rises(buffer)
  <2>1. buffer \in Seq(1..n) /\ n \in 0..Len(HourOf) /\ Rises(buffer)
    BY DEF Filed
  <2>2. 1..n \subseteq Int
    BY <2>1, HourTypes
  <2>3. QED
    BY <2>1, <2>2
<1>2. Ascends(buffer, z)
  BY <1>1 DEF Ascends, Rises
<1>3. \A y : Holds(<<>>, y) => Fits(buffer, y, z)
  <2>1. DOMAIN <<>> = {}
    OBVIOUS
  <2>2. QED
    BY <2>1 DEF Holds
<1>4. \A x : Holds(buffer, x) => Holds(buffer, x)
  OBVIOUS
<1>5. Leaves(buffer, buffer, <<>>, z) /\ Flushed = Put(buffer, BufferHour)
  BY <1>1, <1>2, <1>3, <1>4 DEF Flushed, Leaves
<1>6. Filed(files, open, buffer, n, z) /\ buffer # <<>>
  OBVIOUS
<1>7. QED
  BY ONLY <1>5, <1>6, PutKeeps

\* One more flush that failed.
LEMMA LooserKeeps ==
    ASSUME NEW f, NEW o, NEW b, NEW n, NEW z, Filed(f, o, b, n, z)
    PROVE  Filed(f, o, b, n, z + 1)
<1>1. z \in Nat /\ z + 1 \in Nat /\ z + 1 > 0
  BY DEF Filed
<1>2. \A t, y : Fits(t, y, z) => Fits(t, y, z + 1)
  BY <1>1 DEF Fits
<1>3. \A t : Ascends(t, z) => Ascends(t, z + 1)
  BY <1>1 DEF Ascends
<1>4. \A seqs, y : FitsAll(seqs, y, z) => FitsAll(seqs, y, z + 1)
  BY <1>2 DEF FitsAll
<1>5. \A seqs : AscendsWhole(seqs, z) => AscendsWhole(seqs, z + 1)
  BY <1>2, <1>3 DEF AscendsWhole
<1>6. \A h \in Hours : FileHolds(f, h, b, n, z + 1)
  <2> SUFFICES ASSUME NEW h \in Hours PROVE FileHolds(f, h, b, n, z + 1)
    OBVIOUS
  <2>1. FileHolds(f, h, b, n, z)
    BY DEF Filed
  <2>2. QED
    BY ONLY <1>4, <1>5, <2>1 DEF FileHolds
<1>7. QED
  BY <1>1, <1>4, <1>6 DEF Filed

\* One more frame, in the buffer.
LEMMA ArrivedKeeps ==
    ASSUME NEW f, NEW o, NEW b, NEW n, NEW z, Filed(f, o, b, n, z), n < Len(HourOf)
    PROVE  /\ Filed(f, o, Append(b, n + 1), n + 1, z)
           /\ Append(b, n + 1) # <<>> /\ Last(Append(b, n + 1)) = n + 1
           /\ \A y : Holds(Append(b, n + 1), y) <=> Holds(b, y) \/ y = n + 1
<1> DEFINE c == Append(b, n + 1)
<1>1. /\ n \in 0..Len(HourOf) /\ b \in Seq(1..n) /\ Rises(b)
      /\ \A h \in Hours : FileHolds(f, h, b, n, z)
  BY DEF Filed
<1>2. n \in Nat /\ n + 1 \in 0..Len(HourOf) /\ n + 1 \in 1..(n + 1) /\ 1..n \subseteq 1..(n + 1)
  BY <1>1, HourTypes
<1>3. PICK l \in Nat : l = Len(b) /\ DOMAIN b = 1..l
  BY <1>1, LenProperties
<1>4. b \in Seq(1..(n + 1))
  BY <1>1, <1>2
<1>5. /\ c \in Seq(1..(n + 1)) /\ Len(c) = l + 1 /\ c[l + 1] = n + 1
      /\ \A i \in 1..l : c[i] = b[i]
  BY <1>2, <1>3, <1>4, AppendProperties
<1>6. DOMAIN c = 1..(l + 1) /\ l + 1 \in 1..(l + 1)
  BY <1>3, <1>5, LenProperties
<1>7. c # <<>> /\ Last(c) = n + 1
  BY <1>3, <1>5, EmptySeq DEF Last
<1> HIDE DEF c
<1>8. \A y : Holds(c, y) <=> Holds(b, y) \/ y = n + 1
  <2>1. \A i \in 1..(l + 1) : i \in 1..l \/ i = l + 1
    BY <1>3
  <2>2. \A i \in 1..l : i \in 1..(l + 1)
    BY <1>3
  <2>3. QED
    BY <1>3, <1>5, <1>6, <2>1, <2>2 DEF Holds
<1>9. \A y : Holds(b, y) => y \in 1..n
  BY <1>1, <1>3, ElementOfSeq DEF Holds
<1>10. Rises(c)
  <2> SUFFICES ASSUME NEW i \in 1..(l + 1), NEW j \in 1..(l + 1), i < j PROVE c[i] < c[j]
    BY <1>6 DEF Rises
  <2>1. i \in 1..l
    BY <1>3
  <2>2. CASE j \in 1..l
    BY <1>1, <1>3, <1>5, <2>1, <2>2 DEF Rises
  <2>3. CASE j = l + 1
    <3>1. b[i] \in 1..n
      BY <1>1, <1>3, <2>1, ElementOfSeq
    <3>2. QED
      BY <1>2, <1>5, <2>1, <2>3, <3>1
  <2>4. QED
    BY <1>3, <2>2, <2>3
<1>11. ASSUME NEW h \in Hours PROVE FileHolds(f, h, c, n + 1, z)
  <2>1. FileHolds(f, h, b, n, z)
    BY <1>1
  <2>2. ASSUME NEW x, InFile(f, h, x)
        PROVE  x \in 1..(n + 1) /\ x < n + 1 /\ HourOf[x] <= h /\ h <= HourOf[n + 1]
    <3>1. x \in 1..n /\ HourOf[x] <= h /\ h <= HourOf[n]
      BY <2>1, <2>2 DEF FileHolds
    <3>2. n \in 1..Len(HourOf) /\ n + 1 \in 1..Len(HourOf) /\ n <= n + 1
      BY <1>1, <1>2, <3>1, HourTypes
    <3>3. HourOf[n] <= HourOf[n + 1] /\ HourOf[n] \in Nat /\ HourOf[n + 1] \in Nat /\ h \in Nat
      BY <3>2, HourTypes
    <3>4. QED
      BY <1>2, <3>1, <3>3
  <2>3. FitsAll(FramesOf(f[h]), n + 1, z)
    <3> DEFINE seqs == FramesOf(f[h])
    <3>1. \A i \in DOMAIN seqs : \A k \in DOMAIN seqs[i] : InFile(f, h, seqs[i][k])
      BY DEF InFile, Among
    <3>2. \A i \in DOMAIN seqs : \A k \in DOMAIN seqs[i] : seqs[i][k] < n + 1
      BY <2>2, <3>1
    <3> HIDE DEF seqs
    <3>3. FitsAll(seqs, n + 1, z)
      BY <3>2 DEF FitsAll, Fits
    <3>4. QED
      BY <3>3 DEF seqs
  <2>4. \A y : Holds(c, y) => FitsAll(FramesOf(f[h]), y, z)
    BY <1>8, <2>1, <2>3 DEF FileHolds
  <2>5. AscendsWhole(FramesOf(f[h]), z)
    BY <2>1 DEF FileHolds
  <2>6. QED
    BY ONLY <2>2, <2>4, <2>5 DEF FileHolds
<1>12. Filed(f, o, c, n + 1, z)
  BY <1>2, <1>5, <1>7, <1>10, <1>11 DEF Filed, c
<1>13. QED
  BY <1>7, <1>8, <1>12 DEF c

\* Nothing in the buffer, no file open: a kill, and every frame of the buffer lost.
LEMMA EmptiedKeeps ==
    ASSUME NEW f, NEW o, NEW b, NEW n, NEW z, Filed(f, o, b, n, z)
    PROVE  Filed(f, NoHour, <<>>, n, z)
<1>1. <<>> \in Seq(1..n) /\ \A y : ~Holds(<<>>, y)
  <2>1. DOMAIN <<>> = {}
    OBVIOUS
  <2>2. QED
    BY <2>1, EmptySeq DEF Holds
<1>2. Rises(<<>>)
  <2>1. DOMAIN <<>> = {}
    OBVIOUS
  <2>2. QED
    BY <2>1 DEF Rises
<1>3. ASSUME NEW h \in Hours PROVE FileHolds(f, h, <<>>, n, z)
  <2>1. FileHolds(f, h, b, n, z)
    BY DEF Filed
  <2>2. QED
    BY ONLY <1>1, <2>1 DEF FileHolds
<1>4. QED
  BY <1>1, <1>2, <1>3 DEF Filed

\* Each frame that arrived is in a file, in the buffer, or gone.
Accounted(f, b, n, gone) ==
    \A x \in 1..n : (\E h \in Hours : InFile(f, h, x)) \/ Holds(b, x) \/ x \in gone

ArchiveInv ==
    /\ Filed(files, open, buffer, arrived, faults)
    /\ Accounted(files, buffer, arrived, lost)
    /\ Len(buffer) <= BufferFrames + faults
    /\ due \/ Len(buffer) < BufferFrames + faults
    /\ kills \in Nat /\ lost \in SUBSET (1..arrived)
    /\ Cardinality(lost) <= kills * (BufferFrames + faults)
    /\ kills = 0 /\ faults = 0 => Tidy(files, open)

\* What a sequence of frames holds, as a set.
LEMMA RangeHolds ==
    ASSUME NEW s, NEW x
    PROVE  x \in Range(s) <=> Holds(s, x)
BY DEF Range, Holds

LEMMA BeginsWhole == ArchiveInit => ArchiveInv
<1> SUFFICES ASSUME ArchiveInit PROVE ArchiveInv
  OBVIOUS
<1>1. /\ arrived = 0 /\ buffer = <<>> /\ open = NoHour /\ kills = 0 /\ faults = 0 /\ lost = {}
      /\ files = [h \in Hours |-> <<>>]
  BY DEF ArchiveInit
<1>2. DOMAIN <<>> = {} /\ Len(<<>>) = 0 /\ <<>> \in Seq(1..0) /\ <<>> \in Seq(OneMember)
  BY EmptySeq
<1>3. \A h \in Hours : files[h] = <<>>
  BY <1>1
<1>4. \A h \in Hours : DOMAIN FramesOf(files[h]) = {}
  BY <1>2, <1>3 DEF FramesOf
<1>5. \A h \in Hours : \A x : ~InFile(files, h, x)
  BY <1>4 DEF InFile, Among
<1>6. Filed(files, open, buffer, arrived, faults)
  <2>1. \A h \in Hours : FileHolds(files, h, buffer, arrived, faults)
    BY <1>4, <1>5 DEF FileHolds, AscendsWhole, FitsAll
  <2>2. 0 \in 0..Len(HourOf)
    BY HourTypes
  <2>3. Rises(buffer)
    BY <1>1, <1>2 DEF Rises
  <2>4. files \in [Hours -> Seq(OneMember)]
    BY <1>1, <1>2
  <2>5. QED
    BY <1>1, <1>2, <1>5, <2>1, <2>2, <2>3, <2>4 DEF Filed
<1>7. BufferFrames \in Nat \ {0}
  BY ArchiveAssumption
<1>8. Cardinality(lost) = 0 /\ kills * (BufferFrames + faults) = 0
  BY <1>1, <1>7, FS_EmptySet
<1>9. Tidy(files, open)
  BY <1>2, <1>3 DEF Tidy
<1>10. Accounted(files, buffer, arrived, lost)
  BY <1>1 DEF Accounted
<1>11. QED
  BY <1>1, <1>2, <1>6, <1>7, <1>8, <1>9, <1>10 DEF ArchiveInv

\* A frame that arrives, in the buffer.
LEMMA WriteKeeps == ArchiveInv /\ Write => ArchiveInv'
<1> SUFFICES ASSUME ArchiveInv, Write PROVE ArchiveInv'
  OBVIOUS
<1> DEFINE n == arrived + 1
           b == Append(buffer, n)
<1>1. /\ arrived < Len(HourOf) /\ arrived' = n /\ buffer' = b /\ ~due
      /\ due' = (Len(buffer) + 1 >= BufferFrames)
      /\ UNCHANGED <<open, files, kills, faults, lost>>
  BY DEF Write
<1>2. /\ Filed(files, open, buffer, arrived, faults) /\ Accounted(files, buffer, arrived, lost)
      /\ Len(buffer) < BufferFrames + faults /\ kills \in Nat /\ lost \in SUBSET (1..arrived)
      /\ Cardinality(lost) <= kills * (BufferFrames + faults)
      /\ kills = 0 /\ faults = 0 => Tidy(files, open)
  BY <1>1 DEF ArchiveInv
<1>3. /\ Filed(files, open, b, n, faults)
      /\ \A y : Holds(b, y) <=> Holds(buffer, y) \/ y = n
  <2>1. Filed(files, open, buffer, arrived, faults) /\ arrived < Len(HourOf)
    BY <1>1, <1>2
  <2>2. QED
    BY ONLY <2>1, ArrivedKeeps
<1>4. arrived \in Nat /\ n \in Nat /\ \A x \in 1..n : x \in 1..arrived \/ x = n
  BY <1>2, HourTypes DEF Filed
<1>5. Accounted(files, b, n, lost)
  BY <1>2, <1>3, <1>4 DEF Accounted
<1>6. lost \in SUBSET (1..n) /\ BufferFrames \in Nat \ {0} /\ faults \in Nat
  BY <1>2, <1>4, ArchiveAssumption DEF Filed
<1>7. Len(buffer) \in Nat /\ Len(b) = Len(buffer) + 1
  <2>1. buffer \in Seq(1..arrived)
    BY <1>2 DEF Filed
  <2>2. b \in Seq(1..n) /\ arrived \in Nat
    BY <1>3, <1>4 DEF Filed
  <2>3. buffer \in Seq(1..n) /\ n \in 1..n
    BY <1>4, <2>1
  <2>4. QED
    BY <2>1, <2>3, LenProperties, AppendProperties
<1> HIDE DEF b, n
<1>8. Len(buffer') <= BufferFrames + faults' /\ (due' \/ Len(buffer') < BufferFrames + faults')
  <2>1. due' <=> Len(buffer) + 1 >= BufferFrames
    BY <1>1
  <2>2. Len(buffer') = Len(buffer) + 1 /\ faults' = faults
    BY <1>1, <1>7
  <2>3. Len(buffer) + 1 >= BufferFrames \/ Len(buffer) + 1 < BufferFrames + faults
    BY <1>6, <1>7
  <2>4. Len(buffer) + 1 <= BufferFrames + faults
    BY <1>2, <1>6, <1>7
  <2>5. QED
    BY ONLY <2>1, <2>2, <2>3, <2>4
<1>9. Filed(files', open', buffer', arrived', faults') /\ Accounted(files', buffer', arrived', lost')
  BY <1>1, <1>3, <1>5
<1>10. kills' = 0 /\ faults' = 0 => Tidy(files', open')
  BY <1>1, <1>2
<1>11. /\ kills' \in Nat /\ lost' \in SUBSET (1..arrived')
       /\ Cardinality(lost') <= kills' * (BufferFrames + faults')
  BY <1>1, <1>2, <1>6
<1>12. QED
  BY <1>8, <1>9, <1>10, <1>11 DEF ArchiveInv

\* What a file gains it keeps, so no frame is unaccounted for.
LEMMA GainsAccounts ==
    ASSUME NEW g, NEW hour \in Hours, NEW r, Gains(g, files, hour, r), NEW c,
           Accounted(files, buffer, arrived, lost),
           \A x : Holds(buffer, x) => Holds(r, x) \/ Holds(c, x)
    PROVE  Accounted(g, c, arrived, lost)
BY DEF Accounted, Gains

\* The buffer flushed, and every frame still accounted for.
LEMMA FlushAccounts ==
    ASSUME ArchiveInv, buffer # <<>>
    PROVE  /\ Filed(Flushed, BufferHour, <<>>, arrived, faults)
           /\ Accounted(Flushed, <<>>, arrived, lost)
           /\ kills = 0 /\ faults = 0 => Tidy(Flushed, BufferHour)
<1>1. /\ Filed(files, open, buffer, arrived, faults) /\ Accounted(files, buffer, arrived, lost)
      /\ kills = 0 /\ faults = 0 => Tidy(files, open)
  BY DEF ArchiveInv
<1>2. /\ Filed(Flushed, BufferHour, <<>>, arrived, faults)
      /\ Gains(Flushed, files, BufferHour, buffer)
      /\ Tidy(files, open) => Tidy(Flushed, BufferHour)
  BY <1>1, FlushKeeps
<1>3. BufferHour \in Hours
  BY <1>1, NewestIsLast DEF Filed, BufferHour
<1>4. Accounted(Flushed, <<>>, arrived, lost)
  BY <1>1, <1>2, <1>3, GainsAccounts
<1>5. QED
  BY <1>1, <1>2, <1>4

\* The rest of the invariant, where neither the counts nor the losses change.
LEMMA FilesChange ==
    ASSUME ArchiveInv, buffer' = <<>>, UNCHANGED <<arrived, kills, faults, lost>>,
           Filed(files', open', <<>>, arrived, faults), Accounted(files', <<>>, arrived, lost),
           kills = 0 /\ faults = 0 => Tidy(files', open')
    PROVE  ArchiveInv'
<1>1. Len(<<>>) = 0 /\ BufferFrames \in Nat \ {0} /\ faults \in Nat
  BY EmptySeq, ArchiveAssumption DEF Filed
<1>2. Filed(files', open', buffer', arrived', faults') /\ Accounted(files', buffer', arrived', lost')
  OBVIOUS
<1>3. Len(buffer') <= BufferFrames + faults' /\ Len(buffer') < BufferFrames + faults'
  BY <1>1
<1>4. QED
  BY <1>2, <1>3 DEF ArchiveInv

LEMMA ArchiveFlushKeeps == ArchiveInv /\ Flush => ArchiveInv'
<1> SUFFICES ASSUME ArchiveInv, Flush PROVE ArchiveInv'
  OBVIOUS
<1>1. /\ buffer # <<>> /\ files' = Flushed /\ open' = BufferHour
      /\ buffer' = <<>> /\ UNCHANGED <<arrived, kills, faults, lost>>
  BY DEF Flush
<1>2. /\ Filed(files', open', <<>>, arrived, faults) /\ Accounted(files', <<>>, arrived, lost)
      /\ kills = 0 /\ faults = 0 => Tidy(files', open')
  BY <1>1, FlushAccounts
<1>3. QED
  BY <1>1, <1>2, FilesChange

LEMMA ArchiveCloseKeeps == ArchiveInv /\ Close => ArchiveInv'
<1> SUFFICES ASSUME ArchiveInv, Close PROVE ArchiveInv'
  OBVIOUS
<1>1. buffer' = <<>> /\ open' = NoHour /\ UNCHANGED <<arrived, kills, faults, lost>>
  BY DEF Close
<1>2. /\ Filed(files, open, buffer, arrived, faults) /\ Accounted(files, buffer, arrived, lost)
      /\ kills = 0 /\ faults = 0 => Tidy(files, open)
  BY DEF ArchiveInv
<1>3. PICK f, o : /\ Filed(f, o, <<>>, arrived, faults) /\ Accounted(f, <<>>, arrived, lost)
                  /\ kills = 0 /\ faults = 0 => Tidy(f, o)
                  /\ files' = Closed(f, o)
  <2>1. CASE buffer = <<>>
    <3>1. files' = Closed(files, open)
      BY <2>1 DEF Close
    <3>2. QED
      BY <1>2, <2>1, <3>1
  <2>2. CASE buffer # <<>>
    <3>1. files' = Closed(Flushed, BufferHour)
      BY <2>2 DEF Close
    <3>2. /\ Filed(Flushed, BufferHour, <<>>, arrived, faults)
          /\ Accounted(Flushed, <<>>, arrived, lost)
          /\ kills = 0 /\ faults = 0 => Tidy(Flushed, BufferHour)
      BY <2>2, FlushAccounts
    <3>3. QED
      BY ONLY <3>1, <3>2
  <2>3. QED
    BY <2>1, <2>2
<1>4. /\ Filed(Closed(f, o), NoHour, <<>>, arrived, faults)
      /\ \A h \in Hours : \A x : InFile(Closed(f, o), h, x) <=> InFile(f, h, x)
      /\ Tidy(f, o) => Tidy(Closed(f, o), NoHour)
  BY <1>3, ClosedKeeps
<1>5. /\ Filed(files', open', <<>>, arrived, faults) /\ Accounted(files', <<>>, arrived, lost)
      /\ kills = 0 /\ faults = 0 => Tidy(files', open')
  BY <1>1, <1>3, <1>4 DEF Accounted
<1>6. QED
  BY <1>1, <1>5, FilesChange

\* No file open: the next flush opens one.
LEMMA UnopenedKeeps ==
    ASSUME NEW f, NEW o, NEW b, NEW n, NEW z, Filed(f, o, b, n, z)
    PROVE  Filed(f, NoHour, b, n, z)
BY DEF Filed

\* A flush that fails: the buffer stays, with none, some or all of it in the file.
LEMMA FlushFailsKeeps == ArchiveInv /\ FlushFails => ArchiveInv'
<1> SUFFICES ASSUME ArchiveInv, FlushFails PROVE ArchiveInv'
  OBVIOUS
<1> DEFINE z == faults + 1
<1>1. /\ buffer # <<>> /\ faults' = z /\ UNCHANGED <<arrived, buffer, kills, lost>>
      /\ \/ open' = NoHour /\ files' \in {files, Closed(files, open)}
         \/ /\ open' = BufferHour
            /\ \E m \in 0..Len(buffer) : files' = Put(SubSeq(buffer, 1, m), BufferHour)
  BY DEF FlushFails
<1>2. /\ Filed(files, open, buffer, arrived, faults) /\ Accounted(files, buffer, arrived, lost)
      /\ Len(buffer) <= BufferFrames + faults /\ kills \in Nat /\ lost \in SUBSET (1..arrived)
      /\ Cardinality(lost) <= kills * (BufferFrames + faults)
  BY DEF ArchiveInv
<1>3. /\ faults \in Nat /\ BufferFrames \in Nat /\ z \in Nat /\ z > 0
      /\ arrived \in 0..Len(HourOf) /\ buffer \in Seq(1..arrived) /\ Rises(buffer)
  BY <1>2, ArchiveAssumption DEF Filed
<1>4. Len(buffer) \in Nat /\ buffer \in Seq(Int)
  <2>1. 1..arrived \subseteq Int
    BY <1>3, HourTypes
  <2>2. QED
    BY <1>3, <2>1, LenProperties
<1>5. Len(buffer') <= BufferFrames + faults' /\ Len(buffer') < BufferFrames + faults' /\ faults' # 0
  BY <1>1, <1>2, <1>3, <1>4
<1>6. Cardinality(lost) <= kills * (BufferFrames + z)
  <2>1. IsFiniteSet(lost)
    <3>1. IsFiniteSet(1..arrived)
      BY <1>3, HourTypes, FS_Interval
    <3>2. QED
      BY <1>2, <3>1, FS_Subset
  <2>2. Cardinality(lost) \in Nat
    BY <2>1, FS_CardinalityType
  <2>3. PICK most \in Nat : most = BufferFrames + faults
    BY <1>3
  <2>4. kills * (most + 1) = kills * most + kills /\ kills * most \in Nat
    BY ONLY <1>2, <2>3, Z3
  <2>5. most + 1 = BufferFrames + z
    BY <1>3, <2>3
  <2>6. QED
    BY <1>2, <2>2, <2>3, <2>4, <2>5
<1> HIDE DEF z
<1>7. Filed(files, open, buffer, arrived, z)
  BY <1>2, LooserKeeps DEF z
<1>8. Filed(files', open', buffer, arrived, z) /\ Accounted(files', buffer, arrived, lost)
  <2>1. CASE open' = NoHour /\ files' = files
    BY <1>2, <1>7, <2>1, UnopenedKeeps
  <2>2. CASE open' = NoHour /\ files' = Closed(files, open)
    <3>1. /\ Filed(Closed(files, open), NoHour, buffer, arrived, z)
          /\ \A h \in Hours : \A x : InFile(Closed(files, open), h, x) <=> InFile(files, h, x)
      BY <1>7, ClosedKeeps
    <3>2. QED
      BY <1>2, <2>2, <3>1 DEF Accounted
  <2>3. ASSUME open' = BufferHour, NEW m \in 0..Len(buffer), files' = Put(SubSeq(buffer, 1, m), BufferHour)
        PROVE  Filed(files', open', buffer, arrived, z) /\ Accounted(files', buffer, arrived, lost)
    <3>1. PICK r : r = SubSeq(buffer, 1, m)
      OBVIOUS
    <3>2. /\ r \in Seq(Int) /\ Ascends(r, z)
          /\ \A x : Holds(r, x) => Holds(buffer, x)
          /\ \A y : Holds(buffer, y) => Fits(r, y, z)
      BY <1>3, <1>4, <3>1, RisingFits
    <3>3. files' = Put(r, BufferHour) /\ Leaves(buffer, r, buffer, z)
      BY <2>3, <3>1, <3>2 DEF Leaves
    <3>4. Filed(files', BufferHour, buffer, arrived, z) /\ Gains(files', files, BufferHour, r)
      BY ONLY <1>1, <1>7, <3>3, PutKeeps
    <3>5. BufferHour \in Hours
      BY <1>1, <1>7, NewestIsLast DEF Filed, BufferHour
    <3>6. Accounted(files', buffer, arrived, lost)
      BY <1>2, <3>4, <3>5, GainsAccounts
    <3>7. QED
      BY <2>3, <3>4, <3>6
  <2>4. QED
    BY <1>1, <2>1, <2>2, <2>3
<1>9. Filed(files', open', buffer', arrived', faults') /\ Accounted(files', buffer', arrived', lost')
  BY <1>1, <1>8
<1>10. /\ kills' \in Nat /\ lost' \in SUBSET (1..arrived')
       /\ Cardinality(lost') <= kills' * (BufferFrames + faults')
  BY <1>1, <1>2, <1>6
<1>11. QED
  BY <1>5, <1>9, <1>10 DEF ArchiveInv

LEMMA ArchiveKillKeeps == ArchiveInv /\ KillArchive => ArchiveInv'
<1> SUFFICES ASSUME ArchiveInv, KillArchive PROVE ArchiveInv'
  OBVIOUS
<1> DEFINE died == Range(buffer)
           most == BufferFrames + faults
           n == Len(buffer)
<1>1. /\ kills' = kills + 1 /\ lost' = lost \cup died /\ buffer' = <<>> /\ open' = NoHour
      /\ arrived' = arrived /\ files' = files /\ faults' = faults
  BY DEF KillArchive
<1>2. /\ Filed(files, open, buffer, arrived, faults) /\ Accounted(files, buffer, arrived, lost)
      /\ n <= most /\ kills \in Nat /\ lost \in SUBSET (1..arrived)
      /\ Cardinality(lost) <= kills * most
  BY DEF ArchiveInv
<1>3. buffer \in Seq(1..arrived) /\ arrived \in Nat /\ faults \in Nat
  BY <1>2, HourTypes DEF Filed
<1>4. /\ n \in Nat /\ DOMAIN buffer = 1..n /\ \A i \in 1..n : buffer[i] \in 1..arrived
      /\ BufferFrames \in Nat \ {0} /\ most \in Nat /\ n <= most
  BY <1>2, <1>3, LenProperties, ElementOfSeq, ArchiveAssumption
<1>5. IsFiniteSet(lost) /\ IsFiniteSet(died) /\ Cardinality(died) <= n /\ died \in SUBSET (1..arrived)
  <2>1. IsFiniteSet(1..arrived) /\ IsFiniteSet(1..n) /\ Cardinality(1..n) = n
    <3>1. 0 \in Int /\ 1 \in Int /\ n \in Int /\ arrived \in Int
      BY <1>3, <1>4
    <3>2. IsFiniteSet(1..n) /\ Cardinality(1..n) = IF 1 > n THEN 0 ELSE n - 1 + 1
      BY <3>1, FS_Interval
    <3>3. IsFiniteSet(1..arrived)
      BY <3>1, FS_Interval
    <3>4. QED
      BY <1>4, <3>2, <3>3
  <2>2. died = {buffer[i] : i \in 1..n}
    BY <1>4 DEF Range
  <2>3. buffer \in Surjection(1..n, died)
    <3>1. buffer \in [1..n -> died]
      <4>1. buffer \in [1..n -> 1..arrived]
        BY <1>3, LenProperties
      <4>2. QED
        BY <2>2, <4>1
    <3>2. QED
      BY <2>2, <3>1 DEF Surjection
  <2>4. IsFiniteSet(lost)
    BY <1>2, <2>1, FS_Subset
  <2> HIDE DEF died
  <2>5. IsFiniteSet(died) /\ Cardinality(died) <= n
    BY <2>1, <2>3, FS_Surjection
  <2>6. QED
    BY <1>4, <2>2, <2>4, <2>5
<1> HIDE DEF died, most, n
<1>6. Cardinality(lost \cup died) <= (kills + 1) * most
  <2>1. /\ Cardinality(lost \cup died) = Cardinality(lost) + Cardinality(died) - Cardinality(lost \cap died)
        /\ IsFiniteSet(lost \cup died)
    BY <1>5, FS_Union
  <2>2. IsFiniteSet(lost \cap died)
    BY <1>5, FS_Intersection
  <2>3. /\ Cardinality(lost) \in Nat /\ Cardinality(died) \in Nat
        /\ Cardinality(lost \cap died) \in Nat /\ Cardinality(lost \cup died) \in Nat
    BY <1>5, <2>1, <2>2, FS_CardinalityType
  <2>4. (kills + 1) * most = kills * most + most /\ kills * most \in Nat
    BY <1>2, <1>4, Z3
  <2>5. QED
    BY <1>2, <1>4, <1>5, <2>1, <2>3, <2>4
<1>7. Filed(files', open', buffer', arrived', faults')
  BY <1>1, <1>2, EmptiedKeeps
<1>8. Accounted(files', buffer', arrived', lost')
  <2>1. \A x : Holds(buffer, x) => x \in died
    BY RangeHolds DEF died
  <2>2. Accounted(files, <<>>, arrived, lost \cup died)
    BY <1>2, <2>1 DEF Accounted
  <2>3. QED
    BY <1>1, <2>2
<1>9. /\ Len(buffer') < BufferFrames + faults' /\ Len(buffer') <= BufferFrames + faults'
      /\ kills' \in Nat /\ kills' # 0
  BY <1>1, <1>2, <1>3, <1>4, EmptySeq
<1>10. lost' \in SUBSET (1..arrived')
  BY <1>1, <1>2, <1>5
<1>11. Cardinality(lost') <= kills' * (BufferFrames + faults')
  BY <1>1, <1>6 DEF most
<1>12. QED
  BY <1>7, <1>8, <1>9, <1>10, <1>11 DEF ArchiveInv

LEMMA ArchiveSteps == ArchiveInv /\ [ArchiveNext]_archiveVars => ArchiveInv'
<1> SUFFICES ASSUME ArchiveInv, [ArchiveNext]_archiveVars PROVE ArchiveInv'
  OBVIOUS
<1>1. CASE UNCHANGED archiveVars
  BY <1>1 DEF archiveVars, ArchiveInv, Filed, FileHolds, InFile, Accounted, Tidy
<1>2. CASE ArchiveNext
  BY <1>2, WriteKeeps, ArchiveFlushKeeps, FlushFailsKeeps, ArchiveCloseKeeps, ArchiveKillKeeps
  DEF ArchiveNext
<1>3. QED
  BY <1>1, <1>2

-----------------------------------------------------------------------------
\* The files of hours S in the order of their names: every one, the earlier first.
HourAt(S, i) == CHOOSE h \in S : Cardinality({g \in S : g < h}) = i - 1

LEMMA HoursInOrder ==
    ASSUME NEW S, S \in SUBSET Hours
    PROVE  /\ Cardinality(S) \in Nat
           /\ \A i \in 1..Cardinality(S) : HourAt(S, i) \in S
           /\ \A i, j \in 1..Cardinality(S) : i < j => HourAt(S, i) < HourAt(S, j)
           /\ \A h \in S : \E i \in 1..Cardinality(S) : HourAt(S, i) = h
<1> DEFINE R == {w \in S \X S : w[1] < w[2]}
           n == Cardinality(S)
           before(h) == Cardinality({g \in S : g < h})
<1>1. S \in SUBSET Nat
  <2>1. Hours \in SUBSET Nat
    BY HourTypes
  <2>2. QED
    BY <2>1
<1>2. IsFiniteSet(S)
  <2>1. Len(HourOf) \in Nat /\ DOMAIN HourOf = 1..Len(HourOf)
    BY HourTypes
  <2>2. IsFiniteSet(1..Len(HourOf))
    BY <2>1, FS_Interval
  <2>3. HourOf \in Surjection(1..Len(HourOf), Hours)
    <3>1. Hours = {HourOf[x] : x \in 1..Len(HourOf)}
      BY <2>1 DEF Hours, Range
    <3>2. HourOf \in [1..Len(HourOf) -> Hours]
      <4>1. HourOf \in [1..Len(HourOf) -> Nat \ {0}]
        BY ArchiveAssumption, LenProperties
      <4>2. QED
        BY <3>1, <4>1
    <3>3. QED
      BY <3>1, <3>2 DEF Surjection
  <2>4. IsFiniteSet(Hours)
    BY <2>2, <2>3, FS_Surjection
  <2>5. QED
    BY <2>4, FS_Subset
<1>3. \A g, h \in S : <<g, h>> \in R <=> g < h
  OBVIOUS
<1> HIDE DEF R
<1>4. StrictOrder(S, R)
  <2>1. \A x, y, z \in Nat : ~(x < x) /\ (x < y /\ y < z => x < z) /\ (x = y \/ x < y \/ y < x)
    OBVIOUS
  <2>2. QED
    BY <1>1, <1>3, <2>1 DEF StrictOrder
<1>5. \A h \in S : Place(S, R)[h] = before(h)
  <2> SUFFICES ASSUME NEW h \in S PROVE Place(S, R)[h] = before(h)
    OBVIOUS
  <2>1. Place(S, R)[h] = Cardinality({g \in S : <<g, h>> \in R})
    BY DEF Place
  <2>2. {g \in S : <<g, h>> \in R} = {g \in S : g < h}
    BY <1>3
  <2>3. QED
    BY <2>1, <2>2
<1>6. /\ n \in Nat
      /\ \A h \in S : before(h) \in 0..(n - 1)
      /\ \A g, h \in S : before(g) = before(h) => g = h
      /\ \A k \in 0..(n - 1) : \E h \in S : before(h) = k
  <2>1. /\ n \in Nat
        /\ Place(S, R) \in [S -> 0..(n - 1)]
        /\ \A s, t \in S : Place(S, R)[s] = Place(S, R)[t] => s = t
        /\ \A k \in 0..(n - 1) : \E s \in S : Place(S, R)[s] = k
    BY <1>2, <1>4, PlacesTaken
  <2> HIDE DEF before, n
  <2>2. QED
    BY <1>5, <2>1
<1>7. \A g, h \in S : g < h <=> before(g) < before(h)
  <2> SUFFICES ASSUME NEW g \in S, NEW h \in S PROVE g < h <=> before(g) < before(h)
    OBVIOUS
  <2>1. <<g, h>> \in R <=> Place(S, R)[g] < Place(S, R)[h]
    BY <1>2, <1>4, PlaceGrows
  <2> HIDE DEF before
  <2>2. QED
    BY <1>3, <1>5, <2>1
<1>8. \A i : HourAt(S, i) = CHOOSE h \in S : before(h) = i - 1
  BY DEF HourAt
<1> HIDE DEF before, n
<1>9. \A i \in 1..n : HourAt(S, i) \in S /\ before(HourAt(S, i)) = i - 1
  <2> SUFFICES ASSUME NEW i \in 1..n PROVE HourAt(S, i) \in S /\ before(HourAt(S, i)) = i - 1
    OBVIOUS
  <2>1. i - 1 \in 0..(n - 1)
    BY <1>6
  <2>2. \E h \in S : before(h) = i - 1
    BY <1>6, <2>1
  <2>3. QED
    BY <1>8, <2>2
<1>10. \A i, j \in 1..n : i < j => HourAt(S, i) < HourAt(S, j)
  BY <1>6, <1>7, <1>9
<1>11. ASSUME NEW h \in S PROVE \E i \in 1..n : HourAt(S, i) = h
  <2>1. PICK i \in 1..n : before(h) = i - 1
    <3>1. before(h) \in 0..(n - 1)
      BY <1>6
    <3>2. before(h) + 1 \in 1..n /\ before(h) = (before(h) + 1) - 1
      BY <1>6, <3>1
    <3>3. QED
      BY <3>2
  <2>2. QED
    BY <1>6, <1>9, <2>1
<1>12. QED
  BY <1>6, <1>9, <1>10, <1>11 DEF n

\* What a file reads as.
LEMMA FileReads ==
    ASSUME NEW b, NEW n, NEW z, Filed(files, open, b, n, z), NEW h \in Hours
    PROVE  /\ AllFrames(files[h]) \in Seq(Int) /\ ReadFrames(h) \in Seq(Int)
           /\ Ascends(ReadFrames(h), z)
           /\ \A y : FitsAll(FramesOf(files[h]), y, z) => Fits(ReadFrames(h), y, z)
           /\ \A x : Holds(AllFrames(files[h]), x) <=> InFile(files, h, x)
           /\ \A x : Holds(ReadFrames(h), x) <=> ~Unreadable(files[h]) /\ InFile(files, h, x)
<1> DEFINE seqs == FramesOf(files[h])
<1>1. files[h] \in Seq(OneMember) /\ FileHolds(files, h, b, n, z)
  BY DEF Filed
<1>2. seqs \in Seq(Seq(Int))
  <2>1. PICK l \in Nat : l = Len(files[h]) /\ DOMAIN files[h] = 1..l
    BY <1>1, LenProperties
  <2>2. \A i \in 1..l : files[h][i].frames \in Seq(Int)
    <3>1. \A i \in 1..l : files[h][i] \in OneMember
      BY <1>1, <2>1, ElementOfSeq
    <3>2. QED
      BY <3>1 DEF OneMember
  <2>3. seqs = [i \in 1..l |-> files[h][i].frames]
    BY <2>1 DEF FramesOf
  <2> HIDE DEF seqs
  <2>4. seqs \in [1..l -> Seq(Int)]
    BY <2>2, <2>3
  <2>5. QED
    BY <2>4, SeqDef
<1>3. AllFrames(files[h]) = FlattenSeq(seqs)
  BY DEF AllFrames, FramesOf
<1>4. AscendsWhole(seqs, z)
  BY <1>1 DEF FileHolds
<1> HIDE DEF seqs
<1>5. /\ FlattenSeq(seqs) \in Seq(Int) /\ Ascends(FlattenSeq(seqs), z)
      /\ \A y : FitsAll(seqs, y, z) => Fits(FlattenSeq(seqs), y, z)
      /\ \A x : Holds(FlattenSeq(seqs), x) <=> Among(seqs, x)
  BY <1>2, <1>4, FlattenIs
<1>6. /\ AllFrames(files[h]) \in Seq(Int) /\ Ascends(AllFrames(files[h]), z)
      /\ \A y : FitsAll(FramesOf(files[h]), y, z) => Fits(AllFrames(files[h]), y, z)
      /\ \A x : Holds(AllFrames(files[h]), x) <=> InFile(files, h, x)
  BY <1>3, <1>5 DEF InFile, seqs
<1>7. CASE Unreadable(files[h])
  <2>1. ReadFrames(h) = <<>>
    BY <1>7 DEF ReadFrames
  <2>2. DOMAIN <<>> = {} /\ <<>> \in Seq(Int)
    BY EmptySeq
  <2>3. Ascends(<<>>, z) /\ \A x : ~Holds(<<>>, x) /\ Fits(<<>>, x, z)
    BY <2>2 DEF Ascends, Holds, Fits
  <2>4. QED
    BY <1>6, <1>7, <2>1, <2>2, <2>3
<1>8. CASE ~Unreadable(files[h])
  <2>1. ReadFrames(h) = AllFrames(files[h])
    BY <1>8 DEF ReadFrames
  <2>2. QED
    BY <1>6, <1>8, <2>1
<1>9. QED
  BY <1>7, <1>8

\* What the replay of a day reads: the files that can be read, in the order of arrival.
LEMMA ReplayReads ==
    ASSUME NEW b, NEW n, NEW z, Filed(files, open, b, n, z), NEW day
    PROVE  /\ Ascends(Replayed(day), z)
           /\ \A x : Holds(Replayed(day), x) <=>
                       \E h \in HoursOf(day) : ~Unreadable(files[h]) /\ InFile(files, h, x)
<1> DEFINE S == HoursOf(day)
           m == Cardinality(S)
           seqs == [i \in 1..m |-> ReadFrames(HourAt(S, i))]
<1>1. Replayed(day) = FlattenSeq(seqs)
  BY DEF Replayed, HourAt
<1>2. S \in SUBSET Hours
  BY DEF HoursOf
<1> HIDE DEF S
<1>3. /\ m \in Nat /\ \A i \in 1..m : HourAt(S, i) \in S
      /\ \A i, j \in 1..m : i < j => HourAt(S, i) < HourAt(S, j)
      /\ \A h \in S : \E i \in 1..m : HourAt(S, i) = h
  BY <1>2, HoursInOrder
<1> HIDE DEF m
<1>4. /\ \A h \in Hours : ReadFrames(h) \in Seq(Int) /\ Ascends(ReadFrames(h), z)
      /\ \A h \in Hours : \A y : FitsAll(FramesOf(files[h]), y, z) => Fits(ReadFrames(h), y, z)
      /\ \A h \in Hours : \A x :
           Holds(ReadFrames(h), x) <=> ~Unreadable(files[h]) /\ InFile(files, h, x)
  BY FileReads
<1>5. DOMAIN seqs = 1..m /\ \A i \in 1..m : seqs[i] = ReadFrames(HourAt(S, i))
  OBVIOUS
<1>6. \A i \in 1..m : HourAt(S, i) \in Hours
  BY <1>2, <1>3
<1>7. seqs \in Seq(Seq(Int))
  <2>1. seqs \in [1..m -> Seq(Int)]
    BY <1>4, <1>6
  <2> HIDE DEF seqs
  <2>2. QED
    BY <1>3, <2>1, SeqDef
<1> HIDE DEF seqs
<1>8. AscendsWhole(seqs, z)
  <2>1. \A i \in DOMAIN seqs : Ascends(seqs[i], z)
    BY <1>4, <1>5, <1>6
  <2>2. ASSUME NEW i \in 1..m, NEW j \in 1..m, i < j, NEW y, Holds(seqs[j], y)
        PROVE  Fits(seqs[i], y, z)
    <3>1. HourAt(S, i) < HourAt(S, j) /\ HourAt(S, i) \in Hours /\ HourAt(S, j) \in Hours
      BY <1>3, <1>6, <2>2
    <3>2. InFile(files, HourAt(S, j), y)
      BY <1>4, <1>5, <2>2, <3>1
    <3>3. FitsAll(FramesOf(files[HourAt(S, i)]), y, z)
      BY <3>1, <3>2 DEF Filed
    <3>4. QED
      BY <1>4, <1>5, <3>1, <3>3
  <2>3. QED
    BY <1>5, <2>1, <2>2 DEF AscendsWhole
<1>9. /\ Ascends(FlattenSeq(seqs), z)
      /\ \A x : Holds(FlattenSeq(seqs), x) <=> Among(seqs, x)
  BY <1>7, <1>8, FlattenIs
<1>10. \A x : Among(seqs, x) <=> \E i \in 1..m : Holds(ReadFrames(HourAt(S, i)), x)
  BY <1>5 DEF Among, Holds
<1>11. \A x : Among(seqs, x) <=> \E h \in S : ~Unreadable(files[h]) /\ InFile(files, h, x)
  BY <1>3, <1>4, <1>6, <1>10
<1>12. QED
  BY <1>1, <1>9, <1>11 DEF S

LEMMA ArchiveIsWhole == ArchiveInv => ReplayIsWhatArrived
<1> SUFFICES ASSUME ArchiveInv PROVE ReplayIsWhatArrived
  OBVIOUS
<1>1. /\ Filed(files, open, buffer, arrived, faults) /\ Accounted(files, buffer, arrived, lost)
      /\ lost \in SUBSET (1..arrived)
      /\ Cardinality(lost) <= kills * (BufferFrames + faults)
      /\ kills = 0 /\ faults = 0 => Tidy(files, open)
  BY DEF ArchiveInv
<1>2. \A day : /\ Ascends(Replayed(day), faults)
               /\ \A x : Holds(Replayed(day), x) <=>
                    \E h \in HoursOf(day) : ~Unreadable(files[h]) /\ InFile(files, h, x)
  BY <1>1, ReplayReads
<1>3. /\ \A h \in Hours : \A x : Holds(AllFrames(files[h]), x) <=> InFile(files, h, x)
      /\ \A h \in Hours : \A x :
           Holds(ReadFrames(h), x) <=> ~Unreadable(files[h]) /\ InFile(files, h, x)
  BY <1>1, FileReads
<1>4. \A h \in Hours : \A x : InFile(files, h, x) => x \in 1..arrived /\ HourOf[x] <= h
  <2>1. \A h \in Hours : FileHolds(files, h, buffer, arrived, faults)
    BY <1>1 DEF Filed
  <2>2. QED
    BY <2>1 DEF FileHolds
<1>5. \A day : InOrder(Replayed(day))
  BY <1>2 DEF InOrder, Ascends
<1>6. \A h \in Hours : \A x \in Range(ReadFrames(h)) : HourOf[x] <= h
  BY <1>3, <1>4, RangeHolds
<1>7. \A x : x \in CutOff <=> \E h \in Hours : Unreadable(files[h]) /\ InFile(files, h, x)
  <2>1. \A h \in Hours : \A x : x \in Range(AllFrames(files[h])) <=> InFile(files, h, x)
    BY <1>3, RangeHolds
  <2>2. QED
    BY <2>1 DEF CutOff
<1>8. \A x : Holds(buffer, x) => x \in 1..arrived
  <2>1. buffer \in Seq(1..arrived)
    BY <1>1 DEF Filed
  <2>2. QED
    <3>1. DOMAIN buffer = 1..Len(buffer) /\ \A i \in 1..Len(buffer) : buffer[i] \in 1..arrived
      BY <2>1, LenProperties, ElementOfSeq
    <3>2. QED
      BY <3>1 DEF Holds
<1>9. \A x : x \in ReadBack <=> \E h \in Hours : ~Unreadable(files[h]) /\ InFile(files, h, x)
  <2>1. \A h \in Hours : h \in HoursOf(DayOf[h])
    BY DEF HoursOf
  <2>2. \A day : HoursOf(day) \in SUBSET Hours
    BY DEF HoursOf
  <2>3. \A x, day : x \in Range(Replayed(day)) <=>
                       \E h \in HoursOf(day) : ~Unreadable(files[h]) /\ InFile(files, h, x)
    BY <1>2, RangeHolds
  <2>4. \A x : x \in ReadBack <=> \E h \in Hours : x \in Range(Replayed(DayOf[h]))
    BY DEF ReadBack
  <2>5. QED
    BY <2>1, <2>2, <2>3, <2>4
<1>10. \A x : x \in Range(buffer) <=> Holds(buffer, x)
  BY RangeHolds
<1>11. \A x : x \in 1..arrived <=>
                x \in ReadBack \/ x \in Range(buffer) \/ x \in lost \/ x \in CutOff
  <2>1. ASSUME NEW x \in 1..arrived
        PROVE  x \in ReadBack \/ x \in Range(buffer) \/ x \in lost \/ x \in CutOff
    <3>1. (\E h \in Hours : InFile(files, h, x)) \/ Holds(buffer, x) \/ x \in lost
      BY <1>1 DEF Accounted
    <3>2. QED
      BY <1>7, <1>9, <1>10, <3>1
  <2>2. ASSUME NEW x, x \in ReadBack \/ x \in Range(buffer) \/ x \in lost \/ x \in CutOff
        PROVE  x \in 1..arrived
    BY <1>1, <1>4, <1>7, <1>8, <1>9, <1>10, <2>2
  <2>3. QED
    BY <2>1, <2>2
<1>12. 1..arrived = ReadBack \cup Range(buffer) \cup lost \cup CutOff
  BY <1>11
<1>13. ASSUME kills = 0, faults = 0, NEW h \in Hours PROVE ~Unreadable(files[h])
  <2>1. PICK l \in Nat : l = Len(files[h]) /\ DOMAIN files[h] = 1..l
    <3>1. files[h] \in Seq(OneMember)
      BY <1>1 DEF Filed
    <3>2. QED
      BY <3>1, LenProperties
  <2>2. \A i \in 1..(l - 1) : i \in DOMAIN files[h] /\ i # l
    BY <2>1
  <2>3. Tidy(files, open)
    BY <1>1, <1>13
  <2>4. QED
    BY <2>1, <2>2, <2>3 DEF Tidy, Unreadable
<1>14. \A h \in Hours : InOrder(Replayed(DayOf[h]))
  BY <1>5
<1>15. Cardinality(lost) <= kills * (BufferFrames + faults)
  BY <1>1
<1>16. kills = 0 /\ faults = 0 => \A h \in Hours : ~Unreadable(files[h])
  BY <1>13
<1>17. QED
  BY ONLY <1>6, <1>12, <1>14, <1>15, <1>16 DEF ReplayIsWhatArrived

-----------------------------------------------------------------------------
(***************************************************************************)
(* TradeTape: the trades on the tape are the newest of all, and a trade    *)
(* that was dropped is older than any window it could be asked for in.     *)
(***************************************************************************)
Traded == [at : Stamps, signed : Signed]

TapeInv ==
    /\ all \in Seq(Traded) /\ trades \in Seq(Traded) /\ Len(trades) <= Len(all)
    /\ \A i \in 1..Len(trades) : trades[i] = all[Len(all) - Len(trades) + i]
    /\ \A i \in 1..(Len(all) - Len(trades)) : all[i].at < LastTradeAt(all) - MaxWindow

LEMMA TradedTypes ==
    ASSUME NEW s \in Seq(Traded)
    PROVE  /\ Len(s) \in Nat /\ DOMAIN s = 1..Len(s)
           /\ \A i \in 1..Len(s) : s[i] \in Traded /\ s[i].at \in Nat /\ s[i].signed \in Int
<1>1. Len(s) \in Nat /\ DOMAIN s = 1..Len(s)
  BY LenProperties
<1>2. \A i \in 1..Len(s) : s[i] \in Traded
  BY <1>1, ElementOfSeq
<1>3. \A t \in Traded : t.at \in Nat /\ t.signed \in Int
  BY TapeAssumption DEF Traded
<1>4. QED
  BY <1>1, <1>2, <1>3

LEMMA NewestTrade ==
    ASSUME NEW s \in Seq(Traded)
    PROVE  /\ LastTradeAt(s) \in Nat
           /\ \A i \in 1..Len(s) : s[i].at <= LastTradeAt(s)
           /\ s # <<>> => \E i \in 1..Len(s) : s[i].at = LastTradeAt(s)
<1>1. /\ Len(s) \in Nat /\ DOMAIN s = 1..Len(s)
      /\ \A i \in 1..Len(s) : s[i].at \in Nat
  BY TradedTypes
<1>2. CASE s = <<>>
  <2>1. LastTradeAt(s) = 0 /\ Len(s) = 0
    BY <1>2, EmptySeq DEF LastTradeAt
  <2>2. QED
    BY <1>2, <2>1
<1>3. CASE s # <<>>
  <2> DEFINE n == Len(s)
             T == {s[i].at : i \in 1..n}
             g == [i \in 1..n |-> s[i].at]
  <2>1. LastTradeAt(s) = Max(T)
    BY <1>1, <1>3 DEF LastTradeAt
  <2>2. n # 0
    BY <1>3, EmptySeq
  <2>3. IsFiniteSet(T)
    <3>1. IsFiniteSet(1..n)
      BY <1>1, FS_Interval
    <3>2. g \in Surjection(1..n, T)
      BY DEF Surjection
    <3>3. QED
      BY <3>1, <3>2, FS_Surjection
  <2>4. T \in SUBSET Int /\ T \in SUBSET Nat
    BY <1>1
  <2>5. T # {}
    <3>1. 1 \in 1..n
      BY <1>1, <2>2
    <3>2. QED
      BY <3>1
  <2>6. Max(T) \in T /\ \A x \in T : x <= Max(T)
    <3> HIDE DEF T
    <3>1. QED
      BY <2>3, <2>4, <2>5, LeastAndGreatest
  <2>7. QED
    BY <1>1, <2>1, <2>4, <2>6
<1>4. QED
  BY <1>2, <1>3

LEMMA TrimDrops ==
    ASSUME NEW s \in Seq(Traded), NEW now \in Stamps,
           NEW k \in 1..Len(s), s[k].at >= now - MaxWindow
    PROVE  \E d \in Nat :
             /\ d < Len(s) /\ Trim(s, now) \in Seq(Traded) /\ Len(Trim(s, now)) = Len(s) - d
             /\ \A i \in 1..(Len(s) - d) : Trim(s, now)[i] = s[d + i]
             /\ \A i \in 1..d : s[i].at < now - MaxWindow
<1> DEFINE n == Len(s)
           stays == {i \in DOMAIN s : s[i].at >= now - MaxWindow}
           m == Min(stays)
<1>1. n \in Nat /\ DOMAIN s = 1..n /\ \A i \in 1..n : s[i] \in Traded /\ s[i].at \in Nat
  BY TradedTypes
<1>2. now \in Nat /\ MaxWindow \in Nat
  BY TapeAssumption
<1>3. stays \in SUBSET (1..n) /\ k \in stays
  BY <1>1
<1>4. IsFiniteSet(stays) /\ stays \in SUBSET Int /\ stays # {}
  <2>1. IsFiniteSet(1..n) /\ 1..n \subseteq Int
    BY <1>1, FS_Interval
  <2> HIDE DEF stays, n
  <2>2. QED
    BY <1>3, <2>1, FS_Subset
<1>5. m \in stays /\ \A x \in stays : m <= x
  <2> HIDE DEF stays
  <2>1. QED
    BY <1>4, LeastAndGreatest
<1>6. Trim(s, now) = SubSeq(s, m, n)
  BY <1>4 DEF Trim
<1>7. m \in 1..n
  BY <1>3, <1>5
<1>8. \A i \in 1..n : i < m => s[i].at < now - MaxWindow
  <2> SUFFICES ASSUME NEW i \in 1..n, i < m PROVE s[i].at < now - MaxWindow
    OBVIOUS
  <2>1. i \notin stays
    <3>1. i \in stays => m <= i
      BY <1>5
    <3>2. i \in Int /\ m \in Int
      BY <1>1, <1>7
    <3> HIDE DEF m, stays, n
    <3>3. QED
      BY <3>1, <3>2
  <2>2. ~(s[i].at >= now - MaxWindow)
    BY <1>1, <2>1
  <2>3. QED
    BY <1>1, <1>2, <2>2
<1> HIDE DEF m, n, stays
<1>9. /\ Trim(s, now) \in Seq(Traded) /\ Len(Trim(s, now)) = n - m + 1
      /\ \A i \in 1..(n - m + 1) : Trim(s, now)[i] = s[m + i - 1]
  <2>1. \A i \in m..n : s[i] \in Traded
    BY <1>1, <1>7
  <2>2. m \in Int /\ n \in Int /\ m <= n
    BY <1>1, <1>7
  <2>3. /\ SubSeq(s, m, n) \in Seq(Traded)
        /\ Len(SubSeq(s, m, n)) = IF m <= n THEN n - m + 1 ELSE 0
        /\ \A i \in 1..(n - m + 1) : SubSeq(s, m, n)[i] = s[m + i - 1]
    BY <2>1, <2>2, SubSeqProperties
  <2>4. QED
    BY <1>6, <2>2, <2>3
<1>10. PICK d \in Nat : d = m - 1
  BY <1>1, <1>7
<1>11. n - m + 1 = n - d /\ d < n
  BY <1>1, <1>7, <1>10
<1>12. \A i \in 1..(n - d) : m + i - 1 = d + i
  BY <1>1, <1>7, <1>10
<1>13. \A i \in 1..d : i \in 1..n /\ i < m
  BY <1>1, <1>7, <1>10
<1>14. /\ d < n /\ Trim(s, now) \in Seq(Traded) /\ Len(Trim(s, now)) = n - d
       /\ \A i \in 1..(n - d) : Trim(s, now)[i] = s[d + i]
       /\ \A i \in 1..d : s[i].at < now - MaxWindow
  <2>1. \A i \in 1..(n - d) : Trim(s, now)[i] = s[d + i]
    BY <1>9, <1>11, <1>12
  <2>2. \A i \in 1..d : s[i].at < now - MaxWindow
    BY <1>8, <1>13
  <2>3. QED
    BY <1>9, <1>11, <2>1, <2>2
<1>15. QED
  BY ONLY d \in Nat, <1>14 DEF n

LEMMA BeginsEmpty == TapeInit => TapeInv
BY EmptySeq DEF TapeInit, TapeInv

LEMMA AddKeeps ==
    ASSUME TapeInv, NEW at \in Stamps, NEW signed \in Signed, Add(at, signed)
    PROVE  TapeInv'
<1> DEFINE trade == [at |-> at, signed |-> signed]
           s == Append(trades, trade)
           a == Append(all, trade)
           m == Len(trades)
           n == Len(all)
<1>1. trades' = Trim(s, at) /\ all' = a
  BY DEF Add
<1>2. trade \in Traded /\ trade.at = at /\ at \in Nat /\ MaxWindow \in Nat
  BY TapeAssumption DEF Traded
<1>3. /\ all \in Seq(Traded) /\ trades \in Seq(Traded) /\ m <= n
      /\ \A i \in 1..m : trades[i] = all[n - m + i]
      /\ \A i \in 1..(n - m) : all[i].at < LastTradeAt(all) - MaxWindow
  BY DEF TapeInv
<1>4. m \in Nat /\ n \in Nat
  BY <1>3, TradedTypes
<1> HIDE DEF trade
<1>5. /\ s \in Seq(Traded) /\ Len(s) = m + 1 /\ s[m + 1] = trade /\ \A i \in 1..m : s[i] = trades[i]
      /\ a \in Seq(Traded) /\ Len(a) = n + 1 /\ a[n + 1] = trade /\ \A i \in 1..n : a[i] = all[i]
  BY <1>2, <1>3, AppendProperties
<1> HIDE DEF s, a, m, n
<1>6. \A i \in 1..(m + 1) : s[i] = a[n - m + i]
  <2> SUFFICES ASSUME NEW i \in 1..(m + 1) PROVE s[i] = a[n - m + i]
    OBVIOUS
  <2>1. CASE i \in 1..m
    <3>1. n - m + i \in 1..n
      BY <1>3, <1>4, <2>1
    <3>2. QED
      BY <1>3, <1>5, <2>1, <3>1
  <2>2. CASE i = m + 1
    <3>1. n - m + i = n + 1
      BY <1>4, <2>2
    <3>2. QED
      BY <1>5, <2>2, <3>1
  <2>3. QED
    BY <1>4, <2>1, <2>2
<1>7. /\ LastTradeAt(a) \in Nat /\ at <= LastTradeAt(a)
      /\ LastTradeAt(all) \in Nat /\ LastTradeAt(all) <= LastTradeAt(a)
      /\ \A i \in 1..(n + 1) : a[i].at \in Nat
  <2>1. /\ LastTradeAt(a) \in Nat /\ \A i \in 1..(n + 1) : a[i].at <= LastTradeAt(a)
        /\ \A i \in 1..(n + 1) : a[i].at \in Nat
    BY <1>5, NewestTrade, TradedTypes
  <2>2. n + 1 \in 1..(n + 1) /\ \A i \in 1..n : i \in 1..(n + 1)
    BY <1>4
  <2>3. at <= LastTradeAt(a)
    BY <1>2, <1>5, <2>1, <2>2
  <2>4. CASE all = <<>>
    <3>1. LastTradeAt(all) = 0
      BY <2>4 DEF LastTradeAt
    <3>2. QED
      BY <2>1, <2>3, <3>1
  <2>5. CASE all # <<>>
    <3>1. LastTradeAt(all) \in Nat
      BY <1>3, NewestTrade
    <3>2. PICK i \in 1..n : all[i].at = LastTradeAt(all)
      BY <1>3, <2>5, NewestTrade DEF n
    <3>3. a[i].at <= LastTradeAt(a) /\ a[i] = all[i]
      BY <1>5, <2>1, <2>2
    <3>4. QED
      BY <2>1, <2>3, <3>1, <3>2, <3>3
  <2>6. QED
    BY <2>4, <2>5
<1>8. PICK d \in Nat :
        /\ d < m + 1 /\ Trim(s, at) \in Seq(Traded) /\ Len(Trim(s, at)) = m + 1 - d
        /\ \A i \in 1..(m + 1 - d) : Trim(s, at)[i] = s[d + i]
        /\ \A i \in 1..d : s[i].at < at - MaxWindow
  <2>1. m + 1 \in 1..Len(s) /\ s[m + 1].at >= at - MaxWindow
    BY <1>2, <1>4, <1>5
  <2>2. PICK d \in Nat :
          /\ d < Len(s) /\ Trim(s, at) \in Seq(Traded) /\ Len(Trim(s, at)) = Len(s) - d
          /\ \A i \in 1..(Len(s) - d) : Trim(s, at)[i] = s[d + i]
          /\ \A i \in 1..d : s[i].at < at - MaxWindow
    BY <1>5, <2>1, TrimDrops
  <2>3. Len(s) = m + 1 /\ Len(s) - d = m + 1 - d
    <3>1. Len(s) = m + 1
      BY <1>5
    <3>2. QED
      BY <1>4, <3>1
  <2>4. d < m + 1 /\ Len(Trim(s, at)) = m + 1 - d
    BY <2>2, <2>3
  <2>5. \A i \in 1..(m + 1 - d) : Trim(s, at)[i] = s[d + i]
    BY <2>2, <2>3
  <2>6. QED
    BY <2>2, <2>4, <2>5
<1> DEFINE t == Trim(s, at)
<1> HIDE DEF t
<1>9. Len(a) - Len(t) = n - m + d /\ Len(t) <= Len(a)
  BY <1>3, <1>4, <1>5, <1>8 DEF t
<1>10. \A i \in 1..Len(t) : t[i] = a[Len(a) - Len(t) + i]
  <2> SUFFICES ASSUME NEW i \in 1..Len(t) PROVE t[i] = a[Len(a) - Len(t) + i]
    OBVIOUS
  <2>1. i \in 1..(m + 1 - d) /\ t[i] = s[d + i]
    BY <1>8 DEF t
  <2>2. d + i \in 1..(m + 1) /\ n - m + (d + i) = (n - m + d) + i
    BY <1>4, <1>8, <2>1
  <2>3. QED
    BY <1>6, <1>9, <2>1, <2>2
<1>11. \A i \in 1..(n - m + d) : a[i].at < LastTradeAt(a) - MaxWindow
  <2> SUFFICES ASSUME NEW i \in 1..(n - m + d) PROVE a[i].at < LastTradeAt(a) - MaxWindow
    OBVIOUS
  <2>1. i \in 1..(n + 1) /\ a[i].at \in Nat
    BY <1>3, <1>4, <1>7, <1>8
  <2>2. CASE i <= n - m
    <3>1. i \in 1..(n - m) /\ i \in 1..n
      BY <1>3, <1>4, <2>1, <2>2
    <3>2. a[i].at < LastTradeAt(all) - MaxWindow
      BY <1>3, <1>5, <3>1
    <3>3. QED
      BY <1>2, <1>7, <2>1, <3>2
  <2>3. CASE i > n - m
    <3>1. i - (n - m) \in 1..d /\ i - (n - m) \in 1..(m + 1) /\ n - m + (i - (n - m)) = i
      BY <1>3, <1>4, <1>8, <2>1, <2>3
    <3>2. s[i - (n - m)] = a[i] /\ s[i - (n - m)].at < at - MaxWindow
      BY <1>6, <1>8, <3>1
    <3>3. QED
      BY <1>2, <1>7, <2>1, <3>2
  <2>4. QED
    BY <1>3, <1>4, <2>1, <2>2, <2>3
<1>12. t \in Seq(Traded)
  BY <1>8 DEF t
<1>13. all' = a /\ trades' = t
  BY <1>1 DEF t
<1>14. QED
  BY <1>5, <1>9, <1>10, <1>11, <1>12, <1>13 DEF TapeInv

LEMMA TapeSteps == TapeInv /\ [TapeNext]_tapeVars => TapeInv'
<1> SUFFICES ASSUME TapeInv, [TapeNext]_tapeVars PROVE TapeInv'
  OBVIOUS
<1>1. CASE UNCHANGED tapeVars
  BY <1>1 DEF tapeVars, TapeInv
<1>2. CASE Clear
  BY <1>2, EmptySeq DEF Clear, TapeInv
<1>3. CASE \E at \in Stamps, signed \in Signed : Add(at, signed)
  BY <1>3, AddKeeps
<1>4. QED
  BY <1>1, <1>2, <1>3 DEF TapeNext

\* A sum over places that are shifted, of the same terms.
ShiftedBy(d, T) == {d + i : i \in T}
Shifted(T, d, f, g) == \A i \in T : g[d + i] \in Int /\ f[i] = g[d + i]

LEMMA SumShifts ==
    ASSUME NEW T \in SUBSET Int, IsFiniteSet(T), NEW d \in Int, NEW f, NEW g,
           Shifted(T, d, f, g)
    PROVE  SumFunctionOnSet(f, T) = SumFunctionOnSet(g, ShiftedBy(d, T))
<1>0. \A i \in T : g[d + i] \in Int /\ f[i] = g[d + i]
  BY DEF Shifted
<1> DEFINE part == [i \in T |-> {d + i}]
<1>1. \A i \in T : d + i \in Int /\ part[i] = {d + i}
  OBVIOUS
<1>2. ASSUME NEW i \in T PROVE SumFunctionOnSet(g, {d + i}) = g[d + i]
  <2>1. IsFiniteSet({d + i}) /\ Whole(g, {d + i})
    BY <1>0, FS_Singleton DEF Whole
  <2>2. SumFunctionOnSet(g, {d + i}) = g[d + i] + SumFunctionOnSet(g, {d + i} \ {d + i})
    BY <2>1, SumTakes
  <2>3. {d + i} \ {d + i} = {}
    OBVIOUS
  <2>4. QED
    BY <1>0, <2>2, <2>3, SumOfNone
<1>3. \A i \in T : /\ IsFiniteSet(part[i]) /\ Whole(g, part[i])
                   /\ f[i] = SumFunctionOnSet(g, part[i])
  BY <1>0, <1>1, <1>2, FS_Singleton DEF Whole
<1>4. \A i, j \in T : i # j => part[i] \cap part[j] = {}
  BY <1>1
<1>5. UNION {part[i] : i \in T} = {d + i : i \in T}
  BY <1>1
<1> HIDE DEF part
<1>6. SumFunctionOnSet(f, T) = SumFunctionOnSet(g, UNION {part[i] : i \in T})
  <2>1. PICK S : S = T
    OBVIOUS
  <2>2. /\ IsFiniteSet(S)
        /\ \A i \in S : /\ IsFiniteSet(part[i]) /\ Whole(g, part[i])
                        /\ f[i] = SumFunctionOnSet(g, part[i])
        /\ \A i, j \in S : i # j => part[i] \cap part[j] = {}
    BY <1>3, <1>4, <2>1
  <2>3. SumFunctionOnSet(f, S) = SumFunctionOnSet(g, UNION {part[i] : i \in S})
    BY ONLY <2>2, SumOfParts
  <2>4. QED
    BY <2>1, <2>3
<1>7. QED
  BY <1>5, <1>6 DEF ShiftedBy

LEMMA TapeIsWhole == TapeInv => WindowsAreWhole
<1> SUFFICES ASSUME TapeInv PROVE WindowsAreWhole
  OBVIOUS
<1> DEFINE m == Len(trades)
           n == Len(all)
           d == n - m
<1>1. /\ all \in Seq(Traded) /\ trades \in Seq(Traded) /\ m <= n
      /\ \A i \in 1..m : trades[i] = all[d + i]
      /\ \A i \in 1..d : all[i].at < LastTradeAt(all) - MaxWindow
  BY DEF TapeInv
<1>2. /\ m \in Nat /\ DOMAIN trades = 1..m
      /\ n \in Nat /\ DOMAIN all = 1..n
      /\ \A i \in 1..n : all[i].at \in Nat /\ all[i].signed \in Int
      /\ \A i \in 1..m : trades[i].at \in Nat /\ trades[i].signed \in Int
  BY <1>1, TradedTypes
<1>3. d \in Nat /\ LastTradeAt(all) \in Nat /\ MaxWindow \in Nat /\ Stamps \in SUBSET Nat
  BY <1>1, <1>2, NewestTrade, TapeAssumption
<1>4. \A i \in 1..m : d + i \in 1..n
  BY <1>1, <1>2
<1>5. \A j \in 1..n : j > d => j - d \in 1..m /\ d + (j - d) = j
  BY <1>1, <1>2
<1> HIDE DEF m, n, d
<1> SUFFICES ASSUME NEW w \in 1..MaxWindow, NEW now \in Stamps,
                    LastTradeAt(all) - MaxWindow <= now - w
             PROVE  /\ {i \in DOMAIN all : all[i].at \in (now - w + 1)..now}
                         = {d + i : i \in Window(trades, w, now)}
                    /\ \A i \in Window(trades, w, now) : trades[i] = all[d + i]
                    /\ Cvd(trades, w, now) \in -Volume(all, w, now)..Volume(all, w, now)
  BY DEF WindowsAreWhole, d, m, n
<1> DEFINE W == Window(trades, w, now)
           A == Window(all, w, now)
           f == [i \in DOMAIN trades |-> trades[i].signed]
           g == [i \in DOMAIN all |-> all[i].signed]
           v == [i \in DOMAIN all |-> AbsSize(all[i])]
<1>6. now \in Nat /\ w \in Nat
  BY <1>3
<1>7. /\ W = {i \in 1..m : now - w < trades[i].at /\ trades[i].at <= now}
      /\ A = {i \in 1..n : now - w < all[i].at /\ all[i].at <= now}
  BY <1>2 DEF Window
<1>8. {i \in DOMAIN all : all[i].at \in (now - w + 1)..now} = A
  <2>1. \A i \in 1..n : all[i].at \in (now - w + 1)..now <=> now - w < all[i].at /\ all[i].at <= now
    BY <1>2, <1>6
  <2>2. QED
    BY <1>2, <1>7, <2>1
<1> HIDE DEF W, A
<1>9. A = {d + i : i \in W}
  <2>1. ASSUME NEW j \in A PROVE \E i \in W : j = d + i
    <3>1. j \in 1..n /\ now - w < all[j].at /\ all[j].at <= now
      BY <1>7
    <3>2. j > d
      <4>1. ~(j \in 1..d)
        BY <1>1, <1>2, <1>3, <1>6, <3>1
      <4>2. QED
        BY <1>3, <3>1, <4>1
    <3>3. j - d \in 1..m /\ d + (j - d) = j
      BY <1>5, <3>1, <3>2
    <3>4. j - d \in W
      BY <1>1, <1>7, <3>1, <3>3
    <3>5. QED
      BY <3>3, <3>4
  <2>2. ASSUME NEW i \in W PROVE d + i \in A
    <3>1. i \in 1..m /\ now - w < trades[i].at /\ trades[i].at <= now
      BY <1>7
    <3>2. QED
      BY <1>1, <1>4, <1>7, <3>1
  <2>3. QED
    BY <2>1, <2>2
<1>10. W \in SUBSET (1..m) /\ A \in SUBSET (1..n)
  BY <1>7
<1>11. IsFiniteSet(W) /\ IsFiniteSet(A) /\ W \in SUBSET Int
  <2>1. IsFiniteSet(1..m) /\ IsFiniteSet(1..n) /\ 1..m \subseteq Int
    BY <1>2, FS_Interval
  <2>2. QED
    BY <1>10, <2>1, FS_Subset
<1>12. Cvd(trades, w, now) = SumFunctionOnSet(f, W) /\ Volume(all, w, now) = SumFunctionOnSet(v, A)
  BY DEF Cvd, Volume, W, A
<1>13. /\ \A i \in 1..m : f[i] = trades[i].signed
       /\ \A i \in 1..n : g[i] = all[i].signed /\ v[i] = AbsSize(all[i])
  BY <1>2
<1> HIDE DEF f, g, v
<1>14. SumFunctionOnSet(f, W) = SumFunctionOnSet(g, A)
  <2>1. Shifted(W, d, f, g)
    <3>1. \A i \in W : g[d + i] \in Int /\ f[i] = g[d + i]
      BY <1>1, <1>2, <1>4, <1>10, <1>13
    <3>2. QED
      BY <3>1 DEF Shifted
  <2>2. d \in Int
    BY <1>3
  <2>3. SumFunctionOnSet(f, W) = SumFunctionOnSet(g, ShiftedBy(d, W))
    <3>1. W \in SUBSET Int /\ IsFiniteSet(W)
      BY <1>11
    <3> HIDE DEF A
    <3>2. QED
      BY ONLY <2>1, <2>2, <3>1, SumShifts
  <2>4. QED
    BY <1>9, <2>3 DEF ShiftedBy
<1>15. SumFunctionOnSet(g, A) \in -SumFunctionOnSet(v, A)..SumFunctionOnSet(v, A)
  <2>1. ASSUME NEW i \in A PROVE g[i] \in Int /\ v[i] \in Int /\ -v[i] <= g[i] /\ g[i] <= v[i]
    <3>1. g[i] = all[i].signed /\ v[i] = AbsSize(all[i]) /\ all[i].signed \in Int
      BY <1>2, <1>10, <1>13
    <3>2. QED
      BY <3>1 DEF AbsSize
  <2>2. QED
    BY <1>11, <2>1, SumWithin
<1>16. \A i \in W : trades[i] = all[d + i]
  BY <1>1, <1>10
<1>17. QED
  BY <1>8, <1>9, <1>12, <1>14, <1>15, <1>16 DEF W

\* RecordsAreWhole: whatever kills and restarts come between writes, flushes and
\* closes, and however late a trade is, the replay is what arrived less what it
\* says, and a window of the tape is one of all the trades (live/archive.py:62-170,
\* live/tape.py:50-138).
THEOREM Records == ArchiveSpec /\ TapeSpec => []RecordsAreWhole
<1>1. ArchiveInv /\ TapeInv => RecordsAreWhole
  BY ArchiveIsWhole, TapeIsWhole DEF RecordsAreWhole
<1>2. ArchiveSpec => []ArchiveInv
  BY BeginsWhole, ArchiveSteps, PTL DEF ArchiveSpec
<1>3. TapeSpec => []TapeInv
  BY BeginsEmpty, TapeSteps, PTL DEF TapeSpec
<1>4. QED
  BY <1>1, <1>2, <1>3, PTL

=============================================================================
