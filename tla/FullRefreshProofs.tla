-------------------------- MODULE FullRefreshProofs --------------------------
(***************************************************************************)
(* Proofs about FullRefresh for any number of faults, updates and other    *)
(* commands, and any choice of the steps that may fail or die.  RefreshInv *)
(* says what the recorded phase tells of the disk, what each step of the   *)
(* worker relies on, and who may be alive beside the holder of the lock.   *)
(***************************************************************************)
EXTENDS FullRefresh, TLAPS

-----------------------------------------------------------------------------
(* The processes.                                                          *)

Working == worker.at \notin {"none", "lock"}
Held == worker.at \notin {"none", "lock", "read"}

LockInv ==
    /\ lock = "scheduler" <=> sched.at # "none"
    /\ lock = "worker" <=> Working
    /\ lock = "other" <=> other # "none"

(* A worker that waits for the lock has a job and a checkpoint; the steps   *)
(* of the scheduler that rely on its absence have unloaded it.              *)
Unmanned == {"armClear", "armPlist", "launch", "cancelPlist", "cancelCheckpoint"}
Cancelling == {"check", "cancel", "cancelPlist", "cancelCheckpoint"}
SchedulerInv ==
    /\ worker.at = "lock" => job.plist /\ job.loaded
    /\ worker.at \in {"lock", "read"} => ckpt.phase # "none"
    /\ sched.at \in Unmanned => worker.at = "none"
    /\ sched.at \in {"armPlist", "cancelCheckpoint"} => ~job.plist
    /\ sched.at = "launch" => job.plist
    /\ sched.at \notin {"none", "prepare"} => ckpt.phase # "none"
    /\ sched.at \in Cancelling => ckpt.phase = "prepared"
    /\ sched.at \notin {"none", "prepare"} /\ ~sched.resumed => ckpt.phase = "prepared"
    /\ other = "change" => ckpt.phase = "none"

-----------------------------------------------------------------------------
(* The disk.                                                               *)

Installed == state = "installed" /\ config = "managed"
Suspended == state = "suspended" /\ config = "native"
PausedOnPurpose == state = "deactivated" /\ config = "native" /\ bridge = Paused
Active == Installed /\ bridge = Up
Absent == state = "none" /\ config = "native" /\ bridge = Down

(* The job is loaded only over its plist, and that only over its record.   *)
Orderly == (bridge.loaded => bridge.agent) /\ (bridge.agent => bridge.runtime)

DiskInv ==
    /\ Orderly
    /\ ckpt.phase = "none" => Active \/ PausedOnPurpose \/ Absent
    /\ ckpt.phase = "prepared" => Active \/ PausedOnPurpose
    /\ ckpt.phase = "first-quit-complete" =>
         state \in {"installed", "suspended"} \/ PausedOnPurpose
    /\ ckpt.phase \in {"suspended", "native-opened", "cache-refreshed"} =>
         Suspended /\ bridge = Down
    /\ ckpt.phase = "second-quit-complete" => state \in {"installed", "suspended"}
    /\ ckpt.phase \in {"reactivated", "completed"} => Active

-----------------------------------------------------------------------------
(* The worker.                                                             *)

First == worker.cp.phase = "first-quit-complete"
Second == worker.cp.phase = "second-quit-complete"
Stop == {"bootout", "agentOff", "runtimeOff"}
Start == {"runtimeOn", "agentOn", "bootstrap"}
Write == {"config", "state"}
CallbackSteps == Stop \cup Start \cup Write \cup
    {"suspendConfig", "confirm", "undo", "managedConfig", "verify", "dropBridge"}
Doing(goal, then, else) == worker.goal = goal /\ worker.then = then /\ worker.else = else

(* What is on disk when a phase is recorded, and when it is run.           *)
PhaseInv ==
    /\ Held => worker.cp.phase \in PhaseSet
    /\ worker.at \in {"run", "persist"} \cup CallbackSteps => ckpt = worker.cp
    /\ worker.at = "persist" =>
         /\ worker.cp.phase # "completed"
         /\ First => Suspended /\ bridge = Down
         /\ Second => Active
    /\ Held => \/ worker.mutated
               \/ worker.cp.phase = "prepared"
               \/ First /\ worker.at = "run"
    /\ worker.at = "failed" =>
         /\ worker.cp.phase # "completed"
         /\ worker.cp.phase = "prepared" =>
              /\ ckpt.phase \in {"prepared", "first-quit-complete"}
              /\ Active \/ PausedOnPurpose
    /\ worker.at \in {"unload", "plistOff"} /\ worker.cp.phase = "completed" =>
         ckpt.phase = "completed"
    /\ worker.at = "clean" => ckpt.phase = "completed"

(* Where the sequences of the callbacks stand.                             *)
SequenceInv ==
    /\ worker.at \in CallbackSteps =>
         (First \/ Second) /\ state \in {"installed", "suspended"}
    /\ worker.at \in Stop =>
         \/ First /\ worker.else = "failed" /\ worker.then = "persist" /\ Suspended
         \/ First /\ worker.else = "failed" /\ worker.then = "suspendConfig" /\ Installed
         \/ Second /\ worker.else = "failed" /\ worker.then = "failed"
    /\ worker.at \in {"agentOff", "runtimeOff"} => ~bridge.loaded
    /\ worker.at = "runtimeOff" => ~bridge.agent
    /\ worker.at \in Start =>
         \/ First /\ worker.else = "failed" /\ worker.then = "failed"
         \/ Second /\ worker.else = "failed" /\ worker.then = "managedConfig"
    /\ worker.at \in {"agentOn", "bootstrap"} => bridge.runtime
    /\ worker.at = "bootstrap" => bridge.agent
    /\ worker.at = "suspendConfig" => First /\ Installed /\ bridge = Down
    /\ worker.at \in Write =>
         \/ /\ First /\ Doing("native", "confirm", "undo") /\ bridge = Down
            /\ state = "installed"
         \/ First /\ Doing("managed", "undo", "failed")
         \/ Second /\ Doing("managed", "verify", "dropBridge") /\ bridge = Up
         \/ Second /\ Doing("native", "dropBridge", "dropBridge")
    /\ worker.at = "state" => config = worker.goal
    /\ worker.at = "confirm" => First /\ Suspended /\ bridge = Down
    /\ worker.at = "undo" => First
    /\ worker.at = "managedConfig" => Second /\ bridge = Up
    /\ worker.at = "verify" => Second /\ Active
    /\ worker.at = "dropBridge" => Second

RefreshInv == TypeOK /\ LockInv /\ SchedulerInv /\ DiskInv /\ PhaseInv /\ SequenceInv

-----------------------------------------------------------------------------
(* The phases and what follows each.                                       *)

LEMMA PhasesAre ==
  /\ Len(Phases) = 8
  /\ PhaseSet = {"prepared", "first-quit-complete", "suspended", "native-opened",
                 "cache-refreshed", "second-quit-complete", "reactivated", "completed"}
  /\ Index("prepared") = 1 /\ Index("first-quit-complete") = 2 /\ Index("suspended") = 3
  /\ Index("native-opened") = 4 /\ Index("cache-refreshed") = 5
  /\ Index("second-quit-complete") = 6 /\ Index("reactivated") = 7 /\ Index("completed") = 8
<1>1. Len(Phases) = 8
  BY DEF Phases
<1>2. PhaseSet = {"prepared", "first-quit-complete", "suspended", "native-opened",
                  "cache-refreshed", "second-quit-complete", "reactivated", "completed"}
  <2>1. \A i \in 1 .. 8 : i = 1 \/ i = 2 \/ i = 3 \/ i = 4 \/ i = 5 \/ i = 6 \/ i = 7 \/ i = 8
    OBVIOUS
  <2> QED BY <1>1, <2>1 DEF PhaseSet, Phases
<1>3. ASSUME NEW n \in 1 .. 8
      PROVE  Index(Phases[n]) = n
  <2>1. \A i \in 1 .. 8 : Phases[i] = Phases[n] => i = n
    <3>1. \A i \in 1 .. 8 : i = 1 \/ i = 2 \/ i = 3 \/ i = 4 \/ i = 5 \/ i = 6 \/ i = 7 \/ i = 8
      OBVIOUS
    <3> QED BY <3>1 DEF Phases
  <2>2. Index(Phases[n]) \in 1 .. 8 /\ Phases[Index(Phases[n])] = Phases[n]
    BY <1>1 DEF Index
  <2> QED BY <2>1, <2>2
<1>4. /\ Phases[1] = "prepared" /\ Phases[2] = "first-quit-complete" /\ Phases[3] = "suspended"
      /\ Phases[4] = "native-opened" /\ Phases[5] = "cache-refreshed"
      /\ Phases[6] = "second-quit-complete" /\ Phases[7] = "reactivated" /\ Phases[8] = "completed"
  BY DEF Phases
<1> QED BY <1>1, <1>2, <1>3, <1>4

LEMMA Successors ==
  ASSUME NEW phase \in PhaseSet, phase # "completed"
  PROVE  LET next == Phases[Index(phase) + 1] IN
         /\ next \in PhaseSet
         /\ phase = "prepared" => next = "first-quit-complete"
         /\ phase = "first-quit-complete" => next = "suspended"
         /\ phase = "suspended" => next = "native-opened"
         /\ phase = "native-opened" => next = "cache-refreshed"
         /\ phase = "cache-refreshed" => next = "second-quit-complete"
         /\ phase = "second-quit-complete" => next = "reactivated"
         /\ phase = "reactivated" => next = "completed"
<1>1. /\ Phases[1] = "prepared" /\ Phases[2] = "first-quit-complete" /\ Phases[3] = "suspended"
      /\ Phases[4] = "native-opened" /\ Phases[5] = "cache-refreshed"
      /\ Phases[6] = "second-quit-complete" /\ Phases[7] = "reactivated" /\ Phases[8] = "completed"
  BY DEF Phases
<1> QED BY <1>1, PhasesAre

LEMMA EarlyPhases ==
  \A phase \in PhaseSet :
     Index(phase) >= Index("suspended") \/ phase \in {"prepared", "first-quit-complete"}
  BY PhasesAre

LEMMA Statuses ==
  ASSUME TypeOK
  PROVE  /\ Status = "installed" <=> Installed
         /\ Status = "suspended" <=> Suspended
         /\ Status = "deactivated" <=> state = "deactivated" /\ config = "native"
         /\ Status = "not-installed" <=> state = "none" /\ config = "native"
         /\ Status = "unhealthy" <=>
              ~(\/ state = "installed" /\ config = "managed"
                \/ state \in {"suspended", "deactivated", "none"} /\ config = "native")
  BY DEF TypeOK, Status, Installed, Suspended

-----------------------------------------------------------------------------
LEMMA RefreshStarts == Init => RefreshInv
  BY DEF Init, RefreshInv, TypeOK, LockInv, SchedulerInv, DiskInv, PhaseInv, SequenceInv, Orderly,
     Active, Installed, Suspended, NoCheckpoint, Idle, NoScheduler, Up, Checkpoints, Working, Held,
     Cancelling, Unmanned, CallbackSteps, Stop, Start, Write

-----------------------------------------------------------------------------
(* Types.  The records of the processes, and the moves that keep them.     *)

Steps == WorkerSteps \cup {"none"}
SchedulerSteps == {"none", "prepare", "check", "arm", "armClear", "armPlist", "launch",
                   "armFails", "cancel", "cancelPlist", "cancelCheckpoint"}
Schedulers == [at : SchedulerSteps, resumed : BOOLEAN]
Workers == [at : Steps, goal : {"managed", "native"}, then : Steps, else : Steps,
            cp : Checkpoints, mutated : BOOLEAN]
Bridges == [agent : BOOLEAN, loaded : BOOLEAN, runtime : BOOLEAN]
Jobs == [plist : BOOLEAN, loaded : BOOLEAN]
Caches == [client : Nat, newer : BOOLEAN]

LEMMA TypeParts ==
  TypeOK <=>
    /\ ckpt \in Checkpoints /\ cache \in Caches /\ client \in Nat
    /\ config \in {"managed", "native"}
    /\ state \in {"installed", "suspended", "deactivated", "none"}
    /\ desktop \in {"closed", "native", "mixed"}
    /\ bridge \in Bridges /\ job \in Jobs /\ sched \in Schedulers /\ worker \in Workers
    /\ lock \in {"free", "scheduler", "worker", "other"}
    /\ other \in {"none", "check", "change"}
    /\ faults \in Nat /\ others \in Nat
  BY DEF TypeOK, Bridges, Jobs, Schedulers, SchedulerSteps, Workers, Steps, Caches

LEMMA StepsAre ==
  /\ "none" \in Steps /\ "lock" \in Steps /\ "read" \in Steps /\ "run" \in Steps
  /\ "persist" \in Steps /\ "bootout" \in Steps /\ "agentOff" \in Steps
  /\ "runtimeOff" \in Steps /\ "suspendConfig" \in Steps /\ "config" \in Steps
  /\ "state" \in Steps /\ "confirm" \in Steps /\ "undo" \in Steps
  /\ "runtimeOn" \in Steps /\ "agentOn" \in Steps /\ "bootstrap" \in Steps
  /\ "managedConfig" \in Steps /\ "verify" \in Steps /\ "dropBridge" \in Steps
  /\ "failed" \in Steps /\ "unload" \in Steps /\ "plistOff" \in Steps
  /\ "clean" \in Steps /\ "release" \in Steps
  BY DEF Steps, WorkerSteps

LEMMA WorkerMoves ==
  ASSUME NEW w \in Workers, NEW s \in Steps, NEW g \in {"managed", "native"},
         NEW t \in Steps, NEW e \in Steps, NEW c \in Checkpoints, NEW m \in BOOLEAN
  PROVE  /\ [w EXCEPT !.at = s] \in Workers
         /\ [w EXCEPT !.at = s, !.goal = g, !.then = t, !.else = e] \in Workers
         /\ [w EXCEPT !.mutated = m, !.at = s] \in Workers
         /\ [w EXCEPT !.mutated = m, !.at = s, !.else = e, !.then = t] \in Workers
         /\ [w EXCEPT !.at = s, !.cp = c] \in Workers
         /\ [w EXCEPT !.at = s, !.cp = c, !.mutated = m] \in Workers
  BY DEF Workers

LEMMA EndsTyped ==
  /\ Idle \in Workers /\ [Idle EXCEPT !.at = "lock"] \in Workers
  /\ NoScheduler \in Schedulers /\ NoCheckpoint \in Checkpoints
  BY StepsAre DEF Idle, Workers, Checkpoints, NoCheckpoint, NoScheduler, Schedulers, SchedulerSteps

LEMMA Moves ==
  ASSUME TypeOK
  PROVE  /\ \A s \in Steps : Goto(s) => worker' \in Workers
         /\ \A s \in Steps, g \in {"managed", "native"}, t \in Steps, e \in Steps :
               Task(s, g, t, e) \in Workers
         /\ \A s \in SchedulerSteps : SchedGoto(s) => sched' \in Schedulers
         /\ SchedEnds => sched' \in Schedulers
         /\ [phase |-> "prepared", client |-> client] \in Checkpoints
         /\ [cache EXCEPT !.newer = FALSE] \in Caches
<1>0. worker \in Workers /\ sched \in Schedulers /\ client \in Nat /\ cache \in Caches
  BY TypeParts
<1>1. \A s \in Steps : Goto(s) => worker' \in Workers
  <2> SUFFICES ASSUME NEW s \in Steps, Goto(s) PROVE worker' \in Workers
    OBVIOUS
  <2> QED BY ZenonT(60), <1>0, WorkerMoves DEF Goto, Workers
<1>2. \A s \in Steps, g \in {"managed", "native"}, t \in Steps, e \in Steps :
        Task(s, g, t, e) \in Workers
  BY <1>0 DEF Task, Workers
<1>3. /\ \A s \in SchedulerSteps : SchedGoto(s) => sched' \in Schedulers
      /\ SchedEnds => sched' \in Schedulers
  BY <1>0, EndsTyped DEF SchedGoto, SchedEnds, Schedulers
<1>4. [phase |-> "prepared", client |-> client] \in Checkpoints
  BY <1>0, PhasesAre DEF Checkpoints
<1>5. [cache EXCEPT !.newer = FALSE] \in Caches
  BY <1>0 DEF Caches
<1> QED BY <1>1, <1>2, <1>3, <1>4, <1>5

LEMMA OtherMoves ==
  /\ \A x \in Schedulers, s \in SchedulerSteps : [x EXCEPT !.at = s] \in Schedulers
  /\ \A j \in Jobs, b \in BOOLEAN :
        [j EXCEPT !.plist = b] \in Jobs /\ [j EXCEPT !.loaded = b] \in Jobs
  /\ \A c \in Caches, b \in BOOLEAN : [c EXCEPT !.newer = b] \in Caches
  /\ \A x \in Bridges, b \in BOOLEAN :
        /\ [x EXCEPT !.agent = b] \in Bridges /\ [x EXCEPT !.loaded = b] \in Bridges
        /\ [x EXCEPT !.runtime = b] \in Bridges
  /\ Up \in Bridges /\ Down \in Bridges /\ Paused \in Bridges
  BY DEF Schedulers, Jobs, Caches, Bridges, Up, Down, Paused

LEMMA SchedulerTyped == RefreshInv /\ (Scheduler \/ SchedCrash \/ LaunchFails) => TypeOK'
<1> SUFFICES ASSUME RefreshInv, Scheduler \/ SchedCrash \/ LaunchFails PROVE TypeOK'
  OBVIOUS
<1>0. TypeOK
  BY DEF RefreshInv
<1> USE DEF Scheduler, SchedCrash, LaunchFails, SchedStart, Prepare, Check, Arm, ArmClear, ArmPlist,
        Launch, ArmFails, Cancel, CancelPlist, CancelCheckpoint
<1>1. worker' \in Workers
  BY <1>0, TypeParts, EndsTyped DEF Unloads, Loads
<1>2. job' \in Jobs
  BY <1>0, TypeParts, OtherMoves DEF Unloads, Loads
<1>3. sched' \in Schedulers
  <2>1. CASE Prepare
    <3>1. \A s \in SchedulerSteps, b \in BOOLEAN : [at |-> s, resumed |-> b] \in Schedulers
      BY DEF Schedulers
    <3>2. "arm" \in SchedulerSteps /\ "check" \in SchedulerSteps
      BY DEF SchedulerSteps
    <3>3. \/ sched' = [at |-> "arm", resumed |-> TRUE]
          \/ sched' = [at |-> "check", resumed |-> FALSE]
          \/ SchedEnds
      BY <2>1
    <3> QED BY <1>0, <3>1, <3>2, <3>3, Moves
  <2>2. CASE ~Prepare
    BY <1>0, <2>2, TypeParts, Moves, EndsTyped DEF SchedulerSteps
  <2> QED BY <2>1, <2>2
<1>4. ckpt' \in Checkpoints /\ cache' \in Caches
  BY <1>0, TypeParts, EndsTyped, Moves
<1>5. faults' \in Nat /\ lock' \in {"free", "scheduler", "worker", "other"}
  BY <1>0, TypeParts DEF Fault, SchedEnds
<1>6. UNCHANGED <<config, state, bridge, desktop, client, other, others>>
  BY DEF disk
<1> QED BY <1>0, <1>1, <1>2, <1>3, <1>4, <1>5, <1>6, TypeParts
           DEF TypeOK, Jobs, Workers, Schedulers, SchedulerSteps, Steps, Caches

LEMMA WorkflowTyped == RefreshInv /\ Workflow => TypeOK'
<1> SUFFICES ASSUME RefreshInv, Workflow PROVE TypeOK'
  OBVIOUS
<1>0. TypeOK /\ PhaseInv
  BY DEF RefreshInv
<1> USE DEF Workflow, WorkerLock, WorkerGivesUp, Read, Persist, Quit, Open, AwaitCache, Completed,
        Failed, Unload, PlistOff, Clean, Release
<1>1. ckpt' \in Checkpoints /\ cache' \in Caches
  <2>1. At("persist") => NextCheckpoint \in Checkpoints
    BY <1>0, TypeParts, PhasesAre, Successors
       DEF At, NextCheckpoint, Checkpoints, Workers, PhaseInv, Held
  <2> QED BY <1>0, <2>1, TypeParts, EndsTyped, Moves
<1>2. worker' \in Workers
  <2>1. CASE Read
    <3>1. (Index(ckpt'.phase) >= Index("suspended")) \in BOOLEAN
      OBVIOUS
    <3>2. worker' = [worker EXCEPT !.at = "run", !.cp = ckpt',
                           !.mutated = Index(ckpt'.phase) >= Index("suspended")]
      BY <2>1
    <3>3. \A m \in BOOLEAN : [worker EXCEPT !.at = "run", !.cp = ckpt', !.mutated = m] \in Workers
      BY <1>0, <1>1, TypeParts, StepsAre DEF Workers
    <3> QED BY <3>1, <3>2, <3>3
  <2>2. CASE ~Read
    <3>1. CASE Persist
      BY ZenonT(60), <1>0, <1>1, <3>1, TypeParts, WorkerMoves, StepsAre
    <3>2. CASE ~Persist
      BY <1>0, <2>2, <3>2, TypeParts, Moves, EndsTyped, StepsAre
    <3> QED BY <3>1, <3>2
  <2> QED BY <2>1, <2>2
<1>3. job' \in Jobs
  BY <1>0, TypeParts, OtherMoves
<1>4. desktop' \in {"closed", "native", "mixed"} /\ lock' \in {"free", "scheduler", "worker", "other"}
  BY <1>0, TypeParts DEF Opened
<1>5. UNCHANGED <<config, state, bridge, client, sched, other, faults, others>>
  BY DEF disk, outside
<1> QED BY <1>0, <1>1, <1>2, <1>3, <1>4, <1>5, TypeParts
           DEF TypeOK, Jobs, Workers, Steps, Caches

LEMMA CallbacksTyped == RefreshInv /\ Callbacks => TypeOK'
<1> SUFFICES ASSUME RefreshInv, Callbacks PROVE TypeOK'
  OBVIOUS
<1>0. TypeOK
  BY DEF RefreshInv
<1> USE DEF Callbacks, Suspend, Reactivate, Bootout, AgentOff, RuntimeOff, RuntimeOn, AgentOn, Bootstrap,
        WriteConfig, WriteState, SuspendConfig, Confirm, Undo, ManagedConfig, Verify, DropBridge
<1>1. worker.then \in Steps /\ worker.else \in Steps /\ worker.goal \in {"managed", "native"}
  BY <1>0, TypeParts DEF Workers
<1>2. worker' \in Workers
  <2>1. CASE Suspend \/ Reactivate
    <3>1. /\ [worker EXCEPT !.mutated = TRUE, !.at = "failed"] \in Workers
          /\ \A t \in Steps : [worker EXCEPT !.mutated = TRUE, !.at = "bootout",
                                            !.else = "failed", !.then = t] \in Workers
      BY <1>0, TypeParts, StepsAre DEF Workers
    <3>2. \A s \in Steps : [worker EXCEPT !.at = s] \in Workers
      BY <1>0, TypeParts DEF Workers
    <3>3. CASE Suspend
      BY <3>1, <3>3, StepsAre
    <3>4. CASE Reactivate
      BY <1>0, <3>2, <3>4, Moves, StepsAre
    <3> QED BY <2>1, <3>3, <3>4
  <2>2. CASE Undo
    BY <1>0, <2>2, TypeParts, WorkerMoves, Moves, StepsAre
  <2>3. CASE ~(Suspend \/ Reactivate \/ Undo)
    BY <1>0, <1>1, <2>3, TypeParts, Moves, StepsAre
  <2> QED BY <2>1, <2>2, <2>3
<1>3. bridge' \in Bridges
  BY <1>0, TypeParts, OtherMoves DEF disk
<1>4. config' \in {"managed", "native"} /\ state' \in {"installed", "suspended", "deactivated", "none"}
  BY <1>0, <1>1, TypeParts DEF disk
<1>5. UNCHANGED <<ckpt, desktop, cache, job, lock, client, sched, other, faults, others>>
  BY DEF alone, outside
<1> QED BY <1>0, <1>2, <1>3, <1>4, <1>5, TypeParts DEF TypeOK, Workers, Steps, Bridges

LEMMA FailuresTyped == RefreshInv /\ Failures => TypeOK'
<1> SUFFICES ASSUME RefreshInv, Failures PROVE TypeOK'
  OBVIOUS
<1>0. TypeOK /\ PhaseInv
  BY DEF RefreshInv
<1> USE DEF Failures, PersistFails, QuitFails, OpenFails, CleanupFails, StopFails, StartFails,
        WriteConfigFails, WriteStateFails, ConfirmFails, VerifyFails
<1>1. worker.else \in Steps
  BY <1>0, TypeParts DEF Workers
<1>2. worker' \in Workers
  BY <1>0, <1>1, TypeParts, Moves, StepsAre DEF alone
<1>3. bridge' \in Bridges
  BY <1>0, TypeParts, OtherMoves DEF disk, alone
<1>4. ckpt' \in Checkpoints
  <2>1. At("persist") => NextCheckpoint \in Checkpoints
    BY <1>0, TypeParts, PhasesAre, Successors
       DEF At, NextCheckpoint, Checkpoints, Workers, PhaseInv, Held
  <2> QED BY <1>0, <2>1, TypeParts DEF alone
<1>5. /\ config' \in {"managed", "native"}
      /\ desktop' \in {"closed", "native", "mixed"}
      /\ faults' \in Nat
  BY <1>0, TypeParts DEF disk, alone, Opened, StepFault, Fault
<1>6. UNCHANGED <<state, cache, job, lock, client, sched, other, others>>
  BY DEF alone, outside, disk
<1> QED BY <1>0, <1>2, <1>3, <1>4, <1>5, <1>6, TypeParts DEF TypeOK, Workers, Steps, Bridges

LEMMA EndingsTyped == RefreshInv /\ (WorkerCrash \/ Reboot) => TypeOK'
<1> SUFFICES ASSUME RefreshInv, WorkerCrash \/ Reboot PROVE TypeOK'
  OBVIOUS
<1>0. TypeOK
  BY DEF RefreshInv
<1>1. worker' \in Workers /\ sched' \in Schedulers
  BY <1>0, TypeParts, EndsTyped DEF WorkerCrash, Reboot, outside
<1>2. job' \in Jobs
  BY <1>0, TypeParts, OtherMoves DEF WorkerCrash, Reboot
<1>3. bridge.agent \in BOOLEAN
  BY <1>0, TypeParts DEF Bridges
<1>4. bridge' \in Bridges
  BY <1>0, <1>3, TypeParts, OtherMoves DEF WorkerCrash, Reboot, disk
<1>5. /\ faults' \in Nat
      /\ desktop' \in {"closed", "native", "mixed"}
      /\ lock' \in {"free", "scheduler", "worker", "other"}
      /\ other' \in {"none", "check", "change"}
  BY <1>0, TypeParts DEF WorkerCrash, Reboot, Fault, outside
<1>6. UNCHANGED <<ckpt, config, state, cache, client, others>>
  BY DEF WorkerCrash, Reboot, outside, disk
<1> QED BY <1>0, <1>1, <1>2, <1>4, <1>5, <1>6, TypeParts
           DEF TypeOK, Workers, Steps, Bridges, Jobs, Schedulers, SchedulerSteps

LEMMA OthersTyped == RefreshInv /\ (Others \/ Codex) => TypeOK'
<1> SUFFICES ASSUME RefreshInv, Others \/ Codex PROVE TypeOK'
  OBVIOUS
<1>0. TypeOK
  BY DEF RefreshInv
<1> USE DEF Others, Codex, OtherStart, OtherCheck, OtherChange, UserOpens, UserQuits, Fetch, Update
<1>1. bridge' \in Bridges
  BY <1>0, TypeParts, OtherMoves DEF disk
<1>5. cache' \in Caches
  <2>1. [client |-> client, newer |-> TRUE] \in Caches
    BY <1>0, TypeParts DEF Caches
  <2> QED BY <1>0, <2>1, TypeParts
<1>2. /\ config' \in {"managed", "native"}
      /\ state' \in {"installed", "suspended", "deactivated", "none"}
      /\ desktop' \in {"closed", "native", "mixed"}
      /\ client' \in Nat
  BY <1>0, TypeParts DEF disk, Opened
<1>3. /\ lock' \in {"free", "scheduler", "worker", "other"}
      /\ other' \in {"none", "check", "change"}
      /\ faults' \in Nat /\ others' \in Nat
  BY <1>0, TypeParts DEF Fault
<1>4. UNCHANGED <<ckpt, job, sched, worker>>
  OBVIOUS
<1> QED BY <1>0, <1>1, <1>2, <1>3, <1>4, <1>5, TypeParts DEF TypeOK, Bridges, Caches

-----------------------------------------------------------------------------
(* One step per action. *)

Promises == LockInv /\ SchedulerInv /\ DiskInv /\ PhaseInv /\ SequenceInv

LEMMA SchedulerKeeps == RefreshInv /\ (Scheduler \/ SchedCrash \/ LaunchFails) => RefreshInv'
<1> SUFFICES ASSUME RefreshInv, Scheduler \/ SchedCrash \/ LaunchFails PROVE Promises'
  BY SchedulerTyped DEF RefreshInv, Promises
<1> USE DEF RefreshInv, TypeOK, LockInv, SchedulerInv, DiskInv, PhaseInv, SequenceInv, Orderly,
        Active, Installed, Suspended, PausedOnPurpose, Absent, Working, Held, Unmanned, Cancelling,
        CallbackSteps, Stop, Start, Write, First, Second, Doing, Up, Down, Paused, Checkpoints,
        outside, disk, Promises, Idle, NoCheckpoint, NoScheduler, SchedGoto, SchedEnds, Unloads, Loads, Fault
<1>1. CASE SchedStart
  BY <1>1 DEF SchedStart
<1>2. CASE Prepare
  <2>1. CASE ckpt' = ckpt
    BY <1>2, <2>1 DEF Prepare
  <2>2. CASE ckpt' # ckpt
    <3>1. /\ ~Unprepared /\ ckpt.phase = "none" /\ sched' = [at |-> "check", resumed |-> FALSE]
          /\ ckpt' = [phase |-> "prepared", client |-> client]
          /\ UNCHANGED <<lock, config, state, bridge, job, worker, other>>
      BY <1>2, <2>2 DEF Prepare
    <3>2. Active \/ PausedOnPurpose
      BY <3>1, Statuses DEF Unprepared
    <3>3. LockInv' /\ SchedulerInv'
      BY <1>2, <3>1 DEF Prepare
    <3>4. DiskInv'
      BY <3>1, <3>2
    <3>5. PhaseInv' /\ SequenceInv'
      BY <1>2, <3>1, <3>2 DEF Prepare
    <3> QED BY <3>3, <3>4, <3>5
  <2> QED BY <2>1, <2>2
<1>3. CASE Check
  BY <1>3, Statuses DEF Check
<1>4. CASE Arm
  BY <1>4 DEF Arm
<1>5. CASE ArmClear
  BY <1>5 DEF ArmClear
<1>6. CASE ArmPlist
  BY <1>6 DEF ArmPlist
<1>7. CASE Launch
  BY <1>7 DEF Launch
<1>8. CASE ArmFails
  BY <1>8 DEF ArmFails
<1>9. CASE Cancel
  BY <1>9 DEF Cancel
<1>10. CASE CancelPlist
  BY <1>10 DEF CancelPlist
<1>11. CASE CancelCheckpoint
  BY <1>11 DEF CancelCheckpoint
<1>12. CASE SchedCrash
  BY <1>12 DEF SchedCrash
<1>13. CASE LaunchFails
  BY <1>13 DEF LaunchFails
<1> QED BY <1>1, <1>2, <1>3, <1>4, <1>5, <1>6, <1>7, <1>8, <1>9, <1>10, <1>11, <1>12, <1>13 DEF Scheduler

LEMMA WorkflowKeeps == RefreshInv /\ Workflow => RefreshInv'
<1> SUFFICES ASSUME RefreshInv, Workflow PROVE Promises'
  BY WorkflowTyped DEF RefreshInv, Promises
<1> USE DEF RefreshInv, TypeOK, LockInv, SchedulerInv, DiskInv, PhaseInv, SequenceInv, Orderly,
        Active, Installed, Suspended, PausedOnPurpose, Absent, Working, Held, Unmanned, Cancelling,
        CallbackSteps, Stop, Start, Write, First, Second, Doing, Up, Down, Paused, Checkpoints,
        outside, disk, Promises, Idle, NoCheckpoint, At, Goto, Running, NextCheckpoint
<1>1. CASE WorkerLock
  BY <1>1 DEF WorkerLock
<1>2. CASE WorkerGivesUp
  BY <1>2 DEF WorkerGivesUp
<1>3. CASE Read
  <2>1. worker.at = "read" /\ ckpt.phase \in PhaseSet /\ ckpt' = ckpt
    BY <1>3 DEF Read
  <2>2. /\ worker'.at = "run" /\ worker'.cp = ckpt
        /\ worker'.mutated = (Index(ckpt.phase) >= Index("suspended"))
        /\ UNCHANGED <<lock, config, state, bridge, job, sched, other>>
    BY <1>3, <2>1 DEF Read
  <2>3. \/ worker'.mutated
        \/ ckpt.phase \in {"prepared", "first-quit-complete"}
    BY <2>1, <2>2, EarlyPhases
  <2>4. LockInv' /\ SchedulerInv' /\ DiskInv' /\ SequenceInv'
    BY <2>1, <2>2
  <2>5. PhaseInv'
    BY <2>1, <2>2, <2>3
  <2> QED BY <2>4, <2>5
<1>4. CASE Persist
  BY <1>4, PhasesAre, Successors DEF Persist
<1>5. CASE Quit
  BY <1>5, PhasesAre DEF Quit
<1>6. CASE Open
  BY <1>6, PhasesAre DEF Open, Opened
<1>7. CASE AwaitCache
  BY <1>7, PhasesAre DEF AwaitCache
<1>8. CASE Completed
  BY <1>8, PhasesAre DEF Completed
<1>9. CASE Failed
  BY <1>9 DEF Failed
<1>10. CASE Unload
  BY <1>10 DEF Unload
<1>11. CASE PlistOff
  BY <1>11 DEF PlistOff
<1>12. CASE Clean
  BY <1>12 DEF Clean
<1>13. CASE Release
  BY <1>13 DEF Release
<1> QED BY <1>1, <1>2, <1>3, <1>4, <1>5, <1>6, <1>7, <1>8, <1>9, <1>10, <1>11, <1>12, <1>13 DEF Workflow

LEMMA CallbacksKeep == RefreshInv /\ Callbacks => RefreshInv'
<1> SUFFICES ASSUME RefreshInv, Callbacks PROVE Promises'
  BY CallbacksTyped DEF RefreshInv, Promises
<1> USE DEF RefreshInv, TypeOK, LockInv, SchedulerInv, DiskInv, PhaseInv, SequenceInv, Orderly,
        Active, Installed, Suspended, PausedOnPurpose, Absent, Working, Held, Unmanned, Cancelling,
        CallbackSteps, Stop, Start, Write, First, Second, Doing, Up, Down, Paused, Checkpoints,
        outside, disk, Promises, Idle, NoCheckpoint, alone, At, Goto, Running, Task
<1>1. CASE Suspend
  BY <1>1, PhasesAre, Statuses DEF Suspend, Refused, BridgeMissing
<1>2. CASE Reactivate
  BY <1>2, PhasesAre, Statuses DEF Reactivate, Refused
<1>3. CASE Bootout
  BY <1>3 DEF Bootout
<1>4. CASE AgentOff
  BY <1>4 DEF AgentOff
<1>5. CASE RuntimeOff
  BY <1>5 DEF RuntimeOff
<1>6. CASE RuntimeOn
  BY <1>6 DEF RuntimeOn
<1>7. CASE AgentOn
  BY <1>7 DEF AgentOn
<1>8. CASE Bootstrap
  BY <1>8 DEF Bootstrap
<1>9. CASE WriteConfig
  BY <1>9 DEF WriteConfig
<1>10. CASE WriteState
  BY <1>10 DEF WriteState
<1>11. CASE SuspendConfig
  BY <1>11 DEF SuspendConfig
<1>12. CASE Confirm
  BY <1>12 DEF Confirm
<1>13. CASE Undo
  BY <1>13, Statuses DEF Undo
<1>14. CASE ManagedConfig
  BY <1>14 DEF ManagedConfig
<1>15. CASE Verify
  BY <1>15 DEF Verify
<1>16. CASE DropBridge
  BY <1>16 DEF DropBridge
<1> QED BY <1>1, <1>2, <1>3, <1>4, <1>5, <1>6, <1>7, <1>8, <1>9, <1>10, <1>11, <1>12, <1>13, <1>14, <1>15, <1>16 DEF Callbacks

LEMMA FailuresKeep == RefreshInv /\ Failures => RefreshInv'
<1> SUFFICES ASSUME RefreshInv, Failures PROVE Promises'
  BY FailuresTyped DEF RefreshInv, Promises
<1> USE DEF RefreshInv, TypeOK, LockInv, SchedulerInv, DiskInv, PhaseInv, SequenceInv, Orderly,
        Active, Installed, Suspended, PausedOnPurpose, Absent, Working, Held, Unmanned, Cancelling,
        CallbackSteps, Stop, Start, Write, First, Second, Doing, Up, Down, Paused, Checkpoints,
        outside, disk, Promises, Idle, NoCheckpoint, alone, At, Goto, Running, Task, StepFault, Fault, NextCheckpoint
<1>1. CASE PersistFails
  BY <1>1, PhasesAre, Successors DEF PersistFails
<1>2. CASE QuitFails
  BY <1>2, PhasesAre DEF QuitFails
<1>3. CASE OpenFails
  BY <1>3, PhasesAre DEF OpenFails, Opened
<1>4. CASE CleanupFails
  BY <1>4 DEF CleanupFails
<1>5. CASE StopFails
  BY <1>5 DEF StopFails
<1>6. CASE StartFails
  BY <1>6 DEF StartFails
<1>7. CASE WriteConfigFails
  BY <1>7 DEF WriteConfigFails
<1>8. CASE WriteStateFails
  BY <1>8 DEF WriteStateFails
<1>9. CASE ConfirmFails
  BY <1>9 DEF ConfirmFails
<1>10. CASE VerifyFails
  BY <1>10 DEF VerifyFails
<1> QED BY <1>1, <1>2, <1>3, <1>4, <1>5, <1>6, <1>7, <1>8, <1>9, <1>10 DEF Failures

LEMMA EndingsKeep == RefreshInv /\ (WorkerCrash \/ Reboot) => RefreshInv'
<1> SUFFICES ASSUME RefreshInv, WorkerCrash \/ Reboot PROVE Promises'
  BY EndingsTyped DEF RefreshInv, Promises
<1> USE DEF RefreshInv, TypeOK, LockInv, SchedulerInv, DiskInv, PhaseInv, SequenceInv, Orderly,
        Active, Installed, Suspended, PausedOnPurpose, Absent, Working, Held, Unmanned, Cancelling,
        CallbackSteps, Stop, Start, Write, First, Second, Doing, Up, Down, Paused, Checkpoints,
        outside, disk, Promises, Idle, NoCheckpoint, NoScheduler, Fault
<1>1. CASE WorkerCrash
  BY <1>1 DEF WorkerCrash
<1>2. CASE Reboot
  <2>1. /\ worker'.at = "none" /\ sched'.at = "none" /\ other' = "none" /\ lock' = "free"
        /\ ckpt' = ckpt /\ config' = config /\ state' = state
        /\ bridge' = [bridge EXCEPT !.loaded = bridge.agent]
    BY <1>2 DEF Reboot
  <2>2. bridge = Up \/ bridge = Down \/ bridge = Paused => bridge' = bridge
    BY <2>1
  <2>3. Orderly'
    BY <2>1
  <2>4. DiskInv'
    BY ZenonT(60), <2>1, <2>2, <2>3
  <2>5. LockInv' /\ SchedulerInv' /\ PhaseInv' /\ SequenceInv'
    BY <2>1
  <2> QED BY <2>4, <2>5
<1> QED BY <1>1, <1>2

LEMMA OthersKeep == RefreshInv /\ (Others \/ Codex) => RefreshInv'
<1> SUFFICES ASSUME RefreshInv, Others \/ Codex PROVE Promises'
  BY OthersTyped DEF RefreshInv, Promises
<1> USE DEF RefreshInv, TypeOK, LockInv, SchedulerInv, DiskInv, PhaseInv, SequenceInv, Orderly,
        Active, Installed, Suspended, PausedOnPurpose, Absent, Working, Held, Unmanned, Cancelling,
        CallbackSteps, Stop, Start, Write, First, Second, Doing, Up, Down, Paused, Checkpoints,
        outside, disk, Promises, Idle, NoCheckpoint, Fault
<1>1. CASE OtherStart
  BY <1>1 DEF OtherStart
<1>2. CASE OtherCheck
  BY <1>2 DEF OtherCheck
<1>3. CASE OtherChange
  BY <1>3, Statuses DEF OtherChange
<1>4. CASE UserOpens
  BY <1>4 DEF UserOpens, Opened
<1>5. CASE UserQuits
  BY <1>5 DEF UserQuits
<1>6. CASE Fetch
  BY <1>6 DEF Fetch
<1>7. CASE Update
  BY <1>7 DEF Update
<1> QED BY <1>1, <1>2, <1>3, <1>4, <1>5, <1>6, <1>7 DEF Others, Codex

LEMMA RefreshKept == RefreshInv /\ [Next]_vars => RefreshInv'
<1> SUFFICES ASSUME RefreshInv, [Next]_vars PROVE RefreshInv'
  OBVIOUS
<1>1. CASE Next
  BY <1>1, SchedulerKeeps, WorkflowKeeps, CallbacksKeep, FailuresKeep, EndingsKeep, OthersKeep DEF Next
<1>2. CASE UNCHANGED vars
  <2>1. TypeOK'
    BY <1>2 DEF RefreshInv, TypeOK, vars, disk
  <2> QED BY <1>2, <2>1
          DEF RefreshInv, vars, disk, LockInv, SchedulerInv, DiskInv, PhaseInv, SequenceInv, Orderly,
              Active, Installed, Suspended, PausedOnPurpose, Absent, Working, Held, Unmanned,
              Cancelling, CallbackSteps, Stop, Start, Write, First, Second, Doing
<1> QED BY <1>1, <1>2

-----------------------------------------------------------------------------
(* RefreshInv holds throughout: whatever fails, dies or reboots, the disk   *)
(* is what the recorded phase says, and each step of the worker finds what  *)
(* it relies on.                                                            *)
THEOREM RefreshHolds == Spec => []RefreshInv
  BY RefreshStarts, RefreshKept, PTL DEF Spec

(* Every variable keeps the shape the code gives it. *)
THEOREM RefreshTyped == Spec => []TypeOK
<1>1. RefreshInv => TypeOK
  BY DEF RefreshInv
<1> QED BY <1>1, RefreshHolds, PTL

(* From "suspended" to "cache-refreshed" the integration on disk is         *)
(* suspended and its bridge gone; from "reactivated" on both are back.      *)
THEOREM AlwaysTruthful == Spec => []CheckpointTruthful
<1>1. RefreshInv => CheckpointTruthful
  BY Statuses DEF RefreshInv, CheckpointTruthful, DiskInv, Active
<1> QED BY <1>1, RefreshHolds, PTL

(* With no checkpoint on disk the integration and its bridge are whole,     *)
(* paused on purpose or absent: no error path leaves half a suspension.     *)
THEOREM NeverStranded == Spec => []NotStranded
<1>1. RefreshInv => NotStranded
  BY Statuses DEF RefreshInv, NotStranded, DiskInv, Active, PausedOnPurpose, Absent
<1> QED BY <1>1, RefreshHolds, PTL

(* No second worker is started over a living one, and scheduler and worker  *)
(* never work on the refresh together.                                      *)
THEOREM AlwaysOneWorker == Spec => []OneWorker
<1>1. RefreshInv => OneWorker
  <2> SUFFICES ASSUME RefreshInv PROVE OneWorker
    OBVIOUS
  <2>1. sched.at = "launch" => worker.at = "none"
    BY DEF RefreshInv, SchedulerInv, Unmanned
  <2>2. sched.at # "none" => worker.at \in {"none", "lock"}
    BY DEF RefreshInv, LockInv, Working
  <2> QED BY <2>1, <2>2 DEF OneWorker
<1> QED BY <1>1, RefreshHolds, PTL

-----------------------------------------------------------------------------
(* The refinement.  Few steps touch the recorded phase or the receipt.      *)

Integration == CASE state = "installed" -> "active"
                 [] state = "suspended" -> "suspended"
                 [] OTHER               -> "off"

LEMMA Integrations ==
  /\ Integration = "active" <=> state = "installed"
  /\ Integration = "suspended" <=> state = "suspended"
  /\ Integration = "off" <=> state \notin {"installed", "suspended"}
  BY DEF Integration

Quiet == UNCHANGED <<ckpt, state>>

LEMMA FewDisturb ==
  RefreshInv /\ [Next]_vars =>
    \/ Quiet \/ Prepare \/ CancelCheckpoint \/ Persist \/ PersistFails \/ Failed \/ Clean
    \/ WriteState \/ OtherChange
<1> SUFFICES ASSUME RefreshInv, [Next]_vars
             PROVE  \/ Quiet \/ Prepare \/ CancelCheckpoint \/ Persist \/ PersistFails \/ Failed
                    \/ Clean \/ WriteState \/ OtherChange
  OBVIOUS
<1>1. Scheduler \/ SchedCrash \/ LaunchFails => Quiet \/ Prepare \/ CancelCheckpoint
  BY DEF Scheduler, SchedCrash, LaunchFails, SchedStart, Check, Arm, ArmClear, ArmPlist, Launch,
         ArmFails, Cancel, CancelPlist, Quiet, disk
<1>2. Read => Quiet
  BY DEF RefreshInv, SchedulerInv, Read, At, Quiet, disk
<1>3. Workflow => Quiet \/ Persist \/ Failed \/ Clean
  BY <1>2 DEF Workflow, WorkerLock, WorkerGivesUp, Quit, Open, AwaitCache, Completed, Unload,
              PlistOff, Release, Quiet, disk
<1>4. Callbacks => Quiet \/ WriteState
  BY DEF Callbacks, Suspend, Reactivate, Bootout, AgentOff, RuntimeOff, RuntimeOn, AgentOn,
         Bootstrap, WriteConfig, SuspendConfig, Confirm, Undo, ManagedConfig, Verify, DropBridge,
         Quiet, disk, alone
<1>5. Failures => Quiet \/ PersistFails
  BY DEF Failures, QuitFails, OpenFails, CleanupFails, StopFails, StartFails, WriteConfigFails,
         WriteStateFails, ConfirmFails, VerifyFails, Quiet, disk, alone
<1>6. WorkerCrash \/ Reboot \/ Others \/ Codex => Quiet \/ OtherChange
  BY DEF WorkerCrash, Reboot, Others, OtherStart, OtherCheck, Codex, UserOpens, UserQuits, Fetch,
         Update, Quiet, disk
<1>7. UNCHANGED vars => Quiet
  BY DEF vars, disk, Quiet
<1> QED BY <1>1, <1>3, <1>4, <1>5, <1>6, <1>7 DEF Next

(* Recording the next phase is an advance of the abstract run. *)
LEMMA Advances ==
  ASSUME RefreshInv, worker.at = "persist", ckpt' = NextCheckpoint, state' = state
  PROVE  Recovery!Advance
<1>1. /\ ckpt = worker.cp /\ worker.cp.phase \in PhaseSet /\ worker.cp.phase # "completed"
      /\ First => Suspended
      /\ Second => Active
  BY DEF RefreshInv, PhaseInv, Held
<1>2. Suspended => state = "suspended"
  BY DEF Suspended
<1>3. Active => state = "installed"
  BY DEF Active, Installed
<1>4. DiskInv
  BY DEF RefreshInv
<1>5. ckpt'.phase = Phases[Index(ckpt.phase) + 1]
  BY <1>1 DEF NextCheckpoint, RefreshInv, TypeOK, Checkpoints
<1>6. PICK i \in 1 .. 7 : ckpt.phase = Phases[i] /\ Index(ckpt.phase) = i
  BY <1>1, PhasesAre DEF Phases
<1>7. Phases[i] = ckpt.phase /\ Phases[i + 1] = ckpt'.phase
  BY <1>5, <1>6
<1>8. i + 1 \in 3 .. 6 => state = "suspended"
  BY <1>1, <1>2, <1>4, <1>6, PhasesAre DEF DiskInv, First
<1>9. i + 1 \in 7 .. 8 => state = "installed"
  BY <1>1, <1>3, <1>4, <1>6, PhasesAre DEF DiskInv, Second
<1>10. Recovery!Phases = Phases /\ Len(Phases) - 1 = 7
  BY PhasesAre DEF Recovery!Phases, Phases
<1> QED BY <1>6, <1>7, <1>8, <1>9, <1>10 DEF Recovery!Advance

LEMMA RecoveryStep ==
  RefreshInv /\ [Next]_vars => [Recovery!Next]_(Recovery!vars)
<1> SUFFICES ASSUME RefreshInv, [Next]_vars PROVE [Recovery!Next]_(Recovery!vars)
  OBVIOUS
<1> USE DEF RefreshInv
<1>1. CASE Quiet
  BY <1>1 DEF Quiet, Recovery!vars
<1>2. CASE Prepare
  <2>1. ckpt' = ckpt \/ (ckpt.phase = "none" /\ ckpt'.phase = "prepared")
    BY <1>2 DEF Prepare
  <2>2. state' = state
    BY <1>2 DEF Prepare, disk
  <2> QED BY <2>1, <2>2 DEF Recovery!vars, Recovery!Next, Recovery!Begin, Recovery!Phases, Phases
<1>3. CASE CancelCheckpoint
  <2>1. ckpt.phase = "prepared" /\ ckpt'.phase = "none" /\ state' = state
    BY <1>3 DEF CancelCheckpoint, SchedulerInv, Cancelling, NoCheckpoint, disk
  <2> QED BY <2>1 DEF Recovery!Next, Recovery!Discard
<1>4. CASE Persist
  BY <1>4, Advances DEF Persist, At, disk, Recovery!Next
<1>5. CASE PersistFails
  <2>1. worker.at = "persist" /\ state' = state /\ (ckpt' = ckpt \/ ckpt' = NextCheckpoint)
    BY <1>5 DEF PersistFails, At, disk
  <2> QED BY <2>1, Advances DEF Recovery!Next, Recovery!vars
<1>6. CASE Failed
  <2>1. worker.at = "failed" /\ state' = state
    BY <1>6 DEF Failed, At, disk
  <2>2. CASE worker.mutated
    BY <1>6, <2>1, <2>2 DEF Failed, Recovery!vars
  <2>3. CASE ~worker.mutated
    <3>1. worker.cp.phase = "prepared"
      BY <2>1, <2>3 DEF PhaseInv, Held
    <3>2. ckpt.phase \in {"prepared", "first-quit-complete"} /\ (Active \/ PausedOnPurpose)
      BY <2>1, <3>1 DEF PhaseInv
    <3>3. state \in {"installed", "deactivated"} /\ ckpt'.phase = "none"
      BY <1>6, <2>3, <3>2 DEF Active, Installed, PausedOnPurpose, Failed, NoCheckpoint
    <3> QED BY <2>1, <3>2, <3>3 DEF Recovery!Next, Recovery!Discard
  <2> QED BY <2>2, <2>3
<1>7. CASE Clean
  <2>1. ckpt.phase = "completed" /\ ckpt'.phase = "none" /\ state' = state
    BY <1>7 DEF Clean, At, PhaseInv, NoCheckpoint, disk
  <2> QED BY <2>1 DEF Recovery!Next, Recovery!Complete
<1>8. CASE WriteState
  <2>1. worker.at = "state" /\ ckpt' = ckpt /\ state' \in {"suspended", "installed"}
    BY <1>8 DEF WriteState, At, alone
  <2>2. ckpt = worker.cp /\ (First \/ Second) /\ state \in {"installed", "suspended"}
    BY <2>1 DEF PhaseInv, SequenceInv, CallbackSteps, Write
  <2> QED BY <2>1, <2>2 DEF First, Second, Recovery!Next, Recovery!Switch, Recovery!vars
<1>9. CASE OtherChange
  <2>1. ckpt.phase = "none" /\ ckpt' = ckpt /\ state' \in {"installed", "none", "deactivated"}
    BY <1>9 DEF OtherChange, SchedulerInv
  <2> QED BY <2>1 DEF Recovery!Next, Recovery!Elsewhere
<1> QED BY <1>1, <1>2, <1>3, <1>4, <1>5, <1>6, <1>7, <1>8, <1>9, FewDisturb

(* A full refresh keeps its promise to the rest of PickerMux: a checkpoint  *)
(* covers the integration from before it is suspended until it is active    *)
(* again, and no other command changes it in the meantime.                  *)
THEOREM RecoveryImplemented == Spec => ImplementsPendingRecovery
<1>1. Init => Recovery!Init
  BY DEF Init, Recovery!Init, NoCheckpoint
<1> QED BY <1>1, RecoveryStep, RefreshHolds, PTL DEF Spec, ImplementsPendingRecovery, Recovery!Spec
=============================================================================
