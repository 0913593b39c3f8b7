----------------------------- MODULE FullRefresh -----------------------------
(***************************************************************************)
(* pickermux refresh --full: the scheduler (scheduleFullRefreshLocked), the *)
(* one-shot worker it hands the run to (executeFullRefreshWorker and        *)
(* runFullRefreshWorkflow), the suspension and reactivation callbacks, and  *)
(* what they disturb: the managed configuration, the bridge service and     *)
(* Codex Desktop.                                                           *)
(*                                                                          *)
(* Scheduler, worker and every other lifecycle command are processes that   *)
(* meet at the lifecycle lock (module InstallationLock) and at the          *)
(* checkpoint file.  Each action ends in at most one durable effect, so     *)
(* that a process may die between any two of them.                          *)
(***************************************************************************)
EXTENDS Naturals, Sequences

CONSTANTS
    CrashPoints,   \* steps of the worker at which it may die
    FailPoints,    \* steps of the worker that may fail
    MaxFaults,     \* failed steps, deaths, and disturbing users
    MaxUpdates,    \* updates of Codex
    MaxOthers      \* other lifecycle commands

WorkerSteps ==
    {"lock", "read", "run", "persist", "bootout", "agentOff", "runtimeOff",
     "suspendConfig", "config", "state", "confirm", "undo", "runtimeOn",
     "agentOn", "bootstrap", "managedConfig", "verify", "dropBridge",
     "failed", "unload", "plistOff", "clean", "release"}

ASSUME FullRefreshAssumption ==
    /\ CrashPoints \subseteq WorkerSteps
    /\ FailPoints \subseteq WorkerSteps
    /\ MaxFaults \in Nat
    /\ MaxUpdates \in Nat
    /\ MaxOthers \in Nat

VARIABLES
    ckpt,      \* the checkpoint file: its phase, or "none", and its client
    config,    \* what config.toml holds: "managed" or "native"
    state,     \* what the ownership receipt says
    bridge,    \* plist, launchd job and runtime record of the bridge
    desktop,   \* Codex Desktop, and the configuration it started with
    cache,     \* the account model cache; newer: than the last baseline
    client,    \* the installed Codex version
    job,       \* plist and launchd job of the worker
    lock,      \* who holds the lifecycle lock
    sched,     \* the scheduler: next step, and whether the run is resumed
    worker,    \* the worker: see Idle
    other,     \* another lifecycle command
    faults,
    others

disk == <<config, state, bridge>>
vars == <<ckpt, config, state, bridge, desktop, cache, client, job, lock,
          sched, worker, other, faults, others>>

Phases == <<"prepared", "first-quit-complete", "suspended", "native-opened",
            "cache-refreshed", "second-quit-complete", "reactivated",
            "completed">>
Index(phase) == CHOOSE i \in 1 .. Len(Phases) : Phases[i] = phase

NoCheckpoint == [phase |-> "none", client |-> 0]

(* The worker: its step, the configuration it is writing (goal), where a    *)
(* sequence of steps leads when it ends well (then) or not (else), the      *)
(* checkpoint in memory, mutationStarted.                                   *)
Idle == [at |-> "none", goal |-> "native", then |-> "none", else |-> "none",
         cp |-> NoCheckpoint, mutated |-> FALSE]
NoScheduler == [at |-> "none", resumed |-> FALSE]

Up   == [agent |-> TRUE, loaded |-> TRUE, runtime |-> TRUE]
Down == [agent |-> FALSE, loaded |-> FALSE, runtime |-> FALSE]
Paused == [agent |-> FALSE, loaded |-> FALSE, runtime |-> TRUE]

Init ==
    /\ ckpt = NoCheckpoint
    /\ config = "managed" /\ state = "installed" /\ bridge = Up
    /\ desktop = "mixed"
    /\ cache = [client |-> 0, newer |-> FALSE]
    /\ client = 0
    /\ job = [plist |-> FALSE, loaded |-> FALSE]
    /\ lock = "free"
    /\ sched = NoScheduler
    /\ worker = Idle
    /\ other = "none"
    /\ faults = 0
    /\ others = 0

(* getConfigStatus: the file and the receipt must tell the same story.      *)
Status ==
    CASE state = "none" /\ config = "native"      -> "not-installed"
      [] state = "installed" /\ config = "managed" -> "installed"
      [] state = "suspended" /\ config = "native"  -> "suspended"
      [] state = "deactivated" /\ config = "native" -> "deactivated"
      [] OTHER                                     -> "unhealthy"

Fault == faults < MaxFaults /\ faults' = faults + 1
StepFault == worker.at \in FailPoints /\ Fault

-----------------------------------------------------------------------------
(* The scheduler, under the lifecycle lock. *)

SchedGoto(step) == sched' = [sched EXCEPT !.at = step]
SchedEnds == sched' = NoScheduler /\ lock' = "free"

SchedStart ==
    /\ sched.at = "none" /\ lock = "free"
    /\ lock' = "scheduler"
    /\ SchedGoto("prepare")
    /\ UNCHANGED <<ckpt, disk, desktop, cache, client, job, worker, other, faults, others>>

(* An existing checkpoint is resumed; a new one records the baseline.       *)
(* Without a service package (not installed) there is nothing to refresh.   *)
Unprepared == Status \in {"unhealthy", "not-installed"}

Prepare ==
    /\ sched.at = "prepare"
    /\ \/ Unprepared /\ SchedEnds /\ UNCHANGED <<ckpt, cache>>
       \/ /\ ~Unprepared /\ ckpt.phase # "none"
          /\ sched' = [at |-> "arm", resumed |-> TRUE]
          /\ UNCHANGED <<ckpt, cache, lock>>
       \/ /\ ~Unprepared /\ ckpt.phase = "none"
          /\ ckpt' = [phase |-> "prepared", client |-> client]
          /\ cache' = [cache EXCEPT !.newer = FALSE]
          /\ sched' = [at |-> "check", resumed |-> FALSE]
          /\ UNCHANGED lock
    /\ UNCHANGED <<disk, desktop, client, job, worker, other, faults, others>>

(* A missing runtime record is an error before the cleanup of the others.   *)
Check ==
    /\ sched.at = "check"
    /\ IF Status = "installed" /\ ~bridge.runtime THEN SchedEnds
       ELSE /\ SchedGoto(IF Status = "installed" /\ bridge.agent THEN "arm" ELSE "cancel")
            /\ UNCHANGED lock
    /\ UNCHANGED <<ckpt, disk, desktop, cache, client, job, worker, other, faults, others>>

(* Unloading the job ends the worker; the lock it waits for is not its own. *)
Unloads == /\ job' = [job EXCEPT !.loaded = FALSE]
           /\ worker' = IF job.loaded THEN Idle ELSE worker

(* Faulty variant: a job that is still loaded is not unloaded. *)
ArmOverLoaded ==
    /\ sched.at = "arm"
    /\ SchedGoto("armClear")
    /\ UNCHANGED <<ckpt, disk, desktop, cache, client, job, worker, lock, other, faults, others>>

Arm ==
    /\ sched.at = "arm"
    /\ IF job.loaded /\ ~job.plist
       THEN SchedGoto("armFails") /\ UNCHANGED <<job, worker>>
       ELSE SchedGoto("armClear") /\ Unloads
    /\ UNCHANGED <<ckpt, disk, desktop, cache, client, lock, other, faults, others>>

ArmClear ==
    /\ sched.at = "armClear"
    /\ job' = [job EXCEPT !.plist = FALSE]
    /\ SchedGoto("armPlist")
    /\ UNCHANGED <<ckpt, disk, desktop, cache, client, worker, lock, other, faults, others>>

ArmPlist ==
    /\ sched.at = "armPlist"
    /\ job' = [job EXCEPT !.plist = TRUE]
    /\ SchedGoto("launch")
    /\ UNCHANGED <<ckpt, disk, desktop, cache, client, worker, lock, other, faults, others>>

Loads == /\ job' = [job EXCEPT !.loaded = TRUE]
         /\ worker' = [Idle EXCEPT !.at = "lock"]

Launch ==
    /\ sched.at = "launch"
    /\ Loads
    /\ SchedEnds
    /\ UNCHANGED <<ckpt, disk, desktop, cache, client, other, faults, others>>

(* launchctl bootstrap may fail and yet load the job. *)
LaunchFails ==
    /\ sched.at = "launch"
    /\ Fault
    /\ \/ Loads
       \/ job' = [job EXCEPT !.plist = FALSE] /\ UNCHANGED worker
    /\ SchedGoto("armFails")
    /\ UNCHANGED <<ckpt, disk, desktop, cache, client, lock, other, others>>

ArmFails ==
    /\ sched.at = "armFails"
    /\ IF sched.resumed THEN SchedEnds
       ELSE SchedGoto("cancel") /\ UNCHANGED lock
    /\ UNCHANGED <<ckpt, disk, desktop, cache, client, job, worker, other, faults, others>>

(* cleanupFullRefreshArtifacts of the scheduler, the checkpoint last. *)
Cancel ==
    /\ sched.at = "cancel"
    /\ IF job.plist THEN Unloads ELSE UNCHANGED <<job, worker>>
    /\ SchedGoto("cancelPlist")
    /\ UNCHANGED <<ckpt, disk, desktop, cache, client, lock, other, faults, others>>

CancelPlist ==
    /\ sched.at = "cancelPlist"
    /\ job' = [job EXCEPT !.plist = FALSE]
    /\ SchedGoto("cancelCheckpoint")
    /\ UNCHANGED <<ckpt, disk, desktop, cache, client, worker, lock, other, faults, others>>

CancelCheckpoint ==
    /\ sched.at = "cancelCheckpoint"
    /\ ckpt' = NoCheckpoint
    /\ SchedEnds
    /\ UNCHANGED <<disk, desktop, cache, client, job, worker, other, faults, others>>

SchedCrash ==
    /\ sched.at # "none"
    /\ Fault
    /\ SchedEnds
    /\ UNCHANGED <<ckpt, disk, desktop, cache, client, job, worker, other, others>>

Scheduler == \/ SchedStart \/ Prepare \/ Check \/ Arm \/ ArmClear \/ ArmPlist \/ Launch
             \/ ArmFails \/ Cancel \/ CancelPlist \/ CancelCheckpoint

-----------------------------------------------------------------------------
(* The worker: its lock, its phases, and how it ends. *)

At(step)  == worker.at = step
Goto(step) == worker' = [worker EXCEPT !.at = step]
Task(step, goal, then, else) ==
    [worker EXCEPT !.at = step, !.goal = goal, !.then = then, !.else = else]
Running(phase) == At("run") /\ worker.cp.phase = phase

(* What the worker's steps leave alone. *)
outside == <<client, sched, other, others>>

WorkerLock ==
    /\ At("lock") /\ lock = "free"
    /\ lock' = "worker"
    /\ Goto("read")
    /\ UNCHANGED <<ckpt, disk, desktop, cache, job, faults, outside>>

(* After its last retry the worker ends and cleans nothing up. *)
WorkerGivesUp ==
    /\ At("lock") /\ lock # "free"
    /\ worker' = Idle
    /\ UNCHANGED <<ckpt, disk, desktop, cache, job, lock, faults, outside>>

Read ==
    /\ At("read")
    /\ IF ckpt.phase = "none"
       THEN /\ ckpt' = [phase |-> "prepared", client |-> client]
            /\ cache' = [cache EXCEPT !.newer = FALSE]
       ELSE UNCHANGED <<ckpt, cache>>
    /\ worker' = [worker EXCEPT !.at = "run", !.cp = ckpt',
                                !.mutated = Index(ckpt'.phase) >= Index("suspended")]
    /\ UNCHANGED <<disk, desktop, job, lock, faults, outside>>

(* Faulty variant: the client version is not carried over. *)
NextPhaseOnly == [phase |-> Phases[Index(worker.cp.phase) + 1]]

NextCheckpoint ==
    [worker.cp EXCEPT !.phase = Phases[Index(worker.cp.phase) + 1]]

Persist ==
    /\ At("persist")
    /\ ckpt' = NextCheckpoint
    /\ worker' = [worker EXCEPT !.at = "run", !.cp = NextCheckpoint]
    /\ UNCHANGED <<disk, desktop, cache, job, lock, faults, outside>>

(* The write fails, or the report that follows it does. *)
PersistFails ==
    /\ At("persist")
    /\ StepFault
    /\ ckpt' \in {ckpt, NextCheckpoint}
    /\ Goto("failed")
    /\ UNCHANGED <<disk, desktop, cache, job, lock, outside>>

Quit ==
    /\ \/ Running("prepared")
       \/ Running("cache-refreshed")
    /\ desktop' = "closed"
    /\ Goto("persist")
    /\ UNCHANGED <<ckpt, disk, cache, job, lock, faults, outside>>

QuitFails ==
    /\ \/ Running("prepared")
       \/ Running("cache-refreshed")
    /\ StepFault
    /\ Goto("failed")
    /\ UNCHANGED <<ckpt, disk, desktop, cache, job, lock, outside>>

(* Opening a running Desktop leaves it as it is. *)
Opened == IF desktop # "closed" THEN desktop
          ELSE IF config = "native" THEN "native" ELSE "mixed"

Open ==
    /\ \/ Running("suspended")
       \/ Running("reactivated")
    /\ desktop' = Opened
    /\ Goto("persist")
    /\ UNCHANGED <<ckpt, disk, cache, job, lock, faults, outside>>

OpenFails ==
    /\ \/ Running("suspended")
       \/ Running("reactivated")
    /\ StepFault
    /\ desktop' \in {desktop, Opened}
    /\ Goto("failed")
    /\ UNCHANGED <<ckpt, disk, cache, job, lock, outside>>

Refreshed == cache.newer /\ cache.client = worker.cp.client

AwaitCache ==
    /\ Running("native-opened")
    /\ Goto(IF Refreshed THEN "persist" ELSE "failed")
    /\ UNCHANGED <<ckpt, disk, desktop, cache, job, lock, faults, outside>>

Completed ==
    /\ Running("completed")
    /\ Goto("unload")
    /\ UNCHANGED <<ckpt, disk, desktop, cache, job, lock, faults, outside>>

(* An error removes the checkpoint of a run that mutated nothing. *)
Failed ==
    /\ At("failed")
    /\ ckpt' = IF worker.mutated THEN ckpt ELSE NoCheckpoint
    /\ Goto("unload")
    /\ UNCHANGED <<disk, desktop, cache, job, lock, faults, outside>>

(* The worker unloads its own job and survives it. *)
Unload ==
    /\ At("unload")
    /\ job' = IF job.plist THEN [job EXCEPT !.loaded = FALSE] ELSE job
    /\ Goto("plistOff")
    /\ UNCHANGED <<ckpt, disk, desktop, cache, lock, faults, outside>>

PlistOff ==
    /\ At("plistOff")
    /\ job' = [job EXCEPT !.plist = FALSE]
    /\ Goto(IF worker.cp.phase = "completed" THEN "clean" ELSE "release")
    /\ UNCHANGED <<ckpt, disk, desktop, cache, lock, faults, outside>>

Clean ==
    /\ At("clean")
    /\ ckpt' = NoCheckpoint
    /\ Goto("release")
    /\ UNCHANGED <<disk, desktop, cache, job, lock, faults, outside>>

CleanupFails ==
    /\ worker.at \in {"unload", "plistOff", "clean"}
    /\ StepFault
    /\ Goto("release")
    /\ UNCHANGED <<ckpt, disk, desktop, cache, job, lock, outside>>

Release ==
    /\ At("release")
    /\ worker' = Idle
    /\ lock' = "free"
    /\ UNCHANGED <<ckpt, disk, desktop, cache, job, faults, outside>>

Workflow == \/ WorkerLock \/ WorkerGivesUp \/ Read \/ Persist \/ Quit \/ Open
            \/ AwaitCache \/ Completed \/ Failed \/ Unload \/ PlistOff
            \/ Clean \/ Release

-----------------------------------------------------------------------------
(* suspendPickerMuxForFullRefresh and reactivatePickerMuxAfterFullRefresh.  *)

alone == <<ckpt, desktop, cache, job, lock, outside>>

Refused == desktop # "closed" \/ Status \in {"unhealthy", "deactivated"}
BridgeMissing == Status = "installed" /\ ~(bridge.runtime /\ bridge.agent)

(* Faulty variant: mutationStarted waits for the suspension to be over.     *)
SuspendUnmarked ==
    /\ Running("first-quit-complete")
    /\ worker' =
         IF Refused \/ BridgeMissing
         THEN Task("failed", "native", "none", "none")
         ELSE Task("bootout", "native",
                   IF Status = "installed" THEN "suspendConfig" ELSE "persist",
                   "failed")
    /\ UNCHANGED <<alone, disk, faults>>

(* A run that was interrupted after the suspension only stops the bridge;   *)
(* one that is still installed needs the bridge it was installed with.      *)
Suspend ==
    /\ Running("first-quit-complete")
    /\ worker' =
         IF Refused \/ BridgeMissing
         THEN [worker EXCEPT !.mutated = TRUE, !.at = "failed"]
         ELSE [worker EXCEPT !.mutated = TRUE, !.at = "bootout", !.else = "failed",
                   !.then = IF Status = "installed" THEN "suspendConfig" ELSE "persist"]
    /\ UNCHANGED <<alone, disk, faults>>

(* Faulty variant: an installed integration is not examined. *)
ReactivateUnexamined ==
    /\ Running("second-quit-complete")
    /\ worker' =
         CASE Refused -> [worker EXCEPT !.at = "failed"]
           [] ~Refused /\ Status = "installed" -> [worker EXCEPT !.at = "persist"]
           [] OTHER ->
                IF bridge.loaded \/ cache.client # client
                THEN [worker EXCEPT !.at = "failed"]
                ELSE Task("runtimeOn", "managed", "managedConfig", "failed")
    /\ UNCHANGED <<alone, disk, faults>>

(* Reactivation: an integration that is installed already is only examined. *)
Reactivate ==
    /\ Running("second-quit-complete")
    /\ worker' =
         CASE Refused -> [worker EXCEPT !.at = "failed"]
           [] ~Refused /\ Status = "installed" ->
                [worker EXCEPT !.at = IF bridge.loaded THEN "persist" ELSE "failed"]
           [] OTHER ->
                IF bridge.loaded \/ cache.client # client
                THEN [worker EXCEPT !.at = "failed"]
                ELSE Task("runtimeOn", "managed", "managedConfig", "failed")
    /\ UNCHANGED <<alone, disk, faults>>

(* stopBridgeService: unload, remove the plist, remove the runtime record.  *)
Bootout ==
    /\ At("bootout")
    /\ IF bridge.loaded /\ ~bridge.agent
       THEN Goto(worker.else) /\ UNCHANGED bridge
       ELSE Goto("agentOff") /\ bridge' = [bridge EXCEPT !.loaded = FALSE]
    /\ UNCHANGED <<alone, config, state, faults>>

AgentOff ==
    /\ At("agentOff")
    /\ bridge' = [bridge EXCEPT !.agent = FALSE]
    /\ Goto("runtimeOff")
    /\ UNCHANGED <<alone, config, state, faults>>

RuntimeOff ==
    /\ At("runtimeOff")
    /\ bridge' = [bridge EXCEPT !.runtime = FALSE]
    /\ Goto(worker.then)
    /\ UNCHANGED <<alone, config, state, faults>>

StopFails ==
    /\ worker.at \in {"bootout", "agentOff", "runtimeOff"}
    /\ StepFault
    /\ Goto(worker.else)
    /\ UNCHANGED <<alone, disk>>

(* startBridgeService: the runtime record, the plist, bootstrap and health. *)
RuntimeOn ==
    /\ At("runtimeOn")
    /\ bridge' = [bridge EXCEPT !.runtime = TRUE]
    /\ Goto("agentOn")
    /\ UNCHANGED <<alone, config, state, faults>>

AgentOn ==
    /\ At("agentOn")
    /\ bridge' = [bridge EXCEPT !.agent = TRUE]
    /\ Goto("bootstrap")
    /\ UNCHANGED <<alone, config, state, faults>>

Bootstrap ==
    /\ At("bootstrap")
    /\ bridge' = [bridge EXCEPT !.loaded = TRUE]
    /\ Goto(worker.then)
    /\ UNCHANGED <<alone, config, state, faults>>

StartFails ==
    /\ worker.at \in {"runtimeOn", "agentOn", "bootstrap"}
    /\ StepFault
    /\ bridge' = Down
    /\ Goto(worker.else)
    /\ UNCHANGED <<alone, config, state>>

(* writeManagedConfigPair and installConfig: config.toml, then the receipt. *)
WriteConfig ==
    /\ At("config")
    /\ config' = worker.goal
    /\ Goto("state")
    /\ UNCHANGED <<alone, state, bridge, faults>>

WriteConfigFails ==
    /\ At("config")
    /\ StepFault
    /\ Goto(worker.else)
    /\ UNCHANGED <<alone, disk>>

WriteState ==
    /\ At("state")
    /\ state' = IF worker.goal = "native" THEN "suspended" ELSE "installed"
    /\ Goto(worker.then)
    /\ UNCHANGED <<alone, config, bridge, faults>>

WriteStateFails ==
    /\ At("state")
    /\ StepFault
    /\ config' = IF worker.goal = "native" THEN "managed" ELSE "native"
    /\ Goto(worker.else)
    /\ UNCHANGED <<alone, state, bridge>>

(* What follows the sequences above, and what undoes them. *)
SuspendConfig ==
    /\ At("suspendConfig")
    /\ worker' = Task("config", "native", "confirm", "undo")
    /\ UNCHANGED <<alone, disk, faults>>

Confirm ==
    /\ At("confirm")
    /\ Goto("persist")
    /\ UNCHANGED <<alone, disk, faults>>

ConfirmFails ==
    /\ At("confirm")
    /\ StepFault
    /\ worker' = Task("config", "managed", "undo", "failed")
    /\ UNCHANGED <<alone, disk>>

Undo ==
    /\ At("undo")
    /\ worker' = IF Status = "installed" /\ ~bridge.loaded
                 THEN Task("runtimeOn", "managed", "failed", "failed")
                 ELSE [worker EXCEPT !.at = "failed"]
    /\ UNCHANGED <<alone, disk, faults>>

ManagedConfig ==
    /\ At("managedConfig")
    /\ worker' = Task("config", "managed", "verify", "dropBridge")
    /\ UNCHANGED <<alone, disk, faults>>

Verify ==
    /\ At("verify")
    /\ Goto("persist")
    /\ UNCHANGED <<alone, disk, faults>>

VerifyFails ==
    /\ At("verify")
    /\ StepFault
    /\ worker' = Task("config", "native", "dropBridge", "dropBridge")
    /\ UNCHANGED <<alone, disk>>

(* Faulty variant: the rollback of an installation forgets the bridge. *)
DropBridgeNever ==
    /\ At("dropBridge")
    /\ Goto("failed")
    /\ UNCHANGED <<alone, disk, faults>>

DropBridge ==
    /\ At("dropBridge")
    /\ worker' = Task("bootout", "native", "failed", "failed")
    /\ UNCHANGED <<alone, disk, faults>>

Callbacks == \/ Suspend \/ Reactivate \/ Bootout \/ AgentOff \/ RuntimeOff
             \/ RuntimeOn \/ AgentOn \/ Bootstrap \/ WriteConfig \/ WriteState
             \/ SuspendConfig \/ Confirm \/ Undo \/ ManagedConfig \/ Verify
             \/ DropBridge

Failures == \/ PersistFails \/ QuitFails \/ OpenFails \/ CleanupFails
            \/ StopFails \/ StartFails \/ WriteConfigFails \/ WriteStateFails
            \/ ConfirmFails \/ VerifyFails

WorkerCrash ==
    /\ worker.at \in CrashPoints
    /\ Fault
    /\ worker' = Idle
    /\ lock' = IF lock = "worker" THEN "free" ELSE lock
    /\ UNCHANGED <<ckpt, disk, desktop, cache, job, outside>>

(* launchd loads the bridge again, and forgets the worker. *)
Reboot ==
    /\ worker.at \in CrashPoints \cup {"none"}
    /\ Fault
    /\ desktop' = "closed"
    /\ bridge' = [bridge EXCEPT !.loaded = bridge.agent]
    /\ job' = [job EXCEPT !.loaded = FALSE]
    /\ worker' = Idle /\ sched' = NoScheduler /\ other' = "none"
    /\ lock' = "free"
    /\ UNCHANGED <<ckpt, config, state, cache, client, others>>

-----------------------------------------------------------------------------
(* Every other lifecycle command looks for a checkpoint under the lock.     *)

OtherStart ==
    /\ other = "none" /\ lock = "free"
    /\ others < MaxOthers
    /\ others' = others + 1
    /\ other' = "check"
    /\ lock' = "other"
    /\ UNCHANGED <<ckpt, disk, desktop, cache, client, job, sched, worker, faults>>

(* Faulty variant: the command looked before it took the lock. *)
OtherUnchecked ==
    /\ other = "check"
    /\ other' = "change"
    /\ UNCHANGED <<ckpt, disk, desktop, cache, client, job, lock, sched, worker, faults, others>>

OtherCheck ==
    /\ other = "check"
    /\ IF ckpt.phase = "none"
       THEN other' = "change" /\ UNCHANGED lock
       ELSE other' = "none" /\ lock' = "free"
    /\ UNCHANGED <<ckpt, disk, desktop, cache, client, job, sched, worker, faults, others>>

(* Setup, removal or deactivation of the integration, taken as a whole.     *)
OtherChange ==
    /\ other = "change"
    /\ \/ config' = "managed" /\ state' = "installed" /\ bridge' = Up
       \/ config' = "native" /\ state' = "none" /\ bridge' = Down
       \/ /\ Status = "installed"
          /\ config' = "native" /\ state' = "deactivated" /\ bridge' = Paused
    /\ other' = "none" /\ lock' = "free"
    /\ UNCHANGED <<ckpt, desktop, cache, client, job, sched, worker, faults, others>>

Others == OtherStart \/ OtherCheck \/ OtherChange

(* Codex and its user: a user who opens Desktop while the integration is    *)
(* taken apart, or quits it before it fetched its models, is a fault.       *)
UserOpens ==
    /\ desktop = "closed"
    /\ desktop' = Opened
    /\ IF ckpt.phase \in {"none", "native-opened"} THEN UNCHANGED faults ELSE Fault
    /\ UNCHANGED <<ckpt, disk, cache, client, job, lock, sched, worker, other, others>>

UserQuits ==
    /\ desktop # "closed"
    /\ desktop' = "closed"
    /\ IF ckpt.phase = "native-opened" /\ desktop = "native" THEN Fault ELSE UNCHANGED faults
    /\ UNCHANGED <<ckpt, disk, cache, client, job, lock, sched, worker, other, others>>

Fetch ==
    /\ desktop = "native"
    /\ cache' = [client |-> client, newer |-> TRUE]
    /\ UNCHANGED <<ckpt, disk, desktop, client, job, lock, sched, worker, other, faults, others>>

Update ==
    /\ client < MaxUpdates
    /\ client' = client + 1
    /\ UNCHANGED <<ckpt, disk, desktop, cache, job, lock, sched, worker, other, faults, others>>

Codex == UserOpens \/ UserQuits \/ Fetch \/ Update

Next == \/ Scheduler \/ SchedCrash \/ LaunchFails
        \/ Workflow \/ Callbacks \/ Failures \/ WorkerCrash \/ Reboot
        \/ Others \/ Codex

Spec == Init /\ [][Next]_vars

(* Processes run; the user reruns a pending refresh, as its messages say,   *)
(* and leaves or enters Desktop when the run waits for that; Codex fetches. *)
Fairness ==
    /\ WF_vars(Scheduler /\ (sched.at # "none" \/ ckpt.phase # "none"))
    /\ WF_vars(Workflow \/ Callbacks)
    /\ SF_vars(WorkerLock)
    /\ WF_vars(OtherCheck \/ OtherChange)
    /\ WF_vars(UserOpens /\ ckpt.phase = "native-opened")
    /\ WF_vars(UserQuits /\ \/ ckpt.phase \in {"first-quit-complete", "second-quit-complete"}
                            \/ ckpt.phase = "native-opened" /\ desktop = "mixed")
    /\ WF_vars(Fetch)

FairSpec == Spec /\ Fairness

-----------------------------------------------------------------------------
(* Correctness. *)

PhaseSet == {Phases[i] : i \in 1 .. Len(Phases)}
Checkpoints == [phase : PhaseSet \cup {"none"}, client : Nat]

(* Every variable has the shape the code gives it. *)
TypeOK ==
    /\ ckpt \in Checkpoints
    /\ config \in {"managed", "native"}
    /\ state \in {"installed", "suspended", "deactivated", "none"}
    /\ bridge \in [agent : BOOLEAN, loaded : BOOLEAN, runtime : BOOLEAN]
    /\ desktop \in {"closed", "native", "mixed"}
    /\ cache \in [client : Nat, newer : BOOLEAN]
    /\ client \in Nat
    /\ job \in [plist : BOOLEAN, loaded : BOOLEAN]
    /\ lock \in {"free", "scheduler", "worker", "other"}
    /\ sched \in [at : {"none", "prepare", "check", "arm", "armClear", "armPlist",
                        "launch", "armFails", "cancel", "cancelPlist",
                        "cancelCheckpoint"}, resumed : BOOLEAN]
    /\ worker \in [at : WorkerSteps \cup {"none"}, goal : {"managed", "native"},
                   then : WorkerSteps \cup {"none"}, else : WorkerSteps \cup {"none"},
                   cp : Checkpoints, mutated : BOOLEAN]
    /\ other \in {"none", "check", "change"}
    /\ faults \in Nat
    /\ others \in Nat

(* A resumed worker trusts the recorded phase.  Whatever failed, died or    *)
(* rebooted before, from "suspended" to "cache-refreshed" Codex is native   *)
(* and the bridge is gone, and from "reactivated" on it is back.            *)
CheckpointTruthful ==
    /\ ckpt.phase \in {"suspended", "native-opened", "cache-refreshed"} =>
            Status = "suspended" /\ bridge = Down
    /\ ckpt.phase \in {"reactivated", "completed"} =>
            Status = "installed" /\ bridge = Up

(* Nothing is left behind: with no checkpoint on disk the integration is    *)
(* whole, paused on purpose or absent, and its bridge with it.              *)
NotStranded ==
    ckpt.phase = "none" =>
        \/ Status = "installed" /\ bridge = Up
        \/ Status = "deactivated" /\ bridge = Paused
        \/ Status = "not-installed" /\ bridge = Down

(* launchd is never asked to start a second worker over a living one, and   *)
(* one process at a time works on the refresh under the lock.               *)
OneWorker ==
    /\ sched.at = "launch" => worker.at = "none"
    /\ sched.at # "none" => worker.at \in {"none", "lock"}

Recovery ==
    INSTANCE PendingRecovery
        WITH None <- "none", pending <- ckpt.phase,
             integration <- CASE state = "installed" -> "active"
                              [] state = "suspended" -> "suspended"
                              [] OTHER               -> "off"

(* The run keeps its promise to the rest of PickerMux. *)
ImplementsPendingRecovery == Recovery!Spec

(* "An interrupted run can resume from its last recorded phase": a pending  *)
(* refresh that the user keeps rerunning ends, one way or the other.        *)
InterruptedRunsResume == ckpt.phase # "none" ~> ckpt.phase = "none"
=============================================================================
