-------------------------- MODULE InstallationLock --------------------------
(***************************************************************************)
(* The lifecycle lock: acquireInstallationLock, recoverStaleInstallation-  *)
(* Lock and withInstallationLock of src/distribution-installer.mjs, and    *)
(* the bounded retry of the full-refresh worker (src/cli.mjs).             *)
(*                                                                         *)
(* Every command that changes the installation is an operating-system      *)
(* process of its own.  The lock is a file created exclusively and filled  *)
(* with the creator's pid in a second step; a file whose pid is dead is    *)
(* moved aside, compared with what was inspected, and removed.  Each step  *)
(* below is one system call on the lock path: between two of them every    *)
(* other process may take any number of steps.                             *)
(***************************************************************************)
EXTENDS Naturals, FiniteSets

CONSTANTS
    Pids,         \* the commands, one process each
    NoPid,        \* contents of a lock file not written yet
    Workers,      \* full-refresh workers, which retry a busy lock
    MaxRetries,   \* retries of a worker (200 in the code)
    MaxFaults     \* killed processes and failed writes in a behaviour

ASSUME LockAssumption ==
    /\ NoPid \notin Pids
    /\ Workers \subseteq Pids
    /\ MaxRetries \in Nat
    /\ MaxFaults \in Nat

VARIABLES
    lock,      \* the file at paths.lockPath
    files,     \* how many lock files were ever created: their identities
    at,        \* next step of every process
    attempt,   \* the loop variable of acquireInstallationLock
    own,       \* identity of the file a process created, then of ownedLock
    seen,      \* the file a process inspected: identity and contents
    aside,     \* the file a process moved to its private stale path
    retries,
    faults,
    strays     \* history: the recoveries that renamed a file they had not inspected

vars == <<lock, files, at, attempt, own, seen, aside, retries, faults, strays>>

(* A file is its identity (device, inode) and its contents (size, times).   *)
(* The change time is left out: a file that was moved and put back counts   *)
(* as unchanged at Read and Recheck, where the code refuses it.             *)
NoFile == [id |-> 0, pid |-> NoPid]
Files  == [id : Nat, pid : Pids \cup {NoPid}]

Ended == {"done", "failed", "crashed"}
Alive(p) == at[p] \notin Ended

Init ==
    /\ lock = NoFile
    /\ files = 0
    /\ at = [p \in Pids |-> "open"]
    /\ attempt = [p \in Pids |-> 0]
    /\ own = [p \in Pids |-> 0]
    /\ seen = [p \in Pids |-> NoFile]
    /\ aside = [p \in Pids |-> NoFile]
    /\ retries = [p \in Pids |-> 0]
    /\ faults = 0
    /\ strays = {}

-----------------------------------------------------------------------------
Goto(p, step) == at' = [at EXCEPT ![p] = step]

(* An error that ends the command, or, with one of the two retryable codes  *)
(* (busy, ENOENT), the attempt of a worker.                                 *)
Fail(p) == /\ Goto(p, "failed")
           /\ UNCHANGED <<attempt, retries>>

FailRetryably(p) ==
    IF p \in Workers /\ retries[p] < MaxRetries
    THEN /\ Goto(p, "open")
         /\ attempt' = [attempt EXCEPT ![p] = 0]
         /\ retries' = [retries EXCEPT ![p] = @ + 1]
    ELSE Fail(p)

(* The second and last attempt to create the file. *)
OpenAgain(p) == /\ Goto(p, "open")
                /\ attempt' = [attempt EXCEPT ![p] = @ + 1]
                /\ UNCHANGED retries

Step(p, step) == Goto(p, step) /\ UNCHANGED <<attempt, retries>>

(* open(lockPath, "wx") *)
Create(p) ==
    /\ at[p] = "open"
    /\ lock = NoFile
    /\ files' = files + 1
    /\ lock' = [id |-> files + 1, pid |-> NoPid]
    /\ own' = [own EXCEPT ![p] = files + 1]
    /\ Step(p, "write")
    /\ UNCHANGED <<seen, aside, faults, strays>>

(* Faulty variant: the loop is not bounded. *)
ExistsUnbounded(p) ==
    /\ at[p] = "open"
    /\ lock # NoFile
    /\ Step(p, "inspect")
    /\ UNCHANGED <<lock, files, own, seen, aside, faults, strays>>

Exists(p) ==
    /\ at[p] = "open"
    /\ lock # NoFile
    /\ IF attempt[p] = 1 THEN FailRetryably(p) ELSE Step(p, "inspect")
    /\ UNCHANGED <<lock, files, own, seen, aside, faults, strays>>

(* The open handle writes the file wherever it is by now. *)
Filled(f, p) == IF f.id = own[p] THEN [f EXCEPT !.pid = p] ELSE f

Write(p) ==
    /\ at[p] = "write"
    /\ lock' = Filled(lock, p)
    /\ aside' = [q \in Pids |-> Filled(aside[q], p)]
    /\ Step(p, "stat")
    /\ UNCHANGED <<files, own, seen, faults, strays>>

WriteFails(p) ==
    /\ at[p] = "write"
    /\ faults < MaxFaults
    /\ faults' = faults + 1
    /\ Step(p, "discard")
    /\ UNCHANGED <<lock, files, own, seen, aside, strays>>

(* lstat(lockPath): whatever file is there is taken for the owned one. *)
Stat(p) ==
    /\ at[p] = "stat"
    /\ IF lock = NoFile
       THEN Step(p, "discardMissing") /\ UNCHANGED own
       ELSE Step(p, "hold") /\ own' = [own EXCEPT ![p] = lock.id]
    /\ UNCHANGED <<lock, files, seen, aside, faults, strays>>

(* A file that was created is unlinked by path when acquisition fails. *)
Discard(p) ==
    /\ at[p] \in {"discard", "discardMissing"}
    /\ lock' = NoFile
    /\ IF at[p] = "discardMissing" THEN FailRetryably(p) ELSE Fail(p)
    /\ UNCHANGED <<files, own, seen, aside, faults, strays>>

-----------------------------------------------------------------------------
(* recoverStaleInstallationLock *)

Inspect(p) ==
    /\ at[p] = "inspect"
    /\ IF lock = NoFile
       THEN OpenAgain(p) /\ UNCHANGED seen
       ELSE Step(p, "read") /\ seen' = [seen EXCEPT ![p] = lock]
    /\ UNCHANGED <<lock, files, own, aside, faults, strays>>

(* The contents are read between two comparisons with the first snapshot.   *)
Read(p) ==
    /\ at[p] = "read"
    /\ CASE lock = NoFile                           -> OpenAgain(p)
         [] lock # NoFile /\ lock # seen[p]         -> Fail(p)
         [] lock # NoFile /\ lock = seen[p] /\ lock.pid = NoPid -> Fail(p)
         [] OTHER                                   -> Step(p, "probe")
    /\ UNCHANGED <<lock, files, own, seen, aside, faults, strays>>

(* Faulty variant: the answer of the probe is not looked at. *)
ProbeNothing(p) ==
    /\ at[p] = "probe"
    /\ Step(p, "recheck")
    /\ UNCHANGED <<lock, files, own, seen, aside, faults, strays>>

(* process.kill(pid, 0) *)
Probe(p) ==
    /\ at[p] = "probe"
    /\ IF Alive(seen[p].pid) THEN FailRetryably(p) ELSE Step(p, "recheck")
    /\ UNCHANGED <<lock, files, own, seen, aside, faults, strays>>

Recheck(p) ==
    /\ at[p] = "recheck"
    /\ CASE lock = seen[p]                     -> Step(p, "rename")
         [] lock # seen[p] /\ lock = NoFile    -> FailRetryably(p)
         [] OTHER                              -> Fail(p)
    /\ UNCHANGED <<lock, files, own, seen, aside, faults, strays>>

(* The rename moves the file that is there now, not the one inspected.      *)
MoveAside(p) ==
    /\ at[p] = "rename"
    /\ IF lock = NoFile
       THEN FailRetryably(p) /\ UNCHANGED <<lock, aside>>
       ELSE /\ Step(p, "verify")
            /\ aside' = [aside EXCEPT ![p] = lock]
            /\ lock' = NoFile
    /\ strays' = IF lock \in {NoFile, seen[p]} THEN strays ELSE strays \cup {p}
    /\ UNCHANGED <<files, own, seen, faults>>

(* Faulty variant: the file moved aside is taken for the one inspected.     *)
VerifyNothing(p) ==
    /\ at[p] = "verify"
    /\ Step(p, "drop")
    /\ UNCHANGED <<lock, files, own, seen, aside, faults, strays>>

(* The open handle still shows a link of the file: it has a path somewhere. *)
Linked(f) == lock.id = f.id \/ \E q \in Pids : aside[q].id = f.id

(* The inspected file is asked for its link count first: when another       *)
(* recovery has unlinked it the command fails there, and the file it moved  *)
(* stays at the stale path.  Only a file that was moved by mistake while    *)
(* the inspected one still exists may be put back.                          *)
Verify(p) ==
    /\ at[p] = "verify"
    /\ CASE ~Linked(seen[p])                          -> Fail(p)
         [] Linked(seen[p]) /\ aside[p] = seen[p]     -> Step(p, "drop")
         [] OTHER                                     -> Step(p, "restoreCheck")
    /\ UNCHANGED <<lock, files, own, seen, aside, faults, strays>>

Drop(p) ==
    /\ at[p] = "drop"
    /\ aside' = [aside EXCEPT ![p] = NoFile]
    /\ OpenAgain(p)
    /\ UNCHANGED <<lock, files, own, seen, faults, strays>>

RestoreCheck(p) ==
    /\ at[p] = "restoreCheck"
    /\ IF lock = NoFile THEN Step(p, "restore") ELSE Fail(p)
    /\ UNCHANGED <<lock, files, own, seen, aside, faults, strays>>

(* rename replaces whatever was created at the lock path in the meantime.   *)
Restore(p) ==
    /\ at[p] = "restore"
    /\ lock' = aside[p]
    /\ aside' = [aside EXCEPT ![p] = NoFile]
    /\ Fail(p)
    /\ UNCHANGED <<files, own, seen, faults, strays>>

-----------------------------------------------------------------------------
(* The operation under the lock, then release(). *)

Finish(p) ==
    /\ at[p] = "hold"
    /\ CASE lock = NoFile                         -> Step(p, "done")
         [] lock # NoFile /\ lock.id # own[p]     -> Fail(p)
         [] OTHER                                 -> Step(p, "unlink")
    /\ UNCHANGED <<lock, files, own, seen, aside, faults, strays>>

Unlink(p) ==
    /\ at[p] = "unlink"
    /\ lock' = NoFile
    /\ IF lock = NoFile THEN Fail(p) ELSE Step(p, "done")
    /\ UNCHANGED <<files, own, seen, aside, faults, strays>>

Crash(p) ==
    /\ faults < MaxFaults
    /\ Alive(p)
    /\ faults' = faults + 1
    /\ Step(p, "crashed")
    /\ UNCHANGED <<lock, files, own, seen, aside, strays>>

Acquire(p) == \/ Create(p) \/ Exists(p) \/ Write(p) \/ WriteFails(p)
              \/ Stat(p) \/ Discard(p)
Recover(p) == \/ Inspect(p) \/ Read(p) \/ Probe(p) \/ Recheck(p)
              \/ MoveAside(p) \/ Verify(p) \/ Drop(p)
              \/ RestoreCheck(p) \/ Restore(p)
Release(p) == Finish(p) \/ Unlink(p)

Next == \E p \in Pids : Acquire(p) \/ Recover(p) \/ Release(p) \/ Crash(p)

Spec == Init /\ [][Next]_vars

-----------------------------------------------------------------------------
(* Correctness. *)

Steps == {"open", "write", "stat", "discard", "discardMissing", "inspect",
          "read", "probe", "recheck", "rename", "verify", "drop",
          "restoreCheck", "restore", "hold", "unlink"} \cup Ended

(* Every variable has the shape the code gives it. *)
TypeOK ==
    /\ lock \in Files
    /\ files \in Nat
    /\ at \in [Pids -> Steps]
    /\ attempt \in [Pids -> {0, 1}]
    /\ own \in [Pids -> Nat]
    /\ seen \in [Pids -> Files]
    /\ aside \in [Pids -> Files]
    /\ retries \in [Pids -> Nat]
    /\ faults \in Nat
    /\ strays \subseteq Pids

Holders == {p \in Pids : at[p] = "hold"}

(* Two commands never change the installation at the same time, although    *)
(* both may be recovering the lock of a third one that died.                *)
MutualExclusion == \A p, q \in Holders : p = q

(* Stale recovery destroys dead locks only: the file it removes for good    *)
(* was written by a process that has ended, however the lock path changed   *)
(* hands since that process was probed.                                     *)
OnlyDeadLocksDropped ==
    \A p \in Pids : at[p] = "drop" => ~ \E q \in Pids : Alive(q) /\ aside[p].pid = q

(* Two commands hold the lock together only by way of a stray recovery: a   *)
(* third command that, recovering the lock of a fourth that died, renamed a *)
(* file it had not inspected.  A crash, a failed write or a retry alone     *)
(* never splits the lock.                                                   *)
SplitTakesFour ==
    \A p, q \in Holders : p # q =>
        \E r \in strays \ {p, q} :
            /\ seen[r].pid \in Pids \ {p, q, r}
            /\ ~Alive(seen[r].pid)

(* Until a recovery has gone astray, a command that has created the lock    *)
(* file finds that very file at the lock path in every later step: a        *)
(* running command is seen by the others, and neither the cleanup of a      *)
(* failed acquisition nor the release, which unlink by path, removes a file *)
(* of somebody else.                                                        *)
OwnFileAtPath ==
    strays = {} =>
        \A p \in Pids :
            at[p] \in {"write", "stat", "discard", "hold", "unlink"} =>
                /\ lock # NoFile
                /\ lock.id = own[p]
                /\ at[p] = "hold" => lock.pid = p
=============================================================================
