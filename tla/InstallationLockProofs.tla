----------------------- MODULE InstallationLockProofs -----------------------
(***************************************************************************)
(* Proofs about InstallationLock for any number of commands, workers,      *)
(* retries and faults.  DeadInv is inductive; its conjuncts say why a file *)
(* that is dropped can only be the one that was inspected.  StrayInv adds  *)
(* what holds until a recovery renames a file it had not inspected, and    *)
(* who such a recovery is.                                                 *)
(***************************************************************************)
EXTENDS InstallationLock, TLAPS

Recovering == {"inspect", "read", "probe", "recheck", "rename", "verify",
               "drop"}
Probed == {"recheck", "rename", "verify", "drop"}

(* Only the first attempt recovers. *)
FirstAttempt == \A p \in Pids : at[p] \in Recovering => attempt[p] = 0

(* Identities are fresh when a file is created. *)
IdsUsed ==
    /\ lock.id \leq files
    /\ \A p \in Pids : own[p] \leq files /\ aside[p].id \leq files

(* A file being written is still empty, and has one writer. *)
Unwritten ==
    \A p \in Pids : at[p] = "write" =>
        /\ lock.id = own[p] => lock.pid = NoPid
        /\ \A q \in Pids : aside[q].id = own[p] => aside[q].pid = NoPid
        /\ \A q \in Pids \ {p} : at[q] = "write" => own[q] # own[p]

(* After the probe, the inspected file names a process that has ended.      *)
SeenDead ==
    \A p \in Pids :
        /\ at[p] = "probe" => seen[p].pid \in Pids
        /\ at[p] \in Probed => seen[p].pid \in Pids /\ at[seen[p].pid] \in Ended
        /\ at[p] = "drop" => aside[p] = seen[p]

DeadInv == TypeOK /\ FirstAttempt /\ IdsUsed /\ Unwritten /\ SeenDead

-----------------------------------------------------------------------------
LEMMA InitDead == Init => DeadInv
  BY LockAssumption DEF Init, DeadInv, TypeOK, FirstAttempt, IdsUsed, Unwritten,
     SeenDead, Probed, Recovering, NoFile, Files, Steps, Ended

(* The four ways a step moves its process on. *)
Moves(p, step) ==
    \/ Step(p, step)
    \/ Fail(p)
    \/ FailRetryably(p)
    \/ OpenAgain(p) /\ attempt[p] = 0

(* A step moves one process only, from a step that is not the end to        *)
(* "open", to "failed" or to the named one.                                 *)
LEMMA MovesOn ==
  ASSUME TypeOK, FirstAttempt, NEW p \in Pids, NEW step \in Steps,
         Moves(p, step), step \in Recovering => attempt[p] = 0
  PROVE  /\ at' \in [Pids -> Steps]
         /\ attempt' \in [Pids -> {0, 1}]
         /\ retries' \in [Pids -> Nat]
         /\ at'[p] \in {"open", "failed", step}
         /\ \A q \in Pids \ {p} : at'[q] = at[q]
         /\ FirstAttempt'
<1>1. CASE Step(p, step)
  BY <1>1 DEF TypeOK, Step, Goto, Steps, Ended, FirstAttempt, Recovering
<1>2. CASE Fail(p)
  BY <1>2 DEF TypeOK, Fail, Goto, Steps, Ended, FirstAttempt, Recovering
<1>3. CASE FailRetryably(p)
  BY <1>3 DEF TypeOK, FailRetryably, Fail, Goto, Steps, Ended, FirstAttempt, Recovering
<1>4. CASE OpenAgain(p) /\ attempt[p] = 0
  BY <1>4 DEF TypeOK, OpenAgain, Goto, Steps, Ended, FirstAttempt, Recovering
<1> QED
  BY <1>1, <1>2, <1>3, <1>4 DEF Moves

(* A step of p that neither writes nor creates a file, and that reaches a   *)
(* step of recovery only as SeenDead allows, keeps the invariant.           *)
LEMMA QuietStep ==
  ASSUME DeadInv, NEW p \in Pids, NEW step \in Steps \ {"write"},
         Moves(p, step), step \in Recovering => attempt[p] = 0,
         at[p] \notin Ended,
         lock' \in Files, aside' \in [Pids -> Files], own' \in [Pids -> Nat],
         seen' \in [Pids -> Files], faults' \in Nat, files' = files,
         strays' \subseteq Pids,
         lock'.id \leq files,
         \A q \in Pids : own'[q] \leq files /\ aside'[q].id \leq files,
         \A q \in Pids \ {p} : /\ own'[q] = own[q]
                               /\ seen'[q] = seen[q]
                               /\ aside'[q] = aside[q],
         lock' \in {lock, NoFile, aside[p]},
         aside'[p] \in {aside[p], NoFile, lock},
         step = "probe" => seen'[p].pid \in Pids,
         step \in Probed => seen'[p].pid \in Pids /\ at[seen'[p].pid] \in Ended,
         step = "drop" => aside'[p] = seen'[p]
  PROVE  DeadInv'
<1>1. /\ at' \in [Pids -> Steps]
      /\ attempt' \in [Pids -> {0, 1}]
      /\ retries' \in [Pids -> Nat]
      /\ at'[p] \in {"open", "failed", step}
      /\ \A q \in Pids \ {p} : at'[q] = at[q]
      /\ FirstAttempt'
  BY MovesOn DEF DeadInv
<1>2. TypeOK'
  BY <1>1 DEF DeadInv, TypeOK
<1>3. IdsUsed'
  BY DEF IdsUsed
<1>4. Unwritten'
  <2> SUFFICES ASSUME NEW r \in Pids, at'[r] = "write"
               PROVE  /\ lock'.id = own'[r] => lock'.pid = NoPid
                      /\ \A q \in Pids : aside'[q].id = own'[r] => aside'[q].pid = NoPid
                      /\ \A q \in Pids \ {r} : at'[q] = "write" => own'[q] # own'[r]
    BY DEF Unwritten
  <2>1. r # p
    BY <1>1
  <2>2. at[r] = "write" /\ own'[r] = own[r]
    BY <1>1, <2>1
  <2>3. /\ lock.id = own[r] => lock.pid = NoPid
        /\ \A q \in Pids : aside[q].id = own[r] => aside[q].pid = NoPid
        /\ \A q \in Pids \ {r} : at[q] = "write" => own[q] # own[r]
    BY <2>2 DEF DeadInv, Unwritten
  <2>4. NoFile.pid = NoPid
    BY DEF NoFile
  <2>5. lock'.id = own'[r] => lock'.pid = NoPid
    BY <2>2, <2>3, <2>4
  <2>6. \A q \in Pids : aside'[q].id = own'[r] => aside'[q].pid = NoPid
    BY <2>2, <2>3, <2>4
  <2>7. \A q \in Pids \ {r} : at'[q] = "write" => own'[q] # own'[r]
    BY <1>1, <2>2, <2>3
  <2> QED
    BY <2>5, <2>6, <2>7
<1>5. SeenDead'
  <2>1. \A q \in Pids : at[q] \in Ended => at'[q] \in Ended
    BY <1>1
  <2>2. ASSUME NEW q \in Pids \ {p}
        PROVE  /\ at'[q] = "probe" => seen'[q].pid \in Pids
               /\ at'[q] \in Probed => seen'[q].pid \in Pids /\ at'[seen'[q].pid] \in Ended
               /\ at'[q] = "drop" => aside'[q] = seen'[q]
    BY <1>1, <2>1 DEF DeadInv, SeenDead
  <2>3. /\ at'[p] = "probe" => seen'[p].pid \in Pids
        /\ at'[p] \in Probed => seen'[p].pid \in Pids /\ at'[seen'[p].pid] \in Ended
        /\ at'[p] = "drop" => aside'[p] = seen'[p]
    BY <1>1, <2>1 DEF Probed
  <2> QED
    BY <2>2, <2>3 DEF SeenDead
<1> QED
  BY <1>1, <1>2, <1>3, <1>4, <1>5 DEF DeadInv

-----------------------------------------------------------------------------
(* What QuietStep asks of the variables that a step leaves alone.           *)
LEMMA Ranges ==
  ASSUME DeadInv
  PROVE  /\ lock \in Files /\ NoFile \in Files
         /\ aside \in [Pids -> Files] /\ own \in [Pids -> Nat]
         /\ seen \in [Pids -> Files] /\ faults \in Nat /\ files \in Nat
         /\ strays \subseteq Pids
         /\ lock.id \leq files /\ NoFile.id \leq files
         /\ \A q \in Pids : own[q] \leq files /\ aside[q].id \leq files
  BY DEF DeadInv, TypeOK, IdsUsed, NoFile, Files

(* A step that only moves its process on. *)
LEMMA PureStep ==
  ASSUME DeadInv, NEW p \in Pids, NEW step \in Steps \ {"write"},
         Moves(p, step), step \in Recovering => attempt[p] = 0,
         at[p] \notin Ended, faults' \in Nat,
         UNCHANGED <<lock, files, own, seen, aside, strays>>,
         step = "probe" => seen[p].pid \in Pids,
         step \in Probed => seen[p].pid \in Pids /\ at[seen[p].pid] \in Ended,
         step = "drop" => aside[p] = seen[p]
  PROVE  DeadInv'
  BY QuietStep, Ranges

LEMMA ExistsDead == ASSUME DeadInv, NEW p \in Pids, Exists(p) PROVE DeadInv'
<1>1. CASE attempt[p] = 1
  BY <1>1, PureStep, Ranges DEF Exists, Moves, Steps, Ended, Recovering, Probed
<1>2. CASE attempt[p] # 1
  <2>1. attempt[p] = 0
    BY <1>2 DEF DeadInv, TypeOK
  <2> QED
    BY <1>2, <2>1, PureStep, Ranges DEF Exists, Moves, Steps, Ended, Recovering, Probed
<1> QED
  BY <1>1, <1>2

LEMMA WriteFailsDead == ASSUME DeadInv, NEW p \in Pids, WriteFails(p) PROVE DeadInv'
  BY PureStep, Ranges DEF WriteFails, Moves, Steps, Ended, Recovering, Probed

LEMMA CrashDead == ASSUME DeadInv, NEW p \in Pids, Crash(p) PROVE DeadInv'
  BY PureStep, Ranges DEF Crash, Moves, Alive, Steps, Ended, Recovering, Probed

LEMMA StatDead == ASSUME DeadInv, NEW p \in Pids, Stat(p) PROVE DeadInv'
<1>1. CASE lock = NoFile
  BY <1>1, PureStep, Ranges DEF Stat, Moves, Steps, Ended, Recovering, Probed
<1>2. CASE lock # NoFile
  <2>1. lock.id \in Nat
    BY Ranges DEF Files
  <2>2. /\ own' \in [Pids -> Nat]
        /\ \A q \in Pids \ {p} : own'[q] = own[q]
        /\ own'[p] = lock.id
    BY <1>2, <2>1, Ranges DEF Stat
  <2>3. \A q \in Pids : own'[q] \leq files /\ aside[q].id \leq files
    BY <2>2, Ranges
  <2> QED
    BY <1>2, <2>2, <2>3, QuietStep, Ranges
       DEF Stat, Moves, Steps, Ended, Recovering, Probed
<1> QED
  BY <1>1, <1>2

LEMMA DiscardDead == ASSUME DeadInv, NEW p \in Pids, Discard(p) PROVE DeadInv'
<1>1. Moves(p, "failed")
  BY DEF Discard, Moves
<1> QED
  BY <1>1, QuietStep, Ranges DEF Discard, Steps, Ended, Recovering, Probed

LEMMA InspectDead == ASSUME DeadInv, NEW p \in Pids, Inspect(p) PROVE DeadInv'
<1>1. attempt[p] = 0
  BY DEF DeadInv, FirstAttempt, Recovering, Inspect
<1>2. CASE lock = NoFile
  BY <1>1, <1>2, PureStep, Ranges
     DEF Inspect, Moves, Steps, Ended, Recovering, Probed
<1>3. CASE lock # NoFile
  <2>1. seen' \in [Pids -> Files] /\ \A q \in Pids \ {p} : seen'[q] = seen[q]
    BY <1>3, Ranges DEF Inspect
  <2> QED
    BY <1>1, <1>3, <2>1, QuietStep, Ranges
       DEF Inspect, Moves, Steps, Ended, Recovering, Probed
<1> QED
  BY <1>2, <1>3

LEMMA ReadDead == ASSUME DeadInv, NEW p \in Pids, Read(p) PROVE DeadInv'
<1>1. attempt[p] = 0
  BY DEF DeadInv, FirstAttempt, Recovering, Read
<1>2. CASE lock = NoFile
  BY <1>1, <1>2, PureStep, Ranges
     DEF Read, Moves, Steps, Ended, Recovering, Probed
<1>3. CASE lock # NoFile /\ (lock # seen[p] \/ lock.pid = NoPid)
  <2>1. Moves(p, "failed")
    BY <1>3 DEF Read, Moves
  <2> QED
    BY <2>1, PureStep, Ranges DEF Read, Steps, Ended, Recovering, Probed
<1>4. CASE lock # NoFile /\ lock = seen[p] /\ lock.pid # NoPid
  <2>1. Step(p, "probe")
    BY <1>4 DEF Read
  <2>2. seen[p].pid \in Pids
    BY <1>4, Ranges DEF Files
  <2> QED
    BY <1>1, <2>1, <2>2, PureStep, Ranges
       DEF Read, Moves, Steps, Ended, Recovering, Probed
<1> QED
  BY <1>2, <1>3, <1>4

LEMMA ProbeDead == ASSUME DeadInv, NEW p \in Pids, Probe(p) PROVE DeadInv'
<1>1. attempt[p] = 0 /\ seen[p].pid \in Pids
  BY DEF DeadInv, FirstAttempt, SeenDead, Recovering, Probe
<1>2. CASE Alive(seen[p].pid)
  BY <1>1, <1>2, PureStep, Ranges
     DEF Probe, Moves, Steps, Ended, Recovering, Probed
<1>3. CASE ~Alive(seen[p].pid)
  BY <1>1, <1>3, PureStep, Ranges
     DEF Probe, Alive, Moves, Steps, Ended, Recovering, Probed
<1> QED
  BY <1>2, <1>3

LEMMA RecheckDead == ASSUME DeadInv, NEW p \in Pids, Recheck(p) PROVE DeadInv'
<1>1. attempt[p] = 0 /\ seen[p].pid \in Pids /\ at[seen[p].pid] \in Ended
  BY DEF DeadInv, FirstAttempt, SeenDead, Recovering, Probed, Recheck
<1>2. Moves(p, "rename")
  BY DEF Recheck, Moves
<1> QED
  BY <1>1, <1>2, PureStep, Ranges DEF Recheck, Steps, Ended, Recovering, Probed

LEMMA MoveAsideDead == ASSUME DeadInv, NEW p \in Pids, MoveAside(p) PROVE DeadInv'
<1>1. attempt[p] = 0 /\ seen[p].pid \in Pids /\ at[seen[p].pid] \in Ended
  BY DEF DeadInv, FirstAttempt, SeenDead, Recovering, Probed, MoveAside
<1>2. CASE lock = NoFile
  BY <1>1, <1>2, PureStep, Ranges
     DEF MoveAside, Moves, Steps, Ended, Recovering, Probed
<1>3. CASE lock # NoFile
  <2>1. /\ aside' \in [Pids -> Files]
        /\ aside'[p] = lock
        /\ \A q \in Pids \ {p} : aside'[q] = aside[q]
    BY <1>3, Ranges DEF MoveAside
  <2>2. \A q \in Pids : own[q] \leq files /\ aside'[q].id \leq files
    BY <2>1, Ranges
  <2> QED
    BY <1>1, <1>3, <2>1, <2>2, QuietStep, Ranges
       DEF MoveAside, Moves, Steps, Ended, Recovering, Probed
<1> QED
  BY <1>2, <1>3

LEMMA VerifyDead == ASSUME DeadInv, NEW p \in Pids, Verify(p) PROVE DeadInv'
<1>1. attempt[p] = 0 /\ seen[p].pid \in Pids /\ at[seen[p].pid] \in Ended
  BY DEF DeadInv, FirstAttempt, SeenDead, Recovering, Probed, Verify
<1>2. CASE ~Linked(seen[p])
  <2>1. Moves(p, "failed")
    BY <1>2 DEF Verify, Moves
  <2> QED
    BY <2>1, PureStep, Ranges DEF Verify, Steps, Ended, Recovering, Probed
<1>3. CASE Linked(seen[p]) /\ aside[p] = seen[p]
  <2>1. Moves(p, "drop")
    BY <1>3 DEF Verify, Moves
  <2> QED
    BY <1>1, <1>3, <2>1, PureStep, Ranges DEF Verify, Steps, Ended, Recovering, Probed
<1>4. CASE Linked(seen[p]) /\ aside[p] # seen[p]
  <2>1. Moves(p, "restoreCheck")
    BY <1>4 DEF Verify, Moves
  <2> QED
    BY <2>1, PureStep, Ranges DEF Verify, Steps, Ended, Recovering, Probed
<1> QED
  BY <1>2, <1>3, <1>4

LEMMA DropDead == ASSUME DeadInv, NEW p \in Pids, Drop(p) PROVE DeadInv'
<1>1. Moves(p, "open")
  BY DEF DeadInv, FirstAttempt, Recovering, Drop, Moves
<1>2. /\ aside' \in [Pids -> Files]
      /\ aside'[p] = NoFile
      /\ \A q \in Pids \ {p} : aside'[q] = aside[q]
  BY Ranges DEF Drop
<1>3. \A q \in Pids : own[q] \leq files /\ aside'[q].id \leq files
  BY <1>2, Ranges
<1> QED
  BY <1>1, <1>2, <1>3, QuietStep, Ranges DEF Drop, Steps, Ended, Recovering, Probed

LEMMA RestoreCheckDead ==
  ASSUME DeadInv, NEW p \in Pids, RestoreCheck(p) PROVE DeadInv'
<1>1. Moves(p, "restore")
  BY DEF RestoreCheck, Moves
<1> QED
  BY <1>1, PureStep, Ranges DEF RestoreCheck, Steps, Ended, Recovering, Probed

LEMMA RestoreDead == ASSUME DeadInv, NEW p \in Pids, Restore(p) PROVE DeadInv'
<1>1. Moves(p, "failed")
  BY DEF Restore, Moves
<1>2. /\ aside' \in [Pids -> Files]
      /\ aside'[p] = NoFile
      /\ \A q \in Pids \ {p} : aside'[q] = aside[q]
  BY Ranges DEF Restore
<1>3. \A q \in Pids : own[q] \leq files /\ aside'[q].id \leq files
  BY <1>2, Ranges
<1>4. lock' \in Files /\ lock' = aside[p] /\ lock'.id \leq files
  BY Ranges DEF Restore
<1> QED
  BY <1>1, <1>2, <1>3, <1>4, QuietStep, Ranges
     DEF Restore, Steps, Ended, Recovering, Probed

LEMMA FinishDead == ASSUME DeadInv, NEW p \in Pids, Finish(p) PROVE DeadInv'
<1>1. CASE lock = NoFile
  BY <1>1, PureStep, Ranges DEF Finish, Moves, Steps, Ended, Recovering, Probed
<1>2. CASE lock # NoFile
  <2>1. Moves(p, "unlink")
    BY <1>2 DEF Finish, Moves
  <2> QED
    BY <2>1, PureStep, Ranges DEF Finish, Steps, Ended, Recovering, Probed
<1> QED
  BY <1>1, <1>2

LEMMA UnlinkDead == ASSUME DeadInv, NEW p \in Pids, Unlink(p) PROVE DeadInv'
<1>1. Moves(p, "done")
  BY DEF Unlink, Moves
<1> QED
  BY <1>1, QuietStep, Ranges DEF Unlink, Steps, Ended, Recovering, Probed

-----------------------------------------------------------------------------
(* The two steps that touch contents. *)

(* A new file has an identity that no other variable knows. *)
LEMMA CreateDead == ASSUME DeadInv, NEW p \in Pids, Create(p) PROVE DeadInv'
<1>1. /\ at' \in [Pids -> Steps]
      /\ at'[p] = "write"
      /\ \A q \in Pids \ {p} : at'[q] = at[q]
      /\ attempt' = attempt
  BY DEF DeadInv, TypeOK, Create, Step, Goto, Steps, Ended
<1>2. files' \in Nat /\ files' > files /\ files' = files + 1
  BY DEF DeadInv, TypeOK, Create
<1>3. /\ lock' = [id |-> files', pid |-> NoPid]
      /\ own' \in [Pids -> Nat]
      /\ own'[p] = files'
      /\ \A q \in Pids \ {p} : own'[q] = own[q]
  BY <1>2 DEF DeadInv, TypeOK, Create
<1>4. UNCHANGED <<seen, aside, faults, retries, strays>>
  BY DEF Create, Step
<1>5. TypeOK'
  BY <1>1, <1>2, <1>3, <1>4 DEF DeadInv, TypeOK, Files
<1>6. FirstAttempt'
  BY <1>1 DEF DeadInv, FirstAttempt, Recovering
<1>7. \A q \in Pids \ {p} : own'[q] < files'
  BY <1>2, <1>3 DEF DeadInv, TypeOK, IdsUsed
<1>8. \A q \in Pids : aside'[q].id < files'
  BY <1>2, <1>4 DEF DeadInv, TypeOK, IdsUsed, Files
<1>9. IdsUsed'
  <2>1. \A q \in Pids : own'[q] \leq files'
    BY <1>2, <1>3, <1>7
  <2>2. \A q \in Pids : aside'[q].id \leq files'
    BY <1>2, <1>4, <1>8 DEF DeadInv, TypeOK, Files
  <2> QED
    BY <1>2, <1>3, <2>1, <2>2 DEF IdsUsed
<1>10. Unwritten'
  <2> SUFFICES ASSUME NEW r \in Pids, at'[r] = "write"
               PROVE  /\ lock'.id = own'[r] => lock'.pid = NoPid
                      /\ \A q \in Pids : aside'[q].id = own'[r] => aside'[q].pid = NoPid
                      /\ \A q \in Pids \ {r} : at'[q] = "write" => own'[q] # own'[r]
    BY DEF Unwritten
  <2>1. \A q \in Pids : own'[q] \in Nat /\ aside'[q].id \in Nat
    BY <1>3, <1>4 DEF DeadInv, TypeOK, Files
  <2>2. CASE r = p
    BY <1>2, <1>3, <1>7, <1>8, <2>1, <2>2
  <2>3. CASE r # p
    <3>1. at[r] = "write" /\ own'[r] = own[r] /\ own'[r] # own'[p]
      BY <1>1, <1>2, <1>3, <1>7, <2>1, <2>3
    <3>2. \A q \in Pids : aside'[q].id = own'[r] => aside'[q].pid = NoPid
      BY <3>1, <1>4 DEF DeadInv, Unwritten
    <3>3. \A q \in Pids \ {r} : at'[q] = "write" => own'[q] # own'[r]
      BY <3>1, <1>1, <1>3 DEF DeadInv, Unwritten
    <3> QED
      BY <1>3, <3>2, <3>3
  <2> QED
    BY <2>2, <2>3
<1>11. SeenDead'
  BY <1>1, <1>4 DEF DeadInv, SeenDead, Probed, Ended, Create
<1> QED
  BY <1>5, <1>6, <1>9, <1>10, <1>11 DEF DeadInv

(* The writer fills its own file only: a file about to be dropped has a     *)
(* pid already, so it is not that one.                                      *)
LEMMA WriteDead == ASSUME DeadInv, NEW p \in Pids, Write(p) PROVE DeadInv'
<1>1. /\ at' \in [Pids -> Steps]
      /\ at[p] = "write" /\ at'[p] = "stat"
      /\ \A q \in Pids \ {p} : at'[q] = at[q]
      /\ attempt' = attempt
  BY DEF DeadInv, TypeOK, Write, Step, Goto, Steps, Ended
<1>2. UNCHANGED <<files, own, seen, faults, retries, strays>>
  BY DEF Write, Step
<1>3. ASSUME NEW f \in Files
      PROVE  /\ Filled(f, p) \in Files /\ Filled(f, p).id = f.id
             /\ f.id # own[p] => Filled(f, p) = f
  BY DEF Filled, Files
<1>4. /\ lock' \in Files /\ lock'.id = lock.id
      /\ lock.id # own[p] => lock' = lock
  BY <1>3 DEF DeadInv, TypeOK, Write
<1>5. ASSUME NEW q \in Pids
      PROVE  /\ aside'[q] \in Files /\ aside'[q].id = aside[q].id
             /\ aside[q].id # own[p] => aside'[q] = aside[q]
  BY <1>3 DEF DeadInv, TypeOK, Write
<1>6. aside' \in [Pids -> Files]
  BY <1>5 DEF Write
<1>7. TypeOK'
  BY <1>1, <1>2, <1>4, <1>6 DEF DeadInv, TypeOK
<1>8. FirstAttempt'
  BY <1>1 DEF DeadInv, FirstAttempt, Recovering
<1>9. IdsUsed'
  BY <1>2, <1>4, <1>5 DEF DeadInv, IdsUsed
<1>10. Unwritten'
  <2> SUFFICES ASSUME NEW r \in Pids, at'[r] = "write"
               PROVE  /\ lock'.id = own'[r] => lock'.pid = NoPid
                      /\ \A q \in Pids : aside'[q].id = own'[r] => aside'[q].pid = NoPid
                      /\ \A q \in Pids \ {r} : at'[q] = "write" => own'[q] # own'[r]
    BY DEF Unwritten
  <2>1. r # p /\ at[r] = "write"
    BY <1>1
  <2>2. own[r] # own[p]
    BY <1>1, <2>1 DEF DeadInv, Unwritten
  <2>3. lock'.id = own'[r] => lock'.pid = NoPid
    BY <1>2, <1>4, <2>1, <2>2 DEF DeadInv, Unwritten
  <2>4. \A q \in Pids : aside'[q].id = own'[r] => aside'[q].pid = NoPid
    BY <1>2, <1>5, <2>1, <2>2 DEF DeadInv, Unwritten
  <2>5. \A q \in Pids \ {r} : at'[q] = "write" => own'[q] # own'[r]
    BY <1>1, <1>2, <2>1 DEF DeadInv, Unwritten
  <2> QED
    BY <2>3, <2>4, <2>5
<1>11. SeenDead'
  <2> SUFFICES ASSUME NEW q \in Pids
               PROVE  /\ at'[q] = "probe" => seen'[q].pid \in Pids
                      /\ at'[q] \in Probed => /\ seen'[q].pid \in Pids
                                              /\ at'[seen'[q].pid] \in Ended
                      /\ at'[q] = "drop" => aside'[q] = seen'[q]
    BY DEF SeenDead
  <2>1. /\ at'[q] \in Probed \cup {"probe"} => at[q] = at'[q]
        /\ "drop" \in Probed
    BY <1>1 DEF Probed
  <2>2. \A r \in Pids : at[r] \in Ended => at'[r] \in Ended
    BY <1>1 DEF Ended
  <2>3. at[q] = "drop" => aside[q] = seen[q] /\ aside[q].pid # NoPid
    BY LockAssumption DEF DeadInv, SeenDead, Probed
  <2>4. at[q] = "drop" => aside[q].id # own[p]
    BY <1>1, <2>3 DEF DeadInv, Unwritten
  <2>5. /\ at[q] = "probe" => seen[q].pid \in Pids
        /\ at[q] \in Probed => seen[q].pid \in Pids /\ at[seen[q].pid] \in Ended
    BY DEF DeadInv, SeenDead
  <2>6. at[q] = "drop" => aside'[q] = seen[q]
    BY <1>5, <2>3, <2>4
  <2> QED
    BY <1>2, <2>1, <2>2, <2>5, <2>6
<1> QED
  BY <1>7, <1>8, <1>9, <1>10, <1>11 DEF DeadInv

-----------------------------------------------------------------------------
LEMMA StepDead == DeadInv /\ [Next]_vars => DeadInv'
<1> SUFFICES ASSUME DeadInv, [Next]_vars PROVE DeadInv'
  OBVIOUS
<1>1. CASE UNCHANGED vars
  BY <1>1 DEF vars, DeadInv, TypeOK, FirstAttempt, IdsUsed, Unwritten, SeenDead
<1>2. ASSUME NEW p \in Pids, Acquire(p) PROVE DeadInv'
  BY <1>2, CreateDead, ExistsDead, WriteDead, WriteFailsDead, StatDead,
     DiscardDead DEF Acquire
<1>3. ASSUME NEW p \in Pids, Recover(p) PROVE DeadInv'
  BY <1>3, InspectDead, ReadDead, ProbeDead, RecheckDead, MoveAsideDead,
     VerifyDead, DropDead, RestoreCheckDead, RestoreDead DEF Recover
<1>4. ASSUME NEW p \in Pids, Release(p) PROVE DeadInv'
  BY <1>4, FinishDead, UnlinkDead DEF Release
<1> QED
  BY <1>1, <1>2, <1>3, <1>4, CrashDead DEF Next

(* Every variable keeps the shape the code gives it. *)
THEOREM LockTypeCorrect == Spec => []TypeOK
<1>1. DeadInv => TypeOK
  BY DEF DeadInv
<1> QED
  BY <1>1, InitDead, StepDead, PTL DEF Spec

(* recoverStaleInstallationLock never deletes the lock of a running         *)
(* command, whatever happens at the lock path between its probe, its rename *)
(* and its comparison of the moved file.                                    *)
THEOREM OnlyDeadLocksAreDropped == Spec => []OnlyDeadLocksDropped
<1>1. DeadInv => OnlyDeadLocksDropped
  BY DEF DeadInv, SeenDead, OnlyDeadLocksDropped, Probed, Alive
<1> QED
  BY <1>1, InitDead, StepDead, PTL DEF Spec

-----------------------------------------------------------------------------
(* What a stray recovery is and what holds until there is one. *)

(* A command that created the file, until it has removed it or failed.      *)
Inside == {"write", "stat", "discard", "discardMissing", "hold", "unlink"}
Written == {"stat", "hold", "unlink"}
Restoring == {"restoreCheck", "restore"}

(* A stray recovery is on its way out, and inspected the file of an ended   *)
(* command.                                                                 *)
StrayDead ==
    \A r \in strays :
        /\ at[r] \in Restoring \cup {"verify", "failed", "crashed"}
        /\ seen[r].pid \in Pids \ {r}
        /\ at[seen[r].pid] \in Ended
        /\ at[r] = "verify" => aside[r] # seen[r]

(* The file at the lock path is the one p created. *)
Placed(p) ==
    /\ own[p] > 0
    /\ lock.id = own[p]
    /\ lock.pid \in {p, NoPid}
    /\ at[p] \in Written => lock.pid = p

AllPlaced == \A p \in Pids : at[p] \in Inside => at[p] # "discardMissing" /\ Placed(p)
OneInside == \A p, q \in Pids : at[p] \in Inside /\ at[q] \in Inside => p = q
Straight  == \A p \in Pids : /\ at[p] \notin Restoring
                             /\ at[p] = "verify" => aside[p] = seen[p]

Orderly  == AllPlaced /\ OneInside /\ Straight
StrayInv == DeadInv /\ StrayDead /\ (strays = {} => Orderly)

LEMMA InitStray == Init => StrayInv
  BY InitDead DEF Init, StrayInv, StrayDead, Orderly, AllPlaced, OneInside, Straight,
     Inside, Restoring

(* A step moves one command only. *)
LEMMA MovesOne ==
  ASSUME TypeOK, NEW r \in Pids, NEW step \in Steps, Moves(r, step)
  PROVE  /\ at'[r] \in {"open", "failed", step}
         /\ \A q \in Pids \ {r} : at'[q] = at[q]
  BY DEF TypeOK, Moves, Step, Fail, FailRetryably, OpenAgain, Goto

-----------------------------------------------------------------------------
(* Stray recoveries. *)

(* A recovery that has gone astray inspects nothing any more, and stays on  *)
(* its way out.                                                             *)
LEMMA StrayStays ==
  ASSUME StrayDead, strays \subseteq Pids, NEW r \in Pids, Alive(r),
         \A q \in Pids \ {r} : at'[q] = at[q] /\ seen'[q] = seen[q] /\ aside'[q] = aside[q],
         strays' = strays, seen'[r] = seen[r] \/ r \notin strays,
         r \in strays => at'[r] \in Restoring \cup {"failed", "crashed"}
  PROVE  StrayDead'
<1> SUFFICES ASSUME NEW p \in strays, p \in Pids
             PROVE  /\ at'[p] \in Restoring \cup {"verify", "failed", "crashed"}
                    /\ seen'[p].pid \in Pids \ {p}
                    /\ at'[seen'[p].pid] \in Ended
                    /\ at'[p] = "verify" => aside'[p] # seen'[p]
  BY DEF StrayDead
<1>1. seen'[p] = seen[p] /\ seen[p].pid \in Pids \ {p} /\ at[seen[p].pid] \in Ended
  BY DEF StrayDead
<1>2. at'[seen[p].pid] \in Ended
  BY <1>1 DEF Alive
<1>3. at'[p] \in Restoring \cup {"verify", "failed", "crashed"}
  BY DEF StrayDead
<1>4. at'[p] = "verify" => aside'[p] # seen'[p]
  BY DEF StrayDead, Restoring
<1> QED
  BY <1>1, <1>2, <1>3, <1>4

(* What StrayInv gives about the process of a step. *)
LEMMA Facts ==
  ASSUME StrayInv
  PROVE  /\ DeadInv /\ TypeOK /\ StrayDead /\ strays \subseteq Pids
         /\ strays = {} => AllPlaced /\ OneInside /\ Straight
  BY DEF StrayInv, DeadInv, TypeOK, Orderly

(* A step of r that leaves the lock path alone, brings r inside only from   *)
(* inside, and nowhere a recovery could go astray.                          *)
LEMMA QuietOrderly ==
  ASSUME AllPlaced, OneInside, Straight, NEW r \in Pids,
         \A q \in Pids \ {r} : at'[q] = at[q] /\ seen'[q] = seen[q] /\ aside'[q] = aside[q],
         UNCHANGED <<lock, own>>,
         at'[r] \in Inside \ {"discardMissing"} => at[r] \in Inside,
         at'[r] \in Written => at[r] \in Written,
         at'[r] \notin Restoring \cup {"verify", "discardMissing"}
  PROVE  Orderly'
<1>1. AllPlaced'
  BY DEF AllPlaced, Placed, Inside
<1>2. OneInside'
  BY DEF OneInside, Inside
<1>3. Straight'
  BY DEF Straight
<1> QED
  BY <1>1, <1>2, <1>3 DEF Orderly

(* A step of r after which nobody is inside. *)
LEMMA NobodyOrderly ==
  ASSUME Straight, NEW r \in Pids,
         \A q \in Pids \ {r} : /\ at'[q] = at[q] /\ seen'[q] = seen[q]
                               /\ aside'[q] = aside[q] /\ at[q] \notin Inside,
         at'[r] \notin Inside \cup Restoring,
         at'[r] = "verify" => aside'[r] = seen'[r]
  PROVE  Orderly'
  BY DEF Orderly, AllPlaced, OneInside, Straight

-----------------------------------------------------------------------------
(* One lemma per action.  The steps that move no file. *)

(* A step of a command that is not astray, to one of the named steps.       *)
LEMMA QuietStray ==
  ASSUME StrayInv, NEW r \in Pids, Alive(r), NEW step \in Steps, Moves(r, step),
         at[r] \notin Restoring \cup {"verify"},
         \A q \in Pids \ {r} : seen'[q] = seen[q] /\ aside'[q] = aside[q],
         UNCHANGED <<lock, own, strays>>,
         step \in Inside \ {"discardMissing"} => at[r] \in Inside,
         step \in Written => at[r] \in Written,
         step \notin Restoring \cup {"verify", "discardMissing"}
  PROVE  StrayDead' /\ (strays' = {} => Orderly')
<1>1. /\ at'[r] \in {"open", "failed", step}
      /\ \A q \in Pids \ {r} : at'[q] = at[q]
  BY MovesOne, Facts
<1>2. r \notin strays
  BY DEF StrayInv, StrayDead, Alive, Ended
<1>3. StrayDead'
  BY <1>1, <1>2, Facts, StrayStays
<1>4. ASSUME strays' = {} PROVE Orderly'
  BY <1>1, <1>4, Facts, QuietOrderly DEF Inside, Written, Restoring
<1> QED
  BY <1>3, <1>4

LEMMA ExistsStray ==
  ASSUME StrayInv, NEW r \in Pids, Exists(r)
  PROVE  StrayDead' /\ (strays' = {} => Orderly')
<1>1. Moves(r, "inspect")
  BY DEF Exists, Moves
<1> QED
  BY <1>1, QuietStray DEF Exists, Alive, Steps, Ended, Inside, Written, Restoring

LEMMA WriteFailsStray ==
  ASSUME StrayInv, NEW r \in Pids, WriteFails(r)
  PROVE  StrayDead' /\ (strays' = {} => Orderly')
<1>1. Moves(r, "discard")
  BY DEF WriteFails, Moves
<1> QED
  BY <1>1, QuietStray DEF WriteFails, Alive, Steps, Ended, Inside, Written, Restoring

LEMMA InspectStray ==
  ASSUME StrayInv, NEW r \in Pids, Inspect(r)
  PROVE  StrayDead' /\ (strays' = {} => Orderly')
<1>1. Moves(r, "read")
  BY Facts DEF Inspect, Moves, DeadInv, FirstAttempt, Recovering
<1>2. \A q \in Pids \ {r} : seen'[q] = seen[q]
  BY Facts DEF Inspect, TypeOK
<1> QED
  BY <1>1, <1>2, QuietStray DEF Inspect, Alive, Steps, Ended, Inside, Written, Restoring

LEMMA ReadStray ==
  ASSUME StrayInv, NEW r \in Pids, Read(r)
  PROVE  StrayDead' /\ (strays' = {} => Orderly')
<1>1. attempt[r] = 0
  BY Facts DEF Read, DeadInv, FirstAttempt, Recovering
<1>2. CASE lock = NoFile
  <2>1. Moves(r, "probe")
    BY <1>1, <1>2 DEF Read, Moves
  <2> QED
    BY <2>1, QuietStray DEF Read, Alive, Steps, Ended, Inside, Written, Restoring
<1>3. CASE lock # NoFile
  <2>1. Moves(r, "probe")
    BY <1>1, <1>3 DEF Read, Moves
  <2> QED
    BY <2>1, QuietStray DEF Read, Alive, Steps, Ended, Inside, Written, Restoring
<1> QED
  BY <1>2, <1>3

LEMMA ProbeStray ==
  ASSUME StrayInv, NEW r \in Pids, Probe(r)
  PROVE  StrayDead' /\ (strays' = {} => Orderly')
<1>1. Moves(r, "recheck")
  BY DEF Probe, Moves
<1> QED
  BY <1>1, QuietStray DEF Probe, Alive, Steps, Ended, Inside, Written, Restoring

LEMMA RecheckStray ==
  ASSUME StrayInv, NEW r \in Pids, Recheck(r)
  PROVE  StrayDead' /\ (strays' = {} => Orderly')
<1>1. Moves(r, "rename")
  BY DEF Recheck, Moves
<1> QED
  BY <1>1, QuietStray DEF Recheck, Alive, Steps, Ended, Inside, Written, Restoring

LEMMA DropStray ==
  ASSUME StrayInv, NEW r \in Pids, Drop(r)
  PROVE  StrayDead' /\ (strays' = {} => Orderly')
<1>1. Moves(r, "open")
  BY Facts DEF Drop, Moves, DeadInv, FirstAttempt, Recovering
<1>2. \A q \in Pids \ {r} : aside'[q] = aside[q]
  BY Facts DEF Drop, TypeOK
<1> QED
  BY <1>1, <1>2, QuietStray DEF Drop, Alive, Steps, Ended, Inside, Written, Restoring

LEMMA FinishStray ==
  ASSUME StrayInv, NEW r \in Pids, Finish(r)
  PROVE  StrayDead' /\ (strays' = {} => Orderly')
<1>1. CASE lock = NoFile
  <2>1. Moves(r, "done")
    BY <1>1 DEF Finish, Moves
  <2> QED
    BY <2>1, QuietStray DEF Finish, Alive, Steps, Ended, Inside, Written, Restoring
<1>2. CASE lock # NoFile
  <2>1. Moves(r, "unlink")
    BY <1>2 DEF Finish, Moves
  <2> QED
    BY <2>1, QuietStray DEF Finish, Alive, Steps, Ended, Inside, Written, Restoring
<1> QED
  BY <1>1, <1>2

LEMMA CrashStray ==
  ASSUME StrayInv, NEW r \in Pids, Crash(r)
  PROVE  StrayDead' /\ (strays' = {} => Orderly')
<1>1. /\ at'[r] = "crashed" /\ Alive(r)
      /\ \A q \in Pids \ {r} : at'[q] = at[q]
      /\ UNCHANGED <<lock, own, seen, aside, strays>>
  BY Facts DEF Crash, Step, Goto, TypeOK
<1>2. StrayDead'
  BY <1>1, Facts, StrayStays
<1>3. ASSUME strays' = {} PROVE Orderly'
  BY <1>1, <1>3, Facts, QuietOrderly DEF Inside, Written, Restoring
<1> QED
  BY <1>2, <1>3

(* Stat takes the file at the lock path for its own: until a recovery has   *)
(* gone astray that is the file it created.                                 *)
LEMMA StatStray ==
  ASSUME StrayInv, NEW r \in Pids, Stat(r)
  PROVE  StrayDead' /\ (strays' = {} => Orderly')
<1>1. /\ at'[r] \in {"hold", "discardMissing"} /\ Alive(r) /\ at[r] = "stat"
      /\ \A q \in Pids \ {r} : at'[q] = at[q]
      /\ UNCHANGED <<lock, seen, aside, strays>>
  BY Facts DEF Stat, Step, Goto, TypeOK, Alive, Ended
<1>2. r \notin strays
  BY <1>1, Facts DEF StrayDead, Restoring
<1>3. StrayDead'
  BY <1>1, <1>2, Facts, StrayStays
<1>4. ASSUME strays' = {} PROVE Orderly'
  <2>1. Placed(r)
    BY <1>1, <1>4, Facts DEF AllPlaced, Inside
  <2>2. lock # NoFile
    BY <2>1 DEF Placed, NoFile
  <2>3. own' = own /\ at'[r] = "hold"
    BY <2>1, <2>2, Facts DEF Stat, Placed, TypeOK, Step, Goto
  <2> QED
    BY <1>1, <1>4, <2>3, Facts, QuietOrderly DEF Inside, Written, Restoring
<1> QED
  BY <1>3, <1>4

-----------------------------------------------------------------------------
(* The steps of a recovery that has moved a file. *)

LEMMA VerifyStray ==
  ASSUME StrayInv, NEW r \in Pids, Verify(r)
  PROVE  StrayDead' /\ (strays' = {} => Orderly')
<1>1. /\ at[r] = "verify" /\ Alive(r)
      /\ at'[r] \in {"failed", "drop", "restoreCheck"}
      /\ \A q \in Pids \ {r} : at'[q] = at[q]
      /\ UNCHANGED <<lock, own, seen, aside, strays>>
  BY Facts DEF Verify, Step, Fail, Goto, TypeOK, Alive, Ended
<1>2. aside[r] # seen[r] => at'[r] # "drop"
  BY Facts DEF Verify, Step, Fail, Goto, TypeOK
<1>3. aside[r] = seen[r] => at'[r] = "drop"
  BY Facts DEF Verify, Linked, Step, Goto, TypeOK
<1>4. r \in strays => at'[r] \in Restoring \cup {"failed", "crashed"}
  BY <1>1, <1>2, Facts DEF StrayDead, Restoring
<1>5. StrayDead'
  BY <1>1, <1>4, Facts, StrayStays
<1>6. ASSUME strays' = {} PROVE Orderly'
  <2>1. at'[r] = "drop"
    BY <1>1, <1>3, <1>6, Facts DEF Straight
  <2> QED
    BY <1>1, <1>6, <2>1, Facts, QuietOrderly DEF Inside, Written, Restoring
<1> QED
  BY <1>5, <1>6

LEMMA RestoreCheckStray ==
  ASSUME StrayInv, NEW r \in Pids, RestoreCheck(r)
  PROVE  StrayDead' /\ (strays' = {} => Orderly')
<1>1. /\ at[r] = "restoreCheck" /\ Alive(r)
      /\ at'[r] \in {"failed", "restore"}
      /\ \A q \in Pids \ {r} : at'[q] = at[q]
      /\ UNCHANGED <<lock, own, seen, aside, strays>>
  BY Facts DEF RestoreCheck, Step, Fail, Goto, TypeOK, Alive, Ended
<1>2. StrayDead'
  BY <1>1, Facts, StrayStays DEF Restoring
<1>3. strays' # {}
  BY <1>1, Facts DEF Straight, Restoring
<1> QED
  BY <1>2, <1>3

LEMMA RestoreStray ==
  ASSUME StrayInv, NEW r \in Pids, Restore(r)
  PROVE  StrayDead' /\ (strays' = {} => Orderly')
<1>1. /\ at[r] = "restore" /\ Alive(r)
      /\ at'[r] = "failed"
      /\ \A q \in Pids \ {r} : at'[q] = at[q] /\ aside'[q] = aside[q]
      /\ UNCHANGED <<own, seen, strays>>
  BY Facts DEF Restore, Fail, Goto, TypeOK, Alive, Ended
<1>2. StrayDead'
  BY <1>1, Facts, StrayStays
<1>3. strays' # {}
  BY <1>1, Facts DEF Straight, Restoring
<1> QED
  BY <1>2, <1>3

(* The rename.  With nobody astray it moves the file that was inspected,    *)
(* whose command has ended: it is the file of nobody inside.                *)
LEMMA MoveAsideStray ==
  ASSUME StrayInv, NEW r \in Pids, MoveAside(r)
  PROVE  StrayDead' /\ (strays' = {} => Orderly')
<1>1. /\ at[r] = "rename" /\ Alive(r) /\ r \notin strays
      /\ seen[r].pid \in Pids /\ at[seen[r].pid] \in Ended
      /\ UNCHANGED <<own, seen>>
  BY Facts DEF MoveAside, Alive, Ended, StrayDead, Restoring, DeadInv, SeenDead, Probed
<1>2. CASE lock = NoFile
  <2>1. Moves(r, "open")
    BY <1>2 DEF MoveAside, Moves
  <2> QED
    BY <1>1, <1>2, <2>1, QuietStray
       DEF MoveAside, Steps, Ended, Inside, Written, Restoring
<1>3. CASE lock # NoFile
  <2>1. /\ at'[r] = "verify" /\ aside'[r] = lock
        /\ \A q \in Pids \ {r} : at'[q] = at[q] /\ aside'[q] = aside[q]
    BY <1>3, Facts DEF MoveAside, Step, Goto, TypeOK
  <2>2. seen[r].pid # r
    BY <1>1 DEF Alive
  <2>3. at'[seen[r].pid] \in Ended
    BY <1>1, <2>1, <2>2
  <2>4. CASE lock = seen[r]
    <3>1. strays' = strays
      BY <2>4 DEF MoveAside
    <3>2. StrayDead'
      BY <1>1, <2>1, <3>1, Facts, StrayStays
    <3>3. ASSUME strays' = {} PROVE Orderly'
      <4>1. ASSUME NEW p \in Pids, at[p] \in Inside PROVE FALSE
        <5>1. lock.pid \in {p, NoPid}
          BY <3>1, <3>3, <4>1, Facts DEF AllPlaced, Placed
        <5>2. lock.pid = p
          BY <1>1, <2>4, <5>1, LockAssumption
        <5> QED
          BY <1>1, <2>4, <4>1, <5>2 DEF Inside, Ended
      <4>2. Straight
        BY <3>1, <3>3, Facts
      <4> QED
        BY <1>1, <2>1, <2>4, <4>1, <4>2, NobodyOrderly DEF Inside, Restoring
    <3> QED
      BY <3>2, <3>3
  <2>5. CASE lock # seen[r]
    <3>1. strays' = strays \cup {r}
      BY <1>3, <2>5 DEF MoveAside
    <3>2. ASSUME NEW p \in strays'
          PROVE  /\ at'[p] \in Restoring \cup {"verify", "failed", "crashed"}
                 /\ seen'[p].pid \in Pids \ {p}
                 /\ at'[seen'[p].pid] \in Ended
                 /\ at'[p] = "verify" => aside'[p] # seen'[p]
      <4>1. CASE p = r
        BY <1>1, <2>1, <2>2, <2>3, <2>5, <4>1
      <4>2. CASE p # r
        <5>1. p \in strays /\ p \in Pids
          BY <3>1, <3>2, <4>2, Facts
        <5>2. /\ at[p] \in Restoring \cup {"verify", "failed", "crashed"}
              /\ seen[p].pid \in Pids \ {p}
              /\ at[seen[p].pid] \in Ended
              /\ at[p] = "verify" => aside[p] # seen[p]
          BY <5>1, Facts DEF StrayDead
        <5>3. seen[p].pid # r
          BY <1>1, <5>2 DEF Alive
        <5> QED
          BY <1>1, <2>1, <4>2, <5>1, <5>2, <5>3
      <4> QED
        BY <4>1, <4>2
    <3>3. StrayDead'
      BY <3>2 DEF StrayDead
    <3> QED
      BY <3>1, <3>3
  <2> QED
    BY <2>4, <2>5
<1> QED
  BY <1>2, <1>3

-----------------------------------------------------------------------------
(* The steps inside that create, fill and unlink a file. *)

(* With nobody astray, only one command is inside. *)
LEMMA Alone ==
  ASSUME StrayInv, strays = {}, NEW r \in Pids, at[r] \in Inside
  PROVE  \A q \in Pids \ {r} : at[q] \notin Inside
  BY Facts DEF OneInside

LEMMA DiscardStray ==
  ASSUME StrayInv, NEW r \in Pids, Discard(r)
  PROVE  StrayDead' /\ (strays' = {} => Orderly')
<1>1. Moves(r, "failed") /\ "failed" \in Steps
  BY DEF Discard, Moves, Steps, Ended
<1>2. /\ at[r] \in Inside /\ Alive(r) /\ r \notin strays
      /\ at'[r] \in {"open", "failed"}
      /\ \A q \in Pids \ {r} : at'[q] = at[q]
      /\ UNCHANGED <<seen, aside, strays>>
  BY <1>1, MovesOne, Facts DEF Discard, Alive, Ended, Inside, StrayDead, Restoring
<1>3. StrayDead'
  BY <1>2, Facts, StrayStays
<1>4. ASSUME strays' = {} PROVE Orderly'
  BY <1>2, <1>4, Facts, Alone, NobodyOrderly DEF Inside, Restoring
<1> QED
  BY <1>3, <1>4

LEMMA UnlinkStray ==
  ASSUME StrayInv, NEW r \in Pids, Unlink(r)
  PROVE  StrayDead' /\ (strays' = {} => Orderly')
<1>1. Moves(r, "done") /\ "done" \in Steps
  BY DEF Unlink, Moves, Steps, Ended
<1>2. /\ at[r] \in Inside /\ Alive(r) /\ r \notin strays
      /\ at'[r] \in {"open", "failed", "done"}
      /\ \A q \in Pids \ {r} : at'[q] = at[q]
      /\ UNCHANGED <<seen, aside, strays>>
  BY <1>1, MovesOne, Facts DEF Unlink, Alive, Ended, Inside, StrayDead, Restoring
<1>3. StrayDead'
  BY <1>2, Facts, StrayStays
<1>4. ASSUME strays' = {} PROVE Orderly'
  BY <1>2, <1>4, Facts, Alone, NobodyOrderly DEF Inside, Restoring
<1> QED
  BY <1>3, <1>4

(* The path is free, so nobody was inside. *)
LEMMA CreateStray ==
  ASSUME StrayInv, NEW r \in Pids, Create(r)
  PROVE  StrayDead' /\ (strays' = {} => Orderly')
<1>1. /\ at[r] = "open" /\ at'[r] = "write" /\ Alive(r) /\ r \notin strays
      /\ \A q \in Pids \ {r} : at'[q] = at[q] /\ own'[q] = own[q]
      /\ lock = NoFile /\ UNCHANGED <<seen, aside, strays>>
  BY Facts DEF Create, Step, Goto, TypeOK, Alive, Ended, StrayDead, Restoring
<1>2. own'[r] = files + 1 /\ lock' = [id |-> files + 1, pid |-> NoPid] /\ files \in Nat
  BY Facts DEF Create, TypeOK
<1>3. StrayDead'
  BY <1>1, Facts, StrayStays
<1>4. ASSUME strays' = {} PROVE Orderly'
  <2>1. \A q \in Pids : at[q] \notin Inside
    BY <1>1, <1>4, Facts DEF AllPlaced, Placed, NoFile
  <2>2. Placed(r)'
    BY <1>1, <1>2 DEF Placed, Written
  <2>3. AllPlaced'
    BY <1>1, <2>1, <2>2 DEF AllPlaced
  <2>4. OneInside'
    BY <1>1, <2>1 DEF OneInside
  <2>5. Straight'
    BY <1>1, <1>4, Facts DEF Straight, Restoring
  <2> QED
    BY <2>3, <2>4, <2>5 DEF Orderly
<1> QED
  BY <1>3, <1>4

(* A file that is being filled is empty, so no recovery has inspected it.   *)
LEMMA WriteStray ==
  ASSUME StrayInv, NEW r \in Pids, Write(r)
  PROVE  StrayDead' /\ (strays' = {} => Orderly')
<1>1. /\ at[r] = "write" /\ at'[r] = "stat" /\ Alive(r) /\ r \notin strays
      /\ \A q \in Pids \ {r} : at'[q] = at[q]
      /\ UNCHANGED <<own, seen, strays>>
  BY Facts DEF Write, Step, Goto, TypeOK, Alive, Ended, StrayDead, Restoring
<1>2. ASSUME NEW f \in Files
      PROVE  /\ Filled(f, r).id = f.id
             /\ f.id # own[r] => Filled(f, r) = f
             /\ f.id = own[r] => Filled(f, r).pid = r
  BY DEF Filled, Files
<1>3. ASSUME NEW q \in Pids
      PROVE  /\ aside[q].id # own[r] => aside'[q] = aside[q]
             /\ aside[q].id = own[r] => aside[q].pid = NoPid /\ aside'[q].pid = r
  BY <1>1, <1>2, Facts DEF Write, TypeOK, DeadInv, Unwritten
<1>4. ASSUME NEW q \in strays
      PROVE  /\ at'[q] \in Restoring \cup {"verify", "failed", "crashed"}
             /\ seen'[q].pid \in Pids \ {q}
             /\ at'[seen'[q].pid] \in Ended
             /\ at'[q] = "verify" => aside'[q] # seen'[q]
  <2>1. /\ q \in Pids /\ q # r
        /\ at[q] \in Restoring \cup {"verify", "failed", "crashed"}
        /\ seen[q].pid \in Pids \ {q}
        /\ at[seen[q].pid] \in Ended
        /\ at[q] = "verify" => aside[q] # seen[q]
    BY <1>1, Facts DEF StrayDead
  <2>2. seen[q].pid # r
    BY <1>1, <2>1 DEF Alive
  <2>3. at'[q] = "verify" => aside'[q] # seen'[q]
    BY <1>1, <1>3, <2>1, <2>2
  <2> QED
    BY <1>1, <2>1, <2>2, <2>3
<1>5. StrayDead'
  BY <1>1, <1>4 DEF StrayDead
<1>6. ASSUME strays' = {} PROVE Orderly'
  <2>1. Placed(r) /\ \A q \in Pids \ {r} : at[q] \notin Inside
    BY <1>1, <1>6, Facts, Alone DEF AllPlaced, Inside
  <2>2. lock'.id = lock.id /\ lock'.pid = r
    BY <1>2, <2>1, Facts DEF Write, TypeOK, Placed
  <2>3. Placed(r)'
    BY <1>1, <2>1, <2>2 DEF Placed
  <2>4. AllPlaced'
    BY <1>1, <2>1, <2>3 DEF AllPlaced
  <2>5. OneInside'
    BY <1>1, <2>1 DEF OneInside
  <2>6. ASSUME NEW q \in Pids
        PROVE  at'[q] \notin Restoring /\ (at'[q] = "verify" => aside'[q] = seen'[q])
    <3>1. at[q] \notin Restoring /\ (at[q] = "verify" => aside[q] = seen[q])
      BY <1>1, <1>6, Facts DEF Straight
    <3>2. at[q] = "verify" => seen[q].pid # NoPid
      BY LockAssumption, Facts DEF DeadInv, SeenDead, Probed
    <3> QED
      BY <1>1, <1>3, <3>1, <3>2 DEF Restoring
  <2> QED
    BY <2>4, <2>5, <2>6 DEF Orderly, Straight
<1> QED
  BY <1>5, <1>6

-----------------------------------------------------------------------------
LEMMA StepStray == StrayInv /\ [Next]_vars => StrayInv'
<1> SUFFICES ASSUME StrayInv, [Next]_vars PROVE StrayInv'
  OBVIOUS
<1>1. DeadInv'
  BY StepDead DEF StrayInv
<1>2. StrayDead' /\ (strays' = {} => Orderly')
  <2>1. CASE UNCHANGED vars
    BY <2>1 DEF vars, StrayInv, StrayDead, Orderly, AllPlaced, Placed, OneInside, Straight
  <2>2. ASSUME NEW r \in Pids, Acquire(r)
        PROVE  StrayDead' /\ (strays' = {} => Orderly')
    BY <2>2, CreateStray, ExistsStray, WriteStray, WriteFailsStray, StatStray,
       DiscardStray DEF Acquire
  <2>3. ASSUME NEW r \in Pids, Recover(r)
        PROVE  StrayDead' /\ (strays' = {} => Orderly')
    BY <2>3, InspectStray, ReadStray, ProbeStray, RecheckStray, MoveAsideStray,
       VerifyStray, DropStray, RestoreCheckStray, RestoreStray DEF Recover
  <2>4. ASSUME NEW r \in Pids, Release(r)
        PROVE  StrayDead' /\ (strays' = {} => Orderly')
    BY <2>4, FinishStray, UnlinkStray DEF Release
  <2> QED
    BY <2>1, <2>2, <2>3, <2>4, CrashStray DEF Next
<1> QED
  BY <1>1, <1>2 DEF StrayInv

(* Two holders, the stray recovery between them and the command whose lock  *)
(* it was recovering are four commands.                                     *)
LEMMA SplitNamesFour == StrayInv => SplitTakesFour
<1> SUFFICES ASSUME StrayInv, NEW p \in Holders, NEW q \in Holders, p # q
             PROVE  \E r \in strays \ {p, q} :
                        /\ seen[r].pid \in Pids \ {p, q, r}
                        /\ ~Alive(seen[r].pid)
  BY DEF SplitTakesFour
<1>1. strays # {}
  BY Facts DEF OneInside, Inside, Holders
<1>2. PICK r \in strays : TRUE
  BY <1>1
<1>3. /\ r \in Pids
      /\ at[r] \in Restoring \cup {"verify", "failed", "crashed"}
      /\ seen[r].pid \in Pids \ {r} /\ at[seen[r].pid] \in Ended
  BY <1>2, Facts DEF StrayDead
<1> QED
  BY <1>2, <1>3 DEF Holders, Alive, Ended, Restoring

(* Two commands hold the lifecycle lock together only when a third one,     *)
(* recovering the lock of a fourth, renamed a file that is not the one      *)
(* recoverStaleInstallationLock inspected: for any number of commands,      *)
(* workers, retries, crashes and failed writes.                             *)
THEOREM SplitAlwaysTakesFour == Spec => []SplitTakesFour
  BY InitStray, StepStray, SplitNamesFour, PTL DEF Spec

(* Until a recovery has gone astray, the file a command created stays at    *)
(* paths.lockPath until that command unlinks it: what acquireInstallation-  *)
(* Lock and release remove by path is their own.                            *)
THEOREM OwnFileAlwaysAtPath == Spec => []OwnFileAtPath
<1>1. StrayInv => OwnFileAtPath
  BY Facts DEF OwnFileAtPath, AllPlaced, Placed, Inside, Written, NoFile
<1> QED
  BY <1>1, InitStray, StepStray, PTL DEF Spec

(* Hence, with at most three commands, two never hold the lock together.    *)
AtMostThree ==
    \A p, q, r, s \in Pids :
        p = q \/ p = r \/ p = s \/ q = r \/ q = s \/ r = s

THEOREM ThreeCommandsExclude ==
  ASSUME AtMostThree
  PROVE  Spec => []MutualExclusion
<1>1. SplitTakesFour /\ TypeOK => MutualExclusion
  <2> SUFFICES ASSUME SplitTakesFour, TypeOK,
                      NEW p \in Holders, NEW q \in Holders, p # q
               PROVE  FALSE
    BY DEF MutualExclusion
  <2>1. PICK r \in strays \ {p, q} : seen[r].pid \in Pids \ {p, q, r}
    BY DEF SplitTakesFour
  <2>2. p \in Pids /\ q \in Pids /\ r \in Pids
    BY <2>1 DEF Holders, TypeOK
  <2> QED
    BY <2>1, <2>2 DEF AtMostThree
<1> QED
  BY <1>1, SplitAlwaysTakesFour, LockTypeCorrect, PTL
=============================================================================
