---- MODULE ConfigOwnership ----
(***************************************************************************)
(* config.toml and its ownership receipt under the commands of the CLI,    *)
(* the bridge's own selection reconciliation, the user and Codex.          *)
(*                                                                         *)
(* One CLI command runs at a time (the lifecycle lock).  It reads file and *)
(* receipt and plans, then commits the file, then the receipt, each only   *)
(* if what it replaces is what it read; a caller that carries on after the *)
(* commit ("held") may still roll it back.  The bridge process replaces    *)
(* the selection without that lock, and the user and Codex edit the file   *)
(* whenever they like.  A comparison and the rename after it are one step. *)
(***************************************************************************)
EXTENDS ConfigPlans, Naturals, Sequences

CONSTANTS MaxEdits  \* edits of the file by the user, Codex or an editor

ASSUME MaxEditsAssumption == MaxEdits \in Nat

VARIABLES file, receipt,
          backup,    \* contents of the newest backup, or Lost
          job,       \* the running command's planned pair
          undo,      \* pairs its rollback closures would write back, newest first
          sync,      \* the bridge's planned selection change
          confirmed, \* file and receipt of the preview the user confirmed, and for what
          edits,     \* edits so far
          touched,   \* what an edit has touched: the fresh "installation", the last written "pair"
          torn,      \* a step between the two commits of a command went wrong
          start      \* file and receipt when the command began, until somebody else interferes

vars == <<file, receipt, backup, job, undo, sync, confirmed, edits, touched, torn, start>>

Lost == [lost |-> TRUE]
NoPair == [file |-> NoFile, receipt |-> NoReceipt]
Pair(f, s) == [file |-> f, receipt |-> s]
Confirmation(what) == [what |-> what, file |-> file, receipt |-> receipt]
Ops == {"install", "suspend", "reactivate", "enable", "migrate", "uninstall", "native",
        "repair", "select", "marker", "undo"}
\* Operations that write the file alone.
FileOnly == {"repair", "select", "marker"}
\* writeManagedConfigPair: the receipt is committed only while the file is
\* still the one just written.
Paired == {"suspend", "enable", "migrate", "undo"}
\* The caller goes on after the commit and can roll it back.
Held == {"install", "suspend", "reactivate", "enable", "migrate"}
Idle == [pc |-> "idle"]
Job(op, old, new, verify) ==
  [pc |-> "ready", op |-> op, old |-> old, new |-> new, verify |-> verify]
NotAsked == [pc |-> "none"]

\* An installation made by a version with another provider layout and no
\* search settings.
OlderFile(f) == [InstallFile(f, FALSE) EXCEPT !.provider.canonical = FALSE]

Init ==
  /\ \E f \in {NoFile, PlainFile(TRUE, {}, {})}
                  \cup {PlainFile(TRUE, {"table"}, k) : k \in SUBSET PickerKeys},
        older \in BOOLEAN :
       /\ file = IF older THEN OlderFile(f) ELSE f
       /\ receipt = IF older THEN InstallReceipt(f, OlderFile(f)) ELSE NoReceipt
       /\ backup = IF older THEN InstallSource(f) ELSE Lost
  /\ job = Idle /\ undo = <<>> /\ sync = NotAsked
  /\ confirmed = [what |-> "nothing", file |-> NoFile, receipt |-> NoReceipt]
  /\ edits = 0 /\ touched = {} /\ torn = FALSE /\ start = NoPair

\* The user's picker assignments that are kept outside the file: in the receipt
\* or, while a fresh installation is between its commits, in the backup.
Recorded == IF Installed(receipt) THEN receipt.prior
            ELSE IF file.blocks /\ backup # Lost THEN backup.keys ELSE {}

(***************************************************************************)
(* The user, Codex and other programs                                      *)
(***************************************************************************)
EditTo(f) ==
  /\ edits < MaxEdits
  /\ edits' = edits + 1
  /\ file' = f
  /\ touched' = {"installation", "pair"}
  /\ start' = NoPair
  /\ UNCHANGED <<receipt, backup, job, undo, sync, confirmed, torn>>

\* A setting is added or taken out; text after the historical table hides it.
EditOther == \E o \in {"table", "search"}, h \in {"none", "stray"} :
  /\ h = "stray" => file.hist # "none" /\ ~file.blocks
  /\ EditTo([file EXCEPT !.exists = TRUE,
                         !.other = IF o \in @ THEN @ \ {o} ELSE @ \cup {o},
                         !.hist = IF h = "stray" THEN h ELSE @])
\* Codex saves a service tier: inside the root block when there is one.
EditTier ==
  /\ "tier" \notin file.other /\ ~file.tier
  /\ EditTo(IF file.blocks THEN [file EXCEPT !.tier = TRUE]
            ELSE [file EXCEPT !.exists = TRUE, !.other = @ \cup {"tier"}])
\* Codex saves the selection made in its picker.
EditSelection == file.blocks /\ EditTo([file EXCEPT !.picked = ~@])
EditBlock == \E b \in {"root", "provider"} :
  file.blocks /\ file.edited = "no" /\ EditTo([file EXCEPT !.edited = b])
EraseEnd == file.blocks /\ ~file.open /\ EditTo([file EXCEPT !.open = TRUE])
\* Another picker integration sets or withdraws its gateway; without the
\* blocks the user's model comes and goes as well.  Nobody withdraws an assignment
\* an unfinished removal has just put back.
EditKeys == \E k \in PickerKeys :
  /\ k = "model" => ~file.blocks
  /\ k \notin file.keys \cap Recorded
  /\ EditTo([file EXCEPT !.exists = TRUE,
                         !.keys = IF k \in @ THEN @ \ {k} ELSE @ \cup {k}])
LoseBackup ==
  /\ edits < MaxEdits /\ Installed(receipt) /\ backup # Lost
  /\ edits' = edits + 1 /\ backup' = Lost /\ start' = NoPair
  /\ UNCHANGED <<file, receipt, job, undo, sync, confirmed, touched, torn>>
UserEdit == EditOther \/ EditTier \/ EditSelection \/ EditBlock \/ EraseEnd \/ EditKeys \/ LoseBackup

\* The companion's preview, confirmed by the user: its token is a digest of
\* file and receipt.  The companion previews and applies in one operation of
\* its lane, so no other preview comes between.
Confirm == \E what \in {"switch", "native"} :
  /\ job = Idle
  /\ IF what = "native" THEN Installed(receipt) ELSE ~Installed(receipt) /\ Foreign(file)
  /\ confirmed' = Confirmation(what)
  /\ UNCHANGED <<file, receipt, backup, job, undo, sync, edits, touched, torn, start>>

(***************************************************************************)
(* Commands: read and plan                                                 *)
(***************************************************************************)
\* A pause stops the bridge before it touches the configuration.
Plan(op, f, s, verify) ==
  /\ job' = Job(op, Pair(file, receipt), Pair(f, s), verify)
  /\ start' = IF job.pc = "idle" THEN Pair(file, receipt) ELSE start
  /\ sync' = IF op = "suspend" THEN NotAsked ELSE sync
  /\ UNCHANGED <<file, receipt, undo, confirmed, edits, touched, torn>>

BeginInstall == \E search \in BOOLEAN :
  /\ job = Idle /\ CanInstall(file, receipt, confirmed = Confirmation("switch"))
  /\ LET g == InstallFile(file, search)
     IN  Plan("install", g, InstallReceipt(file, g), FALSE)
  /\ backup' = InstallSource(file)

BeginReactivate == \E kind \in Kinds, search \in BOOLEAN :
  /\ job = Idle /\ CanReactivate(file, receipt, backup, kind)
  /\ LET g == ReactivateFile(file, search)
     IN  Plan("reactivate", g, ReactivateReceipt(receipt, g), TRUE)
  /\ UNCHANGED backup

BeginSuspend == \E kind \in Kinds :
  /\ job = Idle /\ CanSuspend(file, receipt, backup, kind)
  /\ LET g == SuspendFile(file, receipt, kind)
     IN  Plan("suspend", g, SuspendReceipt(file, receipt, g, kind), TRUE)
  /\ UNCHANGED backup

\* refresh: search settings first, then the layout, both kept for rollback.
BeginEnable ==
  /\ job = Idle /\ CanEnable(file, receipt)
  /\ Plan("enable", EnableFile(file), UpgradeReceipt(file, receipt, EnableFile(file)), FALSE)
  /\ UNCHANGED backup

BeginMigrate ==
  /\ job = Idle \/ (job.pc = "held" /\ job.op = "enable")
  /\ CanMigrate(file, receipt)
  /\ Plan("migrate", MigrateFile(file), UpgradeReceipt(file, receipt, MigrateFile(file)), FALSE)
  /\ UNCHANGED backup

BeginUninstall == \E preserve, force \in BOOLEAN :
  /\ job = Idle /\ CanUninstall(file, receipt, backup, force)
  /\ preserve => CanPreserve(file, receipt, backup)
  /\ Plan("uninstall", UninstallFile(file, receipt, backup, preserve), NoReceipt,
          Paused(receipt) \/ (Pristine(file, receipt) /\ receipt.existed /\ backup = receipt.source))
  /\ UNCHANGED backup

BeginNative ==
  /\ job = Idle /\ CanRestoreNative(file, receipt, backup)
  /\ confirmed = Confirmation("native")
  /\ Plan("native", NativeFile(file, receipt), NoReceipt, TRUE)
  /\ UNCHANGED backup

\* repairHistoricalChatsConfig, only after the integration is gone
BeginRepair ==
  /\ job = Idle /\ ~Installed(receipt) /\ ~file.blocks /\ file.hist = "none"
  /\ Plan("repair", AppendHist(file, file.exists), NoReceipt, FALSE)
  /\ UNCHANGED backup

BeginMarker ==
  /\ job = Idle /\ Active(receipt) /\ Healthy(file, receipt) /\ file.open
  /\ Plan("marker", Closed(file), receipt, FALSE)
  /\ UNCHANGED backup

Begin == \/ BeginInstall \/ BeginReactivate \/ BeginSuspend \/ BeginEnable \/ BeginMigrate
         \/ BeginUninstall \/ BeginNative \/ BeginRepair \/ BeginMarker

(***************************************************************************)
(* Commands: commit                                                        *)
(***************************************************************************)
\* What is done when a command's own work is over: held by its caller, the
\* next rollback, or nothing.
After(op) == IF op = "undo" THEN [pc |-> "unwind"]
             ELSE IF op \in Held THEN [pc |-> "held", op |-> op] ELSE Idle
Refused(op) == IF op = "undo" \/ undo # <<>> THEN [pc |-> "unwind"] ELSE Idle

\* Fault: the file is not compared before it is replaced.
MutUnchanged(pair) == receipt = pair.receipt
\* assertSourceUnchanged and the ownership revalidation before a commit
Unchanged(pair) == file = pair.file /\ receipt = pair.receipt
\* Nobody watches a command that is over, or whose rollback failed to write.
Watched == start' = IF job' = Idle \/ (job.op = "undo" /\ job.pc = "paired" /\ receipt' = receipt)
                    THEN NoPair ELSE start

CommitFile ==
  /\ job.pc = "ready"
  /\ IF Unchanged(job.old) /\ (job.verify => backup = receipt.source)
     THEN /\ file' = job.new.file
          /\ IF job.op \in FileOnly
             THEN job' = After(job.op)
             ELSE job' = [job EXCEPT !.pc = "paired"]
     ELSE job' = Refused(job.op) /\ UNCHANGED file
  /\ Watched
  /\ UNCHANGED <<receipt, backup, undo, sync, confirmed, edits, touched, torn>>

\* Fault: the first update is rolled back first.
MutPush(j) == Append(undo, j)
\* The last update is rolled back first.
Push(j) == <<j>> \o undo

\* A fresh installation's rollback writes the bytes it read, into a file.
RollbackFile == IF job.op = "install" THEN [job.old.file EXCEPT !.exists = TRUE] ELSE job.old.file

\* fails: the second write fails although nothing changed.
\* The bridge is stopped once the receipt is gone.
CommitReceipt == \E fails \in BOOLEAN :
  /\ job.pc = "paired"
  /\ IF ~fails /\ (job.op \in Paired => file = job.new.file)
     THEN /\ receipt' = job.new.receipt
          /\ sync' = IF Installed(receipt') THEN sync ELSE NotAsked
          /\ job' = After(job.op)
          /\ undo' = IF job.op \in Held THEN Push(job) ELSE undo
          /\ touched' = IF file # job.new.file THEN touched
                        ELSE IF job.op = "install" THEN {} ELSE touched \ {"pair"}
          /\ UNCHANGED <<file, torn>>
     ELSE /\ IF file = job.new.file THEN file' = RollbackFile /\ UNCHANGED torn
             ELSE torn' = TRUE /\ UNCHANGED file
          /\ job' = Refused(job.op)
          /\ UNCHANGED <<receipt, undo, touched, sync>>
  /\ Watched
  /\ UNCHANGED <<backup, confirmed, edits>>

\* The caller's remaining work succeeds, or fails and unwinds.
Complete ==
  /\ job.pc = "held"
  /\ job' = Idle /\ undo' = <<>> /\ start' = NoPair
  /\ UNCHANGED <<file, receipt, backup, sync, confirmed, edits, touched, torn>>

FailHeld ==
  /\ job.pc = "held"
  /\ job' = [pc |-> "unwind"]
  /\ UNCHANGED <<file, receipt, backup, undo, sync, confirmed, edits, touched, torn, start>>

\* rollbackInstallation uninstalls a fresh installation; every other closure
\* writes the earlier pair over the one it committed.
Unwind ==
  /\ job.pc = "unwind"
  /\ IF undo = <<>> THEN job' = Idle /\ start' = NoPair /\ UNCHANGED undo
     ELSE /\ undo' = Tail(undo)
          /\ UNCHANGED start
          /\ LET u == Head(undo) IN
             IF u.op = "install"
             THEN job' = IF CanUninstall(file, receipt, backup, FALSE)
                         THEN Job("uninstall", Pair(file, receipt),
                                  Pair(UninstallFile(file, receipt, backup, FALSE), NoReceipt), FALSE)
                         ELSE job
             ELSE job' = Job("undo", u.new, u.old, u.op = "reactivate")
  /\ UNCHANGED <<file, receipt, backup, sync, confirmed, edits, touched, torn>>

\* The CLI is killed.
Crash ==
  /\ job # Idle
  /\ job' = Idle /\ undo' = <<>> /\ start' = NoPair
  /\ torn' = (torn \/ job.pc = "paired")
  /\ UNCHANGED <<file, receipt, backup, sync, confirmed, edits, touched>>

Command == CommitFile \/ CommitReceipt \/ Complete \/ FailHeld \/ Unwind

(***************************************************************************)
(* The bridge: reconcileSelectedCatalogModel                               *)
(***************************************************************************)
\* The selected model left the catalog: back to the installed default, or,
\* when publishing failed, forth again.
SyncPlan ==
  /\ sync = NotAsked /\ ~(job.pc \in {"ready", "paired"} /\ job.op = "suspend")
  /\ CanSelect(file, receipt) /\ file.picked
  /\ sync' = [pc |-> "ready", file |-> file, done |-> FALSE]
  /\ UNCHANGED <<file, receipt, backup, job, undo, confirmed, edits, touched, torn, start>>

SyncCommit ==
  /\ sync.pc = "ready"
  /\ IF file = sync.file
     THEN /\ file' = [file EXCEPT !.picked = ~@]
          /\ start' = NoPair
          /\ sync' = IF sync.done THEN NotAsked ELSE [pc |-> "published"]
     ELSE sync' = NotAsked /\ UNCHANGED <<file, start>>
  /\ UNCHANGED <<receipt, backup, job, undo, confirmed, edits, touched, torn>>

SyncPublish == \E failed \in BOOLEAN :
  /\ sync.pc = "published"
  /\ sync' = IF failed /\ CanSelect(file, receipt) /\ ~file.picked
             THEN [pc |-> "ready", file |-> file, done |-> TRUE] ELSE NotAsked
  /\ UNCHANGED <<file, receipt, backup, job, undo, confirmed, edits, touched, torn, start>>

Bridge == SyncPlan \/ SyncCommit \/ SyncPublish

Next == UserEdit \/ Confirm \/ Begin \/ Command \/ Crash \/ Bridge

Spec == Init /\ [][Next]_vars

(***************************************************************************)
(* Properties                                                              *)
(***************************************************************************)
TypeOK ==
  /\ file \in File /\ backup \in File \cup {Lost}
  /\ receipt \in Receipt \cup {NoReceipt}
  /\ job.pc \in {"idle", "ready", "paired", "held", "unwind"}
  /\ job.pc \in {"ready", "paired"} => job.op \in Ops
  /\ undo = <<>> \/ (\A i \in DOMAIN undo : undo[i].op \in Held)
  /\ sync.pc \in {"none", "ready", "published"}
  /\ edits \in 0 .. MaxEdits
  /\ touched \subseteq {"installation", "pair"}
  /\ torn \in BOOLEAN

\* Unless a step between two commits went wrong, file and receipt agree when
\* no command runs: blocks never outlive their receipt, an installation whose
\* blocks nobody edited is healthy and can be upgraded, paused and removed,
\* and a paused one whose file nobody edited can be resumed.  About the pairs
\* written by installConfig, suspendConfiguration, the two upgrades and their
\* rollbacks.
ReceiptMatches ==
  job = Idle /\ ~torn =>
    /\ ~Installed(receipt) => ~file.blocks
    /\ Active(receipt) /\ file.edited = "no" => Healthy(file, receipt)
    /\ Paused(receipt) /\ "pair" \notin touched => file = receipt.pause.file

\* Removing an installation nobody edited since it was made, through whatever
\* pauses, upgrades and rollbacks came between, gives back the very file that
\* was there before, or no file, but for the historical table kept for old chats;
\* uninstallConfig's pristine restoration.
UntouchedRestored ==
  [][ /\ job.pc = "paired" /\ job.op = "uninstall" /\ ~Installed(receipt')
      /\ touched = {} /\ ~torn
      => InstallSource(file') = receipt.source ]_vars

\* Another picker's gateway is taken out of the file only for the very file
\* the user confirmed; installConfig's switch receipt and commit comparison.
ForeignConfirmed ==
  [][ Foreign(file) /\ ~Foreign(file') /\ edits' = edits
      => \/ confirmed = Confirmation("switch")
         \/ job.op = "undo" \/ (job.pc = "paired" /\ job.op # "install") ]_vars

\* A failed command that could be rolled back leaves file and receipt as they
\* were when it began, if nobody else interfered: refresh's two
\* upgrades, a pause, a reactivation.
RollbackRestores ==
  job.pc = "unwind" /\ undo = <<>> /\ start # NoPair /\ Installed(start.receipt)
    => file = start.file /\ receipt = start.receipt

\* A failed fresh installation reports that all managed changes were rolled
\* back: the file is then what it was when the command began.
InstallRolledBack ==
  [][ /\ job.pc = "paired" /\ job.op = "uninstall" /\ start # NoPair /\ ~Installed(start.receipt)
      /\ job' = Idle /\ ~Installed(receipt')
      => file' = start.file ]_vars

\* The user's part: outside the blocks, in the root block, and recorded.
User == INSTANCE UserSettings WITH
  other <- file.other \cup (IF file.tier /\ file.edited # "root" THEN {"tier"} ELSE {}),
  keys <- file.keys \cup Recorded,
  agreed <- confirmed.what = "native"

\* Whatever commands run, fail, race with an edit or die, only the user changes
\* the user's settings, and recorded assignments are given up only on consent.
UserKeepsSettings == User!Spec
====
