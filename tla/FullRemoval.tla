---------------------------- MODULE FullRemoval ----------------------------
(***************************************************************************)
(* Setup, the three uninstall modes and the credential commands over       *)
(* everything PickerMux owns: the command line tool, the integration       *)
(* (configuration, service, metadata, runtime package), the configuration  *)
(* backups, the provider registry, the Keychain items and the usage store. *)
(*                                                                         *)
(* A command reads its preflight without the lifecycle lock (plan), takes  *)
(* the lock and then runs step by step (job).  While it runs, the bridge   *)
(* keeps writing logs and usage, another command may read its own          *)
(* preflight, and the user may put a file into the installation directory. *)
(* Any step may fail and the process may die between two steps.  The lock  *)
(* itself is the subject of InstallationLock: here at most one job runs.   *)
(***************************************************************************)
EXTENDS ManagedDistribution, FiniteSets

CONSTANTS
    Providers,   \* identifiers of providers whose key may be in the Keychain
    Configured,  \* the providers setup's configuration keeps in the Keychain
    MaxFaults    \* bound on failed steps, deaths and unexpected files

ASSUME ConfiguredAssumption == Configured \subseteq Providers

ASSUME MaxFaultsAssumption == MaxFaults \in Nat

VARIABLES
    here,      \* what the stores hold in their places
    away,      \* what the private quarantines beside them hold
    config,    \* the integration is in Codex's configuration
    service,   \* the LaunchAgent is loaded and the bridge runs
    keychain,  \* the providers with a Keychain item
    foreign,   \* an unexpected file lies in the installation directory
    plan,      \* a command that has read its preflight and waits for the lock
    job,       \* the command that holds the lock
    told,      \* what the last uninstall reported
    torn,      \* a death or a failed rollback may have left the CLI in pieces
    faults

homeVars == <<here, away, config, service, keychain, foreign>>
vars == <<cliVars, homeVars, plan, job, told, torn, faults>>

Stores == {"metadata", "runtime", "backups", "registry", "usage"}

\* The registry is the set of identifiers it lists: an empty file is as good
\* as none.
Nothing == [metadata |-> FALSE, runtime |-> 0, backups |-> FALSE, registry |-> {},
            usage |-> FALSE]

Contents == [metadata : BOOLEAN, runtime : {0} \cup Versions, backups : BOOLEAN,
             registry : SUBSET Providers, usage : BOOLEAN]

\* What a preflight inventories beside the receipt and the registry, and the
\* locked removal compares: the installation directory, the files in it that
\* the bridge writes, the usage store.
Layers == {"home", "metadata", "usage"}

Removals == {"uninstall", "removeCli", "purge"}

NoPlan == [kind |-> "none", version |-> 0, installed |-> FALSE,
           receipt |-> NoReceipt, providers |-> {}, stale |-> {}]

Plans == [kind : {"none", "setup", "credential"} \cup Removals,
          version : {0} \cup Versions, installed : BOOLEAN,
          receipt : Receipts, providers : SUBSET Providers, stale : SUBSET Layers]

\* pc: the next step; at: pieces of the CLI moved; left: credentials to
\* delete; created: setup made the version directory; stopped: the step that
\* failed; tidy: nothing failed while the job was undone; was, before: what
\* the job found.
NoJob == [pc |-> "none", plan |-> NoPlan, at |-> 0, left |-> {}, created |-> FALSE,
          stopped |-> "none", tidy |-> TRUE, was |-> Empty, before |-> Nothing,
          config |-> FALSE]

Idle == job.pc = "none"

Init == /\ DistributionInit
        /\ here = Nothing /\ away = Nothing
        /\ config = FALSE /\ service = FALSE /\ keychain = {} /\ foreign = FALSE
        /\ plan = NoPlan /\ job = NoJob
        /\ told = "none" /\ torn = FALSE /\ faults = 0

-----------------------------------------------------------------------------
(* Small steps.                                                            *)

At(pc) == job.pc = pc
Goto(pc) == job' = [job EXCEPT !.pc = pc]
End == job' = NoJob

Fault == faults < MaxFaults /\ faults' = faults + 1
NoFault == UNCHANGED faults

\* The layers a command of this kind compares with its inventory.
Compared(kind) == CASE kind = "purge" -> Layers
                    [] kind = "removeCli" -> {"home", "metadata"}
                    [] kind = "uninstall" -> {"metadata"}
                    [] OTHER -> {}

\* What was changed since is no longer what the preflight inventoried.
Outdated(p, layers) == [p EXCEPT !.stale = @ \cup (layers \cap Compared(p.kind))]
Touch(layers) == plan' = Outdated(plan, layers)
TouchIf(changed, layers) == Touch(IF changed THEN layers ELSE {})

\* No quarantine of an earlier removal and no unexpected file: the inventory
\* of the installation directory refuses both.
InstallDirectoryClean ==
    /\ ~foreign
    /\ \A x \in Stores \ {"usage"} : away[x] = Nothing[x]

-----------------------------------------------------------------------------
(* Preflights, read without the lock.                                      *)

\* The release setup installs is chosen when it begins: nothing depends on
\* it before.
PlanSetup ==
    /\ plan = NoPlan
    /\ plan' = [NoPlan EXCEPT !.kind = "setup", !.installed = config]
    /\ UNCHANGED <<cliVars, homeVars, job, told, torn, faults>>

\* --purge and --remove-cli bind what they will remove; the service package
\* must be the active version's own.
PlanRemoval(kind) ==
    /\ plan = NoPlan
    /\ kind \in {"removeCli", "purge"}
    /\ Whole
    /\ here.runtime \in {0, cli.current}
    /\ kind = "purge" => InstallDirectoryClean
    /\ plan' = [NoPlan EXCEPT !.kind = kind, !.receipt = cli.receipt,
                              !.providers = IF kind = "purge" THEN here.registry ELSE {}]
    /\ UNCHANGED <<cliVars, homeVars, job, told, torn, faults>>

\* What setup and removal check first under the lock: setup that it upgrades
\* a whole CLI or installs where nothing is, a quarantined usage store
\* included.
Admitted(v) ==
    CASE plan.kind = "setup" ->
           /\ Whole \/ (Fresh /\ ~away.usage)
           /\ v >= cli.receipt.active
      [] plan.kind = "removeCli" -> Whole
      [] plan.kind = "purge" ->
           Whole /\ ~away.usage /\ "usage" \notin plan.stale
      [] OTHER -> FALSE

Begin(v) ==
    /\ Idle
    /\ plan.kind = "setup" <=> v # 0
    /\ Admitted(v)
    /\ job' = [NoJob EXCEPT !.pc = IF plan.kind = "setup" THEN "copy" ELSE "stage",
                            !.plan = [plan EXCEPT !.version = v], !.left = plan.providers,
                            !.was = cli, !.before = here, !.config = config]
    /\ plan' = NoPlan
    /\ told' = "none"
    /\ UNCHANGED <<cliVars, homeVars, torn, faults>>

Refuse(v) ==
    /\ Idle
    /\ plan # NoPlan /\ (plan.kind = "setup" <=> v # 0)
    /\ ~Admitted(v)
    /\ plan' = NoPlan
    /\ UNCHANGED <<cliVars, homeVars, job, told, torn, faults>>

-----------------------------------------------------------------------------
(* setupManagedDistribution.                                               *)

Reused == job.plan.version \in job.was.receipt.versions

\* The copy is staged and renamed into its place; when its digest cannot be
\* read after that, the version stays and no receipt names it.
CopyVersion ==
    /\ At("copy")
    /\ \/ Reused /\ Goto("commitCheck") /\ UNCHANGED <<cliVars, torn, faults>>
       \/ ~Reused /\ Copy(job.plan.version) /\ NoFault /\ UNCHANGED torn
          /\ job' = [job EXCEPT !.pc = "commitCheck", !.created = TRUE]
       \/ Fault /\ End /\ UNCHANGED <<cliVars, torn>>
       \/ ~Reused /\ Copy(job.plan.version) /\ Fault /\ End /\ torn' = TRUE
    /\ UNCHANGED <<homeVars, plan, told>>

\* The integration is still what the preflight saw; otherwise the copied
\* version goes again and setup stops before its first control file.
CommitCheck ==
    /\ At("commitCheck")
    /\ \/ /\ config = job.plan.installed
          /\ Goto("launcher")
          /\ UNCHANGED <<cliVars, torn, faults>>
       \/ /\ IF config = job.plan.installed THEN Fault ELSE NoFault
          /\ End
          /\ IF job.created THEN Discard(job.plan.version) ELSE UNCHANGED cliVars
          /\ UNCHANGED torn
       \/ /\ config # job.plan.installed /\ job.created
          /\ Fault /\ End /\ torn' = TRUE
          /\ UNCHANGED cliVars
    /\ UNCHANGED <<homeVars, plan, told>>

\* One control file is replaced, or its write fails and activation is undone.
Control(pc, piece, value, next) ==
    /\ At(pc)
    /\ \/ Write(piece, value) /\ Goto(next) /\ NoFault
       \/ Fault /\ Goto("undoCurrent") /\ UNCHANGED cliVars
    /\ UNCHANGED <<homeVars, plan, told, torn>>

WriteLauncher == Control("launcher", "launcher", TRUE, "current")
WriteCurrent == Control("current", "current", job.plan.version, "receipt")
WriteReceipt == Control("receipt", "receipt", ReceiptFor(job.plan.version), "package")

\* The activation callback: registry and service package first.
Package ==
    /\ At("package")
    /\ \/ /\ here' = [here EXCEPT !.registry = @ \cup Configured, !.metadata = TRUE,
                                  !.runtime = job.plan.version]
          /\ Touch({"home", "metadata"})
          /\ Goto("activate") /\ NoFault
       \/ Fault /\ Goto("undoCurrent") /\ UNCHANGED <<here, plan>>
    /\ UNCHANGED <<cliVars, away, config, service, keychain, foreign, told, torn>>

\* Then the service and, last, the configuration.  A failure restores what
\* the callback changed, unless its own rollback is incomplete.
Activate ==
    /\ At("activate")
    /\ \/ /\ service' = TRUE /\ config' = TRUE
          /\ here' = [here EXCEPT !.backups = TRUE]
          /\ End
          /\ NoFault /\ UNCHANGED torn
       \/ /\ Fault /\ Goto("undoCurrent")
          /\ \/ /\ here' = [job.before EXCEPT !.usage = here.usage]
                /\ UNCHANGED torn
             \/ torn' = TRUE /\ UNCHANGED here
          /\ UNCHANGED <<config, service>>
    /\ Touch({"home", "metadata"})
    /\ UNCHANGED <<cliVars, away, keychain, foreign, told>>

\* One step of rollbackActivation: the failures are collected, the next step
\* is taken in any case.
Undo(pc, piece, next) ==
    /\ At(pc)
    /\ \/ Write(piece, job.was[piece]) /\ NoFault /\ UNCHANGED torn
       \/ Fault /\ torn' = TRUE /\ UNCHANGED cliVars
    /\ Goto(next)
    /\ UNCHANGED <<homeVars, plan, told>>

UndoCurrent == Undo("undoCurrent", "current", "undoLauncher")
UndoLauncher == Undo("undoLauncher", "launcher", "undoReceipt")
\* Fault: the receipt keeps naming the version whose activation failed.
MutUndoReceipt ==
    /\ At("undoReceipt")
    /\ Goto("undoVersion")
    /\ UNCHANGED <<cliVars, homeVars, plan, told, torn, faults>>

UndoReceipt == Undo("undoReceipt", "receipt", "undoVersion")

UndoVersion ==
    /\ At("undoVersion")
    /\ \/ /\ IF job.created THEN Discard(job.plan.version) ELSE UNCHANGED cliVars
          /\ NoFault /\ UNCHANGED torn
       \/ job.created /\ Fault /\ torn' = TRUE /\ UNCHANGED cliVars
    /\ End
    /\ UNCHANGED <<homeVars, plan, told>>

-----------------------------------------------------------------------------
(* credentialCommand: the registry lists a provider before its item is     *)
(* written and until its item is deleted.                                  *)

StartCredential(p, pc) ==
    /\ Idle
    /\ pc \in {"register", "delete"}
    /\ job' = [NoJob EXCEPT !.pc = pc, !.plan.kind = "credential", !.left = {p}]
    /\ told' = "none"
    /\ UNCHANGED <<cliVars, homeVars, plan, torn, faults>>

Listed(ids) == /\ here' = [here EXCEPT !.registry = ids]
               /\ TouchIf(ids # here.registry, {"home"})

Register ==
    /\ At("register")
    /\ \/ Listed(here.registry \cup job.left) /\ Goto("set") /\ NoFault
       \/ Fault /\ End /\ UNCHANGED <<here, plan>>
    /\ UNCHANGED <<cliVars, away, config, service, keychain, foreign, told, torn>>

SetItem ==
    /\ At("set")
    /\ \/ keychain' = keychain \cup job.left /\ NoFault
       \/ Fault /\ UNCHANGED keychain
    /\ End
    /\ UNCHANGED <<cliVars, here, away, config, service, foreign, plan, told, torn>>

DeleteItem ==
    /\ At("delete")
    /\ \/ keychain' = keychain \ job.left /\ Goto("unregister") /\ NoFault
       \/ Fault /\ End /\ UNCHANGED keychain
    /\ UNCHANGED <<cliVars, here, away, config, service, foreign, plan, told, torn>>

Unregister ==
    /\ At("unregister")
    /\ \/ Listed(here.registry \ job.left) /\ NoFault
       \/ Fault /\ UNCHANGED <<here, plan>>
    /\ End
    /\ UNCHANGED <<cliVars, away, config, service, keychain, foreign, told, torn>>

-----------------------------------------------------------------------------
(* removeManagedDistribution and purgePickerMux.                           *)

\* The plain uninstall keeps the CLI and inventories under the lock.
StartUninstall ==
    /\ Idle
    /\ job' = [NoJob EXCEPT !.pc = "config", !.plan.kind = "uninstall",
                            !.was = cli, !.before = here, !.config = config]
    /\ told' = "none"
    /\ UNCHANGED <<cliVars, homeVars, plan, torn, faults>>

\* Fault: only the Keychain phase itself is covered by the inner handlers.
MutHandler ==
    CASE job.plan.kind = "uninstall" -> "failed"
      [] job.plan.kind = "purge" /\ job.pc \in {"recheck", "credentials"} -> "restoreBackups"
      [] job.plan.kind = "purge" /\ job.pc = "backups" -> "restoreRegistry"
      [] OTHER -> "revalidate"

\* Where an error thrown by this step is caught first.
Handler ==
    CASE job.plan.kind = "uninstall" -> "failed"
      [] job.plan.kind = "purge"
         /\ job.pc \in {"recheck", "credentials", "config", "service", "metadata", "runtime"}
         -> "restoreBackups"
      [] job.plan.kind = "purge" /\ job.pc = "backups" -> "restoreRegistry"
      [] OTHER -> "revalidate"

Abort == job' = [job EXCEPT !.pc = Handler, !.stopped = job.pc]

Stage ==
    /\ At("stage")
    /\ \/ /\ MoveAside(Order[job.at + 1])
          /\ job' = [job EXCEPT !.at = @ + 1,
                                !.pc = IF job.at + 1 = Len(Order) THEN "check" ELSE "stage"]
          /\ NoFault
       \/ /\ Fault
          /\ job' = [job EXCEPT !.pc = "unstage", !.stopped = "stage"]
          /\ UNCHANGED cliVars
    /\ UNCHANGED <<homeVars, plan, told, torn>>

\* beforeRemove compares what the preflight inventoried: --remove-cli its
\* distribution only, --purge every layer and the exact provider list.
Unchanged == /\ job.was.receipt = job.plan.receipt
             /\ job.plan.kind = "purge" =>
                  job.plan.stale = {} /\ here.registry = job.plan.providers

Check ==
    /\ At("check")
    /\ \/ /\ Unchanged
          /\ Goto(IF job.plan.kind = "purge" THEN "registry" ELSE "config")
          /\ NoFault
       \/ (IF Unchanged THEN Fault ELSE NoFault) /\ Abort
    /\ UNCHANGED <<cliVars, homeVars, plan, told, torn>>

Quarantined(x) == /\ away' = [away EXCEPT ![x] = here[x]]
                  /\ here' = [here EXCEPT ![x] = Nothing[x]]

Restored(x) == /\ here' = [here EXCEPT ![x] = away[x]]
               /\ away' = [away EXCEPT ![x] = Nothing[x]]

\* Registry and backups are renamed into their quarantines, reversibly.
Quarantine(pc, x, next) ==
    /\ At(pc)
    /\ \/ Quarantined(x) /\ Goto(next) /\ NoFault
       \/ Fault /\ Abort /\ UNCHANGED <<here, away>>
    /\ TouchIf(here[x] # Nothing[x], {"home"})
    /\ UNCHANGED <<cliVars, config, service, keychain, foreign, told, torn>>

QuarantineRegistry == Quarantine("registry", "registry", "backups")
QuarantineBackups == Quarantine("backups", "backups", "recheck")

Recheck ==
    /\ At("recheck")
    /\ IF "usage" \in job.plan.stale THEN Abort ELSE Goto("credentials")
    /\ UNCHANGED <<cliVars, homeVars, plan, told, torn, faults>>

\* Fault: an item that cannot be deleted is skipped and the purge goes on.
MutDeleteCredential(p) ==
    /\ At("credentials")
    /\ p \in job.left
    /\ job' = [job EXCEPT !.left = @ \ {p}]
    /\ \/ keychain' = keychain \ {p} /\ NoFault
       \/ Fault /\ UNCHANGED keychain
    /\ UNCHANGED <<cliVars, here, away, config, service, foreign, plan, told, torn>>

\* One Keychain item after the other; an item that is already absent counts
\* as deleted.  The first failure stops the purge.
DeleteCredential(p) ==
    /\ At("credentials")
    /\ p \in job.left
    /\ \/ /\ keychain' = keychain \ {p}
          /\ job' = [job EXCEPT !.left = @ \ {p}]
          /\ NoFault
       \/ Fault /\ Abort /\ UNCHANGED keychain
    /\ UNCHANGED <<cliVars, here, away, config, service, foreign, plan, told, torn>>

CredentialsDeleted ==
    /\ At("credentials")
    /\ job.left = {}
    /\ Goto("config")
    /\ UNCHANGED <<cliVars, homeVars, plan, told, torn, faults>>

\* uninstallIntegration first looks at the metadata again; the modes without
\* an inventory of the whole directory take it here.
DirectoryAsExpected ==
    /\ "metadata" \notin job.plan.stale
    /\ job.plan.kind # "purge" => "home" \notin job.plan.stale /\ InstallDirectoryClean

RemoveConfig ==
    /\ At("config")
    /\ \/ DirectoryAsExpected /\ config' = FALSE /\ Goto("service") /\ NoFault
       \/ (IF DirectoryAsExpected THEN Fault ELSE NoFault) /\ Abort /\ UNCHANGED config
    /\ TouchIf(config, {"home"})
    /\ UNCHANGED <<cliVars, here, away, service, keychain, foreign, told, torn>>

\* The bridge flushes on its way out: its log and its queued usage.
Flushed(layers) ==
    /\ here' = [here EXCEPT !.metadata = @ \/ "metadata" \in layers,
                            !.usage = @ \/ "usage" \in layers]
    /\ TouchIf(service, {"home"} \cup layers)

StopService ==
    /\ At("service")
    /\ \/ \E layers \in IF service THEN SUBSET {"metadata", "usage"} ELSE {{}} :
            /\ Flushed(layers)
            /\ service' = FALSE
            /\ job' = [job EXCEPT !.pc = "metadata", !.plan = Outdated(@, layers)]
            /\ NoFault
       \/ Fault /\ Abort /\ UNCHANGED <<here, service, plan>>
    /\ UNCHANGED <<cliVars, away, config, keychain, foreign, told, torn>>

\* Runtime metadata and service package: detached, checked, deleted.  A
\* failure puts the store back or leaves it in its quarantine.
RemoveStore(pc, x, intact, next) ==
    /\ At(pc)
    /\ \/ intact /\ here' = [here EXCEPT ![x] = Nothing[x]] /\ Goto(next) /\ NoFault
          /\ UNCHANGED away
       \/ (IF intact THEN Fault ELSE NoFault) /\ Abort /\ UNCHANGED <<here, away>>
       \/ intact /\ here[x] # Nothing[x] /\ Fault /\ Abort /\ Quarantined(x)
    /\ TouchIf(here[x] # Nothing[x], {"home", x} \cap Layers)
    /\ UNCHANGED <<cliVars, config, service, keychain, foreign, told, torn>>

RemoveMetadata ==
    RemoveStore("metadata", "metadata", "metadata" \notin job.plan.stale, "runtime")

RemoveRuntime ==
    RemoveStore("runtime", "runtime", ~foreign,
                CASE job.plan.kind = "purge" -> "cleanBackups"
                  [] job.plan.kind = "removeCli" -> "cleanCli"
                  [] OTHER -> "removed")

\* Past this point the quarantines are deleted; what cannot be deleted stays
\* and is found by the pending check before the usage store.
Clean(pc, x, next) ==
    /\ At(pc)
    /\ \/ away' = [away EXCEPT ![x] = Nothing[x]] /\ NoFault
       \/ away[x] # Nothing[x] /\ Fault /\ UNCHANGED away
    /\ Goto(next)
    /\ UNCHANGED <<cliVars, here, config, service, keychain, foreign, plan, told, torn>>

CleanBackups == Clean("cleanBackups", "backups", "cleanRegistry")
CleanRegistry == Clean("cleanRegistry", "registry", "usage")

\* Fault: cleanup that is still pending is not looked at.
MutRemoveUsage ==
    RemoveStore("usage", "usage", "usage" \notin job.plan.stale, "directory")

RemoveUsage ==
    RemoveStore("usage", "usage",
                /\ away.backups = Nothing.backups /\ away.registry = Nothing.registry
                /\ "usage" \notin job.plan.stale,
                "directory")

RemoveDirectory ==
    /\ At("directory")
    /\ \/ ~foreign /\ Goto("cleanCli") /\ NoFault
       \/ (IF foreign THEN NoFault ELSE Fault) /\ Abort
    /\ UNCHANGED <<cliVars, homeVars, plan, told, torn>>

\* The staged CLI is deleted, or its staging directory is left and reported.
CleanCli ==
    /\ At("cleanCli")
    /\ Forget
    /\ \/ told' = "removed" /\ NoFault
       \/ told' = "pending" /\ Fault
    /\ End
    /\ UNCHANGED <<homeVars, plan, torn>>

Uninstalled ==
    /\ job.pc \in {"removed", "failed"}
    /\ told' = job.pc
    /\ End
    /\ UNCHANGED <<cliVars, homeVars, plan, torn, faults>>

-----------------------------------------------------------------------------
(* A failed removal is undone from the inside out.                         *)

Restore(pc, x, next) ==
    /\ At(pc)
    /\ \/ Restored(x) /\ Goto(next) /\ NoFault
       \/ /\ away[x] # Nothing[x]
          /\ Fault
          /\ job' = [job EXCEPT !.pc = next, !.tidy = FALSE]
          /\ UNCHANGED <<here, away>>
    /\ TouchIf(away[x] # Nothing[x], {"home"})
    /\ UNCHANGED <<cliVars, config, service, keychain, foreign, told, torn>>

RestoreBackups == Restore("restoreBackups", "backups", "restoreRegistry")
RestoreRegistry == Restore("restoreRegistry", "registry", "revalidate")

\* The staged CLI must still be what was staged, or it is not put back.
Revalidate ==
    /\ At("revalidate")
    /\ \/ Goto("unstage") /\ UNCHANGED <<cliVars, told, torn, faults>>
       \/ Fault /\ Forget /\ End /\ told' = "incomplete" /\ torn' = TRUE
    /\ UNCHANGED <<homeVars, plan>>

Unstage ==
    /\ At("unstage")
    /\ job.at > 0
    /\ \/ /\ MoveBack(Order[job.at])
          /\ job' = [job EXCEPT !.at = @ - 1]
          /\ NoFault
       \/ /\ Fault
          /\ job' = [job EXCEPT !.at = @ - 1, !.tidy = FALSE]
          /\ UNCHANGED cliVars
    /\ UNCHANGED <<homeVars, plan, told, torn>>

\* The restored CLI is validated against what the removal found.
Unstaged ==
    /\ At("unstage")
    /\ job.at = 0
    /\ IF cli = job.was THEN told' = "failed" /\ UNCHANGED torn
                        ELSE told' = "incomplete" /\ torn' = TRUE
    /\ Forget /\ End
    /\ UNCHANGED <<homeVars, plan, faults>>

-----------------------------------------------------------------------------
(* Everybody else.                                                         *)

\* The running bridge appends to its log, rewrites its catalogs or persists
\* token usage.
BridgeWrites(x) ==
    /\ service
    /\ x \in {"metadata", "usage"}
    /\ here' = [here EXCEPT ![x] = TRUE]
    /\ plan' = Outdated(plan, {x})
    /\ job' = [job EXCEPT !.plan = Outdated(@, {x})]
    /\ UNCHANGED <<cliVars, away, config, service, keychain, foreign, told, torn, faults>>

UserFile ==
    /\ ~foreign
    /\ Fault
    /\ foreign' = TRUE
    /\ plan' = Outdated(plan, {"home"})
    /\ job' = [job EXCEPT !.plan = Outdated(@, {"home"})]
    /\ UNCHANGED <<cliVars, here, away, config, service, keychain, told, torn>>

\* The user resolves what an uninstall named: the unexpected file goes, a
\* registry or a backup directory goes back to its free place, the rest of
\* the quarantines is deleted.
Resolve ==
    /\ Idle
    /\ foreign \/ away # Nothing
    /\ foreign' = FALSE
    /\ here' = [here EXCEPT !.registry = IF @ = {} THEN away.registry ELSE @,
                            !.backups = @ \/ away.backups]
    /\ away' = [Nothing EXCEPT !.registry = IF here.registry = {} THEN {} ELSE away.registry]
    /\ Touch({"home"})
    /\ UNCHANGED <<cliVars, config, service, keychain, job, told, torn, faults>>

\* The command dies.  A later command does not look at its quarantines.
Crash ==
    /\ ~Idle
    /\ Fault
    /\ End /\ Forget
    /\ torn' = TRUE
    /\ UNCHANGED <<homeVars, plan, told>>

-----------------------------------------------------------------------------
Setup ==
    \/ CopyVersion \/ CommitCheck
    \/ WriteLauncher \/ WriteCurrent \/ WriteReceipt \/ Package \/ Activate
    \/ UndoCurrent \/ UndoLauncher \/ UndoReceipt \/ UndoVersion

Credential ==
    \/ \E p \in Providers, pc \in {"register", "delete"} : StartCredential(p, pc)
    \/ Register \/ SetItem \/ DeleteItem \/ Unregister

Removal ==
    \/ StartUninstall \/ Stage \/ Check
    \/ QuarantineRegistry \/ QuarantineBackups \/ Recheck
    \/ \E p \in Providers : DeleteCredential(p)
    \/ CredentialsDeleted
    \/ RemoveConfig \/ StopService \/ RemoveMetadata \/ RemoveRuntime
    \/ CleanBackups \/ CleanRegistry \/ RemoveUsage \/ RemoveDirectory \/ CleanCli
    \/ Uninstalled

Unwinding == RestoreBackups \/ RestoreRegistry \/ Revalidate \/ Unstage \/ Unstaged

Environment ==
    \/ \E x \in {"metadata", "usage"} : BridgeWrites(x)
    \/ UserFile \/ Resolve \/ Crash

Next ==
    \/ PlanSetup
    \/ \E kind \in Removals : PlanRemoval(kind)
    \/ \E v \in {0} \cup Versions : Begin(v) \/ Refuse(v)
    \/ Setup \/ Credential \/ Removal \/ Unwinding \/ Environment

Spec == Init /\ [][Next]_vars

-----------------------------------------------------------------------------
(* Properties.                                                             *)

Pcs == {"none", "copy", "commitCheck", "launcher", "current", "receipt", "package",
        "activate", "undoCurrent", "undoLauncher", "undoReceipt", "undoVersion",
        "register", "set", "delete", "unregister",
        "stage", "check", "registry", "backups", "recheck", "credentials", "config",
        "service", "metadata", "runtime", "cleanBackups", "cleanRegistry", "usage",
        "directory", "cleanCli", "removed", "failed",
        "restoreBackups", "restoreRegistry", "revalidate", "unstage"}

Jobs == [pc : Pcs, plan : Plans, at : 0..Len(Order), left : SUBSET Providers,
         created : BOOLEAN, stopped : Pcs, tidy : BOOLEAN, was : Distributions,
         before : Contents, config : BOOLEAN]

TypeOK ==
    /\ DistributionTypeOK
    /\ here \in Contents /\ away \in Contents
    /\ config \in BOOLEAN /\ service \in BOOLEAN /\ foreign \in BOOLEAN
    /\ keychain \in SUBSET Providers
    /\ plan \in Plans /\ job \in Jobs
    /\ told \in {"none", "removed", "pending", "failed", "incomplete"}
    /\ torn \in BOOLEAN /\ faults \in 0..MaxFaults

EndedAs(results) == job.plan.kind \in Removals /\ ~Idle /\ Idle' /\ told' \in results

\* The steps of a purge before the first one that takes the integration away,
\* and those after the quarantines were deleted.
Reversible == {"stage", "check", "registry", "backups", "recheck", "credentials", "config"}
Committed == {"usage", "directory"}

\* An uninstall that fails, and whose undoing met no failure, leaves what the
\* next attempt needs (cli.mjs:2699 and docs/TROUBLESHOOTING.md:1586-1598):
\* the receipt-owned CLI always; the provider registry and the backups unless
\* their quarantines were being deleted already; and the whole integration
\* when it stopped at the Keychain or before, whatever items it had deleted.
RetainedForRecovery ==
    [][EndedAs({"failed"}) /\ job.tidy =>
         /\ job.plan.kind # "uninstall" => Whole'
         /\ job.stopped \notin Committed =>
              here'.registry = job.before.registry /\ here'.backups = job.before.backups
         /\ job.stopped \in Reversible =>
              config' = job.config /\ here'.runtime = job.before.runtime]_vars

\* An uninstall that reports success has removed what its mode promises: no
\* integration, service or package, not even in a quarantine; the full purge
\* leaves no store, no Keychain item and no CLI; the other modes leave the
\* backups and the registry (docs/TROUBLESHOOTING.md:1551-1562).
RemovedMeansGone ==
    [][EndedAs({"removed", "pending"}) =>
         /\ ~config' /\ ~service'
         /\ here'.runtime = 0 /\ ~here'.metadata
         /\ away'.runtime = 0 /\ ~away'.metadata
         /\ IF job.plan.kind = "purge"
            THEN here' = Nothing /\ away' = Nothing /\ keychain' = {} /\ Fresh'
            ELSE /\ here'.registry = job.before.registry
                 /\ here'.backups = job.before.backups]_vars

\* No Keychain item is ever lost from sight: the registry, or the quarantine
\* a purge moved it to, lists every item PickerMux wrote, whatever command
\* failed or died where.
CredentialsListed == keychain \subseteq here.registry \cup away.registry

\* Between commands, unless one of them died or reported an incomplete
\* rollback, the CLI is whole or absent and the installed service package is
\* the active version's.
AllOrNothing ==
    Idle /\ ~torn =>
      /\ Whole \/ Fresh
      /\ here.runtime # 0 => here.runtime = cli.current

=============================================================================
