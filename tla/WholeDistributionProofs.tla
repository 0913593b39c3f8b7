----------------------- MODULE WholeDistributionProofs -----------------------
(***************************************************************************)
(* Between commands the command line tool is whole or absent, and the      *)
(* service package that is installed is the active version's, unless a     *)
(* command died or reported that it could not undo what it did.  And an    *)
(* uninstall has removed what it says it removed, or kept what the next    *)
(* attempt needs.  The types are those of FullRemovalProofs.               *)
(***************************************************************************)
EXTENDS FullRemovalProofs

(* What a command finds and leaves when nothing was torn.                   *)
Settled == /\ Whole \/ Fresh
           /\ here.runtime # 0 => here.runtime = cli.current

WasWhole == /\ job.was.receipt # NoReceipt /\ job.was.launcher
            /\ job.was.current = job.was.receipt.active
            /\ job.was.versions = job.was.receipt.versions

Elsewhere == {"none", "register", "set", "delete", "unregister"}

(* Each control file is the one setup found until it is written, and again  *)
(* once its write is undone; the version that was copied is a new one.      *)
SetupSteps == job.pc \in SettingUp =>
    /\ WasWhole \/ job.was = Empty
    /\ job.before.runtime # 0 => job.before.runtime = job.was.current
    /\ here.runtime = IF job.pc = "activate" THEN job.plan.version ELSE job.before.runtime
    /\ job.created <=> job.pc # "copy" /\ ~Reused
    /\ cli.versions = job.was.versions \cup (IF job.created THEN {job.plan.version} ELSE {})
    /\ job.pc \in {"current", "receipt", "package", "activate"} => cli.launcher
    /\ job.pc \in {"copy", "commitCheck", "launcher", "undoReceipt", "undoVersion"}
         => cli.launcher = job.was.launcher
    /\ job.pc \in {"receipt", "package", "activate"} => cli.current = job.plan.version
    /\ job.pc \in {"copy", "commitCheck", "launcher", "current", "undoLauncher", "undoReceipt",
                   "undoVersion"}
         => cli.current = job.was.current
    /\ job.pc \in {"package", "activate"}
         => cli.receipt = [active |-> job.plan.version,
                           versions |-> job.was.receipt.versions \cup {job.plan.version}]
    /\ job.pc \in {"copy", "commitCheck", "launcher", "current", "receipt", "undoVersion"}
         => cli.receipt = job.was.receipt

(* A removal takes away a whole CLI; past the staging nothing is left in    *)
(* place, and what is deleted for good is deleted with the service package. *)
RemovalSteps == job.pc \notin SettingUp \cup Elsewhere =>
    \/ /\ job.plan.kind = "uninstall"
       /\ job.pc \in Removing \cup {"removed", "failed"}
       /\ Settled
    \/ /\ job.plan.kind \in {"removeCli", "purge"}
       /\ job.pc \notin {"removed", "failed"}
       /\ WasWhole
       /\ here.runtime \in {0, job.was.current}
       /\ job.pc = "stage" => \A i \in 1..job.at : cli[Order[i]] = Empty[Order[i]]
       /\ job.pc \in {"check", "cleanCli"} \cup Selecting \cup Removing \cup Cleaning => Fresh
       /\ job.pc \in {"cleanCli"} \cup Cleaning => here.runtime = 0

CliInv == ~torn => /\ job.pc \in Elsewhere => Settled
                   /\ SetupSteps /\ RemovalSteps

WholeInv == TypeOK /\ Position /\ CliInv

-----------------------------------------------------------------------------
LEMMA SameDistribution ==
  ASSUME NEW c \in Distributions, NEW d \in Distributions,
         c.launcher = d.launcher, c.current = d.current, c.versions = d.versions,
         c.receipt = d.receipt
  PROVE  c = d
BY DEF Distributions

(* A step of the same command on the same findings.                         *)
Onward(pc) ==
    /\ job'.pc = pc
    /\ job'.plan.kind = job.plan.kind /\ job'.plan.version = job.plan.version
    /\ job'.was = job.was /\ job'.before = job.before /\ job'.created = job.created

LEMMA GotoOnward == ASSUME job \in Jobs, NEW pc, Goto(pc) PROVE Onward(pc)
BY DEF Goto, Onward, Jobs

LEMMA AbortOnward == ASSUME job \in Jobs, Abort PROVE Onward(Handler)
<1> HIDE DEF Handler
<1> QED BY DEF Abort, Onward, Jobs

(* The CLI and the service package stay as they are.                        *)
Standing == cli' = cli /\ here'.runtime = here.runtime

LEMMA ElsewhereStands ==
  ASSUME CliInv, ~torn, Standing, job.pc \in Elsewhere, job'.pc \in Elsewhere
  PROVE  CliInv'
BY DEF CliInv, Standing, Settled, Whole, Fresh, SetupSteps, RemovalSteps, SettingUp, Elsewhere

LEMMA UndoneStands ==
  ASSUME ~torn, Standing, job'.pc \in Elsewhere, Settled
  PROVE  CliInv'
BY DEF CliInv, Standing, Settled, Whole, Fresh, SetupSteps, RemovalSteps, SettingUp, Elsewhere

-----------------------------------------------------------------------------
(* Setup.                                                                   *)

LEMMA SetupFound ==
  ASSUME TypeOK, CliInv, ~torn, job.pc \in SettingUp, job' \in Jobs, job'.pc \in Elsewhere,
         cli' = job.was, here'.runtime = job.before.runtime
  PROVE  CliInv'
<1>1. /\ WasWhole \/ job.was = Empty
      /\ job.before.runtime # 0 => job.before.runtime = job.was.current
  BY DEF CliInv, SetupSteps
<1>2. Settled'
  BY <1>1 DEF Settled, Whole, Fresh, WasWhole
<1> QED BY <1>2 DEF CliInv, SetupSteps, RemovalSteps, SettingUp, Elsewhere

LEMMA VersionIsNew ==
  ASSUME TypeOK, CliInv, ~torn, job.pc \in SettingUp
  PROVE  /\ ~Reused => job.plan.version \notin job.was.versions
         /\ Reused => job.plan.version \in job.was.versions
BY DEF CliInv, SetupSteps, WasWhole, Reused, Empty, NoReceipt

LEMMA CopyVersionWhole ==
  ASSUME WholeInv, job' \in Jobs, ~torn', CopyVersion
  PROVE  CliInv'
<1>1. /\ ~torn /\ job.pc = "copy" /\ job.pc \in SettingUp /\ job \in Jobs /\ TypeOK /\ CliInv
      /\ cli \in Distributions /\ job.was \in Distributions /\ here' = here
      /\ ~job.created
  BY DEF CopyVersion, At, SettingUp, WholeInv, TypeOK, DistributionTypeOK, Jobs, homeVars, CliInv,
     SetupSteps
<1>2. /\ cli.launcher = job.was.launcher /\ cli.current = job.was.current
      /\ cli.versions = job.was.versions /\ cli.receipt = job.was.receipt
      /\ here.runtime = job.before.runtime
  BY <1>1 DEF CliInv, SetupSteps
<1>3. CASE Reused /\ Goto("commitCheck") /\ UNCHANGED <<cliVars, torn, faults>>
  <2>1. Onward("commitCheck") /\ cli' = cli
    BY <1>1, <1>3, GotoOnward DEF cliVars
  <2> QED BY <1>1, <1>2, <1>3, <2>1 DEF Onward, CliInv, SetupSteps, RemovalSteps, SettingUp,
          Elsewhere, WasWhole, Reused
<1>4. CASE /\ ~Reused /\ Copy(job.plan.version)
           /\ job' = [job EXCEPT !.pc = "commitCheck", !.created = TRUE]
  <2>1. /\ job'.pc = "commitCheck" /\ job'.created = TRUE /\ job'.was = job.was
        /\ job'.before = job.before /\ job'.plan = job.plan
    BY <1>1, <1>4 DEF Jobs
  <2>2. /\ cli'.versions = cli.versions \cup {job.plan.version}
        /\ cli'.launcher = cli.launcher /\ cli'.current = cli.current
        /\ cli'.receipt = cli.receipt
    BY <1>1, <1>4 DEF Copy, Distributions
  <2> QED BY <1>1, <1>2, <1>4, <2>1, <2>2 DEF CliInv, SetupSteps, RemovalSteps, SettingUp,
          Elsewhere, WasWhole, Reused
<1>5. CASE End /\ UNCHANGED <<cliVars, torn>>
  <2>1. cli' = job.was
    BY <1>1, <1>2, <1>5, SameDistribution DEF cliVars
  <2> QED BY <1>1, <1>2, <1>5, <2>1, EndTyped, SetupFound DEF Elsewhere
<1> QED BY <1>3, <1>4, <1>5 DEF CopyVersion

LEMMA Discarded ==
  ASSUME WholeInv, ~torn, job.pc \in SettingUp, job.created, Discard(job.plan.version),
         cli.launcher = job.was.launcher, cli.current = job.was.current,
         cli.receipt = job.was.receipt
  PROVE  cli' = job.was
<1>1. cli \in Distributions /\ job.was \in Distributions
  BY DEF WholeInv, TypeOK, DistributionTypeOK, Jobs
<1>2. job.plan.version \notin job.was.versions
      /\ cli.versions = job.was.versions \cup {job.plan.version}
  BY VersionIsNew DEF WholeInv, CliInv, SetupSteps
<1>3. /\ cli' \in Distributions /\ cli'.versions = cli.versions \ {job.plan.version}
      /\ cli'.launcher = cli.launcher /\ cli'.current = cli.current
      /\ cli'.receipt = cli.receipt
  BY <1>1 DEF Discard, Distributions
<1>4. cli'.versions = job.was.versions
  BY <1>2, <1>3
<1> QED BY <1>1, <1>3, <1>4, SameDistribution

LEMMA CommitCheckWhole ==
  ASSUME WholeInv, job' \in Jobs, ~torn', CommitCheck
  PROVE  CliInv'
<1>1. /\ ~torn /\ job.pc = "commitCheck" /\ job.pc \in SettingUp /\ job \in Jobs
      /\ TypeOK /\ CliInv /\ here' = here
      /\ cli \in Distributions /\ job.was \in Distributions
  BY DEF CommitCheck, At, SettingUp, WholeInv, TypeOK, DistributionTypeOK, Jobs, homeVars
<1>2. /\ cli.launcher = job.was.launcher /\ cli.current = job.was.current
      /\ cli.receipt = job.was.receipt /\ here.runtime = job.before.runtime
      /\ ~job.created => cli.versions = job.was.versions
  BY <1>1 DEF CliInv, SetupSteps
<1>3. CASE Goto("launcher") /\ UNCHANGED cliVars
  <2>1. Onward("launcher") /\ cli' = cli
    BY <1>1, <1>3, GotoOnward DEF cliVars
  <2> QED BY <1>1, <2>1 DEF Onward, CliInv, SetupSteps, RemovalSteps, SettingUp, Elsewhere,
          WasWhole, Reused
<1>4. CASE End /\ IF job.created THEN Discard(job.plan.version) ELSE UNCHANGED cliVars
  <2>1. cli' = job.was
    BY <1>1, <1>2, <1>4, Discarded, SameDistribution DEF cliVars
  <2> QED BY <1>1, <1>2, <1>4, <2>1, EndTyped, SetupFound DEF Elsewhere
<1> QED BY <1>3, <1>4 DEF CommitCheck

LEMMA ControlWhole ==
  ASSUME WholeInv, job' \in Jobs, ~torn', WriteLauncher \/ WriteCurrent \/ WriteReceipt
  PROVE  CliInv'
<1>1. /\ ~torn /\ job.pc \in {"launcher", "current", "receipt"} /\ job.pc \in SettingUp
      /\ job \in Jobs /\ CliInv /\ here' = here /\ cli \in Distributions
      /\ job.plan.version \in Versions
  BY DEF WriteLauncher, WriteCurrent, WriteReceipt, Control, At, SettingUp, WholeInv, TypeOK,
     DistributionTypeOK, Position, homeVars
<1> USE DEF Onward, CliInv, SetupSteps, RemovalSteps, SettingUp, Elsewhere, WasWhole, Reused
<1>2. CASE Goto("undoCurrent") /\ UNCHANGED cliVars
  <2>1. Onward("undoCurrent") /\ cli' = cli
    BY <1>1, <1>2, GotoOnward DEF cliVars
  <2> QED BY <1>1, <2>1
<1>3. CASE At("launcher") /\ Write("launcher", TRUE) /\ Goto("current")
  <2>1. /\ Onward("current") /\ cli'.launcher /\ cli'.current = cli.current
        /\ cli'.versions = cli.versions /\ cli'.receipt = cli.receipt
    BY <1>1, <1>3, GotoOnward DEF Write, Distributions
  <2> QED BY <1>1, <1>3, <2>1 DEF At
<1>4. CASE At("current") /\ Write("current", job.plan.version) /\ Goto("receipt")
  <2>1. /\ Onward("receipt") /\ cli'.launcher = cli.launcher
        /\ cli'.current = job.plan.version
        /\ cli'.versions = cli.versions /\ cli'.receipt = cli.receipt
    BY <1>1, <1>4, GotoOnward DEF Write, Distributions
  <2> QED BY <1>1, <1>4, <2>1 DEF At
<1>5. CASE At("receipt") /\ Write("receipt", ReceiptFor(job.plan.version)) /\ Goto("package")
  <2>1. /\ Onward("package") /\ cli'.launcher = cli.launcher /\ cli'.current = cli.current
        /\ cli'.versions = cli.versions
        /\ cli'.receipt = [active |-> job.plan.version,
                           versions |-> cli.receipt.versions \cup {job.plan.version}]
    BY <1>1, <1>5, GotoOnward DEF Write, Distributions, ReceiptFor
  <2> QED BY <1>1, <1>5, <2>1 DEF At
<1> QED BY <1>2, <1>3, <1>4, <1>5 DEF WriteLauncher, WriteCurrent, WriteReceipt, Control

LEMMA PackageWhole ==
  ASSUME WholeInv, job' \in Jobs, ~torn', Package
  PROVE  CliInv'
<1>1. /\ ~torn /\ job.pc = "package" /\ job.pc \in SettingUp
      /\ job \in Jobs /\ CliInv /\ cli' = cli /\ here \in Contents
  BY DEF Package, At, SettingUp, WholeInv, TypeOK, cliVars
<1> USE DEF Onward, CliInv, SetupSteps, RemovalSteps, SettingUp, Elsewhere, WasWhole, Reused
<1>2. CASE Goto("undoCurrent") /\ UNCHANGED <<here, plan>>
  <2>1. Onward("undoCurrent")
    BY <1>1, <1>2, GotoOnward
  <2> QED BY <1>1, <1>2, <2>1
<1>3. CASE /\ here' = [here EXCEPT !.registry = @ \cup Configured, !.metadata = TRUE,
                                   !.runtime = job.plan.version]
           /\ Goto("activate")
  <2>1. Onward("activate") /\ here'.runtime = job.plan.version
    BY <1>1, <1>3, GotoOnward DEF Contents
  <2> QED BY <1>1, <2>1
<1> QED BY <1>2, <1>3 DEF Package

LEMMA ActivateWhole ==
  ASSUME WholeInv, job' \in Jobs, ~torn', Activate
  PROVE  CliInv'
<1>1. /\ ~torn /\ job.pc = "activate" /\ job.pc \in SettingUp /\ TypeOK
      /\ job \in Jobs /\ job.before \in Contents /\ CliInv /\ cli' = cli /\ here \in Contents
      /\ job.plan.version \in Versions
  BY DEF Activate, At, SettingUp, WholeInv, TypeOK, Jobs, Position, cliVars
<1>2. CASE Goto("undoCurrent") /\ here' = [job.before EXCEPT !.usage = here.usage]
  <2>1. Onward("undoCurrent") /\ here'.runtime = job.before.runtime
    BY <1>1, <1>2, GotoOnward DEF Contents
  <2> QED BY <1>1, <1>2, <2>1 DEF Onward, CliInv, SetupSteps, RemovalSteps, SettingUp, Elsewhere,
          WasWhole, Reused
<1>3. CASE End /\ here' = [here EXCEPT !.backups = TRUE]
  <2>1. /\ cli.launcher /\ cli.current = job.plan.version
        /\ cli.receipt = [active |-> job.plan.version,
                          versions |-> job.was.receipt.versions \cup {job.plan.version}]
        /\ cli.versions = job.was.versions \cup {job.plan.version}
        /\ here.runtime = job.plan.version
    BY <1>1, VersionIsNew DEF CliInv, SetupSteps
  <2>2. job.was.versions = job.was.receipt.versions
    BY <1>1 DEF CliInv, SetupSteps, WasWhole, Empty, NoReceipt
  <2>3. job.plan.version # 0
    BY <1>1, MaxVersionAssumption DEF Versions
  <2>4. Settled
    BY <2>1, <2>2, <2>3 DEF Settled, Whole, NoReceipt
  <2>5. Standing
    BY <1>1, <1>3 DEF Standing, Contents
  <2> QED BY <1>1, <1>3, <2>4, <2>5, EndTyped, UndoneStands DEF Elsewhere
<1> QED BY <1>2, <1>3 DEF Activate

LEMMA UndoWhole ==
  ASSUME WholeInv, job' \in Jobs, ~torn', UndoCurrent \/ UndoLauncher \/ UndoReceipt
  PROVE  CliInv'
<1>1. /\ ~torn /\ job.pc \in {"undoCurrent", "undoLauncher", "undoReceipt"}
      /\ job.pc \in SettingUp
      /\ job \in Jobs /\ CliInv /\ here' = here /\ cli \in Distributions
  BY DEF UndoCurrent, UndoLauncher, UndoReceipt, Undo, At, SettingUp, WholeInv, TypeOK,
     DistributionTypeOK, homeVars
<1> USE DEF Onward, CliInv, SetupSteps, RemovalSteps, SettingUp, Elsewhere, WasWhole, Reused
<1>2. CASE UndoCurrent
  <2>1. /\ Onward("undoLauncher") /\ cli'.launcher = cli.launcher
        /\ cli'.current = job.was.current
        /\ cli'.versions = cli.versions /\ cli'.receipt = cli.receipt
    BY <1>1, <1>2, GotoOnward DEF UndoCurrent, Undo, Write, Distributions
  <2> QED BY <1>1, <1>2, <2>1 DEF UndoCurrent, Undo, At
<1>3. CASE UndoLauncher
  <2>1. /\ Onward("undoReceipt") /\ cli'.launcher = job.was.launcher
        /\ cli'.current = cli.current
        /\ cli'.versions = cli.versions /\ cli'.receipt = cli.receipt
    BY <1>1, <1>3, GotoOnward DEF UndoLauncher, Undo, Write, Distributions
  <2> QED BY <1>1, <1>3, <2>1 DEF UndoLauncher, Undo, At
<1>4. CASE UndoReceipt
  <2>1. /\ Onward("undoVersion") /\ cli'.launcher = cli.launcher
        /\ cli'.current = cli.current
        /\ cli'.versions = cli.versions /\ cli'.receipt = job.was.receipt
    BY <1>1, <1>4, GotoOnward DEF UndoReceipt, Undo, Write, Distributions
  <2> QED BY <1>1, <1>4, <2>1 DEF UndoReceipt, Undo, At
<1> QED BY <1>2, <1>3, <1>4

LEMMA UndoVersionWhole ==
  ASSUME WholeInv, job' \in Jobs, ~torn', UndoVersion
  PROVE  CliInv'
<1>1. /\ ~torn /\ job.pc = "undoVersion" /\ job.pc \in SettingUp
      /\ TypeOK /\ CliInv /\ here' = here /\ End
      /\ cli \in Distributions /\ job.was \in Distributions
      /\ IF job.created THEN Discard(job.plan.version) ELSE cli' = cli
  BY DEF UndoVersion, At, SettingUp, WholeInv, TypeOK, DistributionTypeOK, Jobs, homeVars, cliVars
<1>2. /\ cli.launcher = job.was.launcher /\ cli.current = job.was.current
      /\ cli.receipt = job.was.receipt /\ here.runtime = job.before.runtime
      /\ ~job.created => cli.versions = job.was.versions
  BY <1>1 DEF CliInv, SetupSteps
<1>3. cli' = job.was
  BY <1>1, <1>2, Discarded, SameDistribution
<1> QED BY <1>1, <1>2, <1>3, EndTyped, SetupFound DEF Elsewhere

LEMMA SetupWhole == WholeInv /\ Setup /\ job' \in Jobs /\ ~torn' => CliInv'
BY CopyVersionWhole, CommitCheckWhole, ControlWhole, PackageWhole, ActivateWhole, UndoWhole,
   UndoVersionWhole DEF Setup

-----------------------------------------------------------------------------
(* Preflights and the credential commands.                                  *)

LEMMA PlansWhole ==
  ASSUME WholeInv, ~torn',
         \/ PlanSetup
         \/ \E kind \in Removals : PlanRemoval(kind)
         \/ \E v \in {0} \cup Versions : Refuse(v)
  PROVE  CliInv'
<1>1. UNCHANGED <<cliVars, homeVars, job, torn>>
  BY DEF PlanSetup, PlanRemoval, Refuse
<1> QED BY <1>1 DEF WholeInv, CliInv, Settled, Whole, Fresh, SetupSteps, RemovalSteps, WasWhole,
        Reused, cliVars, homeVars

LEMMA BeginWhole ==
  ASSUME WholeInv, job' \in Jobs, ~torn', NEW v \in {0} \cup Versions, Begin(v)
  PROVE  CliInv'
<1>1. /\ ~torn /\ Settled /\ job' \in Jobs /\ cli' = cli /\ here' = here
      /\ here.runtime \in {0} \cup Versions
  BY DEF Begin, Idle, WholeInv, CliInv, Elsewhere, TypeOK, Contents, cliVars, homeVars
<1>2. NoJob \in Jobs
  BY ConstantsTyped
<1>3. /\ job'.pc = (IF plan.kind = "setup" THEN "copy" ELSE "stage")
      /\ job'.plan = [plan EXCEPT !.version = v] /\ job'.was = cli /\ job'.before = here
      /\ ~job'.created /\ job'.at = 0
  BY <1>2 DEF Begin, Jobs, NoJob
<1>4. CASE plan.kind = "setup"
  BY <1>1, <1>3, <1>4 DEF CliInv, Settled, Whole, Fresh, SetupSteps, RemovalSteps, WasWhole,
     Reused, SettingUp, Elsewhere
<1>5. CASE plan.kind # "setup"
  <2>1. plan.kind \in {"removeCli", "purge"} /\ Whole
    BY <1>5 DEF Begin, Admitted
  <2>2. job'.plan.kind = plan.kind
    BY <1>3 DEF WholeInv, TypeOK, Plans
  <2> QED BY <1>1, <1>3, <1>5, <2>1, <2>2 DEF CliInv, Settled, Whole, Fresh, SetupSteps,
          RemovalSteps, WasWhole, SettingUp, Elsewhere, Selecting, Removing, Cleaning
<1> QED BY <1>4, <1>5

LEMMA CredentialWhole ==
  ASSUME WholeInv, job' \in Jobs, ~torn', Credential
  PROVE  CliInv'
<1>1. ~torn /\ cli' = cli
  <2>1. UNCHANGED <<cliVars, torn>>
    BY DEF Credential, StartCredential, Register, SetItem, DeleteItem, Unregister
  <2> QED BY <2>1 DEF cliVars
<1>2. here'.runtime = here.runtime
  <2>1. here \in Contents
    BY DEF WholeInv, TypeOK
  <2>2. \A ids : Listed(ids) => here'.runtime = here.runtime
    BY <2>1 DEF Listed, Contents
  <2> QED BY <2>2 DEF Credential, StartCredential, Register, SetItem, DeleteItem, Unregister,
          homeVars
<1>3. job.pc \in Elsewhere
  BY DEF Credential, StartCredential, Register, SetItem, DeleteItem, Unregister, Idle, At,
     Elsewhere
<1>4. job'.pc \in Elsewhere
  <2>1. ASSUME NEW p, NEW pc \in {"register", "delete"}, StartCredential(p, pc)
        PROVE  job'.pc \in Elsewhere
    BY <2>1, ConstantsTyped DEF StartCredential, Jobs, Elsewhere
  <2>2. \A pc : Goto(pc) => job'.pc = pc
    BY DEF WholeInv, TypeOK, Goto, Jobs
  <2> QED BY <2>1, <2>2, EndTyped DEF Credential, Register, SetItem, DeleteItem, Unregister,
          Elsewhere
<1> QED BY <1>1, <1>2, <1>3, <1>4, ElsewhereStands DEF Standing, WholeInv

-----------------------------------------------------------------------------
(* Removal.                                                                 *)

Staged == {"stage", "check", "cleanCli", "restoreBackups", "restoreRegistry", "revalidate",
           "unstage"} \cup Selecting \cup Cleaning

LEMMA StepsRemove ==
  ASSUME WholeInv, ~torn, job.pc \in Staged \cup Removing \cup {"removed", "failed"}
  PROVE  /\ RemovalSteps /\ job.pc \notin SettingUp \cup Elsewhere
         /\ job.plan.kind \in Removals
         /\ job.pc \in Staged => job.plan.kind # "uninstall"
         /\ job.pc \in {"removed", "failed"} => job.plan.kind = "uninstall"
BY DEF WholeInv, CliInv, RemovalSteps, SettingUp, Elsewhere, Staged, Selecting, Removing, Cleaning,
   Removals

(* The next step of a removal leaves the CLI as it is, the service package   *)
(* at most goes.                                                            *)
LEMMA RemovalOn ==
  ASSUME WholeInv, ~torn, job.pc \in Staged \cup Removing, cli' = cli,
         here'.runtime \in {here.runtime, 0},
         NEW pc, job'.pc = pc, job'.plan.kind = job.plan.kind, job'.was = job.was,
         pc = "stage" => job.pc = "stage" /\ job'.at = job.at,
         IF job.plan.kind = "uninstall"
         THEN pc \in Removing \cup {"removed", "failed"}
         ELSE \/ pc \in {"stage", "restoreBackups", "restoreRegistry", "revalidate", "unstage"}
              \/ pc \in Selecting \cup Removing
                 /\ job.pc \in {"check", "cleanCli"} \cup Selecting \cup Removing \cup Cleaning
              \/ pc \in Cleaning \cup {"cleanCli"} /\ here'.runtime = 0
                 /\ job.pc \in {"check", "cleanCli"} \cup Selecting \cup Removing \cup Cleaning
  PROVE  CliInv'
<1>1. RemovalSteps /\ job.pc \notin SettingUp \cup Elsewhere
  BY StepsRemove
<1>2. pc \notin SettingUp \cup Elsewhere
  BY DEF SettingUp, Elsewhere, Selecting, Removing, Cleaning
<1>3. CASE job.plan.kind = "uninstall"
  BY <1>1, <1>2, <1>3 DEF CliInv, RemovalSteps, SetupSteps, Settled, Whole, Fresh
<1>4. CASE job.plan.kind # "uninstall"
  BY <1>1, <1>2, <1>4 DEF CliInv, RemovalSteps, SetupSteps, WasWhole, Fresh, Selecting, Removing,
     Cleaning, Staged
<1> QED BY <1>3, <1>4

LEMMA AbortWhole ==
  ASSUME WholeInv, ~torn, job.pc \in (Staged \cup Removing) \ {"stage"}, cli' = cli,
         here'.runtime \in {here.runtime, 0}, Abort
  PROVE  CliInv'
<1>1. job \in Jobs
  BY DEF WholeInv, TypeOK
<1>2. Onward(Handler)
  BY <1>1, AbortOnward
<1>3. /\ Handler \in {"failed", "restoreBackups", "restoreRegistry", "revalidate"}
      /\ job.plan.kind = "uninstall" <=> Handler = "failed"
  BY DEF Handler
<1> HIDE DEF Handler
<1> QED BY <1>2, <1>3, RemovalOn DEF Onward

LEMMA GotoWhole ==
  ASSUME WholeInv, ~torn, cli' = cli, here'.runtime = here.runtime,
         NEW pc, Goto(pc),
         \/ job.pc \in {"check", "credentials", "recheck"} \cup Selecting /\ pc \in Selecting
         \/ job.pc \in Removing \cup {"credentials"} /\ pc \in Removing
         \/ job.pc \in Cleaning /\ pc \in Cleaning \cup {"cleanCli"}
         \/ job.pc = "check" /\ pc = "config"
         \/ job.pc \in {"restoreBackups", "restoreRegistry", "revalidate"}
            /\ pc \in {"restoreRegistry", "revalidate", "unstage"}
  PROVE  CliInv'
<1>1. job \in Jobs
  BY DEF WholeInv, TypeOK
<1>2. Onward(pc)
  BY <1>1, GotoOnward
<1>3. job.pc \in Staged \cup Removing
  BY DEF Staged, Selecting, Removing, Cleaning
<1>4. job.pc \in Staged => job.plan.kind # "uninstall"
  BY <1>3, StepsRemove
<1>5. job.pc \in Cleaning => here.runtime = 0
  BY <1>3, StepsRemove DEF RemovalSteps, Cleaning, Removing
<1>6. (pc \in Removing /\ job.pc \in Removing) \/ job.pc \in Staged
  BY DEF Staged, Selecting, Removing, Cleaning
<1> QED BY <1>2, <1>3, <1>4, <1>5, <1>6, RemovalOn DEF Onward, Selecting, Removing, Cleaning

LEMMA StartUninstallWhole ==
  ASSUME WholeInv, job' \in Jobs, ~torn', StartUninstall
  PROVE  CliInv'
<1>1. ~torn /\ Settled /\ cli' = cli /\ here' = here
  BY DEF StartUninstall, Idle, WholeInv, CliInv, Elsewhere, cliVars, homeVars
<1>2. job'.pc = "config" /\ job'.plan.kind = "uninstall"
  BY ConstantsTyped DEF StartUninstall, Jobs, Plans
<1> QED BY <1>1, <1>2 DEF CliInv, Settled, Whole, Fresh, SetupSteps, RemovalSteps, SettingUp,
        Elsewhere, Removing

(* One more piece leaves its place; after the last one nothing is there.    *)
LEMMA StageTakes ==
  ASSUME cli \in Distributions, NEW at \in 0..3, MoveAside(Order[at + 1]),
         \A i \in 1..at : cli[Order[i]] = Empty[Order[i]]
  PROVE  /\ \A i \in 1..(at + 1) : cli'[Order[i]] = Empty[Order[i]]
         /\ at = 3 => Fresh'
<1> DEFINE piece == Order[at + 1]
<1>1. piece \in {"launcher", "current", "versions", "receipt"}
  BY DEF Order
<1>2. cli' \in Distributions /\ cli'[piece] = Empty[piece]
      /\ \A other \in {"launcher", "current", "versions", "receipt"} \ {piece} :
           cli'[other] = cli[other]
  <2>1. cli' = [cli EXCEPT ![piece] = Empty[piece]]
    BY DEF MoveAside
  <2>2. Empty \in Distributions
    BY ConstantsTyped
  <2> HIDE DEF piece, Empty
  <2> QED BY <1>1, <2>1, <2>2 DEF Distributions
<1>3. \A i \in 1..(at + 1) : cli'[Order[i]] = Empty[Order[i]]
  <2>1. /\ Order[1] = "launcher" /\ Order[2] = "current" /\ Order[3] = "versions"
        /\ Order[4] = "receipt"
    BY DEF Order
  <2>2. \A i \in 1..at : Order[i] # piece
                         /\ Order[i] \in {"launcher", "current", "versions", "receipt"}
    BY <2>1
  <2> HIDE DEF piece, Empty
  <2>3. \A i \in 1..at : cli'[Order[i]] = Empty[Order[i]]
    BY <1>2, <2>2
  <2>4. \A i \in 1..(at + 1) : i \in 1..at \/ Order[i] = piece
    BY DEF piece
  <2> QED BY <1>2, <2>3, <2>4
<1>4. ASSUME at = 3
      PROVE  cli' = Empty
  <2>1. /\ cli'[Order[1]] = Empty[Order[1]] /\ cli'[Order[2]] = Empty[Order[2]]
        /\ cli'[Order[3]] = Empty[Order[3]] /\ cli'[Order[4]] = Empty[Order[4]]
    BY <1>3, <1>4
  <2>2. Empty \in Distributions
    BY ConstantsTyped
  <2> HIDE DEF Empty
  <2>3. /\ cli'.launcher = Empty.launcher /\ cli'.current = Empty.current
        /\ cli'.versions = Empty.versions /\ cli'.receipt = Empty.receipt
    BY <2>1 DEF Order
  <2> QED BY <1>2, <2>2, <2>3, SameDistribution
<1> QED BY <1>3, <1>4 DEF Fresh

LEMMA StageWhole ==
  ASSUME WholeInv, job' \in Jobs, ~torn', Stage
  PROVE  CliInv'
<1>1. /\ ~torn /\ job.pc = "stage" /\ job \in Jobs /\ cli \in Distributions /\ here' = here
      /\ job.at \in 0..3 /\ Len(Order) = 4
  BY DEF Stage, At, WholeInv, TypeOK, DistributionTypeOK, Position, Jobs, Order, homeVars, cliVars
<1>2. /\ job.plan.kind \in {"removeCli", "purge"} /\ WasWhole
      /\ here.runtime \in {0, job.was.current}
      /\ \A i \in 1..job.at : cli[Order[i]] = Empty[Order[i]]
  BY <1>1, StepsRemove DEF RemovalSteps, Staged, Removing, Removals
<1>3. CASE job' = [job EXCEPT !.pc = "unstage", !.stopped = "stage"] /\ UNCHANGED cliVars
  <2>1. Onward("unstage") /\ cli' = cli
    BY <1>1, <1>3 DEF Onward, Jobs, cliVars
  <2> QED BY <1>1, <2>1, <1>2, RemovalOn DEF Onward, Staged
<1>4. ASSUME MoveAside(Order[job.at + 1]), NEW pc,
             pc = (IF job.at + 1 = 4 THEN "check" ELSE "stage"),
             job' = [job EXCEPT !.at = @ + 1, !.pc = pc]
      PROVE  CliInv'
  <2>1. Onward(pc) /\ job'.at = job.at + 1
    BY <1>1, <1>4 DEF Onward, Jobs
  <2>2. /\ \A i \in 1..job'.at : cli'[Order[i]] = Empty[Order[i]]
        /\ job.at = 3 => Fresh'
    BY <1>1, <1>2, <1>4, <2>1, StageTakes
  <2>3. pc \in {"check", "stage"} /\ (pc = "check" => Fresh')
    BY <1>1, <1>4, <2>2
  <2> QED BY <1>1, <1>2, <2>1, <2>2, <2>3 DEF Onward, CliInv, SetupSteps, RemovalSteps,
          WasWhole, SettingUp, Elsewhere, Selecting, Removing, Cleaning
<1> QED BY <1>1, <1>3, <1>4 DEF Stage

LEMMA QuietRemovalWhole ==
  ASSUME WholeInv, ~torn',
         Check \/ QuarantineRegistry \/ QuarantineBackups \/ Recheck \/ CredentialsDeleted
           \/ RemoveConfig \/ CleanBackups \/ CleanRegistry \/ RemoveDirectory
  PROVE  CliInv'
<1>1. ~torn /\ cli' = cli
  <2>1. UNCHANGED <<cliVars, torn>>
    BY DEF Check, QuarantineRegistry, QuarantineBackups, Quarantine, Recheck, CredentialsDeleted,
       RemoveConfig, CleanBackups, CleanRegistry, Clean, RemoveDirectory
  <2> QED BY <2>1 DEF cliVars
<1>2. here'.runtime = here.runtime
  <2>1. Quarantined("registry") \/ Quarantined("backups") => here'.runtime = here.runtime
    BY DEF Quarantined, WholeInv, TypeOK, Contents
  <2> QED BY <2>1 DEF Check, QuarantineRegistry, QuarantineBackups, Quarantine, Recheck,
          CredentialsDeleted, RemoveConfig, CleanBackups, CleanRegistry, Clean, RemoveDirectory,
          homeVars
<1> USE DEF At, Staged, Selecting, Removing, Cleaning
<1>3. CASE Check
  BY <1>1, <1>2, <1>3, GotoWhole, AbortWhole DEF Check
<1>4. CASE QuarantineRegistry
  BY <1>1, <1>2, <1>4, GotoWhole, AbortWhole DEF QuarantineRegistry, Quarantine
<1>5. CASE QuarantineBackups
  BY <1>1, <1>2, <1>5, GotoWhole, AbortWhole DEF QuarantineBackups, Quarantine
<1>6. CASE Recheck
  BY <1>1, <1>2, <1>6, GotoWhole, AbortWhole DEF Recheck
<1>7. CASE CredentialsDeleted
  BY <1>1, <1>2, <1>7, GotoWhole DEF CredentialsDeleted
<1>8. CASE RemoveConfig
  BY <1>1, <1>2, <1>8, GotoWhole, AbortWhole DEF RemoveConfig
<1>9. CASE CleanBackups \/ CleanRegistry
  BY <1>1, <1>2, <1>9, GotoWhole DEF CleanBackups, CleanRegistry, Clean
<1>10. CASE RemoveDirectory
  BY <1>1, <1>2, <1>10, GotoWhole, AbortWhole DEF RemoveDirectory
<1> QED BY <1>3, <1>4, <1>5, <1>6, <1>7, <1>8, <1>9, <1>10

LEMMA DeleteCredentialWhole ==
  ASSUME WholeInv, ~torn', NEW p \in Providers, DeleteCredential(p)
  PROVE  CliInv'
<1>1. ~torn /\ cli' = cli /\ here' = here /\ job.pc = "credentials" /\ job \in Jobs
  BY DEF DeleteCredential, At, cliVars, WholeInv, TypeOK
<1>2. job.plan.kind # "uninstall"
  BY <1>1, StepsRemove DEF Staged, Selecting
<1>3. CASE Abort
  BY <1>1, <1>3, AbortWhole DEF Staged, Selecting
<1>4. CASE job' = [job EXCEPT !.left = @ \ {p}]
  <2>1. Onward("credentials")
    BY <1>1, <1>4 DEF Onward, Jobs
  <2> QED BY <1>1, <1>2, <2>1, RemovalOn DEF Onward, Staged, Selecting
<1> QED BY <1>3, <1>4 DEF DeleteCredential

LEMMA StopServiceWhole ==
  ASSUME WholeInv, ~torn', StopService
  PROVE  CliInv'
<1>1. /\ ~torn /\ cli' = cli /\ job.pc = "service" /\ job \in Jobs /\ job.plan \in Plans
      /\ here \in Contents
  BY DEF StopService, At, cliVars, WholeInv, TypeOK, Jobs
<1>2. CASE Abort /\ UNCHANGED here
  BY <1>1, <1>2, AbortWhole DEF Staged, Removing
<1>3. ASSUME NEW layers, Flushed(layers),
             job' = [job EXCEPT !.pc = "metadata", !.plan = Outdated(@, layers)]
      PROVE  CliInv'
  <2>1. here'.runtime = here.runtime
    BY <1>1, <1>3 DEF Flushed, Contents
  <2>2. Onward("metadata")
    BY <1>1, <1>3, OutdatedTyped DEF Onward, Jobs
  <2> QED BY <1>1, <2>1, <2>2, RemovalOn DEF Onward, Removing
<1> QED BY <1>2, <1>3 DEF StopService

LEMMA RemoveStoreWhole ==
  ASSUME WholeInv, ~torn', RemoveMetadata \/ RemoveRuntime \/ RemoveUsage
  PROVE  CliInv'
<1>1. /\ ~torn /\ cli' = cli /\ job \in Jobs /\ here \in Contents /\ away \in Contents
      /\ Nothing.runtime = 0
  BY DEF RemoveMetadata, RemoveRuntime, RemoveUsage, RemoveStore, cliVars, WholeInv, TypeOK, Nothing
<1>2. ASSUME NEW x \in {"metadata", "usage"}, NEW pc, NEW intact, NEW next,
             RemoveStore(pc, x, intact, next)
      PROVE  here'.runtime = here.runtime /\ job.pc = pc /\ (Goto(next) \/ Abort)
  <2>1. here'.runtime = here.runtime
    BY <1>1, <1>2 DEF RemoveStore, Quarantined, Contents
  <2> QED BY <1>2, <2>1 DEF RemoveStore, At
<1>3. CASE RemoveMetadata
  <2>1. here'.runtime = here.runtime /\ job.pc = "metadata" /\ (Goto("runtime") \/ Abort)
    BY <1>2, <1>3 DEF RemoveMetadata
  <2> QED BY <1>1, <2>1, GotoWhole, AbortWhole DEF Staged, Removing
<1>4. CASE RemoveUsage
  <2>1. here'.runtime = here.runtime /\ job.pc = "usage" /\ (Goto("directory") \/ Abort)
    BY <1>2, <1>4 DEF RemoveUsage
  <2> QED BY <1>1, <2>1, GotoWhole, AbortWhole DEF Staged, Cleaning
<1>5. CASE RemoveRuntime
  <2> DEFINE next == CASE job.plan.kind = "purge" -> "cleanBackups"
                       [] job.plan.kind = "removeCli" -> "cleanCli"
                       [] OTHER -> "removed"
  <2>1. /\ job.pc = "runtime"
        /\ \/ Goto(next) /\ here'.runtime = 0
           \/ Abort /\ here'.runtime \in {here.runtime, 0}
    <3> HIDE DEF next
    <3>1. RemoveStore("runtime", "runtime", ~foreign, next)
      BY <1>5 DEF RemoveRuntime, next
    <3>2. CASE here' = [here EXCEPT !["runtime"] = Nothing["runtime"]] /\ Goto(next)
      <4> HIDE DEF Nothing
      <4> QED BY <1>1, <3>1, <3>2 DEF RemoveStore, At, Contents
    <3>3. CASE Abort /\ UNCHANGED <<here, away>>
      BY <3>1, <3>3 DEF RemoveStore, At
    <3>4. CASE Abort /\ Quarantined("runtime")
      <4> HIDE DEF Nothing
      <4> QED BY <1>1, <3>1, <3>4 DEF RemoveStore, At, Quarantined, Contents
    <3> QED BY <3>1, <3>2, <3>3, <3>4 DEF RemoveStore
  <2>2. CASE Abort
    BY <1>1, <2>1, <2>2, AbortWhole DEF Staged, Removing
  <2>3. CASE Goto(next) /\ here'.runtime = 0
    <3>1. /\ next \in {"cleanBackups", "cleanCli", "removed"}
          /\ job.plan.kind = "uninstall" <=> next = "removed"
      BY <1>1, <2>1, StepsRemove DEF Removing, Removals
    <3> HIDE DEF next
    <3>2. Onward(next)
      BY <1>1, <2>3, GotoOnward
    <3> QED BY <1>1, <2>1, <2>3, <3>1, <3>2, RemovalOn DEF Onward, Removing, Cleaning
  <2> QED BY <2>1, <2>2, <2>3
<1> QED BY <1>3, <1>4, <1>5

LEMMA EndOfRemovalWhole ==
  ASSUME WholeInv, ~torn', CleanCli \/ Uninstalled
  PROVE  CliInv'
<1>1. ~torn /\ Standing /\ job'.pc \in Elsewhere
  BY EndTyped DEF CleanCli, Uninstalled, Forget, homeVars, cliVars, Standing, Elsewhere
<1>2. Settled
  <2>1. CASE CleanCli
    BY <1>1, <2>1, StepsRemove DEF CleanCli, At, RemovalSteps, Staged, Removing, Settled
  <2>2. CASE Uninstalled
    BY <1>1, <2>2, StepsRemove DEF Uninstalled, RemovalSteps
  <2> QED BY <2>1, <2>2
<1> QED BY <1>1, <1>2, UndoneStands

LEMMA RemovalWhole == WholeInv /\ Removal /\ job' \in Jobs /\ ~torn' => CliInv'
BY StartUninstallWhole, StageWhole, QuietRemovalWhole, DeleteCredentialWhole, StopServiceWhole,
   RemoveStoreWhole, EndOfRemovalWhole DEF Removal

LEMMA UnwindingWhole ==
  ASSUME WholeInv, job' \in Jobs, ~torn', Unwinding
  PROVE  CliInv'
<1>1. ~torn /\ job \in Jobs
  BY DEF Unwinding, RestoreBackups, RestoreRegistry, Restore, Revalidate, Unstage, Unstaged,
     WholeInv, TypeOK
<1>2. ASSUME NEW pc \in {"restoreBackups", "restoreRegistry"}, NEW x \in {"backups", "registry"},
             NEW next \in {"restoreRegistry", "revalidate"}, Restore(pc, x, next)
      PROVE  CliInv'
  <2>1. cli' = cli /\ job.pc = pc
    BY <1>2 DEF Restore, cliVars, At
  <2>2. here'.runtime = here.runtime
    BY <1>2 DEF Restore, Restored, WholeInv, TypeOK, Contents
  <2>3. Onward(next)
    <3>1. Goto(next) \/ job' = [job EXCEPT !.pc = next, !.tidy = FALSE]
      BY <1>2 DEF Restore
    <3> QED BY <1>1, <3>1, GotoOnward DEF Onward, Jobs
  <2>4. job.plan.kind # "uninstall"
    BY <1>1, <2>1, StepsRemove DEF Staged
  <2> QED BY <1>1, <2>1, <2>2, <2>3, <2>4, RemovalOn DEF Onward, Staged
<1>3. CASE Revalidate
  <2>1. cli' = cli /\ here' = here /\ job.pc = "revalidate" /\ Goto("unstage")
    BY <1>3 DEF Revalidate, homeVars, cliVars, At
  <2> QED BY <1>1, <2>1, GotoWhole
<1>4. CASE Unstage
  <2>1. here' = here /\ job.pc = "unstage"
    BY <1>4 DEF Unstage, homeVars, At
  <2>2. Onward("unstage")
    <3>1. \/ job' = [job EXCEPT !.at = @ - 1]
          \/ job' = [job EXCEPT !.at = @ - 1, !.tidy = FALSE]
      BY <1>4 DEF Unstage
    <3> QED BY <1>1, <2>1, <3>1 DEF Onward, Jobs
  <2>3. RemovalSteps
    BY <1>1, <2>1, StepsRemove DEF Staged
  <2> QED BY <2>1, <2>2, <2>3 DEF Onward, CliInv, SetupSteps, RemovalSteps, WasWhole, SettingUp,
          Elsewhere, Selecting, Removing, Cleaning
<1>5. CASE Unstaged
  <2>1. /\ cli = job.was /\ cli' = cli /\ here' = here /\ job.pc = "unstage"
        /\ job'.pc \in Elsewhere
    BY <1>5, EndTyped DEF Unstaged, Forget, homeVars, At, Elsewhere
  <2>2. WasWhole /\ here.runtime \in {0, job.was.current}
    BY <1>1, <2>1, StepsRemove DEF RemovalSteps, Staged, Removing
  <2>3. Settled
    BY <2>1, <2>2 DEF WasWhole, Settled, Whole
  <2> QED BY <1>1, <2>1, <2>3, UndoneStands DEF Standing
<1> QED BY <1>2, <1>3, <1>4, <1>5 DEF Unwinding, RestoreBackups, RestoreRegistry

LEMMA EnvironmentWhole ==
  ASSUME WholeInv, job' \in Jobs, ~torn', Environment
  PROVE  CliInv'
<1>1. /\ ~torn /\ cli' = cli /\ job \in Jobs /\ job.plan \in Plans /\ here \in Contents
  <2>1. UNCHANGED <<cliVars, torn>>
    BY DEF Environment, BridgeWrites, UserFile, Resolve, Crash
  <2> QED BY <2>1 DEF cliVars, WholeInv, TypeOK, Jobs
<1>2. here'.runtime = here.runtime
  BY <1>1 DEF Environment, BridgeWrites, UserFile, Resolve, Crash, Contents
<1>3. Onward(job.pc) /\ job'.at = job.at
  <2>1. job' = job \/ \E layers : job' = [job EXCEPT !.plan = Outdated(@, layers)]
    BY DEF Environment, BridgeWrites, UserFile, Resolve, Crash
  <2>2. CASE job' = job
    BY <2>2 DEF Onward
  <2>3. ASSUME NEW layers, job' = [job EXCEPT !.plan = Outdated(@, layers)]
        PROVE  Onward(job.pc) /\ job'.at = job.at
    BY <1>1, <2>3, OutdatedTyped DEF Onward, Jobs
  <2> QED BY <2>1, <2>2, <2>3
<1> QED BY <1>1, <1>2, <1>3 DEF WholeInv, Onward, CliInv, Settled, Whole, Fresh, SetupSteps,
        RemovalSteps, WasWhole, Reused

-----------------------------------------------------------------------------
LEMMA NextWhole == WholeInv /\ job' \in Jobs /\ [Next]_vars => CliInv'
<1> SUFFICES ASSUME WholeInv, job' \in Jobs, [Next]_vars, ~torn' PROVE CliInv'
  BY DEF CliInv
<1>1. CASE Next
  BY <1>1, PlansWhole, BeginWhole, SetupWhole, CredentialWhole, RemovalWhole, UnwindingWhole,
     EnvironmentWhole DEF Next
<1>2. CASE UNCHANGED vars
  BY <1>2 DEF WholeInv, CliInv, Settled, Whole, Fresh, SetupSteps, RemovalSteps, WasWhole, Reused,
     vars, cliVars, homeVars
<1> QED BY <1>1, <1>2

(* Setup and removal take the tool apart piece by piece, may fail at any     *)
(* piece and undo what they did: when the command is over, the tool is whole *)
(* or absent and the service package is the active version's, for any number *)
(* of versions, providers and failed steps, unless the command died or       *)
(* reported an incomplete rollback (rollbackActivation,                      *)
(* removeManagedDistribution).                                               *)
THEOREM DistributionAllOrNothing == Spec => []AllOrNothing
<1>1. Init => CliInv
  BY ConstantsTyped DEF Init, DistributionInit, CliInv, Settled, Whole, Fresh, SetupSteps,
     RemovalSteps, SettingUp, Elsewhere, Nothing
<1>2. ListedInv /\ ListedInv' /\ CliInv /\ [Next]_vars => CliInv'
  BY NextWhole DEF ListedInv, WholeInv, TypeOK
<1>3. CliInv => AllOrNothing
  BY DEF CliInv, Settled, AllOrNothing, Idle, Elsewhere
<1> QED BY <1>1, <1>2, <1>3, RemovalInvariant, PTL DEF Spec

-----------------------------------------------------------------------------
(* An uninstall that reports success has removed what its mode promises, and *)
(* one that reports failure has kept what the next attempt needs.            *)

(* The steps after the one that removes each part.                          *)
Finishing == Cleaning \cup {"cleanCli", "removed"}
PastMetadata == {"runtime"} \cup Finishing
PastService == {"metadata"} \cup PastMetadata
PastConfig == {"service"} \cup PastService

(* Which command is at which step, and that it has not reported yet.        *)
Kinds ==
    /\ ~Idle => told = "none"
    /\ job.pc \in SettingUp \cup {"register", "set", "delete", "unregister"}
         => job.plan.kind \notin Removals
    /\ job.pc \in Staged => job.plan.kind \in {"removeCli", "purge"}
    /\ job.pc \in Selecting \cup Cleaning \cup {"restoreBackups", "restoreRegistry"}
         => Purging
    /\ job.pc \in Removing => job.plan.kind \in Removals
    /\ job.pc \in {"removed", "failed"} => job.plan.kind = "uninstall"

(* The integration is taken away from the outside in and stays away.        *)
Parts ==
    /\ job.pc \in PastConfig => ~config
    /\ job.pc \in PastService => ~service
    /\ job.pc \in PastMetadata => ~here.metadata
    /\ job.pc \in Finishing => here.runtime = 0

Tidy == ~away.metadata /\ away.runtime = 0

KnownTidy == plan.kind = "purge" /\ "home" \notin plan.stale => Tidy

(* No quarantine of an earlier removal is left behind the one that runs.    *)
Quarantines ==
    /\ KnownTidy
    /\ job.pc \in {"stage", "check"} /\ Purging /\ "home" \notin job.plan.stale => Tidy
    /\ job.pc \in PastConfig \/ (Purging /\ job.pc \in Selecting \cup {"config"}) => Tidy
    /\ Purging /\ job.pc \in {"stage", "check", "cleanCli"} \cup Selecting \cup Removing \cup Cleaning
         => ~away.usage

(* What else a purge takes, and what the other modes leave.                 *)
Stock ==
    /\ Purging /\ job.pc \in {"recheck", "credentials", "cleanCli"} \cup Removing \cup Cleaning
         => ~here.backups
    /\ Purging /\ job.pc \in {"directory", "cleanCli"}
         => ~here.usage /\ ~away.backups /\ away.registry = {}
    /\ Purging /\ job.pc = "cleanCli" => here.registry = {} /\ keychain = {}
    /\ job.plan.kind \in {"uninstall", "removeCli"} /\ ~Idle
         => here.registry = job.before.registry /\ here.backups = job.before.backups

(* The tool is staged piece by piece before the comparison.                 *)
Pieces ==
    /\ job.pc = "stage" => \A i \in 1..job.at : cli[Order[i]] = Empty[Order[i]]
    /\ job.pc \in {"check"} \cup Selecting \/ (job.pc \in Removing /\ job.plan.kind # "uninstall")
         \/ job.pc \in Cleaning \cup {"cleanCli"}
       => Fresh

(* Where a removal is unwound, and where its caller reports the failure.     *)
Unwound == {"restoreBackups", "restoreRegistry", "revalidate", "unstage", "failed"}

(* What a failed removal has to give back is in its place or in the          *)
(* quarantine it was moved to.                                               *)
Returnable ==
    /\ job.plan.kind \in {"removeCli", "purge"} /\ ~Idle => WasWhole
    /\ job.pc \in Reversible \/ (job.pc \in Unwound /\ job.stopped \in Reversible)
         => config = job.config /\ here.runtime = job.before.runtime
    /\ Purging =>
         /\ job.pc \in {"stage", "check", "registry"} => here.registry = job.before.registry
         /\ job.pc \in {"stage", "check", "registry", "backups"}
              => here.backups = job.before.backups
         /\ job.pc \in {"backups", "recheck", "credentials", "restoreBackups"} \cup Removing
              => away.registry = job.before.registry
         /\ job.pc \in {"recheck", "credentials", "restoreBackups"} \cup Removing
              => away.backups = job.before.backups
         /\ job.tidy /\ job.pc = "restoreRegistry"
              => away.registry = job.before.registry /\ here.backups = job.before.backups
         /\ job.tidy /\ job.pc \in {"revalidate", "unstage"} /\ job.stopped \notin Committed
              => here.registry = job.before.registry /\ here.backups = job.before.backups

Gone == Kinds /\ Parts /\ Quarantines /\ Stock /\ Pieces /\ Returnable

GoneInv == ListedInv /\ Gone

LEMMA GoneTyped ==
  GoneInv => /\ job \in Jobs /\ job.plan \in Plans /\ plan \in Plans
             /\ here \in Contents /\ away \in Contents
             /\ cli \in Distributions /\ config \in BOOLEAN /\ service \in BOOLEAN
BY DEF GoneInv, ListedInv, TypeOK, DistributionTypeOK, Jobs

LEMMA GoneStarts == Init => Gone
<1> SUFFICES ASSUME Init PROVE Gone
  OBVIOUS
<1>1. job.pc = "none" /\ plan.kind = "none" /\ job.plan.kind = "none"
  BY DEF Init, NoJob, NoPlan
<1> QED BY <1>1 DEF GoneInv, Gone, Kinds, Parts, Quarantines, KnownTidy, Tidy, Stock, Pieces,
        Returnable, Idle, Staged, SettingUp, Elsewhere, Selecting, Removing, Cleaning, Purging,
        Finishing, PastMetadata, PastService, PastConfig, Unwound, Reversible, Committed,
        Removals

(* The job is over, or is no removal.                                       *)
LEMMA OutsideGone ==
  ASSUME job'.pc \in SettingUp \cup Elsewhere, KnownTidy',
         job'.pc # "none" => told' = "none" /\ job'.plan.kind \notin Removals
  PROVE  Gone'
<1>1. job'.pc = "none" => ~(job'.pc \in Reversible \cup Unwound)
  BY DEF Reversible, Unwound
<1>2. job'.pc # "none" => job'.plan.kind \notin {"uninstall", "removeCli", "purge"}
  BY DEF Removals
<1> QED BY <1>1, <1>2 DEF GoneInv, Gone, Kinds, Parts, Quarantines, KnownTidy, Tidy, Stock,
        Pieces, Returnable, Idle, Staged, SettingUp, Elsewhere, Selecting, Removing, Cleaning,
        Purging, Finishing, PastMetadata, PastService, PastConfig, Unwound, Reversible,
        Committed, Removals

(* A step of the same removal.                                              *)
Advances(pc) ==
    /\ job'.pc = pc
    /\ job'.plan.kind = job.plan.kind /\ job.plan.stale \subseteq job'.plan.stale
    /\ job'.was = job.was /\ job'.before = job.before /\ job'.config = job.config

LEMMA GotoAdvances ==
  ASSUME job \in Jobs, NEW pc, Goto(pc)
  PROVE  Advances(pc) /\ job'.stopped = job.stopped /\ job'.tidy = job.tidy /\ job'.at = job.at
BY DEF Goto, Advances, Jobs

(* Reserves in their places and in quarantine stay as they are.             *)
Reserved == /\ here'.registry = here.registry /\ here'.backups = here.backups
            /\ away'.registry = away.registry /\ away'.backups = away.backups

(* A failing step hands over to the unwinding.                              *)
LEMMA AbortGone ==
  ASSUME GoneInv, KnownTidy', Abort, told' = told, Reserved,
         job.pc \in Removing \cup Selecting \cup {"check", "usage", "directory"},
         job.pc \in Reversible => config' = config /\ here'.runtime = here.runtime
  PROVE  Gone'
<1>1. job \in Jobs
  BY GoneTyped
<1> DEFINE pc == Handler
<1>2. Advances(pc) /\ job'.stopped = job.pc
  <2> HIDE DEF Handler
  <2> QED BY <1>1 DEF Abort, Advances, Jobs
<1>3. job.plan.kind \in Removals /\ ~Idle /\ told = "none"
  BY DEF GoneInv, Gone, Kinds, Selecting, Cleaning, Removing, Staged, Purging, Removals, Idle
<1>4. /\ pc \in Unwound /\ pc # "unstage"
      /\ pc = "failed" <=> job.plan.kind = "uninstall"
      /\ pc = "restoreBackups" => job.plan.kind = "purge" /\ job.pc \in
           {"recheck", "credentials", "config", "service", "metadata", "runtime"}
      /\ pc = "restoreRegistry" => job.plan.kind = "purge" /\ job.pc = "backups"
      /\ pc = "revalidate" /\ job.plan.kind = "purge" => job.pc \notin
           {"recheck", "credentials", "config", "service", "metadata", "runtime", "backups"}
  BY DEF Handler, Unwound
<1> HIDE DEF pc
<1>5. job'.pc = pc /\ job'.plan.kind = job.plan.kind /\ job'.was = job.was
      /\ job'.before = job.before /\ job'.config = job.config
  BY <1>2 DEF Advances
<1>6. Kinds' /\ Parts' /\ Quarantines' /\ Pieces'
  BY <1>3, <1>4, <1>5 DEF GoneInv, Gone, Kinds, Parts, Quarantines, KnownTidy, Tidy, Stock,
        Pieces, Returnable, Idle, Staged, SettingUp, Elsewhere, Selecting, Removing, Cleaning,
        Purging, Finishing, PastMetadata, PastService, PastConfig, Unwound, Reversible,
        Committed, Removals
<1>7. Stock'
  BY <1>3, <1>4, <1>5 DEF Reserved, GoneInv, Gone, Kinds, Parts, Quarantines, KnownTidy, Tidy,
        Stock, Pieces, Returnable, Idle, Staged, SettingUp, Elsewhere, Selecting, Removing,
        Cleaning, Purging, Finishing, PastMetadata, PastService, PastConfig, Unwound,
        Reversible, Committed, Removals
<1>8. Returnable'
  BY <1>2, <1>3, <1>4, <1>5 DEF Reserved, WasWhole, GoneInv, Gone, Kinds, Parts, Quarantines,
        KnownTidy, Tidy, Stock, Pieces, Returnable, Idle, Staged, SettingUp, Elsewhere,
        Selecting, Removing, Cleaning, Purging, Finishing, PastMetadata, PastService,
        PastConfig, Unwound, Reversible, Committed, Removals
<1> QED BY <1>6, <1>7, <1>8 DEF Gone

LEMMA TidyKept ==
  ASSUME GoneInv, Waits \/ plan'.kind # "purge",
         away'.metadata = away.metadata, away'.runtime = away.runtime
  PROVE  KnownTidy' /\ (Tidy => Tidy')
BY DEF GoneInv, Gone, Quarantines, KnownTidy, Tidy, Waits

LEMMA EndGone ==
  ASSUME GoneInv, Waits, away' = away, End
  PROVE  Gone'
BY EndTyped, TidyKept, OutsideGone DEF Elsewhere

-----------------------------------------------------------------------------
(* Preflights, setup, credential commands.                                  *)

LEMMA PlansGone ==
  ASSUME GoneInv, \/ PlanSetup
                  \/ \E kind \in Removals : PlanRemoval(kind)
                  \/ \E v \in {0} \cup Versions : Refuse(v)
  PROVE  Gone'
<1>1. UNCHANGED <<cliVars, homeVars, job, told>>
  BY DEF PlanSetup, PlanRemoval, Refuse
<1>2. KnownTidy'
  <2>1. ASSUME NEW kind \in Removals, PlanRemoval(kind)
        PROVE  KnownTidy'
    <3>1. {"metadata", "runtime"} \subseteq Stores \ {"usage"}
          /\ Nothing["metadata"] = FALSE /\ Nothing["runtime"] = 0
      BY DEF Stores, Nothing
    <3>2. InstallDirectoryClean => away["metadata"] = FALSE /\ away["runtime"] = 0
      BY <3>1 DEF InstallDirectoryClean
    <3>3. plan'.kind = kind
      BY <2>1 DEF PlanRemoval, NoPlan
    <3> QED BY <2>1, <3>2, <3>3 DEF PlanRemoval, homeVars, KnownTidy, Tidy
  <2>2. CASE PlanSetup
    BY <2>2 DEF PlanSetup, NoPlan, KnownTidy
  <2>3. ASSUME NEW v \in {0} \cup Versions, Refuse(v)
        PROVE  KnownTidy'
    BY <2>3 DEF Refuse, NoPlan, KnownTidy
  <2> QED BY <2>1, <2>2, <2>3
<1> QED BY <1>1, <1>2 DEF GoneInv, Gone, Kinds, Parts, Quarantines, Tidy, Stock, Pieces,
        Returnable, WasWhole, Idle, Purging, Fresh, cliVars, homeVars

LEMMA BeginGone ==
  ASSUME GoneInv, NEW v \in {0} \cup Versions, Begin(v)
  PROVE  Gone'
<1>1. NoJob \in Jobs /\ NoPlan.kind = "none" /\ plan \in Plans /\ away \in Contents
  BY ConstantsTyped, GoneTyped
<1>2. /\ job'.pc = (IF plan.kind = "setup" THEN "copy" ELSE "stage")
      /\ job'.plan = [plan EXCEPT !.version = v] /\ job'.before = here /\ job'.at = 0
      /\ job'.was = cli /\ job'.config = config
  BY <1>1 DEF Begin, Jobs, NoJob
<1>3. job'.plan.kind = plan.kind /\ job'.plan.stale = plan.stale
  BY <1>1, <1>2 DEF Plans
<1>4. /\ plan.kind \in {"setup", "removeCli", "purge"}
      /\ plan.kind = "purge" => ~away.usage
      /\ plan.kind # "setup" => Whole
  BY DEF Begin, Admitted
<1>5. plan'.kind = "none" /\ told' = "none" /\ UNCHANGED <<cli, here, away, config, service>>
  BY <1>1 DEF Begin, homeVars, cliVars
<1>6. KnownTidy'
  BY <1>5 DEF KnownTidy
<1>7. CASE plan.kind = "setup"
  BY <1>2, <1>3, <1>5, <1>6, <1>7, OutsideGone DEF SettingUp, Removals
<1>8. CASE plan.kind # "setup"
  BY <1>2, <1>3, <1>4, <1>5, <1>6, <1>8 DEF Whole, WasWhole, GoneInv, Gone, Kinds, Parts,
        Quarantines, KnownTidy, Tidy, Stock, Pieces, Returnable, Idle, Staged, SettingUp,
        Elsewhere, Selecting, Removing, Cleaning, Purging, Finishing, PastMetadata, PastService,
        PastConfig, Unwound, Reversible, Committed, Removals
<1> QED BY <1>7, <1>8

LEMMA SetupGone ==
  ASSUME GoneInv, Setup
  PROVE  Gone'
<1>1. away' = away /\ told' = told
  BY DEF Setup, CopyVersion, CommitCheck, WriteLauncher, WriteCurrent, WriteReceipt, Control,
     Package, Activate, UndoCurrent, UndoLauncher, UndoReceipt, Undo, UndoVersion, homeVars
<1>2. KnownTidy'
  <2>1. Waits
    <3>1. plan' = plan \/ \E layers : Touch(layers)
      BY DEF Setup, CopyVersion, CommitCheck, WriteLauncher, WriteCurrent, WriteReceipt, Control,
         Package, Activate, UndoCurrent, UndoLauncher, UndoReceipt, Undo, UndoVersion
    <3> QED BY <3>1, GoneTyped, TouchWaits DEF PlanWaits, Waits
  <2> QED BY <1>1, <2>1, TidyKept
<1>3. job.pc \in SettingUp /\ ~Idle
  BY DEF Setup, CopyVersion, CommitCheck, WriteLauncher, WriteCurrent, WriteReceipt, Control,
     Package, Activate, UndoCurrent, UndoLauncher, UndoReceipt, Undo, UndoVersion, At, SettingUp,
     Idle
<1>4. \/ End
      \/ job'.pc \in SettingUp /\ job'.plan.kind = job.plan.kind
  <2>1. job \in Jobs
    BY GoneTyped
  <2>2. \/ End
        \/ \E pc \in SettingUp : Goto(pc)
        \/ job' = [job EXCEPT !.pc = "commitCheck", !.created = TRUE]
    BY DEF Setup, CopyVersion, CommitCheck, WriteLauncher, WriteCurrent, WriteReceipt, Control,
       Package, Activate, UndoCurrent, UndoLauncher, UndoReceipt, Undo, UndoVersion, SettingUp
  <2>3. CASE job' = [job EXCEPT !.pc = "commitCheck", !.created = TRUE]
    BY <2>1, <2>3 DEF Jobs, SettingUp
  <2> QED BY <2>1, <2>2, <2>3, GotoAdvances DEF Advances
<1>5. told = "none" /\ job.plan.kind \notin Removals
  BY <1>3 DEF GoneInv, Gone, Kinds
<1> QED BY <1>1, <1>2, <1>4, <1>5, EndTyped, OutsideGone DEF Elsewhere

LEMMA CredentialGone ==
  ASSUME GoneInv, Credential
  PROVE  Gone'
<1>1. away' = away
  BY DEF Credential, StartCredential, Register, SetItem, DeleteItem, Unregister, homeVars
<1>2. Waits
  <2>1. plan' = plan \/ \E changed \in BOOLEAN : TouchIf(changed, {"home"})
    <3>1. ASSUME NEW ids, Listed(ids)
          PROVE  \E changed \in BOOLEAN : TouchIf(changed, {"home"})
      <4>1. (ids # here.registry) \in BOOLEAN /\ TouchIf(ids # here.registry, {"home"})
        BY <3>1 DEF Listed
      <4> HIDE DEF TouchIf
      <4> QED BY <4>1
    <3> QED BY <3>1 DEF Credential, StartCredential, Register, SetItem, DeleteItem, Unregister
  <2> QED BY <2>1, GoneTyped, TouchIfWaits DEF PlanWaits, Waits
<1>3. \/ End
      \/ job'.pc \in {"register", "delete", "set", "unregister"} /\ told' = "none"
         /\ job'.plan.kind \notin Removals
  <2>1. ASSUME NEW p \in Providers, NEW pc \in {"register", "delete"}, StartCredential(p, pc)
        PROVE  job'.pc = pc /\ told' = "none" /\ job'.plan.kind \notin Removals
    BY <2>1, ConstantsTyped DEF StartCredential, Jobs, Plans, Removals
  <2>2. CASE Register \/ SetItem \/ DeleteItem \/ Unregister
    <3>1. told = "none" /\ job.plan.kind \notin Removals
      BY <2>2 DEF Register, SetItem, DeleteItem, Unregister, At, Idle, GoneInv, Gone, Kinds
    <3>2. End \/ ((Goto("set") \/ Goto("unregister")) /\ told' = told)
      BY <2>2 DEF Register, SetItem, DeleteItem, Unregister
    <3> QED BY <3>1, <3>2, GoneTyped, GotoAdvances DEF Advances
  <2> QED BY <2>1, <2>2 DEF Credential
<1>4. KnownTidy'
  BY <1>1, <1>2, TidyKept
<1> QED BY <1>3, <1>4, EndTyped, OutsideGone DEF Elsewhere

-----------------------------------------------------------------------------
(* Removal up to the configuration.                                         *)

LEMMA StartUninstallGone ==
  ASSUME GoneInv, StartUninstall
  PROVE  Gone'
<1>1. /\ job'.pc = "config" /\ job'.plan.kind = "uninstall" /\ job'.before = here
      /\ job'.config = config /\ told' = "none"
      /\ UNCHANGED <<cli, here, away, config, service, plan>>
  BY ConstantsTyped DEF StartUninstall, Jobs, Plans, homeVars, cliVars
<1>2. KnownTidy'
  BY <1>1 DEF GoneInv, Gone, Quarantines, KnownTidy, Tidy
<1> QED BY <1>1, <1>2 DEF GoneInv, Gone, Kinds, Parts, Quarantines, KnownTidy, Tidy, Stock,
        Pieces, Returnable, Idle, Staged, SettingUp, Elsewhere, Selecting, Removing, Cleaning,
        Purging, Finishing, PastMetadata, PastService, PastConfig, Unwound, Reversible,
        Committed, Removals

LEMMA StageGone ==
  ASSUME GoneInv, Stage
  PROVE  Gone'
<1>1. /\ job.pc = "stage" /\ job \in Jobs /\ cli \in Distributions /\ job.at \in 0..3
      /\ Len(Order) = 4 /\ told' = told /\ job.plan.kind \in {"removeCli", "purge"}
      /\ UNCHANGED <<here, away, config, service, plan>>
  BY GoneTyped DEF Stage, At, GoneInv, ListedInv, Position, Jobs, Order, homeVars, Gone, Kinds,
     Staged
<1>2. KnownTidy' /\ (Tidy => Tidy')
  BY <1>1, TidyKept DEF Waits
<1>3. CASE job' = [job EXCEPT !.pc = "unstage", !.stopped = "stage"]
  <2>1. Advances("unstage") /\ job'.stopped = "stage"
    BY <1>1, <1>3 DEF Advances, Jobs
  <2> QED BY <1>1, <1>2, <2>1 DEF Advances, WasWhole, GoneInv, Gone, Kinds, Parts, Quarantines,
          KnownTidy, Tidy, Stock, Pieces, Returnable, Idle, Staged, SettingUp, Elsewhere,
          Selecting, Removing, Cleaning, Purging, Finishing, PastMetadata, PastService,
          PastConfig, Unwound, Reversible, Committed, Removals
<1>4. ASSUME MoveAside(Order[job.at + 1]), NEW pc,
             pc = (IF job.at + 1 = 4 THEN "check" ELSE "stage"),
             job' = [job EXCEPT !.at = @ + 1, !.pc = pc]
      PROVE  Gone'
  <2>1. Advances(pc) /\ job'.at = job.at + 1 /\ job'.plan = job.plan
    BY <1>1, <1>4 DEF Advances, Jobs
  <2>2. \A i \in 1..job.at : cli[Order[i]] = Empty[Order[i]]
    BY <1>1 DEF GoneInv, Gone, Pieces
  <2>3. /\ \A i \in 1..job'.at : cli'[Order[i]] = Empty[Order[i]]
        /\ job.at = 3 => Fresh'
    BY <1>1, <1>4, <2>1, <2>2, StageTakes
  <2>4. pc \in {"check", "stage"} /\ (pc = "check" => Fresh')
    BY <1>1, <1>4, <2>3
  <2>5. Pieces'
    BY <2>1, <2>3, <2>4 DEF Advances, Pieces, Selecting, Removing, Cleaning
  <2>6. Kinds' /\ Parts' /\ Quarantines' /\ Stock' /\ Returnable'
    BY <1>1, <1>2, <2>1, <2>4 DEF Advances, WasWhole, GoneInv, Gone, Kinds, Parts, Quarantines,
          KnownTidy, Tidy, Stock, Pieces, Returnable, Idle, Staged, SettingUp, Elsewhere,
          Selecting, Removing, Cleaning, Purging, Finishing, PastMetadata, PastService,
          PastConfig, Unwound, Reversible, Committed, Removals
  <2> QED BY <2>5, <2>6 DEF Gone
<1> QED BY <1>1, <1>3, <1>4 DEF Stage

LEMMA CheckGone ==
  ASSUME GoneInv, Check
  PROVE  Gone'
<1>1. /\ job \in Jobs /\ job.pc = "check" /\ told' = told
      /\ UNCHANGED <<cli, here, away, config, service, plan>>
  BY GoneTyped DEF Check, At, homeVars, cliVars
<1>2. KnownTidy' /\ (Tidy => Tidy')
  BY <1>1, TidyKept DEF Waits
<1>3. CASE Abort
  BY <1>1, <1>2, <1>3, AbortGone DEF Reserved
<1>4. CASE Unchanged /\ Goto(IF job.plan.kind = "purge" THEN "registry" ELSE "config")
  <2> DEFINE pc == IF job.plan.kind = "purge" THEN "registry" ELSE "config"
  <2>1. Advances(pc)
    BY <1>1, <1>4, GotoAdvances
  <2>2. Purging => job.plan.stale = {}
    BY <1>4 DEF Unchanged, Purging
  <2> QED BY <1>1, <1>2, <2>1, <2>2 DEF Advances, WasWhole, Fresh, GoneInv, Gone, Kinds, Parts,
          Quarantines, KnownTidy, Tidy, Stock, Pieces, Returnable, Idle, Staged, SettingUp,
          Elsewhere, Selecting, Removing, Cleaning, Purging, Finishing, PastMetadata,
          PastService, PastConfig, Unwound, Reversible, Committed, Removals
<1> QED BY <1>3, <1>4 DEF Check

(* What moving one store between its place and its quarantine leaves alone. *)
OnlyStore(x) ==
    /\ x # "metadata" => here'.metadata = here.metadata /\ away'.metadata = away.metadata
    /\ x # "runtime" => here'.runtime = here.runtime /\ away'.runtime = away.runtime
    /\ x # "backups" => here'.backups = here.backups /\ away'.backups = away.backups
    /\ x # "registry" => here'.registry = here.registry /\ away'.registry = away.registry
    /\ x # "usage" => here'.usage = here.usage /\ away'.usage = away.usage

LEMMA StoreMoves ==
  ASSUME here \in Contents, away \in Contents,
         NEW x \in {"metadata", "runtime", "backups", "registry", "usage"}
  PROVE  /\ Quarantined(x) => OnlyStore(x) /\ here'[x] = Nothing[x] /\ away'[x] = here[x]
         /\ Restored(x) => OnlyStore(x) /\ here'[x] = away[x] /\ away'[x] = Nothing[x]
         /\ here' = [here EXCEPT ![x] = Nothing[x]] /\ UNCHANGED away
              => OnlyStore(x) /\ here'[x] = Nothing[x]
         /\ away' = [away EXCEPT ![x] = Nothing[x]] /\ UNCHANGED here
              => OnlyStore(x) /\ away'[x] = Nothing[x]
         /\ UNCHANGED <<here, away>> => OnlyStore(x)
<1> HIDE DEF Nothing
<1> QED BY DEF Quarantined, Restored, OnlyStore, Contents

LEMMA QuarantineGone ==
  ASSUME GoneInv, QuarantineRegistry \/ QuarantineBackups
  PROVE  Gone'
<1>1. /\ job \in Jobs /\ told' = told /\ UNCHANGED <<cli, config, service>>
      /\ Nothing.registry = {} /\ Nothing.backups = FALSE
  BY GoneTyped DEF QuarantineRegistry, QuarantineBackups, Quarantine, cliVars, Nothing
<1>2. ASSUME NEW pc, NEW x \in {"registry", "backups"}, NEW next, Quarantine(pc, x, next)
      PROVE  /\ job.pc = pc /\ KnownTidy' /\ (Tidy => Tidy') /\ OnlyStore(x)
             /\ \/ Quarantined(x) /\ Advances(next)
                \/ Abort /\ UNCHANGED <<here, away>>
  <2>1. Quarantined(x) \/ UNCHANGED <<here, away>>
    BY <1>2 DEF Quarantine
  <2>2. OnlyStore(x)
    BY <2>1, GoneTyped, StoreMoves
  <2>3. Waits
    BY <1>2, GoneTyped, StoresTyped, TouchIfWaits DEF Quarantine, PlanWaits, Waits, GoneInv
  <2>4. KnownTidy' /\ (Tidy => Tidy')
    BY <2>2, <2>3, TidyKept DEF OnlyStore
  <2>5. Goto(next) => Advances(next)
    BY <1>1, GotoAdvances
  <2> QED BY <1>2, <2>2, <2>4, <2>5 DEF Quarantine, At
<1>3. CASE QuarantineRegistry
  <2>1. /\ job.pc = "registry" /\ KnownTidy' /\ (Tidy => Tidy') /\ OnlyStore("registry")
        /\ \/ Quarantined("registry") /\ Advances("backups")
           \/ Abort /\ UNCHANGED <<here, away>>
    BY <1>2, <1>3 DEF QuarantineRegistry
  <2>2. CASE Abort /\ UNCHANGED <<here, away>>
    BY <1>1, <2>1, <2>2, AbortGone DEF Reserved, Selecting
  <2>3. CASE Quarantined("registry") /\ Advances("backups")
    <3>1. here'.registry = {} /\ away'.registry = here.registry
      BY <1>1, <2>3, GoneTyped, StoreMoves
    <3> QED BY <1>1, <2>1, <2>3, <3>1 DEF Advances, OnlyStore, WasWhole, Fresh, GoneInv, Gone,
            Kinds, Parts, Quarantines, KnownTidy, Tidy, Stock, Pieces, Returnable, Idle, Staged,
            SettingUp, Elsewhere, Selecting, Removing, Cleaning, Purging, Finishing,
            PastMetadata, PastService, PastConfig, Unwound, Reversible, Committed, Removals
  <2> QED BY <2>1, <2>2, <2>3
<1>4. CASE QuarantineBackups
  <2>1. /\ job.pc = "backups" /\ KnownTidy' /\ (Tidy => Tidy') /\ OnlyStore("backups")
        /\ \/ Quarantined("backups") /\ Advances("recheck")
           \/ Abort /\ UNCHANGED <<here, away>>
    BY <1>2, <1>4 DEF QuarantineBackups
  <2>2. CASE Abort /\ UNCHANGED <<here, away>>
    BY <1>1, <2>1, <2>2, AbortGone DEF Reserved, Selecting
  <2>3. CASE Quarantined("backups") /\ Advances("recheck")
    <3>1. here'.backups = FALSE /\ away'.backups = here.backups
      BY <1>1, <2>3, GoneTyped, StoreMoves
    <3> QED BY <1>1, <2>1, <2>3, <3>1 DEF Advances, OnlyStore, WasWhole, Fresh, GoneInv, Gone,
            Kinds, Parts, Quarantines, KnownTidy, Tidy, Stock, Pieces, Returnable, Idle, Staged,
            SettingUp, Elsewhere, Selecting, Removing, Cleaning, Purging, Finishing,
            PastMetadata, PastService, PastConfig, Unwound, Reversible, Committed, Removals
  <2> QED BY <2>1, <2>2, <2>3
<1> QED BY <1>3, <1>4

(* A step of a removal to the next place that changes none of the stores.   *)
LEMMA NextSelected ==
  ASSUME GoneInv, NEW pc, Advances(pc), told' = told, KnownTidy',
         UNCHANGED <<cli, here, away, config, service>>,
         <<job.pc, pc>> \in {<<"recheck", "credentials">>, <<"credentials", "credentials">>,
                             <<"credentials", "config">>}
  PROVE  Gone'
BY DEF Advances, WasWhole, Fresh, GoneInv, Gone, Kinds, Parts, Quarantines, KnownTidy, Tidy,
      Stock, Pieces, Returnable, Idle, Staged, SettingUp, Elsewhere, Selecting, Removing,
      Cleaning, Purging, Finishing, PastMetadata, PastService, PastConfig, Unwound, Reversible,
      Committed, Removals

LEMMA CredentialsGone ==
  ASSUME GoneInv,
         \/ Recheck
         \/ \E p \in Providers : DeleteCredential(p)
         \/ CredentialsDeleted
  PROVE  Gone'
<1>1. /\ job \in Jobs /\ told' = told /\ job.pc \in {"recheck", "credentials"}
      /\ UNCHANGED <<cli, here, away, config, service, plan>>
  BY GoneTyped DEF Recheck, DeleteCredential, CredentialsDeleted, At, homeVars, cliVars
<1>2. KnownTidy'
  BY <1>1, TidyKept DEF Waits
<1>3. CASE Abort
  BY <1>1, <1>2, <1>3, AbortGone DEF Reserved, Selecting
<1>4. CASE ~Abort
  <2>1. ASSUME NEW p, job' = [job EXCEPT !.left = @ \ {p}], job.pc = "credentials"
        PROVE  Advances("credentials")
    BY <1>1, <2>1 DEF Advances, Jobs
  <2>2. \/ job.pc = "recheck" /\ Advances("credentials")
        \/ job.pc = "credentials" /\ Advances("credentials")
        \/ job.pc = "credentials" /\ Advances("config")
    BY <1>1, <1>4, <2>1, GotoAdvances DEF Recheck, DeleteCredential, CredentialsDeleted, At
  <2> QED BY <1>1, <1>2, <2>2, NextSelected
<1> QED BY <1>3, <1>4

-----------------------------------------------------------------------------
(* Removal past the Keychain.                                               *)

LEMMA RemoveConfigGone ==
  ASSUME GoneInv, RemoveConfig
  PROVE  Gone'
<1>1. /\ job \in Jobs /\ told' = told /\ job.pc = "config"
      /\ UNCHANGED <<cli, here, away, service>>
  BY GoneTyped DEF RemoveConfig, At, cliVars
<1>2. KnownTidy' /\ (Tidy => Tidy')
  <2>1. TouchIf(config, {"home"})
    BY DEF RemoveConfig
  <2>2. Waits
    BY <2>1, GoneTyped, TouchIfWaits DEF PlanWaits, Waits
  <2> QED BY <1>1, <2>2, TidyKept
<1>3. CASE Abort /\ UNCHANGED config
  BY <1>1, <1>2, <1>3, AbortGone DEF Reserved, Removing
<1>4. CASE DirectoryAsExpected /\ config' = FALSE /\ Goto("service")
  <2>1. Advances("service")
    BY <1>1, <1>4, GotoAdvances
  <2>2. Tidy
    <3>1. {"metadata", "runtime"} \subseteq Stores \ {"usage"}
          /\ Nothing["metadata"] = FALSE /\ Nothing["runtime"] = 0
      BY DEF Stores, Nothing
    <3>2. InstallDirectoryClean => away["metadata"] = FALSE /\ away["runtime"] = 0
      BY <3>1 DEF InstallDirectoryClean
    <3>3. CASE job.plan.kind # "purge"
      BY <1>4, <3>2, <3>3 DEF DirectoryAsExpected, Tidy
    <3>4. CASE job.plan.kind = "purge"
      BY <1>1, <3>4 DEF GoneInv, Gone, Quarantines, Purging
    <3> QED BY <3>3, <3>4
  <2> QED BY <1>1, <1>2, <1>4, <2>1, <2>2 DEF Advances, WasWhole, Fresh, GoneInv, Gone, Kinds,
          Parts, Quarantines, KnownTidy, Tidy, Stock, Pieces, Returnable, Idle, Staged,
          SettingUp, Elsewhere, Selecting, Removing, Cleaning, Purging, Finishing, PastMetadata,
          PastService, PastConfig, Unwound, Reversible, Committed, Removals
<1> QED BY <1>3, <1>4 DEF RemoveConfig

LEMMA StopServiceGone ==
  ASSUME GoneInv, StopService
  PROVE  Gone'
<1>1. /\ job \in Jobs /\ job.plan \in Plans /\ told' = told /\ job.pc = "service"
      /\ UNCHANGED <<cli, away, config>>
  BY GoneTyped DEF StopService, At, cliVars
<1>2. CASE Abort /\ UNCHANGED <<here, service, plan>>
  <2>1. KnownTidy'
    BY <1>1, <1>2, TidyKept DEF Waits
  <2> QED BY <1>1, <1>2, <2>1, AbortGone DEF Reserved, Removing, Reversible
<1>3. ASSUME NEW layers, Flushed(layers), service' = FALSE,
             job' = [job EXCEPT !.pc = "metadata", !.plan = Outdated(@, layers)]
      PROVE  Gone'
  <2>1. /\ here'.registry = here.registry /\ here'.backups = here.backups
        /\ here'.runtime = here.runtime
    BY <1>3, GoneTyped DEF Flushed, Contents
  <2>2. KnownTidy' /\ (Tidy => Tidy')
    <3>1. TouchIf(service, {"home"} \cup layers)
      BY <1>3 DEF Flushed
    <3>2. Waits
      BY <3>1, GoneTyped, TouchIfWaits DEF PlanWaits, Waits
    <3> QED BY <1>1, <3>2, TidyKept
  <2>3. Advances("metadata")
    BY <1>1, <1>3, OutdatedTyped DEF Advances, Jobs
  <2> QED BY <1>1, <1>3, <2>1, <2>2, <2>3 DEF Advances, WasWhole, Fresh, GoneInv, Gone, Kinds,
          Parts, Quarantines, KnownTidy, Tidy, Stock, Pieces, Returnable, Idle, Staged,
          SettingUp, Elsewhere, Selecting, Removing, Cleaning, Purging, Finishing, PastMetadata,
          PastService, PastConfig, Unwound, Reversible, Committed, Removals
<1> QED BY <1>2, <1>3 DEF StopService

(* A store is removed, or the step fails and may leave it in its quarantine; *)
(* an inventory that knew no quarantine of it is then out of date.           *)
LEMMA RemoveStoreTidy ==
  ASSUME GoneInv, NEW pc, NEW x \in {"metadata", "runtime", "usage"},
         NEW intact \in BOOLEAN, NEW next, RemoveStore(pc, x, intact, next)
  PROVE  /\ KnownTidy' /\ OnlyStore(x) /\ job.pc = pc /\ told' = told
         /\ UNCHANGED <<cli, config, service>>
         /\ \/ intact /\ here'[x] = Nothing[x] /\ away' = away /\ Advances(next)
            \/ Abort
<1>1. /\ \/ Quarantined(x) /\ here[x] # Nothing[x]
         \/ UNCHANGED <<here, away>>
         \/ here' = [here EXCEPT ![x] = Nothing[x]] /\ UNCHANGED away
      /\ job.pc = pc /\ told' = told /\ UNCHANGED <<cli, config, service>>
  BY DEF RemoveStore, At, cliVars
<1>2. OnlyStore(x)
  BY <1>1, GoneTyped, StoreMoves
<1>3. TouchIf(here[x] # Nothing[x], {"home", x} \cap Layers) /\ "home" \in {"home", x} \cap Layers
  BY DEF RemoveStore, Layers
<1>4. (here[x] # Nothing[x]) \in BOOLEAN
  OBVIOUS
<1>5. /\ Waits
      /\ here[x] # Nothing[x] /\ plan.kind = "purge" => "home" \in plan'.stale
  BY <1>3, <1>4, GoneTyped, TouchIfWaits DEF PlanWaits, Waits
<1>6. KnownTidy'
  <2>1. CASE away' = away
    BY <1>5, <2>1, TidyKept
  <2>2. CASE here[x] # Nothing[x]
    BY <1>5, <2>2 DEF KnownTidy, Waits
  <2> QED BY <1>1, <2>1, <2>2
<1>7. \/ intact /\ here'[x] = Nothing[x] /\ away' = away /\ Advances(next)
      \/ Abort
  <2>1. Goto(next) => Advances(next)
    BY GoneTyped, GotoAdvances
  <2> QED BY <2>1, GoneTyped, StoreMoves DEF RemoveStore
<1> QED BY <1>1, <1>2, <1>6, <1>7

LEMMA RemoveMetadataGone ==
  ASSUME GoneInv, RemoveMetadata
  PROVE  Gone'
<1>1. /\ KnownTidy' /\ OnlyStore("metadata") /\ job.pc = "metadata" /\ told' = told
      /\ UNCHANGED <<cli, config, service>>
      /\ \/ here'.metadata = FALSE /\ away' = away /\ Advances("runtime")
         \/ Abort
  BY RemoveStoreTidy DEF RemoveMetadata, Nothing
<1>2. CASE Abort
  BY <1>1, <1>2, AbortGone DEF OnlyStore, Reserved, Removing, Reversible
<1>3. CASE here'.metadata = FALSE /\ away' = away /\ Advances("runtime")
  BY <1>1, <1>3 DEF OnlyStore, Advances, WasWhole, Fresh, GoneInv, Gone, Kinds, Parts,
        Quarantines, KnownTidy, Tidy, Stock, Pieces, Returnable, Idle, Staged, SettingUp,
        Elsewhere, Selecting, Removing, Cleaning, Purging, Finishing, PastMetadata, PastService,
        PastConfig, Unwound, Reversible, Committed, Removals
<1> QED BY <1>1, <1>2, <1>3

LEMMA RemoveRuntimeGone ==
  ASSUME GoneInv, RemoveRuntime
  PROVE  Gone'
<1> DEFINE next == CASE job.plan.kind = "purge" -> "cleanBackups"
                     [] job.plan.kind = "removeCli" -> "cleanCli"
                     [] OTHER -> "removed"
<1>1. /\ KnownTidy' /\ OnlyStore("runtime") /\ job.pc = "runtime" /\ told' = told
      /\ UNCHANGED <<cli, config, service>>
      /\ \/ here'.runtime = 0 /\ away' = away /\ Advances(next)
         \/ Abort
  <2>1. (~foreign) \in BOOLEAN /\ Nothing["runtime"] = 0
    BY DEF Nothing
  <2>2. RemoveStore("runtime", "runtime", ~foreign, next)
    BY DEF RemoveRuntime
  <2> HIDE DEF next
  <2> QED BY <2>1, <2>2, RemoveStoreTidy
<1>2. CASE Abort
  BY <1>1, <1>2, AbortGone DEF OnlyStore, Reserved, Removing, Reversible
<1>3. CASE here'.runtime = 0 /\ away' = away /\ Advances(next)
  <2>1. /\ next \in {"cleanBackups", "cleanCli", "removed"}
        /\ next = "cleanBackups" <=> job.plan.kind = "purge"
        /\ next = "removed" <=> job.plan.kind = "uninstall"
    BY <1>1 DEF GoneInv, Gone, Kinds, Removing, Removals
  <2> HIDE DEF next
  <2>2. job.plan.kind \in Removals
    BY <1>1 DEF GoneInv, Gone, Kinds, Removing
  <2> QED BY <1>1, <1>3, <2>1, <2>2 DEF OnlyStore, Advances, WasWhole, Fresh, GoneInv, Gone,
          Kinds, Parts, Quarantines, KnownTidy, Tidy, Stock, Pieces, Returnable, Idle, Staged,
          SettingUp, Elsewhere, Selecting, Removing, Cleaning, Purging, Finishing, PastMetadata,
          PastService, PastConfig, Unwound, Reversible, Committed, Removals
<1> QED BY <1>1, <1>2, <1>3

LEMMA CleanGone ==
  ASSUME GoneInv, CleanBackups \/ CleanRegistry
  PROVE  Gone'
<1>1. ASSUME NEW pc, NEW x \in {"backups", "registry"}, NEW next, Clean(pc, x, next)
      PROVE  /\ job.pc = pc /\ Advances(next) /\ KnownTidy' /\ (Tidy => Tidy')
             /\ away'.usage = away.usage
             /\ told' = told /\ UNCHANGED <<cli, here, config, service>>
  <2>1. OnlyStore(x) /\ plan' = plan
    BY <1>1, GoneTyped, StoreMoves DEF Clean
  <2>2. KnownTidy' /\ (Tidy => Tidy')
    BY <2>1, TidyKept DEF OnlyStore, Waits
  <2> QED BY <1>1, <2>1, <2>2, GoneTyped, GotoAdvances DEF Clean, At, cliVars, OnlyStore
<1>2. /\ \/ job.pc = "cleanBackups" /\ Advances("cleanRegistry")
         \/ job.pc = "cleanRegistry" /\ Advances("usage")
      /\ KnownTidy' /\ (Tidy => Tidy') /\ away'.usage = away.usage
      /\ told' = told /\ UNCHANGED <<cli, here, config, service>>
  BY <1>1 DEF CleanBackups, CleanRegistry
<1> QED BY <1>2 DEF Advances, WasWhole, Fresh, GoneInv, Gone, Kinds, Parts, Quarantines,
        KnownTidy, Tidy, Stock, Pieces, Returnable, Idle, Staged, SettingUp, Elsewhere,
        Selecting, Removing, Cleaning, Purging, Finishing, PastMetadata, PastService,
        PastConfig, Unwound, Reversible, Committed, Removals

LEMMA RemoveUsageGone ==
  ASSUME GoneInv, RemoveUsage
  PROVE  Gone'
<1> DEFINE intact == /\ away.backups = Nothing.backups /\ away.registry = Nothing.registry
                     /\ "usage" \notin job.plan.stale
<1>1. /\ KnownTidy' /\ OnlyStore("usage") /\ job.pc = "usage" /\ told' = told
      /\ UNCHANGED <<cli, config, service>>
      /\ \/ intact /\ here'.usage = FALSE /\ away' = away /\ Advances("directory")
         \/ Abort
  <2>1. intact \in BOOLEAN /\ Nothing["usage"] = FALSE
    BY DEF Nothing
  <2>2. RemoveStore("usage", "usage", intact, "directory")
    BY DEF RemoveUsage
  <2> HIDE DEF intact
  <2> QED BY <2>1, <2>2, RemoveStoreTidy
<1>2. CASE Abort
  BY <1>1, <1>2, AbortGone DEF OnlyStore, Reserved, Reversible
<1>3. CASE intact /\ here'.usage = FALSE /\ away' = away /\ Advances("directory")
  <2>1. away.backups = FALSE /\ away.registry = {}
    BY <1>3 DEF Nothing
  <2> HIDE DEF intact
  <2> QED BY <1>1, <1>3, <2>1 DEF OnlyStore, Advances, WasWhole, Fresh, GoneInv, Gone, Kinds,
          Parts, Quarantines, KnownTidy, Tidy, Stock, Pieces, Returnable, Idle, Staged,
          SettingUp, Elsewhere, Selecting, Removing, Cleaning, Purging, Finishing, PastMetadata,
          PastService, PastConfig, Unwound, Reversible, Committed, Removals
<1> QED BY <1>1, <1>2, <1>3

LEMMA RemoveDirectoryGone ==
  ASSUME GoneInv, RemoveDirectory
  PROVE  Gone'
<1>1. /\ job \in Jobs /\ told' = told /\ job.pc = "directory" /\ Purging
      /\ UNCHANGED <<cli, here, away, config, service, keychain, plan>>
  BY GoneTyped DEF RemoveDirectory, At, cliVars, homeVars, GoneInv, Gone, Kinds, Cleaning
<1>2. KnownTidy' /\ (Tidy => Tidy')
  BY <1>1, TidyKept DEF Waits
<1>3. CASE Abort
  BY <1>1, <1>2, <1>3, AbortGone DEF Reserved, Reversible
<1>4. CASE Goto("cleanCli")
  <2>1. Advances("cleanCli")
    BY <1>1, <1>4, GotoAdvances
  <2>2. here.registry = {} /\ keychain = {}
    BY <1>1 DEF GoneInv, ListedInv, Listing, PurgeSteps, Cleaning
  <2> QED BY <1>1, <1>2, <2>1, <2>2 DEF Advances, WasWhole, Fresh, GoneInv, Gone, Kinds, Parts,
          Quarantines, KnownTidy, Tidy, Stock, Pieces, Returnable, Idle, Staged, SettingUp,
          Elsewhere, Selecting, Removing, Cleaning, Purging, Finishing, PastMetadata,
          PastService, PastConfig, Unwound, Reversible, Committed, Removals
<1> QED BY <1>3, <1>4 DEF RemoveDirectory

LEMMA RemovalGone == GoneInv /\ Removal => Gone'
<1>1. GoneInv /\ (CleanCli \/ Uninstalled) => Gone'
  BY EndGone DEF CleanCli, Uninstalled, homeVars, Waits
<1> QED BY <1>1, StartUninstallGone, StageGone, CheckGone, QuarantineGone, CredentialsGone,
        RemoveConfigGone, StopServiceGone, RemoveMetadataGone, RemoveRuntimeGone, CleanGone,
        RemoveUsageGone, RemoveDirectoryGone DEF Removal

-----------------------------------------------------------------------------
(* A failed removal is undone, and everybody else.                          *)

LEMMA RestoreGone ==
  ASSUME GoneInv, RestoreBackups \/ RestoreRegistry
  PROVE  Gone'
<1>1. ASSUME NEW pc, NEW x \in {"backups", "registry"}, NEW next, Restore(pc, x, next)
      PROVE  /\ job.pc = pc /\ KnownTidy' /\ OnlyStore(x) /\ Advances(next)
             /\ job'.stopped = job.stopped
             /\ told' = told /\ UNCHANGED <<cli, config, service>>
             /\ \/ here'[x] = away[x] /\ job'.tidy = job.tidy
                \/ job'.tidy = FALSE
  <2>1. Restored(x) \/ UNCHANGED <<here, away>>
    BY <1>1 DEF Restore
  <2>2. OnlyStore(x)
    BY <2>1, GoneTyped, StoreMoves
  <2>3. Waits
    BY <1>1, GoneTyped, StoresTyped, TouchIfWaits DEF Restore, PlanWaits, Waits, GoneInv
  <2>4. KnownTidy'
    BY <2>2, <2>3, TidyKept DEF OnlyStore
  <2>5. job' = [job EXCEPT !.pc = next, !.tidy = FALSE]
          => Advances(next) /\ job'.stopped = job.stopped /\ job'.tidy = FALSE
    BY GoneTyped DEF Advances, Jobs
  <2>6. Restored(x) => here'[x] = away[x]
    BY GoneTyped, StoreMoves
  <2> QED BY <1>1, <2>2, <2>4, <2>5, <2>6, GoneTyped, GotoAdvances DEF Restore, At, cliVars
<1>2. CASE RestoreBackups
  <2>1. /\ job.pc = "restoreBackups" /\ KnownTidy' /\ OnlyStore("backups")
        /\ Advances("restoreRegistry") /\ job'.stopped = job.stopped
        /\ told' = told /\ UNCHANGED <<cli, config, service>>
        /\ \/ here'.backups = away.backups
           \/ job'.tidy = FALSE
    BY <1>1, <1>2 DEF RestoreBackups
  <2> QED BY <2>1 DEF OnlyStore, Advances, WasWhole, GoneInv, Gone, Kinds, Parts, Quarantines,
          KnownTidy, Tidy, Stock, Pieces, Returnable, Idle, Staged, SettingUp, Elsewhere,
          Selecting, Removing, Cleaning, Purging, Finishing, PastMetadata, PastService,
          PastConfig, Unwound, Reversible, Committed, Removals
<1>3. CASE RestoreRegistry
  <2>1. /\ job.pc = "restoreRegistry" /\ KnownTidy' /\ OnlyStore("registry")
        /\ Advances("revalidate") /\ job'.stopped = job.stopped
        /\ told' = told /\ UNCHANGED <<cli, config, service>>
        /\ \/ here'.registry = away.registry /\ job'.tidy = job.tidy
           \/ job'.tidy = FALSE
    BY <1>1, <1>3 DEF RestoreRegistry
  <2> QED BY <2>1 DEF OnlyStore, Advances, WasWhole, GoneInv, Gone, Kinds, Parts, Quarantines,
          KnownTidy, Tidy, Stock, Pieces, Returnable, Idle, Staged, SettingUp, Elsewhere,
          Selecting, Removing, Cleaning, Purging, Finishing, PastMetadata, PastService,
          PastConfig, Unwound, Reversible, Committed, Removals
<1> QED BY <1>2, <1>3

LEMMA UnstageGone ==
  ASSUME GoneInv, Revalidate \/ Unstage \/ Unstaged
  PROVE  Gone'
<1>1. UNCHANGED <<here, away, config, service, plan>> /\ Waits
  BY DEF Revalidate, Unstage, Unstaged, homeVars, Waits
<1>2. KnownTidy'
  BY <1>1, TidyKept
<1>3. CASE End
  BY <1>1, <1>3, EndGone
<1>4. CASE ~End
  <2>1. job' = [job EXCEPT !.at = @ - 1] => Advances(job.pc) /\ job'.tidy = job.tidy
                                            /\ job'.stopped = job.stopped
    BY GoneTyped DEF Advances, Jobs
  <2>2. job' = [job EXCEPT !.at = @ - 1, !.tidy = FALSE]
          => Advances(job.pc) /\ job'.tidy = FALSE /\ job'.stopped = job.stopped
    BY GoneTyped DEF Advances, Jobs
  <2>3. /\ job.pc \in {"revalidate", "unstage"} /\ Advances("unstage") /\ told' = told
        /\ job'.stopped = job.stopped /\ (job'.tidy = job.tidy \/ job'.tidy = FALSE)
    BY <1>4, <2>1, <2>2, GoneTyped, GotoAdvances DEF Revalidate, Unstage, Unstaged, At
  <2> QED BY <1>1, <1>2, <2>3 DEF Advances, WasWhole, GoneInv, Gone, Kinds, Parts, Quarantines,
          KnownTidy, Tidy, Stock, Pieces, Returnable, Idle, Staged, SettingUp, Elsewhere,
          Selecting, Removing, Cleaning, Purging, Finishing, PastMetadata, PastService,
          PastConfig, Unwound, Reversible, Committed, Removals
<1> QED BY <1>3, <1>4

LEMMA EnvironmentGone ==
  ASSUME GoneInv, Environment
  PROVE  Gone'
<1>1. CASE Resolve
  <2>1. away'.metadata = FALSE /\ away'.runtime = 0 /\ job' = job /\ job.pc = "none"
    BY <1>1 DEF Resolve, Nothing, Idle
  <2> QED BY <2>1, OutsideGone DEF KnownTidy, Tidy, Elsewhere
<1>2. CASE Crash
  BY <1>2, EndGone DEF Crash, homeVars, Waits
<1>3. ASSUME NEW layers, plan' = Outdated(plan, layers),
             job' = [job EXCEPT !.plan = Outdated(@, layers)],
             UNCHANGED <<cli, away, config, service, keychain, told>>,
             here'.registry = here.registry, here'.backups = here.backups,
             here'.runtime = here.runtime,
             service \/ (here'.metadata = here.metadata /\ here'.usage = here.usage)
      PROVE  Gone'
  <2>1. Waits
    BY <1>3, GoneTyped, OutdatedTyped DEF Waits
  <2>2. KnownTidy' /\ (Tidy => Tidy')
    BY <1>3, <2>1, TidyKept
  <2>3. Advances(job.pc) /\ job'.stopped = job.stopped /\ job'.tidy = job.tidy /\ job'.at = job.at
    BY <1>3, GoneTyped, OutdatedTyped DEF Advances, Jobs
  <2>4. /\ job'.pc = job.pc /\ job'.plan.kind = job.plan.kind
        /\ job.plan.stale \subseteq job'.plan.stale
        /\ job'.was = job.was /\ job'.before = job.before /\ job'.config = job.config
    BY <2>3 DEF Advances
  <2>5. job.pc \in PastService => here'.metadata = here.metadata /\ here'.usage = here.usage
    BY <1>3 DEF GoneInv, Gone, Parts
  <2>6. Kinds' /\ Pieces'
    BY <1>3, <2>3, <2>4 DEF GoneInv, Gone, Kinds, Pieces, Idle, Purging, Fresh
  <2>7. Parts'
    BY <1>3, <2>4, <2>5 DEF GoneInv, Gone, Parts, PastConfig, PastService, PastMetadata
  <2>8. Quarantines'
    BY <1>3, <2>2, <2>4 DEF GoneInv, Gone, Quarantines, Purging
  <2>9. Stock'
    BY <1>3, <2>4, <2>5 DEF GoneInv, Gone, Stock, Purging, Idle, PastService, PastMetadata,
       Finishing, Cleaning
  <2>10. Returnable'
    BY <1>3, <2>3, <2>4 DEF GoneInv, Gone, Returnable, Purging, Idle, WasWhole
  <2> QED BY <2>6, <2>7, <2>8, <2>9, <2>10 DEF Gone
<1>4. ASSUME NEW x \in {"metadata", "usage"}, BridgeWrites(x)
      PROVE  Gone'
  <2>1. here'.registry = here.registry /\ here'.backups = here.backups
        /\ here'.runtime = here.runtime
    BY <1>4, GoneTyped DEF BridgeWrites, Contents
  <2> QED BY <1>3, <1>4, <2>1 DEF BridgeWrites, cliVars
<1>5. CASE UserFile
  BY <1>3, <1>5 DEF UserFile, cliVars
<1> QED BY <1>1, <1>2, <1>4, <1>5 DEF Environment

LEMMA NextGone == GoneInv /\ [Next]_vars => Gone'
<1>1. GoneInv /\ Next => Gone'
  BY PlansGone, BeginGone, SetupGone, CredentialGone, RemovalGone, RestoreGone, UnstageGone,
     EnvironmentGone DEF Next, Unwinding
<1>2. GoneInv /\ UNCHANGED vars => Gone'
  BY DEF vars, cliVars, homeVars, WasWhole, Fresh, GoneInv, Gone, Kinds, Parts, Quarantines,
        KnownTidy, Tidy, Stock, Pieces, Returnable, Idle, Purging
<1> QED BY <1>1, <1>2

\* The invariant holds whatever commands run, fail or die.
THEOREM GoneInvariant == Spec => []GoneInv
<1>1. Init => Gone
  BY GoneStarts
<1>2. ListedInv /\ Gone /\ [Next]_vars => Gone'
  BY NextGone DEF GoneInv
<1> QED BY <1>1, <1>2, RemovalInvariant, PTL DEF Spec, GoneInv

(* Only four steps report.                                                  *)
LEMMA Reports ==
  ASSUME GoneInv, [Next]_vars, ~Idle, told' # "none"
  PROVE  CleanCli \/ Uninstalled \/ Revalidate \/ Unstaged
<1>1. told = "none"
  BY DEF GoneInv, Gone, Kinds
<1>2. told' # told
  BY <1>1
<1>3. CASE Setup
  BY <1>2, <1>3 DEF Setup, CopyVersion, CommitCheck, WriteLauncher, WriteCurrent, WriteReceipt,
     Control, Package, Activate, UndoCurrent, UndoLauncher, UndoReceipt, Undo, UndoVersion
<1>4. CASE Credential
  BY <1>2, <1>4 DEF Credential, StartCredential, Register, SetItem, DeleteItem, Unregister
<1>5. CASE Removal
  BY <1>2, <1>5 DEF Removal, StartUninstall, Stage, Check, QuarantineRegistry, QuarantineBackups,
     Quarantine, Recheck, DeleteCredential, CredentialsDeleted, RemoveConfig, StopService,
     RemoveMetadata, RemoveRuntime, RemoveStore, CleanBackups, CleanRegistry, Clean, RemoveUsage,
     RemoveDirectory
<1>6. CASE Unwinding
  BY <1>2, <1>6 DEF Unwinding, RestoreBackups, RestoreRegistry, Restore, Unstage
<1>7. CASE Environment
  BY <1>2, <1>7 DEF Environment, BridgeWrites, UserFile, Resolve, Crash
<1> QED BY <1>2, <1>3, <1>4, <1>5, <1>6, <1>7 DEF Next, PlanSetup, PlanRemoval, Begin, Refuse, vars

LEMMA SameContents ==
  ASSUME NEW c \in Contents, ~c.metadata, c.runtime = 0, ~c.backups, c.registry = {}, ~c.usage
  PROVE  c = Nothing
BY DEF Contents, Nothing

\* An uninstall that reports success has removed what its mode promises,
\* whatever the bridge wrote, the user put into the directory or earlier
\* removals left in quarantine while it ran: the full purge every store, every
\* Keychain item and the tool, the other modes all but registry and backups
\* (purgePickerMux, removeManagedDistribution, uninstallIntegration).
THEOREM RemovedAlwaysGone == Spec => RemovedMeansGone
<1>1. ASSUME GoneInv, [Next]_vars, EndedAs({"removed", "pending"})
      PROVE  /\ ~config' /\ ~service'
             /\ here'.runtime = 0 /\ ~here'.metadata
             /\ away'.runtime = 0 /\ ~away'.metadata
             /\ IF job.plan.kind = "purge"
                THEN here' = Nothing /\ away' = Nothing /\ keychain' = {} /\ Fresh'
                ELSE /\ here'.registry = job.before.registry
                     /\ here'.backups = job.before.backups
  <2>1. CleanCli \/ (Uninstalled /\ job.pc = "removed")
    BY <1>1, Reports DEF EndedAs, Uninstalled, Revalidate, Unstaged, GoneInv, Gone, Kinds
  <2>2. UNCHANGED <<cli, here, away, config, service, keychain>>
        /\ job.pc \in {"cleanCli", "removed"} /\ job.plan.kind \in Removals /\ ~Idle
    BY <1>1, <2>1 DEF CleanCli, Uninstalled, Forget, At, homeVars, cliVars, EndedAs
  <2>3. /\ ~config /\ ~service /\ here.runtime = 0 /\ ~here.metadata
        /\ away.runtime = 0 /\ ~away.metadata
    BY <1>1, <2>2 DEF GoneInv, Gone, Parts, Quarantines, Tidy, Finishing, PastMetadata,
       PastService, PastConfig
  <2>4. CASE job.plan.kind = "purge"
    <3>1. job.pc = "cleanCli" /\ Purging
      BY <1>1, <2>2, <2>4 DEF GoneInv, Gone, Kinds, Purging
    <3>2. /\ ~here.backups /\ ~here.usage /\ here.registry = {} /\ keychain = {}
          /\ ~away.backups /\ away.registry = {} /\ ~away.usage /\ Fresh
      BY <1>1, <3>1 DEF GoneInv, Gone, Stock, Quarantines, Pieces
    <3>3. here = Nothing /\ away = Nothing
      BY <1>1, <2>3, <3>2, GoneTyped, SameContents
    <3> QED BY <2>2, <2>3, <2>4, <3>2, <3>3 DEF Fresh, Nothing
  <2>5. CASE job.plan.kind # "purge"
    BY <1>1, <2>2, <2>3, <2>5 DEF GoneInv, Gone, Stock, Removals
  <2> QED BY <2>4, <2>5
<1>2. GoneInv /\ [Next]_vars =>
        [EndedAs({"removed", "pending"}) =>
           /\ ~config' /\ ~service'
           /\ here'.runtime = 0 /\ ~here'.metadata
           /\ away'.runtime = 0 /\ ~away'.metadata
           /\ IF job.plan.kind = "purge"
              THEN here' = Nothing /\ away' = Nothing /\ keychain' = {} /\ Fresh'
              ELSE /\ here'.registry = job.before.registry
                   /\ here'.backups = job.before.backups]_vars
  BY <1>1
<1> QED BY <1>2, GoneInvariant, PTL DEF Spec, RemovedMeansGone

\* An uninstall that fails, and whose undoing met no failure, leaves what the
\* next attempt needs, at whatever step it failed: the receipt-owned tool, the
\* registry and the backups unless their quarantines were being deleted, and
\* the whole integration when it stopped at the Keychain or before (the
\* handlers of purgePickerMux and removeManagedDistribution).
THEOREM AlwaysRetained == Spec => RetainedForRecovery
<1>1. ASSUME GoneInv, [Next]_vars, EndedAs({"failed"}), job.tidy
      PROVE  /\ job.plan.kind # "uninstall" => Whole'
             /\ job.stopped \notin Committed =>
                  here'.registry = job.before.registry /\ here'.backups = job.before.backups
             /\ job.stopped \in Reversible =>
                  config' = job.config /\ here'.runtime = job.before.runtime
  <2>1. \/ Unstaged /\ cli = job.was
        \/ Uninstalled /\ job.pc = "failed"
    BY <1>1, Reports DEF EndedAs, CleanCli, Uninstalled, Revalidate, Unstaged, GoneInv, Gone, Kinds
  <2>2. /\ UNCHANGED <<cli, here, config>> /\ job.pc \in {"unstage", "failed"}
        /\ job.plan.kind \in Removals /\ ~Idle
    BY <1>1, <2>1 DEF Unstaged, Uninstalled, Forget, At, homeVars, cliVars, EndedAs
  <2>3. job.plan.kind # "uninstall" => Whole'
    <3>1. job.plan.kind # "uninstall" => job.pc = "unstage" /\ WasWhole
      BY <1>1, <2>2 DEF GoneInv, Gone, Kinds, Returnable, Removals
    <3>2. job.pc = "unstage" => cli' = job.was
      BY <2>1, <2>2
    <3> QED BY <3>1, <3>2 DEF WasWhole, Whole
  <2>4. job.stopped \notin Committed =>
          here'.registry = job.before.registry /\ here'.backups = job.before.backups
    <3>1. CASE Purging
      <4>1. job.pc = "unstage"
        BY <1>1, <2>2, <3>1 DEF GoneInv, Gone, Kinds, Purging
      <4> QED BY <1>1, <2>2, <3>1, <4>1 DEF GoneInv, Gone, Returnable
    <3>2. CASE ~Purging
      BY <1>1, <2>2, <3>2 DEF GoneInv, Gone, Stock, Removals, Purging
    <3> QED BY <3>1, <3>2
  <2>5. job.stopped \in Reversible => config' = job.config /\ here'.runtime = job.before.runtime
    BY <1>1, <2>2 DEF GoneInv, Gone, Returnable, Unwound
  <2> QED BY <2>3, <2>4, <2>5
<1>2. GoneInv /\ [Next]_vars =>
        [EndedAs({"failed"}) /\ job.tidy =>
           /\ job.plan.kind # "uninstall" => Whole'
           /\ job.stopped \notin Committed =>
                here'.registry = job.before.registry /\ here'.backups = job.before.backups
           /\ job.stopped \in Reversible =>
                config' = job.config /\ here'.runtime = job.before.runtime]_vars
  BY <1>1
<1> QED BY <1>2, GoneInvariant, PTL DEF Spec, RetainedForRecovery
=============================================================================
