------------------------- MODULE FullRemovalProofs -------------------------
(***************************************************************************)
(* Proofs about FullRemoval for any number of versions, providers and      *)
(* faults.                                                                 *)
(***************************************************************************)
EXTENDS FullRemoval, TLAPS

-----------------------------------------------------------------------------
(* Types.                                                                  *)

LEMMA ConstantsTyped ==
  /\ NoPlan \in Plans /\ NoJob \in Jobs
  /\ Nothing \in Contents /\ Empty \in Distributions
  /\ NoJob.pc = "none" /\ NoPlan.kind = "none"
<1>1. NoReceipt \in Receipts
  BY DEF NoReceipt, Receipts
<1>2. NoPlan \in Plans
  BY <1>1 DEF NoPlan, Plans
<1>3. Nothing \in Contents
  BY DEF Nothing, Contents
<1>4. Empty \in Distributions
  BY <1>1 DEF Empty, Distributions
<1>5. NoJob \in Jobs
  BY <1>2, <1>3, <1>4 DEF NoJob, Jobs, Pcs, Order
<1> QED BY <1>2, <1>3, <1>4, <1>5 DEF NoJob, NoPlan

LEMMA OutdatedTyped ==
  ASSUME NEW p \in Plans, NEW layers
  PROVE  /\ Outdated(p, layers) \in Plans
         /\ Outdated(p, layers).kind = p.kind
         /\ Outdated(p, layers).version = p.version
         /\ Outdated(p, layers).providers = p.providers
         /\ p.stale \subseteq Outdated(p, layers).stale
         /\ p.kind = "purge" /\ "home" \in layers => "home" \in Outdated(p, layers).stale
<1>1. Outdated(p, layers) = [p EXCEPT !.stale = p.stale \cup (layers \cap Compared(p.kind))]
  BY DEF Outdated
<1>2. Compared(p.kind) \subseteq Layers /\ (p.kind = "purge" => Compared(p.kind) = Layers)
  BY DEF Compared, Layers
<1> QED BY <1>1, <1>2 DEF Plans, Layers

LEMMA FaultsTyped == TypeOK /\ (Fault \/ NoFault) => faults' \in 0..MaxFaults
BY MaxFaultsAssumption DEF TypeOK, Fault, NoFault

(* The pieces of the CLI keep their types.                                  *)
LEMMA PiecesTyped ==
  ASSUME DistributionTypeOK
  PROVE  /\ \A v \in Versions : Copy(v) => DistributionTypeOK'
         /\ \A v : Discard(v) => DistributionTypeOK'
         /\ \A piece \in {"launcher", "current", "versions", "receipt"} :
              MoveAside(piece) \/ MoveBack(piece) => DistributionTypeOK'
         /\ Forget => DistributionTypeOK'
         /\ \A from \in Distributions : \A piece \in {"launcher", "current", "receipt"} :
              Write(piece, from[piece]) => DistributionTypeOK'
<1>1. \A v \in Versions : Copy(v) => DistributionTypeOK'
  BY DEF DistributionTypeOK, Distributions, Copy
<1>2. \A v : Discard(v) => DistributionTypeOK'
  BY DEF DistributionTypeOK, Distributions, Discard
<1>3. ASSUME NEW piece \in {"launcher", "current", "versions", "receipt"},
             MoveAside(piece) \/ MoveBack(piece)
      PROVE  DistributionTypeOK'
  BY <1>3, ConstantsTyped DEF DistributionTypeOK, Distributions, MoveAside, MoveBack
<1>4. Forget => DistributionTypeOK'
  BY ConstantsTyped DEF DistributionTypeOK, Forget
<1>5. ASSUME NEW from \in Distributions, NEW piece \in {"launcher", "current", "receipt"},
             Write(piece, from[piece])
      PROVE  DistributionTypeOK'
  BY <1>5 DEF DistributionTypeOK, Distributions, Write
<1> QED BY <1>1, <1>2, <1>3, <1>4, <1>5

LEMMA ControlsTyped ==
  ASSUME DistributionTypeOK, NEW v \in Versions
  PROVE  /\ Write("launcher", TRUE) => DistributionTypeOK'
         /\ Write("current", v) => DistributionTypeOK'
         /\ Write("receipt", ReceiptFor(v)) => DistributionTypeOK'
<1>1. ReceiptFor(v) \in Receipts
  BY DEF DistributionTypeOK, Distributions, Receipts, ReceiptFor
<1> QED BY <1>1 DEF DistributionTypeOK, Distributions, Write

LEMMA EndTyped == End => job' \in Jobs /\ job'.pc = "none"
BY ConstantsTyped DEF End

(* How a step of the command moves on: nothing but its place changes, or   *)
(* what it knows to be out of date grows.                                  *)
Moves(pc) ==
    /\ job'.pc = pc
    /\ job'.plan.kind = job.plan.kind /\ job'.plan.version = job.plan.version
    /\ job'.plan.providers = job.plan.providers
    /\ job.plan.stale \subseteq job'.plan.stale
    /\ job'.left = job.left /\ job'.before = job.before

LEMMA GotoMoves ==
  ASSUME job \in Jobs, NEW pc \in Pcs, Goto(pc)
  PROVE  job' \in Jobs /\ Moves(pc)
BY DEF Goto, Moves, Jobs

LEMMA HandlerTyped ==
  /\ Handler \in {"failed", "restoreBackups", "restoreRegistry", "revalidate"}
  /\ Handler = "restoreBackups" =>
       /\ job.plan.kind = "purge"
       /\ job.pc \in {"recheck", "credentials", "config", "service", "metadata", "runtime"}
  /\ Handler = "restoreRegistry" => job.plan.kind = "purge" /\ job.pc = "backups"
BY DEF Handler

LEMMA AbortMoves ==
  ASSUME job \in Jobs, Abort
  PROVE  job' \in Jobs /\ Moves(Handler)
<1>1. Handler \in Pcs
  BY HandlerTyped DEF Pcs
<1> HIDE DEF Handler
<1> QED BY <1>1 DEF Abort, Moves, Jobs

(* The command that waits for the lock only learns that it is out of date. *)
PlanWaits ==
    /\ plan' \in Plans
    /\ plan'.kind = plan.kind /\ plan.stale \subseteq plan'.stale

LEMMA TouchWaits ==
  ASSUME plan \in Plans, NEW layers, Touch(layers)
  PROVE  PlanWaits /\ (plan.kind = "purge" /\ "home" \in layers => "home" \in plan'.stale)
BY OutdatedTyped DEF Touch, PlanWaits

LEMMA TouchIfWaits ==
  ASSUME plan \in Plans, NEW changed \in BOOLEAN, NEW layers, TouchIf(changed, layers)
  PROVE  /\ PlanWaits
         /\ changed /\ plan.kind = "purge" /\ "home" \in layers => "home" \in plan'.stale
BY TouchWaits DEF TouchIf

-----------------------------------------------------------------------------
(* No Keychain item falls out of the registry.                             *)

SettingUp == {"copy", "commitCheck", "launcher", "current", "receipt", "package", "activate",
              "undoCurrent", "undoLauncher", "undoReceipt", "undoVersion"}
Selecting == {"registry", "backups", "recheck", "credentials"}
Removing == {"config", "service", "metadata", "runtime"}
Cleaning == {"cleanBackups", "cleanRegistry", "usage", "directory"}

Purging == job.plan.kind = "purge"

(* A purge that still believes its inventory of the directory finds no      *)
(* registry in a quarantine, and will not overwrite one.                    *)
KnownQuarantine ==
    /\ plan.kind = "purge" /\ "home" \notin plan.stale => away.registry = {}
    /\ job.pc \in {"stage", "check"} /\ Purging /\ "home" \notin job.plan.stale
         => away.registry = {}
    /\ job.pc = "registry" => away.registry = {}

(* Before the registry is quarantined its items are those to delete; until  *)
(* its quarantine is deleted or restored no other registry takes its place, *)
(* and past the deletions no item is left.                                  *)
PurgeSteps ==
    /\ job.pc \in Selecting \cup Cleaning => Purging
    /\ job.pc \in {"stage", "check"} => job.left = job.plan.providers
    /\ job.pc \in Selecting => keychain \subseteq job.left
    /\ (job.pc \in Removing /\ Purging) \/ job.pc \in Cleaning => keychain = {}
    /\ \/ job.pc \in (Selecting \ {"registry"}) \cup {"restoreBackups", "restoreRegistry"}
       \/ job.pc \in Removing /\ Purging
       \/ job.pc \in Cleaning
       => here.registry = {}

(* What a failed activation would restore, what an item about to be written *)
(* and what a registry about to shrink rely on.                             *)
OtherSteps ==
    /\ job.pc \in SettingUp => keychain \subseteq job.before.registry \cup away.registry
    /\ job.pc = "set" => job.left \subseteq here.registry
    /\ job.pc = "unregister" => job.left \cap keychain = {}

Listing == CredentialsListed /\ KnownQuarantine /\ PurgeSteps /\ OtherSteps

(* Where the command is: setup has a release to install, a piece is left to *)
(* stage.                                                                   *)
Position ==
    /\ job.pc \in SettingUp => job.plan.version \in Versions
    /\ job.pc = "stage" => job.at < Len(Order)

ListedInv == TypeOK /\ Position /\ Listing

LEMMA ListingStarts == Init => ListedInv
<1> SUFFICES ASSUME Init PROVE ListedInv
  OBVIOUS
<1>1. DistributionTypeOK
  BY ConstantsTyped DEF Init, DistributionInit, DistributionTypeOK
<1>2. here \in Contents /\ away \in Contents /\ plan \in Plans /\ job \in Jobs
  BY ConstantsTyped DEF Init
<1>3. faults \in 0..MaxFaults
  BY MaxFaultsAssumption DEF Init
<1>4. TypeOK
  BY <1>1, <1>2, <1>3 DEF Init, TypeOK
<1>5. /\ keychain = {} /\ here.registry = {} /\ away.registry = {}
      /\ job.pc = "none"
  BY ConstantsTyped DEF Init, Nothing
<1> QED BY <1>4, <1>5 DEF ListedInv, Position, Listing, CredentialsListed, KnownQuarantine,
           PurgeSteps, OtherSteps, SettingUp, Selecting, Removing, Cleaning

(* Registry, quarantine and Keychain stay as they are.                     *)
Kept == /\ here'.registry = here.registry /\ away'.registry = away.registry
        /\ keychain' = keychain

Waits == plan'.kind = plan.kind /\ plan.stale \subseteq plan'.stale

(* The command ends.                                                        *)
LEMMA EndLists ==
  ASSUME Listing, Kept, Waits \/ plan'.kind # "purge", job'.pc = "none"
  PROVE  Listing'
BY DEF Listing, Kept, Waits, CredentialsListed, KnownQuarantine, PurgeSteps, OtherSteps,
   SettingUp, Selecting, Removing, Cleaning

(* The steps from one place to another that need nothing more.              *)
Ways ==
    (SettingUp \X SettingUp)
      \cup (Removing \X {"service", "metadata", "runtime"})
      \cup {<<"stage", "stage">>, <<"stage", "check">>,
            <<"backups", "recheck">>, <<"recheck", "credentials">>,
            <<"credentials", "credentials">>,
            <<"cleanRegistry", "usage">>, <<"cleanBackups", "cleanRegistry">>,
            <<"usage", "directory">>, <<"restoreBackups", "restoreRegistry">>}

LEMMA MoveLists ==
  ASSUME Listing, Kept, Waits, NEW pc, Moves(pc),
         \/ <<job.pc, pc>> \in Ways
         \/ pc \in {"failed", "revalidate", "unstage", "removed", "cleanCli"}
         \/ pc = job.pc
  PROVE  Listing'
BY DEF Listing, Kept, Waits, Moves, CredentialsListed, KnownQuarantine, PurgeSteps, OtherSteps,
   SettingUp, Selecting, Removing, Cleaning, Ways, Purging

(* A failing step of a removal is caught; the registry is put back only     *)
(* where it was quarantined.                                                *)
LEMMA AbortLists ==
  ASSUME Listing, Kept, Waits, job \in Jobs, Abort
  PROVE  Listing' /\ job' \in Jobs
<1>1. job' \in Jobs /\ Moves(Handler)
  BY AbortMoves
<1> DEFINE pc == Handler
<1>2. pc \in {"failed", "restoreBackups", "restoreRegistry", "revalidate"}
  BY HandlerTyped
<1>3. pc = "restoreBackups" => Purging /\ job.pc \in {"recheck", "credentials"} \cup Removing
  BY HandlerTyped DEF Purging, Removing
<1>4. pc = "restoreRegistry" => Purging /\ job.pc = "backups"
  BY HandlerTyped DEF Purging
<1> HIDE DEF pc
<1>5. Moves(pc)
  BY <1>1 DEF pc
<1> QED BY <1>1, <1>2, <1>3, <1>4, <1>5 DEF Listing, Kept, Waits, Moves, CredentialsListed, KnownQuarantine,
           PurgeSteps, OtherSteps, SettingUp, Selecting, Removing, Cleaning, Purging

-----------------------------------------------------------------------------
(* Every action keeps the invariant.                                        *)

LEMMA PlansMade ==
  /\ \A installed \in BOOLEAN :
       [NoPlan EXCEPT !.kind = "setup", !.installed = installed] \in Plans
  /\ \A kind \in Removals, receipt \in Receipts, providers \in SUBSET Providers :
       [NoPlan EXCEPT !.kind = kind, !.receipt = receipt, !.providers = providers] \in Plans
  /\ \A p \in Plans, v \in {0} \cup Versions : [p EXCEPT !.version = v] \in Plans
<1>1. NoPlan \in Plans
  BY ConstantsTyped
<1> QED BY <1>1 DEF Plans

LEMMA PlanSetupKeeps ==
  ASSUME ListedInv, PlanSetup
  PROVE  ListedInv'
<1> USE DEF ListedInv
<1>1. plan' \in Plans
  BY PlansMade DEF PlanSetup, TypeOK
<1>2. TypeOK' /\ Position'
  BY <1>1 DEF PlanSetup, TypeOK, Position, homeVars, cliVars, DistributionTypeOK
<1>3. Listing'
  BY DEF PlanSetup, NoPlan, Listing, CredentialsListed, KnownQuarantine, PurgeSteps, OtherSteps,
     SettingUp, Selecting, Removing, Cleaning, Purging, homeVars
<1> QED BY <1>2, <1>3

LEMMA PlanRemovalKeeps ==
  ASSUME ListedInv, NEW kind \in Removals, PlanRemoval(kind)
  PROVE  ListedInv'
<1> USE DEF ListedInv
<1>1. /\ cli.receipt \in Receipts
      /\ (IF kind = "purge" THEN here.registry ELSE {}) \in SUBSET Providers
  BY DEF TypeOK, DistributionTypeOK, Distributions, Contents
<1>2. plan' \in Plans
  BY <1>1, PlansMade DEF PlanRemoval
<1>3. TypeOK' /\ Position'
  BY <1>2 DEF PlanRemoval, TypeOK, Position, homeVars, cliVars, DistributionTypeOK
<1>4. kind = "purge" => away.registry = {}
  <2>1. "registry" \in Stores \ {"usage"} /\ Nothing["registry"] = {}
    BY DEF Stores, Nothing
  <2>2. InstallDirectoryClean => away["registry"] = Nothing["registry"]
    BY <2>1 DEF InstallDirectoryClean
  <2> QED BY <2>1, <2>2 DEF PlanRemoval
<1>5. plan'.kind = kind
  BY DEF PlanRemoval, NoPlan
<1>6. Listing'
  BY <1>4, <1>5 DEF PlanRemoval, Listing, CredentialsListed, KnownQuarantine, PurgeSteps,
     OtherSteps, Purging, homeVars
<1> QED BY <1>3, <1>6

LEMMA BeginKeeps ==
  ASSUME ListedInv, NEW v \in {0} \cup Versions, Begin(v)
  PROVE  ListedInv'
<1> USE DEF ListedInv
<1>1. [plan EXCEPT !.version = v] \in Plans /\ plan.providers \in SUBSET Providers
  BY PlansMade DEF TypeOK, Plans
<1>2. NoJob \in Jobs /\ NoPlan \in Plans
  BY ConstantsTyped
<1>3. job' \in Jobs
  BY <1>1, <1>2 DEF Begin, TypeOK, DistributionTypeOK, Jobs, Pcs
<1>4. TypeOK'
  BY <1>2, <1>3 DEF Begin, TypeOK, homeVars, cliVars, DistributionTypeOK
<1>5. /\ job'.pc = (IF plan.kind = "setup" THEN "copy" ELSE "stage")
      /\ job'.plan = [plan EXCEPT !.version = v]
      /\ job'.left = plan.providers /\ job'.before = here /\ job'.at = 0
  BY <1>2 DEF Begin, Jobs, NoJob
<1>6. Position'
  BY <1>5 DEF Begin, Position, SettingUp, Order, TypeOK, Plans
<1>7. Listing'
  BY <1>5, ConstantsTyped DEF Begin, TypeOK, Plans, Listing, CredentialsListed, KnownQuarantine,
     PurgeSteps, OtherSteps, SettingUp, Selecting, Removing, Cleaning, Purging, homeVars
<1> QED BY <1>4, <1>6, <1>7

LEMMA RefuseKeeps ==
  ASSUME ListedInv, NEW v \in {0} \cup Versions, Refuse(v)
  PROVE  ListedInv'
<1> USE DEF ListedInv
<1>1. TypeOK' /\ Position'
  BY ConstantsTyped DEF TypeOK, Position, SettingUp, Jobs, Pcs, homeVars, cliVars, DistributionTypeOK, Refuse
<1>2. Listing'
  BY ConstantsTyped DEF Listing, CredentialsListed, KnownQuarantine, PurgeSteps, OtherSteps,
     SettingUp, Selecting, Removing, Cleaning, Purging, homeVars, cliVars, Refuse
<1> QED BY <1>1, <1>2

(* The state beside the job, and what a step that leaves registry,          *)
(* quarantine and Keychain alone has to show.                               *)
RestTyped ==
    /\ DistributionTypeOK /\ here \in Contents /\ away \in Contents
    /\ config \in BOOLEAN /\ service \in BOOLEAN /\ foreign \in BOOLEAN
    /\ keychain \in SUBSET Providers
    /\ plan \in Plans
    /\ told \in {"none", "removed", "pending", "failed", "incomplete"}
    /\ torn \in BOOLEAN /\ faults \in 0..MaxFaults

LEMMA TypeOKSplits == TypeOK <=> RestTyped /\ job \in Jobs
BY DEF TypeOK, RestTyped

LEMMA EndKeeps ==
  ASSUME ListedInv, RestTyped', Kept, Waits, End
  PROVE  ListedInv'
<1>1. job' \in Jobs /\ job'.pc = "none"
  BY EndTyped
<1>2. TypeOK'
  BY <1>1, TypeOKSplits DEF TypeOK, RestTyped
<1>3. Listing'
  BY <1>1, EndLists DEF ListedInv
<1> QED BY <1>1, <1>2, <1>3 DEF ListedInv, Position, SettingUp

LEMMA MoveKeeps ==
  ASSUME ListedInv, RestTyped', Kept, Waits, job' \in Jobs, NEW pc, Moves(pc),
         \/ <<job.pc, pc>> \in Ways
         \/ pc \in {"failed", "revalidate", "unstage", "removed", "cleanCli"}
         \/ pc = job.pc,
         pc = "stage" => job'.at < Len(Order)
  PROVE  ListedInv'
<1>1. TypeOK'
  BY DEF TypeOK, RestTyped
<1>2. Listing'
  BY MoveLists DEF ListedInv
<1>3. Position'
  BY DEF ListedInv, Position, Moves, Ways, SettingUp, Removing
<1> QED BY <1>1, <1>2, <1>3 DEF ListedInv

LEMMA GotoKeeps ==
  ASSUME ListedInv, RestTyped', Kept, Waits, NEW pc \in Pcs, Goto(pc), pc # "stage",
         \/ <<job.pc, pc>> \in Ways
         \/ pc \in {"failed", "revalidate", "unstage", "removed", "cleanCli"}
         \/ pc = job.pc
  PROVE  ListedInv'
<1>1. job \in Jobs
  BY DEF ListedInv, TypeOK
<1>2. job' \in Jobs /\ Moves(pc)
  BY <1>1, GotoMoves
<1> QED BY <1>2, MoveKeeps

LEMMA AbortKeeps ==
  ASSUME ListedInv, RestTyped', Kept, Waits, Abort
  PROVE  ListedInv'
<1>1. job \in Jobs
  BY DEF ListedInv, TypeOK
<1>2. Listing' /\ job' \in Jobs
  BY <1>1, AbortLists DEF ListedInv
<1>3. Position'
  BY <1>1, AbortMoves, HandlerTyped DEF Moves, Position, SettingUp
<1> QED BY <1>2, <1>3 DEF ListedInv, TypeOK, RestTyped

(* Setup.                                                                   *)

LEMMA SettingUpTyped ==
  ASSUME ListedInv, job.pc \in SettingUp
  PROVE  /\ DistributionTypeOK /\ job \in Jobs /\ job.plan.version \in Versions
         /\ job.was \in Distributions /\ job.before \in Contents
BY DEF ListedInv, Position, TypeOK, Jobs

LEMMA CopyVersionKeeps ==
  ASSUME ListedInv, CopyVersion
  PROVE  ListedInv'
<1>1. DistributionTypeOK'
  BY SettingUpTyped, PiecesTyped DEF CopyVersion, At, SettingUp, cliVars, DistributionTypeOK
<1>2. RestTyped'
  BY <1>1, FaultsTyped DEF CopyVersion, NoFault, ListedInv, TypeOK, RestTyped, homeVars
<1>3. Kept /\ Waits
  BY DEF CopyVersion, homeVars, Kept, Waits
<1>4. \/ End
      \/ job' \in Jobs /\ Moves("commitCheck")
  <2>1. job \in Jobs
    BY SettingUpTyped DEF CopyVersion, At, SettingUp
  <2>2. Goto("commitCheck") => job' \in Jobs /\ Moves("commitCheck")
    BY <2>1, GotoMoves DEF Pcs
  <2>3. ASSUME job' = [job EXCEPT !.pc = "commitCheck", !.created = TRUE]
        PROVE  job' \in Jobs /\ Moves("commitCheck")
    BY <2>1, <2>3 DEF Jobs, Pcs, Moves
  <2> QED BY <2>2, <2>3 DEF CopyVersion
<1>5. <<job.pc, "commitCheck">> \in Ways
  BY DEF CopyVersion, At, Ways, SettingUp
<1> QED BY <1>2, <1>3, <1>4, <1>5, EndKeeps, MoveKeeps

LEMMA CommitCheckKeeps ==
  ASSUME ListedInv, CommitCheck
  PROVE  ListedInv'
<1>1. DistributionTypeOK'
  BY SettingUpTyped, PiecesTyped DEF CommitCheck, At, SettingUp, cliVars, DistributionTypeOK
<1>2. RestTyped'
  BY <1>1, FaultsTyped DEF CommitCheck, NoFault, ListedInv, TypeOK, RestTyped, homeVars
<1>3. Kept /\ Waits
  BY DEF CommitCheck, homeVars, Kept, Waits
<1>4. End \/ Goto("launcher")
  BY DEF CommitCheck
<1>5. <<job.pc, "launcher">> \in Ways /\ "launcher" \in Pcs
  BY DEF CommitCheck, At, Ways, SettingUp, Pcs
<1> QED BY <1>2, <1>3, <1>4, <1>5, EndKeeps, GotoKeeps

LEMMA ControlKeeps ==
  ASSUME ListedInv, WriteLauncher \/ WriteCurrent \/ WriteReceipt
  PROVE  ListedInv'
<1>1. /\ job.pc \in {"launcher", "current", "receipt"}
      /\ \/ Write("launcher", TRUE) \/ Write("current", job.plan.version)
         \/ Write("receipt", ReceiptFor(job.plan.version)) \/ UNCHANGED cliVars
      /\ \E pc \in {"current", "receipt", "package", "undoCurrent"} : Goto(pc)
      /\ UNCHANGED <<homeVars, plan, told, torn>> /\ (Fault \/ NoFault)
  BY DEF WriteLauncher, WriteCurrent, WriteReceipt, Control, At
<1>2. DistributionTypeOK'
  BY <1>1, SettingUpTyped, ControlsTyped DEF SettingUp, cliVars, DistributionTypeOK
<1>3. RestTyped'
  BY <1>1, <1>2, FaultsTyped DEF ListedInv, TypeOK, RestTyped, homeVars
<1>4. Kept /\ Waits
  BY <1>1 DEF homeVars, Kept, Waits
<1>5. PICK pc \in {"current", "receipt", "package", "undoCurrent"} : Goto(pc)
  BY <1>1
<1>6. <<job.pc, pc>> \in Ways /\ pc \in Pcs
  BY <1>1 DEF Ways, SettingUp, Pcs
<1> QED BY <1>3, <1>4, <1>5, <1>6, GotoKeeps

LEMMA PackageKeeps ==
  ASSUME ListedInv, Package
  PROVE  ListedInv'
<1>1. job.plan.version \in Versions /\ job \in Jobs
  BY SettingUpTyped DEF Package, At, SettingUp
<1>2. here' \in Contents
  BY <1>1, ConfiguredAssumption DEF Package, ListedInv, TypeOK, Contents
<1>3. PlanWaits
  BY TouchWaits, FaultsTyped DEF Package, ListedInv, TypeOK, PlanWaits
<1>4. RestTyped'
  BY <1>2, <1>3, FaultsTyped DEF Package, ListedInv, TypeOK, RestTyped, cliVars, PlanWaits,
     DistributionTypeOK
<1>5. \/ Kept
      \/ /\ here.registry \subseteq here'.registry /\ away' = away /\ keychain' = keychain
  BY DEF Package, Kept, ListedInv, TypeOK, Contents
<1>6. PICK pc \in {"activate", "undoCurrent"} : Goto(pc)
  BY DEF Package
<1>7. job' \in Jobs /\ Moves(pc) /\ job.pc = "package"
  BY <1>1, <1>6, GotoMoves DEF Pcs, Package, At
<1>8. Listing'
  BY <1>3, <1>5, <1>7 DEF PlanWaits, ListedInv, Listing, Kept, Moves, CredentialsListed,
     KnownQuarantine, PurgeSteps, OtherSteps, SettingUp, Selecting, Removing, Cleaning, Purging
<1>9. Position'
  BY <1>7 DEF ListedInv, Position, Moves, SettingUp
<1> QED BY <1>4, <1>7, <1>8, <1>9 DEF ListedInv, TypeOK, RestTyped

LEMMA ActivateKeeps ==
  ASSUME ListedInv, Activate
  PROVE  ListedInv'
<1>1. job \in Jobs /\ job.before \in Contents /\ job.pc = "activate"
  BY SettingUpTyped DEF Activate, At, SettingUp
<1>2. here' \in Contents
  BY <1>1 DEF Activate, ListedInv, TypeOK, Contents
<1>3. PlanWaits
  BY TouchWaits DEF Activate, ListedInv, TypeOK
<1>4. RestTyped'
  BY <1>2, <1>3, FaultsTyped DEF Activate, ListedInv, TypeOK, RestTyped, cliVars, PlanWaits,
     DistributionTypeOK
<1>5. CASE End
  <2>1. (End /\ here' = [here EXCEPT !.backups = TRUE]) \/ Goto("undoCurrent")
    BY DEF Activate
  <2>2. ~Goto("undoCurrent")
    BY <1>1, <1>5, EndTyped, GotoMoves DEF Moves, Pcs
  <2>3. Kept /\ Waits
    BY <1>3, <2>1, <2>2 DEF Activate, Kept, Waits, PlanWaits, ListedInv, TypeOK, Contents
  <2> QED BY <1>4, <1>5, <2>3, EndKeeps
<1>6. CASE Goto("undoCurrent")
  <2>1. job' \in Jobs /\ Moves("undoCurrent")
    BY <1>1, <1>6, GotoMoves DEF Pcs
  <2>2. /\ here'.registry \in {here.registry, job.before.registry}
        /\ away' = away /\ keychain' = keychain
    BY <1>1 DEF Activate, ListedInv, TypeOK, Contents
  <2>3. Listing'
    BY <1>1, <1>3, <2>1, <2>2 DEF PlanWaits, ListedInv, Listing, Moves, CredentialsListed,
       KnownQuarantine, PurgeSteps, OtherSteps, SettingUp, Selecting, Removing, Cleaning, Purging
  <2>4. Position'
    BY <1>1, <2>1 DEF ListedInv, Position, Moves, SettingUp
  <2> QED BY <1>4, <2>1, <2>3, <2>4 DEF ListedInv, TypeOK, RestTyped
<1> QED BY <1>5, <1>6 DEF Activate

LEMMA UndoKeeps ==
  ASSUME ListedInv, UndoCurrent \/ UndoLauncher \/ UndoReceipt
  PROVE  ListedInv'
<1>1. /\ job.pc \in {"undoCurrent", "undoLauncher", "undoReceipt"}
      /\ \/ \E piece \in {"launcher", "current", "receipt"} : Write(piece, job.was[piece])
         \/ UNCHANGED cliVars
      /\ \E pc \in {"undoLauncher", "undoReceipt", "undoVersion"} : Goto(pc)
      /\ UNCHANGED <<homeVars, plan, told>> /\ (Fault \/ NoFault) /\ torn' \in {torn, TRUE}
  BY DEF UndoCurrent, UndoLauncher, UndoReceipt, Undo, At
<1>2. DistributionTypeOK /\ job.was \in Distributions
  BY <1>1, SettingUpTyped DEF SettingUp
<1>3. DistributionTypeOK'
  BY <1>1, <1>2, PiecesTyped DEF cliVars, DistributionTypeOK
<1>4. RestTyped'
  BY <1>1, <1>3, FaultsTyped DEF ListedInv, TypeOK, RestTyped, homeVars
<1>5. Kept /\ Waits
  BY <1>1 DEF homeVars, Kept, Waits
<1>6. PICK pc \in {"undoLauncher", "undoReceipt", "undoVersion"} : Goto(pc)
  BY <1>1
<1>7. <<job.pc, pc>> \in Ways /\ pc \in Pcs
  BY <1>1 DEF Ways, SettingUp, Pcs
<1> QED BY <1>4, <1>5, <1>6, <1>7, GotoKeeps

LEMMA UndoVersionKeeps ==
  ASSUME ListedInv, UndoVersion
  PROVE  ListedInv'
<1>1. DistributionTypeOK'
  BY SettingUpTyped, PiecesTyped DEF UndoVersion, At, SettingUp, cliVars, DistributionTypeOK
<1>2. RestTyped'
  BY <1>1, FaultsTyped DEF UndoVersion, NoFault, ListedInv, TypeOK, RestTyped, homeVars
<1>3. Kept /\ Waits
  BY DEF UndoVersion, homeVars, Kept, Waits
<1> QED BY <1>2, <1>3, EndKeeps DEF UndoVersion

LEMMA SetupKeeps == ListedInv /\ Setup => ListedInv'
BY CopyVersionKeeps, CommitCheckKeeps, ControlKeeps, PackageKeeps, ActivateKeeps, UndoKeeps,
   UndoVersionKeeps DEF Setup

(* The credential commands.                                                 *)

LEMMA StartCredentialKeeps ==
  ASSUME ListedInv, NEW p \in Providers, NEW pc \in {"register", "delete"},
         StartCredential(p, pc)
  PROVE  ListedInv'
<1>1. job' \in Jobs /\ job'.pc = pc
  BY ConstantsTyped DEF StartCredential, Jobs, Plans, Pcs
<1>2. TypeOK'
  BY <1>1 DEF StartCredential, ListedInv, TypeOK, DistributionTypeOK, homeVars, cliVars
<1>3. Listing'
  BY <1>1 DEF StartCredential, homeVars, ListedInv, Listing, CredentialsListed, KnownQuarantine,
     PurgeSteps, OtherSteps, SettingUp, Selecting, Removing, Cleaning, Purging
<1>4. Position'
  BY <1>1 DEF Position, SettingUp
<1> QED BY <1>2, <1>3, <1>4 DEF ListedInv

LEMMA ListedTyped ==
  ASSUME ListedInv, NEW ids \in SUBSET Providers, Listed(ids)
  PROVE  here' \in Contents /\ here'.registry = ids /\ PlanWaits
<1>1. here \in Contents /\ plan \in Plans
  BY DEF ListedInv, TypeOK
<1>2. here' \in Contents /\ here'.registry = ids
  BY <1>1 DEF Listed, Contents
<1>3. (ids # here.registry) \in BOOLEAN
  OBVIOUS
<1>4. TouchIf(ids # here.registry, {"home"})
  BY DEF Listed
<1>5. PlanWaits
  BY <1>1, <1>3, <1>4, TouchIfWaits
<1> QED BY <1>2, <1>5

LEMMA RegisterKeeps ==
  ASSUME ListedInv, Register
  PROVE  ListedInv'
<1>1. job \in Jobs /\ job.left \in SUBSET Providers /\ here.registry \in SUBSET Providers
      /\ job.pc = "register"
  BY DEF Register, At, ListedInv, TypeOK, Jobs, Contents
<1>2. CASE Listed(here.registry \cup job.left) /\ Goto("set") /\ NoFault
  <2>1. /\ here' \in Contents /\ here'.registry = here.registry \cup job.left
        /\ PlanWaits
    BY <1>1, <1>2, ListedTyped
  <2>2. job' \in Jobs /\ Moves("set")
    BY <1>1, <1>2, GotoMoves DEF Pcs
  <2>3. TypeOK'
    BY <1>2, <2>1, <2>2, FaultsTyped
    DEF Register, PlanWaits, ListedInv, TypeOK, DistributionTypeOK, cliVars
  <2>4. Listing'
    BY <1>1, <2>1, <2>2
    DEF Register, PlanWaits, Moves, ListedInv, Listing, CredentialsListed, KnownQuarantine,
        PurgeSteps, OtherSteps, SettingUp, Selecting, Removing, Cleaning, Purging
  <2>5. Position'
    BY <2>2 DEF Moves, Position, SettingUp
  <2> QED BY <2>3, <2>4, <2>5 DEF ListedInv
<1>3. CASE Fault /\ End /\ UNCHANGED <<here, plan>>
  <2>1. RestTyped'
    BY <1>3, FaultsTyped DEF Register, ListedInv, TypeOK, RestTyped, DistributionTypeOK, cliVars
  <2> QED BY <1>3, <2>1, EndKeeps DEF Register, Kept, Waits
<1> QED BY <1>2, <1>3 DEF Register

LEMMA SetItemKeeps ==
  ASSUME ListedInv, SetItem
  PROVE  ListedInv'
<1>1. job.left \subseteq here.registry /\ job.left \in SUBSET Providers
  BY DEF SetItem, At, ListedInv, Listing, OtherSteps, TypeOK, Jobs
<1>2. job' \in Jobs /\ job'.pc = "none"
  BY EndTyped DEF SetItem
<1>3. TypeOK'
  BY <1>1, <1>2, FaultsTyped DEF SetItem, ListedInv, TypeOK, DistributionTypeOK, cliVars
<1>4. Listing'
  BY <1>1, <1>2 DEF SetItem, ListedInv, Listing, CredentialsListed, KnownQuarantine, PurgeSteps,
     OtherSteps, SettingUp, Selecting, Removing, Cleaning
<1> QED BY <1>2, <1>3, <1>4 DEF ListedInv, Position, SettingUp

LEMMA DeleteItemKeeps ==
  ASSUME ListedInv, DeleteItem
  PROVE  ListedInv'
<1>1. job \in Jobs
  BY DEF ListedInv, TypeOK
<1>2. \/ keychain' = keychain /\ job'.pc = "none" /\ job' \in Jobs
      \/ keychain' = keychain \ job.left /\ Moves("unregister") /\ job' \in Jobs
  BY <1>1, EndTyped, GotoMoves DEF DeleteItem, Pcs
<1>3. TypeOK'
  BY <1>2, FaultsTyped DEF DeleteItem, ListedInv, TypeOK, DistributionTypeOK, cliVars
<1>4. Listing' /\ Position'
  BY <1>2 DEF DeleteItem, Moves, ListedInv, Position, Listing, CredentialsListed,
     KnownQuarantine, PurgeSteps, OtherSteps, SettingUp, Selecting, Removing, Cleaning
<1> QED BY <1>3, <1>4 DEF ListedInv

LEMMA UnregisterKeeps ==
  ASSUME ListedInv, Unregister
  PROVE  ListedInv'
<1>1. here.registry \ job.left \in SUBSET Providers /\ job.left \cap keychain = {}
      /\ plan \in Plans /\ here \in Contents
  BY DEF Unregister, At, ListedInv, Listing, OtherSteps, TypeOK, Contents
<1>2. job' \in Jobs /\ job'.pc = "none"
  BY EndTyped DEF Unregister
<1>3. \/ /\ here' \in Contents /\ here'.registry = here.registry \ job.left
         /\ PlanWaits
      \/ UNCHANGED <<here, plan>>
  BY <1>1, ListedTyped DEF Unregister
<1>4. TypeOK'
  BY <1>1, <1>2, <1>3, FaultsTyped
  DEF Unregister, PlanWaits, ListedInv, TypeOK, DistributionTypeOK, cliVars
<1>5. Listing'
  BY <1>1, <1>2, <1>3 DEF Unregister, PlanWaits, ListedInv, Listing, CredentialsListed,
     KnownQuarantine, PurgeSteps, OtherSteps, SettingUp, Selecting, Removing, Cleaning
<1> QED BY <1>2, <1>4, <1>5 DEF ListedInv, Position, SettingUp

LEMMA CredentialKeeps == ListedInv /\ Credential => ListedInv'
BY StartCredentialKeeps, RegisterKeeps, SetItemKeeps, DeleteItemKeeps, UnregisterKeeps
DEF Credential

(* Removal up to the Keychain.                                              *)

LEMMA StartUninstallKeeps ==
  ASSUME ListedInv, StartUninstall
  PROVE  ListedInv'
<1>1. NoJob \in Jobs /\ cli \in Distributions /\ here \in Contents /\ config \in BOOLEAN
  BY ConstantsTyped DEF ListedInv, TypeOK, DistributionTypeOK
<1>2. job' \in Jobs /\ job'.pc = "config" /\ job'.plan.kind = "uninstall"
  BY <1>1 DEF StartUninstall, Jobs, Plans, Pcs, Removals
<1>3. TypeOK'
  BY <1>2 DEF StartUninstall, ListedInv, TypeOK, DistributionTypeOK, homeVars, cliVars
<1>4. Listing'
  BY <1>2 DEF StartUninstall, homeVars, ListedInv, Listing, CredentialsListed,
     KnownQuarantine, PurgeSteps, OtherSteps, SettingUp, Selecting, Removing, Cleaning, Purging
<1> QED BY <1>2, <1>3, <1>4 DEF ListedInv, Position, SettingUp

LEMMA StageKeeps ==
  ASSUME ListedInv, Stage
  PROVE  ListedInv'
<1>1. /\ DistributionTypeOK /\ job \in Jobs /\ job.at \in 0..3 /\ job.pc = "stage"
      /\ Len(Order) = 4
  BY DEF Stage, At, ListedInv, Position, TypeOK, Jobs, Order
<1>2. Order[job.at + 1] \in {"launcher", "current", "versions", "receipt"}
  BY <1>1 DEF Order
<1>3. DistributionTypeOK'
  BY <1>1, <1>2, PiecesTyped DEF Stage, cliVars, DistributionTypeOK
<1>4. RestTyped'
  BY <1>3, FaultsTyped DEF Stage, ListedInv, TypeOK, RestTyped, homeVars
<1>5. Kept /\ Waits
  BY DEF Stage, homeVars, Kept, Waits
<1>6. ASSUME NEW pc, pc = (IF job.at + 1 = 4 THEN "check" ELSE "stage"),
             job' = [job EXCEPT !.at = @ + 1, !.pc = pc]
      PROVE  ListedInv'
  <2> DEFINE next == job.at + 1
  <2>0. next \in 0..Len(Order) /\ pc \in Pcs /\ (pc = "stage" => next < 4)
    BY <1>1, <1>6 DEF Pcs
  <2>1. job' \in Jobs /\ Moves(pc) /\ (pc = "stage" => job'.at < 4)
    <3>1. job' = [job EXCEPT !.at = next, !.pc = pc]
      BY <1>6
    <3> HIDE DEF next
    <3> QED BY <1>1, <2>0, <3>1 DEF Jobs, Moves
  <2>2. <<job.pc, pc>> \in Ways
    BY <1>1, <1>6 DEF Ways
  <2> QED BY <1>1, <1>4, <1>5, <2>1, <2>2, MoveKeeps
<1>7. ASSUME job' = [job EXCEPT !.pc = "unstage", !.stopped = "stage"]
      PROVE  ListedInv'
  <2>1. job' \in Jobs /\ Moves("unstage")
    BY <1>1, <1>7 DEF Jobs, Pcs, Moves
  <2> QED BY <1>4, <1>5, <2>1, MoveKeeps
<1> QED BY <1>1, <1>6, <1>7 DEF Stage

LEMMA CheckKeeps ==
  ASSUME ListedInv, Check
  PROVE  ListedInv'
<1>1. RestTyped' /\ Kept /\ Waits
  BY FaultsTyped DEF Check, NoFault, ListedInv, TypeOK, RestTyped, DistributionTypeOK, homeVars, cliVars,
     Kept, Waits
<1>2. CASE Abort
  BY <1>1, <1>2, AbortKeeps
<1>3. CASE Unchanged /\ Goto(IF job.plan.kind = "purge" THEN "registry" ELSE "config")
  <2> DEFINE pc == IF job.plan.kind = "purge" THEN "registry" ELSE "config"
  <2>1. job' \in Jobs /\ Moves(pc) /\ job.pc = "check"
    BY <1>3, GotoMoves DEF Check, At, ListedInv, TypeOK, Pcs
  <2>2. Purging => job.plan.stale = {} /\ here.registry = job.plan.providers
    BY <1>3 DEF Unchanged, Purging
  <2>3. Listing' /\ Position'
    BY <1>1, <2>1, <2>2 DEF Kept, Waits, Moves, ListedInv, Position, Listing,
       CredentialsListed, KnownQuarantine, PurgeSteps, OtherSteps, SettingUp, Selecting,
       Removing, Cleaning, Purging
  <2> QED BY <1>1, <2>1, <2>3 DEF ListedInv, TypeOK, RestTyped
<1> QED BY <1>2, <1>3 DEF Check

LEMMA StoresTyped ==
  ASSUME ListedInv, NEW x \in {"metadata", "runtime", "backups", "registry", "usage"}
  PROVE  /\ (here[x] # Nothing[x]) \in BOOLEAN /\ (away[x] # Nothing[x]) \in BOOLEAN
         /\ Quarantined(x) \/ Restored(x) \/ UNCHANGED <<here, away>>
               => here' \in Contents /\ away' \in Contents
         /\ (Quarantined(x) \/ Restored(x)) /\ x # "registry" =>
               here'.registry = here.registry /\ away'.registry = away.registry
<1>1. here \in Contents /\ away \in Contents /\ Nothing \in Contents
  BY ConstantsTyped DEF ListedInv, TypeOK
<1> HIDE DEF Nothing
<1> QED BY <1>1 DEF Contents, Quarantined, Restored

LEMMA QuarantineRegistryKeeps ==
  ASSUME ListedInv, QuarantineRegistry
  PROVE  ListedInv'
<1>1. /\ job \in Jobs /\ plan \in Plans /\ job.pc = "registry"
      /\ here \in Contents /\ away \in Contents
  BY DEF QuarantineRegistry, Quarantine, At, ListedInv, TypeOK
<1>2. /\ PlanWaits
      /\ here.registry # {} /\ plan.kind = "purge" => "home" \in plan'.stale
  BY <1>1, StoresTyped, TouchIfWaits DEF QuarantineRegistry, Quarantine, Nothing
<1>3. here' \in Contents /\ away' \in Contents
  BY StoresTyped DEF QuarantineRegistry, Quarantine
<1>4. RestTyped'
  BY <1>2, <1>3, FaultsTyped DEF QuarantineRegistry, Quarantine, PlanWaits, ListedInv, TypeOK,
     RestTyped, DistributionTypeOK, cliVars
<1>5. CASE Quarantined("registry") /\ Goto("backups")
  <2>1. job' \in Jobs /\ Moves("backups")
    BY <1>1, <1>5, GotoMoves DEF Pcs
  <2>2. here'.registry = {} /\ away'.registry = here.registry /\ keychain' = keychain
    BY <1>1, <1>5 DEF Quarantined, Nothing, Contents, QuarantineRegistry, Quarantine
  <2>3. Listing' /\ Position'
    BY <1>1, <1>2, <2>1, <2>2 DEF PlanWaits, Moves, ListedInv, Position, Listing,
       CredentialsListed, KnownQuarantine, PurgeSteps, OtherSteps, SettingUp, Selecting,
       Removing, Cleaning, Purging
  <2> QED BY <1>4, <2>1, <2>3 DEF ListedInv, TypeOK, RestTyped
<1>6. CASE Abort /\ UNCHANGED <<here, away>>
  <2>1. Kept /\ Waits
    BY <1>2, <1>6 DEF QuarantineRegistry, Quarantine, PlanWaits, Kept, Waits
  <2> QED BY <1>4, <1>6, <2>1, AbortKeeps
<1> QED BY <1>5, <1>6 DEF QuarantineRegistry, Quarantine

LEMMA QuarantineBackupsKeeps ==
  ASSUME ListedInv, QuarantineBackups
  PROVE  ListedInv'
<1>1. plan \in Plans
  BY DEF ListedInv, TypeOK
<1>2. PlanWaits
  BY <1>1, StoresTyped, TouchIfWaits DEF QuarantineBackups, Quarantine
<1>3. here' \in Contents /\ away' \in Contents
  BY StoresTyped DEF QuarantineBackups, Quarantine
<1>4. RestTyped'
  BY <1>2, <1>3, FaultsTyped DEF QuarantineBackups, Quarantine, PlanWaits, ListedInv, TypeOK,
     RestTyped, DistributionTypeOK, cliVars
<1>5. Kept /\ Waits
  BY <1>2, StoresTyped DEF QuarantineBackups, Quarantine, PlanWaits, Kept, Waits
<1>6. <<job.pc, "recheck">> \in Ways /\ "recheck" \in Pcs
  BY DEF QuarantineBackups, Quarantine, At, Ways, Pcs
<1>7. Goto("recheck") \/ Abort
  BY DEF QuarantineBackups, Quarantine
<1> QED BY <1>4, <1>5, <1>6, <1>7, GotoKeeps, AbortKeeps

LEMMA RecheckKeeps ==
  ASSUME ListedInv, Recheck
  PROVE  ListedInv'
<1>1. RestTyped' /\ Kept /\ Waits
  BY DEF Recheck, ListedInv, TypeOK, RestTyped, DistributionTypeOK, homeVars, cliVars,
     Kept, Waits
<1>2. <<job.pc, "credentials">> \in Ways /\ "credentials" \in Pcs
  BY DEF Recheck, At, Ways, Pcs
<1> QED BY <1>1, <1>2, GotoKeeps, AbortKeeps DEF Recheck

LEMMA DeleteCredentialKeeps ==
  ASSUME ListedInv, NEW p \in Providers, DeleteCredential(p)
  PROVE  ListedInv'
<1>1. job \in Jobs /\ job.pc = "credentials"
  BY DEF DeleteCredential, At, ListedInv, TypeOK
<1>2. RestTyped'
  BY FaultsTyped DEF DeleteCredential, ListedInv, TypeOK, RestTyped, DistributionTypeOK, cliVars
<1>3. CASE Abort /\ UNCHANGED keychain
  BY <1>2, <1>3, AbortKeeps DEF DeleteCredential, Kept, Waits
<1>4. CASE keychain' = keychain \ {p} /\ job' = [job EXCEPT !.left = @ \ {p}]
  <2>1. job' \in Jobs /\ job'.left = job.left \ {p}
        /\ job'.pc = job.pc /\ job'.plan = job.plan /\ job'.before = job.before
    BY <1>1, <1>4 DEF Jobs
  <2>2. Listing' /\ Position'
    BY <1>1, <1>4, <2>1 DEF DeleteCredential, ListedInv, Position, Listing,
       CredentialsListed, KnownQuarantine, PurgeSteps, OtherSteps, SettingUp, Selecting,
       Removing, Cleaning, Purging
  <2> QED BY <1>2, <2>1, <2>2 DEF ListedInv, TypeOK, RestTyped
<1> QED BY <1>3, <1>4 DEF DeleteCredential

LEMMA CredentialsDeletedKeeps ==
  ASSUME ListedInv, CredentialsDeleted
  PROVE  ListedInv'
<1>1. job' \in Jobs /\ Moves("config") /\ job.pc = "credentials" /\ job.left = {}
  BY GotoMoves DEF CredentialsDeleted, At, ListedInv, TypeOK, Pcs
<1>2. TypeOK'
  BY <1>1 DEF CredentialsDeleted, ListedInv, TypeOK, DistributionTypeOK, homeVars, cliVars
<1>3. Listing' /\ Position'
  BY <1>1 DEF CredentialsDeleted, homeVars, Moves, ListedInv, Position, Listing,
     CredentialsListed, KnownQuarantine, PurgeSteps, OtherSteps, SettingUp, Selecting,
     Removing, Cleaning, Purging
<1> QED BY <1>2, <1>3 DEF ListedInv

(* Removal past the Keychain.                                               *)

LEMMA RemoveConfigKeeps ==
  ASSUME ListedInv, RemoveConfig
  PROVE  ListedInv'
<1>1. PlanWaits
  <2>1. plan \in Plans /\ config \in BOOLEAN /\ TouchIf(config, {"home"})
    BY DEF RemoveConfig, ListedInv, TypeOK
  <2> QED BY <2>1, TouchIfWaits
<1>2. RestTyped'
  BY <1>1, FaultsTyped DEF RemoveConfig, PlanWaits, ListedInv, TypeOK, RestTyped,
     DistributionTypeOK, cliVars, NoFault
<1>3. Kept /\ Waits
  BY <1>1 DEF RemoveConfig, PlanWaits, Kept, Waits
<1>4. <<job.pc, "service">> \in Ways /\ "service" \in Pcs
  BY DEF RemoveConfig, At, Ways, Removing, Pcs
<1> QED BY <1>2, <1>3, <1>4, GotoKeeps, AbortKeeps DEF RemoveConfig

LEMMA StopServiceKeeps ==
  ASSUME ListedInv, StopService
  PROVE  ListedInv'
<1>1. /\ job \in Jobs /\ job.plan \in Plans /\ here \in Contents /\ plan \in Plans
      /\ service \in BOOLEAN /\ job.pc = "service"
  BY DEF StopService, At, ListedInv, TypeOK, Jobs
<1>2. CASE Fault /\ Abort /\ UNCHANGED <<here, service, plan>>
  <2>1. RestTyped' /\ Kept /\ Waits
    BY <1>2, FaultsTyped DEF StopService, ListedInv, TypeOK, RestTyped, DistributionTypeOK,
       cliVars, Kept, Waits
  <2> QED BY <1>2, <2>1, AbortKeeps
<1>3. ASSUME NEW layers, Flushed(layers), service' = FALSE, NoFault,
             job' = [job EXCEPT !.pc = "metadata", !.plan = Outdated(@, layers)]
      PROVE  ListedInv'
  <2>1. here' \in Contents /\ here'.registry = here.registry
    BY <1>1, <1>3 DEF Flushed, Contents
  <2>2. PlanWaits
    <3>1. TouchIf(service, {"home"} \cup layers)
      BY <1>3 DEF Flushed
    <3> QED BY <1>1, <3>1, TouchIfWaits
  <2>3. RestTyped' /\ Kept /\ Waits
    BY <1>3, <2>1, <2>2 DEF StopService, PlanWaits, NoFault, ListedInv, TypeOK, RestTyped,
       DistributionTypeOK, cliVars, Kept, Waits
  <2>4. job' \in Jobs /\ Moves("metadata")
    BY <1>1, <1>3, OutdatedTyped DEF Jobs, Pcs, Moves
  <2>5. <<job.pc, "metadata">> \in Ways
    BY <1>1 DEF Ways, Removing
  <2> QED BY <2>3, <2>4, <2>5, MoveKeeps
<1> QED BY <1>2, <1>3 DEF StopService

(* A store that is removed or left in its quarantine.                       *)
LEMMA RemoveStoreTyped ==
  ASSUME ListedInv, NEW pc, NEW x \in {"metadata", "runtime", "usage"},
         NEW intact \in BOOLEAN, NEW next, RemoveStore(pc, x, intact, next)
  PROVE  /\ RestTyped' /\ Kept /\ Waits
         /\ Goto(next) \/ Abort
<1>1. plan \in Plans /\ here \in Contents /\ away \in Contents /\ Nothing \in Contents
  BY ConstantsTyped DEF ListedInv, TypeOK
<1>2. PlanWaits
  BY <1>1, StoresTyped, TouchIfWaits DEF RemoveStore
<1>3. /\ here' \in Contents /\ here'.registry = here.registry
      /\ away' \in Contents /\ away'.registry = away.registry
  <2>1. CASE Quarantined(x)
    BY <2>1, StoresTyped
  <2>2. CASE here' = [here EXCEPT ![x] = Nothing[x]] /\ away' = away
    <3> HIDE DEF Nothing
    <3> QED BY <1>1, <2>2 DEF Contents
  <2>3. CASE here' = here /\ away' = away
    BY <1>1, <2>3
  <2> QED BY <2>1, <2>2, <2>3 DEF RemoveStore
<1>4. RestTyped'
  BY <1>2, <1>3, FaultsTyped DEF RemoveStore, PlanWaits, NoFault, ListedInv, TypeOK, RestTyped,
     DistributionTypeOK, cliVars
<1>5. Kept /\ Waits
  BY <1>2, <1>3 DEF RemoveStore, PlanWaits, Kept, Waits
<1> QED BY <1>4, <1>5 DEF RemoveStore

LEMMA RemoveMetadataKeeps ==
  ASSUME ListedInv, RemoveMetadata
  PROVE  ListedInv'
<1>1. RestTyped' /\ Kept /\ Waits /\ (Goto("runtime") \/ Abort)
  BY RemoveStoreTyped DEF RemoveMetadata
<1>2. <<job.pc, "runtime">> \in Ways /\ "runtime" \in Pcs
  BY DEF RemoveMetadata, RemoveStore, At, Ways, Removing, Pcs
<1> QED BY <1>1, <1>2, GotoKeeps, AbortKeeps

LEMMA RemoveRuntimeKeeps ==
  ASSUME ListedInv, RemoveRuntime
  PROVE  ListedInv'
<1> DEFINE next == CASE job.plan.kind = "purge" -> "cleanBackups"
                     [] job.plan.kind = "removeCli" -> "cleanCli"
                     [] OTHER -> "removed"
<1>1. foreign \in BOOLEAN
  BY DEF ListedInv, TypeOK
<1>2. RestTyped' /\ Kept /\ Waits /\ (Goto(next) \/ Abort)
  BY <1>1, RemoveStoreTyped DEF RemoveRuntime
<1>3. next \in {"cleanBackups", "cleanCli", "removed"} /\ (next = "cleanBackups" => Purging)
  BY DEF Purging
<1> HIDE DEF next
<1>4. CASE Abort
  BY <1>2, <1>4, AbortKeeps
<1>5. CASE Goto(next) /\ next # "cleanBackups"
  BY <1>2, <1>3, <1>5, GotoKeeps DEF Pcs
<1>6. CASE Goto("cleanBackups") /\ Purging
  <2>1. job' \in Jobs /\ Moves("cleanBackups") /\ job.pc = "runtime"
    BY <1>6, GotoMoves DEF ListedInv, TypeOK, Pcs, RemoveRuntime, RemoveStore, At
  <2>2. Listing' /\ Position'
    BY <1>2, <1>6, <2>1 DEF Kept, Waits, Moves, ListedInv, Position, Listing,
       CredentialsListed, KnownQuarantine, PurgeSteps, OtherSteps, SettingUp, Selecting,
       Removing, Cleaning, Purging
  <2> QED BY <1>2, <2>1, <2>2 DEF ListedInv, TypeOK, RestTyped
<1> QED BY <1>2, <1>3, <1>4, <1>5, <1>6

LEMMA CleanTyped ==
  ASSUME ListedInv, NEW pc, NEW x \in {"backups", "registry"}, NEW next, Clean(pc, x, next)
  PROVE  /\ RestTyped' /\ Waits /\ Goto(next)
         /\ here' = here /\ keychain' = keychain /\ away'.registry \in {away.registry, {}}
         /\ x # "registry" => away'.registry = away.registry
<1>1. away \in Contents /\ Nothing \in Contents /\ Nothing.registry = {}
  BY ConstantsTyped DEF ListedInv, TypeOK, Nothing
<1>2. /\ away' \in Contents /\ away'.registry \in {away.registry, {}}
      /\ x # "registry" => away'.registry = away.registry
  <2>1. away' = away \/ away' = [away EXCEPT ![x] = Nothing[x]]
    BY DEF Clean
  <2> HIDE DEF Nothing
  <2> QED BY <1>1, <2>1 DEF Contents
<1>3. RestTyped'
  BY <1>2, FaultsTyped DEF Clean, ListedInv, TypeOK, RestTyped, DistributionTypeOK, cliVars
<1> QED BY <1>2, <1>3 DEF Clean, Waits

LEMMA CleanKeeps ==
  ASSUME ListedInv, CleanBackups \/ CleanRegistry
  PROVE  ListedInv'
<1>1. CASE CleanBackups
  <2>1. RestTyped' /\ Kept /\ Waits /\ Goto("cleanRegistry")
    BY <1>1, CleanTyped DEF CleanBackups, Kept
  <2>2. <<job.pc, "cleanRegistry">> \in Ways /\ "cleanRegistry" \in Pcs
    BY <1>1 DEF CleanBackups, Clean, At, Ways, Pcs
  <2> QED BY <2>1, <2>2, GotoKeeps
<1>2. CASE CleanRegistry
  <2>1. /\ RestTyped' /\ Waits /\ Goto("usage")
        /\ here' = here /\ keychain' = keychain /\ away'.registry \in {away.registry, {}}
    BY <1>2, CleanTyped DEF CleanRegistry
  <2>2. job' \in Jobs /\ Moves("usage") /\ job.pc = "cleanRegistry"
    BY <1>2, <2>1, GotoMoves DEF ListedInv, TypeOK, Pcs, CleanRegistry, Clean, At
  <2>3. Listing' /\ Position'
    BY <2>1, <2>2 DEF Waits, Moves, ListedInv, Position, Listing,
       CredentialsListed, KnownQuarantine, PurgeSteps, OtherSteps, SettingUp, Selecting,
       Removing, Cleaning, Purging
  <2> QED BY <2>1, <2>2, <2>3 DEF ListedInv, TypeOK, RestTyped
<1> QED BY <1>1, <1>2

LEMMA RemoveUsageKeeps ==
  ASSUME ListedInv, RemoveUsage
  PROVE  ListedInv'
<1>1. RestTyped' /\ Kept /\ Waits /\ (Goto("directory") \/ Abort)
  BY RemoveStoreTyped DEF RemoveUsage
<1>2. <<job.pc, "directory">> \in Ways /\ "directory" \in Pcs
  BY DEF RemoveUsage, RemoveStore, At, Ways, Pcs
<1> QED BY <1>1, <1>2, GotoKeeps, AbortKeeps

LEMMA RemoveDirectoryKeeps ==
  ASSUME ListedInv, RemoveDirectory
  PROVE  ListedInv'
<1>1. RestTyped' /\ Kept /\ Waits
  BY FaultsTyped DEF RemoveDirectory, NoFault, ListedInv, TypeOK, RestTyped,
     DistributionTypeOK, homeVars, cliVars, Kept, Waits
<1> QED BY <1>1, GotoKeeps, AbortKeeps DEF RemoveDirectory, Pcs

LEMMA CleanCliKeeps ==
  ASSUME ListedInv, CleanCli
  PROVE  ListedInv'
<1>1. DistributionTypeOK'
  BY PiecesTyped DEF CleanCli, ListedInv, TypeOK
<1>2. RestTyped'
  BY <1>1, FaultsTyped DEF CleanCli, ListedInv, TypeOK, RestTyped, homeVars
<1> QED BY <1>2, EndKeeps DEF CleanCli, homeVars, Kept, Waits

LEMMA UninstalledKeeps ==
  ASSUME ListedInv, Uninstalled
  PROVE  ListedInv'
<1>1. RestTyped'
  BY DEF Uninstalled, ListedInv, TypeOK, RestTyped, DistributionTypeOK, homeVars, cliVars
<1> QED BY <1>1, EndKeeps DEF Uninstalled, homeVars, Kept, Waits

LEMMA RemovalKeeps == ListedInv /\ Removal => ListedInv'
BY StartUninstallKeeps, StageKeeps, CheckKeeps, QuarantineRegistryKeeps, QuarantineBackupsKeeps,
   RecheckKeeps, DeleteCredentialKeeps, CredentialsDeletedKeeps, RemoveConfigKeeps,
   StopServiceKeeps, RemoveMetadataKeeps, RemoveRuntimeKeeps, CleanKeeps, RemoveUsageKeeps,
   RemoveDirectoryKeeps, CleanCliKeeps, UninstalledKeeps DEF Removal

(* A failed removal is undone.                                              *)

LEMMA RestoreTyped ==
  ASSUME ListedInv, NEW pc, NEW x \in {"backups", "registry"},
         NEW next \in {"restoreRegistry", "revalidate"}, Restore(pc, x, next)
  PROVE  /\ RestTyped' /\ Waits /\ job' \in Jobs /\ Moves(next) /\ keychain' = keychain
         /\ Restored(x) \/ UNCHANGED <<here, away>>
<1>1. plan \in Plans /\ job \in Jobs /\ next \in Pcs
  BY DEF ListedInv, TypeOK, Pcs
<1>2. PlanWaits
  BY <1>1, StoresTyped, TouchIfWaits DEF Restore
<1>3. here' \in Contents /\ away' \in Contents
  BY StoresTyped DEF Restore
<1>4. RestTyped'
  BY <1>2, <1>3, FaultsTyped DEF Restore, PlanWaits, ListedInv, TypeOK, RestTyped,
     DistributionTypeOK, cliVars
<1>5. job' \in Jobs /\ Moves(next)
  <2>1. Goto(next) => job' \in Jobs /\ Moves(next)
    BY <1>1, GotoMoves
  <2>2. ASSUME job' = [job EXCEPT !.pc = next, !.tidy = FALSE]
        PROVE  job' \in Jobs /\ Moves(next)
    BY <1>1, <2>2 DEF Jobs, Moves
  <2> QED BY <2>1, <2>2 DEF Restore
<1> QED BY <1>2, <1>4, <1>5 DEF Restore, PlanWaits, Waits

LEMMA RestoreBackupsKeeps ==
  ASSUME ListedInv, RestoreBackups
  PROVE  ListedInv'
<1>1. /\ RestTyped' /\ Waits /\ job' \in Jobs /\ Moves("restoreRegistry")
      /\ keychain' = keychain /\ (Restored("backups") \/ UNCHANGED <<here, away>>)
  BY RestoreTyped DEF RestoreBackups
<1>2. Kept
  BY <1>1, StoresTyped DEF Kept
<1>3. <<job.pc, "restoreRegistry">> \in Ways
  BY DEF RestoreBackups, Restore, At, Ways
<1> QED BY <1>1, <1>2, <1>3, MoveKeeps

LEMMA RestoreRegistryKeeps ==
  ASSUME ListedInv, RestoreRegistry
  PROVE  ListedInv'
<1>1. /\ RestTyped' /\ Waits /\ job' \in Jobs /\ Moves("revalidate")
      /\ keychain' = keychain /\ (Restored("registry") \/ UNCHANGED <<here, away>>)
  BY RestoreTyped DEF RestoreRegistry
<1>2. CASE UNCHANGED <<here, away>>
  BY <1>1, <1>2, MoveKeeps DEF Kept
<1>3. CASE Restored("registry")
  <2>1. here.registry = {} /\ job.pc = "restoreRegistry"
    BY DEF RestoreRegistry, Restore, At, ListedInv, Listing, PurgeSteps
  <2>2. here'.registry = away.registry /\ away'.registry = {}
    BY <1>3 DEF Restored, Nothing, ListedInv, TypeOK, Contents
  <2>3. Listing' /\ Position'
    BY <1>1, <2>1, <2>2 DEF Waits, Moves, ListedInv, Position, Listing,
       CredentialsListed, KnownQuarantine, PurgeSteps, OtherSteps, SettingUp, Selecting,
       Removing, Cleaning, Purging
  <2> QED BY <1>1, <2>3 DEF ListedInv, TypeOK, RestTyped
<1> QED BY <1>1, <1>2, <1>3

LEMMA RevalidateKeeps ==
  ASSUME ListedInv, Revalidate
  PROVE  ListedInv'
<1>1. DistributionTypeOK'
  BY PiecesTyped DEF Revalidate, ListedInv, TypeOK, cliVars, DistributionTypeOK
<1>2. RestTyped'
  BY <1>1, FaultsTyped DEF Revalidate, ListedInv, TypeOK, RestTyped, homeVars
<1>3. Kept /\ Waits
  BY DEF Revalidate, homeVars, Kept, Waits
<1> QED BY <1>2, <1>3, EndKeeps, GotoKeeps DEF Revalidate, Pcs

LEMMA UnstageKeeps ==
  ASSUME ListedInv, Unstage
  PROVE  ListedInv'
<1>1. /\ DistributionTypeOK /\ job \in Jobs /\ job.at \in 1..4 /\ job.pc = "unstage"
      /\ Len(Order) = 4
  BY DEF Unstage, At, ListedInv, TypeOK, Jobs, Order
<1>2. Order[job.at] \in {"launcher", "current", "versions", "receipt"}
  BY <1>1 DEF Order
<1>3. DistributionTypeOK'
  BY <1>1, <1>2, PiecesTyped DEF Unstage, cliVars, DistributionTypeOK
<1>4. RestTyped'
  BY <1>3, FaultsTyped DEF Unstage, ListedInv, TypeOK, RestTyped, homeVars
<1>5. Kept /\ Waits
  BY DEF Unstage, homeVars, Kept, Waits
<1>6. job.at - 1 \in 0..4
  BY <1>1
<1>7. job' \in Jobs /\ Moves("unstage")
  <2>1. ASSUME job' = [job EXCEPT !.at = @ - 1]
        PROVE  job' \in Jobs /\ Moves("unstage")
    BY <1>1, <1>6, <2>1 DEF Jobs, Moves
  <2>2. ASSUME job' = [job EXCEPT !.at = @ - 1, !.tidy = FALSE]
        PROVE  job' \in Jobs /\ Moves("unstage")
    BY <1>1, <1>6, <2>2 DEF Jobs, Moves
  <2> QED BY <2>1, <2>2 DEF Unstage
<1> QED BY <1>4, <1>5, <1>7, MoveKeeps

LEMMA UnstagedKeeps ==
  ASSUME ListedInv, Unstaged
  PROVE  ListedInv'
<1>1. DistributionTypeOK'
  BY PiecesTyped DEF Unstaged, ListedInv, TypeOK
<1>2. RestTyped'
  BY <1>1 DEF Unstaged, ListedInv, TypeOK, RestTyped, homeVars
<1> QED BY <1>2, EndKeeps DEF Unstaged, homeVars, Kept, Waits

LEMMA UnwindingKeeps == ListedInv /\ Unwinding => ListedInv'
BY RestoreBackupsKeeps, RestoreRegistryKeeps, RevalidateKeeps, UnstageKeeps, UnstagedKeeps
DEF Unwinding

(* Everybody else.                                                          *)

LEMMA OutdatesKeeps ==
  ASSUME ListedInv, NEW layers, RestTyped', Kept, plan' = Outdated(plan, layers),
         job' = [job EXCEPT !.plan = Outdated(@, layers)]
  PROVE  ListedInv'
<1>1. job \in Jobs /\ job.plan \in Plans /\ plan \in Plans
  BY DEF ListedInv, TypeOK, Jobs
<1>2. Waits
  BY <1>1, OutdatedTyped DEF Waits
<1>3. job' \in Jobs /\ Moves(job.pc) /\ job'.at = job.at
  BY <1>1, OutdatedTyped DEF Jobs, Moves
<1>4. job.pc = "stage" => job'.at < Len(Order)
  BY <1>3 DEF ListedInv, Position
<1> QED BY <1>2, <1>3, <1>4, MoveKeeps

LEMMA BridgeWritesKeeps ==
  ASSUME ListedInv, NEW x \in {"metadata", "usage"}, BridgeWrites(x)
  PROVE  ListedInv'
<1>1. here' \in Contents /\ here'.registry = here.registry /\ plan' \in Plans
  BY OutdatedTyped DEF BridgeWrites, ListedInv, TypeOK, Contents
<1>2. RestTyped' /\ Kept
  BY <1>1 DEF BridgeWrites, ListedInv, TypeOK, RestTyped, DistributionTypeOK, cliVars, Kept
<1> QED BY <1>2, OutdatesKeeps DEF BridgeWrites

LEMMA UserFileKeeps ==
  ASSUME ListedInv, UserFile
  PROVE  ListedInv'
<1>1. plan' \in Plans
  BY OutdatedTyped DEF UserFile, ListedInv, TypeOK
<1>2. RestTyped' /\ Kept
  BY <1>1, FaultsTyped
  DEF UserFile, ListedInv, TypeOK, RestTyped, DistributionTypeOK, cliVars, Kept
<1> QED BY <1>2, OutdatesKeeps DEF UserFile

LEMMA ResolveKeeps ==
  ASSUME ListedInv, Resolve
  PROVE  ListedInv'
<1>1. here \in Contents /\ away \in Contents /\ plan \in Plans
  BY DEF ListedInv, TypeOK
<1>2. /\ here' \in Contents /\ away' \in Contents
      /\ here'.registry = (IF here.registry = {} THEN away.registry ELSE here.registry)
      /\ away'.registry = (IF here.registry = {} THEN {} ELSE away.registry)
  <2>1. Nothing \in Contents /\ {} \in SUBSET Providers
    BY ConstantsTyped
  <2> HIDE DEF Nothing
  <2> QED BY <1>1, <2>1 DEF Resolve, Contents
<1>3. PlanWaits
  BY <1>1, TouchWaits DEF Resolve
<1>4. TypeOK'
  BY <1>2, <1>3 DEF Resolve, PlanWaits, ListedInv, TypeOK, DistributionTypeOK, cliVars
<1>5. Listing' /\ Position'
  BY <1>2, <1>3 DEF Resolve, Idle, PlanWaits, ListedInv, Position, Listing, CredentialsListed,
     KnownQuarantine, PurgeSteps, OtherSteps, SettingUp, Selecting, Removing, Cleaning, Purging
<1> QED BY <1>4, <1>5 DEF ListedInv

LEMMA CrashKeeps ==
  ASSUME ListedInv, Crash
  PROVE  ListedInv'
<1>1. DistributionTypeOK'
  BY PiecesTyped DEF Crash, ListedInv, TypeOK
<1>2. RestTyped'
  BY <1>1, FaultsTyped DEF Crash, ListedInv, TypeOK, RestTyped, homeVars
<1> QED BY <1>2, EndKeeps DEF Crash, homeVars, Kept, Waits

LEMMA EnvironmentKeeps == ListedInv /\ Environment => ListedInv'
BY BridgeWritesKeeps, UserFileKeeps, ResolveKeeps, CrashKeeps DEF Environment

LEMMA NextKeeps == ListedInv /\ [Next]_vars => ListedInv'
<1>1. ListedInv /\ Next => ListedInv'
  BY PlanSetupKeeps, PlanRemovalKeeps, BeginKeeps, RefuseKeeps, SetupKeeps, CredentialKeeps,
     RemovalKeeps, UnwindingKeeps, EnvironmentKeeps DEF Next
<1>2. ListedInv /\ UNCHANGED vars => ListedInv'
  BY DEF ListedInv, TypeOK, DistributionTypeOK, Position, Listing, CredentialsListed,
     KnownQuarantine, PurgeSteps, OtherSteps, Purging, vars, homeVars, cliVars
<1> QED BY <1>1, <1>2

-----------------------------------------------------------------------------
(* The theorems.                                                            *)

\* The strengthened invariant holds whatever commands run, fail or die.
THEOREM RemovalInvariant == Spec => []ListedInv
BY ListingStarts, NextKeeps, PTL DEF Spec

\* Every command and every state it leaves on the way is well typed.
THEOREM RemovalTyped == Spec => []TypeOK
<1>1. ListedInv => TypeOK
  BY DEF ListedInv
<1> QED BY <1>1, RemovalInvariant, PTL

\* No Keychain item PickerMux wrote is ever lost from sight: whatever purge,
\* credential command or setup failed or died at whatever step, the registry
\* or its quarantine lists the item, for every set of providers and versions
\* and any number of faults.
THEOREM CredentialsAlwaysListed == Spec => []CredentialsListed
<1>1. ListedInv => CredentialsListed
  BY DEF ListedInv, Listing
<1> QED BY <1>1, RemovalInvariant, PTL
=============================================================================
