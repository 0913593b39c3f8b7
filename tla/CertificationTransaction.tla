---------------------- MODULE CertificationTransaction ----------------------
(***************************************************************************)
(* How a model earns and loses tool authority: runCertificationTransaction *)
(* and refresh of src/cli.mjs (one CLI process at a time, the installation *)
(* lock), the bridge process with its route registry and its catalog       *)
(* synchronizer (src/catalog-sync.mjs), the certification store they       *)
(* share, and the models the providers really have loaded.                 *)
(*                                                                         *)
(* The CLI and the bridge are two operating-system processes that share    *)
(* three files and nothing else: models.json (catalog), certifications.json*)
(* (store) and, through launchd, the bridge's life.  Either may die between*)
(* any two steps.                                                          *)
(***************************************************************************)
EXTENDS CertificationStore, FiniteSets

CONSTANTS
    Mlx,          \* models of an mlx-chat-completions provider
    MaxFaults,    \* crashes, failed steps and failed probes in a behaviour
    MaxSubjects,  \* configurations a model may have, each a subject of its own
    MaxChanges    \* changes of a configuration in a behaviour, back ones too

ASSUME BoundAssumption ==
    /\ Mlx \subseteq Models
    /\ MaxFaults \in Nat
    /\ MaxSubjects \in Nat
    /\ MaxChanges \in Nat

VARIABLES
    world,     \* the providers: config[m], loaded; spent faults and changes
    store,     \* certifications.json
    catalog,   \* models.json, as the claim it makes for every external model
    bridge,    \* the bridge process launchd runs
    requests,  \* Desktop requests inside the bridge process
    pc,        \* next step of the CLI process, "idle" when none runs
    job,       \* local variables of the CLI process
    evidence   \* history: subjects live at both ends of a passed probe run

vars == <<world, store, catalog, bridge, requests, pc, job, evidence>>

Catalogs == [Models -> Claims]
Nothing  == [m \in Models |-> "absent"]

(* discoverBridgeModels: the subject of every model the providers report.   *)
Seen == [m \in Models |-> IF m \in world.loaded THEN world.config[m]
                                                ELSE NoReceipt]

(* buildBridgeStartupRegistry: routes follow the catalog file, except that  *)
(* the claim of an MLX model is cut to what the store grants the live model.*)
StartupClaim(m) ==
    LET grant == Claim(store, m, Seen[m])
    IN  CASE m \notin Mlx \/ ~ToolClaim(catalog[m])        -> catalog[m]
          [] m \in Mlx /\ ToolClaim(catalog[m]) /\ ~ToolClaim(grant) -> "text"
          [] m \in Mlx /\ ToolClaim(catalog[m]) /\ grant = "direct"  -> "direct"
          [] OTHER                                         -> catalog[m]

NoBridge == [up |-> FALSE, phase |-> "idle",
             routes |-> Nothing, current |-> Nothing, plan |-> Nothing]

Jobs == [goal     : {"plain", "authority", "conservative", "final", "recovery"},
         targets  : SUBSET Models,   \* targetModelIds
         absent   : SUBSET Models,   \* recoveryModelIds
         exact    : BOOLEAN,         \* exactModelSet
         directOnly : BOOLEAN,
         confirmed : BOOLEAN,        \* conservativePublicationConfirmed
         cleared  : BOOLEAN,         \* deactivationCleared
         seen     : [Models -> Nat], \* externalModels of the last refresh
         plan     : Catalogs,        \* catalog the refresh publishes
         previous : Catalogs,        \* catalog it restores on failure
         rebound  : [Models -> Nat], \* subjects the transaction binds to
         todo     : SUBSET Models,   \* models not yet probed
         model    : SUBSET Models,   \* the model being probed (at most one)
         first    : Nat]             \* history: its subject as the run began

NoJob == [goal |-> "plain", targets |-> {}, absent |-> {}, exact |-> FALSE,
          directOnly |-> FALSE,
          confirmed |-> FALSE, cleared |-> FALSE,
          seen |-> [m \in Models |-> NoReceipt],
          plan |-> Nothing, previous |-> Nothing,
          rebound |-> [m \in Models |-> NoReceipt],
          todo |-> {}, model |-> {}, first |-> NoReceipt]

Init ==
    /\ \E loaded \in SUBSET Models :
          /\ Mlx \subseteq loaded
          /\ world = [config |-> [m \in Models |-> 1], loaded |-> loaded,
                      faults |-> 0, changes |-> 0]
          /\ catalog = [m \in Models |-> IF m \in loaded THEN "text" ELSE "absent"]
    /\ store = EmptyStore
    /\ bridge = [NoBridge EXCEPT !.up = TRUE, !.routes = catalog,
                                 !.current = catalog, !.plan = catalog]
    /\ requests = {}
    /\ pc = "idle"
    /\ job = NoJob
    /\ evidence = [direct |-> {}, search |-> {}]

-----------------------------------------------------------------------------
(* The providers. *)

Fault == world.faults < MaxFaults
SpendFault == world' = [world EXCEPT !.faults = @ + 1]

(* History.  A run that has passed is evidence for the subject it began     *)
(* with as soon as that subject is live, at its end or until it is recorded.*)
Again(seen) == {<<m, seen[m]>> : m \in {x \in job.model : seen[x] = job.first}}

Confirmed(seen) ==
    CASE pc = "probed"   -> [evidence EXCEPT !.direct = @ \cup Again(seen)]
      [] pc = "searched" -> [evidence EXCEPT !.search = @ \cup Again(seen)]
      [] OTHER           -> evidence

(* The user changes the configuration of a model (context window, reasoning *)
(* or capability metadata, address).  A subject's fingerprint has no nonce: *)
(* a configuration that is changed back is the earlier subject again.       *)
Reconfigure(m) ==
    /\ world.changes < MaxChanges
    /\ \E s \in (1..MaxSubjects) \ {world.config[m]} :
          world' = [world EXCEPT !.config = [@ EXCEPT ![m] = s],
                                 !.changes = @ + 1]
    /\ evidence' = Confirmed(Seen')
    /\ UNCHANGED <<store, catalog, bridge, requests, pc, job>>

(* LM Studio loads or unloads a model.  MLX models are configured: when one *)
(* is not served, discovery throws, which is a failed step below.           *)
Toggle(m) ==
    /\ Fault
    /\ m \notin Mlx
    /\ world' = [world EXCEPT !.faults = @ + 1,
                              !.loaded = IF m \in @ THEN @ \ {m} ELSE @ \cup {m}]
    /\ evidence' = Confirmed(Seen')
    /\ UNCHANGED <<store, catalog, bridge, requests, pc, job>>

Environment == \E m \in Models : Reconfigure(m) \/ Toggle(m)

-----------------------------------------------------------------------------
(* The bridge process. *)

(* launchd (KeepAlive, or kickstart) starts the process, which reads the    *)
(* catalog file into its registry and into the synchronizer.                *)
BridgeStart ==
    /\ ~bridge.up
    /\ bridge' = [up |-> TRUE, phase |-> "idle",
                  routes |-> [m \in Models |-> StartupClaim(m)],
                  current |-> catalog, plan |-> catalog]
    /\ UNCHANGED <<world, store, catalog, requests, pc, job, evidence>>

BridgeCrash ==
    /\ Fault
    /\ bridge.up
    /\ SpendFault
    /\ bridge' = NoBridge
    /\ requests' = {}
    /\ UNCHANGED <<store, catalog, pc, job, evidence>>

SyncStep(from, to) ==
    /\ bridge.phase = from
    /\ bridge' = [bridge EXCEPT !.phase = to]
    /\ UNCHANGED <<world, store, catalog, requests, pc, job, evidence>>

(* syncBridgeCatalog discovers, reads the store and builds the next pair.   *)
(* A cycle whose plan equals both published halves changes nothing and is   *)
(* not taken.                                                               *)
SyncBuild ==
    /\ bridge.up
    /\ bridge.phase = "idle"
    /\ \/ BuildCatalog(store, Seen) # bridge.routes
       \/ BuildCatalog(store, Seen) # bridge.current
    /\ bridge' = [bridge EXCEPT !.phase = "built",
                                !.plan = BuildCatalog(store, Seen)]
    /\ UNCHANGED <<world, store, catalog, requests, pc, job, evidence>>

(* The two guards around the selection reconciliation; a plan equal to the  *)
(* synchronizer's own catalog is not written again.                         *)
SyncFirstGuard == NonePending(store) /\ SyncStep("built", "reconciled")
SyncSecondGuard ==
    /\ NonePending(store)
    /\ SyncStep("reconciled",
                IF bridge.plan = bridge.current THEN "written" ELSE "writing")

SyncWrite ==
    /\ bridge.phase = "writing"
    /\ catalog' = bridge.plan
    /\ bridge' = [bridge EXCEPT !.phase = "written"]
    /\ UNCHANGED <<world, store, requests, pc, job, evidence>>

(* The last guard reads the store file; the registry is replaced without a  *)
(* further await, but another process may write the store in between.       *)
SyncLastGuard == NonePending(store) /\ SyncStep("written", "publishing")

SyncPublish ==
    /\ bridge.phase = "publishing"
    /\ bridge' = [bridge EXCEPT !.phase = "idle", !.routes = bridge.plan,
                                !.current = bridge.plan]
    /\ UNCHANGED <<world, store, catalog, requests, pc, job, evidence>>

(* A guard that fails before the write abandons the cycle, after the write  *)
(* it restores the synchronizer's catalog, but only over its own write.     *)
SyncAbandon ==
    /\ ~NonePending(store)
    /\ \/ bridge.phase \in {"built", "reconciled"}
       \/ bridge.phase = "written" /\ bridge.plan = bridge.current
    /\ SyncStep(bridge.phase, "idle")

SyncRevert ==
    /\ ~NonePending(store)
    /\ bridge.plan # bridge.current
    /\ SyncStep("written", "reverting")

(* assertCatalogStillCurrent, then the rename: another process may publish  *)
(* between the two.                                                         *)
SyncRevertCheck ==
    SyncStep("reverting", IF catalog = bridge.plan THEN "restoring" ELSE "idle")

(* Faulty variant: the cycle is never released. *)
SyncRestoreHeld ==
    /\ bridge.phase = "restoring"
    /\ catalog' = bridge.current
    /\ bridge' = [bridge EXCEPT !.phase = "restored"]
    /\ UNCHANGED <<world, store, requests, pc, job, evidence>>

SyncRestore ==
    /\ bridge.phase = "restoring"
    /\ catalog' = bridge.current
    /\ bridge' = [bridge EXCEPT !.phase = "idle"]
    /\ UNCHANGED <<world, store, requests, pc, job, evidence>>

Sync == \/ SyncBuild \/ SyncFirstGuard \/ SyncSecondGuard \/ SyncWrite
        \/ SyncLastGuard \/ SyncPublish
        \/ SyncAbandon \/ SyncRevert \/ SyncRevertCheck \/ SyncRestore

-----------------------------------------------------------------------------
(* Desktop requests: createResponsesProxy resolves the route, awaits the    *)
(* certification gate, then relays with the route it resolved.              *)

Resolve(m) ==
    /\ bridge.up
    /\ bridge.routes[m] # "absent"
    /\ requests' = requests \cup
          {[model |-> m, claim |-> bridge.routes[m], sent |-> FALSE]}
    /\ UNCHANGED <<world, store, catalog, bridge, pc, job, evidence>>

Admit(r) ==
    /\ r \in requests
    /\ ~r.sent
    /\ requests' = (requests \ {r}) \cup
          (IF RequestAllowed(store, r.model, r.claim)
           THEN {[r EXCEPT !.sent = TRUE]} ELSE {})
    /\ UNCHANGED <<world, store, catalog, bridge, pc, job, evidence>>

Complete(r) ==
    /\ r \in requests
    /\ r.sent
    /\ requests' = requests \ {r}
    /\ UNCHANGED <<world, store, catalog, bridge, pc, job, evidence>>

Proxy == \/ \E m \in Models : Resolve(m)
         \/ \E r \in requests : Admit(r) \/ Complete(r)

-----------------------------------------------------------------------------
(* The CLI process: starting a command. *)

Begin(goal, changes) ==
    /\ pc' = "build"
    /\ job' = [changes EXCEPT !.goal = goal]

Finish == pc' = "idle" /\ job' = NoJob

(* certify: the whole discovered set, one model, or (installation) every    *)
(* model that has no valid receipt; pending models that are gone are        *)
(* recovered by the same command.  It wants a healthy bridge.               *)
Requested(all, onlyUncertified, m) ==
    LET found == {x \in Models : Seen[x] # NoReceipt}
    IN  CASE ~all            -> {m} \cap found
          [] onlyUncertified -> {x \in found : Status(store, x, Seen[x]) # "valid"}
          [] OTHER           -> found

(* Faulty variant: pending models that are gone are not recovered. *)
RecoveredNever(all, m) == {x \in {m} : FALSE}

Recovered(all, m) ==
    {x \in store.pending : Seen[x] = NoReceipt} \cap (IF all THEN Models ELSE {m})

StartCertify(all, onlyUncertified, directOnly, m) ==
    /\ pc = "idle"
    /\ bridge.up
    /\ onlyUncertified => all /\ ~directOnly
    /\ Requested(all, onlyUncertified, m) \cup Recovered(all, m) # {}
    /\ Begin("authority",
             [NoJob EXCEPT !.targets = Requested(all, onlyUncertified, m),
                           !.absent = Recovered(all, m),
                           !.exact = all /\ ~onlyUncertified,
                           !.directOnly = directOnly])
    /\ UNCHANGED <<world, store, catalog, bridge, requests, evidence>>

(* pickermux refresh *)
StartRefresh ==
    /\ pc = "idle"
    /\ Begin("plain", NoJob)
    /\ UNCHANGED <<world, store, catalog, bridge, requests, evidence>>

-----------------------------------------------------------------------------
(* refresh, the routine every phase of the transaction publishes with. *)

Build ==
    /\ pc = "build"
    /\ pc' = "write"
    /\ job' = [job EXCEPT !.seen = Seen, !.previous = catalog,
                          !.plan = BuildCatalog(store, Seen)]
    /\ UNCHANGED <<world, store, catalog, bridge, requests, evidence>>

WriteCatalog ==
    /\ pc = "write"
    /\ catalog' = job.plan
    /\ pc' = "restart"
    /\ UNCHANGED <<world, store, bridge, requests, job, evidence>>

(* Faulty variant: the service is started again without killing the process *)
(* that runs: its requests drain on.                                        *)
RestartDraining ==
    /\ pc \in {"restart", "restoreRestart"}
    /\ bridge' = NoBridge
    /\ pc' = IF pc = "restart" THEN "await" ELSE "restoreAwait"
    /\ UNCHANGED <<world, store, catalog, requests, job, evidence>>

(* launchctl kickstart -k: the running process and everything in it is gone *)
(* before launchd starts the next one.                                      *)
Restart ==
    /\ pc \in {"restart", "restoreRestart"}
    /\ bridge' = NoBridge
    /\ requests' = {}
    /\ pc' = IF pc = "restart" THEN "await" ELSE "restoreAwait"
    /\ UNCHANGED <<world, store, catalog, job, evidence>>

Await ==
    /\ pc = "await"
    /\ bridge.up
    /\ pc' = "verify"
    /\ UNCHANGED <<world, store, catalog, bridge, requests, job, evidence>>

Verified ==
    /\ pc = "verify"
    /\ CASE job.goal \in {"plain", "final"} -> Finish
          [] job.goal = "authority"     -> pc' = "checkAuthority" /\ job' = job
          [] job.goal = "conservative"  -> pc' = "checkConservative" /\ job' = job
          [] job.goal = "recovery"      -> pc' = "abandon" /\ job' = job
    /\ UNCHANGED <<world, store, catalog, bridge, requests, evidence>>

(* A refresh that fails before the service package is staged changed        *)
(* nothing; its caller has no further recovery of its own.                  *)
RefreshStops ==
    /\ Fault
    /\ pc \in {"build", "write"}
    /\ SpendFault
    /\ Finish
    /\ UNCHANGED <<store, catalog, bridge, requests, evidence>>

RefreshFails ==
    /\ Fault
    /\ pc \in {"write", "restart", "await", "verify"}
    /\ SpendFault
    /\ pc' = "restore"
    /\ UNCHANGED <<store, catalog, bridge, requests, job, evidence>>

(* restoreRefreshState: the snapshot taken before the build is written      *)
(* back, or that write fails too; the bridge is restarted either way.       *)
Restore ==
    /\ pc = "restore"
    /\ pc' = "restoreRestart"
    /\ \/ catalog' = job.previous /\ UNCHANGED world
       \/ Fault /\ SpendFault /\ UNCHANGED catalog
    /\ UNCHANGED <<store, bridge, requests, job, evidence>>

Restored ==
    /\ pc = "restoreAwait"
    /\ bridge.up
    /\ Finish
    /\ UNCHANGED <<world, store, catalog, bridge, requests, evidence>>

Refresh == \/ Build \/ WriteCatalog \/ Restart \/ Await \/ Verified
           \/ Restore \/ Restored

-----------------------------------------------------------------------------
(* runCertificationTransaction. *)

(* selectCertificationModels *)
Selected(seen) ==
    /\ \A m \in job.targets : seen[m] # NoReceipt
    /\ job.exact => \A m \in Models : seen[m] # NoReceipt => m \in job.targets

(* assertMatchingCertificationSubjects against a new discovery *)
Matching(ids) == \A m \in ids : Seen[m] = job.rebound[m]

(* The catch block: once the conservative catalog is confirmed, publish it  *)
(* again and lift the barrier; before that the barrier stays for a retry.   *)
Abort ==
    IF job.confirmed /\ ~job.cleared
    THEN Begin("recovery", [job EXCEPT !.todo = {}, !.model = {},
                                       !.first = NoReceipt])
    ELSE Finish

StoreStep(from, next) ==
    /\ pc = from
    /\ store' = next
    /\ UNCHANGED <<world, catalog, bridge, requests, evidence>>

CheckAuthority ==
    /\ pc = "checkAuthority"
    /\ LET gone == \A m \in job.absent : job.seen[m] = NoReceipt /\ catalog[m] = "absent"
       IN  CASE job.targets # {} /\ ~Selected(job.seen) -> Finish
             [] (job.targets = {} \/ Selected(job.seen)) /\ job.absent # {} ->
                    IF gone THEN pc' = "clearAbsent" /\ job' = job ELSE Finish
             [] OTHER -> pc' = "stage" /\ job' = job
    /\ UNCHANGED <<world, store, catalog, bridge, requests, evidence>>

ClearAbsent ==
    /\ StoreStep("clearAbsent", Clear(store, job.absent))
    /\ IF job.targets = {} THEN Finish ELSE pc' = "stage" /\ job' = job

StageTargets ==
    /\ StoreStep("stage", Stage(store, job.targets))
    /\ Begin("conservative", job)

(* Faulty variant: the refresh is trusted, the file is not read back. *)
CheckConservativeUnread ==
    /\ pc = "checkConservative"
    /\ IF Selected(job.seen)
       THEN /\ pc' = "revalidate"
            /\ job' = [job EXCEPT !.confirmed = TRUE, !.rebound = job.seen]
       ELSE Finish
    /\ UNCHANGED <<world, store, catalog, bridge, requests, evidence>>

(* The conservative catalog is read back from the file that is live now.    *)
CheckConservative ==
    /\ pc = "checkConservative"
    /\ IF Selected(job.seen) /\ \A m \in job.targets : catalog[m] = "text"
       THEN /\ pc' = "revalidate"
            /\ job' = [job EXCEPT !.confirmed = TRUE, !.rebound = job.seen]
       ELSE Finish
    /\ UNCHANGED <<world, store, catalog, bridge, requests, evidence>>

Revalidate ==
    /\ pc = "revalidate"
    /\ IF Selected(Seen) /\ Matching(job.targets)
       THEN pc' = "commit" /\ job' = job ELSE Abort
    /\ UNCHANGED <<world, store, catalog, bridge, requests, evidence>>

CommitTargets ==
    /\ CommitAllowed(store, job.targets)
    /\ StoreStep("commit", Commit(store, job.targets))
    /\ pc' = "next"
    /\ job' = [job EXCEPT !.todo = job.targets]

(* Every probe run is bracketed by two revalidations of its subject.        *)
NextModel(m) ==
    /\ pc = "next"
    /\ m \in job.todo
    /\ IF Matching({m})
       THEN /\ pc' = "probe"
            /\ job' = [job EXCEPT !.model = {m}, !.first = Seen[m]]
       ELSE Abort
    /\ UNCHANGED <<world, store, catalog, bridge, requests, evidence>>

(* The probes are requests with the certification token through the bridge; *)
(* a bridge that is down, an unknown route or the request gate refuses them.*)
ProbeAccepted(m) ==
    bridge.up /\ bridge.routes[m] # "absent" /\ ProbeAllowed(store, m)

Probe(m) ==
    /\ pc = "probe"
    /\ m \in job.model
    /\ IF ProbeAccepted(m)
       THEN /\ pc' = "probed"
            /\ job' = job
            /\ evidence' = [evidence EXCEPT !.direct = @ \cup Again(Seen)]
       ELSE Abort /\ UNCHANGED evidence
    /\ UNCHANGED <<world, store, catalog, bridge, requests>>

(* Faulty variant: the passed run is recorded without a second look. *)
RevalidateProbedBlindly(m) ==
    /\ pc = "probed"
    /\ m \in job.model
    /\ pc' = "record"
    /\ UNCHANGED <<world, store, catalog, bridge, requests, job, evidence>>

RevalidateProbed(m) ==
    /\ pc = "probed"
    /\ m \in job.model
    /\ IF Matching({m}) THEN pc' = "record" /\ job' = job ELSE Abort
    /\ UNCHANGED <<world, store, catalog, bridge, requests, evidence>>

NextTodo(m) == [job EXCEPT !.todo = @ \ {m}, !.model = {}, !.first = NoReceipt]

Record(m) ==
    /\ m \in job.model
    /\ StoreStep("record", RecordPassed(store, m, job.rebound[m]))
    /\ IF m \in Searchable /\ ~job.directOnly
       THEN pc' = "searchCheck" /\ job' = job
       ELSE pc' = "next" /\ job' = NextTodo(m)

RevalidateSearch(m) ==
    /\ pc = "searchCheck"
    /\ m \in job.model
    /\ IF Matching({m})
       THEN /\ pc' = "searchProbe"
            /\ job' = [job EXCEPT !.first = Seen[m]]
       ELSE Abort
    /\ UNCHANGED <<world, store, catalog, bridge, requests, evidence>>

(* The additive probe may be refused or fail: the Direct receipt stands. *)
ProbeSearch(m) ==
    /\ pc = "searchProbe"
    /\ m \in job.model
    /\ IF ProbeAccepted(m)
       THEN /\ pc' = "searched"
            /\ job' = job
            /\ evidence' = [evidence EXCEPT !.search = @ \cup Again(Seen)]
       ELSE /\ pc' = "next"
            /\ job' = NextTodo(m)
            /\ UNCHANGED evidence
    /\ UNCHANGED <<world, store, catalog, bridge, requests>>

SearchFails(m) ==
    /\ Fault
    /\ pc = "searchProbe"
    /\ m \in job.model
    /\ SpendFault
    /\ pc' = "next"
    /\ job' = NextTodo(m)
    /\ UNCHANGED <<store, catalog, bridge, requests, evidence>>

RevalidateSearched(m) ==
    /\ pc = "searched"
    /\ m \in job.model
    /\ IF Matching({m}) THEN pc' = "recordSearch" /\ job' = job ELSE Abort
    /\ UNCHANGED <<world, store, catalog, bridge, requests, evidence>>

RecordSearchGate(m) ==
    /\ pc = "recordSearch"
    /\ m \in job.model
    /\ IF RecordSearchAllowed(store, m, job.rebound[m])
       THEN store' = RecordSearch(store, m) /\ pc' = "next" /\ job' = NextTodo(m)
       ELSE Abort /\ UNCHANGED store
    /\ UNCHANGED <<world, catalog, bridge, requests, evidence>>

RevalidateAll ==
    /\ pc = "next"
    /\ job.todo = {}
    /\ IF Selected(Seen) /\ Matching(job.targets)
       THEN pc' = "clear" /\ job' = job ELSE Abort
    /\ UNCHANGED <<world, store, catalog, bridge, requests, evidence>>

ClearTargets ==
    /\ StoreStep("clear", Clear(store, job.targets))
    /\ Begin("final", [job EXCEPT !.cleared = TRUE])

AbandonTargets ==
    /\ StoreStep("abandon", Clear(store, job.targets))
    /\ Finish

(* A discovery that throws, or a mandatory probe that fails. *)
StepFails ==
    /\ Fault
    /\ pc \in {"revalidate", "commit", "next", "probe", "probed", "searchCheck",
               "searched", "recordSearch", "clear"}
    /\ SpendFault
    /\ Abort
    /\ UNCHANGED <<store, catalog, bridge, requests, evidence>>

Certify ==
    \/ CheckAuthority \/ ClearAbsent \/ StageTargets \/ CheckConservative
    \/ Revalidate \/ CommitTargets \/ RevalidateAll \/ ClearTargets
    \/ AbandonTargets
    \/ \E m \in Models :
          \/ NextModel(m) \/ Probe(m) \/ RevalidateProbed(m) \/ Record(m)
          \/ RevalidateSearch(m) \/ ProbeSearch(m)
          \/ RevalidateSearched(m) \/ RecordSearchGate(m)

(* The CLI process is killed: only what it wrote to disk survives.          *)
CliCrash ==
    /\ Fault
    /\ pc # "idle"
    /\ SpendFault
    /\ Finish
    /\ UNCHANGED <<store, catalog, bridge, requests, evidence>>

Start == \/ StartRefresh
         \/ \E all, onlyUncertified, directOnly \in BOOLEAN, m \in Models :
               StartCertify(all, onlyUncertified, directOnly, m)

CliFaults == \/ RefreshStops \/ RefreshFails \/ StepFails \/ CliCrash
             \/ \E m \in Models : SearchFails(m)

Next == \/ Environment \/ BridgeStart \/ BridgeCrash \/ Sync \/ Proxy
        \/ Start \/ Refresh \/ Certify \/ CliFaults

Spec == Init /\ [][Next]_vars

-----------------------------------------------------------------------------
(* Correctness. *)

Phases == {"idle", "built", "reconciled", "writing", "written", "publishing",
           "reverting", "restoring"}

Steps == {"idle", "build", "write", "restart", "await", "verify", "restore",
          "restoreRestart", "restoreAwait", "checkAuthority", "clearAbsent",
          "stage", "checkConservative", "revalidate", "commit", "next", "probe",
          "probed", "record", "searchCheck", "searchProbe", "searched",
          "recordSearch", "clear", "abandon"}

Worlds == [config : [Models -> Nat], loaded : SUBSET Models,
           faults : Nat, changes : Nat]

Bridges == [up : BOOLEAN, phase : Phases, routes : Catalogs,
            current : Catalogs, plan : Catalogs]

(* Every file and variable has the shape the code gives it. *)
TypeOK ==
    /\ world \in Worlds
    /\ store \in Stores
    /\ catalog \in Catalogs
    /\ bridge \in Bridges
    /\ requests \subseteq [model : Models, claim : Claims, sent : BOOLEAN]
    /\ pc \in Steps
    /\ job \in Jobs
    /\ evidence \in [direct : SUBSET (Models \X Nat), search : SUBSET (Models \X Nat)]

(* Tool authority is backed everywhere at once: whatever the catalog file,  *)
(* the live routes or a request already on its way to a provider claims for *)
(* a model, the store still holds the receipt that claim was earned with.   *)
(* No interleaving of a transaction, a catalog synchronization begun before *)
(* it, a rollback, a crash or a restart leaves a claim without its receipt. *)
ClaimsBacked ==
    /\ \A m \in Models : /\ Backed(store, m, catalog[m])
                         /\ Backed(store, m, bridge.routes[m])
    /\ \A r \in requests : r.sent => Backed(store, r.model, r.claim)

(* While a model may be probed it has no other tool authority: the picker   *)
(* and the live routes are text-only and no Desktop request for it is on    *)
(* its way, so a probe never shares the model with an agent turn.           *)
ProbeWindowExclusive ==
    \A m \in store.auth :
        /\ ~ToolClaim(catalog[m])
        /\ ~ToolClaim(bridge.routes[m])
        /\ \A r \in requests : r.model = m => ~r.sent

(* A receipt is evidence, however often the user reconfigures, unloads and  *)
(* reloads the model: the subject it names was live when a run of its probes*)
(* began and was live once more after that run had passed, and the          *)
(* toolSearch gate was earned by the same subject in the same way.  A run   *)
(* during which nothing changed therefore probed the very subject; one      *)
(* during which the model was changed and changed back probed, in part,     *)
(* another one, and its receipt is recorded all the same.                   *)
ReceiptsEarned ==
    \A m \in Models :
        /\ store.receipts[m] # NoReceipt => <<m, store.receipts[m]>> \in evidence.direct
        /\ m \in store.search => <<m, store.receipts[m]>> \in evidence.search

(* The publication barrier of a model is only lifted over a text-only or    *)
(* absent publication: a reader that comes right after sees no stale tool   *)
(* claim.                                                                   *)
BarrierLiftedOverText ==
    [][\A m \in store.pending \ store'.pending :
          ~ToolClaim(catalog[m]) /\ ~ToolClaim(bridge.routes[m])]_vars

(* The transaction implements ToolAuthority: a receipt is a grant, a probe  *)
(* authorization is an open window, and a tool claim in the catalog file,   *)
(* in the live routes or in a request on its way is exposure.               *)
Exposed == {m \in Models :
               \/ ToolClaim(catalog[m])
               \/ ToolClaim(bridge.routes[m])
               \/ \E r \in requests : r.model = m /\ r.sent /\ ToolClaim(r.claim)}

Authority == INSTANCE ToolAuthority WITH
    granted <- {m \in Models : store.receipts[m] # NoReceipt},
    window  <- store.auth,
    exposed <- Exposed

ImplementsToolAuthority == Authority!Spec

-----------------------------------------------------------------------------
(* Liveness.  launchd keeps the bridge alive, the CLI process runs until it *)
(* finishes or dies, and the user who was told that certification "remains  *)
(* blocked pending recovery; retry the same certify command" does retry.    *)
Retry == \E m \in Models : StartCertify(TRUE, FALSE, FALSE, m)

FairSpec ==
    /\ Spec
    /\ WF_vars(BridgeStart)
    /\ WF_vars(Refresh \/ Certify)
    /\ SF_vars(Retry)

(* A barrier is never permanent: whatever failed, crashed or was unloaded   *)
(* while it was up, retrying certification lifts it.                        *)
BarrierLifted == \A m \in Models : m \in store.pending ~> m \notin store.pending
=============================================================================
