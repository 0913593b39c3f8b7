------------------------ MODULE CertificationProofs ------------------------
(***************************************************************************)
(* Theorems about CertificationTransaction for every set of models and     *)
(* every bound.                                                            *)
(***************************************************************************)
EXTENDS CertificationInvariant, TLAPS

-----------------------------------------------------------------------------
(* Lemmas about the store and the catalogs built from it. *)

(* Every catalog the code builds makes a legal claim for every model. *)
LEMMA ClaimType ==
    ASSUME NEW s, NEW m, NEW subject
    PROVE  Claim(s, m, subject) \in Claims
BY DEF Claim, Claims

LEMMA BuildType ==
    ASSUME NEW s, NEW seen
    PROVE  BuildCatalog(s, seen) \in Catalogs
BY ClaimType DEF BuildCatalog, Catalogs

LEMMA StartupType ==
    ASSUME catalog \in Catalogs
    PROVE  [m \in Models |-> StartupClaim(m)] \in Catalogs
BY DEF StartupClaim, Catalogs, Claims, ToolClaim

LEMMA WorldUpdate ==
    ASSUME NEW w \in Worlds, NEW k \in Nat, NEW l \in SUBSET Models
    PROVE  [w EXCEPT !.faults = k, !.loaded = l] \in Worlds
BY DEF Worlds

LEMMA ConfigUpdate ==
    ASSUME NEW w \in Worlds, NEW k \in Nat, NEW m \in Models, NEW s \in Nat
    PROVE  [w EXCEPT !.config = [@ EXCEPT ![m] = s], !.changes = k] \in Worlds
BY DEF Worlds

LEMMA SpendFaultType ==
    ASSUME TypeOK, SpendFault
    PROVE  world' \in Worlds
BY DEF TypeOK, SpendFault, Worlds

LEMMA NothingType == Nothing \in Catalogs
BY DEF Nothing, Catalogs, Claims

LEMMA SeenType ==
    ASSUME TypeOK
    PROVE  Seen \in [Models -> Nat]
BY DEF TypeOK, Worlds, Seen, NoReceipt

LEMMA NoBridgeType == NoBridge \in Bridges
BY NothingType DEF NoBridge, Phases, Bridges

LEMMA NoJobType == NoJob \in Jobs
BY NothingType DEF NoJob, Jobs, NoReceipt

(* The store operators map stores to stores. *)
LEMMA BarrierTypes ==
    ASSUME NEW s \in Stores, NEW ids \in SUBSET Models
    PROVE  /\ Stage(s, ids) \in Stores
           /\ Commit(s, ids) \in Stores
           /\ Clear(s, ids) \in Stores
<1>1. Stage(s, ids) \in Stores
  BY DEF Stage, Stores
<1>2. Commit(s, ids) \in Stores
  BY DEF Commit, Stores, NoReceipt
<1>3. Clear(s, ids) \in Stores
  BY DEF Clear, Stores
<1> QED
  BY <1>1, <1>2, <1>3

LEMMA ReceiptTypes ==
    ASSUME NEW s \in Stores, NEW m \in Models, NEW subject \in Nat
    PROVE  /\ RecordPassed(s, m, subject) \in Stores
           /\ RecordSearch(s, m) \in Stores
<1>1. RecordPassed(s, m, subject) \in Stores
  BY DEF RecordPassed, Stores
<1>2. RecordSearch(s, m) \in Stores
  BY DEF RecordSearch, Stores
<1> QED
  BY <1>1, <1>2

(* The history only grows, by pairs of a model and a subject. *)
LEMMA HistoryTypes ==
    ASSUME TypeOK, NEW seen \in [Models -> Nat]
    PROVE  /\ Again(seen) \subseteq Models \X Nat
           /\ Confirmed(seen) \in [direct : SUBSET (Models \X Nat),
                                   search : SUBSET (Models \X Nat)]
<1>1. Again(seen) \subseteq Models \X Nat
  BY DEF TypeOK, Again, Jobs
<1> QED
  BY <1>1 DEF TypeOK, Confirmed

(* Two tails every command shares. *)
LEMMA FinishType ==
    ASSUME TypeOK, Finish
    PROVE  pc' \in Steps /\ job' \in Jobs
BY NoJobType DEF Finish, Steps

LEMMA BeginType ==
    ASSUME NEW changes \in Jobs,
           NEW goal \in {"plain", "authority", "conservative", "final", "recovery"},
           Begin(goal, changes)
    PROVE  pc' \in Steps /\ job' \in Jobs
BY DEF Begin, Steps, Jobs

LEMMA AbortType ==
    ASSUME TypeOK, Abort
    PROVE  pc' \in Steps /\ job' \in Jobs
<1> DEFINE stopped == [job EXCEPT !.todo = {}, !.model = {}, !.first = NoReceipt]
<1>1. stopped \in Jobs
  BY DEF TypeOK, Jobs, NoReceipt
<1>2. CASE Finish
  BY <1>2, FinishType
<1>3. CASE Begin("recovery", stopped)
  <2> HIDE DEF stopped
  <2> QED
    BY <1>1, <1>3, BeginType
<1> QED
  BY <1>2, <1>3 DEF Abort

-----------------------------------------------------------------------------
(* Type correctness, one step per group of actions. *)

LEMMA TypeEnvironment ==
    ASSUME TypeOK, Environment
    PROVE  TypeOK'
<1> SUFFICES ASSUME NEW m \in Models, Reconfigure(m) \/ Toggle(m)
             PROVE  TypeOK'
  BY DEF Environment
<1>0. world' \in Worlds => TypeOK'
  <2>1. ASSUME world' \in Worlds
        PROVE  evidence' \in [direct : SUBSET (Models \X Nat),
                              search : SUBSET (Models \X Nat)]
    <3>1. Seen' \in [Models -> Nat]
      BY <2>1 DEF Worlds, Seen, NoReceipt
    <3>2. evidence' = Confirmed(Seen')
      BY DEF Reconfigure, Toggle
    <3> QED
      BY <3>1, <3>2, HistoryTypes
  <2>2. UNCHANGED <<store, catalog, bridge, requests, pc, job>>
    BY DEF Reconfigure, Toggle
  <2> QED
    BY <2>1, <2>2 DEF TypeOK
<1>1. CASE Reconfigure(m)
  <2> DEFINE k == world.changes + 1
  <2>1. world \in Worlds /\ k \in Nat
    BY DEF TypeOK, Worlds
  <2>2. PICK s \in 1..MaxSubjects :
             world' = [world EXCEPT !.config = [@ EXCEPT ![m] = s], !.changes = k]
    BY <1>1 DEF Reconfigure
  <2>3. s \in Nat
    BY <2>2, BoundAssumption
  <2> HIDE DEF k
  <2> QED
    BY <1>0, <2>1, <2>2, <2>3, ConfigUpdate
<1>2. CASE Toggle(m)
  <2> DEFINE k == world.faults + 1
  <2>1. k \in Nat
    BY DEF TypeOK, Worlds
  <2>2. /\ world.loaded \cup {m} \in SUBSET Models
        /\ world.loaded \ {m} \in SUBSET Models
    BY DEF TypeOK, Worlds
  <2>3. \/ world' = [world EXCEPT !.faults = k, !.loaded = world.loaded \ {m}]
        \/ world' = [world EXCEPT !.faults = k, !.loaded = world.loaded \cup {m}]
    BY <1>2 DEF Toggle
  <2>4. world' \in Worlds
    <3> HIDE DEF k
    <3>1. world \in Worlds
      BY DEF TypeOK
    <3>2. [world EXCEPT !.faults = k, !.loaded = world.loaded \ {m}] \in Worlds
      BY <2>1, <2>2, <3>1, WorldUpdate
    <3>3. [world EXCEPT !.faults = k, !.loaded = world.loaded \cup {m}] \in Worlds
      BY <2>1, <2>2, <3>1, WorldUpdate
    <3> QED
      BY <2>3, <3>2, <3>3
  <2> QED
    BY <1>0, <2>4
<1> QED
  BY <1>1, <1>2

LEMMA TypeBridge ==
    ASSUME TypeOK, BridgeStart \/ BridgeCrash
    PROVE  TypeOK'
<1>1. CASE BridgeStart
  BY <1>1, StartupType DEF TypeOK, BridgeStart, Phases, Bridges
<1>2. CASE BridgeCrash
  BY <1>2, NoBridgeType, SpendFaultType DEF TypeOK, BridgeCrash
<1> QED
  BY <1>1, <1>2

LEMMA TypeSync ==
    ASSUME TypeOK, Sync
    PROVE  TypeOK'
<1>1. CASE SyncBuild
  BY <1>1, BuildType DEF TypeOK, SyncBuild, Phases, Bridges
<1>2. CASE SyncFirstGuard \/ SyncSecondGuard \/ SyncLastGuard
  BY <1>2 DEF TypeOK, SyncFirstGuard, SyncSecondGuard, SyncLastGuard, SyncStep, Phases, Bridges
<1>3. CASE SyncWrite
  BY <1>3 DEF TypeOK, SyncWrite, Phases, Bridges
<1>4. CASE SyncPublish
  BY <1>4 DEF TypeOK, SyncPublish, Phases, Bridges
<1>5. CASE SyncAbandon \/ SyncRevert \/ SyncRevertCheck
  BY <1>5 DEF TypeOK, SyncAbandon, SyncRevert, SyncRevertCheck, SyncStep, Phases, Bridges
<1>6. CASE SyncRestore
  BY <1>6 DEF TypeOK, SyncRestore, Phases, Bridges
<1> QED
  BY <1>1, <1>2, <1>3, <1>4, <1>5, <1>6 DEF Sync

LEMMA TypeProxy ==
    ASSUME TypeOK, Proxy
    PROVE  TypeOK'
<1>1. ASSUME NEW m \in Models, Resolve(m)
      PROVE  TypeOK'
  <2>1. bridge.routes[m] \in Claims
    BY DEF TypeOK, Bridges, Catalogs
  <2>2. [model |-> m, claim |-> bridge.routes[m], sent |-> FALSE]
           \in [model : Models, claim : Claims, sent : BOOLEAN]
    BY <2>1
  <2>3. requests' \subseteq [model : Models, claim : Claims, sent : BOOLEAN]
    BY <1>1, <2>2 DEF TypeOK, Resolve
  <2> QED
    BY <1>1, <2>3 DEF TypeOK, Resolve
<1>2. CASE \E r \in requests : Admit(r)
  BY <1>2 DEF TypeOK, Admit
<1>3. CASE \E r \in requests : Complete(r)
  BY <1>3 DEF TypeOK, Complete
<1> QED
  BY <1>1, <1>2, <1>3 DEF Proxy

LEMMA TypeStart ==
    ASSUME TypeOK, Start
    PROVE  TypeOK'
<1>1. CASE StartRefresh
  BY <1>1, NoJobType DEF TypeOK, StartRefresh, Begin, Steps, Jobs
<1>2. ASSUME NEW all \in BOOLEAN, NEW onlyUncertified \in BOOLEAN,
             NEW directOnly \in BOOLEAN, NEW m \in Models,
             StartCertify(all, onlyUncertified, directOnly, m)
      PROVE  TypeOK'
  <2> DEFINE exact == (all /\ ~onlyUncertified)
             targets == Requested(all, onlyUncertified, m)
             absent == Recovered(all, m)
             started == [NoJob EXCEPT !.targets = targets, !.absent = absent,
                                      !.exact = exact, !.directOnly = directOnly]
  <2>1. targets \in SUBSET Models /\ absent \in SUBSET Models
    BY DEF Requested, Recovered, TypeOK, Stores
  <2>2. exact \in BOOLEAN
    OBVIOUS
  <2>3. Begin("authority", started)
    BY <1>2 DEF StartCertify
  <2>4. started \in Jobs
    <3> HIDE DEF exact, targets, absent
    <3> QED
      BY <2>1, <2>2, NoJobType DEF Jobs
  <2>5. pc' \in Steps /\ job' \in Jobs
    <3> HIDE DEF started
    <3> QED
      BY <2>3, <2>4, BeginType
  <2> QED
    BY <1>2, <2>5 DEF TypeOK, StartCertify
<1> QED
  BY <1>1, <1>2 DEF Start

LEMMA TypeRefresh ==
    ASSUME TypeOK, Refresh
    PROVE  TypeOK'
<1>1. CASE Build
  BY <1>1, BuildType, SeenType DEF TypeOK, Build, Jobs, Steps
<1>2. CASE WriteCatalog
  BY <1>2 DEF TypeOK, WriteCatalog, Jobs, Steps
<1>3. CASE Restart
  BY <1>3, NoBridgeType DEF TypeOK, Restart, Steps
<1>4. CASE Await
  BY <1>4 DEF TypeOK, Await, Steps
<1>5. CASE Verified
  BY <1>5, FinishType DEF TypeOK, Verified, Steps, Jobs
<1>6. CASE Restore
  BY <1>6, SpendFaultType DEF TypeOK, Restore, Steps, Jobs
<1>7. CASE Restored
  BY <1>7, FinishType DEF TypeOK, Restored
<1> QED
  BY <1>1, <1>2, <1>3, <1>4, <1>5, <1>6, <1>7 DEF Refresh

LEMMA TypeCertify ==
    ASSUME TypeOK, Certify
    PROVE  TypeOK'
<1>1. CASE CheckAuthority
  BY <1>1, FinishType DEF TypeOK, CheckAuthority, Steps
<1>2. CASE ClearAbsent
  <2>1. job.absent \in SUBSET Models
    BY DEF TypeOK, Jobs
  <2> QED
    BY <1>2, <2>1, FinishType, BarrierTypes DEF TypeOK, ClearAbsent, StoreStep, Steps
<1>3. CASE StageTargets
  <2>1. job.targets \in SUBSET Models
    BY DEF TypeOK, Jobs
  <2>2. pc' \in Steps /\ job' \in Jobs
    BY <1>3, BeginType DEF TypeOK, StageTargets
  <2> QED
    BY <1>3, <2>1, <2>2, BarrierTypes DEF TypeOK, StageTargets, StoreStep
<1>4. CASE CheckConservative
  <2>1. [job EXCEPT !.confirmed = TRUE, !.rebound = job.seen] \in Jobs
    BY DEF TypeOK, Jobs
  <2> QED
    BY <1>4, <2>1, FinishType DEF TypeOK, CheckConservative, Steps
<1>5. CASE Revalidate
  BY <1>5, AbortType DEF TypeOK, Revalidate, Steps
<1>6. CASE CommitTargets
  <2>1. job.targets \in SUBSET Models
    BY DEF TypeOK, Jobs
  <2>2. [job EXCEPT !.todo = job.targets] \in Jobs
    BY DEF TypeOK, Jobs
  <2> QED
    BY <1>6, <2>1, <2>2, BarrierTypes DEF TypeOK, CommitTargets, StoreStep, Steps
<1>7. CASE RevalidateAll
  BY <1>7, AbortType DEF TypeOK, RevalidateAll, Steps
<1>8. CASE ClearTargets
  <2>1. job.targets \in SUBSET Models
    BY DEF TypeOK, Jobs
  <2>2. [job EXCEPT !.cleared = TRUE] \in Jobs
    BY DEF TypeOK, Jobs
  <2>3. pc' \in Steps /\ job' \in Jobs
    BY <1>8, <2>2, BeginType DEF ClearTargets
  <2> QED
    BY <1>8, <2>1, <2>3, BarrierTypes DEF TypeOK, ClearTargets, StoreStep
<1>9. CASE AbandonTargets
  <2>1. job.targets \in SUBSET Models
    BY DEF TypeOK, Jobs
  <2> QED
    BY <1>9, <2>1, FinishType, BarrierTypes DEF TypeOK, AbandonTargets, StoreStep
<1>10. ASSUME NEW m \in Models,
              \/ NextModel(m) \/ Probe(m) \/ RevalidateProbed(m) \/ Record(m)
              \/ RevalidateSearch(m) \/ ProbeSearch(m)
              \/ RevalidateSearched(m) \/ RecordSearchGate(m)
       PROVE  TypeOK'
  <2>1. NextTodo(m) \in Jobs
    BY DEF TypeOK, NextTodo, Jobs, NoReceipt
  <2>2. /\ Seen[m] \in Nat /\ job.rebound[m] \in Nat
        /\ Again(Seen) \subseteq Models \X Nat
    BY SeenType, HistoryTypes DEF TypeOK, Jobs
  <2>3. /\ [job EXCEPT !.model = {m}, !.first = Seen[m]] \in Jobs
        /\ [job EXCEPT !.first = Seen[m]] \in Jobs
    BY <2>2 DEF TypeOK, Jobs
  <2>4. CASE NextModel(m)
    BY <2>3, <2>4, AbortType DEF TypeOK, NextModel, Steps
  <2>5. CASE Probe(m)
    BY <2>2, <2>5, AbortType DEF TypeOK, Probe, Steps
  <2>6. CASE RevalidateProbed(m)
    BY <2>6, AbortType DEF TypeOK, RevalidateProbed, Steps
  <2>7. CASE Record(m)
    <3>1. store' \in Stores
      BY <2>2, <2>7, ReceiptTypes DEF TypeOK, Record, StoreStep
    <3> QED
      BY <2>1, <2>7, <3>1 DEF TypeOK, Record, StoreStep, Steps
  <2>8. CASE RevalidateSearch(m)
    BY <2>3, <2>8, AbortType DEF TypeOK, RevalidateSearch, Steps
  <2>9. CASE ProbeSearch(m)
    BY <2>1, <2>2, <2>9, AbortType DEF TypeOK, ProbeSearch, Steps
  <2>10. CASE RevalidateSearched(m)
    BY <2>10, AbortType DEF TypeOK, RevalidateSearched, Steps
  <2>11. CASE RecordSearchGate(m)
    <3>1. store' \in Stores
      BY <2>2, <2>11, ReceiptTypes DEF TypeOK, RecordSearchGate
    <3> QED
      BY <2>1, <2>11, <3>1, AbortType DEF TypeOK, RecordSearchGate, Steps
  <2> QED
    BY <1>10, <2>4, <2>5, <2>6, <2>7, <2>8, <2>9, <2>10, <2>11
<1> QED
  BY <1>1, <1>2, <1>3, <1>4, <1>5, <1>6, <1>7, <1>8, <1>9, <1>10 DEF Certify

LEMMA TypeFaults ==
    ASSUME TypeOK, CliFaults
    PROVE  TypeOK'
<1>1. CASE RefreshStops \/ CliCrash
  BY <1>1, FinishType, SpendFaultType DEF TypeOK, RefreshStops, CliCrash
<1>2. CASE RefreshFails
  BY <1>2, SpendFaultType DEF TypeOK, RefreshFails, Steps
<1>3. CASE StepFails
  BY <1>3, AbortType, SpendFaultType DEF TypeOK, StepFails
<1>4. ASSUME NEW m \in Models, SearchFails(m)
      PROVE  TypeOK'
  <2>1. NextTodo(m) \in Jobs
    BY DEF TypeOK, NextTodo, Jobs, NoReceipt
  <2> QED
    BY <1>4, <2>1, SpendFaultType DEF TypeOK, SearchFails, Steps
<1> QED
  BY <1>1, <1>2, <1>3, <1>4 DEF CliFaults

LEMMA TypeInit == Init => TypeOK
<1> SUFFICES ASSUME Init PROVE TypeOK
  OBVIOUS
<1>1. catalog \in Catalogs
  BY DEF Init, Catalogs, Claims
<1>2. world \in Worlds
  BY DEF Init, Worlds
<1>3. bridge \in Bridges
  BY <1>1, NoBridgeType DEF Init, Bridges
<1>4. store \in Stores
  BY DEF Init, EmptyStore, Stores, NoReceipt
<1> QED
  BY <1>1, <1>2, <1>3, <1>4, NoJobType DEF Init, TypeOK, Steps

LEMMA TypeNext == TypeOK /\ [Next]_vars => TypeOK'
<1> SUFFICES ASSUME TypeOK, [Next]_vars PROVE TypeOK'
  OBVIOUS
<1>1. CASE UNCHANGED vars
  BY <1>1 DEF vars, TypeOK
<1> QED
  BY <1>1, TypeEnvironment, TypeBridge, TypeSync, TypeProxy, TypeStart,
     TypeRefresh, TypeCertify, TypeFaults DEF Next

(* The files and the variables of both processes keep their types. *)
THEOREM TypeCorrect == Spec => []TypeOK
BY TypeInit, TypeNext, PTL DEF Spec

-----------------------------------------------------------------------------
(* Facts about claims that the invariance proof cites. *)

(* A catalog built from the store claims only what the store backs. *)
LEMMA BuiltBacked ==
    ASSUME NEW s, NEW m, NEW subject
    PROVE  Backed(s, m, Claim(s, m, subject))
BY DEF Backed, Claim, Status, ToolClaim, NoReceipt

LEMMA BuiltText ==
    ASSUME NEW s, NEW subject, NEW m \in s.pending
    PROVE  ~ToolClaim(Claim(s, m, subject))
BY DEF Claim, Status, ToolClaim, NoReceipt

LEMMA TextBacked ==
    ASSUME NEW s, NEW m, NEW c, ~ToolClaim(c)
    PROVE  Backed(s, m, c)
BY DEF Backed, ToolClaim

(* A started bridge claims no more than the catalog file. *)
LEMMA StartupClaims ==
    ASSUME NEW m
    PROVE  /\ Backed(store, m, catalog[m]) => Backed(store, m, StartupClaim(m))
           /\ ToolClaim(StartupClaim(m)) => ToolClaim(catalog[m])
BY DEF StartupClaim, Backed, ToolClaim

LEMMA NothingClaimed == \A m \in Models : ~ToolClaim(Nothing[m])
BY DEF Nothing, ToolClaim

LEMMA NoBridgeClaims ==
    /\ NoBridge.phase = "idle"
    /\ \A m \in Models : /\ ~ToolClaim(NoBridge.routes[m])
                         /\ ~ToolClaim(NoBridge.current[m])
                         /\ ~ToolClaim(NoBridge.plan[m])
BY NothingClaimed DEF NoBridge

-----------------------------------------------------------------------------
(* A CLI step that touches no shared state preserves the invariant when it  *)
(* enlarges neither what a refresh may still write nor what it relies on.   *)
LEMMA LocalStep ==
    ASSUME TypeOK, TypeOK', AuthorityInv, JobInv',
           UNCHANGED <<store, catalog, bridge, requests>>,
           \A m \in Guarded' : m \in Guarded,
           pc' \in RefreshSteps =>
               /\ BackedCatalog(job'.plan) /\ BackedCatalog(job'.previous)
               /\ \A m \in Guarded' : /\ ~ToolClaim(job'.plan[m])
                                      /\ ~ToolClaim(job'.previous[m]),
           pc' \in RestartedSteps => pc \in RestartedSteps /\ ReliedOn' \subseteq ReliedOn
    PROVE  AuthorityInv'
<1>1. ValidStore(store)'
  BY DEF AuthorityInv
<1>2. AllBacked'
  BY DEF AuthorityInv, AllBacked, BackedCatalog
<1>3. ASSUME NEW m \in Guarded'
      PROVE  Quarantined(m)'
  <2>1. Quarantined(m)
    BY <1>3 DEF AuthorityInv
  <2> QED
    BY <1>3, <2>1 DEF Quarantined
<1>4. ASSUME pc' \in RestartedSteps, NEW m \in ReliedOn'
      PROVE  Settling(m)'
  <2>1. Settling(m)
    BY <1>4 DEF AuthorityInv
  <2> QED
    BY <2>1 DEF Settling
<1> QED
  BY <1>1, <1>2, <1>3, <1>4 DEF AuthorityInv

LEMMA FinishKeeps ==
    ASSUME TypeOK, TypeOK', AuthorityInv, Finish,
           UNCHANGED <<store, catalog, bridge, requests>>
    PROVE  AuthorityInv'
<1>1. JobInv'
  BY DEF Finish, JobInv, NoJob, ReliedOn, ConfirmedSteps, ProbeSteps
<1>2. \A m \in Guarded' : m \in Guarded
  BY DEF Finish, NoJob, Guarded
<1>3. pc' \notin RefreshSteps /\ pc' \notin RestartedSteps
  BY DEF Finish, RefreshSteps, RestartedSteps
<1> QED
  BY <1>1, <1>2, <1>3, LocalStep

LEMMA AbortKeeps ==
    ASSUME TypeOK, TypeOK', AuthorityInv, Abort,
           UNCHANGED <<store, catalog, bridge, requests>>
    PROVE  AuthorityInv'
<1>1. CASE Finish
  BY <1>1, FinishKeeps
<1>2. CASE /\ job.confirmed /\ ~job.cleared
           /\ Begin("recovery", [job EXCEPT !.todo = {}, !.model = {}, !.first = NoReceipt])
  <2>1. /\ pc' = "build"
        /\ job'.goal = "recovery" /\ job'.targets = job.targets
        /\ job'.confirmed = job.confirmed /\ job'.cleared = job.cleared
        /\ job'.rebound = job.rebound /\ job'.model = {} /\ job'.todo = {}
    BY <1>2 DEF Begin, TypeOK, Jobs
  <2>2. JobInv'
    BY <1>2, <2>1 DEF AuthorityInv, JobInv, ReliedOn, ConfirmedSteps, ProbeSteps
  <2>3. \A m \in Guarded' : m \in Guarded
    BY <2>1 DEF Guarded
  <2>4. pc' \notin RefreshSteps /\ pc' \notin RestartedSteps
    BY <2>1 DEF RefreshSteps, RestartedSteps
  <2> QED
    BY <2>2, <2>3, <2>4, LocalStep
<1> QED
  BY <1>1, <1>2 DEF Abort

-----------------------------------------------------------------------------
(* The invariant is inductive. *)

LEMMA AuthorityEnvironment ==
    ASSUME TypeOK, TypeOK', AuthorityInv, Environment
    PROVE  AuthorityInv'
<1>1. UNCHANGED <<store, catalog, bridge, requests, pc, job>>
  BY DEF Environment, Reconfigure, Toggle
<1>2. Guarded' = Guarded /\ ReliedOn' = ReliedOn
  BY <1>1 DEF Guarded, ReliedOn
<1>3. JobInv'
  BY <1>1, <1>2 DEF AuthorityInv, JobInv
<1>4. pc' \in RefreshSteps =>
               /\ BackedCatalog(job'.plan) /\ BackedCatalog(job'.previous)
               /\ \A m \in Guarded' : /\ ~ToolClaim(job'.plan[m])
                                      /\ ~ToolClaim(job'.previous[m])
  BY <1>1, <1>2 DEF AuthorityInv, AllBacked, Quarantined
<1> QED
  BY <1>1, <1>2, <1>3, <1>4, LocalStep

(* A step of the bridge process: it writes neither the store nor anything   *)
(* of the CLI, and what it publishes it already held.                       *)
LEMMA BridgeStep ==
    ASSUME TypeOK, TypeOK', AuthorityInv,
           UNCHANGED <<store, pc, job>>,
           AllBacked',
           \A m \in Guarded : Quarantined(m)',
           pc \in RestartedSteps => \A m \in ReliedOn : Settling(m)',
           pc = "clearAbsent" => \A m \in job.absent : catalog'[m] = catalog[m]
    PROVE  AuthorityInv'
<1>1. Guarded' = Guarded /\ ReliedOn' = ReliedOn
  BY DEF Guarded, ReliedOn
<1>2. JobInv'
  BY <1>1 DEF AuthorityInv, JobInv
<1> QED
  BY <1>1, <1>2 DEF AuthorityInv

LEMMA AuthorityBridge ==
    ASSUME TypeOK, TypeOK', AuthorityInv, BridgeStart \/ BridgeCrash
    PROVE  AuthorityInv'
<1>1. CASE BridgeStart
  <2>1. /\ bridge'.phase = "idle" /\ bridge'.current = catalog /\ bridge'.plan = catalog
        /\ \A m \in Models : bridge'.routes[m] = StartupClaim(m)
        /\ UNCHANGED <<store, catalog, requests, pc, job>>
    BY <1>1 DEF BridgeStart
  <2>2. AllBacked'
    BY <2>1, StartupClaims DEF AuthorityInv, AllBacked, BackedCatalog
  <2>3. ASSUME NEW m \in Guarded
        PROVE  Quarantined(m)'
    <3>1. m \in Models /\ Quarantined(m)
      BY <2>3 DEF AuthorityInv, Guarded, TypeOK, Stores, Jobs
    <3> QED
      BY <2>1, <3>1, StartupClaims DEF Quarantined
  <2>4. ASSUME NEW m \in ReliedOn, pc \in RestartedSteps
        PROVE  Settling(m)'
    <3>1. m \in Models /\ Settling(m)
      BY <2>4 DEF AuthorityInv, ReliedOn, TypeOK, Jobs
    <3> QED
      BY <2>1, <3>1, StartupClaims DEF Settling
  <2> QED
    BY <2>1, <2>2, <2>3, <2>4, BridgeStep
<1>2. CASE BridgeCrash
  <2>1. bridge' = NoBridge /\ requests' = {} /\ UNCHANGED <<store, catalog, pc, job>>
    BY <1>2 DEF BridgeCrash
  <2>2. AllBacked'
    BY <2>1, NoBridgeClaims, TextBacked DEF AuthorityInv, AllBacked, BackedCatalog
  <2>3. ASSUME NEW m \in Guarded
        PROVE  Quarantined(m)'
    <3>1. m \in Models /\ Quarantined(m)
      BY <2>3 DEF AuthorityInv, Guarded, TypeOK, Stores, Jobs
    <3> QED
      BY <2>1, <3>1, NoBridgeClaims DEF Quarantined
  <2>4. ASSUME NEW m \in ReliedOn, pc \in RestartedSteps
        PROVE  Settling(m)'
    <3>1. m \in Models
      BY <2>4 DEF ReliedOn, TypeOK, Jobs
    <3> QED
      BY <2>1, <3>1, NoBridgeClaims DEF Settling
  <2> QED
    BY <2>1, <2>2, <2>3, <2>4, BridgeStep
<1> QED
  BY <1>1, <1>2

LEMMA AuthoritySync ==
    ASSUME TypeOK, TypeOK', AuthorityInv, Sync
    PROVE  AuthorityInv'
<1>0. /\ \A m \in Guarded : m \in Models /\ Quarantined(m)
      /\ \A m \in ReliedOn : m \in Models
      /\ pc \in RestartedSteps => \A m \in ReliedOn : m \in store.pending /\ Settling(m)
  BY DEF AuthorityInv, JobInv, RestartedSteps, Guarded, ReliedOn, TypeOK, Stores, Jobs
<1>1. CASE SyncBuild
  <2>1. /\ bridge'.plan = BuildCatalog(store, Seen) /\ bridge'.phase = "built"
        /\ bridge'.routes = bridge.routes /\ bridge'.current = bridge.current
        /\ bridge.phase = "idle"
        /\ UNCHANGED <<store, catalog, requests, pc, job>>
    BY <1>1 DEF SyncBuild, TypeOK, Bridges
  <2>2. BackedCatalog(bridge'.plan)
    BY <2>1, BuiltBacked DEF BackedCatalog, BuildCatalog
  <2>3. AllBacked'
    BY <2>1, <2>2 DEF AuthorityInv, AllBacked, BackedCatalog
  <2>4. \A m \in Models : m \in store.pending => ~ToolClaim(bridge'.plan[m])
    BY <2>1, BuiltText DEF BuildCatalog
  <2>5. \A m \in Guarded : Quarantined(m)'
    BY <1>0, <2>1, <2>4 DEF Quarantined
  <2>6. pc \in RestartedSteps => \A m \in ReliedOn : Settling(m)'
    BY <1>0, <2>1, <2>4 DEF Settling
  <2> QED
    BY <2>1, <2>3, <2>5, <2>6, BridgeStep
<1>2. CASE \/ SyncFirstGuard \/ SyncSecondGuard \/ SyncLastGuard
           \/ SyncAbandon \/ SyncRevert \/ SyncRevertCheck
  <2>1. /\ bridge'.plan = bridge.plan /\ bridge'.routes = bridge.routes
        /\ bridge'.current = bridge.current
        /\ UNCHANGED <<store, catalog, requests, pc, job>>
    BY <1>2 DEF SyncFirstGuard, SyncSecondGuard, SyncLastGuard, SyncAbandon,
                SyncRevert, SyncRevertCheck, SyncStep, TypeOK, Bridges
  <2>2. \/ bridge'.phase = "idle"
        \/ NonePending(store)
        \/ bridge.phase \notin {"idle", "built"}
    BY <1>2 DEF SyncFirstGuard, SyncSecondGuard, SyncLastGuard, SyncAbandon,
                SyncRevert, SyncRevertCheck, SyncStep, TypeOK, Bridges
  <2>3. AllBacked'
    BY <2>1 DEF AuthorityInv, AllBacked, BackedCatalog
  <2>4. \A m \in Guarded : Quarantined(m)'
    BY <1>0, <2>1 DEF Quarantined
  <2>5. pc \in RestartedSteps => \A m \in ReliedOn : Settling(m)'
    BY <1>0, <2>1, <2>2 DEF Settling, NonePending
  <2> QED
    BY <2>1, <2>3, <2>4, <2>5, BridgeStep
<1>3. CASE SyncWrite \/ SyncPublish \/ SyncRestore
  <2>1. /\ bridge.phase \notin {"idle", "built"}
        /\ catalog' \in {catalog, bridge.plan, bridge.current}
        /\ bridge'.plan = bridge.plan
        /\ bridge'.routes \in {bridge.routes, bridge.plan}
        /\ bridge'.current \in {bridge.current, bridge.plan}
        /\ UNCHANGED <<store, requests, pc, job>>
    BY <1>3 DEF SyncWrite, SyncPublish, SyncRestore, TypeOK, Bridges
  <2>2. AllBacked'
    BY <2>1 DEF AuthorityInv, AllBacked, BackedCatalog
  <2>3. \A m \in Guarded : Quarantined(m)'
    BY <1>0, <2>1 DEF Quarantined
  <2>4. pc \in RestartedSteps => ReliedOn = {}
    BY <1>0, <2>1 DEF Settling
  <2>5. pc \in RestartedSteps => \A m \in ReliedOn : Settling(m)'
    BY <2>4
  <2>6. pc = "clearAbsent" => job.absent = {}
    BY <2>4 DEF AuthorityInv, JobInv, ReliedOn, RestartedSteps
  <2> QED
    BY <2>1, <2>2, <2>3, <2>5, <2>6, BridgeStep
<1> QED
  BY <1>1, <1>2, <1>3 DEF Sync

LEMMA AuthorityProxy ==
    ASSUME TypeOK, TypeOK', AuthorityInv, Proxy
    PROVE  AuthorityInv'
<1>0. /\ \A m \in Guarded : m \in Models /\ Quarantined(m)
      /\ \A m \in ReliedOn : m \in Models
      /\ pc \in RestartedSteps => \A m \in ReliedOn : m \in store.pending /\ Settling(m)
  BY DEF AuthorityInv, JobInv, RestartedSteps, Guarded, ReliedOn, TypeOK, Stores, Jobs
<1>1. UNCHANGED <<store, catalog, bridge, pc, job>>
  BY DEF Proxy, Resolve, Admit, Complete
(* A request is new with the claim of its route, or an old one.             *)
<1> DEFINE Traced(r) ==
             \/ r.model \in Models /\ r.claim = bridge.routes[r.model] /\ ~r.sent
             \/ \E q \in requests : /\ r.model = q.model /\ r.claim = q.claim
                                    /\ r.sent => q.sent \/ r.model \notin store.pending
<1>2. ASSUME NEW r \in requests'
      PROVE  Traced(r)
  <2>1. CASE \E m \in Models : Resolve(m)
    BY <1>2, <2>1 DEF Resolve
  <2>2. ASSUME NEW q \in requests, Admit(q)
        PROVE  Traced(r)
    BY <1>2, <2>2 DEF Admit, RequestAllowed, TypeOK
  <2>3. CASE \E q \in requests : Complete(q)
    BY <1>2, <2>3 DEF Complete
  <2> QED
    BY <2>1, <2>2, <2>3 DEF Proxy
<1>3. AllBacked'
  BY <1>1, <1>2 DEF AuthorityInv, AllBacked, BackedCatalog
<1>4. \A m \in Guarded : Quarantined(m)'
  BY <1>0, <1>1, <1>2 DEF Quarantined
<1>5. pc \in RestartedSteps => \A m \in ReliedOn : Settling(m)'
  BY <1>0, <1>1, <1>2 DEF Settling
<1> QED
  BY <1>1, <1>3, <1>4, <1>5, BridgeStep

LEMMA AuthorityStart ==
    ASSUME TypeOK, TypeOK', AuthorityInv, Start
    PROVE  AuthorityInv'
<1> DEFINE Started ==
             /\ UNCHANGED <<store, catalog, bridge, requests>>
             /\ pc' = "build"
             /\ \/ job'.goal = "plain"
                \/ job'.goal = "authority" /\ job'.absent \subseteq store.pending
             /\ job'.model = {} /\ job'.todo = {}
             /\ ~job'.confirmed /\ ~job'.cleared
<1>1. Started
  <2>1. CASE StartRefresh
    BY <2>1 DEF StartRefresh, Begin, NoJob
  <2>2. ASSUME NEW all \in BOOLEAN, NEW onlyUncertified \in BOOLEAN,
               NEW directOnly \in BOOLEAN, NEW m \in Models,
               StartCertify(all, onlyUncertified, directOnly, m)
        PROVE  Started
    BY <2>2 DEF StartCertify, Begin, NoJob, Recovered
  <2> QED
    BY <2>1, <2>2 DEF Start
<1>2. JobInv'
  BY <1>1 DEF JobInv, ReliedOn, ConfirmedSteps, ProbeSteps
<1>3. \A m \in Guarded' : m \in Guarded
  BY <1>1 DEF Guarded
<1>4. pc' \notin RefreshSteps /\ pc' \notin RestartedSteps
  BY <1>1 DEF RefreshSteps, RestartedSteps
<1> QED
  BY <1>1, <1>2, <1>3, <1>4, LocalStep

LEMMA AuthorityRefresh ==
    ASSUME TypeOK, TypeOK', AuthorityInv, Refresh
    PROVE  AuthorityInv'
<1>0. /\ \A m \in Guarded : m \in Models /\ m \in store.pending /\ Quarantined(m)
      /\ \A m \in ReliedOn : m \in Models
  BY DEF AuthorityInv, Quarantined, Guarded, ReliedOn, TypeOK, Stores, Jobs
<1>1. CASE Build
  <2>1. /\ pc = "build" /\ pc' = "write"
        /\ job'.plan = BuildCatalog(store, Seen) /\ job'.previous = catalog
        /\ job'.goal = job.goal /\ job'.targets = job.targets
        /\ job'.absent = job.absent /\ job'.confirmed = job.confirmed
        /\ job'.cleared = job.cleared /\ job'.rebound = job.rebound
        /\ job'.model = job.model /\ job'.todo = job.todo
        /\ UNCHANGED <<store, catalog, bridge, requests>>
    BY <1>1 DEF Build, TypeOK, Jobs
  <2>2. Guarded' = Guarded /\ ReliedOn' = ReliedOn
    BY <2>1 DEF Guarded, ReliedOn
  <2>3. JobInv'
    BY <2>1, <2>2 DEF AuthorityInv, JobInv, ConfirmedSteps, ProbeSteps
  <2>4. BackedCatalog(job'.plan) /\ BackedCatalog(job'.previous)
    BY <2>1, BuiltBacked DEF BackedCatalog, BuildCatalog, AuthorityInv, AllBacked
  <2>5. \A m \in Guarded' : ~ToolClaim(job'.plan[m]) /\ ~ToolClaim(job'.previous[m])
    BY <1>0, <2>1, <2>2, BuiltText DEF BuildCatalog, Quarantined
  <2>6. pc' \notin RestartedSteps
    BY <2>1 DEF RestartedSteps
  <2> QED
    BY <2>1, <2>2, <2>3, <2>4, <2>5, <2>6, LocalStep
<1>2. CASE WriteCatalog \/ (Restore /\ catalog' = job.previous)
  <2>1. /\ pc \in RefreshSteps
        /\ pc' \in {"restart", "restoreRestart"} /\ job' = job
        /\ catalog' \in {job.plan, job.previous}
        /\ UNCHANGED <<store, bridge, requests>>
    BY <1>2 DEF WriteCatalog, Restore, RefreshSteps
  <2>2. Guarded' = Guarded /\ ReliedOn' = ReliedOn
    BY <2>1 DEF Guarded, ReliedOn
  <2>3. JobInv'
    BY <2>1, <2>2 DEF AuthorityInv, JobInv, ConfirmedSteps, ProbeSteps, RefreshSteps
  <2>4. AllBacked'
    BY <2>1 DEF AuthorityInv, AllBacked, BackedCatalog, RefreshSteps
  <2>5. ASSUME NEW m \in Guarded'
        PROVE  Quarantined(m)'
    BY <1>0, <2>1, <2>2, <2>5 DEF Quarantined, RefreshSteps
  <2>6. pc' \notin RestartedSteps
    BY <2>1 DEF RestartedSteps
  <2> QED
    BY <2>1, <2>3, <2>4, <2>5, <2>6 DEF AuthorityInv
<1>3. CASE Restart
  <2>1. /\ pc \in {"restart", "restoreRestart"}
        /\ pc' \in {"await", "restoreAwait"} /\ (pc' = "await" => pc = "restart")
        /\ bridge' = NoBridge /\ requests' = {} /\ UNCHANGED <<store, catalog, job>>
    BY <1>3 DEF Restart
  <2>2. Guarded' = Guarded /\ ReliedOn' = ReliedOn
    BY <2>1 DEF Guarded, ReliedOn
  <2>3. JobInv'
    BY <2>1, <2>2 DEF AuthorityInv, JobInv, ConfirmedSteps, ProbeSteps
  <2>4. AllBacked'
    BY <2>1, NoBridgeClaims, TextBacked
    DEF AuthorityInv, AllBacked, BackedCatalog, RefreshSteps
  <2>5. ASSUME NEW m \in Guarded'
        PROVE  Quarantined(m)'
    BY <1>0, <2>1, <2>2, <2>5, NoBridgeClaims DEF Quarantined, RefreshSteps
  <2>6. ASSUME NEW m \in ReliedOn'
        PROVE  Settling(m)'
    BY <1>0, <2>1, <2>2, <2>6, NoBridgeClaims DEF Settling
  <2> QED
    BY <2>1, <2>3, <2>4, <2>5, <2>6 DEF AuthorityInv
<1>4. CASE Await \/ (Verified /\ ~Finish) \/ (Restore /\ UNCHANGED catalog)
  <2>1. /\ UNCHANGED <<store, catalog, bridge, requests, job>>
        /\ \/ pc = "await" /\ pc' = "verify"
           \/ pc = "verify" /\ job.goal = "authority" /\ pc' = "checkAuthority"
           \/ pc = "verify" /\ job.goal = "conservative" /\ pc' = "checkConservative"
           \/ pc = "verify" /\ job.goal = "recovery" /\ pc' = "abandon"
           \/ pc = "restore" /\ pc' = "restoreRestart"
    BY <1>4 DEF Await, Verified, Restore, TypeOK, Jobs
  <2>2. Guarded' = Guarded /\ ReliedOn' = ReliedOn
    BY <2>1 DEF Guarded, ReliedOn
  <2>3. JobInv'
    BY <2>1, <2>2 DEF AuthorityInv, JobInv, ConfirmedSteps, ProbeSteps
  <2>4. pc' \in RefreshSteps =>
               /\ BackedCatalog(job'.plan) /\ BackedCatalog(job'.previous)
               /\ \A m \in Guarded' : /\ ~ToolClaim(job'.plan[m])
                                      /\ ~ToolClaim(job'.previous[m])
    BY <1>0, <2>1, <2>2 DEF AuthorityInv, AllBacked, Quarantined, RefreshSteps
  <2>5. pc' \in RestartedSteps => pc \in RestartedSteps
    BY <2>1 DEF RestartedSteps
  <2> QED
    BY <2>1, <2>2, <2>3, <2>4, <2>5, LocalStep
<1>5. CASE (Verified /\ Finish) \/ Restored
  BY <1>5, FinishKeeps DEF Verified, Restored
<1> QED
  BY <1>1, <1>2, <1>3, <1>4, <1>5 DEF Refresh, Restore

(* A step that rewrites the store and publishes nothing: it may withdraw    *)
(* receipts only from guarded models, and close the guard of others.        *)
LEMMA StoreWrite ==
    ASSUME TypeOK, TypeOK', AuthorityInv, JobInv', ValidStore(store)',
           UNCHANGED <<catalog, bridge, requests>>,
           pc' \notin RefreshSteps, pc' \notin RestartedSteps,
           \A m \in Guarded' : m \in Guarded /\ m \in store'.pending,
           \A m \in Models : \A c \in Claims :
              Backed(store, m, c) /\ (m \in Guarded => ~ToolClaim(c))
                 => Backed(store', m, c)
    PROVE  AuthorityInv'
<1>1. \A m \in Guarded : m \in Models /\ Quarantined(m)
  BY DEF AuthorityInv, Guarded, TypeOK, Stores, Jobs
<1>2. /\ \A m \in Models : /\ catalog[m] \in Claims /\ bridge.routes[m] \in Claims
                            /\ bridge.current[m] \in Claims /\ bridge.plan[m] \in Claims
      /\ \A r \in requests : r.model \in Models /\ r.claim \in Claims
  BY DEF TypeOK, Catalogs, Bridges
<1>3. AllBacked'
  BY <1>1, <1>2 DEF AuthorityInv, AllBacked, BackedCatalog, Quarantined
<1>4. ASSUME NEW m \in Guarded'
      PROVE  Quarantined(m)'
  BY <1>1, <1>4 DEF Quarantined
<1> QED
  BY <1>3, <1>4 DEF AuthorityInv

LEMMA AuthorityRecovery ==
    ASSUME TypeOK, TypeOK', AuthorityInv,
           CheckAuthority \/ ClearAbsent \/ StageTargets
    PROVE  AuthorityInv'
<1>1. CASE CheckAuthority
  <2>1. CASE Finish
    BY <1>1, <2>1, FinishKeeps DEF CheckAuthority
  <2>2. CASE ~Finish
    <3>1. /\ pc = "checkAuthority" /\ pc' \in {"clearAbsent", "stage"} /\ job' = job
          /\ pc' = "clearAbsent" => \A m \in job.absent : catalog[m] = "absent"
          /\ UNCHANGED <<store, catalog, bridge, requests>>
      BY <1>1, <2>2 DEF CheckAuthority
    <3>2. Guarded' = Guarded /\ ReliedOn' = ReliedOn
      BY <3>1 DEF Guarded, ReliedOn
    <3>3. JobInv'
      BY <3>1, <3>2 DEF AuthorityInv, JobInv, ConfirmedSteps, ProbeSteps, ToolClaim
    <3> QED
      BY <3>1, <3>2, <3>3, LocalStep DEF RefreshSteps, RestartedSteps
  <2> QED
    BY <2>1, <2>2
<1>2. CASE ClearAbsent
  <2>1. /\ pc = "clearAbsent" /\ store' = Clear(store, job.absent)
        /\ pc' \in {"idle", "stage"} /\ job' \in {job, NoJob}
        /\ pc' = "stage" => job' = job
        /\ UNCHANGED <<catalog, bridge, requests>>
    BY <1>2 DEF ClearAbsent, StoreStep, Finish
  <2>2. /\ store'.receipts = store.receipts /\ store'.search = store.search
        /\ store'.pending = store.pending \ job.absent
        /\ store'.auth = store.auth \ job.absent
    BY <2>1 DEF Clear, TypeOK, Stores
  <2>3. /\ job.goal = "authority" /\ ~job.confirmed /\ ~job.cleared
        /\ job.model = {}
        /\ \A m \in job.todo : m \in job.targets
    BY <2>1 DEF AuthorityInv, JobInv, ProbeSteps
  <2>4. JobInv'
    BY <2>1, <2>3
    DEF JobInv, NoJob, ConfirmedSteps, ProbeSteps, AuthorityInv, ReliedOn
  <2>5. ValidStore(store)'
    BY <2>2 DEF AuthorityInv, ValidStore, TypeOK
  <2>6. \A m \in Guarded' : m \in Guarded /\ m \in store'.pending
    BY <2>1, <2>2, <2>3 DEF Guarded, NoJob, AuthorityInv, ValidStore
  <2>7. \A m \in Models : \A c \in Claims : Backed(store, m, c) => Backed(store', m, c)
    BY <2>2 DEF Backed
  <2> QED
    BY <2>1, <2>4, <2>5, <2>6, <2>7, StoreWrite DEF RefreshSteps, RestartedSteps
<1>3. CASE StageTargets
  <2>1. /\ pc = "stage" /\ store' = Stage(store, job.targets)
        /\ pc' = "build" /\ job' = [job EXCEPT !.goal = "conservative"]
        /\ UNCHANGED <<catalog, bridge, requests>>
    BY <1>3 DEF StageTargets, StoreStep, Begin
  <2>2. /\ store'.receipts = store.receipts /\ store'.search = store.search
        /\ store'.pending = store.pending \cup job.targets
        /\ store'.auth = store.auth \ job.targets
    BY <2>1 DEF Stage, TypeOK, Stores
  <2>3. /\ job'.goal = "conservative" /\ job'.targets = job.targets
        /\ job'.confirmed = job.confirmed /\ job'.cleared = job.cleared
        /\ job'.rebound = job.rebound /\ job'.model = job.model
        /\ job'.todo = job.todo /\ job'.absent = job.absent
    BY <2>1 DEF TypeOK, Jobs
  <2>4. job.goal = "authority" /\ ~job.confirmed /\ ~job.cleared
    BY <2>1 DEF AuthorityInv, JobInv
  <2>5. ReliedOn' = job.targets
    BY <2>3 DEF ReliedOn
  <2>6. JobInv'
    BY <2>1, <2>2, <2>3, <2>4, <2>5
    DEF JobInv, ConfirmedSteps, ProbeSteps, AuthorityInv
  <2>7. ValidStore(store)'
    BY <2>2 DEF AuthorityInv, ValidStore, TypeOK
  <2>8. \A m \in Guarded' : m \in Guarded /\ m \in store'.pending
    BY <2>2, <2>3, <2>4 DEF Guarded, AuthorityInv, ValidStore
  <2>9. \A m \in Models : \A c \in Claims : Backed(store, m, c) => Backed(store', m, c)
    BY <2>2 DEF Backed
  <2> QED
    BY <2>1, <2>6, <2>7, <2>8, <2>9, StoreWrite DEF RefreshSteps, RestartedSteps
<1> QED
  BY <1>1, <1>2, <1>3

LEMMA AuthorityCommit ==
    ASSUME TypeOK, TypeOK', AuthorityInv,
           CheckConservative \/ Revalidate \/ CommitTargets
    PROVE  AuthorityInv'
<1>1. CASE CheckConservative
  <2>1. CASE Finish
    BY <1>1, <2>1, FinishKeeps DEF CheckConservative
  <2>2. CASE ~Finish
    <3>1. /\ pc = "checkConservative" /\ pc' = "revalidate"
          /\ job' = [job EXCEPT !.confirmed = TRUE, !.rebound = job.seen]
          /\ \A m \in job.targets : job.seen[m] # NoReceipt /\ catalog[m] = "text"
          /\ UNCHANGED <<store, catalog, bridge, requests>>
      BY <1>1, <2>2 DEF CheckConservative, Selected
    <3>2. /\ job'.confirmed /\ job'.rebound = job.seen
          /\ job'.goal = job.goal /\ job'.targets = job.targets
          /\ job'.cleared = job.cleared /\ job'.model = job.model
          /\ job'.todo = job.todo /\ job'.absent = job.absent
      BY <3>1 DEF TypeOK, Jobs
    <3>3. job.goal = "conservative" /\ ~job.cleared
      BY <3>1, <3>2 DEF AuthorityInv, JobInv
    <3>4. ReliedOn = job.targets /\ ReliedOn' = job.targets
      BY <3>2, <3>3 DEF ReliedOn
    <3>5. \A m \in job.targets : m \in Models /\ m \in store.pending /\ Settling(m)
      BY <3>1, <3>4 DEF AuthorityInv, JobInv, RestartedSteps, TypeOK, Jobs
    <3>6. JobInv'
      BY <3>1, <3>2, <3>3, <3>4, <3>5 DEF AuthorityInv, JobInv, ConfirmedSteps, ProbeSteps
    <3>7. pc' \notin RefreshSteps /\ pc' \notin RestartedSteps
      BY <3>1 DEF RefreshSteps, RestartedSteps
    <3>8. ASSUME NEW m \in job.targets
          PROVE  Quarantined(m)'
      BY <3>1, <3>5, <3>7 DEF Settling, Quarantined, ToolClaim
    <3>9. ASSUME NEW m \in Guarded'
          PROVE  Quarantined(m)'
      <4>1. CASE m \in job.targets
        BY <3>8, <4>1
      <4>2. CASE m \in Guarded
        BY <3>1, <3>7, <4>2 DEF AuthorityInv, Quarantined
      <4> QED
        BY <3>1, <3>2, <3>9, <4>1, <4>2 DEF Guarded
    <3>10. AllBacked'
      BY <3>1, <3>7 DEF AuthorityInv, AllBacked, BackedCatalog
    <3> QED
      BY <3>1, <3>6, <3>7, <3>9, <3>10 DEF AuthorityInv
  <2> QED
    BY <2>1, <2>2
<1>2. CASE Revalidate
  <2>1. CASE Abort
    BY <1>2, <2>1, AbortKeeps DEF Revalidate
  <2>2. CASE ~Abort
    <3>1. /\ pc = "revalidate" /\ pc' = "commit" /\ job' = job
          /\ UNCHANGED <<store, catalog, bridge, requests>>
      BY <1>2, <2>2 DEF Revalidate
    <3>2. Guarded' = Guarded /\ ReliedOn' = ReliedOn
      BY <3>1 DEF Guarded, ReliedOn
    <3>3. JobInv'
      BY <3>1, <3>2 DEF AuthorityInv, JobInv, ConfirmedSteps, ProbeSteps
    <3> QED
      BY <3>1, <3>2, <3>3, LocalStep DEF RefreshSteps, RestartedSteps
  <2> QED
    BY <2>1, <2>2
<1>3. CASE CommitTargets
  <2>1. /\ pc = "commit" /\ pc' = "next"
        /\ job.targets \subseteq store.pending
        /\ store' = Commit(store, job.targets)
        /\ job' = [job EXCEPT !.todo = job.targets]
        /\ UNCHANGED <<catalog, bridge, requests>>
    BY <1>3 DEF CommitTargets, CommitAllowed, StoreStep
  <2>2. /\ \A m \in Models : store'.receipts[m] = IF m \in job.targets THEN NoReceipt
                                                   ELSE store.receipts[m]
        /\ store'.search = store.search \ job.targets
        /\ store'.pending = store.pending
        /\ store'.auth = store.auth \cup job.targets
    BY <2>1 DEF Commit, TypeOK, Stores
  <2>3. /\ job'.todo = job.targets /\ job'.goal = job.goal
        /\ job'.targets = job.targets /\ job'.confirmed = job.confirmed
        /\ job'.cleared = job.cleared /\ job'.rebound = job.rebound
        /\ job'.model = job.model /\ job'.absent = job.absent
    BY <2>1 DEF TypeOK, Jobs
  <2>4. job.confirmed /\ ~job.cleared
    BY <2>1 DEF AuthorityInv, JobInv, ConfirmedSteps
  <2>5. Guarded' = Guarded /\ ReliedOn' = ReliedOn /\ job.targets \subseteq Guarded
    BY <2>2, <2>3, <2>4 DEF Guarded, ReliedOn
  <2>6. JobInv'
    BY <2>1, <2>2, <2>3, <2>4, <2>5
    DEF AuthorityInv, JobInv, ConfirmedSteps, ProbeSteps
  <2>7. ValidStore(store)'
    <3>1. \A m \in store'.search : store'.receipts[m] # NoReceipt
      BY <2>2 DEF AuthorityInv, ValidStore, TypeOK, Stores
    <3> QED
      BY <2>1, <2>2, <3>1 DEF AuthorityInv, ValidStore, TypeOK
  <2>8. \A m \in Guarded' : m \in Guarded /\ m \in store'.pending
    BY <2>2, <2>5 DEF AuthorityInv, Quarantined
  <2>9. \A m \in Models : \A c \in Claims :
           Backed(store, m, c) /\ (m \in Guarded => ~ToolClaim(c)) => Backed(store', m, c)
    BY <2>2, <2>5 DEF Backed, ToolClaim
  <2> QED
    BY <2>1, <2>6, <2>7, <2>8, <2>9, StoreWrite DEF RefreshSteps, RestartedSteps
<1> QED
  BY <1>1, <1>2, <1>3

(* The steps of a probe run change the transaction's own variables; they    *)
(* move from one confirmed step to another or abandon the run.              *)
LEMMA ProbeStep ==
    ASSUME TypeOK, TypeOK', AuthorityInv,
           UNCHANGED <<store, catalog, bridge, requests>>,
           pc \in ConfirmedSteps,
           pc' \in ConfirmedSteps,
           job'.goal = job.goal, job'.targets = job.targets,
           job'.absent = job.absent, job'.confirmed = job.confirmed,
           job'.cleared = job.cleared, job'.rebound = job.rebound,
           job'.todo \subseteq job.todo,
           job'.model \subseteq job.targets,
           pc' \notin ProbeSteps => job'.model = {}
    PROVE  AuthorityInv'
<1>1. Guarded' = Guarded /\ ReliedOn' = ReliedOn
  BY DEF Guarded, ReliedOn
<1>2. JobInv'
  BY <1>1 DEF AuthorityInv, JobInv, ConfirmedSteps, ProbeSteps
<1> QED
  BY <1>1, <1>2, LocalStep DEF RefreshSteps, RestartedSteps, ConfirmedSteps, ProbeSteps

LEMMA NextTodoFields ==
    ASSUME TypeOK, NEW m
    PROVE  /\ NextTodo(m).goal = job.goal /\ NextTodo(m).targets = job.targets
           /\ NextTodo(m).absent = job.absent /\ NextTodo(m).confirmed = job.confirmed
           /\ NextTodo(m).cleared = job.cleared /\ NextTodo(m).rebound = job.rebound
           /\ NextTodo(m).todo \subseteq job.todo /\ NextTodo(m).model = {}
BY DEF NextTodo, TypeOK, Jobs

LEMMA AuthorityProbe ==
    ASSUME TypeOK, TypeOK', AuthorityInv, NEW m \in Models,
           \/ NextModel(m) \/ Probe(m) \/ RevalidateProbed(m)
           \/ RevalidateSearch(m) \/ ProbeSearch(m) \/ RevalidateSearched(m)
    PROVE  AuthorityInv'
<1>1. CASE Abort
  BY <1>1, AbortKeeps DEF NextModel, Probe, RevalidateProbed, RevalidateSearch,
                          ProbeSearch, RevalidateSearched
<1>2. CASE ~Abort /\ (NextModel(m) \/ RevalidateSearch(m))
  <2>1. /\ pc \in ConfirmedSteps /\ pc' \in ProbeSteps
        /\ \/ /\ job' = [job EXCEPT !.model = {m}, !.first = Seen[m]]
              /\ m \in job.todo
           \/ job' = [job EXCEPT !.first = Seen[m]]
        /\ UNCHANGED <<store, catalog, bridge, requests>>
    BY <1>2 DEF NextModel, RevalidateSearch, ConfirmedSteps, ProbeSteps
  <2>2. /\ job.todo \subseteq job.targets /\ job.model \subseteq job.targets
    BY DEF AuthorityInv, JobInv
  <2>3. /\ job'.goal = job.goal /\ job'.targets = job.targets
        /\ job'.absent = job.absent /\ job'.confirmed = job.confirmed
        /\ job'.cleared = job.cleared /\ job'.rebound = job.rebound
        /\ job'.todo = job.todo
        /\ job'.model = job.model \/ (job'.model = {m} /\ m \in job.todo)
    BY <2>1 DEF TypeOK, Jobs
  <2> QED
    BY <2>1, <2>2, <2>3, ProbeStep DEF ConfirmedSteps
<1>3. CASE ~Abort /\ (Probe(m) \/ RevalidateProbed(m) \/ RevalidateSearched(m))
  <2>1. /\ pc \in ConfirmedSteps /\ pc' \in ProbeSteps /\ job' = job
        /\ UNCHANGED <<store, catalog, bridge, requests>>
    BY <1>3 DEF Probe, RevalidateProbed, RevalidateSearched, ConfirmedSteps, ProbeSteps
  <2>2. job.model \subseteq job.targets
    BY DEF AuthorityInv, JobInv
  <2> QED
    BY <2>1, <2>2, ProbeStep DEF ConfirmedSteps
<1>4. CASE ProbeSearch(m)
  <2>1. /\ pc \in ConfirmedSteps
        /\ \/ pc' \in ProbeSteps /\ job' = job
           \/ pc' = "next" /\ job' = NextTodo(m)
        /\ UNCHANGED <<store, catalog, bridge, requests>>
    BY <1>4 DEF ProbeSearch, ConfirmedSteps, ProbeSteps
  <2>2. job.model \subseteq job.targets
    BY DEF AuthorityInv, JobInv
  <2> QED
    BY <2>1, <2>2, ProbeStep, NextTodoFields DEF ConfirmedSteps
<1> QED
  BY <1>1, <1>2, <1>3, <1>4

LEMMA AuthorityRecord ==
    ASSUME TypeOK, TypeOK', AuthorityInv, NEW m \in Models,
           Record(m) \/ RecordSearchGate(m)
    PROVE  AuthorityInv'
<1>0. /\ pc \in {"record", "recordSearch"} /\ m \in job.targets /\ m \in Guarded
      /\ job.rebound[m] # NoReceipt /\ job.rebound[m] \in Nat
      /\ job.confirmed /\ ~job.cleared
  <2>1. /\ pc \in {"record", "recordSearch"} /\ m \in job.model
    BY DEF Record, RecordSearchGate, StoreStep
  <2>2. job.confirmed /\ ~job.cleared /\ m \in job.targets
    BY <2>1 DEF AuthorityInv, JobInv, ConfirmedSteps, ProbeSteps
  <2> QED
    BY <2>1, <2>2 DEF AuthorityInv, JobInv, Guarded, TypeOK, Jobs
<1>1. CASE Record(m)
  <2>1. /\ store' = RecordPassed(store, m, job.rebound[m])
        /\ \/ pc' = "searchCheck" /\ job' = job
           \/ pc' = "next" /\ job' = NextTodo(m)
        /\ UNCHANGED <<catalog, bridge, requests>>
    BY <1>1 DEF Record, StoreStep
  <2>2. /\ \A x \in Models : store'.receipts[x] = IF x = m THEN job.rebound[m]
                                                   ELSE store.receipts[x]
        /\ store'.search = store.search \ {m}
        /\ store'.pending = store.pending /\ store'.auth = store.auth
    BY <2>1 DEF RecordPassed, TypeOK, Stores
  <2>3. /\ job'.goal = job.goal /\ job'.targets = job.targets
        /\ job'.absent = job.absent /\ job'.confirmed = job.confirmed
        /\ job'.cleared = job.cleared /\ job'.rebound = job.rebound
        /\ job'.todo \subseteq job.todo
        /\ job'.model = job.model \/ job'.model = {}
        /\ pc' = "next" => job'.model = {}
    BY <2>1, NextTodoFields
  <2>4. Guarded' = Guarded /\ ReliedOn' = ReliedOn
    BY <2>2, <2>3 DEF Guarded, ReliedOn
  <2>5. JobInv'
    BY <1>0, <2>1, <2>2, <2>3, <2>4
    DEF AuthorityInv, JobInv, ConfirmedSteps, ProbeSteps
  <2>6. ValidStore(store)'
    <3>1. \A x \in store'.search : store'.receipts[x] # NoReceipt
      BY <2>2 DEF AuthorityInv, ValidStore, TypeOK, Stores
    <3> QED
      BY <2>2, <3>1 DEF AuthorityInv, ValidStore, TypeOK
  <2>7. \A x \in Guarded' : x \in Guarded /\ x \in store'.pending
    BY <2>2, <2>4 DEF AuthorityInv, Quarantined
  <2>8. \A x \in Models : \A c \in Claims :
           Backed(store, x, c) /\ (x \in Guarded => ~ToolClaim(c)) => Backed(store', x, c)
    BY <1>0, <2>2 DEF Backed, ToolClaim
  <2> QED
    BY <2>1, <2>5, <2>6, <2>7, <2>8, StoreWrite DEF RefreshSteps, RestartedSteps
<1>2. CASE RecordSearchGate(m) /\ UNCHANGED store
  <2>1. CASE Abort
    BY <1>2, <2>1, AbortKeeps DEF RecordSearchGate
  <2>2. CASE ~Abort
    <3>1. pc' = "next" /\ job' = NextTodo(m) /\ UNCHANGED <<catalog, bridge, requests>>
      BY <1>2, <2>2 DEF RecordSearchGate
    <3> QED
      BY <1>0, <1>2, <3>1, ProbeStep, NextTodoFields DEF ConfirmedSteps, ProbeSteps
  <2> QED
    BY <2>1, <2>2
<1>3. CASE RecordSearchGate(m) /\ store' # store
  <2>1. /\ store' = RecordSearch(store, m) /\ store.receipts[m] = job.rebound[m]
        /\ pc' = "next" /\ job' = NextTodo(m)
        /\ UNCHANGED <<catalog, bridge, requests>>
    BY <1>3 DEF RecordSearchGate, RecordSearchAllowed
  <2>2. /\ store'.receipts = store.receipts
        /\ store'.search = store.search \cup {m}
        /\ store'.pending = store.pending /\ store'.auth = store.auth
    BY <2>1 DEF RecordSearch, TypeOK, Stores
  <2>3. /\ job'.goal = job.goal /\ job'.targets = job.targets
        /\ job'.absent = job.absent /\ job'.confirmed = job.confirmed
        /\ job'.cleared = job.cleared /\ job'.rebound = job.rebound
        /\ job'.todo \subseteq job.todo /\ job'.model = {}
    BY <2>1, NextTodoFields
  <2>4. Guarded' = Guarded /\ ReliedOn' = ReliedOn
    BY <2>2, <2>3 DEF Guarded, ReliedOn
  <2>5. JobInv'
    BY <1>0, <2>1, <2>2, <2>3, <2>4
    DEF AuthorityInv, JobInv, ConfirmedSteps, ProbeSteps
  <2>6. ValidStore(store)'
    BY <1>0, <2>1, <2>2 DEF AuthorityInv, ValidStore, TypeOK
  <2>7. \A x \in Guarded' : x \in Guarded /\ x \in store'.pending
    BY <2>2, <2>4 DEF AuthorityInv, Quarantined
  <2>8. \A x \in Models : \A c \in Claims : Backed(store, x, c) => Backed(store', x, c)
    BY <2>2 DEF Backed
  <2> QED
    BY <2>1, <2>5, <2>6, <2>7, <2>8, StoreWrite DEF RefreshSteps, RestartedSteps
<1> QED
  BY <1>1, <1>2, <1>3

LEMMA AuthorityClear ==
    ASSUME TypeOK, TypeOK', AuthorityInv,
           RevalidateAll \/ ClearTargets \/ AbandonTargets
    PROVE  AuthorityInv'
<1>1. CASE RevalidateAll
  <2>1. CASE Abort
    BY <1>1, <2>1, AbortKeeps DEF RevalidateAll
  <2>2. CASE ~Abort
    <3>1. pc = "next" /\ pc' = "clear" /\ job' = job
          /\ UNCHANGED <<store, catalog, bridge, requests>>
      BY <1>1, <2>2 DEF RevalidateAll
    <3>2. job.model \subseteq job.targets /\ job.model = {}
      BY <3>1 DEF AuthorityInv, JobInv, ProbeSteps
    <3> QED
      BY <3>1, <3>2, ProbeStep DEF ConfirmedSteps
  <2> QED
    BY <2>1, <2>2
<1>2. CASE ClearTargets \/ AbandonTargets
  <2>1. /\ pc \in {"clear", "abandon"} /\ store' = Clear(store, job.targets)
        /\ \/ pc' = "idle" /\ job' = NoJob
           \/ pc' = "build" /\ job' = [[job EXCEPT !.cleared = TRUE] EXCEPT !.goal = "final"]
        /\ UNCHANGED <<catalog, bridge, requests>>
    BY <1>2 DEF ClearTargets, AbandonTargets, StoreStep, Begin, Finish
  <2>2. /\ store'.receipts = store.receipts /\ store'.search = store.search
        /\ store'.pending = store.pending \ job.targets
        /\ store'.auth = store.auth \ job.targets
    BY <2>1 DEF Clear, TypeOK, Stores
  <2>3. job.confirmed /\ job.model = {} /\ job.todo \subseteq job.targets
    BY <2>1 DEF AuthorityInv, JobInv, ConfirmedSteps, ProbeSteps
  <2>4. \/ pc' = "idle" /\ job' = NoJob
        \/ /\ pc' = "build" /\ job'.goal = "final" /\ job'.cleared
           /\ job'.targets = job.targets /\ job'.confirmed = job.confirmed
           /\ job'.rebound = job.rebound /\ job'.model = {} /\ job'.todo = job.todo
    BY <2>1, <2>3 DEF TypeOK, Jobs
  <2>5. JobInv'
    <3>1. CASE pc' = "idle" /\ job' = NoJob
      BY <3>1 DEF JobInv, NoJob, ConfirmedSteps, ProbeSteps, ReliedOn
    <3>2. CASE pc' = "build"
      <4>1. /\ job'.goal = "final" /\ job'.cleared
            /\ job'.targets = job.targets /\ job'.confirmed = job.confirmed
            /\ job'.rebound = job.rebound /\ job'.model = {} /\ job'.todo = job.todo
        BY <2>4, <3>2
      <4>2. ReliedOn' = {}
        BY <4>1 DEF ReliedOn
      <4> QED
        BY <2>3, <3>2, <4>1, <4>2
        DEF JobInv, ConfirmedSteps, ProbeSteps, AuthorityInv
    <3> QED
      BY <2>4, <3>1, <3>2
  <2>6. ValidStore(store)'
    BY <2>2 DEF AuthorityInv, ValidStore, TypeOK
  <2>7. \A m \in Guarded' : m \in Guarded /\ m \in store'.pending
    BY <2>2, <2>4 DEF Guarded, NoJob, AuthorityInv, ValidStore
  <2>8. \A m \in Models : \A c \in Claims : Backed(store, m, c) => Backed(store', m, c)
    BY <2>2 DEF Backed
  <2>9. pc' \in {"idle", "build"}
    BY <2>1
  <2> QED
    BY <2>1, <2>5, <2>6, <2>7, <2>8, <2>9, StoreWrite DEF RefreshSteps, RestartedSteps
<1> QED
  BY <1>1, <1>2

LEMMA AuthorityFaults ==
    ASSUME TypeOK, TypeOK', AuthorityInv, CliFaults
    PROVE  AuthorityInv'
<1>1. CASE RefreshStops \/ CliCrash
  BY <1>1, FinishKeeps DEF RefreshStops, CliCrash
<1>2. CASE StepFails
  BY <1>2, AbortKeeps DEF StepFails
<1>3. CASE RefreshFails
  <2>1. /\ pc \in RefreshSteps /\ pc' = "restore" /\ job' = job
        /\ pc \notin ProbeSteps
        /\ UNCHANGED <<store, catalog, bridge, requests>>
    BY <1>3 DEF RefreshFails, RefreshSteps, ProbeSteps
  <2>2. Guarded' = Guarded /\ ReliedOn' = ReliedOn
    BY <2>1 DEF Guarded, ReliedOn
  <2>3. JobInv'
    BY <2>1, <2>2 DEF AuthorityInv, JobInv, ConfirmedSteps, ProbeSteps, RefreshSteps
  <2>4. /\ BackedCatalog(job'.plan) /\ BackedCatalog(job'.previous)
        /\ \A m \in Guarded' : ~ToolClaim(job'.plan[m]) /\ ~ToolClaim(job'.previous[m])
    BY <2>1, <2>2 DEF AuthorityInv, AllBacked, Quarantined, BackedCatalog
  <2> QED
    BY <2>1, <2>2, <2>3, <2>4, LocalStep DEF RestartedSteps
<1>4. ASSUME NEW m \in Models, SearchFails(m)
      PROVE  AuthorityInv'
  <2>1. /\ pc = "searchProbe" /\ pc' = "next" /\ job' = NextTodo(m)
        /\ UNCHANGED <<store, catalog, bridge, requests>>
    BY <1>4 DEF SearchFails
  <2> QED
    BY <2>1, ProbeStep, NextTodoFields DEF ConfirmedSteps, ProbeSteps
<1> QED
  BY <1>1, <1>2, <1>3, <1>4 DEF CliFaults

LEMMA AuthorityInit == Init => AuthorityInv
<1> SUFFICES ASSUME Init PROVE AuthorityInv
  OBVIOUS
<1>1. \A m \in Models : ~ToolClaim(catalog[m])
  BY DEF Init, ToolClaim
<1>2. /\ bridge.routes = catalog /\ bridge.current = catalog /\ bridge.plan = catalog
  BY DEF Init, NoBridge
<1>3. AllBacked
  BY <1>1, <1>2, TextBacked DEF Init, AllBacked, BackedCatalog, RefreshSteps
<1>4. Guarded = {}
  BY DEF Init, Guarded, EmptyStore, NoJob
<1>5. pc \notin RestartedSteps
  BY DEF Init, RestartedSteps
<1>6. ValidStore(store)
  BY TypeInit DEF Init, TypeOK, ValidStore, EmptyStore
<1>7. JobInv
  BY DEF Init, JobInv, NoJob, ConfirmedSteps, ProbeSteps, ReliedOn
<1> QED
  BY <1>3, <1>4, <1>5, <1>6, <1>7 DEF AuthorityInv

LEMMA AuthorityNext ==
    TypeOK /\ TypeOK' /\ AuthorityInv /\ [Next]_vars => AuthorityInv'
<1> SUFFICES ASSUME TypeOK, TypeOK', AuthorityInv, [Next]_vars PROVE AuthorityInv'
  OBVIOUS
<1>1. CASE UNCHANGED vars
  <2>1. /\ UNCHANGED <<store, catalog, bridge, requests, pc, job>>
    BY <1>1 DEF vars
  <2>2. Guarded' = Guarded /\ ReliedOn' = ReliedOn
    BY <2>1 DEF Guarded, ReliedOn
  <2>3. AllBacked' /\ JobInv'
    BY <2>1, <2>2 DEF AuthorityInv, AllBacked, BackedCatalog, JobInv
  <2> QED
    BY <2>1, <2>2, <2>3 DEF AuthorityInv, Quarantined, Settling
<1>2. CASE Certify
  BY <1>2, AuthorityRecovery, AuthorityCommit, AuthorityClear, AuthorityProbe,
     AuthorityRecord DEF Certify
<1> QED
  BY <1>1, <1>2, AuthorityEnvironment, AuthorityBridge, AuthoritySync,
     AuthorityProxy, AuthorityStart, AuthorityRefresh, AuthorityFaults DEF Next

(* The inductive invariant holds in every behaviour. *)
THEOREM AuthorityHolds == Spec => []AuthorityInv
<1>1. Init => AuthorityInv
  BY AuthorityInit
<1>2. TypeOK /\ TypeOK' /\ AuthorityInv /\ [Next]_vars => AuthorityInv'
  BY AuthorityNext
<1> QED
  BY <1>1, <1>2, TypeCorrect, PTL DEF Spec

(* Whatever the catalog file, the live routes or a request on its way       *)
(* claims, the store holds the receipt: for any set of models, any number   *)
(* of crashes and any number of subjects.                                   *)
THEOREM ClaimsAlwaysBacked == Spec => []ClaimsBacked
<1>1. AuthorityInv => ClaimsBacked
  BY DEF AuthorityInv, AllBacked, BackedCatalog, ClaimsBacked
<1> QED
  BY <1>1, AuthorityHolds, PTL

(* A model that may be probed has no other tool authority.                  *)
THEOREM ProbesAlwaysExclusive == Spec => []ProbeWindowExclusive
<1>1. AuthorityInv => ProbeWindowExclusive
  BY DEF AuthorityInv, Guarded, Quarantined, ProbeWindowExclusive
<1> QED
  BY <1>1, AuthorityHolds, PTL

(* Only seven steps of the CLI write the store, and three of them lift a    *)
(* barrier.                                                                 *)
LEMMA StoreWriters ==
    ASSUME [Next]_vars, ~UNCHANGED store
    PROVE  \/ ClearAbsent \/ StageTargets \/ ClearTargets \/ AbandonTargets
           \/ CommitTargets \/ \E m \in Models : Record(m) \/ RecordSearchGate(m)
<1>1. Certify
  <2>1. ~UNCHANGED vars
    BY DEF vars
  <2>2. ~Environment
    BY DEF Environment, Reconfigure, Toggle
  <2>3. ~BridgeStart /\ ~BridgeCrash
    BY DEF BridgeStart, BridgeCrash
  <2>4. ~Sync
    BY DEF Sync, SyncBuild, SyncFirstGuard, SyncSecondGuard, SyncLastGuard, SyncWrite,
           SyncPublish, SyncAbandon, SyncRevert, SyncRevertCheck, SyncRestore, SyncStep
  <2>5. ~Proxy
    BY DEF Proxy, Resolve, Admit, Complete
  <2>6. ~Start
    BY DEF Start, StartRefresh, StartCertify
  <2>7. ~Refresh
    BY DEF Refresh, Build, WriteCatalog, Restart, Await, Verified, Restore, Restored
  <2>8. ~CliFaults
    BY DEF CliFaults, RefreshStops, RefreshFails, StepFails, CliCrash, SearchFails
  <2> QED
    BY <2>1, <2>2, <2>3, <2>4, <2>5, <2>6, <2>7, <2>8 DEF Next
<1>2. ~CheckAuthority /\ ~CheckConservative /\ ~Revalidate /\ ~RevalidateAll
  BY DEF CheckAuthority, CheckConservative, Revalidate, RevalidateAll
<1>3. ASSUME NEW x \in Models
      PROVE  /\ ~NextModel(x) /\ ~Probe(x) /\ ~RevalidateProbed(x) /\ ~RevalidateSearch(x)
             /\ ~ProbeSearch(x) /\ ~RevalidateSearched(x)
  BY DEF NextModel, Probe, RevalidateProbed, RevalidateSearch, ProbeSearch,
         RevalidateSearched
<1> QED
  BY <1>1, <1>2, <1>3 DEF Certify

LEMMA Lifters ==
    ASSUME TypeOK, [Next]_vars, NEW m \in store.pending, m \notin store'.pending
    PROVE  ClearAbsent \/ ClearTargets \/ AbandonTargets
<1>1. ~StageTargets
  BY DEF StageTargets, StoreStep, Stage, TypeOK, Stores
<1>2. ~CommitTargets
  BY DEF CommitTargets, StoreStep, Commit, TypeOK, Stores
<1>3. ASSUME NEW x \in Models
      PROVE  ~Record(x) /\ ~RecordSearchGate(x)
  BY DEF Record, RecordSearchGate, StoreStep, RecordPassed, RecordSearch, TypeOK, Stores
<1> QED
  BY <1>1, <1>2, <1>3, StoreWriters

(* A barrier is only lifted over a text-only or absent publication. *)
THEOREM BarriersLiftedOverText == Spec => BarrierLiftedOverText
<1>1. ASSUME TypeOK, AuthorityInv, [Next]_vars,
             NEW m \in store.pending \ store'.pending
      PROVE  ~ToolClaim(catalog[m]) /\ ~ToolClaim(bridge.routes[m])
  <2>1. CASE ClearAbsent
    <3>1. /\ pc = "clearAbsent" /\ m \in job.absent
      BY <1>1, <2>1 DEF ClearAbsent, StoreStep, Clear, TypeOK, Stores
    <3>2. job.goal = "authority"
      BY <1>1, <3>1 DEF AuthorityInv, JobInv
    <3>3. ReliedOn = job.absent
      BY <3>2 DEF ReliedOn
    <3> QED
      BY <1>1, <3>1, <3>3 DEF AuthorityInv, JobInv, Settling, RestartedSteps
  <2>2. CASE ClearTargets \/ AbandonTargets
    <3>1. /\ pc \in ConfirmedSteps /\ m \in job.targets
      BY <1>1, <2>2
      DEF ClearTargets, AbandonTargets, StoreStep, Clear, TypeOK, Stores, ConfirmedSteps
    <3>2. m \in Guarded
      BY <1>1, <3>1 DEF AuthorityInv, JobInv, Guarded
    <3> QED
      BY <1>1, <3>2 DEF AuthorityInv, Quarantined
  <2> QED
    BY <1>1, <2>1, <2>2, Lifters
<1>2. TypeOK /\ AuthorityInv /\ [Next]_vars =>
        [\A m \in store.pending \ store'.pending :
           ~ToolClaim(catalog[m]) /\ ~ToolClaim(bridge.routes[m])]_vars
  BY <1>1
<1> QED
  BY <1>2, TypeCorrect, AuthorityHolds, PTL DEF Spec, BarrierLiftedOverText

-----------------------------------------------------------------------------
(* The transaction implements ToolAuthority. *)

LEMMA WindowInit == Init => WindowOpen
BY DEF Init, WindowOpen, ProbeSteps

LEMMA WindowNext ==
    TypeOK /\ TypeOK' /\ AuthorityInv /\ WindowOpen /\ [Next]_vars => WindowOpen'
<1> SUFFICES ASSUME TypeOK, TypeOK', AuthorityInv, WindowOpen, [Next]_vars
             PROVE  WindowOpen'
  OBVIOUS
<1>1. CASE UNCHANGED vars
  BY <1>1 DEF vars, WindowOpen
<1>2. CASE Environment
  BY <1>2 DEF Environment, Reconfigure, Toggle, WindowOpen, TypeOK, Jobs
<1>3. CASE BridgeStart \/ BridgeCrash
  BY <1>3 DEF BridgeStart, BridgeCrash, WindowOpen
<1>4. CASE Sync
  BY <1>4 DEF Sync, SyncBuild, SyncFirstGuard, SyncSecondGuard, SyncLastGuard, SyncWrite,
              SyncPublish, SyncAbandon, SyncRevert, SyncRevertCheck, SyncRestore, SyncStep,
              WindowOpen
<1>5. CASE Proxy
  BY <1>5 DEF Proxy, Resolve, Admit, Complete, WindowOpen
<1>6. CASE Start \/ Refresh \/ CliFaults
  <2>1. CASE Start
    BY <2>1 DEF Start, StartRefresh, StartCertify, Begin, WindowOpen, ProbeSteps
  <2>2. CASE Refresh
    BY <2>2 DEF Refresh, Build, WriteCatalog, Restart, Await, Verified, Restore, Restored,
                Finish, WindowOpen, ProbeSteps, TypeOK, Jobs
  <2>3. CASE RefreshStops \/ RefreshFails \/ StepFails \/ CliCrash
    BY <2>3 DEF RefreshStops, RefreshFails, StepFails, CliCrash, Abort, Begin, Finish,
                WindowOpen, ProbeSteps
  <2>4. ASSUME NEW m \in Models, SearchFails(m)
        PROVE  WindowOpen'
    BY <2>4, NextTodoFields DEF SearchFails, WindowOpen, ProbeSteps
  <2> QED
    BY <1>6, <2>1, <2>2, <2>3, <2>4 DEF CliFaults
<1>7. CASE Certify
  <2>1. CASE CheckAuthority \/ ClearAbsent \/ StageTargets \/ CheckConservative
             \/ Revalidate \/ AbandonTargets \/ ClearTargets
    BY <2>1 DEF CheckAuthority, ClearAbsent, StageTargets, CheckConservative, Revalidate,
                AbandonTargets, ClearTargets, StoreStep, Abort, Begin, Finish, WindowOpen,
                ProbeSteps
  <2>2. CASE CommitTargets
    BY <2>2 DEF CommitTargets, StoreStep, Commit, WindowOpen, TypeOK, Stores, Jobs
  <2>3. CASE RevalidateAll
    BY <2>3 DEF RevalidateAll, Abort, Begin, Finish, WindowOpen, ProbeSteps
  <2>4. ASSUME NEW m \in Models,
               \/ NextModel(m) \/ Probe(m) \/ RevalidateProbed(m)
               \/ RevalidateSearch(m) \/ ProbeSearch(m) \/ RevalidateSearched(m)
        PROVE  WindowOpen'
    <3>1. CASE Abort
      BY <3>1 DEF Abort, Begin, Finish, WindowOpen, ProbeSteps
    <3>2. CASE ~Abort
      <4>1. pc \in {"next"} \cup ProbeSteps /\ store' = store
        BY <2>4, <3>2 DEF NextModel, Probe, RevalidateProbed, RevalidateSearch, ProbeSearch,
                          RevalidateSearched, ProbeSteps
      <4>2. job'.targets = job.targets
        <5>1. \/ job' = job
              \/ job' = NextTodo(m)
              \/ job' = [job EXCEPT !.model = {m}, !.first = Seen[m]]
              \/ job' = [job EXCEPT !.first = Seen[m]]
          BY <2>4, <3>2
          DEF NextModel, Probe, RevalidateProbed, RevalidateSearch, ProbeSearch,
              RevalidateSearched
        <5>2. /\ [job EXCEPT !.model = {m}, !.first = Seen[m]].targets = job.targets
              /\ [job EXCEPT !.first = Seen[m]].targets = job.targets
          BY DEF TypeOK, Jobs
        <5>3. NextTodo(m).targets = job.targets
          BY NextTodoFields
        <5> QED
          BY <5>1, <5>2, <5>3
      <4> QED
        BY <4>1, <4>2 DEF WindowOpen
    <3> QED
      BY <3>1, <3>2
  <2>5. ASSUME NEW m \in Models, Record(m) \/ RecordSearchGate(m)
        PROVE  WindowOpen'
    <3>1. CASE Abort
      BY <3>1 DEF Abort, Begin, Finish, WindowOpen, ProbeSteps
    <3>2. CASE ~Abort
      <4>1. pc \in ProbeSteps /\ store'.auth = store.auth
        BY <2>5, <3>2 DEF Record, RecordSearchGate, StoreStep, RecordPassed, RecordSearch,
                          ProbeSteps, TypeOK, Stores
      <4>2. job'.targets = job.targets
        BY <2>5, <3>2, NextTodoFields DEF Record, RecordSearchGate
      <4> QED
        BY <4>1, <4>2 DEF WindowOpen
    <3> QED
      BY <3>1, <3>2
  <2> QED
    BY <1>7, <2>1, <2>2, <2>3, <2>4, <2>5 DEF Certify
<1> QED
  BY <1>1, <1>2, <1>3, <1>4, <1>5, <1>6, <1>7 DEF Next

(* A step that withdraws no receipt and opens no window publishes at most   *)
(* what is granted and not being probed.                                    *)
LEMMA PublishStep ==
    ASSUME TypeOK, AuthorityInv', UNCHANGED store
    PROVE  Authority!Publish(Exposed')
<1>1. Exposed' \subseteq {m \in Models : store'.receipts[m] # NoReceipt}
  BY DEF AuthorityInv, AllBacked, BackedCatalog, Backed, Exposed
<1>2. ASSUME NEW m \in Exposed'
      PROVE  m \notin store'.auth
  <2>1. m \in store'.auth => Quarantined(m)'
    BY DEF AuthorityInv, Guarded
  <2> QED
    BY <1>2, <2>1 DEF Quarantined, Exposed
<1> QED
  BY <1>1, <1>2 DEF Authority!Publish

LEMMA ImplementsNext ==
    ASSUME TypeOK, AuthorityInv, AuthorityInv', WindowOpen, [Next]_vars
    PROVE  [Authority!Next]_Authority!authority
<1> SUFFICES Authority!Next \/ UNCHANGED Authority!authority
  OBVIOUS
<1>1. CASE UNCHANGED store
  <2>1. Exposed' \in SUBSET Models
    BY DEF Exposed
  <2> QED
    BY <1>1, <2>1, PublishStep DEF Authority!Next
<1>2. CASE UNCHANGED <<catalog, bridge, requests>>
  <2>1. Exposed' = Exposed
    BY <1>2 DEF Exposed
  <2>2. CASE ClearAbsent \/ StageTargets \/ ClearTargets \/ AbandonTargets
    <3>1. /\ store'.receipts = store.receipts
          /\ \/ store'.auth = store.auth \ job.absent
             \/ store'.auth = store.auth \ job.targets
      BY <2>2 DEF ClearAbsent, StageTargets, ClearTargets, AbandonTargets, StoreStep,
                  Clear, Stage, TypeOK, Stores
    <3>2. Authority!Close(job.absent) \/ Authority!Close(job.targets)
      BY <2>1, <3>1 DEF Authority!Close
    <3>3. job.absent \in SUBSET Models /\ job.targets \in SUBSET Models
      BY DEF TypeOK, Jobs
    <3> QED
      BY <3>2, <3>3 DEF Authority!Next
  <2>3. CASE CommitTargets
    <3>1. /\ pc = "commit"
          /\ \A m \in Models : store'.receipts[m] = IF m \in job.targets THEN NoReceipt
                                                    ELSE store.receipts[m]
          /\ store'.auth = store.auth \cup job.targets
      BY <2>3 DEF CommitTargets, StoreStep, Commit, TypeOK, Stores
    <3>2. job.targets \in SUBSET Models /\ job.targets \subseteq Guarded
      BY <3>1 DEF AuthorityInv, JobInv, ConfirmedSteps, Guarded, TypeOK, Jobs
    <3>3. job.targets \cap Exposed = {}
      BY <3>2 DEF AuthorityInv, Quarantined, Exposed
    <3>4. Authority!Open(job.targets)
      BY <2>1, <3>1, <3>3 DEF Authority!Open
    <3>5. job.targets \in SUBSET Models
      BY <3>2
    <3>6. \E ms \in SUBSET Models : Authority!Open(ms)
      <4> DEFINE ms == job.targets
      <4>1. ms \in SUBSET Models /\ Authority!Open(ms)
        BY <3>4, <3>5
      <4> HIDE DEF ms
      <4> QED
        BY <4>1 DEF Authority!Open
    <3> QED
      BY <3>6 DEF Authority!Next
  <2>4. ASSUME NEW m \in Models, Record(m)
        PROVE  Authority!Next
    <3>1. /\ pc = "record" /\ m \in job.model
          /\ \A x \in Models : store'.receipts[x] = IF x = m THEN job.rebound[m]
                                                    ELSE store.receipts[x]
          /\ store'.auth = store.auth
      BY <2>4 DEF Record, StoreStep, RecordPassed, TypeOK, Stores
    <3>2. m \in store.auth /\ job.rebound[m] # NoReceipt
      BY <3>1 DEF AuthorityInv, JobInv, ConfirmedSteps, ProbeSteps, WindowOpen
    <3>3. Authority!Earn(m)
      BY <2>1, <3>1, <3>2 DEF Authority!Earn
    <3> QED
      BY <3>3 DEF Authority!Next
  <2>5. ASSUME NEW m \in Models, RecordSearchGate(m)
        PROVE  UNCHANGED Authority!authority
    <3>1. store'.receipts = store.receipts /\ store'.auth = store.auth
      BY <2>5 DEF RecordSearchGate, RecordSearch, TypeOK, Stores
    <3> QED
      BY <2>1, <3>1 DEF Authority!authority
  <2>6. ~UNCHANGED store =>
          \/ ClearAbsent \/ StageTargets \/ ClearTargets \/ AbandonTargets
          \/ CommitTargets \/ \E m \in Models : Record(m) \/ RecordSearchGate(m)
    BY StoreWriters
  <2> QED
    BY <1>1, <2>2, <2>3, <2>4, <2>5, <2>6
<1>3. ~UNCHANGED store => UNCHANGED <<catalog, bridge, requests>>
  BY StoreWriters DEF ClearAbsent, StageTargets, ClearTargets, AbandonTargets,
                      CommitTargets, Record, RecordSearchGate, StoreStep
<1> QED
  BY <1>1, <1>2, <1>3

(* The whole transaction, with its crashes, faults and rollbacks, is an     *)
(* implementation of ToolAuthority.                                         *)
THEOREM TransactionImplementsToolAuthority == Spec => ImplementsToolAuthority
<1>1. ASSUME Init
      PROVE  Authority!Init
  <2>1. \A m \in Models : ~ToolClaim(catalog[m]) /\ bridge.routes[m] = catalog[m]
    BY <1>1 DEF Init, ToolClaim, NoBridge
  <2>2. requests = {}
    BY <1>1 DEF Init
  <2>3. Exposed = {}
    BY <2>1, <2>2 DEF Exposed
  <2> QED
    BY <1>1, <2>3 DEF Init, Authority!Init, EmptyStore
<1>2. TypeOK /\ AuthorityInv /\ AuthorityInv' /\ WindowOpen /\ [Next]_vars
        => [Authority!Next]_Authority!authority
  BY ImplementsNext
<1>3. Init => WindowOpen
  BY WindowInit
<1>4. TypeOK /\ TypeOK' /\ AuthorityInv /\ WindowOpen /\ [Next]_vars => WindowOpen'
  BY WindowNext
<1>5. Spec => []WindowOpen
  BY <1>3, <1>4, TypeCorrect, AuthorityHolds, PTL DEF Spec
<1> QED
  BY <1>1, <1>2, <1>5, TypeCorrect, AuthorityHolds, PTL
  DEF Spec, Authority!Spec, ImplementsToolAuthority

-----------------------------------------------------------------------------
(* Receipts are evidence. *)

(* A step that leaves the history alone, earns nothing and probes nothing.  *)
LEMMA IdleStep ==
    ASSUME TypeOK, TypeOK', EvidenceInv,
           UNCHANGED evidence,
           job'.model = {},
           \A m \in Models : store'.receipts[m] \in {store.receipts[m], NoReceipt},
           store'.search \subseteq store.search,
           \A m \in store'.search : store'.receipts[m] = store.receipts[m]
    PROVE  EvidenceInv'
<1>1. ReceiptsEarned'
  BY DEF EvidenceInv, ReceiptsEarned, TypeOK, Stores
<1> QED
  BY <1>1 DEF EvidenceInv

(* What Abort and Finish leave of the job. *)
LEMMA AbortFields ==
    ASSUME TypeOK, Abort
    PROVE  job'.model = {}
<1>1. CASE Finish
  BY <1>1 DEF Finish, NoJob
<1>2. CASE Begin("recovery", [job EXCEPT !.todo = {}, !.model = {}, !.first = NoReceipt])
  BY <1>2 DEF Begin, TypeOK, Jobs
<1> QED
  BY <1>1, <1>2 DEF Abort

LEMMA AbortEarns ==
    ASSUME TypeOK, TypeOK', EvidenceInv, Abort \/ Finish,
           UNCHANGED evidence,
           store'.receipts = store.receipts, store'.search = store.search
    PROVE  EvidenceInv'
<1>1. job'.model = {}
  BY AbortFields DEF Finish, NoJob
<1> QED
  BY <1>1, IdleStep DEF TypeOK

(* A step that moves nothing Probing and ReceiptsEarned speak of. *)
LEMMA ElsewhereEarns ==
    ASSUME EvidenceInv, Seen' = Seen, UNCHANGED <<store, pc, job, evidence>>
    PROVE  EvidenceInv'
BY DEF EvidenceInv, Probing, ReceiptsEarned

(* The subject a passed run began with is live again: the run is evidence.  *)
LEMMA EvidenceEnvironment ==
    ASSUME TypeOK, TypeOK', EvidenceInv, Environment
    PROVE  EvidenceInv'
<1>1. evidence' = Confirmed(Seen') /\ UNCHANGED <<store, pc, job>>
  BY DEF Environment, Reconfigure, Toggle
<1>2. /\ evidence.direct \subseteq evidence'.direct
      /\ evidence.search \subseteq evidence'.search
      /\ pc = "probed" => Again(Seen') \subseteq evidence'.direct
      /\ pc = "searched" => Again(Seen') \subseteq evidence'.search
  BY <1>1 DEF Confirmed, TypeOK
<1>3. ReceiptsEarned'
  BY <1>1, <1>2 DEF EvidenceInv, ReceiptsEarned
<1>4. ASSUME NEW m \in job'.model
      PROVE  Probing(m)'
  <2>1. Probing(m) /\ m \in job.model
    BY <1>1, <1>4 DEF EvidenceInv
  <2>2. Seen'[m] = job.first => <<m, Seen'[m]>> \in Again(Seen')
    BY <2>1 DEF Again
  <2>3. CASE pc \in {"probed", "searched"} /\ Seen'[m] = job.rebound[m]
    BY <1>1, <1>2, <2>1, <2>2, <2>3 DEF Probing
  <2>4. CASE ~(pc \in {"probed", "searched"} /\ Seen'[m] = job.rebound[m])
    BY <1>1, <1>2, <2>1, <2>4 DEF Probing
  <2> QED
    BY <2>3, <2>4
<1> QED
  BY <1>3, <1>4 DEF EvidenceInv

(* Steps of the bridge, the proxy and the refresh routine. *)
LEMMA EvidenceShared ==
    ASSUME TypeOK, TypeOK', AuthorityInv, EvidenceInv,
           BridgeStart \/ BridgeCrash \/ Sync \/ Proxy \/ Start \/ Refresh
    PROVE  EvidenceInv'
<1>1. CASE BridgeStart \/ BridgeCrash \/ Sync \/ Proxy
  <2>1. /\ world'.config = world.config /\ world'.loaded = world.loaded
        /\ UNCHANGED <<store, pc, job, evidence>>
    <3>1. CASE BridgeStart \/ BridgeCrash
      BY <3>1 DEF BridgeStart, BridgeCrash, SpendFault, TypeOK, Worlds
    <3>2. CASE Sync
      BY <3>2 DEF Sync, SyncBuild, SyncFirstGuard, SyncSecondGuard, SyncLastGuard, SyncWrite,
                  SyncPublish, SyncAbandon, SyncRevert, SyncRevertCheck, SyncRestore, SyncStep
    <3>3. CASE Proxy
      BY <3>3 DEF Proxy, Resolve, Admit, Complete
    <3> QED
      BY <1>1, <3>1, <3>2, <3>3
  <2> QED
    BY <2>1, ElsewhereEarns DEF Seen
<1>2. CASE Start
  <2>1. /\ job'.model = {}
        /\ UNCHANGED <<world, store, evidence>>
    <3>1. CASE StartRefresh
      BY <3>1 DEF StartRefresh, Begin, NoJob
    <3>2. ASSUME NEW all \in BOOLEAN, NEW onlyUncertified \in BOOLEAN,
                 NEW directOnly \in BOOLEAN, NEW m \in Models,
                 StartCertify(all, onlyUncertified, directOnly, m)
          PROVE  job'.model = {} /\ UNCHANGED <<world, store, evidence>>
      BY <3>2 DEF StartCertify, Begin, NoJob
    <3> QED
      BY <1>2, <3>1, <3>2 DEF Start
  <2> QED
    BY <2>1, IdleStep DEF TypeOK
<1>3. CASE Build
  <2>1. job'.model = job.model /\ pc = "build" /\ UNCHANGED <<world, store, evidence>>
    BY <1>3 DEF Build, TypeOK, Jobs
  <2>2. job'.model = {}
    BY <2>1 DEF AuthorityInv, JobInv, ProbeSteps
  <2> QED
    BY <2>1, <2>2, IdleStep DEF TypeOK
<1>4. CASE WriteCatalog \/ Restart \/ Await \/ Verified \/ Restore \/ Restored
  <2>1. UNCHANGED <<store, evidence>>
    BY <1>4 DEF WriteCatalog, Restart, Await, Verified, Restore, Restored
  <2>2. /\ pc \notin ProbeSteps
        /\ job' \in {job, NoJob}
    BY <1>4 DEF WriteCatalog, Restart, Await, Verified, Restore, Restored, Finish,
                ProbeSteps, TypeOK, Jobs
  <2>3. job'.model = {}
    BY <2>2 DEF AuthorityInv, JobInv, NoJob
  <2> QED
    BY <2>1, <2>3, IdleStep DEF TypeOK
<1> QED
  BY <1>1, <1>2, <1>3, <1>4 DEF Refresh

(* Steps of the transaction outside the probe runs. *)
LEMMA EvidenceBarrier ==
    ASSUME TypeOK, TypeOK', AuthorityInv, EvidenceInv,
           \/ CheckAuthority \/ ClearAbsent \/ StageTargets \/ CheckConservative
           \/ Revalidate \/ CommitTargets \/ RevalidateAll \/ ClearTargets
           \/ AbandonTargets
    PROVE  EvidenceInv'
<1>1. job.model = {}
  BY DEF CheckAuthority, ClearAbsent, StageTargets, CheckConservative, Revalidate,
         CommitTargets, RevalidateAll, ClearTargets, AbandonTargets, StoreStep,
         AuthorityInv, JobInv, ProbeSteps
<1>2. UNCHANGED <<world, evidence>>
  BY DEF CheckAuthority, ClearAbsent, StageTargets, CheckConservative, Revalidate,
         CommitTargets, RevalidateAll, ClearTargets, AbandonTargets, StoreStep
<1>3. job'.model = {}
  <2>1. CASE Finish
    BY <2>1 DEF Finish, NoJob
  <2>2. CASE Abort
    BY <2>2, AbortFields
  <2>3. CASE job' = job
    BY <1>1, <2>3
  <2>4. CASE StageTargets
    BY <1>1, <2>4 DEF StageTargets, Begin, TypeOK, Jobs
  <2>5. CASE CheckConservative /\ ~Finish
    <3>1. job' = [job EXCEPT !.confirmed = TRUE, !.rebound = job.seen]
      BY <2>5 DEF CheckConservative
    <3> QED
      BY <1>1, <3>1 DEF TypeOK, Jobs
  <2>6. CASE CommitTargets
    BY <1>1, <2>6 DEF CommitTargets, TypeOK, Jobs
  <2>7. CASE ClearTargets
    <3>1. job' = [[job EXCEPT !.cleared = TRUE] EXCEPT !.goal = "final"]
      BY <2>7 DEF ClearTargets, Begin
    <3> QED
      BY <1>1, <3>1 DEF TypeOK, Jobs
  <2>8. CheckAuthority \/ ClearAbsent \/ Revalidate \/ RevalidateAll \/ AbandonTargets
           => Finish \/ Abort \/ job' = job
    BY DEF CheckAuthority, ClearAbsent, Revalidate, RevalidateAll, AbandonTargets
  <2> QED
    BY <2>1, <2>2, <2>3, <2>4, <2>5, <2>6, <2>7, <2>8
<1>4. /\ \A m \in Models : store'.receipts[m] \in {store.receipts[m], NoReceipt}
      /\ store'.search \subseteq store.search
      /\ \A m \in store'.search : store'.receipts[m] = store.receipts[m]
  <2>1. CASE UNCHANGED store
    BY <2>1
  <2>2. CASE CommitTargets
    BY <2>2 DEF CommitTargets, StoreStep, Commit, TypeOK, Stores
  <2>3. CASE ClearAbsent \/ StageTargets \/ ClearTargets \/ AbandonTargets
    BY <2>3 DEF ClearAbsent, StageTargets, ClearTargets, AbandonTargets, StoreStep, Clear,
                Stage, TypeOK, Stores
  <2> QED
    BY <2>1, <2>2, <2>3 DEF CheckAuthority, CheckConservative, Revalidate, RevalidateAll
<1> QED
  BY <1>2, <1>3, <1>4, IdleStep

LEMMA EvidenceFaults ==
    ASSUME TypeOK, TypeOK', AuthorityInv, EvidenceInv, CliFaults
    PROVE  EvidenceInv'
<1>1. UNCHANGED <<store, evidence>>
  BY DEF CliFaults, RefreshStops, RefreshFails, StepFails, CliCrash, SearchFails
<1>2. CASE Abort \/ Finish
  BY <1>1, <1>2, AbortEarns
<1>3. CASE RefreshFails
  <2>1. job' = job /\ job.model = {}
    BY <1>3 DEF RefreshFails, AuthorityInv, JobInv, ProbeSteps
  <2> QED
    BY <1>1, <2>1, IdleStep DEF TypeOK
<1>4. ASSUME NEW m \in Models, SearchFails(m)
      PROVE  EvidenceInv'
  <2>1. job' = NextTodo(m)
    BY <1>4 DEF SearchFails
  <2>2. job'.model = {}
    BY <2>1 DEF NextTodo, TypeOK, Jobs
  <2> QED
    BY <1>1, <2>2, IdleStep DEF TypeOK
<1> QED
  BY <1>2, <1>3, <1>4 DEF CliFaults, RefreshStops, StepFails, CliCrash

LEMMA EvidenceProbe ==
    ASSUME TypeOK, TypeOK', AuthorityInv, EvidenceInv, NEW m \in Models,
           \/ NextModel(m) \/ Probe(m) \/ RevalidateProbed(m)
           \/ RevalidateSearch(m) \/ ProbeSearch(m) \/ RevalidateSearched(m)
    PROVE  EvidenceInv'
<1>0. UNCHANGED <<world, store>>
  BY DEF NextModel, Probe, RevalidateProbed, RevalidateSearch, ProbeSearch, RevalidateSearched
<1>1. CASE Abort /\ UNCHANGED evidence
  BY <1>0, <1>1, AbortEarns
<1>2. CASE ProbeSearch(m) /\ pc' = "next"
  <2>1. job' = NextTodo(m) /\ UNCHANGED evidence
    BY <1>2 DEF ProbeSearch
  <2>2. job'.model = {}
    BY <2>1 DEF NextTodo, TypeOK, Jobs
  <2> QED
    BY <1>0, <2>1, <2>2, IdleStep DEF TypeOK
<1>3. CASE ~Abort /\ (NextModel(m) \/ RevalidateSearch(m))
  <2>1. /\ pc' \in {"probe", "searchProbe"} /\ pc \in ConfirmedSteps
        /\ Matching({m}) /\ UNCHANGED <<world, store, evidence>>
    BY <1>3 DEF NextModel, RevalidateSearch, ConfirmedSteps, ProbeSteps
  <2>2. /\ job'.rebound = job.rebound /\ job'.first = Seen[m]
        /\ job'.model = {m}
    <3>1. CASE NextModel(m)
      <4>1. job' = [job EXCEPT !.model = {m}, !.first = Seen[m]]
        BY <1>3, <3>1 DEF NextModel
      <4> QED
        BY <4>1 DEF TypeOK, Jobs
    <3>2. CASE RevalidateSearch(m)
      <4>1. m \in job.model /\ job' = [job EXCEPT !.first = Seen[m]]
        BY <1>3, <3>2 DEF RevalidateSearch
      <4>2. job.model = {m}
        BY <4>1 DEF EvidenceInv, Probing
      <4> QED
        BY <4>1, <4>2 DEF TypeOK, Jobs
    <3> QED
      BY <1>3, <3>1, <3>2
  <2>3. Seen[m] = job.rebound[m]
    BY <2>1 DEF Matching
  <2>4. Probing(m)'
    BY <2>1, <2>2, <2>3 DEF Probing
  <2> QED
    BY <2>1, <2>2, <2>4 DEF EvidenceInv, ReceiptsEarned
<1>4. CASE /\ ~Abort
           /\ \/ Probe(m) \/ RevalidateProbed(m) \/ RevalidateSearched(m)
              \/ ProbeSearch(m) /\ pc' # "next"
  <2>1. /\ m \in job.model /\ job' = job /\ pc \in ConfirmedSteps
        /\ \/ /\ pc = "probe" /\ pc' = "probed"
              /\ evidence' = [evidence EXCEPT !.direct = @ \cup Again(Seen)]
           \/ /\ pc = "searchProbe" /\ pc' = "searched"
              /\ evidence' = [evidence EXCEPT !.search = @ \cup Again(Seen)]
           \/ pc = "probed" /\ pc' = "record" /\ Matching({m}) /\ UNCHANGED evidence
           \/ pc = "searched" /\ pc' = "recordSearch" /\ Matching({m}) /\ UNCHANGED evidence
    BY <1>4 DEF Probe, RevalidateProbed, RevalidateSearched, ProbeSearch, ConfirmedSteps,
                ProbeSteps
  <2>2. Probing(m) /\ job.model = {m}
    BY <2>1 DEF EvidenceInv, Probing
  <2>3. /\ evidence.direct \subseteq evidence'.direct
        /\ evidence.search \subseteq evidence'.search
        /\ pc = "probe" => Again(Seen) \subseteq evidence'.direct
        /\ pc = "searchProbe" => Again(Seen) \subseteq evidence'.search
    BY <2>1 DEF TypeOK
  <2>4. Seen[m] = job.first => <<m, Seen[m]>> \in Again(Seen)
    BY <2>1 DEF Again
  <2>5. Matching({m}) => Seen[m] = job.rebound[m]
    BY DEF Matching
  <2>0. Seen' = Seen
    BY <1>0 DEF Seen
  <2>6. Probing(m)'
    <3>1. CASE pc = "probe"
      BY <2>0, <2>1, <2>2, <2>3, <2>4, <3>1 DEF Probing
    <3>2. CASE pc = "searchProbe"
      BY <2>0, <2>1, <2>2, <2>3, <2>4, <3>2 DEF Probing
    <3>3. CASE pc \in {"probed", "searched"}
      BY <2>0, <2>1, <2>2, <2>5, <3>3 DEF Probing
    <3> QED
      BY <2>1, <3>1, <3>2, <3>3
  <2>7. ReceiptsEarned'
    BY <1>0, <2>3 DEF EvidenceInv, ReceiptsEarned
  <2> QED
    BY <1>0, <2>1, <2>2, <2>6, <2>7 DEF EvidenceInv
<1>5. \/ Abort /\ UNCHANGED evidence
      \/ ProbeSearch(m) /\ pc' = "next"
      \/ ~Abort
  BY DEF NextModel, Probe, RevalidateProbed, RevalidateSearch, ProbeSearch,
         RevalidateSearched, Abort, Begin, Finish
<1> QED
  BY <1>1, <1>2, <1>3, <1>4, <1>5

LEMMA EvidenceRecord ==
    ASSUME TypeOK, TypeOK', AuthorityInv, EvidenceInv, NEW m \in Models,
           Record(m) \/ RecordSearchGate(m)
    PROVE  EvidenceInv'
<1>0. /\ UNCHANGED <<world, evidence>> /\ m \in job.model
      /\ job.model = {m} /\ Probing(m)
  BY DEF Record, RecordSearchGate, StoreStep, EvidenceInv, Probing
<1>1. CASE Abort /\ UNCHANGED store
  BY <1>0, <1>1, AbortEarns
<1>2. CASE ~(Abort /\ UNCHANGED store)
  <2>1. /\ job' \in {job, NextTodo(m)}
        /\ pc' \in {"searchCheck", "next"} /\ (pc' = "next" => job' = NextTodo(m))
    BY <1>2 DEF Record, RecordSearchGate
  <2>2. /\ job'.seen = job.seen /\ job'.rebound = job.rebound
        /\ job'.model \in {job.model, {}} /\ (job' = NextTodo(m) => job'.model = {})
    BY <2>1 DEF NextTodo, TypeOK, Jobs
  <2>3. ASSUME NEW x \in job'.model
        PROVE  Probing(x)'
    <3>1. x = m /\ job' = job /\ pc' = "searchCheck"
      BY <1>0, <2>1, <2>2, <2>3
    <3> QED
      BY <1>0, <3>1 DEF Probing
  <2>4. ReceiptsEarned'
    <3>1. CASE Record(m)
      <4>1. /\ \A x \in Models : store'.receipts[x] = IF x = m THEN job.rebound[m]
                                                       ELSE store.receipts[x]
            /\ store'.search = store.search \ {m} /\ pc = "record"
        BY <3>1 DEF Record, StoreStep, RecordPassed, TypeOK, Stores
      <4> QED
        BY <1>0, <4>1 DEF EvidenceInv, ReceiptsEarned, Probing
    <3>2. CASE RecordSearchGate(m)
      <4>1. /\ store'.receipts = store.receipts /\ pc = "recordSearch"
            /\ store.receipts[m] = job.rebound[m]
            /\ store'.search = store.search \cup {m}
        BY <1>2, <3>2 DEF RecordSearchGate, RecordSearch, RecordSearchAllowed, TypeOK, Stores
      <4> QED
        BY <1>0, <4>1 DEF EvidenceInv, ReceiptsEarned, Probing
    <3> QED
      BY <3>1, <3>2
  <2> QED
    BY <1>0, <2>2, <2>3, <2>4 DEF EvidenceInv
<1> QED
  BY <1>1, <1>2

LEMMA EvidenceInit == Init => EvidenceInv
<1> SUFFICES ASSUME Init PROVE EvidenceInv
  OBVIOUS
<1>1. job = NoJob /\ store = EmptyStore
  BY DEF Init
<1> QED
  BY <1>1 DEF EvidenceInv, ReceiptsEarned, EmptyStore, NoJob, NoReceipt

LEMMA EvidenceNext ==
    TypeOK /\ TypeOK' /\ AuthorityInv /\ EvidenceInv /\ [Next]_vars => EvidenceInv'
<1> SUFFICES ASSUME TypeOK, TypeOK', AuthorityInv, EvidenceInv, [Next]_vars
             PROVE  EvidenceInv'
  OBVIOUS
<1>1. CASE UNCHANGED vars
  BY <1>1, ElsewhereEarns DEF vars, Seen
<1>2. CASE Certify
  BY <1>2, EvidenceBarrier, EvidenceProbe, EvidenceRecord DEF Certify
<1> QED
  BY <1>1, <1>2, EvidenceEnvironment, EvidenceShared, EvidenceFaults DEF Next

(* However often a model is changed, changed back, unloaded and reloaded:   *)
(* every receipt and every toolSearch gate the store ever holds names a     *)
(* subject that was live when a run of its probes began and live once more  *)
(* after that run had passed.  What was live in between is not told.        *)
THEOREM ReceiptsAlwaysEarned == Spec => []ReceiptsEarned
<1>1. Init => EvidenceInv
  BY EvidenceInit
<1>2. TypeOK /\ TypeOK' /\ AuthorityInv /\ EvidenceInv /\ [Next]_vars => EvidenceInv'
  BY EvidenceNext
<1>3. EvidenceInv => ReceiptsEarned
  BY DEF EvidenceInv
<1> QED
  BY <1>1, <1>2, <1>3, TypeCorrect, AuthorityHolds, PTL DEF Spec

=============================================================================
