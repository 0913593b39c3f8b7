----------------------- MODULE CertificationInvariant -----------------------
(***************************************************************************)
(* The inductive invariant behind the safety properties of                 *)
(* CertificationTransaction.  ClaimsBacked and ProbeWindowExclusive speak  *)
(* of what is published; they are preserved because of what is still in    *)
(* flight: the plan of a synchronization, the snapshot a refresh would     *)
(* restore, the routes a request already resolved.                         *)
(***************************************************************************)
EXTENDS CertificationTransaction

(* Steps at which the refresh routine may still write job.plan or           *)
(* job.previous to the catalog file.                                        *)
RefreshSteps == {"write", "restart", "await", "verify", "restore"}

(* Steps of the transaction after the conservative catalog was confirmed.   *)
ProbeSteps == {"probe", "probed", "record", "searchCheck", "searchProbe",
               "searched", "recordSearch"}
ConfirmedSteps == {"revalidate", "commit", "next", "clear", "abandon"} \cup ProbeSteps

(* Steps after the restart of a refresh whose caller reads the catalog back,*)
(* and the models it then relies on: recovered ones that must be absent,    *)
(* targets that must be text-only.                                          *)
RestartedSteps == {"await", "verify", "checkAuthority", "clearAbsent",
                   "checkConservative"}

ReliedOn == CASE job.goal = "authority"    -> job.absent
              [] job.goal = "conservative" -> job.targets
              [] OTHER                     -> {}

BackedCatalog(c) == \A m \in Models : Backed(store, m, c[m])

(* Every copy of a claim is backed, those not yet published included.       *)
AllBacked ==
    /\ BackedCatalog(catalog)
    /\ BackedCatalog(bridge.routes)
    /\ BackedCatalog(bridge.current)
    /\ BackedCatalog(bridge.plan)
    /\ \A r \in requests : Backed(store, r.model, r.claim)
    /\ pc \in RefreshSteps => BackedCatalog(job.plan) /\ BackedCatalog(job.previous)

(* Models that may be probed, now or after a retry of the current step. *)
Guarded == store.auth \cup (IF job.confirmed /\ ~job.cleared THEN job.targets ELSE {})

(* No copy of a claim gives a guarded model tools, and no Desktop request   *)
(* for it got past the gate.                                                *)
Quarantined(m) ==
    /\ m \in store.pending
    /\ ~ToolClaim(catalog[m])
    /\ ~ToolClaim(bridge.routes[m])
    /\ ~ToolClaim(bridge.current[m])
    /\ ~ToolClaim(bridge.plan[m])
    /\ \A r \in requests : r.model = m => ~r.sent /\ ~ToolClaim(r.claim)
    /\ pc \in RefreshSteps => ~ToolClaim(job.plan[m]) /\ ~ToolClaim(job.previous[m])

(* Between that restart and the read-back, the new bridge claims no more    *)
(* than the file it started from, and its synchronizer does not get past    *)
(* the first guard, so the file is stable.                                  *)
Settling(m) ==
    /\ bridge.phase \in {"idle", "built"}
    /\ ~ToolClaim(bridge.plan[m]) \/ ToolClaim(catalog[m])
    /\ ~ToolClaim(bridge.routes[m]) \/ ToolClaim(catalog[m])
    /\ ~ToolClaim(bridge.current[m]) \/ ToolClaim(catalog[m])
    /\ \A r \in requests : r.model = m =>
          ~r.sent /\ (~ToolClaim(r.claim) \/ ToolClaim(catalog[m]))

(* Where the CLI is determines what its local variables mean. *)
JobInv ==
    /\ pc \in ConfirmedSteps => job.confirmed /\ ~job.cleared
    /\ job.model \subseteq job.targets /\ job.todo \subseteq job.targets
    /\ pc \notin ProbeSteps => job.model = {}
    /\ pc \notin {"idle", "stage"} => ReliedOn \subseteq store.pending
    /\ pc \in {"checkAuthority", "clearAbsent", "stage"} => job.goal = "authority"
    /\ pc = "checkConservative" => job.goal = "conservative"
    /\ pc = "clearAbsent" => \A m \in job.absent : ~ToolClaim(catalog[m])
    /\ job.goal \in {"plain", "authority"} => ~job.confirmed
    /\ job.goal = "recovery" => job.confirmed
    /\ job.cleared <=> job.goal = "final"
    /\ job.confirmed => \A m \in job.targets : job.rebound[m] # NoReceipt

AuthorityInv ==
    /\ ValidStore(store)
    /\ AllBacked
    /\ \A m \in Guarded : Quarantined(m)
    /\ pc \in RestartedSteps => \A m \in ReliedOn : Settling(m)
    /\ JobInv

(* Between the commit and the clear the probe window of the targets is open.*)
WindowOpen ==
    pc \in {"next", "clear"} \cup ProbeSteps => job.targets \subseteq store.auth

(* What the probed subject and the history say of each other. *)
Probing(m) ==
    /\ job.model = {m}
    /\ pc \in {"probe", "probed", "searchProbe", "searched"}
          => job.first = job.rebound[m]
    /\ pc = "probed" /\ Seen[m] = job.rebound[m]
          => <<m, job.rebound[m]>> \in evidence.direct
    /\ pc = "record" => <<m, job.rebound[m]>> \in evidence.direct
    /\ pc = "searched" /\ Seen[m] = job.rebound[m]
          => <<m, job.rebound[m]>> \in evidence.search
    /\ pc = "recordSearch" => <<m, job.rebound[m]>> \in evidence.search

EvidenceInv ==
    /\ \A m \in job.model : Probing(m)
    /\ ReceiptsEarned
=============================================================================
