---- MODULE CompatibilityGate ----
(***************************************************************************)
(* The compatibility gate of the running bridge (runtime-compatibility.mjs)*)
(* and the Codex executable it watches.  The user may replace the          *)
(* executable at any moment; every replacement has a new identity.  All    *)
(* requests that arrive while an inspection runs share it.                 *)
(***************************************************************************)
EXTENDS Naturals

CONSTANTS MaxUpdates,   \* replacements of the executable
          MaxFailures   \* reads and probes that fail

ASSUME GateAssumption == MaxUpdates \in Nat /\ MaxFailures \in Nat

VARIABLES
  binary,    \* the executable in place
  unfit,     \* the executables this release does not support
  gate,
  failures,
  recent     \* history: what was in place since the inspection began

gateVars == <<binary, unfit, gate, failures, recent>>

Versions == 0 .. MaxUpdates
Statuses == {"compatible", "checking", "check-failed", "update-required"}
\* What an inspection does next; "off" when none runs.
Stages == {"off", "identity", "before", "probes", "after"}

\* initialize() passed, or serve would not have started the server.
GateInit ==
  /\ binary = 0 /\ unfit = {} /\ failures = 0 /\ recent = {0}
  /\ gate = [status |-> "compatible", observed |-> 0, stage |-> "off", before |-> 0, probed |-> 0]

GateTypeOK ==
  /\ binary \in Versions /\ unfit \subseteq Versions /\ recent \subseteq Versions
  /\ failures \in 0 .. MaxFailures
  /\ gate \in [status : Statuses, observed : Versions, stage : Stages,
               before : Versions, probed : Versions]

Latched == gate.status = "update-required"
Pending == gate.stage # "off"

Replace ==
  /\ binary < MaxUpdates
  /\ binary' = binary + 1
  /\ unfit' \in {unfit, unfit \cup {binary + 1}}
  /\ recent' = recent \cup {binary + 1}
  /\ UNCHANGED <<gate, failures>>

\* History: the period whose binaries the next conclusion may speak for.
Watch == recent' = IF Pending THEN recent ELSE {binary}

\* inspect() for a request or a tick: nothing after the latch, join the one that runs, or begin.
Inspect ==
  IF Latched \/ Pending THEN UNCHANGED <<binary, unfit, gate, failures>>
  ELSE /\ gate' = IF gate.status = "compatible" THEN [gate EXCEPT !.stage = "identity"]
                  ELSE [gate EXCEPT !.stage = "before", !.status = "checking"]
       /\ UNCHANGED <<binary, unfit, failures>>

Concluded(observed, status) ==
  [status |-> status, observed |-> observed, stage |-> "off", before |-> 0, probed |-> 0]
Conclude(status) == gate' = Concluded(gate.observed, status)
Verdict == IF gate.probed \in unfit THEN "update-required" ELSE "compatible"

\* The cheap check of an open gate.
ReadIdentity ==
  /\ gate.stage = "identity"
  /\ IF binary = gate.observed THEN Conclude("compatible")
     ELSE gate' = [gate EXCEPT !.stage = "before", !.status = "checking"]
  /\ UNCHANGED <<binary, unfit, failures, recent>>

ReadBefore ==
  /\ gate.stage = "before"
  /\ gate' = [gate EXCEPT !.stage = "probes", !.before = binary]
  /\ UNCHANGED <<binary, unfit, failures, recent>>

\* The catalog and version probes run the executable then in place.
Probe ==
  /\ gate.stage = "probes"
  /\ gate' = [gate EXCEPT !.stage = "after", !.probed = binary]
  /\ UNCHANGED <<binary, unfit, failures, recent>>

\* Fault: the identity is not read again after the probes.
MutReadAfter ==
  /\ gate.stage = "after"
  /\ gate' = Concluded(binary, Verdict)
  /\ UNCHANGED <<binary, unfit, failures, recent>>
ReadAfter ==
  /\ gate.stage = "after"
  /\ IF binary # gate.before THEN Conclude("check-failed")
     ELSE gate' = Concluded(binary, Verdict)
  /\ UNCHANGED <<binary, unfit, failures, recent>>

CheckFails ==
  /\ Pending /\ failures < MaxFailures
  /\ failures' = failures + 1
  /\ Conclude("check-failed")
  /\ UNCHANGED <<binary, unfit, recent>>

InspectionStep == ReadIdentity \/ ReadBefore \/ Probe \/ ReadAfter \/ CheckFails
====
