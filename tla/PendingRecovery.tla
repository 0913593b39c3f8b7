--------------------------- MODULE PendingRecovery ---------------------------
(***************************************************************************)
(* What a full refresh promises about the integration it takes apart: a    *)
(* checkpoint on disk covers the integration from before its configuration *)
(* is suspended until after it is active again, its phase never runs ahead *)
(* of the configuration, and no other command changes the integration in   *)
(* the meantime.  FullRefresh implements this module.                      *)
(***************************************************************************)
EXTENDS Naturals, Sequences

CONSTANT None

VARIABLES
    pending,     \* the recorded phase, or None
    integration  \* "active", "suspended" by this run, or "off"

vars == <<pending, integration>>

Phases == <<"prepared", "first-quit-complete", "suspended", "native-opened",
            "cache-refreshed", "second-quit-complete", "reactivated",
            "completed">>

Init == pending = None /\ integration = "active"

Begin == /\ pending = None
         /\ pending' = Phases[1]
         /\ UNCHANGED integration

(* The phases "suspended" to "second-quit-complete" are recorded over a     *)
(* suspended configuration, "reactivated" and "completed" over an active one. *)
Advance ==
    \E i \in 1 .. Len(Phases) - 1 :
        /\ pending = Phases[i]
        /\ pending' = Phases[i + 1]
        /\ i + 1 \in 3 .. 6 => integration = "suspended"
        /\ i + 1 \in 7 .. 8 => integration = "active"
        /\ UNCHANGED integration

(* Suspension, reactivation, and their rollbacks. *)
Switch == /\ pending \in {"first-quit-complete", "second-quit-complete"}
          /\ integration # "off"
          /\ integration' = IF integration = "active" THEN "suspended" ELSE "active"
          /\ UNCHANGED pending

(* A run that never got to suspend leaves nothing behind. *)
Discard == /\ \/ pending = "prepared"
              \/ pending = "first-quit-complete" /\ integration # "suspended"
           /\ pending' = None
           /\ UNCHANGED integration

Complete == /\ pending = "completed"
            /\ pending' = None
            /\ UNCHANGED integration

(* Any other lifecycle command. *)
Elsewhere == /\ pending = None
             /\ integration' \in {"active", "off"}
             /\ UNCHANGED pending

Next == Begin \/ Advance \/ Switch \/ Discard \/ Complete \/ Elsewhere

Spec == Init /\ [][Next]_vars
=============================================================================
