---------------------------- MODULE ToolAuthority ----------------------------
(***************************************************************************)
(* What PickerMux promises about tool authority, without files, processes  *)
(* or phases.  A model is granted tool authority only inside a probe       *)
(* window; the authority it exposes (in the picker, in the bridge's routes,*)
(* in a request on its way) is always granted; a window opens only over    *)
(* models that expose nothing, withdraws what they were granted, and while *)
(* it is open they go on exposing nothing.                                 *)
(***************************************************************************)
CONSTANT Models

VARIABLES granted, window, exposed

authority == <<granted, window, exposed>>

Init ==
    /\ granted = {}
    /\ window = {}
    /\ exposed = {}

Open(ms) ==
    /\ ms \cap exposed = {}
    /\ window' = window \cup ms
    /\ granted' = granted \ ms
    /\ UNCHANGED exposed

Earn(m) ==
    /\ m \in window
    /\ granted' = granted \cup {m}
    /\ UNCHANGED <<window, exposed>>

Close(ms) ==
    /\ window' = window \ ms
    /\ UNCHANGED <<granted, exposed>>

Publish(ms) ==
    /\ ms \ exposed \subseteq granted \ window
    /\ exposed' = ms
    /\ UNCHANGED <<granted, window>>

Next ==
    \/ \E ms \in SUBSET Models : Open(ms) \/ Close(ms) \/ Publish(ms)
    \/ \E m \in Models : Earn(m)

Spec == Init /\ [][Next]_authority
=============================================================================
