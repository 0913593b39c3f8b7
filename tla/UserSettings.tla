---- MODULE UserSettings ----
(***************************************************************************)
(* What PickerMux promises about the user's part of config.toml: whatever  *)
(* commands run, fail or die, only the user changes it.  The one exception *)
(* is a removal with native restoration, which leaves the recorded picker  *)
(* assignments out, and only after the user agreed to exactly that.        *)
(***************************************************************************)
EXTENDS Naturals

CONSTANTS Settings,   \* settings outside the managed blocks
          PickerKeys  \* root assignments another picker or the user made

VARIABLES other,    \* the user's settings in the file
          keys,     \* the user's picker assignments, in the file or recorded
          edits,    \* user edits so far
          agreed    \* the user agreed to give the recorded assignments up

vars == <<other, keys, edits, agreed>>

Init == /\ other \subseteq Settings
        /\ keys \subseteq PickerKeys
        /\ edits = 0
        /\ agreed = FALSE

Edit == /\ edits' = edits + 1
        /\ other' \subseteq Settings
        /\ keys' \subseteq PickerKeys
        /\ UNCHANGED agreed

Agree == /\ agreed' \in BOOLEAN
         /\ UNCHANGED <<other, keys, edits>>

RestoreNative == /\ agreed
                 /\ keys' \in SUBSET keys
                 /\ UNCHANGED <<other, edits, agreed>>

Next == Edit \/ Agree \/ RestoreNative

Spec == Init /\ [][Next]_vars
====
