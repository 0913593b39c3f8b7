------------------------- MODULE MCInstallationLock -------------------------
(* TLC instances of InstallationLock. *)
EXTENDS InstallationLock, TLC

CONSTANTS cli, worker, dead, other

(* The commands that are not workers differ in name only. *)
Symmetry == Permutations(Pids \ Workers)
=============================================================================
