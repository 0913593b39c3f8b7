---------------------------- MODULE MCFullRefresh ----------------------------
(* TLC instances of FullRefresh. *)
EXTENDS FullRefresh
=============================================================================
