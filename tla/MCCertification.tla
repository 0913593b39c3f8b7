-------------------------- MODULE MCCertification --------------------------
(* TLC instances of CertificationTransaction. *)
EXTENDS CertificationInvariant

CONSTANTS m1, m2
=============================================================================
