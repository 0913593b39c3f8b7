------------------------ MODULE ManagedDistribution ------------------------
(***************************************************************************)
(* The command line tool as setup installs it and removal takes it away:   *)
(* a launcher, a pointer to the active version, the versions directory and *)
(* the ownership receipt (src/src/distribution-installer.mjs).  A piece    *)
(* that is missing has its value in Empty.  File contents, modes and       *)
(* digests are abstracted: a version is its number, and the launcher, the  *)
(* same for every version, is there or not.                                *)
(***************************************************************************)
EXTENDS Naturals, Sequences

CONSTANT MaxVersion

ASSUME MaxVersionAssumption == MaxVersion \in Nat \ {0}

VARIABLES
    cli,    \* the four pieces in their places
    aside   \* the same pieces in the private staging directory of a removal

cliVars == <<cli, aside>>

Versions == 1..MaxVersion

NoReceipt == [active |-> 0, versions |-> {}]

Empty == [launcher |-> FALSE, current |-> 0, versions |-> {}, receipt |-> NoReceipt]

Receipts == [active : {0} \cup Versions, versions : SUBSET Versions]

Distributions ==
    [launcher : BOOLEAN, current : {0} \cup Versions, versions : SUBSET Versions,
     receipt : Receipts]

DistributionTypeOK == cli \in Distributions /\ aside \in Distributions

DistributionInit == cli = Empty /\ aside = Empty

\* The receipt validates: every piece is there and agrees with it.
Whole == /\ cli.receipt # NoReceipt
         /\ cli.launcher
         /\ cli.current = cli.receipt.active
         /\ cli.versions = cli.receipt.versions

\* Nothing to overwrite: no receipt, launcher, pointer or version.
Fresh == cli = Empty

-----------------------------------------------------------------------------
(* Setup.                                                                  *)

Copy(v) == cli' = [cli EXCEPT !.versions = @ \cup {v}] /\ UNCHANGED aside

Discard(v) == cli' = [cli EXCEPT !.versions = @ \ {v}] /\ UNCHANGED aside

Write(piece, value) == cli' = [cli EXCEPT ![piece] = value] /\ UNCHANGED aside

\* Fault: the version that was active is listed instead of the new one.
MutReceiptFor(v) ==
    [active |-> v, versions |-> cli.receipt.versions \cup {cli.receipt.active}]

\* The receipt that names version v active beside the versions already owned.
ReceiptFor(v) == [active |-> v, versions |-> cli.receipt.versions \cup {v}]

-----------------------------------------------------------------------------
(* Removal: the pieces are renamed one by one into the staging directory   *)
(* and, when the removal fails, renamed back in the opposite order.        *)

Order == <<"launcher", "current", "versions", "receipt">>

MoveAside(piece) == /\ aside' = [aside EXCEPT ![piece] = cli[piece]]
                    /\ cli' = [cli EXCEPT ![piece] = Empty[piece]]

MoveBack(piece) == /\ cli' = [cli EXCEPT ![piece] = aside[piece]]
                   /\ aside' = [aside EXCEPT ![piece] = Empty[piece]]

\* The staging directory is deleted, or its random name is forgotten.
Forget == aside' = Empty /\ UNCHANGED cli
=============================================================================
