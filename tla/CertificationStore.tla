------------------------- MODULE CertificationStore -------------------------
(***************************************************************************)
(* certifications.json as src/model-certification.mjs reads and rewrites   *)
(* it.  Every exported writer reads the whole file, edits the parsed       *)
(* object, validates it and renames a private temporary over the file, so  *)
(* one writer is one step from a store to a store: the operators below map *)
(* the store that was read to the store that is written.                   *)
(*                                                                         *)
(* A certification subject (provider, upstream id, context window,         *)
(* reasoning and capability profile, Codex client version) only matters    *)
(* through its fingerprint, so a subject is a positive number and          *)
(* NoReceipt stands for "the model has no receipt".                        *)
(***************************************************************************)
EXTENDS Naturals

CONSTANTS
    Models,      \* public model ids (the catalog slugs)
    Searchable   \* models whose provider kind can earn Efficient Fidelity

ASSUME SearchableAssumption == Searchable \subseteq Models

NoReceipt == 0

(* What a catalog entry or a route claims for a model. *)
Claims == {"absent", "text", "direct", "efficient"}

(* validateCertificationStore: probe authorizations are pending models, and *)
(* the toolSearch gate lives inside a receipt.                              *)
Stores == [receipts : [Models -> Nat],
           search   : SUBSET Models,
           pending  : SUBSET Models,
           auth     : SUBSET Models]

ValidStore(s) ==
    /\ s \in Stores
    /\ s.auth \subseteq s.pending
    /\ \A m \in s.search : s.receipts[m] # NoReceipt

EmptyStore == [receipts |-> [m \in Models |-> NoReceipt],
               search   |-> {}, pending |-> {}, auth |-> {}]

-----------------------------------------------------------------------------
(* The writers. *)

Stage(s, ids) ==
    [s EXCEPT !.pending = @ \cup ids, !.auth = @ \ ids]

CommitAllowed(s, ids) == ids \subseteq s.pending

(* Faulty variant: the probe window opens over the old receipts. *)
CommitKeepingReceipts(s, ids) == [s EXCEPT !.auth = @ \cup ids]

Commit(s, ids) ==
    [s EXCEPT !.receipts = [m \in Models |-> IF m \in ids THEN NoReceipt ELSE @[m]],
              !.search   = @ \ ids,
              !.auth     = @ \cup ids]

Clear(s, ids) ==
    [s EXCEPT !.pending = @ \ ids, !.auth = @ \ ids]

(* A fresh Direct receipt replaces the old one together with its gates. *)
RecordPassed(s, m, subject) ==
    [s EXCEPT !.receipts = [@ EXCEPT ![m] = subject], !.search = @ \ {m}]

RecordSearchAllowed(s, m, subject) ==
    m \in Searchable /\ s.receipts[m] = subject

RecordSearch(s, m) == [s EXCEPT !.search = @ \cup {m}]

-----------------------------------------------------------------------------
(* The readers. *)

Status(s, m, subject) ==
    CASE m \in s.pending                                     -> "pending"
      [] m \notin s.pending /\ s.receipts[m] = NoReceipt     -> "missing"
      [] m \notin s.pending /\ s.receipts[m] = subject
           /\ subject # NoReceipt                            -> "valid"
      [] OTHER                                               -> "stale"

(* resolveModelCapabilitySlugs followed by catalogEntry: what the catalog   *)
(* built from one discovery claims.  seen[m] is the subject the discovery   *)
(* reported for m, NoReceipt when it did not report m.                      *)
Claim(s, m, subject) ==
    CASE subject = NoReceipt                                  -> "absent"
      [] subject # NoReceipt /\ Status(s, m, subject) # "valid" -> "text"
      [] subject # NoReceipt /\ Status(s, m, subject) = "valid"
           /\ m \in s.search \cap Searchable                  -> "efficient"
      [] OTHER                                                -> "direct"

BuildCatalog(s, seen) == [m \in Models |-> Claim(s, m, seen[m])]

ToolClaim(c) == c \in {"direct", "efficient"}

(* assertNoPendingModelCertification *)
NonePending(s) == s.pending = {}

(* assertModelCertificationRequestAllowed, for a Desktop request through a  *)
(* route that claims c, and for a certification probe.                      *)
RequestAllowed(s, m, c) ==
    /\ m \notin s.pending
    /\ ToolClaim(c) => s.receipts[m] # NoReceipt
    /\ c = "efficient" => m \in s.search

ProbeAllowed(s, m) == m \in s.pending /\ m \in s.auth

(* A claim is backed when the store holds the receipt it was earned with. *)
Backed(s, m, c) ==
    /\ ToolClaim(c) => s.receipts[m] # NoReceipt
    /\ c = "efficient" => m \in s.search
=============================================================================
