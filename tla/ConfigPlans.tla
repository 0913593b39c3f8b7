---- MODULE ConfigPlans ----
(***************************************************************************)
(* What the operations of config-manager.mjs make of Codex's config.toml   *)
(* and of PickerMux's ownership receipt (state.json): pure operators from  *)
(* the file and the receipt that were read to the file and the receipt     *)
(* that are to be written.                                                 *)
(*                                                                         *)
(* A file is a record.  `other` is what the user keeps outside the managed *)
(* blocks: an ordinary table, a service tier, an explicit search setting.  *)
(* `keys` are the picker assignments of the root that PickerMux does not   *)
(* own: a model, and the gateway of another picker integration.  The rest  *)
(* describes the managed blocks: present or not, the selection and a       *)
(* service tier Codex wrote into the root block, the provider block, its   *)
(* erased end marker, the search block, an edit nobody but the user made,  *)
(* and the inert model_bridge table that keeps old chats readable.  A      *)
(* digest of a file is the record itself.                                  *)
(***************************************************************************)


Settings == {"table", "tier", "search"}
PickerKeys == {"model", "gateway"}
Kinds == {"full-refresh", "toggle"}
ProviderBlock == [canonical : BOOLEAN, search : BOOLEAN]
NoProvider == [canonical |-> FALSE, search |-> FALSE]

\* hist: "true" and "false" are the two renderings of the historical table
\* (the config existed before PickerMux or not), "stray" one that no longer
\* ends the file.
File == [exists : BOOLEAN, other : SUBSET Settings, keys : SUBSET PickerKeys,
         blocks : BOOLEAN, picked : BOOLEAN, tier : BOOLEAN,
         provider : ProviderBlock, open : BOOLEAN, web : BOOLEAN,
         edited : {"no", "root", "provider"}, hist : {"none", "true", "false", "stray"}]

PlainFile(exists, other, keys) ==
  [exists |-> exists, other |-> other, keys |-> keys, blocks |-> FALSE, picked |-> FALSE,
   tier |-> FALSE, provider |-> NoProvider, open |-> FALSE, web |-> FALSE,
   edited |-> "no", hist |-> "none"]
NoFile == PlainFile(FALSE, {}, {})

NoReceipt == [installed |-> FALSE]
NoPause == [kind |-> "none", file |-> NoFile, pristine |-> FALSE]
Pause == [kind : Kinds, file : File, pristine : BOOLEAN] \cup {NoPause}
\* baseline is installedSha256, NoFile when it was deleted; source the digest
\* of the backup.
Receipt == [installed : {TRUE}, existed : BOOLEAN, prior : SUBSET PickerKeys, source : File,
            baseline : File, provider : ProviderBlock, web : BOOLEAN, pause : Pause]

Installed(s) == s # NoReceipt
Paused(s) == Installed(s) /\ s.pause # NoPause
Active(s) == Installed(s) /\ s.pause = NoPause

(***************************************************************************)
(* Inspection                                                              *)
(***************************************************************************)
Foreign(f) == "gateway" \in f.keys
Blank(f) == f.other = {} /\ f.keys = {}
\* removeHistoricalModelBridgeCompatibility: the exact table at the end of the
\* file; the rendering for a config that did not exist only when it is the file.
HistIntact(f) == f.hist = "true" \/ (f.hist = "false" /\ Blank(f))
WithoutHist(f) == IF HistIntact(f) THEN [f EXCEPT !.hist = "none"] ELSE f
AppendHist(f, existed) ==
  [f EXCEPT !.exists = TRUE, !.hist = IF existed THEN "true" ELSE "false"]

\* locateOwnedBlocks: boundaries can be found; an erased provider end marker
\* only where the receipt's digest fixes the place of the end.
Located(f, s) ==
  /\ f.blocks
  /\ f.web = s.web
  /\ f.open => f.provider = s.provider /\ f.edited # "provider"
\* locateHealthyManagedBlocks
Healthy(f, s) == Located(f, s) /\ f.edited = "no" /\ f.provider = s.provider

Closed(f) == [f EXCEPT !.open = FALSE]
Pristine(f, s) == IF s.pause # NoPause THEN s.pause.pristine
                  ELSE s.baseline # NoFile /\ Closed(f) = s.baseline
\* The file without the owned blocks; a tier Codex put into the root block is
\* the user's and stays.
WithoutBlocks(f) ==
  [f EXCEPT !.blocks = FALSE, !.picked = FALSE, !.tier = FALSE, !.provider = NoProvider,
            !.open = FALSE, !.web = FALSE, !.edited = "no",
            !.other = @ \cup (IF f.tier /\ f.edited # "root" THEN {"tier"} ELSE {})]
\* standaloneWebSearchPlan: explicit settings found, PickerMux's own included.
Explicit(f) == (IF f.web THEN {"own"} ELSE {}) \cup (f.other \cap {"search"})
\* Fault: a user's edit becomes part of the pristine baseline.
MutNextBaseline(f, s, g) == g
NextBaseline(f, s, g) == IF s.baseline # NoFile /\ Closed(f) = s.baseline THEN g ELSE NoFile

(***************************************************************************)
(* Plans.  CanX: the command is not refused.  The new file, the new receipt *)
(***************************************************************************)
WithBlocks(f, search) ==
  [f EXCEPT !.exists = TRUE, !.keys = {}, !.blocks = TRUE,
            !.provider = [canonical |-> TRUE, search |-> search],
            !.web = search /\ "search" \notin f.other]

CanInstall(f, s, confirmed) ==
  /\ ~Installed(s)
  /\ ~f.blocks
  /\ WithoutHist(f).hist = "none"
  /\ Foreign(f) => confirmed
InstallSource(f) ==
  [WithoutHist(f) EXCEPT !.exists = IF HistIntact(f) THEN f.hist = "true" ELSE f.exists]
InstallFile(f, search) == WithBlocks(WithoutHist(f), search)
\* Fault: every root setting is recorded as a picker assignment.
MutInstallReceipt(f, g) ==
  [installed |-> TRUE, existed |-> InstallSource(f).exists, prior |-> f.keys \cup f.other,
   source |-> InstallSource(f), baseline |-> g, provider |-> g.provider, web |-> g.web,
   pause |-> NoPause]
InstallReceipt(f, g) ==
  [installed |-> TRUE, existed |-> InstallSource(f).exists, prior |-> f.keys,
   source |-> InstallSource(f), baseline |-> g, provider |-> g.provider, web |-> g.web,
   pause |-> NoPause]

CanReactivate(f, s, backup, kind) ==
  /\ Paused(s)
  /\ s.pause.kind = kind
  /\ f = s.pause.file
  /\ backup = s.source
ReactivateFile(f, search) == WithBlocks([f EXCEPT !.hist = "none"], search)
\* Fault: reactivation forgets that the paused installation was pristine.
MutReactivateReceipt(s, g) ==
  [s EXCEPT !.baseline = NoFile, !.provider = g.provider, !.web = g.web, !.pause = NoPause]
ReactivateReceipt(s, g) ==
  [s EXCEPT !.baseline = IF s.pause.pristine THEN g ELSE NoFile,
            !.provider = g.provider, !.web = g.web, !.pause = NoPause]

CanSuspend(f, s, backup, kind) ==
  /\ Active(s)
  /\ Healthy(f, s)
  /\ ~Foreign(f)
  /\ backup = s.source
  /\ kind = "toggle" => f.hist = "none"
SuspendFile(f, s, kind) ==
  IF kind = "toggle" THEN AppendHist(WithoutBlocks(f), s.existed) ELSE WithoutBlocks(f)
SuspendReceipt(f, s, g, kind) ==
  [s EXCEPT !.pause = [kind |-> kind, file |-> g, pristine |-> Pristine(f, s)]]

CanMigrate(f, s) == /\ Active(s) /\ Healthy(f, s) /\ ~Foreign(f)
                    /\ ~f.provider.canonical \/ f.open
MigrateFile(f) == [Closed(f) EXCEPT !.provider.canonical = TRUE]

CanEnable(f, s) == /\ Active(s) /\ Healthy(f, s)
                   /\ Explicit(f) # {"own", "search"}
                   /\ ~f.provider.search \/ Explicit(f) = {} \/ f.open
EnableFile(f) == [Closed(f) EXCEPT !.provider.search = TRUE, !.web = @ \/ Explicit(f) = {}]
\* Fault: the receipt keeps the old digest of the provider block.
MutUpgradeReceipt(f, s, g) ==
  [s EXCEPT !.web = g.web, !.baseline = NextBaseline(f, s, g)]
UpgradeReceipt(f, s, g) ==
  [s EXCEPT !.provider = g.provider, !.web = g.web, !.baseline = NextBaseline(f, s, g)]

CanSelect(f, s) == Active(s) /\ Healthy(f, s)

\* uninstallConfig.  Refused for edited blocks unless forced, for a config
\* changed while paused, and when the gateway it would restore was replaced.
CanUninstall(f, s, backup, force) ==
  /\ Installed(s)
  /\ IF Paused(s) THEN f = s.pause.file /\ backup = s.source
     ELSE Located(f, s) /\ (force \/ Healthy(f, s))
  /\ Foreign(f) => "gateway" \notin s.prior
  /\ Pristine(f, s) /\ s.existed => force \/ backup = s.source
SplicedFile(f, s) ==
  LET kept == WithoutBlocks(IF Paused(s) /\ s.pause.kind = "toggle"
                            THEN [f EXCEPT !.hist = "none"] ELSE f)
  IN  [kept EXCEPT !.keys = @ \cup s.prior]
RestoredFile(f, s, backup) ==
  IF Pristine(f, s) /\ ~s.existed THEN NoFile
  ELSE IF Pristine(f, s) /\ backup = s.source THEN s.source
  ELSE SplicedFile(f, s)
CanPreserve(f, s, backup) == RestoredFile(f, s, backup).hist = "none"
UninstallFile(f, s, backup, preserve) ==
  LET r == RestoredFile(f, s, backup)
  IN  IF preserve THEN AppendHist(r, s.existed \/ ~Blank(r)) ELSE r

\* inventoryNativeConfigRestoration: the recorded assignments are left out on
\* purpose, and no other root assignment may be in the way.
NativeCandidate(f) == [WithoutBlocks(f) EXCEPT !.hist = IF f.blocks THEN @ ELSE "none"]
CanRestoreNative(f, s, backup) ==
  /\ Installed(s)
  /\ IF Paused(s) THEN s.pause.kind = "toggle" /\ f = s.pause.file ELSE Healthy(f, s)
  /\ backup = s.source
  /\ f.keys = {}
  /\ NativeCandidate(f).hist = "none"
NativeFile(f, s) == AppendHist(NativeCandidate(f), s.existed \/ ~Blank(NativeCandidate(f)))
====
