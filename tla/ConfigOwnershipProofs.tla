------------------------ MODULE ConfigOwnershipProofs ------------------------
(***************************************************************************)
(* Proofs about ConfigOwnership for any number of edits.  OwnershipInv says *)
(* which files and receipts can exist at all, that a file fits its receipt  *)
(* outside the commits of a command, what the running command and the      *)
(* rollbacks it holds would make of the user's part, and what is left of a *)
(* fresh installation that nobody edited.                                  *)
(***************************************************************************)
EXTENDS ConfigOwnership, TLAPS

-----------------------------------------------------------------------------
(* Files and receipts.                                                     *)

(* Without managed blocks none of their contents is there; over them no    *)
(* model can be assigned; a missing file is empty.                         *)
Sound(f) ==
    /\ f \in File
    /\ ~f.blocks => WithoutBlocks(f) = f
    /\ f.blocks => f.exists /\ "model" \notin f.keys
    /\ ~f.exists => f = NoFile

(* Taking the blocks out gives the source back, but for the keys.          *)
Original(f, s) == WithoutBlocks(f) = [s.source EXCEPT !.exists = TRUE, !.keys = {}]

SoundReceipt(s) ==
    Installed(s) =>
      /\ s \in Receipt
      /\ Sound(s.source) /\ ~s.source.blocks /\ s.source.hist = "none"
      /\ s.prior = s.source.keys /\ s.existed = s.source.exists
      /\ Active(s) /\ s.baseline # NoFile => Original(s.baseline, s) /\ ~s.baseline.picked
      /\ Paused(s) =>
           /\ Sound(s.pause.file) /\ ~s.pause.file.blocks
           /\ s.pause.file.exists /\ s.pause.file.keys = {}
           /\ s.pause.pristine => Original([s.pause.file EXCEPT !.hist = "none"], s)

Sounds(p) == p = Pair(p.file, p.receipt) /\ Sound(p.file) /\ SoundReceipt(p.receipt)

(* File and receipt of a pair tell the same story.                         *)
Fits(f, s) == f.blocks /\ f.web = s.web /\ f.provider = s.provider
Matched(p) ==
    /\ ~Installed(p.receipt) => ~p.file.blocks
    /\ Active(p.receipt) => Fits(p.file, p.receipt)
    /\ Paused(p.receipt) => ~p.file.blocks
AtPause(p) == Paused(p.receipt) => p.file = p.receipt.pause.file

(* A fresh installation that nobody edited, through pauses and upgrades.   *)
Untouched(p) == Installed(p.receipt) => Pristine(p.file, p.receipt) /\ AtPause(p)

-----------------------------------------------------------------------------
(* The user's part.                                                        *)

OtherOf(f) == WithoutBlocks(f).other
KeysOf(f, s, b) ==
    f.keys \cup IF Installed(s) THEN s.prior
                ELSE IF f.blocks /\ b # Lost THEN b.keys ELSE {}
SameUser(old, new) ==
    /\ OtherOf(old.file) = OtherOf(new.file)
    /\ KeysOf(old.file, old.receipt, backup) = KeysOf(new.file, old.receipt, backup)
SameOwner(s, t) == Installed(s) /\ Installed(t) /\ s.prior = t.prior /\ s.source = t.source

-----------------------------------------------------------------------------
(* The running command and the rollbacks it holds.                         *)

Busy == job.pc \in {"ready", "paired"}
Updates == {"suspend", "reactivate", "enable", "migrate"}

(* A pair of file and receipt, and the pair that is to replace it.         *)
Change(j) ==
    /\ j.op \in Ops /\ j.verify \in BOOLEAN
    /\ Sounds(j.old) /\ Sounds(j.new)
    /\ AtPause(j.old) /\ AtPause(j.new)
    /\ ~torn => Matched(j.old) /\ Matched(j.new)
    /\ ~torn /\ touched = {} => Untouched(j.old) /\ Untouched(j.new)

JobInv ==
    /\ job.pc \in {"idle", "ready", "paired", "held", "unwind"}
    /\ job.pc = "idle" => job = Idle /\ undo = <<>>
    /\ job.pc = "held" => job.op \in Held
    /\ Busy => Change(job) /\ SameUser(job.old, job.new)
    /\ Busy /\ job.op # "undo" => receipt = job.old.receipt
    /\ job.pc = "paired" => receipt = job.old.receipt /\ job.op \notin FileOnly

(* What each command starts from and leads to.                             *)
OperationInv ==
    Busy =>
      /\ job.op = "install" =>
           /\ ~Installed(job.old.receipt) /\ ~job.old.file.blocks
           /\ backup = InstallSource(job.old.file)
           /\ job.new.receipt = InstallReceipt(job.old.file, job.new.file)
           /\ job.new.file.blocks /\ job.new.file.keys = {} /\ ~job.new.file.open
           /\ Foreign(job.old.file) =>
                confirmed = [what |-> "switch", file |-> job.old.file, receipt |-> job.old.receipt]
      /\ job.op \in {"install", "reactivate"} => Fits(job.new.file, job.new.receipt)
      /\ job.op \in Updates \cup {"undo"} => SameOwner(job.old.receipt, job.new.receipt)
      /\ job.op = "suspend" => Paused(job.new.receipt)
      /\ job.op = "reactivate" => Active(job.new.receipt)
      /\ job.op = "uninstall" =>
           /\ Installed(job.old.receipt) /\ job.new.receipt = NoReceipt
           /\ job.old.receipt.prior \subseteq job.new.file.keys
           /\ ~torn /\ touched = {} => InstallSource(job.new.file) = job.old.receipt.source
      /\ job.op = "native" =>
           /\ Installed(job.old.receipt) /\ job.new.receipt = NoReceipt
           /\ confirmed.what = "native"
      /\ job.op \in {"uninstall", "native"} => ~job.new.file.blocks
      /\ job.op \in FileOnly => job.new.receipt = job.old.receipt
      /\ job.op \notin {"install", "undo"} /\ Foreign(job.old.file) => Foreign(job.new.file)
      /\ job.op \notin {"migrate", "undo"} => undo = <<>>

(* Between the commits the file is the new one, but for later edits.       *)
PairedInv ==
    job.pc = "paired" =>
      /\ job.op \in {"install", "reactivate"} => Fits(file, job.new.receipt)
      /\ job.op \in {"uninstall", "native", "suspend"} => ~file.blocks
      /\ job.op = "uninstall" => receipt.prior \subseteq file.keys
      /\ ~torn /\ touched = {} => file = job.new.file

Rollback(u) ==
    /\ Change(u) /\ u.op \in Held
    /\ u.op = "install" => ~Installed(u.old.receipt)
    /\ u.op # "install" => SameOwner(u.old.receipt, u.new.receipt) /\ SameUser(u.old, u.new)

UndoInv ==
    /\ undo = <<>> \/ undo = <<undo[1]>> \/ undo = <<undo[1], undo[2]>>
    /\ \A i \in DOMAIN undo : Rollback(undo[i])
    /\ job.pc = "held" => undo # <<>>
    /\ job.pc = "held" /\ job.op = "enable" => Len(undo) = 1 /\ undo[1].op = "enable"
    /\ Busy /\ job.op = "migrate" => undo = <<>> \/ (Len(undo) = 1 /\ undo[1].op = "enable")
    /\ Len(undo) = 2 => undo[1].op # "install" /\ undo[2].op # "install"

-----------------------------------------------------------------------------
(* The disk.                                                               *)

DiskInv ==
    /\ Sound(file) /\ SoundReceipt(receipt)
    /\ backup # Lost => Sound(backup)
    /\ ~torn /\ job.pc # "paired" =>
         /\ Matched(Pair(file, receipt))
         /\ "pair" \notin touched => AtPause(Pair(file, receipt))
    /\ ~torn /\ touched = {} /\ job.pc # "paired" => Untouched(Pair(file, receipt))

SyncInv ==
    /\ sync.pc \in {"none", "ready", "published"}
    /\ sync.pc = "none" => sync = NotAsked
    /\ sync.pc = "ready" => sync.file.blocks
    /\ ~Installed(receipt) => sync = NotAsked
    /\ ~torn /\ touched = {} => sync = NotAsked

CountInv ==
    /\ edits \in 0 .. MaxEdits
    /\ touched \in {{}, {"installation"}, {"installation", "pair"}}
    /\ torn \in BOOLEAN

-----------------------------------------------------------------------------
(* The way back to the pair the command began with.                        *)

Chain(p) ==
    \/ undo = <<>> /\ p = start
    \/ Len(undo) = 1 /\ p = undo[1].new /\ undo[1].old = start
    \/ /\ Len(undo) = 2 /\ p = undo[1].new
       /\ undo[1].old = undo[2].new /\ undo[2].old = start

Alone == start # NoPair /\ Installed(start.receipt)
StartInv ==
    Alone =>
      /\ job.pc # "idle"
      /\ job.pc \in {"held", "unwind"} => Chain(Pair(file, receipt))
      /\ job.pc = "ready" => Pair(file, receipt) = job.old
      /\ job.pc = "paired" => file = job.new.file
      /\ Busy => IF job.op = "undo" THEN Chain(job.new) ELSE Chain(job.old)
      /\ Busy /\ (job.op = "reactivate" \/ (job.op = "undo" /\ job.verify)) =>
           backup = job.old.receipt.source
      /\ \A i \in DOMAIN undo : undo[i].op = "reactivate" => backup = undo[i].new.receipt.source

OwnershipInv ==
    JobInv /\ OperationInv /\ PairedInv /\ UndoInv /\ DiskInv /\ SyncInv /\ CountInv /\ StartInv

-----------------------------------------------------------------------------
(* Files.                                                                  *)

LEMMA FileFields ==
  \A f : f \in File <=>
    /\ f = [exists |-> f.exists, other |-> f.other, keys |-> f.keys, blocks |-> f.blocks,
            picked |-> f.picked, tier |-> f.tier, provider |-> f.provider, open |-> f.open,
            web |-> f.web, edited |-> f.edited, hist |-> f.hist]
    /\ f.exists \in BOOLEAN /\ f.other \subseteq Settings /\ f.keys \subseteq PickerKeys
    /\ f.blocks \in BOOLEAN /\ f.picked \in BOOLEAN /\ f.tier \in BOOLEAN
    /\ f.provider \in ProviderBlock /\ f.open \in BOOLEAN /\ f.web \in BOOLEAN
    /\ f.edited \in {"no", "root", "provider"} /\ f.hist \in {"none", "true", "false", "stray"}
  BY DEF File

LEMMA FileTypes ==
  ASSUME NEW f \in File
  PROVE  /\ f.exists \in BOOLEAN /\ f.other \subseteq Settings /\ f.keys \subseteq PickerKeys
         /\ f.blocks \in BOOLEAN /\ f.picked \in BOOLEAN /\ f.tier \in BOOLEAN
         /\ f.provider \in ProviderBlock /\ f.open \in BOOLEAN /\ f.web \in BOOLEAN
         /\ f.edited \in {"no", "root", "provider"} /\ f.hist \in {"none", "true", "false", "stray"}
  BY DEF File

LEMMA SameFile ==
  ASSUME NEW f \in File, NEW g \in File,
         f.exists = g.exists, f.other = g.other, f.keys = g.keys, f.blocks = g.blocks,
         f.picked = g.picked, f.tier = g.tier, f.provider = g.provider, f.open = g.open,
         f.web = g.web, f.edited = g.edited, f.hist = g.hist
  PROVE  f = g
  BY FileFields

LEMMA WithoutBlocksFields ==
  ASSUME NEW f \in File
  PROVE  /\ WithoutBlocks(f) \in File
         /\ WithoutBlocks(f).exists = f.exists /\ WithoutBlocks(f).keys = f.keys
         /\ WithoutBlocks(f).hist = f.hist /\ ~WithoutBlocks(f).blocks
         /\ ~WithoutBlocks(f).picked /\ ~WithoutBlocks(f).tier
         /\ WithoutBlocks(f).provider = NoProvider /\ ~WithoutBlocks(f).open
         /\ ~WithoutBlocks(f).web /\ WithoutBlocks(f).edited = "no"
         /\ OtherOf(f) = f.other \cup IF f.tier /\ f.edited # "root" THEN {"tier"} ELSE {}
  BY ZenonT(60) DEF WithoutBlocks, File, OtherOf, NoProvider, ProviderBlock, Settings

LEMMA PlainFields ==
  ASSUME NEW f \in File
  PROVE  WithoutBlocks(f) = f <=>
           /\ ~f.blocks /\ ~f.picked /\ ~f.tier /\ f.provider = NoProvider /\ ~f.open
           /\ ~f.web /\ f.edited = "no"
  BY FileFields, WithoutBlocksFields DEF OtherOf

LEMMA SoundFile ==
  ASSUME NEW f \in File
  PROVE  Sound(f) <=>
           /\ ~f.blocks => /\ ~f.picked /\ ~f.tier /\ f.provider = NoProvider /\ ~f.open
                           /\ ~f.web /\ f.edited = "no"
           /\ f.blocks => f.exists /\ "model" \notin f.keys
           /\ ~f.exists => f = NoFile
  BY PlainFields DEF Sound

LEMMA NoFileFields ==
  /\ NoFile \in File
  /\ ~NoFile.blocks /\ ~NoFile.exists /\ NoFile.hist = "none" /\ NoFile.keys = {}
  /\ NoFile.other = {} /\ ~NoFile.picked /\ ~NoFile.tier /\ NoFile.provider = NoProvider
  /\ ~NoFile.open /\ ~NoFile.web /\ NoFile.edited = "no"
  BY DEF NoFile, PlainFile, File, ProviderBlock, NoProvider

LEMMA NoFileSound == Sound(NoFile)
  BY NoFileFields, SoundFile

(* A plain file that holds nothing is no file.                             *)
LEMMA EmptyFile ==
  ASSUME NEW f, Sound(f), ~f.blocks
  PROVE  /\ [f EXCEPT !.exists = FALSE] \in File
         /\ f.other = {} /\ f.keys = {} /\ f.hist = "none" => [f EXCEPT !.exists = FALSE] = NoFile
<1>1. f \in File
  BY DEF Sound
<1>2. [f EXCEPT !.exists = FALSE] \in File
  BY <1>1 DEF File
<1>3. /\ [f EXCEPT !.exists = FALSE].exists = FALSE
      /\ [f EXCEPT !.exists = FALSE].other = f.other
      /\ [f EXCEPT !.exists = FALSE].keys = f.keys
      /\ [f EXCEPT !.exists = FALSE].blocks = f.blocks
      /\ [f EXCEPT !.exists = FALSE].picked = f.picked
      /\ [f EXCEPT !.exists = FALSE].tier = f.tier
      /\ [f EXCEPT !.exists = FALSE].provider = f.provider
      /\ [f EXCEPT !.exists = FALSE].open = f.open
      /\ [f EXCEPT !.exists = FALSE].web = f.web
      /\ [f EXCEPT !.exists = FALSE].edited = f.edited
      /\ [f EXCEPT !.exists = FALSE].hist = f.hist
  BY <1>1 DEF File
<1>4. ASSUME f.other = {}, f.keys = {}, f.hist = "none"
      PROVE  [f EXCEPT !.exists = FALSE] = NoFile
  <2>1. /\ ~f.picked /\ ~f.tier /\ f.provider = NoProvider /\ ~f.open /\ ~f.web /\ f.edited = "no"
    BY <1>1, SoundFile
  <2> DEFINE g == [f EXCEPT !.exists = FALSE]
  <2>2. g \in File /\ ~g.exists /\ g.other = f.other /\ g.keys = f.keys /\ ~g.blocks
        /\ ~g.picked /\ ~g.tier /\ g.provider = NoProvider /\ ~g.open /\ ~g.web
        /\ g.edited = "no" /\ g.hist = f.hist
    BY <1>1, <1>2, <1>3, <2>1
  <2>3. NoFile \in File
    BY NoFileFields
  <2> HIDE DEF g
  <2>4. /\ g.exists = NoFile.exists /\ g.blocks = NoFile.blocks /\ g.picked = NoFile.picked
        /\ g.tier = NoFile.tier /\ g.open = NoFile.open /\ g.web = NoFile.web
    BY <2>2, <2>3, NoFileFields, FileTypes
  <2>5. g = NoFile
    BY <1>4, <2>2, <2>3, <2>4, NoFileFields, SameFile
  <2> QED BY <2>5 DEF g
<1> QED BY <1>2, <1>4

LEMMA WithBlocksFields ==
  ASSUME NEW f \in File, NEW search \in BOOLEAN
  PROVE  LET g == WithBlocks(f, search) IN
         /\ g \in File
         /\ g.exists /\ g.other = f.other /\ g.keys = {} /\ g.blocks
         /\ g.picked = f.picked /\ g.tier = f.tier /\ g.open = f.open
         /\ g.edited = f.edited /\ g.hist = f.hist
         /\ g.provider = [canonical |-> TRUE, search |-> search]
  BY DEF WithBlocks, File, ProviderBlock, Settings, PickerKeys

LEMMA WithoutHistFields ==
  ASSUME NEW f \in File
  PROVE  LET g == WithoutHist(f) IN
         /\ g \in File
         /\ g.exists = f.exists /\ g.other = f.other /\ g.keys = f.keys /\ g.blocks = f.blocks
         /\ g.picked = f.picked /\ g.tier = f.tier /\ g.open = f.open
         /\ g.edited = f.edited /\ g.provider = f.provider /\ g.web = f.web
         /\ g.hist \in {"none", f.hist}
  BY DEF WithoutHist, File

LEMMA AppendHistFields ==
  ASSUME NEW f \in File, NEW existed \in BOOLEAN
  PROVE  LET g == AppendHist(f, existed) IN
         /\ g \in File
         /\ g.exists /\ g.other = f.other /\ g.keys = f.keys /\ g.blocks = f.blocks
         /\ g.picked = f.picked /\ g.tier = f.tier /\ g.open = f.open
         /\ g.edited = f.edited /\ g.provider = f.provider /\ g.web = f.web
         /\ g.hist = IF existed THEN "true" ELSE "false"
  BY DEF AppendHist, File

LEMMA ClosedFields ==
  ASSUME NEW f \in File
  PROVE  LET g == Closed(f) IN
         /\ g \in File /\ ~g.open
         /\ g.exists = f.exists /\ g.other = f.other /\ g.keys = f.keys /\ g.blocks = f.blocks
         /\ g.picked = f.picked /\ g.tier = f.tier /\ g.hist = f.hist
         /\ g.edited = f.edited /\ g.provider = f.provider /\ g.web = f.web
         /\ ~f.open => g = f
         /\ WithoutBlocks(g) = WithoutBlocks(f)
<1>1. LET g == Closed(f) IN
         /\ g \in File /\ ~g.open
         /\ g.exists = f.exists /\ g.other = f.other /\ g.keys = f.keys /\ g.blocks = f.blocks
         /\ g.picked = f.picked /\ g.tier = f.tier /\ g.hist = f.hist
         /\ g.edited = f.edited /\ g.provider = f.provider /\ g.web = f.web
  BY DEF Closed, File
<1>2. ~f.open => Closed(f) = f
  BY <1>1, FileFields
<1>3. WithoutBlocks(Closed(f)) = WithoutBlocks(f)
  <2> DEFINE g == Closed(f)
  <2>1. /\ g \in File /\ g.exists = f.exists /\ g.keys = f.keys /\ g.hist = f.hist
        /\ g.other = f.other /\ g.tier = f.tier /\ g.edited = f.edited
    BY <1>1
  <2> HIDE DEF g
  <2>2. WithoutBlocks(g).other = WithoutBlocks(f).other
    BY <2>1 DEF WithoutBlocks, File
  <2>3. /\ WithoutBlocks(g) \in File /\ WithoutBlocks(f) \in File
        /\ WithoutBlocks(g).blocks = WithoutBlocks(f).blocks
        /\ WithoutBlocks(g).picked = WithoutBlocks(f).picked
        /\ WithoutBlocks(g).tier = WithoutBlocks(f).tier
        /\ WithoutBlocks(g).open = WithoutBlocks(f).open
        /\ WithoutBlocks(g).web = WithoutBlocks(f).web
    BY <2>1, WithoutBlocksFields, FileTypes
  <2> QED BY <2>1, <2>2, <2>3, WithoutBlocksFields, SameFile DEF g
<1> QED BY <1>1, <1>2, <1>3

-----------------------------------------------------------------------------
(* Plans: installation.                                                    *)

LEMMA SourceFields ==
  ASSUME NEW f, Sound(f), ~f.blocks, WithoutHist(f).hist = "none"
  PROVE  LET src == InstallSource(f) IN
         /\ Sound(src) /\ ~src.blocks /\ src.hist = "none"
         /\ src.keys = f.keys /\ src.other = f.other
         /\ src.exists \in BOOLEAN
<1> DEFINE w == WithoutHist(f)
<1>1. /\ f \in File
      /\ ~f.picked /\ ~f.tier /\ f.provider = NoProvider /\ ~f.open /\ ~f.web /\ f.edited = "no"
  BY SoundFile DEF Sound
<1>2. /\ w \in File /\ w.exists = f.exists /\ w.other = f.other /\ w.keys = f.keys
      /\ ~w.blocks /\ ~w.picked /\ ~w.tier /\ w.provider = NoProvider /\ ~w.open /\ ~w.web
      /\ w.edited = "no" /\ w.hist = "none"
  BY <1>1, WithoutHistFields
<1>3. f.hist = "false" /\ HistIntact(f) => f.other = {} /\ f.keys = {}
  BY DEF HistIntact, Blank
<1>4. f.hist # "none" => HistIntact(f)
  BY <1>1 DEF WithoutHist
<1>5. HistIntact(f) => f.hist = "true" \/ f.hist = "false"
  BY DEF HistIntact
<1>6. ~f.exists => f.other = {} /\ f.keys = {} /\ f.hist = "none"
  BY NoFileFields DEF Sound
<1> DEFINE e == IF HistIntact(f) THEN f.hist = "true" ELSE f.exists
           src == [w EXCEPT !.exists = e]
<1>7. e \in BOOLEAN /\ (~e => f.other = {} /\ f.keys = {})
  BY <1>1, <1>3, <1>5, <1>6, FileTypes
<1> HIDE DEF w, e
<1>8. /\ src \in File /\ src.exists = e /\ src.other = f.other /\ src.keys = f.keys
      /\ ~src.blocks /\ ~src.picked /\ ~src.tier /\ src.provider = NoProvider /\ ~src.open
      /\ ~src.web /\ src.edited = "no" /\ src.hist = "none"
  BY <1>2, <1>7 DEF File
<1>9. ~src.exists => src = NoFile
  <2> SUFFICES ASSUME ~src.exists PROVE src = NoFile
    OBVIOUS
  <2>1. src.other = {} /\ src.keys = {} /\ src \in File /\ NoFile \in File
    BY <1>7, <1>8, NoFileFields
  <2> HIDE DEF src
  <2>2. /\ src.exists = NoFile.exists /\ src.blocks = NoFile.blocks /\ src.picked = NoFile.picked
        /\ src.tier = NoFile.tier /\ src.open = NoFile.open /\ src.web = NoFile.web
    BY <1>8, <2>1, NoFileFields, FileTypes
  <2> QED BY <1>8, <2>1, <2>2, NoFileFields, SameFile
<1>10. src = InstallSource(f)
  BY DEF InstallSource, w, e
<1> HIDE DEF src
<1> QED BY <1>7, <1>8, <1>9, <1>10, SoundFile

(* A file that holds what the source holds, and untouched blocks.          *)
FreshOver(g, other) ==
    /\ g \in File /\ g.exists /\ g.blocks /\ g.keys = {} /\ g.other = other
    /\ ~g.picked /\ ~g.tier /\ ~g.open /\ g.edited = "no" /\ g.hist = "none"

LEMMA FreshIsOriginal ==
  ASSUME NEW g, NEW src, FreshOver(g, src.other), src \in File, ~src.blocks, Sound(src),
         src.hist = "none"
  PROVE  WithoutBlocks(g) = [src EXCEPT !.exists = TRUE, !.keys = {}]
<1> DEFINE a == WithoutBlocks(g)
           b == [src EXCEPT !.exists = TRUE, !.keys = {}]
<1>1. g \in File /\ g.tier = FALSE
  BY FileTypes DEF FreshOver
<1>2. /\ a \in File /\ a.exists /\ a.keys = {} /\ a.hist = "none" /\ ~a.blocks /\ ~a.picked
      /\ ~a.tier /\ a.provider = NoProvider /\ ~a.open /\ ~a.web /\ a.edited = "no"
  BY <1>1, WithoutBlocksFields DEF FreshOver
<1>3. a.other = src.other
  BY <1>1 DEF FreshOver, WithoutBlocks, File
<1>4. /\ ~src.picked /\ ~src.tier /\ src.provider = NoProvider /\ ~src.open /\ ~src.web
      /\ src.edited = "no"
  BY SoundFile
<1>5. /\ b \in File /\ b.exists /\ b.keys = {} /\ b.hist = "none" /\ ~b.blocks /\ ~b.picked
      /\ ~b.tier /\ b.provider = NoProvider /\ ~b.open /\ ~b.web /\ b.edited = "no"
      /\ b.other = src.other
  BY <1>4 DEF File
<1> HIDE DEF a, b
<1>6. /\ a.exists = b.exists /\ a.blocks = b.blocks /\ a.picked = b.picked
      /\ a.tier = b.tier /\ a.open = b.open /\ a.web = b.web
  BY <1>2, <1>5, FileTypes
<1>7. a = b
  BY ZenonT(60), <1>2, <1>3, <1>5, <1>6, SameFile
<1> QED BY <1>7 DEF a, b

LEMMA Receipts ==
  /\ \A s \in Receipt : Installed(s)
  /\ ~Installed(NoReceipt) /\ ~Active(NoReceipt) /\ ~Paused(NoReceipt)
  /\ \A s : Installed(s) <=> (Active(s) \/ Paused(s))
  /\ \A s : ~(Active(s) /\ Paused(s))
  /\ NoPause \in Pause /\ NoPause.kind = "none" /\ NoPause.pristine = FALSE
<1>1. \A s \in Receipt : Installed(s)
  <2> SUFFICES ASSUME NEW s \in Receipt, s = NoReceipt PROVE FALSE
    BY DEF Installed
  <2>1. s.installed = TRUE
    BY DEF Receipt
  <2> QED BY <2>1 DEF NoReceipt
<1>2. ~Installed(NoReceipt) /\ ~Active(NoReceipt) /\ ~Paused(NoReceipt)
  BY DEF Installed, Active, Paused
<1>3. (\A s : Installed(s) <=> (Active(s) \/ Paused(s))) /\ (\A s : ~(Active(s) /\ Paused(s)))
  BY DEF Installed, Active, Paused
<1>4. NoPause \in Pause /\ NoPause.kind = "none" /\ NoPause.pristine = FALSE
  BY DEF Pause, NoPause
<1> QED BY <1>1, <1>2, <1>3, <1>4

LEMMA InstalledFresh ==
  ASSUME NEW f, Sound(f), ~f.blocks, WithoutHist(f).hist = "none", NEW g, FreshOver(g, f.other)
  PROVE  LET s == InstallReceipt(f, g) IN
         /\ Sound(g) /\ SoundReceipt(s) /\ Active(s) /\ s.prior = f.keys
         /\ s.source = InstallSource(f)
         /\ Fits(g, s) /\ Pristine(g, s)
<1> DEFINE s == InstallReceipt(f, g)
           src == InstallSource(f)
<1>1. /\ Sound(src) /\ ~src.blocks /\ src.hist = "none" /\ src.keys = f.keys
      /\ src.other = f.other /\ src.exists \in BOOLEAN /\ src \in File
  BY SourceFields DEF Sound
<1>2. Sound(g) /\ g \in File /\ g.open = FALSE
  BY SoundFile, FileTypes DEF FreshOver
<1>3. WithoutBlocks(g) = [src EXCEPT !.exists = TRUE, !.keys = {}]
  <2>1. FreshOver(g, src.other)
    BY <1>1
  <2> HIDE DEF src
  <2> QED BY <1>1, <2>1, FreshIsOriginal
<1>4. f \in File
  BY DEF Sound
<1>5. /\ s.prior = f.keys /\ s.existed = src.exists /\ s.source = src /\ s.baseline = g
      /\ s.provider = g.provider /\ s.web = g.web /\ s.pause = NoPause /\ s.installed = TRUE
  BY DEF InstallReceipt
<1>6. s \in Receipt
  <2> HIDE DEF src
  <2>1. /\ src.exists \in BOOLEAN /\ f.keys \subseteq PickerKeys /\ src \in File /\ g \in File
        /\ g.provider \in ProviderBlock /\ g.web \in BOOLEAN /\ NoPause \in Pause
    BY <1>1, <1>2, <1>4, FileTypes, Receipts
  <2>2. s = [installed |-> TRUE, existed |-> src.exists, prior |-> f.keys, source |-> src,
             baseline |-> g, provider |-> g.provider, web |-> g.web, pause |-> NoPause]
    BY DEF InstallReceipt, src
  <2> QED BY <2>1, <2>2 DEF Receipt
<1> HIDE DEF s, src
<1>7. Active(s) /\ ~Paused(s)
  BY <1>5, <1>6, Receipts DEF Active, Paused
<1>8. SoundReceipt(s)
  <2>1. ~g.picked
    BY DEF FreshOver
  <2> QED BY <2>1, <1>1, <1>3, <1>5, <1>6, <1>7 DEF SoundReceipt, Original
<1>9. Closed(g) = g /\ g # NoFile
  BY <1>2, ClosedFields, NoFileFields DEF FreshOver
<1>10. Pristine(g, s) /\ Fits(g, s)
  BY <1>5, <1>9 DEF Pristine, Fits, FreshOver
<1> QED BY <1>2, <1>5, <1>7, <1>8, <1>10 DEF s, src

LEMMA InstallPlan ==
  ASSUME NEW f, NEW s, Sound(f), NEW c, CanInstall(f, s, c), NEW search \in BOOLEAN
  PROVE  LET g == InstallFile(f, search) IN
         /\ ~f.blocks /\ WithoutHist(f).hist = "none" /\ FreshOver(g, f.other)
         /\ OtherOf(g) = OtherOf(f)
<1> DEFINE w == WithoutHist(f)
           g == InstallFile(f, search)
<1>1. ~f.blocks /\ w.hist = "none" /\ f \in File
  BY DEF CanInstall, Sound
<1>2. ~f.picked /\ ~f.tier /\ ~f.open /\ f.edited = "no"
  BY <1>1, SoundFile
<1>3. /\ w \in File /\ w.other = f.other /\ ~w.picked /\ ~w.tier /\ ~w.open /\ w.edited = "no"
  BY <1>1, <1>2, WithoutHistFields
<1>4. FreshOver(g, f.other)
  <2> HIDE DEF w
  <2>1. g = WithBlocks(w, search)
    BY DEF InstallFile, w
  <2> HIDE DEF g
  <2>2. /\ g \in File /\ g.exists /\ g.other = w.other /\ g.keys = {} /\ g.blocks
        /\ g.picked = w.picked /\ g.tier = w.tier /\ g.open = w.open
        /\ g.edited = w.edited /\ g.hist = w.hist
    BY <1>3, <2>1, WithBlocksFields
  <2> QED BY <1>1, <1>3, <2>2 DEF FreshOver, w
<1>5. OtherOf(g) = OtherOf(f)
  BY <1>1, <1>2, <1>4 DEF FreshOver, OtherOf, WithoutBlocks, File
<1> QED BY <1>1, <1>4, <1>5

LEMMA OlderPlan ==
  ASSUME NEW f, Sound(f), ~f.blocks, WithoutHist(f).hist = "none"
  PROVE  FreshOver(OlderFile(f), f.other)
<1> DEFINE g == InstallFile(f, FALSE)
<1>1. FreshOver(g, f.other)
  <2>1. CanInstall(f, NoReceipt, TRUE)
    BY Receipts DEF CanInstall
  <2> QED BY <2>1, InstallPlan
<1>2. OlderFile(f) = [g EXCEPT !.provider.canonical = FALSE]
  BY DEF OlderFile
<1> HIDE DEF g
<1> QED BY <1>1, <1>2 DEF FreshOver, File, ProviderBlock

-----------------------------------------------------------------------------
(* Plans: pauses and upgrades.                                             *)

LEMMA PlainTwice ==
  ASSUME NEW f \in File
  PROVE  WithoutBlocks(WithoutBlocks(f)) = WithoutBlocks(f)
<1> DEFINE g == WithoutBlocks(f)
<1>1. /\ g \in File /\ ~g.blocks /\ ~g.picked /\ ~g.tier /\ g.provider = NoProvider /\ ~g.open
      /\ ~g.web /\ g.edited = "no"
  BY WithoutBlocksFields
<1> HIDE DEF g
<1> QED BY <1>1, PlainFields DEF g

LEMMA HistNone ==
  ASSUME NEW f \in File
  PROVE  LET g == [f EXCEPT !.hist = "none"] IN
         /\ g \in File /\ g.hist = "none"
         /\ g.exists = f.exists /\ g.other = f.other /\ g.keys = f.keys /\ g.blocks = f.blocks
         /\ g.picked = f.picked /\ g.tier = f.tier /\ g.open = f.open
         /\ g.edited = f.edited /\ g.provider = f.provider /\ g.web = f.web
         /\ OtherOf(g) = OtherOf(f)
         /\ f.hist = "none" => g = f
<1>1. LET g == [f EXCEPT !.hist = "none"] IN
         /\ g \in File /\ g.hist = "none"
         /\ g.exists = f.exists /\ g.other = f.other /\ g.keys = f.keys /\ g.blocks = f.blocks
         /\ g.picked = f.picked /\ g.tier = f.tier /\ g.open = f.open
         /\ g.edited = f.edited /\ g.provider = f.provider /\ g.web = f.web
  BY DEF File
<1>2. OtherOf([f EXCEPT !.hist = "none"]) = OtherOf(f)
  BY DEF OtherOf, WithoutBlocks, File
<1>3. f.hist = "none" => [f EXCEPT !.hist = "none"] = f
  BY DEF File
<1> QED BY <1>1, <1>2, <1>3

(* What the receipt says of a pristine installation.                       *)
LEMMA PristineOriginal ==
  ASSUME NEW f, NEW s, Sound(f), SoundReceipt(s), Active(s), Pristine(f, s)
  PROVE  /\ Original(f, s) /\ f.hist = "none" /\ f.keys = {} /\ OtherOf(f) = s.source.other
         /\ ~f.picked
<1>1. s.baseline # NoFile /\ Closed(f) = s.baseline /\ f \in File
  BY DEF Pristine, Active, Sound
<1>2. Original(s.baseline, s) /\ s.source \in File /\ s.source.hist = "none"
  BY <1>1, Receipts DEF SoundReceipt, Sound
<1>3. WithoutBlocks(f) = [s.source EXCEPT !.exists = TRUE, !.keys = {}]
  BY <1>1, <1>2, ClosedFields DEF Original
<1>4. /\ [s.source EXCEPT !.exists = TRUE, !.keys = {}].hist = "none"
      /\ [s.source EXCEPT !.exists = TRUE, !.keys = {}].keys = {}
      /\ [s.source EXCEPT !.exists = TRUE, !.keys = {}].other = s.source.other
  BY <1>2 DEF File
<1>5. WithoutBlocks(f).hist = f.hist /\ WithoutBlocks(f).keys = f.keys
  BY <1>1, WithoutBlocksFields
<1>6. ~f.picked
  <2>1. Installed(s) /\ ~s.baseline.picked
    BY <1>1, Receipts DEF SoundReceipt
  <2> QED BY <1>1, <2>1, ClosedFields
<1> QED BY <1>3, <1>4, <1>5, <1>6 DEF Original, OtherOf

LEMMA ReceiptTypes ==
  ASSUME NEW s \in Receipt
  PROVE  /\ s = [installed |-> TRUE, existed |-> s.existed, prior |-> s.prior, source |-> s.source,
                 baseline |-> s.baseline, provider |-> s.provider, web |-> s.web, pause |-> s.pause]
         /\ s.existed \in BOOLEAN /\ s.prior \subseteq PickerKeys /\ s.source \in File
         /\ s.baseline \in File /\ s.provider \in ProviderBlock /\ s.web \in BOOLEAN
         /\ s.pause \in Pause
  BY DEF Receipt

LEMMA SuspendPlan ==
  ASSUME NEW f, NEW s, Sound(f), SoundReceipt(s), NEW b, NEW kind \in Kinds,
         CanSuspend(f, s, b, kind)
  PROVE  LET g == SuspendFile(f, s, kind)
             t == SuspendReceipt(f, s, g, kind) IN
         /\ Sound(g) /\ ~g.blocks /\ SoundReceipt(t) /\ Paused(t) /\ t.pause.file = g
         /\ SameOwner(s, t) /\ OtherOf(g) = OtherOf(f) /\ f.keys = {} /\ g.keys = {}
         /\ Pristine(f, s) => Pristine(g, t)
<1> DEFINE p == WithoutBlocks(f)
           g == SuspendFile(f, s, kind)
           t == SuspendReceipt(f, s, g, kind)
<1>1. /\ Active(s) /\ ~Paused(s) /\ Installed(s) /\ s \in Receipt /\ f \in File /\ f.blocks
      /\ f.exists /\ Sound(s.source)
  BY Receipts DEF CanSuspend, Healthy, Located, Sound, SoundReceipt
<1>2. f.keys = {}
  BY <1>1, FileTypes DEF CanSuspend, Foreign, PickerKeys, Sound
<1>3. /\ p \in File /\ p.exists /\ p.keys = {} /\ p.hist = f.hist /\ ~p.blocks /\ ~p.picked
      /\ ~p.tier /\ p.provider = NoProvider /\ ~p.open /\ ~p.web /\ p.edited = "no"
      /\ p.other = OtherOf(f)
  BY <1>1, <1>2, WithoutBlocksFields DEF OtherOf
<1>4. g = p \/ g = AppendHist(p, s.existed)
  BY DEF SuspendFile
<1>5. s.existed \in BOOLEAN
  BY <1>1, ReceiptTypes
<1>6. /\ g \in File /\ g.exists /\ g.keys = {} /\ ~g.blocks /\ ~g.picked
      /\ ~g.tier /\ g.provider = NoProvider /\ ~g.open /\ ~g.web /\ g.edited = "no"
      /\ g.other = OtherOf(f)
  <2> HIDE DEF p, g
  <2> QED BY <1>3, <1>4, <1>5, AppendHistFields
<1>7. Sound(g)
  <2> HIDE DEF g
  <2> QED BY <1>6, SoundFile
<1>8. OtherOf(g) = OtherOf(f)
  <2> HIDE DEF g
  <2>1. WithoutBlocks(g) = g
    BY <1>6, PlainFields
  <2> QED BY <1>6, <2>1 DEF OtherOf
<1>9. ASSUME Pristine(f, s)
      PROVE  WithoutBlocks([g EXCEPT !.hist = "none"]) = [s.source EXCEPT !.exists = TRUE, !.keys = {}]
  <2>1. Original(f, s) /\ f.hist = "none"
    BY <1>1, <1>9, PristineOriginal
  <2> DEFINE h == [g EXCEPT !.hist = "none"]
  <2>2. h = p
    <3>1. h \in File /\ h.hist = "none" /\ h.exists = g.exists /\ h.other = g.other
          /\ h.keys = g.keys /\ h.blocks = g.blocks /\ h.picked = g.picked /\ h.tier = g.tier
          /\ h.open = g.open /\ h.edited = g.edited /\ h.provider = g.provider /\ h.web = g.web
      <4> HIDE DEF g
      <4> QED BY <1>6, HistNone
    <3> HIDE DEF g, h, p
    <3>2. /\ h.exists = p.exists /\ h.blocks = p.blocks /\ h.picked = p.picked
          /\ h.tier = p.tier /\ h.open = p.open /\ h.web = p.web
      BY <1>3, <1>6, <3>1, FileTypes
    <3> QED BY ZenonT(60), <1>3, <1>6, <2>1, <3>1, <3>2, SameFile
  <2> HIDE DEF h
  <2> QED BY <1>1, <2>1, <2>2, PlainTwice DEF Original, h
<1> DEFINE q == [kind |-> kind, file |-> g, pristine |-> Pristine(f, s)]
<1>10. Pristine(f, s) \in BOOLEAN
  BY <1>1 DEF Pristine, Active
<1>11. q \in Pause /\ q # NoPause /\ q.file = g /\ q.pristine = Pristine(f, s)
  <2> HIDE DEF g
  <2> QED BY <1>6, <1>10 DEF Pause, NoPause, Kinds
<1>12. t = [s EXCEPT !.pause = q]
  BY DEF SuspendReceipt
<1> HIDE DEF q
<1>13. /\ t \in Receipt /\ t.pause = q /\ t.prior = s.prior /\ t.source = s.source
       /\ t.existed = s.existed
  <2> HIDE DEF t, g
  <2> QED BY <1>1, <1>11, <1>12 DEF Receipt
<1>14. Installed(t) /\ Paused(t) /\ ~Active(t)
  <2> HIDE DEF t, g
  <2> QED BY <1>11, <1>13, Receipts DEF Paused
<1>15. SoundReceipt(t)
  <2> HIDE DEF t, g
  <2>1. Original([t.pause.file EXCEPT !.hist = "none"], t) <=>
          WithoutBlocks([g EXCEPT !.hist = "none"]) = [s.source EXCEPT !.exists = TRUE, !.keys = {}]
    BY <1>11, <1>13 DEF Original
  <2>2. t.pause.pristine => Original([t.pause.file EXCEPT !.hist = "none"], t)
    BY <1>9, <1>11, <1>13, <2>1
  <2> QED BY <1>1, <1>6, <1>7, <1>11, <1>13, <1>14, <2>2 DEF SoundReceipt
<1>16. Pristine(f, s) => Pristine(g, t)
  <2> HIDE DEF t, g
  <2> QED BY <1>11, <1>13 DEF Pristine
<1>17. SameOwner(s, t)
  <2> HIDE DEF t, g
  <2> QED BY <1>1, <1>13, <1>14 DEF SameOwner
<1> QED BY <1>2, <1>6, <1>7, <1>8, <1>11, <1>13, <1>14, <1>15, <1>16, <1>17

LEMMA ReactivatePlan ==
  ASSUME NEW f, NEW s, Sound(f), SoundReceipt(s), NEW b, NEW kind, NEW search \in BOOLEAN,
         CanReactivate(f, s, b, kind)
  PROVE  LET g == ReactivateFile(f, search)
             t == ReactivateReceipt(s, g) IN
         /\ FreshOver(g, f.other) /\ Sound(g) /\ SoundReceipt(t) /\ Active(t) /\ Fits(g, t)
         /\ SameOwner(s, t) /\ OtherOf(g) = OtherOf(f) /\ f.keys = {} /\ ~f.blocks
         /\ Pristine(f, s) => Pristine(g, t)
<1> DEFINE h == [f EXCEPT !.hist = "none"]
           g == ReactivateFile(f, search)
           t == ReactivateReceipt(s, g)
<1>1. /\ Paused(s) /\ ~Active(s) /\ Installed(s) /\ s \in Receipt /\ f = s.pause.file
      /\ f \in File /\ ~f.blocks /\ f.keys = {} /\ Sound(s.source) /\ ~s.source.blocks
      /\ s.source.hist = "none" /\ s.source \in File
      /\ s.pause.pristine => Original(h, s)
  BY Receipts DEF CanReactivate, Sound, SoundReceipt
<1>2. ~f.picked /\ ~f.tier /\ ~f.open /\ f.edited = "no" /\ OtherOf(f) = f.other
  BY <1>1, SoundFile DEF Sound, OtherOf
<1>3. /\ h \in File /\ h.hist = "none" /\ h.other = f.other /\ ~h.picked /\ ~h.tier /\ ~h.open
      /\ h.edited = "no" /\ OtherOf(h) = f.other
  BY <1>1, <1>2, HistNone
<1>4. FreshOver(g, f.other)
  <2>1. g = WithBlocks(h, search)
    BY DEF ReactivateFile
  <2> HIDE DEF g, h
  <2>2. /\ g \in File /\ g.exists /\ g.other = h.other /\ g.keys = {} /\ g.blocks
        /\ g.picked = h.picked /\ g.tier = h.tier /\ g.open = h.open
        /\ g.edited = h.edited /\ g.hist = h.hist
    BY <1>3, <2>1, WithBlocksFields
  <2> QED BY <1>3, <2>2 DEF FreshOver
<1>5. Sound(g) /\ OtherOf(g) = f.other
  <2> HIDE DEF g
  <2>1. Sound(g) /\ g \in File
    BY <1>4, SoundFile DEF FreshOver
  <2> QED BY <1>4, <2>1 DEF FreshOver, OtherOf, WithoutBlocks, File
<1> DEFINE base == IF s.pause.pristine THEN g ELSE NoFile
<1>6. t = [s EXCEPT !.baseline = base, !.provider = g.provider, !.web = g.web, !.pause = NoPause]
  BY DEF ReactivateReceipt
<1>7. /\ base \in File /\ g.provider \in ProviderBlock /\ g.web \in BOOLEAN /\ NoPause \in Pause
  <2> HIDE DEF g
  <2> QED BY <1>4, NoFileFields, FileTypes, Receipts DEF FreshOver
<1>8. /\ t \in Receipt /\ t.baseline = base /\ t.pause = NoPause /\ t.prior = s.prior
      /\ t.source = s.source /\ t.existed = s.existed /\ t.provider = g.provider /\ t.web = g.web
  <2> HIDE DEF t, g, base
  <2> QED BY <1>1, <1>6, <1>7 DEF Receipt
<1>9. Active(t) /\ Installed(t) /\ ~Paused(t)
  <2> HIDE DEF t, g, base
  <2> QED BY <1>8, Receipts DEF Active
<1>10. s.pause.pristine => WithoutBlocks(g) = [s.source EXCEPT !.exists = TRUE, !.keys = {}]
  <2> SUFFICES ASSUME s.pause.pristine
               PROVE  WithoutBlocks(g) = [s.source EXCEPT !.exists = TRUE, !.keys = {}]
    OBVIOUS
  <2>1. WithoutBlocks(h) = [s.source EXCEPT !.exists = TRUE, !.keys = {}]
    BY <1>1 DEF Original
  <2>2. [s.source EXCEPT !.exists = TRUE, !.keys = {}].other = s.source.other
    BY <1>1 DEF File
  <2>3. f.other = s.source.other
    BY <1>3, <2>1, <2>2 DEF OtherOf
  <2> HIDE DEF g, h
  <2> QED BY <1>1, <1>4, <2>3, FreshIsOriginal
<1>11. SoundReceipt(t)
  <2>1. t.baseline # NoFile => t.baseline = g /\ s.pause.pristine
    BY <1>8
  <2> HIDE DEF t, g, base, h
  <2>2. t.baseline # NoFile => Original(t.baseline, t)
    BY <1>8, <1>10, <2>1 DEF Original
  <2>3. ~g.picked
    BY <1>4 DEF FreshOver
  <2> QED BY <1>1, <1>8, <1>9, <2>1, <2>2, <2>3 DEF SoundReceipt
<1>12. Fits(g, t)
  <2> HIDE DEF t, g, base
  <2> QED BY <1>4, <1>8 DEF Fits, FreshOver
<1>13. Pristine(f, s) => Pristine(g, t)
  <2> SUFFICES ASSUME Pristine(f, s) PROVE Pristine(g, t)
    OBVIOUS
  <2>1. s.pause.pristine
    BY <1>1 DEF Pristine, Paused
  <2>2. t.baseline = g
    BY <1>8, <2>1
  <2> HIDE DEF t, g, base, h
  <2>3. g \in File /\ g.open = FALSE /\ g # NoFile
    BY <1>4, NoFileFields, FileTypes DEF FreshOver
  <2> QED BY <1>8, <2>2, <2>3, ClosedFields DEF Pristine
<1>14. SameOwner(s, t)
  <2> HIDE DEF t, g, base
  <2> QED BY <1>1, <1>8, <1>9 DEF SameOwner
<1> QED BY <1>1, <1>2, <1>4, <1>5, <1>9, <1>11, <1>12, <1>13, <1>14

(* Both upgrades rewrite the managed blocks in place.                      *)
Rewritten(f, g) ==
    /\ g \in File /\ ~g.open
    /\ g.exists = f.exists /\ g.other = f.other /\ g.keys = f.keys /\ g.blocks = f.blocks
    /\ g.picked = f.picked /\ g.tier = f.tier /\ g.edited = f.edited /\ g.hist = f.hist

LEMMA RewrittenKeeps ==
  ASSUME NEW f, NEW g, Sound(f), f.blocks, Rewritten(f, g)
  PROVE  Sound(g) /\ WithoutBlocks(g) = WithoutBlocks(f) /\ OtherOf(g) = OtherOf(f)
<1>1. f \in File /\ g \in File /\ g.blocks /\ g.exists /\ "model" \notin g.keys
  BY DEF Sound, Rewritten
<1>2. Sound(g)
  BY <1>1, SoundFile
<1>3. WithoutBlocks(g).other = WithoutBlocks(f).other
  BY <1>1 DEF Rewritten, WithoutBlocks, File
<1>4. /\ WithoutBlocks(g) \in File /\ WithoutBlocks(f) \in File
      /\ WithoutBlocks(g).exists = WithoutBlocks(f).exists
      /\ WithoutBlocks(g).keys = WithoutBlocks(f).keys
      /\ WithoutBlocks(g).hist = WithoutBlocks(f).hist
      /\ WithoutBlocks(g).provider = WithoutBlocks(f).provider
      /\ WithoutBlocks(g).edited = WithoutBlocks(f).edited
  <2>1. g.exists = f.exists /\ g.keys = f.keys /\ g.hist = f.hist
    BY DEF Rewritten
  <2> QED BY <1>1, <2>1, WithoutBlocksFields
<1>5. /\ WithoutBlocks(g).blocks = WithoutBlocks(f).blocks
      /\ WithoutBlocks(g).picked = WithoutBlocks(f).picked
      /\ WithoutBlocks(g).tier = WithoutBlocks(f).tier
      /\ WithoutBlocks(g).open = WithoutBlocks(f).open
      /\ WithoutBlocks(g).web = WithoutBlocks(f).web
  BY <1>1, <1>4, WithoutBlocksFields, FileTypes
<1>6. WithoutBlocks(g) = WithoutBlocks(f)
  BY <1>3, <1>4, <1>5, SameFile
<1> QED BY <1>2, <1>3, <1>6 DEF OtherOf

LEMMA UpgradePlan ==
  ASSUME NEW f, NEW s, NEW g, Sound(f), SoundReceipt(s), Active(s), f.blocks, Rewritten(f, g)
  PROVE  LET t == UpgradeReceipt(f, s, g) IN
         /\ SoundReceipt(t) /\ Active(t) /\ Fits(g, t) /\ SameOwner(s, t)
         /\ Pristine(f, s) => Pristine(g, t)
<1> DEFINE t == UpgradeReceipt(f, s, g)
           base == NextBaseline(f, s, g)
<1>1. /\ Installed(s) /\ ~Paused(s) /\ s \in Receipt /\ s.pause = NoPause /\ f \in File
      /\ Sound(g) /\ g \in File /\ g.blocks
  BY Receipts, RewrittenKeeps DEF Active, SoundReceipt, Rewritten, Sound
<1>2. base \in File
  BY <1>1, NoFileFields DEF NextBaseline
<1>3. /\ t \in Receipt /\ t.baseline = base /\ t.pause = NoPause /\ t.prior = s.prior
      /\ t.source = s.source /\ t.existed = s.existed /\ t.provider = g.provider /\ t.web = g.web
  <2>1. t = [s EXCEPT !.provider = g.provider, !.web = g.web, !.baseline = base]
    BY DEF UpgradeReceipt
  <2>2. g.provider \in ProviderBlock /\ g.web \in BOOLEAN
    BY <1>1, FileTypes
  <2> HIDE DEF t, base
  <2> QED BY <1>1, <1>2, <2>1, <2>2 DEF Receipt
<1> HIDE DEF t
<1>4. Installed(t) /\ Active(t) /\ ~Paused(t)
  BY <1>3, Receipts DEF Active
<1>5. Pristine(f, s) => base = g
  BY <1>1 DEF Pristine, NextBaseline
<1>6. base # NoFile => Pristine(f, s) /\ base = g
  BY <1>1 DEF Pristine, NextBaseline
<1> HIDE DEF base
<1>7. base # NoFile => Original(base, t) /\ ~base.picked
  <2> SUFFICES ASSUME base # NoFile PROVE Original(base, t) /\ ~base.picked
    OBVIOUS
  <2>1. Original(f, s) /\ base = g /\ ~g.picked
    BY <1>6, PristineOriginal DEF Rewritten
  <2> QED BY <1>3, <2>1, RewrittenKeeps DEF Original
<1>8. SoundReceipt(t)
  BY <1>1, <1>3, <1>4, <1>7 DEF SoundReceipt
<1>9. Pristine(f, s) => Pristine(g, t)
  <2>1. g.open = FALSE /\ g # NoFile
    BY <1>1, NoFileFields, FileTypes DEF Rewritten
  <2> QED BY <1>1, <1>3, <1>5, <2>1, ClosedFields DEF Pristine
<1>10. Fits(g, t) /\ SameOwner(s, t)
  BY <1>1, <1>3, <1>4 DEF Fits, SameOwner
<1> QED BY <1>4, <1>8, <1>9, <1>10 DEF t

LEMMA MigrateRewrites ==
  ASSUME NEW f, NEW s, Sound(f), CanMigrate(f, s)
  PROVE  Rewritten(f, MigrateFile(f)) /\ f.blocks /\ Active(s)
<1> DEFINE c == Closed(f)
<1>1. f \in File /\ f.blocks /\ Active(s)
  BY DEF CanMigrate, Healthy, Located, Sound
<1>2. /\ c \in File /\ ~c.open
      /\ c.exists = f.exists /\ c.other = f.other /\ c.keys = f.keys /\ c.blocks = f.blocks
      /\ c.picked = f.picked /\ c.tier = f.tier /\ c.edited = f.edited /\ c.hist = f.hist
  BY <1>1, ClosedFields
<1> DEFINE p == [c.provider EXCEPT !.canonical = TRUE]
<1>3. MigrateFile(f) = [c EXCEPT !.provider = p]
  BY <1>2 DEF MigrateFile, File
<1>4. p \in ProviderBlock
  BY <1>2, FileTypes DEF ProviderBlock
<1> HIDE DEF c, p
<1> QED BY ZenonT(60), <1>1, <1>2, <1>3, <1>4 DEF Rewritten, File

LEMMA EnableRewrites ==
  ASSUME NEW f, NEW s, Sound(f), CanEnable(f, s)
  PROVE  Rewritten(f, EnableFile(f)) /\ f.blocks /\ Active(s)
<1> DEFINE c == Closed(f)
<1>1. f \in File /\ f.blocks /\ Active(s)
  BY DEF CanEnable, Healthy, Located, Sound
<1>2. /\ c \in File /\ ~c.open
      /\ c.exists = f.exists /\ c.other = f.other /\ c.keys = f.keys /\ c.blocks = f.blocks
      /\ c.picked = f.picked /\ c.tier = f.tier /\ c.edited = f.edited /\ c.hist = f.hist
  BY <1>1, ClosedFields
<1> DEFINE p == [c.provider EXCEPT !.search = TRUE]
           w == c.web \/ Explicit(f) = {}
<1>3. EnableFile(f) = [c EXCEPT !.provider = p, !.web = w]
  BY <1>2 DEF EnableFile, File
<1>4. p \in ProviderBlock /\ w \in BOOLEAN
  BY <1>2, FileTypes DEF ProviderBlock
<1> HIDE DEF c, p, w
<1> DEFINE g == [c EXCEPT !.provider = p, !.web = w]
<1>5. g \in File
  BY <1>2, <1>4 DEF File
<1>6. /\ g.open = c.open /\ g.exists = c.exists /\ g.other = c.other /\ g.keys = c.keys
      /\ g.blocks = c.blocks /\ g.picked = c.picked /\ g.tier = c.tier /\ g.edited = c.edited
      /\ g.hist = c.hist
  BY <1>2 DEF File
<1> HIDE DEF g
<1>7. EnableFile(f) = g
  BY <1>3 DEF g
<1> QED BY <1>1, <1>2, <1>5, <1>6, <1>7 DEF Rewritten

LEMMA MarkerPlan ==
  ASSUME NEW f, NEW s, Sound(f), f.blocks, SoundReceipt(s), Active(s), Fits(f, s)
  PROVE  LET g == Closed(f) IN
         /\ Sound(g) /\ Fits(g, s) /\ g.keys = f.keys /\ OtherOf(g) = OtherOf(f)
         /\ Pristine(f, s) => Pristine(g, s)
<1> DEFINE g == Closed(f)
<1>1. f \in File /\ Rewritten(f, g) /\ g.provider = f.provider /\ g.web = f.web
  BY ClosedFields DEF Rewritten, Sound
<1>2. Closed(g) = g
  BY <1>1, ClosedFields, FileTypes DEF Rewritten
<1> HIDE DEF g
<1>3. Sound(g) /\ OtherOf(g) = OtherOf(f)
  BY <1>1, RewrittenKeeps
<1>4. Fits(g, s) /\ g.keys = f.keys
  BY <1>1 DEF Rewritten, Fits
<1>5. Pristine(f, s) => Pristine(g, s)
  BY <1>2 DEF Pristine, Active, g
<1> QED BY <1>3, <1>4, <1>5 DEF g

LEMMA RepairPlan ==
  ASSUME NEW f, Sound(f), ~f.blocks
  PROVE  LET g == AppendHist(f, f.exists) IN
         /\ Sound(g) /\ ~g.blocks /\ g.keys = f.keys /\ OtherOf(g) = OtherOf(f)
<1> DEFINE g == AppendHist(f, f.exists)
<1>1. f \in File /\ f.exists \in BOOLEAN
  BY FileTypes DEF Sound
<1>2. /\ ~f.picked /\ ~f.tier /\ f.provider = NoProvider /\ ~f.open /\ ~f.web /\ f.edited = "no"
  BY <1>1, SoundFile
<1>3. /\ g \in File /\ g.exists /\ g.other = f.other /\ g.keys = f.keys /\ ~g.blocks
      /\ ~g.picked /\ ~g.tier /\ g.provider = NoProvider /\ ~g.open /\ ~g.web /\ g.edited = "no"
  BY <1>1, <1>2, AppendHistFields
<1> HIDE DEF g
<1>4. Sound(g) /\ WithoutBlocks(g) = g /\ WithoutBlocks(f) = f
  BY <1>1, <1>2, <1>3, SoundFile, PlainFields
<1> QED BY <1>3, <1>4 DEF OtherOf, g

-----------------------------------------------------------------------------
(* Plans: removal.                                                         *)

(* What a file is once the blocks are out and the recorded keys are back.  *)
Removed(f, s, u) ==
    /\ Sound(u) /\ ~u.blocks
    /\ s.prior \subseteq u.keys /\ u.keys = f.keys \cup s.prior
    /\ OtherOf(u) = OtherOf(f)

LEMMA SplicedPlan ==
  ASSUME NEW f, NEW s, Sound(f), SoundReceipt(s), Installed(s), AtPause(Pair(f, s)), f.exists
  PROVE  LET r == SplicedFile(f, s) IN
         /\ Removed(f, s, r)
         /\ Active(s) /\ Pristine(f, s) => r = [s.source EXCEPT !.exists = TRUE]
<1> DEFINE h == IF Paused(s) /\ s.pause.kind = "toggle" THEN [f EXCEPT !.hist = "none"] ELSE f
           k == WithoutBlocks(h)
           r == SplicedFile(f, s)
<1>1. f \in File /\ s \in Receipt /\ s.prior \subseteq PickerKeys /\ s.source \in File
      /\ s.prior = s.source.keys
  BY ReceiptTypes DEF Sound, SoundReceipt
<1>2. h \in File /\ h.exists /\ h.keys = f.keys /\ OtherOf(h) = OtherOf(f)
  BY <1>1, HistNone
<1>3. /\ k \in File /\ k.exists /\ k.keys = f.keys /\ ~k.blocks /\ ~k.picked
      /\ ~k.tier /\ k.provider = NoProvider /\ ~k.open /\ ~k.web /\ k.edited = "no"
      /\ k.other = OtherOf(f)
  <2> HIDE DEF h
  <2> QED BY <1>2, WithoutBlocksFields DEF OtherOf
<1>4. r = [k EXCEPT !.keys = @ \cup s.prior]
  BY DEF SplicedFile
<1> HIDE DEF k, r
<1>5. /\ r \in File /\ r.exists /\ r.keys = f.keys \cup s.prior /\ ~r.blocks /\ ~r.picked
      /\ ~r.tier /\ r.provider = NoProvider /\ ~r.open /\ ~r.web /\ r.edited = "no"
      /\ r.other = OtherOf(f) /\ r.hist = k.hist
  BY <1>1, <1>3, <1>4 DEF File
<1>6. Sound(r) /\ WithoutBlocks(r) = r
  BY <1>5, SoundFile, PlainFields
<1>7. Removed(f, s, r)
  BY <1>5, <1>6 DEF Removed, OtherOf
<1>8. ASSUME Active(s), Pristine(f, s)
      PROVE  r = [s.source EXCEPT !.exists = TRUE]
  <2>1. Original(f, s) /\ f.keys = {} /\ ~Paused(s)
    BY <1>8, PristineOriginal, Receipts
  <2>2. k = [s.source EXCEPT !.exists = TRUE, !.keys = {}]
    BY <2>1 DEF Original, k
  <2>3. r = [s.source EXCEPT !.exists = TRUE, !.keys = {} \cup s.prior]
    BY <1>1, <1>4, <2>2 DEF File
  <2> QED BY <1>1, <2>3 DEF File
<1> QED BY <1>7, <1>8 DEF r

LEMMA PristineRestored ==
  ASSUME NEW f, NEW s, NEW b, NEW force \in BOOLEAN, Sound(f), SoundReceipt(s),
         CanUninstall(f, s, b, force), Pristine(f, s)
  PROVE  RestoredFile(f, s, b) = s.source
<1>1. /\ Installed(s) /\ Sound(s.source) /\ s.existed = s.source.exists /\ s.source \in File
      /\ (~s.source.exists => s.source = NoFile)
  BY DEF CanUninstall, SoundReceipt, Sound
<1>2. CASE ~s.existed
  BY <1>1, <1>2 DEF RestoredFile
<1>3. CASE s.existed /\ b = s.source
  BY <1>3 DEF RestoredFile
<1>4. CASE s.existed /\ b # s.source
  <2>1. Active(s) /\ AtPause(Pair(f, s)) /\ Located(f, s)
    BY <1>1, <1>4, Receipts DEF CanUninstall, AtPause, Pair
  <2>2. f.exists
    BY <2>1 DEF Located, Sound
  <2>3. RestoredFile(f, s, b) = SplicedFile(f, s)
    BY <1>4 DEF RestoredFile
  <2>4. SplicedFile(f, s) = [s.source EXCEPT !.exists = TRUE]
    BY <1>1, <2>1, <2>2, SplicedPlan
  <2>5. s.source.exists = TRUE
    BY <1>1, <1>4, FileTypes
  <2>6. \A x : x \in File /\ x.exists = TRUE => [x EXCEPT !.exists = TRUE] = x
    BY DEF File
  <2> QED BY <1>1, <2>3, <2>4, <2>5, <2>6
<1> QED BY <1>2, <1>3, <1>4

LEMMA UninstallPlan ==
  ASSUME NEW f, NEW s, NEW b, NEW force \in BOOLEAN, NEW preserve \in BOOLEAN,
         Sound(f), SoundReceipt(s), CanUninstall(f, s, b, force)
  PROVE  LET u == UninstallFile(f, s, b, preserve) IN
         /\ Removed(f, s, u) /\ Installed(s) /\ AtPause(Pair(f, s))
         /\ (Foreign(f) => Foreign(u))
         /\ Pristine(f, s) => InstallSource(u) = s.source
<1> DEFINE r == RestoredFile(f, s, b)
           e == s.existed \/ ~Blank(r)
           u == UninstallFile(f, s, b, preserve)
<1>1. /\ Installed(s) /\ AtPause(Pair(f, s)) /\ f \in File /\ s \in Receipt
      /\ Sound(s.source) /\ s.existed = s.source.exists /\ s.source \in File
      /\ ~s.source.blocks /\ s.source.hist = "none" /\ s.prior = s.source.keys
  BY DEF CanUninstall, SoundReceipt, Sound, AtPause, Pair
<1>2. f.exists
  BY <1>1, Receipts DEF CanUninstall, Located, Sound, SoundReceipt
<1>3. Pristine(f, s) => /\ f.keys = {} /\ OtherOf(f) = s.source.other
  <2> SUFFICES ASSUME Pristine(f, s) PROVE f.keys = {} /\ OtherOf(f) = s.source.other
    OBVIOUS
  <2>1. CASE Active(s)
    BY <2>1, PristineOriginal
  <2>2. CASE Paused(s)
    <3>1. f = s.pause.file /\ s.pause.pristine /\ f.keys = {}
          /\ Original([f EXCEPT !.hist = "none"], s)
      BY <1>1, <2>2 DEF CanUninstall, SoundReceipt, Pristine, Paused
    <3>2. OtherOf([f EXCEPT !.hist = "none"]) = [s.source EXCEPT !.exists = TRUE, !.keys = {}].other
      BY <3>1 DEF Original, OtherOf
    <3>3. [s.source EXCEPT !.exists = TRUE, !.keys = {}].other = s.source.other
      BY <1>1 DEF File
    <3> QED BY <1>1, <3>1, <3>2, <3>3, HistNone
  <2> QED BY <1>1, <2>1, <2>2, Receipts
<1>4. Removed(f, s, r)
  <2>1. CASE Pristine(f, s)
    <3>1. r = s.source
      BY <2>1, PristineRestored
    <3>2. WithoutBlocks(s.source) = s.source
      BY <1>1 DEF Sound
    <3> QED BY <1>1, <1>3, <2>1, <3>1, <3>2 DEF Removed, OtherOf
  <2>2. CASE ~Pristine(f, s)
    <3>1. r = SplicedFile(f, s)
      BY <2>2 DEF RestoredFile
    <3> QED BY <1>1, <1>2, <3>1, SplicedPlan
  <2> QED BY <2>1, <2>2
<1> HIDE DEF r
<1>5. u = r \/ u = AppendHist(r, e)
  BY DEF UninstallFile, r
<1>6. r \in File /\ e \in BOOLEAN
  BY <1>1, <1>4, FileTypes DEF Removed, Sound
<1>7. /\ ~r.picked /\ ~r.tier /\ r.provider = NoProvider /\ ~r.open /\ ~r.web /\ r.edited = "no"
      /\ WithoutBlocks(r) = r /\ ~r.blocks
  BY <1>4, <1>6, SoundFile DEF Removed, Sound
<1> HIDE DEF e
<1>8. CASE u = r
  <2>1. Pristine(f, s) => r = s.source
    BY PristineRestored DEF r
  <2>2. ~HistIntact(s.source) /\ InstallSource(s.source) = s.source
    BY <1>1, FileTypes DEF HistIntact, InstallSource, WithoutHist, File
  <2> HIDE DEF u
  <2>3. Foreign(f) => Foreign(u)
    BY <1>4, <1>8 DEF Removed, Foreign
  <2> QED BY <1>1, <1>4, <1>8, <2>1, <2>2, <2>3 DEF u
<1>9. CASE u = AppendHist(r, e)
  <2> HIDE DEF u
  <2>1. /\ u \in File /\ u.exists /\ u.other = r.other /\ u.keys = r.keys /\ ~u.blocks
        /\ ~u.picked /\ ~u.tier /\ u.provider = NoProvider /\ ~u.open /\ ~u.web /\ u.edited = "no"
        /\ u.hist = IF e THEN "true" ELSE "false"
    BY <1>6, <1>7, <1>9, AppendHistFields
  <2>2. Sound(u) /\ WithoutBlocks(u) = u
    BY <2>1, SoundFile, PlainFields
  <2>3. Removed(f, s, u) /\ (Foreign(f) => Foreign(u))
    BY <1>4, <1>7, <2>1, <2>2 DEF Removed, OtherOf, Foreign
  <2>4. ASSUME Pristine(f, s)
        PROVE  InstallSource(u) = s.source
    <3>1. r = s.source
      BY <2>4, PristineRestored DEF r
    <3>2. ~s.source.exists => s.source.other = {} /\ s.source.keys = {}
      BY <1>1, NoFileFields DEF Sound
    <3>3. e = s.source.exists
      BY <1>1, <3>1, <3>2, FileTypes DEF e, Blank
    <3>4. HistIntact(u) /\ (u.hist = "true") = s.source.exists
      BY <1>1, <2>1, <3>1, <3>2, <3>3, FileTypes DEF HistIntact, Blank
    <3> DEFINE v == [[u EXCEPT !.hist = "none"] EXCEPT !.exists = (u.hist = "true")]
    <3>5. InstallSource(u) = v
      BY <3>4 DEF InstallSource, WithoutHist
    <3>6. /\ v \in File /\ v.exists = s.source.exists /\ v.other = r.other /\ v.keys = r.keys
          /\ ~v.blocks /\ ~v.picked /\ ~v.tier /\ v.provider = NoProvider /\ ~v.open /\ ~v.web
          /\ v.edited = "no" /\ v.hist = "none"
      BY <2>1, <3>4 DEF File
    <3> HIDE DEF v
    <3>7. /\ v.blocks = r.blocks /\ v.picked = r.picked /\ v.tier = r.tier /\ v.open = r.open
          /\ v.web = r.web
      BY <1>6, <1>7, <3>6, FileTypes
    <3> QED BY <1>1, <1>6, <1>7, <3>1, <3>5, <3>6, <3>7, SameFile
  <2> QED BY <1>1, <2>3, <2>4 DEF u
<1> QED BY <1>5, <1>8, <1>9

LEMMA NativePlan ==
  ASSUME NEW f, NEW s, NEW b, Sound(f), SoundReceipt(s), CanRestoreNative(f, s, b)
  PROVE  LET u == NativeFile(f, s) IN
         /\ Sound(u) /\ ~u.blocks /\ Installed(s) /\ AtPause(Pair(f, s))
         /\ f.keys = {} /\ u.keys = {} /\ OtherOf(u) = OtherOf(f)
<1> DEFINE p == WithoutBlocks(f)
           k == NativeCandidate(f)
           u == NativeFile(f, s)
<1>1. Installed(s) /\ AtPause(Pair(f, s)) /\ f.keys = {} /\ f \in File /\ s \in Receipt
  BY DEF CanRestoreNative, AtPause, Pair, Sound, SoundReceipt
<1>2. /\ p \in File /\ p.keys = {} /\ ~p.blocks /\ ~p.picked /\ ~p.tier
      /\ p.provider = NoProvider /\ ~p.open /\ ~p.web /\ p.edited = "no" /\ p.other = OtherOf(f)
  BY <1>1, WithoutBlocksFields DEF OtherOf
<1>3. k = p \/ k = [p EXCEPT !.hist = "none"]
  BY <1>2 DEF NativeCandidate, File
<1> HIDE DEF p
<1>4. /\ k \in File /\ k.keys = {} /\ ~k.blocks /\ ~k.picked /\ ~k.tier
      /\ k.provider = NoProvider /\ ~k.open /\ ~k.web /\ k.edited = "no" /\ k.other = OtherOf(f)
  <2> HIDE DEF k
  <2> QED BY <1>2, <1>3, HistNone
<1> HIDE DEF k
<1>5. u = AppendHist(k, s.existed \/ ~Blank(k))
  BY DEF NativeFile, k
<1>6. (s.existed \/ ~Blank(k)) \in BOOLEAN
  OBVIOUS
<1> HIDE DEF u
<1>7. /\ u \in File /\ u.exists /\ u.keys = {} /\ ~u.blocks /\ ~u.picked /\ ~u.tier
      /\ u.provider = NoProvider /\ ~u.open /\ ~u.web /\ u.edited = "no" /\ u.other = OtherOf(f)
  BY <1>4, <1>5, <1>6, AppendHistFields
<1>8. Sound(u) /\ WithoutBlocks(u) = u
  BY <1>7, SoundFile, PlainFields
<1> QED BY <1>1, <1>7, <1>8 DEF OtherOf, u

-----------------------------------------------------------------------------
(* Edits of the user and rollbacks leave the file sound.                   *)

LEMMA SettingEdited ==
  ASSUME NEW f, Sound(f), NEW other \in SUBSET Settings, NEW hist \in {f.hist, "stray"}
  PROVE  LET g == [f EXCEPT !.exists = TRUE, !.other = other, !.hist = hist] IN
         /\ Sound(g) /\ g.blocks = f.blocks /\ g.provider = f.provider /\ g.web = f.web
         /\ g.keys = f.keys
<1>1. f \in File
  BY DEF Sound
<1> DEFINE g == [f EXCEPT !.exists = TRUE, !.other = other, !.hist = hist]
<1>2. /\ g \in File /\ g.exists /\ g.keys = f.keys /\ g.blocks = f.blocks
      /\ g.picked = f.picked /\ g.tier = f.tier /\ g.open = f.open
      /\ g.edited = f.edited /\ g.provider = f.provider /\ g.web = f.web
  BY <1>1 DEF File
<1> HIDE DEF g
<1>3. Sound(g)
  BY <1>1, <1>2, SoundFile
<1> QED BY <1>2, <1>3 DEF g

(* The blocks keep their layout, and what is outside of them stays.        *)
BlockEdit(f, g) ==
    /\ g \in File /\ g.exists = f.exists /\ g.keys = f.keys /\ g.blocks = f.blocks
    /\ g.provider = f.provider /\ g.web = f.web

LEMMA BlockEdited ==
  ASSUME NEW f, Sound(f), f.blocks
  PROVE  /\ \A v \in BOOLEAN : BlockEdit(f, [f EXCEPT !.picked = v])
         /\ \A v \in BOOLEAN : BlockEdit(f, [f EXCEPT !.tier = v])
         /\ \A v \in BOOLEAN : BlockEdit(f, [f EXCEPT !.open = v])
         /\ \A v \in {"no", "root", "provider"} : BlockEdit(f, [f EXCEPT !.edited = v])
         /\ \A g : BlockEdit(f, g) => Sound(g)
<1>1. f \in File
  BY DEF Sound
<1>2. \A g : BlockEdit(f, g) => Sound(g)
  BY <1>1, SoundFile DEF BlockEdit, Sound
<1> QED BY <1>1, <1>2 DEF BlockEdit, File

LEMMA KeysEdited ==
  ASSUME NEW f, Sound(f), NEW keys \in SUBSET PickerKeys, f.blocks => "model" \notin keys
  PROVE  LET g == [f EXCEPT !.exists = TRUE, !.keys = keys] IN
         /\ Sound(g) /\ g.blocks = f.blocks /\ g.provider = f.provider /\ g.web = f.web
         /\ g.keys = keys
<1>1. f \in File
  BY DEF Sound
<1> DEFINE g == [f EXCEPT !.exists = TRUE, !.keys = keys]
<1>2. /\ g \in File /\ g.exists /\ g.keys = keys /\ g.blocks = f.blocks
      /\ g.picked = f.picked /\ g.tier = f.tier /\ g.open = f.open
      /\ g.edited = f.edited /\ g.provider = f.provider /\ g.web = f.web
  BY <1>1 DEF File
<1> HIDE DEF g
<1>3. Sound(g)
  BY <1>1, <1>2, SoundFile
<1> QED BY <1>2, <1>3 DEF g

(* Every edit leaves a sound file whose blocks were not added, removed or  *)
(* given another layout; it takes no recorded assignment out.              *)
EditedTo(f) ==
    /\ Sound(f) /\ f.blocks = file.blocks /\ f.provider = file.provider /\ f.web = file.web
    /\ file.keys \cap Recorded \subseteq f.keys

LEMMA OtherEdited ==
  ASSUME Sound(file), EditOther
  PROVE  EditedTo(file') /\ EditTo(file')
<1>1. PICK o \in {"table", "search"}, h \in {"none", "stray"} :
        EditTo([file EXCEPT !.exists = TRUE,
                            !.other = IF o \in @ THEN @ \ {o} ELSE @ \cup {o},
                            !.hist = IF h = "stray" THEN h ELSE @])
  BY DEF EditOther
<1> DEFINE other == IF o \in file.other THEN file.other \ {o} ELSE file.other \cup {o}
           hist == IF h = "stray" THEN h ELSE file.hist
<1>2. file' = [file EXCEPT !.exists = TRUE, !.other = other, !.hist = hist]
  BY <1>1 DEF EditTo, Sound, File
<1>3. other \in SUBSET Settings /\ hist \in {file.hist, "stray"}
  BY FileTypes DEF Settings, Sound
<1>4. EditTo(file')
  BY <1>1, <1>2 DEF EditTo
<1> HIDE DEF other, hist
<1>5. /\ Sound(file') /\ file'.blocks = file.blocks /\ file'.provider = file.provider
      /\ file'.web = file.web /\ file'.keys = file.keys
  BY ZenonT(60), <1>2, <1>3, SettingEdited
<1> QED BY <1>4, <1>5 DEF EditedTo

LEMMA TierEdited ==
  ASSUME Sound(file), EditTier
  PROVE  EditedTo(file') /\ EditTo(file')
<1>1. file \in File
  BY DEF Sound
<1>2. CASE file.blocks
  <2>1. file' = [file EXCEPT !.tier = TRUE] /\ EditTo(file')
    BY <1>2 DEF EditTier, EditTo
  <2>2. BlockEdit(file, file') /\ Sound(file')
    BY <1>2, <2>1, BlockEdited
  <2> QED BY <2>1, <2>2 DEF EditedTo, BlockEdit
<1>3. CASE ~file.blocks
  <2>1. EditTo([file EXCEPT !.exists = TRUE, !.other = @ \cup {"tier"}])
    BY <1>3 DEF EditTier
  <2>2. file' = [file EXCEPT !.exists = TRUE, !.other = file.other \cup {"tier"}, !.hist = file.hist]
        /\ EditTo(file')
    BY <1>1, <2>1 DEF EditTo, File
  <2>3. file.other \cup {"tier"} \in SUBSET Settings
    BY <1>1, FileTypes DEF Settings
  <2> QED BY <2>2, <2>3, SettingEdited DEF EditedTo
<1> QED BY <1>2, <1>3

LEMMA BlocksEdited ==
  ASSUME Sound(file), EditSelection \/ EditBlock \/ EraseEnd
  PROVE  EditedTo(file') /\ EditTo(file')
<1>1. file.blocks /\ EditTo(file')
  BY DEF EditSelection, EditBlock, EraseEnd, EditTo
<1>2. BlockEdit(file, file')
  <2>1. CASE EditSelection
    <3>1. file' = [file EXCEPT !.picked = ~file.picked] /\ (~file.picked) \in BOOLEAN
      BY <2>1 DEF EditSelection, EditTo, Sound, File
    <3> QED BY <1>1, <3>1, BlockEdited
  <2>2. CASE EditBlock
    <3>1. PICK b \in {"root", "provider"} : file' = [file EXCEPT !.edited = b]
      BY <2>2 DEF EditBlock, EditTo
    <3> QED BY <1>1, <3>1, BlockEdited
  <2>3. CASE EraseEnd
    <3>1. file' = [file EXCEPT !.open = TRUE]
      BY <2>3 DEF EraseEnd, EditTo
    <3> QED BY <1>1, <3>1, BlockEdited
  <2> QED BY <2>1, <2>2, <2>3
<1>3. Sound(file')
  BY <1>1, <1>2, BlockEdited
<1> QED BY <1>1, <1>2, <1>3 DEF EditedTo, BlockEdit

LEMMA KeyEdited ==
  ASSUME Sound(file), EditKeys
  PROVE  EditedTo(file') /\ EditTo(file')
<1>1. PICK k \in PickerKeys :
        /\ k = "model" => ~file.blocks
        /\ k \notin file.keys \cap Recorded
        /\ EditTo([file EXCEPT !.exists = TRUE,
                               !.keys = IF k \in @ THEN @ \ {k} ELSE @ \cup {k}])
  BY DEF EditKeys
<1> DEFINE keys == IF k \in file.keys THEN file.keys \ {k} ELSE file.keys \cup {k}
<1>2. file' = [file EXCEPT !.exists = TRUE, !.keys = keys]
  BY <1>1 DEF EditTo, Sound, File
<1>3. keys \in SUBSET PickerKeys /\ (file.blocks => "model" \notin keys)
      /\ file.keys \cap Recorded \subseteq keys
  BY <1>1, FileTypes DEF Sound
<1>4. EditTo(file')
  BY <1>1, <1>2 DEF EditTo
<1> HIDE DEF keys
<1> QED BY <1>2, <1>3, <1>4, KeysEdited DEF EditedTo

LEMMA UserEdits ==
  ASSUME Sound(file), UserEdit
  PROVE  LoseBackup \/ (EditedTo(file') /\ EditTo(file'))
  BY OtherEdited, TierEdited, BlocksEdited, KeyEdited DEF UserEdit

-----------------------------------------------------------------------------
(* What does not depend on the variables a step changes.                   *)

LEMMA LostIsNoFile == Lost \notin File
<1> SUFFICES ASSUME Lost \in File PROVE FALSE
  OBVIOUS
<1>1. DOMAIN Lost = {"lost"} /\ "exists" \in DOMAIN Lost
  BY DEF Lost, File
<1> QED BY <1>1

(* With a receipt the user's part does not depend on the backup.           *)
LEMMA OwnedKeys ==
  ASSUME NEW s, Installed(s)
  PROVE  \A f, b : KeysOf(f, s, b) = f.keys \cup s.prior
  BY DEF KeysOf

LEMMA SameUserKept ==
  ASSUME NEW old, NEW new, SameUser(old, new), Installed(old.receipt) \/ backup' = backup
  PROVE  SameUser(old, new)'
<1>1. CASE Installed(old.receipt)
  BY <1>1, OwnedKeys DEF SameUser
<1>2. CASE backup' = backup
  BY <1>2 DEF SameUser
<1> QED BY <1>1, <1>2

LEMMA ChangeKept ==
  ASSUME NEW j, Change(j), torn' = torn \/ torn', touched' = touched \/ touched' # {}
  PROVE  Change(j)'
  BY DEF Change

LEMMA JobKept ==
  ASSUME JobInv, UNCHANGED <<job, undo, receipt>>,
         torn' = torn \/ torn', touched' = touched \/ touched' # {},
         Busy => Installed(job.old.receipt) \/ backup' = backup
  PROVE  JobInv'
<1>1. Busy' = Busy
  BY DEF Busy
<1>2. Busy => Change(job)'
  BY ChangeKept DEF JobInv
<1>3. Busy => SameUser(job.old, job.new)'
  BY SameUserKept DEF JobInv
<1> QED BY <1>1, <1>2, <1>3 DEF JobInv

LEMMA OperationKept ==
  ASSUME OperationInv, UNCHANGED <<job, undo, confirmed>>,
         torn' = torn \/ torn', touched' = touched \/ touched' # {},
         Busy /\ job.op = "install" => backup' = backup
  PROVE  OperationInv'
  BY DEF OperationInv, Busy

LEMMA UndoKept ==
  ASSUME UndoInv, UNCHANGED <<job, undo>>,
         torn' = torn \/ torn', touched' = touched \/ touched' # {},
         backup' = backup \/ \A i \in DOMAIN undo : undo[i].op # "install"
  PROVE  UndoInv'
<1>1. \A i \in DOMAIN undo : Change(undo[i])'
  BY ChangeKept DEF UndoInv, Rollback
<1>2. \A i \in DOMAIN undo : undo[i].op # "install" => SameUser(undo[i].old, undo[i].new)'
  BY SameUserKept DEF UndoInv, Rollback, SameOwner
<1>3. Busy' = Busy
  BY DEF Busy
<1> QED BY <1>1, <1>2, <1>3 DEF UndoInv, Rollback

LEMMA StartDropped ==
  ASSUME start' = NoPair
  PROVE  StartInv'
<1>1. ~Installed(NoPair.receipt)
  BY Receipts DEF NoPair
<1> QED BY <1>1 DEF StartInv, Alone

LEMMA StartKept ==
  ASSUME StartInv, UNCHANGED <<job, undo, start, file, receipt, backup>>
  PROVE  StartInv'
  BY DEF StartInv, Alone, Chain, Busy

LEMMA DiskKept ==
  ASSUME DiskInv, UNCHANGED <<job, file, receipt, backup, torn, touched>>
  PROVE  DiskInv'
  BY DEF DiskInv

LEMMA PairedKept ==
  ASSUME PairedInv, UNCHANGED <<job, file, receipt, torn, touched>>
  PROVE  PairedInv'
  BY DEF PairedInv

LEMMA SyncKept ==
  ASSUME SyncInv, UNCHANGED <<sync, receipt, torn, touched>>
  PROVE  SyncInv'
  BY DEF SyncInv

-----------------------------------------------------------------------------
(* The user's steps.                                                       *)

LEMMA StutterHolds ==
  ASSUME OwnershipInv, UNCHANGED vars
  PROVE  OwnershipInv'
<1>1. JobInv'
  BY JobKept DEF OwnershipInv, vars
<1>2. OperationInv'
  BY OperationKept DEF OwnershipInv, vars
<1>3. UndoInv'
  BY UndoKept DEF OwnershipInv, vars
<1>4. CountInv'
  BY DEF OwnershipInv, vars, CountInv
<1> QED BY <1>1, <1>2, <1>3, <1>4, StartKept, DiskKept, PairedKept, SyncKept
        DEF OwnershipInv, vars

LEMMA ConfirmHolds ==
  ASSUME OwnershipInv, Confirm
  PROVE  OwnershipInv'
<1>1. UNCHANGED <<file, receipt, backup, job, undo, sync, edits, touched, torn, start>> /\ job = Idle
  BY DEF Confirm
<1>2. JobInv'
  BY <1>1, JobKept DEF OwnershipInv
<1>3. OperationInv'
  BY <1>1 DEF OperationInv, Busy, Idle
<1>4. UndoInv'
  BY <1>1, UndoKept DEF OwnershipInv
<1>5. CountInv'
  BY <1>1 DEF OwnershipInv, CountInv
<1> QED BY <1>1, <1>2, <1>3, <1>4, <1>5, StartKept, DiskKept, PairedKept, SyncKept
        DEF OwnershipInv

(* The backup can be lost only under a receipt, never under an             *)
(* installation that is still between its commits.                         *)
LEMMA LoseBackupHolds ==
  ASSUME OwnershipInv, LoseBackup
  PROVE  OwnershipInv'
<1>1. /\ Installed(receipt) /\ backup' = Lost /\ edits' = edits + 1 /\ edits < MaxEdits
      /\ start' = NoPair /\ UNCHANGED <<file, receipt, job, undo, sync, confirmed, touched, torn>>
  BY DEF LoseBackup
<1>2. Busy => Installed(job.old.receipt)
  BY <1>1 DEF OwnershipInv, JobInv, OperationInv, SameOwner
<1>3. JobInv'
  BY <1>1, <1>2, JobKept DEF OwnershipInv
<1>4. OperationInv'
  BY <1>1, <1>2, OperationKept DEF OwnershipInv, OperationInv
<1>5. UndoInv'
  <2>1. ASSUME NEW i \in DOMAIN undo, undo[i].op # "install"
        PROVE  SameUser(undo[i].old, undo[i].new)'
    <3>1. SameUser(undo[i].old, undo[i].new) /\ Installed(undo[i].old.receipt)
      BY <2>1 DEF OwnershipInv, UndoInv, Rollback, SameOwner
    <3> QED BY <1>1, <3>1, SameUserKept
  <2>2. \A i \in DOMAIN undo : Change(undo[i])'
    BY <1>1, ChangeKept DEF OwnershipInv, UndoInv, Rollback
  <2> QED BY <1>1, <2>1, <2>2 DEF OwnershipInv, UndoInv, Rollback, Busy
<1>6. DiskInv'
  BY <1>1 DEF OwnershipInv, DiskInv
<1>7. PairedInv' /\ SyncInv' /\ StartInv'
  BY <1>1, PairedKept, SyncKept, StartDropped DEF OwnershipInv
<1>8. CountInv'
  BY <1>1, MaxEditsAssumption DEF OwnershipInv, CountInv
<1> QED BY <1>3, <1>4, <1>5, <1>6, <1>7, <1>8 DEF OwnershipInv

LEMMA EditHolds ==
  ASSUME OwnershipInv, EditedTo(file'), EditTo(file')
  PROVE  OwnershipInv'
<1>1. /\ edits' = edits + 1 /\ edits < MaxEdits /\ touched' = {"installation", "pair"}
      /\ start' = NoPair /\ UNCHANGED <<receipt, backup, job, undo, sync, confirmed, torn>>
  BY DEF EditTo
<1>2. touched' # {}
  BY <1>1
<1>3. JobInv' /\ OperationInv' /\ UndoInv'
  BY <1>1, <1>2, JobKept, OperationKept, UndoKept DEF OwnershipInv
<1>4. /\ Sound(file') /\ file'.blocks = file.blocks /\ file'.provider = file.provider
      /\ file'.web = file.web /\ file.keys \cap Recorded \subseteq file'.keys
  BY DEF EditedTo
<1>5. PairedInv'
  <2>1. job.pc = "paired" /\ job.op = "uninstall" => receipt.prior \subseteq file'.keys
    BY <1>4 DEF OwnershipInv, JobInv, OperationInv, PairedInv, Busy, Recorded
  <2> QED BY <1>1, <1>2, <1>4, <2>1 DEF OwnershipInv, PairedInv, Fits
<1>6. DiskInv'
  <2>1. Matched(Pair(file, receipt)) => Matched(Pair(file', receipt))
    BY <1>4 DEF Matched, Pair, Fits
  <2> QED BY <1>1, <1>2, <1>4, <2>1 DEF OwnershipInv, DiskInv
<1>7. SyncInv' /\ StartInv'
  BY <1>1, <1>2, StartDropped DEF OwnershipInv, SyncInv
<1>8. CountInv'
  BY <1>1, MaxEditsAssumption DEF OwnershipInv, CountInv
<1> QED BY <1>3, <1>5, <1>6, <1>7, <1>8 DEF OwnershipInv

LEMMA UserHolds ==
  ASSUME OwnershipInv, UserEdit
  PROVE  OwnershipInv'
  BY UserEdits, LoseBackupHolds, EditHolds DEF OwnershipInv, DiskInv

-----------------------------------------------------------------------------
(* The bridge's own replacements of the selection.                         *)

(* An untouched installation has nothing picked, so the bridge leaves it   *)
(* alone.                                                                  *)
LEMMA UntouchedUnpicked ==
  ASSUME NEW f, NEW s, Sound(f), SoundReceipt(s), f.blocks, Untouched(Pair(f, s)), Installed(s)
  PROVE  ~f.picked
<1>1. Pristine(f, s) /\ (Paused(s) => f = s.pause.file)
  BY DEF Untouched, AtPause, Pair
<1>2. Active(s)
  BY <1>1, Receipts DEF SoundReceipt
<1> QED BY <1>1, <1>2, PristineOriginal

LEMMA NothingToSelect ==
  ASSUME OwnershipInv, ~torn, touched = {}, CanSelect(file, receipt)
  PROVE  ~file.picked
<1>1. /\ Sound(file) /\ SoundReceipt(receipt) /\ Active(receipt) /\ Installed(receipt)
      /\ file.blocks
  BY Receipts DEF OwnershipInv, DiskInv, CanSelect, Healthy, Located
<1>2. CASE job.pc # "paired"
  BY <1>1, <1>2, UntouchedUnpicked DEF OwnershipInv, DiskInv
<1>3. CASE job.pc = "paired"
  <2>1. /\ Change(job) /\ receipt = job.old.receipt /\ file = job.new.file
        /\ job.op \notin {"install", "uninstall", "native", "suspend"} /\ job.op \notin FileOnly
        /\ job.op \in Ops
    BY <1>1, <1>3 DEF OwnershipInv, JobInv, OperationInv, PairedInv, Busy, Change
  <2>2. job.op \in Updates \cup {"undo"}
    BY <2>1 DEF Ops, FileOnly, Updates
  <2>3. Installed(job.new.receipt)
    BY <1>3, <2>2 DEF OwnershipInv, OperationInv, Busy, SameOwner
  <2>4. Sounds(job.new) /\ Untouched(job.new)
    BY <2>1 DEF Change
  <2> QED BY <1>1, <2>1, <2>3, <2>4, UntouchedUnpicked DEF Sounds
<1> QED BY <1>2, <1>3

LEMMA SyncPlanHolds ==
  ASSUME OwnershipInv, SyncPlan
  PROVE  OwnershipInv'
<1>1. /\ UNCHANGED <<file, receipt, backup, job, undo, confirmed, edits, touched, torn, start>>
      /\ CanSelect(file, receipt) /\ file.picked
      /\ sync' = [pc |-> "ready", file |-> file, done |-> FALSE]
  BY DEF SyncPlan
<1>2. SyncInv'
  <2>1. torn \/ touched # {}
    BY <1>1, NothingToSelect DEF OwnershipInv, CountInv
  <2>2. Installed(receipt) /\ file.blocks
    BY <1>1, Receipts DEF CanSelect, Healthy, Located
  <2> QED BY <1>1, <2>1, <2>2 DEF SyncInv
<1>3. JobInv' /\ OperationInv' /\ UndoInv'
  BY <1>1, JobKept, OperationKept, UndoKept DEF OwnershipInv
<1>4. CountInv'
  BY <1>1 DEF OwnershipInv, CountInv
<1> QED BY <1>1, <1>2, <1>3, <1>4, StartKept, DiskKept, PairedKept DEF OwnershipInv

LEMMA SyncPublishHolds ==
  ASSUME OwnershipInv, SyncPublish
  PROVE  OwnershipInv'
<1>1. /\ UNCHANGED <<file, receipt, backup, job, undo, confirmed, edits, touched, torn, start>>
      /\ sync.pc = "published"
      /\ \/ sync' = NotAsked
         \/ CanSelect(file, receipt) /\ sync' = [pc |-> "ready", file |-> file, done |-> TRUE]
  BY DEF SyncPublish
<1>2. SyncInv'
  <2>1. sync # NotAsked
    BY <1>1 DEF NotAsked
  <2>2. (torn \/ touched # {}) /\ Installed(receipt)
    BY <2>1 DEF OwnershipInv, SyncInv, CountInv
  <2>3. CASE sync' = NotAsked
    BY <2>3 DEF SyncInv, NotAsked
  <2>4. CASE CanSelect(file, receipt) /\ sync' = [pc |-> "ready", file |-> file, done |-> TRUE]
    <3>1. file.blocks
      BY <2>4 DEF CanSelect, Healthy, Located
    <3> QED BY <1>1, <2>2, <2>4, <3>1 DEF SyncInv
  <2> QED BY <1>1, <2>3, <2>4
<1>3. JobInv' /\ OperationInv' /\ UndoInv'
  BY <1>1, JobKept, OperationKept, UndoKept DEF OwnershipInv
<1>4. CountInv'
  BY <1>1 DEF OwnershipInv, CountInv
<1> QED BY <1>1, <1>2, <1>3, <1>4, StartKept, DiskKept, PairedKept DEF OwnershipInv

LEMMA SyncCommitHolds ==
  ASSUME OwnershipInv, SyncCommit
  PROVE  OwnershipInv'
<1>1. /\ UNCHANGED <<receipt, backup, job, undo, confirmed, edits, touched, torn>>
      /\ sync.pc = "ready" /\ sync.file.blocks
  BY DEF SyncCommit, OwnershipInv, SyncInv
<1>2. (torn \/ touched # {}) /\ Installed(receipt)
  BY <1>1 DEF OwnershipInv, SyncInv, CountInv, NotAsked
<1>3. JobInv' /\ OperationInv' /\ UndoInv'
  BY <1>1, JobKept, OperationKept, UndoKept DEF OwnershipInv
<1>4. CountInv'
  BY <1>1 DEF OwnershipInv, CountInv
<1>5. SyncInv'
  <2>1. sync' = NotAsked \/ sync' = [pc |-> "published"]
    BY DEF SyncCommit
  <2> QED BY <1>1, <1>2, <2>1 DEF SyncInv, NotAsked
<1>6. CASE file = sync.file
  <2>1. file' = [file EXCEPT !.picked = ~file.picked] /\ start' = NoPair /\ file.blocks
    BY <1>1, <1>6 DEF SyncCommit
  <2>2. Sound(file) /\ (~file.picked) \in BOOLEAN
    BY DEF OwnershipInv, DiskInv
  <2>3. BlockEdit(file, file') /\ Sound(file')
    BY <2>1, <2>2, BlockEdited
  <2>4. Matched(Pair(file, receipt)) => Matched(Pair(file', receipt)) /\ ~Paused(receipt)
    BY <2>1, <2>3 DEF BlockEdit, Matched, Pair, Fits
  <2>5. DiskInv'
    BY <1>1, <1>2, <2>3, <2>4 DEF OwnershipInv, DiskInv, AtPause, Pair
  <2>6. PairedInv'
    BY <1>1, <1>2, <2>1, <2>3 DEF OwnershipInv, PairedInv, BlockEdit, Fits
  <2> QED BY <1>3, <1>4, <1>5, <2>1, <2>5, <2>6, StartDropped DEF OwnershipInv
<1>7. CASE file # sync.file
  <2>1. UNCHANGED <<file, start>>
    BY <1>7 DEF SyncCommit
  <2> QED BY <1>1, <1>3, <1>4, <1>5, <2>1, StartKept, DiskKept, PairedKept DEF OwnershipInv
<1> QED BY <1>6, <1>7

LEMMA BridgeHolds ==
  ASSUME OwnershipInv, Bridge
  PROVE  OwnershipInv'
  BY SyncPlanHolds, SyncCommitHolds, SyncPublishHolds DEF Bridge

-----------------------------------------------------------------------------
(* The end of a command.                                                   *)

LEMMA JobOver ==
  /\ Idle.pc = "idle"
  /\ \A op : /\ Refused(op) = [pc |-> "unwind"] \/ (Refused(op) = Idle /\ op # "undo" /\ undo = <<>>)
             /\ op = "undo" => After(op) = [pc |-> "unwind"]
             /\ op \in Held => After(op) = [pc |-> "held", op |-> op]
             /\ op # "undo" /\ op \notin Held => After(op) = Idle
  /\ "undo" \notin Held /\ FileOnly \cap Held = {} /\ "undo" \notin FileOnly
  BY DEF Idle, Refused, After, Held, FileOnly

LEMMA DroppedHolds ==
  ASSUME OwnershipInv, job' = Idle, undo' = <<>>, start' = NoPair,
         torn' = (torn \/ job.pc = "paired"),
         UNCHANGED <<file, receipt, backup, sync, confirmed, edits, touched>>
  PROVE  OwnershipInv'
<1>1. job'.pc = "idle" /\ ~Busy'
  BY DEF Idle, Busy
<1>2. JobInv' /\ OperationInv' /\ PairedInv' /\ StartInv'
  BY <1>1, StartDropped DEF JobInv, OperationInv, PairedInv
<1>3. UndoInv'
  BY <1>1 DEF UndoInv, Rollback
<1>4. CountInv' /\ (~torn' => ~torn /\ job.pc # "paired")
  BY DEF OwnershipInv, CountInv
<1>5. DiskInv'
  BY <1>4 DEF OwnershipInv, DiskInv
<1>6. SyncInv'
  BY <1>4 DEF OwnershipInv, SyncInv
<1> QED BY <1>2, <1>3, <1>4, <1>5, <1>6 DEF OwnershipInv

LEMMA CompleteHolds ==
  ASSUME OwnershipInv, Complete
  PROVE  OwnershipInv'
<1>1. torn' = (torn \/ job.pc = "paired")
  BY DEF Complete, OwnershipInv, CountInv
<1> QED BY <1>1, DroppedHolds DEF Complete

LEMMA CrashHolds ==
  ASSUME OwnershipInv, Crash
  PROVE  OwnershipInv'
  BY DroppedHolds DEF Crash

LEMMA FailHeldHolds ==
  ASSUME OwnershipInv, FailHeld
  PROVE  OwnershipInv'
<1>1. /\ job.pc = "held" /\ job'.pc = "unwind" /\ ~Busy' /\ ~Busy
      /\ UNCHANGED <<file, receipt, backup, undo, sync, confirmed, edits, touched, torn, start>>
  BY DEF FailHeld, Busy
<1>2. JobInv' /\ OperationInv' /\ PairedInv' /\ CountInv'
  BY <1>1 DEF OwnershipInv, JobInv, OperationInv, PairedInv, CountInv
<1>3. UndoInv'
  <2>1. \A i \in DOMAIN undo : Change(undo[i])'
    BY <1>1, ChangeKept DEF OwnershipInv, UndoInv, Rollback
  <2>2. \A i \in DOMAIN undo : undo[i].op # "install" => SameUser(undo[i].old, undo[i].new)'
    BY <1>1, SameUserKept DEF OwnershipInv, UndoInv, Rollback
  <2> QED BY <1>1, <2>1, <2>2 DEF OwnershipInv, UndoInv, Rollback
<1>4. DiskInv'
  BY <1>1 DEF OwnershipInv, DiskInv
<1>5. StartInv'
  BY <1>1 DEF OwnershipInv, StartInv, Alone, Chain
<1> QED BY <1>1, <1>2, <1>3, <1>4, <1>5, SyncKept DEF OwnershipInv

-----------------------------------------------------------------------------
(* The first commit.                                                       *)

LEMMA CommitFileHolds ==
  ASSUME OwnershipInv, CommitFile
  PROVE  OwnershipInv'
<1>1. /\ job.pc = "ready" /\ Busy /\ Watched
      /\ UNCHANGED <<receipt, backup, undo, sync, confirmed, edits, touched, torn>>
  BY DEF CommitFile, Busy
<1>2. /\ Change(job) /\ SameUser(job.old, job.new) /\ Sounds(job.old) /\ Sounds(job.new)
      /\ job.op \in Ops
  BY <1>1 DEF OwnershipInv, JobInv, Change
<1>3. CountInv' /\ SyncInv'
  BY <1>1, SyncKept DEF OwnershipInv, CountInv
<1>4. /\ \A i \in DOMAIN undo : Change(undo[i])'
      /\ \A i \in DOMAIN undo : undo[i].op # "install" => SameUser(undo[i].old, undo[i].new)'
  BY <1>1, ChangeKept, SameUserKept DEF OwnershipInv, UndoInv, Rollback
<1>6. CASE Unchanged(job.old) /\ (job.verify => backup = receipt.source) /\ job.op \in FileOnly
  <2>1. /\ file' = job.new.file /\ job' = Idle /\ start' = NoPair /\ job'.pc = "idle" /\ ~Busy'
        /\ receipt = job.new.receipt /\ undo = <<>>
    BY <1>1, <1>6, JobOver
       DEF CommitFile, Watched, Busy, OwnershipInv, JobInv, OperationInv, FileOnly, Idle
  <2>2. JobInv' /\ OperationInv' /\ PairedInv' /\ UndoInv' /\ StartInv'
    BY <1>1, <2>1, StartDropped DEF JobInv, OperationInv, PairedInv, UndoInv, Rollback
  <2>3. Pair(file', receipt') = job.new
    BY <1>1, <1>2, <2>1 DEF Sounds
  <2>4. DiskInv'
    BY <1>1, <1>2, <2>1, <2>3 DEF OwnershipInv, DiskInv, Change, Sounds
  <2> QED BY <1>3, <2>2, <2>4 DEF OwnershipInv
<1>7. CASE Unchanged(job.old) /\ (job.verify => backup = receipt.source) /\ job.op \notin FileOnly
  <2>1. file' = job.new.file /\ job' = [job EXCEPT !.pc = "paired"]
    BY <1>7 DEF CommitFile
  <2>2. /\ job'.pc = "paired" /\ job'.op = job.op /\ job'.old = job.old /\ job'.new = job.new
        /\ job'.verify = job.verify /\ Busy' /\ job' # Idle
    BY <2>1 DEF Busy, Idle, Change
  <2>3. receipt = job.old.receipt /\ start' = start
    BY <1>1, <1>7, <2>2 DEF Unchanged, Watched
  <2>4. JobInv'
    <3>1. Change(job)'
      BY <1>1, <1>2, <2>2 DEF Change
    <3>2. SameUser(job.old, job.new)'
      BY <1>1, <1>2, <2>2 DEF SameUser
    <3> QED BY <1>1, <1>7, <2>2, <2>3, <3>1, <3>2 DEF JobInv
  <2>5. OperationInv'
    BY <1>1, <2>2 DEF OwnershipInv, OperationInv
  <2>6. PairedInv'
    <3>1. job.op = "suspend" => ~job.new.file.blocks
      BY <1>1, <1>2, Receipts
         DEF OwnershipInv, OperationInv, Change, Sounds, SoundReceipt, AtPause, Paused
    <3> QED BY <1>1, <2>1, <2>2, <2>3, <3>1 DEF OwnershipInv, OperationInv, PairedInv
  <2>7. UndoInv'
    BY <1>1, <1>4, <2>2 DEF OwnershipInv, UndoInv, Rollback
  <2>8. DiskInv'
    BY <1>1, <1>2, <2>1, <2>2 DEF OwnershipInv, DiskInv, Sounds
  <2>9. StartInv'
    BY <1>1, <2>1, <2>2, <2>3 DEF OwnershipInv, StartInv, Alone, Chain
  <2> QED BY <1>3, <2>4, <2>5, <2>6, <2>7, <2>8, <2>9 DEF OwnershipInv
<1>8. CASE ~(Unchanged(job.old) /\ (job.verify => backup = receipt.source))
  <2>1. job' = Refused(job.op) /\ UNCHANGED file
    BY <1>8 DEF CommitFile
  <2>2. DiskInv'
    BY <1>1, <2>1 DEF OwnershipInv, DiskInv
  <2>3. CASE job' = Idle /\ undo = <<>>
    <3>1. job'.pc = "idle" /\ ~Busy' /\ start' = NoPair /\ undo' = <<>>
      BY <1>1, <2>3 DEF Idle, Busy, Watched
    <3>2. JobInv' /\ OperationInv' /\ PairedInv' /\ UndoInv' /\ StartInv'
      BY <2>3, <3>1, StartDropped DEF JobInv, OperationInv, PairedInv, UndoInv, Rollback
    <3> QED BY <1>3, <2>2, <3>2 DEF OwnershipInv
  <2>4. CASE job' = [pc |-> "unwind"] /\ (job.op = "undo" \/ undo # <<>>)
    <3>1. job'.pc = "unwind" /\ ~Busy' /\ start' = start
      BY <1>1, <2>4 DEF Idle, Busy, Watched
    <3>2. JobInv' /\ OperationInv' /\ PairedInv'
      BY <3>1 DEF JobInv, OperationInv, PairedInv
    <3>3. UndoInv'
      BY <1>1, <1>4, <3>1 DEF OwnershipInv, UndoInv, Rollback
    <3>4. Alone => Chain(Pair(file, receipt))
      <4> SUFFICES ASSUME Alone PROVE Chain(Pair(file, receipt))
        OBVIOUS
      <4>1. Pair(file, receipt) = job.old
        BY <1>1 DEF OwnershipInv, StartInv
      <4>2. job.op # "undo"
        <5> SUFFICES ASSUME job.op = "undo" PROVE FALSE
          OBVIOUS
        <5>1. job.verify => backup = job.old.receipt.source
          BY <1>1 DEF OwnershipInv, StartInv
        <5>2. job.old.file = file /\ job.old.receipt = receipt
          BY <4>1 DEF Pair
        <5> QED BY <1>8, <5>1, <5>2 DEF Unchanged
      <4> QED BY <1>1, <4>1, <4>2 DEF OwnershipInv, StartInv
    <3>5. StartInv'
      BY <1>1, <2>1, <3>1, <3>4 DEF OwnershipInv, StartInv, Alone, Chain
    <3> QED BY <1>3, <2>2, <3>2, <3>3, <3>5 DEF OwnershipInv
  <2> QED BY <2>1, <2>3, <2>4 DEF Refused
<1> QED BY <1>6, <1>7, <1>8

-----------------------------------------------------------------------------
(* The second commit.                                                      *)

(* What a running command has planned, once its file is written.           *)
LEMMA PairedPlan ==
  ASSUME OwnershipInv, job.pc = "paired"
  PROVE  /\ Busy /\ Change(job) /\ SameUser(job.old, job.new)
         /\ Sound(job.old.file) /\ SoundReceipt(job.old.receipt)
         /\ Sound(job.new.file) /\ SoundReceipt(job.new.receipt)
         /\ Pair(job.old.file, job.old.receipt) = job.old
         /\ Pair(job.new.file, job.new.receipt) = job.new
         /\ receipt = job.old.receipt
         /\ job.op \in {"install", "uninstall", "native"} \cup Updates \cup {"undo"}
         /\ job.op # "migrate" /\ job.op # "undo" => undo = <<>>
<1>1. Busy
  BY DEF Busy
<1>2. Change(job) /\ SameUser(job.old, job.new) /\ receipt = job.old.receipt /\ job.op \notin FileOnly
  BY <1>1 DEF OwnershipInv, JobInv
<1>3. job.op \in {"install", "uninstall", "native"} \cup Updates \cup {"undo"}
  BY <1>2 DEF Change, Ops, FileOnly, Updates
<1>4. job.op # "migrate" /\ job.op # "undo" => undo = <<>>
  BY <1>1 DEF OwnershipInv, OperationInv
<1> QED BY <1>1, <1>2, <1>3, <1>4 DEF Change, Sounds

(* The pair on disk after a successful second commit.                      *)
LEMMA CommittedPair ==
  ASSUME OwnershipInv, job.pc = "paired", job.op \in Paired => file = job.new.file
  PROVE  /\ ~torn => Matched(Pair(file, job.new.receipt))
         /\ file = job.new.file \/ "pair" \notin touched => AtPause(Pair(file, job.new.receipt))
         /\ ~torn /\ (touched = {} \/ (file = job.new.file /\ (job.op = "install" \/ touched \ {"pair"} = {})))
              => Untouched(Pair(file, job.new.receipt)) /\ Untouched(job.new)
<1>1. /\ Busy /\ Change(job) /\ SameUser(job.old, job.new)
      /\ Sound(job.old.file) /\ SoundReceipt(job.old.receipt)
      /\ Sound(job.new.file) /\ SoundReceipt(job.new.receipt)
      /\ Pair(job.new.file, job.new.receipt) = job.new /\ receipt = job.old.receipt
      /\ job.op \in {"install", "uninstall", "native"} \cup Updates \cup {"undo"}
  BY PairedPlan
<1>2. CASE file = job.new.file
  <2>1. Pair(file, job.new.receipt) = job.new
    BY <1>1, <1>2
  <2>2. job.op = "install" => Untouched(job.new)
    <3> SUFFICES ASSUME job.op = "install" PROVE Untouched(job.new)
      OBVIOUS
    <3>1. /\ job.new.receipt = InstallReceipt(job.old.file, job.new.file)
          /\ job.new.file.blocks /\ ~job.new.file.open
      BY <1>1 DEF OwnershipInv, OperationInv
    <3>2. job.new.receipt.baseline = job.new.file /\ job.new.receipt.pause = NoPause
      BY <3>1 DEF InstallReceipt
    <3>3. Closed(job.new.file) = job.new.file /\ job.new.file # NoFile
      BY <1>1, <3>1, ClosedFields, NoFileFields DEF Sound
    <3>4. Pristine(job.new.file, job.new.receipt) /\ ~Paused(job.new.receipt)
      BY <3>2, <3>3 DEF Pristine, Paused
    <3> QED BY <3>4 DEF Untouched, AtPause
  <2>3. ~torn /\ touched \ {"pair"} = {} => Untouched(job.new)
    BY <1>1 DEF OwnershipInv, CountInv, Change
  <2> QED BY <1>1, <2>1, <2>2, <2>3 DEF Change
<1>3. CASE file # job.new.file
  <2>1. job.op \in {"install", "reactivate", "uninstall", "native"} /\ (torn \/ touched # {})
    BY <1>1, <1>3 DEF OwnershipInv, PairedInv, Paired, Updates
  <2>2. CASE job.op \in {"install", "reactivate"}
    <3>1. Active(job.new.receipt) /\ Fits(file, job.new.receipt)
      <4>1. \A f, g : InstallReceipt(f, g).installed = TRUE /\ InstallReceipt(f, g).pause = NoPause
        BY DEF InstallReceipt
      <4>2. NoReceipt.installed = FALSE
        BY DEF NoReceipt
      <4>3. \A f, g : Active(InstallReceipt(f, g))
        BY <4>1, <4>2 DEF Active, Installed
      <4> QED BY <1>1, <2>2, <4>3 DEF OwnershipInv, OperationInv, PairedInv
    <3> QED BY <1>3, <2>1, <3>1, Receipts DEF Matched, AtPause, Pair
  <2>3. CASE job.op \in {"uninstall", "native"}
    <3>1. job.new.receipt = NoReceipt /\ ~file.blocks
      BY <1>1, <2>3 DEF OwnershipInv, OperationInv, PairedInv
    <3> QED BY <1>3, <2>1, <3>1, Receipts DEF Matched, AtPause, Pair
  <2> QED BY <2>1, <2>2, <2>3
<1> QED BY <1>2, <1>3

LEMMA TwoInARow ==
  ASSUME NEW x, NEW y
  PROVE  <<x>> \o <<y>> = <<x, y>>
<1> DEFINE s == <<x>> \o <<y>>
<1>1. <<x>> \in Seq({x, y}) /\ <<y>> \in Seq({x, y}) /\ Len(<<x>>) = 1 /\ Len(<<y>>) = 1
  OBVIOUS
<1>2. s \in Seq({x, y}) /\ Len(s) = 2
  BY <1>1
<1>3. s[1] = x
  BY <1>1
<1>4. s[2] = y
  BY <1>1
<1> HIDE DEF s
<1>5. s = <<x, y>>
  BY <1>2, <1>3, <1>4
<1> QED BY <1>5 DEF s

(* The rollbacks of the caller, with the new one on top of them.           *)
LEMMA PushedUndo ==
  ASSUME OwnershipInv, job.pc = "paired", job.op \in Held
  PROVE  /\ Push(job) = <<job>> \/ (job.op = "migrate" /\ Push(job) = <<job, undo[1]>>
                                    /\ undo = <<undo[1]>> /\ undo[1].op = "enable")
         /\ job.op # "migrate" => Push(job) = <<job>> /\ undo = <<>>
         /\ Push(job) = <<job>> => undo = <<>>
<1>1. job.op # "undo" /\ Busy
  BY DEF Held, Busy
<1>2. job.op # "migrate" => undo = <<>>
  BY <1>1 DEF OwnershipInv, OperationInv
<1>3. job.op = "migrate" => undo = <<>> \/ (undo = <<undo[1]>> /\ undo[1].op = "enable")
  BY <1>1 DEF OwnershipInv, UndoInv
<1>4. undo = <<>> => Push(job) = <<job>>
  BY DEF Push
<1>5. undo = <<undo[1]>> => Push(job) = <<job, undo[1]>> /\ Push(job) # <<job>>
  <2> SUFFICES ASSUME NEW u, undo = <<u>>, u = undo[1]
               PROVE  Push(job) = <<job, u>> /\ Push(job) # <<job>>
    OBVIOUS
  <2>1. Push(job) = <<job>> \o <<u>>
    BY DEF Push
  <2>2. Push(job) = <<job, u>>
    BY <2>1, TwoInARow
  <2>3. Len(Push(job)) = 2 /\ Len(<<job>>) = 1
    BY <2>2
  <2> QED BY <2>2, <2>3
<1> QED BY <1>2, <1>3, <1>4, <1>5

LEMMA SecondCommitHolds ==
  ASSUME OwnershipInv, job.pc = "paired", job.op \in Paired => file = job.new.file,
         receipt' = job.new.receipt,
         sync' = IF Installed(receipt') THEN sync ELSE NotAsked,
         job' = After(job.op),
         undo' = IF job.op \in Held THEN Push(job) ELSE undo,
         touched' = IF file # job.new.file THEN touched
                    ELSE IF job.op = "install" THEN {} ELSE touched \ {"pair"},
         Watched, UNCHANGED <<file, torn, backup, confirmed, edits>>
  PROVE  OwnershipInv'
<1>1. /\ Busy /\ Change(job) /\ SameUser(job.old, job.new)
      /\ Sound(job.new.file) /\ SoundReceipt(job.new.receipt)
      /\ Pair(job.new.file, job.new.receipt) = job.new /\ receipt = job.old.receipt
      /\ job.op \in {"install", "uninstall", "native"} \cup Updates \cup {"undo"}
      /\ Pair(job.old.file, job.old.receipt) = job.old
  BY PairedPlan
<1>2. CountInv' /\ (touched' = {} =>
         touched = {} \/ (file = job.new.file /\ (job.op = "install" \/ touched \ {"pair"} = {})))
  BY DEF OwnershipInv, CountInv
<1>3. job'.pc # "paired" /\ job'.pc # "ready" /\ ~Busy'
  BY JobOver DEF Busy
<1>4. OperationInv' /\ PairedInv'
  BY <1>3 DEF OperationInv, PairedInv
<1>5. DiskInv'
  <2>1. "pair" \notin touched' => file = job.new.file \/ "pair" \notin touched
    OBVIOUS
  <2> QED BY <1>1, <1>2, <1>3, <2>1, CommittedPair DEF OwnershipInv, DiskInv
<1>6. SyncInv'
  <2>1. touched' = {} /\ ~torn => sync = NotAsked
    <3> SUFFICES ASSUME touched' = {}, ~torn, touched # {} PROVE sync = NotAsked
      BY DEF OwnershipInv, SyncInv
    <3>1. CASE job.op = "install"
      <4>1. ~Installed(receipt)
        BY <1>1, <3>1 DEF OwnershipInv, OperationInv
      <4> QED BY <4>1 DEF OwnershipInv, SyncInv
    <3>2. CASE job.op # "install"
      <4>1. touched = {"pair"}
        BY <3>2
      <4> QED BY <4>1 DEF OwnershipInv, CountInv
    <3> QED BY <3>1, <3>2
  <2> QED BY <2>1 DEF OwnershipInv, SyncInv, NotAsked
<1>7. JobInv'
  <2>1. job.op \notin Held /\ job.op # "undo" => undo' = <<>>
    BY <1>1 DEF OwnershipInv, OperationInv, Held
  <2> QED BY <1>3, <2>1, JobOver DEF JobInv, Idle
<1>8. UndoInv'
  <2>1. touched' = {} => touched = {} \/ job.op = "install"
    BY <1>2 DEF OwnershipInv, CountInv
  <2>2. ASSUME NEW u, u = job, job.op \in Held PROVE Rollback(u)'
    <3>1. touched' = {} /\ ~torn => Untouched(job.new) /\ Untouched(job.old)
      <4>1. job.op = "install" => ~Installed(job.old.receipt)
        BY <1>1 DEF OwnershipInv, OperationInv
      <4> QED BY <1>1, <1>2, <2>1, <4>1, CommittedPair DEF Change, Untouched
    <3>2. Change(u)'
      BY <1>1, <2>2, <3>1 DEF Change
    <3>3. SameUser(u.old, u.new)'
      BY <1>1, <2>2 DEF SameUser
    <3>4. /\ job.op = "install" => ~Installed(job.old.receipt)
          /\ job.op # "install" => SameOwner(job.old.receipt, job.new.receipt)
      BY <1>1, <2>2 DEF OwnershipInv, OperationInv, Held, Updates
    <3> QED BY <2>2, <3>2, <3>3, <3>4 DEF Rollback
  <2>3. ASSUME NEW u, Rollback(u), job.op # "install" PROVE Rollback(u)'
    <3>1. Change(u)'
      BY <2>1, <2>3, ChangeKept DEF Rollback
    <3> QED BY <2>3, <3>1, SameUserKept DEF Rollback
  <2>4. CASE job.op \notin Held
    <3>1. undo' = undo /\ job'.pc # "held"
      BY <2>4, JobOver
    <3>2. \A i \in DOMAIN undo : Rollback(undo[i])'
      <4> SUFFICES ASSUME NEW i \in DOMAIN undo, NEW u, u = undo[i] PROVE Rollback(u)'
        BY <3>1
      <4> QED BY <2>3, <2>4 DEF OwnershipInv, UndoInv, Held
    <3> QED BY <1>3, <3>1, <3>2 DEF OwnershipInv, UndoInv
  <2>5. CASE job.op \in Held /\ undo' = <<job>>
    <3>1. DOMAIN undo' = {1} /\ undo'[1] = job /\ Len(undo') = 1
      BY <2>5
    <3>2. job' = [pc |-> "held", op |-> job.op]
      BY <2>5, JobOver
    <3>3. \A i \in DOMAIN undo' : Rollback(undo[i])'
      BY <2>2, <2>5, <3>1
    <3> QED BY SMTT(30), <1>3, <2>5, <3>1, <3>2, <3>3 DEF UndoInv
  <2>6. CASE /\ job.op = "migrate" /\ undo' = <<job, undo[1]>>
             /\ undo = <<undo[1]>> /\ undo[1].op = "enable"
    <3>1. DOMAIN undo' = {1, 2} /\ undo'[1] = job /\ undo'[2] = undo[1] /\ Len(undo') = 2
      BY <2>6
    <3>2. job' = [pc |-> "held", op |-> job.op] /\ job.op \in Held
      BY <2>6, JobOver DEF Held
    <3>3. Rollback(undo[1])
      BY <2>6 DEF OwnershipInv, UndoInv
    <3>4. \A u : u = undo[1] => Rollback(u)'
      BY <2>3, <2>6, <3>3
    <3>5. \A i \in DOMAIN undo' : Rollback(undo[i])'
      BY <2>2, <2>6, <3>1, <3>2, <3>4
    <3> QED BY <1>3, <2>6, <3>1, <3>2, <3>5 DEF UndoInv
  <2> QED BY <2>4, <2>5, <2>6, PushedUndo
<1>9. StartInv'
  <2> SUFFICES ASSUME Alone' PROVE StartInv'
    BY DEF StartInv
  <2>1. start' = start /\ job' # Idle /\ Alone
    <3>1. start' # NoPair
      BY DEF Alone
    <3> QED BY <3>1 DEF Watched, Alone
  <2>2. file = job.new.file /\ Pair(file', receipt') = job.new
    BY <1>1, <2>1 DEF OwnershipInv, StartInv
  <2>3. CASE job.op = "undo"
    <3>1. undo' = undo /\ job' = [pc |-> "unwind"] /\ job'.pc = "unwind"
      BY <2>3, JobOver
    <3>2. Chain(job.new)
      BY <1>1, <2>1, <2>3 DEF OwnershipInv, StartInv
    <3>3. Chain(Pair(file, receipt))'
      BY <2>1, <2>2, <3>1, <3>2 DEF Chain
    <3> QED BY <1>3, <2>1, <3>1, <3>3 DEF OwnershipInv, StartInv
  <2>4. ASSUME job.op \in Held PROVE StartInv'
    <3>1. job'.pc = "held" /\ Chain(job.old)
      BY <1>1, <2>1, <2>4, JobOver DEF OwnershipInv, StartInv, Held
    <3>2. job.op = "reactivate" => backup = job.new.receipt.source
      BY <1>1, <2>1 DEF OwnershipInv, StartInv, OperationInv, Updates, SameOwner
    <3>3. CASE undo' = <<job>>
      <4>1. undo = <<>> /\ DOMAIN undo' = {1} /\ undo'[1] = job /\ Len(undo') = 1
        BY <2>4, <3>3, PushedUndo
      <4>2. job.old = start
        BY <3>1, <4>1 DEF Chain
      <4>3. Chain(Pair(file, receipt))'
        BY <2>1, <2>2, <4>1, <4>2 DEF Chain
      <4>4. \A i \in DOMAIN undo' : undo'[i].op = "reactivate" => backup' = undo'[i].new.receipt.source
        BY <3>2, <4>1
      <4> QED BY <1>3, <3>1, <4>3, <4>4 DEF StartInv
    <3>4. CASE /\ job.op = "migrate" /\ undo' = <<job, undo[1]>>
               /\ undo = <<undo[1]>> /\ undo[1].op = "enable"
      <4>1. /\ Len(undo) = 1 /\ DOMAIN undo' = {1, 2} /\ undo'[1] = job /\ undo'[2] = undo[1]
            /\ Len(undo') = 2
        BY <3>4
      <4>2. job.old = undo[1].new /\ undo[1].old = start
        BY <3>1, <3>4, <4>1 DEF Chain
      <4>3. Chain(Pair(file, receipt))'
        BY <2>1, <2>2, <4>1, <4>2 DEF Chain
      <4>4. \A i \in DOMAIN undo' : undo'[i].op = "reactivate" => backup' = undo'[i].new.receipt.source
        BY <3>4, <4>1
      <4> QED BY <1>3, <3>1, <4>3, <4>4 DEF StartInv
    <3> QED BY <2>4, <3>3, <3>4, PushedUndo
  <2> QED BY <2>1, <2>3, <2>4, JobOver
<1> QED BY <1>2, <1>4, <1>5, <1>6, <1>7, <1>8, <1>9 DEF OwnershipInv

LEMMA FailedCommitHolds ==
  ASSUME OwnershipInv, job.pc = "paired",
         IF file = job.new.file THEN file' = RollbackFile /\ UNCHANGED torn
         ELSE torn' = TRUE /\ UNCHANGED file,
         job' = Refused(job.op), Watched,
         UNCHANGED <<receipt, undo, touched, sync, backup, confirmed, edits>>
  PROVE  OwnershipInv'
<1>1. /\ Busy /\ Change(job)
      /\ Sound(job.old.file) /\ SoundReceipt(job.old.receipt)
      /\ Pair(job.old.file, job.old.receipt) = job.old /\ receipt = job.old.receipt
  BY PairedPlan
<1>2. (torn' = torn \/ torn') /\ (~torn' => ~torn)
  OBVIOUS
<1>3. CountInv' /\ SyncInv'
  BY <1>2 DEF OwnershipInv, CountInv, SyncInv
<1>4. job'.pc \in {"idle", "unwind"} /\ ~Busy' /\ (job'.pc = "idle" => job' = Idle /\ undo = <<>>)
  BY JobOver DEF Busy, Idle
<1>5. JobInv' /\ OperationInv' /\ PairedInv'
  BY <1>4 DEF JobInv, OperationInv, PairedInv
<1>6. UndoInv'
  <2>1. \A i \in DOMAIN undo : Change(undo[i])'
    BY <1>2, ChangeKept DEF OwnershipInv, UndoInv, Rollback
  <2>2. \A i \in DOMAIN undo : undo[i].op # "install" => SameUser(undo[i].old, undo[i].new)'
    BY SameUserKept DEF OwnershipInv, UndoInv, Rollback
  <2> QED BY <1>4, <2>1, <2>2 DEF OwnershipInv, UndoInv, Rollback
<1>7. DiskInv'
  <2>1. CASE file = job.new.file /\ job.op = "install"
    <3>1. ~Installed(receipt) /\ ~job.old.file.blocks
      BY <1>1, <2>1 DEF OwnershipInv, OperationInv
    <3>2. job.old.file.other \in SUBSET Settings /\ job.old.file \in File
      BY <1>1, FileTypes DEF Sound
    <3>3. file' = [job.old.file EXCEPT !.exists = TRUE, !.other = job.old.file.other,
                                       !.hist = job.old.file.hist]
      BY <2>1, <3>2 DEF RollbackFile, File
    <3>4. Sound(file') /\ ~file'.blocks
      BY ZenonT(60), <1>1, <3>1, <3>2, <3>3, SettingEdited
    <3> QED BY <3>1, <3>4, <1>1, Receipts DEF OwnershipInv, DiskInv, Matched, AtPause, Untouched, Pair
  <2>2. CASE file = job.new.file /\ job.op # "install"
    <3>1. file' = job.old.file /\ Pair(file', receipt') = job.old
      BY <1>1, <2>2 DEF RollbackFile
    <3> QED BY <1>1, <1>2, <3>1 DEF OwnershipInv, DiskInv, Change
  <2>3. CASE file # job.new.file
    BY <2>3 DEF OwnershipInv, DiskInv
  <2> QED BY <2>1, <2>2, <2>3
<1>8. StartInv'
  <2> SUFFICES ASSUME Alone' PROVE StartInv'
    BY DEF StartInv
  <2>1. start' = start /\ job' # Idle /\ Alone /\ job.op # "undo"
    <3>1. start' # NoPair
      BY DEF Alone
    <3> QED BY <3>1 DEF Watched, Alone
  <2>2. job'.pc = "unwind" /\ undo # <<>>
    BY <2>1 DEF Refused
  <2>3. file = job.new.file /\ Chain(job.old)
    BY <1>1, <2>1 DEF OwnershipInv, StartInv
  <2>4. job.op # "install"
    BY <1>1, <2>2 DEF OwnershipInv, OperationInv
  <2>5. Pair(file', receipt') = job.old
    BY <1>1, <2>3, <2>4 DEF RollbackFile
  <2>6. Chain(Pair(file, receipt))'
    BY <2>1, <2>3, <2>5 DEF Chain
  <2> QED BY <1>4, <2>1, <2>2, <2>6 DEF OwnershipInv, StartInv
<1> QED BY <1>3, <1>5, <1>6, <1>7, <1>8 DEF OwnershipInv

LEMMA CommitReceiptHolds ==
  ASSUME OwnershipInv, CommitReceipt
  PROVE  OwnershipInv'
<1>1. job.pc = "paired" /\ Watched /\ UNCHANGED <<backup, confirmed, edits>>
  BY DEF CommitReceipt
<1>2. PICK fails \in BOOLEAN :
        IF ~fails /\ (job.op \in Paired => file = job.new.file)
        THEN /\ receipt' = job.new.receipt
             /\ sync' = IF Installed(receipt') THEN sync ELSE NotAsked
             /\ job' = After(job.op)
             /\ undo' = IF job.op \in Held THEN Push(job) ELSE undo
             /\ touched' = IF file # job.new.file THEN touched
                           ELSE IF job.op = "install" THEN {} ELSE touched \ {"pair"}
             /\ UNCHANGED <<file, torn>>
        ELSE /\ IF file = job.new.file THEN file' = RollbackFile /\ UNCHANGED torn
                ELSE torn' = TRUE /\ UNCHANGED file
             /\ job' = Refused(job.op)
             /\ UNCHANGED <<receipt, undo, touched, sync>>
  BY DEF CommitReceipt
<1>3. CASE ~fails /\ (job.op \in Paired => file = job.new.file)
  BY <1>1, <1>2, <1>3, SecondCommitHolds
<1>4. CASE ~(~fails /\ (job.op \in Paired => file = job.new.file))
  BY <1>1, <1>2, <1>4, FailedCommitHolds
<1> QED BY <1>3, <1>4

-----------------------------------------------------------------------------
(* The rollback.                                                           *)

LEMMA TailUndo ==
  ASSUME UndoInv, undo # <<>>
  PROVE  \/ undo = <<undo[1]>> /\ Tail(undo) = <<>> /\ Len(undo) = 1
         \/ undo = <<undo[1], undo[2]>> /\ Tail(undo) = <<undo[2]>> /\ Len(undo) = 2
<1>1. undo = <<undo[1]>> \/ undo = <<undo[1], undo[2]>>
  BY DEF UndoInv
<1>2. \A u : undo = <<u>> => Tail(undo) = <<>> /\ Len(undo) = 1
  OBVIOUS
<1>3. \A u, v : undo = <<u, v>> => Tail(undo) = <<v>> /\ Len(undo) = 2
  OBVIOUS
<1> QED BY <1>1, <1>2, <1>3

LEMMA RollbackTail ==
  ASSUME OwnershipInv, undo # <<>>, undo' = Tail(undo), UNCHANGED <<torn, touched, backup>>,
         job'.pc # "held", job'.pc \in {"ready", "paired"} => job'.op # "migrate"
  PROVE  UndoInv'
<1>1. ASSUME NEW u, Rollback(u) PROVE Rollback(u)'
  <2>1. Change(u)'
    BY <1>1, ChangeKept DEF Rollback
  <2> QED BY <1>1, <2>1, SameUserKept DEF Rollback
<1>2. CASE undo = <<undo[1]>> /\ Tail(undo) = <<>>
  BY <1>2 DEF UndoInv, Busy
<1>3. CASE undo = <<undo[1], undo[2]>> /\ Tail(undo) = <<undo[2]>>
  <2>1. DOMAIN undo' = {1} /\ undo'[1] = undo[2] /\ Len(undo') = 1
    BY <1>3
  <2>2. 2 \in DOMAIN undo
    BY <1>3
  <2>3. \A u : u = undo[2] => Rollback(u)'
    BY <1>1, <2>2 DEF OwnershipInv, UndoInv
  <2>4. \A i \in DOMAIN undo' : Rollback(undo[i])'
    BY <2>1, <2>3
  <2> QED BY <1>3, <2>1, <2>4 DEF UndoInv, Busy
<1> QED BY <1>2, <1>3, TailUndo DEF OwnershipInv

(* What an uninstall plans for the pair on disk.                           *)
LEMMA UninstallPlanned ==
  ASSUME NEW f, NEW s, NEW preserve \in BOOLEAN, NEW force \in BOOLEAN, Sound(f), SoundReceipt(s),
         CanUninstall(f, s, backup, force), ~torn => Matched(Pair(f, s)),
         NEW u, u = UninstallFile(f, s, backup, preserve)
  PROVE  /\ Sounds(Pair(u, NoReceipt)) /\ AtPause(Pair(u, NoReceipt)) /\ AtPause(Pair(f, s))
         /\ Matched(Pair(u, NoReceipt)) /\ Untouched(Pair(u, NoReceipt))
         /\ SameUser(Pair(f, s), Pair(u, NoReceipt)) /\ Installed(s)
         /\ s.prior \subseteq u.keys /\ ~u.blocks /\ (Foreign(f) => Foreign(u))
         /\ Untouched(Pair(f, s)) => InstallSource(u) = s.source
<1>1. /\ Removed(f, s, u) /\ Installed(s) /\ AtPause(Pair(f, s))
      /\ (Foreign(f) => Foreign(u)) /\ (Pristine(f, s) => InstallSource(u) = s.source)
  BY UninstallPlan
<1>2. /\ Pair(u, NoReceipt).file = u /\ Pair(u, NoReceipt).receipt = NoReceipt
      /\ Pair(f, s).file = f /\ Pair(f, s).receipt = s
  BY DEF Pair
<1>3. Sounds(Pair(u, NoReceipt))
  BY <1>1, <1>2, Receipts DEF Sounds, Removed, SoundReceipt
<1>4. AtPause(Pair(u, NoReceipt)) /\ Matched(Pair(u, NoReceipt)) /\ Untouched(Pair(u, NoReceipt))
  BY <1>1, <1>2, Receipts DEF AtPause, Matched, Untouched, Removed
<1>5. SameUser(Pair(f, s), Pair(u, NoReceipt))
  <2>1. KeysOf(f, s, backup) = f.keys \cup s.prior /\ KeysOf(u, s, backup) = u.keys \cup s.prior
    BY <1>1, OwnedKeys
  <2>2. f.keys \cup s.prior = u.keys \cup s.prior
    BY <1>1 DEF Removed
  <2> QED BY <1>1, <1>2, <2>1, <2>2 DEF SameUser, Removed
<1>6. Untouched(Pair(f, s)) => InstallSource(u) = s.source
  BY <1>1, <1>2 DEF Untouched
<1> QED BY <1>1, <1>3, <1>4, <1>5, <1>6 DEF Removed

LEMMA ReversedRollback ==
  ASSUME NEW u, Rollback(u), u.op # "install"
  PROVE  /\ Change(Job("undo", u.new, u.old, u.op = "reactivate"))
         /\ SameUser(u.new, u.old) /\ SameOwner(u.new.receipt, u.old.receipt)
<1>1. SameOwner(u.old.receipt, u.new.receipt) /\ SameUser(u.old, u.new) /\ Change(u)
  BY DEF Rollback
<1>2. SameOwner(u.new.receipt, u.old.receipt)
  BY <1>1 DEF SameOwner
<1>3. SameUser(u.new, u.old)
  <2>1. /\ Installed(u.old.receipt) /\ Installed(u.new.receipt)
        /\ u.old.receipt.prior = u.new.receipt.prior
    BY <1>1 DEF SameOwner
  <2> QED BY <1>1, <2>1, OwnedKeys DEF SameUser
<1>4. Change(Job("undo", u.new, u.old, u.op = "reactivate"))
  BY <1>1 DEF Change, Job, Ops
<1> QED BY <1>2, <1>3, <1>4

LEMMA UnwindHolds ==
  ASSUME OwnershipInv, Unwind
  PROVE  OwnershipInv'
<1>1. /\ job.pc = "unwind" /\ ~Busy
      /\ UNCHANGED <<file, receipt, backup, sync, confirmed, edits, touched, torn>>
  BY DEF Unwind, Busy
<1>2. CountInv' /\ SyncInv'
  BY <1>1 DEF OwnershipInv, CountInv, SyncInv
<1>3. CASE undo = <<>>
  <2>1. job' = Idle /\ undo' = <<>> /\ start' = NoPair /\ torn' = (torn \/ job.pc = "paired")
    BY <1>1, <1>3 DEF Unwind, OwnershipInv, CountInv
  <2> QED BY <1>1, <2>1, DroppedHolds
<1>4. CASE undo # <<>>
  <2> DEFINE u == undo[1]
  <2>1. undo' = Tail(undo) /\ start' = start /\ Head(undo) = u
    BY <1>4 DEF Unwind
  <2>2. /\ Rollback(u)
        /\ \/ undo = <<u>> /\ undo' = <<>> /\ Len(undo) = 1
           \/ undo = <<u, undo[2]>> /\ undo' = <<undo[2]>> /\ Len(undo) = 2 /\ u.op # "install"
    <3>1. UndoInv /\ 1 \in DOMAIN undo
      BY <1>4, TailUndo DEF OwnershipInv
    <3> QED BY <1>4, <2>1, <3>1, TailUndo DEF UndoInv
  <2>3. CASE u.op = "install"
    <3>1. undo' = <<>> /\ ~Installed(u.old.receipt) /\ Len(undo) = 1
      BY <2>2, <2>3 DEF Rollback
    <3>2. StartInv'
      <4> SUFFICES ASSUME Alone' PROVE FALSE
        BY DEF StartInv
      <4>1. Alone /\ Chain(Pair(file, receipt))
        BY <1>1, <2>1 DEF Alone, OwnershipInv, StartInv
      <4>2. u.old = start
        BY <1>4, <3>1, <4>1 DEF Chain
      <4> QED BY <3>1, <4>1, <4>2 DEF Alone
    <3>3. CASE CanUninstall(file, receipt, backup, FALSE)
      <4> DEFINE r == UninstallFile(file, receipt, backup, FALSE)
                 old == Pair(file, receipt)
                 new == Pair(r, NoReceipt)
      <4>1. job' = Job("uninstall", old, new, FALSE)
        BY <1>4, <2>1, <2>3, <3>3 DEF Unwind
      <4>2. Sound(file) /\ SoundReceipt(receipt) /\ (~torn => Matched(old))
            /\ (~torn /\ touched = {} => Untouched(old))
        BY <1>1 DEF OwnershipInv, DiskInv
      <4>3. /\ Sounds(new) /\ AtPause(new) /\ AtPause(old) /\ Matched(new) /\ Untouched(new)
            /\ SameUser(old, new) /\ Installed(receipt) /\ receipt.prior \subseteq r.keys
            /\ ~r.blocks /\ (Foreign(file) => Foreign(r))
            /\ (Untouched(old) => InstallSource(r) = receipt.source)
        <5> HIDE DEF r
        <5>1. r = UninstallFile(file, receipt, backup, FALSE)
          BY DEF r
        <5> QED BY <3>3, <4>2, <5>1, UninstallPlanned
      <4>4. Sounds(old) /\ old.file = file /\ old.receipt = receipt
            /\ new.file = r /\ new.receipt = NoReceipt
        BY <4>2 DEF Sounds, Pair
      <4> HIDE DEF r, old, new
      <4>5. /\ job'.pc = "ready" /\ job'.op = "uninstall" /\ job'.old = old /\ job'.new = new
            /\ job'.verify = FALSE /\ Busy'
        BY <4>1 DEF Job, Busy
      <4>6. Change(job)'
        BY <1>1, <4>2, <4>3, <4>4, <4>5 DEF Change, Ops
      <4>7. SameUser(job.old, job.new)'
        BY <1>1, <4>3, <4>5 DEF SameUser
      <4>8. JobInv'
        BY <1>1, <4>4, <4>5, <4>6, <4>7 DEF JobInv
      <4>9. OperationInv'
        BY <1>1, <3>1, <4>2, <4>3, <4>4, <4>5 DEF OperationInv, Updates, FileOnly
      <4>10. PairedInv' /\ UndoInv'
        BY <1>1, <1>4, <2>1, <3>1, <4>5, RollbackTail DEF PairedInv
      <4>11. DiskInv'
        BY <1>1, <4>5 DEF OwnershipInv, DiskInv
      <4> QED BY <1>2, <3>2, <4>8, <4>9, <4>10, <4>11 DEF OwnershipInv
    <3>4. CASE ~CanUninstall(file, receipt, backup, FALSE)
      <4>1. job' = job
        BY <1>4, <2>1, <2>3, <3>4 DEF Unwind
      <4>2. JobInv' /\ OperationInv' /\ PairedInv'
        BY <1>1, <4>1 DEF JobInv, OperationInv, PairedInv, Busy
      <4>3. UndoInv'
        BY <1>1, <1>4, <2>1, <4>1, RollbackTail
      <4>4. DiskInv'
        BY <1>1, <4>1 DEF OwnershipInv, DiskInv
      <4> QED BY <1>2, <3>2, <4>2, <4>3, <4>4 DEF OwnershipInv
    <3> QED BY <3>3, <3>4
  <2>4. CASE u.op # "install"
    <3>1. job' = Job("undo", u.new, u.old, u.op = "reactivate")
      BY <1>4, <2>1, <2>4 DEF Unwind
    <3>2. /\ job'.pc = "ready" /\ job'.op = "undo" /\ job'.old = u.new /\ job'.new = u.old
          /\ job'.verify = (u.op = "reactivate") /\ Busy'
      BY <3>1 DEF Job, Busy
    <3>3. \A j : j = job' => Change(j) /\ SameUser(j.old, j.new) /\ SameOwner(j.old.receipt, j.new.receipt)
      BY <2>2, <2>4, <3>1, <3>2, ReversedRollback
    <3>4. JobInv'
      <4>1. Change(job)' /\ SameUser(job.old, job.new)'
        BY <1>1, <3>3 DEF Change, SameUser
      <4> QED BY <3>2, <4>1 DEF JobInv
    <3>5. OperationInv'
      BY <3>2, <3>3 DEF OperationInv, FileOnly
    <3>6. PairedInv' /\ UndoInv'
      BY <1>1, <1>4, <2>1, <3>2, RollbackTail DEF PairedInv
    <3>7. DiskInv'
      BY <1>1, <3>2 DEF OwnershipInv, DiskInv
    <3>8. StartInv'
      <4> SUFFICES ASSUME Alone' PROVE StartInv'
        BY DEF StartInv
      <4>1. Alone /\ Chain(Pair(file, receipt))
        BY <1>1, <2>1 DEF Alone, OwnershipInv, StartInv
      <4>2. Pair(file, receipt) = u.new
        BY <1>4, <4>1 DEF Chain
      <4>3. Chain(job.new)'
        BY <1>4, <2>1, <2>2, <3>2, <4>1 DEF Chain
      <4>4. u.op = "reactivate" => backup = u.new.receipt.source
        <5>1. 1 \in DOMAIN undo
          BY <2>2
        <5> QED BY <4>1, <5>1 DEF OwnershipInv, StartInv
      <4>5. \A i \in DOMAIN undo' : undo'[i].op = "reactivate" => backup' = undo'[i].new.receipt.source
        <5>1. CASE undo' = <<>>
          BY <5>1
        <5>2. CASE undo = <<u, undo[2]>> /\ undo' = <<undo[2]>>
          <6>1. DOMAIN undo' = {1} /\ undo'[1] = undo[2] /\ 2 \in DOMAIN undo
            BY <5>2
          <6> QED BY <1>1, <4>1, <6>1 DEF OwnershipInv, StartInv
        <5> QED BY <2>2, <5>1, <5>2
      <4> QED BY <1>1, <3>2, <4>2, <4>3, <4>4, <4>5 DEF StartInv
    <3> QED BY <1>2, <3>4, <3>5, <3>6, <3>7, <3>8 DEF OwnershipInv
  <2> QED BY <2>3, <2>4
<1> QED BY <1>3, <1>4

LEMMA CommandHolds ==
  ASSUME OwnershipInv, Command
  PROVE  OwnershipInv'
  BY CommitFileHolds, CommitReceiptHolds, CompleteHolds, FailHeldHolds, UnwindHolds DEF Command

-----------------------------------------------------------------------------
(* The commands' plans.                                                    *)

(* The pair a plan makes of the pair on disk, op by op, but for what only  *)
(* OperationInv says.                                                      *)
Planned(op, f, s, verify) ==
    /\ op \in Ops \ {"undo"} /\ verify \in BOOLEAN
    /\ Sound(f) /\ SoundReceipt(s) /\ AtPause(Pair(f, s)) /\ AtPause(Pair(file, receipt))
    /\ ~torn => Matched(Pair(f, s))
    /\ ~torn /\ touched = {} => Untouched(Pair(f, s))
    /\ OtherOf(file) = OtherOf(f)
    /\ KeysOf(file, receipt, backup') = KeysOf(f, receipt, backup')
    /\ op # "install" => UNCHANGED backup
    /\ op = "install" => job = Idle /\ backup' # Lost /\ Sound(backup')
    /\ op = "reactivate" => backup = receipt.source

LEMMA PlanHolds ==
  ASSUME OwnershipInv, NEW op, NEW f, NEW s, NEW verify, Plan(op, f, s, verify),
         job = Idle \/ (op = "migrate" /\ job.pc = "held" /\ job.op = "enable"),
         Planned(op, f, s, verify)
  PROVE  /\ OperationInv' => OwnershipInv'
         /\ job'.pc = "ready" /\ job'.op = op /\ job'.old = Pair(file, receipt)
         /\ job'.new = Pair(f, s) /\ job'.verify = verify /\ Busy' /\ ~Busy
         /\ job'.old.file = file /\ job'.old.receipt = receipt
         /\ job'.new.file = f /\ job'.new.receipt = s
         /\ UNCHANGED <<file, receipt, undo, confirmed, edits, touched, torn>>
         /\ (op # "migrate" => undo = <<>>)
<1> DEFINE old == Pair(file, receipt)
           new == Pair(f, s)
<1>1. /\ job' = Job(op, old, new, verify)
      /\ UNCHANGED <<file, receipt, undo, confirmed, edits, touched, torn>>
      /\ start' = IF job.pc = "idle" THEN old ELSE start
      /\ sync' = IF op = "suspend" THEN NotAsked ELSE sync
  BY DEF Plan
<1>2. /\ job'.pc = "ready" /\ job'.op = op /\ job'.old = old /\ job'.new = new
      /\ job'.verify = verify /\ Busy'
  <2> HIDE DEF old, new
  <2> QED BY <1>1 DEF Job, Busy
<1>3. /\ job.pc \in {"idle", "held"} /\ ~Busy /\ (job = Idle => job.pc = "idle" /\ undo = <<>>)
      /\ (job.pc = "idle" => job = Idle)
  BY DEF Idle, Busy, OwnershipInv, JobInv
<1>4. old.file = file /\ old.receipt = receipt /\ new.file = f /\ new.receipt = s
  BY DEF Pair
<1>5. /\ Sound(file) /\ SoundReceipt(receipt) /\ (~torn => Matched(old))
      /\ (~torn /\ touched = {} => Untouched(old))
  BY <1>3 DEF OwnershipInv, DiskInv
<1>6. Sounds(old) /\ Sounds(new)
  BY <1>4, <1>5 DEF Sounds, Planned
<1>7. /\ op \in Ops /\ op # "undo" /\ verify \in BOOLEAN /\ AtPause(old) /\ AtPause(new)
      /\ (~torn => Matched(new)) /\ (~torn /\ touched = {} => Untouched(new))
      /\ OtherOf(file) = OtherOf(f)
      /\ KeysOf(file, receipt, backup') = KeysOf(f, receipt, backup')
      /\ (op # "install" => UNCHANGED backup)
      /\ (op = "install" => job = Idle /\ backup' # Lost /\ Sound(backup'))
      /\ (op = "reactivate" => backup = receipt.source)
  BY DEF Planned
<1> HIDE DEF old, new
<1>8. JobInv'
  <2>1. Change(job)'
    BY <1>1, <1>2, <1>5, <1>6, <1>7 DEF Change
  <2>2. SameUser(job.old, job.new)'
    BY <1>2, <1>4, <1>7 DEF SameUser
  <2> QED BY <1>1, <1>2, <1>4, <2>1, <2>2 DEF JobInv
<1>9. PairedInv'
  BY <1>2 DEF PairedInv
<1>10. UndoInv'
  <2>1. CASE undo = <<>>
    <3>1. undo' = <<>> /\ DOMAIN undo' = {} /\ Len(undo') = 0
      BY <1>1, <2>1
    <3> QED BY <1>2, <3>1 DEF UndoInv
  <2>2. CASE op = "migrate" /\ job.pc = "held" /\ job.op = "enable"
    <3>1. /\ UNCHANGED <<torn, touched, backup, undo>>
      BY <1>1, <1>7, <2>2
    <3>2. ASSUME NEW u, Rollback(u) PROVE Rollback(u)'
      <4>1. Change(u)'
        BY <3>1, <3>2, ChangeKept DEF Rollback
      <4> QED BY <3>1, <3>2, <4>1, SameUserKept DEF Rollback
    <3>3. \A i \in DOMAIN undo : Rollback(undo[i])'
      <4> SUFFICES ASSUME NEW i \in DOMAIN undo, NEW u, u = undo[i] PROVE Rollback(u)'
        BY <3>1
      <4> QED BY <3>2 DEF OwnershipInv, UndoInv
    <3> QED BY <1>2, <2>2, <3>1, <3>3 DEF OwnershipInv, UndoInv
  <2> QED BY <1>3, <2>1, <2>2
<1>11. DiskInv'
  <2>1. backup' # Lost => Sound(backup')
    BY <1>7 DEF OwnershipInv, DiskInv
  <2> QED BY <1>1, <1>2, <1>3, <2>1 DEF OwnershipInv, DiskInv
<1>12. SyncInv'
  BY <1>1 DEF OwnershipInv, SyncInv, NotAsked
<1>13. CountInv'
  BY <1>1 DEF OwnershipInv, CountInv
<1>14. StartInv'
  <2>1. CASE job = Idle
    <3>1. start' = old /\ undo' = <<>> /\ DOMAIN undo' = {}
      BY <1>1, <1>3, <2>1
    <3>2. Chain(job.old)'
      BY <1>2, <3>1 DEF Chain
    <3>3. Pair(file, receipt)' = job'.old
      BY <1>1, <1>2 DEF old
    <3> QED BY <1>1, <1>2, <1>4, <1>7, <3>1, <3>2, <3>3 DEF StartInv
  <2>2. CASE op = "migrate" /\ job.pc = "held" /\ job.op = "enable"
    <3>1. start' = start /\ backup' = backup
      BY <1>1, <1>7, <2>2
    <3> SUFFICES ASSUME Alone' PROVE StartInv'
      BY DEF StartInv
    <3>2. Alone /\ Chain(old)
      BY <2>2, <3>1 DEF OwnershipInv, StartInv, Alone, old
    <3>3. Chain(job.old)'
      BY <1>1, <1>2, <3>1, <3>2 DEF Chain
    <3>4. Pair(file, receipt)' = job'.old
      BY <1>1, <1>2 DEF old
    <3> QED BY <1>1, <1>2, <2>2, <3>1, <3>2, <3>3, <3>4 DEF OwnershipInv, StartInv
  <2> QED BY <2>1, <2>2
<1>15. op # "migrate" => undo = <<>>
  BY <1>3
<1> QED BY <1>1, <1>2, <1>3, <1>4, <1>8, <1>9, <1>10, <1>11, <1>12, <1>13, <1>14, <1>15
        DEF OwnershipInv, old, new

(* The pair on disk while no command is at its commits.                    *)
LEMMA DiskBetween ==
  ASSUME OwnershipInv, job = Idle \/ job.pc = "held"
  PROVE  /\ Sound(file) /\ SoundReceipt(receipt)
         /\ ~torn => Matched(Pair(file, receipt))
         /\ ~torn /\ touched = {} => Untouched(Pair(file, receipt))
  BY DEF OwnershipInv, DiskInv, Idle

LEMMA BeginInstallHolds ==
  ASSUME OwnershipInv, BeginInstall
  PROVE  OwnershipInv'
<1>1. PICK search \in BOOLEAN :
        /\ job = Idle /\ CanInstall(file, receipt, confirmed = Confirmation("switch"))
        /\ Plan("install", InstallFile(file, search),
                InstallReceipt(file, InstallFile(file, search)), FALSE)
        /\ backup' = InstallSource(file)
  BY DEF BeginInstall
<1> DEFINE g == InstallFile(file, search)
           t == InstallReceipt(file, g)
<1>2. Sound(file) /\ SoundReceipt(receipt)
  BY <1>1, DiskBetween
<1>3. /\ ~file.blocks /\ WithoutHist(file).hist = "none" /\ FreshOver(g, file.other)
      /\ OtherOf(g) = OtherOf(file) /\ ~Installed(receipt)
      /\ (Foreign(file) => confirmed = Confirmation("switch"))
  BY <1>1, <1>2, InstallPlan DEF CanInstall
<1>4. /\ Sound(g) /\ SoundReceipt(t) /\ Active(t) /\ t.prior = file.keys
      /\ Fits(g, t) /\ Pristine(g, t)
  <2> HIDE DEF g
  <2> QED BY <1>2, <1>3, InstalledFresh
<1>5. /\ Sound(backup') /\ backup' # Lost /\ backup'.keys = file.keys
  BY <1>1, <1>2, <1>3, SourceFields, LostIsNoFile DEF Sound
<1> HIDE DEF g
<1>6. /\ g.blocks /\ g.keys = {} /\ ~g.open
  BY <1>3 DEF FreshOver
<1>7. KeysOf(file, receipt, backup') = KeysOf(g, receipt, backup')
  BY <1>3, <1>5, <1>6 DEF KeysOf
<1>8. /\ AtPause(Pair(g, t)) /\ AtPause(Pair(file, receipt)) /\ Matched(Pair(g, t))
      /\ Untouched(Pair(g, t))
  BY <1>3, <1>4, Receipts DEF AtPause, Matched, Untouched, Pair
<1>9. Planned("install", g, t, FALSE)
  BY <1>1, <1>3, <1>4, <1>5, <1>7, <1>8 DEF Planned, Ops
<1>10. Plan("install", g, t, FALSE)
  BY <1>1 DEF g
<1>11. OperationInv'
  <2>1. /\ job'.op = "install" /\ job'.old.file = file /\ job'.old.receipt = receipt
        /\ job'.new.file = g /\ job'.new.receipt = t /\ undo = <<>>
        /\ UNCHANGED <<undo, confirmed>>
    BY <1>1, <1>9, <1>10, PlanHolds
  <2> QED BY <1>1, <1>3, <1>4, <1>6, <2>1 DEF OperationInv, Updates, FileOnly, Confirmation, t
<1> QED BY <1>1, <1>9, <1>10, <1>11, PlanHolds

LEMMA BeginReactivateHolds ==
  ASSUME OwnershipInv, BeginReactivate
  PROVE  OwnershipInv'
<1>1. PICK kind \in Kinds, search \in BOOLEAN :
        /\ job = Idle /\ CanReactivate(file, receipt, backup, kind)
        /\ Plan("reactivate", ReactivateFile(file, search),
                ReactivateReceipt(receipt, ReactivateFile(file, search)), TRUE)
        /\ UNCHANGED backup
  BY DEF BeginReactivate
<1> DEFINE g == ReactivateFile(file, search)
           t == ReactivateReceipt(receipt, g)
<1>2. /\ Sound(file) /\ SoundReceipt(receipt)
      /\ (~torn /\ touched = {} => Untouched(Pair(file, receipt)))
  BY <1>1, DiskBetween
<1>3. /\ FreshOver(g, file.other) /\ Sound(g) /\ SoundReceipt(t) /\ Active(t) /\ Fits(g, t)
      /\ SameOwner(receipt, t) /\ OtherOf(g) = OtherOf(file) /\ file.keys = {}
      /\ (Pristine(file, receipt) => Pristine(g, t))
  BY <1>1, <1>2, ReactivatePlan
<1>4. Paused(receipt) /\ file = receipt.pause.file /\ backup = receipt.source
  BY <1>1 DEF CanReactivate
<1> HIDE DEF g, t
<1>5. KeysOf(file, receipt, backup') = KeysOf(g, receipt, backup')
  <2>1. Installed(receipt) /\ g.keys = file.keys
    BY <1>3 DEF FreshOver, SameOwner
  <2> QED BY <2>1, OwnedKeys
<1>6. AtPause(Pair(g, t)) /\ AtPause(Pair(file, receipt)) /\ Matched(Pair(g, t))
  BY <1>3, <1>4, Receipts DEF AtPause, Matched, Pair
<1>7. ~torn /\ touched = {} => Untouched(Pair(g, t))
  BY <1>2, <1>3, <1>6 DEF Untouched, Pair, SameOwner
<1>8. Planned("reactivate", g, t, TRUE)
  BY <1>1, <1>3, <1>4, <1>5, <1>6, <1>7 DEF Planned, Ops
<1>9. Plan("reactivate", g, t, TRUE)
  BY <1>1 DEF g, t
<1>10. OperationInv'
  <2>1. /\ job'.op = "reactivate" /\ job'.old.file = file /\ job'.old.receipt = receipt
        /\ job'.new.file = g /\ job'.new.receipt = t /\ undo = <<>> /\ undo' = undo
    BY <1>1, <1>8, <1>9, PlanHolds
  <2> QED BY <1>3, <2>1 DEF OperationInv, Updates, FileOnly, Foreign
<1> QED BY <1>1, <1>8, <1>9, <1>10, PlanHolds

LEMMA BeginSuspendHolds ==
  ASSUME OwnershipInv, BeginSuspend
  PROVE  OwnershipInv'
<1>1. PICK kind \in Kinds :
        /\ job = Idle /\ CanSuspend(file, receipt, backup, kind)
        /\ Plan("suspend", SuspendFile(file, receipt, kind),
                SuspendReceipt(file, receipt, SuspendFile(file, receipt, kind), kind), TRUE)
        /\ UNCHANGED backup
  BY DEF BeginSuspend
<1> DEFINE g == SuspendFile(file, receipt, kind)
           t == SuspendReceipt(file, receipt, g, kind)
<1>2. /\ Sound(file) /\ SoundReceipt(receipt)
      /\ (~torn /\ touched = {} => Untouched(Pair(file, receipt)))
  BY <1>1, DiskBetween
<1>3. /\ Sound(g) /\ ~g.blocks /\ SoundReceipt(t) /\ Paused(t) /\ t.pause.file = g
      /\ SameOwner(receipt, t) /\ OtherOf(g) = OtherOf(file) /\ file.keys = {} /\ g.keys = {}
      /\ (Pristine(file, receipt) => Pristine(g, t))
  BY <1>1, <1>2, SuspendPlan
<1>4. Active(receipt)
  BY <1>1 DEF CanSuspend
<1> HIDE DEF g, t
<1>5. KeysOf(file, receipt, backup') = KeysOf(g, receipt, backup')
  BY ZenonT(60), <1>3, <1>4, OwnedKeys DEF SameOwner
<1>6. AtPause(Pair(g, t)) /\ AtPause(Pair(file, receipt)) /\ Matched(Pair(g, t))
  BY <1>3, <1>4, Receipts DEF AtPause, Matched, Pair
<1>7. ~torn /\ touched = {} => Untouched(Pair(g, t))
  BY <1>2, <1>3, <1>6 DEF Untouched, Pair, SameOwner
<1>8. Planned("suspend", g, t, TRUE)
  BY <1>1, <1>3, <1>5, <1>6, <1>7 DEF Planned, Ops
<1>9. Plan("suspend", g, t, TRUE)
  BY <1>1 DEF g, t
<1>10. OperationInv'
  <2>1. /\ job'.op = "suspend" /\ job'.old.file = file /\ job'.old.receipt = receipt
        /\ job'.new.file = g /\ job'.new.receipt = t /\ undo = <<>> /\ undo' = undo
    BY <1>1, <1>8, <1>9, PlanHolds
  <2> QED BY <1>3, <2>1 DEF OperationInv, Updates, FileOnly, Foreign
<1> QED BY <1>1, <1>8, <1>9, <1>10, PlanHolds

(* Both upgrades rewrite the blocks in place.                              *)
LEMMA UpgradeHolds ==
  ASSUME OwnershipInv, NEW op \in {"enable", "migrate"}, NEW g,
         job = Idle \/ (op = "migrate" /\ job.pc = "held" /\ job.op = "enable"),
         Rewritten(file, g), file.blocks, Active(receipt),
         Plan(op, g, UpgradeReceipt(file, receipt, g), FALSE), UNCHANGED backup
  PROVE  OwnershipInv'
<1> DEFINE t == UpgradeReceipt(file, receipt, g)
<1>1. /\ Sound(file) /\ SoundReceipt(receipt)
      /\ (~torn /\ touched = {} => Untouched(Pair(file, receipt)))
  BY DiskBetween
<1>2. /\ SoundReceipt(t) /\ Active(t) /\ Fits(g, t) /\ SameOwner(receipt, t)
      /\ (Pristine(file, receipt) => Pristine(g, t))
  BY <1>1, UpgradePlan
<1>3. Sound(g) /\ OtherOf(g) = OtherOf(file) /\ g.keys = file.keys
  BY <1>1, RewrittenKeeps DEF Rewritten
<1> HIDE DEF t
<1>4. KeysOf(file, receipt, backup') = KeysOf(g, receipt, backup')
  <2>1. Installed(receipt)
    BY <1>2 DEF SameOwner
  <2> QED BY <1>3, <2>1, OwnedKeys
<1>5. AtPause(Pair(g, t)) /\ AtPause(Pair(file, receipt)) /\ Matched(Pair(g, t))
  BY <1>2, Receipts DEF AtPause, Matched, Pair
<1>6. ~torn /\ touched = {} => Untouched(Pair(g, t))
  BY <1>1, <1>2, <1>5 DEF Untouched, Pair, SameOwner
<1>7. Planned(op, g, t, FALSE)
  BY <1>2, <1>3, <1>4, <1>5, <1>6 DEF Planned, Ops
<1>8. Plan(op, g, t, FALSE)
  BY DEF t
<1>9. OperationInv'
  <2>1. /\ job'.op = op /\ job'.old.file = file /\ job'.old.receipt = receipt
        /\ job'.new.file = g /\ job'.new.receipt = t /\ undo' = undo
        /\ (op # "migrate" => undo = <<>>)
    BY <1>7, <1>8, PlanHolds
  <2> QED BY <1>2, <1>3, <2>1 DEF OperationInv, Updates, FileOnly, Foreign
<1> QED BY <1>7, <1>8, <1>9, PlanHolds

LEMMA BeginEnableHolds ==
  ASSUME OwnershipInv, BeginEnable
  PROVE  OwnershipInv'
<1>1. /\ job = Idle /\ CanEnable(file, receipt) /\ UNCHANGED backup
      /\ Plan("enable", EnableFile(file), UpgradeReceipt(file, receipt, EnableFile(file)), FALSE)
  BY DEF BeginEnable
<1>2. Rewritten(file, EnableFile(file)) /\ file.blocks /\ Active(receipt)
  BY <1>1, DiskBetween, EnableRewrites
<1> QED BY <1>1, <1>2, UpgradeHolds

LEMMA BeginMigrateHolds ==
  ASSUME OwnershipInv, BeginMigrate
  PROVE  OwnershipInv'
<1>1. /\ job = Idle \/ (job.pc = "held" /\ job.op = "enable")
      /\ CanMigrate(file, receipt) /\ UNCHANGED backup
      /\ Plan("migrate", MigrateFile(file), UpgradeReceipt(file, receipt, MigrateFile(file)), FALSE)
  BY DEF BeginMigrate
<1>2. Rewritten(file, MigrateFile(file)) /\ file.blocks /\ Active(receipt)
  BY <1>1, DiskBetween, MigrateRewrites
<1> QED BY <1>1, <1>2, UpgradeHolds

LEMMA BeginUninstallHolds ==
  ASSUME OwnershipInv, BeginUninstall
  PROVE  OwnershipInv'
<1>1. PICK preserve \in BOOLEAN, force \in BOOLEAN :
        /\ job = Idle /\ CanUninstall(file, receipt, backup, force) /\ UNCHANGED backup
        /\ Plan("uninstall", UninstallFile(file, receipt, backup, preserve), NoReceipt,
                Paused(receipt) \/ (Pristine(file, receipt) /\ receipt.existed /\ backup = receipt.source))
  BY DEF BeginUninstall
<1> DEFINE u == UninstallFile(file, receipt, backup, preserve)
           old == Pair(file, receipt)
           new == Pair(u, NoReceipt)
           verify == Paused(receipt) \/ (Pristine(file, receipt) /\ receipt.existed /\ backup = receipt.source)
<1>2. /\ Sound(file) /\ SoundReceipt(receipt) /\ (~torn => Matched(old))
      /\ (~torn /\ touched = {} => Untouched(old))
  BY <1>1, DiskBetween
<1>3. Plan("uninstall", u, NoReceipt, verify) /\ verify \in BOOLEAN
  BY <1>1
<1>4. u = UninstallFile(file, receipt, backup, preserve)
  OBVIOUS
<1> HIDE DEF u, verify
<1>5. /\ Sounds(new) /\ AtPause(new) /\ AtPause(old) /\ Matched(new) /\ Untouched(new)
      /\ SameUser(old, new) /\ Installed(receipt)
      /\ receipt.prior \subseteq u.keys /\ ~u.blocks /\ (Foreign(file) => Foreign(u))
      /\ (Untouched(old) => InstallSource(u) = receipt.source)
  BY <1>1, <1>2, <1>4, UninstallPlanned
<1>6. Sound(u) /\ SoundReceipt(NoReceipt) /\ OtherOf(file) = OtherOf(u)
      /\ KeysOf(file, receipt, backup') = KeysOf(u, receipt, backup')
  BY <1>1, <1>5 DEF Sounds, SameUser, Pair
<1>7. Planned("uninstall", u, NoReceipt, verify)
  BY <1>1, <1>3, <1>5, <1>6 DEF Planned, Ops
<1>8. OperationInv'
  <2>1. /\ job'.op = "uninstall" /\ job'.old.file = file /\ job'.old.receipt = receipt
        /\ job'.new.file = u /\ job'.new.receipt = NoReceipt /\ undo = <<>>
        /\ UNCHANGED <<undo, torn, touched>>
    BY <1>1, <1>3, <1>7, PlanHolds
  <2> QED BY <1>2, <1>5, <2>1 DEF OperationInv, Updates, FileOnly
<1> QED BY <1>1, <1>3, <1>7, <1>8, PlanHolds

LEMMA BeginNativeHolds ==
  ASSUME OwnershipInv, BeginNative
  PROVE  OwnershipInv'
<1>1. /\ job = Idle /\ CanRestoreNative(file, receipt, backup) /\ UNCHANGED backup
      /\ confirmed = Confirmation("native")
      /\ Plan("native", NativeFile(file, receipt), NoReceipt, TRUE)
  BY DEF BeginNative
<1> DEFINE u == NativeFile(file, receipt)
<1>2. Sound(file) /\ SoundReceipt(receipt)
  BY <1>1, DiskBetween
<1>3. /\ Sound(u) /\ ~u.blocks /\ Installed(receipt) /\ AtPause(Pair(file, receipt))
      /\ file.keys = {} /\ u.keys = {} /\ OtherOf(u) = OtherOf(file)
  BY <1>1, <1>2, NativePlan
<1> HIDE DEF u
<1>4. SoundReceipt(NoReceipt) /\ KeysOf(file, receipt, backup') = KeysOf(u, receipt, backup')
  BY <1>3, Receipts, OwnedKeys DEF SoundReceipt
<1>5. AtPause(Pair(u, NoReceipt)) /\ Matched(Pair(u, NoReceipt)) /\ Untouched(Pair(u, NoReceipt))
  BY <1>3, Receipts DEF AtPause, Matched, Untouched, Pair
<1>6. Planned("native", u, NoReceipt, TRUE)
  BY <1>1, <1>3, <1>4, <1>5 DEF Planned, Ops
<1>7. Plan("native", u, NoReceipt, TRUE)
  BY <1>1 DEF u
<1>8. OperationInv'
  <2>1. /\ job'.op = "native" /\ job'.old.file = file /\ job'.old.receipt = receipt
        /\ job'.new.file = u /\ job'.new.receipt = NoReceipt /\ undo = <<>>
        /\ UNCHANGED <<undo, confirmed>>
    BY <1>1, <1>6, <1>7, PlanHolds
  <2> QED BY <1>1, <1>3, <2>1 DEF OperationInv, Updates, FileOnly, Foreign, Confirmation
<1> QED BY <1>1, <1>6, <1>7, <1>8, PlanHolds

LEMMA BeginRepairHolds ==
  ASSUME OwnershipInv, BeginRepair
  PROVE  OwnershipInv'
<1>1. /\ job = Idle /\ ~Installed(receipt) /\ ~file.blocks /\ UNCHANGED backup
      /\ Plan("repair", AppendHist(file, file.exists), NoReceipt, FALSE)
  BY DEF BeginRepair
<1> DEFINE u == AppendHist(file, file.exists)
<1>2. Sound(file) /\ receipt = NoReceipt
  BY <1>1, DiskBetween DEF Installed
<1>3. Sound(u) /\ ~u.blocks /\ u.keys = file.keys /\ OtherOf(u) = OtherOf(file)
  BY <1>1, <1>2, RepairPlan
<1> HIDE DEF u
<1>4. SoundReceipt(NoReceipt) /\ KeysOf(file, receipt, backup') = KeysOf(u, receipt, backup')
  BY <1>1, <1>2, <1>3, Receipts DEF SoundReceipt, KeysOf
<1>5. /\ AtPause(Pair(u, NoReceipt)) /\ Matched(Pair(u, NoReceipt)) /\ Untouched(Pair(u, NoReceipt))
      /\ AtPause(Pair(file, receipt))
  BY <1>2, <1>3, Receipts DEF AtPause, Matched, Untouched, Pair
<1>6. Planned("repair", u, NoReceipt, FALSE)
  BY <1>1, <1>3, <1>4, <1>5 DEF Planned, Ops
<1>7. Plan("repair", u, NoReceipt, FALSE)
  BY <1>1 DEF u
<1>8. OperationInv'
  <2>1. /\ job'.op = "repair" /\ job'.old.file = file /\ job'.old.receipt = receipt
        /\ job'.new.file = u /\ job'.new.receipt = NoReceipt /\ undo = <<>> /\ undo' = undo
    BY <1>1, <1>6, <1>7, PlanHolds
  <2> QED BY <1>2, <1>3, <2>1 DEF OperationInv, Updates, FileOnly, Foreign
<1> QED BY <1>1, <1>6, <1>7, <1>8, PlanHolds

LEMMA BeginMarkerHolds ==
  ASSUME OwnershipInv, BeginMarker
  PROVE  OwnershipInv'
<1>1. /\ job = Idle /\ Active(receipt) /\ Healthy(file, receipt) /\ UNCHANGED backup
      /\ Plan("marker", Closed(file), receipt, FALSE)
  BY DEF BeginMarker
<1> DEFINE u == Closed(file)
<1>2. /\ Sound(file) /\ SoundReceipt(receipt) /\ file.blocks /\ Fits(file, receipt)
      /\ (~torn /\ touched = {} => Untouched(Pair(file, receipt)))
  BY <1>1, DiskBetween DEF Healthy, Located, Fits
<1>3. /\ Sound(u) /\ Fits(u, receipt) /\ u.keys = file.keys /\ OtherOf(u) = OtherOf(file)
      /\ (Pristine(file, receipt) => Pristine(u, receipt))
  BY <1>1, <1>2, MarkerPlan
<1> HIDE DEF u
<1>4. KeysOf(file, receipt, backup') = KeysOf(u, receipt, backup')
  BY <1>1, <1>3, Receipts, OwnedKeys
<1>5. AtPause(Pair(u, receipt)) /\ AtPause(Pair(file, receipt)) /\ Matched(Pair(u, receipt))
  BY <1>1, <1>3, Receipts DEF AtPause, Matched, Pair
<1>6. ~torn /\ touched = {} => Untouched(Pair(u, receipt))
  BY <1>2, <1>3, <1>5 DEF Untouched, Pair
<1>7. Planned("marker", u, receipt, FALSE)
  BY <1>1, <1>2, <1>3, <1>4, <1>5, <1>6 DEF Planned, Ops
<1>8. Plan("marker", u, receipt, FALSE)
  BY <1>1 DEF u
<1>9. OperationInv'
  <2>1. /\ job'.op = "marker" /\ job'.old.file = file /\ job'.old.receipt = receipt
        /\ job'.new.file = u /\ job'.new.receipt = receipt /\ undo = <<>> /\ undo' = undo
    BY <1>1, <1>7, <1>8, PlanHolds
  <2> QED BY <1>3, <2>1 DEF OperationInv, Updates, FileOnly, Foreign
<1> QED BY <1>1, <1>7, <1>8, <1>9, PlanHolds

LEMMA BeginHolds ==
  ASSUME OwnershipInv, Begin
  PROVE  OwnershipInv'
  BY BeginInstallHolds, BeginReactivateHolds, BeginSuspendHolds, BeginEnableHolds,
     BeginMigrateHolds, BeginUninstallHolds, BeginNativeHolds, BeginRepairHolds,
     BeginMarkerHolds DEF Begin

-----------------------------------------------------------------------------
(* The invariant.                                                          *)

LEMMA PlainSound ==
  ASSUME NEW other \in SUBSET Settings, NEW keys \in SUBSET PickerKeys
  PROVE  LET f == PlainFile(TRUE, other, keys) IN
         Sound(f) /\ ~f.blocks /\ f.hist = "none" /\ f.keys = keys /\ WithoutHist(f).hist = "none"
<1> DEFINE f == PlainFile(TRUE, other, keys)
<1>1. /\ f \in File /\ f.exists /\ ~f.blocks /\ f.hist = "none" /\ f.keys = keys
      /\ ~f.picked /\ ~f.tier /\ f.provider = NoProvider /\ ~f.open /\ ~f.web /\ f.edited = "no"
  BY DEF PlainFile, File, NoProvider, ProviderBlock
<1> HIDE DEF f
<1>2. Sound(f)
  BY <1>1, SoundFile
<1>3. WithoutHist(f).hist = "none"
  BY <1>1, WithoutHistFields
<1> QED BY <1>1, <1>2, <1>3 DEF f

LEMMA InitHolds ==
  ASSUME Init
  PROVE  OwnershipInv
<1>1. PICK f \in {NoFile, PlainFile(TRUE, {}, {})}
                   \cup {PlainFile(TRUE, {"table"}, k) : k \in SUBSET PickerKeys},
           older \in BOOLEAN :
        /\ file = IF older THEN OlderFile(f) ELSE f
        /\ receipt = IF older THEN InstallReceipt(f, OlderFile(f)) ELSE NoReceipt
        /\ backup = IF older THEN InstallSource(f) ELSE Lost
  BY DEF Init
<1>2. /\ job = Idle /\ undo = <<>> /\ sync = NotAsked
      /\ edits = 0 /\ touched = {} /\ torn = FALSE /\ start = NoPair
  BY DEF Init
<1>3. Sound(f) /\ ~f.blocks /\ WithoutHist(f).hist = "none"
  <2>1. CASE f = NoFile
    <3>1. WithoutHist(NoFile).hist = "none"
      BY NoFileFields, WithoutHistFields
    <3> QED BY <2>1, <3>1, NoFileFields, NoFileSound
  <2>2. CASE f = PlainFile(TRUE, {}, {})
    BY <2>2, PlainSound DEF Settings, PickerKeys
  <2>3. ASSUME NEW k \in SUBSET PickerKeys, f = PlainFile(TRUE, {"table"}, k)
        PROVE  Sound(f) /\ ~f.blocks /\ WithoutHist(f).hist = "none"
    <3>1. {"table"} \in SUBSET Settings
      BY DEF Settings
    <3> QED BY <2>3, <3>1, PlainSound
  <2> QED BY <1>1, <2>1, <2>2, <2>3
<1>4. job.pc = "idle" /\ ~Busy
  BY <1>2 DEF Idle, Busy
<1>5. DiskInv
  <2>1. CASE older
    <3>1. FreshOver(OlderFile(f), f.other)
      BY <1>3, OlderPlan
    <3>2. /\ Sound(file) /\ SoundReceipt(receipt) /\ Active(receipt)
          /\ Fits(file, receipt) /\ Pristine(file, receipt)
      BY <1>1, <1>3, <2>1, <3>1, InstalledFresh
    <3>3. Sound(backup)
      BY <1>1, <1>3, <2>1, SourceFields
    <3> QED BY <3>2, <3>3, Receipts DEF DiskInv, Matched, AtPause, Untouched, Pair
  <2>2. CASE ~older
    BY <1>1, <1>3, <2>2, Receipts DEF DiskInv, SoundReceipt, Matched, AtPause, Untouched, Pair
  <2> QED BY <2>1, <2>2
<1>6. JobInv /\ OperationInv /\ PairedInv
  BY <1>2, <1>4 DEF JobInv, OperationInv, PairedInv
<1>7. UndoInv
  BY <1>2, <1>4 DEF UndoInv
<1>8. SyncInv
  BY <1>2 DEF SyncInv, NotAsked
<1>9. CountInv
  <2>1. edits \in 0 .. MaxEdits
    BY <1>2, MaxEditsAssumption
  <2> QED BY <1>2, <2>1 DEF CountInv
<1>10. StartInv
  BY <1>2, Receipts DEF StartInv, Alone, NoPair
<1> QED BY <1>5, <1>6, <1>7, <1>8, <1>9, <1>10 DEF OwnershipInv

(* Whatever the user, Codex, the bridge and the commands do, in whatever   *)
(* order, and wherever a command dies: the inductive invariant.            *)
THEOREM OwnershipHolds == Spec => []OwnershipInv
<1>1. Init => OwnershipInv
  BY InitHolds
<1>2. OwnershipInv /\ [Next]_vars => OwnershipInv'
  <2> SUFFICES ASSUME OwnershipInv, [Next]_vars PROVE OwnershipInv'
    OBVIOUS
  <2>1. CASE Next
    BY <2>1, UserHolds, ConfirmHolds, BeginHolds, CommandHolds, CrashHolds, BridgeHolds DEF Next
  <2>2. CASE UNCHANGED vars
    BY <2>2, StutterHolds
  <2> QED BY <2>1, <2>2
<1> QED BY <1>1, <1>2, PTL DEF Spec

-----------------------------------------------------------------------------
(* What follows from it.                                                   *)

LEMMA Typed == OwnershipInv => TypeOK
<1> SUFFICES ASSUME OwnershipInv PROVE TypeOK
  OBVIOUS
<1>1. file \in File /\ backup \in File \cup {Lost} /\ receipt \in Receipt \cup {NoReceipt}
  BY DEF OwnershipInv, DiskInv, Sound, SoundReceipt, Installed
<1>2. /\ job.pc \in {"idle", "ready", "paired", "held", "unwind"}
      /\ (job.pc \in {"ready", "paired"} => job.op \in Ops)
  BY DEF OwnershipInv, JobInv, Busy, Change
<1>3. \A i \in DOMAIN undo : undo[i].op \in Held
  BY DEF OwnershipInv, UndoInv, Rollback
<1>4. sync.pc \in {"none", "ready", "published"}
  BY DEF OwnershipInv, SyncInv
<1>5. edits \in 0 .. MaxEdits /\ touched \subseteq {"installation", "pair"} /\ torn \in BOOLEAN
  BY DEF OwnershipInv, CountInv
<1> QED BY <1>1, <1>2, <1>3, <1>4, <1>5 DEF TypeOK

(* Type correctness.                                                       *)
THEOREM OwnershipTyped == Spec => []TypeOK
  BY OwnershipHolds, Typed, PTL

(* Between commands file and receipt agree, unless a step between two      *)
(* commits went wrong: no blocks without a receipt, an installation nobody *)
(* edited is healthy, a pause nobody edited can be resumed.                *)
THEOREM AlwaysMatched == Spec => []ReceiptMatches
<1>1. OwnershipInv => ReceiptMatches
  <2> SUFFICES ASSUME OwnershipInv, job = Idle, ~torn PROVE ReceiptMatches
    BY DEF ReceiptMatches
  <2>1. /\ Matched(Pair(file, receipt))
        /\ ("pair" \notin touched => AtPause(Pair(file, receipt)))
    BY DEF OwnershipInv, DiskInv, Idle
  <2> QED BY <2>1 DEF ReceiptMatches, Matched, AtPause, Pair, Fits, Healthy, Located
<1> QED BY <1>1, OwnershipHolds, PTL

(* A command that failed and unwound has restored the pair it began with.  *)
THEOREM AlwaysRestored == Spec => []RollbackRestores
<1>1. OwnershipInv => RollbackRestores
  <2> SUFFICES ASSUME OwnershipInv, job.pc = "unwind", undo = <<>>, Alone
               PROVE  file = start.file /\ receipt = start.receipt
    BY DEF RollbackRestores, Alone
  <2>1. Chain(Pair(file, receipt))
    BY DEF OwnershipInv, StartInv
  <2>2. Pair(file, receipt) = start
    BY <2>1 DEF Chain
  <2> QED BY <2>2 DEF Pair
<1> QED BY <1>1, OwnershipHolds, PTL

(* Only the second commit writes the receipt.                              *)
LEMMA ReceiptWriter ==
  ASSUME [Next]_vars, receipt' # receipt
  PROVE  CommitReceipt
<1>1. CASE UserEdit
  BY <1>1 DEF UserEdit, EditOther, EditTier, EditSelection, EditBlock, EraseEnd, EditKeys, EditTo,
              LoseBackup
<1>2. CASE Begin
  BY <1>2 DEF Begin, BeginInstall, BeginReactivate, BeginSuspend, BeginEnable, BeginMigrate,
              BeginUninstall, BeginNative, BeginRepair, BeginMarker, Plan
<1>3. CASE Confirm \/ Crash \/ Bridge \/ UNCHANGED vars
  BY <1>3 DEF Confirm, Crash, Bridge, SyncPlan, SyncCommit, SyncPublish, vars
<1>4. CASE Command
  BY <1>4 DEF Command, CommitFile, Complete, FailHeld, Unwind
<1> QED BY <1>1, <1>2, <1>3, <1>4 DEF Next

(* Removing an installation nobody edited gives the original file back,    *)
(* but for the historical table; uninstallConfig's pristine restoration.   *)
THEOREM UntouchedAlwaysRestored == Spec => UntouchedRestored
<1>1. ASSUME OwnershipInv, [Next]_vars, job.pc = "paired", job.op = "uninstall",
             ~Installed(receipt'), touched = {}, ~torn
      PROVE  InstallSource(file') = receipt.source
  <2>1. /\ receipt = job.old.receipt /\ Installed(receipt) /\ file = job.new.file
        /\ InstallSource(job.new.file) = receipt.source
    BY <1>1, PairedPlan DEF OwnershipInv, OperationInv, PairedInv
  <2>2. CommitReceipt
    BY <1>1, <2>1, ReceiptWriter
  <2>3. file' = file
    BY <1>1, <2>1, <2>2 DEF CommitReceipt
  <2> QED BY <2>1, <2>3
<1> DEFINE Restored == /\ job.pc = "paired" /\ job.op = "uninstall" /\ ~Installed(receipt')
                       /\ touched = {} /\ ~torn
                       => InstallSource(file') = receipt.source
<1>2. OwnershipInv /\ [Next]_vars => [Restored]_vars
  BY <1>1
<1>3. Spec => [][Restored]_vars
  BY <1>2, OwnershipHolds, PTL DEF Spec
<1> QED BY <1>3 DEF UntouchedRestored

(* Only these steps write the file.                                        *)
LEMMA FileWriter ==
  ASSUME [Next]_vars, file' # file
  PROVE  UserEdit \/ CommitFile \/ CommitReceipt \/ SyncCommit
<1>1. CASE Begin
  BY <1>1 DEF Begin, BeginInstall, BeginReactivate, BeginSuspend, BeginEnable, BeginMigrate,
              BeginUninstall, BeginNative, BeginRepair, BeginMarker, Plan
<1>2. CASE Confirm \/ Crash \/ Bridge \/ UNCHANGED vars
  BY <1>2 DEF Confirm, Crash, Bridge, SyncPlan, SyncPublish, vars
<1>3. CASE Command
  BY <1>3 DEF Command, Complete, FailHeld, Unwind
<1> QED BY <1>1, <1>2, <1>3 DEF Next

(* Another picker's gateway leaves the file only as the user confirmed.    *)
THEOREM ForeignAlwaysConfirmed == Spec => ForeignConfirmed
<1> DEFINE Consented == \/ confirmed = Confirmation("switch")
                        \/ job.op = "undo" \/ (job.pc = "paired" /\ job.op # "install")
           Asked == Foreign(file) /\ ~Foreign(file') /\ edits' = edits => Consented
<1>1. ASSUME OwnershipInv, [Next]_vars, Foreign(file), ~Foreign(file'), edits' = edits
      PROVE  Consented
  <2>1. CASE UserEdit
    <3>1. edits' = edits + 1
      BY <2>1 DEF UserEdit, EditOther, EditTier, EditSelection, EditBlock, EraseEnd, EditKeys,
                  EditTo, LoseBackup
    <3>2. edits \in Nat
      BY <1>1, MaxEditsAssumption DEF OwnershipInv, CountInv
    <3> QED BY <1>1, <3>1, <3>2
  <2>2. CASE CommitFile
    <3>1. /\ file' = job.new.file /\ file = job.old.file /\ receipt = job.old.receipt /\ Busy
      BY <1>1, <2>2 DEF CommitFile, Unchanged, Busy
    <3> QED BY <1>1, <3>1 DEF OwnershipInv, OperationInv, Confirmation
  <2>3. CASE CommitReceipt
    <3>1. job.pc = "paired" /\ Busy
      BY <2>3 DEF CommitReceipt, Busy
    <3>2. job.op = "install" => file' = file \/ file = job.new.file
      BY <2>3 DEF CommitReceipt
    <3>3. job.op = "install" => job.new.file.keys = {}
      BY <1>1, <3>1 DEF OwnershipInv, OperationInv
    <3> QED BY <1>1, <3>1, <3>2, <3>3 DEF Foreign
  <2>4. CASE SyncCommit
    <3>1. file' = file \/ file' = [file EXCEPT !.picked = ~file.picked]
      BY <2>4 DEF SyncCommit
    <3>2. file'.keys = file.keys
      BY <1>1, <3>1 DEF OwnershipInv, DiskInv, Sound, File
    <3> QED BY <1>1, <3>2 DEF Foreign
  <2> QED BY <1>1, <2>1, <2>2, <2>3, <2>4, FileWriter
<1>2. OwnershipInv /\ [Next]_vars => [Asked]_vars
  BY <1>1
<1>3. Spec => [][Asked]_vars
  BY <1>2, OwnershipHolds, PTL DEF Spec
<1> QED BY <1>3 DEF ForeignConfirmed

-----------------------------------------------------------------------------
(* The user's settings: the abstract specification.                        *)

LEMMA SettingsTyped ==
  ASSUME NEW f, NEW s, NEW b, Sound(f), SoundReceipt(s), b # Lost => Sound(b)
  PROVE  OtherOf(f) \subseteq Settings /\ KeysOf(f, s, b) \subseteq PickerKeys
<1>1. f \in File /\ (Installed(s) => s.prior \subseteq PickerKeys) /\ (b # Lost => b \in File)
  BY ReceiptTypes DEF Sound, SoundReceipt
<1>2. f.other \subseteq Settings /\ f.keys \subseteq PickerKeys
      /\ (b # Lost => b.keys \subseteq PickerKeys) /\ "tier" \in Settings
  BY <1>1, FileTypes DEF Settings
<1>3. OtherOf(f) = f.other \cup IF f.tier /\ f.edited # "root" THEN {"tier"} ELSE {}
  BY <1>1, WithoutBlocksFields
<1> QED BY <1>1, <1>2, <1>3 DEF KeysOf

LEMMA SameOther ==
  ASSUME NEW f \in File, NEW g \in File, f.other = g.other, f.tier = g.tier, f.edited = g.edited
  PROVE  OtherOf(f) = OtherOf(g)
<1>1. /\ OtherOf(f) = f.other \cup IF f.tier /\ f.edited # "root" THEN {"tier"} ELSE {}
      /\ OtherOf(g) = g.other \cup IF g.tier /\ g.edited # "root" THEN {"tier"} ELSE {}
  BY WithoutBlocksFields
<1> QED BY <1>1

SettingsKept ==
    /\ OtherOf(file)' = OtherOf(file)
    /\ KeysOf(file, receipt, backup)' = KeysOf(file, receipt, backup)
    /\ edits' = edits /\ confirmed' = confirmed

LEMMA InstallSourceKeys ==
  ASSUME NEW f \in File
  PROVE  InstallSource(f) \in File /\ InstallSource(f).keys = f.keys
<1> DEFINE w == WithoutHist(f)
           e == IF HistIntact(f) THEN f.hist = "true" ELSE f.exists
<1>1. w \in File /\ w.keys = f.keys
  BY WithoutHistFields
<1>2. e \in BOOLEAN
  BY FileTypes
<1>3. InstallSource(f) = [w EXCEPT !.exists = e]
  BY DEF InstallSource
<1> HIDE DEF w, e
<1> QED BY <1>1, <1>2, <1>3 DEF File

LEMMA CommitFileKeeps ==
  ASSUME OwnershipInv, CommitFile
  PROVE  SettingsKept
<1>1. Busy /\ UNCHANGED <<receipt, backup, confirmed, edits>>
  BY DEF CommitFile, Busy
<1>2. CASE file' = file
  BY <1>1, <1>2 DEF SettingsKept
<1>3. CASE file' # file
  <2>1. file' = job.new.file /\ file = job.old.file /\ receipt = job.old.receipt
    BY <1>3 DEF CommitFile, Unchanged
  <2>2. SameUser(job.old, job.new)
    BY <1>1 DEF OwnershipInv, JobInv
  <2> QED BY <1>1, <2>1, <2>2 DEF SameUser, SettingsKept
<1> QED BY <1>2, <1>3

(* A rollback of the first commit gives the user's part back.              *)
LEMMA RolledBackKeeps ==
  ASSUME OwnershipInv, job.pc = "paired", file = job.new.file, file' = RollbackFile,
         UNCHANGED <<receipt, backup, confirmed, edits>>
  PROVE  SettingsKept
<1>1. SameUser(job.old, job.new) /\ receipt = job.old.receipt /\ job.old.file \in File
  BY PairedPlan DEF Sound
<1>2. OtherOf(file') = OtherOf(job.old.file) /\ file'.keys = job.old.file.keys
      /\ file'.blocks = job.old.file.blocks
  <2>1. CASE job.op # "install"
    BY <2>1 DEF RollbackFile
  <2>2. CASE job.op = "install"
    <3>1. file' = [job.old.file EXCEPT !.exists = TRUE]
      BY <2>2 DEF RollbackFile
    <3>2. /\ file' \in File /\ file'.keys = job.old.file.keys /\ file'.blocks = job.old.file.blocks
          /\ file'.other = job.old.file.other /\ file'.tier = job.old.file.tier
          /\ file'.edited = job.old.file.edited
      BY <1>1, <3>1 DEF File
    <3> QED BY <1>1, <3>2, SameOther
  <2> QED BY <2>1, <2>2
<1> QED BY <1>1, <1>2 DEF SameUser, SettingsKept, KeysOf

LEMMA SecondCommitKeeps ==
  ASSUME OwnershipInv, job.pc = "paired", receipt' = job.new.receipt,
         UNCHANGED <<file, backup, confirmed, edits>>
  PROVE  \/ SettingsKept
         \/ /\ confirmed.what = "native" /\ OtherOf(file)' = OtherOf(file)
            /\ KeysOf(file, receipt, backup)' \subseteq KeysOf(file, receipt, backup)
<1>1. /\ Busy /\ receipt = job.old.receipt /\ job.old.file \in File
      /\ job.op \in {"install", "uninstall", "native"} \cup Updates \cup {"undo"}
  BY PairedPlan DEF Sound
<1>2. CASE job.op \in Updates \cup {"undo"}
  <2>1. SameOwner(receipt, job.new.receipt)
    BY <1>1, <1>2 DEF OwnershipInv, OperationInv
  <2>2. KeysOf(file, receipt, backup) = KeysOf(file, job.new.receipt, backup)
    BY <2>1, OwnedKeys DEF SameOwner
  <2> QED BY <2>2 DEF SettingsKept
<1>3. CASE job.op = "install"
  <2>1. /\ ~Installed(receipt) /\ backup = InstallSource(job.old.file) /\ file.blocks
        /\ job.new.receipt = InstallReceipt(job.old.file, job.new.file)
    BY <1>1, <1>3 DEF OwnershipInv, OperationInv, PairedInv, Fits
  <2>2. backup # Lost /\ backup.keys = job.old.file.keys
    BY <1>1, <2>1, InstallSourceKeys, LostIsNoFile
  <2>3. job.new.receipt.prior = job.old.file.keys /\ Installed(job.new.receipt)
    <3>1. job.new.receipt.installed = TRUE /\ NoReceipt.installed = FALSE
      BY <2>1 DEF InstallReceipt, NoReceipt
    <3> QED BY <2>1, <3>1 DEF InstallReceipt, Installed
  <2>4. KeysOf(file, receipt, backup) = KeysOf(file, job.new.receipt, backup)
    BY <2>1, <2>2, <2>3 DEF KeysOf
  <2> QED BY <2>4 DEF SettingsKept
<1>4. CASE job.op \in {"uninstall", "native"}
  <2>1. /\ Installed(receipt) /\ job.new.receipt = NoReceipt /\ ~file.blocks
        /\ (job.op = "uninstall" => receipt.prior \subseteq file.keys)
        /\ (job.op = "native" => confirmed.what = "native")
    BY <1>1, <1>4 DEF OwnershipInv, OperationInv, PairedInv
  <2>2. KeysOf(file, NoReceipt, backup) = file.keys
        /\ KeysOf(file, receipt, backup) = file.keys \cup receipt.prior
    BY <2>1, Receipts DEF KeysOf
  <2> QED BY <1>4, <2>1, <2>2 DEF SettingsKept
<1> QED BY <1>1, <1>2, <1>3, <1>4

LEMMA CommitReceiptKeeps ==
  ASSUME OwnershipInv, CommitReceipt
  PROVE  /\ \/ SettingsKept
            \/ /\ confirmed.what = "native" /\ OtherOf(file)' = OtherOf(file)
               /\ KeysOf(file, receipt, backup)' \subseteq KeysOf(file, receipt, backup)
         /\ UNCHANGED <<confirmed, edits>>
<1>1. job.pc = "paired" /\ UNCHANGED <<backup, confirmed, edits>>
  BY DEF CommitReceipt
<1>2. \/ receipt' = job.new.receipt /\ file' = file
      \/ receipt' = receipt /\ file = job.new.file /\ file' = RollbackFile
      \/ receipt' = receipt /\ file' = file
  BY DEF CommitReceipt
<1>3. CASE receipt' = receipt /\ file' = file
  BY <1>1, <1>3 DEF SettingsKept
<1> QED BY <1>1, <1>2, <1>3, SecondCommitKeeps, RolledBackKeeps

LEMMA SyncCommitKeeps ==
  ASSUME OwnershipInv, SyncCommit
  PROVE  SettingsKept
<1>1. UNCHANGED <<receipt, backup, confirmed, edits>> /\ file \in File
      /\ (file' = file \/ file' = [file EXCEPT !.picked = ~file.picked])
  BY DEF SyncCommit, OwnershipInv, DiskInv, Sound
<1>2. (~file.picked) \in BOOLEAN
  OBVIOUS
<1>3. /\ file' \in File /\ file'.keys = file.keys /\ file'.blocks = file.blocks
      /\ file'.other = file.other /\ file'.tier = file.tier /\ file'.edited = file.edited
  BY <1>1, <1>2 DEF File
<1>4. OtherOf(file') = OtherOf(file)
  BY <1>1, <1>3, SameOther
<1> QED BY <1>1, <1>3, <1>4 DEF SettingsKept, KeysOf

LEMMA BeginKeeps ==
  ASSUME OwnershipInv, Begin
  PROVE  SettingsKept
<1>1. UNCHANGED <<file, receipt, confirmed, edits>>
  BY DEF Begin, BeginInstall, BeginReactivate, BeginSuspend, BeginEnable, BeginMigrate,
         BeginUninstall, BeginNative, BeginRepair, BeginMarker, Plan
<1>2. UNCHANGED backup \/ ~file.blocks
  BY DEF Begin, BeginInstall, BeginReactivate, BeginSuspend, BeginEnable, BeginMigrate,
         BeginUninstall, BeginNative, BeginRepair, BeginMarker, CanInstall
<1> QED BY <1>1, <1>2 DEF SettingsKept, KeysOf

LEMMA SettingsStep ==
  OwnershipInv /\ OwnershipInv' /\ [Next]_vars => [User!Next]_(User!vars)
<1> SUFFICES ASSUME OwnershipInv, OwnershipInv', [Next]_vars PROVE [User!Next]_(User!vars)
  OBVIOUS
<1> DEFINE o == OtherOf(file)
           k == KeysOf(file, receipt, backup)
<1>1. /\ o = file.other \cup (IF file.tier /\ file.edited # "root" THEN {"tier"} ELSE {})
      /\ k = file.keys \cup Recorded
      /\ o' = file'.other \cup (IF file'.tier /\ file'.edited # "root" THEN {"tier"} ELSE {})
      /\ k' = file'.keys \cup Recorded'
  <2>1. file \in File /\ file' \in File
    BY DEF OwnershipInv, DiskInv, Sound
  <2> QED BY <2>1, WithoutBlocksFields DEF KeysOf, Recorded
<1>2. o' \subseteq Settings /\ k' \subseteq PickerKeys
  BY SettingsTyped DEF OwnershipInv, DiskInv
<1> HIDE DEF o, k
<1>3. CASE o' = o /\ k' = k /\ edits' = edits /\ confirmed' = confirmed
  BY <1>1, <1>3 DEF User!vars
<1>4. CASE UserEdit
  <2>1. edits' = edits + 1 /\ confirmed' = confirmed
    BY <1>4 DEF UserEdit, EditOther, EditTier, EditSelection, EditBlock, EraseEnd, EditKeys,
                EditTo, LoseBackup
  <2> QED BY <1>1, <1>2, <2>1 DEF User!Next, User!Edit
<1>5. CASE Confirm
  <2>1. UNCHANGED <<file, receipt, backup, edits>>
    BY <1>5 DEF Confirm
  <2>2. o' = o /\ k' = k
    BY <2>1 DEF o, k
  <2> QED BY <1>1, <2>1, <2>2 DEF User!Next, User!Agree
<1>6. CASE CommitReceipt
  <2>1. /\ \/ o' = o /\ k' = k
           \/ confirmed.what = "native" /\ o' = o /\ k' \subseteq k
        /\ UNCHANGED <<confirmed, edits>>
    BY <1>6, CommitReceiptKeeps DEF SettingsKept, o, k
  <2>2. CASE confirmed.what = "native" /\ o' = o /\ k' \subseteq k
    BY <1>1, <2>1, <2>2 DEF User!Next, User!RestoreNative
  <2> QED BY <1>3, <2>1, <2>2
<1>7. CASE Begin \/ CommitFile \/ SyncCommit
  BY <1>3, <1>7, BeginKeeps, CommitFileKeeps, SyncCommitKeeps DEF SettingsKept, o, k
<1>8. CASE Complete \/ FailHeld \/ Unwind \/ Crash \/ SyncPlan \/ SyncPublish \/ UNCHANGED vars
  <2>1. UNCHANGED <<file, receipt, backup, edits, confirmed>>
    BY <1>8 DEF Complete, FailHeld, Unwind, Crash, SyncPlan, SyncPublish, vars
  <2> QED BY <1>3, <2>1 DEF o, k
<1> QED BY <1>4, <1>5, <1>6, <1>7, <1>8 DEF Next, Command, Bridge

(* ConfigOwnership implements UserSettings: only the user changes the      *)
(* user's part, and recorded assignments go only with consent.             *)
THEOREM SettingsImplemented == Spec => UserKeepsSettings
<1>1. Init => User!Init
  <2> SUFFICES ASSUME Init PROVE User!Init
    OBVIOUS
  <2>1. OwnershipInv
    BY InitHolds
  <2>2. edits = 0 /\ confirmed.what = "nothing"
    BY DEF Init
  <2>3. /\ OtherOf(file) = file.other \cup (IF file.tier /\ file.edited # "root" THEN {"tier"} ELSE {})
        /\ KeysOf(file, receipt, backup) = file.keys \cup Recorded
    BY <2>1, WithoutBlocksFields DEF OwnershipInv, DiskInv, Sound, KeysOf, Recorded
  <2>4. OtherOf(file) \subseteq Settings /\ KeysOf(file, receipt, backup) \subseteq PickerKeys
    BY <2>1, SettingsTyped DEF OwnershipInv, DiskInv
  <2> QED BY <2>2, <2>3, <2>4 DEF User!Init
<1> QED BY <1>1, SettingsStep, OwnershipHolds, PTL DEF Spec, UserKeepsSettings, User!Spec
=============================================================================
