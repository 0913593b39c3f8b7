# PickerMux in TLA+

PickerMux puts local and third-party models into the model picker of Codex
Desktop. It keeps no server of its own state: a short-lived command line
(`src/cli.mjs`), a bridge process that launchd keeps alive, a one-shot refresh
worker, a menu bar companion, and Codex itself share a handful of files. What
can go wrong therefore lies between processes: a file that changes between a
check and its use, a process that dies between two writes, a lock taken from
the dead and from the living. These modules model that part of the code,
check it with TLC on small instances and prove the central results with TLAPS
for every value of the constants.

Paths below are relative to the repository.

## 1. Inventory

| Component | Files (`src/` unless noted) | State | Operations | Talks to |
|---|---|---|---|---|
| Certification store | `model-certification.mjs` | `certifications.json`: receipts, gates, pending barriers, probe authorizations | record, stage, commit, clear, request gate | CLI, bridge |
| Certification transaction | `cli.mjs` (`certify`, `refresh`, `runCertificationTransaction`), `certification-runner.mjs` | local variables of one CLI process | conservative refresh, probes, records, final refresh, recovery | store, catalog, bridge, providers |
| Catalog and synchronizer | `catalog.mjs`, `catalog-sync.mjs`, `bridge-startup.mjs`, `provider-registry.mjs` | `models.json`; the bridge's route registry | build, publish, roll back, start up | store, CLI |
| Responses relay | `responses-proxy.mjs`, `body-codec.mjs`, `header-policy.mjs` | one request: sockets, timers, transformer | admit, stream, settle | registry, store gate, provider |
| Stream transformations | `efficient-fidelity.mjs`, `responses-transform.mjs`, `mlx-chat.mjs`, `tool-normalization.mjs`, `lmstudio-compaction.mjs` | per stream | filter, rewrite | relay |
| Token usage | `usage-store.mjs`, `token-usage.mjs` | usage directory with its own lock, generation | observe, reset, purge | bridge, companion |
| Compatibility gate | `runtime-compatibility.mjs` | last observation, latch, timer | inspect, start, stop | bridge |
| Lifecycle lock | `distribution-installer.mjs` | the lock file | acquire, recover, release | every command |
| Distribution setup | `distribution-installer.mjs`, `service-package.mjs` | versions, launcher, current pointer, receipt | setup, rollback, uninstall | lock |
| Configuration ownership | `config-manager.mjs` | `config.toml`, ownership receipt, backups | install, uninstall, suspend, reactivate, status | user edits |
| Bridge service | `bridge-runtime.mjs`, `bridge-server.mjs` | plist, launchd job, runtime record | start, stop, restart | launchd |
| Full refresh | `full-refresh.mjs`, `cli.mjs`, `codex-desktop-state.mjs` | checkpoint, worker plist and job | schedule, run, resume, cancel, clean up | all of the above, Desktop |
| Purge | `purge-data.mjs`, `runtime-purge.mjs` | quarantined entries | inventory, delete, restore | credentials, distribution |
| Credentials | `keychain-credentials.mjs` | provider registry, resolver cache | register, resolve, clear | Keychain |
| Discovery | `discovery.mjs`, `bridge-discovery.mjs`, `mlx-*.mjs` | none | list models and subjects | LM Studio, MLX, gateways |
| Companion control | `companion-*.mjs` | preview token | preview, apply, deactivate | lock, configuration |
| macOS companion | `macos/Sources` | operation queue, toggle, process executor | poll, act, uninstall | companion control |
| MLX runtime | `runtime/mlx` | model store, runtime lock | download, serve, shut down | bridge |

The hard behaviours are listed, each at its line, in `PROJECT.json` under
`hazards`. They fall into four families, which decide the order of the plan:

1. **Authority that outlives its evidence.** Four copies of "this model may use
   tools" (store, catalog file, live routes, requests already resolved) are
   updated by two processes that share no lock between them: the synchronizer
   in the bridge never takes the lifecycle lock.
2. **Files that a dead process left.** Locks, checkpoints, plists, half-written
   pairs.
3. **Callbacks of one event loop in an order nobody tested**: stream settling,
   coalesced inspections, caches cleared during a lookup.
4. **Sequences of legal commands** (install, suspend, edit, refresh, uninstall)
   that reach a state the next command refuses.

What makes each component correct:

- certification: a claim never outlives its receipt; probes never share a model
  with an agent turn; a receipt names a subject that was live when a run of its
  probes began and again after it had passed; a barrier is always lifted in the
  end (all checked, the first three proved);
- lock: two commands hold it together only by way of a stray recovery, which
  takes four commands (proved; with four it happens), recovery destroys dead
  locks only, a command finds and unlinks its own file (proved);
- full refresh: the recorded phase is true, nothing is left stranded without a
  checkpoint, one worker runs (proved), an interrupted run can be resumed;
- compatibility: a request is never admitted on an observation older than the
  binary it runs with;
- relay: a response is settled once and truthfully, a started stream ends in a
  terminal event, every request settles in the end;
- stream identity: Codex gets only calls that a completed response commits,
  distinct from each other, and each the one it was announced as (proved);
- configuration: file and receipt agree, uninstall returns what install found,
  user edits survive, another integration goes only as confirmed (proved);
- setup and removal: a failed one leaves what the next attempt needs, a
  successful one leaves nothing, and no Keychain item falls out of the registry
  (proved);
- usage store: an observation is counted once or the store says unavailable, a
  reset is final (planned).

## 2. Modules

| Module | Models | Kind |
|---|---|---|
| `ToolAuthority` | what the transaction promises | abstract specification |
| `CertificationStore` | `model-certification.mjs` and the claims of `catalog.mjs` | operators |
| `CertificationTransaction` | CLI, bridge, synchronizer, requests, providers | state machine, refines `ToolAuthority` |
| `CertificationInvariant` | the inductive invariants | definitions |
| `CertificationProofs` | proofs about the above | TLAPS |
| `InstallationLock` | the lifecycle lock, one system call per step | state machine |
| `InstallationLockProofs` | proofs about it | TLAPS |
| `PendingRecovery` | what a pending full refresh promises | abstract specification |
| `FullRefresh` | scheduler, worker, suspension, reactivation | state machine, refines `PendingRecovery` |
| `FullRefreshProofs` | proofs about it, the refinement included | TLAPS |
| `CompatibilityGate` | `runtime-compatibility.mjs` and the Codex executable | part of `BridgeRequests` |
| `ResponsesRelay` | `relayUpstream` of `responses-proxy.mjs`, its upstream, timers and client | part of `BridgeRequests` |
| `BridgeRequests` | requests from arrival to the end of their response | composition, state machine |
| `BridgeRequestsProofs` | proofs about gate, relays and their composition | TLAPS |
| `FunctionStream` | the response filter of `efficient-fidelity.mjs` inside `responses-transform.mjs` | state machine |
| `FunctionStreamProofs` | proofs about it | TLAPS |
| `ConfigPlans` | what each operation of `config-manager.mjs` would write | operators |
| `ConfigOwnership` | commands, bridge, user and Codex on config.toml and its receipt | state machine, refines `UserSettings` |
| `UserSettings` | what PickerMux promises about the user's settings | abstract specification |
| `ConfigOwnershipProofs` | proofs about the configuration, the refinement included | TLAPS |
| `ManagedDistribution` | the pieces of the installed command line tool | part of `FullRemoval` |
| `FullRemoval` | setup, the three uninstall modes, credential commands | composition, state machine |
| `FullRemovalProofs` | proofs about it: types, credentials | TLAPS |
| `WholeDistributionProofs` | proofs about it: all or nothing, what a removal deletes or keeps | TLAPS |
| `MC*` | instances for TLC | with the `.cfg` files |

Every definition that stands for code names its lines in `PROJECT.json` under
`map`. Operators such as `SyncRestoreHeld` or `ArmOverLoaded`, marked as
faulty variants in the modules, are plausible bugs of the definition before
them; each property of a passing run is violated by one of them.

### Certification

`store` is `certifications.json` as a record: the receipt of each model is the
number of the subject it names (a subject is the hash of everything the
certification binds to: provider, address, model, context window, reasoning and
capability metadata, client version), `search`
the models whose receipt includes the toolSearch gate, `pending` the models
behind a publication barrier, `auth` those the barrier authorizes probes for.
`catalog` gives the claim of each entry of `models.json`: absent, text, direct
or search. `bridge` is the live process: its routes, the catalog its
synchronizer believes current, the plan it is publishing and the phase it is
in. `requests` are Desktop requests that resolved a route and, when `sent`,
passed the gate. `pc` and `job` are the CLI process.

One action is one stretch of code between two awaits that matter: discovering,
reading the store, writing the catalog, kicking the bridge, reading back. The
synchronizer's three guards, its write, the registry swap and the two steps of
its rollback are separate actions, as are the two steps of a request (resolve,
admit). Faults (`MaxFaults`): the bridge or the CLI dies, a step throws, a
probe fails, LM Studio unloads a model. `Reconfigure` is the user's: it moves a
model to any other of its `MaxSubjects` configurations, at any step and
`MaxChanges` times. The fingerprint (`src/model-certification.mjs:145-183`) has
no nonce, so a configuration that is changed back is the earlier subject again.
Two variables are history: `job.first`, the live subject as a run of probes
began, and `evidence`, which takes that subject up once the run has passed and
it is live, at the end of the run or at any moment until it is recorded
(`Confirmed`).

### Lifecycle lock

A file is its identity (device and inode) and the pid written in it. Creation
(`open` with `wx`) and the write of the pid are two steps, inspection, read,
`kill(pid, 0)`, second comparison, rename, examination of what was moved,
restoration and unlink one step each, so another process may act between any
two. The examination first asks the open handle of the inspected file for its
link count (`Linked`): when another recovery has unlinked that file, the command
fails there and what it moved stays at its stale path; only otherwise may a file
moved by mistake be put back. `Workers` retry a busy lock `MaxRetries` times.
`strays` is a history variable that no guard reads: the recoveries whose rename
moved a file they had not inspected.

### Full refresh

`ckpt` is the checkpoint file, `config` and `state` are config.toml and the
ownership receipt, written one after the other, `bridge` its plist, launchd job
and runtime record, `desktop` Codex with the configuration it started under,
`job` the worker's plist and launchd job. The worker's `at` is its next step;
`goal`, `then` and `else` say which pair it is writing and where a sequence of
steps leads when it succeeds or fails. The lifecycle lock is an atomic holder
here; `InstallationLock` has the protocol behind it.

### Requests

`CompatibilityGate` numbers the executables the user puts in place; an
inspection reads the identity, runs the probes between two more reads and
concludes. `recent` is history: every executable in place since the inspection
began. `ResponsesRelay` keeps in `relay[r]` the closure of one call of
`relayUpstream`: what the upstream has sent and the bridge has not read
(`unread`), whether it is paused, what the client has been told (`head`,
`tail`), the total timer and whether the usage was reported. `echo` says that
the destroyed upstream will still report an error of its own. `BridgeRequests`
adds what each handler awaits (`pc`) and lets requests share one inspection.
What a body earns (a refusal, a native or an external route) is a choice, so
every order of awaits is explored. Responses share nothing, so only the
requests in `Followed` are relayed; the other one leaves when it is admitted.

### Stream identity

A frame is a type, a kind of call, a locator (item, index, either possibly
absent), a call id and a text of arguments, all from small sets; every frame
refused for its own shape is `Malformed`. `pending` and `emitted` are the
rewriter's maps, `held` the frames kept back, `output` the frames of the chunk
being read, which reach `client` only when the whole chunk was accepted.

### Configuration

`file` is config.toml as the operations see it: managed blocks, provider,
the user's picker assignments, other settings, the historical compatibility
table, the saved tier, the selection, and whether somebody edited inside the
blocks. `receipt` is the ownership receipt with the source it recorded, the
baseline and what a pause needs. `ConfigPlans` has one guard and one function
from pair to pair per operation. `ConfigOwnership` has the protocol around
them: read and plan, commit the file if it is still what was read, commit the
receipt likewise, hold or roll back (`undo`), die in between. The bridge's
`selection-reconcile.mjs` writes without the lock, Codex and the user write
whenever they like.

### Setup and removal

`cli` and `aside` are the four pieces of the tool in their places and in the
staging directory of a removal; `here` and `away` the stores and their
quarantines. `plan` is a command that has read its preflight without the lock;
`stale` in it names the layers somebody has changed since, which is what a
comparison of inventories finds out. `job` is the command that holds the lock.
The order of stage, check, quarantine, credentials, configuration, service,
layers, clean-up is the code's; `Handler` says where an error thrown by a step
is caught first, and the unwinding goes from there outwards.

## 3. Runs

| Run | Instance | Distinct states | Checks |
|---|---|---|---|
| `certification_one` | 1 model, 2 subjects, 2 changes, 1 fault, fair | 1 674 244 | `ReceiptsEarned`, `BarrierLifted` |
| `certification_two` | 2 models (one MLX), 1 fault | 1 681 316 | `TypeOK`, `ClaimsBacked`, `ProbeWindowExclusive`, `BarrierLiftedOverText`, refinement of `ToolAuthority` |
| `lock_safe` | 4 processes (one a worker, the others symmetric), 1 retry, 2 faults | 506 198 | `TypeOK`, `OnlyDeadLocksDropped`, `SplitTakesFour`, `OwnFileAtPath` |
| `lock_four` | 4 processes, 1 fault | violation | `MutualExclusion` |
| `full_refresh_safe` | 3 faults anywhere, 1 Codex update, 1 other command | 58 290 | `TypeOK`, `CheckpointTruthful`, `NotStranded`, `OneWorker`, refinement of `PendingRecovery` |
| `full_refresh_live` | 1 fault outside the fragile steps, fair | 1 050 | `InterruptedRunsResume` |
| `full_refresh_interrupted` | 1 death before the configuration is suspended, fair | violation | `InterruptedRunsResume` |
| `bridge_requests` | 2 requests (1 relayed), 1 chunk ahead, 1 Codex update, 1 failing read, fair | 241 256 | `TypeOK`, `AdmittedOnFreshLook`, `SettledOnce`, `NeverCut`, `OutcomeTruthful`, `PausedOnlyWhileFull`, `EveryRequestSettles` |
| `function_stream` | 5 frames, 2 calls, 1 search, 6 locators of calls and 2 of other items | 1 672 309 | `TypeOK`, `CallsCommitted`, `ToldOnce`, `CallsDistinct`, `AsAnnounced` |
| `config_ownership` | 1 edit of any kind at any moment, failures and deaths anywhere | 1 757 209 | `TypeOK`, `ReceiptMatches`, `RollbackRestores`, `UntouchedRestored`, `ForeignConfirmed`, refinement of `UserSettings` |
| `config_install_rolled_back` | the same | violation | `InstallRolledBack` |
| `full_removal` | 2 versions, 2 providers (1 configured), 2 faults | 1 897 051 | `TypeOK`, `CredentialsListed`, `AllOrNothing`, `RetainedForRecovery`, `RemovedMeansGone` |

Why the bounds suffice. A claim concerns one model; a second model is needed
for transactions over sets (exact or single, direct-only, recovered models that
have gone) and for the MLX rule of the bridge's startup. Two subjects are a
reconfiguration, the only thing a receipt can be wrong about, and two changes
are one there and back, between any two steps. One fault is enough to enter
every recovery path, two enter the recovery of a recovery.
The safety theorems of certification hold for any number of each. For the lock,
a dead holder and three contenders are the least that reaches every step: a
file moved by mistake is put back only while a second recovery still has the
inspected one at its stale path and a third command has created the new one.
For the full refresh three faults interrupt a run, its resumption and the
rollback of that.

For requests, two are needed for one to join an inspection the other began; one
unread chunk is enough for every order of pause, end and timer, and one
replacement falls into any place of an inspection. For the stream, five frames
announce, fill and complete one call, or interleave two, and still have room
for a terminal; two indexes, two free items and one reserved item give every
agreement and conflict of two partial locators. Call identifiers are symmetric
(no property tells `c1` from `c2`). In the configuration there is no bound
on commands: the state is finite, and one edit may fall between any two writes
of any sequence of them. For the removal two versions are an upgrade, two
providers let one deletion fail after another succeeded, and two faults are one
that stops a command and one that stops its undoing. `FewFaults` bounds what
comes together: without a fault everything; after one, a second provider or a
command that waits while another one runs, not both; after two, neither.

### What the three violations show

`lock_four`: processes A and B inspect the lock of a dead process and both find
it dead. A removes it, creates its own lock and runs. B then renames the lock
path, which is A's. It fails at the link count of the file it inspected, which A
has unlinked (`src/distribution-installer.mjs:574`), and never reaches the
restoration: A's file stays under the stale name and the path stays free while A
runs. C creates a lock, and A and C run together. `docs/ARCHITECTURE.md:1068`
says lifecycle commands "serialize registry updates through the same private
lifecycle lock". With three commands (the dead one, A and B) A's file is lost in
the same way, but nobody is left to enter (`ThreeCommandsExclude`); the next
command the user starts is the fourth.

`full_refresh_interrupted`: the worker removes the bridge's plist and runtime
record and dies before the configuration is suspended. The checkpoint says
"first-quit-complete" and the configuration is installed and healthy, so each
resumption takes the branch for an installed configuration
(`src/cli.mjs:2109-2125`), which requires the runtime record and the launch
agent that are gone. The documentation promises that an interrupted run "can
resume from its last recorded phase" (`docs/ARCHITECTURE.md:945`).

`config_install_rolled_back`: config.toml holds the historical `model_bridge`
table. A fresh installation replaces it with the live provider, and a step
after the commit fails. `rollbackInstallation` calls `uninstallConfig` without
`preserveHistoricalModelBridge` (`src/cli.mjs:588`), so the table is not put
back, while the message says that "all managed changes were rolled back"
(`src/cli.mjs:645`) and `docs/ARCHITECTURE.md:1045` that all current
uninstall modes retain the table. The other rollbacks do restore
(`RollbackRestores`).

Beyond these, three interruptions are known to end in a refusal that only the
user can resolve, and are left out of `full_refresh_live` (the first two through
`CrashPoints`, the third through `MaxUpdates = 0`): a death between the writes of config.toml and its receipt
(`config-manager.mjs:770`), a death after the bridge was bootstrapped and
before its configuration is back (`bridge-runtime.mjs:473`), and an update of
Codex during the run (`full-refresh.mjs:723` waits for the recorded version).
The safety run includes all of them. Likewise a process killed between creating
the lock and writing its pid leaves a lock that no recovery accepts; the run
`lock_safe` contains that death, and no property says the lock becomes free.

### Fairness

- `BridgeStart`: launchd restarts the bridge (KeepAlive). Weak.
- Steps of a running CLI or worker process: weak.
- `Retry`: the message of a failed certification asks the user to retry the
  same command; it is enabled again and again while the CLI finishes and
  restarts. Strong.
- `WorkerLock`: the worker polls the lock every 100 ms; a scheduler that the
  user starts again may take it in between, never for ever. Strong.
- `Inspection`, `Tick`: the bridge's event loop and the gate's interval. Weak.
- `Body`, `Certification`, `Credential`: bounded by the server's request timeout
  and the timeouts of the store and of the Keychain lookup. Weak.
- `TotalTimeout`: a timer that nothing winds up again. Weak. Nothing is assumed
  of the upstream, of the client, or of the idle timer.
- Full refresh: the user reruns a pending refresh, as its message says, and
  opens or quits Desktop when the run waits for it; Codex fetches its model list
  when it runs natively. Weak. Nothing is assumed of a user who disturbs a run:
  such steps count as faults.

## 4. Proofs

`CertificationProofs` assumes only the named constant assumptions (the model
sets are related as the code relates them, the bounds are naturals) and proves,
for every set of models, subjects, changes and faults:

- `TypeCorrect`;
- `AuthorityHolds`: `AuthorityInv` is invariant. `ClaimsBacked` and
  `ProbeWindowExclusive` speak of what is published and are not inductive: what
  threatens them is in flight. The invariant adds the synchronizer's plan and
  its idea of the current catalog, the snapshot a refresh would restore and the
  claim of requests not yet admitted (`AllBacked`); says that a model that may
  be probed is text-only in each of those copies and behind its barrier
  (`Quarantined`); that between a restart and the read-back the new bridge
  claims no more than the file it started from (`Settling`); and what the CLI's
  local variables mean at each step (`JobInv`);
- `ClaimsAlwaysBacked`, `ProbesAlwaysExclusive`, `BarriersLiftedOverText`: its
  consequences;
- `TransactionImplementsToolAuthority`: every step maps to a step of
  `ToolAuthority` or to a stutter. It needs `WindowOpen`: the window of the
  targets is open from the commit to the clear;
- `ReceiptsAlwaysEarned`, from a second invariant: `EvidenceInv` says that a
  run of probes began with the subject the transaction is bound to, that a
  passed run is in the history whenever that subject is live, and that it is
  there for good once the second look has seen it. The theorem says nothing of
  what was live between the two looks: see the observation below.

The proof of each invariant has one lemma per group of actions and under it one
step per action; frequent patterns are lemmas (`LocalStep`: the CLI moves and
nothing shared changes; `BridgeStep`: only the bridge or its requests change;
`FinishKeeps`, `AbortKeeps`).

`InstallationLockProofs` proves, for any number of processes, `LockTypeCorrect`
and `OnlyDeadLocksAreDropped`, from `DeadInv`: only a first attempt recovers,
identities are fresh, a file being written is empty and has one writer, and a
recovery that has probed holds the contents of a file whose process ended.

From `StrayInv` follow, again for any number of processes, retries and faults,
`SplitAlwaysTakesFour` (`SplitTakesFour`) and `OwnFileAlwaysAtPath`
(`OwnFileAtPath`). Its first half, `StrayDead`, says who is astray: a recovery on
its way out, whose inspected file names another process that has ended. Its
second, `Orderly`, holds while nobody is: the file of a process inside (from the
creation of its file to its unlink) is at the lock path and carries its pid or
none, so one process is inside; and every recovery that moved a file moved the
one it inspected. It is inductive because the pid in that file has ended, which
no process inside has. A split therefore names four processes, and
`ThreeCommandsExclude` (`MutualExclusion` for at most three) is a corollary.

`BridgeRequestsProofs` proves every safety property of the run
`bridge_requests` for any set of requests and any bounds: `RequestsTyped`,
`RequestsAdmittedFresh`, `ResponsesSettleOnce`, `ClientsNeverCut`,
`OutcomesTruthful` and `PausesAreOwed`. `RequestInv` has three parts:

- `GateInv`: identities are those of executables that have been in place
  (`Seen`); what a running inspection has read was in place since it began
  (`Recently`); an open gate stands on a supported executable (`Supported`).
  Without `Recently` the conclusion of an inspection could not be related to
  the executable the admitted request runs with;
- `Sound`, for each relay: that nothing is concluded before it settles, that a
  clean end was read from the upstream, that only an unchanged answer, or a
  client that was told, is cut, and that a paused upstream is owed a drain;
- `NotYet`: before its handler relays, a request has an untouched relay.

One lemma per stage of the gate and per event of a relay shows what it keeps
(`Decides`: only these steps settle; `Steady`: a settled relay is unchanged).

`FullRemovalProofs` proves, for any number of versions, providers and faults,
`RemovalTyped` and `CredentialsAlwaysListed`. `CredentialsListed` alone is not
inductive: a restored registry overwrites another one, a failed activation
writes back what setup found, a credential command shrinks the list. The
invariant `ListedInv` adds that a purge that still believes its inventory finds
no registry in a quarantine, so that it overwrites none (`KnownQuarantine`);
what is left in the Keychain at each step of the purge, and that no new
registry appears until the quarantined one is restored or deleted
(`PurgeSteps`); and what the rollback of setup and the credential commands rely
on (`OtherSteps`). `Position` adds that setup has a release to install. Most
actions leave registry, quarantine and Keychain alone and follow from
`EndKeeps`, `GotoKeeps` and `AbortKeeps`; the others have a lemma each.

`WholeDistributionProofs` proves `AllOrNothing` (`DistributionAllOrNothing`).
While a command runs the tool is in pieces, so the invariant `CliInv` says which:
in setup, each control file is the one that was found until it is written and
again once its write is undone, and the copied version is one that was not
there (`SetupSteps`); in a removal, the pieces staged so far are gone from
their places, all of them before the comparison, and the service package goes
before the staged tool is deleted (`RemovalSteps`). It says nothing of a state
that is `torn`. Of the unwinding it needs only that an end without "incomplete"
compares the tool with the one found.

It also proves the two action properties of the run, `RemovedAlwaysGone`
(`RemovedMeansGone`) and `AlwaysRetained` (`RetainedForRecovery`): what the step
that ends a command leaves behind. Both follow from `GoneInv`, which says for
each step of a removal which parts are gone and that nothing brings them back
(`Parts`), that no earlier quarantine lies behind a running removal, since an
inventory that believed otherwise is out of date (`Quarantines`), where each
piece of the tool is (`Stock`, `Pieces`), that what a failed removal must give
back is in place or in the quarantine it was moved to (`Returnable`), and that
no command has reported before its end (`Kinds`). TLC had checked it on the
instance of `full_removal`.

`FullRefreshProofs` proves, for any number of faults, updates of Codex and
other commands and whatever steps fail or die, `RefreshTyped`, `AlwaysTruthful`
(`CheckpointTruthful`), `NeverStranded` (`NotStranded`), `AlwaysOneWorker`
(`OneWorker`), and `RecoveryImplemented`: every step is one of
`PendingRecovery` or a stutter. What the recorded phase says of the
configuration is not inductive: the phase is written after a sequence of stops,
starts and writes whose steps fail in several directions. `RefreshInv` says who
holds the lock (`LockInv`), that a scheduler that relies on the worker's absence
has unloaded it (`SchedulerInv`), what the phase says of configuration, receipt
and bridge while nobody writes them (`DiskInv`), where the worker can be in each
phase (`PhaseInv`), and, inside a sequence, what has been done of it and where
success and failure lead (`SequenceInv`). TLC had checked it under four faults.

`FunctionStreamProofs` proves, for any history, any server, any items, calls
and limits, `StreamTyped`, `CallsAlwaysCommitted`, `AlwaysToldOnce`,
`CallsAlwaysDistinct` and `CallsAlwaysAsAnnounced`. It assumes that the mark for
an absent field is no identifier, index or text (`StreamAssumption`). The
properties speak of what the client got; what threatens them is held back or in
the output of the chunk being read. `StreamInv` says, for an open stream
(`Waiting`), that nothing of a call has left the rewriter and that each held
piece is of a call that is still pending or is answered by a held completion,
which is recorded and apart from every other item; for a stream that has ended
(`Over`), that all of this was released in one chunk, so that a call is wholly
on one side of it; and that a closed stream delivers nothing more (`Closed`).

`ConfigOwnershipProofs` proves, for any number of edits, failures and deaths,
`OwnershipTyped`, `AlwaysMatched` (`ReceiptMatches`), `AlwaysRestored`
(`RollbackRestores`), `UntouchedAlwaysRestored`, `ForeignAlwaysConfirmed`, and
`SettingsImplemented`, the refinement of `UserSettings`. None of these is
inductive: what threatens them lies between the two commits of a command and in
the rollback it holds. `OwnershipInv` says which pairs of file and receipt exist
at all (`Sound`, `SoundReceipt`: the baseline is the recorded source with its
blocks untouched), that a pair fits outside commits (`DiskInv`), what the
planned pair makes of the user's part (`OperationInv`, `PairedInv`), and that
the rollbacks a command holds lead back to the pair it began with (`UndoInv`,
`StartInv`). The bridge writes without the lock; `SyncInv` says that it leaves
an untouched installation alone. Each operation of `ConfigPlans` has a lemma
about the pair it plans, each action one about the invariant.

Every safety invariant and action property of the passing runs and each of the
three refinements (`ToolAuthority`, `PendingRecovery`, `UserSettings`) is a
theorem; so is `MutualExclusion` for three commands. What stays with TLC is
liveness (`BarrierLifted`, `InterruptedRunsResume`, `EveryRequestSettles`),
which the prover cannot reason about under fairness, and the three violations.

## 5. Abstractions

- Reconciling the model selected in config.toml, progress messages and the
  filter that leaves text-only MLX models out of certification are left out.
- `kickstart -k` kills and starts the bridge in one step; a starting bridge
  reads catalog and store in one step. The synchronizer may run with Desktop
  closed or open (the code skips some runs), which allows more behaviours.
- Probes either pass or fail; the requests they make are one step.
- Provider discovery, LM Studio, MLX, launchd, Codex Desktop and the user are
  modelled from how the code uses them.
- A pid is never reused by another process.
- In the full refresh, the cache is a client version and whether it is newer
  than the baseline; the cleanup after a failed start of the bridge is one step;
  a failing rollback inside one write of the ownership receipt is left out;
  another lifecycle command (install, setup, removal, deactivation) changes
  the integration in one step, under the lock.
- A request: headers, codecs and the body's contents are a choice between going
  on and an error. The identity of an executable is its number: a replacement
  never has the identity of an earlier one. Time is abstracted to timers that
  may fire whenever they are armed.
- The stream: what makes one frame malformed in itself is one choice
  (`Refusal`); argument texts are empty, a piece or complete; limits on bytes are
  left out except for the number of calls and searches.
- The configuration: a comparison and the rename behind it are one step; a
  program that writes in the few system calls between them is left out. TOML is the set of settings,
  blocks and markers that the operations look at. Backups are the newest one.
- Setup and removal: the lock is an atomic holder; `launchctl bootout` returns
  after the bridge has flushed (`src/cli.mjs:2788`); an empty registry file
  counts as none; the last removal of the empty application directory, after
  the lock is released, is left out; a plain uninstall is run by the matching
  version of the tool.

## 6. Observations

What the models showed beside the findings; none contradicts a document.

- A configuration changed for the probes and changed back before the second
  look (`src/cli.mjs:1405-1421`) is the earlier subject again: a receipt for it
  is recorded from probes that ran on another one. `docs/ARCHITECTURE.md:775-778`
  promises the two looks, not what was live between them, and `ReceiptsEarned`
  claims no more.
- A death during setup between launcher, pointer and receipt, during the
  staging of a removal, or a digest that cannot be read right after a version
  was copied (`src/distribution-installer.mjs:671`) leaves a state that
  every later setup and purge refuses (`torn` in `FullRemoval`).
- A quarantine left by an incomplete removal blocks the next one until the user
  resolves it. A write by the bridge between the purge's inventory and the stop
  of the bridge makes the purge fail; the tool is retained and a second attempt
  with the bridge stopped succeeds.
- The idle timer keeps running while back-pressure has paused the upstream: a
  client that is slow for long enough ends in `UPSTREAM_IDLE_TIMEOUT`, although
  the upstream had bytes to give.
- A request whose client left before the relay began reports no usage.
- A message item that completes while a call is pending is always refused. A
  call announced without an output index may be completed under any free one.
  An `error` event is no terminal for the transformer, so a failed event may
  follow it.
- The bridge's cached credentials outlive a rotation by up to the cache's
  lifetime: `resolve.clear` has no caller.

## 7. Plan

In this order; each with its MC module, runs, mutants and, where named, proofs.

1. `UsageStore`: bridge and companion processes over one directory, its lock
   with stale recovery, initialization by competing first writers, queue
   limit, generation and reset. Abstract counter specification: an
   observation counts once or the store is unavailable.
2. `OperationLane` and `IntegrationToggle`: the companion's queue and toggle
   against `companion-control.mjs`.
3. `MlxRuntime`: model store operation lock, server shutdown.
4. The stream state of `mlx-chat.mjs`.

## 8. Not modelled

- Inference (`runtime/mlx/kolibri.py`), TOML and JSON rendering, header
  policies, compaction and review rewriting, hashing of subjects: sequential
  data transformations that unit tests cover well and that have no behaviour
  across steps.
- The macOS companion, apart from the preview it confirms, its protocol and
  views; the updater and the release scripts.
- Provider discovery beyond its answer or its failure; the doctors; paths.
- Project configuration files, the bridge's own configuration file and the
  native-only setup: single atomic writes of one process.
- The credential resolver's cache (a bound in time, see above) and the usage
  store's own protocol (planned).
