# KitRove: a TLA+ development of its transactions and its merge

This directory holds TLA+ models, TLC configurations and TLAPS proofs for
KitRove (`crates/` of this repository). It concentrates on the part of the
program that is hardest to test: the journals, guarded file replacements and
recoveries through which a machine adopts and updates portable assets, applies
batches of files to harness directories, and publishes a reviewed merge to a
remote, while processes crash, editors ignore the locks and other machines
publish; and on the three-way merge by which the collections of several machines
meet.

All paths below are relative to `src/crates/kitrove-core/src/` unless they say
otherwise.

## 1. Inventory

| Part | State it keeps | Operations | Interacts with | What makes it correct |
|---|---|---|---|---|
| Guarded control files (`object_mutation.rs`, `guarded_control.rs`, `guarded_journal.rs`) | a live file, a staging file, a backup `<staging>.previous` | `stage_text`, `install_staged_text_guarded`, `exchange`, `move_noreplace`, `restore_guarded_backup`, `classify`, `inspect`, `reconcile` | used by every transaction | one exact old text is replaced by one exact new text or nothing happens; foreign bytes survive; every crash state is recognised |
| Sync base store (`sync_base_store.rs`) | immutable generation directories, one pointer file per remote | `inspect`, `commit`, `reconcile_interrupted_pointer` | called by the sync transaction, read by planning | the pointer selects complete generations only; it is never missing; it moves once |
| Portable sync commit (`sync_portable_transaction.rs`) | objects, `kitrove.toml`, `kitrove.lock.json`, nested five-phase journal | commit, recovery, cleanup | called by the sync transaction under the state lock | objects before manifest before lock; the journal claims no missing effect; recovery reaches a clean end |
| Sync transaction (`sync_transaction.rs`, `sync_journal.rs`) | eight-phase outer journal, staged payload, `sync-transaction.guard` | commit, recovery, cleanup | backend session, portable commit, base store | publication, local commit, base commit in this order; a proven publication is rolled forward |
| Plan and merge (`sync_plan.rs`, `merge.rs`) | none | `plan_sync`, `merge_manifests` over assets, packs, profiles | reads local authority, base, remote | nobody's reviewed change is dropped; no side is favoured; the result is valid and final |
| Packs (`pack_*.rs`, `collection_import.rs`) | records in the manifest | create, update, roll back, import, adopt from the head | reads the history of heads | what is published stays; only the selected closure changes; no pack inside itself |
| Backends (`filesystem_sync_backend.rs`, `git_sync_backend.rs`, SSH variants) | a chain of heads and the selected one | read session, apply session, `prepare_publication`, `publish`, `reconcile` | machines through the remote | conditional, append-only publication; a lost answer is resolved by chain membership |
| Sync command (`../../kitrove-cli/src/sync.rs`) | none | `build_plan`, apply, recover | all of the above | a journal is recovered before a new plan is made |
| Portable transaction (`portable_transaction.rs`, `local_state_authority.rs`) | its own seven-phase journal, objects, manifest, lock, the receipts in `state.json` | adoption, repeated adoption, pack mutation, lock repair, update with and without receipt; recovery in both directions; cleanup | excluded by the sync guard and vice versa | manifest, lock, receipt in this order; no object that was there or is referenced is removed; no receipt for an edited target |
| Apply batches (`apply_batch*.rs`, `instruction_apply*.rs`, `native_extension_transaction.rs`, `receipt.rs`) | batch journal with a phase and a progress per participant, receipts in `state.json`, harness files | stage, quarantine, place, install the receipts, verify, clean up; roll forward, roll back | harness directories; the manifest it was planned from | a receipt describes what is on disk; a batch is applied or undone as one; displaced content can be restored until the batch is decided |
| Executable trust (`executable_trust.rs`, `executable_trust_transaction.rs`, `../../kitrove-cli/src/trust.rs`) | the decisions in `state.json`, a two-phase journal, a staging file per plan | plan, confirmed apply, recovery | shares `state.json` with receipts | a reported decision is in force; a stale plan changes nothing; an interrupted one goes forward or back |
| Quarantine cleanup (`quarantine_cleanup/`, `quarantine_name.rs`) | the removal quarantine of each root: names that state identities, a cleanup batch | removal, inspection, staging, validation, deletion | before every mutation under root locks | only what is identified is removed; no root is touched before all are in order; an interrupted pass is resumed |
| Installer (`crates/kitrove-installer`, `kitrove-state-lifecycle`) | installation history, upgrade journal, rollback kit | install, upgrade, resume, retire | operating system | an interrupted upgrade resumes or rolls back |
| Scan, adapters, document formats, model, risk | none | pure functions over parsed files | planning | round trips, stable identities |
| Platform, release and test crates, scripts, website | none that is shared | | | |

The behaviours that are hard: a crash between any two file-system calls;
recovery that must find its way from the disk alone; two recoveries nested in
each other; editors that ignore the locks; a remote that moves while a machine
is down; a push whose answer is lost; platforms on which the replacement of a
file is two renames instead of one exchange.

## 2. Modules

| Module | Models | Uses |
|---|---|---|
| `GuardedFile` | pure decisions over the three files of a control file: `Classify`, `Reconciled`, `JournalVerdict`, the single durable mutations | |
| `ConditionalRegister` | the abstract promise of a guarded replacement: one register that moves once | |
| `BasePointer` | `SyncBaseStore::commit`, `reconcile_interrupted_pointer` and the guarded replacement behind them, one action per file-system call, with an editor | `GuardedFile`; refines `ConditionalRegister` |
| `PortableCommit` | `sync_portable_transaction.rs`: commit and recovery with journal, manifest, lock and objects | `GuardedFile` |
| `SyncTransaction` | the protocol of several machines and one remote: plan, outer journal, publication, local and base commit, recovery | |
| `MCSyncTransaction` | the symmetry of `SyncTransaction` for TLC | `SyncTransaction` |
| `OrderedAuthority` | the abstract promise of a portable transaction: manifest, lock and receipt are committed in this order and no commit is taken back; the promise ends with a foreign write | |
| `PortableTransaction` | `portable_transaction.rs`: the six kinds of transaction with journal, manifest, lock, objects and receipt, their recovery in both directions | `GuardedFile`; refines `OrderedAuthority` |
| `AtomicBatch` | the abstract promise of a batch: before, under way, decided, after; or disturbed by others | |
| `ApplyBatch` | `apply_batch_transaction.rs`, `apply_batch_recovery.rs`, `apply_batch_journal.rs`: a batch of participants, its journal, both directions of recovery | `GuardedFile`; refines `AtomicBatch` |
| `UpgradeTransaction` | `crates/kitrove-installer/src/upgrade_transaction/`: replacement of an installed executable, recovery, retirement, on Unix and Windows | |
| `TrustTransaction` | `executable_trust.rs`, `executable_trust_transaction.rs` and the two commands: plan, freshness check, journal of two phases, recovery, cleanup | `GuardedFile` |
| `QuarantineCleanup` | `quarantine_cleanup/` and the removals of `object_mutation.rs` that fill the quarantine, over several roots, on Unix and Windows | |
| `SemanticMerge` | manifests and the pure functions on them: `plan_sync`, `merge_manifests`, validation | |
| `MergeTriples`, `MCMergeTriples` | `merge_manifests` on every triple of a few families of manifests, against a reference definition | `SemanticMerge` |
| `Collection`, `MCCollection` | several machines that adopt, update, edit packs, roll back, import and synchronize | `SemanticMerge` |
| `BasePointer_proofs`, `PortableCommit_proofs`, `SyncTransaction_proofs`, `PortableTransaction_proofs`, `ApplyBatch_proofs`, `TrustTransaction_proofs` | theorems | their component, `TLAPS` |
| `QuarantineUpgrade_proofs` | theorems about two components: the quarantine, and in its second half the upgrade | `QuarantineCleanup`, `UpgradeTransaction`, `TLAPS` |
| `Merge_proofs` | theorems about the merge, for every manifest and through every collection | `MergeTriples`, `Collection`, `TLAPS` |

The state machines sit at different grain sizes. `SyncTransaction` takes one
local commit and one base commit as one step each. `PortableCommit`,
`PortableTransaction` and `ApplyBatch` open a local commit into its file-system
calls, with a foreign edit only between two guarded replacements. `BasePointer`
opens one guarded replacement completely and lets the editor write between any
two of its calls. What the coarse models assume of a step is what the fine ones
check: `Converges` and `NeverRegresses` of `PortableCommit`, and
`RefinesRegister` of `BasePointer`. `Collection` takes a whole sync as one step,
the one `SyncTransaction` opens up; `SyncTransaction` has one component per asset
where `Collection` has the whole merge. `PortableTransaction` and `SyncTransaction`
exclude each other by the guard and the journals; `Adopt` is how each of
`SyncTransaction` and `ApplyBatch` sees the transactions of `PortableTransaction`.

### GuardedFile and BasePointer

A control file is a record `[dst, stg, bak]`; texts are opaque because the code
only compares them. `Classify` follows `guarded_control::classify`;
`JournalVerdict` is `guarded_journal::inspect` with the transition rule as its
parameter. `pc` of `BasePointer` names the next call: `reconcile`, `restore`,
`displaced` are `reconcile_interrupted_pointer`; `inspect`, `generation`,
`install`, `stage` are `finish_local_and_base` and `SyncBaseStore::commit`; the rest is
`install_staged_text_guarded_with_hook`, with the exchange branch (`swap`,
`swapped`, `undo`, `drop`) for Linux and macOS and the parking branch (`park`
... `clear`) for the others. The variable `exchange` is
`atomic_exchange_supported()`: it is chosen initially and never changes, so one
run explores both platforms. An attempt that fails or crashes goes `down`; the
next one starts with the reconciliation. The resumption from a backup
(`resume_guarded_text_install`) is no action here: the reconciliation in front
of the replacement never leaves a backup behind, which `NeverResumes` proves.
`Edit` is a process that ignores the locks; `theirs` remembers whose bytes must
survive (a text the editor itself overwrote is no longer owed).

`generation` is absent, `staged` in full at the path that the plan digest fixes,
`torn` there by a crash inside one of its writes, or `installed`; `TearGeneration`
and `TearPointer` are such crashes. Every attempt of the plan stages at the same
paths, accepts what is identical and refuses what differs, so that a torn staging is
the end (`Stuck`, section 5).

Two things are coarser than the code. A call that reads a file and removes it by
identity is one step, so an edit cannot fall inside `remove_regular_file_if_present`:
the code quarantines an open handle and compares identities there. And the objects
and records of a generation are staged in one step that a crash can cut short: a
prefix of complete ones is as good as none to the next attempt, which accepts each.

### PortableCommit

`pc` names the next call of the attempt, `phase`, `was` and `recovering` are its
local variables, everything under `disk` survives a crash. `Attempt` is the
decision of `finish_local_and_base`: a nested journal is recovered; without one
the commit is taken from its beginning unless the authority already matches.
`InstallStep` takes one file-system call of a guarded replacement at a time, for
the two control files and, with `JournalVerdict`, for the journal itself.
`busy` is true between the calls of one replacement; the editor writes only
while it is false. `TearObject`, `TearControl`, `TearJournal` are crashes inside
the write of a new staging file (enabled by `TearWrites`). `damaged` remembers
that one of the two crashes happened after which the code is stuck (section 5).

### SyncTransaction

Each machine has `local`, `base`, `guard`, `journal` and a process counter `pc`;
the remote is the sequence of heads up to the selected one. A head records its
snapshot and, as history, the local and base snapshots its plan was made from;
they stand for the publication identity, which is a digest of that plan.
`ReadLocal` and `ReadRemote` are two steps because `build_plan` reads them
without a common lock. `Begin` is the revalidation under the locks. `Recover`
goes through the three answers of a backend's `reconcile` (published, ready,
uncertain) and, for a transaction without publication, through the comparison of
the remote with the planned revision. `Advance` is `advance_to_at_least` and is
taken phase by phase, so that a crash can fall between any two. `Adopt` is any
portable transaction outside sync, refused while the guard is there. `backend`
is chosen initially from `Backends`: `Locked` separates the filesystem backend,
whose sessions exclude each other, from Git, where the push itself is the
arbiter and its answer may be lost (`AnswerLost`); without `Atomic` the
filesystem pointer is replaced in two renames (`Publish`, `Place`).

### PortableTransaction

`kind` is one of six kinds of transaction: `adopt` (an adoption: new objects, a new
manifest and lock), `repair` (an adoption of an asset the manifest holds already,
which brings back its objects and the lock), `manifest` (a pack mutation), `lock`
(repair of the lock alone), `update` (new objects of an adopted asset, and its
receipt rebased), `explicit` (an update without a receipt). It decides which of
manifest, lock and receipt have an old text, which objects are staged and whether
recovery may go back. `pc` names the next call of the attempt; the
journal has the three files of `GuardedFile`. `todo` holds the files and objects
that the cleanup under way still removes (memory, not journal); `bound` is what
the journal binds, the prior lock and the objects that were there before.
`RollsBack` is the direction of recovery, taken from the manifest that is there
and not from the phase, which lags behind. `aside` is the second staging file of
the lock, `.kitrove/recovery-lock.pending`, with its backup. `RemovesObject` is
the condition under which a rollback removes an object: not there before, not
referenced by the old manifest. `Check` and `Verify` look at the harness target
the receipt describes, which the editor may change (`edits`); `early` remembers
that it was changed before the lock was committed, from when on no receipt may
be written. `Tear*` are crashes inside a staging write. `Stuck` names the four states
that a crash can leave and no later attempt gets out of (section 5). `Level` maps the
state to the level of `OrderedAuthority`.

### ApplyBatch

Each of `N` participants has a disposition (`install`, `noop`, `update`,
`remove`), a target with destination, staging and backup, and a progress in the
journal. `Announce` is a journal transition (`transition_participant`,
`transition_phase`), written by `Persist` before and after the effect it
announces; `EffectOf` and `After` say which effect a phase of the commit, of the
roll-forward or of the rollback has next; `mode`, `cursor` and `aim` are the
memory of the process: what it does, with whom, and the journal it writes.
`Valid`, `Leads`, `PhaseSteps`, `ProgressStep` and `RollbackStep` are the rules
of the journal, evaluated on every transition as the code does. `Direction` is
the decision of recovery: by `state.json`, and by the phase when the batch
leaves `state.json` as it is (`same`). `RemoveResidue` is the cleanup. `torn`
remembers a crash in the first write of a file and `split` one inside the
replacement of `state.json`, after which the code is stuck; `moved` that the
manifest is no longer the one the journal is bound to. `Outcome` maps the state
to `AtomicBatch`.

### UpgradeTransaction

`shown` is the disk as the file system shows it, `durable` what of it a power loss leaves:
the places of the two executables (`layout`), the phase markers with their
pending names, and whether the operation directory is in the history. On Unix
the pair changes places in one exchange, on Windows in two moves with a gap.
`ValidHistory`, `RequireLayout`, `RequirePhaseOrder`, `RequireWrite`,
`RequireProbeWrite`, `RequireMove` and `RecoveryStep` are the closed grammar of
markers and layouts, which every boundary evaluates again (`Legal`): whatever is
outside is refused for ever, so the grammar must cover every state a crash can
leave. `Record`, `Create`, `PromoteMarker`, `Flush` write one marker; `MoveTo`,
`MoveFile`, `Flush` are one exchange or move. `Reopen` (Unix) and `Placement`
(Windows) decide from the disk what an attempt does; the first command is the
attempt that finds nothing recorded. `Probe` answers either way, every time.
`PowerLoss` keeps any part of what was not synchronized. `ChangeState` is a use
of the state roots between two commands, which the recovery refuses on purpose.

### TrustTransaction

A text of `state.json` is the decision about one object and everything else
(`rest`); a plan is a pair of texts, and its digest stands for both, so every
plan has a staging file of its own (`staging`). `Plan` reads `state.json` without
a lock; `Apply` takes the confirmed plan through `Inspect` ... `CleanJournal` (the
recovery of an earlier attempt) and `Refresh` (the freshness check) to
`StageState` ... `Advance` (the commit) and the cleanup. `Recover` is
`recover_executable_trust`, which no command calls. `Direction` takes the
direction of recovery from the text of `state.json`, not from the phase. `told` is
the decision last reported; `edited` remembers that others wrote `state.json` in a
commit or beside its journal.

### QuarantineCleanup

Every root has one removable file and one removable tree with a file in it;
`place` says whether a thing is live, under a tombstone's name, in the batch, an
evacuated leaf or gone. A name that states an identity is `tomb`; a `retained`
name (Windows) states none. `swapped` are the names that lead to something
foreign, `alias` the files with a second link, `full` those not yet truncated.
`pc` and `at` are the phase of the pass and the root it is at; `Following` is the
order of phases and roots. `Truncate`, `Move`, `Isolate`, `Remove` are the single
file-system calls. `MoveAside`, `Strip` and `PromoteTombstone` are a removal that
a mutation makes and a crash can cut short. `sound` remembers which roots were
found in order before something is changed.

### SemanticMerge, MergeTriples and Collection

A manifest is a record of assets, packs and profiles, each `None` where there is
none; a revision is the value it names, so what the code compares by hash the
model compares directly, a pack together with everything in it (`Revision`). An
asset has its kind, its portable content, a native variant per harness, and
`derived`: whether its fidelity evidence was observed by an adoption or derived by
a merge or an update, which is part of its identity. `Valid` is
`EnvironmentManifest::validate`, `Draft` and `AssetProblems` are `merge_assets`,
`MergePack` and `PackProblem` are `merge_packs`; `Merge` is `merge_manifests` with
its three outcomes: conflicts, a manifest, or an error because the manifest is not
valid. `Plan` is the table of `plan_sync` with and without a base and a head.

`MergeTriples` evaluates `Merge` (`MergeOnce`) on a `triple` of valid manifests of
one of the `Families` and keeps the `outcome`. Its reference is a table of parts (`Part`): a part is reconciled to the
side that changed it, and `Reason` lists when that must be left to the user.

`Collection` has a manifest per machine, its base as a position in the shared
history, and the edits: `Adopt`, `Update`, `CreatePack`, `UpdatePack`, `Rollback`
to an older head, `Import` and `AdoptPack` from the head. An edit writes only a
valid manifest (`Write`). `Graft` is the loop that copies the records of a closure;
`Replaceable` is what rollback accepts of a record. `Sync` publishes when the
merge differs from the head.

## 3. Runs

Every run completes its state space. The properties are those of the cfg.

| Run | Configuration | Properties | Shows |
|---|---|---|---|
| `pointer` | both platforms, 4 texts, torn writes, 3 edits, 3 crashes, fair | `ForeignKept`, `NeverMissing`, `PointerNeverDangles`, `RefinesRegister`, `Converges` | foreign bytes survive; with exchange the pointer is never missing; up to the first edit it is a conditional register; an end after every crash outside a staging write |
| `commit` | both platforms, 2 objects, torn writes, 2 edits, 3 crashes, fair | `Ordered`, `JournalHonest`, `NeverRegresses`, `Converges` | commit order, honest journal, an end after every crash but two |
| `sync_git` | Git and the filesystem with exchange, 2 machines, 2 assets, 2 contents, history 3, 3 adoptions, 1 crash, symmetry | `NoLostUpdate`, `CommitOrder`, `BaseIsAncestor` | the protocol against a conditional remote, unlocked or locked |
| `sync_finishes` | 2 machines, 1 asset, Git and the filesystem without exchange, history 2, 2 adoptions, 2 crashes, fair | `Finishes`, `EditsKept` | a durable publication is finished unless a parked pointer took it away; no sync takes an unpublished edit away, also when the remote looks empty |
| `portable_commit` | all six kinds, 1 edit, 2 crashes, torn writes, fair | `Coherent`, `NoFalseReceipt`, `CommitsInOrder`, `NothingLost`, `Converges` | manifest, lock and receipt in order, forward or back; a mixture has a journal; what others wrote or reference stays; an end after every crash but those that leave one of the four states of `Stuck` |
| `batch_commit` | 2 participants of every mixture of dispositions, 1 edit, 2 crashes, fair | `ForeignKept`, `StateAgrees`, `AllOrNothing`, `Converges` | targets and receipts change as one; displaced content and residue are always accounted for |
| `upgrade` | both platforms, 4 crashes or power losses, fair | `OutcomeIsDurable`, `IntentHonored`, `UpgradeConverges` | reported outcomes survive a power loss; every reachable state is recovered |
| `trust_commit` | both platforms, 2 decisions, 1 edit, 2 crashes, torn writes, fair | `OutcomeTrue`, `Converges` | a reported decision is in force; interrupted plans are resolved as reported and leave no journal |
| `quarantine` | both platforms, 2 roots, 2 foreign objects or links, 2 crashes, fair | `TypeOK`, `OnlyOwnedRemoved`, `AllRootsFirst`, `Converges` | only owned things are deleted or truncated; no root is touched before all are in order; every crash state is reclaimed |
| `merge_triples` | four families: one asset of every shape; two native variants; two packs and an asset; a profile | `MergeIsThreeWay`, `SidesAreEqual`, `OrderDoesNotMatter`, `MergedIsFinal` | the merge is the three-way merge of parts, favours no side and no order, and is final |
| `collection` | 2 machines, 3 identities, 3 kinds, 2 harnesses, 3 edits, history 6, symmetry | `TypeOK`, `PublishedStays`, `NoEditLost`, `GraftsAreSelective` | manifests stay valid; nothing published disappears; a sync overwrites only what it knew |

One more run, `commit_reread`, ends in a counterexample to `ForeignKept` of
`PortableCommit`, a disagreement between the code and ADR 0024 (`findings` in
`PROJECT.json` quotes it): recovery re-reads manifest or lock after classifying it
and exchanges an edit away.

Types are part of `CommitOrder`, `Coherent` and `OutcomeIsDurable`; those of all
components are proved (section 4).

### Bounds, and why they are enough

- Texts of `BasePointer`: prior, new and two foreign ones. The code compares a
  text with the prior and the new one only; two foreign texts let one editor
  text displace another. Three edits allow one before the check, one between
  check and mutation and one during the undo; three crashes allow a crash in the
  commit, in its recovery and in the recovery of that.
- Two objects of `PortableCommit`: one installed, one not. Initially any subset
  is present.
- Two machines and three heads: a publisher, a competitor, and a successor over
  both. Two assets let edits of two machines merge; two contents let them
  diverge. Machines, assets and contents are symmetric (`Symmetry`); the run with
  a liveness property does not use it. It has two crashes, of one machine twice
  (commit and recovery) or of both: one waiting to recover, the other in the way.
  Each of the three backends is in one of the two runs: with exchange, the filesystem
  behaves as Git whose sessions exclude each other and whose answers are not lost, and
  the waiting for a session is also part of the backend without exchange.
  `MaxHistory` is also a limit of the code
  (`max_backend_history`), and the run reaches it.
- `PortableTransaction`: one crash in the commit and one in its recovery, which
  is where the two directions and the cleanup can meet; one edit of a control
  file or of the harness target.
- `ApplyBatch`: two participants are the first and the last; every pair of
  dispositions is initial. Two crashes: one in the commit, one in its recovery.
- `UpgradeTransaction`: four crashes, one more than the moves of a complete
  restoration on Windows; the probe may answer differently after each.
- `TrustTransaction`: two decisions and an undecided start give every disposition
  (first, replace, no-op); one edit anywhere; one crash in the commit and one in its
  recovery. The residue of one plan can meet the confirmation of any other.
- `QuarantineCleanup`: two roots are what the order of phases needs, one to be
  refused and one to be spared; a file, and a tree with a file in it, are the two
  kinds of object and the two ways a file is deleted. Two interventions allow a
  swap and a link, or one in each root; two crashes allow one in a removal or a
  cleanup and one in the cleanup that follows.
- `MergeTriples`: the code decides each identity and each component on its own, so
  that one asset with two values per component meets every case of a choice, two
  harnesses every case of a variant; three identities are the least with a pack of
  a pack and a cycle that shares a member.
- `Collection`: three edits are one on each machine and one more after a sync, or
  a member added, removed and rolled back to; the machines start with nothing, or
  with two packs of one asset. The history is longer than the edits can make it.

Deadlock is checked in every run but those of `MergeTriples` and `Collection`,
which stop when the triple is merged, or the edits are used up and every machine's
plan is blocked. `Finished` of the single-process models is the stuttering of a
process that is through.

### Fairness

`WF(Step)` and `WF(Restart)` in `BasePointer`; `WF(Step)` in `PortableCommit`,
`PortableTransaction`, `ApplyBatch` and `QuarantineCleanup`, `WF(UpgradeStep)` in
`UpgradeTransaction`; `WF(Step)`, `WF(Apply)` and `WF` of planning in
`TrustTransaction`, where only a confirmed plan reaches the recovery: a running
process runs on, and a user who is told to recover runs the command again; crashes are
finitely many. `SyncTransaction` has `WF(Apply(m))` for the same reason and
`SF(Recover(m))`, since another machine's session may hold the filesystem lock
again and again between two tries of the same user. Nothing is assumed of edits, of `Adopt`, of the planning of a sync, of retirement, of foreign objects
and links or of crashes.

## 4. Proofs

Each is for every value of the constants, under the assumption of its module
only.

| Theorem | States | Inductive invariant |
|---|---|---|
| `BasePointer`: `TypeCorrect` | `Spec => []TypeOK` | `TypeOK` itself; `MutationsTyped`, `ReconciledTyped` cover the file operations |
| `ForeignBytesKept` | `Spec => []ForeignKept` | `KeptInv` |
| `PointerNeverMissing` | `Spec => []NeverMissing` | `PresentInv` |
| `PointerSelectsInstalled` | `Spec => []PointerNeverDangles` | `InstalledInv` |
| `NeverResumes` | `Spec => [](pc = "enter" => file.bak = None)` | `BackupInv` |
| `SuccessIsSettled` | `Spec => []DoneIsSettled` (no run) | `FlowInv` |
| `ImplementsRegister` | `Spec => RefinesRegister` | `FlowInv` |
| `PortableCommit`: `TypeCorrect` | `Spec => []TypeOK` | `TypeOK` |
| `OrderHolds`, `RecordsAreTrue`, `CommitIsFinal` | `Spec => []Ordered`, `[]JournalHonest`, `NeverRegresses` | `CommitInv` |
| `ApplyBatch`: `TypeCorrect` | `Spec => []TypeOK` | `BatchInv` |
| `ForeignBytesKept` | `Spec => []ForeignKept` | `ForeignInv` |
| `TargetsAgree` | `Spec => []StateAgrees` | `BatchInv /\ AgreeInv` |
| `BatchIsAtomic` | `Spec => AllOrNothing`, the refinement of `AtomicBatch` | `BatchInv /\ AgreeInv` |
| `TrustTransaction`: `TypeCorrect` | `Spec => []TypeOK` | `TrustInv` |
| `OutcomeHolds` | `Spec => []OutcomeTrue` | `TrustInv` |
| `SyncTransaction`: `SyncInvariant`, `NoUpdateLost`, `EditsStay` | `Spec => []SyncInv`, `[]NoLostUpdate`, `EditsKept` | `SyncInv` |
| `OrderedCommits`, `BaseStaysAncestor` | `Spec /\ Atomic => []CommitOrder`, `[]BaseIsAncestor` | `SyncInv`, `HistoryInv` |
| `PortableTransaction`: `TransactionInvariant` | `Spec => []TransactionInv` | `TransactionInv` |
| `TransactionCoherent`, `ReceiptsTrue` | `Spec => []Coherent`, `[]NoFalseReceipt` | `TransactionInv` |
| `NothingIsLost`, `Ordered` | `Spec => NothingLost`, `CommitsInOrder` | `TransactionInv` |
| `QuarantineCleanup`: `QuarantineTyped` | `Spec => []TypeOK` | `QuarantineInv` |
| `OwnedRemoved`, `RootsFirst` | `Spec => OnlyOwnedRemoved`, `AllRootsFirst` | `QuarantineInv` |
| `UpgradeTransaction`: `OutcomesSurvive` | `UpgradeSpec => []OutcomeIsDurable` | `UpgradeInv` |
| `IntentIsHonored` | `UpgradeSpec => IntentHonored` | `UpgradeInv` |
| `MergeTriples`: `MergesThreeWay`, `SidesEqual` | `TripleSpec => []MergeIsThreeWay`, `[]SidesAreEqual` | the outcome is `Merge` of the inputs (`TripleInv`) |
| `MergesOnce`, `AnyOrder` | `TripleSpec => []MergedIsFinal`, `[]OrderDoesNotMatter` | `TripleInv` |
| `Collection`: `CollectionTyped` | `Spec => []TypeOK` | `TypeOK` |
| `PublishedForGood` | `Spec => PublishedStays` | `TypeOK` |
| `EditsKept` | `Spec => NoEditLost` | `TypeOK` |
| `GraftsSelect` | `Spec => GraftsAreSelective` | `TypeOK` |

`ForeignKept` of `BasePointer` is not inductive: a step that removes the staging
file or the backup keeps foreign bytes only because the process has compared
that file before. `KeptInv` adds what each position of the process knows about
the staging file and the backup (`KnownStaging` and its companions); the editor
cannot invalidate it, since it writes the live file only. `PresentInv` adds that
with exchange there is never a backup, the process is never in the parking
branch and the staging file is there when it is exchanged. `InstalledInv`
generalises the property from the live file to all three files and to the
position from which the new text is staged. `FlowInv` ties all three files to
`pc` as long as nobody edited; from it every step maps to a step of
`ConditionalRegister` or to a stutter.

`CommitInv` of `PortableCommit` is `TypeOK` and, until the first edit,
`Undisturbed`: which of objects, manifest and lock are in place follows from
`pc` and from the furthest phase in any of the journal's three files, also when
a crash left the journal half advanced. `BatchInv` of `ApplyBatch` adds to
`TypeOK` where each position of the process can have come from (`Routed`),
without which its journal need not be a journal. `ForeignInv` says where foreign
bytes can be and that each mutation is preceded by its comparison. `TrustInv` of
`TrustTransaction` says what the process holds in memory at each position, that
the journal is there from its inspection to the end of the cleanup, which text
`state.json` has at each position as long as no one else wrote it, and that the
last report still holds.

`SyncInv` of `SyncTransaction` says of each machine what it knows of its plan before
there is a journal (`PlanInv`), that a journal is the one prepared from a ready plan
over a reviewed remote, in whatever phase and whoever recovers it (`Written`), and
what of local authority, base and guard each position implies (`JournalInv`).
`Reviewed` is the generalization of `NoLostUpdate` from the remote to every chain a
plan or a journal holds. `HistoryInv` adds that the revision a base or an advanced
journal names is a prefix of the remote's chain. It needs `Atomic`: where the pointer
is parked before it is placed, a crash between the two renames leaves a remote
without a pointer, and its chain starts again. `SyncTransaction_git` checks the two
properties over the backends with an atomic pointer only, for the same reason.

`TransactionInv` of `PortableTransaction` has what is durable, whatever the attempt is
about (`Durable`): only staging files are torn and nothing new is parked (`Untorn`);
foreign bytes are in the live file an editor wrote, or are the prior lock that an
adoption bound (`Edited`); a new manifest has its objects, and a journal knows those
that were there (`Found`); a file is new only when the one before it was committed
(`InOrder`); and without an editor manifest and lock are missing only in the middle
of a replacement and disagree only while the journal is there (`Pair`). `Position`
says what the position of the attempt adds, `Covered` where the journal is on disk,
`Replacing` what a replacement under way relies on, and `Removing` that a cleanup
never removes a live control file, nor an object on the way forward. Each action
falls under one of a few lemmas on what may be written (`Quiet`, `JournalWrite`,
`ObjectWrite`, `LiveWrite`). `Gentle` is the fact behind the two action properties:
a step writes at most one live file, and not one that is new.

`AgreeInv` of `ApplyBatch` is about the records that survive a crash, the live journal
and the one parked beside it: each is a record of the journal, and describes every
target and `state.json` that nobody else wrote; without one the batch has not begun or
is complete (`Recorded`); what lies beside a target has a journal
(`ResidueJournaled`); a replacement of `state.json` leaves a backup only while it runs
or after the crash that `split` remembers (`StateReplaced`); and the process works
from the record that is on disk toward the one that the rules allow next (`InStep`).
`StateAgrees` alone does not say which target is next, and is not inductive.
A phase of the commit goes through the participants upward and the rollback through
them downward, so that the proof needs the first or last one that has still to be
done: `LeastExists` gets it, for any number of participants, from the well-foundedness
of the naturals. The records that `Leads` allows are shown to be those that
`NextOf` announces, one lemma per phase, and each effect to fit the record before and
the record after it. For `BatchIsAtomic` every step is shown to leave `Outcome` as it
is or to take the one step that `AtomicBatch` allows there.

`UpgradeInv` of `UpgradeTransaction` relates what the file system shows to what a power
loss leaves: the disk is ahead and never behind, and while a restoration is recorded
neither the candidate nor its verdict is in the cache only (`Kept`); what is moved to
the history is settled on both (`History`); with one exchange the markers follow what
is synchronized (`Exchanged`); a marker under way is new and everything else is
durable (`Recording`); and the candidate moves in only where no restoration is recorded
or begun (`Placing`). `Positioned` and `Reported` say what follows at each place of
the process. The properties are about `durable` alone, and nothing in them excludes a
restoration that is only in the cache; hence the first of these. The module shares no
name with `QuarantineCleanup`, so that one module of proofs extends both.

`GraftsSelect` rests on `GraftChanges`, that a graft keeps what is not of its closure or
is the same in the head, and on `SameParts`, by which the checks of an import and of an
adoption from the head leave nothing else; `EditSelects` goes through the edits.

The proofs changed the models in one respect. The guards of some `CASE` expressions
(`NextOf`, `EffectOf`, `Direction` and `Undo` of `ApplyBatch`, `Direct`, `RecoverState` and `Check`
of `PortableTransaction`, `LastPhase` and `RecoveryStep` of `UpgradeTransaction`) overlapped; TLC
takes the first arm that holds, the language any of them. They are now `IF` in the
order of the code's early returns, or have guards that exclude each other.

`QuarantineInv` of `QuarantineCleanup` is `TypeOK` with where nested files can be
(`NestedInPlace`), that a foreign object under the name of one lies in the batch, in
its tree or beside it (`ForeignNested`), that what a removal has yet to remove is
there (`RemovalsThere`)
and that every root a phase has passed was found in order (`RootsSound`).

The theorems about the merge are lemmas about its operators first
(`Merge_proofs`): `PickSymmetric` for one component, then an asset, a pack
and a profile, give `MergeSymmetric`; `ChoiceKeepsEdits` says what a choice without
a problem keeps of each side. `AssetMerged`, `PackMerged` and `ManifestMerged`
carry it to whole manifests for the local side, and `MergeSymmetric` gives the same
for the remote side without a second proof (`ReadyMerge`). For `MergesThreeWay` the
problems of `merge_assets` and `merge_packs` are shown to be the reasons of the
reference, asset by asset and pack by pack, and the draft to have the reconciled
parts; `MergesOnce` and `AnyOrder` follow from the same characterization, applied to
the merge of a merge. `TypeOK` of `Collection`
is inductive: edits are validated before they are written and a merged manifest
before it is published; what has to be proved is that a merge without conflicts is
well formed, and that the head is a valid manifest, which `PublishedStays` needs to
tell an asset from a pack of the same name. The assumptions name `None` as no
asset, pack or version, and the tags of a conflict as no harness.

Only model-checked are the liveness properties (`Converges` of six runs,
`UpgradeConverges`, and `Finishes` of `SyncTransaction`), which are out of the prover's reach. Every
invariant and every action property of the passing runs is proved.

## 5. Limits of the model

Behaviours of the code that the liveness properties except, because the code
itself does not get out of them:

- A crash inside the first write of a staging file leaves a partial file or
  directory. The portable transactions reset it on some paths; the sync commit,
  a batch's staging, its pending journal and the pending journal of a trust
  decision never do (`damaged`, `torn`). The staging file of a trust
  decision, cut short, blocks that one plan and leaves no journal.
- `BasePointer`: the same holds of the staging directory of a generation and of the
  staging file of the pointer. Their paths are fixed by the plan digest, the recovery
  of the transaction stages the same plan, and what was cut short is a conflict to
  it, each time (`Stuck`), although
  `docs/adr/0018-semantic-sync-with-local-base.md:45` says of failures after the
  publication that they "must roll forward the exact staged local snapshot and base".
- `PortableCommit`: with exchange, a crash between the exchange of a control file
  and the removal of what it displaced; recovery stages over it and is refused for
  ever (`damaged`), although `docs/adr/0018-semantic-sync-with-local-base.md:66` says
  "Every journal phase recovers deterministically on Linux, macOS, and Windows."
- `PortableTransaction`: four states that a crash of the recovery leaves and every
  later attempt refuses (`Stuck`). Without any one of them TLC finds a counterexample
  to `Converges`.
  - `RecoveryLockTorn`: recovery derives the lock and stages it at
    `.kitrove/recovery-lock.pending`, a path it neither classifies nor resets. After a
    crash inside that write `stage_text` meets a conflict as long as the lock is the
    old one (`portable_transaction.rs:3508`).
  - `RecoveryLockParked`: on a parking platform, a crash between the two moves of that
    replacement. The lock is missing, and its backup is not the one `classify` reads.
  - `RollbackCut`: a rollback removes the staging files of manifest, lock and receipt
    before the journal (`portable_transaction.rs:3605`, `3621`). After a crash in
    between, the old text without staging or backup is no state that `classify` knows
    (`guarded_control.rs:96`). A file whose old and new text agree is not affected.
  - `LockDuplicated`: once the derived lock is installed, the transaction's own staging
    file still holds the same text. A crash before the journal is removed leaves new
    text in both, which `classify` accepts only with `accept_duplicate_new`, and
    recovery asks it without.

  `.kitrove/recovery-lock.pending` with a displaced old lock (a crash after the exchange
  of that replacement) is not among them: the lock is the new one, and nothing is
  staged there again for this plan. The recovery of a later transaction would be
  refused by it, which a model of one plan does not show. An update meets
  `RollbackCut` too, although
  `docs/adr/0023-exact-prior-explicit-update-adoption.md:96` says "Every journal phase
  recovers with the prior objects intact".
- `ApplyBatch`: a crash inside the replacement of `state.json` (`split`), which
  recovery reads before it is reconciled (`apply_batch_recovery.rs:55`); neither
  direction accepts what it finds, although `apply_batch_transaction.rs:107` says
  "Commits every participant and the final machine state as one recoverable batch." On a parking platform it can also leave `<staging>.previous` beside a
  `state.json` that was written again.
- `TrustTransaction`: the cleanup of an abandoned plan removes the staging file
  first. After a crash before the journal is gone the old text, a `prepared`
  journal and no staging file are a conflict for ever, which also keeps the other
  transactions on local state away (`damaged`). An edit of `state.json` between the
  freshness check and the journal is refused by the replacement and leaves a
  journal that recovery cannot match (`edited`). On a parking platform a crash
  between the two moves leaves no `state.json`, without which no command of the
  program can plan, and recovery is reached through a confirmed plan only.
- `QuarantineCleanup`: what is foreign is never decided about and blocks the
  mutations of its root, on purpose. On Windows a crash between the move of a
  removal and its promotion, or a link made during a move, leaves a retained name,
  which has the same effect (`Obstructed`).
- An adoption between the crash of a batch and its recovery changes the manifest
  revision the journal is bound to; the forward recovery then refuses
  (`moved`). `FOREIGN_TO_ADOPTION` names the journals of sync only.
- With the two-step pointer of a platform without exchange, a crash can leave the
  remote without a pointer, which every machine reads as an empty remote; `EditsKept`
  shows that no local edit is lost to it. A publication can go with it. Two crashes
  suffice: m1 publishes and crashes in `RemotePublished`; m2 receives that head, adopts,
  publishes on top and crashes between the two renames. The recovery of m1 finds its
  head in no history, may publish it again in an earlier phase only
  (`sync_transaction.rs:413`), and refuses for ever (`PublicationGone`), although ADR
  0018 has it roll forward. m2 is refused as well unless it planned for an empty
  remote; its publication is not durable, so that `Finishes` does not speak of it.
- A change of a state root between an interrupted upgrade and its recovery is
  refused on purpose (ADR 0040).
- `SyncTransaction`: a transaction without a publication (the merge is the head)
  that is interrupted in `RemotePublished` or later requires on recovery that the
  remote still is the planned revision (`sync_transaction.rs:455`). Once another
  machine has published, it is refused for ever, although
  `docs/adr/0018-semantic-sync-with-local-base.md:66` says "Every journal phase
  recovers deterministically". `Finishes` is about transactions with a publication.
- `Collection`: when one machine makes pack p a member of q and another q a member
  of p, the united memberships are a cycle. `merge_manifests` then returns an error
  (`merge.rs:713`) that repeats with every plan and names neither pack, although
  `docs/adr/0007-packs-are-first-class-assets.md:49` counts cycles among the typed
  conflicts. No manifest with a cycle is written or published (`TypeOK`).

Abstractions:

- `Classify` reads the three files in one step. Between the reads of the code an
  editor can write; what follows is then decided on a mixture, which `BasePointer`
  does not show.
- The staged payload of the outer journal is taken to be there whenever the
  journal is: `stage_outer` writes it before, `cleanup_outer` removes it after.
- After a crash between the guard and the journal (or between the removal of the
  journal and of the guard) the guard remains. `reconcile_orphan_outer_guard` would
  remove it, but is reached from `recover_with_stores` only, which the command does
  not enter without a journal; the guard then goes with the next sync that
  completes. A machine whose plan is blocked by a conflict stays guarded against
  adoptions until then. The model has this behaviour; no property states it.
- `SyncTransaction` has one component per asset; `SemanticMerge` has them all.
- `SemanticMerge`: required bindings (no asset that the merge supports has one in
  practice), provenance records, the component budget, the depth limit of packs,
  missing objects and the risk assessment of objects are left out. All machines run
  one build, so that a derivation has the same result everywhere; two builds with
  other capability tables would derive differently, which is not modelled.
- `Collection`: a sync is one step. Packs are authored ones; executable skills are
  refused by adoption and left out, an extension is the executable asset. The merge
  supports skills and Pi extensions only: once another kind is in any of the three
  manifests, every merge is blocked with `component_unsupported`, in the model as in
  the code. Two machines that adopt the same observation conflict when one of them
  was synchronized in between, because the evidence is part of the identity that
  `docs/adr/0022-pure-conservative-semantic-merge.md:21` compares. The guard of
  rollback against records outside the current closure holds by `PublishedStays`
  as long as the history is the shared one.
- The removal of a directory through a tombstone (`remove_exact`) is one step;
  cleanup budgets, approval digests and the cleanup inventory are left out of
  `PortableTransaction`, the single-target instruction and extension transactions
  out of `ApplyBatch`.
- `UpgradeTransaction` starts when `prepare` has staged the candidate and
  retained the rollback kit. Executables are not edited by others; the content of a
  marker is written and completed as a prefix, so that a half-written one is
  `pending`. A rename between two directories is lost or kept as a whole.
- `TrustTransaction`: one executable object; manifest and object are unchanged.
  `state.json` is edited between two guarded replacements only.
- `QuarantineCleanup`: the last look at an object and the call that acts on it are
  one step; on Windows a removal drops the handle of a directory, renames it by its
  name and refuses a foreign one afterwards (`object_mutation.rs:4248`), where the
  model refuses it before the move. The inspection of all roots, which writes
  nothing, is one step too. Budgets suffice; permissions, ACLs, mount boundaries, the
  replacement of the batch directory itself and power loss are left out. The inspection of an interrupted
  batch does not look at the names in it, so that a bad child is found by the
  validation only, after tombstones of other roots have been staged.
- Not modelled at all: the parts marked so in the inventory and in `PROJECT.json`.
  Scan, classification, adapters, document formats, model and risk are pure
  functions over parsed text with tests of their own; the platform crates wrap
  operating-system calls; release tooling and the test kit are no part of the
  running program.

## 6. Plan

1. First installation and its rollback hand-off
   (`first_install_*.rs`, `unix_install.rs`, `windows_install.rs`), on the disk of
   `UpgradeTransaction`.
2. Git and filesystem publication (`git_sync_backend.rs`,
   `filesystem_sync_backend.rs`) at the grain of one call, refined to `Publish` of
   `SyncTransaction`; the single-target instruction and extension transactions.
3. Proofs: every safety property of the runs is proved. What the plan adds are the
   theorems of the modules above, and the refinement of `Publish` by the calls of
   `git_sync_backend.rs`.

## 7. Running

    tlc -config BasePointer.cfg BasePointer
    tlc -config PortableCommit_commit.cfg PortableCommit
    tlc -config SyncTransaction_git.cfg MCSyncTransaction
    tlc -config PortableTransaction_commit.cfg PortableTransaction
    tlc -config ApplyBatch_commit.cfg ApplyBatch
    tlc -config UpgradeTransaction.cfg UpgradeTransaction
    tlc -config TrustTransaction.cfg TrustTransaction
    tlc -config QuarantineCleanup.cfg QuarantineCleanup
    tlc -config MergeTriples.cfg MCMergeTriples
    tlc -config Collection.cfg MCCollection
    tlapm BasePointer_proofs.tla          (and the other *_proofs modules)

`PROJECT.json` lists the runs with their expected outcome, maps every definition
to the source lines it models, and names for each property a mutation of the
model (an operator with a `\* Mutant:` comment next to the definition it
replaces) under which TLC finds that property violated.
