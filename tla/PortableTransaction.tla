------------------------ MODULE PortableTransaction ------------------------
(***************************************************************************)
(* The journaled transactions of portable_transaction.rs over one          *)
(* environment: adoption of an observed asset (adopt), also of one the     *)
(* manifest holds already (repair), a manifest mutation by a pack command  *)
(* (manifest), the repair of a generated lock (lock), and the update of an *)
(* adopted asset, with a receipt in the machine-local state.json (update)  *)
(* or without one (explicit).  One attempt recovers what an earlier one    *)
(* left behind, checks that its plan is still fresh and commits it.        *)
(*                                                                         *)
(* The attempt holds the environment lock (and the state lock), so there   *)
(* is one process at a time; an editor that knows nothing of the locks may *)
(* write a control file, or the harness target a receipt describes,        *)
(* between two calls.                                                      *)
(***************************************************************************)
EXTENDS Naturals, Sequences, GuardedFile

CONSTANTS
    Torn,        \* the text of a file whose first write a crash cut short
    Kinds,       \* the kinds of transaction explored
    MaxEdits,    \* bound on the edits of the uncooperative editor
    MaxCrashes   \* bound on the crashes

Control == {"manifest", "lock", "state"}
Objects == {"portable", "native"}
Text    == {"old", "new", "foreign", Torn}

Prepared          == 1
ObjectsInstalled  == 2
ManifestCommitted == 3
LockCommitted     == 4
StateCommitted    == 5
Verified          == 6
Complete          == 7
Phases            == Prepared .. Complete

ASSUME TransactionAssumption ==
    /\ None \notin Text /\ None \notin Phases
    /\ Torn \notin {"old", "new", "foreign"} /\ Torn \notin Phases
    /\ Kinds \subseteq {"adopt", "repair", "manifest", "lock", "update", "explicit"}
    /\ MaxEdits \in Nat
    /\ MaxCrashes \in Nat

VARIABLES
    kind,        \* JournalOperation of the one plan that is carried out
    exchange,    \* atomic_exchange_supported(): Linux and macOS
    had,         \* objects installed before the first attempt
    referenced,  \* objects some asset of the prior manifest references
    control,     \* manifest, lock and state.json: live, staging, backup file
    aside,       \* the second staging file of the lock, and its backup
    journal,     \* the journal: live, pending and backup file
    bound,       \* what the journal binds: prior lock, preexisting objects
    staged,      \* staging directory of each object: "none", "partial", "full"
    installed,   \* objects of the plan present in the environment
    target,      \* the harness target still is the reviewed one
    pc,          \* what the attempt does next
    phase,       \* PortableJournal::phase in memory
    todo,        \* files and objects the cleanup under way still removes
    busy,        \* a guarded replacement is under way
    theirs,      \* history: control files whose foreign bytes must survive
    early,       \* history: the target was edited before the lock was committed
    edits,       \* edits made so far
    crashes      \* crashes so far

given   == <<kind, exchange, had, referenced>>
disk    == <<control, aside, journal, staged, installed>>
history == <<target, theirs, early, edits, crashes>>
vars    == <<kind, exchange, had, referenced, control, aside, journal, bound,
             staged, installed, target, pc, phase, todo, busy, theirs, early,
             edits, crashes>>

Adopts  == kind \in {"adopt", "repair"}
Updates == kind \in {"update", "explicit"}

Old(c) == CASE c = "manifest" -> IF kind \in {"repair", "lock"} THEN "new" ELSE "old"
            [] c = "lock"     -> bound.lock
            [] c = "state"    -> "old"

\* Where a removal of the cleanup strikes.
Removals == ({"live", "staging", "backup"} \X (Control \cup {"journal"}))
                \cup ({"object"} \X Objects)

CommitSteps   == {"check", "packObjects", "prepare", "stageManifest", "stageLock",
                  "stageState", "stageJournal", "firstJournal", "revalidateObjects",
                  "installObjects", "advanceObjects", "revalidateManifest",
                  "commitManifest", "advanceManifest", "commitLock", "advanceLock",
                  "commitState", "advanceState", "verify", "advanceVerified",
                  "advanceComplete", "finish"}
RecoverySteps == {"restoreJournal", "dropPending", "reconcileManifest", "reconcileLock",
                  "reconcileState", "direct", "recoverLock", "installRecovered",
                  "recoverVerify", "recoverState", "cleanForward", "cleanBack"}
Steps         == CommitSteps \cup RecoverySteps

TypeOK ==
    /\ kind \in Kinds /\ exchange \in BOOLEAN
    /\ had \subseteq Objects /\ referenced \subseteq Objects
    /\ control \in [Control -> Files(Text)]
    /\ aside \in [stg : Text \cup {None}, bak : Text \cup {None}]
    /\ journal \in Files(Phases \cup {Torn})
    /\ bound \in [lock : {None, "old", "new", "foreign"}, pre : SUBSET Objects]
    /\ staged \in [Objects -> {"none", "partial", "full"}]
    /\ installed \subseteq Objects
    /\ target \in BOOLEAN
    /\ pc \in Steps \cup {"idle", "stale", "blocked", "done"}
    /\ phase \in Phases
    /\ todo \in Seq(Removals)
    /\ busy \in BOOLEAN
    /\ theirs \subseteq Control
    /\ early \in BOOLEAN
    /\ edits \in 0 .. MaxEdits
    /\ crashes \in 0 .. MaxCrashes

\* Which generated locks the plans of each kind start from.
PriorLocks == CASE kind \in {"adopt", "lock"} -> {None, "old"}
                [] kind = "repair"            -> {None, "old", "new"}
                [] OTHER                      -> {"old"}

Init ==
    /\ kind \in Kinds /\ exchange \in BOOLEAN
    /\ had \in SUBSET Objects
    /\ referenced \in IF kind = "adopt" THEN SUBSET Objects
                      ELSE IF kind = "repair" THEN {Objects} ELSE {{}}
    /\ bound \in [lock : PriorLocks, pre : {{}}]
    /\ control = [c \in Control |-> Settled(Old(c))]
    /\ aside = [stg |-> None, bak |-> None]
    /\ journal = Settled(None)
    /\ staged = [o \in Objects |-> "none"]
    /\ installed = had
    /\ target = TRUE
    /\ pc = "idle" /\ phase = Prepared /\ todo = <<>> /\ busy = FALSE
    /\ theirs = {} /\ early = FALSE
    /\ edits = 0 /\ crashes = 0

-----------------------------------------------------------------------------
Go(label) == pc' = label /\ busy' = FALSE

Decide(label) ==
    Go(label) /\ UNCHANGED <<given, disk, bound, phase, todo, history>>

Blocked == Decide("blocked")
Stale   == Decide("stale")

WriteControl(c, f) ==
    /\ control' = [control EXCEPT ![c] = f]
    /\ UNCHANGED <<given, aside, journal, bound, staged, installed, phase, todo, history>>

WriteJournal(f) ==
    /\ journal' = f
    /\ UNCHANGED <<given, control, aside, bound, staged, installed, todo, history>>

WriteObjects(s, i) ==
    /\ staged' = s /\ installed' = i
    /\ UNCHANGED <<given, control, aside, journal, bound, phase, todo, history>>

\* One call of a guarded replacement has left f behind: the last one or not.
InstallStep(f, new, label, next) ==
    /\ pc' = IF f = Settled(new) THEN next ELSE label
    /\ busy' = (f # Settled(new))

\* install_staged_text_guarded of one control file by its new text.
ReplaceControl(c, label, next) ==
    IF busy \/ Installable(control[c], Old(c), "new")
    THEN LET f == Replaced(control[c], "new", exchange)
         IN  WriteControl(c, f) /\ InstallStep(f, "new", label, next)
    ELSE Blocked

\* The objects are taken in the order portable, native.
FirstOf(S) == IF "portable" \in S THEN "portable" ELSE "native"

-----------------------------------------------------------------------------
(***************************************************************************)
(* The start of an attempt.  classify_portable_journal_controls: a pending *)
(* journal without a backup is an orphan, whatever it holds.               *)
(***************************************************************************)
\* Mutant: no phase may be skipped, as only updates with a receipt never do.
Advances_ByOne(old, next) == old \in Phases /\ next \in Phases /\ next = old + 1

Advances(old, next) == old \in Phases /\ next \in Phases /\ next >= old

JournalControl ==
    IF journal.bak = None
    THEN IF journal.dst = None
         THEN IF journal.stg = None THEN "absent" ELSE "orphan"
         ELSE IF journal.dst = Torn THEN "invalid"
         ELSE IF journal.stg = None THEN "live" ELSE "liveOrphan"
    ELSE CASE journal.dst = None /\ (journal.stg = None \/ Advances(journal.bak, journal.stg)) ->
                  "restore"
           [] journal.stg = None /\ Advances(journal.bak, journal.dst) -> "keep"
           [] OTHER -> "invalid"

Selected == IF JournalControl = "restore" THEN journal.bak ELSE journal.dst

Verdict(c) == Classify(control[c], Old(c), "new", FALSE)
Seen(c)    == Effective(control[c], Verdict(c))

\* Mutant: the journal's phase decides alone, which lags behind the manifest.
RollsBack_ByPhase(m, p) == p < ManifestCommitted

\* recover_with_store_inner: discard_uncommitted, from the manifest m and phase p.
RollsBack(m, p) ==
    CASE kind = "lock"   -> FALSE
      [] kind = "repair" -> p = Prepared
      [] OTHER           -> m = "old"

\* portable_recovery_direction and validate_update_recovery_control.
Recoverable ==
    /\ \A c \in {"manifest", "lock"} :
          IF kind = "lock" /\ c = "manifest" THEN control[c].dst = "new"
                                            ELSE Verdict(c) # "unknown"
    /\ kind = "update" =>
          /\ Verdict("state") # "unknown"
          /\ RollsBack(Seen("manifest"), Selected) => Seen("state") = "old"

Attempt ==
    /\ pc \in {"idle", "stale", "blocked"}
    /\ CASE JournalControl = "invalid" -> Blocked
         [] JournalControl = "absent"  -> Decide("check")
         [] JournalControl = "orphan"  -> Decide("dropPending")
         [] OTHER ->
              IF Recoverable
              THEN /\ phase' = Selected
                   /\ Go("restoreJournal")
                   /\ UNCHANGED <<given, disk, bound, todo, history>>
              ELSE Blocked

(***************************************************************************)
(* Recovery: restore_interrupted_journal_control, then the guarded         *)
(* controls, then forward or back by the manifest that is there.           *)
(***************************************************************************)
RestoreJournal ==
    /\ pc = "restoreJournal"
    /\ CASE JournalControl = "restore" ->
                WriteJournal(Restored(journal)) /\ Go("dropPending") /\ UNCHANGED phase
         [] JournalControl = "liveOrphan" -> Decide("dropPending")
         [] JournalControl = "keep" ->
                WriteJournal(BackupGone(journal)) /\ Go("reconcileManifest") /\ UNCHANGED phase
         [] OTHER -> Decide("reconcileManifest")

DropPending ==
    /\ pc = "dropPending"
    /\ WriteJournal(StagingGone(journal)) /\ UNCHANGED phase
    /\ Go(IF journal.dst = None THEN "check" ELSE "reconcileManifest")

ReconcileControl(c, label, next) ==
    /\ pc = label
    /\ IF \/ c = "manifest" /\ kind = "lock"
          \/ c = "state" /\ kind # "update"
       THEN Decide(next)
       ELSE IF Verdict(c) = "unknown"
       THEN Blocked
       ELSE WriteControl(c, Reconciled(control[c], Verdict(c))) /\ Go(next)

\* The files a removal list names.
FilesOf(c) == << <<"staging", c>>, <<"backup", c>> >>
Journal    == << <<"live", "journal">>, <<"staging", "journal">> >>
Controls   == FilesOf("manifest") \o FilesOf("lock")
State      == IF kind = "update" THEN FilesOf("state") ELSE <<>>
ObjectRoots == << <<"object", "portable">>, <<"object", "native">> >>

\* The ends of the commits, cleanup_completed_update, cleanup_manifest_transaction.
CommitRemovals ==
    CASE Updates           -> State \o Controls \o Journal
      [] kind = "manifest" -> Controls \o Journal
      [] OTHER             -> << <<"live", "journal">> >>

ForwardRemovals ==
    IF Updates
    THEN CommitRemovals
    ELSE Journal \o (IF kind = "lock" THEN <<>> ELSE << <<"staging", "manifest">> >>)
                 \o FilesOf("lock")
                 \o (IF kind = "lock" THEN <<>> ELSE << <<"backup", "manifest">> >>)

\* cleanup_abandoned_adoption, cleanup_manifest_transaction, cleanup_update_state_staging.
BackRemovals ==
    IF kind = "manifest" THEN Controls \o Journal
    ELSE ObjectRoots \o Controls \o State \o Journal

Cleaning(label, removals) ==
    /\ pc' = label /\ todo' = removals /\ busy' = FALSE
    /\ UNCHANGED <<given, disk, bound, phase, history>>

\* validate_recovered_update_binding: the text the receipt would be rebased to.
Bound ==
    kind = "update" =>
        \/ control["state"].dst = "new"
        \/ control["state"].dst = "old" /\ control["state"].stg = "new"

Direct ==
    /\ pc = "direct"
    /\ IF RollsBack(control["manifest"].dst, phase) THEN Cleaning("cleanBack", BackRemovals)
       ELSE IF control["manifest"].dst = "new" /\ Bound THEN Decide("recoverLock")
       ELSE Blocked

(***************************************************************************)
(* complete_recovered_lock: the lock is derived again and installed        *)
(* through a staging file of its own, .kitrove/recovery-lock.pending.      *)
(***************************************************************************)
RecoveryLock == [dst |-> control["lock"].dst, stg |-> aside.stg, bak |-> aside.bak]

WriteRecoveryLock(f) ==
    /\ control' = [control EXCEPT !["lock"].dst = f.dst]
    /\ aside' = [stg |-> f.stg, bak |-> f.bak]
    /\ UNCHANGED <<given, journal, bound, staged, installed, phase, todo, history>>

RecoverLock ==
    /\ pc = "recoverLock"
    /\ IF control["lock"].dst = "new" THEN Decide("recoverVerify")
       ELSE IF control["lock"].dst = bound.lock /\ StageAccepts(RecoveryLock, "new")
       THEN WriteRecoveryLock(Staged(RecoveryLock, "new")) /\ Go("installRecovered")
       ELSE Blocked

InstallRecovered ==
    /\ pc = "installRecovered"
    /\ IF busy \/ Installable(RecoveryLock, bound.lock, "new")
       THEN LET f == Replaced(RecoveryLock, "new", exchange)
            IN  WriteRecoveryLock(f) /\ InstallStep(f, "new", "installRecovered", "recoverVerify")
       ELSE Blocked

\* verify_committed, verify_lock_committed.
Committed ==
    /\ control["manifest"].dst = "new" /\ control["lock"].dst = "new"
    /\ kind = "lock" \/ installed = Objects

RecoverVerify ==
    /\ pc = "recoverVerify"
    /\ IF Committed THEN Decide("recoverState") ELSE Blocked

\* Mutant: recovery rebases the receipt without a look at its target.
RecoverState_Unconditional ==
    /\ pc = "recoverState"
    /\ IF kind = "update" /\ (busy \/ control["state"].dst = "old")
       THEN ReplaceControl("state", "recoverState", "recoverState")
       ELSE Cleaning("cleanForward", ForwardRemovals)

\* recovered_target_is_current decides whether the receipt is rebased.
RecoverState ==
    /\ pc = "recoverState"
    /\ IF kind = "update" /\ (busy \/ (control["state"].dst = "old" /\ target))
       THEN ReplaceControl("state", "recoverState", "recoverState")
       ELSE IF kind = "update" /\ control["state"].dst \notin {"old", "new"} THEN Blocked
       ELSE Cleaning("cleanForward", ForwardRemovals)

(***************************************************************************)
(* Removals, one file or one object each.  An object goes only when it was *)
(* not there before and the manifest that is authoritative does not        *)
(* reference it; of an update only the staging goes.                       *)
(***************************************************************************)
FileGone(f, which) ==
    CASE which = "live"    -> [f EXCEPT !.dst = None]
      [] which = "staging" -> StagingGone(f)
      [] which = "backup"  -> BackupGone(f)

\* Mutant: what the transaction found installed is not remembered.
RemovesObject_Careless(o) == ~ Updates

RemovesObject(o) == ~ Updates /\ o \notin bound.pre /\ o \notin referenced

ClearsStaging(o) == Updates \/ o \in bound.pre \/ o \notin referenced

RemoveOne ==
    LET which == Head(todo)[1]
        what  == Head(todo)[2]
    IN  /\ IF which = "object"
           THEN /\ staged' = IF ClearsStaging(what) THEN [staged EXCEPT ![what] = "none"]
                                                    ELSE staged
                /\ installed' = IF RemovesObject(what) THEN installed \ {what} ELSE installed
                /\ UNCHANGED <<control, journal>>
           ELSE IF what = "journal"
           THEN journal' = FileGone(journal, which) /\ UNCHANGED <<control, staged, installed>>
           ELSE /\ control' = [control EXCEPT ![what] = FileGone(@, which)]
                /\ UNCHANGED <<journal, staged, installed>>
        /\ todo' = Tail(todo)
        /\ UNCHANGED <<given, aside, bound, pc, phase, busy, history>>

\* A discarded plan is checked again, a completed one is through.
Clean(label, next) ==
    /\ pc = label
    /\ IF todo = <<>> THEN Decide(next) ELSE RemoveOne
-----------------------------------------------------------------------------
(***************************************************************************)
(* The commit.  Freshness of the plan, per kind; an adoption replaces      *)
(* whatever generated lock it finds and remembers it.                      *)
(***************************************************************************)
Fresh ==
    /\ control["manifest"].dst = Old("manifest")
    /\ Adopts \/ control["lock"].dst = bound.lock
    /\ kind = "update" => control["state"].dst = "old" /\ target

\* portable_preexisting, native_preexisting.
Preexisting == installed

Check ==
    /\ pc = "check"
    /\ IF kind = "lock" /\ control["manifest"].dst = "new" /\ control["lock"].dst = "new"
       THEN Decide("done")
       ELSE IF ~ Fresh THEN Stale
       ELSE   /\ bound' = [lock |-> control["lock"].dst, pre |-> Preexisting]
              /\ theirs' = IF Adopts THEN theirs \ {"lock"} ELSE theirs
              /\ Go(IF kind = "manifest" THEN "packObjects"
                    ELSE IF kind = "lock" THEN "stageLock" ELSE "prepare")
              /\ UNCHANGED <<given, disk, phase, todo, target, early, edits, crashes>>

\* prepare_pack_rollback_objects: before there is a journal, and for good.
PackObjects ==
    /\ pc = "packObjects"
    /\ IF installed = Objects
       THEN Decide("stageManifest")
       ELSE LET o == FirstOf(Objects \ installed)
            IN  /\ IF staged[o] = "full"
                   THEN WriteObjects([staged EXCEPT ![o] = "none"], installed \cup {o})
                   ELSE WriteObjects([staged EXCEPT ![o] = "full"], installed)
                /\ Go("packObjects")

\* prepare_portable, prepare_native: cleared when preexisting, else reset and staged.
Ready(o) == staged[o] = IF o \in bound.pre THEN "none" ELSE "full"

Prepare ==
    /\ pc = "prepare"
    /\ LET missing == {o \in Objects : ~ Ready(o)}
       IN  IF missing = {}
           THEN Decide("stageManifest")
           ELSE LET o == FirstOf(missing)
                IN  /\ WriteObjects([staged EXCEPT ![o] =
                                        IF o \in bound.pre THEN "none" ELSE "full"], installed)
                    /\ Go("prepare")

\* reset_incomplete_staged_text and stage_text: any other staging file gives way.
StageControl(c, label, next) ==
    /\ pc = label
    /\ IF c = "state" /\ kind # "update"
       THEN Decide(next)
       ELSE WriteControl(c, Staged(control[c], "new")) /\ Go(next)

(***************************************************************************)
(* write_journal, update_phase: a phase need not follow the one before.    *)
(***************************************************************************)
StageJournal ==
    /\ pc = "stageJournal"
    /\ IF StageAccepts(journal, Prepared)
       THEN WriteJournal(Staged(journal, Prepared)) /\ UNCHANGED phase /\ Go("firstJournal")
       ELSE Blocked

FirstJournal ==
    /\ pc = "firstJournal"
    /\ IF busy \/ Installable(journal, None, Prepared)
       THEN LET f == Replaced(journal, Prepared, exchange)
            IN  /\ WriteJournal(f) /\ phase' = Prepared
                /\ InstallStep(f, Prepared, "firstJournal",
                               CASE kind = "manifest" -> "commitManifest"
                                 [] kind = "lock"     -> "commitLock"
                                 [] OTHER             -> "revalidateObjects")
       ELSE Blocked

AdvanceTo(aim, label, next) ==
    /\ pc = label
    /\ LET Write(f) ==
               /\ WriteJournal(f)
               /\ phase' = IF f = Settled(aim) THEN aim ELSE phase
       IN  IF ~ busy /\ journal.stg = None
           THEN Write(Staged(journal, aim)) /\ Go(label)
           ELSE IF busy \/ Installable(journal, phase, aim)
           THEN LET f == Replaced(journal, aim, exchange)
                IN  Write(f) /\ InstallStep(f, aim, label, next)
           ELSE Blocked

\* revalidate_update_preconditions; an adoption does not look again.
Revalidate(label, next) ==
    /\ pc = label
    /\ IF Updates /\ ~ Fresh THEN Stale ELSE Decide(next)

\* Mutant: the native object is installed when the portable one is through.
InstallObjects_PortableOnly ==
    /\ pc = "installObjects"
    /\ IF "portable" \in installed
       THEN Decide("advanceObjects")
       ELSE /\ WriteObjects([staged EXCEPT !["portable"] = "none"], installed \cup {"portable"})
            /\ Go("installObjects")

\* ObjectPlanRef::install: an object that is there already is left alone.
InstallObjects ==
    /\ pc = "installObjects"
    /\ IF installed = Objects
       THEN Decide("advanceObjects")
       ELSE LET o == FirstOf(Objects \ installed)
            IN  IF staged[o] = "full"
                THEN /\ WriteObjects([staged EXCEPT ![o] = "none"], installed \cup {o})
                     /\ Go("installObjects")
                ELSE Blocked

CommitControl(c, label, next) ==
    pc = label /\ ReplaceControl(c, label, next)

\* The receipt advances only while its target is the reviewed one.
CommitState ==
    /\ pc = "commitState"
    /\ IF kind = "update" /\ (target \/ busy)
       THEN ReplaceControl("state", "commitState", "advanceState")
       ELSE Decide("verify")

Verify ==
    /\ pc = "verify"
    /\ IF Committed /\ (phase = StateCommitted => control["state"].dst = "new")
       THEN Decide("advanceVerified") ELSE Blocked

Finish == pc = "finish" /\ Cleaning("cleanForward", CommitRemovals)

-----------------------------------------------------------------------------
Step ==
    \/ Attempt
    \/ RestoreJournal
    \/ DropPending
    \/ ReconcileControl("manifest", "reconcileManifest", "reconcileLock")
    \/ ReconcileControl("lock", "reconcileLock", "reconcileState")
    \/ ReconcileControl("state", "reconcileState", "direct")
    \/ Direct
    \/ RecoverLock
    \/ InstallRecovered
    \/ RecoverVerify
    \/ RecoverState
    \/ Clean("cleanBack", "check")
    \/ Clean("cleanForward", IF Updates \/ control["manifest"].dst = "new" THEN "done" ELSE "check")
    \/ Check
    \/ PackObjects
    \/ Prepare
    \/ StageControl("manifest", "stageManifest", "stageLock")
    \/ StageControl("lock", "stageLock", "stageState")
    \/ StageControl("state", "stageState", "stageJournal")
    \/ StageJournal
    \/ FirstJournal
    \/ Revalidate("revalidateObjects", "installObjects")
    \/ InstallObjects
    \/ AdvanceTo(ObjectsInstalled, "advanceObjects", "revalidateManifest")
    \/ Revalidate("revalidateManifest", "commitManifest")
    \/ CommitControl("manifest", "commitManifest", "advanceManifest")
    \/ AdvanceTo(ManifestCommitted, "advanceManifest", "commitLock")
    \/ CommitControl("lock", "commitLock", "advanceLock")
    \/ AdvanceTo(LockCommitted, "advanceLock", "commitState")
    \/ CommitState
    \/ AdvanceTo(StateCommitted, "advanceState", "verify")
    \/ Verify
    \/ AdvanceTo(Verified, "advanceVerified", "advanceComplete")
    \/ AdvanceTo(Complete, "advanceComplete", "finish")
    \/ Finish

\* The process dies with its memory; the next attempt starts from the disk.
Dies ==
    /\ crashes < MaxCrashes
    /\ crashes' = crashes + 1
    /\ pc' = "idle" /\ busy' = FALSE /\ phase' = Prepared /\ todo' = <<>>
    /\ UNCHANGED <<given, bound, target, theirs, early, edits>>

Crash == pc \in Steps /\ Dies /\ UNCHANGED disk

\* The crash falls inside the first write of a staging directory or file.
TearObject ==
    /\ pc = "prepare"
    /\ \E o \in Objects \ bound.pre :
         staged[o] # "full" /\ staged' = [staged EXCEPT ![o] = "partial"]
    /\ Dies /\ UNCHANGED <<control, aside, journal, installed>>

TearControl(c, label) ==
    /\ pc = label /\ control[c].stg = None
    /\ c = "state" => kind = "update"
    /\ control' = [control EXCEPT ![c] = Staged(control[c], Torn)]
    /\ Dies /\ UNCHANGED <<aside, journal, staged, installed>>

TearAside ==
    /\ pc = "recoverLock" /\ control["lock"].dst # "new" /\ aside.stg = None
    /\ aside' = [aside EXCEPT !.stg = Torn]
    /\ Dies /\ UNCHANGED <<control, journal, staged, installed>>

TearJournal ==
    /\ pc \in {"stageJournal", "advanceObjects", "advanceManifest", "advanceLock",
               "advanceState", "advanceVerified", "advanceComplete"}
    /\ journal.stg = None /\ ~ busy
    /\ journal' = Staged(journal, Torn)
    /\ Dies /\ UNCHANGED <<control, aside, staged, installed>>

\* An uncooperative process writes a control file or the target of the receipt.
Edits ==
    /\ edits < MaxEdits /\ pc # "done" /\ ~ busy
    /\ edits' = edits + 1
    /\ UNCHANGED <<given, aside, journal, bound, staged, installed, pc, phase, todo, busy,
                   crashes>>

\* Bytes that an adoption took for the prior lock are its own to replace.
Edit(c) ==
    /\ c = "state" => kind = "update"
    /\ control[c].dst # "foreign"
    /\ control' = [control EXCEPT ![c].dst = "foreign"]
    /\ theirs' = IF Old(c) = "foreign" THEN theirs ELSE theirs \cup {c}
    /\ Edits /\ UNCHANGED <<target, early>>

EditTarget ==
    /\ kind = "update" /\ target
    /\ target' = FALSE
    /\ early' = (control["lock"].dst # "new" /\ "lock" \notin theirs)
    /\ Edits /\ UNCHANGED <<control, theirs>>

Finished == pc = "done" /\ UNCHANGED vars

Next ==
    \/ Step
    \/ Crash
    \/ TearObject
    \/ TearControl("manifest", "stageManifest")
    \/ TearControl("lock", "stageLock")
    \/ TearControl("state", "stageState")
    \/ TearAside
    \/ TearJournal
    \/ \E c \in Control : Edit(c)
    \/ EditTarget
    \/ Finished

Spec == Init /\ [][Next]_vars

FairSpec == Spec /\ WF_vars(Step)
-----------------------------------------------------------------------------
\* What a reader that knows the backups selects.
Read(c) ==
    IF control[c].dst # None THEN control[c].dst
    ELSE IF control[c].bak # None THEN control[c].bak
    ELSE IF c = "lock" THEN aside.bak ELSE None

(***************************************************************************)
(* Manifest, lock and receipt are committed in this order and stay         *)
(* committed: a lock is never ahead of its manifest (ADR 0011), a receipt  *)
(* never ahead of the lock, through every crash and recovery.              *)
(***************************************************************************)
Level == LET n(c) == Read(c) = "new"
         IN  CASE n("state") /\ n("lock") /\ n("manifest")     -> 3
               [] ~ n("state") /\ n("lock") /\ n("manifest")   -> 2
               [] ~ n("state") /\ ~ n("lock") /\ n("manifest") -> 1
               [] ~ (n("state") \/ n("lock") \/ n("manifest")) -> 0
               [] OTHER -> 9  \* out of order

Authority == INSTANCE OrderedAuthority
    WITH level <- IF edits = 0 THEN Level ELSE 4, Last <- 3
CommitsInOrder == Authority!Spec

(***************************************************************************)
(* A target that was edited before the lock was committed never gets the   *)
(* new receipt, from the commit or from any recovery (ADR 0023).           *)
(***************************************************************************)
NoFalseReceipt == early => Read("state") # "new"

(***************************************************************************)
(* What a manifest selects is there: the manifest of an adoption or an     *)
(* update is never authoritative without the objects it references,        *)
(* whichever of its objects a rollback of an earlier attempt removed, and  *)
(* a lock that is not derived from the manifest is visible only while a    *)
(* journal tells other commands to recover first.  The journal, the files  *)
(* and what the process remembers of them stay well typed.                 *)
(***************************************************************************)
Coherent ==
    /\ TypeOK
    /\ Read("manifest") = "new" /\ kind \notin {"repair", "lock"} => installed = Objects
    /\ /\ theirs = {} /\ kind \in {"manifest", "update", "explicit"}
       /\ Read("manifest") # Read("lock")
       => Held(journal) \cap Phases # {}

(***************************************************************************)
(* What is not the transaction's own is not lost: foreign bytes in         *)
(* manifest, lock or state.json survive commit, recovery and rollback, and *)
(* recovery never deletes a preexisting or manifest-referenced object (ADR *)
(* 0023), however often it is interrupted and the plan is tried again.     *)
(***************************************************************************)
ForeignKept == \A c \in theirs : "foreign" \in Held(control[c]) \cup {aside.stg, aside.bak}
ObjectsKept == (had \cup referenced) \cap installed \subseteq installed'
NothingLost == []ForeignKept /\ [][ObjectsKept]_vars

(***************************************************************************)
(* Attempts that follow finitely many crashes carry the plan out, unless   *)
(* one crash left a state that classify or stage_text refuses ever after.  *)
(* The attempt after a crash in the last removals of a forward recovery    *)
(* finds its own plan carried out, and reports it as stale.                *)
(***************************************************************************)
CarriedOut ==
    \/ pc = "done"
    \/ /\ pc = "stale" /\ JournalControl = "absent"
       /\ control["manifest"].dst = "new" /\ control["lock"].dst = "new"
       /\ kind = "update" => control["state"].dst = "new"

\* recovery-lock.pending was cut short, and nothing resets it.
RecoveryLockTorn == aside.stg = Torn /\ control["lock"].dst # "new"

\* The live lock is parked as recovery-lock's backup, which classify does not read.
RecoveryLockParked == control["lock"].dst = None /\ aside.bak # None

JournalLeft == JournalControl \notin {"absent", "orphan"}

\* A rollback removed a staging file, its journal is still there: old text, no staging.
RollbackCut ==
    /\ JournalLeft
    /\ \E c \in {"manifest", "lock"} \cup (IF kind = "update" THEN {"state"} ELSE {}) :
         Old(c) # "new" /\ control[c] = Settled(Old(c))

\* The derived lock is installed and the transaction's own staging file holds it too.
LockDuplicated ==
    /\ JournalLeft
    /\ bound.lock # "new"
    /\ control["lock"] = [dst |-> "new", stg |-> "new", bak |-> None]

Stuck == RecoveryLockTorn \/ RecoveryLockParked \/ RollbackCut \/ LockDuplicated

Converges == <>(CarriedOut \/ edits > 0) \/ <>[]Stuck
=============================================================================
