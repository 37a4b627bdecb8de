--------------------------- MODULE PortableCommit ---------------------------
(***************************************************************************)
(* The recoverable commit of one merged snapshot into the local portable   *)
(* environment (sync_portable_transaction.rs): immutable objects, then     *)
(* kitrove.toml (the manifest), then kitrove.lock.json (the lock derived   *)
(* from it), driven by a five-phase journal.  An attempt that starts after *)
(* a crash first asks the journal; with one it recovers, without one it    *)
(* takes the commit from its beginning unless everything is already there. *)
(*                                                                         *)
(* The attempt holds the environment's state lock, so there is one process *)
(* at a time; an editor that knows nothing of that lock may write the      *)
(* manifest and the lock file between two calls of the attempt.  The steps *)
(* inside a guarded replacement are exposed to crashes here; BasePointer   *)
(* exposes the same steps to such an editor.                               *)
(***************************************************************************)
EXTENDS Naturals, GuardedFile

CONSTANTS
    Objects,     \* the objects the merged snapshot references
    Torn,        \* the text of a file whose first write a crash cut short
    TearWrites,  \* a crash may fall inside the writes of a staging step
    MaxEdits,    \* bound on the edits of the uncooperative editor
    MaxCrashes   \* bound on the crashes

Control == {"manifest", "lock"}
Text    == {"old", "new", "foreign", Torn}

Prepared          == 1
ObjectsInstalled  == 2
ManifestCommitted == 3
LockCommitted     == 4
Complete          == 5
Phases            == Prepared .. Complete

ASSUME CommitAssumption ==
    /\ None \notin Text /\ None \notin Phases
    /\ Torn \notin {"old", "new", "foreign"} /\ Torn \notin Phases
    /\ TearWrites \in BOOLEAN
    /\ MaxEdits \in Nat
    /\ MaxCrashes \in Nat

VARIABLES
    exchange,    \* atomic_exchange_supported(): Linux and macOS
    control,     \* the manifest and the lock: live, staging and backup file
    journal,     \* the journal: live, pending and backup file
    staged,      \* staging directory of each object: "none", "partial", "full"
    installed,   \* merged objects present in the environment
    pc,          \* what the attempt does next
    recovering,  \* the attempt recovers a journal
    phase,       \* SyncPortableJournal::phase in memory
    was,         \* classify_authority of manifest and lock, taken once
    busy,        \* a guarded replacement is under way
    theirs,      \* history: control files whose foreign bytes must survive
    damaged,     \* history: a crash left bytes recovery does not recognise
    edits,       \* edits made so far
    crashes      \* crashes so far

disk   == <<control, journal, staged, installed>>
memory == <<recovering, phase, was>>
ghosts == <<exchange, theirs, damaged, edits, crashes>>
vars   == <<exchange, control, journal, staged, installed, pc, recovering, phase,
            was, busy, theirs, damaged, edits, crashes>>

Steps == {"reconcileJournal", "dropPending", "reconcileManifest", "reconcileLock",
          "stageObjects", "stageManifest", "stageLock", "stageJournal", "firstJournal",
          "installObjects", "advanceObjects", "commitManifest", "advanceManifest",
          "commitLock", "advanceLock", "verify", "advanceComplete", "cleanObjects",
          "cleanManifest", "cleanLock", "cleanPending", "cleanJournal"}

TypeOK ==
    /\ exchange \in BOOLEAN
    /\ control \in [Control -> Files(Text)]
    /\ journal \in Files(Phases \cup {Torn})
    /\ staged \in [Objects -> {"none", "partial", "full"}]
    /\ installed \subseteq Objects
    /\ pc \in Steps \cup {"idle", "refused", "done"}
    /\ recovering \in BOOLEAN
    /\ phase \in Phases
    /\ was \in [Control -> {"old", "new"}]
    /\ busy \in BOOLEAN
    /\ theirs \subseteq Control
    /\ damaged \in BOOLEAN
    /\ edits \in 0 .. MaxEdits
    /\ crashes \in 0 .. MaxCrashes

Unread == [c \in Control |-> "old"]

\* Objects are shared between snapshots: any of them may already be present.
Init ==
    /\ exchange \in BOOLEAN
    /\ control = [c \in Control |-> Settled("old")]
    /\ journal = Settled(None)
    /\ staged = [o \in Objects |-> "none"]
    /\ installed \in SUBSET Objects
    /\ pc = "idle"
    /\ recovering = FALSE /\ phase = Prepared /\ was = Unread /\ busy = FALSE
    /\ theirs = {} /\ damaged = FALSE /\ edits = 0 /\ crashes = 0

-----------------------------------------------------------------------------
Go(label) == pc' = label /\ busy' = FALSE

Decide(label) == Go(label) /\ UNCHANGED <<disk, memory, ghosts>>
Refuse        == Decide("refused")

WriteControl(c, f) ==
    /\ control' = [control EXCEPT ![c] = f]
    /\ UNCHANGED <<journal, staged, installed, memory, ghosts>>

WriteJournal(f) ==
    /\ journal' = f
    /\ UNCHANGED <<control, staged, installed, ghosts>>

\* One call of a guarded replacement has left f behind: the last one or not.
InstallStep(f, new, label, next) ==
    /\ pc' = IF f = Settled(new) THEN next ELSE label
    /\ busy' = (f # Settled(new))

-----------------------------------------------------------------------------
(***************************************************************************)
(* The start of an attempt                                                 *)
(***************************************************************************)
Verdict(c) == Classify(control[c], "old", "new", TRUE)
Seen(c)    == Effective(control[c], Verdict(c))

\* The only transitions a journal makes, from each phase to the next one.
Advances == {<<p, p + 1>> : p \in Phases}

AuthorityMatches ==
    /\ \A c \in Control : control[c].dst = "new"
    /\ Objects \subseteq installed

\* recover_sync_portable_snapshot_under_lock up to its first mutation.
BeginRecovery(verdict) ==
    IF \/ \E c \in Control : Verdict(c) = "unknown"
       \/ Seen("manifest") = "old" /\ Seen("lock") = "new"
    THEN Refuse
    ELSE /\ recovering' = TRUE
         /\ phase' = JournalSeen(journal, verdict)
         /\ was' = [c \in Control |-> Seen(c)]
         /\ Go("reconcileJournal")
         /\ UNCHANGED <<disk, ghosts>>

Attempt ==
    /\ pc \in {"idle", "refused"}
    /\ LET verdict == JournalVerdict(journal, Phases, Advances)
       IN  CASE verdict = "invalid"  -> Refuse
             [] verdict = "absent"   ->
                  IF AuthorityMatches THEN Decide("done")
                  ELSE IF \A c \in Control : control[c].dst = "old"
                       THEN Decide("stageObjects")
                       ELSE Refuse
             [] OTHER                -> BeginRecovery(verdict)

(***************************************************************************)
(* Recovery: guarded_journal::reconcile, guarded_control::reconcile        *)
(***************************************************************************)
ReconcileJournal ==
    /\ pc = "reconcileJournal"
    /\ LET verdict == JournalVerdict(journal, Phases, Advances)
           Write(f) == WriteJournal(f) /\ UNCHANGED memory
       IN  IF busy \/ verdict \in {"installFirst", "installNext"}
           THEN IF busy \/ Installable(journal, journal.dst, phase)
                THEN LET f == Replaced(journal, phase, exchange)
                     IN  Write(f) /\ InstallStep(f, phase, "reconcileJournal", "reconcileManifest")
                ELSE Refuse
           ELSE CASE verdict = "restore" ->
                         Write(Restored(journal)) /\ Go("dropPending")
                  [] verdict = "dropBackup" ->
                         Write(BackupGone(journal)) /\ Go("reconcileManifest")
                  [] verdict = "dropStaging" ->
                         Write(StagingGone(journal)) /\ Go("reconcileManifest")
                  [] OTHER -> Decide("reconcileManifest")

DropPending ==
    /\ pc = "dropPending"
    /\ WriteJournal(StagingGone(journal)) /\ UNCHANGED memory
    /\ Go("reconcileManifest")

ReconcileControl(c, label, next) ==
    /\ pc = label
    /\ IF Verdict(c) = "unknown"
       THEN Refuse
       ELSE WriteControl(c, Reconciled(control[c], Verdict(c))) /\ Go(next)

(***************************************************************************)
(* Staging.  An object left half written is a conflict for every later     *)
(* attempt; the objects are independent and are taken in any order.        *)
(***************************************************************************)
StageObjects ==
    /\ pc = "stageObjects"
    /\ \/ \E o \in Objects :
            /\ staged[o] = "none"
            /\ staged' = [staged EXCEPT ![o] = "full"]
            /\ UNCHANGED <<control, journal, installed, pc, memory, busy, ghosts>>
       \/ /\ \E o \in Objects : staged[o] = "partial"
          /\ Refuse
       \/ /\ \A o \in Objects : staged[o] = "full"
          /\ Decide("stageManifest")

StageControl(c, label, next) ==
    /\ pc = label
    /\ IF StageAccepts(control[c], "new")
       THEN WriteControl(c, Staged(control[c], "new")) /\ Go(next)
       ELSE Refuse

(***************************************************************************)
(* install_initial_journal, advance_journal, advance_to_at_least           *)
(***************************************************************************)
StageJournal ==
    /\ pc = "stageJournal"
    /\ IF StageAccepts(journal, Prepared)
       THEN WriteJournal(Staged(journal, Prepared)) /\ UNCHANGED memory /\ Go("firstJournal")
       ELSE Refuse

FirstJournal ==
    /\ pc = "firstJournal"
    /\ IF busy \/ Installable(journal, None, Prepared)
       THEN LET f == Replaced(journal, Prepared, exchange)
            IN  /\ WriteJournal(f) /\ InstallStep(f, Prepared, "firstJournal", "installObjects")
                /\ phase' = Prepared /\ UNCHANGED <<recovering, was>>
       ELSE Refuse

AdvanceTo(target, label, next) ==
    /\ pc = label
    /\ LET Write(f) ==
               /\ WriteJournal(f)
               /\ phase' = IF f = Settled(phase + 1) THEN phase + 1 ELSE phase
               /\ UNCHANGED <<recovering, was>>
       IN  IF phase >= target
           THEN Decide(next)
           ELSE IF ~ busy /\ journal.stg = None
           THEN Write(Staged(journal, phase + 1)) /\ Go(label)
           ELSE IF busy \/ Installable(journal, phase, phase + 1)
           THEN LET f == Replaced(journal, phase + 1, exchange)
                IN  Write(f) /\ InstallStep(f, phase + 1, label, label)
           ELSE Refuse

(***************************************************************************)
(* The durable effects the phases stand for                                *)
(***************************************************************************)
\* Mutant: the phase ends when some object, not every object, is through.
InstallObjects_Some ==
    /\ pc = "installObjects"
    /\ \/ \E o \in Objects :
            /\ staged[o] # "none"
            /\ staged' = [staged EXCEPT ![o] = "none"]
            /\ installed' = installed \cup {o}
            /\ UNCHANGED <<control, journal, pc, memory, busy, ghosts>>
       \/ /\ \E o \in Objects : staged[o] = "none"
          /\ Decide("advanceObjects")

InstallObjects ==
    /\ pc = "installObjects"
    /\ \/ \E o \in Objects :
            /\ staged[o] # "none"
            /\ staged' = [staged EXCEPT ![o] = "none"]
            /\ installed' = installed \cup {o}
            /\ UNCHANGED <<control, journal, pc, memory, busy, ghosts>>
       \/ /\ \A o \in Objects : staged[o] = "none"
          /\ Decide("advanceObjects")

\* install_staged_text_guarded of one control file.
ReplaceControl(c, old, label, next) ==
    IF busy \/ Installable(control[c], old, "new")
    THEN LET f == Replaced(control[c], "new", exchange)
         IN  WriteControl(c, f) /\ InstallStep(f, "new", label, next)
    ELSE Refuse

\* Mutant: recovery takes a staged control file for a committed one.
CommitControl_Assumes(c, label, next) ==
    /\ pc = label
    /\ IF recovering \/ was[c] = "new"
       THEN WriteControl(c, StagingGone(control[c])) /\ Go(next)
       ELSE ReplaceControl(c, "old", label, next)

(***************************************************************************)
(* The commit expects the planned old text; recovery expects whatever      *)
(* required_text reads at this moment.                                     *)
(***************************************************************************)
CommitControl(c, label, next) ==
    /\ pc = label
    /\ IF was[c] = "new"
       THEN WriteControl(c, StagingGone(control[c])) /\ Go(next)
       ELSE ReplaceControl(c, IF recovering THEN control[c].dst ELSE "old", label, next)

Verify ==
    /\ pc = "verify"
    /\ IF AuthorityMatches THEN Decide("advanceComplete") ELSE Refuse

CleanObjects ==
    /\ pc = "cleanObjects"
    /\ staged' = [o \in Objects |-> "none"]
    /\ Go("cleanManifest")
    /\ UNCHANGED <<control, journal, installed, memory, ghosts>>

CleanControl(c, label, next) ==
    /\ pc = label
    /\ WriteControl(c, StagingGone(control[c])) /\ Go(next)

CleanPending ==
    /\ pc = "cleanPending"
    /\ WriteJournal(StagingGone(journal)) /\ UNCHANGED memory
    /\ Go("cleanJournal")

CleanJournal ==
    /\ pc = "cleanJournal"
    /\ WriteJournal([journal EXCEPT !.dst = None]) /\ UNCHANGED memory
    /\ Go("done")

-----------------------------------------------------------------------------
Step ==
    \/ Attempt
    \/ ReconcileJournal
    \/ DropPending
    \/ ReconcileControl("manifest", "reconcileManifest", "reconcileLock")
    \/ ReconcileControl("lock", "reconcileLock", "stageObjects")
    \/ StageObjects
    \/ StageControl("manifest", "stageManifest", "stageLock")
    \/ StageControl("lock", "stageLock",
                    IF recovering THEN "installObjects" ELSE "stageJournal")
    \/ StageJournal
    \/ FirstJournal
    \/ InstallObjects
    \/ AdvanceTo(ObjectsInstalled, "advanceObjects", "commitManifest")
    \/ CommitControl("manifest", "commitManifest", "advanceManifest")
    \/ AdvanceTo(ManifestCommitted, "advanceManifest", "commitLock")
    \/ CommitControl("lock", "commitLock", "advanceLock")
    \/ AdvanceTo(LockCommitted, "advanceLock", "verify")
    \/ Verify
    \/ AdvanceTo(Complete, "advanceComplete", "cleanObjects")
    \/ CleanObjects
    \/ CleanControl("manifest", "cleanManifest", "cleanLock")
    \/ CleanControl("lock", "cleanLock", "cleanPending")
    \/ CleanPending
    \/ CleanJournal

\* The process dies with its memory; the next attempt starts from the disk.
Dies(damage) ==
    /\ crashes < MaxCrashes
    /\ crashes' = crashes + 1
    /\ damaged' = (damaged \/ damage)
    /\ pc' = "idle" /\ busy' = FALSE
    /\ recovering' = FALSE /\ phase' = Prepared /\ was' = Unread
    /\ UNCHANGED <<exchange, theirs, edits>>

\* An exchange has left the old text in the staging file.
Displaced == \E c \in Control : exchange /\ control[c].stg = "old"

Crash == pc \in Steps /\ Dies(Displaced) /\ UNCHANGED disk

\* The crash falls inside the write of a new staging file or directory.
TearObject ==
    /\ TearWrites /\ pc = "stageObjects"
    /\ \E o \in Objects :
         staged[o] = "none" /\ staged' = [staged EXCEPT ![o] = "partial"]
    /\ Dies(TRUE) /\ UNCHANGED <<control, journal, installed>>

TearControl(c, label) ==
    /\ TearWrites /\ pc = label /\ control[c].stg = None
    /\ control' = [control EXCEPT ![c] = Staged(control[c], Torn)]
    /\ Dies(TRUE) /\ UNCHANGED <<journal, staged, installed>>

TearJournal ==
    /\ TearWrites /\ journal.stg = None /\ ~ busy
    /\ \/ pc = "stageJournal"
       \/ \E a \in {<<"advanceObjects", ObjectsInstalled>>,
                    <<"advanceManifest", ManifestCommitted>>,
                    <<"advanceLock", LockCommitted>>,
                    <<"advanceComplete", Complete>>} : pc = a[1] /\ phase < a[2]
    /\ journal' = Staged(journal, Torn)
    /\ Dies(TRUE) /\ UNCHANGED <<control, staged, installed>>

\* An uncooperative process writes a control file between two calls.
Edit(c) ==
    /\ edits < MaxEdits /\ pc # "done" /\ ~ busy
    /\ control[c].dst # "foreign"
    /\ control' = [control EXCEPT ![c].dst = "foreign"]
    /\ theirs' = theirs \cup {c}
    /\ edits' = edits + 1
    /\ UNCHANGED <<exchange, journal, staged, installed, pc, memory, busy, damaged, crashes>>

Finished == pc = "done" /\ UNCHANGED vars

Next ==
    \/ Step
    \/ Crash
    \/ TearObject
    \/ TearControl("manifest", "stageManifest")
    \/ TearControl("lock", "stageLock")
    \/ TearJournal
    \/ \E c \in Control : Edit(c)
    \/ Finished

Spec == Init /\ [][Next]_vars

FairSpec == Spec /\ WF_vars(Step)
-----------------------------------------------------------------------------
\* What a reader that knows the backup selects.
Selected(c) == IF control[c].dst = None THEN control[c].bak ELSE control[c].dst

\* The furthest phase any of the journal's files records.
Recorded(p) == \E q \in Held(journal) \cap Phases : q >= p

(***************************************************************************)
(* The manifest selects the merged snapshot only when every object it      *)
(* references is installed, and the lock derived from it is never ahead of *)
(* it: the order objects, manifest, lock holds in every crash state.       *)
(***************************************************************************)
Ordered ==
    edits = 0 =>
        /\ Selected("manifest") = "new" => Objects \subseteq installed
        /\ Selected("lock") = "new" => Selected("manifest") = "new"

(***************************************************************************)
(* A journal file never records a phase whose durable effect is missing,   *)
(* whichever of its three files recovery will take the phase from.         *)
(***************************************************************************)
JournalHonest ==
    edits = 0 =>
        /\ Recorded(ObjectsInstalled)  => Objects \subseteq installed
        /\ Recorded(ManifestCommitted) => Selected("manifest") = "new"
        /\ Recorded(LockCommitted)     => Selected("lock") = "new"

(***************************************************************************)
(* No crash, recovery or retry takes an authority file back to the old     *)
(* snapshot or leaves it unreadable once it selected the new one.          *)
(***************************************************************************)
NeverRegresses ==
    [][\A c \in Control :
         Selected(c) = "new" /\ edits' = 0 => Selected(c)' = "new"]_vars

(***************************************************************************)
(* Foreign bytes in a control file block the commit and its recovery: they *)
(* stay in one of its three files (ADR 0024: "unknown content blocks       *)
(* without exchange").                                                     *)
(***************************************************************************)
ForeignKept == \A c \in theirs : "foreign" \in Held(control[c])

(***************************************************************************)
(* The attempts that follow finitely many crashes end with the commit.     *)
(***************************************************************************)
Converges == <>(pc = "done" \/ edits > 0 \/ damaged)
=============================================================================
