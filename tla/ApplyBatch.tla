----------------------------- MODULE ApplyBatch -----------------------------
(***************************************************************************)
(* The atomic apply batch (apply_batch_transaction.rs, its journal and its *)
(* recovery): the targets of several approved plans, in one or more        *)
(* harness roots, and the receipts in the machine-local state.json are     *)
(* replaced together.  The journal records one phase and the progress of   *)
(* every participant, and each transition is durable before the mutation   *)
(* it announces.  An attempt recovers what an earlier one left behind,     *)
(* forward or back by the state.json that is there, and then commits.      *)
(*                                                                         *)
(* The attempt holds the locks of every root, so there is one process at a *)
(* time; an editor that knows nothing of the locks may write a target or   *)
(* state.json between two calls, and an adoption may change the manifest   *)
(* between two attempts.                                                   *)
(***************************************************************************)
EXTENDS Naturals, FiniteSets, GuardedFile

CONSTANTS
    N,           \* the number of participants
    Torn,        \* the text of a file whose first write a crash cut short
    MaxEdits,    \* bound on the edits of others
    MaxCrashes   \* bound on the crashes

Items == 1 .. N
Text  == {"old", "new", "foreign", Torn}

\* StoredDisposition; Restore differs from Install in its receipt only.
Dispositions == {"install", "noop", "update", "remove"}

Phase    == {"Preparing", "Prepared", "QuarantiningOldTargets", "OldTargetsQuarantined",
             "CommittingNewTargets", "NewTargetsCommitted", "StateCommitted", "Verified",
             "RollingBack", "RolledBack"}
Progress == {"Unstaged", "StagingPending", "Prepared", "QuarantinePending", "Quarantined",
             "CommitPending", "Committed", "Verified", "RemovePending", "Removed",
             "RestorePending", "RolledBack"}
Journal  == [phase : Phase, progress : [Items -> Progress]]

ASSUME BatchAssumption ==
    /\ N \in Nat \ {0}
    /\ None \notin Text
    /\ Torn \notin {"old", "new", "foreign"}
    /\ None \notin Journal /\ Torn \notin Journal
    /\ MaxEdits \in Nat
    /\ MaxCrashes \in Nat

VARIABLES
    disp,        \* the disposition of each participant
    exchange,    \* atomic_exchange_supported(): Linux and macOS
    same,        \* the proposed state.json is the observed one
    target,      \* per participant: the destination, its staging, its backup
    state,       \* state.json: live, staging and backup file
    journal,     \* the journal: live, pending and backup file
    moved,       \* the manifest is not the planned one any more
    pc,          \* what the attempt does next
    mode,        \* "commit", "forward" or "rollback"
    cursor,      \* the journal in memory
    aim,         \* the journal the transition under way leads to
    busy,        \* a guarded replacement is under way
    theirs,      \* history: files whose foreign bytes must survive; 0 is state.json
    torn,        \* history: a crash fell into the first write of a file
    split,       \* history: a crash fell into the replacement of state.json
    edits,       \* edits made so far
    crashes      \* crashes so far

given   == <<disp, exchange, same>>
disk    == <<target, state, journal>>
memory  == <<mode, cursor, aim>>
history == <<moved, theirs, torn, split, edits, crashes>>
vars    == <<disp, exchange, same, target, state, journal, moved, pc, mode, cursor, aim,
             busy, theirs, torn, split, edits, crashes>>

\* What a participant replaces, and by what.
Quarantines(i) == disp[i] \in {"update", "remove"}
Old(i) == CASE disp[i] = "install" -> None [] disp[i] = "noop" -> "new" [] OTHER -> "old"
New(i) == IF disp[i] = "remove" THEN None ELSE "new"
OldState == IF same THEN "new" ELSE "old"

First == [phase |-> "Preparing", progress |-> [i \in Items |-> "Unstaged"]]

Effects == {"stage", "stageState", "revalidate", "quarantine", "clear", "place",
            "installState", "verify"}
Steps == Effects \cup {"persist", "clean", "reconcile", "dropPending", "direct",
                       "recoverTargets", "undo", "tidy"}

TypeOK ==
    /\ disp \in [Items -> Dispositions] /\ exchange \in BOOLEAN /\ same \in BOOLEAN
    /\ target \in [Items -> Files(Text)]
    /\ state \in Files(Text)
    /\ journal \in Files(Journal \cup {Torn})
    /\ moved \in BOOLEAN
    /\ pc \in Steps \cup {"idle", "failed", "blocked", "done"}
    /\ mode \in {"commit", "forward", "rollback"}
    /\ cursor \in Journal /\ aim \in Journal
    /\ busy \in BOOLEAN
    /\ theirs \subseteq {0} \cup Items
    /\ torn \in BOOLEAN /\ split \in BOOLEAN
    /\ edits \in 0 .. MaxEdits
    /\ crashes \in 0 .. MaxCrashes

\* A batch of no-ops has nothing to tell before from after; a batch that keeps
\* state.json can only install what a receipt there already describes.
Init ==
    /\ disp \in [Items -> Dispositions] /\ exchange \in BOOLEAN /\ same \in BOOLEAN
    /\ \E i \in Items : disp[i] # "noop"
    /\ same => \A i \in Items : disp[i] \in {"install", "noop"}
    /\ target = [i \in Items |-> Settled(Old(i))]
    /\ state = Settled(OldState)
    /\ journal = Settled(None)
    /\ moved = FALSE
    /\ pc = "idle" /\ mode = "commit" /\ cursor = First /\ aim = First /\ busy = FALSE
    /\ theirs = {} /\ torn = FALSE /\ split = FALSE
    /\ edits = 0 /\ crashes = 0

-----------------------------------------------------------------------------
(***************************************************************************)
(* The journal's own rules: validate_journal, valid_journal_transition     *)
(***************************************************************************)
\* validate_journal: what each phase allows of a participant's progress.
ValidProgress(p, i, r) ==
    CASE p = "Preparing" -> r \in {"Unstaged", "StagingPending", "Prepared"}
      [] p = "Prepared"  -> r = "Prepared"
      [] p = "QuarantiningOldTargets" -> r \in {"Prepared", "QuarantinePending", "Quarantined"}
      [] p = "OldTargetsQuarantined"  -> r = IF Quarantines(i) THEN "Quarantined" ELSE "Prepared"
      [] p = "CommittingNewTargets" ->
             r \in {"Prepared", "Quarantined", "CommitPending", "Committed"}
      [] p \in {"NewTargetsCommitted", "StateCommitted"} -> r \in {"Committed", "Verified"}
      [] p = "Verified"   -> r = "Verified"
      [] p = "RolledBack" -> r = "RolledBack"
      [] p = "RollingBack" ->
             \/ r \in {"Unstaged", "StagingPending", "Prepared", "Committed", "RolledBack"}
             \/ r = "CommitPending" /\ disp[i] # "noop"
             \/ r \in {"RemovePending", "Removed"} /\ disp[i] \in {"install", "update"}
             \/ r \in {"QuarantinePending", "Quarantined", "RestorePending"} /\ Quarantines(i)

Valid(j) == j # Torn /\ \A i \in Items : ValidProgress(j.phase, i, j.progress[i])

PhaseSteps ==
    {<<"Preparing", "Prepared">>, <<"Prepared", "QuarantiningOldTargets">>,
     <<"QuarantiningOldTargets", "OldTargetsQuarantined">>,
     <<"OldTargetsQuarantined", "CommittingNewTargets">>,
     <<"CommittingNewTargets", "NewTargetsCommitted">>,
     <<"NewTargetsCommitted", "StateCommitted">>, <<"StateCommitted", "Verified">>,
     <<"RollingBack", "RolledBack">>}
        \cup ({"Preparing", "Prepared", "QuarantiningOldTargets", "OldTargetsQuarantined",
               "CommittingNewTargets", "NewTargetsCommitted"} \X {"RollingBack"})

\* Mutant: an interrupted quarantine has no way back.
RollbackStep_NoRestore(d, r, s) ==
    \/ s = "RolledBack" /\ r \in {"Unstaged", "StagingPending", "Prepared"}
    \/ s = "RemovePending" /\ r \in {"CommitPending", "Committed"} /\ d # "noop"
    \/ s = "Removed" /\ r = "RemovePending" /\ d # "noop"
    \/ s = "RestorePending" /\ d = "update" /\ r = "Removed"
    \/ s = "RolledBack" /\ r = "Committed" /\ d = "noop"
    \/ s = "RolledBack" /\ r = "Removed" /\ d # "update"

\* valid_rollback_transition of a participant with disposition d.
RollbackStep(d, r, s) ==
    LET restores == d \in {"update", "remove"}
    IN  CASE s = "RolledBack" ->
                 \/ r \in {"Unstaged", "StagingPending", "Prepared"}
                 \/ r \in {"QuarantinePending", "RestorePending"} /\ restores
                 \/ r = "CommitPending" /\ d = "install"
                 \/ r = "Committed" /\ d = "noop"
                 \/ r = "Removed" /\ d # "update"
          [] s = "RestorePending" ->
                 \/ r \in {"QuarantinePending", "Quarantined"} /\ restores
                 \/ r \in {"CommitPending", "Committed"} /\ d = "remove"
                 \/ r = "Removed" /\ d = "update"
          [] s = "RemovePending" -> r \in {"CommitPending", "Committed"} /\ d # "noop"
          [] s = "Removed"       -> r = "RemovePending" /\ d # "noop"
          [] OTHER               -> FALSE

ProgressStep(p, d, r, s) ==
    CASE p = "Preparing" ->
             <<r, s>> \in {<<"Unstaged", "StagingPending">>, <<"StagingPending", "Prepared">>}
      [] p = "QuarantiningOldTargets" ->
             /\ d \in {"update", "remove"}
             /\ <<r, s>> \in {<<"Prepared", "QuarantinePending">>,
                              <<"QuarantinePending", "Quarantined">>}
      [] p = "CommittingNewTargets" ->
             \/ <<r, s>> \in {<<"Prepared", "CommitPending">>, <<"Quarantined", "CommitPending">>,
                              <<"CommitPending", "Committed">>}
             \/ d = "noop" /\ r = "Prepared" /\ s = "Committed"
      [] p = "StateCommitted" -> r = "Committed" /\ s = "Verified"
      [] p = "RollingBack"    -> RollbackStep(d, r, s)
      [] OTHER                -> FALSE

Leads(old, next) ==
    IF old.phase # next.phase
    THEN old.progress = next.progress /\ <<old.phase, next.phase>> \in PhaseSteps
    ELSE \E i \in Items :
           /\ \A k \in Items : old.progress[k] # next.progress[k] <=> k = i
           /\ ProgressStep(old.phase, disp[i], old.progress[i], next.progress[i])

Verdict ==
    LET valid == {j \in Held(journal) \ {None} : Valid(j)}
    IN  JournalVerdict(journal, valid, {t \in valid \X valid : Leads(t[1], t[2])})

PhaseIs(j, p)       == [j EXCEPT !.phase = p]
ProgressIs(j, i, r) == [j EXCEPT !.progress[i] = r]

-----------------------------------------------------------------------------
(***************************************************************************)
(* The forward path: the order of the transitions of commit_locked_batch,  *)
(* also spelled out by validate_forward_path, and the mutation that goes   *)
(* between two of them.                                                    *)
(***************************************************************************)
\* The participants the loop of phase p still has to take to its last progress.
Open(j) ==
    CASE j.phase = "Preparing" -> {i \in Items : j.progress[i] # "Prepared"}
      [] j.phase = "QuarantiningOldTargets" ->
             {i \in Items : Quarantines(i) /\ j.progress[i] # "Quarantined"}
      [] j.phase = "CommittingNewTargets" -> {i \in Items : j.progress[i] # "Committed"}
      [] j.phase = "StateCommitted"       -> {i \in Items : j.progress[i] # "Verified"}
      [] j.phase = "RollingBack"          -> {i \in Items : j.progress[i] # "RolledBack"}
      [] OTHER -> {}

Lowest(S)  == CHOOSE i \in S : \A k \in S : i <= k
Highest(S) == CHOOSE i \in S : \A k \in S : k <= i

NextPhase(p) == CHOOSE q \in Phase \ {"RollingBack"} : <<p, q>> \in PhaseSteps

NextOf(j) ==
    IF Open(j) = {} THEN PhaseIs(j, NextPhase(j.phase))
    ELSE LET i == Lowest(Open(j))
             r == j.progress[i]
         IN  ProgressIs(j, i,
                CASE r = "Unstaged"          -> "StagingPending"
                  [] r = "StagingPending"    -> "Prepared"
                  [] r = "QuarantinePending" -> "Quarantined"
                  [] r = "CommitPending"     -> "Committed"
                  [] r = "Committed"         -> "Verified"
                  [] r = "Prepared" /\ j.phase = "QuarantiningOldTargets" -> "QuarantinePending"
                  [] OTHER -> IF disp[i] = "noop" THEN "Committed" ELSE "CommitPending")

\* The mutation that comes between the transition to j and the next one.
EffectOf(j) ==
    LET i == Lowest(Open(j))
        r == j.progress[i]
    IN  IF Open(j) = {}
        THEN CASE j.phase = "Preparing"           -> "stageState"
               [] j.phase = "Prepared"            -> "revalidate"
               [] j.phase = "NewTargetsCommitted" -> "installState"
               [] j.phase = "Verified"            -> "clean"
               [] OTHER                           -> "persist"
        ELSE CASE r = "StagingPending" /\ disp[i] # "remove" -> "stage"
               [] r = "QuarantinePending"                    -> "quarantine"
               [] r = "CommitPending" /\ disp[i] # "remove"  -> "place"
               [] r = "Prepared" /\ disp[i] = "noop"
                    /\ j.phase = "CommittingNewTargets"        -> "clear"
               [] j.phase = "StateCommitted" /\ Open(j) = Items        -> "verify"
               [] OTHER                                                -> "persist"

Current == Lowest(Open(cursor))

-----------------------------------------------------------------------------
Go(label) == pc' = label /\ busy' = FALSE

Decide(label) == Go(label) /\ UNCHANGED <<given, disk, memory, history>>

\* An error ends the attempt; the journal stays for the next one.
Fail == Decide(IF mode = "commit" THEN "failed" ELSE "blocked")

WriteTarget(i, f) ==
    /\ target' = [target EXCEPT ![i] = f]
    /\ UNCHANGED <<given, state, journal, mode, cursor, history>>

WriteState(f) ==
    /\ state' = f
    /\ UNCHANGED <<given, target, journal, memory, history>>

WriteJournal(f) ==
    /\ journal' = f
    /\ UNCHANGED <<given, target, state, mode, history>>

\* Mutant: a rollback clears the backups before it has restored them.
After_NoUndo(j) ==
    CASE mode = "commit"   -> EffectOf(j)
      [] mode = "forward"  -> IF j.phase = "Verified" THEN "tidy" ELSE "persist"
      [] mode = "rollback" -> "tidy"

(***************************************************************************)
(* persist_transition, install: stage the next journal and install it over *)
(* the one in memory; then take up what follows it in the current mode.    *)
(***************************************************************************)
After(j) ==
    CASE mode = "commit"   -> EffectOf(j)
      [] mode = "forward"  -> IF j.phase = "Verified" THEN "tidy" ELSE "persist"
      [] mode = "rollback" -> IF j.phase = "RolledBack" THEN "tidy" ELSE "undo"

Persist ==
    /\ pc = "persist"
    /\ LET begins   == mode = "commit" /\ aim = First
           expected == IF begins THEN None ELSE cursor
       IN  IF ~ (Valid(aim) /\ (begins \/ Leads(cursor, aim)))
           THEN Fail
           ELSE IF journal.stg = None /\ ~ busy
           THEN /\ WriteJournal(Staged(journal, aim))
                /\ Go("persist") /\ UNCHANGED <<cursor, aim>>
           ELSE IF busy \/ Installable(journal, expected, aim)
           THEN LET f == Replaced(journal, aim, exchange)
                IN  /\ WriteJournal(f)
                    /\ IF f = Settled(aim)
                       THEN /\ cursor' = aim /\ Go(After(aim))
                            /\ aim' = IF After(aim) \in Effects \cup {"persist"}
                                      THEN NextOf(aim) ELSE aim
                       ELSE pc' = pc /\ busy' = TRUE /\ UNCHANGED <<cursor, aim>>
           ELSE Fail

\* The next step is the durable announcement of j.
Announce(j) == aim' = j /\ Go("persist")

-----------------------------------------------------------------------------
(***************************************************************************)
(* The start of an attempt: recovery when there is a journal, otherwise    *)
(* with_locked_batch_authority and the commit of the plan.                 *)
(***************************************************************************)
Fresh ==
    /\ ~ moved
    /\ state.dst = OldState
    /\ \A i \in Items : target[i].dst = Old(i)

Applied == state.dst = "new" /\ \A i \in Items : target[i].dst = New(i)

Attempt ==
    /\ pc \in {"idle", "failed", "blocked"}
    /\ CASE Verdict = "invalid" -> Decide("blocked")
         [] Verdict = "absent"  ->
              IF Fresh THEN /\ mode' = "commit" /\ Announce(First)
                            /\ UNCHANGED <<given, disk, cursor, history>>
              ELSE Decide(IF Applied THEN "done" ELSE "failed")
         [] OTHER ->
              /\ aim' = JournalSeen(journal, Verdict)
              /\ mode' = "forward"  \* until the direction is known
              /\ Go("reconcile")
              /\ UNCHANGED <<given, disk, cursor, history>>

(***************************************************************************)
(* The commit: the mutations between the journal's transitions             *)
(***************************************************************************)
Stage ==
    /\ pc = "stage"
    /\ IF StageAccepts(target[Current], "new")
       THEN /\ WriteTarget(Current, Staged(target[Current], "new"))
            /\ Announce(aim)
       ELSE Fail

\* reset_incomplete_staged_text: any other staging file gives way.
StageState ==
    /\ pc = "stageState"
    /\ WriteState(Staged(state, "new")) /\ Go("persist")

Revalidate ==
    /\ pc = "revalidate"
    /\ IF Fresh THEN Decide("persist") ELSE Fail

Quarantine ==
    /\ pc = "quarantine"
    /\ IF target[Current].bak = None /\ target[Current].dst = "old"
       THEN WriteTarget(Current, Parked(target[Current])) /\ Announce(aim)
       ELSE Fail

Clear ==
    /\ pc = "clear"
    /\ WriteTarget(Current, StagingGone(target[Current])) /\ Announce(aim)

Place ==
    /\ pc = "place"
    /\ IF target[Current].stg = "new" /\ target[Current].dst = None
       THEN WriteTarget(Current, Placed(target[Current])) /\ Announce(aim)
       ELSE Fail

InstallState ==
    /\ pc = "installState"
    /\ IF busy \/ Installable(state, OldState, "new")
       THEN LET f == Replaced(state, "new", exchange)
            IN  /\ WriteState(f)
                /\ busy' = (f # Settled("new"))
                /\ pc' = IF busy' THEN pc ELSE "persist"
       ELSE Fail

Verify ==
    /\ pc = "verify"
    /\ IF Applied THEN Decide("persist") ELSE Fail

(***************************************************************************)
(* Recovery: guarded_journal::reconcile, then the direction                *)
(***************************************************************************)
Reconcile ==
    /\ pc = "reconcile"
    /\ LET Write(f, label) == WriteJournal(f) /\ Go(label) /\ UNCHANGED <<cursor, aim>>
           f == Replaced(journal, aim, exchange)
       IN  IF busy \/ Verdict \in {"installFirst", "installNext"}
           THEN /\ WriteJournal(f) /\ UNCHANGED <<cursor, aim>>
                /\ busy' = (f # Settled(aim))
                /\ pc' = IF busy' THEN pc ELSE "direct"
           ELSE CASE Verdict = "restore"     -> Write(Restored(journal), "dropPending")
                  [] Verdict = "dropBackup"  -> Write(BackupGone(journal), "direct")
                  [] Verdict = "dropStaging" -> Write(StagingGone(journal), "direct")
                  [] OTHER                   -> Decide("direct")

DropPending ==
    /\ pc = "dropPending"
    /\ WriteJournal(StagingGone(journal)) /\ Go("direct") /\ UNCHANGED <<cursor, aim>>

\* The phases a batch is only carried on from.
Decided == {"StateCommitted", "Verified"}

\* Mutant: the journal's phase alone decides, which lags behind state.json.
Direction_ByPhase(p) == IF p \in Decided THEN "forward" ELSE "rollback"

\* recover_atomic_apply_batch_inner: with equal texts only the phase can tell.
Direction(p) ==
    CASE state.dst = "new" /\ (p \in Decided \/ ~ same) -> "forward"
      [] state.dst = OldState /\ p \notin Decided       -> "rollback"
      [] OTHER                                          -> "blocked"

Direct ==
    /\ pc = "direct"
    /\ IF Direction(journal.dst.phase) = "blocked"
       THEN Decide("blocked")
       ELSE /\ mode' = Direction(journal.dst.phase)
            /\ cursor' = journal.dst
            /\ IF mode' = "forward"
               THEN Go("recoverTargets") /\ UNCHANGED aim
               ELSE CASE cursor'.phase = "RolledBack"  -> Go("tidy") /\ UNCHANGED aim
                      [] cursor'.phase = "RollingBack" -> Go("undo") /\ UNCHANGED aim
                      [] OTHER -> Announce(PhaseIs(cursor', "RollingBack"))
            /\ UNCHANGED <<given, disk, history>>

\* recover_forward: the targets, then the transitions that are still missing.
RecoverTargets ==
    /\ pc = "recoverTargets"
    /\ LET missing == {i \in Items : target[i].dst # New(i)}
           i == Lowest(missing)
       IN  IF moved THEN Fail
           ELSE IF missing # {}
           THEN IF target[i].dst = None /\ target[i].stg = "new"
                THEN WriteTarget(i, Placed(target[i])) /\ UNCHANGED aim /\ Go("recoverTargets")
                ELSE Fail
           ELSE CASE cursor.phase = "Verified" -> Decide("tidy")
                  [] cursor.phase \in {"NewTargetsCommitted", "StateCommitted"} ->
                         /\ Announce(NextOf(cursor))
                         /\ UNCHANGED <<given, disk, mode, cursor, history>>
                  [] OTHER -> Fail

(***************************************************************************)
(* rollback_participant: the last participant that is not rolled back.     *)
(***************************************************************************)
Undo ==
    /\ pc = "undo"
    /\ LET i == Highest(Open(cursor))
           f == target[i]
           r == cursor.progress[i]
           Record(s) == /\ Announce(ProgressIs(cursor, i, s))
                        /\ UNCHANGED <<given, disk, mode, cursor, history>>
           Change(g, s) == /\ WriteTarget(i, g)
                           /\ Announce(ProgressIs(cursor, i, s))
           Restore ==
               IF r # "RestorePending" THEN Record("RestorePending")
               ELSE IF f.bak = "old" THEN Change(Restored(f), "RolledBack") ELSE Fail
       IN  IF Open(cursor) = {}
           THEN /\ Announce(NextOf(cursor)) /\ UNCHANGED <<given, disk, mode, cursor, history>>
           ELSE IF disp[i] = "noop"
           THEN IF f.dst = "new" THEN Record("RolledBack") ELSE Fail
           ELSE IF disp[i] = "remove"
           THEN CASE f.dst = "old" -> Record("RolledBack")
                  [] f.dst = None  -> Restore
                  [] OTHER         -> Fail
           ELSE IF r \in {"CommitPending", "Committed"}
           THEN Record("RemovePending")
           ELSE IF r = "RemovePending"
           THEN CASE f.dst = "new"            -> Change([f EXCEPT !.dst = None], "Removed")
                  [] f.dst \in {None, Old(i)} -> Record("Removed")
                  [] OTHER                    -> Fail
           ELSE IF f.dst = "new" THEN Fail
           ELSE IF disp[i] = "install" \/ f.dst = "old" THEN Record("RolledBack")
           ELSE IF f.dst = None THEN Restore ELSE Fail

(***************************************************************************)
(* cleanup_verified_batch and cleanup_recovery_artifacts: what the journal *)
(* names goes first, the journal itself last.  Recovery refuses a staged   *)
(* state.json that is not the proposed one.                                *)
(***************************************************************************)
\* Mutant: the journal goes first, as in the adoption's cleanup.
RemoveResidue_JournalFirst(label, end) ==
    /\ pc = label
    /\ IF journal # Settled(None) THEN WriteJournal(Settled(None)) /\ Go(label)
                                       /\ UNCHANGED <<cursor, aim>>
       ELSE IF \E i \in Items : target[i].bak # None
       THEN LET i == Lowest({k \in Items : target[k].bak # None})
            IN  WriteTarget(i, BackupGone(target[i])) /\ UNCHANGED aim /\ Go(label)
       ELSE IF state.stg # None THEN WriteState(StagingGone(state)) /\ Go(label)
       ELSE Decide(end)

RemoveResidue(label, end) ==
    /\ pc = label
    /\ LET left == {i \in Items : target[i].stg # None \/ target[i].bak # None}
           i == Lowest(left)
           f == target[i]
           Remove(g) == WriteTarget(i, g) /\ UNCHANGED aim /\ Go(label)
           staging   == f.stg # None /\ (label = "tidy" \/ f.bak = None)
       IN  IF left # {}
           THEN CASE staging /\ f.stg = "new"   -> Remove(StagingGone(f))
                  [] ~ staging /\ f.bak = "old" -> Remove(BackupGone(f))
                  [] OTHER                      -> Fail
           ELSE IF state.stg # None
           THEN IF label = "clean" \/ state.stg = "new"
                THEN WriteState(StagingGone(state)) /\ Go(label)
                ELSE Fail
           ELSE IF journal.dst # None
           THEN /\ WriteJournal([journal EXCEPT !.dst = None])
                /\ Go(label) /\ UNCHANGED <<cursor, aim>>
           ELSE /\ WriteJournal(StagingGone(journal))
                /\ Go(end) /\ UNCHANGED <<cursor, aim>>

-----------------------------------------------------------------------------
Step ==
    \/ Attempt
    \/ Persist
    \/ Stage
    \/ StageState
    \/ Revalidate
    \/ Quarantine
    \/ Clear
    \/ Place
    \/ InstallState
    \/ Verify
    \/ RemoveResidue("clean", "done")
    \/ Reconcile
    \/ DropPending
    \/ Direct
    \/ RecoverTargets
    \/ Undo
    \/ RemoveResidue("tidy", IF mode = "forward" THEN "done" ELSE "idle")

\* The process dies with its memory; the next attempt starts from the disk.
Dies ==
    /\ crashes < MaxCrashes
    /\ crashes' = crashes + 1
    /\ pc' = "idle" /\ busy' = FALSE /\ mode' = "commit" /\ cursor' = First /\ aim' = First
    /\ UNCHANGED <<given, moved, theirs, edits>>

Crash ==
    /\ pc \in Steps
    /\ split' = (split \/ (pc = "installState" /\ busy))
    /\ Dies /\ UNCHANGED <<disk, torn>>

\* The crash falls inside the first write of a staging file or directory.
Tear ==
    /\ \/ /\ pc = "stage" /\ target[Current].stg = None
          /\ target' = [target EXCEPT ![Current] = Staged(@, Torn)]
          /\ UNCHANGED <<state, journal>>
       \/ /\ pc = "stageState"
          /\ state' = Staged(state, Torn)
          /\ UNCHANGED <<target, journal>>
       \/ /\ pc = "persist" /\ journal.stg = None /\ ~ busy
          /\ journal' = Staged(journal, Torn)
          /\ UNCHANGED <<target, state>>
    /\ torn' = TRUE
    /\ Dies /\ UNCHANGED split

\* An uncooperative process writes a target or state.json.
Edits ==
    /\ edits < MaxEdits /\ pc # "done" /\ ~ busy
    /\ edits' = edits + 1
    /\ UNCHANGED <<given, journal, pc, memory, busy, torn, split, crashes>>

EditTarget(i) ==
    /\ Edits
    /\ target' = [target EXCEPT ![i].dst = "foreign"]
    /\ theirs' = theirs \cup {i}
    /\ UNCHANGED <<state, moved>>

EditState ==
    /\ Edits
    /\ state' = [state EXCEPT !.dst = "foreign"]
    /\ theirs' = theirs \cup {0}
    /\ UNCHANGED <<target, moved>>

\* An adoption does not look for the journal of a batch (FOREIGN_TO_ADOPTION).
Adopt ==
    /\ Edits /\ pc \in {"idle", "failed", "blocked"}
    /\ moved' = TRUE
    /\ UNCHANGED <<target, state, theirs>>

Finished == pc = "done" /\ UNCHANGED vars

Next ==
    \/ Step
    \/ Crash
    \/ Tear
    \/ \E i \in Items : EditTarget(i)
    \/ EditState
    \/ Adopt
    \/ Finished

Spec == Init /\ [][Next]_vars

FairSpec == Spec /\ WF_vars(Step)
-----------------------------------------------------------------------------
\* What a reader of state.json that knows the backup selects.
StateText == IF state.dst = None THEN state.bak ELSE state.dst

\* Every journal that survives records that the batch is decided.
Committed ==
    LET records == Held(journal) \ {None, Torn}
    IN  /\ StateText = "new"
        /\ same => records # {} /\ \A j \in records : j.phase \in Decided

Outcome ==
    IF theirs # {} THEN "disturbed"
    ELSE IF Held(journal) # {None}
    THEN IF Committed THEN "decided" ELSE "underway"
    ELSE IF StateText = OldState /\ \A i \in Items : target[i].dst = Old(i) THEN "before"
    ELSE IF Applied THEN "after"
    ELSE "broken"

(***************************************************************************)
(* All or nothing: without a journal every target and state.json are the   *)
(* old ones or the new ones, and a batch whose state.json is committed is  *)
(* never taken back, by whatever sequence of crashes and recoveries.       *)
(***************************************************************************)
Promise == INSTANCE AtomicBatch WITH outcome <- Outcome
AllOrNothing == Promise!Spec

(***************************************************************************)
(* Bytes nobody planned for survive in a target and in state.json: the     *)
(* batch and both directions of its recovery stop instead.                 *)
(***************************************************************************)
ForeignKept ==
    /\ 0 \in theirs => "foreign" \in Held(state)
    /\ \A i \in Items : i \in theirs => "foreign" \in Held(target[i])

(***************************************************************************)
(* The targets are what state.json says, or can be made so: the prior      *)
(* content of an updated or removed target is at its destination or in its *)
(* backup until state.json is committed; a receipt for the new content is  *)
(* committed only when every target has it, and stays true; and what the   *)
(* batch puts beside targets and state.json is named by a journal as long  *)
(* as it is there.                                                         *)
(***************************************************************************)
OldKept ==
    StateText # "new" /\ 0 \notin theirs =>
        \A i \in Items : Quarantines(i) /\ i \notin theirs => "old" \in Held(target[i])

ReceiptsTrue ==
    ~ same /\ StateText = "new" /\ theirs = {} => Applied \/ state.dst = None

ResidueJournaled ==
    Held(journal) = {None} =>
        /\ \A i \in Items : target[i].stg = None /\ target[i].bak = None
        /\ state.stg = None
        /\ ~ split => state.bak = None

StateAgrees == OldKept /\ ReceiptsTrue /\ ResidueJournaled

(***************************************************************************)
(* The attempts that follow finitely many crashes carry the batch out.     *)
(***************************************************************************)
Converges == <>(pc = "done" \/ edits > 0 \/ torn \/ split)
=============================================================================
