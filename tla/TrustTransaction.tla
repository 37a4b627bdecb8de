-------------------------- MODULE TrustTransaction --------------------------
(***************************************************************************)
(* executable_trust_transaction.rs: the machine-local decision about one   *)
(* exact executable object (trusted, denied or unreviewed), kept in        *)
(* state.json.  A user plans a decision, confirms the digest of that plan, *)
(* and the attempt recovers what an earlier one left behind, checks that   *)
(* the plan is still fresh and replaces state.json under a journal of two  *)
(* phases.  There is one process at a time (the root locks); an editor, or *)
(* another transaction before the journal exists, may write state.json.    *)
(*                                                                         *)
(* A text of state.json is its decision and everything else it holds       *)
(* (rest), which no transaction of this module changes.                    *)
(***************************************************************************)
EXTENDS Naturals, GuardedFile

CONSTANTS
    Torn,        \* the text of a file whose first write a crash cut short
    MaxEdits,    \* bound on the edits of others
    MaxCrashes   \* bound on the crashes

Decisions == {"trusted", "denied"}
Text      == [rest : {"ours", "theirs"}, trust : Decisions \cup {"unreviewed"}]

Decided(text, d) == [text EXCEPT !.trust = d]

\* A plan: the observed text and the proposed one; the same for a NoOp.
Plans   == {p \in Text \X Text : \E d \in Decisions : p[2] = Decided(p[1], d)}
Records == {"prepared", "stateCommitted"} \X Plans

ASSUME TrustAssumption ==
    /\ None \notin Text \cup Records /\ Torn \notin Text \cup Records /\ Torn # None
    /\ MaxEdits \in Nat /\ MaxCrashes \in Nat

VARIABLES
    exchange,    \* atomic_exchange_supported(): Linux and macOS
    live,        \* state.json
    staging,     \* staging file of each plan, and its backup
    journal,     \* the journal: live, pending and backup file
    pc,          \* what the attempt does next
    plan,        \* the plan that was confirmed
    record,      \* the journal in memory: that of this attempt or the recovered one
    goal,        \* what the attempt was started for: "apply" or "recover"
    outcome,     \* what the recovery in this attempt, or the attempt, comes to
    told,        \* history: the decision last reported to be in force
    busy,        \* a guarded replacement is under way
    edited,      \* history: others wrote state.json in a commit or beside its journal
    damaged,     \* history: a crash after which the code is stuck
    edits,       \* edits made so far
    crashes      \* crashes so far

disk   == <<live, staging, journal>>
memory == <<plan, record, goal, outcome>>
past   == <<told, edited, damaged, edits, crashes>>
vars   == <<exchange, live, staging, journal, pc, plan, record, goal, outcome,
            told, busy, edited, damaged, edits, crashes>>

CommitSteps   == {"refresh", "stageState", "stageJournal", "firstJournal",
                  "installState", "stageCommitted", "advance"}
RecoverySteps == {"inspect", "reconcileJournal", "dropPending", "reconcileState"}
CleanSteps    == {"cleanStaging", "cleanPending", "cleanJournal"}
Running       == CommitSteps \cup RecoverySteps \cup CleanSteps

TypeOK ==
    /\ exchange \in BOOLEAN
    /\ live \in Text \cup {None}
    /\ staging \in [Plans -> [stg : Text \cup {None, Torn}, bak : Text \cup {None}]]
    /\ journal \in Files(Records \cup {Torn})
    /\ pc \in Running \cup {"idle", "planned"}
    /\ plan \in Plans \cup {None}
    /\ record \in Records \cup {None}
    /\ goal \in {"apply", "recover"}
    /\ outcome \in {"absent", "completed", "aborted", "committed"}
    /\ told \in Decisions \cup {None}
    /\ busy \in BOOLEAN /\ edited \in BOOLEAN /\ damaged \in BOOLEAN
    /\ edits \in 0 .. MaxEdits
    /\ crashes \in 0 .. MaxCrashes

Init ==
    /\ exchange \in BOOLEAN
    /\ live \in {text \in Text : text.rest = "ours"}
    /\ staging = [p \in Plans |-> [stg |-> None, bak |-> None]]
    /\ journal = Settled(None)
    /\ pc = "idle" /\ plan = None /\ record = None
    /\ goal = "apply" /\ outcome = "absent" /\ told = None
    /\ busy = FALSE /\ edited = FALSE /\ damaged = FALSE
    /\ edits = 0 /\ crashes = 0

-----------------------------------------------------------------------------
\* The guarded control file state.json as plan p sees it.
Control(p) == [dst |-> live, stg |-> staging[p].stg, bak |-> staging[p].bak]

Go(label) == pc' = label /\ busy' = FALSE

Decide(label) == Go(label) /\ UNCHANGED <<exchange, disk, memory, past>>

\* The attempt ends with an error; nothing is undone.
Refused == Decide("idle")

WriteState(p, f) ==
    /\ live' = f.dst
    /\ staging' = [staging EXCEPT ![p] = [stg |-> f.stg, bak |-> f.bak]]
    /\ UNCHANGED <<exchange, journal, memory, past>>

WriteJournal(f) ==
    /\ journal' = f
    /\ UNCHANGED <<exchange, live, staging, memory, past>>

\* One call of a guarded replacement has left f behind: the last one or not.
InstallStep(f, new, next) ==
    /\ pc' = IF f = Settled(new) THEN next ELSE pc
    /\ busy' = (f # Settled(new))

InstallJournal(old, new, next) ==
    IF busy \/ Installable(journal, old, new)
    THEN LET f == Replaced(journal, new, exchange)
         IN  WriteJournal(f) /\ InstallStep(f, new, next)
    ELSE Refused

Stage(f, text, Write(_), next) ==
    IF StageAccepts(f, text) THEN Write(Staged(f, text)) /\ Go(next) ELSE Refused

-----------------------------------------------------------------------------
(***************************************************************************)
(* Planning reads state.json without a lock; apply takes the plan whose    *)
(* digest the user confirmed.  recover_executable_trust runs the recovery  *)
(* alone; no command of the program calls it.                              *)
(***************************************************************************)
Plan(d) ==
    /\ pc \in {"idle", "planned"}
    /\ live # None
    /\ plan' = <<live, Decided(live, d)>>
    /\ Go("planned")
    /\ UNCHANGED <<exchange, disk, record, goal, outcome, past>>

Start(purpose) ==
    /\ goal' = purpose /\ outcome' = "absent"
    /\ Go("inspect")
    /\ UNCHANGED <<exchange, disk, plan, record, past>>

Apply   == pc = "planned" /\ Start("apply")
Recover == pc \in {"idle", "planned"} /\ Start("recover")

\* Mutant: the second phase is not known as a successor of the first.
Leads_Never == {}

\* valid_trust_journal_transition: the two phases of one plan.
Leads == {<< <<"prepared", p>>, <<"stateCommitted", p>> >> : p \in Plans}

Verdict == JournalVerdict(journal, Records, Leads)

\* Mutant: the phase decides, which lags behind the replacement of state.json.
Direction_ByPhase(r) ==
    IF r[1] = "stateCommitted" THEN "completed" ELSE "aborted"

(***************************************************************************)
(* inspect_recovery: the direction in which the interrupted plan of record *)
(* r is resolved, from the text of state.json.                             *)
(***************************************************************************)
Direction(r) ==
    LET p       == r[2]
        verdict == Classify(Control(p), p[1], p[2], FALSE)
        seen    == Effective(Control(p), verdict)
    IN  IF verdict = "unknown" THEN "conflict"
        ELSE IF seen = p[2]    THEN "completed"
        ELSE IF r[1] = "prepared" /\ staging[p].stg = p[2] THEN "aborted"
        ELSE "conflict"

\* The attempt ends here, or goes on with the confirmed plan.
Recovered == IF goal = "apply" THEN "refresh" ELSE "idle"

Inspect ==
    /\ pc = "inspect"
    /\ LET seen == JournalSeen(journal, Verdict)
       IN  CASE Verdict = "invalid" -> Refused
             [] Verdict = "absent"  -> Decide(Recovered)
             [] OTHER ->
                  IF Direction(seen) = "conflict"
                  THEN Refused
                  ELSE /\ record' = seen
                       /\ outcome' = Direction(seen)
                       /\ Go("reconcileJournal")
                       /\ UNCHANGED <<exchange, disk, plan, goal, past>>

\* guarded_journal::reconcile, one file-system call at a time.
ReconcileJournal ==
    /\ pc = "reconcileJournal"
    /\ IF busy \/ Verdict \in {"installFirst", "installNext"}
       THEN InstallJournal(journal.dst, record, "reconcileState")
       ELSE CASE Verdict = "restore" ->
                      WriteJournal(Restored(journal)) /\ Go("dropPending")
              [] Verdict = "dropBackup" ->
                      WriteJournal(BackupGone(journal)) /\ Go("reconcileState")
              [] Verdict = "dropStaging" ->
                      WriteJournal(StagingGone(journal)) /\ Go("reconcileState")
              [] OTHER -> Decide("reconcileState")

DropPending ==
    /\ pc = "dropPending"
    /\ WriteJournal(StagingGone(journal))
    /\ Go("reconcileState")

ReconcileState ==
    /\ pc = "reconcileState"
    /\ LET p       == record[2]
           verdict == Classify(Control(p), p[1], p[2], FALSE)
       IN  IF verdict = "unknown"
           THEN Refused
           ELSE WriteState(p, Reconciled(Control(p), verdict)) /\ Go("cleanStaging")

-----------------------------------------------------------------------------
(***************************************************************************)
(* commit_executable_trust after its recovery: the plan is derived again   *)
(* from the locked state.json and must be the confirmed one.               *)
(***************************************************************************)
Report(d) ==
    /\ told' = d
    /\ Go("idle")
    /\ UNCHANGED <<exchange, disk, memory, edited, damaged, edits, crashes>>

\* The attempt goes on to change the decision in force.
BeginCommit ==
    /\ outcome' = "committed" /\ told' = None
    /\ Go("stageState")
    /\ UNCHANGED <<exchange, disk, plan, record, goal, edited, damaged, edits, crashes>>

\* Mutant: any completed recovery passes for the confirmed decision.
Refresh_AnyCompletion ==
    /\ pc = "refresh"
    /\ LET d == plan[2].trust
       IN  IF live = None                       THEN Refused
           ELSE IF live # plan[1]
           THEN IF outcome = "completed"        THEN Report(d) ELSE Refused
           ELSE IF plan[2] = plan[1]            THEN Report(d)
           ELSE BeginCommit

Refresh ==
    /\ pc = "refresh"
    /\ LET d == plan[2].trust
       IN  IF live = None THEN Refused
           ELSE IF live # plan[1]
           THEN IF outcome = "completed" /\ live.trust = d THEN Report(d) ELSE Refused
           ELSE IF plan[2] = plan[1] THEN Report(d)
           ELSE BeginCommit

StageState ==
    /\ pc = "stageState"
    /\ Stage(Control(plan), plan[2], LAMBDA f : WriteState(plan, f), "stageJournal")

StageJournal ==
    /\ pc = "stageJournal"
    /\ Stage(journal, <<"prepared", plan>>, WriteJournal, "firstJournal")

FirstJournal ==
    /\ pc = "firstJournal"
    /\ InstallJournal(None, <<"prepared", plan>>, "installState")

InstallState ==
    /\ pc = "installState"
    /\ IF busy \/ Installable(Control(plan), plan[1], plan[2])
       THEN LET f == Replaced(Control(plan), plan[2], exchange)
            IN  WriteState(plan, f) /\ InstallStep(f, plan[2], "stageCommitted")
       ELSE Refused

StageCommitted ==
    /\ pc = "stageCommitted"
    /\ Stage(journal, <<"stateCommitted", plan>>, WriteJournal, "advance")

Advance ==
    /\ pc = "advance"
    /\ record' = <<"stateCommitted", plan>>
    /\ IF busy \/ Installable(journal, <<"prepared", plan>>, record')
       THEN LET f == Replaced(journal, record', exchange)
            IN  /\ journal' = f
                /\ InstallStep(f, record', "cleanStaging")
                /\ UNCHANGED <<exchange, live, staging, plan, goal, outcome, past>>
       ELSE Go("idle") /\ UNCHANGED <<exchange, disk, plan, goal, outcome, past>>

(***************************************************************************)
(* cleanup_transaction_files: the staging file, then the pending journal,  *)
(* then the journal.                                                       *)
(***************************************************************************)
CleanStaging ==
    /\ pc = "cleanStaging"
    /\ WriteState(record[2], StagingGone(Control(record[2])))
    /\ Go("cleanPending")

CleanPending ==
    /\ pc = "cleanPending"
    /\ WriteJournal(StagingGone(journal))
    /\ Go("cleanJournal")

CleanJournal ==
    /\ pc = "cleanJournal"
    /\ journal' = [journal EXCEPT !.dst = None]
    /\ told' = IF outcome = "committed" THEN plan[2].trust ELSE told
    /\ Go(IF outcome = "committed" THEN "idle" ELSE Recovered)
    /\ UNCHANGED <<exchange, live, staging, memory, edited, damaged, edits, crashes>>

-----------------------------------------------------------------------------
(***************************************************************************)
(* The environment.  Edit is a writer of state.json outside this module,   *)
(* between two guarded replacements.  A crash is one the code does not get *)
(* out of when an abandoned plan has already lost its staging file, or     *)
(* when it cuts short the first write of the pending journal.              *)
(***************************************************************************)
Pending == Held(journal) # {None}

Edit ==
    /\ edits < MaxEdits /\ ~busy
    /\ live' = [rest  |-> "theirs",
                trust |-> IF live = None THEN "unreviewed" ELSE live.trust]
    /\ live' # live
    /\ edits' = edits + 1
    /\ edited' = (edited \/ Pending \/ pc \in CommitSteps)
    /\ UNCHANGED <<exchange, staging, journal, pc, memory, busy, told, damaged, crashes>>

Die(stuck) ==
    /\ pc \in Running
    /\ crashes < MaxCrashes
    /\ crashes' = crashes + 1
    /\ damaged' = (damaged \/ stuck)
    /\ Go("idle")
    /\ UNCHANGED <<exchange, memory, told, edited, edits>>

Crash ==
    /\ Die(pc \in {"cleanPending", "cleanJournal"} /\ live # record[2][2])
    /\ UNCHANGED disk

TearState ==
    /\ pc = "stageState" /\ staging[plan].stg = None
    /\ Die(FALSE)
    /\ staging' = [staging EXCEPT ![plan] = [stg |-> Torn, bak |-> @.bak]]
    /\ UNCHANGED <<live, journal>>

TearJournal ==
    /\ pc \in {"stageJournal", "stageCommitted"} /\ journal.stg = None
    /\ Die(TRUE)
    /\ journal' = [journal EXCEPT !.stg = Torn]
    /\ UNCHANGED <<live, staging>>

Step ==
    \/ Inspect \/ ReconcileJournal \/ DropPending \/ ReconcileState
    \/ Refresh \/ StageState \/ StageJournal \/ FirstJournal \/ InstallState
    \/ StageCommitted \/ Advance
    \/ CleanStaging \/ CleanPending \/ CleanJournal

Next ==
    \/ \E d \in Decisions : Plan(d)
    \/ Apply \/ Recover \/ Step
    \/ Edit \/ Crash \/ TearState \/ TearJournal

Spec == Init /\ [][Next]_vars

\* A running process runs on; the user plans and applies again.
FairSpec ==
    /\ Spec
    /\ WF_vars(Step)
    /\ WF_vars(\E d \in Decisions : Plan(d))
    /\ WF_vars(Apply)

-----------------------------------------------------------------------------
(***************************************************************************)
(* What an attempt or a recovery says is what state.json holds.  A         *)
(* decision reported as in force (Committed, NoOp or Recovered) stays so   *)
(* until a later attempt goes past its freshness check: neither an edit of *)
(* the rest of state.json nor the residue of an earlier plan takes it      *)
(* back.  And the files of an interrupted plan are cleaned up as completed *)
(* with the new text in place, as aborted with the old one.                *)
(***************************************************************************)
OutcomeTrue ==
    /\ told # None => live # None /\ live.trust = told
    /\ pc \in CleanSteps /\ ~edited =>
          live = record[2][IF outcome = "aborted" THEN 1 ELSE 2]

(***************************************************************************)
(* Every interrupted decision is completed or abandoned and its journal    *)
(* goes, unless others wrote state.json meanwhile, a crash damaged the     *)
(* journal or an abandoned plan's staging file, or a crash left no         *)
(* state.json, without which nothing can be planned.                       *)
(***************************************************************************)
Converges == []<>(~Pending) \/ <>[](edited \/ damaged \/ live = None)
=============================================================================
