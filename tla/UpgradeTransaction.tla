------------------------- MODULE UpgradeTransaction -------------------------
(***************************************************************************)
(* The installer's replacement of one installed kitrove executable by      *)
(* another (crates/kitrove-installer): the prepared candidate and the      *)
(* prior executable change places, by one atomic exchange on Unix and by   *)
(* two moves on Windows; phase markers beside them record how far it got;  *)
(* the installed candidate is probed, and a failed probe brings the prior  *)
(* back.  A later command recovers an interrupted operation, and a         *)
(* finished one is retired into the history.                               *)
(*                                                                         *)
(* The installer lock and the locks of the state roots are held, so there  *)
(* is one process at a time.  It may die between any two steps, and so may *)
(* the machine, which loses every directory entry not yet synchronized.    *)
(***************************************************************************)
EXTENDS Naturals, Sequences

CONSTANTS
    Platforms,   \* the platforms explored
    MaxDeaths    \* bound on the crashes of the process or the machine

ASSUME UpgradeAssumption ==
    Platforms \subseteq {"unix", "windows"} /\ MaxDeaths \in Nat

Layouts == {"Original", "Gap", "Published"}
Forward == <<"PriorRetained", "Published", "Verified", "Committed">>
Markers  == {"PriorRetained", "Published", "Replaced", "Verified", "Committed",
            "RestoreRequested", "RolledBack"}

\* Where both executables are, the phase markers, and whether it is history.
Disks == [layout : Layouts, marks : [Markers -> {"none", "pending", "complete"}],
          archived : BOOLEAN]

VARIABLES
    platform,    \* the exchange of unix.rs or the two moves of windows_pair.rs
    shown,       \* the disk, as the file system shows it
    durable,     \* what of it survives a power loss
    step,        \* what the command does next
    task,        \* the marker or move under way, and what follows it
    turns,       \* turns of the loop of recover_placement
    fresh,       \* this process has probed the installed candidate
    moved,       \* the state roots are not the ones the operation was prepared for
    deaths       \* crashes of the process or the machine so far

upgradeVars == <<platform, shown, durable, step, task, turns, fresh, moved, deaths>>

Ended == {"idle", "refused", "installed", "restored", "retired"}
Steps == {"reopen", "placement", "retain", "publish", "record", "probe", "verified",
          "committed", "conclude", "rollback", "sync", "create", "promote", "move",
          "flush", "archive", "history"}

NoTask == [do |-> "none", what |-> "none", then |-> "idle"]

UpgradeTyped ==
    /\ platform \in Platforms
    /\ shown \in Disks /\ durable \in Disks
    /\ step \in Ended \cup Steps
    /\ task \in [do : {"none"} \cup Steps \cup Ended,
                 what : {"none"} \cup Markers \cup Layouts, then : Steps \cup Ended]
    /\ turns \in 0 .. 5
    /\ fresh \in BOOLEAN /\ moved \in BOOLEAN
    /\ deaths \in 0 .. MaxDeaths

\* prepare has retained the rollback kit and staged the candidate.
Prepared == [layout |-> "Original", marks |-> [p \in Markers |-> "none"], archived |-> FALSE]

UpgradeInit ==
    /\ platform \in Platforms
    /\ shown = Prepared /\ durable = Prepared
    /\ step = "idle" /\ task = NoTask /\ turns = 0 /\ fresh = FALSE
    /\ moved = FALSE /\ deaths = 0

layout   == shown.layout
Complete == {p \in Markers : shown.marks[p] = "complete"}
Pending  == {p \in Markers : shown.marks[p] = "pending"}

-----------------------------------------------------------------------------
(***************************************************************************)
(* The grammar of the phase markers (windows_journal_policy.rs,            *)
(* windows_recovery_plan.rs, replacement_phase.rs), over the complete and  *)
(* the pending ones.  "Original" is Restored and "Published" Exchanged on  *)
(* Unix, which has no gap.                                                 *)
(***************************************************************************)
ForwardSet == {Forward[i] : i \in 1 .. 4}
Prefix(n)  == {Forward[i] : i \in 1 .. n}

ValidHistory(complete, pending) ==
    /\ \E n \in 0 .. 4 : /\ complete \cap ForwardSet = Prefix(n)
                         /\ pending \cap ForwardSet \subseteq {Forward[i] : i \in (n + 1) .. 4}
                         /\ \A i \in (n + 2) .. 4 : Forward[i] \notin pending
    /\ "RolledBack" \in complete \cup pending => "RestoreRequested" \in complete

\* Mutant: a retention marker half written does not belong to a gap.
RequireLayout_Strict(l, complete, pending) ==
    LET restored  == "RolledBack" \in complete \cup pending
        restoring == "RestoreRequested" \in complete
        forward   == complete \cap ForwardSet
    IN  /\ ValidHistory(complete, pending)
        /\ CASE l = "Original"  -> restoring \/ complete \cup pending = {}
             [] l = "Gap"       -> ~ restored /\ (restoring \/ pending \cap ForwardSet = {})
             [] l = "Published" -> ~ restored /\ forward # {}

RequireLayout(l, complete, pending) ==
    LET restored  == "RolledBack" \in complete \cup pending
        restoring == "RestoreRequested" \in complete
        forward   == complete \cap ForwardSet
        next      == pending \cap ForwardSet
    IN  /\ ValidHistory(complete, pending)
        /\ CASE l = "Original"  -> restoring \/ complete \cup pending = {}
             [] l = "Gap"       -> /\ ~ restored
                                   /\ \/ restoring
                                      \/ forward = {} /\ next \subseteq {"PriorRetained"}
                                      \/ forward = {"PriorRetained"} /\ next = {}
             [] l = "Published" -> ~ restored /\ forward # {}

RequirePhaseOrder(l, complete, pending) ==
    /\ "Verified" \in complete   => "Replaced" \in complete
    /\ "Committed" \in complete  => "Verified" \in complete
    /\ "RolledBack" \in complete => "Replaced" \in complete /\ l = "Original"
    /\ "Replaced" \in pending    => complete = {} /\ pending = {"Replaced"} /\ l = "Published"
    /\ "Verified" \in pending    => "Replaced" \in complete
    /\ "Committed" \in pending   => "Verified" \in complete
    /\ "RolledBack" \in pending  => "Replaced" \in complete /\ l = "Original"

Legal(l, complete, pending) ==
    IF platform = "windows" THEN RequireLayout(l, complete, pending)
                            ELSE RequirePhaseOrder(l, complete, pending)

RequireWrite(phase) ==
    /\ phase \notin Complete
    /\ CASE phase = "PriorRetained" ->
                /\ layout = "Gap" /\ Complete = {}
                /\ "RestoreRequested" \notin Pending
         [] phase = "Published" ->
                /\ layout = "Published" /\ Complete = {"PriorRetained"}
                /\ "RestoreRequested" \notin Pending
         [] phase = "RestoreRequested" -> layout \in {"Gap", "Published"}
         [] phase = "RolledBack" -> layout = "Original" /\ "RestoreRequested" \in Complete
    /\ ValidHistory(Complete, Pending \cup {phase})

\* The two phases that only a fresh probe earns.
Earned == {"Verified", "Committed"}

RequireProbeWrite(phase) ==
    /\ layout = "Published" /\ Pending \subseteq {phase}
    /\ Complete = Prefix(IF phase = "Verified" THEN 2 ELSE 3)

MayRecord(phase) ==
    IF platform = "unix"
    THEN phase \notin Complete /\ RequirePhaseOrder(layout, Complete, Pending \cup {phase})
    ELSE IF phase \in Earned THEN RequireProbeWrite(phase) ELSE RequireWrite(phase)

RequireMove(next) ==
    LET restoring == "RestoreRequested" \in Complete /\ "RolledBack" \notin Complete
    IN  CASE <<layout, next>> = <<"Original", "Gap">>  -> Complete \cup Pending = {}
          [] <<layout, next>> = <<"Gap", "Published">> ->
                 Complete = {"PriorRetained"} /\ Pending = {}
          [] <<layout, next>> \in {<<"Published", "Gap">>, <<"Gap", "Original">>} ->
                 restoring /\ Pending \cap {"RestoreRequested", "RolledBack"} = {}
          [] OTHER -> FALSE

\* The last complete phase in the order of PHASES.
LastPhase ==
    IF "RolledBack" \in Complete THEN "RolledBack"
    ELSE IF "RestoreRequested" \in Complete THEN "RestoreRequested"
    ELSE IF Complete = {} THEN "Prepared"
    ELSE Forward[CHOOSE n \in 1 .. 4 : Complete = Prefix(n)]

\* placement_recovery_step, next_step: one step, never a whole sequence.
RecoveryStep ==
    IF "RestoreRequested" \in Pending THEN "RecordRestorationIntent"
    ELSE CASE
         layout = "Original" /\ LastPhase = "Prepared"         -> "Prepared"
      [] layout = "Original" /\ LastPhase = "RestoreRequested" -> "CompleteRestoration"
      [] layout = "Original" /\ LastPhase = "RolledBack"       -> "Restored"
      [] layout = "Gap" /\ LastPhase \in {"Prepared", "PriorRetained"} -> "RecordRestorationIntent"
      [] layout = "Gap" /\ LastPhase = "RestoreRequested"      -> "RestorePrior"
      [] layout = "Published" /\ LastPhase \in ForwardSet      -> "ProbeCandidate"
      [] layout = "Published" /\ LastPhase = "RestoreRequested" -> "WithdrawCandidate"
      [] OTHER -> "none"

\* Mutant: a restoration that is only begun does not count.
Terminal_IgnoresIntent ==
    IF platform = "windows"
    THEN \/ "RolledBack" \in Complete /\ layout = "Original"
         \/ "Committed" \in Complete /\ layout = "Published"
    ELSE (IF layout = "Published" THEN "Committed" ELSE "RolledBack") \in Complete

\* terminal_layout, and the terminal marker the Unix retirement asks for.
Terminal ==
    IF platform = "windows"
    THEN \/ "RolledBack" \in Complete /\ layout = "Original"
         \/ /\ "Committed" \in Complete /\ layout = "Published"
            /\ "RestoreRequested" \notin Complete \cup Pending
    ELSE (IF layout = "Published" THEN "Committed" ELSE "RolledBack") \in Complete

-----------------------------------------------------------------------------
Go(label)       == step' = label /\ UNCHANGED task
Begin(t, label) == step' = label /\ task' = t
FilesKept       == UNCHANGED <<platform, shown, durable, moved, deaths>>

Decide(label) == Go(label) /\ FilesKept

\* RecoveryRequired: the command ends, everything stays where it is.
RefuseUpgrade == Decide("refused")

\* record_with_hook, which synchronizes first, and write_marker, which does not.
Record(phase, then) ==
    IF MayRecord(phase)
    THEN Begin([do |-> "create", what |-> phase, then |-> then],
               IF platform = "windows" THEN "sync" ELSE "create")
         /\ FilesKept
    ELSE RefuseUpgrade

RecordOnce(phase, then) ==
    /\ UNCHANGED <<turns, fresh>>
    /\ IF phase \in Complete THEN Decide(then) ELSE Record(phase, then)

\* move_to and exchange.
MoveTo(next, then) ==
    IF platform = "unix" \/ RequireMove(next)
    THEN Begin([do |-> "move", what |-> next, then |-> then],
               IF platform = "windows" THEN "sync" ELSE "move")
         /\ FilesKept
    ELSE RefuseUpgrade

\* sync_markers and sync_pair, before what comes next.
SyncThen(label) ==
    /\ Begin([do |-> label, what |-> "none", then |-> "idle"], "sync")
    /\ FilesKept

(***************************************************************************)
(* The steps a marker, a move and a synchronization are made of.  A marker *)
(* is written and synced under its pending name, which recovery completes  *)
(* when it finds it, and renamed.                                          *)
(***************************************************************************)
\* Both executables, the markers and both directories; a Unix retirement leaves
\* the destination directory to the attempt that recorded the outcome.
Sync ==
    /\ step = "sync" /\ Go(task.do)
    /\ durable' = IF platform = "unix" /\ task.do = "archive"
                  THEN [durable EXCEPT !.marks = shown.marks] ELSE shown
    /\ UNCHANGED <<platform, shown, turns, fresh, moved, deaths>>

Create ==
    /\ step = "create"
    /\ shown' = [shown EXCEPT !.marks[task.what] = "pending"] /\ Go("promote")
    /\ UNCHANGED <<platform, durable, turns, fresh, moved, deaths>>

PromoteMarker ==
    /\ step = "promote"
    /\ shown' = [shown EXCEPT !.marks[task.what] = "complete"] /\ Go("flush")
    /\ UNCHANGED <<platform, durable, turns, fresh, moved, deaths>>

MoveFile ==
    /\ step = "move"
    /\ shown' = [shown EXCEPT !.layout = task.what] /\ Go("flush")
    /\ UNCHANGED <<platform, durable, turns, fresh, moved, deaths>>

\* Mutant: a published marker is not synchronized.
Flush_MovesOnly ==
    /\ step = "flush"
    /\ durable' = IF task.do = "move" THEN shown ELSE durable
    /\ Go(task.then)
    /\ UNCHANGED <<platform, shown, turns, fresh, moved, deaths>>

\* Both directories after a move, the operation directory after a marker.
Flush ==
    /\ step = "flush"
    /\ durable' = IF task.do = "move" THEN shown ELSE [durable EXCEPT !.marks = shown.marks]
    /\ Go(task.then)
    /\ UNCHANGED <<platform, shown, turns, fresh, moved, deaths>>

(***************************************************************************)
(* An attempt: the first command or a recovery, which differ only in what  *)
(* they find.  Both ask for the state roots the operation was prepared     *)
(* for, content included.                                                  *)
(***************************************************************************)
Attempt ==
    /\ step \in Ended /\ ~ shown.archived
    /\ Go(IF moved THEN "refused" ELSE IF platform = "windows" THEN "placement" ELSE "reopen")
    /\ turns' = 0 /\ fresh' = FALSE
    /\ FilesKept

\* Mutant: a pair in its original places is published, whatever is recorded.
Reopen_Resumes ==
    /\ step = "reopen"
    /\ UNCHANGED <<turns, fresh>>
    /\ IF layout = "Original" THEN MoveTo("Published", "record") ELSE SyncThen("record")

\* recover_direction_with, after the pair and the markers are authenticated.
Reopen ==
    /\ step = "reopen"
    /\ UNCHANGED <<turns, fresh>>
    /\ CASE layout = "Original" /\ Complete = {} -> MoveTo("Published", "record")
         [] layout = "Original" /\ Complete # {} -> SyncThen("rollback")
         [] OTHER                                -> SyncThen("record")

\* recover_placement: at most five turns.
Placement ==
    /\ step = "placement" /\ UNCHANGED fresh
    /\ turns' = IF turns < 5 THEN turns + 1 ELSE turns
    /\ IF turns = 5 THEN RefuseUpgrade
       ELSE CASE RecoveryStep = "Prepared"                -> MoveTo("Gap", "retain")
              [] RecoveryStep = "ProbeCandidate"          -> Decide("record")
              [] RecoveryStep = "Restored"                -> SyncThen("restored")
              [] RecoveryStep = "RecordRestorationIntent" -> Record("RestoreRequested", "placement")
              [] RecoveryStep = "CompleteRestoration"     -> Record("RolledBack", "placement")
              [] RecoveryStep = "WithdrawCandidate"       -> MoveTo("Gap", "placement")
              [] RecoveryStep = "RestorePrior"            -> MoveTo("Original", "placement")
              [] OTHER -> RefuseUpgrade

\* publish_prepared: the prior's retention is recorded before the candidate moves.
RecordRetention == step = "retain" /\ RecordOnce("PriorRetained", "publish")

Publish == step = "publish" /\ MoveTo("Published", "record") /\ UNCHANGED <<turns, fresh>>

RecordReplacement ==
    /\ step = "record"
    /\ IF platform = "unix" THEN RecordOnce("Replaced", "probe")
       ELSE IF "Published" \in Complete THEN SyncThen("probe") /\ UNCHANGED <<turns, fresh>>
       ELSE RecordOnce("Published", "record")

\* verify_installed_application: either answer, every time.
Probe ==
    /\ step = "probe" /\ turns' = 0
    /\ \/ fresh' = TRUE /\ Decide("verified")
       \/ /\ fresh' = FALSE
          /\ IF platform = "unix" THEN MoveTo("Original", "rollback")
                                  ELSE Record("RestoreRequested", "placement")

RecordVerified  == step = "verified" /\ RecordOnce("Verified", "committed")
RecordCommitted == step = "committed" /\ RecordOnce("Committed", "conclude")

Conclude ==
    /\ step = "conclude" /\ UNCHANGED <<turns, fresh>>
    /\ IF platform = "windows" THEN SyncThen("installed")
       ELSE Decide("installed")

RecordRollback == step = "rollback" /\ RecordOnce("RolledBack", "restored")

(***************************************************************************)
(* retire_completed: the operation directory moves into the history and    *)
(* both directories are synchronized, which the command history-sync does  *)
(* again after a retirement that was interrupted.                          *)
(***************************************************************************)
Retire ==
    /\ step \in Ended /\ ~ shown.archived
    /\ Legal(layout, Complete, Pending) /\ Terminal
    /\ SyncThen("archive") /\ UNCHANGED <<turns, fresh>>

Archive ==
    /\ step = "archive"
    /\ shown' = [shown EXCEPT !.archived = TRUE] /\ Go("history")
    /\ UNCHANGED <<platform, durable, turns, fresh, moved, deaths>>

HistorySync ==
    /\ step \in Ended \ {"retired"} /\ shown.archived
    /\ Decide("history") /\ UNCHANGED <<turns, fresh>>

SyncHistory ==
    /\ step = "history"
    /\ durable' = shown /\ Go("retired")
    /\ UNCHANGED <<platform, shown, turns, fresh, moved, deaths>>

-----------------------------------------------------------------------------
\* Every boundary revalidates the pair and its markers.
UpgradeStep ==
    \/ Attempt
    \/ /\ step \in Steps
       /\ IF ~ Legal(layout, Complete, Pending)
          THEN RefuseUpgrade /\ UNCHANGED <<turns, fresh>>
          ELSE \/ Reopen
               \/ Placement
               \/ RecordRetention
               \/ Publish
               \/ RecordReplacement
               \/ Probe
               \/ RecordVerified
               \/ RecordCommitted
               \/ Conclude
               \/ RecordRollback
               \/ Sync
               \/ Create
               \/ PromoteMarker
               \/ MoveFile
               \/ Flush
               \/ Archive
               \/ SyncHistory

Dies ==
    /\ deaths < MaxDeaths
    /\ deaths' = deaths + 1
    /\ step' = "idle" /\ task' = NoTask /\ turns' = 0 /\ fresh' = FALSE
    /\ UNCHANGED <<platform, moved>>

Death == step \in Steps /\ Dies /\ UNCHANGED <<shown, durable>>

\* Of what is not synchronized any part may be there after the restart, a
\* renamed marker also under its pending name.
PowerLoss ==
    /\ shown # durable /\ Dies
    /\ \E l \in {shown.layout, durable.layout}, a \in {shown.archived, durable.archived},
          lost \in SUBSET {p \in Markers : shown.marks[p] # durable.marks[p]} :
         \E half \in SUBSET {p \in lost : shown.marks[p] = "complete"} :
           shown' = [layout |-> l, archived |-> a,
                    marks |-> [p \in Markers |-> IF p \in half THEN "pending"
                                                ELSE IF p \in lost THEN durable.marks[p]
                                                ELSE shown.marks[p]]]
    /\ durable' = shown'

\* The installed kitrove, or anybody else, writes a state root between commands.
ChangeState ==
    /\ step \in Ended /\ ~ moved
    /\ moved' = TRUE
    /\ UNCHANGED <<platform, shown, durable, step, task, turns, fresh, deaths>>

Finished == step = "retired" /\ UNCHANGED upgradeVars

UpgradeNext ==
    \/ UpgradeStep
    \/ Retire
    \/ HistorySync
    \/ Death
    \/ PowerLoss
    \/ ChangeState
    \/ Finished

UpgradeSpec == UpgradeInit /\ [][UpgradeNext]_upgradeVars

FairUpgrade == UpgradeSpec /\ WF_upgradeVars(UpgradeStep)
-----------------------------------------------------------------------------
(***************************************************************************)
(* Recorded intent wins: once the request to restore the prior, or the     *)
(* rollback itself, is durable, the candidate is never put (back) in place *)
(* and never verified or committed: "Recovery must honor that intent even  *)
(* if interruption left the candidate installed" (ADR 0040).               *)
(***************************************************************************)
Restoring(d) == "complete" \in {d.marks["RestoreRequested"], d.marks["RolledBack"]}

IntentHonored ==
    [][Restoring(durable) =>
         /\ Restoring(durable')
         /\ durable.layout # "Published" => durable'.layout # "Published"
         /\ \A p \in {"Verified", "Committed"} :
              durable'.marks[p] = "complete" => durable.marks[p] = "complete"]_upgradeVars

(***************************************************************************)
(* What a command reports, and what the history holds, survives a power    *)
(* loss.  Installed: this very process probed the candidate, which is in   *)
(* place and committed ("Fresh contained probing is required even when     *)
(* retained history says committed").  Restored: the prior is back and the *)
(* rollback recorded.  In the history: one of the two, with no restoration *)
(* left half done.  Disk and durable disk stay well typed.                 *)
(***************************************************************************)
CommittedFor(d) ==
    /\ d.layout = "Published" /\ d.marks["Committed"] = "complete"
    /\ d.marks["RestoreRequested"] = "none" /\ ~ Restoring(d)

RestoredFor(d) == d.layout = "Original" /\ d.marks["RolledBack"] = "complete"

OutcomeIsDurable ==
    /\ UpgradeTyped
    /\ step = "installed" => fresh /\ CommittedFor(durable)
    /\ step = "restored"  => RestoredFor(durable)
    /\ step = "retired"   => durable.archived
    /\ shown.archived    => CommittedFor(durable) \/ RestoredFor(durable)

(***************************************************************************)
(* After finitely many crashes the attempts end with the candidate         *)
(* committed or the prior restored: no reachable combination of layout and *)
(* markers is refused for ever.  A change of the state roots after the     *)
(* operation was prepared is.                                              *)
(***************************************************************************)
UpgradeConverges == <>(step \in {"installed", "restored"} \/ shown.archived \/ moved)
=============================================================================
