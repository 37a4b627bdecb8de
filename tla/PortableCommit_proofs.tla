----------------------- MODULE PortableCommit_proofs -----------------------
(***************************************************************************)
(* Theorems about PortableCommit, for every set of objects, any number of  *)
(* edits and crashes (also inside a write), and both kinds of replacement. *)
(***************************************************************************)
EXTENDS PortableCommit, TLAPS

Labels  == Steps \cup {"idle", "refused", "done"}
Records == Phases \cup {Torn}

-----------------------------------------------------------------------------
(***************************************************************************)
(* Lemmas about guarded files.                                             *)
(***************************************************************************)

\* Every mutation of the three files takes three files to three files.
LEMMA MutationsTyped ==
    ASSUME NEW T, NEW f \in Files(T)
    PROVE  /\ \A t \in T : Staged(f, t) \in Files(T)
           /\ \A new, exch : Replaced(f, new, exch) \in Files(T)
           /\ \A v : Reconciled(f, v) \in Files(T)
           /\ Restored(f) \in Files(T)
           /\ StagingGone(f) \in Files(T)
           /\ BackupGone(f) \in Files(T)
    BY DEF Files, Exchanged, Parked, Placed, Restored, StagingGone, BackupGone, Staged,
           Replaced, Reconciled

\* What the inspection of a journal that is there works from is a phase.
LEMMA JournalSeenIsPhase ==
    ASSUME NEW j \in Files(Records),
           JournalVerdict(j, Phases, Advances) \notin {"invalid", "absent"}
    PROVE  JournalSeen(j, JournalVerdict(j, Phases, Advances)) \in Phases \cap Held(j)
    BY CommitAssumption DEF JournalVerdict, JournalSeen, Held, Files

\* A control file that is recognised is read as the old or the new text.
LEMMA SeenIsKnown ==
    ASSUME NEW c \in Control, Verdict(c) # "unknown"
    PROVE  Seen(c) \in {"old", "new"}
    BY DEF Verdict, Seen, Classify, Effective

-----------------------------------------------------------------------------
(***************************************************************************)
(* Type correctness.                                                       *)
(***************************************************************************)
LEMMA TypeInit == Init => TypeOK
<1> USE CommitAssumption
<1> SUFFICES ASSUME Init PROVE TypeOK
    OBVIOUS
<1>1. control \in [Control -> Files(Text)]
    BY DEF Init, Files, Settled, Text
<1>2. journal \in Files(Records)
    BY DEF Init, Files, Settled
<1>3. phase \in Phases /\ was \in [Control -> {"old", "new"}]
    BY DEF Init, Phases, Prepared, Complete, Unread
<1>4. edits \in 0 .. MaxEdits /\ crashes \in 0 .. MaxCrashes
    BY DEF Init
<1>5. QED
    BY <1>1, <1>2, <1>3, <1>4 DEF Init, TypeOK, Records

LEMMA TypeStep == TypeOK /\ [Next]_vars => TypeOK'
<1> USE CommitAssumption
<1> SUFFICES ASSUME TypeOK, [Next]_vars PROVE TypeOK'
    OBVIOUS
<1>0. /\ control \in [Control -> Files(Text)] /\ journal \in Files(Records)
      /\ {"manifest", "lock"} = Control /\ phase \in Nat /\ phase \in Phases
      /\ {"old", "new", "foreign", Torn} = Text /\ Torn \in Records /\ Prepared \in Records
      /\ Phases = 1 .. 5 /\ Phases \subseteq Records
    BY DEF TypeOK, Control, Text, Records, Phases, Prepared, Complete
<1>1. ASSUME NEW l \in Labels, Decide(l) PROVE TypeOK'
    BY <1>1 DEF Decide, Go, TypeOK, disk, memory, ghosts, Labels
<1>2. ASSUME NEW c \in Control, NEW f \in Files(Text), WriteControl(c, f),
             pc' \in Labels, busy' \in BOOLEAN
      PROVE  TypeOK'
    BY <1>2 DEF WriteControl, TypeOK, memory, ghosts, Labels
<1>3. ASSUME NEW f \in Files(Records), WriteJournal(f), pc' \in Labels, busy' \in BOOLEAN,
             recovering' = recovering, phase' \in Phases, was' = was
      PROVE  TypeOK'
    BY <1>3 DEF WriteJournal, TypeOK, ghosts, Labels, Records
<1>4. \A c \in Control : control[c] \in Files(Text)
    BY <1>0
<1>5. CASE Attempt
    <2> DEFINE v == JournalVerdict(journal, Phases, Advances)
    <2>1. ASSUME v \notin {"invalid", "absent"}, BeginRecovery(v) PROVE TypeOK'
        <3>1. CASE Refuse
            BY <1>1, <3>1 DEF Refuse, Labels
        <3>2. CASE /\ \A c \in Control : Verdict(c) # "unknown"
                   /\ recovering' = TRUE
                   /\ phase' = JournalSeen(journal, v)
                   /\ was' = [c \in Control |-> Seen(c)]
                   /\ Go("reconcileJournal")
                   /\ UNCHANGED <<disk, ghosts>>
            <4>1. phase' \in Phases
                BY <1>0, <2>1, <3>2, JournalSeenIsPhase
            <4>2. was' \in [Control -> {"old", "new"}]
                BY <3>2, SeenIsKnown
            <4>3. QED
                BY <3>2, <4>1, <4>2 DEF Go, TypeOK, disk, ghosts, Steps
        <3>3. QED
            BY <2>1, <3>1, <3>2 DEF BeginRecovery
    <2>2. QED
        BY <1>1, <1>5, <2>1 DEF Attempt, Refuse, Labels, Steps
<1>6. CASE ReconcileJournal
    <2>1. ASSUME NEW f \in Files(Records), WriteJournal(f), UNCHANGED memory,
                 pc' \in Labels, busy' \in BOOLEAN
          PROVE  TypeOK'
        BY <1>0, <1>3, <2>1 DEF memory
    <2>2. QED
        BY <1>0, <1>1, <1>6, <2>1, MutationsTyped
           DEF ReconcileJournal, InstallStep, Refuse, Go, Labels, Steps
<1>7. CASE DropPending \/ CleanPending
    BY <1>0, <1>3, <1>7, MutationsTyped DEF DropPending, CleanPending, Go, memory, Labels, Steps
<1>8. CASE CleanJournal
    <2>1. [journal EXCEPT !.dst = None] \in Files(Records)
        BY <1>0 DEF Files
    <2>2. QED
        BY <1>0, <1>3, <1>8, <2>1 DEF CleanJournal, Go, memory, Labels
<1>9. ASSUME NEW c \in Control, NEW label, NEW next \in Steps, ReconcileControl(c, label, next)
      PROVE  TypeOK'
    BY <1>1, <1>2, <1>4, <1>9, MutationsTyped DEF ReconcileControl, Refuse, Go, Labels
<1>10. CASE StageObjects
    <2>1. CASE \E o \in Objects :
                 /\ staged[o] = "none"
                 /\ staged' = [staged EXCEPT ![o] = "full"]
                 /\ UNCHANGED <<control, journal, installed, pc, memory, busy, ghosts>>
        BY <2>1 DEF TypeOK, memory, ghosts
    <2>2. QED
        BY <1>1, <1>10, <2>1 DEF StageObjects, Refuse, Labels, Steps
<1>11. ASSUME NEW c \in Control, NEW label, NEW next \in Steps, StageControl(c, label, next)
       PROVE  TypeOK'
    BY <1>0, <1>1, <1>2, <1>4, <1>11, MutationsTyped DEF StageControl, Refuse, Go, Labels
<1>12. CASE StageJournal
    BY <1>0, <1>1, <1>3, <1>12, MutationsTyped
       DEF StageJournal, Refuse, Go, memory, Labels, Steps
<1>13. CASE FirstJournal
    <2>1. Replaced(journal, Prepared, exchange) \in Files(Records) /\ Prepared \in Phases
        BY <1>0, MutationsTyped DEF Prepared
    <2>2. QED
        BY <1>1, <1>3, <1>13, <2>1 DEF FirstJournal, InstallStep, Refuse, Labels, Steps
<1>14. ASSUME NEW target \in 2 .. 5, NEW label \in Steps, NEW next \in Steps,
              AdvanceTo(target, label, next)
       PROVE  TypeOK'
    <2>1. CASE phase >= target
        BY <1>1, <1>14, <2>1 DEF AdvanceTo, Labels
    <2>2. CASE phase < target
        <3>1. phase + 1 \in Phases /\ phase + 1 \in Records /\ ~ (phase >= target)
            BY <1>0, <2>2
        <3>2. CASE Refuse
            BY <1>1, <3>2 DEF Refuse, Labels
        <3>3. ASSUME NEW f \in Files(Records), WriteJournal(f),
                     phase' = (IF f = Settled(phase + 1) THEN phase + 1 ELSE phase),
                     UNCHANGED <<recovering, was>>, pc' \in Labels, busy' \in BOOLEAN
              PROVE  TypeOK'
            BY <1>0, <1>3, <3>1, <3>3
        <3>4. QED
            BY <1>0, <1>14, <3>1, <3>2, <3>3, MutationsTyped
               DEF AdvanceTo, InstallStep, Go, Labels
    <2>3. QED
        BY <1>0, <2>1, <2>2
<1>15. CASE InstallObjects
    <2>1. CASE \E o \in Objects :
                 /\ staged[o] # "none"
                 /\ staged' = [staged EXCEPT ![o] = "none"]
                 /\ installed' = installed \cup {o}
                 /\ UNCHANGED <<control, journal, pc, memory, busy, ghosts>>
        BY <2>1 DEF TypeOK, memory, ghosts
    <2>2. QED
        BY <1>1, <1>15, <2>1 DEF InstallObjects, Labels, Steps
<1>16. ASSUME NEW c \in Control, NEW label \in Steps, NEW next \in Steps,
              CommitControl(c, label, next)
       PROVE  TypeOK'
    BY <1>1, <1>2, <1>4, <1>16, MutationsTyped
       DEF CommitControl, ReplaceControl, InstallStep, Refuse, Go, Labels
<1>17. CASE Verify
    BY <1>1, <1>17 DEF Verify, Refuse, Labels, Steps
<1>18. CASE CleanObjects
    BY <1>18 DEF CleanObjects, Go, TypeOK, memory, ghosts, Steps
<1>19. ASSUME NEW c \in Control, NEW label, NEW next \in Steps, CleanControl(c, label, next)
       PROVE  TypeOK'
    BY <1>2, <1>4, <1>19, MutationsTyped DEF CleanControl, Go, Labels
<1>20. ASSUME NEW d \in BOOLEAN, Dies(d),
              control' \in [Control -> Files(Text)], journal' \in Files(Records),
              staged' \in [Objects -> {"none", "partial", "full"}], installed' = installed
       PROVE  TypeOK'
    <2>1. crashes' \in 0 .. MaxCrashes /\ edits' \in 0 .. MaxEdits
        BY <1>20 DEF Dies, TypeOK
    <2>2. damaged' \in BOOLEAN /\ busy' \in BOOLEAN /\ recovering' \in BOOLEAN
        BY <1>20 DEF Dies, TypeOK
    <2>3. phase' \in Phases /\ was' \in [Control -> {"old", "new"}]
        BY <1>0, <1>20 DEF Dies, Unread, Prepared
    <2>4. QED
        BY <1>0, <1>20, <2>1, <2>2, <2>3 DEF Dies, TypeOK, Records
<1>21. CASE Crash
    BY <1>0, <1>20, <1>21 DEF Crash, Displaced, disk, TypeOK
<1>22. CASE TearObject
    BY <1>0, <1>20, <1>22 DEF TearObject, TypeOK
<1>23. ASSUME NEW c \in Control, NEW label, TearControl(c, label) PROVE TypeOK'
    <2>1. Staged(control[c], Torn) \in Files(Text)
        BY <1>0, <1>4, MutationsTyped
    <2>2. QED
        BY <1>0, <1>20, <1>23, <2>1 DEF TearControl, TypeOK
<1>24. CASE TearJournal
    BY <1>0, <1>20, <1>24, MutationsTyped DEF TearJournal, TypeOK
<1>25. ASSUME NEW c \in Control, Edit(c) PROVE TypeOK'
    <2>1. [control[c] EXCEPT !.dst = "foreign"] \in Files(Text)
        BY <1>0, <1>4 DEF Files
    <2>2. control' = [control EXCEPT ![c] = [control[c] EXCEPT !.dst = "foreign"]]
        BY <1>25 DEF Edit
    <2>3. QED
        BY <1>25, <2>1, <2>2 DEF Edit, TypeOK, memory
<1>26. CASE UNCHANGED vars
    BY <1>26 DEF vars, TypeOK
<1>27. ASSUME Step PROVE TypeOK'
    <2>1. /\ "manifest" \in Control /\ "lock" \in Control
          /\ {ObjectsInstalled, ManifestCommitted, LockCommitted, Complete} \subseteq 2 .. 5
        BY <1>0 DEF ObjectsInstalled, ManifestCommitted, LockCommitted, Complete
    <2>2. CASE ReconcileControl("manifest", "reconcileManifest", "reconcileLock")
        BY <1>9, <2>1, <2>2 DEF Steps
    <2>3. CASE ReconcileControl("lock", "reconcileLock", "stageObjects")
        BY <1>9, <2>1, <2>3 DEF Steps
    <2>4. CASE \/ StageControl("manifest", "stageManifest", "stageLock")
               \/ StageControl("lock", "stageLock",
                               IF recovering THEN "installObjects" ELSE "stageJournal")
        BY <1>11, <2>1, <2>4 DEF Steps
    <2>5. CASE \/ AdvanceTo(ObjectsInstalled, "advanceObjects", "commitManifest")
               \/ AdvanceTo(ManifestCommitted, "advanceManifest", "commitLock")
        BY <1>14, <2>1, <2>5 DEF Steps
    <2>6. CASE \/ AdvanceTo(LockCommitted, "advanceLock", "verify")
               \/ AdvanceTo(Complete, "advanceComplete", "cleanObjects")
        BY <1>14, <2>1, <2>6 DEF Steps
    <2>7. CASE \/ CommitControl("manifest", "commitManifest", "advanceManifest")
               \/ CommitControl("lock", "commitLock", "advanceLock")
        BY <1>16, <2>1, <2>7 DEF Steps
    <2>8. CASE \/ CleanControl("manifest", "cleanManifest", "cleanLock")
               \/ CleanControl("lock", "cleanLock", "cleanPending")
        BY <1>19, <2>1, <2>8 DEF Steps
    <2>9. QED
        BY <1>5, <1>6, <1>7, <1>8, <1>10, <1>12, <1>13, <1>15, <1>17, <1>18, <1>27, <2>2,
           <2>3, <2>4, <2>5, <2>6, <2>7, <2>8 DEF Step
<1>28. QED
    BY <1>0, <1>21, <1>22, <1>23, <1>24, <1>25, <1>26, <1>27 DEF Next, Finished

(***************************************************************************)
(* Type correctness of the commit and its recovery.                        *)
(***************************************************************************)
THEOREM TypeCorrect == Spec => []TypeOK
    BY TypeInit, TypeStep, PTL DEF Spec
-----------------------------------------------------------------------------
(***************************************************************************)
(* Undisturbed, each phase stands for effects that are durable.  Neither   *)
(* Ordered nor JournalHonest is inductive: both rest on what the position  *)
(* of the attempt says of the disk, and on the shape of a control file in  *)
(* the middle of its replacement.                                          *)
(***************************************************************************)
PastManifest == {"advanceManifest", "commitLock", "advanceLock", "verify", "advanceComplete",
                 "cleanObjects", "cleanManifest", "cleanLock", "cleanPending", "cleanJournal"}
PastLock     == PastManifest \ {"advanceManifest", "commitLock"}
PastObjects  == PastManifest \cup {"advanceObjects", "commitManifest"}

Committed(c) == control[c].dst = "new"

\* The live file is missing only between the two moves of a replacement.
Shape(f) ==
    /\ f.dst \in {None, "old", "new"}
    /\ f.bak \in {None, "old"}
    /\ f.dst = None => f.stg = "new" /\ f.bak = "old"

Shapes == \A c \in Control : Shape(control[c])

Remembered == \A c \in Control : was[c] = "new" => Committed(c)

Begun ==
    /\ busy /\ pc = "commitManifest" => control["manifest"].dst # "old"
    /\ busy /\ pc = "commitLock" => control["lock"].dst # "old"

\* What is durable when the attempt stands at a label.
Position(l) ==
    /\ l \in {"stageManifest", "stageLock", "stageJournal", "firstJournal"}
         => \A o \in Objects : staged[o] # "none"
    /\ l = "installObjects" => \A o \in Objects : staged[o] = "none" => o \in installed
    /\ l \in PastObjects  => Objects \subseteq installed
    /\ l \in PastManifest => Committed("manifest")
    /\ l \in PastLock     => Committed("lock")

InOrder ==
    /\ Committed("manifest") => Objects \subseteq installed
    /\ Committed("lock") => Committed("manifest")

Effect(p) ==
    /\ p >= ObjectsInstalled  => Objects \subseteq installed
    /\ p >= ManifestCommitted => Committed("manifest")
    /\ p >= LockCommitted     => Committed("lock")

Honest == Effect(phase) /\ \A p \in Held(journal) \cap Phases : Effect(p)

Undisturbed == Shapes /\ Remembered /\ Begun /\ Position(pc) /\ InOrder /\ Honest

CommitInv == TypeOK /\ (edits = 0 => Undisturbed)

\* What an undisturbed step never takes back.
Grows ==
    /\ installed \subseteq installed'
    /\ \A c \in Control : Committed(c) => Committed(c)'

-----------------------------------------------------------------------------
\* One move of a replacement that was allowed to begin.
LEMMA ReplacedShape ==
    ASSUME NEW f \in Files(Text), Shape(f), NEW exch, f.dst = "old" => f.stg = "new"
    PROVE  LET g == Replaced(f, "new", exch)
           IN  /\ Shape(g)
               /\ g.dst # "old"
               /\ f.dst = "new" => g.dst = "new"
    BY CommitAssumption
       DEF Shape, Files, Replaced, Placed, Parked, Exchanged, StagingGone, BackupGone, Text

\* The reconciliation of a recognised control file.
LEMMA ReconciledShape ==
    ASSUME NEW c \in Control, control[c] \in Files(Text), Shape(control[c])
    PROVE  LET g == Reconciled(control[c], Verdict(c))
           IN  Shape(g) /\ (control[c].dst = "new" => g.dst = "new")
    BY CommitAssumption
       DEF Shape, Files, Verdict, Classify, Reconciled, Restored, StagingGone, BackupGone, Text

LEMMA StagedShape ==
    ASSUME NEW f \in Files(Text), Shape(f)
    PROVE  /\ Shape(Staged(f, "new")) /\ Staged(f, "new").dst = f.dst
           /\ f.stg = None => Shape(Staged(f, Torn)) /\ Staged(f, Torn).dst = f.dst
           /\ f.dst # None => Shape(StagingGone(f)) /\ StagingGone(f).dst = f.dst
    BY CommitAssumption DEF Shape, Files, Staged, StagingGone, Text

\* The moves of a journal bring no record that was not in its files.
LEMMA JournalMoves ==
    ASSUME NEW T, NEW f \in Files(T)
    PROVE  /\ \A new, exch : Held(Replaced(f, new, exch)) \subseteq Held(f) \cup {None}
           /\ Held(Restored(f)) \subseteq Held(f) \cup {None}
           /\ Held(StagingGone(f)) \subseteq Held(f) \cup {None}
           /\ Held(BackupGone(f)) \subseteq Held(f) \cup {None}
           /\ Held([f EXCEPT !.dst = None]) \subseteq Held(f) \cup {None}
           /\ \A t : Held(Staged(f, t)) \subseteq Held(f) \cup {t}
    BY DEF Files, Held, Replaced, Placed, Parked, Exchanged, Restored, StagingGone, BackupGone,
           Staged

LEMMA CommitInit == Init => CommitInv
<1> USE CommitAssumption
<1> SUFFICES ASSUME Init PROVE CommitInv
    OBVIOUS
<1>1. Shapes
    BY DEF Init, Shapes, Shape, Settled, Text
<1>2. Remembered /\ Begun
    BY DEF Init, Remembered, Begun, Unread
<1>3. Position(pc) /\ InOrder
    BY DEF Init, Position, InOrder, Committed, Settled, PastObjects, PastManifest, PastLock,
           Control
<1>4. Honest
    BY DEF Init, Honest, Effect, Held, Settled, Prepared, ObjectsInstalled,
           ManifestCommitted, LockCommitted
<1>5. QED
    BY TypeInit, <1>1, <1>2, <1>3, <1>4 DEF CommitInv, Undisturbed
LEMMA CommitStep == CommitInv /\ [Next]_vars => CommitInv' /\ (edits' = 0 => edits = 0 /\ Grows)
<1> USE CommitAssumption
<1> SUFFICES ASSUME CommitInv, [Next]_vars, edits' = 0
             PROVE  edits = 0 /\ Undisturbed' /\ Grows
    BY TypeStep DEF CommitInv
<1>1. /\ control \in [Control -> Files(Text)] /\ journal \in Files(Records)
      /\ installed \subseteq Objects /\ edits \in Nat /\ phase \in 1 .. 5
      /\ staged \in [Objects -> {"none", "partial", "full"}]
      /\ was \in [Control -> {"old", "new"}] /\ busy \in BOOLEAN
      /\ Control = {"manifest", "lock"} /\ None \notin Records /\ Phases = 1 .. 5
    BY DEF CommitInv, TypeOK, Control, Records, Phases, Prepared, Complete, Text
<1>2. ASSUME NEW c \in Control, Edit(c) PROVE FALSE
    BY <1>1, <1>2 DEF Edit
<1>3. Step \/ Crash \/ TearObject \/ TearJournal \/ UNCHANGED vars
      \/ TearControl("manifest", "stageManifest") \/ TearControl("lock", "stageLock")
    BY <1>2 DEF Next, Finished
<1>4. edits = 0
    <2>1. ASSUME NEW d, Dies(d) PROVE edits' = edits
        BY <2>1 DEF Dies
    <2>2. ASSUME NEW c, NEW f, WriteControl(c, f) PROVE edits' = edits
        BY <2>2 DEF WriteControl, ghosts
    <2>3. ASSUME NEW f, WriteJournal(f) PROVE edits' = edits
        BY <2>3 DEF WriteJournal, ghosts
    <2>4. ASSUME NEW l, Decide(l) PROVE edits' = edits
        BY <2>4 DEF Decide, ghosts
    <2>5. ASSUME NEW c, NEW label, NEW next,
                 \/ ReconcileControl(c, label, next) \/ StageControl(c, label, next)
                 \/ CommitControl(c, label, next) \/ CleanControl(c, label, next)
          PROVE  edits' = edits
        BY <2>2, <2>4, <2>5
           DEF ReconcileControl, StageControl, CommitControl, CleanControl, ReplaceControl,
               Refuse
    <2>6. ASSUME NEW target, NEW label, NEW next, AdvanceTo(target, label, next)
          PROVE  edits' = edits
        BY <2>3, <2>4, <2>6 DEF AdvanceTo, Refuse
    <2>7. CASE Attempt \/ ReconcileJournal \/ DropPending \/ StageJournal \/ FirstJournal
               \/ Verify \/ CleanPending \/ CleanJournal
        BY <2>3, <2>4, <2>7
           DEF Attempt, BeginRecovery, ReconcileJournal, DropPending, StageJournal,
               FirstJournal, Verify, CleanPending, CleanJournal, Refuse, ghosts
    <2>8. CASE StageObjects \/ InstallObjects \/ CleanObjects
        BY <2>4, <2>8 DEF StageObjects, InstallObjects, CleanObjects, Refuse, ghosts
    <2>9. CASE Step
        BY <2>5, <2>6, <2>7, <2>8, <2>9 DEF Step
    <2>10. QED
        BY <1>3, <2>1, <2>9 DEF Crash, TearObject, TearJournal, TearControl, vars
<1>5. Shapes /\ Remembered /\ Begun /\ Position(pc) /\ InOrder /\ Honest
    BY <1>4 DEF CommitInv, Undisturbed
<1> SUFFICES Undisturbed' /\ Grows
    BY <1>4
<1>6. \A c \in Control : control[c] \in Files(Text) /\ Shape(control[c])
    BY <1>1, <1>5 DEF Shapes
<1>7. PastLock \subseteq PastManifest /\ PastManifest \subseteq PastObjects
      /\ "manifest" \in Control /\ "lock" \in Control
      /\ PastObjects \cap {"commitManifest", "commitLock"} = {"commitManifest", "commitLock"}
    BY <1>1 DEF PastLock, PastManifest, PastObjects
\* The journal's records stay true as long as nothing durable is taken back.
<1>8. ASSUME Grows, NEW x \in Records, Held(journal') \subseteq Held(journal) \cup {None, x},
             x \in Phases => Effect(x), phase' \in Phases, Effect(phase')
      PROVE  Honest'
    BY <1>1, <1>5, <1>7, <1>8 DEF Honest, Effect, Grows
<1>9. ASSUME Grows, UNCHANGED <<journal, phase>> PROVE Honest'
    BY <1>1, <1>5, <1>7, <1>9 DEF Honest, Effect, Grows
<1>10. ASSUME NEW l, Decide(l), Position(l) PROVE Undisturbed' /\ Grows
    <2>1. Grows
        BY <1>10 DEF Decide, disk, Grows, Committed
    <2>2. Shapes' /\ Remembered' /\ Begun' /\ InOrder'
        BY <1>5, <1>10
           DEF Decide, Go, disk, memory, Shapes, Remembered, Begun, InOrder, Committed
    <2>3. Position(pc)'
        BY <1>10 DEF Decide, Go, disk, Position, Committed
    <2>4. QED
        BY <1>9, <1>10, <2>1, <2>2, <2>3 DEF Undisturbed, Decide, disk, memory
<1>11. ASSUME Refuse PROVE Undisturbed' /\ Grows
    BY <1>10, <1>11 DEF Refuse, Position, PastObjects, PastManifest, PastLock
\* One control file is written.
<1>12. ASSUME NEW c \in Control, NEW f, WriteControl(c, f), Shape(f),
              control[c].dst = "new" => f.dst = "new",
              /\ f.dst = "new" /\ c = "manifest" => Objects \subseteq installed
              /\ f.dst = "new" /\ c = "lock" => Committed("manifest"),
              Begun', Position(pc)'
       PROVE  Undisturbed' /\ Grows
    <2>1. /\ control'[c] = f /\ \A d \in Control \ {c} : control'[d] = control[d]
          /\ UNCHANGED <<journal, staged, installed, phase, was>>
        BY <1>1, <1>12 DEF WriteControl, memory
    <2>2. Grows
        BY <1>12, <2>1 DEF Grows, Committed
    <2>3. Shapes' /\ Remembered'
        BY <1>5, <1>12, <2>1, <2>2 DEF Shapes, Remembered, Grows
    <2>4. InOrder'
        BY <1>1, <1>5, <1>12, <2>1, <2>2 DEF InOrder, Grows, Committed
    <2>5. QED
        BY <1>9, <1>12, <2>1, <2>2, <2>3, <2>4 DEF Undisturbed
\* The journal is written.
<1>13. ASSUME NEW f, WriteJournal(f), was' = was, NEW x \in Records,
              Held(f) \subseteq Held(journal) \cup {None, x},
              x \in Phases => Effect(x), phase' \in Phases, Effect(phase'),
              pc' \notin {"commitManifest", "commitLock"} \/ ~ busy', Position(pc')
       PROVE  Undisturbed' /\ Grows
    <2>1. journal' = f /\ UNCHANGED <<control, staged, installed, was>>
        BY <1>13 DEF WriteJournal
    <2>2. Grows
        BY <2>1 DEF Grows, Committed
    <2>3. Shapes' /\ Remembered' /\ Begun' /\ InOrder'
        BY <1>5, <1>13, <2>1 DEF Shapes, Remembered, Begun, InOrder, Committed
    <2>4. Position(pc)'
        BY <1>13, <2>1 DEF Position, Committed
    <2>5. QED
        BY <1>8, <1>13, <2>1, <2>2, <2>3, <2>4 DEF Undisturbed
\* The process dies.
<1>14. ASSUME NEW d, Dies(d), Grows, Shapes', InOrder', NEW x \in Records \ Phases,
              Held(journal') \subseteq Held(journal) \cup {None, x}
       PROVE  Undisturbed'
    <2>1. Effect(phase') /\ phase' \in Phases
        BY <1>1, <1>14
           DEF Dies, Effect, Prepared, ObjectsInstalled, ManifestCommitted, LockCommitted
    <2>2. Remembered' /\ Begun' /\ Position(pc)'
        BY <1>14 DEF Dies, Remembered, Unread, Begun, Position, PastObjects, PastManifest,
                     PastLock
    <2>3. QED
        BY <1>8, <1>14, <2>1, <2>2 DEF Undisturbed
<1>15. CASE Attempt
    <2> DEFINE v == JournalVerdict(journal, Phases, Advances)
    <2>1. ASSUME v \notin {"invalid", "absent"}, BeginRecovery(v), ~ Refuse
          PROVE  Undisturbed' /\ Grows
        <3>1. /\ \A c \in Control : Verdict(c) # "unknown"
              /\ phase' = JournalSeen(journal, v)
              /\ was' = [c \in Control |-> Seen(c)]
              /\ pc' = "reconcileJournal" /\ busy' = FALSE
              /\ UNCHANGED <<control, journal, staged, installed>>
            BY <2>1 DEF BeginRecovery, Go, disk
        <3>2. Grows
            BY <3>1 DEF Grows, Committed
        <3>3. phase' \in Phases /\ Effect(phase')
            BY <1>1, <1>5, <2>1, <3>1, JournalSeenIsPhase DEF Honest
        <3>4. Remembered'
            BY <3>1 DEF Remembered, Committed, Verdict, Seen, Classify, Effective
        <3>5. Honest'
            BY <1>1, <1>8, <3>1, <3>2, <3>3 DEF Records
        <3>6. QED
            BY <1>5, <3>1, <3>2, <3>4, <3>5
               DEF Undisturbed, Shapes, Begun, InOrder, Committed, Position, PastObjects, PastManifest, PastLock
    <2>2. Position("done") /\ Position("stageObjects")
        BY DEF Position, PastObjects, PastManifest, PastLock
    <2>3. QED
        BY <1>10, <1>11, <1>15, <2>1, <2>2 DEF Attempt
<1>16. CASE ReconcileJournal
    <2>1. ASSUME NEW f, WriteJournal(f) /\ UNCHANGED memory,
                 Held(f) \subseteq Held(journal) \cup {None},
                 pc' \in {"reconcileJournal", "reconcileManifest", "dropPending"}
          PROVE  Undisturbed' /\ Grows
        <3>1. Position(pc')
            BY <2>1 DEF Position, PastObjects, PastManifest, PastLock
        <3>2. Torn \in Records \ Phases
            BY DEF CommitAssumption, Records
        <3>3. QED
            BY <1>1, <1>5, <1>13, <2>1, <3>1, <3>2 DEF memory, Honest
    <2>2. Position("reconcileManifest")
        BY DEF Position, PastObjects, PastManifest, PastLock
    <2>3. QED
        BY <1>1, <1>10, <1>11, <1>16, <2>1, <2>2, JournalMoves
           DEF ReconcileJournal, InstallStep, Go
<1>17. CASE DropPending \/ CleanPending \/ CleanJournal
    <2>1. ASSUME NEW f, WriteJournal(f) /\ UNCHANGED memory,
                 Held(f) \subseteq Held(journal) \cup {None},
                 busy' = FALSE, Position(pc')
          PROVE  Undisturbed' /\ Grows
        <3>1. Torn \in Records \ Phases
            BY DEF CommitAssumption, Records
        <3>2. QED
            BY <1>1, <1>5, <1>13, <2>1, <3>1 DEF memory, Honest
    <2>2. Position(pc')
        BY <1>5, <1>17
           DEF DropPending, CleanPending, CleanJournal, Go, Position, PastObjects, PastManifest, PastLock
    <2>3. QED
        BY <1>1, <1>17, <2>1, <2>2, JournalMoves DEF DropPending, CleanPending, CleanJournal, Go
<1>18. ASSUME NEW c \in Control, NEW label, NEW next \in {"reconcileLock", "stageObjects"},
              ReconcileControl(c, label, next)
       PROVE  Undisturbed' /\ Grows
    <2> DEFINE f == Reconciled(control[c], Verdict(c))
    <2>1. CASE Verdict(c) = "unknown"
        BY <1>11, <1>18, <2>1 DEF ReconcileControl
    <2>2. CASE Verdict(c) # "unknown"
        <3>1. WriteControl(c, f) /\ pc' = next /\ busy' = FALSE
            BY <1>18, <2>2 DEF ReconcileControl, Go
        <3>2. Shape(f) /\ (control[c].dst = "new" => f.dst = "new")
            BY <1>6, ReconciledShape
        <3>3. f.dst = "new" => control[c].dst = "new"
            BY <1>6 DEF Shape, Files, Verdict, Classify, Reconciled, Restored, BackupGone,
                        StagingGone
        <3>4. Position(pc)' /\ Begun'
            BY <3>1 DEF Begun, Position, PastObjects, PastManifest, PastLock
        <3>5. QED
            BY <1>5, <1>12, <3>1, <3>2, <3>3, <3>4 DEF InOrder, Committed
    <2>3. QED
        BY <2>1, <2>2
<1>19. CASE StageObjects
    <2>1. CASE \E o \in Objects :
                 /\ staged[o] = "none"
                 /\ staged' = [staged EXCEPT ![o] = "full"]
                 /\ UNCHANGED <<control, journal, installed, pc, memory, busy, ghosts>>
        <3>1. Grows
            BY <2>1 DEF Grows, Committed
        <3>2. Position(pc)'
            BY <1>1, <1>5, <1>19, <2>1
               DEF StageObjects, Position, PastObjects, PastManifest, PastLock
        <3>3. QED
            BY <1>5, <1>9, <2>1, <3>1, <3>2
               DEF memory, Undisturbed, Shapes, Remembered, Begun, InOrder, Committed
    <2>2. CASE (\A o \in Objects : staged[o] = "full") /\ Decide("stageManifest")
        BY <1>10, <2>2 DEF Position, PastObjects, PastManifest, PastLock
    <2>3. QED
        BY <1>11, <1>19, <2>1, <2>2 DEF StageObjects
<1>20. ASSUME NEW c \in Control, NEW label \in {"stageManifest", "stageLock"},
              NEW next \in {"stageLock", "installObjects", "stageJournal"},
              StageControl(c, label, next)
       PROVE  Undisturbed' /\ Grows
    <2>1. CASE WriteControl(c, Staged(control[c], "new")) /\ Go(next)
        <3>1. \A o \in Objects : staged[o] # "none"
            BY <1>5, <1>20 DEF StageControl, Position
        <3>2. Position(pc)' /\ Begun'
            BY <2>1, <3>1
               DEF WriteControl, Go, Begun, Position, PastObjects, PastManifest, PastLock
        <3>3. QED
            BY <1>5, <1>6, <1>12, <2>1, <3>2, StagedShape DEF InOrder, Committed
    <2>2. QED
        BY <1>11, <1>20, <2>1 DEF StageControl
<1>21. CASE StageJournal
    <2>1. CASE WriteJournal(Staged(journal, Prepared)) /\ UNCHANGED memory /\ Go("firstJournal")
        <3>1. Position(pc')
            BY <1>5, <1>21, <2>1
               DEF StageJournal, Go, Position, PastObjects, PastManifest, PastLock
        <3>2. Prepared \in Records /\ Effect(Prepared)
            BY <1>1 DEF Records, Prepared, Effect, ObjectsInstalled, ManifestCommitted,
                        LockCommitted
        <3>3. Held(Staged(journal, Prepared)) \subseteq Held(journal) \cup {None, Prepared}
            BY <1>1, JournalMoves
        <3>4. pc' \notin {"commitManifest", "commitLock"} /\ was' = was /\ phase' = phase
            BY <2>1 DEF memory, Go
        <3>5. QED
            BY <1>1, <1>5, <1>13, <2>1, <3>1, <3>2, <3>3, <3>4 DEF Honest
    <2>2. QED
        BY <1>11, <1>21, <2>1 DEF StageJournal
<1>22. CASE FirstJournal
    <2> DEFINE f == Replaced(journal, Prepared, exchange)
    <2>1. CASE /\ WriteJournal(f)
               /\ InstallStep(f, Prepared, "firstJournal", "installObjects")
               /\ phase' = Prepared /\ UNCHANGED <<recovering, was>>
        <3>1. Position(pc')
            BY <1>5, <1>22, <2>1
               DEF FirstJournal, InstallStep, Position, PastObjects, PastManifest, PastLock
        <3>2. Prepared \in Records /\ Prepared \in Phases /\ Effect(Prepared)
            BY <1>1 DEF Records, Prepared, Effect, ObjectsInstalled, ManifestCommitted,
                        LockCommitted
        <3>3. Held(f) \subseteq Held(journal) \cup {None}
            BY <1>1, JournalMoves, Zenon
        <3>4. pc' \notin {"commitManifest", "commitLock"} /\ was' = was
            BY <2>1 DEF InstallStep
        <3>5. QED
            BY <1>13, <2>1, <3>1, <3>2, <3>3, <3>4
    <2>2. QED
        BY <1>11, <1>22, <2>1 DEF FirstJournal
<1>23. ASSUME NEW target \in 2 .. 5,
              NEW label \in {"advanceObjects", "advanceManifest", "advanceLock", "advanceComplete"},
              NEW next \in {"commitManifest", "commitLock", "verify", "cleanObjects"},
              Effect(target), Position(label), Position(next), AdvanceTo(target, label, next)
       PROVE  Undisturbed' /\ Grows
    <2>1. CASE phase >= target
        BY <1>10, <1>23, <2>1 DEF AdvanceTo
    <2>2. CASE phase < target
        <3>1. /\ phase + 1 \in Phases /\ phase + 1 \in Records
              /\ Effect(phase + 1) /\ Effect(phase)
            BY <1>1, <1>5, <1>23, <2>2
               DEF Records, Effect, Honest, ObjectsInstalled, ManifestCommitted, LockCommitted
        <3>2. ASSUME NEW f, WriteJournal(f),
                     phase' = (IF f = Settled(phase + 1) THEN phase + 1 ELSE phase),
                     was' = was, pc' = label,
                     Held(f) \subseteq Held(journal) \cup {None, phase + 1}
              PROVE  Undisturbed' /\ Grows
            BY <1>1, <1>13, <1>23, <3>1, <3>2
        <3>3. /\ Held(Staged(journal, phase + 1)) \subseteq Held(journal) \cup {None, phase + 1}
              /\ Held(Replaced(journal, phase + 1, exchange))
                   \subseteq Held(journal) \cup {None, phase + 1}
            <4>1. \A new : Held(Replaced(journal, new, exchange)) \subseteq Held(journal) \cup {None}
                BY <1>1, JournalMoves, Zenon
            <4>2. QED
                BY <1>1, <4>1, JournalMoves
        <3>4. ~ (phase >= target)
            BY <1>1, <2>2
        <3>5. QED
            BY <1>11, <1>23, <3>2, <3>3, <3>4 DEF AdvanceTo, InstallStep, Go
    <2>3. QED
        BY <1>1, <2>1, <2>2
<1>24. CASE InstallObjects
    <2>1. ASSUME NEW o \in Objects,
                 /\ staged[o] # "none"
                 /\ staged' = [staged EXCEPT ![o] = "none"]
                 /\ installed' = installed \cup {o}
                 /\ UNCHANGED <<control, journal, pc, memory, busy, ghosts>>
          PROVE  Undisturbed' /\ Grows
        <3>1. Grows
            BY <2>1 DEF Grows, Committed
        <3>2. Position(pc)'
            BY <1>1, <1>5, <1>24, <2>1
               DEF InstallObjects, Position, PastObjects, PastManifest, PastLock
        <3>3. InOrder'
            BY <1>5, <2>1, <3>1 DEF InOrder, Grows, Committed
        <3>4. QED
            BY <1>5, <1>9, <2>1, <3>1, <3>2, <3>3
               DEF memory, Undisturbed, Shapes, Remembered, Begun, Committed
    <2>2. CASE (\A o \in Objects : staged[o] = "none") /\ Decide("advanceObjects")
        BY <1>5, <1>10, <1>24, <2>2
           DEF InstallObjects, Position, PastObjects, PastManifest, PastLock
    <2>3. QED
        BY <1>24, <2>1, <2>2 DEF InstallObjects
<1>25. ASSUME NEW c \in Control, NEW label, NEW next,
              CommitControl(c, label, next),
              \/ c = "manifest" /\ label = "commitManifest" /\ next = "advanceManifest"
              \/ c = "lock" /\ label = "commitLock" /\ next = "advanceLock"
       PROVE  Undisturbed' /\ Grows
    <2>1. /\ pc = label /\ Objects \subseteq installed
          /\ c = "lock" => Committed("manifest")
        BY <1>5, <1>25 DEF CommitControl, Position, PastObjects, PastManifest, PastLock
    <2>2. ASSUME NEW f, WriteControl(c, f), Shape(f), control[c].dst = "new" => f.dst = "new",
                 \/ pc' = label /\ (busy' => f.dst # "old")
                 \/ pc' = next /\ f.dst = "new"
          PROVE  Undisturbed' /\ Grows
        <3>1. control'[c] = f /\ \A d \in Control \ {c} : control'[d] = control[d]
            BY <1>1, <2>2 DEF WriteControl
        <3>2. Begun'
            BY <1>25, <2>2, <3>1 DEF Begun
        <3>3. installed' = installed
            BY <2>2 DEF WriteControl
        <3>4. Position(pc)'
            BY <1>1, <1>25, <2>1, <2>2, <3>1, <3>3
               DEF Committed, Position, PastObjects, PastManifest, PastLock
        <3>5. QED
            BY <1>12, <1>25, <2>1, <2>2, <3>2, <3>4
    <2>3. CASE was[c] = "new"
        <3>1. control[c].dst = "new"
            BY <1>5, <2>3 DEF Remembered, Committed
        <3>2. Shape(StagingGone(control[c])) /\ StagingGone(control[c]).dst = "new"
            BY <1>6, <3>1, StagedShape, CommitAssumption DEF Text
        <3>3. QED
            BY <1>25, <2>2, <2>3, <3>2 DEF CommitControl, Go
    <2>4. CASE was[c] # "new" /\ ~ Refuse
        <3> DEFINE f == Replaced(control[c], "new", exchange)
        <3>1. /\ WriteControl(c, f) /\ InstallStep(f, "new", label, next)
              /\ busy \/ control[c].stg = "new"
            BY <1>25, <2>4 DEF CommitControl, ReplaceControl, Installable
        <3>2. control[c].dst = "old" => control[c].stg = "new"
            BY <1>5, <1>25, <2>1, <3>1 DEF Begun
        <3>3. Shape(f) /\ f.dst # "old" /\ (control[c].dst = "new" => f.dst = "new")
            BY <1>6, <3>2, ReplacedShape
        <3>4. \/ pc' = label /\ (busy' => f.dst # "old")
              \/ pc' = next /\ f.dst = "new"
            BY <3>1, <3>3 DEF InstallStep, Settled
        <3>5. QED
            BY <2>2, <3>1, <3>3, <3>4
    <2>5. QED
        BY <1>11, <2>3, <2>4
<1>26. CASE Verify
    BY <1>5, <1>10, <1>11, <1>26 DEF Verify, Position, PastObjects, PastManifest, PastLock
<1>27. CASE CleanObjects
    <2>1. Grows
        BY <1>27 DEF CleanObjects, Grows, Committed
    <2>2. Position(pc)' /\ Begun'
        BY <1>5, <1>27
           DEF CleanObjects, Go, Begun, Committed, Position, PastObjects, PastManifest, PastLock
    <2>3. QED
        BY <1>5, <1>9, <1>27, <2>1, <2>2
           DEF CleanObjects, memory, Undisturbed, Shapes, Remembered, InOrder, Committed
<1>28. ASSUME NEW c \in Control, NEW label \in PastLock, NEW next \in PastLock,
              CleanControl(c, label, next)
       PROVE  Undisturbed' /\ Grows
    <2>1. Objects \subseteq installed /\ Committed("manifest") /\ Committed("lock")
        BY <1>5, <1>7, <1>28 DEF CleanControl, Position
    <2>2. control[c].dst = "new"
        BY <1>1, <2>1 DEF Committed
    <2>3. Shape(StagingGone(control[c])) /\ StagingGone(control[c]).dst = "new"
        BY <1>6, <2>2, StagedShape, CommitAssumption DEF Text
    <2>4. /\ WriteControl(c, StagingGone(control[c])) /\ pc' = next /\ busy' = FALSE
          /\ installed' = installed /\ Committed("manifest")' /\ Committed("lock")'
        BY <1>1, <1>28, <2>1, <2>3 DEF CleanControl, WriteControl, Go, Committed
    <2>5. Position(pc)' /\ Begun'
        BY <1>28, <2>1, <2>4 DEF Begun, Position, PastObjects, PastManifest, PastLock
    <2>6. QED
        BY <1>12, <2>1, <2>2, <2>3, <2>4, <2>5
<1>29. Torn \in Records \ Phases
    BY DEF Records
<1>30. CASE Crash \/ TearObject
    <2>1. Grows /\ Shapes' /\ InOrder' /\ journal' = journal
        BY <1>5, <1>30 DEF Crash, TearObject, disk, Grows, Shapes, InOrder, Committed
    <2>2. QED
        BY <1>14, <1>29, <1>30, <2>1 DEF Crash, TearObject
<1>31. ASSUME NEW c \in Control, NEW label, TearControl(c, label)
       PROVE  Undisturbed' /\ Grows
    <2> DEFINE f == Staged(control[c], Torn)
    <2>1. /\ control'[c] = f /\ \A d \in Control \ {c} : control'[d] = control[d]
          /\ control[c].stg = None /\ installed' = installed /\ journal' = journal
        BY <1>1, <1>31 DEF TearControl
    <2>2. Shape(f) /\ f.dst = control[c].dst
        BY <1>6, <2>1, StagedShape
    <2>3. Shapes' /\ \A d \in Control : control'[d].dst = control[d].dst
        BY <1>6, <2>1, <2>2 DEF Shapes
    <2>4. Grows /\ InOrder'
        BY <1>1, <1>5, <2>1, <2>3 DEF Grows, InOrder, Committed
    <2>5. QED
        BY <1>14, <1>29, <1>31, <2>1, <2>3, <2>4 DEF TearControl
<1>32. CASE TearJournal
    <2>1. Grows /\ Shapes' /\ InOrder'
        BY <1>5, <1>32 DEF TearJournal, Grows, Shapes, InOrder, Committed
    <2>2. Held(journal') \subseteq Held(journal) \cup {None, Torn}
        BY <1>1, <1>32, JournalMoves DEF TearJournal
    <2>3. QED
        BY <1>14, <1>29, <1>32, <2>1, <2>2 DEF TearJournal
<1>33. CASE UNCHANGED vars
    BY <1>5, <1>9, <1>33
       DEF vars, Undisturbed, Shapes, Remembered, Begun, Position, InOrder, Committed, Grows
<1>35. ASSUME Step PROVE Undisturbed' /\ Grows
    <2>1. CASE \/ ReconcileControl("manifest", "reconcileManifest", "reconcileLock")
               \/ ReconcileControl("lock", "reconcileLock", "stageObjects")
        BY <1>7, <1>18, <2>1
    <2>2. CASE \/ StageControl("manifest", "stageManifest", "stageLock")
               \/ StageControl("lock", "stageLock",
                               IF recovering THEN "installObjects" ELSE "stageJournal")
        BY <1>7, <1>20, <2>2
    <2>3. CASE AdvanceTo(ObjectsInstalled, "advanceObjects", "commitManifest")
        <3>1. Position("advanceObjects") /\ Position("commitManifest") /\ Effect(ObjectsInstalled)
            BY <1>5, <2>3
               DEF AdvanceTo, Effect, ObjectsInstalled, ManifestCommitted, LockCommitted,
               Position, PastObjects, PastManifest, PastLock
        <3>2. QED
            BY <1>23, <2>3, <3>1 DEF ObjectsInstalled
    <2>4. CASE AdvanceTo(ManifestCommitted, "advanceManifest", "commitLock")
        <3>1. Position("advanceManifest") /\ Position("commitLock") /\ Effect(ManifestCommitted)
            BY <1>5, <2>4
               DEF AdvanceTo, Effect, ObjectsInstalled, ManifestCommitted, LockCommitted,
               Position, PastObjects, PastManifest, PastLock
        <3>2. QED
            BY <1>23, <2>4, <3>1 DEF ManifestCommitted
    <2>5. CASE AdvanceTo(LockCommitted, "advanceLock", "verify")
        <3>1. Position("advanceLock") /\ Position("verify") /\ Effect(LockCommitted)
            BY <1>5, <2>5
               DEF AdvanceTo, Effect, ObjectsInstalled, ManifestCommitted, LockCommitted,
               Position, PastObjects, PastManifest, PastLock
        <3>2. QED
            BY <1>23, <2>5, <3>1 DEF LockCommitted
    <2>6. CASE AdvanceTo(Complete, "advanceComplete", "cleanObjects")
        <3>1. Position("advanceComplete") /\ Position("cleanObjects") /\ Effect(Complete)
            BY <1>5, <2>6 DEF AdvanceTo, Effect, Position, PastObjects, PastManifest, PastLock
        <3>2. QED
            BY <1>23, <2>6, <3>1 DEF Complete
    <2>7. CASE \/ CommitControl("manifest", "commitManifest", "advanceManifest")
               \/ CommitControl("lock", "commitLock", "advanceLock")
        BY <1>7, <1>25, <2>7
    <2>8. CASE \/ CleanControl("manifest", "cleanManifest", "cleanLock")
               \/ CleanControl("lock", "cleanLock", "cleanPending")
        <3>1. {"cleanManifest", "cleanLock", "cleanPending"} \subseteq PastLock
            BY DEF PastLock, PastManifest
        <3>2. QED
            BY <1>7, <1>28, <2>8, <3>1
    <2>9. QED
        BY <1>15, <1>16, <1>17, <1>19, <1>21, <1>22, <1>24, <1>26, <1>27, <1>35, <2>1, <2>2,
           <2>3, <2>4, <2>5, <2>6, <2>7, <2>8 DEF Step
<1>36. QED
    BY <1>3, <1>7, <1>30, <1>31, <1>32, <1>33, <1>35

(***************************************************************************)
(* The order objects, manifest, lock holds in every crash state.           *)
(***************************************************************************)
THEOREM OrderHolds == Spec => []Ordered
<1>1. CommitInv => Ordered
    BY CommitAssumption
       DEF CommitInv, Undisturbed, InOrder, Shapes, Shape, Committed, Ordered, Selected,
           Control, Text
<1>2. QED
    BY <1>1, CommitInit, CommitStep, PTL DEF Spec

(***************************************************************************)
(* No file of the journal records a phase whose effect is missing.         *)
(***************************************************************************)
THEOREM RecordsAreTrue == Spec => []JournalHonest
<1>1. CommitInv => JournalHonest
    <2> SUFFICES ASSUME CommitInv, edits = 0 PROVE JournalHonest
        BY DEF JournalHonest
    <2>1. /\ \A p \in Held(journal) \cap Phases : Effect(p)
          /\ Phases = 1 .. 5
        BY DEF CommitInv, Undisturbed, Honest, Phases, Prepared, Complete
    <2>2. \A c \in Control : Committed(c) => Selected(c) = "new"
        BY CommitAssumption DEF Committed, Selected, Control, Text
    <2>3. QED
        BY <2>1, <2>2 DEF JournalHonest, Recorded, Effect, ObjectsInstalled, ManifestCommitted,
                          LockCommitted, Control
<1>2. QED
    BY <1>1, CommitInit, CommitStep, PTL DEF Spec

(***************************************************************************)
(* No crash, recovery or retry takes a committed control file back.        *)
(***************************************************************************)
THEOREM CommitIsFinal == Spec => NeverRegresses
<1>1. CommitInv /\ [Next]_vars =>
        [\A c \in Control : Selected(c) = "new" /\ edits' = 0 => Selected(c)' = "new"]_vars
    <2> SUFFICES ASSUME CommitInv, [Next]_vars, edits' = 0,
                        NEW c \in Control, Selected(c) = "new"
                 PROVE  Selected(c)' = "new"
        OBVIOUS
    <2>1. edits = 0 /\ Grows
        BY CommitStep
    <2>2. Committed(c)
        BY <2>1, CommitAssumption
           DEF CommitInv, Undisturbed, Shapes, Shape, Committed, Selected, Text
    <2>3. QED
        BY <2>1, <2>2, CommitAssumption DEF Grows, Committed, Selected, Text
<1>2. QED
    BY <1>1, CommitInit, CommitStep, PTL DEF Spec, NeverRegresses
=============================================================================
