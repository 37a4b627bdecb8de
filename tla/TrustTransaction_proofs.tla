---------------------- MODULE TrustTransaction_proofs ----------------------
(***************************************************************************)
(* Theorems about TrustTransaction, for any number of edits and crashes    *)
(* and both kinds of replacement.                                          *)
(***************************************************************************)
EXTENDS TrustTransaction, TLAPS

Labels == Running \cup {"idle", "planned"}

\* Where the attempt works on an interrupted or a committed record.
Resolving == {"reconcileJournal", "dropPending", "reconcileState"}

-----------------------------------------------------------------------------
(***************************************************************************)
(* The inductive invariant.                                                *)
(***************************************************************************)

\* A guarded replacement under way ends with the new text in place.
UnderWay(f, new) == f.dst = new \/ (f.dst = None /\ f.stg = new)

\* What the process has in memory.
MemoryInv ==
    /\ pc \in CommitSteps \cup {"planned"} => plan \in Plans
    /\ pc \in Running /\ goal = "apply" => plan \in Plans
    /\ pc \in Resolving \cup CleanSteps => record \in Records
    /\ pc \in Resolving => outcome \in {"completed", "aborted"}
    /\ pc \in CommitSteps \ {"refresh"} => outcome = "committed" /\ told = None

\* The journal is there from the inspection to the end of the cleanup.
JournalInv ==
    /\ pc = "reconcileJournal" =>
          IF busy THEN UnderWay(journal, record)
                  ELSE Verdict \notin {"absent", "invalid"}
    /\ pc \in {"dropPending", "reconcileState"} \cup CleanSteps => journal.dst # None

\* The text of state.json that the direction of a recovery stands for.
Aim == record[2][IF outcome = "aborted" THEN 1 ELSE 2]

\* What the process knows of state.json.
StateInv ==
    /\ pc = "installState" /\ busy => UnderWay(Control(plan), plan[2])
    /\ pc \in Resolving /\ ~ edited =>
          LET verdict == Classify(Control(record[2]), record[2][1], record[2][2], FALSE)
          IN  verdict # "unknown" /\ Effective(Control(record[2]), verdict) = Aim
    /\ pc \in {"stageCommitted", "advance"} =>
          /\ live # None /\ live.trust = plan[2].trust
          /\ ~ edited => live = plan[2]
    /\ pc \in CleanSteps =>
          /\ ~ edited => live = Aim
          /\ outcome = "committed" =>
                plan \in Plans /\ live # None /\ live.trust = plan[2].trust

TrustInv ==
    /\ TypeOK /\ MemoryInv /\ JournalInv /\ StateInv
    /\ told # None => live # None /\ live.trust = told

-----------------------------------------------------------------------------
(***************************************************************************)
(* Lemmas about plans and guarded files.                                   *)
(***************************************************************************)

\* The two texts of a plan, and the decision of the second.
LEMMA PlanTexts ==
    ASSUME NEW p \in Plans
    PROVE  p[1] \in Text /\ p[2] \in Text /\ p[2].trust \in Decisions
    BY DEF Plans, Text, Decided

\* A text with another decision, and what Plan makes of the two.
LEMMA DecidedIsPlan ==
    ASSUME NEW text \in Text, NEW d \in Decisions
    PROVE  <<text, Decided(text, d)>> \in Plans
<1>1. Decided(text, d) \in Text
    BY DEF Text, Decided
<1>2. QED
    BY <1>1 DEF Plans

\* One call of a replacement that went ahead, or is under way, leaves it under way.
LEMMA ReplacedUnderWay ==
    ASSUME NEW f, NEW old, NEW new, NEW exch, NEW T, f \in Files(T),
           new # None,
           UnderWay(f, new) \/ Installable(f, old, new)
    PROVE  UnderWay(Replaced(f, new, exch), new)
    BY DEF UnderWay, Installable, Replaced, Exchanged, Parked, Placed, StagingGone,
           BackupGone, Files

\* What a recognized control file is read as, and what its reconciliation keeps.
LEMMA ClassifiedText ==
    ASSUME NEW f, NEW old, NEW new, NEW T, f \in Files(T),
           Classify(f, old, new, FALSE) # "unknown"
    PROVE  LET verdict == Classify(f, old, new, FALSE)
           IN  /\ Effective(f, verdict) \in {old, new}
               /\ Reconciled(f, verdict).dst = Effective(f, verdict)
               /\ Reconciled(f, verdict).stg = f.stg
               /\ Reconciled(f, verdict).bak \in {f.bak, None}
               /\ f.dst # None => Effective(f, verdict) = f.dst
    BY DEF Classify, Effective, Reconciled, Restored, BackupGone, StagingGone, Files

\* What the inspection of a journal that is there works from is a record.
LEMMA SeenIsRecord ==
    ASSUME journal \in Files(Records \cup {Torn}), Verdict \notin {"invalid", "absent"}
    PROVE  JournalSeen(journal, Verdict) \in Records
    BY TrustAssumption DEF Verdict, JournalVerdict, JournalSeen, Held, Files

-----------------------------------------------------------------------------
(***************************************************************************)
(* The invariant holds initially.                                          *)
(***************************************************************************)
LEMMA InvInit == Init => TrustInv
<1> USE TrustAssumption
<1> SUFFICES ASSUME Init PROVE TrustInv
    OBVIOUS
<1>1. TypeOK
    <2>1. journal \in Files(Records \cup {Torn})
        BY DEF Init, Files, Settled
    <2>2. staging \in [Plans -> [stg : Text \cup {None, Torn}, bak : Text \cup {None}]]
        BY DEF Init
    <2>3. live \in Text \cup {None} /\ edits \in 0 .. MaxEdits /\ crashes \in 0 .. MaxCrashes
        BY DEF Init
    <2>4. QED
        BY <2>1, <2>2, <2>3 DEF Init, TypeOK
<1>2. MemoryInv /\ JournalInv /\ StateInv
    BY DEF Init, MemoryInv, JournalInv, StateInv, Resolving, Running, CommitSteps,
           RecoverySteps, CleanSteps
<1>3. QED
    BY <1>1, <1>2 DEF Init, TrustInv

-----------------------------------------------------------------------------
(***************************************************************************)
(* Every step keeps the types.                                             *)
(***************************************************************************)
LEMMA TypeStep == TrustInv /\ [Next]_vars => TypeOK'
<1> USE TrustAssumption
<1> SUFFICES ASSUME TrustInv, [Next]_vars PROVE TypeOK'
    OBVIOUS
<1>0. /\ TypeOK /\ MemoryInv /\ StateInv
      /\ journal \in Files(Records \cup {Torn}) /\ live \in Text \cup {None}
      /\ staging \in [Plans -> [stg : Text \cup {None, Torn}, bak : Text \cup {None}]]
    BY DEF TrustInv, TypeOK
<1>a. \A p \in Plans : p[1] \in Text /\ p[2] \in Text /\ p[2].trust \in Decisions
    BY PlanTexts
<1>b. \A p \in Plans : <<"prepared", p>> \in Records /\ <<"stateCommitted", p>> \in Records
    BY DEF Records
<1>c. \A r \in Records : r[2] \in Plans
    BY DEF Records
<1>d. \A p \in Plans : staging[p].stg \in Text \cup {None, Torn} /\ staging[p].bak \in Text \cup {None}
    BY <1>0
<1>1. ASSUME NEW l \in Labels, Decide(l) PROVE TypeOK'
    BY <1>0, <1>1 DEF Decide, Go, TypeOK, disk, memory, past, Labels
<1>2. ASSUME NEW p \in Plans, NEW g, WriteState(p, g), g.dst \in Text \cup {None},
             g.stg \in Text \cup {None, Torn}, g.bak \in Text \cup {None},
             pc' \in Labels, busy' \in BOOLEAN
      PROVE  TypeOK'
    BY <1>0, <1>2 DEF WriteState, TypeOK, memory, past, Labels
<1>3. ASSUME NEW g \in Files(Records \cup {Torn}), WriteJournal(g),
             pc' \in Labels, busy' \in BOOLEAN
      PROVE  TypeOK'
    BY <1>0, <1>3 DEF WriteJournal, TypeOK, memory, past, Labels
<1>4. ASSUME NEW old, NEW new, NEW next \in Labels, pc \in Labels,
             InstallJournal(old, new, next)
      PROVE  TypeOK'
    <2>1. Replaced(journal, new, exchange) \in Files(Records \cup {Torn})
        BY <1>0 DEF Files, Replaced, Exchanged, Parked, Placed, StagingGone, BackupGone
    <2>2. CASE Refused
        BY <1>1, <2>2 DEF Refused, Labels
    <2>3. CASE /\ WriteJournal(Replaced(journal, new, exchange))
               /\ InstallStep(Replaced(journal, new, exchange), new, next)
        BY <1>3, <1>4, <2>1, <2>3 DEF InstallStep
    <2>4. QED
        BY <1>4, <2>2, <2>3 DEF InstallJournal
<1>5. pc \in Labels
    BY <1>0 DEF TypeOK, Labels
<1>6. CASE \E d \in Decisions : Plan(d)
    <2>1. PICK d \in Decisions : Plan(d)
        BY <1>6
    <2>2. plan' \in Plans
        BY <1>0, <2>1, DecidedIsPlan DEF Plan
    <2>3. QED
        BY <1>0, <2>1, <2>2 DEF Plan, Go, TypeOK, disk, past
<1>7. CASE Apply \/ Recover
    BY <1>0, <1>7 DEF Apply, Recover, Start, Go, TypeOK, disk, past, Running, RecoverySteps
<1>8. CASE Inspect
    <2>1. CASE Refused \/ Decide(Recovered)
        BY <1>1, <2>1 DEF Refused, Recovered, Labels, Running, CommitSteps
    <2>2. CASE /\ Verdict \notin {"invalid", "absent"}
               /\ Direction(JournalSeen(journal, Verdict)) # "conflict"
               /\ record' = JournalSeen(journal, Verdict)
               /\ outcome' = Direction(JournalSeen(journal, Verdict))
               /\ Go("reconcileJournal")
               /\ UNCHANGED <<exchange, disk, plan, goal, past>>
        <3>1. record' \in Records
            BY <1>0, <2>2, SeenIsRecord
        <3>2. outcome' \in {"completed", "aborted"}
            BY <2>2 DEF Direction
        <3>3. QED
            BY <1>0, <2>2, <3>1, <3>2 DEF Go, TypeOK, disk, past, Running, RecoverySteps
    <2>3. QED
        BY <1>8, <2>1, <2>2 DEF Inspect
<1>9. CASE ReconcileJournal \/ DropPending
    <2>1. /\ Restored(journal) \in Files(Records \cup {Torn})
          /\ BackupGone(journal) \in Files(Records \cup {Torn})
          /\ StagingGone(journal) \in Files(Records \cup {Torn})
        BY <1>0 DEF Files, Restored, BackupGone, StagingGone
    <2>2. "reconcileState" \in Labels /\ "dropPending" \in Labels
        BY DEF Labels, Running, RecoverySteps
    <2>3. QED
        BY <1>1, <1>3, <1>4, <1>5, <1>9, <2>1, <2>2 DEF ReconcileJournal, DropPending, Go
<1>10. CASE ReconcileState
    <2> DEFINE p == record[2]
               v == Classify(Control(p), p[1], p[2], FALSE)
    <2>1. p \in Plans
        BY <1>0, <1>10, <1>c DEF MemoryInv, ReconcileState, Resolving
    <2>2. CASE Refused
        BY <1>1, <2>2 DEF Refused, Labels
    <2>3. CASE WriteState(p, Reconciled(Control(p), v)) /\ Go("cleanStaging")
        <3>1. /\ Reconciled(Control(p), v).dst \in Text \cup {None}
              /\ Reconciled(Control(p), v).stg \in Text \cup {None, Torn}
              /\ Reconciled(Control(p), v).bak \in Text \cup {None}
            BY <1>0, <1>d, <2>1 DEF Control, Reconciled, Restored, BackupGone, StagingGone
        <3>2. QED
            BY <1>2, <2>1, <2>3, <3>1 DEF Go, Labels, Running, CleanSteps
    <2>4. QED
        BY <1>10, <2>2, <2>3 DEF ReconcileState
<1>11. CASE Refresh
    <2>1. plan \in Plans
        BY <1>0, <1>11 DEF MemoryInv, Refresh, CommitSteps
    <2>2. CASE Refused
        BY <1>1, <2>2 DEF Refused, Labels
    <2>3. CASE Report(plan[2].trust)
        BY <1>0, <1>a, <2>1, <2>3 DEF Report, Go, TypeOK, disk, memory
    <2>4. CASE BeginCommit
        BY <1>0, <2>4 DEF BeginCommit, Go, TypeOK, disk, Running, CommitSteps
    <2>5. QED
        BY <1>11, <2>2, <2>3, <2>4 DEF Refresh
<1>12. CASE StageState
    <2>1. plan \in Plans
        BY <1>0, <1>12 DEF MemoryInv, StageState, CommitSteps
    <2>2. /\ Staged(Control(plan), plan[2]).dst \in Text \cup {None}
          /\ Staged(Control(plan), plan[2]).stg \in Text \cup {None, Torn}
          /\ Staged(Control(plan), plan[2]).bak \in Text \cup {None}
        BY <1>0, <1>a, <1>d, <2>1 DEF Control, Staged
    <2>3. CASE Refused
        BY <1>1, <2>3 DEF Refused, Labels
    <2>4. CASE WriteState(plan, Staged(Control(plan), plan[2])) /\ Go("stageJournal")
        BY <1>2, <2>1, <2>2, <2>4 DEF Go, Labels, Running, CommitSteps
    <2>5. QED
        BY <1>12, <2>3, <2>4 DEF StageState, Stage
<1>13. CASE StageJournal \/ StageCommitted
    <2>1. plan \in Plans
        BY <1>0, <1>13 DEF MemoryInv, StageJournal, StageCommitted, CommitSteps
    <2>2. \A r \in Records : Staged(journal, r) \in Files(Records \cup {Torn})
        BY <1>0 DEF Staged, Files
    <2>3. CASE Refused
        BY <1>1, <2>3 DEF Refused, Labels
    <2>4. CASE WriteJournal(Staged(journal, <<"prepared", plan>>)) /\ Go("firstJournal")
        BY <1>3, <1>b, <2>1, <2>2, <2>4 DEF Go, Labels, Running, CommitSteps
    <2>5. CASE WriteJournal(Staged(journal, <<"stateCommitted", plan>>)) /\ Go("advance")
        BY <1>3, <1>b, <2>1, <2>2, <2>5 DEF Go, Labels, Running, CommitSteps
    <2>6. QED
        BY <1>13, <2>3, <2>4, <2>5 DEF StageJournal, StageCommitted, Stage
<1>14. CASE FirstJournal
    BY <1>4, <1>5, <1>14 DEF FirstJournal, Labels, Running, CommitSteps
<1>15. CASE InstallState
    <2> DEFINE g == Replaced(Control(plan), plan[2], exchange)
    <2>1. plan \in Plans
        BY <1>0, <1>15 DEF MemoryInv, InstallState, CommitSteps
    <2>2. CASE Refused
        BY <1>1, <2>2 DEF Refused, Labels
    <2>3. CASE /\ busy \/ Installable(Control(plan), plan[1], plan[2])
               /\ WriteState(plan, g) /\ InstallStep(g, plan[2], "stageCommitted")
        <3>1. UnderWay(Control(plan), plan[2]) \/ Installable(Control(plan), plan[1], plan[2])
            BY <1>0, <1>15, <2>3 DEF StateInv, InstallState
        <3>2. /\ g.dst \in Text \cup {None}
              /\ g.stg \in Text \cup {None, Torn}
              /\ g.bak \in Text \cup {None}
            BY <1>0, <1>a, <1>d, <2>1, <3>1
               DEF Control, UnderWay, Installable, Replaced, Exchanged, Parked, Placed,
                   StagingGone, BackupGone
        <3>3. pc' \in Labels /\ busy' \in BOOLEAN
            BY <1>5, <2>3 DEF InstallStep, Labels, Running, CommitSteps
        <3>4. QED
            BY <1>2, <2>1, <2>3, <3>2, <3>3
    <2>4. QED
        BY <1>15, <2>2, <2>3 DEF InstallState
<1>16. CASE Advance
    <2> DEFINE g == Replaced(journal, record', exchange)
    <2>1. record' \in Records
        BY <1>0, <1>16, <1>b DEF MemoryInv, Advance, CommitSteps
    <2>2. g \in Files(Records \cup {Torn})
        BY <1>0 DEF Files, Replaced, Exchanged, Parked, Placed, StagingGone, BackupGone
    <2>3. CASE /\ journal' = g /\ InstallStep(g, record', "cleanStaging")
               /\ UNCHANGED <<exchange, live, staging, plan, goal, outcome, past>>
        <3>1. pc' \in Labels /\ busy' \in BOOLEAN
            BY <1>5, <2>3 DEF InstallStep, Labels, Running, CleanSteps
        <3>2. QED
            BY <1>0, <2>1, <2>2, <2>3, <3>1 DEF TypeOK, past, Labels
    <2>4. CASE Go("idle") /\ UNCHANGED <<exchange, disk, plan, goal, outcome, past>>
        BY <1>0, <2>1, <2>4 DEF Go, TypeOK, disk, past
    <2>5. QED
        BY <1>16, <2>3, <2>4 DEF Advance
<1>17. CASE CleanStaging
    <2>1. record[2] \in Plans
        BY <1>0, <1>17, <1>c DEF MemoryInv, CleanStaging, CleanSteps
    <2>2. /\ StagingGone(Control(record[2])).dst \in Text \cup {None}
          /\ StagingGone(Control(record[2])).stg \in Text \cup {None, Torn}
          /\ StagingGone(Control(record[2])).bak \in Text \cup {None}
        BY <1>0, <1>d, <2>1 DEF Control, StagingGone
    <2>3. QED
        BY <1>2, <1>17, <2>1, <2>2 DEF CleanStaging, Go, Labels, Running, CleanSteps
<1>18. CASE CleanPending
    <2>1. StagingGone(journal) \in Files(Records \cup {Torn})
        BY <1>0 DEF Files, StagingGone
    <2>2. QED
        BY <1>3, <1>18, <2>1 DEF CleanPending, Go, Labels, Running, CleanSteps
<1>19. CASE CleanJournal
    <2>1. told' \in Decisions \cup {None}
        <3>1. CASE outcome = "committed"
            BY <1>0, <1>19, <1>a, <3>1 DEF StateInv, CleanJournal, CleanSteps
        <3>2. CASE outcome # "committed"
            BY <1>0, <1>19, <3>2 DEF TypeOK, CleanJournal
        <3>3. QED
            BY <3>1, <3>2
    <2>2. journal' \in Files(Records \cup {Torn})
        BY <1>0, <1>19 DEF CleanJournal, Files
    <2>3. QED
        BY <1>0, <1>19, <2>1, <2>2
           DEF CleanJournal, Go, Recovered, TypeOK, memory, Running, CommitSteps
<1>20. CASE Edit
    <2>1. live' \in Text
        BY <1>0, <1>20 DEF Edit, Text
    <2>2. edits' \in 0 .. MaxEdits
        BY <1>0, <1>20 DEF Edit, TypeOK
    <2>3. edited' \in BOOLEAN
        BY <1>20, <1>0 DEF Edit, TypeOK, Pending
    <2>4. QED
        BY <1>0, <1>20, <2>1, <2>2, <2>3 DEF Edit, TypeOK, memory
<1>21. CASE Crash \/ TearState \/ TearJournal
    <2>1. ASSUME NEW stuck \in BOOLEAN, Die(stuck)
          PROVE  /\ pc' = "idle" /\ busy' = FALSE
                 /\ crashes' \in 0 .. MaxCrashes /\ damaged' \in BOOLEAN
                 /\ UNCHANGED <<exchange, memory, told, edited, edits>>
        BY <1>0, <2>1 DEF Die, Go, TypeOK
    <2>2. CASE Crash
        BY <1>0, <2>1, <2>2 DEF Crash, TypeOK, disk, memory
    <2>3. CASE TearState
        <3>1. staging' \in [Plans -> [stg : Text \cup {None, Torn}, bak : Text \cup {None}]]
            BY <1>0, <1>d, <2>3 DEF TearState
        <3>2. QED
            BY <1>0, <2>1, <2>3, <3>1 DEF TearState, TypeOK, memory
    <2>4. CASE TearJournal
        <3>1. journal' \in Files(Records \cup {Torn})
            BY <1>0, <2>4 DEF TearJournal, Files
        <3>2. QED
            BY <1>0, <2>1, <2>4, <3>1 DEF TearJournal, TypeOK, memory
    <2>5. QED
        BY <1>21, <2>2, <2>3, <2>4
<1>22. CASE UNCHANGED vars
    BY <1>0, <1>22 DEF TypeOK, vars
<1>23. QED
    BY <1>6, <1>7, <1>8, <1>9, <1>10, <1>11, <1>12, <1>13, <1>14, <1>15, <1>16, <1>17,
       <1>18, <1>19, <1>20, <1>21, <1>22 DEF Next, Step

-----------------------------------------------------------------------------
(***************************************************************************)
(* Every step keeps what the process knows from its memory.                *)
(***************************************************************************)
LEMMA MemoryStep == TrustInv /\ [Next]_vars => MemoryInv'
<1> USE DEF Running, CommitSteps, RecoverySteps, CleanSteps, Resolving
<1> SUFFICES ASSUME TrustInv, [Next]_vars PROVE MemoryInv'
    OBVIOUS
<1>0. /\ TypeOK /\ MemoryInv /\ journal \in Files(Records \cup {Torn})
      /\ pc \in Labels /\ outcome \in {"absent", "completed", "aborted", "committed"}
    BY DEF TrustInv, TypeOK, Labels
<1>1. ASSUME pc' = "idle" PROVE MemoryInv'
    BY <1>1 DEF MemoryInv
<1>2. CASE Refused
    BY <1>1, <1>2 DEF Refused, Decide, Go
<1>3. CASE (\E d \in Decisions : Plan(d)) \/ Apply \/ Recover
    <2>1. CASE Apply \/ Recover
        BY <1>0, <2>1 DEF MemoryInv, Apply, Recover, Start, Go
    <2>2. ASSUME NEW d \in Decisions, Plan(d) PROVE MemoryInv'
        <3>1. plan' \in Plans /\ pc' = "planned"
            BY <1>0, <2>2, DecidedIsPlan DEF Plan, Go, TypeOK
        <3>2. QED
            BY <3>1 DEF MemoryInv
    <2>3. QED
        BY <1>3, <2>1, <2>2
<1>4. CASE Inspect
    <2>1. CASE Decide(Recovered)
        BY <1>0, <1>4, <2>1 DEF MemoryInv, Inspect, Decide, Go, Recovered, memory, past
    <2>2. CASE /\ Verdict \notin {"invalid", "absent"}
               /\ Direction(JournalSeen(journal, Verdict)) # "conflict"
               /\ record' = JournalSeen(journal, Verdict)
               /\ outcome' = Direction(JournalSeen(journal, Verdict))
               /\ Go("reconcileJournal")
               /\ UNCHANGED <<exchange, disk, plan, goal, past>>
        <3>1. record' \in Records
            BY <1>0, <2>2, SeenIsRecord
        <3>2. outcome' \in {"completed", "aborted"}
            BY <2>2 DEF Direction
        <3>3. QED
            BY <1>0, <1>4, <2>2, <3>1, <3>2 DEF MemoryInv, Inspect, Go
    <2>3. QED
        BY <1>2, <1>4, <2>1, <2>2 DEF Inspect
<1>5. ASSUME pc \in Resolving, pc' \in Resolving \cup CleanSteps, UNCHANGED memory
      PROVE  MemoryInv'
    BY <1>0, <1>5 DEF MemoryInv, memory
<1>6. ASSUME NEW old, NEW new, NEW next, InstallJournal(old, new, next)
      PROVE  Refused \/ (pc' \in {pc, next} /\ UNCHANGED memory /\ told' = told)
    BY <1>6 DEF InstallJournal, InstallStep, WriteJournal, past
<1>7. CASE ReconcileJournal
    <2>1. CASE InstallJournal(journal.dst, record, "reconcileState")
        BY <1>2, <1>5, <1>6, <1>7, <2>1 DEF ReconcileJournal
    <2>2. CASE ~ InstallJournal(journal.dst, record, "reconcileState")
        BY <1>5, <1>7, <2>2 DEF ReconcileJournal, WriteJournal, Decide, Go
    <2>3. QED
        BY <2>1, <2>2
<1>8. CASE DropPending \/ ReconcileState
    BY <1>2, <1>5, <1>8 DEF DropPending, ReconcileState, WriteJournal, WriteState, Go
<1>9. CASE Refresh
    <2>1. CASE Report(plan[2].trust)
        BY <1>1, <2>1 DEF Report, Go
    <2>2. CASE BeginCommit
        BY <1>0, <1>9, <2>2 DEF MemoryInv, Refresh, BeginCommit, Go
    <2>3. QED
        BY <1>2, <1>9, <2>1, <2>2 DEF Refresh
<1>10. ASSUME pc \in CommitSteps \ {"refresh"}, pc' \in CommitSteps \ {"refresh"},
              UNCHANGED memory, told' = told
       PROVE  MemoryInv'
    BY <1>0, <1>10 DEF MemoryInv, memory
<1>11. CASE StageState \/ StageJournal \/ StageCommitted
    BY <1>2, <1>10, <1>11
       DEF StageState, StageJournal, StageCommitted, Stage, WriteState, WriteJournal, Go, past
<1>12. CASE FirstJournal
    BY <1>2, <1>6, <1>10, <1>12 DEF FirstJournal
<1>13. CASE InstallState
    BY <1>2, <1>10, <1>13 DEF InstallState, InstallStep, WriteState, past
<1>14. CASE Advance
    <2>1. record' \in Records
        BY <1>0, <1>14 DEF MemoryInv, Advance, Records
    <2>2. CASE pc' = "idle"
        BY <1>1, <2>2
    <2>3. CASE pc' # "idle"
        BY <1>0, <1>14, <2>1, <2>3 DEF MemoryInv, Advance, InstallStep, Go, past
    <2>4. QED
        BY <2>2, <2>3
<1>15. CASE CleanStaging \/ CleanPending
    BY <1>0, <1>15
       DEF MemoryInv, CleanStaging, CleanPending, WriteState, WriteJournal, Go, memory, past
<1>16. CASE CleanJournal
    BY <1>0, <1>16 DEF MemoryInv, CleanJournal, Recovered, Go, memory
<1>17. CASE Edit
    BY <1>0, <1>17 DEF MemoryInv, Edit, memory
<1>18. CASE Crash \/ TearState \/ TearJournal
    BY <1>1, <1>18 DEF Crash, TearState, TearJournal, Die, Go
<1>19. CASE UNCHANGED vars
    BY <1>0, <1>19 DEF MemoryInv, vars
<1>20. QED
    BY <1>3, <1>4, <1>7, <1>8, <1>9, <1>11, <1>12, <1>13, <1>14, <1>15, <1>16, <1>17,
       <1>18, <1>19 DEF Next, Step

-----------------------------------------------------------------------------
(***************************************************************************)
(* Every step keeps the journal of an unfinished cleanup.                  *)
(***************************************************************************)
LEMMA JournalStep == TrustInv /\ [Next]_vars => JournalInv'
<1> USE TrustAssumption DEF Running, CommitSteps, RecoverySteps, CleanSteps
<1> SUFFICES ASSUME TrustInv, [Next]_vars PROVE JournalInv'
    OBVIOUS
<1>0. /\ TypeOK /\ MemoryInv /\ JournalInv /\ journal \in Files(Records \cup {Torn})
      /\ pc \in Labels /\ None \notin Records
    BY DEF TrustInv, TypeOK, Labels
<1>1. ASSUME pc' \notin {"reconcileJournal", "dropPending", "reconcileState"} \cup CleanSteps
      PROVE  JournalInv'
    BY <1>1 DEF JournalInv
<1>2. CASE Refused
    BY <1>1, <1>2 DEF Refused, Decide, Go
<1>3. CASE (\E d \in Decisions : Plan(d)) \/ Apply \/ Recover
    BY <1>1, <1>3 DEF Plan, Apply, Recover, Start, Go
<1>4. CASE Inspect
    <2>1. CASE Decide(Recovered)
        BY <1>1, <2>1 DEF Decide, Recovered, Go
    <2>2. CASE Verdict \notin {"invalid", "absent"} /\ Go("reconcileJournal")
               /\ UNCHANGED disk
        BY <2>2 DEF Go, JournalInv, Verdict, disk
    <2>3. QED
        BY <1>2, <1>4, <2>1, <2>2 DEF Inspect
<1>5. CASE ReconcileJournal
    <2>0. record \in Records
        BY <1>0, <1>5 DEF MemoryInv, ReconcileJournal, Resolving
    <2>1. CASE /\ busy \/ Installable(journal, journal.dst, record)
               /\ journal' = Replaced(journal, record, exchange)
               /\ InstallStep(journal', record, "reconcileState")
        <3>1. UnderWay(journal, record) \/ Installable(journal, journal.dst, record)
            BY <1>0, <1>5, <2>1 DEF JournalInv, ReconcileJournal
        <3>2. UnderWay(journal', record)
            BY <1>0, <2>0, <2>1, <3>1, ReplacedUnderWay
        <3>3. record' = record
            BY <1>5, <1>2, <2>1 DEF ReconcileJournal, InstallJournal, WriteJournal, Refused,
               Decide, Go, memory
        <3>4. CASE journal' = Settled(record)
            BY <1>0, <2>0, <2>1, <3>4 DEF InstallStep, JournalInv, Settled
        <3>5. CASE journal' # Settled(record)
            BY <1>5, <2>1, <3>2, <3>3, <3>5 DEF InstallStep, JournalInv, ReconcileJournal
        <3>6. QED
            BY <3>4, <3>5
    <2>2. CASE ~ busy /\ ~ InstallJournal(journal.dst, record, "reconcileState")
        <3>1. Verdict \notin {"absent", "invalid"}
            BY <1>0, <1>5, <2>2 DEF JournalInv, ReconcileJournal
        <3>2. journal'.dst # None /\ pc' \in {"dropPending", "reconcileState"}
            BY <1>0, <1>5, <2>2, <3>1
               DEF ReconcileJournal, WriteJournal, Decide, Go, disk, Verdict, JournalVerdict,
                   Restored, BackupGone, StagingGone, Files
        <3>3. QED
            BY <3>2 DEF JournalInv
    <2>3. QED
        BY <1>2, <1>5, <2>1, <2>2
           DEF ReconcileJournal, InstallJournal, WriteJournal
<1>6. ASSUME pc \in {"dropPending", "reconcileState"} \cup CleanSteps,
             pc' \in {"dropPending", "reconcileState"} \cup CleanSteps,
             journal' = journal \/ journal' = StagingGone(journal)
      PROVE  JournalInv'
    BY <1>0, <1>6 DEF JournalInv, StagingGone, Files
<1>7. CASE DropPending \/ ReconcileState \/ CleanStaging \/ CleanPending
    BY <1>2, <1>6, <1>7
       DEF DropPending, ReconcileState, CleanStaging, CleanPending, WriteJournal, WriteState, Go
<1>8. CASE Refresh
    BY <1>1, <1>2, <1>8 DEF Refresh, Report, BeginCommit, Go
<1>9. CASE StageState \/ StageJournal \/ StageCommitted \/ InstallState
    BY <1>1, <1>2, <1>9
       DEF StageState, StageJournal, StageCommitted, InstallState, Stage, InstallStep, Go
<1>10. CASE FirstJournal
    BY <1>1, <1>2, <1>10 DEF FirstJournal, InstallJournal, InstallStep
<1>11. CASE Advance
    <2>1. record' \in Records
        BY <1>0, <1>11 DEF MemoryInv, Advance, Records
    <2>2. CASE journal' = Settled(record') /\ pc' = "cleanStaging"
        BY <1>0, <2>1, <2>2 DEF JournalInv, Settled
    <2>3. QED
        BY <1>1, <1>11, <2>2 DEF Advance, InstallStep, Go
<1>12. CASE CleanJournal
    BY <1>1, <1>12 DEF CleanJournal, Recovered, Go
<1>13. CASE Edit
    BY <1>0, <1>13 DEF JournalInv, Edit, memory, Verdict
<1>14. CASE Crash \/ TearState \/ TearJournal
    BY <1>1, <1>14 DEF Crash, TearState, TearJournal, Die, Go
<1>15. CASE UNCHANGED vars
    BY <1>0, <1>15 DEF JournalInv, vars, Verdict
<1>16. QED
    BY <1>3, <1>4, <1>5, <1>7, <1>8, <1>9, <1>10, <1>11, <1>12, <1>13, <1>14, <1>15
       DEF Next, Step

-----------------------------------------------------------------------------
(***************************************************************************)
(* Every step keeps what the process knows of state.json.                  *)
(***************************************************************************)
LEMMA ControlTyped ==
    ASSUME TypeOK, NEW p \in Plans
    PROVE  Control(p) \in Files(Text \cup {Torn})
    BY DEF TypeOK, Control, Files

\* An edit while a journal is there, or in a commit, is remembered.
LEMMA EditRemembered ==
    ASSUME TrustInv, Edit, pc \in Resolving \cup CleanSteps \cup CommitSteps
    PROVE  edited'
<1> USE DEF Running, CommitSteps, RecoverySteps, CleanSteps, Resolving
<1>1. CASE pc \in CommitSteps
    BY <1>1 DEF Edit
<1>2. CASE pc = "reconcileJournal"
    <2>1. Verdict \notin {"absent", "invalid"}
        BY <1>2 DEF TrustInv, JournalInv, Edit
    <2>2. Held(journal) # {None}
        BY <2>1 DEF Verdict, JournalVerdict, Held
    <2>3. QED
        BY <2>2 DEF Edit, Pending
<1>3. CASE pc \notin CommitSteps \cup {"reconcileJournal"}
    BY <1>3 DEF TrustInv, JournalInv, Edit, Pending, Held
<1>4. QED
    BY <1>1, <1>2, <1>3

LEMMA StateStep == TrustInv /\ [Next]_vars => StateInv'
<1> USE TrustAssumption DEF Running, CommitSteps, RecoverySteps, CleanSteps, Resolving
<1> SUFFICES ASSUME TrustInv, [Next]_vars PROVE StateInv'
    OBVIOUS
<1>0. /\ TypeOK /\ MemoryInv /\ StateInv /\ pc \in Labels
      /\ live \in Text \cup {None} /\ None \notin Text
    BY DEF TrustInv, TypeOK, Labels
<1>a. \A p \in Plans : p[1] \in Text /\ p[2] \in Text /\ p[2].trust \in Decisions
    BY PlanTexts
<1>b. \A r \in Records : r[2] \in Plans
    BY DEF Records
<1>1. ASSUME pc' \notin {"installState", "stageCommitted", "advance"} \cup Resolving \cup CleanSteps
      PROVE  StateInv'
    BY <1>1 DEF StateInv
<1>2. CASE Refused
    BY <1>1, <1>2 DEF Refused, Decide, Go
<1>3. CASE (\E d \in Decisions : Plan(d)) \/ Apply \/ Recover
    BY <1>1, <1>3 DEF Plan, Apply, Recover, Start, Go
<1>4. CASE Inspect
    <2>1. CASE Decide(Recovered)
        BY <1>1, <2>1 DEF Decide, Recovered, Go
    <2>2. ASSUME NEW r \in Records, Direction(r) # "conflict", record' = r,
                 outcome' = Direction(r), pc' = "reconcileJournal",
                 live' = live, staging' = staging
          PROVE  StateInv'
        <3> DEFINE p == r[2]
                   v == Classify(Control(p), p[1], p[2], FALSE)
        <3>1. p \in Plans
            BY <1>b
        <3>2. v # "unknown"
            BY <2>2 DEF Direction
        <3>3. Effective(Control(p), v) \in {p[1], p[2]}
            BY <1>0, <3>1, <3>2, ControlTyped, ClassifiedText
        <3>4. /\ Effective(Control(p), v) = p[2] => Direction(r) = "completed"
              /\ Effective(Control(p), v) # p[2] => Direction(r) = "aborted"
            BY <2>2, <3>2 DEF Direction
        <3>5. Effective(Control(p), v) = Aim'
            <4>1. Aim' = p[IF Direction(r) = "aborted" THEN 1 ELSE 2]
                BY <2>2 DEF Aim
            <4>2. QED
                BY <3>3, <3>4, <4>1
        <3>6. Control(record[2])' = Control(p)
            BY <2>2 DEF Control
        <3>7. QED
            BY <2>2, <3>2, <3>5, <3>6 DEF StateInv
    <2>3. QED
        <3>1. CASE Verdict \notin {"invalid", "absent"}
            BY <1>0, <1>2, <1>4, <2>2, <3>1, SeenIsRecord DEF Inspect, Go, disk, TypeOK
        <3>2. CASE Verdict \in {"invalid", "absent"}
            BY <1>2, <1>4, <2>1, <3>2 DEF Inspect
        <3>3. QED
            BY <3>1, <3>2
<1>5. ASSUME pc \in Resolving, pc' \in Resolving,
             UNCHANGED <<live, staging, record, outcome, edited>>
      PROVE  StateInv'
    BY <1>0, <1>5 DEF StateInv, Control, Aim
<1>6. ASSUME NEW old, NEW new, NEW next, InstallJournal(old, new, next)
      PROVE  \/ Refused
             \/ /\ pc' \in {pc, next} /\ (pc' # pc => busy' = FALSE)
                /\ UNCHANGED <<live, staging, record, outcome, edited>>
    BY <1>6 DEF InstallJournal, InstallStep, WriteJournal, memory, past
<1>7. CASE ReconcileJournal
    <2>1. CASE InstallJournal(journal.dst, record, "reconcileState")
        BY <1>2, <1>5, <1>6, <1>7, <2>1 DEF ReconcileJournal
    <2>2. CASE ~ InstallJournal(journal.dst, record, "reconcileState")
        BY <1>5, <1>7, <2>2
           DEF ReconcileJournal, WriteJournal, Decide, Go, disk, memory, past
    <2>3. QED
        BY <2>1, <2>2
<1>8. CASE DropPending
    BY <1>5, <1>8 DEF DropPending, WriteJournal, Go, memory, past
<1>9. CASE ReconcileState
    <2> DEFINE p == record[2]
               v == Classify(Control(p), p[1], p[2], FALSE)
    <2>1. p \in Plans /\ outcome \in {"completed", "aborted"}
        BY <1>0, <1>b, <1>9 DEF MemoryInv, ReconcileState
    <2>2. CASE /\ v # "unknown" /\ Go("cleanStaging")
               /\ WriteState(p, Reconciled(Control(p), v))
        <3>1. Reconciled(Control(p), v).dst = Effective(Control(p), v)
            BY <1>0, <2>1, <2>2, ControlTyped, ClassifiedText
        <3>2. live' = Effective(Control(p), v) /\ Aim' = Aim
            BY <2>2, <3>1 DEF WriteState, memory, Aim
        <3>3. ~ edited' => live' = Aim'
            BY <1>0, <1>9, <2>2, <3>2 DEF StateInv, ReconcileState, WriteState, past
        <3>4. pc' = "cleanStaging" /\ outcome' # "committed"
            BY <2>1, <2>2 DEF Go, WriteState, memory
        <3>5. QED
            BY <3>3, <3>4 DEF StateInv
    <2>3. QED
        BY <1>2, <1>9, <2>2 DEF ReconcileState
<1>10. CASE Refresh \/ CleanJournal
    BY <1>1, <1>2, <1>10 DEF Refresh, Report, BeginCommit, CleanJournal, Recovered, Go
<1>11. CASE StageState \/ StageJournal
    BY <1>1, <1>2, <1>11 DEF StageState, StageJournal, Stage, Go
<1>12. CASE FirstJournal
    <2>1. /\ pc' \in {"firstJournal", "installState", "idle"}
          /\ pc' = "installState" => busy' = FALSE
        BY <1>2, <1>6, <1>12 DEF FirstJournal, Refused, Decide, Go
    <2>2. QED
        BY <2>1 DEF StateInv
<1>13. CASE InstallState
    <2> DEFINE g == Replaced(Control(plan), plan[2], exchange)
    <2>0. plan \in Plans /\ plan[2] \in Text /\ Control(plan) \in Files(Text \cup {Torn})
        BY <1>0, <1>a, <1>13, ControlTyped DEF MemoryInv, InstallState
    <2>1. CASE /\ busy \/ Installable(Control(plan), plan[1], plan[2])
               /\ WriteState(plan, g) /\ InstallStep(g, plan[2], "stageCommitted")
        <3>1. UnderWay(Control(plan), plan[2]) \/ Installable(Control(plan), plan[1], plan[2])
            BY <1>0, <1>13, <2>1 DEF StateInv, InstallState
        <3>2. UnderWay(g, plan[2])
            BY <1>0, <2>0, <3>1, ReplacedUnderWay
        <3>3. plan' = plan /\ live' = g.dst /\ staging'[plan].stg = g.stg
            BY <1>0, <2>0, <2>1 DEF WriteState, memory, TypeOK
        <3>4. CASE g = Settled(plan[2])
            <4>1. live' = plan'[2] /\ live' # None
                BY <1>0, <2>0, <3>3, <3>4 DEF Settled
            <4>2. pc' = "stageCommitted"
                BY <2>1, <3>4 DEF InstallStep
            <4>3. QED
                BY <4>1, <4>2 DEF StateInv
        <3>5. CASE g # Settled(plan[2])
            BY <1>13, <2>1, <3>2, <3>3, <3>5
               DEF InstallStep, StateInv, InstallState, UnderWay, Control
        <3>6. QED
            BY <3>4, <3>5
    <2>2. QED
        BY <1>2, <1>13, <2>1 DEF InstallState
<1>14. CASE StageCommitted
    BY <1>0, <1>2, <1>14
       DEF StageCommitted, Stage, StateInv, WriteJournal, Go, memory, past
<1>15. CASE Advance
    <2>1. /\ live # None /\ live.trust = plan[2].trust /\ (~ edited => live = plan[2])
          /\ plan \in Plans /\ outcome = "committed"
        BY <1>0, <1>15 DEF StateInv, MemoryInv, Advance
    <2>2. CASE pc' \in {"advance", "cleanStaging"}
               /\ UNCHANGED <<exchange, live, staging, plan, goal, outcome, past>>
        <3>1. Aim' = plan[2]
            BY <1>15, <2>1, <2>2 DEF Advance, Aim
        <3>2. QED
            BY <2>1, <2>2, <3>1 DEF StateInv, past
    <2>3. CASE Go("idle")
        BY <1>1, <2>3 DEF Go
    <2>4. QED
        BY <1>15, <2>2, <2>3 DEF Advance, InstallStep
<1>16. CASE CleanStaging \/ CleanPending
    <2>1. live' = live /\ pc \in CleanSteps /\ pc' \in CleanSteps
        BY <1>16
           DEF CleanStaging, CleanPending, WriteState, WriteJournal, StagingGone, Control, Go
    <2>2. UNCHANGED <<plan, record, outcome, edited>>
        BY <1>16 DEF CleanStaging, CleanPending, WriteState, WriteJournal, memory, past
    <2>3. QED
        BY <1>0, <2>1, <2>2 DEF StateInv, Aim
<1>17. CASE Edit
    <2>1. /\ UNCHANGED <<pc, busy, plan, record, outcome>> /\ ~ busy
          /\ live # None => live' # None /\ live'.trust = live.trust
        BY <1>0, <1>17 DEF Edit, memory, Text
    <2>2. pc \in Resolving \cup CleanSteps \cup CommitSteps => edited'
        BY <1>17, EditRemembered
    <2>3. QED
        BY <1>0, <2>1, <2>2 DEF StateInv
<1>18. CASE Crash \/ TearState \/ TearJournal
    BY <1>1, <1>18 DEF Crash, TearState, TearJournal, Die, Go
<1>19. CASE UNCHANGED vars
    BY <1>0, <1>19 DEF StateInv, vars, Control, Aim
<1>20. QED
    BY <1>3, <1>4, <1>7, <1>8, <1>9, <1>10, <1>11, <1>12, <1>13, <1>14, <1>15, <1>16,
       <1>17, <1>18, <1>19 DEF Next, Step

-----------------------------------------------------------------------------
(***************************************************************************)
(* Every step keeps the promise of the last report.                        *)
(***************************************************************************)
Promise == told # None => live # None /\ live.trust = told

LEMMA PromiseStep == TrustInv /\ [Next]_vars => Promise'
<1> USE TrustAssumption DEF Running, CommitSteps, RecoverySteps, CleanSteps, Resolving
<1> SUFFICES ASSUME TrustInv, [Next]_vars PROVE Promise'
    OBVIOUS
<1>0. /\ TypeOK /\ MemoryInv /\ StateInv /\ Promise /\ live \in Text \cup {None}
    BY DEF TrustInv, TypeOK, Promise
<1>1. ASSUME UNCHANGED <<live, told>> PROVE Promise'
    BY <1>0, <1>1 DEF Promise
<1>2. ASSUME NEW l, Decide(l) PROVE Promise'
    BY <1>1, <1>2 DEF Decide, disk, past
<1>3. ASSUME NEW g, WriteJournal(g) PROVE Promise'
    BY <1>1, <1>3 DEF WriteJournal, past
<1>4. CASE Inspect \/ ReconcileJournal \/ DropPending \/ FirstJournal
    BY <1>1, <1>2, <1>3, <1>4
       DEF Inspect, ReconcileJournal, DropPending, FirstJournal, InstallJournal, Refused,
           disk, past
<1>5. CASE (\E d \in Decisions : Plan(d)) \/ Apply \/ Recover
    BY <1>1, <1>5 DEF Plan, Apply, Recover, Start, disk, past
<1>6. CASE ReconcileState
    <2> DEFINE p == record[2]
               v == Classify(Control(p), p[1], p[2], FALSE)
    <2>1. p \in Plans
        BY <1>0, <1>6 DEF MemoryInv, ReconcileState, Records
    <2>2. CASE v # "unknown" /\ WriteState(p, Reconciled(Control(p), v))
        <3>1. Control(p).dst = live
            BY DEF Control
        <3>2. live # None => live' = live
            <4>1. Control(p) \in Files(Text \cup {Torn})
                BY <1>0, <2>1, ControlTyped
            <4>2. /\ Reconciled(Control(p), v).dst = Effective(Control(p), v)
                  /\ Control(p).dst # None => Effective(Control(p), v) = Control(p).dst
                <5> HIDE DEF p
                <5>1. Classify(Control(p), p[1], p[2], FALSE) # "unknown"
                    BY <2>2
                <5> QED
                    BY ONLY <4>1, <5>1, ClassifiedText
            <4>3. live' = Reconciled(Control(p), v).dst
                BY <2>2 DEF WriteState
            <4>4. QED
                BY <3>1, <4>2, <4>3
        <3>3. told' = told
            BY <2>2 DEF WriteState, past
        <3>4. QED
            BY <1>0, <3>2, <3>3 DEF Promise
    <2>3. QED
        BY <1>2, <1>6, <2>2 DEF ReconcileState, Refused
<1>7. CASE Refresh
    <2>1. plan \in Plans /\ plan[1] \in Text /\ plan[2].trust \in Decisions
        BY <1>0, <1>7, PlanTexts DEF MemoryInv, Refresh
    <2>2. CASE live # None /\ live.trust = plan[2].trust /\ Report(plan[2].trust)
        BY <2>2 DEF Report, Promise, disk
    <2>3. CASE BeginCommit
        BY <2>3 DEF BeginCommit, Promise
    <2>4. QED
        BY <1>0, <1>2, <1>7, <2>1, <2>2, <2>3 DEF Refresh, Refused
<1>8. CASE StageState \/ StageJournal \/ StageCommitted \/ InstallState \/ Advance
    <2>1. told = None
        BY <1>0, <1>8
           DEF MemoryInv, StageState, StageJournal, StageCommitted, InstallState, Advance
    <2>2. told' = told
        BY <1>8
           DEF StageState, StageJournal, StageCommitted, InstallState, Advance, Stage, Refused,
               Decide, WriteState, WriteJournal, past
    <2>3. QED
        BY <2>1, <2>2 DEF Promise
<1>9. CASE CleanStaging \/ CleanPending
    BY <1>1, <1>9
       DEF CleanStaging, CleanPending, WriteState, WriteJournal, StagingGone, Control, past
<1>10. CASE CleanJournal
    BY <1>0, <1>10 DEF CleanJournal, StateInv, Promise
<1>11. CASE Edit
    <2>1. live # None => live' # None /\ live'.trust = live.trust
        BY <1>0, <1>11 DEF Edit, Text
    <2>2. QED
        BY <1>0, <1>11, <2>1 DEF Edit, Promise
<1>12. CASE Crash \/ TearState \/ TearJournal
    BY <1>1, <1>12 DEF Crash, TearState, TearJournal, Die, disk
<1>13. CASE UNCHANGED vars
    BY <1>1, <1>13 DEF vars
<1>14. QED
    BY <1>4, <1>5, <1>6, <1>7, <1>8, <1>9, <1>10, <1>11, <1>12, <1>13 DEF Next, Step

-----------------------------------------------------------------------------
LEMMA InvHolds == Spec => []TrustInv
<1>1. TrustInv /\ [Next]_vars => TrustInv'
    BY TypeStep, MemoryStep, JournalStep, StateStep, PromiseStep DEF TrustInv, Promise
<1>2. QED
    BY InvInit, <1>1, PTL DEF Spec

(***************************************************************************)
(* Type correctness: state.json, the staging file of every plan and the    *)
(* journal hold texts and records only, also after a crash inside a write. *)
(***************************************************************************)
THEOREM TypeCorrect == Spec => []TypeOK
<1>1. TrustInv => TypeOK
    BY DEF TrustInv
<1>2. QED
    BY InvHolds, <1>1, PTL

(***************************************************************************)
(* What commit_executable_trust and recover_executable_trust report is     *)
(* what state.json holds, whatever was planned, edited, cut short and      *)
(* recovered before.                                                       *)
(***************************************************************************)
THEOREM OutcomeHolds == Spec => []OutcomeTrue
<1>1. TrustInv => OutcomeTrue
    BY DEF TrustInv, StateInv, OutcomeTrue, Aim
<1>2. QED
    BY InvHolds, <1>1, PTL
=============================================================================
