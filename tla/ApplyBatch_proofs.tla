------------------------- MODULE ApplyBatch_proofs -------------------------
(***************************************************************************)
(* Theorems about ApplyBatch, for any number of participants, edits and    *)
(* crashes, every mixture of dispositions, and both kinds of replacement.  *)
(***************************************************************************)
EXTENDS ApplyBatch, TLAPS, WellFoundedInduction

Labels  == Steps \cup {"idle", "failed", "blocked", "done"}
Records == Journal \cup {Torn}

\* The phases of the forward path that have a successor on it, and all of them.
Unfinished == {"Preparing", "Prepared", "QuarantiningOldTargets", "OldTargetsQuarantined",
               "CommittingNewTargets", "NewTargetsCommitted", "StateCommitted"}
Forward    == Unfinished \cup {"Verified"}

-----------------------------------------------------------------------------
\* Every mutation of the three files takes three files to three files.
LEMMA MutationsTyped ==
    ASSUME NEW T, NEW f \in Files(T)
    PROVE  /\ \A t \in T : Staged(f, t) \in Files(T)
           /\ \A new, exch : Replaced(f, new, exch) \in Files(T)
           /\ Restored(f) \in Files(T) /\ Parked(f) \in Files(T) /\ Placed(f) \in Files(T)
           /\ StagingGone(f) \in Files(T) /\ BackupGone(f) \in Files(T)
           /\ [f EXCEPT !.dst = None] \in Files(T)
    BY DEF Files, Exchanged, Parked, Placed, Restored, StagingGone, BackupGone, Staged, Replaced

\* A record with another phase, or another progress of one participant.
LEMMA RecordsTyped ==
    ASSUME NEW j \in Journal
    PROVE  /\ \A p \in Phase : PhaseIs(j, p) \in Journal /\ PhaseIs(j, p).phase = p
           /\ \A i : \A r \in Progress :
                ProgressIs(j, i, r) \in Journal /\ ProgressIs(j, i, r).phase = j.phase
    BY DEF Journal, PhaseIs, ProgressIs

\* The phase that follows another one is one, and not a rollback.
LEMMA NextPhaseTyped ==
    ASSUME NEW p \in Unfinished \cup {"RollingBack"}
    PROVE  /\ NextPhase(p) \in Phase \ {"RollingBack"}
           /\ <<p, NextPhase(p)>> \in PhaseSteps
<1>1. \E q \in Phase \ {"RollingBack"} : <<p, q>> \in PhaseSteps
    BY DEF Unfinished, PhaseSteps, Phase
<1>2. QED
    BY <1>1 DEF NextPhase

LEMMA NextPhaseStays ==
    /\ \A p \in Unfinished : NextPhase(p) \in Forward
    /\ NextPhase("RollingBack") = "RolledBack"
    BY NextPhaseTyped DEF Unfinished, Forward, PhaseSteps

\* The record that is announced after j.
LEMMA NextOfTyped ==
    ASSUME NEW j \in Journal, j.phase \in Unfinished \cup {"RollingBack"} \/ Open(j) # {}
    PROVE  /\ NextOf(j) \in Journal
           /\ NextOf(j).phase = IF Open(j) = {} THEN NextPhase(j.phase) ELSE j.phase
<1>1. CASE Open(j) = {}
    <2>1. j.phase \in Unfinished \cup {"RollingBack"}
        BY <1>1
    <2>2. QED
        BY <1>1, <2>1, RecordsTyped, NextPhaseTyped DEF NextOf
<1>2. CASE Open(j) # {}
    <2> DEFINE i == Lowest(Open(j))
               r == j.progress[i]
               s == CASE r = "Unstaged"          -> "StagingPending"
                      [] r = "StagingPending"    -> "Prepared"
                      [] r = "QuarantinePending" -> "Quarantined"
                      [] r = "CommitPending"     -> "Committed"
                      [] r = "Committed"         -> "Verified"
                      [] r = "Prepared" /\ j.phase = "QuarantiningOldTargets" ->
                             "QuarantinePending"
                      [] OTHER -> IF disp[i] = "noop" THEN "Committed" ELSE "CommitPending"
    <2>1. s \in Progress
        BY DEF Progress
    <2>2. NextOf(j) = ProgressIs(j, i, s)
        BY <1>2 DEF NextOf
    <2>3. QED
        BY <1>2, <2>1, <2>2, RecordsTyped
<1>3. QED
    BY <1>1, <1>2

\* A journal that is not refused holds records only, and the one it keeps is one.
LEMMA VerdictTyped ==
    ASSUME journal \in Files(Records), None \notin Records,
           Verdict \notin {"invalid", "absent"}
    PROVE  /\ JournalSeen(journal, Verdict) \in Journal
           /\ Verdict = "restore" => Restored(journal).dst \in Journal
           /\ Verdict \notin {"restore", "installFirst", "installNext"} => journal.dst \in Journal
<1>1. ASSUME NEW valid \in SUBSET Journal, NEW leads,
             JournalVerdict(journal, valid, leads) \notin {"invalid", "absent"}
      PROVE  LET v == JournalVerdict(journal, valid, leads)
             IN  /\ JournalSeen(journal, v) \in Journal
                 /\ v = "restore" => Restored(journal).dst \in Journal
                 /\ v \notin {"restore", "installFirst", "installNext"} => journal.dst \in Journal
    BY <1>1 DEF JournalVerdict, JournalSeen, Held, Files, Records, Restored
<1> DEFINE valid == {j \in Held(journal) \ {None} : Valid(j)}
           leads == {t \in valid \X valid : Leads(t[1], t[2])}
<1>2. valid \in SUBSET Journal
    BY DEF Held, Files, Records, Valid
<1>3. Verdict = JournalVerdict(journal, valid, leads)
    BY DEF Verdict
<1> HIDE DEF valid, leads
<1>4. QED
    BY <1>1, <1>2, <1>3
-----------------------------------------------------------------------------
(***************************************************************************)
(* Type correctness.  TypeOK alone is not inductive: that a record is      *)
(* announced which the journal's rules know rests on which mode and phase  *)
(* reach which label, and that recovery finds a record in the live journal *)
(* rests on what the reconciliation in front of it has done.               *)
(***************************************************************************)
Routed ==
    /\ pc \in Effects => mode = "commit"
    /\ pc \in Effects \cup {"persist"} /\ mode = "commit" => aim.phase \in Forward
    /\ pc = "persist" /\ mode = "forward" => aim.phase \in {"StateCommitted", "Verified"}
    /\ pc = "persist" /\ mode = "rollback" => aim.phase \in {"RollingBack", "RolledBack"}
    /\ pc = "undo" => mode = "rollback" /\ cursor.phase = "RollingBack"
    /\ pc = "recoverTargets" => mode = "forward"
    /\ pc = "reconcile" /\ ~ busy => Verdict \notin {"invalid", "absent"}
    /\ pc \in {"dropPending", "direct"} => journal.dst \in Journal

BatchInv == TypeOK /\ Routed

\* The verdict is a function of the journal and the dispositions.
LEMMA VerdictStays == UNCHANGED <<disp, journal>> => Verdict' = Verdict
<1> SUFFICES ASSUME UNCHANGED <<disp, journal>> PROVE Verdict' = Verdict
    OBVIOUS
<1>1. \A j : Valid(j)' <=> Valid(j)
    BY DEF Valid, ValidProgress, Quarantines
<1>2. \A a, b : Leads(a, b)' <=> Leads(a, b)
    BY DEF Leads
<1>3. QED
    BY <1>1, <1>2 DEF Verdict, JournalVerdict, Held

LEMMA BatchInit == Init => BatchInv
<1> USE BatchAssumption
<1> SUFFICES ASSUME Init PROVE BatchInv
    OBVIOUS
<1>1. First \in Journal
    BY DEF First, Journal, Phase, Progress
<1>2. state \in Files(Text) /\ journal \in Files(Records)
    BY DEF Init, Files, Settled, Text, OldState, Records
<1>3. target \in [Items -> Files(Text)]
    BY DEF Init, Files, Settled, Text, Old
<1>4. edits \in 0 .. MaxEdits /\ crashes \in 0 .. MaxCrashes
    BY DEF Init
<1>5. TypeOK
    BY <1>1, <1>2, <1>3, <1>4 DEF Init, TypeOK, Records
<1>6. Routed
    BY DEF Init, Routed, Effects
<1>7. QED
    BY <1>5, <1>6 DEF BatchInv

LEMMA BatchStep == BatchInv /\ [Next]_vars => BatchInv'
<1> USE BatchAssumption
<1> SUFFICES ASSUME BatchInv, [Next]_vars PROVE BatchInv'
    OBVIOUS
<1>1. /\ target \in [Items -> Files(Text)] /\ state \in Files(Text)
      /\ journal \in Files(Records) /\ cursor \in Journal /\ aim \in Journal
      /\ {"old", "new", "foreign", Torn} = Text /\ None \notin Records
      /\ Journal \subseteq Records /\ Torn \in Records /\ Torn \in Text
      /\ mode \in {"commit", "forward", "rollback"}
    BY DEF BatchInv, TypeOK, Text, Records
<1>2. Routed
    BY DEF BatchInv
<1>3. ASSUME UNCHANGED <<given, disk, history>>, pc' \in Labels, busy' \in BOOLEAN,
             mode' \in {"commit", "forward", "rollback"}, cursor' \in Journal, aim' \in Journal
      PROVE  TypeOK'
    BY <1>3 DEF BatchInv, TypeOK, given, disk, history, Labels
<1>4. ASSUME NEW i, NEW f, WriteTarget(i, f), i \in Items => f \in Files(Text),
             pc' \in Labels, busy' \in BOOLEAN, aim' \in Journal
      PROVE  TypeOK'
    <2>1. target' \in [Items -> Files(Text)]
        BY <1>1, <1>4 DEF WriteTarget
    <2>2. QED
        BY <1>4, <2>1 DEF BatchInv, WriteTarget, TypeOK, given, history, Labels
<1>5. ASSUME NEW f \in Files(Text), WriteState(f), pc' \in Labels, busy' \in BOOLEAN
      PROVE  TypeOK'
    BY <1>5 DEF BatchInv, WriteState, TypeOK, given, memory, history, Labels
<1>6. ASSUME NEW f \in Files(Records), WriteJournal(f), pc' \in Labels, busy' \in BOOLEAN,
             cursor' \in Journal, aim' \in Journal
      PROVE  TypeOK'
    BY <1>6 DEF BatchInv, WriteJournal, TypeOK, given, history, Labels, Records
<1>7. \A i \in Items : target[i] \in Files(Text)
    BY <1>1
\* A decision that leads to a label about which Routed says nothing new.
<1>8. ASSUME NEW l \in Labels, Decide(l),
             l \notin {"undo", "recoverTargets", "reconcile", "dropPending", "direct"},
             l \in Effects \cup {"persist"} => pc \in Effects
      PROVE  BatchInv'
    <2>1. TypeOK'
        BY <1>1, <1>3, <1>8 DEF Decide, Go, memory
    <2>2. Routed'
        BY <1>2, <1>8 DEF Decide, Go, memory, Routed, Effects
    <2>3. QED
        BY <2>1, <2>2 DEF BatchInv
<1>9. ASSUME Fail PROVE BatchInv'
    BY <1>8, <1>9 DEF Fail, Labels, Effects, Steps
<1>10. CASE Attempt
    <2>1. CASE mode' = "commit" /\ Announce(First) /\ UNCHANGED <<given, disk, cursor, history>>
        <3>1. First \in Journal /\ First.phase = "Preparing"
            BY DEF First, Journal, Phase, Progress
        <3>2. TypeOK'
            BY <1>1, <1>3, <2>1, <3>1 DEF Announce, Go, Labels, Steps
        <3>3. Routed'
            BY <2>1, <3>1 DEF Announce, Go, Routed, Effects, Forward, Unfinished
        <3>4. QED
            BY <3>2, <3>3 DEF BatchInv
    <2>2. CASE /\ Verdict \notin {"invalid", "absent"}
               /\ aim' = JournalSeen(journal, Verdict)
               /\ mode' = "forward"
               /\ Go("reconcile")
               /\ UNCHANGED <<given, disk, cursor, history>>
        <3>1. aim' \in Journal
            BY <1>1, <2>2, VerdictTyped
        <3>2. TypeOK'
            BY <1>1, <1>3, <2>2, <3>1 DEF Go, Labels, Steps
        <3>3. Verdict' = Verdict
            BY <2>2, VerdictStays DEF given, disk
        <3>4. Routed'
            BY <2>2, <3>3 DEF Go, Routed, Effects
        <3>5. QED
            BY <3>2, <3>4 DEF BatchInv
    <2>3. CASE Decide("blocked") \/ Decide("done") \/ Decide("failed")
        BY <1>8, <2>3 DEF Labels, Effects
    <2>4. QED
        BY <1>10, <2>1, <2>2, <2>3 DEF Attempt
\* An announcement that suits the mode.
<1>11. ASSUME NEW j \in Journal, Announce(j), mode' = mode,
              mode = "commit"   => j.phase \in Forward,
              mode = "forward"  => j.phase \in {"StateCommitted", "Verified"},
              mode = "rollback" => j.phase \in {"RollingBack", "RolledBack"}
       PROVE  Routed' /\ pc' \in Labels /\ busy' \in BOOLEAN /\ aim' \in Journal
    BY <1>11 DEF Announce, Go, Routed, Effects, Labels, Steps
<1>12. ASSUME pc \in Effects, NEW i, NEW f, WriteTarget(i, f), Announce(aim),
              i \in Items => f \in Files(Text)
       PROVE  BatchInv'
    <2>1. mode = "commit" /\ aim.phase \in Forward /\ mode' = mode
        BY <1>2, <1>12 DEF Routed, WriteTarget
    <2>2. QED
        BY <1>1, <1>4, <1>11, <1>12, <2>1 DEF BatchInv
<1>13. CASE Stage \/ Quarantine \/ Clear \/ Place
    BY <1>1, <1>7, <1>9, <1>12, <1>13, MutationsTyped DEF Stage, Quarantine, Clear, Place, Effects
<1>14. ASSUME pc \in Effects, NEW f \in Files(Text), WriteState(f), pc' \in {pc, "persist"},
              busy' \in BOOLEAN
       PROVE  BatchInv'
    <2>1. mode = "commit" /\ aim.phase \in Forward /\ mode' = mode /\ aim' = aim
        BY <1>2, <1>14 DEF Routed, WriteState, memory
    <2>2. pc' \in Labels
        BY <1>14 DEF Labels, Steps
    <2>3. Routed'
        BY <1>14, <2>1 DEF Routed, Effects
    <2>4. QED
        BY <1>5, <1>14, <2>2, <2>3 DEF BatchInv
<1>15. CASE StageState \/ InstallState
    BY <1>1, <1>9, <1>14, <1>15, MutationsTyped DEF StageState, InstallState, Go, Effects
<1>16. CASE Revalidate \/ Verify
    BY <1>8, <1>9, <1>16 DEF Revalidate, Verify, Effects, Labels, Steps
<1>17. CASE Persist
    <2>1. ASSUME NEW f \in Files(Records), WriteJournal(f), pc' = pc, busy' \in BOOLEAN,
                 UNCHANGED <<cursor, aim>>
          PROVE  BatchInv'
        <3>1. TypeOK'
            BY <1>1, <1>6, <1>17, <2>1 DEF Persist, Labels, Steps
        <3>2. Routed'
            BY <1>2, <1>17, <2>1 DEF Persist, WriteJournal, Routed, Effects
        <3>3. QED
            BY <3>1, <3>2 DEF BatchInv
    <2>2. ASSUME NEW f \in Files(Records), WriteJournal(f),
                 cursor' = aim, Go(After(aim)),
                 aim' = IF After(aim) \in Effects \cup {"persist"} THEN NextOf(aim) ELSE aim
          PROVE  BatchInv'
        <3>1. mode' = mode
            BY <2>2 DEF WriteJournal
        <3>2. CASE mode = "commit"
            <4>1. aim.phase \in Forward /\ After(aim) = EffectOf(aim)
                BY <1>2, <1>17, <3>2 DEF Persist, Routed, After
            <4>2. After(aim) \in Effects \cup {"persist", "clean"}
                BY <4>1 DEF EffectOf, Effects
            <4>3. CASE After(aim) = "clean"
                <5>1. aim' = aim
                    BY <2>2, <4>3 DEF Effects
                <5>2. Routed'
                    BY <2>2, <4>3 DEF Go, Routed, Effects
                <5>3. QED
                    BY <1>1, <1>6, <2>2, <4>3, <5>1, <5>2 DEF BatchInv, Go, Labels, Steps
            <4>4. CASE After(aim) \in Effects \cup {"persist"}
                <5>1. aim.phase \in Unfinished \/ Open(aim) # {}
                    BY <4>1, <4>4 DEF EffectOf, Effects, Forward
                <5>2. NextOf(aim) \in Journal /\ NextOf(aim).phase \in Forward
                    BY <1>1, <4>1, <5>1, NextOfTyped, NextPhaseStays
                       DEF Open, Forward, Unfinished
                <5>3. aim' = NextOf(aim)
                    BY <2>2, <4>4
                <5>4. pc' = After(aim) /\ busy' = FALSE
                    BY <2>2 DEF Go
                <5>5. TypeOK'
                    BY <1>1, <1>6, <2>2, <4>4, <5>2, <5>3, <5>4 DEF Labels, Steps
                <5>6. Routed'
                    BY <3>1, <3>2, <4>4, <5>2, <5>3, <5>4 DEF Routed, Effects
                <5>7. QED
                    BY <5>5, <5>6 DEF BatchInv
            <4>5. QED
                BY <4>2, <4>3, <4>4
        <3>3. CASE mode = "forward"
            <4>1. aim.phase \in {"StateCommitted", "Verified"}
                BY <1>2, <1>17, <3>3 DEF Persist, Routed
            <4>2. CASE aim.phase = "Verified"
                <5>1. After(aim) = "tidy" /\ aim' = aim
                    BY <2>2, <3>3, <4>2 DEF After, Effects
                <5>2. Routed'
                    BY <2>2, <5>1 DEF Go, Routed, Effects
                <5>3. QED
                    BY <1>1, <1>6, <2>2, <5>1, <5>2 DEF BatchInv, Go, Labels, Steps
            <4>3. CASE aim.phase = "StateCommitted"
                <5>1. After(aim) = "persist" /\ aim' = NextOf(aim)
                    BY <2>2, <3>3, <4>3 DEF After
                <5>2. NextPhase("StateCommitted") = "Verified"
                    <6>1. "StateCommitted" \in Unfinished
                        BY DEF Unfinished
                    <6>2. <<"StateCommitted", NextPhase("StateCommitted")>> \in PhaseSteps
                        BY <6>1, NextPhaseTyped
                    <6>3. NextPhase("StateCommitted") # "RollingBack"
                        BY <6>1, NextPhaseTyped
                    <6>4. QED
                        BY <6>2, <6>3 DEF PhaseSteps
                <5>3. NextOf(aim) \in Journal /\ NextOf(aim).phase \in {"StateCommitted", "Verified"}
                    BY <1>1, <4>3, <5>2, NextOfTyped DEF Unfinished
                <5>4. Routed'
                    BY <2>2, <3>1, <3>3, <5>1, <5>3 DEF Go, Routed, Effects
                <5>5. QED
                    BY <1>1, <1>6, <2>2, <5>1, <5>3, <5>4 DEF BatchInv, Go, Labels, Steps
            <4>4. QED
                BY <4>1, <4>2, <4>3
        <3>4. CASE mode = "rollback"
            <4>1. aim.phase \in {"RollingBack", "RolledBack"}
                BY <1>2, <1>17, <3>4 DEF Persist, Routed
            <4>2. After(aim) = IF aim.phase = "RolledBack" THEN "tidy" ELSE "undo"
                BY <3>4 DEF After
            <4>3. aim' = aim
                BY <2>2, <4>2 DEF Effects
            <4>4. Routed'
                BY <2>2, <3>1, <3>4, <4>1, <4>2 DEF Go, Routed, Effects
            <4>5. QED
                BY <1>1, <1>6, <2>2, <4>2, <4>3, <4>4 DEF BatchInv, Go, Labels, Steps
        <3>5. QED
            BY <1>1, <3>2, <3>3, <3>4
    <2>3. QED
        BY <1>1, <1>9, <1>17, <2>1, <2>2, MutationsTyped DEF Persist, Go
<1>18. CASE Reconcile
    <2>1. ASSUME NEW f \in Files(Records), WriteJournal(f), UNCHANGED <<cursor, aim>>,
                 \/ pc' = "reconcile" /\ busy' = TRUE
                 \/ pc' \in {"dropPending", "direct"} /\ busy' = FALSE /\ f.dst \in Journal
          PROVE  BatchInv'
        <3>1. TypeOK'
            BY <1>1, <1>6, <2>1 DEF Labels, Steps
        <3>2. Routed'
            BY <2>1 DEF WriteJournal, Routed, Effects
        <3>3. QED
            BY <3>1, <3>2 DEF BatchInv
    <2>2. CASE busy \/ Verdict \in {"installFirst", "installNext"}
        <3> DEFINE f == Replaced(journal, aim, exchange)
        <3>1. f \in Files(Records) /\ WriteJournal(f) /\ UNCHANGED <<cursor, aim>>
            BY <1>1, <1>18, <2>2, MutationsTyped DEF Reconcile
        <3>2. busy' = (f # Settled(aim)) /\ pc' = IF busy' THEN pc ELSE "direct"
            BY <1>18, <2>2 DEF Reconcile
        <3>3. f = Settled(aim) => f.dst \in Journal
            BY <1>1 DEF Settled
        <3> HIDE DEF f
        <3>4. QED
            BY <1>18, <2>1, <3>1, <3>2, <3>3 DEF Reconcile
    <2>3. CASE ~ (busy \/ Verdict \in {"installFirst", "installNext"})
        <3>1. Verdict \notin {"invalid", "absent"}
            BY <1>2, <1>18, <2>3 DEF Reconcile, Routed
        <3>2. /\ Verdict = "restore" => Restored(journal).dst \in Journal
              /\ Verdict # "restore" => journal.dst \in Journal
            BY <1>1, <2>3, <3>1, VerdictTyped
        <3>3. StagingGone(journal).dst = journal.dst /\ BackupGone(journal).dst = journal.dst
            BY <1>1 DEF Files, StagingGone, BackupGone
        <3>4. CASE Verdict \in {"restore", "dropBackup", "dropStaging"}
            BY <1>1, <1>18, <2>1, <2>3, <3>2, <3>3, <3>4, MutationsTyped DEF Reconcile, Go
        <3>5. CASE Verdict \notin {"restore", "dropBackup", "dropStaging"}
            <4>1. Decide("direct")
                BY <1>18, <2>3, <3>5 DEF Reconcile
            <4>2. TypeOK'
                BY <1>1, <1>3, <4>1 DEF Decide, Go, memory, Labels, Steps
            <4>3. Routed'
                BY <3>2, <3>5, <4>1 DEF Decide, Go, disk, Routed, Effects
            <4>4. QED
                BY <4>2, <4>3 DEF BatchInv
        <3>6. QED
            BY <3>4, <3>5
    <2>4. QED
        BY <2>2, <2>3
<1>19. CASE DropPending
    <2>1. StagingGone(journal) \in Files(Records) /\ StagingGone(journal).dst = journal.dst
        BY <1>1, MutationsTyped DEF Files, StagingGone
    <2>2. TypeOK'
        BY <1>1, <1>6, <1>19, <2>1 DEF DropPending, Go, Labels, Steps
    <2>3. Routed'
        BY <1>2, <1>19, <2>1 DEF DropPending, WriteJournal, Go, Routed, Effects
    <2>4. QED
        BY <2>2, <2>3 DEF BatchInv
<1>20. CASE Direct
    <2>1. CASE Direction(journal.dst.phase) = "blocked"
        BY <1>8, <1>20, <2>1 DEF Direct, Effects, Labels
    <2>2. CASE Direction(journal.dst.phase) # "blocked"
        <3>1. /\ mode' \in {"forward", "rollback"}
              /\ cursor' = journal.dst /\ UNCHANGED <<given, disk, history>>
            BY <1>20, <2>2 DEF Direct, Direction
        <3>2. cursor' \in Journal
            BY <1>2, <1>20, <3>1 DEF Direct, Routed
        <3>3. CASE \/ mode' = "forward" /\ Go("recoverTargets") /\ UNCHANGED aim
                   \/ Go("tidy") /\ UNCHANGED aim
                   \/ /\ mode' = "rollback" /\ cursor'.phase = "RollingBack"
                      /\ Go("undo") /\ UNCHANGED aim
            <4>1. TypeOK'
                BY <1>1, <1>3, <3>1, <3>2, <3>3 DEF Go, Labels, Steps
            <4>2. Routed'
                BY <3>3 DEF Go, Routed, Effects
            <4>3. QED
                BY <4>1, <4>2 DEF BatchInv
        <3>4. CASE mode' = "rollback" /\ Announce(PhaseIs(cursor', "RollingBack"))
            <4>1. aim' \in Journal /\ aim'.phase = "RollingBack"
                BY <3>2, <3>4, RecordsTyped DEF Announce, Phase
            <4>2. TypeOK'
                BY <1>1, <1>3, <3>1, <3>2, <3>4, <4>1 DEF Announce, Go, Labels, Steps
            <4>3. Routed'
                BY <3>4, <4>1 DEF Announce, Go, Routed, Effects
            <4>4. QED
                BY <4>2, <4>3 DEF BatchInv
        <3>5. QED
            BY <1>20, <2>2, <3>1, <3>3, <3>4 DEF Direct
    <2>3. QED
        BY <2>1, <2>2
<1>21. CASE RecoverTargets
    <2>1. mode = "forward"
        BY <1>2, <1>21 DEF RecoverTargets, Routed
    <2>2. ASSUME NEW i, WriteTarget(i, Placed(target[i])), UNCHANGED aim, Go("recoverTargets")
          PROVE  BatchInv'
        <3>1. i \in Items => Placed(target[i]) \in Files(Text)
            BY <1>7, MutationsTyped
        <3>2. TypeOK'
            BY <1>1, <1>4, <2>2, <3>1 DEF Go, Labels, Steps
        <3>3. Routed'
            BY <2>1, <2>2 DEF Go, WriteTarget, Routed, Effects
        <3>4. QED
            BY <3>2, <3>3 DEF BatchInv
    <2>3. CASE /\ cursor.phase \in {"NewTargetsCommitted", "StateCommitted"}
               /\ Announce(NextOf(cursor))
               /\ UNCHANGED <<given, disk, mode, cursor, history>>
        <3>1. /\ NextPhase("NewTargetsCommitted") = "StateCommitted"
              /\ NextPhase("StateCommitted") = "Verified"
            <4>1. \A p \in {"NewTargetsCommitted", "StateCommitted"} :
                     <<p, NextPhase(p)>> \in PhaseSteps /\ NextPhase(p) # "RollingBack"
                BY NextPhaseTyped DEF Unfinished
            <4>2. QED
                BY <4>1 DEF PhaseSteps
        <3>2. cursor.phase = "NewTargetsCommitted" => Open(cursor) = {}
            BY DEF Open
        <3>3. NextOf(cursor) \in Journal
                 /\ NextOf(cursor).phase \in {"StateCommitted", "Verified"}
            BY <1>1, <2>3, <3>1, <3>2, NextOfTyped DEF Unfinished
        <3>4. Routed' /\ pc' \in Labels /\ busy' \in BOOLEAN /\ aim' \in Journal
            BY <1>11, <2>1, <2>3, <3>3
        <3>5. QED
            BY <1>1, <1>3, <2>3, <3>4 DEF BatchInv
    <2>4. CASE Decide("tidy")
        BY <1>8, <2>4 DEF Labels, Steps, Effects
    <2>5. QED
        BY <1>9, <1>21, <2>2, <2>3, <2>4 DEF RecoverTargets
<1>22. CASE Undo
    <2>1. mode = "rollback" /\ cursor.phase = "RollingBack"
        BY <1>2, <1>22 DEF Undo, Routed
    <2> DEFINE i == Highest(Open(cursor))
    <2>2. ASSUME NEW j \in Journal, j.phase \in {"RollingBack", "RolledBack"}, Announce(j),
                 \/ UNCHANGED <<given, disk, mode, cursor, history>>
                 \/ \E g : WriteTarget(i, g) /\ (i \in Items => g \in Files(Text))
          PROVE  BatchInv'
        <3>1. mode' = mode
            BY <2>2 DEF WriteTarget
        <3>2. Routed' /\ pc' \in Labels /\ busy' \in BOOLEAN /\ aim' \in Journal
            BY <1>11, <2>1, <2>2, <3>1
        <3>3. TypeOK'
            BY <1>1, <1>3, <1>4, <2>2, <3>2
        <3>4. QED
            BY <3>2, <3>3 DEF BatchInv
    <2>3. \A s \in {"RestorePending", "RolledBack", "RemovePending", "Removed"} :
             /\ ProgressIs(cursor, i, s) \in Journal
             /\ ProgressIs(cursor, i, s).phase = "RollingBack"
        BY <1>1, <2>1, RecordsTyped DEF Progress
    <2>4. i \in Items => /\ Restored(target[i]) \in Files(Text)
                         /\ [target[i] EXCEPT !.dst = None] \in Files(Text)
        BY <1>7, MutationsTyped
    <2>5. CASE Open(cursor) = {}
        <3>1. NextOf(cursor) \in Journal /\ NextOf(cursor).phase = "RolledBack"
            BY <1>1, <2>1, <2>5, NextOfTyped, NextPhaseStays
        <3>2. QED
            BY <1>22, <2>2, <2>5, <3>1 DEF Undo
    <2> DEFINE Record(s) == /\ Announce(ProgressIs(cursor, i, s))
                            /\ UNCHANGED <<given, disk, mode, cursor, history>>
               Change(g, s) == WriteTarget(i, g) /\ Announce(ProgressIs(cursor, i, s))
    <2>6. CASE Open(cursor) # {}
        <3>1. \/ Fail
              \/ \E s \in {"RestorePending", "RolledBack", "RemovePending", "Removed"} : Record(s)
              \/ Change(Restored(target[i]), "RolledBack")
              \/ Change([target[i] EXCEPT !.dst = None], "Removed")
            BY <1>22, <2>6 DEF Undo
        <3>2. QED
            BY <1>9, <2>2, <2>3, <2>4, <3>1
    <2>7. QED
        BY <2>5, <2>6
<1>23. ASSUME NEW label \in {"clean", "tidy"}, NEW end \in {"done", "idle"},
              RemoveResidue(label, end)
       PROVE  BatchInv'
    <2>1. pc = label /\ label \notin Effects \cup {"persist"} /\ label \in Labels /\ end \in Labels
        BY <1>23 DEF RemoveResidue, Effects, Labels, Steps
    <2>2. ASSUME pc' \in {label, end} PROVE Routed'
        BY <2>2 DEF Routed, Effects
    <2>3. ASSUME NEW i, NEW g \in {StagingGone(target[i]), BackupGone(target[i])},
                 WriteTarget(i, g), UNCHANGED aim, Go(label)
          PROVE  BatchInv'
        <3>1. i \in Items => g \in Files(Text)
            BY <1>7, <2>3, MutationsTyped
        <3>2. TypeOK'
            BY <1>1, <1>4, <2>1, <2>3, <3>1 DEF Go
        <3>3. QED
            BY <2>2, <2>3, <3>2 DEF BatchInv, Go
    <2>4. CASE WriteState(StagingGone(state)) /\ Go(label)
        BY <1>1, <1>5, <2>1, <2>2, <2>4, MutationsTyped DEF BatchInv, Go
    <2>5. ASSUME NEW g \in Files(Records), WriteJournal(g), Go(label) \/ Go(end),
                 UNCHANGED <<cursor, aim>>
          PROVE  BatchInv'
        BY <1>1, <1>6, <2>1, <2>2, <2>5 DEF BatchInv, Go
    <2>6. [journal EXCEPT !.dst = None] \in Files(Records) /\ StagingGone(journal) \in Files(Records)
        BY <1>1, MutationsTyped
    <2> DEFINE left == {i \in Items : target[i].stg # None \/ target[i].bak # None}
    <2>7. CASE left # {}
        BY <1>9, <1>23, <2>3, <2>7 DEF RemoveResidue
    <2>8. CASE left = {}
        BY <1>9, <1>23, <2>4, <2>5, <2>6, <2>8 DEF RemoveResidue
    <2>9. QED
        BY <2>7, <2>8
<1>24. ASSUME Dies, NEW t \in [Items -> Files(Text)], target' = t, state' \in Files(Text),
              journal' \in Files(Records), torn' \in BOOLEAN, split' \in BOOLEAN
       PROVE  BatchInv'
    <2>1. First \in Journal
        BY DEF First, Journal, Phase, Progress
    <2>2. crashes' \in 0 .. MaxCrashes
        BY <1>24 DEF BatchInv, TypeOK, Dies
    <2>3. TypeOK'
        BY <1>24, <2>1, <2>2 DEF BatchInv, TypeOK, Dies, given, Records
    <2>4. Routed'
        BY <1>24 DEF Dies, Routed, Effects
    <2>5. QED
        BY <2>3, <2>4 DEF BatchInv
<1>25. CASE Crash
    <2>1. split' \in BOOLEAN /\ torn' \in BOOLEAN
        BY <1>25 DEF BatchInv, TypeOK, Crash
    <2>2. QED
        BY <1>1, <1>24, <1>25, <2>1 DEF Crash, disk
<1>26. CASE Tear
    <2>1. split' \in BOOLEAN /\ torn' \in BOOLEAN
        BY <1>26 DEF BatchInv, TypeOK, Tear
    <2>2. \A i \in Items : Staged(target[i], Torn) \in Files(Text)
        BY <1>1, <1>7, MutationsTyped
    <2>3. /\ Staged(state, Torn) \in Files(Text)
          /\ Staged(journal, Torn) \in Files(Records)
        BY <1>1, MutationsTyped
    <2>4. [target EXCEPT ![Current] = Staged(@, Torn)] \in [Items -> Files(Text)]
        BY <1>1, <2>2
    <2>5. QED
        BY <1>1, <1>24, <1>26, <2>1, <2>3, <2>4 DEF Tear
<1>27. ASSUME Edits, NEW t \in [Items -> Files(Text)], target' = t, state' \in Files(Text),
              moved' \in BOOLEAN, theirs' \subseteq {0} \cup Items
       PROVE  BatchInv'
    <2>1. edits' \in 0 .. MaxEdits
        BY <1>27 DEF BatchInv, TypeOK, Edits
    <2>2. TypeOK'
        BY <1>27, <2>1 DEF BatchInv, TypeOK, Edits, given, memory
    <2>3. Verdict' = Verdict
        BY <1>27, VerdictStays DEF Edits, given
    <2>4. Routed'
        BY <1>2, <1>27, <2>3 DEF Edits, memory, Routed
    <2>5. QED
        BY <2>2, <2>4 DEF BatchInv
<1>28. ASSUME NEW i \in Items, EditTarget(i) PROVE BatchInv'
    <2>1. [target[i] EXCEPT !.dst = "foreign"] \in Files(Text)
        BY <1>7 DEF Files, Text
    <2>2. [target EXCEPT ![i].dst = "foreign"] \in [Items -> Files(Text)]
        BY <1>1, <2>1
    <2>3. theirs' \subseteq {0} \cup Items /\ moved' \in BOOLEAN
        BY <1>28 DEF EditTarget, BatchInv, TypeOK
    <2>4. QED
        BY <1>1, <1>27, <1>28, <2>2, <2>3 DEF EditTarget
<1>29. CASE EditState
    <2>1. state' \in Files(Text)
        BY <1>1, <1>29 DEF EditState, Files, Text
    <2>2. theirs' \subseteq {0} \cup Items /\ moved' \in BOOLEAN
        BY <1>29 DEF EditState, BatchInv, TypeOK
    <2>3. QED
        BY <1>1, <1>27, <1>29, <2>1, <2>2 DEF EditState
<1>30. CASE Adopt
    <2>1. theirs' \subseteq {0} \cup Items /\ moved' \in BOOLEAN
        BY <1>30 DEF Adopt, BatchInv, TypeOK
    <2>2. QED
        BY <1>1, <1>27, <1>30, <2>1 DEF Adopt
<1>31. CASE UNCHANGED vars
    <2>1. TypeOK'
        BY <1>31 DEF BatchInv, TypeOK, vars
    <2>2. Verdict' = Verdict
        BY <1>31, VerdictStays DEF vars
    <2>3. Routed'
        BY <1>2, <1>31, <2>2 DEF vars, Routed
    <2>4. QED
        BY <2>1, <2>3 DEF BatchInv
<1>32. CASE Step
    BY <1>10, <1>13, <1>15, <1>16, <1>17, <1>18, <1>19, <1>20, <1>21, <1>22, <1>23, <1>32 DEF Step
<1>33. QED
    BY <1>25, <1>26, <1>28, <1>29, <1>30, <1>31, <1>32 DEF Next, Finished

LEMMA BatchHolds == Spec => []BatchInv
<1>1. QED
    BY BatchInit, BatchStep, PTL DEF Spec

(***************************************************************************)
(* A batch, its recoveries and its cleanups stay within their state: every *)
(* record that is announced is one of the journal's, and recovery never    *)
(* works from a live journal that is not there.                            *)
(***************************************************************************)
THEOREM TypeCorrect == Spec => []TypeOK
<1>1. BatchInv => TypeOK
    BY DEF BatchInv
<1>2. QED
    BY <1>1, BatchHolds, PTL
-----------------------------------------------------------------------------
(***************************************************************************)
(* Foreign bytes.  What is inductive is stronger than ForeignKept: they    *)
(* stay at their destination, and the replacement of state.json that is    *)
(* under way found none there.                                             *)
(***************************************************************************)
ForeignInv ==
    /\ 0 \in theirs => state.dst = "foreign"
    /\ \A i \in Items : i \in theirs => target[i].dst = "foreign"
    /\ pc = "installState" /\ busy => 0 \notin theirs

LEMMA ForeignStep == BatchInv /\ ForeignInv /\ [Next]_vars => ForeignInv'
<1> USE BatchAssumption
<1> SUFFICES ASSUME BatchInv, ForeignInv, [Next]_vars PROVE ForeignInv'
    OBVIOUS
<1>1. /\ target \in [Items -> Files(Text)] /\ state \in Files(Text)
      /\ "foreign" # None /\ 0 \notin Items
    <2>1. target \in [Items -> Files(Text)] /\ state \in Files(Text)
        BY DEF BatchInv, TypeOK
    <2>2. "foreign" # None
        BY DEF Text
    <2>3. 0 \notin Items
        BY DEF Items
    <2>4. QED
        BY <2>1, <2>2, <2>3
<1>2. \A i \in Items : target[i] \in Files(Text)
    BY <1>1
<1>3. ASSUME UNCHANGED <<target, state, theirs>>, ~ (pc' = "installState" /\ busy')
      PROVE  ForeignInv'
    BY <1>3 DEF ForeignInv
\* A target whose destination is not foreign may change, another one keeps it.
<1>4. ASSUME NEW i, NEW f, WriteTarget(i, f), ~ busy',
             i \in Items => f.dst = target[i].dst \/ target[i].dst # "foreign"
      PROVE  ForeignInv'
    <2>1. \A k \in Items : target'[k] = IF k = i THEN f ELSE target[k]
        BY <1>1, <1>4 DEF WriteTarget
    <2>2. QED
        BY <1>4, <2>1 DEF WriteTarget, history, ForeignInv
<1>5. ASSUME NEW f, WriteState(f), ~ busy', f.dst = state.dst \/ state.dst # "foreign"
      PROVE  ForeignInv'
    BY <1>5 DEF WriteState, history, ForeignInv
<1>6. ASSUME NEW f, WriteJournal(f), pc' # "installState" \/ ~ busy' PROVE ForeignInv'
    BY <1>3, <1>6 DEF WriteJournal, history
<1>7. \A f : (\E T : f \in Files(T)) =>
         /\ \A t : Staged(f, t).dst = f.dst
         /\ StagingGone(f).dst = f.dst /\ BackupGone(f).dst = f.dst
    BY DEF Files, Staged, StagingGone, BackupGone
<1>8. ASSUME NEW l, Decide(l) PROVE ForeignInv'
    BY <1>3, <1>8 DEF Decide, Go, disk, history
<1>9. CASE Fail
    BY <1>8, <1>9 DEF Fail
<1>10. CASE Attempt
    BY <1>3, <1>8, <1>10 DEF Attempt, Announce, Go, disk, history
<1>11. CASE Persist
    BY <1>6, <1>9, <1>11 DEF Persist, Go
<1>12. CASE Stage \/ Quarantine \/ Clear \/ Place
    <2>1. \A i \in Items : /\ Staged(target[i], "new").dst = target[i].dst
                           /\ StagingGone(target[i]).dst = target[i].dst
        BY <1>2, <1>7
    <2>2. QED
        BY <1>1, <1>4, <1>9, <1>12, <2>1 DEF Stage, Quarantine, Clear, Place, Announce, Go
<1>13. CASE StageState
    BY <1>1, <1>5, <1>7, <1>13 DEF StageState, Go
<1>14. CASE InstallState
    <2>1. CASE ~ (busy \/ Installable(state, OldState, "new"))
        BY <1>9, <1>14, <2>1 DEF InstallState
    <2>2. CASE busy \/ Installable(state, OldState, "new")
        <3>1. 0 \notin theirs
            BY <1>1, <1>14, <2>2 DEF InstallState, ForeignInv, Installable, OldState
        <3>2. UNCHANGED <<target, theirs>>
            BY <1>14, <2>2 DEF InstallState, WriteState, history
        <3>3. QED
            BY <3>1, <3>2 DEF ForeignInv
    <2>3. QED
        BY <2>1, <2>2
<1>15. CASE Revalidate \/ Verify
    BY <1>8, <1>9, <1>15 DEF Revalidate, Verify
<1>16. CASE Reconcile \/ DropPending
    BY <1>6, <1>8, <1>16 DEF Reconcile, DropPending, Go
<1>17. CASE Direct
    BY <1>3, <1>8, <1>17 DEF Direct, Announce, Go, disk, history
<1>18. CASE RecoverTargets
    BY <1>1, <1>3, <1>4, <1>8, <1>9, <1>18 DEF RecoverTargets, Announce, Go, disk, history
<1>19. CASE Undo
    <2> DEFINE i == Highest(Open(cursor))
               f == target[i]
    <2>1. \/ Fail
          \/ ~ busy' /\ UNCHANGED <<disk, history>>
          \/ f.dst = None /\ WriteTarget(i, Restored(f)) /\ ~ busy'
          \/ f.dst = "new" /\ WriteTarget(i, [f EXCEPT !.dst = None]) /\ ~ busy'
        BY <1>19 DEF Undo, Announce, Go
    <2>2. QED
        BY <1>1, <1>3, <1>4, <1>9, <2>1 DEF disk, history
<1>20. ASSUME NEW label \in {"clean", "tidy"}, NEW end, RemoveResidue(label, end)
       PROVE  ForeignInv'
    <2>1. \A i \in Items : /\ StagingGone(target[i]).dst = target[i].dst
                           /\ BackupGone(target[i]).dst = target[i].dst
        BY <1>2, <1>7
    <2>2. StagingGone(state).dst = state.dst
        BY <1>1, <1>7
    <2>3. QED
        BY <1>4, <1>5, <1>6, <1>9, <1>20, <2>1, <2>2 DEF RemoveResidue, Go
<1>21. CASE Step
    BY <1>10, <1>11, <1>12, <1>13, <1>14, <1>15, <1>16, <1>17, <1>18, <1>19, <1>20, <1>21 DEF Step
<1>22. CASE Crash
    BY <1>3, <1>22 DEF Crash, Dies, disk
<1>23. CASE Tear
    <2>1. Staged(state, Torn).dst = state.dst
        BY <1>1, <1>7
    <2>2. \A i \in Items : target'[i].dst = target[i].dst
        <3>1. \A i \in Items : Staged(target[i], Torn).dst = target[i].dst
            BY <1>2, <1>7
        <3>2. QED
            BY <1>1, <1>23, <3>1 DEF Tear
    <2>3. QED
        BY <1>23, <2>1, <2>2 DEF Tear, Dies, ForeignInv
<1>24. ASSUME NEW i \in Items, EditTarget(i) PROVE ForeignInv'
    <2>1. \A k \in Items :
             target'[k] = IF k = i THEN [target[i] EXCEPT !.dst = "foreign"] ELSE target[k]
        BY <1>1, <1>24 DEF EditTarget
    <2>2. [target[i] EXCEPT !.dst = "foreign"].dst = "foreign"
        BY <1>2 DEF Files
    <2>3. QED
        BY <1>1, <1>24, <2>1, <2>2 DEF EditTarget, Edits, ForeignInv
<1>25. CASE EditState
    BY <1>1, <1>25 DEF EditState, Edits, Files, ForeignInv
<1>26. CASE Adopt
    BY <1>3, <1>26 DEF Adopt, Edits
<1>27. CASE UNCHANGED vars
    BY <1>27 DEF vars, ForeignInv
<1>28. QED
    BY <1>21, <1>22, <1>23, <1>24, <1>25, <1>26, <1>27 DEF Next, Finished

(***************************************************************************)
(* Whatever somebody else writes at a target or to state.json is still     *)
(* there after every commit, recovery in either direction, crash and       *)
(* cleanup: the exact texts are compared in front of each mutation.        *)
(***************************************************************************)
THEOREM ForeignBytesKept == Spec => []ForeignKept
<1>1. Init => ForeignInv
    BY DEF Init, ForeignInv
<1>2. ForeignInv => ForeignKept
    BY DEF ForeignInv, ForeignKept, Held
<1>3. QED
    BY <1>1, <1>2, ForeignStep, BatchHolds, PTL DEF Spec
-----------------------------------------------------------------------------
(***************************************************************************)
(* Agreement.  A record says of every participant nobody else has written  *)
(* to what its three files can be, and of state.json what its text can be. *)
(* Recovery may retain any record that survives in the journal, so every   *)
(* one of them has to say the truth, and the one that is about to be       *)
(* staged as well.                                                         *)
(***************************************************************************)
\* The backup of a participant whose new content is in place.
Backup(i) == IF Quarantines(i) THEN "old" ELSE None

\* What a record j lets the files f of participant i be.
Fits(j, i, f) ==
    LET d == disp[i]
        r == j.progress[i]
    IN  CASE r = "Unstaged"       -> f = Settled(Old(i))
          [] r = "StagingPending" ->
                 /\ f.dst = Old(i) /\ f.bak = None /\ f.stg \in {None, "new", Torn}
                 /\ d = "remove" => f.stg = None
          [] r = "Prepared"       ->
                 /\ f.dst = Old(i) /\ f.bak = None
                 /\ f.stg = New(i) \/ (d = "noop" /\ f.stg = None)
                 /\ j.phase = "CommittingNewTargets" => ~ Quarantines(i)
          [] r = "QuarantinePending" ->
                 /\ Quarantines(i) /\ f.stg = New(i)
                 /\ \/ f.dst = "old" /\ f.bak = None
                    \/ f.dst = None /\ f.bak = "old"
          [] r = "Quarantined"    ->
                 Quarantines(i) /\ f.stg = New(i) /\ f.dst = None /\ f.bak = "old"
          [] r = "CommitPending"  ->
                 /\ d # "noop" /\ f.bak = Backup(i)
                 /\ \/ f.dst = None /\ f.stg = New(i)
                    \/ f.dst = New(i) /\ f.stg = None
          [] r = "Committed"      -> f.dst = New(i) /\ f.stg = None /\ f.bak = Backup(i)
          [] r = "Verified"       ->
                 /\ f.dst = New(i) /\ f.stg = None
                 /\ f.bak = Backup(i) \/ (f.bak = None /\ j.phase = "Verified")
          [] r = "RemovePending"  ->
                 /\ d \in {"install", "update"} /\ f.bak = Backup(i)
                 /\ \/ f.dst = None /\ f.stg \in {None, "new"}
                    \/ f.dst = "new" /\ f.stg = None
          [] r = "Removed"        ->
                 /\ d \in {"install", "update"} /\ f.bak = Backup(i)
                 /\ f.dst = None /\ f.stg \in {None, "new"}
          [] r = "RestorePending" ->
                 /\ Quarantines(i) /\ f.stg \in {None, "new"}
                 /\ \/ f.dst = "old" /\ f.bak = None
                    \/ f.dst = None /\ f.bak = "old"
          [] r = "RolledBack"     ->
                 f.dst = Old(i) /\ f.bak = None /\ f.stg \in {None, "new", Torn}

\* In phase NewTargetsCommitted state.json is being replaced.
StateFits(j) ==
    0 \notin theirs =>
        /\ j.phase \in Decided => state.dst = "new"
        /\ j.phase \notin Decided \cup {"NewTargetsCommitted"} => state.dst = OldState

Describes(j) == StateFits(j) /\ \A i \in Items \ theirs : Fits(j, i, target[i])

\* The records that survive in the three files of the journal.
Surviving == Held(journal) \ {None, Torn}

\* What the files are when nothing records the batch.
Untouched == /\ 0 \notin theirs => state.dst = OldState
             /\ \A i \in Items \ theirs : target[i].dst = Old(i)
Complete  == /\ 0 \notin theirs => state.dst = "new"
             /\ \A i \in Items \ theirs : target[i].dst = New(i)

Recorded ==
    /\ \A j \in Surviving : Valid(j) /\ Describes(j)
    /\ Surviving = {} =>
         journal.dst = None /\ journal.bak = None /\ (Untouched \/ Complete)

\* A replacement of old by new after its first mutation.
Midway(old, new) ==
    {[dst |-> new, stg |-> old, bak |-> None], [dst |-> None, stg |-> new, bak |-> old],
     [dst |-> new, stg |-> None, bak |-> old]}

\* The replacement of state.json, and what is left of one that a crash ended.
StateReplaced ==
    /\ split => ~ same /\ state.dst # "old"
    /\ state.bak # None => split \/ (pc = "installState" /\ busy)
    /\ mode = "commit" /\ pc \in Steps => ~ split
    /\ pc = "installState" /\ busy => ~ same /\ state \in Midway("old", "new")

\* What the process in memory goes by agrees with the journal on disk.
Begins   == mode = "commit" /\ aim = First
Expected == IF Begins THEN None ELSE cursor

InStep ==
    /\ pc \in Effects \cup {"undo", "recoverTargets"} => journal = Settled(cursor)
    /\ pc \in Effects => pc = EffectOf(cursor) /\ aim = NextOf(cursor)
    /\ pc = "persist" =>
         /\ Describes(aim)
         /\ IF busy THEN ~ Begins /\ journal \in Midway(cursor, aim)
            ELSE journal \in {Settled(Expected), Staged(Settled(Expected), aim)}
    /\ pc = "recoverTargets" =>
         /\ cursor.phase \in Decided \cup {"NewTargetsCommitted"}
         /\ 0 \notin theirs => state.dst = "new"
    /\ pc \in {"clean", "tidy"} =>
         /\ journal \in {Settled(cursor), Settled(None)} /\ Valid(cursor)
         /\ cursor.phase = IF mode = "rollback" THEN "RolledBack" ELSE "Verified"
    /\ pc = "reconcile" =>
         /\ aim \in Surviving
         /\ IF busy THEN \E j \in Journal : journal \in Midway(j, aim)
            ELSE aim = JournalSeen(journal, Verdict)
    /\ pc = "dropPending" => journal.bak = None
    /\ pc = "direct" => journal = Settled(journal.dst)

AgreeInv == Recorded /\ ResidueJournaled /\ StateReplaced /\ InStep

-----------------------------------------------------------------------------
(***************************************************************************)
(* Lemmas: the participant whose turn it is, and what the next record says *)
(***************************************************************************)
\* A set of naturals with an element has a least one.
LEMMA LeastExists ==
    ASSUME NEW S \in SUBSET Nat, S # {}
    PROVE  \E i \in S : \A k \in S : i <= k
<1> DEFINE R == OpToRel(<, Nat)
<1>1. IsWellFoundedOn(R, Nat)
    BY NatLessThanWellFounded
<1>2. \A x \in Nat \X Nat : x \in R <=> x[1] < x[2]
    BY DEF OpToRel
<1> HIDE DEF R
<1>3. PICK i \in S : \A k \in S : ~ (<<k, i>> \in R)
    BY <1>1, WFMin
<1>4. ASSUME NEW k \in S PROVE i <= k
    <2>1. k \in Nat /\ i \in Nat
        OBVIOUS
    <2>2. <<k, i>> \in Nat \X Nat
        BY <2>1
    <2>3. ~ (<<k, i>>[1] < <<k, i>>[2])
        BY <1>2, <1>3, <2>2
    <2>4. ~ (k < i)
        BY <2>3
    <2>5. QED
        BY <2>1, <2>4
<1>5. QED
    BY <1>4

LEMMA LowestIn == ASSUME NEW S \in SUBSET Items, S # {} PROVE Lowest(S) \in S
<1>1. S \in SUBSET Nat
    BY BatchAssumption DEF Items
<1>2. \E i \in S : \A k \in S : i <= k
    BY <1>1, LeastExists
<1>3. QED
    BY <1>2 DEF Lowest

LEMMA HighestIn == ASSUME NEW S \in SUBSET Items, S # {} PROVE Highest(S) \in S
<1> DEFINE T == {N - i : i \in S}
<1>1. N \in Nat /\ \A i \in S : N - i \in Nat
    BY BatchAssumption DEF Items
<1>2. T \in SUBSET Nat
    BY <1>1
<1>3. T # {}
    OBVIOUS
<1> HIDE DEF T
<1>4. PICK j \in T : \A k \in T : j <= k
    BY <1>2, <1>3, LeastExists
<1>5. PICK i \in S : j = N - i
    BY <1>4 DEF T
<1>6. \A k \in S : k <= i
    <2> TAKE k \in S
    <2>1. N - k \in T
        BY DEF T
    <2>2. j <= N - k
        BY <1>4, <2>1
    <2>3. QED
        BY <1>1, <1>5, <2>2 DEF Items
<1>7. QED
    BY <1>5, <1>6 DEF Highest

LEMMA OpenItems == \A j : Open(j) \in SUBSET Items
    BY DEF Open

\* The phase after each phase, and the record after a loop that has ended.
LEMMA NextPhases ==
    /\ NextPhase("Preparing") = "Prepared"
    /\ NextPhase("Prepared") = "QuarantiningOldTargets"
    /\ NextPhase("QuarantiningOldTargets") = "OldTargetsQuarantined"
    /\ NextPhase("OldTargetsQuarantined") = "CommittingNewTargets"
    /\ NextPhase("CommittingNewTargets") = "NewTargetsCommitted"
    /\ NextPhase("NewTargetsCommitted") = "StateCommitted"
    /\ NextPhase("StateCommitted") = "Verified"
    /\ NextPhase("RollingBack") = "RolledBack"
    BY NextPhaseTyped DEF Unfinished, PhaseSteps

\* Another phase changes nothing of what a record says but in two cases.
LEMMA PhaseFits ==
    ASSUME NEW j \in Journal, NEW p \in Phase, NEW i \in Items, NEW f \in Files(Text),
           Fits(j, i, f),
           p = "CommittingNewTargets" => ~ (Quarantines(i) /\ j.progress[i] = "Prepared"),
           j.phase = "Verified" => p = "Verified"
    PROVE  Fits(PhaseIs(j, p), i, f)
<1>1. PhaseIs(j, p).progress = j.progress /\ PhaseIs(j, p).phase = p
    BY DEF PhaseIs, Journal
<1>2. j.progress[i] \in Progress
    BY DEF Journal
<1>3. QED
    BY <1>1, <1>2 DEF Fits, Progress

\* Another progress of one participant changes nothing for the others.
LEMMA ProgressFits ==
    ASSUME NEW j \in Journal, NEW k \in Items, NEW r \in Progress, NEW i \in Items, NEW f,
           i # k, Fits(j, i, f)
    PROVE  Fits(ProgressIs(j, k, r), i, f)
<1>1. /\ ProgressIs(j, k, r).progress[i] = j.progress[i]
      /\ ProgressIs(j, k, r).phase = j.phase
    BY DEF ProgressIs, Journal
<1>2. QED
    BY <1>1 DEF Fits

LEMMA ProgressAt ==
    ASSUME NEW j \in Journal, NEW k \in Items, NEW r \in Progress
    PROVE  /\ ProgressIs(j, k, r) \in Journal
           /\ ProgressIs(j, k, r).progress[k] = r
           /\ ProgressIs(j, k, r).phase = j.phase
    BY DEF ProgressIs, Journal

\* The progress of the participant whose turn it is.
LEMMA TurnIsOpen ==
    ASSUME NEW j \in Journal, Valid(j), j.phase \in Forward, Open(j) # {}
    PROVE  LET i == Lowest(Open(j))
               r == j.progress[i]
           IN  /\ i \in Items
               /\ j.phase \in {"Preparing", "QuarantiningOldTargets", "CommittingNewTargets",
                               "StateCommitted"}
               /\ j.phase = "Preparing" => r \in {"Unstaged", "StagingPending"}
               /\ j.phase = "QuarantiningOldTargets" =>
                     Quarantines(i) /\ r \in {"Prepared", "QuarantinePending"}
               /\ j.phase = "CommittingNewTargets" =>
                     r \in {"Prepared", "Quarantined", "CommitPending"}
               /\ j.phase = "StateCommitted" => r = "Committed"
<1> DEFINE i == Lowest(Open(j))
<1>1. i \in Open(j) /\ i \in Items
    BY OpenItems, LowestIn
<1>2. ValidProgress(j.phase, i, j.progress[i])
    BY <1>1 DEF Valid
<1> HIDE DEF i
<1>3. QED
    BY <1>1, <1>2 DEF Open, ValidProgress, Forward, Unfinished, i

\* A loop that has ended has taken every participant to its last progress.
LEMMA NextPhaseFits ==
    ASSUME NEW j \in Journal, Valid(j), j.phase \in Unfinished, Open(j) = {},
           NEW i \in Items, NEW f \in Files(Text), Fits(j, i, f)
    PROVE  Fits(NextOf(j), i, f)
<1>1. NextOf(j) = PhaseIs(j, NextPhase(j.phase))
    BY DEF NextOf
<1>2. NextPhase(j.phase) \in Phase
    BY NextPhaseTyped
<1>3. NextPhase(j.phase) = "CommittingNewTargets" =>
        ~ (Quarantines(i) /\ j.progress[i] = "Prepared")
    <2>1. NextPhase(j.phase) = "CommittingNewTargets" => j.phase = "OldTargetsQuarantined"
        BY NextPhases DEF Unfinished
    <2>2. ValidProgress(j.phase, i, j.progress[i])
        BY DEF Valid
    <2>3. QED
        BY <2>1, <2>2 DEF ValidProgress
<1>4. QED
    BY <1>1, <1>2, <1>3, PhaseFits DEF Unfinished

\* The mutations between two transitions, and what each expects.
Ready(label, f) ==
    CASE label = "stage"      -> StageAccepts(f, "new")
      [] label = "quarantine" -> f.bak = None /\ f.dst = "old"
      [] label = "place"      -> f.stg = "new" /\ f.dst = None
      [] OTHER                -> TRUE

Done(label, f) ==
    CASE label = "stage"      -> Staged(f, "new")
      [] label = "quarantine" -> Parked(f)
      [] label = "clear"      -> StagingGone(f)
      [] label = "place"      -> Placed(f)
      [] OTHER                -> f

\* After the mutation the record before it and the one after it are both true.
LEMMA TurnFits ==
    ASSUME NEW j \in Journal, Valid(j), j.phase \in Forward, Open(j) # {},
           disp \in [Items -> Dispositions],
           NEW f \in Files(Text), Fits(j, Lowest(Open(j)), f), Ready(EffectOf(j), f)
    PROVE  /\ Fits(j, Lowest(Open(j)), Done(EffectOf(j), f))
           /\ Fits(NextOf(j), Lowest(Open(j)), Done(EffectOf(j), f))
<1> DEFINE i == Lowest(Open(j))
           r == j.progress[i]
           g == Done(EffectOf(j), f)
<1>1. /\ i \in Items
      /\ j.phase \in {"Preparing", "QuarantiningOldTargets", "CommittingNewTargets",
                      "StateCommitted"}
      /\ j.phase = "Preparing" => r \in {"Unstaged", "StagingPending"}
      /\ j.phase = "QuarantiningOldTargets" =>
            Quarantines(i) /\ r \in {"Prepared", "QuarantinePending"}
      /\ j.phase = "CommittingNewTargets" => r \in {"Prepared", "Quarantined", "CommitPending"}
      /\ j.phase = "StateCommitted" => r = "Committed"
    BY TurnIsOpen
<1>2. disp[i] \in {"install", "noop", "update", "remove"}
    BY <1>1 DEF Dispositions
<1>3. ASSUME NEW s \in Progress, NextOf(j) = ProgressIs(j, i, s)
      PROVE  NextOf(j).progress[i] = s /\ NextOf(j).phase = j.phase
    BY <1>1, <1>3, ProgressAt
<1>4. Fits(j, i, f) /\ Ready(EffectOf(j), f) /\ None \notin Text /\ {"new", "old"} \subseteq Text
    BY BatchAssumption DEF Text
<1> HIDE DEF i
<1>5. CASE r = "Unstaged"
    <2>1. EffectOf(j) = "persist" /\ NextOf(j) = ProgressIs(j, i, "StagingPending")
        BY <1>1, <1>5 DEF EffectOf, NextOf, i
    <2>2. NextOf(j).progress[i] = "StagingPending"
        BY <1>3, <2>1 DEF Progress
    <2>3. f = Settled(Old(i))
        BY <1>4, <1>5 DEF Fits
    <2>4. f.dst = Old(i) /\ f.stg = None /\ f.bak = None
        BY <2>3 DEF Settled
    <2>5. Done(EffectOf(j), f) = f
        BY <2>1 DEF Done
    <2>6. QED
        BY <1>4, <2>2, <2>4, <2>5 DEF Fits, i
<1>6. CASE r = "StagingPending"
    <2>1. /\ EffectOf(j) = IF disp[i] = "remove" THEN "persist" ELSE "stage"
          /\ NextOf(j) = ProgressIs(j, i, "Prepared")
        BY <1>1, <1>6 DEF EffectOf, NextOf, i
    <2>2. NextOf(j).progress[i] = "Prepared" /\ NextOf(j).phase = "Preparing"
        BY <1>1, <1>3, <1>6, <2>1 DEF Progress
    <2>3. QED
        BY <1>2, <1>4, <1>6, <2>1, <2>2 DEF Fits, Done, Files, Staged, New, i
<1>7. CASE j.phase = "QuarantiningOldTargets" /\ r = "Prepared"
    <2>1. EffectOf(j) = "persist" /\ NextOf(j) = ProgressIs(j, i, "QuarantinePending")
        BY <1>1, <1>7 DEF EffectOf, NextOf, i
    <2>2. NextOf(j).progress[i] = "QuarantinePending"
        BY <1>3, <2>1 DEF Progress
    <2>3. Quarantines(i)
        BY <1>1, <1>7
    <2>4. QED
        BY <1>2, <1>4, <1>7, <2>1, <2>2, <2>3 DEF Fits, Done, Old, Quarantines, i
<1>8. CASE r = "QuarantinePending"
    <2>1. EffectOf(j) = "quarantine"
        BY <1>1, <1>8 DEF EffectOf, i
    <2>2. NextOf(j) = ProgressIs(j, i, "Quarantined")
        BY <1>8 DEF NextOf, i
    <2>3. NextOf(j).progress[i] = "Quarantined"
        BY <1>3, <2>2 DEF Progress
    <2>4. QED
        BY <1>4, <1>8, <2>1, <2>3 DEF Fits, Done, Ready, Parked, Files, i
<1>9. CASE j.phase = "CommittingNewTargets" /\ r # "CommitPending" /\ disp[i] = "noop"
    <2>1. r = "Prepared" /\ ~ Quarantines(i)
        BY <1>1, <1>4, <1>9 DEF Fits, Quarantines
    <2>2. EffectOf(j) = "clear" /\ NextOf(j) = ProgressIs(j, i, "Committed")
        BY <1>1, <1>9, <2>1 DEF EffectOf, NextOf, i
    <2>3. NextOf(j).progress[i] = "Committed"
        BY <1>3, <2>2 DEF Progress
    <2>4. QED
        BY <1>4, <1>9, <2>1, <2>2, <2>3 DEF Fits, Done, StagingGone, Files, Old, New, Backup, i
<1>10. CASE j.phase = "CommittingNewTargets" /\ r # "CommitPending" /\ disp[i] # "noop"
    <2>1. EffectOf(j) = "persist" /\ NextOf(j) = ProgressIs(j, i, "CommitPending")
        BY <1>1, <1>10 DEF EffectOf, NextOf, i
    <2>2. NextOf(j).progress[i] = "CommitPending"
        BY <1>3, <2>1 DEF Progress
    <2>3. r \in {"Prepared", "Quarantined"}
        BY <1>1, <1>10
    <2>4. QED
        BY <1>2, <1>4, <1>10, <2>1, <2>2, <2>3 DEF Fits, Done, Old, Backup, Quarantines, i
<1>11. CASE r = "CommitPending"
    <2>1. /\ EffectOf(j) = IF disp[i] = "remove" THEN "persist" ELSE "place"
          /\ NextOf(j) = ProgressIs(j, i, "Committed")
        BY <1>1, <1>11, <1>4 DEF EffectOf, NextOf, Fits, i
    <2>2. NextOf(j).progress[i] = "Committed"
        BY <1>3, <2>1 DEF Progress
    <2>3. QED
        BY <1>2, <1>4, <1>11, <2>1, <2>2 DEF Fits, Done, Ready, Placed, Files, New, i
<1>12. CASE j.phase = "StateCommitted"
    <2>1. EffectOf(j) \in {"persist", "verify"} /\ NextOf(j) = ProgressIs(j, i, "Verified")
        BY <1>1, <1>12 DEF EffectOf, NextOf, i
    <2>2. NextOf(j).progress[i] = "Verified"
        BY <1>3, <2>1 DEF Progress
    <2>3. QED
        BY <1>1, <1>4, <1>12, <2>1, <2>2 DEF Fits, Done, i
<1>13. QED
    BY <1>1, <1>5, <1>6, <1>7, <1>8, <1>9, <1>10, <1>11, <1>12

\* The other participants, and all of them when the mutation is none of a target.
LEMMA OthersFit ==
    ASSUME NEW j \in Journal, Valid(j), j.phase \in Forward,
           j.phase \in Unfinished \/ Open(j) # {},
           NEW i \in Items, NEW f \in Files(Text), Fits(j, i, f),
           Open(j) = {} \/ i # Lowest(Open(j))
    PROVE  Fits(NextOf(j), i, f)
<1>1. CASE Open(j) = {}
    BY <1>1, NextPhaseFits
<1>2. CASE Open(j) # {}
    <2> DEFINE k == Lowest(Open(j))
    <2>1. k \in Items /\ i # k
        BY <1>2, LowestIn, OpenItems
    <2>2. \E r \in Progress : NextOf(j) = ProgressIs(j, k, r)
        <3> DEFINE q == j.progress[k]
                   s == CASE q = "Unstaged"          -> "StagingPending"
                          [] q = "StagingPending"    -> "Prepared"
                          [] q = "QuarantinePending" -> "Quarantined"
                          [] q = "CommitPending"     -> "Committed"
                          [] q = "Committed"         -> "Verified"
                          [] q = "Prepared" /\ j.phase = "QuarantiningOldTargets" ->
                                 "QuarantinePending"
                          [] OTHER -> IF disp[k] = "noop" THEN "Committed" ELSE "CommitPending"
        <3>1. s \in Progress
            BY DEF Progress
        <3>2. NextOf(j) = ProgressIs(j, k, s)
            BY <1>2 DEF NextOf
        <3>3. QED
            BY <3>1, <3>2
    <2> HIDE DEF k
    <2>3. QED
        BY <2>1, <2>2, ProgressFits
<1>3. QED
    BY <1>1, <1>2

LEMMA NextFits ==
    ASSUME NEW j \in Journal, Valid(j), j.phase \in Forward,
           j.phase \in Unfinished \/ Open(j) # {},
           disp \in [Items -> Dispositions],
           EffectOf(j) \notin {"stage", "quarantine", "clear", "place"},
           NEW i \in Items, NEW f \in Files(Text), Fits(j, i, f)
    PROVE  Fits(NextOf(j), i, f)
<1>1. CASE Open(j) = {} \/ i # Lowest(Open(j))
    BY <1>1, OthersFit
<1>2. CASE Open(j) # {} /\ i = Lowest(Open(j))
    <2>1. Ready(EffectOf(j), f) /\ Done(EffectOf(j), f) = f
        BY DEF Ready, Done
    <2>2. QED
        BY <1>2, <2>1, TurnFits
<1>3. QED
    BY <1>1, <1>2

LEMMA NextStateFits ==
    ASSUME NEW j \in Journal, j.phase \in Forward, j.phase \in Unfinished \/ Open(j) # {},
           j.phase = "NewTargetsCommitted" => state.dst = "new",
           StateFits(j)
    PROVE  StateFits(NextOf(j))
<1>1. NextOf(j).phase = IF Open(j) = {} THEN NextPhase(j.phase) ELSE j.phase
    BY NextOfTyped DEF Forward
<1>2. j.phase = "NewTargetsCommitted" => Open(j) = {}
    BY DEF Open
<1>3. QED
    BY <1>1, <1>2, NextPhases DEF StateFits, Forward, Unfinished, Decided

\* The first record is announced once.
LEMMA NextIsNotFirst ==
    ASSUME NEW j \in Journal, Valid(j), j.phase \in Forward,
           j.phase \in Unfinished \/ Open(j) # {}
    PROVE  NextOf(j) # First
<1>1. CASE Open(j) = {}
    <2>1. NextOf(j).phase = NextPhase(j.phase)
        BY <1>1, NextOfTyped
    <2>2. NextOf(j).phase # "Preparing"
        BY <1>1, <2>1, NextPhases DEF Unfinished
    <2>3. QED
        BY <2>2 DEF First
<1>2. CASE Open(j) # {}
    <2> DEFINE i == Lowest(Open(j))
               r == j.progress[i]
    <2>1. i \in Items
        BY <1>2, TurnIsOpen
    <2>2. \E s \in Progress \ {"Unstaged"} : NextOf(j) = ProgressIs(j, i, s)
        <3> DEFINE s == CASE r = "Unstaged"          -> "StagingPending"
                          [] r = "StagingPending"    -> "Prepared"
                          [] r = "QuarantinePending" -> "Quarantined"
                          [] r = "CommitPending"     -> "Committed"
                          [] r = "Committed"         -> "Verified"
                          [] r = "Prepared" /\ j.phase = "QuarantiningOldTargets" ->
                                 "QuarantinePending"
                          [] OTHER -> IF disp[i] = "noop" THEN "Committed" ELSE "CommitPending"
        <3>1. s \in Progress \ {"Unstaged"}
            BY DEF Progress
        <3>2. NextOf(j) = ProgressIs(j, i, s)
            BY <1>2 DEF NextOf
        <3>3. QED
            BY <3>1, <3>2
    <2>3. NextOf(j).progress[i] # "Unstaged"
        BY <2>1, <2>2, ProgressAt
    <2>4. First.progress[i] = "Unstaged"
        BY <2>1 DEF First
    <2>5. QED
        BY <2>3, <2>4
<1>3. QED
    BY <1>1, <1>2

(***************************************************************************)
(* One turn of the rollback takes the files f of participant i to g and    *)
(* announces the progress s.                                               *)
(***************************************************************************)
Undoes(i, r, f, s, g) ==
    \/ /\ s = "RolledBack" /\ g = f
       /\ \/ disp[i] = "noop" /\ f.dst = "new"
          \/ disp[i] = "remove" /\ f.dst = "old"
          \/ /\ disp[i] \in {"install", "update"} /\ f.dst # "new"
             /\ r \notin {"CommitPending", "Committed", "RemovePending"}
             /\ disp[i] = "update" => f.dst = "old"
    \/ /\ s = "RestorePending" /\ g = f /\ f.dst = None /\ Quarantines(i)
       /\ disp[i] = "update" => r \notin {"CommitPending", "Committed", "RemovePending"}
    \/ /\ s = "RolledBack" /\ g = Restored(f) /\ r = "RestorePending"
       /\ f.bak = "old" /\ f.dst = None /\ Quarantines(i)
    \/ /\ s = "RemovePending" /\ g = f /\ r \in {"CommitPending", "Committed"}
       /\ disp[i] \in {"install", "update"}
    \/ /\ s = "Removed" /\ r = "RemovePending" /\ disp[i] \in {"install", "update"}
       /\ \/ f.dst = "new" /\ g = [f EXCEPT !.dst = None]
          \/ f.dst \in {None, Old(i)} /\ g = f

LEMMA UndoFits ==
    ASSUME NEW j \in Journal, j.phase = "RollingBack", disp \in [Items -> Dispositions],
           NEW i \in Items, NEW f \in Files(Text), Fits(j, i, f),
           NEW s, NEW g, Undoes(i, j.progress[i], f, s, g)
    PROVE  Fits(j, i, g) /\ Fits(ProgressIs(j, i, s), i, g)
<1>1. s \in Progress
    BY DEF Undoes, Progress
<1>2. ProgressIs(j, i, s).progress[i] = s /\ ProgressIs(j, i, s).phase = "RollingBack"
    BY <1>1, ProgressAt
<1>3. j.progress[i] \in Progress
    BY DEF Journal
<1>4. disp[i] \in {"install", "noop", "update", "remove"}
    BY DEF Dispositions
<1>5. None \notin Text /\ {"new", "old"} \subseteq Text
    BY BatchAssumption DEF Text
<1>6. j.progress[i] = "Unstaged" => f.dst = Old(i) /\ f.stg = None /\ f.bak = None
    <2> SUFFICES ASSUME j.progress[i] = "Unstaged"
                 PROVE  f.dst = Old(i) /\ f.stg = None /\ f.bak = None
        OBVIOUS
    <2>1. f = Settled(Old(i))
        BY DEF Fits
    <2>2. QED
        BY <2>1 DEF Settled
<1>7. CASE /\ s = "RolledBack" /\ g = f
           /\ \/ disp[i] = "noop" /\ f.dst = "new"
              \/ disp[i] = "remove" /\ f.dst = "old"
              \/ /\ disp[i] \in {"install", "update"} /\ f.dst # "new"
                 /\ j.progress[i] \notin {"CommitPending", "Committed", "RemovePending"}
                 /\ disp[i] = "update" => f.dst = "old"
    <2> DEFINE r == j.progress[i]
    <2>1. f.dst = Old(i)
        <3>1. CASE disp[i] # "install"
            BY <1>4, <1>7, <3>1 DEF Old
        <3>2. CASE disp[i] = "install"
            <4>1. /\ f.dst # "new" /\ r \notin {"CommitPending", "Committed", "RemovePending"}
                  /\ Old(i) = None /\ New(i) = "new" /\ ~ Quarantines(i)
                BY <1>7, <3>2 DEF Old, New, Quarantines
            <4>2. QED
                BY <1>3, <1>6, <4>1 DEF Fits, Progress
        <3>3. QED
            BY <3>1, <3>2
    <2>2. r \in {"Unstaged", "StagingPending", "Prepared", "Removed"} => f.bak = None
        BY <1>4, <1>5, <1>6, <2>1 DEF Fits, Old, Backup, Quarantines
    <2>3. r \in {"QuarantinePending", "Quarantined", "RestorePending", "RolledBack"} => f.bak = None
        BY <1>4, <1>5, <1>6, <2>1 DEF Fits, Old, Quarantines
    <2>4. r \in {"CommitPending", "Committed", "Verified", "RemovePending"} => f.bak = None
        BY <1>4, <1>5, <1>6, <1>7, <2>1 DEF Fits, Old, New, Backup, Quarantines
    <2>5. f.stg \in {None, "new", Torn}
        BY <1>3, <1>4, <1>5, <1>6 DEF Fits, New, Progress
    <2>6. QED
        BY <1>2, <1>3, <1>7, <2>1, <2>2, <2>3, <2>4, <2>5 DEF Fits, Progress
<1>8. CASE s = "RestorePending"
    <2> DEFINE r == j.progress[i]
    <2>1. f.dst = None /\ g = f /\ disp[i] \in {"update", "remove"} /\ Old(i) = "old"
        BY <1>4, <1>8 DEF Undoes, Quarantines, Old
    <2>2. r \notin {"Unstaged", "StagingPending", "Prepared", "RolledBack"}
        BY <1>5, <1>6, <2>1 DEF Fits
    <2>3. f.bak = "old"
        BY <1>3, <1>5, <2>1, <2>2 DEF Fits, Backup, Quarantines, Progress
    <2>4. f.stg \in {None, "new"}
        BY <1>3, <1>5, <2>1, <2>2 DEF Fits, New, Progress
    <2>5. QED
        BY <1>2, <1>8, <2>1, <2>3, <2>4 DEF Fits, Quarantines
<1>9. CASE s = "RolledBack" /\ g = Restored(f) /\ j.progress[i] = "RestorePending" /\ f.bak = "old"
    BY <1>2, <1>4, <1>5, <1>9 DEF Undoes, Fits, Old, Quarantines, Restored, Files
<1>10. CASE s = "RemovePending"
    BY <1>2, <1>4, <1>5, <1>10 DEF Undoes, Fits, New
<1>11. CASE s = "Removed"
    BY <1>2, <1>4, <1>5, <1>11 DEF Undoes, Fits, New, Old, Files
<1>12. QED
    BY <1>7, <1>8, <1>9, <1>10, <1>11 DEF Undoes

-----------------------------------------------------------------------------
(***************************************************************************)
(* Agreement is invariant: what every kind of step leaves alone, and one   *)
(* lemma for each action.                                                  *)
(***************************************************************************)
LEMMA TypeFacts ==
    ASSUME BatchInv
    PROVE  /\ target \in [Items -> Files(Text)] /\ \A i \in Items : target[i] \in Files(Text)
           /\ state \in Files(Text) /\ journal \in Files(Records)
           /\ cursor \in Journal /\ aim \in Journal
           /\ disp \in [Items -> Dispositions] /\ same \in BOOLEAN
           /\ mode \in {"commit", "forward", "rollback"} /\ busy \in BOOLEAN
           /\ None \notin Text /\ {"new", "old", "foreign", Torn} \subseteq Text
           /\ Torn \notin {"new", "old", "foreign"}
           /\ None \notin Journal /\ Torn \notin Journal /\ None \notin Records
           /\ 0 \notin Items
<1> USE BatchAssumption
<1>1. target \in [Items -> Files(Text)] /\ state \in Files(Text) /\ journal \in Files(Records)
    BY DEF BatchInv, TypeOK, Records
<1>2. \A i \in Items : target[i] \in Files(Text)
    BY <1>1
<1>3. /\ cursor \in Journal /\ aim \in Journal /\ busy \in BOOLEAN
      /\ disp \in [Items -> Dispositions] /\ same \in BOOLEAN
      /\ mode \in {"commit", "forward", "rollback"}
    BY DEF BatchInv, TypeOK
<1>4. /\ None \notin Text /\ {"new", "old", "foreign", Torn} \subseteq Text
      /\ None \notin Journal /\ Torn \notin Journal /\ None \notin Records
      /\ Torn \notin {"new", "old", "foreign"}
    BY DEF Text, Records
<1>5. 0 \notin Items
    BY DEF Items
<1>6. QED
    BY <1>1, <1>2, <1>3, <1>4, <1>5

\* What is said of a record depends on the plan only.
LEMMA GivenStays ==
    ASSUME UNCHANGED given
    PROVE  /\ \A j : Valid(j)' <=> Valid(j)
           /\ \A j, i, f : Fits(j, i, f)' <=> Fits(j, i, f)
           /\ \A j : NextOf(j)' = NextOf(j) /\ EffectOf(j)' = EffectOf(j)
           /\ \A i : Old(i)' = Old(i) /\ New(i)' = New(i)
           /\ OldState' = OldState /\ same' = same
<1>1. disp' = disp /\ same' = same
    BY DEF given
<1>2. \A j : Valid(j)' <=> Valid(j)
    BY <1>1 DEF Valid, ValidProgress, Quarantines
<1>3. \A i : Old(i)' = Old(i) /\ New(i)' = New(i)
    BY <1>1 DEF Old, New
<1>4. \A i : (Quarantines(i)' <=> Quarantines(i)) /\ Backup(i)' = Backup(i)
    BY <1>1 DEF Quarantines, Backup
<1>5. \A j, i, f : Fits(j, i, f)' <=> Fits(j, i, f)
    BY <1>1 DEF Fits, Old, New, Quarantines, Backup
<1>6. \A j : Open(j)' = Open(j)
    BY <1>4 DEF Open
<1>7. \A j : NextOf(j)' = NextOf(j)
    BY <1>1, <1>6 DEF NextOf
<1>8. \A j : EffectOf(j)' = EffectOf(j)
    BY <1>1, <1>6 DEF EffectOf
<1>9. QED
    BY <1>1, <1>2, <1>3, <1>5, <1>7, <1>8 DEF OldState

\* A record stays true while nothing it speaks of changes.
LEMMA DescribesStays ==
    ASSUME UNCHANGED given, theirs \subseteq theirs', state'.dst = state.dst \/ 0 \in theirs',
           \A i \in Items \ theirs' : target'[i] = target[i]
    PROVE  \A j : Describes(j) => Describes(j)'
<1>1. ASSUME NEW j, StateFits(j) PROVE StateFits(j)'
    BY <1>1, GivenStays DEF StateFits
<1>2. ASSUME NEW j, \A i \in Items \ theirs : Fits(j, i, target[i])
      PROVE  \A i \in Items \ theirs' : Fits(j, i, target[i])'
    BY <1>2, GivenStays
<1>3. QED
    BY <1>1, <1>2 DEF Describes

LEMMA CalmAgrees ==
    ASSUME AgreeInv, UNCHANGED <<given, disk, theirs>>, split => split'
    PROVE  Recorded' /\ ResidueJournaled' /\ (\A j : Describes(j) => Describes(j)')
<1>1. UNCHANGED <<target, state, journal>>
    BY DEF disk
<1>2. \A j : Describes(j) => Describes(j)'
    BY <1>1, DescribesStays
<1>3. Surviving' = Surviving
    BY <1>1 DEF Surviving, Held
<1>4. (Untouched => Untouched') /\ (Complete => Complete')
    BY <1>1, GivenStays DEF Untouched, Complete
<1>5. Recorded'
    BY <1>1, <1>2, <1>3, <1>4, GivenStays DEF AgreeInv, Recorded
<1>6. ResidueJournaled'
    BY <1>1 DEF AgreeInv, ResidueJournaled, Held
<1>7. QED
    BY <1>2, <1>5, <1>6

\* An attempt that ends leaves everything as it is.
LEMMA EndAgrees ==
    ASSUME AgreeInv, UNCHANGED <<given, disk, theirs, split>>,
           pc' \in {"idle", "failed", "blocked", "done"},
           state.bak # None => split
    PROVE  AgreeInv'
<1>1. Recorded' /\ ResidueJournaled'
    BY CalmAgrees
<1>2. pc' \notin Steps /\ pc' \notin Effects
    BY DEF Steps, Effects
<1>3. state' = state /\ same' = same /\ split' = split
    BY DEF disk, given
<1>4. StateReplaced'
    BY <1>2, <1>3 DEF AgreeInv, StateReplaced, Effects
<1>5. InStep'
    BY <1>2 DEF InStep, Steps, Effects
<1>6. QED
    BY <1>1, <1>4, <1>5 DEF AgreeInv

LEMMA FailAgrees ==
    ASSUME AgreeInv, Fail, ~ (pc = "installState" /\ busy)
    PROVE  AgreeInv'
<1>1. UNCHANGED <<given, disk, theirs, split>> /\ pc' \in {"failed", "blocked"}
    BY DEF Fail, Decide, Go, history
<1>2. state.bak # None => split
    BY DEF AgreeInv, StateReplaced
<1>3. QED
    BY <1>1, <1>2, EndAgrees

\* A mutation of a target after which the surviving records are still true.
LEMMA TargetAgrees ==
    ASSUME BatchInv, AgreeInv, Surviving # {}, NEW i \in Items, NEW f,
           target' = [target EXCEPT ![i] = f], UNCHANGED <<given, state, journal, theirs, split>>,
           i \notin theirs => \A j \in Surviving : Fits(j, i, f)
    PROVE  Recorded' /\ ResidueJournaled'
<1>1. \A k \in Items : target'[k] = IF k = i THEN f ELSE target[k]
    BY TypeFacts
<1>2. Surviving' = Surviving
    BY <1>1 DEF Surviving, Held
<1>3. ASSUME NEW j \in Surviving PROVE Describes(j)'
    <2>1. StateFits(j)'
        BY <1>1, GivenStays DEF AgreeInv, Recorded, Describes, StateFits
    <2>2. \A k \in Items \ theirs' : Fits(j, k, target[k])'
        BY <1>1, GivenStays DEF AgreeInv, Recorded, Describes
    <2>3. QED
        BY <2>1, <2>2 DEF Describes
<1>4. Recorded'
    BY <1>1, <1>2, <1>3, GivenStays DEF AgreeInv, Recorded
<1>5. Held(journal)' # {None}
    BY <1>1 DEF Surviving, Held
<1>6. QED
    BY <1>4, <1>5 DEF ResidueJournaled

\* A mutation of state.json after which the surviving records are still true.
LEMMA StateAgreesStill ==
    ASSUME BatchInv, AgreeInv, Surviving # {},
           UNCHANGED <<given, target, journal, theirs, split>>,
           state'.dst = state.dst \/ \A j \in Surviving : StateFits(j)'
    PROVE  Recorded' /\ ResidueJournaled'
<1>1. UNCHANGED <<given, target, journal, theirs, split>>
    OBVIOUS
<1>2. Surviving' = Surviving
    BY <1>1 DEF Surviving, Held
<1>3. ASSUME NEW j \in Surviving PROVE Describes(j)'
    <2>1. StateFits(j)'
        BY <1>1, GivenStays DEF AgreeInv, Recorded, Describes, StateFits
    <2>2. \A k \in Items \ theirs' : Fits(j, k, target[k])'
        BY <1>1, GivenStays DEF AgreeInv, Recorded, Describes
    <2>3. QED
        BY <2>1, <2>2 DEF Describes
<1>4. Recorded'
    BY <1>1, <1>2, <1>3, GivenStays DEF AgreeInv, Recorded
<1>5. Held(journal)' # {None}
    BY <1>1 DEF Surviving, Held
<1>6. QED
    BY <1>4, <1>5 DEF ResidueJournaled

\* A mutation of the journal after which it still holds true records only.
LEMMA JournalAgrees ==
    ASSUME BatchInv, AgreeInv, NEW f, WriteJournal(f), Held(f) \ {None, Torn} # {},
           \A j \in Held(f) \ {None, Torn} : Valid(j) /\ Describes(j)
    PROVE  Recorded' /\ ResidueJournaled' /\ (\A j : Describes(j) => Describes(j)')
<1>1. journal' = f /\ UNCHANGED <<given, target, state, theirs, split>>
    BY DEF WriteJournal, history
<1>2. Surviving' = Held(f) \ {None, Torn}
    BY <1>1 DEF Surviving, Held
<1>3. \A j : Describes(j) => Describes(j)'
    BY <1>1, DescribesStays
<1>4. Recorded'
    BY <1>2, <1>3, GivenStays, <1>1 DEF Recorded
<1>5. Held(journal)' # {None}
    BY <1>1 DEF Held
<1>6. QED
    BY <1>3, <1>4, <1>5 DEF ResidueJournaled

LEMMA AgreeInit == Init => AgreeInv
<1> SUFFICES ASSUME Init PROVE AgreeInv
    OBVIOUS
<1>1. journal = Settled(None) /\ state = Settled(OldState) /\ pc = "idle"
    BY DEF Init
<1>2. target = [i \in Items |-> Settled(Old(i))]
    BY DEF Init
<1>3. \A i \in Items : target[i].dst = Old(i) /\ target[i].stg = None /\ target[i].bak = None
    BY <1>2 DEF Settled
<1>4. Surviving = {} /\ journal.dst = None /\ journal.bak = None
    BY <1>1 DEF Surviving, Held, Settled
<1>5. state.dst = OldState /\ state.stg = None /\ state.bak = None
    BY <1>1 DEF Settled
<1>6. Recorded
    BY <1>3, <1>4, <1>5 DEF Recorded, Untouched
<1>7. ResidueJournaled
    BY <1>3, <1>5 DEF ResidueJournaled
<1>8. StateReplaced
    BY <1>1, <1>5 DEF Init, StateReplaced, Steps, Effects
<1>9. InStep
    BY <1>1 DEF InStep, Effects
<1>10. QED
    BY <1>6, <1>7, <1>8, <1>9 DEF AgreeInv

\* The replacement of state.json is none of the other steps' business.
LEMMA CalmState ==
    ASSUME AgreeInv, UNCHANGED <<given, state, split>>,
           ~ (pc = "installState" /\ busy), ~ (pc' = "installState" /\ busy'),
           mode' = "commit" /\ pc' \in Steps => mode = "commit" /\ pc \in Steps
    PROVE  StateReplaced'
    BY DEF AgreeInv, StateReplaced, given

LEMMA PersistInStep ==
    ASSUME pc' = "persist", ~ busy', Describes(aim)', journal' = Settled(Expected')
    PROVE  InStep'
    BY DEF InStep, Effects

LEMMA EffectInStep ==
    ASSUME pc' \in Effects, journal' = Settled(cursor'), pc' = EffectOf(cursor)',
           aim' = NextOf(cursor)'
    PROVE  InStep'
    BY DEF InStep, Effects

\* What the verdict about the journal says of its three files.
LEMMA VerdictShapes ==
    ASSUME BatchInv
    PROVE  LET seen == JournalSeen(journal, Verdict)
           IN  /\ Verdict = "absent" => journal = Settled(None)
               /\ Verdict \notin {"invalid", "absent"} =>
                    /\ seen \in Surviving
                    /\ Verdict = "restore" => journal.dst = None /\ journal.bak = seen
                    /\ Verdict = "dropBackup" => journal.dst = seen /\ journal.stg = None
                    /\ Verdict = "dropStaging" => journal.dst = seen /\ journal.bak = None
                    /\ Verdict = "installFirst" =>
                         journal.dst = None /\ journal.stg = seen /\ journal.bak = None
                    /\ Verdict = "installNext" =>
                         journal.dst \in Journal /\ journal.stg = seen /\ journal.bak = None
                    /\ Verdict \notin {"restore", "dropBackup", "dropStaging", "installFirst",
                                       "installNext"} => journal = Settled(seen)
<1>1. journal \in Files(Records) /\ None \notin Journal /\ Torn \notin Journal
    BY TypeFacts
<1>2. ASSUME NEW valid \in SUBSET Journal, NEW leads \in SUBSET (valid \X valid)
      PROVE  LET v == JournalVerdict(journal, valid, leads)
                 seen == JournalSeen(journal, v)
             IN  /\ v = "absent" => journal = Settled(None)
                 /\ v \notin {"invalid", "absent"} =>
                      /\ seen \in Surviving
                      /\ v = "restore" => journal.dst = None /\ journal.bak = seen
                      /\ v = "dropBackup" => journal.dst = seen /\ journal.stg = None
                      /\ v = "dropStaging" => journal.dst = seen /\ journal.bak = None
                      /\ v = "installFirst" =>
                           journal.dst = None /\ journal.stg = seen /\ journal.bak = None
                      /\ v = "installNext" =>
                           journal.dst \in Journal /\ journal.stg = seen /\ journal.bak = None
                      /\ v \notin {"restore", "dropBackup", "dropStaging", "installFirst",
                                   "installNext"} => journal = Settled(seen)
    BY <1>1 DEF JournalVerdict, JournalSeen, Held, Files, Surviving, Settled
<1> DEFINE valid == {j \in Held(journal) \ {None} : Valid(j)}
           leads == {t \in valid \X valid : Leads(t[1], t[2])}
<1>3. valid \in SUBSET Journal
    BY <1>1 DEF Held, Files, Records, Valid
<1>4. leads \in SUBSET (valid \X valid)
    OBVIOUS
<1>5. Verdict = JournalVerdict(journal, valid, leads)
    BY DEF Verdict
<1> HIDE DEF valid, leads
<1>6. QED
    BY <1>2, <1>3, <1>4, <1>5

LEMMA AttemptAgrees ==
    ASSUME BatchInv, ForeignInv, AgreeInv, Attempt
    PROVE  AgreeInv'
<1>1. pc \in {"idle", "failed", "blocked"} /\ pc # "installState"
    BY DEF Attempt
<1>2. state.bak # None => split
    BY <1>1 DEF AgreeInv, StateReplaced
<1>3. CASE \E l \in {"blocked", "done", "failed"} : Decide(l)
    BY <1>2, <1>3, EndAgrees DEF Decide, Go, history
<1>4. CASE /\ Verdict = "absent" /\ Fresh /\ mode' = "commit" /\ Announce(First)
           /\ UNCHANGED <<given, disk, cursor, history>>
    <2>1. journal = Settled(None) /\ Held(journal) = {None}
        BY <1>4, VerdictShapes DEF Settled, Held
    <2>2. \A i \in Items : target[i] = Settled(Old(i))
        <3> TAKE i \in Items
        <3>1. target[i] \in Files(Text) /\ target[i].stg = None /\ target[i].bak = None
            BY <2>1, TypeFacts DEF AgreeInv, ResidueJournaled
        <3>2. target[i].dst = Old(i)
            BY <1>4 DEF Fresh
        <3>3. QED
            BY <3>1, <3>2 DEF Files, Settled
    <2>3. Describes(First)
        <3>1. First.phase = "Preparing" /\ \A i \in Items : First.progress[i] = "Unstaged"
            BY DEF First
        <3>2. StateFits(First)
            BY <1>4, <3>1 DEF StateFits, Fresh, Decided
        <3>3. \A i \in Items : Fits(First, i, target[i])
            BY <2>2, <3>1 DEF Fits
        <3>4. QED
            BY <3>2, <3>3 DEF Describes
    <2>4. Recorded' /\ ResidueJournaled' /\ Describes(First)'
        BY <1>4, <2>3, CalmAgrees DEF history
    <2>5. ~ split
        BY <1>4 DEF AgreeInv, StateReplaced, Fresh, OldState
    <2>6. StateReplaced'
        BY <1>1, <1>2, <1>4, <2>5 DEF StateReplaced, Announce, Go, disk, history
    <2>7. Describes(aim)'
        BY <1>4, <2>4 DEF Announce
    <2>8. journal' = Settled(Expected')
        BY <1>4, <2>1 DEF Expected, Begins, Announce, First, disk
    <2>9. InStep'
        BY <1>4, <2>7, <2>8, PersistInStep DEF Announce, Go
    <2>10. QED
        BY <2>4, <2>6, <2>9 DEF AgreeInv
<1>5. CASE /\ Verdict \notin {"invalid", "absent"}
           /\ aim' = JournalSeen(journal, Verdict)
           /\ mode' = "forward"
           /\ Go("reconcile")
           /\ UNCHANGED <<given, disk, cursor, history>>
    <2>1. Recorded' /\ ResidueJournaled'
        BY <1>5, CalmAgrees DEF history
    <2>2. journal' = journal /\ Verdict' = Verdict /\ Surviving' = Surviving
        BY <1>5, VerdictStays DEF disk, given, Surviving, Held
    <2>3. aim' \in Surviving'
        BY <1>5, <2>2, VerdictShapes
    <2>4. InStep'
        BY <1>5, <2>2, <2>3 DEF InStep, Effects, Go
    <2>5. StateReplaced'
        BY <1>1, <1>5, CalmState DEF Go, disk, history
    <2>6. QED
        BY <2>1, <2>4, <2>5 DEF AgreeInv
<1>6. QED
    BY <1>3, <1>4, <1>5 DEF Attempt

\* The next file-system call of a replacement, or its last one.
LEMMA FileReplaced ==
    ASSUME NEW old, NEW new, new # None, NEW f, NEW exch,
           \/ f = Staged(Settled(old), new)
           \/ f \in Midway(old, new)
    PROVE  LET g == Replaced(f, new, exch)
           IN  /\ g = Settled(new) \/ (g \in Midway(old, new) /\ old # None)
               /\ new \in Held(g) /\ Held(g) \subseteq Held(f)
<1> USE DEF Replaced, StagingGone, BackupGone, Placed, Exchanged, Parked, Settled, Held, Midway
<1>1. CASE f = Staged(Settled(old), new)
    <2>1. f = [dst |-> old, stg |-> new, bak |-> None]
        BY <1>1 DEF Staged
    <2>2. QED
        BY <2>1
<1>2. CASE f = [dst |-> new, stg |-> old, bak |-> None]
    BY <1>2
<1>3. CASE f = [dst |-> None, stg |-> new, bak |-> old]
    BY <1>3
<1>4. CASE f = [dst |-> new, stg |-> None, bak |-> old]
    BY <1>4
<1>5. QED
    BY <1>1, <1>2, <1>3, <1>4

\* The record that follows one on the forward path, when no target changes.
LEMMA NextDescribes ==
    ASSUME BatchInv, NEW j \in Journal, Valid(j), Describes(j), j.phase \in Forward,
           j.phase \in Unfinished \/ Open(j) # {},
           EffectOf(j) \notin {"stage", "quarantine", "clear", "place"},
           j.phase = "NewTargetsCommitted" /\ 0 \notin theirs => state.dst = "new"
    PROVE  Describes(NextOf(j))
<1>1. StateFits(NextOf(j))
    <2>1. CASE 0 \in theirs
        BY <2>1 DEF StateFits
    <2>2. CASE 0 \notin theirs
        BY <2>2, NextStateFits DEF Describes
    <2>3. QED
        BY <2>1, <2>2
<1>2. \A i \in Items \ theirs : Fits(NextOf(j), i, target[i])
    BY TypeFacts, NextFits DEF Describes
<1>3. QED
    BY <1>1, <1>2 DEF Describes

LEMMA PersistAgrees ==
    ASSUME BatchInv, ForeignInv, AgreeInv, Persist
    PROVE  AgreeInv'
<1>1. pc = "persist" /\ aim \in Journal /\ cursor \in Journal /\ None \notin Journal
    BY TypeFacts DEF Persist
<1>2. /\ Describes(aim)
      /\ IF busy THEN ~ Begins /\ journal \in Midway(cursor, aim)
         ELSE journal \in {Settled(Expected), Staged(Settled(Expected), aim)}
    BY <1>1 DEF AgreeInv, InStep
<1>3. Expected \in Journal \cup {None} /\ (Expected # None => Expected = cursor)
    BY <1>1 DEF Expected
<1>4. CASE Fail
    BY <1>1, <1>4, FailAgrees
\* What the journal holds after either kind of mutation is true.
<1>5. ASSUME NEW f, WriteJournal(f), Held(f) \subseteq Held(journal) \cup {aim}, aim \in Held(f),
             Valid(aim)
      PROVE  Recorded' /\ ResidueJournaled' /\ (\A j : Describes(j) => Describes(j)')
    <2>1. \A j \in Held(f) \ {None, Torn} : Valid(j) /\ Describes(j)
        BY <1>2, <1>5 DEF AgreeInv, Recorded, Surviving
    <2>2. aim \in Held(f) \ {None, Torn}
        BY <1>1, <1>5, TypeFacts
    <2>3. QED
        BY <1>5, <2>1, <2>2, JournalAgrees
<1>6. CASE /\ Valid(aim) /\ journal.stg = None /\ ~ busy
           /\ WriteJournal(Staged(journal, aim))
           /\ Go("persist") /\ UNCHANGED <<cursor, aim>>
    <2>1. journal = Settled(Expected)
        <3>1. Staged(Settled(Expected), aim).stg = aim
            BY DEF Staged, Settled
        <3>2. QED
            BY <1>1, <1>2, <1>6, <3>1
    <2>2. Held(Staged(journal, aim)) \subseteq Held(journal) \cup {aim}
          /\ aim \in Held(Staged(journal, aim))
        BY <2>1 DEF Staged, Settled, Held
    <2>3. Recorded' /\ ResidueJournaled' /\ Describes(aim)'
        <3>1. Recorded' /\ ResidueJournaled' /\ (\A j : Describes(j) => Describes(j)')
            BY <1>5, <1>6, <2>2
        <3>2. aim' = aim
            BY <1>6
        <3>3. QED
            BY <1>2, <3>1, <3>2
    <2>4. Expected' = Expected
        BY <1>6 DEF WriteJournal, Expected, Begins, First
    <2>5. InStep'
        BY <1>6, <2>1, <2>3, <2>4 DEF InStep, Effects, Go, WriteJournal
    <2>6. StateReplaced'
        BY <1>1, <1>6, CalmState DEF WriteJournal, Go, history
    <2>7. QED
        BY <2>3, <2>5, <2>6 DEF AgreeInv
<1> DEFINE f == Replaced(journal, aim, exchange)
<1>7. CASE /\ Valid(aim) /\ WriteJournal(f) /\ (busy \/ journal.stg # None)
    <2>1. /\ f = Settled(aim) \/ (f \in Midway(Expected, aim) /\ Expected # None)
          /\ aim \in Held(f) /\ Held(f) \subseteq Held(journal)
        <3>1. Settled(Expected).stg = None
            BY DEF Settled
        <3>2. busy => Expected = cursor
            BY <1>2 DEF Expected
        <3>3. \/ journal = Staged(Settled(Expected), aim)
              \/ journal \in Midway(Expected, aim)
            BY <1>2, <1>7, <3>1, <3>2
        <3>4. QED
            BY <1>1, <1>3, <3>3, FileReplaced
    <2> HIDE DEF f
    <2>2. Recorded' /\ ResidueJournaled' /\ (\A j : Describes(j) => Describes(j)')
        BY <1>5, <1>7, <2>1
    <2>3. /\ journal' = f /\ mode' = mode /\ UNCHANGED <<given, state, target, split>>
          /\ First' = First
        BY <1>7 DEF WriteJournal, history, First
    <2>4. CASE f # Settled(aim) /\ pc' = pc /\ busy' = TRUE /\ UNCHANGED <<cursor, aim>>
        <3>1. Expected # None /\ Expected = cursor /\ ~ Begins
            BY <1>3, <2>1, <2>4 DEF Expected
        <3>2. ~ Begins'
            BY <2>3, <2>4, <3>1 DEF Begins
        <3>3. Describes(aim)'
            BY <1>2, <2>2, <2>4
        <3>4. journal' \in Midway(cursor, aim)'
            BY <2>1, <2>3, <2>4, <3>1 DEF Midway
        <3>5. InStep'
            BY <1>1, <2>4, <3>2, <3>3, <3>4 DEF InStep, Effects
        <3>6. StateReplaced'
            BY <1>1, <2>3, <2>4, CalmState
        <3>7. QED
            BY <2>2, <3>5, <3>6 DEF AgreeInv
    <2>5. CASE /\ f = Settled(aim) /\ cursor' = aim /\ Go(After(aim))
               /\ aim' = IF After(aim) \in Effects \cup {"persist"} THEN NextOf(aim) ELSE aim
        <3>1. journal' = Settled(cursor') /\ pc' = After(aim) /\ ~ busy'
            BY <2>3, <2>5 DEF Go
        <3>2. StateReplaced'
            BY <1>1, <2>3, <3>1, CalmState DEF Steps
        <3>3. Valid(cursor)'
            BY <1>7, <2>3, <2>5, GivenStays
        <3>4. Describes(aim)
            BY <1>2
        <3>5. ASSUME aim' # First \/ mode # "commit" PROVE Expected' = cursor'
            BY <2>3, <3>5 DEF Expected, Begins
        <3>6. CASE pc' \in Effects /\ pc' = EffectOf(aim)
            <4>1. aim' = NextOf(aim)
                BY <2>5, <3>1, <3>6
            <4>2. aim' = NextOf(cursor)' /\ pc' = EffectOf(cursor)'
                BY <2>3, <2>5, <3>6, <4>1, GivenStays
            <4>3. QED
                BY <2>2, <3>1, <3>2, <3>6, <4>2, EffectInStep DEF AgreeInv
        <3>7. CASE /\ pc' = "persist" /\ aim.phase \in Forward
                   /\ aim.phase \in Unfinished \/ Open(aim) # {}
                   /\ EffectOf(aim) \notin {"stage", "quarantine", "clear", "place"}
                   /\ aim.phase # "NewTargetsCommitted"
            <4>1. aim' = NextOf(aim) /\ aim' # First
                BY <1>1, <1>7, <2>5, <3>1, <3>7, NextIsNotFirst
            <4>2. Describes(NextOf(aim))
                BY <1>1, <1>7, <3>4, <3>7, NextDescribes
            <4>3. Describes(aim)'
                BY <2>2, <4>1, <4>2
            <4>4. journal' = Settled(Expected')
                BY <3>1, <3>5, <4>1
            <4>5. QED
                BY <2>2, <3>1, <3>2, <3>7, <4>3, <4>4, PersistInStep DEF AgreeInv
        <3>8. CASE /\ pc' \in {"clean", "tidy"}
                   /\ aim.phase = IF mode = "rollback" THEN "RolledBack" ELSE "Verified"
            <4>1. InStep'
                BY <2>3, <2>5, <3>1, <3>3, <3>8 DEF InStep, Effects
            <4>2. QED
                BY <2>2, <3>2, <4>1 DEF AgreeInv
        <3>9. CASE mode = "commit"
            <4>1. pc' = EffectOf(aim) /\ aim.phase \in Forward
                BY <1>1, <3>1, <3>9 DEF After, BatchInv, Routed
            <4>2. EffectOf(aim) \in Effects \cup {"persist", "clean"}
                BY DEF EffectOf, Effects
            <4>3. EffectOf(aim) = "clean" => aim.phase = "Verified"
                BY DEF EffectOf
            <4>4. EffectOf(aim) = "persist" =>
                    /\ aim.phase # "NewTargetsCommitted"
                    /\ aim.phase \in Unfinished \/ Open(aim) # {}
                BY <4>1 DEF EffectOf, Open, Forward
            <4>5. QED
                BY <3>6, <3>7, <3>8, <3>9, <4>1, <4>2, <4>3, <4>4
        <3>10. CASE mode = "forward"
            <4>1. aim.phase \in {"StateCommitted", "Verified"}
                BY <1>1, <3>10 DEF BatchInv, Routed
            <4>2. pc' = IF aim.phase = "Verified" THEN "tidy" ELSE "persist"
                BY <3>1, <3>10 DEF After
            <4>3. aim.phase = "StateCommitted" =>
                    EffectOf(aim) \notin {"stage", "quarantine", "clear", "place"}
                <5>1. Open(aim) # {} /\ aim.phase = "StateCommitted" =>
                        aim.progress[Lowest(Open(aim))] = "Committed"
                    BY <1>1, <1>7, TurnIsOpen DEF Forward, Unfinished
                <5>2. QED
                    BY <5>1 DEF EffectOf
            <4>4. QED
                BY <3>7, <3>8, <3>10, <4>1, <4>2, <4>3 DEF Forward, Unfinished
        <3>11. CASE mode = "rollback"
            <4>1. pc' = IF aim.phase = "RolledBack" THEN "tidy" ELSE "undo"
                BY <3>1, <3>11 DEF After
            <4>2. CASE pc' = "undo"
                <5>1. InStep'
                    BY <3>1, <4>2 DEF InStep, Effects
                <5>2. QED
                    BY <2>2, <3>2, <5>1 DEF AgreeInv
            <4>3. QED
                BY <3>8, <3>11, <4>1, <4>2
        <3>12. QED
            BY <3>9, <3>10, <3>11, TypeFacts
    <2>6. QED
        BY <1>1, <1>4, <1>6, <1>7, <2>4, <2>5 DEF Persist, f
<1>8. QED
    BY <1>4, <1>6, <1>7 DEF Persist

\* What a mutation of the commit finds.
LEMMA EffectFacts ==
    ASSUME BatchInv, AgreeInv, pc \in Effects
    PROVE  /\ mode = "commit" /\ cursor \in Journal /\ cursor.phase \in Forward
           /\ cursor.phase \in Unfinished \/ Open(cursor) # {}
           /\ Surviving = {cursor} /\ Valid(cursor) /\ Describes(cursor)
           /\ journal = Settled(cursor) /\ pc = EffectOf(cursor)
           /\ aim = NextOf(cursor) /\ aim # First
           /\ pc \in {"stage", "quarantine", "clear", "place"} => Open(cursor) # {}
           /\ ~ split
<1>1. /\ mode = "commit" /\ aim.phase \in Forward
      /\ journal = Settled(cursor) /\ pc = EffectOf(cursor) /\ aim = NextOf(cursor)
      /\ ~ split
    BY DEF BatchInv, Routed, AgreeInv, InStep, StateReplaced, Steps
<1>2. cursor \in Journal /\ cursor # None /\ cursor # Torn
    BY TypeFacts
<1>3. /\ pc \in {"stage", "quarantine", "clear", "place"} => Open(cursor) # {}
      /\ Open(cursor) = {} => cursor.phase \in Unfinished
    BY <1>1 DEF EffectOf, Effects, Unfinished
<1>4. cursor.phase \in Forward
    <2>1. Open(cursor) # {} => aim.phase = cursor.phase
        BY <1>1, <1>2, NextOfTyped
    <2>2. QED
        BY <1>1, <1>3, <2>1 DEF Forward
<1>5. Surviving = {cursor}
    BY <1>1, <1>2 DEF Surviving, Held, Settled
<1>6. Valid(cursor) /\ Describes(cursor)
    BY <1>5 DEF AgreeInv, Recorded
<1>7. aim # First
    BY <1>1, <1>2, <1>3, <1>4, <1>6, NextIsNotFirst
<1>8. QED
    BY <1>1, <1>2, <1>3, <1>4, <1>5, <1>6, <1>7

\* The mutation of the participant whose turn it is, and the announcement after it.
LEMMA TurnAgrees ==
    ASSUME BatchInv, AgreeInv, pc \in {"stage", "quarantine", "clear", "place"},
           Ready(pc, target[Current]), WriteTarget(Current, Done(pc, target[Current])),
           Announce(aim)
    PROVE  AgreeInv'
<1> DEFINE i == Current
           f == target[i]
           g == Done(pc, f)
<1>1. pc \in Effects
    BY DEF Effects
<1>2. /\ mode = "commit" /\ cursor \in Journal /\ cursor.phase \in Forward
      /\ Surviving = {cursor} /\ Valid(cursor) /\ Describes(cursor)
      /\ journal = Settled(cursor) /\ pc = EffectOf(cursor)
      /\ aim = NextOf(cursor) /\ aim # First /\ Open(cursor) # {} /\ ~ split
    BY <1>1, EffectFacts
<1>3. i = Lowest(Open(cursor)) /\ i \in Items /\ f \in Files(Text)
    BY <1>2, OpenItems, LowestIn, TypeFacts DEF Current
<1>4. i \notin theirs => Fits(cursor, i, g) /\ Fits(aim, i, g)
    <2>1. SUFFICES ASSUME i \notin theirs PROVE Fits(cursor, i, g) /\ Fits(aim, i, g)
        OBVIOUS
    <2>2. Fits(cursor, i, f)
        BY <1>2, <1>3, <2>1 DEF Describes
    <2>3. QED
        BY <1>2, <1>3, <2>2, TurnFits, TypeFacts
<1>5. \A k \in Items \ theirs : k # i => Fits(aim, k, target[k])
    BY <1>2, <1>3, OthersFit, TypeFacts DEF Describes
<1>6. /\ target' = [target EXCEPT ![i] = g]
      /\ UNCHANGED <<given, state, journal, mode, cursor, theirs, split>>
      /\ aim' = aim /\ pc' = "persist" /\ ~ busy' /\ First' = First
    BY DEF WriteTarget, Announce, Go, history, First
<1> HIDE DEF f, g, i
<1>7. Recorded' /\ ResidueJournaled'
    BY <1>2, <1>3, <1>4, <1>6, TargetAgrees
<1>8. Describes(aim)'
    <2>1. StateFits(aim)
        BY <1>2, NextStateFits DEF Describes, Open
    <2>2. StateFits(aim)'
        BY <1>6, <2>1, GivenStays DEF StateFits
    <2>3. \A k \in Items : target'[k] = IF k = i THEN g ELSE target[k]
        BY <1>6, TypeFacts
    <2>4. \A k \in Items \ theirs' : Fits(aim, k, target[k])'
        BY <1>4, <1>5, <1>6, <2>3, GivenStays
    <2>5. QED
        BY <2>2, <2>4 DEF Describes
<1>9. InStep'
    <2>1. journal' = Settled(Expected')
        BY <1>2, <1>6 DEF Expected, Begins
    <2>2. QED
        BY <1>6, <1>8, <2>1, PersistInStep
<1>10. StateReplaced'
    BY <1>1, <1>6, CalmState DEF Steps
<1>11. QED
    BY <1>7, <1>9, <1>10 DEF AgreeInv

LEMMA TargetStepAgrees ==
    ASSUME BatchInv, ForeignInv, AgreeInv, Stage \/ Quarantine \/ Clear \/ Place
    PROVE  AgreeInv'
<1>1. pc \in {"stage", "quarantine", "clear", "place"}
    BY DEF Stage, Quarantine, Clear, Place
<1>2. CASE Fail
    BY <1>1, <1>2, FailAgrees
<1>3. CASE ~ Fail
    <2>1. /\ Ready(pc, target[Current]) /\ Announce(aim)
          /\ WriteTarget(Current, Done(pc, target[Current]))
        BY <1>3 DEF Stage, Quarantine, Clear, Place, Ready, Done
    <2>2. QED
        BY <1>1, <2>1, TurnAgrees
<1>4. QED
    BY <1>2, <1>3

\* The mutations and checks of the commit that leave the targets alone.
LEMMA CheckAgrees ==
    ASSUME BatchInv, ForeignInv, AgreeInv, StageState \/ Revalidate \/ Verify
    PROVE  AgreeInv'
<1>1. pc \in {"stageState", "revalidate", "verify"} /\ pc \in Effects
    BY DEF StageState, Revalidate, Verify, Effects
<1>2. CASE Fail
    BY <1>1, <1>2, FailAgrees
<1>3. CASE ~ Fail
    <2>1. /\ mode = "commit" /\ cursor \in Journal /\ cursor.phase \in Forward
          /\ cursor.phase \in Unfinished \/ Open(cursor) # {}
          /\ Surviving = {cursor} /\ Valid(cursor) /\ Describes(cursor)
          /\ journal = Settled(cursor) /\ pc = EffectOf(cursor)
          /\ aim = NextOf(cursor) /\ aim # First /\ ~ split
        BY <1>1, EffectFacts
    <2>2. cursor.phase # "NewTargetsCommitted"
        BY <1>1, <2>1 DEF EffectOf, Open
    <2>3. Describes(aim)
        BY <1>1, <2>1, <2>2, NextDescribes
    <2>4. /\ UNCHANGED <<given, target, journal, mode, cursor, aim, theirs, split>>
          /\ state' = state \/ state' = Staged(state, "new")
          /\ pc' = "persist" /\ ~ busy' /\ First' = First
        BY <1>3 DEF StageState, Revalidate, Verify, WriteState, Decide, Go, disk, memory, history,
                    First
    <2>5. state'.dst = state.dst /\ state'.bak = state.bak
        BY <2>4, TypeFacts DEF Staged, Files
    <2>6. Recorded' /\ ResidueJournaled'
        BY <2>1, <2>4, <2>5, StateAgreesStill
    <2>7. Describes(aim)'
        BY <2>3, <2>4, <2>5, DescribesStays
    <2>8. journal' = Settled(Expected')
        BY <2>1, <2>4 DEF Expected, Begins
    <2>9. InStep'
        BY <2>4, <2>7, <2>8, PersistInStep
    <2>10. StateReplaced'
        BY <1>1, <2>1, <2>4, <2>5 DEF AgreeInv, StateReplaced
    <2>11. QED
        BY <2>6, <2>9, <2>10 DEF AgreeInv
<1>4. QED
    BY <1>2, <1>3

LEMMA InstallAgrees ==
    ASSUME BatchInv, ForeignInv, AgreeInv, InstallState
    PROVE  AgreeInv'
<1>1. pc = "installState" /\ pc \in Effects
    BY DEF InstallState, Effects
<1>2. /\ mode = "commit" /\ cursor \in Journal /\ cursor.phase \in Forward
      /\ cursor.phase \in Unfinished \/ Open(cursor) # {}
      /\ Surviving = {cursor} /\ Valid(cursor) /\ Describes(cursor)
      /\ journal = Settled(cursor) /\ pc = EffectOf(cursor)
      /\ aim = NextOf(cursor) /\ aim # First /\ ~ split
    BY <1>1, EffectFacts
<1>3. cursor.phase = "NewTargetsCommitted" /\ Open(cursor) = {}
    BY <1>1, <1>2 DEF EffectOf
<1>4. CASE ~ (busy \/ Installable(state, OldState, "new"))
    <2>1. Fail
        BY <1>4 DEF InstallState
    <2>2. QED
        BY <1>4, <2>1, FailAgrees
<1> DEFINE f == Replaced(state, "new", exchange)
<1>5. CASE busy \/ Installable(state, OldState, "new")
    <2>1. f = Settled("new") \/ (~ same /\ f \in Midway("old", "new"))
        <3>1. "old" # None /\ "new" # None /\ state \in Files(Text)
            BY TypeFacts
        <3>2. CASE busy
            <4>1. ~ same /\ state \in Midway("old", "new")
                BY <1>1, <3>2 DEF AgreeInv, StateReplaced
            <4>2. QED
                BY <3>1, <4>1, FileReplaced
        <3>3. CASE ~ busy
            <4>1. state.bak = None
                BY <1>2, <3>3 DEF AgreeInv, StateReplaced
            <4>2. state.stg = "new" /\ state.dst \in {OldState, "new"}
                BY <1>5, <3>3, <4>1 DEF Installable
            <4>3. state.dst = "new" \/ (state.dst = "old" /\ ~ same)
                BY <4>2 DEF OldState
            <4>4. CASE state.dst = "new"
                <5>1. f = StagingGone(state)
                    BY <3>1, <4>2, <4>4 DEF Replaced
                <5>2. QED
                    BY <3>1, <4>1, <4>4, <5>1 DEF StagingGone, Settled, Files
            <4>5. CASE state.dst = "old" /\ ~ same
                <5>1. state = Staged(Settled("old"), "new")
                    BY <3>1, <4>1, <4>2, <4>5 DEF Staged, Settled, Files
                <5>2. QED
                    BY <3>1, <4>5, <5>1, FileReplaced
            <4>6. QED
                BY <4>3, <4>4, <4>5
        <3>4. QED
            BY <3>2, <3>3
    <2>2. /\ state' = f
          /\ UNCHANGED <<given, target, journal, mode, cursor, aim, theirs, split>>
          /\ First' = First
          /\ busy' = (f # Settled("new")) /\ pc' = IF busy' THEN pc ELSE "persist"
        BY <1>5 DEF InstallState, WriteState, memory, history, First
    <2> HIDE DEF f
    <2>3. Recorded' /\ ResidueJournaled'
        <3>1. \A j \in Surviving : StateFits(j)'
            BY <1>2, <1>3 DEF StateFits, Decided
        <3>2. QED
            BY <1>2, <2>2, <3>1, StateAgreesStill
    <2>4. CASE f # Settled("new")
        <3>1. pc' = pc /\ busy'
            BY <2>2, <2>4
        <3>2. aim' = NextOf(cursor)' /\ pc' = EffectOf(cursor)'
            BY <1>2, <2>2, <3>1, GivenStays
        <3>3. InStep'
            BY <1>1, <1>2, <2>2, <3>1, <3>2, EffectInStep
        <3>4. StateReplaced'
            BY <1>1, <1>2, <2>1, <2>2, <2>4, <3>1 DEF StateReplaced, given, Midway
        <3>5. QED
            BY <2>3, <3>3, <3>4 DEF AgreeInv
    <2>5. CASE f = Settled("new")
        <3>1. pc' = "persist" /\ ~ busy' /\ state'.dst = "new" /\ state'.bak = None
            BY <2>2, <2>5 DEF Settled
        <3>2. aim.phase = "StateCommitted"
            BY <1>2, <1>3, NextOfTyped, NextPhases DEF Unfinished
        <3>3. StateFits(aim)'
            BY <2>2, <3>1, <3>2 DEF StateFits, Decided
        <3>4. EffectOf(cursor) \notin {"stage", "quarantine", "clear", "place"}
            BY <1>1, <1>2
        <3>5. \A i \in Items \ theirs : Fits(aim, i, target[i])
            BY <1>2, <3>4, NextFits, TypeFacts DEF Describes
        <3>6. Describes(aim)'
            BY <2>2, <3>3, <3>5, GivenStays DEF Describes
        <3>7. journal' = Settled(Expected')
            BY <1>2, <2>2 DEF Expected, Begins
        <3>8. InStep'
            BY <3>1, <3>6, <3>7, PersistInStep
        <3>9. StateReplaced'
            BY <1>2, <2>2, <3>1 DEF StateReplaced
        <3>10. QED
            BY <2>3, <3>8, <3>9 DEF AgreeInv
    <2>6. QED
        BY <2>4, <2>5
<1>6. QED
    BY <1>4, <1>5

LEMMA ReconcileAgrees ==
    ASSUME BatchInv, ForeignInv, AgreeInv, Reconcile
    PROVE  AgreeInv'
<1>1. pc = "reconcile" /\ aim \in Surviving /\ aim \in Journal /\ None \notin Journal
      /\ journal \in Files(Records)
    BY TypeFacts DEF Reconcile, AgreeInv, InStep
<1>2. ~ busy => Verdict \notin {"invalid", "absent"} /\ aim = JournalSeen(journal, Verdict)
    BY <1>1 DEF BatchInv, Routed, AgreeInv, InStep
\* Every record that is left was there, and the one that is retained among them.
<1>3. ASSUME NEW f, WriteJournal(f), Held(f) \subseteq Held(journal) \cup {None}, aim \in Held(f),
             UNCHANGED <<cursor, aim>>
      PROVE  Recorded' /\ ResidueJournaled' /\ aim' \in Surviving'
    <2>1. \A j \in Held(f) \ {None, Torn} : Valid(j) /\ Describes(j)
        BY <1>3 DEF AgreeInv, Recorded, Surviving
    <2>2. aim \in Held(f) \ {None, Torn}
        BY <1>1, <1>3, TypeFacts
    <2>3. Surviving' = Held(f) \ {None, Torn}
        BY <1>3 DEF WriteJournal, Surviving, Held
    <2>4. QED
        BY <1>3, <2>1, <2>2, <2>3, JournalAgrees
<1>4. ASSUME NEW f, WriteJournal(f), pc' \in {"reconcile", "dropPending", "direct"}
      PROVE  StateReplaced'
    BY <1>1, <1>4, CalmState DEF WriteJournal, history, Steps
<1>5. CASE busy \/ Verdict \in {"installFirst", "installNext"}
    <2> DEFINE f == Replaced(journal, aim, exchange)
    <2>1. PICK old \in Journal \cup {None} :
            journal = Staged(Settled(old), aim) \/ journal \in Midway(old, aim)
        <3>1. CASE busy
            BY <1>1, <3>1 DEF AgreeInv, InStep
        <3>2. CASE ~ busy
            <4>1. /\ journal.stg = aim /\ journal.bak = None
                  /\ journal.dst \in Journal \cup {None}
                BY <1>2, <1>5, <3>2, VerdictShapes
            <4>2. journal = Staged(Settled(journal.dst), aim)
                BY <1>1, <4>1 DEF Files, Staged, Settled
            <4>3. QED
                BY <4>1, <4>2
        <3>3. QED
            BY <3>1, <3>2
    <2>2. /\ f = Settled(aim) \/ (f \in Midway(old, aim) /\ old # None)
          /\ aim \in Held(f) /\ Held(f) \subseteq Held(journal)
        BY <1>1, <2>1, FileReplaced
    <2>3. /\ WriteJournal(f) /\ UNCHANGED <<cursor, aim>>
          /\ busy' = (f # Settled(aim)) /\ pc' = IF busy' THEN "reconcile" ELSE "direct"
        BY <1>1, <1>5 DEF Reconcile
    <2> HIDE DEF f
    <2>4. Recorded' /\ ResidueJournaled' /\ aim' \in Surviving' /\ StateReplaced'
        BY <1>3, <1>4, <2>2, <2>3
    <2>5. CASE f = Settled(aim)
        <3>1. pc' = "direct" /\ journal' = Settled(journal'.dst)
            BY <2>3, <2>5 DEF WriteJournal, Settled
        <3>2. InStep'
            BY <3>1 DEF InStep, Effects
        <3>3. QED
            BY <2>4, <3>2 DEF AgreeInv
    <2>6. CASE f # Settled(aim)
        <3>1. pc' = "reconcile" /\ busy' /\ aim' = aim
            BY <2>3, <2>6
        <3>2. old \in Journal /\ journal' \in Midway(old, aim)
            BY <2>1, <2>2, <2>3, <2>6 DEF WriteJournal
        <3>3. \E j \in Journal : journal' \in Midway(j, aim)'
            BY <3>1, <3>2 DEF Midway
        <3>4. InStep'
            BY <2>4, <3>1, <3>3 DEF InStep, Effects
        <3>5. QED
            BY <2>4, <3>4 DEF AgreeInv
    <2>7. QED
        BY <2>5, <2>6
<1>6. CASE ~ (busy \/ Verdict \in {"installFirst", "installNext"})
    <2>1. Verdict \notin {"invalid", "absent"} /\ aim = JournalSeen(journal, Verdict)
        BY <1>2, <1>6
    <2>2. CASE Verdict = "restore"
        <3>1. journal.dst = None /\ journal.bak = aim
            BY <2>1, <2>2, VerdictShapes
        <3>2. /\ Restored(journal).dst = aim /\ Restored(journal).stg = journal.stg
              /\ Restored(journal).bak = None
            BY <1>1, <3>1 DEF Restored, Files
        <3>3. WriteJournal(Restored(journal)) /\ Go("dropPending") /\ UNCHANGED <<cursor, aim>>
            BY <1>6, <2>2 DEF Reconcile
        <3>4. aim \in Held(Restored(journal))
              /\ Held(Restored(journal)) \subseteq Held(journal) \cup {None}
            BY <3>1, <3>2 DEF Held
        <3>5. Recorded' /\ ResidueJournaled' /\ StateReplaced'
            BY <1>3, <1>4, <3>3, <3>4 DEF Go
        <3>6. journal'.bak = None
            BY <3>2, <3>3 DEF WriteJournal
        <3>7. InStep'
            BY <3>3, <3>6 DEF InStep, Effects, Go
        <3>8. QED
            BY <3>5, <3>7 DEF AgreeInv
    <2>3. CASE Verdict \in {"dropBackup", "dropStaging"}
        <3>1. PICK f : /\ f = Settled(aim) /\ WriteJournal(f) /\ Go("direct")
                       /\ UNCHANGED <<cursor, aim>> /\ journal.dst = aim
            <4>1. CASE Verdict = "dropBackup"
                <5>1. journal.dst = aim /\ journal.stg = None
                    BY <2>1, <4>1, VerdictShapes
                <5>2. BackupGone(journal) = Settled(aim)
                    BY <1>1, <5>1 DEF BackupGone, Settled, Files
                <5>3. QED
                    BY <1>6, <4>1, <5>1, <5>2 DEF Reconcile
            <4>2. CASE Verdict = "dropStaging"
                <5>1. journal.dst = aim /\ journal.bak = None
                    BY <2>1, <4>2, VerdictShapes
                <5>2. StagingGone(journal) = Settled(aim)
                    BY <1>1, <5>1 DEF StagingGone, Settled, Files
                <5>3. QED
                    BY <1>6, <4>2, <5>1, <5>2 DEF Reconcile
            <4>3. QED
                BY <2>3, <4>1, <4>2
        <3>2. aim \in Held(f) /\ Held(f) \subseteq Held(journal) \cup {None}
            BY <3>1 DEF Held, Settled
        <3>3. Recorded' /\ ResidueJournaled' /\ StateReplaced'
            BY <1>3, <1>4, <3>1, <3>2 DEF Go
        <3>4. journal' = Settled(journal'.dst)
            BY <3>1 DEF WriteJournal, Settled
        <3>5. InStep'
            BY <3>1, <3>4 DEF InStep, Effects, Go
        <3>6. QED
            BY <3>3, <3>5 DEF AgreeInv
    <2>4. CASE Verdict \notin {"restore", "dropBackup", "dropStaging"}
        <3>1. Decide("direct")
            BY <1>6, <2>4 DEF Reconcile
        <3>2. journal = Settled(aim)
            BY <1>6, <2>1, <2>4, VerdictShapes
        <3>3. UNCHANGED <<given, disk, theirs, split>> /\ pc' = "direct" /\ ~ busy'
              /\ mode' = mode
            BY <3>1 DEF Decide, Go, history, memory
        <3>4. journal' = Settled(journal'.dst)
            BY <3>2, <3>3 DEF disk, Settled
        <3>5. InStep'
            BY <3>3, <3>4 DEF InStep, Effects
        <3>6. Recorded' /\ ResidueJournaled'
            BY <3>3, CalmAgrees
        <3>7. StateReplaced'
            BY <1>1, <3>3, CalmState DEF disk, Steps
        <3>8. QED
            BY <3>5, <3>6, <3>7 DEF AgreeInv
    <2>5. QED
        BY <2>2, <2>3, <2>4
<1>7. QED
    BY <1>5, <1>6

LEMMA DropAgrees ==
    ASSUME BatchInv, ForeignInv, AgreeInv, DropPending
    PROVE  AgreeInv'
<1>1. pc = "dropPending" /\ journal.bak = None /\ journal.dst \in Journal
      /\ journal \in Files(Records)
    BY TypeFacts DEF DropPending, BatchInv, Routed, AgreeInv, InStep
<1> DEFINE f == StagingGone(journal)
<1>2. f = Settled(journal.dst)
    BY <1>1 DEF StagingGone, Settled, Files
<1>3. /\ WriteJournal(f) /\ journal' = f /\ pc' = "direct" /\ ~ busy' /\ mode' = mode
      /\ UNCHANGED <<given, state, split>>
    BY DEF DropPending, Go, WriteJournal, history
<1> HIDE DEF f
<1>4. Held(f) \ {None, Torn} # {}
      /\ \A j \in Held(f) \ {None, Torn} : Valid(j) /\ Describes(j)
    BY <1>1, <1>2, TypeFacts DEF Held, Settled, AgreeInv, Recorded, Surviving
<1>5. Recorded' /\ ResidueJournaled'
    BY <1>3, <1>4, JournalAgrees
<1>6. journal' = Settled(journal'.dst)
    BY <1>2, <1>3 DEF Settled
<1>7. InStep'
    BY <1>3, <1>6 DEF InStep, Effects
<1>8. StateReplaced'
    BY <1>1, <1>3, CalmState DEF Steps
<1>9. QED
    BY <1>5, <1>7, <1>8 DEF AgreeInv

\* The direction state.json gives is one the record allows.
LEMMA DirectionFits ==
    ASSUME BatchInv, ForeignInv, NEW j \in Journal, StateFits(j)
    PROVE  /\ Direction(j.phase) \in {"forward", "rollback", "blocked"}
           /\ Direction(j.phase) = "forward" =>
                state.dst = "new" /\ j.phase \in Decided \cup {"NewTargetsCommitted"}
           /\ Direction(j.phase) = "rollback" => state.dst = OldState /\ j.phase \notin Decided
<1>1. state.dst = "new" => 0 \notin theirs
    BY DEF ForeignInv
<1>2. QED
    BY <1>1 DEF Direction, StateFits, OldState, Decided

LEMMA DirectAgrees ==
    ASSUME BatchInv, ForeignInv, AgreeInv, Direct
    PROVE  AgreeInv'
<1> DEFINE d == journal.dst
<1>1. pc = "direct" /\ journal = Settled(d) /\ d \in Journal /\ d # None /\ d # Torn
    BY TypeFacts DEF Direct, BatchInv, Routed, AgreeInv, InStep
<1>2. d \in Surviving /\ Valid(d) /\ Describes(d)
    BY <1>1 DEF Surviving, Held, AgreeInv, Recorded
<1>3. state.bak # None => split
    BY <1>1 DEF AgreeInv, StateReplaced
<1>4. CASE Direction(d.phase) = "blocked"
    <2>1. Decide("blocked")
        BY <1>4 DEF Direct
    <2>2. QED
        BY <1>3, <2>1, EndAgrees DEF Decide, Go, history
<1>5. CASE Direction(d.phase) # "blocked"
    <2>1. /\ mode' = Direction(d.phase) /\ cursor' = d /\ UNCHANGED <<given, disk, history>>
          /\ mode' \in {"forward", "rollback"}
        BY <1>2, <1>1, <1>5, DirectionFits DEF Direct, Describes
    <2>2. UNCHANGED <<given, state, journal, theirs, split>> /\ Valid(d)'
        BY <1>2, <2>1, GivenStays DEF disk, history
    <2>3. Recorded' /\ ResidueJournaled' /\ (\A j : Describes(j) => Describes(j)')
        BY <2>1, CalmAgrees DEF history
    <2>4. ASSUME pc' \in {"recoverTargets", "tidy", "undo", "persist"} PROVE StateReplaced'
        BY <1>1, <2>1, <2>2, <2>4, CalmState
    <2>5. journal' = Settled(cursor')
        BY <1>1, <2>1, <2>2
    <2>6. CASE mode' = "forward"
        <3>1. pc' = "recoverTargets"
            BY <1>5, <2>6 DEF Direct, Go
        <3>2. state.dst = "new" /\ d.phase \in Decided \cup {"NewTargetsCommitted"}
            BY <1>1, <1>2, <2>1, <2>6, DirectionFits DEF Describes
        <3>3. InStep'
            BY <2>1, <2>2, <2>5, <3>1, <3>2 DEF InStep, Effects
        <3>4. QED
            BY <2>3, <2>4, <3>1, <3>3 DEF AgreeInv
    <2>7. CASE mode' = "rollback"
        <3>1. state.dst = OldState /\ d.phase \notin Decided
            BY <1>1, <1>2, <2>1, <2>7, DirectionFits DEF Describes
        <3>2. CASE d.phase = "RolledBack"
            <4>1. pc' = "tidy"
                BY <1>5, <2>1, <2>7, <3>2 DEF Direct, Go
            <4>2. InStep'
                BY <2>1, <2>2, <2>5, <2>7, <3>2, <4>1 DEF InStep, Effects
            <4>3. QED
                BY <2>3, <2>4, <4>1, <4>2 DEF AgreeInv
        <3>3. CASE d.phase = "RollingBack"
            <4>1. pc' = "undo"
                BY <1>5, <2>1, <2>7, <3>3 DEF Direct, Go
            <4>2. InStep'
                BY <2>5, <4>1 DEF InStep, Effects
            <4>3. QED
                BY <2>3, <2>4, <4>1, <4>2 DEF AgreeInv
        <3>4. CASE d.phase \notin {"RolledBack", "RollingBack"}
            <4>1. Announce(PhaseIs(d, "RollingBack"))
                BY <1>5, <2>1, <2>7, <3>4 DEF Direct
            <4>2. StateFits(PhaseIs(d, "RollingBack"))
                <5>1. PhaseIs(d, "RollingBack").phase = "RollingBack"
                    BY <1>1, RecordsTyped DEF Phase
                <5>2. QED
                    BY <3>1, <5>1 DEF StateFits, Decided
            <4>3. \A i \in Items \ theirs : Fits(PhaseIs(d, "RollingBack"), i, target[i])
                BY <1>1, <1>2, <3>1, PhaseFits, TypeFacts DEF Describes, Decided, Phase
            <4>4. Describes(PhaseIs(d, "RollingBack"))
                BY <4>2, <4>3 DEF Describes
            <4>5. pc' = "persist" /\ ~ busy' /\ Describes(aim)'
                BY <2>3, <4>1, <4>4 DEF Announce, Go
            <4>6. journal' = Settled(Expected')
                BY <2>5, <2>7 DEF Expected, Begins
            <4>7. InStep'
                BY <4>5, <4>6, PersistInStep
            <4>8. QED
                BY <2>3, <2>4, <4>5, <4>7 DEF AgreeInv
        <3>5. QED
            BY <3>2, <3>3, <3>4
    <2>8. QED
        BY <2>1, <2>6, <2>7
<1>6. QED
    BY <1>4, <1>5

\* A recovery that announces its next record and does nothing else.
LEMMA AnnounceAgrees ==
    ASSUME AgreeInv, NEW j, Announce(j), UNCHANGED <<given, disk, mode, cursor, history>>,
           Describes(j), mode # "commit", journal = Settled(cursor), pc # "installState"
    PROVE  AgreeInv'
<1>1. /\ aim' = j /\ pc' = "persist" /\ ~ busy'
      /\ UNCHANGED <<given, state, journal, mode, cursor, theirs, split>>
    BY DEF Announce, Go, disk, history
<1>2. Recorded' /\ ResidueJournaled' /\ (\A k : Describes(k) => Describes(k)')
    BY <1>1, CalmAgrees
<1>3. Describes(aim)'
    BY <1>1, <1>2
<1>4. journal' = Settled(Expected')
    BY <1>1 DEF Expected, Begins
<1>5. InStep'
    BY <1>1, <1>3, <1>4, PersistInStep
<1>6. StateReplaced'
    BY <1>1, CalmState
<1>7. QED
    BY <1>2, <1>5, <1>6 DEF AgreeInv

LEMMA RecoverAgrees ==
    ASSUME BatchInv, ForeignInv, AgreeInv, RecoverTargets
    PROVE  AgreeInv'
<1>1. /\ pc = "recoverTargets" /\ mode = "forward" /\ journal = Settled(cursor)
      /\ cursor \in Journal /\ cursor # None /\ cursor # Torn
      /\ cursor.phase \in Decided \cup {"NewTargetsCommitted"}
      /\ 0 \notin theirs => state.dst = "new"
    BY TypeFacts DEF RecoverTargets, BatchInv, Routed, AgreeInv, InStep
<1>2. Surviving = {cursor} /\ Valid(cursor) /\ Describes(cursor)
    BY <1>1 DEF Surviving, Held, Settled, AgreeInv, Recorded
<1>3. \A i \in Items \ theirs : target[i].dst = New(i)
    <2> TAKE i \in Items \ theirs
    <2>1. cursor.progress[i] \in {"Committed", "Verified"}
        BY <1>1, <1>2 DEF Valid, ValidProgress, Decided
    <2>2. Fits(cursor, i, target[i])
        BY <1>2 DEF Describes
    <2>3. QED
        BY <2>1, <2>2 DEF Fits
<1> DEFINE missing == {i \in Items : target[i].dst # New(i)}
           i == Lowest(missing)
<1>4. CASE Fail
    BY <1>1, <1>4, FailAgrees
<1>5. missing # {} => target[i].dst = "foreign"
    <2>1. missing # {} => i \in missing
        BY LowestIn
    <2>2. QED
        BY <1>3, <2>1 DEF ForeignInv
<1>6. CASE missing # {}
    <2>1. target[i].dst # None
        BY <1>5, <1>6, TypeFacts
    <2>2. Fail
        BY <1>6, <2>1 DEF RecoverTargets
    <2>3. QED
        BY <1>4, <2>2
<1>7. CASE Decide("tidy") /\ cursor.phase = "Verified"
    <2>1. UNCHANGED <<given, disk, theirs, split>> /\ pc' = "tidy" /\ ~ busy'
          /\ mode' = mode /\ cursor' = cursor
        BY <1>7 DEF Decide, Go, history, memory
    <2>2. Recorded' /\ ResidueJournaled'
        BY <2>1, CalmAgrees
    <2>3. journal' = journal /\ state' = state /\ Valid(cursor)'
        BY <1>2, <2>1, GivenStays DEF disk
    <2>4. StateReplaced'
        BY <1>1, <2>1, <2>3, CalmState DEF Steps
    <2>5. InStep'
        BY <1>1, <1>7, <2>1, <2>3 DEF InStep, Effects
    <2>6. QED
        BY <2>2, <2>4, <2>5 DEF AgreeInv
<1>8. CASE /\ cursor.phase \in {"NewTargetsCommitted", "StateCommitted"}
           /\ Announce(NextOf(cursor))
           /\ UNCHANGED <<given, disk, mode, cursor, history>>
    <2>1. Open(cursor) # {} => cursor.phase = "StateCommitted"
        BY <1>8 DEF Open
    <2>2. Open(cursor) # {} => cursor.progress[Lowest(Open(cursor))] = "Committed"
        BY <1>1, <1>2, <2>1, TurnIsOpen DEF Forward, Unfinished
    <2>3. EffectOf(cursor) \notin {"stage", "quarantine", "clear", "place"}
        BY <2>1, <2>2 DEF EffectOf
    <2>4. Describes(NextOf(cursor))
        BY <1>1, <1>2, <1>8, <2>3, NextDescribes DEF Forward, Unfinished
    <2>5. QED
        BY <1>1, <1>8, <2>4, AnnounceAgrees
<1>9. QED
    BY <1>4, <1>6, <1>7, <1>8 DEF RecoverTargets

\* Every way rollback_participant goes is one of those Undoes lists.
LEMMA UndoTurns ==
    ASSUME Undo, Open(cursor) # {}, disp \in [Items -> Dispositions]
    PROVE  LET i == Highest(Open(cursor))
               f == target[i]
           IN  \/ Fail
               \/ \E s, g : /\ Undoes(i, cursor.progress[i], f, s, g)
                            /\ Announce(ProgressIs(cursor, i, s))
                            /\ \/ /\ g = f
                                  /\ UNCHANGED <<given, disk, mode, cursor, history>>
                               \/ WriteTarget(i, g)
<1> DEFINE i == Highest(Open(cursor))
           f == target[i]
           r == cursor.progress[i]
           Turn(s, g) == /\ Undoes(i, r, f, s, g)
                         /\ Announce(ProgressIs(cursor, i, s))
                         /\ \/ g = f /\ UNCHANGED <<given, disk, mode, cursor, history>>
                            \/ WriteTarget(i, g)
           Record(s) == /\ Announce(ProgressIs(cursor, i, s))
                        /\ UNCHANGED <<given, disk, mode, cursor, history>>
           Change(g, s) == WriteTarget(i, g) /\ Announce(ProgressIs(cursor, i, s))
           Restore == IF r # "RestorePending" THEN Record("RestorePending")
                      ELSE IF f.bak = "old" THEN Change(Restored(f), "RolledBack") ELSE Fail
<1>1. i \in Items /\ disp[i] \in {"install", "noop", "update", "remove"}
    BY HighestIn, OpenItems DEF Dispositions
<1>2. SUFFICES Fail \/ \E s, g : Turn(s, g)
    OBVIOUS
<1>3. ASSUME NEW s, Record(s), Undoes(i, r, f, s, f) PROVE \E t, g : Turn(t, g)
    BY <1>3
<1>4. ASSUME NEW s, NEW g, Change(g, s), Undoes(i, r, f, s, g) PROVE \E t, h : Turn(t, h)
    BY <1>4
<1>5. CASE disp[i] = "noop"
    <2>1. Fail \/ (f.dst = "new" /\ Record("RolledBack"))
        BY <1>5 DEF Undo
    <2>2. f.dst = "new" => Undoes(i, r, f, "RolledBack", f)
        BY <1>5 DEF Undoes
    <2>3. QED
        BY <1>3, <2>1, <2>2
<1>6. ASSUME Restore, f.dst = None, Quarantines(i),
             disp[i] = "update" => r \notin {"CommitPending", "Committed", "RemovePending"}
      PROVE  Fail \/ \E s, g : Turn(s, g)
    <2>1. CASE r # "RestorePending"
        <3>1. Record("RestorePending")
            BY <1>6, <2>1
        <3>2. Undoes(i, r, f, "RestorePending", f)
            BY <1>6 DEF Undoes
        <3>3. QED
            BY <1>3, <3>1, <3>2
    <2>2. CASE r = "RestorePending"
        <3>1. Fail \/ (f.bak = "old" /\ Change(Restored(f), "RolledBack"))
            BY <1>6, <2>2
        <3>2. f.bak = "old" => Undoes(i, r, f, "RolledBack", Restored(f))
            BY <1>6, <2>2 DEF Undoes
        <3>3. QED
            BY <1>4, <3>1, <3>2
    <2>3. QED
        BY <2>1, <2>2
<1>7. CASE disp[i] = "remove"
    <2>1. \/ Fail
          \/ f.dst = "old" /\ Record("RolledBack")
          \/ f.dst = None /\ Restore
        BY <1>7 DEF Undo
    <2>2. f.dst = "old" => Undoes(i, r, f, "RolledBack", f)
        BY <1>7 DEF Undoes
    <2> HIDE DEF Restore
    <2>3. QED
        BY <1>3, <1>6, <1>7, <2>1, <2>2 DEF Quarantines
<1>8. CASE disp[i] \in {"install", "update"}
    <2>1. CASE r \in {"CommitPending", "Committed"}
        <3>1. Record("RemovePending")
            BY <1>8, <2>1 DEF Undo
        <3>2. Undoes(i, r, f, "RemovePending", f)
            BY <1>8, <2>1 DEF Undoes
        <3>3. QED
            BY <1>3, <3>1, <3>2
    <2>2. CASE r = "RemovePending"
        <3>1. \/ Fail
              \/ f.dst = "new" /\ Change([f EXCEPT !.dst = None], "Removed")
              \/ f.dst \in {None, Old(i)} /\ Record("Removed")
            BY <1>8, <2>2 DEF Undo
        <3>2. /\ f.dst = "new" => Undoes(i, r, f, "Removed", [f EXCEPT !.dst = None])
              /\ f.dst \in {None, Old(i)} => Undoes(i, r, f, "Removed", f)
            BY <1>8, <2>2 DEF Undoes
        <3>3. QED
            BY <1>3, <1>4, <3>1, <3>2
    <2>3. CASE r \notin {"CommitPending", "Committed", "RemovePending"}
        <3>1. \/ Fail
              \/ /\ f.dst # "new" /\ (disp[i] = "install" \/ f.dst = "old")
                 /\ Record("RolledBack")
              \/ f.dst = None /\ disp[i] = "update" /\ Restore
            BY <1>8, <2>3 DEF Undo
        <3>2. f.dst # "new" /\ (disp[i] = "install" \/ f.dst = "old") =>
                Undoes(i, r, f, "RolledBack", f)
            BY <1>8, <2>3 DEF Undoes
        <3> HIDE DEF Restore
        <3>3. QED
            BY <1>3, <1>6, <2>3, <3>1, <3>2 DEF Quarantines
    <2>4. QED
        BY <2>1, <2>2, <2>3
<1>9. QED
    BY <1>1, <1>5, <1>7, <1>8

LEMMA UndoAgrees ==
    ASSUME BatchInv, ForeignInv, AgreeInv, Undo
    PROVE  AgreeInv'
<1>1. /\ pc = "undo" /\ mode = "rollback" /\ cursor.phase = "RollingBack"
      /\ journal = Settled(cursor) /\ cursor \in Journal /\ cursor # None /\ cursor # Torn
    BY TypeFacts DEF Undo, BatchInv, Routed, AgreeInv, InStep
<1>2. Surviving = {cursor} /\ Describes(cursor)
    BY <1>1 DEF Surviving, Held, Settled, AgreeInv, Recorded
<1>3. 0 \notin theirs => state.dst = OldState
    BY <1>1, <1>2 DEF Describes, StateFits, Decided
<1>4. CASE Open(cursor) = {}
    <2>1. Announce(NextOf(cursor)) /\ UNCHANGED <<given, disk, mode, cursor, history>>
        BY <1>4 DEF Undo
    <2>2. NextOf(cursor) = PhaseIs(cursor, "RolledBack")
        BY <1>1, <1>4, NextPhases DEF NextOf
    <2>3. NextOf(cursor).phase = "RolledBack" /\ "RolledBack" \in Phase
        BY <1>1, <2>2, RecordsTyped DEF Phase
    <2>4. StateFits(NextOf(cursor))
        BY <1>3, <2>3 DEF StateFits, Decided
    <2>5. \A i \in Items \ theirs : Fits(NextOf(cursor), i, target[i])
        BY <1>1, <1>2, <2>2, <2>3, PhaseFits, TypeFacts DEF Describes
    <2>6. QED
        BY <1>1, <2>1, <2>4, <2>5, AnnounceAgrees DEF Describes
<1>5. CASE Open(cursor) # {}
    <2> DEFINE i == Highest(Open(cursor))
               f == target[i]
    <2>1. i \in Items /\ f \in Files(Text)
        BY <1>5, HighestIn, OpenItems, TypeFacts
    <2>2. CASE Fail
        BY <1>1, <2>2, FailAgrees
    <2>3. ASSUME NEW s, NEW g, Undoes(i, cursor.progress[i], f, s, g),
                 Announce(ProgressIs(cursor, i, s)),
                 \/ g = f /\ UNCHANGED <<given, disk, mode, cursor, history>>
                 \/ WriteTarget(i, g)
          PROVE  AgreeInv'
        <3> DEFINE next == ProgressIs(cursor, i, s)
        <3>1. s \in Progress
            BY <2>3 DEF Undoes, Progress
        <3>2. i \notin theirs => Fits(cursor, i, g) /\ Fits(next, i, g)
            BY <1>1, <1>2, <2>1, <2>3, UndoFits, TypeFacts DEF Describes
        <3>3. \A k \in Items \ theirs : k # i => Fits(next, k, target[k])
            BY <1>1, <1>2, <2>1, <3>1, ProgressFits DEF Describes
        <3>4. StateFits(next)
            <4>1. next.phase = "RollingBack"
                BY <1>1, <2>1, <3>1, ProgressAt
            <4>2. QED
                BY <1>3, <4>1 DEF StateFits, Decided
        <3> HIDE DEF next
        <3>5. CASE g = f /\ UNCHANGED <<given, disk, mode, cursor, history>>
            <4>1. Describes(next)
                BY <3>2, <3>3, <3>4, <3>5 DEF Describes
            <4>2. QED
                BY <1>1, <2>3, <3>5, <4>1, AnnounceAgrees DEF next
        <3>6. CASE WriteTarget(i, g)
            <4>1. /\ target' = [target EXCEPT ![i] = g]
                  /\ UNCHANGED <<given, state, journal, mode, cursor, theirs, split>>
                  /\ aim' = next /\ pc' = "persist" /\ ~ busy'
                BY <2>3, <3>6 DEF WriteTarget, Announce, Go, history, next
            <4> HIDE DEF f, i
            <4>2. Recorded' /\ ResidueJournaled'
                BY <1>2, <2>1, <3>2, <4>1, TargetAgrees
            <4>3. \A k \in Items : target'[k] = IF k = i THEN g ELSE target[k]
                BY <4>1, TypeFacts
            <4>4. \A k \in Items \ theirs' : Fits(aim, k, target[k])'
                <5>1. \A j, k, h : Fits(j, k, h)' <=> Fits(j, k, h)
                    BY <4>1, GivenStays
                <5>2. ASSUME NEW k \in Items \ theirs' PROVE Fits(aim', k, target'[k])
                    BY <3>2, <3>3, <4>1, <4>3, <5>2
                <5>3. QED
                    BY <5>1, <5>2
            <4>5. Describes(aim)'
                <5>1. StateFits(aim)'
                    BY <3>4, <4>1, GivenStays DEF StateFits
                <5>2. QED
                    BY <4>4, <5>1 DEF Describes
            <4>6. journal' = Settled(Expected')
                BY <1>1, <4>1 DEF Expected, Begins
            <4>7. InStep'
                BY <4>1, <4>5, <4>6, PersistInStep
            <4>8. StateReplaced'
                BY <1>1, <4>1, CalmState
            <4>9. QED
                BY <4>2, <4>7, <4>8 DEF AgreeInv
        <3>7. QED
            BY <2>3, <3>5, <3>6
    <2>4. QED
        BY <1>5, <2>2, <2>3, UndoTurns, TypeFacts
<1>6. QED
    BY <1>4, <1>5

\* What both cleanups may remove is nothing the record speaks of.
LEMMA ResidueFits ==
    ASSUME BatchInv, NEW j \in Journal, j.phase \in {"Verified", "RolledBack"}, Valid(j),
           NEW i \in Items, NEW f \in Files(Text), Fits(j, i, f),
           NEW g \in {StagingGone(f), BackupGone(f)}
    PROVE  /\ Fits(j, i, g)
           /\ f.dst = IF j.phase = "Verified" THEN New(i) ELSE Old(i)
<1>1. /\ j.phase = "Verified" => j.progress[i] = "Verified"
      /\ j.phase = "RolledBack" => j.progress[i] = "RolledBack"
    BY DEF Valid, ValidProgress
<1>2. QED
    BY <1>1 DEF Fits, StagingGone, BackupGone, Files

LEMMA ResidueAgrees ==
    ASSUME BatchInv, ForeignInv, AgreeInv, NEW label \in {"clean", "tidy"},
           NEW end \in {"done", "idle"}, RemoveResidue(label, end)
    PROVE  AgreeInv'
<1>1. /\ pc = label /\ pc # "installState" /\ pc \in Steps
      /\ journal \in {Settled(cursor), Settled(None)} /\ Valid(cursor)
      /\ cursor.phase = IF mode = "rollback" THEN "RolledBack" ELSE "Verified"
      /\ cursor \in Journal /\ cursor # None /\ cursor # Torn
    BY TypeFacts DEF RemoveResidue, AgreeInv, InStep, Steps
<1>2. state.bak # None => split
    BY <1>1 DEF AgreeInv, StateReplaced
<1> DEFINE left == {i \in Items : target[i].stg # None \/ target[i].bak # None}
           i == Lowest(left)
           f == target[i]
<1>3. CASE Fail
    BY <1>1, <1>3, FailAgrees
<1>4. CASE journal = Settled(None)
    <2>1. Held(journal) = {None} /\ journal.dst = None
        BY <1>4 DEF Settled, Held
    <2>2. left = {} /\ state.stg = None
        BY <2>1 DEF AgreeInv, ResidueJournaled
    <2>3. WriteJournal(StagingGone(journal)) /\ Go(end) /\ UNCHANGED <<cursor, aim>>
        BY <2>1, <2>2 DEF RemoveResidue
    <2>4. StagingGone(journal) = journal
        BY <1>4 DEF StagingGone, Settled
    <2>5. UNCHANGED <<given, disk, theirs, split>>
        BY <2>3, <2>4 DEF WriteJournal, disk, history
    <2>6. QED
        BY <1>2, <2>3, <2>5, EndAgrees DEF Go
<1>5. CASE journal = Settled(cursor)
    <2>1. Surviving = {cursor} /\ Describes(cursor) /\ journal.dst # None
        BY <1>1, <1>5 DEF Surviving, Held, Settled, AgreeInv, Recorded
\* What stays the same while there is still something to remove.
    <2>2. ASSUME pc' = label, UNCHANGED <<given, mode, cursor, split>>, state'.dst = state.dst,
                 state'.bak = state.bak, journal' \in {Settled(cursor), Settled(None)}
          PROVE  StateReplaced' /\ InStep'
        <3>1. StateReplaced'
            BY <1>1, <2>2 DEF AgreeInv, StateReplaced, given
        <3>2. Valid(cursor)'
            BY <1>1, <2>2, GivenStays
        <3>3. InStep'
            BY <1>1, <2>2, <3>2 DEF InStep, Effects
        <3>4. QED
            BY <3>1, <3>3
    <2>3. CASE \E g \in {StagingGone(f), BackupGone(f)} :
                 left # {} /\ WriteTarget(i, g) /\ UNCHANGED aim /\ Go(label)
        <3>1. PICK g \in {StagingGone(f), BackupGone(f)} :
                 left # {} /\ WriteTarget(i, g) /\ UNCHANGED aim /\ Go(label)
            BY <2>3
        <3>2. i \in Items
            BY <3>1, LowestIn
        <3>3. i \notin theirs => Fits(cursor, i, g)
            BY <1>1, <2>1, <3>1, <3>2, ResidueFits, TypeFacts DEF Describes
        <3> HIDE DEF i, f, left
        <3>4. Recorded' /\ ResidueJournaled'
            BY <2>1, <3>1, <3>2, <3>3, TargetAgrees DEF WriteTarget, history
        <3>5. StateReplaced' /\ InStep'
            BY <1>5, <2>2, <3>1 DEF WriteTarget, history, Go
        <3>6. QED
            BY <3>4, <3>5 DEF AgreeInv
    <2>4. CASE WriteState(StagingGone(state)) /\ Go(label)
        <3>1. state'.dst = state.dst /\ state'.bak = state.bak
            BY <2>4, TypeFacts DEF WriteState, StagingGone, Files
        <3>2. Recorded' /\ ResidueJournaled'
            BY <2>1, <2>4, <3>1, StateAgreesStill DEF WriteState, history
        <3>3. StateReplaced' /\ InStep'
            BY <1>5, <2>2, <2>4, <3>1 DEF WriteState, memory, history, Go
        <3>4. QED
            BY <3>2, <3>3 DEF AgreeInv
    <2>5. CASE /\ left = {} /\ state.stg = None
               /\ WriteJournal([journal EXCEPT !.dst = None])
               /\ Go(label) /\ UNCHANGED <<cursor, aim>>
        <3>1. [journal EXCEPT !.dst = None] = Settled(None)
            BY <1>5 DEF Settled
        <3>2. journal' = Settled(None) /\ UNCHANGED <<given, target, state, theirs, split, mode>>
            BY <2>5, <3>1 DEF WriteJournal, history
        <3>3. Surviving' = {} /\ journal'.dst = None /\ journal'.bak = None
            BY <3>2 DEF Surviving, Held, Settled
        <3>4. \A k \in Items \ theirs :
                 target[k].dst = IF cursor.phase = "Verified" THEN New(k) ELSE Old(k)
            BY <1>1, <2>1, ResidueFits, TypeFacts DEF Describes
        <3>5. IF cursor.phase = "Verified" THEN Complete ELSE Untouched
            BY <1>1, <2>1, <3>4 DEF Describes, StateFits, Complete, Untouched, Decided
        <3>6. Untouched' \/ Complete'
            BY <3>2, <3>5, GivenStays DEF Untouched, Complete
        <3>7. Recorded'
            BY <3>3, <3>6 DEF Recorded
        <3>8. ResidueJournaled'
            BY <1>2, <2>5, <3>2 DEF ResidueJournaled
        <3>9. StateReplaced' /\ InStep'
            BY <2>2, <2>5, <3>2 DEF Go
        <3>10. QED
            BY <3>7, <3>8, <3>9 DEF AgreeInv
    <2>6. QED
        BY <1>3, <2>1, <2>3, <2>4, <2>5 DEF RemoveResidue
<1>6. QED
    BY <1>1, <1>4, <1>5

\* The memory is lost, and with it every claim about it.
LEMMA DiesAgrees ==
    ASSUME AgreeInv, Dies, Recorded', ResidueJournaled',
           split' => ~ same /\ state'.dst # "old", state'.bak # None => split'
    PROVE  AgreeInv'
<1>1. pc' = "idle" /\ same' = same
    BY DEF Dies, given
<1>2. StateReplaced'
    BY <1>1 DEF StateReplaced, Steps, Effects
<1>3. InStep'
    BY <1>1 DEF InStep, Effects
<1>4. QED
    BY <1>2, <1>3 DEF AgreeInv

LEMMA CrashAgrees ==
    ASSUME BatchInv, AgreeInv, Crash
    PROVE  AgreeInv'
<1>1. /\ UNCHANGED <<given, disk, theirs, state>>
      /\ split' = (split \/ (pc = "installState" /\ busy)) /\ Dies
    BY DEF Crash, Dies, disk
<1>2. Recorded' /\ ResidueJournaled'
    BY <1>1, CalmAgrees
<1>3. split' => ~ same /\ state'.dst # "old"
    <2>1. state \in Midway("old", "new") => state.dst # "old"
        BY TypeFacts DEF Midway
    <2>2. QED
        BY <1>1, <2>1 DEF AgreeInv, StateReplaced
<1>4. state'.bak # None => split'
    BY <1>1 DEF AgreeInv, StateReplaced
<1>5. QED
    BY <1>1, <1>2, <1>3, <1>4, DiesAgrees

LEMMA TearAgrees ==
    ASSUME BatchInv, AgreeInv, Tear
    PROVE  AgreeInv'
<1>1. UNCHANGED <<given, theirs, split>> /\ Dies
    BY DEF Tear, Dies
<1>2. /\ pc \in {"stage", "stageState", "persist"} /\ pc # "installState"
      /\ state.bak # None => split
      /\ split => ~ same /\ state.dst # "old"
    BY DEF Tear, AgreeInv, StateReplaced
<1>3. CASE /\ pc = "stage" /\ target[Current].stg = None
           /\ target' = [target EXCEPT ![Current] = Staged(@, Torn)]
           /\ UNCHANGED <<state, journal>>
    <2> DEFINE i == Current
               f == target[i]
               r == cursor.progress[i]
    <2>1. /\ cursor \in Journal /\ cursor.phase \in Forward /\ Open(cursor) # {}
          /\ Surviving = {cursor} /\ Valid(cursor) /\ Describes(cursor)
          /\ EffectOf(cursor) = "stage"
        BY <1>3, EffectFacts DEF Effects
    <2>2. i = Lowest(Open(cursor)) /\ i \in Items /\ f \in Files(Text)
        BY <2>1, OpenItems, LowestIn, TypeFacts DEF Current
    <2>3. r = "StagingPending" /\ disp[i] # "remove"
        BY <2>1, <2>2 DEF EffectOf
    <2>4. i \notin theirs => Fits(cursor, i, f)
        BY <2>1, <2>2 DEF Describes
    <2>5. i \notin theirs => Fits(cursor, i, Staged(f, Torn))
        BY <2>2, <2>3, <2>4 DEF Fits, Staged, Files
    <2>6. target' = [target EXCEPT ![i] = Staged(f, Torn)]
        BY <1>3
    <2> HIDE DEF i, f
    <2>7. Recorded' /\ ResidueJournaled'
        BY <1>1, <1>3, <2>1, <2>2, <2>5, <2>6, TargetAgrees
    <2>8. QED
        BY <1>1, <1>2, <1>3, <2>7, DiesAgrees
<1>4. CASE pc = "stageState" /\ state' = Staged(state, Torn) /\ UNCHANGED <<target, journal>>
    <2>1. state'.dst = state.dst /\ state'.bak = state.bak
        BY <1>4, TypeFacts DEF Staged, Files
    <2>2. Surviving # {}
        BY <1>4, EffectFacts DEF Effects
    <2>3. Recorded' /\ ResidueJournaled'
        BY <1>1, <1>4, <2>1, <2>2, StateAgreesStill
    <2>4. QED
        BY <1>1, <1>2, <2>1, <2>3, DiesAgrees
<1>5. CASE /\ pc = "persist" /\ journal.stg = None /\ journal' = Staged(journal, Torn)
           /\ UNCHANGED <<target, state>>
    <2>1. journal \in Files(Records) /\ Torn # None
        BY TypeFacts
    <2>2. Surviving' = Surviving /\ Held(journal') # {None}
          /\ journal'.dst = journal.dst /\ journal'.bak = journal.bak
        BY <1>5, <2>1 DEF Surviving, Held, Staged, Files
    <2>3. \A j : Describes(j) => Describes(j)'
        BY <1>1, <1>5, DescribesStays
    <2>4. (Untouched => Untouched') /\ (Complete => Complete')
        BY <1>1, <1>5, GivenStays DEF Untouched, Complete
    <2>5. Recorded'
        BY <1>1, <2>2, <2>3, <2>4, GivenStays DEF AgreeInv, Recorded
    <2>6. ResidueJournaled'
        BY <2>2 DEF ResidueJournaled, Held
    <2>7. QED
        BY <1>1, <1>2, <1>5, <2>5, <2>6, DiesAgrees
<1>6. QED
    BY <1>3, <1>4, <1>5 DEF Tear

(***************************************************************************)
(* What somebody else writes is theirs from then on, and no record speaks  *)
(* of it.                                                                  *)
(***************************************************************************)
LEMMA OthersAgree ==
    ASSUME BatchInv, AgreeInv, UNCHANGED <<given, journal, pc, memory, busy, split>>,
           theirs \subseteq theirs',
           \/ state' = state
           \/ /\ ~ busy /\ 0 \in theirs' /\ state'.dst = "foreign"
              /\ state'.stg = state.stg /\ state'.bak = state.bak,
           \A i \in Items \ theirs' : target'[i] = target[i],
           \A i \in Items : target'[i].stg = target[i].stg /\ target'[i].bak = target[i].bak
    PROVE  AgreeInv'
<1>1. \A j : Describes(j) => Describes(j)'
    BY DescribesStays
<1>2. Surviving' = Surviving /\ Verdict' = Verdict
    BY VerdictStays DEF Surviving, Held, given
<1>3. (Untouched => Untouched') /\ (Complete => Complete')
    BY GivenStays DEF Untouched, Complete
<1>4. Recorded'
    BY <1>1, <1>2, <1>3, GivenStays DEF AgreeInv, Recorded
<1>5. ResidueJournaled'
    BY DEF AgreeInv, ResidueJournaled, Held
<1>6. StateReplaced'
    BY GivenStays DEF AgreeInv, StateReplaced, memory, Midway
<1>7. InStep'
    <2>1. UNCHANGED <<journal, pc, mode, cursor, aim, busy>> /\ Expected' = Expected
          /\ (Begins' <=> Begins)
        BY DEF memory, Expected, Begins, First
    <2>2. NextOf(cursor)' = NextOf(cursor) /\ EffectOf(cursor)' = EffectOf(cursor)
          /\ (Valid(cursor)' <=> Valid(cursor))
        BY <2>1, GivenStays
    <2>3. Describes(aim) => Describes(aim)'
        BY <1>1, <2>1
    <2>4. InStep
        BY DEF AgreeInv
    <2>5. 0 \notin theirs' => state' = state /\ 0 \notin theirs
        OBVIOUS
    <2>6. \A j : journal \in Midway(j, aim) => journal' \in Midway(j, aim)'
        BY <2>1 DEF Midway
    <2>7. JournalSeen(journal, Verdict)' = JournalSeen(journal, Verdict)
        BY <1>2 DEF JournalSeen
    <2>8. pc' \in Effects \cup {"undo", "recoverTargets"} => journal' = Settled(cursor')
        BY <2>1, <2>4 DEF InStep
    <2>9. pc' \in Effects => pc' = EffectOf(cursor)' /\ aim' = NextOf(cursor)'
        BY <2>1, <2>2, <2>4 DEF InStep
    <2>10. pc' = "persist" =>
             /\ Describes(aim)'
             /\ IF busy' THEN ~ Begins' /\ journal' \in Midway(cursor, aim)'
                ELSE journal' \in {Settled(Expected'), Staged(Settled(Expected'), aim')}
        BY <2>1, <2>3, <2>4 DEF InStep, Midway
    <2>11. pc' = "recoverTargets" =>
             /\ cursor'.phase \in Decided \cup {"NewTargetsCommitted"}
             /\ 0 \notin theirs' => state'.dst = "new"
        BY <2>1, <2>4, <2>5 DEF InStep
    <2>12. pc' \in {"clean", "tidy"} =>
             /\ journal' \in {Settled(cursor'), Settled(None)} /\ Valid(cursor)'
             /\ cursor'.phase = IF mode' = "rollback" THEN "RolledBack" ELSE "Verified"
        BY <2>1, <2>2, <2>4 DEF InStep
    <2>13. pc' = "reconcile" =>
             /\ aim' \in Surviving'
             /\ IF busy' THEN \E j \in Journal : journal' \in Midway(j, aim)'
                ELSE aim' = JournalSeen(journal, Verdict)'
        BY <1>2, <2>1, <2>4, <2>6, <2>7 DEF InStep
    <2>14. /\ pc' = "dropPending" => journal'.bak = None
           /\ pc' = "direct" => journal' = Settled(journal'.dst)
        BY <2>1, <2>4 DEF InStep
    <2>15. QED
        BY <2>8, <2>9, <2>10, <2>11, <2>12, <2>13, <2>14 DEF InStep
<1>8. QED
    BY <1>4, <1>5, <1>6, <1>7 DEF AgreeInv

LEMMA AgreeStep == BatchInv /\ ForeignInv /\ AgreeInv /\ [Next]_vars => AgreeInv'
<1> SUFFICES ASSUME BatchInv, ForeignInv, AgreeInv, [Next]_vars PROVE AgreeInv'
    OBVIOUS
<1>1. CASE Step
    <2>1. CASE RemoveResidue("clean", "done")
        BY <2>1, ResidueAgrees
    <2>2. CASE RemoveResidue("tidy", IF mode = "forward" THEN "done" ELSE "idle")
        BY <2>2, ResidueAgrees
    <2>3. CASE Stage \/ Quarantine \/ Clear \/ Place
        BY <2>3, TargetStepAgrees
    <2>4. CASE StageState \/ Revalidate \/ Verify
        BY <2>4, CheckAgrees
    <2>5. QED
        BY <1>1, <2>1, <2>2, <2>3, <2>4, AttemptAgrees, PersistAgrees, InstallAgrees,
           ReconcileAgrees, DropAgrees, DirectAgrees, RecoverAgrees, UndoAgrees DEF Step
<1>2. CASE Crash \/ Tear
    BY <1>2, CrashAgrees, TearAgrees
<1>3. ASSUME NEW i \in Items, EditTarget(i) PROVE AgreeInv'
    <2>1. /\ UNCHANGED <<given, journal, pc, memory, busy, split, state>>
          /\ theirs' = theirs \cup {i}
        BY <1>3 DEF EditTarget, Edits
    <2>2. \A k \in Items :
             target'[k] = IF k = i THEN [target[i] EXCEPT !.dst = "foreign"] ELSE target[k]
        BY <1>3, TypeFacts DEF EditTarget
    <2>3. \A k \in Items : target'[k].stg = target[k].stg /\ target'[k].bak = target[k].bak
        BY <2>2, TypeFacts DEF Files
    <2>4. QED
        BY <2>1, <2>2, <2>3, OthersAgree
<1>4. CASE EditState
    BY <1>4, TypeFacts, OthersAgree DEF EditState, Edits, Files
<1>5. CASE Adopt
    BY <1>5, OthersAgree DEF Adopt, Edits
<1>6. CASE UNCHANGED vars
    BY <1>6, OthersAgree DEF vars, given, memory
<1>7. QED
    BY <1>1, <1>2, <1>3, <1>4, <1>5, <1>6 DEF Next, Finished

LEMMA AgreeHolds == Spec => [](BatchInv /\ ForeignInv /\ AgreeInv)
<1>1. Init => ForeignInv
    BY DEF Init, ForeignInv
<1>2. Init => AgreeInv
    BY AgreeInit
<1>3. BatchInv /\ ForeignInv /\ AgreeInv /\ [Next]_vars => ForeignInv' /\ AgreeInv'
    BY ForeignStep, AgreeStep
<1>4. QED
    BY <1>1, <1>2, <1>3, BatchHolds, PTL DEF Spec

\* What the invariant says of the targets, by the record that survives.
LEMMA AgreeMeans == BatchInv /\ ForeignInv /\ AgreeInv => StateAgrees
<1> SUFFICES ASSUME BatchInv, ForeignInv, AgreeInv PROVE StateAgrees
    OBVIOUS
<1>1. PICK j \in Surviving \cup {None} : j = None <=> Surviving = {}
    BY TypeFacts DEF Surviving
<1>2. j # None => j \in Journal /\ Valid(j) /\ Describes(j)
    BY <1>1, TypeFacts DEF AgreeInv, Recorded, Surviving, Held, Files, Records
<1>3. OldKept
    <2> SUFFICES ASSUME StateText # "new", 0 \notin theirs, NEW i \in Items, Quarantines(i),
                        i \notin theirs
                 PROVE  "old" \in Held(target[i])
        BY DEF OldKept
    <2>1. Old(i) = "old" /\ Backup(i) = "old"
        BY DEF Old, Quarantines, Backup
    <2>2. state.dst # "new"
        BY TypeFacts DEF StateText
    <2>3. CASE j = None
        BY <1>1, <2>1, <2>2, <2>3 DEF AgreeInv, Recorded, Untouched, Complete, Held
    <2>4. CASE j # None
        <3>1. Fits(j, i, target[i]) /\ j.progress[i] \in Progress
              /\ ValidProgress(j.phase, i, j.progress[i])
            BY <1>2, <2>4 DEF Describes, Journal, Valid
        <3>2. j.phase \notin Decided
            BY <1>2, <2>2, <2>4 DEF Describes, StateFits
        <3>3. CASE j.progress[i] \in {"Unstaged", "StagingPending", "Prepared", "RolledBack"}
            <4>1. Settled("old").dst = "old"
                BY DEF Settled
            <4>2. target[i].dst = "old"
                BY <2>1, <3>1, <3>3, <4>1 DEF Fits
            <4>3. QED
                BY <4>2 DEF Held
        <3>4. CASE j.progress[i] \in {"QuarantinePending", "Quarantined", "RestorePending"}
            BY <3>1, <3>4 DEF Fits, Held
        <3>5. CASE j.progress[i] \in {"CommitPending", "Committed", "Verified", "RemovePending",
                                      "Removed"}
            <4>1. target[i].bak = Backup(i) \/ j.phase = "Verified"
                BY <3>1, <3>5 DEF Fits
            <4>2. QED
                BY <2>1, <3>2, <4>1 DEF Held, Decided
        <3>6. QED
            BY <3>1, <3>3, <3>4, <3>5 DEF Progress
    <2>5. QED
        BY <2>3, <2>4
<1>4. ReceiptsTrue
    <2> SUFFICES ASSUME ~ same, StateText = "new", theirs = {}, state.dst # None
                 PROVE  Applied
        BY DEF ReceiptsTrue
    <2>1. state.dst = "new" /\ OldState = "old"
        BY DEF StateText, OldState
    <2>2. CASE j = None
        BY <1>1, <2>1, <2>2 DEF AgreeInv, Recorded, Untouched, Complete, Applied
    <2>3. CASE j # None
        <3>1. j.phase \in Decided \cup {"NewTargetsCommitted"}
            BY <1>2, <2>1, <2>3 DEF Describes, StateFits
        <3>2. ASSUME NEW i \in Items PROVE target[i].dst = New(i)
            <4>1. j.progress[i] \in {"Committed", "Verified"}
                BY <1>2, <2>3, <3>1 DEF Valid, ValidProgress, Decided
            <4>2. Fits(j, i, target[i])
                BY <1>2, <2>3 DEF Describes
            <4>3. QED
                BY <4>1, <4>2 DEF Fits
        <3>3. QED
            BY <2>1, <3>2 DEF Applied
    <2>4. QED
        BY <2>2, <2>3
<1>5. ResidueJournaled
    BY DEF AgreeInv
<1>6. QED
    BY <1>3, <1>4, <1>5 DEF StateAgrees

(***************************************************************************)
(* Targets and state.json agree, through every crash, every recovery and   *)
(* whatever somebody else writes: prior content is kept until the receipts *)
(* say that it is replaced, receipts are never ahead of the targets, and   *)
(* nothing of a batch lies about that no journal names.                    *)
(***************************************************************************)
THEOREM TargetsAgree == Spec => []StateAgrees
<1>1. QED
    BY AgreeHolds, AgreeMeans, PTL

-----------------------------------------------------------------------------
(***************************************************************************)
(* The refinement.  What somebody who looks at targets, state.json and     *)
(* journal makes of every step is a step of AtomicBatch.                   *)
(***************************************************************************)
\* The plan has something to do, and what it does shows.
PlanInv ==
    /\ \E i \in Items : disp[i] # "noop"
    /\ same => \A i \in Items : disp[i] \in {"install", "noop"}

PromiseKept == [Promise!Next]_Outcome

LEMMA GivenNeverChanges == [Next]_vars => UNCHANGED given
<1> SUFFICES ASSUME [Next]_vars PROVE UNCHANGED given
    OBVIOUS
<1>1. CASE Step
    <2> USE DEF Fail, Decide, WriteTarget, WriteState, WriteJournal
    <2>1. CASE \/ Attempt \/ Persist \/ Stage \/ StageState
               \/ Revalidate \/ Quarantine \/ Clear \/ Place
        BY <2>1 DEF Attempt, Persist, Stage, StageState, Revalidate, Quarantine, Clear, Place
    <2>2. CASE InstallState \/ Verify \/ Reconcile \/ DropPending
        BY <2>2 DEF InstallState, Verify, Reconcile, DropPending
    <2>3. CASE Direct \/ RecoverTargets \/ Undo
        BY <2>3 DEF Direct, RecoverTargets, Undo
    <2>4. ASSUME NEW label, NEW end, RemoveResidue(label, end) PROVE UNCHANGED given
        BY <2>4 DEF RemoveResidue
    <2>5. QED
        BY <1>1, <2>1, <2>2, <2>3, <2>4 DEF Step
<1>2. QED
    BY <1>1 DEF Next, Crash, Tear, Dies, EditTarget, EditState, Adopt, Edits, Finished, vars, given

LEMMA PlanHolds == Spec => []PlanInv
<1>1. Init => PlanInv
    BY DEF Init, PlanInv
<1>2. PlanInv /\ [Next]_vars => PlanInv'
    BY GivenNeverChanges DEF PlanInv, given
<1>3. QED
    BY <1>1, <1>2, PTL DEF Spec

\* What is seen depends on the plan, the files and whether somebody has disturbed them.
LEMMA SeenStays ==
    ASSUME UNCHANGED <<given, disk, theirs>>
    PROVE  PromiseKept
<1>1. UNCHANGED <<target, state, journal, theirs>>
    BY DEF disk
<1>2. (Committed' <=> Committed) /\ StateText' = StateText /\ (Applied' <=> Applied)
    BY <1>1, GivenStays DEF Committed, StateText, Applied, Held, Decided
<1>3. Outcome' = Outcome
    BY <1>1, <1>2, GivenStays DEF Outcome, Held
<1>4. QED
    BY <1>3 DEF PromiseKept

LEMMA DisturbedStays ==
    ASSUME theirs \subseteq theirs', theirs' # {}
    PROVE  PromiseKept
<1>1. Outcome' = "disturbed"
    BY DEF Outcome
<1>2. QED
    BY <1>1 DEF PromiseKept, Promise!Next, Promise!Disturb

\* A step under a journal that does not take a decision back.
LEMMA KeepsGoing ==
    ASSUME UNCHANGED <<given, theirs>>, Surviving # {}, Surviving' # {},
           StateText = "new" => StateText' = "new",
           (\A j \in Surviving : j.phase \in Decided) => \A j \in Surviving' : j.phase \in Decided
    PROVE  PromiseKept
<1>1. Held(journal) # {None} /\ Held(journal)' # {None}
    BY DEF Surviving, Held
<1>2. /\ Committed <=> /\ StateText = "new"
                       /\ same => \A j \in Surviving : j.phase \in Decided
      /\ Committed' <=> /\ StateText' = "new"
                        /\ same' => \A j \in Surviving' : j.phase \in Decided
    BY DEF Committed, Surviving, Decided
<1>3. Committed => Committed'
    BY <1>2, GivenStays
<1>4. CASE theirs # {}
    BY <1>4, DisturbedStays
<1>5. CASE theirs = {}
    <2>1. /\ Outcome = IF Committed THEN "decided" ELSE "underway"
          /\ Outcome' = IF Committed' THEN "decided" ELSE "underway"
        BY <1>1, <1>5 DEF Outcome
    <2>2. QED
        BY <1>3, <2>1 DEF PromiseKept, Promise!Next, Promise!Settle
<1>6. QED
    BY <1>4, <1>5

\* A batch that no journal names has not begun, or is through.
AtRest ==
    theirs = {} /\ Held(journal) = {None} =>
        /\ Untouched => Outcome = "before"
        /\ Complete => Outcome = "after"

LEMMA SeenAtRest == BatchInv /\ PlanInv => AtRest
<1> SUFFICES ASSUME BatchInv, PlanInv, theirs = {}, Held(journal) = {None}
             PROVE  /\ Untouched => Outcome = "before"
                    /\ Complete => Outcome = "after"
    BY DEF AtRest
<1>1. Untouched => StateText = OldState /\ \A i \in Items : target[i].dst = Old(i)
    BY TypeFacts DEF Untouched, StateText, OldState
<1>2. ASSUME Complete
      PROVE  Applied /\ ~ (StateText = OldState /\ \A i \in Items : target[i].dst = Old(i))
    <2>1. Applied /\ StateText = "new"
        BY <1>2, TypeFacts DEF Complete, Applied, StateText
    <2>2. CASE ~ same
        BY <2>1, <2>2 DEF OldState
    <2>3. CASE same
        <3>1. PICK i \in Items : disp[i] = "install"
            BY <2>3 DEF PlanInv
        <3>2. Old(i) = None /\ New(i) = "new" /\ target[i].dst = New(i)
            BY <2>1, <3>1 DEF Old, New, Applied
        <3>3. QED
            BY <2>1, <3>2, TypeFacts
    <2>4. QED
        BY <2>2, <2>3
<1>3. QED
    BY <1>1, <1>2 DEF Outcome

\* The first record, or what a crash has left of it.
LEMMA SeenToBegin ==
    ASSUME BatchInv, PlanInv, Describes(First), journal = Settled(None),
           UNCHANGED <<given, target, state, theirs>>,
           Surviving' \subseteq {First}, Held(journal)' # {None}
    PROVE  PromiseKept
<1>1. CASE theirs # {}
    BY <1>1, DisturbedStays
<1>2. CASE theirs = {}
    <2>1. First.phase = "Preparing" /\ \A i \in Items : First.progress[i] = "Unstaged"
        BY DEF First
    <2>2. \A i \in Items : target[i].dst = Old(i)
        <3>1. \A i \in Items : Settled(Old(i)).dst = Old(i)
            BY DEF Settled
        <3>2. QED
            BY <1>2, <2>1, <3>1 DEF Describes, Fits
    <2>3. state.dst = OldState
        BY <1>2, <2>1 DEF Describes, StateFits, Decided
    <2>4. Outcome = "before"
        BY <1>2, <2>2, <2>3, SeenAtRest DEF AtRest, Untouched, Held, Settled
    <2>5. StateText = OldState /\ StateText' = StateText
        BY <2>3, TypeFacts DEF StateText, OldState
    <2>6. ~ Committed'
        <3>1. CASE ~ same
            BY <2>5, <3>1, GivenStays DEF Committed, OldState
        <3>2. CASE same
            <4>1. same' /\ \A j \in Surviving' : j.phase \notin Decided'
                BY <2>1, <3>2, GivenStays DEF Decided
            <4>2. QED
                BY <4>1 DEF Committed, Surviving
        <3>3. QED
            BY <3>1, <3>2
    <2>7. Outcome' = "underway"
        BY <1>2, <2>6 DEF Outcome
    <2>8. QED
        BY <2>4, <2>7 DEF PromiseKept, Promise!Next, Promise!Begin
<1>3. QED
    BY <1>1, <1>2

LEMMA FailSeen == ASSUME Fail PROVE PromiseKept
    BY SeenStays DEF Fail, Decide, history

\* A step that changes neither the journal nor the text of state.json.
LEMMA TargetSeen ==
    ASSUME UNCHANGED <<given, journal, theirs>>, Surviving # {}, StateText' = StateText
    PROVE  PromiseKept
<1>1. Surviving' = Surviving
    BY DEF Surviving, Held
<1>2. QED
    BY <1>1, KeepsGoing

\* A step that drops records from the journal, but not the last one.
LEMMA RecordsSeen ==
    ASSUME UNCHANGED <<given, state, theirs>>, Surviving' \subseteq Surviving, Surviving' # {}
    PROVE  PromiseKept
<1>1. StateText' = StateText
    BY DEF StateText
<1>2. QED
    BY <1>1, KeepsGoing

LEMMA PersistSeen ==
    ASSUME BatchInv, ForeignInv, AgreeInv, PlanInv, Persist
    PROVE  PromiseKept
<1>1. pc = "persist" /\ aim \in Journal /\ aim # None /\ aim # Torn
      /\ cursor \in Journal /\ cursor # None /\ cursor # Torn
    BY TypeFacts DEF Persist
<1>2. /\ Describes(aim)
      /\ IF busy THEN ~ Begins /\ journal \in Midway(cursor, aim)
         ELSE journal \in {Settled(Expected), Staged(Settled(Expected), aim)}
    BY <1>1 DEF AgreeInv, InStep
<1>3. ASSUME NEW f, WriteJournal(f)
      PROVE  /\ UNCHANGED <<given, target, state, theirs>>
             /\ Surviving' = Held(f) \ {None, Torn}
             /\ Held(journal)' = Held(f)
    BY <1>3 DEF WriteJournal, history, Surviving, Held
<1>4. CASE /\ Valid(aim) /\ (Begins \/ Leads(cursor, aim))
           /\ journal.stg = None /\ ~ busy
           /\ WriteJournal(Staged(journal, aim))
    <2>1. journal = Settled(Expected)
        <3>1. Staged(Settled(Expected), aim).stg = aim
            BY DEF Staged, Settled
        <3>2. QED
            BY <1>1, <1>2, <1>4, <3>1
    <2>2. Held(Staged(journal, aim)) = {Expected, aim, None}
        BY <2>1 DEF Staged, Settled, Held
    <2>3. /\ UNCHANGED <<given, target, state, theirs>>
          /\ Surviving' = {Expected, aim} \ {None, Torn}
          /\ Held(journal)' # {None}
        BY <1>1, <1>3, <1>4, <2>2
    <2>4. CASE Begins
        <3>1. journal = Settled(None) /\ aim = First /\ Surviving' \subseteq {First}
            BY <2>1, <2>3, <2>4 DEF Expected, Begins
        <3>2. QED
            BY <1>2, <2>3, <3>1, SeenToBegin
    <2>5. CASE ~ Begins
        <3>1. Surviving = {cursor} /\ Surviving' = {cursor, aim}
            BY <1>1, <2>1, <2>3, <2>5 DEF Expected, Surviving, Held, Settled
        <3>2. cursor.phase \in Decided => aim.phase \in Decided
            BY <1>4, <2>5 DEF Leads, PhaseSteps, Decided
        <3>3. StateText' = StateText
            BY <2>3 DEF StateText
        <3>4. QED
            BY <2>3, <3>1, <3>2, <3>3, KeepsGoing
    <2>6. QED
        BY <2>4, <2>5
<1> DEFINE f == Replaced(journal, aim, exchange)
<1>5. CASE WriteJournal(f) /\ (busy \/ journal.stg # None)
    <2>1. aim \in Held(f) /\ Held(f) \subseteq Held(journal)
        <3>1. Settled(Expected).stg = None
            BY DEF Settled
        <3>2. busy => Expected = cursor
            BY <1>2 DEF Expected
        <3>3. \/ journal = Staged(Settled(Expected), aim)
              \/ journal \in Midway(Expected, aim)
            BY <1>2, <1>5, <3>1, <3>2
        <3>4. QED
            BY <1>1, <3>3, FileReplaced
    <2> HIDE DEF f
    <2>2. Surviving' \subseteq Surviving /\ Surviving' # {}
        BY <1>1, <1>3, <1>5, <2>1 DEF Surviving
    <2>3. QED
        BY <1>3, <1>5, <2>2, RecordsSeen
<1>6. QED
    BY <1>4, <1>5, FailSeen DEF Persist, Begins

LEMMA TurnSeen ==
    ASSUME BatchInv, AgreeInv, Stage \/ StageState \/ Revalidate \/ Quarantine \/ Clear \/ Place
                               \/ Verify
    PROVE  PromiseKept
<1>1. Surviving # {}
    BY EffectFacts DEF Stage, StageState, Revalidate, Quarantine, Clear, Place, Verify, Effects
<1>2. CASE StageState
    <2>1. state'.dst = state.dst /\ state'.bak = state.bak /\ UNCHANGED <<given, journal, theirs>>
        BY <1>2, TypeFacts DEF StageState, WriteState, Staged, Files, history
    <2>2. QED
        BY <1>1, <2>1, TargetSeen DEF StateText
<1>3. CASE Revalidate \/ Verify
    BY <1>3, FailSeen, SeenStays DEF Revalidate, Verify, Decide, history
<1>4. CASE Stage \/ Quarantine \/ Clear \/ Place
    <2>1. CASE Fail
        BY <2>1, FailSeen
    <2>2. CASE ~ Fail
        <3>1. UNCHANGED <<given, state, journal, theirs>>
            BY <1>4, <2>2 DEF Stage, Quarantine, Clear, Place, WriteTarget, history
        <3>2. QED
            BY <1>1, <3>1, TargetSeen DEF StateText
    <2>3. QED
        BY <2>1, <2>2
<1>5. QED
    BY <1>2, <1>3, <1>4

LEMMA InstallSeen ==
    ASSUME BatchInv, ForeignInv, AgreeInv, InstallState
    PROVE  PromiseKept
<1>1. pc = "installState" /\ pc \in Effects
    BY DEF InstallState, Effects
<1>2. Surviving = {cursor}
    BY <1>1, EffectFacts
<1>3. CASE Fail
    BY <1>3, FailSeen
<1> DEFINE f == Replaced(state, "new", exchange)
<1>4. CASE (busy \/ Installable(state, OldState, "new")) /\ WriteState(f)
    <2>1. state' = f /\ UNCHANGED <<given, journal, theirs>> /\ Surviving' = Surviving
        BY <1>4 DEF WriteState, history, Surviving, Held
    <2>2. state \in Files(Text) /\ "old" # None /\ "new" # None
        BY TypeFacts
    <2>3. StateText = "new" => state.dst = "new"
        <3>1. CASE busy
            <4>1. state \in Midway("old", "new")
                BY <1>1, <3>1 DEF AgreeInv, StateReplaced
            <4>2. state.dst = "new" \/ (state.dst = None /\ state.bak = "old")
                BY <4>1 DEF Midway
            <4>3. QED
                BY <2>2, <4>2 DEF StateText
        <3>2. CASE ~ busy
            <4>1. state.bak = None
                BY <1>1, <3>2, EffectFacts DEF AgreeInv, StateReplaced
            <4>2. QED
                BY <1>4, <2>2, <3>2, <4>1 DEF Installable, StateText, OldState
        <3>3. QED
            BY <3>1, <3>2
    <2>4. state.dst = "new" => f.dst = "new"
        BY <2>2 DEF Replaced, BackupGone, StagingGone, Files
    <2> HIDE DEF f
    <2>5. StateText = "new" => StateText' = "new"
        BY <2>1, <2>2, <2>3, <2>4 DEF StateText
    <2>6. QED
        BY <1>2, <2>1, <2>5, KeepsGoing
<1>5. QED
    BY <1>3, <1>4 DEF InstallState

LEMMA ReconcileSeen ==
    ASSUME BatchInv, ForeignInv, AgreeInv, Reconcile \/ DropPending
    PROVE  PromiseKept
<1>1. journal \in Files(Records) /\ Torn \notin Journal /\ None \notin Journal /\ aim \in Journal
    BY TypeFacts
<1>2. ASSUME NEW f, WriteJournal(f), Held(f) \subseteq Held(journal) \cup {None},
             NEW j \in Journal, j \in Held(f)
      PROVE  PromiseKept
    <2>1. Surviving' = Held(f) \ {None, Torn} /\ UNCHANGED <<given, state, theirs>>
        BY <1>2 DEF WriteJournal, history, Surviving, Held
    <2>2. Surviving' \subseteq Surviving /\ Surviving' # {}
        BY <1>1, <1>2, <2>1 DEF Surviving
    <2>3. QED
        BY <2>1, <2>2, RecordsSeen
<1>3. CASE DropPending
    <2>1. journal.dst \in Journal
        BY <1>3 DEF DropPending, BatchInv, Routed
    <2>2. /\ Held(StagingGone(journal)) \subseteq Held(journal) \cup {None}
          /\ journal.dst \in Held(StagingGone(journal))
        BY <1>1 DEF StagingGone, Held, Files
    <2>3. QED
        BY <1>2, <1>3, <2>1, <2>2 DEF DropPending
<1>4. CASE Reconcile
    <2>1. pc = "reconcile" /\ aim \in Surviving
        BY <1>4 DEF Reconcile, AgreeInv, InStep
    <2>2. ~ busy => Verdict \notin {"invalid", "absent"} /\ aim = JournalSeen(journal, Verdict)
        BY <2>1 DEF BatchInv, Routed, AgreeInv, InStep
    <2>3. CASE busy \/ Verdict \in {"installFirst", "installNext"}
        <3> DEFINE f == Replaced(journal, aim, exchange)
        <3>1. PICK old : journal = Staged(Settled(old), aim) \/ journal \in Midway(old, aim)
            <4>1. CASE busy
                BY <2>1, <4>1 DEF AgreeInv, InStep
            <4>2. CASE ~ busy
                <5>1. journal.stg = aim /\ journal.bak = None
                    BY <2>2, <2>3, <4>2, VerdictShapes
                <5>2. journal = Staged(Settled(journal.dst), aim)
                    BY <1>1, <5>1 DEF Files, Staged, Settled
                <5>3. QED
                    BY <5>2
            <4>3. QED
                BY <4>1, <4>2
        <3>2. aim \in Held(f) /\ Held(f) \subseteq Held(journal)
            BY <1>1, <3>1, FileReplaced
        <3>3. WriteJournal(f)
            BY <1>4, <2>3 DEF Reconcile
        <3> HIDE DEF f
        <3>4. QED
            BY <1>1, <1>2, <3>2, <3>3
    <2>4. CASE ~ (busy \/ Verdict \in {"installFirst", "installNext"})
        <3>1. CASE Verdict = "restore"
            <4>1. journal.bak = aim /\ WriteJournal(Restored(journal))
                BY <1>4, <2>2, <2>4, <3>1, VerdictShapes DEF Reconcile
            <4>2. /\ Held(Restored(journal)) \subseteq Held(journal) \cup {None}
                  /\ aim \in Held(Restored(journal))
                BY <1>1, <4>1 DEF Restored, Held, Files
            <4>3. QED
                BY <1>1, <1>2, <4>1, <4>2
        <3>2. CASE Verdict = "dropBackup"
            <4>1. journal.dst = aim /\ WriteJournal(BackupGone(journal))
                BY <1>4, <2>2, <2>4, <3>2, VerdictShapes DEF Reconcile
            <4>2. /\ Held(BackupGone(journal)) \subseteq Held(journal) \cup {None}
                  /\ aim \in Held(BackupGone(journal))
                BY <1>1, <4>1 DEF BackupGone, Held, Files
            <4>3. QED
                BY <1>1, <1>2, <4>1, <4>2
        <3>3. CASE Verdict = "dropStaging"
            <4>1. journal.dst = aim /\ WriteJournal(StagingGone(journal))
                BY <1>4, <2>2, <2>4, <3>3, VerdictShapes DEF Reconcile
            <4>2. /\ Held(StagingGone(journal)) \subseteq Held(journal) \cup {None}
                  /\ aim \in Held(StagingGone(journal))
                BY <1>1, <4>1 DEF StagingGone, Held, Files
            <4>3. QED
                BY <1>1, <1>2, <4>1, <4>2
        <3>4. CASE Verdict \notin {"restore", "dropBackup", "dropStaging"}
            <4>1. Decide("direct")
                BY <1>4, <2>4, <3>4 DEF Reconcile
            <4>2. QED
                BY <4>1, SeenStays DEF Decide, history
        <3>5. QED
            BY <3>1, <3>2, <3>3, <3>4
    <2>5. QED
        BY <2>3, <2>4
<1>5. QED
    BY <1>3, <1>4

LEMMA RecoverySeen ==
    ASSUME BatchInv, ForeignInv, AgreeInv, Attempt \/ Direct \/ RecoverTargets \/ Undo
    PROVE  PromiseKept
<1>1. CASE UNCHANGED <<given, disk, theirs>>
    BY <1>1, SeenStays
<1>2. CASE \E i, f : WriteTarget(i, f) /\ pc \in {"undo", "recoverTargets"}
    <2>1. Surviving # {}
        BY <1>2, TypeFacts DEF AgreeInv, InStep, Surviving, Held, Settled
    <2>2. UNCHANGED <<given, journal, state, theirs>>
        BY <1>2 DEF WriteTarget, history
    <2>3. QED
        BY <2>1, <2>2, TargetSeen DEF StateText
<1>3. CASE Attempt \/ Direct
    <2>1. UNCHANGED <<given, disk, theirs>>
        BY <1>3 DEF Attempt, Direct, Decide, history
    <2>2. QED
        BY <1>1, <2>1
<1>4. CASE RecoverTargets
    <2>1. \/ UNCHANGED <<given, disk, history>>
          \/ \E i, f : WriteTarget(i, f) /\ pc = "recoverTargets"
        BY <1>4 DEF RecoverTargets, Fail, Decide
    <2>2. QED
        BY <1>1, <1>2, <2>1 DEF history
<1>5. CASE Undo
    <2>1. CASE Open(cursor) = {}
        BY <1>1, <1>5, <2>1 DEF Undo, history
    <2>2. CASE Open(cursor) # {}
        <3>1. pc = "undo"
            BY <1>5 DEF Undo
        <3>2. Fail \/ UNCHANGED <<given, disk, history>> \/ \E i, f : WriteTarget(i, f)
            BY <1>5, <2>2, UndoTurns, TypeFacts
        <3>3. QED
            BY <1>1, <1>2, <3>1, <3>2, FailSeen DEF history
    <2>3. QED
        BY <2>1, <2>2
<1>6. QED
    BY <1>3, <1>4, <1>5

LEMMA ResidueSeen ==
    ASSUME BatchInv, ForeignInv, AgreeInv, AtRest',
           NEW label \in {"clean", "tidy"}, NEW end, RemoveResidue(label, end)
    PROVE  PromiseKept
<1>1. /\ journal \in {Settled(cursor), Settled(None)}
      /\ cursor.phase = IF mode = "rollback" THEN "RolledBack" ELSE "Verified"
      /\ cursor \in Journal /\ cursor # None /\ cursor # Torn /\ Valid(cursor)
    BY TypeFacts DEF RemoveResidue, AgreeInv, InStep
<1>2. CASE Fail
    BY <1>2, FailSeen
<1>3. CASE journal = Settled(None)
    <2>1. Held(journal) = {None} /\ journal.dst = None
        BY <1>3 DEF Settled, Held
    <2>2. state.stg = None /\ \A k \in Items : target[k].stg = None /\ target[k].bak = None
        BY <2>1 DEF AgreeInv, ResidueJournaled
    <2>3. WriteJournal(StagingGone(journal))
        BY <2>1, <2>2 DEF RemoveResidue
    <2>4. StagingGone(journal) = journal
        BY <1>3 DEF StagingGone, Settled
    <2>5. QED
        BY <2>3, <2>4, SeenStays DEF WriteJournal, disk, history
<1>4. CASE journal = Settled(cursor)
    <2>1. Surviving = {cursor} /\ Describes(cursor) /\ journal.dst # None
        BY <1>1, <1>4 DEF Surviving, Held, Settled, AgreeInv, Recorded
    <2>2. CASE \E i, g : WriteTarget(i, g)
        BY <2>1, <2>2, TargetSeen DEF WriteTarget, history, StateText
    <2>3. CASE WriteState(StagingGone(state))
        <3>1. /\ state'.dst = state.dst /\ state'.bak = state.bak
              /\ UNCHANGED <<given, journal, theirs>>
            BY <2>3, TypeFacts DEF WriteState, StagingGone, Files, history
        <3>2. QED
            BY <2>1, <3>1, TargetSeen DEF StateText
    <2>4. CASE WriteJournal([journal EXCEPT !.dst = None])
        <3>1. [journal EXCEPT !.dst = None] = Settled(None)
            BY <1>4 DEF Settled
        <3>2. journal' = Settled(None) /\ UNCHANGED <<given, target, state, theirs>>
            BY <2>4, <3>1 DEF WriteJournal, history
        <3>3. Held(journal)' = {None} /\ Held(journal) # {None}
            BY <1>1, <1>4, <3>2 DEF Held, Settled
        <3>4. CASE theirs # {}
            BY <3>2, <3>4, DisturbedStays
        <3>5. CASE theirs = {}
            <4>1. \A k \in Items :
                     target[k].dst = IF cursor.phase = "Verified" THEN New(k) ELSE Old(k)
                <5>1. \A k \in Items : Fits(cursor, k, target[k])
                    BY <2>1, <3>5 DEF Describes
                <5>2. QED
                    BY <1>1, <5>1, ResidueFits, TypeFacts
            <4>2. state.dst = IF cursor.phase = "Verified" THEN "new" ELSE OldState
                BY <1>1, <2>1, <3>5 DEF Describes, StateFits, Decided
            <4>3. StateText = state.dst
                BY <4>2, TypeFacts DEF StateText, OldState
            <4>4. Committed <=> /\ StateText = "new"
                                /\ same => cursor.phase \in Decided
                BY <2>1 DEF Committed, Surviving
            <4>5. theirs' = {}
                BY <3>2, <3>5
            <4>6. CASE cursor.phase = "Verified"
                <5>1. Outcome = "decided"
                    BY <3>3, <3>5, <4>2, <4>3, <4>4, <4>6 DEF Outcome, Decided
                <5>2. Complete'
                    BY <3>2, <4>1, <4>2, <4>6, GivenStays DEF Complete
                <5>3. Outcome' = "after"
                    BY <3>3, <4>5, <5>2 DEF AtRest
                <5>4. QED
                    BY <5>1, <5>3 DEF PromiseKept, Promise!Next, Promise!Finish
            <4>7. CASE cursor.phase = "RolledBack"
                <5>1. ~ Committed
                    BY <4>2, <4>3, <4>4, <4>7 DEF Decided, OldState
                <5>2. Outcome = "underway"
                    BY <3>3, <3>5, <5>1 DEF Outcome
                <5>3. Untouched'
                    BY <3>2, <4>1, <4>2, <4>7, GivenStays DEF Untouched
                <5>4. Outcome' = "before"
                    BY <3>3, <4>5, <5>3 DEF AtRest
                <5>5. QED
                    BY <5>2, <5>4 DEF PromiseKept, Promise!Next, Promise!Undo
            <4>8. QED
                BY <1>1, <4>6, <4>7
        <3>6. QED
            BY <3>4, <3>5
    <2>5. QED
        BY <1>2, <2>1, <2>2, <2>3, <2>4 DEF RemoveResidue
<1>5. QED
    BY <1>1, <1>3, <1>4

LEMMA TearSeen ==
    ASSUME BatchInv, AgreeInv, PlanInv, Tear
    PROVE  PromiseKept
<1>1. UNCHANGED <<given, theirs>>
    BY DEF Tear, Dies
<1>2. CASE pc = "stage" /\ UNCHANGED <<state, journal>>
    BY <1>1, <1>2, EffectFacts, TargetSeen DEF Effects, StateText
<1>3. CASE pc = "stageState" /\ state' = Staged(state, Torn) /\ UNCHANGED <<target, journal>>
    <2>1. StateText' = StateText
        BY <1>3, TypeFacts DEF StateText, Staged, Files
    <2>2. QED
        BY <1>1, <1>3, <2>1, EffectFacts, TargetSeen DEF Effects
<1>4. CASE /\ pc = "persist" /\ journal.stg = None /\ ~ busy
           /\ journal' = Staged(journal, Torn) /\ UNCHANGED <<target, state>>
    <2>1. journal \in Files(Records) /\ Torn # None /\ aim # None /\ cursor # None /\ cursor # Torn
        BY TypeFacts
    <2>2. Surviving' = Surviving /\ Held(journal)' # {None}
        BY <1>4, <2>1 DEF Surviving, Held, Staged, Files
    <2>3. journal = Settled(Expected)
        <3>1. Staged(Settled(Expected), aim).stg = aim
            BY DEF Staged, Settled
        <3>2. QED
            BY <1>4, <2>1, <3>1 DEF AgreeInv, InStep
    <2>4. CASE Begins
        <3>1. journal = Settled(None) /\ Describes(First)
            BY <1>4, <2>3, <2>4 DEF Expected, Begins, AgreeInv, InStep
        <3>2. Surviving' \subseteq {First}
            BY <2>2, <3>1 DEF Surviving, Held, Settled
        <3>3. QED
            BY <1>1, <1>4, <2>2, <3>1, <3>2, SeenToBegin
    <2>5. CASE ~ Begins
        <3>1. Surviving # {}
            BY <2>1, <2>3, <2>5 DEF Expected, Surviving, Held, Settled
        <3>2. QED
            BY <1>1, <1>4, <2>2, <3>1, RecordsSeen
    <2>6. QED
        BY <2>4, <2>5
<1>5. QED
    BY <1>2, <1>3, <1>4 DEF Tear

LEMMA StepSeen ==
    ASSUME BatchInv, ForeignInv, AgreeInv, PlanInv, AtRest', [Next]_vars
    PROVE  PromiseKept
<1>1. CASE Step
    <2>1. CASE RemoveResidue("clean", "done")
        BY <2>1, ResidueSeen
    <2>2. CASE RemoveResidue("tidy", IF mode = "forward" THEN "done" ELSE "idle")
        BY <2>2, ResidueSeen
    <2>3. CASE Stage \/ StageState \/ Revalidate \/ Quarantine \/ Clear \/ Place \/ Verify
        BY <2>3, TurnSeen
    <2>4. CASE Attempt \/ Direct \/ RecoverTargets \/ Undo
        BY <2>4, RecoverySeen
    <2>5. CASE Reconcile \/ DropPending
        BY <2>5, ReconcileSeen
    <2>6. QED
        BY <1>1, <2>1, <2>2, <2>3, <2>4, <2>5, PersistSeen, InstallSeen DEF Step
<1>2. CASE Crash \/ Adopt \/ UNCHANGED vars
    BY <1>2, SeenStays DEF Crash, Dies, Adopt, Edits, disk, given, vars
<1>3. CASE EditState \/ \E i \in Items : EditTarget(i)
    BY <1>3, DisturbedStays DEF EditState, EditTarget
<1>4. QED
    BY <1>1, <1>2, <1>3, TearSeen DEF Next, Finished

(***************************************************************************)
(* The batch implements AtomicBatch: to whoever looks at targets and       *)
(* state.json nothing of it has happened, or all of it has, or a journal   *)
(* says that it is under way; once state.json is committed it is carried   *)
(* through, and never taken back, whatever crashes and attempts follow.    *)
(***************************************************************************)
THEOREM BatchIsAtomic == Spec => AllOrNothing
<1>1. Init => Promise!Init
    <2> SUFFICES ASSUME Init PROVE Outcome = "before"
        BY DEF Promise!Init
    <2>1. Held(journal) = {None} /\ theirs = {} /\ StateText = OldState
        BY BatchAssumption DEF Init, Settled, Held, StateText, OldState, Text
    <2>2. \A i \in Items : target[i].dst = Old(i)
        BY DEF Init, Settled
    <2>3. QED
        BY <2>1, <2>2 DEF Outcome
<1>2. BatchInv /\ ForeignInv /\ AgreeInv /\ PlanInv /\ AtRest' /\ [Next]_vars
      => [Promise!Next]_Outcome
    BY StepSeen DEF PromiseKept
<1>3. BatchInv /\ PlanInv => AtRest
    BY SeenAtRest
<1>4. QED
    BY <1>1, <1>2, <1>3, AgreeHolds, PlanHolds, PTL DEF Spec, AllOrNothing, Promise!Spec
=============================================================================
