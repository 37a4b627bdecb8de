------------------------- MODULE BasePointer_proofs -------------------------
(***************************************************************************)
(* Theorems about BasePointer, for every set of texts, every number of     *)
(* edits and crashes, and both kinds of replacement.                       *)
(***************************************************************************)
EXTENDS BasePointer, TLAPS

(***************************************************************************)
(* Lemmas about the mutations of a guarded control file.                   *)
(***************************************************************************)

\* Every mutation of the three files takes three files to three files.
LEMMA MutationsTyped ==
    ASSUME NEW T, NEW f \in Files(T), NEW t \in T
    PROVE  /\ Exchanged(f) \in Files(T)
           /\ Parked(f) \in Files(T)
           /\ Placed(f) \in Files(T)
           /\ Restored(f) \in Files(T)
           /\ StagingGone(f) \in Files(T)
           /\ BackupGone(f) \in Files(T)
           /\ Staged(f, t) \in Files(T)
    BY DEF Files, Exchanged, Parked, Placed, Restored, StagingGone, BackupGone, Staged

\* Reconciling, whatever the verdict, keeps the files typed.
LEMMA ReconciledTyped ==
    ASSUME NEW T, NEW f \in Files(T), NEW v
    PROVE  Reconciled(f, v) \in Files(T)
    BY DEF Files, Reconciled, Restored, BackupGone, StagingGone

\* What a mutation no longer holds it had as the text it was called to drop,
\* or it was the absent file that a move replaced.
LEMMA MutationsHold ==
    ASSUME NEW T, NEW f \in Files(T), NEW x \in Held(f), x # None
    PROVE  /\ x \in Held(Exchanged(f))
           /\ f.bak = None => x \in Held(Parked(f))
           /\ f.dst = None => x \in Held(Placed(f))
           /\ f.dst = None => x \in Held(Restored(f))
           /\ x # f.stg => x \in Held(StagingGone(f))
           /\ x # f.bak => x \in Held(BackupGone(f))
           /\ \A t : x # f.stg => x \in Held(Staged(f, t))
    BY DEF Files, Held, Exchanged, Parked, Placed, Restored, StagingGone, BackupGone, Staged

\* A reconciliation drops only copies of the planned old and new texts.
LEMMA ReconciledHolds ==
    ASSUME NEW T, NEW f \in Files(T), NEW old, NEW new,
           NEW x \in Held(f), x \notin {None, old, new}
    PROVE  LET v == Classify(f, old, new, TRUE)
           IN  x \in Held(Reconciled(f, v))
    BY DEF Files, Held, Classify, Reconciled, Restored, BackupGone, StagingGone

-----------------------------------------------------------------------------
Crashes == Crash \/ TearGeneration \/ TearPointer

\* What a crash does: nothing, or it cuts short the staging it falls into.
LEMMA CrashLeaves ==
    ASSUME Crashes
    PROVE  /\ pc' = "down" /\ crashes < MaxCrashes /\ crashes' = crashes + 1
           /\ exchange' = exchange /\ theirs' = theirs /\ edits' = edits
           /\ \/ file' = file
              \/ pc = "stage" /\ file.stg = None /\ file' = Staged(file, Torn)
           /\ generation' = generation \/ (generation = "absent" /\ generation' = "torn")
    BY DEF Crashes, Crash, TearGeneration, TearPointer, Dies, Go

\* The initial state is typed.
LEMMA TypeInit == Init => TypeOK
<1> USE PointerAssumption
<1> SUFFICES ASSUME Init PROVE TypeOK
    OBVIOUS
<1>1. file \in Files(Text \cup {Torn})
    BY DEF Init, Files, Settled
<1>2. edits \in 0 .. MaxEdits /\ crashes \in 0 .. MaxCrashes
    BY DEF Init
<1>3. theirs \subseteq Foreign
    BY DEF Init
<1>4. /\ exchange \in BOOLEAN /\ generation \in Generation
      /\ pc \in Steps \cup {"down", "done"}
    BY DEF Init, Steps, Generation
<1>5. QED
    BY <1>1, <1>2, <1>3, <1>4 DEF TypeOK

(***************************************************************************)
(* The types, restated for the prover: a step leaves every variable typed. *)
(***************************************************************************)
LEMMA TypeStep == TypeOK /\ [Next]_vars => TypeOK'
<1> USE PointerAssumption
<1> SUFFICES ASSUME TypeOK, [Next]_vars PROVE TypeOK'
    OBVIOUS
<1>0. file \in Files(Text \cup {Torn}) /\ New \in Text
    BY DEF TypeOK
<1>1. ASSUME NEW f \in Files(Text \cup {Torn}), NEW l \in Steps \cup {"down", "done"},
             Mutate(f, l)
      PROVE  TypeOK'
    BY <1>1 DEF Mutate, Go, TypeOK
<1>2. ASSUME NEW l \in Steps \cup {"down", "done"}, Decide(l)
      PROVE  TypeOK'
    BY <1>2 DEF Decide, Go, TypeOK
<1>3. CASE Reconcile
    BY <1>0, <1>1, <1>2, <1>3, ReconciledTyped DEF Reconcile, Refuse, Steps
<1>4. CASE Restore
    BY <1>0, <1>1, <1>2, <1>4, MutationsTyped DEF Restore, Refuse, Steps
<1>5. CASE Displaced
    BY <1>0, <1>1, <1>5, MutationsTyped DEF Displaced, Steps
<1>6. CASE Inspect
    BY <1>2, <1>6 DEF Inspect, Refuse, Steps
<1>7. CASE StageGeneration \/ InstallGeneration
    BY <1>2, <1>7
       DEF StageGeneration, InstallGeneration, Generate, Refuse, Go, TypeOK, Steps, Generation
<1>8. CASE Stage
    BY <1>0, <1>1, <1>2, <1>8, MutationsTyped DEF Stage, Refuse, Steps
<1>9. CASE Enter
    BY <1>2, <1>9 DEF Enter, Refuse, Steps
<1>10. CASE Swap
    BY <1>0, <1>1, <1>2, <1>10, MutationsTyped DEF Swap, Refuse, Steps
<1>11. CASE Swapped
    BY <1>2, <1>11 DEF Swapped, Refuse, Steps
<1>12. CASE Undo
    BY <1>0, <1>1, <1>12, MutationsTyped DEF Undo, Steps
<1>13. CASE Drop
    BY <1>0, <1>1, <1>13, MutationsTyped DEF Drop
<1>14. CASE Park
    BY <1>0, <1>1, <1>2, <1>14, MutationsTyped DEF Park, Refuse, Steps
<1>15. CASE CheckParked
    BY <1>2, <1>15 DEF CheckParked, Steps
<1>16. CASE Unpark
    BY <1>0, <1>1, <1>16, MutationsTyped DEF Unpark, Steps
<1>17. CASE Place
    BY <1>0, <1>1, <1>2, <1>17, MutationsTyped DEF Place, Refuse, Steps
<1>18. CASE CheckPlaced
    BY <1>2, <1>18 DEF CheckPlaced, Refuse, Steps
<1>19. CASE Clear
    BY <1>0, <1>1, <1>19, MutationsTyped DEF Clear
<1>21. CASE Crashes
    <2>1. Staged(file, Torn) \in Files(Text \cup {Torn})
        BY <1>0, MutationsTyped
    <2>2. file' \in Files(Text \cup {Torn}) /\ generation' \in Generation
        BY <1>0, <1>21, <2>1, CrashLeaves DEF TypeOK, Generation
    <2>3. QED
        BY <1>21, <2>2, CrashLeaves DEF TypeOK
<1>22. CASE Restart
    BY <1>2, <1>22 DEF Restart, Steps
<1>23. ASSUME NEW t \in Text, Edit(t) PROVE TypeOK'
    BY <1>23 DEF Edit, TypeOK, Files, Foreign
<1>24. CASE UNCHANGED vars
    BY <1>24 DEF vars, TypeOK
<1>25. QED
    BY <1>3, <1>4, <1>5, <1>6, <1>7, <1>8, <1>9, <1>10, <1>11, <1>12, <1>13, <1>14,
       <1>15, <1>16, <1>17, <1>18, <1>19, <1>21, <1>22, <1>23, <1>24
       DEF Next, Step, Crashes, Finished

(***************************************************************************)
(* Type correctness of the pointer replacement and its recovery.           *)
(***************************************************************************)
THEOREM TypeCorrect == Spec => []TypeOK
    BY TypeInit, TypeStep, PTL DEF Spec

-----------------------------------------------------------------------------
(***************************************************************************)
(* ForeignKept is not inductive: a process that is about to remove the     *)
(* staging file or the backup relies on what it read there earlier.  Only  *)
(* the process writes these two files, so what it read stays true.         *)
(***************************************************************************)
KnownStaging == pc \in {"displaced", "drop"} => file.stg \notin Foreign

KnownBackup == pc \in {"place", "placed", "clear"} => file.bak \notin Foreign

KeptInv == TypeOK /\ ForeignKept /\ KnownStaging /\ KnownBackup

LEMMA KeptStep == KeptInv /\ [Next]_vars => KeptInv'
<1> USE PointerAssumption
<1> SUFFICES ASSUME KeptInv, [Next]_vars PROVE KeptInv'
    OBVIOUS
<1>1. TypeOK'
    BY TypeStep DEF KeptInv
<1>2. /\ file \in Files(Text \cup {Torn}) /\ theirs \subseteq Foreign
      /\ theirs \subseteq Held(file)
      /\ None \notin Foreign /\ Prior \notin Foreign /\ New \notin Foreign
    BY DEF KeptInv, TypeOK, ForeignKept, Foreign
<1> DEFINE Kept(f) == \A x \in theirs : x \in Held(f)
<1>3. ASSUME NEW f, NEW l, Mutate(f, l), Kept(f)
      PROVE  ForeignKept'
    BY <1>3 DEF Mutate, ForeignKept
<1>4. ASSUME NEW l, Decide(l) PROVE ForeignKept'
    BY <1>2, <1>4 DEF Decide, ForeignKept
<1>5. /\ Kept(Exchanged(file))
      /\ file.bak = None => Kept(Parked(file))
      /\ file.dst = None => Kept(Placed(file)) /\ Kept(Restored(file))
      /\ file.stg \notin Foreign => Kept(StagingGone(file)) /\ Kept(Staged(file, New))
      /\ file.bak \notin Foreign => Kept(BackupGone(file))
    BY <1>2, MutationsHold
<1>6. Kept(Reconciled(file, Classify(file, Prior, New, TRUE)))
    BY <1>2, ReconciledHolds
<1>7. CASE Reconcile
    <2>1. ForeignKept'
        BY <1>3, <1>4, <1>6, <1>7 DEF Reconcile, Refuse
    <2>2. KnownStaging' /\ KnownBackup'
        BY <1>2, <1>7 DEF Reconcile, Refuse, Decide, Mutate, Go, KnownStaging, KnownBackup,
                         Foreign
    <2>3. QED
        BY <1>1, <2>1, <2>2 DEF KeptInv
<1>8. CASE Restore
    <2>1. ForeignKept'
        BY <1>3, <1>4, <1>5, <1>8 DEF Restore, Refuse
    <2>2. QED
        BY <1>1, <1>8, <2>1
           DEF Restore, Refuse, Decide, Mutate, Go, KnownStaging, KnownBackup, KeptInv
<1>9. CASE Displaced
    <2>1. ForeignKept'
        BY <1>3, <1>5, <1>9 DEF Displaced, KeptInv, KnownStaging
    <2>2. QED
        BY <1>1, <1>9, <2>1 DEF Displaced, Mutate, Go, KnownStaging, KnownBackup, KeptInv
<1>10. CASE Inspect
    <2>1. ForeignKept'
        BY <1>4, <1>10 DEF Inspect, Refuse
    <2>2. QED
        BY <1>1, <1>10, <2>1
           DEF Inspect, Refuse, Decide, Go, KnownStaging, KnownBackup, KeptInv
<1>11. CASE StageGeneration \/ InstallGeneration
    BY <1>1, <1>11
       DEF StageGeneration, InstallGeneration, Generate, Refuse, Decide, Go, ForeignKept,
           KnownStaging, KnownBackup, KeptInv
<1>12. CASE Stage
    <2>1. file.stg \in {None, New} => file.stg \notin Foreign
        BY <1>2
    <2>2. ForeignKept'
        BY <1>3, <1>4, <1>5, <1>12, <2>1 DEF Stage, StageAccepts, Refuse
    <2>3. QED
        BY <1>1, <1>12, <2>2
           DEF Stage, Refuse, Decide, Mutate, Go, KnownStaging, KnownBackup, KeptInv
<1>13. CASE Enter
    <2>1. ForeignKept'
        BY <1>4, <1>13 DEF Enter, Refuse
    <2>2. KnownStaging'
        BY <1>2, <1>13 DEF Enter, Refuse, Decide, Go, KnownStaging, Foreign
    <2>3. KnownBackup'
        BY <1>2, <1>13 DEF Enter, Refuse, Decide, Go, KnownBackup, Foreign
    <2>4. QED
        BY <1>1, <2>1, <2>2, <2>3 DEF KeptInv
<1>14. CASE Swap
    <2>1. ForeignKept'
        BY <1>3, <1>4, <1>5, <1>14 DEF Swap, Refuse
    <2>2. QED
        BY <1>1, <1>14, <2>1
           DEF Swap, Refuse, Decide, Mutate, Go, KnownStaging, KnownBackup, KeptInv
<1>15. CASE Swapped
    <2>1. ForeignKept'
        BY <1>4, <1>15 DEF Swapped, Refuse
    <2>2. QED
        BY <1>1, <1>2, <1>15, <2>1
           DEF Swapped, Refuse, Decide, Go, KnownStaging, KnownBackup, KeptInv, Foreign
<1>16. CASE Undo
    <2>1. Kept(file)
        BY <1>2
    <2>2. ForeignKept'
        BY <1>3, <1>5, <1>16, <2>1 DEF Undo
    <2>3. QED
        BY <1>1, <1>16, <2>2 DEF Undo, Mutate, Go, KnownStaging, KnownBackup, KeptInv
<1>17. CASE Drop
    <2>1. ForeignKept'
        BY <1>3, <1>5, <1>17 DEF Drop, KeptInv, KnownStaging
    <2>2. QED
        BY <1>1, <1>17, <2>1 DEF Drop, Mutate, Go, KnownStaging, KnownBackup, KeptInv
<1>18. CASE Park
    <2>1. ForeignKept'
        BY <1>3, <1>4, <1>5, <1>18 DEF Park, Refuse
    <2>2. QED
        BY <1>1, <1>18, <2>1
           DEF Park, Refuse, Decide, Mutate, Go, KnownStaging, KnownBackup, KeptInv
<1>19. CASE CheckParked
    <2>1. ForeignKept'
        BY <1>4, <1>19 DEF CheckParked
    <2>2. QED
        BY <1>1, <1>2, <1>19, <2>1
           DEF CheckParked, Decide, Go, KnownStaging, KnownBackup, KeptInv
<1>20. CASE Unpark
    <2>1. Kept(file)
        BY <1>2
    <2>2. ForeignKept'
        BY <1>3, <1>5, <1>20, <2>1 DEF Unpark
    <2>3. QED
        BY <1>1, <1>20, <2>2 DEF Unpark, Mutate, Go, KnownStaging, KnownBackup, KeptInv
<1>21. CASE Place
    <2>1. ForeignKept'
        BY <1>3, <1>4, <1>5, <1>21 DEF Place, Refuse
    <2>2. Placed(file).bak = file.bak
        BY <1>2 DEF Placed, Files
    <2>3. QED
        BY <1>1, <1>21, <2>1, <2>2
           DEF Place, Refuse, Decide, Mutate, Go, KnownStaging, KnownBackup, KeptInv
<1>22. CASE CheckPlaced
    <2>1. ForeignKept'
        BY <1>4, <1>22 DEF CheckPlaced, Refuse
    <2>2. QED
        BY <1>1, <1>22, <2>1
           DEF CheckPlaced, Refuse, Decide, Go, KnownStaging, KnownBackup, KeptInv
<1>23. CASE Clear
    <2>1. ForeignKept'
        BY <1>3, <1>5, <1>23 DEF Clear, KeptInv, KnownBackup
    <2>2. QED
        BY <1>1, <1>23, <2>1 DEF Clear, Mutate, Go, KnownStaging, KnownBackup, KeptInv
<1>25. CASE Crashes
    <2>1. file.stg = None => Kept(Staged(file, Torn))
        BY <1>2, MutationsHold
    <2>2. ForeignKept'
        BY <1>2, <1>25, <2>1, CrashLeaves DEF ForeignKept
    <2>3. QED
        BY <1>1, <1>25, <2>2, CrashLeaves DEF KnownStaging, KnownBackup, KeptInv
<1>26. CASE Restart
    BY <1>1, <1>26 DEF Restart, Decide, Go, ForeignKept, KnownStaging, KnownBackup, KeptInv
<1>27. ASSUME NEW t \in Text, Edit(t) PROVE KeptInv'
    <2>1. /\ file'.dst = t /\ file'.stg = file.stg /\ file'.bak = file.bak
          /\ theirs' = (theirs \ {file.dst}) \cup ({t} \cap Foreign)
          /\ pc' = pc
        BY <1>2, <1>27 DEF Edit, Files
    <2>2. ForeignKept'
        BY <1>2, <2>1 DEF ForeignKept, Held
    <2>3. QED
        BY <1>1, <2>1, <2>2 DEF KeptInv, KnownStaging, KnownBackup
<1>28. CASE UNCHANGED vars
    BY <1>1, <1>28 DEF vars, ForeignKept, KnownStaging, KnownBackup, KeptInv
<1>29. QED
    BY <1>7, <1>8, <1>9, <1>10, <1>11, <1>12, <1>13, <1>14, <1>15, <1>16, <1>17, <1>18,
       <1>19, <1>20, <1>21, <1>22, <1>23, <1>25, <1>26, <1>27, <1>28
       DEF Next, Step, Crashes, Finished

(***************************************************************************)
(* Foreign bytes survive the replacement and its recovery: with atomic     *)
(* exchange or without, for any number of edits and crashes.               *)
(***************************************************************************)
THEOREM ForeignBytesKept == Spec => []ForeignKept
<1>1. Init => KeptInv
    <2>1. Init => TypeOK
        BY TypeInit
    <2>2. QED
        BY <2>1 DEF Init, KeptInv, ForeignKept, KnownStaging, KnownBackup, Held, Settled
<1>2. KeptInv => ForeignKept
    BY DEF KeptInv
<1>3. QED
    BY <1>1, <1>2, KeptStep, PTL DEF Spec

-----------------------------------------------------------------------------
(***************************************************************************)
(* With an atomic exchange the parking path is never entered, and what is  *)
(* exchanged into the live name is a file that exists.                     *)
(***************************************************************************)
Parking == {"restore", "park", "parked", "unpark", "place", "placed", "clear"}

PresentInv ==
    /\ TypeOK
    /\ exchange /\ Prior # None =>
         /\ file.dst # None /\ file.bak = None
         /\ pc \notin Parking
         /\ pc \in {"enter", "swap", "swapped", "undo"} => file.stg # None

(***************************************************************************)
(* The kind of replacement is the platform's and never changes.            *)
(***************************************************************************)
LEMMA ExchangeFixed == [Next]_vars => exchange' = exchange
<1> SUFFICES ASSUME [Next]_vars PROVE exchange' = exchange
    OBVIOUS
<1>1. CASE Reconcile \/ Restore \/ Displaced \/ Inspect \/ StageGeneration
            \/ InstallGeneration \/ Stage
    BY <1>1 DEF Reconcile, Restore, Displaced, Inspect, StageGeneration, InstallGeneration,
                Stage, Refuse, Decide, Mutate, Generate
<1>2. CASE Enter \/ Swap \/ Swapped \/ Undo \/ Drop
    BY <1>2 DEF Enter, Swap, Swapped, Undo, Drop, Refuse, Decide, Mutate
<1>3. CASE Park \/ CheckParked \/ Unpark \/ Place \/ CheckPlaced \/ Clear
    BY <1>3 DEF Park, CheckParked, Unpark, Place, CheckPlaced, Clear, Refuse, Decide, Mutate
<1>4. CASE Crashes \/ Restart \/ Finished \/ (\E t \in Text : Edit(t)) \/ UNCHANGED vars
    BY <1>4, CrashLeaves DEF Restart, Finished, Edit, Decide, vars
<1>5. QED
    BY <1>1, <1>2, <1>3, <1>4 DEF Next, Step, Crashes

LEMMA PresentStep == PresentInv /\ [Next]_vars => PresentInv'
<1> USE PointerAssumption
<1>0. [Next]_vars => exchange' = exchange
    BY ExchangeFixed
<1> SUFFICES ASSUME PresentInv, [Next]_vars, exchange, Prior # None
             PROVE  /\ file'.dst # None /\ file'.bak = None
                    /\ pc' \notin Parking
                    /\ pc' \in {"enter", "swap", "swapped", "undo"} => file'.stg # None
    BY <1>0, TypeStep DEF PresentInv
<1>1. /\ file \in Files(Text \cup {Torn}) /\ file.dst # None /\ file.bak = None
      /\ pc \notin Parking
      /\ pc \in {"enter", "swap", "swapped", "undo"} => file.stg # None
      /\ New # None
    BY DEF PresentInv, TypeOK
<1>2. Reconciled(file, Classify(file, Prior, New, TRUE)) \in {file, StagingGone(file)}
    BY <1>1 DEF Reconciled, Classify
<1>3. CASE Reconcile
    <2>1. Classify(file, Prior, New, TRUE) # "restoreBackup"
        BY <1>1 DEF Classify
    <2>2. file' \in {file, StagingGone(file)} /\ pc' \in {"inspect", "down", "displaced"}
        BY <1>2, <1>3, <2>1 DEF Reconcile, Refuse, Decide, Mutate, Go
    <2>3. QED
        BY <1>1, <2>2 DEF StagingGone, Files, Parking
<1>4. CASE Displaced \/ Drop
    BY <1>1, <1>4 DEF Displaced, Drop, Mutate, Go, StagingGone, Files, Parking
<1>5. CASE Inspect \/ StageGeneration \/ InstallGeneration \/ Restart
    BY <1>1, <1>5 DEF Inspect, StageGeneration, InstallGeneration, Generate, Restart, Refuse,
                      Decide, Go, Parking
<1>6. CASE Stage
    BY <1>1, <1>6 DEF Stage, Refuse, Decide, Mutate, Go, Staged, Files, Parking
<1>7. CASE Enter
    BY <1>1, <1>7 DEF Enter, Refuse, Decide, Go, Parking
<1>8. CASE Swap \/ Undo
    BY <1>1, <1>8 DEF Swap, Undo, Refuse, Decide, Mutate, Go, Exchanged, Files, Parking
<1>9. CASE Swapped
    BY <1>1, <1>9 DEF Swapped, Refuse, Decide, Go, Parking
<1>10. CASE \/ Restore \/ Park \/ CheckParked \/ Unpark \/ Place \/ CheckPlaced
            \/ Clear
    BY <1>1, <1>10 DEF Restore, Park, CheckParked, Unpark, Place, CheckPlaced, Clear,
                       Parking
<1>11. ASSUME NEW t \in Text, Edit(t)
       PROVE  /\ file'.dst # None /\ file'.bak = None
              /\ pc' \notin Parking
              /\ pc' \in {"enter", "swap", "swapped", "undo"} => file'.stg # None
    BY <1>1, <1>11 DEF Edit, Files
<1>12. CASE Crashes
    BY <1>1, <1>12, CrashLeaves DEF Staged, Files, Parking
<1>13. CASE UNCHANGED vars
    BY <1>1, <1>13 DEF vars
<1>14. QED
    BY <1>3, <1>4, <1>5, <1>6, <1>7, <1>8, <1>9, <1>10, <1>11, <1>12, <1>13
       DEF Next, Step, Crashes, Finished

(***************************************************************************)
(* Where exchanges are atomic a selected pointer is never missing, so no   *)
(* reader takes a base that is being replaced for a base that is absent.   *)
(***************************************************************************)
THEOREM PointerNeverMissing == Spec => []NeverMissing
<1>1. Init => PresentInv
    <2>1. Init => TypeOK
        BY TypeInit
    <2>2. QED
        BY <2>1 DEF Init, PresentInv, Settled, Parking
<1>2. PresentInv => NeverMissing
    BY DEF PresentInv, NeverMissing
<1>3. QED
    BY <1>1, <1>2, PresentStep, PTL DEF Spec

-----------------------------------------------------------------------------
(***************************************************************************)
(* The new pointer text is written only after the generation it names is   *)
(* installed; afterwards the text only moves between the three files.      *)
(***************************************************************************)
InstalledInv ==
    /\ TypeOK
    /\ edits = 0 /\ (pc = "stage" \/ New \in Held(file)) => generation = "installed"

LEMMA InstalledStep == InstalledInv /\ [Next]_vars => InstalledInv'
<1> USE PointerAssumption
<1> SUFFICES ASSUME InstalledInv, [Next]_vars,
                    edits' = 0, pc' = "stage" \/ New \in Held(file')
             PROVE  generation' = "installed"
    BY TypeStep DEF InstalledInv, Held
<1>1. file \in Files(Text \cup {Torn}) /\ edits \in Nat
    BY DEF InstalledInv, TypeOK
<1>2. New # None
    OBVIOUS
<1> DEFINE Moves(f) == Held(f) \subseteq Held(file) \cup {None}
<1>3. ASSUME NEW f, NEW l, Mutate(f, l), Moves(f), l # "stage" PROVE generation' = "installed"
    BY <1>2, <1>3 DEF Mutate, Go, InstalledInv
<1>4. ASSUME NEW l, Decide(l), l # "stage" PROVE generation' = "installed"
    BY <1>4 DEF Decide, Go, InstalledInv
<1>5. /\ Moves(Exchanged(file)) /\ Moves(Parked(file)) /\ Moves(Placed(file))
      /\ Moves(Restored(file)) /\ Moves(StagingGone(file)) /\ Moves(BackupGone(file))
      /\ Moves(file)
    BY <1>1 DEF Files, Held, Exchanged, Parked, Placed, Restored, StagingGone, BackupGone
<1>6. \A v : Moves(Reconciled(file, v))
    BY <1>5 DEF Reconciled
<1>7. CASE Reconcile
    BY <1>3, <1>4, <1>6, <1>7 DEF Reconcile, Refuse
<1>8. CASE Restore \/ Displaced \/ Swap \/ Undo \/ Drop
    BY <1>3, <1>4, <1>5, <1>8 DEF Restore, Displaced, Swap, Undo, Drop, Refuse
<1>9. CASE Park \/ Unpark \/ Place \/ Clear
    BY <1>3, <1>4, <1>5, <1>9 DEF Park, Unpark, Place, Clear, Refuse
<1>10. CASE Inspect \/ Enter \/ Swapped \/ CheckParked \/ CheckPlaced \/ Restart
    BY <1>4, <1>10 DEF Inspect, Enter, Swapped, CheckParked, CheckPlaced, Restart, Refuse
<1>11. CASE StageGeneration \/ InstallGeneration
    BY <1>11 DEF StageGeneration, InstallGeneration, Generate, Refuse, Decide, Go, InstalledInv
<1>12. CASE Stage
    BY <1>4, <1>12 DEF Stage, Refuse, Mutate, InstalledInv
<1>13. CASE Crashes
    <2>1. New \in Held(file')
        BY <1>13, CrashLeaves
    <2>2. New \in Held(file)
        BY <1>1, <1>13, <2>1, CrashLeaves DEF Staged, Held, Files
    <2>3. QED
        BY <1>13, <2>2, CrashLeaves DEF InstalledInv
<1>14. ASSUME NEW t \in Text, Edit(t) PROVE FALSE
    BY <1>1, <1>14 DEF Edit
<1>15. CASE UNCHANGED vars
    BY <1>15 DEF vars, InstalledInv
<1>16. QED
    BY <1>7, <1>8, <1>9, <1>10, <1>11, <1>12, <1>13, <1>14, <1>15
       DEF Next, Step, Crashes, Finished

(***************************************************************************)
(* In no crash state does the pointer select a generation that is not      *)
(* completely installed.                                                   *)
(***************************************************************************)
THEOREM PointerSelectsInstalled == Spec => []PointerNeverDangles
<1>1. Init => InstalledInv
    <2>1. Init => TypeOK
        BY TypeInit
    <2>2. QED
        BY <2>1, PointerAssumption DEF Init, InstalledInv, Held, Settled
<1>2. InstalledInv => PointerNeverDangles
    BY DEF InstalledInv, PointerNeverDangles, Held
<1>3. QED
    BY <1>1, <1>2, InstalledStep, PTL DEF Spec
-----------------------------------------------------------------------------
(***************************************************************************)
(* A reconciliation that succeeds leaves no backup, and none appears       *)
(* before the replacement parks one itself.                                *)
(***************************************************************************)
BackupInv ==
    /\ TypeOK
    /\ pc \in {"displaced", "inspect", "generation", "install", "stage", "enter"} =>
         file.bak = None

LEMMA BackupStep == BackupInv /\ [Next]_vars => BackupInv'
<1> USE PointerAssumption
<1> DEFINE Early == {"displaced", "inspect", "generation", "install", "stage", "enter"}
<1> SUFFICES ASSUME BackupInv, [Next]_vars, pc' \in Early
             PROVE  file'.bak = None
    BY TypeStep DEF BackupInv
<1>1. file \in Files(Text \cup {Torn}) /\ (pc \in Early => file.bak = None)
    BY DEF BackupInv, TypeOK
<1>2. CASE Reconcile
    <2>1. CASE Classify(file, Prior, New, TRUE) = "restoreBackup"
        BY <1>1, <1>2, <2>1 DEF Reconcile, Refuse, Decide, Mutate, Go, Reconciled, Restored, Files
    <2>2. CASE Classify(file, Prior, New, TRUE) = "removeBackup"
        BY <1>1, <1>2, <2>2
           DEF Reconcile, Refuse, Decide, Mutate, Go, Reconciled, BackupGone, Files
    <2>3. CASE Classify(file, Prior, New, TRUE) \notin {"restoreBackup", "removeBackup"}
        <3>1. file.bak = None \/ Classify(file, Prior, New, TRUE) = "unknown"
            BY <2>3 DEF Classify
        <3>2. Reconciled(file, Classify(file, Prior, New, TRUE)) \in {file, StagingGone(file)}
            BY <2>3 DEF Reconciled
        <3>3. file' \in {file, StagingGone(file)}
            BY <1>2, <3>2 DEF Reconcile, Refuse, Decide, Mutate, Go
        <3>4. file.bak = None \/ Classify(file, Prior, New, TRUE) # "unknown"
            BY <1>1, <1>2 DEF Reconcile, Refuse, Decide, Go
        <3>5. QED
            BY <1>1, <3>1, <3>3, <3>4 DEF StagingGone, Files
    <2>4. QED
        BY <2>1, <2>2, <2>3
<1>3. CASE Restore
    BY <1>1, <1>3 DEF Restore, Refuse, Decide, Mutate, Go, Restored, Files
<1>4. CASE Displaced \/ Stage
    BY <1>1, <1>4 DEF Displaced, Stage, Refuse, Decide, Mutate, Go, StagingGone, Staged, Files
<1>5. CASE Inspect \/ StageGeneration \/ InstallGeneration \/ Enter \/ Restart
    BY <1>1, <1>5 DEF Inspect, StageGeneration, InstallGeneration, Generate, Enter, Restart,
                      Refuse, Decide, Go
<1>6. CASE Swap \/ Swapped \/ Undo \/ Drop \/ Park \/ CheckParked
    BY <1>6 DEF Swap, Swapped, Undo, Drop, Park, CheckParked, Refuse, Decide, Mutate, Go
<1>7. CASE Unpark \/ Place \/ CheckPlaced \/ Clear
    BY <1>7 DEF Unpark, Place, CheckPlaced, Clear, Refuse, Decide, Mutate, Go
<1>8. ASSUME NEW t \in Text, Edit(t) PROVE file'.bak = None
    BY <1>1, <1>8 DEF Edit, Files
<1>9. CASE Crashes
    BY <1>9, CrashLeaves
<1>10. CASE UNCHANGED vars
    BY <1>1, <1>10 DEF vars
<1>11. QED
    BY <1>2, <1>3, <1>4, <1>5, <1>6, <1>7, <1>8, <1>9, <1>10
       DEF Next, Step, Crashes, Finished

(***************************************************************************)
(* The replacement of the base pointer never resumes from a backup: the    *)
(* reconciliation in front of it makes resume_guarded_text_install         *)
(* unreachable on this path, so Enter need not follow it.                  *)
(***************************************************************************)
THEOREM NeverResumes == Spec => [](pc = "enter" => file.bak = None)
<1>1. Init => BackupInv
    <2>1. Init => TypeOK
        BY TypeInit
    <2>2. QED
        BY <2>1 DEF Init, BackupInv, Settled
<1>2. BackupInv => (pc = "enter" => file.bak = None)
    BY DEF BackupInv
<1>3. QED
    BY <1>1, <1>2, BackupStep, PTL DEF Spec
-----------------------------------------------------------------------------
(***************************************************************************)
(* Undisturbed, the three files are in one of seven shapes, and what the   *)
(* process does next says in which.  The steps that answer an editor       *)
(* (Undo, Unpark) are never reached.                                       *)
(***************************************************************************)
Shaped(f, d, s, b) == f.dst = d /\ f.stg = s /\ f.bak = b

Untouched(f) == Shaped(f, Prior, None, None)
Cut(f)       == Shaped(f, Prior, Torn, None)
Ready(f)     == Shaped(f, Prior, New, None)
Crossed(f)   == Shaped(f, New, Prior, None)
Vacant(f)    == Shaped(f, None, New, Prior)
Filled(f)    == Shaped(f, New, None, Prior)
Over(f)      == Shaped(f, New, None, None)

Undisturbed ==
    /\ \/ Untouched(file) \/ Cut(file) \/ Ready(file) \/ Crossed(file)
       \/ Vacant(file) \/ Filled(file) \/ Over(file)
    /\ pc = "inspect" => Untouched(file) \/ Ready(file) \/ Over(file)
    /\ pc \in {"generation", "install", "stage"} => Untouched(file) \/ Ready(file)
    /\ pc \in {"enter", "swap", "park"} => Ready(file)
    /\ pc \in {"swap", "park"} => Prior # None
    /\ pc \in {"displaced", "swapped", "drop"} => Crossed(file)
    /\ pc \in {"restore", "parked", "place"} => Vacant(file)
    /\ pc \in {"placed", "clear"} => Filled(file)
    /\ pc \notin {"undo", "unpark"}
    /\ pc = "done" => Over(file)

FlowInv == TypeOK /\ (edits = 0 => Undisturbed)

\* What one undisturbed step may do to the text a reader selects.
Moves == Selected(file') = Selected(file) \/ (Selected(file) = Prior /\ Selected(file') = New)

LEMMA FlowStep == FlowInv /\ [Next]_vars => FlowInv' /\ (edits' = 0 => edits = 0 /\ Moves)
<1> USE PointerAssumption
<1> SUFFICES ASSUME FlowInv, [Next]_vars, edits' = 0
             PROVE  Undisturbed' /\ edits = 0 /\ Moves
    BY TypeStep DEF FlowInv
<1>1. /\ file \in Files(Text \cup {Torn}) /\ edits \in Nat /\ New # None /\ Prior # New
      /\ pc \in Steps \cup {"down", "done"}
    BY DEF FlowInv, TypeOK
<1>2. ASSUME NEW t \in Text, Edit(t) PROVE FALSE
    BY <1>1, <1>2 DEF Edit
<1>3. edits = 0
    BY <1>1, <1>2, CrashLeaves DEF Next, Step, Crashes, Finished, Reconcile, Restore,
       Displaced, Inspect, StageGeneration, InstallGeneration, Generate, Stage, Enter, Swap,
       Swapped, Undo, Drop, Park, CheckParked, Unpark, Place, CheckPlaced, Clear, Restart,
       Refuse, Decide, Mutate, vars
<1>4. Undisturbed
    BY <1>3 DEF FlowInv
<1> USE DEF Undisturbed, Shaped, Untouched, Cut, Ready, Crossed, Vacant, Filled, Over, Moves,
            Selected, Files
<1>5. CASE Reconcile
    <2>1. CASE pc' = "down"
        BY <1>1, <1>4, <1>5, <2>1 DEF Reconcile, Refuse, Decide, Mutate, Go
    <2>2. CASE Untouched(file) \/ Cut(file) \/ Ready(file) \/ Over(file)
        BY <1>1, <1>4, <1>5, <2>2 DEF Reconcile, Refuse, Decide, Mutate, Go, Classify,
           Reconciled, Restored, BackupGone, StagingGone
    <2>3. CASE Crossed(file) /\ Prior # None
        BY <1>1, <1>4, <1>5, <2>3 DEF Reconcile, Refuse, Decide, Mutate, Go, Classify,
           Reconciled
    <2>4. CASE Vacant(file) /\ Prior # None
        BY <1>1, <1>4, <1>5, <2>4 DEF Reconcile, Refuse, Decide, Mutate, Go, Classify,
           Reconciled
    <2>5. CASE Filled(file) /\ Prior # None
        BY <1>1, <1>4, <1>5, <2>5 DEF Reconcile, Refuse, Decide, Mutate, Go, Classify,
           Reconciled, BackupGone, KnownBackupShape
    <2>6. QED
        BY <1>4, <2>2, <2>3, <2>4, <2>5
<1>6. CASE Restore
    BY <1>1, <1>4, <1>6 DEF Restore, Refuse, Decide, Mutate, Go, Restored
<1>7. CASE Displaced \/ Drop
    BY <1>1, <1>4, <1>7 DEF Displaced, Drop, Mutate, Go, StagingGone
<1>8. CASE Inspect
    BY <1>1, <1>4, <1>8 DEF Inspect, Refuse, Decide, Go
<1>9. CASE StageGeneration \/ InstallGeneration
    BY <1>1, <1>4, <1>9 DEF StageGeneration, InstallGeneration, Generate, Refuse, Decide, Go
<1>10. CASE Stage
    BY <1>1, <1>4, <1>10 DEF Stage, StageAccepts, Refuse, Decide, Mutate, Go, Staged
<1>11. CASE Enter
    BY <1>1, <1>4, <1>11 DEF Enter, Refuse, Decide, Go
<1>12. CASE Swap
    BY <1>1, <1>4, <1>12 DEF Swap, Refuse, Decide, Mutate, Go, Exchanged
<1>13. CASE Swapped
    BY <1>1, <1>4, <1>13 DEF Swapped, Refuse, Decide, Go
<1>14. CASE Undo \/ Unpark
    BY <1>1, <1>4, <1>14 DEF Undo, Unpark
<1>15. CASE Park
    BY <1>1, <1>4, <1>15 DEF Park, Refuse, Decide, Mutate, Go, Parked
<1>16. CASE CheckParked \/ CheckPlaced
    BY <1>1, <1>4, <1>16 DEF CheckParked, CheckPlaced, Refuse, Decide, Go
<1>17. CASE Place
    BY <1>1, <1>4, <1>17 DEF Place, Refuse, Decide, Mutate, Go, Placed
<1>18. CASE Clear
    BY <1>1, <1>4, <1>18 DEF Clear, Mutate, Go, BackupGone
<1>19. CASE Restart
    BY <1>1, <1>4, <1>19 DEF Restart, Decide, Go
<1>20. CASE Crashes
    <2>1. CASE file' = file
        BY <1>4, <1>20, <2>1, CrashLeaves
    <2>2. CASE pc = "stage" /\ file.stg = None /\ file' = Staged(file, Torn)
        <3>1. Untouched(file)
            BY <1>1, <1>4, <2>2
        <3>2. Cut(file')
            BY <1>1, <2>2, <3>1 DEF Staged
        <3>3. QED
            BY <1>20, <3>1, <3>2, CrashLeaves
    <2>3. QED
        BY <1>20, <2>1, <2>2, CrashLeaves
<1>21. CASE UNCHANGED vars
    BY <1>1, <1>4, <1>21 DEF vars
<1>22. QED
    BY <1>2, <1>3, <1>5, <1>6, <1>7, <1>8, <1>9, <1>10, <1>11, <1>12, <1>13, <1>14, <1>15,
       <1>16, <1>17, <1>18, <1>19, <1>20, <1>21 DEF Next, Step, Crashes, Finished

LEMMA FlowInit == Init => FlowInv
<1>1. Init => TypeOK
    BY TypeInit
<1>2. QED
    BY <1>1, PointerAssumption
       DEF Init, FlowInv, Undisturbed, Shaped, Untouched, Cut, Ready, Crossed, Vacant, Filled,
           Over, Settled

(***************************************************************************)
(* A replacement that reports success has left the new pointer alone, with *)
(* no staging file and no backup, on the direct and every recovery path.   *)
(***************************************************************************)
THEOREM SuccessIsSettled == Spec => []DoneIsSettled
<1>1. FlowInv => DoneIsSettled
    BY DEF FlowInv, DoneIsSettled, Undisturbed, Over, Shaped, TypeOK, Files, Settled
<1>2. QED
    BY <1>1, FlowInit, FlowStep, PTL DEF Spec

(***************************************************************************)
(* The replacement and its recovery implement one register that is moved   *)
(* once, atomically, from the prior to the new text: for every number of   *)
(* crashes, on both kinds of platform, until somebody else writes.         *)
(***************************************************************************)
THEOREM ImplementsRegister == Spec => RefinesRegister
<1> USE PointerAssumption
<1> DEFINE value == IF edits = 0 THEN Selected(file) ELSE "interfered"
<1>1. Init => Register!Init
    BY DEF Init, Register!Init, Selected, Settled
<1>2. FlowInv /\ [Next]_vars => [Register!Next]_value
    <2> SUFFICES ASSUME FlowInv, [Next]_vars PROVE [Register!Next]_value
        OBVIOUS
    <2>1. edits' = 0 => edits = 0 /\ Moves
        BY FlowStep
    <2>2. edits = 0 => Selected(file) \in {Prior, New}
        BY DEF FlowInv, Undisturbed, Shaped, Untouched, Cut, Ready, Crossed, Vacant, Filled,
               Over, Selected
    <2>3. QED
        BY <2>1, <2>2
           DEF Moves, Register!Next, Register!Replace, Register!Interfere
<1>3. QED
    BY <1>1, <1>2, FlowInit, FlowStep, PTL DEF Spec, RefinesRegister, Register!Spec
=============================================================================
