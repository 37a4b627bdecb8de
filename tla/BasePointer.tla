---------------------------- MODULE BasePointer ----------------------------
(***************************************************************************)
(* SyncBaseStore: the retained sync base of one remote is an immutable     *)
(* generation directory selected by one pointer file.  A sync transaction  *)
(* in its BaseCommitting phase installs the proposed generation and then   *)
(* replaces the pointer with ObjectStore's guarded replacement; a process  *)
(* that starts again after a crash first reconciles what the interrupted   *)
(* replacement left and then runs the same commit.                         *)
(*                                                                         *)
(* Every mutation that recovery can see is an action of its own, so that a *)
(* crash, and an uncooperative editor of the pointer, can fall between any *)
(* two; a crash can also cut short the writes of a staging, of the         *)
(* generation or of the pointer.                                           *)
(***************************************************************************)
EXTENDS Naturals, GuardedFile

CONSTANTS
    Text,        \* pointer texts
    Torn,        \* what a crash inside the write of a staging file leaves
    Prior,       \* the pointer the plan was made from, None on bootstrap
    New,         \* the pointer of the proposed generation
    MaxEdits,    \* bound on the edits of the uncooperative editor
    MaxCrashes   \* bound on the crashes

ASSUME PointerAssumption ==
    /\ None \notin Text
    /\ Torn \notin Text \cup {None}
    /\ New \in Text
    /\ Prior \in (Text \cup {None}) \ {New}
    /\ "interfered" \notin Text \cup {None}   \* the abstract register's own value
    /\ MaxEdits \in Nat
    /\ MaxCrashes \in Nat

VARIABLES
    exchange,    \* atomic_exchange_supported(): Linux and macOS
    file,        \* the pointer: live, staging and backup file
    generation,  \* the proposed generation directory
    pc,          \* what the process does next, "down" when there is none
    theirs,      \* history: foreign texts the editor has not replaced itself
    edits,       \* edits made so far
    crashes      \* crashes so far

vars == <<exchange, file, generation, pc, theirs, edits, crashes>>

Steps == {"reconcile", "restore", "displaced", "inspect", "generation", "install",
          "stage", "enter", "swap", "swapped", "undo", "drop", "park", "parked", "unpark",
          "place", "placed", "clear"}

Foreign == Text \ {Prior, New}

\* A prefix of complete files in the staging directory counts as "absent": a
\* retry accepts each of them.  "torn" has a file or an object cut short.
Generation == {"absent", "torn", "staged", "installed"}

TypeOK ==
    /\ exchange \in BOOLEAN
    /\ file \in Files(Text \cup {Torn})
    /\ generation \in Generation
    /\ pc \in Steps \cup {"down", "done"}
    /\ theirs \subseteq Foreign
    /\ edits \in 0 .. MaxEdits
    /\ crashes \in 0 .. MaxCrashes

Init ==
    /\ exchange \in BOOLEAN
    /\ file = Settled(Prior)
    /\ generation = "absent"
    /\ pc = "inspect"
    /\ theirs = {Prior} \cap Foreign
    /\ edits = 0
    /\ crashes = 0

Go(label) == pc' = label

\* One process step that leaves the files alone.
Decide(label) ==
    Go(label) /\ UNCHANGED <<exchange, file, generation, theirs, edits, crashes>>

\* One process step that mutates the pointer's files.
Mutate(f, label) ==
    /\ file' = f
    /\ Go(label) /\ UNCHANGED <<exchange, generation, theirs, edits, crashes>>

\* One process step that mutates the generation or its staging directory.
Generate(g, label) ==
    /\ generation' = g
    /\ Go(label) /\ UNCHANGED <<exchange, file, theirs, edits, crashes>>

\* The attempt ends with an error; nothing is undone.
Refuse == Decide("down")

-----------------------------------------------------------------------------
(***************************************************************************)
(* reconcile_interrupted_pointer                                           *)
(***************************************************************************)
\* Mutant: recovery does not know the window in which nothing is live.
KnownBackupShape_Live(f) == f.dst = New /\ f.stg = None

KnownBackupShape(f) ==
    \/ f.dst = None /\ f.stg = New
    \/ f.dst = New /\ f.stg = None

Reconcile ==
    /\ pc = "reconcile"
    /\ LET verdict == Classify(file, Prior, New, TRUE)
       IN  IF file.stg = None /\ file.bak = None
           THEN Decide("inspect")
           ELSE IF \/ file.bak # None /\ ~ KnownBackupShape(file)
                   \/ verdict = "unknown"
           THEN Refuse
           ELSE IF verdict = "restoreBackup"
           THEN Decide("restore")
           ELSE IF /\ file.bak = None
                   /\ file.dst = New
                   /\ file.stg = Prior
           THEN Decide("displaced")
           ELSE Mutate(Reconciled(file, verdict), "inspect")

\* Mutant: the parked pointer is removed, not restored.
Restore_Removes ==
    /\ pc = "restore"
    /\ Mutate(BackupGone(file), "inspect")

\* restore_guarded_backup after its own look at the destination.
Restore ==
    /\ pc = "restore"
    /\ IF file.dst = None THEN Mutate(Restored(file), "inspect") ELSE Refuse

\* The prior pointer an exchange displaced into the staging file.
Displaced ==
    /\ pc = "displaced"
    /\ Mutate(StagingGone(file), "inspect")

(***************************************************************************)
(* finish_local_and_base, and SyncBaseStore::commit behind it              *)
(***************************************************************************)
\* Mutant: the pointer is staged without the generation being installed.
Inspect_PointerOnly ==
    /\ pc = "inspect"
    /\ CASE file.dst = New   -> Decide("done")
         [] file.dst = Prior -> Decide("stage")
         [] OTHER            -> Refuse

Inspect ==
    /\ pc = "inspect"
    /\ CASE file.dst = New   -> IF generation = "installed" THEN Decide("done") ELSE Refuse
         [] file.dst = Prior -> Decide("generation")
         [] OTHER            -> Refuse

\* Objects, base.json and base-manifest.toml, each at a path the plan digest
\* fixes: what is identical is accepted, what a crash cut short is a conflict.
StageGeneration ==
    /\ pc = "generation"
    /\ IF generation = "torn"           THEN Refuse
       ELSE IF generation = "installed" THEN Decide("stage")
       ELSE                                  Generate("staged", "install")

\* The verified staging directory is renamed into place.
InstallGeneration ==
    /\ pc = "install"
    /\ Generate("installed", "stage")

Stage ==
    /\ pc = "stage"
    /\ IF StageAccepts(file, New) THEN Mutate(Staged(file, New), "enter") ELSE Refuse

(***************************************************************************)
(* install_staged_text_guarded.  Its resumption from a backup              *)
(* (resume_guarded_text_install) does not happen here: the reconciliation  *)
(* has restored or removed any backup, so Enter finds none.                *)
(***************************************************************************)
Enter ==
    /\ pc = "enter"
    /\ IF file.stg # New \/ file.bak # None THEN Refuse
       ELSE IF file.dst = New   THEN Decide("drop")
       ELSE IF file.dst # Prior THEN Refuse
       ELSE IF Prior = None     THEN Decide("place")
       ELSE IF exchange         THEN Decide("swap")
       ELSE                          Decide("park")

\* Mutant: the portable two-step replacement where an exchange is available.
Swap_Parks ==
    /\ pc = "swap"
    /\ IF file.dst # None THEN Mutate(Parked(file), "parked") ELSE Refuse

Swap ==
    /\ pc = "swap"
    /\ IF file.dst # None THEN Mutate(Exchanged(file), "swapped") ELSE Refuse

\* Mutant: what the exchange displaced is not compared with the expected text.
Swapped_Unchecked ==
    /\ pc = "swapped"
    /\ IF file.dst = New THEN Decide("drop") ELSE Refuse

Swapped ==
    /\ pc = "swapped"
    /\ IF file.stg # Prior
       THEN IF file.dst = New THEN Decide("undo") ELSE Refuse
       ELSE IF file.dst = New THEN Decide("drop") ELSE Refuse

\* The exchange is reversed; the attempt fails whatever it brought back.
Undo ==
    /\ pc = "undo"
    /\ Mutate(IF file.dst # None THEN Exchanged(file) ELSE file, "down")

Drop ==
    /\ pc = "drop"
    /\ Mutate(StagingGone(file), "done")

Park ==
    /\ pc = "park"
    /\ IF file.dst # None /\ file.bak = None THEN Mutate(Parked(file), "parked") ELSE Refuse

CheckParked ==
    /\ pc = "parked"
    /\ Decide(IF file.bak = Prior THEN "place" ELSE "unpark")

Unpark ==
    /\ pc = "unpark"
    /\ Mutate(IF file.dst = None THEN Restored(file) ELSE file, "down")

\* rename without replacement: an editor that was faster makes it fail.
Place ==
    /\ pc = "place"
    /\ IF file.dst = None THEN Mutate(Placed(file), "placed") ELSE Refuse

CheckPlaced ==
    /\ pc = "placed"
    /\ IF file.dst = New THEN Decide("clear") ELSE Refuse

Clear ==
    /\ pc = "clear"
    /\ Mutate(BackupGone(file), "done")

-----------------------------------------------------------------------------
Step ==
    \/ Reconcile \/ Restore \/ Displaced \/ Inspect
    \/ StageGeneration \/ InstallGeneration \/ Stage
    \/ Enter \/ Swap \/ Swapped \/ Undo \/ Drop \/ Park \/ CheckParked \/ Unpark
    \/ Place \/ CheckPlaced \/ Clear

\* The process dies and leaves f and g; a later one recovers the transaction
\* from its journal.
Dies(f, g) ==
    /\ crashes < MaxCrashes
    /\ crashes' = crashes + 1
    /\ file' = f
    /\ generation' = g
    /\ Go("down") /\ UNCHANGED <<exchange, theirs, edits>>

Crash == pc \in Steps /\ Dies(file, generation)

\* A crash inside the writes of a new staging directory, or staging file.
TearGeneration ==
    /\ pc = "generation"
    /\ generation = "absent"
    /\ Dies(file, "torn")

TearPointer ==
    /\ pc = "stage"
    /\ file.stg = None
    /\ Dies(Staged(file, Torn), generation)

Restart ==
    /\ pc = "down"
    /\ Decide("reconcile")

\* An uncooperative process writes the live pointer.
Edit(t) ==
    /\ edits < MaxEdits
    /\ t # file.dst
    /\ edits' = edits + 1
    /\ file' = [file EXCEPT !.dst = t]
    /\ theirs' = (theirs \ {file.dst}) \cup ({t} \cap Foreign)
    /\ UNCHANGED <<exchange, generation, pc, crashes>>

Finished == pc = "done" /\ UNCHANGED vars

Next ==
    \/ Step
    \/ Crash
    \/ TearGeneration
    \/ TearPointer
    \/ Restart
    \/ \E t \in Text : Edit(t)
    \/ Finished

Spec == Init /\ [][Next]_vars

FairSpec == Spec /\ WF_vars(Step) /\ WF_vars(Restart)
-----------------------------------------------------------------------------
(***************************************************************************)
(* What a reader that knows the backup selects.                            *)
(***************************************************************************)
Selected(f) == IF f.dst = None THEN f.bak ELSE f.dst

(***************************************************************************)
(* Bytes that someone else wrote into the pointer are never replaced (and  *)
(* moved to the removal quarantine) by the replacement or its recovery,    *)
(* wherever the edit falls between check, exchange, undo and crash: they   *)
(* stay in one of the three files.                                         *)
(***************************************************************************)
ForeignKept == theirs \subseteq Held(file)

(***************************************************************************)
(* With an atomic exchange a selected pointer is at no instant missing, so *)
(* a concurrent reader never takes a replacement for the absence of a base.*)
(***************************************************************************)
NeverMissing == exchange /\ Prior # None => file.dst # None

(***************************************************************************)
(* The pointer selects the proposed generation only after the generation   *)
(* is completely installed, in every crash state.                          *)
(***************************************************************************)
PointerNeverDangles == edits = 0 /\ New \in {file.dst, file.bak} => generation = "installed"

(***************************************************************************)
(* A replacement reported as done has left neither staging nor backup, on  *)
(* the direct path and on every recovery path.                             *)
(***************************************************************************)
DoneIsSettled == edits = 0 /\ pc = "done" => file = Settled(New)

(***************************************************************************)
(* The two states that recovery refuses for ever: what a crash cut short   *)
(* in the staging directory of the generation, or in the staging file of   *)
(* the pointer, lies where the next attempt of the same plan must stage    *)
(* the same, differs from it and is removed by nobody.                     *)
(***************************************************************************)
Stuck == generation = "torn" \/ file.stg = Torn

(***************************************************************************)
(* Undisturbed, the attempts that follow finitely many crashes end with    *)
(* the proposed pointer, unless a staging write was cut short: every state *)
(* that a crash between two mutations leaves is one that recovery finishes.*)
(***************************************************************************)
Converges == <>(pc = "done" \/ edits > 0) \/ <>[]Stuck

(***************************************************************************)
(* Until somebody else writes the pointer, its three files implement one   *)
(* register that moves from the prior to the new pointer once, atomically, *)
(* through every crash and recovery.                                       *)
(***************************************************************************)
Register == INSTANCE ConditionalRegister
    WITH value <- IF edits = 0 THEN Selected(file) ELSE "interfered",
         Interfered <- "interfered"
RefinesRegister == Register!Spec
=============================================================================
