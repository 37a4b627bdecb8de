---------------------------- MODULE GuardedFile ----------------------------
(***************************************************************************)
(* A guarded control file of ObjectStore: the live file (dst), the staging *)
(* file a replacement is prepared in (stg) and the backup                  *)
(* "<staging>.previous" the prior bytes are parked in (bak).               *)
(*                                                                         *)
(* The module holds the pure decisions that are taken over these three     *)
(* files: guarded_control::classify, which resolves an interrupted         *)
(* replacement of one exact old text by one exact new text, and            *)
(* guarded_journal::inspect, which resolves an interrupted advance of a    *)
(* journal.  Texts are opaque values; only their equality matters.         *)
(***************************************************************************)
EXTENDS Naturals

CONSTANTS
    None    \* the file does not exist

\* The three files of one guarded control file.
Files(T) == [dst : T \cup {None}, stg : T \cup {None}, bak : T \cup {None}]

\* A control file that holds text t and nothing in flight.
Settled(t) == [dst |-> t, stg |-> None, bak |-> None]

\* Every text that survives in one of the three files.
Held(f) == {f.dst, f.stg, f.bak}

\* Mutant: a retry that does not know its own staging file.
StageAccepts_FreshOnly(f, t) == f.stg = None

(***************************************************************************)
(* stage_text: an identical staging file is accepted, another one is a     *)
(* conflict.                                                               *)
(***************************************************************************)
StageAccepts(f, t) == f.stg \in {None, t}
Staged(f, t)       == [f EXCEPT !.stg = t]

\* The durable mutations of a guarded replacement, one file-system call each.
Exchanged(f)     == [f EXCEPT !.dst = f.stg, !.stg = f.dst]  \* renameat2(EXCHANGE), renamex_np(SWAP)
Parked(f)        == [f EXCEPT !.bak = f.dst, !.dst = None]
Placed(f)        == [f EXCEPT !.dst = f.stg, !.stg = None]
Restored(f)      == [f EXCEPT !.dst = f.bak, !.bak = None]
StagingGone(f)   == [f EXCEPT !.stg = None]
BackupGone(f)    == [f EXCEPT !.bak = None]

\* Mutant: the live file is replaced whatever it holds.
Installable_Blind(f, old, new) == f.stg = new

(***************************************************************************)
(* install_staged_text_guarded: whether the call that expects old goes     *)
(* ahead, and the next file-system mutation of a call that does.           *)
(***************************************************************************)
Installable(f, old, new) ==
    /\ f.stg = new
    /\ IF f.bak = None
       THEN f.dst \in {old, new}
       ELSE f.bak = old /\ f.dst \in {None, new}

Replaced(f, new, exchange) ==
    IF f.dst = new
    THEN IF f.stg = None THEN BackupGone(f) ELSE StagingGone(f)
    ELSE IF f.dst = None THEN Placed(f)
         ELSE IF exchange THEN Exchanged(f) ELSE Parked(f)

(***************************************************************************)
(* guarded_control::classify: what an interrupted replacement of old by    *)
(* new has left behind.  dup is accept_duplicate_new.                      *)
(***************************************************************************)
Classify(f, old, new, dup) ==
    IF f.bak # None
    THEN IF f.bak # old                           THEN "unknown"
         ELSE IF f.dst = None /\ f.stg = new      THEN "restoreBackup"
         ELSE IF f.dst \in {old, new}             THEN "removeBackup"
         ELSE                                          "unknown"
    ELSE IF dup /\ f.dst = new /\ f.stg = new     THEN "removeDuplicate"
         ELSE IF \/ f.dst = new /\ f.stg = None
                 \/ f.dst = new /\ f.stg = old    \* displaced by an exchange
                 \/ f.dst = old /\ f.stg = new    \* not yet installed
              THEN "stable"
              ELSE "unknown"

\* The text a reader of the classified control file takes as its authority.
Effective(f, verdict) == IF verdict = "restoreBackup" THEN f.bak ELSE f.dst

\* Mutant: a backup that is only to be removed is restored over the new text.
Reconciled_Backward(f, verdict) ==
    CASE verdict \in {"restoreBackup", "removeBackup"} -> Restored(f)
      [] verdict = "removeDuplicate"                   -> StagingGone(f)
      [] OTHER                                         -> f

\* guarded_control::reconcile: the single mutation each verdict calls for.
Reconciled(f, verdict) ==
    CASE verdict = "restoreBackup"   -> Restored(f)
      [] verdict = "removeBackup"    -> BackupGone(f)
      [] verdict = "removeDuplicate" -> StagingGone(f)
      [] OTHER                       -> f

(***************************************************************************)
(* guarded_journal::inspect: valid holds the records that parse, leads the *)
(* pairs of an old and a next record that are a valid transition.          *)
(***************************************************************************)
JournalVerdict(f, valid, leads) ==
    IF ~ (Held(f) \subseteq valid \cup {None})     THEN "invalid"
    ELSE IF f.bak # None
         THEN IF f.dst = None
              THEN IF f.stg = None \/ <<f.bak, f.stg>> \in leads THEN "restore"    ELSE "invalid"
              ELSE IF f.stg = None /\ <<f.bak, f.dst>> \in leads THEN "dropBackup" ELSE "invalid"
    ELSE IF f.dst = None
         THEN IF f.stg = None           THEN "absent"  ELSE "installFirst"
    ELSE IF f.stg = None                THEN "settled"
    ELSE IF <<f.dst, f.stg>> \in leads  THEN "installNext"
    ELSE IF <<f.stg, f.dst>> \in leads  THEN "dropStaging"
    ELSE                                     "invalid"

\* The journal the reconciliation would retain, which recovery works from.
JournalSeen(f, verdict) ==
    CASE verdict = "restore"                         -> f.bak
      [] verdict \in {"installFirst", "installNext"} -> f.stg
      [] OTHER                                       -> f.dst  \* None when absent
=============================================================================
