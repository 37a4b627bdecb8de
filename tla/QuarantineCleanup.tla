-------------------------- MODULE QuarantineCleanup -------------------------
(***************************************************************************)
(* The removal quarantine of a root (.kitrove/removal-quarantine):         *)
(* object_mutation.rs moves what it removes there, under a name that holds *)
(* the identity of the object, and quarantine_cleanup/ reclaims what       *)
(* interrupted removals left, in one bounded pass over all the roots that  *)
(* an attempt has locked, before the attempt mutates anything.             *)
(*                                                                         *)
(* Every root has one removable file and one removable tree with one file  *)
(* in it.  An attempt is one process at a time; the environment crashes    *)
(* it, puts a foreign object under a name, or makes a second hard link to  *)
(* a file.  The budgets of the pass are taken to suffice.                  *)
(***************************************************************************)
EXTENDS Naturals

CONSTANTS
    RootCount,    \* the roots are 1 .. RootCount, in the order of the locks
    MaxMeddling,  \* bound on foreign objects and hard links
    MaxCrashes    \* bound on the crashes

ASSUME QuarantineAssumption ==
    /\ RootCount \in Nat \ {0}
    /\ MaxMeddling \in Nat /\ MaxCrashes \in Nat

Roots   == 1 .. RootCount
Objects == Roots \X {"file", "tree"}
Things  == Objects \cup (Roots \X {"nested"})
File(r)   == <<r, "file">>
Tree(r)   == <<r, "tree">>
Nested(r) == <<r, "nested">>
Of(r)     == {File(r), Tree(r), Nested(r)}
IsFile(x) == x[2] # "tree"

VARIABLES
    unix,        \* Unix truncates and unlinks by name; Windows uses handles
    place,       \* where each thing is; a nested file is "live" in its tree
    full,        \* files that have their content
    alias,       \* files with a second hard link
    swapped,     \* names that lead to a foreign object
    batch,       \* cleanup directory of each root
    pc, at,      \* phase of the attempt, and the root it works on
    todo,        \* objects the attempt still removes
    item,        \* the object being removed
    sound,       \* history: roots found in order before things are touched
    meddled,     \* foreign objects and links made so far
    crashes      \* crashes so far

disk    == <<place, full, batch>>
foreign == <<alias, swapped, meddled>>
vars    == <<unix, place, full, alias, swapped, batch, pc, at, todo, item,
             sound, meddled, crashes>>

Phases == {"inspect", "stage", "validate", "secure", "delete", "mutate", "strip"}

TypeOK ==
    /\ unix \in BOOLEAN
    /\ place \in [Things -> {"live", "retained", "tomb", "batch", "leaf", "gone"}]
    /\ full \subseteq {x \in Things : IsFile(x)}
    /\ alias \subseteq {x \in Things : IsFile(x)}
    /\ swapped \subseteq Things
    /\ batch \in [Roots -> {"none", "pending", "ready"}]
    /\ pc \in Phases \cup {"idle"}
    /\ at \in Roots
    /\ todo \subseteq Objects
    /\ item \in Objects
    /\ sound \subseteq Roots
    /\ meddled \in 0 .. MaxMeddling
    /\ crashes \in 0 .. MaxCrashes
    \* a cleanup leaf is an evacuated nested file; only Windows retains
    /\ \A x \in Things :
          /\ place[x] = "leaf" => unix /\ x[2] = "nested"
          /\ place[x] = "retained" => ~ unix /\ x \in Objects

Init ==
    /\ unix \in BOOLEAN
    /\ place = [x \in Things |-> "live"]
    /\ full = {x \in Things : IsFile(x)}
    /\ alias = {} /\ swapped = {}
    /\ batch = [r \in Roots |-> "none"]
    /\ pc = "idle" /\ at = 1 /\ todo = {} /\ item = File(1)
    /\ sound = {} /\ meddled = 0 /\ crashes = 0

-----------------------------------------------------------------------------
At(r, p) == {x \in Of(r) : place[x] = p}

\* The children of the batch directory.
Staged(r) == At(r, "batch") \cup At(r, "leaf")

\* The nested file of a staged tree, known by the snapshot of the validation.
Within(r) == {x \in At(r, "live") : x = Nested(r) /\ place[Tree(r)] = "batch"}

Place(x, p) == place' = [place EXCEPT ![x] = p]

Goto(phase, r) == pc' = phase /\ at' = r

Calm == UNCHANGED <<unix, alias, swapped, meddled, crashes>>

\* The attempt ends; what it forgets is not on disk.
Leave == /\ Goto("idle", 1) /\ todo' = {} /\ item' = File(1) /\ sound' = {}

\* An error: the attempt ends where it is and nothing is undone.
Refuse == Leave /\ Calm /\ UNCHANGED disk

\* Mutant: a root is cleaned up to the end before the next one is validated.
Following_RootByRoot(phase) ==
    CASE phase = "stage" /\ at < RootCount  -> <<"stage", at + 1>>
      [] phase = "stage" /\ at = RootCount  -> <<"validate", 1>>
      [] phase = "validate"                 -> <<"secure", at>>
      [] phase = "secure"                   -> <<"delete", at>>
      [] phase = "delete" /\ at < RootCount -> <<"validate", at + 1>>
      [] OTHER                              -> <<"mutate", 1>>

(***************************************************************************)
(* cleanup_inspected_quarantines: each phase goes over all the roots       *)
(* before the next phase begins.                                           *)
(***************************************************************************)
Following(phase) ==
    IF at < RootCount THEN <<phase, at + 1>>
    ELSE << CASE phase = "stage"    -> "validate"
              [] phase = "validate" -> "secure"
              [] phase = "secure"   -> "delete"
              [] phase = "delete"   -> "mutate", 1 >>

GoOn == LET f == Following(pc) IN Goto(f[1], f[2])

-----------------------------------------------------------------------------
\* An authorized mutation takes the locks of its roots.
Start ==
    /\ pc = "idle"
    /\ Goto("inspect", 1)
    /\ Calm /\ UNCHANGED <<disk, todo, item, sound>>

(***************************************************************************)
(* inspect_tombstone: a tombstone whose name states the identity of what   *)
(* is there, with a single link for a file; a retained name is recognized  *)
(* but has no authority.                                                   *)
(***************************************************************************)
Eligible(x) ==
    /\ place[x] # "retained"
    /\ place[x] = "tomb" => x \notin swapped /\ ~ (IsFile(x) /\ x \in alias)

(***************************************************************************)
(* inspect_store_quarantine and precharge_staging, for all the roots.      *)
(* Nothing is written, so a change between two roots is as good as one     *)
(* after the whole inspection.  Of an interrupted batch the inspection     *)
(* knows the identity, but not yet the names in it.                        *)
(***************************************************************************)
Inspect ==
    /\ pc = "inspect"
    /\ IF \A x \in Objects : Eligible(x)
       THEN /\ Goto("stage", 1)
            /\ sound' = {r \in Roots :
                            At(r, "tomb") \cap (swapped \cup alias) = {}}
            /\ Calm /\ UNCHANGED <<disk, todo, item>>
       ELSE Refuse

\* create_batch: an empty pending directory, which gets its identity's name.
CreatePending ==
    /\ pc = "stage"
    /\ batch[at] = "none" /\ At(at, "tomb") # {}
    /\ batch' = [batch EXCEPT ![at] = "pending"]
    /\ Calm /\ UNCHANGED <<place, full, pc, at, todo, item, sound>>

Promote ==
    /\ pc = "stage" /\ batch[at] = "pending"
    /\ batch' = [batch EXCEPT ![at] = "ready"]
    /\ Calm /\ UNCHANGED <<place, full, pc, at, todo, item, sound>>

\* Mutant: the links are counted by the inspection only.
Truncate_Late(x) ==
    /\ full' = full \ {x}
    /\ Calm /\ UNCHANGED <<place, batch, pc, at, todo, item, sound>>

\* stage_file on Unix, first half: nothing is truncated that has another name.
Truncate(x) ==
    IF x \in swapped \/ x \in alias
    THEN Refuse
    ELSE /\ full' = full \ {x}
         /\ Calm /\ UNCHANGED <<place, batch, pc, at, todo, item, sound>>

(***************************************************************************)
(* stage_file and stage_directory: the tombstone is moved into the batch   *)
(* under its own name and looked at again.                                 *)
(***************************************************************************)
Move(x) ==
    IF x \in swapped \/ (IsFile(x) /\ x \in alias)
    THEN Refuse
    ELSE /\ Place(x, "batch")
         /\ Calm /\ UNCHANGED <<full, batch, pc, at, todo, item, sound>>

Stage ==
    /\ pc = "stage" /\ batch[at] = "ready"
    /\ \E x \in At(at, "tomb") :
          IF unix /\ IsFile(x) /\ x \in full THEN Truncate(x) ELSE Move(x)

(***************************************************************************)
(* Windows: a link made while the handle is moved fails the verification   *)
(* after the rename, and the object is moved back under a retained name.   *)
(***************************************************************************)
Retain(x) ==
    /\ ~ unix /\ meddled < MaxMeddling
    /\ x[2] = "file" /\ x \notin swapped \cup alias
    /\ alias' = alias \cup {x} /\ meddled' = meddled + 1
    /\ Place(x, "retained")
    /\ Leave
    /\ UNCHANGED <<unix, full, swapped, batch, crashes>>

StageRetained ==
    /\ pc = "stage" /\ batch[at] = "ready"
    /\ \E x \in At(at, "tomb") : Retain(x)

StageDone ==
    /\ pc = "stage"
    /\ At(at, "tomb") = {} /\ batch[at] # "pending"
    /\ GoOn
    /\ sound' = IF pc' = "stage" THEN sound ELSE {}
    /\ Calm /\ UNCHANGED <<disk, todo, item>>

-----------------------------------------------------------------------------
\* Mutant: a cleanup leaf is held to what holds of a tombstone.
Validated_LeafToo(r) ==
    /\ Staged(r) \cap swapped = {}
    /\ \A x \in Staged(r) : IsFile(x) => x \notin alias /\ (unix => x \notin full)

(***************************************************************************)
(* validate_batch: every child of the batch is what its name says; a       *)
(* staged file has one link and, on Unix, no content; a cleanup leaf may   *)
(* have both.  What a staged tree holds is recorded, whatever it is.       *)
(***************************************************************************)
Validated(r) ==
    /\ Staged(r) \cap swapped = {}
    /\ place[File(r)] = "batch" =>
          File(r) \notin alias /\ (unix => File(r) \notin full)

Validate ==
    /\ pc = "validate"
    /\ IF Validated(at)
       THEN /\ swapped' = swapped \ Within(at)
            /\ GoOn
            /\ UNCHANGED <<unix, disk, alias, todo, item, sound, meddled, crashes>>
       ELSE Refuse

\* The entries still are those of the snapshot.
Matches(r) == (Staged(r) \cup Within(r)) \cap swapped = {}

\* secure_validated_directories
Secure ==
    /\ pc = "secure"
    /\ IF Matches(at)
       THEN /\ sound' = IF (Staged(at) \cup Within(at)) \cap swapped = {}
                      THEN sound \cup {at} ELSE sound
            /\ GoOn
            /\ Calm /\ UNCHANGED <<disk, todo, item>>
       ELSE Refuse

\* One removal, after its last look at the object.
Remove(x) ==
    /\ Place(x, "gone")
    /\ Calm /\ UNCHANGED <<full, batch, pc, at, todo, item, sound>>

\* delete_validated_entries, a tombstone: identity, one link, no content (Unix).
DeleteFile(x) ==
    IF x \in swapped \/ x \in alias \/ (unix /\ x \in full) THEN Refuse ELSE Remove(x)

\* A cleanup leaf of this or of an interrupted pass, and a nested file on
\* Windows: its identity only, for one name is removed and nothing truncated.
DeleteLeaf(x) == IF x \in swapped THEN Refuse ELSE Remove(x)

\* Unix: the nested file is moved to the batch root before it is unlinked.
Isolate(x) ==
    IF x \in swapped
    THEN Refuse
    ELSE /\ Place(x, "leaf")
         /\ Calm /\ UNCHANGED <<full, batch, pc, at, todo, item, sound>>

\* Mutant: the evacuation is done on Windows, too.
DeleteTree_Isolates(x) ==
    IF x \in swapped THEN Refuse
    ELSE IF Within(at) = {} THEN Remove(x) ELSE Isolate(Nested(at))

DeleteTree(x) ==
    IF x \in swapped THEN Refuse
    ELSE IF Within(at) = {} THEN Remove(x)
    ELSE IF unix THEN Isolate(Nested(at)) ELSE DeleteLeaf(Nested(at))

(***************************************************************************)
(* The entries go one by one, each with a synchronization; their order is  *)
(* that of the names, which hold identities.  A leaf goes at once.         *)
(***************************************************************************)
Delete ==
    /\ pc = "delete"
    /\ \E x \in Staged(at) :
          /\ x # Nested(at) => At(at, "leaf") = {}
          /\ CASE x = Nested(at) -> DeleteLeaf(x)
               [] x = File(at)   -> DeleteFile(x)
               [] x = Tree(at)   -> DeleteTree(x)

DeleteBatch ==
    /\ pc = "delete" /\ Staged(at) = {}
    /\ batch' = [batch EXCEPT ![at] = "none"]
    /\ GoOn
    /\ Calm /\ UNCHANGED <<place, full, todo, item, sound>>

-----------------------------------------------------------------------------
(***************************************************************************)
(* The mutation itself: it writes what is missing and removes some of what *)
(* is there.                                                               *)
(***************************************************************************)
Missing == {x \in Things : place[x] = "gone"}

Mutate ==
    /\ pc = "mutate" /\ todo = {}
    /\ \E removals \in SUBSET {o \in Objects : place[o] = "live"} :
          /\ removals # {}
          /\ todo' = removals
    /\ place' = [x \in Things |-> IF x \in Missing THEN "live" ELSE place[x]]
    /\ full' = full \cup {x \in Missing : IsFile(x)}
    /\ alias' = alias \ Missing
    /\ UNCHANGED <<unix, batch, pc, at, item, swapped, sound, meddled, crashes>>

Idle == pc = "mutate" /\ todo = {} /\ Leave /\ Calm /\ UNCHANGED disk

(***************************************************************************)
(* quarantine_open_file_to and quarantine_open_directory_to.  Unix renames *)
(* the name, whatever it leads to by then; Windows moves the object of the *)
(* verified handle, first under a retained name.                           *)
(***************************************************************************)
MoveAside ==
    /\ pc = "mutate"
    /\ \E x \in todo :
          IF (IsFile(x) /\ x \in alias) \/ (~ unix /\ x \in swapped)
          THEN Refuse
          ELSE /\ Place(x, IF unix THEN "tomb" ELSE "retained")
               /\ item' = x /\ Goto("strip", 1)
               /\ Calm /\ UNCHANGED <<full, batch, todo, sound>>

Removed ==
    /\ todo' = todo \ {item} /\ item' = File(1)
    /\ IF todo' = {} THEN Goto("idle", 1) /\ sound' = {}
                     ELSE Goto("mutate", 1) /\ UNCHANGED sound

\* Unix: what was moved is the object that was opened, with no other name.
Strip ==
    /\ pc = "strip" /\ unix
    /\ IF item \in swapped \/ (IsFile(item) /\ item \in alias)
       THEN Refuse
       ELSE IF IsFile(item)
       THEN full' = full \ {item} /\ Removed /\ Calm /\ UNCHANGED <<place, batch>>
       ELSE IF place[Nested(item[1])] = "live"
       THEN /\ Place(Nested(item[1]), "gone")
            /\ Calm /\ UNCHANGED <<full, batch, pc, at, todo, item, sound>>
       ELSE Place(item, "gone") /\ Removed /\ Calm /\ UNCHANGED <<full, batch>>

\* Windows: the moved object gets the name that states its identity.
PromoteTombstone ==
    /\ pc = "strip" /\ ~ unix
    /\ IF item \in swapped \/ (IsFile(item) /\ item \in alias)
       THEN Refuse
       ELSE Place(item, "tomb") /\ Removed /\ Calm /\ UNCHANGED <<full, batch>>

PromoteRetained == pc = "strip" /\ Retain(item)

-----------------------------------------------------------------------------
(***************************************************************************)
(* The environment.  A foreign object takes a name of the quarantine, the  *)
(* name of an object that is being removed, or that of a nested file whose *)
(* tree is staged (before that it belongs to the tree).                    *)
(***************************************************************************)
Swap ==
    /\ meddled < MaxMeddling
    /\ \E x \in Things \ swapped :
          /\ \/ place[x] \in {"retained", "tomb", "batch", "leaf"}
             \/ x \in todo
             \/ x \in Within(x[1])
          /\ swapped' = swapped \cup {x}
    /\ meddled' = meddled + 1
    /\ UNCHANGED <<unix, disk, alias, pc, at, todo, item, sound, crashes>>

Link ==
    /\ meddled < MaxMeddling
    /\ \E x \in Things \ alias :
          /\ IsFile(x) /\ place[x] # "gone"
          /\ alias' = alias \cup {x}
    /\ meddled' = meddled + 1
    /\ UNCHANGED <<unix, disk, swapped, pc, at, todo, item, sound, crashes>>

Crash ==
    /\ pc # "idle" /\ crashes < MaxCrashes
    /\ crashes' = crashes + 1
    /\ Leave
    /\ UNCHANGED <<unix, disk, foreign>>

Step ==
    \/ Start \/ Inspect
    \/ CreatePending \/ Promote \/ Stage \/ StageDone
    \/ Validate \/ Secure \/ Delete \/ DeleteBatch
    \/ Mutate \/ Idle \/ MoveAside \/ Strip \/ PromoteTombstone

Next == Step \/ StageRetained \/ PromoteRetained \/ Swap \/ Link \/ Crash

Spec == Init /\ [][Next]_vars

\* A process runs on until it crashes, and another attempt is made after it.
FairSpec == Spec /\ WF_vars(Step)

-----------------------------------------------------------------------------
(***************************************************************************)
(* Nothing is deleted but what a tombstone's identity, or the snapshot of  *)
(* the tree it was found in, authorizes: a foreign object under any of the *)
(* names survives removal, cleanup and every crash; and no file is         *)
(* truncated that has another name.                                        *)
(***************************************************************************)
OnlyOwnedRemoved ==
    [][/\ \A x \in swapped : place'[x] = "gone" => place[x] = "gone"
       /\ alias \cap full \subseteq full']_vars

(***************************************************************************)
(* Nothing is staged in any root unless the tombstones of all roots were   *)
(* found to be the objects their names state, and nothing is deleted in    *)
(* any root unless the batches of all of them were, afterwards (ADR 0037). *)
(***************************************************************************)
AllRootsFirst ==
    [][disk' # disk /\ pc \in {"stage", "delete"} => sound = Roots]_vars

(***************************************************************************)
(* What cannot be reclaimed without deciding about something foreign, or,  *)
(* on Windows, what a crash left under a retained name.                    *)
(***************************************************************************)
Obstructed ==
    \E x \in Things :
        \/ place[x] \in {"tomb", "batch", "leaf"} /\ x \in swapped
        \/ place[x] \in {"tomb", "batch"} /\ x[2] = "file" /\ x \in alias
        \/ place[x] = "retained"

Empty == \A r \in Roots :
    batch[r] = "none" /\ At(r, "retained") \cup At(r, "tomb") \cup Staged(r) = {}

(***************************************************************************)
(* Whatever a crash leaves in the quarantine, in a removal or in a         *)
(* cleanup, later attempts reclaim.                                        *)
(***************************************************************************)
Converges == []<>Empty \/ <>[]Obstructed
=============================================================================
