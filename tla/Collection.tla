----------------------------- MODULE Collection -----------------------------
(***************************************************************************)
(* The collections of several machines: what adoption, update, packs,      *)
(* rollback and import write into a manifest, and the merges by which the  *)
(* manifests meet in one shared history.  A sync is one step here;         *)
(* SyncTransaction opens it up.                                            *)
(***************************************************************************)
EXTENDS SemanticMerge, Sequences

CONSTANTS
    Machines,     \* machines that share the history
    Kinds,        \* kinds of assets that are adopted
    Contents,     \* contents found at a harness
    Starters,     \* collections all machines can start from, EmptyManifest among them
    MaxHistory,   \* SyncLimits::max_backend_history
    MaxEdits      \* bound on the local edits together

VARIABLES
    local,     \* manifest of each machine
    base,      \* position in the history of each machine's base, 0 without one
    history,   \* published manifests, the oldest first
    edits      \* local edits so far

vars == <<local, base, history, edits>>

\* An adopted object has the root of its asset, an updated one a root of its own.
Versions == Contents \X Harnesses \X {"adopted", "updated"}

Manifests == Manifest(Kinds, Versions, {"authored"}, {})

ASSUME CollectionAssumption ==
    /\ MaxHistory \in Nat \ {0} /\ MaxEdits \in Nat
    /\ \A start \in Starters : start \in Manifests /\ Valid(start)
    /\ "authored" # None
    /\ None \notin Kinds /\ None \notin Versions
    /\ None \notin Asset(Kinds, Versions) /\ None \notin Pack({"authored"})
    /\ None \notin Manifests

Tip        == IF history = << >> THEN None ELSE history[Len(history)]
BaseOf(m)   == IF base[m] = 0 THEN None ELSE history[base[m]]
SyncPlan(m) == Plan(local[m], BaseOf(m), Tip)

TypeOK ==
    /\ local \in [Machines -> Manifests]
    /\ history \in Seq(Manifests)
    /\ \A m \in Machines : Valid(local[m])
    /\ \A i \in 1 .. Len(history) : Valid(history[i])
    /\ base \in [Machines -> 0 .. Len(history)]
    /\ Len(history) <= MaxHistory
    /\ edits \in 0 .. MaxEdits

Init ==
    \E start \in Starters :
        /\ local = [m \in Machines |-> start]
        /\ history = IF start = EmptyManifest THEN << >> ELSE <<start>>
        /\ base = [m \in Machines |-> Len(history)]
        /\ edits = 0

-----------------------------------------------------------------------------
(***************************************************************************)
(* pack_closure, and the revision of a record: an asset, or a pack with    *)
(* everything in it.                                                       *)
(***************************************************************************)
Closure(m, id) ==
    {x \in Ids : \A S \in SUBSET Ids :
                     id \in S /\ (\A y \in S : Members(m.packs[y]) \subseteq S) => x \in S}

Revision(m, id) ==
    [x \in Closure(m, id) |-> <<m.assets[x], m.packs[x]>>]

Has(m, id) == m.assets[id] # None \/ m.packs[id] # None

SameRecord(m1, m2, id) == Has(m1, id) /\ Has(m2, id) /\ Revision(m1, id) = Revision(m2, id)

\* Every proposal is validated before it is committed.
Write(m, new) ==
    /\ edits < MaxEdits
    /\ Valid(new)
    /\ local' = [local EXCEPT ![m] = new]
    /\ edits' = edits + 1
    /\ UNCHANGED <<base, history>>

(***************************************************************************)
(* plan_adoption under a free identity.  An extension keeps its one native *)
(* variant and has the same evidence however it is derived.                *)
(***************************************************************************)
Adopted(kind, v) ==
    [kind     |-> kind,
     portable |-> IF kind = "extension" THEN None ELSE v,
     native   |-> [h \in Harnesses |-> IF h = v[2] THEN v ELSE None],
     derived  |-> kind = "extension"]

Adopt(m, id, kind, c, h) ==
    /\ ~Has(local[m], id)
    /\ kind = "extension" => h = Pi
    /\ Write(m, [local[m] EXCEPT !.assets[id] = Adopted(kind, <<c, h, "adopted">>)])

(***************************************************************************)
(* plan_update_adoption: portable content and the variant of one harness   *)
(* are replaced, the other variants stay, the evidence is derived.         *)
(***************************************************************************)
Updated(asset, v) ==
    [asset EXCEPT !.portable = v, !.native[v[2]] = v, !.derived = TRUE]

Update(m, id, c, h) ==
    /\ local[m].assets[id] # None /\ local[m].assets[id].kind = "skill"
    /\ local[m].assets[id] # Updated(local[m].assets[id], <<c, h, "updated">>)
    /\ Write(m, [local[m] EXCEPT !.assets[id] = Updated(@, <<c, h, "updated">>)])

(***************************************************************************)
(* plan_authored_pack_creation and plan_pack_update.                       *)
(***************************************************************************)
Authored(members) == [source |-> "authored", members |-> members]

CreatePack(m, id, members) ==
    /\ ~Has(local[m], id)
    /\ id \notin members /\ members # {}
    /\ Write(m, [local[m] EXCEPT !.packs[id] = Authored(members)])

UpdatePack(m, id, members) ==
    /\ local[m].packs[id] # None /\ local[m].packs[id].members # members
    /\ id \notin members /\ members # {}
    /\ Write(m, [local[m] EXCEPT !.packs[id].members = members])

(***************************************************************************)
(* The records of a closure taken over from another manifest.              *)
(***************************************************************************)
Graft(to, from, closure) ==
    [to EXCEPT
        !.assets = [id \in Ids |-> IF id \in closure /\ from.assets[id] # None
                                   THEN from.assets[id] ELSE to.assets[id]],
        !.packs  = [id \in Ids |-> IF id \in closure /\ from.packs[id] # None
                                   THEN from.packs[id] ELSE to.packs[id]]]

(***************************************************************************)
(* select_pack_rollback_snapshot: the pack is what the head has, and one   *)
(* older snapshot only has the revision to return to.                      *)
(***************************************************************************)
Older == 1 .. Len(history) - 1

Selected(m, id, i) ==
    /\ SameRecord(Tip, local[m], id)
    /\ history[i].packs[id] # None /\ ~SameRecord(history[i], Tip, id)
    /\ \A j \in Older \ {i} :
           history[j].packs[id] = None \/ ~SameRecord(history[j], history[i], id)

(***************************************************************************)
(* plan_pack_rollback: a record outside the current closure is replaced by *)
(* no other revision, none by a record of the other kind, and an older     *)
(* record with executable content never comes back.                        *)
(***************************************************************************)
Executable(m, id) ==
    \E x \in Closure(m, id) : m.assets[x] # None /\ m.assets[x].kind = "extension"

Replaceable(m, id, from, x) ==
    /\ IF from.assets[x] # None THEN local[m].packs[x] = None ELSE local[m].assets[x] = None
    /\ \/ SameRecord(local[m], from, x)
       \/ /\ x \in Closure(local[m], id) \/ ~Has(local[m], x)
          /\ ~Executable(from, x)

Rollback(m, id, i) ==
    /\ local[m].packs[id] # None
    /\ Selected(m, id, i)
    /\ \A x \in Closure(history[i], id) : Replaceable(m, id, history[i], x)
    /\ Write(m, Graft(local[m], history[i], Closure(history[i], id)))

\* Mutant: an import replaces what differs.
Import_Over(m, selected) ==
    /\ selected # {} /\ \A id \in selected : Has(Tip, id)
    /\ Write(m, Graft(local[m], Tip, UNION {Closure(Tip, id) : id \in selected}))

(***************************************************************************)
(* plan_collection_import of some records of the head, and                 *)
(* plan_pack_distribution_adoption of one pack the machine does not have:  *)
(* what is there already has to be the same.                               *)
(***************************************************************************)
Import(m, selected) ==
    LET closure == UNION {Closure(Tip, id) : id \in selected}
    IN  /\ selected # {} /\ \A id \in selected : Has(Tip, id)
        /\ \A x \in closure : Has(local[m], x) => SameRecord(local[m], Tip, x)
        /\ Write(m, Graft(local[m], Tip, closure))

AdoptPack(m, id) ==
    /\ Tip.packs[id] # None /\ ~Has(local[m], id)
    /\ Import(m, {id})

(***************************************************************************)
(* sync: a ready plan is published when it differs from the head, becomes  *)
(* the local manifest and the base.                                        *)
(***************************************************************************)
Sync(m) ==
    LET plan   == SyncPlan(m)
        merged == plan.manifest
    IN  /\ plan.status = "ready"
        /\ merged # Tip => Len(history) < MaxHistory
        /\ history' = IF merged = Tip THEN history ELSE Append(history, merged)
        /\ local' = [local EXCEPT ![m] = merged]
        /\ base' = [base EXCEPT ![m] = Len(history')]
        /\ UNCHANGED edits

Edit(m) ==
    \/ \E id \in Ids, kind \in Kinds, c \in Contents, h \in Harnesses : Adopt(m, id, kind, c, h)
    \/ \E id \in Ids, c \in Contents, h \in Harnesses : Update(m, id, c, h)
    \/ \E id \in Ids, members \in SUBSET Ids : CreatePack(m, id, members)
    \/ \E id \in Ids, members \in SUBSET Ids : UpdatePack(m, id, members)
    \/ \E id \in Ids, i \in Older : Rollback(m, id, i)
    \/ history # << >> /\ \E selected \in SUBSET Ids : Import(m, selected)
    \/ history # << >> /\ \E id \in Ids : AdoptPack(m, id)

Next == \E m \in Machines : Edit(m) \/ Sync(m)

Spec == Init /\ [][Next]_vars

-----------------------------------------------------------------------------
(***************************************************************************)
(* What is published stays: no head lacks a part, a pack or a member that  *)
(* the head before it had, whatever a machine removed by a pack update, a  *)
(* rollback or by never having received it (deletion_unsupported).         *)
(***************************************************************************)
Holds(m, id) ==
    IF m.assets[id] = None THEN Members(m.packs[id])
    ELSE {"kind"} \cup (IF m.assets[id].portable # None THEN {"portable"} ELSE {})
         \cup {h \in Harnesses : m.assets[id].native[h] # None}

PublishedStays ==
    [][history # << >> =>
           /\ \A id \in Ids : Holds(Tip, id) \subseteq Holds(Tip', id)
           /\ \A i \in 1 .. Len(history) : history'[i] = history[i]]_vars

(***************************************************************************)
(* A sync overwrites only what it knew: where the merged manifest differs  *)
(* from the head in a component, the machine's base had the head's, and    *)
(* where it differs from the local manifest the base had the local one.    *)
(***************************************************************************)
Component(m, id, part) ==
    IF m = None \/ m.assets[id] = None THEN None
    ELSE IF part = "portable" THEN m.assets[id].portable ELSE m.assets[id].native[part]

NoEditLost ==
    [][\A m \in Machines :
           Sync(m) =>
               \A id \in Ids, part \in {"portable"} \cup Harnesses, old \in {Tip, local[m]} :
                   \/ Component(Tip', id, part) = Component(old, id, part)
                   \/ Component(BaseOf(m), id, part) = Component(old, id, part)]_vars

(***************************************************************************)
(* Rollback and import leave the machine's other work alone: what was      *)
(* there is changed by no edit but an update of it, a pack update or the   *)
(* rollback of a pack that has it, and an import changes nothing.          *)
(***************************************************************************)
GraftsAreSelective ==
    [][\A m \in Machines, x \in Ids :
           Has(local[m], x) /\ <<local'[m].assets[x], local'[m].packs[x]>>
                                 # <<local[m].assets[x], local[m].packs[x]>> =>
               \/ Sync(m)
               \/ \E c \in Contents, h \in Harnesses : Update(m, x, c, h)
               \/ \E members \in SUBSET Ids : UpdatePack(m, x, members)
               \/ \E id \in Ids, i \in Older : Rollback(m, id, i) /\ x \in Closure(local[m], id)]_vars
=============================================================================
