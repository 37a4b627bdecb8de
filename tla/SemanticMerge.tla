--------------------------- MODULE SemanticMerge ---------------------------
(***************************************************************************)
(* Portable manifests and their three-way merge: merge_manifests and the   *)
(* choice of plan_sync.  A manifest holds assets, packs of assets or of    *)
(* other packs, and profiles; assets and packs share one space of          *)
(* identities.  Hashes are abstracted: a revision is the value it names.   *)
(*                                                                         *)
(* Left out: required bindings (no asset the merge supports declares one), *)
(* the component budget, and missing or unreadable objects, which end the  *)
(* plan with the same error as an invalid manifest.                        *)
(***************************************************************************)
EXTENDS Integers

CONSTANTS
    Ids,        \* identities of assets and packs
    Harnesses,  \* harnesses an asset can have a native variant for
    Pi,         \* the one harness with native extensions
    Profiles,   \* identities of profiles
    None        \* nothing there

ASSUME MergeAssumption ==
    Pi \in Harnesses /\ \A tag \in {None, "kind", "portable"} : tag \notin Harnesses

(***************************************************************************)
(* The recorded fidelity evidence of a skill says how it was found: by     *)
(* observing the origin, or by deriving it from the selected objects.      *)
(***************************************************************************)
Asset(kinds, versions) ==
    [kind : kinds, portable : versions \cup {None},
     native : [Harnesses -> versions \cup {None}], derived : BOOLEAN]

Pack(sources) == [source : sources, members : (SUBSET Ids) \ {{}}]

Manifest(kinds, versions, sources, values) ==
    [assets   : [Ids -> Asset(kinds, versions) \cup {None}],
     packs    : [Ids -> Pack(sources) \cup {None}],
     profiles : [Profiles -> values \cup {None}]]

EmptyManifest ==
    [assets   |-> [id \in Ids |-> None],
     packs    |-> [id \in Ids |-> None],
     profiles |-> [w \in Profiles |-> None]]

Members(pack) == IF pack = None THEN {} ELSE pack.members
Source(pack)  == IF pack = None THEN None ELSE pack.source

(***************************************************************************)
(* EnvironmentManifest::validate: one kind per identity, every member      *)
(* present, no pack inside itself.  Some pack is inside itself when every  *)
(* pack of a nonempty set has a member in the set.                         *)
(***************************************************************************)
Clash(m) == \E id \in Ids : m.assets[id] # None /\ m.packs[id] # None

Dangling(m) ==
    \E id \in Ids : \E x \in Members(m.packs[id]) : m.assets[x] = None /\ m.packs[x] = None

Cyclic(m) ==
    \E S \in (SUBSET Ids) \ {{}} :
        \A id \in S : Members(m.packs[id]) \cap S # {}

Valid(m) == ~Clash(m) /\ ~Dangling(m) /\ ~Cyclic(m)

-----------------------------------------------------------------------------
\* Mutants: the local side always wins; an absence is a change like another.
Choose_Local(b, l, r)  == l
Deleted_Never(b, l, r) == FALSE

(***************************************************************************)
(* choose, and the two ways it fails for a component.                      *)
(***************************************************************************)
Deleted(b, l, r)  == b # None /\ (l = None \/ r = None)
Diverged(b, l, r) == l # r /\ l # b /\ r # b

Choose(b, l, r) == IF l = r THEN l ELSE IF l = b THEN r ELSE l

Problem(b, l, r) ==
    IF Deleted(b, l, r) THEN {"deletion_unsupported"}
    ELSE IF Diverged(b, l, r) THEN {"divergent_component"} ELSE {}

\* After a conflict the draft keeps the base's component.
Pick(b, l, r) == IF Problem(b, l, r) # {} THEN b ELSE Choose(b, l, r)

(***************************************************************************)
(* merge_existing_asset: kind, portable content and every native variant   *)
(* on their own.  What the record derives from them is not compared.       *)
(***************************************************************************)
ExistingProblems(b, l, r) ==
    ({"kind"} \X Problem(b.kind, l.kind, r.kind))
    \cup ({"portable"} \X Problem(b.portable, l.portable, r.portable))
    \cup UNION {{h} \X Problem(b.native[h], l.native[h], r.native[h]) : h \in Harnesses}

MergeExisting(b, l, r) ==
    [kind     |-> Pick(b.kind, l.kind, r.kind),
     portable |-> Pick(b.portable, l.portable, r.portable),
     native   |-> [h \in Harnesses |-> Pick(b.native[h], l.native[h], r.native[h])],
     derived  |-> b.derived]

(***************************************************************************)
(* merge_assets for one identity: an asset is compared as a whole unless   *)
(* all three manifests have it.  A draft of another kind or shape than the *)
(* two supported is a conflict, changed or not.                            *)
(***************************************************************************)
Everywhere(b, l, r) == None \notin {b, l, r}

Draft(b, l, r) ==
    IF Everywhere(b, l, r) THEN MergeExisting(b, l, r)
    ELSE IF Deleted(b, l, r) THEN None ELSE Pick(b, l, r)

Supported(draft) ==
    LET variants == {h \in Harnesses : draft.native[h] # None}
    IN  \/ draft.kind = "skill" /\ (draft.portable # None \/ variants # {})
        \/ draft.kind = "extension" /\ draft.portable = None /\ variants = {Pi}

\* The subject of a conflict about a whole asset: of a Pi extension, its native variant.
Subject(b) == IF b # None /\ b.kind = "extension" /\ b.native[Pi] # None THEN Pi ELSE "kind"

\* Mutant: only a draft that differs from the base is held to a supported shape.
AssetProblems_Changed(b, l, r) ==
    (IF Everywhere(b, l, r) THEN ExistingProblems(b, l, r) ELSE {Subject(b)} \X Problem(b, l, r))
    \cup (IF Draft(b, l, r) \notin {None, b} /\ ~Supported(Draft(b, l, r))
          THEN {<<"kind", "component_unsupported">>} ELSE {})

AssetProblems(b, l, r) ==
    (IF Everywhere(b, l, r) THEN ExistingProblems(b, l, r) ELSE {Subject(b)} \X Problem(b, l, r))
    \cup (IF Draft(b, l, r) # None /\ ~Supported(Draft(b, l, r))
          THEN {<<"kind", "component_unsupported">>} ELSE {})

(***************************************************************************)
(* merge_packs: the source is chosen, memberships are united and never     *)
(* shrink; a pack created on both sides has to be the same one.            *)
(***************************************************************************)
PackProblem(b, l, r) ==
    IF Deleted(b, l, r) THEN {"deletion_unsupported"}
    ELSE IF \/ Diverged(Source(b), Source(l), Source(r))
            \/ b = None /\ Diverged(b, l, r)
         THEN {"divergent_component"}
    ELSE IF ~(Members(b) \subseteq Members(l) \cap Members(r))
         THEN {"deletion_unsupported"} ELSE {}

\* Mutant: the members of the local pack are taken when both packs are there.
MergePack_Local(b, l, r) ==
    IF None = l /\ None = r THEN None
    ELSE [source  |-> Choose(Source(b), Source(l), Source(r)),
          members |-> IF l # None THEN l.members ELSE r.members]

MergePack(b, l, r) ==
    IF l = None /\ r = None THEN None
    ELSE [source  |-> Choose(Source(b), Source(l), Source(r)),
          members |-> Members(b) \cup Members(l) \cup Members(r)]

(***************************************************************************)
(* reject_changed_profiles.                                                *)
(***************************************************************************)
ProfileProblem(b, l, r) ==
    IF b = l /\ b = r THEN {}
    ELSE IF Deleted(b, l, r) THEN {"deletion_unsupported"} ELSE {"component_unsupported"}

(***************************************************************************)
(* merge_manifests: all conflicts, or a manifest whose derived fields are  *)
(* computed anew, or an error when that manifest is not a valid one.       *)
(***************************************************************************)
AssetConflicts(b, l, r) ==
    UNION {{id} \X AssetProblems(b.assets[id], l.assets[id], r.assets[id]) : id \in Ids}

PackConflicts(b, l, r) ==
    UNION {{id} \X ({"pack"} \X PackProblem(b.packs[id], l.packs[id], r.packs[id])) : id \in Ids}

ProfileConflicts(b, l, r) ==
    UNION {{w} \X ({"profile"} \X ProfileProblem(b.profiles[w], l.profiles[w], r.profiles[w])) :
               w \in Profiles}

Conflicts(b, l, r) ==
    AssetConflicts(b, l, r) \cup PackConflicts(b, l, r) \cup ProfileConflicts(b, l, r)

\* Mutant: the evidence is toggled.
Rederive_Toggle(draft) == IF draft = None THEN None ELSE [draft EXCEPT !.derived = ~@]

\* derive_asset
Rederive(draft) == IF draft = None THEN None ELSE [draft EXCEPT !.derived = TRUE]

MergedManifest(b, l, r) ==
    [assets   |-> [id \in Ids |-> Rederive(Draft(b.assets[id], l.assets[id], r.assets[id]))],
     packs    |-> [id \in Ids |-> MergePack(b.packs[id], l.packs[id], r.packs[id])],
     profiles |-> b.profiles]

Result(status, manifest, conflicts) ==
    [status |-> status, manifest |-> manifest, conflicts |-> conflicts]

\* Mutant: the merged manifest is not validated.
Merge_Unchecked(b, l, r) ==
    IF Conflicts(b, l, r) # {} THEN Result("blocked", None, Conflicts(b, l, r))
    ELSE Result("ready", MergedManifest(b, l, r), {})

Merge(b, l, r) ==
    LET conflicts == Conflicts(b, l, r)
        merged    == MergedManifest(b, l, r)
    IN  IF conflicts # {} THEN Result("blocked", None, conflicts)
        ELSE IF ~Valid(merged) THEN Result("invalid", None, {})
        ELSE Result("ready", merged, {})

(***************************************************************************)
(* plan_sync over the local manifest, the retained base and the remote     *)
(* head, either of which can be None.                                      *)
(***************************************************************************)
Plan(l, b, r) ==
    IF b # None /\ r # None THEN Merge(b, l, r)
    ELSE IF b # None \/ (r = None /\ l = EmptyManifest) THEN Result("refused", None, {})
    ELSE IF r = None \/ r = l THEN Result("ready", l, {})
    ELSE IF l = EmptyManifest THEN Result("ready", r, {})
    ELSE Result("blocked", None, {<<"bootstrap", <<"bootstrap", "bootstrap_ambiguous">>>>})
=============================================================================
