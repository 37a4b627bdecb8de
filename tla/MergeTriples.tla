---------------------------- MODULE MergeTriples ----------------------------
(***************************************************************************)
(* merge_manifests on every triple of manifests of some families: what it  *)
(* returns against a definition of a three-way merge over the parts of a   *)
(* manifest, and against itself with the sides exchanged or the changes    *)
(* published one after the other.                                          *)
(***************************************************************************)
EXTENDS SemanticMerge

CONSTANTS
    AssetKinds, Revisions, Sources, Values,   \* what manifests are made of
    Families   \* sets of manifests; the three of a triple are of one set

AllManifests == Manifest(AssetKinds, Revisions, Sources, Values)

ASSUME TripleAssumption ==
    /\ \A F \in Families : F \subseteq AllManifests
    /\ None \notin AssetKinds /\ None \notin Revisions
    /\ None \notin Sources /\ None \notin Values
    /\ None \notin Asset(AssetKinds, Revisions) /\ None \notin Pack(Sources)

VARIABLES
    triple,    \* the base, the local and the remote manifest
    outcome    \* what merge_manifests returned for them

TripleInit ==
    /\ \E F \in Families : triple \in [base : F, local : F, remote : F]
    /\ \A m \in {triple.base, triple.local, triple.remote} : Valid(m)
    /\ outcome = None

MergeOnce ==
    /\ outcome = None
    /\ outcome' = Merge(triple.base, triple.local, triple.remote)
    /\ UNCHANGED triple

TripleSpec == TripleInit /\ [][MergeOnce]_<<triple, outcome>>

-----------------------------------------------------------------------------
(***************************************************************************)
(* The reference: a manifest as a table of parts, None where there is no   *)
(* such part.                                                              *)
(***************************************************************************)
Parts == Ids \X ({"kind", "portable"} \cup Harnesses)

Part(m, p) ==
    LET asset == m.assets[p[1]]
    IN  IF asset = None THEN None
        ELSE IF p[2] \in Harnesses THEN asset.native[p[2]] ELSE asset[p[2]]

Changed(b, m, p) == Part(m, p) # Part(b, p)

\* What three-way reconciliation makes of a part.
Reconciled(b, l, r, p) == IF Changed(b, l, p) THEN Part(l, p) ELSE Part(r, p)

\* The reasons for which a merge has to be left to the user.
Lost(b, l, r) ==
    \/ \E p \in Parts : Part(b, p) # None /\ None \in {Part(l, p), Part(r, p)}
    \/ \E id \in Ids : ~(Members(b.packs[id]) \subseteq Members(l.packs[id]) \cap Members(r.packs[id]))

Opposed(b, l, r) ==
    \/ \E p \in Parts : Changed(b, l, p) /\ Changed(b, r, p) /\ Part(l, p) # Part(r, p)
    \/ \E id \in Ids : /\ Source(l.packs[id]) \notin {Source(b.packs[id]), Source(r.packs[id])}
                       /\ Source(r.packs[id]) # Source(b.packs[id])

BothNew(b, l, r, f) ==
    \E id \in Ids : b[f][id] = None /\ None \notin {l[f][id], r[f][id]} /\ l[f][id] # r[f][id]

Profiled(b, l, r) == \E m \in {l, r} : m.profiles # b.profiles

Shape(b, l, r, id) ==
    [kind     |-> Reconciled(b, l, r, <<id, "kind">>),
     portable |-> Reconciled(b, l, r, <<id, "portable">>),
     native   |-> [h \in Harnesses |-> Reconciled(b, l, r, <<id, h>>)]]

Unsupported(b, l, r) ==
    \E id \in Ids : Shape(b, l, r, id).kind # None /\ ~Supported(Shape(b, l, r, id))

Reason(b, l, r) ==
    \/ Lost(b, l, r) \/ Opposed(b, l, r) \/ Profiled(b, l, r) \/ Unsupported(b, l, r)
    \/ BothNew(b, l, r, "assets") \/ BothNew(b, l, r, "packs")

ReferenceMembers(b, l, r, id) == UNION {Members(m.packs[id]) : m \in {b, l, r}}

\* result is the three-way merge of l and r over b.
ThreeWay(b, l, r, result) ==
    /\ result.status = "blocked" <=> Reason(b, l, r)
    /\ result.status = "ready" =>
           /\ \A p \in Parts : Part(result.manifest, p) = Reconciled(b, l, r, p)
           /\ \A id \in Ids : Members(result.manifest.packs[id]) = ReferenceMembers(b, l, r, id)
           /\ result.manifest.profiles = b.profiles
    /\ result.status = "invalid" =>
           \/ \E id \in Ids : /\ Reconciled(b, l, r, <<id, "kind">>) # None
                              /\ ReferenceMembers(b, l, r, id) # {}
           \/ \E S \in (SUBSET Ids) \ {{}} :
                  \A id \in S : ReferenceMembers(b, l, r, id) \cap S # {}

(***************************************************************************)
(* merge_manifests is a three-way merge of parts: it returns a manifest    *)
(* exactly when nothing stands against one, and that manifest has the      *)
(* changed parts of both sides and the united memberships; without a       *)
(* reason it fails only for packs inside each other or an identity taken   *)
(* twice, never for a missing member.                                      *)
(***************************************************************************)
MergeIsThreeWay ==
    outcome # None => ThreeWay(triple.base, triple.local, triple.remote, outcome)

(***************************************************************************)
(* The machine that merges has no say in the result: with local and remote *)
(* exchanged, merge_manifests returns the same manifest and conflicts.     *)
(***************************************************************************)
SidesAreEqual == outcome # None => outcome = Merge(triple.base, triple.remote, triple.local)

(***************************************************************************)
(* The order of publication does not matter: two machines that start from  *)
(* one base and publish one after the other end with what a merge of both  *)
(* changes gives, unless both added one identity.  The machine that        *)
(* publishes first merges its changes with the base itself, which it can   *)
(* when what it has is of a supported shape.                               *)
(***************************************************************************)
Added(b, m) == {id \in Ids : b.assets[id] = None /\ m.assets[id] # None}

InOrder(b, l, r, result) ==
    LET first == Merge(b, l, b)
    IN  first.status = "ready" => Merge(b, r, first.manifest) = result

OrderDoesNotMatter ==
    LET b == triple.base
        l == triple.local
        r == triple.remote
    IN  outcome # None /\ outcome.status = "ready" /\ Added(b, l) \cap Added(b, r) = {}
            => InOrder(b, l, r, outcome)

(***************************************************************************)
(* A merged manifest is final: merged with itself it does not change, so   *)
(* a sync without edits publishes nothing.                                 *)
(***************************************************************************)
MergedIsFinal ==
    outcome # None /\ outcome.status = "ready" =>
        Merge(outcome.manifest, outcome.manifest, outcome.manifest) = outcome
=============================================================================
