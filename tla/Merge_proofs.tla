---------------------------- MODULE Merge_proofs ----------------------------
(***************************************************************************)
(* Theorems about the merge of manifests, for every value of the constants *)
(* of SemanticMerge: what one choice returns, that the sides of a merge    *)
(* are equal, and what a ready merge keeps of each side; with them the     *)
(* properties of MergeTriples (one merge of any three manifests) and of    *)
(* Collection (all edits and merges of any machines).                      *)
(***************************************************************************)
EXTENDS Collection, MergeTriples, TLAPS

(***************************************************************************)
(* choose returns one of the three, and the same with the sides exchanged  *)
(* unless they diverge.                                                    *)
(***************************************************************************)
LEMMA PickIsOne ==
    ASSUME NEW b, NEW l, NEW r
    PROVE  Pick(b, l, r) \in {b, l, r} /\ Choose(b, l, r) \in {b, l, r}
  BY DEF Pick, Choose

LEMMA ProblemSymmetric ==
    ASSUME NEW b, NEW l, NEW r
    PROVE  Problem(b, l, r) = Problem(b, r, l)
  BY DEF Problem, Deleted, Diverged

LEMMA ChooseSymmetric ==
    ASSUME NEW b, NEW l, NEW r, ~Diverged(b, l, r)
    PROVE  Choose(b, l, r) = Choose(b, r, l)
  BY DEF Choose, Diverged

LEMMA PickSymmetric ==
    ASSUME NEW b, NEW l, NEW r
    PROVE  Pick(b, l, r) = Pick(b, r, l)
<1>1. CASE Problem(b, l, r) # {}
  BY <1>1, ProblemSymmetric DEF Pick
<1>2. CASE Problem(b, l, r) = {}
  <2>1. ~Diverged(b, l, r)
    BY <1>2 DEF Problem, Deleted, Diverged
  <2>2. QED  BY <1>2, <2>1, ProblemSymmetric, ChooseSymmetric DEF Pick
<1>3. QED  BY <1>1, <1>2

(***************************************************************************)
(* A component without a problem keeps an edit of either side: where the   *)
(* choice differs from a side, the base had that side's component.  None   *)
(* of the sides loses a component.                                         *)
(***************************************************************************)
LEMMA ChoiceKeepsEdits ==
    ASSUME NEW b, NEW l, NEW r, Problem(b, l, r) = {}
    PROVE  /\ Pick(b, l, r) = l \/ b = l
           /\ Pick(b, l, r) = r \/ b = r
           /\ (l # None \/ r # None) => Pick(b, l, r) # None
<1>1. ~Deleted(b, l, r) /\ ~Diverged(b, l, r)
  BY DEF Problem
<1>2. Pick(b, l, r) = Choose(b, l, r)
  BY DEF Pick
<1>3. QED  BY <1>1, <1>2 DEF Choose, Deleted, Diverged

-----------------------------------------------------------------------------
(***************************************************************************)
(* merge_existing_asset, merge_assets and merge_packs with the sides       *)
(* exchanged.                                                              *)
(***************************************************************************)
LEMMA ExistingSymmetric ==
    ASSUME NEW b, NEW l, NEW r
    PROVE  /\ MergeExisting(b, l, r) = MergeExisting(b, r, l)
           /\ ExistingProblems(b, l, r) = ExistingProblems(b, r, l)
<1>1. \A x, y, z : Pick(x, y, z) = Pick(x, z, y)
  BY PickSymmetric
<1>2. \A x, y, z : Problem(x, y, z) = Problem(x, z, y)
  BY ProblemSymmetric
<1>3. MergeExisting(b, l, r) = MergeExisting(b, r, l)
  BY <1>1, Zenon DEF MergeExisting
<1>4. ExistingProblems(b, l, r) = ExistingProblems(b, r, l)
  <2> DEFINE P(h) == Problem(b.native[h], l.native[h], r.native[h])
             Q(h) == Problem(b.native[h], r.native[h], l.native[h])
  <2>1. \A h \in Harnesses : P(h) = Q(h)
    BY <1>2
  <2>2. UNION {{h} \X P(h) : h \in Harnesses} = UNION {{h} \X Q(h) : h \in Harnesses}
    <3> HIDE DEF P, Q
    <3>1. \A h \in Harnesses : {h} \X P(h) = {h} \X Q(h)
      BY <2>1
    <3>2. {{h} \X P(h) : h \in Harnesses} = {{h} \X Q(h) : h \in Harnesses}
      BY <3>1, Zenon
    <3>3. QED  BY <3>2, Zenon
  <2>3. Problem(b.kind, l.kind, r.kind) = Problem(b.kind, r.kind, l.kind)
    BY <1>2
  <2>4. Problem(b.portable, l.portable, r.portable) = Problem(b.portable, r.portable, l.portable)
    BY <1>2
  <2>5. QED  BY <2>2, <2>3, <2>4, Zenon DEF ExistingProblems
<1>5. QED  BY <1>3, <1>4

LEMMA AssetSymmetric ==
    ASSUME NEW b, NEW l, NEW r
    PROVE  /\ Draft(b, l, r) = Draft(b, r, l)
           /\ AssetProblems(b, l, r) = AssetProblems(b, r, l)
<1>1. Everywhere(b, l, r) = Everywhere(b, r, l)
  BY DEF Everywhere
<1>2. Deleted(b, l, r) = Deleted(b, r, l)
  BY DEF Deleted
<1>3. Draft(b, l, r) = Draft(b, r, l)
  BY <1>1, <1>2, ExistingSymmetric, PickSymmetric, Zenon DEF Draft
<1>4. Problem(b, l, r) = Problem(b, r, l)
  BY ProblemSymmetric
<1>5. AssetProblems(b, l, r) = AssetProblems(b, r, l)
  BY <1>1, <1>3, <1>4, ExistingSymmetric, Zenon DEF AssetProblems
<1>6. QED  BY <1>3, <1>5

LEMMA PackSymmetric ==
    ASSUME NEW b, NEW l, NEW r
    PROVE  /\ PackProblem(b, l, r) = PackProblem(b, r, l)
           /\ PackProblem(b, l, r) = {} => MergePack(b, l, r) = MergePack(b, r, l)
<1>1. \A x, y, z : Diverged(x, y, z) = Diverged(x, z, y) /\ Deleted(x, y, z) = Deleted(x, z, y)
  BY DEF Diverged, Deleted
<1>2. Members(l) \cap Members(r) = Members(r) \cap Members(l)
  OBVIOUS
<1>3. PackProblem(b, l, r) = PackProblem(b, r, l)
  BY <1>1, <1>2, Zenon DEF PackProblem
<1>4. ASSUME PackProblem(b, l, r) = {}
      PROVE  MergePack(b, l, r) = MergePack(b, r, l)
  <2>1. ~Diverged(Source(b), Source(l), Source(r))
    BY <1>4 DEF PackProblem
  <2>2. Choose(Source(b), Source(l), Source(r)) = Choose(Source(b), Source(r), Source(l))
    BY <2>1, ChooseSymmetric
  <2>3. Members(b) \cup Members(l) \cup Members(r) = Members(b) \cup Members(r) \cup Members(l)
    OBVIOUS
  <2>4. QED  BY <2>2, <2>3, Zenon DEF MergePack
<1>5. QED  BY <1>3, <1>4

LEMMA ProfileSymmetric ==
    ASSUME NEW b, NEW l, NEW r
    PROVE  ProfileProblem(b, l, r) = ProfileProblem(b, r, l)
  BY DEF ProfileProblem, Deleted

(***************************************************************************)
(* A merge without conflicts has none in any part.                         *)
(***************************************************************************)
LEMMA NoConflict ==
    ASSUME NEW b, NEW l, NEW r, Conflicts(b, l, r) = {}
    PROVE  \A id \in Ids :
               /\ AssetProblems(b.assets[id], l.assets[id], r.assets[id]) = {}
               /\ PackProblem(b.packs[id], l.packs[id], r.packs[id]) = {}
<1> SUFFICES ASSUME NEW id \in Ids
             PROVE  /\ AssetProblems(b.assets[id], l.assets[id], r.assets[id]) = {}
                    /\ PackProblem(b.packs[id], l.packs[id], r.packs[id]) = {}
  OBVIOUS
<1> DEFINE A == AssetProblems(b.assets[id], l.assets[id], r.assets[id])
           K == PackProblem(b.packs[id], l.packs[id], r.packs[id])
<1>1. AssetConflicts(b, l, r) = {} /\ PackConflicts(b, l, r) = {}
  BY Zenon DEF Conflicts
<1>2. \A x \in A : <<id, x>> \in AssetConflicts(b, l, r)
  <2> HIDE DEF A
  <2>1. {id} \X A \in {{i} \X AssetProblems(b.assets[i], l.assets[i], r.assets[i]) : i \in Ids}
    BY Zenon DEF A
  <2>2. \A x \in A : <<id, x>> \in {id} \X A
    OBVIOUS
  <2>3. QED  BY <2>1, <2>2, Zenon DEF AssetConflicts
<1>3. \A x \in K : <<id, <<"pack", x>>>> \in PackConflicts(b, l, r)
  <2> HIDE DEF K
  <2>1. {id} \X ({"pack"} \X K)
          \in {{i} \X ({"pack"} \X PackProblem(b.packs[i], l.packs[i], r.packs[i])) : i \in Ids}
    BY Zenon DEF K
  <2>2. \A x \in K : <<id, <<"pack", x>>>> \in {id} \X ({"pack"} \X K)
    OBVIOUS
  <2>3. QED  BY <2>1, <2>2, Zenon DEF PackConflicts
<1>4. A = {} /\ K = {}
  <2> HIDE DEF A, K
  <2> QED  BY <1>1, <1>2, <1>3
<1>5. QED  BY <1>4

(***************************************************************************)
(* merge_manifests returns the same whichever side is the local one.       *)
(***************************************************************************)
LEMMA MergeSymmetric ==
    ASSUME NEW b, NEW l, NEW r
    PROVE  Merge(b, l, r) = Merge(b, r, l)
<1>1. Conflicts(b, l, r) = Conflicts(b, r, l)
  <2>1. \A id \in Ids : AssetProblems(b.assets[id], l.assets[id], r.assets[id])
                          = AssetProblems(b.assets[id], r.assets[id], l.assets[id])
    BY AssetSymmetric
  <2>2. \A id \in Ids : PackProblem(b.packs[id], l.packs[id], r.packs[id])
                          = PackProblem(b.packs[id], r.packs[id], l.packs[id])
    BY PackSymmetric
  <2>3. \A w \in Profiles : ProfileProblem(b.profiles[w], l.profiles[w], r.profiles[w])
                          = ProfileProblem(b.profiles[w], r.profiles[w], l.profiles[w])
    BY ProfileSymmetric
  <2>4. AssetConflicts(b, l, r) = AssetConflicts(b, r, l)
    BY <2>1, Zenon DEF AssetConflicts
  <2>5. PackConflicts(b, l, r) = PackConflicts(b, r, l)
    BY <2>2, Zenon DEF PackConflicts
  <2>6. ProfileConflicts(b, l, r) = ProfileConflicts(b, r, l)
    BY <2>3, Zenon DEF ProfileConflicts
  <2>7. QED  BY <2>4, <2>5, <2>6, Zenon DEF Conflicts
<1>2. ASSUME Conflicts(b, l, r) = {}
      PROVE  MergedManifest(b, l, r) = MergedManifest(b, r, l)
  <2>1. \A id \in Ids : Draft(b.assets[id], l.assets[id], r.assets[id])
                          = Draft(b.assets[id], r.assets[id], l.assets[id])
    BY AssetSymmetric
  <2>2. \A id \in Ids : MergePack(b.packs[id], l.packs[id], r.packs[id])
                          = MergePack(b.packs[id], r.packs[id], l.packs[id])
    BY <1>2, NoConflict, PackSymmetric
  <2>3. [id \in Ids |-> Rederive(Draft(b.assets[id], l.assets[id], r.assets[id]))]
          = [id \in Ids |-> Rederive(Draft(b.assets[id], r.assets[id], l.assets[id]))]
    BY <2>1, Zenon
  <2>4. [id \in Ids |-> MergePack(b.packs[id], l.packs[id], r.packs[id])]
          = [id \in Ids |-> MergePack(b.packs[id], r.packs[id], l.packs[id])]
    BY <2>2, Zenon
  <2>5. QED  BY <2>3, <2>4, Zenon DEF MergedManifest
<1>3. CASE Conflicts(b, l, r) # {}
  BY <1>1, <1>3, Zenon DEF Merge
<1>4. CASE Conflicts(b, l, r) = {}
  BY <1>1, <1>2, <1>4, Zenon DEF Merge
<1>5. QED  BY <1>3, <1>4

-----------------------------------------------------------------------------
(***************************************************************************)
(* The collections.                                                        *)
(***************************************************************************)

A == Asset(Kinds, Versions)
P == Pack({"authored"})

(***************************************************************************)
(* None is none of the values a manifest is built from.                    *)
(***************************************************************************)
LEMMA Nothing == None \notin Kinds /\ None \notin Versions /\ None \notin A /\ None \notin P
                 /\ None \notin Manifests /\ None # "authored"
  BY CollectionAssumption DEF A, P

\* One component of an asset, and of none.
Cell(asset, part) ==
    IF asset = None THEN None
    ELSE IF part = "portable" THEN asset.portable ELSE asset.native[part]

CellParts == {"portable"} \cup Harnesses

\* What new keeps of an old asset that a base is known for.
Kept(new, b, old) ==
    /\ old # None => new # None
    /\ \A part \in CellParts :
           /\ Cell(new, part) = Cell(old, part) \/ Cell(b, part) = Cell(old, part)
           /\ Cell(old, part) # None => Cell(new, part) # None

-----------------------------------------------------------------------------
(***************************************************************************)
(* A product is empty only when a factor is.                               *)
(***************************************************************************)
LEMMA ProductEmpty ==
    ASSUME NEW t, NEW S, {t} \X S = {}
    PROVE  S = {}
<1> SUFFICES ASSUME NEW x \in S PROVE FALSE
  BY Zenon
<1>1. <<t, x>> \in {t} \X S
  OBVIOUS
<1>2. QED  BY <1>1

(***************************************************************************)
(* An asset with no problem in any component.                              *)
(***************************************************************************)
LEMMA NoProblem ==
    ASSUME NEW b, NEW l, NEW r, AssetProblems(b, l, r) = {}
    PROVE  IF Everywhere(b, l, r)
           THEN /\ Problem(b.kind, l.kind, r.kind) = {}
                /\ Problem(b.portable, l.portable, r.portable) = {}
                /\ \A h \in Harnesses : Problem(b.native[h], l.native[h], r.native[h]) = {}
           ELSE Problem(b, l, r) = {}
<1> DEFINE K == Problem(b.kind, l.kind, r.kind)
           C == Problem(b.portable, l.portable, r.portable)
           N(h) == Problem(b.native[h], l.native[h], r.native[h])
           W == Problem(b, l, r)
           U == UNION {{h} \X N(h) : h \in Harnesses}
<1>1. CASE Everywhere(b, l, r)
  <2>1. ExistingProblems(b, l, r) = {}
    BY <1>1, Zenon DEF AssetProblems
  <2>0. ExistingProblems(b, l, r) = ({"kind"} \X K) \cup ({"portable"} \X C) \cup U
    BY Zenon DEF ExistingProblems
  <2> HIDE DEF K, C, U
  <2>2. {"kind"} \X K = {} /\ {"portable"} \X C = {} /\ U = {}
    BY <2>0, <2>1, Zenon
  <2> HIDE DEF N
  <2>3. K = {} /\ C = {}
    BY <2>2, ProductEmpty
  <2>4. ASSUME NEW h \in Harnesses PROVE N(h) = {}
    <3>1. {h} \X N(h) \subseteq U
      BY Zenon DEF U
    <3>2. {h} \X N(h) = {}
      BY <2>2, <3>1, Zenon
    <3>3. QED  BY <3>2, ProductEmpty
  <2>5. QED  BY <1>1, <2>3, <2>4 DEF K, C, N
<1>2. CASE ~Everywhere(b, l, r)
  <2>0. {Subject(b)} \X W \subseteq AssetProblems(b, l, r)
    BY <1>2, Zenon DEF AssetProblems
  <2> HIDE DEF W
  <2>1. {Subject(b)} \X W = {}
    BY <2>0, Zenon
  <2>2. W = {}
    BY <2>1, ProductEmpty
  <2>3. QED  BY <1>2, <2>2 DEF W
<1>3. QED  BY <1>1, <1>2

(***************************************************************************)
(* What is recorded for a merged asset: a well-formed asset that holds     *)
(* everything the local one held, and whose components differ from the     *)
(* local ones only where the base had them.                                *)
(***************************************************************************)
LEMMA AssetMerged ==
    ASSUME NEW b \in A \cup {None}, NEW l \in A \cup {None}, NEW r \in A \cup {None},
           AssetProblems(b, l, r) = {}
    PROVE  /\ Rederive(Draft(b, l, r)) \in A \cup {None}
           /\ Kept(Rederive(Draft(b, l, r)), b, l)
<1> DEFINE f == Draft(b, l, r)
           d == Rederive(f)
<1>1. CASE Everywhere(b, l, r)
  <2>1. b \in A /\ l \in A /\ r \in A /\ None \notin {b, l, r}
    BY <1>1 DEF Everywhere
  <2>2. f = MergeExisting(b, l, r)
    BY <1>1, Zenon DEF Draft
  <2> DEFINE k == Pick(b.kind, l.kind, r.kind)
             c == Pick(b.portable, l.portable, r.portable)
             n == [h \in Harnesses |-> Pick(b.native[h], l.native[h], r.native[h])]
  <2>3. f = [kind |-> k, portable |-> c, native |-> n, derived |-> b.derived]
    BY <2>2, Zenon DEF MergeExisting
  <2>4. k \in {b.kind, l.kind, r.kind} /\ c \in {b.portable, l.portable, r.portable}
    BY PickIsOne
  <2>5. \A h \in Harnesses : n[h] \in {b.native[h], l.native[h], r.native[h]}
    BY PickIsOne
  <2>6. /\ c = l.portable \/ b.portable = l.portable
        /\ l.portable # None => c # None
    BY <1>1, NoProblem, ChoiceKeepsEdits
  <2>7. ASSUME NEW h \in Harnesses
        PROVE  /\ n[h] = l.native[h] \/ b.native[h] = l.native[h]
               /\ l.native[h] # None => n[h] # None
    BY <1>1, NoProblem, ChoiceKeepsEdits
  <2> HIDE DEF k, c, n, f
  <2>8. k \in Kinds /\ c \in Versions \cup {None} /\ b.derived \in BOOLEAN
    BY <2>1, <2>4 DEF A, Asset
  <2>9. n \in [Harnesses -> Versions \cup {None}]
    <3>1. n = [h \in Harnesses |-> n[h]]
      BY DEF n
    <3>2. \A h \in Harnesses : n[h] \in Versions \cup {None}
      BY <2>1, <2>5 DEF A, Asset
    <3>3. QED  BY <3>1, <3>2
  <2>10. f \in A
    BY <2>3, <2>8, <2>9 DEF A, Asset
  <2>11. f # None
    BY <2>10, Nothing
  <2>12. d = [kind |-> k, portable |-> c, native |-> n, derived |-> TRUE]
    BY <2>3, <2>11 DEF Rederive
  <2>13. d \in A
    BY <2>8, <2>9, <2>12 DEF A, Asset
  <2>14. d # None
    BY <2>13, Nothing
  <2>15. d.portable = c /\ d.native = n
    BY <2>12
  <2> HIDE DEF d
  <2>16. \A part \in CellParts :
            /\ Cell(d, part) = Cell(l, part) \/ Cell(b, part) = Cell(l, part)
            /\ (Cell(l, part) # None => Cell(d, part) # None)
    BY <2>1, <2>6, <2>7, <2>14, <2>15, Zenon DEF Cell, CellParts
  <2>17. Kept(d, b, l)
    BY <2>14, <2>16, Zenon DEF Kept
  <2>18. QED  BY <2>13, <2>17, Zenon DEF d, f
<1>2. CASE ~Everywhere(b, l, r)
  <2>1. Problem(b, l, r) = {}
    BY <1>2, NoProblem
  <2>2. ~Deleted(b, l, r)
    BY <2>1 DEF Problem
  <2>3. b = None
    BY <1>2, <2>2, Zenon DEF Everywhere, Deleted
  <2>4. f = Pick(b, l, r)
    BY <1>2, <2>2, Zenon DEF Draft
  <2>5. /\ f = l \/ b = l
        /\ (l # None \/ r # None) => f # None
        /\ f \in {b, l, r}
    BY <2>1, <2>4, ChoiceKeepsEdits, PickIsOne
  <2> HIDE DEF f
  <2>6. CASE f = None
    <3>1. d = None
      BY <2>6 DEF Rederive
    <3>2. l = None
      BY <2>5, <2>6
    <3>3. \A part : Cell(d, part) = Cell(l, part) /\ Cell(l, part) = None
      BY <3>1, <3>2, Zenon DEF Cell
    <3>4. Kept(d, b, l)
      BY <3>2, <3>3, Zenon DEF Kept
    <3>5. QED  BY <3>1, <3>4, Zenon DEF d, f
  <2>7. CASE f # None
    <3>1. f \in A
      BY <2>5, <2>7
    <3>2. d = [f EXCEPT !.derived = TRUE]
      BY <2>7 DEF Rederive
    <3>3. d \in A /\ d.portable = f.portable /\ d.native = f.native
      BY <3>1, <3>2 DEF A, Asset
    <3>4. d # None
      BY <3>3, Nothing
    <3> HIDE DEF d
    <3>6. f = l \/ l = None
      BY <2>3, <2>5
    <3>7. \A part \in CellParts :
            /\ Cell(d, part) = Cell(l, part) \/ Cell(b, part) = Cell(l, part)
            /\ (Cell(l, part) # None => Cell(d, part) # None)
      BY <2>3, <2>7, <3>3, <3>4, <3>6, Zenon DEF Cell
    <3>8. Kept(d, b, l)
      BY <3>4, <3>7, Zenon DEF Kept
    <3>9. QED  BY <3>3, <3>8, Zenon DEF d, f
  <2>8. QED  BY <2>6, <2>7
<1>3. QED  BY <1>1, <1>2
-----------------------------------------------------------------------------
(***************************************************************************)
(* A merged pack is a pack with all members of the local one, and there    *)
(* whenever the local one is.                                              *)
(***************************************************************************)
LEMMA PackMerged ==
    ASSUME NEW b \in P \cup {None}, NEW l \in P \cup {None}, NEW r \in P \cup {None},
           PackProblem(b, l, r) = {}
    PROVE  LET d == MergePack(b, l, r)
           IN  /\ d \in P \cup {None}
               /\ (l # None => d # None)
               /\ Members(l) \subseteq Members(d)
<1>1. CASE l = None /\ r = None
  BY <1>1, Zenon DEF MergePack, Members
<1>2. CASE l # None \/ r # None
  <2> DEFINE s == Choose(Source(b), Source(l), Source(r))
             n == Members(b) \cup Members(l) \cup Members(r)
  <2>1. MergePack(b, l, r) = [source |-> s, members |-> n]
    BY <1>2, Zenon DEF MergePack
  <2>2. ~Deleted(b, l, r)
    BY DEF PackProblem
  <2>3. \A x \in {b, l, r} : IF x = None THEN Source(x) = None ELSE Source(x) = "authored"
    BY DEF Source, P, Pack
  <2>4. s = "authored"
    BY <1>2, <2>2, <2>3, Nothing DEF Choose, Deleted
  <2>5. \A x \in {b, l, r} : Members(x) \subseteq Ids /\ (x # None => Members(x) # {})
    BY DEF Members, P, Pack
  <2>6. n \in (SUBSET Ids) \ {{}}
    BY <1>2, <2>5
  <2> HIDE DEF s, n
  <2>7. MergePack(b, l, r) \in P
    BY <2>1, <2>4, <2>6 DEF P, Pack
  <2>8. MergePack(b, l, r) # None
    BY <2>7, Nothing
  <2>9. Members(MergePack(b, l, r)) = n
    BY <2>1, <2>8 DEF Members
  <2>10. Members(l) \subseteq n
    BY DEF n
  <2>11. QED  BY <2>7, <2>8, <2>9, <2>10
<1>3. QED  BY <1>1, <1>2

(***************************************************************************)
(* What the records of a manifest are.                                     *)
(***************************************************************************)
LEMMA ManifestParts ==
    ASSUME NEW m \in Manifests, NEW id \in Ids
    PROVE  m.assets[id] \in A \cup {None} /\ m.packs[id] \in P \cup {None}
  BY DEF Manifests, Manifest, A, P

(***************************************************************************)
(* A merged manifest is a manifest, holds every record of the local one,   *)
(* and differs from it in a component only where the base had the local    *)
(* component.                                                              *)
(***************************************************************************)
LEMMA ManifestMerged ==
    ASSUME NEW b \in Manifests, NEW l \in Manifests, NEW r \in Manifests,
           Conflicts(b, l, r) = {}
    PROVE  LET m == MergedManifest(b, l, r)
           IN  /\ m \in Manifests
               /\ \A id \in Ids :
                      /\ Kept(m.assets[id], b.assets[id], l.assets[id])
                      /\ l.packs[id] # None => m.packs[id] # None
                      /\ Members(l.packs[id]) \subseteq Members(m.packs[id])
<1> DEFINE m == MergedManifest(b, l, r)
           new(id) == Rederive(Draft(b.assets[id], l.assets[id], r.assets[id]))
           pack(id) == MergePack(b.packs[id], l.packs[id], r.packs[id])
<1>1. m = [assets |-> [id \in Ids |-> new(id)], packs |-> [id \in Ids |-> pack(id)],
           profiles |-> b.profiles]
  BY Zenon DEF MergedManifest
<1>2. ASSUME NEW id \in Ids
      PROVE  /\ new(id) \in A \cup {None}
             /\ Kept(new(id), b.assets[id], l.assets[id])
  <2>1. AssetProblems(b.assets[id], l.assets[id], r.assets[id]) = {}
    BY NoConflict
  <2>2. b.assets[id] \in A \cup {None} /\ l.assets[id] \in A \cup {None} /\ r.assets[id] \in A \cup {None}
    BY ManifestParts
  <2>3. QED  BY <2>1, <2>2, AssetMerged, Zenon
<1>3. ASSUME NEW id \in Ids
      PROVE  /\ pack(id) \in P \cup {None}
             /\ l.packs[id] # None => pack(id) # None
             /\ Members(l.packs[id]) \subseteq Members(pack(id))
  <2>1. PackProblem(b.packs[id], l.packs[id], r.packs[id]) = {}
    BY NoConflict
  <2>2. b.packs[id] \in P \cup {None} /\ l.packs[id] \in P \cup {None} /\ r.packs[id] \in P \cup {None}
    BY ManifestParts
  <2>3. QED  BY <2>1, <2>2, PackMerged, Zenon
<1> HIDE DEF new, pack, m
<1>4. /\ m.assets = [id \in Ids |-> new(id)] /\ m.packs = [id \in Ids |-> pack(id)]
      /\ m.profiles = b.profiles
  BY <1>1
<1>5. m \in Manifests
  <2>1. [id \in Ids |-> new(id)] \in [Ids -> A \cup {None}]
    BY <1>2
  <2>2. [id \in Ids |-> pack(id)] \in [Ids -> P \cup {None}]
    BY <1>3
  <2>3. b.profiles \in [Profiles -> {} \cup {None}]
    BY DEF Manifests, Manifest
  <2>4. QED  BY <1>1, <2>1, <2>2, <2>3 DEF Manifests, Manifest, A, P
<1>6. \A id \in Ids : m.assets[id] = new(id) /\ m.packs[id] = pack(id)
  BY <1>4
<1>7. QED  BY <1>2, <1>3, <1>5, <1>6, Zenon DEF m

\* What a merge to m over the base b keeps of an old manifest.
Holding(m, b, old) ==
    \A id \in Ids :
        /\ Kept(m.assets[id], b.assets[id], old.assets[id])
        /\ old.packs[id] # None => m.packs[id] # None
        /\ Members(old.packs[id]) \subseteq Members(m.packs[id])

(***************************************************************************)
(* A ready merge is valid and keeps what both sides changed.               *)
(***************************************************************************)
LEMMA ReadyMerge ==
    ASSUME NEW b \in Manifests, NEW l \in Manifests, NEW r \in Manifests,
           Merge(b, l, r).status = "ready"
    PROVE  LET m == Merge(b, l, r).manifest
           IN  m \in Manifests /\ Valid(m) /\ Holding(m, b, l) /\ Holding(m, b, r)
<1>1. Merge(b, l, r) = Merge(b, r, l)
  BY MergeSymmetric
<1>2. \A x, y \in Manifests :
         Merge(b, x, y).status = "ready" =>
             /\ Conflicts(b, x, y) = {} /\ Valid(MergedManifest(b, x, y))
             /\ Merge(b, x, y).manifest = MergedManifest(b, x, y)
  BY DEF Merge, Result
<1>3. \A x, y \in Manifests :
         Conflicts(b, x, y) = {} =>
             MergedManifest(b, x, y) \in Manifests /\ Holding(MergedManifest(b, x, y), b, x)
  BY ManifestMerged, Zenon DEF Holding
<1>4. /\ Merge(b, l, r).manifest \in Manifests /\ Valid(Merge(b, l, r).manifest)
      /\ Holding(Merge(b, l, r).manifest, b, l)
  BY <1>2, <1>3
<1>5. Holding(Merge(b, r, l).manifest, b, r)
  BY <1>1, <1>2, <1>3
<1>6. QED  BY <1>1, <1>4, <1>5

-----------------------------------------------------------------------------
(***************************************************************************)
(* The manifests the edits write are well formed: an adopted asset.        *)
(***************************************************************************)
LEMMA AdoptedTyped ==
    ASSUME NEW m \in Manifests, NEW id \in Ids, NEW kind \in Kinds, NEW v \in Versions
    PROVE  [m EXCEPT !.assets[id] = Adopted(kind, v)] \in Manifests
<1>1. Adopted(kind, v) \in A
  BY DEF Adopted, A, Asset
<1>2. QED  BY <1>1 DEF Manifests, Manifest, A

(***************************************************************************)
(* An update of an asset.                                                  *)
(***************************************************************************)
LEMMA UpdatedTyped ==
    ASSUME NEW m \in Manifests, NEW id \in Ids, NEW v \in Versions,
           m.assets[id] # None
    PROVE  [m EXCEPT !.assets[id] = Updated(@, v)] \in Manifests
<1>1. m.assets[id] \in A
  BY ManifestParts
<1>2. Updated(m.assets[id], v) \in A
  BY <1>1 DEF Updated, A, Asset
<1>3. QED  BY <1>2 DEF Manifests, Manifest, A

(***************************************************************************)
(* A new pack.                                                             *)
(***************************************************************************)
LEMMA CreatedTyped ==
    ASSUME NEW m \in Manifests, NEW id \in Ids, NEW members \in SUBSET Ids, members # {}
    PROVE  [m EXCEPT !.packs[id] = Authored(members)] \in Manifests
<1>1. Authored(members) \in P
  BY DEF Authored, P, Pack
<1>2. QED  BY <1>1 DEF Manifests, Manifest, P

(***************************************************************************)
(* Other members of a pack.                                                *)
(***************************************************************************)
LEMMA PackUpdatedTyped ==
    ASSUME NEW m \in Manifests, NEW id \in Ids, NEW members \in SUBSET Ids, members # {},
           m.packs[id] # None
    PROVE  [m EXCEPT !.packs[id].members = members] \in Manifests
<1>1. m.packs[id] \in P
  BY ManifestParts
<1>2. [m.packs[id] EXCEPT !.members = members] \in P
  BY <1>1 DEF P, Pack
<1>3. QED  BY <1>2 DEF Manifests, Manifest, P

(***************************************************************************)
(* The records of a closure of another manifest.                           *)
(***************************************************************************)
LEMMA GraftTyped ==
    ASSUME NEW to \in Manifests, NEW from \in Manifests, NEW closure
    PROVE  Graft(to, from, closure) \in Manifests
<1> DEFINE assets == [id \in Ids |-> IF id \in closure /\ from.assets[id] # None
                                     THEN from.assets[id] ELSE to.assets[id]]
           packs  == [id \in Ids |-> IF id \in closure /\ from.packs[id] # None
                                     THEN from.packs[id] ELSE to.packs[id]]
<1>1. assets \in [Ids -> A \cup {None}]
  BY ManifestParts
<1>2. packs \in [Ids -> P \cup {None}]
  BY ManifestParts
<1>3. Graft(to, from, closure) = [to EXCEPT !.assets = assets, !.packs = packs]
  BY Zenon DEF Graft
<1> HIDE DEF assets, packs
<1>4. QED  BY <1>1, <1>2, <1>3 DEF Manifests, Manifest, A, P

-----------------------------------------------------------------------------
(***************************************************************************)
(* What a state of the right type has.                                     *)
(***************************************************************************)
LEMMA TipTyped ==
    ASSUME TypeOK, history # << >>
    PROVE  /\ Len(history) \in Nat \ {0} /\ Tip = history[Len(history)]
           /\ Tip \in Manifests /\ Valid(Tip) /\ Tip # None
<1>1. Len(history) \in Nat \ {0} /\ Tip = history[Len(history)]
  BY DEF TypeOK, Tip
<1>2. Tip \in Manifests /\ Valid(Tip)
  BY <1>1 DEF TypeOK
<1>3. QED  BY <1>1, <1>2, Nothing

(***************************************************************************)
(* Without a published manifest there is no base.                          *)
(***************************************************************************)
LEMMA NoTip ==
    ASSUME TypeOK, history = << >>
    PROVE  Tip = None /\ \A m \in Machines : BaseOf(m) = None
  BY DEF TypeOK, Tip, BaseOf

(***************************************************************************)
(* A base is a published manifest.                                         *)
(***************************************************************************)
LEMMA BaseTyped ==
    ASSUME TypeOK, NEW m \in Machines, BaseOf(m) # None
    PROVE  BaseOf(m) \in Manifests /\ history # << >>
<1>1. base[m] \in 1 .. Len(history)
  BY DEF TypeOK, BaseOf
<1>2. QED  BY <1>1 DEF TypeOK, BaseOf

(***************************************************************************)
(* What a sync makes of the three manifests: a merge of them when there is *)
(* a base, else the local manifest or the head.                            *)
(***************************************************************************)
LEMMA ReadyPlan ==
    ASSUME TypeOK, NEW m \in Machines, SyncPlan(m).status = "ready"
    PROVE  LET new == SyncPlan(m).manifest
           IN  /\ new \in Manifests /\ Valid(new)
               /\ BaseOf(m) # None =>
                      Holding(new, BaseOf(m), local[m]) /\ Holding(new, BaseOf(m), Tip)
               /\ BaseOf(m) = None =>
                      IF Tip = None THEN new = local[m]
                      ELSE new = Tip /\ local[m] \in {Tip, EmptyManifest}
<1>1. local[m] \in Manifests /\ Valid(local[m])
  BY DEF TypeOK
<1>2. CASE BaseOf(m) # None
  <2>1. BaseOf(m) \in Manifests /\ history # << >>
    BY <1>2, BaseTyped
  <2>2. Tip \in Manifests /\ Tip # None
    BY <2>1, TipTyped
  <2>3. SyncPlan(m) = Merge(BaseOf(m), local[m], Tip)
    BY <1>2, <2>2, Zenon DEF SyncPlan, Plan
  <2>4. QED  BY <1>1, <1>2, <2>1, <2>2, <2>3, ReadyMerge, Zenon
<1>3. CASE BaseOf(m) = None
  <2>1. CASE Tip = None
    <3>1. SyncPlan(m) = Result("ready", local[m], {})
      BY <1>3, <2>1 DEF SyncPlan, Plan, Result
    <3>2. QED  BY <1>1, <1>3, <2>1, <3>1 DEF Result
  <2>2. CASE Tip # None
    <3>1. history # << >>
      BY <2>2 DEF Tip
    <3>2. Tip \in Manifests /\ Valid(Tip)
      BY <3>1, TipTyped
    <3>3. SyncPlan(m) = Result("ready", Tip, {}) /\ local[m] \in {Tip, EmptyManifest}
      BY <1>3, <2>2 DEF SyncPlan, Plan, Result
    <3>4. QED  BY <1>3, <2>2, <3>2, <3>3 DEF Result
  <2>3. QED  BY <2>1, <2>2
<1>4. QED  BY <1>2, <1>3

(***************************************************************************)
(* What a sync does to the history: it appends a valid manifest, or finds  *)
(* it at the head already.                                                 *)
(***************************************************************************)
LEMMA SyncStep ==
    ASSUME TypeOK, NEW m \in Machines, Sync(m)
    PROVE  LET new == SyncPlan(m).manifest
           IN  /\ SyncPlan(m).status = "ready" /\ new \in Manifests /\ Valid(new)
               /\ history' \in Seq(Manifests) /\ Len(history') \in Nat \ {0}
               /\ history' # << >> /\ history'[Len(history')] = new /\ Tip' = new
               /\ Len(history) <= Len(history') /\ Len(history') <= MaxHistory
               /\ \A i \in 1 .. Len(history) : history'[i] = history[i]
               /\ \A i \in 1 .. Len(history') : Valid(history'[i])
<1> DEFINE new == SyncPlan(m).manifest
<1>1. SyncPlan(m).status = "ready"
  BY DEF Sync
<1>2. new \in Manifests /\ Valid(new)
  BY <1>1, ReadyPlan
<1>3. /\ new # Tip => Len(history) < MaxHistory
      /\ history' = IF new = Tip THEN history ELSE Append(history, new)
  BY Zenon DEF Sync
<1>4. /\ history \in Seq(Manifests) /\ Len(history) <= MaxHistory /\ MaxHistory \in Nat
      /\ \A i \in 1 .. Len(history) : Valid(history[i])
  BY CollectionAssumption DEF TypeOK
<1> HIDE DEF new
<1>5. CASE new = Tip
  <2>1. history # << >>
    BY <1>2, <1>5, Nothing DEF Tip
  <2>2. history' = history
    BY <1>3, <1>5
  <2>3. Tip = history[Len(history)] /\ Len(history) \in Nat \ {0}
    BY <2>1, TipTyped
  <2>4. Tip' = Tip
    BY <2>2 DEF Tip
  <2>5. QED  BY <1>1, <1>2, <1>4, <1>5, <2>1, <2>2, <2>3, <2>4 DEF new
<1>6. CASE new # Tip
  <2>1. history' = Append(history, new) /\ Len(history) < MaxHistory
    BY <1>3, <1>6
  <2>2. /\ history' \in Seq(Manifests) /\ Len(history') = Len(history) + 1
        /\ history'[Len(history) + 1] = new
        /\ \A i \in 1 .. Len(history) : history'[i] = history[i]
        /\ Len(history) \in Nat
    BY <1>2, <1>4, <2>1
  <2>3. history' # << >>
    BY <2>2
  <2>4. Tip' = new
    BY <2>2, <2>3 DEF Tip
  <2>5. \A i \in 1 .. Len(history') : Valid(history'[i])
    <3> SUFFICES ASSUME NEW i \in 1 .. Len(history) + 1 PROVE Valid(history'[i])
      BY <2>2
    <3>1. CASE i \in 1 .. Len(history)
      BY <1>4, <2>2, <3>1
    <3>2. CASE i = Len(history) + 1
      BY <1>2, <2>2, <3>2
    <3>3. QED  BY <2>2, <3>1, <3>2
  <2>6. Len(history) <= Len(history') /\ Len(history') <= MaxHistory /\ Len(history') \in Nat \ {0}
    BY <1>4, <2>1, <2>2
  <2>7. QED  BY <1>1, <1>2, <2>2, <2>3, <2>4, <2>5, <2>6 DEF new
<1>7. QED  BY <1>5, <1>6

-----------------------------------------------------------------------------
(***************************************************************************)
(* An edit writes one machine's manifest, a valid one, and nothing else.   *)
(***************************************************************************)
LEMMA Written ==
    ASSUME TypeOK, NEW m \in Machines, NEW new \in Manifests, Write(m, new)
    PROVE  /\ TypeOK' /\ UNCHANGED <<base, history>>
  BY CollectionAssumption DEF TypeOK, Write

(***************************************************************************)
(* Each edit is such a write: the manifest it proposes is well formed.     *)
(***************************************************************************)
LEMMA EditWrites ==
    ASSUME TypeOK, NEW m \in Machines, Edit(m)
    PROVE  \E new \in Manifests : Write(m, new)
<1>1. local[m] \in Manifests
  BY DEF TypeOK
<1>2. ASSUME NEW id \in Ids, NEW kind \in Kinds, NEW c \in Contents, NEW h \in Harnesses,
             Adopt(m, id, kind, c, h)
      PROVE  \E new \in Manifests : Write(m, new)
  <2>1. <<c, h, "adopted">> \in Versions
    BY DEF Versions
  <2>2. QED  BY <1>1, <1>2, <2>1, AdoptedTyped, Zenon DEF Adopt
<1>3. ASSUME NEW id \in Ids, NEW c \in Contents, NEW h \in Harnesses, Update(m, id, c, h)
      PROVE  \E new \in Manifests : Write(m, new)
  <2>1. <<c, h, "updated">> \in Versions
    BY DEF Versions
  <2>2. QED  BY <1>1, <1>3, <2>1, UpdatedTyped, Zenon DEF Update
<1>4. ASSUME NEW id \in Ids, NEW members \in SUBSET Ids, CreatePack(m, id, members)
      PROVE  \E new \in Manifests : Write(m, new)
  BY <1>1, <1>4, CreatedTyped, Zenon DEF CreatePack
<1>5. ASSUME NEW id \in Ids, NEW members \in SUBSET Ids, UpdatePack(m, id, members)
      PROVE  \E new \in Manifests : Write(m, new)
  BY <1>1, <1>5, PackUpdatedTyped, Zenon DEF UpdatePack
<1>6. ASSUME NEW id \in Ids, NEW i \in Older, Rollback(m, id, i)
      PROVE  \E new \in Manifests : Write(m, new)
  <2>1. history[i] \in Manifests
    BY DEF Older, TypeOK
  <2>2. QED  BY <1>1, <1>6, <2>1, GraftTyped, Zenon DEF Rollback
<1>7. ASSUME history # << >>, NEW selected \in SUBSET Ids, Import(m, selected)
      PROVE  \E new \in Manifests : Write(m, new)
  BY <1>1, <1>7, TipTyped, GraftTyped, Zenon DEF Import
<1>8. ASSUME history # << >>, NEW id \in Ids, AdoptPack(m, id)
      PROVE  \E new \in Manifests : Write(m, new)
  <2>1. Import(m, {id}) /\ {id} \in SUBSET Ids
    BY <1>8 DEF AdoptPack
  <2>2. QED  BY <1>7, <1>8, <2>1
<1>9. QED  BY <1>2, <1>3, <1>4, <1>5, <1>6, <1>7, <1>8, Zenon DEF Edit

(***************************************************************************)
(* No step of a machine leaves the type invariant.                         *)
(***************************************************************************)
LEMMA TypeStep == TypeOK /\ [Next]_vars => TypeOK'
<1> SUFFICES ASSUME TypeOK, [Next]_vars PROVE TypeOK'
  OBVIOUS
<1>1. ASSUME NEW m \in Machines, Edit(m) PROVE TypeOK'
  BY <1>1, EditWrites, Written
<1>2. ASSUME NEW m \in Machines, Sync(m) PROVE TypeOK'
  <2> DEFINE new == SyncPlan(m).manifest
  <2>1. /\ new \in Manifests /\ Valid(new) /\ history' \in Seq(Manifests)
        /\ Len(history') \in Nat \ {0} /\ Len(history) <= Len(history')
        /\ Len(history') <= MaxHistory /\ \A i \in 1 .. Len(history') : Valid(history'[i])
    BY <1>2, SyncStep
  <2>2. local' = [local EXCEPT ![m] = new] /\ base' = [base EXCEPT ![m] = Len(history')]
        /\ edits' = edits
    BY <1>2, Zenon DEF Sync
  <2> HIDE DEF new
  <2>3. local' \in [Machines -> Manifests] /\ \A n \in Machines : Valid(local'[n])
    BY <2>1, <2>2 DEF TypeOK
  <2>4. base' \in [Machines -> 0 .. Len(history')]
    BY <2>1, <2>2 DEF TypeOK
  <2>5. QED  BY <2>1, <2>2, <2>3, <2>4 DEF TypeOK
<1>3. CASE UNCHANGED vars
  BY <1>3 DEF TypeOK, vars
<1>4. QED  BY <1>1, <1>2, <1>3 DEF Next

(***************************************************************************)
(* Every manifest of a machine and of the history is a valid manifest,     *)
(* although each edit and each merge starts from what others wrote.        *)
(***************************************************************************)
THEOREM CollectionTyped == Spec => []TypeOK
<1>1. Init => TypeOK
  <2> SUFFICES ASSUME NEW start \in Starters,
                      local = [m \in Machines |-> start],
                      history = IF start = EmptyManifest THEN << >> ELSE <<start>>,
                      base = [m \in Machines |-> Len(history)], edits = 0
               PROVE  TypeOK
    BY DEF Init
  <2>1. start \in Manifests /\ Valid(start) /\ MaxHistory \in Nat \ {0} /\ MaxEdits \in Nat
    BY CollectionAssumption
  <2>2. CASE start = EmptyManifest
    BY <2>1, <2>2 DEF TypeOK
  <2>3. CASE start # EmptyManifest
    <3>1. history = <<start>> /\ Len(history) = 1 /\ history \in Seq(Manifests)
      BY <2>1, <2>3
    <3>2. QED  BY <2>1, <3>1 DEF TypeOK
  <2>4. QED  BY <2>2, <2>3
<1>2. QED  BY <1>1, TypeStep, PTL DEF Spec

-----------------------------------------------------------------------------
(***************************************************************************)
(* What a valid manifest holds that keeps the assets and packs of another. *)
(***************************************************************************)
LEMMA HoldsKept ==
    ASSUME NEW old \in Manifests, NEW new \in Manifests, NEW b \in Manifests,
           Valid(new), Holding(new, b, old), NEW id \in Ids
    PROVE  Holds(old, id) \subseteq Holds(new, id)
<1>1. Kept(new.assets[id], b.assets[id], old.assets[id])
  BY DEF Holding
<1>2. CASE old.assets[id] # None
  <2>1. new.assets[id] # None
    BY <1>1, <1>2 DEF Kept
  <2>2. \A part \in CellParts :
            Cell(old.assets[id], part) # None => Cell(new.assets[id], part) # None
    BY <1>1 DEF Kept
  <2>3. old.assets[id].portable # None => new.assets[id].portable # None
    BY <1>2, <2>1, <2>2 DEF Cell, CellParts
  <2>4. ASSUME NEW h \in Harnesses, old.assets[id].native[h] # None
        PROVE  new.assets[id].native[h] # None
    BY MergeAssumption, <1>2, <2>1, <2>2, <2>4 DEF Cell, CellParts
  <2>5. QED  BY <1>2, <2>1, <2>3, <2>4 DEF Holds
<1>3. CASE old.assets[id] = None
  <2>1. Members(old.packs[id]) \subseteq Members(new.packs[id])
    BY DEF Holding
  <2>2. CASE new.assets[id] = None
    BY <1>3, <2>1, <2>2 DEF Holds
  <2>3. CASE new.assets[id] # None
    <3>1. new.packs[id] = None
      BY <2>3 DEF Valid, Clash
    <3>2. Members(old.packs[id]) = {}
      BY <2>1, <3>1 DEF Members
    <3>3. QED  BY <1>3, <3>2 DEF Holds
  <2>4. QED  BY <2>2, <2>3
<1>4. QED  BY <1>2, <1>3

(***************************************************************************)
(* What is published stays, whatever the machines remove or never had.     *)
(***************************************************************************)
THEOREM PublishedForGood == Spec => PublishedStays
<1> DEFINE Stays == history # << >> =>
                        /\ \A id \in Ids : Holds(Tip, id) \subseteq Holds(Tip', id)
                        /\ \A i \in 1 .. Len(history) : history'[i] = history[i]
<1>1. TypeOK /\ [Next]_vars => [Stays]_vars
  <2> SUFFICES ASSUME TypeOK, Next, history # << >> PROVE Stays
    BY Zenon DEF vars
  <2>1. ASSUME history' = history PROVE Stays
    BY <2>1 DEF Tip
  <2>2. ASSUME NEW m \in Machines, Edit(m) PROVE Stays
    BY <2>1, <2>2, EditWrites, Zenon DEF Write
  <2>3. ASSUME NEW m \in Machines, Sync(m) PROVE Stays
    <3> DEFINE new == SyncPlan(m).manifest
    <3>1. /\ SyncPlan(m).status = "ready" /\ new \in Manifests /\ Valid(new) /\ Tip' = new
          /\ \A i \in 1 .. Len(history) : history'[i] = history[i]
      BY <2>3, SyncStep
    <3>2. Tip \in Manifests /\ Tip # None
      BY TipTyped
    <3>3. CASE BaseOf(m) = None
      <4>1. new = Tip
        BY <3>1, <3>2, <3>3, ReadyPlan
      <4>2. QED  BY <3>1, <4>1
    <3>4. CASE BaseOf(m) # None
      <4>1. Holding(new, BaseOf(m), Tip) /\ BaseOf(m) \in Manifests
        BY <3>1, <3>4, ReadyPlan, BaseTyped
      <4> HIDE DEF new
      <4>2. \A id \in Ids : Holds(Tip, id) \subseteq Holds(new, id)
        BY <3>1, <3>2, <4>1, HoldsKept
      <4>3. QED  BY <3>1, <4>2
    <3>5. QED  BY <3>3, <3>4
  <2>4. QED  BY <2>2, <2>3 DEF Next
<1>2. QED  BY <1>1, CollectionTyped, PTL DEF Spec, PublishedStays

(***************************************************************************)
(* One component in three manifests, of which the first holds the third.   *)
(***************************************************************************)
LEMMA ComponentKept ==
    ASSUME NEW new \in Manifests, NEW b \in Manifests, NEW old \in Manifests,
           Holding(new, b, old), NEW id \in Ids, NEW part \in CellParts
    PROVE  \/ Component(new, id, part) = Component(old, id, part)
           \/ Component(b, id, part) = Component(old, id, part)
<1>1. \A m \in Manifests : Component(m, id, part) = Cell(m.assets[id], part)
  BY Nothing DEF Component, Cell
<1>2. Kept(new.assets[id], b.assets[id], old.assets[id])
  BY DEF Holding
<1>3. QED  BY <1>1, <1>2, Zenon DEF Kept

(***************************************************************************)
(* A sync overwrites, on the head and on the machine, only components that *)
(* the machine's base had.                                                 *)
(***************************************************************************)
THEOREM EditsKept == Spec => NoEditLost
<1> DEFINE SyncKeeps(m) == Sync(m) =>
               \A id \in Ids, part \in {"portable"} \cup Harnesses, old \in {Tip, local[m]} :
                   \/ Component(Tip', id, part) = Component(old, id, part)
                   \/ Component(BaseOf(m), id, part) = Component(old, id, part)
<1>1. ASSUME TypeOK, NEW m \in Machines, Sync(m) PROVE SyncKeeps(m)
  <2> DEFINE new == SyncPlan(m).manifest
  <2> SUFFICES ASSUME NEW id \in Ids, NEW part \in CellParts, NEW old \in {Tip, local[m]}
               PROVE  \/ Component(new, id, part) = Component(old, id, part)
                      \/ Component(BaseOf(m), id, part) = Component(old, id, part)
    BY <1>1, SyncStep DEF CellParts
  <2>1. SyncPlan(m).status = "ready" /\ new \in Manifests
    BY <1>1, SyncStep
  <2>2. local[m] \in Manifests
    BY <1>1 DEF TypeOK
  <2>3. CASE BaseOf(m) # None
    <3>1. BaseOf(m) \in Manifests /\ Tip \in Manifests
      BY <1>1, <2>3, BaseTyped, TipTyped
    <3>2. Holding(new, BaseOf(m), local[m]) /\ Holding(new, BaseOf(m), Tip)
      BY <1>1, <2>1, <2>3, ReadyPlan
    <3> HIDE DEF new
    <3>3. QED  BY <2>1, <2>2, <3>1, <3>2, ComponentKept
  <2>4. CASE BaseOf(m) = None /\ Tip = None
    <3>1. new = local[m]
      BY <1>1, <2>1, <2>4, ReadyPlan
    <3>2. QED  BY <2>4, <3>1
  <2>5. CASE BaseOf(m) = None /\ Tip # None
    <3>1. new = Tip /\ local[m] \in {Tip, EmptyManifest}
      BY <1>1, <2>1, <2>5, ReadyPlan
    <3>2. Component(EmptyManifest, id, part) = None /\ Component(None, id, part) = None
      BY DEF Component, EmptyManifest
    <3>3. QED  BY <2>5, <3>1, <3>2
  <2>6. QED  BY <2>3, <2>4, <2>5
<1>2. TypeOK /\ [Next]_vars => [\A m \in Machines : SyncKeeps(m)]_vars
  BY <1>1
<1>3. QED  BY <1>2, CollectionTyped, PTL DEF Spec, NoEditLost

-----------------------------------------------------------------------------
(***************************************************************************)
(* A closure has its own record in it, and equal revisions of a record     *)
(* have the same asset and the same pack.                                  *)
(***************************************************************************)
LEMMA SameParts ==
    ASSUME NEW m1, NEW m2, NEW x \in Ids, SameRecord(m1, m2, x)
    PROVE  m1.assets[x] = m2.assets[x] /\ m1.packs[x] = m2.packs[x]
<1>1. x \in Closure(m1, x) /\ x \in Closure(m2, x)
  BY DEF Closure
<1>2. Revision(m1, x) = Revision(m2, x)
  BY DEF SameRecord
<1>3. /\ Revision(m1, x)[x] = <<m1.assets[x], m1.packs[x]>>
      /\ Revision(m2, x)[x] = <<m2.assets[x], m2.packs[x]>>
  BY <1>1 DEF Revision
<1>4. QED  BY <1>2, <1>3

(***************************************************************************)
(* A graft changes the records of the closure, and of those only the ones  *)
(* that differ.                                                            *)
(***************************************************************************)
LEMMA GraftChanges ==
    ASSUME NEW to \in Manifests, NEW from, NEW closure, NEW x \in Ids,
           \/ x \notin closure
           \/ to.assets[x] = from.assets[x] /\ to.packs[x] = from.packs[x]
    PROVE  /\ Graft(to, from, closure).assets[x] = to.assets[x]
           /\ Graft(to, from, closure).packs[x] = to.packs[x]
<1> DEFINE assets == [id \in Ids |-> IF id \in closure /\ from.assets[id] # None
                                     THEN from.assets[id] ELSE to.assets[id]]
           packs  == [id \in Ids |-> IF id \in closure /\ from.packs[id] # None
                                     THEN from.packs[id] ELSE to.packs[id]]
<1>1. assets[x] = to.assets[x] /\ packs[x] = to.packs[x]
  OBVIOUS
<1>2. Graft(to, from, closure) = [to EXCEPT !.assets = assets, !.packs = packs]
  BY Zenon DEF Graft
<1> HIDE DEF assets, packs
<1>3. QED  BY <1>1, <1>2 DEF Manifests, Manifest

(***************************************************************************)
(* A record of a machine, changed by an edit of that machine.              *)
(***************************************************************************)
LEMMA EditSelects ==
    ASSUME TypeOK, NEW m \in Machines, NEW x \in Ids, Edit(m), Has(local[m], x),
           local'[m].assets[x] # local[m].assets[x] \/ local'[m].packs[x] # local[m].packs[x]
    PROVE  \/ \E c \in Contents, h \in Harnesses : Update(m, x, c, h)
           \/ \E members \in SUBSET Ids : UpdatePack(m, x, members)
           \/ \E id \in Ids, i \in Older : Rollback(m, id, i) /\ x \in Closure(local[m], id)
<1>1. local[m] \in Manifests /\ local \in [Machines -> Manifests]
  BY DEF TypeOK
<1>2. \A new : Write(m, new) => local'[m] = new
  BY <1>1 DEF Write
<1>3. ASSUME NEW id \in Ids, NEW kind \in Kinds, NEW c \in Contents, NEW h \in Harnesses,
             Adopt(m, id, kind, c, h)
      PROVE  FALSE
  <2>1. x # id /\ local'[m] = [local[m] EXCEPT !.assets[id] = Adopted(kind, <<c, h, "adopted">>)]
    BY <1>2, <1>3, Zenon DEF Adopt
  <2>2. QED  BY <1>1, <2>1 DEF Manifests, Manifest
<1>4. ASSUME NEW id \in Ids, NEW c \in Contents, NEW h \in Harnesses, Update(m, id, c, h)
      PROVE  x = id
  <2>1. local'[m] = [local[m] EXCEPT !.assets[id] = Updated(@, <<c, h, "updated">>)]
    BY <1>2, <1>4, Zenon DEF Update
  <2>2. QED  BY <1>1, <2>1 DEF Manifests, Manifest
<1>5. ASSUME NEW id \in Ids, NEW members \in SUBSET Ids, CreatePack(m, id, members)
      PROVE  FALSE
  <2>1. x # id /\ local'[m] = [local[m] EXCEPT !.packs[id] = Authored(members)]
    BY <1>2, <1>5, Zenon DEF CreatePack
  <2>2. QED  BY <1>1, <2>1 DEF Manifests, Manifest
<1>6. ASSUME NEW id \in Ids, NEW members \in SUBSET Ids, UpdatePack(m, id, members)
      PROVE  x = id
  <2>1. local'[m] = [local[m] EXCEPT !.packs[id].members = members]
    BY <1>2, <1>6, Zenon DEF UpdatePack
  <2>2. QED  BY <1>1, <2>1 DEF Manifests, Manifest
<1>7. ASSUME NEW id \in Ids, NEW i \in Older, Rollback(m, id, i)
      PROVE  x \in Closure(local[m], id)
  <2> DEFINE closure == Closure(history[i], id)
  <2>1. local'[m] = Graft(local[m], history[i], closure)
    BY <1>2, <1>7, Zenon DEF Rollback
  <2>2. x \in closure /\ ~ SameRecord(local[m], history[i], x)
    BY <1>1, <2>1, GraftChanges, SameParts
  <2>3. Replaceable(m, id, history[i], x)
    BY <1>7, <2>2 DEF Rollback
  <2>4. QED  BY <2>2, <2>3 DEF Replaceable
<1>8. ASSUME NEW selected \in SUBSET Ids, Import(m, selected)
      PROVE  FALSE
  <2> DEFINE closure == UNION {Closure(Tip, id) : id \in selected}
  <2>1. local'[m] = Graft(local[m], Tip, closure)
    BY <1>2, <1>8, Zenon DEF Import
  <2>2. x \in closure => SameRecord(local[m], Tip, x)
    BY <1>8, Zenon DEF Import
  <2> HIDE DEF closure
  <2>3. QED  BY <1>1, <2>1, <2>2, GraftChanges, SameParts
<1>9. ASSUME NEW id \in Ids, AdoptPack(m, id)
      PROVE  FALSE
  <2>1. Import(m, {id}) /\ {id} \in SUBSET Ids
    BY <1>9 DEF AdoptPack
  <2>2. QED  BY <1>8, <2>1
<1>10. QED  BY <1>3, <1>4, <1>5, <1>6, <1>7, <1>8, <1>9, Zenon DEF Edit

(***************************************************************************)
(* Rollback and import leave the machine's other work alone, for any       *)
(* number of machines, records and edits.                                  *)
(***************************************************************************)
THEOREM GraftsSelect == Spec => GraftsAreSelective
<1> DEFINE Selective ==
      \A m \in Machines, x \in Ids :
           Has(local[m], x) /\ <<local'[m].assets[x], local'[m].packs[x]>>
                                 # <<local[m].assets[x], local[m].packs[x]>> =>
               \/ Sync(m)
               \/ \E c \in Contents, h \in Harnesses : Update(m, x, c, h)
               \/ \E members \in SUBSET Ids : UpdatePack(m, x, members)
               \/ \E id \in Ids, i \in Older : Rollback(m, id, i) /\ x \in Closure(local[m], id)
<1>1. TypeOK /\ [Next]_vars => [Selective]_vars
  <2> SUFFICES ASSUME TypeOK, Next, NEW m \in Machines, NEW x \in Ids, Has(local[m], x),
                      <<local'[m].assets[x], local'[m].packs[x]>>
                        # <<local[m].assets[x], local[m].packs[x]>>
               PROVE  \/ Sync(m)
                      \/ \E c \in Contents, h \in Harnesses : Update(m, x, c, h)
                      \/ \E members \in SUBSET Ids : UpdatePack(m, x, members)
                      \/ \E id \in Ids, i \in Older :
                            Rollback(m, id, i) /\ x \in Closure(local[m], id)
    BY Zenon DEF vars
  <2>1. /\ local \in [Machines -> Manifests]
        /\ local'[m] # local[m]
        /\ local'[m].assets[x] # local[m].assets[x] \/ local'[m].packs[x] # local[m].packs[x]
    BY DEF TypeOK
  <2>2. PICK n \in Machines : Edit(n) \/ Sync(n)
    BY DEF Next
  <2>3. \E new : local' = [local EXCEPT ![n] = new]
    <3>1. CASE Edit(n)
      BY <3>1, EditWrites, Zenon DEF Write
    <3>2. CASE Sync(n)
      BY <3>2, Zenon DEF Sync
    <3>3. QED  BY <2>2, <3>1, <3>2
  <2>4. n = m
    BY <2>1, <2>3
  <2>5. CASE Edit(m)
    BY <2>1, <2>5, EditSelects, Zenon
  <2>6. QED  BY <2>2, <2>4, <2>5, Zenon
<1>2. QED  BY <1>1, CollectionTyped, PTL DEF Spec, GraftsAreSelective

-----------------------------------------------------------------------------
(***************************************************************************)
(* The triples: the outcome is what merge_manifests returns for the three  *)
(* inputs, which no step changes.                                          *)
(***************************************************************************)
TripleInv ==
    /\ triple.base \in AllManifests /\ triple.local \in AllManifests
    /\ triple.remote \in AllManifests
    /\ Valid(triple.base) /\ Valid(triple.local) /\ Valid(triple.remote)
    /\ outcome \in {None, Merge(triple.base, triple.local, triple.remote)}

\* No step changes the inputs, and the outcome belongs to them.
THEOREM TripleInvariant == TripleSpec => []TripleInv
<1>1. TripleInit => TripleInv
  BY TripleAssumption DEF TripleInit, TripleInv
<1>2. TripleInv /\ [MergeOnce]_<<triple, outcome>> => TripleInv'
  BY Zenon DEF TripleInv, MergeOnce
<1>3. QED  BY <1>1, <1>2, PTL DEF TripleSpec

(***************************************************************************)
(* For every set of manifests, whatever merge_manifests returns it returns *)
(* with local and remote exchanged.                                        *)
(***************************************************************************)
THEOREM SidesEqual == TripleSpec => []SidesAreEqual
<1>1. TripleInv => SidesAreEqual
  <2>1. Merge(triple.base, triple.local, triple.remote) = Merge(triple.base, triple.remote, triple.local)
    BY MergeSymmetric
  <2>2. QED  BY <2>1, Zenon DEF TripleInv, SidesAreEqual
<1>2. QED  BY <1>1, TripleInvariant, PTL

-----------------------------------------------------------------------------
(***************************************************************************)
(* One asset of three manifests, by its parts.                             *)
(***************************************************************************)
Assets3 == Asset(AssetKinds, Revisions) \cup {None}
Packs3  == Pack(Sources) \cup {None}
Slots   == {"kind", "portable"} \cup Harnesses

Slot(asset, q) ==
    IF asset = None THEN None
    ELSE IF q \in Harnesses THEN asset.native[q] ELSE asset[q]

ThreeWaySlot(b, l, r) == IF l # b THEN l ELSE r

AssetShape(b, l, r) ==
    [kind     |-> ThreeWaySlot(Slot(b, "kind"), Slot(l, "kind"), Slot(r, "kind")),
     portable |-> ThreeWaySlot(Slot(b, "portable"), Slot(l, "portable"), Slot(r, "portable")),
     native   |-> [h \in Harnesses |-> ThreeWaySlot(Slot(b, h), Slot(l, h), Slot(r, h))]]

AssetReason(b, l, r) ==
    \/ \E q \in Slots : Slot(b, q) # None /\ None \in {Slot(l, q), Slot(r, q)}
    \/ \E q \in Slots : Diverged(Slot(b, q), Slot(l, q), Slot(r, q))
    \/ AssetShape(b, l, r).kind # None /\ ~Supported(AssetShape(b, l, r))
    \/ b = None /\ None \notin {l, r} /\ l # r

LEMMA Slots3 ==
    ASSUME NEW x \in Assets3
    PROVE  /\ Slot(x, "kind") = IF x = None THEN None ELSE x.kind
           /\ Slot(x, "portable") = IF x = None THEN None ELSE x.portable
           /\ \A h \in Harnesses : Slot(x, h) = IF x = None THEN None ELSE x.native[h]
           /\ x # None <=> Slot(x, "kind") # None
<1>1. "kind" \notin Harnesses /\ "portable" \notin Harnesses
  BY MergeAssumption
<1>2. Slot(x, "kind") = IF x = None THEN None ELSE x.kind
  BY <1>1 DEF Slot
<1>3. Slot(x, "portable") = IF x = None THEN None ELSE x.portable
  BY <1>1 DEF Slot
<1>4. \A h \in Harnesses : Slot(x, h) = IF x = None THEN None ELSE x.native[h]
  BY DEF Slot
<1>5. x # None <=> Slot(x, "kind") # None
  BY <1>2, TripleAssumption DEF Assets3, Asset
<1>6. QED  BY <1>2, <1>3, <1>4, <1>5

(***************************************************************************)
(* A component has no problem when it is neither deleted nor diverged, and *)
(* is then chosen as three-way reconciliation does.                        *)
(***************************************************************************)
LEMMA ProblemFree ==
    ASSUME NEW b, NEW l, NEW r
    PROVE  /\ Problem(b, l, r) = {} <=> ~Deleted(b, l, r) /\ ~Diverged(b, l, r)
           /\ Problem(b, l, r) = {} => Pick(b, l, r) = ThreeWaySlot(b, l, r)
  BY DEF Problem, Pick, Choose, ThreeWaySlot, Deleted, Diverged

(***************************************************************************)
(* An asset without a conflict has no problem in any component and a draft *)
(* of a supported shape, and conversely.                                   *)
(***************************************************************************)
LEMMA AssetClear ==
    ASSUME NEW b, NEW l, NEW r
    PROVE  AssetProblems(b, l, r) = {} <=>
               /\ Draft(b, l, r) # None => Supported(Draft(b, l, r))
               /\ IF Everywhere(b, l, r)
                  THEN /\ Problem(b.kind, l.kind, r.kind) = {}
                       /\ Problem(b.portable, l.portable, r.portable) = {}
                       /\ \A h \in Harnesses : Problem(b.native[h], l.native[h], r.native[h]) = {}
                  ELSE Problem(b, l, r) = {}
<1> DEFINE clear == IF Everywhere(b, l, r)
                    THEN /\ Problem(b.kind, l.kind, r.kind) = {}
                         /\ Problem(b.portable, l.portable, r.portable) = {}
                         /\ \A h \in Harnesses : Problem(b.native[h], l.native[h], r.native[h]) = {}
                    ELSE Problem(b, l, r) = {}
           shaped == Draft(b, l, r) # None => Supported(Draft(b, l, r))
           first  == IF Everywhere(b, l, r) THEN ExistingProblems(b, l, r)
                                            ELSE {Subject(b)} \X Problem(b, l, r)
           second == IF Draft(b, l, r) # None /\ ~Supported(Draft(b, l, r))
                     THEN {<<"kind", "component_unsupported">>} ELSE {}
<1>1. AssetProblems(b, l, r) = first \cup second
  BY Zenon DEF AssetProblems
<1>2. second = {} <=> shaped
  BY DEF second
<1>3. AssetProblems(b, l, r) = {} => clear
  BY NoProblem, Zenon
<1>4. clear => first = {}
  <2>1. ASSUME clear, Everywhere(b, l, r) PROVE first = {}
    <3> DEFINE N(h) == Problem(b.native[h], l.native[h], r.native[h])
    <3>1. \A h \in Harnesses : N(h) = {}
      BY <2>1
    <3>2. UNION {{h} \X N(h) : h \in Harnesses} = {}
      <4> HIDE DEF N
      <4>1. \A h \in Harnesses : {h} \X N(h) = {}
        BY <3>1
      <4>2. QED  BY <4>1
    <3>3. Problem(b.kind, l.kind, r.kind) = {} /\ Problem(b.portable, l.portable, r.portable) = {}
      BY <2>1
    <3>4. QED  BY <2>1, <3>2, <3>3 DEF ExistingProblems
  <2>2. ASSUME clear, ~Everywhere(b, l, r) PROVE first = {}
    BY <2>2
  <2>3. QED  BY <2>1, <2>2
<1> HIDE DEF clear, shaped, first, second
<1>5. AssetProblems(b, l, r) = {} <=> shaped /\ clear
  BY <1>1, <1>2, <1>3, <1>4
<1>6. QED  BY <1>5 DEF clear, shaped

(***************************************************************************)
(* The record of a merged asset, part by part.                             *)
(***************************************************************************)
Recorded(b, l, r) == Rederive(Draft(b, l, r))

\* x is an asset with the parts of a shape, or None when the shape has no kind.
Has3(x, shape) ==
    IF shape.kind = None THEN x = None
    ELSE /\ x # None
         /\ x.kind = shape.kind /\ x.portable = shape.portable /\ x.native = shape.native

LEMMA ShapeSupported ==
    ASSUME NEW x, NEW y, x.kind = y.kind, x.portable = y.portable, x.native = y.native
    PROVE  Supported(x) = Supported(y)
  BY Zenon DEF Supported

LEMMA NoKindProblem ==
    ASSUME NEW b \in Assets3, NEW l \in Assets3, NEW r \in Assets3, ~Everywhere(b, l, r)
    PROVE  Problem(b, l, r) = {} <=>
               /\ ~ \E q \in Slots : Slot(b, q) # None /\ None \in {Slot(l, q), Slot(r, q)}
               /\ ~ (b = None /\ None \notin {l, r} /\ l # r)
               /\ ~ \E q \in Slots : Diverged(Slot(b, q), Slot(l, q), Slot(r, q))
<1>1. CASE b # None
  <2>1. l = None \/ r = None
    BY <1>1 DEF Everywhere
  <2>2. Problem(b, l, r) # {}
    BY <1>1, <2>1 DEF Problem, Deleted
  <2>3. Slot(b, "kind") # None /\ None \in {Slot(l, "kind"), Slot(r, "kind")}
    BY <1>1, <2>1, Slots3
  <2>4. QED  BY <2>2, <2>3 DEF Slots
<1>2. CASE b = None
  <2>1. Problem(b, l, r) = {} <=> ~ (None \notin {l, r} /\ l # r)
    BY <1>2 DEF Problem, Deleted, Diverged
  <2>2. \A q \in Slots : Slot(b, q) = None
    BY <1>2 DEF Slot
  <2>3. (l = None \/ r = None \/ l = r) =>
            \A q \in Slots : ~Diverged(Slot(b, q), Slot(l, q), Slot(r, q))
    BY <1>2 DEF Slot, Diverged
  <2>4. QED  BY <1>2, <2>1, <2>2, <2>3
<1>3. QED  BY <1>1, <1>2

(***************************************************************************)
(* An asset is merged exactly when no reason stands against it, and then   *)
(* it has the reconciled parts.                                            *)
(***************************************************************************)
LEMMA AssetThreeWay ==
    ASSUME NEW b \in Assets3, NEW l \in Assets3, NEW r \in Assets3
    PROVE  /\ AssetProblems(b, l, r) = {} <=> ~AssetReason(b, l, r)
           /\ AssetProblems(b, l, r) = {} =>
                  /\ Has3(Draft(b, l, r), AssetShape(b, l, r))
                  /\ Draft(b, l, r) \in Assets3
<1> DEFINE d == Draft(b, l, r)
           S == AssetShape(b, l, r)
           lost == \E q \in Slots : Slot(b, q) # None /\ None \in {Slot(l, q), Slot(r, q)}
           apart == \E q \in Slots : Diverged(Slot(b, q), Slot(l, q), Slot(r, q))
           both == b = None /\ None \notin {l, r} /\ l # r
           clear == IF Everywhere(b, l, r)
                    THEN /\ Problem(b.kind, l.kind, r.kind) = {}
                         /\ Problem(b.portable, l.portable, r.portable) = {}
                         /\ \A h \in Harnesses : Problem(b.native[h], l.native[h], r.native[h]) = {}
                    ELSE Problem(b, l, r) = {}
<1>1. clear <=> ~lost /\ ~apart /\ ~both
  <2>1. CASE Everywhere(b, l, r)
    <3>1. b # None /\ l # None /\ r # None
      BY <2>1 DEF Everywhere
    <3>2. /\ Slot(b, "kind") = b.kind /\ Slot(l, "kind") = l.kind /\ Slot(r, "kind") = r.kind
          /\ Slot(b, "portable") = b.portable /\ Slot(l, "portable") = l.portable
          /\ Slot(r, "portable") = r.portable
          /\ \A h \in Harnesses : /\ Slot(b, h) = b.native[h] /\ Slot(l, h) = l.native[h]
                                  /\ Slot(r, h) = r.native[h]
      BY <3>1, Slots3
    <3> DEFINE Free(q) == Problem(Slot(b, q), Slot(l, q), Slot(r, q)) = {}
    <3>3. clear <=> Free("kind") /\ Free("portable") /\ \A h \in Harnesses : Free(h)
      BY <2>1, <3>2
    <3>4. \A q : Free(q) <=> /\ ~ (Slot(b, q) # None /\ None \in {Slot(l, q), Slot(r, q)})
                             /\ ~Diverged(Slot(b, q), Slot(l, q), Slot(r, q))
      BY ProblemFree DEF Deleted
    <3> HIDE DEF Free, clear
    <3>5. QED  BY <3>1, <3>3, <3>4 DEF Slots
  <2>2. CASE ~Everywhere(b, l, r)
    BY <2>2, NoKindProblem
  <2>3. QED  BY <2>1, <2>2
<1>2. ASSUME clear PROVE Has3(d, S) /\ d \in Assets3
  <2>1. CASE Everywhere(b, l, r)
    <3>1. b # None /\ l # None /\ r # None
      BY <2>1 DEF Everywhere
    <3>2. d = [kind     |-> Pick(b.kind, l.kind, r.kind),
               portable |-> Pick(b.portable, l.portable, r.portable),
               native   |-> [h \in Harnesses |-> Pick(b.native[h], l.native[h], r.native[h])],
               derived  |-> b.derived]
      BY <2>1, Zenon DEF Draft, MergeExisting
    <3>3. /\ Pick(b.kind, l.kind, r.kind) = ThreeWaySlot(b.kind, l.kind, r.kind)
          /\ Pick(b.portable, l.portable, r.portable)
               = ThreeWaySlot(b.portable, l.portable, r.portable)
          /\ \A h \in Harnesses : Pick(b.native[h], l.native[h], r.native[h])
                                  = ThreeWaySlot(b.native[h], l.native[h], r.native[h])
      BY <1>2, <2>1, ProblemFree
    <3>4. S = [kind     |-> ThreeWaySlot(b.kind, l.kind, r.kind),
               portable |-> ThreeWaySlot(b.portable, l.portable, r.portable),
               native   |-> [h \in Harnesses |-> ThreeWaySlot(b.native[h], l.native[h], r.native[h])]]
      BY <3>1, Slots3, Zenon DEF AssetShape
    <3> DEFINE k == ThreeWaySlot(b.kind, l.kind, r.kind)
               c == ThreeWaySlot(b.portable, l.portable, r.portable)
               n == [h \in Harnesses |-> ThreeWaySlot(b.native[h], l.native[h], r.native[h])]
    <3>5. [h \in Harnesses |-> Pick(b.native[h], l.native[h], r.native[h])] = n
      BY <3>3, Zenon
    <3>6. d = [kind |-> k, portable |-> c, native |-> n, derived |-> b.derived]
      BY <3>2, <3>3, <3>5, Zenon
    <3>7. k \in AssetKinds /\ c \in Revisions \cup {None} /\ b.derived \in BOOLEAN
          /\ n \in [Harnesses -> Revisions \cup {None}]
      BY <3>1 DEF Assets3, Asset, ThreeWaySlot
    <3> HIDE DEF k, c, n, d
    <3>8. d \in Asset(AssetKinds, Revisions)
      BY <3>6, <3>7 DEF Asset
    <3>9. d # None /\ k # None
      BY <3>7, <3>8, TripleAssumption
    <3>10. S = [kind |-> k, portable |-> c, native |-> n]
      BY <3>4 DEF k, c, n
    <3>11. Has3(d, S)
      BY <3>6, <3>9, <3>10 DEF Has3
    <3>12. QED  BY <3>8, <3>11 DEF Assets3, d
  <2>2. CASE ~Everywhere(b, l, r)
    <3>1. ~Deleted(b, l, r) /\ ~Diverged(b, l, r)
      BY <1>2, <2>2, ProblemFree
    <3>2. b = None
      BY <2>2, <3>1 DEF Everywhere, Deleted
    <3>3. d = IF l # None THEN l ELSE r
      BY <1>2, <2>2, <3>1, <3>2, ProblemFree DEF Draft, ThreeWaySlot
    <3>4. l # None /\ r # None => l = r
      BY <3>1, <3>2 DEF Diverged
    <3>5. \A q \in Slots : ThreeWaySlot(Slot(b, q), Slot(l, q), Slot(r, q)) = Slot(d, q)
      BY <3>2, <3>3, <3>4 DEF Slot, ThreeWaySlot
    <3> HIDE DEF d, S
    <3>6. d \in Assets3
      BY <3>3
    <3>7. S = [kind |-> Slot(d, "kind"), portable |-> Slot(d, "portable"),
               native |-> [h \in Harnesses |-> Slot(d, h)]]
      BY <3>5, Zenon DEF AssetShape, Slots, S
    <3>8. CASE d = None
      <4>1. S.kind = None
        BY <3>7, <3>8 DEF Slot
      <4>2. QED  BY <3>6, <3>8, <4>1, Zenon DEF Has3
    <3>9. CASE d # None
      <4>1. [h \in Harnesses |-> Slot(d, h)] = d.native
        BY <3>6, <3>9, Slots3 DEF Assets3, Asset
      <4>2. Slot(d, "kind") = d.kind /\ Slot(d, "portable") = d.portable /\ Slot(d, "kind") # None
        BY <3>6, <3>9, Slots3
      <4>3. S.kind = d.kind /\ S.portable = d.portable /\ S.native = d.native
        BY <3>7, <4>1, <4>2
      <4>4. S.kind # None
        BY <4>2, <4>3
      <4>5. QED  BY <3>6, <3>9, <4>3, <4>4, Zenon DEF Has3
    <3>10. QED  BY <3>6, <3>8, <3>9 DEF d, S
  <2>3. QED  BY <2>1, <2>2
<1>3. clear => (d # None => Supported(d)) = ~ (S.kind # None /\ ~Supported(S))
  <2> HIDE DEF clear, d, S
  <2> QED  BY <1>2, ShapeSupported DEF Has3
<1>4. AssetProblems(b, l, r) = {} <=> (d # None => Supported(d)) /\ clear
  BY AssetClear, Zenon
<1>5. AssetReason(b, l, r) <=> lost \/ apart \/ (S.kind # None /\ ~Supported(S)) \/ both
  BY Zenon DEF AssetReason
<1> HIDE DEF clear, lost, apart, both, d, S
<1>6. QED  BY <1>1, <1>2, <1>3, <1>4, <1>5 DEF d, S

(***************************************************************************)
(* A pack likewise; its members are those of all three.                    *)
(***************************************************************************)
PackReason(b, l, r) ==
    \/ ~(Members(b) \subseteq Members(l) \cap Members(r))
    \/ Source(l) # Source(b) /\ Source(r) # Source(b) /\ Source(l) # Source(r)
    \/ b = None /\ None \notin {l, r} /\ l # r

LEMMA PackThreeWay ==
    ASSUME NEW b \in Packs3, NEW l \in Packs3, NEW r \in Packs3
    PROVE  /\ PackProblem(b, l, r) = {} <=> ~PackReason(b, l, r)
           /\ PackProblem(b, l, r) = {} =>
                  /\ MergePack(b, l, r) \in Packs3
                  /\ Members(MergePack(b, l, r)) = Members(b) \cup Members(l) \cup Members(r)
                  /\ b # None => l # None /\ r # None
<1>1. \A x \in {b, l, r} :
        /\ x = None => Members(x) = {} /\ Source(x) = None
        /\ x # None => /\ Members(x) \subseteq Ids /\ Members(x) # {}
                       /\ Source(x) \in Sources /\ Source(x) # None
  BY TripleAssumption DEF Packs3, Pack, Members, Source
<1>2. Deleted(b, l, r) => PackReason(b, l, r)
  BY <1>1 DEF Deleted, PackReason
<1>3. PackProblem(b, l, r) = {} <=> ~PackReason(b, l, r)
  <2>1. PackProblem(b, l, r) = {} <=>
          /\ ~Deleted(b, l, r) /\ ~Diverged(Source(b), Source(l), Source(r))
          /\ ~(b = None /\ Diverged(b, l, r))
          /\ Members(b) \subseteq Members(l) \cap Members(r)
    BY Zenon DEF PackProblem
  <2>2. Diverged(Source(b), Source(l), Source(r)) <=>
          Source(l) # Source(b) /\ Source(r) # Source(b) /\ Source(l) # Source(r)
    BY DEF Diverged
  <2>3. b = None => (Diverged(b, l, r) <=> None \notin {l, r} /\ l # r)
    BY DEF Diverged
  <2> DEFINE within == Members(b) \subseteq Members(l) \cap Members(r)
             apart  == Source(l) # Source(b) /\ Source(r) # Source(b) /\ Source(l) # Source(r)
             both   == None \notin {l, r} /\ l # r
  <2>4. PackReason(b, l, r) <=> ~within \/ apart \/ (b = None /\ both)
    BY Zenon DEF PackReason
  <2> HIDE DEF within, apart, both
  <2>5. PackProblem(b, l, r) = {} <=> ~Deleted(b, l, r) /\ ~apart /\ ~(b = None /\ both) /\ within
    BY <2>1, <2>2, <2>3 DEF within, apart, both
  <2>6. QED  BY <1>2, <2>4, <2>5
<1>4. ASSUME PackProblem(b, l, r) = {}
      PROVE  /\ MergePack(b, l, r) \in Packs3
             /\ Members(MergePack(b, l, r)) = Members(b) \cup Members(l) \cup Members(r)
             /\ b # None => l # None /\ r # None
  <2>1. b # None => l # None /\ r # None
    BY <1>4 DEF PackProblem, Deleted
  <2>2. CASE l = None /\ r = None
    BY <2>1, <2>2, <1>1 DEF MergePack, Packs3
  <2>3. CASE l # None \/ r # None
    <3> DEFINE s == Choose(Source(b), Source(l), Source(r))
               n == Members(b) \cup Members(l) \cup Members(r)
    <3>1. MergePack(b, l, r) = [source |-> s, members |-> n]
      BY <2>3, Zenon DEF MergePack
    <3>2. s \in Sources
      BY <1>1, <2>1, <2>3 DEF Choose
    <3>3. n \in (SUBSET Ids) \ {{}}
      BY <1>1, <2>3
    <3> HIDE DEF s, n
    <3>4. MergePack(b, l, r) \in Pack(Sources)
      BY <3>1, <3>2, <3>3 DEF Pack
    <3>5. MergePack(b, l, r) # None
      BY <3>4, TripleAssumption
    <3>6. Members(MergePack(b, l, r)) = n
      BY <3>1, <3>5 DEF Members
    <3>7. QED  BY <2>1, <3>4, <3>6 DEF n, Packs3
  <2>4. QED  BY <2>2, <2>3
<1>5. QED  BY <1>3, <1>4

(***************************************************************************)
(* A merge has no conflict when no identity and no profile has one.        *)
(***************************************************************************)
NoProblemOf(b, l, r, id) ==
    /\ AssetProblems(b.assets[id], l.assets[id], r.assets[id]) = {}
    /\ PackProblem(b.packs[id], l.packs[id], r.packs[id]) = {}

LEMMA ConflictFree ==
    ASSUME NEW b, NEW l, NEW r
    PROVE  Conflicts(b, l, r) = {} <=>
             /\ \A id \in Ids : NoProblemOf(b, l, r, id)
             /\ \A w \in Profiles : b.profiles[w] = l.profiles[w] /\ b.profiles[w] = r.profiles[w]
<1> DEFINE A1(id) == AssetProblems(b.assets[id], l.assets[id], r.assets[id])
           P1(id) == PackProblem(b.packs[id], l.packs[id], r.packs[id])
           W1(w)  == ProfileProblem(b.profiles[w], l.profiles[w], r.profiles[w])
<1>1. \A w : W1(w) = {} <=> b.profiles[w] = l.profiles[w] /\ b.profiles[w] = r.profiles[w]
  BY DEF ProfileProblem
<1>2. ASSUME Conflicts(b, l, r) = {}, NEW w \in Profiles PROVE W1(w) = {}
  <2> HIDE DEF W1
  <2>1. {w} \X ({"profile"} \X W1(w)) \subseteq ProfileConflicts(b, l, r)
    BY Zenon DEF ProfileConflicts, W1
  <2>2. {w} \X ({"profile"} \X W1(w)) = {}
    BY <1>2, <2>1, Zenon DEF Conflicts
  <2>3. {"profile"} \X W1(w) = {}
    BY <2>2, ProductEmpty
  <2>4. QED  BY <2>3, ProductEmpty
<1>3. ASSUME \A id \in Ids : A1(id) = {} /\ P1(id) = {}, \A w \in Profiles : W1(w) = {}
      PROVE  Conflicts(b, l, r) = {}
  <2>1. /\ AssetConflicts(b, l, r) = UNION {{id} \X A1(id) : id \in Ids}
        /\ PackConflicts(b, l, r) = UNION {{id} \X ({"pack"} \X P1(id)) : id \in Ids}
        /\ ProfileConflicts(b, l, r) = UNION {{w} \X ({"profile"} \X W1(w)) : w \in Profiles}
    BY Zenon DEF AssetConflicts, PackConflicts, ProfileConflicts
  <2> HIDE DEF A1, P1, W1
  <2>2. /\ \A id \in Ids : {id} \X A1(id) = {} /\ {id} \X ({"pack"} \X P1(id)) = {}
        /\ \A w \in Profiles : {w} \X ({"profile"} \X W1(w)) = {}
    BY <1>3
  <2>3. AssetConflicts(b, l, r) = {} /\ PackConflicts(b, l, r) = {} /\ ProfileConflicts(b, l, r) = {}
    BY <2>1, <2>2
  <2>4. QED  BY <2>3 DEF Conflicts
<1>4. Conflicts(b, l, r) = {} => \A id \in Ids : A1(id) = {} /\ P1(id) = {}
  BY NoConflict, Zenon
<1> HIDE DEF A1, P1, W1
<1>5. Conflicts(b, l, r) = {} <=> /\ \A id \in Ids : A1(id) = {} /\ P1(id) = {}
                                  /\ \A w \in Profiles : W1(w) = {}
  BY <1>2, <1>3, <1>4
<1>6. \A id \in Ids : NoProblemOf(b, l, r, id) <=> A1(id) = {} /\ P1(id) = {}
  BY Zenon DEF NoProblemOf, A1, P1
<1>7. QED  BY <1>1, <1>5, <1>6

(***************************************************************************)
(* The parts of a manifest are the parts of its assets.                    *)
(***************************************************************************)
LEMMA Typed3 ==
    ASSUME NEW m \in AllManifests, NEW id \in Ids
    PROVE  /\ m.assets[id] \in Assets3 /\ m.packs[id] \in Packs3
           /\ \A q : Part(m, <<id, q>>) = Slot(m.assets[id], q)
  BY DEF AllManifests, Manifest, Assets3, Packs3, Part, Slot

LEMMA SlotsOf ==
    ASSUME NEW b \in AllManifests, NEW l \in AllManifests, NEW r \in AllManifests, NEW id \in Ids
    PROVE  /\ \A q : Reconciled(b, l, r, <<id, q>>)
                   = ThreeWaySlot(Slot(b.assets[id], q), Slot(l.assets[id], q), Slot(r.assets[id], q))
           /\ Shape(b, l, r, id) = AssetShape(b.assets[id], l.assets[id], r.assets[id])
<1>1. \A q : Reconciled(b, l, r, <<id, q>>)
              = ThreeWaySlot(Slot(b.assets[id], q), Slot(l.assets[id], q), Slot(r.assets[id], q))
  <2>1. \A q : /\ Part(b, <<id, q>>) = Slot(b.assets[id], q)
               /\ Part(l, <<id, q>>) = Slot(l.assets[id], q)
               /\ Part(r, <<id, q>>) = Slot(r.assets[id], q)
    BY Typed3
  <2>2. QED  BY <2>1, Zenon DEF Reconciled, Changed, ThreeWaySlot
<1>2. QED  BY <1>1, Zenon DEF Shape, AssetShape

LEMMA PartPair ==
    /\ Parts = Ids \X Slots
    /\ \A p \in Parts : \E id \in Ids, q \in Slots : p = <<id, q>>
<1>1. Parts = Ids \X Slots
  BY DEF Parts, Slots
<1>2. \A p \in Ids \X Slots : \E id \in Ids, q \in Slots : p = <<id, q>>
  OBVIOUS
<1>3. QED  BY <1>1, <1>2

(***************************************************************************)
(* merge_manifests has no conflict exactly when no reason is there.        *)
(***************************************************************************)
LEMMA NoReason ==
    ASSUME NEW b \in AllManifests, NEW l \in AllManifests, NEW r \in AllManifests
    PROVE  Conflicts(b, l, r) = {} <=> ~Reason(b, l, r)
<1> DEFINE AR(id) == AssetReason(b.assets[id], l.assets[id], r.assets[id])
           PR(id) == PackReason(b.packs[id], l.packs[id], r.packs[id])
<1>1. ASSUME NEW id \in Ids
      PROVE  /\ AssetProblems(b.assets[id], l.assets[id], r.assets[id]) = {} <=> ~AR(id)
             /\ PackProblem(b.packs[id], l.packs[id], r.packs[id]) = {} <=> ~PR(id)
             /\ NoProblemOf(b, l, r, id) <=> ~AR(id) /\ ~PR(id)
  BY Typed3, AssetThreeWay, PackThreeWay DEF NoProblemOf
<1>2. Profiled(b, l, r) <=> ~ \A w \in Profiles : b.profiles[w] = l.profiles[w]
                                               /\ b.profiles[w] = r.profiles[w]
  <2>1. \A m \in {b, l, r} : m.profiles \in [Profiles -> Values \cup {None}]
    BY DEF AllManifests, Manifest
  <2>2. \A m \in {b, l, r} : m.profiles = [w \in Profiles |-> m.profiles[w]]
    BY <2>1, Zenon
  <2>3. (\A w \in Profiles : b.profiles[w] = l.profiles[w]) => b.profiles = l.profiles
    BY <2>2
  <2>4. (\A w \in Profiles : b.profiles[w] = r.profiles[w]) => b.profiles = r.profiles
    BY <2>2
  <2>5. QED  BY <2>3, <2>4 DEF Profiled
<1>3. Conflicts(b, l, r) = {} <=> ~ ((\E id \in Ids : AR(id) \/ PR(id)) \/ Profiled(b, l, r))
  <2> HIDE DEF AR, PR
  <2>1. Conflicts(b, l, r) = {} <=>
             /\ \A id \in Ids : NoProblemOf(b, l, r, id)
             /\ \A w \in Profiles : b.profiles[w] = l.profiles[w] /\ b.profiles[w] = r.profiles[w]
    BY ConflictFree
  <2>2. QED  BY <1>1, <1>2, <2>1
<1>4. (\E id \in Ids : AR(id)) <=>
        \/ \E p \in Parts : Part(b, p) # None /\ None \in {Part(l, p), Part(r, p)}
        \/ \E p \in Parts : Changed(b, l, p) /\ Changed(b, r, p) /\ Part(l, p) # Part(r, p)
        \/ Unsupported(b, l, r)
        \/ BothNew(b, l, r, "assets")
  <2> DEFINE X(m, id, q) == Slot(m.assets[id], q)
             R1(id) == \E q \in Slots : X(b, id, q) # None /\ None \in {X(l, id, q), X(r, id, q)}
             R2(id) == \E q \in Slots : Diverged(X(b, id, q), X(l, id, q), X(r, id, q))
             R3(id) == Shape(b, l, r, id).kind # None /\ ~Supported(Shape(b, l, r, id))
             R4(id) == /\ b.assets[id] = None /\ None \notin {l.assets[id], r.assets[id]}
                       /\ l.assets[id] # r.assets[id]
  <2>1. \A id \in Ids : AR(id) <=> R1(id) \/ R2(id) \/ R3(id) \/ R4(id)
    <3>1. ASSUME NEW id \in Ids PROVE AR(id) <=> R1(id) \/ R2(id) \/ R3(id) \/ R4(id)
      <4>1. Shape(b, l, r, id) = AssetShape(b.assets[id], l.assets[id], r.assets[id])
        BY SlotsOf
      <4>2. QED  BY <4>1, Zenon DEF AssetReason
    <3>2. QED  BY <3>1, Zenon
  <2>2. (\E p \in Parts : Part(b, p) # None /\ None \in {Part(l, p), Part(r, p)})
          <=> \E id \in Ids : R1(id)
    <3>1. \A id \in Ids, q \in Slots :
            /\ Part(b, <<id, q>>) = X(b, id, q) /\ Part(l, <<id, q>>) = X(l, id, q)
            /\ Part(r, <<id, q>>) = X(r, id, q) /\ <<id, q>> \in Parts
      BY Typed3 DEF Parts, Slots
    <3>2. \A p \in Parts : \E id \in Ids, q \in Slots : p = <<id, q>>
      BY PartPair
    <3> HIDE DEF X
    <3>3. QED  BY <3>1, <3>2
  <2>3. (\E p \in Parts : Changed(b, l, p) /\ Changed(b, r, p) /\ Part(l, p) # Part(r, p))
          <=> \E id \in Ids : R2(id)
    <3>1. \A id \in Ids, q \in Slots :
            /\ Part(b, <<id, q>>) = X(b, id, q) /\ Part(l, <<id, q>>) = X(l, id, q)
            /\ Part(r, <<id, q>>) = X(r, id, q) /\ <<id, q>> \in Parts
      BY Typed3 DEF Parts, Slots
    <3>2. \A p \in Parts : \E id \in Ids, q \in Slots : p = <<id, q>>
      BY PartPair
    <3>3. \A id \in Ids, q \in Slots :
            LET p == <<id, q>>
            IN  Changed(b, l, p) /\ Changed(b, r, p) /\ Part(l, p) # Part(r, p)
                  <=> Diverged(X(b, id, q), X(l, id, q), X(r, id, q))
      <4> SUFFICES ASSUME NEW id \in Ids, NEW q \in Slots
                   PROVE  LET p == <<id, q>>
                          IN  Changed(b, l, p) /\ Changed(b, r, p) /\ Part(l, p) # Part(r, p)
                                <=> Diverged(X(b, id, q), X(l, id, q), X(r, id, q))
        BY Zenon
      <4> DEFINE p == <<id, q>>
      <4>1. Part(b, p) = X(b, id, q) /\ Part(l, p) = X(l, id, q) /\ Part(r, p) = X(r, id, q)
        BY <3>1, Zenon
      <4> HIDE DEF X, p
      <4>2. Changed(b, l, p) /\ Changed(b, r, p) /\ Part(l, p) # Part(r, p)
                                <=> Diverged(X(b, id, q), X(l, id, q), X(r, id, q))
        BY <4>1 DEF Changed, Diverged
      <4>3. QED  BY <4>2, Zenon DEF p
    <3>4. ASSUME NEW p \in Parts, Changed(b, l, p), Changed(b, r, p), Part(l, p) # Part(r, p)
          PROVE  \E id \in Ids : R2(id)
      <4>1. PICK id \in Ids, q \in Slots : p = <<id, q>>
        BY <3>2
      <4> HIDE DEF X
      <4>2. Diverged(X(b, id, q), X(l, id, q), X(r, id, q))
        BY <3>3, <3>4, <4>1, Zenon
      <4>3. QED  BY <4>2, Zenon
    <3>5. ASSUME NEW id \in Ids, R2(id)
          PROVE  \E p \in Parts : Changed(b, l, p) /\ Changed(b, r, p) /\ Part(l, p) # Part(r, p)
      <4> HIDE DEF X
      <4>1. PICK q \in Slots : Diverged(X(b, id, q), X(l, id, q), X(r, id, q))
        BY <3>5, Zenon
      <4>2. <<id, q>> \in Parts
        BY <3>1
      <4>3. QED  BY <3>3, <4>1, <4>2, Zenon
    <3> HIDE DEF X, R2
    <3>6. QED  BY <3>4, <3>5, Zenon
  <2>4. Unsupported(b, l, r) <=> \E id \in Ids : R3(id)
    BY Zenon DEF Unsupported
  <2>5. BothNew(b, l, r, "assets") <=> \E id \in Ids : R4(id)
    BY DEF BothNew, AllManifests, Manifest
  <2> HIDE DEF AR, R1, R2, R3, R4
  <2>6. (\E id \in Ids : AR(id)) <=>
          \/ \E id \in Ids : R1(id)
          \/ \E id \in Ids : R2(id)
          \/ \E id \in Ids : R3(id)
          \/ \E id \in Ids : R4(id)
    BY <2>1
  <2>7. QED  BY <2>2, <2>3, <2>4, <2>5, <2>6, Zenon
<1>5. (\E id \in Ids : PR(id)) <=>
        \/ \E id \in Ids : ~(Members(b.packs[id]) \subseteq Members(l.packs[id]) \cap Members(r.packs[id]))
        \/ \E id \in Ids : /\ Source(l.packs[id]) \notin {Source(b.packs[id]), Source(r.packs[id])}
                           /\ Source(r.packs[id]) # Source(b.packs[id])
        \/ BothNew(b, l, r, "packs")
  <2> DEFINE M1(id) == ~(Members(b.packs[id]) \subseteq Members(l.packs[id]) \cap Members(r.packs[id]))
             M2(id) == /\ Source(l.packs[id]) \notin {Source(b.packs[id]), Source(r.packs[id])}
                       /\ Source(r.packs[id]) # Source(b.packs[id])
             M3(id) == /\ b.packs[id] = None /\ None \notin {l.packs[id], r.packs[id]}
                       /\ l.packs[id] # r.packs[id]
  <2>1. \A id \in Ids : PR(id) <=> M1(id) \/ M2(id) \/ M3(id)
    BY Zenon DEF PackReason
  <2>2. BothNew(b, l, r, "packs") <=> \E id \in Ids : M3(id)
    BY DEF BothNew, AllManifests, Manifest
  <2> HIDE DEF PR, M1, M2, M3
  <2>3. (\E id \in Ids : PR(id)) <=>
          \/ \E id \in Ids : M1(id)
          \/ \E id \in Ids : M2(id)
          \/ BothNew(b, l, r, "packs")
    BY <2>1, <2>2
  <2>4. QED  BY <2>3, Zenon DEF M1, M2
<1> HIDE DEF AR, PR
<1>6. Reason(b, l, r) <=> (\E id \in Ids : AR(id)) \/ (\E id \in Ids : PR(id)) \/ Profiled(b, l, r)
  BY <1>4, <1>5, Zenon DEF Reason, Lost, Opposed
<1>7. QED  BY <1>3, <1>6

(***************************************************************************)
(* What merge_assets returns for an asset without a conflict.              *)
(***************************************************************************)
LEMMA AssetParts ==
    ASSUME NEW b \in Assets3, NEW l \in Assets3, NEW r \in Assets3,
           AssetProblems(b, l, r) = {}
    PROVE  /\ Recorded(b, l, r) \in Assets3
           /\ Recorded(b, l, r) = None <=> b = None /\ l = None /\ r = None
           /\ Recorded(b, l, r) # None =>
                  Recorded(b, l, r).derived /\ Supported(Recorded(b, l, r))
           /\ \A q \in Slots : Slot(Recorded(b, l, r), q)
                               = ThreeWaySlot(Slot(b, q), Slot(l, q), Slot(r, q))
<1> DEFINE m == Recorded(b, l, r)
           d == Draft(b, l, r)
           S == AssetShape(b, l, r)
<1>1. Has3(d, S) /\ d \in Assets3 /\ ~AssetReason(b, l, r)
  BY AssetThreeWay
<1>2. d # None => Supported(d)
  BY AssetClear
<1>3. S.kind = ThreeWaySlot(Slot(b, "kind"), Slot(l, "kind"), Slot(r, "kind"))
  BY DEF AssetShape
<1>4. /\ b # None <=> Slot(b, "kind") # None
      /\ l # None <=> Slot(l, "kind") # None
      /\ r # None <=> Slot(r, "kind") # None
  BY Slots3
<1>5. ~ (Slot(b, "kind") # None /\ None \in {Slot(l, "kind"), Slot(r, "kind")})
  BY <1>1, Zenon DEF AssetReason, Slots
<1>6. S.kind = None <=> b = None /\ l = None /\ r = None
  BY <1>3, <1>4, <1>5 DEF ThreeWaySlot
<1>7. d = None <=> S.kind = None
  <2> HIDE DEF d, S
  <2>1. QED  BY <1>1, Zenon DEF Has3
<1>8. \A q \in Slots : Slot(d, q) = ThreeWaySlot(Slot(b, q), Slot(l, q), Slot(r, q))
  <2>1. CASE d = None
    <3>1. b = None /\ l = None /\ r = None
      BY <1>6, <1>7, <2>1
    <3>2. \A q : Slot(d, q) = None /\ Slot(b, q) = None /\ Slot(l, q) = None /\ Slot(r, q) = None
      BY <2>1, <3>1 DEF Slot
    <3> HIDE DEF d
    <3>3. QED  BY <3>2 DEF ThreeWaySlot
  <2>2. CASE d # None
    <3>1. d.kind = S.kind /\ d.portable = S.portable /\ d.native = S.native
      <4> HIDE DEF d, S
      <4>1. QED  BY <1>1, <2>2, Zenon DEF Has3
    <3>2. /\ Slot(d, "kind") = d.kind /\ Slot(d, "portable") = d.portable
          /\ \A h \in Harnesses : Slot(d, h) = d.native[h]
      <4> HIDE DEF d
      <4>1. QED  BY <1>1, <2>2, Slots3
    <3>3. /\ S.portable = ThreeWaySlot(Slot(b, "portable"), Slot(l, "portable"), Slot(r, "portable"))
          /\ \A h \in Harnesses : S.native[h] = ThreeWaySlot(Slot(b, h), Slot(l, h), Slot(r, h))
      BY DEF AssetShape
    <3> HIDE DEF d, S
    <3>4. QED  BY <1>3, <3>1, <3>2, <3>3 DEF Slots
  <2>3. QED  BY <2>1, <2>2
<1> HIDE DEF d, S
<1>9. m = IF d = None THEN None ELSE [d EXCEPT !.derived = TRUE]
  BY DEF Recorded, Rederive, d
<1> HIDE DEF m
<1>10. CASE d = None
  <2>1. m = None /\ m = d /\ m \in Assets3
    BY <1>9, <1>10 DEF Assets3
  <2>2. \A q \in Slots : Slot(m, q) = ThreeWaySlot(Slot(b, q), Slot(l, q), Slot(r, q))
    BY <1>8, <2>1
  <2>3. QED  BY <1>6, <1>7, <1>10, <2>1, <2>2, Zenon DEF m
<1>11. CASE d # None
  <2>1. d \in Asset(AssetKinds, Revisions)
    BY <1>1, <1>11 DEF Assets3
  <2>2. m \in Asset(AssetKinds, Revisions) /\ m.derived = TRUE /\ m.kind = d.kind
          /\ m.portable = d.portable /\ m.native = d.native
    BY <1>9, <1>11, <2>1 DEF Asset
  <2>3. m # None /\ m \in Assets3
    BY <2>2, TripleAssumption DEF Assets3
  <2>4. Supported(m)
    BY <1>2, <1>11, <2>2 DEF Supported
  <2>5. \A q \in Slots : Slot(m, q) = Slot(d, q)
    <3>1. Slot(m, "kind") = m.kind /\ Slot(m, "portable") = m.portable
            /\ \A h \in Harnesses : Slot(m, h) = m.native[h]
      BY <2>3, Slots3
    <3>2. Slot(d, "kind") = d.kind /\ Slot(d, "portable") = d.portable
            /\ \A h \in Harnesses : Slot(d, h) = d.native[h]
      BY <1>1, <1>11, Slots3
    <3>3. QED  BY <2>2, <3>1, <3>2 DEF Slots
  <2>6. \A q \in Slots : Slot(m, q) = ThreeWaySlot(Slot(b, q), Slot(l, q), Slot(r, q))
    BY <1>8, <2>5
  <2>7. QED  BY <1>6, <1>7, <1>11, <2>2, <2>3, <2>4, <2>6, Zenon DEF m
<1>12. QED  BY <1>10, <1>11 DEF m

(***************************************************************************)
(* The manifest of a merge without conflicts.                              *)
(***************************************************************************)
LEMMA MergedParts ==
    ASSUME NEW b \in AllManifests, NEW l \in AllManifests, NEW r \in AllManifests,
           Conflicts(b, l, r) = {}, NEW m, m = MergedManifest(b, l, r)
    PROVE  /\ m \in AllManifests /\ m.profiles = b.profiles
           /\ \A p \in Parts : Part(m, p) = Reconciled(b, l, r, p)
           /\ \A id \in Ids :
                /\ m.assets[id] = Recorded(b.assets[id], l.assets[id], r.assets[id])
                /\ m.packs[id] = MergePack(b.packs[id], l.packs[id], r.packs[id])
                /\ AssetProblems(b.assets[id], l.assets[id], r.assets[id]) = {}
                /\ PackProblem(b.packs[id], l.packs[id], r.packs[id]) = {}
                /\ Members(m.packs[id]) = ReferenceMembers(b, l, r, id)
                /\ m.assets[id] = None <=>
                     b.assets[id] = None /\ l.assets[id] = None /\ r.assets[id] = None
                /\ m.packs[id] = None <=>
                     b.packs[id] = None /\ l.packs[id] = None /\ r.packs[id] = None
<1>1. m = [assets   |-> [id \in Ids |-> Recorded(b.assets[id], l.assets[id], r.assets[id])],
           packs    |-> [id \in Ids |-> MergePack(b.packs[id], l.packs[id], r.packs[id])],
           profiles |-> b.profiles]
  BY Zenon DEF MergedManifest, Recorded
<1>2. \A id \in Ids :
        /\ m.assets[id] = Recorded(b.assets[id], l.assets[id], r.assets[id])
        /\ m.packs[id] = MergePack(b.packs[id], l.packs[id], r.packs[id])
  <2> DEFINE f == [id \in Ids |-> Recorded(b.assets[id], l.assets[id], r.assets[id])]
             g == [id \in Ids |-> MergePack(b.packs[id], l.packs[id], r.packs[id])]
  <2>1. /\ \A id \in Ids : f[id] = Recorded(b.assets[id], l.assets[id], r.assets[id])
        /\ \A id \in Ids : g[id] = MergePack(b.packs[id], l.packs[id], r.packs[id])
    BY Zenon
  <2>2. m = [assets |-> f, packs |-> g, profiles |-> b.profiles]
    BY <1>1, Zenon
  <2> HIDE DEF f, g
  <2>3. m.assets = f /\ m.packs = g
    BY <2>2
  <2>4. QED  BY <2>1, <2>3
<1>3. ASSUME NEW id \in Ids
      PROVE  /\ b.assets[id] \in Assets3 /\ l.assets[id] \in Assets3 /\ r.assets[id] \in Assets3
             /\ b.packs[id] \in Packs3 /\ l.packs[id] \in Packs3 /\ r.packs[id] \in Packs3
  BY Typed3
<1>4. ASSUME NEW id \in Ids
      PROVE  /\ AssetProblems(b.assets[id], l.assets[id], r.assets[id]) = {}
             /\ PackProblem(b.packs[id], l.packs[id], r.packs[id]) = {}
  BY ConflictFree DEF NoProblemOf
<1>5. ASSUME NEW id \in Ids
      PROVE  /\ m.assets[id] \in Assets3
             /\ m.assets[id] = None <=>
                     b.assets[id] = None /\ l.assets[id] = None /\ r.assets[id] = None
             /\ \A q \in Slots : Slot(m.assets[id], q)
                   = ThreeWaySlot(Slot(b.assets[id], q), Slot(l.assets[id], q), Slot(r.assets[id], q))
  <2> DEFINE B == b.assets[id]
             L == l.assets[id]
             R == r.assets[id]
  <2>1. B \in Assets3 /\ L \in Assets3 /\ R \in Assets3
    BY <1>3
  <2>2. AssetProblems(B, L, R) = {}
    BY <1>4
  <2>3. m.assets[id] = Recorded(B, L, R)
    BY <1>2
  <2> HIDE DEF B, L, R
  <2>4. /\ m.assets[id] \in Assets3
        /\ m.assets[id] = None <=> B = None /\ L = None /\ R = None
        /\ \A q \in Slots : Slot(m.assets[id], q) = ThreeWaySlot(Slot(B, q), Slot(L, q), Slot(R, q))
    <3>1. /\ Recorded(B, L, R) \in Assets3
          /\ Recorded(B, L, R) = None <=> B = None /\ L = None /\ R = None
          /\ \A q \in Slots : Slot(Recorded(B, L, R), q)
                              = ThreeWaySlot(Slot(B, q), Slot(L, q), Slot(R, q))
      BY <2>1, <2>2, AssetParts
    <3>2. QED  BY <2>3, <3>1, Zenon
  <2>5. QED  BY <2>4, Zenon DEF B, L, R
<1>6. ASSUME NEW id \in Ids
      PROVE  /\ m.packs[id] \in Packs3
             /\ Members(m.packs[id]) = ReferenceMembers(b, l, r, id)
             /\ m.packs[id] = None <=>
                     b.packs[id] = None /\ l.packs[id] = None /\ r.packs[id] = None
  <2>1. /\ m.packs[id] \in Packs3
        /\ Members(m.packs[id]) = Members(b.packs[id]) \cup Members(l.packs[id]) \cup Members(r.packs[id])
        /\ b.packs[id] # None => l.packs[id] # None /\ r.packs[id] # None
    BY <1>2, <1>3, <1>4, PackThreeWay
  <2>2. ReferenceMembers(b, l, r, id)
          = Members(b.packs[id]) \cup Members(l.packs[id]) \cup Members(r.packs[id])
    BY DEF ReferenceMembers
  <2>3. \A x \in Packs3 : x = None <=> Members(x) = {}
    BY TripleAssumption DEF Packs3, Pack, Members
  <2>4. QED  BY <1>3, <2>1, <2>2, <2>3
<1>7. b.profiles \in [Profiles -> Values \cup {None}]
  BY DEF AllManifests, Manifest
<1>8. m \in AllManifests
  <2> DEFINE f == [id \in Ids |-> Recorded(b.assets[id], l.assets[id], r.assets[id])]
             g == [id \in Ids |-> MergePack(b.packs[id], l.packs[id], r.packs[id])]
  <2>1. \A id \in Ids : f[id] \in Assets3 /\ g[id] \in Packs3
    BY <1>2, <1>5, <1>6
  <2>2. f \in [Ids -> Assets3] /\ g \in [Ids -> Packs3]
    BY <2>1
  <2>3. m = [assets |-> f, packs |-> g, profiles |-> b.profiles]
    BY <1>1, Zenon
  <2> HIDE DEF f, g
  <2>4. QED  BY <1>7, <2>2, <2>3 DEF AllManifests, Manifest, Assets3, Packs3
<1>9. ASSUME NEW p \in Parts PROVE Part(m, p) = Reconciled(b, l, r, p)
  <2>1. PICK id \in Ids, q \in Slots : p = <<id, q>>
    BY PartPair
  <2>2. Part(m, p) = Slot(m.assets[id], q)
    BY <1>8, <2>1, Typed3
  <2>3. Reconciled(b, l, r, p)
          = ThreeWaySlot(Slot(b.assets[id], q), Slot(l.assets[id], q), Slot(r.assets[id], q))
    BY <2>1, SlotsOf
  <2>4. QED  BY <1>5, <2>2, <2>3
<1>10. m.profiles = b.profiles
  BY <1>1
<1>11. QED  BY <1>2, <1>4, <1>5, <1>6, <1>8, <1>9, <1>10

(***************************************************************************)
(* The three results of merge_manifests.                                   *)
(***************************************************************************)
LEMMA ThreeResults ==
    ASSUME NEW b, NEW l, NEW r
    PROVE  \/ /\ Conflicts(b, l, r) # {}
              /\ Merge(b, l, r) = Result("blocked", None, Conflicts(b, l, r))
           \/ /\ Conflicts(b, l, r) = {} /\ ~Valid(MergedManifest(b, l, r))
              /\ Merge(b, l, r) = Result("invalid", None, {})
           \/ /\ Conflicts(b, l, r) = {} /\ Valid(MergedManifest(b, l, r))
              /\ Merge(b, l, r) = Result("ready", MergedManifest(b, l, r), {})
  BY Zenon DEF Merge

LEMMA ResultParts ==
    ASSUME NEW status, NEW manifest, NEW conflicts
    PROVE  /\ Result(status, manifest, conflicts).status = status
           /\ Result(status, manifest, conflicts).manifest = manifest
  BY DEF Result

LEMMA ReadyResult ==
    ASSUME NEW b, NEW l, NEW r, Merge(b, l, r).status = "ready"
    PROVE  /\ Conflicts(b, l, r) = {} /\ Valid(MergedManifest(b, l, r))
           /\ Merge(b, l, r) = Result("ready", MergedManifest(b, l, r), {})
           /\ Merge(b, l, r).manifest = MergedManifest(b, l, r)
<1>1. Conflicts(b, l, r) = {}
  <2>1. Conflicts(b, l, r) # {} => Merge(b, l, r).status = "blocked"
    BY ThreeResults, ResultParts
  <2>2. QED  BY <2>1
<1>2. Valid(MergedManifest(b, l, r))
  <2>1. ~Valid(MergedManifest(b, l, r)) => Merge(b, l, r).status = "invalid"
    BY <1>1, ThreeResults, ResultParts
  <2>2. QED  BY <2>1
<1>3. Merge(b, l, r) = Result("ready", MergedManifest(b, l, r), {})
  BY <1>1, <1>2, ThreeResults
<1>4. Merge(b, l, r).manifest = MergedManifest(b, l, r)
  BY <1>3, ResultParts
<1>5. QED  BY <1>1, <1>2, <1>3, <1>4

(***************************************************************************)
(* A merge without conflicts of valid manifests has every member: it can   *)
(* only be invalid for an identity taken twice or packs inside each other. *)
(***************************************************************************)
LEMMA NothingDangles ==
    ASSUME NEW b \in AllManifests, NEW l \in AllManifests, NEW r \in AllManifests,
           Valid(b), Valid(l), Valid(r), Conflicts(b, l, r) = {}
    PROVE  ~Dangling(MergedManifest(b, l, r))
<1> DEFINE m == MergedManifest(b, l, r)
<1>1. SUFFICES ASSUME Dangling(m) PROVE FALSE
  OBVIOUS
<1>2. \A id \in Ids :
        /\ Members(m.packs[id]) = ReferenceMembers(b, l, r, id)
        /\ m.assets[id] = None <=> b.assets[id] = None /\ l.assets[id] = None /\ r.assets[id] = None
        /\ m.packs[id] = None <=> b.packs[id] = None /\ l.packs[id] = None /\ r.packs[id] = None
  BY MergedParts
<1> HIDE DEF m
<1>3. PICK id \in Ids : \E x \in Members(m.packs[id]) : m.assets[x] = None /\ m.packs[x] = None
  BY <1>1, Zenon DEF Dangling
<1>4. PICK x \in Members(m.packs[id]) : m.assets[x] = None /\ m.packs[x] = None
  BY <1>3
<1>5. PICK s \in {b, l, r} : x \in Members(s.packs[id])
  BY <1>2 DEF ReferenceMembers
<1>6. s \in AllManifests /\ Valid(s)
  BY <1>5
<1>7. x \in Ids
  <2>1. s.packs[id] \in Packs3
    BY <1>6, Typed3
  <2>2. QED  BY <1>5, <2>1 DEF Packs3, Pack, Members
<1>8. s.assets[x] = None /\ s.packs[x] = None
  BY <1>2, <1>4, <1>5, <1>7
<1>9. Dangling(s)
  BY <1>5, <1>8, Zenon DEF Dangling
<1>10. QED  BY <1>6, <1>9 DEF Valid

(***************************************************************************)
(* For every set of manifests, merge_manifests is the three-way merge of   *)
(* parts and of memberships: it blocks exactly for the listed reasons, and *)
(* fails without one only for a clash or a cycle.                          *)
(***************************************************************************)
THEOREM MergesThreeWay == TripleSpec => []MergeIsThreeWay
<1>1. ASSUME NEW b \in AllManifests, NEW l \in AllManifests, NEW r \in AllManifests,
             Valid(b), Valid(l), Valid(r)
      PROVE  ThreeWay(b, l, r, Merge(b, l, r))
  <2> DEFINE m == MergedManifest(b, l, r)
             o == Merge(b, l, r)
  <2>1. CASE Conflicts(b, l, r) # {}
    <3>1. o.status = "blocked"
      BY <2>1, ThreeResults, ResultParts
    <3>2. Reason(b, l, r)
      BY <2>1, NoReason
    <3> HIDE DEF o
    <3>3. QED  BY <3>1, <3>2 DEF ThreeWay, o
  <2>2. CASE Conflicts(b, l, r) = {}
    <3>1. ~Reason(b, l, r)
      BY <2>2, NoReason
    <3>2. /\ \A p \in Parts : Part(m, p) = Reconciled(b, l, r, p)
          /\ \A id \in Ids : Members(m.packs[id]) = ReferenceMembers(b, l, r, id)
          /\ m.profiles = b.profiles
      BY <2>2, MergedParts
    <3>3. ~Dangling(m)
      BY <1>1, <2>2, NothingDangles
    <3>4. CASE Valid(m)
      <4>1. o.status = "ready" /\ o.manifest = m
        BY <2>2, <3>4, ThreeResults, ResultParts
      <4> HIDE DEF m, o
      <4>2. QED  BY <3>1, <3>2, <4>1 DEF ThreeWay, o
    <3>5. CASE ~Valid(m)
      <4>1. o.status = "invalid"
        BY <2>2, <3>5, ThreeResults, ResultParts
      <4> HIDE DEF m, o
      <4>2. CASE Clash(m)
        <5>1. PICK id \in Ids : m.assets[id] # None /\ m.packs[id] # None
          BY <4>2 DEF Clash
        <5>2. m \in AllManifests
          BY <2>2, MergedParts DEF m
        <5>3. Part(m, <<id, "kind">>) # None
          <6>1. m.assets[id] \in Assets3 /\ Part(m, <<id, "kind">>) = Slot(m.assets[id], "kind")
            BY <5>2, Typed3
          <6>2. QED  BY <5>1, <6>1, Slots3
        <5>4. <<id, "kind">> \in Parts
          BY DEF Parts
        <5>5. Members(m.packs[id]) # {}
          <6>1. m.packs[id] \in Packs3
            BY <5>2, Typed3
          <6>2. QED  BY <5>1, <6>1 DEF Packs3, Pack, Members
        <5>6. Reconciled(b, l, r, <<id, "kind">>) # None /\ ReferenceMembers(b, l, r, id) # {}
          BY <3>2, <5>3, <5>4, <5>5
        <5>7. QED  BY <3>1, <4>1, <5>6 DEF ThreeWay, o
      <4>3. CASE Cyclic(m)
        <5>1. PICK S \in (SUBSET Ids) \ {{}} : \A id \in S : Members(m.packs[id]) \cap S # {}
          BY <4>3, Zenon DEF Cyclic
        <5>2. \A id \in S : ReferenceMembers(b, l, r, id) \cap S # {}
          BY <3>2, <5>1
        <5>3. \E T \in (SUBSET Ids) \ {{}} : \A id \in T : ReferenceMembers(b, l, r, id) \cap T # {}
          BY <5>2, Zenon
        <5>4. QED  BY <3>1, <4>1, <5>3 DEF ThreeWay, o
      <4>4. QED  BY <3>3, <3>5, <4>2, <4>3 DEF Valid
    <3>6. QED  BY <3>4, <3>5
  <2>3. QED  BY <2>1, <2>2
<1>2. TripleInv => MergeIsThreeWay
  BY <1>1, Zenon DEF TripleInv, MergeIsThreeWay
<1>3. QED  BY <1>2, TripleInvariant, PTL

-----------------------------------------------------------------------------
(***************************************************************************)
(* A recorded asset is known by its parts.                                 *)
(***************************************************************************)
LEMMA SameAsset ==
    ASSUME NEW x \in Assets3, NEW y \in Assets3,
           x # None => x.derived, y # None => y.derived,
           \A q \in Slots : Slot(x, q) = Slot(y, q)
    PROVE  x = y
<1>1. x = None <=> y = None
  BY Slots3 DEF Slots
<1>2. CASE x # None
  <2>1. /\ x.kind = y.kind /\ x.portable = y.portable
        /\ \A h \in Harnesses : x.native[h] = y.native[h]
    <3>1. /\ Slot(x, "kind") = x.kind /\ Slot(x, "portable") = x.portable
          /\ \A h \in Harnesses : Slot(x, h) = x.native[h]
      BY <1>2, Slots3
    <3>2. /\ Slot(y, "kind") = y.kind /\ Slot(y, "portable") = y.portable
          /\ \A h \in Harnesses : Slot(y, h) = y.native[h]
      BY <1>1, <1>2, Slots3
    <3>3. \A q \in {"kind", "portable"} \cup Harnesses : Slot(x, q) = Slot(y, q)
      BY DEF Slots
    <3>4. QED  BY <3>1, <3>2, <3>3
  <2>2. x \in Asset(AssetKinds, Revisions) /\ y \in Asset(AssetKinds, Revisions)
    BY <1>1, <1>2 DEF Assets3
  <2>3. x.native = y.native /\ x.derived = y.derived
    BY <1>1, <1>2, <2>1, <2>2 DEF Asset
  <2>4. QED  BY <2>1, <2>2, <2>3 DEF Asset
<1>3. QED  BY <1>1, <1>2

(***************************************************************************)
(* The same manifest is merged from components that merge the same.        *)
(***************************************************************************)
LEMMA SameManifest ==
    ASSUME NEW b, NEW l, NEW r, NEW m \in AllManifests,
           \A id \in Ids : /\ m.assets[id] = Recorded(b.assets[id], l.assets[id], r.assets[id])
                           /\ m.packs[id] = MergePack(b.packs[id], l.packs[id], r.packs[id]),
           m.profiles = b.profiles
    PROVE  MergedManifest(b, l, r) = m
<1> DEFINE f == [id \in Ids |-> Recorded(b.assets[id], l.assets[id], r.assets[id])]
           g == [id \in Ids |-> MergePack(b.packs[id], l.packs[id], r.packs[id])]
<1>1. MergedManifest(b, l, r) = [assets |-> f, packs |-> g, profiles |-> b.profiles]
  BY Zenon DEF MergedManifest, Recorded
<1>2. /\ m = [assets |-> m.assets, packs |-> m.packs, profiles |-> m.profiles]
      /\ m.assets = [id \in Ids |-> m.assets[id]] /\ m.packs = [id \in Ids |-> m.packs[id]]
  BY DEF AllManifests, Manifest
<1>3. f = m.assets /\ g = m.packs
  BY <1>2
<1> HIDE DEF f, g
<1>4. QED  BY <1>1, <1>2, <1>3

(***************************************************************************)
(* A valid manifest whose assets are recorded and supported merges with    *)
(* itself to itself.                                                       *)
(***************************************************************************)
LEMMA OwnMerge ==
    ASSUME NEW m \in AllManifests, Valid(m),
           \A id \in Ids : m.assets[id] # None =>
                m.assets[id].derived /\ Supported(m.assets[id])
    PROVE  Merge(m, m, m) = Result("ready", m, {})
<1>1. ASSUME NEW x \in Assets3, x # None => x.derived /\ Supported(x)
      PROVE  AssetProblems(x, x, x) = {} /\ Recorded(x, x, x) = x
  <2>1. \A q \in Slots : ThreeWaySlot(Slot(x, q), Slot(x, q), Slot(x, q)) = Slot(x, q)
    BY DEF ThreeWaySlot
  <2>2. AssetShape(x, x, x) = [kind |-> Slot(x, "kind"), portable |-> Slot(x, "portable"),
                               native |-> [h \in Harnesses |-> Slot(x, h)]]
    BY DEF AssetShape, ThreeWaySlot
  <2>3. AssetShape(x, x, x).kind # None => Supported(AssetShape(x, x, x))
    <3> DEFINE S == AssetShape(x, x, x)
    <3>1. CASE x # None
      <4>1. x.native = [h \in Harnesses |-> Slot(x, h)]
        BY <1>1, <3>1, Slots3 DEF Assets3, Asset
      <4>2. S.kind = x.kind /\ S.portable = x.portable /\ S.native = x.native
        BY <1>1, <2>2, <3>1, <4>1, Slots3
      <4> HIDE DEF S
      <4>3. Supported(S) = Supported(x)
        BY <4>2, ShapeSupported
      <4>4. QED  BY <1>1, <3>1, <4>3 DEF S
    <3>2. CASE x = None
      <4>1. S.kind = None
        BY <2>2, <3>2 DEF Slot
      <4>2. QED  BY <4>1
    <3>3. QED  BY <3>1, <3>2
  <2>4. \A q \in Slots : ~Diverged(Slot(x, q), Slot(x, q), Slot(x, q))
    BY DEF Diverged
  <2>5. ~AssetReason(x, x, x)
    BY <2>3, <2>4, Zenon DEF AssetReason
  <2>6. AssetProblems(x, x, x) = {}
    BY <1>1, <2>5, AssetThreeWay
  <2>7. /\ Recorded(x, x, x) \in Assets3
        /\ Recorded(x, x, x) # None => Recorded(x, x, x).derived
        /\ \A q \in Slots : Slot(Recorded(x, x, x), q) = Slot(x, q)
    BY <1>1, <2>1, <2>6, AssetParts
  <2>8. QED  BY <1>1, <2>6, <2>7, SameAsset
<1>2. ASSUME NEW x \in Packs3 PROVE PackProblem(x, x, x) = {} /\ MergePack(x, x, x) = x
  <2>1. ~PackReason(x, x, x)
    BY DEF PackReason
  <2>2. PackProblem(x, x, x) = {}
    BY <1>2, <2>1, PackThreeWay
  <2>3. x # None => x = [source |-> Source(x), members |-> Members(x)]
    BY DEF Packs3, Pack, Source, Members
  <2>4. MergePack(x, x, x) = x
    BY <2>3 DEF MergePack, Choose
  <2>5. QED  BY <2>2, <2>4
<1>3. \A id \in Ids : /\ m.assets[id] \in Assets3 /\ m.packs[id] \in Packs3
                      /\ m.assets[id] # None => m.assets[id].derived /\ Supported(m.assets[id])
  BY Typed3
<1>4. \A id \in Ids : /\ NoProblemOf(m, m, m, id)
                      /\ m.assets[id] = Recorded(m.assets[id], m.assets[id], m.assets[id])
                      /\ m.packs[id] = MergePack(m.packs[id], m.packs[id], m.packs[id])
  BY <1>1, <1>2, <1>3 DEF NoProblemOf
<1>5. Conflicts(m, m, m) = {}
  BY <1>4, ConflictFree
<1>6. MergedManifest(m, m, m) = m
  BY <1>4, SameManifest
<1>7. QED  BY <1>5, <1>6, ThreeResults

(***************************************************************************)
(* For every set of manifests, what merge_manifests returned is final.     *)
(***************************************************************************)
THEOREM MergesOnce == TripleSpec => []MergedIsFinal
<1>1. ASSUME NEW b \in AllManifests, NEW l \in AllManifests, NEW r \in AllManifests,
             NEW o, o = Merge(b, l, r), o.status = "ready"
      PROVE  Merge(o.manifest, o.manifest, o.manifest) = o
  <2> DEFINE m == MergedManifest(b, l, r)
  <2>1. Conflicts(b, l, r) = {} /\ Valid(m) /\ o = Result("ready", m, {})
    BY <1>1, ReadyResult
  <2>2. o.manifest = m
    BY <2>1, ResultParts
  <2>3. m \in AllManifests
    BY <2>1, MergedParts
  <2>4. ASSUME NEW id \in Ids, m.assets[id] # None
        PROVE  m.assets[id].derived /\ Supported(m.assets[id])
    <3>1. /\ AssetProblems(b.assets[id], l.assets[id], r.assets[id]) = {}
          /\ m.assets[id] = Recorded(b.assets[id], l.assets[id], r.assets[id])
      BY <2>1, MergedParts
    <3>2. b.assets[id] \in Assets3 /\ l.assets[id] \in Assets3 /\ r.assets[id] \in Assets3
      BY Typed3
    <3> HIDE DEF m
    <3>3. QED  BY <2>4, <3>1, <3>2, AssetParts
  <2> HIDE DEF m
  <2>5. Merge(m, m, m) = Result("ready", m, {})
    BY <2>1, <2>3, <2>4, OwnMerge
  <2>6. QED  BY <2>1, <2>2, <2>5
<1>2. TripleInv => MergedIsFinal
  BY <1>1 DEF TripleInv, MergedIsFinal
<1>3. QED  BY <1>2, TripleInvariant, PTL

-----------------------------------------------------------------------------
(***************************************************************************)
(* An asset published first: over the base it is merged with the base to   *)
(* the parts its side has, so that the second machine sees what a merge of *)
(* both changes sees, unless both sides added the asset.                   *)
(***************************************************************************)
LEMMA AssetInOrder ==
    ASSUME NEW b \in Assets3, NEW l \in Assets3, NEW r \in Assets3,
           AssetProblems(b, l, r) = {}, AssetProblems(b, l, b) = {},
           b = None => None \in {l, r}
    PROVE  LET f == Recorded(b, l, b)
           IN  AssetProblems(b, r, f) = {} /\ Recorded(b, r, f) = Recorded(b, l, r)
<1> DEFINE f == Recorded(b, l, b)
<1>1. /\ f \in Assets3 /\ (f = None <=> b = None /\ l = None)
      /\ \A q \in Slots : Slot(f, q) = ThreeWaySlot(Slot(b, q), Slot(l, q), Slot(b, q))
  BY AssetParts
<1> HIDE DEF f
<1>2. \A q \in Slots : Slot(f, q) = Slot(l, q)
  BY <1>1 DEF ThreeWaySlot
<1>3. ~AssetReason(b, l, r)
  BY AssetThreeWay
<1>4. \A q \in Slots : /\ ~ (Slot(b, q) # None /\ None \in {Slot(l, q), Slot(r, q)})
                       /\ ~Diverged(Slot(b, q), Slot(l, q), Slot(r, q))
  BY <1>3, Zenon DEF AssetReason
<1>5. \A q \in Slots :
        /\ ~ (Slot(b, q) # None /\ None \in {Slot(r, q), Slot(f, q)})
        /\ ~Diverged(Slot(b, q), Slot(r, q), Slot(f, q))
        /\ ThreeWaySlot(Slot(b, q), Slot(r, q), Slot(f, q))
             = ThreeWaySlot(Slot(b, q), Slot(l, q), Slot(r, q))
  BY <1>2, <1>4 DEF Diverged, ThreeWaySlot
<1>6. AssetShape(b, r, f) = AssetShape(b, l, r)
  <2>1. "kind" \in Slots /\ "portable" \in Slots /\ \A h \in Harnesses : h \in Slots
    BY DEF Slots
  <2>2. [h \in Harnesses |-> ThreeWaySlot(Slot(b, h), Slot(r, h), Slot(f, h))]
          = [h \in Harnesses |-> ThreeWaySlot(Slot(b, h), Slot(l, h), Slot(r, h))]
    BY <1>5, <2>1
  <2>3. /\ ThreeWaySlot(Slot(b, "kind"), Slot(r, "kind"), Slot(f, "kind"))
             = ThreeWaySlot(Slot(b, "kind"), Slot(l, "kind"), Slot(r, "kind"))
        /\ ThreeWaySlot(Slot(b, "portable"), Slot(r, "portable"), Slot(f, "portable"))
             = ThreeWaySlot(Slot(b, "portable"), Slot(l, "portable"), Slot(r, "portable"))
    BY <1>5, <2>1
  <2>4. QED  BY <2>2, <2>3, Zenon DEF AssetShape
<1>7. ~ (b = None /\ None \notin {r, f} /\ r # f)
  BY <1>1
<1>8. ~ (AssetShape(b, l, r).kind # None /\ ~Supported(AssetShape(b, l, r)))
  BY <1>3, Zenon DEF AssetReason
<1>9. ~AssetReason(b, r, f)
  BY <1>5, <1>6, <1>7, <1>8, Zenon DEF AssetReason
<1>10. AssetProblems(b, r, f) = {}
  BY <1>1, <1>9, AssetThreeWay
<1>11. /\ Recorded(b, r, f) \in Assets3
       /\ Recorded(b, r, f) # None => Recorded(b, r, f).derived
       /\ \A q \in Slots : Slot(Recorded(b, r, f), q)
                             = ThreeWaySlot(Slot(b, q), Slot(r, q), Slot(f, q))
  BY <1>1, <1>10, AssetParts
<1>12. /\ Recorded(b, l, r) \in Assets3
       /\ Recorded(b, l, r) # None => Recorded(b, l, r).derived
       /\ \A q \in Slots : Slot(Recorded(b, l, r), q)
                             = ThreeWaySlot(Slot(b, q), Slot(l, q), Slot(r, q))
  BY AssetParts
<1>13. \A q \in Slots : Slot(Recorded(b, r, f), q) = Slot(Recorded(b, l, r), q)
  BY <1>5, <1>11, <1>12
<1>14. Recorded(b, r, f) = Recorded(b, l, r)
  BY <1>11, <1>12, <1>13, SameAsset
<1>15. QED  BY <1>10, <1>14 DEF f

(***************************************************************************)
(* A pack published first is as its side has it.                           *)
(***************************************************************************)
LEMMA PackInOrder ==
    ASSUME NEW b \in Packs3, NEW l \in Packs3, NEW r \in Packs3,
           PackProblem(b, l, r) = {}, PackProblem(b, l, b) = {}
    PROVE  LET f == MergePack(b, l, b)
           IN  PackProblem(b, r, f) = {} /\ MergePack(b, r, f) = MergePack(b, l, r)
<1>1. Members(b) \subseteq Members(l) /\ (b # None => l # None)
  BY PackThreeWay DEF PackReason
<1>2. \A x \in Packs3 : /\ x = None => Source(x) = None /\ Members(x) = {}
                        /\ x # None => x = [source |-> Source(x), members |-> Members(x)]
  BY DEF Packs3, Pack, Source, Members
<1>3. Choose(Source(b), Source(l), Source(b)) = Source(l)
  BY DEF Choose
<1>4. Members(b) \cup Members(l) \cup Members(b) = Members(l)
  BY <1>1
<1>5. MergePack(b, l, b) = l
  BY <1>1, <1>2, <1>3, <1>4 DEF MergePack
<1>6. QED  BY <1>5, PackSymmetric

(***************************************************************************)
(* For every set of manifests, the order of publication does not matter.   *)
(***************************************************************************)
THEOREM AnyOrder == TripleSpec => []OrderDoesNotMatter
<1>1. ASSUME NEW b \in AllManifests, NEW l \in AllManifests, NEW r \in AllManifests,
             Merge(b, l, r).status = "ready", Merge(b, l, b).status = "ready",
             Added(b, l) \cap Added(b, r) = {}
      PROVE  Merge(b, r, Merge(b, l, b).manifest) = Merge(b, l, r)
  <2> DEFINE m == MergedManifest(b, l, r)
             F == MergedManifest(b, l, b)
  <2>1. Conflicts(b, l, r) = {} /\ Valid(m) /\ Merge(b, l, r) = Result("ready", m, {})
    BY <1>1, ReadyResult
  <2>2. Conflicts(b, l, b) = {} /\ Merge(b, l, b).manifest = F
    BY <1>1, ReadyResult
  <2>3. /\ m \in AllManifests /\ m.profiles = b.profiles
        /\ \A id \in Ids :
             /\ m.assets[id] = Recorded(b.assets[id], l.assets[id], r.assets[id])
             /\ m.packs[id] = MergePack(b.packs[id], l.packs[id], r.packs[id])
             /\ AssetProblems(b.assets[id], l.assets[id], r.assets[id]) = {}
             /\ PackProblem(b.packs[id], l.packs[id], r.packs[id]) = {}
    <3>1. m = MergedManifest(b, l, r)
      OBVIOUS
    <3> HIDE DEF m
    <3>2. m \in AllManifests /\ m.profiles = b.profiles
      BY <2>1, <3>1, MergedParts
    <3>3. ASSUME NEW id \in Ids
          PROVE  m.assets[id] = Recorded(b.assets[id], l.assets[id], r.assets[id])
      BY <2>1, <3>1, MergedParts
    <3>4. ASSUME NEW id \in Ids
          PROVE  m.packs[id] = MergePack(b.packs[id], l.packs[id], r.packs[id])
      BY <2>1, <3>1, MergedParts
    <3>5. ASSUME NEW id \in Ids
          PROVE  /\ AssetProblems(b.assets[id], l.assets[id], r.assets[id]) = {}
                 /\ PackProblem(b.packs[id], l.packs[id], r.packs[id]) = {}
      BY <2>1, <3>1, MergedParts
    <3>6. QED  BY <3>2, <3>3, <3>4, <3>5
  <2>4. /\ F \in AllManifests /\ F.profiles = b.profiles
        /\ \A id \in Ids :
             /\ F.assets[id] = Recorded(b.assets[id], l.assets[id], b.assets[id])
             /\ F.packs[id] = MergePack(b.packs[id], l.packs[id], b.packs[id])
             /\ AssetProblems(b.assets[id], l.assets[id], b.assets[id]) = {}
             /\ PackProblem(b.packs[id], l.packs[id], b.packs[id]) = {}
    <3>1. F = MergedManifest(b, l, b)
      OBVIOUS
    <3> HIDE DEF F
    <3>2. F \in AllManifests /\ F.profiles = b.profiles
      BY <2>2, <3>1, MergedParts
    <3>3. ASSUME NEW id \in Ids
          PROVE  F.assets[id] = Recorded(b.assets[id], l.assets[id], b.assets[id])
      BY <2>2, <3>1, MergedParts
    <3>4. ASSUME NEW id \in Ids
          PROVE  F.packs[id] = MergePack(b.packs[id], l.packs[id], b.packs[id])
      BY <2>2, <3>1, MergedParts
    <3>5. ASSUME NEW id \in Ids
          PROVE  /\ AssetProblems(b.assets[id], l.assets[id], b.assets[id]) = {}
                 /\ PackProblem(b.packs[id], l.packs[id], b.packs[id]) = {}
      BY <2>2, <3>1, MergedParts
    <3>6. QED  BY <3>2, <3>3, <3>4, <3>5
  <2> HIDE DEF m, F
  <2>5. ASSUME NEW id \in Ids
        PROVE  /\ NoProblemOf(b, r, F, id)
               /\ m.assets[id] = Recorded(b.assets[id], r.assets[id], F.assets[id])
               /\ m.packs[id] = MergePack(b.packs[id], r.packs[id], F.packs[id])
    <3> DEFINE B == b.assets[id]
               L == l.assets[id]
               R == r.assets[id]
    <3>1. /\ B \in Assets3 /\ L \in Assets3 /\ R \in Assets3
          /\ b.packs[id] \in Packs3 /\ l.packs[id] \in Packs3 /\ r.packs[id] \in Packs3
      BY Typed3
    <3>2. B = None => None \in {L, R}
      BY <1>1 DEF Added
    <3>3. /\ AssetProblems(B, L, R) = {} /\ AssetProblems(B, L, B) = {}
          /\ F.assets[id] = Recorded(B, L, B) /\ m.assets[id] = Recorded(B, L, R)
      BY <2>3, <2>4
    <3>4. /\ AssetProblems(B, R, F.assets[id]) = {}
          /\ Recorded(B, R, F.assets[id]) = m.assets[id]
      <4> HIDE DEF B, L, R
      <4>1. QED  BY <3>1, <3>2, <3>3, AssetInOrder
    <3>5. /\ PackProblem(b.packs[id], r.packs[id], F.packs[id]) = {}
          /\ MergePack(b.packs[id], r.packs[id], F.packs[id]) = m.packs[id]
      BY <2>3, <2>4, <3>1, PackInOrder
    <3>6. QED  BY <3>4, <3>5, Zenon DEF NoProblemOf
  <2>6. Conflicts(b, r, F) = {}
    <3>1. \A w \in Profiles : b.profiles[w] = l.profiles[w] /\ b.profiles[w] = r.profiles[w]
      BY <2>1, ConflictFree
    <3>2. \A w \in Profiles : b.profiles[w] = r.profiles[w] /\ b.profiles[w] = F.profiles[w]
      BY <2>4, <3>1
    <3>3. \A id \in Ids : NoProblemOf(b, r, F, id)
      BY <2>5
    <3>4. QED  BY <3>2, <3>3, ConflictFree
  <2>7. MergedManifest(b, r, F) = m
    BY <2>3, <2>5, SameManifest
  <2>8. Merge(b, r, F) = Result("ready", m, {})
    BY <2>1, <2>6, <2>7, ThreeResults
  <2>9. QED  BY <2>1, <2>2, <2>8
<1>2. TripleInv => OrderDoesNotMatter
  <2> DEFINE b == triple.base
             l == triple.local
             r == triple.remote
  <2> SUFFICES ASSUME TripleInv, outcome # None /\ outcome.status = "ready",
                      Added(b, l) \cap Added(b, r) = {}
               PROVE  InOrder(b, l, r, outcome)
    BY DEF OrderDoesNotMatter
  <2>1. outcome = Merge(b, l, r)
    BY DEF TripleInv
  <2>2. b \in AllManifests /\ l \in AllManifests /\ r \in AllManifests
    BY DEF TripleInv
  <2>3. Merge(b, l, r).status = "ready"
    BY <2>1
  <2> HIDE DEF b, l, r
  <2>4. Merge(b, l, b).status = "ready" =>
            Merge(b, r, Merge(b, l, b).manifest) = Merge(b, l, r)
    BY <1>1, <2>2, <2>3
  <2>5. QED  BY <2>1, <2>4, Zenon DEF InOrder
<1>3. QED  BY <1>2, TripleInvariant, PTL
=============================================================================
