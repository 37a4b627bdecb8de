--------------------------- MODULE MCMergeTriples ---------------------------
(***************************************************************************)
(* MergeTriples for TLC.  Four families: one asset of every kind with      *)
(* portable content and one native variant; one asset with two native      *)
(* variants; two identities that are packs of each other, of an asset, or  *)
(* assets; one profile.                                                    *)
(***************************************************************************)
EXTENDS MergeTriples

CONSTANTS a, p, q, codex, pi, w, x, y, s1, s2

MCIds       == {a, p, q}
MCHarnesses == {codex, pi}

\* x on both harnesses, derived by a merge.
Settled == [kind |-> "skill", portable |-> x, native |-> [h \in Harnesses |-> x], derived |-> TRUE]

Only(asset) == [EmptyManifest EXCEPT !.assets[a] = asset]

OneAsset ==
    {EmptyManifest} \cup
    {Only([kind |-> k, portable |-> c, native |-> [h \in Harnesses |-> IF h = pi THEN n ELSE None],
           derived |-> d]) :
        k \in {"skill", "instruction"}, c \in {x, y}, n \in {None, x}, d \in BOOLEAN}
    \cup {Only([Settled EXCEPT !.portable = None])}

TwoVariants ==
    {Only([kind |-> k, portable |-> c, native |-> n, derived |-> TRUE]) :
        k \in {"skill", "extension"}, c \in {None, x}, n \in [Harnesses -> {None, x, y}] \ {[h \in Harnesses |-> None]}}

Packs ==
    {[Only(Settled) EXCEPT !.assets[q] = asset, !.packs[p] = one, !.packs[q] = two] :
        asset \in {None, Settled}, one \in {None} \cup [source : {s1, s2}, members : {{a}, {q}, {a, q}}],
        two \in {None} \cup [source : {s1}, members : {{a}, {p}, {a, p}}]}

WithProfile == {[Only(Settled) EXCEPT !.profiles[w] = v] : v \in {None, x, y}}

MCKinds     == {"skill", "extension", "instruction"}
MCFamilies == {OneAsset, TwoVariants, Packs, WithProfile}
=============================================================================
