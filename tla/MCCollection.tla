---------------------------- MODULE MCCollection ----------------------------
(***************************************************************************)
(* Collection for TLC.  The machines start with nothing, or with one asset *)
(* in two packs, which one of them published and all received.             *)
(***************************************************************************)
EXTENDS Collection, TLC

CONSTANTS a, p, q, pi, c1

MCIds == {a, p, q}

Starter ==
    [EmptyManifest EXCEPT !.assets[a] = Adopted("skill", <<c1, pi, "adopted">>),
                          !.packs[p] = Authored({a}), !.packs[q] = Authored({a})]

MCStarters == {EmptyManifest, Starter}

Symmetry == Permutations(Machines)
=============================================================================
