------------------------- MODULE MCSyncTransaction -------------------------
(***************************************************************************)
(* SyncTransaction for TLC.  Machines, assets and contents are             *)
(* interchangeable: Init, Next and the safety properties treat all members *)
(* of each set alike.  The runs that check liveness do not use the         *)
(* symmetry.                                                               *)
(***************************************************************************)
EXTENDS SyncTransaction, TLC

Symmetry ==
    Permutations(Machines) \cup Permutations(Assets) \cup Permutations(Contents)
=============================================================================
