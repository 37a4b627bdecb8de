-------------------------- MODULE OrderedAuthority --------------------------
(***************************************************************************)
(* What a portable commit promises of the authority files it replaces: a   *)
(* chain of files (manifest, the lock derived from it, the receipt that    *)
(* cites both) is committed in order, one file at a time, each at once,    *)
(* and no crash or recovery takes a committed file back.  The promise ends *)
(* when somebody else writes one of the files.                             *)
(***************************************************************************)
EXTENDS Naturals

CONSTANT Last     \* the number of files in the chain

VARIABLE level   \* how many files of the chain are committed

Interfered == Last + 1   \* stands for a foreign write

Init == level \in 0 .. Last

Commit ==
    /\ level < Last
    /\ level' = level + 1

Interfere ==
    /\ level # Interfered
    /\ level' = Interfered

Next == Commit \/ Interfere

Spec == Init /\ [][Next]_level
=============================================================================
