----------------------- MODULE QuarantineUpgrade_proofs -----------------------
(***************************************************************************)
(* Proofs about the two components that move whole files and directories   *)
(* aside and take them up again after a crash.                             *)
(*                                                                         *)
(* QuarantineCleanup, the removal quarantine, for any number of roots,     *)
(* foreign objects, hard links and crashes: the types, what is never       *)
(* removed, and that no root is touched before all of them were looked at. *)
(*                                                                         *)
(* UpgradeTransaction, the replacement of the installed executable, in the *)
(* second half, for both platforms and any number of crashes and power     *)
(* losses: what is reported survives, and an intent to restore the prior   *)
(* is honored.  The two share neither names nor state.                     *)
(***************************************************************************)
EXTENDS QuarantineCleanup, UpgradeTransaction, TLAPS

(***************************************************************************)
(* The inductive invariant.  A nested file is never moved by itself but to *)
(* the batch root, and a foreign object that took its name is found there, *)
(* or in a tree that is in the batch: a tree that is being stripped has    *)
(* none.  What a removal still has to do is there, and what was found in   *)
(* order covers the roots that the phases have passed.                     *)
(***************************************************************************)
NestedInPlace ==
    \A r \in Roots : place[Nested(r)] \in {"live", "leaf", "gone"}

ForeignNested ==
    \A r \in Roots : Nested(r) \in swapped =>
        \/ place[Nested(r)] = "leaf"
        \/ place[Nested(r)] = "live" /\ place[Tree(r)] = "batch"

RemovalsThere ==
    /\ pc \notin {"mutate", "strip"} => todo = {}
    /\ \A x \in todo : place[x] = "live" \/ (pc = "strip" /\ x = item)
    /\ pc = "strip" => place[item] = IF unix THEN "tomb" ELSE "retained"

RootsSound ==
    /\ pc \in {"stage", "delete"} => sound = Roots
    /\ pc = "secure" => 1 .. (at - 1) \subseteq sound

QuarantineInv ==
    /\ TypeOK
    /\ NestedInPlace
    /\ ForeignNested
    /\ RemovalsThere
    /\ RootsSound

-----------------------------------------------------------------------------
\* What the names stand for: a root has a file, a tree, and a file in the tree.
LEMMA Names ==
    /\ Objects \subseteq Things
    /\ \A x \in Objects : /\ x[1] \in Roots
                          /\ x = File(x[1]) \/ x = Tree(x[1])
    /\ \A x \in Things : /\ x[1] \in Roots
                         /\ x = File(x[1]) \/ x = Tree(x[1]) \/ x = Nested(x[1])
    /\ \A r \in Roots :
          /\ File(r) \in Objects /\ Tree(r) \in Objects
          /\ Nested(r) \in Things /\ Nested(r) \notin Objects
          /\ IsFile(File(r)) /\ ~ IsFile(Tree(r)) /\ IsFile(Nested(r))
          /\ Of(r) \subseteq Things
          /\ \A q \in Roots : /\ Nested(q) # File(r) /\ Nested(q) # Tree(r)
                              /\ File(q) # Tree(r)
                              /\ Nested(q) = Nested(r) => q = r
                              /\ Tree(q) = Tree(r) => q = r
PROOF
<1>1. \A r \in Roots :
          /\ File(r) = <<r, "file">> /\ Tree(r) = <<r, "tree">>
          /\ Nested(r) = <<r, "nested">>
    BY DEF File, Tree, Nested
<1>2. \A x \in Objects : x[1] \in Roots /\ (x = <<x[1], "file">> \/ x = <<x[1], "tree">>)
    BY DEF Objects
<1>3. \A x \in Roots \X {"nested"} : x[1] \in Roots /\ x = <<x[1], "nested">>
    OBVIOUS
<1>4. Objects \subseteq Things
    BY DEF Things
<1>5. \A x \in Objects : x[1] \in Roots /\ (x = File(x[1]) \/ x = Tree(x[1]))
    BY <1>1, <1>2
<1>6. \A x \in Things :
          x[1] \in Roots /\ (x = File(x[1]) \/ x = Tree(x[1]) \/ x = Nested(x[1]))
    BY <1>1, <1>3, <1>5 DEF Things
<1>7. ASSUME NEW r \in Roots
      PROVE  /\ File(r) \in Objects /\ Tree(r) \in Objects
             /\ Nested(r) \in Things /\ Nested(r) \notin Objects
             /\ IsFile(File(r)) /\ ~ IsFile(Tree(r)) /\ IsFile(Nested(r))
             /\ Of(r) \subseteq Things
             /\ \A q \in Roots : /\ Nested(q) # File(r) /\ Nested(q) # Tree(r)
                                 /\ File(q) # Tree(r)
                                 /\ Nested(q) = Nested(r) => q = r
                                 /\ Tree(q) = Tree(r) => q = r
    <2>1. File(r) \in Objects /\ Tree(r) \in Objects /\ Nested(r) \in Things
        BY <1>1 DEF Objects, Things
    <2>2. Nested(r) \notin Objects
        BY <1>1, <1>2
    <2>3. IsFile(File(r)) /\ ~ IsFile(Tree(r)) /\ IsFile(Nested(r))
        BY <1>1 DEF IsFile
    <2>4. Of(r) \subseteq Things
        BY <2>1, <1>4 DEF Of
    <2>5. \A q \in Roots : /\ Nested(q) # File(r) /\ Nested(q) # Tree(r)
                           /\ File(q) # Tree(r)
                           /\ Nested(q) = Nested(r) => q = r
                           /\ Tree(q) = Tree(r) => q = r
        BY <1>1
    <2> QED  BY <2>1, <2>2, <2>3, <2>4, <2>5
<1> QED  BY <1>4, <1>5, <1>6, <1>7

\* The next phase, or the next root of this one.
LEMMA NextPhase ==
    ASSUME TypeOK, pc \in {"stage", "validate", "secure", "delete"}, GoOn
    PROVE  /\ pc' \in Phases /\ at' \in Roots
           /\ \/ pc' = pc /\ at < RootCount /\ at' = at + 1
              \/ /\ at = RootCount /\ at' = 1
                 /\ pc = "stage" => pc' = "validate"
                 /\ pc = "validate" => pc' = "secure"
                 /\ pc = "secure" => pc' = "delete"
                 /\ pc = "delete" => pc' = "mutate"
PROOF
<1>1. RootCount \in Nat \ {0} /\ at \in 1 .. RootCount
    BY QuarantineAssumption DEF TypeOK, Roots
<1>2. CASE at < RootCount
    <2>1. pc' = pc /\ at' = at + 1
        BY <1>2 DEF GoOn, Following, Goto
    <2> QED  BY <1>1, <1>2, <2>1 DEF Phases, Roots
<1>3. CASE ~ (at < RootCount)
    <2>1. at = RootCount /\ at' = 1
        BY <1>1, <1>3 DEF GoOn, Following, Goto
    <2>2. /\ pc = "stage" => pc' = "validate"
          /\ pc = "validate" => pc' = "secure"
          /\ pc = "secure" => pc' = "delete"
          /\ pc = "delete" => pc' = "mutate"
        BY <1>3 DEF GoOn, Following, Goto
    <2> QED  BY <1>1, <2>1, <2>2 DEF Phases, Roots
<1> QED  BY <1>2, <1>3

\* An attempt that ends, by an error or by a crash, forgets what it was about.
LEMMA Leaving ==
    ASSUME QuarantineInv, Leave, UNCHANGED <<unix, disk, swapped>>,
           alias' \subseteq {x \in Things : IsFile(x)},
           meddled' \in 0 .. MaxMeddling, crashes' \in 0 .. MaxCrashes
    PROVE  QuarantineInv'
PROOF
<1>1. pc' = "idle" /\ at' = 1 /\ todo' = {} /\ item' = File(1) /\ sound' = {}
    BY DEF Leave, Goto
<1>2. 1 \in Roots /\ File(1) \in Objects
    BY Names, QuarantineAssumption DEF Roots
<1> QED  BY <1>1, <1>2 DEF QuarantineInv, TypeOK, NestedInPlace, ForeignNested,
             RemovalsThere, RootsSound, disk

\* An error, in particular.
LEMMA Refusing == QuarantineInv /\ Refuse => QuarantineInv'
    BY Leaving DEF Refuse, Calm, QuarantineInv, TypeOK

\* One thing is moved within the quarantine, truncated there or removed, while
\* the cleanup stays at its root.
LEMMA Cleaning ==
    ASSUME QuarantineInv, pc \in {"stage", "delete"}, Calm,
           UNCHANGED <<pc, at, todo, item, sound>>,
           batch' \in [Roots -> {"none", "pending", "ready"}],
           full' \subseteq full,
           NEW x \in Things, NEW p \in {"batch", "leaf", "gone"},
           place' = place \/ Place(x, p),
           \/ x \in Objects /\ x = Tree(x[1]) /\ p = "gone"
                /\ (Nested(x[1]) \in swapped => place[Nested(x[1])] # "live")
           \/ x \in Objects /\ p = "gone" /\ IsFile(x)
           \/ x \in Objects /\ p = "batch"
           \/ x \notin Objects /\ p = "gone" /\ x \notin swapped
           \/ x \notin Objects /\ p = "leaf" /\ unix
    PROVE  QuarantineInv'
PROOF
<1>1. x[1] \in Roots /\ (x \in Objects => x # Nested(x[1]))
      /\ (x \notin Objects => x = Nested(x[1]))
    BY Names
<1>2. \A y \in Things : place'[y] = place[y] \/ (y = x /\ place'[y] = p)
    BY DEF Place, QuarantineInv, TypeOK
<1>3. place' \in [Things -> {"live", "retained", "tomb", "batch", "leaf", "gone"}]
    BY DEF Place, QuarantineInv, TypeOK
<1>4. \A y \in Things : /\ place'[y] = "leaf" => unix' /\ y[2] = "nested"
                        /\ place'[y] = "retained" => ~ unix' /\ y \in Objects
    <2>1. x \notin Objects => x[2] = "nested"
        BY <1>1 DEF Nested
    <2> QED  BY <1>2, <2>1 DEF QuarantineInv, TypeOK, Calm
<1>5. TypeOK'
    BY <1>3, <1>4 DEF QuarantineInv, TypeOK, Calm
<1>6. NestedInPlace'
    BY <1>1, <1>2, Names DEF QuarantineInv, NestedInPlace
<1>7. ForeignNested'
    <2> SUFFICES ASSUME NEW r \in Roots, Nested(r) \in swapped
                 PROVE  \/ place'[Nested(r)] = "leaf"
                        \/ place'[Nested(r)] = "live" /\ place'[Tree(r)] = "batch"
        BY DEF ForeignNested, Calm
    <2>1. CASE place[Nested(r)] = "leaf"
        BY <1>1, <1>2, <2>1, Names
    <2>2. CASE place[Nested(r)] = "live" /\ place[Tree(r)] = "batch"
        <3>1. CASE x = Tree(r)
            <4>1. x[1] = r
                BY <3>1 DEF Tree
            <4> QED  BY <1>1, <1>2, <2>2, <3>1, <4>1, Names
        <3>2. CASE x # Tree(r)
            BY <1>1, <1>2, <2>2, <3>2, Names
        <3> QED  BY <3>1, <3>2
    <2> QED  BY <2>1, <2>2 DEF QuarantineInv, ForeignNested
<1>8. RemovalsThere'
    BY DEF QuarantineInv, RemovalsThere
<1>9. RootsSound'
    BY DEF QuarantineInv, RootsSound
<1> QED  BY <1>5, <1>6, <1>7, <1>8, <1>9 DEF QuarantineInv

-----------------------------------------------------------------------------
\* The phases up to the batch.
LEMMA StartInv == QuarantineInv /\ Start => QuarantineInv'
PROOF
<1> SUFFICES ASSUME QuarantineInv, Start PROVE QuarantineInv'  OBVIOUS
<1>1. 1 \in Roots
    BY QuarantineAssumption DEF Roots
<1> QED  BY <1>1 DEF Start, Goto, Calm, disk, Phases, QuarantineInv, TypeOK, NestedInPlace,
                     ForeignNested, RemovalsThere, RootsSound

LEMMA InspectInv == QuarantineInv /\ Inspect => QuarantineInv'
PROOF
<1> SUFFICES ASSUME QuarantineInv, Inspect PROVE QuarantineInv'  OBVIOUS
<1>1. 1 \in Roots
    BY QuarantineAssumption DEF Roots
<1>2. CASE \A x \in Objects : Eligible(x)
    <2>1. \A r \in Roots : At(r, "tomb") \cap (swapped \cup alias) = {}
        <3> SUFFICES ASSUME NEW r \in Roots, NEW x \in At(r, "tomb"),
                            x \in swapped \cup alias
                     PROVE  FALSE
            OBVIOUS
        <3>1. x \in Things /\ place[x] = "tomb" /\ x \in Of(r)
            BY Names DEF At
        <3>2. x \in Objects
            BY <3>1, Names DEF QuarantineInv, NestedInPlace
        <3>3. x \notin swapped /\ ~ (IsFile(x) /\ x \in alias)
            BY <1>2, <3>1, <3>2 DEF Eligible
        <3>4. x \in alias => IsFile(x)
            BY DEF QuarantineInv, TypeOK
        <3> QED  BY <3>3, <3>4
    <2>2. pc' = "stage" /\ at' = 1 /\ sound' = Roots
        BY <1>2, <2>1 DEF Inspect, Goto
    <2>3. Calm /\ UNCHANGED <<disk, todo, item>> /\ pc = "inspect"
        BY <1>2 DEF Inspect
    <2> QED  BY <1>1, <2>2, <2>3 DEF Calm, disk, Phases, QuarantineInv, TypeOK, NestedInPlace,
                                     ForeignNested, RemovalsThere, RootsSound
<1>3. CASE ~ \A x \in Objects : Eligible(x)
    BY <1>3, Refusing DEF Inspect
<1> QED  BY <1>2, <1>3

LEMMA CreatePendingInv == QuarantineInv /\ (CreatePending \/ Promote) => QuarantineInv'
PROOF
<1> SUFFICES ASSUME QuarantineInv, CreatePending \/ Promote PROVE QuarantineInv'  OBVIOUS
<1>1. File(1) \in Things /\ at \in Roots
    BY Names, QuarantineAssumption DEF Roots, QuarantineInv, TypeOK
<1>2. batch' \in [Roots -> {"none", "pending", "ready"}]
    BY DEF CreatePending, Promote, QuarantineInv, TypeOK
<1>3. /\ pc = "stage" /\ Calm
      /\ UNCHANGED <<place, full, pc, at, todo, item, sound>>
    BY DEF CreatePending, Promote
<1> QED  BY <1>2, <1>3 DEF Calm, QuarantineInv, TypeOK, NestedInPlace, ForeignNested,
                           RemovalsThere, RootsSound

LEMMA StageInv == QuarantineInv /\ Stage => QuarantineInv'
PROOF
<1> SUFFICES ASSUME QuarantineInv, Stage PROVE QuarantineInv'  OBVIOUS
<1>1. PICK x \in At(at, "tomb") :
          IF unix /\ IsFile(x) /\ x \in full THEN Truncate(x) ELSE Move(x)
    BY DEF Stage
<1>2. pc = "stage" /\ at \in Roots
    BY DEF Stage, QuarantineInv, TypeOK
<1>3. x \in Objects
    BY <1>2, Names DEF At, QuarantineInv, NestedInPlace
<1>4. CASE Refuse
    BY <1>4, Refusing
<1>5. CASE ~ Refuse
    <2>1. /\ Calm /\ UNCHANGED <<pc, at, todo, item, sound, batch>>
          /\ full' \subseteq full
          /\ place' = place \/ Place(x, "batch")
        BY <1>1, <1>5 DEF Truncate, Move
    <2>2. x \in Things /\ batch' \in [Roots -> {"none", "pending", "ready"}]
        BY <1>3, <2>1, Names DEF QuarantineInv, TypeOK
    <2> QED  BY <1>2, <1>3, <2>1, <2>2, Cleaning
<1> QED  BY <1>4, <1>5

LEMMA RetainInv ==
    ASSUME QuarantineInv, NEW x \in Things, Retain(x)
    PROVE  QuarantineInv'
PROOF
<1>0. x[2] = "file" /\ ~ unix
    BY DEF Retain
<1>1. x \in Objects /\ ~ unix
    <2>1. x # Nested(x[1])
        BY <1>0 DEF Nested
    <2> QED  BY <1>0, <2>1, Names
<1>2. pc' = "idle" /\ at' = 1 /\ todo' = {} /\ item' = File(1) /\ sound' = {}
    BY DEF Retain, Leave, Goto
<1>3. 1 \in Roots /\ File(1) \in Objects
    BY Names, QuarantineAssumption DEF Roots
<1>4. /\ place' = [place EXCEPT ![x] = "retained"]
      /\ alias' = alias \cup {x} /\ IsFile(x)
      /\ meddled' \in 0 .. MaxMeddling
      /\ UNCHANGED <<unix, full, swapped, batch, crashes>>
    BY QuarantineAssumption DEF Retain, Place, QuarantineInv, TypeOK, IsFile
<1>5. TypeOK'
    BY <1>1, <1>2, <1>3, <1>4 DEF QuarantineInv, TypeOK
<1>6. \A r \in Roots : place'[Nested(r)] = place[Nested(r)]
    BY <1>1, <1>4, Names DEF QuarantineInv, TypeOK
<1>7. NestedInPlace'
    BY <1>6 DEF QuarantineInv, NestedInPlace
<1>8. \A r \in Roots : x # Tree(r)
    BY DEF Retain, Tree
<1>9. \A r \in Roots : place'[Tree(r)] = place[Tree(r)]
    BY <1>8, <1>4, Names DEF QuarantineInv, TypeOK
<1>10. ForeignNested'
    BY <1>4, <1>6, <1>9 DEF QuarantineInv, ForeignNested
<1> QED  BY <1>2, <1>5, <1>7, <1>10 DEF QuarantineInv, RemovalsThere, RootsSound

LEMMA RetainedInv == QuarantineInv /\ (StageRetained \/ PromoteRetained) => QuarantineInv'
PROOF
<1> SUFFICES ASSUME QuarantineInv, StageRetained \/ PromoteRetained PROVE QuarantineInv'
    OBVIOUS
<1>1. CASE StageRetained
    <2>1. PICK x \in At(at, "tomb") : Retain(x)
        BY <1>1 DEF StageRetained
    <2>2. x \in Things
        BY Names DEF At, QuarantineInv, TypeOK
    <2> QED  BY <2>1, <2>2, RetainInv
<1>2. CASE PromoteRetained
    BY <1>2, RetainInv, Names DEF PromoteRetained, QuarantineInv, TypeOK
<1> QED  BY <1>1, <1>2

LEMMA StageDoneInv == QuarantineInv /\ StageDone => QuarantineInv'
PROOF
<1> SUFFICES ASSUME QuarantineInv, StageDone PROVE QuarantineInv'  OBVIOUS
<1>1. /\ pc = "stage" /\ GoOn
      /\ sound' = IF pc' = "stage" THEN sound ELSE {}
      /\ Calm /\ UNCHANGED <<disk, todo, item>>
    BY DEF StageDone
<1>2. /\ pc' \in Phases /\ at' \in Roots
      /\ pc' = "stage" \/ pc' = "validate"
    BY <1>1, NextPhase DEF QuarantineInv
<1>3. sound' \subseteq Roots /\ (pc' = "stage" => sound' = Roots)
    BY <1>1 DEF QuarantineInv, RootsSound
<1> QED  BY <1>1, <1>2, <1>3 DEF Calm, disk, QuarantineInv, TypeOK, NestedInPlace,
                                 ForeignNested, RemovalsThere, RootsSound

-----------------------------------------------------------------------------
\* The validation and the deletion of the batches.
LEMMA ValidateInv == QuarantineInv /\ Validate => QuarantineInv'
PROOF
<1> SUFFICES ASSUME QuarantineInv, Validate PROVE QuarantineInv'  OBVIOUS
<1>1. CASE Validated(at)
    <2>1. /\ pc = "validate" /\ GoOn /\ swapped' = swapped \ Within(at)
          /\ UNCHANGED <<unix, disk, alias, todo, item, sound, meddled, crashes>>
        BY <1>1 DEF Validate
    <2>2. /\ pc' \in Phases /\ at' \in Roots
          /\ pc' = "validate" \/ (pc' = "secure" /\ at' = 1)
        BY <2>1, NextPhase DEF QuarantineInv
    <2>3. TypeOK'
        BY <2>1, <2>2 DEF QuarantineInv, TypeOK, disk
    <2>4. NestedInPlace' /\ ForeignNested'
        BY <2>1 DEF QuarantineInv, NestedInPlace, ForeignNested, disk
    <2>5. RemovalsThere'
        BY <2>1, <2>2 DEF QuarantineInv, RemovalsThere, disk
    <2>6. RootsSound'
        BY <2>2 DEF RootsSound
    <2> QED  BY <2>3, <2>4, <2>5, <2>6 DEF QuarantineInv
<1>2. CASE ~ Validated(at)
    BY <1>2, Refusing DEF Validate
<1> QED  BY <1>1, <1>2

LEMMA SecureInv == QuarantineInv /\ Secure => QuarantineInv'
PROOF
<1> SUFFICES ASSUME QuarantineInv, Secure PROVE QuarantineInv'  OBVIOUS
<1>1. CASE Matches(at)
    <2>1. /\ pc = "secure" /\ GoOn /\ sound' = sound \cup {at}
          /\ Calm /\ UNCHANGED <<disk, todo, item>>
        BY <1>1 DEF Secure, Matches
    <2>2. at \in Roots /\ sound \subseteq Roots /\ 1 .. (at - 1) \subseteq sound
        BY <2>1 DEF QuarantineInv, TypeOK, RootsSound
    <2>3. 1 .. at \subseteq sound'
        BY <2>1, <2>2, QuarantineAssumption DEF Roots
    <2>4. /\ pc' \in Phases /\ at' \in Roots
          /\ \/ pc' = "secure" /\ at' = at + 1
             \/ pc' = "delete" /\ at = RootCount
        BY <2>1, NextPhase DEF QuarantineInv
    <2>5. TypeOK'
        BY <2>1, <2>2, <2>4 DEF QuarantineInv, TypeOK, disk, Calm
    <2>6. NestedInPlace' /\ ForeignNested'
        BY <2>1 DEF QuarantineInv, NestedInPlace, ForeignNested, disk, Calm
    <2>7. RemovalsThere'
        BY <2>1, <2>4 DEF QuarantineInv, RemovalsThere, disk, Calm
    <2>8. RootsSound'
        <3>1. CASE pc' = "secure" /\ at' = at + 1
            <4>1. at' - 1 = at
                BY <3>1, <2>2, QuarantineAssumption DEF Roots
            <4> QED  BY <3>1, <4>1, <2>3 DEF RootsSound
        <3>2. CASE pc' = "delete" /\ at = RootCount
            BY <3>2, <2>1, <2>2, <2>3 DEF RootsSound, Roots
        <3> QED  BY <3>1, <3>2, <2>4
    <2> QED  BY <2>5, <2>6, <2>7, <2>8 DEF QuarantineInv
<1>2. CASE ~ Matches(at)
    BY <1>2, Refusing DEF Secure
<1> QED  BY <1>1, <1>2

LEMMA DeleteInv == QuarantineInv /\ Delete => QuarantineInv'
PROOF
<1> SUFFICES ASSUME QuarantineInv, Delete PROVE QuarantineInv'  OBVIOUS
<1>1. PICK x \in Staged(at) : CASE x = Nested(at) -> DeleteLeaf(x)
                                [] x = File(at)   -> DeleteFile(x)
                                [] x = Tree(at)   -> DeleteTree(x)
    BY DEF Delete
<1>2. pc = "delete" /\ at \in Roots
    BY DEF Delete, QuarantineInv, TypeOK
<1>3. x \in Things /\ (x = Nested(at) \/ x = File(at) \/ x = Tree(at))
      /\ place[x] \in {"batch", "leaf"}
    BY <1>2, Names DEF Staged, At, Of
<1>4. CASE Refuse
    BY <1>4, Refusing
<1>5. CASE ~ Refuse
    <2>1. ASSUME NEW y \in Things, y \notin swapped, Remove(y),
                 \/ y = Nested(at) \/ y = File(at)
                 \/ y = Tree(at) /\ Within(at) = {} /\ place[y] = "batch"
          PROVE  QuarantineInv'
        <3>1. /\ Calm /\ UNCHANGED <<pc, at, todo, item, sound, batch, full>>
              /\ Place(y, "gone") /\ batch' \in [Roots -> {"none", "pending", "ready"}]
            BY <2>1 DEF Remove, QuarantineInv, TypeOK
        <3>2. CASE y = Nested(at)
            BY <1>2, <2>1, <3>1, <3>2, Cleaning, Names
        <3>3. CASE y = File(at)
            BY <1>2, <2>1, <3>1, <3>3, Cleaning, Names
        <3>4. CASE y = Tree(at) /\ Within(at) = {} /\ place[y] = "batch"
            <4>1. y[1] = at
                BY <3>4 DEF Tree
            <4>2. place[Nested(at)] # "live"
                BY <3>4, <1>2 DEF Within, At, Of
            <4> QED  BY <1>2, <2>1, <3>1, <3>4, <4>1, <4>2, Cleaning, Names
        <3> QED  BY <2>1, <3>2, <3>3, <3>4
    <2>2. CASE x = Nested(at)
        <3>1. x # File(at) /\ x # Tree(at)
            BY <1>2, <2>2, Names
        <3>2. DeleteLeaf(x)
            BY <1>1, <2>2, <3>1
        <3> QED  BY <3>2, <1>3, <1>5, <2>1, <2>2 DEF DeleteLeaf
    <2>3. CASE x = File(at)
        <3>1. x # Nested(at) /\ x # Tree(at)
            BY <1>2, <2>3, Names
        <3>2. DeleteFile(x)
            BY <1>1, <2>3, <3>1
        <3> QED  BY <3>2, <1>3, <1>5, <2>1, <2>3 DEF DeleteFile
    <2>4. CASE x = Tree(at)
        <3>1. x # Nested(at) /\ x # File(at)
            BY <1>2, <2>4, Names
        <3>2. DeleteTree(x)
            BY <1>1, <2>4, <3>1
        <3>3. place[x] = "batch"
            <4>1. x[2] = "tree"
                BY <2>4 DEF Tree
            <4> QED  BY <1>3, <4>1 DEF QuarantineInv, TypeOK
        <3>4. CASE Within(at) = {}
            BY <3>2, <3>3, <3>4, <1>3, <1>5, <2>1, <2>4 DEF DeleteTree
        <3>5. CASE Within(at) # {} /\ unix
            <4>1. Isolate(Nested(at))
                BY <3>2, <3>5, <1>5 DEF DeleteTree
            <4>2. /\ Calm /\ UNCHANGED <<pc, at, todo, item, sound, batch, full>>
                  /\ Place(Nested(at), "leaf")
                BY <4>1, <1>5 DEF Isolate
            <4>3. batch' \in [Roots -> {"none", "pending", "ready"}]
                BY <4>2 DEF QuarantineInv, TypeOK
            <4> QED  BY <1>2, <3>5, <4>2, <4>3, Cleaning, Names
        <3>6. CASE Within(at) # {} /\ ~ unix
            <4>1. DeleteLeaf(Nested(at))
                BY <3>2, <3>6, <1>5 DEF DeleteTree
            <4>2. Nested(at) \in Things
                BY <1>2, Names
            <4> QED  BY <4>1, <4>2, <1>5, <2>1 DEF DeleteLeaf
        <3> QED  BY <3>4, <3>5, <3>6
    <2> QED  BY <1>3, <2>2, <2>3, <2>4
<1> QED  BY <1>4, <1>5

LEMMA DeleteBatchInv == QuarantineInv /\ DeleteBatch => QuarantineInv'
PROOF
<1> SUFFICES ASSUME QuarantineInv, DeleteBatch PROVE QuarantineInv'  OBVIOUS
<1>1. /\ pc = "delete" /\ GoOn /\ batch' = [batch EXCEPT ![at] = "none"]
      /\ Calm /\ UNCHANGED <<place, full, todo, item, sound>>
    BY DEF DeleteBatch
<1>2. /\ pc' \in Phases /\ at' \in Roots
      /\ pc' = "delete" \/ pc' = "mutate"
    BY <1>1, NextPhase DEF QuarantineInv
<1>3. TypeOK'
    BY <1>1, <1>2 DEF QuarantineInv, TypeOK, Calm
<1>4. NestedInPlace' /\ ForeignNested'
    BY <1>1 DEF QuarantineInv, NestedInPlace, ForeignNested, Calm
<1>5. todo = {}
    BY <1>1 DEF QuarantineInv, RemovalsThere
<1>6. RemovalsThere'
    BY <1>1, <1>2, <1>5 DEF RemovalsThere
<1>7. RootsSound'
    BY <1>1, <1>2 DEF QuarantineInv, RootsSound
<1> QED  BY <1>3, <1>4, <1>6, <1>7 DEF QuarantineInv

-----------------------------------------------------------------------------
\* The mutation and its removals.
LEMMA MutateInv == QuarantineInv /\ Mutate => QuarantineInv'
PROOF
<1> SUFFICES ASSUME QuarantineInv, Mutate PROVE QuarantineInv'  OBVIOUS
<1>1. /\ pc = "mutate"
      /\ todo' \subseteq {o \in Objects : place[o] = "live"}
      /\ place' = [x \in Things |-> IF x \in Missing THEN "live" ELSE place[x]]
      /\ full' = full \cup {x \in Missing : IsFile(x)}
      /\ alias' = alias \ Missing
      /\ UNCHANGED <<unix, batch, pc, at, item, swapped, sound, meddled, crashes>>
    BY DEF Mutate
<1>2. \A x \in Things : place'[x] = IF place[x] = "gone" THEN "live" ELSE place[x]
    BY <1>1 DEF Missing
<1>3. TypeOK'
    <2>1. place' \in [Things -> {"live", "retained", "tomb", "batch", "leaf", "gone"}]
        BY <1>1 DEF QuarantineInv, TypeOK
    <2>2. \A x \in Things : /\ place'[x] = "leaf" => unix' /\ x[2] = "nested"
                            /\ place'[x] = "retained" => ~ unix' /\ x \in Objects
        BY <1>1, <1>2 DEF QuarantineInv, TypeOK
    <2> QED  BY <1>1, <2>1, <2>2 DEF QuarantineInv, TypeOK, Missing
<1>4. NestedInPlace'
    BY <1>2, Names DEF QuarantineInv, NestedInPlace
<1>5. ForeignNested'
    BY <1>1, <1>2, Names DEF QuarantineInv, ForeignNested
<1>6. RemovalsThere'
    BY <1>1, <1>2, Names DEF RemovalsThere
<1>7. RootsSound'
    BY <1>1 DEF QuarantineInv, RootsSound
<1> QED  BY <1>3, <1>4, <1>5, <1>6, <1>7 DEF QuarantineInv

LEMMA MoveAsideInv == QuarantineInv /\ MoveAside => QuarantineInv'
PROOF
<1> SUFFICES ASSUME QuarantineInv, MoveAside PROVE QuarantineInv'  OBVIOUS
<1> DEFINE p == IF unix THEN "tomb" ELSE "retained"
<1>1. PICK x \in todo : \/ Refuse
                        \/ /\ Place(x, p)
                           /\ item' = x /\ Goto("strip", 1)
                           /\ Calm /\ UNCHANGED <<full, batch, todo, sound>>
    BY DEF MoveAside
<1>2. CASE Refuse
    BY <1>2, Refusing
<1>3. CASE ~ Refuse
    <2>1. /\ place' = [place EXCEPT ![x] = p]
          /\ item' = x /\ pc' = "strip" /\ at' = 1
          /\ Calm /\ UNCHANGED <<full, batch, todo, sound>>
        BY <1>1, <1>3 DEF Place, Goto
    <2>2. x \in Objects /\ x \in Things /\ pc = "mutate" /\ place[x] = "live"
        BY Names DEF MoveAside, QuarantineInv, TypeOK, RemovalsThere
    <2>3. 1 \in Roots
        BY QuarantineAssumption DEF Roots
    <2>4. \A y \in Things : place'[y] = IF y = x THEN p ELSE place[y]
        BY <2>1 DEF QuarantineInv, TypeOK
    <2>5. TypeOK'
        <3>1. place' \in [Things -> {"live", "retained", "tomb", "batch", "leaf", "gone"}]
            BY <2>1 DEF QuarantineInv, TypeOK
        <3>2. \A y \in Things : /\ place'[y] = "leaf" => unix' /\ y[2] = "nested"
                                /\ place'[y] = "retained" => ~ unix' /\ y \in Objects
            BY <2>1, <2>2, <2>4 DEF QuarantineInv, TypeOK, Calm
        <3> QED  BY <2>1, <2>2, <2>3, <3>1, <3>2 DEF QuarantineInv, TypeOK, Calm, Phases
    <2>6. NestedInPlace'
        BY <2>2, <2>4, Names DEF QuarantineInv, NestedInPlace
    <2>7. ForeignNested'
        BY <2>1, <2>2, <2>4, Names DEF QuarantineInv, ForeignNested, Calm
    <2>8. RemovalsThere'
        <3>1. \A y \in todo : place[y] = "live" /\ y \in Things
            BY <2>2, Names DEF QuarantineInv, TypeOK, RemovalsThere
        <3> QED  BY <2>1, <2>2, <2>4, <3>1 DEF RemovalsThere, Calm
    <2>9. RootsSound'
        BY <2>1 DEF RootsSound
    <2> QED  BY <2>5, <2>6, <2>7, <2>8, <2>9 DEF QuarantineInv
<1> QED  BY <1>2, <1>3

\* An object is through: it, or what is in it, has found its place.
LEMMA RemovedInv ==
    ASSUME QuarantineInv, pc = "strip", Removed, Calm, UNCHANGED batch, full' \subseteq full,
           NEW p \in {"tomb", "gone"}, place' = place \/ Place(item, p)
    PROVE  QuarantineInv'
PROOF
<1>1. item \in Objects /\ item \in Things /\ place[item] \in {"tomb", "retained"}
    BY Names DEF QuarantineInv, TypeOK, RemovalsThere
<1>2. \A y \in Things : place'[y] = place[y] \/ (y = item /\ place'[y] = p)
    BY DEF Place, QuarantineInv, TypeOK
<1>3. 1 \in Roots /\ File(1) \in Objects
    BY Names, QuarantineAssumption DEF Roots
<1>4. /\ todo' = todo \ {item} /\ item' = File(1) /\ at' = 1
      /\ (pc' = "idle" /\ todo' = {}) \/ pc' = "mutate"
      /\ sound' \subseteq sound
    BY DEF Removed, Goto
<1>5. TypeOK'
    <2>1. place' \in [Things -> {"live", "retained", "tomb", "batch", "leaf", "gone"}]
        BY DEF Place, QuarantineInv, TypeOK
    <2>2. \A y \in Things : /\ place'[y] = "leaf" => unix' /\ y[2] = "nested"
                            /\ place'[y] = "retained" => ~ unix' /\ y \in Objects
        BY <1>2 DEF QuarantineInv, TypeOK, Calm
    <2> QED  BY <1>3, <1>4, <2>1, <2>2 DEF QuarantineInv, TypeOK, Calm, Phases
<1>6. NestedInPlace'
    BY <1>1, <1>2, Names DEF QuarantineInv, NestedInPlace
<1>7. ForeignNested'
    BY <1>1, <1>2, Names DEF QuarantineInv, ForeignNested, Calm
<1>8. RemovalsThere'
    BY <1>2, <1>4, Names DEF QuarantineInv, TypeOK, RemovalsThere
<1>9. RootsSound'
    BY <1>4 DEF RootsSound
<1> QED  BY <1>5, <1>6, <1>7, <1>8, <1>9 DEF QuarantineInv

LEMMA StripInv == QuarantineInv /\ (Strip \/ PromoteTombstone) => QuarantineInv'
PROOF
<1> SUFFICES ASSUME QuarantineInv, Strip \/ PromoteTombstone PROVE QuarantineInv'
    OBVIOUS
<1>1. item \in Objects /\ item[1] \in Roots /\ pc = "strip"
      /\ (item = File(item[1]) \/ item = Tree(item[1]))
    BY Names DEF Strip, PromoteTombstone, QuarantineInv, TypeOK
<1>2. CASE Refuse
    BY <1>2, Refusing
<1>3. CASE /\ Removed /\ Calm /\ UNCHANGED batch /\ full' \subseteq full
           /\ place' = place \/ Place(item, "gone") \/ Place(item, "tomb")
    BY <1>1, <1>3, RemovedInv
<1>4. CASE /\ unix /\ ~ IsFile(item) /\ place[Nested(item[1])] = "live"
           /\ Place(Nested(item[1]), "gone")
           /\ Calm /\ UNCHANGED <<full, batch, pc, at, todo, item, sound>>
    <2> DEFINE r == item[1]
    <2>1. /\ unix /\ ~ IsFile(item) /\ place[Nested(r)] = "live"
          /\ place' = [place EXCEPT ![Nested(r)] = "gone"]
          /\ Calm /\ UNCHANGED <<full, batch, pc, at, todo, item, sound>>
        BY <1>4 DEF Place
    <2>2. r \in Roots /\ item = Tree(r) /\ Nested(r) \in Things /\ Nested(r) \notin Objects
        BY <1>1, <2>1, Names
    <2>3. \A y \in Things : place'[y] = IF y = Nested(r) THEN "gone" ELSE place[y]
        BY <2>1 DEF QuarantineInv, TypeOK
    <2>4. TypeOK'
        <3>1. place' \in [Things -> {"live", "retained", "tomb", "batch", "leaf", "gone"}]
            BY <2>1 DEF QuarantineInv, TypeOK
        <3>2. \A y \in Things : /\ place'[y] = "leaf" => unix' /\ y[2] = "nested"
                                /\ place'[y] = "retained" => ~ unix' /\ y \in Objects
            BY <2>1, <2>3 DEF QuarantineInv, TypeOK, Calm
        <3> QED  BY <2>1, <3>1, <3>2 DEF QuarantineInv, TypeOK, Calm
    <2>5. NestedInPlace'
        BY <2>2, <2>3, Names DEF QuarantineInv, NestedInPlace
    <2>6. Nested(r) \notin swapped
        <3>1. place[Tree(r)] = "tomb"
            BY <1>1, <2>1, <2>2 DEF QuarantineInv, RemovalsThere
        <3> QED  BY <3>1, <2>1, <2>2 DEF QuarantineInv, ForeignNested
    <2>7. ForeignNested'
        BY <2>1, <2>2, <2>3, <2>6, Names DEF QuarantineInv, ForeignNested, Calm
    <2>8. RemovalsThere'
        <3>1. item \in Things /\ item # Nested(r)
            BY <1>1, <2>2, Names
        <3>2. \A y \in todo : y \in Things /\ y # Nested(r)
            BY <2>2, Names DEF QuarantineInv, TypeOK
        <3> QED  BY <2>1, <2>3, <3>1, <3>2 DEF QuarantineInv, RemovalsThere, Calm
    <2>9. RootsSound'
        BY <2>1 DEF QuarantineInv, RootsSound
    <2> QED  BY <2>4, <2>5, <2>7, <2>8, <2>9 DEF QuarantineInv
<1>5. CASE Strip
    <2>1. CASE item \in swapped \/ (IsFile(item) /\ item \in alias)
        BY <1>2, <1>5, <2>1 DEF Strip
    <2>2. CASE ~ (item \in swapped \/ (IsFile(item) /\ item \in alias)) /\ IsFile(item)
        BY <1>3, <1>5, <2>2 DEF Strip
    <2>3. CASE /\ ~ (item \in swapped \/ (IsFile(item) /\ item \in alias)) /\ ~ IsFile(item)
               /\ place[Nested(item[1])] = "live"
        BY <1>4, <1>5, <2>3 DEF Strip
    <2>4. CASE /\ ~ (item \in swapped \/ (IsFile(item) /\ item \in alias)) /\ ~ IsFile(item)
               /\ place[Nested(item[1])] # "live"
        BY <1>3, <1>5, <2>4 DEF Strip
    <2> QED  BY <2>1, <2>2, <2>3, <2>4
<1>6. CASE PromoteTombstone
    BY <1>2, <1>3, <1>6 DEF PromoteTombstone
<1> QED  BY <1>5, <1>6

-----------------------------------------------------------------------------
\* The environment.
LEMMA MeddlingInv == QuarantineInv /\ (Swap \/ Link \/ Crash) => QuarantineInv'
PROOF
<1> SUFFICES ASSUME QuarantineInv, Swap \/ Link \/ Crash PROVE QuarantineInv'
    OBVIOUS
<1>1. CASE Swap
    <2>1. PICK x \in Things \ swapped :
              /\ \/ place[x] \in {"retained", "tomb", "batch", "leaf"}
                 \/ x \in todo
                 \/ x \in Within(x[1])
              /\ swapped' = swapped \cup {x}
        BY <1>1 DEF Swap
    <2>2. /\ meddled' \in 0 .. MaxMeddling
          /\ UNCHANGED <<unix, disk, alias, pc, at, todo, item, sound, crashes>>
        BY <1>1, QuarantineAssumption DEF Swap, QuarantineInv, TypeOK
    <2>3. TypeOK'
        BY <2>1, <2>2 DEF QuarantineInv, TypeOK, disk
    <2>4. ASSUME NEW r \in Roots, x = Nested(r)
          PROVE  \/ place[Nested(r)] = "leaf"
                 \/ place[Nested(r)] = "live" /\ place[Tree(r)] = "batch"
        <3>1. x[1] = r /\ x \notin todo
            BY <2>4, Names DEF QuarantineInv, TypeOK, Nested
        <3>2. place[x] \in {"live", "leaf", "gone"}
            BY <2>4 DEF QuarantineInv, NestedInPlace
        <3> QED  BY <2>1, <2>4, <3>1, <3>2 DEF Within, At
    <2>5. ForeignNested'
        BY <2>1, <2>2, <2>4 DEF QuarantineInv, ForeignNested, disk
    <2>6. NestedInPlace' /\ RemovalsThere' /\ RootsSound'
        BY <2>2 DEF QuarantineInv, NestedInPlace, RemovalsThere, RootsSound, disk
    <2> QED  BY <2>3, <2>5, <2>6 DEF QuarantineInv
<1>2. CASE Link
    BY <1>2, QuarantineAssumption DEF Link, disk, QuarantineInv, TypeOK, NestedInPlace,
                                      ForeignNested, RemovalsThere, RootsSound
<1>3. CASE Crash
    BY <1>3, Leaving, QuarantineAssumption DEF Crash, foreign, QuarantineInv, TypeOK
<1> QED  BY <1>1, <1>2, <1>3

\* A removal, a cleanup, a crash or a foreign object keeps the invariant.
THEOREM StepInv == QuarantineInv /\ [Next]_vars => QuarantineInv'
PROOF
<1> SUFFICES ASSUME QuarantineInv, [Next]_vars PROVE QuarantineInv'  OBVIOUS
<1>1. CASE Idle
    BY <1>1, Leaving DEF Idle, Calm, disk, QuarantineInv, TypeOK
<1>2. CASE UNCHANGED vars
    BY <1>2 DEF vars, QuarantineInv, TypeOK, NestedInPlace, ForeignNested, RemovalsThere,
                RootsSound
<1> QED  BY <1>1, <1>2, StartInv, InspectInv, CreatePendingInv, StageInv, StageDoneInv,
            RetainedInv, ValidateInv, SecureInv, DeleteInv, DeleteBatchInv, MutateInv,
            MoveAsideInv, StripInv, MeddlingInv DEF Next, Step

LEMMA InitInv == Init => QuarantineInv
PROOF
<1> SUFFICES ASSUME Init PROVE QuarantineInv  OBVIOUS
<1>1. 1 \in Roots /\ File(1) \in Objects
    BY Names, QuarantineAssumption DEF Roots
<1>2. \A r \in Roots : Nested(r) \in Things
    BY Names
<1> QED  BY <1>1, <1>2, QuarantineAssumption DEF Init, QuarantineInv, TypeOK, NestedInPlace,
                                                 ForeignNested, RemovalsThere, RootsSound

(***************************************************************************)
(* The inductive invariant of the quarantine, through every removal,       *)
(* cleanup, crash and foreign object.                                      *)
(***************************************************************************)
THEOREM QuarantineInvariant == Spec => []QuarantineInv
PROOF
<1>1. Init => QuarantineInv
    BY InitInv
<1>2. QuarantineInv /\ [Next]_vars => QuarantineInv'
    BY StepInv
<1> QED  BY <1>1, <1>2, PTL DEF Spec

(***************************************************************************)
(* Every state of the quarantine is well typed: only Windows leaves        *)
(* retained names, only Unix cleanup leaves, and only of nested files.     *)
(***************************************************************************)
THEOREM QuarantineTyped == Spec => []TypeOK
    BY QuarantineInvariant, PTL DEF QuarantineInv

-----------------------------------------------------------------------------
ForeignStays == \A x \in swapped : place'[x] = "gone" => place[x] = "gone"

NamedStays == alias \cap full \subseteq full'

\* What a step that moves one thing must know of it.
LEMMA OnePlace ==
    ASSUME QuarantineInv, NEW x \in Things, NEW p, Place(x, p),
           p # "gone" \/ x \notin swapped
    PROVE  ForeignStays
BY DEF ForeignStays, Place, QuarantineInv, TypeOK

LEMMA SameDisk == UNCHANGED disk => ForeignStays /\ NamedStays
    BY DEF ForeignStays, NamedStays, disk

\* The steps of the cleanup and of the removals keep what is foreign.
LEMMA CleanupKeeps ==
    ASSUME QuarantineInv, Stage \/ Delete PROVE ForeignStays /\ NamedStays
PROOF
<1>1. at \in Roots
    BY DEF QuarantineInv, TypeOK
<1>2. CASE Refuse
    BY <1>2, SameDisk DEF Refuse
<1>3. CASE Stage /\ ~ Refuse
    <2>1. PICK x \in At(at, "tomb") :
              IF unix /\ IsFile(x) /\ x \in full THEN Truncate(x) ELSE Move(x)
        BY <1>3 DEF Stage
    <2>2. x \in Things
        BY <1>1, Names DEF At
    <2>3. CASE Truncate(x)
        BY <1>3, <2>3 DEF Truncate, ForeignStays, NamedStays
    <2>4. CASE Move(x)
        BY <1>3, <2>2, <2>4, OnePlace DEF Move, NamedStays
    <2> QED  BY <2>1, <2>3, <2>4
<1>4. CASE Delete /\ ~ Refuse
    <2>1. PICK x \in Staged(at) : CASE x = Nested(at) -> DeleteLeaf(x)
                                    [] x = File(at)   -> DeleteFile(x)
                                    [] x = Tree(at)   -> DeleteTree(x)
        BY <1>4 DEF Delete
    <2>2. x \in Things /\ Nested(at) \in Things
          /\ (x = Nested(at) \/ x = File(at) \/ x = Tree(at))
        BY <1>1, Names DEF Staged, At, Of
    <2>3. ASSUME NEW y \in Things, y \notin swapped, Remove(y)
          PROVE  ForeignStays /\ NamedStays
        BY <2>3, OnePlace DEF Remove, NamedStays
    <2>4. DeleteLeaf(x) \/ DeleteFile(x) \/ DeleteTree(x)
        BY <2>1, <2>2
    <2>5. CASE DeleteLeaf(x)
        BY <1>4, <2>2, <2>3, <2>5 DEF DeleteLeaf
    <2>6. CASE DeleteFile(x)
        BY <1>4, <2>2, <2>3, <2>6 DEF DeleteFile
    <2>7. CASE DeleteTree(x)
        <3>1. (x \notin swapped /\ Remove(x)) \/ Isolate(Nested(at)) \/ DeleteLeaf(Nested(at))
            BY <1>4, <2>7 DEF DeleteTree
        <3>2. CASE Isolate(Nested(at))
            BY <1>4, <2>2, <3>2, OnePlace DEF Isolate, NamedStays
        <3>3. CASE DeleteLeaf(Nested(at))
            BY <1>4, <2>2, <2>3, <3>3 DEF DeleteLeaf
        <3> QED  BY <2>2, <2>3, <3>1, <3>2, <3>3
    <2> QED  BY <2>4, <2>5, <2>6, <2>7
<1> QED  BY <1>2, <1>3, <1>4

LEMMA RemovalKeeps ==
    ASSUME QuarantineInv, MoveAside \/ Strip \/ PromoteTombstone
    PROVE  ForeignStays /\ NamedStays
PROOF
<1>1. item \in Things /\ todo \subseteq Things /\ item \in Objects /\ item[1] \in Roots
    BY Names DEF QuarantineInv, TypeOK
<1>2. CASE Refuse
    BY <1>2, SameDisk DEF Refuse
<1>3. CASE MoveAside /\ ~ Refuse
    <2>1. PICK x \in todo : /\ Place(x, IF unix THEN "tomb" ELSE "retained")
                            /\ full' = full
        BY <1>3 DEF MoveAside
    <2>2. x \in Things /\ (IF unix THEN "tomb" ELSE "retained") # "gone"
        BY <1>1
    <2> QED  BY <2>1, <2>2, OnePlace DEF NamedStays
<1>4. CASE PromoteTombstone /\ ~ Refuse
    BY <1>1, <1>4, OnePlace DEF PromoteTombstone, NamedStays
<1>5. CASE Strip /\ ~ Refuse
    <2>1. /\ pc = "strip" /\ unix
          /\ item \notin swapped /\ (IsFile(item) => item \notin alias)
        BY <1>5 DEF Strip
    <2>2. CASE IsFile(item)
        <3>1. full' = full \ {item} /\ place' = place
            BY <1>5, <2>1, <2>2 DEF Strip
        <3> QED  BY <2>1, <2>2, <3>1 DEF ForeignStays, NamedStays
    <2>3. CASE ~ IsFile(item) /\ place[Nested(item[1])] = "live"
        <3>1. Place(Nested(item[1]), "gone") /\ full' = full
            BY <1>5, <2>1, <2>3 DEF Strip
        <3>2. Nested(item[1]) \notin swapped
            <4>1. item = Tree(item[1])
                BY <1>1, <2>3, Names
            <4>2. place[Tree(item[1])] = "tomb"
                BY <2>1, <4>1 DEF QuarantineInv, RemovalsThere
            <4> QED  BY <1>1, <2>3, <4>2 DEF QuarantineInv, ForeignNested
        <3> QED  BY <1>1, <3>1, <3>2, OnePlace, Names DEF NamedStays
    <2>4. CASE ~ IsFile(item) /\ place[Nested(item[1])] # "live"
        <3>1. Place(item, "gone") /\ full' = full
            BY <1>5, <2>1, <2>4 DEF Strip
        <3> QED  BY <1>1, <2>1, <3>1, OnePlace DEF NamedStays
    <2> QED  BY <2>2, <2>3, <2>4
<1> QED  BY <1>2, <1>3, <1>4, <1>5

LEMMA StepKeeps == QuarantineInv /\ [Next]_vars => ForeignStays /\ NamedStays
PROOF
<1> SUFFICES ASSUME QuarantineInv, [Next]_vars PROVE ForeignStays /\ NamedStays
    OBVIOUS
<1>1. CASE Stage \/ Delete \/ MoveAside \/ Strip \/ PromoteTombstone
    BY <1>1, CleanupKeeps, RemovalKeeps
<1>2. CASE Start \/ Inspect \/ StageDone \/ Validate \/ Secure \/ Idle \/ Swap \/ Link
           \/ Crash \/ UNCHANGED vars
    <2>1. UNCHANGED disk
        BY <1>2 DEF Start, Inspect, StageDone, Validate, Secure, Idle, Swap, Link, Crash,
           Refuse, vars, disk
    <2> QED  BY <2>1, SameDisk
<1>3. CASE CreatePending \/ Promote \/ DeleteBatch
    BY <1>3 DEF CreatePending, Promote, DeleteBatch, ForeignStays, NamedStays
<1>4. CASE Mutate
    <2>1. /\ place' = [x \in Things |-> IF x \in Missing THEN "live" ELSE place[x]]
          /\ full \subseteq full'
        BY <1>4 DEF Mutate
    <2> QED  BY <2>1 DEF ForeignStays, NamedStays, QuarantineInv, TypeOK
<1>5. CASE StageRetained \/ PromoteRetained
    <2>1. PICK x \in Things : Place(x, "retained") /\ full' = full
        BY <1>5, Names DEF StageRetained, PromoteRetained, Retain, At, QuarantineInv, TypeOK
    <2> QED  BY <2>1, OnePlace DEF NamedStays
<1> QED  BY <1>1, <1>2, <1>3, <1>4, <1>5 DEF Next, Step

(***************************************************************************)
(* A foreign object that took one of the names is never removed, and a     *)
(* file with another name never truncated, in any removal or cleanup.      *)
(***************************************************************************)
THEOREM OwnedRemoved == Spec => OnlyOwnedRemoved
PROOF
<1>1. QuarantineInv /\ [Next]_vars => [ForeignStays /\ NamedStays]_vars
    BY StepKeeps
<1>2. ForeignStays /\ NamedStays => /\ \A x \in swapped : place'[x] = "gone" => place[x] = "gone"
                                    /\ alias \cap full \subseteq full'
    BY DEF ForeignStays, NamedStays
<1> QED  BY <1>1, <1>2, QuarantineInvariant, PTL DEF Spec, OnlyOwnedRemoved

(***************************************************************************)
(* Nothing is staged or deleted in one root before the tombstones, and     *)
(* then the batches, of all of them were found in order.                   *)
(***************************************************************************)
THEOREM RootsFirst == Spec => AllRootsFirst
PROOF
<1>1. QuarantineInv => (disk' # disk /\ pc \in {"stage", "delete"} => sound = Roots)
    BY DEF QuarantineInv, RootsSound
<1> QED  BY <1>1, QuarantineInvariant, PTL DEF AllRootsFirst

-----------------------------------------------------------------------------
(***************************************************************************)
(* The inductive invariant of the upgrade.  OutcomeIsDurable alone is not  *)
(* inductive: it is silent on commands under way.  The invariant says      *)
(* for each place in the code which markers, which layout and which part   *)
(* of the disk are already synchronized when the command gets there, and   *)
(* what of it a crash leaves behind.                                       *)
(***************************************************************************)
\* A marker, or a move, is under way: synchronized first on Windows.
Marking == /\ task.do = "create"
           /\ step \in {"create", "promote", "flush"} \/ (step = "sync" /\ platform = "windows")

Moving == /\ task.do = "move"
          /\ step \in {"move", "flush"} \/ (step = "sync" /\ platform = "windows")

\* The markers and moves each platform asks for, each with what follows.
Markings ==
    IF platform = "windows"
    THEN {<<"PriorRetained", "publish">>, <<"Published", "record">>,
          <<"RestoreRequested", "placement">>, <<"RolledBack", "placement">>,
          <<"Verified", "committed">>, <<"Committed", "conclude">>}
    ELSE {<<"Replaced", "probe">>, <<"Verified", "committed">>,
          <<"Committed", "conclude">>, <<"RolledBack", "restored">>}

Moves ==
    IF platform = "windows"
    THEN {<<"Gap", "retain">>, <<"Gap", "placement">>, <<"Original", "placement">>,
          <<"Published", "record">>}
    ELSE {<<"Published", "record">>, <<"Original", "rollback">>}

\* What a synchronization is done for.
Awaited == IF platform = "windows"
           THEN {"create", "move", "restored", "probe", "installed", "archive"}
           ELSE {"record", "rollback", "archive"}

\* The task fits the place, and the place the platform.
Shaped ==
    /\ step = "sync" => task.do \in Awaited
    /\ step \in {"create", "promote"} => task.do = "create"
    /\ step = "move" => task.do = "move"
    /\ step = "flush" => task.do \in {"create", "move"}
    /\ Marking => <<task.what, task.then>> \in Markings
    /\ Moving => <<task.what, task.then>> \in Moves
    /\ platform = "windows" => step \notin {"reopen", "rollback"}
    /\ platform = "unix" => step \notin {"placement", "retain", "publish"}

\* Two disks show the same.
Same(d, e) == d.layout = e.layout /\ d.marks = e.marks /\ d.archived = e.archived

\* The disk is ahead of what is synchronized, never behind: while a restoration
\* is recorded, neither the candidate nor its verdict is only in the cache.
Kept ==
    /\ \A p \in Markers : durable.marks[p] = "complete" => shown.marks[p] = "complete"
    /\ Restoring(shown) /\ layout = "Published" => durable.layout = "Published"
    /\ Restoring(shown) =>
         \A p \in {"Verified", "Committed"} :
            shown.marks[p] = "complete" => durable.marks[p] = "complete"

\* What goes into the history is settled, on the disk and in what is synchronized.
History ==
    /\ durable.archived => shown.archived
    /\ step \in Steps \ {"history"} => ~ shown.archived
    /\ step = "history" => shown.archived
    /\ step = "retired" => durable.archived
    /\ shown.archived \/ step = "archive" =>
         /\ durable.layout = layout /\ durable.marks = shown.marks
         /\ CommittedFor(shown) \/ RestoredFor(shown)
    /\ step = "sync" /\ task.do = "archive" => CommittedFor(shown) \/ RestoredFor(shown)

\* The exchange of Unix has no gap and no request, and its markers follow what is
\* synchronized; the moves of Windows have no marker for an exchange.
Exchanged ==
    /\ platform = "unix" =>
         /\ layout # "Gap" /\ durable.layout # "Gap"
         /\ shown.marks["RestoreRequested"] = "none" /\ durable.marks["RestoreRequested"] = "none"
         /\ layout = "Published" /\ Complete # {} => durable.layout = "Published"
         /\ "RolledBack" \in Complete => layout = "Original" /\ durable.layout = "Original"
    /\ platform = "windows" =>
         shown.marks["Replaced"] = "none" /\ durable.marks["Replaced"] = "none"

\* A marker under way is new, and everything else is synchronized.
Recording ==
    Marking =>
        /\ step # "flush" => task.what \notin Complete
        /\ step = "promote" => shown.marks[task.what] = "pending"
        /\ step = "flush" => shown.marks[task.what] = "complete"
        /\ step # "sync" => /\ durable.layout = layout /\ durable.archived = shown.archived
                            /\ \A p \in Markers \ {task.what} : durable.marks[p] = shown.marks[p]
        /\ platform = "windows" /\ task.what = "RolledBack" => layout = "Original"

\* The candidate moves in only where no restoration is recorded or begun.
Placing ==
    Moving /\ task.what = "Published" =>
        /\ ~ Restoring(shown) /\ shown.marks["RestoreRequested"] = "none"
        /\ platform = "unix" => Complete = {}
        /\ step = "flush" => layout = "Published"

\* On the way to a committed candidate; past its probe; with nothing unsynchronized.
Ahead ==
    \/ step \in {"record", "probe", "verified", "committed", "conclude"}
    \/ step = "sync" /\ task.do \in {"record", "probe", "installed"}
    \/ Marking /\ task.what \in {"Published", "Replaced", "Verified", "Committed"}

Probed ==
    \/ step \in {"verified", "committed", "conclude"}
    \/ step = "sync" /\ task.do = "installed"
    \/ Marking /\ task.what \in {"Verified", "Committed"}

Synced == step \in {"probe", "verified", "committed", "conclude", "rollback"}
          \/ (step = "record" /\ platform = "unix")

\* What is known at these places.
Positioned ==
    /\ Ahead => /\ layout = "Published" /\ ~ Restoring(shown)
                /\ shown.marks["RestoreRequested"] = "none"
    /\ Probed => fresh
    /\ Synced => Same(shown, durable)
    /\ step = "conclude" \/ (step = "sync" /\ task.do = "installed") => "Committed" \in Complete
    /\ step = "sync" /\ task.do = "restored" => RestoredFor(shown)

\* What the command has reported.
Reported ==
    /\ step = "installed" => fresh /\ CommittedFor(durable)
    /\ step = "restored"  => RestoredFor(durable)

UpgradeInv ==
    /\ UpgradeTyped /\ Shaped /\ Kept /\ History /\ Exchanged /\ Recording /\ Placing
    /\ Positioned /\ Reported

-----------------------------------------------------------------------------
\* The prepared operation satisfies the invariant.
LEMMA UpgradeStart == UpgradeInit => UpgradeInv
<1> SUFFICES ASSUME UpgradeInit PROVE UpgradeInv  OBVIOUS
<1> USE UpgradeAssumption DEF UpgradeInit
<1>1. shown \in Disks /\ durable \in Disks
    BY DEF Prepared, Disks, Layouts
<1>2. UpgradeTyped
    <2>1. task \in [do : {"none"} \cup Steps \cup Ended,
                   what : {"none"} \cup Markers \cup Layouts, then : Steps \cup Ended]
        BY DEF NoTask, Ended
    <2>2. step \in Ended \cup Steps /\ turns \in 0 .. 5 /\ deaths \in 0 .. MaxDeaths
        BY DEF Ended
    <2> QED  BY <1>1, <2>1, <2>2 DEF UpgradeTyped
<1>3. Complete = {} /\ ~ Restoring(shown)
    BY DEF Complete, Restoring, Prepared, Markers
<1>4. ~ Marking /\ ~ Moving /\ ~ Ahead /\ ~ Probed /\ ~ Synced
    BY DEF Marking, Moving, Ahead, Probed, Synced
<1>7. Shaped /\ Recording /\ Placing /\ Positioned /\ Reported
    BY <1>4 DEF Shaped, Recording, Placing, Positioned, Reported
<1>5. Kept /\ History
    BY <1>3 DEF Kept, History, Prepared, Steps
<1>6. Exchanged
    BY <1>3 DEF Exchanged, Prepared, Markers, layout
<1> QED  BY <1>2, <1>5, <1>6, <1>7 DEF UpgradeInv

\* The first markers of the forward order.
LEMMA Prefixes ==
    /\ Prefix(2) = {"PriorRetained", "Published"}
    /\ Prefix(3) = {"PriorRetained", "Published", "Verified"}
    /\ ForwardSet = {"PriorRetained", "Published", "Verified", "Committed"}
<1>1. 1 .. 2 = {1, 2} /\ 1 .. 3 = {1, 2, 3} /\ 1 .. 4 = {1, 2, 3, 4}
    OBVIOUS
<1>2. Forward[1] = "PriorRetained" /\ Forward[2] = "Published" /\ Forward[3] = "Verified"
      /\ Forward[4] = "Committed"
    BY DEF Forward
<1>3. Prefix(2) = {Forward[1], Forward[2]}
    BY <1>1 DEF Prefix
<1>4. Prefix(3) = {Forward[1], Forward[2], Forward[3]}
    BY <1>1 DEF Prefix
<1>5. ForwardSet = {Forward[1], Forward[2], Forward[3], Forward[4]}
    BY <1>1 DEF ForwardSet
<1> QED  BY <1>2, <1>3, <1>4, <1>5

\* A rollback that is recorded, or begun, has the prior back in its place.
LEMMA LegalRollback ==
    ASSUME UpgradeTyped, Legal(layout, Complete, Pending), shown.marks["RolledBack"] # "none"
    PROVE  layout = "Original"
<1>1. layout \in Layouts
    BY DEF UpgradeTyped, Disks, layout
<1>2. "RolledBack" \in Complete \cup Pending
    BY DEF UpgradeTyped, Disks, Markers, Complete, Pending
<1>3. platform \in {"unix", "windows"}
    BY UpgradeAssumption DEF UpgradeTyped
<1>4. CASE platform = "windows"
    BY <1>1, <1>2, <1>4 DEF Legal, RequireLayout, Layouts
<1>5. CASE platform = "unix"
    BY <1>1, <1>2, <1>5 DEF Legal, RequirePhaseOrder
<1> QED  BY <1>3, <1>4, <1>5

\* What lets a marker be recorded on Windows.
LEMMA RecordFacts ==
    ASSUME UpgradeTyped, NEW phase \in Markers, MayRecord(phase)
    PROVE  /\ phase \notin Complete
           /\ platform = "windows" /\ phase \in {"Published", "Verified", "Committed"} =>
                 /\ layout = "Published" /\ ~ Restoring(shown)
                 /\ shown.marks["RestoreRequested"] = "none"
           /\ platform = "windows" /\ phase = "RolledBack" => layout = "Original"
<1>1. platform \in {"unix", "windows"}
    BY UpgradeAssumption DEF UpgradeTyped
<1>2. CASE platform = "unix"
    BY <1>2 DEF MayRecord
<1>3. CASE platform = "windows" /\ phase \in Earned
    <2>1. layout = "Published" /\ Pending \subseteq {phase}
          /\ Complete = Prefix(IF phase = "Verified" THEN 2 ELSE 3)
        BY <1>3 DEF MayRecord, RequireProbeWrite
    <2>2. phase \notin Complete /\ "RestoreRequested" \notin Complete \cup Pending
          /\ "RolledBack" \notin Complete
        BY <1>3, <2>1, Prefixes DEF Earned
    <2> QED  BY <1>3, <2>1, <2>2 DEF Complete, Pending, Restoring, UpgradeTyped, Disks,
                                     Markers, Earned
<1>4. CASE platform = "windows" /\ phase \notin Earned
    <2>1. RequireWrite(phase)
        BY <1>4 DEF MayRecord
    <2>2. CASE phase = "Published"
        <3>1. layout = "Published" /\ Complete = {"PriorRetained"}
              /\ "RestoreRequested" \notin Pending
            BY <2>1, <2>2 DEF RequireWrite
        <3> QED  BY <2>2, <3>1 DEF Complete, Pending, Restoring, UpgradeTyped, Disks,
                                   Markers
    <2>3. CASE phase # "Published"
        BY <1>4, <2>1, <2>3 DEF RequireWrite, Earned
    <2> QED  BY <2>2, <2>3
<1> QED  BY <1>1, <1>2, <1>3, <1>4

-----------------------------------------------------------------------------
\* A step that leaves the files alone leaves what is said of the files alone.
LEMMA FilesStay ==
    ASSUME UpgradeInv, FilesKept
    PROVE  /\ Kept' /\ Exchanged'
           /\ layout' = layout /\ Complete' = Complete /\ Pending' = Pending
<1>1. layout' = layout /\ Complete' = Complete /\ Pending' = Pending
    BY DEF FilesKept, layout, Complete, Pending
<1>2. Kept'
    BY <1>1 DEF UpgradeInv, FilesKept, Kept, Restoring
<1>3. Exchanged'
    BY <1>1 DEF UpgradeInv, FilesKept, Exchanged
<1> QED  BY <1>1, <1>2, <1>3

\* The places of a command where no marker, move or synchronization is under way.
Plain == {"reopen", "placement", "retain", "publish", "record", "probe", "verified",
          "committed", "conclude", "rollback"} \cup (Ended \ {"retired"})

\* What has to be so for a command to be at such a place.
Fit(l) ==
    /\ l \in {"record", "probe", "verified", "committed", "conclude"} =>
         /\ layout = "Published" /\ ~ Restoring(shown)
         /\ shown.marks["RestoreRequested"] = "none"
    /\ l \in {"verified", "committed", "conclude", "installed"} => fresh
    /\ l \in {"probe", "verified", "committed", "conclude", "rollback"}
         \/ (l = "record" /\ platform = "unix") => Same(shown, durable)
    /\ l = "conclude" => "Committed" \in Complete
    /\ l = "installed" => CommittedFor(durable)
    /\ l = "restored" => RestoredFor(durable)
    /\ platform = "windows" => l \notin {"reopen", "rollback"}
    /\ platform = "unix" => l \notin {"placement", "retain", "publish"}

LEMMA Arrives ==
    ASSUME NEW label \in Plain, step' = label, UpgradeTyped', Kept', History', Exchanged', Fit(label)'
    PROVE  UpgradeInv'
<1>1. ~ Marking' /\ ~ Moving' /\ step' \notin {"sync", "create", "promote", "move", "flush"}
    BY DEF Marking, Moving, Plain, Ended
<1>2. Shaped'
    BY <1>1 DEF Shaped, Fit
<1>3. Recording' /\ Placing'
    BY <1>1 DEF Recording, Placing
<1>4. Positioned'
    <2>1. Ahead' => label \in {"record", "probe", "verified", "committed", "conclude"}
        BY <1>1 DEF Ahead
    <2>2. Probed' => label \in {"verified", "committed", "conclude"}
        BY <1>1 DEF Probed
    <2>3. Synced' => label \in {"probe", "verified", "committed", "conclude", "rollback"}
                     \/ (label = "record" /\ (platform = "unix")')
        BY DEF Synced
    <2> QED  BY <1>1, <2>1, <2>2, <2>3 DEF Positioned, Fit
<1>5. Reported'
    BY DEF Reported, Fit
<1> QED  BY <1>2, <1>3, <1>4, <1>5 DEF UpgradeInv

\* A refusal, from anywhere.
LEMMA Refuses ==
    ASSUME UpgradeInv, RefuseUpgrade, turns' \in 0 .. 5, fresh' \in BOOLEAN
    PROVE  UpgradeInv'
<1>1. step' = "refused" /\ FilesKept /\ "refused" \in Plain /\ task' = task
    BY DEF RefuseUpgrade, Decide, Go, Plain, Ended
<1>2. UpgradeTyped'
    BY <1>1 DEF UpgradeInv, UpgradeTyped, FilesKept, Ended
<1>3. History'
    BY <1>1, FilesStay DEF UpgradeInv, History, FilesKept, CommittedFor, RestoredFor,
                           Restoring,
                           Steps
<1> QED  BY <1>1, <1>2, <1>3, FilesStay, Arrives DEF Fit

LEMMA Decides ==
    ASSUME UpgradeInv, ~ shown.archived, NEW label \in Plain, Decide(label),
           turns' \in 0 .. 5, fresh' \in BOOLEAN, Fit(label)'
    PROVE  UpgradeInv'
<1>1. step' = label /\ FilesKept /\ task' = task
    BY DEF Decide, Go
<1>2. UpgradeTyped'
    BY <1>1 DEF UpgradeInv, UpgradeTyped, FilesKept, Plain, Ended, Steps
<1>3. History'
    BY <1>1 DEF UpgradeInv, History, FilesKept, Plain, Ended
<1> QED  BY <1>1, <1>2, <1>3, FilesStay, Arrives

\* A synchronization that comes before something else.
LEMMA SyncThens ==
    ASSUME UpgradeInv, ~ shown.archived, NEW label \in Awaited \ {"create", "move"},
           SyncThen(label), turns' \in 0 .. 5, fresh' \in BOOLEAN,
           label \in {"record", "probe", "installed"} =>
             /\ layout = "Published" /\ ~ Restoring(shown)
             /\ shown.marks["RestoreRequested"] = "none",
           label = "installed" => fresh' /\ "Committed" \in Complete,
           label = "restored" => RestoredFor(shown),
           label = "archive" => CommittedFor(shown) \/ RestoredFor(shown)
    PROVE  UpgradeInv'
<1>1. /\ step' = "sync" /\ task' = [do |-> label, what |-> "none", then |-> "idle"]
      /\ FilesKept
    BY DEF SyncThen, Begin
<1>2. task'.do = label /\ label \notin {"create", "move"}
    BY <1>1
<1>3. label \in Steps \cup Ended
    BY DEF Awaited, Steps, Ended
<1>4. UpgradeTyped'
    <2>1. task' \in [do : {"none"} \cup Steps \cup Ended,
                    what : {"none"} \cup Markers \cup Layouts, then : Steps \cup Ended]
        BY <1>1, <1>3 DEF Ended
    <2>2. step' \in Ended \cup Steps
        BY <1>1 DEF Steps
    <2> QED  BY <1>1, <2>1, <2>2 DEF UpgradeInv, UpgradeTyped, FilesKept
<1>5. ~ Marking' /\ ~ Moving'
    BY <1>2 DEF Marking, Moving
<1>6. Shaped'
    BY <1>1, <1>2, <1>5 DEF Shaped, Awaited, FilesKept
<1>7. History'
    BY <1>1, <1>2 DEF UpgradeInv, History, FilesKept, CommittedFor, RestoredFor,
                      Restoring
<1>8. Recording' /\ Placing' /\ Reported'
    BY <1>1, <1>5 DEF Recording, Placing, Reported
<1>9. Positioned'
    <2>1. Ahead' => label \in {"record", "probe", "installed"}
        BY <1>1, <1>2, <1>5 DEF Ahead
    <2>2. Probed' => label = "installed"
        BY <1>1, <1>2, <1>5 DEF Probed
    <2>3. ~ Synced'
        BY <1>1 DEF Synced
    <2>4. Restoring(shown)' = Restoring(shown) /\ RestoredFor(shown)' = RestoredFor(shown)
        BY <1>1 DEF FilesKept
    <2> QED  BY <1>1, <1>2, <2>1, <2>2, <2>3, <2>4, FilesStay DEF Positioned, FilesKept
<1> QED  BY <1>1, <1>4, <1>6, <1>7, <1>8, <1>9, FilesStay DEF UpgradeInv

\* The markers are phases, and what follows them is a place of the code.
LEMMA MarkersNamed ==
    ASSUME NEW phase, NEW then, <<phase, then>> \in Markings, platform \in {"unix", "windows"}
    PROVE  /\ phase \in Markers /\ then \in Plain
           /\ then \in Steps \cup Ended
           /\ phase \notin Layouts \ {"Published"}
    BY DEF Markings, Markers, Plain, Steps, Ended, Layouts

\* The beginning of a marker: synchronized first on Windows.
LEMMA Records ==
    ASSUME UpgradeInv, ~ shown.archived, NEW phase, NEW then,
           <<phase, then>> \in Markings, Record(phase, then),
           turns' \in 0 .. 5, fresh' \in BOOLEAN,
           platform = "unix" => Same(shown, durable),
           platform = "unix" /\ phase # "RolledBack" => layout = "Published" /\ ~ Restoring(shown),
           phase \in {"Verified", "Committed"} => fresh'
    PROVE  UpgradeInv'
<1>0. UpgradeTyped /\ platform \in {"unix", "windows"}
    BY UpgradeAssumption DEF UpgradeInv, UpgradeTyped
<1>1. CASE ~ MayRecord(phase)
    BY <1>1, Refuses DEF Record
<1>2. CASE MayRecord(phase)
    <2>1. /\ task' = [do |-> "create", what |-> phase, then |-> then]
          /\ step' = (IF platform = "windows" THEN "sync" ELSE "create")
          /\ FilesKept
        BY <1>2 DEF Record, Begin
    <2>2. task'.do = "create" /\ task'.what = phase /\ task'.then = then
        BY <2>1
    <2>3. phase \in Markers /\ then \in Steps \cup Ended
        BY <1>0, MarkersNamed
    <2>4. UpgradeTyped'
        <3>1. task' \in [do : {"none"} \cup Steps \cup Ended,
                        what : {"none"} \cup Markers \cup Layouts, then : Steps \cup Ended]
            BY <2>1, <2>3 DEF Steps
        <3>2. step' \in Ended \cup Steps
            BY <2>1 DEF Steps
        <3> QED  BY <2>1, <3>1, <3>2, <1>0 DEF UpgradeTyped, FilesKept
    <2>5. ~ Moving' /\ step' \in {"sync", "create"} /\ platform' = platform
        BY <2>1, <2>2 DEF Moving, FilesKept
    <2>6. Shaped'
        BY <1>0, <2>1, <2>2, <2>5 DEF Shaped, Awaited, Markings
    <2>7. History'
        BY <2>1, <2>2 DEF UpgradeInv, History, FilesKept, CommittedFor, RestoredFor,
                          Restoring
    <2>8. /\ phase \notin Complete
          /\ platform = "windows" /\ phase \in {"Published", "Verified", "Committed"} =>
                 /\ layout = "Published" /\ ~ Restoring(shown)
                 /\ shown.marks["RestoreRequested"] = "none"
          /\ platform = "windows" /\ phase = "RolledBack" => layout = "Original"
        BY <1>0, <1>2, <2>3, RecordFacts
    <2>9. Recording'
        BY <1>0, <2>1, <2>2, <2>5, <2>8, FilesStay DEF Recording, FilesKept, Same, layout
    <2>10. Placing' /\ Reported'
        BY <2>5 DEF Placing, Reported
    <2>11. Positioned'
        <3>1. Ahead' => phase \in {"Published", "Replaced", "Verified", "Committed"}
            BY <2>2, <2>5 DEF Ahead
        <3>2. Ahead' => /\ layout = "Published" /\ ~ Restoring(shown)
                        /\ shown.marks["RestoreRequested"] = "none"
            BY <1>0, <2>8, <3>1 DEF UpgradeInv, Exchanged, Markings
        <3>3. Probed' => phase \in {"Verified", "Committed"}
            BY <2>2, <2>5 DEF Probed
        <3>4. ~ Synced'
            BY <2>5 DEF Synced
        <3>5. Restoring(shown)' = Restoring(shown)
            BY <2>1 DEF FilesKept
        <3> QED  BY <2>1, <2>2, <2>5, <3>2, <3>3, <3>4, <3>5, FilesStay DEF Positioned,
                                                                            FilesKept
    <2> QED  BY <2>1, <2>4, <2>6, <2>7, <2>9, <2>10, <2>11, FilesStay DEF UpgradeInv
<1> QED  BY <1>1, <1>2

\* The beginning of a move.
LEMMA BeginsMove ==
    ASSUME UpgradeInv, ~ shown.archived, NEW what, NEW then,
           <<what, then>> \in Moves, MoveTo(what, then),
           turns' \in 0 .. 5, fresh' \in BOOLEAN,
           platform = "unix" /\ what = "Published" => Complete = {}
    PROVE  UpgradeInv'
<1>0. UpgradeTyped /\ platform \in {"unix", "windows"}
    BY UpgradeAssumption DEF UpgradeInv, UpgradeTyped
<1>1. CASE ~ (platform = "unix" \/ RequireMove(what))
    BY <1>1, Refuses DEF MoveTo
<1>2. CASE platform = "unix" \/ RequireMove(what)
    <2>1. /\ task' = [do |-> "move", what |-> what, then |-> then]
          /\ step' = (IF platform = "windows" THEN "sync" ELSE "move")
          /\ FilesKept
        BY <1>2 DEF MoveTo, Begin
    <2>2. task'.do = "move" /\ task'.what = what /\ task'.then = then
        BY <2>1
    <2>3. what \in Layouts /\ then \in Steps \cup Ended
        BY <1>0 DEF Moves, Layouts, Steps, Ended
    <2>4. UpgradeTyped'
        <3>1. task' \in [do : {"none"} \cup Steps \cup Ended,
                        what : {"none"} \cup Markers \cup Layouts, then : Steps \cup Ended]
            BY <2>1, <2>3 DEF Steps
        <3>2. step' \in Ended \cup Steps
            BY <2>1 DEF Steps
        <3> QED  BY <2>1, <3>1, <3>2, <1>0 DEF UpgradeTyped, FilesKept
    <2>5. ~ Marking' /\ step' \in {"sync", "move"} /\ platform' = platform
        BY <2>1, <2>2 DEF Marking, FilesKept
    <2>6. Shaped'
        BY <1>0, <2>1, <2>2, <2>5 DEF Shaped, Awaited, Moves
    <2>7. History'
        BY <2>1, <2>2 DEF UpgradeInv, History, FilesKept, CommittedFor, RestoredFor,
                          Restoring
    <2>8. platform = "windows" /\ what = "Published" => Complete = {"PriorRetained"} /\ Pending = {}
        <3>1. SUFFICES ASSUME platform = "windows", what = "Published"
                       PROVE  Complete = {"PriorRetained"} /\ Pending = {}
            OBVIOUS
        <3>2. RequireMove("Published")
            BY <1>2, <3>1
        <3> QED  BY <3>2 DEF RequireMove
    <2>9. what = "Published" => /\ ~ Restoring(shown) /\ shown.marks["RestoreRequested"] = "none"
                                /\ platform = "unix" => Complete = {}
        <3>1. CASE platform = "unix"
            BY <1>0, <3>1 DEF UpgradeInv, Exchanged, Restoring, Complete, Markers
        <3>2. CASE platform = "windows"
            BY <1>0, <2>8, <3>2 DEF Restoring, Complete, Pending, Markers, UpgradeTyped,
                                    Disks
        <3> QED  BY <1>0, <3>1, <3>2
    <2>10. Placing'
        <3>1. Restoring(shown)' = Restoring(shown)
            BY <2>1 DEF FilesKept
        <3> QED  BY <2>1, <2>2, <2>5, <2>9, <3>1, FilesStay DEF Placing, FilesKept
    <2>11. Recording' /\ Reported'
        BY <2>5 DEF Recording, Reported
    <2>12. ~ Ahead' /\ ~ Probed' /\ ~ Synced'
        BY <2>2, <2>5 DEF Ahead, Probed, Synced
    <2>13. Positioned'
        BY <2>2, <2>5, <2>12 DEF Positioned
    <2> QED  BY <2>1, <2>4, <2>6, <2>7, <2>10, <2>11, <2>13, FilesStay DEF UpgradeInv
<1> QED  BY <1>1, <1>2

-----------------------------------------------------------------------------
(***************************************************************************)
(* The steps that decide.                                                  *)
(***************************************************************************)
\* What is known of a recovery step of Windows.
LEMMA RecoveryFacts ==
    ASSUME UpgradeInv, platform = "windows", Legal(layout, Complete, Pending)
    PROVE  /\ RecoveryStep = "ProbeCandidate" =>
                 /\ layout = "Published" /\ ~ Restoring(shown)
                 /\ shown.marks["RestoreRequested"] = "none"
           /\ RecoveryStep = "Restored" => RestoredFor(shown)
<1>1. UpgradeTyped /\ shown.marks["Replaced"] = "none"
    BY DEF UpgradeInv, Exchanged
<1>2. PICK n \in 0 .. 4 : Complete \cap ForwardSet = Prefix(n)
    BY DEF Legal, RequireLayout, ValidHistory
<1>3. Prefix(0) = {}
    BY DEF Prefix
<1>4. CASE "RolledBack" \in Complete
    <2>1. LastPhase = "RolledBack"
        BY <1>4 DEF LastPhase
    <2>2. RecoveryStep # "ProbeCandidate"
        BY <2>1, Prefixes DEF RecoveryStep
    <2>3. RecoveryStep = "Restored" => layout = "Original"
        BY <2>1 DEF RecoveryStep
    <2> QED  BY <1>4, <2>2, <2>3 DEF RestoredFor, Complete, layout
<1>5. CASE "RolledBack" \notin Complete /\ "RestoreRequested" \in Complete
    <2>1. LastPhase = "RestoreRequested"
        BY <1>5 DEF LastPhase
    <2> QED  BY <2>1, Prefixes DEF RecoveryStep
<1>6. CASE "RolledBack" \notin Complete /\ "RestoreRequested" \notin Complete
    <2>1. LastPhase # "RolledBack"
        <3>1. CASE Complete = {}
            BY <1>6, <3>1 DEF LastPhase
        <3>2. CASE Complete # {}
            <4>1. Complete \subseteq ForwardSet
                BY <1>1, <1>6, Prefixes DEF Complete, Markers
            <4>2. Complete = Prefix(n) /\ n \in 1 .. 4
                BY <1>2, <1>3, <3>2, <4>1
            <4>3. (CHOOSE m \in 1 .. 4 : Complete = Prefix(m)) \in 1 .. 4
                BY <4>2
            <4>4. LastPhase \in ForwardSet
                BY <1>6, <3>2, <4>3 DEF LastPhase, ForwardSet
            <4> QED  BY <4>4, Prefixes
        <3> QED  BY <3>1, <3>2
    <2>2. RecoveryStep # "Restored"
        BY <2>1 DEF RecoveryStep
    <2>3. RecoveryStep = "ProbeCandidate" => layout = "Published" /\ "RestoreRequested" \notin Pending
        BY DEF RecoveryStep
    <2> QED  BY <1>1, <1>6, <2>2, <2>3 DEF Restoring, Complete, Pending, UpgradeTyped,
                                           Disks, Markers
<1> QED  BY <1>4, <1>5, <1>6

LEMMA ReopenInv ==
    ASSUME UpgradeInv, Legal(layout, Complete, Pending), Reopen
    PROVE  UpgradeInv'
<1>1. /\ UpgradeTyped /\ platform = "unix" /\ ~ shown.archived
      /\ turns' \in 0 .. 5 /\ fresh' \in BOOLEAN
    BY UpgradeAssumption DEF UpgradeInv, UpgradeTyped, Shaped, History, Reopen, Steps
<1>2. CASE layout = "Original" /\ Complete = {}
    <2>1. MoveTo("Published", "record")
        BY <1>2 DEF Reopen
    <2> QED  BY <1>1, <1>2, <2>1, BeginsMove DEF Moves
<1>3. CASE layout = "Original" /\ Complete # {}
    <2>1. SyncThen("rollback")
        BY <1>3 DEF Reopen
    <2> QED  BY <1>1, <2>1, SyncThens DEF Awaited
<1>4. CASE layout # "Original"
    <2>1. SyncThen("record")
        BY <1>4 DEF Reopen
    <2>2. layout = "Published" /\ shown.marks["RestoreRequested"] = "none"
        BY <1>1, <1>4 DEF UpgradeInv, Exchanged, UpgradeTyped, Disks, Layouts, layout
    <2>3. ~ Restoring(shown)
        BY <1>1, <1>4, <2>2, LegalRollback DEF Restoring
    <2> QED  BY <1>1, <2>1, <2>2, <2>3, SyncThens DEF Awaited
<1> QED  BY <1>2, <1>3, <1>4

LEMMA PlacementInv ==
    ASSUME UpgradeInv, Legal(layout, Complete, Pending), Placement
    PROVE  UpgradeInv'
<1>1. /\ UpgradeTyped /\ platform = "windows" /\ ~ shown.archived
      /\ turns' \in 0 .. 5 /\ fresh' \in BOOLEAN /\ fresh' = fresh
    BY UpgradeAssumption DEF UpgradeInv, UpgradeTyped, Shaped, History, Placement, Steps
<1>2. \/ RefuseUpgrade
      \/ MoveTo("Gap", "retain") \/ MoveTo("Gap", "placement") \/ MoveTo("Original", "placement")
      \/ RecoveryStep = "ProbeCandidate" /\ Decide("record")
      \/ RecoveryStep = "Restored" /\ SyncThen("restored")
      \/ Record("RestoreRequested", "placement") \/ Record("RolledBack", "placement")
    BY DEF Placement
<1>3. CASE RefuseUpgrade
    BY <1>1, <1>3, Refuses
<1>4. CASE MoveTo("Gap", "retain") \/ MoveTo("Gap", "placement") \/ MoveTo("Original", "placement")
    BY <1>1, <1>4, BeginsMove DEF Moves
<1>5. CASE RecoveryStep = "ProbeCandidate" /\ Decide("record")
    <2>1. Fit("record")'
        BY <1>1, <1>5, RecoveryFacts DEF Fit, Decide, FilesKept, Restoring, layout
    <2> QED  BY <1>1, <1>5, <2>1, Decides DEF Plain
<1>6. CASE RecoveryStep = "Restored" /\ SyncThen("restored")
    BY <1>1, <1>6, RecoveryFacts, SyncThens DEF Awaited
<1>7. CASE Record("RestoreRequested", "placement") \/ Record("RolledBack", "placement")
    BY <1>1, <1>7, Records DEF Markings
<1> QED  BY <1>2, <1>3, <1>4, <1>5, <1>6, <1>7

LEMMA RetentionInv ==
    ASSUME UpgradeInv, RecordRetention
    PROVE  UpgradeInv'
<1>1. /\ platform = "windows" /\ ~ shown.archived
      /\ turns' \in 0 .. 5 /\ fresh' \in BOOLEAN
    BY UpgradeAssumption DEF UpgradeInv, UpgradeTyped, Shaped, History, RecordRetention, RecordOnce, Steps
<1>2. CASE Decide("publish")
    <2>1. Fit("publish")'
        BY <1>1, <1>2 DEF Fit, Decide, FilesKept
    <2> QED  BY <1>1, <1>2, <2>1, Decides DEF Plain
<1>3. CASE Record("PriorRetained", "publish")
    BY <1>1, <1>3, Records DEF Markings
<1> QED  BY <1>2, <1>3 DEF RecordRetention, RecordOnce

LEMMA PublishInv ==
    ASSUME UpgradeInv, Publish
    PROVE  UpgradeInv'
<1>1. /\ platform = "windows" /\ ~ shown.archived
      /\ turns' \in 0 .. 5 /\ fresh' \in BOOLEAN
    BY UpgradeAssumption DEF UpgradeInv, UpgradeTyped, Shaped, History, Publish, Steps
<1> QED  BY <1>1, BeginsMove DEF Publish, Moves

\* What holds where a command goes on with a candidate in place.
LEMMA AheadFacts ==
    ASSUME UpgradeInv, step \in {"record", "probe", "verified", "committed", "conclude"}
    PROVE  /\ UpgradeTyped /\ platform \in {"unix", "windows"} /\ ~ shown.archived
           /\ layout = "Published" /\ ~ Restoring(shown)
           /\ shown.marks["RestoreRequested"] = "none"
           /\ step # "record" \/ platform = "unix" => Same(shown, durable)
           /\ step \in {"verified", "committed", "conclude"} => fresh
           /\ step = "conclude" => "Committed" \in Complete
<1>1. UpgradeTyped /\ platform \in {"unix", "windows"} /\ ~ shown.archived
    BY UpgradeAssumption DEF UpgradeInv, UpgradeTyped, History, Steps
<1>2. Ahead /\ (step # "record" \/ platform = "unix" => Synced)
    BY DEF Ahead, Synced
<1>3. step \in {"verified", "committed", "conclude"} => Probed
    BY DEF Probed
<1> QED  BY <1>1, <1>2, <1>3 DEF UpgradeInv, Positioned

\* Going on with the same files: the facts are still there.
LEMMA GoesOn ==
    ASSUME UpgradeInv, step \in {"record", "probe", "verified", "committed", "conclude"},
           NEW label \in {"probe", "verified", "committed", "conclude"}, Decide(label),
           turns' \in 0 .. 5, fresh' \in BOOLEAN,
           step # "record" \/ platform = "unix",
           label # "probe" => fresh',
           label = "conclude" => "Committed" \in Complete
    PROVE  UpgradeInv'
<1>1. Fit(label)'
    BY AheadFacts, FilesStay DEF Fit, Decide, FilesKept, Same, Restoring
<1> QED  BY <1>1, AheadFacts, Decides DEF Plain

LEMMA RecordReplacementInv ==
    ASSUME UpgradeInv, RecordReplacement
    PROVE  UpgradeInv'
<1>1. /\ step = "record" /\ platform \in {"unix", "windows"} /\ ~ shown.archived
      /\ turns' \in 0 .. 5 /\ fresh' \in BOOLEAN
    BY AheadFacts DEF RecordReplacement, RecordOnce, UpgradeTyped
<1>2. CASE platform = "unix"
    <2>1. CASE Decide("probe")
        BY <1>1, <1>2, <2>1, GoesOn
    <2>2. CASE Record("Replaced", "probe")
        BY <1>1, <1>2, <2>2, AheadFacts, Records DEF Markings
    <2> QED  BY <1>2, <2>1, <2>2 DEF RecordReplacement, RecordOnce
<1>3. CASE platform = "windows" /\ "Published" \in Complete
    <2>1. SyncThen("probe")
        BY <1>3 DEF RecordReplacement
    <2> QED  BY <1>1, <1>3, <2>1, AheadFacts, SyncThens DEF Awaited
<1>4. CASE platform = "windows" /\ "Published" \notin Complete
    <2>1. Record("Published", "record")
        BY <1>4 DEF RecordReplacement, RecordOnce
    <2> QED  BY <1>1, <1>4, <2>1, Records DEF Markings
<1> QED  BY <1>1, <1>2, <1>3, <1>4

LEMMA ProbeInv ==
    ASSUME UpgradeInv, Probe
    PROVE  UpgradeInv'
<1>0. step = "probe" /\ turns' = 0 /\ (fresh' = TRUE \/ fresh' = FALSE)
    BY DEF Probe
<1>1. /\ step = "probe" /\ platform \in {"unix", "windows"} /\ ~ shown.archived
      /\ turns' \in 0 .. 5 /\ fresh' \in BOOLEAN
    <2>1. fresh' \in BOOLEAN
        BY <1>0, Zenon
    <2>2. turns' \in 0 .. 5
        BY <1>0
    <2> QED  BY <1>0, <2>1, <2>2, AheadFacts
<1>2. CASE fresh' = TRUE /\ Decide("verified")
    BY <1>1, <1>2, GoesOn
<1>3. CASE platform = "unix" /\ MoveTo("Original", "rollback")
    BY <1>1, <1>3, BeginsMove DEF Moves
<1>4. CASE platform = "windows" /\ Record("RestoreRequested", "placement")
    BY <1>1, <1>4, Records DEF Markings
<1> QED  BY <1>1, <1>2, <1>3, <1>4 DEF Probe

LEMMA RecordVerifiedInv ==
    ASSUME UpgradeInv, RecordVerified
    PROVE  UpgradeInv'
<1>1. /\ step = "verified" /\ ~ shown.archived
      /\ turns' \in 0 .. 5 /\ fresh' \in BOOLEAN /\ fresh'
    BY AheadFacts DEF RecordVerified, RecordOnce, UpgradeTyped
<1>2. CASE Decide("committed")
    BY <1>1, <1>2, GoesOn
<1>3. CASE Record("Verified", "committed")
    BY <1>1, <1>3, AheadFacts, Records DEF Markings
<1> QED  BY <1>2, <1>3 DEF RecordVerified, RecordOnce

LEMMA RecordCommittedInv ==
    ASSUME UpgradeInv, RecordCommitted
    PROVE  UpgradeInv'
<1>1. /\ step = "committed" /\ ~ shown.archived
      /\ turns' \in 0 .. 5 /\ fresh' \in BOOLEAN /\ fresh'
    BY AheadFacts DEF RecordCommitted, RecordOnce, UpgradeTyped
<1>2. CASE "Committed" \in Complete /\ Decide("conclude")
    BY <1>1, <1>2, GoesOn
<1>3. CASE Record("Committed", "conclude")
    BY <1>1, <1>3, AheadFacts, Records DEF Markings
<1> QED  BY <1>2, <1>3 DEF RecordCommitted, RecordOnce

LEMMA ConcludeInv ==
    ASSUME UpgradeInv, Conclude
    PROVE  UpgradeInv'
<1>1. /\ step = "conclude" /\ platform \in {"unix", "windows"} /\ ~ shown.archived
      /\ turns' \in 0 .. 5 /\ fresh' \in BOOLEAN /\ fresh'
    BY AheadFacts DEF Conclude, UpgradeTyped
<1>2. CASE platform = "windows" /\ SyncThen("installed")
    BY <1>1, <1>2, AheadFacts, SyncThens DEF Awaited
<1>3. CASE platform = "unix" /\ Decide("installed")
    <2>1. CommittedFor(durable)
        BY <1>1, AheadFacts DEF Same, CommittedFor, Complete, Restoring, layout
    <2>2. Fit("installed")'
        BY <1>1, <1>3, <2>1 DEF Fit, Decide, FilesKept, CommittedFor, Restoring
    <2> QED  BY <1>1, <1>3, <2>2, Decides DEF Plain, Ended
<1> QED  BY <1>1, <1>2, <1>3 DEF Conclude

LEMMA RecordRollbackInv ==
    ASSUME UpgradeInv, RecordRollback
    PROVE  UpgradeInv'
<1>1. /\ UpgradeTyped /\ step = "rollback" /\ platform = "unix" /\ ~ shown.archived
      /\ turns' \in 0 .. 5 /\ fresh' \in BOOLEAN
    BY UpgradeAssumption
    DEF UpgradeInv, UpgradeTyped, Shaped, History, RecordRollback, RecordOnce, Steps
<1>2. Same(shown, durable)
    BY <1>1 DEF UpgradeInv, Positioned, Synced
<1>3. CASE "RolledBack" \in Complete /\ Decide("restored")
    <2>1. RestoredFor(durable)
        BY <1>1, <1>2, <1>3 DEF UpgradeInv, Exchanged, Same, RestoredFor, Complete
    <2>2. Fit("restored")'
        BY <1>3, <2>1 DEF Fit, Decide, FilesKept, RestoredFor
    <2> QED  BY <1>1, <1>3, <2>2, Decides DEF Plain, Ended
<1>4. CASE Record("RolledBack", "restored")
    BY <1>1, <1>2, <1>4, Records DEF Markings
<1> QED  BY <1>3, <1>4 DEF RecordRollback, RecordOnce

-----------------------------------------------------------------------------
(***************************************************************************)
(* The steps that write.                                                   *)
(***************************************************************************)
\* Synchronizing puts on the platter what the file system shows, but for the
\* directory of the destination in a retirement on Unix.
LEMMA SyncKeeps ==
    ASSUME UpgradeInv, Sync
    PROVE  UpgradeTyped' /\ Kept' /\ Exchanged'
<1>1. /\ step = "sync" /\ step' = task.do /\ task' = task /\ shown' = shown
      /\ UNCHANGED <<platform, turns, fresh, moved, deaths>>
      /\ durable'.marks = shown.marks /\ durable' \in Disks
      /\ durable'.layout \in {layout, durable.layout}
      /\ layout' = layout /\ Complete' = Complete
    <2>1. shown \in Disks /\ durable \in Disks
        BY DEF UpgradeInv, UpgradeTyped
    <2> QED  BY <2>1 DEF Sync, Go, Disks, layout, Complete
<1>2. UpgradeTyped'
    <2>1. step' \in Steps \cup Ended
        BY <1>1 DEF UpgradeInv, Shaped, Awaited, Steps, Ended
    <2> QED  BY <1>1, <2>1 DEF UpgradeInv, UpgradeTyped
<1>3. Restoring(shown)' = Restoring(shown)
    BY <1>1
<1>4. Kept'
    BY <1>1, <1>3 DEF UpgradeInv, Kept
<1>5. Exchanged'
    BY <1>1 DEF UpgradeInv, Exchanged, Complete, Markers
<1> QED  BY <1>2, <1>4, <1>5

LEMMA SyncInv ==
    ASSUME UpgradeInv, Sync
    PROVE  UpgradeInv'
<1>1. /\ step = "sync" /\ step' = task.do /\ task' = task /\ shown' = shown
      /\ platform' = platform /\ fresh' = fresh
      /\ layout' = layout /\ Complete' = Complete /\ Pending' = Pending
      /\ platform \in {"unix", "windows"} /\ ~ shown.archived
      /\ task.do \in Awaited
    BY UpgradeAssumption
    DEF Sync, Go, UpgradeInv, UpgradeTyped, Shaped, History, Steps, layout, Complete,
        Pending
<1>2. platform = "windows" \/ task.do # "archive" => durable' = shown
    BY <1>1 DEF Sync
<1>3. UpgradeTyped' /\ Kept' /\ Exchanged'
    BY SyncKeeps
<1>4. RestoredFor(shown)' = RestoredFor(shown) /\ CommittedFor(shown)' = CommittedFor(shown)
    BY <1>1
<1>5. ~ durable'.archived
    BY <1>1, <1>2 DEF UpgradeInv, History, Sync, UpgradeTyped, Disks
<1>6. CASE task.do \in Plain
    <2>1. task.do \in {"record", "rollback", "restored", "probe", "installed"}
          /\ task.do # "archive" /\ durable' = shown
        BY <1>1, <1>2, <1>6 DEF Plain, Ended, Awaited
    <2>2. History'
        BY <1>1, <1>5, <2>1 DEF History
    <2>3. Fit(task.do)'
        <3>1. task.do \in {"record", "probe", "installed"} =>
                /\ layout = "Published" /\ ~ Restoring(shown)
                /\ shown.marks["RestoreRequested"] = "none"
            BY <1>1 DEF UpgradeInv, Positioned, Ahead
        <3>2. task.do = "installed" => fresh /\ CommittedFor(shown)
            BY <1>1, <3>1 DEF UpgradeInv, Positioned, Probed, CommittedFor, Complete,
                              layout
        <3>3. task.do = "restored" => RestoredFor(shown)
            BY <1>1 DEF UpgradeInv, Positioned
        <3>4. Same(shown, durable)'
            BY <1>1, <2>1 DEF Same
        <3>5. (task.do = "installed" => fresh /\ CommittedFor(durable))'
              /\ (task.do = "restored" => RestoredFor(durable))'
            BY <1>1, <2>1, <3>2, <3>3
        <3>6. (platform = "windows" => task.do # "rollback")
              /\ (platform = "unix" => task.do # "probe")
            BY <1>1 DEF Awaited
        <3>7. (Restoring(shown))' = Restoring(shown)
            BY <1>1
        <3> QED  BY <1>1, <2>1, <3>1, <3>4, <3>5, <3>6, <3>7 DEF Fit
    <2> QED  BY <1>1, <1>3, <1>6, <2>2, <2>3, Arrives DEF Fit
<1>7. CASE task.do = "create"
    <2>1. platform = "windows" /\ durable' = shown
        BY <1>1, <1>2, <1>7 DEF Awaited
    <2>2. Marking /\ Marking' /\ ~ Moving' /\ step' = "create"
        BY <1>1, <1>7, <2>1 DEF Marking, Moving
    <2>3. Shaped'
        BY <1>1, <2>1, <2>2 DEF UpgradeInv, Shaped, Markings
    <2>4. History'
        BY <1>1, <1>5, <2>2 DEF History
    <2>5. Recording'
        BY <1>1, <2>1, <2>2 DEF UpgradeInv, Recording, layout
    <2>6. Placing' /\ Reported'
        BY <2>2 DEF Placing, Reported
    <2>7. Positioned'
        <3>1. Ahead' => Ahead
            BY <1>1, <2>2 DEF Ahead
        <3>2. Probed' => Probed
            BY <1>1, <2>2 DEF Probed
        <3>3. ~ Synced'
            BY <2>2 DEF Synced
        <3> QED  BY <1>1, <2>2, <3>1, <3>2, <3>3 DEF UpgradeInv, Positioned
    <2> QED  BY <1>3, <2>3, <2>4, <2>5, <2>6, <2>7 DEF UpgradeInv
<1>8. CASE task.do = "move"
    <2>1. platform = "windows" /\ durable' = shown
        BY <1>1, <1>2, <1>8 DEF Awaited
    <2>2. Moving /\ Moving' /\ ~ Marking' /\ step' = "move"
        BY <1>1, <1>8, <2>1 DEF Marking, Moving
    <2>3. Shaped'
        BY <1>1, <2>1, <2>2 DEF UpgradeInv, Shaped, Moves
    <2>4. History'
        BY <1>1, <1>5, <2>2 DEF History
    <2>5. Placing'
        BY <1>1, <2>1, <2>2 DEF UpgradeInv, Placing
    <2>6. Recording' /\ Reported'
        BY <2>2 DEF Recording, Reported
    <2>7. ~ Ahead' /\ ~ Probed' /\ ~ Synced'
        BY <2>2 DEF Ahead, Probed, Synced
    <2>8. Positioned'
        BY <2>2, <2>7 DEF Positioned
    <2> QED  BY <1>3, <2>3, <2>4, <2>5, <2>6, <2>8 DEF UpgradeInv
<1>9. CASE task.do = "archive"
    <2>1. step' = "archive" /\ ~ Marking' /\ ~ Moving'
        BY <1>1, <1>9 DEF Marking, Moving
    <2>2. CommittedFor(shown) \/ RestoredFor(shown)
        BY <1>1, <1>9 DEF UpgradeInv, History
    <2>3. durable'.layout = shown.layout /\ durable'.marks = shown.marks
        <3>1. CASE platform = "windows"
            BY <1>2, <3>1
        <3>2. CASE platform = "unix"
            <4>1. durable.layout = shown.layout
                BY <2>2, <3>2 DEF UpgradeInv, Exchanged, CommittedFor, RestoredFor,
                                  Complete,
                                  Markers, layout
            <4>2. durable' = [durable EXCEPT !.marks = shown.marks]
                BY <1>9, <3>2 DEF Sync
            <4>3. durable \in Disks
                BY DEF UpgradeInv, UpgradeTyped
            <4> QED  BY <4>1, <4>2, <4>3 DEF Disks
        <3> QED  BY <1>1, <3>1, <3>2
    <2>4. History'
        BY <1>1, <1>4, <1>5, <2>1, <2>2, <2>3 DEF History, layout
    <2>5. ~ Ahead' /\ ~ Probed' /\ ~ Synced'
        BY <2>1 DEF Ahead, Probed, Synced
    <2>6. Positioned' /\ Recording' /\ Placing' /\ Reported'
        BY <2>1, <2>5 DEF Positioned, Recording, Placing, Reported
    <2>7. Shaped'
        BY <2>1 DEF Shaped
    <2> QED  BY <1>3, <2>4, <2>6, <2>7 DEF UpgradeInv
<1> QED  BY <1>1, <1>6, <1>7, <1>8, <1>9 DEF Awaited, Plain, Ended

\* A marker as it is written, under its pending name or its own.
LEMMA MarkerWritten ==
    ASSUME UpgradeInv, task.do = "create", step \in {"create", "promote"},
           NEW mark \in {"pending", "complete"},
           shown' = [shown EXCEPT !.marks[task.what] = mark],
           step' = (IF mark = "pending" THEN "promote" ELSE "flush"), task' = task,
           UNCHANGED <<platform, durable, turns, fresh, moved, deaths>>
    PROVE  /\ UpgradeTyped' /\ Shaped' /\ History' /\ Marking /\ Marking'
           /\ task.what \in Markers /\ task.what \notin Complete
           /\ layout' = layout /\ shown'.archived = shown.archived
           /\ shown'.marks = [shown.marks EXCEPT ![task.what] = mark]
           /\ shown.marks \in [Markers -> {"none", "pending", "complete"}]
           /\ ~ shown.archived /\ platform \in {"unix", "windows"}
<1>1. UpgradeTyped /\ platform \in {"unix", "windows"} /\ ~ shown.archived
    BY UpgradeAssumption DEF UpgradeInv, UpgradeTyped, History, Steps
<1>2. Marking /\ Marking' /\ ~ Moving' /\ step' \in {"promote", "flush"}
    BY DEF Marking, Moving
<1>3. <<task.what, task.then>> \in Markings
    BY <1>2 DEF UpgradeInv, Shaped
<1>4. task.what \in Markers
    BY <1>1, <1>3, MarkersNamed
<1>5. task.what \notin Complete
    BY <1>2 DEF UpgradeInv, Recording
<1>6. /\ shown'.layout = shown.layout /\ shown'.archived = shown.archived
      /\ shown'.marks = [shown.marks EXCEPT ![task.what] = mark]
      /\ shown.marks \in [Markers -> {"none", "pending", "complete"}]
      /\ shown' \in Disks
    BY <1>1, <1>4 DEF UpgradeTyped, Disks
<1>7. UpgradeTyped'
    BY <1>1, <1>2, <1>6 DEF UpgradeTyped, Steps
<1>8. Shaped'
    BY <1>1, <1>2, <1>3 DEF Shaped, Markings
<1>9. History'
    BY <1>1, <1>2, <1>6 DEF UpgradeInv, History
<1> QED  BY <1>1, <1>2, <1>4, <1>5, <1>6, <1>7, <1>8, <1>9 DEF layout

\* Where a marker is written, a command stands as it stood.
LEMMA MarkerStands ==
    ASSUME UpgradeInv, task.do = "create", step \in {"create", "promote"},
           step' \in {"promote", "flush"}, task' = task, fresh' = fresh
    PROVE  /\ Ahead' => Ahead
           /\ Probed' => fresh'
           /\ ~ Synced' /\ ~ Moving'
           /\ step' \notin {"sync", "conclude", "installed", "restored"}
<1>1. Probed' => Probed
    BY DEF Probed, Marking
<1> QED  BY <1>1 DEF UpgradeInv, Positioned, Ahead, Marking, Synced, Moving

LEMMA CreateInv ==
    ASSUME UpgradeInv, Create
    PROVE  UpgradeInv'
<1>1. /\ step = "create" /\ task.do = "create" /\ step' = "promote" /\ task' = task
      /\ shown' = [shown EXCEPT !.marks[task.what] = "pending"]
      /\ UNCHANGED <<platform, durable, turns, fresh, moved, deaths>>
    BY DEF Create, Go, UpgradeInv, Shaped
<1>2. /\ UpgradeTyped' /\ Shaped' /\ History' /\ Marking /\ Marking'
      /\ task.what \in Markers /\ task.what \notin Complete
      /\ layout' = layout /\ shown'.archived = shown.archived
      /\ shown'.marks = [shown.marks EXCEPT ![task.what] = "pending"]
      /\ shown.marks \in [Markers -> {"none", "pending", "complete"}]
      /\ ~ shown.archived /\ platform \in {"unix", "windows"}
    BY <1>1, MarkerWritten
<1>3. Complete' = Complete /\ Restoring(shown)' = Restoring(shown)
    BY <1>2 DEF Complete, Restoring, Markers
<1>4. \A p \in Markers : shown'.marks[p] = "complete" <=> shown.marks[p] = "complete"
    BY <1>2 DEF Complete
<1>5. Kept'
    BY <1>1, <1>2, <1>3, <1>4 DEF UpgradeInv, Kept, Markers
<1>6. <<task.what, task.then>> \in Markings
    BY <1>2 DEF UpgradeInv, Shaped
<1>7. Exchanged'
    BY <1>1, <1>2, <1>3, <1>6 DEF UpgradeInv, Exchanged, Markings, Markers
<1>8. Recording'
    BY <1>1, <1>2, <1>3 DEF UpgradeInv, Recording, Marking
<1>9. /\ Ahead' => Ahead
      /\ Probed' => fresh'
      /\ ~ Synced' /\ ~ Moving'
    BY <1>1, MarkerStands
<1>10. Ahead' => (shown.marks["RestoreRequested"] = "none")'
    <2>1. Ahead => shown.marks["RestoreRequested"] = "none"
        BY DEF UpgradeInv, Positioned
    <2>2. task.what = "RestoreRequested" => ~ Ahead'
        BY <1>1 DEF Ahead
    <2> QED  BY <1>2, <1>9, <2>1, <2>2 DEF Markers
<1>11. Positioned'
    BY <1>1, <1>2, <1>3, <1>9, <1>10 DEF UpgradeInv, Positioned
<1>12. Placing' /\ Reported'
    BY <1>1, <1>9 DEF Placing, Reported
<1> QED  BY <1>2, <1>5, <1>7, <1>8, <1>11, <1>12 DEF UpgradeInv

LEMMA PromoteInv ==
    ASSUME UpgradeInv, Legal(layout, Complete, Pending), PromoteMarker
    PROVE  UpgradeInv'
<1>1. /\ step = "promote" /\ task.do = "create" /\ step' = "flush" /\ task' = task
      /\ shown' = [shown EXCEPT !.marks[task.what] = "complete"]
      /\ UNCHANGED <<platform, durable, turns, fresh, moved, deaths>>
    BY DEF PromoteMarker, Go, UpgradeInv, Shaped
<1>2. /\ UpgradeTyped' /\ Shaped' /\ History' /\ Marking /\ Marking'
      /\ task.what \in Markers /\ task.what \notin Complete
      /\ layout' = layout /\ shown'.archived = shown.archived
      /\ shown'.marks = [shown.marks EXCEPT ![task.what] = "complete"]
      /\ shown.marks \in [Markers -> {"none", "pending", "complete"}]
      /\ ~ shown.archived /\ platform \in {"unix", "windows"}
    BY <1>1, MarkerWritten
<1>3. /\ durable.layout = layout /\ durable.archived = shown.archived
      /\ \A p \in Markers \ {task.what} : durable.marks[p] = shown.marks[p]
      /\ platform = "windows" /\ task.what = "RolledBack" => layout = "Original"
      /\ shown.marks[task.what] = "pending"
    BY <1>1, <1>2 DEF UpgradeInv, Recording
<1>4. task.what = "RolledBack" => layout = "Original"
    BY <1>3, LegalRollback DEF UpgradeInv
<1>5. <<task.what, task.then>> \in Markings
    BY <1>2 DEF UpgradeInv, Shaped
<1>6. /\ Ahead' => Ahead
      /\ Probed' => fresh'
      /\ ~ Synced' /\ ~ Moving'
    BY <1>1, MarkerStands
<1>7. task.what \in {"Published", "Replaced", "Verified", "Committed"} =>
        /\ layout = "Published" /\ ~ Restoring(shown) /\ ~ Restoring(shown)'
    BY <1>2 DEF UpgradeInv, Positioned, Ahead, Restoring, Markers
<1>8. Kept'
    <2>1. \A p \in Markers : durable'.marks[p] = "complete" => shown'.marks[p] = "complete"
        BY <1>1, <1>2 DEF UpgradeInv, Kept
    <2>2. durable'.layout = shown'.layout
        BY <1>1, <1>2, <1>3 DEF layout
    <2>3. Restoring(shown)' => task.what \notin {"Verified", "Committed"}
        BY <1>7
    <2>4. Restoring(shown)' =>
             \A p \in {"Verified", "Committed"} :
                shown'.marks[p] = "complete" => durable'.marks[p] = "complete"
        BY <1>1, <1>2, <1>3, <2>3 DEF Markers
    <2> QED  BY <2>1, <2>2, <2>4 DEF Kept, layout
<1>9. Exchanged'
    <2>1. CASE platform = "unix"
        <3>1. task.what # "RestoreRequested"
            BY <1>5, <2>1 DEF Markings
        <3>2. ("RolledBack" \in Complete)' => layout = "Original" /\ durable.layout = "Original"
            BY <1>2, <1>3, <1>4, <2>1 DEF UpgradeInv, Exchanged, Complete, Markers
        <3> QED  BY <1>1, <1>2, <1>3, <2>1, <3>1, <3>2 DEF UpgradeInv, Exchanged, Markers
    <2>2. CASE platform = "windows"
        BY <1>1, <1>2, <1>5, <2>2 DEF UpgradeInv, Exchanged, Markings, Markers
    <2> QED  BY <1>2, <2>1, <2>2
<1>10. Recording'
    BY <1>1, <1>2, <1>3 DEF Recording, Markers
<1>11. Ahead' => /\ layout = "Published" /\ ~ Restoring(shown)'
                 /\ (shown.marks["RestoreRequested"] = "none")'
    <2>1. Ahead' => task.what \in {"Published", "Replaced", "Verified", "Committed"}
        BY <1>1 DEF Ahead
    <2> QED  BY <1>2, <1>6, <1>7, <2>1 DEF UpgradeInv, Positioned, Markers
<1>12. Positioned'
    BY <1>1, <1>2, <1>6, <1>11 DEF Positioned
<1>13. Placing' /\ Reported'
    BY <1>1, <1>6 DEF Placing, Reported
<1> QED  BY <1>2, <1>8, <1>9, <1>10, <1>12, <1>13 DEF UpgradeInv

LEMMA MoveFileInv ==
    ASSUME UpgradeInv, MoveFile
    PROVE  UpgradeInv'
<1>1. /\ step = "move" /\ task.do = "move" /\ step' = "flush" /\ task' = task
      /\ shown' = [shown EXCEPT !.layout = task.what]
      /\ UNCHANGED <<platform, durable, turns, fresh, moved, deaths>>
      /\ UpgradeTyped /\ platform \in {"unix", "windows"} /\ ~ shown.archived
    BY UpgradeAssumption DEF MoveFile, Go, UpgradeInv, Shaped, UpgradeTyped, History, Steps
<1>2. Moving /\ Moving' /\ ~ Marking'
    BY <1>1 DEF Moving, Marking
<1>3. <<task.what, task.then>> \in Moves
    BY <1>2 DEF UpgradeInv, Shaped
<1>4. task.what \in Layouts
    BY <1>1, <1>3 DEF Moves, Layouts
<1>5. /\ layout' = task.what /\ shown'.archived = shown.archived /\ shown'.marks = shown.marks
      /\ shown' \in Disks
    BY <1>1, <1>4 DEF UpgradeTyped, Disks, layout
<1>6. Restoring(shown)' = Restoring(shown) /\ Complete' = Complete
    BY <1>5 DEF Restoring, Complete
<1>7. task.what = "Published" =>
        /\ ~ Restoring(shown) /\ shown.marks["RestoreRequested"] = "none"
        /\ platform = "unix" => Complete = {}
    BY <1>2 DEF UpgradeInv, Placing
<1>8. UpgradeTyped'
    BY <1>1, <1>5 DEF UpgradeTyped, Steps
<1>9. Shaped'
    BY <1>1, <1>2, <1>3 DEF Shaped, Moves
<1>10. Kept'
    BY <1>1, <1>5, <1>6, <1>7 DEF UpgradeInv, Kept
<1>11. History'
    BY <1>1, <1>5 DEF UpgradeInv, History
<1>12. Exchanged'
    BY <1>1, <1>3, <1>5, <1>6, <1>7 DEF UpgradeInv, Exchanged, Moves
<1>13. Placing'
    BY <1>1, <1>5, <1>6, <1>7 DEF Placing
<1>14. ~ Ahead' /\ ~ Probed' /\ ~ Synced'
    BY <1>1, <1>2 DEF Ahead, Probed, Synced
<1>15. Recording' /\ Positioned' /\ Reported'
    BY <1>1, <1>2, <1>14 DEF Recording, Positioned, Reported
<1> QED  BY <1>8, <1>9, <1>10, <1>11, <1>12, <1>13, <1>15 DEF UpgradeInv

\* A flush, of a move or of a marker, leaves nothing behind.
LEMMA FlushKeeps ==
    ASSUME UpgradeInv, Flush
    PROVE  /\ durable' \in Disks
           /\ durable'.layout = shown.layout /\ durable'.marks = shown.marks
           /\ durable'.archived = shown.archived
<1>1. shown \in Disks /\ durable \in Disks /\ step = "flush" /\ task.do \in {"create", "move"}
    BY DEF UpgradeInv, UpgradeTyped, Shaped, Flush
<1>2. CASE task.do = "move"
    BY <1>1, <1>2 DEF Flush
<1>3. CASE task.do = "create"
    <2>1. durable.layout = shown.layout /\ durable.archived = shown.archived
        BY <1>1, <1>3 DEF UpgradeInv, Recording, Marking, layout
    <2>2. durable' = [durable EXCEPT !.marks = shown.marks]
        BY <1>3 DEF Flush
    <2> QED  BY <1>1, <2>1, <2>2 DEF Disks
<1> QED  BY <1>1, <1>2, <1>3

LEMMA FlushInv ==
    ASSUME UpgradeInv, Flush
    PROVE  UpgradeInv'
<1>1. /\ step = "flush" /\ step' = task.then /\ task' = task /\ shown' = shown
      /\ UNCHANGED <<platform, turns, fresh, moved, deaths>>
      /\ UpgradeTyped /\ platform \in {"unix", "windows"} /\ ~ shown.archived
      /\ layout' = layout /\ Complete' = Complete
    BY UpgradeAssumption
    DEF Flush, Go, UpgradeInv, UpgradeTyped, History, Steps, layout, Complete
<1>2. /\ durable' \in Disks
      /\ durable'.layout = shown.layout /\ durable'.marks = shown.marks
      /\ durable'.archived = shown.archived
    BY FlushKeeps
<1>3. \/ Marking /\ <<task.what, task.then>> \in Markings
      \/ Moving /\ <<task.what, task.then>> \in Moves
    BY <1>1 DEF UpgradeInv, Shaped, Marking, Moving
<1>4. task.then \in Plain
    BY <1>1, <1>3 DEF Markings, Moves, Plain, Ended
<1>5. UpgradeTyped'
    BY <1>1, <1>2, <1>4 DEF UpgradeTyped, Plain, Ended, Steps
<1>6. Kept'
    BY <1>1, <1>2 DEF Kept, layout
<1>7. Exchanged'
    BY <1>1, <1>2 DEF UpgradeInv, Exchanged, layout
<1>8. History'
    BY <1>1, <1>2, <1>4 DEF History, Plain, Ended
<1>9. Same(shown, durable)' /\ Restoring(shown)' = Restoring(shown)
    BY <1>1, <1>2 DEF Same
<1>10. CASE Marking /\ <<task.what, task.then>> \in Markings
    <2>1. shown.marks[task.what] = "complete"
        BY <1>1, <1>10 DEF UpgradeInv, Recording
    <2>2. task.what \in {"Published", "Replaced", "Verified", "Committed"} =>
            /\ layout = "Published" /\ ~ Restoring(shown)
            /\ shown.marks["RestoreRequested"] = "none"
        BY <1>10 DEF UpgradeInv, Positioned, Ahead
    <2>3. task.what \in {"Verified", "Committed"} => fresh
        BY <1>10 DEF UpgradeInv, Positioned, Probed
    <2>4. task.what = "Committed" => "Committed" \in Complete
        BY <2>1 DEF Complete, Markers
    <2>5. platform = "unix" /\ task.what = "RolledBack" => RestoredFor(shown)
        BY <2>1 DEF UpgradeInv, Exchanged, Complete, Markers, RestoredFor, layout
    <2>6. task.then = "restored" => RestoredFor(durable)'
        BY <1>1, <1>2, <1>10, <2>5 DEF Markings, RestoredFor
    <2>7. Fit(task.then)'
        BY <1>1, <1>9, <1>10, <2>2, <2>3, <2>4, <2>6 DEF Fit, Markings
    <2> QED  BY <1>1, <1>4, <1>5, <1>6, <1>7, <1>8, <2>7, Arrives DEF Fit
<1>11. CASE Moving /\ <<task.what, task.then>> \in Moves
    <2>1. task.what = "Published" =>
            /\ layout = "Published" /\ ~ Restoring(shown)
            /\ shown.marks["RestoreRequested"] = "none"
        BY <1>1, <1>11 DEF UpgradeInv, Placing
    <2>2. Fit(task.then)'
        BY <1>1, <1>9, <1>11, <2>1 DEF Fit, Moves
    <2> QED  BY <1>1, <1>4, <1>5, <1>6, <1>7, <1>8, <2>2, Arrives DEF Fit
<1> QED  BY <1>3, <1>10, <1>11

LEMMA ArchiveInv ==
    ASSUME UpgradeInv, Archive
    PROVE  UpgradeInv'
<1>1. /\ step = "archive" /\ step' = "history" /\ task' = task
      /\ shown' = [shown EXCEPT !.archived = TRUE]
      /\ UNCHANGED <<platform, durable, turns, fresh, moved, deaths>>
      /\ UpgradeTyped
    BY DEF Archive, Go, UpgradeInv
<1>2. /\ shown'.layout = shown.layout /\ shown'.marks = shown.marks /\ shown'.archived = TRUE
      /\ shown' \in Disks
    BY <1>1 DEF UpgradeTyped, Disks
<1>3. /\ layout' = layout /\ Complete' = Complete /\ Restoring(shown)' = Restoring(shown)
      /\ CommittedFor(shown)' = CommittedFor(shown) /\ RestoredFor(shown)' = RestoredFor(shown)
    BY <1>2 DEF layout, Complete, Restoring, CommittedFor, RestoredFor
<1>4. UpgradeTyped'
    BY <1>1, <1>2 DEF UpgradeTyped, Steps
<1>5. ~ Marking' /\ ~ Moving' /\ ~ Ahead' /\ ~ Probed' /\ ~ Synced'
    BY <1>1 DEF Marking, Moving, Ahead, Probed, Synced
<1>6. Shaped' /\ Recording' /\ Placing' /\ Positioned' /\ Reported'
    BY <1>1, <1>5 DEF Shaped, Recording, Placing, Positioned, Reported
<1>7. Kept' /\ Exchanged'
    BY <1>1, <1>2, <1>3 DEF UpgradeInv, Kept, Exchanged
<1>8. History'
    BY <1>1, <1>2, <1>3 DEF UpgradeInv, History
<1> QED  BY <1>4, <1>6, <1>7, <1>8 DEF UpgradeInv

LEMMA SyncHistoryInv ==
    ASSUME UpgradeInv, SyncHistory
    PROVE  UpgradeInv'
<1>1. /\ step = "history" /\ step' = "retired" /\ task' = task
      /\ durable' = shown /\ shown' = shown
      /\ UNCHANGED <<platform, turns, fresh, moved, deaths>>
      /\ UpgradeTyped /\ shown.archived
    BY DEF SyncHistory, Go, UpgradeInv, History
<1>2. /\ layout' = layout /\ Complete' = Complete
      /\ CommittedFor(shown)' = CommittedFor(shown) /\ RestoredFor(shown)' = RestoredFor(shown)
    BY <1>1 DEF layout, Complete
<1>3. UpgradeTyped'
    BY <1>1 DEF UpgradeTyped, Ended
<1>4. ~ Marking' /\ ~ Moving' /\ ~ Ahead' /\ ~ Probed' /\ ~ Synced'
    BY <1>1 DEF Marking, Moving, Ahead, Probed, Synced
<1>5. Shaped' /\ Recording' /\ Placing' /\ Positioned' /\ Reported'
    BY <1>1, <1>4 DEF Shaped, Recording, Placing, Positioned, Reported
<1>6. Kept' /\ Exchanged'
    BY <1>1, <1>2 DEF UpgradeInv, Kept, Exchanged, layout
<1>7. History'
    BY <1>1, <1>2 DEF UpgradeInv, History, layout, Steps
<1> QED  BY <1>3, <1>5, <1>6, <1>7 DEF UpgradeInv

-----------------------------------------------------------------------------
(***************************************************************************)
(* Commands begin, die, and lose what they did not synchronize.            *)
(***************************************************************************)
LEMMA AttemptInv ==
    ASSUME UpgradeInv, Attempt
    PROVE  UpgradeInv'
<1>0. /\ ~ shown.archived /\ FilesKept /\ turns' = 0 /\ fresh' = FALSE
      /\ Go(IF moved THEN "refused" ELSE IF platform = "windows" THEN "placement" ELSE "reopen")
    BY Zenon DEF Attempt
<1>1. /\ ~ shown.archived /\ FilesKept /\ turns' \in 0 .. 5 /\ fresh' \in BOOLEAN
      /\ platform \in {"unix", "windows"} /\ platform' = platform
    <2>1. fresh' \in BOOLEAN
        BY <1>0, Zenon
    <2>2. turns' \in 0 .. 5 /\ platform' = platform
        BY <1>0 DEF FilesKept
    <2>3. platform \in {"unix", "windows"}
        BY UpgradeAssumption DEF UpgradeInv, UpgradeTyped
    <2> QED  BY <1>0, <2>1, <2>2, <2>3
<1>2. /\ moved => Go("refused")
      /\ ~ moved /\ platform = "windows" => Go("placement")
      /\ ~ moved /\ platform = "unix" => Go("reopen")
    BY <1>0
<1>3. CASE moved
    <2>1. RefuseUpgrade
        BY <1>1, <1>2, <1>3 DEF RefuseUpgrade, Decide
    <2> QED  BY <1>1, <2>1, Refuses
<1>4. CASE ~ moved /\ platform = "windows"
    <2>1. Decide("placement") /\ Fit("placement")'
        BY <1>1, <1>2, <1>4 DEF Decide, Fit
    <2> QED  BY <1>1, <2>1, Decides DEF Plain
<1>5. CASE ~ moved /\ platform = "unix"
    <2>1. Decide("reopen") /\ Fit("reopen")'
        BY <1>1, <1>2, <1>5 DEF Decide, Fit
    <2> QED  BY <1>1, <2>1, Decides DEF Plain
<1> QED  BY <1>1, <1>3, <1>4, <1>5

LEMMA RetireInv ==
    ASSUME UpgradeInv, Retire
    PROVE  UpgradeInv'
<1>1. /\ UpgradeTyped /\ ~ shown.archived /\ turns' \in 0 .. 5 /\ fresh' \in BOOLEAN
      /\ platform \in {"unix", "windows"}
      /\ Legal(layout, Complete, Pending) /\ Terminal /\ SyncThen("archive")
    BY UpgradeAssumption DEF Retire, UpgradeInv, UpgradeTyped
<1>2. layout # "Original" => shown.marks["RolledBack"] = "none"
    BY <1>1, LegalRollback
<1>3. CommittedFor(shown) \/ RestoredFor(shown)
    <2>1. CASE platform = "unix"
        <3>1. shown.marks["RestoreRequested"] = "none"
            BY <2>1 DEF UpgradeInv, Exchanged
        <3> QED  BY <1>1, <1>2, <2>1, <3>1
                 DEF Terminal, CommittedFor, RestoredFor, Restoring, Complete,
                     layout
    <2>2. CASE platform = "windows"
        <3>1. CASE "RolledBack" \in Complete /\ layout = "Original"
            BY <3>1 DEF RestoredFor, Complete, layout
        <3>2. CASE /\ "Committed" \in Complete /\ layout = "Published"
                   /\ "RestoreRequested" \notin Complete \cup Pending
            <4>1. shown.marks["RestoreRequested"] = "none"
                BY <1>1, <3>2 DEF UpgradeTyped, Disks, Markers, Complete, Pending
            <4> QED  BY <1>2, <3>2, <4>1 DEF CommittedFor, Restoring, Complete, layout
        <3> QED  BY <1>1, <2>2, <3>1, <3>2 DEF Terminal
    <2> QED  BY <1>1, <2>1, <2>2
<1> QED  BY <1>1, <1>3, SyncThens DEF Awaited

LEMMA HistorySyncInv ==
    ASSUME UpgradeInv, HistorySync
    PROVE  UpgradeInv'
<1>1. /\ step' = "history" /\ FilesKept /\ task' = task /\ shown.archived
      /\ UNCHANGED <<turns, fresh>> /\ UpgradeTyped
    BY DEF HistorySync, Decide, Go, UpgradeInv
<1>2. UpgradeTyped'
    BY <1>1 DEF UpgradeTyped, FilesKept, Steps
<1>3. ~ Marking' /\ ~ Moving' /\ ~ Ahead' /\ ~ Probed' /\ ~ Synced'
    BY <1>1 DEF Marking, Moving, Ahead, Probed, Synced
<1>4. Shaped' /\ Recording' /\ Placing' /\ Positioned' /\ Reported'
    BY <1>1, <1>3 DEF Shaped, Recording, Placing, Positioned, Reported
<1>5. CommittedFor(shown)' = CommittedFor(shown) /\ RestoredFor(shown)' = RestoredFor(shown)
    BY <1>1 DEF FilesKept
<1>6. History'
    BY <1>1, <1>5, FilesStay DEF UpgradeInv, History, FilesKept
<1> QED  BY <1>1, <1>2, <1>4, <1>6, FilesStay DEF UpgradeInv

LEMMA DeathInv ==
    ASSUME UpgradeInv, Death
    PROVE  UpgradeInv'
<1>1. /\ step' = "idle" /\ task' = NoTask /\ turns' = 0 /\ fresh' = FALSE
      /\ shown' = shown /\ durable' = durable /\ platform' = platform
      /\ deaths \in Nat /\ deaths < MaxDeaths /\ deaths' = deaths + 1 /\ moved' = moved
      /\ UpgradeTyped
    BY UpgradeAssumption DEF Death, Dies, UpgradeInv, UpgradeTyped
<1>2. layout' = layout /\ Complete' = Complete /\ Restoring(shown)' = Restoring(shown)
      /\ CommittedFor(shown)' = CommittedFor(shown) /\ RestoredFor(shown)' = RestoredFor(shown)
    BY <1>1 DEF layout, Complete
<1>3. UpgradeTyped'
    <2>1. task' \in [do : {"none"} \cup Steps \cup Ended,
                    what : {"none"} \cup Markers \cup Layouts, then : Steps \cup Ended]
        BY <1>1 DEF NoTask, Ended
    <2>2. step' \in Ended \cup Steps /\ turns' \in 0 .. 5 /\ deaths' \in 0 .. MaxDeaths
        BY <1>1, UpgradeAssumption DEF Ended
    <2> QED  BY <1>1, <2>1, <2>2 DEF UpgradeTyped
<1>4. Kept' /\ Exchanged'
    BY <1>1, <1>2 DEF UpgradeInv, Kept, Exchanged
<1>5. History'
    BY <1>1, <1>2 DEF UpgradeInv, History, Steps
<1>6. Fit("idle")' /\ "idle" \in Plain
    BY DEF Fit, Plain, Ended
<1> QED  BY <1>1, <1>3, <1>4, <1>5, <1>6, Arrives

LEMMA ChangeStateInv ==
    ASSUME UpgradeInv, ChangeState
    PROVE  UpgradeInv'
<1>1. /\ step \in Ended
      /\ moved' = TRUE /\ UNCHANGED <<platform, shown, durable, step, task, turns, fresh, deaths>>
      /\ layout' = layout /\ Complete' = Complete
    BY DEF ChangeState, layout, Complete
<1>2. UpgradeTyped'
    BY <1>1 DEF UpgradeInv, UpgradeTyped
<1>3. Kept' /\ Exchanged' /\ History'
    BY <1>1 DEF UpgradeInv, Kept, Exchanged, History
<1>4. Marking' = Marking /\ Moving' = Moving /\ Ahead' = Ahead /\ Probed' = Probed
      /\ Synced' = Synced
    BY <1>1 DEF Marking, Moving, Ahead, Probed, Synced
<1>5. Shaped' /\ Recording' /\ Placing'
    BY <1>1, <1>4 DEF UpgradeInv, Shaped, Recording, Placing, Markings, Moves, Awaited
<1>6. Positioned' /\ Reported'
    BY <1>1, <1>4 DEF UpgradeInv, Positioned, Reported
<1> QED  BY <1>2, <1>3, <1>5, <1>6 DEF UpgradeInv

\* What a power loss leaves: of each part what was there or what was synchronized.
LEMMA LossLeaves ==
    ASSUME UpgradeInv, PowerLoss
    PROVE  /\ step' = "idle" /\ task' = NoTask /\ turns' = 0 /\ fresh' = FALSE
           /\ deaths' = deaths + 1 /\ deaths < MaxDeaths
           /\ platform' = platform /\ moved' = moved
           /\ durable' = shown' /\ shown' \in Disks
           /\ shown'.layout \in {shown.layout, durable.layout}
           /\ shown'.archived \in {shown.archived, durable.archived}
           /\ \A p \in Markers :
                /\ shown'.marks[p] = "complete" => shown.marks[p] = "complete"
                /\ durable.marks[p] = "complete" => shown'.marks[p] = "complete"
                /\ shown.marks[p] = durable.marks[p] => shown'.marks[p] = shown.marks[p]
<1>1. /\ shown \in Disks /\ durable \in Disks
      /\ \A p \in Markers : durable.marks[p] = "complete" => shown.marks[p] = "complete"
    BY DEF UpgradeInv, UpgradeTyped, Kept
<1>2. /\ step' = "idle" /\ task' = NoTask /\ turns' = 0 /\ fresh' = FALSE
      /\ deaths' = deaths + 1 /\ deaths < MaxDeaths
      /\ platform' = platform /\ moved' = moved /\ durable' = shown'
    BY DEF PowerLoss, Dies
<1>3. PICK l \in {shown.layout, durable.layout}, a \in {shown.archived, durable.archived},
           lost \in SUBSET {p \in Markers : shown.marks[p] # durable.marks[p]} :
        \E half \in SUBSET {p \in lost : shown.marks[p] = "complete"} :
          shown' = [layout |-> l, archived |-> a,
                   marks |-> [p \in Markers |-> IF p \in half THEN "pending"
                                               ELSE IF p \in lost THEN durable.marks[p]
                                               ELSE shown.marks[p]]]
    BY DEF PowerLoss
<1>4. PICK half \in SUBSET {p \in lost : shown.marks[p] = "complete"} :
          shown' = [layout |-> l, archived |-> a,
                   marks |-> [p \in Markers |-> IF p \in half THEN "pending"
                                               ELSE IF p \in lost THEN durable.marks[p]
                                               ELSE shown.marks[p]]]
    BY <1>3
<1>5. shown'.layout = l /\ shown'.archived = a
    BY <1>4
<1>6. shown'.marks = [p \in Markers |-> IF p \in half THEN "pending"
                                      ELSE IF p \in lost THEN durable.marks[p]
                                      ELSE shown.marks[p]]
    BY <1>4
<1>7. \A p \in Markers : shown'.marks[p] = IF p \in half THEN "pending"
                                         ELSE IF p \in lost THEN durable.marks[p]
                                         ELSE shown.marks[p]
    BY <1>6
<1>8. \A p \in Markers :
        /\ p \in half => shown.marks[p] = "complete" /\ shown.marks[p] # durable.marks[p]
        /\ p \in lost => shown.marks[p] # durable.marks[p]
    OBVIOUS
<1>9. \A p \in Markers :
        /\ shown'.marks[p] = "complete" => shown.marks[p] = "complete"
        /\ durable.marks[p] = "complete" => shown'.marks[p] = "complete"
        /\ shown.marks[p] = durable.marks[p] => shown'.marks[p] = shown.marks[p]
    BY <1>1, <1>7, <1>8
<1>10. shown' \in Disks
    <2>1. l \in Layouts /\ a \in BOOLEAN
        BY <1>1, <1>3 DEF Disks
    <2>2. shown'.marks \in [Markers -> {"none", "pending", "complete"}]
        BY <1>1, <1>6 DEF Disks
    <2>3. shown' = [layout |-> l, marks |-> shown'.marks, archived |-> a]
        BY <1>4
    <2> QED  BY <2>1, <2>2, <2>3 DEF Disks
<1> QED  BY <1>2, <1>3, <1>5, <1>9, <1>10

LEMMA PowerLossInv ==
    ASSUME UpgradeInv, PowerLoss
    PROVE  UpgradeInv'
<1>1. /\ step' = "idle" /\ task' = NoTask /\ turns' = 0 /\ fresh' = FALSE
      /\ deaths' = deaths + 1 /\ deaths < MaxDeaths
      /\ platform' = platform /\ moved' = moved
      /\ durable' = shown' /\ shown' \in Disks
      /\ shown'.layout \in {shown.layout, durable.layout}
      /\ shown'.archived \in {shown.archived, durable.archived}
      /\ \A p \in Markers :
           /\ shown'.marks[p] = "complete" => shown.marks[p] = "complete"
           /\ durable.marks[p] = "complete" => shown'.marks[p] = "complete"
           /\ shown.marks[p] = durable.marks[p] => shown'.marks[p] = shown.marks[p]
    BY LossLeaves
<1>2. UpgradeTyped
    BY DEF UpgradeInv
<1>3. UpgradeTyped'
    <2>1. task' \in [do : {"none"} \cup Steps \cup Ended,
                    what : {"none"} \cup Markers \cup Layouts, then : Steps \cup Ended]
        BY <1>1 DEF NoTask, Ended
    <2>2. step' \in Ended \cup Steps /\ turns' \in 0 .. 5 /\ deaths' \in 0 .. MaxDeaths
        BY <1>1, <1>2, UpgradeAssumption DEF Ended, UpgradeTyped
    <2> QED  BY <1>1, <1>2, <2>1, <2>2 DEF UpgradeTyped
<1>4. Kept'
    BY <1>1 DEF Kept, Markers, layout
<1>5. Exchanged'
    BY <1>1 DEF UpgradeInv, Exchanged, Complete, Markers, layout
<1>6. History'
    <2>1. step' \notin Steps /\ step' # "retired"
        BY <1>1 DEF Steps
    <2>2. ASSUME shown'.archived PROVE CommittedFor(shown)' \/ RestoredFor(shown)'
        <3>1. shown.archived
            BY <1>1, <2>2 DEF UpgradeInv, History
        <3>2. durable.layout = shown.layout /\ durable.marks = shown.marks
            BY <3>1 DEF UpgradeInv, History, layout
        <3>3. CommittedFor(shown) \/ RestoredFor(shown)
            BY <3>1 DEF UpgradeInv, History
        <3>4. shown'.layout = shown.layout /\ \A p \in Markers : shown'.marks[p] = shown.marks[p]
            BY <1>1, <3>2
        <3> QED  BY <3>3, <3>4 DEF CommittedFor, RestoredFor, Restoring, Markers
    <2> QED  BY <1>1, <2>1, <2>2 DEF History, layout, Steps
<1>7. Fit("idle")' /\ "idle" \in Plain
    BY DEF Fit, Plain, Ended
<1> QED  BY <1>1, <1>3, <1>4, <1>5, <1>6, <1>7, Arrives

-----------------------------------------------------------------------------
LEMMA UpgradeKept == UpgradeInv /\ [UpgradeNext]_upgradeVars => UpgradeInv'
<1> SUFFICES ASSUME UpgradeInv, [UpgradeNext]_upgradeVars PROVE UpgradeInv'  OBVIOUS
<1>1. CASE UpgradeStep
    <2>1. CASE Attempt
        BY <2>1, AttemptInv
    <2>2. CASE RefuseUpgrade /\ UNCHANGED <<turns, fresh>>
        BY <2>2, Refuses DEF UpgradeInv, UpgradeTyped
    <2>3. CASE /\ Legal(layout, Complete, Pending)
               /\ \/ Reopen \/ Placement \/ RecordRetention \/ Publish \/ RecordReplacement \/ Probe
                  \/ RecordVerified \/ RecordCommitted \/ Conclude \/ RecordRollback
                  \/ Sync \/ Create \/ PromoteMarker \/ MoveFile \/ Flush \/ Archive \/ SyncHistory
        BY <2>3, ReopenInv, PlacementInv, RetentionInv, PublishInv, RecordReplacementInv,
           ProbeInv,
           RecordVerifiedInv, RecordCommittedInv, ConcludeInv, RecordRollbackInv, SyncInv,
           CreateInv, PromoteInv, MoveFileInv, FlushInv, ArchiveInv, SyncHistoryInv
    <2> QED  BY <1>1, <2>1, <2>2, <2>3 DEF UpgradeStep
<1>2. CASE Retire
    BY <1>2, RetireInv
<1>3. CASE HistorySync
    BY <1>3, HistorySyncInv
<1>4. CASE Death
    BY <1>4, DeathInv
<1>5. CASE PowerLoss
    BY <1>5, PowerLossInv
<1>6. CASE ChangeState
    BY <1>6, ChangeStateInv
<1>7. CASE UNCHANGED upgradeVars
    <2>1. UNCHANGED <<platform, shown, durable, step, task, turns, fresh, moved, deaths>>
        BY <1>7 DEF upgradeVars
    <2> QED  BY <2>1
             DEF UpgradeInv, UpgradeTyped, Shaped, Kept, History, Exchanged, Recording, Placing,
                 Positioned, Reported, Marking, Moving, Markings, Moves, Awaited, Ahead, Probed,
                 Synced, Same, layout, Complete
<1> QED  BY <1>1, <1>2, <1>3, <1>4, <1>5, <1>6, <1>7 DEF UpgradeNext, Finished

(***************************************************************************)
(* Every reachable state satisfies the invariant, and by it what a command *)
(* reports and what the history holds survives a power loss.               *)
(***************************************************************************)
LEMMA UpgradeHolds == UpgradeSpec => []UpgradeInv
<1> QED  BY UpgradeStart, UpgradeKept, PTL DEF UpgradeSpec

LEMMA ReportsAreDurable == UpgradeInv => OutcomeIsDurable
<1> SUFFICES ASSUME UpgradeInv PROVE OutcomeIsDurable  OBVIOUS
<1>1. shown.archived => CommittedFor(durable) \/ RestoredFor(durable)
    <2>1. SUFFICES ASSUME shown.archived PROVE CommittedFor(durable) \/ RestoredFor(durable)
        OBVIOUS
    <2>2. /\ durable.layout = shown.layout /\ durable.marks = shown.marks
          /\ CommittedFor(shown) \/ RestoredFor(shown)
        BY <2>1 DEF UpgradeInv, History, layout
    <2> QED  BY <2>2 DEF CommittedFor, RestoredFor, Restoring
<1> QED  BY <1>1 DEF UpgradeInv, History, Reported, OutcomeIsDurable

\* What a command reports, and what the history holds, is on the disk for good.
THEOREM OutcomesSurvive == UpgradeSpec => []OutcomeIsDurable
<1> QED  BY UpgradeHolds, ReportsAreDurable, PTL

\* A step from a recorded restoration, whatever it synchronizes or loses.
LEMMA IntentStep ==
    ASSUME UpgradeInv, UpgradeNext, Restoring(durable)
    PROVE  /\ Restoring(durable')
           /\ durable.layout # "Published" => durable'.layout # "Published"
           /\ \A p \in {"Verified", "Committed"} :
                durable'.marks[p] = "complete" => durable.marks[p] = "complete"
<1>1. /\ Restoring(shown)
      /\ durable.layout # "Published" => shown.layout # "Published"
      /\ \A p \in {"Verified", "Committed"} :
            shown.marks[p] = "complete" => durable.marks[p] = "complete"
    BY DEF UpgradeInv, Kept, Restoring, Markers, layout
<1>2. CASE durable' = durable
    BY <1>2
<1>3. CASE durable'.layout \in {shown.layout, durable.layout} /\ durable'.marks = shown.marks
    BY <1>1, <1>3 DEF Restoring
<1>4. CASE PowerLoss
    BY <1>1, <1>4, LossLeaves DEF Restoring, Markers
<1>5. Sync \/ Flush \/ SyncHistory =>
        durable'.layout \in {shown.layout, durable.layout} /\ durable'.marks = shown.marks
    <2>1. shown \in Disks /\ durable \in Disks
        BY DEF UpgradeInv, UpgradeTyped
    <2> QED  BY <2>1, FlushKeeps DEF Sync, SyncHistory, Disks
<1>6. UpgradeNext /\ ~ PowerLoss /\ ~ Sync /\ ~ Flush /\ ~ SyncHistory => durable' = durable
    BY DEF UpgradeNext, UpgradeStep, Attempt, Retire, HistorySync, Death, ChangeState,
           Finished, upgradeVars, Reopen,
           Placement, RecordRetention, Publish, RecordReplacement, Probe, RecordVerified,
           RecordCommitted, Conclude, RecordRollback, Create, PromoteMarker, MoveFile,
           Archive,
           RefuseUpgrade, Decide, SyncThen, Record, RecordOnce, MoveTo, FilesKept
<1> QED  BY <1>2, <1>3, <1>4, <1>5, <1>6

\* Once the intent to restore the prior is durable, no step of any command, crash or
\* power loss puts the candidate back or has it verified or committed.
THEOREM IntentIsHonored == UpgradeSpec => IntentHonored
<1>1. UpgradeInv /\ [UpgradeNext]_upgradeVars =>
        [Restoring(durable) =>
           /\ Restoring(durable')
           /\ durable.layout # "Published" => durable'.layout # "Published"
           /\ \A p \in {"Verified", "Committed"} :
                durable'.marks[p] = "complete" => durable.marks[p] = "complete"]_upgradeVars
    <2> SUFFICES ASSUME UpgradeInv, UpgradeNext, Restoring(durable)
                 PROVE  /\ Restoring(durable')
                        /\ durable.layout # "Published" => durable'.layout # "Published"
                        /\ \A p \in {"Verified", "Committed"} :
                             durable'.marks[p] = "complete" => durable.marks[p] = "complete"
        OBVIOUS
    <2> QED  BY IntentStep
<1> QED  BY <1>1, UpgradeHolds, PTL DEF UpgradeSpec, IntentHonored
=============================================================================
