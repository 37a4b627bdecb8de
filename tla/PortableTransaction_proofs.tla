--------------------- MODULE PortableTransaction_proofs ---------------------
(***************************************************************************)
(* Theorems about PortableTransaction, for every set of kinds and any      *)
(* number of edits and crashes, also inside a write, with both kinds of    *)
(* replacement.                                                            *)
(***************************************************************************)
EXTENDS PortableTransaction, SequenceTheorems, TLAPS

Labels == Steps \cup {"idle", "stale", "blocked", "done"}

(***************************************************************************)
(* The inductive invariant, in parts: what holds of the files whatever the *)
(* attempt is about, what the position of the attempt adds to it, and what *)
(* a replacement that has begun relies on.                                 *)
(***************************************************************************)
New(c) == control[c].dst = "new"

\* A file that was committed is as it was then, or as an editor left it.
Past(c) == control[c].dst \in {"new", "foreign"}

JournalThere == journal.dst # None \/ journal.bak # None

\* Only staging files are ever torn, and what is parked is never new.
Untorn ==
    /\ \A c \in Control : control[c].dst # Torn /\ control[c].bak \notin {Torn, "new"}
    /\ aside.bak \notin {Torn, "new"}
    /\ journal.dst # Torn /\ journal.bak # Torn

\* What an editor wrote stays where it was written.
Edited ==
    /\ \A c \in theirs : control[c].dst = "foreign"
    /\ \A c \in Control : control[c].dst = "foreign" =>
          edits # 0 /\ (c \in theirs \/ (c = "lock" /\ bound.lock = "foreign"))
    /\ bound.lock = "foreign" => "lock" \notin theirs /\ edits # 0

\* A journal knows the objects that were there; a new manifest has its objects.
Found ==
    /\ had \subseteq installed
    /\ Held(journal) # {None} => had \subseteq bound.pre
    /\ New("manifest") /\ kind \notin {"repair", "lock"} => installed = Objects

InOrder ==
    /\ New("lock") => Past("manifest")
    /\ New("state") => Past("lock") /\ kind = "update" /\ ~ early
    /\ kind \in {"repair", "lock"} => Past("manifest")
    /\ early => ~ target

(***************************************************************************)
(* The kinds that start from a lock that is derived from the manifest.     *)
(* Unless an editor interfered, their files are missing only in the middle *)
(* of a replacement, and they disagree only while the journal is there.    *)
(***************************************************************************)
Paired == kind \in {"manifest", "update", "explicit"}

Shape(manifest, lock, copy, there) ==
    /\ manifest.dst \in {None, "old", "new"} /\ lock.dst \in {None, "old", "new"}
    /\ manifest.dst = None => manifest.stg = "new" /\ manifest.bak = "old"
    /\ lock.dst = None => \/ lock.stg = "new" /\ lock.bak = "old"
                          \/ copy.stg = "new" /\ copy.bak = "old"
    /\ ~ there => /\ manifest.dst # None /\ lock.dst # None
                  /\ manifest.dst = "new" => lock.dst = "new"

Pair ==
    Paired => /\ bound.lock = "old"
              /\ theirs = {} =>
                    Shape(control["manifest"], control["lock"], aside, JournalThere)

Durable == Untorn /\ Edited /\ Found /\ InOrder /\ Pair

\* Between the attempts, and while a plan is not bound yet.
Unbound == {"idle", "stale", "blocked", "check", "done"}

PastLock     == {"advanceLock", "commitState", "advanceState", "verify", "advanceVerified",
                 "advanceComplete", "finish", "recoverVerify", "recoverState", "cleanForward"}
PastManifest == PastLock \cup {"advanceManifest", "commitLock", "recoverLock", "installRecovered"}

\* The labels at which the journal is on disk.
Under == Steps \ {"check", "packObjects", "prepare", "stageManifest", "stageLock", "stageState",
                  "stageJournal", "firstJournal", "dropPending", "cleanBack", "cleanForward"}

\* What holds, besides, when the attempt stands at l.
Position(l) ==
    /\ l \notin Unbound => had \subseteq bound.pre
    /\ l = "cleanBack" /\ kind \notin {"repair", "lock"} => ~ New("manifest")
    /\ l \in {"advanceObjects", "revalidateManifest", "commitManifest"} => installed = Objects
    /\ kind = "manifest" =>
          /\ l # "prepare"
          /\ l \in {"stageManifest", "stageLock", "stageState", "stageJournal", "firstJournal"}
                => installed = Objects
    /\ l \in PastManifest => Past("manifest")
    /\ l \in PastLock => Past("lock")
    /\ Paired /\ theirs = {} =>
          /\ l \in {"reconcileState", "direct", "cleanBack"} => control["lock"].dst # None
          /\ l \in {"reconcileLock", "reconcileState", "direct", "cleanBack"}
                => control["manifest"].dst # None

Covered(l) == l \in Under => JournalThere

\* A replacement that has begun: the live file is new, or about to be placed.
Mid(f, t) == f.dst \in {None, t} /\ (f.dst = None => f.stg = t)

Aim(l) == CASE l = "firstJournal"    -> Prepared
            [] l = "advanceObjects"  -> ObjectsInstalled
            [] l = "advanceManifest" -> ManifestCommitted
            [] l = "advanceLock"     -> LockCommitted
            [] l = "advanceState"    -> StateCommitted
            [] l = "advanceVerified" -> Verified
            [] OTHER                 -> Complete

JournalLabels == {"firstJournal", "advanceObjects", "advanceManifest", "advanceLock",
                  "advanceState", "advanceVerified", "advanceComplete"}

Replacing ==
    busy =>
        /\ pc = "commitManifest" => Mid(control["manifest"], "new")
        /\ pc = "commitLock" => Mid(control["lock"], "new")
        /\ pc \in {"commitState", "recoverState"} => target /\ Mid(control["state"], "new")
        /\ pc = "installRecovered" => Mid(RecoveryLock, "new")
        /\ pc \in JournalLabels => Mid(journal, Aim(pc))

\* What a cleanup removes: of the controls never the live file, and objects
\* only when it goes back.
Own     == ({"staging", "backup"} \X (Control \cup {"journal"})) \cup {<<"live", "journal">>}
Removed == {"object"} \X Objects

Removing ==
    /\ todo \in Seq(Own \cup Removed)
    /\ pc # "cleanBack" => todo \in Seq(Own)

TransactionInv ==
    TypeOK /\ Durable /\ Position(pc) /\ Covered(pc) /\ Replacing /\ Removing

-----------------------------------------------------------------------------
\* Distinct texts and labels, and the sets they belong to.
LEMMA Texts ==
    /\ None \notin Text /\ {"old", "new", "foreign", Torn} = Text
    /\ Torn \notin {None, "old", "new", "foreign"} /\ "new" # "old" /\ "foreign" # "new"
    /\ None # "old" /\ None # "new" /\ None # "foreign"
    /\ None \notin Phases /\ Torn \notin Phases
    /\ Control = {"manifest", "lock", "state"}
    /\ Phases = 1 .. 7
    /\ {Prepared, ObjectsInstalled, ManifestCommitted, LockCommitted, StateCommitted,
        Verified, Complete} \subseteq Phases
BY TransactionAssumption DEF Text, Control, Phases, Prepared, ObjectsInstalled,
   ManifestCommitted, LockCommitted, StateCommitted, Verified, Complete

LEMMA OldTexts ==
    ASSUME TypeOK, NEW c \in Control
    PROVE  /\ Old(c) \in {None, "old", "new", "foreign"}
           /\ Old(c) = IF c = "lock" THEN bound.lock
                       ELSE IF c = "manifest" /\ kind \in {"repair", "lock"} THEN "new" ELSE "old"
BY Texts DEF Old, TypeOK

\* What the mutations of the three files do to each of them.
LEMMA MovesTyped ==
    ASSUME NEW T, NEW f \in Files(T)
    PROVE  /\ \A t \in T : Staged(f, t) \in Files(T)
           /\ \A new, exch : Replaced(f, new, exch) \in Files(T)
           /\ \A v : Reconciled(f, v) \in Files(T)
           /\ Restored(f) \in Files(T)
           /\ StagingGone(f) \in Files(T)
           /\ BackupGone(f) \in Files(T)
BY DEF Files, Exchanged, Parked, Placed, Restored, StagingGone, BackupGone, Staged,
       Replaced, Reconciled

LEMMA StagingMoves ==
    ASSUME NEW T, NEW f \in Files(T), NEW t
    PROVE  /\ Staged(f, t).dst = f.dst /\ Staged(f, t).bak = f.bak /\ Staged(f, t).stg = t
           /\ StagingGone(f).dst = f.dst /\ StagingGone(f).bak = f.bak
           /\ StagingGone(f).stg = None
           /\ BackupGone(f).dst = f.dst /\ BackupGone(f).bak = None /\ BackupGone(f).stg = f.stg
           /\ Restored(f).dst = f.bak /\ Restored(f).bak = None /\ Restored(f).stg = f.stg
BY DEF Files, Staged, StagingGone, BackupGone, Restored

\* One move of a replacement that goes ahead, or that has begun.
LEMMA OneMove ==
    ASSUME NEW T, NEW f \in Files(T), NEW new \in T, NEW old, NEW exch, None \notin T,
           Mid(f, new) \/ Installable(f, old, new)
    PROVE  LET g == Replaced(f, new, exch)
           IN  /\ Mid(g, new)
               /\ f.dst \in {None, old, new}
               /\ f.dst = new => g.dst = new /\ g.bak \in {None, f.bak}
               /\ f.dst = None => g.dst = new /\ g.bak = f.bak
               /\ f.dst # new => g.bak \in {f.bak, f.dst}
               /\ g.dst = None => g.bak = f.dst /\ f.dst # None /\ g.stg = new
BY DEF Files, Mid, Installable, Replaced, Placed, Parked, Exchanged, StagingGone, BackupGone

LEMMA SettledFile == \A t : Settled(t).dst = t
    BY DEF Settled

\* The removals of a cleanup are removals.
LEMMA TodoTyped ==
    ASSUME NEW s
    PROVE  /\ s \in Seq(Own) => s \in Seq(Own \cup Removed)
           /\ s \in Seq(Own \cup Removed) => s \in Seq(Removals)
PROOF
<1>1. ASSUME NEW S, NEW T, S \subseteq T, s \in Seq(S) PROVE s \in Seq(T)
    <2>1. PICK n \in Nat : s \in [1 .. n -> S]
        BY <1>1, SeqDef
    <2>2. s \in [1 .. n -> T]
        BY <1>1, <2>1
    <2> QED  BY <2>1, <2>2, SeqDef
<1>2. Own \cup Removed \subseteq Removals
    BY DEF Own, Removed, Removals, Objects, Control
<1> QED  BY <1>1, <1>2

-----------------------------------------------------------------------------
(***************************************************************************)
(* A step that leaves the live files, what is parked and the objects alone *)
(* keeps what is durable, and what holds at every label.                   *)
(***************************************************************************)
LEMMA Quiet ==
    ASSUME TransactionInv,
           \A c \in Control : /\ control'[c].dst = control[c].dst
                              /\ control'[c].bak = control[c].bak
                              /\ control[c].dst = None /\ control[c].stg = "new"
                                    => control'[c].stg = "new",
           aside'.bak = aside.bak, aside.stg = "new" => aside'.stg = "new",
           journal'.dst = journal.dst, journal'.bak = journal.bak,
           journal'.stg = journal.stg \/ had \subseteq bound.pre,
           UNCHANGED <<given, bound, target, theirs, early, edits, installed>>,
           Position(pc'), Covered(pc')
    PROVE  Durable' /\ Position(pc)' /\ Covered(pc)'
PROOF
<1>1. kind' = kind /\ had' = had
    BY DEF given
<1>2. Untorn'
    BY DEF TransactionInv, Durable, Untorn
<1>3. Edited'
    BY DEF TransactionInv, Durable, Edited, TypeOK
<1>4. Found'
    <2>1. New("manifest")' = New("manifest")
        BY Texts DEF New
    <2> QED  BY <1>1, <2>1 DEF TransactionInv, Durable, Found, Held
<1>5. \A c \in Control : (New(c)' <=> New(c)) /\ (Past(c)' <=> Past(c))
    BY DEF New, Past
<1>6. InOrder'
    BY <1>1, <1>5, Texts DEF TransactionInv, Durable, InOrder
<1>7. JournalThere' <=> JournalThere
    BY DEF JournalThere
<1>8. Pair'
    <2>1. ASSUME Shape(control["manifest"], control["lock"], aside, JournalThere)
          PROVE  Shape(control["manifest"], control["lock"], aside, JournalThere)'
        BY <1>7, <2>1, Texts DEF Shape
    <2> QED  BY <1>1, <2>1 DEF TransactionInv, Durable, Pair, Paired
<1>9. Position(pc)' /\ Covered(pc)'
    BY <1>1, <1>5, <1>7, Texts DEF Position, Covered, Paired
<1> QED  BY <1>2, <1>3, <1>4, <1>6, <1>8, <1>9 DEF Durable

\* The attempt goes to another label, or ends, and nothing on disk changes.
LEMMA Moving ==
    ASSUME TransactionInv, pc' \in Labels, busy' = FALSE,
           UNCHANGED <<given, disk, bound, target, theirs, early, edits>>,
           crashes' \in 0 .. MaxCrashes, phase' \in Phases,
           todo' \in Seq(Own \cup Removed), pc' # "cleanBack" => todo' \in Seq(Own),
           Position(pc'), Covered(pc')
    PROVE  TransactionInv'
PROOF
<1>1. TypeOK'
    BY TodoTyped DEF TransactionInv, TypeOK, given, disk, Labels
<1>2. Durable' /\ Position(pc)' /\ Covered(pc)'
    BY Quiet DEF disk
<1> QED  BY <1>1, <1>2 DEF TransactionInv, Replacing, Removing

LEMMA Deciding ==
    ASSUME TransactionInv, NEW l \in Labels \ {"cleanBack"}, Decide(l), Position(l), Covered(l),
           todo \in Seq(Own)
    PROVE  TransactionInv'
PROOF
<1>1. crashes' = crashes /\ phase' = phase /\ todo' = todo
      /\ pc' = l /\ busy' = FALSE
      /\ UNCHANGED <<given, disk, bound, target, theirs, early, edits>>
    BY DEF Decide, Go, history
<1>2. crashes' \in 0 .. MaxCrashes /\ phase' \in Phases
    BY <1>1 DEF TransactionInv, TypeOK
<1>3. todo' \in Seq(Own \cup Removed)
    BY <1>1, TodoTyped
<1> QED  BY <1>1, <1>2, <1>3, Moving

\* Out of the commit nothing is claimed but what is durable.
LEMMA Outside ==
    ASSUME NEW l \in {"idle", "stale", "blocked", "check", "done"}
    PROVE  Position(l) /\ Covered(l) /\ l \in Labels \ {"cleanBack"}
BY DEF Position, Covered, Unbound, PastLock, PastManifest, Under, Labels, Steps, CommitSteps,
       RecoverySteps

LEMMA Ending ==
    ASSUME TransactionInv, pc # "cleanBack", Stale \/ Blocked
    PROVE  TransactionInv'
BY Outside, Deciding DEF Stale, Blocked, TransactionInv, Removing

-----------------------------------------------------------------------------
\* The process dies; a write that it was at may be torn.
LEMMA Dying ==
    ASSUME TransactionInv, Dies, installed' = installed,
           control' \in [Control -> Files(Text)],
           \A c \in Control : /\ control'[c].dst = control[c].dst
                              /\ control'[c].bak = control[c].bak
                              /\ control[c].dst = None /\ control[c].stg = "new"
                                    => control'[c].stg = "new",
           aside' \in [stg : Text \cup {None}, bak : Text \cup {None}],
           aside'.bak = aside.bak, aside.stg = "new" => aside'.stg = "new",
           journal' \in Files(Phases \cup {Torn}),
           journal'.dst = journal.dst, journal'.bak = journal.bak,
           journal'.stg = journal.stg \/ had \subseteq bound.pre,
           staged' \in [Objects -> {"none", "partial", "full"}]
    PROVE  TransactionInv'
PROOF
<1>1. /\ pc' = "idle" /\ busy' = FALSE /\ phase' = Prepared /\ todo' = <<>>
      /\ UNCHANGED <<given, bound, target, theirs, early, edits>>
      /\ crashes' \in 0 .. MaxCrashes
    BY TransactionAssumption DEF Dies, TransactionInv, TypeOK
<1>2. Prepared \in Phases /\ todo' \in Seq(Own) /\ todo' \in Seq(Removals)
    BY <1>1, Texts
<1>3. TypeOK'
    BY <1>1, <1>2 DEF TransactionInv, TypeOK, given
<1>4. Durable' /\ Position(pc)' /\ Covered(pc)'
    BY <1>1, Quiet, Outside
<1> QED  BY <1>1, <1>2, <1>3, <1>4, TodoTyped DEF TransactionInv, Replacing, Removing

LEMMA CrashInv ==
    ASSUME TransactionInv, Crash \/ TearObject PROVE TransactionInv'
PROOF
<1>1. /\ Dies /\ installed' = installed /\ control' = control /\ aside' = aside
      /\ journal' = journal /\ staged' \in [Objects -> {"none", "partial", "full"}]
    BY DEF Crash, TearObject, disk, TransactionInv, TypeOK
<1> QED  BY <1>1, Dying DEF TransactionInv, TypeOK

LEMMA TearInv ==
    ASSUME TransactionInv,
           \/ \E c \in Control : \E l \in Steps : TearControl(c, l)
           \/ TearAside \/ TearJournal
    PROVE  TransactionInv'
PROOF
<1>1. CASE \E c \in Control : \E l \in Steps : TearControl(c, l)
    <2>1. PICK c \in Control :
              /\ control[c].stg = None
              /\ control' = [control EXCEPT ![c] = Staged(control[c], Torn)]
              /\ Dies /\ UNCHANGED <<aside, journal, staged, installed>>
        BY <1>1 DEF TearControl
    <2>2. control[c] \in Files(Text) /\ Torn \in Text
        BY Texts DEF TransactionInv, TypeOK
    <2>3. /\ control' \in [Control -> Files(Text)]
          /\ \A d \in Control : /\ control'[d].dst = control[d].dst
                                /\ control'[d].bak = control[d].bak
                                /\ control[d].dst = None /\ control[d].stg = "new"
                                      => control'[d].stg = "new"
        <3>1. Staged(control[c], Torn) \in Files(Text)
            BY <2>2, MovesTyped
        <3>2. /\ Staged(control[c], Torn).dst = control[c].dst
              /\ Staged(control[c], Torn).bak = control[c].bak
            BY <2>2, StagingMoves
        <3>3. control[c].stg # "new"
            BY <2>1, Texts
        <3>4. \A d \in Control : control'[d] = IF d = c THEN Staged(control[c], Torn)
                                               ELSE control[d]
            BY <2>1 DEF TransactionInv, TypeOK
        <3>5. control' \in [Control -> Files(Text)]
            BY <2>1, <3>1 DEF TransactionInv, TypeOK
        <3> QED  BY <3>2, <3>3, <3>4, <3>5
    <2> QED  BY <2>1, <2>3, Dying DEF TransactionInv, TypeOK
<1>2. CASE TearAside
    <2>1. /\ aside.stg = None /\ aside' = [aside EXCEPT !.stg = Torn]
          /\ Dies /\ UNCHANGED <<control, journal, staged, installed>>
        BY <1>2 DEF TearAside
    <2>2. /\ aside' \in [stg : Text \cup {None}, bak : Text \cup {None}]
          /\ aside'.bak = aside.bak /\ aside.stg # "new"
        BY <2>1, Texts DEF TransactionInv, TypeOK
    <2> QED  BY <2>1, <2>2, Dying DEF TransactionInv, TypeOK
<1>3. CASE TearJournal
    <2>1. /\ journal' = Staged(journal, Torn) /\ pc \notin Unbound
          /\ Dies /\ UNCHANGED <<control, aside, staged, installed>>
        BY <1>3 DEF TearJournal, Unbound
    <2>2. /\ journal' \in Files(Phases \cup {Torn})
          /\ journal'.dst = journal.dst /\ journal'.bak = journal.bak
        BY <2>1, MovesTyped, StagingMoves DEF TransactionInv, TypeOK
    <2>3. had \subseteq bound.pre
        BY <2>1 DEF TransactionInv, Position
    <2> QED  BY <2>1, <2>2, <2>3, Dying DEF TransactionInv, TypeOK
<1> QED  BY <1>1, <1>2, <1>3

-----------------------------------------------------------------------------
(***************************************************************************)
(* The other ways in which a step changes what is on disk.                 *)
(***************************************************************************)

\* The journal, which must not be gone while the files disagree.
LEMMA JournalWrite ==
    ASSUME TransactionInv,
           UNCHANGED <<given, control, aside, bound, installed, target, theirs, early, edits>>,
           journal'.dst # Torn, journal'.bak # Torn,
           Held(journal') = {None} \/ had \subseteq bound.pre,
           Paired /\ theirs = {} /\ JournalThere /\ ~ JournalThere' =>
               /\ control["manifest"].dst # None /\ control["lock"].dst # None
               /\ New("manifest") => New("lock"),
           Position(pc')
    PROVE  Durable' /\ Position(pc)'
PROOF
<1>1. kind' = kind /\ had' = had
    BY DEF given
<1>2. Untorn' /\ Edited' /\ Found' /\ InOrder'
    BY <1>1 DEF TransactionInv, Durable, Untorn, Edited, Found, InOrder, New, Past
<1>3. Pair'
    <2>1. ASSUME Paired, theirs = {},
                 Shape(control["manifest"], control["lock"], aside, JournalThere)
          PROVE  Shape(control["manifest"], control["lock"], aside, JournalThere)'
        BY <2>1 DEF Shape, New
    <2> QED  BY <1>1, <2>1 DEF TransactionInv, Durable, Pair, Paired
<1>4. Position(pc)'
    BY <1>1 DEF Position, Paired, New, Past
<1> QED  BY <1>2, <1>3, <1>4 DEF Durable

\* The objects, before the manifest that selects them.
LEMMA ObjectWrite ==
    ASSUME TransactionInv,
           UNCHANGED <<given, control, aside, journal, bound, target, theirs, early, edits>>,
           pc' \in {"packObjects", "prepare", "installObjects", "cleanBack"},
           had \subseteq installed',
           New("manifest") /\ kind \notin {"repair", "lock"} => installed' = Objects,
           Position(pc')
    PROVE  Durable' /\ Position(pc)'
PROOF
<1>1. kind' = kind /\ had' = had
    BY DEF given
<1>2. Untorn' /\ Edited' /\ Found' /\ InOrder' /\ Pair'
    BY <1>1 DEF TransactionInv, Durable, Untorn, Edited, Found, InOrder, New, Past, Pair,
       Paired, Shape, JournalThere
<1>3. Position(pc)'
    BY <1>1 DEF Position, Paired, New, Past
<1> QED  BY <1>2, <1>3 DEF Durable

\* One live control file.  What is new, or an editor's, stays, and it becomes
\* new only in its turn.
LEMMA LiveWrite ==
    ASSUME TransactionInv, NEW c \in Control,
           UNCHANGED <<given, journal, bound, installed, target, theirs, early, edits>>,
           \A d \in Control \ {c} : control'[d] = control[d],
           control'[c].dst # Torn, control'[c].bak \notin {Torn, "new"},
           aside'.bak \notin {Torn, "new"},
           New(c) => New(c)',
           control[c].dst = "foreign" =>
               control'[c].dst = "foreign" \/ (c = "lock" /\ bound.lock = "foreign"),
           control'[c].dst = "foreign" =>
               control[c].dst = "foreign" \/ (c = "lock" /\ bound.lock = "foreign"),
           New(c)' /\ ~ New(c) =>
               /\ c = "manifest" => installed = Objects \/ kind \in {"repair", "lock"}
               /\ c = "lock" => Past("manifest")
               /\ c = "state" => Past("lock") /\ kind = "update" /\ ~ early,
           Paired /\ theirs = {} =>
               Shape(control'["manifest"], control'["lock"], aside', JournalThere)
    PROVE  Durable'
PROOF
<1>1. kind' = kind /\ had' = had
    BY DEF given
<1>2. Untorn'
    BY DEF TransactionInv, Durable, Untorn
<1>3. Edited'
    BY Texts DEF TransactionInv, Durable, Edited, TypeOK
<1>4. Found'
    BY <1>1, Texts DEF TransactionInv, Durable, Found, New
<1>5. InOrder'
    <2>1. New("lock")' => Past("manifest")'
        <3>1. Past("manifest") => Past("manifest")'
            BY Texts DEF Past, New
        <3> QED  BY <3>1, Texts DEF TransactionInv, Durable, InOrder, New
    <2>2. New("state")' => (Past("lock") /\ kind = "update" /\ ~ early)'
        <3>1. New("state")' => Past("lock") /\ kind = "update" /\ ~ early
            BY Texts DEF TransactionInv, Durable, InOrder, New
        <3>2. kind = "update" => bound.lock # "foreign"
            BY Texts DEF TransactionInv, Durable, Pair, Paired
        <3>3. kind = "update" /\ Past("lock") => Past("lock")'
            BY <3>2, Texts DEF Past, New
        <3> QED  BY <1>1, <3>1, <3>3
    <2>3. kind' \in {"repair", "lock"} => Past("manifest")'
        BY <1>1, Texts DEF TransactionInv, Durable, InOrder, Past, New
    <2> QED  BY <2>1, <2>2, <2>3 DEF TransactionInv, Durable, InOrder
<1>6. Pair'
    BY <1>1 DEF TransactionInv, Durable, Pair, Paired, JournalThere
<1> QED  BY <1>2, <1>3, <1>4, <1>5, <1>6 DEF Durable

-----------------------------------------------------------------------------
(***************************************************************************)
(* The actions, one by one.  First the start of an attempt and the journal *)
(* of its recovery.                                                        *)
(***************************************************************************)
LEMMA ControlOfJournal ==
    ASSUME TypeOK, Untorn
    PROVE  /\ JournalControl # "absent" => Held(journal) # {None}
           /\ JournalControl = "orphan" => journal.bak = None
           /\ JournalControl \notin {"absent", "orphan"} => JournalThere
           /\ JournalControl \in {"restore", "keep", "live", "liveOrphan"} =>
                  Selected \in Phases
           /\ JournalControl = "restore" => journal.bak \in Phases
           /\ JournalControl = "keep" => journal.dst \in Phases
           /\ JournalControl \in {"live", "liveOrphan"} => journal.bak = None
           /\ JournalControl \in {"absent", "orphan", "invalid", "restore", "keep", "live",
                                  "liveOrphan"}
PROOF
<1>1. /\ journal.dst \in Phases \cup {None} /\ journal.bak \in Phases \cup {None}
      /\ journal.stg \in Phases \cup {None, Torn}
    BY DEF TypeOK, Untorn, Files
<1>2. CASE journal.bak = None
    BY <1>1, <1>2, Texts DEF JournalControl, Held, JournalThere, Selected
<1>3. CASE journal.bak # None
    BY <1>1, <1>3, Texts DEF JournalControl, Held, JournalThere, Selected, Advances
<1> QED  BY <1>2, <1>3

LEMMA AttemptInv == TransactionInv /\ Attempt => TransactionInv'
PROOF
<1> SUFFICES ASSUME TransactionInv, Attempt PROVE TransactionInv'  OBVIOUS
<1>1. pc # "cleanBack" /\ todo \in Seq(Own) /\ TypeOK /\ Untorn
    BY DEF Attempt, TransactionInv, Removing, Durable
<1>2. CASE Blocked
    BY <1>1, <1>2, Ending
<1>3. CASE Decide("check")
    BY <1>1, <1>3, Deciding, Outside
<1>4. CASE JournalControl = "orphan" /\ Decide("dropPending")
    <2>1. had \subseteq bound.pre
        BY <1>1, <1>4, ControlOfJournal DEF TransactionInv, Durable, Found
    <2>2. "dropPending" \in Labels \ {"cleanBack"}
        BY DEF Labels, Steps, RecoverySteps
    <2>3. Position("dropPending") /\ Covered("dropPending")
        BY <2>1 DEF Position, Covered, Under, PastLock, PastManifest
    <2> QED  BY <1>1, <1>4, <2>2, <2>3, Deciding
<1>5. CASE /\ JournalControl \notin {"invalid", "absent", "orphan"}
           /\ phase' = Selected /\ Go("restoreJournal")
           /\ UNCHANGED <<given, disk, bound, todo, history>>
    <2>1. had \subseteq bound.pre /\ JournalThere /\ phase' \in Phases
        BY <1>1, <1>5, ControlOfJournal DEF TransactionInv, Durable, Found
    <2>2. pc' = "restoreJournal" /\ busy' = FALSE /\ pc' \in Labels
        BY <1>5 DEF Go, Labels, Steps, RecoverySteps
    <2>3. Position("restoreJournal") /\ Covered("restoreJournal")
        BY <2>1 DEF Position, Covered, Under, PastLock, PastManifest
    <2>4. /\ UNCHANGED <<given, disk, bound, target, theirs, early, edits>> /\ todo' = todo
          /\ crashes' \in 0 .. MaxCrashes
        BY <1>5 DEF history, TransactionInv, TypeOK
    <2> QED  BY <1>1, <2>1, <2>2, <2>3, <2>4, Moving, TodoTyped
<1>6. \/ JournalControl = "invalid" /\ Blocked
      \/ JournalControl = "absent" /\ Decide("check")
      \/ JournalControl = "orphan" /\ Decide("dropPending")
      \/ /\ JournalControl \notin {"invalid", "absent", "orphan"}
         /\ IF Recoverable
            THEN /\ phase' = Selected
                 /\ Go("restoreJournal")
                 /\ UNCHANGED <<given, disk, bound, todo, history>>
            ELSE Blocked
    BY DEF Attempt
<1> QED  BY <1>2, <1>3, <1>4, <1>5, <1>6

\* A mutation of the journal by the recovery or by a cleanup.
LEMMA JournalStep ==
    ASSUME TransactionInv, NEW f \in Files(Phases \cup {Torn}), WriteJournal(f),
           phase' \in Phases, busy' \in BOOLEAN, pc' \in Labels \ {"cleanBack"},
           pc # "cleanBack",
           f.dst # Torn, f.bak # Torn, had \subseteq bound.pre,
           JournalThere => f.dst # None \/ f.bak # None,
           pc' \in Under => f.dst # None \/ f.bak # None,
           busy' => pc' \in JournalLabels /\ Mid(f, Aim(pc')),
           Position(pc')
    PROVE  TransactionInv'
PROOF
<1>1. /\ journal' = f
      /\ UNCHANGED <<given, control, aside, bound, staged, installed, todo, target, theirs,
                     early, edits, crashes>>
    BY DEF WriteJournal, history
<1>2. TypeOK'
    BY <1>1 DEF TransactionInv, TypeOK, given, Labels
<1>3. Durable' /\ Position(pc)'
    <2>1. JournalThere => JournalThere'
        BY <1>1 DEF JournalThere
    <2> QED  BY <1>1, <2>1, JournalWrite
<1>4. Covered(pc)'
    BY <1>1 DEF Covered, JournalThere
<1>5. Replacing'
    BY <1>1 DEF Replacing, JournalLabels
<1>6. Removing'
    BY <1>1 DEF TransactionInv, Removing
<1> QED  BY <1>2, <1>3, <1>4, <1>5, <1>6 DEF TransactionInv

LEMMA RestoreJournalInv == TransactionInv /\ RestoreJournal => TransactionInv'
PROOF
<1> SUFFICES ASSUME TransactionInv, RestoreJournal PROVE TransactionInv'  OBVIOUS
<1>1. pc = "restoreJournal" /\ pc # "cleanBack" /\ todo \in Seq(Own) /\ TypeOK /\ Untorn
      /\ journal \in Files(Phases \cup {Torn}) /\ phase \in Phases
    BY DEF RestoreJournal, TransactionInv, Removing, Durable, TypeOK
<1>2. had \subseteq bound.pre /\ JournalThere
    BY <1>1 DEF TransactionInv, Position, Covered, Unbound, Under, Steps, RecoverySteps
<1>3. /\ Position("dropPending") /\ Covered("dropPending")
      /\ Position("reconcileManifest") /\ Covered("reconcileManifest")
      /\ {"dropPending", "reconcileManifest"} \subseteq Labels \ {"cleanBack"}
    BY <1>2 DEF Position, Covered, Under, PastLock, PastManifest, Labels, Steps, RecoverySteps
<1>4. CASE JournalControl = "restore" /\ WriteJournal(Restored(journal)) /\ Go("dropPending")
           /\ UNCHANGED phase
    <2>1. /\ Restored(journal) \in Files(Phases \cup {Torn})
          /\ Restored(journal).dst = journal.bak /\ Restored(journal).bak = None
          /\ journal.bak \in Phases
        BY <1>1, <1>4, MovesTyped, StagingMoves, ControlOfJournal
    <2> QED  BY <1>1, <1>2, <1>3, <1>4, <2>1, JournalStep, Texts DEF Go
<1>5. CASE JournalControl = "keep" /\ WriteJournal(BackupGone(journal)) /\ UNCHANGED phase
           /\ Go("reconcileManifest")
    <2>1. /\ BackupGone(journal) \in Files(Phases \cup {Torn})
          /\ BackupGone(journal).dst = journal.dst /\ BackupGone(journal).bak = None
          /\ journal.dst \in Phases
        BY <1>1, <1>5, MovesTyped, StagingMoves, ControlOfJournal
    <2> QED  BY <1>1, <1>2, <1>3, <1>5, <2>1, JournalStep, Texts DEF Go
<1>6. CASE Decide("dropPending") \/ Decide("reconcileManifest")
    BY <1>1, <1>3, <1>6, Deciding
<1> QED  BY <1>4, <1>5, <1>6 DEF RestoreJournal

LEMMA DropPendingInv == TransactionInv /\ DropPending => TransactionInv'
PROOF
<1> SUFFICES ASSUME TransactionInv, DropPending PROVE TransactionInv'  OBVIOUS
<1>1. /\ pc = "dropPending" /\ WriteJournal(StagingGone(journal)) /\ phase' = phase
      /\ Go(IF journal.dst = None THEN "check" ELSE "reconcileManifest")
      /\ journal \in Files(Phases \cup {Torn}) /\ phase \in Phases
      /\ journal.dst # Torn /\ journal.bak # Torn
    BY DEF DropPending, TransactionInv, TypeOK, Durable, Untorn
<1>2. had \subseteq bound.pre
    BY <1>1 DEF TransactionInv, Position, Unbound
<1>3. /\ StagingGone(journal) \in Files(Phases \cup {Torn})
      /\ StagingGone(journal).dst = journal.dst /\ StagingGone(journal).bak = journal.bak
    BY <1>1, MovesTyped, StagingMoves
<1>4. /\ Position("reconcileManifest") /\ Position("check")
      /\ {"check", "reconcileManifest"} \subseteq Labels \ {"cleanBack"}
      /\ "check" \notin Under
    BY <1>2, Outside DEF Position, Under, PastLock, PastManifest, Labels, Steps, RecoverySteps
<1>5. CASE journal.dst = None
    <2>1. pc' = "check" /\ busy' = FALSE
        BY <1>1, <1>5 DEF Go
    <2> QED  BY <1>1, <1>2, <1>3, <1>4, <2>1, JournalStep DEF JournalThere
<1>6. CASE journal.dst # None
    <2>1. pc' = "reconcileManifest" /\ busy' = FALSE
        BY <1>1, <1>6 DEF Go
    <2> QED  BY <1>1, <1>2, <1>3, <1>4, <1>6, <2>1, JournalStep DEF JournalThere
<1> QED  BY <1>5, <1>6

-----------------------------------------------------------------------------
\* A write of one control file that leaves its live text where it is.
LEMMA StagingStep ==
    ASSUME TransactionInv, NEW c \in Control, NEW f \in Files(Text), WriteControl(c, f),
           f.dst = control[c].dst, f.bak = control[c].bak,
           control[c].dst = None /\ control[c].stg = "new" => f.stg = "new",
           pc' \in Labels \ {"cleanBack"}, pc # "cleanBack", busy' = FALSE,
           Position(pc'), Covered(pc')
    PROVE  TransactionInv'
PROOF
<1>1. /\ control' = [control EXCEPT ![c] = f]
      /\ UNCHANGED <<given, aside, journal, bound, staged, installed, phase, todo, target,
                     theirs, early, edits, crashes>>
    BY DEF WriteControl, history
<1>2. \A d \in Control : control'[d] = IF d = c THEN f ELSE control[d]
    BY <1>1 DEF TransactionInv, TypeOK
<1>3. TypeOK'
    <2>1. control' \in [Control -> Files(Text)]
        BY <1>1 DEF TransactionInv, TypeOK
    <2> QED  BY <1>1, <2>1 DEF TransactionInv, TypeOK, given, Labels
<1>4. Durable' /\ Position(pc)' /\ Covered(pc)'
    <2>1. \A d \in Control : /\ control'[d].dst = control[d].dst
                             /\ control'[d].bak = control[d].bak
                             /\ control[d].dst = None /\ control[d].stg = "new"
                                   => control'[d].stg = "new"
        BY <1>2
    <2> QED  BY <1>1, <2>1, Quiet
<1> QED  BY <1>1, <1>3, <1>4 DEF TransactionInv, Replacing, Removing

\* A write that changes it.
LEMMA LiveStep ==
    ASSUME TransactionInv, NEW c \in Control, NEW f \in Files(Text), WriteControl(c, f),
           pc' \in Labels \ {"cleanBack"}, pc # "cleanBack", busy' \in BOOLEAN,
           f.dst # Torn, f.bak \notin {Torn, "new"},
           New(c) => f.dst = "new",
           control[c].dst = "foreign" =>
               f.dst = "foreign" \/ (c = "lock" /\ bound.lock = "foreign"),
           f.dst = "foreign" =>
               control[c].dst = "foreign" \/ (c = "lock" /\ bound.lock = "foreign"),
           f.dst = "new" /\ ~ New(c) =>
               /\ c = "manifest" => installed = Objects \/ kind \in {"repair", "lock"}
               /\ c = "lock" => Past("manifest")
               /\ c = "state" => Past("lock") /\ kind = "update" /\ ~ early,
           Paired /\ theirs = {} =>
               Shape(IF c = "manifest" THEN f ELSE control["manifest"],
                     IF c = "lock" THEN f ELSE control["lock"], aside, JournalThere),
           Position(pc)', Covered(pc'),
           busy' => \/ pc' = "commitManifest" /\ c = "manifest" /\ Mid(f, "new")
                    \/ pc' = "commitLock" /\ c = "lock" /\ Mid(f, "new")
                    \/ pc' \in {"commitState", "recoverState"} /\ c = "state" /\ Mid(f, "new")
                         /\ target
    PROVE  TransactionInv'
PROOF
<1>1. /\ control' = [control EXCEPT ![c] = f]
      /\ UNCHANGED <<given, aside, journal, bound, staged, installed, phase, todo, target,
                     theirs, early, edits, crashes>>
    BY DEF WriteControl, history
<1>2. \A d \in Control : control'[d] = IF d = c THEN f ELSE control[d]
    BY <1>1 DEF TransactionInv, TypeOK
<1>3. TypeOK'
    <2>1. control' \in [Control -> Files(Text)]
        BY <1>1 DEF TransactionInv, TypeOK
    <2> QED  BY <1>1, <2>1 DEF TransactionInv, TypeOK, given, Labels
<1>4. Durable'
    <2>1. control'[c] = f /\ \A d \in Control \ {c} : control'[d] = control[d]
        BY <1>2
    <2>2. New(c)' <=> f.dst = "new"
        BY <2>1 DEF New
    <2>3. /\ control'["manifest"] = IF c = "manifest" THEN f ELSE control["manifest"]
          /\ control'["lock"] = IF c = "lock" THEN f ELSE control["lock"]
        BY <1>2, Texts
    <2>4. aside'.bak \notin {Torn, "new"}
        BY <1>1 DEF TransactionInv, Durable, Untorn
    <2> QED  BY <1>1, <2>1, <2>2, <2>3, <2>4, LiveWrite
<1>5. Covered(pc)'
    BY <1>1 DEF Covered, JournalThere
<1>6. Replacing'
    BY <1>1, <1>2 DEF Replacing, JournalLabels
<1>7. Removing'
    BY <1>1 DEF TransactionInv, Removing
<1> QED  BY <1>3, <1>4, <1>5, <1>6, <1>7 DEF TransactionInv

-----------------------------------------------------------------------------
\* The reconciliation of a control file that is recognized.
LEMMA ReconciledFile ==
    ASSUME TypeOK, Untorn, NEW c \in Control, Verdict(c) # "unknown"
    PROVE  LET f == Reconciled(control[c], Verdict(c))
           IN  /\ f \in Files(Text) /\ f.bak = None
               /\ f.dst \in {Old(c), "new"}
               /\ f.dst = control[c].dst \/ (/\ control[c].dst = None
                                             /\ f.dst = control[c].bak /\ f.dst = Old(c))
PROOF
<1>1. control[c] \in Files(Text)
    BY DEF TypeOK
<1>2. /\ Reconciled(control[c], Verdict(c)) \in Files(Text)
      /\ BackupGone(control[c]).dst = control[c].dst /\ BackupGone(control[c]).bak = None
      /\ Restored(control[c]).dst = control[c].bak /\ Restored(control[c]).bak = None
    BY <1>1, MovesTyped, StagingMoves
<1> QED  BY <1>2 DEF Verdict, Classify, Reconciled

LEMMA ReconcileInv ==
    ASSUME TransactionInv,
           \/ ReconcileControl("manifest", "reconcileManifest", "reconcileLock")
           \/ ReconcileControl("lock", "reconcileLock", "reconcileState")
           \/ ReconcileControl("state", "reconcileState", "direct")
    PROVE  TransactionInv'
PROOF
<1>1. PICK c \in Control, next \in {"reconcileLock", "reconcileState", "direct"} :
          /\ c = "manifest" => pc = "reconcileManifest" /\ next = "reconcileLock"
          /\ c = "lock" => pc = "reconcileLock" /\ next = "reconcileState"
          /\ c = "state" => pc = "reconcileState" /\ next = "direct"
          /\ pc \in {"reconcileManifest", "reconcileLock", "reconcileState"}
          /\ IF \/ c = "manifest" /\ kind = "lock"
                \/ c = "state" /\ kind # "update"
             THEN Decide(next)
             ELSE IF Verdict(c) = "unknown"
             THEN Blocked
             ELSE WriteControl(c, Reconciled(control[c], Verdict(c))) /\ Go(next)
    BY Texts DEF ReconcileControl
<1>2. todo \in Seq(Own) /\ TypeOK /\ Untorn /\ pc # "cleanBack"
    BY <1>1 DEF TransactionInv, Removing, Durable
<1>3. had \subseteq bound.pre /\ JournalThere
    BY <1>1 DEF TransactionInv, Position, Covered, Unbound, Under, Steps, RecoverySteps
<1>4. next \in Labels \ {"cleanBack"} /\ Covered(next)
    BY <1>3 DEF Labels, Steps, RecoverySteps, Covered
<1>5. c # "manifest" /\ Paired /\ theirs = {} => control["manifest"].dst # None
    BY <1>1, Texts DEF TransactionInv, Position
<1>6. c = "state" /\ Paired /\ theirs = {} => control["lock"].dst # None
    BY <1>1 DEF TransactionInv, Position
<1>7. CASE Blocked
    BY <1>2, <1>7, Ending
<1>8. CASE /\ (c = "manifest" /\ kind = "lock") \/ (c = "state" /\ kind # "update")
           /\ Decide(next)
    <2>1. Position(next)
        BY <1>1, <1>3, <1>5, <1>6, <1>8 DEF Position, PastLock, PastManifest, Paired
    <2> QED  BY <1>2, <1>4, <1>8, <2>1, Deciding
<1>9. CASE Verdict(c) # "unknown"
           /\ WriteControl(c, Reconciled(control[c], Verdict(c))) /\ Go(next)
    <2> DEFINE f == Reconciled(control[c], Verdict(c))
    <2>1. /\ f \in Files(Text) /\ f.bak = None /\ f.dst \in {Old(c), "new"}
          /\ f.dst = control[c].dst \/ (/\ control[c].dst = None
                                        /\ f.dst = control[c].bak /\ f.dst = Old(c))
        BY <1>2, <1>9, ReconciledFile
    <2>2. WriteControl(c, f) /\ pc' = next /\ busy' = FALSE
        BY <1>9 DEF Go
    <2> HIDE DEF f
    <2>3. f.dst # Torn /\ (f.dst = "new" => New(c)) /\ (New(c) => f.dst = "new")
        BY <1>2, <2>1, Texts DEF Untorn, New
    <2>4. /\ control[c].dst = "foreign" => f.dst = "foreign"
          /\ f.dst = "foreign" =>
                control[c].dst = "foreign" \/ (c = "lock" /\ bound.lock = "foreign")
        BY <1>2, <2>1, OldTexts, Texts
    <2>5. Paired => bound.lock = "old" /\ Old(c) \in {"old", "new"}
                    /\ (c # "state" => Old(c) = "old") /\ f.dst # None
        BY <1>2, <2>1, OldTexts, Texts DEF TransactionInv, Durable, Pair, Paired
    <2>6. ASSUME Paired, theirs = {}
          PROVE  Shape(IF c = "manifest" THEN f ELSE control["manifest"],
                       IF c = "lock" THEN f ELSE control["lock"], aside, JournalThere)
        <3>1. Shape(control["manifest"], control["lock"], aside, JournalThere)
            BY <2>6 DEF TransactionInv, Durable, Pair
        <3> QED  BY <1>3, <2>1, <2>5, <2>6, <3>1, Texts DEF Shape
    <2>7. Position(pc)'
        <3>1. \A d \in Control : control'[d] = IF d = c THEN f ELSE control[d]
            BY <1>2, <2>2 DEF WriteControl, TypeOK
        <3>2. kind' = kind /\ had' = had /\ bound' = bound /\ theirs' = theirs
            BY <2>2 DEF WriteControl, given, history
        <3>3. Paired /\ theirs = {} =>
                 /\ control'["manifest"].dst # None
                 /\ next # "reconcileLock" => control'["lock"].dst # None
            BY <1>1, <1>5, <1>6, <2>5, <3>1, Texts
        <3> QED  BY <1>3, <2>2, <3>2, <3>3 DEF Position, PastLock, PastManifest, Paired
    <2> QED  BY <1>2, <1>4, <2>1, <2>2, <2>3, <2>4, <2>6, <2>7, LiveStep, Texts
<1> QED  BY <1>1, <1>7, <1>8, <1>9

-----------------------------------------------------------------------------
\* A call of the guarded replacement of a control file that goes ahead.
LEMMA ReplacedControl ==
    ASSUME TransactionInv, NEW c \in Control,
           Mid(control[c], "new") \/ Installable(control[c], Old(c), "new")
    PROVE  LET f == Replaced(control[c], "new", exchange)
           IN  /\ f \in Files(Text) /\ Mid(f, "new")
               /\ f.dst # Torn /\ f.dst # "foreign" /\ f.bak \notin {Torn, "new"}
               /\ New(c) => f.dst = "new"
               /\ control[c].dst = "foreign" => c = "lock" /\ bound.lock = "foreign"
               /\ f.dst = None => f.stg = "new" /\ f.bak = control[c].dst
                                  /\ control[c].dst \notin {None, "new"}
PROOF
<1> DEFINE f == Replaced(control[c], "new", exchange)
<1>1. control[c] \in Files(Text) /\ "new" \in Text /\ None \notin Text
    BY Texts DEF TransactionInv, TypeOK
<1>2. /\ control[c].dst # Torn /\ control[c].bak \notin {Torn, "new"}
    BY DEF TransactionInv, Durable, Untorn
<1>3. f \in Files(Text)
    BY <1>1, MovesTyped
<1>4. /\ Mid(f, "new")
      /\ control[c].dst \in {None, Old(c), "new"}
      /\ control[c].dst = "new" => f.dst = "new" /\ f.bak \in {None, control[c].bak}
      /\ control[c].dst = None => f.dst = "new" /\ f.bak = control[c].bak
      /\ control[c].dst # "new" => f.bak \in {control[c].bak, control[c].dst}
      /\ f.dst = None => f.bak = control[c].dst /\ control[c].dst # None /\ f.stg = "new"
    BY <1>1, OneMove
<1> HIDE DEF f
<1>5. f.dst \in {None, "new"}
    BY <1>4 DEF Mid
<1>6. f.dst # Torn /\ f.dst # "foreign" /\ f.bak \notin {Torn, "new"}
    BY <1>2, <1>4, <1>5, Texts
<1>7. control[c].dst = "foreign" => c = "lock" /\ bound.lock = "foreign"
    BY <1>4, OldTexts, Texts DEF TransactionInv
<1>8. f.dst = None => control[c].dst \notin {None, "new"}
    BY <1>4, Texts
<1>9. New(c) => f.dst = "new"
    BY <1>4 DEF New
<1> QED  BY <1>3, <1>4, <1>6, <1>7, <1>8, <1>9 DEF f

\* What such a call does, if the file is at its turn.
LEMMA ReplaceStep ==
    ASSUME TransactionInv, NEW c \in Control, NEW label, NEW next \in Labels \ {"cleanBack"},
           pc = label, ReplaceControl(c, label, next),
           busy => Mid(control[c], "new"),
           \/ label = "commitManifest" /\ c = "manifest"
           \/ label = "commitLock" /\ c = "lock"
           \/ label \in {"commitState", "recoverState"} /\ c = "state" /\ target,
           c = "manifest" => installed = Objects,
           c = "lock" => Past("manifest"),
           c = "state" => Past("lock") /\ kind = "update",
           Position(label), JournalThere,
           next \in Under,
           \* where the attempt gets to, and what it rests on there
           control'[c].dst = "new" /\ (\A d \in Control \ {c} : control'[d] = control[d])
               /\ UNCHANGED <<given, bound, installed, theirs>> => Position(next)'
    PROVE  TransactionInv'
PROOF
<1>1. pc # "cleanBack" /\ label \in Labels \ {"cleanBack"} /\ label \in Under
      /\ label \in {"commitManifest", "commitLock", "commitState", "recoverState"}
    BY DEF Labels, Steps, CommitSteps, RecoverySteps, Under
<1>2. CASE Blocked
    BY <1>1, <1>2, Ending
<1>3. CASE busy \/ Installable(control[c], Old(c), "new")
    <2> DEFINE f == Replaced(control[c], "new", exchange)
    <2>1. WriteControl(c, f) /\ InstallStep(f, "new", label, next)
        BY <1>3 DEF ReplaceControl
    <2>2. /\ f \in Files(Text) /\ Mid(f, "new")
          /\ f.dst # Torn /\ f.dst # "foreign" /\ f.bak \notin {Torn, "new"}
          /\ New(c) => f.dst = "new"
          /\ control[c].dst = "foreign" => c = "lock" /\ bound.lock = "foreign"
          /\ f.dst = None => f.stg = "new" /\ f.bak = control[c].dst
                             /\ control[c].dst \notin {None, "new"}
        BY <1>3, ReplacedControl
    <2>3. \/ pc' = label /\ busy' = TRUE
          \/ pc' = next /\ busy' = FALSE /\ f.dst = "new"
        BY <2>1, SettledFile DEF InstallStep
    <2> HIDE DEF f
    <2>4. ~ early \/ c # "state"
        BY DEF TransactionInv, Durable, InOrder
    <2>5. ASSUME Paired, theirs = {}
          PROVE  Shape(IF c = "manifest" THEN f ELSE control["manifest"],
                       IF c = "lock" THEN f ELSE control["lock"], aside, JournalThere)
        <3>1. Shape(control["manifest"], control["lock"], aside, JournalThere)
            BY <2>5 DEF TransactionInv, Durable, Pair
        <3>2. f.dst \in {None, "new"}
            BY <2>2 DEF Mid
        <3> QED  BY <2>2, <3>1, <3>2, Texts DEF Shape
    <2>6. /\ control'[c] = f /\ \A d \in Control \ {c} : control'[d] = control[d]
          /\ UNCHANGED <<given, bound, installed, theirs>>
        BY <2>1 DEF WriteControl, history, TransactionInv, TypeOK
    <2>7. Position(pc)'
        <3>1. CASE pc' = label /\ busy' = TRUE
            <4>1. kind' = kind /\ had' = had
                BY <2>6 DEF given
            <4>2. /\ label \in PastManifest => Past("manifest")'
                  /\ label \in PastLock => Past("lock")'
                BY <2>6, Texts DEF Position, Past, PastManifest, PastLock
            <4> QED  BY <1>1, <2>6, <3>1, <4>1, <4>2 DEF Position, Paired
        <3>2. CASE pc' = next /\ busy' = FALSE /\ f.dst = "new"
            <4>1. Position(next)'
                BY <2>6, <3>2
            <4> QED  BY <3>2, <4>1 DEF Position
        <3> QED  BY <2>3, <3>1, <3>2
    <2>8. /\ pc' \in Labels \ {"cleanBack"} /\ busy' \in BOOLEAN /\ Covered(pc')
        BY <1>1, <2>3 DEF Covered
    <2>9. busy' => \/ pc' = "commitManifest" /\ c = "manifest" /\ Mid(f, "new")
                   \/ pc' = "commitLock" /\ c = "lock" /\ Mid(f, "new")
                   \/ pc' \in {"commitState", "recoverState"} /\ c = "state" /\ Mid(f, "new")
                        /\ target
        BY <2>2, <2>3
    <2> QED  BY <1>1, <2>1, <2>2, <2>4, <2>5, <2>7, <2>8, <2>9, LiveStep
<1> QED  BY <1>2, <1>3 DEF ReplaceControl

LEMMA CommitManifestInv ==
    ASSUME TransactionInv, CommitControl("manifest", "commitManifest", "advanceManifest")
    PROVE  TransactionInv'
PROOF
<1>1. /\ pc = "commitManifest" /\ ReplaceControl("manifest", "commitManifest", "advanceManifest")
      /\ "manifest" \in Control
    BY Texts DEF CommitControl
<1>2. installed = Objects /\ had \subseteq bound.pre /\ JournalThere /\ Position("commitManifest")
      /\ (busy => Mid(control["manifest"], "new"))
    BY <1>1 DEF TransactionInv, Position, Covered, Unbound, Under, Steps, CommitSteps, Replacing
<1>3. "advanceManifest" \in Labels \ {"cleanBack"} /\ "advanceManifest" \in Under
    BY DEF Labels, Steps, CommitSteps, Under
<1>4. ASSUME control'["manifest"].dst = "new", UNCHANGED <<given, bound, installed, theirs>>
      PROVE  Position("advanceManifest")'
    BY <1>2, <1>4 DEF Position, PastLock, Past, given
<1> QED  BY <1>1, <1>2, <1>3, <1>4, ReplaceStep

LEMMA CommitLockInv ==
    ASSUME TransactionInv, CommitControl("lock", "commitLock", "advanceLock")
    PROVE  TransactionInv'
PROOF
<1>1. /\ pc = "commitLock" /\ ReplaceControl("lock", "commitLock", "advanceLock")
      /\ "lock" \in Control
    BY Texts DEF CommitControl
<1>2. Past("manifest") /\ had \subseteq bound.pre /\ JournalThere /\ Position("commitLock")
      /\ (busy => Mid(control["lock"], "new"))
    BY <1>1 DEF TransactionInv, Position, Covered, Unbound, Under, Steps, CommitSteps,
       Replacing, PastManifest
<1>3. "advanceLock" \in Labels \ {"cleanBack"} /\ "advanceLock" \in Under
    BY DEF Labels, Steps, CommitSteps, Under
<1>4. ASSUME control'["lock"].dst = "new", control'["manifest"] = control["manifest"],
             UNCHANGED <<given, bound, installed, theirs>>
      PROVE  Position("advanceLock")'
    BY <1>2, <1>4 DEF Position, Past, given
<1>5. "manifest" \in Control \ {"lock"}
    BY Texts
<1> QED  BY <1>1, <1>2, <1>3, <1>4, <1>5, ReplaceStep

\* At the labels after the lock, whatever happens to the receipt.
LEMMA AfterLock ==
    ASSUME NEW l \in {"advanceState", "verify", "recoverState", "commitState", "cleanForward"},
           had \subseteq bound.pre, Past("manifest"), Past("lock")
    PROVE  Position(l)
BY DEF Position

LEMMA ReplaceState ==
    ASSUME TransactionInv, NEW label, NEW next, pc = label,
           ReplaceControl("state", label, next), kind = "update",
           \/ label = "commitState" /\ next = "advanceState"
           \/ label = "recoverState" /\ next = "recoverState",
           busy \/ target
    PROVE  TransactionInv'
PROOF
<1>1. /\ Past("manifest") /\ Past("lock") /\ had \subseteq bound.pre /\ JournalThere
      /\ Position(label) /\ (busy => target /\ Mid(control["state"], "new"))
    BY DEF TransactionInv, Position, Covered, Unbound, Under, Steps, CommitSteps,
       RecoverySteps, Replacing, PastManifest, PastLock
<1>2. next \in Labels \ {"cleanBack"} /\ next \in Under /\ "state" \in Control
      /\ {"manifest", "lock"} \subseteq Control \ {"state"}
    BY Texts DEF Labels, Steps, CommitSteps, RecoverySteps, Under
<1>3. ASSUME \A d \in Control \ {"state"} : control'[d] = control[d],
             UNCHANGED <<given, bound, installed, theirs>>
      PROVE  Position(next)'
    BY <1>1, <1>2, <1>3 DEF Position, Past, given
<1> QED  BY <1>1, <1>2, <1>3, ReplaceStep

LEMMA CommitStateInv == TransactionInv /\ CommitState => TransactionInv'
PROOF
<1> SUFFICES ASSUME TransactionInv, CommitState PROVE TransactionInv'  OBVIOUS
<1>1. pc = "commitState" /\ todo \in Seq(Own)
    BY DEF CommitState, TransactionInv, Removing
<1>2. CASE kind = "update" /\ (target \/ busy)
    BY <1>1, <1>2, ReplaceState DEF CommitState
<1>3. CASE ~ (kind = "update" /\ (target \/ busy))
    <2>1. Past("manifest") /\ Past("lock") /\ had \subseteq bound.pre /\ JournalThere
        BY <1>1 DEF TransactionInv, Position, Covered, Unbound, Under, Steps, CommitSteps,
           PastManifest, PastLock
    <2>2. "verify" \in Labels \ {"cleanBack"} /\ Covered("verify") /\ Position("verify")
        BY <2>1, AfterLock DEF Labels, Steps, CommitSteps, Covered
    <2>3. Decide("verify")
        BY <1>3 DEF CommitState
    <2> QED  BY <1>1, <2>2, <2>3, Deciding
<1> QED  BY <1>2, <1>3

-----------------------------------------------------------------------------
\* What the cleanups remove.
LEMMA Lists ==
    /\ CommitRemovals \in Seq(Own) /\ ForwardRemovals \in Seq(Own)
    /\ BackRemovals \in Seq(Own \cup Removed)
PROOF
<1>1. \A c \in Control \cup {"journal"} :
          /\ <<"staging", c>> \in Own /\ <<"backup", c>> \in Own
    BY DEF Own
<1>2. <<"live", "journal">> \in Own
    BY DEF Own
<1>3. \A S : /\ <<>> \in Seq(S)
             /\ \A x \in S : << x >> \in Seq(S)
             /\ \A x, y \in S : << x, y >> \in Seq(S)
             /\ \A s, t \in Seq(S) : s \o t \in Seq(S)
    OBVIOUS
<1>4. /\ FilesOf("manifest") \in Seq(Own) /\ FilesOf("lock") \in Seq(Own)
      /\ FilesOf("state") \in Seq(Own)
      /\ Journal \in Seq(Own) /\ << <<"live", "journal">> >> \in Seq(Own)
      /\ << <<"staging", "manifest">> >> \in Seq(Own)
      /\ << <<"backup", "manifest">> >> \in Seq(Own)
    BY <1>1, <1>2, <1>3, Texts DEF FilesOf, Journal
<1>5. State \in Seq(Own) /\ Controls \in Seq(Own)
    BY <1>3, <1>4 DEF State, Controls
<1>6. CommitRemovals \in Seq(Own)
    <2>1. /\ State \o Controls \o Journal \in Seq(Own)
          /\ Controls \o Journal \in Seq(Own)
        BY <1>3, <1>4, <1>5
    <2> QED  BY <1>4, <2>1 DEF CommitRemovals
<1>7. ForwardRemovals \in Seq(Own)
    <2> DEFINE a == IF kind = "lock" THEN <<>> ELSE << <<"staging", "manifest">> >>
               b == IF kind = "lock" THEN <<>> ELSE << <<"backup", "manifest">> >>
    <2>1. a \in Seq(Own) /\ b \in Seq(Own)
        BY <1>3, <1>4
    <2>2. ForwardRemovals = IF Updates THEN CommitRemovals
                            ELSE Journal \o a \o FilesOf("lock") \o b
        BY DEF ForwardRemovals
    <2> HIDE DEF a, b
    <2>3. Journal \o a \o FilesOf("lock") \o b \in Seq(Own)
        BY <1>3, <1>4, <2>1
    <2> QED  BY <1>6, <2>2, <2>3
<1>8. BackRemovals \in Seq(Own \cup Removed)
    <2>1. ObjectRoots \in Seq(Own \cup Removed)
        <3>1. <<"object", "portable">> \in Own \cup Removed
              /\ <<"object", "native">> \in Own \cup Removed
            BY DEF Removed, Objects
        <3> QED  BY <1>3, <3>1 DEF ObjectRoots
    <2>2. /\ Controls \in Seq(Own \cup Removed) /\ State \in Seq(Own \cup Removed)
          /\ Journal \in Seq(Own \cup Removed)
        BY <1>4, <1>5, TodoTyped
    <2>3. /\ Controls \o Journal \in Seq(Own \cup Removed)
          /\ ObjectRoots \o Controls \o State \o Journal \in Seq(Own \cup Removed)
        BY <1>3, <2>1, <2>2
    <2> QED  BY <2>3 DEF BackRemovals
<1> QED  BY <1>6, <1>7, <1>8

\* A cleanup begins.
LEMMA CleaningStep ==
    ASSUME TransactionInv, NEW l \in {"cleanBack", "cleanForward"}, NEW s, Cleaning(l, s),
           s \in Seq(Own \cup Removed), l = "cleanForward" => s \in Seq(Own),
           Position(l)
    PROVE  TransactionInv'
PROOF
<1>1. /\ pc' = l /\ todo' = s /\ busy' = FALSE
      /\ crashes' = crashes /\ phase' = phase
      /\ UNCHANGED <<given, disk, bound, target, theirs, early, edits>>
    BY DEF Cleaning, history
<1>2. l \in Labels /\ Covered(l)
    BY DEF Labels, Steps, RecoverySteps, Covered, Under
<1> QED  BY <1>1, <1>2, Moving DEF TransactionInv, TypeOK

LEMMA DirectInv == TransactionInv /\ Direct => TransactionInv'
PROOF
<1> SUFFICES ASSUME TransactionInv, Direct PROVE TransactionInv'  OBVIOUS
<1>1. pc = "direct" /\ pc # "cleanBack" /\ todo \in Seq(Own)
    BY DEF Direct, TransactionInv, Removing
<1>2. had \subseteq bound.pre /\ JournalThere
      /\ (Paired /\ theirs = {} =>
             control["lock"].dst # None /\ control["manifest"].dst # None)
    BY <1>1 DEF TransactionInv, Position, Covered, Unbound, Under, Steps, RecoverySteps
<1>3. CASE RollsBack(control["manifest"].dst, phase) /\ Cleaning("cleanBack", BackRemovals)
    <2>1. kind \notin {"repair", "lock"} => ~ New("manifest")
        BY <1>3, Texts DEF RollsBack, New
    <2>2. Position("cleanBack")
        BY <1>2, <2>1 DEF Position, PastLock, PastManifest, Paired
    <2> QED  BY <1>3, <2>2, CleaningStep, Lists
<1>4. CASE control["manifest"].dst = "new" /\ Decide("recoverLock")
    <2>1. /\ "recoverLock" \in Labels \ {"cleanBack"}
          /\ Position("recoverLock") /\ Covered("recoverLock")
        BY <1>2, <1>4 DEF Position, PastLock, Past, Covered, Labels, Steps, RecoverySteps
    <2> QED  BY <1>1, <1>4, <2>1, Deciding
<1>5. CASE Blocked
    BY <1>1, <1>5, Ending
<1> QED  BY <1>3, <1>4, <1>5 DEF Direct

\* What holds of a lock that recovery replaces through files of its own.
LEMMA RecoveryMove ==
    ASSUME TransactionInv, NEW f \in Files(Text), WriteRecoveryLock(f),
           pc = "recoverLock" \/ pc = "installRecovered",
           pc' \in {"installRecovered", "recoverVerify"}, busy' \in BOOLEAN,
           f.dst # Torn, f.bak \notin {Torn, "new"},
           New("lock") => f.dst = "new",
           control["lock"].dst = "foreign" => f.dst = "foreign" \/ bound.lock = "foreign",
           f.dst = "foreign" => control["lock"].dst = "foreign" \/ bound.lock = "foreign",
           f.dst = None /\ Paired /\ theirs = {} => f.stg = "new" /\ f.bak = "old",
           f.dst = "old" /\ Paired => control["lock"].dst = "old",
           busy' => pc' = "installRecovered" /\ Mid(f, "new"),
           pc' = "recoverVerify" => f.dst = "new"
    PROVE  TransactionInv'
PROOF
<1>1. /\ control' = [control EXCEPT !["lock"].dst = f.dst]
      /\ aside' = [stg |-> f.stg, bak |-> f.bak]
      /\ UNCHANGED <<given, journal, bound, staged, installed, phase, todo, target,
                     theirs, early, edits, crashes>>
    BY DEF WriteRecoveryLock, history
<1>2. "lock" \in Control /\ control["lock"] \in Files(Text)
    BY Texts DEF TransactionInv, TypeOK
<1>3. /\ control'["lock"] = [control["lock"] EXCEPT !.dst = f.dst]
      /\ \A d \in Control \ {"lock"} : control'[d] = control[d]
    BY <1>1, <1>2 DEF TransactionInv, TypeOK
<1>4. /\ control'["lock"].dst = f.dst /\ control'["lock"].stg = control["lock"].stg
      /\ control'["lock"].bak = control["lock"].bak
      /\ aside'.stg = f.stg /\ aside'.bak = f.bak
    BY <1>1, <1>2, <1>3 DEF Files
<1>5. TypeOK'
    <2>1. [control["lock"] EXCEPT !.dst = f.dst] \in Files(Text)
        BY <1>2 DEF Files
    <2>2. control' \in [Control -> Files(Text)]
        BY <1>1, <2>1 DEF TransactionInv, TypeOK
    <2>3. aside' \in [stg : Text \cup {None}, bak : Text \cup {None}]
        BY <1>1 DEF Files
    <2>4. pc' \in Steps
        BY DEF Steps, RecoverySteps
    <2> QED  BY <1>1, <2>2, <2>3, <2>4 DEF TransactionInv, TypeOK, given
<1>6. Past("manifest") /\ had \subseteq bound.pre /\ JournalThere
    BY DEF TransactionInv, Position, Covered, Unbound, Under, Steps, RecoverySteps,
       PastManifest
<1>7. Durable'
    <2>1. New("lock")' <=> f.dst = "new"
        BY <1>4 DEF New
    <2>2. ASSUME Paired, theirs = {}
          PROVE  Shape(control'["manifest"], control'["lock"], aside', JournalThere)
        <3>1. Shape(control["manifest"], control["lock"], aside, JournalThere)
            BY <2>2 DEF TransactionInv, Durable, Pair
        <3>2. control'["manifest"] = control["manifest"]
            BY <1>3, Texts
        <3>3. f.dst \in {None, "old", "new"}
            BY <2>2, <3>1, Texts DEF Shape, TransactionInv, Durable, Pair, Files, Text
        <3> QED  BY <1>4, <1>6, <2>2, <3>1, <3>2, <3>3 DEF Shape
    <2>3. control'["lock"].bak \notin {Torn, "new"}
        BY <1>2, <1>4 DEF TransactionInv, Durable, Untorn
    <2> QED  BY <1>1, <1>2, <1>3, <1>4, <1>6, <2>1, <2>2, <2>3, LiveWrite
<1>8. Position(pc)' /\ Covered(pc)'
    <2>1. Past("manifest")' /\ had' \subseteq bound'.pre /\ JournalThere'
        BY <1>1, <1>3, <1>6, Texts DEF Past, JournalThere, given
    <2>2. pc' = "recoverVerify" => Past("lock")'
        BY <1>4 DEF Past
    <2> QED  BY <2>1, <2>2 DEF Position, Covered, PastLock
<1>9. Replacing'
    <2>1. busy' => Mid(RecoveryLock, "new")'
        BY <1>4 DEF Mid, RecoveryLock
    <2> QED  BY <2>1 DEF Replacing, JournalLabels
<1>10. Removing'
    BY <1>1 DEF TransactionInv, Removing
<1> QED  BY <1>5, <1>7, <1>8, <1>9, <1>10 DEF TransactionInv

LEMMA RecoverLockInv == TransactionInv /\ RecoverLock => TransactionInv'
PROOF
<1> SUFFICES ASSUME TransactionInv, RecoverLock PROVE TransactionInv'  OBVIOUS
<1>1. pc = "recoverLock" /\ pc # "cleanBack" /\ todo \in Seq(Own)
    BY DEF RecoverLock, TransactionInv, Removing
<1>2. Past("manifest") /\ had \subseteq bound.pre /\ JournalThere
    BY <1>1 DEF TransactionInv, Position, Covered, Unbound, Under, Steps, RecoverySteps,
       PastManifest
<1>3. CASE control["lock"].dst = "new" /\ Decide("recoverVerify")
    <2>1. /\ "recoverVerify" \in Labels \ {"cleanBack"}
          /\ Position("recoverVerify") /\ Covered("recoverVerify")
        BY <1>2, <1>3 DEF Position, Past, Covered, Labels, Steps, RecoverySteps
    <2> QED  BY <1>1, <1>3, <2>1, Deciding
<1>4. CASE control["lock"].dst = bound.lock /\ control["lock"].dst # "new"
           /\ WriteRecoveryLock(Staged(RecoveryLock, "new")) /\ Go("installRecovered")
    <2> DEFINE f == Staged(RecoveryLock, "new")
    <2>1. RecoveryLock \in Files(Text) /\ "new" \in Text /\ "lock" \in Control
        BY Texts DEF TransactionInv, TypeOK, RecoveryLock, Files
    <2>2. /\ f \in Files(Text) /\ f.dst = control["lock"].dst
          /\ f.bak = aside.bak
        BY <2>1, MovesTyped, StagingMoves DEF RecoveryLock
    <2>3. pc' = "installRecovered" /\ busy' = FALSE
        BY <1>4 DEF Go
    <2>4. WriteRecoveryLock(f)
        BY <1>4
    <2> HIDE DEF f
    <2>5. f.dst # Torn /\ f.bak \notin {Torn, "new"}
        BY <2>1, <2>2 DEF TransactionInv, Durable, Untorn
    <2>6. Paired => f.dst # None
        BY <1>4, <2>2, Texts DEF TransactionInv, Durable, Pair
    <2> QED  BY <1>1, <2>2, <2>3, <2>4, <2>5, <2>6, RecoveryMove DEF New
<1>5. CASE Blocked
    BY <1>1, <1>5, Ending
<1> QED  BY <1>3, <1>4, <1>5 DEF RecoverLock

LEMMA InstallRecoveredInv == TransactionInv /\ InstallRecovered => TransactionInv'
PROOF
<1> SUFFICES ASSUME TransactionInv, InstallRecovered PROVE TransactionInv'  OBVIOUS
<1>1. pc = "installRecovered" /\ pc # "cleanBack"
    BY DEF InstallRecovered
<1>2. CASE Blocked
    BY <1>1, <1>2, Ending
<1>3. CASE busy \/ Installable(RecoveryLock, bound.lock, "new")
    <2> DEFINE f == Replaced(RecoveryLock, "new", exchange)
    <2>1. RecoveryLock \in Files(Text) /\ "new" \in Text /\ "lock" \in Control
          /\ None \notin Text
          /\ RecoveryLock.dst = control["lock"].dst /\ RecoveryLock.bak = aside.bak
        BY Texts DEF TransactionInv, TypeOK, RecoveryLock, Files
    <2>2. f \in Files(Text)
        BY <2>1, MovesTyped
    <2>3. Mid(RecoveryLock, "new") \/ Installable(RecoveryLock, bound.lock, "new")
        BY <1>1, <1>3 DEF TransactionInv, Replacing
    <2>4. /\ Mid(f, "new")
          /\ control["lock"].dst \in {None, bound.lock, "new"}
          /\ control["lock"].dst = "new" => f.dst = "new" /\ f.bak \in {None, aside.bak}
          /\ control["lock"].dst = None => f.dst = "new" /\ f.bak = aside.bak
          /\ control["lock"].dst # "new" => f.bak \in {aside.bak, control["lock"].dst}
          /\ f.dst = None => f.bak = control["lock"].dst /\ control["lock"].dst # None
                             /\ f.stg = "new"
        BY <2>1, <2>3, OneMove
    <2>5. WriteRecoveryLock(f) /\ InstallStep(f, "new", "installRecovered", "recoverVerify")
        BY <1>3 DEF InstallRecovered
    <2>6. \/ pc' = "installRecovered" /\ busy' = TRUE
          \/ pc' = "recoverVerify" /\ busy' = FALSE /\ f.dst = "new"
        BY <2>5, SettledFile DEF InstallStep
    <2> HIDE DEF f
    <2>7. f.dst \in {None, "new"}
        BY <2>4 DEF Mid
    <2>8. f.dst # Torn /\ f.bak \notin {Torn, "new"}
        BY <2>1, <2>4, <2>7, Texts DEF TransactionInv, Durable, Untorn
    <2>9. f.dst = None /\ Paired /\ theirs = {} => f.stg = "new" /\ f.bak = "old"
        BY <2>4, Texts DEF TransactionInv, Durable, Pair
    <2> QED  BY <1>1, <2>2, <2>4, <2>5, <2>6, <2>7, <2>8, <2>9, RecoveryMove, Texts DEF New
<1> QED  BY <1>2, <1>3 DEF InstallRecovered

LEMMA RecoverVerifyInv == TransactionInv /\ RecoverVerify => TransactionInv'
PROOF
<1> SUFFICES ASSUME TransactionInv, RecoverVerify PROVE TransactionInv'  OBVIOUS
<1>1. pc = "recoverVerify" /\ pc # "cleanBack" /\ todo \in Seq(Own)
    BY DEF RecoverVerify, TransactionInv, Removing
<1>2. Past("manifest") /\ Past("lock") /\ had \subseteq bound.pre /\ JournalThere
    BY <1>1 DEF TransactionInv, Position, Covered, Unbound, Under, Steps, RecoverySteps,
       PastManifest, PastLock
<1>3. "recoverState" \in Labels \ {"cleanBack"} /\ Position("recoverState")
      /\ Covered("recoverState")
    BY <1>2, AfterLock DEF Covered, Labels, Steps, RecoverySteps
<1> QED  BY <1>1, <1>3, Deciding, Ending DEF RecoverVerify

LEMMA RecoverStateInv == TransactionInv /\ RecoverState => TransactionInv'
PROOF
<1> SUFFICES ASSUME TransactionInv, RecoverState PROVE TransactionInv'  OBVIOUS
<1>1. pc = "recoverState" /\ pc # "cleanBack"
    BY DEF RecoverState
<1>2. Position("cleanForward")
    BY <1>1, AfterLock DEF TransactionInv, Position, Unbound, PastManifest, PastLock
<1>3. CASE kind = "update" /\ (busy \/ target)
           /\ ReplaceControl("state", "recoverState", "recoverState")
    BY <1>1, <1>3, ReplaceState
<1>4. CASE Cleaning("cleanForward", ForwardRemovals)
    BY <1>2, <1>4, CleaningStep, Lists, TodoTyped
<1>5. CASE Blocked
    BY <1>1, <1>5, Ending
<1> QED  BY <1>3, <1>4, <1>5 DEF RecoverState

-----------------------------------------------------------------------------
\* The commit: the plan is bound and staged.
LEMMA CheckInv == TransactionInv /\ Check => TransactionInv'
PROOF
<1> SUFFICES ASSUME TransactionInv, Check PROVE TransactionInv'  OBVIOUS
<1>1. pc = "check" /\ pc # "cleanBack" /\ todo \in Seq(Own)
    BY DEF Check, TransactionInv, Removing
<1>2. CASE Decide("done")
    BY <1>1, <1>2, Deciding, Outside
<1>3. CASE Stale
    BY <1>1, <1>3, Ending
<1>4. CASE /\ Fresh
           /\ bound' = [lock |-> control["lock"].dst, pre |-> Preexisting]
           /\ theirs' = IF Adopts THEN theirs \ {"lock"} ELSE theirs
           /\ Go(IF kind = "manifest" THEN "packObjects"
                 ELSE IF kind = "lock" THEN "stageLock" ELSE "prepare")
           /\ UNCHANGED <<given, disk, phase, todo, target, early, edits, crashes>>
    <2>1. /\ kind' = kind /\ had' = had
          /\ UNCHANGED <<control, aside, journal, staged, installed>>
        BY <1>4 DEF given, disk
    <2>2. control["lock"] \in Files(Text) /\ control["lock"].dst # Torn
        BY Texts DEF TransactionInv, TypeOK, Durable, Untorn
    <2>3. control["lock"].dst \in {None, "old", "new", "foreign"}
        BY <2>2, Texts DEF Files
    <2>4. bound'.lock = control["lock"].dst /\ bound'.pre = installed
        BY <1>4 DEF Preexisting
    <2>5. pc' \in {"packObjects", "stageLock", "prepare"} /\ busy' = FALSE
          /\ (kind = "manifest" => pc' = "packObjects")
        BY <1>4 DEF Go
    <2>6. TypeOK'
        <3>1. bound' \in [lock : {None, "old", "new", "foreign"}, pre : SUBSET Objects]
            BY <1>4, <2>3 DEF Preexisting, TransactionInv, TypeOK
        <3>2. pc' \in Steps /\ theirs' \subseteq Control
            BY <1>4, <2>5 DEF Steps, CommitSteps, TransactionInv, TypeOK
        <3> QED  BY <1>4, <2>5, <3>1, <3>2 DEF TransactionInv, TypeOK, given, disk
    <2>7. \/ Adopts /\ theirs' = theirs \ {"lock"} /\ ~ Paired
          \/ ~ Adopts /\ theirs' = theirs /\ bound'.lock = bound.lock
        BY <1>4, <2>4 DEF Fresh, Adopts, Paired
    <2>8. Untorn' /\ InOrder'
        BY <1>4, <2>1 DEF TransactionInv, Durable, Untorn, InOrder, New, Past
    <2>9. Edited'
        BY <1>4, <2>1, <2>4, <2>7, Texts DEF TransactionInv, Durable, Edited
    <2>10. Found'
        BY <2>1, <2>4 DEF TransactionInv, Durable, Found, New
    <2>11. Pair'
        BY <2>1, <2>7 DEF TransactionInv, Durable, Pair, Paired, Shape, JournalThere
    <2>12. Position(pc)' /\ Covered(pc)'
        BY <2>1, <2>4, <2>5, <2>10 DEF Position, Covered, Under, PastLock, PastManifest, Found
    <2>13. Replacing' /\ Removing'
        BY <1>1, <1>4, <2>5, TodoTyped DEF Replacing, Removing
    <2> QED  BY <2>6, <2>8, <2>9, <2>10, <2>11, <2>12, <2>13 DEF TransactionInv, Durable
<1> QED  BY <1>2, <1>3, <1>4 DEF Check

\* The objects are staged and installed.
LEMMA ObjectStep ==
    ASSUME TransactionInv, NEW s, NEW i, WriteObjects(s, i),
           pc \in {"packObjects", "prepare", "installObjects"}, Go(pc),
           s \in [Objects -> {"none", "partial", "full"}],
           installed \subseteq i, i \subseteq Objects
    PROVE  TransactionInv'
PROOF
<1>1. /\ staged' = s /\ installed' = i /\ pc' = pc /\ busy' = FALSE
      /\ UNCHANGED <<given, control, aside, journal, bound, phase, todo, target, theirs,
                     early, edits, crashes>>
    BY DEF WriteObjects, history, Go
<1>2. TypeOK'
    BY <1>1 DEF TransactionInv, TypeOK, given
<1>3. Durable' /\ Position(pc)'
    <2>1. had \subseteq i
        BY DEF TransactionInv, Durable, Found
    <2>2. New("manifest") /\ kind \notin {"repair", "lock"} => i = Objects
        BY DEF TransactionInv, Durable, Found
    <2>3. Position(pc') 
        BY <1>1 DEF TransactionInv
    <2> QED  BY <1>1, <2>1, <2>2, <2>3, ObjectWrite
<1>4. Covered(pc)'
    BY <1>1 DEF TransactionInv, Covered, JournalThere
<1>5. Replacing' /\ Removing'
    BY <1>1 DEF TransactionInv, Replacing, Removing
<1> QED  BY <1>2, <1>3, <1>4, <1>5 DEF TransactionInv

\* One object is staged, or goes from its staging directory to its place.
LEMMA OneObject ==
    ASSUME TransactionInv, NEW o \in Objects, NEW mark \in {"none", "full"},
           NEW put \in {{}, {o}},
           WriteObjects([staged EXCEPT ![o] = mark], installed \cup put),
           pc \in {"packObjects", "prepare", "installObjects"}, Go(pc)
    PROVE  TransactionInv'
PROOF
<1> DEFINE s == [staged EXCEPT ![o] = mark]
           i == installed \cup put
<1>1. /\ s \in [Objects -> {"none", "partial", "full"}]
      /\ installed \subseteq i /\ i \subseteq Objects /\ WriteObjects(s, i)
    BY DEF TransactionInv, TypeOK
<1> HIDE DEF s, i
<1> QED  BY <1>1, ObjectStep

LEMMA FirstObject ==
    ASSUME NEW S, S \subseteq Objects, S # {}
    PROVE  FirstOf(S) \in S
BY DEF FirstOf, Objects

LEMMA PackObjectsInv == TransactionInv /\ PackObjects => TransactionInv'
PROOF
<1> SUFFICES ASSUME TransactionInv, PackObjects PROVE TransactionInv'  OBVIOUS
<1>1. pc = "packObjects" /\ todo \in Seq(Own)
      /\ staged \in [Objects -> {"none", "partial", "full"}] /\ installed \subseteq Objects
    BY DEF PackObjects, TransactionInv, Removing, TypeOK
<1>2. CASE installed = Objects
    <2>1. had \subseteq bound.pre
        BY <1>1 DEF TransactionInv, Position, Unbound
    <2>2. "stageManifest" \in Labels \ {"cleanBack"} /\ Position("stageManifest")
          /\ Covered("stageManifest")
        BY <1>2, <2>1 DEF Position, Covered, Under, PastLock, PastManifest, Labels, Steps,
           CommitSteps
    <2> QED  BY <1>1, <1>2, <2>2, Deciding DEF PackObjects
<1>3. CASE installed # Objects
    <2> DEFINE o == FirstOf(Objects \ installed)
    <2>1. o \in Objects
        BY <1>1, <1>3, FirstObject
    <2>2. /\ \/ WriteObjects([staged EXCEPT ![o] = "none"], installed \cup {o})
             \/ WriteObjects([staged EXCEPT ![o] = "full"], installed)
          /\ Go("packObjects")
        BY <1>3 DEF PackObjects
    <2> HIDE DEF o
    <2>3. CASE WriteObjects([staged EXCEPT ![o] = "none"], installed \cup {o})
        BY <1>1, <2>1, <2>2, <2>3, OneObject
    <2>4. CASE WriteObjects([staged EXCEPT ![o] = "full"], installed)
        <3>1. WriteObjects([staged EXCEPT ![o] = "full"], installed \cup {})
            <4>1. installed \cup {} = installed
                OBVIOUS
            <4> QED  BY <2>4, <4>1
        <3> QED  BY <1>1, <2>1, <2>2, <3>1, OneObject
    <2> QED  BY <2>2, <2>3, <2>4
<1> QED  BY <1>2, <1>3

LEMMA PrepareInv == TransactionInv /\ Prepare => TransactionInv'
PROOF
<1> SUFFICES ASSUME TransactionInv, Prepare PROVE TransactionInv'  OBVIOUS
<1>1. pc = "prepare" /\ todo \in Seq(Own)
      /\ staged \in [Objects -> {"none", "partial", "full"}] /\ installed \subseteq Objects
    BY DEF Prepare, TransactionInv, Removing, TypeOK
<1> DEFINE missing == {o \in Objects : ~ Ready(o)}
<1>2. CASE missing = {}
    <2>1. had \subseteq bound.pre /\ kind # "manifest"
        BY <1>1 DEF TransactionInv, Position, Unbound
    <2>2. "stageManifest" \in Labels \ {"cleanBack"} /\ Position("stageManifest")
          /\ Covered("stageManifest")
        BY <2>1 DEF Position, Covered, Under, PastLock, PastManifest, Labels, Steps,
           CommitSteps
    <2> QED  BY <1>1, <1>2, <2>2, Deciding DEF Prepare
<1>3. CASE missing # {}
    <2> DEFINE o == FirstOf(missing)
               s == [staged EXCEPT ![o] = IF o \in bound.pre THEN "none" ELSE "full"]
    <2>1. o \in Objects
        BY <1>3, FirstObject
    <2>2. WriteObjects(s, installed) /\ Go("prepare")
        BY <1>3 DEF Prepare
    <2>3. s \in [Objects -> {"none", "partial", "full"}]
        BY <1>1, <2>1
    <2> HIDE DEF s
    <2> QED  BY <1>1, <2>2, <2>3, ObjectStep
<1> QED  BY <1>2, <1>3

LEMMA InstallObjectsInv == TransactionInv /\ InstallObjects => TransactionInv'
PROOF
<1> SUFFICES ASSUME TransactionInv, InstallObjects PROVE TransactionInv'  OBVIOUS
<1>1. pc = "installObjects" /\ pc # "cleanBack" /\ todo \in Seq(Own)
      /\ staged \in [Objects -> {"none", "partial", "full"}] /\ installed \subseteq Objects
    BY DEF InstallObjects, TransactionInv, Removing, TypeOK
<1>2. CASE installed = Objects
    <2>1. had \subseteq bound.pre /\ JournalThere
        BY <1>1 DEF TransactionInv, Position, Covered, Unbound, Under, Steps, CommitSteps
    <2>2. "advanceObjects" \in Labels \ {"cleanBack"} /\ Position("advanceObjects")
          /\ Covered("advanceObjects")
        BY <1>2, <2>1 DEF Position, Covered, PastLock, PastManifest, Labels, Steps, CommitSteps
    <2> QED  BY <1>1, <1>2, <2>2, Deciding DEF InstallObjects
<1>3. CASE installed # Objects
    <2> DEFINE o == FirstOf(Objects \ installed)
    <2>1. o \in Objects
        BY <1>1, <1>3, FirstObject
    <2>2. \/ /\ WriteObjects([staged EXCEPT ![o] = "none"], installed \cup {o})
             /\ Go("installObjects")
          \/ Blocked
        BY <1>3 DEF InstallObjects
    <2> HIDE DEF o
    <2>3. CASE Blocked
        BY <1>1, <2>3, Ending
    <2>4. CASE WriteObjects([staged EXCEPT ![o] = "none"], installed \cup {o})
               /\ Go("installObjects")
        BY <1>1, <2>1, <2>4, OneObject
    <2> QED  BY <2>2, <2>3, <2>4
<1> QED  BY <1>2, <1>3

-----------------------------------------------------------------------------
\* The new texts are staged, and the journal after them.
LEMMA StageControlInv ==
    ASSUME TransactionInv,
           \/ StageControl("manifest", "stageManifest", "stageLock")
           \/ StageControl("lock", "stageLock", "stageState")
           \/ StageControl("state", "stageState", "stageJournal")
    PROVE  TransactionInv'
PROOF
<1>1. PICK c \in Control, next \in {"stageLock", "stageState", "stageJournal"} :
          /\ pc \in {"stageManifest", "stageLock", "stageState"}
          /\ IF c = "state" /\ kind # "update"
             THEN Decide(next)
             ELSE WriteControl(c, Staged(control[c], "new")) /\ Go(next)
    BY Texts DEF StageControl
<1>2. pc # "cleanBack" /\ todo \in Seq(Own) /\ control[c] \in Files(Text) /\ "new" \in Text
    BY <1>1, Texts DEF TransactionInv, Removing, TypeOK
<1>3. had \subseteq bound.pre /\ (kind = "manifest" => installed = Objects)
    BY <1>1 DEF TransactionInv, Position, Unbound
<1>4. next \in Labels \ {"cleanBack"} /\ Position(next) /\ Covered(next)
    BY <1>3 DEF Position, Covered, Under, PastLock, PastManifest, Labels, Steps, CommitSteps
<1>5. CASE Decide(next)
    BY <1>2, <1>4, <1>5, Deciding
<1>6. CASE WriteControl(c, Staged(control[c], "new")) /\ Go(next)
    <2> DEFINE f == Staged(control[c], "new")
    <2>1. /\ f \in Files(Text) /\ f.dst = control[c].dst /\ f.bak = control[c].bak
          /\ f.stg = "new" /\ WriteControl(c, f)
        BY <1>2, <1>6, MovesTyped, StagingMoves
    <2>2. pc' = next /\ busy' = FALSE
        BY <1>6 DEF Go
    <2> HIDE DEF f
    <2> QED  BY <1>2, <1>4, <2>1, <2>2, StagingStep
<1> QED  BY <1>1, <1>5, <1>6

\* One call of the guarded replacement of the journal that goes ahead.
LEMMA JournalReplaced ==
    ASSUME TransactionInv, pc \in JournalLabels, NEW old,
           busy \/ Installable(journal, old, Aim(pc))
    PROVE  LET f == Replaced(journal, Aim(pc), exchange)
           IN  /\ f \in Files(Phases \cup {Torn}) /\ f.dst # Torn /\ f.bak # Torn
               /\ Mid(f, Aim(pc)) /\ (f.dst # None \/ f.bak # None)
PROOF
<1> DEFINE T == Phases \cup {Torn}
           f == Replaced(journal, Aim(pc), exchange)
<1>1. Aim(pc) \in Phases /\ Aim(pc) \in T /\ None \notin T
    BY Texts DEF Aim
<1>2. journal \in Files(T) /\ journal.dst # Torn /\ journal.bak # Torn
    BY DEF TransactionInv, TypeOK, Durable, Untorn
<1>3. Mid(journal, Aim(pc)) \/ Installable(journal, old, Aim(pc))
    BY DEF TransactionInv, Replacing
<1>4. f \in Files(T)
    BY <1>2, MovesTyped
<1> HIDE DEF T
<1>5. /\ Mid(f, Aim(pc))
      /\ journal.dst = Aim(pc) => f.dst = Aim(pc) /\ f.bak \in {None, journal.bak}
      /\ journal.dst = None => f.dst = Aim(pc) /\ f.bak = journal.bak
      /\ journal.dst # Aim(pc) => f.bak \in {journal.bak, journal.dst}
      /\ f.dst = None => f.bak = journal.dst /\ journal.dst # None /\ f.stg = Aim(pc)
    BY <1>1, <1>2, <1>3, OneMove
<1> HIDE DEF f
<1>6. f.dst # Torn /\ f.bak # Torn
    BY <1>1, <1>2, <1>5, Texts DEF Mid
<1>7. f.dst # None \/ f.bak # None
    BY <1>5
<1> QED  BY <1>4, <1>5, <1>6, <1>7 DEF f, T

LEMMA StageJournalInv == TransactionInv /\ StageJournal => TransactionInv'
PROOF
<1> SUFFICES ASSUME TransactionInv, StageJournal PROVE TransactionInv'  OBVIOUS
<1>1. pc = "stageJournal" /\ pc # "cleanBack" /\ todo \in Seq(Own) /\ phase \in Phases
      /\ journal \in Files(Phases \cup {Torn}) /\ journal.dst # Torn /\ journal.bak # Torn
    BY DEF StageJournal, TransactionInv, Removing, TypeOK, Durable, Untorn
<1>2. had \subseteq bound.pre /\ (kind = "manifest" => installed = Objects)
    BY <1>1 DEF TransactionInv, Position, Unbound
<1>3. CASE Blocked
    BY <1>1, <1>3, Ending
<1>4. CASE WriteJournal(Staged(journal, Prepared)) /\ UNCHANGED phase /\ Go("firstJournal")
    <2> DEFINE f == Staged(journal, Prepared)
    <2>1. /\ f \in Files(Phases \cup {Torn}) /\ WriteJournal(f)
          /\ f.dst = journal.dst /\ f.bak = journal.bak
        BY <1>1, <1>4, Texts, MovesTyped, StagingMoves
    <2>2. pc' = "firstJournal" /\ busy' = FALSE /\ phase' \in Phases
        BY <1>1, <1>4 DEF Go
    <2>3. "firstJournal" \in Labels \ {"cleanBack"} /\ "firstJournal" \notin Under
          /\ Position("firstJournal")
        BY <1>2 DEF Position, Under, PastLock, PastManifest, Labels, Steps, CommitSteps
    <2> HIDE DEF f
    <2> QED  BY <1>1, <1>2, <2>1, <2>2, <2>3, JournalStep DEF JournalThere
<1> QED  BY <1>3, <1>4 DEF StageJournal

LEMMA FirstJournalInv == TransactionInv /\ FirstJournal => TransactionInv'
PROOF
<1> SUFFICES ASSUME TransactionInv, FirstJournal PROVE TransactionInv'  OBVIOUS
<1>1. pc = "firstJournal" /\ pc # "cleanBack" /\ pc \in JournalLabels /\ Aim(pc) = Prepared
      /\ todo \in Seq(Own)
    BY DEF FirstJournal, TransactionInv, Removing, JournalLabels, Aim
<1>2. had \subseteq bound.pre /\ (kind = "manifest" => installed = Objects)
    BY <1>1 DEF TransactionInv, Position, Unbound
<1>3. kind = "lock" => Past("manifest")
    BY DEF TransactionInv, Durable, InOrder
<1>4. CASE Blocked
    BY <1>1, <1>4, Ending
<1>5. CASE busy \/ Installable(journal, None, Prepared)
    <2> DEFINE f == Replaced(journal, Prepared, exchange)
               next == CASE kind = "manifest" -> "commitManifest"
                         [] kind = "lock"     -> "commitLock"
                         [] OTHER             -> "revalidateObjects"
    <2>1. /\ f \in Files(Phases \cup {Torn}) /\ f.dst # Torn /\ f.bak # Torn
          /\ Mid(f, Prepared) /\ (f.dst # None \/ f.bak # None)
        BY <1>1, <1>5, JournalReplaced
    <2>2. WriteJournal(f) /\ phase' = Prepared
          /\ InstallStep(f, Prepared, "firstJournal", next)
        BY <1>5 DEF FirstJournal
    <2>3. next \in {"commitManifest", "commitLock", "revalidateObjects"}
          /\ (next = "commitManifest" => kind = "manifest")
          /\ (next = "commitLock" => kind = "lock")
        OBVIOUS
    <2> HIDE DEF f, next
    <2>4. \/ pc' = "firstJournal" /\ busy' = TRUE
          \/ pc' = next /\ busy' = FALSE
        BY <2>2 DEF InstallStep
    <2>5. next \in Labels \ {"cleanBack"} /\ "firstJournal" \in Labels \ {"cleanBack"}
        BY <2>3 DEF Labels, Steps, CommitSteps
    <2>6. Position(next)
        BY <1>2, <1>3, <2>3 DEF Position, PastLock, PastManifest
    <2>7. Position("firstJournal")
        BY <1>1 DEF TransactionInv
    <2> QED  BY <1>1, <1>2, <2>1, <2>2, <2>4, <2>5, <2>6, <2>7, Texts, JournalStep
<1> QED  BY <1>4, <1>5 DEF FirstJournal

\* The journal advances to the next phase.
LEMMA AdvanceStep ==
    ASSUME TransactionInv, NEW label \in JournalLabels \ {"firstJournal"},
           NEW next \in {"revalidateManifest", "commitLock", "commitState", "verify",
                         "advanceComplete", "finish"},
           AdvanceTo(Aim(label), label, next), Position(next)
    PROVE  TransactionInv'
PROOF
<1>1. pc = label /\ pc # "cleanBack" /\ pc \in JournalLabels /\ todo \in Seq(Own)
    BY DEF AdvanceTo, TransactionInv, Removing, JournalLabels
<1>2. had \subseteq bound.pre /\ JournalThere /\ Position(label)
    BY <1>1 DEF TransactionInv, Position, Covered, Unbound, Under, Steps, CommitSteps,
       JournalLabels
<1>3. journal \in Files(Phases \cup {Torn}) /\ journal.dst # Torn /\ journal.bak # Torn
      /\ phase \in Phases /\ Aim(label) \in Phases
    BY Texts DEF TransactionInv, TypeOK, Durable, Untorn, Aim
<1>4. {next, label} \subseteq Labels \ {"cleanBack"}
    BY DEF Labels, Steps, CommitSteps, JournalLabels
<1>5. CASE Blocked
    BY <1>1, <1>5, Ending
<1>6. CASE /\ WriteJournal(Staged(journal, Aim(label)))
           /\ phase' = IF Staged(journal, Aim(label)) = Settled(Aim(label)) THEN Aim(label)
                       ELSE phase
           /\ Go(label)
    <2> DEFINE f == Staged(journal, Aim(label))
    <2>1. /\ f \in Files(Phases \cup {Torn}) /\ WriteJournal(f)
          /\ f.dst = journal.dst /\ f.bak = journal.bak
        BY <1>3, <1>6, MovesTyped, StagingMoves
    <2>2. pc' = label /\ busy' = FALSE /\ phase' \in Phases
        BY <1>3, <1>6 DEF Go
    <2> HIDE DEF f
    <2> QED  BY <1>1, <1>2, <1>3, <1>4, <2>1, <2>2, JournalStep DEF JournalThere
<1>7. CASE busy \/ Installable(journal, phase, Aim(label))
    <2> DEFINE f == Replaced(journal, Aim(label), exchange)
    <2>1. /\ f \in Files(Phases \cup {Torn}) /\ f.dst # Torn /\ f.bak # Torn
          /\ Mid(f, Aim(label)) /\ (f.dst # None \/ f.bak # None)
        BY <1>1, <1>7, JournalReplaced
    <2>2. CASE /\ WriteJournal(f) /\ phase' = (IF f = Settled(Aim(label)) THEN Aim(label) ELSE phase)
               /\ InstallStep(f, Aim(label), label, next)
        <3>1. phase' \in Phases
            BY <1>3, <2>2
        <3> HIDE DEF f
        <3>2. \/ pc' = label /\ busy' = TRUE
              \/ pc' = next /\ busy' = FALSE
            BY <2>2 DEF InstallStep
        <3> QED  BY <1>1, <1>2, <1>4, <2>1, <2>2, <3>1, <3>2, JournalStep
    <2> QED  BY <1>5, <1>6, <1>7, <2>2 DEF AdvanceTo
<1> QED  BY <1>5, <1>6, <1>7 DEF AdvanceTo

LEMMA AdvanceInv ==
    ASSUME TransactionInv,
           \/ AdvanceTo(ObjectsInstalled, "advanceObjects", "revalidateManifest")
           \/ AdvanceTo(ManifestCommitted, "advanceManifest", "commitLock")
           \/ AdvanceTo(LockCommitted, "advanceLock", "commitState")
           \/ AdvanceTo(StateCommitted, "advanceState", "verify")
           \/ AdvanceTo(Verified, "advanceVerified", "advanceComplete")
           \/ AdvanceTo(Complete, "advanceComplete", "finish")
    PROVE  TransactionInv'
PROOF
<1>1. PICK label \in JournalLabels \ {"firstJournal"},
           next \in {"revalidateManifest", "commitLock", "commitState", "verify",
                     "advanceComplete", "finish"} :
          /\ AdvanceTo(Aim(label), label, next)
          /\ next = "revalidateManifest" => label = "advanceObjects"
          /\ next # "revalidateManifest" => label \in PastManifest
          /\ next \in PastLock => label \in PastLock
    <2>1. CASE AdvanceTo(ObjectsInstalled, "advanceObjects", "revalidateManifest")
        BY <2>1 DEF JournalLabels, Aim, PastLock, PastManifest
    <2>2. CASE AdvanceTo(ManifestCommitted, "advanceManifest", "commitLock")
        BY <2>2 DEF JournalLabels, Aim, PastLock, PastManifest
    <2>3. CASE AdvanceTo(LockCommitted, "advanceLock", "commitState")
        BY <2>3 DEF JournalLabels, Aim, PastLock, PastManifest
    <2>4. CASE AdvanceTo(StateCommitted, "advanceState", "verify")
        BY <2>4 DEF JournalLabels, Aim, PastLock, PastManifest
    <2>5. CASE AdvanceTo(Verified, "advanceVerified", "advanceComplete")
        BY <2>5 DEF JournalLabels, Aim, PastLock, PastManifest
    <2>6. CASE AdvanceTo(Complete, "advanceComplete", "finish")
        BY <2>6 DEF JournalLabels, Aim, PastLock, PastManifest
    <2> QED  BY <2>1, <2>2, <2>3, <2>4, <2>5, <2>6
<1>2. pc = label
    BY <1>1 DEF AdvanceTo
<1>3. /\ had \subseteq bound.pre
      /\ label = "advanceObjects" => installed = Objects
      /\ label \in PastManifest => Past("manifest")
      /\ label \in PastLock => Past("lock")
    BY <1>2 DEF TransactionInv, Position, Unbound, JournalLabels
<1>4. Position(next)
    BY <1>1, <1>3 DEF Position, PastLock, PastManifest
<1> QED  BY <1>1, <1>4, AdvanceStep

-----------------------------------------------------------------------------
\* The looks that are taken between the writes, and the end of the commit.
LEMMA RevalidateInv ==
    ASSUME TransactionInv,
           \/ Revalidate("revalidateObjects", "installObjects")
           \/ Revalidate("revalidateManifest", "commitManifest")
           \/ Verify
    PROVE  TransactionInv'
PROOF
<1>1. PICK next \in {"installObjects", "commitManifest", "advanceVerified"} :
          /\ next = "installObjects" => pc = "revalidateObjects"
          /\ next = "commitManifest" => pc = "revalidateManifest"
          /\ next = "advanceVerified" => pc = "verify"
          /\ Decide(next) \/ Stale \/ Blocked
    BY DEF Revalidate, Verify
<1>2. pc # "cleanBack" /\ todo \in Seq(Own)
    BY <1>1 DEF TransactionInv, Removing
<1>3. /\ had \subseteq bound.pre /\ JournalThere
      /\ next = "commitManifest" => installed = Objects
      /\ next = "advanceVerified" => Past("manifest") /\ Past("lock")
    BY <1>1 DEF TransactionInv, Position, Covered, Unbound, Under, Steps, CommitSteps,
       PastManifest, PastLock
<1>4. next \in Labels \ {"cleanBack"} /\ Position(next) /\ Covered(next)
    BY <1>3 DEF Position, Covered, PastLock, PastManifest, Labels, Steps, CommitSteps
<1> QED  BY <1>1, <1>2, <1>4, Deciding, Ending

LEMMA FinishInv == TransactionInv /\ Finish => TransactionInv'
PROOF
<1> SUFFICES ASSUME TransactionInv, Finish PROVE TransactionInv'  OBVIOUS
<1>1. pc = "finish" /\ Cleaning("cleanForward", CommitRemovals)
    BY DEF Finish
<1>2. Past("manifest") /\ Past("lock") /\ had \subseteq bound.pre
    BY <1>1 DEF TransactionInv, Position, Unbound, PastManifest, PastLock
<1> QED  BY <1>1, <1>2, AfterLock, CleaningStep, Lists, TodoTyped

-----------------------------------------------------------------------------
\* The cleanups.  The files that are left agree before the journal goes.
LEMMA CleaningFiles ==
    ASSUME TransactionInv, pc \in {"cleanBack", "cleanForward"}, Paired, theirs = {}
    PROVE  /\ control["manifest"].dst # None /\ control["lock"].dst # None
           /\ New("manifest") => New("lock")
PROOF
<1>1. Shape(control["manifest"], control["lock"], aside, JournalThere)
    BY DEF TransactionInv, Durable, Pair
<1>2. CASE pc = "cleanBack"
    BY <1>1, <1>2 DEF TransactionInv, Position, Paired
<1>3. CASE pc = "cleanForward"
    BY <1>1, <1>3, Texts DEF TransactionInv, Position, PastManifest, PastLock, Past, New, Shape
<1> QED  BY <1>2, <1>3

\* One removal: an object, a file of the journal, or a staging or backup file.
LEMMA Removal ==
    ASSUME TransactionInv, pc \in {"cleanBack", "cleanForward"}, todo # <<>>, RemoveOne
    PROVE  /\ Tail(todo) \in Seq(Own \cup Removed) /\ (pc # "cleanBack" => Tail(todo) \in Seq(Own))
           /\ \/ /\ pc = "cleanBack"
                 /\ \E o \in Objects :
                       /\ staged' = (IF ClearsStaging(o) THEN [staged EXCEPT ![o] = "none"]
                                                         ELSE staged)
                       /\ installed' = (IF RemovesObject(o) THEN installed \ {o} ELSE installed)
                       /\ UNCHANGED <<control, journal>>
              \/ /\ \E which \in {"live", "staging", "backup"} : journal' = FileGone(journal, which)
                 /\ UNCHANGED <<control, staged, installed>>
              \/ /\ \E c \in Control : \E which \in {"staging", "backup"} :
                        control' = [control EXCEPT ![c] = FileGone(control[c], which)]
                 /\ UNCHANGED <<journal, staged, installed>>
PROOF
<1>1. todo \in Seq(Own \cup Removed) /\ (pc # "cleanBack" => todo \in Seq(Own))
    BY DEF TransactionInv, Removing
<1>2. Tail(todo) \in Seq(Own \cup Removed) /\ Head(todo) \in Own \cup Removed
    BY <1>1
<1>3. pc # "cleanBack" => Tail(todo) \in Seq(Own) /\ Head(todo) \in Own
    BY <1>1
<1> DEFINE which == Head(todo)[1]
           what  == Head(todo)[2]
<1>4. \/ which = "object" /\ what \in Objects /\ Head(todo) \in Removed
      \/ which \in {"live", "staging", "backup"} /\ what = "journal"
      \/ which \in {"staging", "backup"} /\ what \in Control
    BY <1>2 DEF Own, Removed
<1>5. Head(todo) \in Own => which # "object"
    BY DEF Own
<1>6. "journal" \notin Control
    BY Texts
<1>7. /\ IF which = "object"
         THEN /\ staged' = IF ClearsStaging(what) THEN [staged EXCEPT ![what] = "none"]
                                                  ELSE staged
              /\ installed' = IF RemovesObject(what) THEN installed \ {what} ELSE installed
              /\ UNCHANGED <<control, journal>>
         ELSE IF what = "journal"
         THEN journal' = FileGone(journal, which) /\ UNCHANGED <<control, staged, installed>>
         ELSE /\ control' = [control EXCEPT ![what] = FileGone(control[what], which)]
              /\ UNCHANGED <<journal, staged, installed>>
    BY DEF RemoveOne
<1> HIDE DEF which, what
<1>8. CASE which = "object"
    BY <1>2, <1>3, <1>4, <1>5, <1>7, <1>8
<1>9. CASE which # "object" /\ what = "journal"
    BY <1>2, <1>3, <1>4, <1>6, <1>7, <1>9
<1>10. CASE which # "object" /\ what # "journal"
    BY <1>2, <1>3, <1>4, <1>7, <1>10
<1> QED  BY <1>8, <1>9, <1>10

LEMMA FileRemoved ==
    ASSUME NEW T, NEW f \in Files(T), NEW which \in {"live", "staging", "backup"}
    PROVE  LET g == FileGone(f, which)
           IN  /\ g \in Files(T)
               /\ g.dst \in {None, f.dst} /\ (which # "live" => g.dst = f.dst)
               /\ g.bak \in {None, f.bak}
BY DEF Files, FileGone, StagingGone, BackupGone

LEMMA RemoveInv ==
    ASSUME TransactionInv, pc \in {"cleanBack", "cleanForward"}, todo # <<>>, RemoveOne
    PROVE  TransactionInv'
PROOF
<1>1. /\ todo' = Tail(todo) /\ pc' = pc
      /\ UNCHANGED <<given, aside, bound, pc, phase, busy, target, theirs, early,
                     edits, crashes>>
    BY DEF RemoveOne, history
<1>2. todo' \in Seq(Own \cup Removed) /\ (pc' # "cleanBack" => todo' \in Seq(Own))
    BY <1>1, Removal
<1>3. Removing' /\ Replacing' /\ todo' \in Seq(Removals)
    BY <1>1, <1>2, TodoTyped DEF Removing, Replacing, JournalLabels
<1>4. Covered(pc)'
    BY <1>1 DEF Covered, Under
<1>5. had \subseteq bound.pre /\ Position(pc')
    BY <1>1 DEF TransactionInv, Position, Unbound
<1>6. ASSUME NEW o \in Objects, pc = "cleanBack",
             staged' = (IF ClearsStaging(o) THEN [staged EXCEPT ![o] = "none"] ELSE staged),
             installed' = (IF RemovesObject(o) THEN installed \ {o} ELSE installed),
             UNCHANGED <<control, journal>>
      PROVE  TransactionInv'
    <2>1. had \subseteq installed'
        BY <1>5, <1>6 DEF RemovesObject, TransactionInv, Durable, Found
    <2>2. kind \notin {"repair", "lock"} => ~ New("manifest")
        BY <1>6 DEF TransactionInv, Position
    <2>3. TypeOK'
        BY <1>1, <1>3, <1>6 DEF TransactionInv, TypeOK, given
    <2>4. Durable' /\ Position(pc)'
        BY <1>1, <1>5, <1>6, <2>1, <2>2, ObjectWrite
    <2> QED  BY <1>3, <1>4, <2>3, <2>4 DEF TransactionInv
<1>7. ASSUME NEW which \in {"live", "staging", "backup"}, journal' = FileGone(journal, which),
             UNCHANGED <<control, staged, installed>>
      PROVE  TransactionInv'
    <2>1. journal \in Files(Phases \cup {Torn}) /\ journal.dst # Torn /\ journal.bak # Torn
          /\ None # Torn
        BY Texts DEF TransactionInv, TypeOK, Durable, Untorn
    <2>2. /\ journal' \in Files(Phases \cup {Torn})
          /\ journal'.dst \in {None, journal.dst} /\ journal'.bak \in {None, journal.bak}
        BY <1>7, <2>1, FileRemoved
    <2>3. journal'.dst # Torn /\ journal'.bak # Torn
        BY <2>1, <2>2
    <2>4. Durable' /\ Position(pc)'
        BY <1>1, <1>5, <1>7, <2>3, CleaningFiles, JournalWrite
    <2>5. TypeOK'
        BY <1>1, <1>3, <1>7, <2>2 DEF TransactionInv, TypeOK, given
    <2> QED  BY <1>3, <1>4, <2>4, <2>5 DEF TransactionInv
<1>8. ASSUME NEW c \in Control, NEW which \in {"staging", "backup"},
             control' = [control EXCEPT ![c] = FileGone(control[c], which)],
             UNCHANGED <<journal, staged, installed>>
      PROVE  TransactionInv'
    <2> DEFINE f == FileGone(control[c], which)
    <2>1. control[c] \in Files(Text) /\ control \in [Control -> Files(Text)]
        BY DEF TransactionInv, TypeOK
    <2>2. f \in Files(Text) /\ f.dst = control[c].dst /\ f.bak \in {None, control[c].bak}
        BY <2>1, FileRemoved
    <2>3. control' = [control EXCEPT ![c] = f]
        BY <1>8
    <2> HIDE DEF f
    <2>4. \A d \in Control : control'[d] = IF d = c THEN f ELSE control[d]
        BY <2>1, <2>3
    <2>5. TypeOK'
        <3>1. control' \in [Control -> Files(Text)]
            BY <2>1, <2>2, <2>3
        <3> QED  BY <1>1, <1>3, <1>8, <3>1 DEF TransactionInv, TypeOK, given
    <2>6. \A d \in Control : control'[d].dst = control[d].dst
        BY <2>2, <2>4
    <2>7. ASSUME Paired, theirs = {}
          PROVE  Shape(control'["manifest"], control'["lock"], aside', JournalThere)
        <3>1. Shape(control["manifest"], control["lock"], aside, JournalThere)
            BY <2>7 DEF TransactionInv, Durable, Pair
        <3>2. /\ control'["manifest"].dst = control["manifest"].dst
              /\ control'["lock"].dst = control["lock"].dst
            BY <2>6, Texts
        <3>3. control["manifest"].dst # None /\ control["lock"].dst # None
            BY <2>7, CleaningFiles
        <3> QED  BY <3>1, <3>2, <3>3 DEF Shape
    <2>8. Durable'
        <3>1. control'[c].dst = control[c].dst /\ \A d \in Control \ {c} : control'[d] = control[d]
            BY <2>2, <2>4
        <3>2. control'[c].dst # Torn /\ control'[c].bak \notin {Torn, "new"}
              /\ aside'.bak \notin {Torn, "new"}
            BY <1>1, <2>2, <2>4, Texts DEF TransactionInv, Durable, Untorn
        <3>3. New(c)' <=> New(c)
            BY <3>1 DEF New
        <3> QED  BY <1>1, <1>8, <2>7, <3>1, <3>2, <3>3, LiveWrite
    <2>9. Position(pc)'
        <3>1. kind' = kind /\ had' = had
            BY <1>1 DEF given
        <3>2. \A d \in Control : (New(d)' <=> New(d)) /\ (Past(d)' <=> Past(d))
            BY <2>6 DEF New, Past
        <3>3. "manifest" \in Control /\ "lock" \in Control
            BY Texts
        <3> QED  BY <1>1, <1>5, <1>8, <2>6, <3>1, <3>2, <3>3 DEF Position, Paired
    <2> QED  BY <1>3, <1>4, <2>5, <2>8, <2>9 DEF TransactionInv
<1> QED  BY <1>6, <1>7, <1>8, Removal

LEMMA CleanInv ==
    ASSUME TransactionInv, NEW next \in {"check", "done"},
           Clean("cleanBack", next) \/ Clean("cleanForward", next)
    PROVE  TransactionInv'
PROOF
<1>1. pc \in {"cleanBack", "cleanForward"}
    BY DEF Clean
<1>2. CASE todo = <<>> /\ Decide(next)
    BY <1>2, Deciding, Outside
<1>3. CASE todo # <<>> /\ RemoveOne
    BY <1>1, <1>3, RemoveInv
<1> QED  BY <1>2, <1>3 DEF Clean

-----------------------------------------------------------------------------
\* The editor.  Nothing is being replaced when it strikes.
LEMMA EditInv ==
    ASSUME TransactionInv, NEW c \in Control, Edit(c)
    PROVE  TransactionInv'
PROOF
<1>1. /\ control[c].dst # "foreign" /\ control' = [control EXCEPT ![c].dst = "foreign"]
      /\ theirs' = (IF Old(c) = "foreign" THEN theirs ELSE theirs \cup {c})
      /\ edits < MaxEdits /\ edits' = edits + 1 /\ ~ busy /\ pc # "done"
      /\ UNCHANGED <<given, aside, journal, bound, staged, installed, pc, phase, todo, busy,
                     crashes, target, early>>
    BY DEF Edit, Edits
<1>2. control[c] \in Files(Text) /\ control \in [Control -> Files(Text)] /\ edits \in Nat
      /\ MaxEdits \in Nat
    BY TransactionAssumption DEF TransactionInv, TypeOK
<1>3. /\ control'[c].dst = "foreign" /\ control'[c].bak = control[c].bak
      /\ control'[c].stg = control[c].stg /\ control'[c] \in Files(Text)
      /\ \A d \in Control \ {c} : control'[d] = control[d]
    BY <1>1, <1>2, Texts DEF Files
<1>4. Old(c) = "foreign" <=> c = "lock" /\ bound.lock = "foreign"
    BY OldTexts, Texts DEF TransactionInv
<1>5. kind' = kind /\ had' = had
    BY <1>1 DEF given
<1>6. edits' \in 0 .. MaxEdits /\ edits' # 0
    BY <1>1, <1>2 DEF TransactionInv, TypeOK
<1>7. TypeOK'
    <2>1. control' \in [Control -> Files(Text)]
        BY <1>1, <1>2, <1>3
    <2> QED  BY <1>1, <1>6, <2>1 DEF TransactionInv, TypeOK, given
<1>8. \A d \in Control : /\ New(d)' => New(d) /\ d # c
                         /\ Past(d) => Past(d)'
    BY <1>3, Texts DEF New, Past
<1>9. Untorn'
    BY <1>1, <1>3, Texts DEF TransactionInv, Durable, Untorn
<1>10. Edited'
    BY <1>1, <1>3, <1>4, <1>6 DEF TransactionInv, Durable, Edited, TypeOK
<1>11. Found'
    BY <1>1, <1>5, <1>8, Texts DEF TransactionInv, Durable, Found
<1>12. InOrder'
    BY <1>1, <1>5, <1>8, Texts DEF TransactionInv, Durable, InOrder
<1>13. Pair' /\ (Paired => theirs' # {})
    BY <1>1, <1>4, <1>5, Texts DEF TransactionInv, Durable, Pair, Paired
<1>14. Position(pc)'
    <2>1. kind \notin {"repair", "lock"} /\ ~ New("manifest") => ~ New("manifest")'
        BY <1>8, Texts
    <2> QED  BY <1>1, <1>5, <1>8, <1>13, <2>1, Texts DEF TransactionInv, Position, Paired
<1>15. Covered(pc)' /\ Replacing' /\ Removing'
    BY <1>1 DEF TransactionInv, Covered, JournalThere, Replacing, Removing
<1> QED  BY <1>7, <1>9, <1>10, <1>11, <1>12, <1>13, <1>14, <1>15 DEF TransactionInv, Durable

LEMMA EditTargetInv == TransactionInv /\ EditTarget => TransactionInv'
PROOF
<1> SUFFICES ASSUME TransactionInv, EditTarget PROVE TransactionInv'  OBVIOUS
<1>1. /\ kind = "update" /\ target' = FALSE
      /\ early' = (control["lock"].dst # "new" /\ "lock" \notin theirs)
      /\ edits < MaxEdits /\ edits' = edits + 1 /\ ~ busy
      /\ UNCHANGED <<given, aside, journal, bound, staged, installed, pc, phase, todo, busy,
                     crashes, control, theirs>>
    BY DEF EditTarget, Edits
<1>2. edits' \in 0 .. MaxEdits /\ edits' # 0 /\ early' \in BOOLEAN
    BY <1>1, TransactionAssumption DEF TransactionInv, TypeOK
<1>3. kind' = kind /\ had' = had
    BY <1>1 DEF given
<1>4. TypeOK'
    BY <1>1, <1>2 DEF TransactionInv, TypeOK, given
<1>5. InOrder'
    <2>1. New("state") => ~ early'
        <3>1. ASSUME New("state") PROVE control["lock"].dst = "new" \/ "lock" \in theirs
            BY <1>1, <3>1, Texts DEF TransactionInv, Durable, InOrder, Past, Edited, Pair, Paired
        <3> QED  BY <1>1, <3>1
    <2> QED  BY <1>1, <1>3, <2>1 DEF TransactionInv, Durable, InOrder, New, Past
<1>6. Untorn' /\ Edited' /\ Found' /\ Pair'
    BY <1>1, <1>2, <1>3 DEF TransactionInv, Durable, Untorn, Edited, Found, Pair, Paired,
       Shape, JournalThere, New
<1>7. Position(pc)'
    BY <1>1, <1>3 DEF TransactionInv, Position, Paired, New, Past
<1>8. Covered(pc)' /\ Replacing' /\ Removing'
    BY <1>1 DEF TransactionInv, Covered, JournalThere, Replacing, Removing
<1> QED  BY <1>4, <1>5, <1>6, <1>7, <1>8 DEF TransactionInv, Durable

-----------------------------------------------------------------------------
(***************************************************************************)
(* The invariant holds at the start and is kept by every step.             *)
(***************************************************************************)
LEMMA InitInv == Init => TransactionInv
PROOF
<1> SUFFICES ASSUME Init PROVE TransactionInv  OBVIOUS
<1>1. /\ kind \in Kinds /\ exchange \in BOOLEAN /\ had \subseteq Objects
      /\ control = [c \in Control |-> Settled(Old(c))]
      /\ aside = [stg |-> None, bak |-> None] /\ journal = Settled(None)
      /\ staged = [o \in Objects |-> "none"] /\ installed = had /\ target = TRUE
      /\ pc = "idle" /\ phase = Prepared /\ todo = <<>> /\ busy = FALSE
      /\ theirs = {} /\ early = FALSE /\ edits = 0 /\ crashes = 0
    BY DEF Init
<1>2. referenced \subseteq Objects
    BY DEF Init
<1>3. /\ bound \in [lock : {None, "old", "new"}, pre : {{}}]
      /\ Paired => bound.lock = "old"
      /\ bound.lock = "new" => kind = "repair"
    BY Texts DEF Init, PriorLocks, Paired
<1>4. /\ Old("lock") = bound.lock /\ Old("state") = "old"
      /\ Old("manifest") = IF kind \in {"repair", "lock"} THEN "new" ELSE "old"
    BY DEF Old
<1>5. \A c \in Control : control[c] = [dst |-> Old(c), stg |-> None, bak |-> None]
    BY <1>1 DEF Settled
<1>6. Control = {"manifest", "lock", "state"}
    BY Texts
<1>7. \A c \in Control : /\ control[c].dst = Old(c) /\ control[c].bak = None
                         /\ control[c].stg = None
                         /\ Old(c) \in {None, "old", "new"}
    BY <1>3, <1>4, <1>5, <1>6
<1>8. TypeOK
    <2>1. control \in [Control -> Files(Text)]
        <3>1. \A c \in Control : Settled(Old(c)) \in Files(Text)
            BY <1>7, Texts DEF Settled, Files
        <3> QED  BY <1>1, <3>1
    <2>2. bound \in [lock : {None, "old", "new", "foreign"}, pre : SUBSET Objects]
        BY <1>3
    <2>3. journal \in Files(Phases \cup {Torn})
        BY <1>1 DEF Files, Settled
    <2>4. edits \in 0 .. MaxEdits /\ crashes \in 0 .. MaxCrashes
        BY <1>1, TransactionAssumption
    <2>5. aside \in [stg : Text \cup {None}, bak : Text \cup {None}]
        BY <1>1
    <2>6. todo \in Seq(Removals) /\ staged \in [Objects -> {"none", "partial", "full"}]
        BY <1>1
    <2>7. /\ pc \in Steps \cup {"idle", "stale", "blocked", "done"} /\ phase \in Phases
          /\ theirs \subseteq Control /\ installed \subseteq Objects
          /\ target \in BOOLEAN /\ busy \in BOOLEAN
          /\ early \in BOOLEAN
        BY <1>1, Texts
    <2> QED  BY <1>1, <1>2, <2>1, <2>2, <2>3, <2>4, <2>5, <2>6, <2>7 DEF TypeOK
<1>9. Untorn
    BY <1>1, <1>7, Texts DEF Untorn, Settled
<1>10. Edited
    BY <1>1, <1>3, <1>7, Texts DEF Edited
<1>11. Found /\ InOrder
    BY <1>1, <1>3, <1>4, <1>6, <1>7, Texts DEF Found, InOrder, Held, Settled, New, Past
<1>12. Pair
    <2>1. Paired => kind \notin {"repair", "lock"}
        BY DEF Paired
    <2> QED  BY <1>3, <1>4, <1>6, <1>7, <2>1, Texts DEF Pair, Shape
<1>13. Position(pc) /\ Covered(pc)
    BY <1>1, Outside
<1>14. Replacing /\ Removing
    BY <1>1, TodoTyped DEF Replacing, Removing
<1> QED  BY <1>8, <1>9, <1>10, <1>11, <1>12, <1>13, <1>14 DEF TransactionInv, Durable

LEMMA StepInv == TransactionInv /\ Step => TransactionInv'
PROOF
<1> SUFFICES ASSUME TransactionInv, Step PROVE TransactionInv'  OBVIOUS
<1>1. CASE Attempt \/ RestoreJournal \/ DropPending
    BY <1>1, AttemptInv, RestoreJournalInv, DropPendingInv
<1>2. CASE \/ ReconcileControl("manifest", "reconcileManifest", "reconcileLock")
           \/ ReconcileControl("lock", "reconcileLock", "reconcileState")
           \/ ReconcileControl("state", "reconcileState", "direct")
    BY <1>2, ReconcileInv
<1>3. CASE Direct \/ RecoverLock \/ InstallRecovered \/ RecoverVerify \/ RecoverState
    BY <1>3, DirectInv, RecoverLockInv, InstallRecoveredInv, RecoverVerifyInv, RecoverStateInv
<1>4. CASE \/ Clean("cleanBack", "check")
           \/ Clean("cleanForward", IF Updates \/ control["manifest"].dst = "new" THEN "done"
                                    ELSE "check")
    <2>1. (IF Updates \/ control["manifest"].dst = "new" THEN "done" ELSE "check")
             \in {"check", "done"}
        OBVIOUS
    <2> QED  BY <1>4, <2>1, CleanInv
<1>5. CASE Check \/ PackObjects \/ Prepare \/ InstallObjects
    BY <1>5, CheckInv, PackObjectsInv, PrepareInv, InstallObjectsInv
<1>6. CASE \/ StageControl("manifest", "stageManifest", "stageLock")
           \/ StageControl("lock", "stageLock", "stageState")
           \/ StageControl("state", "stageState", "stageJournal")
    BY <1>6, StageControlInv
<1>7. CASE StageJournal \/ FirstJournal
    BY <1>7, StageJournalInv, FirstJournalInv
<1>8. CASE \/ AdvanceTo(ObjectsInstalled, "advanceObjects", "revalidateManifest")
           \/ AdvanceTo(ManifestCommitted, "advanceManifest", "commitLock")
           \/ AdvanceTo(LockCommitted, "advanceLock", "commitState")
           \/ AdvanceTo(StateCommitted, "advanceState", "verify")
           \/ AdvanceTo(Verified, "advanceVerified", "advanceComplete")
           \/ AdvanceTo(Complete, "advanceComplete", "finish")
    BY <1>8, AdvanceInv
<1>9. CASE \/ Revalidate("revalidateObjects", "installObjects")
           \/ Revalidate("revalidateManifest", "commitManifest")
           \/ Verify
    BY <1>9, RevalidateInv
<1>10. CASE \/ CommitControl("manifest", "commitManifest", "advanceManifest")
            \/ CommitControl("lock", "commitLock", "advanceLock")
            \/ CommitState
    BY <1>10, CommitManifestInv, CommitLockInv, CommitStateInv
<1>11. CASE Finish
    BY <1>11, FinishInv
<1> QED  BY <1>1, <1>2, <1>3, <1>4, <1>5, <1>6, <1>7, <1>8, <1>9, <1>10, <1>11 DEF Step

\* A stutter, and the steps of the process that has ended.
LEMMA StutterInv == TransactionInv /\ UNCHANGED vars => TransactionInv'
BY DEF TransactionInv, TypeOK, Durable, Untorn, Edited, Found, InOrder, Pair, Paired, Shape,
   JournalThere, New, Past, Position, Covered, Replacing, Removing, RecoveryLock, vars

LEMMA NextInv == TransactionInv /\ [Next]_vars => TransactionInv'
PROOF
<1> SUFFICES ASSUME TransactionInv, [Next]_vars PROVE TransactionInv'  OBVIOUS
<1>1. CASE Step
    BY <1>1, StepInv
<1>2. CASE Crash \/ TearObject
    BY <1>2, CrashInv
<1>3. CASE \/ TearControl("manifest", "stageManifest")
           \/ TearControl("lock", "stageLock")
           \/ TearControl("state", "stageState")
    <2>1. \E c \in Control : \E l \in Steps : TearControl(c, l)
        BY <1>3, Texts DEF Steps, CommitSteps
    <2> QED  BY <2>1, TearInv
<1>4. CASE TearAside \/ TearJournal
    BY <1>4, TearInv
<1>5. CASE \E c \in Control : Edit(c)
    BY <1>5, EditInv
<1>6. CASE EditTarget
    BY <1>6, EditTargetInv
<1>7. CASE Finished \/ UNCHANGED vars
    BY <1>7, StutterInv DEF Finished
<1> QED  BY <1>1, <1>2, <1>3, <1>4, <1>5, <1>6, <1>7 DEF Next

\* The inductive invariant of the journaled transactions: through every crash,
\* torn write, recovery, edit and retry.
THEOREM TransactionInvariant == Spec => []TransactionInv
PROOF
<1>1. Init => TransactionInv
    BY InitInv
<1>2. TransactionInv /\ [Next]_vars => TransactionInv'
    BY NextInv
<1> QED  BY <1>1, <1>2, PTL DEF Spec

-----------------------------------------------------------------------------
\* A text that is read as new is in the live file, since nothing new is parked.
LEMMA ReadsNew ==
    ASSUME TransactionInv, NEW c \in Control
    PROVE  Read(c) = "new" <=> New(c)
BY Texts DEF TransactionInv, Durable, Untorn, Read, New

\* While nobody interferes a reader finds the manifest and the lock of a pair
\* alike, unless the journal is on disk and tells it to recover first.
LEMMA CoherentInv == TransactionInv => Coherent
PROOF
<1> SUFFICES ASSUME TransactionInv PROVE Coherent  OBVIOUS
<1>1. Read("manifest") = "new" /\ kind \notin {"repair", "lock"} => installed = Objects
    BY ReadsNew, Texts DEF TransactionInv, Durable, Found
<1>2. ASSUME theirs = {}, kind \in {"manifest", "update", "explicit"},
             Read("manifest") # Read("lock")
      PROVE  Held(journal) \cap Phases # {}
    <2>1. Shape(control["manifest"], control["lock"], aside, JournalThere)
        BY <1>2 DEF TransactionInv, Durable, Pair, Paired
    <2>2. New("lock") => Past("manifest")
        BY DEF TransactionInv, Durable, InOrder
    <2>3. JournalThere
        <3>1. ASSUME ~ JournalThere PROVE FALSE
            <4>1. /\ Read("manifest") = control["manifest"].dst
                  /\ Read("lock") = control["lock"].dst
                BY <2>1, <3>1 DEF Shape, Read
            <4> QED  BY <1>2, <2>1, <2>2, <3>1, <4>1, Texts DEF Shape, New, Past
        <3> QED  BY <3>1
    <2>4. \/ journal.dst \in Phases
          \/ journal.bak \in Phases
        BY <2>3 DEF TransactionInv, TypeOK, Files, Durable, Untorn, JournalThere
    <2> QED  BY <2>4 DEF Held
<1>3. TypeOK
    BY DEF TransactionInv
<1> QED  BY <1>1, <1>2, <1>3 DEF Coherent

\* What a manifest selects is there, and a lock that is not derived from the
\* manifest is visible only while a journal is.
THEOREM TransactionCoherent == Spec => []Coherent
BY TransactionInvariant, CoherentInv, PTL

\* The new receipt is never written once the target was edited before the lock
\* was committed, by the commit or by a recovery.
THEOREM ReceiptsTrue == Spec => []NoFalseReceipt
PROOF
<1>1. TransactionInv => NoFalseReceipt
    BY ReadsNew, Texts DEF NoFalseReceipt, TransactionInv, Durable, InOrder
<1> QED  BY <1>1, TransactionInvariant, PTL

-----------------------------------------------------------------------------
(***************************************************************************)
(* What a step of the transaction never does to the live control files and *)
(* to the objects.  It writes one file at most, and not one that is new.   *)
(***************************************************************************)
OneFile == \E c \in Control : /\ \A d \in Control \ {c} : control'[d].dst = control[d].dst
                              /\ New(c) => New(c)'

Gentle == OneFile /\ ObjectsKept /\ edits' = edits

LEMMA NothingWritten ==
    ASSUME UNCHANGED <<control, edits>>, installed \subseteq installed'
    PROVE  Gentle
BY Texts DEF Gentle, OneFile, ObjectsKept, New

LEMMA ControlWritten ==
    ASSUME TypeOK, NEW c \in Control, NEW f, WriteControl(c, f), New(c) => f.dst = "new"
    PROVE  Gentle
PROOF
<1>1. /\ control' = [control EXCEPT ![c] = f] /\ installed' = installed /\ edits' = edits
    BY DEF WriteControl, history
<1>2. \A d \in Control : control'[d] = IF d = c THEN f ELSE control[d]
    BY <1>1 DEF TypeOK
<1>3. OneFile
    BY <1>2 DEF OneFile, New
<1> QED  BY <1>1, <1>3 DEF Gentle, ObjectsKept

\* The actions that write neither.
LEMMA OtherSteps ==
    ASSUME \/ Attempt \/ RestoreJournal \/ DropPending \/ Direct \/ RecoverVerify
           \/ Check \/ StageJournal \/ FirstJournal \/ Verify \/ Finish
           \/ \E next : \E label : Revalidate(label, next)
           \/ \E next : \E label : \E aim : AdvanceTo(aim, label, next)
    PROVE  UNCHANGED <<control, installed, edits>>
PROOF
<1>1. \A l : Decide(l) => UNCHANGED <<control, installed, edits>>
    BY DEF Decide, disk, history
<1>2. Blocked \/ Stale => UNCHANGED <<control, installed, edits>>
    BY <1>1 DEF Blocked, Stale
<1>3. \A f : WriteJournal(f) => UNCHANGED <<control, installed, edits>>
    BY DEF WriteJournal, history
<1>4. \A l, s : Cleaning(l, s) => UNCHANGED <<control, installed, edits>>
    BY DEF Cleaning, disk, history
<1>5. CASE Attempt
    <2>1. Blocked \/ (\E l : Decide(l)) \/ UNCHANGED <<given, disk, bound, todo, history>>
        BY <1>5 DEF Attempt
    <2> QED  BY <1>1, <1>2, <2>1 DEF disk, history
<1>6. CASE RestoreJournal \/ DropPending
    <2>1. (\E f : WriteJournal(f)) \/ \E l : Decide(l)
        BY <1>6 DEF RestoreJournal, DropPending
    <2> QED  BY <1>1, <1>3, <2>1
<1>7. CASE Direct \/ RecoverVerify \/ Verify \/ Finish \/ \E next : \E label : Revalidate(label, next)
    <2>1. Blocked \/ Stale \/ (\E l : Decide(l)) \/ \E l, s : Cleaning(l, s)
        BY <1>7 DEF Direct, RecoverVerify, Verify, Finish, Revalidate
    <2> QED  BY <1>1, <1>2, <1>4, <2>1
<1>8. CASE Check
    <2>1. Stale \/ (\E l : Decide(l)) \/ UNCHANGED <<disk, edits>>
        BY <1>8 DEF Check
    <2> QED  BY <1>1, <1>2, <2>1 DEF disk
<1>9. CASE \/ StageJournal \/ FirstJournal
           \/ \E next : \E label : \E aim : AdvanceTo(aim, label, next)
    <2>1. Blocked \/ \E f : WriteJournal(f)
        BY <1>9 DEF StageJournal, FirstJournal, AdvanceTo
    <2> QED  BY <1>2, <1>3, <2>1
<1> QED  BY <1>5, <1>6, <1>7, <1>8, <1>9

\* The actions that write control files.
LEMMA ControlSteps ==
    ASSUME TransactionInv,
           \/ ReconcileControl("manifest", "reconcileManifest", "reconcileLock")
           \/ ReconcileControl("lock", "reconcileLock", "reconcileState")
           \/ ReconcileControl("state", "reconcileState", "direct")
           \/ StageControl("manifest", "stageManifest", "stageLock")
           \/ StageControl("lock", "stageLock", "stageState")
           \/ StageControl("state", "stageState", "stageJournal")
           \/ CommitControl("manifest", "commitManifest", "advanceManifest")
           \/ CommitControl("lock", "commitLock", "advanceLock")
           \/ CommitState \/ RecoverState \/ RecoverLock \/ InstallRecovered
    PROVE  Gentle
PROOF
<1>1. TypeOK /\ Untorn /\ {"manifest", "lock", "state"} = Control
    BY Texts DEF TransactionInv, Durable
<1>2. ASSUME (\E l : Decide(l)) \/ Blocked \/ \E l, s : Cleaning(l, s)
      PROVE  Gentle
    BY <1>2, NothingWritten DEF Decide, Blocked, Cleaning, disk, history
<1>3. ASSUME NEW c \in Control, NEW label, NEW next, ReconcileControl(c, label, next)
      PROVE  Gentle
    <2>1. \/ \E l : Decide(l)
          \/ Blocked
          \/ Verdict(c) # "unknown" /\ WriteControl(c, Reconciled(control[c], Verdict(c)))
        BY <1>3 DEF ReconcileControl
    <2>2. ASSUME Verdict(c) # "unknown", WriteControl(c, Reconciled(control[c], Verdict(c)))
          PROVE  Gentle
        <3> DEFINE f == Reconciled(control[c], Verdict(c))
        <3>1. f.dst = control[c].dst \/ control[c].dst = None
            BY <1>1, <2>2, ReconciledFile
        <3>2. New(c) => f.dst = "new"
            BY <3>1, Texts DEF New
        <3> QED  BY <1>1, <2>2, <3>2, ControlWritten
    <2> QED  BY <1>2, <2>1, <2>2
<1>4. ASSUME NEW c \in Control, NEW label, NEW next, StageControl(c, label, next)
      PROVE  Gentle
    <2>1. (\E l : Decide(l)) \/ WriteControl(c, Staged(control[c], "new"))
        BY <1>4 DEF StageControl
    <2>2. Staged(control[c], "new").dst = control[c].dst
        BY <1>1, StagingMoves DEF TypeOK
    <2> QED  BY <1>1, <1>2, <2>1, <2>2, ControlWritten DEF New
<1>5. ASSUME NEW c \in Control, NEW label, NEW next, ReplaceControl(c, label, next)
      PROVE  Gentle
    <2>1. Blocked \/ WriteControl(c, Replaced(control[c], "new", exchange))
        BY <1>5 DEF ReplaceControl
    <2>2. New(c) => Replaced(control[c], "new", exchange).dst = "new"
        BY <1>1, StagingMoves DEF TypeOK, Replaced, New
    <2> QED  BY <1>1, <1>2, <2>1, <2>2, ControlWritten
<1>6. ASSUME NEW f, WriteRecoveryLock(f), New("lock") => f.dst = "new"
      PROVE  Gentle
    <2>1. /\ control' = [control EXCEPT !["lock"].dst = f.dst]
          /\ installed' = installed /\ edits' = edits
        BY <1>6 DEF WriteRecoveryLock, history
    <2>2. /\ control'["lock"].dst = f.dst
          /\ \A d \in Control \ {"lock"} : control'[d] = control[d]
        BY <1>1, <2>1 DEF TypeOK, Files
    <2>3. OneFile
        BY <1>1, <1>6, <2>2 DEF OneFile, New
    <2> QED  BY <2>1, <2>3 DEF Gentle, ObjectsKept
<1>7. CASE RecoverLock \/ InstallRecovered
    <2>1. \/ \E l : Decide(l)
          \/ Blocked
          \/ WriteRecoveryLock(Staged(RecoveryLock, "new"))
          \/ WriteRecoveryLock(Replaced(RecoveryLock, "new", exchange))
        BY <1>7 DEF RecoverLock, InstallRecovered
    <2>2. RecoveryLock \in Files(Text) /\ RecoveryLock.dst = control["lock"].dst
        BY <1>1 DEF RecoveryLock, TypeOK, Files
    <2>3. Staged(RecoveryLock, "new").dst = control["lock"].dst
        BY <2>2, StagingMoves
    <2>4. New("lock") => Replaced(RecoveryLock, "new", exchange).dst = "new"
        BY <2>2, StagingMoves DEF Replaced, New
    <2> QED  BY <1>2, <1>6, <2>1, <2>3, <2>4 DEF New
<1>8. CASE CommitState \/ RecoverState
    <2>1. \/ \E l : Decide(l)
          \/ Blocked
          \/ \E l, s : Cleaning(l, s)
          \/ \E label : \E next : ReplaceControl("state", label, next)
        BY <1>8 DEF CommitState, RecoverState
    <2> QED  BY <1>1, <1>2, <1>5, <2>1
<1>9. CASE \/ ReconcileControl("manifest", "reconcileManifest", "reconcileLock")
           \/ ReconcileControl("lock", "reconcileLock", "reconcileState")
           \/ ReconcileControl("state", "reconcileState", "direct")
    BY <1>1, <1>3, <1>9
<1>10. CASE \/ StageControl("manifest", "stageManifest", "stageLock")
            \/ StageControl("lock", "stageLock", "stageState")
            \/ StageControl("state", "stageState", "stageJournal")
    BY <1>1, <1>4, <1>10
<1>11. CASE \/ CommitControl("manifest", "commitManifest", "advanceManifest")
            \/ CommitControl("lock", "commitLock", "advanceLock")
    BY <1>1, <1>5, <1>11 DEF CommitControl
<1> QED  BY <1>7, <1>8, <1>9, <1>10, <1>11

\* The actions that write objects.
LEMMA ObjectSteps ==
    ASSUME TransactionInv, PackObjects \/ Prepare \/ InstallObjects
    PROVE  Gentle
PROOF
<1>1. ASSUME NEW s, NEW i, WriteObjects(s, i), installed \subseteq i
      PROVE  Gentle
    BY <1>1, NothingWritten DEF WriteObjects, history
<1>2. ASSUME (\E l : Decide(l)) \/ Blocked
      PROVE  Gentle
    BY <1>2, NothingWritten DEF Decide, Blocked, disk, history
<1>3. \/ \E l : Decide(l)
      \/ Blocked
      \/ \E s : \E i : WriteObjects(s, i) /\ installed \subseteq i
    <2>1. CASE PackObjects
        BY <2>1 DEF PackObjects
    <2>2. CASE Prepare
        BY <2>2 DEF Prepare
    <2>3. CASE InstallObjects
        BY <2>3 DEF InstallObjects
    <2> QED  BY <2>1, <2>2, <2>3
<1> QED  BY <1>1, <1>2, <1>3

\* The removals: what was there before and what the manifest references stay.
LEMMA CleanSteps ==
    ASSUME TransactionInv, NEW next, Clean("cleanBack", next) \/ Clean("cleanForward", next)
    PROVE  Gentle
PROOF
<1>1. pc \in {"cleanBack", "cleanForward"} /\ Control # {}
    BY Texts DEF Clean
<1>2. CASE Decide(next)
    BY <1>2, NothingWritten DEF Decide, disk, history
<1>3. CASE todo # <<>> /\ RemoveOne
    <2>1. edits' = edits /\ had \subseteq bound.pre
        BY <1>1, <1>3 DEF RemoveOne, history, TransactionInv, Position, Unbound
    <2>2. ASSUME NEW o \in Objects, control' = control,
                 installed' = (IF RemovesObject(o) THEN installed \ {o} ELSE installed)
          PROVE  Gentle
        <3>1. OneFile
            BY <1>1, <2>2 DEF OneFile, New
        <3>2. ObjectsKept
            BY <2>1, <2>2 DEF ObjectsKept, RemovesObject
        <3> QED  BY <2>1, <3>1, <3>2 DEF Gentle
    <2>3. ASSUME UNCHANGED <<control, installed>>
          PROVE  Gentle
        BY <2>1, <2>3, NothingWritten
    <2>4. ASSUME NEW c \in Control, NEW which \in {"staging", "backup"}, installed' = installed,
                 control' = [control EXCEPT ![c] = FileGone(control[c], which)]
          PROVE  Gentle
        <3>1. control[c] \in Files(Text) /\ control \in [Control -> Files(Text)]
            BY DEF TransactionInv, TypeOK
        <3>2. FileGone(control[c], which).dst = control[c].dst
            BY <3>1, FileRemoved
        <3>3. OneFile
            BY <2>4, <3>1, <3>2 DEF OneFile, New
        <3> QED  BY <2>1, <2>4, <3>3 DEF Gentle, ObjectsKept
    <2> QED  BY <1>1, <1>3, <2>2, <2>3, <2>4, Removal
<1> QED  BY <1>2, <1>3 DEF Clean

LEMMA StepGentle == TransactionInv /\ Step => Gentle
PROOF
<1> SUFFICES ASSUME TransactionInv, Step PROVE Gentle  OBVIOUS
<1>1. CASE \/ Attempt \/ RestoreJournal \/ DropPending \/ Direct \/ RecoverVerify
           \/ Check \/ StageJournal \/ FirstJournal \/ Verify \/ Finish
           \/ \E next : \E label : Revalidate(label, next)
           \/ \E next : \E label : \E aim : AdvanceTo(aim, label, next)
    BY <1>1, OtherSteps, NothingWritten
<1>2. CASE \/ ReconcileControl("manifest", "reconcileManifest", "reconcileLock")
           \/ ReconcileControl("lock", "reconcileLock", "reconcileState")
           \/ ReconcileControl("state", "reconcileState", "direct")
           \/ StageControl("manifest", "stageManifest", "stageLock")
           \/ StageControl("lock", "stageLock", "stageState")
           \/ StageControl("state", "stageState", "stageJournal")
           \/ CommitControl("manifest", "commitManifest", "advanceManifest")
           \/ CommitControl("lock", "commitLock", "advanceLock")
           \/ CommitState \/ RecoverState \/ RecoverLock \/ InstallRecovered
    BY <1>2, ControlSteps
<1>3. CASE PackObjects \/ Prepare \/ InstallObjects
    BY <1>3, ObjectSteps
<1>4. CASE \/ Clean("cleanBack", "check")
           \/ Clean("cleanForward", IF Updates \/ control["manifest"].dst = "new" THEN "done"
                                    ELSE "check")
    BY <1>4, CleanSteps
<1> QED  BY <1>1, <1>2, <1>3, <1>4 DEF Step

LEMMA CrashGentle ==
    ASSUME TransactionInv,
           \/ Crash \/ TearObject \/ TearAside \/ TearJournal
           \/ TearControl("manifest", "stageManifest")
           \/ TearControl("lock", "stageLock")
           \/ TearControl("state", "stageState")
    PROVE  Gentle
PROOF
<1>1. edits' = edits /\ installed' = installed
    BY DEF Crash, TearObject, TearAside, TearJournal, TearControl, Dies, disk
<1>2. CASE Crash \/ TearObject \/ TearAside \/ TearJournal
    BY <1>1, <1>2, NothingWritten DEF Crash, TearObject, TearAside, TearJournal, disk
<1>3. CASE \/ TearControl("manifest", "stageManifest")
           \/ TearControl("lock", "stageLock")
           \/ TearControl("state", "stageState")
    <2>1. PICK c \in Control : control' = [control EXCEPT ![c] = Staged(control[c], Torn)]
        BY <1>3, Texts DEF TearControl
    <2>2. control[c] \in Files(Text) /\ control \in [Control -> Files(Text)]
        BY DEF TransactionInv, TypeOK
    <2>3. Staged(control[c], Torn).dst = control[c].dst
        BY <2>2, StagingMoves
    <2>4. OneFile
        BY <2>1, <2>2, <2>3 DEF OneFile, New
    <2> QED  BY <1>1, <2>4 DEF Gentle, ObjectsKept
<1> QED  BY <1>2, <1>3

\* Every step is gentle, but the edits, which leave the objects alone.
LEMMA NextGentle ==
    ASSUME TransactionInv, [Next]_vars
    PROVE  /\ ObjectsKept
           /\ Gentle \/ edits' = edits + 1
PROOF
<1>1. CASE Step
    BY <1>1, StepGentle DEF Gentle
<1>2. CASE \/ Crash \/ TearObject \/ TearAside \/ TearJournal
           \/ TearControl("manifest", "stageManifest")
           \/ TearControl("lock", "stageLock")
           \/ TearControl("state", "stageState")
    BY <1>2, CrashGentle DEF Gentle
<1>3. CASE (\E c \in Control : Edit(c)) \/ EditTarget
    BY <1>3 DEF Edit, EditTarget, Edits, ObjectsKept
<1>4. CASE Finished \/ UNCHANGED vars
    BY <1>4, NothingWritten DEF Finished, vars, Gentle
<1> QED  BY <1>1, <1>2, <1>3, <1>4 DEF Next

\* Foreign bytes in the control files survive whatever the transaction does
\* about them, and no object that was there, or is referenced, is removed.
THEOREM NothingIsLost == Spec => NothingLost
PROOF
<1>1. TransactionInv => ForeignKept
    BY DEF TransactionInv, Durable, Edited, ForeignKept, Held
<1>2. TransactionInv /\ [Next]_vars => [ObjectsKept]_vars
    BY NextGentle
<1> QED  BY <1>1, <1>2, TransactionInvariant, PTL DEF Spec, NothingLost

-----------------------------------------------------------------------------
(***************************************************************************)
(* The refinement.  While no editor writes, the files that are new are a   *)
(* prefix of manifest, lock, receipt.                                      *)
(***************************************************************************)
Prefix == /\ New("state") => New("lock")
          /\ New("lock") => New("manifest")
          /\ Level = IF New("state") THEN 3 ELSE IF New("lock") THEN 2
                     ELSE IF New("manifest") THEN 1 ELSE 0

LEMMA Chain == TransactionInv /\ edits = 0 => Prefix
PROOF
<1> SUFFICES ASSUME TransactionInv, edits = 0 PROVE Prefix  OBVIOUS
<1>1. {"manifest", "lock", "state"} = Control
    BY Texts
<1>2. \A c \in Control : control[c].dst # "foreign"
    BY DEF TransactionInv, Durable, Edited
<1>3. (New("state") => New("lock")) /\ (New("lock") => New("manifest"))
    BY <1>1, <1>2 DEF TransactionInv, Durable, InOrder, Past, New
<1>4. /\ (Read("state") = "new") = New("state")
      /\ (Read("lock") = "new") = New("lock")
      /\ (Read("manifest") = "new") = New("manifest")
    BY <1>1, ReadsNew DEF New
<1>5. Level = IF New("state") THEN 3 ELSE IF New("lock") THEN 2
              ELSE IF New("manifest") THEN 1 ELSE 0
    <2>1. CASE New("state")
        BY <1>3, <1>4, <2>1 DEF Level
    <2>2. CASE ~ New("state") /\ New("lock")
        BY <1>3, <1>4, <2>2 DEF Level
    <2>3. CASE ~ New("state") /\ ~ New("lock") /\ New("manifest")
        BY <1>4, <2>3 DEF Level
    <2>4. CASE ~ New("state") /\ ~ New("lock") /\ ~ New("manifest")
        BY <1>4, <2>4 DEF Level
    <2> QED  BY <2>1, <2>2, <2>3, <2>4
<1> QED  BY <1>3, <1>5 DEF Prefix

\* What the refinement mapping shows of the files.
Exposed == IF edits = 0 THEN Level ELSE 4

LEMMA CommitStep ==
    ASSUME TransactionInv, TransactionInv', [Next]_vars
    PROVE  [Authority!Next]_Exposed
PROOF
<1>1. edits \in Nat /\ "manifest" \in Control /\ "lock" \in Control /\ "state" \in Control
      /\ "manifest" # "lock" /\ "lock" # "state" /\ "manifest" # "state"
    BY TransactionAssumption, Texts DEF TransactionInv, TypeOK
<1>2. CASE edits = 0 /\ edits' = 0
    <2>1. OneFile
        BY <1>1, <1>2, NextGentle DEF Gentle
    <2>2. PICK c \in Control : /\ \A d \in Control \ {c} : New(d)' <=> New(d)
                               /\ New(c) => New(c)'
        BY <2>1 DEF OneFile, New
    <2>3. Prefix
        BY <1>2, Chain
    <2>4. Prefix'
        <3>1. (TransactionInv /\ edits = 0 => Prefix)'
            BY Chain, PTL
        <3> QED  BY <1>2, <3>1
    <2>5. \/ Level' = Level
          \/ Level < 3 /\ Level' = Level + 1
        BY <1>1, <2>2, <2>3, <2>4 DEF Prefix
    <2> QED  BY <1>2, <2>5 DEF Authority!Next, Authority!Commit, Exposed
<1>3. CASE edits = 0 /\ edits' # 0
    <2>1. Level # 4
        BY <1>3, Chain DEF Prefix
    <2> QED  BY <1>3, <2>1 DEF Authority!Next, Authority!Interfere, Authority!Interfered
<1>4. CASE edits # 0
    <2>1. edits' # 0
        BY <1>1, <1>4, NextGentle DEF Gentle
    <2> QED  BY <1>4, <2>1 DEF Exposed
<1> QED  BY <1>2, <1>3, <1>4

\* Manifest, lock and receipt are committed in this order, one at a time, and
\* stay committed, through every crash and recovery.
THEOREM Ordered == Spec => CommitsInOrder
PROOF
<1>1. Init => Authority!Init
    <2> SUFFICES ASSUME Init PROVE Authority!Init  OBVIOUS
    <2>1. TransactionInv /\ edits = 0
        BY InitInv DEF Init
    <2>2. Level \in 0 .. 3
        BY <2>1, Chain DEF Prefix
    <2> QED  BY <2>1, <2>2 DEF Authority!Init
<1>2. TransactionInv /\ TransactionInv' /\ [Next]_vars => [Authority!Next]_Exposed
    BY CommitStep
<1> QED  BY <1>1, <1>2, TransactionInvariant, PTL
       DEF Spec, CommitsInOrder, Authority!Spec, Exposed
=============================================================================
