--------------------------- MODULE SyncTransaction ---------------------------
(***************************************************************************)
(* Synchronization of several machines through one remote.  Each machine   *)
(* keeps a portable environment, a retained base (the snapshot and remote  *)
(* revision it last agreed on) and an eight-phase journal; the remote is   *)
(* an authenticated chain of heads selected by one pointer.  A transaction *)
(* publishes the reviewed merge conditionally, then commits it locally,    *)
(* then advances the base; an interrupted one is recovered from its        *)
(* journal by the next "kitrove sync apply".                               *)
(*                                                                         *)
(* One step stands for one guarded journal advance, one local commit       *)
(* (PortableCommit opens it up) or one base commit (BasePointer does).     *)
(***************************************************************************)
EXTENDS Naturals, Sequences

CONSTANTS
    Machines,    \* machines that share the remote
    Assets,      \* portable assets
    Contents,    \* what an asset can contain
    None,        \* no asset, no base, no journal, no plan
    Backends,    \* "git"; a shared directory with atomic exchange ("exchange") or not ("park")
    MaxHistory,  \* SyncLimits::max_backend_history
    MaxAdopts,   \* bound on the edits adopted on all machines together
    MaxCrashes   \* bound on the crashes

VARIABLES
    backend,   \* what the remote is
    local,     \* portable authority of each machine
    base,      \* retained base of each machine
    guard,     \* sync-transaction.guard in each environment
    journal,   \* outer journal of each machine
    remote,    \* heads from the first to the selected one, empty when absent
    plan,      \* the plan an apply works from
    pc,        \* what each machine's sync process does next
    adopts,    \* edits so far
    crashes    \* crashes so far

\* An apply session on a directory holds its exclusive lock; the pointer of the
\* remote moves in one step by an exchange, or by Git's exact-old push.
Locked == backend # "git"
Atomic == backend # "park"

machine == <<local, base, guard, journal>>
vars    == <<backend, local, base, guard, journal, remote, plan, pc, adopts, crashes>>

Snapshot == [Assets -> Contents \cup {None}]
Empty    == [a \in Assets |-> None]

Prepared        == 1
Publishing      == 2
RemotePublished == 3
LocalCommitting == 4
LocalCommitted  == 5
BaseCommitting  == 6
BaseCommitted   == 7
Complete        == 8

\* A process in one of these holds the machine's locks and the apply session.
Applying == {"guard", "prepare", "publishing", "publish", "place", "published",
             "localCommitting", "local", "localCommitted", "baseCommitting", "base",
             "baseCommitted", "complete", "removeJournal", "removeGuard"}

Heads    == [snap : Snapshot, from : Snapshot, seen : Snapshot \cup {None}]
Bases    == [snap : Snapshot, rev : Seq(Heads)]
Plans    == [local : Snapshot, base : Bases \cup {None}, remote : Seq(Heads)]
Journals == [phase : Prepared .. Complete, intent : BOOLEAN,
             local : Snapshot, merged : Snapshot, prior : Bases \cup {None},
             expected : Seq(Heads), rev : Seq(Heads)]

ASSUME SyncAssumption ==
    /\ None \notin Contents /\ None \notin Snapshot /\ None \notin Bases
    /\ None \notin Plans /\ None \notin Journals
    /\ Backends \subseteq {"git", "exchange", "park"}
    /\ MaxHistory \in Nat /\ MaxAdopts \in Nat /\ MaxCrashes \in Nat

TypeOK ==
    /\ backend \in Backends
    /\ local \in [Machines -> Snapshot]
    /\ base \in [Machines -> Bases \cup {None}]
    /\ guard \in [Machines -> BOOLEAN]
    /\ journal \in [Machines -> Journals \cup {None}]
    /\ remote \in Seq(Heads) /\ Len(remote) <= MaxHistory
    /\ plan \in [Machines -> Plans \cup {None}]
    /\ pc \in [Machines -> Applying \cup {"idle", "reading", "planned", "refused"}]
    /\ adopts \in 0 .. MaxAdopts /\ crashes \in 0 .. MaxCrashes

Init ==
    /\ backend \in Backends
    /\ local = [m \in Machines |-> Empty]
    /\ base = [m \in Machines |-> None]
    /\ guard = [m \in Machines |-> FALSE]
    /\ journal = [m \in Machines |-> None]
    /\ remote = << >>
    /\ plan = [m \in Machines |-> None]
    /\ pc = [m \in Machines |-> "idle"]
    /\ adopts = 0 /\ crashes = 0

-----------------------------------------------------------------------------
Selected(chain) == chain[Len(chain)].snap

\* The chain c contains the revision r: r is one of its prefixes.
InHistory(r, c) == Len(r) <= Len(c) /\ \A i \in 1 .. Len(r) : r[i] = c[i]

BaseSnap(b) == IF b = None THEN Empty ELSE b.snap

\* Mutants: the remote side always wins; divergence is not a conflict.
Choose_Remote(b, l, r)         == r
Conflict_DeletionOnly(b, l, r) == b # None /\ (l = None \/ r = None)

(***************************************************************************)
(* merge_assets, choose: a three-way choice per asset; deletions and       *)
(* divergence are conflicts.                                               *)
(***************************************************************************)
Choose(b, l, r) == IF l = r THEN l ELSE IF l = b THEN r ELSE l

Conflict(b, l, r) ==
    \/ b # None /\ (l = None \/ r = None)
    \/ l # r /\ l # b /\ r # b

Conflicts(b, l, r) == {a \in Assets : Conflict(b[a], l[a], r[a])}

Merged(b, l, r) == [a \in Assets |-> Choose(b[a], l[a], r[a])]

(***************************************************************************)
(* plan_sync: whether a plan is ready, and the snapshot it leads to.       *)
(***************************************************************************)
Ready(l, b, chain) ==
    IF b = None
    THEN IF chain = << >> THEN l # Empty
         ELSE l = Empty \/ l = Selected(chain)
    ELSE /\ chain # << >>
         /\ b.rev = chain => b.snap = Selected(chain)
         /\ Conflicts(b.snap, l, Selected(chain)) = {}

Outcome(l, b, chain) ==
    IF chain = << >> THEN l
    ELSE IF b = None THEN Selected(chain)
    ELSE Merged(b.snap, l, Selected(chain))

-----------------------------------------------------------------------------
Go(m, label) == pc' = [pc EXCEPT ![m] = label]

\* The attempt ends with an error, its journal retained.
Refuse(m) ==
    /\ Go(m, "refused") /\ plan' = [plan EXCEPT ![m] = None]
    /\ UNCHANGED <<backend, machine, remote, adopts, crashes>>

\* The filesystem backend's lock: shared to read, exclusive to apply.
SessionFree(m) == Locked => \A n \in Machines \ {m} : pc[n] \notin Applying

\* A portable transaction outside sync: adoption, update, rollback (c may be None).
Adopt(m, a, c) ==
    /\ adopts < MaxAdopts
    /\ pc[m] \notin Applying /\ ~ guard[m]
    /\ local[m][a] # c
    /\ local' = [local EXCEPT ![m][a] = c]
    /\ adopts' = adopts + 1
    /\ UNCHANGED <<backend, base, guard, journal, remote, plan, pc, crashes>>

(***************************************************************************)
(* build_plan: local authority and base are read first, without a lock on  *)
(* the machine, and the remote after them.                                 *)
(***************************************************************************)
ReadLocal(m) ==
    /\ pc[m] \in {"idle", "refused"} /\ journal[m] = None
    /\ plan' = [plan EXCEPT ![m] = [local |-> local[m], base |-> base[m], remote |-> << >>]]
    /\ Go(m, "reading")
    /\ UNCHANGED <<backend, machine, remote, adopts, crashes>>

ReadRemote(m) ==
    /\ pc[m] = "reading" /\ SessionFree(m)
    /\ IF Ready(plan[m].local, plan[m].base, remote)
       THEN plan' = [plan EXCEPT ![m].remote = remote] /\ Go(m, "planned")
       ELSE plan' = [plan EXCEPT ![m] = None] /\ Go(m, "refused")
    /\ UNCHANGED <<backend, machine, remote, adopts, crashes>>

(***************************************************************************)
(* commit_sync_transaction up to its first mutation: all locks, then the   *)
(* complete revalidation of the plan.                                      *)
(***************************************************************************)
Current(m) ==
    /\ local[m] = plan[m].local
    /\ base[m] = plan[m].base
    /\ remote = plan[m].remote

NeedsPublication(p, merged) == p.remote = << >> \/ Selected(p.remote) # merged

\* prepare_publication and SyncJournal::prepared.
PreparedJournal(p) ==
    LET merged == Outcome(p.local, p.base, p.remote)
        head   == [snap |-> merged, from |-> p.local,
                   seen |-> IF p.base = None THEN None ELSE p.base.snap]
        intent == NeedsPublication(p, merged)
    IN  [phase  |-> Prepared, intent |-> intent,
         local  |-> p.local, merged |-> merged, prior |-> p.base,
         expected |-> p.remote,
         rev    |-> IF intent THEN Append(p.remote, head) ELSE p.remote]

Begin(m) ==
    /\ pc[m] = "planned" /\ SessionFree(m)
    /\ IF Current(m) /\ Len(PreparedJournal(plan[m]).rev) <= MaxHistory
       THEN Go(m, "guard") /\ UNCHANGED <<backend, machine, remote, plan, adopts, crashes>>
       ELSE Refuse(m)

InstallGuard(m) ==
    /\ pc[m] = "guard"
    /\ guard' = [guard EXCEPT ![m] = TRUE]
    /\ Go(m, "prepare")
    /\ UNCHANGED <<backend, local, base, journal, remote, plan, adopts, crashes>>

InstallJournal(m) ==
    /\ pc[m] = "prepare"
    /\ LET j == PreparedJournal(plan[m])
       IN  /\ journal' = [journal EXCEPT ![m] = j]
           /\ Go(m, IF j.intent THEN "publishing" ELSE "published")
    /\ plan' = [plan EXCEPT ![m] = None]
    /\ UNCHANGED <<backend, local, base, guard, remote, adopts, crashes>>

\* Mutant: recovery takes a publication that was started for a finished one.
Recover_Trusts(m) ==
    /\ pc[m] \in {"idle", "refused"} /\ journal[m] # None /\ SessionFree(m)
    /\ Go(m, IF journal[m].phase = Prepared THEN "publishing" ELSE "published")
    /\ UNCHANGED <<backend, machine, remote, plan, adopts, crashes>>

\* Mutant: only the selected head counts as published.
Published_Selected(j) == remote = j.rev

(***************************************************************************)
(* recover_with_stores up to advance_to_at_least(RemotePublished)          *)
(***************************************************************************)
Published(j) == InHistory(j.rev, remote)

Recover(m) ==
    /\ pc[m] \in {"idle", "refused"} /\ journal[m] # None /\ SessionFree(m)
    /\ LET j == journal[m]
       IN  IF ~ guard[m] THEN Refuse(m)
           ELSE IF IF j.intent THEN Published(j) ELSE remote = j.rev
           THEN Go(m, "published") /\ UNCHANGED <<backend, machine, remote, plan, adopts, crashes>>
           ELSE IF /\ j.intent /\ remote = j.expected
                   /\ j.phase \in {Prepared, Publishing}
                   /\ local[m] = j.local /\ base[m] = j.prior
           THEN Go(m, "publishing") /\ UNCHANGED <<backend, machine, remote, plan, adopts, crashes>>
           ELSE Refuse(m)

\* Mutant: the push is not conditional on the reviewed revision.
Publish_Forced(m) ==
    /\ pc[m] = "publish"
    /\ remote' = journal[m].rev /\ Go(m, "published")
    /\ UNCHANGED <<backend, machine, plan, adopts, crashes>>

(***************************************************************************)
(* SyncBackendApply::publish.  Without an atomic exchange the prior        *)
(* pointer is first moved aside; with Git the answer may be lost.          *)
(***************************************************************************)
Publish(m) ==
    /\ pc[m] = "publish"
    /\ IF remote # journal[m].expected THEN Refuse(m)
       ELSE /\ IF Atomic \/ remote = << >>
               THEN remote' = journal[m].rev /\ Go(m, "published")
               ELSE remote' = << >> /\ Go(m, "place")
            /\ UNCHANGED <<backend, machine, plan, adopts, crashes>>

Place(m) ==
    /\ pc[m] = "place"
    /\ remote' = journal[m].rev
    /\ Go(m, "published")
    /\ UNCHANGED <<backend, machine, plan, adopts, crashes>>

AnswerLost(m) ==
    /\ ~ Locked
    /\ pc[m] = "publish" /\ remote = journal[m].expected
    /\ remote' = journal[m].rev
    /\ Go(m, "refused")
    /\ UNCHANGED <<backend, machine, plan, adopts, crashes>>

-----------------------------------------------------------------------------
(***************************************************************************)
(* advance_to_at_least                                                     *)
(***************************************************************************)
NextPhase(j) == IF j.phase = Prepared /\ ~ j.intent THEN RemotePublished ELSE j.phase + 1

Advance(m, target, label, next) ==
    /\ pc[m] = label
    /\ IF journal[m].phase >= target
       THEN Go(m, next) /\ UNCHANGED journal
       ELSE /\ journal' = [journal EXCEPT ![m].phase = NextPhase(journal[m])]
            /\ UNCHANGED pc
    /\ UNCHANGED <<backend, local, base, guard, remote, plan, adopts, crashes>>

(***************************************************************************)
(* finish_local_and_base                                                   *)
(***************************************************************************)
CommitLocal(m) ==
    /\ pc[m] = "local"
    /\ IF local[m] \in {journal[m].local, journal[m].merged}
       THEN /\ local' = [local EXCEPT ![m] = journal[m].merged]
            /\ Go(m, "localCommitted")
            /\ UNCHANGED <<backend, base, guard, journal, remote, plan, adopts, crashes>>
       ELSE Refuse(m)

\* Mutant: the base takes the snapshot the plan started from.
ProposedBase_Local(j) == [snap |-> j.local, rev |-> j.rev]

ProposedBase(j) == [snap |-> j.merged, rev |-> j.rev]

\* Mutant: a base that is already committed is taken for a foreign one.
CommitBase_Once(m) ==
    /\ pc[m] = "base"
    /\ IF base[m] = journal[m].prior
       THEN /\ base' = [base EXCEPT ![m] = ProposedBase(journal[m])]
            /\ Go(m, "baseCommitted")
            /\ UNCHANGED <<backend, local, guard, journal, remote, plan, adopts, crashes>>
       ELSE Refuse(m)

CommitBase(m) ==
    /\ pc[m] = "base"
    /\ IF base[m] \in {journal[m].prior, ProposedBase(journal[m])}
       THEN /\ base' = [base EXCEPT ![m] = ProposedBase(journal[m])]
            /\ Go(m, "baseCommitted")
            /\ UNCHANGED <<backend, local, guard, journal, remote, plan, adopts, crashes>>
       ELSE Refuse(m)

\* cleanup_outer removes the journal first, the staged payload after it.
RemoveJournal(m) ==
    /\ pc[m] = "removeJournal"
    /\ journal' = [journal EXCEPT ![m] = None]
    /\ Go(m, "removeGuard")
    /\ UNCHANGED <<backend, local, base, guard, remote, plan, adopts, crashes>>

RemoveGuard(m) ==
    /\ pc[m] = "removeGuard"
    /\ guard' = [guard EXCEPT ![m] = FALSE]
    /\ Go(m, "idle")
    /\ UNCHANGED <<backend, local, base, journal, remote, plan, adopts, crashes>>

Apply(m) ==
    \/ InstallGuard(m)
    \/ InstallJournal(m)
    \/ Advance(m, Publishing, "publishing", "publish")
    \/ Publish(m)
    \/ Place(m)
    \/ AnswerLost(m)
    \/ Advance(m, RemotePublished, "published", "localCommitting")
    \/ Advance(m, LocalCommitting, "localCommitting", "local")
    \/ CommitLocal(m)
    \/ Advance(m, LocalCommitted, "localCommitted", "baseCommitting")
    \/ Advance(m, BaseCommitting, "baseCommitting", "base")
    \/ CommitBase(m)
    \/ Advance(m, BaseCommitted, "baseCommitted", "complete")
    \/ Advance(m, Complete, "complete", "removeJournal")
    \/ RemoveJournal(m)
    \/ RemoveGuard(m)

\* The process dies with its plan, and its locks are released.
Crash(m) ==
    /\ crashes < MaxCrashes
    /\ pc[m] \in Applying
    /\ crashes' = crashes + 1
    /\ plan' = [plan EXCEPT ![m] = None]
    /\ Go(m, "idle")
    /\ UNCHANGED <<backend, machine, remote, adopts>>

Next ==
    \E m \in Machines :
        \/ \E a \in Assets, c \in Contents \cup {None} : Adopt(m, a, c)
        \/ ReadLocal(m) \/ ReadRemote(m) \/ Begin(m)
        \/ Recover(m)
        \/ Apply(m)
        \/ Crash(m)

Spec == Init /\ [][Next]_vars

\* A user who is told to recover runs apply again; a running process runs on.
FairSpec == Spec /\ \A m \in Machines : WF_vars(Apply(m)) /\ SF_vars(Recover(m))
-----------------------------------------------------------------------------
(***************************************************************************)
(* No lost update: a publication changes an asset only where its machine   *)
(* had edited it, and only while the head it replaces still holds what     *)
(* that machine last agreed on.  Changes of others survive unreviewed      *)
(* interleavings of plans, publications, crashes and recoveries.           *)
(***************************************************************************)
NoLostUpdate ==
    \A i \in 2 .. Len(remote) :
        LET head == remote[i]
            prev == remote[i - 1]
            seen == IF head.seen = None THEN Empty ELSE head.seen
        IN  \A a \in Assets :
              head.snap[a] # prev.snap[a] =>
                  /\ head.snap[a] = head.from[a]
                  /\ prev.snap[a] = seen[a]

(***************************************************************************)
(* Sync never takes an unpublished local edit away: while a transaction is *)
(* open an asset that differs from the base keeps its content, also when   *)
(* the transaction was interrupted and is recovered later.                 *)
(***************************************************************************)
EditsKept ==
    [][\A m \in Machines :
         journal[m] # None =>
             \A a \in Assets :
                 local[m][a] # BaseSnap(base[m])[a] => local'[m][a] = local[m][a]]_vars

(***************************************************************************)
(* The commit order holds in every crash state: nothing local changes      *)
(* before the publication is in the remote history, and the base never     *)
(* gets ahead of the local authority it was verified against.  The journal *)
(* and everything else stays well typed, recovery by recovery.             *)
(***************************************************************************)
CommitOrder ==
    /\ TypeOK
    /\ \A m \in Machines :
         LET j == journal[m]
         IN  j # None =>
               /\ guard[m]
               /\ j.phase >= RemotePublished => Published(j)
               /\ local[m] # j.local => Published(j) /\ local[m] = j.merged
               /\ base[m] # j.prior => base[m] = ProposedBase(j) /\ local[m] = j.merged

(***************************************************************************)
(* A retained base is a revision of the remote history, with the snapshot  *)
(* that revision carries: the merges of later plans have a true ancestor.  *)
(***************************************************************************)
BaseIsAncestor ==
    \A m \in Machines :
        base[m] # None =>
            /\ InHistory(base[m].rev, remote)
            /\ base[m].snap = Selected(base[m].rev)

\* What the journal of m owes: a publication of its own that is durable.
Durable(m) == journal[m] # None /\ journal[m].intent /\ journal[m].phase >= RemotePublished

(***************************************************************************)
(* The state recovery refuses for ever: another machine that published on  *)
(* top was cut short between the two renames that replace the pointer of a *)
(* remote without atomic exchange, so that m's publication, which its      *)
(* journal calls durable, is in no remote history any more.                *)
(***************************************************************************)
PublicationGone(m) ==
    /\ ~ Atomic
    /\ Durable(m) /\ ~ Published(journal[m])
    /\ \A n \in Machines : pc[n] # "place"

(***************************************************************************)
(* A machine whose publication is durable in its journal finishes the      *)
(* transaction and is free for adoptions and plans again, unless its       *)
(* publication is gone for good.                                           *)
(***************************************************************************)
Finishes ==
    \A m \in Machines : (Durable(m) ~> journal[m] = None) \/ <>[]PublicationGone(m)
=============================================================================
