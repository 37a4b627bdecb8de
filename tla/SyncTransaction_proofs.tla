----------------------- MODULE SyncTransaction_proofs -----------------------
(***************************************************************************)
(* Theorems of SyncTransaction for every number of machines, assets and    *)
(* contents, every bound and every backend.                                *)
(***************************************************************************)
EXTENDS SyncTransaction, TLAPS

\* Every head of a chain changes what its machine had edited since it agreed.
Reviewed(chain) ==
    \A i \in 2 .. Len(chain) :
        LET head == chain[i]
            prev == chain[i - 1]
            seen == IF head.seen = None THEN Empty ELSE head.seen
        IN  \A a \in Assets :
              head.snap[a] # prev.snap[a] =>
                  /\ head.snap[a] = head.from[a]
                  /\ prev.snap[a] = seen[a]

Sound(p) == Ready(p.local, p.base, p.remote) /\ Reviewed(p.remote)

\* The plan a journal was prepared from.
PlanOf(j) == [local |-> j.local, base |-> j.prior, remote |-> j.expected]

\* The journal is the one prepared from a reviewed plan, in whatever phase.
Written(j) ==
    /\ Sound(PlanOf(j))
    /\ j = [PreparedJournal(PlanOf(j)) EXCEPT !.phase = j.phase]
    /\ Len(j.rev) <= MaxHistory

Planning   == {"guard", "prepare"}
Pushing    == {"publishing", "publish", "place"}
Replaced   == {"localCommitted", "baseCommitting", "base", "baseCommitted",
               "complete", "removeJournal"}
Rolling    == {"published", "localCommitting", "local"} \cup Replaced
Journaling == Pushing \cup Rolling

\* What a machine knows of its plan before the journal is there.
PlanInv(m) ==
    /\ pc[m] \in {"reading", "planned"} \cup Planning => plan[m] # None /\ journal[m] = None
    /\ pc[m] \in {"planned"} \cup Planning => Sound(plan[m])
    /\ pc[m] \in Planning =>
         /\ local[m] = plan[m].local /\ base[m] = plan[m].base
         /\ Len(PreparedJournal(plan[m]).rev) <= MaxHistory
    /\ pc[m] = "prepare" => guard[m]

\* What holds of a journal whoever wrote it and however often it was recovered.
JournalInv(m) ==
    LET j == journal[m]
    IN  /\ j # None =>
             /\ guard[m]
             /\ Written(j)
             /\ local[m] \in {j.local, j.merged}
             /\ base[m] # j.prior => base[m] = ProposedBase(j) /\ local[m] = j.merged
        /\ pc[m] \in Journaling => j # None
        /\ pc[m] \in Pushing => j.intent /\ j.phase \in {Prepared, Publishing}
        /\ pc[m] \in Replaced => local[m] = j.merged
        /\ pc[m] = "removeGuard" => j = None

SyncInv ==
    /\ TypeOK
    /\ Reviewed(remote)
    /\ \A m \in Machines : PlanInv(m) /\ JournalInv(m)

\* What of a machine's state is in the history of the remote.
HistoryOf(m) ==
    LET j == journal[m]
    IN  /\ pc[m] # "place"
        /\ pc[m] \in Planning => InHistory(plan[m].remote, remote)
        /\ base[m] # None =>
             /\ InHistory(base[m].rev, remote)
             /\ base[m].snap = Selected(base[m].rev)
        /\ j # None /\ j.phase >= RemotePublished => Published(j)
        /\ j # None /\ local[m] # j.local => Published(j)
        /\ pc[m] \in Rolling => Published(j)

\* With an atomic pointer what was in the history stays there.
HistoryInv == Atomic /\ \A m \in Machines : HistoryOf(m)

-----------------------------------------------------------------------------
(***************************************************************************)
(* The outcome of a ready plan changes an asset only where the machine had *)
(* edited it and the head still has what the machine last agreed on.       *)
(***************************************************************************)
LEMMA OutcomeTyped ==
    ASSUME NEW p \in Plans, Sound(p)
    PROVE  /\ Outcome(p.local, p.base, p.remote) \in Snapshot
           /\ p.remote # << >> => Selected(p.remote) \in Snapshot
<1>1. /\ p.local \in Snapshot /\ p.base \in Bases \cup {None} /\ p.remote \in Seq(Heads)
      /\ p.base # None => p.base.snap \in Snapshot
  BY DEF Plans, Bases
<1>2. p.remote # << >> => Selected(p.remote) \in Snapshot
  <2>1. ASSUME p.remote # << >> PROVE p.remote[Len(p.remote)] \in Heads
    BY <1>1, <2>1
  <2>2. QED  BY <2>1 DEF Selected, Heads
<1>3. ASSUME NEW b \in Snapshot, NEW l \in Snapshot, NEW r \in Snapshot
      PROVE  Merged(b, l, r) \in Snapshot
  BY <1>3 DEF Merged, Choose, Snapshot
<1>4. QED  BY <1>1, <1>2, <1>3 DEF Outcome

LEMMA OutcomeReviewed ==
    ASSUME NEW p \in Plans, Sound(p), p.remote # << >>, NEW a \in Assets,
           Outcome(p.local, p.base, p.remote)[a] # Selected(p.remote)[a]
    PROVE  /\ Outcome(p.local, p.base, p.remote)[a] = p.local[a]
           /\ p.base # None /\ Selected(p.remote)[a] = p.base.snap[a]
<1>1. p.base # None
  BY DEF Outcome
<1>2. Outcome(p.local, p.base, p.remote)[a]
        = Choose(p.base.snap[a], p.local[a], Selected(p.remote)[a])
  BY <1>1 DEF Outcome, Merged
<1>3. ~ Conflict(p.base.snap[a], p.local[a], Selected(p.remote)[a])
  BY <1>1 DEF Sound, Ready, Conflicts
<1>4. QED  BY <1>1, <1>2, <1>3 DEF Choose, Conflict

(***************************************************************************)
(* PreparedJournal: the revision to publish ends with the merged snapshot, *)
(* extends the reviewed remote, and is reviewed itself.                    *)
(***************************************************************************)
LEMMA PreparedTyped ==
    ASSUME NEW p \in Plans, Sound(p)
    PROVE  LET j == PreparedJournal(p)
           IN  /\ j \in Journals /\ j.phase = Prepared
               /\ PlanOf(j) = p
               /\ j.merged = Outcome(p.local, p.base, p.remote)
<1> DEFINE merged == Outcome(p.local, p.base, p.remote)
           seen   == IF p.base = None THEN None ELSE p.base.snap
           head   == [snap |-> merged, from |-> p.local, seen |-> seen]
           intent == NeedsPublication(p, merged)
           rev    == IF intent THEN Append(p.remote, head) ELSE p.remote
<1>1. /\ p.local \in Snapshot /\ p.base \in Bases \cup {None} /\ p.remote \in Seq(Heads)
      /\ p = [local |-> p.local, base |-> p.base, remote |-> p.remote]
      /\ seen \in Snapshot \cup {None}
  BY DEF Plans, Bases
<1>2. merged \in Snapshot
  BY OutcomeTyped
<1>3. head \in Heads /\ intent \in BOOLEAN
  BY <1>1, <1>2 DEF Heads, NeedsPublication
<1>4. rev \in Seq(Heads)
  <2> HIDE DEF head, intent
  <2> QED  BY <1>1, <1>3
<1>5. PreparedJournal(p) =
        [phase  |-> Prepared, intent |-> intent, local |-> p.local, merged |-> merged,
         prior |-> p.base, expected |-> p.remote, rev |-> rev]
  BY DEF PreparedJournal
<1>6. Prepared \in Prepared .. Complete
  BY DEF Prepared, Complete
<1> HIDE DEF merged, seen, head, intent, rev
<1>7. PreparedJournal(p) \in Journals
  BY <1>1, <1>2, <1>3, <1>4, <1>5, <1>6 DEF Journals
<1>8. QED  BY <1>1, <1>5, <1>7 DEF PlanOf, merged

LEMMA PreparedRevision ==
    ASSUME NEW p \in Plans, Sound(p)
    PROVE  LET j == PreparedJournal(p)
           IN  /\ j.rev # << >> /\ Selected(j.rev) = j.merged
               /\ InHistory(p.remote, j.rev)
               /\ ~ j.intent => j.rev = p.remote
               /\ Reviewed(j.rev)
<1> DEFINE merged == Outcome(p.local, p.base, p.remote)
           seen   == IF p.base = None THEN None ELSE p.base.snap
           head   == [snap |-> merged, from |-> p.local, seen |-> seen]
           j      == PreparedJournal(p)
<1>1. /\ p.local \in Snapshot /\ p.base \in Bases \cup {None} /\ p.remote \in Seq(Heads)
      /\ p.base # None => p.base.snap \in Snapshot
  BY DEF Plans, Bases
<1>2. j.intent = NeedsPublication(p, merged) /\ j.merged = merged
      /\ j.rev = IF j.intent THEN Append(p.remote, head) ELSE p.remote
  BY DEF PreparedJournal
<1>3. head.snap = merged /\ head.from = p.local /\ head.seen = seen
  OBVIOUS
<1> HIDE DEF head, j
<1>4. CASE ~ j.intent
  <2>1. p.remote # << >> /\ Selected(p.remote) = merged
    BY <1>2, <1>4 DEF NeedsPublication
  <2>2. j.rev = p.remote
    BY <1>2, <1>4
  <2>3. InHistory(p.remote, p.remote)
    BY <1>1 DEF InHistory
  <2>4. QED  BY <1>2, <2>1, <2>2, <2>3 DEF Sound, j
<1>5. CASE j.intent
  <2> DEFINE n == Len(p.remote)
  <2>1. j.rev = Append(p.remote, head)
    BY <1>2, <1>5
  <2>2. /\ n \in Nat /\ Len(j.rev) = n + 1 /\ j.rev[n + 1] = head
        /\ \A i \in 1 .. n : j.rev[i] = p.remote[i]
    BY <1>1, <2>1
  <2>3. j.rev # << >> /\ Selected(j.rev) = merged
    BY <2>1, <2>2, <1>3, <1>1 DEF Selected
  <2>4. InHistory(p.remote, j.rev)
    BY <2>2 DEF InHistory
  <2>5. Reviewed(j.rev)
    <3> DEFINE At(c, i) ==
          LET was == IF c[i].seen = None THEN Empty ELSE c[i].seen
          IN  \A a \in Assets :
                c[i].snap[a] # c[i - 1].snap[a] =>
                    c[i].snap[a] = c[i].from[a] /\ c[i - 1].snap[a] = was[a]
    <3>1. SUFFICES ASSUME NEW i \in 2 .. Len(j.rev) PROVE At(j.rev, i)
      BY Zenon DEF Reviewed
    <3>2. CASE i # n + 1
      <4>1. i \in 2 .. n /\ i \in 1 .. n /\ i - 1 \in 1 .. n
        BY <2>2, <3>2
      <4>2. At(p.remote, i)
        BY <4>1, Zenon DEF Sound, Reviewed
      <4>3. j.rev[i] = p.remote[i] /\ j.rev[i - 1] = p.remote[i - 1]
        BY <2>2, <4>1
      <4>4. QED  BY <4>2, <4>3
    <3>3. CASE i = n + 1
      <4>1. n \in 1 .. n /\ i - 1 = n /\ p.remote # << >>
        BY <2>2, <3>3, <1>1
      <4>2. j.rev[i] = head /\ j.rev[i - 1].snap = Selected(p.remote)
        BY <2>2, <3>3, <4>1 DEF Selected
      <4>3. ASSUME NEW a \in Assets, merged[a] # Selected(p.remote)[a]
            PROVE  /\ merged[a] = p.local[a]
                   /\ Selected(p.remote)[a] = (IF seen = None THEN Empty ELSE seen)[a]
        <5>1. merged[a] = p.local[a] /\ p.base # None /\ Selected(p.remote)[a] = p.base.snap[a]
          BY <4>1, <4>3, OutcomeReviewed
        <5>2. seen = p.base.snap /\ seen # None
          BY <5>1, <1>1, SyncAssumption
        <5>3. QED  BY <5>1, <5>2
      <4>4. QED  BY <4>2, <4>3, <1>3
    <3>4. QED  BY <3>2, <3>3
  <2>6. QED  BY <1>2, <1>5, <2>3, <2>4, <2>5 DEF j
<1>6. j.intent \in BOOLEAN
  BY <1>2 DEF NeedsPublication
<1>7. QED  BY <1>4, <1>5, <1>6

-----------------------------------------------------------------------------
(***************************************************************************)
(* What a machine knows depends on its own state only; another machine's   *)
(* step leaves it alone, also one that publishes.                          *)
(***************************************************************************)
Own(m) == <<local[m], base[m], guard[m], journal[m], plan[m], pc[m]>>

LEMMA Frame ==
    ASSUME NEW n \in Machines, PlanInv(n), JournalInv(n), UNCHANGED Own(n)
    PROVE  PlanInv(n)' /\ JournalInv(n)'
BY DEF Own, PlanInv, JournalInv, ProposedBase

(***************************************************************************)
(* A step of one machine keeps the invariant when it keeps the types, the  *)
(* chain and that machine's part.                                          *)
(***************************************************************************)
LEMMA StepOf ==
    ASSUME SyncInv, NEW m \in Machines,
           \A n \in Machines \ {m} : UNCHANGED Own(n),
           TypeOK', Reviewed(remote)', PlanInv(m)', JournalInv(m)'
    PROVE  SyncInv'
<1>1. ASSUME NEW n \in Machines PROVE PlanInv(n)' /\ JournalInv(n)'
  <2>1. CASE n = m
    BY <2>1
  <2>2. CASE n # m
    BY <2>2, Frame DEF SyncInv
  <2>3. QED  BY <2>1, <2>2
<1>2. QED  BY <1>1 DEF SyncInv

(***************************************************************************)
(* A journal under recovery is the prepared one in a later phase.          *)
(***************************************************************************)
LEMMA JournalFacts ==
    ASSUME SyncInv, NEW m \in Machines, journal[m] # None
    PROVE  LET j == journal[m]
           IN  /\ j \in Journals /\ PlanOf(j) \in Plans
               /\ guard[m]
               /\ j.merged = Outcome(j.local, j.prior, j.expected)
               /\ j.rev # << >> /\ Selected(j.rev) = j.merged
               /\ InHistory(j.expected, j.rev)
               /\ ~ j.intent => j.rev = j.expected
               /\ Reviewed(j.rev) /\ Len(j.rev) <= MaxHistory
               /\ local[m] \in {j.local, j.merged}
               /\ base[m] # j.prior => base[m] = ProposedBase(j) /\ local[m] = j.merged
<1> DEFINE j == journal[m]
           p == PlanOf(j)
           r == PreparedJournal(p)
<1>1. j \in Journals
  BY DEF SyncInv, TypeOK
<1>2. p \in Plans
  BY <1>1 DEF Journals, Plans, PlanOf
<1>3. Sound(p) /\ guard[m] /\ j = [r EXCEPT !.phase = j.phase] /\ Len(j.rev) <= MaxHistory
      /\ local[m] \in {j.local, j.merged}
      /\ (base[m] # j.prior => base[m] = ProposedBase(j) /\ local[m] = j.merged)
  BY Zenon DEF SyncInv, JournalInv, Written
<1>4. r \in Journals /\ r.merged = Outcome(p.local, p.base, p.remote)
  BY <1>2, <1>3, PreparedTyped
<1>5. /\ r.rev # << >> /\ Selected(r.rev) = r.merged /\ InHistory(p.remote, r.rev)
      /\ (~ r.intent => r.rev = p.remote) /\ Reviewed(r.rev)
  BY <1>2, <1>3, PreparedRevision
<1>6. p.local = j.local /\ p.base = j.prior /\ p.remote = j.expected
  BY DEF PlanOf
<1>7. j.merged = r.merged /\ j.rev = r.rev /\ j.intent = r.intent
  <2> HIDE DEF r, j
  <2> QED  BY <1>3, <1>4 DEF Journals
<1> HIDE DEF j, p, r
<1>8. QED  BY <1>1, <1>2, <1>3, <1>4, <1>5, <1>6, <1>7, Zenon DEF j, p

-----------------------------------------------------------------------------
(***************************************************************************)
(* Init, and one lemma per action.                                         *)
(***************************************************************************)
LEMMA InitSync == Init => SyncInv
<1> SUFFICES ASSUME Init PROVE SyncInv
  OBVIOUS
<1>1. Empty \in Snapshot
  BY DEF Empty, Snapshot
<1>2. TypeOK
  BY <1>1, SyncAssumption DEF Init, TypeOK, Applying
<1>3. Reviewed(remote)
  BY DEF Init, Reviewed
<1>4. ASSUME NEW m \in Machines PROVE PlanInv(m) /\ JournalInv(m)
  BY DEF Init, PlanInv, JournalInv, Planning, Pushing, Rolling, Replaced, Journaling
<1>5. QED  BY <1>2, <1>3, <1>4 DEF SyncInv

LEMMA AdoptSync ==
    ASSUME SyncInv, NEW m \in Machines, NEW a \in Assets, NEW c \in Contents \cup {None},
           Adopt(m, a, c)
    PROVE  SyncInv'
<1>1. local' = [local EXCEPT ![m][a] = c] /\ local'[m] \in Snapshot
  BY DEF SyncInv, TypeOK, Adopt, Snapshot
<1>2. TypeOK'
  BY <1>1, SyncAssumption DEF SyncInv, TypeOK, Adopt
<1>3. \A n \in Machines \ {m} : UNCHANGED Own(n)
  BY <1>1 DEF SyncInv, TypeOK, Own, Adopt
<1>4. journal[m] = None
  BY DEF SyncInv, JournalInv, Adopt
<1>5. pc[m] \notin Applying
  BY DEF Adopt
<1>6. PlanInv(m)'
  BY <1>5 DEF SyncInv, PlanInv, Adopt, Applying, Planning, Sound
<1>7. JournalInv(m)'
  BY <1>4, <1>5 DEF SyncInv, JournalInv, Adopt, Applying, Journaling, Pushing, Rolling, Replaced
<1>8. Reviewed(remote)'
  BY DEF SyncInv, Reviewed, Adopt
<1>9. QED  BY <1>2, <1>3, <1>6, <1>7, <1>8, StepOf

LEMMA RefuseSync ==
    ASSUME SyncInv, NEW m \in Machines, Refuse(m)
    PROVE  SyncInv'
<1>1. TypeOK'
  BY DEF SyncInv, TypeOK, Refuse, Go, machine
<1>2. \A n \in Machines \ {m} : UNCHANGED Own(n)
  BY DEF SyncInv, TypeOK, Own, Refuse, Go, machine
<1>3. pc'[m] = "refused"
  BY DEF SyncInv, TypeOK, Refuse, Go
<1>4. PlanInv(m)'
  BY <1>3 DEF PlanInv, Planning
<1>5. JournalInv(m)'
  BY <1>3 DEF SyncInv, JournalInv, Refuse, machine, Journaling, Pushing, Rolling, Replaced,
              ProposedBase
<1>6. Reviewed(remote)'
  BY DEF SyncInv, Reviewed, Refuse
<1>7. QED  BY <1>1, <1>2, <1>4, <1>5, <1>6, StepOf

LEMMA ReadLocalSync ==
    ASSUME SyncInv, NEW m \in Machines, ReadLocal(m)
    PROVE  SyncInv'
<1> DEFINE p == [local |-> local[m], base |-> base[m], remote |-> << >>]
<1>1. p \in Plans
  BY DEF SyncInv, TypeOK, Plans
<1>2. TypeOK'
  BY <1>1 DEF SyncInv, TypeOK, ReadLocal, Go, machine
<1>3. \A n \in Machines \ {m} : UNCHANGED Own(n)
  BY DEF SyncInv, TypeOK, Own, ReadLocal, Go, machine
<1>4. pc'[m] = "reading" /\ plan'[m] = p /\ journal'[m] = None
  BY DEF SyncInv, TypeOK, ReadLocal, Go, machine
<1>5. PlanInv(m)' /\ JournalInv(m)'
  BY <1>1, <1>4, SyncAssumption
     DEF PlanInv, JournalInv, Planning, Journaling, Pushing, Rolling, Replaced
<1>6. Reviewed(remote)'
  BY DEF SyncInv, Reviewed, ReadLocal
<1>7. QED  BY <1>2, <1>3, <1>5, <1>6, StepOf

LEMMA ReadRemoteSync ==
    ASSUME SyncInv, NEW m \in Machines, ReadRemote(m)
    PROVE  SyncInv'
<1>1. pc[m] = "reading" /\ plan[m] # None /\ journal[m] = None /\ plan[m] \in Plans
  BY DEF SyncInv, TypeOK, ReadRemote, PlanInv
<1>2. CASE Ready(plan[m].local, plan[m].base, remote)
  <2> DEFINE p == [plan[m] EXCEPT !.remote = remote]
  <2>1. p \in Plans /\ p.local = plan[m].local /\ p.base = plan[m].base /\ p.remote = remote
    BY <1>1 DEF SyncInv, TypeOK, Plans
  <2>2. plan' = [plan EXCEPT ![m] = p] /\ pc' = [pc EXCEPT ![m] = "planned"]
        /\ UNCHANGED <<backend, machine, remote, adopts, crashes>>
    BY <1>2 DEF SyncInv, TypeOK, ReadRemote, Go
  <2> HIDE DEF p
  <2>3. TypeOK'
    BY <2>1, <2>2 DEF SyncInv, TypeOK, machine
  <2>4. \A n \in Machines \ {m} : UNCHANGED Own(n)
    BY <2>2 DEF SyncInv, TypeOK, Own, machine
  <2>5. pc'[m] = "planned" /\ plan'[m] = p /\ journal'[m] = None
    BY <2>2, <1>1 DEF SyncInv, TypeOK, machine
  <2>6. Sound(p)
    BY <1>2, <2>1 DEF SyncInv, Sound
  <2>7. Sound(plan[m])'
    BY <2>5, <2>6 DEF Sound
  <2>8. PlanInv(m)' /\ JournalInv(m)'
    BY <2>1, <2>5, <2>7, SyncAssumption
       DEF PlanInv, JournalInv, Planning, Journaling, Pushing, Rolling, Replaced
  <2>9. Reviewed(remote)'
    BY <2>2 DEF SyncInv, Reviewed
  <2>10. QED  BY <2>3, <2>4, <2>8, <2>9, StepOf
<1>3. CASE ~ Ready(plan[m].local, plan[m].base, remote)
  <2>1. Refuse(m)
    BY <1>3 DEF ReadRemote, Refuse
  <2>2. QED  BY <2>1, RefuseSync
<1>4. QED  BY <1>2, <1>3

LEMMA BeginSync ==
    ASSUME SyncInv, NEW m \in Machines, Begin(m)
    PROVE  SyncInv'
<1>1. CASE Refuse(m)
  BY <1>1, RefuseSync
<1>2. CASE /\ pc[m] = "planned" /\ Current(m)
           /\ Len(PreparedJournal(plan[m]).rev) <= MaxHistory
           /\ Go(m, "guard") /\ UNCHANGED <<backend, machine, remote, plan, adopts, crashes>>
  <2>1. TypeOK'
    BY <1>2 DEF SyncInv, TypeOK, Go, machine, Applying
  <2>2. \A n \in Machines \ {m} : UNCHANGED Own(n)
    BY <1>2 DEF SyncInv, TypeOK, Own, Go, machine
  <2>3. pc'[m] = "guard" /\ journal[m] = None
    BY <1>2 DEF SyncInv, TypeOK, Go, PlanInv
  <2>4. PlanInv(m)'
    BY <1>2, <2>3 DEF SyncInv, PlanInv, Current, machine, Planning
  <2>5. JournalInv(m)'
    BY <1>2, <2>3 DEF JournalInv, machine, Journaling, Pushing, Rolling, Replaced
  <2>6. Reviewed(remote)'
    BY <1>2 DEF SyncInv, Reviewed
  <2>7. QED  BY <2>1, <2>2, <2>4, <2>5, <2>6, StepOf
<1>3. QED  BY <1>1, <1>2 DEF Begin

LEMMA InstallGuardSync ==
    ASSUME SyncInv, NEW m \in Machines, InstallGuard(m)
    PROVE  SyncInv'
<1>1. TypeOK'
  BY DEF SyncInv, TypeOK, InstallGuard, Go, Applying
<1>2. \A n \in Machines \ {m} : UNCHANGED Own(n)
  BY DEF SyncInv, TypeOK, Own, InstallGuard, Go
<1>3. pc[m] = "guard" /\ pc'[m] = "prepare" /\ journal[m] = None /\ guard'[m]
  BY DEF SyncInv, TypeOK, InstallGuard, Go, PlanInv, Planning
<1>4. PlanInv(m)'
  BY <1>3 DEF SyncInv, PlanInv, InstallGuard, Planning
<1>5. JournalInv(m)'
  BY <1>3 DEF JournalInv, InstallGuard, Journaling, Pushing, Rolling, Replaced
<1>6. Reviewed(remote)'
  BY DEF SyncInv, Reviewed, InstallGuard
<1>7. QED  BY <1>1, <1>2, <1>4, <1>5, <1>6, StepOf

LEMMA InstallJournalSync ==
    ASSUME SyncInv, NEW m \in Machines, InstallJournal(m)
    PROVE  SyncInv'
<1> DEFINE p == plan[m]
           j == PreparedJournal(p)
<1>1. /\ pc[m] = "prepare" /\ p # None /\ Sound(p) /\ guard[m] /\ p \in Plans
      /\ local[m] = p.local /\ base[m] = p.base /\ Len(j.rev) <= MaxHistory
  BY DEF SyncInv, TypeOK, PlanInv, InstallJournal, Planning
<1>2. j \in Journals /\ j.phase = Prepared /\ PlanOf(j) = p
  BY <1>1, PreparedTyped
<1>3. j # None
  BY <1>2, SyncAssumption
<1>4. j = [PreparedJournal(PlanOf(j)) EXCEPT !.phase = j.phase]
  <2>1. PreparedJournal(PlanOf(j)) = j
    BY <1>2
  <2> HIDE DEF j
  <2>2. j = [j EXCEPT !.phase = j.phase]
    BY <1>2 DEF Journals
  <2>3. QED  BY <2>1, <2>2
<1>5. Written(j) /\ local[m] = j.local /\ base[m] = j.prior
  BY <1>1, <1>2, <1>4 DEF Written, PlanOf
<1>6. /\ journal' = [journal EXCEPT ![m] = j] /\ plan' = [plan EXCEPT ![m] = None]
      /\ pc' = [pc EXCEPT ![m] = IF j.intent THEN "publishing" ELSE "published"]
      /\ UNCHANGED <<backend, local, base, guard, remote, adopts, crashes>>
  BY DEF InstallJournal, Go
<1> HIDE DEF j
<1>7. TypeOK'
  BY <1>2, <1>6 DEF SyncInv, TypeOK, Applying
<1>8. \A n \in Machines \ {m} : UNCHANGED Own(n)
  BY <1>6 DEF SyncInv, TypeOK, Own
<1>9. journal'[m] = j /\ pc'[m] = IF j.intent THEN "publishing" ELSE "published"
  BY <1>6 DEF SyncInv, TypeOK
<1>10. PlanInv(m)'
  BY <1>9 DEF PlanInv, Planning
<1>11. JournalInv(m)'
  BY <1>1, <1>2, <1>3, <1>5, <1>6, <1>9
     DEF JournalInv, Journaling, Pushing, Rolling, Replaced
<1>12. Reviewed(remote)'
  BY <1>6 DEF SyncInv, Reviewed
<1>13. QED  BY <1>7, <1>8, <1>10, <1>11, <1>12, StepOf

(***************************************************************************)
(* A recovering process goes on only from a journal of its own guard; it   *)
(* publishes again only one that has not been published before.            *)
(***************************************************************************)
LEMMA RecoverSync ==
    ASSUME SyncInv, NEW m \in Machines, Recover(m)
    PROVE  SyncInv'
<1>1. CASE Refuse(m)
  BY <1>1, RefuseSync
<1>2. ASSUME ~ Refuse(m) PROVE SyncInv'
  <2> DEFINE next == pc'[m]
  <2>1. /\ journal[m] # None
        /\ UNCHANGED <<backend, machine, remote, plan, adopts, crashes>>
        /\ \/ Go(m, "published")
           \/ /\ Go(m, "publishing") /\ journal[m].intent
              /\ journal[m].phase \in {Prepared, Publishing}
    BY <1>2, Zenon DEF Recover
  <2>2. TypeOK'
    BY <2>1 DEF SyncInv, TypeOK, machine, Go, Applying
  <2>3. \A n \in Machines \ {m} : UNCHANGED Own(n)
    BY <2>1 DEF SyncInv, TypeOK, Own, machine, Go
  <2>4. \/ pc'[m] = "published"
        \/ /\ pc'[m] = "publishing" /\ journal[m].intent
           /\ journal[m].phase \in {Prepared, Publishing}
    BY <2>1 DEF SyncInv, TypeOK, Go
  <2>5. PlanInv(m)'
    BY <2>4 DEF PlanInv, Planning
  <2>6. JournalInv(m)'
    BY <2>1, <2>4 DEF SyncInv, JournalInv, machine, Journaling, Pushing, Rolling, Replaced,
                      ProposedBase
  <2>7. Reviewed(remote)'
    BY <2>1 DEF SyncInv, Reviewed
  <2>8. QED  BY <2>2, <2>3, <2>5, <2>6, <2>7, StepOf
<1>3. QED  BY <1>1, <1>2

(***************************************************************************)
(* A step that only touches the remote leaves a chain that is reviewed: it *)
(* is the revision of a journal, or empty.                                 *)
(***************************************************************************)
LEMMA RemoteSync ==
    ASSUME SyncInv, NEW m \in Machines, pc[m] \in Pushing,
           NEW chain \in {journal[m].rev, << >>}, remote' = chain,
           NEW label \in {"published", "place", "refused"}, Go(m, label),
           UNCHANGED <<backend, machine, plan, adopts, crashes>>
    PROVE  SyncInv'
<1>1. journal[m] # None
  BY DEF SyncInv, JournalInv, Journaling
<1>2. journal[m] \in Journals /\ Reviewed(journal[m].rev) /\ Len(journal[m].rev) <= MaxHistory
  BY <1>1, JournalFacts
<1>3. chain \in Seq(Heads) /\ Len(chain) <= MaxHistory /\ Reviewed(chain)
  <2>1. CASE chain = journal[m].rev
    BY <1>2, <2>1 DEF Journals
  <2>2. CASE chain = << >>
    BY <2>2, SyncAssumption DEF Reviewed
  <2>3. QED  BY <2>1, <2>2
<1>4. TypeOK'
  BY <1>3 DEF SyncInv, TypeOK, machine, Go, Applying
<1>5. \A n \in Machines \ {m} : UNCHANGED Own(n)
  BY DEF SyncInv, TypeOK, Own, machine, Go
<1>6. pc'[m] = label
  BY DEF SyncInv, TypeOK, Go
<1>7. PlanInv(m)'
  BY <1>6 DEF PlanInv, Planning
<1>8. JournalInv(m)'
  BY <1>1, <1>6 DEF SyncInv, JournalInv, machine, Journaling, Pushing, Rolling, Replaced,
                    ProposedBase
<1>9. Reviewed(remote)'
  BY <1>3 DEF Reviewed
<1>10. QED  BY <1>4, <1>5, <1>7, <1>8, <1>9, StepOf

LEMMA PublishSync ==
    ASSUME SyncInv, NEW m \in Machines, Publish(m) \/ Place(m) \/ AnswerLost(m)
    PROVE  SyncInv'
<1>1. pc[m] \in Pushing
  BY DEF Publish, Place, AnswerLost, Pushing
<1>2. CASE Publish(m)
  <2>1. CASE Refuse(m)
    BY <2>1, RefuseSync
  <2>2. CASE /\ remote' = journal[m].rev /\ Go(m, "published")
             /\ UNCHANGED <<backend, machine, plan, adopts, crashes>>
    BY <1>1, <2>2, RemoteSync
  <2>3. CASE /\ remote' = << >> /\ Go(m, "place")
             /\ UNCHANGED <<backend, machine, plan, adopts, crashes>>
    BY <1>1, <2>3, RemoteSync
  <2>4. QED  BY <1>2, <2>1, <2>2, <2>3 DEF Publish
<1>3. CASE Place(m)
  BY <1>1, <1>3, RemoteSync DEF Place
<1>4. CASE AnswerLost(m)
  BY <1>1, <1>4, RemoteSync DEF AnswerLost
<1>5. QED  BY <1>2, <1>3, <1>4

(***************************************************************************)
(* A journal in a later phase is still the one of its plan.                *)
(***************************************************************************)
LEMMA LaterPhase ==
    ASSUME NEW j \in Journals, Written(j), NEW ph \in Prepared .. Complete
    PROVE  LET k == [j EXCEPT !.phase = ph]
           IN  k \in Journals /\ Written(k)
<1> DEFINE k == [j EXCEPT !.phase = ph]
           r == PreparedJournal(PlanOf(j))
<1>1. k \in Journals
  BY DEF Journals
<1>2. PlanOf(k) = PlanOf(j) /\ k.rev = j.rev /\ k.phase = ph
  BY DEF Journals, PlanOf
<1>3. r \in Journals
  BY PreparedTyped DEF Written, Journals, PlanOf, Plans
<1>4. k = [r EXCEPT !.phase = ph]
  <2> HIDE DEF r
  <2>1. j = [r EXCEPT !.phase = j.phase]
    BY DEF Written, r
  <2>2. QED  BY <2>1, <1>3 DEF Journals
<1>5. QED  BY <1>1, <1>2, <1>4 DEF Written

LEMMA AdvanceSync ==
    ASSUME SyncInv, NEW m \in Machines, NEW target \in Publishing .. Complete,
           NEW label \in Journaling, NEW next \in Journaling, Advance(m, target, label, next),
           label \in Pushing => target = Publishing,
           next \in Replaced => label \in Replaced,
           next \in Pushing => label \in Pushing
    PROVE  SyncInv'
<1> DEFINE j == journal[m]
           k == [j EXCEPT !.phase = NextPhase(j)]
<1>1. /\ pc[m] = label /\ j # None /\ j \in Journals /\ Written(j)
      /\ UNCHANGED <<backend, local, base, guard, remote, plan, adopts, crashes>>
  BY DEF SyncInv, TypeOK, JournalInv, Advance
<1>2. \A n \in Machines \ {m} : UNCHANGED Own(n)
  BY DEF SyncInv, TypeOK, Own, Advance, Go
<1>3. Reviewed(remote)'
  BY <1>1 DEF SyncInv, Reviewed
<1>4. CASE j.phase >= target
  <2>1. UNCHANGED journal /\ pc' = [pc EXCEPT ![m] = next]
    BY <1>4 DEF Advance, Go
  <2>2. TypeOK'
    BY <1>1, <2>1 DEF SyncInv, TypeOK, Applying, Journaling, Pushing, Rolling, Replaced
  <2>3. pc'[m] = next
    BY <2>1 DEF SyncInv, TypeOK
  <2>4. PlanInv(m)'
    BY <2>3 DEF PlanInv, Planning, Journaling, Pushing, Rolling, Replaced
  <2>5. JournalInv(m)'
    BY <1>1, <2>1, <2>3
       DEF SyncInv, JournalInv, Journaling, Pushing, Rolling, Replaced, ProposedBase
  <2>6. QED  BY <1>2, <1>3, <2>2, <2>4, <2>5, StepOf
<1>5. CASE ~ j.phase >= target
  <2>1. journal' = [journal EXCEPT ![m] = k] /\ UNCHANGED pc
    BY <1>5 DEF Advance
  <2>2. NextPhase(j) \in Prepared .. Complete
    BY <1>1, <1>5 DEF NextPhase, Journals, Prepared, Publishing, RemotePublished, Complete
  <2>3. k \in Journals /\ Written(k)
    BY <1>1, <2>2, LaterPhase
  <2>4. k # None /\ k.local = j.local /\ k.merged = j.merged /\ k.prior = j.prior
        /\ k.rev = j.rev /\ k.intent = j.intent /\ k.phase = NextPhase(j)
    BY <1>1, <2>3, SyncAssumption DEF Journals
  <2> HIDE DEF k
  <2>5. TypeOK'
    BY <1>1, <2>1, <2>3 DEF SyncInv, TypeOK
  <2>6. journal'[m] = k /\ pc'[m] = label
    BY <1>1, <2>1 DEF SyncInv, TypeOK
  <2>7. PlanInv(m)'
    BY <2>6 DEF PlanInv, Planning, Journaling, Pushing, Rolling, Replaced
  <2>8. label \in Pushing => k.phase \in {Prepared, Publishing}
    BY <1>1, <1>5, <2>4
       DEF SyncInv, JournalInv, Pushing, NextPhase, Journals, Prepared, Publishing
  <2>9. ProposedBase(k) = ProposedBase(j)
    BY <2>4 DEF ProposedBase
  <2>10. JournalInv(m)'
    <3>1. /\ guard[m] /\ local[m] \in {j.local, j.merged}
          /\ base[m] # j.prior => base[m] = ProposedBase(j) /\ local[m] = j.merged
          /\ label \in Pushing => j.intent
          /\ label \in Replaced => local[m] = j.merged
      BY <1>1 DEF SyncInv, JournalInv
    <3>2. ProposedBase(journal[m])' = ProposedBase(k)
      BY <2>6 DEF ProposedBase
    <3>3. label # "removeGuard"
      BY DEF Journaling, Pushing, Rolling, Replaced
    <3>4. QED  BY <1>1, <2>3, <2>4, <2>6, <2>8, <2>9, <3>1, <3>2, <3>3 DEF JournalInv
  <2>11. QED  BY <1>2, <1>3, <2>5, <2>7, <2>10, StepOf
<1>6. QED  BY <1>4, <1>5

LEMMA CommitLocalSync ==
    ASSUME SyncInv, NEW m \in Machines, CommitLocal(m)
    PROVE  SyncInv'
<1> DEFINE j == journal[m]
<1>1. CASE Refuse(m)
  BY <1>1, RefuseSync
<1>2. CASE /\ local' = [local EXCEPT ![m] = j.merged]
           /\ Go(m, "localCommitted")
           /\ UNCHANGED <<backend, base, guard, journal, remote, plan, adopts, crashes>>
  <2>1. pc[m] = "local" /\ j # None /\ j \in Journals
    BY DEF SyncInv, TypeOK, JournalInv, CommitLocal, Journaling, Rolling
  <2>2. TypeOK'
    BY <1>2, <2>1 DEF SyncInv, TypeOK, Go, Applying, Journals
  <2>3. \A n \in Machines \ {m} : UNCHANGED Own(n)
    BY <1>2 DEF SyncInv, TypeOK, Own, Go
  <2>4. pc'[m] = "localCommitted" /\ local'[m] = j.merged
    BY <1>2 DEF SyncInv, TypeOK, Go
  <2>5. PlanInv(m)'
    BY <2>4 DEF PlanInv, Planning
  <2>6. JournalInv(m)'
    BY <1>2, <2>1, <2>4 DEF SyncInv, JournalInv, Journaling, Pushing, Rolling, Replaced,
                            ProposedBase
  <2>7. Reviewed(remote)'
    BY <1>2 DEF SyncInv, Reviewed
  <2>8. QED  BY <2>2, <2>3, <2>5, <2>6, <2>7, StepOf
<1>3. QED  BY <1>1, <1>2 DEF CommitLocal

LEMMA CommitBaseSync ==
    ASSUME SyncInv, NEW m \in Machines, CommitBase(m)
    PROVE  SyncInv'
<1> DEFINE j == journal[m]
<1>1. CASE Refuse(m)
  BY <1>1, RefuseSync
<1>2. CASE /\ base' = [base EXCEPT ![m] = ProposedBase(j)]
           /\ Go(m, "baseCommitted")
           /\ UNCHANGED <<backend, local, guard, journal, remote, plan, adopts, crashes>>
  <2>1. pc[m] = "base" /\ j # None /\ j \in Journals /\ local[m] = j.merged
    BY DEF SyncInv, TypeOK, JournalInv, CommitBase, Journaling, Rolling, Replaced
  <2>2. ProposedBase(j) \in Bases
    BY <2>1 DEF ProposedBase, Bases, Journals
  <2>3. TypeOK'
    BY <1>2, <2>2 DEF SyncInv, TypeOK, Go, Applying
  <2>4. \A n \in Machines \ {m} : UNCHANGED Own(n)
    BY <1>2 DEF SyncInv, TypeOK, Own, Go
  <2>5. pc'[m] = "baseCommitted" /\ base'[m] = ProposedBase(j)
    BY <1>2 DEF SyncInv, TypeOK, Go
  <2>6. PlanInv(m)'
    BY <2>5 DEF PlanInv, Planning
  <2>7. JournalInv(m)'
    BY <1>2, <2>1, <2>5 DEF SyncInv, JournalInv, Journaling, Pushing, Rolling, Replaced,
                            ProposedBase
  <2>8. Reviewed(remote)'
    BY <1>2 DEF SyncInv, Reviewed
  <2>9. QED  BY <2>3, <2>4, <2>6, <2>7, <2>8, StepOf
<1>3. QED  BY <1>1, <1>2 DEF CommitBase

LEMMA CleanupSync ==
    ASSUME SyncInv, NEW m \in Machines, RemoveJournal(m) \/ RemoveGuard(m)
    PROVE  SyncInv'
<1>1. TypeOK'
  BY DEF SyncInv, TypeOK, RemoveJournal, RemoveGuard, Go, Applying
<1>2. \A n \in Machines \ {m} : UNCHANGED Own(n)
  BY DEF SyncInv, TypeOK, Own, RemoveJournal, RemoveGuard, Go
<1>3. journal'[m] = None /\ pc'[m] \in {"removeGuard", "idle"}
  BY DEF SyncInv, TypeOK, JournalInv, RemoveJournal, RemoveGuard, Go
<1>4. PlanInv(m)' /\ JournalInv(m)'
  BY <1>3 DEF PlanInv, JournalInv, Planning, Journaling, Pushing, Rolling, Replaced
<1>5. Reviewed(remote)'
  BY DEF SyncInv, Reviewed, RemoveJournal, RemoveGuard
<1>6. QED  BY <1>1, <1>2, <1>4, <1>5, StepOf

LEMMA CrashSync ==
    ASSUME SyncInv, NEW m \in Machines, Crash(m)
    PROVE  SyncInv'
<1>1. TypeOK'
  BY SyncAssumption DEF SyncInv, TypeOK, Crash, Go, machine
<1>2. \A n \in Machines \ {m} : UNCHANGED Own(n)
  BY DEF SyncInv, TypeOK, Own, Crash, Go, machine
<1>3. pc'[m] = "idle"
  BY DEF SyncInv, TypeOK, Crash, Go
<1>4. PlanInv(m)'
  BY <1>3 DEF PlanInv, Planning
<1>5. JournalInv(m)'
  BY <1>3 DEF SyncInv, JournalInv, Crash, machine, Journaling, Pushing, Rolling, Replaced,
              ProposedBase
<1>6. Reviewed(remote)'
  BY DEF SyncInv, Reviewed, Crash
<1>7. QED  BY <1>1, <1>2, <1>4, <1>5, <1>6, StepOf

(***************************************************************************)
(* The phase, the label and the following label of every advance.          *)
(***************************************************************************)
LEMMA ApplySync ==
    ASSUME SyncInv, NEW m \in Machines, Apply(m)
    PROVE  SyncInv'
<1> USE DEF Prepared, Publishing, RemotePublished, LocalCommitting, LocalCommitted,
            BaseCommitting, BaseCommitted, Complete,
            Journaling, Pushing, Rolling, Replaced
<1>1. CASE Advance(m, Publishing, "publishing", "publish")
  BY <1>1, AdvanceSync
<1>2. CASE Advance(m, RemotePublished, "published", "localCommitting")
  BY <1>2, AdvanceSync
<1>3. CASE Advance(m, LocalCommitting, "localCommitting", "local")
  BY <1>3, AdvanceSync
<1>4. CASE Advance(m, LocalCommitted, "localCommitted", "baseCommitting")
  BY <1>4, AdvanceSync
<1>5. CASE Advance(m, BaseCommitting, "baseCommitting", "base")
  BY <1>5, AdvanceSync
<1>6. CASE Advance(m, BaseCommitted, "baseCommitted", "complete")
  BY <1>6, AdvanceSync
<1>7. CASE Advance(m, Complete, "complete", "removeJournal")
  BY <1>7, AdvanceSync
<1>8. QED
  BY <1>1, <1>2, <1>3, <1>4, <1>5, <1>6, <1>7, InstallGuardSync, InstallJournalSync,
     PublishSync, CommitLocalSync, CommitBaseSync, CleanupSync, Zenon DEF Apply

LEMMA StepSync == SyncInv /\ [Next]_vars => SyncInv'
<1> SUFFICES ASSUME SyncInv, [Next]_vars PROVE SyncInv'
  OBVIOUS
<1>1. CASE Next
  BY <1>1, AdoptSync, ReadLocalSync, ReadRemoteSync, BeginSync, RecoverSync, ApplySync,
     CrashSync, Zenon DEF Next
<1>2. CASE UNCHANGED vars
  <2>1. TypeOK' /\ Reviewed(remote)'
    BY <1>2 DEF SyncInv, TypeOK, Reviewed, vars
  <2>2. ASSUME NEW n \in Machines PROVE PlanInv(n)' /\ JournalInv(n)'
    BY <1>2, Frame DEF SyncInv, Own, vars, machine
  <2>3. QED  BY <2>1, <2>2 DEF SyncInv
<1>3. QED  BY <1>1, <1>2

-----------------------------------------------------------------------------
(***************************************************************************)
(* The invariant of the transaction, whatever the remote is and however    *)
(* often an apply dies and is recovered.                                   *)
(***************************************************************************)
THEOREM SyncInvariant == Spec => []SyncInv
<1>1. QED  BY InitSync, StepSync, PTL DEF Spec

(***************************************************************************)
(* No lost update: no publication of any machine drops a change of another *)
(* that it had not merged, on every backend.                               *)
(***************************************************************************)
THEOREM NoUpdateLost == Spec => []NoLostUpdate
<1>1. SyncInv => NoLostUpdate
  BY Zenon DEF SyncInv, Reviewed, NoLostUpdate
<1>2. QED  BY <1>1, SyncInvariant, PTL

-----------------------------------------------------------------------------
(***************************************************************************)
(* An edit that was not published survives a transaction: the outcome of a *)
(* ready plan is the local content wherever that differs from the base.    *)
(***************************************************************************)
LEMMA OutcomeKeeps ==
    ASSUME NEW p \in Plans, Sound(p), NEW a \in Assets,
           p.local[a] # BaseSnap(p.base)[a]
    PROVE  Outcome(p.local, p.base, p.remote)[a] = p.local[a]
<1>1. CASE p.remote = << >>
  BY <1>1 DEF Outcome
<1>2. CASE p.remote # << >> /\ p.base = None
  <2>1. p.local # Empty
    BY <1>2 DEF BaseSnap
  <2>2. p.local = Selected(p.remote)
    BY <1>2, <2>1 DEF Sound, Ready
  <2>3. QED  BY <1>2, <2>2 DEF Outcome
<1>3. CASE p.remote # << >> /\ p.base # None
  BY <1>3 DEF Outcome, Merged, Choose, BaseSnap
<1>4. QED  BY <1>1, <1>2, <1>3

EditKept(m) ==
    journal[m] # None =>
        \A a \in Assets :
            local[m][a] # BaseSnap(base[m])[a] => local'[m][a] = local[m][a]

LEMMA EditStep ==
    ASSUME SyncInv, [Next]_vars, NEW m \in Machines
    PROVE  EditKept(m)
<1> DEFINE j == journal[m]
<1>1. SUFFICES ASSUME j # None, local'[m] # local[m], NEW a \in Assets,
                      local[m][a] # BaseSnap(base[m])[a]
               PROVE  local'[m][a] = local[m][a]
  BY DEF EditKept
<1>2. CommitLocal(m)
  <2>1. local' # local
    BY <1>1
  <2>2. PICK n \in Machines :
          \/ \E b \in Assets, c \in Contents \cup {None} : Adopt(n, b, c)
          \/ CommitLocal(n)
    BY <2>1, Zenon DEF Next, vars, machine, Refuse, ReadLocal, ReadRemote, Begin, Recover, Apply, Crash,
           InstallGuard, InstallJournal, Advance, Publish, Place, AnswerLost, CommitBase,
           RemoveJournal, RemoveGuard
  <2>3. n = m
    BY <1>1, <2>2 DEF SyncInv, TypeOK, Adopt, CommitLocal, Refuse, machine
  <2>4. guard[m]
    BY <1>1, JournalFacts
  <2>5. QED  BY <2>2, <2>3, <2>4 DEF Adopt
<1>3. local'[m] = j.merged
  BY <1>1, <1>2 DEF SyncInv, TypeOK, CommitLocal, Refuse, machine
<1>4. local[m] = j.local /\ base[m] = j.prior
  BY <1>1, <1>3, JournalFacts
<1>5. PlanOf(j) \in Plans /\ Sound(PlanOf(j)) /\ j.merged = Outcome(j.local, j.prior, j.expected)
  BY <1>1, JournalFacts DEF SyncInv, JournalInv, Written
<1>6. PlanOf(j).local = j.local /\ PlanOf(j).base = j.prior /\ PlanOf(j).remote = j.expected
  BY DEF PlanOf
<1>7. QED  BY <1>1, <1>3, <1>4, <1>5, <1>6, OutcomeKeeps

(***************************************************************************)
(* Sync never takes an unpublished edit away, also not when it recovers.   *)
(***************************************************************************)
THEOREM EditsStay == Spec => EditsKept
<1>1. SyncInv /\ [Next]_vars => \A m \in Machines : EditKept(m)
  BY EditStep
<1>2. SyncInv /\ [Next]_vars =>
        [\A m \in Machines :
           journal[m] # None =>
             \A a \in Assets :
                 local[m][a] # BaseSnap(base[m])[a] => local'[m][a] = local[m][a]]_vars
  BY <1>1 DEF EditKept
<1>3. QED  BY <1>2, SyncInvariant, PTL DEF Spec, EditsKept

-----------------------------------------------------------------------------
(***************************************************************************)
(* The history of an atomic remote only grows.                             *)
(***************************************************************************)
LEMMA Transitive ==
    ASSUME NEW r \in Seq(Heads), NEW c \in Seq(Heads), NEW d \in Seq(Heads),
           InHistory(r, c), InHistory(c, d)
    PROVE  InHistory(r, d)
<1>1. Len(r) \in Nat /\ Len(c) \in Nat /\ Len(d) \in Nat
  OBVIOUS
<1>2. QED  BY <1>1 DEF InHistory

LEMMA Reflexive == ASSUME NEW r \in Seq(Heads) PROVE InHistory(r, r)
BY DEF InHistory

Grows == \A r \in Seq(Heads) : InHistory(r, remote) => InHistory(r, remote')

LEMMA GrowStep ==
    ASSUME SyncInv, HistoryInv, [Next]_vars
    PROVE  Grows
<1>1. CASE remote' = remote
  BY <1>1 DEF Grows
<1>2. CASE remote' # remote
  <2>1. PICK m \in Machines : Publish(m) \/ Place(m) \/ AnswerLost(m)
    BY <1>2, Zenon DEF Next, vars, Refuse, Adopt, ReadLocal, ReadRemote, Begin, Recover, Apply,
           Crash, InstallGuard, InstallJournal, Advance, CommitLocal, CommitBase,
           RemoveJournal, RemoveGuard
  <2>2. pc[m] # "place" /\ Atomic
    BY DEF HistoryInv, HistoryOf
  <2>3. remote = journal[m].expected /\ remote' = journal[m].rev
    BY <1>2, <2>1, <2>2 DEF Publish, Place, AnswerLost, Refuse
  <2>4. pc[m] = "publish"
    BY <2>1, <2>2 DEF Publish, Place, AnswerLost
  <2>5. journal[m] # None
    BY <2>4 DEF SyncInv, JournalInv, Journaling, Pushing
  <2>6. InHistory(remote, remote') /\ remote \in Seq(Heads) /\ remote' \in Seq(Heads)
    BY <2>3, <2>5, JournalFacts DEF SyncInv, TypeOK, Journals
  <2>7. QED  BY <2>6, Transitive DEF Grows
<1>3. QED  BY <1>1, <1>2

(***************************************************************************)
(* A machine whose local authority, base and journal stay is still in the  *)
(* history, if the label it moves to claims no more than what is there.    *)
(***************************************************************************)
LEMMA HistoryStays ==
    ASSUME SyncInv, HistoryInv, Grows, NEW m \in Machines,
           UNCHANGED <<local[m], base[m], journal[m]>>, pc'[m] # "place",
           pc'[m] \in Planning => InHistory(plan'[m].remote, remote'),
           pc'[m] \in Rolling => InHistory(journal[m].rev, remote')
    PROVE  HistoryOf(m)'
<1>1. base[m] # None => base[m].rev \in Seq(Heads)
  BY DEF SyncInv, TypeOK, Bases
<1>2. journal[m] # None => journal[m].rev \in Seq(Heads)
  BY DEF SyncInv, TypeOK, Journals
<1>3. HistoryOf(m)
  BY DEF HistoryInv
<1>4. base[m] # None => InHistory(base[m].rev, remote') /\ base[m].snap = Selected(base[m].rev)
  BY <1>1, <1>3 DEF HistoryOf, Grows
<1>5. journal[m] # None /\ (journal[m].phase >= RemotePublished \/ local[m] # journal[m].local)
        => InHistory(journal[m].rev, remote')
  BY <1>2, <1>3 DEF HistoryOf, Grows, Published
<1>6. QED  BY <1>4, <1>5 DEF HistoryOf, Published

LEMMA HistoryPlans ==
    ASSUME SyncInv, HistoryInv, Grows, NEW m \in Machines,
           ReadLocal(m) \/ ReadRemote(m) \/ Begin(m) \/ InstallGuard(m) \/ Crash(m)
             \/ RemoveGuard(m)
    PROVE  HistoryOf(m)'
<1>1. UNCHANGED <<local[m], base[m], journal[m], remote>>
  BY Zenon DEF ReadLocal, ReadRemote, Begin, InstallGuard, Crash, RemoveGuard, Refuse, machine
<1>2. pc'[m] \in {"idle", "reading", "planned", "refused"} \cup Planning
  BY DEF SyncInv, TypeOK, ReadLocal, ReadRemote, Begin, InstallGuard, Crash, RemoveGuard,
         Refuse, Go, Planning
<1>3. ASSUME pc'[m] \in Planning PROVE InHistory(plan'[m].remote, remote')
  <2>1. CASE Begin(m)
    <3>1. plan'[m].remote = remote /\ remote' = remote
      BY <1>3, <2>1 DEF SyncInv, TypeOK, Begin, Current, Refuse, Go, Planning
    <3>2. QED  BY <3>1, Reflexive DEF SyncInv, TypeOK
  <2>2. CASE InstallGuard(m)
    <3>1. pc[m] \in Planning /\ plan' = plan /\ remote' = remote
      BY <2>2 DEF InstallGuard, Planning
    <3>2. QED  BY <3>1 DEF HistoryInv, HistoryOf
  <2>3. CASE ReadLocal(m) \/ ReadRemote(m) \/ Crash(m) \/ RemoveGuard(m)
    BY <1>3, <2>3 DEF SyncInv, TypeOK, ReadLocal, ReadRemote, Crash, RemoveGuard, Refuse,
                      Go, Planning
  <2>4. QED  BY <2>1, <2>2, <2>3
<1>4. QED  BY <1>1, <1>2, <1>3, HistoryStays DEF Planning, Rolling, Replaced

LEMMA HistoryJournal ==
    ASSUME SyncInv, HistoryInv, Grows, NEW m \in Machines, InstallJournal(m)
    PROVE  HistoryOf(m)'
<1> DEFINE p == plan[m]
           j == PreparedJournal(p)
<1>1. /\ pc[m] = "prepare" /\ Sound(p) /\ p \in Plans
      /\ local[m] = p.local /\ InHistory(p.remote, remote)
  BY DEF SyncInv, HistoryInv, HistoryOf, TypeOK, PlanInv, InstallJournal, Planning
<1>2. j.phase = Prepared /\ j.local = p.local /\ (~ j.intent => j.rev = p.remote)
  <2>1. j.phase = Prepared /\ PlanOf(j) = p
    BY <1>1, PreparedTyped
  <2>2. ~ j.intent => j.rev = p.remote
    BY <1>1, PreparedRevision
  <2>3. QED  BY <2>1, <2>2 DEF PlanOf
<1> HIDE DEF j
<1>3. /\ journal'[m] = j /\ pc'[m] = (IF j.intent THEN "publishing" ELSE "published")
      /\ UNCHANGED <<local, base, remote>>
  BY DEF SyncInv, TypeOK, InstallJournal, Go, j
<1>4. base[m] # None => InHistory(base[m].rev, remote) /\ base[m].snap = Selected(base[m].rev)
  BY DEF HistoryInv, HistoryOf
<1>5. QED
  BY <1>1, <1>2, <1>3, <1>4
     DEF HistoryOf, Published, Planning, Rolling, Replaced, Prepared, RemotePublished

LEMMA HistoryPublishes ==
    ASSUME SyncInv, HistoryInv, Grows, NEW m \in Machines,
           Recover(m) \/ Publish(m) \/ Place(m) \/ AnswerLost(m)
    PROVE  HistoryOf(m)'
<1>1. pc[m] # "place" /\ Atomic
  BY DEF HistoryInv, HistoryOf
<1>2. UNCHANGED <<local[m], base[m], journal[m]>>
  BY Zenon DEF Recover, Publish, Place, AnswerLost, Refuse, machine
<1>3. pc'[m] \in {"publishing", "published", "refused"}
  BY <1>1 DEF SyncInv, TypeOK, Recover, Publish, Place, AnswerLost, Refuse, Go
<1>4. journal[m] # None
  <2>1. CASE Recover(m)
    BY <2>1 DEF Recover
  <2>2. CASE pc[m] = "publish"
    BY <2>2 DEF SyncInv, JournalInv, Journaling, Pushing
  <2>3. QED  BY <1>1, <2>1, <2>2 DEF Publish, Place, AnswerLost
<1>5. journal[m].rev \in Seq(Heads)
  BY <1>4 DEF SyncInv, TypeOK, Journals
<1>6. ASSUME pc'[m] = "published" PROVE InHistory(journal[m].rev, remote')
  <2>1. CASE Recover(m)
    <3>1. remote' = remote /\ (InHistory(journal[m].rev, remote) \/ remote = journal[m].rev)
      BY <1>6, <2>1 DEF SyncInv, TypeOK, Recover, Refuse, Go, Published
    <3>2. QED  BY <3>1, <1>5, Reflexive
  <2>2. CASE Publish(m) \/ AnswerLost(m)
    <3>1. remote' = journal[m].rev
      BY <1>1, <1>6, <2>2 DEF SyncInv, TypeOK, Publish, AnswerLost, Refuse, Go
    <3>2. QED  BY <3>1, <1>5, Reflexive
  <2>3. QED  BY <1>1, <2>1, <2>2 DEF Place
<1>7. QED  BY <1>2, <1>3, <1>6, HistoryStays DEF Planning, Rolling, Replaced

LEMMA HistoryAdvance ==
    ASSUME SyncInv, HistoryInv, Grows, NEW m \in Machines, NEW target \in Publishing .. Complete,
           NEW label \in Journaling, NEW next \in Journaling \ {"place"},
           Advance(m, target, label, next),
           label \in Pushing => target = Publishing,
           next \in Rolling => label \in Rolling
    PROVE  HistoryOf(m)'
<1> DEFINE j == journal[m]
<1>1. /\ pc[m] = label /\ j # None /\ j \in Journals /\ HistoryOf(m)
      /\ UNCHANGED <<local, base, remote>>
  BY DEF SyncInv, TypeOK, JournalInv, HistoryInv, Advance
<1>2. CASE j.phase >= target
  <2>1. journal' = journal /\ pc'[m] = next
    BY <1>2 DEF SyncInv, TypeOK, Advance, Go
  <2>2. pc'[m] \in Rolling => InHistory(j.rev, remote')
    BY <1>1, <2>1 DEF HistoryOf, Published
  <2>3. QED
    BY <1>1, <2>1, <2>2, HistoryStays DEF Planning, Journaling, Pushing, Rolling, Replaced
<1>3. CASE ~ j.phase >= target
  <2>1. journal' = [journal EXCEPT ![m] = [j EXCEPT !.phase = NextPhase(j)]] /\ pc' = pc
    BY <1>3 DEF Advance
  <2>2. /\ journal'[m].rev = j.rev /\ journal'[m].local = j.local
        /\ journal'[m].phase = NextPhase(j)
    BY <1>1, <2>1 DEF SyncInv, TypeOK, Journals
  <2>3. label \in Rolling \/ NextPhase(j) < RemotePublished
    BY <1>1, <1>3 DEF SyncInv, JournalInv, Journals, NextPhase, Journaling, Prepared,
                      Publishing, RemotePublished
  <2>4. label \in Rolling => InHistory(j.rev, remote)
    BY <1>1 DEF HistoryOf, Published
  <2>5. NextPhase(j) \in Nat /\ RemotePublished \in Nat
    BY <1>1 DEF NextPhase, Journals, Prepared, Complete, RemotePublished
  <2>6. label \notin Planning /\ label # "place"
    BY <1>1 DEF HistoryOf, Planning, Journaling, Pushing, Rolling, Replaced
  <2>7. QED  BY <1>1, <2>1, <2>2, <2>3, <2>4, <2>5, <2>6 DEF HistoryOf, Published
<1>4. QED  BY <1>2, <1>3

LEMMA OthersStay ==
    ASSUME SyncInv, NEW m \in Machines,
           \/ \E a \in Assets, c \in Contents \cup {None} : Adopt(m, a, c)
           \/ ReadLocal(m) \/ ReadRemote(m) \/ Begin(m)
           \/ Recover(m)
           \/ Apply(m)
           \/ Crash(m)
    PROVE  \A n \in Machines \ {m} : UNCHANGED Own(n)
<1> USE DEF SyncInv, TypeOK, Own, Go
<1>2. CASE \E a \in Assets, c \in Contents \cup {None} : Adopt(m, a, c)
  BY <1>2 DEF Adopt
<1>3. CASE Refuse(m)
  BY <1>3 DEF Refuse, machine
<1>4. CASE ReadLocal(m) \/ ReadRemote(m)
  BY <1>4 DEF ReadLocal, ReadRemote, machine
<1>5. CASE (Begin(m) \/ Recover(m) \/ Crash(m)) /\ ~ Refuse(m)
  BY <1>5 DEF Begin, Recover, Crash, machine
<1>6. CASE (Publish(m) \/ Place(m) \/ AnswerLost(m)) /\ ~ Refuse(m)
  BY <1>6 DEF Publish, Place, AnswerLost, machine
<1>7. CASE (CommitLocal(m) \/ CommitBase(m)) /\ ~ Refuse(m)
  BY <1>7 DEF CommitLocal, CommitBase
<1>8. CASE InstallGuard(m) \/ InstallJournal(m) \/ RemoveJournal(m) \/ RemoveGuard(m)
  BY <1>8 DEF InstallGuard, InstallJournal, RemoveJournal, RemoveGuard
<1>9. ASSUME NEW target, NEW label, NEW next, Advance(m, target, label, next)
      PROVE  \A n \in Machines \ {m} : UNCHANGED Own(n)
  BY <1>9 DEF Advance
<1>10. QED
  BY <1>2, <1>3, <1>4, <1>5, <1>6, <1>7, <1>8, <1>9, Zenon DEF Apply

LEMMA HistoryCommits ==
    ASSUME SyncInv, HistoryInv, Grows, NEW m \in Machines,
           CommitLocal(m) \/ CommitBase(m) \/ RemoveJournal(m)
             \/ \E a \in Assets, c \in Contents \cup {None} : Adopt(m, a, c)
    PROVE  HistoryOf(m)'
<1> DEFINE j == journal[m]
<1>1. HistoryOf(m)
  BY DEF HistoryInv
<1>2. CASE Refuse(m)
  <2>1. UNCHANGED <<local[m], base[m], journal[m]>> /\ pc'[m] = "refused"
    BY <1>2 DEF SyncInv, TypeOK, Refuse, Go, machine
  <2>2. QED  BY <2>1, HistoryStays DEF Planning, Rolling, Replaced
<1>3. CASE CommitLocal(m) /\ ~ Refuse(m)
  <2>1. /\ pc[m] = "local" /\ pc'[m] = "localCommitted"
        /\ UNCHANGED <<base, journal, remote>>
    BY <1>3 DEF SyncInv, TypeOK, CommitLocal, Go
  <2>2. Published(j)
    BY <1>1, <2>1 DEF HistoryOf, Rolling
  <2>3. QED  BY <1>1, <2>1, <2>2 DEF HistoryOf, Published, Planning
<1>4. CASE CommitBase(m) /\ ~ Refuse(m)
  <2>1. /\ pc[m] = "base" /\ pc'[m] = "baseCommitted" /\ base'[m] = ProposedBase(j)
        /\ UNCHANGED <<local, journal, remote>>
    BY <1>4 DEF SyncInv, TypeOK, CommitBase, Go
  <2>2. Published(j) /\ j # None
    BY <1>1, <2>1 DEF SyncInv, JournalInv, HistoryOf, Journaling, Rolling, Replaced
  <2>3. Selected(j.rev) = j.merged
    BY <2>2, JournalFacts
  <2>4. QED  BY <1>1, <2>1, <2>2, <2>3 DEF HistoryOf, Published, ProposedBase, Planning
<1>5. CASE RemoveJournal(m)
  <2>1. /\ pc'[m] = "removeGuard" /\ journal'[m] = None /\ UNCHANGED <<base, remote>>
    BY <1>5 DEF SyncInv, TypeOK, RemoveJournal, Go
  <2>2. QED  BY <1>1, <2>1 DEF HistoryOf, Planning, Rolling, Replaced
<1>6. CASE \E a \in Assets, c \in Contents \cup {None} : Adopt(m, a, c)
  <2>1. /\ pc[m] \notin Applying /\ ~ guard[m] /\ UNCHANGED <<base, journal, remote, pc, plan>>
    BY <1>6 DEF Adopt
  <2>2. journal[m] = None
    BY <2>1, JournalFacts
  <2>3. QED  BY <1>1, <2>1, <2>2 DEF HistoryOf, Planning, Rolling, Replaced, Applying
<1>7. QED  BY <1>2, <1>3, <1>4, <1>5, <1>6

LEMMA HistoryApply ==
    ASSUME SyncInv, HistoryInv, Grows, NEW m \in Machines, Apply(m)
    PROVE  HistoryOf(m)'
<1> USE DEF Prepared, Publishing, RemotePublished, LocalCommitting, LocalCommitted,
            BaseCommitting, BaseCommitted, Complete,
            Journaling, Pushing, Rolling, Replaced
<1>1. CASE Advance(m, Publishing, "publishing", "publish")
  BY <1>1, HistoryAdvance
<1>2. CASE Advance(m, RemotePublished, "published", "localCommitting")
  BY <1>2, HistoryAdvance
<1>3. CASE Advance(m, LocalCommitting, "localCommitting", "local")
  BY <1>3, HistoryAdvance
<1>4. CASE Advance(m, LocalCommitted, "localCommitted", "baseCommitting")
  BY <1>4, HistoryAdvance
<1>5. CASE Advance(m, BaseCommitting, "baseCommitting", "base")
  BY <1>5, HistoryAdvance
<1>6. CASE Advance(m, BaseCommitted, "baseCommitted", "complete")
  BY <1>6, HistoryAdvance
<1>7. CASE Advance(m, Complete, "complete", "removeJournal")
  BY <1>7, HistoryAdvance
<1>8. QED
  BY <1>1, <1>2, <1>3, <1>4, <1>5, <1>6, <1>7, HistoryPlans, HistoryJournal,
     HistoryPublishes, HistoryCommits, Zenon DEF Apply

(***************************************************************************)
(* One machine moves; the others have the same state and a longer history. *)
(***************************************************************************)
LEMMA HistoryStep == SyncInv /\ HistoryInv /\ [Next]_vars => HistoryInv'
<1> SUFFICES ASSUME SyncInv, HistoryInv, [Next]_vars PROVE HistoryInv'
  OBVIOUS
<1>1. Grows
  BY GrowStep
<1>2. backend' = backend
  BY Zenon DEF Next, vars, Refuse, Adopt, ReadLocal, ReadRemote, Begin, Recover, Apply, Crash,
         InstallGuard, InstallJournal, Advance, Publish, Place, AnswerLost, CommitLocal,
         CommitBase, RemoveJournal, RemoveGuard
<1>3. ASSUME NEW n \in Machines, UNCHANGED Own(n) PROVE HistoryOf(n)'
  <2>1. /\ UNCHANGED <<local[n], base[n], journal[n]>> /\ pc'[n] = pc[n] /\ plan'[n] = plan[n]
        /\ HistoryOf(n)
    BY <1>3 DEF Own, HistoryInv
  <2>2. ASSUME pc'[n] \in Planning PROVE InHistory(plan'[n].remote, remote')
    <3>1. plan[n] # None /\ plan[n].remote \in Seq(Heads)
      BY <2>1, <2>2 DEF SyncInv, TypeOK, PlanInv, Plans, Planning
    <3>2. QED  BY <1>1, <2>1, <2>2, <3>1 DEF HistoryOf, Grows
  <2>3. ASSUME pc'[n] \in Rolling PROVE InHistory(journal[n].rev, remote')
    <3>1. journal[n] # None /\ journal[n].rev \in Seq(Heads)
      BY <2>1, <2>3 DEF SyncInv, TypeOK, JournalInv, Journals, Journaling
    <3>2. QED  BY <1>1, <2>1, <2>3, <3>1 DEF HistoryOf, Published, Grows
  <2>4. pc'[n] # "place"
    BY <2>1 DEF HistoryOf
  <2>5. QED  BY <1>1, <2>1, <2>2, <2>3, <2>4, HistoryStays
<1>4. CASE UNCHANGED vars
  <2>1. \A n \in Machines : UNCHANGED Own(n)
    BY <1>4 DEF vars, machine, Own
  <2>2. QED  BY <1>2, <1>3, <2>1 DEF HistoryInv, Atomic
<1>5. ASSUME NEW m \in Machines,
             \/ \E a \in Assets, c \in Contents \cup {None} : Adopt(m, a, c)
             \/ ReadLocal(m) \/ ReadRemote(m) \/ Begin(m)
             \/ Recover(m)
             \/ Apply(m)
             \/ Crash(m)
      PROVE  HistoryInv'
  <2>1. HistoryOf(m)'
    BY <1>1, <1>5, HistoryCommits, HistoryPlans, HistoryPublishes, HistoryApply, Zenon
  <2>2. \A n \in Machines \ {m} : UNCHANGED Own(n)
    BY <1>5, OthersStay
  <2>3. QED  BY <1>2, <1>3, <2>1, <2>2 DEF HistoryInv, Atomic
<1>6. QED  BY <1>4, <1>5 DEF Next

(***************************************************************************)
(* With Git's exact-old push, or an atomic exchange of the pointer, what a *)
(* machine knows to be published stays published.  (Without the exchange a *)
(* crash between the two renames leaves a remote without a pointer.)       *)
(***************************************************************************)
THEOREM HistoryInvariant == Spec /\ Atomic => []HistoryInv
<1>1. Init /\ Atomic => HistoryInv
  BY DEF Init, HistoryInv, HistoryOf, Planning, Rolling, Replaced
<1>2. QED  BY <1>1, SyncInvariant, HistoryStep, PTL DEF Spec

(***************************************************************************)
(* The commit order: whatever crashes and whoever publishes, nothing local *)
(* changes before the publication, nor the base before the local commit.   *)
(***************************************************************************)
THEOREM OrderedCommits == Spec /\ Atomic => []CommitOrder
<1>1. ASSUME SyncInv, HistoryInv PROVE CommitOrder
  <2>1. ASSUME NEW m \in Machines, journal[m] # None
        PROVE  /\ guard[m]
               /\ journal[m].phase >= RemotePublished => Published(journal[m])
               /\ local[m] # journal[m].local =>
                    Published(journal[m]) /\ local[m] = journal[m].merged
               /\ base[m] # journal[m].prior =>
                    base[m] = ProposedBase(journal[m]) /\ local[m] = journal[m].merged
    <3>1. HistoryOf(m)
      BY <1>1 DEF HistoryInv
    <3>2. /\ guard[m] /\ local[m] \in {journal[m].local, journal[m].merged}
          /\ base[m] # journal[m].prior =>
               base[m] = ProposedBase(journal[m]) /\ local[m] = journal[m].merged
      BY <1>1, <2>1, JournalFacts
    <3>3. QED  BY <2>1, <3>1, <3>2 DEF HistoryOf
  <2>2. QED  BY <1>1, <2>1 DEF CommitOrder, SyncInv
<1>2. QED  BY <1>1, SyncInvariant, HistoryInvariant, PTL

(***************************************************************************)
(* A retained base stays a true ancestor of what the remote has now.       *)
(***************************************************************************)
THEOREM BaseStaysAncestor == Spec /\ Atomic => []BaseIsAncestor
<1>1. HistoryInv => BaseIsAncestor
  BY DEF HistoryInv, HistoryOf, BaseIsAncestor
<1>2. QED  BY <1>1, HistoryInvariant, PTL
=============================================================================
