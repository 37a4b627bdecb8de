---------------------------- MODULE AtomicBatch ----------------------------
(***************************************************************************)
(* What an atomic apply batch promises to whoever looks at the targets and *)
(* at state.json: either nothing of it has happened, or all of it has, or  *)
(* a journal says that it is under way.  Once it is decided it is carried  *)
(* through; before that it may be taken back and tried again.  The promise *)
(* ends when somebody else writes one of the files.                        *)
(***************************************************************************)
VARIABLE outcome

Outcomes == {"before", "underway", "decided", "after", "disturbed"}

Init == outcome = "before"

Begin   == outcome = "before"    /\ outcome' = "underway"
Undo    == outcome = "underway"  /\ outcome' = "before"
Settle  == outcome = "underway"  /\ outcome' = "decided"
Finish  == outcome = "decided"   /\ outcome' = "after"
Disturb == outcome # "disturbed" /\ outcome' = "disturbed"

Next == Begin \/ Undo \/ Settle \/ Finish \/ Disturb

Spec == Init /\ [][Next]_outcome
=============================================================================
