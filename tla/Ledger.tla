------------------------------- MODULE Ledger -------------------------------
(***************************************************************************)
(* What the phases assume of the run ledger (src/src/cistate): an update   *)
(* is a set of per-subsystem changes; the lifecycle part of each becomes   *)
(* visible at one instant or never, and nothing of an update is visible    *)
(* before the metadata written with it.  A record's new facts may be       *)
(* visible while its lifecycle part is still the old one.                  *)
(* Nothing outside the update is touched.                                  *)
(***************************************************************************)
EXTENDS CIStateOps

CONSTANTS
  Lives,        \* lifecycle part of a record (attempted, outcome, blocking, ...)
  ZeroLife,     \* the lifecycle part of a record that only carries facts
  Facts,        \* recordable facts
  Docs          \* values of the document part (Build.ProducedImages, CI, Runner)

VARIABLES
  subs,         \* the record a reader finds for each subsystem
  doc,          \* the document part a reader finds
  target        \* the State an update in progress is installing, or NoFile

vars == <<subs, doc, target>>

Records == [life : Lives, results : SUBSET Facts]
Entries == Records \cup {Absent}
Documents == [subs : [Subsystems -> Entries], doc : Docs]

(* The values a single change may give a subsystem that now reads as e:     *)
(* RecordSubsystem with any record, or MergeSubsystemResults with facts.    *)
Recorded(e) == {upsertSubsystem(e, r) : r \in Records}
Merged(e) ==
  {IF e = Absent THEN [life |-> ZeroLife, results |-> f]
                 ELSE [life |-> e.life, results |-> e.results \cup f] : f \in SUBSET Facts \ {{}}}
Changed(e) == Recorded(e) \cup Merged(e)

Init ==
  /\ subs \in [Subsystems -> Entries]
  /\ doc \in Docs
  /\ target = NoFile

Submit ==
  /\ target = NoFile
  /\ target' \in Documents
  /\ \A s \in Subsystems : target'.subs[s] \in Changed(subs[s]) \cup {subs[s]}
  /\ UNCHANGED <<subs, doc>>

(* What a reader may find for s once the update has begun to take effect. *)
FactsAhead(s) ==
  IF subs[s] # Absent /\ target.subs[s] # Absent
  THEN {[life |-> subs[s].life, results |-> target.subs[s].results]}
  ELSE {}
Observable(s) == {subs[s], target.subs[s]} \cup FactsAhead(s)

Commit ==
  /\ target # NoFile
  /\ doc' = target.doc
  /\ subs' \in [Subsystems -> Entries]
  /\ \A s \in Subsystems : subs'[s] \in Observable(s)
  /\ UNCHANGED target

Close ==
  /\ target # NoFile
  /\ target' = NoFile
  /\ UNCHANGED <<subs, doc>>

Next == Submit \/ Commit \/ Close

Spec == Init /\ [][Next]_vars
=============================================================================
