----------------------------- MODULE CIStateOps -----------------------------
(***************************************************************************)
(* The pure part of src/src/cistate/state.go: what a workspace's state     *)
(* files mean and how one subsystem record is folded into another.         *)
(*                                                                         *)
(* A workspace holds pipeline.json (StatePath) and one fragment per        *)
(* subsystem under subsystems/ (SubsystemsDir).  A document is modelled as *)
(* [subs |-> one record or Absent per subsystem, doc |-> the rest of it];  *)
(* a record is [life |-> its lifecycle fields, results |-> its recorded    *)
(* facts, {} for Go's nil map].  What the lifecycle fields are is chosen   *)
(* by the modules that extend this one.                                    *)
(***************************************************************************)

CONSTANTS
  Subsystems,   \* names a phase may record under
  Absent,       \* no record for a subsystem: a name not in the list, a fragment not on disk
  NoFile,       \* pipeline.json does not exist
  ZeroDoc       \* the document part of a zero State

NoSubsystems == [s \in Subsystems |-> Absent]

(* The in-memory State returned when pipeline.json is missing. *)
ZeroState == [subs |-> NoSubsystems, doc |-> ZeroDoc]

(* A record without facts of its own keeps the facts already recorded. *)
upsertSubsystem(old, new) ==
  IF old # Absent /\ new.results = {}
  THEN [life |-> new.life, results |-> old.results]
  ELSE new

(* Every fragment on disk is upserted over the list pipeline.json carried. *)
overlaySubsystemShards(subs, shards) ==
  [s \in Subsystems |->
     IF shards[s] = Absent THEN subs[s] ELSE upsertSubsystem(subs[s], shards[s])]

(* A missing pipeline.json reads as a zero State, whatever fragments exist. *)
ReadState(file, shards) ==
  IF file = NoFile
  THEN ZeroState
  ELSE [subs |-> overlaySubsystemShards(file.subs, shards), doc |-> file.doc]

(* writeSubsystemShards writes a fragment for every record of the State it  *)
(* is given, its own and those it read.                                     *)
shardsToWrite(state) == {s \in Subsystems : state.subs[s] # Absent}
=============================================================================
