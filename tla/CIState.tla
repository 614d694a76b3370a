------------------------------ MODULE CIState -------------------------------
(***************************************************************************)
(* One workspace's state files under src/src/cistate/state.go: UpdateState *)
(* reads pipeline.json and the fragments, changes the State in memory and  *)
(* rewrites pipeline.json, then one fragment per recorded subsystem.  Each *)
(* file is replaced atomically (src/src/atomicfile); the set of files is   *)
(* not, and a process may die, or a write fail, between any two of them.   *)
(* Callers log a failed write and go on, so the next update starts from    *)
(* whatever is on disk.                                                    *)
(***************************************************************************)
EXTENDS CIStateOps

CONSTANTS Lives, ZeroLife, Facts, Docs

VARIABLES
  file,      \* pipeline.json: a document or NoFile
  shards,    \* subsystems/<name>.json: a record or Absent per subsystem
  pc,        \* "idle", or which files UpdateState is writing: "file", "shards"
  mem,       \* the State being written, NoFile when idle
  todo       \* fragments still to be written

vars == <<file, shards, pc, mem, todo>>

Records == [life : Lives, results : SUBSET Facts]
Entries == Records \cup {Absent}
Documents == [subs : [Subsystems -> Entries], doc : Docs]

ASSUME CIStateAssumption ==
  /\ ZeroLife \in Lives
  /\ ZeroDoc \in Docs
  /\ Absent \notin Records
  /\ NoFile \notin Documents

(* The State a reader of these files finds. *)
Visible == ReadState(file, shards)

Changes ==
  [op : {"record"}, entry : Records]
    \cup [op : {"merge"}, facts : SUBSET Facts \ {{}}]

MergeSubsystemResults(old, facts) ==
  IF old = Absent THEN [life |-> ZeroLife, results |-> facts]
                  ELSE [life |-> old.life, results |-> old.results \cup facts]

Apply(old, change) ==
  IF change.op = "record" THEN upsertSubsystem(old, change.entry)
                          ELSE MergeSubsystemResults(old, change.facts)

(* A job starts on an empty workspace (audition) or on the files its        *)
(* producers' artifacts put there: pipeline.json and any fragments.         *)
Init ==
  /\ \/ file = NoFile /\ shards = NoSubsystems
     \/ file \in Documents /\ shards \in [Subsystems -> Entries]
  /\ pc = "idle"
  /\ mem = NoFile
  /\ todo = {}

(* UpdateState(fn): the read and fn; fn records or merges facts for the     *)
(* subsystems in S and may change the document part.                        *)
UpdateState(S) ==
  /\ pc = "idle"
  /\ \E change \in [S -> Changes], d \in Docs :
       mem' = [subs |-> [s \in Subsystems |->
                           IF s \in S THEN Apply(Visible.subs[s], change[s])
                                      ELSE Visible.subs[s]],
               doc |-> d]
  /\ pc' = "file"
  /\ UNCHANGED <<file, shards, todo>>

(* Mutant: fragments before pipeline.json.                                  *)
WriteFragmentsFirst ==
  /\ pc = "file"
  /\ shards' = [s \in Subsystems |-> IF mem.subs[s] = Absent THEN shards[s] ELSE mem.subs[s]]
  /\ pc' = "shards"
  /\ todo' = {}
  /\ UNCHANGED <<file, mem>>

(* WriteState: pipeline.json first. *)
WriteState ==
  /\ pc = "file"
  /\ file' = mem
  /\ pc' = "shards"
  /\ todo' = shardsToWrite(mem)
  /\ UNCHANGED <<shards, mem>>

(* Mutant: the fragment is written without the lifecycle fields.            *)
WriteShardFactsOnly(s) ==
  /\ pc = "shards"
  /\ s \in todo
  /\ shards' = [shards EXCEPT ![s] = [life |-> ZeroLife, results |-> mem.subs[s].results]]
  /\ todo' = todo \ {s}
  /\ UNCHANGED <<file, pc, mem>>

(* writeSubsystemShards: one fragment.  The code goes through the list in   *)
(* record order; any order is allowed here.                                 *)
WriteShard(s) ==
  /\ pc = "shards"
  /\ s \in todo
  /\ shards' = [shards EXCEPT ![s] = mem.subs[s]]
  /\ todo' = todo \ {s}
  /\ UNCHANGED <<file, pc, mem>>

Finish ==
  /\ pc = "shards" /\ todo = {}
  /\ pc' = "idle" /\ mem' = NoFile
  /\ UNCHANGED <<file, shards, todo>>

(* Mutant: an update that fails removes the files it was replacing.         *)
InterruptRemoves ==
  /\ pc # "idle"
  /\ pc' = "idle" /\ mem' = NoFile /\ todo' = {}
  /\ file' = NoFile /\ shards' = NoSubsystems

(* A failed write, or the end of the process: what is not written stays so. *)
Interrupt ==
  /\ pc # "idle"
  /\ pc' = "idle" /\ mem' = NoFile /\ todo' = {}
  /\ UNCHANGED <<file, shards>>

Next ==
  \/ \E S \in SUBSET Subsystems : UpdateState(S)
  \/ WriteState
  \/ \E s \in Subsystems : WriteShard(s)
  \/ Finish
  \/ Interrupt

Spec == Init /\ [][Next]_vars

-----------------------------------------------------------------------------
(* Types, and that fragments exist only beside a pipeline.json: WriteState  *)
(* creates it first, so an interrupted first update leaves no fragment that *)
(* ReadState would ignore now and a later update would bring back.          *)
TypeOK ==
  /\ file \in Documents \cup {NoFile}
  /\ shards \in [Subsystems -> Entries]
  /\ pc \in {"idle", "file", "shards"}
  /\ mem \in Documents \cup {NoFile}
  /\ todo \in SUBSET Subsystems
  /\ (pc = "idle") <=> (mem = NoFile)
  /\ pc # "shards" => todo = {}
  /\ pc = "shards" => file # NoFile
  /\ pc = "shards" => todo \subseteq shardsToWrite(mem)

NoOrphanShard == file = NoFile => shards = NoSubsystems

(* While fragments are being written, pipeline.json already is the State    *)
(* being installed.                                                         *)
WritingFile == pc = "shards" => file = mem

(* The State an update installs keeps whatever is readable meanwhile: fn    *)
(* changes records of the State just read and rebuilds none of it.          *)
KeepsVisible ==
  mem # NoFile =>
    \A s \in Subsystems :
      Visible.subs[s] # Absent =>
        /\ mem.subs[s] # Absent
        /\ Visible.subs[s].results # {} => mem.subs[s].results # {}

IInv == TypeOK /\ NoOrphanShard /\ WritingFile /\ KeepsVisible

(* A subsystem that has reported never reads as "did not run" again, and    *)
(* never loses every fact it recorded, whatever is interrupted: the gates   *)
(* that fail closed on a missing record (authorizePhase, performGate,       *)
(* assertRequiredEvidence) never see one vanish.                            *)
NeverUnrecorded ==
  [][\A s \in Subsystems :
       Visible.subs[s] # Absent =>
         /\ Visible'.subs[s] # Absent
         /\ Visible.subs[s].results # {} => Visible'.subs[s].results # {}]_vars

(* The files implement the abstract ledger: the outcome an update records   *)
(* becomes visible at once or never, never ahead of its metadata, and the   *)
(* rest of the ledger reads the same throughout.                            *)
Abstract == INSTANCE Ledger WITH subs <- Visible.subs, doc <- Visible.doc,
                                 target <- mem

ImplementsLedger == Abstract!Spec
=============================================================================
