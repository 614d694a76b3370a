--------------------------- MODULE CIState_proofs ---------------------------
(***************************************************************************)
(* Proofs about CIState for every set of subsystems, lifecycle values,     *)
(* facts and document parts: the inductive invariant, the refinement of    *)
(* the abstract ledger, and that no record is ever lost.                   *)
(***************************************************************************)
EXTENDS CIState, TLAPS

(* Folding one record into another yields a record. *)
LEMMA UpsertType ==
  ASSUME NEW old \in Entries, NEW new \in Records
  PROVE  upsertSubsystem(old, new) \in Records
BY DEF upsertSubsystem, Entries, Records

(* Merging facts into a record, or creating one for them, yields a record. *)
LEMMA MergeType ==
  ASSUME NEW old \in Entries, NEW facts \in SUBSET Facts
  PROVE  MergeSubsystemResults(old, facts) \in Records
BY CIStateAssumption DEF MergeSubsystemResults, Entries, Records

(* What a change makes of a subsystem's record is a record. *)
LEMMA ApplyType ==
  ASSUME NEW old \in Entries, NEW change \in Changes
  PROVE  Apply(old, change) \in Records
<1>1. CASE change.op = "record"
  <2>1. change.entry \in Records
    BY <1>1 DEF Changes
  <2> QED BY <1>1, <2>1, UpsertType DEF Apply
<1>2. CASE change.op = "merge"
  <2>1. change.facts \in SUBSET Facts
    BY <1>2 DEF Changes
  <2> QED BY <1>2, <2>1, MergeType DEF Apply
<1> QED BY <1>1, <1>2 DEF Changes

(* A zero State is a document without records. *)
LEMMA ZeroStateType == ZeroState \in Documents
BY CIStateAssumption DEF ZeroState, NoSubsystems, Documents, Entries

(* A change applied to a record is one the abstract ledger allows. *)
LEMMA ApplyChanged ==
  ASSUME NEW old \in Entries, NEW change \in Changes
  PROVE  Apply(old, change) \in Abstract!Changed(old)
<1>1. CASE change.op = "record"
  <2>1. change.entry \in Records
    BY <1>1 DEF Changes
  <2> QED BY <1>1, <2>1 DEF Apply, upsertSubsystem, Records, Abstract!Changed,
             Abstract!Recorded, Abstract!Records, Abstract!upsertSubsystem
<1>2. CASE change.op = "merge"
  <2>1. change.facts \in SUBSET Facts \ {{}}
    BY <1>2 DEF Changes
  <2> QED BY <1>2, <2>1 DEF Apply, MergeSubsystemResults, Abstract!Changed, Abstract!Merged
<1> QED BY <1>1, <1>2 DEF Changes

(* A change never removes a record or the last of its facts. *)
LEMMA ApplyKeeps ==
  ASSUME NEW old \in Records, NEW change \in Changes
  PROVE  /\ Apply(old, change) # Absent
         /\ old.results # {} => Apply(old, change).results # {}
<1>1. Apply(old, change) \in Records /\ old # Absent
  BY ApplyType, CIStateAssumption DEF Entries
<1>2. CASE change.op = "record"
  BY <1>1, <1>2, CIStateAssumption DEF Apply, upsertSubsystem
<1>3. CASE change.op = "merge"
  BY <1>1, <1>3, CIStateAssumption DEF Apply, MergeSubsystemResults, Records
<1> QED BY <1>2, <1>3 DEF Changes

(* ReadState returns a document. *)
LEMMA ReadStateType ==
  ASSUME NEW f \in Documents \cup {NoFile}, NEW sh \in [Subsystems -> Entries]
  PROVE  ReadState(f, sh) \in Documents
<1>1. CASE f = NoFile
  BY <1>1, ZeroStateType DEF ReadState
<1>2. CASE f \in Documents
  <2>1. f # NoFile
    BY <1>2, CIStateAssumption
  <2>2. ASSUME NEW s \in Subsystems
        PROVE  overlaySubsystemShards(f.subs, sh)[s] \in Entries
    <3>1. f.subs[s] \in Entries
      BY <1>2 DEF Documents
    <3>2. CASE sh[s] = Absent
      BY <3>1, <3>2 DEF overlaySubsystemShards
    <3>3. CASE sh[s] \in Records
      BY <3>1, <3>3, UpsertType, CIStateAssumption DEF overlaySubsystemShards, Entries
    <3> QED BY <3>2, <3>3 DEF Entries
  <2>3. overlaySubsystemShards(f.subs, sh) \in [Subsystems -> Entries]
    BY <2>2 DEF overlaySubsystemShards
  <2>4. f.doc \in Docs
    BY <1>2 DEF Documents
  <2> QED BY <2>1, <2>3, <2>4 DEF ReadState, Documents
<1> QED BY <1>1, <1>2

(* What ReadState finds for one subsystem when pipeline.json exists. *)
LEMMA ReadStateSub ==
  ASSUME NEW f, f # NoFile, NEW sh, NEW s \in Subsystems
  PROVE  /\ sh[s] = Absent => ReadState(f, sh).subs[s] = f.subs[s]
         /\ sh[s] # Absent => ReadState(f, sh).subs[s] = upsertSubsystem(f.subs[s], sh[s])
         /\ ReadState(f, sh).doc = f.doc
BY DEF ReadState, overlaySubsystemShards

-----------------------------------------------------------------------------
(* The part of the invariant about the files alone. *)
FilesOK == TypeOK /\ NoOrphanShard /\ WritingFile

(* It holds initially: either nothing is on disk, or a pipeline.json is. *)
LEMMA InitInv == Init => IInv
<1> SUFFICES ASSUME Init PROVE IInv
  OBVIOUS
<1>1. shards \in [Subsystems -> Entries]
  BY DEF Init, NoSubsystems, Entries
<1>2. TypeOK
  BY <1>1, CIStateAssumption DEF Init, TypeOK
<1>3. NoOrphanShard
  BY CIStateAssumption DEF Init, NoOrphanShard
<1>4. WritingFile /\ KeepsVisible
  BY DEF Init, WritingFile, KeepsVisible
<1> QED BY <1>2, <1>3, <1>4 DEF IInv

(* The State an update installs: a document that keeps what was readable. *)
LEMMA UpdateStateMem ==
  ASSUME FilesOK, NEW S \in SUBSET Subsystems, UpdateState(S)
  PROVE  /\ mem' \in Documents
         /\ \A s \in Subsystems :
              /\ mem'.subs[s] \in Abstract!Changed(Visible.subs[s]) \cup {Visible.subs[s]}
              /\ Visible.subs[s] # Absent =>
                   /\ mem'.subs[s] # Absent
                   /\ Visible.subs[s].results # {} => mem'.subs[s].results # {}
<1>1. Visible \in Documents
  BY ReadStateType DEF FilesOK, TypeOK, Visible
<1>2. PICK change \in [S -> Changes], d \in Docs :
        mem' = [subs |-> [s \in Subsystems |->
                            IF s \in S THEN Apply(Visible.subs[s], change[s])
                                       ELSE Visible.subs[s]],
                doc |-> d]
  BY DEF UpdateState
<1>3. ASSUME NEW s \in Subsystems
      PROVE  Visible.subs[s] \in Entries
  BY <1>1 DEF Documents
<1>4. ASSUME NEW s \in S
      PROVE  mem'.subs[s] = Apply(Visible.subs[s], change[s]) /\ change[s] \in Changes
  BY <1>2
<1>5. ASSUME NEW s \in Subsystems, s \notin S
      PROVE  mem'.subs[s] = Visible.subs[s]
  BY <1>2, <1>5
<1>6. mem' \in Documents
  <2>1. ASSUME NEW s \in Subsystems
        PROVE  (IF s \in S THEN Apply(Visible.subs[s], change[s])
                           ELSE Visible.subs[s]) \in Entries
    BY <1>3, <1>4, ApplyType DEF Entries
  <2> QED BY <1>2, <2>1 DEF Documents
<1>7. ASSUME NEW s \in Subsystems
      PROVE  /\ mem'.subs[s] \in Abstract!Changed(Visible.subs[s]) \cup {Visible.subs[s]}
             /\ Visible.subs[s] # Absent =>
                  /\ mem'.subs[s] # Absent
                  /\ Visible.subs[s].results # {} => mem'.subs[s].results # {}
  <2>1. CASE s \in S
    <3>1. /\ mem'.subs[s] = Apply(Visible.subs[s], change[s])
          /\ change[s] \in Changes
          /\ Visible.subs[s] \in Entries
      BY <1>3, <1>4, <2>1
    <3>2. mem'.subs[s] \in Abstract!Changed(Visible.subs[s])
      BY <3>1, ApplyChanged
    <3>3. ASSUME Visible.subs[s] # Absent
          PROVE  /\ mem'.subs[s] # Absent
                 /\ Visible.subs[s].results # {} => mem'.subs[s].results # {}
      <4>1. Visible.subs[s] \in Records
        BY <3>1, <3>3 DEF Entries
      <4> QED BY <3>1, <4>1, ApplyKeeps
    <3> QED BY <3>2, <3>3
  <2>2. CASE s \notin S
    BY <1>5, <2>2
  <2> QED BY <2>1, <2>2
<1> QED BY <1>6, <1>7

(* Every step preserves FilesOK. *)
LEMMA FilesStep == FilesOK /\ [Next]_vars => FilesOK'
<1> SUFFICES ASSUME FilesOK, [Next]_vars PROVE FilesOK'
  OBVIOUS
<1>1. ASSUME NEW S \in SUBSET Subsystems, UpdateState(S) PROVE FilesOK'
  <2>1. mem' \in Documents /\ mem' # NoFile
    BY <1>1, UpdateStateMem, CIStateAssumption
  <2> QED BY <1>1, <2>1 DEF FilesOK, TypeOK, NoOrphanShard, WritingFile, UpdateState
<1>2. CASE WriteState
  <2>1. mem \in Documents /\ mem # NoFile
    BY <1>2, CIStateAssumption DEF WriteState, FilesOK, TypeOK
  <2> QED BY <1>2, <2>1 DEF WriteState, FilesOK, TypeOK, NoOrphanShard, WritingFile,
                            shardsToWrite
<1>3. ASSUME NEW s \in Subsystems, WriteShard(s) PROVE FilesOK'
  <2>1. mem \in Documents /\ mem.subs[s] \in Entries
    BY <1>3, CIStateAssumption DEF WriteShard, FilesOK, TypeOK, Documents
  <2>2. shards' \in [Subsystems -> Entries]
    BY <1>3, <2>1 DEF WriteShard, FilesOK, TypeOK
  <2> QED BY <1>3, <2>2 DEF WriteShard, FilesOK, TypeOK, NoOrphanShard, WritingFile,
                            shardsToWrite
<1>4. CASE Finish
  BY <1>4 DEF Finish, FilesOK, TypeOK, NoOrphanShard, WritingFile
<1>5. CASE Interrupt
  BY <1>5 DEF Interrupt, FilesOK, TypeOK, NoOrphanShard, WritingFile
<1>6. CASE UNCHANGED vars
  BY <1>6 DEF vars, FilesOK, TypeOK, NoOrphanShard, WritingFile, shardsToWrite
<1> QED BY <1>1, <1>2, <1>3, <1>4, <1>5, <1>6 DEF Next

(* Replacing pipeline.json makes visible each record that has no fragment,  *)
(* and the facts of each record whose fragment carries none.                *)
LEMMA WriteStateVisible ==
  ASSUME IInv, WriteState, NEW s \in Subsystems
  PROVE  /\ Visible'.doc = mem.doc
         /\ Visible'.subs[s] \in Abstract!Observable(s)
<1>1. mem \in Documents /\ mem # NoFile /\ file' = mem /\ shards' = shards
  BY CIStateAssumption DEF WriteState, IInv, TypeOK
<1>2. Visible'.doc = mem.doc
  BY <1>1, ReadStateSub DEF Visible
<1>3. CASE shards[s] = Absent
  BY <1>1, <1>2, <1>3, ReadStateSub DEF Visible, Abstract!Observable
<1>4. CASE shards[s] # Absent
  <2>1. file # NoFile
    BY <1>4 DEF IInv, NoOrphanShard, NoSubsystems
  <2>2. /\ file.subs[s] \in Entries
        /\ mem.subs[s] \in Entries
        /\ shards[s] \in Records
    BY <1>1, <1>4, <2>1 DEF IInv, TypeOK, Documents, Entries
  <2>3. Visible.subs[s] = upsertSubsystem(file.subs[s], shards[s])
    BY <1>4, <2>1, ReadStateSub DEF Visible
  <2>4. Visible'.subs[s] = upsertSubsystem(mem.subs[s], shards[s])
    BY <1>1, <1>4, ReadStateSub DEF Visible
  <2>5. Visible.subs[s] \in Records /\ Visible.subs[s] # Absent
    BY <2>2, <2>3, UpsertType, CIStateAssumption
  <2>6. mem.subs[s] # Absent
    BY <1>1, <2>5 DEF IInv, KeepsVisible
  <2>7. CASE shards[s].results # {}
    BY <1>2, <2>3, <2>4, <2>7 DEF upsertSubsystem, Abstract!Observable
  <2>8. CASE shards[s].results = {}
    <3>1. Visible'.subs[s] = [life |-> shards[s].life, results |-> mem.subs[s].results]
      BY <2>4, <2>6, <2>8 DEF upsertSubsystem
    <3>2. Visible.subs[s].life = shards[s].life
      BY <2>2, <2>3 DEF upsertSubsystem, Records
    <3> QED BY <1>2, <2>5, <2>6, <3>1, <3>2
            DEF Abstract!Observable, Abstract!FactsAhead
  <2> QED BY <2>7, <2>8
<1> QED BY <1>3, <1>4

(* Writing a fragment makes the whole new record visible, and no other. *)
LEMMA WriteShardVisible ==
  ASSUME IInv, NEW t \in Subsystems, WriteShard(t), NEW s \in Subsystems
  PROVE  /\ Visible'.doc = mem.doc
         /\ s = t => Visible'.subs[s] = mem.subs[s]
         /\ s # t => Visible'.subs[s] = Visible.subs[s]
<1>1. /\ mem \in Documents /\ mem # NoFile /\ file = mem /\ file' = file
      /\ shards' = [shards EXCEPT ![t] = mem.subs[t]]
      /\ shards \in [Subsystems -> Entries]
      /\ t \in shardsToWrite(mem)
  BY CIStateAssumption DEF WriteShard, IInv, TypeOK, WritingFile
<1>2. Visible'.doc = mem.doc
  BY <1>1, ReadStateSub DEF Visible
<1>3. CASE s = t
  <2>1. mem.subs[s] \in Records /\ shards'[s] = mem.subs[s] /\ mem.subs[s] # Absent
    BY <1>1, <1>3 DEF Documents, Entries, shardsToWrite
  <2>2. upsertSubsystem(mem.subs[s], mem.subs[s]) = mem.subs[s]
    BY <2>1 DEF upsertSubsystem, Records
  <2> QED BY <1>1, <1>2, <1>3, <2>1, <2>2, ReadStateSub DEF Visible
<1>4. CASE s # t
  <2>1. shards'[s] = shards[s]
    BY <1>1, <1>4
  <2>2. Visible'.subs[s] = overlaySubsystemShards(file.subs, shards')[s]
    BY <1>1 DEF Visible, ReadState, overlaySubsystemShards
  <2>3. Visible.subs[s] = overlaySubsystemShards(file.subs, shards)[s]
    BY <1>1 DEF Visible, ReadState, overlaySubsystemShards
  <2>4. overlaySubsystemShards(file.subs, shards')[s] = overlaySubsystemShards(file.subs, shards)[s]
    BY <2>1 DEF overlaySubsystemShards
  <2> QED BY <1>2, <1>4, <2>2, <2>3, <2>4
<1> QED BY <1>3, <1>4

(* The other steps leave what is readable alone. *)
LEMMA SameVisible ==
  ASSUME \/ \E S \in SUBSET Subsystems : UpdateState(S)
         \/ Finish
         \/ Interrupt
         \/ UNCHANGED vars
  PROVE  Visible' = Visible
<1>1. file' = file /\ shards' = shards
  BY DEF UpdateState, Finish, Interrupt, vars
<1> QED BY <1>1 DEF Visible

(* The State being installed goes on covering what is readable. *)
LEMMA KeepsStep == IInv /\ [Next]_vars => KeepsVisible'
<1> SUFFICES ASSUME IInv, [Next]_vars, NEW s \in Subsystems,
                    mem' # NoFile, Visible'.subs[s] # Absent
             PROVE  /\ mem'.subs[s] # Absent
                    /\ Visible'.subs[s].results # {} => mem'.subs[s].results # {}
  BY DEF KeepsVisible
<1>1. ASSUME NEW S \in SUBSET Subsystems, UpdateState(S)
      PROVE  /\ mem'.subs[s] # Absent
             /\ Visible'.subs[s].results # {} => mem'.subs[s].results # {}
  <2>1. Visible' = Visible
    BY <1>1, SameVisible
  <2>2. FilesOK
    BY DEF IInv, FilesOK
  <2> QED BY <1>1, <2>1, <2>2, UpdateStateMem
<1>2. CASE WriteState
  <2>1. mem' = mem /\ mem # NoFile
    BY <1>2 DEF WriteState
  <2>2. Visible'.subs[s] \in Abstract!Observable(s)
    BY <1>2, WriteStateVisible
  <2>3. CASE Visible'.subs[s] = mem.subs[s]
    BY <2>1, <2>3
  <2>4. CASE Visible'.subs[s] = Visible.subs[s]
    BY <2>1, <2>4 DEF IInv, KeepsVisible
  <2>5. CASE /\ Visible.subs[s] # Absent /\ mem.subs[s] # Absent
             /\ Visible'.subs[s] = [life |-> Visible.subs[s].life,
                                    results |-> mem.subs[s].results]
    BY <2>1, <2>5
  <2> QED BY <2>2, <2>3, <2>4, <2>5 DEF Abstract!Observable, Abstract!FactsAhead
<1>3. ASSUME NEW t \in Subsystems, WriteShard(t)
      PROVE  /\ mem'.subs[s] # Absent
             /\ Visible'.subs[s].results # {} => mem'.subs[s].results # {}
  <2>1. mem' = mem
    BY <1>3 DEF WriteShard
  <2>2. CASE s = t
    BY <1>3, <2>1, <2>2, WriteShardVisible
  <2>3. CASE s # t
    <3>1. Visible'.subs[s] = Visible.subs[s]
      BY <1>3, <2>3, WriteShardVisible
    <3> QED BY <2>1, <3>1 DEF IInv, KeepsVisible
  <2> QED BY <2>2, <2>3
<1>4. CASE Finish \/ Interrupt
  BY <1>4 DEF Finish, Interrupt
<1>5. CASE UNCHANGED vars
  <2>1. Visible' = Visible /\ mem' = mem
    BY <1>5, SameVisible DEF vars
  <2> QED BY <2>1 DEF IInv, KeepsVisible
<1> QED BY <1>1, <1>2, <1>3, <1>4, <1>5 DEF Next

(* Types hold, fragments exist only beside a pipeline.json, and what an     *)
(* update installs covers what is readable, whatever is interrupted.        *)
THEOREM Invariance == Spec => []IInv
<1>1. IInv /\ [Next]_vars => IInv'
  <2> SUFFICES ASSUME IInv, [Next]_vars PROVE IInv'
    OBVIOUS
  <2>1. FilesOK'
    BY FilesStep DEF IInv, FilesOK
  <2>2. KeepsVisible'
    BY KeepsStep
  <2> QED BY <2>1, <2>2 DEF IInv, FilesOK
<1> QED BY InitInv, <1>1, PTL DEF Spec

-----------------------------------------------------------------------------
(* No record, and not the last fact of one, ever disappears from what a     *)
(* reader of the state files finds.                                         *)
THEOREM RecordsSurvive == Spec => NeverUnrecorded
<1> DEFINE Keeps ==
      \A s \in Subsystems :
        Visible.subs[s] # Absent =>
          /\ Visible'.subs[s] # Absent
          /\ Visible.subs[s].results # {} => Visible'.subs[s].results # {}
<1>1. IInv /\ [Next]_vars => [Keeps]_vars
  <2> SUFFICES ASSUME IInv, Next, NEW s \in Subsystems, Visible.subs[s] # Absent
               PROVE  /\ Visible'.subs[s] # Absent
                      /\ Visible.subs[s].results # {} => Visible'.subs[s].results # {}
    OBVIOUS
  <2>1. CASE WriteState
    <3>1. mem # NoFile
      BY <2>1 DEF WriteState, IInv, TypeOK
    <3>2. /\ mem.subs[s] # Absent
          /\ Visible.subs[s].results # {} => mem.subs[s].results # {}
      BY <3>1 DEF IInv, KeepsVisible
    <3>3. Visible'.subs[s] \in Abstract!Observable(s)
      BY <2>1, WriteStateVisible
    <3>4. CASE Visible'.subs[s] \in {Visible.subs[s], mem.subs[s]}
      BY <3>2, <3>4
    <3>5. CASE Visible'.subs[s] = [life |-> Visible.subs[s].life,
                                   results |-> mem.subs[s].results]
      <4>1. Visible'.subs[s] \in Records
        <5>1. Visible \in Documents /\ mem \in Documents
          BY <3>1, ReadStateType DEF IInv, TypeOK, Visible
        <5>2. Visible.subs[s] \in Records /\ mem.subs[s] \in Records
          BY <3>2, <5>1 DEF Documents, Entries
        <5> QED BY <3>5, <5>2 DEF Records
      <4> QED BY <3>2, <3>5, <4>1, CIStateAssumption
    <3> QED BY <3>3, <3>4, <3>5 DEF Abstract!Observable, Abstract!FactsAhead
  <2>2. ASSUME NEW t \in Subsystems, WriteShard(t)
        PROVE  /\ Visible'.subs[s] # Absent
               /\ Visible.subs[s].results # {} => Visible'.subs[s].results # {}
    <3>1. /\ mem.subs[s] # Absent
          /\ Visible.subs[s].results # {} => mem.subs[s].results # {}
      BY <2>2 DEF WriteShard, IInv, TypeOK, KeepsVisible
    <3> QED BY <2>2, <3>1, WriteShardVisible
  <2>3. CASE \/ \E S \in SUBSET Subsystems : UpdateState(S)
             \/ Finish
             \/ Interrupt
    BY <2>3, SameVisible
  <2> QED BY <2>1, <2>2, <2>3 DEF Next
<1> QED BY <1>1, Invariance, PTL DEF Spec, NeverUnrecorded

-----------------------------------------------------------------------------
(* The abstract ledger speaks of the same records and documents. *)
LEMMA SameSets ==
  /\ Abstract!Records = Records
  /\ Abstract!Entries = Entries
  /\ Abstract!Documents = Documents
BY DEF Abstract!Records, Abstract!Entries, Abstract!Documents, Records, Entries, Documents

(* Every step is a step of the abstract ledger, or none. *)
LEMMA LedgerStep == IInv /\ IInv' /\ [Next]_vars => [Abstract!Next]_(Abstract!vars)
<1> SUFFICES ASSUME IInv, IInv', [Next]_vars
             PROVE  Abstract!Next \/ UNCHANGED Abstract!vars
  OBVIOUS
<1>1. ASSUME NEW S \in SUBSET Subsystems, UpdateState(S) PROVE Abstract!Submit
  <2>1. FilesOK
    BY DEF IInv, FilesOK
  <2>2. Visible' = Visible
    BY <1>1, SameVisible
  <2>3. mem = NoFile
    BY <1>1 DEF UpdateState, IInv, TypeOK
  <2>4. mem' \in Abstract!Documents
    BY <1>1, <2>1, UpdateStateMem, SameSets
  <2>5. \A s \in Subsystems :
          mem'.subs[s] \in Abstract!Changed(Visible.subs[s]) \cup {Visible.subs[s]}
    BY <1>1, <2>1, UpdateStateMem
  <2> QED BY <2>2, <2>3, <2>4, <2>5 DEF Abstract!Submit
<1>2. Visible'.subs \in [Subsystems -> Abstract!Entries]
  <2>1. Visible' \in Documents
    <3>1. ReadState(file', shards') \in Documents
      BY ReadStateType DEF IInv, TypeOK
    <3> QED BY <3>1 DEF Visible, ReadState, overlaySubsystemShards, ZeroState, NoSubsystems,
                        upsertSubsystem
  <2> QED BY <2>1, SameSets DEF Documents
<1>3. CASE WriteState
  <2>1. mem # NoFile /\ mem' = mem
    BY <1>3 DEF WriteState, IInv, TypeOK
  <2>2. Visible'.doc = mem.doc
    <3>1. file' = mem
      BY <1>3 DEF WriteState
    <3> QED BY <2>1, <3>1 DEF Visible, ReadState
  <2>3. \A s \in Subsystems : Visible'.subs[s] \in Abstract!Observable(s)
    BY <1>3, WriteStateVisible
  <2> QED BY <1>2, <2>1, <2>2, <2>3 DEF Abstract!Next, Abstract!Commit
<1>4. ASSUME NEW t \in Subsystems, WriteShard(t) PROVE Abstract!Commit
  <2>1. mem # NoFile /\ mem' = mem
    BY <1>4 DEF WriteShard, IInv, TypeOK
  <2>2. Visible'.doc = mem.doc
    BY <1>4, WriteShardVisible
  <2>3. \A s \in Subsystems : Visible'.subs[s] \in Abstract!Observable(s)
    BY <1>4, WriteShardVisible DEF Abstract!Observable
  <2> QED BY <1>2, <2>1, <2>2, <2>3 DEF Abstract!Commit
<1>5. CASE Finish \/ Interrupt
  <2>1. Visible' = Visible /\ mem # NoFile /\ mem' = NoFile
    BY <1>5, SameVisible DEF Finish, Interrupt, IInv, TypeOK
  <2> QED BY <2>1 DEF Abstract!Next, Abstract!Close
<1>6. CASE UNCHANGED vars
  <2>1. Visible' = Visible /\ mem' = mem
    BY <1>6, SameVisible DEF vars
  <2> QED BY <2>1 DEF Abstract!vars
<1> QED BY <1>1, <1>3, <1>4, <1>5, <1>6 DEF Next, Abstract!Next

(* The state files implement the abstract ledger: the outcome an update     *)
(* records becomes visible at once or never, never ahead of the metadata    *)
(* written with it, and no update changes what it did not set.              *)
THEOREM Refinement == Spec => ImplementsLedger
<1>1. Init => Abstract!Init
  <2> SUFFICES ASSUME Init PROVE Abstract!Init
    OBVIOUS
  <2>1. Visible \in Documents
    BY InitInv, ReadStateType DEF IInv, TypeOK, Visible
  <2>2. mem = NoFile
    BY DEF Init
  <2> QED BY <2>1, <2>2, SameSets DEF Abstract!Init, Documents
<1> QED BY <1>1, LedgerStep, Invariance, PTL DEF Spec, ImplementsLedger, Abstract!Spec
=============================================================================
