------------------------------ MODULE PilotProofs ------------------------------
(***************************************************************************)
(* What the pilot's files keep for any commands in any order and number,   *)
(* any tasks, any failures and any crashes, those inside the rewrite of    *)
(* run_records.jsonl included.                                             *)
(***************************************************************************)
EXTENDS PilotPipeline, TLAPS, SequenceTheorems, FiniteSetTheorems

\* The locals of a command.
RunTyped ==
    /\ DOMAIN run = {"phases", "force", "at", "i", "rec", "cand"}
    /\ run.phases \in Seq(Phase) /\ run.i \in Nat \ {0}

LEMMA AfterGoto ==
    ASSUME RunTyped, NEW at, Goto(at)
    PROVE  /\ RunTyped'
           /\ run'.phases = run.phases /\ run'.force = run.force /\ run'.at = at
           /\ run'.rec = run.rec /\ run'.cand = run.cand
BY DEF RunTyped, Goto

LEMMA AfterRaise ==
    ASSUME run' = Idle
    PROVE  RunTyped' /\ run'.phases = <<>> /\ run'.at = "start" /\ ~run'.force
BY <<>> \in Seq(Phase) DEF RunTyped, Idle

LEMMA AfterPhase ==
    ASSUME RunTyped, run.phases # <<>>, PhaseDone
    PROVE  /\ RunTyped' /\ run'.at = "start"
           /\ \/ run'.phases = <<>> /\ ~run'.force
              \/ (run'.phases = Tail(run.phases) /\ run'.force = run.force)
<1>1. CASE Len(run.phases) = 1
  BY <1>1, AfterRaise DEF PhaseDone
<1>2. CASE Len(run.phases) # 1
  <2>1. Tail(run.phases) \in Seq(Phase)
    BY HeadTailProperties DEF RunTyped
  <2> QED BY <1>2, <2>1 DEF PhaseDone, RunTyped
<1> QED BY <1>1, <1>2

LEMMA AfterNext ==
    ASSUME RunTyped, run' = [run EXCEPT !.i = @ + 1]
    PROVE  /\ RunTyped'
           /\ run'.phases = run.phases /\ run'.force = run.force /\ run'.at = run.at
           /\ run'.rec = run.rec /\ run'.cand = run.cand
BY DEF RunTyped

LEMMA AfterRan ==
    ASSUME RunTyped, NEW rec, Ran(rec)
    PROVE  /\ RunTyped'
           /\ run'.phases = run.phases /\ run'.force = run.force /\ run'.at = "record"
           /\ run'.rec = rec /\ run'.cand = run.cand
BY DEF RunTyped, Ran

\* What a step does to the phases that are left.
Advances ==
    \/ run'.phases = <<>> /\ ~run'.force
    \/ run'.phases \in {run.phases, Tail(run.phases)} /\ run'.force = run.force

-----------------------------------------------------------------------------
(* The locals of a command, whatever it does.                              *)

\* The four actions that write the entry, the request or the cache.
Publishing == Promote \/ MarkPromoted \/ WriteCache \/ FutureB3

\* The actions that do not touch run_records.jsonl.
Quiet ==
    \/ TasksDone \/ Unreadable \/ NoSkill \/ Skip("formation", TRUE) \/ Skip("future", FALSE)
    \/ GenerationStart \/ Propose \/ WriteMeta
    \/ FreezeStart \/ FreezeCopy \/ FreezeRef
    \/ BuildSkipped \/ Capabilityize \/ Seal \/ Validate \/ Evaluate \/ Reject \/ Retire
    \/ CostStart \/ Price \/ WriteGate

\* Where a build has a candidate.
Building == {"seal", "validate", "evaluate", "reject", "retire", "promote", "mark", "cache"}

KeepsCandidate ==
    run'.at \in Building => run'.cand \in Candidate \/ (run.at \in Building /\ run'.cand = run.cand)

Moved == RunTyped' /\ Advances /\ KeepsCandidate /\ run'.at \notin {"mark", "cache", "record"}

\* The four ways in which they move on.
Moves ==
    \/ run.phases # <<>> /\ PhaseDone
    \/ Raise
    \/ \E at : /\ at \notin {"mark", "cache", "record"} /\ (at \in Building => run.at \in Building)
               /\ Goto(at)
    \/ run.at \notin {"mark", "cache", "record"} /\ run' = [run EXCEPT !.i = @ + 1]

LEMMA MovesMove == ASSUME RunTyped, Moves PROVE Moved
<1>1. CASE run.phases # <<>> /\ PhaseDone
  BY <1>1, AfterPhase DEF Moved, Advances, KeepsCandidate, Building
<1>2. CASE Raise
  BY <1>2, AfterRaise DEF Raise, Moved, Advances, KeepsCandidate, Building
<1>3. ASSUME NEW at, at \notin {"mark", "cache", "record"}, at \in Building => run.at \in Building,
             Goto(at)
      PROVE  Moved
  BY <1>3, AfterGoto DEF Moved, Advances, KeepsCandidate
<1>4. CASE run.at \notin {"mark", "cache", "record"} /\ run' = [run EXCEPT !.i = @ + 1]
  BY <1>4, AfterNext DEF Moved, Advances, KeepsCandidate
<1> QED BY <1>1, <1>2, <1>3, <1>4 DEF Moves

LEMMA QuietStep ==
    ASSUME RunTyped, Quiet
    PROVE  Moved /\ UNCHANGED <<records, entry, request, cache>>
<1>0. UNCHANGED <<records, entry, request, cache>>
  BY DEF Quiet, TasksDone, Unreadable, NoSkill, Skip, GenerationStart, Propose, WriteMeta,
         FreezeStart, FreezeCopy, FreezeRef, BuildSkipped, Capabilityize, Seal, Validate,
         Evaluate, Reject, Retire, CostStart, Price, WriteGate, registry
<1>1. ASSUME NEW name, NEW b, Skip(name, b) PROVE Moves
  BY <1>1 DEF Skip, InPhase, Moves, Building
<1>2. ASSUME TasksDone \/ Unreadable \/ NoSkill \/ WriteMeta PROVE Moves
  BY <1>2 DEF TasksDone, Unreadable, NoSkill, WriteMeta, InPhase, Moves, Building
<1>3. ASSUME GenerationStart PROVE Moves
  BY <1>3 DEF GenerationStart, InPhase, Moves, Building
<1>4. ASSUME Propose PROVE Moves
  BY <1>4 DEF Propose, Accepted, Rejected, NoProposal, InPhase, Moves, Building
<1>5. ASSUME FreezeStart \/ FreezeCopy \/ FreezeRef PROVE Moves
  BY <1>5 DEF FreezeStart, FreezeCopy, FreezeRef, InPhase, Moves, Building
<1>6. ASSUME BuildSkipped \/ Seal \/ Validate \/ Evaluate \/ Reject \/ Retire PROVE Moves
  BY <1>6 DEF BuildSkipped, Seal, Validate, Evaluate, Reject, Retire, InPhase, Moves, Building
<1>7. ASSUME CostStart \/ Price \/ WriteGate PROVE Moves
  BY <1>7 DEF CostStart, Price, WriteGate, InPhase, Moves, Building
<1>8. ASSUME Capabilityize PROVE Moved
  <2>1. ASSUME NEW c \in Candidate, run' = [run EXCEPT !.at = "seal", !.cand = c] PROVE Moved
    BY <2>1 DEF RunTyped, Moved, Advances, KeepsCandidate
  <2>2. Raise \/ \E c \in Candidate : run' = [run EXCEPT !.at = "seal", !.cand = c]
    BY <1>8 DEF Capabilityize
  <2>3. CASE Raise
    BY <2>3, MovesMove DEF Moves
  <2> QED BY <2>1, <2>2, <2>3
<1>9. Moves \/ Capabilityize
  BY <1>1, <1>2, <1>3, <1>4, <1>5, <1>6, <1>7 DEF Quiet
<1> QED BY <1>0, <1>8, <1>9, MovesMove

LEMMA RunnerStep ==
    ASSUME RunTyped, FormationRun \/ FutureRun
    PROVE  /\ RunTyped' /\ Advances
           /\ run'.at \notin {"mark", "cache"}
           /\ UNCHANGED <<records, entry, request, cache>>
BY AfterRan, AfterRaise DEF FormationRun, FutureRun, Raise, registry, Advances

LEMMA RecordingStep ==
    ASSUME RunTyped, WriteRecord \/ Stamp
    PROVE  /\ RunTyped' /\ Advances
           /\ run'.at \notin {"mark", "cache", "record"}
           /\ UNCHANGED <<entry, request, cache>>
<1>1. CASE WriteRecord
  BY <1>1 DEF WriteRecord, RunTyped, registry, Advances
<1>2. CASE Stamp
  BY <1>2, AfterNext DEF Stamp, InPhase, registry, Advances
<1> QED BY <1>1, <1>2

LEMMA PublishingStep ==
    ASSUME RunTyped, Publishing
    PROVE  RunTyped' /\ Advances /\ UNCHANGED records
<1>1. CASE Promote \/ MarkPromoted \/ WriteCache
  BY <1>1, AfterGoto, AfterRaise, AfterPhase
     DEF Promote, MarkPromoted, WriteCache, Raise, InPhase, Advances
<1>2. CASE FutureB3
  BY <1>2, AfterNext, AfterRan, AfterRaise DEF FutureB3, Raise, Advances
<1> QED BY <1>1, <1>2 DEF Publishing

LEMMA StepKinds == Step <=> Quiet \/ FormationRun \/ FutureRun \/ WriteRecord \/ Stamp \/ Publishing
BY DEF Step, Quiet, Publishing

LEMMA BeginStep ==
    ASSUME OperatorTyped, NEW c \in Commands, Begin(c)
    PROVE  /\ RunTyped' /\ run'.at = "start"
           /\ run'.phases = c.phases /\ run'.force = c.force
           /\ UNCHANGED <<records, entry, request, cache>>
BY DEF OperatorTyped, Begin, RunTyped, Idle, registry

LEMMA RunStep == OperatorTyped /\ RunTyped /\ [Next]_vars => RunTyped'
<1>1. CASE UNCHANGED vars
  BY <1>1 DEF vars, RunTyped
<1> QED BY <1>1, StepKinds, BeginStep, QuietStep, RunnerStep, RecordingStep, PublishingStep, AfterRaise
        DEF Next, Crash, Moved

-----------------------------------------------------------------------------
(* The entry, the run request and the cache.                               *)

IntentInv ==
    /\ IntentAgrees
    /\ run.at = "mark" => entry = run.cand
    /\ run.at = "cache" => request = run.cand

LEMMA IntentKept ==
    ASSUME IntentInv, UNCHANGED <<entry, request, cache>>, run'.at \notin {"mark", "cache"}
    PROVE  IntentInv'
BY DEF IntentInv, IntentAgrees

LEMMA PublishingKeeps ==
    ASSUME RunTyped, IntentInv, Publishing PROVE IntentInv'
<1>1. CASE Promote
  BY <1>1, AfterGoto, AfterRaise DEF Promote, Raise, IntentInv, IntentAgrees
<1>2. CASE MarkPromoted
  <2>1. /\ entry = run.cand /\ request' = run.cand /\ UNCHANGED <<entry, cache>>
        /\ run'.at = "cache" /\ run'.cand = run.cand
    BY <1>2, AfterGoto DEF MarkPromoted, InPhase, IntentInv
  <2>2. cache \in Candidate => cache = entry
    BY PilotAssumption DEF IntentInv, IntentAgrees
  <2> QED BY <2>1, <2>2 DEF IntentInv, IntentAgrees
<1>3. CASE WriteCache
  BY <1>3, AfterPhase DEF WriteCache, InPhase, IntentInv, IntentAgrees
<1>4. CASE FutureB3
  <2>1. /\ cache' = IF request # None /\ cache = None THEN request ELSE cache
        /\ UNCHANGED <<entry, request>> /\ run.at = "start"
    BY <1>4 DEF FutureB3, InPhase
  <2>2. run'.at \in {"start", "record"}
    BY <1>4, <2>1, AfterNext, AfterRan, AfterRaise DEF FutureB3, Raise
  <2> QED BY <2>1, <2>2 DEF IntentInv, IntentAgrees
<1> QED BY <1>1, <1>2, <1>3, <1>4 DEF Publishing

\* Whatever the operator types and wherever commands fail or die: the three files of a
\* promotion (versions/v1.json, the store's run request, b3_entry.json) never name
\* different candidates.
THEOREM IntentsAgree == ASSUME OperatorTyped PROVE Spec => []IntentAgrees
<1>1. Init => RunTyped /\ IntentInv
  <2> SUFFICES ASSUME Init PROVE RunTyped /\ IntentInv
    OBVIOUS
  <2>1. run = Idle /\ entry = None /\ request = None /\ cache \in {None, Legacy}
    BY DEF Init, Fresh, LeftByPhase8
  <2> QED BY <2>1, PilotAssumption, <<>> \in Seq(Phase)
          DEF RunTyped, Idle, IntentInv, IntentAgrees
<1>2. RunTyped /\ IntentInv /\ [Next]_vars => RunTyped' /\ IntentInv'
  <2> SUFFICES ASSUME RunTyped, IntentInv, [Next]_vars PROVE IntentInv'
    BY OperatorTyped, RunStep
  <2>1. ASSUME NEW c \in Commands, Begin(c) PROVE IntentInv'
    BY <2>1, OperatorTyped, BeginStep, IntentKept
  <2>2. CASE Step
    BY <2>2, StepKinds, QuietStep, RunnerStep, RecordingStep, IntentKept, PublishingKeeps
       DEF Moved
  <2>3. CASE Crash
    BY <2>3, AfterRaise, IntentKept DEF Crash, registry
  <2>4. CASE UNCHANGED vars
    BY <2>4 DEF vars, registry, IntentInv, IntentAgrees
  <2> QED BY <2>1, <2>2, <2>3, <2>4 DEF Next
<1>3. IntentInv => IntentAgrees
  BY DEF IntentInv
<1> QED BY <1>1, <1>2, <1>3, PTL DEF Spec

-----------------------------------------------------------------------------
(* The type invariant.                                                     *)

TypeInv ==
    /\ TypeOK /\ RunTyped
    /\ env \in [failures : Nat, crashes : Nat, bundles : Nat]
    /\ run.at = "record" => run.rec \in RunRecord
    /\ run.at \in Building => run.cand \in Candidate

\* What earlier records, proposals and bundles were, they still are.
Widens ==
    /\ env' \in [failures : Nat, crashes : Nat, bundles : Nat]
    /\ env.bundles <= env'.bundles
    /\ proposals' \in Seq(BOOLEAN) /\ Len(proposals) <= Len(proposals')

LEMMA TypesWiden ==
    ASSUME TypeInv, Widens
    PROVE  RunRecord \subseteq RunRecord' /\ (0..proposal) \subseteq (0..proposal')
<1>1. Len(proposals) \in Nat /\ Len(proposals') \in Nat /\ env.bundles \in Nat /\ env'.bundles \in Nat
  BY SMTT(30) DEF TypeInv, TypeOK, Widens
<1>2. (0..proposal) \subseteq (0..proposal')
  BY <1>1 DEF Widens, proposal
<1>3. (0..env.bundles) \subseteq (0..env'.bundles) /\ (1..env.bundles) \subseteq (1..env'.bundles)
  BY <1>1 DEF Widens
<1> QED BY <1>2, <1>3 DEF RunRecord

LEMMA RecordTyped ==
    ASSUME TypeInv, NEW arm \in {"b0", "b2", "b3"},
           NEW task \in Range(FormationTasks) \cup Range(FutureTasks),
           NEW verdict \in {"PASS", "FAIL", "ERROR"}, NEW bundle \in 0..env.bundles,
           NEW skill \in 0..proposal
    PROVE  Record(arm, task, verdict, bundle, skill) \in RunRecord
BY DEF TypeInv, TypeOK, Record, RunRecord, proposal

\* The arm and the task a phase is at.
LEMMA PhaseTyped ==
    ASSUME RunTyped, run.phases # <<>>
    PROVE  /\ Head(run.phases) \in Phase
           /\ Head(run.phases)[1] = "formation" => Arm \in {"b2", "b3"}
           /\ Head(run.phases)[1] = "future" => Arm \in {"b0", "b2", "b3"}
<1>1. Head(run.phases) \in Phase
  BY HeadTailProperties DEF RunTyped
<1> QED BY <1>1 DEF Phase, Arm

LEMMA TaskTyped ==
    ASSUME RunTyped, run.i <= Len(Tasks)
    PROVE  /\ Task \in Range(Tasks)
           /\ Head(run.phases)[1] = "formation" => Tasks = FormationTasks
           /\ Head(run.phases)[1] = "future" => Tasks = FutureTasks
<1>1. Tasks \in Seq(Range(Tasks))
  BY PilotAssumption DEF Tasks
<1>2. run.i \in DOMAIN Tasks
  BY <1>1 DEF RunTyped
<1> QED BY <1>2 DEF Task, Range, Tasks

LEMMA NoEnvStep ==
    ASSUME TypeInv, UNCHANGED <<env, proposals>>
    PROVE  Widens
BY DEF TypeInv, TypeOK, Widens

LEMMA FailureStep ==
    ASSUME TypeInv, Fails
    PROVE  env' \in [failures : Nat, crashes : Nat, bundles : Nat] /\ env'.bundles = env.bundles
BY DEF TypeInv, Fails

LEMMA RunnerTyped ==
    ASSUME TypeInv, FormationRun \/ FutureRun \/ FutureB3
    PROVE  /\ Widens /\ KeepsCandidate
           /\ run'.at = "record" => run'.rec \in RunRecord'
<1> USE DEF TypeInv
<1>1. CASE FormationRun
  <2>1. Arm \in {"b2", "b3"} /\ Task \in Range(FormationTasks)
    BY <1>1, PhaseTyped, TaskTyped DEF FormationRun, InPhase
  <2>2. ASSUME NEW v \in {"PASS", "FAIL"}, Ran(Record(Arm, Task, v, env.bundles + 1, 0)),
               env' = [env EXCEPT !.bundles = @ + 1]
        PROVE  Widens /\ run'.at = "record" /\ run'.rec \in RunRecord'
    <3>1. Widens
      <4>1. /\ env' \in [failures : Nat, crashes : Nat, bundles : Nat]
            /\ env'.bundles = env.bundles + 1 /\ env.bundles \in Nat
        BY <2>2
      <4>2. UNCHANGED proposals /\ proposals \in Seq(BOOLEAN)
        BY <1>1 DEF FormationRun, store, TypeOK
      <4> QED BY <4>1, <4>2 DEF Widens
    <3>2. Record(Arm, Task, v, env.bundles + 1, 0) \in RunRecord'
      BY SMTT(30), <1>1, <2>1, <2>2, <3>1 DEF Record, RunRecord, FormationRun, proposal, store, TypeOK
    <3> QED BY <2>2, <3>1, <3>2, AfterRan
  <2>3. CASE Ran(Record(Arm, Task, "ERROR", 0, 0)) /\ Fails
    <3>1. Widens
      BY <1>1, <2>3, FailureStep DEF FormationRun, Widens, store, TypeOK
    <3>2. Record(Arm, Task, "ERROR", 0, 0) \in RunRecord
      BY <2>1, RecordTyped DEF TypeOK, proposal
    <3> QED BY <2>3, <3>1, <3>2, AfterRan, TypesWiden DEF KeepsCandidate, Building
  <2>4. CASE Raise /\ Fails
    <3>1. Widens
      BY <1>1, <2>4, FailureStep DEF FormationRun, Widens, store, TypeOK
    <3>2. run'.at = "start"
      BY <2>4, AfterRaise DEF Raise
    <3> QED BY <3>1, <3>2 DEF KeepsCandidate, Building
  <2> QED BY <1>1, <2>2, <2>3, <2>4 DEF FormationRun, KeepsCandidate, Building
<1>2. CASE FutureRun
  <2> DEFINE mounted == IF Arm = "b2" THEN frozenSkill ELSE 0
  <2>1. Arm \in {"b0", "b2", "b3"} /\ Task \in Range(FutureTasks) /\ mounted \in 0..proposal
    BY <1>2, PhaseTyped, TaskTyped DEF FutureRun, InPhase, TypeOK, proposal
  <2>2. \A v \in {"PASS", "FAIL", "ERROR"} : Record(Arm, Task, v, 0, mounted) \in RunRecord
    BY <2>1, RecordTyped
  <2>3. Widens
    BY <1>2, FailureStep DEF FutureRun, Widens, store, TypeOK
  <2>4. Raise \/ \E v \in {"PASS", "FAIL", "ERROR"} : Ran(Record(Arm, Task, v, 0, mounted))
    BY <1>2 DEF FutureRun
  <2> QED BY <2>2, <2>3, <2>4, AfterRan, AfterRaise, TypesWiden
          DEF Raise, KeepsCandidate, Building
<1>3. CASE FutureB3
  <2>1. Arm \in {"b0", "b2", "b3"} /\ Task \in Range(FutureTasks)
    BY <1>3, PhaseTyped, TaskTyped DEF FutureB3, InPhase
  <2>2. \A v \in {"PASS", "FAIL"} : Record(Arm, Task, v, 0, 0) \in RunRecord
    BY <2>1, RecordTyped DEF TypeOK, proposal
  <2>3. Widens
    <3>1. UNCHANGED proposals /\ proposals \in Seq(BOOLEAN)
      BY <1>3 DEF FutureB3, store, TypeOK
    <3>2. UNCHANGED env \/ Fails
      BY <1>3 DEF FutureB3
    <3> QED BY <3>1, <3>2, FailureStep DEF Widens
  <2>4. \/ Raise \/ run' = [run EXCEPT !.i = @ + 1]
        \/ \E v \in {"PASS", "FAIL"} : Ran(Record(Arm, Task, v, 0, 0))
    BY <1>3 DEF FutureB3
  <2>5. run.at = "start"
    BY <1>3 DEF FutureB3, InPhase
  <2> QED BY <2>2, <2>3, <2>4, <2>5, AfterNext, AfterRan, AfterRaise, TypesWiden
          DEF Raise, KeepsCandidate, Building
<1> QED BY <1>1, <1>2, <1>3

\* What the files hold stays typed, whichever of them a step writes.
LEMMA FilesTyped ==
    ASSUME TypeInv, Widens, RunTyped',
           records' \in Seq(RunRecord'), torn' \in BOOLEAN,
           generated' \in 0..proposal', frozenSkill' \in 0..proposal', skillRef' \in 0..proposal',
           made' \in [Candidate -> 0..proposal'], flat' \in {"none", "promoted", "rejected"},
           built' \in Candidate \cup {None, Legacy}, entry' \in Candidate \cup {None, Legacy},
           request' \in Candidate \cup {None, Legacy}, cache' \in Candidate \cup {None, Legacy},
           gate' \in {"none", "PASS", "FAIL"}
    PROVE  TypeOK'
BY DEF TypeOK, RunTyped, Widens

LEMMA RecordsTyped ==
    ASSUME TypeInv, Widens PROVE records \in Seq(RunRecord')
BY TypesWiden, SeqMonotonic DEF TypeInv, TypeOK

LEMMA NumbersTyped ==
    ASSUME TypeInv, Widens
    PROVE  /\ generated \in 0..proposal' /\ frozenSkill \in 0..proposal' /\ skillRef \in 0..proposal'
           /\ made \in [Candidate -> 0..proposal']
           /\ \A n \in 0..proposal : n \in 0..proposal'
BY TypesWiden DEF TypeInv, TypeOK

LEMMA RegistryTyped ==
    ASSUME TypeInv
    PROVE  /\ flat \in {"none", "promoted", "rejected"} /\ torn \in BOOLEAN
           /\ built \in Candidate \cup {None, Legacy} /\ entry \in Candidate \cup {None, Legacy}
           /\ request \in Candidate \cup {None, Legacy} /\ cache \in Candidate \cup {None, Legacy}
           /\ gate \in {"none", "PASS", "FAIL"} /\ proposal \in 0..proposal
BY DEF TypeInv, TypeOK, proposal

LEMMA UntouchedFiles ==
    ASSUME TypeInv, Widens, RunTyped', UNCHANGED <<records, torn, store, registry, gate>>
    PROVE  TypeOK'
BY FilesTyped, RecordsTyped, NumbersTyped, RegistryTyped DEF store, registry

\* A step keeps the type invariant when it keeps the files typed and the locals.
LEMMA LocalsTyped ==
    ASSUME TypeInv, Widens, TypeOK', RunTyped', KeepsCandidate,
           run'.at = "record" => run'.rec \in RunRecord'
    PROVE  TypeInv'
BY DEF TypeInv, Widens, KeepsCandidate

\* What the quiet actions do to the environment and the proposals.
LEMMA QuietWidens == ASSUME TypeInv, Quiet PROVE Widens
<1> USE DEF TypeInv
<1>1. CASE Propose
  <2>1. UNCHANGED env \/ Fails
    BY <1>1 DEF Propose, Accepted, Rejected, NoProposal
  <2>2. \E b \in BOOLEAN : proposals' \in {proposals, Append(proposals, b)}
    BY <1>1 DEF Propose, Accepted, Rejected, NoProposal
  <2>3. proposals \in Seq(BOOLEAN)
    BY DEF TypeOK
  <2>4. proposals' \in Seq(BOOLEAN) /\ Len(proposals) <= Len(proposals')
    BY <2>2, <2>3, AppendProperties
  <2> QED BY <2>1, <2>4, FailureStep DEF Widens
<1>2. CASE Validate \/ Evaluate
  <2>1. UNCHANGED env \/ Fails
    BY <1>2 DEF Validate, Evaluate
  <2>2. UNCHANGED proposals /\ proposals \in Seq(BOOLEAN)
    BY <1>2 DEF Validate, Evaluate, store, TypeOK
  <2> QED BY <2>1, <2>2, FailureStep DEF Widens
<1>3. CASE ~(Propose \/ Validate \/ Evaluate)
  <2>1. UNCHANGED <<env, proposals>>
    BY <1>3 DEF Quiet, TasksDone, Unreadable, NoSkill, Skip, GenerationStart, WriteMeta,
         FreezeStart, FreezeCopy, FreezeRef, BuildSkipped, Capabilityize, Seal,
         Reject, Retire, CostStart, Price, WriteGate, registry, store
  <2> QED BY <2>1, NoEnvStep
<1> QED BY <1>1, <1>2, <1>3

LEMMA QuietTyped == ASSUME TypeInv, Quiet PROVE TypeOK'
<1> USE DEF TypeInv
<1>1. Widens /\ RunTyped' /\ UNCHANGED records
  BY QuietWidens, QuietStep DEF Moved
<1>2. CASE Propose
  BY <1>1, <1>2, FilesTyped, RecordsTyped, NumbersTyped, RegistryTyped DEF Propose, registry
<1>3. CASE WriteMeta \/ FreezeStart \/ FreezeCopy \/ FreezeRef
  <2>1. UNCHANGED <<torn, proposals, registry, gate>>
    BY <1>3 DEF WriteMeta, FreezeStart, FreezeCopy, FreezeRef
  <2>2. {generated', frozenSkill', skillRef'} \subseteq {0, proposal, generated, frozenSkill, skillRef}
    BY <1>3 DEF WriteMeta, FreezeStart, FreezeCopy, FreezeRef
  <2>3. 0 \in 0..proposal' /\ proposal \in 0..proposal'
    BY <1>1, NumbersTyped, RegistryTyped DEF TypeOK, proposal
  <2> QED BY <1>1, <2>1, <2>2, <2>3, FilesTyped, RecordsTyped, NumbersTyped, RegistryTyped DEF registry
<1>4. CASE Capabilityize
  <2>1. UNCHANGED <<torn, store, flat, entry, request, cache, gate>>
    BY <1>4 DEF Capabilityize
  <2>2. \/ UNCHANGED <<made, built>>
        \/ \E c \in Candidate : made' = [made EXCEPT ![c] = proposal] /\ built' = c
    BY <1>4 DEF Capabilityize
  <2>3. made' \in [Candidate -> 0..proposal'] /\ built' \in Candidate \cup {None, Legacy}
    <3>1. proposal \in 0..proposal' /\ made \in [Candidate -> 0..proposal']
      BY <1>1, NumbersTyped, RegistryTyped
    <3> QED BY <2>2, <3>1, RegistryTyped
  <2> QED BY <1>1, <2>1, <2>3, FilesTyped, RecordsTyped, NumbersTyped, RegistryTyped DEF store
<1>5. CASE Reject \/ Retire
  <2>1. /\ UNCHANGED <<torn, store, made, built, entry, request, cache, gate>>
        /\ flat' \in {flat, "none", "rejected"}
    BY <1>5 DEF Reject, Retire
  <2> QED BY <1>1, <2>1, FilesTyped, RecordsTyped, NumbersTyped, RegistryTyped DEF store
<1>6. CASE WriteGate
  BY <1>1, <1>6, FilesTyped, RecordsTyped, NumbersTyped, RegistryTyped DEF WriteGate, store, registry
<1>7. CASE ~( \/ Propose \/ WriteMeta \/ FreezeStart \/ FreezeCopy \/ FreezeRef \/ Capabilityize
              \/ Reject \/ Retire \/ WriteGate)
  <2>1. UNCHANGED <<records, torn, store, registry, gate>>
    BY <1>7 DEF Quiet, TasksDone, Unreadable, NoSkill, Skip, GenerationStart, BuildSkipped, Seal,
         Validate, Evaluate, CostStart, Price
  <2> QED BY <1>1, <2>1, UntouchedFiles
<1> QED BY <1>2, <1>3, <1>4, <1>5, <1>6, <1>7

LEMMA RecordingTyped == ASSUME TypeInv, WriteRecord \/ Stamp PROVE TypeInv'
<1> USE DEF TypeInv
<1>1. /\ RunTyped' /\ run'.at \notin {"mark", "cache", "record"}
      /\ UNCHANGED <<torn, store, registry, gate, env>>
  BY RecordingStep DEF WriteRecord, Stamp
<1>2. Widens
  BY <1>1, NoEnvStep DEF store
<1>3. RunRecord' = RunRecord
  BY <1>1 DEF RunRecord, proposal, store
<1>4. records' \in Seq(RunRecord)
  <2>1. CASE WriteRecord
    BY <2>1, AppendProperties DEF WriteRecord, TypeOK
  <2>2. CASE Stamp
    <3>1. run.i \in DOMAIN records /\ records[run.i] \in RunRecord
      BY <2>2 DEF Stamp, RunTyped, TypeOK
    <3>2. proposal \in 0..proposal /\ BundleIds \subseteq 1..env.bundles
      <4>1. \A i \in DOMAIN records : records[i] \in RunRecord
        BY DEF TypeOK
      <4>2. \A i \in DOMAIN records : records[i].bundle # 0 => records[i].bundle \in 1..env.bundles
        BY <4>1 DEF RunRecord
      <4> QED BY <4>2, RegistryTyped DEF BundleIds, Bundles, Formation
    <3>3. Stamped(records[run.i], proposal, BundleIds) \in RunRecord
      BY <3>1, <3>2 DEF RunRecord, Stamped
    <3>4. records' \in {records, [records EXCEPT ![run.i] = Stamped(records[run.i], proposal, BundleIds)]}
      BY <2>2, <3>1 DEF Stamp
    <3>5. records \in Seq(RunRecord) /\ run.i \in 1..Len(records)
      BY SMTT(30), <3>1 DEF TypeOK
    <3>6. [records EXCEPT ![run.i] = Stamped(records[run.i], proposal, BundleIds)] \in Seq(RunRecord)
      BY <3>3, <3>5, ExceptSeq
    <3> QED BY <3>4, <3>5, <3>6
  <2> QED BY <2>1, <2>2
<1>5. KeepsCandidate
  <2>1. CASE WriteRecord
    BY <2>1 DEF WriteRecord, KeepsCandidate, Building, RunTyped
  <2>2. CASE Stamp
    BY <2>2, AfterNext DEF Stamp, InPhase, KeepsCandidate, Building
  <2> QED BY <2>1, <2>2
<1>6. TypeOK'
  BY <1>1, <1>2, <1>3, <1>4, FilesTyped, NumbersTyped, RegistryTyped DEF store, registry
<1> QED BY <1>1, <1>2, <1>5, <1>6, LocalsTyped

LEMMA PublishingTyped == ASSUME TypeInv, Publishing PROVE TypeInv'
<1> USE DEF TypeInv
<1>1. RunTyped' /\ UNCHANGED records
  BY PublishingStep
<1>2. CASE Promote \/ MarkPromoted \/ WriteCache
  <2>1. run.cand \in Candidate
    BY <1>2 DEF Promote, MarkPromoted, WriteCache, InPhase, Building
  <2>2. /\ UNCHANGED <<torn, store, made, built, flat, gate, env>>
        /\ {entry', request', cache'} \subseteq {entry, request, cache, run.cand}
    BY <1>2 DEF Promote, MarkPromoted, WriteCache
  <2>3. Widens
    BY <2>2, NoEnvStep DEF store
  <2>4. TypeOK'
    BY <1>1, <2>1, <2>2, <2>3, FilesTyped, RecordsTyped, NumbersTyped, RegistryTyped DEF store
  <2>5. run'.at # "record" /\ KeepsCandidate
    BY <1>2, <2>1, AfterGoto, AfterRaise, AfterPhase
       DEF Promote, MarkPromoted, WriteCache, Raise, InPhase, KeepsCandidate, Building
  <2> QED BY <1>1, <2>3, <2>4, <2>5, LocalsTyped
<1>3. CASE FutureB3
  <2>1. /\ UNCHANGED <<torn, store, made, built, flat, entry, request, gate>>
        /\ cache' \in {cache, request}
    BY <1>3 DEF FutureB3, store
  <2>2. Widens /\ KeepsCandidate /\ (run'.at = "record" => run'.rec \in RunRecord')
    BY <1>3, RunnerTyped
  <2>3. TypeOK'
    BY <1>1, <2>1, <2>2, FilesTyped, RecordsTyped, NumbersTyped, RegistryTyped DEF store
  <2> QED BY <1>1, <2>2, <2>3, LocalsTyped
<1> QED BY <1>2, <1>3 DEF Publishing

LEMMA CrashTyped == ASSUME TypeInv, Crash PROVE TypeInv'
<1> USE DEF TypeInv
<1>1. RunTyped' /\ run'.phases = <<>> /\ run'.at = "start"
  BY AfterRaise DEF Crash
<1>2. Widens
  <2>1. /\ env' \in [failures : Nat, crashes : Nat, bundles : Nat]
        /\ env'.bundles = env.bundles
    BY DEF Crash
  <2>2. UNCHANGED proposals /\ proposals \in Seq(BOOLEAN)
    BY DEF Crash, store, TypeOK
  <2> QED BY <2>1, <2>2 DEF Widens
<1>3. records' \in Seq(RunRecord') /\ torn' \in BOOLEAN
  <2>1. records \in Seq(RunRecord') /\ torn \in BOOLEAN
    BY <1>2, RecordsTyped, RegistryTyped
  <2>2. \A n \in 0..(Len(records) - 1) : SubSeq(records, 1, n) \in Seq(RunRecord')
    BY <2>1, SubSeqProperties
  <2> QED BY <2>1, <2>2 DEF Crash
<1>4. TypeOK'
  BY <1>1, <1>2, <1>3, FilesTyped, NumbersTyped, RegistryTyped DEF Crash, store, registry
<1> QED BY <1>1, <1>2, <1>4, LocalsTyped DEF KeepsCandidate, Building

LEMMA TypeStep == ASSUME OperatorTyped, TypeInv, [Next]_vars PROVE TypeInv'
<1> USE DEF TypeInv
<1>1. ASSUME NEW c \in Commands, Begin(c) PROVE TypeInv'
  <2>1. RunTyped' /\ run'.at = "start" /\ UNCHANGED <<records, torn, store, registry, gate, env>>
    BY <1>1, BeginStep DEF Begin
  <2>2. Widens
    BY <2>1, NoEnvStep DEF store
  <2> QED BY <2>1, <2>2, UntouchedFiles, LocalsTyped DEF KeepsCandidate, Building
<1>2. CASE Quiet
  <2>1. RunTyped' /\ KeepsCandidate /\ run'.at # "record"
    BY <1>2, QuietStep DEF Moved
  <2> QED BY <1>2, <2>1, QuietWidens, QuietTyped, LocalsTyped
<1>3. CASE FormationRun \/ FutureRun
  <2>1. RunTyped' /\ UNCHANGED <<records, torn, store, registry, gate>>
    BY <1>3, RunnerStep DEF FormationRun, FutureRun
  <2> QED BY <1>3, <2>1, RunnerTyped, UntouchedFiles, LocalsTyped
<1>4. CASE UNCHANGED vars
  <2>1. /\ UNCHANGED <<records, torn, store, registry, gate, env>> /\ run' = run
    BY <1>4 DEF vars
  <2>2. Widens /\ RunTyped'
    BY <2>1, NoEnvStep DEF store, RunTyped
  <2>3. RunRecord' = RunRecord
    BY <2>1 DEF RunRecord, proposal, store
  <2> QED BY <2>1, <2>2, <2>3, UntouchedFiles, LocalsTyped DEF KeepsCandidate
<1> QED BY <1>1, <1>2, <1>3, <1>4, StepKinds, RecordingTyped, PublishingTyped, CrashTyped DEF Next

LEMMA FunctionIsSeq ==
    ASSUME NEW S, NEW n \in Nat, NEW f \in [1..n -> S]
    PROVE  f \in Seq(S) /\ Len(f) = n
OBVIOUS

Phase8Record ==
    [arm : {"b2", "b3"}, task : Range(FormationTasks), verdict : {"PASS"}, bundle : 1..Needed,
     input : {1}, inputs : {1..Needed}, skill : {0}]

LEMMA Phase8RunsTyped ==
    LET N == Len(FormationTasks)
    IN  /\ N \in Nat /\ DOMAIN FormationTasks = 1..N /\ Needed = 2 * N
        /\ Phase8Runs("b2", 0) \in Seq(Phase8Record) /\ Phase8Runs("b3", N) \in Seq(Phase8Record)
        /\ Len(Phase8Runs("b2", 0)) = N /\ Len(Phase8Runs("b3", N)) = N
<1> DEFINE N == Len(FormationTasks)
<1>1. N \in Nat /\ DOMAIN FormationTasks = 1..N /\ Needed = 2 * N
  BY PilotAssumption DEF Needed
<1>2. ASSUME NEW arm \in {"b2", "b3"}, NEW first \in {0, N}
      PROVE  Phase8Runs(arm, first) \in [1..N -> Phase8Record]
  <2>1. ASSUME NEW i \in 1..N PROVE Phase8Runs(arm, first)[i] \in Phase8Record
    <3>1. FormationTasks[i] \in Range(FormationTasks)
      BY <1>1 DEF Range
    <3>2. first + i \in 1..Needed
      <4> HIDE DEF N
      <4> QED BY <1>1
    <3>3. Phase8Runs(arm, first)[i] = [arm |-> arm, task |-> FormationTasks[i], verdict |-> "PASS",
              bundle |-> first + i, input |-> 1, inputs |-> 1..Needed, skill |-> 0]
      BY <1>1 DEF Record, Stamped, Phase8Runs
    <3> QED BY SMTT(30), <3>1, <3>2, <3>3 DEF Phase8Record
  <2> QED BY <2>1 DEF Phase8Runs
<1>3. /\ Phase8Runs("b2", 0) \in Seq(Phase8Record) /\ Phase8Runs("b3", N) \in Seq(Phase8Record)
      /\ Len(Phase8Runs("b2", 0)) = N /\ Len(Phase8Runs("b3", N)) = N
  BY <1>1, <1>2, FunctionIsSeq
<1> QED BY <1>1, <1>3

LEMMA Phase8Typed ==
    ASSUME LeftByPhase8
    PROVE  LET N == Len(FormationTasks)
           IN  /\ records \in Seq(Phase8Record) /\ Len(records) = N + N
               /\ \A i \in 1..N : /\ records[i] = Phase8Runs("b2", 0)[i]
                                   /\ records[i + N] = Phase8Runs("b3", N)[i]
<1> DEFINE N == Len(FormationTasks)
<1>1. records = Phase8Runs("b2", 0) \o Phase8Runs("b3", N)
  BY DEF LeftByPhase8
<1>2. \A s, t \in Seq(Phase8Record) :
        /\ s \o t \in Seq(Phase8Record) /\ Len(s \o t) = Len(s) + Len(t)
        /\ \A i \in 1..Len(s) : (s \o t)[i] = s[i]
        /\ \A i \in 1..Len(t) : (s \o t)[i + Len(s)] = t[i]
  OBVIOUS
<1>3. /\ N \in Nat
      /\ Phase8Runs("b2", 0) \in Seq(Phase8Record) /\ Phase8Runs("b3", N) \in Seq(Phase8Record)
      /\ Len(Phase8Runs("b2", 0)) = N /\ Len(Phase8Runs("b3", N)) = N
  BY Phase8RunsTyped
<1> HIDE DEF N
<1>4. /\ records \in Seq(Phase8Record) /\ Len(records) = N + N
      /\ \A i \in 1..N : /\ records[i] = Phase8Runs("b2", 0)[i]
                          /\ records[i + N] = Phase8Runs("b3", N)[i]
  <2> DEFINE s == Phase8Runs("b2", 0)
             t == Phase8Runs("b3", N)
  <2> HIDE DEF s, t
  <2>1. s \in Seq(Phase8Record) /\ t \in Seq(Phase8Record) /\ Len(s) = N /\ Len(t) = N
    BY <1>3 DEF s, t
  <2>2. records = s \o t
    BY <1>1 DEF s, t
  <2>3. records \in Seq(Phase8Record) /\ Len(records) = N + N
    BY <1>2, <2>1, <2>2, Zenon
  <2>4. \A i \in 1..N : records[i] = s[i]
    BY <2>1, <2>2
  <2>5. \A i \in 1..N : records[i + N] = t[i]
    <3> SUFFICES ASSUME NEW i \in 1..N PROVE records[i + N] = t[i]
      OBVIOUS
    <3>1. i \in 1..Len(t)
      BY <2>1
    <3>2. (s \o t)[i + Len(s)] = t[i]
      BY <1>2, <2>1, <3>1, Zenon
    <3> QED BY <2>1, <2>2, <3>2
  <2> QED BY <2>3, <2>4, <2>5 DEF s, t
<1> QED BY <1>4 DEF N

LEMMA TypeInit == Init => TypeInv
<1> SUFFICES ASSUME Init PROVE TypeInv
  OBVIOUS
<1>1. /\ run = Idle /\ torn = FALSE /\ made = [c \in Candidate |-> 0] /\ built = None
      /\ entry = None /\ request = None /\ gate = "none"
      /\ env = [failures |-> 0, crashes |-> 0, bundles |-> Len(records)]
  BY DEF Init
<1>2. RunTyped /\ run.phases = <<>> /\ run.phases \in Seq(Phase) /\ run.at = "start"
  BY <1>1, <<>> \in Seq(Phase) DEF RunTyped, Idle
<1>3. ASSUME records \in Seq(RunRecord), proposals \in Seq(BOOLEAN), Len(records) \in Nat,
             {generated, frozenSkill, skillRef} \subseteq 0..proposal, 0 \in 0..proposal,
             flat \in {"none", "promoted"}, cache \in {None, Legacy}
      PROVE  TypeInv
  BY <1>1, <1>2, <1>3 DEF TypeInv, TypeOK, Building
<1>4. CASE Fresh
  <2>1. records \in Seq(RunRecord) /\ Len(records) \in Nat /\ proposals \in Seq(BOOLEAN)
        /\ proposal = 0
    BY <1>4 DEF Fresh, proposal
  <2> QED BY <1>3, <1>4, <2>1 DEF Fresh
<1>5. CASE LeftByPhase8
  <2>1. /\ proposals = <<TRUE>> /\ generated = 1 /\ frozenSkill = 1 /\ skillRef = 1
        /\ flat = "promoted" /\ cache = Legacy
    BY <1>5 DEF LeftByPhase8
  <2>2. proposals \in Seq(BOOLEAN) /\ proposal = 1
    BY <2>1 DEF proposal
  <2>3. Needed \in Nat /\ records \in Seq(Phase8Record) /\ Len(records) = Needed
    BY <1>5, Phase8RunsTyped, Phase8Typed
  <2>4. Phase8Record \subseteq RunRecord
    <3>1. env.bundles = Needed
      BY <1>1, <2>3
    <3>2. (1..Needed) \in SUBSET (1..env.bundles) /\ (1..Needed) \subseteq 0..env.bundles
      BY <2>3, <3>1
    <3>3. 1 \in 0..proposal /\ 0 \in 0..proposal
      BY <2>2
    <3> QED BY <3>2, <3>3 DEF RunRecord, Phase8Record
  <2>5. records \in Seq(RunRecord)
    BY <2>3, <2>4, SeqMonotonic
  <2> QED BY <1>3, <2>1, <2>2, <2>3, <2>5
<1> QED BY <1>4, <1>5 DEF Init

\* Whatever the operator types and wherever commands fail or die, every file keeps
\* its type: stamps name proposals there are and bundles that were sealed.
THEOREM PilotTyped == ASSUME OperatorTyped PROVE Spec => []TypeOK
<1>1. TypeInv /\ [Next]_vars => TypeInv'
  BY OperatorTyped, TypeStep
<1>2. TypeInv => TypeOK
  BY DEF TypeInv
<1> QED BY <1>1, <1>2, TypeInit, PTL DEF Spec

-----------------------------------------------------------------------------
(* One run for each task.                                                  *)

NotForced ==
    run.force => \A j \in DOMAIN run.phases : run.phases[j][1] \notin {"formation", "future"}

\* What a run may repeat: a formation run without a bundle.
Repeatable(rec) ==
    \A j \in DOMAIN records : records[j].arm = rec.arm /\ records[j].task = rec.task
        => Formed(records[j]) /\ records[j].bundle = 0

OnceInv ==
    /\ OneRunPerTask /\ NotForced
    /\ run.at = "record" => Repeatable(run.rec)

LEMMA NotForcedKept ==
    ASSUME RunTyped, NotForced, Advances PROVE NotForced'
<1>1. CASE run'.phases = <<>>
  BY <1>1 DEF NotForced
<1>2. CASE run'.phases = run.phases /\ run'.force = run.force
  BY <1>2 DEF NotForced
<1>3. CASE run.phases # <<>> /\ run'.phases = Tail(run.phases) /\ run'.force = run.force
  <2>1. \A j \in DOMAIN Tail(run.phases) : j + 1 \in DOMAIN run.phases
                                          /\ Tail(run.phases)[j] = run.phases[j + 1]
    BY <1>3, HeadTailProperties DEF RunTyped
  <2> QED BY <1>3, <2>1 DEF NotForced
<1>4. Tail(<<>>) = <<>>
  OBVIOUS
<1> QED BY <1>1, <1>2, <1>3, <1>4 DEF Advances

LEMMA HeadNotForced ==
    ASSUME RunTyped, NotForced, run.phases # <<>>, Head(run.phases)[1] \in {"formation", "future"}
    PROVE  ~run.force
<1>1. 1 \in DOMAIN run.phases /\ Head(run.phases) = run.phases[1]
  BY DEF RunTyped
<1> QED BY <1>1 DEF NotForced

LEMMA OnceKept ==
    ASSUME OnceInv, UNCHANGED records, NotForced', run'.at # "record"
    PROVE  OnceInv'
BY DEF OnceInv, OneRunPerTask, Formed

LEMMA OnceRunner ==
    ASSUME TypeInv, OnceInv, FormationRun \/ FutureRun \/ FutureB3
    PROVE  run'.at = "record" => Repeatable(run'.rec)
<1> USE DEF TypeInv, OnceInv
<1>0. records \in Seq(RunRecord)
  BY DEF TypeOK
<1>1. CASE FormationRun
  <2>1. ~run.force /\ Arm \in {"b2", "b3"} /\ Task \in Range(FormationTasks)
    BY <1>1, HeadNotForced, PhaseTyped, TaskTyped DEF FormationRun, InPhase
  <2>2. \A j \in DOMAIN records : records[j].arm = Arm /\ records[j].task = Task => records[j].bundle = 0
    BY <1>1, <2>1 DEF FormationRun, Exists, Range
  <2>3. \A verdict, bundle : Repeatable(Record(Arm, Task, verdict, bundle, 0))
    BY <2>1, <2>2 DEF Repeatable, Record, Formed
  <2>4. Raise \/ \E verdict, bundle : Ran(Record(Arm, Task, verdict, bundle, 0))
    BY <1>1 DEF FormationRun
  <2> QED BY <2>3, <2>4, AfterRan, AfterRaise DEF Raise
<1>2. CASE FutureRun \/ FutureB3
  <2>1. \/ Raise
        \/ run' = [run EXCEPT !.i = @ + 1] /\ run.at = "start"
        \/ /\ InPhase("future", "start") /\ (Exists(FALSE) => run.force)
           /\ \E verdict, skill : Ran(Record(Arm, Task, verdict, 0, skill))
    BY <1>2 DEF FutureRun, FutureB3, InPhase
  <2>2. ASSUME InPhase("future", "start"), Exists(FALSE) => run.force, NEW verdict, NEW skill,
               Ran(Record(Arm, Task, verdict, 0, skill))
        PROVE  Repeatable(run'.rec)
    <3>1. ~run.force
      BY <2>2, HeadNotForced DEF InPhase
    <3>2. \A j \in DOMAIN records : ~(records[j].arm = Arm /\ records[j].task = Task)
      BY <2>2, <3>1 DEF Exists, Range
    <3> QED BY <2>2, <3>2, AfterRan DEF Repeatable, Record
  <2> QED BY <2>1, <2>2, AfterNext, AfterRaise DEF Raise
<1> QED BY <1>1, <1>2

LEMMA OnceWritten ==
    ASSUME TypeInv, OnceInv, WriteRecord PROVE OneRunPerTask'
<1> USE DEF TypeInv, OnceInv
<1>1. /\ records' = Append(records, run.rec) /\ Repeatable(run.rec)
      /\ records \in Seq(RunRecord) /\ run.rec \in RunRecord
  BY DEF WriteRecord, TypeOK
<1> DEFINE n == Len(records) + 1
<1>2. /\ DOMAIN records = 1..Len(records) /\ DOMAIN records' = 1..n /\ Len(records) \in Nat
      /\ \A j \in DOMAIN records : records'[j] = records[j]
      /\ records'[n] = run.rec
  BY <1>1, AppendProperties
<1>3. \A j \in DOMAIN records : records[j].arm = run.rec.arm /\ records[j].task = run.rec.task
        => Formed(records[j]) /\ Formed(run.rec) /\ records[j].bundle = 0
  BY <1>1 DEF Repeatable, Formed
<1>4. SUFFICES ASSUME NEW i \in DOMAIN records', NEW j \in DOMAIN records', i # j,
                      records'[i].arm = records'[j].arm, records'[i].task = records'[j].task
               PROVE  Formed(records'[i]) /\ 0 \in {records'[i].bundle, records'[j].bundle}
  BY DEF OneRunPerTask, Formed
<1>5. CASE i \in DOMAIN records /\ j \in DOMAIN records
  BY <1>2, <1>4, <1>5 DEF OneRunPerTask
<1>6. CASE i = n /\ j \in DOMAIN records
  BY <1>2, <1>3, <1>4, <1>6
<1>7. CASE j = n /\ i \in DOMAIN records
  BY <1>2, <1>3, <1>4, <1>7
<1> QED BY <1>2, <1>4, <1>5, <1>6, <1>7

LEMMA OnceStamped ==
    ASSUME TypeInv, OnceInv, Stamp PROVE OneRunPerTask'
<1>1. /\ DOMAIN records' = DOMAIN records
      /\ \A j \in DOMAIN records : /\ records'[j].arm = records[j].arm
                                   /\ records'[j].task = records[j].task
                                   /\ records'[j].bundle = records[j].bundle
  <2>1. records \in Seq(RunRecord) /\ run.i \in DOMAIN records
    BY DEF TypeInv, TypeOK, Stamp, RunTyped
  <2>2. \A r \in RunRecord : LET s == Stamped(r, proposal, BundleIds)
                             IN  s.arm = r.arm /\ s.task = r.task /\ s.bundle = r.bundle
    BY DEF Stamped, RunRecord
  <2>3. records' \in {records, [records EXCEPT ![run.i] = Stamped(records[run.i], proposal, BundleIds)]}
    BY <2>1 DEF Stamp
  <2>4. \A j \in DOMAIN records : records[j] \in RunRecord
    BY <2>1
  <2> QED BY <2>1, <2>2, <2>3, <2>4
<1> QED BY <1>1 DEF OnceInv, OneRunPerTask, Formed

LEMMA OnceCut ==
    ASSUME TypeInv, OnceInv, NEW n \in 0..(Len(records) - 1), records' = SubSeq(records, 1, n)
    PROVE  OneRunPerTask'
<1>1. /\ DOMAIN records' \subseteq DOMAIN records
      /\ \A j \in DOMAIN records' : records'[j] = records[j]
  BY SMTT(30), SubSeqProperties DEF TypeInv, TypeOK
<1> QED BY SMTT(30), <1>1 DEF OnceInv, OneRunPerTask, Formed

LEMMA OnceInit == Init => OnceInv
<1> SUFFICES ASSUME Init PROVE OnceInv
  OBVIOUS
<1>1. NotForced /\ run.at = "start"
  BY DEF Init, NotForced, Idle
<1>2. CASE Fresh
  BY <1>1, <1>2 DEF Fresh, OnceInv, OneRunPerTask
<1>3. CASE LeftByPhase8
  <2> DEFINE N == Len(FormationTasks)
  <2>1. N \in Nat /\ DOMAIN FormationTasks = 1..N
    BY PilotAssumption
  <2>2. \A arm, first : /\ DOMAIN Phase8Runs(arm, first) = 1..N
                        /\ \A i \in 1..N : /\ Phase8Runs(arm, first)[i].arm = arm
                                           /\ Phase8Runs(arm, first)[i].task = FormationTasks[i]
    BY DEF Phase8Runs, Stamped, Record
  <2>4. /\ DOMAIN records = 1..(N + N)
        /\ \A i \in 1..N : records[i].arm = "b2" /\ records[i].task = FormationTasks[i]
        /\ \A i \in 1..N : records[i + N].arm = "b3" /\ records[i + N].task = FormationTasks[i]
    BY SMTT(30), <1>3, <2>1, <2>2, Phase8Typed
  <2> HIDE DEF N
  <2>5. \A i \in DOMAIN records : \E k \in 1..N :
          /\ records[i].task = FormationTasks[k]
          /\ (i = k /\ records[i].arm = "b2") \/ (i = k + N /\ records[i].arm = "b3")
    <3> SUFFICES ASSUME NEW i \in DOMAIN records
                 PROVE  \E k \in 1..N : /\ records[i].task = FormationTasks[k]
                                        /\ \/ i = k /\ records[i].arm = "b2"
                                           \/ i = k + N /\ records[i].arm = "b3"
      OBVIOUS
    <3>1. CASE i \in 1..N
      BY <2>4, <3>1
    <3>2. CASE i \notin 1..N
      <4>1. i - N \in 1..N /\ i = (i - N) + N
        BY <2>1, <2>4, <3>2
      <4> QED BY <2>4, <4>1
    <3> QED BY <3>1, <3>2
  <2>6. OneRunPerTask
    BY <2>1, <2>5, PilotAssumption DEF OneRunPerTask
  <2> QED BY <1>1, <2>6 DEF OnceInv
<1> QED BY <1>2, <1>3 DEF Init

LEMMA OnceStep ==
    ASSUME OperatorTyped, RunsNotForced, TypeInv, OnceInv, [Next]_vars PROVE OnceInv'
<1> USE DEF TypeInv
<1>1. ASSUME NEW c \in Commands, Begin(c) PROVE OnceInv'
  <2>1. NotForced'
    BY <1>1, BeginStep DEF NotForced, RunsNotForced
  <2> QED BY <1>1, <2>1, BeginStep, OnceKept
<1>2. CASE Quiet \/ Publishing \/ FormationRun \/ FutureRun
  <2>1. NotForced' /\ UNCHANGED records
    BY <1>2, QuietStep, PublishingStep, RunnerStep, NotForcedKept DEF Moved, OnceInv
  <2>2. run'.at = "record" => FormationRun \/ FutureRun \/ FutureB3
    BY <1>2, QuietStep, AfterGoto, AfterRaise, AfterPhase
       DEF Moved, Publishing, Promote, MarkPromoted, WriteCache, Raise, InPhase
  <2>3. run'.at = "record" => Repeatable(run'.rec)
    BY <2>2, OnceRunner
  <2>4. OneRunPerTask'
    BY <2>1 DEF OnceInv, OneRunPerTask, Formed
  <2>5. (run.at = "record" => Repeatable(run.rec))'
    BY <2>1, <2>3 DEF Repeatable, Formed
  <2> QED BY <2>1, <2>4, <2>5 DEF OnceInv
<1>3. CASE WriteRecord \/ Stamp
  <2>1. NotForced' /\ run'.at # "record"
    BY <1>3, RecordingStep, NotForcedKept DEF OnceInv
  <2>2. OneRunPerTask'
    BY <1>3, OnceWritten, OnceStamped
  <2> QED BY <2>1, <2>2 DEF OnceInv
<1>4. CASE Crash
  <2>1. NotForced' /\ run'.at # "record"
    BY <1>4 DEF Crash, Idle, NotForced
  <2>2. OneRunPerTask'
    BY <1>4, OnceCut DEF Crash, OnceInv, OneRunPerTask, Formed
  <2> QED BY <2>1, <2>2 DEF OnceInv
<1>5. CASE UNCHANGED vars
  BY <1>5 DEF vars, OnceInv, OneRunPerTask, NotForced, Repeatable, Formed
<1> QED BY <1>1, <1>2, <1>3, <1>4, <1>5, StepKinds DEF Next

\* As long as no run is forced again, commands repeated after failures and crashes leave
\* one bundle for each formation task of an arm and one record for each future task:
\* phase_formation and phase_future look for the record before they run the task.
THEOREM RunsOnce ==
    ASSUME OperatorTyped, RunsNotForced PROVE Spec => []OneRunPerTask
<1>1. TypeInv /\ OnceInv /\ [Next]_vars => TypeInv' /\ OnceInv'
  BY OperatorTyped, RunsNotForced, TypeStep, OnceStep
<1>2. OnceInv => OneRunPerTask
  BY DEF OnceInv
<1> QED BY <1>1, <1>2, TypeInit, OnceInit, PTL DEF Spec

-----------------------------------------------------------------------------
(* One proposal for the two arms.                                          *)

\* A freeze or a build that is still to come has the generation before it.
InOrder(phases) ==
    \A j \in DOMAIN phases : phases[j][1] \in {"b2-freeze", "b3-build"}
        => \E k \in 1..(j - 1) : phases[k][1] = "generation"

OrderInv ==
    /\ generated = 0 => ~run.force /\ InOrder(run.phases)
    /\ run.force => \A j \in DOMAIN run.phases : run.phases[j][1] # "generation"

\* Everything downstream carries the proposal of the metadata, and nothing before.
ProposalInv ==
    /\ generated # 0 => generated = proposal
    /\ frozenSkill \in {0, generated} /\ skillRef \in {0, generated}
    /\ \A c \in Candidate : made[c] \in {0, generated}
    /\ \A j \in DOMAIN records :
          /\ records[j].skill \in {0, generated}
          /\ records[j].input # 0 => Formed(records[j])
          /\ generated # 0 => records[j].input \in {0, generated}

\* While generation runs there is no metadata; what update_record has passed is stamped.
GenerationInv ==
    /\ run.at = "record" => run.rec.skill \in {0, generated} /\ run.rec.input = 0
    /\ InPhase("generation", "propose") \/ InPhase("generation", "stamp") => generated = 0
    /\ InPhase("generation", "stamp") =>
          /\ proposals # <<>>
          /\ \A j \in DOMAIN records : j < run.i /\ Formed(records[j]) => records[j].input = proposal

SharedInv == OrderInv /\ ProposalInv /\ GenerationInv

LEMMA SharedImplies == SharedInv => SharedProposal
BY DEF SharedInv, ProposalInv, SharedProposal, Range

LEMMA TailInOrder ==
    ASSUME NEW phases \in Seq(Phase), phases # <<>>, InOrder(phases), Head(phases)[1] # "generation"
    PROVE  InOrder(Tail(phases))
<1> SUFFICES ASSUME NEW j \in DOMAIN Tail(phases), Tail(phases)[j][1] \in {"b2-freeze", "b3-build"}
             PROVE  \E k \in 1..(j - 1) : Tail(phases)[k][1] = "generation"
  BY DEF InOrder
<1>1. /\ j \in Nat \ {0} /\ j + 1 \in DOMAIN phases /\ Tail(phases)[j] = phases[j + 1]
      /\ \A k \in 1..j : k + 1 \in DOMAIN phases /\ Tail(phases)[k] = phases[k + 1]
  BY HeadTailProperties
<1>2. PICK k \in 1..j : phases[k][1] = "generation"
  BY <1>1 DEF InOrder
<1>3. k # 1 /\ k - 1 \in 1..(j - 1)
  BY <1>1, <1>2
<1>4. Tail(phases)[k - 1] = phases[k]
  BY <1>1, <1>3
<1> QED BY <1>2, <1>3, <1>4

\* The phase that a command is at, when it freezes or builds, has a generation behind it.
LEMMA Generated ==
    ASSUME RunTyped, OrderInv, run.phases # <<>>, Head(run.phases)[1] \in {"b2-freeze", "b3-build"}
    PROVE  generated # 0
<1>1. 1 \in DOMAIN run.phases /\ Head(run.phases) = run.phases[1]
  BY DEF RunTyped
<1> QED BY <1>1 DEF OrderInv, InOrder

LEMMA GenerationNotForced ==
    ASSUME RunTyped, OrderInv, run.phases # <<>>, Head(run.phases)[1] = "generation"
    PROVE  ~run.force
<1>1. 1 \in DOMAIN run.phases /\ Head(run.phases) = run.phases[1]
  BY DEF RunTyped
<1> QED BY <1>1 DEF OrderInv

\* Order is kept when generation does not end without its metadata.
LEMMA OrderKept ==
    ASSUME RunTyped, RunTyped', OrderInv, Advances, generated' = 0 => generated = 0,
           \/ run'.phases = <<>>
           \/ run'.phases = run.phases
           \/ generated' = 0 => Head(run.phases)[1] # "generation"
    PROVE  OrderInv'
<1>1. CASE run'.phases = <<>>
  BY <1>1 DEF OrderInv, InOrder, Advances
<1>2. CASE run'.phases = run.phases /\ run'.force = run.force
  BY <1>2 DEF OrderInv
<1>3. CASE /\ run.phases # <<>> /\ run'.phases = Tail(run.phases) /\ run'.force = run.force
           /\ generated' = 0 => Head(run.phases)[1] # "generation"
  <2>1. generated' = 0 => InOrder(run'.phases)
    BY <1>3, TailInOrder DEF OrderInv, RunTyped
  <2>2. \A j \in DOMAIN Tail(run.phases) : j + 1 \in DOMAIN run.phases
                                          /\ Tail(run.phases)[j] = run.phases[j + 1]
    BY <1>3, HeadTailProperties DEF RunTyped
  <2> QED BY <1>3, <2>1, <2>2 DEF OrderInv
<1>4. Tail(<<>>) = <<>>
  OBVIOUS
<1> QED BY <1>1, <1>2, <1>3, <1>4 DEF Advances

\* What a step can change of the proposal: a step that leaves the metadata, the stamps and
\* what carries a proposal alone keeps the invariant.
LEMMA ProposalKept ==
    ASSUME ProposalInv, UNCHANGED <<records, store, made>>
    PROVE  ProposalInv'
BY DEF ProposalInv, store, proposal, Formed

\* A step of a phase other than generation, or one that ends the command.
LEMMA ElsewhereKept ==
    ASSUME GenerationInv, generated' = generated,
           run'.at = "record" => run'.rec.skill \in {0, generated} /\ run'.rec.input = 0,
           run'.phases = <<>> \/ run'.at \notin {"propose", "stamp"}
    PROVE  GenerationInv'
BY DEF GenerationInv, InPhase

LEMMA SharedBegin ==
    ASSUME OperatorTyped, OperatorInOrder, SharedInv, NEW c \in Commands, Begin(c)
    PROVE  SharedInv'
<1>1. /\ run'.phases = c.phases /\ run'.force = c.force /\ run'.at = "start"
      /\ UNCHANGED <<records, store, made>> /\ (c.force => generated # 0)
  BY BeginStep DEF Begin, registry
<1>2. generated' = generated
  BY <1>1 DEF store
<1>3. OrderInv'
  BY <1>1, <1>2 DEF OrderInv, InOrder, OperatorInOrder, OperatorTyped
<1> QED BY <1>1, <1>2, <1>3, ProposalKept, ElsewhereKept DEF SharedInv

LEMMA SharedRunner ==
    ASSUME TypeInv, SharedInv, FormationRun \/ FutureRun \/ FutureB3
    PROVE  SharedInv'
<1> USE DEF TypeInv
<1>1. /\ RunTyped' /\ Advances /\ UNCHANGED <<records, store, made>>
  BY RunnerStep, PublishingStep DEF FormationRun, FutureRun, FutureB3, Publishing, registry
<1>2. generated' = generated
  BY <1>1 DEF store
<1>3. run'.phases = <<>> \/ (run'.phases = run.phases /\ run'.at \notin {"propose", "stamp"})
  BY AfterRan, AfterRaise, AfterNext DEF FormationRun, FutureRun, FutureB3, Raise, InPhase
<1>4. OrderInv'
  BY <1>1, <1>2, <1>3, OrderKept DEF SharedInv
<1>5. run'.at = "record" => run'.rec.skill \in {0, generated} /\ run'.rec.input = 0
  <2>1. \/ Raise
        \/ run' = [run EXCEPT !.i = @ + 1] /\ run.at = "start"
        \/ \E arm, task, v, bundle : \E skill \in {0, frozenSkill} : Ran(Record(arm, task, v, bundle, skill))
    BY DEF FormationRun, FutureRun, FutureB3, InPhase
  <2>2. \A arm, task, v, bundle, skill : /\ Record(arm, task, v, bundle, skill).skill = skill
                                         /\ Record(arm, task, v, bundle, skill).input = 0
    BY DEF Record
  <2>3. frozenSkill \in {0, generated}
    BY DEF SharedInv, ProposalInv
  <2> QED BY <2>1, <2>2, <2>3, AfterRan, AfterRaise, AfterNext DEF Raise
<1> QED BY <1>1, <1>2, <1>3, <1>4, <1>5, ProposalKept, ElsewhereKept DEF SharedInv

LEMMA SharedPublishing ==
    ASSUME TypeInv, SharedInv, Promote \/ MarkPromoted \/ WriteCache
    PROVE  SharedInv'
<1> USE DEF TypeInv
<1>1. /\ RunTyped' /\ Advances /\ UNCHANGED <<records, store, made>>
  BY PublishingStep DEF Publishing, Promote, MarkPromoted, WriteCache
<1>2. generated' = generated
  BY <1>1 DEF store
<1>3. Head(run.phases)[1] = "b3-build"
  BY DEF Promote, MarkPromoted, WriteCache, InPhase
<1>4. run'.at \in {"start", "mark", "cache"}
  BY AfterGoto, AfterRaise, AfterPhase
     DEF Promote, MarkPromoted, WriteCache, Raise, InPhase
<1>5. OrderInv'
  BY <1>1, <1>2, <1>3, OrderKept DEF SharedInv
<1> QED BY <1>1, <1>2, <1>4, <1>5, ProposalKept, ElsewhereKept DEF SharedInv

LEMMA SharedWritten ==
    ASSUME TypeInv, SharedInv, WriteRecord PROVE SharedInv'
<1> USE DEF TypeInv
<1>1. /\ UNCHANGED <<store, made>> /\ generated' = generated
      /\ run'.phases = run.phases /\ run'.force = run.force /\ run'.at = "start"
  BY DEF WriteRecord, RunTyped, registry, store
<1>2. /\ DOMAIN records' = 1..(Len(records) + 1) /\ Len(records) \in Nat
      /\ DOMAIN records = 1..Len(records)
      /\ \A j \in DOMAIN records : records'[j] = records[j]
      /\ records'[Len(records) + 1] = run.rec
  BY SMTT(30), AppendProperties DEF WriteRecord, TypeOK
<1>3. run.rec.skill \in {0, generated} /\ run.rec.input = 0
  BY DEF SharedInv, GenerationInv, WriteRecord
<1>4. ProposalInv'
  <2>1. \A j \in DOMAIN records' : j \in DOMAIN records \/ records'[j] = run.rec
    BY <1>2
  <2>2. \A j \in DOMAIN records' :
          /\ records'[j].skill \in {0, generated}
          /\ records'[j].input # 0 => Formed(records'[j])
          /\ generated # 0 => records'[j].input \in {0, generated}
    BY <1>2, <1>3, <2>1 DEF SharedInv, ProposalInv
  <2>3. \A r : Formed(r)' = Formed(r)
    BY DEF Formed
  <2> QED BY <1>1, <2>2, <2>3 DEF SharedInv, ProposalInv, store, proposal
<1>5. OrderInv'
  BY <1>1 DEF SharedInv, OrderInv
<1> QED BY <1>1, <1>4, <1>5, ElsewhereKept DEF SharedInv

LEMMA SharedStamped ==
    ASSUME TypeInv, SharedInv, Stamp PROVE SharedInv'
<1> USE DEF TypeInv
<1>1. /\ UNCHANGED <<store, made>> /\ generated' = generated /\ proposal' = proposal /\ generated = 0
      /\ InPhase("generation", "stamp") /\ run.i \in Nat
      /\ run'.phases = run.phases /\ run'.force = run.force /\ run'.at = run.at /\ run'.i = run.i + 1
      /\ records \in Seq(RunRecord) /\ run.i \in DOMAIN records
  BY DEF Stamp, RunTyped, registry, store, proposal, SharedInv, GenerationInv, TypeOK
<1>2. \A r \in RunRecord : LET s == Stamped(r, proposal, BundleIds)
                           IN  s.arm = r.arm /\ s.task = r.task /\ s.skill = r.skill /\ s.input = proposal
  BY DEF Stamped, RunRecord
<1>3. records' = IF Formed(records[run.i])
                 THEN [records EXCEPT ![run.i] = Stamped(records[run.i], proposal, BundleIds)] ELSE records
  BY <1>1 DEF Stamp
<1>4. /\ DOMAIN records' = DOMAIN records
      /\ \A j \in DOMAIN records :
            /\ records'[j].arm = records[j].arm /\ records'[j].task = records[j].task
            /\ records'[j].skill = records[j].skill
            /\ j # run.i => records'[j] = records[j]
            /\ records'[j].input # 0 => Formed(records[j])
            /\ j = run.i /\ Formed(records[j]) => records'[j].input = proposal
  <2>1. \A j \in DOMAIN records : records[j] \in RunRecord /\ (records[j].input # 0 => Formed(records[j]))
    BY <1>1 DEF SharedInv, ProposalInv
  <2> QED BY <1>1, <1>2, <1>3, <2>1
<1>5. ProposalInv'
  BY <1>1, <1>4 DEF SharedInv, ProposalInv, store, Formed
<1>6. OrderInv'
  BY <1>1 DEF SharedInv, OrderInv
<1>7. GenerationInv'
  <2>1. proposals # <<>>
    BY <1>1 DEF SharedInv, GenerationInv
  <2>2. \A j \in DOMAIN records : j < run.i + 1 /\ Formed(records[j]) => records'[j].input = proposal
    <3>1. \A j \in DOMAIN records : j < run.i + 1 => j < run.i \/ j = run.i
      BY <1>1
    <3>2. \A j \in DOMAIN records : j < run.i /\ Formed(records[j]) => records[j].input = proposal
      BY <1>1 DEF SharedInv, GenerationInv
    <3> QED BY <1>4, <3>1, <3>2
  <2>3. \A j \in DOMAIN records' : j < run'.i /\ Formed(records'[j]) => records'[j].input = proposal'
    BY <1>1, <1>4, <2>2 DEF Formed
  <2>4. run.at # "record" /\ ~InPhase("generation", "propose") /\ UNCHANGED proposals
    BY <1>1 DEF InPhase, store
  <2>5. run'.at # "record" /\ ~InPhase("generation", "propose")' /\ proposals' # <<>> /\ generated' = 0
    BY <1>1, <2>1, <2>4 DEF InPhase
  <2> QED BY <2>3, <2>5 DEF GenerationInv, Formed
<1> QED BY <1>5, <1>6, <1>7 DEF SharedInv

LEMMA SharedCrash ==
    ASSUME TypeInv, SharedInv, Crash PROVE SharedInv'
<1> USE DEF TypeInv
<1>1. /\ UNCHANGED <<store, made>> /\ generated' = generated
      /\ run'.phases = <<>> /\ run'.at = "start" /\ ~run'.force
  BY DEF Crash, Idle, registry, store
<1>2. /\ DOMAIN records' \subseteq DOMAIN records
      /\ \A j \in DOMAIN records' : records'[j] = records[j]
  <2>1. records' = records \/ \E n \in 0..(Len(records) - 1) : records' = SubSeq(records, 1, n)
    BY DEF Crash
  <2>2. ASSUME NEW n \in 0..(Len(records) - 1), records' = SubSeq(records, 1, n)
        PROVE  /\ DOMAIN records' \subseteq DOMAIN records
               /\ \A j \in DOMAIN records' : records'[j] = records[j]
    BY SMTT(30), <2>2, SubSeqProperties DEF TypeOK
  <2> QED BY <2>1, <2>2
<1>3. ProposalInv'
  BY <1>1, <1>2 DEF SharedInv, ProposalInv, store, proposal, Formed
<1>4. OrderInv'
  BY <1>1 DEF OrderInv, InOrder
<1> QED BY <1>1, <1>3, <1>4, ElsewhereKept DEF SharedInv

-----------------------------------------------------------------------------

LEMMA SharedFreeze ==
    ASSUME TypeInv, SharedInv, FreezeStart \/ FreezeCopy \/ FreezeRef PROVE SharedInv'
<1> USE DEF TypeInv
<1>1. /\ run.phases # <<>> /\ Head(run.phases)[1] = "b2-freeze"
      /\ UNCHANGED <<records, proposals, generated, made>>
      /\ frozenSkill' \in {0, frozenSkill, proposal} /\ skillRef' \in {skillRef, proposal}
  BY DEF FreezeStart, FreezeCopy, FreezeRef, InPhase, registry
<1>2. generated # 0 /\ generated = proposal
  BY <1>1, Generated DEF SharedInv, ProposalInv
<1>3. RunTyped' /\ Advances
  BY QuietStep DEF Quiet, Moved
<1>4. run'.at \in {"start", "copy", "ref"}
  BY AfterGoto, AfterRaise, AfterPhase
     DEF FreezeStart, FreezeCopy, FreezeRef, Raise, InPhase
<1>5. ProposalInv'
  BY <1>1, <1>2 DEF SharedInv, ProposalInv, proposal, Formed
<1>6. OrderInv'
  BY <1>1, <1>2, <1>3, OrderKept DEF SharedInv
<1> QED BY <1>1, <1>4, <1>5, <1>6, ElsewhereKept DEF SharedInv

LEMMA SharedBuild ==
    ASSUME TypeInv, SharedInv, Capabilityize PROVE SharedInv'
<1> USE DEF TypeInv
<1>1. /\ run.phases # <<>> /\ Head(run.phases)[1] = "b3-build"
      /\ UNCHANGED <<records, store>> /\ generated' = generated
      /\ \/ UNCHANGED made
         \/ \E c \in Candidate : made' = [made EXCEPT ![c] = proposal]
  BY DEF Capabilityize, InPhase, store
<1>2. generated # 0 /\ generated = proposal
  BY <1>1, Generated DEF SharedInv, ProposalInv
<1>3. RunTyped' /\ Advances
  BY QuietStep DEF Quiet, Moved
<1>4. run'.at \in {"start", "seal"}
  BY AfterRaise DEF Capabilityize, Raise, RunTyped
<1>5. ProposalInv'
  <2>1. \A c \in Candidate : made'[c] \in {0, generated}
    BY <1>1, <1>2 DEF SharedInv, ProposalInv, TypeOK
  <2> QED BY <1>1, <2>1 DEF SharedInv, ProposalInv, proposal, store, Formed
<1>6. OrderInv'
  BY <1>1, <1>2, <1>3, OrderKept DEF SharedInv
<1> QED BY <1>1, <1>4, <1>5, <1>6, ElsewhereKept DEF SharedInv

\* While there is no metadata, nothing carries a proposal.
LEMMA SharedPropose ==
    ASSUME TypeInv, SharedInv, Propose PROVE SharedInv'
<1> USE DEF TypeInv
<1>1. /\ InPhase("generation", "propose") /\ generated = 0
      /\ UNCHANGED <<records, generated, frozenSkill, skillRef, made>>
      /\ proposals \in Seq(BOOLEAN)
  BY DEF Propose, SharedInv, GenerationInv, registry, TypeOK
<1>2. \/ run'.phases = <<>>
      \/ run'.phases = run.phases /\ run'.at = "propose"
      \/ /\ run'.phases = run.phases /\ run'.at = "stamp" /\ run'.i = 1
         /\ proposals' = Append(proposals, TRUE)
  <2>1. CASE Accepted
    BY <2>1 DEF Accepted, Goto, RunTyped
  <2>2. CASE Rejected
    BY <1>1, <2>2, AfterNext, AfterRaise DEF Rejected, Raise, InPhase
  <2>3. CASE NoProposal
    BY <2>3, AfterRaise DEF NoProposal, Raise
  <2> QED BY <2>1, <2>2, <2>3 DEF Propose
<1>3. RunTyped' /\ Advances
  BY QuietStep DEF Quiet, Moved
<1>4. ProposalInv'
  BY <1>1 DEF SharedInv, ProposalInv, Formed
<1>5. OrderInv'
  BY <1>1, <1>2, <1>3, OrderKept DEF SharedInv
<1>6. GenerationInv'
  <2>1. CASE run'.phases = <<>>
    BY <1>1, <1>3, <2>1, QuietStep DEF GenerationInv, InPhase, Quiet, Moved
  <2>2. CASE run'.phases = run.phases /\ run'.at = "propose"
    BY <1>1, <2>2 DEF GenerationInv, InPhase
  <2>3. CASE /\ run'.phases = run.phases /\ run'.at = "stamp" /\ run'.i = 1
             /\ proposals' = Append(proposals, TRUE)
    <3>1. proposals' # <<>>
      <4>1. Len(proposals') = Len(proposals) + 1 /\ Len(proposals) \in Nat
        BY <1>1, <2>3, AppendProperties
      <4> QED BY <4>1
    <3>2. \A j \in DOMAIN records : ~(j < 1)
      BY DEF TypeOK
    <3> QED BY <1>1, <2>3, <3>1, <3>2 DEF GenerationInv, InPhase
  <2> QED BY <1>2, <2>1, <2>2, <2>3
<1> QED BY <1>4, <1>5, <1>6 DEF SharedInv

\* All formation records are stamped when the metadata is written.
LEMMA SharedMeta ==
    ASSUME TypeInv, SharedInv, WriteMeta PROVE SharedInv'
<1> USE DEF TypeInv
<1>1. /\ InPhase("generation", "stamp") /\ generated = 0 /\ proposals # <<>>
      /\ UNCHANGED <<records, proposals, frozenSkill, skillRef, made>>
      /\ generated' = proposal /\ PhaseDone
      /\ \A j \in DOMAIN records : Formed(records[j]) => records[j].input = proposal
  <2>1. \A j \in DOMAIN records : j < run.i
    BY DEF WriteMeta, RunTyped, TypeOK
  <2> QED BY <2>1 DEF WriteMeta, SharedInv, GenerationInv, registry
<1>2. proposal \in Nat /\ proposal # 0
  BY <1>1 DEF proposal, TypeOK
<1>3. ProposalInv'
  BY <1>1, <1>2 DEF SharedInv, ProposalInv, proposal, Formed
<1>4. RunTyped' /\ run'.at = "start" /\ Advances
  BY <1>1, AfterPhase DEF InPhase, Advances
<1>5. OrderInv'
  BY <1>1, <1>2, <1>4, OrderKept DEF SharedInv
<1> QED BY <1>3, <1>4, <1>5 DEF SharedInv, GenerationInv, InPhase

LEMMA SharedQuiet ==
    ASSUME TypeInv, SharedInv, Quiet,
           ~( \/ FreezeStart \/ FreezeCopy \/ FreezeRef \/ Capabilityize \/ Propose \/ WriteMeta)
    PROVE  SharedInv'
<1> USE DEF TypeInv
<1>1. /\ RunTyped' /\ Advances /\ run'.at # "record"
      /\ UNCHANGED <<records, store, made>> /\ generated' = generated
  BY QuietStep DEF Moved, Quiet, TasksDone, Unreadable, NoSkill, Skip, GenerationStart, BuildSkipped,
     Seal, Validate, Evaluate, Reject, Retire, CostStart, Price, WriteGate, registry, store
<1>2. CASE GenerationStart
  <2>1. \/ PhaseDone /\ generated # 0 /\ run'.at = "start"
        \/ run'.phases = <<>>
        \/ run'.phases = run.phases /\ run'.at = "propose" /\ generated = 0
    <3>1. ~run.force /\ run.phases # <<>>
      BY <1>2, GenerationNotForced DEF GenerationStart, InPhase, SharedInv
    <3> QED BY <1>2, <3>1, AfterGoto, AfterRaise, AfterPhase DEF GenerationStart, Raise
  <2>2. OrderInv'
    BY <1>1, <2>1, OrderKept DEF SharedInv
  <2>3. GenerationInv'
    BY <1>1, <2>1 DEF GenerationInv, InPhase
  <2> QED BY <1>1, <2>2, <2>3, ProposalKept DEF SharedInv
<1>3. CASE ~GenerationStart
  <2>1. \/ run'.phases = <<>>
        \/ Head(run.phases)[1] # "generation" /\ run.at \notin {"propose", "stamp"}
    <3>1. CASE TasksDone \/ Unreadable \/ NoSkill \/ CostStart \/ Price \/ WriteGate
      BY <3>1, AfterRaise DEF Raise, TasksDone, Unreadable, NoSkill, CostStart, Price, WriteGate, InPhase
    <3>2. CASE Skip("formation", TRUE) \/ Skip("future", FALSE)
      BY <3>2 DEF Skip, InPhase
    <3>3. CASE BuildSkipped \/ Seal \/ Validate \/ Evaluate \/ Reject \/ Retire
      BY <3>3 DEF BuildSkipped, Seal, Validate, Evaluate, Reject, Retire, InPhase
    <3> QED BY <1>3, <3>1, <3>2, <3>3 DEF Quiet
  <2>2. run'.phases = <<>> \/ run'.at \notin {"propose", "stamp"}
    <3>1. CASE TasksDone \/ Unreadable \/ NoSkill \/ CostStart \/ WriteGate
      BY <3>1, AfterRaise, AfterGoto, AfterPhase
         DEF Raise, TasksDone, Unreadable, NoSkill, CostStart, WriteGate, InPhase
    <3>2. CASE Skip("formation", TRUE) \/ Skip("future", FALSE) \/ Price
      BY <3>2, AfterNext DEF Skip, Price, InPhase
    <3>3. CASE BuildSkipped \/ Seal \/ Validate
      BY <3>3, AfterRaise, AfterGoto, AfterPhase DEF Raise, BuildSkipped, Seal, Validate, InPhase
    <3>4. CASE Evaluate \/ Reject \/ Retire
      BY <3>4, AfterRaise, AfterGoto DEF Raise, Evaluate, Reject, Retire, InPhase
    <3> QED BY <1>3, <3>1, <3>2, <3>3, <3>4 DEF Quiet
  <2>3. OrderInv'
    BY <1>1, <2>1, OrderKept DEF SharedInv
  <2> QED BY <1>1, <2>2, <2>3, ProposalKept, ElsewhereKept DEF SharedInv
<1> QED BY <1>2, <1>3

LEMMA SharedInit == Init => SharedInv
<1> SUFFICES ASSUME Init PROVE SharedInv
  OBVIOUS
<1>1. /\ run.phases = <<>> /\ run.force = FALSE /\ run.at = "start"
      /\ made = [c \in Candidate |-> 0]
  BY DEF Init, Idle
<1>2. CASE Fresh
  BY <1>1, <1>2 DEF Fresh, SharedInv, OrderInv, InOrder, ProposalInv, GenerationInv, InPhase
<1>3. CASE LeftByPhase8
  <2>1. generated = 1 /\ proposal = 1 /\ frozenSkill = 1 /\ skillRef = 1
    BY <1>3 DEF LeftByPhase8, proposal
  <2>2. \A j \in DOMAIN records : records[j] \in Phase8Record
    BY <1>3, Phase8Typed
  <2>3. \A r \in Phase8Record : Formed(r) /\ r.skill = 0 /\ r.input = 1
    BY DEF Phase8Record, Formed
  <2>4. ProposalInv
    BY <1>1, <2>1, <2>2, <2>3 DEF ProposalInv
  <2> QED BY <1>1, <2>1, <2>4 DEF SharedInv, OrderInv, InOrder, GenerationInv, InPhase
<1> QED BY <1>2, <1>3 DEF Init

LEMMA SharedStep ==
    ASSUME OperatorTyped, OperatorInOrder, TypeInv, SharedInv, [Next]_vars PROVE SharedInv'
<1>1. CASE UNCHANGED vars
  BY <1>1 DEF vars, store, registry, SharedInv, OrderInv, InOrder, ProposalInv, GenerationInv,
              InPhase, proposal, Formed
<1>2. CASE Quiet
  BY <1>2, SharedFreeze, SharedBuild, SharedPropose, SharedMeta, SharedQuiet
<1> QED BY <1>1, <1>2, StepKinds, SharedBegin, SharedRunner, SharedPublishing, SharedWritten,
           SharedStamped, SharedCrash DEF Next, Publishing

\* When generation is not forced and comes before what uses it, the frozen skill of arm
\* b2, the candidates of arm b3 and the formation records carry the proposal of
\* generation_meta.json, wherever commands fail or die in between.
THEOREM ProposalShared ==
    ASSUME OperatorTyped, OperatorInOrder PROVE Spec => []SharedProposal
<1>1. TypeInv /\ SharedInv /\ [Next]_vars => TypeInv' /\ SharedInv'
  BY OperatorTyped, OperatorInOrder, TypeStep, SharedStep
<1> QED BY <1>1, SharedImplies, TypeInit, SharedInit, PTL DEF Spec

-----------------------------------------------------------------------------
(* What the gate's counts and comparisons amount to.                       *)

\* Whatever names the bundles it was made from names its proposal too.
StampInv ==
    /\ \A j \in DOMAIN records : records[j].inputs # {} => records[j].input # 0
    /\ run.at = "record" => run.rec.inputs = {}

LEMMA StampRecorded ==
    ASSUME TypeInv, StampInv, WriteRecord PROVE StampInv'
<1> USE DEF TypeInv
<1>1. /\ DOMAIN records' = 1..(Len(records) + 1) /\ Len(records) \in Nat
      /\ DOMAIN records = 1..Len(records)
      /\ \A j \in DOMAIN records : records'[j] = records[j]
      /\ records'[Len(records) + 1] = run.rec
  BY AppendProperties DEF WriteRecord, TypeOK
<1>2. \A j \in DOMAIN records' : j \in DOMAIN records \/ records'[j] = run.rec
  BY <1>1
<1>3. run.rec.inputs = {} /\ run'.at # "record"
  BY RecordingStep DEF StampInv, WriteRecord
<1> QED BY <1>1, <1>2, <1>3 DEF StampInv

LEMMA StampStamped ==
    ASSUME TypeInv, SharedInv, StampInv, Stamp PROVE StampInv'
<1> USE DEF TypeInv
<1>1. records \in Seq(RunRecord) /\ run.i \in DOMAIN records
  BY DEF Stamp, RunTyped, TypeOK
<1>2. proposal # 0
  <2>1. proposals # <<>> /\ proposals \in Seq(BOOLEAN)
    BY DEF SharedInv, GenerationInv, Stamp, TypeOK
  <2> QED BY <2>1 DEF proposal
<1>3. \A r \in RunRecord : Stamped(r, proposal, BundleIds).input = proposal
  BY DEF Stamped, RunRecord
<1>4. records' \in {records, [records EXCEPT ![run.i] = Stamped(records[run.i], proposal, BundleIds)]}
  BY <1>1 DEF Stamp
<1>5. \A j \in DOMAIN records' : j \in DOMAIN records /\ (records'[j] = records[j] \/ records'[j].input = proposal)
  BY <1>1, <1>3, <1>4
<1>6. run'.at # "record"
  BY RecordingStep
<1> QED BY <1>2, <1>5, <1>6 DEF StampInv

LEMMA StampRunner ==
    ASSUME TypeInv, StampInv, FormationRun \/ FutureRun \/ FutureB3 PROVE StampInv'
<1> USE DEF TypeInv
<1>1. UNCHANGED records
  BY RunnerStep, PublishingStep DEF Publishing
<1>2. \/ Raise
      \/ run' = [run EXCEPT !.i = @ + 1] /\ run.at = "start"
      \/ \E arm, task, v, bundle, skill : Ran(Record(arm, task, v, bundle, skill))
  BY DEF FormationRun, FutureRun, FutureB3, InPhase
<1>3. \A arm, task, v, bundle, skill : Record(arm, task, v, bundle, skill).inputs = {}
  BY DEF Record
<1>4. run'.at = "record" => run'.rec.inputs = {}
  BY <1>2, <1>3, AfterRan, AfterRaise, AfterNext DEF Raise
<1> QED BY <1>1, <1>4 DEF StampInv

LEMMA StampCrash ==
    ASSUME TypeInv, StampInv, Crash PROVE StampInv'
<1> USE DEF TypeInv
<1>1. records' = records \/ \E n \in 0..(Len(records) - 1) : records' = SubSeq(records, 1, n)
  BY DEF Crash
<1>2. ASSUME NEW n \in 0..(Len(records) - 1), records' = SubSeq(records, 1, n)
      PROVE  /\ DOMAIN records' \subseteq DOMAIN records
             /\ \A j \in DOMAIN records' : records'[j] = records[j]
  BY <1>2, SubSeqProperties DEF TypeOK
<1>3. run'.at # "record"
  BY DEF Crash, Idle
<1> QED BY <1>1, <1>2, <1>3 DEF StampInv

LEMMA StampInit == Init => StampInv
<1> SUFFICES ASSUME Init PROVE StampInv
  OBVIOUS
<1>1. run.at = "start"
  BY DEF Init, Idle
<1>2. CASE Fresh
  BY <1>1, <1>2 DEF Fresh, StampInv
<1>3. CASE LeftByPhase8
  <2>1. \A j \in DOMAIN records : records[j] \in Phase8Record
    BY <1>3, Phase8Typed
  <2>2. \A r \in Phase8Record : r.input = 1
    BY DEF Phase8Record
  <2> QED BY <1>1, <2>1, <2>2 DEF StampInv
<1> QED BY <1>2, <1>3 DEF Init

LEMMA StampStep ==
    ASSUME OperatorTyped, TypeInv, SharedInv, StampInv, [Next]_vars PROVE StampInv'
<1> USE DEF TypeInv
<1>1. ASSUME NEW c \in Commands, Begin(c) PROVE StampInv'
  BY <1>1, BeginStep DEF StampInv, Begin
<1>2. CASE Quiet
  BY <1>2, QuietStep DEF Moved, StampInv
<1>3. CASE Promote \/ MarkPromoted \/ WriteCache
  <2>1. UNCHANGED records
    BY <1>3, PublishingStep DEF Publishing
  <2>2. run'.at # "record"
    BY <1>3, AfterGoto, AfterRaise, AfterPhase
       DEF Promote, MarkPromoted, WriteCache, Raise, InPhase
  <2> QED BY <2>1, <2>2 DEF StampInv
<1>4. CASE UNCHANGED vars
  BY <1>4 DEF vars, StampInv
<1> QED BY <1>1, <1>2, <1>3, <1>4, StepKinds, StampRunner, StampRecorded, StampStamped, StampCrash
        DEF Next, Publishing

\* As many runs as there are tasks and arms, none of them twice, are one for each.
LEMMA RunsAndTasks ==
    LET Due == {"b2", "b3"} \X Range(FormationTasks)
    IN  IsFiniteSet(Due) /\ Cardinality(Due) = Needed
<1> DEFINE N == Len(FormationTasks)
           T == Range(FormationTasks)
<1>1. /\ N \in Nat /\ DOMAIN FormationTasks = 1..N
      /\ FormationTasks \in [1..N -> T]
      /\ \A t \in T : \E i \in 1..N : FormationTasks[i] = t
      /\ \A i, j \in 1..N : FormationTasks[i] = FormationTasks[j] => i = j
  <2>1. FormationTasks \in Seq(T) /\ N \in Nat /\ DOMAIN FormationTasks = 1..N
    BY PilotAssumption
  <2>2. FormationTasks \in [1..N -> T]
    BY <2>1
  <2>3. \A t \in T : \E i \in 1..N : FormationTasks[i] = t
    BY <2>1 DEF Range
  <2> QED BY <2>1, <2>2, <2>3, PilotAssumption
<1> HIDE DEF N, T
<1>2. FormationTasks \in Bijection(1..N, T)
  BY <1>1 DEF Bijection, Injection, Surjection, IsInjective
<1>3. IsFiniteSet(1..N) /\ Cardinality(1..N) = N
  BY <1>1, FS_Interval
<1>4. ExistsBijection(1..N, T)
  BY <1>2 DEF ExistsBijection
<1>5. IsFiniteSet(T) /\ Cardinality(T) = N
  BY <1>3, <1>4, FS_Bijection
<1>6. IsFiniteSet({"b2", "b3"}) /\ Cardinality({"b2", "b3"}) = 2
  <2>1. IsFiniteSet({"b2"}) /\ Cardinality({"b2"}) = 1
    BY FS_Singleton
  <2>2. {"b2"} \cup {"b3"} = {"b2", "b3"} /\ "b3" \notin {"b2"}
    OBVIOUS
  <2>3. /\ IsFiniteSet({"b2"} \cup {"b3"})
        /\ Cardinality({"b2"} \cup {"b3"}) = IF "b3" \in {"b2"} THEN Cardinality({"b2"})
                                             ELSE Cardinality({"b2"}) + 1
    BY <2>1, FS_AddElement
  <2> QED BY <2>1, <2>2, <2>3
<1>7. /\ IsFiniteSet({"b2", "b3"} \X T)
      /\ Cardinality({"b2", "b3"} \X T) = Cardinality({"b2", "b3"}) * Cardinality(T)
  BY <1>5, <1>6, FS_Product
<1> QED BY <1>5, <1>6, <1>7 DEF Needed, N, T

LEMMA OneBundledRun ==
    ASSUME TypeInv, OneRunPerTask, Cardinality(Formation) = Needed, Cardinality(Bundles) = Needed
    PROVE  /\ Bundles = Formation
           /\ \A arm \in {"b2", "b3"}, t \in Range(FormationTasks) :
                 Cardinality({i \in DOMAIN records : records[i].arm = arm /\ records[i].task = t}) = 1
<1> DEFINE Due == {"b2", "b3"} \X Range(FormationTasks)
           key == [i \in Formation |-> <<records[i].arm, records[i].task>>]
<1>1. IsFiniteSet(Formation)
  <2>1. records \in Seq(RunRecord) /\ Len(records) \in Nat /\ DOMAIN records = 1..Len(records)
    BY DEF TypeInv, TypeOK
  <2>2. IsFiniteSet(DOMAIN records)
    BY <2>1, FS_Interval
  <2> QED BY <2>2, FS_Subset DEF Formation
<1>2. Bundles \in SUBSET Formation
  BY DEF Bundles
<1>3. Bundles = Formation
  BY <1>1, <1>2, FS_Subset
<1>4. key \in [Formation -> Due]
  BY DEF Formation, Formed
<1>5. \A i, j \in Formation : key[i] = key[j] => i = j
  <2> SUFFICES ASSUME NEW i \in Formation, NEW j \in Formation, key[i] = key[j], i # j PROVE FALSE
    OBVIOUS
  <2>1. records[i].arm = records[j].arm /\ records[i].task = records[j].task
    BY DEF key
  <2>2. records[i].bundle # 0 /\ records[j].bundle # 0
    BY <1>3 DEF Bundles
  <2> QED BY <2>1, <2>2 DEF OneRunPerTask, Formation
<1> HIDE DEF key
<1>6. key \in Injection(Formation, Due)
  BY <1>4, <1>5 DEF Injection, IsInjective
<1>7. IsFiniteSet(Due) /\ Cardinality(Due) = Needed
  BY RunsAndTasks
<1> HIDE DEF Due
<1>8. key \in Surjection(Formation, Due)
  <2>1. Cardinality(Formation) = Cardinality(Due) <=> key \in Surjection(Formation, Due)
    BY <1>6, <1>7, FS_Injection
  <2> QED BY <1>7, <2>1
<1>9. ASSUME NEW arm \in {"b2", "b3"}, NEW t \in Range(FormationTasks)
      PROVE  Cardinality({i \in DOMAIN records : records[i].arm = arm /\ records[i].task = t}) = 1
  <2>1. <<arm, t>> \in Due
    BY DEF Due
  <2>2. PICK i \in Formation : key[i] = <<arm, t>>
    BY <1>8, <2>1 DEF Surjection
  <2>3. \A j \in DOMAIN records : records[j].arm = arm /\ records[j].task = t
          => j \in Formation /\ key[j] = <<arm, t>>
    BY DEF Formation, Formed, key
  <2>4. i \in DOMAIN records /\ records[i].arm = arm /\ records[i].task = t
    BY <2>2 DEF Formation, key
  <2>5. {j \in DOMAIN records : records[j].arm = arm /\ records[j].task = t} = {i}
    BY <1>5, <2>2, <2>3, <2>4
  <2> QED BY <2>5, FS_Singleton
<1> QED BY <1>3, <1>9

LEMMA StampsNameTheSkill ==
    ASSUME TypeInv, SharedInv, StampInv, GatePasses, Bundles = Formation
    PROVE  \A i \in Formation : records[i].input = skillRef /\ records[i].bundle # 0
<1>1. Formation # {}
  <2>1. Formation = {} => {records[i].input : i \in Formation} = {}
    OBVIOUS
  <2>2. Cardinality({records[i].input : i \in Formation}) = 1
    BY DEF GatePasses
  <2> QED BY <2>1, <2>2, FS_EmptySet
<1>2. BundleIds # {}
  BY <1>1 DEF BundleIds
<1>3. \A i \in Formation : records[i].inputs = BundleIds
  BY DEF GatePasses
<1>4. skillRef # 0 /\ skillRef = generated
  BY DEF GatePasses, SharedInv, ProposalInv
<1>5. ASSUME NEW i \in Formation
      PROVE  records[i].input = skillRef /\ records[i].bundle # 0
  <2>1. records[i].input # 0
    BY <1>2, <1>3 DEF StampInv, Formation
  <2>2. records[i].input \in {0, generated}
    BY <1>4 DEF SharedInv, ProposalInv, Formation
  <2>3. i \in Bundles
    OBVIOUS
  <2> QED BY <1>4, <2>1, <2>2, <2>3 DEF Bundles
<1> QED BY <1>5

LEMMA GateWritten ==
    ASSUME TypeInv, OnceInv, SharedInv, StampInv, WriteGate, gate' = "PASS"
    PROVE  /\ \A arm \in {"b2", "b3"}, t \in Range(FormationTasks) :
                 Cardinality({i \in DOMAIN records' : records'[i].arm = arm /\ records'[i].task = t}) = 1
           /\ \A i \in Formation' : records'[i].input = skillRef' /\ records'[i].bundle # 0
<1>1. GatePasses /\ UNCHANGED <<records, skillRef>>
  BY DEF WriteGate, store
<1>2. Formation' = Formation
  BY <1>1 DEF Formation, Formed
<1>3. Cardinality(Formation) = Needed /\ Cardinality(Bundles) = Needed /\ OneRunPerTask
  BY <1>1 DEF GatePasses, OnceInv
<1> QED BY <1>1, <1>2, <1>3, OneBundledRun, StampsNameTheSkill

LEMMA OnlyWriteGate ==
    ASSUME [Next]_vars, gate' # gate PROVE WriteGate
<1>1. CASE Step
  BY <1>1 DEF Step, Skip, FormationRun, WriteRecord, TasksDone, Unreadable, FutureRun, FutureB3, NoSkill,
     GenerationStart, Propose, Stamp, WriteMeta, FreezeStart, FreezeCopy, FreezeRef, BuildSkipped,
     Capabilityize, Seal, Validate, Evaluate, Reject, Retire, Promote, MarkPromoted, WriteCache,
     CostStart, Price
<1> QED BY <1>1 DEF Next, Begin, Crash, vars

\* The gate is only passed over one bundled run of every formation task by every arm,
\* stamped with the proposal of the frozen skill: the counts of _gate_report amount to
\* that because runs are not repeated, and its comparison of bundle ids because whatever
\* has them was stamped with the proposal, also after update_record was cut short.
THEOREM GatePassesFairly ==
    ASSUME OperatorTyped, OperatorInOrder, RunsNotForced PROVE Spec => GateIsFair
<1> DEFINE I == TypeInv /\ OnceInv /\ SharedInv /\ StampInv
           Fair == gate' = "PASS" =>
               /\ \A arm \in {"b2", "b3"}, t \in Range(FormationTasks) :
                     Cardinality({i \in DOMAIN records' : records'[i].arm = arm /\ records'[i].task = t}) = 1
               /\ \A i \in Formation' : records'[i].input = skillRef' /\ records'[i].bundle # 0
<1>1. Init => I
  BY TypeInit, OnceInit, SharedInit, StampInit
<1>2. I /\ [Next]_vars => I'
  BY OperatorTyped, OperatorInOrder, RunsNotForced, TypeStep, OnceStep, SharedStep, StampStep
<1>3. I /\ [Next]_vars => [Fair]_gate
  BY OnlyWriteGate, GateWritten
<1> QED BY <1>1, <1>2, <1>3, PTL DEF Spec, GateIsFair
=============================================================================
