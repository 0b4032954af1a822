--------------------------- MODULE PilotPipeline ---------------------------
(***************************************************************************)
(* The rehearsal of src/pilot/harness.py: an operator starts a command, the *)
(* command runs its phases one after the other, and every phase leaves      *)
(* files in the state directory by which a later command knows what is      *)
(* already done.  One action is one codex run, one sandbox verdict or one   *)
(* file written, so that a crash falls between any two; a crash inside      *)
(* update_record leaves what a truncated rewrite leaves.  A phase that      *)
(* raises ends the command.                                                 *)
(***************************************************************************)
EXTENDS Naturals, Sequences, FiniteSets, SequencesExt

CONSTANTS
    FormationTasks, FutureTasks,  \* the family's tasks, in the manifest's order
    Commands,                     \* [phases: Seq(Phase), force: BOOLEAN]: what the operator types
    Candidate,                    \* the ids capabilityize may draw
    MaxRetries,                   \* rejected proposals generation asks again for: 2 in the code
    MaxFailures, MaxCrashes,      \* bounds of the environment
    None, Legacy                  \* no candidate; the one promoted by the Phase 8 code

ASSUME PilotAssumption ==
    /\ MaxRetries \in Nat /\ MaxFailures \in Nat /\ MaxCrashes \in Nat
    /\ {None, Legacy} \cap Candidate = {} /\ None # Legacy
    /\ FormationTasks \in Seq(Range(FormationTasks)) /\ FutureTasks \in Seq(Range(FutureTasks))
    /\ \A i, j \in DOMAIN FormationTasks : FormationTasks[i] = FormationTasks[j] => i = j

VARIABLES
    records,     \* run_records.jsonl: a bundle id (0 for none); the proposal and the
                 \* bundles that generation stamped on it; the skill a b2 run mounted
    torn,        \* its last line is half written: load_records raises
    proposals,   \* every llm_proposal.json so far, TRUE for one that passes the scan
    generated,   \* generation_meta.json: the proposal it names, 0 without the file
    frozenSkill, \* the proposal whose skill lies in skills/frozen, 0 while there is none
    skillRef,    \* skill_ref.json: its proposal, 0 without the file
    made,        \* [Candidate -> proposal it was built from, 0 if never built]
    built,       \* the candidate in candidates/F+/<name>
    flat,        \* registry F+/<name>.json: "none", "promoted" (Phase 8) or "rejected"
    entry,       \* registry F+/<name>/versions/v1.json
    request,     \* adoption_store.json "run_request"
    cache,       \* b3_entry.json
    gate,        \* fplus_rehearsal_gate.json
    run,         \* the command being executed and its locals
    env          \* failures and crashes so far, and bundles sealed

store == <<proposals, generated, frozenSkill, skillRef>>
registry == <<made, built, flat, entry, request, cache>>
vars == <<records, torn, store, registry, gate, run, env>>

\* A command of one phase names its arm; only these two phases have one.
Phase == ({"formation"} \X {"b2", "b3"}) \cup ({"future"} \X {"b0", "b2", "b3"})
         \cup ({"generation", "b2-freeze", "b3-build", "cost"} \X {"-"})

proposal == Len(proposals)   \* what llm_proposal.json holds

Record(arm, task, verdict, bundle, skill) ==
    [arm |-> arm, task |-> task, verdict |-> verdict, bundle |-> bundle,
     input |-> 0, inputs |-> {}, skill |-> skill]

Idle == [phases |-> <<>>, force |-> FALSE, at |-> "start", i |-> 1, rec |-> None, cand |-> None]
InPhase(name, at) == run.phases # <<>> /\ Head(run.phases)[1] = name /\ run.at = at
Arm == Head(run.phases)[2]
Raise == run' = Idle
PhaseDone == run' = IF Len(run.phases) = 1 THEN Idle
                    ELSE [run EXCEPT !.phases = Tail(@), !.at = "start", !.i = 1]
Goto(at) == run' = [run EXCEPT !.at = at, !.i = 1]

\* Something outside fails: codex, docker, the adapter, the oracle.
Fails == env.failures < MaxFailures /\ env' = [env EXCEPT !.failures = @ + 1]

Formed(r) == r.arm \in {"b2", "b3"} /\ r.task \in Range(FormationTasks)
\* The lines of the file that hold a formation record, and those with a bundle.
Formation == {i \in DOMAIN records : Formed(records[i])}
Bundles == {i \in Formation : records[i].bundle # 0}
BundleIds == {records[i].bundle : i \in Bundles}
Needed == 2 * Len(FormationTasks)
Discovered == flat = "promoted"   \* discover looks at F+/<name>.json only

Fresh ==
    /\ records = <<>> /\ proposals = <<>> /\ generated = 0 /\ frozenSkill = 0 /\ skillRef = 0
    /\ flat = "none" /\ cache = None

Stamped(r, p, bundles) == [r EXCEPT !.input = p, !.inputs = bundles]

Phase8Runs(arm, first) ==
    [i \in 1..Len(FormationTasks) |->
        Stamped(Record(arm, FormationTasks[i], "PASS", first + i, 0), 1, 1..Needed)]

\* What the Phase 8 code leaves: a complete build with its flat registry entry.
LeftByPhase8 ==
    /\ records = Phase8Runs("b2", 0) \o Phase8Runs("b3", Len(FormationTasks))
    /\ proposals = <<TRUE>> /\ generated = 1 /\ frozenSkill = 1 /\ skillRef = 1
    /\ flat = "promoted" /\ cache = Legacy

Init ==
    /\ Fresh \/ LeftByPhase8
    /\ torn = FALSE /\ made = [c \in Candidate |-> 0] /\ built = None
    /\ entry = None /\ request = None /\ gate = "none" /\ run = Idle
    /\ env = [failures |-> 0, crashes |-> 0, bundles |-> Len(records)]

\* What an operator may be held to: a command has phases, and --force or not;
OperatorTyped == \A c \in Commands : c.phases \in Seq(Phase) /\ c.force \in BOOLEAN

\* the frozen skill and the candidate come after the generation, which is not forced;
OperatorInOrder ==
    \A c \in Commands : \A j \in DOMAIN c.phases :
        /\ c.force => c.phases[j][1] # "generation"
        /\ ~c.force /\ c.phases[j][1] \in {"b2-freeze", "b3-build"}
              => \E k \in 1..(j - 1) : c.phases[k][1] = "generation"

\* a run that is on record is not forced again.
RunsNotForced ==
    \A c \in Commands : c.force =>
        \A j \in DOMAIN c.phases : c.phases[j][1] \notin {"formation", "future"}

\* The ids bound the builds: a command that may build begins while one is left.
\* The operator forces again what was done before: nothing in the code stops a
\* freeze or a build of a proposal that generation has not accepted.
Begin(c) ==
    /\ run.phases = <<>> /\ (c.force => generated # 0)
    /\ <<"b3-build", "-">> \in Range(c.phases) => \E x \in Candidate : made[x] = 0
    /\ run' = [Idle EXCEPT !.phases = c.phases, !.force = c.force]
    /\ UNCHANGED <<records, torn, store, registry, gate, env>>

(* ------------------------ formation and future runs --------------------- *)

Tasks == IF Head(run.phases)[1] = "formation" THEN FormationTasks ELSE FutureTasks
Task == Tasks[run.i]
\* Mutant: only a run that passed counts as done.
ExistsPassed(needsBundle) ==
    \E r \in Range(records) : r.arm = Arm /\ r.task = Task /\ r.verdict = "PASS"

\* formation asks for a record with a bundle, future for any record.
Exists(needsBundle) ==
    \E r \in Range(records) : r.arm = Arm /\ r.task = Task /\ (needsBundle => r.bundle # 0)

Skip(name, needsBundle) ==
    /\ InPhase(name, "start") /\ (name = "future" => Arm # "b3")
    /\ ~torn /\ run.i <= Len(Tasks) /\ Exists(needsBundle) /\ ~run.force
    /\ run' = [run EXCEPT !.i = @ + 1]
    /\ UNCHANGED <<records, torn, store, registry, gate, env>>

Ran(rec) == run' = [run EXCEPT !.at = "record", !.rec = rec]

FormationRun ==
    /\ InPhase("formation", "start") /\ ~torn /\ run.i <= Len(Tasks) /\ (Exists(TRUE) => run.force)
    /\ \/ /\ \E v \in {"PASS", "FAIL"} : Ran(Record(Arm, Task, v, env.bundles + 1, 0))
          /\ env' = [env EXCEPT !.bundles = @ + 1]
       \/ Ran(Record(Arm, Task, "ERROR", 0, 0)) /\ Fails        \* codex exit # 0
       \/ Raise /\ Fails                                        \* oracle or adapter raised
    /\ UNCHANGED <<records, torn, store, registry, gate>>

\* The b2 run mounts what lies in skills/frozen, whatever skill_ref.json says.
FutureRun ==
    /\ InPhase("future", "start") /\ Arm \in {"b0", "b2"} /\ ~torn /\ run.i <= Len(Tasks)
    /\ Arm = "b2" => skillRef # 0
    /\ Exists(FALSE) => run.force
    /\ LET mounted == IF Arm = "b2" THEN frozenSkill ELSE 0
       IN \/ \E v \in {"PASS", "FAIL"} : Ran(Record(Arm, Task, v, 0, mounted)) /\ UNCHANGED env
          \/ Ran(Record(Arm, Task, "ERROR", 0, mounted)) /\ Fails
          \/ Raise /\ Fails
    /\ UNCHANGED <<records, torn, store, registry, gate>>

\* The b3 arm asks discover for the entry first; with an anchored run request it
\* then needs an entry with a frozen root, which the flat entries do not have.
FutureB3 ==
    /\ InPhase("future", "start") /\ Arm = "b3" /\ run.i <= Len(Tasks)
    /\ cache' = IF request # None /\ cache = None THEN request ELSE cache
    /\ IF request = None /\ cache # None /\ Discovered /\ ~torn
       THEN IF Exists(FALSE) /\ ~run.force
            THEN run' = [run EXCEPT !.i = @ + 1] /\ UNCHANGED env
            ELSE \/ \E v \in {"PASS", "FAIL"} : Ran(Record(Arm, Task, v, 0, 0)) /\ UNCHANGED env
                 \/ Raise /\ Fails                              \* blocked at adopt or at the mount
       ELSE Raise /\ UNCHANGED env
    /\ UNCHANGED <<records, torn, store, made, built, flat, entry, request, gate>>

NoSkill ==
    /\ InPhase("future", "start") /\ Arm = "b2" /\ skillRef = 0
    /\ Raise /\ UNCHANGED <<records, torn, store, registry, gate, env>>

WriteRecord ==
    /\ run.phases # <<>> /\ run.at = "record"
    /\ records' = Append(records, run.rec)
    /\ run' = [run EXCEPT !.at = "start", !.i = @ + 1, !.rec = None]
    /\ UNCHANGED <<torn, store, registry, gate, env>>

TasksDone ==
    /\ run.phases # <<>> /\ Head(run.phases)[1] \in {"formation", "future"} /\ run.at = "start"
    /\ run.i > Len(Tasks) /\ ~torn
    /\ PhaseDone /\ UNCHANGED <<records, torn, store, registry, gate, env>>

\* Mutant: the cost report waits for a readable file.
UnreadableWaits ==
    /\ torn /\ run.phases # <<>> /\ run.at = "start"
    /\ Head(run.phases)[1] \in {"formation", "future"} /\ Head(run.phases) # <<"future", "b3">>
    /\ Raise /\ UNCHANGED <<records, torn, store, registry, gate, env>>

\* load_records raises on the half line a crash left.
Unreadable ==
    /\ torn /\ run.phases # <<>> /\ run.at = "start"
    /\ Head(run.phases)[1] \in {"formation", "future", "cost"} /\ Head(run.phases) # <<"future", "b3">>
    /\ Raise /\ UNCHANGED <<records, torn, store, registry, gate, env>>

(* ------------------------------- generation ----------------------------- *)

\* Mutant: the metadata of an earlier generation is not looked for.
GenerationAgain ==
    /\ InPhase("generation", "start")
    /\ IF torn \/ Cardinality(Bundles) < Needed THEN Raise ELSE Goto("propose")
    /\ UNCHANGED <<records, torn, store, registry, gate, env>>

GenerationStart ==
    /\ InPhase("generation", "start")
    /\ IF generated # 0 /\ ~run.force THEN PhaseDone
       ELSE IF torn \/ Cardinality(Bundles) < Needed THEN Raise ELSE Goto("propose")
    /\ UNCHANGED <<records, torn, store, registry, gate, env>>

Accepted ==
    /\ proposals' = Append(proposals, TRUE) /\ UNCHANGED env
    /\ Goto("stamp")

\* Task-private references: asked again, with the hits, until the retries are used up.
Rejected ==
    /\ proposals' = Append(proposals, FALSE) /\ Fails
    /\ IF run.i > MaxRetries THEN Raise ELSE run' = [run EXCEPT !.i = @ + 1]

\* codex failed; or the answer, already written to llm_proposal.json, is malformed.
NoProposal == Raise /\ Fails /\ proposals' \in {proposals, Append(proposals, FALSE)}

Propose ==
    /\ InPhase("generation", "propose")
    /\ Accepted \/ Rejected \/ NoProposal
    /\ UNCHANGED <<records, torn, generated, frozenSkill, skillRef, registry, gate>>

\* update_record for one formation record after the other.
Stamp ==
    /\ InPhase("generation", "stamp") /\ run.i <= Len(records)
    /\ records' = IF Formed(records[run.i])
                  THEN [records EXCEPT ![run.i] = Stamped(@, proposal, BundleIds)]
                  ELSE records
    /\ run' = [run EXCEPT !.i = @ + 1]
    /\ UNCHANGED <<torn, store, registry, gate, env>>

WriteMeta ==
    /\ InPhase("generation", "stamp") /\ run.i > Len(records)
    /\ generated' = proposal
    /\ PhaseDone /\ UNCHANGED <<records, torn, proposals, frozenSkill, skillRef, registry, gate, env>>

(* -------------------------------- b2-freeze ----------------------------- *)

FreezeStart ==
    /\ InPhase("b2-freeze", "start")
    /\ \/ skillRef # 0 /\ ~run.force /\ PhaseDone /\ UNCHANGED frozenSkill
       \/ (skillRef = 0 \/ run.force) /\ proposal = 0 /\ Raise /\ UNCHANGED frozenSkill
       \/ (skillRef = 0 \/ run.force) /\ proposal # 0 /\ frozenSkill' = 0 /\ Goto("copy")
    /\ UNCHANGED <<records, torn, proposals, generated, skillRef, registry, gate, env>>

FreezeCopy ==
    /\ InPhase("b2-freeze", "copy")
    /\ frozenSkill' = proposal /\ Goto("ref")
    /\ UNCHANGED <<records, torn, proposals, generated, skillRef, registry, gate, env>>

FreezeRef ==
    /\ InPhase("b2-freeze", "ref")
    /\ skillRef' = proposal /\ PhaseDone
    /\ UNCHANGED <<records, torn, proposals, generated, frozenSkill, registry, gate, env>>

(* -------------------------------- b3-build ------------------------------ *)

\* A candidate was built before: read back its entry.
BuildSkipped ==
    /\ InPhase("b3-build", "start") /\ cache # None /\ ~run.force
    /\ IF Discovered THEN PhaseDone ELSE Raise
    /\ UNCHANGED <<records, torn, store, registry, gate, env>>

\* capabilityize draws a new id each time and replaces the candidate directory.
Capabilityize ==
    /\ InPhase("b3-build", "start") /\ (cache = None \/ run.force)
    /\ IF torn \/ proposal = 0 \/ ~Last(proposals) \/ Bundles = {}
       THEN Raise /\ UNCHANGED <<made, built>>
       ELSE \E c \in Candidate :
               /\ made[c] = 0 /\ made' = [made EXCEPT ![c] = proposal] /\ built' = c
               /\ run' = [run EXCEPT !.at = "seal", !.cand = c]
    /\ UNCHANGED <<records, torn, store, flat, entry, request, cache, gate, env>>

\* freeze_candidate_dir: a candidate just made has an identity of its own.
Seal ==
    /\ InPhase("b3-build", "seal")
    /\ Goto("validate")
    /\ UNCHANGED <<records, torn, store, registry, gate, env>>

\* Every golden test is run in the sandbox and judged by the oracle script.
Validate ==
    /\ InPhase("b3-build", "validate")
    /\ (Goto("evaluate") /\ UNCHANGED env) \/ (Raise /\ Fails)
    /\ UNCHANGED <<records, torn, store, registry, gate>>

\* The golden tests again, then the novel and the independent input: one FAIL is enough.
Evaluate ==
    /\ InPhase("b3-build", "evaluate")
    /\ (Goto("retire") /\ UNCHANGED env) \/ (Goto("reject") /\ Fails)
    /\ UNCHANGED <<records, torn, store, registry, gate>>

\* reject refuses to replace an entry, and the build raises either way.
Reject ==
    /\ InPhase("b3-build", "reject")
    /\ flat' = IF flat = "none" THEN "rejected" ELSE flat
    /\ Raise
    /\ UNCHANGED <<records, torn, store, made, built, entry, request, cache, gate, env>>

\* --force removes the flat entry; nothing removes the canonical one.
Retire ==
    /\ InPhase("b3-build", "retire")
    /\ flat' = IF run.force THEN "none" ELSE flat
    /\ Goto("promote")
    /\ UNCHANGED <<records, torn, store, made, built, entry, request, cache, gate, env>>

\* Mutant: a forced build replaces the entry.
PromoteOver ==
    /\ InPhase("b3-build", "promote")
    /\ IF entry \in {None, run.cand} \/ run.force
       THEN entry' = run.cand /\ Goto("mark") ELSE Raise /\ UNCHANGED entry
    /\ UNCHANGED <<records, torn, store, made, built, flat, request, cache, gate, env>>

\* issue_authority, then promote: v1.json is written once and never for another candidate.
Promote ==
    /\ InPhase("b3-build", "promote")
    /\ IF entry \in {None, run.cand} THEN entry' = run.cand /\ Goto("mark") ELSE Raise /\ UNCHANGED entry
    /\ UNCHANGED <<records, torn, store, made, built, flat, request, cache, gate, env>>

MarkPromoted ==
    /\ InPhase("b3-build", "mark")
    /\ request' = run.cand /\ Goto("cache")
    /\ UNCHANGED <<records, torn, store, made, built, flat, entry, cache, gate, env>>

WriteCache ==
    /\ InPhase("b3-build", "cache")
    /\ cache' = run.cand /\ PhaseDone
    /\ UNCHANGED <<records, torn, store, made, built, flat, entry, request, gate, env>>

(* ----------------------------------- cost ------------------------------- *)

CostStart ==
    /\ InPhase("cost", "start") /\ ~torn
    /\ Goto("price") /\ UNCHANGED <<records, torn, store, registry, gate, env>>

\* Each record is rewritten with its price, which no property looks at.
Price ==
    /\ InPhase("cost", "price") /\ run.i <= Len(records)
    /\ run' = [run EXCEPT !.i = @ + 1]
    /\ UNCHANGED <<records, torn, store, registry, gate, env>>

FutureOf(arm) == {i \in DOMAIN records : records[i].arm = arm /\ records[i].task \in Range(FutureTasks)}

\* Mutant: the bundles of the stamps are counted, not compared.
GatePassesCounting ==
    /\ Cardinality(Formation) = Needed
    /\ \A i \in Formation : records[i].verdict \in {"PASS", "FAIL"}
    /\ Cardinality(Bundles) = Needed
    /\ Cardinality({records[i].input : i \in Formation}) = 1
    /\ skillRef # 0 /\ Discovered
    /\ \A arm \in {"b2", "b3"} : /\ Cardinality(FutureOf(arm)) = Len(FutureTasks)
                                 /\ \A i \in FutureOf(arm) : records[i].verdict = "PASS"

\* The proofs of _gate_report; the operator's own b1 runs are taken as done.
GatePasses ==
    /\ Cardinality(Formation) = Needed
    /\ \A i \in Formation : records[i].verdict \in {"PASS", "FAIL"}
    /\ Cardinality(Bundles) = Needed
    /\ Cardinality({records[i].input : i \in Formation}) = 1
    /\ \A i \in Formation : records[i].inputs = BundleIds
    /\ skillRef # 0 /\ Discovered
    /\ \A arm \in {"b2", "b3"} : /\ Cardinality(FutureOf(arm)) = Len(FutureTasks)
                                 /\ \A i \in FutureOf(arm) : records[i].verdict = "PASS"

WriteGate ==
    /\ InPhase("cost", "price") /\ run.i > Len(records)
    /\ gate' = IF GatePasses THEN "PASS" ELSE "FAIL"
    /\ PhaseDone /\ UNCHANGED <<records, torn, store, registry, env>>

(* ------------------------------ environment ----------------------------- *)

\* update_record is rewriting run_records.jsonl.
Rewriting ==
    \/ InPhase("generation", "stamp") /\ run.i <= Len(records) /\ Formed(records[run.i])
    \/ InPhase("cost", "price") /\ run.i <= Len(records)

Crash ==
    /\ run.phases # <<>> /\ env.crashes < MaxCrashes
    /\ env' = [env EXCEPT !.crashes = @ + 1]
    /\ run' = Idle
    /\ \/ UNCHANGED <<records, torn>>
       \/ Rewriting /\ \E n \in 0..(Len(records) - 1) : records' = SubSeq(records, 1, n) /\ torn' \in BOOLEAN
       \/ run.at = "record" /\ torn' = TRUE /\ UNCHANGED records
    /\ UNCHANGED <<store, registry, gate>>

Step ==
    \/ Skip("formation", TRUE) \/ FormationRun \/ WriteRecord \/ TasksDone \/ Unreadable
    \/ Skip("future", FALSE) \/ FutureRun \/ FutureB3 \/ NoSkill
    \/ GenerationStart \/ Propose \/ Stamp \/ WriteMeta
    \/ FreezeStart \/ FreezeCopy \/ FreezeRef
    \/ BuildSkipped \/ Capabilityize \/ Seal \/ Validate \/ Evaluate \/ Reject \/ Retire \/ Promote \/ MarkPromoted \/ WriteCache
    \/ CostStart \/ Price \/ WriteGate

Next == (\E c \in Commands : Begin(c)) \/ Step \/ Crash

Spec == Init /\ [][Next]_vars
FairSpec == Spec /\ WF_vars(Step)

-----------------------------------------------------------------------------

RunRecord ==
    [arm : {"b0", "b2", "b3"}, task : Range(FormationTasks) \cup Range(FutureTasks),
     verdict : {"PASS", "FAIL", "ERROR"}, bundle : 0..env.bundles,
     input : 0..proposal, inputs : SUBSET (1..env.bundles), skill : 0..proposal]

\* The type invariant of every variable above.
TypeOK ==
    /\ records \in Seq(RunRecord)
    /\ torn \in BOOLEAN /\ proposals \in Seq(BOOLEAN)
    /\ {generated, frozenSkill, skillRef} \subseteq 0..proposal
    /\ made \in [Candidate -> 0..proposal] /\ flat \in {"none", "promoted", "rejected"}
    /\ {built, entry, request, cache} \subseteq Candidate \cup {None, Legacy}
    /\ gate \in {"none", "PASS", "FAIL"} /\ run.phases \in Seq(Phase)

\* A command repeated after failures and crashes never leaves two bundles for one
\* formation task of an arm, nor two future records: what the existing-record
\* tests of phase_formation and phase_future are for, as long as they are not
\* switched off with --force.
OneRunPerTask ==
    \A i, j \in DOMAIN records :
        /\ i # j /\ records[i].arm = records[j].arm /\ records[i].task = records[j].task
        => Formed(records[i]) /\ 0 \in {records[i].bundle, records[j].bundle}

\* The registry entry, the anchored run request and b3_entry.json are three files a
\* build writes one after the other, and every later build again: the cache never
\* names a candidate the request does not, nor the request one the entry does not,
\* after any crash, a forced second build, or a cache rebuilt by a future run.
IntentAgrees ==
    /\ cache \in Candidate => request = cache
    /\ request # None => entry = request

\* The frozen skill of arm b2, the candidate of arm b3 and the formation records
\* carry one proposal, the comparison the whole experiment rests on: generation is
\* never repeated once its metadata exists.  Records lost to a crash come back
\* without the stamp; a record that has one has this one.
SharedProposal ==
    /\ generated # 0 /\ skillRef # 0 => skillRef = generated
    /\ generated # 0 => /\ \A c \in Candidate : made[c] \in {0, generated}
                        /\ \A r \in Range(records) : r.input \in {0, generated} /\ r.skill \in {0, generated}

\* The gate is only ever passed over exactly one bundled run for each formation task
\* and arm, all of them stamped by the generation the frozen skill comes from: what
\* its counts and set comparisons amount to, also when a crash in update_record has
\* lost records and later commands have run those tasks again.
GateIsFair ==
    [][gate' = "PASS" =>
        /\ \A arm \in {"b2", "b3"}, t \in Range(FormationTasks) :
              Cardinality({i \in DOMAIN records' : records'[i].arm = arm /\ records'[i].task = t}) = 1
        /\ \A i \in Formation' : records'[i].input = skillRef' /\ records'[i].bundle # 0]_gate

\* Every command ends: the retries of generation are bounded, every loop over tasks
\* and records advances.  Fairness: a running process takes its steps.
CommandsEnd == []<>(run.phases = <<>>)
=============================================================================
