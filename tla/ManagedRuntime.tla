--------------------------- MODULE ManagedRuntime ---------------------------
(***************************************************************************)
(* pilot/managed_runtime.py: Deployment -> reconcile -> RuntimeInstance.   *)
(*                                                                         *)
(* Three append-only JSONL logs hold the state; a reader keeps the latest  *)
(* event of each id, so a log is here the function from ids to the latest  *)
(* event, and appending an event overwrites the id's entry.  Ids are       *)
(* numbered in the order of their first event, which is the order in which *)
(* _current() lists them.                                                  *)
(*                                                                         *)
(* A call of the API is a sequence of steps: the reads up to a decision,   *)
(* each append and each runtime call is one step, and a caller may crash   *)
(* between two of them.  What a call carries from one step to the next     *)
(* (the deployment it read, its copy of the instance record) is call[p].   *)
(* A call refused before its first write changes nothing: it is a          *)
(* stuttering step.  All versions are those of one agent.                  *)
(***************************************************************************)
EXTENDS Naturals, FiniteSets

CONSTANTS
    Caller,           \* processes calling the API on one state root
    Version,          \* version_ids of the agent
    DeploymentId,     \* deployment ids, numbered in creation order (a bound)
    InstanceId,       \* instance ids, numbered in creation order (a bound)
    StartMaxAttempts, \* START_MAX_ATTEMPTS
    StartOutcomes,    \* what runtime.start may do
    LoadOutcomes,     \* what guard.load_trusted_run_request may do
    None              \* Python's None

ASSUME IdAssumption ==
    /\ DeploymentId \subseteq Nat
    /\ InstanceId \subseteq Nat

ASSUME NoneAssumption ==
    /\ None \notin DeploymentId
    /\ None \notin InstanceId
    /\ None \notin Version

ASSUME AttemptsAssumption == StartMaxAttempts \in Nat \ {0}

ASSUME OutcomesAssumption ==
    /\ StartOutcomes \subseteq {"RUNNING", "FAILED", "RAISES"}
    /\ LoadOutcomes \subseteq {"LOADED", "RAISES"}

VARIABLES
    version,    \* versions.jsonl: state of each version
    ledger,     \* versions whose authority has a REVOKED/SUPERSEDED event
    deployment, \* deployments.jsonl
    instance,   \* instances.jsonl
    container,  \* docker container named after each instance
    starts,     \* history: runtime.start calls made for each instance
    pc, call,   \* per caller: the next step and the locals of the call
    result      \* per caller: how its last call ended

logs == <<version, ledger, deployment, instance>>
docker == <<container, starts>>
vars == <<logs, docker, pc, call, result>>

DesiredStates == {"RUNNING", "STOPPED", "REVOKED"}
ObservedStates == {"READY", "STARTING", "RUNNING", "STOPPING", "STOPPED",
                   "FAILED", "REVOKED"}

\* Mutant: a failed instance no longer counts as active.
ActiveStatesWithoutFailed == {"READY", "STARTING", "RUNNING", "STOPPING"}
ActiveStates == {"READY", "STARTING", "RUNNING", "STOPPING", "FAILED"}

NoDeployment == [version |-> None, desired |-> "ABSENT"]
NoInstance == [dep |-> None, version |-> None, state |-> "ABSENT", attempts |-> 0]
NoCall == [dep |-> None, version |-> None, desired |-> "ABSENT", inst |-> None,
           attempts |-> 0, next |-> "report", todo |-> {}]

StartPCs == {"starting", "mount", "run", "startOk", "startFailed"}
StopPCs == {"stopping", "kill", "stopOk", "stopFailed"}
PCs == {"idle", "loadRunRequest", "publish", "appendVersion", "createDeployment",
        "setDesired", "upgrade", "resolve", "observe", "ready", "mark", "revokeAuthority",
        "revokeVersion", "listDeployments", "revokeNext", "revokeDeployment"}
       \cup StartPCs \cup StopPCs
Results == {"none", "OK", "HEALTHY", "FAILED", "RECONCILE_REQUIRED", "REJECT",
            "REVOKED", "RAISED", "CRASHED"}

DeploymentType == [version : Version \cup {None}, desired : DesiredStates \cup {"ABSENT"}]
InstanceType == [dep : DeploymentId \cup {None}, version : Version \cup {None},
                 state : ObservedStates \cup {"ABSENT"}, attempts : Nat]
CallType == [dep : DeploymentId \cup {None}, version : Version \cup {None},
             desired : DesiredStates \cup {"ABSENT"}, inst : InstanceId \cup {None},
             attempts : Nat, next : {"report", "switch", "revoke"},
             todo : SUBSET DeploymentId]

TypeOK ==
    /\ version \in [Version -> {"ABSENT", "ACTIVE", "REVOKED"}]
    /\ ledger \subseteq Version
    /\ deployment \in [DeploymentId -> DeploymentType]
    /\ instance \in [InstanceId -> InstanceType]
    /\ container \in [InstanceId -> {"none", "up", "exited"}]
    /\ starts \in [InstanceId -> Nat]
    /\ pc \in [Caller -> PCs]
    /\ call \in [Caller -> CallType]
    /\ result \in [Caller -> Results]

\* versions.jsonl may already hold versions when the first call comes.
Init ==
    /\ version \in [Version -> {"ABSENT", "ACTIVE"}]
    /\ ledger = {}
    /\ deployment = [d \in DeploymentId |-> NoDeployment]
    /\ instance = [i \in InstanceId |-> NoInstance]
    /\ container = [i \in InstanceId |-> "none"]
    /\ starts = [i \in InstanceId |-> 0]
    /\ pc = [p \in Caller |-> "idle"]
    /\ call = [p \in Caller |-> NoCall]
    /\ result = [p \in Caller |-> "none"]

-----------------------------------------------------------------------------
(* What the code reads.                                                    *)

Created(d) == deployment[d].desired # "ABSENT"

VersionRevoked(v) == version[v] = "REVOKED" \/ v \in ledger

InstancesOf(d) == {i \in InstanceId : instance[i].dep = d}
ActiveOf(d) == {i \in InstancesOf(d) : instance[i].state \in ActiveStates}
IsNewest(i, S) == i \in S /\ \A j \in S : j <= i

\* Ids are taken in order.
IsNextInstance(i) ==
    /\ instance[i].state = "ABSENT"
    /\ \A j \in InstanceId : j < i => instance[j].state # "ABSENT"
IsNextDeployment(d) ==
    /\ ~Created(d)
    /\ \A e \in DeploymentId : e < d => Created(e)

\* active.get("attempt_count") or 1
Attempt(i) == IF instance[i].attempts = 0 THEN 1 ELSE instance[i].attempts

\* Mutant: the last attempt is followed by one more.
RetryOnceMore(i) == Attempt(i) <= StartMaxAttempts
RetryAllowed(i) == Attempt(i) < StartMaxAttempts

-----------------------------------------------------------------------------
(* Control flow of a call.                                                 *)

\* A step that only reads.
Decides(p, label) == pc[p] = label /\ UNCHANGED <<logs, docker>>

Begin(p, label, c) ==
    /\ Decides(p, "idle")
    /\ pc' = [pc EXCEPT ![p] = label]
    /\ call' = [call EXCEPT ![p] = c]
    /\ result' = [result EXCEPT ![p] = "none"]

Goto(p, label) ==
    /\ pc' = [pc EXCEPT ![p] = label]
    /\ UNCHANGED <<call, result>>

GotoWith(p, label, c) ==
    /\ pc' = [pc EXCEPT ![p] = label]
    /\ call' = [call EXCEPT ![p] = c]
    /\ UNCHANGED result

Return(p, r) ==
    /\ pc' = [pc EXCEPT ![p] = "idle"]
    /\ call' = [call EXCEPT ![p] = NoCall]
    /\ result' = [result EXCEPT ![p] = r]

\* _append_instance: the caller's copy of the record with a new state.
AppendInstance(p, s) ==
    /\ instance' = [instance EXCEPT ![call[p].inst] =
          [@ EXCEPT !.state = s, !.attempts = call[p].attempts]]
    /\ UNCHANGED <<version, ledger, deployment, docker>>

-----------------------------------------------------------------------------
(* create_version.                                                         *)

CreateVersion(p, v) ==
    /\ v \notin ledger
    /\ Begin(p, "loadRunRequest", [NoCall EXCEPT !.version = v])

\* guard.load_trusted_run_request(registry_root, version_key).
LoadRunRequest(p) ==
    /\ Decides(p, "loadRunRequest")
    /\ \E o \in LoadOutcomes :
          \/ o = "LOADED" /\ Goto(p, "publish")
          \/ o = "RAISES" /\ Return(p, "RAISED")

\* An existing version with the same binding is returned as it is.
PublishVersion(p) ==
    /\ Decides(p, "publish")
    /\ IF version[call[p].version] = "ABSENT"
       THEN Goto(p, "appendVersion")
       ELSE Return(p, "OK")

AppendVersion(p) ==
    /\ pc[p] = "appendVersion"
    /\ version' = [version EXCEPT ![call[p].version] = "ACTIVE"]
    /\ Return(p, "OK")
    /\ UNCHANGED <<ledger, deployment, instance, docker>>

-----------------------------------------------------------------------------
(* create_deployment, set_desired_state, upgrade and rollback.             *)

\* _deployment_for_agent: only the agent's first deployment is compared.
SameAsFirst(v, s) ==
    \E d \in DeploymentId :
        /\ deployment[d] = [version |-> v, desired |-> s]
        /\ \A e \in DeploymentId : Created(e) => d <= e

CreateDeployment(p, v, s) ==
    /\ version[v] # "ABSENT"
    /\ ~SameAsFirst(v, s)
    /\ Begin(p, "createDeployment", [NoCall EXCEPT !.version = v, !.desired = s])

AppendDeployment(p) ==
    /\ pc[p] = "createDeployment"
    /\ \E d \in DeploymentId :
          /\ IsNextDeployment(d)
          /\ deployment' = [deployment EXCEPT ![d] =
                [version |-> call[p].version, desired |-> call[p].desired]]
    /\ Return(p, "OK")
    /\ UNCHANGED <<version, ledger, instance, docker>>

\* Mutant: REVOKED is no longer terminal.
MayLeaveAnyState(d) == Created(d)
MayLeave(d) == Created(d) /\ deployment[d].desired # "REVOKED"

\* The copy of the deployment read here is what AppendDesired writes back.
SetDesiredState(p, d, s) ==
    /\ MayLeave(d)
    /\ deployment[d].desired # s
    /\ Begin(p, "setDesired",
             [NoCall EXCEPT !.dep = d, !.version = deployment[d].version, !.desired = s])

WriteDeployment(p) ==
    /\ deployment' = [deployment EXCEPT ![call[p].dep] =
          [version |-> call[p].version, desired |-> call[p].desired]]
    /\ UNCHANGED <<version, ledger, instance, docker>>

AppendDesired(p) == pc[p] = "setDesired" /\ WriteDeployment(p) /\ Return(p, "OK")

\* upgrade and rollback; a refused target changes nothing.
Upgrade(p, d, v) ==
    /\ MayLeave(d)
    /\ version[v] # "ABSENT"
    /\ ~VersionRevoked(v)
    /\ LET wanted == [version |-> v, desired |-> "RUNNING"] IN
       Begin(p, IF deployment[d] = wanted THEN "resolve" ELSE "upgrade",
             [NoCall EXCEPT !.dep = d, !.version = v, !.desired = "RUNNING"])

AppendUpgrade(p) == pc[p] = "upgrade" /\ WriteDeployment(p) /\ Goto(p, "resolve")

-----------------------------------------------------------------------------
(* reconcile: read the deployment, then the instances, then act.           *)

Reconcile(p, d) ==
    /\ Created(d)
    /\ Begin(p, "resolve", [NoCall EXCEPT !.dep = d])

Resolve(p) ==
    /\ Decides(p, "resolve")
    /\ LET d == call[p].dep IN
       GotoWith(p, "observe", [call[p] EXCEPT !.version = deployment[d].version,
                                              !.desired = deployment[d].desired])

\* The call goes on with its own copy of instance i.
Take(p, label, i, next) ==
    GotoWith(p, label, [call[p] EXCEPT !.inst = i, !.next = next,
                                       !.attempts = instance[i].attempts])

\* Mutant: a failed old instance is retried.
SwitchRetriesFailed(p, i) ==
    /\ instance[i].state = "FAILED"
    /\ Take(p, "starting", i, "report")

\* desired RUNNING, the active instance runs another version: stop it first.
ReconcileSwitch(p, i) ==
    \/ /\ instance[i].state \in {"RUNNING", "READY", "STARTING"}
       /\ Take(p, "stopping", i, "switch")
    \/ /\ instance[i].state \in {"STOPPING", "FAILED"}
       /\ Return(p, "RECONCILE_REQUIRED")

\* Mutant: an instance in transition is reported HEALTHY.
SameCountsTransition(p, i) ==
    /\ instance[i].state \in {"READY", "STARTING", "STOPPING"}
    /\ Return(p, "HEALTHY")

\* desired RUNNING, the active instance runs the desired version.
ReconcileSame(p, i) ==
    \/ /\ instance[i].state = "RUNNING"
       /\ Return(p, "HEALTHY")
    \/ /\ instance[i].state = "FAILED"
       /\ RetryAllowed(i)
       /\ GotoWith(p, "starting", [call[p] EXCEPT !.inst = i,
                                                  !.attempts = Attempt(i) + 1])
    \/ /\ instance[i].state = "FAILED"
       /\ ~RetryAllowed(i)
       /\ Return(p, "RECONCILE_REQUIRED")
    \/ /\ instance[i].state \in {"READY", "STARTING", "STOPPING"}
       /\ Return(p, "RECONCILE_REQUIRED")

ReconcileRunning(p) ==
    /\ Decides(p, "observe")
    /\ call[p].desired = "RUNNING"
    /\ LET d == call[p].dep IN
       \/ VersionRevoked(call[p].version) /\ Return(p, "REJECT")
       \/ /\ ~VersionRevoked(call[p].version)
          /\ \/ ActiveOf(d) = {} /\ Goto(p, "ready")
             \/ \E i \in InstanceId :
                   /\ IsNewest(i, ActiveOf(d))
                   /\ IF instance[i].version # call[p].version
                      THEN ReconcileSwitch(p, i)
                      ELSE ReconcileSame(p, i)

ReconcileStopped(p) ==
    /\ Decides(p, "observe")
    /\ call[p].desired = "STOPPED"
    /\ LET d == call[p].dep IN
       \/ ActiveOf(d) = {} /\ Return(p, "HEALTHY")
       \/ \E i \in InstanceId :
             /\ IsNewest(i, ActiveOf(d))
             /\ \/ instance[i].state = "FAILED" /\ Return(p, "HEALTHY")
                \/ /\ instance[i].state \in {"RUNNING", "STARTING", "READY"}
                   /\ Take(p, "stopping", i, "report")
                \/ instance[i].state = "STOPPING" /\ Return(p, "RECONCILE_REQUIRED")

\* desired REVOKED looks at the last instance, active or not.
ReconcileRevoked(p) ==
    /\ Decides(p, "observe")
    /\ call[p].desired = "REVOKED"
    /\ LET d == call[p].dep IN
       \/ InstancesOf(d) = {} /\ Return(p, "REVOKED")
       \/ \E i \in InstanceId :
             /\ IsNewest(i, InstancesOf(d))
             /\ \/ /\ instance[i].state \in {"STOPPED", "FAILED", "READY"}
                   /\ Take(p, "mark", i, "revoke")
                \/ instance[i].state = "REVOKED" /\ Return(p, "REVOKED")
                \/ /\ instance[i].state \in {"RUNNING", "STARTING"}
                   /\ Take(p, "stopping", i, "revoke")
                \/ instance[i].state = "STOPPING" /\ Return(p, "RECONCILE_REQUIRED")

-----------------------------------------------------------------------------
(* _start: READY (a new instance only), STARTING, runtime.start, outcome.  *)

AppendReady(p) ==
    /\ pc[p] = "ready"
    /\ \E i \in InstanceId :
          /\ IsNextInstance(i)
          /\ instance' = [instance EXCEPT ![i] =
                [dep |-> call[p].dep, version |-> call[p].version,
                 state |-> "READY", attempts |-> 0]]
          /\ GotoWith(p, "starting", [call[p] EXCEPT !.inst = i, !.attempts = 1])
    /\ UNCHANGED <<version, ledger, deployment, docker>>

AppendStarting(p) == pc[p] = "starting" /\ AppendInstance(p, "STARTING") /\ Goto(p, "mount")

\* runtime.start up to the mount: verify_at_mount refuses a revoked authority.
VerifyAtMount(p) ==
    /\ pc[p] = "mount"
    /\ starts' = [starts EXCEPT ![call[p].inst] = @ + 1]
    /\ \/ /\ instance[call[p].inst].version \notin ledger
          /\ "RUNNING" \in StartOutcomes
          /\ Goto(p, "run")
       \/ /\ "FAILED" \in StartOutcomes \/ instance[call[p].inst].version \in ledger
          /\ Goto(p, "startFailed")
       \/ "RAISES" \in StartOutcomes /\ Return(p, "RAISED")
    /\ UNCHANGED <<logs, container>>

\* docker run --name <instance_id>: a container of that name makes it fail; a
\* failed run may leave a created container behind; a running one that docker
\* inspect did not report is removed, but the result of that is not looked at.
DockerRun(p) ==
    /\ pc[p] = "run"
    /\ LET i == call[p].inst IN
       \/ /\ container[i] = "none"
          /\ container' = [container EXCEPT ![i] = "up"]
          /\ Goto(p, "startOk") \/ Goto(p, "startFailed")
       \/ /\ container[i] = "none"
          /\ container' = [container EXCEPT ![i] = "exited"]
          /\ Goto(p, "startFailed")
       \/ Goto(p, "startFailed") /\ UNCHANGED container
    /\ UNCHANGED <<logs, starts>>

AppendStarted(p) ==
    /\ \/ /\ pc[p] = "startOk"
          /\ AppendInstance(p, "RUNNING")
          /\ Return(p, "HEALTHY")
       \/ /\ pc[p] = "startFailed"
          /\ AppendInstance(p, "FAILED")
          /\ Return(p, "FAILED")

-----------------------------------------------------------------------------
(* _stop: STOPPING, runtime.stop, outcome; then what the caller does next. *)

\* The operator stops a FAILED instance by hand (stage-2 tests call _stop).
ManualStop(p, i) ==
    /\ instance[i].state = "FAILED"
    /\ Begin(p, "stopping", [NoCall EXCEPT !.dep = instance[i].dep, !.inst = i,
                                           !.attempts = instance[i].attempts])

AppendStopping(p) == pc[p] = "stopping" /\ AppendInstance(p, "STOPPING") /\ Goto(p, "kill")

\* Mutant: the result of docker kill is not looked at.
DockerKillUnchecked(p) ==
    /\ pc[p] = "kill"
    /\ Goto(p, "stopOk")
    /\ UNCHANGED <<logs, docker>>

\* docker kill fails when the container does not run, and may fail when it does;
\* the result of the docker rm after it is not looked at.
DockerKill(p) ==
    /\ pc[p] = "kill"
    /\ LET i == call[p].inst IN
       \/ /\ container[i] = "up"
          /\ \E c \in {"none", "exited"} : container' = [container EXCEPT ![i] = c]
          /\ Goto(p, "stopOk")
       \/ Goto(p, "stopFailed") /\ UNCHANGED container
    /\ UNCHANGED <<logs, starts>>

AppendStopFailed(p) ==
    /\ pc[p] = "stopFailed"
    /\ AppendInstance(p, "FAILED")
    /\ Return(p, IF call[p].next = "switch" THEN "RECONCILE_REQUIRED" ELSE "FAILED")

AppendStopped(p) ==
    /\ pc[p] = "stopOk"
    /\ AppendInstance(p, "STOPPED")
    /\ \/ call[p].next = "report" /\ Return(p, "HEALTHY")
       \/ call[p].next = "switch" /\ Goto(p, "ready")
       \/ call[p].next = "revoke" /\ Goto(p, "mark")

MarkRevoked(p) == pc[p] = "mark" /\ AppendInstance(p, "REVOKED") /\ Return(p, "REVOKED")

-----------------------------------------------------------------------------
(* revoke_version: authority event, version event, deployments.            *)

\* Mutant: the version record is written before the authority event.
RevokeRecordFirst(p, v) ==
    /\ version[v] = "ACTIVE"
    /\ Begin(p, "revokeVersion", [NoCall EXCEPT !.version = v])

RevokeVersion(p, v) ==
    /\ version[v] # "ABSENT"
    /\ IF version[v] = "REVOKED"
       THEN pc[p] = "idle" /\ Return(p, "OK") /\ UNCHANGED <<logs, docker>>
       ELSE Begin(p, "revokeAuthority", [NoCall EXCEPT !.version = v])

\* revoke_authority is all or nothing here: see AdoptionAuthority.
RevokeAuthority(p) ==
    /\ pc[p] = "revokeAuthority"
    /\ \/ ledger' = ledger \cup {call[p].version} /\ Goto(p, "revokeVersion")
       \/ Return(p, "RAISED") /\ UNCHANGED ledger
    /\ UNCHANGED <<version, deployment, instance, docker>>

AppendVersionRevoked(p) ==
    /\ pc[p] = "revokeVersion"
    /\ version' = [version EXCEPT ![call[p].version] = "REVOKED"]
    /\ Goto(p, "listDeployments")
    /\ UNCHANGED <<ledger, deployment, instance, docker>>

\* Mutant: only deployments that want to run are listed.
ListRunningDeployments(p) ==
    /\ Decides(p, "listDeployments")
    /\ GotoWith(p, "revokeNext", [call[p] EXCEPT !.todo =
          {d \in DeploymentId : /\ deployment[d].version = call[p].version
                                /\ deployment[d].desired = "RUNNING"}])

ListDeployments(p) ==
    /\ Decides(p, "listDeployments")
    /\ GotoWith(p, "revokeNext", [call[p] EXCEPT !.todo =
          {d \in DeploymentId : /\ deployment[d].version = call[p].version
                                /\ deployment[d].desired # "REVOKED"}])

\* Mutant: the loop never leaves its first deployment.
RevokeNextForever(p) ==
    /\ Decides(p, "revokeNext")
    /\ call[p].todo = {} /\ Return(p, "OK")

\* set_desired_state(d, "REVOKED") on the oldest listed deployment.
RevokeNext(p) ==
    /\ Decides(p, "revokeNext")
    /\ \/ call[p].todo = {} /\ Return(p, "OK")
       \/ \E d \in call[p].todo :
             /\ \A e \in call[p].todo : d <= e
             /\ LET rest == [call[p] EXCEPT !.todo = @ \ {d}] IN
                IF deployment[d].desired = "REVOKED"
                THEN GotoWith(p, "revokeNext", rest)
                ELSE GotoWith(p, "revokeDeployment",
                        [rest EXCEPT !.dep = d, !.desired = "REVOKED",
                                     !.version = deployment[d].version])

AppendDeploymentRevoked(p) == pc[p] = "revokeDeployment" /\ WriteDeployment(p) /\ Goto(p, "revokeNext")

-----------------------------------------------------------------------------
(* The environment.                                                        *)

\* The calling process dies, or an exception leaves the call.
Crash(p) ==
    /\ pc[p] # "idle"
    /\ Return(p, "CRASHED")
    /\ UNCHANGED <<logs, docker>>

\* The container's command ends by itself.
ContainerExits(i) ==
    /\ container[i] = "up"
    /\ container' = [container EXCEPT ![i] = "exited"]
    /\ UNCHANGED <<logs, starts, pc, call, result>>

\* revoke_authority called on its own (a supersession, an operator).
RevokeAuthorityDirectly(v) ==
    /\ v \notin ledger
    /\ ledger' = ledger \cup {v}
    /\ UNCHANGED <<version, deployment, instance, docker, pc, call, result>>

Calls(p) ==
    \/ \E v \in Version : CreateVersion(p, v)
    \/ \E v \in Version, s \in DesiredStates : CreateDeployment(p, v, s)
    \/ \E d \in DeploymentId, s \in DesiredStates : SetDesiredState(p, d, s)
    \/ \E d \in DeploymentId, v \in Version : Upgrade(p, d, v)
    \/ \E d \in DeploymentId : Reconcile(p, d)
    \/ \E v \in Version : RevokeVersion(p, v)
    \/ \E i \in InstanceId : ManualStop(p, i)

Steps(p) ==
    \/ LoadRunRequest(p) \/ PublishVersion(p) \/ AppendVersion(p)
    \/ AppendDeployment(p) \/ AppendDesired(p) \/ AppendUpgrade(p)
    \/ Resolve(p) \/ ReconcileRunning(p) \/ ReconcileStopped(p) \/ ReconcileRevoked(p)
    \/ AppendReady(p) \/ AppendStarting(p) \/ VerifyAtMount(p) \/ DockerRun(p)
    \/ AppendStarted(p)
    \/ AppendStopping(p) \/ DockerKill(p) \/ AppendStopFailed(p) \/ AppendStopped(p)
    \/ MarkRevoked(p)
    \/ RevokeAuthority(p) \/ AppendVersionRevoked(p) \/ ListDeployments(p)
    \/ RevokeNext(p) \/ AppendDeploymentRevoked(p)

Next ==
    \/ \E p \in Caller : Calls(p) \/ Steps(p) \/ Crash(p)
    \/ \E i \in InstanceId : ContainerExits(i)
    \/ \E v \in Version : RevokeAuthorityDirectly(v)

Spec == Init /\ [][Next]_vars

\* Python runs the statements of a call one after the other.
FairSpec == Spec /\ \A p \in Caller : WF_vars(Steps(p))

-----------------------------------------------------------------------------
(* Properties.  Those marked (one caller) are promised under the single    *)
(* process assumption of the phase 10.3 report.                            *)

\* (one caller) No deployment has two running containers: a version switch, a
\* retry or a crash between two appends never leaves the old one beside the new.
AtMostOneRunning ==
    \A i, j \in InstanceId :
        (/\ container[i] = "up" /\ container[j] = "up"
         /\ instance[i].dep = instance[j].dep) => i = j

\* (one caller) A deployment never has two instances in an active state, so
\* _active_instance never hides one of them from reconcile.
OneActive ==
    \A i, j \in InstanceId :
        (/\ instance[i].state \in ActiveStates /\ instance[j].state \in ActiveStates
         /\ instance[i].dep = instance[j].dep) => i = j

\* (one caller) A running container is never recorded as absent, READY or
\* STOPPED, wherever a call was cut off: the log can still find it.
RunningIsTracked ==
    \A i \in InstanceId : container[i] = "up" =>
        instance[i].state \in {"STARTING", "RUNNING", "STOPPING", "FAILED", "REVOKED"}

\* (one caller) runtime.start is called at most START_MAX_ATTEMPTS times for an
\* instance, failed stops and crashes included.
RetriesBounded == \A i \in InstanceId : starts[i] <= StartMaxAttempts

\* (one caller) A container comes up only for the version its deployment wants
\* at that moment, and only while the deployment wants to run.
OnlyWantedStarts ==
    [][\A i \in InstanceId : (container[i] # "up" /\ container'[i] = "up") =>
          deployment[instance[i].dep] =
              [version |-> instance[i].version, desired |-> "RUNNING"]]_vars

\* (one caller) REVOKED is final, for a deployment and for an instance.
RevokedIsFinal ==
    [][/\ \A d \in DeploymentId :
             deployment[d].desired = "REVOKED" => deployment'[d] = deployment[d]
       /\ \A i \in InstanceId :
             instance[i].state = "REVOKED" => instance'[i].state = "REVOKED"]_vars

\* (one caller) A HEALTHY verdict on a deployment that wants to run names a log
\* in which exactly one instance is active, RUNNING, and of the wanted version.
HealthyIsExact ==
    [][\A p \in Caller :
          (/\ pc[p] # "idle" /\ call[p].desired = "RUNNING"
           /\ pc'[p] = "idle" /\ result'[p] = "HEALTHY") =>
          \E i \in InstanceId :
             /\ {j \in InstanceId : /\ instance'[j].dep = call[p].dep
                                    /\ instance'[j].state \in ActiveStates} = {i}
             /\ instance'[i].state = "RUNNING"
             /\ instance'[i].version = deployment'[call[p].dep].version]_vars

\* (one caller) A revoke_version that runs to its end leaves no deployment of
\* the version in another desired state than REVOKED.
RevokeReachesDeployments ==
    [][\A p \in Caller :
          (/\ pc[p] = "revokeNext" /\ pc'[p] = "idle" /\ result'[p] = "OK") =>
          \A d \in DeploymentId : deployment'[d].version = call[p].version =>
              deployment'[d].desired = "REVOKED"]_vars

Up(d) == {i \in InstancesOf(d) : container[i] = "up"}
Running == [d \in DeploymentId |-> {<<i, instance[i].version>> : i \in Up(d)}]

Slots == INSTANCE RuntimeSlots WITH
    Deployment <- DeploymentId,
    Instance <- InstanceId,
    wish <- deployment,
    running <- Running

\* (one caller) Whatever is created, upgraded, rolled back, stopped, retried or cut
\* off: a deployment is a slot for one container, filled only when it is empty and
\* with what its owner wants at that moment, never again once it is REVOKED.
FillsSlots == Slots!Spec

\* A version is never recorded REVOKED before its authority ledger says so,
\* whichever callers interleave and wherever one of them crashes.
LedgerBeforeRecord == \A v \in Version : version[v] = "REVOKED" => v \in ledger

\* Every call ends, whatever the other callers do, unless a new instance or
\* deployment would exceed its bound.
CallsReturn ==
    \A p \in Caller : pc[p] # "idle" ~>
        \/ pc[p] = "idle"
        \/ pc[p] = "ready" /\ \A i \in InstanceId : instance[i].state # "ABSENT"
        \/ pc[p] = "createDeployment" /\ \A d \in DeploymentId : Created(d)

(* A claim of the documents that the code does not keep.                   *)

\* docs/architecture/managed-agent-runtime-v1.md:391: an instance becomes REVOKED
\* after it was stopped.
RevokedInstanceIsDown ==
    \A i \in InstanceId : instance[i].state = "REVOKED" => container[i] # "up"

-----------------------------------------------------------------------------
(* The inductive invariants of ManagedRuntimeProofs.                       *)

DeploymentPCs == {"setDesired", "upgrade", "resolve", "observe", "ready",
                  "starting", "revokeDeployment"}
VersionPCs == {"loadRunRequest", "publish", "appendVersion", "revokeAuthority",
               "revokeVersion", "listDeployments"}

\* Whatever the number of callers: a call knows the ids its next step uses.
Knows(label, c) ==
    /\ label \in DeploymentPCs => c.dep \in DeploymentId
    /\ label \in VersionPCs => c.version \in Version
    /\ label \in StartPCs \cup StopPCs \cup {"mark"} => c.inst \in InstanceId
    /\ label \in StopPCs /\ c.next = "switch" => c.dep \in DeploymentId

CallOK == \A p \in Caller : Knows(pc[p], call[p])

\* Whatever the number of callers: the version event comes after the authority's.
RevocationOrder ==
    /\ LedgerBeforeRecord
    /\ \A p \in Caller : pc[p] = "revokeVersion" => call[p].version \in ledger

\* One caller: instances belong to deployments, and one marked REVOKED to a
\* REVOKED deployment; a READY instance was never started.
TablesOK ==
    \A i \in InstanceId :
        /\ instance[i].state # "ABSENT" => Created(instance[i].dep)
        /\ instance[i].state # "ABSENT" => instance[i].dep \in DeploymentId
        /\ instance[i].state = "ABSENT" => instance[i].dep = None /\ starts[i] = 0
        /\ instance[i].state = "REVOKED" => deployment[instance[i].dep].desired = "REVOKED"

\* One caller: the deployment a call works on is still as the call read it.
WantsToRun(p) ==
    /\ deployment[call[p].dep].version = call[p].version
    /\ deployment[call[p].dep].desired = "RUNNING"

DeploymentFresh(p) ==
    /\ pc[p] \in {"setDesired", "upgrade"} => MayLeave(call[p].dep)
    /\ pc[p] \in {"setDesired", "upgrade", "revokeDeployment"} =>
          call[p].desired # "ABSENT"
    /\ pc[p] = "observe" =>
          /\ deployment[call[p].dep].version = call[p].version
          /\ deployment[call[p].dep].desired = call[p].desired
    /\ pc[p] \in {"resolve", "observe", "ready"} => Created(call[p].dep)
    /\ pc[p] = "revokeDeployment" =>
          /\ call[p].desired = "REVOKED"
          /\ deployment[call[p].dep].version = call[p].version
    /\ pc[p] \in {"ready"} \cup StartPCs => WantsToRun(p)
    /\ pc[p] \in StopPCs /\ call[p].next = "switch" => WantsToRun(p)
    /\ pc[p] \in StopPCs \cup {"mark"} /\ call[p].next = "revoke" =>
          deployment[instance[call[p].inst].dep].desired = "REVOKED"

\* One caller: the instance a call works on is in the state the call left it in.
InstanceFresh(p) ==
    LET i == call[p].inst IN
    /\ pc[p] = "ready" => \A j \in InstanceId :
          instance[j].dep = call[p].dep => instance[j].state \notin ActiveStates
    /\ pc[p] \in StartPCs =>
          instance[i].dep = call[p].dep /\ instance[i].version = call[p].version
    /\ pc[p] = "starting" => instance[i].state \in {"READY", "FAILED"}
    /\ pc[p] \in StartPCs \ {"starting"} => instance[i].state = "STARTING"
    /\ pc[p] = "stopping" => instance[i].state \in {"RUNNING", "STARTING", "READY", "FAILED"}
    /\ pc[p] \in StopPCs \ {"stopping"} => instance[i].state = "STOPPING"
    /\ pc[p] \in StopPCs /\ call[p].next = "switch" => instance[i].dep = call[p].dep
    /\ pc[p] = "stopOk" => container[i] # "up"
    /\ pc[p] = "mark" => instance[i].state \in {"STOPPED", "FAILED", "READY"}
    /\ pc[p] = "mark" => call[p].next = "revoke"

\* One caller: each start was announced by a higher attempt_count.
AttemptsOK ==
    \A i \in InstanceId : /\ starts[i] <= instance[i].attempts
                          /\ instance[i].attempts <= StartMaxAttempts

AttemptsFresh(p) ==
    LET i == call[p].inst IN
    /\ pc[p] \in {"starting", "mount"} => starts[i] < call[p].attempts
    /\ pc[p] = "mount" => starts[i] < instance[i].attempts
    /\ pc[p] \in StartPCs \cup StopPCs \cup {"mark"} =>
          call[p].attempts <= StartMaxAttempts /\ starts[i] <= call[p].attempts

\* Whatever is wished for names a version, in the log and in a call that writes it.
NamesVersion(p) ==
    /\ pc[p] \in {"createDeployment", "setDesired", "upgrade", "revokeNext", "revokeDeployment"} =>
          call[p].version \in Version
    /\ pc[p] \in {"createDeployment", "setDesired", "upgrade", "revokeDeployment"} =>
          call[p].desired \in DesiredStates

WishesNamed ==
    /\ \A d \in DeploymentId : Created(d) => deployment[d].version \in Version
    /\ \A p \in Caller : NamesVersion(p)

OneCallerInv ==
    /\ TablesOK
    /\ \A p \in Caller : DeploymentFresh(p) /\ InstanceFresh(p) /\ AttemptsFresh(p)
    /\ OneActive
    /\ RunningIsTracked
    /\ AtMostOneRunning
    /\ AttemptsOK

=============================================================================
