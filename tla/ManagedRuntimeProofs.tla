------------------------ MODULE ManagedRuntimeProofs ------------------------
(***************************************************************************)
(* What ManagedRuntime keeps for every set of callers, versions, ids and   *)
(* every attempt limit.  The theorems on running containers assume the one *)
(* caller of the phase 10.3 report (SingleCaller).                         *)
(***************************************************************************)
EXTENDS ManagedRuntime, TLAPS

-----------------------------------------------------------------------------
(* Types.                                                                  *)

LEMMA LabelsTyped ==
    /\ "none" \in Results /\ "CRASHED" \in Results /\ "idle" \in PCs
BY DEF Results, PCs

LEMMA NoCallTyped == NoCall \in CallType
BY DEF NoCall, CallType

\* The four ways a call goes on keep the types of its control state.
LEMMA GotoTyped ==
    ASSUME TypeOK, NEW p \in Caller, NEW l \in PCs, Goto(p, l)
    PROVE  /\ pc' \in [Caller -> PCs] /\ call' \in [Caller -> CallType]
           /\ result' \in [Caller -> Results]
BY DEF TypeOK, Goto

LEMMA GotoWithTyped ==
    ASSUME TypeOK, NEW p \in Caller, NEW l \in PCs, NEW c \in CallType, GotoWith(p, l, c)
    PROVE  /\ pc' \in [Caller -> PCs] /\ call' \in [Caller -> CallType]
           /\ result' \in [Caller -> Results]
BY DEF TypeOK, GotoWith

LEMMA ReturnTyped ==
    ASSUME TypeOK, NEW p \in Caller, NEW r \in Results, Return(p, r)
    PROVE  /\ pc' \in [Caller -> PCs] /\ call' \in [Caller -> CallType]
           /\ result' \in [Caller -> Results]
BY LabelsTyped, NoCallTyped DEF TypeOK, Return

LEMMA BeginTyped ==
    ASSUME TypeOK, NEW p \in Caller, NEW l \in PCs, NEW c \in CallType, Begin(p, l, c)
    PROVE  TypeOK'
BY LabelsTyped DEF TypeOK, Begin, Decides, logs, docker

\* A step that only reads keeps the types when it keeps those of the control state.
LEMMA DecidesTyped ==
    ASSUME TypeOK, NEW p \in Caller, NEW l, Decides(p, l),
           pc' \in [Caller -> PCs], call' \in [Caller -> CallType],
           result' \in [Caller -> Results]
    PROVE  TypeOK'
BY DEF TypeOK, Decides, logs, docker

LEMMA AppendInstanceTyped ==
    ASSUME TypeOK, NEW p \in Caller, NEW s \in ObservedStates, AppendInstance(p, s),
           pc' \in [Caller -> PCs], call' \in [Caller -> CallType],
           result' \in [Caller -> Results]
    PROVE  TypeOK'
<1> DEFINE i == call[p].inst
           rec == [instance[i] EXCEPT !.state = s, !.attempts = call[p].attempts]
<1>1. call[p].attempts \in Nat
  BY DEF TypeOK, CallType
<1>2. ASSUME i \in InstanceId PROVE rec \in InstanceType
  <2>1. instance[i] \in InstanceType
    BY <1>2 DEF TypeOK
  <2> QED BY <1>1, <2>1 DEF InstanceType
<1>3. instance' = [j \in InstanceId |-> IF j = i THEN rec ELSE instance[j]]
  BY DEF AppendInstance, TypeOK
<1>4. instance' \in [InstanceId -> InstanceType]
  BY <1>2, <1>3 DEF TypeOK
<1> QED BY <1>4 DEF TypeOK, AppendInstance, docker

LEMMA WriteDeploymentTyped ==
    ASSUME TypeOK, NEW p \in Caller, WriteDeployment(p),
           pc' \in [Caller -> PCs], call' \in [Caller -> CallType],
           result' \in [Caller -> Results]
    PROVE  TypeOK'
<1>1. [version |-> call[p].version, desired |-> call[p].desired] \in DeploymentType
  BY DEF TypeOK, CallType, DeploymentType
<1> QED BY <1>1 DEF TypeOK, WriteDeployment, docker

\* The copy of an instance a call takes.
LEMMA TakeTyped ==
    ASSUME TypeOK, NEW p \in Caller, NEW i \in InstanceId, NEW l \in PCs,
           NEW n \in {"report", "switch", "revoke"}, Take(p, l, i, n)
    PROVE  /\ pc' \in [Caller -> PCs] /\ call' \in [Caller -> CallType]
           /\ result' \in [Caller -> Results]
<1>1. [call[p] EXCEPT !.inst = i, !.next = n, !.attempts = instance[i].attempts] \in CallType
  BY ZenonT(40) DEF TypeOK, CallType, InstanceType
<1> QED BY <1>1, GotoWithTyped DEF Take

-----------------------------------------------------------------------------
(* Any number of callers: types, and the order of a revocation's writes.   *)

SharedInv == TypeOK /\ CallOK /\ RevocationOrder

LEMMA InitShared == Init => SharedInv
<1> SUFFICES ASSUME Init PROVE SharedInv
  OBVIOUS
<1>1. TypeOK
  <2>1. NoDeployment \in DeploymentType /\ NoInstance \in InstanceType
    BY DEF NoDeployment, NoInstance, DeploymentType, InstanceType
  <2> QED BY <2>1, NoCallTyped, LabelsTyped DEF Init, TypeOK
<1>2. CallOK
  BY DEF Init, CallOK, Knows, DeploymentPCs, VersionPCs, StartPCs, StopPCs
<1>3. RevocationOrder
  BY DEF Init, RevocationOrder, LedgerBeforeRecord
<1> QED BY <1>1, <1>2, <1>3 DEF SharedInv

LEMMA CallsTyped ==
    ASSUME SharedInv, NEW p \in Caller, Calls(p)
    PROVE  TypeOK'
<1> USE DEF SharedInv
<1>1. ASSUME NEW v \in Version, CreateVersion(p, v) PROVE TypeOK'
  <2>1. [NoCall EXCEPT !.version = v] \in CallType
    BY NoCallTyped DEF CallType
  <2> QED BY <1>1, <2>1, BeginTyped DEF CreateVersion, PCs
<1>2. ASSUME NEW v \in Version, NEW s \in DesiredStates, CreateDeployment(p, v, s)
      PROVE  TypeOK'
  <2>1. [NoCall EXCEPT !.version = v, !.desired = s] \in CallType
    BY NoCallTyped DEF CallType
  <2> QED BY <1>2, <2>1, BeginTyped DEF CreateDeployment, PCs
<1>3. ASSUME NEW d \in DeploymentId, NEW s \in DesiredStates, SetDesiredState(p, d, s)
      PROVE  TypeOK'
  <2>1. [NoCall EXCEPT !.dep = d, !.version = deployment[d].version, !.desired = s] \in CallType
    BY NoCallTyped DEF CallType, TypeOK, DeploymentType
  <2> QED BY <1>3, <2>1, BeginTyped DEF SetDesiredState, PCs
<1>4. ASSUME NEW d \in DeploymentId, NEW v \in Version, Upgrade(p, d, v) PROVE TypeOK'
  <2>1. [NoCall EXCEPT !.dep = d, !.version = v, !.desired = "RUNNING"] \in CallType
    BY NoCallTyped DEF CallType, DesiredStates
  <2>2. (IF deployment[d] = [version |-> v, desired |-> "RUNNING"]
         THEN "resolve" ELSE "upgrade") \in PCs
    BY DEF PCs
  <2> QED BY <1>4, <2>1, <2>2, BeginTyped DEF Upgrade
<1>5. ASSUME NEW d \in DeploymentId, Reconcile(p, d) PROVE TypeOK'
  <2>1. [NoCall EXCEPT !.dep = d] \in CallType
    BY NoCallTyped DEF CallType
  <2> QED BY <1>5, <2>1, BeginTyped DEF Reconcile, PCs
<1>6. ASSUME NEW v \in Version, RevokeVersion(p, v) PROVE TypeOK'
  <2>1. [NoCall EXCEPT !.version = v] \in CallType
    BY NoCallTyped DEF CallType
  <2>2. CASE version[v] = "REVOKED"
    BY <1>6, <2>2, ReturnTyped, DecidesTyped DEF RevokeVersion, Results, Decides
  <2>3. CASE version[v] # "REVOKED"
    BY <1>6, <2>1, <2>3, BeginTyped DEF RevokeVersion, PCs
  <2> QED BY <2>2, <2>3
<1>7. ASSUME NEW i \in InstanceId, ManualStop(p, i) PROVE TypeOK'
  <2>1. [NoCall EXCEPT !.dep = instance[i].dep, !.inst = i,
                       !.attempts = instance[i].attempts] \in CallType
    BY NoCallTyped DEF CallType, TypeOK, InstanceType
  <2> QED BY <1>7, <2>1, BeginTyped DEF ManualStop, PCs, StopPCs
<1> QED BY <1>1, <1>2, <1>3, <1>4, <1>5, <1>6, <1>7 DEF Calls

LEMMA StepsTyped ==
    ASSUME SharedInv, NEW p \in Caller, Steps(p)
    PROVE  TypeOK'
<1> DEFINE ControlTyped == /\ pc' \in [Caller -> PCs] /\ call' \in [Caller -> CallType]
                           /\ result' \in [Caller -> Results]
<1> USE DEF SharedInv
<1>1. CASE LoadRunRequest(p)
  BY <1>1, GotoTyped, ReturnTyped, DecidesTyped DEF LoadRunRequest, PCs, Results
<1>2. CASE PublishVersion(p)
  BY <1>2, GotoTyped, ReturnTyped, DecidesTyped DEF PublishVersion, PCs, Results
<1>3. CASE AppendVersion(p)
  BY <1>3, ReturnTyped DEF AppendVersion, TypeOK, docker, Results
<1>4. CASE AppendDesired(p)
  BY <1>4, ReturnTyped, WriteDeploymentTyped DEF AppendDesired, Results
<1>5. CASE AppendUpgrade(p)
  BY <1>5, GotoTyped, WriteDeploymentTyped DEF AppendUpgrade, PCs
<1>6. CASE Resolve(p)
  <2>1. call[p].dep \in DeploymentId
    BY <1>6 DEF Resolve, Decides, CallOK, Knows, DeploymentPCs
  <2>2. [call[p] EXCEPT !.version = deployment[call[p].dep].version,
                        !.desired = deployment[call[p].dep].desired] \in CallType
    BY ZenonT(40), <2>1 DEF TypeOK, CallType, DeploymentType
  <2> QED BY <1>6, <2>2, GotoWithTyped, DecidesTyped DEF Resolve, PCs
<1>7. CASE ReconcileRunning(p)
  <2>1. CASE VersionRevoked(call[p].version) /\ Return(p, "REJECT")
    BY <1>7, <2>1, ReturnTyped, DecidesTyped DEF ReconcileRunning, Results
  <2>2. CASE Goto(p, "ready")
    BY <1>7, <2>2, GotoTyped, DecidesTyped DEF ReconcileRunning, PCs
  <2>3. ASSUME NEW i \in InstanceId, ReconcileSwitch(p, i) PROVE ControlTyped
    BY <2>3, TakeTyped, ReturnTyped DEF ReconcileSwitch, PCs, StopPCs, Results
  <2>4. ASSUME NEW i \in InstanceId, ReconcileSame(p, i) PROVE ControlTyped
    <3>1. Attempt(i) + 1 \in Nat
      BY DEF Attempt, TypeOK, InstanceType
    <3>2. [call[p] EXCEPT !.inst = i, !.attempts = Attempt(i) + 1] \in CallType
      BY ZenonT(40), <3>1 DEF TypeOK, CallType
    <3> QED BY <2>4, <3>2, GotoWithTyped, ReturnTyped
            DEF ReconcileSame, PCs, StartPCs, Results
  <2> QED BY <1>7, <2>1, <2>2, <2>3, <2>4, DecidesTyped DEF ReconcileRunning
<1>8. CASE ReconcileStopped(p)
  BY <1>8, TakeTyped, ReturnTyped, DecidesTyped
     DEF ReconcileStopped, PCs, StopPCs, Results
<1>9. CASE ReconcileRevoked(p)
  BY <1>9, TakeTyped, ReturnTyped, DecidesTyped
     DEF ReconcileRevoked, PCs, StopPCs, Results
<1>10. CASE AppendReady(p)
  <2>1. PICK i \in InstanceId :
          /\ instance' = [instance EXCEPT ![i] =
                [dep |-> call[p].dep, version |-> call[p].version,
                 state |-> "READY", attempts |-> 0]]
          /\ GotoWith(p, "starting", [call[p] EXCEPT !.inst = i, !.attempts = 1])
    BY <1>10 DEF AppendReady
  <2>2. [dep |-> call[p].dep, version |-> call[p].version,
         state |-> "READY", attempts |-> 0] \in InstanceType
    BY DEF TypeOK, CallType, InstanceType, ObservedStates
  <2>3. [call[p] EXCEPT !.inst = i, !.attempts = 1] \in CallType
    BY ZenonT(40) DEF TypeOK, CallType
  <2>4. ControlTyped
    BY <2>1, <2>3, GotoWithTyped DEF PCs, StartPCs
  <2>5. instance' \in [InstanceId -> InstanceType]
    BY <2>1, <2>2 DEF TypeOK
  <2> QED BY <1>10, <2>4, <2>5 DEF AppendReady, TypeOK, docker
<1>11. CASE AppendStarting(p)
  BY <1>11, GotoTyped, AppendInstanceTyped DEF AppendStarting, PCs, StartPCs, ObservedStates
<1>12. CASE VerifyAtMount(p)
  <2>1. ControlTyped
    BY <1>12, GotoTyped, ReturnTyped DEF VerifyAtMount, PCs, StartPCs, Results
  <2>2. call[p].inst \in InstanceId /\ starts[call[p].inst] + 1 \in Nat
    BY <1>12 DEF VerifyAtMount, TypeOK, CallOK, Knows, StartPCs
  <2>3. starts' \in [InstanceId -> Nat]
    BY <1>12, <2>2 DEF VerifyAtMount, TypeOK
  <2> QED BY <1>12, <2>1, <2>3 DEF VerifyAtMount, TypeOK, logs
<1>13. CASE DockerRun(p)
  <2>1. ControlTyped
    BY <1>13, GotoTyped DEF DockerRun, PCs, StartPCs
  <2>2. container' \in [InstanceId -> {"none", "up", "exited"}]
    BY <1>13 DEF DockerRun, TypeOK
  <2> QED BY <1>13, <2>1, <2>2 DEF DockerRun, TypeOK, logs
<1>14. CASE AppendStarted(p)
  BY <1>14, ReturnTyped, AppendInstanceTyped DEF AppendStarted, Results, ObservedStates
<1>15. CASE AppendStopping(p)
  BY <1>15, GotoTyped, AppendInstanceTyped DEF AppendStopping, PCs, StopPCs, ObservedStates
<1>16. CASE DockerKill(p)
  <2>1. ControlTyped
    BY <1>16, GotoTyped DEF DockerKill, PCs, StopPCs
  <2>2. container' \in [InstanceId -> {"none", "up", "exited"}]
    BY <1>16 DEF DockerKill, TypeOK
  <2> QED BY <1>16, <2>1, <2>2 DEF DockerKill, TypeOK, logs
<1>17. CASE AppendStopFailed(p)
  <2>1. (IF call[p].next = "switch" THEN "RECONCILE_REQUIRED" ELSE "FAILED") \in Results
    BY DEF Results
  <2> QED BY <1>17, <2>1, ReturnTyped, AppendInstanceTyped DEF AppendStopFailed, ObservedStates
<1>18. CASE AppendStopped(p)
  <2>1. ControlTyped
    BY <1>18, GotoTyped, ReturnTyped DEF AppendStopped, PCs, Results
  <2> QED BY <1>18, <2>1, AppendInstanceTyped DEF AppendStopped, ObservedStates
<1>19. CASE MarkRevoked(p)
  BY <1>19, ReturnTyped, AppendInstanceTyped DEF MarkRevoked, Results, ObservedStates
<1>20. CASE RevokeAuthority(p)
  <2>1. ControlTyped
    BY <1>20, GotoTyped, ReturnTyped DEF RevokeAuthority, PCs, Results
  <2>2. ledger' \subseteq Version
    BY <1>20 DEF RevokeAuthority, TypeOK, CallOK, Knows, VersionPCs
  <2> QED BY <1>20, <2>1, <2>2 DEF RevokeAuthority, TypeOK, docker
<1>21. CASE AppendVersionRevoked(p)
  BY <1>21, GotoTyped DEF AppendVersionRevoked, TypeOK, docker, PCs
<1>22. CASE ListDeployments(p)
  <2>1. [call[p] EXCEPT !.todo = {d \in DeploymentId :
            /\ deployment[d].version = call[p].version
            /\ deployment[d].desired # "REVOKED"}] \in CallType
    BY SMTT(30) DEF TypeOK, CallType
  <2> QED BY <1>22, <2>1, GotoWithTyped, DecidesTyped DEF ListDeployments, PCs
<1>23. CASE RevokeNext(p)
  <2>1. ASSUME NEW d \in call[p].todo
        PROVE  /\ [call[p] EXCEPT !.todo = @ \ {d}] \in CallType
               /\ [[call[p] EXCEPT !.todo = @ \ {d}] EXCEPT !.dep = d, !.desired = "REVOKED",
                       !.version = deployment[d].version] \in CallType
    BY ZenonT(40) DEF TypeOK, CallType, DeploymentType, DesiredStates
  <2> QED BY <1>23, <2>1, GotoWithTyped, ReturnTyped, DecidesTyped DEF RevokeNext, PCs, Results
<1>24. CASE AppendDeploymentRevoked(p)
  BY <1>24, GotoTyped, WriteDeploymentTyped DEF AppendDeploymentRevoked, PCs
<1>25. CASE AppendDeployment(p)
  <2>1. [version |-> call[p].version, desired |-> call[p].desired] \in DeploymentType
    BY DEF TypeOK, CallType, DeploymentType
  <2>2. deployment' \in [DeploymentId -> DeploymentType]
    BY <1>25, <2>1 DEF AppendDeployment, TypeOK
  <2>3. ControlTyped
    BY <1>25, ReturnTyped DEF AppendDeployment, Results
  <2> QED BY <1>25, <2>2, <2>3 DEF AppendDeployment, TypeOK, docker
<1> QED BY <1>1, <1>2, <1>3, <1>4, <1>5, <1>6, <1>7, <1>8, <1>9, <1>10, <1>11, <1>12,
           <1>13, <1>14, <1>15, <1>16, <1>17, <1>18, <1>19, <1>20, <1>21, <1>22, <1>23,
           <1>24, <1>25 DEF Steps

\* What a step owes to the other invariants: the call knows the ids of its next
\* step, and no version is recorded REVOKED before the ledger.
Keeps(p, label, c) ==
    /\ pc' = [pc EXCEPT ![p] = label]
    /\ call' = [call EXCEPT ![p] = c]
    /\ Knows(label, c)
    /\ label = "revokeVersion" => c.version \in ledger'
    /\ ledger \subseteq ledger'
    /\ \A v \in Version : version'[v] = "REVOKED" => version[v] = "REVOKED" \/ v \in ledger'

LEMMA KeepsShared ==
    ASSUME SharedInv, NEW p \in Caller, NEW label, NEW c, Keeps(p, label, c)
    PROVE  CallOK' /\ RevocationOrder'
<1>1. ASSUME NEW q \in Caller
      PROVE  /\ q = p => pc'[q] = label /\ call'[q] = c
             /\ q # p => pc'[q] = pc[q] /\ call'[q] = call[q]
  BY DEF SharedInv, TypeOK, Keeps
<1>2. CallOK'
  BY <1>1 DEF SharedInv, CallOK, Keeps, Knows
<1>3. RevocationOrder'
  BY <1>1 DEF SharedInv, RevocationOrder, LedgerBeforeRecord, Keeps
<1> QED BY <1>2, <1>3

LEMMA IdleKnows == \A c : Knows("idle", c)
BY DEF Knows, DeploymentPCs, VersionPCs, StartPCs, StopPCs

\* The ways a call goes on, for a step that leaves versions and ledger alone.
LEMMA ReturnKeeps ==
    ASSUME SharedInv, NEW p \in Caller, NEW r, Return(p, r), UNCHANGED <<version, ledger>>
    PROVE  CallOK' /\ RevocationOrder'
<1>1. Keeps(p, "idle", NoCall)
  BY IdleKnows DEF Return, Keeps
<1> QED BY <1>1, KeepsShared

LEMMA GotoWithKeeps ==
    ASSUME SharedInv, NEW p \in Caller, NEW label, NEW c, GotoWith(p, label, c),
           Knows(label, c), label # "revokeVersion", UNCHANGED <<version, ledger>>
    PROVE  CallOK' /\ RevocationOrder'
<1>1. Keeps(p, label, c)
  BY DEF GotoWith, Keeps
<1> QED BY <1>1, KeepsShared

LEMMA GotoKeeps ==
    ASSUME SharedInv, NEW p \in Caller, NEW label, Goto(p, label),
           Knows(label, call[p]), label # "revokeVersion", UNCHANGED <<version, ledger>>
    PROVE  CallOK' /\ RevocationOrder'
<1>1. call' = [call EXCEPT ![p] = call[p]]
  BY DEF Goto, SharedInv, TypeOK
<1>2. Keeps(p, label, call[p])
  BY <1>1 DEF Goto, Keeps
<1> QED BY <1>2, KeepsShared

LEMMA BeginKeeps ==
    ASSUME SharedInv, NEW p \in Caller, NEW label, NEW c, Begin(p, label, c),
           Knows(label, c), label # "revokeVersion"
    PROVE  CallOK' /\ RevocationOrder'
<1>1. Keeps(p, label, c)
  BY DEF Begin, Decides, Keeps, logs
<1> QED BY <1>1, KeepsShared

LEMMA CallsKeep ==
    ASSUME SharedInv, NEW p \in Caller, Calls(p)
    PROVE  CallOK' /\ RevocationOrder'
<1>1. ASSUME NEW v \in Version, CreateVersion(p, v) PROVE CallOK' /\ RevocationOrder'
  <2>1. Knows("loadRunRequest", [NoCall EXCEPT !.version = v])
    BY DEF Knows, DeploymentPCs, VersionPCs, StartPCs, StopPCs, NoCall
  <2> QED BY <1>1, <2>1, BeginKeeps DEF CreateVersion
<1>2. ASSUME NEW v \in Version, NEW s \in DesiredStates, CreateDeployment(p, v, s)
      PROVE  CallOK' /\ RevocationOrder'
  <2>1. Knows("createDeployment", [NoCall EXCEPT !.version = v, !.desired = s])
    BY DEF Knows, DeploymentPCs, VersionPCs, StartPCs, StopPCs, NoCall
  <2> QED BY <1>2, <2>1, BeginKeeps DEF CreateDeployment
<1>3. ASSUME NEW d \in DeploymentId, NEW s \in DesiredStates, SetDesiredState(p, d, s)
      PROVE  CallOK' /\ RevocationOrder'
  <2>1. Knows("setDesired", [NoCall EXCEPT !.dep = d, !.version = deployment[d].version,
                                           !.desired = s])
    BY DEF Knows, DeploymentPCs, VersionPCs, StartPCs, StopPCs, NoCall
  <2> QED BY <1>3, <2>1, BeginKeeps DEF SetDesiredState
<1>4. ASSUME NEW d \in DeploymentId, NEW v \in Version, Upgrade(p, d, v)
      PROVE  CallOK' /\ RevocationOrder'
  <2> DEFINE c == [NoCall EXCEPT !.dep = d, !.version = v, !.desired = "RUNNING"]
             label == IF deployment[d] = [version |-> v, desired |-> "RUNNING"]
                      THEN "resolve" ELSE "upgrade"
  <2>1. Knows("resolve", c) /\ Knows("upgrade", c)
    BY DEF Knows, DeploymentPCs, VersionPCs, StartPCs, StopPCs, NoCall
  <2>2. Begin(p, label, c)
    BY <1>4 DEF Upgrade
  <2> QED BY <2>1, <2>2, BeginKeeps
<1>5. ASSUME NEW d \in DeploymentId, Reconcile(p, d) PROVE CallOK' /\ RevocationOrder'
  <2>1. Knows("resolve", [NoCall EXCEPT !.dep = d])
    BY DEF Knows, DeploymentPCs, VersionPCs, StartPCs, StopPCs, NoCall
  <2> QED BY <1>5, <2>1, BeginKeeps DEF Reconcile
<1>6. ASSUME NEW v \in Version, RevokeVersion(p, v) PROVE CallOK' /\ RevocationOrder'
  <2>1. Knows("revokeAuthority", [NoCall EXCEPT !.version = v])
    BY DEF Knows, DeploymentPCs, VersionPCs, StartPCs, StopPCs, NoCall
  <2> QED BY <1>6, <2>1, BeginKeeps, ReturnKeeps DEF RevokeVersion, logs
<1>7. ASSUME NEW i \in InstanceId, ManualStop(p, i) PROVE CallOK' /\ RevocationOrder'
  <2>1. Knows("stopping", [NoCall EXCEPT !.dep = instance[i].dep, !.inst = i,
                                         !.attempts = instance[i].attempts])
    BY DEF Knows, DeploymentPCs, VersionPCs, StartPCs, StopPCs, NoCall
  <2> QED BY <1>7, <2>1, BeginKeeps DEF ManualStop
<1> QED BY <1>1, <1>2, <1>3, <1>4, <1>5, <1>6, <1>7 DEF Calls

LEMMA StepsKeep ==
    ASSUME SharedInv, NEW p \in Caller, Steps(p)
    PROVE  CallOK' /\ RevocationOrder'
<1> DEFINE Kept == CallOK' /\ RevocationOrder'
<1>0. Knows(pc[p], call[p])
  BY DEF SharedInv, CallOK
<1>1. CASE LoadRunRequest(p)
  <2>1. Knows("publish", call[p])
    BY <1>0, <1>1 DEF LoadRunRequest, Decides, Knows, DeploymentPCs, VersionPCs, StartPCs, StopPCs
  <2> QED BY <1>1, <2>1, GotoKeeps, ReturnKeeps DEF LoadRunRequest, Decides, logs
<1>2. CASE PublishVersion(p)
  <2>1. Knows("appendVersion", call[p])
    BY <1>0, <1>2 DEF PublishVersion, Decides, Knows, DeploymentPCs, VersionPCs, StartPCs, StopPCs
  <2> QED BY <1>2, <2>1, GotoKeeps, ReturnKeeps DEF PublishVersion, Decides, logs
<1>3. CASE AppendVersion(p)
  <2>1. \A v \in Version : version'[v] = "REVOKED" => version[v] = "REVOKED"
    BY <1>3 DEF AppendVersion, SharedInv, TypeOK
  <2>2. Keeps(p, "idle", NoCall)
    BY <1>3, <2>1, IdleKnows DEF AppendVersion, Return, Keeps
  <2> QED BY <2>2, KeepsShared
<1>4. CASE AppendDesired(p) \/ AppendDeployment(p)
  BY <1>4, ReturnKeeps DEF AppendDesired, AppendDeployment, WriteDeployment
<1>5. CASE AppendUpgrade(p)
  <2>1. Knows("resolve", call[p])
    BY <1>0, <1>5 DEF AppendUpgrade, Knows, DeploymentPCs, VersionPCs, StartPCs, StopPCs
  <2> QED BY <1>5, <2>1, GotoKeeps DEF AppendUpgrade, WriteDeployment
<1>6. CASE Resolve(p)
  <2> DEFINE c == [call[p] EXCEPT !.version = deployment[call[p].dep].version,
                                  !.desired = deployment[call[p].dep].desired]
  <2>1. call[p] \in CallType
    BY DEF SharedInv, TypeOK
  <2>2. c.dep = call[p].dep
    BY <2>1 DEF CallType
  <2>3. Knows("observe", c)
    BY <1>0, <1>6, <2>2 DEF Resolve, Decides, Knows, DeploymentPCs, VersionPCs, StartPCs, StopPCs
  <2> QED BY <1>6, <2>3, GotoWithKeeps DEF Resolve, Decides, logs
<1>7. CASE ReconcileRunning(p) \/ ReconcileStopped(p) \/ ReconcileRevoked(p)
  <2>1. UNCHANGED <<version, ledger>>
    BY <1>7 DEF ReconcileRunning, ReconcileStopped, ReconcileRevoked, Decides, logs
  <2>2. call[p].dep \in DeploymentId
    BY <1>0, <1>7 DEF ReconcileRunning, ReconcileStopped, ReconcileRevoked, Decides, Knows,
                      DeploymentPCs
  <2>3. call[p] \in CallType
    BY DEF SharedInv, TypeOK
  <2>4. Knows("ready", call[p])
    BY <2>2 DEF Knows, DeploymentPCs, VersionPCs, StartPCs, StopPCs
  <2>5. ASSUME NEW i \in InstanceId, NEW n, NEW l \in {"stopping", "mark"}, Take(p, l, i, n)
        PROVE  Kept
    <3> DEFINE c == [call[p] EXCEPT !.inst = i, !.next = n, !.attempts = instance[i].attempts]
    <3>1. c.inst = i /\ c.dep = call[p].dep
      BY <2>3 DEF CallType
    <3>2. Knows(l, c)
      BY <2>2, <3>1 DEF Knows, DeploymentPCs, VersionPCs, StartPCs, StopPCs
    <3> QED BY <2>1, <2>5, <3>2, GotoWithKeeps DEF Take
  <2>6. ASSUME NEW i \in InstanceId, ReconcileSame(p, i) PROVE Kept
    <3> DEFINE c == [call[p] EXCEPT !.inst = i, !.attempts = Attempt(i) + 1]
    <3>1. c.inst = i /\ c.dep = call[p].dep
      BY <2>3 DEF CallType
    <3>2. Knows("starting", c)
      BY <2>2, <3>1 DEF Knows, DeploymentPCs, VersionPCs, StartPCs, StopPCs
    <3> QED BY <2>1, <2>6, <3>2, GotoWithKeeps, ReturnKeeps DEF ReconcileSame
  <2>7. CASE ReconcileRunning(p)
    BY <2>1, <2>4, <2>5, <2>6, <2>7, GotoKeeps, ReturnKeeps
       DEF ReconcileRunning, ReconcileSwitch
  <2>8. CASE ReconcileStopped(p)
    BY <2>1, <2>5, <2>8, ReturnKeeps DEF ReconcileStopped
  <2>9. CASE ReconcileRevoked(p)
    BY <2>1, <2>5, <2>9, ReturnKeeps DEF ReconcileRevoked
  <2> QED BY <1>7, <2>7, <2>8, <2>9
<1>8. CASE AppendReady(p)
  <2>1. PICK i \in InstanceId : GotoWith(p, "starting", [call[p] EXCEPT !.inst = i, !.attempts = 1])
    BY <1>8 DEF AppendReady
  <2> DEFINE c == [call[p] EXCEPT !.inst = i, !.attempts = 1]
  <2>2. call[p] \in CallType
    BY DEF SharedInv, TypeOK
  <2>3. c.inst = i /\ c.dep = call[p].dep
    BY <2>2 DEF CallType
  <2>4. Knows("starting", c)
    BY <1>0, <1>8, <2>3 DEF AppendReady, Knows, DeploymentPCs, VersionPCs, StartPCs, StopPCs
  <2> QED BY <1>8, <2>1, <2>4, GotoWithKeeps DEF AppendReady
<1>9. CASE AppendStarting(p) \/ VerifyAtMount(p) \/ DockerRun(p) \/ AppendStarted(p)
  <2>1. UNCHANGED <<version, ledger>>
    BY <1>9 DEF AppendStarting, VerifyAtMount, DockerRun, AppendStarted, AppendInstance, logs
  <2>2. ASSUME NEW l \in StartPCs, pc[p] \in StartPCs, l # "starting", Goto(p, l) PROVE Kept
    <3>1. Knows(l, call[p])
      BY <1>0, <2>2 DEF Knows, DeploymentPCs, VersionPCs, StartPCs, StopPCs
    <3> QED BY <2>1, <2>2, <3>1, GotoKeeps DEF StartPCs
  <2> QED BY <1>9, <2>1, <2>2, ReturnKeeps
          DEF AppendStarting, VerifyAtMount, DockerRun, AppendStarted, StartPCs
<1>10. CASE AppendStopping(p) \/ DockerKill(p) \/ AppendStopFailed(p) \/ AppendStopped(p)
            \/ MarkRevoked(p)
  <2>1. UNCHANGED <<version, ledger>>
    BY <1>10 DEF AppendStopping, DockerKill, AppendStopFailed, AppendStopped, MarkRevoked,
                 AppendInstance, logs
  <2>2. ASSUME NEW l \in StopPCs \cup {"mark"}, pc[p] \in StopPCs, Goto(p, l) PROVE Kept
    <3>1. Knows(l, call[p])
      BY <1>0, <2>2 DEF Knows, DeploymentPCs, VersionPCs, StartPCs, StopPCs
    <3> QED BY <2>1, <2>2, <3>1, GotoKeeps DEF StopPCs
  <2>3. ASSUME pc[p] \in StopPCs, call[p].next = "switch", Goto(p, "ready") PROVE Kept
    <3>1. Knows("ready", call[p])
      BY <1>0, <2>3 DEF Knows, DeploymentPCs, VersionPCs, StartPCs, StopPCs
    <3> QED BY <2>1, <2>3, <3>1, GotoKeeps
  <2> QED BY <1>10, <2>1, <2>2, <2>3, ReturnKeeps
          DEF AppendStopping, DockerKill, AppendStopFailed, AppendStopped, MarkRevoked, StopPCs
<1>11. CASE RevokeAuthority(p)
  <2>1. CASE Return(p, "RAISED") /\ UNCHANGED ledger
    BY <1>11, <2>1, ReturnKeeps DEF RevokeAuthority
  <2>2. CASE ledger' = ledger \cup {call[p].version} /\ Goto(p, "revokeVersion")
    <3>1. Knows("revokeVersion", call[p])
      BY <1>0, <1>11 DEF RevokeAuthority, Knows, DeploymentPCs, VersionPCs, StartPCs, StopPCs
    <3>2. call' = [call EXCEPT ![p] = call[p]]
      BY <2>2 DEF Goto, SharedInv, TypeOK
    <3>3. Keeps(p, "revokeVersion", call[p])
      BY <1>11, <2>2, <3>1, <3>2 DEF RevokeAuthority, Goto, Keeps
    <3> QED BY <3>3, KeepsShared
  <2> QED BY <1>11, <2>1, <2>2 DEF RevokeAuthority
<1>12. CASE AppendVersionRevoked(p)
  <2>1. call[p].version \in ledger
    BY <1>12 DEF AppendVersionRevoked, SharedInv, RevocationOrder
  <2>2. Knows("listDeployments", call[p])
    BY <1>0, <1>12 DEF AppendVersionRevoked, Knows, DeploymentPCs, VersionPCs, StartPCs, StopPCs
  <2>3. call' = [call EXCEPT ![p] = call[p]]
    BY <1>12 DEF AppendVersionRevoked, Goto, SharedInv, TypeOK
  <2>4. \A v \in Version : version'[v] = "REVOKED" => version[v] = "REVOKED" \/ v \in ledger'
    BY <1>12, <2>1 DEF AppendVersionRevoked, SharedInv, TypeOK
  <2>5. Keeps(p, "listDeployments", call[p])
    BY <1>12, <2>2, <2>3, <2>4 DEF AppendVersionRevoked, Goto, Keeps
  <2> QED BY <2>5, KeepsShared
<1>13. CASE ListDeployments(p) \/ RevokeNext(p) \/ AppendDeploymentRevoked(p)
  <2>1. UNCHANGED <<version, ledger>>
    BY <1>13 DEF ListDeployments, RevokeNext, AppendDeploymentRevoked, WriteDeployment, Decides, logs
  <2>2. ASSUME NEW c, GotoWith(p, "revokeNext", c) PROVE Kept
    <3>1. Knows("revokeNext", c)
      BY DEF Knows, DeploymentPCs, VersionPCs, StartPCs, StopPCs
    <3> QED BY <2>1, <2>2, <3>1, GotoWithKeeps
  <2>3. ASSUME NEW d \in call[p].todo,
               GotoWith(p, "revokeDeployment", [[call[p] EXCEPT !.todo = @ \ {d}] EXCEPT
                   !.dep = d, !.desired = "REVOKED", !.version = deployment[d].version])
        PROVE  Kept
    <3> DEFINE c == [[call[p] EXCEPT !.todo = @ \ {d}] EXCEPT
                   !.dep = d, !.desired = "REVOKED", !.version = deployment[d].version]
    <3>1. call[p] \in CallType
      BY DEF SharedInv, TypeOK
    <3>2. c.dep = d /\ d \in DeploymentId
      BY <3>1 DEF CallType
    <3>3. Knows("revokeDeployment", c)
      BY <3>2 DEF Knows, DeploymentPCs, VersionPCs, StartPCs, StopPCs
    <3> QED BY <2>1, <2>3, <3>3, GotoWithKeeps
  <2>4. CASE ListDeployments(p) \/ RevokeNext(p)
    BY <2>1, <2>2, <2>3, <2>4, ReturnKeeps DEF ListDeployments, RevokeNext
  <2>5. CASE AppendDeploymentRevoked(p)
    <3>1. Knows("revokeNext", call[p])
      BY <1>0, <2>5 DEF AppendDeploymentRevoked, Knows, DeploymentPCs, VersionPCs, StartPCs, StopPCs
    <3> QED BY <2>1, <2>5, <3>1, GotoKeeps DEF AppendDeploymentRevoked
  <2> QED BY <1>13, <2>4, <2>5
<1> QED BY <1>1, <1>2, <1>3, <1>4, <1>5, <1>6, <1>7, <1>8, <1>9, <1>10, <1>11, <1>12, <1>13
        DEF Steps

LEMMA StepShared == SharedInv /\ [Next]_vars => SharedInv'
<1> SUFFICES ASSUME SharedInv, [Next]_vars PROVE SharedInv'
  OBVIOUS
<1>1. ASSUME NEW p \in Caller, Calls(p) PROVE SharedInv'
  BY <1>1, CallsTyped, CallsKeep DEF SharedInv
<1>2. ASSUME NEW p \in Caller, Steps(p) PROVE SharedInv'
  BY <1>2, StepsTyped, StepsKeep DEF SharedInv
<1>3. ASSUME NEW p \in Caller, Crash(p) PROVE SharedInv'
  <2>1. TypeOK'
    BY <1>3, LabelsTyped, ReturnTyped DEF Crash, SharedInv, TypeOK, logs, docker
  <2> QED BY <1>3, <2>1, ReturnKeeps DEF Crash, SharedInv, logs
<1>4. ASSUME NEW i \in InstanceId, ContainerExits(i) PROVE SharedInv'
  <2>1. TypeOK'
    BY <1>4 DEF ContainerExits, SharedInv, TypeOK, logs
  <2> QED BY <1>4, <2>1 DEF ContainerExits, SharedInv, logs, CallOK, RevocationOrder,
                            LedgerBeforeRecord
<1>5. ASSUME NEW v \in Version, RevokeAuthorityDirectly(v) PROVE SharedInv'
  <2>1. TypeOK'
    BY <1>5 DEF RevokeAuthorityDirectly, SharedInv, TypeOK, docker
  <2> QED BY <1>5, <2>1 DEF RevokeAuthorityDirectly, SharedInv, CallOK, RevocationOrder,
                            LedgerBeforeRecord
<1>6. CASE UNCHANGED vars
  BY <1>6 DEF vars, logs, docker, SharedInv, TypeOK, CallOK, RevocationOrder,
              LedgerBeforeRecord
<1> QED BY <1>1, <1>2, <1>3, <1>4, <1>5, <1>6 DEF Next

LEMMA SharedCorrect == Spec => []SharedInv
<1> QED BY InitShared, StepShared, PTL DEF Spec

\* Every reachable state is typed, with any number of concurrent callers that may
\* crash between two appends of managed_runtime.py.
THEOREM TypeCorrect == Spec => []TypeOK
<1>1. SharedInv => TypeOK
  BY DEF SharedInv
<1> QED BY <1>1, SharedCorrect, PTL

\* revoke_version never records a version REVOKED that the authority ledger does
\* not know as revoked, with any number of concurrent callers and any crash.
THEOREM LedgerFirst == Spec => []LedgerBeforeRecord
<1>1. SharedInv => LedgerBeforeRecord
  BY DEF SharedInv, RevocationOrder
<1> QED BY <1>1, SharedCorrect, PTL

-----------------------------------------------------------------------------
(***************************************************************************)
(* What ManagedRuntime keeps under the single process assumption of the    *)
(* phase 10.3 report, for every set of versions, ids and attempt limit:    *)
(* OneCallerInv is inductive.  It says that what a call read before its    *)
(* current step (the deployment, its copy of the instance) is still so.    *)
(***************************************************************************)

SingleCaller == \A p, q \in Caller : p = q

Inv == SharedInv /\ OneCallerInv

Fresh(p) == DeploymentFresh(p) /\ InstanceFresh(p) /\ AttemptsFresh(p)

\* The part of OneCallerInv about the tables alone.
Tables ==
    /\ TablesOK
    /\ OneActive
    /\ RunningIsTracked
    /\ AtMostOneRunning
    /\ AttemptsOK

LEMMA OneCallerParts == OneCallerInv <=> (Tables /\ \A p \in Caller : Fresh(p))
BY DEF OneCallerInv, Tables, Fresh

-----------------------------------------------------------------------------
(* Control state after a step.                                             *)

LEMMA IdleFresh == \A p \in Caller : pc[p] = "idle" => Fresh(p)
BY DEF Fresh, DeploymentFresh, InstanceFresh, AttemptsFresh, StartPCs, StopPCs

LEMMA AfterReturn ==
    ASSUME TypeOK, NEW p \in Caller, NEW r, Return(p, r)
    PROVE  pc'[p] = "idle"
BY DEF TypeOK, Return

LEMMA AfterGoto ==
    ASSUME TypeOK, NEW p \in Caller, NEW label, Goto(p, label)
    PROVE  pc'[p] = label /\ call'[p] = call[p]
BY DEF TypeOK, Goto

LEMMA AfterGotoWith ==
    ASSUME TypeOK, NEW p \in Caller, NEW label, NEW c, GotoWith(p, label, c)
    PROVE  pc'[p] = label /\ call'[p] = c
BY DEF TypeOK, GotoWith

LEMMA AfterBegin ==
    ASSUME TypeOK, NEW p \in Caller, NEW label, NEW c, Begin(p, label, c)
    PROVE  pc[p] = "idle" /\ pc'[p] = label /\ call'[p] = c /\ UNCHANGED <<logs, docker>>
BY DEF TypeOK, Begin, Decides

\* A call that returns owes nothing.
LEMMA ReturnFresh ==
    ASSUME TypeOK, NEW p \in Caller, NEW r, Return(p, r)
    PROVE  Fresh(p)'
<1>1. pc'[p] = "idle"
  BY AfterReturn
<1> QED BY <1>1 DEF Fresh, DeploymentFresh, InstanceFresh, AttemptsFresh, StartPCs, StopPCs

\* The labels at which a call carries nothing that could become stale.
LEMMA FreeFresh ==
    ASSUME NEW p \in Caller,
           pc'[p] \in {"idle", "loadRunRequest", "publish", "appendVersion",
                       "createDeployment", "revokeAuthority", "revokeVersion", "listDeployments", "revokeNext"}
    PROVE  Fresh(p)'
BY DEF Fresh, DeploymentFresh, InstanceFresh, AttemptsFresh, StartPCs, StopPCs

LEMMA OnlyCaller ==
    ASSUME SingleCaller, NEW p \in Caller, Tables', Fresh(p)'
    PROVE  OneCallerInv'
<1>1. \A q \in Caller : q = p
  BY DEF SingleCaller
<1>2. \A q \in Caller : Fresh(q)'
  BY <1>1
<1> QED BY <1>2 DEF OneCallerInv, Tables, Fresh

LEMMA TablesUnchanged ==
    ASSUME Tables, UNCHANGED <<deployment, instance, container, starts>>
    PROVE  Tables'
BY DEF Tables, TablesOK, OneActive, RunningIsTracked, AtMostOneRunning, AttemptsOK, Created

-----------------------------------------------------------------------------
(* The calls.                                                              *)

LEMMA CallsKeepOneCaller ==
    ASSUME SingleCaller, Inv, NEW p \in Caller, Calls(p)
    PROVE  OneCallerInv'
<1>0. TypeOK /\ Tables /\ Fresh(p)
  BY OneCallerParts DEF Inv, SharedInv
<1>a. ASSUME UNCHANGED <<logs, docker>>, Fresh(p)' PROVE OneCallerInv'
  BY <1>0, <1>a, TablesUnchanged, OnlyCaller DEF logs, docker
<1>1. ASSUME NEW v \in Version, CreateVersion(p, v) PROVE OneCallerInv'
  BY <1>0, <1>1, <1>a, AfterBegin, FreeFresh DEF CreateVersion
<1>2. ASSUME NEW v \in Version, NEW s \in DesiredStates, CreateDeployment(p, v, s)
      PROVE  OneCallerInv'
  BY <1>0, <1>2, <1>a, AfterBegin, FreeFresh DEF CreateDeployment
<1>3. ASSUME NEW d \in DeploymentId, NEW s \in DesiredStates, SetDesiredState(p, d, s)
      PROVE  OneCallerInv'
  <2> DEFINE c == [NoCall EXCEPT !.dep = d, !.version = deployment[d].version, !.desired = s]
  <2>1. pc'[p] = "setDesired" /\ call'[p] = c /\ UNCHANGED <<logs, docker>>
    BY <1>0, <1>3, AfterBegin DEF SetDesiredState
  <2>2. c.dep = d /\ c.desired # "ABSENT"
    BY DEF NoCall, DesiredStates
  <2>3. MayLeave(d)'
    BY <1>3, <2>1 DEF SetDesiredState, MayLeave, Created, logs
  <2>4. Fresh(p)'
    BY <2>1, <2>2, <2>3 DEF Fresh, DeploymentFresh, InstanceFresh, AttemptsFresh,
                            StartPCs, StopPCs
  <2> QED BY <1>a, <2>1, <2>4
<1>4. ASSUME NEW d \in DeploymentId, NEW v \in Version, Upgrade(p, d, v) PROVE OneCallerInv'
  <2> DEFINE c == [NoCall EXCEPT !.dep = d, !.version = v, !.desired = "RUNNING"]
             label == IF deployment[d] = [version |-> v, desired |-> "RUNNING"]
                      THEN "resolve" ELSE "upgrade"
  <2>0. Begin(p, label, c)
    BY <1>4 DEF Upgrade
  <2>1. pc'[p] \in {"resolve", "upgrade"} /\ call'[p] = c /\ UNCHANGED <<logs, docker>>
    BY <1>0, <2>0, AfterBegin
  <2>2. c.dep = d /\ c.desired = "RUNNING"
    BY DEF NoCall
  <2>3. MayLeave(d)' /\ Created(d)'
    BY <1>4, <2>1 DEF Upgrade, MayLeave, Created, logs
  <2>4. Fresh(p)'
    BY <2>1, <2>2, <2>3 DEF Fresh, DeploymentFresh, InstanceFresh, AttemptsFresh,
                            StartPCs, StopPCs
  <2> QED BY <1>a, <2>1, <2>4
<1>5. ASSUME NEW d \in DeploymentId, Reconcile(p, d) PROVE OneCallerInv'
  <2> DEFINE c == [NoCall EXCEPT !.dep = d]
  <2>1. pc'[p] = "resolve" /\ call'[p] = c /\ UNCHANGED <<logs, docker>>
    BY <1>0, <1>5, AfterBegin DEF Reconcile
  <2>2. c.dep = d
    BY DEF NoCall
  <2>3. Created(d)'
    BY <1>5, <2>1 DEF Reconcile, Created, logs
  <2>4. Fresh(p)'
    BY <2>1, <2>2, <2>3 DEF Fresh, DeploymentFresh, InstanceFresh, AttemptsFresh,
                            StartPCs, StopPCs
  <2> QED BY <1>a, <2>1, <2>4
<1>6. ASSUME NEW v \in Version, RevokeVersion(p, v) PROVE OneCallerInv'
  BY <1>0, <1>6, <1>a, AfterBegin, FreeFresh, ReturnFresh DEF RevokeVersion
<1>7. ASSUME NEW i \in InstanceId, ManualStop(p, i) PROVE OneCallerInv'
  <2> DEFINE c == [NoCall EXCEPT !.dep = instance[i].dep, !.inst = i,
                                 !.attempts = instance[i].attempts]
  <2>1. pc'[p] = "stopping" /\ call'[p] = c /\ UNCHANGED <<logs, docker>>
    BY <1>0, <1>7, AfterBegin DEF ManualStop
  <2>2. c.inst = i /\ c.attempts = instance[i].attempts /\ c.next = "report"
    BY DEF NoCall
  <2>3. instance'[i].state = "FAILED" /\ starts'[i] = starts[i]
    BY <1>7, <2>1 DEF ManualStop, logs, docker
  <2>4. c.attempts <= StartMaxAttempts /\ starts[i] <= c.attempts
    BY <1>0, <2>2 DEF Tables, AttemptsOK
  <2>5. Fresh(p)'
    BY <2>1, <2>2, <2>3, <2>4 DEF Fresh, DeploymentFresh, InstanceFresh, AttemptsFresh,
                                  StartPCs, StopPCs
  <2> QED BY <1>a, <2>1, <2>5
<1> QED BY <1>1, <1>2, <1>3, <1>4, <1>5, <1>6, <1>7 DEF Calls

-----------------------------------------------------------------------------
(* The steps that only read.                                               *)

LEMMA ReadsKeepOneCaller ==
    ASSUME SingleCaller, Inv, NEW p \in Caller,
           \/ LoadRunRequest(p) \/ PublishVersion(p) \/ Resolve(p)
           \/ ReconcileRunning(p) \/ ReconcileStopped(p) \/ ReconcileRevoked(p)
           \/ ListDeployments(p) \/ RevokeNext(p) \/ Crash(p)
    PROVE  OneCallerInv'
<1>0. TypeOK /\ Tables /\ Fresh(p) /\ call[p] \in CallType /\ Knows(pc[p], call[p])
  BY SMTT(30), OneCallerParts DEF Inv, SharedInv, TypeOK, CallOK
<1>1. UNCHANGED <<logs, docker>>
  BY DEF LoadRunRequest, PublishVersion, Resolve, ReconcileRunning, ReconcileStopped,
         ReconcileRevoked, ListDeployments, RevokeNext, Crash, Decides
<1> SUFFICES Fresh(p)'
  BY <1>0, <1>1, TablesUnchanged, OnlyCaller DEF logs, docker
<1>2. CASE LoadRunRequest(p) \/ PublishVersion(p) \/ ListDeployments(p) \/ Crash(p)
  BY <1>0, <1>2, AfterGoto, AfterGotoWith, AfterReturn, FreeFresh
     DEF LoadRunRequest, PublishVersion, ListDeployments, Crash
<1>3. CASE Resolve(p)
  <2> DEFINE d == call[p].dep
             c == [call[p] EXCEPT !.version = deployment[d].version,
                                  !.desired = deployment[d].desired]
  <2>1. pc'[p] = "observe" /\ call'[p] = c
    BY <1>0, <1>3, AfterGotoWith DEF Resolve
  <2>2. c.dep = d /\ c.version = deployment[d].version /\ c.desired = deployment[d].desired
    BY <1>0 DEF CallType
  <2>3. deployment'[d].desired # "ABSENT"
    BY SMTT(30), <1>0, <1>1, <1>3 DEF Resolve, Decides, Fresh, DeploymentFresh, Created, logs
  <2> QED BY <1>1, <2>1, <2>2, <2>3 DEF Fresh, DeploymentFresh, InstanceFresh, AttemptsFresh,
                                        Created, StartPCs, StopPCs, logs
<1>4. CASE RevokeNext(p)
  <2>1. ASSUME NEW d \in call[p].todo,
               GotoWith(p, "revokeDeployment", [[call[p] EXCEPT !.todo = @ \ {d}] EXCEPT
                   !.dep = d, !.desired = "REVOKED", !.version = deployment[d].version])
        PROVE  Fresh(p)'
    <3> DEFINE c == [[call[p] EXCEPT !.todo = @ \ {d}] EXCEPT
                   !.dep = d, !.desired = "REVOKED", !.version = deployment[d].version]
    <3>1. pc'[p] = "revokeDeployment" /\ call'[p] = c
      BY <1>0, <2>1, AfterGotoWith
    <3>2. c.dep = d /\ c.version = deployment[d].version /\ c.desired = "REVOKED"
      BY <1>0 DEF CallType
    <3> QED BY <1>1, <3>1, <3>2 DEF Fresh, DeploymentFresh, InstanceFresh, AttemptsFresh,
                                    StartPCs, StopPCs, logs
  <2>2. ASSUME NEW c, GotoWith(p, "revokeNext", c) PROVE Fresh(p)'
    BY <1>0, <2>2, AfterGotoWith, FreeFresh
  <2> QED BY <1>0, <1>4, <2>1, <2>2, AfterReturn, FreeFresh DEF RevokeNext
<1>5. CASE ReconcileRunning(p) \/ ReconcileStopped(p) \/ ReconcileRevoked(p)
  <2> DEFINE d == call[p].dep
  <2>1. /\ pc[p] = "observe" /\ d \in DeploymentId /\ Created(d)
        /\ deployment[d].version = call[p].version
        /\ deployment[d].desired = call[p].desired
    BY <1>0, <1>5 DEF ReconcileRunning, ReconcileStopped, ReconcileRevoked, Decides,
                      Fresh, DeploymentFresh, Knows, DeploymentPCs
  <2>2. deployment' = deployment /\ deployment[d].desired # "ABSENT"
    BY <1>1, <2>1 DEF Created, logs
  <2>3. ASSUME NEW i \in InstanceId, instance[i].dep = d, NEW n, NEW l \in {"stopping", "mark"},
               instance[i].state \in {"RUNNING", "STARTING", "READY", "STOPPED", "FAILED"},
               l = "stopping" => instance[i].state # "STOPPED",
               l = "mark" => instance[i].state \in {"STOPPED", "FAILED", "READY"} /\ n = "revoke",
               n = "switch" => call[p].desired = "RUNNING",
               n = "revoke" => call[p].desired = "REVOKED",
               Take(p, l, i, n)
        PROVE  Fresh(p)'
    <3> DEFINE c == [call[p] EXCEPT !.inst = i, !.next = n, !.attempts = instance[i].attempts]
    <3>1. pc'[p] = l /\ call'[p] = c
      BY <1>0, <2>3, AfterGotoWith DEF Take
    <3>2. /\ c.inst = i /\ c.next = n /\ c.attempts = instance[i].attempts
          /\ c.dep = d /\ c.version = call[p].version
      BY <1>0 DEF CallType
    <3>3. c.attempts <= StartMaxAttempts /\ starts[i] <= c.attempts
      BY <1>0, <3>2 DEF Tables, AttemptsOK
    <3>4. instance'[i] = instance[i] /\ starts'[i] = starts[i]
      BY <1>1 DEF logs, docker
    <3>5. DeploymentFresh(p)'
      BY <2>1, <2>2, <2>3, <3>1, <3>2, <3>4 DEF DeploymentFresh, Created, WantsToRun, StartPCs, StopPCs
    <3>6. InstanceFresh(p)'
      BY <2>3, <3>1, <3>2, <3>4 DEF InstanceFresh, StartPCs, StopPCs
    <3>7. AttemptsFresh(p)'
      BY <2>3, <3>1, <3>2, <3>3, <3>4 DEF AttemptsFresh, StartPCs, StopPCs
    <3> QED BY <3>5, <3>6, <3>7 DEF Fresh
  <2>4. CASE ReconcileStopped(p)
    BY <1>0, <2>3, <2>4, ReturnFresh DEF ReconcileStopped, ActiveOf, InstancesOf, IsNewest
  <2>5. CASE ReconcileRevoked(p)
    BY <1>0, <2>3, <2>5, ReturnFresh DEF ReconcileRevoked, InstancesOf, IsNewest
  <2>6. CASE ReconcileRunning(p)
    <3>0. call[p].desired = "RUNNING"
      BY <2>6 DEF ReconcileRunning
    <3>1. ASSUME ActiveOf(d) = {}, Goto(p, "ready") PROVE Fresh(p)'
      <4>1. pc'[p] = "ready" /\ call'[p] = call[p]
        BY <1>0, <3>1, AfterGoto
      <4>2. \A j \in InstanceId : instance'[j].dep = d => instance'[j].state \notin ActiveStates
        BY <1>1, <3>1 DEF ActiveOf, InstancesOf, logs
      <4> QED BY <2>1, <2>2, <3>0, <4>1, <4>2 DEF Fresh, DeploymentFresh, InstanceFresh,
                                    AttemptsFresh, Created, WantsToRun, StartPCs, StopPCs
    <3>2. ASSUME NEW i \in InstanceId, instance[i].dep = d, ReconcileSwitch(p, i) PROVE Fresh(p)'
      BY <1>0, <2>3, <3>0, <3>2, ReturnFresh DEF ReconcileSwitch
    <3>3. ASSUME NEW i \in InstanceId, instance[i].dep = d,
                 instance[i].version = call[p].version, ReconcileSame(p, i)
          PROVE  Fresh(p)'
      <4> DEFINE c == [call[p] EXCEPT !.inst = i, !.attempts = Attempt(i) + 1]
      <4>1. ASSUME instance[i].state = "FAILED", RetryAllowed(i), GotoWith(p, "starting", c)
            PROVE  Fresh(p)'
        <5>1. pc'[p] = "starting" /\ call'[p] = c
          BY <1>0, <4>1, AfterGotoWith
        <5>2. /\ c.inst = i /\ c.dep = d /\ c.version = call[p].version
              /\ c.attempts = Attempt(i) + 1
          BY <1>0 DEF CallType
        <5>3. instance[i].attempts \in Nat /\ starts[i] \in Nat /\ starts[i] <= instance[i].attempts
          BY <1>0 DEF TypeOK, InstanceType, Tables, AttemptsOK
        <5>a. /\ Attempt(i) \in Nat /\ instance[i].attempts <= Attempt(i)
              /\ Attempt(i) < StartMaxAttempts
          BY <4>1, <5>3 DEF Attempt, RetryAllowed
        <5>b. /\ starts[i] < Attempt(i) + 1 /\ starts[i] <= Attempt(i) + 1
              /\ Attempt(i) + 1 <= StartMaxAttempts
          BY <5>3, <5>a, AttemptsAssumption
        <5> HIDE DEF c
        <5>4. /\ starts[i] < c.attempts /\ starts[i] <= c.attempts
              /\ c.attempts <= StartMaxAttempts
          BY <5>2, <5>b
        <5>5. instance'[i] = instance[i] /\ starts'[i] = starts[i]
          BY <1>1 DEF logs, docker
        <5>6. AttemptsFresh(p)'
          BY <5>1, <5>2, <5>4, <5>5 DEF AttemptsFresh, StartPCs, StopPCs
        <5>7. InstanceFresh(p)' /\ DeploymentFresh(p)'
          BY <2>1, <2>2, <3>0, <3>3, <4>1, <5>1, <5>2, <5>5
             DEF InstanceFresh, DeploymentFresh, Created, WantsToRun, StartPCs, StopPCs
        <5> QED BY <5>6, <5>7 DEF Fresh
      <4> QED BY <1>0, <3>3, <4>1, ReturnFresh DEF ReconcileSame
    <3> QED BY <1>0, <2>6, <3>1, <3>2, <3>3, ReturnFresh
            DEF ReconcileRunning, ActiveOf, InstancesOf, IsNewest
  <2> QED BY <1>5, <2>4, <2>5, <2>6
<1> QED BY <1>2, <1>3, <1>4, <1>5

-----------------------------------------------------------------------------
(* The appends to deployments.jsonl.                                       *)

\* A deployment is never overwritten when REVOKED, except by REVOKED.
LEMMA WriteDeploymentTables ==
    ASSUME TypeOK, Tables, NEW p \in Caller, WriteDeployment(p),
           call[p].dep \in DeploymentId, call[p].desired # "ABSENT",
           MayLeave(call[p].dep) \/ call[p].desired = "REVOKED"
    PROVE  /\ Tables'
           /\ deployment'[call[p].dep].version = call[p].version
           /\ deployment'[call[p].dep].desired = call[p].desired
<1> DEFINE d == call[p].dep
<1>1. \A e \in DeploymentId : deployment'[e] = IF e = d
         THEN [version |-> call[p].version, desired |-> call[p].desired] ELSE deployment[e]
  BY DEF WriteDeployment, TypeOK
<1>2. UNCHANGED <<instance, container, starts>>
  BY DEF WriteDeployment, docker
<1>3. \A e \in DeploymentId : /\ Created(e) => deployment'[e].desired # "ABSENT"
                              /\ deployment[e].desired = "REVOKED" =>
                                    deployment'[e].desired = "REVOKED"
  BY <1>1 DEF Created, MayLeave
<1>4. TablesOK'
  BY <1>2, <1>3 DEF Tables, TablesOK, Created
<1>5. Tables'
  BY <1>2, <1>4 DEF Tables, OneActive, RunningIsTracked, AtMostOneRunning, AttemptsOK
<1> QED BY <1>1, <1>5

LEMMA WritesKeepOneCaller ==
    ASSUME SingleCaller, Inv, NEW p \in Caller,
           \/ AppendDeployment(p) \/ AppendDesired(p) \/ AppendUpgrade(p)
           \/ AppendDeploymentRevoked(p) \/ AppendVersion(p)
           \/ RevokeAuthority(p) \/ AppendVersionRevoked(p)
    PROVE  OneCallerInv'
<1>0. TypeOK /\ Tables /\ Fresh(p) /\ Knows(pc[p], call[p])
  BY OneCallerParts DEF Inv, SharedInv, CallOK
<1>1. CASE AppendVersion(p) \/ RevokeAuthority(p) \/ AppendVersionRevoked(p)
  <2>1. UNCHANGED <<deployment, instance, container, starts>>
    BY <1>1 DEF AppendVersion, RevokeAuthority, AppendVersionRevoked, docker
  <2>2. Fresh(p)'
    BY <1>0, <1>1, AfterGoto, AfterReturn, FreeFresh
       DEF AppendVersion, RevokeAuthority, AppendVersionRevoked
  <2> QED BY <1>0, <2>1, <2>2, TablesUnchanged, OnlyCaller
<1>2. CASE AppendDesired(p)
  <2>1. /\ call[p].dep \in DeploymentId /\ call[p].desired # "ABSENT"
        /\ MayLeave(call[p].dep)
    BY <1>0, <1>2 DEF AppendDesired, Knows, DeploymentPCs, Fresh, DeploymentFresh
  <2> QED BY <1>0, <1>2, <2>1, WriteDeploymentTables, ReturnFresh, OnlyCaller DEF AppendDesired
<1>3. CASE AppendUpgrade(p)
  <2>1. /\ call[p].dep \in DeploymentId /\ call[p].desired # "ABSENT"
        /\ MayLeave(call[p].dep)
    BY <1>0, <1>3 DEF AppendUpgrade, Knows, DeploymentPCs, Fresh, DeploymentFresh
  <2>2. Tables' /\ deployment'[call[p].dep].desired # "ABSENT"
    BY <1>0, <1>3, <2>1, WriteDeploymentTables DEF AppendUpgrade
  <2>3. pc'[p] = "resolve" /\ call'[p] = call[p]
    BY <1>0, <1>3, AfterGoto DEF AppendUpgrade
  <2>4. Fresh(p)'
    BY <2>2, <2>3 DEF Fresh, DeploymentFresh, InstanceFresh, AttemptsFresh, Created,
                      StartPCs, StopPCs
  <2> QED BY <2>2, <2>4, OnlyCaller
<1>4. CASE AppendDeploymentRevoked(p)
  <2>1. /\ call[p].dep \in DeploymentId /\ call[p].desired # "ABSENT"
        /\ call[p].desired = "REVOKED"
    BY <1>0, <1>4 DEF AppendDeploymentRevoked, Knows, DeploymentPCs, Fresh, DeploymentFresh
  <2>2. Tables'
    BY <1>0, <1>4, <2>1, WriteDeploymentTables DEF AppendDeploymentRevoked
  <2>3. Fresh(p)'
    BY <1>0, <1>4, AfterGoto, FreeFresh DEF AppendDeploymentRevoked
  <2> QED BY <2>2, <2>3, OnlyCaller
<1>5. CASE AppendDeployment(p)
  <2> DEFINE new == [version |-> call[p].version, desired |-> call[p].desired]
  <2>1. PICK d \in DeploymentId : ~Created(d) /\ deployment' = [deployment EXCEPT ![d] = new]
    BY <1>5 DEF AppendDeployment, IsNextDeployment
  <2>2. UNCHANGED <<instance, container, starts>>
    BY <1>5 DEF AppendDeployment, docker
  <2>3. \A e \in DeploymentId : Created(e) => deployment'[e] = deployment[e]
    BY <1>0, <2>1 DEF TypeOK
  <2>4. TablesOK'
    BY <1>0, <2>2, <2>3 DEF Tables, TablesOK, Created
  <2>5. Tables'
    BY <1>0, <2>2, <2>4 DEF Tables, OneActive, RunningIsTracked, AtMostOneRunning, AttemptsOK
  <2> QED BY <1>0, <1>5, <2>5, ReturnFresh, OnlyCaller DEF AppendDeployment
<1> QED BY <1>1, <1>2, <1>3, <1>4, <1>5

-----------------------------------------------------------------------------
(* The appends to instances.jsonl.                                         *)

LEMMA AppendInstanceEffect ==
    ASSUME TypeOK, NEW p \in Caller, NEW s, AppendInstance(p, s),
           call[p].inst \in InstanceId
    PROVE  /\ UNCHANGED <<deployment, container, starts>>
           /\ \A j \in InstanceId : j # call[p].inst => instance'[j] = instance[j]
           /\ instance'[call[p].inst].dep = instance[call[p].inst].dep
           /\ instance'[call[p].inst].version = instance[call[p].inst].version
           /\ instance'[call[p].inst].state = s
           /\ instance'[call[p].inst].attempts = call[p].attempts
<1> DEFINE i == call[p].inst
           rec == [instance[i] EXCEPT !.state = s, !.attempts = call[p].attempts]
<1>1. instance'[i] = rec /\ \A j \in InstanceId : j # i => instance'[j] = instance[j]
  BY DEF AppendInstance, TypeOK
<1>2. instance[i] \in InstanceType
  BY DEF TypeOK
<1>3. /\ rec.dep = instance[i].dep /\ rec.version = instance[i].version
      /\ rec.state = s /\ rec.attempts = call[p].attempts
  BY <1>2 DEF InstanceType
<1> QED BY <1>1, <1>3 DEF AppendInstance, docker

\* An append for an instance of a created deployment keeps the tables when the
\* new state is no more active than the old one and hides no running container.
LEMMA AppendInstanceTables ==
    ASSUME TypeOK, Tables, NEW p \in Caller, NEW s \in ObservedStates, AppendInstance(p, s),
           call[p].inst \in InstanceId,
           instance[call[p].inst].state # "ABSENT",
           s \in ActiveStates => instance[call[p].inst].state \in ActiveStates,
           container[call[p].inst] = "up" =>
               s \in {"STARTING", "RUNNING", "STOPPING", "FAILED", "REVOKED"},
           s = "REVOKED" => deployment[instance[call[p].inst].dep].desired = "REVOKED",
           call[p].attempts <= StartMaxAttempts, starts[call[p].inst] <= call[p].attempts
    PROVE  Tables'
<1> DEFINE i == call[p].inst
<1>1. /\ UNCHANGED <<deployment, container, starts>>
      /\ \A j \in InstanceId : j # i => instance'[j] = instance[j]
      /\ instance'[i].dep = instance[i].dep
      /\ instance'[i].state = s
      /\ instance'[i].attempts = call[p].attempts
  BY AppendInstanceEffect
<1>2. s # "ABSENT"
  BY DEF ObservedStates
<1>3. TablesOK'
  BY <1>1, <1>2 DEF Tables, TablesOK, Created
<1>4. OneActive'
  BY <1>1 DEF Tables, OneActive
<1>5. RunningIsTracked'
  BY <1>1 DEF Tables, RunningIsTracked
<1>6. AtMostOneRunning'
  BY <1>1 DEF Tables, AtMostOneRunning
<1>7. AttemptsOK'
  BY <1>1 DEF Tables, AttemptsOK
<1> QED BY <1>3, <1>4, <1>5, <1>6, <1>7 DEF Tables

-----------------------------------------------------------------------------
(* _start.                                                                 *)

LEMMA AppendReadyKeeps ==
    ASSUME SingleCaller, Inv, NEW p \in Caller, AppendReady(p)
    PROVE  OneCallerInv'
<1>0. TypeOK /\ Tables /\ Fresh(p) /\ Knows(pc[p], call[p]) /\ call[p] \in CallType
  BY OneCallerParts DEF Inv, SharedInv, CallOK, TypeOK
<1> DEFINE d == call[p].dep
           new == [dep |-> d, version |-> call[p].version, state |-> "READY", attempts |-> 0]
<1>1. PICK i \in InstanceId :
        /\ IsNextInstance(i)
        /\ instance' = [instance EXCEPT ![i] = new]
        /\ GotoWith(p, "starting", [call[p] EXCEPT !.inst = i, !.attempts = 1])
  BY DEF AppendReady
<1> DEFINE c == [call[p] EXCEPT !.inst = i, !.attempts = 1]
<1>2. /\ UNCHANGED <<deployment, container, starts>> /\ pc[p] = "ready"
  BY DEF AppendReady, docker
<1>3. /\ instance[i].state = "ABSENT" /\ starts[i] = 0
      /\ instance'[i] = new /\ \A j \in InstanceId : j # i => instance'[j] = instance[j]
  BY <1>0, <1>1 DEF IsNextInstance, Tables, TablesOK, TypeOK
<1>4. /\ d \in DeploymentId /\ Created(d) /\ WantsToRun(p)
      /\ \A j \in InstanceId : instance[j].dep = d => instance[j].state \notin ActiveStates
  BY <1>0, <1>2 DEF Knows, DeploymentPCs, Fresh, DeploymentFresh, InstanceFresh
<1>5. pc'[p] = "starting" /\ call'[p] = c
  BY <1>0, <1>1, AfterGotoWith
<1>6. c.inst = i /\ c.dep = d /\ c.version = call[p].version /\ c.attempts = 1
  BY <1>0 DEF CallType
<1>7. container[i] # "up"
  BY <1>0, <1>3 DEF Tables, RunningIsTracked
<1>8. TablesOK'
  BY <1>0, <1>2, <1>3, <1>4 DEF Tables, TablesOK, Created
<1>9. OneActive'
  BY <1>0, <1>3, <1>4 DEF Tables, OneActive
<1>10. RunningIsTracked' /\ AtMostOneRunning'
  BY <1>0, <1>2, <1>3, <1>7 DEF Tables, RunningIsTracked, AtMostOneRunning
<1>11. AttemptsOK'
  BY <1>0, <1>2, <1>3, AttemptsAssumption DEF Tables, AttemptsOK
<1>12. DeploymentFresh(p)' /\ InstanceFresh(p)'
  BY <1>2, <1>3, <1>4, <1>5, <1>6
     DEF DeploymentFresh, InstanceFresh, WantsToRun, StartPCs, StopPCs
<1>13. starts'[i] = 0 /\ 1 <= StartMaxAttempts
  BY <1>2, <1>3, AttemptsAssumption
<1>14. AttemptsFresh(p)'
  BY <1>5, <1>6, <1>13 DEF AttemptsFresh, StartPCs, StopPCs
<1> QED BY <1>8, <1>9, <1>10, <1>11, <1>12, <1>14, OnlyCaller DEF Tables, Fresh

LEMMA StartKeepsOneCaller ==
    ASSUME SingleCaller, Inv, NEW p \in Caller,
           AppendStarting(p) \/ VerifyAtMount(p) \/ DockerRun(p) \/ AppendStarted(p)
    PROVE  OneCallerInv'
<1>0. TypeOK /\ Tables /\ Fresh(p)
  BY OneCallerParts DEF Inv, SharedInv
<1> DEFINE i == call[p].inst
<1>1. i \in InstanceId /\ pc[p] \in StartPCs
  BY DEF Inv, SharedInv, CallOK, Knows, AppendStarting, VerifyAtMount, DockerRun,
         AppendStarted, StartPCs
<1>2. /\ instance[i].dep = call[p].dep /\ instance[i].version = call[p].version
      /\ pc[p] = "starting" => instance[i].state \in {"READY", "FAILED"}
      /\ pc[p] # "starting" => instance[i].state = "STARTING"
      /\ WantsToRun(p)
      /\ call[p].attempts <= StartMaxAttempts /\ starts[i] <= call[p].attempts
  BY <1>0, <1>1 DEF Fresh, InstanceFresh, DeploymentFresh, AttemptsFresh
<1>3. /\ starts[i] \in Nat /\ call[p].attempts \in Nat /\ instance[i].attempts \in Nat
      /\ instance[i].state \in ActiveStates /\ instance[i].state # "ABSENT"
  BY <1>0, <1>1, <1>2 DEF TypeOK, CallType, InstanceType, ActiveStates
<1>4. CASE AppendStarting(p)
  <2>1. pc'[p] = "mount" /\ call'[p] = call[p] /\ starts[i] < call[p].attempts
    BY <1>0, <1>4, AfterGoto DEF AppendStarting, Fresh, AttemptsFresh
  <2>2. Tables'
    BY <1>0, <1>1, <1>2, <1>3, <1>4, AppendInstanceTables
       DEF AppendStarting, ObservedStates
  <2>3. /\ UNCHANGED <<deployment, container, starts>>
        /\ instance'[i].dep = instance[i].dep /\ instance'[i].version = instance[i].version
        /\ instance'[i].state = "STARTING" /\ instance'[i].attempts = call[p].attempts
    BY <1>0, <1>1, <1>4, AppendInstanceEffect DEF AppendStarting
  <2>4. DeploymentFresh(p)' /\ InstanceFresh(p)'
    BY <1>2, <2>1, <2>3 DEF DeploymentFresh, InstanceFresh, WantsToRun, StartPCs, StopPCs
  <2>5. AttemptsFresh(p)'
    BY <1>2, <2>1, <2>3 DEF AttemptsFresh, StartPCs, StopPCs
  <2> QED BY <2>2, <2>4, <2>5, OnlyCaller DEF Fresh
<1>5. CASE VerifyAtMount(p)
  <2>1. /\ starts[i] < call[p].attempts /\ starts[i] < instance[i].attempts
        /\ UNCHANGED <<deployment, instance, container>>
    BY <1>0, <1>5 DEF VerifyAtMount, Fresh, AttemptsFresh, logs
  <2>2. \A j \in InstanceId : starts'[j] = IF j = i THEN starts[i] + 1 ELSE starts[j]
    BY <1>0, <1>5 DEF VerifyAtMount, TypeOK
  <2>3. starts[i] + 1 <= call[p].attempts /\ starts[i] + 1 <= instance[i].attempts
    BY <1>3, <2>1
  <2>4. AttemptsOK'
    BY <1>0, <2>1, <2>2, <2>3 DEF Tables, AttemptsOK
  <2>5. TablesOK'
    BY <1>0, <1>3, <2>1, <2>2 DEF Tables, TablesOK, Created
  <2>6. Tables'
    BY <1>0, <2>1, <2>4, <2>5 DEF Tables, OneActive, RunningIsTracked, AtMostOneRunning
  <2>7. ASSUME NEW l \in {"run", "startFailed"}, Goto(p, l) PROVE Fresh(p)'
    <3>1. pc'[p] = l /\ call'[p] = call[p]
      BY <1>0, <2>7, AfterGoto
    <3>2. DeploymentFresh(p)' /\ InstanceFresh(p)'
      BY <1>2, <1>5, <2>1, <3>1 DEF DeploymentFresh, InstanceFresh, WantsToRun, StartPCs,
                                    StopPCs, VerifyAtMount
    <3>3. AttemptsFresh(p)'
      BY <1>1, <1>2, <2>2, <2>3, <3>1 DEF AttemptsFresh, StartPCs, StopPCs
    <3> QED BY <3>2, <3>3 DEF Fresh
  <2>8. Fresh(p)'
    BY <1>0, <1>5, <2>7, ReturnFresh DEF VerifyAtMount
  <2> QED BY <2>6, <2>8, OnlyCaller
<1>6. CASE DockerRun(p)
  <2>1. /\ pc[p] = "run" /\ UNCHANGED <<deployment, instance, starts>>
        /\ \A j \in InstanceId : j # i => container'[j] = container[j]
    BY <1>0, <1>6 DEF DockerRun, TypeOK, logs
  <2>2. instance[i].state = "STARTING"
    BY <1>2, <2>1
  <2>3. RunningIsTracked'
    BY <1>0, <2>1, <2>2 DEF Tables, RunningIsTracked
  <2>4. \A j \in InstanceId :
           (container[j] = "up" /\ instance[j].dep = instance[i].dep) => j = i
    <3> SUFFICES ASSUME NEW j \in InstanceId, container[j] = "up",
                        instance[j].dep = instance[i].dep
                 PROVE  j = i
      OBVIOUS
    <3>1. CASE instance[j].state = "REVOKED"
      <4>1. deployment[instance[j].dep].desired = "REVOKED"
        BY <1>0, <3>1 DEF Tables, TablesOK
      <4>2. deployment[instance[i].dep].desired = "RUNNING"
        BY <1>2 DEF WantsToRun
      <4> QED BY <4>1, <4>2
    <3>2. CASE instance[j].state # "REVOKED"
      <4>1. instance[j].state \in ActiveStates
        BY <1>0, <3>2 DEF Tables, RunningIsTracked, ActiveStates
      <4> QED BY <1>0, <1>1, <1>3, <4>1 DEF Tables, OneActive
    <3> QED BY <3>1, <3>2
  <2>5. AtMostOneRunning'
    BY <1>0, <2>1, <2>4 DEF Tables, AtMostOneRunning
  <2>6. Tables'
    BY <1>0, <2>1, <2>3, <2>5 DEF Tables, TablesOK, OneActive, AttemptsOK, Created
  <2>7. pc'[p] \in {"startOk", "startFailed"} /\ call'[p] = call[p]
    BY <1>0, <1>6, AfterGoto DEF DockerRun
  <2>8. DeploymentFresh(p)' /\ InstanceFresh(p)' /\ AttemptsFresh(p)'
    BY <1>2, <2>1, <2>2, <2>7 DEF DeploymentFresh, InstanceFresh, AttemptsFresh, WantsToRun,
                                  StartPCs, StopPCs
  <2> QED BY <2>6, <2>8, OnlyCaller DEF Fresh
<1>7. CASE AppendStarted(p)
  <2>1. Fresh(p)'
    BY <1>0, <1>7, ReturnFresh DEF AppendStarted
  <2>2. Tables'
    BY <1>0, <1>1, <1>2, <1>3, <1>7, AppendInstanceTables DEF AppendStarted, ObservedStates
  <2> QED BY <2>1, <2>2, OnlyCaller
<1> QED BY <1>4, <1>5, <1>6, <1>7

-----------------------------------------------------------------------------
(* _stop, and the REVOKED mark.                                            *)

LEMMA StopKeepsOneCaller ==
    ASSUME SingleCaller, Inv, NEW p \in Caller,
           \/ AppendStopping(p) \/ DockerKill(p) \/ AppendStopFailed(p) \/ AppendStopped(p)
           \/ MarkRevoked(p)
    PROVE  OneCallerInv'
<1>0. TypeOK /\ Tables /\ Fresh(p) /\ Knows(pc[p], call[p])
  BY OneCallerParts DEF Inv, SharedInv, CallOK
<1> DEFINE i == call[p].inst
<1>1. i \in InstanceId /\ pc[p] \in StopPCs \cup {"mark"}
  BY <1>0 DEF Knows, AppendStopping, DockerKill, AppendStopFailed, AppendStopped,
              MarkRevoked, StopPCs
<1>2. /\ call[p].attempts <= StartMaxAttempts /\ starts[i] <= call[p].attempts
      /\ call[p].next = "revoke" => deployment[instance[i].dep].desired = "REVOKED"
      /\ pc[p] # "mark" /\ call[p].next = "switch" =>
            instance[i].dep = call[p].dep /\ WantsToRun(p) /\ call[p].dep \in DeploymentId
  BY <1>0, <1>1 DEF Fresh, InstanceFresh, DeploymentFresh, AttemptsFresh, Knows, StopPCs
<1>3. /\ instance[i].state # "ABSENT"
      /\ pc[p] # "mark" => instance[i].state \in ActiveStates
      /\ pc[p] \in {"kill", "stopOk", "stopFailed"} => instance[i].state = "STOPPING"
  BY <1>0, <1>1 DEF Fresh, InstanceFresh, StopPCs, ActiveStates
<1>4. ASSUME NEW s \in ObservedStates, AppendInstance(p, s)
      PROVE  /\ UNCHANGED <<deployment, container, starts>>
             /\ \A j \in InstanceId : j # i => instance'[j] = instance[j]
             /\ instance'[i].dep = instance[i].dep
             /\ instance'[i].state = s
  BY <1>0, <1>1, <1>4, AppendInstanceEffect
<1>5. CASE AppendStopping(p)
  <2>1. pc'[p] = "kill" /\ call'[p] = call[p] /\ pc[p] = "stopping"
    BY <1>0, <1>5, AfterGoto DEF AppendStopping
  <2>2. Tables'
    BY <1>0, <1>1, <1>2, <1>3, <1>5, <2>1, AppendInstanceTables
       DEF AppendStopping, ObservedStates
  <2>3. /\ UNCHANGED <<deployment, container, starts>>
        /\ instance'[i].dep = instance[i].dep /\ instance'[i].state = "STOPPING"
    BY <1>4, <1>5 DEF AppendStopping, ObservedStates
  <2>4. DeploymentFresh(p)' /\ InstanceFresh(p)' /\ AttemptsFresh(p)'
    BY <1>2, <2>1, <2>3 DEF DeploymentFresh, InstanceFresh, AttemptsFresh, WantsToRun,
                            StartPCs, StopPCs
  <2> QED BY <2>2, <2>4, OnlyCaller DEF Fresh
<1>6. CASE DockerKill(p)
  <2>1. /\ pc[p] = "kill" /\ UNCHANGED <<deployment, instance, starts>>
        /\ \A j \in InstanceId : container'[j] = "up" => container[j] = "up"
    BY <1>0, <1>6 DEF DockerKill, TypeOK, logs
  <2>2. Tables'
    BY <1>0, <2>1 DEF Tables, TablesOK, OneActive, RunningIsTracked, AtMostOneRunning,
                      AttemptsOK, Created
  <2>3. /\ pc'[p] \in {"stopOk", "stopFailed"} /\ call'[p] = call[p]
        /\ pc'[p] = "stopOk" => container'[i] # "up"
    BY <1>0, <1>1, <1>6, AfterGoto DEF DockerKill, TypeOK
  <2>4. instance[i].state = "STOPPING"
    BY <1>3, <2>1
  <2>5. DeploymentFresh(p)' /\ AttemptsFresh(p)'
    BY <1>2, <2>1, <2>3 DEF DeploymentFresh, AttemptsFresh, WantsToRun, StartPCs, StopPCs
  <2>6. InstanceFresh(p)'
    BY <1>2, <2>1, <2>3, <2>4 DEF InstanceFresh, StartPCs, StopPCs
  <2> QED BY <2>2, <2>5, <2>6, OnlyCaller DEF Fresh
<1>7. CASE AppendStopFailed(p)
  <2>1. Fresh(p)'
    BY <1>0, <1>7, ReturnFresh DEF AppendStopFailed
  <2>2. Tables'
    BY <1>0, <1>1, <1>2, <1>3, <1>7, AppendInstanceTables DEF AppendStopFailed, ObservedStates
  <2> QED BY <2>1, <2>2, OnlyCaller
<1>8. CASE AppendStopped(p)
  <2>1. pc[p] = "stopOk" /\ container[i] # "up"
    BY <1>0, <1>8 DEF AppendStopped, Fresh, InstanceFresh
  <2>2. Tables'
    BY <1>0, <1>1, <1>2, <1>3, <1>8, <2>1, AppendInstanceTables
       DEF AppendStopped, ObservedStates, ActiveStates
  <2>3. /\ UNCHANGED <<deployment, container, starts>>
        /\ \A j \in InstanceId : j # i => instance'[j] = instance[j]
        /\ instance'[i].dep = instance[i].dep /\ instance'[i].state = "STOPPED"
    BY <1>4, <1>8 DEF AppendStopped, ObservedStates
  <2>4. CASE call[p].next = "switch" /\ Goto(p, "ready")
    <3>1. pc'[p] = "ready" /\ call'[p] = call[p]
      BY <1>0, <2>4, AfterGoto
    <3>2. /\ instance[i].dep = call[p].dep /\ WantsToRun(p)
          /\ instance[i].state \in ActiveStates
      BY <1>2, <1>3, <2>1, <2>4
    <3>3. \A j \in InstanceId :
             instance'[j].dep = call[p].dep => instance'[j].state \notin ActiveStates
      BY <1>0, <1>1, <2>3, <3>2 DEF Tables, OneActive, ActiveStates
    <3>4. DeploymentFresh(p)'
      BY <2>3, <3>1, <3>2 DEF DeploymentFresh, WantsToRun, Created, StartPCs, StopPCs
    <3>5. InstanceFresh(p)' /\ AttemptsFresh(p)'
      BY <3>1, <3>3 DEF InstanceFresh, AttemptsFresh, StartPCs, StopPCs
    <3> QED BY <2>2, <3>4, <3>5, OnlyCaller DEF Fresh
  <2>5. CASE call[p].next = "revoke" /\ Goto(p, "mark")
    <3>1. pc'[p] = "mark" /\ call'[p] = call[p]
      BY <1>0, <2>5, AfterGoto
    <3>2. DeploymentFresh(p)' /\ InstanceFresh(p)' /\ AttemptsFresh(p)'
      BY <1>2, <2>3, <2>5, <3>1 DEF DeploymentFresh, InstanceFresh, AttemptsFresh,
                                    StartPCs, StopPCs
    <3> QED BY <2>2, <3>2, OnlyCaller DEF Fresh
  <2> QED BY <1>0, <1>8, <2>2, <2>4, <2>5, ReturnFresh, OnlyCaller DEF AppendStopped
<1>9. CASE MarkRevoked(p)
  <2>1. Fresh(p)'
    BY <1>0, <1>9, ReturnFresh DEF MarkRevoked
  <2>2. call[p].next = "revoke"
    BY <1>0, <1>9 DEF MarkRevoked, Fresh, InstanceFresh
  <2>3. Tables'
    BY <1>0, <1>1, <1>2, <1>3, <1>9, <2>2, AppendInstanceTables
       DEF MarkRevoked, ObservedStates, ActiveStates
  <2> QED BY <2>1, <2>3, OnlyCaller
<1> QED BY <1>5, <1>6, <1>7, <1>8, <1>9

-----------------------------------------------------------------------------
(* The theorems.                                                           *)

LEMMA InitInv == Init => Inv
<1> SUFFICES ASSUME Init PROVE OneCallerInv
  BY InitShared DEF Inv
<1>1. \A p \in Caller : Fresh(p)
  BY IdleFresh DEF Init
<1>2. Tables
  BY AttemptsAssumption DEF Init, NoDeployment, NoInstance, Tables, TablesOK, OneActive,
         RunningIsTracked, AtMostOneRunning, AttemptsOK, ActiveStates
<1> QED BY <1>1, <1>2, OneCallerParts

LEMMA StepInv == SingleCaller /\ Inv /\ [Next]_vars => Inv'
<1> SUFFICES ASSUME SingleCaller, Inv, [Next]_vars PROVE OneCallerInv'
  BY StepShared DEF Inv
<1>1. ASSUME NEW p \in Caller, Calls(p) \/ Steps(p) \/ Crash(p) PROVE OneCallerInv'
  BY <1>1, CallsKeepOneCaller, ReadsKeepOneCaller, WritesKeepOneCaller, AppendReadyKeeps,
     StartKeepsOneCaller, StopKeepsOneCaller DEF Steps
<1>2. ASSUME NEW i \in InstanceId, ContainerExits(i) PROVE OneCallerInv'
  <2>1. /\ UNCHANGED <<deployment, instance, starts, pc, call>>
        /\ \A j \in InstanceId : container'[j] = "up" => container[j] = "up"
    BY <1>2 DEF ContainerExits, Inv, SharedInv, TypeOK, logs
  <2>2. Tables'
    BY <2>1, OneCallerParts DEF Inv, Tables, TablesOK, OneActive, RunningIsTracked,
                               AtMostOneRunning, AttemptsOK, Created
  <2>3. ASSUME NEW p \in Caller PROVE Fresh(p)'
    <3>1. Fresh(p) /\ Knows(pc[p], call[p])
      BY OneCallerParts DEF Inv, SharedInv, CallOK
    <3>2. InstanceFresh(p)'
      BY <2>1, <3>1 DEF Fresh, InstanceFresh, Knows, StopPCs
    <3>3. DeploymentFresh(p)' /\ AttemptsFresh(p)'
      BY <2>1, <3>1 DEF Fresh, DeploymentFresh, AttemptsFresh, MayLeave, Created, WantsToRun
    <3> QED BY <3>2, <3>3 DEF Fresh
  <2> QED BY <2>2, <2>3 DEF OneCallerInv, Tables, Fresh
<1>3. CASE (\E v \in Version : RevokeAuthorityDirectly(v)) \/ UNCHANGED vars
  <2>1. UNCHANGED <<deployment, instance, container, starts, pc, call>>
    BY <1>3 DEF RevokeAuthorityDirectly, vars, logs, docker
  <2>2. Tables'
    BY <2>1, TablesUnchanged, OneCallerParts DEF Inv
  <2>3. \A p \in Caller : Fresh(p)'
    BY <2>1, OneCallerParts DEF Inv, Fresh, DeploymentFresh, InstanceFresh, AttemptsFresh,
                               MayLeave, Created, WantsToRun
  <2> QED BY <2>2, <2>3 DEF OneCallerInv, Tables, Fresh
<1> QED BY <1>1, <1>2, <1>3 DEF Next

LEMMA InvCorrect == ASSUME SingleCaller PROVE Spec => []Inv
<1> QED BY SingleCaller, InitInv, StepInv, PTL DEF Spec

\* No version switch, retry, failed stop or crash of managed_runtime.py leaves two
\* containers of one deployment running, for every set of versions and ids.
THEOREM OneRunning == ASSUME SingleCaller PROVE Spec => []AtMostOneRunning
<1>1. Inv => AtMostOneRunning
  BY DEF Inv, OneCallerInv
<1> QED BY <1>1, InvCorrect, PTL

\* _active_instance never has two candidates to choose from.
THEOREM OneActiveInstance == ASSUME SingleCaller PROVE Spec => []OneActive
<1>1. Inv => OneActive
  BY DEF Inv, OneCallerInv
<1> QED BY <1>1, InvCorrect, PTL

\* The log knows of every running container, wherever a call was cut off.
THEOREM Tracked == ASSUME SingleCaller PROVE Spec => []RunningIsTracked
<1>1. Inv => RunningIsTracked
  BY DEF Inv, OneCallerInv
<1> QED BY <1>1, InvCorrect, PTL

\* START_MAX_ATTEMPTS bounds the calls of runtime.start for each instance.
THEOREM Retries == ASSUME SingleCaller PROVE Spec => []RetriesBounded
<1>1. Inv => RetriesBounded
  <2> SUFFICES ASSUME Inv, NEW i \in InstanceId PROVE starts[i] <= StartMaxAttempts
    BY DEF RetriesBounded
  <2>1. /\ starts[i] \in Nat /\ instance[i] \in InstanceType
        /\ starts[i] <= instance[i].attempts /\ instance[i].attempts <= StartMaxAttempts
    BY DEF Inv, SharedInv, TypeOK, OneCallerInv, AttemptsOK
  <2>2. instance[i].attempts \in Nat
    BY <2>1 DEF InstanceType
  <2> QED BY <2>1, <2>2, AttemptsAssumption
<1> QED BY <1>1, InvCorrect, PTL

-----------------------------------------------------------------------------
(* Action properties.                                                      *)

WantedStart ==
    \A i \in InstanceId : (container[i] # "up" /\ container'[i] = "up") =>
        deployment[instance[i].dep] = [version |-> instance[i].version, desired |-> "RUNNING"]

LEMMA StepWantedStart == Inv /\ [Next]_vars => WantedStart
<1> SUFFICES ASSUME Inv, [Next]_vars, NEW i \in InstanceId,
                    container[i] # "up", container'[i] = "up"
             PROVE  deployment[instance[i].dep] =
                       [version |-> instance[i].version, desired |-> "RUNNING"]
  BY DEF WantedStart
<1>1. \E p \in Caller : DockerRun(p)
  <2>1. container' # container
    OBVIOUS
  <2>2. ASSUME NEW p \in Caller, Calls(p) \/ Crash(p) PROVE container' = container
    BY ZenonT(40), <2>2 DEF Calls, CreateVersion, CreateDeployment, SetDesiredState, Upgrade, Reconcile,
                RevokeVersion, ManualStop, Crash, Begin, Decides, docker
  <2>3. ASSUME NEW p \in Caller, Steps(p), ~DockerRun(p), ~DockerKill(p)
        PROVE  container' = container
    BY <2>3 DEF Steps, LoadRunRequest, PublishVersion, AppendVersion, AppendDeployment, AppendDesired,
                AppendUpgrade, Resolve, ReconcileRunning, ReconcileStopped, ReconcileRevoked,
                AppendReady, AppendStarting, VerifyAtMount, AppendStarted, AppendStopping,
                AppendStopFailed, AppendStopped, MarkRevoked, RevokeAuthority,
                AppendVersionRevoked, ListDeployments, RevokeNext, AppendDeploymentRevoked,
                Decides, WriteDeployment, AppendInstance, docker
  <2>4. ASSUME NEW p \in Caller, DockerKill(p) PROVE FALSE
    BY <2>4 DEF DockerKill, Inv, SharedInv, TypeOK
  <2>5. ASSUME NEW j \in InstanceId, ContainerExits(j) PROVE FALSE
    BY <2>5 DEF ContainerExits, Inv, SharedInv, TypeOK
  <2> QED BY <2>1, <2>2, <2>3, <2>4, <2>5 DEF Next, RevokeAuthorityDirectly, vars, docker
<1>2. PICK p \in Caller : DockerRun(p)
  BY <1>1
<1>3. i = call[p].inst /\ pc[p] = "run"
  BY <1>2 DEF DockerRun, Inv, SharedInv, TypeOK
<1>4. /\ instance[i].dep = call[p].dep /\ instance[i].version = call[p].version
      /\ WantsToRun(p) /\ instance[i].state # "ABSENT"
  BY <1>3 DEF Inv, OneCallerInv, InstanceFresh, DeploymentFresh, StartPCs
<1>5. deployment[instance[i].dep] \in DeploymentType
  BY <1>4 DEF Inv, SharedInv, TypeOK, OneCallerInv, TablesOK
<1> QED BY <1>4, <1>5 DEF WantsToRun, DeploymentType

\* DockerRuntime.start brings up a container only while the deployment wants
\* exactly that version to run.
THEOREM WantedStarts == ASSUME SingleCaller PROVE Spec => OnlyWantedStarts
<1>1. Inv /\ [Next]_vars => [WantedStart]_vars
  BY StepWantedStart
<1>2. Spec => [][WantedStart]_vars
  BY <1>1, InvCorrect, PTL DEF Spec
<1> QED BY <1>2 DEF OnlyWantedStarts, WantedStart

FinalRevocation ==
    /\ \A d \in DeploymentId :
          deployment[d].desired = "REVOKED" => deployment'[d] = deployment[d]
    /\ \A i \in InstanceId :
          instance[i].state = "REVOKED" => instance'[i].state = "REVOKED"

\* A REVOKED deployment is only ever rewritten with what it already holds.
LEMMA WriteKeepsRevoked ==
    ASSUME TypeOK, NEW p \in Caller, WriteDeployment(p), call[p].dep \in DeploymentId,
           \/ MayLeave(call[p].dep)
           \/ /\ call[p].desired = "REVOKED"
              /\ deployment[call[p].dep].version = call[p].version
    PROVE  FinalRevocation
<1> SUFFICES ASSUME NEW d \in DeploymentId, deployment[d].desired = "REVOKED"
             PROVE  deployment'[d] = deployment[d]
  BY DEF FinalRevocation, WriteDeployment
<1>1. CASE d # call[p].dep
  BY <1>1 DEF WriteDeployment, TypeOK
<1>2. CASE d = call[p].dep
  <2>1. deployment'[d] = [version |-> deployment[d].version, desired |-> "REVOKED"]
    BY <1>2 DEF WriteDeployment, TypeOK, MayLeave
  <2>2. deployment[d] \in DeploymentType
    BY DEF TypeOK
  <2>3. deployment[d] = [version |-> deployment[d].version, desired |-> "REVOKED"]
    BY <2>2 DEF DeploymentType
  <2> QED BY <2>1, <2>3
<1> QED BY <1>1, <1>2

LEMMA StepFinalRevocation == Inv /\ [Next]_vars => FinalRevocation
<1> SUFFICES ASSUME Inv, [Next]_vars PROVE FinalRevocation
  OBVIOUS
<1>a. ASSUME UNCHANGED <<deployment, instance>> PROVE FinalRevocation
  BY <1>a DEF FinalRevocation
<1>b. ASSUME NEW p \in Caller, NEW s, AppendInstance(p, s), call[p].inst \in InstanceId,
             instance[call[p].inst].state # "REVOKED" PROVE FinalRevocation
  BY <1>b, AppendInstanceEffect DEF FinalRevocation, Inv, SharedInv
<1>1. ASSUME NEW p \in Caller, Calls(p) PROVE FinalRevocation
  BY ZenonT(40), <1>1, <1>a DEF Calls, CreateVersion, CreateDeployment, SetDesiredState, Upgrade, Reconcile,
                    RevokeVersion, ManualStop, Begin, Decides, logs
<1>2. ASSUME NEW p \in Caller, Steps(p) PROVE FinalRevocation
  <2>0. Fresh(p) /\ TypeOK /\ Knows(pc[p], call[p])
    BY OneCallerParts DEF Inv, SharedInv, CallOK
  <2>1. CASE AppendDesired(p) \/ AppendUpgrade(p) \/ AppendDeploymentRevoked(p)
    <3>1. /\ call[p].dep \in DeploymentId
          /\ \/ MayLeave(call[p].dep)
             \/ /\ call[p].desired = "REVOKED"
                /\ deployment[call[p].dep].version = call[p].version
      BY <2>0, <2>1 DEF AppendDesired, AppendUpgrade, AppendDeploymentRevoked, Knows,
                        DeploymentPCs, Fresh, DeploymentFresh
    <3> QED BY <2>0, <2>1, <3>1, WriteKeepsRevoked
            DEF AppendDesired, AppendUpgrade, AppendDeploymentRevoked
  <2>2. CASE \/ AppendStarting(p) \/ AppendStarted(p) \/ AppendStopping(p)
             \/ AppendStopFailed(p) \/ AppendStopped(p) \/ MarkRevoked(p)
    <3>1. /\ call[p].inst \in InstanceId /\ instance[call[p].inst].state # "REVOKED"
      BY <2>0, <2>2 DEF AppendStarting, AppendStarted, AppendStopping, AppendStopFailed,
             AppendStopped, MarkRevoked, Knows, StartPCs, StopPCs, Fresh, InstanceFresh
    <3> QED BY <1>b, <2>2, <3>1 DEF AppendStarting, AppendStarted, AppendStopping,
               AppendStopFailed, AppendStopped, MarkRevoked
  <2>3. CASE AppendReady(p)
    <3>1. PICK i \in InstanceId, rec \in [dep : {call[p].dep}, version : {call[p].version},
                                           state : {"READY"}, attempts : {0}] :
            /\ instance[i].state = "ABSENT"
            /\ instance' = [instance EXCEPT ![i] = rec]
      BY <2>3 DEF AppendReady, IsNextInstance
    <3> QED BY <2>0, <2>3, <3>1 DEF AppendReady, TypeOK, FinalRevocation
  <2>4. CASE AppendDeployment(p)
    <3>1. PICK d \in DeploymentId, new \in [version : {call[p].version}, desired : {call[p].desired}] :
            /\ deployment[d].desired # "REVOKED"
            /\ deployment' = [deployment EXCEPT ![d] = new]
      BY <2>4 DEF AppendDeployment, IsNextDeployment, Created
    <3> QED BY <2>0, <2>4, <3>1 DEF AppendDeployment, TypeOK, FinalRevocation
  <2> QED BY <1>2, <1>a, <2>1, <2>2, <2>3, <2>4
          DEF Steps, LoadRunRequest, PublishVersion, AppendVersion, Resolve, ReconcileRunning,
              ReconcileStopped, ReconcileRevoked, VerifyAtMount, DockerRun, DockerKill,
              RevokeAuthority, AppendVersionRevoked, ListDeployments, RevokeNext, Decides, logs
<1> QED BY <1>1, <1>2, <1>a DEF Next, Crash, ContainerExits, RevokeAuthorityDirectly, vars, logs

\* REVOKED is final: no later append of managed_runtime.py, from a copy read
\* before it, brings a deployment or an instance back.
THEOREM FinalRevoked == ASSUME SingleCaller PROVE Spec => RevokedIsFinal
<1>1. Inv /\ [Next]_vars => [FinalRevocation]_vars
  BY StepFinalRevocation
<1>2. Spec => [][FinalRevocation]_vars
  BY <1>1, InvCorrect, PTL DEF Spec
<1> QED BY <1>2 DEF RevokedIsFinal, FinalRevocation
-----------------------------------------------------------------------------
(* What a verdict and an acknowledged revocation say.                      *)

\* A stop that ends in a report was not asked for by a deployment that wants to run.
ReportOwed(p) ==
    pc[p] \in StopPCs /\ call[p].next = "report" => call[p].desired # "RUNNING"

\* The deployments of the version that are not yet REVOKED are still listed, or
\* are the one that is being written.
RevocationOwed(p) ==
    pc[p] \in {"revokeNext", "revokeDeployment"} =>
        /\ \A d \in DeploymentId :
              deployment[d].version = call[p].version /\ deployment[d].desired # "REVOKED" =>
                  \/ d \in call[p].todo
                  \/ pc[p] = "revokeDeployment" /\ d = call[p].dep
        /\ \A d \in call[p].todo : deployment[d].version = call[p].version

Owed(p) == ReportOwed(p) /\ RevocationOwed(p)
OwedInv == \A p \in Caller : Owed(p)

LEMMA NothingOwed ==
    ASSUME NEW p \in Caller, pc'[p] \notin StopPCs \cup {"revokeNext", "revokeDeployment"}
    PROVE  Owed(p)'
BY DEF Owed, ReportOwed, RevocationOwed

LEMMA CallsOwe ==
    ASSUME Inv, NEW p \in Caller, Calls(p)
    PROVE  Owed(p)'
<1>0. TypeOK
  BY DEF Inv, SharedInv
<1>1. ASSUME NEW i \in InstanceId, ManualStop(p, i) PROVE Owed(p)'
  <2>1. /\ pc'[p] = "stopping"
        /\ call'[p] = [NoCall EXCEPT !.dep = instance[i].dep, !.inst = i,
                                     !.attempts = instance[i].attempts]
    BY <1>0, <1>1, AfterBegin DEF ManualStop
  <2>2. call'[p].desired # "RUNNING"
    BY <2>1 DEF NoCall
  <2> QED BY <2>1, <2>2 DEF Owed, ReportOwed, RevocationOwed
<1>2. ASSUME NEW v \in Version, CreateVersion(p, v) PROVE Owed(p)'
  BY <1>0, <1>2, AfterBegin, NothingOwed DEF CreateVersion, StopPCs
<1>3. ASSUME NEW v \in Version, NEW s \in DesiredStates, CreateDeployment(p, v, s) PROVE Owed(p)'
  BY <1>0, <1>3, AfterBegin, NothingOwed DEF CreateDeployment, StopPCs
<1>4. ASSUME NEW d \in DeploymentId, NEW s \in DesiredStates, SetDesiredState(p, d, s)
      PROVE  Owed(p)'
  BY <1>0, <1>4, AfterBegin, NothingOwed DEF SetDesiredState, StopPCs
<1>5. ASSUME NEW d \in DeploymentId, NEW v \in Version, Upgrade(p, d, v) PROVE Owed(p)'
  <2>1. pc'[p] \in {"resolve", "upgrade"}
    BY <1>0, <1>5 DEF Upgrade, Begin, TypeOK
  <2> QED BY <2>1, NothingOwed DEF StopPCs
<1>6. ASSUME NEW d \in DeploymentId, Reconcile(p, d) PROVE Owed(p)'
  BY <1>0, <1>6, AfterBegin, NothingOwed DEF Reconcile, StopPCs
<1>7. ASSUME NEW v \in Version, RevokeVersion(p, v) PROVE Owed(p)'
  <2>1. pc'[p] \in {"idle", "revokeAuthority"}
    BY <1>0, <1>7, AfterBegin, AfterReturn DEF RevokeVersion
  <2> QED BY <2>1, NothingOwed DEF StopPCs
<1> QED BY <1>1, <1>2, <1>3, <1>4, <1>5, <1>6, <1>7 DEF Calls

\* A stop that reconcile begins.
LEMMA TakesOwe ==
    ASSUME TypeOK, NEW p \in Caller, NEW label, NEW i \in InstanceId,
           NEW n \in {"report", "switch", "revoke"}, Take(p, label, i, n),
           n = "report" => call[p].desired # "RUNNING",
           label \notin {"revokeNext", "revokeDeployment"}
    PROVE  Owed(p)'
<1>1. PICK c \in CallType : c = call[p]
  BY DEF TypeOK
<1>2. /\ pc'[p] = label
      /\ call'[p] = [c EXCEPT !.inst = i, !.next = n, !.attempts = instance[i].attempts]
  BY <1>1, AfterGotoWith DEF Take
<1>3. call'[p].next = n /\ call'[p].desired = c.desired
  BY <1>2 DEF CallType
<1> QED BY <1>1, <1>2, <1>3 DEF Owed, ReportOwed, RevocationOwed

LEMMA StepsOwe ==
    ASSUME Inv, NEW p \in Caller, Owed(p), Steps(p)
    PROVE  Owed(p)'
<1>0. TypeOK /\ Fresh(p) /\ Knows(pc[p], call[p])
  BY OneCallerParts DEF Inv, SharedInv, CallOK
<1>a. ASSUME NEW r, Return(p, r) PROVE Owed(p)'
  BY <1>0, <1>a, AfterReturn, NothingOwed DEF StopPCs
<1>b. ASSUME NEW label, Goto(p, label), label \notin StopPCs \cup {"revokeNext", "revokeDeployment"}
      PROVE  Owed(p)'
  BY <1>0, <1>b, AfterGoto, NothingOwed
<1>c. ASSUME NEW label, NEW c, GotoWith(p, label, c),
             label \notin StopPCs \cup {"revokeNext", "revokeDeployment"}
      PROVE  Owed(p)'
  BY <1>0, <1>c, AfterGotoWith, NothingOwed
<1>d. ASSUME pc[p] \in StopPCs, NEW label \in StopPCs, Goto(p, label) PROVE Owed(p)'
  BY <1>0, <1>d, AfterGoto DEF Owed, ReportOwed, RevocationOwed, StopPCs
<1>1. CASE LoadRunRequest(p) \/ PublishVersion(p) \/ AppendVersion(p)
  BY <1>1, <1>a, <1>b DEF LoadRunRequest, PublishVersion, AppendVersion, StopPCs
<1>2. CASE AppendDeployment(p) \/ AppendDesired(p) \/ AppendUpgrade(p) \/ Resolve(p)
  BY <1>2, <1>a, <1>b, <1>c DEF AppendDeployment, AppendDesired, AppendUpgrade, Resolve, StopPCs
<1>3. CASE ReconcileRunning(p)
  <2>1. ASSUME NEW i \in InstanceId, Take(p, "stopping", i, "switch") PROVE Owed(p)'
    BY <1>0, <2>1, TakesOwe
  <2>2. ASSUME NEW i \in InstanceId, ReconcileSwitch(p, i) PROVE Owed(p)'
    BY <1>a, <2>1, <2>2 DEF ReconcileSwitch
  <2>3. ASSUME NEW i \in InstanceId, ReconcileSame(p, i) PROVE Owed(p)'
    <3>1. "starting" \notin StopPCs \cup {"revokeNext", "revokeDeployment"}
      BY DEF StopPCs
    <3> QED BY <1>a, <1>c, <2>3, <3>1 DEF ReconcileSame
  <2>4. \/ \E r : Return(p, r)
        \/ Goto(p, "ready")
        \/ \E i \in InstanceId : ReconcileSwitch(p, i) \/ ReconcileSame(p, i)
    BY <1>3 DEF ReconcileRunning
  <2> QED BY <1>a, <1>b, <2>2, <2>3, <2>4 DEF StopPCs
<1>4. CASE ReconcileStopped(p)
  <2>1. ASSUME NEW i \in InstanceId, Take(p, "stopping", i, "report") PROVE Owed(p)'
    BY <1>0, <1>4, <2>1, TakesOwe DEF ReconcileStopped
  <2> QED BY <1>4, <1>a, <2>1 DEF ReconcileStopped
<1>5. CASE ReconcileRevoked(p)
  <2>1. ASSUME NEW i \in InstanceId, Take(p, "stopping", i, "revoke") PROVE Owed(p)'
    BY <1>0, <2>1, TakesOwe
  <2>2. ASSUME NEW i \in InstanceId, Take(p, "mark", i, "revoke") PROVE Owed(p)'
    BY <1>0, <2>2, TakesOwe
  <2> QED BY <1>5, <1>a, <2>1, <2>2 DEF ReconcileRevoked
<1>6. CASE AppendReady(p)
  BY <1>6, <1>c DEF AppendReady, StopPCs
<1>7. CASE AppendStarting(p) \/ VerifyAtMount(p) \/ DockerRun(p) \/ AppendStarted(p)
  BY <1>7, <1>a, <1>b DEF AppendStarting, VerifyAtMount, DockerRun, AppendStarted, StopPCs
<1>8. CASE AppendStopping(p) \/ DockerKill(p)
  BY <1>8, <1>d DEF AppendStopping, DockerKill, StopPCs
<1>9. CASE AppendStopFailed(p) \/ AppendStopped(p) \/ MarkRevoked(p)
  BY <1>9, <1>a, <1>b DEF AppendStopFailed, AppendStopped, MarkRevoked, StopPCs
<1>10. CASE RevokeAuthority(p) \/ AppendVersionRevoked(p)
  BY <1>10, <1>a, <1>b DEF RevokeAuthority, AppendVersionRevoked, StopPCs
<1>11. CASE ListDeployments(p)
  <2>1. PICK c \in CallType : c = call[p]
    BY <1>0 DEF TypeOK
  <2>2. PICK listed \in SUBSET DeploymentId :
            listed = {d \in DeploymentId : /\ deployment[d].version = c.version
                                           /\ deployment[d].desired # "REVOKED"}
    OBVIOUS
  <2>3. pc'[p] = "revokeNext" /\ call'[p] = [c EXCEPT !.todo = listed] /\ deployment' = deployment
    BY <1>0, <1>11, <2>1, <2>2, AfterGotoWith DEF ListDeployments, Decides, logs
  <2>4. call'[p].version = c.version /\ call'[p].todo = listed
    BY <2>3 DEF CallType
  <2> QED BY <2>2, <2>3, <2>4 DEF Owed, ReportOwed, RevocationOwed, StopPCs
<1>12. CASE RevokeNext(p)
  <2>1. PICK c \in CallType : c = call[p]
    BY <1>0 DEF TypeOK
  <2>2. /\ \A d \in DeploymentId :
              deployment[d].version = c.version /\ deployment[d].desired # "REVOKED" => d \in c.todo
        /\ \A d \in c.todo : deployment[d].version = c.version
        /\ pc[p] = "revokeNext" /\ deployment' = deployment /\ c.todo \subseteq DeploymentId
    BY <1>12, <2>1 DEF Owed, RevocationOwed, RevokeNext, Decides, logs, CallType
  <2>3. ASSUME NEW d \in c.todo, deployment[d].desired = "REVOKED",
               GotoWith(p, "revokeNext", [c EXCEPT !.todo = c.todo \ {d}])
        PROVE  Owed(p)'
    <3>1. pc'[p] = "revokeNext" /\ call'[p] = [c EXCEPT !.todo = c.todo \ {d}]
      BY <1>0, <2>3, AfterGotoWith
    <3>2. call'[p].version = c.version /\ call'[p].todo = c.todo \ {d}
      BY <3>1 DEF CallType
    <3> QED BY <2>2, <2>3, <3>1, <3>2 DEF Owed, ReportOwed, RevocationOwed, StopPCs
  <2>4. ASSUME NEW d \in c.todo, NEW e,
               e = [c EXCEPT !.todo = c.todo \ {d}, !.dep = d, !.desired = "REVOKED",
                             !.version = deployment[d].version],
               GotoWith(p, "revokeDeployment", e)
        PROVE  Owed(p)'
    <3>1. pc'[p] = "revokeDeployment" /\ call'[p] = e
      BY <1>0, <2>4, AfterGotoWith
    <3>2. e.version = c.version /\ e.todo = c.todo \ {d} /\ e.dep = d
      BY <2>2, <2>4 DEF CallType
    <3> QED BY <2>2, <3>1, <3>2 DEF Owed, ReportOwed, RevocationOwed, StopPCs
  <2>5. CASE c.todo = {} /\ Return(p, "OK")
    BY <2>5, <1>a
  <2>6. ASSUME NEW d \in c.todo
        PROVE  LET rest == [c EXCEPT !.todo = @ \ {d}] IN
               (IF deployment[d].desired = "REVOKED"
                THEN GotoWith(p, "revokeNext", rest)
                ELSE GotoWith(p, "revokeDeployment",
                        [rest EXCEPT !.dep = d, !.desired = "REVOKED",
                                     !.version = deployment[d].version])) => Owed(p)'
    <3>1. [c EXCEPT !.todo = @ \ {d}] = [c EXCEPT !.todo = c.todo \ {d}]
      BY DEF CallType
    <3>2. [[c EXCEPT !.todo = @ \ {d}] EXCEPT !.dep = d, !.desired = "REVOKED",
                                              !.version = deployment[d].version]
          = [c EXCEPT !.todo = c.todo \ {d}, !.dep = d, !.desired = "REVOKED",
                      !.version = deployment[d].version]
      BY DEF CallType
    <3> QED BY <2>3, <2>4, <3>1, <3>2
  <2> QED BY <1>12, <2>1, <2>5, <2>6 DEF RevokeNext
<1>13. CASE AppendDeploymentRevoked(p)
  <2>1. pc[p] = "revokeDeployment" /\ pc'[p] = "revokeNext" /\ call'[p] = call[p]
    BY <1>0, <1>13, AfterGoto DEF AppendDeploymentRevoked
  <2>2. call[p].dep \in DeploymentId /\ call[p].desired = "REVOKED"
        /\ deployment[call[p].dep].version = call[p].version
    BY <1>0, <2>1 DEF Fresh, DeploymentFresh, Knows, DeploymentPCs
  <2>3. \A d \in DeploymentId :
            deployment'[d] = IF d = call[p].dep
                             THEN [version |-> call[p].version, desired |-> "REVOKED"]
                             ELSE deployment[d]
    BY <1>0, <1>13, <2>2 DEF AppendDeploymentRevoked, WriteDeployment, TypeOK
  <2>4. call[p].todo \subseteq DeploymentId
    BY <1>0 DEF TypeOK, CallType
  <2> QED BY <2>1, <2>2, <2>3, <2>4 DEF Owed, ReportOwed, RevocationOwed, StopPCs
<1> QED BY <1>1, <1>2, <1>3, <1>4, <1>5, <1>6, <1>7, <1>8, <1>9, <1>10, <1>11, <1>12, <1>13
        DEF Steps

LEMMA StepOwed == SingleCaller /\ Inv /\ OwedInv /\ [Next]_vars => OwedInv'
<1> SUFFICES ASSUME SingleCaller, Inv, OwedInv, [Next]_vars PROVE OwedInv'
  OBVIOUS
<1>1. ASSUME NEW p \in Caller, Calls(p) \/ Steps(p) \/ Crash(p) PROVE OwedInv'
  <2>1. Owed(p)
    BY DEF OwedInv
  <2>2. CASE Crash(p)
    <3>1. pc'[p] = "idle"
      BY <2>2, AfterReturn DEF Crash, Inv, SharedInv
    <3> QED BY <3>1, NothingOwed DEF StopPCs, OwedInv, SingleCaller
  <2>3. Owed(p)'
    BY <1>1, <2>1, <2>2, CallsOwe, StepsOwe DEF OwedInv
  <2> QED BY <2>3 DEF OwedInv, SingleCaller
<1>2. CASE UNCHANGED <<pc, call, deployment>>
  BY <1>2 DEF OwedInv, Owed, ReportOwed, RevocationOwed
<1> QED BY <1>1, <1>2 DEF Next, ContainerExits, RevokeAuthorityDirectly, vars, logs, docker

LEMMA OwedCorrect == ASSUME SingleCaller PROVE Spec => []OwedInv
<1>1. Init => OwedInv
  BY DEF Init, OwedInv, Owed, ReportOwed, RevocationOwed, StopPCs
<1> QED BY <1>1, StepOwed, InvCorrect, PTL DEF Spec

ExactVerdict ==
    \A p \in Caller :
        (/\ pc[p] # "idle" /\ call[p].desired = "RUNNING"
         /\ pc'[p] = "idle" /\ result'[p] = "HEALTHY") =>
        \E i \in InstanceId :
           /\ {j \in InstanceId : /\ instance'[j].dep = call[p].dep
                                  /\ instance'[j].state \in ActiveStates} = {i}
           /\ instance'[i].state = "RUNNING"
           /\ instance'[i].version = deployment'[call[p].dep].version

\* With one caller only the caller itself moves its call.
LEMMA CallMoves ==
    ASSUME TypeOK, [Next]_vars, SingleCaller, NEW p \in Caller, pc'[p] # pc[p]
    PROVE  Calls(p) \/ Steps(p) \/ Crash(p)
<1>1. ~UNCHANGED pc
  BY SMTT(30)
<1> QED BY <1>1 DEF Next, ContainerExits, RevokeAuthorityDirectly, vars, SingleCaller

LEMMA StepExactVerdict ==
    SingleCaller /\ Inv /\ OwedInv /\ Inv' /\ [Next]_vars => ExactVerdict
<1> SUFFICES ASSUME SingleCaller, Inv, OwedInv, Inv', [Next]_vars, NEW p \in Caller,
                    pc[p] # "idle", call[p].desired = "RUNNING",
                    pc'[p] = "idle", result'[p] = "HEALTHY"
             PROVE  \E i \in InstanceId :
                       /\ {j \in InstanceId : /\ instance'[j].dep = call[p].dep
                                              /\ instance'[j].state \in ActiveStates} = {i}
                       /\ instance'[i].state = "RUNNING"
                       /\ instance'[i].version = deployment'[call[p].dep].version
  BY DEF ExactVerdict
<1>0. TypeOK /\ Fresh(p) /\ Knows(pc[p], call[p]) /\ Owed(p) /\ OneActive'
  BY OneCallerParts DEF Inv, SharedInv, CallOK, OwedInv, OneCallerInv
<1>1. Steps(p)
  <2>1. Calls(p) \/ Steps(p) \/ Crash(p)
    BY <1>0, CallMoves
  <2>2. ~Crash(p)
    BY <1>0 DEF Crash, Return, TypeOK
  <2>3. ~Calls(p)
    BY DEF Calls, CreateVersion, CreateDeployment, SetDesiredState, Upgrade, Reconcile,
           RevokeVersion, ManualStop, Begin, Decides
  <2> QED BY <2>1, <2>2, <2>3
<1>a. ASSUME NEW r, Return(p, r) PROVE r = "HEALTHY"
  BY <1>0, <1>a DEF Return, TypeOK
<1>b. ASSUME NEW label, Goto(p, label) PROVE label = "idle"
  BY <1>0, <1>b DEF Goto, TypeOK
<1>c. ASSUME NEW label, NEW c, GotoWith(p, label, c) PROVE label = "idle"
  BY <1>0, <1>c DEF GotoWith, TypeOK
<1>d. ASSUME NEW i \in InstanceId, instance'[i].dep = call[p].dep, instance'[i].state = "RUNNING"
      PROVE  {j \in InstanceId : /\ instance'[j].dep = call[p].dep
                                 /\ instance'[j].state \in ActiveStates} = {i}
  BY <1>0, <1>d DEF OneActive, ActiveStates
<1>2. CASE ReconcileRunning(p)
  <2>1. PICK i \in InstanceId : /\ i \in ActiveOf(call[p].dep)
                                /\ instance[i].version = call[p].version
                                /\ instance[i].state = "RUNNING"
    BY Zenon, <1>2, <1>a, <1>b, <1>c DEF ReconcileRunning, ReconcileSwitch, ReconcileSame, Take, IsNewest
  <2>2. /\ instance[i].dep = call[p].dep /\ instance' = instance /\ deployment' = deployment
        /\ pc[p] = "observe"
    BY <1>2, <2>1 DEF ActiveOf, InstancesOf, ReconcileRunning, Decides, logs
  <2>3. deployment[call[p].dep].version = call[p].version
    BY <1>0, <2>2 DEF Fresh, DeploymentFresh
  <2>4. /\ instance'[i].dep = call[p].dep /\ instance'[i].state = "RUNNING"
        /\ instance'[i].version = deployment'[call[p].dep].version
    BY Zenon, <2>1, <2>2, <2>3
  <2> QED BY Zenon, <1>d, <2>4
<1>3. CASE AppendStarted(p)
  <2>1. pc[p] = "startOk" /\ AppendInstance(p, "RUNNING")
    BY <1>3, <1>a DEF AppendStarted
  <2> DEFINE i == call[p].inst
  <2>2. /\ i \in InstanceId /\ instance[i].dep = call[p].dep
        /\ instance[i].version = call[p].version
        /\ deployment[call[p].dep].version = call[p].version
    BY SMTT(30), <1>0, <2>1 DEF Knows, StartPCs, Fresh, InstanceFresh, DeploymentFresh, WantsToRun
  <2>3. /\ instance'[i].dep = instance[i].dep /\ instance'[i].version = instance[i].version
        /\ instance'[i].state = "RUNNING" /\ deployment' = deployment
    BY <1>0, <2>1, <2>2, AppendInstanceEffect DEF AppendInstance
  <2> QED BY <1>d, <2>2, <2>3
<1>4. CASE AppendStopped(p)
  <2>1. pc[p] \in StopPCs /\ call[p].next = "report"
    BY <1>4, <1>b DEF AppendStopped, StopPCs
  <2> QED BY <1>0, <2>1 DEF Owed, ReportOwed
<1> QED BY <1>1, <1>2, <1>3, <1>4, <1>a, <1>b, <1>c
        DEF Steps, LoadRunRequest, PublishVersion, AppendVersion, AppendDeployment, AppendDesired,
            AppendUpgrade, Resolve, ReconcileStopped, ReconcileRevoked, AppendReady, AppendStarting,
            VerifyAtMount, DockerRun, AppendStopping, DockerKill, AppendStopFailed, MarkRevoked,
            RevokeAuthority, AppendVersionRevoked, ListDeployments, RevokeNext,
            AppendDeploymentRevoked, Take

\* A HEALTHY verdict on a deployment that wants to run is true of the log: one
\* instance is active, it is RUNNING, and it runs the wanted version.
THEOREM VerdictIsExact == ASSUME SingleCaller PROVE Spec => HealthyIsExact
<1>1. Inv /\ OwedInv /\ Inv' /\ [Next]_vars => [ExactVerdict]_vars
  BY StepExactVerdict
<1>2. Spec => [][ExactVerdict]_vars
  BY <1>1, InvCorrect, OwedCorrect, PTL DEF Spec
<1> QED BY <1>2, PTL DEF HealthyIsExact, ExactVerdict

AllRevoked ==
    \A p \in Caller :
        (/\ pc[p] = "revokeNext" /\ pc'[p] = "idle" /\ result'[p] = "OK") =>
        \A d \in DeploymentId : deployment'[d].version = call[p].version =>
            deployment'[d].desired = "REVOKED"

LEMMA StepAllRevoked == SingleCaller /\ Inv /\ OwedInv /\ [Next]_vars => AllRevoked
<1> SUFFICES ASSUME SingleCaller, Inv, OwedInv, [Next]_vars, NEW p \in Caller,
                    pc[p] = "revokeNext", pc'[p] = "idle", result'[p] = "OK"
             PROVE  \A d \in DeploymentId : deployment'[d].version = call[p].version =>
                        deployment'[d].desired = "REVOKED"
  BY DEF AllRevoked
<1>0. TypeOK /\ RevocationOwed(p)
  BY DEF Inv, SharedInv, OwedInv, Owed
<1>1. ~Crash(p)
  BY <1>0 DEF Crash, Return, TypeOK
<1>2. ~Calls(p)
  BY DEF Calls, CreateVersion, CreateDeployment, SetDesiredState, Upgrade, Reconcile,
         RevokeVersion, ManualStop, Begin, Decides
<1>3. Steps(p)
  BY <1>0, <1>1, <1>2, CallMoves
<1>4. RevokeNext(p)
  BY <1>3 DEF Steps, LoadRunRequest, PublishVersion, AppendVersion, AppendDeployment, AppendDesired,
              AppendUpgrade, Resolve, ReconcileRunning, ReconcileStopped, ReconcileRevoked,
              AppendReady, AppendStarting, VerifyAtMount, DockerRun, AppendStarted, AppendStopping,
              DockerKill, AppendStopFailed, AppendStopped, MarkRevoked, RevokeAuthority,
              AppendVersionRevoked, ListDeployments, AppendDeploymentRevoked, Decides
<1>5. call[p].todo = {} /\ deployment' = deployment
  BY <1>0, <1>4 DEF RevokeNext, GotoWith, TypeOK, Decides, logs
<1> QED BY <1>0, <1>5 DEF RevocationOwed

\* A revoke_version that runs to its end has reached every deployment of the version.
THEOREM RevocationReaches == ASSUME SingleCaller PROVE Spec => RevokeReachesDeployments
<1>1. Inv /\ OwedInv /\ [Next]_vars => [AllRevoked]_vars
  BY StepAllRevoked
<1>2. Spec => [][AllRevoked]_vars
  BY <1>1, InvCorrect, OwedCorrect, PTL DEF Spec
<1> QED BY <1>2 DEF RevokeReachesDeployments, AllRevoked

-----------------------------------------------------------------------------
(* A deployment is a slot for one container: ManagedRuntime implements     *)
(* RuntimeSlots.  A wish names a version (WishesNamed), a write of a       *)
(* deployment is a wish, docker run fills a slot and docker kill or an     *)
(* exit empties it; every other step leaves the slots alone.               *)

Writing == {"createDeployment", "setDesired", "upgrade", "revokeNext", "revokeDeployment"}

LEMMA NothingNamed ==
    ASSUME NEW p \in Caller, pc'[p] \notin Writing
    PROVE  NamesVersion(p)'
BY DEF Writing, NamesVersion

LEMMA CallsName ==
    ASSUME Inv, WishesNamed, NEW p \in Caller, Calls(p)
    PROVE  NamesVersion(p)'
<1>0. TypeOK
  BY DEF Inv, SharedInv
<1>1. ASSUME NEW v \in Version, CreateVersion(p, v) PROVE NamesVersion(p)'
  BY <1>0, <1>1, AfterBegin, NothingNamed DEF CreateVersion, Writing
<1>2. ASSUME NEW v \in Version, NEW s \in DesiredStates, CreateDeployment(p, v, s)
      PROVE  NamesVersion(p)'
  <2>1. call'[p] = [NoCall EXCEPT !.version = v, !.desired = s]
    BY <1>0, <1>2, AfterBegin DEF CreateDeployment
  <2>2. call'[p].version = v /\ call'[p].desired = s
    BY <2>1 DEF NoCall
  <2> QED BY <2>2 DEF NamesVersion
<1>3. ASSUME NEW d \in DeploymentId, NEW s \in DesiredStates, SetDesiredState(p, d, s)
      PROVE  NamesVersion(p)'
  <2>1. /\ call'[p] = [NoCall EXCEPT !.dep = d, !.version = deployment[d].version, !.desired = s]
        /\ Created(d)
    BY <1>0, <1>3, AfterBegin DEF SetDesiredState, MayLeave
  <2>2. call'[p].version = deployment[d].version /\ call'[p].desired = s
    BY <2>1 DEF NoCall
  <2> QED BY <2>1, <2>2 DEF NamesVersion, WishesNamed
<1>4. ASSUME NEW d \in DeploymentId, NEW v \in Version, Upgrade(p, d, v) PROVE NamesVersion(p)'
  <2>1. PICK label : Begin(p, label, [NoCall EXCEPT !.dep = d, !.version = v, !.desired = "RUNNING"])
    BY Zenon, <1>4 DEF Upgrade
  <2>2. call'[p] = [NoCall EXCEPT !.dep = d, !.version = v, !.desired = "RUNNING"]
    BY <1>0, <2>1, AfterBegin
  <2>3. call'[p].version = v /\ call'[p].desired = "RUNNING"
    BY <2>2 DEF NoCall
  <2> QED BY <2>3 DEF NamesVersion, DesiredStates
<1>5. ASSUME NEW d \in DeploymentId, Reconcile(p, d) PROVE NamesVersion(p)'
  BY <1>0, <1>5, AfterBegin, NothingNamed DEF Reconcile, Writing
<1>6. ASSUME NEW v \in Version, RevokeVersion(p, v) PROVE NamesVersion(p)'
  <2>1. pc'[p] \in {"idle", "revokeAuthority"}
    BY <1>0, <1>6, AfterBegin, AfterReturn DEF RevokeVersion
  <2> QED BY <2>1, NothingNamed DEF Writing
<1>7. ASSUME NEW i \in InstanceId, ManualStop(p, i) PROVE NamesVersion(p)'
  BY <1>0, <1>7, AfterBegin, NothingNamed DEF ManualStop, Writing
<1> QED BY <1>1, <1>2, <1>3, <1>4, <1>5, <1>6, <1>7 DEF Calls

LEMMA StepsName ==
    ASSUME Inv, OwedInv, WishesNamed, NEW p \in Caller, Steps(p)
    PROVE  NamesVersion(p)'
<1>0. TypeOK /\ Fresh(p) /\ Knows(pc[p], call[p]) /\ Owed(p) /\ NamesVersion(p)
  BY OneCallerParts DEF Inv, SharedInv, CallOK, OwedInv, WishesNamed
<1>a. ASSUME NEW r, Return(p, r) PROVE NamesVersion(p)'
  BY <1>0, <1>a, AfterReturn, NothingNamed DEF Writing
<1>b. ASSUME NEW label, Goto(p, label), label \notin Writing PROVE NamesVersion(p)'
  BY <1>0, <1>b, AfterGoto, NothingNamed
<1>c. ASSUME NEW label, NEW c, GotoWith(p, label, c), label \notin Writing PROVE NamesVersion(p)'
  BY <1>0, <1>c, AfterGotoWith, NothingNamed
<1>d. ASSUME NEW label, NEW i, NEW n, Take(p, label, i, n), label \notin Writing
      PROVE  NamesVersion(p)'
  BY <1>c, <1>d DEF Take
<1>e. /\ {"publish", "appendVersion", "resolve", "observe", "ready", "starting", "mount", "run",
          "startOk", "startFailed", "stopping", "kill", "stopOk", "stopFailed", "revokeVersion",
          "listDeployments"} \cap Writing = {}
  BY DEF Writing
<1>1. CASE LoadRunRequest(p) \/ PublishVersion(p) \/ AppendVersion(p)
  BY <1>1, <1>a, <1>b, <1>e DEF LoadRunRequest, PublishVersion, AppendVersion
<1>2. CASE AppendDeployment(p) \/ AppendDesired(p) \/ AppendUpgrade(p) \/ Resolve(p)
  BY <1>2, <1>a, <1>b, <1>c, <1>e DEF AppendDeployment, AppendDesired, AppendUpgrade, Resolve
<1>3. CASE ReconcileRunning(p)
  <2>1. ASSUME NEW i \in InstanceId, ReconcileSwitch(p, i) \/ ReconcileSame(p, i)
        PROVE  NamesVersion(p)'
    BY <1>a, <1>c, <1>d, <1>e, <2>1 DEF ReconcileSwitch, ReconcileSame
  <2>2. \/ \E r : Return(p, r)
        \/ Goto(p, "ready")
        \/ \E i \in InstanceId : ReconcileSwitch(p, i) \/ ReconcileSame(p, i)
    BY <1>3 DEF ReconcileRunning
  <2> QED BY <1>a, <1>b, <1>e, <2>1, <2>2
<1>4. CASE ReconcileStopped(p)
  BY <1>4, <1>a, <1>d, <1>e DEF ReconcileStopped
<1>5. CASE ReconcileRevoked(p)
  <2>1. "mark" \notin Writing
    BY DEF Writing
  <2> QED BY <1>5, <1>a, <1>d, <1>e, <2>1 DEF ReconcileRevoked
<1>6. CASE AppendReady(p)
  BY <1>6, <1>c, <1>e DEF AppendReady
<1>7. CASE AppendStarting(p) \/ VerifyAtMount(p) \/ DockerRun(p) \/ AppendStarted(p)
  BY <1>7, <1>a, <1>b, <1>e DEF AppendStarting, VerifyAtMount, DockerRun, AppendStarted
<1>8. CASE AppendStopping(p) \/ DockerKill(p) \/ AppendStopFailed(p) \/ MarkRevoked(p)
  BY <1>8, <1>a, <1>b, <1>e DEF AppendStopping, DockerKill, AppendStopFailed, MarkRevoked
<1>9. CASE AppendStopped(p)
  <2>1. "mark" \notin Writing
    BY DEF Writing
  <2> QED BY <1>9, <1>a, <1>b, <1>e, <2>1 DEF AppendStopped
<1>10. CASE RevokeAuthority(p) \/ AppendVersionRevoked(p)
  BY <1>10, <1>a, <1>b, <1>e DEF RevokeAuthority, AppendVersionRevoked
<1>11. CASE ListDeployments(p)
  <2>c. PICK c \in CallType : c = call[p]
    BY <1>0 DEF TypeOK
  <2>1. PICK listed : GotoWith(p, "revokeNext", [c EXCEPT !.todo = listed])
    BY <1>11, <2>c DEF ListDeployments
  <2>2. pc'[p] = "revokeNext" /\ call'[p] = [c EXCEPT !.todo = listed]
    BY <1>0, <2>1, AfterGotoWith
  <2>3. c.version \in Version
    BY <1>0, <1>11, <2>c DEF ListDeployments, Decides, Knows, VersionPCs
  <2>4. call'[p].version = c.version
    BY <2>2 DEF CallType
  <2> QED BY <2>2, <2>3, <2>4 DEF NamesVersion
<1>12. CASE RevokeNext(p)
  <2>1. PICK c \in CallType : c = call[p]
    BY <1>0 DEF TypeOK
  <2>2. c.version \in Version /\ \A d \in c.todo : deployment[d].version = c.version
    BY Zenon, <1>0, <1>12, <2>1 DEF RevokeNext, Decides, NamesVersion, Owed, RevocationOwed
  <2>3. CASE Return(p, "OK")
    BY <1>a, <2>3
  <2>4. ASSUME NEW d \in c.todo, GotoWith(p, "revokeNext", [c EXCEPT !.todo = @ \ {d}])
        PROVE  NamesVersion(p)'
    <3>1. pc'[p] = "revokeNext" /\ call'[p] = [c EXCEPT !.todo = @ \ {d}]
      BY <1>0, <2>4, AfterGotoWith
    <3>2. call'[p].version = c.version
      BY <3>1 DEF CallType
    <3> QED BY <2>2, <3>1, <3>2 DEF NamesVersion
  <2>5. ASSUME NEW d \in c.todo,
               GotoWith(p, "revokeDeployment",
                        [[c EXCEPT !.todo = @ \ {d}] EXCEPT !.dep = d, !.desired = "REVOKED",
                            !.version = deployment[d].version])
        PROVE  NamesVersion(p)'
    <3>1. call'[p] = [[c EXCEPT !.todo = @ \ {d}] EXCEPT !.dep = d, !.desired = "REVOKED",
                            !.version = deployment[d].version]
      BY <1>0, <2>5, AfterGotoWith
    <3>2. call'[p].version = c.version /\ call'[p].desired = "REVOKED"
      BY <2>2, <3>1 DEF CallType
    <3> QED BY <2>2, <3>2 DEF NamesVersion, DesiredStates
  <2> QED BY ZenonT(40), <1>12, <2>1, <2>3, <2>4, <2>5 DEF RevokeNext
<1>13. CASE AppendDeploymentRevoked(p)
  <2>1. pc[p] = "revokeDeployment" /\ pc'[p] = "revokeNext" /\ call'[p] = call[p]
    BY SMTT(30), <1>0, <1>13, AfterGoto DEF AppendDeploymentRevoked
  <2> QED BY <1>0, <2>1 DEF NamesVersion
<1> QED BY <1>1, <1>2, <1>3, <1>4, <1>5, <1>6, <1>7, <1>8, <1>9, <1>10, <1>11, <1>12, <1>13
        DEF Steps

\* A write of a deployment: a wish for a slot that is not REVOKED.
Wishes ==
    \E d \in DeploymentId, v \in Version, s \in DesiredStates :
        /\ deployment[d].desired # "REVOKED"
        /\ deployment' = [deployment EXCEPT ![d] = [version |-> v, desired |-> s]]
        /\ UNCHANGED <<instance, container>>

LEMMA StepsWish ==
    ASSUME Inv, WishesNamed, FinalRevocation, NEW p \in Caller, Steps(p)
    PROVE  UNCHANGED deployment \/ Wishes
<1>0. TypeOK /\ Fresh(p) /\ Knows(pc[p], call[p]) /\ NamesVersion(p)
  BY OneCallerParts DEF Inv, SharedInv, CallOK, WishesNamed
<1>1. CASE AppendDeployment(p)
  <2>1. PICK d \in DeploymentId :
          /\ IsNextDeployment(d)
          /\ deployment' = [deployment EXCEPT ![d] =
                [version |-> call[p].version, desired |-> call[p].desired]]
    BY <1>1 DEF AppendDeployment
  <2>2. deployment[d].desired # "REVOKED"
    BY <2>1 DEF IsNextDeployment, Created
  <2>3. call[p].version \in Version /\ call[p].desired \in DesiredStates
    BY <1>0, <1>1 DEF AppendDeployment, NamesVersion
  <2>4. UNCHANGED <<instance, container>>
    BY <1>1 DEF AppendDeployment, docker
  <2> QED BY <2>1, <2>2, <2>3, <2>4 DEF Wishes
<1>2. CASE AppendDesired(p) \/ AppendUpgrade(p) \/ AppendDeploymentRevoked(p)
  <2> DEFINE d == call[p].dep
  <2>1. /\ d \in DeploymentId /\ call[p].version \in Version /\ call[p].desired \in DesiredStates
        /\ WriteDeployment(p)
    BY <1>0, <1>2 DEF AppendDesired, AppendUpgrade, AppendDeploymentRevoked, NamesVersion,
                      Knows, DeploymentPCs
  <2>2. /\ deployment' = [deployment EXCEPT ![d] =
                [version |-> call[p].version, desired |-> call[p].desired]]
        /\ UNCHANGED <<instance, container>>
    BY <2>1 DEF WriteDeployment, docker
  <2>3. CASE deployment[d].desired = "REVOKED"
    <3>1. deployment'[d] = deployment[d]
      BY <2>1, <2>3 DEF FinalRevocation
    <3>2. deployment' = deployment
      BY <1>0, <2>2, <3>1 DEF TypeOK
    <3> QED BY <3>2
  <2> QED BY <2>1, <2>2, <2>3 DEF Wishes
<1> QED BY Zenon, <1>1, <1>2
        DEF Steps, LoadRunRequest, PublishVersion, AppendVersion, Resolve, ReconcileRunning,
            ReconcileStopped, ReconcileRevoked, AppendReady, AppendStarting, VerifyAtMount,
            DockerRun, DockerKill, AppendStarted, AppendStopping, AppendStopFailed, AppendStopped,
            MarkRevoked, RevokeAuthority, AppendVersionRevoked, ListDeployments, RevokeNext,
            AppendInstance, Decides, logs

LEMMA WishesStay ==
    ASSUME TypeOK, WishesNamed, UNCHANGED deployment \/ Wishes
    PROVE  \A d \in DeploymentId : Created(d)' => deployment'[d].version \in Version
<1>1. CASE UNCHANGED deployment
  BY <1>1 DEF WishesNamed, Created
<1>2. CASE Wishes
  <2>1. PICK d \in DeploymentId, v \in Version, s \in DesiredStates :
            deployment' = [deployment EXCEPT ![d] = [version |-> v, desired |-> s]]
    BY <1>2 DEF Wishes
  <2>2. \A e \in DeploymentId :
            deployment'[e] = IF e = d THEN [version |-> v, desired |-> s] ELSE deployment[e]
    BY <2>1 DEF TypeOK
  <2> QED BY <2>2 DEF WishesNamed, Created
<1> QED BY <1>1, <1>2

LEMMA WishesStep == SingleCaller /\ Inv /\ OwedInv /\ WishesNamed /\ [Next]_vars => WishesNamed'
<1> SUFFICES ASSUME SingleCaller, Inv, OwedInv, WishesNamed, [Next]_vars PROVE WishesNamed'
  OBVIOUS
<1>0. TypeOK /\ FinalRevocation
  BY StepFinalRevocation DEF Inv, SharedInv
<1>1. ASSUME NEW p \in Caller, Calls(p) \/ Steps(p) \/ Crash(p) PROVE WishesNamed'
  <2>1. UNCHANGED deployment \/ Wishes
    <3>1. Calls(p) \/ Crash(p) => UNCHANGED deployment
      BY ZenonT(40) DEF Calls, CreateVersion, CreateDeployment, SetDesiredState, Upgrade, Reconcile,
                    RevokeVersion, ManualStop, Crash, Begin, Decides, logs
    <3> QED BY <1>0, <1>1, <3>1, StepsWish
  <2>2. NamesVersion(p)'
    <3>1. Crash(p) => NamesVersion(p)'
      BY <1>0, AfterReturn, NothingNamed DEF Crash, Writing
    <3> QED BY <1>1, <3>1, CallsName, StepsName
  <2>3. \A q \in Caller : NamesVersion(q)'
    BY <2>2 DEF SingleCaller
  <2> QED BY <1>0, <2>1, <2>3, WishesStay DEF WishesNamed
<1>2. CASE UNCHANGED <<pc, call, deployment>>
  BY <1>2 DEF WishesNamed, NamesVersion, Created
<1> QED BY <1>1, <1>2 DEF Next, ContainerExits, RevokeAuthorityDirectly, vars, logs, docker

LEMMA WishesCorrect == ASSUME SingleCaller PROVE Spec => []WishesNamed
<1>1. Init => WishesNamed
  BY DEF Init, WishesNamed, NamesVersion, Created, NoDeployment
<1> QED BY <1>1, WishesStep, InvCorrect, OwedCorrect, PTL DEF Spec

\* The slots are as they were.
LEMMA RunningSame ==
    ASSUME \A i \in InstanceId : container'[i] = "up" <=> container[i] = "up",
           \A i \in InstanceId : container[i] = "up" =>
               instance'[i].dep = instance[i].dep /\ instance'[i].version = instance[i].version
    PROVE  Running' = Running
<1>1. ASSUME NEW d \in DeploymentId PROVE Up(d)' = Up(d)
  BY DEF Up, InstancesOf
<1>2. ASSUME NEW d \in DeploymentId
      PROVE  {<<i, instance[i].version>> : i \in Up(d)}' = {<<i, instance[i].version>> : i \in Up(d)}
  <2>1. \A i \in Up(d) : instance'[i].version = instance[i].version
    BY DEF Up, InstancesOf
  <2>2. {<<i, instance[i].version>> : i \in Up(d)}' = {<<i, instance'[i].version>> : i \in Up(d)}
    BY Zenon, <1>1
  <2> QED BY <2>1, <2>2
<1> QED BY <1>2 DEF Running

\* What is in a slot after the container of i changes, and before.
LEMMA RunningChanges ==
    ASSUME TypeOK, UNCHANGED <<deployment, instance>>, NEW i \in InstanceId,
           NEW d \in DeploymentId, d = instance[i].dep,
           NEW c \in {"none", "up", "exited"}, container' = [container EXCEPT ![i] = c]
    PROVE  /\ c = "up" /\ Up(d) = {} =>
                  Running' = [Running EXCEPT ![d] = {<<i, instance[i].version>>}]
           /\ c # "up" /\ Up(d) = {i} => Running' = [Running EXCEPT ![d] = {}]
<1>1. \A j \in InstanceId : container'[j] = IF j = i THEN c ELSE container[j]
  BY DEF TypeOK
<1>2. ASSUME NEW e \in DeploymentId, e # d PROVE Up(e)' = Up(e)
  BY <1>1, <1>2 DEF Up, InstancesOf
<1>3. Up(d)' = IF c = "up" THEN Up(d) \cup {i} ELSE Up(d) \ {i}
  BY <1>1 DEF Up, InstancesOf
<1>4. \A e \in DeploymentId :
          Running'[e] = {<<j, instance[j].version>> : j \in Up(e)'}
  BY DEF Running
<1>5. \A e \in DeploymentId : e # d => Running'[e] = Running[e]
  BY <1>2, <1>4 DEF Running
<1>6. c = "up" /\ Up(d) = {} => Running'[d] = {<<i, instance[i].version>>}
  <2>1. c = "up" /\ Up(d) = {} => Up(d)' = {i}
    BY <1>3
  <2> QED BY <1>4, <2>1
<1>7. c # "up" /\ Up(d) = {i} => Running'[d] = {}
  <2>1. c # "up" /\ Up(d) = {i} => Up(d)' = {}
    BY <1>3
  <2> QED BY <1>4, <2>1
<1>8. Running = [e \in DeploymentId |-> Running[e]] /\ Running' = [e \in DeploymentId |-> Running'[e]]
  BY DEF Running
<1> QED BY <1>5, <1>6, <1>7, <1>8

\* Docker takes the container of i away: the slot was i's alone.
LEMMA SlotEmpties ==
    ASSUME Inv, NEW i \in InstanceId, container[i] = "up", UNCHANGED <<deployment, instance>>,
           NEW c \in {"none", "exited"}, container' = [container EXCEPT ![i] = c]
    PROVE  \E d \in DeploymentId : Slots!Stop(d)
<1>1. TypeOK /\ TablesOK /\ RunningIsTracked /\ AtMostOneRunning
  BY DEF Inv, SharedInv, OneCallerInv
<1>2. PICK d \in DeploymentId : d = instance[i].dep
  BY <1>1 DEF TablesOK, RunningIsTracked
<1>3. Up(d) = {i}
  BY <1>1, <1>2 DEF Up, InstancesOf, AtMostOneRunning
<1>4. Running' = [Running EXCEPT ![d] = {}]
  BY <1>1, <1>2, <1>3, RunningChanges
<1>5. Running[d] # {}
  <2>1. <<i, instance[i].version>> \in Running[d]
    BY <1>3 DEF Running
  <2> QED BY <2>1
<1> QED BY <1>4, <1>5 DEF Slots!Stop

\* docker run fills the slot with what its deployment wants: AtMostOneRunning
\* afterwards means that the slot was empty.
LEMMA SlotFills ==
    ASSUME Inv, Inv', NEW p \in Caller, DockerRun(p), Running' # Running
    PROVE  \E d \in DeploymentId, i \in InstanceId : Slots!Start(d, i)
<1>1. /\ TypeOK /\ TablesOK /\ AtMostOneRunning' /\ DeploymentFresh(p) /\ InstanceFresh(p)
      /\ Knows(pc[p], call[p]) /\ pc[p] = "run" /\ UNCHANGED <<deployment, instance>>
  BY DEF Inv, SharedInv, OneCallerInv, CallOK, DockerRun, logs
<1>2. PICK i \in InstanceId : i = call[p].inst
  BY <1>1 DEF Knows, StartPCs
<1>3. container[i] = "none" /\ container' = [container EXCEPT ![i] = "up"]
  <2>1. \/ container[i] = "none" /\ container' = [container EXCEPT ![i] = "up"]
        \/ container[i] = "none" /\ container' = [container EXCEPT ![i] = "exited"]
        \/ UNCHANGED container
    BY <1>2 DEF DockerRun
  <2>2. CASE container[i] = "none" /\ container' = [container EXCEPT ![i] = "exited"]
    <3>1. \A j \in InstanceId : container'[j] = "up" <=> container[j] = "up"
      BY <1>1, <2>2 DEF TypeOK
    <3> QED BY <1>1, <3>1, RunningSame
  <2>3. CASE UNCHANGED container
    BY <1>1, <2>3, RunningSame
  <2> QED BY <2>1, <2>2, <2>3
<1>4. /\ instance[i].dep = call[p].dep /\ instance[i].version = call[p].version
      /\ WantsToRun(p) /\ instance[i].state # "ABSENT"
  BY <1>1, <1>2 DEF InstanceFresh, DeploymentFresh, StartPCs
<1>5. PICK d \in DeploymentId : d = instance[i].dep
  BY <1>1, <1>4 DEF TablesOK
<1>6. Up(d) = {}
  <2> SUFFICES ASSUME NEW j \in Up(d) PROVE FALSE
    OBVIOUS
  <2>1. j \in InstanceId /\ instance[j].dep = d /\ container[j] = "up"
    BY DEF Up, InstancesOf
  <2>2. container'[j] = "up" /\ container'[i] = "up"
    BY <1>1, <1>3, <2>1 DEF TypeOK
  <2>3. j = i
    BY <1>1, <1>5, <2>1, <2>2 DEF AtMostOneRunning
  <2> QED BY <1>3, <2>1, <2>3
<1>7. Running' = [Running EXCEPT ![d] = {<<i, instance[i].version>>}]
  BY <1>1, <1>3, <1>5, <1>6, RunningChanges
<1>8. Running[d] = {}
  BY <1>6 DEF Running
<1>9. deployment[d].version = instance[i].version /\ deployment[d].desired = "RUNNING"
  BY <1>4, <1>5 DEF WantsToRun
<1> QED BY <1>1, <1>7, <1>8, <1>9 DEF Slots!Start

SlotStep == [Slots!Next]_<<deployment, Running>>

LEMMA WishSlot == ASSUME Wishes PROVE SlotStep
<1>1. PICK d \in DeploymentId, v \in Version, s \in DesiredStates :
        /\ deployment[d].desired # "REVOKED"
        /\ deployment' = [deployment EXCEPT ![d] = [version |-> v, desired |-> s]]
        /\ UNCHANGED <<instance, container>>
  BY DEF Wishes
<1>2. Running' = Running
  BY <1>1, RunningSame
<1>3. s \in Slots!States
  BY DEF DesiredStates, Slots!States
<1>4. Slots!Wish(d, v, s)
  BY <1>1, <1>2 DEF Slots!Wish
<1> QED BY <1>3, <1>4 DEF SlotStep, Slots!Next

\* An append to instances.jsonl moves no container from one slot to another.
LEMMA AppendSlot ==
    ASSUME Inv, NEW p \in Caller, NEW s, AppendInstance(p, s), call[p].inst \in InstanceId
    PROVE  UNCHANGED <<deployment, Running>>
<1>1. TypeOK
  BY DEF Inv, SharedInv
<1>2. \A j \in InstanceId : /\ instance'[j].dep = instance[j].dep
                            /\ instance'[j].version = instance[j].version
  BY <1>1, AppendInstanceEffect
<1>3. UNCHANGED <<deployment, container>>
  BY <1>1, AppendInstanceEffect
<1> QED BY <1>2, <1>3, RunningSame

LEMMA StepsSlot ==
    ASSUME Inv, Inv', WishesNamed, FinalRevocation, NEW p \in Caller, Steps(p)
    PROVE  SlotStep
<1>0. TypeOK /\ Knows(pc[p], call[p])
  BY DEF Inv, SharedInv, CallOK
<1>1. CASE Wishes
  BY Zenon, <1>1, WishSlot
<1>2. CASE UNCHANGED deployment
  <2>a. ASSUME UNCHANGED <<instance, container>> PROVE SlotStep
    BY <1>2, <2>a, RunningSame DEF SlotStep
  <2>1. CASE AppendReady(p)
    <3>i. PICK i \in InstanceId : \E rec :
            /\ instance[i].state = "ABSENT"
            /\ instance' = [instance EXCEPT ![i] = rec]
            /\ UNCHANGED container
      BY <2>1 DEF AppendReady, IsNextInstance, docker
    <3>1. PICK rec :
            /\ instance[i].state = "ABSENT"
            /\ instance' = [instance EXCEPT ![i] = rec]
            /\ UNCHANGED container
      BY <3>i
    <3>2. container[i] # "up"
      BY <3>1 DEF Inv, OneCallerInv, RunningIsTracked
    <3>3. \A j \in InstanceId : container[j] = "up" => instance'[j] = instance[j]
      BY <1>0, <3>1, <3>2 DEF TypeOK
    <3> QED BY <1>2, <3>1, <3>3, RunningSame DEF SlotStep
  <2>2. CASE \/ AppendStarting(p) \/ AppendStarted(p) \/ AppendStopping(p)
             \/ AppendStopFailed(p) \/ AppendStopped(p) \/ MarkRevoked(p)
    <3>1. call[p].inst \in InstanceId
      BY <1>0, <2>2 DEF AppendStarting, AppendStarted, AppendStopping, AppendStopFailed,
             AppendStopped, MarkRevoked, Knows, StartPCs, StopPCs
    <3>2. \E s : AppendInstance(p, s)
      BY <2>2 DEF AppendStarting, AppendStarted, AppendStopping, AppendStopFailed,
             AppendStopped, MarkRevoked
    <3> QED BY <3>1, <3>2, AppendSlot DEF SlotStep
  <2>3. CASE DockerRun(p)
    BY <1>2, <2>3, SlotFills DEF SlotStep, Slots!Next
  <2>4. CASE DockerKill(p)
    <3>1. call[p].inst \in InstanceId /\ UNCHANGED <<deployment, instance>>
      BY <1>0, <2>4 DEF DockerKill, Knows, StopPCs, logs
    <3>2. \/ UNCHANGED container
          \/ /\ container[call[p].inst] = "up"
             /\ \E c \in {"none", "exited"} :
                    container' = [container EXCEPT ![call[p].inst] = c]
      BY <2>4 DEF DockerKill
    <3> QED BY <2>a, <3>1, <3>2, SlotEmpties DEF SlotStep, Slots!Next
  <2> QED BY Zenon, <2>a, <2>1, <2>2, <2>3, <2>4
          DEF Steps, LoadRunRequest, PublishVersion, AppendVersion, AppendDeployment,
              AppendDesired, AppendUpgrade, Resolve, ReconcileRunning, ReconcileStopped,
              ReconcileRevoked, VerifyAtMount, RevokeAuthority, AppendVersionRevoked,
              ListDeployments, RevokeNext, AppendDeploymentRevoked, WriteDeployment, Decides,
              logs, docker
<1> QED BY <1>1, <1>2, StepsWish

LEMMA NextSlot == Inv /\ Inv' /\ WishesNamed /\ [Next]_vars => SlotStep
<1> SUFFICES ASSUME Inv, Inv', WishesNamed, [Next]_vars PROVE SlotStep
  OBVIOUS
<1>0. FinalRevocation
  BY StepFinalRevocation
<1>a. ASSUME UNCHANGED <<deployment, instance, container>> PROVE SlotStep
  BY <1>a, RunningSame DEF SlotStep
<1>1. ASSUME NEW p \in Caller, Calls(p) \/ Crash(p) PROVE SlotStep
  <2>1. UNCHANGED <<deployment, instance, container>>
    BY ZenonT(40), <1>1 DEF Calls, CreateVersion, CreateDeployment, SetDesiredState, Upgrade,
                    Reconcile, RevokeVersion, ManualStop, Crash, Begin, Decides, logs, docker
  <2> QED BY <1>a, <2>1
<1>2. ASSUME NEW p \in Caller, Steps(p) PROVE SlotStep
  BY <1>0, <1>2, StepsSlot
<1>3. ASSUME NEW i \in InstanceId, ContainerExits(i) PROVE SlotStep
  BY <1>3, SlotEmpties DEF ContainerExits, SlotStep, Slots!Next, logs
<1>4. CASE UNCHANGED vars \/ \E v \in Version : RevokeAuthorityDirectly(v)
  BY <1>a, <1>4 DEF RevokeAuthorityDirectly, vars, logs, docker
<1> QED BY <1>1, <1>2, <1>3, <1>4 DEF Next

\* Deployments, instances and containers together are slots for one container each,
\* filled only when empty and with what is wanted, whatever fails or is cut off.
THEOREM ImplementsSlots == ASSUME SingleCaller PROVE Spec => FillsSlots
<1>1. Init => Slots!Init
  <2> SUFFICES ASSUME Init PROVE Slots!Init
    OBVIOUS
  <2>1. \A d \in DeploymentId : Up(d) = {}
    BY DEF Init, Up, InstancesOf
  <2>2. Running = [d \in DeploymentId |-> {}]
    BY <2>1 DEF Running
  <2> QED BY <2>2 DEF Init, Slots!Init, Slots!NoWish, NoDeployment
<1>2. Inv /\ Inv' /\ WishesNamed /\ [Next]_vars => SlotStep
  BY NextSlot
<1>3. Spec => Slots!Init /\ [][Slots!Next]_<<deployment, Running>>
  BY <1>1, <1>2, InvCorrect, WishesCorrect, PTL DEF Spec, SlotStep
<1> QED BY <1>3 DEF FillsSlots, Slots!Spec
=============================================================================
