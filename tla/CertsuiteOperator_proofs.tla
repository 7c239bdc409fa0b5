---------------------- MODULE CertsuiteOperator_proofs ----------------------
(***************************************************************************)
(* Proofs about CertsuiteOperator: type correctness, the coherence of the  *)
(* copies of an object, what optimistic locking keeps, and which pods the  *)
(* controller deletes.                                                     *)
(***************************************************************************)
EXTENDS CertsuiteOperator, TLAPS

(* What is assumed of the constants. *)
USE BoundsAssumption, RunsAssumption, ClaimsAssumption,
    RetryAssumption, RestartAssumption
    DEF BoundsAssumption, RunsAssumption, ClaimsAssumption,
        RetryAssumption, RestartAssumption

----------------------------------------------------------------------------
(* The building blocks have their types.                                   *)

LEMMA NoRunType == NoRun \in RunObjects
BY DEF NoRun, RunObjects, Phases, NoPod

LEMMA NoRunUid == NoRun.uid = 0 /\ ~Present(NoRun)
BY DEF NoRun, Present

LEMMA AbsentPodType == AbsentPod \in Pods
BY NoRunType DEF AbsentPod, Pods, Containers, ContainerStates, Claims

LEMMA IdleType == Idle \in Calls
BY DEF Idle, Calls, Phases, NoPod

(* A status update stores an object of the right type. *)
LEMMA StoredType ==
    ASSUME NEW n \in Runs, NEW obj \in RunObjects, crs \in [Runs -> RunObjects]
    PROVE  Stored(n, obj) \in [Runs -> RunObjects]
<1>1. [obj EXCEPT !.rv = obj.rv + 1] \in RunObjects
    BY DEF RunObjects
<1> QED BY <1>1 DEF Stored

----------------------------------------------------------------------------
(* Type correctness.                                                       *)

(* What the kubelet, the suite and a deletion do to a pod: it stays a pod  *)
(* of the same run and owner, or it vanishes.                              *)
PodKept(p, pod) == /\ pod \in Pods
                   /\ ChangePod(p, pod)
                   /\ pod.owner # 0 => /\ Exists(p)
                                       /\ pod.owner = pods[p].owner
                                       /\ pod.run = pods[p].run
                                       /\ pod.read \in {pods[p].read, NoRun}

PodStep(p) ==
    \/ StartPod(p) \/ WriteClaim(p) \/ SuiteExit(p) \/ Expire(p)
    \/ CollectGarbage(p) \/ EvictPod(p) \/ KillContainers(p) \/ RemovePod(p)

LEMMA PodStepKeeps ==
    ASSUME ClusterTypeOK, NEW p \in PodNames, PodStep(p)
    PROVE  \E pod : PodKept(p, pod)
<1> DEFINE q == pods[p]
<1>0. q \in Pods BY DEF ClusterTypeOK
<1>1. CASE StartPod(p)
    <2>1. [q EXCEPT !.status = [c \in Containers |-> "running"]] \in Pods
        BY <1>0 DEF Pods, ContainerStates
    <2> QED BY <1>0, <1>1, <2>1 DEF StartPod, PodKept, Pods
<1>2. CASE WriteClaim(p)
    <2>1. \A kind \in Claims : [q EXCEPT !.claim = kind] \in Pods
        BY <1>0 DEF Pods
    <2>2. "partial" \in Claims /\ ClaimKinds \subseteq Claims
        BY DEF Claims
    <2>3. PICK kind \in Claims : ChangePod(p, [q EXCEPT !.claim = kind])
        BY <1>2, <2>2 DEF WriteClaim
    <2> QED BY <1>0, <1>2, <2>1, <2>3 DEF WriteClaim, Running, PodKept, Pods
<1>3. CASE SuiteExit(p)
    <2>1. \A s \in ContainerStates : [q EXCEPT !.status["certsuite"] = s] \in Pods
        BY <1>0 DEF Pods
    <2>2. PICK s \in ContainerStates :
              ChangePod(p, [q EXCEPT !.status["certsuite"] = s])
        BY <1>3 DEF SuiteExit, ContainerStates
    <2> QED BY <1>0, <1>3, <2>1, <2>2 DEF SuiteExit, Running, PodKept, Pods
<1>4. CASE Expire(p)
    <2>1. [q EXCEPT !.overdue = TRUE] \in Pods
        BY <1>0 DEF Pods
    <2> QED BY <1>0, <1>4, <2>1 DEF Expire, Running, PodKept, Pods
<1>5. CASE CollectGarbage(p) \/ EvictPod(p)
    <2>1. [q EXCEPT !.terminating = TRUE] \in Pods
        BY <1>0 DEF Pods
    <2> QED BY <1>0, <1>5, <2>1 DEF CollectGarbage, EvictPod, PodKept, Pods
<1>6. CASE KillContainers(p)
    <2> DEFINE killed == [c \in Containers |->
                             IF Running(p, c) THEN "exit1" ELSE q.status[c]]
    <2>1. killed \in [Containers -> ContainerStates]
        BY <1>0 DEF Pods, ContainerStates
    <2>2. [q EXCEPT !.status = killed, !.read = NoRun] \in Pods
        BY <1>0, <2>1, NoRunType DEF Pods
    <2>3. ChangePod(p, [q EXCEPT !.status = killed, !.read = NoRun]) /\ Exists(p)
        BY <1>6 DEF KillContainers, Running
    <2> DEFINE pod == [q EXCEPT !.status = killed, !.read = NoRun]
    <2>4. pod.owner = q.owner /\ pod.run = q.run /\ pod.read = NoRun
        BY <1>0 DEF Pods
    <2> HIDE DEF pod
    <2>5. PodKept(p, pod)
        BY <2>2, <2>3, <2>4 DEF PodKept, pod
    <2> QED BY <2>5
<1>7. CASE RemovePod(p)
    BY <1>7, AbsentPodType DEF RemovePod, PodKept, AbsentPod
<1> QED BY <1>1, <1>2, <1>3, <1>4, <1>5, <1>6, <1>7 DEF PodStep

LEMMA ClusterStepType ==
    TypeOK /\ ClusterNext => ClusterTypeOK'
<1> SUFFICES ASSUME ClusterTypeOK, ClusterNext PROVE ClusterTypeOK'
    BY DEF TypeOK
<1>1. ASSUME NEW n \in Runs, CreateRun(n) PROVE ClusterTypeOK'
    <2>1. [NoRun EXCEPT !.uid = gen[n] + 1, !.rv = 1] \in RunObjects
        <3>1. gen[n] + 1 \in 0 .. MaxGen
            BY <1>1 DEF ClusterTypeOK, CreateRun
        <3> QED BY <3>1, NoRunType DEF RunObjects
    <2> QED BY <1>1, <2>1 DEF ClusterTypeOK, CreateRun, Exists
<1>2. ASSUME NEW n \in Runs, DeleteRun(n) PROVE ClusterTypeOK'
    BY <1>2, NoRunType DEF ClusterTypeOK, DeleteRun, Exists
<1>3. ASSUME NEW p \in PodNames, PodStep(p) PROVE ClusterTypeOK'
    <2>1. PICK pod : PodKept(p, pod)
        BY <1>3, PodStepKeeps
    <2> QED BY <2>1 DEF PodKept, ClusterTypeOK, ChangePod, Exists
<1> QED BY <1>1, <1>2, <1>3 DEF ClusterNext, PodStep

LEMMA SidecarStepType ==
    TypeOK /\ SidecarNext => ClusterTypeOK'
<1> SUFFICES ASSUME ClusterTypeOK, NEW p \in PodNames,
                    SidecarRead(p) \/ SidecarUpdate(p)
             PROVE  ClusterTypeOK'
    BY DEF TypeOK, SidecarNext
<1> DEFINE q == pods[p]
<1>1. q \in Pods BY DEF ClusterTypeOK
<1>2. Stop(p, "exit0") \in Pods /\ Stop(p, "exit1") \in Pods
    BY <1>1, NoRunType DEF Stop, Pods, ContainerStates
<1>3. failures' \in 0 .. MaxFailures
    BY DEF ClusterTypeOK, SidecarRead, SidecarUpdate, CallFails
<1>4. Exists(p) /\ q.run \in Runs
    BY DEF ClusterTypeOK, SidecarRead, SidecarUpdate, Running
<1>5. Stop(p, "exit1").run = q.run /\ Stop(p, "exit0").run = q.run
    BY <1>1 DEF Stop, Pods
<1>6. CASE SidecarRead(p)
    <2>1. [q EXCEPT !.read = crs[q.run]] \in Pods
        BY <1>1, <1>4 DEF Pods, ClusterTypeOK
    <2>2. PICK pod \in Pods : pods' = [pods EXCEPT ![p] = pod] /\ pod.run = q.run
        BY <1>1, <1>2, <1>5, <1>6, <2>1 DEF SidecarRead, Fatal, Pods
    <2> QED BY <1>3, <1>4, <1>6, <2>2 DEF ClusterTypeOK, SidecarRead, Exists
<1>7. CASE SidecarUpdate(p)
    <2>1. PICK pod \in Pods : pods' = [pods EXCEPT ![p] = pod] /\ pod.run = q.run
        BY <1>2, <1>5, <1>7 DEF SidecarUpdate, Fatal
    <2>2. WithReport(p) \in RunObjects
        BY <1>1 DEF WithReport, Pods, RunObjects
    <2>3. crs' \in [Runs -> RunObjects]
        BY <1>4, <1>7, <2>2, StoredType DEF ClusterTypeOK, SidecarUpdate
    <2> QED BY <1>3, <1>4, <1>7, <2>1, <2>3 DEF ClusterTypeOK, SidecarUpdate, Exists
<1> QED BY <1>6, <1>7

(* The controller's own steps. Those that only read the stored objects and *)
(* move the call in progress are separated from those that write.          *)

LEMMA InformerStepType ==
    ASSUME TypeOK, NEW n \in Runs,
           \/ WatchCreate(n) \/ WatchUpdate(n) \/ WatchDelete(n)
           \/ Deliver(n) \/ TimerFires(n)
    PROVE  TypeOK'
<1> USE DEF TypeOK, ReconcilerTypeOK, memory, clusterVars
<1>1. ClusterTypeOK'
    BY DEF WatchCreate, WatchUpdate, WatchDelete, Watch, Deliver, TimerFires,
           ClusterTypeOK, Exists
<1>2. CASE WatchCreate(n) \/ WatchUpdate(n) \/ WatchDelete(n)
    BY <1>1, <1>2, NoRunType
    DEF WatchCreate, WatchUpdate, WatchDelete, Watch, notifiesOf, ClusterTypeOK
<1>3. CASE Deliver(n)
    BY <1>1, <1>3 DEF Deliver
<1>4. CASE TimerFires(n)
    BY <1>1, <1>4 DEF TimerFires
<1> QED BY <1>2, <1>3, <1>4

LEMMA StartStepType ==
    ASSUME TypeOK, NEW n \in Runs, Starts(n)
    PROVE  TypeOK'
<1> USE DEF TypeOK, ReconcilerTypeOK, Take, memory, clusterVars, Starts
<1>1. ClusterTypeOK'
    BY DEF ReconcileDeleted, ReconcileEnd, ReconcileNew, ClusterTypeOK, Exists
<1>2. CASE ReconcileDeleted(n)
    <2>1. HasEntry(n) => [Idle EXCEPT !.pc = "deletePod", !.run = n,
                                      !.pod = certificationRuns[n]] \in Calls
        BY IdleType DEF Calls
    <2>2. HasEntry(n) => certificationRuns[n] \in PodNames
        BY DEF HasEntry, NoPod, PodNames
    <2>3. rec' \in Calls /\ (rec'.pc # "idle" => rec'.run = n /\ rec'.pod \in PodNames)
        BY <1>2, <2>1, <2>2, IdleType DEF ReconcileDeleted, Idle
    <2> QED BY <1>1, <1>2, <2>3 DEF ReconcileDeleted
<1>3. CASE ReconcileEnd(n)
    <2>1. cache[n].pod \in 0 .. MaxPodID
        BY DEF RunObjects
    <2>2. [Idle EXCEPT !.pc = "getPod", !.run = n, !.pod = cache[n].pod] \in Calls
        BY <2>1, IdleType DEF Calls
    <2> QED BY <1>1, <1>3, <2>1, <2>2
        DEF ReconcileEnd, IsNew, Idle, NoPod, PodNames
<1>4. CASE ReconcileNew(n)
    <2>1. NextPodID \in PodNames /\ NextPodID \in 0 .. MaxPodID
        BY <1>4 DEF ReconcileNew, NextPodID, PodNames
    <2>2. cache[n].uid \in 0 .. MaxGen
        BY DEF RunObjects
    <2>3. rec' \in Calls /\ rec'.run = n /\ rec'.pod = NextPodID
        <3>1. "CertSuiteDeploying" \in Phases /\ RetrySteps \in 0 .. RetrySteps
            BY DEF Phases
        <3> QED BY <1>4, <2>1, <2>2, <3>1 DEF ReconcileNew, Calls
    <2> QED BY <1>1, <1>4, <2>1, <2>3 DEF ReconcileNew
<1> QED BY <1>2, <1>3, <1>4

(* An update to a known phase is a call of the right type. *)
LEMMA UpdateCallType ==
    ASSUME rec \in Calls, NEW phase \in Phases
    PROVE  /\ updateStatus(phase) \in Calls
           /\ updateStatus(phase).run = rec.run
           /\ updateStatus(phase).pod = rec.pod
<1>1. RetrySteps \in 0 .. RetrySteps
    OBVIOUS
<1> QED BY <1>1 DEF updateStatus, Calls

(* The call in progress after an update, whatever its outcome: it is over, *)
(* or it goes on for the same run and pod.                                 *)
CallGoesOn == /\ rec' \in Calls
              /\ rec'.pc # "idle" => rec'.run = rec.run /\ rec'.pod = rec.pod
              /\ timers' \in [Runs -> {"off", "check", "backoff"}]

LEMMA EndCallType ==
    ASSUME ReconcilerTypeOK, NEW result \in {"done", "check", "backoff"},
           EndCall(result)
    PROVE  CallGoesOn
BY IdleType DEF ReconcilerTypeOK, EndCall, CallGoesOn, Idle

LEMMA AfterUpdateType ==
    ASSUME ReconcilerTypeOK, AfterUpdate \/ AfterFailedUpdate
    PROVE  CallGoesOn
<1>1. CASE \E result \in {"done", "check", "backoff"} : EndCall(result)
    BY <1>1, EndCallType
<1>2. CASE rec' = [rec EXCEPT !.pc = "createPod"] /\ UNCHANGED timers
    BY <1>2 DEF ReconcilerTypeOK, CallGoesOn, Calls
<1> QED BY <1>1, <1>2 DEF AfterUpdate, AfterFailedUpdate

LEMMA TargetType ==
    ASSUME ReconcilerTypeOK, rec.pc # "idle"
    PROVE  Target \in RunObjects
<1>1. cache[rec.run] \in RunObjects /\ rec.phase \in Phases /\ rec.pod \in 0 .. MaxPodID
    BY DEF ReconcilerTypeOK, Calls
<1>2. [cache[rec.run] EXCEPT !.phase = rec.phase] \in RunObjects
    BY <1>1 DEF RunObjects
<1>3. [cache[rec.run] EXCEPT !.phase = rec.phase, !.pod = rec.pod] \in RunObjects
    BY <1>1 DEF RunObjects
<1> QED BY <1>2, <1>3 DEF Target

LEMMA NewJobPodType ==
    ASSUME NEW n \in Runs, NEW uid \in 0 .. MaxGen
    PROVE  NewJobPod(n, uid) \in Pods /\ NewJobPod(n, uid).run = n
BY AbsentPodType DEF NewJobPod, Pods

LEMMA CallStepType ==
    ASSUME TypeOK, CallNext
    PROVE  TypeOK'
<1> USE DEF TypeOK
<1>1. rec \in Calls /\ rec.run \in Runs /\ rec.pod \in PodNames /\ rec.pc # "idle"
    BY DEF CallNext, ReconcilerTypeOK, DeleteJobPod, InUpdate, InCreate, InGetPod,
           UpdateStored, UpdateRetried, UpdateFailed, PodCreated, PodNotCreated,
           PodUnreadable, PodRunning, PodFinished
<1>2. failures' \in 0 .. MaxFailures
    BY DEF CallNext, ClusterTypeOK, DeleteJobPod, CallFails,
           UpdateStored, UpdateRetried, UpdateFailed, PodCreated, PodNotCreated,
           PodUnreadable, PodRunning, PodFinished
<1>3. ASSUME CallGoesOn, UNCHANGED <<cache, events, queue, memory>>
      PROVE  ReconcilerTypeOK'
    BY <1>1, <1>3 DEF CallGoesOn, ReconcilerTypeOK, memory
<1>4. CASE DeleteJobPod
    <2>1. CallGoesOn
        BY <1>4, EndCallType DEF DeleteJobPod
    <2>2. [pods[rec.pod] EXCEPT !.terminating = TRUE] \in Pods
        BY <1>1 DEF ClusterTypeOK, Pods
    <2>3. ClusterTypeOK'
        <3>1. CASE UNCHANGED pods
            BY <1>2, <1>4, <3>1 DEF DeleteJobPod, ClusterTypeOK, Exists
        <3>2. CASE pods' = [pods EXCEPT ![rec.pod].terminating = TRUE]
            <4>1. /\ pods' \in [PodNames -> Pods]
                  /\ \A p \in PodNames : /\ pods'[p].owner = pods[p].owner
                                          /\ pods'[p].run = pods[p].run
                BY <1>1, <2>2, <3>2 DEF ClusterTypeOK, Pods
            <4> QED BY <1>2, <1>4, <4>1 DEF DeleteJobPod, ClusterTypeOK, Exists
        <3> QED BY <1>4, <3>1, <3>2 DEF DeleteJobPod
    <2>4. certificationRuns' \in [Runs -> 0 .. MaxPodID]
        BY <1>4 DEF DeleteJobPod, ReconcilerTypeOK, NoPod
    <2> QED BY <1>1, <1>4, <2>1, <2>3, <2>4
        DEF DeleteJobPod, ReconcilerTypeOK, CallGoesOn
<1>5. CASE UpdateStored \/ UpdateRetried \/ UpdateFailed
    <2>1. CASE UpdateRetried
        <3>1. rec' \in Calls /\ rec'.run = rec.run /\ rec'.pod = rec.pod
            BY <1>1, <2>1 DEF UpdateRetried, Calls
        <3> QED BY <1>3, <2>1, <3>1
            DEF UpdateRetried, InUpdate, CallGoesOn, ReconcilerTypeOK, ClusterTypeOK, Exists
    <2>2. CASE UpdateStored \/ UpdateFailed
        <3>1. CallGoesOn
            BY <2>2, AfterUpdateType DEF UpdateStored, UpdateFailed
        <3>2. crs' \in [Runs -> RunObjects]
            BY <1>1, <2>2, TargetType, StoredType
            DEF UpdateStored, UpdateFailed, ClusterTypeOK
        <3> QED BY <1>2, <1>3, <2>2, <3>1, <3>2
            DEF UpdateStored, UpdateFailed, InUpdate, ClusterTypeOK, Exists
    <2> QED BY <1>5, <2>1, <2>2
<1>6. CASE PodCreated \/ PodNotCreated
    <2>1. NewJobPod(rec.run, rec.uid) \in Pods /\ NewJobPod(rec.run, rec.uid).run \in Runs
        BY <1>1, NewJobPodType DEF Calls
    <2>2. pods' \in [PodNames -> Pods]
        BY <1>6, <2>1 DEF PodCreated, PodNotCreated, PodStored, ClusterTypeOK
    <2>3. \A p \in PodNames : pods'[p].owner # 0 => pods'[p].run \in Runs
        BY <1>6, <2>1 DEF PodCreated, PodNotCreated, PodStored, ClusterTypeOK, Exists
    <2>4. CallGoesOn
        <3>1. "CertSuiteRunning" \in Phases /\ "CertSuiteDeployError" \in Phases
            BY DEF Phases
        <3> QED BY <1>1, <1>6, <3>1, UpdateCallType
            DEF PodCreated, PodNotCreated, InCreate, CallGoesOn, ReconcilerTypeOK
    <2> QED BY <1>2, <1>3, <1>6, <2>2, <2>3, <2>4
        DEF PodCreated, PodNotCreated, InCreate, ClusterTypeOK, Exists
<1>7. CASE PodUnreadable \/ PodRunning \/ PodFinished
    <2>1. ClusterTypeOK'
        BY <1>2, <1>7 DEF PodUnreadable, PodRunning, PodFinished, InGetPod,
                          ClusterTypeOK, Exists
    <2>2. CallGoesOn
        <3>1. CASE \E result \in {"check", "backoff"} : EndCall(result)
            BY <3>1, EndCallType
        <3>2. CASE \E phase \in Phases : rec' = updateStatus(phase) /\ UNCHANGED timers
            BY <1>1, <3>2, UpdateCallType DEF CallGoesOn, ReconcilerTypeOK
        <3>3. "CertSuiteTimeout" \in Phases /\ \A s : EndPhase(s) \in Phases
            BY DEF EndPhase, Phases
        <3> QED BY <1>7, <3>1, <3>2, <3>3 DEF PodUnreadable, PodRunning, PodFinished
    <2> QED BY <1>3, <1>7, <2>1, <2>2 DEF PodUnreadable, PodRunning, PodFinished, InGetPod
<1> QED BY <1>4, <1>5, <1>6, <1>7 DEF CallNext

LEMMA RestartType ==
    ASSUME TypeOK, Restart
    PROVE  TypeOK'
<1>1. ClusterTypeOK'
    BY DEF TypeOK, Restart, clusterVars, ClusterTypeOK, Exists
<1>2. Idle.pc = "idle"
    BY DEF Idle
<1>3. restarts' \in 0 .. MaxRestarts
    BY DEF TypeOK, Restart, ReconcilerTypeOK
<1> QED BY <1>1, <1>2, <1>3, IdleType
    DEF TypeOK, Restart, ReconcilerTypeOK, ClusterTypeOK, NoPod

(* Every variable keeps its type in every reachable state.                 *)
THEOREM TypeCorrect == Spec => []TypeOK
<1>1. Init => TypeOK
    <2> SUFFICES ASSUME Init PROVE TypeOK OBVIOUS
    <2>1. ClusterTypeOK
        BY NoRunType, AbsentPodType
        DEF Init, ClusterInit, ClusterTypeOK, Exists, AbsentPod
    <2>2. ReconcilerTypeOK
        <3>1. Idle.pc = "idle"
            BY DEF Idle
        <3> QED BY <3>1, NoRunType, IdleType
            DEF Init, ReconcilerInit, ReconcilerTypeOK, NoPod
    <2> QED BY <2>1, <2>2 DEF TypeOK
<1>2. TypeOK /\ [Next]_vars => TypeOK'
    <2> SUFFICES ASSUME TypeOK, [Next]_vars PROVE TypeOK' OBVIOUS
    <2>1. CASE UNCHANGED vars
        BY <2>1 DEF TypeOK, ClusterTypeOK, ReconcilerTypeOK, vars, clusterVars,
                    reconcilerVars, Exists
    <2>2. CASE (ClusterNext \/ SidecarNext) /\ UNCHANGED reconcilerVars
        BY <2>2, ClusterStepType, SidecarStepType
        DEF TypeOK, ReconcilerTypeOK, reconcilerVars
    <2>3. CASE ReconcilerNext
        BY <2>3, InformerStepType, StartStepType, CallStepType, RestartType
        DEF ReconcilerNext, Starts
    <2> QED BY <2>1, <2>2, <2>3 DEF Next
<1> QED BY <1>1, <1>2, PTL DEF Spec

----------------------------------------------------------------------------
(* What one step of the system may do to the stored objects: create one,   *)
(* delete one, accept one status update of a current copy, or nothing.     *)

Accepts(n, obj) == Current(n, obj) /\ crs' = Stored(n, obj) /\ gen' = gen

StoreStep == \/ \E n \in Runs : CreateRun(n) \/ DeleteRun(n)
             \/ \E n \in Runs, obj \in RunObjects : Accepts(n, obj)
             \/ UNCHANGED <<crs, gen>>

LEMMA StepsOfTheStore ==
    ASSUME TypeOK, [Next]_vars
    PROVE  StoreStep
<1>1. CASE ClusterNext
    BY <1>1 DEF ClusterNext, StoreStep, StartPod, WriteClaim, SuiteExit, Expire,
                CollectGarbage, EvictPod, KillContainers, RemovePod, ChangePod
<1>2. CASE SidecarNext
    <2>1. PICK p \in PodNames : SidecarRead(p) \/ SidecarUpdate(p)
        BY <1>2 DEF SidecarNext
    <2>2. CASE UNCHANGED <<crs, gen>>
        BY <2>2 DEF StoreStep
    <2>3. CASE /\ ReportAccepted(p) /\ Running(p, "certsuite-sidecar")
               /\ crs' = Stored(pods[p].run, WithReport(p)) /\ gen' = gen
        <3>1. pods[p] \in Pods /\ pods[p].run \in Runs
            BY <2>3 DEF TypeOK, ClusterTypeOK, Running
        <3>2. WithReport(p) \in RunObjects
            BY <3>1 DEF WithReport, Pods, RunObjects
        <3> QED BY <2>3, <3>1, <3>2 DEF ReportAccepted, StoreStep, Accepts
    <2> QED BY <2>1, <2>2, <2>3 DEF SidecarRead, SidecarUpdate
<1>3. CASE ReconcilerNext
    <2>1. CASE UpdateStored
        <3>1. rec.pc # "idle" /\ rec.run \in Runs
            BY <2>1 DEF UpdateStored, InUpdate, TypeOK, ReconcilerTypeOK
        <3>2. Target \in RunObjects
            BY <3>1, TargetType DEF TypeOK
        <3> QED BY <2>1, <3>1, <3>2
            DEF UpdateStored, InUpdate, UpdateAccepted, StoreStep, Accepts
    <2>2. CASE ~UpdateStored
        BY <1>3, <2>2
        DEF ReconcilerNext, CallNext, StoreStep, WatchCreate, WatchUpdate, WatchDelete,
            Watch, Deliver, TimerFires, ReconcileDeleted, ReconcileEnd, ReconcileNew,
            Take, DeleteJobPod, UpdateRetried, UpdateFailed, InUpdate, PodCreated,
            PodNotCreated, InCreate, PodUnreadable, PodRunning, PodFinished, InGetPod,
            Restart, clusterVars
    <2> QED BY <2>1, <2>2
<1>4. CASE UNCHANGED vars
    BY <1>4 DEF vars, clusterVars, StoreStep
<1> QED BY <1>1, <1>2, <1>3, <1>4 DEF Next

(* What one step may do to a pod: it stays a pod of its run and owner, and *)
(* what its sidecar has read is kept, dropped, or the object now stored;   *)
(* or it is the pod whose creation the controller is at.                   *)

PodStays(p) ==
    /\ Exists(p) /\ pods[p].run \in Runs
    /\ pods'[p].run = pods[p].run
    /\ pods'[p].owner = pods[p].owner
    /\ \/ pods'[p].read \in {pods[p].read, NoRun}
       \/ pods'[p].read = crs[pods[p].run] /\ UNCHANGED <<crs, gen>>

PodIsNew(p) ==
    /\ rec.pc = "createPod" /\ p = rec.pod /\ rec.run \in Runs
    /\ pods'[p].run = rec.run
    /\ pods'[p].owner = rec.uid
    /\ pods'[p].read = NoRun

LEMMA StepsOfThePods ==
    ASSUME TypeOK, [Next]_vars, NEW p \in PodNames, pods'[p].owner # 0
    PROVE  PodStays(p) \/ PodIsNew(p)
<1> USE DEF TypeOK, ClusterTypeOK
<1>1. CASE pods'[p] = pods[p]
    BY <1>1 DEF PodStays, Exists
<1>2. CASE ClusterNext
    <2>1. CASE UNCHANGED pods
        BY <1>1, <2>1
    <2>2. ASSUME NEW q \in PodNames, PodStep(q) PROVE PodStays(p)
        <3>1. PICK pod : PodKept(q, pod)
            BY <2>2, PodStepKeeps
        <3>2. pods' = [pods EXCEPT ![q] = pod] /\ (pod.owner # 0 =>
                  /\ Exists(q) /\ pod.owner = pods[q].owner /\ pod.run = pods[q].run
                  /\ pod.read \in {pods[q].read, NoRun})
            BY <3>1 DEF PodKept, ChangePod
        <3> QED BY <3>2 DEF PodStays, Exists
    <2> QED BY <1>2, <2>1, <2>2 DEF ClusterNext, PodStep, CreateRun, DeleteRun
<1>3. CASE SidecarNext
    <2>1. PICK q \in PodNames : SidecarRead(q) \/ SidecarUpdate(q)
        BY <1>3 DEF SidecarNext
    <2>2. pods[q] \in Pods /\ Exists(q) /\ pods[q].run \in Runs
        BY <2>1 DEF SidecarRead, SidecarUpdate, Running
    <2>3. ASSUME NEW code, pods' = [pods EXCEPT ![q] = Stop(q, code)]
          PROVE  PodStays(p)
        <3>1. /\ Stop(q, code).run = pods[q].run
              /\ Stop(q, code).owner = pods[q].owner
              /\ Stop(q, code).read = NoRun
            BY <2>2 DEF Stop, Pods
        <3> QED BY <2>2, <2>3, <3>1 DEF PodStays, Exists
    <2>4. ASSUME pods' = [pods EXCEPT ![q].read = crs[pods[q].run]],
                 UNCHANGED <<crs, gen>>
          PROVE  PodStays(p)
        <3> DEFINE pod == [pods[q] EXCEPT !.read = crs[pods[q].run]]
        <3>1. /\ pod.run = pods[q].run /\ pod.owner = pods[q].owner
              /\ pod.read = crs[pods[q].run]
            BY <2>2 DEF Pods
        <3>2. pods' = [pods EXCEPT ![q] = pod]
            BY <2>4
        <3> HIDE DEF pod
        <3> QED BY <2>2, <2>4, <3>1, <3>2 DEF PodStays, Exists
    <2> QED BY <2>1, <2>3, <2>4 DEF SidecarRead, SidecarUpdate, Fatal
<1>4. CASE DeleteJobPod
    <2>1. CASE pods' = [pods EXCEPT ![rec.pod].terminating = TRUE]
        <3>1. /\ pods'[p].owner = pods[p].owner /\ pods'[p].run = pods[p].run
              /\ pods'[p].read = pods[p].read
            BY <2>1 DEF Pods
        <3> QED BY <3>1 DEF PodStays, Exists
    <2> QED BY <1>1, <1>4, <2>1 DEF DeleteJobPod
<1>5. CASE PodCreated \/ PodNotCreated
    <2>1. rec.pc = "createPod" /\ rec.run \in Runs
        BY <1>5 DEF PodCreated, PodNotCreated, InCreate, ReconcilerTypeOK
    <2>2. CASE UNCHANGED pods
        BY <1>1, <2>2
    <2>3. CASE pods' = PodStored
        <3>1. /\ NewJobPod(rec.run, rec.uid).run = rec.run
              /\ NewJobPod(rec.run, rec.uid).owner = rec.uid
              /\ NewJobPod(rec.run, rec.uid).read = NoRun
            BY DEF NewJobPod, AbsentPod
        <3> QED BY <1>1, <2>1, <2>3, <3>1 DEF PodStored, PodIsNew
    <2> QED BY <1>5, <2>2, <2>3 DEF PodCreated, PodNotCreated
<1>6. CASE UNCHANGED pods
    BY <1>1, <1>6
<1>7. CASE ReconcilerNext /\ ~DeleteJobPod /\ ~PodCreated /\ ~PodNotCreated
    BY <1>6, <1>7
    DEF ReconcilerNext, CallNext, WatchCreate, WatchUpdate, WatchDelete,
        Watch, Deliver, TimerFires, ReconcileDeleted, ReconcileEnd, ReconcileNew,
        Take, UpdateStored, UpdateRetried, UpdateFailed, InUpdate,
        PodUnreadable, PodRunning, PodFinished, InGetPod, Restart, clusterVars
<1> QED BY <1>2, <1>3, <1>4, <1>5, <1>6, <1>7 DEF Next, vars, clusterVars

(* What one step may do to the cache: nothing, forget an object whose uid  *)
(* is no longer stored, or take the object now stored.                     *)
CacheStep(n) == \/ cache'[n] = cache[n]
                \/ /\ UNCHANGED <<crs, gen>>
                   /\ \/ cache'[n] = NoRun /\ crs[n].uid # cache[n].uid
                      \/ cache'[n] = crs[n]

LEMMA StepsOfTheCache ==
    ASSUME TypeOK, [Next]_vars, NEW n \in Runs
    PROVE  CacheStep(n)
<1> USE DEF TypeOK, ReconcilerTypeOK
<1>1. CASE UNCHANGED cache
    BY <1>1 DEF CacheStep
<1>2. ASSUME NEW m \in Runs, WatchCreate(m) \/ WatchUpdate(m) \/ WatchDelete(m)
      PROVE  CacheStep(n)
    BY <1>2 DEF WatchCreate, WatchUpdate, WatchDelete, Watch, clusterVars, CacheStep
<1>3. CASE Restart
    BY <1>3 DEF Restart, clusterVars, CacheStep
<1>4. CASE CallNext
    BY <1>1, <1>4
    DEF CallNext, DeleteJobPod, UpdateStored, UpdateRetried, UpdateFailed, InUpdate,
        PodCreated, PodNotCreated, InCreate, PodUnreadable, PodRunning, PodFinished,
        InGetPod
<1>5. ASSUME NEW m \in Runs, Deliver(m) \/ TimerFires(m) \/ Starts(m)
      PROVE  CacheStep(n)
    BY <1>1, <1>5
    DEF Deliver, TimerFires, Starts, ReconcileDeleted, ReconcileEnd, ReconcileNew, Take
<1>6. CASE ReconcilerNext
    BY <1>2, <1>3, <1>4, <1>5, <1>6 DEF ReconcilerNext, Starts
<1> QED BY <1>1, <1>6 DEF Next, vars, reconcilerVars

----------------------------------------------------------------------------
(* Copies are faithful.                                                    *)

(* A copy stays a copy, whatever is stored.                                *)
LEMMA CopiesLast ==
    ASSUME TypeOK, StoreStep, NEW n \in Runs, NEW copy \in RunObjects,
           crs[n].uid <= gen[n], CopyOf(copy, crs[n], gen[n])
    PROVE  crs'[n].uid <= gen'[n] /\ CopyOf(copy, crs'[n], gen'[n])
<1> USE DEF TypeOK, ClusterTypeOK
<1>0. /\ crs[n].uid \in Nat /\ crs[n].rv \in Nat /\ gen[n] \in Nat
      /\ copy.uid \in Nat /\ copy.rv \in Nat
    BY DEF RunObjects
<1>1. CASE UNCHANGED <<crs, gen>>
    BY <1>1
<1>2. ASSUME NEW m \in Runs, CreateRun(m)
      PROVE  crs'[n].uid <= gen'[n] /\ CopyOf(copy, crs'[n], gen'[n])
    <2>1. CASE m = n
        <3>1. crs'[n].uid = gen[n] + 1 /\ gen'[n] = gen[n] + 1
            BY <1>2, <2>1 DEF CreateRun, NoRun
        <3> QED BY <1>0, <3>1 DEF CopyOf
    <2>2. CASE m # n
        <3>1. crs'[n] = crs[n] /\ gen'[n] = gen[n]
            BY <1>2, <2>2 DEF CreateRun
        <3> QED BY <3>1
    <2> QED BY <2>1, <2>2
<1>3. ASSUME NEW m \in Runs, DeleteRun(m)
      PROVE  crs'[n].uid <= gen'[n] /\ CopyOf(copy, crs'[n], gen'[n])
    <2>1. CASE m = n
        <3>1. crs'[n] = NoRun /\ gen'[n] = gen[n]
            BY <1>3, <2>1 DEF DeleteRun
        <3> QED BY <1>0, <3>1, NoRunUid DEF CopyOf
    <2>2. CASE m # n
        <3>1. crs'[n] = crs[n] /\ gen'[n] = gen[n]
            BY <1>3, <2>2 DEF DeleteRun
        <3> QED BY <3>1
    <2> QED BY <2>1, <2>2
<1>4. ASSUME NEW m \in Runs, NEW obj \in RunObjects, Accepts(m, obj)
      PROVE  crs'[n].uid <= gen'[n] /\ CopyOf(copy, crs'[n], gen'[n])
    <2>1. CASE crs'[n] = crs[n]
        BY <1>4, <2>1 DEF Accepts
    <2>2. CASE crs'[n] = [obj EXCEPT !.rv = obj.rv + 1] /\ m = n
        <3>1. obj.uid = crs[n].uid /\ obj.rv = crs[n].rv
            BY <1>4, <2>2 DEF Accepts, Current
        <3>2. crs'[n].uid = crs[n].uid /\ crs'[n].rv = crs[n].rv + 1
            BY <2>2, <3>1 DEF RunObjects
        <3> QED BY <1>0, <1>4, <3>2 DEF Accepts, CopyOf, Present
    <2> QED BY <1>4, <2>1, <2>2 DEF Accepts, Stored
<1> QED BY <1>1, <1>2, <1>3, <1>4 DEF StoreStep

LEMMA NoRunIsACopy ==
    ASSUME NEW n \in Runs, gen[n] \in Nat
    PROVE  CopyOf(NoRun, crs[n], gen[n])
BY NoRunUid DEF CopyOf, Present

LEMMA CopiesInvInit == Init => CopiesInv
<1> SUFFICES ASSUME Init PROVE CopiesInv
    OBVIOUS
<1>1. \A n \in Runs : crs[n] = NoRun /\ cache[n] = NoRun /\ gen[n] = 0
    BY DEF Init, ClusterInit, ReconcilerInit
<1>2. \A p \in PodNames : ~Exists(p)
    BY DEF Init, ClusterInit, Exists, AbsentPod
<1>3. CopyOf(NoRun, NoRun, 0)
    BY NoRunUid DEF CopyOf
<1> QED BY <1>1, <1>2, <1>3, NoRunUid DEF CopiesInv

LEMMA CopiesInvStep == TypeOK /\ TypeOK' /\ CopiesInv /\ [Next]_vars => CopiesInv'
<1> SUFFICES ASSUME TypeOK, TypeOK', CopiesInv, [Next]_vars PROVE CopiesInv'
    OBVIOUS
<1>1. StoreStep
    BY StepsOfTheStore
<1>2. ASSUME NEW n \in Runs
      PROVE  /\ crs'[n].uid <= gen'[n]
             /\ CopyOf(NoRun, crs'[n], gen'[n])
             /\ UNCHANGED <<crs, gen>> => CopyOf(crs[n], crs'[n], gen'[n])
             /\ \A copy \in RunObjects :
                    CopyOf(copy, crs[n], gen[n]) => CopyOf(copy, crs'[n], gen'[n])
    <2>0. /\ gen[n] \in Nat /\ crs[n] \in RunObjects /\ cache[n] \in RunObjects
          /\ crs[n].uid \in Nat /\ crs[n].rv \in Nat
        BY DEF TypeOK, ClusterTypeOK, ReconcilerTypeOK, RunObjects
    <2>1. crs[n].uid <= gen[n] /\ CopyOf(cache[n], crs[n], gen[n])
        BY DEF CopiesInv
    <2>2. CopyOf(crs[n], crs[n], gen[n])
        BY <2>0, <2>1 DEF CopyOf
    <2>3. CopyOf(NoRun, crs[n], gen[n])
        BY <2>0, NoRunIsACopy
    <2>4. \A copy \in RunObjects : CopyOf(copy, crs[n], gen[n]) =>
              crs'[n].uid <= gen'[n] /\ CopyOf(copy, crs'[n], gen'[n])
        BY <1>1, <2>1, CopiesLast
    <2> QED BY <2>0, <2>1, <2>2, <2>3, <2>4, NoRunType
<1>3. ASSUME NEW n \in Runs PROVE CopyOf(cache'[n], crs'[n], gen'[n])
    <2>1. CacheStep(n) /\ cache[n] \in RunObjects /\ CopyOf(cache[n], crs[n], gen[n])
        BY StepsOfTheCache DEF TypeOK, ReconcilerTypeOK, CopiesInv
    <2> QED BY <1>2, <2>1 DEF CacheStep
<1>4. ASSUME NEW p \in PodNames, pods'[p].owner # 0
      PROVE  CopyOf(pods'[p].read, crs'[pods'[p].run], gen'[pods'[p].run])
    <2>1. CASE PodStays(p)
        <3>1. /\ pods[p].read \in RunObjects
              /\ CopyOf(pods[p].read, crs[pods[p].run], gen[pods[p].run])
            BY <2>1 DEF PodStays, TypeOK, ClusterTypeOK, Pods, CopiesInv
        <3> QED BY <1>2, <2>1, <3>1 DEF PodStays
    <2>2. CASE PodIsNew(p)
        BY <1>2, <2>2 DEF PodIsNew
    <2> QED BY <1>4, <2>1, <2>2, StepsOfThePods
<1> QED BY <1>2, <1>3, <1>4 DEF CopiesInv, Exists

LEMMA CopiesInvImplies == CopiesInv => CopiesFaithful
<1>1. ASSUME NEW n, NEW copy, CopyOf(copy, crs[n], gen[n]) PROVE Faithful(n, copy)
    BY <1>1 DEF Faithful, Current, CopyOf
<1> QED BY <1>1 DEF CopiesInv, CopiesFaithful

(* The invariant above holds in every state.                               *)
LEMMA CopiesInvCorrect == Spec => []CopiesInv
<1>1. TypeOK /\ CopiesInv /\ [Next]_vars /\ TypeOK' => CopiesInv'
    BY CopiesInvStep
<1> QED BY <1>1, CopiesInvInit, TypeCorrect, PTL DEF Spec

(* The controller's cache and the sidecars' memory never hold another      *)
(* object than the stored one under its uid and resource version.          *)
THEOREM CopiesCorrect == Spec => []CopiesFaithful
<1> QED BY CopiesInvCorrect, CopiesInvImplies, PTL

----------------------------------------------------------------------------
(* No write erases a report or a pod name.                                 *)

LEMMA StepKeepsStatus ==
    ASSUME TypeOK, CopiesFaithful, [Next]_vars, NEW n \in Runs, SameObject(n)
    PROVE  /\ crs[n].report # 0 => crs'[n].report # 0
           /\ crs[n].pod # NoPod => crs'[n].pod # NoPod
<1> USE DEF SameObject
<1>1. CASE crs'[n] = crs[n]
    BY <1>1
<1>2. ASSUME NEW m \in Runs, CreateRun(m) \/ DeleteRun(m)
      PROVE  crs'[n] = crs[n]
    <2>1. CASE m = n
        <3>1. Present(crs[n]) /\ crs'[n].uid = crs[n].uid
            OBVIOUS
        <3>2. ~CreateRun(m)
            BY <2>1, <3>1 DEF CreateRun
        <3>3. ~DeleteRun(m)
            <4>1. DeleteRun(m) => crs'[n] = NoRun
                BY <2>1 DEF DeleteRun, TypeOK, ClusterTypeOK
            <4> QED BY <3>1, <4>1, NoRunUid DEF Present
        <3> QED BY <1>2, <3>2, <3>3
    <2>2. CASE m # n
        BY <1>2, <2>2 DEF CreateRun, DeleteRun, TypeOK, ClusterTypeOK
    <2> QED BY <2>1, <2>2
<1>3. CASE SidecarNext
    <2>1. PICK p \in PodNames : SidecarRead(p) \/ SidecarUpdate(p)
        BY <1>3 DEF SidecarNext
    <2>2. CASE UNCHANGED crs
        BY <1>1, <2>2
    <2>3. CASE /\ ReportAccepted(p) /\ Running(p, "certsuite-sidecar")
               /\ crs' = Stored(pods[p].run, WithReport(p))
        <3>1. pods[p] \in Pods /\ Exists(p) /\ pods[p].run \in Runs
            BY <2>3 DEF TypeOK, ClusterTypeOK, Running
        <3>2. pods[p].read \in RunObjects /\ pods[p].owner # 0
            BY <3>1 DEF Pods, Exists
        <3>3. /\ WithReport(p).uid = pods[p].read.uid /\ WithReport(p).rv = pods[p].read.rv
              /\ WithReport(p).pod = pods[p].read.pod /\ WithReport(p).report # 0
              /\ WithReport(p) \in RunObjects
            BY <3>1, <3>2 DEF WithReport, RunObjects, Pods
        <3>4. pods[p].read = crs[pods[p].run]
            BY <2>3, <3>1, <3>3 DEF ReportAccepted, Current, CopiesFaithful, Faithful
        <3>5. CASE pods[p].run = n
            <4>1. \/ crs'[n] = WithReport(p)
                  \/ crs'[n] = [WithReport(p) EXCEPT !.rv = WithReport(p).rv + 1]
                BY <2>3, <3>5 DEF Stored, TypeOK, ClusterTypeOK
            <4>2. crs'[n].pod = WithReport(p).pod /\ crs'[n].report = WithReport(p).report
                BY <3>3, <4>1 DEF RunObjects
            <4> QED BY <3>3, <3>4, <3>5, <4>2
        <3>6. CASE pods[p].run # n
            BY <1>1, <2>3, <3>1, <3>6 DEF Stored, TypeOK, ClusterTypeOK
        <3> QED BY <3>5, <3>6
    <2> QED BY <2>1, <2>2, <2>3 DEF SidecarRead, SidecarUpdate
<1>4. CASE UpdateStored
    <2>1. rec.pc # "idle" /\ rec.run \in Runs /\ rec.pod \in PodNames
        BY <1>4 DEF UpdateStored, InUpdate, TypeOK, ReconcilerTypeOK
    <2>2. cache[rec.run] \in RunObjects /\ Target \in RunObjects
        BY <2>1, TargetType DEF TypeOK, ReconcilerTypeOK
    <2>3. /\ Target.uid = cache[rec.run].uid /\ Target.rv = cache[rec.run].rv
          /\ Target.report = cache[rec.run].report
          /\ Target.pod \in {cache[rec.run].pod, rec.pod}
        BY <2>2 DEF Target, RunObjects
    <2>4. cache[rec.run] = crs[rec.run]
        BY <1>4, <2>1, <2>3
        DEF UpdateStored, UpdateAccepted, Current, CopiesFaithful, Faithful
    <2>5. CASE rec.run = n
        <3>1. crs'[n] = Target \/ crs'[n] = [Target EXCEPT !.rv = Target.rv + 1]
            BY <1>4, <2>5 DEF UpdateStored, Stored, TypeOK, ClusterTypeOK
        <3>2. crs'[n].pod = Target.pod /\ crs'[n].report = Target.report
            BY <2>2, <3>1 DEF RunObjects
        <3>3. rec.pod # NoPod
            BY <2>1 DEF PodNames, NoPod
        <3> QED BY <2>3, <2>4, <2>5, <3>2, <3>3
    <2>6. CASE rec.run # n
        BY <1>1, <1>4, <2>1, <2>6 DEF UpdateStored, Stored, TypeOK, ClusterTypeOK
    <2> QED BY <2>5, <2>6
<1>5. CASE ClusterNext
    BY <1>1, <1>2, <1>5
    DEF ClusterNext, StartPod, WriteClaim, SuiteExit, Expire, CollectGarbage,
        EvictPod, KillContainers, RemovePod, ChangePod
<1>6. CASE ReconcilerNext /\ ~UpdateStored
    BY <1>1, <1>6
    DEF ReconcilerNext, CallNext, WatchCreate, WatchUpdate, WatchDelete,
        Watch, Deliver, TimerFires, ReconcileDeleted, ReconcileEnd, ReconcileNew,
        Take, DeleteJobPod, UpdateRetried, UpdateFailed, InUpdate, PodCreated,
        PodNotCreated, InCreate, PodUnreadable, PodRunning, PodFinished, InGetPod,
        Restart, clusterVars
<1> QED BY <1>1, <1>3, <1>4, <1>5, <1>6 DEF Next, vars, clusterVars

(* Whatever the interleaving of the controller, its retries and restarts   *)
(* and the sidecars, a stored report or pod name is never erased.          *)
THEOREM StatusIsKept == Spec => StatusKept
<1>1. TypeOK /\ CopiesFaithful /\ [Next]_vars
      => [\A n \in Runs : SameObject(n) =>
            /\ crs[n].report # 0 => crs'[n].report # 0
            /\ crs[n].pod # NoPod => crs'[n].pod # NoPod]_vars
    BY StepKeepsStatus
<1> QED BY <1>1, TypeCorrect, CopiesCorrect, PTL DEF Spec, StatusKept

----------------------------------------------------------------------------
(* What a step does to an object: nothing, its creation or deletion, a     *)
(* report from its sidecar, or a phase from the controller.                *)
Reports(n) ==
    /\ Present(crs[n])
    /\ \E p \in PodNames : Running(p, "certsuite-sidecar") /\ pods[p].run = n
    /\ crs'[n].pod = crs[n].pod /\ crs'[n].phase = crs[n].phase
    /\ crs'[n].report # 0
    /\ crs'[n].uid = crs[n].uid /\ gen' = gen

Writes(n) ==
    /\ UpdateStored
    /\ rec.pc = "updateStatus" /\ rec.run = n /\ Present(crs[n])
    /\ rec.phase \in AcceptedPhases /\ crs'[n].phase = rec.phase
    /\ crs'[n].pod = IF rec.phase = "CertSuiteRunning" THEN rec.pod ELSE crs[n].pod
    /\ crs'[n].report = crs[n].report
    /\ crs'[n].uid = crs[n].uid /\ gen' = gen

Blank(obj) == obj.phase = "" /\ obj.pod = NoPod /\ obj.report = 0

Renews(n) ==
    /\ Blank(crs'[n])
    /\ \/ Present(crs[n]) /\ ~Present(crs'[n])
       \/ /\ ~Present(crs[n]) /\ Present(crs'[n]) /\ (MaxGen <= 1 => gen[n] = 0)
          /\ UNCHANGED <<pods, reconcilerVars>>

LEMMA NoRunFields == Blank(NoRun) /\ NoRun.pod = NoPod /\ NoRun.phase # "CertSuiteFinished"
BY DEF NoRun, Blank

LEMMA StoreSidecar ==
    ASSUME TypeOK, CopiesInv, NEW n \in Runs, NEW p \in PodNames,
           ReportAccepted(p), Running(p, "certsuite-sidecar"), gen' = gen,
           crs' = Stored(pods[p].run, WithReport(p))
    PROVE  /\ pods[p].run = n => Reports(n)
           /\ pods[p].run # n => crs'[n] = crs[n]
<1> USE DEF TypeOK, ClusterTypeOK
<1>1. /\ pods[p] \in Pods /\ pods[p].run \in Runs /\ pods[p].read \in RunObjects
      /\ Exists(p)
    BY DEF Pods, Running
<1>2. /\ WithReport(p) \in RunObjects /\ WithReport(p).report # 0
      /\ WithReport(p).uid = pods[p].read.uid /\ WithReport(p).rv = pods[p].read.rv
      /\ WithReport(p).pod = pods[p].read.pod /\ WithReport(p).phase = pods[p].read.phase
    BY <1>1 DEF WithReport, RunObjects, Pods, Exists
<1>3. pods[p].read = crs[pods[p].run] /\ Present(crs[pods[p].run])
    BY <1>1, <1>2, CopiesInvImplies DEF ReportAccepted, Current, CopiesFaithful, Faithful
<1>4. CASE pods[p].run = n
    <2>1. crs'[n] \in {WithReport(p), [WithReport(p) EXCEPT !.rv = WithReport(p).rv + 1]}
        BY <1>4 DEF Stored
    <2>2. /\ crs'[n].uid = WithReport(p).uid /\ crs'[n].pod = WithReport(p).pod
          /\ crs'[n].phase = WithReport(p).phase /\ crs'[n].report = WithReport(p).report
        BY <1>2, <2>1 DEF RunObjects
    <2> QED BY <1>2, <1>3, <1>4, <2>2 DEF Reports
<1>5. CASE pods[p].run # n
    BY <1>1, <1>5 DEF Stored
<1> QED BY <1>4, <1>5

LEMMA StoreController ==
    ASSUME TypeOK, CopiesInv, NEW n \in Runs, UpdateStored
    PROVE  /\ rec.run = n => Writes(n)
           /\ rec.run # n => crs'[n] = crs[n]
<1> USE DEF TypeOK, ClusterTypeOK, ReconcilerTypeOK
<1>1. rec.pc = "updateStatus" /\ rec.run \in Runs /\ gen' = gen
      /\ crs' = Stored(rec.run, Target) /\ cache[rec.run] \in RunObjects
    BY DEF UpdateStored, InUpdate
<1>2. Target \in RunObjects
    BY <1>1, TargetType
<1>3. /\ Target.uid = cache[rec.run].uid /\ Target.rv = cache[rec.run].rv
      /\ Target.report = cache[rec.run].report /\ Target.phase = rec.phase
      /\ Target.pod = IF rec.phase = "CertSuiteRunning" THEN rec.pod ELSE cache[rec.run].pod
    BY <1>1 DEF Target, RunObjects
<1>4. /\ cache[rec.run] = crs[rec.run] /\ Present(crs[rec.run])
      /\ rec.phase \in AcceptedPhases
    BY <1>1, <1>3, CopiesInvImplies
    DEF UpdateStored, UpdateAccepted, StatusAccepted, Current, CopiesFaithful, Faithful
<1>5. CASE rec.run = n
    <2>1. crs'[n] \in {Target, [Target EXCEPT !.rv = Target.rv + 1]}
        BY <1>1, <1>5 DEF Stored
    <2>2. /\ crs'[n].uid = Target.uid /\ crs'[n].pod = Target.pod
          /\ crs'[n].phase = Target.phase /\ crs'[n].report = Target.report
        BY <1>2, <2>1 DEF RunObjects
    <2> QED BY <1>1, <1>3, <1>4, <1>5, <2>2 DEF Writes
<1>6. CASE rec.run # n
    BY <1>1, <1>6 DEF Stored
<1> QED BY <1>5, <1>6

LEMMA StepsOfTheFields ==
    ASSUME TypeOK, CopiesInv, [Next]_vars, NEW n \in Runs
    PROVE  crs'[n] = crs[n] \/ Reports(n) \/ Writes(n) \/ Renews(n)
<1>0. crs \in [Runs -> RunObjects] /\ gen \in [Runs -> 0 .. MaxGen]
    BY DEF TypeOK, ClusterTypeOK
<1>1. CASE UNCHANGED crs
    BY <1>1
<1>2. ASSUME NEW m \in Runs, CreateRun(m) \/ DeleteRun(m), UNCHANGED reconcilerVars
      PROVE  crs'[n] = crs[n] \/ Renews(n)
    <2>1. CASE m # n
        BY <1>0, <1>2, <2>1 DEF CreateRun, DeleteRun
    <2>2. CASE m = n /\ DeleteRun(m)
        <3>1. crs'[n] = NoRun
            BY <1>0, <2>2 DEF DeleteRun
        <3>2. Present(crs[n])
            BY <2>2 DEF DeleteRun
        <3> QED BY <3>1, <3>2, NoRunFields, NoRunUid DEF Renews
    <2>3. CASE m = n /\ CreateRun(m)
        <3>1. (MaxGen <= 1 => gen[n] = 0) /\ ~Present(crs[n]) /\ UNCHANGED pods
            BY <1>0, <2>3 DEF CreateRun
        <3>2. /\ crs'[n] = [NoRun EXCEPT !.uid = gen[n] + 1, !.rv = 1]
            BY <1>0, <2>3 DEF CreateRun
        <3>3. /\ crs'[n].pod = NoRun.pod /\ crs'[n].phase = NoRun.phase
              /\ crs'[n].report = NoRun.report /\ crs'[n].uid = gen[n] + 1
            BY <3>1, <3>2, NoRunType DEF RunObjects
        <3>4. Blank(crs'[n])
            BY <3>3, NoRunFields DEF Blank
        <3>5. Present(crs'[n])
            BY <1>0, <3>3 DEF Present
        <3> QED BY <1>2, <3>1, <3>4, <3>5 DEF Renews
    <2> QED BY <1>2, <2>1, <2>2, <2>3
<1>3. CASE SidecarNext
    <2>1. PICK p \in PodNames : SidecarRead(p) \/ SidecarUpdate(p)
        BY <1>3 DEF SidecarNext
    <2> QED BY <1>1, <2>1, StoreSidecar DEF SidecarRead, SidecarUpdate
<1>4. CASE UpdateStored
    BY <1>4, StoreController
<1>5. CASE ClusterNext /\ ~(\E m \in Runs : CreateRun(m) \/ DeleteRun(m))
    BY <1>1, <1>5 DEF ClusterNext, StartPod, WriteClaim, SuiteExit, Expire,
                CollectGarbage, EvictPod, KillContainers, RemovePod, ChangePod
<1>6. CASE ReconcilerNext /\ ~UpdateStored
    BY <1>1, <1>6
    DEF ReconcilerNext, CallNext, WatchCreate, WatchUpdate, WatchDelete,
        Watch, Deliver, TimerFires, ReconcileDeleted, ReconcileEnd, ReconcileNew,
        Take, DeleteJobPod, UpdateRetried, UpdateFailed, InUpdate, PodCreated,
        PodNotCreated, InCreate, PodUnreadable, PodRunning, PodFinished, InGetPod,
        Restart, clusterVars
<1>7. CASE ClusterNext /\ UNCHANGED reconcilerVars
    BY <1>2, <1>5, <1>7
<1> QED BY <1>1, <1>3, <1>4, <1>6, <1>7 DEF Next, vars, clusterVars

----------------------------------------------------------------------------
(* Which pods the controller deletes.                                      *)

(* What a step does to the uid stored under a name: it stays, a new one is *)
(* issued, or the object goes.                                             *)
LEMMA UidSteps ==
    ASSUME TypeOK, [Next]_vars, NEW n \in Runs
    PROVE  \/ crs'[n].uid = crs[n].uid /\ gen'[n] = gen[n]
           \/ crs'[n].uid = gen[n] + 1 /\ gen'[n] = gen[n] + 1 /\ cache'[n] = cache[n]
           \/ crs'[n].uid = 0 /\ gen'[n] = gen[n]
<1> USE DEF TypeOK, ClusterTypeOK
<1>0. StoreStep /\ CacheStep(n)
    BY StepsOfTheStore, StepsOfTheCache
<1>00. gen[n] \in Nat /\ crs[n].uid \in Nat
    BY DEF RunObjects
<1>1. ASSUME NEW m \in Runs, CreateRun(m)
      PROVE  \/ crs'[n].uid = crs[n].uid /\ gen'[n] = gen[n]
             \/ /\ crs'[n].uid = gen[n] + 1 /\ gen'[n] = gen[n] + 1
                /\ cache'[n] = cache[n]
    <2>1. CASE m = n
        <3>1. crs'[n].uid = gen[n] + 1 /\ gen'[n] = gen[n] + 1
            BY <1>1, <2>1 DEF CreateRun, NoRun
        <3>2. cache'[n] = cache[n]
            BY <1>0, <1>00, <3>1 DEF CacheStep
        <3> QED BY <3>1, <3>2
    <2>2. CASE m # n
        BY <1>1, <2>2 DEF CreateRun
    <2> QED BY <2>1, <2>2
<1>2. ASSUME NEW m \in Runs, DeleteRun(m)
      PROVE  /\ crs'[n].uid = crs[n].uid \/ crs'[n].uid = 0
             /\ gen'[n] = gen[n]
    <2>1. crs'[n] = crs[n] \/ crs'[n] = NoRun
        BY <1>2 DEF DeleteRun
    <2> QED BY <1>2, <2>1, NoRunUid DEF DeleteRun
<1>3. ASSUME NEW m \in Runs, NEW obj \in RunObjects, Accepts(m, obj)
      PROVE  crs'[n].uid = crs[n].uid /\ gen'[n] = gen[n]
    <2>1. CASE crs'[n] = crs[n]
        BY <1>3, <2>1 DEF Accepts
    <2>2. CASE crs'[n] = [obj EXCEPT !.rv = obj.rv + 1] /\ m = n
        <3>1. obj.uid = crs[n].uid
            BY <1>3, <2>2 DEF Accepts, Current
        <3>2. crs'[n].uid = obj.uid
            BY <2>2 DEF RunObjects
        <3> QED BY <1>3, <3>1, <3>2 DEF Accepts
    <2> QED BY <1>3, <2>1, <2>2 DEF Accepts, Stored
<1> QED BY <1>0, <1>1, <1>2, <1>3 DEF StoreStep

(* A uid the controller knows stays known.                                 *)
LEMMA KnownLasts ==
    ASSUME TypeOK, CopiesInv, [Next]_vars, NEW n \in Runs, NEW uid \in Nat,
           KnownUid(n, uid)
    PROVE  KnownUid(n, uid)'
<1> USE DEF TypeOK, ClusterTypeOK
<1>0. StoreStep /\ CacheStep(n) /\ crs[n].uid <= gen[n]
    BY StepsOfTheStore, StepsOfTheCache DEF CopiesInv
<1>1. /\ gen[n] \in Nat
      /\ crs[n].uid \in Nat
    BY DEF RunObjects
<1>2. \/ crs'[n].uid = crs[n].uid /\ gen'[n] = gen[n]
      \/ crs'[n].uid = gen[n] + 1 /\ gen'[n] = gen[n] + 1 /\ cache'[n] = cache[n]
      \/ crs'[n].uid = 0 /\ gen'[n] = gen[n]
    BY UidSteps
<1>3. CASE cache'[n] = cache[n]
    BY <1>0, <1>1, <1>2, <1>3 DEF KnownUid
<1>4. CASE UNCHANGED <<crs, gen>> /\ cache'[n] = NoRun /\ crs[n].uid # cache[n].uid
    BY <1>4 DEF KnownUid
<1>5. CASE UNCHANGED <<crs, gen>> /\ cache'[n] = crs[n]
    BY <1>5 DEF KnownUid
<1> QED BY <1>0, <1>3, <1>4, <1>5 DEF CacheStep

(* The call in progress: it ends or restarts, goes on for the same run and *)
(* uid, or begins with what the controller then knows.                     *)

CallBegins(n) ==
    /\ UNCHANGED <<crs, gen, pods, cache>> /\ rec.pc = "idle"
    /\ rec'.run = n /\ rec'.uid \in {0, cache[n].uid}

CallContinues ==
    /\ rec.pc # "idle" /\ rec'.run = rec.run /\ rec'.uid = rec.uid

LEMMA StepsOfTheCall ==
    ASSUME TypeOK, [Next]_vars, rec'.pc # "idle"
    PROVE  (\E n \in Runs : CallBegins(n)) \/ CallContinues
<1> USE DEF TypeOK, ReconcilerTypeOK
<1>0. Idle.pc = "idle" /\ Idle.uid = 0 /\ Idle \in Calls
    BY IdleType DEF Idle
<1>1. CASE UNCHANGED rec
    BY <1>1 DEF CallContinues
<1>2. CASE \E result \in {"done", "check", "backoff"} : EndCall(result)
    <2>1. rec' = Idle
        BY <1>2 DEF EndCall
    <2> QED BY <1>0, <2>1
<1>3. CASE \E phase \in Phases : rec.pc # "idle" /\ rec' = updateStatus(phase)
    BY <1>3 DEF updateStatus, CallContinues, Calls
<1>4. ASSUME NEW n \in Runs, Starts(n) PROVE CallBegins(n)
    <2>1. UNCHANGED <<crs, gen, pods, cache>> /\ rec.pc = "idle"
        BY <1>4 DEF Starts, ReconcileDeleted, ReconcileEnd, ReconcileNew, Take, clusterVars
    <2>2. CASE ReconcileNew(n)
        BY <2>1, <2>2 DEF ReconcileNew, CallBegins
    <2>3. CASE ReconcileDeleted(n) \/ ReconcileEnd(n)
        <3>1. rec'.run = n /\ rec'.uid = 0
            <4>1. PICK pc, pod : rec' = [Idle EXCEPT !.pc = pc, !.run = n, !.pod = pod]
                BY <1>0, <2>3 DEF ReconcileDeleted, ReconcileEnd
            <4> QED BY <1>0, <4>1 DEF Calls
        <3> QED BY <2>1, <3>1 DEF CallBegins
    <2> QED BY <1>4, <2>2, <2>3 DEF Starts
<1>5. CASE CallNext
    <2>1. "CertSuiteRunning" \in Phases /\ "CertSuiteDeployError" \in Phases
          /\ "CertSuiteTimeout" \in Phases /\ \A s : EndPhase(s) \in Phases
        BY DEF EndPhase, Phases
    <2>2. CASE UpdateStored \/ UpdateRetried \/ UpdateFailed
        <3>1. CASE \/ rec' = [rec EXCEPT !.pc = "createPod"]
                   \/ rec' = [rec EXCEPT !.tries = rec.tries - 1]
            BY <2>2, <3>1 DEF UpdateStored, UpdateRetried, UpdateFailed, InUpdate,
                              Calls, CallContinues
        <3> QED BY <1>2, <2>2, <3>1 DEF UpdateStored, UpdateRetried, UpdateFailed,
                                        AfterUpdate, AfterFailedUpdate
    <2>3. CASE DeleteJobPod \/ PodUnreadable
        BY <1>2, <2>3 DEF DeleteJobPod, PodUnreadable
    <2>4. CASE PodCreated \/ PodNotCreated
        BY <1>3, <2>1, <2>4 DEF PodCreated, PodNotCreated, InCreate
    <2>5. CASE PodRunning \/ PodFinished
        BY <1>2, <1>3, <2>1, <2>5 DEF PodRunning, PodFinished, InGetPod
    <2> QED BY <1>5, <2>2, <2>3, <2>4, <2>5 DEF CallNext
<1>6. CASE Restart
    BY <1>6 DEF Restart, Idle
<1>7. ASSUME NEW n \in Runs, \/ WatchCreate(n) \/ WatchUpdate(n) \/ WatchDelete(n)
                             \/ Deliver(n) \/ TimerFires(n)
      PROVE  UNCHANGED rec
    BY <1>7 DEF WatchCreate, WatchUpdate, WatchDelete, Watch, Deliver, TimerFires
<1> QED BY <1>1, <1>4, <1>5, <1>6, <1>7
        DEF Next, ReconcilerNext, Starts, vars, reconcilerVars

LEMMA UidsInvStep ==
    ASSUME TypeOK, CopiesInv, UidsInv, [Next]_vars
    PROVE  UidsInv'
<1> USE DEF TypeOK, ClusterTypeOK, ReconcilerTypeOK
<1>1. ASSUME rec.pc # "idle"
      PROVE  rec.run \in Runs /\ rec.uid \in Nat /\ KnownUid(rec.run, rec.uid)
    BY <1>1 DEF UidsInv, Calls
<1>2. ASSUME NEW p \in PodNames, pods'[p].owner # 0
      PROVE  KnownUid(pods[p].run, pods[p].owner)' 
    <2>1. CASE PodStays(p)
        <3>1. pods[p].owner \in Nat /\ KnownUid(pods[p].run, pods[p].owner)
            BY <2>1 DEF PodStays, UidsInv, Pods
        <3>2. \A n \in Runs, uid \in Nat : KnownUid(n, uid) => KnownUid(n, uid)'
            BY KnownLasts
        <3>3. pods[p].run \in Runs /\ pods'[p].run = pods[p].run
              /\ pods'[p].owner = pods[p].owner
            BY <2>1 DEF PodStays
        <3> QED BY <3>1, <3>2, <3>3 DEF KnownUid
    <2>2. CASE PodIsNew(p)
        <3>1. rec.run \in Runs /\ rec.uid \in Nat /\ KnownUid(rec.run, rec.uid)
            BY <1>1, <2>2 DEF PodIsNew
        <3>2. \A n \in Runs, uid \in Nat : KnownUid(n, uid) => KnownUid(n, uid)'
            BY KnownLasts
        <3> QED BY <2>2, <3>1, <3>2 DEF KnownUid, PodIsNew
    <2> QED BY <1>2, <2>1, <2>2, StepsOfThePods
<1>3. ASSUME rec'.pc # "idle" PROVE KnownUid(rec.run, rec.uid)'
    <2>1. ASSUME NEW n \in Runs, CallBegins(n) PROVE KnownUid(rec.run, rec.uid)'
        <3>1. gen[n] \in Nat /\ cache[n].uid \in Nat /\ cache[n].uid <= gen[n]
            BY DEF CopiesInv, CopyOf, RunObjects
        <3> QED BY <2>1, <3>1 DEF CallBegins, KnownUid
    <2>2. CASE CallContinues
        <3>1. \A n \in Runs, uid \in Nat : KnownUid(n, uid) => KnownUid(n, uid)'
            BY KnownLasts
        <3> QED BY <1>1, <2>2, <3>1 DEF CallContinues, KnownUid
    <2> QED BY <1>3, <2>1, <2>2, StepsOfTheCall
<1> QED BY <1>2, <1>3 DEF UidsInv, Exists

(* The map and the name a call carries: a name is taken for a new run,     *)
(* dropped with the pod of a deleted one, and otherwise only carried on.   *)
NameCarried ==
    /\ UNCHANGED <<certificationRuns, certSuitePodID>>
    /\ \/ ~NeedsName(rec')
       \/ rec' = rec
       \/ /\ NeedsName(rec) /\ rec'.pc # "deletePod"
          /\ rec'.run = rec.run /\ rec'.pod = rec.pod
       \/ /\ \E n \in Runs : ReconcileDeleted(n) /\ rec'.run = n
          /\ rec'.pod = certificationRuns[rec'.run]

LEMMA StepsOfTheName ==
    ASSUME TypeOK, [Next]_vars
    PROVE  \/ Restart
           \/ \E n \in Runs : ReconcileNew(n)
           \/ DeleteJobPod
           \/ NameCarried
<1> USE DEF TypeOK, ReconcilerTypeOK
<1>0. Idle.pc = "idle" /\ ~NeedsName(Idle) /\ Idle \in Calls
    BY IdleType DEF Idle, NeedsName
<1>1. CASE UNCHANGED <<rec, certificationRuns, certSuitePodID>>
    BY <1>1 DEF NameCarried
<1>2. ASSUME NEW n \in Runs, ReconcileDeleted(n) PROVE NameCarried
    <2>1. CASE ~HasEntry(n)
        BY <1>0, <1>2, <2>1 DEF ReconcileDeleted, NameCarried
    <2>2. CASE HasEntry(n)
        <3>1. rec'.run = n /\ rec'.pod = certificationRuns[n]
            BY <1>0, <1>2, <2>2 DEF ReconcileDeleted, Calls
        <3> QED BY <1>2, <3>1 DEF ReconcileDeleted, NameCarried
    <2> QED BY <2>1, <2>2
<1>3. ASSUME NEW n \in Runs, ReconcileEnd(n) PROVE NameCarried
    <2>1. rec'.pc = "getPod"
        BY <1>0, <1>3 DEF ReconcileEnd, Calls
    <2> QED BY <1>3, <2>1 DEF ReconcileEnd, NameCarried, NeedsName
<1>4. CASE UpdateStored \/ UpdateRetried \/ UpdateFailed
    <2>1. UNCHANGED <<certificationRuns, certSuitePodID>> /\ rec.pc = "updateStatus"
        BY <1>4 DEF UpdateStored, UpdateRetried, UpdateFailed, InUpdate, memory
    <2>2. CASE rec' = Idle
        BY <1>0, <2>1, <2>2 DEF NameCarried
    <2>3. CASE rec.phase = "CertSuiteDeploying" /\ rec' = [rec EXCEPT !.pc = "createPod"]
        BY <2>1, <2>3 DEF NameCarried, NeedsName, Calls
    <2>4. CASE rec' = [rec EXCEPT !.tries = rec.tries - 1]
        <3>1. /\ rec'.pc = rec.pc /\ rec'.phase = rec.phase
              /\ rec'.run = rec.run /\ rec'.pod = rec.pod
            BY <2>4 DEF Calls
        <3> QED BY <2>1, <3>1 DEF NameCarried, NeedsName
    <2> QED BY <1>4, <2>2, <2>3, <2>4
            DEF UpdateStored, UpdateRetried, UpdateFailed, AfterUpdate,
                AfterFailedUpdate, EndCall
<1>5. ASSUME NEW phase \in Phases \ {"CertSuiteDeploying"}, rec' = updateStatus(phase),
             UNCHANGED <<certificationRuns, certSuitePodID>>
      PROVE  NameCarried
    BY <1>5 DEF updateStatus, NameCarried, NeedsName, Calls
<1>6. CASE PodCreated \/ PodNotCreated
    <2>1. "CertSuiteRunning" \in Phases \ {"CertSuiteDeploying"}
          /\ "CertSuiteDeployError" \in Phases \ {"CertSuiteDeploying"}
        BY DEF Phases
    <2> QED BY <1>5, <1>6, <2>1 DEF PodCreated, PodNotCreated, InCreate, memory
<1>7. CASE PodUnreadable \/ PodRunning \/ PodFinished
    <2>1. UNCHANGED <<certificationRuns, certSuitePodID>>
        BY <1>7 DEF PodUnreadable, PodRunning, PodFinished, InGetPod, memory
    <2>2. CASE rec' = Idle
        BY <1>0, <2>1, <2>2 DEF NameCarried
    <2>3. "CertSuiteTimeout" \in Phases \ {"CertSuiteDeploying"}
          /\ \A s : EndPhase(s) \in Phases \ {"CertSuiteDeploying"}
        BY DEF Phases, EndPhase
    <2> QED BY <1>5, <1>7, <2>1, <2>2, <2>3
            DEF PodUnreadable, PodRunning, PodFinished, EndCall
<1>8. ASSUME NEW n \in Runs, \/ WatchCreate(n) \/ WatchUpdate(n) \/ WatchDelete(n)
                             \/ Deliver(n) \/ TimerFires(n)
      PROVE  UNCHANGED <<rec, certificationRuns, certSuitePodID>>
    BY <1>8 DEF WatchCreate, WatchUpdate, WatchDelete, Watch, Deliver, TimerFires, memory
<1> QED BY <1>1, <1>2, <1>3, <1>4, <1>6, <1>7, <1>8
        DEF Next, ReconcilerNext, CallNext, vars, reconcilerVars

(* A process that does not restart stays the one it is; one that is the    *)
(* first after a step was so before it.                                    *)
LEMMA RestartsCounted ==
    ASSUME [Next]_vars, ~Restart
    PROVE  restarts' = restarts
BY DEF Next, ReconcilerNext, CallNext, WatchCreate, WatchUpdate, WatchDelete,
       Watch, Deliver, TimerFires, ReconcileDeleted, ReconcileEnd,
       ReconcileNew, Take, DeleteJobPod, UpdateStored, UpdateRetried,
       UpdateFailed, InUpdate, PodCreated, PodNotCreated, InCreate,
       PodUnreadable, PodRunning, PodFinished, InGetPod, memory,
       reconcilerVars, vars

LEMMA FirstProcess ==
    ASSUME TypeOK, [Next]_vars, restarts' = 0
    PROVE  restarts = 0 /\ ~Restart
<1>1. restarts \in Nat
    BY RestartAssumption DEF TypeOK, ReconcilerTypeOK
<1>2. Restart => restarts' # 0
    BY <1>1 DEF Restart
<1> QED BY <1>2, RestartsCounted

LEMMA NamesInvStep ==
    ASSUME TypeOK, TypeOK', CopiesInv, UidsInv, NamesInv, [Next]_vars, ~Restart, NamesApart
    PROVE  NamesInv'
<1> USE DEF TypeOK, ReconcilerTypeOK
<1>0. restarts' = restarts
    BY RestartsCounted
<1>1. CASE DeleteJobPod
    <2>1. /\ certificationRuns' = [certificationRuns EXCEPT ![rec.run] = NoPod]
          /\ UNCHANGED <<crs, certSuitePodID>> /\ rec' = Idle
        BY <1>1 DEF DeleteJobPod, EndCall
    <2>2. ~NeedsName(rec') /\ rec'.pc # "deletePod"
        BY <2>1 DEF Idle, NeedsName
    <2>3. \A p \in PodNames : pods'[p].owner # 0 => Exists(p) /\ pods'[p].run = pods[p].run
        BY <1>1, StepsOfThePods DEF DeleteJobPod, PodStays, PodIsNew
    <2>4. \A n \in Runs : certificationRuns'[n] \in {NoPod, certificationRuns[n]}
        BY <2>1
    <2>5. \A n \in Runs : certificationRuns'[n] <= certSuitePodID'
        BY <2>1, <2>4 DEF NamesInv, NoPod
    <2>6. \A n \in Runs : certificationRuns'[n] # NoPod =>
              certificationRuns'[n] = certificationRuns[n] /\ HasEntry(n)
        BY <2>4 DEF HasEntry
    <2>7. restarts' = 0 => \A p \in PodNames : pods'[p].owner # 0 => p <= certSuitePodID'
        BY <1>0, <2>1, <2>3 DEF NamesInv
    <2> QED BY <2>2, <2>3, <2>5, <2>6, <2>7 DEF NamesInv, HasEntry, Exists, PodNames, NoPod
<1>2. ASSUME NEW n \in Runs, ReconcileNew(n) PROVE NamesInv'
    <2>1. /\ certificationRuns' = [certificationRuns EXCEPT ![n] = certSuitePodID + 1]
          /\ certSuitePodID' = certSuitePodID + 1
          /\ UNCHANGED <<crs, pods>>
          /\ rec'.run = n /\ rec'.pod = certSuitePodID + 1 /\ rec'.pc = "updateStatus"
        BY <1>2 DEF ReconcileNew, NextPodID, Take, clusterVars
    <2>2. certSuitePodID \in Nat /\ \A m \in Runs : certificationRuns[m] \in Nat
        OBVIOUS
    <2>3. \A m \in Runs : certificationRuns'[m] <= certSuitePodID'
        BY <2>1, <2>2 DEF NamesInv
    <2>4. \A l, m \in Runs : certificationRuns'[l] = certificationRuns'[m]
              /\ certificationRuns'[m] # NoPod => l = m
        BY <2>1, <2>2 DEF NamesInv, HasEntry
    <2>5. \A m \in Runs : certificationRuns'[m] # NoPod
              /\ pods'[certificationRuns'[m]].owner # 0
              => pods'[certificationRuns'[m]].run = m
        <3>1. certSuitePodID + 1 \in PodNames
            BY <2>1, <2>2 DEF PodNames
        <3>2. CASE restarts = 0
            <4>1. ~Exists(certSuitePodID + 1)
                BY <2>2, <3>1, <3>2 DEF NamesInv
            <4> QED BY <2>1, <3>1, <4>1 DEF NamesInv, HasEntry, Exists
        <3>3. CASE OneName
            <4>1. \A m \in Runs : certificationRuns'[m] # NoPod
                      => certificationRuns'[m] \in PodNames
                BY DEF PodNames, NoPod
            <4>2. \A p \in PodNames : pods'[p].owner # 0 => pods'[p].run \in Runs
                BY DEF ClusterTypeOK, Exists
            <4> QED BY <3>3, <4>1, <4>2 DEF OneName
        <3> QED BY <3>2, <3>3 DEF NamesApart
    <2>6. restarts' = 0 => \A p \in PodNames : pods'[p].owner # 0 => p <= certSuitePodID'
        BY <1>0, <2>1, <2>2 DEF NamesInv, Exists, PodNames
    <2>7. certificationRuns'[rec'.run] = rec'.pod /\ rec'.pc # "deletePod"
        BY <2>1
    <2> QED BY <2>3, <2>4, <2>5, <2>6, <2>7 DEF NamesInv, HasEntry, Exists
<1>3. CASE NameCarried
    <2>1. UNCHANGED <<certificationRuns, certSuitePodID>>
        BY <1>3 DEF NameCarried
    <2>2. ASSUME NEW p \in PodNames, PodIsNew(p)
          PROVE  certificationRuns[rec.run] = p /\ rec.run \in Runs /\ pods'[p].run = rec.run
        BY <2>2 DEF PodIsNew, NamesInv, NeedsName
    <2>3. ASSUME NEW n \in Runs, certificationRuns[n] # NoPod,
                 pods'[certificationRuns[n]].owner # 0
          PROVE  pods'[certificationRuns[n]].run = n
        <3> DEFINE p == certificationRuns[n]
        <3>1. p \in PodNames
            BY <2>3 DEF PodNames, NoPod
        <3>2. CASE PodStays(p)
            BY <2>3, <3>2 DEF PodStays, NamesInv, HasEntry
        <3>3. CASE PodIsNew(p)
            BY <2>2, <2>3, <3>1, <3>3 DEF NamesInv, HasEntry
        <3> QED BY <2>3, <3>1, <3>2, <3>3, StepsOfThePods
    <2>4. ASSUME restarts' = 0, NEW p \in PodNames, pods'[p].owner # 0
          PROVE  p <= certSuitePodID
        <3>1. CASE PodStays(p)
            BY <1>0, <2>4, <3>1 DEF PodStays, NamesInv
        <3>2. CASE PodIsNew(p)
            BY <2>2, <3>2 DEF NamesInv
        <3> QED BY <2>4, <3>1, <3>2, StepsOfThePods
    <2>5. NeedsName(rec') => certificationRuns[rec'.run] = rec'.pod
        BY <1>3 DEF NameCarried, NamesInv
    <2> QED BY <2>1, <2>3, <2>4, <2>5 DEF NamesInv, HasEntry, Exists
<1> QED BY <1>1, <1>2, <1>3, StepsOfTheName

(* The object whose pod is being deleted is gone: the cache did not show   *)
(* it when the call began, and what is created later has another uid.      *)
LEMMA OwnersInvStep ==
    ASSUME TypeOK, TypeOK', CopiesInv, UidsInv, OwnersInv, [Next]_vars
    PROVE  OwnersInv'
<1> USE DEF TypeOK, ReconcilerTypeOK
<1> SUFFICES ASSUME rec'.pc = "deletePod", pods'[rec'.pod].owner # 0,
                    pods'[rec'.pod].run = rec'.run
             PROVE  pods'[rec'.pod].owner # crs'[rec'.run].uid
    BY DEF OwnersInv, Exists
<1>0. rec'.pod \in PodNames /\ rec'.run \in Runs
    OBVIOUS
<1>1. \/ rec' = rec
      \/ \E n \in Runs : ReconcileDeleted(n) /\ rec'.run = n /\ rec'.pod = certificationRuns[n]
    <2>1. Idle.pc = "idle"
        BY DEF Idle
    <2>2. ~Restart /\ ~DeleteJobPod
        BY <2>1 DEF Restart, DeleteJobPod, EndCall
    <2>3. ~\E n \in Runs : ReconcileNew(n)
        BY IdleType DEF ReconcileNew, Calls
    <2> QED BY <2>2, <2>3, StepsOfTheName DEF NameCarried, NeedsName
<1>2. CASE rec' = rec
    <2>1. /\ PodStays(rec.pod) /\ Exists(rec.pod) /\ rec.pc = "deletePod"
          /\ pods[rec.pod].run = rec.run
        BY <1>0, <1>2, StepsOfThePods DEF PodStays, PodIsNew
    <2>2. pods[rec.pod].owner # crs[rec.run].uid
        BY <2>1 DEF OwnersInv
    <2>3. /\ pods[rec.pod].owner \in Nat /\ pods[rec.pod].owner # 0
          /\ pods[rec.pod].owner <= gen[rec.run] /\ gen[rec.run] \in Nat
        BY <1>0, <1>2, <2>1 DEF UidsInv, KnownUid, ClusterTypeOK, Pods, Exists
    <2>4. crs'[rec.run].uid \in {crs[rec.run].uid, gen[rec.run] + 1, 0}
        BY <1>0, <1>2, UidSteps
    <2>5. pods'[rec.pod].owner = pods[rec.pod].owner
        BY <2>1 DEF PodStays
    <2> QED BY <1>2, <2>2, <2>3, <2>4, <2>5
<1>3. ASSUME NEW n \in Runs, ReconcileDeleted(n), rec'.run = n
      PROVE  pods'[rec'.pod].owner # crs'[rec'.run].uid
    <2>1. UNCHANGED <<crs, pods>> /\ cache[n].uid = 0
        BY <1>3 DEF ReconcileDeleted, Take, clusterVars, Gone, Present
    <2>2. /\ pods[rec'.pod].owner # 0 /\ pods[rec'.pod].run = n
          /\ pods[rec'.pod].owner = crs[n].uid => cache[n].uid = pods[rec'.pod].owner
        BY <1>0, <1>3, <2>1 DEF UidsInv, KnownUid, Exists
    <2> QED BY <1>3, <2>1, <2>2
<1> QED BY <1>1, <1>2, <1>3

LEMMA PodsInvInit == Init => PodsInv
<1> SUFFICES ASSUME Init PROVE PodsInv
    OBVIOUS
<1> USE DEF Init, ClusterInit, ReconcilerInit
<1>1. \A p \in PodNames : ~Exists(p)
    BY DEF AbsentPod, Exists
<1>2. rec.pc = "idle"
    BY DEF Idle
<1>3. \A n \in Runs : certificationRuns[n] = 0
    BY DEF NoPod
<1>4. ~NeedsName(rec)
    BY <1>2 DEF NeedsName
<1>5. certSuitePodID = 0
    OBVIOUS
<1>6. UidsInv
    BY <1>1, <1>2 DEF UidsInv
<1>7. \A n \in Runs : ~HasEntry(n)
    BY <1>3 DEF HasEntry, NoPod
<1>8. NamesInv
    BY <1>1, <1>2, <1>3, <1>4, <1>5, <1>7 DEF NamesInv
<1> QED BY <1>2, <1>6, <1>8 DEF PodsInv, OwnersInv

(* A process that has just started remembers no name; with a single run    *)
(* there is none to mix up.                                                *)
LEMMA NamesInvRestart ==
    ASSUME TypeOK, TypeOK', Restart, OneName
    PROVE  NamesInv'
<1>1. Idle.pc = "idle"
    BY DEF Idle
<1>2. /\ \A n \in Runs : certificationRuns'[n] = 0
      /\ certSuitePodID' = 0 /\ restarts' # 0 /\ rec'.pc = "idle"
    BY <1>1 DEF Restart, NoPod, TypeOK, ReconcilerTypeOK
<1>3. ~NeedsName(rec')
    BY <1>2 DEF NeedsName
<1> QED BY <1>2, <1>3 DEF NamesInv, HasEntry, NoPod, OneName

(* Once the process has restarted nothing is claimed of several names.     *)
LEMMA PodsInvStep ==
    ASSUME TypeOK, TypeOK', CopiesInv, PodsInv, [Next]_vars
    PROVE  PodsInv'
<1>1. UidsInv' /\ OwnersInv'
    BY UidsInvStep, OwnersInvStep DEF PodsInv
<1>2. ASSUME restarts' = 0 PROVE NamesInv'
    BY <1>2, FirstProcess, NamesInvStep DEF PodsInv, NamesApart
<1>3. ASSUME OneName PROVE NamesInv'
    BY <1>3, NamesInvRestart, NamesInvStep DEF PodsInv, NamesApart
<1> QED BY <1>1, <1>2, <1>3 DEF PodsInv, NamesApart, OneName

LEMMA PodsInvImplies == TypeOK /\ PodsInv => DeletesOwnPod
<1> SUFFICES ASSUME TypeOK, OwnersInv, NamesApart => NamesInv,
                    rec.pc = "deletePod", Exists(rec.pod)
             PROVE  NamesApart => pods[rec.pod].run = rec.run
    BY DEF PodsInv, DeletesOwnPod, OwnersInv
<1> SUFFICES ASSUME NamesInv PROVE pods[rec.pod].run = rec.run
    OBVIOUS
<1>1. rec.run \in Runs /\ rec.pod \in PodNames
    BY DEF TypeOK, ReconcilerTypeOK
<1>2. certificationRuns[rec.run] = rec.pod /\ rec.pod # NoPod
    BY <1>1 DEF NamesInv, NeedsName, PodNames, NoPod
<1> QED BY <1>1, <1>2 DEF NamesInv, HasEntry

LEMMA PodsInvCorrect == Spec => []PodsInv
<1>1. TypeOK /\ TypeOK' /\ CopiesInv /\ PodsInv /\ [Next]_vars => PodsInv'
    BY PodsInvStep
<1> QED BY <1>1, PodsInvInit, TypeCorrect, CopiesInvCorrect, PTL DEF Spec

(* The pod the controller deletes by the name in its map is never that of  *)
(* the object that is by now stored under the deleted run's name, however  *)
(* often the process restarts; and it is the run's at all, of a single run *)
(* always and of several until the process restarts.                       *)
THEOREM DeletesOwnPods == Spec => []DeletesOwnPod
BY PodsInvCorrect, PodsInvImplies, TypeCorrect, PTL
=============================================================================
