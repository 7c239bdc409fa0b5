-------------------------- MODULE Refinement_proofs --------------------------
(***************************************************************************)
(* Proof that a run, as its user sees it, goes through its phases in order *)
(* (RunLifecycle): several runs in a process that does not restart, a      *)
(* single run in every process, while the cache lags for at most           *)
(* checkInterval and no name is used twice, and when the controller looks  *)
(* at the sidecar's container.                                             *)
(***************************************************************************)
EXTENDS Dispatch_proofs, FinishedReport_proofs

(* What the call in progress is doing for a run: it shows that the run is  *)
(* dispatched, it creates its pod, or it shows its end.                    *)
Dispatches(n) == /\ rec.run = n
                 /\ rec.pc = "updateStatus" /\ rec.phase = "CertSuiteDeploying"

Creates(n) ==
    /\ rec.run = n
    /\ \/ rec.pc = "createPod"
       \/ /\ rec.pc = "updateStatus"
          /\ rec.phase \in {"CertSuiteRunning", "CertSuiteDeployError"}

ShowsEnd(n) == /\ rec.run = n
               /\ rec.pc = "updateStatus" /\ rec.phase \in EndPhases

(* How the sidecar has ended when its run shows the phase.                 *)
CodeOf(phase) == IF phase = "CertSuiteFinished" THEN "exit0" ELSE "exit1"

EndedAs(p, phase) == pods[p].status["certsuite-sidecar"] = CodeOf(phase)

(* The phase of a stored object, the call for it and its pod agree.        *)
Stages == {"", "CertSuiteDeploying", "CertSuiteRunning"} \cup EndPhases

PodAgrees(n, p) ==
    Exists(p) /\ pods[p].run = n =>
        /\ crs[n].phase # ""
        /\ crs[n].phase \in EndPhases => EndedAs(p, crs[n].phase)
        /\ ShowsEnd(n) => EndedAs(p, rec.phase)

InOrder(n) ==
    /\ crs[n].phase \in Stages
    /\ Dispatches(n) => crs[n].phase \in {"", "CertSuiteDeploying"}
    /\ Creates(n) => crs[n].phase = "CertSuiteDeploying"
    /\ ShowsEnd(n) => crs[n].phase \in {"CertSuiteRunning", rec.phase}
    /\ crs[n].pod # NoPod <=> crs[n].phase \in {"CertSuiteRunning"} \cup EndPhases
    /\ \A p \in PodNames : PodAgrees(n, p)

OrderInv ==
    NamesApart =>
        \A n \in Runs : IF Present(crs[n]) THEN InOrder(n) ELSE Blank(crs[n])

(* The states around a step while names are apart.                         *)
Together ==
    /\ Before /\ Around /\ NamesApart /\ OnlyPodInv /\ FirstPodInv
    /\ ReportsInv /\ ReadsOwnPod /\ SidecarIsObserved
    /\ \A n \in Runs : IF Present(crs[n]) THEN InOrder(n) ELSE Blank(crs[n])

----------------------------------------------------------------------------
(* How the call in progress goes on.                                       *)

LEMMA Restated ==
    ASSUME TypeOK, rec.pc # "idle", NEW phase, rec' = updateStatus(phase)
    PROVE  rec'.pc = "updateStatus" /\ rec'.phase = phase /\ rec'.run = rec.run
BY DEF TypeOK, ReconcilerTypeOK, updateStatus, Calls

LEMMA CallEnds ==
    ASSUME NEW result, EndCall(result) PROVE rec'.pc = "idle"
<1>1. Idle.pc = "idle"
    BY DEF Idle
<1> QED BY <1>1 DEF EndCall

(* A call that begins: only ReconcileNew begins one that stores a phase.   *)
LEMMA CallStarts ==
    ASSUME TypeOK, NEW m \in Runs, Starts(m)
    PROVE  \/ rec'.pc \in {"idle", "deletePod", "getPod"}
           \/ /\ ReconcileNew(m) /\ rec'.run = m
              /\ rec'.pc = "updateStatus" /\ rec'.phase = "CertSuiteDeploying"
<1>1. Idle.pc = "idle" /\ Idle \in Calls
    BY IdleType DEF Idle
<1>2. CASE ReconcileDeleted(m) \/ ReconcileEnd(m)
    BY <1>1, <1>2 DEF ReconcileDeleted, ReconcileEnd, Calls
<1>3. CASE ReconcileNew(m)
    BY <1>3 DEF ReconcileNew
<1> QED BY <1>2, <1>3 DEF Starts

CallStep(n) ==
    /\ Dispatches(n)' => (Dispatches(n) /\ ~UpdateStored) \/ ReconcileNew(n)
    /\ Creates(n)' => \/ Creates(n) /\ ~UpdateStored
                      \/ Dispatches(n) /\ UpdateStored
    /\ ShowsEnd(n)' =>
          \/ ShowsEnd(n) /\ ~UpdateStored /\ rec'.phase = rec.phase
          \/ /\ rec.run = n /\ rec.pc = "getPod"
             /\ Exists(rec.pod) /\ Observed(rec.pod) \in {"exit0", "exit1"}
             /\ rec'.phase = EndPhase(Observed(rec.pod))
             /\ UNCHANGED <<crs, pods>>

LEMMA CallSteps ==
    ASSUME TypeOK, [Next]_vars, NEW n \in Runs
    PROVE  CallStep(n)
<1>0. rec \in Calls
    BY DEF TypeOK, ReconcilerTypeOK
<1>1. CASE rec'.pc \in {"idle", "deletePod", "getPod"}
    BY <1>1 DEF CallStep, Dispatches, Creates, ShowsEnd
<1>2. ASSUME UNCHANGED rec, ~UpdateStored PROVE CallStep(n)
    BY <1>2 DEF CallStep, Dispatches, Creates, ShowsEnd
<1>3. ASSUME NEW m \in Runs, Starts(m) PROVE CallStep(n)
    <2>1. CASE /\ ReconcileNew(m) /\ rec'.run = m
               /\ rec'.pc = "updateStatus" /\ rec'.phase = "CertSuiteDeploying"
        BY <2>1 DEF CallStep, Dispatches, Creates, ShowsEnd, EndPhases
    <2> QED BY <1>1, <1>3, <2>1, CallStarts
<1>4. CASE UpdateStored
    <2>1. rec.pc = "updateStatus"
        BY <1>4 DEF UpdateStored, InUpdate
    <2>2. CASE rec.phase = "CertSuiteDeploying" /\ rec' = [rec EXCEPT !.pc = "createPod"]
        <3>1. rec'.pc = "createPod" /\ rec'.run = rec.run
            BY <1>0, <2>2 DEF Calls
        <3> QED BY <1>4, <2>1, <2>2, <3>1
                DEF CallStep, Dispatches, Creates, ShowsEnd
    <2>3. CASE \E result : EndCall(result)
        BY <1>1, <2>3, CallEnds
    <2> QED BY <1>4, <2>2, <2>3 DEF UpdateStored, AfterUpdate, AfterFailedUpdate
<1>5. CASE UpdateRetried /\ ~UpdateStored
    <2>1. /\ rec'.pc = rec.pc /\ rec'.run = rec.run /\ rec'.phase = rec.phase
        BY <1>0, <1>5 DEF UpdateRetried, Calls
    <2> QED BY <1>5, <2>1 DEF CallStep, Dispatches, Creates, ShowsEnd
<1>6. CASE UpdateFailed \/ DeleteJobPod \/ PodUnreadable
    BY <1>1, <1>6, CallEnds
       DEF UpdateFailed, AfterFailedUpdate, DeleteJobPod, PodUnreadable
<1>7. CASE PodCreated \/ PodNotCreated
    <2>1. rec.pc = "createPod"
        BY <1>7 DEF PodCreated, PodNotCreated, InCreate
    <2>2. PICK phase \in {"CertSuiteRunning", "CertSuiteDeployError"} :
              rec' = updateStatus(phase)
        BY <1>7 DEF PodCreated, PodNotCreated
    <2>3. rec'.pc = "updateStatus" /\ rec'.phase = phase /\ rec'.run = rec.run
        BY <2>1, <2>2, Restated
    <2>4. ~UpdateStored
        BY <2>1 DEF UpdateStored, InUpdate
    <2> QED BY <2>1, <2>2, <2>3, <2>4
            DEF CallStep, Dispatches, Creates, ShowsEnd, EndPhases
<1>8. CASE PodRunning
    <2>1. CASE rec' = updateStatus("CertSuiteTimeout")
        <3>1. rec'.phase = "CertSuiteTimeout" /\ rec'.pc = "updateStatus"
            BY <1>8, <2>1, Restated DEF PodRunning, InGetPod
        <3> QED BY <3>1 DEF CallStep, Dispatches, Creates, ShowsEnd, EndPhases
    <2> QED BY <1>1, <1>8, <2>1, CallEnds DEF PodRunning
<1>9. CASE PodFinished
    <2>1. /\ rec.pc = "getPod" /\ Exists(rec.pod)
          /\ Observed(rec.pod) \in {"exit0", "exit1"} /\ UNCHANGED <<crs, pods>>
        BY <1>9 DEF PodFinished, InGetPod
    <2>2. /\ rec'.pc = "updateStatus" /\ rec'.run = rec.run
          /\ rec'.phase = EndPhase(Observed(rec.pod))
        BY <1>9, <2>1, Restated DEF PodFinished
    <2>3. rec'.phase \in EndPhases
        BY <2>2 DEF EndPhase, EndPhases
    <2> QED BY <2>1, <2>2, <2>3 DEF CallStep, Dispatches, Creates, ShowsEnd, EndPhases
<1>10. CASE CallNext
    BY <1>4, <1>5, <1>6, <1>7, <1>8, <1>9, <1>10 DEF CallNext
<1>11. ASSUME NEW m \in Runs, \/ WatchCreate(m) \/ WatchUpdate(m) \/ WatchDelete(m)
                              \/ Deliver(m) \/ TimerFires(m)
       PROVE  UNCHANGED rec
    BY <1>11 DEF WatchCreate, WatchUpdate, WatchDelete, Watch, Deliver, TimerFires
<1>12. CASE Restart
    <2>1. Idle.pc = "idle"
        BY DEF Idle
    <2> QED BY <1>1, <1>12, <2>1 DEF Restart
<1> QED BY <1>2, <1>3, <1>4, <1>10, <1>11, <1>12
        DEF Next, ReconcilerNext, Starts, vars, reconcilerVars

----------------------------------------------------------------------------
(* A sidecar that has ended stays as it ended for as long as its pod is    *)
(* there: no pod restarts a container.                                     *)

LEMMA EndedStays ==
    ASSUME Together, NEW p \in PodNames, Exists(p),
           pods[p].status["certsuite-sidecar"] \in {"exit0", "exit1"},
           pods'[p].owner # 0
    PROVE  pods'[p].status["certsuite-sidecar"] = pods[p].status["certsuite-sidecar"]
<1> DEFINE ended(pod) == pod.status["certsuite-sidecar"]
<1> USE DEF Together, Around, TypeOK, ClusterTypeOK
<1>0. pods \in [PodNames -> Pods] /\ pods[p] \in Pods
    OBVIOUS
<1>1. CASE pods'[p] = pods[p]
    BY <1>1
<1>2. ASSUME NEW q \in PodNames, PodStep(q) PROVE ended(pods'[p]) = ended(pods[p])
    <2>1. CASE p # q
        <3>1. PICK pod : PodKept(q, pod)
            BY <1>2, PodStepKeeps
        <3> QED BY <1>1, <2>1, <3>1 DEF PodKept, ChangePod
    <2>2. CASE p = q
        <3>1. ~StartPod(q)
            BY <2>2 DEF StartPod
        <3>2. CASE WriteClaim(q)
            BY <1>0, <2>2, <3>2 DEF WriteClaim, ChangePod, Pods, Containers
        <3>3. CASE SuiteExit(q)
            BY <1>0, <2>2, <3>3 DEF SuiteExit, ChangePod, Pods, Containers
        <3>4. CASE Expire(q) \/ CollectGarbage(q) \/ EvictPod(q)
            BY <1>0, <2>2, <3>4 DEF Expire, CollectGarbage, EvictPod, ChangePod, Pods
        <3>5. CASE KillContainers(q)
            BY <1>0, <2>2, <3>5 DEF KillContainers, Running, ChangePod, Pods, Containers
        <3>6. ~RemovePod(q)
            BY <1>0, <2>2 DEF RemovePod, ChangePod, AbsentPod
        <3> QED BY <1>2, <3>1, <3>2, <3>3, <3>4, <3>5, <3>6 DEF PodStep
    <2> QED BY <2>1, <2>2
<1>3. ASSUME NEW q \in PodNames, SidecarRead(q) \/ SidecarUpdate(q) PROVE pods'[p] = pods[p]
    <2>1. p # q
        BY <1>3 DEF SidecarRead, SidecarUpdate, Running
    <2> QED BY <1>0, <1>3, <2>1 DEF SidecarRead, SidecarUpdate, Fatal
<1>4. CASE DeleteJobPod
    BY <1>0, <1>4 DEF DeleteJobPod, Pods
<1>5. CASE PodCreated \/ PodNotCreated
    BY <1>0, <1>5 DEF PodCreated, PodNotCreated, PodStored
<1>6. CASE ReconcilerNext /\ ~DeleteJobPod /\ ~PodCreated /\ ~PodNotCreated
    BY <1>1, <1>6
    DEF ReconcilerNext, CallNext, WatchCreate, WatchUpdate, WatchDelete,
        Watch, Deliver, TimerFires, ReconcileDeleted, ReconcileEnd, ReconcileNew,
        Take, UpdateStored, UpdateRetried, UpdateFailed, InUpdate,
        PodUnreadable, PodRunning, PodFinished, InGetPod, Restart, clusterVars
<1>7. CASE ClusterNext \/ SidecarNext
    BY <1>1, <1>2, <1>3, <1>7
       DEF ClusterNext, PodStep, SidecarNext, CreateRun, DeleteRun
<1> QED BY <1>1, <1>3, <1>4, <1>5, <1>6, <1>7 DEF Next, vars, clusterVars

----------------------------------------------------------------------------
(* Phase, call and pod keep agreeing.                                      *)

(* What a step does to the phase of an object that stays.                  *)
PhaseStays(n) == ~(UpdateStored /\ rec.run = n) /\ crs'[n].phase = crs[n].phase
                 /\ crs'[n].pod = crs[n].pod

LEMMA PhaseSteps ==
    ASSUME Together, NEW n \in Runs, Present(crs[n]), crs'[n].uid # 0
    PROVE  PhaseStays(n) \/ Writes(n)
<1> USE DEF Together, Around
<1>1. CASE UpdateStored /\ rec.run = n
    BY <1>1, StoreController
<1>2. CASE ~(UpdateStored /\ rec.run = n)
    <2>1. ~Writes(n)
        BY <1>2 DEF Writes
    <2>2. ~Renews(n)
        BY DEF Renews, Present
    <2> QED BY <1>2, <2>1, <2>2, StepsOfTheFields DEF Reports, PhaseStays
<1> QED BY <1>1, <1>2

(* A call that looks at the pod of a stored object looks at its only pod,  *)
(* and the object shows its pod's name.                                    *)
LEMMA LooksAtItsPod ==
    ASSUME Together, NEW n \in Runs, Present(crs[n]),
           rec.run = n, rec.pc = "getPod", Exists(rec.pod)
    PROVE  /\ pods[rec.pod].run = n /\ rec.pod \in PodNames /\ crs[n].pod # NoPod
           /\ \A p \in PodNames : Exists(p) /\ pods[p].run = n => p = rec.pod
<1> USE DEF Together, Around
<1>1. rec.pod \in PodNames
    BY DEF TypeOK, ReconcilerTypeOK
<1>2. pods[rec.pod].run = n
    BY DEF ReadsOwnPod
<1>3. Fresh(n) /\ Inherited(n) /\ Dispatched(n)
    BY DEF Before, HistoryInv, History
<1>4. Known(n) /\ CallFor(n) /\ LooksAfter(n)
    BY DEF Known, CallFor, LooksAfter, Looking
<1>5. crs[n].pod # NoPod
    BY <1>3, <1>4 DEF Fresh, Inherited, Dispatched
<1>6. ASSUME NEW p \in PodNames, Exists(p), pods[p].run = n PROVE p = rec.pod
    <2>1. CASE restarts = 0
        BY <1>1, <1>2, <1>6, <2>1 DEF OnlyPodInv, OnlyPod
    <2>2. CASE OneName
        BY <1>1, <1>6, <2>2 DEF FirstPodInv, FirstPod
    <2> QED BY <2>1, <2>2 DEF NamesApart
<1> QED BY <1>1, <1>2, <1>5, <1>6

(* A run that is dispatched has no pod in its status.                      *)
LEMMA NewHasNoPod ==
    ASSUME Before, NEW n \in Runs, ReconcileNew(n), Present(crs[n])
    PROVE  crs[n].pod = NoPod
<1>1. ~HasEntry(n) /\ Known(n) /\ cache[n].pod = NoPod
    BY DispatchedOnce DEF ReconcileNew, IsNew
<1>2. Inherited(n)
    BY DEF Before, HistoryInv, History
<1> QED BY <1>1, <1>2 DEF Inherited, Recorded

LEMMA EndPhaseOfCode ==
    ASSUME NEW code \in {"exit0", "exit1"}
    PROVE  /\ EndPhase(code) \in EndPhases /\ CodeOf(EndPhase(code)) = code
           /\ \A phase \in EndPhases : CodeOf(phase) = code => EndPhase(code) = phase
BY DEF EndPhase, EndPhases, CodeOf

(* The object is stored, and stays so.                                     *)
LEMMA OrderOfTheCall ==
    ASSUME Together, NEW n \in Runs, Present(crs[n]), crs'[n].uid # 0
    PROVE  /\ crs'[n].phase \in Stages
           /\ Dispatches(n)' => crs'[n].phase \in {"", "CertSuiteDeploying"}
           /\ Creates(n)' => crs'[n].phase = "CertSuiteDeploying"
           /\ ShowsEnd(n)' => crs'[n].phase \in {"CertSuiteRunning", rec'.phase}
           /\ crs'[n].pod # NoPod <=> crs'[n].phase \in {"CertSuiteRunning"} \cup EndPhases
<1> USE DEF Together, Around
<1>1. InOrder(n)
    OBVIOUS
<1>2. PhaseStays(n) \/ Writes(n)
    BY PhaseSteps
<1>3. CallStep(n)
    BY CallSteps
<1>5. CASE Writes(n)
    <2>1. /\ rec.run = n /\ rec.pc = "updateStatus" /\ UpdateStored
          /\ crs'[n].phase = rec.phase
          /\ rec.phase \in {"CertSuiteDeploying", "CertSuiteRunning"} \cup EndPhases
          /\ crs'[n].pod = IF rec.phase = "CertSuiteRunning" THEN rec.pod ELSE crs[n].pod
          /\ rec.pod # NoPod
        <3>1. rec.phase \in Phases /\ rec.pod # NoPod
            BY <1>5 DEF TypeOK, ReconcilerTypeOK, Calls, Writes, PodNames, NoPod
        <3> QED BY <1>5, <3>1 DEF Writes, AcceptedPhases, EndPhases, Phases
    <2>2. ~Dispatches(n)' /\ ~ShowsEnd(n)'
        BY <1>3, <2>1 DEF CallStep, ReconcileNew, Take
    <2>3. Creates(n)' => crs'[n].phase = "CertSuiteDeploying"
        BY <1>3, <2>1 DEF CallStep, Dispatches
    <2>4. crs'[n].pod # NoPod <=> crs'[n].phase \in {"CertSuiteRunning"} \cup EndPhases
        <3>1. CASE rec.phase = "CertSuiteDeploying"
            <4>1. crs[n].phase \in {"", "CertSuiteDeploying"}
                BY <1>1, <2>1, <3>1 DEF InOrder, Dispatches
            <4>2. crs[n].pod = NoPod
                BY <1>1, <4>1 DEF InOrder, EndPhases
            <4> QED BY <2>1, <3>1, <4>2 DEF EndPhases
        <3>2. CASE rec.phase = "CertSuiteRunning"
            BY <2>1, <3>2
        <3>3. CASE rec.phase \in EndPhases
            <4>1. crs[n].phase \in {"CertSuiteRunning"} \cup EndPhases
                BY <1>1, <2>1, <3>3 DEF InOrder, ShowsEnd
            <4>2. crs[n].pod # NoPod
                BY <1>1, <4>1 DEF InOrder
            <4> QED BY <2>1, <3>3, <4>2 DEF EndPhases
        <3> QED BY <2>1, <3>1, <3>2, <3>3
    <2> QED BY <2>1, <2>2, <2>3, <2>4 DEF Stages
<1>6. CASE PhaseStays(n)
    <2>1. ~(UpdateStored /\ rec.run = n)
        BY <1>6 DEF PhaseStays
    <2>3. Dispatches(n)' => crs[n].phase \in {"", "CertSuiteDeploying"}
        <3>1. CASE Dispatches(n)
            BY <1>1, <3>1 DEF InOrder
        <3>2. CASE ReconcileNew(n)
            BY <1>1, <3>2, NewHasNoPod DEF InOrder, Stages
        <3> QED BY <1>3, <3>1, <3>2 DEF CallStep
    <2>4. Creates(n)' => crs[n].phase = "CertSuiteDeploying"
        BY <1>1, <1>3, <2>1 DEF CallStep, InOrder, Dispatches
    <2>5. ASSUME ShowsEnd(n)'
          PROVE  crs[n].phase \in {"CertSuiteRunning", rec'.phase}
        <3>1. CASE ShowsEnd(n) /\ rec'.phase = rec.phase
            BY <1>1, <3>1 DEF InOrder
        <3>2. CASE /\ rec.run = n /\ rec.pc = "getPod"
                   /\ Exists(rec.pod) /\ Observed(rec.pod) \in {"exit0", "exit1"}
                   /\ rec'.phase = EndPhase(Observed(rec.pod))
            <4>1. /\ pods[rec.pod].run = n /\ rec.pod \in PodNames
                  /\ crs[n].pod # NoPod
                BY <3>2, LooksAtItsPod
            <4>2. crs[n].phase \in {"CertSuiteRunning"} \cup EndPhases
                BY <1>1, <4>1 DEF InOrder
            <4>3. crs[n].phase \in EndPhases => CodeOf(crs[n].phase) = Observed(rec.pod)
                BY <1>1, <3>2, <4>1, ObservedIsSidecar DEF InOrder, PodAgrees, EndedAs
            <4> QED BY <3>2, <4>2, <4>3, EndPhaseOfCode
        <3> QED BY <1>3, <2>5, <3>1, <3>2 DEF CallStep
    <2> QED BY <1>1, <1>6, <2>3, <2>4, <2>5 DEF PhaseStays, InOrder
<1> QED BY <1>2, <1>5, <1>6

LEMMA OrderOfThePods ==
    ASSUME Together, NEW n \in Runs, Present(crs[n]), crs'[n].uid # 0,
           NEW p \in PodNames, pods'[p].owner # 0, pods'[p].run = n
    PROVE  /\ crs'[n].phase # ""
           /\ crs'[n].phase \in EndPhases => EndedAs(p, crs[n].phase)'
           /\ ShowsEnd(n)' => EndedAs(p, rec.phase)'
<1> USE DEF Together, Around
<1>1. InOrder(n) /\ CallStep(n) /\ (PhaseStays(n) \/ Writes(n))
    BY CallSteps, PhaseSteps
<1>2. Writes(n) => /\ crs'[n].phase = rec.phase /\ rec.phase # ""
                   /\ rec.run = n /\ rec.pc = "updateStatus"
    BY DEF Writes, AcceptedPhases
<1>3. PodStays(p) \/ PodIsNew(p)
    BY StepsOfThePods
<1>4. \A phase : CodeOf(phase) \in {"exit0", "exit1"}
    BY DEF CodeOf
<1>5. CASE PodIsNew(p)
    <2>1. rec.pc = "createPod" /\ rec.run = n
        BY <1>5 DEF PodIsNew
    <2>2. crs[n].phase = "CertSuiteDeploying"
        BY <1>1, <2>1 DEF InOrder, Creates
    <2>3. crs'[n].phase = "CertSuiteDeploying"
        BY <1>1, <1>2, <2>1, <2>2 DEF PhaseStays
    <2>4. ~ShowsEnd(n)'
        BY <1>1, <2>1 DEF CallStep, ShowsEnd
    <2> QED BY <2>3, <2>4 DEF EndPhases
<1>6. CASE PodStays(p)
    <2>1. Exists(p) /\ PodAgrees(n, p)
        BY <1>1, <1>6 DEF PodStays, InOrder
    <2>2. pods[p].run = n
        BY <1>6 DEF PodStays
    <2>3. crs'[n].phase # ""
        BY <1>1, <1>2, <2>1, <2>2 DEF PhaseStays, PodAgrees
    <2>4. ASSUME NEW phase, EndedAs(p, phase)
          PROVE  pods'[p].status["certsuite-sidecar"] = CodeOf(phase)
        BY <1>4, <2>1, <2>4, EndedStays DEF EndedAs
    <2>5. ASSUME crs'[n].phase \in EndPhases
          PROVE  EndedAs(p, crs'[n].phase)
        <3>1. CASE PhaseStays(n)
            BY <2>1, <2>2, <2>5, <3>1 DEF PhaseStays, PodAgrees
        <3>2. CASE Writes(n)
            BY <1>2, <2>1, <2>2, <2>5, <3>2 DEF PodAgrees, ShowsEnd
        <3> QED BY <1>1, <3>1, <3>2
    <2>6. ASSUME ShowsEnd(n)'
          PROVE  EndedAs(p, rec'.phase)
        <3>1. CASE ShowsEnd(n) /\ rec'.phase = rec.phase
            BY <2>1, <2>2, <3>1 DEF PodAgrees
        <3>2. CASE /\ rec.run = n /\ rec.pc = "getPod"
                   /\ Exists(rec.pod) /\ Observed(rec.pod) \in {"exit0", "exit1"}
                   /\ rec'.phase = EndPhase(Observed(rec.pod))
            <4>1. p = rec.pod
                BY <2>1, <2>2, <3>2, LooksAtItsPod
            <4>2. pods[p].status["certsuite-sidecar"] = Observed(rec.pod)
                BY <4>1, ObservedIsSidecar
            <4> QED BY <3>2, <4>2, EndPhaseOfCode DEF EndedAs
        <3> QED BY <1>1, <2>6, <3>1, <3>2 DEF CallStep
    <2> QED BY <2>3, <2>4, <2>5, <2>6 DEF EndedAs
<1> QED BY <1>3, <1>5, <1>6

LEMMA OrderStep ==
    ASSUME Together, NEW n \in Runs
    PROVE  IF crs'[n].uid # 0 THEN InOrder(n)' ELSE Blank(crs'[n])
<1> USE DEF Together, Around
<1>1. CASE crs'[n].uid = 0
    <2>1. ~Writes(n) /\ ~Reports(n)
        BY <1>1 DEF Writes, Reports, Present
    <2>2. CASE crs'[n] = crs[n]
        BY <1>1, <2>2 DEF Present
    <2>3. CASE Renews(n)
        BY <1>1, <2>3 DEF Renews
    <2> QED BY <1>1, <2>1, <2>2, <2>3, StepsOfTheFields
<1>2. CASE crs'[n].uid # 0 /\ Present(crs[n])
    BY <1>2, OrderOfTheCall, OrderOfThePods DEF InOrder, PodAgrees, Exists
<1>3. CASE crs'[n].uid # 0 /\ ~Present(crs[n])
    <2>1. /\ Blank(crs'[n]) /\ gen[n] = 0 /\ UNCHANGED <<pods, reconcilerVars>>
        BY <1>3, StepsOfTheFields DEF Writes, Reports, Renews, Present
    <2>2. Unused(n)
        BY DEF Before, HistoryInv, History
    <2>3. /\ crs'[n].phase = "" /\ crs'[n].pod = NoPod
        BY <2>1 DEF Blank
    <2>4. ~Dispatches(n)' /\ ~Creates(n)' /\ ~ShowsEnd(n)'
        BY <2>1, <2>2 DEF Unused, CallFor, Dispatches, Creates, ShowsEnd, reconcilerVars
    <2>5. \A p \in PodNames : ~(pods'[p].owner # 0 /\ pods'[p].run = n)
        BY <2>1, <2>2 DEF Unused, Exists
    <2> QED BY <1>3, <2>3, <2>4, <2>5 DEF InOrder, PodAgrees, Stages, EndPhases, Exists
<1> QED BY <1>1, <1>2, <1>3

----------------------------------------------------------------------------
(* Every step of the system is a step of the lifecycle, or none.           *)

LEMMA LifecycleSteps ==
    ASSUME Together, NEW n \in Runs
    PROVE  LifecycleStep(n)
<1> USE DEF Together, Around
<1>1. CASE crs'[n] = crs[n]
    BY <1>1 DEF LifecycleStep, Seen!object, Present
<1>2. CASE Reports(n)
    <2>1. PICK p \in PodNames : Running(p, "certsuite-sidecar") /\ pods[p].run = n
        BY <1>2 DEF Reports
    <2>2. InOrder(n) /\ PodAgrees(n, p) /\ Exists(p)
        BY <1>2, <2>1 DEF Reports, InOrder, Running
    <2>3. crs[n].phase # "" /\ crs[n].phase \notin EndPhases
        BY <2>1, <2>2 DEF PodAgrees, EndedAs, CodeOf, Running
    <2>4. crs[n].phase \in {"CertSuiteDeploying", "CertSuiteRunning"}
        BY <2>2, <2>3 DEF InOrder, Stages
    <2> QED BY <1>2, <2>4 DEF Reports, Present, LifecycleStep, Seen!object,
                              Seen!Next, Seen!Publish
<1>3. CASE Writes(n)
    <2>1. InOrder(n) /\ Present(crs[n])
        BY <1>3 DEF Writes
    <2>2. /\ rec.run = n /\ rec.pc = "updateStatus"
          /\ crs'[n].phase = rec.phase /\ crs'[n].report = crs[n].report
          /\ crs'[n].pod = IF rec.phase = "CertSuiteRunning" THEN rec.pod ELSE crs[n].pod
          /\ Present(crs'[n])
        BY <1>3 DEF Writes, Present
    <2>3. rec.phase \in {"CertSuiteDeploying", "CertSuiteRunning",
                         "CertSuiteFinished", "CertSuiteError"}
        <3>1. rec.phase \in Phases
            BY DEF TypeOK, ReconcilerTypeOK, Calls
        <3> QED BY <1>3, <3>1 DEF Writes, AcceptedPhases, Phases
    <2>4. rec.pod # NoPod
        BY <2>2 DEF TypeOK, ReconcilerTypeOK, PodNames, NoPod
    <2>5. CASE rec.phase = "CertSuiteDeploying"
        <3>1. crs[n].phase \in {"", "CertSuiteDeploying"}
            BY <2>1, <2>2, <2>5 DEF InOrder, Dispatches
        <3> QED BY <2>1, <2>2, <2>5, <3>1
                DEF LifecycleStep, Seen!object, Seen!Next, Seen!Deploy, Seen!Step
    <2>6. CASE rec.phase = "CertSuiteRunning"
        <3>1. crs[n].phase = "CertSuiteDeploying"
            BY <2>1, <2>2, <2>6 DEF InOrder, Creates
        <3> QED BY <2>1, <2>2, <2>4, <2>6, <3>1
                DEF LifecycleStep, Seen!Next, Seen!Run, Seen!Step
    <2>7. CASE rec.phase \in EndPhases
        <3>1. crs[n].phase \in {"CertSuiteRunning", rec.phase}
            BY <2>1, <2>2, <2>7 DEF InOrder, ShowsEnd
        <3>2. rec.phase = "CertSuiteFinished" => crs[n].report # 0
            BY <2>1, <2>2 DEF ReportsInv
        <3>3. crs'[n].pod = crs[n].pod
            BY <2>2, <2>7 DEF EndPhases
        <3> QED BY <2>1, <2>2, <2>7, <3>1, <3>2, <3>3
                DEF EndPhases, LifecycleStep, Seen!object, Seen!Next, Seen!Finish,
                    Seen!Fail, Seen!Step
    <2> QED BY <2>3, <2>5, <2>6, <2>7 DEF EndPhases
<1>4. CASE Renews(n)
    <2>1. Blank(crs[n]) \/ Present(crs[n])
        OBVIOUS
    <2> QED BY <1>4, <2>1 DEF Renews, Blank, LifecycleStep, Seen!Next, Seen!Request,
                       Seen!Withdraw, Seen!Unset
<1> QED BY <1>1, <1>2, <1>3, <1>4, StepsOfTheFields

----------------------------------------------------------------------------
LEMMA OrderInvInit == Init => OrderInv
<1> SUFFICES ASSUME Init, NEW n \in Runs PROVE ~Present(crs[n]) /\ Blank(crs[n])
    BY DEF OrderInv
<1> QED BY NoRunFields, NoRunUid DEF Init, ClusterInit

LEMMA OrderInvStep ==
    ASSUME ~LagBeyondInterval, SidecarIsObserved, restarts' = 0 \/ OneName,
           TypeOK, TypeOK', CopiesInv, PodsInv, HistoryInv, OnlyPodInv, FirstPodInv,
           FinishedInv, OrderInv, [Next]_vars
    PROVE  OrderInv' /\ \A n \in Runs : LifecycleStep(n)
<1>1. NamesApart
    BY FirstProcess DEF NamesApart
<1>2. MaxGen <= 1
    BY LagAssumption DEF LagAssumption
<1>3. Together
    BY <1>1, <1>2, ReadsOwn
       DEF Together, Before, Around, PodsInv, FinishedInv, OrderInv
<1> QED BY <1>3, OrderStep, LifecycleSteps DEF OrderInv, Present

LEMMA LifecycleInit == Init => \A n \in Runs : Seen(n)!Init
<1> SUFFICES ASSUME Init, NEW n \in Runs PROVE Seen(n)!Init
    OBVIOUS
<1>1. ~Present(crs[n]) /\ Blank(crs[n])
    BY NoRunFields, NoRunUid DEF Init, ClusterInit
<1> QED BY <1>1 DEF Blank, Seen!Init, Seen!Unset

(* The controller and the sidecars together implement the lifecycle of a   *)
(* run: whichever calls fail, conflict or arrive late, and however many    *)
(* runs there are, a user sees the phases of a run in order, and each      *)
(* report and pod name in its place. A single run keeps the order across   *)
(* any number of restarts; of several it is shown of a process that does   *)
(* not restart. The cache lags for at most checkInterval.                  *)
THEOREM FollowsTheLifecycle ==
    ASSUME ~LagBeyondInterval, SidecarIsObserved, MaxRestarts = 0 \/ OneName
    PROVE  Spec => FollowsLifecycle
<1>1. MaxGen <= 1
    BY LagAssumption DEF LagAssumption
<1>2. TypeOK' => restarts' = 0 \/ OneName
    BY DEF TypeOK, ReconcilerTypeOK
<1>3. /\ TypeOK /\ TypeOK' /\ CopiesInv /\ PodsInv /\ HistoryInv
      /\ OnlyPodInv /\ FirstPodInv /\ FinishedInv /\ OrderInv /\ [Next]_vars
      => OrderInv' /\ [\A n \in Runs : LifecycleStep(n)]_vars
    BY <1>2, OrderInvStep
<1>4. TypeOK /\ TypeOK' /\ CopiesInv /\ PodsInv /\ FinishedInv /\ [Next]_vars => FinishedInv'
    BY <1>1, FinishedInvStep
<1>5. Spec => []FinishedInv
    BY <1>4, FinishedInvInit, TypeCorrect, CopiesInvCorrect, PodsInvCorrect, PTL DEF Spec
<1>6. Spec => []HistoryInv /\ [](OnlyPodInv /\ FirstPodInv)
    BY HistoryInvCorrect, OnlyPodsInvCorrect
<1>7. Spec => [][\A n \in Runs : LifecycleStep(n)]_vars
    BY <1>3, <1>5, <1>6, TypeCorrect, CopiesInvCorrect, PodsInvCorrect, OrderInvInit,
       PTL DEF Spec
<1> QED BY <1>7, LifecycleInit, PTL DEF Spec, FollowsLifecycle
=============================================================================
