------------------------ MODULE FinishedReport_proofs ------------------------
(***************************************************************************)
(* Proof that a run that shows CertSuiteFinished has its report, while no  *)
(* name is used twice and pod names are apart (several runs: until the     *)
(* process restarts), when the controller looks at the sidecar's container:*)
(* which it does, since the container statuses are sorted by name.         *)
(***************************************************************************)
EXTENDS CertsuiteOperator_proofs

USE BoundsAssumption, RunsAssumption DEF BoundsAssumption, RunsAssumption

(* The second status, the one taken for the suite's, is the sidecar's.     *)
SidecarIsObserved == StatusOrder[2] = "certsuite-sidecar"

LEMMA ObservedIsSidecar ==
    ASSUME SidecarIsObserved, NEW p
    PROVE  Observed(p) = pods[p].status["certsuite-sidecar"]
<1>1. DOMAIN SpecContainers = {1, 2} /\ SpecContainers[1] = "certsuite-sidecar"
      /\ SpecContainers[2] = "certsuite"
    BY DEF SpecContainers
<1>2. SpecIndex("certsuite") = 2
    BY <1>1 DEF SpecIndex
<1> QED BY <1>2 DEF SidecarIsObserved, Observed, getContainerStatus

----------------------------------------------------------------------------
(* Whose pod a name stands for.                                            *)

(* A pod name is, and will be, no other run's.                             *)
Owns(n, p) ==
    p # NoPod => /\ p <= certSuitePodID
                 /\ \A m \in Runs : certificationRuns[m] = p => m = n
                 /\ Exists(p) => pods[p].run = n

OwnsInv == /\ \A n \in Runs : Owns(n, crs[n].pod) /\ Owns(n, cache[n].pod)
           /\ rec.pc # "idle" => Owns(rec.run, rec.pod)

(* What a run's report and phase follow from: a sidecar that succeeded     *)
(* stored a report, and a call that writes CertSuiteFinished saw that.     *)
ReportsInv ==
    /\ \A p \in PodNames :
          /\ Exists(p) /\ pods[p].status["certsuite-sidecar"] = "exit0"
          /\ Present(crs[pods[p].run])
          => crs[pods[p].run].report # 0
    /\ rec.pc = "getPod" => gen[rec.run] # 0
    /\ rec.pc = "updateStatus" /\ rec.phase = "CertSuiteFinished" =>
          /\ gen[rec.run] # 0
          /\ Present(crs[rec.run]) => crs[rec.run].report # 0
    /\ FinishedHasReport

FinishedInv == /\ restarts = 0 => OwnsInv
               /\ NamesApart => ReportsInv

----------------------------------------------------------------------------
(* The states around a step, and around a step of the first process.       *)
Around ==
    /\ TypeOK /\ TypeOK' /\ CopiesInv /\ UidsInv /\ [Next]_vars /\ MaxGen <= 1

AroundFirst == Around /\ NamesInv /\ OwnsInv /\ restarts = 0 /\ ~Restart

(* The pod a call reads is one of its run.                                 *)
ReadsOwnPod == rec.pc = "getPod" /\ Exists(rec.pod) => pods[rec.pod].run = rec.run

(* What a step does to the call: it ends, goes on for its run and pod, or  *)
(* begins for a run with the pod in the map or in the cache, or a new one. *)
Begins(n) ==
    /\ UNCHANGED <<crs, gen, pods, cache>> /\ rec'.run = n
    /\ \/ rec'.pc = "deletePod" /\ rec'.pod = certificationRuns[n] /\ HasEntry(n)
          /\ UNCHANGED <<certificationRuns, certSuitePodID>>
       \/ rec'.pc = "getPod" /\ rec'.pod = cache[n].pod /\ Present(cache[n])
          /\ UNCHANGED <<certificationRuns, certSuitePodID>>
       \/ /\ ReconcileNew(n)
          /\ rec'.pc = "updateStatus" /\ rec'.phase = "CertSuiteDeploying"
          /\ rec'.pod = certSuitePodID + 1

GoesOn ==
    /\ rec.pc # "idle" /\ rec'.run = rec.run /\ rec'.pod = rec.pod
    /\ rec'.pc # "getPod"
    /\ rec'.pc = "updateStatus" /\ rec'.phase = "CertSuiteFinished" =>
          \/ rec.pc = "updateStatus" /\ rec.phase = "CertSuiteFinished"
          \/ /\ rec.pc = "getPod" /\ Exists(rec.pod) /\ Observed(rec.pod) = "exit0"
             /\ UNCHANGED <<crs, gen>>

LEMMA StepsOfThisCall ==
    ASSUME TypeOK, [Next]_vars, rec'.pc # "idle"
    PROVE  rec' = rec \/ GoesOn \/ \E n \in Runs : Begins(n)
<1> USE DEF TypeOK, ReconcilerTypeOK
<1>0. Idle.pc = "idle" /\ Idle \in Calls
    BY IdleType DEF Idle
<1>1. ASSUME NEW n \in Runs, Starts(n) PROVE Begins(n)
    <2>1. UNCHANGED <<crs, gen, pods, cache>>
        BY <1>1 DEF Starts, ReconcileDeleted, ReconcileEnd, ReconcileNew, Take, clusterVars
    <2>2. CASE ReconcileNew(n)
        BY <2>1, <2>2 DEF ReconcileNew, NextPodID, Begins
    <2>3. CASE ReconcileDeleted(n)
        <3>1. HasEntry(n)
            BY <1>0, <2>3 DEF ReconcileDeleted
        <3>2. rec'.run = n /\ rec'.pod = certificationRuns[n] /\ rec'.pc = "deletePod"
            BY <1>0, <2>3, <3>1 DEF ReconcileDeleted, Calls
        <3> QED BY <2>1, <2>3, <3>1, <3>2 DEF ReconcileDeleted, Begins
    <2>4. CASE ReconcileEnd(n)
        <3>1. rec'.run = n /\ rec'.pod = cache[n].pod /\ rec'.pc = "getPod"
            BY <1>0, <2>4 DEF ReconcileEnd, Calls
        <3> QED BY <2>1, <2>4, <3>1 DEF ReconcileEnd, Gone, Begins
    <2> QED BY <1>1, <2>2, <2>3, <2>4 DEF Starts
<1>2. ASSUME NEW phase, rec.pc # "idle", rec' = updateStatus(phase),
             phase # "CertSuiteFinished"
      PROVE  GoesOn
    <2>1. /\ rec'.pc = "updateStatus" /\ rec'.phase = phase
          /\ rec'.run = rec.run /\ rec'.pod = rec.pod
        BY <1>2 DEF updateStatus, Calls
    <2> QED BY <1>2, <2>1 DEF GoesOn
<1>3. ~\E result : EndCall(result)
    BY <1>0 DEF EndCall
<1>4. CASE UpdateStored \/ UpdateRetried \/ UpdateFailed
    <2>1. rec.pc = "updateStatus"
        BY <1>4 DEF UpdateStored, UpdateRetried, UpdateFailed, InUpdate
    <2>2. CASE rec' = [rec EXCEPT !.pc = "createPod"]
        <3>1. rec'.pc = "createPod" /\ rec'.run = rec.run /\ rec'.pod = rec.pod
            BY <2>2 DEF Calls
        <3> QED BY <2>1, <3>1 DEF GoesOn
    <2>3. CASE rec' = [rec EXCEPT !.tries = rec.tries - 1]
        <3>1. /\ rec'.pc = rec.pc /\ rec'.run = rec.run /\ rec'.pod = rec.pod
              /\ rec'.phase = rec.phase
            BY <2>3 DEF Calls
        <3> QED BY <2>1, <3>1 DEF GoesOn
    <2> QED BY <1>3, <1>4, <2>2, <2>3
        DEF UpdateStored, UpdateRetried, UpdateFailed, AfterUpdate, AfterFailedUpdate
<1>5. CASE PodCreated \/ PodNotCreated
    BY <1>2, <1>5 DEF PodCreated, PodNotCreated, InCreate
<1>6. CASE DeleteJobPod \/ PodUnreadable
    BY <1>3, <1>6 DEF DeleteJobPod, PodUnreadable
<1>7. CASE PodRunning
    BY <1>2, <1>3, <1>7 DEF PodRunning, InGetPod
<1>8. CASE PodFinished
    <2>1. /\ rec.pc = "getPod" /\ Exists(rec.pod) /\ UNCHANGED <<crs, gen>>
          /\ rec' = updateStatus(EndPhase(Observed(rec.pod)))
        BY <1>8 DEF PodFinished, InGetPod
    <2>2. CASE Observed(rec.pod) = "exit0"
        <3>1. rec'.pc = "updateStatus" /\ rec'.run = rec.run /\ rec'.pod = rec.pod
            BY <2>1 DEF updateStatus, Calls
        <3> QED BY <2>1, <2>2, <3>1 DEF GoesOn
    <2>3. CASE Observed(rec.pod) # "exit0"
        BY <1>2, <2>1, <2>3 DEF EndPhase
    <2> QED BY <2>2, <2>3
<1>9. CASE UNCHANGED rec
    BY <1>9
<1>10. ASSUME NEW n \in Runs, \/ WatchCreate(n) \/ WatchUpdate(n) \/ WatchDelete(n)
                              \/ Deliver(n) \/ TimerFires(n)
       PROVE  UNCHANGED rec
    BY <1>10 DEF WatchCreate, WatchUpdate, WatchDelete, Watch, Deliver, TimerFires
<1>11. ~Restart
    BY <1>0 DEF Restart
<1> QED BY <1>1, <1>4, <1>5, <1>6, <1>7, <1>8, <1>9, <1>10, <1>11
        DEF Next, ReconcilerNext, CallNext, Starts, vars, reconcilerVars
----------------------------------------------------------------------------
(* The names: they stay with their runs.                                   *)

(* Owns after the step, of a name before or after it.                      *)
OwnsNext(n, p) ==
    p # NoPod => /\ p <= certSuitePodID'
                 /\ \A m \in Runs : certificationRuns'[m] = p => m = n
                 /\ pods'[p].owner # 0 => pods'[p].run = n

LEMMA OwnsLasts ==
    ASSUME AroundFirst, NEW n \in Runs, NEW p \in 0 .. MaxPodID, Owns(n, p)
    PROVE  OwnsNext(n, p)
<1> SUFFICES ASSUME p # NoPod
             PROVE  /\ p <= certSuitePodID'
                    /\ \A m \in Runs : certificationRuns'[m] = p => m = n
                    /\ pods'[p].owner # 0 => pods'[p].run = n
    BY DEF OwnsNext
<1> USE DEF AroundFirst, Around
<1>0. /\ certSuitePodID \in Nat /\ certificationRuns \in [Runs -> 0 .. MaxPodID]
      /\ p \in Nat /\ p \in PodNames
    BY DEF TypeOK, ReconcilerTypeOK, PodNames, NoPod
<1>1. p <= certSuitePodID' /\ \A m \in Runs : certificationRuns'[m] = p => m = n
    <2>1. CASE UNCHANGED <<certificationRuns, certSuitePodID>>
        BY <2>1 DEF Owns
    <2>2. CASE DeleteJobPod
        BY <1>0, <2>2 DEF Owns, DeleteJobPod, NoPod
    <2>3. ASSUME NEW m \in Runs, ReconcileNew(m)
          PROVE  p <= certSuitePodID' /\ \A k \in Runs : certificationRuns'[k] = p => k = n
        BY <1>0, <2>3 DEF Owns, ReconcileNew, NextPodID
    <2> QED BY <2>1, <2>2, <2>3, StepsOfTheName DEF NameCarried
<1>2. ASSUME pods'[p].owner # 0 PROVE pods'[p].run = n
    <2>1. CASE PodStays(p)
        BY <2>1 DEF PodStays, Owns
    <2>2. CASE PodIsNew(p)
        <3>1. certificationRuns[rec.run] = p
            BY <2>2 DEF PodIsNew, NamesInv, NeedsName
        <3> QED BY <2>2, <3>1 DEF PodIsNew, Owns
    <2> QED BY <1>0, <1>2, <2>1, <2>2, StepsOfThePods
<1> QED BY <1>1, <1>2

LEMMA OwnsInvStep ==
    ASSUME AroundFirst
    PROVE  OwnsInv'
<1> USE DEF AroundFirst, Around
<1>0. /\ \A n \in Runs : crs[n].pod \in 0 .. MaxPodID /\ cache[n].pod \in 0 .. MaxPodID
      /\ rec \in Calls /\ rec.pod \in 0 .. MaxPodID
      /\ rec.pc # "idle" => rec.run \in Runs
      /\ certSuitePodID \in Nat /\ certificationRuns \in [Runs -> 0 .. MaxPodID]
    BY DEF TypeOK, ClusterTypeOK, ReconcilerTypeOK, RunObjects, Calls
<1>1. ASSUME NEW n \in Runs PROVE OwnsNext(n, crs'[n].pod)
    <2>1. CASE crs'[n].pod = crs[n].pod
        BY <1>0, <2>1, OwnsLasts DEF OwnsInv
    <2>2. CASE crs'[n].pod = rec.pod /\ rec.run = n /\ rec.pc # "idle"
        BY <1>0, <2>2, OwnsLasts DEF OwnsInv
    <2>3. CASE crs'[n].pod = NoPod
        BY <2>3 DEF OwnsNext
    <2> QED BY <2>1, <2>2, <2>3, StepsOfTheFields DEF Reports, Writes, Renews, Blank
<1>2. ASSUME NEW n \in Runs PROVE OwnsNext(n, cache'[n].pod)
    <2>1. cache'[n].pod \in {cache[n].pod, crs[n].pod, NoPod}
        BY StepsOfTheCache, NoRunFields DEF CacheStep
    <2>2. CASE cache'[n].pod = NoPod
        BY <2>2 DEF OwnsNext
    <2>3. CASE cache'[n].pod \in {cache[n].pod, crs[n].pod}
        BY <1>0, <2>3, OwnsLasts DEF OwnsInv
    <2> QED BY <2>1, <2>2, <2>3
<1>3. ASSUME rec'.pc # "idle" PROVE OwnsNext(rec'.run, rec'.pod)
    <2>1. CASE rec'.run = rec.run /\ rec'.pod = rec.pod /\ rec.pc # "idle"
        BY <1>0, <2>1, OwnsLasts DEF OwnsInv
    <2>2. ASSUME NEW n \in Runs, Begins(n) PROVE OwnsNext(rec'.run, rec'.pod)
        <3>1. CASE rec'.pod = cache[n].pod
            BY <1>0, <2>2, <3>1, OwnsLasts DEF Begins, OwnsInv
        <3>2. CASE rec'.pod = certificationRuns[n] /\ HasEntry(n)
            <4>1. Owns(n, certificationRuns[n])
                BY <3>2 DEF Owns, NamesInv, HasEntry
            <4> QED BY <1>0, <2>2, <3>2, <4>1, OwnsLasts DEF Begins
        <3>3. CASE ReconcileNew(n) /\ rec'.pod = certSuitePodID + 1
            <4>1. /\ certSuitePodID' = certSuitePodID + 1
                  /\ certificationRuns' = [certificationRuns EXCEPT ![n] = certSuitePodID + 1]
                  /\ UNCHANGED pods /\ certSuitePodID + 1 \in PodNames
                BY <1>0, <3>3
                DEF ReconcileNew, NextPodID, Take, clusterVars, PodNames
            <4>2. \A m \in Runs : certificationRuns[m] # certSuitePodID + 1
                BY <1>0 DEF NamesInv
            <4>3. \A m \in Runs : certificationRuns'[m] = certSuitePodID + 1 => m = n
                BY <1>0, <4>1, <4>2
            <4>4. ~Exists(certSuitePodID + 1)
                BY <1>0, <4>1 DEF NamesInv
            <4> QED BY <1>0, <2>2, <3>3, <4>1, <4>3, <4>4 DEF Begins, OwnsNext, Exists
        <3> QED BY <2>2, <3>1, <3>2, <3>3 DEF Begins
    <2> QED BY <1>3, <2>1, <2>2, StepsOfThisCall DEF GoesOn
<1> QED BY <1>1, <1>2, <1>3 DEF OwnsInv, Owns, OwnsNext, Exists

----------------------------------------------------------------------------
(* The reports: they are there when a sidecar has succeeded.               *)

(* A report that is stored stays, and no object is created after it.       *)
LEMMA ReportLasts ==
    ASSUME Around, NEW n \in Runs, gen[n] # 0, Present(crs[n]) => crs[n].report # 0
    PROVE  Present(crs[n])' => crs'[n].report # 0
<1> USE DEF Around
<1>1. CASE crs'[n] = crs[n]
    BY <1>1 DEF Present
<1>2. CASE Reports(n)
    BY <1>2 DEF Reports
<1>3. CASE Writes(n)
    BY <1>3 DEF Writes, Present
<1>4. CASE Renews(n)
    BY <1>4 DEF Renews, Present
<1> QED BY <1>1, <1>2, <1>3, <1>4, StepsOfTheFields

(* The sidecar ends well only with the update that stores the report.      *)
LEMMA SidecarEnds ==
    ASSUME Around, NEW p \in PodNames, pods'[p].owner # 0,
           pods'[p].status["certsuite-sidecar"] = "exit0"
    PROVE  /\ Exists(p) /\ pods'[p].run = pods[p].run /\ pods[p].run \in Runs
           /\ \/ pods[p].status["certsuite-sidecar"] = "exit0"
              \/ crs'[pods[p].run].report # 0
<1> USE DEF Around, TypeOK, ClusterTypeOK
<1>0. pods \in [PodNames -> Pods]
    OBVIOUS
<1>1. CASE pods'[p] = pods[p]
    BY <1>1 DEF Exists
<1>2. ASSUME NEW q \in PodNames, PodStep(q)
      PROVE  pods[p].status["certsuite-sidecar"] = "exit0"
    <2>1. \/ pods'[p] = pods[p]
          \/ /\ p = q
             /\ \/ pods'[p].status["certsuite-sidecar"] \in
                       {pods[p].status["certsuite-sidecar"], "running", "exit1", "waiting"}
        <3>0. pods[q] \in Pods
            OBVIOUS
        <3>1. CASE StartPod(q)
            BY <1>0, <3>0, <3>1 DEF StartPod, ChangePod, Pods, Containers
        <3>2. CASE WriteClaim(q)
            BY <1>0, <3>0, <3>2 DEF WriteClaim, ChangePod, Pods, Containers
        <3>3. CASE SuiteExit(q)
            BY <1>0, <3>0, <3>3 DEF SuiteExit, ChangePod, Pods, Containers
        <3>4. CASE Expire(q) \/ CollectGarbage(q) \/ EvictPod(q)
            BY <1>0, <3>0, <3>4 DEF Expire, CollectGarbage, EvictPod, ChangePod, Pods
        <3>5. CASE KillContainers(q)
            BY <1>0, <3>0, <3>5 DEF KillContainers, ChangePod, Pods, Containers
        <3>6. CASE RemovePod(q)
            <4>1. AbsentPod.status["certsuite-sidecar"] = "waiting"
                BY DEF AbsentPod, Containers
            <4> QED BY <1>0, <3>6, <4>1 DEF RemovePod, ChangePod
        <3> QED BY <1>2, <3>1, <3>2, <3>3, <3>4, <3>5, <3>6 DEF PodStep
    <2> QED BY <2>1
<1>3. CASE SidecarNext
    <2>1. PICK q \in PodNames : SidecarRead(q) \/ SidecarUpdate(q)
        BY <1>3 DEF SidecarNext
    <2>2. pods[q] \in Pods /\ Exists(q) /\ pods[q].run \in Runs
        BY <2>1 DEF SidecarRead, SidecarUpdate, Running
    <2>3. CASE p # q
        BY <1>1, <2>1, <2>3 DEF SidecarRead, SidecarUpdate, Fatal
    <2>4. Stop(q, "exit1").status["certsuite-sidecar"] = "exit1"
          /\ Stop(q, "exit0").run = pods[q].run
        BY <2>2 DEF Stop, Pods, Containers
    <2>5. CASE p = q /\ pods' = [pods EXCEPT ![q] = Stop(q, "exit1")]
        BY <1>0, <2>4, <2>5
    <2>6. CASE p = q /\ pods' = [pods EXCEPT ![q].read = crs[pods[q].run]]
        BY <1>0, <2>2, <2>6 DEF Pods
    <2>7. CASE /\ p = q /\ pods' = [pods EXCEPT ![q] = Stop(q, "exit0")]
               /\ ReportAccepted(q) /\ crs' = Stored(pods[q].run, WithReport(q))
        <3>1. gen' = gen /\ Running(q, "certsuite-sidecar")
            BY <2>1 DEF SidecarRead, SidecarUpdate
        <3>2. Reports(pods[q].run)
            BY <2>2, <2>7, <3>1, StoreSidecar
        <3> QED BY <1>0, <2>2, <2>4, <2>7, <3>2 DEF Reports
    <2> QED BY <2>1, <2>3, <2>5, <2>6, <2>7 DEF SidecarRead, SidecarUpdate, Fatal
<1>4. CASE DeleteJobPod
    BY <1>0, <1>1, <1>4 DEF DeleteJobPod, Exists, Pods
<1>5. CASE PodCreated \/ PodNotCreated
    <2>1. NewJobPod(rec.run, rec.uid).status["certsuite-sidecar"] = "waiting"
        BY DEF NewJobPod, AbsentPod, Containers
    <2> QED BY <1>0, <1>1, <1>5, <2>1 DEF PodCreated, PodNotCreated, PodStored
<1>6. CASE UNCHANGED pods
    BY <1>1, <1>6
<1>7. CASE ReconcilerNext /\ ~DeleteJobPod /\ ~PodCreated /\ ~PodNotCreated
    BY <1>6, <1>7
    DEF ReconcilerNext, CallNext, WatchCreate, WatchUpdate, WatchDelete,
        Watch, Deliver, TimerFires, ReconcileDeleted, ReconcileEnd, ReconcileNew,
        Take, UpdateStored, UpdateRetried, UpdateFailed, InUpdate,
        PodUnreadable, PodRunning, PodFinished, InGetPod, Restart, clusterVars
<1>8. ASSUME NEW q \in PodNames, PodStep(q)
      PROVE  Exists(p) /\ pods'[p].run = pods[p].run /\ pods[p].run \in Runs
    <2>1. PICK pod : PodKept(q, pod)
        BY <1>8, PodStepKeeps
    <2>2. pods' = [pods EXCEPT ![q] = pod] /\ (pod.owner # 0 =>
              Exists(q) /\ pod.owner = pods[q].owner /\ pod.run = pods[q].run)
        BY <2>1 DEF PodKept, ChangePod
    <2> QED BY <2>2 DEF Exists
<1> QED BY <1>2, <1>3, <1>4, <1>5, <1>6, <1>7, <1>8
    DEF Next, ClusterNext, PodStep, CreateRun, DeleteRun, vars, clusterVars

LEMMA ReportsInvStep ==
    ASSUME Around, ReportsInv, ReadsOwnPod, SidecarIsObserved
    PROVE  ReportsInv'
<1> USE DEF Around
<1>0. /\ \A n \in Runs : crs[n].uid \in Nat /\ cache[n].uid \in Nat /\ gen[n] \in Nat
      /\ rec.pc # "idle" => rec.run \in Runs
      /\ \A p \in PodNames : pods[p].owner \in Nat
    BY DEF TypeOK, ClusterTypeOK, ReconcilerTypeOK, RunObjects, Pods
<1>1. \A n \in Runs : gen[n] # 0 => gen'[n] # 0
    BY <1>0, UidSteps
<1>2. ASSUME NEW p \in PodNames, pods'[p].owner # 0,
             pods'[p].status["certsuite-sidecar"] = "exit0", crs'[pods'[p].run].uid # 0
      PROVE  crs'[pods'[p].run].report # 0
    <2>1. /\ Exists(p) /\ pods'[p].run = pods[p].run /\ pods[p].run \in Runs
          /\ \/ pods[p].status["certsuite-sidecar"] = "exit0"
             \/ crs'[pods[p].run].report # 0
        BY <1>2, SidecarEnds
    <2>2. CASE pods[p].status["certsuite-sidecar"] = "exit0"
        <3>1. gen[pods[p].run] # 0
            BY <1>0, <2>1 DEF UidsInv, KnownUid, Exists
        <3>2. Present(crs[pods[p].run]) => crs[pods[p].run].report # 0
            BY <2>1, <2>2 DEF ReportsInv
        <3> QED BY <1>2, <2>1, <3>1, <3>2, ReportLasts DEF Present
    <2> QED BY <2>1, <2>2
<1>3. ASSUME rec'.pc = "getPod" PROVE gen'[rec'.run] # 0
    <2>1. CASE rec' = rec
        BY <1>0, <1>1, <1>3, <2>1 DEF ReportsInv
    <2>2. ASSUME NEW n \in Runs, Begins(n) PROVE gen'[n] # 0 /\ rec'.run = n
        <3>1. Present(cache[n]) /\ rec'.run = n
            BY <1>3, <2>2 DEF Begins
        <3>2. cache[n].uid <= gen[n]
            BY DEF CopiesInv, CopyOf
        <3> QED BY <1>0, <1>1, <3>1, <3>2 DEF Present
    <2> QED BY <1>3, <2>1, <2>2, StepsOfThisCall DEF GoesOn
<1>4. ASSUME rec'.pc = "updateStatus", rec'.phase = "CertSuiteFinished"
      PROVE  gen'[rec'.run] # 0 /\ (crs'[rec'.run].uid # 0 => crs'[rec'.run].report # 0)
    <2>1. CASE rec.pc = "updateStatus" /\ rec.phase = "CertSuiteFinished" /\ rec'.run = rec.run
        <3>1. /\ rec.run \in Runs /\ gen[rec.run] # 0
              /\ Present(crs[rec.run]) => crs[rec.run].report # 0
            BY <1>0, <2>1 DEF ReportsInv
        <3> QED BY <1>1, <2>1, <3>1, ReportLasts DEF Present
    <2>2. CASE /\ rec.pc = "getPod" /\ Exists(rec.pod) /\ Observed(rec.pod) = "exit0"
               /\ UNCHANGED <<crs, gen>> /\ rec'.run = rec.run
        <3>1. rec.run \in Runs /\ gen[rec.run] # 0
            BY <1>0, <2>2 DEF ReportsInv
        <3>2. rec.pod \in PodNames /\ rec.pod # NoPod
            BY <2>2 DEF TypeOK, ReconcilerTypeOK, PodNames, NoPod
        <3>3. pods[rec.pod].run = rec.run
            BY <2>2 DEF ReadsOwnPod
        <3>4. pods[rec.pod].status["certsuite-sidecar"] = "exit0"
            BY <2>2, <3>2, ObservedIsSidecar
        <3>5. Present(crs[rec.run]) => crs[rec.run].report # 0
            BY <2>2, <3>2, <3>3, <3>4 DEF ReportsInv
        <3> QED BY <2>2, <3>1, <3>5 DEF Present
    <2>3. ~\E n \in Runs : Begins(n)
        BY <1>4 DEF Begins
    <2> QED BY <1>4, <2>1, <2>2, <2>3, StepsOfThisCall DEF GoesOn
<1>5. ASSUME NEW n \in Runs, crs'[n].phase = "CertSuiteFinished"
      PROVE  crs'[n].report # 0
    <2>1. CASE crs'[n] = crs[n]
        BY <1>5, <2>1 DEF ReportsInv, FinishedHasReport
    <2>2. CASE Reports(n)
        BY <2>2 DEF Reports
    <2>3. CASE Writes(n)
        BY <1>5, <2>3 DEF Writes, ReportsInv
    <2>4. CASE Renews(n)
        BY <1>5, <2>4 DEF Renews, Blank
    <2> QED BY <2>1, <2>2, <2>3, <2>4, StepsOfTheFields
<1> QED BY <1>2, <1>3, <1>4, <1>5 DEF ReportsInv, FinishedHasReport, Exists, Present
----------------------------------------------------------------------------
(* Without a restart the names tell whose pod it is, and with one run      *)
(* there is no other.                                                      *)
LEMMA ReadsOwn ==
    ASSUME TypeOK, NamesApart, FinishedInv
    PROVE  ReadsOwnPod
<1> SUFFICES ASSUME rec.pc = "getPod", Exists(rec.pod)
             PROVE  pods[rec.pod].run = rec.run
    BY DEF ReadsOwnPod
<1>1. /\ rec.run \in Runs /\ rec.pod \in PodNames /\ rec.pod # NoPod
      /\ pods[rec.pod].run \in Runs
    BY DEF TypeOK, ClusterTypeOK, ReconcilerTypeOK, PodNames, NoPod
<1>2. CASE restarts = 0
    BY <1>1, <1>2 DEF FinishedInv, OwnsInv, Owns
<1>3. CASE OneName
    BY <1>1, <1>3 DEF OneName
<1> QED BY <1>2, <1>3 DEF NamesApart

LEMMA FinishedInvInit == Init => FinishedInv
<1> SUFFICES ASSUME Init PROVE OwnsInv /\ ReportsInv
    BY DEF FinishedInv
<1>1. /\ \A n \in Runs : crs[n].pod = NoPod /\ cache[n].pod = NoPod
      /\ \A n \in Runs : crs[n].phase # "CertSuiteFinished"
    BY NoRunFields DEF Init, ClusterInit, ReconcilerInit
<1>2. rec.pc = "idle"
    BY DEF Init, ReconcilerInit, Idle
<1>3. \A p \in PodNames : ~Exists(p)
    BY DEF Init, ClusterInit, AbsentPod, Exists
<1> QED BY <1>1, <1>2, <1>3 DEF OwnsInv, Owns, ReportsInv, FinishedHasReport

LEMMA FinishedInvStep ==
    ASSUME MaxGen <= 1, SidecarIsObserved,
           TypeOK, TypeOK', CopiesInv, PodsInv, FinishedInv, [Next]_vars
    PROVE  FinishedInv'
<1>0. Around
    BY DEF Around, PodsInv
<1>1. ASSUME restarts' = 0 PROVE OwnsInv'
    <2>1. restarts = 0 /\ ~Restart
        BY <1>1, FirstProcess
    <2>2. AroundFirst
        BY <1>0, <2>1 DEF AroundFirst, PodsInv, NamesApart, FinishedInv
    <2> QED BY <2>2, OwnsInvStep
<1>2. ASSUME restarts' = 0 \/ OneName PROVE ReportsInv'
    <2>1. NamesApart
        BY <1>2, FirstProcess DEF NamesApart
    <2>2. ReportsInv /\ ReadsOwnPod
        BY <2>1, ReadsOwn DEF FinishedInv
    <2> QED BY <1>0, <2>2, ReportsInvStep
<1> QED BY <1>1, <1>2 DEF FinishedInv, NamesApart, OneName

(* When the container the controller looks at is the sidecar's, as the     *)
(* sorted statuses make it, and no name is used twice, a run that shows    *)
(* CertSuiteFinished has its report: a single run in every process,        *)
(* several until the process restarts.                                     *)
THEOREM FinishedRuns ==
    ASSUME MaxGen <= 1, SidecarIsObserved
    PROVE  Spec => [](NamesApart => FinishedHasReport)
<1>1. TypeOK /\ TypeOK' /\ CopiesInv /\ PodsInv /\ FinishedInv /\ [Next]_vars => FinishedInv'
    BY FinishedInvStep
<1>2. FinishedInv => (NamesApart => FinishedHasReport)
    BY DEF FinishedInv, ReportsInv
<1> QED BY <1>1, <1>2, FinishedInvInit, TypeCorrect, CopiesInvCorrect, PodsInvCorrect, PTL
        DEF Spec
=============================================================================
