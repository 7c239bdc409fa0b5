--------------------------- MODULE RunReconciler ---------------------------
(***************************************************************************)
(* The CertsuiteRun controller (internal/controller/                       *)
(* certsuiterun_controller.go): the informer cache it reads, the work      *)
(* queue that feeds its single worker, the Reconcile call in progress,     *)
(* and the two package variables that live only in its memory.             *)
(***************************************************************************)
EXTENDS Cluster

CONSTANTS
    RetrySteps,       \* attempts of retry.RetryOnConflict (5 in the code)
    MaxRestarts,      \* bound: how often the operator process restarts
    LagBeyondInterval \* may the cache lag for longer than checkInterval?

ASSUME RetryAssumption == RetrySteps \in Nat \ {0}
ASSUME RestartAssumption == MaxRestarts \in Nat
ASSUME LagAssumption == /\ LagBeyondInterval \in BOOLEAN
                        /\ LagBeyondInterval \/ MaxGen <= 1

VARIABLES
    cache,             \* the informer's copy of the CertsuiteRun objects
    events,            \* Add and Delete notifications not yet handled
    queue,             \* names in the work queue
    timers,            \* delayed requeues: after checkInterval or a backoff
    rec,               \* the Reconcile call in progress
    certificationRuns, \* the pod name stored for each run, NoPod if none
    certSuitePodID,    \* the number of the last pod name
    restarts           \* how often the process has restarted

reconcilerVars == <<cache, events, queue, timers, rec,
                    certificationRuns, certSuitePodID, restarts>>

(* The points at which a Reconcile call waits for an API call, and what it *)
(* carries across: the run's name, a pod name, the uid of the object it    *)
(* read, the phase it is writing and the attempts it has left.             *)
Calls == [pc : {"idle", "deletePod", "getPod", "createPod", "updateStatus"},
          run : Runs \cup {NoName}, pod : 0 .. MaxPodID, uid : 0 .. MaxGen,
          phase : Phases, tries : 0 .. RetrySteps]

Idle == [pc |-> "idle", run |-> NoName, pod |-> NoPod, uid |-> 0,
         phase |-> "", tries |-> 0]

ReconcilerTypeOK ==
    /\ cache \in [Runs -> RunObjects]
    /\ events \in [Runs -> Nat]
    /\ queue \in [Runs -> BOOLEAN]
    /\ timers \in [Runs -> {"off", "check", "backoff"}]
    /\ rec \in Calls
    /\ rec.pc # "idle" => rec.run \in Runs /\ rec.pod \in PodNames
    /\ certificationRuns \in [Runs -> 0 .. MaxPodID]
    /\ certSuitePodID \in 0 .. MaxPodID
    /\ restarts \in 0 .. MaxRestarts

ReconcilerInit ==
    /\ cache = [n \in Runs |-> NoRun]
    /\ events = [n \in Runs |-> 0]
    /\ queue = [n \in Runs |-> FALSE]
    /\ timers = [n \in Runs |-> "off"]
    /\ rec = Idle
    /\ certificationRuns = [n \in Runs |-> NoPod]
    /\ certSuitePodID = 0
    /\ restarts = 0

memory == <<certificationRuns, certSuitePodID, restarts>>

----------------------------------------------------------------------------
(* The informer: the cache follows the stored objects with a delay. A new  *)
(* or vanished object notifies the controller, an updated one does not     *)
(* (ignoreUpdateInCertsuiteRun drops every update event).                  *)

(* Mutant: the event filter drops the creation of an object as well. *)
notifiesOfDelete(kind) == IF kind = "delete" THEN 1 ELSE 0

notifiesOf(kind) == IF kind = "update" THEN 0 ELSE 1

Watch(n, obj, kind) ==
    /\ cache' = [cache EXCEPT ![n] = obj]
    /\ events' = [events EXCEPT ![n] = events[n] + notifiesOf(kind)]
    /\ UNCHANGED <<clusterVars, queue, timers, rec, memory>>

WatchCreate(n) == /\ ~Present(cache[n]) /\ Present(crs[n])
                  /\ Watch(n, crs[n], "create")

WatchUpdate(n) == /\ Present(cache[n]) /\ crs[n].uid = cache[n].uid
                  /\ crs[n] # cache[n]
                  /\ Watch(n, crs[n], "update")

WatchDelete(n) == /\ Present(cache[n]) /\ crs[n].uid # cache[n].uid
                  /\ Watch(n, NoRun, "delete")

(* The notification reaches the work queue, which holds a name once. *)
Deliver(n) ==
    /\ events[n] > 0
    /\ events' = [events EXCEPT ![n] = events[n] - 1]
    /\ queue' = [queue EXCEPT ![n] = TRUE]
    /\ UNCHANGED <<clusterVars, cache, timers, rec, memory>>

(* Unless the cache lags for longer than checkInterval, it shows the pod   *)
(* name that was recorded before the interval began (this form of the      *)
(* condition is exact only while no name is used twice, LagAssumption).    *)
CaughtUp(n) == Present(cache[n]) => cache[n].pod # NoPod

TimerFires(n) ==
    /\ timers[n] # "off"
    /\ timers[n] = "check" => LagBeyondInterval \/ CaughtUp(n)
    /\ timers' = [timers EXCEPT ![n] = "off"]
    /\ queue' = [queue EXCEPT ![n] = TRUE]
    /\ UNCHANGED <<clusterVars, cache, events, rec, memory>>

----------------------------------------------------------------------------
(* How a Reconcile call ends: with nothing, RequeueAfter or an error.      *)

EndCall(result) ==
    /\ rec' = Idle
    /\ timers' = IF result = "done" THEN timers
                 ELSE [timers EXCEPT ![rec.run] = result]

Take(n) == /\ rec.pc = "idle" /\ queue[n]
           /\ queue' = [queue EXCEPT ![n] = FALSE]
           /\ UNCHANGED <<clusterVars, cache, events, timers, restarts>>

(* The first lines of Reconcile: the run is gone, has a pod, or is new.    *)

Gone(n) == ~Present(cache[n])

(* Mutant: the controller's memory tells too whether a run is new. *)
IsNewOrForgotten(n) == cache[n].pod = NoPod \/ certificationRuns[n] = NoPod

IsNew(n) == cache[n].pod = NoPod

(* Mutant: the map is not asked whether it has an entry. *)
AnyEntry(n) == TRUE

HasEntry(n) == certificationRuns[n] # NoPod

ReconcileDeleted(n) ==
    /\ Take(n)
    /\ Gone(n)
    /\ rec' = IF HasEntry(n)
              THEN [Idle EXCEPT !.pc = "deletePod", !.run = n,
                                !.pod = certificationRuns[n]]
              ELSE Idle
    /\ UNCHANGED <<certificationRuns, certSuitePodID>>

ReconcileEnd(n) ==
    /\ Take(n)
    /\ ~Gone(n) /\ ~IsNew(n)
    /\ rec' = [Idle EXCEPT !.pc = "getPod", !.run = n, !.pod = cache[n].pod]
    /\ UNCHANGED <<certificationRuns, certSuitePodID>>

(* Mutant: pods are numbered by the runs in the map. *)
NextByCount == Cardinality({n \in Runs : certificationRuns[n] # NoPod}) + 1

NextPodID == certSuitePodID + 1

ReconcileNew(n) ==
    /\ Take(n)
    /\ ~Gone(n) /\ IsNew(n)
    /\ NextPodID <= MaxPodID
    /\ certSuitePodID' = NextPodID
    /\ certificationRuns' = [certificationRuns EXCEPT ![n] = NextPodID]
    /\ rec' = [pc |-> "updateStatus", run |-> n, pod |-> NextPodID,
               uid |-> cache[n].uid, phase |-> "CertSuiteDeploying",
               tries |-> RetrySteps]

(* The pod of a deleted run is deleted by name. An error is only logged:   *)
(* the map entry goes in any case.                                         *)
DeleteJobPod ==
    /\ rec.pc = "deletePod"
    /\ \/ /\ pods' = IF Exists(rec.pod)
                     THEN [pods EXCEPT ![rec.pod].terminating = TRUE] ELSE pods
          /\ UNCHANGED failures
       \/ CallFails /\ UNCHANGED pods
    /\ certificationRuns' = [certificationRuns EXCEPT ![rec.run] = NoPod]
    /\ EndCall("done")
    /\ UNCHANGED <<crs, gen, cache, events, queue, certSuitePodID, restarts>>

----------------------------------------------------------------------------
(* updateStatus: read the object from the cache, set the phase (and, with  *)
(* phase CertSuiteRunning, the pod name), send the whole status; again     *)
(* after a conflict, with what the cache then holds.                       *)

updateStatus(phase) ==
    [rec EXCEPT !.pc = "updateStatus", !.phase = phase, !.tries = RetrySteps]

(* Mutant: the status that is sent holds nothing but what is being set. *)
BareTarget == [NoRun EXCEPT !.uid = cache[rec.run].uid, !.rv = cache[rec.run].rv,
                            !.phase = rec.phase,
                            !.pod = IF rec.phase = "CertSuiteRunning"
                                    THEN rec.pod ELSE cache[rec.run].pod]

Target == LET cr == cache[rec.run] IN
          IF rec.phase = "CertSuiteRunning"
          THEN [cr EXCEPT !.phase = rec.phase, !.pod = rec.pod]
          ELSE [cr EXCEPT !.phase = rec.phase]

Conflict == /\ Present(cache[rec.run]) /\ Present(crs[rec.run])
            /\ ~Current(rec.run, Target)

UpdateAccepted == /\ Present(cache[rec.run])
                  /\ Current(rec.run, Target)
                  /\ StatusAccepted(Target)

(* What Reconcile does after the update of each phase.                     *)
AfterUpdate ==
    CASE rec.phase = "CertSuiteDeploying" ->
             rec' = [rec EXCEPT !.pc = "createPod"] /\ UNCHANGED timers
      [] rec.phase = "CertSuiteRunning" -> EndCall("check")
      [] OTHER -> EndCall("done")

(* Only handleEndOfCnfCertSuiteRun returns the error to be retried.        *)
(* Mutants: every failed update is retried, or none is. *)
AlwaysRetry == EndCall("backoff")
NeverRetry == EndCall("done")

AfterFailedUpdate ==
    IF rec.phase \in {"CertSuiteFinished", "CertSuiteError", "CertSuiteTimeout"}
    THEN EndCall("backoff") ELSE EndCall("done")

(* Mutant: the object taken from the cache is changed in place. *)
InUpdateInPlace ==
    /\ rec.pc = "updateStatus"
    /\ cache' = IF Present(cache[rec.run])
                THEN [cache EXCEPT ![rec.run] = Target] ELSE cache
    /\ UNCHANGED <<gen, pods, events, queue, memory>>

InUpdate == /\ rec.pc = "updateStatus"
            /\ UNCHANGED <<gen, pods, cache, events, queue, memory>>

UpdateStored ==
    /\ InUpdate /\ UpdateAccepted
    /\ crs' = Stored(rec.run, Target)
    /\ \/ AfterUpdate /\ UNCHANGED failures
       \/ CallFails /\ AfterFailedUpdate

UpdateRetried ==
    /\ InUpdate /\ Conflict
    /\ rec.tries > 1
    /\ rec' = [rec EXCEPT !.tries = rec.tries - 1]
    /\ UNCHANGED <<crs, failures, timers>>

UpdateFailed ==
    /\ InUpdate
    /\ \/ ~UpdateAccepted /\ ~(Conflict /\ rec.tries > 1) /\ UNCHANGED failures
       \/ CallFails
    /\ AfterFailedUpdate
    /\ UNCHANGED crs

----------------------------------------------------------------------------
(* The pod is created with the name taken above; the API server refuses a  *)
(* name in use. Whatever fails leads to one update to CertSuiteDeployError.*)

InCreate == /\ rec.pc = "createPod"
            /\ UNCHANGED <<crs, gen, cache, events, queue, timers, memory>>

PodStored == [pods EXCEPT ![rec.pod] = NewJobPod(rec.run, rec.uid)]

PodCreated ==
    /\ InCreate
    /\ ~Exists(rec.pod)
    /\ pods' = PodStored
    /\ rec' = updateStatus("CertSuiteRunning")
    /\ UNCHANGED failures

PodNotCreated ==
    /\ InCreate
    /\ \/ Exists(rec.pod) /\ UNCHANGED <<pods, failures>>
       \/ CallFails /\ UNCHANGED pods
       \/ CallFails /\ ~Exists(rec.pod) /\ pods' = PodStored
    /\ rec' = updateStatus("CertSuiteDeployError")

----------------------------------------------------------------------------
(* handleEndOfCnfCertSuiteRun. The container status is looked up by the    *)
(* index the container has in the pod's specification.                     *)

SpecIndex(name) == CHOOSE i \in DOMAIN SpecContainers : SpecContainers[i] = name

getContainerStatus(p, name) == pods[p].status[StatusOrder[SpecIndex(name)]]

Observed(p) == getContainerStatus(p, "certsuite")

InGetPod == /\ rec.pc = "getPod"
            /\ UNCHANGED <<crs, gen, pods, cache, events, queue, memory>>

(* The pod cannot be read, or its container has neither started nor        *)
(* terminated: no status yet is an error, and Running being nil a panic    *)
(* that controller-runtime turns into an error.                            *)
PodUnreadable ==
    /\ InGetPod
    /\ \/ ~Exists(rec.pod) /\ UNCHANGED failures
       \/ Exists(rec.pod) /\ Observed(rec.pod) = "waiting" /\ UNCHANGED failures
       \/ CallFails
    /\ EndCall("backoff")

PodRunning ==
    /\ InGetPod
    /\ Exists(rec.pod) /\ Observed(rec.pod) = "running"
    /\ IF pods[rec.pod].overdue
       THEN rec' = updateStatus("CertSuiteTimeout") /\ UNCHANGED timers
       ELSE EndCall("check")
    /\ UNCHANGED failures

EndPhase(state) == IF state = "exit0" THEN "CertSuiteFinished" ELSE "CertSuiteError"

PodFinished ==
    /\ InGetPod
    /\ Exists(rec.pod) /\ Observed(rec.pod) \in {"exit0", "exit1"}
    /\ rec' = updateStatus(EndPhase(Observed(rec.pod)))
    /\ UNCHANGED <<failures, timers>>

----------------------------------------------------------------------------
(* The process restarts: its memory is lost, the informer lists the stored *)
(* objects before the worker starts, and each of them is notified as new.  *)
Restart ==
    /\ restarts < MaxRestarts
    /\ restarts' = restarts + 1
    /\ cache' = crs
    /\ events' = [n \in Runs |-> IF Present(crs[n]) THEN 1 ELSE 0]
    /\ queue' = [n \in Runs |-> FALSE]
    /\ timers' = [n \in Runs |-> "off"]
    /\ rec' = Idle
    /\ certificationRuns' = [n \in Runs |-> NoPod]
    /\ certSuitePodID' = 0
    /\ UNCHANGED clusterVars

CallNext == \/ DeleteJobPod
            \/ UpdateStored \/ UpdateRetried \/ UpdateFailed
            \/ PodCreated \/ PodNotCreated
            \/ PodUnreadable \/ PodRunning \/ PodFinished

ReconcilerNext ==
    \/ \E n \in Runs :
          \/ WatchCreate(n) \/ WatchUpdate(n) \/ WatchDelete(n)
          \/ Deliver(n) \/ TimerFires(n)
          \/ ReconcileDeleted(n) \/ ReconcileEnd(n) \/ ReconcileNew(n)
    \/ CallNext
    \/ Restart
=============================================================================
