-------------------------- MODULE CertsuiteOperator --------------------------
(***************************************************************************)
(* The whole system: the controller and the sidecars of the pods it        *)
(* creates, which meet only in the API server.                             *)
(***************************************************************************)
EXTENDS RunReconciler, Sidecar

vars == <<clusterVars, reconcilerVars>>

Init == ClusterInit /\ ReconcilerInit

Next == \/ ClusterNext /\ UNCHANGED reconcilerVars
        \/ SidecarNext /\ UNCHANGED reconcilerVars
        \/ ReconcilerNext

Spec == Init /\ [][Next]_vars

(* Fairness. The informer, the event handler and the timers of the work    *)
(* queue are goroutines that always run; the worker takes the names of a   *)
(* FIFO queue, so a name that stays queued is taken although others are    *)
(* queued again and again; a call in progress goes on. Nothing is assumed  *)
(* of the user, the pods or the garbage collector.                         *)
Informs(n) == WatchCreate(n) \/ WatchUpdate(n) \/ WatchDelete(n)

Starts(n) == ReconcileDeleted(n) \/ ReconcileEnd(n) \/ ReconcileNew(n)

Fairness == /\ \A n \in Runs : /\ WF_vars(Informs(n))
                               /\ WF_vars(Deliver(n))
                               /\ WF_vars(TimerFires(n))
                               /\ SF_vars(Starts(n))
            /\ WF_vars(CallNext)

FairSpec == Spec /\ Fairness

----------------------------------------------------------------------------
(* Every variable has its type; a call in progress names a run and a pod.  *)
TypeOK == ClusterTypeOK /\ ReconcilerTypeOK

----------------------------------------------------------------------------
(* Safety.                                                                 *)

(* A copy of an object that carries the stored uid and resource version is *)
(* the stored object: what the controller's cache and the sidecar's memory *)
(* need for optimistic locking to protect what others wrote.               *)
Faithful(n, obj) == Current(n, obj) => obj = crs[n]

CopiesFaithful ==
    /\ \A n \in Runs : Faithful(n, cache[n])
    /\ \A p \in PodNames : Exists(p) => Faithful(pods[p].run, pods[p].read)

(* Why it holds: a copy is never newer than the stored object, so no later *)
(* version can take the resource version of a copy; and uids only grow.    *)
CopyOf(copy, obj, uids) ==
    /\ copy.uid <= uids
    /\ Present(obj) /\ copy.uid = obj.uid =>
           copy.rv <= obj.rv /\ (copy.rv = obj.rv => copy = obj)

CopiesInv ==
    /\ \A n \in Runs : crs[n].uid <= gen[n] /\ CopyOf(cache[n], crs[n], gen[n])
    /\ \A p \in PodNames : Exists(p) =>
           LET n == pods[p].run IN CopyOf(pods[p].read, crs[n], gen[n])

(* The controller and the sidecars each send the WHOLE status of the same  *)
(* object, read some time before: whatever the interleaving, a report and  *)
(* a pod name that were stored are still there as long as the object is.   *)
SameObject(n) == Present(crs[n]) /\ crs'[n].uid = crs[n].uid

StatusKept ==
    [][\A n \in Runs : SameObject(n) =>
          /\ crs[n].report # 0 => crs'[n].report # 0
          /\ crs[n].pod # NoPod => crs'[n].pod # NoPod]_vars

(* When a run shows CertSuiteFinished its report is already there, although*)
(* the phase is written by the controller and the report by the sidecar.   *)
FinishedHasReport ==
    \A n \in Runs : crs[n].phase = "CertSuiteFinished" => crs[n].report # 0

(* Pod names are counted and remembered in memory only. As long as the     *)
(* process has not restarted, or with a single run, no two runs share one. *)
OneName == \A m, n \in Runs : m = n

NamesApart == restarts = 0 \/ OneName

(* A pod the controller is about to delete, by a name it remembered, was   *)
(* created for the run that was deleted, and not for the object that may   *)
(* by now be stored under the same name.                                   *)
DeletesOnlyOwnPod ==
    rec.pc = "deletePod" /\ Exists(rec.pod)
        => /\ pods[rec.pod].run = rec.run
           /\ pods[rec.pod].owner # crs[rec.run].uid

(* What holds of it in every process: such a pod never belongs to the      *)
(* object stored now under the deleted run's name; and while names are     *)
(* apart it is a pod of that run at all.                                   *)
DeletesOwnPod ==
    rec.pc = "deletePod" /\ Exists(rec.pod)
        => /\ NamesApart => pods[rec.pod].run = rec.run
           /\ pods[rec.pod].run = rec.run => pods[rec.pod].owner # crs[rec.run].uid

(* Why it holds. A uid the controller has worked with is one its cache     *)
(* shows for as long as the object is stored.                              *)
KnownUid(n, uid) ==
    /\ uid <= gen[n]
    /\ uid # 0 /\ uid = crs[n].uid => cache[n].uid = uid

UidsInv ==
    /\ \A p \in PodNames : Exists(p) => KnownUid(pods[p].run, pods[p].owner)
    /\ rec.pc # "idle" => KnownUid(rec.run, rec.uid)

OwnersInv ==
    rec.pc = "deletePod" /\ Exists(rec.pod) /\ pods[rec.pod].run = rec.run
        => pods[rec.pod].owner # crs[rec.run].uid

(* While names are apart, no two runs have the same name in the map, a     *)
(* name in the map belongs to a pod of that run, and no pod of the first   *)
(* process has a name yet to come.                                         *)
NeedsName(call) ==
    \/ call.pc \in {"createPod", "deletePod"}
    \/ call.pc = "updateStatus" /\ call.phase = "CertSuiteDeploying"

NamesInv ==
    /\ \A n \in Runs : certificationRuns[n] <= certSuitePodID
    /\ \A m, n \in Runs :
           certificationRuns[m] = certificationRuns[n] /\ HasEntry(n) => m = n
    /\ \A n \in Runs : HasEntry(n) /\ Exists(certificationRuns[n])
                           => pods[certificationRuns[n]].run = n
    /\ restarts = 0 => \A p \in PodNames : Exists(p) => p <= certSuitePodID
    /\ NeedsName(rec) => certificationRuns[rec.run] = rec.pod

PodsInv == UidsInv /\ OwnersInv /\ (NamesApart => NamesInv)

(* One object never has two pods at work, whichever calls fail; a single   *)
(* run not even after restarts (unless the cache lags for longer than      *)
(* checkInterval). With several, a restart may give a run a second pod.    *)
PodsAtWork(n) == {p \in PodNames : /\ Exists(p) /\ ~pods[p].terminating
                                   /\ pods[p].run = n
                                   /\ pods[p].owner = crs[n].uid}

OnePodAtWork ==
    NamesApart => \A n \in Runs : \A p, q \in PodsAtWork(n) : p = q

(* No wake-up is lost. Updates are filtered out and nothing lists the      *)
(* objects again: a run that was not dispatched by this process and has no *)
(* pod, or one whose pod has not been seen to end, is looked at again only *)
(* if something in the process still holds its name. A run may be dropped  *)
(* in one case: a call failed after this process dispatched it.            *)
EndPhases == {"CertSuiteFinished", "CertSuiteError"}

NeedsWork(n) ==
    /\ Present(crs[n])
    /\ IF crs[n].pod = NoPod THEN ~HasEntry(n) ELSE crs[n].phase \notin EndPhases

Recalled(n) ==
    \/ cache[n].uid # crs[n].uid
    \/ events[n] > 0 \/ queue[n] \/ timers[n] # "off"
    \/ rec.pc # "idle" /\ rec.run = n

NoneForgotten ==
    \A n \in Runs : NeedsWork(n) => Recalled(n) \/ (failures > 0 /\ HasEntry(n))

----------------------------------------------------------------------------
(* Refinement: each object, as its user sees it, goes through its phases   *)
(* in order. Whatever fails, conflicts or arrives late, a phase is never   *)
(* shown again after a later one, the pod name appears with                *)
(* CertSuiteRunning, a report is never replaced or added after the end,    *)
(* and CertSuiteFinished is shown only with the report. A single name      *)
(* keeps the order across a restart too; two may not, see the README.      *)
Seen(n) == INSTANCE RunLifecycle
           WITH exists   <- Present(crs[n]),
                phase    <- crs[n].phase,
                recorded <- crs[n].pod # NoPod,
                report   <- crs[n].report # 0

LifecycleStep(n) == Seen(n)!Next \/ UNCHANGED Seen(n)!object

(* The conjunction of Seen(n)!Spec for every run n.                        *)
FollowsLifecycle == /\ \A n \in Runs : Seen(n)!Init
                    /\ [][\A n \in Runs : LifecycleStep(n)]_vars

----------------------------------------------------------------------------
(* Liveness, under FairSpec.                                               *)

(* A run that is created gets a pod of its own, unless it is deleted.      *)
HasOwnPod(n) == \E p \in PodNames : /\ pods[p].run = n
                                    /\ pods[p].owner = crs[n].uid

GetsItsPod ==
    \A n \in Runs : Present(crs[n]) ~> HasOwnPod(n) \/ ~Present(crs[n])

(* When the container the controller looks at has terminated, the run's    *)
(* phase says so in the end, through conflicts, cache lag and restarts,    *)
(* as long as the object and its pod are there.                            *)
PodEnded(n) == /\ crs[n].pod # NoPod
               /\ Exists(crs[n].pod)
               /\ Observed(crs[n].pod) \in {"exit0", "exit1"}

EndsAreNoticed ==
    \A n \in Runs : PodEnded(n) ~> crs[n].phase \in EndPhases \/ ~PodEnded(n)

----------------------------------------------------------------------------
(* What documentation and comments say, and the code does not do.          *)

(* The phase CertSuiteTimeout is there for a pod that runs for too long    *)
(* (definitions.go:9): an overdue run shows it, unless it ends after all.  *)
Overdue(n) == /\ crs[n].pod # NoPod
              /\ Exists(crs[n].pod) /\ pods[crs[n].pod].overdue
              /\ Observed(crs[n].pod) = "running"

TimeoutIsReported ==
    \A n \in Runs : Overdue(n) ~> crs[n].phase = "CertSuiteTimeout" \/ ~Overdue(n)

(* "check if pod's certsuite container has finished running" (line 158 of  *)
(* the controller): a suite that fails before it writes its claim is shown *)
(* as ended, as long as its object and its pod are there.                  *)
FailedEarly(n) == LET p == crs[n].pod IN
    /\ p # NoPod /\ Exists(p)
    /\ pods[p].status["certsuite"] = "exit1" /\ pods[p].claim = "none"

EarlyFailureIsNoticed ==
    \A n \in Runs : FailedEarly(n) ~> crs[n].phase \in EndPhases \/ ~FailedEarly(n)

(* "CnfCertSuitePodName holds the name of the pod where the CNF            *)
(* Certification Suite app is running" (certsuiterun_types.go:83): the     *)
(* name of a run's pod is recorded while the run and the pod are there.    *)
Unrecorded(n, p) == /\ Running(p, "certsuite") /\ pods[p].run = n
                    /\ pods[p].owner = crs[n].uid
                    /\ crs[n].pod = NoPod

PodIsRecorded ==
    \A n \in Runs, p \in PodNames : Unrecorded(n, p) ~> ~Unrecorded(n, p)

(* "Report holds the results and information related to the CNF            *)
(* Certification Suite run" (certsuiterun_types.go:85): the report of an   *)
(* object comes from a pod that was created for that object.               *)
ReportIsOwn == \A n \in Runs : crs[n].report \in {0, crs[n].uid}
=============================================================================
