------------------------------ MODULE Cluster ------------------------------
(***************************************************************************)
(* What the operator and the sidecar share: the CertsuiteRun objects and   *)
(* the pods kept by the Kubernetes API server, and what the user, the      *)
(* kubelet, the garbage collector and the test suite container do to them. *)
(* The shape of the objects, the phases the API server accepts and the     *)
(* pod's containers are translated from src/; how the API server and the   *)
(* kubelet behave is modelled from how the code uses them.                 *)
(***************************************************************************)
EXTENDS Integers, Sequences, FiniteSets

CONSTANTS
    Runs,        \* names of CertsuiteRun objects, all in one namespace
    NoName,      \* stands for "no run"
    MaxGen,      \* bound: how often an object of one name may be created
    MaxPodID,    \* bound: the highest pod number
    MaxFailures, \* bound: API calls of the operator and the sidecar that fail
    StuckPods,   \* pods whose containers never start (no node, image or volume)
    SlowPods,    \* pods that may run for longer than timeout + safe guard
    Evictable,   \* pods that something else than the operator may delete
    ClaimKinds,  \* what a complete claim file may hold
    StatusOrder  \* the order of pod.Status.ContainerStatuses

(* The pod named "certsuite-job-run-<k>" is the number k. *)
PodNames == 1 .. MaxPodID
NoPod == 0

(* The containers of a job pod, in the order its specification lists them. *)
SpecContainers == <<"certsuite-sidecar", "certsuite">>
Containers == {"certsuite", "certsuite-sidecar"}
ContainerStates == {"waiting", "running", "exit0", "exit1"}
Claims == {"none", "partial", "valid", "rejected"}

Phases == {"", "CertSuiteDeploying", "CertSuiteDeployError", "CertSuiteRunning",
           "CertSuiteTimeout", "CertSuiteFinished", "CertSuiteError"}

ASSUME RunsAssumption == NoName \notin Runs
ASSUME BoundsAssumption == /\ MaxGen \in Nat
                           /\ MaxPodID \in Nat
                           /\ MaxFailures \in Nat
ASSUME ClaimsAssumption == ClaimKinds \subseteq {"valid", "rejected"}
ASSUME OrderAssumption == StatusOrder \in [1 .. 2 -> Containers]

VARIABLES
    crs,      \* the CertsuiteRun object stored under each name
    gen,      \* how many objects were created under each name
    pods,     \* the pod stored under each name
    failures  \* how many API calls have failed so far

clusterVars == <<crs, gen, pods, failures>>

----------------------------------------------------------------------------
(* A CertsuiteRun object: its uid (0: there is no object), its resource    *)
(* version and its status. "report" is the uid of the object for which the *)
(* pod that wrote the report was created, 0 while there is no report.      *)
RunObjects == [uid : 0 .. MaxGen, rv : Nat, phase : Phases,
               pod : 0 .. MaxPodID, report : 0 .. MaxGen]

NoRun == [uid |-> 0, rv |-> 0, phase |-> "", pod |-> NoPod, report |-> 0]

Present(obj) == obj.uid # 0

(* A pod: the run it was created for, the uid in its owner reference       *)
(* (0: there is no pod), the state of its containers, the claim file in    *)
(* their shared volume, the object the sidecar read and has yet to write   *)
(* back, and whether the suite has overrun its timeout.                    *)
Pods == [run : Runs \cup {NoName}, owner : 0 .. MaxGen,
         status : [Containers -> ContainerStates], claim : Claims,
         read : RunObjects, overdue : BOOLEAN, terminating : BOOLEAN]

AbsentPod == [run |-> NoName, owner |-> 0,
              status |-> [c \in Containers |-> "waiting"], claim |-> "none",
              read |-> NoRun, overdue |-> FALSE, terminating |-> FALSE]

NewJobPod(n, uid) == [AbsentPod EXCEPT !.run = n, !.owner = uid]

Exists(p) == pods[p].owner # 0

ClusterTypeOK ==
    /\ crs \in [Runs -> RunObjects]
    /\ gen \in [Runs -> 0 .. MaxGen]
    /\ pods \in [PodNames -> Pods]
    /\ \A p \in PodNames : Exists(p) => pods[p].run \in Runs
    /\ failures \in 0 .. MaxFailures

ClusterInit ==
    /\ crs = [n \in Runs |-> NoRun]
    /\ gen = [n \in Runs |-> 0]
    /\ pods = [p \in PodNames |-> AbsentPod]
    /\ failures = 0

----------------------------------------------------------------------------
(* The API server's side of a status update: the object that is sent must  *)
(* carry the stored uid and resource version, and its status must satisfy  *)
(* the schema of the custom resource. A write that changes nothing does    *)
(* not move the resource version.                                          *)

AcceptedPhases == {"CertSuiteDeploying", "CertSuiteDeployFailure", "CertSuiteRunning",
                   "CertSuiteFinished", "CertSuiteError"}

StatusAccepted(obj) == obj.phase \in AcceptedPhases

Current(n, obj) == /\ Present(crs[n])
                   /\ obj.uid = crs[n].uid
                   /\ obj.rv = crs[n].rv

Stored(n, obj) ==
    [crs EXCEPT ![n] = IF obj = crs[n] THEN obj ELSE [obj EXCEPT !.rv = obj.rv + 1]]

(* An API call that fails for a reason of its own, within the bound. *)
CallFails == failures < MaxFailures /\ failures' = failures + 1

----------------------------------------------------------------------------
(* The user. *)

CreateRun(n) ==
    /\ ~Present(crs[n])
    /\ gen[n] < MaxGen
    /\ gen' = [gen EXCEPT ![n] = gen[n] + 1]
    /\ crs' = [crs EXCEPT ![n] = [NoRun EXCEPT !.uid = gen[n] + 1, !.rv = 1]]
    /\ UNCHANGED <<pods, failures>>

DeleteRun(n) ==
    /\ Present(crs[n])
    /\ crs' = [crs EXCEPT ![n] = NoRun]
    /\ UNCHANGED <<gen, pods, failures>>

----------------------------------------------------------------------------
(* The kubelet and the suite container. *)

ChangePod(p, pod) ==
    /\ pods' = [pods EXCEPT ![p] = pod]
    /\ UNCHANGED <<crs, gen, failures>>

Running(p, c) == Exists(p) /\ pods[p].status[c] = "running"

StartPod(p) ==
    /\ p \notin StuckPods
    /\ Exists(p) /\ ~pods[p].terminating
    /\ pods[p].status["certsuite"] = "waiting"
    /\ pods[p].status["certsuite-sidecar"] = "waiting"
    /\ ChangePod(p, [pods[p] EXCEPT !.status = [c \in Containers |-> "running"]])

(* The claim file appears, and its content is complete some time later. *)
WriteClaim(p) ==
    /\ Running(p, "certsuite")
    /\ \/ /\ pods[p].claim = "none"
          /\ ChangePod(p, [pods[p] EXCEPT !.claim = "partial"])
       \/ /\ pods[p].claim = "partial"
          /\ \E kind \in ClaimKinds : ChangePod(p, [pods[p] EXCEPT !.claim = kind])

(* The suite succeeds after it wrote its claim; it may fail at any time. *)
SuiteExit(p) ==
    /\ Running(p, "certsuite")
    /\ \/ /\ pods[p].claim \in ClaimKinds
          /\ ChangePod(p, [pods[p] EXCEPT !.status["certsuite"] = "exit0"])
       \/ ChangePod(p, [pods[p] EXCEPT !.status["certsuite"] = "exit1"])

(* The pod's containers have run for longer than timeout + safe guard. *)
Expire(p) ==
    /\ p \in SlowPods
    /\ \E c \in Containers : Running(p, c)
    /\ ~pods[p].overdue
    /\ ChangePod(p, [pods[p] EXCEPT !.overdue = TRUE])

----------------------------------------------------------------------------
(* Deletion of a pod: it is marked, its containers are killed, it goes. *)

(* The owner reference names an object that is no longer there. *)
CollectGarbage(p) ==
    /\ Exists(p) /\ ~pods[p].terminating
    /\ crs[pods[p].run].uid # pods[p].owner
    /\ ChangePod(p, [pods[p] EXCEPT !.terminating = TRUE])

EvictPod(p) ==
    /\ p \in Evictable
    /\ Exists(p) /\ ~pods[p].terminating
    /\ ChangePod(p, [pods[p] EXCEPT !.terminating = TRUE])

(* The pod's running containers are killed, the sidecar's memory goes. *)
KillContainers(p) ==
    /\ pods[p].terminating
    /\ \E c \in Containers : Running(p, c)
    /\ ChangePod(p, [pods[p] EXCEPT
            !.status = [c \in Containers |->
                           IF Running(p, c) THEN "exit1" ELSE pods[p].status[c]],
            !.read = NoRun])

RemovePod(p) ==
    /\ Exists(p) /\ pods[p].terminating
    /\ \A c \in Containers : ~Running(p, c)
    /\ ChangePod(p, AbsentPod)

ClusterNext ==
    \/ \E n \in Runs : CreateRun(n) \/ DeleteRun(n)
    \/ \E p \in PodNames :
          \/ StartPod(p) \/ WriteClaim(p) \/ SuiteExit(p) \/ Expire(p)
          \/ CollectGarbage(p) \/ EvictPod(p) \/ KillContainers(p) \/ RemovePod(p)
=============================================================================
