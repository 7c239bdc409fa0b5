---------------------------- MODULE Dispatch_proofs ----------------------------
(***************************************************************************)
(* Proofs about the dispatch of runs, while the cache does not lag for     *)
(* longer than checkInterval and no name is used twice (LagAssumption): no *)
(* run is forgotten, for any number of runs, failing calls and restarts,   *)
(* and no object has two pods at work. They follow the history of one name *)
(* in the running process: unused, not yet dispatched, inherited with its  *)
(* pod from an earlier process, dispatched once.                           *)
(***************************************************************************)
EXTENDS CertsuiteOperator_proofs

Known(n) == Present(crs[n]) \/ Present(cache[n])

Recorded(n) == \/ Present(crs[n]) /\ crs[n].pod # NoPod
               \/ Present(cache[n]) /\ cache[n].pod # NoPod

CallFor(n) == rec.pc # "idle" /\ rec.run = n

(* The call in progress looks after the run's pod, or starts one.          *)
Looking ==
    \/ rec.pc = "getPod"
    \/ /\ rec.pc = "updateStatus"
       /\ rec.phase \in {"CertSuiteFinished", "CertSuiteError", "CertSuiteTimeout"}

LooksAfter(n) == rec.run = n /\ Looking

Dispatching(n) == /\ rec.run = n /\ rec.pc \in {"createPod", "updateStatus"}
                  /\ ~Looking

(* Nothing has ever been stored under the name.                            *)
Unused(n) ==
    gen[n] = 0 =>
        /\ ~HasEntry(n) /\ events[n] = 0 /\ ~queue[n] /\ timers[n] = "off"
        /\ ~CallFor(n)
        /\ \A p \in PodNames : Exists(p) => pods[p].run # n

(* The object is stored and not dispatched: its one notification is        *)
(* somewhere between the API server and the worker.                        *)
Announced(n) == \/ ~Present(cache[n]) /\ events[n] = 0 /\ ~queue[n]
                \/ Present(cache[n]) /\ events[n] = 1 /\ ~queue[n]
                \/ Present(cache[n]) /\ events[n] = 0 /\ queue[n]

Fresh(n) ==
    Known(n) /\ ~HasEntry(n) /\ ~Recorded(n) =>
        Announced(n) /\ timers[n] = "off" /\ ~CallFor(n)

(* An earlier process recorded the pod: this one only looks after it.      *)
Inherited(n) ==
    Known(n) /\ ~HasEntry(n) /\ Recorded(n) =>
        /\ Present(cache[n]) /\ cache[n].pod # NoPod
        /\ Present(crs[n]) => crs[n].pod # NoPod
        /\ CallFor(n) => LooksAfter(n)

(* The object was dispatched: whatever brings its name back to the queue   *)
(* comes after the cache shows the pod's name.                             *)
Dispatched(n) ==
    Known(n) /\ HasEntry(n) =>
        /\ events[n] = 0 /\ Present(cache[n])
        /\ queue[n] \/ timers[n] = "backoff" \/ LooksAfter(n) => cache[n].pod # NoPod
        /\ Present(crs[n]) => /\ cache[n].pod # NoPod => crs[n].pod # NoPod
                              /\ Dispatching(n) => crs[n].pod = NoPod
        /\ ~(rec.pc = "deletePod" /\ rec.run = n)

(* A run whose pod is recorded is polled until its end is shown, unless a  *)
(* call failed after this process dispatched it.                           *)
Polls(n) == events[n] > 0 \/ queue[n] \/ timers[n] # "off" \/ LooksAfter(n)

Polled(n) ==
    /\ Present(crs[n]) /\ crs[n].pod # NoPod /\ crs[n].phase \notin EndPhases
    /\ failures = 0 \/ ~HasEntry(n)
    => Polls(n)

History(n) == Unused(n) /\ Fresh(n) /\ Inherited(n) /\ Dispatched(n) /\ Polled(n)

HistoryInv == \A n \in Runs : History(n)

(* In the first process a stored run has no other pod than the one that is *)
(* remembered for it.                                                      *)
OnlyPod(n) == Present(crs[n]) =>
    \A p \in PodNames : Exists(p) /\ pods[p].run = n => p = certificationRuns[n]

OnlyPodInv == restarts = 0 => \A n \in Runs : OnlyPod(n)

(* A single run takes the first name or none in every process, so that its *)
(* pod has the same name in all of them.                                   *)
FirstPod ==
    /\ certSuitePodID <= 1
    /\ \A p \in PodNames : Exists(p) => p = 1
    /\ certSuitePodID = 1 =>
           \A n \in Runs : HasEntry(n) \/ (~Known(n) /\ gen[n] # 0)

FirstPodInv == OneName => FirstPod

USE BoundsAssumption, RunsAssumption DEF BoundsAssumption, RunsAssumption

----------------------------------------------------------------------------
(* The state before a step.                                                *)
Before ==
    /\ TypeOK /\ TypeOK' /\ CopiesInv /\ HistoryInv /\ [Next]_vars
    /\ MaxGen <= 1 /\ ~LagBeyondInterval

(* A name that is used at most once has an object with uid 1, or none.     *)
LEMMA UsedOnce ==
    ASSUME TypeOK, CopiesInv, MaxGen <= 1, NEW n \in Runs
    PROVE  /\ gen[n] \in {0, 1}
           /\ crs[n].uid \in {0, 1} /\ cache[n].uid \in {0, 1}
           /\ Known(n) => gen[n] = 1
<1>1. /\ gen[n] \in Nat /\ gen[n] <= MaxGen
      /\ crs[n].uid \in Nat /\ cache[n].uid \in Nat
    BY DEF TypeOK, ClusterTypeOK, ReconcilerTypeOK, RunObjects
<1>2. crs[n].uid <= gen[n] /\ cache[n].uid <= gen[n]
    BY DEF CopiesInv, CopyOf
<1>3. gen[n] \in {0, 1} /\ crs[n].uid \in {0, 1} /\ cache[n].uid \in {0, 1}
    BY <1>1, <1>2
<1>4. Present(crs[n]) \/ Present(cache[n]) => gen[n] = 1
    BY <1>1, <1>2, <1>3 DEF Present
<1> QED BY <1>3, <1>4 DEF Known

(* A pod of a run was there before, or the call creates it.                *)
LEMMA PodsOfAName ==
    ASSUME TypeOK, [Next]_vars, NEW n \in Runs, NEW p \in PodNames,
           pods'[p].owner # 0, pods'[p].run = n
    PROVE  \/ Exists(p) /\ pods[p].run = n
           \/ rec.pc = "createPod" /\ rec.run = n /\ p = rec.pod
BY StepsOfThePods DEF PodStays, PodIsNew

(* Failures are counted.                                                   *)
LEMMA FailuresCounted ==
    ASSUME TypeOK, [Next]_vars, failures' = 0
    PROVE  failures = 0
<1>1. failures \in Nat
    BY DEF TypeOK, ClusterTypeOK
<1>2. ~CallFails
    BY <1>1 DEF CallFails
<1>3. CASE ClusterNext
    BY <1>3 DEF ClusterNext, CreateRun, DeleteRun, StartPod, WriteClaim, SuiteExit,
                Expire, CollectGarbage, EvictPod, KillContainers, RemovePod, ChangePod
<1>4. CASE SidecarNext
    BY <1>2, <1>4 DEF SidecarNext, SidecarRead, SidecarUpdate
<1>5. CASE ReconcilerNext
    BY <1>2, <1>5
    DEF ReconcilerNext, CallNext, WatchCreate, WatchUpdate, WatchDelete,
        Watch, Deliver, TimerFires, ReconcileDeleted, ReconcileEnd, ReconcileNew,
        Take, DeleteJobPod, UpdateStored, UpdateRetried, UpdateFailed, InUpdate,
        PodCreated, PodNotCreated, InCreate, PodUnreadable, PodRunning,
        PodFinished, InGetPod, Restart, clusterVars
<1> QED BY <1>3, <1>4, <1>5 DEF Next, vars, clusterVars

(* A step that leaves the name alone: what the system knows of it stays.   *)
Kept(n) ==
    /\ gen'[n] = gen[n] /\ cache'[n] = cache[n] /\ events'[n] = events[n]
    /\ queue'[n] = queue[n] /\ timers'[n] = timers[n]
    /\ certificationRuns'[n] = certificationRuns[n]
    /\ \/ crs'[n] = crs[n]
       \/ /\ crs'[n].uid = crs[n].uid /\ crs'[n].pod = crs[n].pod
          /\ crs'[n].phase = crs[n].phase
    /\ \/ rec' = rec
       \/ ~CallFor(n) /\ (rec'.pc = "idle" \/ rec'.run # n)

LEMMA KeptHistory ==
    ASSUME Before, NEW n \in Runs, Kept(n)
    PROVE  History(n)'
<1>0. /\ TypeOK /\ [Next]_vars
      /\ Unused(n) /\ Fresh(n) /\ Inherited(n) /\ Dispatched(n) /\ Polled(n)
    BY DEF Before, HistoryInv, History
<1>1. /\ Known(n)' = Known(n) /\ Recorded(n)' = Recorded(n)
      /\ HasEntry(n)' = HasEntry(n) /\ Announced(n)' = Announced(n)
    BY DEF Kept, Known, Recorded, HasEntry, Announced, Present
<1>2. /\ CallFor(n)' = CallFor(n) /\ LooksAfter(n)' = LooksAfter(n)
      /\ Dispatching(n)' = Dispatching(n)
      /\ (rec'.pc = "deletePod" /\ rec'.run = n) = (rec.pc = "deletePod" /\ rec.run = n)
    BY DEF Kept, CallFor, LooksAfter, Looking, Dispatching
<1>3. Unused(n)'
    <2> SUFFICES ASSUME gen[n] = 0
                 PROVE  /\ ~HasEntry(n)' /\ events'[n] = 0 /\ ~queue'[n]
                        /\ timers'[n] = "off" /\ ~CallFor(n)'
                        /\ \A p \in PodNames : pods'[p].owner # 0 => pods'[p].run # n
        BY DEF Kept, Unused, Exists
    <2>1. \A p \in PodNames : pods'[p].owner # 0 => pods'[p].run # n
        BY <1>0, PodsOfAName DEF Unused, CallFor
    <2> QED BY <1>0, <1>1, <1>2, <2>1 DEF Unused, Kept
<1>4. Fresh(n)' /\ Inherited(n)'
    BY <1>0, <1>1, <1>2 DEF Fresh, Inherited, Kept, Present
<1>5. Dispatched(n)'
    BY <1>0, <1>1, <1>2 DEF Dispatched, Kept, Present
<1>6. Polled(n)'
    BY <1>0, <1>1, <1>2, FailuresCounted DEF Polled, Polls, Kept, Present
<1> QED BY <1>3, <1>4, <1>5, <1>6 DEF History

(* Once the object is forgotten, nothing is claimed of its name any more.  *)
LEMMA GoneHistory ==
    ASSUME NEW n \in Runs, ~Known(n)', gen'[n] # 0
    PROVE  History(n)'
BY DEF History, Unused, Fresh, Inherited, Dispatched, Polled, Known

----------------------------------------------------------------------------
(* The user, the kubelet, the garbage collector and the sidecars.          *)

LEMMA CreateHistory ==
    ASSUME Before, NEW n \in Runs, NEW m \in Runs, CreateRun(m), UNCHANGED reconcilerVars
    PROVE  History(n)'
<1> USE DEF reconcilerVars
<1>0. /\ crs \in [Runs -> RunObjects] /\ gen \in [Runs -> 0 .. MaxGen]
    BY DEF Before, TypeOK, ClusterTypeOK
<1>1. CASE m # n
    BY <1>0, <1>1, KeptHistory DEF CreateRun, Kept
<1>2. CASE m = n
    <2>1. gen[n] = 0 /\ ~Known(n)
        BY <1>2, UsedOnce DEF CreateRun, Before
    <2>2. Unused(n) /\ ~Present(cache[n])
        BY <2>1 DEF Before, HistoryInv, History, Known
    <2>3. gen'[n] = 1 /\ crs'[n].pod = NoPod /\ cache'[n] = cache[n]
        BY <1>0, <1>2, <2>1 DEF CreateRun, NoRun, NoPod
    <2>4. ~HasEntry(n)' /\ Unused(n)' /\ Dispatched(n)' /\ Polled(n)'
        BY <2>1, <2>2, <2>3 DEF Unused, Dispatched, HasEntry, Polled
    <2>5. ~Recorded(n)'
        BY <2>2, <2>3 DEF Recorded, Present
    <2>6. Fresh(n)' /\ Inherited(n)'
        BY <2>1, <2>2, <2>3, <2>5 DEF Unused, Fresh, Inherited, Announced, CallFor, Present
    <2> QED BY <2>4, <2>6 DEF History
<1> QED BY <1>1, <1>2

LEMMA DeleteHistory ==
    ASSUME Before, NEW n \in Runs, NEW m \in Runs, DeleteRun(m), UNCHANGED reconcilerVars
    PROVE  History(n)'
<1> USE DEF reconcilerVars
<1>0. crs \in [Runs -> RunObjects]
    BY DEF Before, TypeOK, ClusterTypeOK
<1>1. CASE m # n
    BY <1>0, <1>1, KeptHistory DEF DeleteRun, Kept
<1>2. CASE m = n
    <2>1. ~Present(crs[n])' /\ gen'[n] = gen[n] /\ gen[n] # 0 /\ Known(n)
        BY <1>0, <1>2, NoRunUid, UsedOnce DEF DeleteRun, Present, Known, Before
    <2>2. Fresh(n) /\ Inherited(n) /\ Dispatched(n)
        BY DEF Before, HistoryInv, History
    <2>3. Unused(n)' /\ Polled(n)'
        BY <2>1 DEF Unused, Polled
    <2>4. Dispatched(n)'
        BY <2>1, <2>2 DEF Dispatched, Known, HasEntry, Present, LooksAfter, Looking
    <2>5. Known(n)' => Present(cache[n])
        BY <2>1 DEF Known, Present
    <2>6. Fresh(n)'
        BY <2>1, <2>2, <2>5
        DEF Fresh, Inherited, Recorded, HasEntry, Announced, CallFor, Present
    <2>7. Inherited(n)'
        BY <2>1, <2>2, <2>5
        DEF Inherited, Recorded, HasEntry, CallFor, LooksAfter, Looking, Present
    <2> QED BY <2>3, <2>4, <2>6, <2>7 DEF History
<1> QED BY <1>1, <1>2

LEMMA PodHistory ==
    ASSUME Before, NEW n \in Runs, NEW p \in PodNames, PodStep(p), UNCHANGED reconcilerVars
    PROVE  History(n)'
<1>1. UNCHANGED <<crs, gen>>
    BY DEF PodStep, StartPod, WriteClaim, SuiteExit, Expire, CollectGarbage,
           EvictPod, KillContainers, RemovePod, ChangePod
<1> QED BY <1>1, KeptHistory DEF Kept, reconcilerVars

LEMMA SidecarHistory ==
    ASSUME Before, NEW n \in Runs, NEW p \in PodNames,
           SidecarRead(p) \/ SidecarUpdate(p), UNCHANGED reconcilerVars
    PROVE  History(n)'
<1>1. CASE crs'[n] = crs[n] /\ gen'[n] = gen[n]
    BY <1>1, KeptHistory DEF Kept, reconcilerVars
<1>2. CASE crs'[n] # crs[n] \/ gen'[n] # gen[n]
    <2>1. /\ ReportAccepted(p) /\ gen' = gen /\ Running(p, "certsuite-sidecar")
          /\ crs' = Stored(pods[p].run, WithReport(p))
        BY <1>2 DEF SidecarRead, SidecarUpdate
    <2>2. Reports(n)
        BY <1>2, <2>1, StoreSidecar DEF Before
    <2> QED BY <2>2, KeptHistory DEF Kept, Reports, reconcilerVars
<1> QED BY <1>1, <1>2

----------------------------------------------------------------------------
(* The informer, the event handler, the timers, and a new process.         *)

LEMMA InformerHistory ==
    ASSUME Before, NEW n \in Runs, NEW m \in Runs,
           WatchCreate(m) \/ WatchUpdate(m) \/ WatchDelete(m)
    PROVE  History(n)'
<1> USE DEF Watch, clusterVars, memory
<1>0. /\ cache \in [Runs -> RunObjects] /\ events \in [Runs -> Nat]
      /\ crs \in [Runs -> RunObjects]
    BY DEF Before, TypeOK, ClusterTypeOK, ReconcilerTypeOK
<1>1. CASE m # n
    BY <1>0, <1>1, KeptHistory DEF WatchCreate, WatchUpdate, WatchDelete, Kept
<1>2. UNCHANGED <<crs, gen, pods, failures, queue, timers, rec, certificationRuns>>
    BY DEF WatchCreate, WatchUpdate, WatchDelete
<1>3. UNCHANGED <<HasEntry(n), CallFor(n), LooksAfter(n), Dispatching(n)>>
    BY <1>2 DEF HasEntry, CallFor, LooksAfter, Looking, Dispatching
<1>4. Fresh(n) /\ Inherited(n) /\ Dispatched(n) /\ Polled(n)
    BY DEF Before, HistoryInv, History
<1>5. CASE m = n /\ WatchCreate(m)
    <2>1. /\ Present(crs[n]) /\ ~Present(cache[n]) /\ gen[n] = 1 /\ Known(n)
          /\ cache'[n] = crs[n] /\ events'[n] = events[n] + 1
        BY <1>0, <1>5, UsedOnce DEF WatchCreate, notifiesOf, Known, Before
    <2>2. ~HasEntry(n) /\ ~Recorded(n)
        BY <1>4, <2>1 DEF Dispatched, Inherited
    <2>3. Announced(n)' /\ timers[n] = "off" /\ ~CallFor(n) /\ crs[n].pod = NoPod
        BY <1>2, <1>4, <2>1, <2>2 DEF Fresh, Announced, Present, Recorded
    <2>4. Fresh(n)' /\ Dispatched(n)'
        BY <1>2, <1>3, <2>2, <2>3 DEF Fresh, Dispatched
    <2>5. Inherited(n)' /\ Polled(n)' /\ Unused(n)'
        BY <1>2, <2>1, <2>3 DEF Inherited, Recorded, Polled, Unused
    <2> QED BY <2>4, <2>5 DEF History
<1>6. CASE m = n /\ WatchUpdate(m)
    <2>1. /\ Present(crs[n]) /\ Present(cache[n]) /\ gen[n] = 1 /\ Known(n)
          /\ cache'[n] = crs[n] /\ events'[n] = events[n]
        BY <1>0, <1>6, UsedOnce DEF WatchUpdate, notifiesOf, Present, Known, Before
    <2>2. Announced(n)' = Announced(n)
        BY <1>2, <2>1 DEF Announced, Present
    <2>3. Fresh(n)'
        BY <1>2, <1>3, <1>4, <2>1, <2>2 DEF Fresh, Inherited, Recorded, Present
    <2>4. Inherited(n)'
        BY <1>2, <1>3, <1>4, <2>1 DEF Inherited, Recorded, Present
    <2>5. Dispatched(n)'
        BY <1>2, <1>3, <1>4, <2>1 DEF Dispatched, Present
    <2>6. Polled(n)' /\ Unused(n)'
        BY <1>2, <1>3, <1>4, <2>1 DEF Polled, Polls, Unused, Present
    <2> QED BY <2>3, <2>4, <2>5, <2>6 DEF History
<1>7. CASE m = n /\ WatchDelete(m)
    <2>1. ~Known(n)' /\ gen'[n] # 0
        BY <1>0, <1>2, <1>7, NoRunUid, UsedOnce DEF WatchDelete, Present, Known, Before
    <2> QED BY <2>1, GoneHistory
<1> QED BY <1>1, <1>5, <1>6, <1>7

LEMMA DeliverHistory ==
    ASSUME Before, NEW n \in Runs, NEW m \in Runs, Deliver(m)
    PROVE  History(n)'
<1> USE DEF Deliver, clusterVars, memory
<1>0. events \in [Runs -> Nat] /\ queue \in [Runs -> BOOLEAN]
    BY DEF Before, TypeOK, ReconcilerTypeOK
<1>1. CASE m # n
    BY <1>0, <1>1, KeptHistory DEF Kept
<1>2. CASE m = n
    <2>1. events[n] # 0 /\ events'[n] = events[n] - 1 /\ queue'[n]
        BY <1>0, <1>2
    <2>2. Unused(n) /\ Fresh(n) /\ Inherited(n) /\ Dispatched(n)
        BY DEF Before, HistoryInv, History
    <2>3. gen[n] # 0
        BY <2>1, <2>2 DEF Unused
    <2>4. CASE ~Known(n)
        BY <2>3, <2>4, GoneHistory DEF Known, Present
    <2>5. CASE Known(n)
        <3>1. ~HasEntry(n)
            BY <2>1, <2>2, <2>5 DEF Dispatched
        <3>2. Fresh(n)'
            BY <2>1, <2>2, <2>5
            DEF Fresh, Announced, Known, Recorded, HasEntry, CallFor, Present
        <3>3. Inherited(n)'
            BY <2>2, <2>5
            DEF Inherited, Known, Recorded, HasEntry, CallFor, LooksAfter, Looking, Present
        <3>4. Unused(n)' /\ Dispatched(n)' /\ Polled(n)'
            BY <2>1, <2>3, <3>1 DEF Unused, Dispatched, HasEntry, Polled, Polls
        <3> QED BY <3>2, <3>3, <3>4 DEF History
    <2> QED BY <2>4, <2>5
<1> QED BY <1>1, <1>2

LEMMA TimerHistory ==
    ASSUME Before, NEW n \in Runs, NEW m \in Runs, TimerFires(m)
    PROVE  History(n)'
<1> USE DEF TimerFires, clusterVars, memory
<1>0. queue \in [Runs -> BOOLEAN] /\ timers \in [Runs -> {"off", "check", "backoff"}]
    BY DEF Before, TypeOK, ReconcilerTypeOK
<1>1. CASE m # n
    BY <1>0, <1>1, KeptHistory DEF Kept
<1>2. CASE m = n
    <2>1. timers[n] # "off" /\ timers'[n] = "off" /\ queue'[n]
        BY <1>0, <1>2
    <2>2. Unused(n) /\ Fresh(n) /\ Inherited(n) /\ Dispatched(n)
        BY DEF Before, HistoryInv, History
    <2>3. gen[n] # 0
        BY <2>1, <2>2 DEF Unused
    <2>4. CASE ~Known(n)
        BY <2>3, <2>4, GoneHistory DEF Known, Present
    <2>5. CASE Known(n)
        <3>1. ~(~HasEntry(n) /\ ~Recorded(n))
            BY <2>1, <2>2, <2>5 DEF Fresh
        <3>2. HasEntry(n) => cache[n].pod # NoPod
            BY <1>0, <1>2, <2>1, <2>2, <2>5 DEF Dispatched, CaughtUp, Before
        <3>3. Dispatched(n)'
            BY <2>1, <2>2, <2>5, <3>2
            DEF Dispatched, Known, HasEntry, LooksAfter, Looking, Dispatching, Present
        <3>4. Inherited(n)'
            BY <2>2, <2>5
            DEF Inherited, Known, Recorded, HasEntry, CallFor, LooksAfter, Looking, Present
        <3>5. Fresh(n)' /\ Unused(n)' /\ Polled(n)'
            BY <2>1, <2>3, <3>1
            DEF Fresh, Unused, Polled, Polls, HasEntry, Recorded, Present
        <3> QED BY <3>3, <3>4, <3>5 DEF History
    <2> QED BY <2>4, <2>5
<1> QED BY <1>1, <1>2

(* A new process knows what is stored, and every object is announced.      *)
LEMMA RestartHistory ==
    ASSUME Before, NEW n \in Runs, Restart
    PROVE  History(n)'
<1> USE DEF clusterVars
<1>1. Idle.pc = "idle"
    BY DEF Idle
<1>2. /\ cache'[n] = crs[n] /\ ~queue'[n] /\ timers'[n] = "off" /\ rec'.pc = "idle"
      /\ events'[n] = (IF Present(crs[n]) THEN 1 ELSE 0)
      /\ certificationRuns'[n] = NoPod /\ UNCHANGED <<crs, gen, pods>>
    BY <1>1 DEF Restart
<1>3. gen[n] = 0 => ~Present(crs[n])
    BY UsedOnce DEF Before, Known
<1>4. Unused(n)'
    <2>1. Unused(n)
        BY DEF Before, HistoryInv, History
    <2> QED BY <1>2, <1>3, <2>1 DEF Unused, HasEntry, CallFor, Exists
<1>5. Known(n)' => Present(crs[n]) /\ events'[n] = 1
    BY <1>2 DEF Known, Present
<1>6. Fresh(n)' /\ Inherited(n)'
    BY <1>2, <1>5 DEF Fresh, Inherited, Recorded, Announced, CallFor, Present
<1>7. Dispatched(n)' /\ Polled(n)'
    BY <1>2, <1>5 DEF Dispatched, Polled, Polls, HasEntry, Present
<1> QED BY <1>4, <1>6, <1>7 DEF History

----------------------------------------------------------------------------
(* A Reconcile call begins.                                                *)

LEMMA StartHistory ==
    ASSUME Before, NEW n \in Runs, NEW m \in Runs, Starts(m)
    PROVE  History(n)'
<1> USE DEF Take, clusterVars
<1>0. /\ queue \in [Runs -> BOOLEAN] /\ certificationRuns \in [Runs -> 0 .. MaxPodID]
      /\ certSuitePodID \in Nat
    BY DEF Before, TypeOK, ReconcilerTypeOK
<1>00. Idle.pc = "idle" /\ Idle \in Calls
    BY IdleType DEF Idle
<1>1. /\ queue[m] /\ queue' = [queue EXCEPT ![m] = FALSE] /\ rec.pc = "idle"
      /\ UNCHANGED <<crs, gen, pods, cache, events, timers>>
    BY DEF Starts, ReconcileDeleted, ReconcileEnd, ReconcileNew
<1>2. CASE m # n
    <2>1. rec'.pc = "idle" \/ rec'.run = m
        <3>1. CASE ReconcileNew(m)
            BY <3>1 DEF ReconcileNew
        <3>2. CASE ReconcileDeleted(m) \/ ReconcileEnd(m)
            BY <1>00, <3>2 DEF ReconcileDeleted, ReconcileEnd, Calls
        <3> QED BY <3>1, <3>2 DEF Starts
    <2>2. certificationRuns'[n] = certificationRuns[n] /\ queue'[n] = queue[n]
        BY <1>0, <1>1, <1>2 DEF Starts, ReconcileDeleted, ReconcileEnd, ReconcileNew
    <2> QED BY <1>1, <1>2, <2>1, <2>2, KeptHistory DEF Kept, CallFor
<1>3. Unused(n) /\ Fresh(n) /\ Inherited(n) /\ Dispatched(n)
    BY DEF Before, HistoryInv, History
<1>4. CASE m = n /\ ~Known(n)
    BY <1>1, <1>3, <1>4, GoneHistory DEF Unused, Known, Present
<1>5. CASE m = n /\ Known(n)
    <2>1. ~queue'[n] /\ gen'[n] # 0 /\ Known(n)'
        BY <1>0, <1>1, <1>3, <1>5 DEF Unused, Known, Present
    <2>2. Present(cache[n])
        BY <1>1, <1>3, <1>5 DEF Fresh, Announced, Inherited, Dispatched
    <2>3. CASE HasEntry(n) \/ Recorded(n)
        <3>1. cache[n].pod # NoPod
            BY <1>1, <1>3, <1>5, <2>3 DEF Inherited, Dispatched
        <3>2. ReconcileEnd(n)
            BY <1>5, <2>2, <3>1 DEF Starts, ReconcileDeleted, ReconcileNew, Gone, IsNew
        <3>3. /\ rec'.pc = "getPod" /\ rec'.run = n /\ LooksAfter(n)' /\ ~Dispatching(n)'
              /\ UNCHANGED certificationRuns
            BY <1>00, <3>2 DEF ReconcileEnd, Calls, LooksAfter, Looking, Dispatching
        <3>4. UNCHANGED <<HasEntry(n), Recorded(n), Known(n)>>
            BY <1>1, <3>3 DEF HasEntry, Recorded, Known, Present
        <3>5. Unused(n)' /\ Fresh(n)' /\ Polled(n)'
            BY <2>1, <2>3, <3>3, <3>4 DEF Unused, Fresh, Polled, Polls
        <3>6. Inherited(n)'
            BY <1>1, <1>3, <1>5, <3>3, <3>4 DEF Inherited, Present
        <3>7. Dispatched(n)'
            BY <1>1, <1>3, <1>5, <3>1, <3>3, <3>4 DEF Dispatched, Present
        <3> QED BY <3>5, <3>6, <3>7 DEF History
    <2>4. CASE ~HasEntry(n) /\ ~Recorded(n)
        <3>1. cache[n].pod = NoPod /\ events[n] = 0 /\ timers[n] = "off"
            BY <1>1, <1>3, <1>5, <2>2, <2>4 DEF Recorded, Fresh, Announced
        <3>2. ReconcileNew(n)
            BY <1>5, <2>2, <3>1 DEF Starts, ReconcileDeleted, ReconcileEnd, Gone, IsNew
        <3>3. /\ rec'.pc = "updateStatus" /\ rec'.phase = "CertSuiteDeploying"
              /\ ~LooksAfter(n)'
            BY <3>2 DEF ReconcileNew, LooksAfter, Looking
        <3>4. HasEntry(n)'
            BY <1>0, <3>2 DEF ReconcileNew, NextPodID, HasEntry, NoPod
        <3>5. Present(crs[n]) => crs[n].pod = NoPod
            BY <2>4 DEF Recorded
        <3>6. Unused(n)' /\ Fresh(n)' /\ Inherited(n)' /\ Polled(n)'
            BY <1>1, <2>1, <3>4, <3>5 DEF Unused, Fresh, Inherited, Polled, Present
        <3>7. Dispatched(n)'
            BY <1>1, <2>1, <2>2, <3>1, <3>3, <3>5 DEF Dispatched, Present
        <3> QED BY <3>6, <3>7 DEF History
    <2> QED BY <2>3, <2>4
<1> QED BY <1>2, <1>4, <1>5

----------------------------------------------------------------------------
(* A Reconcile call goes on or ends.                                       *)

(* What a call does for its run, apart from the object it may store: it    *)
(* goes on doing the same for the same run, and it ends with a backoff     *)
(* only when it was looking after the pod, and never without a requeue     *)
(* then, unless it stored the end it saw.                                  *)
CallKeeps ==
    /\ rec.pc # "idle" /\ UNCHANGED <<gen, cache, events, queue>>
    /\ rec.pc # "deletePod" => UNCHANGED certificationRuns
    /\ rec'.pc = "idle" \/ /\ rec'.run = rec.run /\ rec.pc # "deletePod"
                           /\ rec'.pc # "deletePod"
                           /\ Looking' = Looking
    /\ \A n \in Runs :
          /\ timers[n] # "off" => timers'[n] # "off"
          /\ timers'[n] = "backoff" => timers[n] = "backoff" \/ LooksAfter(n)
    /\ Looking /\ ~UpdateStored
           => Looking' \/ timers'[rec.run] # "off"
    /\ UpdateStored /\ rec.phase = "CertSuiteRunning"
           => rec'.pc = "idle" /\ (failures' = 0 => timers'[rec.run] # "off")

LEMMA EndCallKeeps ==
    ASSUME TypeOK, rec.run \in Runs,
           NEW result \in {"done", "check", "backoff"}, EndCall(result),
           result = "backoff" => Looking
    PROVE  /\ rec'.pc = "idle"
           /\ result # "done" => timers'[rec.run] # "off"
           /\ \A n \in Runs :
                 /\ timers[n] # "off" => timers'[n] # "off"
                 /\ timers'[n] = "backoff" => timers[n] = "backoff" \/ LooksAfter(n)
<1>1. rec'.pc = "idle"
    <2>1. Idle.pc = "idle"
        BY DEF Idle
    <2> QED BY <2>1 DEF EndCall
<1>2. timers \in [Runs -> {"off", "check", "backoff"}]
    BY DEF TypeOK, ReconcilerTypeOK
<1>3. result # "done" => timers'[rec.run] = result
    BY <1>2 DEF EndCall
<1>4. \A n \in Runs : timers'[n] = timers[n] \/ (n = rec.run /\ timers'[n] = result)
    BY <1>2 DEF EndCall
<1>5. CASE result = "done"
    BY <1>1, <1>5 DEF EndCall
<1>6. CASE result # "done"
    BY <1>1, <1>3, <1>4, <1>6 DEF LooksAfter
<1> QED BY <1>5, <1>6

LEMMA CallsKeep ==
    ASSUME TypeOK, CallNext
    PROVE  CallKeeps
<1> USE DEF memory
<1>0. rec \in Calls /\ rec.run \in Runs
    BY DEF TypeOK, ReconcilerTypeOK, CallNext, DeleteJobPod, InUpdate, InCreate, InGetPod,
           UpdateStored, UpdateRetried, UpdateFailed, PodCreated, PodNotCreated,
           PodUnreadable, PodRunning, PodFinished
<1>1. CASE DeleteJobPod
    <2>1. rec.pc = "deletePod" /\ ~UpdateStored /\ ~Looking
          /\ UNCHANGED <<gen, cache, events, queue>>
        BY <1>1 DEF DeleteJobPod, UpdateStored, InUpdate, LooksAfter, Looking
    <2>2. EndCall("done")
        BY <1>1 DEF DeleteJobPod
    <2> QED BY <1>0, <2>1, <2>2, EndCallKeeps DEF CallKeeps
<1>2. ASSUME NEW phase, rec' = updateStatus(phase), rec.pc \in {"createPod", "getPod"},
             UNCHANGED <<gen, cache, events, queue, timers, certificationRuns>>,
             rec.pc = "getPod" <=>
                phase \in {"CertSuiteFinished", "CertSuiteError", "CertSuiteTimeout"}
      PROVE  CallKeeps
    <2>1. /\ rec'.pc = "updateStatus" /\ rec'.run = rec.run /\ rec'.phase = phase
        BY <1>0, <1>2 DEF updateStatus, Calls
    <2>2. Looking' = Looking
        BY <1>2, <2>1 DEF LooksAfter, Looking
    <2>3. ~UpdateStored
        BY <1>2 DEF UpdateStored, InUpdate
    <2> QED BY <1>2, <2>1, <2>2, <2>3 DEF CallKeeps
<1>3. CASE PodCreated \/ PodNotCreated
    BY <1>2, <1>3 DEF PodCreated, PodNotCreated, InCreate
<1>5. CASE PodUnreadable \/ PodRunning \/ PodFinished
    <2>1. /\ rec.pc = "getPod" /\ Looking /\ ~UpdateStored
          /\ UNCHANGED <<gen, cache, events, queue, certificationRuns>>
        BY <1>5 DEF PodUnreadable, PodRunning, PodFinished, InGetPod, LooksAfter, Looking,
                    UpdateStored, InUpdate
    <2>2. ASSUME NEW result \in {"check", "backoff"}, EndCall(result)
          PROVE  CallKeeps
        BY <1>0, <2>1, <2>2, EndCallKeeps DEF CallKeeps
    <2>3. \A code : EndPhase(code) \in {"CertSuiteFinished", "CertSuiteError"}
        BY DEF EndPhase
    <2> QED BY <1>2, <1>5, <2>1, <2>2, <2>3 DEF PodUnreadable, PodRunning, PodFinished
<1>6. CASE UpdateStored \/ UpdateRetried \/ UpdateFailed
    <2>1. /\ rec.pc = "updateStatus"
          /\ UNCHANGED <<gen, cache, events, queue, certificationRuns>>
        BY <1>6 DEF UpdateStored, UpdateRetried, UpdateFailed, InUpdate
    <2>2. CASE rec' = [rec EXCEPT !.tries = rec.tries - 1] /\ UNCHANGED timers
               /\ ~UpdateStored
        <3>1. /\ rec'.pc = "updateStatus" /\ rec'.run = rec.run
              /\ rec'.phase = rec.phase
            BY <1>0, <2>1, <2>2 DEF Calls
        <3> QED BY <2>1, <2>2, <3>1 DEF CallKeeps, LooksAfter, Looking
    <2>3. CASE rec' = [rec EXCEPT !.pc = "createPod"] /\ UNCHANGED timers
               /\ rec.phase = "CertSuiteDeploying"
        <3>1. rec'.pc = "createPod" /\ rec'.run = rec.run
            BY <1>0, <2>3 DEF Calls
        <3> QED BY <2>1, <2>3, <3>1 DEF CallKeeps, LooksAfter, Looking
    <2>4. CASE EndCall("backoff") /\ Looking
        <3>1. rec.phase # "CertSuiteRunning"
            BY <2>1, <2>4 DEF LooksAfter, Looking
        <3> QED BY <1>0, <2>1, <2>4, <3>1, EndCallKeeps DEF CallKeeps
    <2>5. CASE EndCall("done") /\ ~Looking
               /\ (UpdateStored /\ rec.phase = "CertSuiteRunning" => failures' # 0)
        BY <1>0, <2>1, <2>5, EndCallKeeps DEF CallKeeps
    <2>6. CASE EndCall("done") /\ UpdateStored /\ Looking
        <3>1. rec.phase # "CertSuiteRunning"
            BY <2>1, <2>6 DEF LooksAfter, Looking
        <3> QED BY <1>0, <2>1, <2>6, <3>1, EndCallKeeps DEF CallKeeps
    <2>7. CASE EndCall("check") /\ rec.phase = "CertSuiteRunning"
        <3>1. ~Looking
            BY <2>1, <2>7 DEF LooksAfter, Looking
        <3> QED BY <1>0, <2>1, <2>7, <3>1, EndCallKeeps DEF CallKeeps
    <2>8. CallFails => failures' # 0
        BY DEF CallFails, TypeOK, ClusterTypeOK
    <2>9. CASE AfterFailedUpdate /\ (UpdateStored => CallFails)
        BY <2>1, <2>4, <2>5, <2>8, <2>9 DEF AfterFailedUpdate, LooksAfter, Looking
    <2>10. CASE AfterUpdate /\ UpdateStored
        BY <2>1, <2>3, <2>5, <2>6, <2>7, <2>10 DEF AfterUpdate
    <2>11. CASE UpdateStored
        BY <2>9, <2>10, <2>11 DEF UpdateStored
    <2> QED BY <1>6, <2>2, <2>9, <2>11 DEF UpdateRetried, UpdateFailed
<1> QED BY <1>1, <1>3, <1>5, <1>6 DEF CallNext

(* A call leaves the other names alone.                                    *)
LEMMA CallsLeaveOthers ==
    ASSUME TypeOK, CallNext, NEW n \in Runs, rec.run # n
    PROVE  /\ crs'[n] = crs[n] /\ timers'[n] = timers[n]
           /\ certificationRuns'[n] = certificationRuns[n]
<1> USE DEF memory
<1>0. /\ crs \in [Runs -> RunObjects] /\ certificationRuns \in [Runs -> 0 .. MaxPodID]
      /\ timers \in [Runs -> {"off", "check", "backoff"}]
    BY DEF TypeOK, ClusterTypeOK, ReconcilerTypeOK
<1>1. crs'[n] = crs[n]
    BY <1>0 DEF CallNext, DeleteJobPod, UpdateStored, UpdateRetried, UpdateFailed,
       PodCreated, PodNotCreated, InCreate, PodUnreadable, PodRunning, PodFinished,
       InGetPod, Stored
<1>2. certificationRuns'[n] = certificationRuns[n]
    BY <1>0 DEF CallNext, DeleteJobPod, UpdateStored, UpdateRetried, UpdateFailed, InUpdate,
       PodCreated, PodNotCreated, InCreate, PodUnreadable, PodRunning, PodFinished, InGetPod
<1>3. ASSUME NEW result, EndCall(result) PROVE timers'[n] = timers[n]
    BY <1>0, <1>3 DEF EndCall
<1>4. timers'[n] = timers[n]
    BY <1>3 DEF CallNext, DeleteJobPod, UpdateStored, UpdateRetried, UpdateFailed,
       AfterUpdate, AfterFailedUpdate, PodCreated, PodNotCreated, InCreate,
       PodUnreadable, PodRunning, PodFinished
<1> QED BY <1>1, <1>2, <1>4

(* What a call stores in its object: a phase, and with CertSuiteRunning    *)
(* the pod's name.                                                         *)
LEMMA CallStores ==
    ASSUME TypeOK, CopiesInv, CallNext, NEW n \in Runs
    PROVE  \/ Writes(n)
           \/ crs'[n] = crs[n] /\ (rec.run = n => ~UpdateStored)
<1>1. CASE UpdateStored
    BY <1>1, StoreController
<1>2. CASE ~UpdateStored
    BY <1>2 DEF CallNext, DeleteJobPod, UpdateRetried, UpdateFailed, PodCreated,
                PodNotCreated, InCreate, PodUnreadable, PodRunning, PodFinished, InGetPod
<1> QED BY <1>1, <1>2

LEMMA CallHistory ==
    ASSUME Before, NEW n \in Runs, CallNext
    PROVE  History(n)'
<1>0. CallKeeps
    BY CallsKeep DEF Before
<1>1. CASE rec.run # n
    BY <1>0, <1>1, CallsLeaveOthers, KeptHistory DEF CallKeeps, Kept, CallFor, Before
<1>2. CASE rec.run = n
    <2>0. /\ Unused(n) /\ Fresh(n) /\ Inherited(n) /\ Dispatched(n) /\ Polled(n)
          /\ CallFor(n) /\ (Writes(n) \/ crs'[n] = crs[n])
          /\ ~UpdateStored => crs'[n] = crs[n]
          /\ rec \in Calls /\ rec.pod # NoPod
        BY <1>0, <1>2, CallStores
        DEF Before, HistoryInv, History, CallKeeps, CallFor, Writes,
            TypeOK, ReconcilerTypeOK, PodNames, NoPod
    <2>1. gen[n] # 0 /\ gen'[n] = gen[n] /\ crs'[n].uid = crs[n].uid
          /\ cache'[n] = cache[n] /\ events'[n] = events[n] /\ queue'[n] = queue[n]
        BY <1>0, <2>0 DEF Unused, CallKeeps, Writes
    <2>2. Known(n)' = Known(n)
        BY <2>1 DEF Known, Present
    <2>3. CASE ~Known(n)
        BY <2>1, <2>2, <2>3, GoneHistory
    <2>4. CASE Known(n)
        <3>1. HasEntry(n) \/ Recorded(n)
            BY <2>0, <2>4 DEF Fresh
        <3>2. rec.pc # "deletePod"
            BY <1>2, <2>0, <2>4, <3>1 DEF Inherited, Dispatched, LooksAfter, Looking
        <3>3. UNCHANGED HasEntry(n)
            BY <1>0, <3>2 DEF CallKeeps, HasEntry
        <3>4. CallFor(n)' => LooksAfter(n)' = LooksAfter(n)
            BY <1>0, <1>2, <3>2 DEF CallKeeps, CallFor, LooksAfter
        <3>12. Looking' => LooksAfter(n)'
            <4>1. Looking' => rec'.pc # "idle"
                BY DEF Looking
            <4> QED BY <1>0, <1>2, <4>1 DEF CallKeeps, LooksAfter
        <3>5. ~CallFor(n)' => ~LooksAfter(n)' /\ ~Dispatching(n)'
            BY DEF CallFor, LooksAfter, Looking, Dispatching
        <3>6. Dispatching(n)' => Dispatching(n)
            BY <1>2, <2>0, <3>2, <3>4, <3>5
               DEF Dispatching, LooksAfter, Looking, CallFor, Calls
        <3>7. Writes(n) => /\ rec.phase = "CertSuiteRunning" => crs'[n].pod # NoPod
                           /\ rec.phase # "CertSuiteRunning" => crs'[n].pod = crs[n].pod
            BY <2>0 DEF Writes
        <3>8. crs[n].pod # NoPod => crs'[n].pod # NoPod
            BY <2>0, <3>7
        <3>9. Unused(n)'
            BY <2>1 DEF Unused
        <3>10. CASE HasEntry(n)
            <4>1. Dispatching(n)' /\ Present(crs[n]) => crs'[n].pod = NoPod
                <5>1. Writes(n) /\ rec.phase = "CertSuiteRunning" => ~Dispatching(n)'
                    BY <1>0, <3>5 DEF Writes, CallKeeps, CallFor
                <5> QED BY <2>0, <2>4, <3>6, <3>7, <3>10, <5>1 DEF Dispatched
            <4>2. queue'[n] \/ timers'[n] = "backoff" \/ LooksAfter(n)' => cache'[n].pod # NoPod
                BY <1>0, <1>2, <2>0, <2>1, <2>4, <3>4, <3>5, <3>10 DEF Dispatched, CallKeeps
            <4>3. ~(rec'.pc = "deletePod" /\ rec'.run = n)
                BY <1>0 DEF CallKeeps
            <4>4. Dispatched(n)'
                BY <2>0, <2>1, <2>4, <3>8, <3>10, <4>1, <4>2, <4>3 DEF Dispatched, Present
            <4>5. Polled(n)'
                <5> SUFFICES ASSUME Present(crs[n]), crs'[n].pod # NoPod,
                                    crs'[n].phase \notin EndPhases, failures' = 0
                             PROVE  Polls(n)'
                    BY <2>1, <3>3, <3>10 DEF Polled, Present
                <5>1. failures = 0
                    BY FailuresCounted DEF Before
                <5>2. CASE UpdateStored
                    <6>1. Writes(n)
                        BY <1>2, <5>2, CallStores DEF Before, CallNext
                    <6>2. rec.phase \in {"CertSuiteDeploying", "CertSuiteRunning"}
                          /\ rec.pc = "updateStatus"
                        BY <2>0, <6>1 DEF Writes, AcceptedPhases, EndPhases, Calls, Phases
                    <6>3. Dispatching(n)
                        BY <1>2, <6>2 DEF Dispatching, LooksAfter, Looking
                    <6>4. crs[n].pod = NoPod
                        BY <2>0, <2>4, <3>10, <6>3 DEF Dispatched
                    <6>5. rec.phase = "CertSuiteRunning"
                        BY <3>7, <6>1, <6>4
                    <6> QED BY <1>0, <1>2, <5>2, <6>5 DEF CallKeeps, Polls
                <5>3. CASE ~UpdateStored
                    <6>1. Polls(n)
                        BY <2>0, <5>1, <5>3 DEF Polled
                    <6> QED BY <1>0, <1>2, <2>1, <3>12, <5>3, <6>1 DEF Polls, CallKeeps, LooksAfter
                <5> QED BY <5>2, <5>3
            <4>6. Fresh(n)' /\ Inherited(n)'
                BY <3>3, <3>10 DEF Fresh, Inherited
            <4> QED BY <3>9, <4>4, <4>5, <4>6 DEF History
        <3>11. CASE ~HasEntry(n)
            <4>1. LooksAfter(n) /\ Present(cache[n]) /\ cache[n].pod # NoPod
                  /\ (Present(crs[n]) => crs[n].pod # NoPod)
                BY <2>0, <2>4, <3>1, <3>11 DEF Inherited
            <4>2. Recorded(n)'
                BY <2>1, <4>1 DEF Recorded, Present
            <4>3. Inherited(n)'
                BY <2>1, <3>4, <3>8, <4>1 DEF Inherited, Present
            <4>4. Polled(n)'
                <5> SUFFICES ASSUME crs'[n].phase \notin EndPhases
                             PROVE  Polls(n)'
                    BY DEF Polled
                <5>1. ~UpdateStored
                    <6>1. ASSUME UpdateStored PROVE FALSE
                        <7>1. Writes(n)
                            BY <1>2, <6>1, CallStores DEF Before, CallNext
                        <7> QED BY <4>1, <7>1
                                DEF Writes, LooksAfter, Looking, AcceptedPhases, EndPhases
                    <6> QED BY <6>1
                <5> QED BY <1>0, <1>2, <3>12, <4>1, <5>1 DEF Polls, CallKeeps, LooksAfter
            <4>5. Fresh(n)' /\ Dispatched(n)'
                BY <3>3, <3>11, <4>2 DEF Fresh, Dispatched
            <4> QED BY <3>9, <4>3, <4>4, <4>5 DEF History
        <3> QED BY <3>10, <3>11
    <2> QED BY <2>3, <2>4
<1> QED BY <1>1, <1>2

----------------------------------------------------------------------------
(* The history holds, and with it no run is forgotten.                     *)

LEMMA HistoryInvStep ==
    ASSUME Before
    PROVE  HistoryInv'
<1> SUFFICES ASSUME NEW n \in Runs PROVE History(n)'
    BY DEF HistoryInv
<1>1. CASE UNCHANGED vars
    BY <1>1, KeptHistory DEF vars, clusterVars, reconcilerVars, Kept
<1>2. CASE ClusterNext /\ UNCHANGED reconcilerVars
    BY <1>2, CreateHistory, DeleteHistory, PodHistory DEF ClusterNext, PodStep
<1>3. CASE SidecarNext /\ UNCHANGED reconcilerVars
    BY <1>3, SidecarHistory DEF SidecarNext
<1>4. CASE ReconcilerNext
    BY <1>4, InformerHistory, DeliverHistory, TimerHistory, StartHistory, CallHistory,
       RestartHistory DEF ReconcilerNext, Starts
<1> QED BY <1>1, <1>2, <1>3, <1>4 DEF Before, Next

LEMMA HistoryInvInit == Init => HistoryInv
<1> SUFFICES ASSUME Init, NEW n \in Runs PROVE History(n)
    BY DEF HistoryInv
<1>1. /\ \A p \in PodNames : ~Exists(p)
      /\ ~Present(crs[n]) /\ ~Present(cache[n])
    BY NoRunUid DEF Init, ClusterInit, ReconcilerInit, AbsentPod, Exists
<1>2. /\ events[n] = 0 /\ ~queue[n] /\ timers[n] = "off" /\ rec.pc = "idle"
      /\ ~HasEntry(n)
    BY DEF Init, ReconcilerInit, Idle, HasEntry
<1> QED BY <1>1, <1>2
        DEF History, Unused, Fresh, Inherited, Dispatched, Polled, Known, CallFor

LEMMA HistoryInvCorrect ==
    ASSUME ~LagBeyondInterval
    PROVE  Spec => []HistoryInv
<1>1. MaxGen <= 1
    BY LagAssumption DEF LagAssumption
<1>2. TypeOK /\ TypeOK' /\ CopiesInv /\ HistoryInv /\ [Next]_vars => HistoryInv'
    BY <1>1, HistoryInvStep DEF Before
<1> QED BY <1>2, HistoryInvInit, TypeCorrect, CopiesInvCorrect, PTL DEF Spec

LEMMA HistoryTells ==
    ASSUME TypeOK, HistoryInv
    PROVE  NoneForgotten
<1> SUFFICES ASSUME NEW n \in Runs, NeedsWork(n), ~(failures > 0 /\ HasEntry(n)),
                    cache[n].uid = crs[n].uid
             PROVE  \/ events[n] > 0 \/ queue[n] \/ timers[n] # "off"
                    \/ rec.pc # "idle" /\ rec.run = n
    BY DEF NoneForgotten, Recalled
<1>1. Present(crs[n]) /\ Present(cache[n]) /\ Known(n)
    BY DEF NeedsWork, Present, Known
<1>2. CASE crs[n].pod = NoPod
    <2>1. ~HasEntry(n)
        BY <1>2 DEF NeedsWork
    <2>2. Announced(n) \/ (Recorded(n) /\ crs[n].pod # NoPod)
        BY <1>1, <2>1 DEF HistoryInv, History, Fresh, Inherited
    <2> QED BY <1>1, <1>2, <2>2 DEF Announced
<1>3. CASE crs[n].pod # NoPod
    <2>1. crs[n].phase \notin EndPhases /\ (failures = 0 \/ ~HasEntry(n))
        BY <1>3 DEF NeedsWork, TypeOK, ClusterTypeOK
    <2>2. Polls(n)
        BY <1>1, <1>3, <2>1 DEF HistoryInv, History, Polled
    <2> QED BY <2>2 DEF Polls, LooksAfter, Looking
<1> QED BY <1>2, <1>3

(* While the cache lags for at most checkInterval, no wake-up is lost: a   *)
(* run that waits for its pod, or whose pod has not been seen to end, is   *)
(* in some queue of the process, in every interleaving of any number of    *)
(* runs with conflicts, refused and lost updates, panics and restarts. The *)
(* exception is a call that failed after this process dispatched the run;  *)
(* a restart ends it.                                                      *)
THEOREM NoRunForgotten ==
    ASSUME ~LagBeyondInterval
    PROVE  Spec => []NoneForgotten
BY HistoryInvCorrect, HistoryTells, TypeCorrect, PTL

----------------------------------------------------------------------------
(* No object has two pods at work.                                         *)

(* A name that was used and forgotten is not used again.                   *)
LEMMA ForgottenStays ==
    ASSUME Before, NEW n \in Runs, gen[n] # 0, ~Known(n)
    PROVE  ~Known(n)' /\ gen'[n] # 0
<1>0. /\ gen[n] \in Nat /\ gen'[n] \in Nat /\ gen'[n] <= MaxGen
      /\ crs[n].uid = 0 /\ cache[n].uid = 0 /\ gen[n] >= 1 /\ MaxGen <= 1
    BY DEF Before, TypeOK, ClusterTypeOK, Known, Present
<1>1. crs'[n].uid = 0 /\ gen'[n] = gen[n]
    BY <1>0, UidSteps DEF Before
<1>2. cache'[n].uid = 0
    BY <1>0, NoRunUid, StepsOfTheCache DEF Before, CacheStep
<1> QED BY <1>0, <1>1, <1>2 DEF Known, Present

(* A run is dispatched only when nothing is remembered for it.             *)
LEMMA DispatchedOnce ==
    ASSUME Before, NEW n \in Runs, ReconcileNew(n)
    PROVE  ~HasEntry(n) /\ Known(n)
<1>1. queue[n] /\ Present(cache[n]) /\ cache[n].pod = NoPod
    BY DEF ReconcileNew, Take, Gone, IsNew
<1> QED BY <1>1 DEF Before, HistoryInv, History, Dispatched, Known

(* The name that is remembered for a run is dropped once it is gone.       *)
LEMMA DroppedWhenGone ==
    ASSUME Before, NamesInv, DeleteJobPod
    PROVE  rec.run \in Runs /\ ~Known(rec.run) /\ gen[rec.run] # 0
<1>1. rec.pc = "deletePod" /\ rec.run \in Runs /\ rec.pod \in PodNames
    BY DEF DeleteJobPod, Before, TypeOK, ReconcilerTypeOK
<1>2. HasEntry(rec.run)
    BY <1>1 DEF NamesInv, NeedsName, HasEntry, PodNames, NoPod
<1>3. Unused(rec.run) /\ Dispatched(rec.run)
    BY <1>1 DEF Before, HistoryInv, History
<1> QED BY <1>1, <1>2, <1>3 DEF Unused, Dispatched

LEMMA OnlyPodStep ==
    ASSUME Before, NamesInv, ~Restart, NEW n \in Runs, OnlyPod(n)
    PROVE  OnlyPod(n)'
<1> SUFFICES ASSUME crs'[n].uid # 0, NEW p \in PodNames, pods'[p].owner # 0,
                    pods'[p].run = n
             PROVE  p = certificationRuns'[n]
    BY DEF OnlyPod, Present, Exists
<1>0. p # NoPod /\ certificationRuns \in [Runs -> 0 .. MaxPodID]
    BY DEF PodNames, NoPod, Before, TypeOK, ReconcilerTypeOK
<1>1. \/ Exists(p) /\ pods[p].run = n
      \/ rec.pc = "createPod" /\ rec.run = n /\ p = rec.pod
    BY PodsOfAName DEF Before
<1>2. Present(crs[n])
    <2>1. /\ gen[n] \in Nat /\ gen'[n] \in Nat /\ gen'[n] <= MaxGen /\ MaxGen <= 1
        BY DEF Before, TypeOK, ClusterTypeOK
    <2>2. gen[n] # 0
        <3>1. Unused(n)
            BY DEF Before, HistoryInv, History
        <3> QED BY <1>1, <3>1 DEF Unused, CallFor
    <2> QED BY <2>1, <2>2, UidSteps DEF Before, Present
<1>3. p = certificationRuns[n]
    BY <1>1, <1>2 DEF OnlyPod, NamesInv, NeedsName
<1>4. HasEntry(n) /\ Known(n)
    BY <1>0, <1>2, <1>3 DEF HasEntry, Known
<1>5. ASSUME NEW m \in Runs, ReconcileNew(m)
      PROVE  certificationRuns'[n] = certificationRuns[n]
    <2>1. m # n
        BY <1>4, <1>5, DispatchedOnce
    <2> QED BY <1>0, <1>5, <2>1 DEF ReconcileNew
<1>6. CASE DeleteJobPod
    <2>1. rec.run # n
        BY <1>4, <1>6, DroppedWhenGone
    <2> QED BY <1>0, <1>3, <1>6, <2>1 DEF DeleteJobPod
<1>7. CASE NameCarried
    BY <1>3, <1>7 DEF NameCarried
<1> QED BY <1>3, <1>5, <1>6, <1>7, StepsOfTheName DEF Before

LEMMA FirstPodStep ==
    ASSUME Before, NamesInv, OneName, FirstPod
    PROVE  FirstPod'
<1>0. /\ certSuitePodID \in Nat /\ certificationRuns \in [Runs -> 0 .. MaxPodID]
      /\ PodNames \subseteq Nat \ {0}
    BY DEF Before, TypeOK, ReconcilerTypeOK, PodNames
<1>1. ASSUME NEW p \in PodNames, pods'[p].owner # 0
      PROVE  p = 1
    <2>1. CASE PodStays(p)
        BY <2>1 DEF PodStays, FirstPod
    <2>2. CASE PodIsNew(p)
        <3>1. p = certificationRuns[rec.run] /\ rec.run \in Runs
            BY <2>2 DEF PodIsNew, NamesInv, NeedsName
        <3>2. p <= certSuitePodID /\ certSuitePodID <= 1 /\ p >= 1
            BY <1>0, <3>1 DEF NamesInv, FirstPod
        <3> QED BY <1>0, <3>2
    <2> QED BY <1>1, <2>1, <2>2, StepsOfThePods DEF Before
<1>2. CASE Restart
    <2>1. certSuitePodID' = 0
        BY <1>2 DEF Restart
    <2> QED BY <1>1, <2>1 DEF FirstPod, Exists
<1>3. ASSUME NEW m \in Runs, ReconcileNew(m) PROVE FirstPod'
    <2>1. ~HasEntry(m) /\ Known(m)
        BY <1>3, DispatchedOnce
    <2>2. certSuitePodID = 0
        BY <1>0, <2>1 DEF FirstPod
    <2>3. certSuitePodID' = 1 /\ certificationRuns'[m] = 1
        BY <1>0, <1>3, <2>2 DEF ReconcileNew, NextPodID
    <2>4. \A n \in Runs : n = m
        BY DEF OneName
    <2> QED BY <1>1, <2>3, <2>4 DEF FirstPod, Exists, HasEntry, NoPod
<1>4. CASE DeleteJobPod
    <2>1. rec.run \in Runs /\ ~Known(rec.run) /\ gen[rec.run] # 0
        BY <1>4, DroppedWhenGone
    <2>2. \A n \in Runs : n = rec.run
        BY <2>1 DEF OneName
    <2>3. certSuitePodID' = certSuitePodID
        BY <1>4 DEF DeleteJobPod
    <2>4. \A n \in Runs : ~Known(n)' /\ gen'[n] # 0
        BY <1>4, <2>1, <2>2 DEF DeleteJobPod, Known, Present
    <2> QED BY <1>1, <2>3, <2>4 DEF FirstPod, Exists
<1>5. CASE NameCarried
    <2>1. UNCHANGED <<certificationRuns, certSuitePodID>>
        BY <1>5 DEF NameCarried
    <2>2. \A n \in Runs : ~Known(n) /\ gen[n] # 0 => ~Known(n)' /\ gen'[n] # 0
        BY ForgottenStays
    <2> QED BY <1>1, <2>1, <2>2 DEF FirstPod, Exists, HasEntry
<1> QED BY <1>2, <1>3, <1>4, <1>5, StepsOfTheName DEF Before

LEMMA OnlyPodsInvInit == Init => OnlyPodInv /\ FirstPodInv
<1> SUFFICES ASSUME Init PROVE OnlyPodInv /\ FirstPodInv
    OBVIOUS
<1>1. (\A p \in PodNames : ~Exists(p)) /\ certSuitePodID = 0
    BY DEF Init, ClusterInit, ReconcilerInit, AbsentPod, Exists
<1> QED BY <1>1 DEF OnlyPodInv, OnlyPod, FirstPodInv, FirstPod

LEMMA OnlyPodsInvStep ==
    ASSUME Before, PodsInv, OnlyPodInv, FirstPodInv
    PROVE  OnlyPodInv' /\ FirstPodInv'
<1>1. OnlyPodInv'
    <2> SUFFICES ASSUME restarts' = 0, NEW n \in Runs PROVE OnlyPod(n)'
        BY DEF OnlyPodInv
    <2>1. restarts = 0 /\ ~Restart
        BY FirstProcess DEF Before
    <2> QED BY <2>1, OnlyPodStep DEF OnlyPodInv, PodsInv, NamesApart
<1>2. FirstPodInv'
    <2>1. ASSUME OneName PROVE FirstPod'
        BY <2>1, FirstPodStep DEF FirstPodInv, PodsInv, NamesApart
    <2> QED BY <2>1 DEF FirstPodInv, OneName
<1> QED BY <1>1, <1>2

LEMMA OnlyPodsInvCorrect ==
    ASSUME ~LagBeyondInterval
    PROVE  Spec => [](OnlyPodInv /\ FirstPodInv)
<1>1. MaxGen <= 1
    BY LagAssumption DEF LagAssumption
<1>2. TypeOK /\ TypeOK' /\ CopiesInv /\ HistoryInv /\ PodsInv /\ OnlyPodInv /\ FirstPodInv
      /\ [Next]_vars => OnlyPodInv' /\ FirstPodInv'
    BY <1>1, OnlyPodsInvStep DEF Before
<1> QED BY <1>2, OnlyPodsInvInit, TypeCorrect, CopiesInvCorrect, PodsInvCorrect,
           HistoryInvCorrect, PTL DEF Spec

LEMMA OnlyPodsTell == OnlyPodInv /\ FirstPodInv => OnePodAtWork
<1> SUFFICES ASSUME OnlyPodInv, FirstPodInv, NamesApart, NEW n \in Runs,
                    NEW p \in PodsAtWork(n), NEW q \in PodsAtWork(n)
             PROVE  p = q
    BY DEF OnePodAtWork
<1>1. /\ p \in PodNames /\ Exists(p) /\ pods[p].run = n
      /\ q \in PodNames /\ Exists(q) /\ pods[q].run = n
      /\ Present(crs[n])
    BY DEF PodsAtWork, Exists, Present
<1>2. CASE restarts = 0
    BY <1>1, <1>2 DEF OnlyPodInv, OnlyPod
<1>3. CASE OneName
    BY <1>1, <1>3 DEF FirstPodInv, FirstPod
<1> QED BY <1>2, <1>3 DEF NamesApart

(* While the cache lags for at most checkInterval, an object never has two *)
(* pods at work, whatever the interleaving and whichever calls fail: a run *)
(* is dispatched once in a process. A single run keeps its one pod across  *)
(* any number of restarts, for a process that dispatches it again takes    *)
(* the same name for it.                                                   *)
THEOREM OnePod ==
    ASSUME ~LagBeyondInterval
    PROVE  Spec => []OnePodAtWork
BY OnlyPodsInvCorrect, OnlyPodsTell, PTL
=============================================================================
