# A TLA+ model of the certsuite operator

The operator runs the CNF certification suite when a user creates a
`CertsuiteRun` object: its controller starts a pod with two containers, the
suite and a *sidecar*; the sidecar writes the results into the object's status,
the controller follows the pod and writes the phase. A second controller deploys
a console plugin. This directory models both controllers, both webhooks, the
sidecar and the report it computes, model-checks them on small instances and
proves the properties that matter most for instances of any size.

## The system

| part | state | operations | talks to |
|---|---|---|---|
| CertsuiteRun controller (`internal/controller/certsuiterun_controller.go`) | `certificationRuns` (run → pod name) and `certSuitePodID`, in memory only | `Reconcile`: deleted / existing / new; `updateStatus`; `handleEndOfCnfCertSuiteRun` | API server (writes), informer cache (reads), work queue |
| Sidecar (`certsuite-sidecar/app`) | the object it read | wait for the claim file, read it, `Get` by name, one status update, exit | shared volume, API server |
| Job pod (`internal/controller/cnf-cert-job`) | container states, claim file | started, suite runs, exits, is deleted | kubelet |
| CertsuiteRun object (`api/v1alpha1`) | phase, pod name, report; uid and resource version | created, deleted, status update (schema, optimistic locking) | everybody |
| CertsuiteRun webhook | none | validates one object against a config map and a secret, read from a cache | API server |
| Report computation (`cnf-cert-suite-report`) | none | `SetRunCRStatus`: claim → report, counters, verdict | sidecar |
| CertsuiteConsolePlugin controller | none | creates or deletes the plugin's resources in a loop | API server, cache, queue |
| CertsuiteConsolePlugin webhook | none | at most one object, counted in a cache | API server |
| Manager (`cmd/main.go`) | – | wiring; one worker per controller | – |

The controller and the sidecars share nothing but the API server. Both send the
*whole* status of an object they read some time before; optimistic locking is
all that protects one from the other. What is hard: the cache lags behind the
store; Update events are dropped by a filter, so progress depends on delayed
requeues; any API call may fail, or succeed and lose its answer; objects are
deleted and created again under the same name; the map and the counter are lost
when the process restarts, while pods and objects live on.

What makes each part correct: the two writers never erase each other's fields;
a phase never goes back and `CertSuiteFinished` comes with the report; one
object has one pod; only the deleted run's pod is deleted; a created run gets a
pod and its end is noticed; what the webhook checked is what the suite starts
with; an overrun is noticed, and the end shown in any case; the report says what the claim
says; the plugin's status tells the truth and its resources come and go with the
object.

## The modules

`Cluster` – objects and pods in the API server, the user, the kubelet, the
garbage collector and the suite. `crs[n]` is the object stored under a name (uid
0: none), `pods[p]` the pod named `certsuite-job-run-<p>`. The phases, the
schema's enum, the containers and their order come from the source; the
behaviour of Kubernetes is modelled from the way the code relies on it. A report
is abstracted to the uid of the object whose pod produced it, a claim file to
`none / partial / valid / rejected` (rejected: a result or verdict that the
schema's enum does not list).

`Sidecar` extends `Cluster`. `SidecarRead` is the file read with the following
`Get`, `SidecarUpdate` is `SetRunCRStatus` with the one update. The file is
read together with the object: between them the code makes no call whose effect
anybody sees. A fatal error ends the container, which never restarts.

`RunReconciler` extends `Cluster`. One worker takes a name from the queue
(`ReconcileDeleted`, `ReconcileEnd`, `ReconcileNew` are the three ways through
the first lines of `Reconcile`). `rec` is the call in progress, cut at every API
call, so that anything may happen between the decision and the call:

| `rec.pc` | waits for | actions |
|---|---|---|
| `deletePod` | deletion of the pod, line 219 | `DeleteJobPod` |
| `updateStatus` | cache read and status update, lines 99–107 | `UpdateStored`, `UpdateRetried`, `UpdateFailed` |
| `createPod` | creation of the pod, line 277 | `PodCreated`, `PodNotCreated` |
| `getPod` | reading the pod, line 153 | `PodUnreadable`, `PodRunning`, `PodFinished` |

`cache`, `events`, `queue` and `timers` are the informer's copy, notifications on
their way, the work queue and the delayed requeues. `Restart` loses everything in
memory and lists the stored objects anew. Each attempt of `updateStatus` reads
the cache and writes in one step: the cache only matters through the uid and the
resource version it carries, and a change between read and write makes the same
attempt a conflict. Failing calls are counted by `failures`; an update that is
stored may still return an error, and so may a pod's creation. The pod itself is
read as it is; a lag of the pod cache shows as an unreadable pod, as one still
running (a later poll sees the end), or as a failed call.

`CertsuiteOperator` composes the controller and the sidecars and states the
properties. `RunLifecycle` is the abstract specification of one object as its
user sees it; `Seen(n)` instantiates it with a refinement mapping for each name
and `FollowsLifecycle` says that the composition implements it.

`Report` is `SetRunCRStatus`, one step (`Visit`) per iteration of its loop over a
Go map, whose order changes from run to run: counters and results grow, a result
whose details do not have the expected shape panics (`Panics`) if its resources
are to be shown, `Finish` derives the verdict from the counters, and `Accepted`
is the schema's verdict on the whole. A claim is a function from test cases to a
state and the shape of its details; texts are left out. In `Sidecar` a claim is
`valid` if `Report` ends with an accepted report and `rejected` if not: the
composition needs no more of it.

`RunRequest` follows one request from the webhook to the phase that shows its end,
with the data the composition leaves out: the config map and the secret it names, and durations.
`ValidateCreate` is two steps, one per read of the cache (`CheckConfigMap`,
`CheckSecret` with the log level); `EditSpec` is `ValidateUpdate`, which accepts
everything; `ReadRequest` and `CreatePod` are the dispatch with the volumes of
`WithConfigMap` and `WithPreflightSecret`; `Mount` is the kubelet; `Poll` is
`handleEndOfCnfCertSuiteRun` with the comparison of line 167 in arithmetic of a
fixed width. `last` is how the last call ended: with a requeue (`waits`), a panic over
a container that does not run yet, or nothing (`done`); `refused` is the error of a
status update whose phase is not in the schema's enum (`Show`), which
`CertSuiteTimeout` is not, so that an overdue container is polled again. The webhook
may be switched off (`ENABLE_WEBHOOKS`). `fresh` and `edited` are history: the objects that have
not changed since the webhook's copy of them was taken, and whether the request
was edited.

`ConsolePlugin` is the second controller with its webhook: creation and deletion
loops, one step per API call. It is a module of its own, since the two
controllers share no object.

`MCCertsuiteOperator`, `MCReport`, `MCRunRequest` and `MCConsolePlugin` are what
TLC runs. `ByName` is the
order of `pod.Status.ContainerStatuses`: the kubelet sorts by name, the
specification lists the sidecar first. With `BySpec` (the order
`getContainerStatus` expects) `FinishedHasReport` is violated: that
`CertSuiteFinished` implies a report is, today, an effect of looking at the
sidecar's container.

Definitions marked *Mutant* are not part of the specification. Each is a
plausible bug in place of a definition; the property named for it in
`PROJECT.json` fails with it.

## What is checked

Runs that pass:

| run | instance | shows |
|---|---|---|
| `one_run` | 1 object, 3 pods, 2 failing calls, a slow and evictable pod, 1 restart, 3 attempts | `StatusKept`, `CopiesFaithful`, `FinishedHasReport`, `OnePodAtWork`, `NoneForgotten`, `FollowsLifecycle`, types |
| `interference` | 2 names created twice, 2 pods that never start, 1 failing call, any cache lag | `DeletesOwnPod` across runs and across objects of one name |
| `recovery` | 1 object, 2 restarts, no failing call, fairness | `GetsItsPod`, `EndsAreNoticed` |
| `plugin` | 1 name created twice, 3 resources, 1 failing call, 1 restart, fairness | `StatusTells`, `SettledMeansDone`, `AllCreated`, `AllRemoved`, types |
| `report` | every claim of up to 3 test cases, both display flags, every order | `EachResultOnce`, `SummaryAddsUp`, `VerdictTells`, `WholeOrNothing`, types |
| `request` | every request for 1 config map and 1 secret, 2 changes, 1 edit, durations up to 3, fairness | `StartsWithFiles`, `RefusedForCause`, `AdmittedDeploys`, `StopsWhenShown`, `OverrunIsNoticed`, `EndIsShown`, `StartsUnlessMissing`, types |

Runs that find what a comment, a name or a log line says and the code does not:

| run | the source says | the code does |
|---|---|---|
| `v_timeout` | phase `CertSuiteTimeout` exists (definitions.go:9) | the schema's enum refuses it, for ever |
| `v_early` | "check if pod's certsuite container has finished running" (controller:158) | looks at the sidecar, which waits for ever when the suite failed before its claim |
| `v_record` | the pod name field holds the running pod's name (types.go:83) | a cache that lags through 5 attempts leaves it empty for good |
| `v_report` | the report holds this run's results (types.go:85) | an old pod may report into an object created again |
| `v_restart` | "Removing the associated CNF Cert job pod" (controller:218) | after a restart it may be another run's pod |
| `v_leftover` | "Removing the console plugin resources" (plugin controller:190) | after one failed call some stay |

Bounds. `MaxGen`, `MaxPodID`, `MaxFailures` and `MaxRestarts` cap what would
otherwise be endless. One object with three pods is enough for every path of a
call and a second dispatch after a restart; interference between runs needs two
names and two pods; interference between objects of one name needs two
generations. Two failures suffice for a lost answer followed by a failed repair.
`RetrySteps` is 5 in the code; 2 or 3 behave alike for safety (a first, a middle
and a last attempt), and the liveness runs use 5. `CHECK_DEADLOCK` is off: when
all objects have ended or are gone and the bounds are used up nothing is left to
do, and that is no error. Names are symmetric in `interference`, test cases in `report`
(safety only). `StuckPods` are pods whose containers never start: in
`interference` all of them, since the property is about names and what a
container does changes none.

Three test cases let an error, a failure and a skipped or passed test meet in
every order, with one malformed among them. In `request` two changes let an object
come or go between the cache's copy, the check and the mount; one edit is enough,
since several that are seen together are one; the timeouts are one that runs out,
one that overflows with the guard and one that does not parse. `ChangeFile` and
`EditSpec` leave out changes that come when nothing reads them any more. A largest
duration of 3 has room for a limit of 1 (timeout 0, guard 1), one of 2 (the default)
and one that overflows.

Restrictions, each with its reason:

* `OnePodAtWork`, `NoneForgotten`, `FollowsLifecycle` and `EndsAreNoticed` are
  checked with `LagBeyondInterval = FALSE`: a cache that lags for longer than
  `checkInterval` (10 s) makes the requeued call take the run for a new one.
* `OnePodAtWork`, and of `DeletesOwnPod` that the deleted pod is the run's, hold
  while pod names are apart (`NamesApart`): for a single run through every restart,
  for several until the process restarts. Then the numbers begin again
  (`v_restart`), and two runs may mean one pod. That a run's pod which is deleted
  is not the stored object's holds throughout. `interference` has no restart, since
  two names, two generations and a restart make a large state space; the theorem
  `DeletesOwnPods` covers what the run does not.
* `FollowsLifecycle` is stated of the same cases. With two names and a restart it
  fails: a run whose pod was created but not recorded (one lost update) is
  dispatched again, and under a new number when the other run took its old one.
  It then has two pods; when the second fails, `CertSuiteError` is shown and the
  first may still add its report.
* `NoneForgotten` excepts a run for which a call failed after this process
  dispatched it: `Reconcile` returns nil after a failed update, and such a run is
  dropped (`v_record` is one way). With two objects of one name and a cache that
  lags as it likes (`MaxGen = 2`) it fails: TLC finds a run that nothing in the
  process remembers.
* `recovery` has no failing calls: one lost update to `CertSuiteRunning` ends the
  polling of that run for good.
* `recovery` has one object: with two, a restart gives numbers out again and a
  run may stay without a pod, and the same happens to an object that is created
  again while its name is being dispatched.
* `FinishedHasReport` and `GetsItsPod` are checked with one object per name. When
  an object is deleted and created again while its dispatch waits for an API
  call, the pod is built for the old object and its name recorded in the new one.
  If its sidecar has stored its report in the old object by then, the new one
  shows `CertSuiteFinished` without a report: TLC finds this with `MaxGen = 2`.
  The README of the operator (line 258) promises otherwise.
* `StatusTells` and `SettledMeansDone` are about one name: two plugin objects share
  their resources, and the webhook does not exclude two: it counts in a copy that
  need not show the first. `SettledMeansDone` allows a failed call to leave a resource out, since the
  creation loop goes on after it, and a restart to leave the resources of an
  object behind that was deleted while nobody looked.
* `StartsWithFiles` ends at an edit, which nothing validates, and leaves out
  objects that changed after the webhook's copy. `AdmittedDeploys` ends at an edit too.
* No property says that a run is taken for overdue only when it is. It does not hold:
  the controller reads the timeout anew at each poll, while the suite was started
  with the old one, and a timeout that overflows with the guard is over at once.
  `StopsWhenShown` and `EndIsShown` say that this costs retries and not the end of
  the run. They owe it to the schema: were `CertSuiteTimeout` in its enum, as
  `v_timeout` suggests it should be, the polling would stop there (line 173), and a
  run taken for overdue would not be shown as finished.
* `OverrunIsNoticed` is about what the controller finds and asks for. The user sees
  nothing of it: the schema refuses the phase (`v_timeout`).
* `RunRequest` has no restarts, no deletion of the request, and no calls that fail
  other than by a refusal: these are the composition's, where a pod is overdue or
  not and its files are there.

Fairness (`Fairness`, and `FairSpec` in `ConsolePlugin`). The informer, its event
handler and the timers are goroutines that always run, a call in progress is
executed (weak fairness of each). The work queue is FIFO, so a name that is
queued is taken although others come back again and again: strong fairness per
name, since the worker is busy in between. Nothing is assumed of the user, the
suite, the kubelet or the garbage collector there: a pod may wait or run for ever.
`RunRequest` asks more of the kubelet: it retries a mount until the object exists
and then starts the containers (weak fairness of `Mount` and `StartPod`), because
`StartsUnlessMissing` is about what the operator built it to mount. Time passes,
polls come (`RequeueAfter`) and calls are answered; a suite need not end, the
cache need not catch up with an edit, and no object need ever appear.

## What is proved

The proofs are in one module per component or invariant, for any set of runs,
plugins or test cases, any bounds and any order of container statuses. The
assumptions are those of the modules: the bounds are natural numbers, `NoName` is
no run, the claim kinds are known ones, test cases are finitely many, the default
timeout and its guard fit a duration. Where a theorem assumes more, it says so.

`CertsuiteOperator_proofs`:

* `TypeCorrect`: `Spec => []TypeOK`.
* `CopiesCorrect`: `Spec => []CopiesFaithful`. The statement is not inductive: a
  copy with another version might become current later. `CopiesInv` says that a
  copy is never newer than the stored object, equals it if it has its version,
  and that uids never exceed those given out. `StepsOfTheStore`,
  `StepsOfThePods` and `StepsOfTheCache` reduce the actions to the few ways they
  change objects, pods and cache; `CopiesLast` carries a copy through each.
* `StatusIsKept`: `Spec => StatusKept`, an action property. Only `UpdateStored`
  and `SidecarUpdate` write an existing object; each starts from a copy that,
  being current, *is* the stored object (`CopiesCorrect`), and sets one field.
* `DeletesOwnPods`: `Spec => []DeletesOwnPod`, by `PodsInv`. `UidsInv` holds
  always: a uid the controller has worked with is the one its cache shows as long as
  the object is stored – so when the cache says *deleted*, the pod's owner is not
  stored. `OwnersInv` keeps that during the deletion: an object created meanwhile
  has a newer uid. `NamesInv` holds while names are apart: names in the map differ,
  belong to pods of that run, and a call on its way to creating or deleting a pod
  carries the name in the map. In the first process no pod is above the counter;
  later there is a single run, so every pod is that run's.

`Dispatch_proofs`: what becomes of a name in the running process, under
`~LagBeyondInterval`. The assumption `LagAssumption` of `RunReconciler` then gives
one object per name.

* `NoRunForgotten`: `Spec => []NoneForgotten`, for any number of runs, failures
  and restarts. The safety half of `EndsAreNoticed` and `GetsItsPod`: updates are
  filtered out and nothing lists the objects again, so a run goes on only because
  some queue holds its name. `History` is one of `Unused` (no object yet), `Fresh`
  (its one notification is exactly once between API server and worker),
  `Inherited` (an earlier process recorded the pod: this one looks after it and
  never dispatches) and `Dispatched` (whatever brings the name back to the queue
  comes after the cache shows the pod's name); `Polled` says that a run with a
  recorded pod is polled until its end is shown.
* `OnePod`: `Spec => []OnePodAtWork`. In the first process `OnlyPod` – every pod
  of the object has the name in the map – because a second dispatch needs a call
  that takes the object for a new one, which no state with a pod is. For a single
  run `FirstPod`: each process gives out at most the number 1, so the second pod
  of a run dispatched again would have the name of the first, and is refused.

`FinishedReport_proofs`: `FinishedRuns`, that `FinishedHasReport` holds while names
are apart, with one object per name and when the second status is the sidecar's
(`SidecarIsObserved`; TLC refutes it with `BySpec`). `OwnsInv`, of the first
process: a pod name in an object, a cached copy or a call is no other run's, now or
later; of a single run there is nothing to say. `ReportsInv`: a sidecar that exited
with 0 has stored a report in its object, and a call that is to write
`CertSuiteFinished` has seen such a sidecar. `StepsOfTheFields` reduces a step to
the four ways a status can change, `SidecarEnds` says that a sidecar ends well only
in the step that stores.

`Refinement_proofs`: `FollowsTheLifecycle`, that `Spec => FollowsLifecycle` when
`MaxRestarts = 0` or there is a single run (`OneName`), under `~LagBeyondInterval`
and `SidecarIsObserved`: the initial states map to initial states, and each step to
a step of `RunLifecycle` or none, for every run. It rests on the invariants of the
two modules before it and on `OrderInv`, which says for a stored object that its
phase fits what the call in progress is doing for it (`Dispatches`, `Creates`,
`ShowsEnd`), that its pod is recorded exactly from `CertSuiteRunning` on, and that
its pod's sidecar has ended as the phase, shown or about to be shown, says
(`PodAgrees`). The last part is why a report cannot follow an end: whoever would
write it has terminated, and no container is started twice (`EndedStays`).
`CallSteps` says how a call comes to each of those activities, `OrderStep` that they
keep agreeing, `LifecycleSteps` maps the steps.

`Report_proofs`: the five properties of `Report`. The counters are cardinalities
of what the loop has visited, the results a list of exactly those test cases; the
rest is arithmetic on finite sets.

`RunRequest_proofs`: types, `StartsWithFiles`, `RefusedForCause`, `AdmittedDeploys`,
and `StopsWhenShown`, the safety half of `EndIsShown`.
`CopiesAgree` (the webhook's copy of a fresh object is the object), `Vouched`
(what has been checked is filled, as long as it is fresh, up to the pod's
volumes) and `Mounted` (what is mounted of it is filled) carry the check of the
webhook to the start of the suite.

`ConsolePlugin_proofs`, for any number of resources, re-creations, failures and
restarts:

* `PluginTypes`: `Spec => []TypeOK`, for any number of names.
* `StatusIsTrue`: `Spec => []StatusTells` for a single name (`OneName`).
  `CopiesTell` and `CallTells` say the same of the cached object and of the copy
  in the running call, when they have the stored object's uid, and that while
  resources are being deleted the stored object claims none.
* `SettledIsDone`: `Spec => []SettledMeansDone` for a single name, the safety half
  of `AllCreated` and `AllRemoved`. `CallReached` says how far the loops have
  come; `Creates` and `Removes` that an object that is to be seen has its
  resources, one that is not has none, or a call is at it that will end so, or
  something (event, queue, backoff) will call the controller back (`Awaited`).

Only model-checked: liveness (`EndsAreNoticed`, `GetsItsPod`, `AllCreated`,
`AllRemoved`, `OverrunIsNoticed`, `EndIsShown`, `StartsUnlessMissing`), which this prover cannot do.
`NoRunForgotten`, `SettledIsDone` and `PolledUntilShown` prove the part of it that is safety: nothing
that still has to happen is left without somebody who will do it. Every invariant
and every action property of the passing runs is proved, under the assumptions
named above.

## What is not modelled

* The arguments passed on to the suite (labels filter, log level, data
  collection) and what it does with them: nothing in the operator reads them back.
* The list of tested workloads copied into a report (`getCnfTargetsFromClaim`)
  and the texts of results: copied as they are.
* Leader election, that is two processes at once, and the rest of `cmd/main.go`:
  flags, TLS, metrics, health endpoints.
* A re-listing informer that turns a deletion and a creation into one ignored
  update, and a webhook that is down (`failurePolicy=fail`: no request then).
* What becomes of two console plugin objects at once, which the webhook's count
  does not exclude (`ValidateCreate` and `Store` are two steps, and the cache may
  not show the first): their resources are shared, and the code promises nothing.
* Logging, generated deep copies, the helpers of the end-to-end tests.

## Plan

1. Done: `Cluster`, `Sidecar`, `RunReconciler`, `CertsuiteOperator`,
   `RunLifecycle`, `ConsolePlugin`, `Report`, `RunRequest`, their runs, and the
   theorems above.
2. Re-dispatch: what does hold with two generations of a name under fairness.
3. Leader hand-over with two processes.
