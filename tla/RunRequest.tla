----------------------------- MODULE RunRequest -----------------------------
(***************************************************************************)
(* What becomes of one request for a run: the validating webhook           *)
(* (api/v1alpha1/certsuiterun_webhook.go), which may be switched off, the  *)
(* pod built from the request (cnf-cert-job/cnfcertjob.go), the volumes it *)
(* waits for, and the polls of the controller until it has shown the end.  *)
(* The config maps and the secrets change meanwhile, the webhook reads     *)
(* them from an informer's copy, and the request may be edited once it is  *)
(* stored. Calls fail here only when the API server refuses what they      *)
(* carry; those that just fail and the restarts are in RunReconciler.      *)
(***************************************************************************)
EXTENDS Integers

CONSTANTS
    ConfigMaps, Secrets,    \* names of objects of the namespace
    Timeouts, Parsed,       \* texts of spec.timeout; the durations of those that parse
    Default, Guard,         \* defaultCertSuiteTimeout, certSuiteTimeoutSafeGuard
    MaxDuration,            \* the largest time.Duration
    MaxChanges              \* bound: changes of objects, and the edit of the request

EmptyName == "empty name"

Objects == ConfigMaps \cup Secrets

ASSUME NamesAssumption ==
    /\ ConfigMaps \cap Secrets = {} /\ EmptyName \notin Objects /\ "nil" \notin Objects
    /\ MaxChanges \in Nat

ASSUME DurationsAssumption ==
    /\ MaxDuration \in Nat /\ Guard \in 0..MaxDuration
    /\ Default \in Nat /\ Default + Guard <= MaxDuration
    /\ DOMAIN Parsed \subseteq Timeouts
    /\ \A t \in DOMAIN Parsed : Parsed[t] \in (-MaxDuration - 1)..MaxDuration

VARIABLES
    webhooks,  \* ENABLE_WEBHOOKS of the operator
    files,     \* the objects: absent, without the key ("bare") or "filled"
    seen,      \* the copies of them the webhook reads
    fresh,     \* (history) the objects not changed since the copy was taken
    spec,      \* the request's spec, as stored
    known,     \* the controller's cached copy of it
    edited,    \* (history) it was edited
    stage,     \* how far the request is
    job,       \* the spec the pod is built from
    volumes,   \* the objects the pod mounts
    mounted,   \* what each mounted object held
    elapsed,   \* how long its containers have been running
    phase,     \* the phase in the request's status
    last,      \* how the last call of Reconcile ended
    changes    \* how often an object changed or the request was edited

requestVars == <<webhooks, spec, known, edited>>
fileVars    == <<files, seen, fresh>>
podVars     == <<job, volumes, mounted, elapsed, phase, last>>
vars == <<requestVars, fileVars, podVars, stage, changes>>

Contents == {"absent", "bare", "filled"}

Specs == [config : ConfigMaps \cup {EmptyName}, secret : Secrets \cup {EmptyName, "nil"},
          logLevel : {"known", "unknown"}, timeout : Timeouts]

Stages == {"configMap", "secret", "refused", "stored", "deploying",
           "deployError", "pending", "running", "ended"}

(* The schema's enum: neither CertSuiteTimeout nor CertSuiteDeployError.   *)
PhaseEnum == {"CertSuiteDeploying", "CertSuiteDeployFailure", "CertSuiteRunning",
              "CertSuiteFinished", "CertSuiteError"}

(* A requeue after checkInterval, a panic over a container that does not   *)
(* run yet and an error (both retried with a backoff), or nothing.         *)
Results == {"waits", "panics", "refused", "done"}

TypeOK ==
    /\ webhooks \in BOOLEAN
    /\ files \in [Objects -> Contents] /\ seen \in [Objects -> Contents]
    /\ fresh \subseteq Objects
    /\ spec \in Specs /\ known \in Specs /\ job \in Specs
    /\ stage \in Stages
    /\ volumes \subseteq Objects \cup {EmptyName}
    /\ mounted \in [Objects -> Contents]
    /\ elapsed \in 0..MaxDuration
    /\ phase \in {""} \cup PhaseEnum /\ last \in Results
    /\ edited \in BOOLEAN /\ changes \in 0..MaxChanges

Init ==
    /\ webhooks \in BOOLEAN
    /\ files \in [Objects -> Contents] /\ seen = files /\ fresh = Objects
    /\ spec \in Specs /\ known = spec /\ job = spec
    /\ stage = IF webhooks THEN "configMap" ELSE "stored"
    /\ volumes = {} /\ mounted = [o \in Objects |-> "absent"]
    /\ elapsed = 0 /\ phase = "" /\ last = "waits" /\ edited = FALSE /\ changes = 0

----------------------------------------------------------------------------
(* Somebody creates, fills, empties or deletes an object. What happens to  *)
(* the objects once the suite runs, or never will, is of no consequence.   *)
ChangeFile(o) ==
    /\ stage \notin {"refused", "deployError", "running", "ended"}
    /\ changes < MaxChanges /\ changes' = changes + 1
    /\ \E c \in Contents : c # files[o] /\ files' = [files EXCEPT ![o] = c]
    /\ fresh' = fresh \ {o}
    /\ UNCHANGED <<seen, stage, requestVars, podVars>>

(* The informer catches up with an object the webhook has yet to read.     *)
SeeFile(o) ==
    /\ stage = "configMap" \/ (stage = "secret" /\ o \in Secrets)
    /\ seen[o] # files[o]
    /\ seen' = [seen EXCEPT ![o] = files[o]] /\ fresh' = fresh \cup {o}
    /\ UNCHANGED <<files, changes, stage, requestVars, podVars>>

(* Mutant: an object that is found will do, whatever it holds. *)
Found(o) == o \in Objects /\ seen[o] # "absent"

(* The object is found by its name and its key holds something.            *)
Usable(o) == o \in Objects /\ seen[o] = "filled"

(* validateConfigMap.                                                      *)
CheckConfigMap ==
    /\ stage = "configMap"
    /\ stage' = IF Usable(spec.config) THEN "secret" ELSE "refused"
    /\ UNCHANGED <<changes, requestVars, fileVars, podVars>>

(* Mutant: a request has to name a secret. *)
NeedsSecret == Usable(spec.secret)

(* validatePreflightSecret: no secret is fine, an empty name is not.       *)
SecretPasses == spec.secret = "nil" \/ Usable(spec.secret)

(* validatePreflightSecret and validateLogLevel; the request is stored.    *)
CheckSecret ==
    /\ stage = "secret"
    /\ stage' = IF SecretPasses /\ spec.logLevel = "known" THEN "stored" ELSE "refused"
    /\ UNCHANGED <<changes, requestVars, fileVars, podVars>>

(* ValidateUpdate lets every edit of a stored request pass. One edit is    *)
(* enough (several that are seen together are one), and none that comes    *)
(* when the run is over matters. The log level is of consequence for the   *)
(* webhook alone, and once the request has been dispatched, its timeout is *)
(* all that is read of it again.                                           *)
EditSpec ==
    /\ stage \in {"stored", "deploying", "pending", "running"}
    /\ changes < MaxChanges /\ changes' = changes + 1
    /\ ~edited /\ edited' = TRUE
    /\ \E s \in Specs : /\ s # spec /\ s.logLevel = spec.logLevel /\ spec' = s
                        /\ stage = "stored" \/ s = [spec EXCEPT !.timeout = s.timeout]
    /\ UNCHANGED <<webhooks, known, stage, fileVars, podVars>>

SeeSpec ==
    /\ known # spec /\ known' = spec
    /\ UNCHANGED <<changes, webhooks, spec, edited, stage, fileVars, podVars>>

----------------------------------------------------------------------------
(* The status after updateStatusPhase(p): the API server checks the enum.  *)
WithPhase(p) == IF p \in PhaseEnum THEN p ELSE phase

(* The reconciler reads the request; an edit never wakes it.               *)
ReadRequest ==
    /\ stage = "stored" /\ stage' = "deploying"
    /\ job' = known /\ phase' = WithPhase("CertSuiteDeploying")
    /\ UNCHANGED <<changes, volumes, mounted, elapsed, last, requestVars, fileVars>>

(* Mutant: the volume of a secret that is not named is added all the same. *)
VolumesWithNil(s) == {s.config, s.secret}

(* Mutant: a secret that is not named gets a volume without a name. *)
VolumesWithEmpty(s) == {s.config, IF s.secret = "nil" THEN EmptyName ELSE s.secret}

(* The options of New that depend on the request and name an object.       *)
VolumesOf(s) == {s.config} \cup (IF s.secret = "nil" THEN {} ELSE {s.secret})

(* The API server refuses a pod with a volume that names no object, and    *)
(* then the phase that says so; the reconciler does not try again.         *)
CreatePod ==
    /\ stage = "deploying"
    /\ volumes' = VolumesOf(job)
    /\ IF EmptyName \in VolumesOf(job)
       THEN /\ stage' = "deployError" /\ last' = "done"
            /\ phase' = WithPhase("CertSuiteDeployError")
       ELSE /\ stage' = "pending" /\ last' = "waits"
            /\ phase' = WithPhase("CertSuiteRunning")
    /\ UNCHANGED <<changes, job, mounted, elapsed, requestVars, fileVars>>

(* The kubelet mounts a volume once its object exists, and then starts.    *)
Mount(o) ==
    /\ stage = "pending" /\ o \in volumes
    /\ mounted[o] = "absent" /\ files[o] # "absent"
    /\ mounted' = [mounted EXCEPT ![o] = files[o]]
    /\ UNCHANGED <<changes, stage, job, volumes, elapsed, phase, last, requestVars, fileVars>>

StartPod ==
    /\ stage = "pending" /\ \A o \in volumes : mounted[o] # "absent"
    /\ stage' = "running"
    /\ UNCHANGED <<changes, requestVars, fileVars, podVars>>

Tick ==
    /\ stage = "running"
    /\ elapsed < MaxDuration /\ elapsed' = elapsed + 1
    /\ UNCHANGED <<changes, stage, job, volumes, mounted, phase, last, requestVars, fileVars>>

(* The container whose status the controller reads terminates.             *)
ContainerEnds ==
    /\ stage = "running" /\ stage' = "ended"
    /\ UNCHANGED <<changes, requestVars, fileVars, podVars>>

----------------------------------------------------------------------------
getJobRunTimeThreshold(t) == IF t \in DOMAIN Parsed THEN Parsed[t] ELSE Default

(* The sum of two durations, which are signed and of a fixed width.        *)
Sum2(a, b) == IF a + b > MaxDuration THEN a + b - 2 * (MaxDuration + 1) ELSE a + b

(* Mutant: a timeout that does not parse is no limit at all. *)
OverdueIfParsed ==
    /\ known.timeout \in DOMAIN Parsed
    /\ elapsed > Sum2(getJobRunTimeThreshold(known.timeout), Guard)

(* The timeout is the one of the spec as it is now, not the suite's.       *)
Overdue == elapsed > Sum2(getJobRunTimeThreshold(known.timeout), Guard)

(* Mutant: a refused update is logged and not tried again, as it is when   *)
(* the run is dispatched (line 293). *)
ShowOnce(p) == phase' = WithPhase(p) /\ last' = "done"

(* The update of the phase, whose error handleEndOfCnfCertSuiteRun returns.*)
Show(p) ==
    /\ phase' = WithPhase(p)
    /\ last' = IF p \in PhaseEnum THEN "done" ELSE "refused"

EndPhases == {"CertSuiteFinished", "CertSuiteError"}

(* Mutant: Reconcile keeps the error of handleEndOfCnfCertSuiteRun for     *)
(* itself. *)
CalledAfterWait == last = "waits"

(* Reconcile returns the requeue or the error, and is called again.        *)
CalledAgain == last # "done"

(* handleEndOfCnfCertSuiteRun. An overdue container is polled on only      *)
(* because the schema refuses its phase.                                   *)
Poll ==
    /\ CalledAgain
    /\ \/ stage = "pending" /\ last' = "panics" /\ UNCHANGED phase
       \/ stage = "running" /\ ~Overdue /\ last' = "waits" /\ UNCHANGED phase
       \/ stage = "running" /\ Overdue /\ Show("CertSuiteTimeout")
       \/ stage = "ended" /\ \E p \in EndPhases : Show(p)
    /\ UNCHANGED <<changes, stage, job, volumes, mounted, elapsed, requestVars, fileVars>>

Next ==
    \/ \E o \in Objects : ChangeFile(o) \/ SeeFile(o) \/ Mount(o)
    \/ CheckConfigMap \/ CheckSecret \/ EditSpec \/ SeeSpec
    \/ ReadRequest \/ CreatePod \/ StartPod \/ Tick \/ ContainerEnds \/ Poll

(* The calls get answers, the queue is served, the kubelet retries a mount *)
(* until it succeeds, and every poll comes, after an interval or a backoff.*)
(* A container need not end, and no object need ever appear.               *)
Fairness ==
    /\ WF_vars(CheckConfigMap) /\ WF_vars(CheckSecret)
    /\ WF_vars(ReadRequest) /\ WF_vars(CreatePod)
    /\ WF_vars(\E o \in Objects : Mount(o)) /\ WF_vars(StartPod)
    /\ WF_vars(Tick) /\ WF_vars(Poll)

Spec == Init /\ [][Next]_vars /\ Fairness

----------------------------------------------------------------------------
(* Unless the request was edited, a suite admitted by the webhook starts   *)
(* with a filled config file and a filled secret, or the object changed    *)
(* after the webhook's copy of it was taken: the check of the key carries  *)
(* over the wait for the reconciler, the pod and its volumes.              *)
StartsWithFiles ==
    webhooks /\ ~edited /\ stage \in {"running", "ended"} =>
        \A o \in volumes \cap fresh : mounted[o] = "filled"

(* A request is refused for what is wrong with it: an empty name, a log    *)
(* level that is not one, or an object that is not filled, or was not when *)
(* the webhook's copy was taken. A request without a secret is fine.       *)
RefusedForCause ==
    stage = "refused" =>
        \/ spec.config = EmptyName \/ spec.secret = EmptyName \/ spec.logLevel = "unknown"
        \/ \E o \in VolumesOf(spec) : o \notin fresh \/ files[o] # "filled"

(* What the webhook lets pass, the API server does not refuse as a pod:    *)
(* the two read the names of a request alike, an empty one and none at all *)
(* too. After an edit, which nothing validates, this is not so.            *)
AdmittedDeploys == webhooks /\ ~edited => stage # "deployError"

(* The limit the controller goes by, in exact arithmetic.                  *)
KnownLimit == getJobRunTimeThreshold(known.timeout) + Guard

(* A container that does not end is found overdue, whatever the timeout    *)
(* says, a text that does not parse and one that was edited during the run *)
(* included, if the time can be up at all: the controller then asks for    *)
(* CertSuiteTimeout and is refused (TimeoutIsReported of CertsuiteOperator *)
(* is about what the user sees of it, which is nothing).                   *)
OverrunIsNoticed ==
    (stage = "running" /\ KnownLimit < MaxDuration)
        ~> (last = "refused" \/ stage = "ended" \/ KnownLimit >= MaxDuration)

(* The end of a run is shown, even of one that was taken for overdue, when *)
(* it was or because of an edit or an overflow: the refusal of that phase  *)
(* must not be the end of the polling.                                     *)
EndIsShown == (stage = "ended") ~> (phase \in EndPhases)

(* The controller leaves off a pod it started only when the container has  *)
(* ended and the request shows it: no poll, whatever it finds and however  *)
(* the API server answers it, is the last one before. A dispatched run is  *)
(* not waiting in any other queue: an edit does not bring it back.         *)
StopsWhenShown ==
    stage \in {"pending", "running", "ended"} /\ last = "done" =>
        stage = "ended" /\ phase \in EndPhases

(* A request that passed the webhook and is not edited starts its suite,   *)
(* unless an object that it names stays away for good.                     *)
Missing == \E o \in VolumesOf(job) : o \in Objects /\ files[o] = "absent"

StartsUnlessMissing ==
    (webhooks /\ stage = "stored")
        ~> (stage \in {"running", "ended"} \/ edited \/ []Missing)
=============================================================================
