--------------------------- MODULE ConsolePlugin ---------------------------
(***************************************************************************)
(* The CertsuiteConsolePlugin controller and its admission webhook         *)
(* (internal/controller/certsuiteconsoleplugin_controller.go,              *)
(* api/v1alpha1/certsuiteconsoleplugin_webhook.go). A CertsuiteConsole-    *)
(* Plugin object asks for the resources of the console plugin, which are   *)
(* created one by one when it appears and deleted one by one when it goes. *)
(* The resources have fixed names: every such object means the same ones.  *)
(***************************************************************************)
EXTENDS Integers, FiniteSets

CONSTANTS
    Plugins,     \* names of CertsuiteConsolePlugin objects
    NoName,      \* stands for "no object"
    Last,        \* how many resources there are (4 files in /plugin)
    MaxGen,      \* bound: how often an object of one name may be created
    MaxFailures, \* bound: API calls of the controller that fail
    MaxRestarts  \* bound: how often the operator process restarts

ASSUME PluginsAssumption == NoName \notin Plugins /\ Last \in Nat \ {0}
ASSUME PluginBounds == MaxGen \in Nat /\ MaxFailures \in Nat /\ MaxRestarts \in Nat

VARIABLES
    stored,    \* the object stored under each name
    gen,       \* how many objects were created under each name
    resources, \* the resources that exist
    admitted,  \* requests that passed the webhook and are not stored yet
    cache,     \* the informer's copy of the objects
    pending,   \* names whose Add or Delete is not yet in the work queue
    queue,     \* names in the work queue
    backoff,   \* names that will be queued again after an error
    rec,       \* the Reconcile call in progress
    failures,  \* how many calls have failed so far
    restarts   \* how often the process has restarted

userVars == <<stored, gen, admitted>>
queueVars == <<cache, pending, queue>>
vars == <<userVars, resources, queueVars, backoff, rec, failures, restarts>>

(* The files of /plugin in the order os.ReadDir returns them.              *)
Resources == 1 .. Last

(* What the last condition of an object's status says of each resource.    *)
Conditions == [Resources -> {"none", "created", "exists", "failed"}]

Objects == [uid : 0 .. MaxGen, rv : Nat, conditions : Conditions]

NoPlugin == [uid |-> 0, rv |-> 0, conditions |-> [i \in Resources |-> "none"]]

Present(obj) == obj.uid # 0

Calls == [pc : {"idle", "create", "update", "delete"}, name : Plugins \cup {NoName},
          next : Resources, copy : Objects]

Idle == [pc |-> "idle", name |-> NoName, next |-> 1, copy |-> NoPlugin]

TypeOK ==
    /\ stored \in [Plugins -> Objects] /\ gen \in [Plugins -> 0 .. MaxGen]
    /\ resources \subseteq Resources /\ admitted \subseteq Plugins
    /\ cache \in [Plugins -> Objects] /\ rec \in Calls
    /\ pending \subseteq Plugins /\ queue \subseteq Plugins /\ backoff \subseteq Plugins
    /\ failures \in 0 .. MaxFailures /\ restarts \in 0 .. MaxRestarts

Init ==
    /\ stored = [n \in Plugins |-> NoPlugin] /\ gen = [n \in Plugins |-> 0]
    /\ resources = {} /\ admitted = {}
    /\ cache = stored /\ rec = Idle
    /\ pending = {} /\ queue = {} /\ backoff = {}
    /\ failures = 0 /\ restarts = 0

----------------------------------------------------------------------------
(* The user and the webhook. A request is checked against the webhook's    *)
(* own list of objects, which is the informer's copy, and stored later.    *)

ValidateCreate(n) ==
    /\ ~Present(stored[n]) /\ n \notin admitted /\ gen[n] < MaxGen
    /\ \A m \in Plugins : ~Present(cache[m])
    /\ admitted' = admitted \cup {n}
    /\ UNCHANGED <<stored, gen, resources, queueVars, backoff, rec, failures, restarts>>

Store(n) ==
    /\ n \in admitted
    /\ admitted' = admitted \ {n}
    /\ gen' = [gen EXCEPT ![n] = gen[n] + 1]
    /\ stored' = [stored EXCEPT ![n] = [NoPlugin EXCEPT !.uid = gen[n] + 1, !.rv = 1]]
    /\ UNCHANGED <<resources, queueVars, backoff, rec, failures, restarts>>

DeletePlugin(n) ==
    /\ Present(stored[n])
    /\ stored' = [stored EXCEPT ![n] = NoPlugin]
    /\ UNCHANGED <<gen, resources, admitted, queueVars, backoff, rec, failures, restarts>>

----------------------------------------------------------------------------
(* The informer and the work queue. Updates are ignored by the event filter*)

Informs(n) ==
    /\ stored[n] # cache[n]
    /\ IF Present(cache[n]) /\ stored[n].uid # cache[n].uid
       THEN cache' = [cache EXCEPT ![n] = NoPlugin]
       ELSE cache' = [cache EXCEPT ![n] = stored[n]]
    /\ pending' = IF cache'[n].uid = cache[n].uid THEN pending ELSE pending \cup {n}
    /\ UNCHANGED <<userVars, resources, queue, backoff, rec, failures, restarts>>

Deliver(n) ==
    /\ n \in pending
    /\ pending' = pending \ {n} /\ queue' = queue \cup {n}
    /\ UNCHANGED <<userVars, resources, cache, backoff, rec, failures, restarts>>

BackoffEnds(n) ==
    /\ n \in backoff
    /\ backoff' = backoff \ {n} /\ queue' = queue \cup {n}
    /\ UNCHANGED <<userVars, resources, cache, pending, rec, failures, restarts>>

----------------------------------------------------------------------------
(* Reconcile. *)

CallFails == failures < MaxFailures /\ failures' = failures + 1

(* Mutant: an error is logged, and not returned.                           *)
Logged == rec' = Idle /\ UNCHANGED backoff

Done == rec' = Idle /\ UNCHANGED backoff
Error == rec' = Idle /\ backoff' = backoff \cup {rec.name}

(* Mutants: the loop ends one resource too early, or one too late.         *)
OneShort(pc, copy) ==
    IF rec.next + 1 >= Last THEN Done
    ELSE /\ rec' = [rec EXCEPT !.pc = pc, !.next = rec.next + 1, !.copy = copy]
         /\ UNCHANGED backoff

OneBeyond(pc, copy) ==
    IF rec.next > Last THEN Done
    ELSE /\ rec' = [rec EXCEPT !.pc = pc, !.next = rec.next + 1, !.copy = copy]
         /\ UNCHANGED backoff

(* On to the next resource, with the object as it is now, or to the end.   *)
Onwards(pc, copy) ==
    IF rec.next = Last THEN Done
    ELSE /\ rec' = [rec EXCEPT !.pc = pc, !.next = rec.next + 1, !.copy = copy]
         /\ UNCHANGED backoff

Reconcile(n) ==
    /\ rec.pc = "idle" /\ n \in queue
    /\ queue' = queue \ {n}
    /\ rec' = IF Present(cache[n])
              THEN [Idle EXCEPT !.pc = "create", !.name = n, !.copy = cache[n]]
              ELSE [Idle EXCEPT !.pc = "delete", !.name = n]
    /\ UNCHANGED <<userVars, resources, cache, pending, backoff, failures, restarts>>

(* Mutant: a failed call leaves the condition as it was prepared.          *)
PreparedCondition(result) == IF result = "exists" THEN "exists" ELSE "created"

(* The condition tells how Create ended.                                   *)
ConditionOf(result) == result

(* createConsolePluginResources: create one resource, whatever comes of it *)
(* note it in the object's status, and only then go on to the next one.    *)
CreateResource ==
    /\ rec.pc = "create"
    /\ \E result \in {"created", "exists", "failed"} :
        /\ \/ /\ result = (IF rec.next \in resources THEN "exists" ELSE "created")
              /\ resources' = resources \cup {rec.next}
              /\ UNCHANGED failures
           \/ /\ result = "failed" /\ CallFails
              /\ resources' \in {resources, resources \cup {rec.next}}
        /\ rec' = [rec EXCEPT !.pc = "update",
                              !.copy.conditions[rec.next] = ConditionOf(result)]
    /\ UNCHANGED <<userVars, queueVars, backoff, restarts>>

Updated == [rec.copy EXCEPT !.rv = rec.copy.rv + 1]

UpdateStatus ==
    /\ rec.pc = "update"
    /\ LET n == rec.name
           current == /\ stored[n].uid = rec.copy.uid
                      /\ stored[n].rv = rec.copy.rv
       IN  \/ /\ current
              /\ stored' = [stored EXCEPT ![n] = Updated]
              /\ \/ Onwards("create", Updated) /\ UNCHANGED failures
                 \/ CallFails /\ Error
           \/ /\ ~current /\ Error
              /\ UNCHANGED <<stored, failures>>
           \/ /\ CallFails /\ Error
              /\ UNCHANGED stored
    /\ UNCHANGED <<gen, admitted, resources, queueVars, restarts>>

(* Mutant: the resources are deleted in the reverse order. *)
LastFirst == Last + 1 - rec.next

ToDelete == rec.next

(* deleteConsolePluginResources: any error, NotFound too, ends the loop.   *)
DeleteResource ==
    /\ rec.pc = "delete"
    /\ \/ /\ ToDelete \in resources
          /\ resources' = resources \ {ToDelete}
          /\ Onwards("delete", NoPlugin)
          /\ UNCHANGED failures
       \/ /\ ToDelete \notin resources
          /\ Error
          /\ UNCHANGED <<resources, failures>>
       \/ /\ CallFails /\ Error
          /\ resources' \in {resources, resources \ {ToDelete}}
    /\ UNCHANGED <<userVars, queueVars, restarts>>

CallNext == CreateResource \/ UpdateStatus \/ DeleteResource

(* A new process lists the objects; what was deleted meanwhile is unknown. *)
Restart ==
    /\ restarts < MaxRestarts
    /\ restarts' = restarts + 1
    /\ cache' = stored
    /\ pending' = {n \in Plugins : Present(stored[n])}
    /\ queue' = {} /\ backoff' = {} /\ rec' = Idle
    /\ UNCHANGED <<userVars, resources, failures>>

Next ==
    \/ \E n \in Plugins :
          \/ ValidateCreate(n) \/ Store(n) \/ DeletePlugin(n)
          \/ Informs(n) \/ Deliver(n) \/ BackoffEnds(n) \/ Reconcile(n)
    \/ CallNext
    \/ Restart

Spec == Init /\ [][Next]_vars

(* The controller's goroutines always run, and the work queue is FIFO.     *)
FairSpec == /\ Spec
            /\ \A n \in Plugins : /\ WF_vars(Informs(n)) /\ WF_vars(Deliver(n))
                                  /\ WF_vars(BackoffEnds(n)) /\ SF_vars(Reconcile(n))
            /\ WF_vars(CallNext)

----------------------------------------------------------------------------
Requested == \E n \in Plugins : Present(stored[n])

Disturbed == failures > 0

(* What an object's status says was created, or was there, is there: no    *)
(* deletion that was begun for an earlier object of that name, retried, or *)
(* interrupted takes it away. This is claimed of one name only: two names  *)
(* share the resources, and the deletion of one takes them from the other. *)
StatusTells ==
    \A n \in Plugins, i \in Resources :
        stored[n].conditions[i] \in {"created", "exists"} => i \in resources

(* A controller with nothing left to do for a name has done its work: what *)
(* calls it back, an event or an error, is never lost too early. A failing *)
(* call may leave a resource out, a restart may leave the resources of an  *)
(* object behind that went meanwhile. One name only, as above.             *)
Settled(n) == /\ cache[n].uid = stored[n].uid
              /\ n \notin pending \cup queue \cup backoff
              /\ rec.pc = "idle"

SettledMeansDone ==
    \A n \in Plugins : Settled(n) =>
        IF Present(stored[n]) THEN resources = Resources \/ Disturbed
                              ELSE resources = {} \/ restarts > 0

(* As long as no call fails, an object that stays gets all its resources,  *)
(* through restarts and whatever an earlier object of its name left behind.*)
AllCreated ==
    \A n \in Plugins :
        Present(stored[n]) ~> \/ resources = Resources
                              \/ ~Present(stored[n]) \/ Disturbed

(* They go with the object, however far their creation had come, as long   *)
(* as no call fails and the process does not restart.                      *)
AllRemoved == ~Requested ~> \/ resources = {} \/ Requested
                            \/ Disturbed \/ restarts > 0

(* "CertsuiteConsolePlugin CR %s has been deleted. Removing the console    *)
(* plugin resources." (line 190 of the controller): they go in the end,    *)
(* also when a call fails, since the deletion is retried after an error.   *)
RemovedInTheEnd == ~Requested ~> resources = {} \/ Requested
=============================================================================
