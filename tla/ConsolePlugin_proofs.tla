------------------------ MODULE ConsolePlugin_proofs ------------------------
(***************************************************************************)
(* Proofs about ConsolePlugin: type correctness, and, when there is only   *)
(* one name, that the status of an object tells the truth and that a       *)
(* controller at rest has done its work.                                   *)
(***************************************************************************)
EXTENDS ConsolePlugin, TLAPS

USE PluginsAssumption, PluginBounds DEF PluginsAssumption, PluginBounds

(* A request that passed the webhook will find its name free, and a call   *)
(* in progress has a name.                                                 *)
TypeInv == /\ TypeOK
           /\ \A n \in admitted : ~Present(stored[n]) /\ gen[n] < MaxGen
           /\ rec.pc # "idle" => rec.name \in Plugins

(* What an object's conditions claim, and that they claim nothing.         *)
Claimed(obj, i) == obj.conditions[i] \in {"created", "exists"}
Tells(obj) == \A i \in Resources : Claimed(obj, i) => i \in resources
Silent(obj) == \A i \in Resources : ~Claimed(obj, i)

(* The uids of the copies are not newer than those given out.              *)
UidsInv == /\ \A n \in Plugins : stored[n].uid <= gen[n] /\ cache[n].uid <= gen[n]
           /\ rec.pc # "idle" => rec.copy.uid <= gen[rec.name]

(* An object's conditions come from a call that read the object from the   *)
(* cache, where it is to be seen as long as it is stored.                  *)
CopiesTell(n) ==
    /\ Tells(stored[n])
    /\ Present(cache[n]) /\ cache[n].uid = stored[n].uid => Tells(cache[n])
    /\ cache[n].uid # stored[n].uid \/ ~Present(stored[n]) => Silent(stored[n])

CallTells(n) ==
    /\ rec.pc \in {"create", "update"} =>
           /\ Present(rec.copy)
           /\ rec.copy.uid = stored[n].uid
                  => Tells(rec.copy) /\ cache[n].uid = stored[n].uid
    /\ rec.pc = "delete" =>
           /\ Silent(stored[n])
           /\ Present(cache[n]) /\ cache[n].uid = stored[n].uid => Silent(cache[n])

StatusInv == UidsInv /\ \A n \in Plugins : CopiesTell(n) /\ CallTells(n)
----------------------------------------------------------------------------
(* Type correctness.                                                       *)

LEMMA NoPluginType ==
    /\ NoPlugin \in Objects /\ NoPlugin.uid = 0
    /\ \A i \in Resources : NoPlugin.conditions[i] = "none"
BY DEF NoPlugin, Objects, Conditions

LEMMA IdleType == Idle \in Calls /\ Idle.pc = "idle" /\ Idle.copy = NoPlugin
<1>1. 1 \in Resources
    BY DEF Resources
<1> QED BY <1>1, NoPluginType DEF Idle, Calls

(* A call that goes on: to the next resource or the end, or to an error.   *)
CallGoesOn == /\ rec' \in Calls /\ backoff' \subseteq Plugins
              /\ rec'.pc # "idle" => rec'.name = rec.name

LEMMA OnwardsType ==
    ASSUME TypeInv, rec.pc # "idle", NEW pc \in {"create", "delete"}, NEW copy \in Objects,
           Onwards(pc, copy)
    PROVE  CallGoesOn
<1>1. CASE Done
    BY <1>1, IdleType DEF Done, CallGoesOn, TypeInv, TypeOK
<1>2. CASE /\ rec.next # Last /\ UNCHANGED backoff
           /\ rec' = [rec EXCEPT !.pc = pc, !.next = rec.next + 1, !.copy = copy]
    <2>1. rec.next + 1 \in Resources
        BY <1>2 DEF TypeInv, TypeOK, Calls, Resources
    <2> QED BY <1>2, <2>1 DEF CallGoesOn, TypeInv, TypeOK, Calls
<1> QED BY <1>1, <1>2 DEF Onwards

LEMMA ErrorType ==
    ASSUME TypeInv, rec.pc # "idle", Error
    PROVE  CallGoesOn
BY IdleType DEF Error, CallGoesOn, TypeInv, TypeOK

LEMMA UpdatedType ==
    ASSUME TypeInv
    PROVE  /\ Updated \in Objects /\ Updated.uid = rec.copy.uid
           /\ Updated.conditions = rec.copy.conditions
BY DEF TypeInv, TypeOK, Calls, Objects, Updated

LEMMA TypeInvInit == Init => TypeInv
BY NoPluginType, IdleType DEF Init, TypeInv, TypeOK

LEMMA TypeInvStep == TypeInv /\ [Next]_vars => TypeInv'
<1> SUFFICES ASSUME TypeInv, [Next]_vars PROVE TypeInv'
    OBVIOUS
<1> USE DEF TypeInv, TypeOK, userVars, queueVars
<1>1. CASE UNCHANGED vars
    BY <1>1 DEF vars, Present
<1>2. ASSUME NEW n \in Plugins, ValidateCreate(n) PROVE TypeInv'
    BY <1>2 DEF ValidateCreate, Present
<1>3. ASSUME NEW n \in Plugins, Store(n) PROVE TypeInv'
    <2>1. gen[n] + 1 \in 0 .. MaxGen
        BY <1>3 DEF Store
    <2>2. [NoPlugin EXCEPT !.uid = gen[n] + 1, !.rv = 1] \in Objects
        BY <2>1, NoPluginType DEF Objects
    <2>3. \A m \in admitted' : m # n /\ stored'[m] = stored[m] /\ gen'[m] = gen[m]
        BY <1>3 DEF Store
    <2> QED BY <1>3, <2>1, <2>2, <2>3 DEF Store, Present
<1>4. ASSUME NEW n \in Plugins, DeletePlugin(n) PROVE TypeInv'
    BY <1>4, NoPluginType DEF DeletePlugin, Present
<1>5. ASSUME NEW n \in Plugins, Informs(n) PROVE TypeInv'
    BY <1>5, NoPluginType DEF Informs, Present
<1>6. ASSUME NEW n \in Plugins, Deliver(n) \/ BackoffEnds(n) PROVE TypeInv'
    BY <1>6 DEF Deliver, BackoffEnds, Present
<1>7. ASSUME NEW n \in Plugins, Reconcile(n) PROVE TypeInv'
    <2>1. rec' \in Calls /\ rec'.name = n
        BY <1>7, IdleType DEF Reconcile, Calls
    <2> QED BY <1>7, <2>1 DEF Reconcile, Present
<1>8. CASE CreateResource
    <2>1. PICK result \in {"created", "exists", "failed"} :
              rec' = [rec EXCEPT !.pc = "update", !.copy.conditions[rec.next] = result]
        BY <1>8 DEF CreateResource, ConditionOf
    <2>2. rec' \in Calls /\ rec'.name = rec.name
        BY <2>1 DEF Calls, Objects, Conditions
    <2>3. resources' \subseteq Resources /\ failures' \in 0 .. MaxFailures
        BY <1>8 DEF CreateResource, CallFails, Calls
    <2> QED BY <1>8, <2>2, <2>3 DEF CreateResource, Present
<1>9. CASE UpdateStatus
    <2>1. rec.pc # "idle" /\ rec.name \in Plugins
        BY <1>9 DEF UpdateStatus
    <2>2. CallGoesOn
        BY <1>9, <2>1, OnwardsType, ErrorType, UpdatedType DEF UpdateStatus
    <2>3. failures' \in 0 .. MaxFailures
        BY <1>9 DEF UpdateStatus, CallFails
    <2>4. /\ stored' \in [Plugins -> Objects]
          /\ \A m \in Plugins : ~Present(stored[m]) => ~Present(stored'[m])
        BY <1>9, <2>1, UpdatedType DEF UpdateStatus, Present
    <2> QED BY <1>9, <2>1, <2>2, <2>3, <2>4 DEF UpdateStatus, CallGoesOn, Present
<1>10. CASE DeleteResource
    <2>1. rec.pc # "idle" /\ rec.name \in Plugins
        BY <1>10 DEF DeleteResource
    <2>2. CallGoesOn
        BY <1>10, <2>1, OnwardsType, ErrorType, NoPluginType DEF DeleteResource
    <2>3. failures' \in 0 .. MaxFailures /\ resources' \subseteq Resources
        BY <1>10 DEF DeleteResource, CallFails
    <2> QED BY <1>10, <2>1, <2>2, <2>3 DEF DeleteResource, CallGoesOn, Present
<1>11. CASE Restart
    BY <1>11, IdleType DEF Restart, Present
<1> QED BY <1>1, <1>2, <1>3, <1>4, <1>5, <1>6, <1>7, <1>8, <1>9, <1>10, <1>11
        DEF Next, CallNext

(* Every variable of the plugin controller keeps its type, for any number  *)
(* of objects and of resources.                                            *)
THEOREM PluginTypes == Spec => []TypeOK
<1>1. TypeInv => TypeOK
    BY DEF TypeInv
<1> QED BY <1>1, TypeInvInit, TypeInvStep, PTL DEF Spec
----------------------------------------------------------------------------
(* What a status says.                                                     *)

(* There is only one name.                                                 *)
OneName == \A m, n \in Plugins : m = n

LEMMA NoPluginIsSilent == Silent(NoPlugin) /\ Tells(NoPlugin) /\ ~Present(NoPlugin)
BY NoPluginType DEF Silent, Tells, Claimed, Present

(* How a call ends or goes on: with which copy.                            *)
LEMMA CallsGoOn ==
    ASSUME TypeInv, rec.pc # "idle", NEW pc \in {"create", "delete"}, NEW copy \in Objects,
           Onwards(pc, copy) \/ Error
    PROVE  \/ rec' = Idle
           \/ rec'.pc = pc /\ rec'.name = rec.name /\ rec'.copy = copy
BY DEF TypeInv, TypeOK, Calls, Onwards, Done, Error

LEMMA UidsInvStep ==
    ASSUME TypeInv, UidsInv, [Next]_vars
    PROVE  UidsInv'
<1> USE DEF TypeInv, TypeOK, userVars, queueVars
<1>0. /\ \A n \in Plugins : /\ gen[n] \in Nat /\ stored[n] \in Objects /\ cache[n] \in Objects
                             /\ stored[n].uid \in Nat /\ cache[n].uid \in Nat
      /\ rec \in Calls /\ rec.copy \in Objects /\ rec.copy.uid \in Nat
    BY DEF Objects, Calls
<1>1. CASE UNCHANGED <<stored, gen, cache>> /\ (rec' = rec \/ rec' = Idle)
    BY <1>1, IdleType DEF UidsInv
<1>2. ASSUME NEW n \in Plugins, Store(n) PROVE UidsInv'
    <2>1. /\ stored'[n].uid = gen[n] + 1 /\ gen'[n] = gen[n] + 1 /\ UNCHANGED <<cache, rec>>
          /\ \A m \in Plugins \ {n} : stored'[m] = stored[m] /\ gen'[m] = gen[m]
        BY <1>2, NoPluginType DEF Store, Objects
    <2> QED BY <1>0, <2>1 DEF UidsInv
<1>3. ASSUME NEW n \in Plugins, DeletePlugin(n) PROVE UidsInv'
    <2>1. \A m \in Plugins : stored'[m].uid \in {0, stored[m].uid}
        BY <1>3, NoPluginType DEF DeletePlugin
    <2> QED BY <1>0, <1>3, <2>1 DEF UidsInv, DeletePlugin
<1>4. ASSUME NEW n \in Plugins, Informs(n) PROVE UidsInv'
    <2>1. \A m \in Plugins : cache'[m].uid \in {0, stored[m].uid, cache[m].uid}
        BY <1>4, NoPluginType DEF Informs
    <2> QED BY <1>0, <1>4, <2>1 DEF UidsInv, Informs
<1>5. ASSUME NEW n \in Plugins, Reconcile(n) PROVE UidsInv'
    <2>1. rec'.name = n /\ rec'.copy \in {cache[n], NoPlugin}
        BY <1>5, IdleType DEF Reconcile, Calls
    <2> QED BY <1>0, <1>5, <2>1, NoPluginType DEF UidsInv, Reconcile
<1>6. CASE CreateResource
    <2>1. rec'.name = rec.name /\ rec'.copy.uid = rec.copy.uid /\ rec.pc # "idle"
        BY <1>0, <1>6 DEF CreateResource, Calls, Objects
    <2> QED BY <1>6, <2>1 DEF CreateResource, UidsInv
<1>7. CASE UpdateStatus
    <2>1. rec.pc # "idle" /\ rec.name \in Plugins
        BY <1>7 DEF UpdateStatus
    <2>2. rec'.pc = "idle" \/ (rec'.name = rec.name /\ rec'.copy.uid = rec.copy.uid)
        BY <1>7, <2>1, CallsGoOn, UpdatedType, IdleType DEF UpdateStatus
    <2>3. \A m \in Plugins : stored'[m].uid = stored[m].uid
        BY <1>7, <2>1, UpdatedType DEF UpdateStatus
    <2> QED BY <1>7, <2>1, <2>2, <2>3 DEF UpdateStatus, UidsInv
<1>8. CASE DeleteResource
    <2>1. rec.pc # "idle" /\ rec.name \in Plugins
        BY <1>8 DEF DeleteResource
    <2>2. rec'.pc = "idle" \/ (rec'.name = rec.name /\ rec'.copy.uid = 0)
        BY <1>8, <2>1, CallsGoOn, NoPluginType, IdleType DEF DeleteResource
    <2> QED BY <1>0, <1>8, <2>1, <2>2 DEF DeleteResource, UidsInv
<1>9. CASE Restart
    BY <1>0, <1>9, IdleType DEF Restart, UidsInv
<1>10. ASSUME NEW n \in Plugins, ValidateCreate(n) \/ Deliver(n) \/ BackoffEnds(n)
       PROVE  UidsInv'
    BY <1>1, <1>10 DEF ValidateCreate, Deliver, BackoffEnds
<1> QED BY <1>1, <1>2, <1>3, <1>4, <1>5, <1>6, <1>7, <1>8, <1>9, <1>10
        DEF Next, CallNext, vars

LEMMA StatusInvInit == Init => StatusInv
<1> SUFFICES ASSUME Init PROVE StatusInv
    OBVIOUS
<1>1. rec.pc = "idle"
    BY IdleType DEF Init
<1>2. \A n \in Plugins : stored[n] = NoPlugin /\ cache[n] = NoPlugin /\ gen[n] = 0
    BY DEF Init
<1> QED BY <1>1, <1>2, NoPluginIsSilent, NoPluginType
        DEF StatusInv, UidsInv, CopiesTell, CallTells

LEMMA StatusInvStep ==
    ASSUME OneName, TypeInv, StatusInv, [Next]_vars
    PROVE  StatusInv'
<1> SUFFICES ASSUME NEW n \in Plugins PROVE CopiesTell(n)' /\ CallTells(n)'
    BY UidsInvStep DEF StatusInv
<1> USE DEF TypeInv, TypeOK, userVars, queueVars
<1>0. /\ CopiesTell(n) /\ CallTells(n) /\ \A m \in Plugins : m = n
      /\ stored[n].uid \in Nat /\ cache[n].uid \in Nat /\ gen[n] \in Nat
      /\ rec.copy.uid \in Nat
      /\ stored[n].uid <= gen[n] /\ cache[n].uid <= gen[n]
      /\ rec.pc # "idle" => rec.copy.uid <= gen[n] /\ rec.name = n
    BY DEF StatusInv, UidsInv, OneName, Objects, Calls
<1>1. CASE UNCHANGED <<stored, cache, resources>> /\ (rec' = rec \/ rec' = Idle)
    <2>1. CopiesTell(n)'
        BY <1>0, <1>1 DEF CopiesTell, Tells, Silent, Claimed, Present
    <2>2. CallTells(n)'
        BY <1>0, <1>1, IdleType DEF CallTells, Tells, Silent, Claimed, Present
    <2> QED BY <2>1, <2>2
<1>2. CASE Store(n)
    <2>1. /\ stored'[n].uid = gen[n] + 1 /\ stored'[n].conditions = NoPlugin.conditions
          /\ UNCHANGED <<cache, resources, rec>>
        BY <1>2, NoPluginType DEF Store, Objects
    <2>2. Silent(stored[n])' /\ Tells(stored[n])'
        BY <2>1, NoPluginIsSilent DEF Silent, Tells, Claimed
    <2>3. cache'[n].uid # stored'[n].uid
        BY <1>0, <2>1
    <2> QED BY <1>0, <2>1, <2>2, <2>3 DEF CopiesTell, CallTells
<1>3. CASE DeletePlugin(n)
    <2>1. stored'[n] = NoPlugin /\ UNCHANGED <<cache, resources, rec>>
        BY <1>3 DEF DeletePlugin
    <2>2. Silent(stored[n])' /\ Tells(stored[n])' /\ ~Present(stored[n])'
        BY <2>1, NoPluginIsSilent DEF Silent, Tells, Claimed, Present
    <2> QED BY <1>0, <2>1, <2>2 DEF CopiesTell, CallTells, Present
<1>4. CASE Informs(n)
    <2>1. UNCHANGED <<stored, resources, rec>>
        BY <1>4 DEF Informs
    <2>2. \/ cache'[n] = stored[n]
          \/ cache'[n] = NoPlugin /\ stored[n].uid # cache[n].uid
        BY <1>4 DEF Informs
    <2>3. CopiesTell(n)'
        BY <1>0, <2>1, <2>2, NoPluginIsSilent DEF CopiesTell, Tells, Silent, Claimed, Present
    <2>4. CallTells(n)'
        BY <1>0, <2>1, <2>2, NoPluginIsSilent DEF CallTells, Tells, Silent, Claimed, Present
    <2> QED BY <2>3, <2>4
<1>5. CASE Reconcile(n)
    <2>1. UNCHANGED <<stored, cache, resources>>
        BY <1>5 DEF Reconcile
    <2>2. \/ Present(cache[n]) /\ rec'.pc = "create" /\ rec'.copy = cache[n]
          \/ ~Present(cache[n]) /\ rec'.pc = "delete"
        BY <1>5, IdleType DEF Reconcile, Calls
    <2>3. CopiesTell(n)'
        BY <1>0, <2>1 DEF CopiesTell, Tells, Silent, Claimed, Present
    <2>4. CallTells(n)'
        BY <1>0, <2>1, <2>2 DEF CopiesTell, CallTells, Tells, Silent, Claimed, Present
    <2> QED BY <2>3, <2>4
<1>6. CASE CreateResource
    <2>1. PICK result \in {"created", "exists", "failed"} :
              /\ rec' = [rec EXCEPT !.pc = "update", !.copy.conditions[rec.next] = result]
              /\ resources \subseteq resources'
              /\ result # "failed" => rec.next \in resources'
        BY <1>6 DEF CreateResource, ConditionOf
    <2>2. /\ rec'.pc = "update" /\ rec.pc = "create" /\ UNCHANGED <<stored, cache>>
          /\ rec'.copy.uid = rec.copy.uid
          /\ \A i \in Resources : rec'.copy.conditions[i] =
                 IF i = rec.next THEN result ELSE rec.copy.conditions[i]
        BY <1>6, <2>1 DEF CreateResource, Calls, Objects, Conditions
    <2>3. CopiesTell(n)'
        BY <1>0, <2>1, <2>2 DEF CopiesTell, Tells, Silent, Claimed, Present
    <2>4. Tells(rec.copy) => Tells(rec.copy)'
        BY <2>1, <2>2 DEF Tells, Claimed
    <2> QED BY <1>0, <2>2, <2>3, <2>4 DEF CallTells, Present
<1>7. CASE UpdateStatus
    <2>1. rec.pc = "update" /\ rec.name = n /\ UNCHANGED <<cache, resources>>
        BY <1>0, <1>7 DEF UpdateStatus
    <2>2. \/ rec' = Idle
          \/ stored'[n] = Updated /\ rec'.pc = "create" /\ rec'.copy = Updated
        BY <1>7, <2>1, CallsGoOn, UpdatedType DEF UpdateStatus
    <2>3. \/ stored'[n] = stored[n]
          \/ stored'[n] = Updated /\ stored[n].uid = rec.copy.uid
        BY <1>7, <2>1 DEF UpdateStatus
    <2>4. Updated.uid = rec.copy.uid /\ (Tells(rec.copy) => Tells(Updated))
        BY UpdatedType DEF Tells, Claimed
    <2>5. CASE stored'[n] = stored[n] /\ rec' = Idle
        <3>1. CopiesTell(n)'
            BY <1>0, <2>1, <2>5 DEF CopiesTell, Tells, Silent, Claimed, Present
        <3> QED BY <2>5, <3>1, IdleType DEF CallTells
    <2>6. CASE stored'[n] = Updated /\ stored[n].uid = rec.copy.uid
        <3>1. /\ Present(rec.copy) /\ Tells(rec.copy) /\ cache[n].uid = stored[n].uid
            BY <1>0, <2>1, <2>6 DEF CallTells
        <3>2. stored'[n].uid = stored[n].uid /\ Present(stored[n])' /\ Tells(stored[n])'
            BY <2>1, <2>4, <2>6, <3>1 DEF Present, Tells, Claimed
        <3>3. CopiesTell(n)'
            BY <1>0, <2>1, <3>1, <3>2 DEF CopiesTell, Present, Tells, Claimed
        <3>4. CallTells(n)'
            BY <2>1, <2>2, <2>6, <3>1, <3>2, IdleType DEF CallTells, Present, Tells, Claimed
        <3> QED BY <3>3, <3>4
    <2>7. CASE stored'[n] = stored[n] /\ stored'[n] = Updated
        <3>1. stored[n].uid = rec.copy.uid
            BY <2>4, <2>7
        <3> QED BY <2>6, <2>7, <3>1
    <2> QED BY <2>2, <2>3, <2>5, <2>6, <2>7
<1>8. CASE DeleteResource
    <2>1. /\ rec.pc = "delete" /\ resources' \subseteq resources
          /\ UNCHANGED <<stored, cache>>
        BY <1>8 DEF DeleteResource
    <2>2. rec'.pc = "idle" \/ rec'.pc = "delete"
        BY <1>8, <2>1, CallsGoOn, NoPluginType, IdleType DEF DeleteResource
    <2>3. /\ Silent(stored[n])
          /\ Present(cache[n]) /\ cache[n].uid = stored[n].uid => Silent(cache[n])
        BY <1>0, <2>1 DEF CallTells
    <2> QED BY <2>1, <2>2, <2>3 DEF CopiesTell, CallTells, Tells, Silent, Present, Claimed
<1>9. CASE Restart
    <2>1. cache' = stored /\ rec'.pc = "idle" /\ UNCHANGED <<stored, resources>>
        BY <1>9, IdleType DEF Restart
    <2>2. CopiesTell(n)'
        BY <1>0, <2>1 DEF CopiesTell, Tells, Silent, Claimed, Present
    <2> QED BY <2>1, <2>2 DEF CallTells
<1>10. CASE ValidateCreate(n) \/ Deliver(n) \/ BackoffEnds(n)
    BY <1>1, <1>10 DEF ValidateCreate, Deliver, BackoffEnds
<1> QED BY <1>0, <1>1, <1>2, <1>3, <1>4, <1>5, <1>6, <1>7, <1>8, <1>9, <1>10
        DEF Next, CallNext, vars

(* With a single name, what the status of an object says was created or    *)
(* was there is there, through failing and lost calls, retries, restarts   *)
(* and deletions that were begun for an earlier object of the name.        *)
THEOREM StatusIsTrue ==
    ASSUME OneName
    PROVE  Spec => []StatusTells
<1>1. TypeInv /\ StatusInv /\ [Next]_vars => StatusInv'
    BY StatusInvStep
<1>2. StatusInv => StatusTells
    BY DEF StatusInv, CopiesTell, StatusTells, Tells, Claimed
<1> QED BY <1>1, <1>2, StatusInvInit, TypeInvInit, TypeInvStep, PTL DEF Spec
----------------------------------------------------------------------------
(* What a controller at rest has done.                                     *)

(* Something will call the controller back for this name.                  *)
Awaited(n) == n \in pending \cup queue \cup backoff

(* How far a call has come.                                                *)
CallReached ==
    /\ rec.pc = "create" => \A i \in Resources : i < rec.next => i \in resources \/ Disturbed
    /\ rec.pc = "update" => \A i \in Resources : i <= rec.next => i \in resources \/ Disturbed
    /\ rec.pc = "delete" => \A i \in resources : i >= rec.next

(* An object that is to be seen has its resources, or they are created, or *)
(* something will see to it that they are.                                 *)
Creates(n) ==
    Present(stored[n]) /\ cache[n].uid = stored[n].uid =>
        \/ Awaited(n)
        \/ rec.pc \in {"create", "update"} /\ rec.copy.uid = stored[n].uid
        \/ rec.pc = "idle" /\ (resources = Resources \/ Disturbed)

(* Where no object is to be seen there are no resources, or they are       *)
(* deleted, or something will see to it that they are.                     *)
Removes(n) ==
    restarts = 0 /\ ~Present(cache[n]) =>
        \/ Awaited(n)
        \/ rec.pc = "delete"
        \/ rec.pc = "idle" /\ resources = {}

WorkInv == CallReached /\ \A n \in Plugins : Creates(n) /\ Removes(n)

LEMMA WorkInvInit == Init => WorkInv
<1> SUFFICES ASSUME Init PROVE WorkInv
    OBVIOUS
<1>1. rec.pc = "idle" /\ resources = {} /\ \A n \in Plugins : ~Present(stored[n])
    BY IdleType, NoPluginIsSilent DEF Init
<1> QED BY <1>1 DEF WorkInv, CallReached, Creates, Removes

LEMMA CallReachedStep ==
    ASSUME TypeInv, CallReached, [Next]_vars
    PROVE  CallReached'
<1> USE DEF userVars, queueVars
<1>0. /\ rec \in Calls /\ rec.next \in 1 .. Last /\ resources \subseteq Resources
      /\ Resources = 1 .. Last /\ failures \in Nat /\ Idle.pc = "idle"
    BY IdleType DEF TypeInv, TypeOK, Calls, Resources
<1>1. CASE UNCHANGED <<resources, failures>> /\ (rec' = rec \/ rec' = Idle)
    BY <1>0, <1>1 DEF CallReached, Disturbed
<1>2. ASSUME NEW n \in Plugins, Reconcile(n) PROVE CallReached'
    <2>1. rec'.pc \in {"create", "delete"} /\ rec'.next = 1 /\ UNCHANGED resources
        BY <1>2 DEF Reconcile, Idle
    <2>2. \A i \in Resources : i >= 1 /\ ~(i < 1)
        BY <1>0
    <2> QED BY <1>0, <2>1, <2>2 DEF CallReached
<1>3. CASE CreateResource
    <2>1. /\ rec.pc = "create" /\ rec'.pc = "update" /\ rec'.next = rec.next
          /\ resources \subseteq resources'
          /\ rec.next \in resources' \/ Disturbed'
          /\ Disturbed => Disturbed'
        BY <1>0, <1>3 DEF CreateResource, CallFails, Disturbed, Calls
    <2>2. \A i \in Resources : i <= rec.next => i < rec.next \/ i = rec.next
        BY <1>0
    <2> QED BY <2>1, <2>2 DEF CallReached
<1>4. CASE UpdateStatus
    <2>1. rec.pc = "update" /\ UNCHANGED resources /\ (Disturbed => Disturbed')
        BY <1>0, <1>4 DEF UpdateStatus, CallFails, Disturbed
    <2>2. rec'.pc = "idle" \/ (rec'.pc = "create" /\ rec'.next = rec.next + 1)
        BY <1>0, <1>4 DEF UpdateStatus, Onwards, Done, Error, Calls
    <2>3. \A i \in Resources : i < rec.next + 1 => i <= rec.next
        BY <1>0
    <2> QED BY <2>1, <2>2, <2>3 DEF CallReached
<1>5. CASE DeleteResource
    <2>1. rec.pc = "delete" /\ resources' \subseteq resources
        BY <1>5 DEF DeleteResource
    <2>2. \/ rec'.pc = "idle"
          \/ /\ rec'.pc = "delete" /\ rec'.next = rec.next + 1
             /\ resources' = resources \ {rec.next}
        BY <1>0, <1>5 DEF DeleteResource, Onwards, Done, Error, ToDelete, Calls
    <2>3. \A i \in Resources : i >= rec.next /\ i # rec.next => i >= rec.next + 1
        BY <1>0
    <2> QED BY <1>0, <2>1, <2>2, <2>3 DEF CallReached
<1>6. CASE Restart
    BY <1>1, <1>6 DEF Restart
<1>7. ASSUME NEW n \in Plugins,
             \/ ValidateCreate(n) \/ Store(n) \/ DeletePlugin(n)
             \/ Informs(n) \/ Deliver(n) \/ BackoffEnds(n)
      PROVE  CallReached'
    BY <1>1, <1>7 DEF ValidateCreate, Store, DeletePlugin, Informs, Deliver, BackoffEnds
<1> QED BY <1>1, <1>2, <1>3, <1>4, <1>5, <1>6, <1>7 DEF Next, CallNext, vars

LEMMA WorkInvStep ==
    ASSUME OneName, TypeInv, UidsInv, WorkInv, [Next]_vars
    PROVE  WorkInv'
<1> SUFFICES ASSUME NEW n \in Plugins PROVE Creates(n)' /\ Removes(n)'
    BY CallReachedStep DEF WorkInv
<1> USE DEF userVars, queueVars
<1>0. /\ Creates(n) /\ Removes(n) /\ CallReached /\ \A m \in Plugins : m = n
      /\ stored[n].uid \in Nat /\ cache[n].uid \in Nat /\ gen[n] \in Nat
      /\ stored[n].uid <= gen[n] /\ cache[n].uid <= gen[n]
      /\ rec.pc # "idle" => rec.name = n
      /\ rec \in Calls /\ rec.next \in 1 .. Last /\ resources \subseteq Resources
      /\ Resources = 1 .. Last /\ failures \in Nat /\ restarts \in Nat
      /\ Idle.pc = "idle" /\ NoPlugin.uid = 0
      /\ stored \in [Plugins -> Objects] /\ cache \in [Plugins -> Objects]
    BY IdleType, NoPluginType
       DEF TypeInv, TypeOK, WorkInv, UidsInv, OneName, Objects, Calls, Resources
<1>1. CASE UNCHANGED vars
    BY <1>0, <1>1 DEF vars, Creates, Removes, Present, Awaited, Disturbed
<1>2. CASE ValidateCreate(n)
    BY <1>0, <1>2 DEF ValidateCreate, Creates, Removes, Present, Awaited, Disturbed
<1>3. CASE Store(n)
    <2>1. stored'[n].uid = gen[n] + 1 /\ UNCHANGED cache
        BY <1>0, <1>3, NoPluginType DEF Store, Objects
    <2>2. cache'[n].uid # stored'[n].uid
        BY <1>0, <2>1
    <2>3. Removes(n)'
        BY <1>0, <1>3 DEF Store, Removes, Present, Awaited
    <2> QED BY <2>2, <2>3 DEF Creates
<1>4. CASE DeletePlugin(n)
    <2>1. stored'[n].uid = 0
        BY <1>0, <1>4 DEF DeletePlugin
    <2>2. Removes(n)'
        BY <1>0, <1>4 DEF DeletePlugin, Removes, Present, Awaited
    <2> QED BY <2>1, <2>2 DEF Creates, Present
<1>5. CASE Informs(n)
    <2>1. /\ cache'[n].uid = cache[n].uid \/ n \in pending'
          /\ pending \subseteq pending'
          /\ UNCHANGED <<stored, resources, queue, backoff, rec, failures, restarts>>
        BY <1>0, <1>5 DEF Informs
    <2> QED BY <1>0, <2>1 DEF Creates, Removes, Present, Awaited, Disturbed
<1>6. CASE Deliver(n) \/ BackoffEnds(n)
    <2>1. Awaited(n)'
        BY <1>6 DEF Deliver, BackoffEnds, Awaited
    <2> QED BY <2>1 DEF Creates, Removes
<1>7. CASE Reconcile(n)
    <2>1. UNCHANGED <<stored, cache>>
        BY <1>7 DEF Reconcile
    <2>2. \/ Present(cache[n]) /\ rec'.pc = "create" /\ rec'.copy = cache[n]
          \/ ~Present(cache[n]) /\ rec'.pc = "delete"
        BY <1>7 DEF Reconcile, Idle
    <2> QED BY <2>1, <2>2 DEF Creates, Removes, Present
<1>8. CASE CreateResource
    <2>1. /\ rec.pc = "create" /\ rec'.pc = "update" /\ rec'.copy.uid = rec.copy.uid
          /\ UNCHANGED <<stored, cache, pending, queue, backoff, restarts>>
        BY <1>0, <1>8 DEF CreateResource, Calls, Objects
    <2> QED BY <1>0, <2>1 DEF Creates, Removes, Present, Awaited
<1>9. CASE UpdateStatus
    <2>1. /\ rec.pc = "update" /\ rec.name = n /\ Updated.uid = rec.copy.uid
          /\ UNCHANGED <<cache, resources, pending, queue, restarts>>
        BY <1>0, <1>9, UpdatedType DEF UpdateStatus
    <2>2. stored'[n].uid = stored[n].uid
        BY <1>0, <1>9, <2>1 DEF UpdateStatus
    <2>3. CASE Error
        <3>1. Awaited(n)'
            BY <2>1, <2>3 DEF Error, Awaited
        <3> QED BY <3>1 DEF Creates, Removes
    <2>4. CASE Onwards("create", Updated) /\ UNCHANGED failures /\ stored[n].uid = rec.copy.uid
        <3>1. UNCHANGED backoff
            BY <2>4 DEF Onwards, Done
        <3>2. \/ rec'.pc = "idle" /\ rec.next = Last
              \/ rec'.pc = "create" /\ rec'.copy = Updated
            BY <1>0, <2>4 DEF Onwards, Done, Calls
        <3>3. rec.next = Last => resources = Resources \/ Disturbed
            <4>1. rec.next = Last => \A i \in Resources : i <= rec.next
                BY <1>0
            <4> QED BY <1>0, <2>1, <4>1 DEF CallReached
        <3>4. Creates(n)'
            BY <1>0, <2>1, <2>2, <2>4, <3>1, <3>2, <3>3
               DEF Creates, Present, Awaited, Disturbed
        <3>5. Removes(n)'
            BY <1>0, <2>1, <3>1 DEF Removes, Present, Awaited
        <3> QED BY <3>4, <3>5
    <2> QED BY <1>9, <2>1, <2>3, <2>4 DEF UpdateStatus
<1>10. CASE DeleteResource
    <2>1. /\ rec.pc = "delete" /\ rec.name = n
          /\ UNCHANGED <<stored, cache, pending, queue, restarts>>
        BY <1>0, <1>10 DEF DeleteResource
    <2>2. CASE Error
        <3>1. Awaited(n)'
            BY <2>1, <2>2 DEF Error, Awaited
        <3> QED BY <3>1 DEF Creates, Removes
    <2>3. CASE Onwards("delete", NoPlugin) /\ resources' = resources \ {rec.next}
        <3>1. UNCHANGED backoff
            BY <2>3 DEF Onwards, Done
        <3>2. rec'.pc = "delete" \/ (rec'.pc = "idle" /\ rec.next = Last)
            BY <1>0, <2>3 DEF Onwards, Done, Calls
        <3>3. rec.next = Last => resources' = {}
            BY <1>0, <2>1, <2>3 DEF CallReached
        <3>4. Creates(n)'
            BY <1>0, <2>1, <3>1 DEF Creates, Present, Awaited
        <3>5. Removes(n)'
            BY <3>2, <3>3 DEF Removes
        <3> QED BY <3>4, <3>5
    <2> QED BY <1>10, <2>2, <2>3 DEF DeleteResource, ToDelete
<1>11. CASE Restart
    <2>1. cache' = stored /\ UNCHANGED stored /\ restarts' # 0
          /\ (Present(stored[n]) => n \in pending')
        BY <1>0, <1>11 DEF Restart
    <2> QED BY <2>1 DEF Creates, Removes, Present, Awaited
<1> QED BY <1>0, <1>1, <1>2, <1>3, <1>4, <1>5, <1>6, <1>7, <1>8, <1>9, <1>10, <1>11
        DEF Next, CallNext

(* With a single name, a controller with nothing left to do for it has     *)
(* done its work: no event, stale copy, conflict, failing call or restart  *)
(* makes it forget an object that asks for resources, and none but a       *)
(* restart the resources of an object that is gone.                        *)
THEOREM SettledIsDone ==
    ASSUME OneName
    PROVE  Spec => []SettledMeansDone
<1>1. TypeInv /\ StatusInv /\ WorkInv /\ [Next]_vars => StatusInv' /\ WorkInv'
    BY StatusInvStep, WorkInvStep DEF StatusInv
<1>2. TypeInv /\ WorkInv => SettledMeansDone
    <2> SUFFICES ASSUME TypeInv, WorkInv, NEW n \in Plugins, Settled(n)
                 PROVE  IF Present(stored[n]) THEN resources = Resources \/ Disturbed
                                              ELSE resources = {} \/ restarts > 0
        BY DEF SettledMeansDone
    <2>1. /\ Creates(n) /\ Removes(n) /\ ~Awaited(n) /\ rec.pc = "idle"
          /\ cache[n].uid = stored[n].uid /\ restarts \in Nat
        BY DEF WorkInv, Settled, Awaited, TypeInv, TypeOK
    <2>2. restarts = 0 \/ restarts > 0
        BY <2>1
    <2> QED BY <2>1, <2>2 DEF Creates, Removes, Present
<1> QED BY <1>1, <1>2, StatusInvInit, WorkInvInit, TypeInvInit, TypeInvStep, PTL DEF Spec
=============================================================================
