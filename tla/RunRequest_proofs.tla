-------------------------- MODULE RunRequest_proofs --------------------------
(***************************************************************************)
(* Proofs that the safety properties of module RunRequest hold for any     *)
(* objects, timeouts, durations and number of changes.                     *)
(***************************************************************************)
EXTENDS RunRequest, TLAPS

(* The request as the webhook, the controller and the pod know it.         *)
Checking == stage \in {"configMap", "secret"}

CopiesAgree ==
    /\ \A o \in fresh : seen[o] = files[o]
    /\ \A o \in fresh : mounted[o] # "absent" => mounted[o] = files[o]
    /\ ~edited => known = spec /\ job = spec
    /\ Checking => webhooks

(* What the webhook found, until the suite runs.                           *)
Vouched ==
    webhooks /\ ~edited /\ stage # "refused" =>
        /\ stage # "configMap" => Usable(spec.config)
        /\ ~Checking => SecretPasses

(* What is mounted, by the stage.                                          *)
Mounted ==
    /\ stage \notin {"pending", "running", "ended"} =>
          \A o \in Objects : mounted[o] = "absent"
    /\ stage \in {"pending", "running", "ended"} =>
          volumes = VolumesOf(job) /\ EmptyName \notin volumes
    /\ stage \in {"running", "ended"} => \A o \in volumes : mounted[o] # "absent"
    /\ stage = "deployError" => EmptyName \in VolumesOf(job)

Inv == TypeOK /\ CopiesAgree /\ Vouched /\ Mounted /\ RefusedForCause /\ StopsWhenShown

----------------------------------------------------------------------------
(* Inv holds at the start.                                                 *)
LEMMA InvAtStart == Init => Inv
<1> SUFFICES ASSUME Init PROVE Inv
    OBVIOUS
<1>1. TypeOK
  <2>1. elapsed \in 0..MaxDuration /\ changes \in 0..MaxChanges
    <3>1. elapsed = 0 /\ changes = 0
        BY DEF Init
    <3> QED
        BY <3>1, NamesAssumption, DurationsAssumption
  <2>2. mounted \in [Objects -> Contents] /\ stage \in Stages
      BY DEF Init, Contents, Stages
  <2>3. phase \in {""} \cup PhaseEnum /\ last \in Results
      BY DEF Init, Results
  <2> QED
      BY <2>1, <2>2, <2>3 DEF Init, TypeOK
<1>2. CopiesAgree /\ Vouched /\ Mounted
    BY DEF Init, CopiesAgree, Vouched, Mounted, Checking
<1>3. RefusedForCause /\ StopsWhenShown
    BY DEF Init, RefusedForCause, StopsWhenShown
<1> QED
    BY <1>1, <1>2, <1>3 DEF Inv

(* Whatever phase is asked for, the status has one of the enum, or none.   *)
LEMMA PhaseInEnum ==
    ASSUME TypeOK, NEW p
    PROVE  WithPhase(p) \in {""} \cup PhaseEnum
BY DEF TypeOK, WithPhase

LEMMA ChangesAreBounded ==
    ASSUME TypeOK, EditSpec \/ \E o \in Objects : ChangeFile(o)
    PROVE  changes' \in 0..MaxChanges
<1>1. changes < MaxChanges /\ changes' = changes + 1
    BY DEF EditSpec, ChangeFile
<1>2. changes \in 0..MaxChanges
    BY DEF TypeOK
<1> QED
    BY <1>1, <1>2, NamesAssumption

LEMMA ChangeFileKeepsInv ==
    ASSUME Inv, NEW o \in Objects, ChangeFile(o)
    PROVE  Inv'
<1> USE DEF requestVars, fileVars, podVars, EmptyName
<1>1. TypeOK'
  <2>1. changes' \in 0..MaxChanges
      BY ChangesAreBounded DEF Inv
  <2>2. files' \in [Objects -> Contents]
      BY DEF Inv, TypeOK, ChangeFile
  <2>3. fresh' \subseteq Objects
      BY DEF Inv, TypeOK, ChangeFile
  <2> QED
      BY <2>1, <2>2, <2>3 DEF Inv, TypeOK, ChangeFile
<1>2. CopiesAgree'
    BY DEF Inv, TypeOK, CopiesAgree, Mounted, Checking, ChangeFile
<1>3. Vouched'
    BY DEF Inv, TypeOK, Vouched, CopiesAgree, Checking, Usable, SecretPasses, ChangeFile
<1>4. Mounted'
    BY DEF Inv, TypeOK, Mounted, Checking, VolumesOf, ChangeFile
<1>5. RefusedForCause'
    BY DEF Inv, TypeOK, RefusedForCause, VolumesOf, ChangeFile
<1>6. StopsWhenShown'
    BY DEF Inv, StopsWhenShown, ChangeFile
<1> QED
    BY <1>1, <1>2, <1>3, <1>4, <1>5, <1>6 DEF Inv

LEMMA SeeFileKeepsInv ==
    ASSUME Inv, NEW o \in Objects, SeeFile(o)
    PROVE  Inv'
<1> USE DEF requestVars, fileVars, podVars, EmptyName
<1>1. TypeOK'
    BY DEF Inv, TypeOK, SeeFile, Contents, Stages
<1>2. CopiesAgree'
    BY DEF Inv, TypeOK, CopiesAgree, Mounted, Checking, SeeFile
<1>3. Vouched'
  <2>1. CASE stage = "configMap"
      BY <2>1 DEF Inv, Vouched, Checking, SeeFile
  <2>2. CASE stage = "secret" /\ o \in Secrets
    <3>1. spec.config \in ConfigMaps \cup {EmptyName}
        BY DEF Inv, TypeOK, Specs
    <3>2. spec.config # o
        BY <2>2, <3>1, NamesAssumption DEF Objects
    <3>3. Usable(spec.config)' <=> Usable(spec.config)
        BY <3>2 DEF Inv, TypeOK, Usable, SeeFile
    <3> QED
        BY <2>2, <3>3 DEF Inv, Vouched, Checking, SeeFile
  <2> QED
      BY <2>1, <2>2 DEF SeeFile
<1>4. Mounted'
    BY DEF Inv, TypeOK, Mounted, Checking, VolumesOf, SeeFile
<1>5. RefusedForCause'
    BY DEF Inv, TypeOK, RefusedForCause, VolumesOf, SeeFile
<1>6. StopsWhenShown'
    BY DEF Inv, StopsWhenShown, SeeFile
<1> QED
    BY <1>1, <1>2, <1>3, <1>4, <1>5, <1>6 DEF Inv

LEMMA CheckConfigMapKeepsInv ==
    ASSUME Inv, CheckConfigMap
    PROVE  Inv'
<1> USE DEF requestVars, fileVars, podVars, EmptyName
<1>1. TypeOK'
    BY DEF Inv, TypeOK, CheckConfigMap, Contents, Stages
<1>2. CopiesAgree'
    BY DEF Inv, TypeOK, CopiesAgree, Mounted, Checking, CheckConfigMap
<1>3. Vouched'
    BY DEF Inv, TypeOK, Vouched, CopiesAgree, Checking, Usable, SecretPasses, CheckConfigMap
<1>4. Mounted'
    BY DEF Inv, TypeOK, Mounted, Checking, VolumesOf, CheckConfigMap
<1>5. RefusedForCause'
  <2>1. spec.config \in Objects \cup {EmptyName}
      BY DEF Inv, TypeOK, Specs, Objects
  <2>2. CASE spec.config = EmptyName \/ Usable(spec.config)
      BY <2>2 DEF RefusedForCause, CheckConfigMap
  <2>3. CASE spec.config \in Objects /\ seen[spec.config] # "filled"
    <3>1. spec.config \notin fresh \/ files[spec.config] # "filled"
        BY <2>3 DEF Inv, CopiesAgree
    <3> QED
        BY <3>1 DEF RefusedForCause, VolumesOf, CheckConfigMap
  <2> QED
      BY <2>1, <2>2, <2>3 DEF Usable
<1>6. StopsWhenShown'
    BY DEF Inv, StopsWhenShown, CheckConfigMap
<1> QED
    BY <1>1, <1>2, <1>3, <1>4, <1>5, <1>6 DEF Inv

LEMMA CheckSecretKeepsInv ==
    ASSUME Inv, CheckSecret
    PROVE  Inv'
<1> USE DEF requestVars, fileVars, podVars, EmptyName
<1>1. TypeOK'
    BY DEF Inv, TypeOK, CheckSecret, Contents, Stages
<1>2. CopiesAgree'
    BY DEF Inv, TypeOK, CopiesAgree, Mounted, Checking, CheckSecret
<1>3. Vouched'
    BY DEF Inv, TypeOK, Vouched, CopiesAgree, Checking, Usable, SecretPasses, CheckSecret
<1>4. Mounted'
    BY DEF Inv, TypeOK, Mounted, Checking, VolumesOf, CheckSecret
<1>5. RefusedForCause'
  <2>1. spec.secret \in Objects \cup {EmptyName, "nil"}
      BY DEF Inv, TypeOK, Specs, Objects
  <2>2. CASE spec.secret = EmptyName \/ spec.logLevel = "unknown"
      BY <2>2 DEF RefusedForCause, CheckSecret
  <2>3. CASE SecretPasses /\ spec.logLevel = "known"
      BY <2>3 DEF RefusedForCause, CheckSecret
  <2>4. CASE spec.secret \in Objects /\ seen[spec.secret] # "filled"
    <3>1. spec.secret \notin fresh \/ files[spec.secret] # "filled"
        BY <2>4 DEF Inv, CopiesAgree
    <3>2. spec.secret \in VolumesOf(spec)
        BY <2>4, NamesAssumption DEF VolumesOf
    <3> QED
        BY <3>1, <3>2 DEF RefusedForCause, CheckSecret, VolumesOf
  <2>5. spec.logLevel \in {"known", "unknown"}
      BY DEF Inv, TypeOK, Specs
  <2> QED
      BY <2>1, <2>2, <2>3, <2>4, <2>5 DEF SecretPasses, Usable
<1>6. StopsWhenShown'
    BY DEF Inv, StopsWhenShown, CheckSecret
<1> QED
    BY <1>1, <1>2, <1>3, <1>4, <1>5, <1>6 DEF Inv

LEMMA EditSpecKeepsInv ==
    ASSUME Inv, EditSpec
    PROVE  Inv'
<1> USE DEF requestVars, fileVars, podVars, EmptyName
<1>1. TypeOK'
  <2>1. changes' \in 0..MaxChanges
      BY ChangesAreBounded DEF Inv
  <2> QED
      BY <2>1 DEF Inv, TypeOK, EditSpec
<1>2. CopiesAgree'
    BY DEF Inv, TypeOK, CopiesAgree, Mounted, Checking, EditSpec
<1>3. Vouched'
    BY DEF Inv, TypeOK, Vouched, CopiesAgree, Checking, Usable, SecretPasses, EditSpec
<1>4. Mounted'
    BY DEF Inv, TypeOK, Mounted, Checking, VolumesOf, EditSpec
<1>5. RefusedForCause'
    BY DEF Inv, TypeOK, RefusedForCause, VolumesOf, EditSpec
<1>6. StopsWhenShown'
    BY DEF Inv, StopsWhenShown, EditSpec
<1> QED
    BY <1>1, <1>2, <1>3, <1>4, <1>5, <1>6 DEF Inv

LEMMA SeeSpecKeepsInv ==
    ASSUME Inv, SeeSpec
    PROVE  Inv'
<1> USE DEF requestVars, fileVars, podVars, EmptyName
<1>1. TypeOK'
    BY DEF Inv, TypeOK, SeeSpec, Contents, Stages
<1>2. CopiesAgree'
    BY DEF Inv, TypeOK, CopiesAgree, Mounted, Checking, SeeSpec
<1>3. Vouched'
    BY DEF Inv, TypeOK, Vouched, CopiesAgree, Checking, Usable, SecretPasses, SeeSpec
<1>4. Mounted'
    BY DEF Inv, TypeOK, Mounted, Checking, VolumesOf, SeeSpec
<1>5. RefusedForCause'
    BY DEF Inv, TypeOK, RefusedForCause, VolumesOf, SeeSpec
<1>6. StopsWhenShown'
    BY DEF Inv, StopsWhenShown, SeeSpec
<1> QED
    BY <1>1, <1>2, <1>3, <1>4, <1>5, <1>6 DEF Inv

LEMMA ReadRequestKeepsInv ==
    ASSUME Inv, ReadRequest
    PROVE  Inv'
<1> USE DEF requestVars, fileVars, podVars, EmptyName
<1>1. TypeOK'
  <2>1. phase' \in {""} \cup PhaseEnum
      BY PhaseInEnum DEF Inv, ReadRequest
  <2>2. stage' \in Stages
      BY DEF ReadRequest, Stages
  <2> QED
      BY <2>1, <2>2 DEF Inv, TypeOK, ReadRequest
<1>2. CopiesAgree'
    BY DEF Inv, TypeOK, CopiesAgree, Mounted, Checking, ReadRequest
<1>3. Vouched'
    BY DEF Inv, TypeOK, Vouched, CopiesAgree, Checking, Usable, SecretPasses, ReadRequest
<1>4. Mounted'
    BY DEF Inv, TypeOK, Mounted, Checking, VolumesOf, ReadRequest
<1>5. RefusedForCause'
    BY DEF Inv, TypeOK, RefusedForCause, VolumesOf, ReadRequest
<1>6. StopsWhenShown'
    BY DEF Inv, StopsWhenShown, ReadRequest
<1> QED
    BY <1>1, <1>2, <1>3, <1>4, <1>5, <1>6 DEF Inv

LEMMA CreatePodKeepsInv ==
    ASSUME Inv, CreatePod
    PROVE  Inv'
<1> USE DEF requestVars, fileVars, podVars, EmptyName
<1>1. TypeOK'
  <2>1. VolumesOf(job) \subseteq Objects \cup {EmptyName}
      BY DEF Inv, TypeOK, Specs, VolumesOf, Objects
  <2>2. stage' \in Stages /\ last' \in Results
      BY DEF CreatePod, Stages, Results
  <2>3. phase' \in {""} \cup PhaseEnum
      BY PhaseInEnum DEF Inv, CreatePod
  <2> QED
      BY <2>1, <2>2, <2>3 DEF Inv, TypeOK, CreatePod
<1>2. CopiesAgree'
    BY DEF Inv, TypeOK, CopiesAgree, Mounted, Checking, CreatePod
<1>3. Vouched'
    BY DEF Inv, TypeOK, Vouched, CopiesAgree, Checking, Usable, SecretPasses, CreatePod
<1>4. Mounted'
    BY DEF Inv, TypeOK, Mounted, Checking, VolumesOf, CreatePod
<1>5. RefusedForCause'
    BY DEF Inv, TypeOK, RefusedForCause, VolumesOf, CreatePod
<1>6. StopsWhenShown'
    BY DEF Inv, StopsWhenShown, CreatePod
<1> QED
    BY <1>1, <1>2, <1>3, <1>4, <1>5, <1>6 DEF Inv

LEMMA MountKeepsInv ==
    ASSUME Inv, NEW o \in Objects, Mount(o)
    PROVE  Inv'
<1> USE DEF requestVars, fileVars, podVars, EmptyName
<1>1. TypeOK'
    BY DEF Inv, TypeOK, Mount, Contents, Stages
<1>2. CopiesAgree'
    BY DEF Inv, TypeOK, CopiesAgree, Mounted, Checking, Mount
<1>3. Vouched'
    BY DEF Inv, TypeOK, Vouched, CopiesAgree, Checking, Usable, SecretPasses, Mount
<1>4. Mounted'
    BY DEF Inv, TypeOK, Mounted, Checking, VolumesOf, Mount
<1>5. RefusedForCause'
    BY DEF Inv, TypeOK, RefusedForCause, VolumesOf, Mount
<1>6. StopsWhenShown'
    BY DEF Inv, StopsWhenShown, Mount
<1> QED
    BY <1>1, <1>2, <1>3, <1>4, <1>5, <1>6 DEF Inv

LEMMA StartPodKeepsInv ==
    ASSUME Inv, StartPod
    PROVE  Inv'
<1> USE DEF requestVars, fileVars, podVars, EmptyName
<1>1. TypeOK'
    BY DEF Inv, TypeOK, StartPod, Contents, Stages
<1>2. CopiesAgree'
    BY DEF Inv, TypeOK, CopiesAgree, Mounted, Checking, StartPod
<1>3. Vouched'
    BY DEF Inv, TypeOK, Vouched, CopiesAgree, Checking, Usable, SecretPasses, StartPod
<1>4. Mounted'
    BY DEF Inv, TypeOK, Mounted, Checking, VolumesOf, StartPod
<1>5. RefusedForCause'
    BY DEF Inv, TypeOK, RefusedForCause, VolumesOf, StartPod
<1>6. StopsWhenShown'
    BY DEF Inv, StopsWhenShown, StartPod
<1> QED
    BY <1>1, <1>2, <1>3, <1>4, <1>5, <1>6 DEF Inv

LEMMA TickKeepsInv ==
    ASSUME Inv, Tick
    PROVE  Inv'
<1> USE DEF requestVars, fileVars, podVars, EmptyName
<1>1. TypeOK'
  <2>1. elapsed' \in 0..MaxDuration
    <3>1. elapsed \in 0..MaxDuration
        BY DEF Inv, TypeOK
    <3>2. elapsed < MaxDuration /\ elapsed' = elapsed + 1
        BY DEF Tick
    <3> QED
        BY <3>1, <3>2, DurationsAssumption
  <2> QED
      BY <2>1 DEF Inv, TypeOK, Tick
<1>2. CopiesAgree'
    BY DEF Inv, TypeOK, CopiesAgree, Mounted, Checking, Tick
<1>3. Vouched'
    BY DEF Inv, TypeOK, Vouched, CopiesAgree, Checking, Usable, SecretPasses, Tick
<1>4. Mounted'
    BY DEF Inv, TypeOK, Mounted, Checking, VolumesOf, Tick
<1>5. RefusedForCause'
    BY DEF Inv, TypeOK, RefusedForCause, VolumesOf, Tick
<1>6. StopsWhenShown'
    BY DEF Inv, StopsWhenShown, Tick
<1> QED
    BY <1>1, <1>2, <1>3, <1>4, <1>5, <1>6 DEF Inv

LEMMA ContainerEndsKeepsInv ==
    ASSUME Inv, ContainerEnds
    PROVE  Inv'
<1> USE DEF requestVars, fileVars, podVars, EmptyName
<1>1. TypeOK'
    BY DEF Inv, TypeOK, ContainerEnds, Contents, Stages
<1>2. CopiesAgree'
    BY DEF Inv, TypeOK, CopiesAgree, Mounted, Checking, ContainerEnds
<1>3. Vouched'
    BY DEF Inv, TypeOK, Vouched, CopiesAgree, Checking, Usable, SecretPasses, ContainerEnds
<1>4. Mounted'
    BY DEF Inv, TypeOK, Mounted, Checking, VolumesOf, ContainerEnds
<1>5. RefusedForCause'
    BY DEF Inv, TypeOK, RefusedForCause, VolumesOf, ContainerEnds
<1>6. StopsWhenShown'
    BY DEF Inv, StopsWhenShown, ContainerEnds
<1> QED
    BY <1>1, <1>2, <1>3, <1>4, <1>5, <1>6 DEF Inv

LEMMA PollKeepsInv ==
    ASSUME Inv, Poll
    PROVE  Inv'
<1> USE DEF requestVars, fileVars, podVars, EmptyName
<1>1. TypeOK'
  <2>1. phase' \in {""} \cup PhaseEnum /\ last' \in Results
    <3>1. CASE phase' = phase /\ last' \in {"panics", "waits"}
        BY <3>1 DEF Inv, TypeOK, Results
    <3>2. CASE \E p \in EndPhases \cup {"CertSuiteTimeout"} : Show(p)
        BY <3>2, PhaseInEnum DEF Inv, Show, Results
    <3> QED
        BY <3>1, <3>2 DEF Poll
  <2> QED
      BY <2>1 DEF Inv, TypeOK, Poll
<1>2. CopiesAgree'
    BY DEF Inv, TypeOK, CopiesAgree, Mounted, Checking, Poll
<1>3. Vouched'
    BY DEF Inv, TypeOK, Vouched, CopiesAgree, Checking, Usable, SecretPasses, Poll
<1>4. Mounted'
    BY DEF Inv, TypeOK, Mounted, Checking, VolumesOf, Poll
<1>5. RefusedForCause'
    BY DEF Inv, TypeOK, RefusedForCause, VolumesOf, Poll
<1>6. StopsWhenShown'
  <2>1. CASE Show("CertSuiteTimeout")
      BY <2>1 DEF StopsWhenShown, Show, PhaseEnum
  <2>2. CASE last' \in {"panics", "waits"}
      BY <2>2 DEF StopsWhenShown
  <2>3. CASE stage = "ended" /\ \E p \in EndPhases : Show(p)
      BY <2>3 DEF StopsWhenShown, Poll, Show, WithPhase
  <2> QED
      BY <2>1, <2>2, <2>3 DEF Poll
<1> QED
    BY <1>1, <1>2, <1>3, <1>4, <1>5, <1>6 DEF Inv

LEMMA StutterKeepsInv ==
    ASSUME Inv, UNCHANGED vars
    PROVE  Inv'
<1> USE DEF vars, requestVars, fileVars, podVars
<1>1. TypeOK' /\ CopiesAgree' /\ Mounted'
    BY DEF Inv, TypeOK, CopiesAgree, Mounted, Checking
<1>2. Vouched' /\ RefusedForCause' /\ StopsWhenShown'
    BY DEF Inv, Vouched, Checking, Usable, SecretPasses, RefusedForCause, StopsWhenShown
<1> QED
    BY <1>1, <1>2 DEF Inv

----------------------------------------------------------------------------
(* Every reachable state satisfies Inv: no action breaks it.               *)
THEOREM InvHolds == Spec => []Inv
<1>1. Init => Inv
    BY InvAtStart
<1>2. Inv /\ [Next]_vars => Inv'
  <2> SUFFICES ASSUME Inv, [Next]_vars PROVE Inv'
      OBVIOUS
  <2>1. ASSUME NEW o \in Objects, ChangeFile(o) \/ SeeFile(o) \/ Mount(o)
        PROVE  Inv'
      BY <2>1, ChangeFileKeepsInv, SeeFileKeepsInv, MountKeepsInv
  <2>2. CASE CheckConfigMap \/ CheckSecret \/ EditSpec \/ SeeSpec
      BY <2>2, CheckConfigMapKeepsInv, CheckSecretKeepsInv, EditSpecKeepsInv, SeeSpecKeepsInv
  <2>3. CASE ReadRequest \/ CreatePod \/ StartPod
      BY <2>3, ReadRequestKeepsInv, CreatePodKeepsInv, StartPodKeepsInv
  <2>4. CASE Tick \/ ContainerEnds \/ Poll
      BY <2>4, TickKeepsInv, ContainerEndsKeepsInv, PollKeepsInv
  <2>5. CASE UNCHANGED vars
      BY <2>5, StutterKeepsInv
  <2> QED
      BY <2>1, <2>2, <2>3, <2>4, <2>5 DEF Next
<1> QED
    BY <1>1, <1>2, PTL DEF Spec

(* Every variable keeps its type.                                          *)
THEOREM RequestTypes == Spec => []TypeOK
BY InvHolds, PTL DEF Inv

(* What the webhook checked still holds when the suite starts: the config  *)
(* file and the secret of an unedited request are filled, unless the       *)
(* object changed after the webhook's copy was taken.                      *)
THEOREM ChecksCarryOver == Spec => []StartsWithFiles
<1>1. Inv => StartsWithFiles
  <2> SUFFICES ASSUME Inv, webhooks, ~edited, stage \in {"running", "ended"},
                      NEW o \in volumes \cap fresh
               PROVE  mounted[o] = "filled"
      BY DEF StartsWithFiles
  <2>1. volumes = VolumesOf(spec)
      BY DEF Inv, Mounted, CopiesAgree
  <2>2. Usable(spec.config) /\ SecretPasses
      BY DEF Inv, Vouched, Checking
  <2>3. seen[o] = "filled"
      BY <2>1, <2>2 DEF VolumesOf, SecretPasses, Usable
  <2>4. mounted[o] = seen[o]
      BY DEF Inv, CopiesAgree, Mounted
  <2> QED
      BY <2>3, <2>4
<1> QED
    BY <1>1, InvHolds, PTL

(* No request is refused without a cause in it or in what it names.        *)
THEOREM RefusalsHaveCauses == Spec => []RefusedForCause
BY InvHolds, PTL DEF Inv

(* A request the webhook let pass is never refused as a pod, for its names *)
(* are those of objects, or there is no secret at all.                     *)
THEOREM AdmittedRequestsDeploy == Spec => []AdmittedDeploys
<1>1. Inv => AdmittedDeploys
  <2> SUFFICES ASSUME Inv, webhooks, ~edited, stage = "deployError" PROVE FALSE
      BY DEF AdmittedDeploys
  <2>1. job = spec /\ EmptyName \in VolumesOf(job)
      BY DEF Inv, Mounted, CopiesAgree
  <2>2. Usable(spec.config) /\ SecretPasses
      BY DEF Inv, Vouched, Checking
  <2> QED
      BY <2>1, <2>2, NamesAssumption DEF VolumesOf, SecretPasses, Usable
<1> QED
    BY <1>1, InvHolds, PTL

(* A started pod is polled until its container's end is shown, for any     *)
(* timeout, any guard and any edit: what the API server refuses comes back *)
(* as an error, so that CertSuiteTimeout is never the last thing asked for.*)
THEOREM PolledUntilShown == Spec => []StopsWhenShown
BY InvHolds, PTL DEF Inv
=============================================================================
