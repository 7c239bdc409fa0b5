---------------------------- MODULE RunLifecycle ----------------------------
(***************************************************************************)
(* What a user of the operator sees of one CertsuiteRun object: the order  *)
(* in which its phase, its pod name and its report appear. No cache, no    *)
(* retry, no restart and no pod: this is the abstract specification that   *)
(* the controller and the sidecars together implement.                     *)
(***************************************************************************)
VARIABLES
    exists,   \* is the object stored?
    phase,    \* its phase
    recorded, \* does its status name a pod?
    report    \* does its status hold a report?

object == <<exists, phase, recorded, report>>

Unset == phase = "" /\ ~recorded /\ ~report

Init == ~exists /\ Unset

Request == ~exists /\ exists' /\ Unset'

Withdraw == exists /\ ~exists' /\ Unset'

(* From one phase to a later one, of the same object. *)
Step(from, to) == /\ exists /\ exists'
                  /\ phase = from /\ phase' = to
                  /\ UNCHANGED report

Deploy == Step("", "CertSuiteDeploying") /\ UNCHANGED recorded

(* The pod's name appears together with the phase. *)
Run == Step("CertSuiteDeploying", "CertSuiteRunning") /\ recorded'

(* The report appears once, while no end has been shown. *)
Publish == /\ exists
           /\ phase \in {"CertSuiteDeploying", "CertSuiteRunning"}
           /\ ~report /\ report'
           /\ UNCHANGED <<exists, phase, recorded>>

(* Only a run that has published its report is shown as finished. *)
Finish == /\ Step("CertSuiteRunning", "CertSuiteFinished")
          /\ report
          /\ UNCHANGED recorded

Fail == Step("CertSuiteRunning", "CertSuiteError") /\ UNCHANGED recorded

Next == Request \/ Withdraw \/ Deploy \/ Run \/ Publish \/ Finish \/ Fail

Spec == Init /\ [][Next]_object
=============================================================================
