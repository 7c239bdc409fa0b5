------------------------------ MODULE Sidecar ------------------------------
(***************************************************************************)
(* The sidecar container of a job pod (certsuite-sidecar/app/main.go): it  *)
(* waits for the claim file, reads it after a fixed delay, gets the        *)
(* CertsuiteRun object by NAME, sets the report in its status and sends    *)
(* the status back once. Every error is fatal, and the pod never restarts  *)
(* a container.                                                            *)
(***************************************************************************)
EXTENDS Cluster

Stop(p, code) == [pods[p] EXCEPT !.status["certsuite-sidecar"] = code, !.read = NoRun]

(* Mutant: an error is logged and the program ends as if all went well. *)
Logged(p) == pods' = [pods EXCEPT ![p] = Stop(p, "exit0")]

Fatal(p) == pods' = [pods EXCEPT ![p] = Stop(p, "exit1")]

HasRead(p) == Present(pods[p].read)

(* A Get that is not cached: the object stored under the pod's run name.   *)
(* The delay of 5 seconds before the file is read is no lock: the file may *)
(* still be incomplete.                                                    *)
SidecarRead(p) ==
    /\ Running(p, "certsuite-sidecar") /\ ~HasRead(p)
    /\ pods[p].claim # "none"
    /\ LET cr == crs[pods[p].run] IN
       \/ /\ pods[p].claim # "partial" /\ Present(cr)
          /\ pods' = [pods EXCEPT ![p].read = cr]
          /\ UNCHANGED failures
       \/ /\ pods[p].claim = "partial" \/ ~Present(cr)
          /\ Fatal(p)
          /\ UNCHANGED failures
       \/ CallFails /\ Fatal(p)
    /\ UNCHANGED <<crs, gen>>

(* SetRunCRStatus: the status read before, with the report of this pod. *)
WithReport(p) == [pods[p].read EXCEPT !.report = pods[p].owner]

ReportAccepted(p) == /\ Current(pods[p].run, WithReport(p))
                     /\ StatusAccepted(WithReport(p))
                     /\ pods[p].claim = "valid"

(* The one status update. It may also be stored although its answer is     *)
(* lost, which is as fatal as any other error.                             *)
SidecarUpdate(p) ==
    /\ Running(p, "certsuite-sidecar") /\ HasRead(p)
    /\ \/ /\ ReportAccepted(p)
          /\ crs' = Stored(pods[p].run, WithReport(p))
          /\ \/ pods' = [pods EXCEPT ![p] = Stop(p, "exit0")] /\ UNCHANGED failures
             \/ CallFails /\ Fatal(p)
       \/ /\ ~ReportAccepted(p)
          /\ Fatal(p)
          /\ UNCHANGED <<crs, failures>>
       \/ /\ CallFails /\ Fatal(p)
          /\ UNCHANGED crs
    /\ UNCHANGED gen

SidecarNext == \E p \in PodNames : SidecarRead(p) \/ SidecarUpdate(p)
=============================================================================
