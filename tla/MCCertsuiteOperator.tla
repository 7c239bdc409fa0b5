------------------------ MODULE MCCertsuiteOperator ------------------------
EXTENDS CertsuiteOperator, TLC

(* The kubelet sorts the container statuses by name. *)
ByName == <<"certsuite", "certsuite-sidecar">>
(* The order getContainerStatus expects: that of the pod's specification. *)
BySpec == <<"certsuite-sidecar", "certsuite">>

Symmetry == Permutations(Runs)
=============================================================================
