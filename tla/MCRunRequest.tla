---------------------------- MODULE MCRunRequest ----------------------------
EXTENDS RunRequest

(* A short timeout, one whose sum with the guard is past the largest       *)
(* duration (it turns negative), and with "soon" one that does not parse.  *)
MCParsed == [short |-> 0, largest |-> 3]
=============================================================================
