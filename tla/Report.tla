------------------------------- MODULE Report -------------------------------
(***************************************************************************)
(* How the sidecar turns a claim into the report of a run: SetRunCRStatus  *)
(* (certsuite-sidecar/app/cnf-cert-suite-report/cnfcertsuitereport.go),    *)
(* one step per iteration of its loop over a Go map, whose order is not    *)
(* fixed, and what the schema of the custom resource says of the result.   *)
(* A claim that comes out here as an accepted report is "valid" in module  *)
(* Sidecar, one that panics or is refused is "rejected".                   *)
(***************************************************************************)
EXTENDS Integers, Sequences, FiniteSets

CONSTANT TestCases \* names of test cases

ASSUME TestCasesAssumption == IsFiniteSet(TestCases)

VARIABLES
    claim,   \* the results of the claim file, by test case
    show,    \* ShowAllResultsLogs, ShowCompliantResourcesAlways of the run
    left,    \* the test cases the loop has not visited
    results, \* the report's results
    summary, \* the report's counters
    verdict, \* the report's verdict
    pc       \* where SetRunCRStatus is

vars == <<claim, show, left, results, summary, verdict, pc>>

(* The states the API knows; "other" is any other string of a claim file.  *)
KnownStates == {"passed", "skipped", "failed", "error"}

(* The details of a check: an empty string, no JSON, JSON whose objects    *)
(* lack a key, hold another type or fewer values than keys, or as expected.*)
Details == {"empty", "unreadable", "malformed", "complete"}

ClaimResults == [state : KnownStates \cup {"other"}, details : Details]

ClaimFiles == UNION {[T -> ClaimResults] : T \in SUBSET TestCases}

(* The optional fields of a result that are filled in.                     *)
Fields == {"skipReason", "failureReason", "logs", "remediation", "targets"}

TestCaseResults == [testCaseName : TestCases, result : KnownStates \cup {"other"},
                    shown : SUBSET Fields]

Counters == {"total", "passed", "skipped", "failed", "error"}

Verdicts == {"pass", "skip", "fail", "error"}

TypeOK ==
    /\ claim \in ClaimFiles
    /\ show \in [logs : BOOLEAN, compliant : BOOLEAN]
    /\ left \subseteq DOMAIN claim
    /\ results \in Seq(TestCaseResults)
    /\ summary \in [Counters -> Nat]
    /\ verdict \in Verdicts \cup {""}
    /\ pc \in {"loop", "panic", "done"}

Init ==
    /\ claim \in ClaimFiles
    /\ show \in [logs : BOOLEAN, compliant : BOOLEAN]
    /\ left = DOMAIN claim
    /\ results = <<>> /\ summary = [c \in Counters |-> 0]
    /\ verdict = "" /\ pc = "loop"

----------------------------------------------------------------------------
(* Mutant: the resources of every result are set, whatever its state. *)
SetsAllTargets(tc) == TRUE

(* The results whose compliant and non-compliant resources are shown.      *)
SetsTargets(tc) == \/ claim[tc].state = "failed"
                   \/ claim[tc].state = "passed" /\ show.compliant

(* getTargetResourcesFromClaim: a type assertion or an index that fails.   *)
Panics(tc) == SetsTargets(tc) /\ claim[tc].details = "malformed"

(* Mutant: only a failed result gets its reason. *)
ShownIfFailed(tc) ==
    IF claim[tc].state = "failed" THEN {"failureReason", "logs", "remediation"} ELSE {}

Shown(tc) ==
    LET state == claim[tc].state IN
       (IF state = "skipped" THEN {"skipReason"} ELSE {})
  \cup (IF state = "failed" THEN {"failureReason", "logs", "remediation"} ELSE {})
  \cup (IF show.logs THEN {"logs"} ELSE {})
  \cup (IF SetsTargets(tc) /\ claim[tc].details = "complete" THEN {"targets"} ELSE {})

(* Mutant: a test case that was skipped does not count as a test. *)
CountedIfRun(state) ==
    [c \in Counters |-> IF c = state \/ (c = "total" /\ state # "skipped")
                        THEN summary[c] + 1 ELSE summary[c]]

(* Mutant: the counters are kept by whatever state the claim names. *)
CountedByState(state) ==
    [c \in Counters \cup {state} |->
        IF c \notin Counters THEN 1
        ELSE IF c \in {"total", state} THEN summary[c] + 1 ELSE summary[c]]

Counted(state) ==
    [c \in Counters |-> IF c \in {"total", state} THEN summary[c] + 1 ELSE summary[c]]

(* One iteration of the loop; the counter moves before the targets are set.*)
Visit(tc) ==
    /\ pc = "loop" /\ tc \in left
    /\ left' = left \ {tc}
    /\ summary' = Counted(claim[tc].state)
    /\ \/ /\ Panics(tc)
          /\ pc' = "panic" /\ UNCHANGED results
       \/ /\ ~Panics(tc)
          /\ results' = Append(results, [testCaseName |-> tc,
                                         result |-> claim[tc].state,
                                         shown |-> Shown(tc)])
          /\ UNCHANGED pc
    /\ UNCHANGED <<claim, show, verdict>>

(* Mutant: a failed test case outweighs one that ran into an error. *)
FailureFirst ==
    IF summary["failed"] >= 1 THEN "fail"
    ELSE IF summary["error"] >= 1 THEN "error"
    ELSE IF summary["skipped"] = summary["total"] THEN "skip"
    ELSE "pass"

Verdict ==
    IF summary["error"] >= 1 THEN "error"
    ELSE IF summary["failed"] >= 1 THEN "fail"
    ELSE IF summary["skipped"] = summary["total"] THEN "skip"
    ELSE "pass"

Finish ==
    /\ pc = "loop" /\ left = {}
    /\ verdict' = Verdict /\ pc' = "done"
    /\ UNCHANGED <<claim, show, left, results, summary>>

Next == (\E tc \in TestCases : Visit(tc)) \/ Finish

Spec == Init /\ [][Next]_vars

(* The API server stores a report whose results and verdict are listed in  *)
(* the schema's enums.                                                     *)
Accepted == /\ pc = "done" /\ verdict \in Verdicts
            /\ \A i \in DOMAIN results : results[i].result \in KnownStates

----------------------------------------------------------------------------
Of(state) == {tc \in DOMAIN claim : claim[tc].state = state}

(* "For every test case, contains its result and logs. If the the result   *)
(* is "skipped" or "failed" contains also the skip\failure reason"         *)
(* (README.md:262): whatever the order of the loop, the report has each    *)
(* test case of the claim exactly once, with the state it has there, and   *)
(* with that reason. Of the logs nothing is claimed: unless the run asks   *)
(* for all of them, only failed results have theirs.                       *)
EachResultOnce ==
    pc = "done" =>
        /\ Len(results) = Cardinality(DOMAIN claim)
        /\ \A tc \in DOMAIN claim : \E i \in DOMAIN results :
              /\ results[i].testCaseName = tc
              /\ results[i].result = claim[tc].state
              /\ tc \in Of("skipped") => "skipReason" \in results[i].shown
              /\ tc \in Of("failed") => "failureReason" \in results[i].shown

(* "Summarize the total number of tests by their results" (README.md:291): *)
(* each counter is the number of such test cases in the claim, and in a    *)
(* report that is accepted they add up.                                    *)
SummaryAddsUp ==
    pc = "done" =>
        /\ summary["total"] = Cardinality(DOMAIN claim)
        /\ \A state \in KnownStates : summary[state] = Cardinality(Of(state))
        /\ Accepted => summary["total"] = summary["passed"] + summary["skipped"]
                                          + summary["failed"] + summary["error"]

(* The verdict of an accepted report, by the comments of lines 152 to 158: *)
(* an error outweighs a failure, "pass" takes a test case that passed, and *)
(* a claim without test cases is skipped. Results of an unknown state would*)
(* pass; it is the schema that keeps their report out.                     *)
VerdictTells ==
    Accepted =>
        /\ verdict = "error" <=> Of("error") # {}
        /\ verdict = "fail" <=> Of("error") = {} /\ Of("failed") # {}
        /\ verdict = "skip" <=> DOMAIN claim = Of("skipped")
        /\ verdict = "pass" <=> /\ Of("passed") # {}
                                /\ DOMAIN claim = Of("passed") \cup Of("skipped")

(* One result with malformed details makes the sidecar panic and costs the *)
(* whole report, but only a result whose resources are to be shown, and    *)
(* whatever the order in which the loop comes to it.                       *)
Broken == \E tc \in DOMAIN claim :
             /\ claim[tc].details = "malformed"
             /\ \/ tc \in Of("failed")
                \/ (tc \in Of("passed") /\ show.compliant)

WholeOrNothing == /\ pc = "panic" => Broken
                  /\ pc = "done" => ~Broken
=============================================================================
