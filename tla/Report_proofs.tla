--------------------------- MODULE Report_proofs ---------------------------
(***************************************************************************)
(* Proofs about Report, for any finite set of test cases and any claim:    *)
(* the loop visits each of them once, whatever its order, and what it has  *)
(* counted, collected and survived so far is exact at every moment.        *)
(***************************************************************************)
EXTENDS Report, FiniteSetTheorems, SequenceTheorems, TLAPS

States == KnownStates \cup {"other"}

Visited == DOMAIN claim \ left

Tally(c) == {tc \in Visited : c \in {"total", claim[tc].state}}

Entry(tc, i) == results[i] = [testCaseName |-> tc, result |-> claim[tc].state,
                              shown |-> Shown(tc)]

(* The counters are those of the visited test cases.                       *)
CountInv == \A c \in Counters : summary[c] = Cardinality(Tally(c))

(* Unless it panicked, the loop collected what it visited, and nothing else*)
CollectInv ==
    pc # "panic" =>
        /\ Len(results) = Cardinality(Visited)
        /\ \A tc \in Visited : \E i \in DOMAIN results : Entry(tc, i)

PanicInv == /\ pc = "panic" => \E tc \in Visited : Panics(tc)
            /\ pc # "panic" => \A tc \in Visited : ~Panics(tc)

EndInv == pc = "done" => left = {} /\ verdict = Verdict

ReportInv == CountInv /\ CollectInv /\ PanicInv /\ EndInv

----------------------------------------------------------------------------
LEMMA ClaimType ==
    ASSUME claim \in ClaimFiles
    PROVE  /\ DOMAIN claim \subseteq TestCases /\ IsFiniteSet(DOMAIN claim)
           /\ \A tc \in DOMAIN claim : claim[tc] \in ClaimResults
<1>1. PICK T \in SUBSET TestCases : claim \in [T -> ClaimResults]
    BY DEF ClaimFiles
<1> QED BY <1>1, FS_Subset, TestCasesAssumption DEF TestCasesAssumption

LEMMA ShownType ==
    ASSUME NEW tc
    PROVE  Shown(tc) \in SUBSET Fields
BY DEF Shown, Fields

LEMMA CountedType ==
    ASSUME NEW state \in States, summary \in [Counters -> Nat]
    PROVE  Counted(state) \in [Counters -> Nat]
BY DEF Counted

(* Every variable keeps its type: the inductive step.                      *)
LEMMA TypeStep == TypeOK /\ [Next]_vars => TypeOK'
<1> SUFFICES ASSUME TypeOK, [Next]_vars PROVE TypeOK'
    OBVIOUS
<1> USE DEF TypeOK
<1>1. ASSUME NEW tc \in TestCases, Visit(tc) PROVE TypeOK'
  <2>1. tc \in DOMAIN claim /\ claim[tc] \in ClaimResults
      BY <1>1, ClaimType DEF Visit
  <2>2. claim[tc].state \in States
      BY <2>1 DEF ClaimResults, States
  <2>3. summary' \in [Counters -> Nat]
      BY <1>1, <2>2, CountedType DEF Visit
  <2>4. [testCaseName |-> tc, result |-> claim[tc].state, shown |-> Shown(tc)]
            \in TestCaseResults
      BY <2>2, ShownType DEF TestCaseResults, States
  <2>5. results' \in Seq(TestCaseResults)
    <3>1. CASE Panics(tc) BY <1>1, <3>1 DEF Visit
    <3>2. CASE ~Panics(tc)
      <4> DEFINE r == [testCaseName |-> tc, result |-> claim[tc].state,
                       shown |-> Shown(tc)]
      <4>1. results' = Append(results, r)
          BY <1>1, <3>2 DEF Visit
      <4>2. r \in TestCaseResults
          BY <2>4
      <4> HIDE DEF r
      <4> QED BY <4>1, <4>2, AppendProperties
    <3> QED BY <3>1, <3>2
  <2>6. left' \subseteq DOMAIN claim' /\ pc' \in {"loop", "panic", "done"}
      BY <1>1 DEF Visit
  <2> QED BY <1>1, <2>3, <2>5, <2>6 DEF Visit
<1>2. CASE Finish
    BY <1>2 DEF Finish, Verdict, Verdicts
<1>3. CASE UNCHANGED vars
    BY <1>3 DEF vars
<1> QED BY <1>1, <1>2, <1>3 DEF Next

(* Every variable keeps its type, for any claim over the test cases.       *)
THEOREM ReportTypes == Spec => []TypeOK
<1>1. Init => TypeOK
  <2> SUFFICES ASSUME Init PROVE TypeOK
      OBVIOUS
  <2>1. results \in Seq(TestCaseResults)
      BY EmptySeq DEF Init
  <2> QED BY <2>1 DEF Init, TypeOK
<1> QED BY <1>1, TypeStep, PTL DEF Spec

----------------------------------------------------------------------------
(* The inductive invariant.                                                *)

(* What a visit does to the set of visited test cases. *)
LEMMA VisitGrows ==
    ASSUME TypeOK, NEW tc \in TestCases, Visit(tc)
    PROVE  /\ tc \in DOMAIN claim /\ tc \notin Visited
           /\ claim[tc].state \in States
           /\ Visited' = Visited \cup {tc} /\ IsFiniteSet(Visited)
<1>1. tc \in DOMAIN claim /\ tc \notin Visited /\ Visited' = Visited \cup {tc}
    BY DEF Visit, Visited, TypeOK
<1>2. claim[tc].state \in States
    BY <1>1, ClaimType DEF TypeOK, ClaimResults, States
<1>3. IsFiniteSet(Visited)
    BY ClaimType, FS_Difference DEF Visited, TypeOK
<1> QED BY <1>1, <1>2, <1>3

LEMMA CountStep ==
    ASSUME TypeOK, CountInv, NEW tc \in TestCases, Visit(tc)
    PROVE  CountInv'
<1> SUFFICES ASSUME NEW c \in Counters
             PROVE  summary'[c] = Cardinality(Tally(c)')
    BY DEF CountInv
<1>1. /\ tc \notin Visited /\ Visited' = Visited \cup {tc}
      /\ claim[tc].state \in States /\ claim' = claim
    BY VisitGrows DEF Visit
<1>2. IsFiniteSet(Tally(c)) /\ tc \notin Tally(c)
    BY <1>1, VisitGrows, FS_Subset DEF Tally
<1>3. summary'[c] = IF c \in {"total", claim[tc].state}
                    THEN summary[c] + 1 ELSE summary[c]
    BY DEF Visit, Counted
<1>4. CASE c \in {"total", claim[tc].state}
  <2>1. Tally(c)' = Tally(c) \cup {tc}
      BY <1>1, <1>4 DEF Tally
  <2> QED BY <1>2, <1>3, <1>4, <2>1, FS_AddElement DEF CountInv
<1>5. CASE c \notin {"total", claim[tc].state}
  <2>1. Tally(c)' = Tally(c)
      BY <1>1, <1>5 DEF Tally
  <2> QED BY <1>3, <1>5, <2>1 DEF CountInv
<1> QED BY <1>4, <1>5

LEMMA CollectStep ==
    ASSUME TypeOK, CollectInv, NEW tc \in TestCases, Visit(tc)
    PROVE  CollectInv'
<1> SUFFICES ASSUME pc' # "panic"
             PROVE  /\ Len(results') = Cardinality(Visited')
                    /\ \A t \in Visited' : \E i \in DOMAIN results' : Entry(t, i)'
    BY DEF CollectInv
<1> DEFINE r == [testCaseName |-> tc, result |-> claim[tc].state,
                 shown |-> Shown(tc)]
<1>1. /\ tc \notin Visited /\ Visited' = Visited \cup {tc} /\ IsFiniteSet(Visited)
      /\ claim[tc].state \in States
    BY VisitGrows
<1>2. /\ results' = Append(results, r) /\ claim' = claim /\ show' = show
      /\ pc # "panic"
    BY DEF Visit
<1>3. r \in TestCaseResults
    BY <1>1, ShownType DEF TestCaseResults, States
<1>4. results \in Seq(TestCaseResults)
    BY DEF TypeOK
<1>5. \A t : Shown(t)' = Shown(t)
    BY <1>2 DEF Shown, SetsTargets
<1>6. /\ DOMAIN results = 1 .. Len(results) /\ Len(results) \in Nat
      /\ DOMAIN results' = 1 .. Len(results')
      /\ Len(results') = Len(results) + 1
      /\ results'[Len(results) + 1] = r
      /\ \A i \in 1 .. Len(results) : results'[i] = results[i]
  <2> HIDE DEF r
  <2> QED BY <1>2, <1>3, <1>4, AppendProperties, LenProperties
<1>7. Len(results') = Cardinality(Visited')
  <2>1. Cardinality(Visited \cup {tc}) = Cardinality(Visited) + 1
      BY <1>1, FS_AddElement
  <2>2. Len(results) = Cardinality(Visited)
      BY <1>2 DEF CollectInv
  <2> QED BY <1>1, <1>6, <2>1, <2>2
<1>8. ASSUME NEW t \in Visited PROVE \E i \in DOMAIN results' : Entry(t, i)'
  <2>1. PICK i \in DOMAIN results : Entry(t, i)
      BY <1>2, <1>8 DEF CollectInv
  <2> QED BY <1>2, <1>5, <1>6, <2>1 DEF Entry
<1>9. \E i \in DOMAIN results' : Entry(tc, i)'
    BY <1>2, <1>5, <1>6 DEF Entry
<1> QED BY <1>1, <1>7, <1>8, <1>9

LEMMA PanicStep ==
    ASSUME TypeOK, PanicInv, NEW tc \in TestCases, Visit(tc)
    PROVE  PanicInv'
<1>1. /\ Visited' = Visited \cup {tc} /\ claim' = claim /\ show' = show
      /\ pc = "loop"
    BY VisitGrows DEF Visit
<1>2. \A t : Panics(t)' = Panics(t)
    BY <1>1 DEF Panics, SetsTargets
<1>3. CASE Panics(tc)
    BY <1>1, <1>2, <1>3 DEF PanicInv, Visit
<1>4. CASE ~Panics(tc)
    BY <1>1, <1>2, <1>4 DEF PanicInv, Visit
<1> QED BY <1>3, <1>4

LEMMA ReportInvStep == TypeOK /\ ReportInv /\ [Next]_vars => ReportInv'
<1> SUFFICES ASSUME TypeOK, ReportInv, [Next]_vars PROVE ReportInv'
    OBVIOUS
<1>1. ASSUME NEW tc \in TestCases, Visit(tc) PROVE ReportInv'
  <2>1. EndInv'
      BY <1>1 DEF Visit, EndInv
  <2> QED BY <1>1, <2>1, CountStep, CollectStep, PanicStep DEF ReportInv
<1>2. CASE Finish
  <2>1. Visited' = Visited /\ \A c : Tally(c)' = Tally(c)
      BY <1>2 DEF Finish, Visited, Tally
  <2>2. \A tc, i : Entry(tc, i)' = Entry(tc, i)
      BY <1>2 DEF Finish, Entry, Shown, SetsTargets
  <2>3. \A tc : Panics(tc)' = Panics(tc)
      BY <1>2 DEF Finish, Panics, SetsTargets
  <2>4. CountInv' /\ CollectInv'
      BY <1>2, <2>1, <2>2 DEF ReportInv, CountInv, CollectInv, Finish
  <2>5. PanicInv' /\ EndInv'
      BY <1>2, <2>1, <2>3 DEF ReportInv, PanicInv, EndInv, Finish, Verdict
  <2> QED BY <2>4, <2>5 DEF ReportInv
<1>3. CASE UNCHANGED vars
    BY <1>3 DEF vars, ReportInv, CountInv, CollectInv, PanicInv, EndInv, Visited,
                Tally, Entry, Shown, SetsTargets, Panics, Verdict
<1> QED BY <1>1, <1>2, <1>3 DEF Next

LEMMA ReportInvInit == Init => ReportInv
<1> SUFFICES ASSUME Init PROVE ReportInv
    OBVIOUS
<1>1. Visited = {} /\ \A c : Tally(c) = {}
    BY DEF Init, Visited, Tally
<1>2. CountInv /\ CollectInv
    BY <1>1, FS_EmptySet, EmptySeq DEF Init, CountInv, CollectInv, Counters
<1> QED BY <1>1, <1>2 DEF Init, ReportInv, PanicInv, EndInv

LEMMA ReportInvCorrect == Spec => [](TypeOK /\ ReportInv)
BY ReportTypes, ReportInvInit, ReportInvStep, PTL DEF Spec

----------------------------------------------------------------------------
(* The properties.                                                         *)

(* What has been visited at the end, and tallied, is the whole claim. *)
LEMMA AtTheEnd ==
    ASSUME TypeOK, ReportInv, pc = "done"
    PROVE  /\ Visited = DOMAIN claim
           /\ Tally("total") = DOMAIN claim
           /\ \A state \in KnownStates : Tally(state) = Of(state)
           /\ \A state \in KnownStates : IsFiniteSet(Of(state))
<1>1. Visited = DOMAIN claim
    BY DEF ReportInv, EndInv, Visited
<1>2. \A state \in KnownStates : Of(state) \in SUBSET DOMAIN claim
    BY DEF Of
<1> QED BY <1>1, <1>2, ClaimType, FS_Subset DEF TypeOK, Tally, Of, KnownStates

(* An accepted report has only results of a known state. *)
LEMMA AcceptedStates ==
    ASSUME TypeOK, ReportInv, Accepted
    PROVE  \A tc \in DOMAIN claim : claim[tc].state \in KnownStates
<1> SUFFICES ASSUME NEW tc \in DOMAIN claim PROVE claim[tc].state \in KnownStates
    OBVIOUS
<1>1. PICK i \in DOMAIN results : Entry(tc, i)
    BY AtTheEnd DEF Accepted, ReportInv, CollectInv
<1> QED BY <1>1 DEF Accepted, Entry

(* For any claim and any order of the loop, the report has each test case  *)
(* of the claim exactly once, with its state and the reason it needs.      *)
THEOREM EveryResultOnce == Spec => []EachResultOnce
<1>1. TypeOK /\ ReportInv => EachResultOnce
  <2> SUFFICES ASSUME TypeOK, ReportInv, pc = "done"
               PROVE  /\ Len(results) = Cardinality(DOMAIN claim)
                      /\ \A tc \in DOMAIN claim : \E i \in DOMAIN results :
                            /\ results[i].testCaseName = tc
                            /\ results[i].result = claim[tc].state
                            /\ tc \in Of("skipped") => "skipReason" \in results[i].shown
                            /\ tc \in Of("failed") => "failureReason" \in results[i].shown
      BY DEF EachResultOnce
  <2>1. Len(results) = Cardinality(DOMAIN claim)
      BY AtTheEnd DEF ReportInv, CollectInv
  <2>2. ASSUME NEW tc \in DOMAIN claim
        PROVE  \E i \in DOMAIN results :
                  /\ results[i].testCaseName = tc
                  /\ results[i].result = claim[tc].state
                  /\ tc \in Of("skipped") => "skipReason" \in results[i].shown
                  /\ tc \in Of("failed") => "failureReason" \in results[i].shown
    <3>1. PICK i \in DOMAIN results : Entry(tc, i)
        BY AtTheEnd DEF ReportInv, CollectInv
    <3> QED BY <3>1 DEF Entry, Of, Shown
  <2> QED BY <2>1, <2>2
<1> QED BY <1>1, ReportInvCorrect, PTL

LEMMA TwoParts ==
    ASSUME NEW A, NEW B, IsFiniteSet(A), IsFiniteSet(B), A \cap B = {}
    PROVE  /\ IsFiniteSet(A \cup B)
           /\ Cardinality(A \cup B) = Cardinality(A) + Cardinality(B)
<1>1. Cardinality(A \cap B) = 0
    BY FS_EmptySet
<1>2. Cardinality(A) \in Nat /\ Cardinality(B) \in Nat
    BY FS_CardinalityType
<1>3. /\ IsFiniteSet(A \cup B)
      /\ Cardinality(A \cup B) = Cardinality(A) + Cardinality(B) - Cardinality(A \cap B)
    BY FS_Union
<1> QED BY <1>1, <1>2, <1>3

(* The parts of a set are four disjoint sets. *)
LEMMA FourParts ==
    ASSUME NEW S, NEW A, NEW B, NEW C, NEW D, IsFiniteSet(S),
           S = A \cup B \cup C \cup D,
           A \cap B = {}, A \cap C = {}, A \cap D = {},
           B \cap C = {}, B \cap D = {}, C \cap D = {}
    PROVE  Cardinality(S) = Cardinality(A) + Cardinality(B)
                            + Cardinality(C) + Cardinality(D)
<1>1. IsFiniteSet(A) /\ IsFiniteSet(B) /\ IsFiniteSet(C) /\ IsFiniteSet(D)
  <2>1. A \in SUBSET S /\ B \in SUBSET S /\ C \in SUBSET S /\ D \in SUBSET S
      OBVIOUS
  <2> QED BY <2>1, FS_Subset
<1>2. (A \cup B) \cap (C \cup D) = {} /\ S = (A \cup B) \cup (C \cup D)
    OBVIOUS
<1>3. IsFiniteSet(A \cup B) /\ Cardinality(A \cup B) = Cardinality(A) + Cardinality(B)
    BY <1>1, TwoParts
<1>4. IsFiniteSet(C \cup D) /\ Cardinality(C \cup D) = Cardinality(C) + Cardinality(D)
    BY <1>1, TwoParts
<1>5. Cardinality(S) = Cardinality(A \cup B) + Cardinality(C \cup D)
    BY <1>2, <1>3, <1>4, TwoParts
<1>6. /\ Cardinality(A) \in Nat /\ Cardinality(B) \in Nat
      /\ Cardinality(C) \in Nat /\ Cardinality(D) \in Nat
    BY <1>1, FS_CardinalityType
<1> QED BY <1>3, <1>4, <1>5, <1>6

(* For any claim the counters are exact, and add up in an accepted report. *)
THEOREM SummaryIsExact == Spec => []SummaryAddsUp
<1>1. TypeOK /\ ReportInv => SummaryAddsUp
  <2> SUFFICES ASSUME TypeOK, ReportInv, pc = "done"
               PROVE  /\ summary["total"] = Cardinality(DOMAIN claim)
                      /\ \A state \in KnownStates : summary[state] = Cardinality(Of(state))
                      /\ Accepted => summary["total"] = summary["passed"] + summary["skipped"]
                                          + summary["failed"] + summary["error"]
      BY DEF SummaryAddsUp
  <2>1. summary["total"] = Cardinality(DOMAIN claim)
      BY AtTheEnd DEF ReportInv, CountInv, Counters
  <2>2. \A state \in KnownStates : summary[state] = Cardinality(Of(state))
      BY AtTheEnd DEF ReportInv, CountInv, Counters, KnownStates
  <2>3. ASSUME Accepted
        PROVE  summary["total"] = summary["passed"] + summary["skipped"]
                                  + summary["failed"] + summary["error"]
    <3>1. DOMAIN claim = Of("passed") \cup Of("skipped") \cup Of("failed") \cup Of("error")
        BY <2>3, AcceptedStates DEF Of, KnownStates
    <3>2. \A x, y \in KnownStates : x # y => Of(x) \cap Of(y) = {}
        BY DEF Of
    <3>3. IsFiniteSet(DOMAIN claim)
        BY ClaimType DEF TypeOK
    <3>4. Cardinality(DOMAIN claim) =
              Cardinality(Of("passed")) + Cardinality(Of("skipped"))
              + Cardinality(Of("failed")) + Cardinality(Of("error"))
        BY <3>1, <3>2, <3>3, FourParts DEF KnownStates
    <3> QED BY <2>1, <2>2, <3>4 DEF KnownStates
  <2> QED BY <2>1, <2>2, <2>3
<1> QED BY <1>1, ReportInvCorrect, PTL

(* For any claim the verdict of an accepted report is the one its results  *)
(* deserve.                                                                *)
THEOREM VerdictIsRight == Spec => []VerdictTells
<1>1. TypeOK /\ ReportInv => VerdictTells
  <2> SUFFICES ASSUME TypeOK, ReportInv, Accepted PROVE VerdictTells
      BY DEF VerdictTells
  <2>1. pc = "done" /\ verdict = Verdict
      BY DEF Accepted, ReportInv, EndInv
  <2>2. /\ summary["total"] = Cardinality(DOMAIN claim)
        /\ \A state \in KnownStates : summary[state] = Cardinality(Of(state))
      BY <2>1, AtTheEnd DEF ReportInv, CountInv, Counters, KnownStates
  <2>3. \A state \in KnownStates :
            summary[state] \in Nat /\ (summary[state] = 0 <=> Of(state) = {})
      BY <2>1, <2>2, AtTheEnd, FS_EmptySet DEF TypeOK, Counters, KnownStates
  <2>4. summary["skipped"] = summary["total"] <=> DOMAIN claim = Of("skipped")
    <3>1. Of("skipped") \in SUBSET DOMAIN claim
        BY DEF Of
    <3> QED BY <2>2, <3>1, FS_Subset, ClaimType DEF TypeOK, KnownStates
  <2>5. DOMAIN claim = Of("passed") \cup Of("skipped") \cup Of("failed") \cup Of("error")
      BY AcceptedStates DEF Of, KnownStates
  <2>6. \A x, y \in KnownStates : x # y => Of(x) \cap Of(y) = {}
      BY DEF Of
  <2>7. verdict = "error" <=> Of("error") # {}
      BY <2>1, <2>3 DEF Verdict, KnownStates
  <2>8. verdict = "fail" <=> Of("error") = {} /\ Of("failed") # {}
      BY <2>1, <2>3 DEF Verdict, KnownStates
  <2>9. verdict = "skip" <=> Of("error") = {} /\ Of("failed") = {}
                             /\ DOMAIN claim = Of("skipped")
      BY <2>1, <2>3, <2>4 DEF Verdict, KnownStates
  <2>10. verdict = "pass" <=> Of("error") = {} /\ Of("failed") = {}
                              /\ DOMAIN claim # Of("skipped")
      BY <2>1, <2>3, <2>4 DEF Verdict, KnownStates
  <2> QED BY <2>5, <2>6, <2>7, <2>8, <2>9, <2>10 DEF VerdictTells, KnownStates
<1> QED BY <1>1, ReportInvCorrect, PTL

(* For any claim, whether there is a report does not depend on the order.  *)
THEOREM ReportIsWholeOrNone == Spec => []WholeOrNothing
<1>1. TypeOK /\ ReportInv => WholeOrNothing
  <2> SUFFICES ASSUME TypeOK, ReportInv PROVE WholeOrNothing
      OBVIOUS
  <2>1. Broken <=> \E tc \in DOMAIN claim : Panics(tc)
      BY DEF Broken, Panics, SetsTargets, Of
  <2>2. pc = "panic" => Broken
      BY <2>1 DEF ReportInv, PanicInv, Visited
  <2>3. pc = "done" => ~Broken
      BY <2>1, AtTheEnd DEF ReportInv, PanicInv
  <2> QED BY <2>2, <2>3 DEF WholeOrNothing
<1> QED BY <1>1, ReportInvCorrect, PTL
=============================================================================
