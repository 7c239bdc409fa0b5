SPECIFICATION Spec
CONSTANTS
    TestCases = {t1, t2, t3}
SYMMETRY Symmetry
INVARIANTS TypeOK EachResultOnce SummaryAddsUp VerdictTells WholeOrNothing
CHECK_DEADLOCK FALSE
