------------------------------ MODULE MCReport ------------------------------
EXTENDS Report, TLC

Symmetry == Permutations(TestCases)
=============================================================================
