--------------------------- MODULE MCCaseRegistry ---------------------------
EXTENDS CaseRegistry, TLC

Symmetry == Permutations(Ops)
=============================================================================
