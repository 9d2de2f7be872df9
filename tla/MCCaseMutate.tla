---------------------------- MODULE MCCaseMutate ----------------------------
\* Two calls are enough for every race mutate can lose: a third would wait for
\* the same lock.  Calls are not a symmetry set, as liveness is checked.
EXTENDS CaseMutate, TLC
=============================================================================
