--------------------------- MODULE MCSourceTrees ---------------------------
EXTENDS SourceTrees, TLC

CONSTANTS c1, c2, f1, f2, d1, k1

\* Two files and a directory; either path may come to have any of them.
MCKindOf == [n \in Nodes |-> IF n = d1 THEN "directory" ELSE "file"]
MCNodesAtFirst == [p \in Paths |-> IF p = 1 THEN f1 ELSE f2]
\* A file of two blocks and an empty one: together they fit, unless one grows.
MCContentAtFirst == [n \in Nodes |-> IF n = f1 THEN <<0, 0>> ELSE <<>>]
Symmetry == Permutations(Calls)

\* Three changes in the course of one import, or one while two are racing.
FewActors == changes + 2 * Cardinality({c \in Calls : pc[c] # "idle"}) <= 5
=============================================================================
