----------------------------- MODULE MCDelivery -----------------------------
EXTENDS Delivery, TLC

\* A selection of one object, and one of nothing.
OneOrNone == {{}} \cup {{x} : x \in Objects}

Symmetry == Permutations(Calls) \cup Permutations(Objects)
=============================================================================
