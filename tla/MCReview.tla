------------------------------ MODULE MCReview ------------------------------
EXTENDS Review, TLC

CONSTANTS f1, c1

\* One ID of each kind but three of revisions, numbered in the order of the kinds.
KindsInOrder == <<"artifact", "finding_revision", "finding_revision", "finding_revision",
                  "object", "projection", "selection">>

\* KindIs, DescendsFrom the object, InFinding.
Offered == {[op |-> "kind", of |-> "finding_revision"], [op |-> "descendant", of |-> 5],
            [op |-> "finding", of |-> f1]}
=============================================================================
