---------------------------- MODULE MCByteSearch ----------------------------
EXTENDS ByteSearch, SequencesExt

\* All texts of two bytes up to a length, and one object before them, so that a
\* search comes to its second member with fewer hits left.
Texts(n) == BoundedSeq({0, 1}, n)

MCSearches ==
    [members : {<<text>> : text \in Texts(7)} \cup {<<<<1>>, text>> : text \in Texts(6)},
     literal : Texts(3) \ {<<>>}, context : 0..2, limit : {1, 2, 9}]
=============================================================================
