----------------------------- MODULE MCSessions -----------------------------
EXTENDS Sessions, SequencesExt, TLC

MCTexts(n) == BoundedSeq({0, 1}, n)

\* All texts of two bytes up to a length, over three chunks, and one object before
\* some of them, so that a search comes to its second member with fewer hits left.
\* With a literal is its mirror image, which exchanges the bytes.
MCSearches ==
    [members : {<<text>> : text \in MCTexts(5)} \cup {<<<<0>>, text>> : text \in MCTexts(3)},
     literal : {<<0>>, <<0, 0>>, <<0, 1>>, <<0, 1, 0>>}, context : 0..2, limit : {1, 2, 9}]

MCOperations == Operations

MCSymmetry == Permutations(Handles)
=============================================================================
