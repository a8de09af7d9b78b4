---------------------------- MODULE MCCachedBuild ----------------------------
(* Small instances of CachedBuild: blobs of 1, 2 and 3 bytes.                *)
EXTENDS CachedBuild, TLC

CONSTANTS p1, p2, p3, i1, i2, i3

TwoProcs    == {p1, p2}
ThreeProcs  == {p1, p2, p3}
ThreeInodes == {i1, i2, i3}
MCSize      == [d \in Digests |-> d]

Image(d) == [want |-> d, size |-> Size[d]]

\* A catalog entry whose size is not that of its digest.
WrongSize == [want |-> 1, size |-> 3]

MCRequests == {Image(d) : d \in Digests} \cup {WrongSize}

OnlyFirst == {<<Image(1)>>}
OneImage  == {<<Image(1)>>, <<Image(2)>>, <<WrongSize>>}
TwoImages == {<<Image(1), Image(2)>>, <<Image(2)>>, <<Image(3)>>}

Symmetry == Permutations(Procs) \cup Permutations(Inodes)
==============================================================================
