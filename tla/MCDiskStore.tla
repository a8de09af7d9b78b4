----------------------------- MODULE MCDiskStore -----------------------------
(* Small instances of DiskStore: two processes fetch one blob, or two.       *)
EXTENDS DiskStore, TLC

CONSTANTS p1, p2, i1, i2, i3

MCProcs   == {p1, p2}
MCInodes  == {i1, i2, i3}
TwoInodes == {i1, i2}
MCSize    == [d \in Digests |-> d]

\* Pinned to a digest, and unpinned.
MCRequests == { [want |-> 1, size |-> 1], [want |-> None, size |-> 0] }

PinnedRequests == { [want |-> 1, size |-> 1] }

Symmetry == Permutations(MCProcs) \cup Permutations(Inodes)
==============================================================================
