------------------------------ MODULE MCRelease ------------------------------
(* Small instances of Release.  c1 and c2 publish the same version, as a     *)
(* retry beside the attempt it replaces; c3 publishes another version with  *)
(* three artifacts of the same contents and moves the same alias.           *)
EXTENDS Release, TLC

CONSTANTS c1, c2, c3, v1, v2, a1, a2, b1, b2

Pair    == {c1, c2}
Three   == {c1, c2, c3}

MCVersion    == [c \in Attempts |-> IF c = c3 THEN v2 ELSE v1]
MCBlob       == [c \in Attempts |-> IF c = c3 THEN <<b1, b2, b1>> ELSE <<b1, b2>>]
MCCount      == [c \in Attempts |-> IF c = c3 THEN 3 ELSE 2]
MCAliases    == [c \in Attempts |-> IF c = c3 THEN <<a1>> ELSE <<a2, a1>>]
MCAliasCount == [c \in Attempts |-> IF c = c3 THEN 1 ELSE 2]

Symmetry == Permutations(Pair)
==============================================================================
