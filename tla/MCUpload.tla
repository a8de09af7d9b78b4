------------------------------- MODULE MCUpload -------------------------------
(* Two attempts to upload an artifact of one whole part, of one and a half, of *)
(* two, or of too many.                                                        *)
EXTENDS Upload

CONSTANTS c1, c2

Pair == {c1, c2}
===============================================================================
