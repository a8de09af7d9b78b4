----------------------------- MODULE MCBoundedCopy -----------------------------
(* Four-bit sizes: every size up to the largest, and bodies around each.       *)
EXTENDS BoundedCopy

AllSizes == 0..MaxInt
MCCaps   == {0, 3, MaxInt - 1}
===============================================================================
