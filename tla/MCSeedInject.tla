----------------------------- MODULE MCSeedInject -----------------------------
(* Sources from empty to a buffer beyond the seed, seeds from empty to one    *)
(* byte too many for the partition.                                           *)
EXTENDS SeedInject

AllLengths     == 0..9
AllSeedLengths == 0..4
===============================================================================
