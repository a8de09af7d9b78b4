---------------------------- MODULE VerifiedCache ----------------------------
(***************************************************************************)
(* What the image cache promises the builds that share it: an image handed  *)
(* to a build is the image it asked for and stays in the cache for as long  *)
(* as the build works from it, and only one build works from the cache at a *)
(* time.  There are no files, locks or partial downloads here; CachedBuild  *)
(* implements this specification.                                           *)
(***************************************************************************)
CONSTANTS Builds, Images, Perishable

VARIABLES
    cached,   \* images present in the cache, whole and with the right content
    inUse     \* [Builds -> images handed to the build that it still works from]

vars == <<cached, inUse>>

Init ==
    /\ cached \subseteq Images
    /\ inUse = [b \in Builds |-> {}]

\* A build is handed an image, which is in the cache from now on.
Obtain(b, m) ==
    /\ \A other \in Builds \ {b} : inUse[other] = {}
    /\ cached' = cached \cup {m}
    /\ inUse' = [inUse EXCEPT ![b] = @ \cup {m}]

\* The build has made its artifacts, failed, or died.
LetGo(b) ==
    /\ inUse' = [inUse EXCEPT ![b] = {}]
    /\ UNCHANGED cached

\* The cache gives up an image that no build works from.
Drop(m) ==
    /\ \A b \in Builds : m \notin inUse[b]
    /\ cached' = cached \ {m}
    /\ UNCHANGED inUse

\* Something outside the system spoils an image: nobody can rely on it.
Spoil(m) ==
    /\ cached' = cached \ {m}
    /\ inUse' = [b \in Builds |-> inUse[b] \ {m}]

Next ==
    \/ \E b \in Builds : LetGo(b) \/ \E m \in Images : Obtain(b, m)
    \/ \E m \in Images : Drop(m)
    \/ \E m \in Perishable : Spoil(m)

Spec == Init /\ [][Next]_vars

\* An image in use is in the cache (the promise CachedBuild inherits).
InUseCached == \A b \in Builds : inUse[b] \subseteq cached
==============================================================================
