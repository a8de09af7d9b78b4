-------------------------- MODULE PublishedVersions --------------------------
(***************************************************************************)
(* What publishing promises those who read the catalog of image versions:   *)
(* a version appears at one moment, with all artifacts of one release and   *)
(* nothing else, and never changes after that; an alias is put on a version *)
(* that is there, by a release whose version it is.  There are no drafts,   *)
(* requests, jobs or clean-ups here; Release implements this specification. *)
(***************************************************************************)
CONSTANTS
    Releases, Versions, Names,
    None,        \* a version that is not there, an alias never put
    VersionOf,   \* [Releases -> Versions]
    Contents,    \* [Releases -> the artifacts of the release]
    NamesOf      \* [Releases -> the aliases of the release]

VARIABLES
    published,   \* [Versions -> the artifacts the version lists, or None]
    alias        \* [Names -> Versions \cup {None}]

vars == <<published, alias>>

Init ==
    /\ published = [v \in Versions |-> None]
    /\ alias = [a \in Names |-> None]

\* A release becomes public as a whole, under a version not used before.
Publish(r) ==
    /\ published[VersionOf[r]] = None
    /\ published' = [published EXCEPT ![VersionOf[r]] = Contents[r]]
    /\ UNCHANGED alias

\* A release that is public puts one of its aliases.
Point(r, a) ==
    /\ published[VersionOf[r]] = Contents[r]
    /\ a \in NamesOf[r]
    /\ alias' = [alias EXCEPT ![a] = VersionOf[r]]
    /\ UNCHANGED published

Next == \E r \in Releases : Publish(r) \/ \E a \in Names : Point(r, a)

Spec == Init /\ [][Next]_vars
==============================================================================
