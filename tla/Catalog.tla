-------------------------------- MODULE Catalog --------------------------------
(***************************************************************************)
(* Client.ResolveImage of internal/providers/incusos/cdn: a query for an    *)
(* image is answered from the CDN's index.json, which is fetched anew for   *)
(* every query and may change at any time.  The loop of selectUpdate is one *)
(* action per update; several clients resolve at once.                      *)
(*                                                                         *)
(* The CDN is external: it may replace the index by any other.  Version     *)
(* strings are numbers that are ordered as the strings are, 0 the empty     *)
(* string.  What a file offers (component, type and architecture) is one    *)
(* value; where and what it is (URL, digest and size) is another.           *)
(***************************************************************************)
EXTENDS Naturals, Sequences

CONSTANTS
    Clients,   \* commands that resolve images
    Channels,
    Offers,    \* what queries ask for: an OS image of some type and architecture
    Images,    \* URLs of image files, each with its digest and size
    Indexes,   \* what index.json may list
    Queries    \* the queries that are made

File   == [offer : Offers, image : Images]
Update == [version : Nat, channels : SUBSET Channels, files : Seq(File)]
Query  == [channel : Channels, version : Nat, offer : Offers]
Asset  == [version : Nat, image : Images]

ASSUME IndexesAssumption == Indexes \subseteq Seq(Update)
ASSUME QueriesAssumption == Queries \subseteq Query

VARIABLES
    index,     \* the CDN's index.json
    step,      \* [Clients -> where its ResolveImage stands]
    query,     \* [Clients -> the query it resolves]
    updates,   \* [Clients -> the updates of the index it fetched]
    at,        \* [Clients -> position of selectUpdate's loop]
    selected,  \* [Clients -> position of the selected update, 0 = none]
    asset,     \* [Clients -> what ResolveImage returned]
    served     \* [Clients -> every index the CDN had in the call up to its answer]

resolving   == <<step, query, updates, at, selected, asset>>
catalogVars == <<index, resolving, served>>

CatalogTypeOK ==
    /\ index \in Indexes
    /\ step \in [Clients -> {"idle", "fetch", "scan", "resolved", "missing", "failed"}]
    /\ query \in [Clients -> Queries \cup {<<>>}]
    /\ updates \in [Clients -> Indexes \cup {<<>>}]
    /\ at \in [Clients -> Nat \ {0}]
    /\ selected \in [Clients -> Nat]
    /\ asset \in [Clients -> Asset \cup {<<>>}]
    /\ served \in [Clients -> SUBSET Indexes]

CatalogInit ==
    /\ index \in Indexes
    /\ step = [c \in Clients |-> "idle"]
    /\ query = [c \in Clients |-> <<>>]
    /\ updates = [c \in Clients |-> <<>>]
    /\ at = [c \in Clients |-> 1]
    /\ selected = [c \in Clients |-> 0]
    /\ asset = [c \in Clients |-> <<>>]
    /\ served = [c \in Clients |-> {}]

-----------------------------------------------------------------------------
(* ResolveImage *)

\* A call begins with its query normalized.
ResolveImage(c, q) ==
    /\ step[c] = "idle"
    /\ step' = [step EXCEPT ![c] = "fetch"]
    /\ query' = [query EXCEPT ![c] = q]
    /\ served' = [served EXCEPT ![c] = {index}]
    /\ UNCHANGED <<index, updates, at, selected, asset>>

\* fetchIndex: the GET answers 200 with an index that can be decoded.
FetchIndex(c) ==
    /\ step[c] = "fetch"
    /\ step' = [step EXCEPT ![c] = "scan"]
    /\ updates' = [updates EXCEPT ![c] = index]
    /\ at' = [at EXCEPT ![c] = 1]
    /\ selected' = [selected EXCEPT ![c] = 0]
    /\ UNCHANGED <<index, query, asset, served>>

\* It does not: an HTTP error, or an index cut off at maxIndexBytes.
FetchIndexFails(c) ==
    /\ step[c] = "fetch"
    /\ step' = [step EXCEPT ![c] = "failed"]
    /\ UNCHANGED <<index, query, updates, at, selected, asset, served>>

Pinned(q) == q.version # 0

\* Mutant: an update without the file is passed over for an older one.
MatchesOffering(u, q) ==
    /\ (Pinned(q) => u.version = q.version) /\ q.channel \in u.channels
    /\ \E f \in DOMAIN u.files : u.files[f].offer = q.offer

\* An update that the query allows: of its channel, and the version it names.
Matches(u, q) == (Pinned(q) => u.version = q.version) /\ q.channel \in u.channels

\* Mutant: the last update of the channel is taken to be its newest.
BetterLast(c) == at[c] > selected[c]

\* The update at the loop's position takes the place of the selected one.
Better(c) ==
    selected[c] # 0 =>
        \/ updates[c][selected[c]].version = 0
        \/ updates[c][at[c]].version > updates[c][selected[c]].version

\* One round of selectUpdate's loop; a pinned version ends it.
Scan(c) ==
    LET u == updates[c][at[c]] IN
    /\ step[c] = "scan" /\ at[c] <= Len(updates[c])
    /\ \/ /\ Matches(u, query[c]) /\ Pinned(query[c])
          /\ selected' = [selected EXCEPT ![c] = at[c]]
          /\ at' = [at EXCEPT ![c] = Len(updates[c]) + 1]
       \/ /\ Matches(u, query[c]) /\ ~Pinned(query[c]) /\ Better(c)
          /\ selected' = [selected EXCEPT ![c] = at[c]]
          /\ at' = [at EXCEPT ![c] = @ + 1]
       \/ /\ ~Matches(u, query[c]) \/ (~Pinned(query[c]) /\ ~Better(c))
          /\ at' = [at EXCEPT ![c] = @ + 1]
          /\ UNCHANGED selected
    /\ UNCHANGED <<index, step, query, updates, asset, served>>

\* The position of the first of the files that offers what is asked for.
FirstOffering(files, o, i) ==
    /\ i \in DOMAIN files /\ files[i].offer = o
    /\ \A j \in DOMAIN files : files[j].offer = o => i <= j

\* The loop is over: a selected update without a version counts as none.
Selected(c) == selected[c] # 0 /\ updates[c][selected[c]].version # 0

Found(c) ==
    /\ step[c] = "scan" /\ at[c] > Len(updates[c]) /\ Selected(c)
    /\ LET u == updates[c][selected[c]] IN
        \E i \in DOMAIN u.files :
            /\ FirstOffering(u.files, query[c].offer, i)
            /\ asset' = [asset EXCEPT ![c] = [version |-> u.version, image |-> u.files[i].image]]
    /\ step' = [step EXCEPT ![c] = "resolved"]
    /\ UNCHANGED <<index, query, updates, at, selected, served>>

\* The file is there, but no URL can be made of its name.
AssetURLFails(c) ==
    /\ step[c] = "scan" /\ at[c] > Len(updates[c]) /\ Selected(c)
    /\ \E i \in DOMAIN updates[c][selected[c]].files :
        updates[c][selected[c]].files[i].offer = query[c].offer
    /\ step' = [step EXCEPT ![c] = "failed"]
    /\ UNCHANGED <<index, query, updates, at, selected, asset, served>>

\* Mutant: an update that was passed over is as good as none.
NotFoundEarly(c) ==
    /\ step[c] = "scan"
    /\ at[c] >= Len(updates[c]) /\ ~Selected(c)
    /\ step' = [step EXCEPT ![c] = "missing"]
    /\ UNCHANGED <<index, query, updates, at, selected, asset, served>>

\* ErrImageNotFound: no update, or the selected one lacks the file.  An older
\* update that has it is not tried.
NotFound(c) ==
    /\ step[c] = "scan" /\ at[c] > Len(updates[c])
    /\ Selected(c) => \A f \in DOMAIN updates[c][selected[c]].files :
                        updates[c][selected[c]].files[f].offer # query[c].offer
    /\ step' = [step EXCEPT ![c] = "missing"]
    /\ UNCHANGED <<index, query, updates, at, selected, asset, served>>

\* The call returns its asset; the client keeps nothing from one to the next.
Taken(c) ==
    /\ step[c] = "resolved"
    /\ step' = [step EXCEPT ![c] = "idle"]
    /\ query' = [query EXCEPT ![c] = <<>>]
    /\ updates' = [updates EXCEPT ![c] = <<>>]
    /\ at' = [at EXCEPT ![c] = 1]
    /\ selected' = [selected EXCEPT ![c] = 0]
    /\ asset' = [asset EXCEPT ![c] = <<>>]
    /\ served' = [served EXCEPT ![c] = {}]
    /\ UNCHANGED index

ResolveStep(c) ==
    \/ FetchIndex(c) \/ FetchIndexFails(c) \/ Scan(c)
    \/ Found(c) \/ AssetURLFails(c) \/ NotFound(c)

\* The CDN replaces the index.
MoveIndex(i) ==
    /\ index' = i
    /\ served' = [c \in Clients |-> IF step[c] = "fetch" THEN served[c] \cup {i} ELSE served[c]]
    /\ UNCHANGED resolving

CatalogNext ==
    \/ \E c \in Clients :
        (\E q \in Queries : ResolveImage(c, q)) \/ ResolveStep(c) \/ Taken(c)
    \/ \E i \in Indexes : MoveIndex(i)

CatalogSpec == CatalogInit /\ [][CatalogNext]_catalogVars

-----------------------------------------------------------------------------
(* What the answer should be, by a definition *)

\* Position i of idx is the newest update the query allows, the first of them.
Newest(idx, q, i) ==
    /\ i \in DOMAIN idx /\ idx[i].version # 0 /\ Matches(idx[i], q)
    /\ \A j \in DOMAIN idx : Matches(idx[j], q) =>
        idx[j].version < idx[i].version \/ (idx[j].version = idx[i].version /\ i <= j)

\* An index answers the query with asset a.
AnswersWith(idx, q, a) ==
    \E i \in DOMAIN idx :
        /\ Newest(idx, q, i)
        /\ a.version = idx[i].version
        /\ \E f \in DOMAIN idx[i].files :
            FirstOffering(idx[i].files, q.offer, f) /\ a.image = idx[i].files[f].image

\* An index has an answer.
Answers(idx, q) ==
    \E i \in DOMAIN idx :
        Newest(idx, q, i) /\ \E f \in DOMAIN idx[i].files : idx[i].files[f].offer = q.offer

-----------------------------------------------------------------------------
(* Properties *)

\* What ResolveImage returns is the image of the newest update its query allows
\* in an index that the CDN had since the call: the single pass of selectUpdate
\* finds it wherever it is listed, and no older index is used (fetchIndex).
ResolvedNewest ==
    \A c \in Clients : step[c] = "resolved" =>
        \E idx \in served[c] : AnswersWith(idx, query[c], asset[c])

\* ErrImageNotFound is returned only if the index, at some time since the call,
\* had no answer to the query.
MissingTrue ==
    \A c \in Clients : step[c] = "missing" =>
        \E idx \in served[c] : ~Answers(idx, query[c])
===============================================================================
