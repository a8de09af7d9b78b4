------------------------------ MODULE DiskStore ------------------------------
(***************************************************************************)
(* The content-addressed blob store of internal/cache: Fetch and Prune, one *)
(* action per file-system call, executed by several processes on one cache  *)
(* directory.  Nothing in this module serialises the processes: that is the *)
(* CLI's cache lock, modelled in CachedBuild.                               *)
(*                                                                         *)
(* A file is an inode; a directory entry blobs/sha256/<xx>/<digest> holds   *)
(* an inode, nothing, or something that is not a regular file.  What a file *)
(* holds is abstracted to the digest it hashes to.  Directory creation and  *)
(* permission repair are left out; their errors, like every other returned  *)
(* error, are FetchFails.                                                   *)
(***************************************************************************)
EXTENDS Naturals, FiniteSets, Functions

CONSTANTS
    Procs,        \* processes that share the cache directory
    Digests,      \* SHA-256 digests, as numbers: Prune breaks ties by their order
    Inodes,       \* the files the file system can hold at once
    Size,         \* [Digests -> size in bytes of the content with that digest]
    RottenSize,   \* size of a file damaged from outside
    Requests,     \* the requests callers make: [want, size]
    Fragile,      \* digests whose cached file may be damaged from outside
    Cap,          \* DiskStore.maxSizeBytes, 0 = no pruning
    MaxUnknown,   \* DiskStore.maxUnknownSizeBytes, 0 = unbounded
    MaxClock,     \* bound: no new Fetch starts at this logical time
    None,         \* no file, no digest, no result
    Odd,          \* a directory entry that is not a regular file
    Partial,      \* content of an incomplete or unwanted download
    Rotten,       \* content damaged from outside
    Failed,       \* a call that returned an error
    Done          \* a Prune that returned nil

NotFile    == {None, Odd}
NoDigest   == {None, Partial, Rotten}
Outcomes   == {None, Failed, Done}
RequestSet == [want : Digests \cup {None}, size : Nat]
NoRequest  == [want |-> None, size |-> 0]

ASSUME DigestsAssumption == Digests \subseteq Nat /\ IsFiniteSet(Digests)
ASSUME SizesAssumption == Size \in [Digests -> Nat] /\ RottenSize \in Nat
ASSUME CapAssumption == Cap \in Nat
ASSUME FragileAssumption == Fragile \subseteq Digests
ASSUME RequestsAssumption == Requests \subseteq RequestSet
ASSUME SentinelsAssumption ==
    /\ NotFile \cap Inodes = {}
    /\ NoDigest \cap Digests = {}
    /\ Outcomes \cap Digests = {}
    /\ Cardinality(NotFile \cup NoDigest \cup Outcomes) = 6

VARIABLES
    blob,       \* [Digests -> Inodes \cup NotFile]: the blobs directory
    content,    \* [Inodes -> what the file hashes to]
    mtime,      \* [Inodes -> modification time]
    tmpdir,     \* inodes linked in the store's tmp directory
    meta,       \* [Digests -> lastUsed in the metadata file, 0 = no metadata]
    clock,      \* wall clock, advanced by every touch
    pc,         \* [Procs -> next step of the call in progress, or "idle"]
    via,        \* [Procs -> which caller of verifyExistingBlob is running]
    req,        \* [Procs -> request being fetched]
    digest,     \* [Procs -> digest whose path the call works on]
    seen,       \* [Procs -> os.FileInfo taken by verifyExistingBlob]
    tmp,        \* [Procs -> the call's temp file]
    result,     \* [Procs -> what the last call returned]
    candidates, \* [Procs -> Prune's candidates]
    todo,       \* [Procs -> candidates the loop has not visited]
    left,       \* [Procs -> candidates still counted in totalSize and remaining]
    verified    \* [Procs -> digests whose blob the process verified or linked
                \*  since it last let go of its paths, and nobody damaged since]

fs    == <<blob, content, mtime, tmpdir, meta, clock>>
fetch == <<via, req, digest, seen, tmp>>
prune == <<candidates, todo, left>>
vars  == <<fs, pc, fetch, result, prune, verified>>

FetchSteps == {"inspect", "hash", "discard", "request", "copy", "link", "relink", "touch"}
PruneSteps == {"evict", "forget"}
Candidate  == [digest : Digests, size : Nat, used : Nat]

TypeOK ==
    /\ blob \in [Digests -> Inodes \cup NotFile]
    /\ content \in [Inodes -> Digests \cup NoDigest]
    /\ mtime \in [Inodes -> Nat]
    /\ tmpdir \subseteq Inodes
    /\ meta \in [Digests -> Nat]
    /\ clock \in Nat
    /\ pc \in [Procs -> {"idle", "return"} \cup FetchSteps \cup PruneSteps]
    /\ via \in [Procs -> {"hit", "publish", "conflict"}]
    /\ req \in [Procs -> RequestSet]
    /\ digest \in [Procs -> Digests \cup {None}]
    /\ seen \in [Procs -> Inodes \cup NotFile]
    /\ tmp \in [Procs -> Inodes \cup {None}]
    /\ result \in [Procs -> Digests \cup Outcomes]
    /\ candidates \in [Procs -> SUBSET Candidate]
    /\ todo \in [Procs -> SUBSET Candidate]
    /\ left \in [Procs -> SUBSET Candidate]
    /\ verified \in [Procs -> SUBSET Digests]

\* An empty cache directory and no call in progress.
Init ==
    /\ blob = [d \in Digests |-> None]
    /\ content = [i \in Inodes |-> Partial]
    /\ mtime = [i \in Inodes |-> 0]
    /\ tmpdir = {}
    /\ meta = [d \in Digests |-> 0]
    /\ clock = 1
    /\ pc = [p \in Procs |-> "idle"]
    /\ via = [p \in Procs |-> "hit"]
    /\ req = [p \in Procs |-> NoRequest]
    /\ digest = [p \in Procs |-> None]
    /\ seen = [p \in Procs |-> None]
    /\ tmp = [p \in Procs |-> None]
    /\ result = [p \in Procs |-> None]
    /\ candidates = [p \in Procs |-> {}]
    /\ todo = [p \in Procs |-> {}]
    /\ left = [p \in Procs |-> {}]
    /\ verified = [p \in Procs |-> {}]

-----------------------------------------------------------------------------
(* Files *)

\* The path of digest d holds a regular file with exactly that content.
Good(d) == blob[d] \in Inodes /\ content[blob[d]] = d

\* An inode that no directory entry refers to: CreateTemp may reuse it.
Free(i) == i \notin tmpdir /\ \A d \in Digests : blob[d] # i

FileSize(i) == IF content[i] \in Digests THEN Size[content[i]] ELSE RottenSize

Goto(p, step) == pc' = [pc EXCEPT ![p] = step]

\* The call returns r once its deferred os.Remove(tmpPath) has run.
Finish(p, r) ==
    /\ Goto(p, "return")
    /\ result' = [result EXCEPT ![p] = r]

\* Fetch's local variables go out of scope.
FetchLocalsDie(p) ==
    /\ via' = [via EXCEPT ![p] = "hit"]
    /\ req' = [req EXCEPT ![p] = NoRequest]
    /\ digest' = [digest EXCEPT ![p] = None]
    /\ seen' = [seen EXCEPT ![p] = None]
    /\ tmp' = [tmp EXCEPT ![p] = None]

\* So do Prune's, though they are kept until the caller moves on.
PruneLocalsDie(p) ==
    /\ candidates' = [candidates EXCEPT ![p] = {}]
    /\ todo' = [todo EXCEPT ![p] = {}]
    /\ left' = [left EXCEPT ![p] = {}]

-----------------------------------------------------------------------------
(* Fetch *)

\* Fetch up to its first file-system call: a pinned request looks for a hit.
Fetch(p, r) ==
    /\ pc[p] = "idle"
    /\ req' = [req EXCEPT ![p] = r]
    /\ digest' = [digest EXCEPT ![p] = r.want]
    /\ via' = [via EXCEPT ![p] = "hit"]
    /\ result' = [result EXCEPT ![p] = None]
    /\ Goto(p, IF r.want = None THEN "request" ELSE "inspect")
    /\ PruneLocalsDie(p)
    /\ UNCHANGED <<fs, seen, tmp, verified>>

\* What each caller of verifyExistingBlob does when it answers "not ok".
Unusable(p) ==
    IF via[p] = "conflict"
    THEN Finish(p, Failed)
    ELSE Goto(p, "discard") /\ UNCHANGED result

\* verifyExistingBlob: os.Lstat and the regular-file test.
Inspect(p) ==
    /\ pc[p] = "inspect"
    /\ seen' = [seen EXCEPT ![p] = blob[digest[p]]]
    /\ IF blob[digest[p]] \in Inodes
       THEN Goto(p, "hash") /\ UNCHANGED result
       ELSE Unusable(p)
    /\ UNCHANGED <<fs, via, req, digest, tmp, prune, verified>>

\* The size a verification compares with: the request's, or the download's.
WantedSize(p) == IF via[p] = "hit" THEN req[p].size ELSE Size[digest[p]]

\* Mutant: a blob of another size than the request's is discarded, not reported.
HashDiscards(p) ==
    /\ pc[p] = "hash"
    /\ LET d == digest[p]
           usable == content[seen[p]] = d /\ WantedSize(p) \in {0, Size[d]}
       IN  IF usable
           THEN /\ Goto(p, "touch")
                /\ verified' = [verified EXCEPT ![p] = @ \cup {d}]
                /\ UNCHANGED result
           ELSE Unusable(p) /\ UNCHANGED verified
    /\ UNCHANGED <<fs, fetch, prune>>

\* Mutant: a blob of the expected size is taken for the expected blob.
HashSizeOnly(p) ==
    /\ pc[p] = "hash"
    /\ IF FileSize(seen[p]) = WantedSize(p)
       THEN /\ Goto(p, "touch")
            /\ verified' = [verified EXCEPT ![p] = @ \cup {digest[p]}]
            /\ UNCHANGED result
       ELSE Unusable(p) /\ UNCHANGED verified
    /\ UNCHANGED <<fs, fetch, prune>>

\* verifyExistingBlob: hashFile with its os.SameFile tests, digest, then size.
Hash(p) ==
    /\ pc[p] = "hash"
    /\ LET d == digest[p]
           unchanged == blob[d] = seen[p]
           matches   == content[seen[p]] = d
           conflict  == WantedSize(p) # 0 /\ WantedSize(p) # Size[d]
       IN  \/ /\ ~unchanged \/ (matches /\ conflict)
              /\ Finish(p, Failed)
              /\ UNCHANGED verified
           \/ /\ unchanged /\ ~matches
              /\ Unusable(p)
              /\ UNCHANGED verified
           \/ /\ unchanged /\ matches /\ ~conflict
              /\ Goto(p, "touch")
              /\ verified' = [verified EXCEPT ![p] = @ \cup {d}]
              /\ UNCHANGED result
    /\ UNCHANGED <<fs, fetch, prune>>

\* os.Remove(path) of an unusable blob; a missing file is not an error.
Discard(p) ==
    /\ pc[p] = "discard"
    /\ blob' = [blob EXCEPT ![digest[p]] = None]
    /\ Goto(p, IF via[p] = "hit" THEN "request" ELSE "relink")
    /\ UNCHANGED <<content, mtime, tmpdir, meta, clock, fetch, result, prune, verified>>

\* Mutant: the temp file's name is fixed, and an existing one is truncated.
RequestFixedName(p) ==
    /\ pc[p] = "request"
    /\ \E i \in Inodes :
        /\ \A d \in Digests : blob[d] # i
        /\ tmp' = [tmp EXCEPT ![p] = i]
        /\ tmpdir' = tmpdir \cup {i}
        /\ content' = [content EXCEPT ![i] = Partial]
    /\ Goto(p, "copy")
    /\ UNCHANGED <<blob, mtime, meta, clock, via, req, digest, seen, result, prune, verified>>

\* download: the GET answers 200 and the temp file is created.
Request(p) ==
    /\ pc[p] = "request"
    /\ \E i \in Inodes :
        /\ Free(i)
        /\ tmp' = [tmp EXCEPT ![p] = i]
        /\ tmpdir' = tmpdir \cup {i}
        /\ content' = [content EXCEPT ![i] = Partial]
    /\ Goto(p, "copy")
    /\ UNCHANGED <<blob, mtime, meta, clock, via, req, digest, seen, result, prune, verified>>

\* Mutant: only the pinned digest is compared.
AcceptsUnpinned(r, c) == r.want # None => c = r.want

\* download's checks of a body with content c, in any order: each is an error.
Accepts(r, c) ==
    /\ c \in Digests
    /\ r.size # 0 => Size[c] = r.size
    /\ r.size = 0 /\ MaxUnknown # 0 => Size[c] <= MaxUnknown
    /\ r.want # None => c = r.want

\* download: io.Copy of whatever the server sends, then the checks.
Copy(p) ==
    /\ pc[p] = "copy"
    /\ \E c \in Digests \cup {Partial} :
        /\ content' = [content EXCEPT ![tmp[p]] = c]
        /\ IF Accepts(req[p], c)
           THEN /\ digest' = [digest EXCEPT ![p] = c]
                /\ Goto(p, "link")
                /\ UNCHANGED result
           ELSE Finish(p, Failed) /\ UNCHANGED digest
    /\ mtime' = [mtime EXCEPT ![tmp[p]] = clock]
    /\ UNCHANGED <<blob, tmpdir, meta, clock, via, req, seen, tmp, prune, verified>>

\* os.Link(tmpPath, finalPath); if the path exists, verify what is there.
LinkOr(p, verification) ==
    LET d == digest[p] IN
    /\ IF blob[d] = None
       THEN /\ blob' = [blob EXCEPT ![d] = tmp[p]]
            /\ verified' = [verified EXCEPT ![p] = @ \cup {d}]
            /\ Goto(p, "touch")
            /\ UNCHANGED via
       ELSE /\ via' = [via EXCEPT ![p] = verification]
            /\ Goto(p, "inspect")
            /\ UNCHANGED <<blob, verified>>
    /\ UNCHANGED <<content, mtime, tmpdir, meta, clock, req, digest, seen, tmp, result, prune>>

\* publish, first attempt.
Link(p) == pc[p] = "link" /\ LinkOr(p, "publish")

\* publish, after it removed a corrupt blob; then handlePublishConflict.
Relink(p) == pc[p] = "relink" /\ LinkOr(p, "conflict")

\* Mutant: a hit is not recorded.
TouchUnwritten(p) ==
    /\ pc[p] = "touch"
    /\ clock' = clock + 1
    /\ Finish(p, digest[p])
    /\ UNCHANGED <<blob, content, mtime, tmpdir, meta, fetch, prune, verified>>

\* touchBlob: the metadata file is replaced by a rename.
Touch(p) ==
    /\ pc[p] = "touch"
    /\ clock' = clock + 1
    /\ meta' = [meta EXCEPT ![digest[p]] = clock + 1]
    /\ Finish(p, digest[p])
    /\ UNCHANGED <<blob, content, mtime, tmpdir, fetch, prune, verified>>

\* Any call in Fetch that returns an error: HTTP, context, or file system.
FetchFails(p) ==
    /\ pc[p] \in FetchSteps
    /\ Finish(p, Failed)
    /\ UNCHANGED <<fs, fetch, prune, verified>>

\* The deferred os.Remove(tmpPath), then back to the caller.
Return(p) ==
    /\ pc[p] = "return"
    /\ tmpdir' = tmpdir \ {tmp[p]}
    /\ FetchLocalsDie(p)
    /\ Goto(p, "idle")
    /\ UNCHANGED <<blob, content, mtime, meta, clock, result, prune, verified>>

-----------------------------------------------------------------------------
(* Prune *)

\* readMetadata: a file whose size disagrees with its metadata has none.
LastUsed(d) ==
    IF meta[d] # 0 /\ FileSize(blob[d]) = Size[d] THEN meta[d] ELSE mtime[blob[d]]

\* pruneCandidates: the regular files of the blobs directory.
PruneCandidates ==
    { [digest |-> d, size |-> FileSize(blob[d]), used |-> LastUsed(d)] :
        d \in {e \in Digests : blob[e] \in Inodes} }

Total(f) == FoldFunction(+, 0, f)

TotalSize(cs) == Total([c \in cs |-> c.size])

\* The order of slices.SortFunc: by last use, then by digest.
Before(c, e) == c.used < e.used \/ (c.used = e.used /\ c.digest < e.digest)

Oldest(cs) == CHOOSE c \in cs : \A e \in cs \ {c} : Before(c, e)

\* Prune up to its loop; it has nothing to do unless the store is over Cap.
\* The directory walk is one step: see README.
Prune(p) ==
    /\ pc[p] = "idle"
    /\ LET found == IF Cap = 0 THEN {} ELSE PruneCandidates IN
        /\ candidates' = [candidates EXCEPT ![p] = found]
        /\ todo' = [todo EXCEPT ![p] = found]
        /\ left' = [left EXCEPT ![p] = found]
        /\ \/ /\ TotalSize(found) > Cap
              /\ Goto(p, "evict")
              /\ result' = [result EXCEPT ![p] = None]
           \/ /\ TotalSize(found) <= Cap
              /\ result' = [result EXCEPT ![p] = Done]
              /\ UNCHANGED pc
           \/ /\ Cap # 0    \* the walk fails
              /\ result' = [result EXCEPT ![p] = Failed]
              /\ UNCHANGED pc
    /\ UNCHANGED <<fs, fetch, verified>>

\* Mutant: the loop keeps two blobs instead of one.
PruneStopsAtTwo(p) == TotalSize(left[p]) <= Cap \/ Cardinality(left[p]) <= 2

PruneStops(p) == TotalSize(left[p]) <= Cap \/ Cardinality(left[p]) <= 1

PruneReturns(p, r) ==
    /\ Goto(p, "idle")
    /\ result' = [result EXCEPT ![p] = r]
    /\ UNCHANGED <<fs, fetch, prune, verified>>

\* The loop ends because it visited every candidate, or needs no more.
PruneEnd(p) ==
    /\ pc[p] = "evict"
    /\ todo[p] = {} \/ PruneStops(p)
    /\ PruneReturns(p, Done)

\* ctx.Err() at the head of an iteration.
PruneInterrupted(p) ==
    /\ pc[p] = "evict"
    /\ todo[p] # {}
    /\ PruneReturns(p, Failed)

\* os.Remove of the least recently used candidate; a missing file is no error.
Evict(p) ==
    /\ pc[p] = "evict"
    /\ todo[p] # {} /\ ~PruneStops(p)
    /\ blob' = [blob EXCEPT ![Oldest(todo[p]).digest] = None]
    /\ Goto(p, "forget")
    /\ UNCHANGED <<content, mtime, tmpdir, meta, clock, fetch, result, prune, verified>>

\* os.Remove fails: the candidate stays counted and the loop goes on.
EvictFails(p) ==
    /\ pc[p] = "evict"
    /\ todo[p] # {} /\ ~PruneStops(p)
    /\ todo' = [todo EXCEPT ![p] = @ \ {Oldest(@)}]
    /\ UNCHANGED <<fs, pc, fetch, result, candidates, left, verified>>

\* The evicted blob's metadata goes too; a failure to remove it is ignored.
Forget(p) ==
    /\ pc[p] = "forget"
    /\ LET c == Oldest(todo[p]) IN
        /\ meta' \in {[meta EXCEPT ![c.digest] = 0], meta}
        /\ todo' = [todo EXCEPT ![p] = @ \ {c}]
        /\ left' = [left EXCEPT ![p] = @ \ {c}]
    /\ Goto(p, "evict")
    /\ UNCHANGED <<blob, content, mtime, tmpdir, clock, fetch, result, candidates, verified>>

-----------------------------------------------------------------------------
(* The world around the store *)

\* The caller is done with the paths it was given.
Release(p) ==
    /\ pc[p] = "idle" /\ verified[p] # {}
    /\ verified' = [verified EXCEPT ![p] = {}]
    /\ result' = [result EXCEPT ![p] = None]
    /\ UNCHANGED <<fs, pc, fetch, prune>>

\* The process dies: its temp file stays behind, nothing else does.
ProcessDies(p) ==
    /\ Goto(p, "idle")
    /\ FetchLocalsDie(p)
    /\ PruneLocalsDie(p)
    /\ result' = [result EXCEPT ![p] = None]
    /\ verified' = [verified EXCEPT ![p] = {}]
    /\ UNCHANGED fs

Crash(p) == (pc[p] # "idle" \/ verified[p] # {}) /\ ProcessDies(p)

\* Something else rots a cached file in place, its modification time unchanged,
\* puts another kind of entry where it was, or deletes it.
Damage(d) ==
    /\ blob[d] \in Inodes
    /\ \/ content' = [content EXCEPT ![blob[d]] = Rotten] /\ UNCHANGED blob
       \/ \E e \in NotFile : blob' = [blob EXCEPT ![d] = e] /\ UNCHANGED content
    /\ verified' = [p \in Procs |-> verified[p] \ {d}]
    /\ UNCHANGED <<mtime, tmpdir, meta, clock, pc, fetch, result, prune>>

\* The rest of a call in progress.
FetchStep(p) ==
    \/ Inspect(p) \/ Hash(p) \/ Discard(p)
    \/ Request(p) \/ Copy(p)
    \/ Link(p) \/ Relink(p) \/ Touch(p)
    \/ FetchFails(p) \/ Return(p)

PruneStep(p) ==
    \/ PruneEnd(p) \/ PruneInterrupted(p)
    \/ Evict(p) \/ EvictFails(p) \/ Forget(p)

Call(p) ==
    \/ clock < MaxClock /\ \E r \in Requests : Fetch(p, r)
    \/ verified[p] = {} /\ Prune(p)

Next ==
    \/ \E p \in Procs :
        Call(p) \/ FetchStep(p) \/ PruneStep(p) \/ Release(p) \/ Crash(p)
    \/ \E d \in Fragile : Damage(d)

Spec == Init /\ [][Next]_vars

-----------------------------------------------------------------------------
(* The inductive invariant behind PublishedWhole *)

\* The call has a finished download that it has not linked yet.
Unlinked(p) ==
    \/ pc[p] \in {"link", "relink"}
    \/ pc[p] \in {"inspect", "hash", "discard"} /\ via[p] # "hit"

\* The steps that use the path of digest[p].
OnPath(p) == pc[p] \in {"inspect", "hash", "discard", "link", "relink", "touch"}

PathNamed ==
    \A p \in Procs :
        /\ OnPath(p) => digest[p] \in Digests
        /\ pc[p] = "hash" => seen[p] \in Inodes

\* A temp file belongs to one call, in the tmp directory until it returns.
TempsPrivate ==
    \A p \in Procs : tmp[p] # None =>
        tmp[p] \in tmpdir /\ \A q \in Procs \ {p} : tmp[q] # tmp[p]

\* While it is written or waits to be linked no blob path leads to it.
TempsHidden ==
    \A p \in Procs : pc[p] = "copy" \/ Unlinked(p) =>
        tmp[p] # None /\ \A d \in Digests : blob[d] # tmp[p]

\* A file about to be linked is what its digest says.
TempsWhole == \A p \in Procs : Unlinked(p) => content[tmp[p]] = digest[p]

-----------------------------------------------------------------------------
(* Properties *)

\* Whatever crashes, races and inode reuse there are, a blob path never shows
\* a partial download or the content of another digest: files enter the blobs
\* directory only by a link of a finished, checked temp file (Fetch, publish).
PublishedWhole ==
    \A d \in Digests : blob[d] \in Inodes => content[blob[d]] \in {d, Rotten}

StoreInv == TypeOK /\ PathNamed /\ TempsPrivate /\ TempsHidden /\ TempsWhole /\ PublishedWhole

\* A path Fetch returned stays the verified blob until its caller is done with
\* it, unless something outside the store damages it (Blob.Path is "the local
\* path to the immutable cached blob").
ReturnedIntact ==
    \A p \in Procs :
        pc[p] = "idle" /\ result[p] \in verified[p] => Good(result[p])
=============================================================================
