------------------------------- MODULE Release -------------------------------
(***************************************************************************)
(* Publisher.PublishRelease of internal/publish: attempts to publish image  *)
(* versions through one imgsrv catalog.  Attempts run concurrently (two CI  *)
(* jobs, a retry beside the attempt it replaces), may die, and talk to the  *)
(* server as module Remote says.                                            *)
(*                                                                         *)
(* The server is external: its actions say only what the publisher relies   *)
(* on, and it is as permissive as it can be.  It refuses a second draft of  *)
(* a version and publishes drafts only; everything else is the publisher's  *)
(* own discipline.  An upload is abstracted to its result (module Upload).  *)
(***************************************************************************)
EXTENDS Remote

CONSTANTS
    Versions, AliasNames, Blobs,
    Version,      \* [Attempts -> Versions]: request.Version
    Count,        \* [Attempts -> number of artifacts]
    Blob,         \* [Attempts -> [1..Count -> Blobs]]: the artifacts' digests
    Aliases,      \* [Attempts -> [1..number of aliases -> AliasNames]]
    AliasCount,   \* [Attempts -> number of aliases]
    Wait          \* Options.Wait of the uploader

ASSUME CountAssumption == Count \in [Attempts -> Nat \ {0}] /\ AliasCount \in [Attempts -> Nat]
ASSUME VersionAssumption == Version \in [Attempts -> Versions]
ASSUME BlobAssumption == \A c \in Attempts : Blob[c] \in [1..Count[c] -> Blobs]
ASSUME AliasesAssumption == \A c \in Attempts : Aliases[c] \in [1..AliasCount[c] -> AliasNames]
ASSUME WaitAssumption == Wait \in BOOLEAN

VARIABLES
    \* the server
    image,        \* the image exists
    version,      \* [Versions -> state]
    artifacts,    \* [Versions -> the artifacts it lists]
    alias,        \* [AliasNames -> Versions \cup {None}]
    job,          \* [Attempts -> state of the publish job it started]
    blobs,        \* [Blobs -> state in the content store]
    \* the attempts
    pc,           \* [Attempts -> stage of PublishRelease]
    n             \* [Attempts -> position in the stage's loop]

server  == <<image, version, artifacts, alias, job, blobs>>
attempt == <<pc, n>>
vars    == <<server, attempt, remote>>

Ops      == {"image", "draft", "add", "delete", "publish", "alias"}
Requests == [from : Attempts, op : Ops, arg : Nat]
Stages   == {"upload", "uploading", "image", "draft", "add", "cleanup", "publish",
             "wait", "alias", "done", "failed", "cleaned", "dead"}
Answers  == {"ok", "conflict", "error"}
Over     == {"done", "failed", "cleaned", "dead"}
Artifact == Attempts \X Nat

ASSUME NoneAssumption == None \notin Requests \cup Answers \cup Versions

TypeOK ==
    /\ image \in BOOLEAN
    /\ version \in [Versions -> {"none", "draft", "publishing", "published"}]
    /\ artifacts \in [Versions -> SUBSET Artifact]
    /\ alias \in [AliasNames -> Versions \cup {None}]
    /\ job \in [Attempts -> {"none", "queued", "succeeded", "failed"}]
    /\ blobs \in [Blobs -> {"none", "ingesting", "ready"}]
    /\ RemoteTypeOK(Requests, Answers)
    /\ pc \in [Attempts -> Stages]
    /\ n \in [Attempts -> Nat \ {0}]

Init ==
    /\ image \in BOOLEAN
    /\ version = [v \in Versions |-> "none"]
    /\ artifacts = [v \in Versions |-> {}]
    /\ alias = [a \in AliasNames |-> None]
    /\ job = [c \in Attempts |-> "none"]
    /\ blobs = [b \in Blobs |-> "none"]
    /\ RemoteInit
    /\ pc = [c \in Attempts |-> "upload"]
    /\ n = [c \in Attempts |-> 1]

-----------------------------------------------------------------------------
(* The server *)

HandleImage(r) ==
    /\ r.op = "image"
    /\ Answer(r, IF image THEN "conflict" ELSE "ok")
    /\ image' = TRUE
    /\ UNCHANGED <<version, artifacts, alias, job, blobs, attempt>>

\* A version is drafted once.
HandleDraft(r) ==
    LET v == Version[r.from] IN
    /\ r.op = "draft"
    /\ \/ /\ version[v] = "none"
          /\ version' = [version EXCEPT ![v] = "draft"]
          /\ Answer(r, "ok")
       \/ /\ version[v] # "none"
          /\ Answer(r, "conflict")
          /\ UNCHANGED version
    /\ UNCHANGED <<image, artifacts, alias, job, blobs, attempt>>

HandleAdd(r) ==
    /\ r.op = "add"
    /\ Answer(r, "ok")
    /\ artifacts' = [artifacts EXCEPT ![Version[r.from]] = @ \cup {<<r.from, r.arg>>}]
    /\ UNCHANGED <<image, version, alias, job, blobs, attempt>>

HandleDelete(r) ==
    /\ r.op = "delete"
    /\ Answer(r, "ok")
    /\ artifacts' = [artifacts EXCEPT ![Version[r.from]] = @ \ {<<r.from, r.arg>>}]
    /\ UNCHANGED <<image, version, alias, job, blobs, attempt>>

\* Publication is a job; it is answered before it has run.
HandlePublish(r) ==
    LET v == Version[r.from] IN
    /\ r.op = "publish"
    /\ \/ /\ version[v] = "draft"
          /\ version' = [version EXCEPT ![v] = "publishing"]
          /\ job' = [job EXCEPT ![r.from] = "queued"]
          /\ Answer(r, "ok")
       \/ /\ version[v] # "draft"
          /\ Answer(r, "conflict")
          /\ UNCHANGED <<version, job>>
    /\ UNCHANGED <<image, artifacts, alias, blobs, attempt>>

HandleAlias(r) ==
    /\ r.op = "alias"
    /\ Answer(r, "ok")
    /\ alias' = [alias EXCEPT ![Aliases[r.from][r.arg]] = Version[r.from]]
    /\ UNCHANGED <<image, version, artifacts, job, blobs, attempt>>

\* A request fails on the server and changes nothing.
Refuse(r) == Answer(r, "error") /\ UNCHANGED <<server, attempt>>

\* A request never arrives.
Vanish(r) == Lose(r) /\ UNCHANGED <<server, attempt>>

Handle(r) ==
    \/ HandleImage(r) \/ HandleDraft(r) \/ HandleAdd(r)
    \/ HandleDelete(r) \/ HandlePublish(r) \/ HandleAlias(r)

RunJob(c) ==
    /\ job[c] = "queued"
    /\ \E success \in BOOLEAN :
        /\ job' = [job EXCEPT ![c] = IF success THEN "succeeded" ELSE "failed"]
        /\ version' = [version EXCEPT ![Version[c]] = IF success THEN "published" ELSE "draft"]
    /\ UNCHANGED <<image, artifacts, alias, blobs, attempt, remote>>

Ingest(b) ==
    /\ blobs[b] = "ingesting"
    /\ \E s \in {"ready", "none"} : blobs' = [blobs EXCEPT ![b] = s]
    /\ UNCHANGED <<image, version, artifacts, alias, job, attempt, remote>>

-----------------------------------------------------------------------------
(* The attempt *)

\* The attempt enters a stage, at the first round of its loop.
Enter(c, stage, first) ==
    /\ pc' = [pc EXCEPT ![c] = stage]
    /\ n' = [n EXCEPT ![c] = first]

Stay(c, next) == n' = [n EXCEPT ![c] = next] /\ UNCHANGED pc

\* One catalog call: it is sent, and it succeeds or fails.
Send(c, stage, op) ==
    /\ pc[c] = stage
    /\ Ask(c, [from |-> c, op |-> op, arg |-> n[c]])
    /\ UNCHANGED <<server, attempt>>

Succeeds(c, stage, good) == pc[c] = stage /\ Told(c, good) /\ UNCHANGED server

Fails(c, stage, good) == pc[c] = stage /\ Refused(c, good) /\ UNCHANGED server

\* UploadArtifact begins; its parts are put and completed, or known already.
Upload(c) ==
    /\ pc[c] = "upload"
    /\ blobs' = [blobs EXCEPT ![Blob[c][n[c]]] = IF @ = "ready" THEN @ ELSE "ingesting"]
    /\ Enter(c, "uploading", n[c])
    /\ UNCHANGED <<image, version, artifacts, alias, job, remote>>

\* Mutant: the state of the upload is not looked at.
UploadedUnready(c) ==
    /\ pc[c] = "uploading"
    /\ IF n[c] < Count[c] THEN Enter(c, "upload", n[c] + 1) ELSE Enter(c, "image", 1)
    /\ UNCHANGED <<server, remote>>

\* UploadArtifact returns; only an upload that is ready will do.
Uploaded(c) ==
    LET ready == blobs[Blob[c][n[c]]] = "ready" IN
    /\ pc[c] = "uploading"
    /\ Wait => ready
    /\ \/ ready /\ n[c] < Count[c] /\ Enter(c, "upload", n[c] + 1)
       \/ ready /\ n[c] = Count[c] /\ Enter(c, "image", 1)
       \/ ~ready /\ Enter(c, "failed", 1)
    /\ UNCHANGED <<server, remote>>

\* UploadArtifact returns an error.
UploadFailed(c) ==
    /\ pc[c] \in {"upload", "uploading"}
    /\ Enter(c, "failed", 1)
    /\ UNCHANGED <<server, remote>>

CreateImage(c) == Send(c, "image", "image")

\* An image that exists already will do.
ImageCreated(c) == Succeeds(c, "image", {"ok", "conflict"}) /\ Enter(c, "draft", 1)

ImageFailed(c) == Fails(c, "image", {"ok", "conflict"}) /\ Enter(c, "failed", 1)

CreateDraftVersion(c) == Send(c, "draft", "draft")

\* Mutant: a draft that exists already will do, as an image does.
DraftShared(c) == Succeeds(c, "draft", {"ok", "conflict"}) /\ Enter(c, "add", 1)

\* A draft that exists already will not.
DraftCreated(c) == Succeeds(c, "draft", {"ok"}) /\ Enter(c, "add", 1)

DraftFailed(c) == Fails(c, "draft", {"ok"}) /\ Enter(c, "failed", 1)

AddArtifact(c) == Send(c, "add", "add")

ArtifactAdded(c) ==
    /\ Succeeds(c, "add", {"ok"})
    /\ IF n[c] < Count[c] THEN Stay(c, n[c] + 1) ELSE Enter(c, "publish", 1)

\* Mutant: the clean-up forgets the artifact added last.
AddFailedShort(c) ==
    /\ Fails(c, "add", {"ok"})
    /\ IF n[c] > 2 THEN Enter(c, "cleanup", n[c] - 2) ELSE Enter(c, "cleaned", 1)

\* The artifacts added so far are deleted, the last one first.
AddFailed(c) ==
    /\ Fails(c, "add", {"ok"})
    /\ IF n[c] > 1 THEN Enter(c, "cleanup", n[c] - 1) ELSE Enter(c, "cleaned", 1)

DeleteArtifact(c) == Send(c, "cleanup", "delete")

\* Mutant: the clean-up loop runs once too often.
DeletedBelowFirst(c) ==
    /\ \/ Succeeds(c, "cleanup", {"ok"})
       \/ Fails(c, "cleanup", {"ok"}) /\ heard'[c] = FALSE
    /\ IF n[c] >= 1 THEN Stay(c, n[c] - 1) ELSE Enter(c, "cleaned", 1)

\* cleanupDraftArtifacts goes on whatever a deletion answers; one that did not
\* succeed counts as not heard.
ArtifactDeleted(c) ==
    /\ \/ Succeeds(c, "cleanup", {"ok"})
       \/ Fails(c, "cleanup", {"ok"}) /\ heard'[c] = FALSE
    /\ IF n[c] > 1 THEN Stay(c, n[c] - 1) ELSE Enter(c, "cleaned", 1)

PublishVersion(c) == Send(c, "publish", "publish")

PublishStarted(c) == Succeeds(c, "publish", {"ok"}) /\ Enter(c, "wait", 1)

\* Mutant: a failed PublishVersion cleans up like a failed AddArtifact.
PublishFailedCleanup(c) == Fails(c, "publish", {"ok"}) /\ Enter(c, "cleanup", Count[c])

\* No cleanup from here on: the job may be running.
PublishFailed(c) == Fails(c, "publish", {"ok"}) /\ Enter(c, "failed", 1)

\* Mutant: the publish job is not waited for.
PublishedUnseen(c) ==
    /\ pc[c] = "wait"
    /\ job[c] \in {"queued", "succeeded"}
    /\ IF AliasCount[c] = 0 THEN Enter(c, "done", 1) ELSE Enter(c, "alias", 1)
    /\ UNCHANGED <<server, remote>>

\* waitPublished: a poll, or the first answer, shows the job succeeded.
Published(c) ==
    /\ pc[c] = "wait"
    /\ job[c] = "succeeded"
    /\ IF AliasCount[c] = 0 THEN Enter(c, "done", 1) ELSE Enter(c, "alias", 1)
    /\ UNCHANGED <<server, remote>>

\* The job failed, a poll failed, or the timeout struck.
WaitFailed(c) ==
    /\ pc[c] = "wait"
    /\ Enter(c, "failed", 1)
    /\ UNCHANGED <<server, remote>>

PutAlias(c) == Send(c, "alias", "alias")

\* Mutant: the last alias is not put.
AliasPutShort(c) ==
    /\ Succeeds(c, "alias", {"ok"})
    /\ IF n[c] + 1 < AliasCount[c] THEN Stay(c, n[c] + 1) ELSE Enter(c, "done", 1)

AliasPut(c) ==
    /\ Succeeds(c, "alias", {"ok"})
    /\ IF n[c] < AliasCount[c] THEN Stay(c, n[c] + 1) ELSE Enter(c, "done", 1)

AliasFailed(c) == Fails(c, "alias", {"ok"}) /\ Enter(c, "failed", 1)

Die(c) ==
    /\ pc[c] \notin Over
    /\ Enter(c, "dead", 1)
    /\ HangUp(c)
    /\ UNCHANGED <<server, heard>>

Step(c) ==
    \/ Upload(c) \/ Uploaded(c) \/ UploadFailed(c)
    \/ CreateImage(c) \/ ImageCreated(c) \/ ImageFailed(c)
    \/ CreateDraftVersion(c) \/ DraftCreated(c) \/ DraftFailed(c)
    \/ AddArtifact(c) \/ ArtifactAdded(c) \/ AddFailed(c)
    \/ DeleteArtifact(c) \/ ArtifactDeleted(c)
    \/ PublishVersion(c) \/ PublishStarted(c) \/ PublishFailed(c)
    \/ Published(c) \/ WaitFailed(c)
    \/ PutAlias(c) \/ AliasPut(c) \/ AliasFailed(c)

Next ==
    \/ \E c \in Attempts : Step(c) \/ Die(c) \/ RunJob(c)
    \/ \E r \in net : Handle(r) \/ Refuse(r) \/ Vanish(r)
    \/ \E b \in Blobs : Ingest(b)

Spec == Init /\ [][Next]_vars

-----------------------------------------------------------------------------
(* The inductive invariant behind the properties *)

\* The artifacts of attempt c, as a version should list them.
Mine(c) == {c} \X (1..Count[c])

\* The request each stage makes.
Asks == { <<"image", "image">>, <<"draft", "draft">>, <<"add", "add">>,
          <<"cleanup", "delete">>, <<"publish", "publish">>, <<"alias", "alias">> }

\* An attempt waits for the request of its stage, and has an answer only to that.
CallsMatch ==
    \A c \in Attempts :
        /\ call[c] # None =>
            call[c].from = c /\ <<pc[c], call[c].op>> \in Asks /\ call[c].arg = n[c]
        /\ call[c] = None => answer[c] = None
        /\ call[c] \in net => answer[c] = None

\* A request of the attempt is on its way.
Sent(c, ops) == \E r \in net : r.from = c /\ r.op \in ops

\* The attempt's draft is known to it, or what follows a draft has begun.
Drafted(c) ==
    \/ pc[c] = "draft" /\ answer[c] = "ok"
    \/ pc[c] \in {"add", "cleanup", "publish", "wait", "alias", "done"}
    \/ Sent(c, {"add", "delete", "publish", "alias"})
    \/ job[c] # "none"
    \/ \E i \in 1..Count[c] : <<c, i>> \in artifacts[Version[c]]

\* All artifacts are added, and the publication may have begun.
Committed(c) ==
    \/ pc[c] \in {"publish", "wait", "alias", "done"}
    \/ Sent(c, {"publish", "alias"})
    \/ job[c] # "none"

\* A version is drafted by one attempt.
OneOwner ==
    \A c \in Attempts : Drafted(c) =>
        /\ version[Version[c]] # "none"
        /\ \A d \in Attempts : Drafted(d) /\ Version[d] = Version[c] => d = c

\* Loops stay within the attempt's artifacts, and so does what is listed.
Bounded ==
    /\ \A c \in Attempts : pc[c] \in {"upload", "uploading", "add", "cleanup"} => n[c] <= Count[c]
    /\ \A r \in net : r.op = "add" => r.arg \in 1..Count[r.from]
    /\ \A v \in Versions : \A x \in artifacts[v] : Version[x[1]] = v /\ x[2] \in 1..Count[x[1]]

\* Nothing is deleted of an attempt that still adds or has added everything.
DeletesEarly ==
    \A c \in Attempts :
        /\ Sent(c, {"delete"}) => pc[c] \in {"cleanup", "cleaned", "dead"} /\ ~Committed(c)
        /\ Committed(c) => pc[c] \in {"publish", "wait", "alias", "done", "failed", "dead"}

\* What was added is listed.
Progress ==
    \A c \in Attempts :
        /\ pc[c] = "add" =>
            \A i \in 1..n[c] : i < n[c] \/ answer[c] = "ok" => <<c, i>> \in artifacts[Version[c]]
        /\ Committed(c) => Mine(c) \subseteq artifacts[Version[c]]

\* Jobs and versions agree.
Jobs ==
    /\ \A c \in Attempts :
        /\ job[c] = "queued" => version[Version[c]] = "publishing"
        /\ job[c] = "succeeded" => version[Version[c]] = "published"
        /\ pc[c] \in {"alias", "done"} \/ Sent(c, {"alias"}) => job[c] = "succeeded"
    /\ \A v \in Versions : version[v] = "published" =>
        \E c \in Attempts : Version[c] = v /\ job[c] = "succeeded"

\* Stages in which an attempt knows of no artifact of its own that is listed.
Without == {"upload", "uploading", "image", "draft", "cleaned"}

\* An attempt that heard every answer has no other request on its way, and what
\* is listed of it is what it knows of.
Hears ==
    \A c \in Attempts : heard[c] /\ pc[c] # "dead" =>
        /\ \A r \in net : r.from = c => call[c] = r
        /\ \A i \in 1..Count[c] : <<c, i>> \in artifacts[Version[c]] =>
            /\ pc[c] = "add" => i < n[c] \/ (i = n[c] /\ answer[c] = "ok")
            /\ pc[c] = "cleanup" => i < n[c] \/ (i = n[c] /\ answer[c] # "ok")
            /\ pc[c] \notin Without

\* Artifacts are added when their blobs are ready.
BlobReady(c, i) == blobs[Blob[c][i]] = "ready"

Uploads ==
    \A c \in Attempts :
        /\ pc[c] \in {"upload", "uploading"} => \A i \in 1..(n[c] - 1) : BlobReady(c, i)
        /\ pc[c] \in {"image", "draft", "add"} \/ Sent(c, {"add"}) =>
            \A i \in 1..Count[c] : BlobReady(c, i)

\* The aliases attempt c puts.
Moved(c) == {Aliases[c][i] : i \in 1..AliasCount[c]}

\* Alias a is where a successful release put it.
Follows(a) == \E c \in Attempts :
    job[c] = "succeeded" /\ Version[c] = alias[a] /\ a \in Moved(c)

\* An alias once put stays put by someone, and an attempt has put those it has
\* passed in its loop.
AliasInv ==
    /\ \A a \in AliasNames : alias[a] # None => Follows(a)
    /\ \A r \in net : r.op = "alias" => r.arg \in 1..AliasCount[r.from]
    /\ \A c \in Attempts :
        /\ pc[c] = "alias" => n[c] <= AliasCount[c]
        /\ \A i \in 1..AliasCount[c] :
            \/ pc[c] = "done"
            \/ pc[c] = "alias" /\ (i < n[c] \/ (i = n[c] /\ answer[c] = "ok"))
            => alias[Aliases[c][i]] # None

-----------------------------------------------------------------------------
(* Refinement *)

\* What a reader of the catalog sees: drafts and publications under way are not
\* there yet.
Public == INSTANCE PublishedVersions WITH
    Releases <- Attempts,
    Names <- AliasNames,
    VersionOf <- Version,
    Contents <- [c \in Attempts |-> Mine(c)],
    NamesOf <- [c \in Attempts |-> Moved(c)],
    published <- [v \in Versions |-> IF version[v] = "published" THEN artifacts[v] ELSE None]

\* Publishing implements PublishedVersions: versions appear whole, once, and stay
\* as they are, whatever late additions, clean-ups and retries the attempts that
\* failed or died have still on their way (PublishRelease).
ImplementsPublished == Public!Spec

-----------------------------------------------------------------------------
(* Properties *)

\* A published version lists every artifact of one attempt and nothing else,
\* whatever other attempts, late requests and clean-ups did to it: the attempt
\* that drafted it publishes it, and only once all of them were added.
PublishedExact ==
    \A v \in Versions : version[v] = "published" =>
        \E c \in Attempts : Version[c] = v /\ artifacts[v] = Mine(c)

\* An attempt that reports success has published what it built: no other
\* attempt's version of the same name passes for its own.
SuccessIsOwn ==
    \A c \in Attempts : pc[c] \in {"alias", "done"} =>
        version[Version[c]] = "published" /\ artifacts[Version[c]] = Mine(c)

\* An alias never leads to a version that is not published: it moves only
\* after the job's success was seen, and nothing is taken back after that.
AliasPublished ==
    \A a \in AliasNames : alias[a] # None => version[alias[a]] = "published"

\* When a release has succeeded, each of its aliases leads where a successful
\* release that names this alias put it: the last one handled, its own or that of
\* a release beside it, even one that has given up or died since.
AliasesFollow ==
    \A c \in Attempts : pc[c] = "done" => \A a \in Moved(c) : Follows(a)

\* When AddArtifact fails and every request got its answer, the clean-up leaves
\* none of the attempt's artifacts in the draft.
CleanupComplete ==
    \A c \in Attempts : pc[c] = "cleaned" /\ heard[c] =>
        \A i \in 1..Count[c] : <<c, i>> \notin artifacts[Version[c]]

\* A version never lists an artifact whose blob the server may still reject.
ArtifactsReady ==
    \A v \in Versions : \A x \in artifacts[v] : BlobReady(x[1], x[2])

ReleaseInv ==
    /\ TypeOK /\ CallsMatch /\ OneOwner /\ Bounded /\ DeletesEarly /\ Progress
    /\ Jobs /\ Hears /\ Uploads
    /\ AliasPublished /\ ArtifactsReady
==============================================================================
