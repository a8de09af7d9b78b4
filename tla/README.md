# imgcli in TLA+

Specifications, model-checking runs and proofs for `imgcli`, the command that
builds customised IncusOS images and publishes them to an imgsrv catalog.
Every definition is read off the Go code under `src/`; `PROJECT.json` names the
lines each one stands for.

## 1. The system

`imgcli build` loads a CUE image configuration, takes a lock on a local image
cache, fetches the upstream image of every variant into it, copies each image to
the output directory with a seed archive injected, prunes the cache, lets go of
the lock, and writes a metadata file beside each image. `imgcli publish` runs
the same build and then uploads the images to an imgsrv server and publishes
them as a version of an image. `imgcli plan` prints what a build would make.

| Component | State | Operations | Talks to |
|---|---|---|---|
| Image cache, `internal/cache` | blobs by digest, temp files, last-use metadata, on a disk shared by processes | `Fetch`, `Prune`, `Lock`, `Unlock` | file system, HTTP |
| Build command, `internal/cli/build.go` | the held lock; nothing across commands | `withLockedCache`, metadata files | cache, provider |
| Provider, `internal/providers/incusos` | files in the output directory | `Plan`, `Build` | catalog, cache, seed builder, injector |
| Catalog client, `.../cdn` | none; the index is fetched on every call | `ResolveImage`, `DownloadImage` | HTTP, cache |
| Injector, `.../imagefile` | one temp file per call | `InjectSeed` | file system |
| Seed builder | none | `BuildSeed` | - |
| Uploader, `internal/publish/publish.go` | an upload session on the server | `UploadArtifact` | imgsrv |
| Publisher, `internal/publish/release.go` | a version, its artifacts, its publish job and aliases on the server | `PublishRelease` | imgsrv |
| `plan`, `internal/cli/plan.go` | none | prints `Provider.Plan` | catalog |
| `publish`, `internal/cli/publish.go` | none | settings, build, release | build, publisher |
| Configuration, output, schemas | none beyond a call | | |

What is hard here: several processes share the cache directory and the output
directory and may be killed between any two system calls; `Fetch` and `Prune`
decide on what they saw earlier; the publisher changes a remote catalog in many
requests, whose answers may be late or lost, beside other attempts at the same
version; an image is cut and spliced by a reader that returns what it likes; the
catalog's index is fetched anew for every variant and may change in between;
sizes come from users and from a server, and reach the ends of int64.

What makes each component correct:

- *cache*: a blob path only ever shows the content of its digest; a path handed
  to a build stays valid until the build is over; a prune ends within the cap
  and keeps what was used last; the lock excludes, and nobody waits for ever.
- *provider*: a build touches only its own files, a failed build leaves none,
  a finished one leaves all, and metadata describes the image beside it.
- *injector*: the output is the source with the seed in its place, or nothing.
- *uploader*: what is completed is the file, part by part; no session is left
  open; a completed one is left alone.
- *publisher*: a published version has exactly the artifacts of one attempt, and
  aliases only lead to published versions, and where a release put them.
- *catalog and planning*: a query is answered with the newest update it allows,
  of an index the CDN had since the call; variants resolved from one index agree;
  a plan's output paths differ, so that a build never writes one twice.
- *publish settings*: what the publisher would refuse is refused before anything
  is built.

## 2. Modules

    DiskStore --extends-- CachedBuild --implements-- VerifiedCache
        |                     |
    DiskStoreProofs --- CachedBuildProofs

    Outputs  --\
    Catalog  ---+-- Pipeline --implements-- Outputs
    Settings --/        |
    OutputsProofs --- PipelineProofs

    Remote --extends-- Release --implements-- PublishedVersions
               |          \-- ReleaseProofs
               \--extends-- Upload --- UploadProofs

    BoundedCopy --- BoundedCopyProofs
    SeedInject  --- SeedInjectProofs

`MC*.tla` give the constants their values for TLC.

**DiskStore** models `internal/cache`: one action per system call of `Fetch`
(`Inspect`, `Hash`, `Discard`, `Request`, `Copy`, `Link`, `Relink`, `Touch`,
`Return`) and of `Prune` (`Prune`, `Evict`, `Forget`). A file is an inode; a
directory entry may also be absent or no regular file. `pc[p]` is where the call
in process `p` stands and `via[p]` is which of the three callers of
`verifyExistingBlob` is running. The contents of a file are abstracted to the
digest they hash to, which is all the code ever asks of them. `FetchFails` stands
for every returned error, so that each step may also fail; the deferred
`os.Remove` of the temp file is `Return`. `Crash` ends a process with only its
temp file left. `Damage` is anything outside the program that rots a blob in
place, puts no regular file where it was, or deletes it: the code verifies hits
because of it. A ghost variable, `verified[p]`, holds the digests whose path `p`
may rely on.

**CachedBuild** puts `withLockedCache` around it: `Start`, `Acquire`, `Download`
for each image of the plan, `Injected`, `StartPrune`, `Unlock`, with all the
error paths, and `Kill` at every step. The flock is one variable, dropped by the
kernel when its holder dies. What follows the lock (metadata) is in `Outputs`.

**VerifiedCache** is the abstract specification: images that are in the cache
and images in use, where only one build uses images and an image in use is
never dropped. `CachedBuild!Cache` is the refinement mapping: `cached` is the
set of digests with a good blob, `inUse` what a build in its stages `build`,
`fetch` or `inject` has verified.

**BoundedCopy** is the download of `DiskStore!Copy` read by read: `io.Copy`
through `limitedBody` in the arithmetic of int64, with a largest integer
`MaxInt`, and the checks of size, cap and digest that follow. Bytes are counted;
a digest is the length of the file it belongs to. A size of `MaxInt`, which a
catalog may list, overflows `limit+1`: the reader is empty and the download is
refused. The same value as *cap* is excluded (`SizesAssumption`): then
an empty file would be accepted where neither size nor digest is given. The
program has only the default cap of 64 GiB.

**Outputs** models the output directory: the plan's list of paths, the check for
existing files, one rename per image, the clean-up in reverse order, the lock's
release, and the metadata files; `MetadataPath` is the suffix rule of
`buildArtifactMetadataPath`. Which paths a build makes is any member of
`Targets`: to the commands it is what an abstract specification is.

**Catalog** models `Client.ResolveImage`: `FetchIndex`, one `Scan` per round of
`selectUpdate`'s loop, then `Found`, `AssetURLFails` or `NotFound`. `MoveIndex`
is the CDN, which may replace its index at any time. A ghost variable,
`served[c]`, holds the indexes the CDN had from the call up to its answer.
`AnswersWith` is the reference definition the loop is compared with: the newest
update allowed, the first of equals, and the first of its files that offers what
is asked for.

**Settings** has the pure part of `imgcli publish`. A size is a literal, a number
and a unit's multiplier in int64, which `parseSizeConfig` checks (`Parses`), and
the number viper's own parser makes of the same text, which it uses
(`partSizeBytes`, any number: `ParsesSize` only has the check that it is an
int64). Then `ValidPublishConfig`, `Loads`, and what `NewUploader`,
`NewPublisher` and `imgsrvArtifactFormat` ask later.

**Pipeline** composes the three: a command has an image configuration and
settings; `publish` loads its settings first (`Load`); `build` and `publish`
plan behind the cache lock and `plan` without it, one catalog query per variant
in the order of their names (`ResolveNext`, `Resolving`, `Resolved`); a plan whose
output paths differ (`Plannable`) is printed (`PrintPlan`) or built (`Planned` and
the steps of `Outputs`); then `publish` makes its publisher (`Configure`).
`pc[b]` of `Outputs` is where the command's build stands, `step[b]` of `Catalog`
where its query does, `stage[b]` the rest. `ImplementsOutputs` is the refinement:
with the same variables, every step is one of `Outputs` or leaves them alone.
`fetched[b]`, a ghost, holds the indexes the command's queries were answered from.

**SeedInject** models `InjectSeed` as a loop over reads of any size: byte `k` of
the source is `k` and byte `k` of the seed is `-k`, so the output shows where
each byte came from. `copyExactly`, `discardExactly` and `copyRemaining` are
`CopyPrefix`, `DiscardSpan` and `CopySuffix`.

**Remote** is how the publisher calls imgsrv: one blocking call per attempt; the
attempt may stop waiting while its request is still on the way, and the server
may handle it after that, refuse it, or never see it. **Upload** and **Release**
extend it with the two halves of `internal/publish` and with the part of imgsrv
they rely on. imgsrv is not in the repository. It may refuse, lose and delay any
request; what is taken to hold of it is that a version is drafted once, that only
a draft can be published, that a completion needs its parts, that a session whose
content is ready cannot be aborted, that a part is named by the number and the
size it was sent with, and that a session which takes parts is the attempt's own
(`HandleBegin` may also answer with an earlier session of the content, but only
with one that is ready, failed or aborted: an attempt handed a session that is
being ingested would send parts to it, be refused, and abort it). `waitReady`
polls: each tick is a call (`GetUpload`), whose answer may be late, and
`TimedOut` ends the wait with or without a call under way, as the call's context
is the wait's. In `Release` an upload is its result; `Upload` is what justifies
that ("ready" means the store has the content, `ReadyIsKnown`).

**PublishedVersions** is the abstract specification of publishing, as a reader of
the catalog sees it: a version appears at one moment, with all artifacts of one
release, and never changes; an alias is put on a version that is there by its
release. `Release!Public` is the refinement mapping: `published` is what a version
in state "published" lists, and drafts, requests, jobs and clean-ups are stutters.

## 3. Runs

Every `pass` property has a mutant: a plausible bug, defined in the module just
before the definition it replaces and marked `Mutant`, under which TLC finds the
property violated.

| Run | What it shows | Bounds |
|---|---|---|
| SharedStore | With no lock at all, a blob path never shows a partial or wrong file (`PublishedWhole`) | 2 processes, 2 digests, 2 inodes, cap of 2 bytes, calls start before time 2 |
| CachedBuild | The lock excludes, verified images stay, `Fetch` destroys no good blob, the store implements `VerifiedCache` | 2 processes, 3 commands, 2 digests, 3 inodes, cap of 2 bytes, a request of the wrong size, damage of one digest |
| WarmCache | A prune ends within the cap, with one blob, or with blobs it could not remove (`PrunedFits`), and never evicts what its build used (`OwnImagesSurvive`), whichever removals fail | 2 processes, 3 commands, 3 digests of 1, 2, 3 bytes, 3 inodes, cap of 3 bytes, plans of one and two images, damage of one digest |
| CachedBuildLive | Every command that waits for the lock ends | 2 processes, 3 commands, 1 digest |
| ThreeReleases | `PublishedExact`, `SuccessIsOwn`, `AliasPublished`, `AliasesFollow`, `CleanupComplete`, `ArtifactsReady`, and the refinement of `PublishedVersions` (`ImplementsPublished`) | 3 attempts, two at one version with 2 artifacts, one at another with 3, shared blobs, shared alias |
| Upload | `CompletedTiles`, `NoSessionLeft`, `ReadyIsKnown`, `CompletedKept`, and that waits and aborts end (`WaitsEnd`) | 2 attempts, part size 2, at most 2 parts, files of 2, 3, 4, 5 bytes |
| Pipeline | The commands implement `Outputs` and keep its `ImagesInPlace`, `FailedLeavesNone`, `MetadataTrue`, `OthersUntouched`; `ResolvedNewest`, `MissingTrue`, `SameIndexSameImages`, `RefusedBeforeBuild` | 2 commands, 2 indexes of 2 and 4 updates, up to 3 variants, sizes in 8-bit integers with units of 2, 4 and 8 |
| BoundedCopy | `AcceptsWhole`, `CopiesBounded` | 4-bit integers: all sizes and bodies 0..7, caps 0, 3 and 6, buffer of 2 |
| SeedInject | `OutputExact` | sources of 0..9 bytes, seeds of 0..4, offset 3, partition 3, buffer 2 |

Three runs end in a violation on purpose. Each checks what a comment or document
says, and the code does otherwise (`findings` in `PROJECT.json`):

- **UnlockedFetch**: without the lock one `Fetch` can remove the blob another
  has just returned: both find the path absent, and the late `os.Remove` of one
  deletes what the other linked. The CLI always holds the lock.
- **MetadataClash**: a variant's `filename` can be another's metadata path;
  the image is then overwritten.
- **GzipByName**: compression follows the output's name, not the format.

*Why these bounds are enough.* Hazards of the cache need two processes and, for a
removal of the wrong blob, two views of one path; a third command meets what the
first two left. Three inodes let a freed one be reused while another is open.
Three blobs of different sizes are the fewest for which an eviction order matters
and one blob exceeds the cap. Two attempts at one version with a third beside
them give every pair of stages, two artifacts a clean-up that is partly done, and
three one that goes round twice. The files uploaded have one full part, one and a
part, two full parts, and more parts than allowed. In Pipeline the pairs of
commands are a `plan` beside a `build`, two builds of overlapping files of up to
three images, a `publish` with every kind of bad size and timeout, configurations
that cannot be planned, and two names of one file; the indexes have the newest
update first, one without the file asked for, one without a version, two of one
version, and files without a URL or digest, and the CDN may switch between them
at any time. The part sizes are on and beyond both bounds, with literals that
agree with viper's number, that do not, and that do not parse, and a number past
the largest integer; BoundedCopy runs every size up to its largest. In
SharedStore two inodes, one per process, are reused as soon as they are free; the
theorem about it has no such bound. The invariants that the proofs cover hold for
all values of the constants.

`CHECK_DEADLOCK FALSE` is set where the model ends by design: commands, builds
and attempts run out. `SharedStore` runs without it.

*Symmetry* is over processes, inodes and equal attempts, in safety runs only.

*Fairness* (`CachedBuild!Fairness`): weak fairness of a command's own steps and
of its calls into the store. A process that runs keeps executing, its system
calls return, and an HTTP call ends because the server answers or the connection
breaks. The last is an assumption about the world: `http.DefaultClient` has no
timeout, and a server that neither answers nor hangs up would keep the download,
and the lock with it, for as long as it likes. A poll for the lock is only weakly
fair: it may miss every moment the lock is free, and so `EveryCommandEnds` holds
only because commands are finitely many; no fairness is assumed of kills, damage
or giving up.

`Upload!Fairness`: the timers of `waitReady` and `abortIncomplete` fire and the
attempt goes on (`TimedOut`, `AbortUpload`, `Aborted`, each weakly fair). Nothing
is assumed of the server or the network: requests may be lost or never handled.
That is why only the wait and the abort are claimed to end: `BeginUpload`,
`PutUploadPart` and `CompleteUpload` have no deadline in this code.

## 4. Proofs

| Module | Theorems | Argument |
|---|---|---|
| DiskStoreProofs | `StoreTypeCorrect`, `StorePublishesWhole` | `StoreInv`: temp files are private to a call (`TempsPrivate`), not reachable by a blob path while written or unlinked (`TempsHidden`), and whole once checked (`TempsWhole`); so a link only ever publishes a whole file. `PublishedWhole` alone is not inductive: a partial file might be linked. Also the lemmas on the totals of `Prune`: a total is the number of bytes of the files, told apart (`Total`, a fold, is a cardinality), so smaller files in no greater number have no greater total (`TotalInjection`), and an eviction order has a first (`OldestExists`). |
| CachedBuildProofs | `BuildTypeCorrect`, `LockExcludes`, `ImagesStayIntact`, `FetchDestroysNothing`, `CacheImplemented`, `PruneFits`, `OwnImagesStay` | `BuildInv`: calls happen in their stage (`CallsStaged`), a command past `lock` holds the flock (`LockHeld`), and what a holder is about to discard is bad (`DiscardsBad`), because nobody else can have repaired it. The refinement then has one step of `VerifiedCache` or a stutter per action. `PruneFits`: what `Prune` still counts (`left`) has every file of the directory, at no less than its size (`PruneCovers`), so the loop never stops too early; what is left when its candidates run out are files it could not remove (`Stuck`). `OwnImagesStay`: no use is recorded as later than the clock (`ClockAhead`), so what a build used is newer than all else (`BuildUses`); `Prune` comes to it last, and stops before that when it fits the cap beside them (`OwnKept`, with `TotalSplit` and `StuckGrows`). |
| ReleaseProofs | `ReleaseTypeCorrect`, `ReleasesAreExact`, `SuccessesAreOwn`, `AliasesArePublished`, `CleanupsAreComplete`, `ListedAreReady`, `AliasesAreFollowed`, `PublishedImplemented` | `ReleaseInv`, an argument of ownership: an attempt is `Drafted` from the moment its draft is answered "ok" for as long as any trace of it can touch the version (its stage, a request still on its way, its job, an artifact listed), and at most one attempt of a version is (`OneOwner`). An owner that may publish is `Committed`; it has added everything (`Progress`) and none of its deletions can be on its way (`DeletesEarly`). `Jobs` ties a version's state to its owner's job, `Hears` says what an attempt with every answer knows is listed. `PublishedExact` alone is not inductive: a late request of another attempt might still change the version. The refinement follows: a successful job publishes what its owner has listed, all of it; a request that is handled later finds no draft; an alias is only asked for by a release that saw its job succeed (`AliasInv`). |
| UploadProofs | `UploadTypeCorrect`, `NoSessionIsLeft`, `ReadyIsReallyKnown`, `CompletionsAreKept`, `CompletedSessionsTile` | `UploadInv`: an attempt has one call of its stage (`CallsMatch`); one that heard every answer has no other request on the way (`Hears`), so no abort can reach a session it knows completed (`Kept`); `Opened` and `Begins` say what each stage knows of its session. `CompletedSessionsTile`: the parts put so far are the bytes up to the offset, each once (`TilesInv`), cut in order (`CutsInOrder`); that their number is never more than the number announced is a fact about division (`DivRoom`). |
| BoundedCopyProofs | `DownloadsAreWhole`, `DownloadsAreBounded` | `LimitKept`: what is left of the limit and what was copied add up to the limit and one, unless it overflowed, and then nothing was copied. |
| OutputsProofs | `ImagesAreInPlace`, `FailedBuildsLeaveNone`, `MetadataIsTrue`, `OthersAreUntouched` | `OutputsInv`: only one command is between planning and the lock's release (`Exclusive`), so paths it found absent stay so until it builds them (`Room`), images built are in place (`InPlace`), and every file is one its command answers for (`Mine`). |
| PipelineProofs | `PipelineImplementsOutputs`, `ResolvedIsNewest`, `MissingIsTrue`, `SameIndexGivesSameImages`, `RefusedBeforeTheBuild`, `PipelineTypeCorrect`, `CommandsKeepOutputs` | A step of a command is a step of `Outputs`, a step of a catalog client, or leaves each alone (`OutputsSteps`, `ClientSteps`), so invariants of either carry over. `CatalogInv` is the loop invariant of `selectUpdate`: the selected update is the newest of those passed. `Command` says that assets come from indexes the command fetched; one index has one answer to a query. |
| SeedInjectProofs | `InjectTypeCorrect`, `InjectsExactly` | `InStep` ties the bytes written to the bytes read in each part of the copy, `Agrees` says those written are right. |

The assumptions are those named in the modules (`...Assumption`): digests are
numbers, sentinels differ from values, sizes are natural numbers, the seed
offset and the buffer are positive. TLC evaluates them in every run.

What is proved of the output directory has two hypotheses, written in the
theorems. `SharedLock`: the commands use one cache directory, and so one lock;
builds with different cache directories and one output directory are not kept
apart by anything. `MetadataApart`: no output path is the metadata path of an
output, and the suffix is injective; the program does not check the
former, and the run MetadataClash shows what happens without it.

`SameIndexSameImages` has a premise too: one index. `docs/docs/design.md:330-331`
says `build` "constructs the same plan" as `plan`; it does so from a fetch of its own
per variant, and the two agree, as do the variants of one command, for as long as the
index does not change.

`PruneFits` has the hypothesis `DamageShrinks`: damage never leaves a larger file
than was there. `Prune` measures a file once and decides with that number, so a
file that grows under it may leave the store over its cap. The cap itself is a
natural number (`CapAssumption`): `NewDiskStore` refuses a negative one.

Sums over sets are not proved by induction, whose theorem takes an operator as
its parameter, which the provers cannot instantiate: a sum is the cardinality of
a set of pairs, about which the library has theorems, and a first in an order
comes from a smallest natural number.

Only model-checked: liveness (`EveryCommandEnds`, `WaitsEnd`), which needs
`ENABLED` and is out of the prover's reach. Every other property of a passing
run is a theorem.

## 5. Not modelled

- Directory creation and permission repair of the cache: only their errors
  (`FetchFails`). `Prune` reads the directory in one step; only the holder of
  the lock changes it, so no command can come between.
- A damaged file has one size (`RottenSize`) and keeps its modification time, as
  silent corruption does: a file somebody rewrites would look recently used where
  its metadata is lost, and be evicted later.
- Names and versions are values: `OutputPath` gives what `artifactOutputPath`
  makes of a file name, and versions are ordered numbers as the strings are. The
  URL of an asset is part of its image. An index that is cut off at
  `maxIndexBytes` or ill-formed is a failed fetch.
- `parseSizeConfig` checks a size with `parseSizeLiteral` and then uses viper's
  parser, which is not in the repository. Nothing is assumed of its number, and so
  nothing is shown of its being the one the user wrote: only that one out of
  bounds is refused before the build.
- What else may refuse a publish after its build: `imgsrv.New` (a URL),
  `UploadArtifact` (an image of more than 10000 parts, in `Upload` but not in
  `Pipeline`) and `validateReleaseRequest`. `RefusedBeforeBuild` is about the
  settings that `NewUploader`, `NewPublisher` and `imgsrvArtifactFormat` check.
  The requests of `Release` are valid ones, and the server gives each artifact an
  id, so that the clean-up skips none.
- A clean-up whose deletions fail, an answer to `BeginUpload` that is lost, an
  answer to `AddArtifact` that comes too late: what they leave on the server is in
  the models, and excepted from `CleanupComplete` and `NoSessionLeft`.
- Discovery of the configuration file, flags, output formats, logging and the
  CUE schemas: sequential code without state. The seed archive's format.
- The content of metadata files beyond whose they are. `publish` writes none:
  `docs/docs/design.md:333-335` says it implies a build, and the metadata is
  written by the `build` command alone.
- What the code leaves to the operator: a version whose publication failed stays
  a draft and blocks a retry; a retried `build` or `publish` is refused while the
  images of a late failure exist.

## 6. Plan

Done: the cache, its lock, its bounded copy and the refinement of `VerifiedCache`;
planning, the catalog, the publish settings, the output directory and the
refinement that joins them; release with the refinement of `PublishedVersions`,
upload and injector; proofs of every safety property and refinement.

Left, in this order:

1. A module that composes `CachedBuild` and `SeedInject` with `Pipeline`: an image
   is injected from the blob that was verified, of the digest that was planned.
2. `Upload` inside `Release` as a refinement of its one-step uploads.
3. Prune's walk of the directory, entry by entry, beside damage from outside.
