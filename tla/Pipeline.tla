------------------------------- MODULE Pipeline -------------------------------
(***************************************************************************)
(* The commands `imgcli plan`, `build` and `publish` from their settings to *)
(* the release request: Provider.Plan resolves every variant of an image    *)
(* with a catalog query of its own (Catalog), and the plan decides which    *)
(* files Provider.Build makes (Outputs) of which upstream images.  `build`  *)
(* and `publish` plan behind the cache lock, `plan` without it.             *)
(***************************************************************************)
EXTENDS Outputs, Catalog, Settings

CONSTANTS
    Invocations, \* [Builds -> what each command is run with]
    Unset,       \* a channel that is not given
    Stable,      \* ChannelStable
    OutputPath,  \* artifactOutputPath of a file name, None where it fails
    Unusable     \* images listed without a URL or a digest

Commands == {"plan", "build", "publish"}
Formats  == {"raw", "raw.gz"}

\* The schema's #Source of the defaults and of a variant; 0 is no version.
Source  == [channel : Channels \cup {Unset}, version : Nat]
Variant == [source : Source, offer : Offers, format : STRING, filename : DOMAIN OutputPath]

Configs == { run[b] : run \in Invocations, b \in Builds }

ASSUME InvocationsAssumption == \A run \in Invocations : run \in [Builds -> Configs]
ASSUME ConfigsAssumption ==
    \A cfg \in Configs :
        /\ cfg.command \in Commands /\ cfg.defaults \in Source
        /\ cfg.variants \in Seq(Variant)
        /\ cfg.settings.partSize \in Literal \cup {Malformed}
        /\ cfg.settings.partSizeBytes \in Nat

ASSUME OutputPathAssumption == OutputPath \in [DOMAIN OutputPath -> Paths \cup {None}]

\* Every command is a member of Builds, and has a catalog client.
ASSUME ClientsAssumption == Clients = Builds
ASSUME StableAssumption == Stable \in Channels /\ Unset \notin Channels

VARIABLES
    config,    \* [Builds -> the command's image configuration and settings]
    stage,     \* [Builds -> how far the command is, beside its build]
    source,    \* [Builds -> the assets of the variants resolved so far]
    fetched    \* [Builds -> every index its resolutions were made from]

pipelineVars == <<vars, catalogVars, config, stage, source, fetched>>

PipelineTypeOK ==
    /\ TypeOK /\ CatalogTypeOK
    /\ config \in Invocations
    /\ stage \in [Builds -> {"load", "ready", "refused", "printed", "failed", "handed", "late"}]
    /\ \A b \in Builds : /\ source[b] \in Seq(Asset)
                         /\ Len(source[b]) <= Len(config[b].variants)
                         /\ fetched[b] \subseteq Indexes

PipelineInit ==
    /\ Init /\ CatalogInit
    /\ config \in Invocations
    /\ stage = [b \in Builds |-> IF config[b].command = "publish" THEN "load" ELSE "ready"]
    /\ source = [b \in Builds |-> <<>>]
    /\ fetched = [b \in Builds |-> {}]

-----------------------------------------------------------------------------
(* Plan *)

Variants(b) == config[b].variants

\* Mutant: variants clash only if their file names are written alike.
PlannableByName(cfg) ==
    /\ cfg.variants # <<>>
    /\ \A i \in DOMAIN cfg.variants :
        /\ cfg.variants[i].format \in Formats
        /\ OutputPath[cfg.variants[i].filename] # None
        /\ \A j \in DOMAIN cfg.variants \ {i} : cfg.variants[j].filename # cfg.variants[i].filename

\* planArtifacts returns no error: two variants may not use one path.
Plannable(cfg) ==
    /\ cfg.variants # <<>>
    /\ \A i \in DOMAIN cfg.variants :
        /\ cfg.variants[i].format \in Formats
        /\ OutputPath[cfg.variants[i].filename] # None
        /\ \A j \in DOMAIN cfg.variants \ {i} :
            OutputPath[cfg.variants[j].filename] # OutputPath[cfg.variants[i].filename]

\* The output paths of the plan's artifacts, in the order of their variants.
OutputPaths(cfg) == [i \in DOMAIN cfg.variants |-> OutputPath[cfg.variants[i].filename]]

\* A build may make any sequence of different files.
ASSUME TargetsCoverConfigs ==
    \A cfg \in Configs :
        /\ cfg.variants # <<>>
        /\ \A i, j \in DOMAIN cfg.variants :
            OutputPaths(cfg)[i] \in Paths /\ (OutputPaths(cfg)[i] = OutputPaths(cfg)[j] => i = j)
        => OutputPaths(cfg) \in Targets

\* resolveSource: the variant's fields, the defaults', and ChannelStable.
resolveSource(defaults, v) ==
    [ channel |-> IF v.channel # Unset THEN v.channel
                  ELSE IF defaults.channel # Unset THEN defaults.channel ELSE Stable,
      version |-> IF v.version # 0 THEN v.version ELSE defaults.version ]

SourceOf(cfg, i) == resolveSource(cfg.defaults, cfg.variants[i].source)

\* resolveArtifactSources' query for variant i.
QueryOf(cfg, i) ==
    [ channel |-> SourceOf(cfg, i).channel, version |-> SourceOf(cfg, i).version,
      offer |-> cfg.variants[i].offer ]

ASSUME QueriesCoverConfigs ==
    \A cfg \in Configs : \A i \in DOMAIN cfg.variants : QueryOf(cfg, i) \in Queries

Planning(b) ==
    /\ stage[b] = "ready"
    /\ IF config[b].command = "plan" THEN pc[b] = "lock" ELSE pc[b] = "plan"

AllResolved(b) == Plannable(config[b]) /\ Len(source[b]) = Len(Variants(b))

\* resolveArtifactSources: the next variant is looked up.
ResolveNext(b) ==
    /\ Planning(b) /\ Plannable(config[b]) /\ ~AllResolved(b)
    /\ ResolveImage(b, QueryOf(config[b], Len(source[b]) + 1))
    /\ UNCHANGED <<vars, config, stage, source, fetched>>

\* Its query runs.
Resolving(b) ==
    /\ Planning(b)
    /\ ResolveStep(b)
    /\ fetched' = [fetched EXCEPT ![b] = IF step'[b] = "scan" THEN @ \cup {updates'[b]} ELSE @]
    /\ UNCHANGED <<vars, config, stage, source>>

\* Its asset becomes the artifact's source.
Resolved(b) ==
    /\ Planning(b)
    /\ source' = [source EXCEPT ![b] = Append(@, asset[b])]
    /\ Taken(b)
    /\ UNCHANGED <<vars, config, stage, fetched>>

PlanFails(b) == ~Plannable(config[b]) \/ step[b] \in {"missing", "failed"}

-----------------------------------------------------------------------------
(* imgcli plan *)

\* printResolvedPlan
PrintPlan(b) ==
    /\ config[b].command = "plan" /\ Planning(b) /\ AllResolved(b)
    /\ stage' = [stage EXCEPT ![b] = "printed"]
    /\ UNCHANGED <<vars, catalogVars, config, source, fetched>>

PrintNothing(b) ==
    /\ config[b].command = "plan" /\ Planning(b) /\ PlanFails(b)
    /\ stage' = [stage EXCEPT ![b] = "failed"]
    /\ UNCHANGED <<vars, catalogVars, config, source, fetched>>

-----------------------------------------------------------------------------
(* imgcli build, and imgcli publish around it *)

\* loadPublishConfig, publishAliases and loadImageConfig come before the build; the
\* last may fail whatever the settings are.
Load(b) ==
    /\ stage[b] = "load"
    /\ \/ Loads(config[b].settings) /\ stage' = [stage EXCEPT ![b] = "ready"]
       \/ stage' = [stage EXCEPT ![b] = "refused"]
    /\ UNCHANGED <<vars, catalogVars, config, source, fetched>>

\* The plan is made, and names the files to build.
Planned(b) == AllResolved(b) /\ Plan(b, OutputPaths(config[b]))

NotBuilt(b) == Rejected(b) /\ (pc[b] = "plan" => PlanFails(b))

\* DownloadImage refuses an asset that validateDownloadAsset finds incomplete.
Built(b) == Inject(b) /\ source[b][n[b]].image \notin Unusable

\* Only `build` writes metadata.
LetGo(b) == Unlock(b) /\ pc'[b] = IF config[b].command = "build" THEN "metadata" ELSE "done"

BuildStep(b) ==
    /\ config[b].command # "plan" /\ stage[b] = "ready"
    /\ \/ Lock(b) \/ Planned(b) \/ NotBuilt(b) \/ Absent(b)
       \/ Built(b) \/ InjectFails(b) \/ Remove(b) \/ RemoveFails(b)
       \/ LetGo(b) \/ FailsLate(b) \/ WriteMetadata(b)
       \/ Die(b)
    /\ UNCHANGED <<catalogVars, config, stage, source, fetched>>

\* After the build: the imgsrv clients, NewUploader, NewPublisher and the request.
Configure(b) ==
    /\ config[b].command = "publish" /\ stage[b] = "ready" /\ pc[b] = "done"
    /\ LET accepted ==
            /\ AcceptedByUploader(config[b].settings)
            /\ AcceptedByPublisher(config[b].settings)
            /\ \A i \in DOMAIN Variants(b) : imgsrvArtifactFormat(Variants(b)[i].format)
       IN  stage' = [stage EXCEPT ![b] = IF accepted THEN "handed" ELSE "late"]
    /\ UNCHANGED <<vars, catalogVars, config, source, fetched>>

PipelineStep(b) ==
    \/ ResolveNext(b) \/ Resolving(b) \/ Resolved(b)
    \/ PrintPlan(b) \/ PrintNothing(b)
    \/ Load(b) \/ BuildStep(b) \/ Configure(b)

IndexMoves ==
    /\ \E i \in Indexes \ {index} : MoveIndex(i)
    /\ UNCHANGED <<vars, config, stage, source, fetched>>

PipelineNext == (\E b \in Builds : PipelineStep(b)) \/ IndexMoves

PipelineSpec == PipelineInit /\ [][PipelineNext]_pipelineVars

-----------------------------------------------------------------------------
(* Properties *)

\* Whatever the catalog answers, the commands do with the output directory what
\* Outputs allows: each plans distinct paths, and builds nothing else.
ImplementsOutputs == Spec

\* Variants that declare the same source come from one update, and variants that
\* ask for the same image get the same one, within a command and between a `plan`
\* and a `build`: unless the index changed between their queries, of which there
\* is one per variant (resolveArtifactSources, fetchIndex).
SameIndexSameImages ==
    \A b, c \in Builds, idx \in Indexes : fetched[b] = {idx} /\ fetched[c] = {idx} =>
        \A i \in DOMAIN source[b], j \in DOMAIN source[c] :
            SourceOf(config[b], i) = SourceOf(config[c], j) =>
                /\ source[b][i].version = source[c][j].version
                /\ Variants(b)[i].offer = Variants(c)[j].offer => source[b][i] = source[c][j]

\* Settings and formats that NewUploader, NewPublisher or imgsrvArtifactFormat would
\* refuse are refused before anything is built, whatever viper makes of a size:
\* images of a refused publish would be in the way of its retry.
RefusedBeforeBuild == \A b \in Builds : stage[b] # "late"
===============================================================================
