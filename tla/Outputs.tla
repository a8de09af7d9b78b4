-------------------------------- MODULE Outputs --------------------------------
(***************************************************************************)
(* The files a build leaves in its output directory: Provider.Build of      *)
(* internal/providers/incusos and writeBuildArtifactMetadata of             *)
(* internal/cli, by several commands that write to one directory.           *)
(*                                                                         *)
(* Provider.Build runs inside withLockedCache, so commands on one cache     *)
(* directory build one after the other (SharedLock); the metadata files are *)
(* written after the lock is released.  Image and metadata files are        *)
(* written to a private temp file and renamed: only the rename shows here.  *)
(* What an image holds is told apart by the build and the artifact alone.   *)
(***************************************************************************)
EXTENDS Naturals, Sequences

CONSTANTS
    Builds,        \* runs of `imgcli build` or `imgcli publish`
    Paths,         \* paths in the output directory
    Targets,       \* the artifacts' output paths, in order of their variants
    MetadataPath,  \* buildArtifactMetadataPath
    SharedLock,    \* the commands share a cache directory
    None           \* no file

\* planArtifacts rejects a path used by two variants.
ASSUME TargetsAssumption ==
    \A t \in Targets : /\ t \in Seq(Paths) /\ t # <<>>
                       /\ \A i, j \in DOMAIN t : t[i] = t[j] => i = j
ASSUME MetadataPathAssumption == \A t \in Targets : \A i \in DOMAIN t : MetadataPath[t[i]] \in Paths

VARIABLES
    file,     \* [Paths -> the file there, or None]
    pc,       \* [Builds -> stage of the command]
    target,   \* [Builds -> output paths of its artifacts, once they are planned]
    n         \* [Builds -> the artifact the stage's loop is at]

vars == <<file, pc, target, n>>

Files    == [kind : {"image", "metadata"}, by : Builds, of : Nat]

ASSUME NoneAssumption == None \notin Files

Image(b, i)    == [kind |-> "image", by |-> b, of |-> i]
Metadata(b, i) == [kind |-> "metadata", by |-> b, of |-> i]

TypeOK ==
    /\ file \in [Paths -> Files \cup {None}]
    /\ pc \in [Builds -> {"lock", "plan", "stat", "build", "clean", "litter", "built",
                          "metadata", "done", "rejected", "cleaned", "littered", "kept", "dead"}]
    /\ target \in [Builds -> Targets \cup {<<>>}]
    /\ n \in [Builds -> Nat \ {0}]

Init ==
    /\ file = [p \in Paths |-> None]
    /\ pc = [b \in Builds |-> "lock"]
    /\ target = [b \in Builds |-> <<>>]
    /\ n = [b \in Builds |-> 1]

-----------------------------------------------------------------------------
(* Provider.Build *)

Enter(b, stage, first) ==
    /\ pc' = [pc EXCEPT ![b] = stage]
    /\ n' = [n EXCEPT ![b] = first]

Stay(b, next) == n' = [n EXCEPT ![b] = next] /\ UNCHANGED pc

Path(b) == target[b][n[b]]

Last(b) == n[b] = Len(target[b])

\* The command holds the cache lock.
Inside(b) == pc[b] \in {"plan", "stat", "build", "clean", "litter", "built"}

\* Mutant: the build is not inside withLockedCache.
Unlocked(b) ==
    /\ pc[b] = "lock"
    /\ Enter(b, "plan", 1)
    /\ UNCHANGED <<file, target>>

Lock(b) ==
    /\ pc[b] = "lock"
    /\ SharedLock => \A other \in Builds : ~Inside(other)
    /\ Enter(b, "plan", 1)
    /\ UNCHANGED <<file, target>>

\* Plan, and plannedArtifactsForExecution: the artifacts' output paths are known.
Plan(b, t) ==
    /\ pc[b] = "plan"
    /\ target' = [target EXCEPT ![b] = t]
    /\ Enter(b, "stat", 1)
    /\ UNCHANGED file

\* Mutant: an output that exists already is no reason to stop.
AbsentUnchecked(b) ==
    /\ pc[b] = "stat"
    /\ \/ ~Last(b) /\ Stay(b, n[b] + 1)
       \/ Last(b) /\ Enter(b, "build", 1)
    /\ UNCHANGED <<file, target>>

\* rejectExistingOutputPaths: one os.Stat per artifact; none may be there.
Absent(b) ==
    /\ pc[b] = "stat" /\ file[Path(b)] = None
    /\ \/ ~Last(b) /\ Stay(b, n[b] + 1)
       \/ Last(b) /\ Enter(b, "build", 1)
    /\ UNCHANGED <<file, target>>

\* No build: an output exists already, or locking, planning or seeding fails.
Rejected(b) ==
    /\ pc[b] \in {"lock", "plan", "stat"}
    /\ Enter(b, "rejected", 1)
    /\ UNCHANGED <<file, target>>

\* DownloadImage and InjectSeed succeed: the image is renamed into place.
Inject(b) ==
    /\ pc[b] = "build"
    /\ file' = [file EXCEPT ![Path(b)] = Image(b, n[b])]
    /\ \/ ~Last(b) /\ Stay(b, n[b] + 1)
       \/ Last(b) /\ Enter(b, "built", 1)
    /\ UNCHANGED target

\* Mutant: the clean-up forgets the image built last.
InjectFailsShort(b) ==
    /\ pc[b] = "build"
    /\ \/ n[b] > 2 /\ Enter(b, "clean", n[b] - 2)
       \/ n[b] <= 2 /\ Enter(b, "cleaned", 1)
    /\ UNCHANGED <<file, target>>

\* One of them fails: what is in place is removed, the last image first.
InjectFails(b) ==
    /\ pc[b] = "build"
    /\ \/ n[b] > 1 /\ Enter(b, "clean", n[b] - 1)
       \/ n[b] = 1 /\ Enter(b, "cleaned", 1)
    /\ UNCHANGED <<file, target>>

\* Mutant: the clean-up loop runs once too often.
NextRemovalBelowFirst(b, stage, end) ==
    \/ n[b] >= 1 /\ Enter(b, stage, n[b] - 1)
    \/ n[b] < 1 /\ Enter(b, end, 1)

NextRemoval(b, stage, end) ==
    \/ n[b] > 1 /\ Enter(b, stage, n[b] - 1)
    \/ n[b] = 1 /\ Enter(b, end, 1)

\* cleanupBuiltOutputs goes on when a removal fails; "litter" remembers it did.
Remove(b) ==
    /\ \/ pc[b] = "clean" /\ NextRemoval(b, "clean", "cleaned")
       \/ pc[b] = "litter" /\ NextRemoval(b, "litter", "littered")
    /\ file' = [file EXCEPT ![Path(b)] = None]
    /\ UNCHANGED target

RemoveFails(b) ==
    /\ pc[b] \in {"clean", "litter"}
    /\ NextRemoval(b, "litter", "littered")
    /\ UNCHANGED <<file, target>>

-----------------------------------------------------------------------------
(* The command around it *)

\* Prune and Unlock succeed; `build` goes on to the metadata, `publish` does not.
Unlock(b) ==
    /\ pc[b] = "built"
    /\ \/ Enter(b, "metadata", 1)
       \/ Enter(b, "done", 1)
    /\ UNCHANGED <<file, target>>

\* Prune or Unlock fails, or writeJSONFile: the images are kept all the same.
FailsLate(b) ==
    /\ pc[b] \in {"built", "metadata"}
    /\ Enter(b, "kept", 1)
    /\ UNCHANGED <<file, target>>

\* Mutant: every metadata file is put beside the first image.
WriteMetadataFirst(b) ==
    /\ pc[b] = "metadata"
    /\ file' = [file EXCEPT ![MetadataPath[target[b][1]]] = Metadata(b, n[b])]
    /\ \/ ~Last(b) /\ Stay(b, n[b] + 1)
       \/ Last(b) /\ Enter(b, "done", 1)
    /\ UNCHANGED target

\* writeBuildArtifactMetadata: the metadata file is renamed into place.
WriteMetadata(b) ==
    /\ pc[b] = "metadata"
    /\ file' = [file EXCEPT ![MetadataPath[Path(b)]] = Metadata(b, n[b])]
    /\ \/ ~Last(b) /\ Stay(b, n[b] + 1)
       \/ Last(b) /\ Enter(b, "done", 1)
    /\ UNCHANGED target

Die(b) ==
    /\ Inside(b) \/ pc[b] = "metadata"
    /\ Enter(b, "dead", 1)
    /\ UNCHANGED <<file, target>>

Step(b) ==
    \/ Lock(b) \/ (\E t \in Targets : Plan(b, t)) \/ Absent(b) \/ Rejected(b)
    \/ Inject(b) \/ InjectFails(b) \/ Remove(b) \/ RemoveFails(b)
    \/ Unlock(b) \/ FailsLate(b) \/ WriteMetadata(b)
    \/ Die(b)

Next == \E b \in Builds : Step(b)

Spec == Init /\ [][Next]_vars

-----------------------------------------------------------------------------
(* Properties *)

\* A file is replaced or removed only by the command that put it there: builds
\* that share a cache directory never touch each other's images, finished,
\* abandoned or in progress (rejectExistingOutputPaths, cleanupBuiltOutputs).
OthersUntouched ==
    [][ \A p \in Paths : file[p] # None /\ file'[p] # file[p]
            => pc'[file[p].by] # pc[file[p].by] \/ n'[file[p].by] # n[file[p].by] ]_vars

\* Every image a command has built or reported is in its place.
ImagesInPlace ==
    \A b \in Builds : \A i \in DOMAIN target[b] :
        \/ pc[b] = "build" /\ i < n[b]
        \/ pc[b] = "clean" /\ i <= n[b]
        \/ pc[b] \in {"built", "metadata", "done", "kept"}
        => file[target[b][i]] = Image(b, i)

\* A build that failed and could remove what it had built leaves no image.
FailedLeavesNone ==
    \A b \in Builds : pc[b] \in {"cleaned", "rejected"} =>
        \A p \in Paths : file[p] = None \/ file[p].by # b

\* The metadata beside an image is the image's own.
MetadataTrue ==
    \A b \in Builds : pc[b] = "done" => \A i \in DOMAIN target[b] :
        file[MetadataPath[target[b][i]]] \in {None, Metadata(b, i)}
===============================================================================
