----------------------------- MODULE CachedBuild -----------------------------
(***************************************************************************)
(* `imgcli build` (and the build `imgcli publish` runs) around the shared   *)
(* blob store: withLockedCache takes the cache-wide flock, fetches and      *)
(* injects one source image after the other, prunes, and lets go.  Several  *)
(* commands run on one cache directory; each may die at any step, and the   *)
(* kernel then drops its flock.                                             *)
(*                                                                         *)
(* Every file-system call inside Fetch and Prune is a step of DiskStore.    *)
(***************************************************************************)
EXTENDS DiskStore, Sequences

CONSTANTS
    Plans,        \* the source images a configuration may need, in order
    MaxCommands   \* bound: how many commands are started

ASSUME ProcsAssumption == None \notin Procs
ASSUME PlansAssumption == Plans \subseteq Seq(Requests)

VARIABLES
    lock,     \* the process holding the flock on cache.lock, or None
    cmd,      \* [Procs -> stage of the command, or "none"]
    plan,     \* [Procs -> the images still to fetch and inject]
    needs,    \* [Procs -> the digests of all images of the command]
    outcome,  \* [Procs -> None while running, Done or Failed once decided]
    started   \* number of commands started

command == <<lock, cmd, plan, needs, outcome, started>>
allVars == <<vars, command>>

Stages == {"none", "lock", "build", "fetch", "inject", "prune", "unlock"}

BuildTypeOK ==
    /\ TypeOK
    /\ lock \in Procs \cup {None}
    /\ cmd \in [Procs -> Stages]
    /\ plan \in [Procs -> Seq(Requests)]
    /\ needs \in [Procs -> SUBSET (Digests \cup {None})]
    /\ outcome \in [Procs -> {None, Done, Failed}]
    /\ started \in Nat

BuildInit ==
    /\ Init
    /\ lock = None
    /\ cmd = [p \in Procs |-> "none"]
    /\ plan = [p \in Procs |-> <<>>]
    /\ needs = [p \in Procs |-> {}]
    /\ outcome = [p \in Procs |-> None]
    /\ started = 0

-----------------------------------------------------------------------------
(* The command *)

Stage(p, from, to) == cmd[p] = from /\ cmd' = [cmd EXCEPT ![p] = to]

Decide(p, r) == outcome' = [outcome EXCEPT ![p] = r]

\* The process exits.
Exit(p) ==
    /\ plan' = [plan EXCEPT ![p] = <<>>]
    /\ needs' = [needs EXCEPT ![p] = {}]

\* A command starts with its configuration loaded.
Start(p) ==
    /\ started < MaxCommands
    /\ Stage(p, "none", "lock")
    /\ \E s \in Plans :
        /\ plan' = [plan EXCEPT ![p] = s]
        /\ needs' = [needs EXCEPT ![p] = {s[i].want : i \in DOMAIN s}]
    /\ Decide(p, None)
    /\ started' = started + 1
    /\ UNCHANGED <<vars, lock>>

\* Mutant: the flock is taken shared.
AcquireShared(p) ==
    /\ Stage(p, "lock", "build")
    /\ lock' = p
    /\ UNCHANGED <<vars, plan, needs, outcome, started>>

\* A poll of TryLockContext finds the flock free.
Acquire(p) ==
    /\ Stage(p, "lock", "build")
    /\ lock = None
    /\ lock' = p
    /\ UNCHANGED <<vars, plan, needs, outcome, started>>

\* The context ends while polling, or the lock file cannot be opened.
GiveUp(p) ==
    /\ Stage(p, "lock", "none")
    /\ Decide(p, Failed)
    /\ Exit(p)
    /\ UNCHANGED <<vars, lock, started>>

\* Provider.Build asks for the next artifact's source image.
Download(p) ==
    /\ Stage(p, "build", "fetch")
    /\ plan[p] # <<>>
    /\ Fetch(p, Head(plan[p]))
    /\ UNCHANGED <<lock, plan, needs, outcome, started>>

\* Mutant: the lock covers the download only.
DownloadedUnlocked(p) ==
    /\ Stage(p, "fetch", "inject")
    /\ pc[p] = "idle" /\ result[p] \in Digests
    /\ lock' = None
    /\ UNCHANGED <<vars, plan, needs, outcome, started>>

\* Fetch returned a path.
Downloaded(p) ==
    /\ Stage(p, "fetch", "inject")
    /\ pc[p] = "idle" /\ result[p] \in Digests
    /\ UNCHANGED <<vars, lock, plan, needs, outcome, started>>

\* Mutant: a failed download returns without the unlock.
DownloadFailedLocked(p) ==
    /\ Stage(p, "fetch", "none")
    /\ pc[p] = "idle" /\ result[p] = Failed
    /\ Decide(p, Failed)
    /\ UNCHANGED <<vars, lock, plan, needs, started>>

\* Fetch returned an error: the build fails and skips the prune.
DownloadFailed(p) ==
    /\ Stage(p, "fetch", "unlock")
    /\ pc[p] = "idle" /\ result[p] = Failed
    /\ Decide(p, Failed)
    /\ UNCHANGED <<vars, lock, plan, needs, started>>

\* InjectSeed reads the cached image to its end and writes the artifact.
Injected(p) ==
    /\ Stage(p, "inject", "build")
    /\ plan' = [plan EXCEPT ![p] = Tail(@)]
    /\ UNCHANGED <<vars, lock, needs, outcome, started>>

\* Mutant: the error is lost and the last call's result returned.
BuildFailedSilently(p) ==
    /\ \/ Stage(p, "inject", "unlock")
       \/ Stage(p, "build", "unlock")
    /\ Decide(p, result[p])
    /\ UNCHANGED <<vars, lock, plan, needs, started>>

\* Planning, seeding or injecting fails: also without the prune.
BuildFailed(p) ==
    /\ \/ Stage(p, "inject", "unlock")
       \/ Stage(p, "build", "unlock")
    /\ Decide(p, Failed)
    /\ UNCHANGED <<vars, lock, plan, needs, started>>

\* Every artifact is built: prune before the lock is released.
StartPrune(p) ==
    /\ Stage(p, "build", "prune")
    /\ plan[p] = <<>>
    /\ Prune(p)
    /\ UNCHANGED <<lock, plan, needs, outcome, started>>

\* The command's outcome is the prune's: an error fails a finished build.
Pruned(p) ==
    /\ Stage(p, "prune", "unlock")
    /\ pc[p] = "idle" /\ result[p] \in {Done, Failed}
    /\ Decide(p, result[p])
    /\ UNCHANGED <<vars, lock, plan, needs, started>>

\* The deferred Unlock; a failure to unlock ends the process and the flock.
Unlock(p) ==
    /\ Stage(p, "unlock", "none")
    /\ lock' = None
    /\ verified' = [verified EXCEPT ![p] = {}]
    /\ result' = [result EXCEPT ![p] = None]
    /\ PruneLocalsDie(p)
    /\ Exit(p)
    /\ UNCHANGED <<fs, pc, fetch, outcome, started>>

\* The process is killed: the kernel closes its files and with them the flock.
Kill(p) ==
    /\ cmd[p] # "none"
    /\ cmd' = [cmd EXCEPT ![p] = "none"]
    /\ Decide(p, Failed)
    /\ lock' = IF lock = p THEN None ELSE lock
    /\ ProcessDies(p)
    /\ Exit(p)
    /\ UNCHANGED started

CommandStep(p) ==
    \/ Acquire(p)
    \/ Download(p) \/ Downloaded(p) \/ DownloadFailed(p)
    \/ Injected(p) \/ BuildFailed(p)
    \/ StartPrune(p) \/ Pruned(p)
    \/ Unlock(p)

StoreStep(p) == (FetchStep(p) \/ PruneStep(p)) /\ UNCHANGED command

Disturb == (\E d \in Fragile : Damage(d)) /\ UNCHANGED command

BuildNext ==
    \/ \E p \in Procs :
        Start(p) \/ CommandStep(p) \/ GiveUp(p) \/ StoreStep(p) \/ Kill(p)
    \/ Disturb

BuildSpec == BuildInit /\ [][BuildNext]_allVars

\* A started command keeps taking steps: its system calls return, and the
\* server answers or the connection breaks.  Polling for the lock is only
\* weakly fair: a poll may miss every moment at which the lock is free.
Fairness ==
    \A p \in Procs : WF_allVars(CommandStep(p)) /\ WF_allVars(StoreStep(p))

LiveSpec == BuildSpec /\ Fairness

-----------------------------------------------------------------------------
(* Refinement *)

\* The paths a build works from: it needs them until its artifacts are built.
InUse(p) == IF cmd[p] \in {"build", "fetch", "inject"} THEN verified[p] ELSE {}

Cache == INSTANCE VerifiedCache WITH
    Builds <- Procs,
    Images <- Digests,
    Perishable <- Fragile,
    cached <- {d \in Digests : Good(d)},
    inUse <- [p \in Procs |-> InUse(p)]

\* The blob store behind its lock implements VerifiedCache.
ImplementsCache == Cache!Spec

-----------------------------------------------------------------------------
(* The inductive invariant behind OnlyHolderInside and VerifiedIntact *)

\* A call to the store is in progress only in the stage that made it, and there
\* is an image to build while one is fetched or injected.
CallsStaged ==
    \A p \in Procs :
        /\ pc[p] \in FetchSteps \cup {"return"} => cmd[p] = "fetch"
        /\ pc[p] \in PruneSteps => cmd[p] = "prune"
        /\ cmd[p] \in {"fetch", "inject"} => plan[p] # <<>>

\* Past the lock stage a command holds the flock; before it, it has no paths.
LockHeld ==
    \A p \in Procs :
        IF cmd[p] \in {"none", "lock"} THEN verified[p] = {} ELSE lock = p

\* Nobody repairs a blob between its verification and its removal.
DiscardsBad == \A p \in Procs : pc[p] = "discard" => ~Good(digest[p])

-----------------------------------------------------------------------------
(* The inductive invariants behind PrunedFits and OwnImagesSurvive *)

\* What the last prune of p could not remove: candidates it visited and still counts.
Stuck(p) == left[p] \ todo[p]

\* Prune's candidates are finitely many, one per digest, and none without a cap;
\* the loop forgets one it has just visited.
CandidatesDiffer(p) ==
    /\ todo[p] \subseteq left[p] /\ IsFiniteSet(left[p])
    /\ \A c, e \in left[p] : c.digest = e.digest => c = e
    /\ Cap = 0 => left[p] = {}
    /\ pc[p] = "forget" => todo[p] # {}

\* While p prunes, every regular file of the blobs directory is accounted for
\* in left, with at least its size.
LeftCovers(p) ==
    /\ CandidatesDiffer(p)
    /\ pc[p] = "forget" => blob[Oldest(todo[p]).digest] \notin Inodes
    /\ \A d \in Digests : blob[d] \in Inodes =>
          \E c \in left[p] : c.digest = d /\ FileSize(blob[d]) <= c.size

PruneCovers ==
    \A p \in Procs : cmd[p] = "prune" /\ Cap # 0 =>
        /\ LeftCovers(p)
        /\ pc[p] = "idle" /\ result[p] = Done => todo[p] = {} \/ PruneStops(p)

\* Nothing was used after the present moment.
ClockAhead ==
    /\ \A d \in Digests : meta[d] <= clock
    /\ \A i \in Inodes : mtime[i] <= clock

\* p recorded its use of image d after the last use of every image it does not need.
UsedLast(p, d) ==
    \A e \in Digests \ needs[p] :
        meta[e] < meta[d] /\ (blob[e] \in Inodes => mtime[blob[e]] < meta[d])

\* A configuration whose images are all pinned, as every entry of the catalog is.
Pinned(p) == needs[p] \subseteq Digests

\* p has verified image d, and it can only be gone because it was damaged.
Had(p, d) == d \in verified[p] \cup Fragile

\* The images a build still has to fetch, and those it has.
PlanCovers(p) ==
    /\ \A i \in DOMAIN plan[p] : plan[p][i].want \in needs[p]
    /\ \A d \in needs[p] :
          Had(p, d) \/ \E i \in DOMAIN plan[p] : plan[p][i].want = d

\* The call in progress fetches the image at the head of the plan.
FetchesNext(p) ==
    LET want == Head(plan[p]).want IN
    /\ cmd[p] = "fetch" /\ pc[p] \in FetchSteps =>
          req[p].want = want /\ digest[p] = want /\ result[p] # Failed
    /\ cmd[p] = "fetch" /\ pc[p] = "touch" => Had(p, want)
    /\ \/ cmd[p] = "fetch" /\ pc[p] \in {"return", "idle"} /\ result[p] # Failed
       \/ cmd[p] = "inject"
       => Had(p, want) /\ result[p] = want

\* Every image a build has verified it has also recorded, unless it is about to
\* or the download failed.
UsesRecorded(p) ==
    \A d \in verified[p] :
        \/ cmd[p] = "fetch" /\ result[p] = Failed
        \/ pc[p] = "touch" /\ digest[p] = d
        \/ UsedLast(p, d)

BuildUses ==
    \A p \in Procs :
        /\ cmd[p] = "lock" => PlanCovers(p)
        /\ Pinned(p) /\ cmd[p] \in {"build", "fetch", "inject"} =>
              PlanCovers(p) /\ FetchesNext(p) /\ UsesRecorded(p)

\* Prune meets the build's own images last, and counts them at their size.
OwnNewest(p) ==
    /\ CandidatesDiffer(p)
    /\ \A c \in left[p] : c.digest \in needs[p] =>
          /\ c.size = Size[c.digest]
          /\ \A e \in left[p] : e.digest \notin needs[p] => e.used < c.used

\* None of the build's images was damaged after the build verified it.
Undamaged(p) == needs[p] \cap Fragile \subseteq verified[p]

\* The build's images fit the cap beside what could not be removed.
Fits(p) == Cap = 0 \/ TotalSize(Stuck(p)) + Total([d \in needs[p] |-> Size[d]]) <= Cap

OwnKept ==
    \A p \in Procs : Pinned(p) /\ Undamaged(p) =>
        /\ cmd[p] = "prune" => OwnNewest(p)
        /\ \/ cmd[p] = "prune"
           \/ cmd[p] = "unlock" /\ outcome[p] = Done
           => (Fits(p) => \A d \in needs[p] : Good(d))

-----------------------------------------------------------------------------
(* Properties *)

\* Only the process holding the flock is inside a call to the store or holds
\* paths into it (withLockedCache).
OnlyHolderInside ==
    \A p \in Procs :
        pc[p] # "idle" \/ verified[p] # {} \/ cmd[p] \notin {"none", "lock"}
            => lock = p

\* From the moment a build has verified an image until all its artifacts are
\* built, the image stays in place unless something outside damages it: no
\* Fetch and no Prune of another command takes it away.
VerifiedIntact == \A p \in Procs : \A d \in InUse(p) : Good(d)

BuildInv ==
    /\ BuildTypeOK /\ StoreInv
    /\ CallsStaged /\ LockHeld /\ DiscardsBad /\ VerifiedIntact

\* A good blob leaves the cache only through a Prune, or through damage from
\* outside: Fetch's os.Remove only ever hits a blob that is unusable.
FetchKeepsGoodBlobs ==
    [][ \A p \in Procs : FetchStep(p) => \A d \in Digests : Good(d) => Good(d)' ]_allVars

\* The regular files of the blobs directory, as Prune would count them.
StoreSize == TotalSize(PruneCandidates)

\* When a prune ran to its end, the cache directory is within the cap, or holds a
\* single blob, or nothing but blobs that could not be removed (Prune).
PrunedFits ==
    \A p \in Procs :
        cmd[p] = "prune" /\ pc[p] = "idle" /\ result[p] = Done /\ Cap # 0
        => \/ StoreSize <= Cap
           \/ Cardinality(PruneCandidates) <= 1
           \/ \A d \in Digests : blob[d] \in Inodes => \E c \in Stuck(p) : c.digest = d

\* All images of a build that ended well are still there after its prune when they
\* fit the cap beside the blobs that could not be removed, and nothing outside
\* damaged them: they are the most recently used ones, whatever crashes have lost,
\* and the next build of the same configuration downloads nothing.
OwnImagesSurvive ==
    \A p \in Procs :
        (cmd[p] = "unlock" /\ outcome[p] = Done
            /\ Pinned(p) /\ Undamaged(p) /\ Fits(p))
        => \A d \in needs[p] : Good(d)

\* Every command ends: it gets the lock or the process ahead of it dies, and
\* nothing it does afterwards blocks.
EveryCommandEnds == \A p \in Procs : cmd[p] = "lock" ~> cmd[p] = "none"
==============================================================================
