-------------------------- MODULE CachedBuildProofs --------------------------
(***************************************************************************)
(* For any number of commands, images and files: the flock keeps every call *)
(* to the store apart, an image in use stays intact, Fetch destroys no good *)
(* blob, CachedBuild implements VerifiedCache, a prune leaves the store     *)
(* within the cap, and it spares the images of the build it belongs to.     *)
(***************************************************************************)
EXTENDS CachedBuild, DiskStoreProofs

USE DEF Goto, Finish, Outcomes, NotFile, NoDigest

-----------------------------------------------------------------------------
(* What a step of the store does to good blobs *)

\* A step of Fetch changes no image, or verifies one and leaves the others.
LEMMA FetchStepEffect ==
    ASSUME NEW p \in Procs, StoreInv, FetchStep(p), ~(pc[p] = "discard" /\ Good(digest[p]))
    PROVE  \/ UNCHANGED verified /\ \A d \in Digests : Good(d)' <=> Good(d)
           \/ \E m \in Digests :
                 /\ verified' = [verified EXCEPT ![p] = @ \cup {m}]
                 /\ Good(m)'
                 /\ \A d \in Digests \ {m} : Good(d)' <=> Good(d)
  <1> USE DEF StoreInv, TypeOK, Good
  <1>1. CASE Inspect(p) \/ Touch(p) \/ FetchFails(p) \/ Return(p)
    <2>1. UNCHANGED <<blob, content, verified>>
      BY <1>1 DEF Inspect, Touch, FetchFails, Return, fs, prune
    <2>2. QED
      BY <2>1
  <1>2. CASE Hash(p)
    <2>1. digest[p] \in Digests /\ seen[p] \in Inodes /\ UNCHANGED <<blob, content>>
      BY <1>2 DEF Hash, fs, PathNamed, OnPath
    <2>2. \/ UNCHANGED verified
          \/ /\ blob[digest[p]] = seen[p] /\ content[seen[p]] = digest[p]
             /\ verified' = [verified EXCEPT ![p] = @ \cup {digest[p]}]
      BY <1>2 DEF Hash
    <2>3. QED
      BY <2>1, <2>2
  <1>3. CASE Discard(p)
    BY <1>3, NotInodes DEF Discard
  <1>4. CASE Request(p)
    <2>1. PICK i \in Inodes : Free(i) /\ content' = [content EXCEPT ![i] = Partial]
      BY <1>4 DEF Request
    <2>2. UNCHANGED <<blob, verified>>
      BY <1>4 DEF Request
    <2>3. QED
      BY <2>1, <2>2 DEF Free
  <1>5. CASE Copy(p)
    <2>1. /\ UNCHANGED <<blob, verified>>
          /\ \E c : content' = [content EXCEPT ![tmp[p]] = c]
      BY <1>5 DEF Copy
    <2>2. \A d \in Digests : blob[d] # tmp[p]
      BY <1>5 DEF Copy, TempsHidden
    <2>3. QED
      BY <2>1, <2>2
  <1>6. CASE Link(p) \/ Relink(p)
    <2>1. pc[p] \in {"link", "relink"} /\ UNCHANGED content
      BY <1>6 DEF Link, Relink, LinkOr
    <2>2. tmp[p] \in Inodes /\ content[tmp[p]] = digest[p] /\ digest[p] \in Digests
      BY <2>1 DEF TempsHidden, TempsWhole, Unlinked, PathNamed, OnPath
    <2>3. \/ UNCHANGED <<blob, verified>>
          \/ /\ blob[digest[p]] = None
             /\ blob' = [blob EXCEPT ![digest[p]] = tmp[p]]
             /\ verified' = [verified EXCEPT ![p] = @ \cup {digest[p]}]
      BY <1>6 DEF Link, Relink, LinkOr
    <2>4. QED
      BY <2>1, <2>2, <2>3, NotInodes
  <1>7. QED
    BY <1>1, <1>2, <1>3, <1>4, <1>5, <1>6 DEF FetchStep

\* So Fetch loses no good blob, and what it adds to verified is good.
LEMMA FetchStepGood ==
    ASSUME NEW p \in Procs, StoreInv, FetchStep(p), ~(pc[p] = "discard" /\ Good(digest[p]))
    PROVE  /\ \A d \in Digests : Good(d) => Good(d)'
           /\ \A d \in verified'[p] \ verified[p] : Good(d)'
           /\ \A q \in Procs \ {p} : verified'[q] = verified[q]
  BY FetchStepEffect DEF StoreInv, TypeOK

\* A process that discards a blob has just found it unusable.
LEMMA FetchStepDiscards ==
    ASSUME NEW p \in Procs, StoreInv, FetchStep(p), pc'[p] = "discard"
    PROVE  ~Good(digest[p])' /\ pc[p] # "discard"
  <1> USE DEF StoreInv, TypeOK, Good
  <1>1. CASE Inspect(p)
    BY <1>1 DEF Inspect, Unusable, fs
  <1>2. CASE Hash(p)
    BY <1>2 DEF Hash, Unusable, fs, fetch
  <1>3. CASE Discard(p) \/ Request(p) \/ Copy(p) \/ Touch(p) \/ FetchFails(p) \/ Return(p)
    BY <1>3 DEF Discard, Request, Copy, Touch, FetchFails, Return
  <1>4. CASE Link(p) \/ Relink(p)
    BY <1>4 DEF Link, Relink, LinkOr
  <1>5. QED
    BY <1>1, <1>2, <1>3, <1>4 DEF FetchStep

\* The build cannot lose an image unless it works from a new one or files change.
LEMMA NothingLost ==
    ASSUME VerifiedIntact, UNCHANGED <<blob, content>>,
           \A q \in Procs : InUse(q)' \subseteq InUse(q)
    PROVE  VerifiedIntact'
  BY DEF VerifiedIntact, Good

\* Damage spoils the blob it hits and no other.
LEMMA DamageGood ==
    ASSUME NEW d \in Digests, StoreInv, Damage(d)
    PROVE  /\ ~Good(d)'
           /\ \A e \in Digests \ {d} : Good(e)' <=> Good(e)
  BY NotInodes, SentinelsAssumption DEF StoreInv, TypeOK, Good, Damage, PublishedWhole

-----------------------------------------------------------------------------
(* The invariant *)

LEMMA BuildInvInit == BuildInit => BuildInv
  BY StoreInvInit
     DEF BuildInit, BuildInv, BuildTypeOK, StoreInv, Stages, CallsStaged, LockHeld,
         DiscardsBad, VerifiedIntact, InUse, Init, FetchSteps, PruneSteps

\* Past the lock stage, a process is alone.
LEMMA Alone ==
    ASSUME BuildInv, NEW p \in Procs, cmd[p] \notin {"none", "lock"},
           NEW q \in Procs \ {p}
    PROVE  cmd[q] \in {"none", "lock"} /\ verified[q] = {} /\ pc[q] = "idle" /\ InUse(q) = {}
  <1>1. cmd[q] \in {"none", "lock"} /\ verified[q] = {}
    BY DEF BuildInv, LockHeld
  <1>2. pc[q] = "idle"
    BY <1>1 DEF BuildInv, CallsStaged, StoreInv, TypeOK, FetchSteps, PruneSteps
  <1>3. QED
    BY <1>1, <1>2 DEF InUse

\* The steps of a command that touch neither a file nor a call.
QuietCommandStep(p) ==
    \/ Start(p) \/ Acquire(p) \/ GiveUp(p)
    \/ Downloaded(p) \/ DownloadFailed(p) \/ Injected(p) \/ BuildFailed(p)
    \/ Pruned(p) \/ Unlock(p)

LEMMA QuietStore ==
    ASSUME NEW p \in Procs, BuildInv, QuietCommandStep(p)
    PROVE  StoreInv' /\ UNCHANGED <<fs, pc, fetch>>
  <1>1. UNCHANGED <<fs, pc, fetch>>
    BY DEF QuietCommandStep, Start, Acquire, GiveUp, Downloaded, DownloadFailed,
           Injected, BuildFailed, Pruned, Unlock, vars
  <1>2. TypeOK'
    <2>1. CASE Unlock(p)
      BY <1>1, <2>1 DEF Unlock, BuildInv, StoreInv, TypeOK, PruneLocalsDie, fs, fetch
    <2>2. CASE UNCHANGED vars
      BY <2>2 DEF BuildInv, StoreInv, TypeOK, vars, fs, fetch, prune
    <2>3. QED
      BY <2>1, <2>2 DEF QuietCommandStep, Start, Acquire, GiveUp, Downloaded,
         DownloadFailed, Injected, BuildFailed, Pruned
  <1>3. QED
    BY <1>1, <1>2, QuietStep DEF BuildInv

LEMMA QuietCommandInv ==
    ASSUME NEW p \in Procs, BuildInv, QuietCommandStep(p)
    PROVE  BuildInv'
  <1> USE DEF BuildInv, BuildTypeOK, Stages, CallsStaged, LockHeld, Stage, Decide
  <1>0. /\ StoreInv' /\ TypeOK'
        /\ UNCHANGED <<fs, pc, fetch>> /\ UNCHANGED <<blob, content>>
    BY QuietStore DEF StoreInv, fs
  <1>1. DiscardsBad'
    BY <1>0 DEF DiscardsBad, Good, fs, fetch
  <1>2. CASE Start(p)
    <2>1. PICK s \in Plans :
             /\ plan' = [plan EXCEPT ![p] = s]
             /\ needs' = [needs EXCEPT ![p] = {s[i].want : i \in DOMAIN s}]
      BY <1>2 DEF Start
    <2>2. s \in Seq(Requests) /\ {s[i].want : i \in DOMAIN s} \subseteq Digests \cup {None}
      BY PlansAssumption, RequestsAssumption DEF RequestSet
    <2>3. BuildTypeOK'
      BY <1>0, <1>2, <2>1, <2>2 DEF Start
    <2>4. CallsStaged' /\ LockHeld'
      BY <1>0, <1>2, <2>1 DEF Start, vars, StoreInv, TypeOK
    <2>5. VerifiedIntact'
      <3>1. \A q \in Procs : InUse(q)' \subseteq InUse(q)
        BY <1>2 DEF Start, vars, InUse
      <3>2. QED
        BY <1>0, <3>1, NothingLost
    <2>6. QED
      BY <1>0, <1>1, <2>3, <2>4, <2>5
  <1>3. CASE Acquire(p)
    <2>1. BuildTypeOK' /\ CallsStaged' /\ LockHeld'
      BY <1>0, <1>3, ProcsAssumption DEF Acquire, vars
    <2>2. VerifiedIntact'
      <3>1. \A q \in Procs : InUse(q)' \subseteq InUse(q)
        BY <1>3 DEF Acquire, vars, InUse
      <3>2. QED
        BY <1>0, <3>1, NothingLost
    <2>3. QED
      BY <1>0, <1>1, <2>1, <2>2
  <1>4. CASE GiveUp(p)
    <2>1. BuildTypeOK' /\ CallsStaged' /\ LockHeld'
      BY <1>0, <1>4 DEF GiveUp, Exit, vars
    <2>2. VerifiedIntact'
      <3>1. \A q \in Procs : InUse(q)' \subseteq InUse(q)
        BY <1>4 DEF GiveUp, vars, InUse
      <3>2. QED
        BY <1>0, <3>1, NothingLost
    <2>3. QED
      BY <1>0, <1>1, <2>1, <2>2
  <1>5. CASE Downloaded(p) \/ DownloadFailed(p) \/ BuildFailed(p) \/ Pruned(p)
    <2>1. BuildTypeOK' /\ CallsStaged' /\ LockHeld'
      BY <1>0, <1>5 DEF Downloaded, DownloadFailed, BuildFailed, Pruned, vars, FetchSteps, PruneSteps
    <2>2. VerifiedIntact'
      <3>1. \A q \in Procs : InUse(q)' \subseteq InUse(q)
        BY <1>5 DEF Downloaded, DownloadFailed, BuildFailed, Pruned, vars, InUse
      <3>2. QED
        BY <1>0, <3>1, NothingLost
    <2>3. QED
      BY <1>0, <1>1, <2>1, <2>2
  <1>6. CASE Injected(p)
    <2>1. BuildTypeOK' /\ CallsStaged' /\ LockHeld'
      BY <1>0, <1>6 DEF Injected, vars, FetchSteps, PruneSteps
    <2>2. VerifiedIntact'
      <3>1. \A q \in Procs : InUse(q)' \subseteq InUse(q)
        BY <1>6 DEF Injected, vars, InUse
      <3>2. QED
        BY <1>0, <3>1, NothingLost
    <2>3. QED
      BY <1>0, <1>1, <2>1, <2>2
  <1>7. CASE Unlock(p)
    <2>0. \A q \in Procs \ {p} : cmd[q] \in {"none", "lock"} /\ verified[q] = {}
      BY <1>7, Alone DEF Unlock
    <2>1a. BuildTypeOK'
      BY <1>0, <1>7 DEF Unlock, Exit
    <2>1b. CallsStaged'
      BY <1>0, <1>7 DEF Unlock, Exit
    <2>1c. LockHeld'
      BY <1>0, <1>7, <2>0 DEF Unlock, StoreInv, TypeOK
    <2>1. BuildTypeOK' /\ CallsStaged' /\ LockHeld'
      BY <2>1a, <2>1b, <2>1c
    <2>2. VerifiedIntact'
      <3>1. \A q \in Procs : InUse(q)' \subseteq InUse(q)
        BY <1>7 DEF Unlock, StoreInv, TypeOK, InUse
      <3>2. QED
        BY <1>0, <3>1, NothingLost
    <2>3. QED
      BY <1>0, <1>1, <2>1, <2>2
  <1>8. QED
    BY <1>2, <1>3, <1>4, <1>5, <1>6, <1>7 DEF QuietCommandStep

\* The command's typing beyond the store's.
CommandTypeOK ==
    /\ lock \in Procs \cup {None}
    /\ cmd \in [Procs -> Stages]
    /\ plan \in [Procs -> Seq(Requests)]
    /\ needs \in [Procs -> SUBSET (Digests \cup {None})]
    /\ outcome \in [Procs -> {None, Done, Failed}]
    /\ started \in Nat

\* The two commands that call the store: Download and StartPrune.
LEMMA DownloadInv ==
    ASSUME NEW p \in Procs, BuildInv, Download(p)
    PROVE  BuildInv'
  <1> USE DEF BuildInv, Stage
  <1>1. PICK r \in Requests : Fetch(p, r)
    BY DEF Download, BuildTypeOK
  <1>2. StoreInv' /\ TypeOK'
    BY <1>1, FetchCallType, FetchCallFiles DEF StoreInv, FilesInv
  <1>3. /\ UNCHANGED <<blob, content, verified, lock, plan>>
        /\ cmd' = [cmd EXCEPT ![p] = "fetch"]
        /\ pc' = [pc EXCEPT ![p] = IF r.want = None THEN "request" ELSE "inspect"]
        /\ \A q \in Procs \ {p} : digest'[q] = digest[q]
        /\ cmd[p] = "build" /\ plan[p] # <<>>
    BY <1>1 DEF Download, Fetch, fs, StoreInv, TypeOK
  <1>4. BuildTypeOK'
    BY <1>2, <1>3 DEF Download, BuildTypeOK, Stages
  <1>5. CallsStaged' /\ LockHeld'
    BY <1>3 DEF CallsStaged, LockHeld, BuildTypeOK, StoreInv, TypeOK, FetchSteps, PruneSteps
  <1>6. DiscardsBad'
    BY <1>3 DEF DiscardsBad, Good, StoreInv, TypeOK
  <1>7. VerifiedIntact'
    <2>1. \A q \in Procs : InUse(q)' \subseteq InUse(q)
      BY <1>3 DEF InUse, BuildTypeOK
    <2>2. QED
      BY <1>3, <2>1, NothingLost
  <1>8. QED
    BY <1>2, <1>4, <1>5, <1>6, <1>7

LEMMA StartPruneInv ==
    ASSUME NEW p \in Procs, BuildInv, StartPrune(p)
    PROVE  BuildInv'
  <1> USE DEF BuildInv, Stage
  <1>1. StoreInv' /\ TypeOK'
    BY PruneType, PruneFiles DEF StartPrune, StoreInv, FilesInv
  <1>2. /\ UNCHANGED <<blob, content, verified, digest, lock, plan>>
        /\ cmd' = [cmd EXCEPT ![p] = "prune"]
        /\ pc' = [pc EXCEPT ![p] = "evict"] \/ pc' = pc
        /\ cmd[p] = "build"
    BY DEF StartPrune, Prune, fs, fetch
  <1>3. BuildTypeOK'
    BY <1>1, <1>2 DEF StartPrune, BuildTypeOK, Stages
  <1>4. CallsStaged' /\ LockHeld'
    BY <1>2 DEF CallsStaged, LockHeld, BuildTypeOK, StoreInv, TypeOK, FetchSteps, PruneSteps
  <1>5. DiscardsBad'
    BY <1>2 DEF DiscardsBad, Good, StoreInv, TypeOK
  <1>6. VerifiedIntact'
    <2>1. \A q \in Procs : InUse(q)' \subseteq InUse(q)
      BY <1>2 DEF InUse, BuildTypeOK
    <2>2. QED
      BY <1>2, <2>1, NothingLost
  <1>7. QED
    BY <1>1, <1>3, <1>4, <1>5, <1>6

\* Which steps of a call follow which.
LEMMA FetchStepPc ==
    ASSUME NEW p \in Procs, TypeOK, FetchStep(p)
    PROVE  /\ pc[p] \in FetchSteps \cup {"return"}
           /\ \E s \in FetchSteps \cup {"return", "idle"} : pc' = [pc EXCEPT ![p] = s]
           /\ \A q \in Procs \ {p} : digest'[q] = digest[q]
  <1> USE DEF TypeOK, FetchSteps
  <1>1. CASE Inspect(p) \/ Hash(p)
    BY <1>1 DEF Inspect, Hash, Unusable, fetch
  <1>2. CASE Discard(p) \/ Request(p) \/ Copy(p)
    BY <1>2 DEF Discard, Request, Copy, fetch
  <1>3. CASE Link(p) \/ Relink(p)
    BY <1>3 DEF Link, Relink, LinkOr
  <1>4. CASE Touch(p) \/ FetchFails(p) \/ Return(p)
    BY <1>4 DEF Touch, FetchFails, Return, FetchLocalsDie, fetch
  <1>5. QED
    BY <1>1, <1>2, <1>3, <1>4 DEF FetchStep

LEMMA PruneStepPc ==
    ASSUME NEW p \in Procs, TypeOK, PruneStep(p)
    PROVE  /\ pc[p] \in PruneSteps
           /\ \E s \in PruneSteps \cup {"idle"} : pc' = [pc EXCEPT ![p] = s]
           /\ UNCHANGED <<content, digest, verified>>
           /\ \E d : blob' = [blob EXCEPT ![d] = None] \/ blob' = blob
  <1> USE DEF TypeOK, PruneSteps
  <1>1. CASE PruneEnd(p) \/ PruneInterrupted(p) \/ EvictFails(p)
    BY <1>1 DEF PruneEnd, PruneInterrupted, PruneReturns, EvictFails, fs, fetch
  <1>2. CASE Evict(p) \/ Forget(p)
    BY <1>2 DEF Evict, Forget, fetch
  <1>3. QED
    BY <1>1, <1>2 DEF PruneStep

LEMMA FetchStepInv ==
    ASSUME NEW p \in Procs, BuildInv, FetchStep(p), UNCHANGED command
    PROVE  BuildInv'
  <1> USE DEF BuildInv, command
  <1>1. StoreInv' /\ TypeOK'
    BY FetchStepType, FetchStepFiles DEF StoreInv, FilesInv
  <1>2. TypeOK /\ TypeOK' /\ pc[p] \in FetchSteps \cup {"return"} /\ cmd[p] = "fetch"
    BY <1>1, FetchStepPc DEF StoreInv, CallsStaged
  <1>3. \A q \in Procs \ {p} :
            /\ cmd[q] \in {"none", "lock"} /\ verified[q] = {}
            /\ pc[q] = "idle" /\ InUse(q) = {}
    BY <1>2, Alone
  <1>4. /\ \A d \in Digests : Good(d) => Good(d)'
        /\ \A d \in verified'[p] \ verified[p] : Good(d)'
        /\ \A q \in Procs \ {p} : verified'[q] = verified[q]
    BY FetchStepGood DEF DiscardsBad
  <1>5. BuildTypeOK'
    BY <1>1 DEF BuildTypeOK
  <1>6. PICK s \in FetchSteps \cup {"return", "idle"} : pc' = [pc EXCEPT ![p] = s]
    BY <1>2, FetchStepPc
  <1>7. CallsStaged'
    BY <1>2, <1>3, <1>6 DEF CallsStaged, TypeOK, FetchSteps, PruneSteps
  <1>8. LockHeld'
    BY <1>2, <1>3, <1>4 DEF LockHeld
  <1>9. DiscardsBad'
    <2>1. \A q \in Procs \ {p} : pc'[q] = "idle"
      BY <1>2, <1>3, <1>6 DEF TypeOK
    <2>2. pc'[p] = "discard" => ~Good(digest[p])'
      BY FetchStepDiscards
    <2>3. QED
      BY <2>1, <2>2 DEF DiscardsBad
  <1>10. VerifiedIntact'
    <2>1. \A q \in Procs \ {p} : InUse(q)' = {}
      BY <1>3, <1>4 DEF InUse
    <2>2. \A d \in InUse(p)' : Good(d)'
      BY <1>2, <1>4 DEF InUse, VerifiedIntact, TypeOK
    <2>3. QED
      BY <2>1, <2>2 DEF VerifiedIntact
  <1>11. QED
    BY <1>1, <1>5, <1>7, <1>8, <1>9, <1>10

LEMMA PruneStepInv ==
    ASSUME NEW p \in Procs, BuildInv, PruneStep(p), UNCHANGED command
    PROVE  BuildInv' /\ \A q \in Procs : InUse(q) = {} /\ InUse(q)' = {}
  <1> USE DEF BuildInv, command
  <1>1. StoreInv' /\ TypeOK'
    BY PruneStepType, PruneStepFiles DEF StoreInv, FilesInv
  <1>2. TypeOK /\ pc[p] \in PruneSteps /\ cmd[p] = "prune"
    BY PruneStepPc DEF StoreInv, CallsStaged
  <1>3. PICK s \in PruneSteps \cup {"idle"} : pc' = [pc EXCEPT ![p] = s]
    BY <1>2, PruneStepPc
  <1>4. UNCHANGED <<content, digest, verified>>
    BY <1>2, PruneStepPc
  <1>5. \A q \in Procs \ {p} : cmd[q] \in {"none", "lock"} /\ pc[q] = "idle"
    BY <1>2, Alone
  <1>6. BuildTypeOK'
    BY <1>1 DEF BuildTypeOK
  <1>7. CallsStaged' /\ LockHeld'
    BY <1>2, <1>3, <1>4, <1>5 DEF CallsStaged, LockHeld, TypeOK, FetchSteps, PruneSteps
  <1>8. DiscardsBad'
    BY <1>2, <1>3, <1>5 DEF DiscardsBad, TypeOK, PruneSteps
  <1>9. \A q \in Procs : InUse(q) = {} /\ InUse(q)' = {}
    BY <1>2, <1>5 DEF InUse
  <1>10. QED
    BY <1>1, <1>6, <1>7, <1>8, <1>9 DEF VerifiedIntact

LEMMA KillInv ==
    ASSUME NEW p \in Procs, BuildInv, Kill(p)
    PROVE  BuildInv'
  <1> USE DEF BuildInv
  <1>1. StoreInv' /\ TypeOK'
    BY DeathType, DeathFiles DEF Kill, StoreInv, FilesInv
  <1>2. /\ UNCHANGED <<blob, content>>
        /\ verified' = [verified EXCEPT ![p] = {}]
        /\ pc' = [pc EXCEPT ![p] = "idle"]
        /\ cmd' = [cmd EXCEPT ![p] = "none"]
        /\ plan' = [plan EXCEPT ![p] = <<>>]
        /\ lock' = IF lock = p THEN None ELSE lock
        /\ digest' = [digest EXCEPT ![p] = None]
    BY DEF Kill, ProcessDies, FetchLocalsDie, Exit, fs
  <1>3. BuildTypeOK'
    BY <1>1, <1>2 DEF BuildTypeOK, Stages, Kill, Decide, Exit
  <1>4. CallsStaged' /\ LockHeld'
    BY <1>2 DEF CallsStaged, LockHeld, BuildTypeOK, StoreInv, TypeOK, FetchSteps, PruneSteps
  <1>5. DiscardsBad'
    BY <1>2 DEF DiscardsBad, Good, StoreInv, TypeOK
  <1>6. VerifiedIntact'
    <2>1. \A q \in Procs : InUse(q)' \subseteq InUse(q)
      BY <1>2 DEF InUse, BuildTypeOK, StoreInv, TypeOK
    <2>2. QED
      BY <1>2, <2>1, NothingLost
  <1>7. QED
    BY <1>1, <1>3, <1>4, <1>5, <1>6

LEMMA DamageInv ==
    ASSUME NEW d \in Fragile, BuildInv, Damage(d), UNCHANGED command
    PROVE  BuildInv'
  <1> USE DEF BuildInv, command
  <1>0. d \in Digests
    BY FragileAssumption
  <1>1. StoreInv' /\ TypeOK'
    BY <1>0, DamageType, DamageFiles DEF StoreInv, FilesInv
  <1>2. /\ ~Good(d)'
        /\ \A e \in Digests \ {d} : Good(e)' <=> Good(e)
    BY <1>0, DamageGood
  <1>3. /\ \A p \in Procs : verified'[p] = verified[p] \ {d}
        /\ UNCHANGED <<pc, digest>>
    BY DEF Damage, fetch
  <1>4. BuildTypeOK'
    BY <1>1 DEF BuildTypeOK
  <1>5. CallsStaged' /\ LockHeld'
    BY <1>3 DEF CallsStaged, LockHeld
  <1>6. DiscardsBad'
    BY <1>2, <1>3 DEF DiscardsBad, StoreInv, PathNamed, OnPath
  <1>7. VerifiedIntact'
    BY <1>2, <1>3 DEF VerifiedIntact, InUse, StoreInv, TypeOK
  <1>8. QED
    BY <1>1, <1>4, <1>5, <1>6, <1>7

LEMMA BuildInvNext == BuildInv /\ [BuildNext]_allVars => BuildInv'
  <1> SUFFICES ASSUME BuildInv, [BuildNext]_allVars
               PROVE  BuildInv'
    OBVIOUS
  <1>1. ASSUME NEW p \in Procs, Start(p) \/ GiveUp(p) \/ CommandStep(p)
        PROVE  BuildInv'
    BY <1>1, QuietCommandInv, DownloadInv, StartPruneInv DEF CommandStep, QuietCommandStep
  <1>2. ASSUME NEW p \in Procs, StoreStep(p)
        PROVE  BuildInv'
    BY <1>2, FetchStepInv, PruneStepInv DEF StoreStep
  <1>3. ASSUME NEW p \in Procs, Kill(p)
        PROVE  BuildInv'
    BY <1>3, KillInv
  <1>4. CASE Disturb
    BY <1>4, DamageInv DEF Disturb
  <1>5. CASE UNCHANGED allVars
    <2>1. UNCHANGED vars /\ UNCHANGED command
      BY <1>5 DEF allVars
    <2>2. TypeOK'
      BY <2>1 DEF BuildInv, StoreInv, TypeOK, vars, fs, fetch, prune
    <2>3. StoreInv'
      BY <2>1, <2>2, QuietStep DEF BuildInv, vars
    <2>4. QED
      BY <2>1, <2>2, <2>3 DEF BuildInv, BuildTypeOK, CallsStaged, LockHeld, DiscardsBad,
         VerifiedIntact, InUse, Good, vars, fs, fetch, command
  <1>6. QED
    BY <1>1, <1>2, <1>3, <1>4, <1>5 DEF BuildNext

LEMMA BuildInvHolds == BuildSpec => []BuildInv
  BY BuildInvInit, BuildInvNext, PTL DEF BuildSpec

-----------------------------------------------------------------------------
(* Theorems *)

\* The composed model is type correct.
THEOREM BuildTypeCorrect == BuildSpec => []BuildTypeOK
  BY BuildInvHolds, PTL DEF BuildInv

\* The flock of withLockedCache excludes every other command from the store.
THEOREM LockExcludes == BuildSpec => []OnlyHolderInside
  <1>1. BuildInv => OnlyHolderInside
    BY DEF BuildInv, LockHeld, CallsStaged, OnlyHolderInside, BuildTypeOK, StoreInv, TypeOK
  <1>2. QED
    BY <1>1, BuildInvHolds, PTL

\* An image a build works from stays intact until its artifacts are built.
THEOREM ImagesStayIntact == BuildSpec => []VerifiedIntact
  BY BuildInvHolds, PTL DEF BuildInv

\* Under the lock, Fetch never removes or changes a good blob.
THEOREM FetchDestroysNothing == BuildSpec => FetchKeepsGoodBlobs
  <1>1. BuildInv /\ [BuildNext]_allVars =>
          [\A p \in Procs : FetchStep(p) => \A d \in Digests : Good(d) => Good(d)']_allVars
    BY FetchStepGood DEF BuildInv, DiscardsBad
  <1>2. QED
    BY <1>1, BuildInvHolds, PTL DEF BuildSpec, FetchKeepsGoodBlobs

\* The refinement mapping of Cache.
Cached == {d \in Digests : Good(d)}
Users  == [p \in Procs |-> InUse(p)]

LEMMA LetGoSimulation ==
    ASSUME NEW p \in Procs, UNCHANGED <<blob, content>>,
           \A q \in Procs \ {p} : InUse(q)' = InUse(q), InUse(p)' \in {InUse(p), {}}
    PROVE  [Cache!Next]_(Cache!vars)
  <1>1. Cached' = Cached
    BY DEF Cached, Good
  <1>2. Users' = Users \/ Users' = [Users EXCEPT ![p] = {}]
    BY DEF Users
  <1>3. QED
    BY <1>1, <1>2 DEF Cached, Users, Cache!Next, Cache!LetGo, Cache!vars

LEMMA CommandSimulation ==
    ASSUME NEW p \in Procs, BuildInv, Start(p) \/ GiveUp(p) \/ CommandStep(p)
    PROVE  [Cache!Next]_(Cache!vars)
  <1>1. UNCHANGED <<blob, content>>
    <2>1. CASE QuietCommandStep(p)
      BY <2>1, QuietStore DEF fs
    <2>2. CASE Download(p) \/ StartPrune(p)
      BY <2>2 DEF Download, Fetch, StartPrune, Prune, fs
    <2>3. QED
      BY <2>1, <2>2 DEF CommandStep, QuietCommandStep
  <1>2. /\ \A q \in Procs \ {p} : InUse(q)' = InUse(q)
        /\ InUse(p)' \in {InUse(p), {}}
    <2> USE DEF InUse, Stage, BuildInv, BuildTypeOK, StoreInv, TypeOK
    <2>1. CASE Unlock(p)
      BY <2>1 DEF Unlock
    <2>2. CASE Download(p) \/ StartPrune(p)
      BY <2>2 DEF Download, Fetch, StartPrune, Prune
    <2>3. CASE Start(p) \/ Acquire(p) \/ GiveUp(p)
      BY <2>3 DEF Start, Acquire, GiveUp, vars, LockHeld
    <2>4. CASE Downloaded(p) \/ DownloadFailed(p) \/ Injected(p) \/ BuildFailed(p) \/ Pruned(p)
      BY <2>4 DEF Downloaded, DownloadFailed, Injected, BuildFailed, Pruned, vars
    <2>5. QED
      BY <2>1, <2>2, <2>3, <2>4 DEF CommandStep
  <1>3. QED
    BY <1>1, <1>2, LetGoSimulation

LEMMA FetchSimulation ==
    ASSUME NEW p \in Procs, BuildInv, FetchStep(p), UNCHANGED command
    PROVE  [Cache!Next]_(Cache!vars)
  <1>1. cmd[p] = "fetch" /\ cmd'[p] = "fetch"
    BY FetchStepPc DEF BuildInv, StoreInv, CallsStaged, command
  <1>2. \A q \in Procs \ {p} : InUse(q) = {} /\ cmd'[q] \notin {"build", "fetch", "inject"}
    BY <1>1, Alone DEF command
  <1>3. \A q \in Procs \ {p} : InUse(q)' = {}
    BY <1>2 DEF InUse
  <1>4. InUse(p) = verified[p] /\ InUse(p)' = verified'[p]
    BY <1>1 DEF InUse
  <1>5. CASE UNCHANGED verified /\ \A d \in Digests : Good(d)' <=> Good(d)
    <2>1. Cached' = Cached
      BY <1>5 DEF Cached
    <2>2. Users' = Users
      BY <1>2, <1>3, <1>4, <1>5 DEF Users
    <2>3. QED
      BY <2>1, <2>2 DEF Cached, Users, Cache!vars
  <1>6. ASSUME NEW m \in Digests,
               verified' = [verified EXCEPT ![p] = @ \cup {m}], Good(m)',
               \A d \in Digests \ {m} : Good(d)' <=> Good(d)
        PROVE  [Cache!Next]_(Cache!vars)
    <2>1. Cached' = Cached \cup {m}
      BY <1>6 DEF Cached
    <2>2. verified'[p] = verified[p] \cup {m}
      BY <1>6 DEF BuildInv, StoreInv, TypeOK
    <2>3. Users' = [Users EXCEPT ![p] = @ \cup {m}]
      BY <1>2, <1>3, <1>4, <2>2 DEF Users
    <2>4. \A q \in Procs \ {p} : Users[q] = {}
      BY <1>2 DEF Users
    <2>5. QED
      BY <2>1, <2>3, <2>4 DEF Cached, Users, Cache!Next, Cache!Obtain
  <1>7. QED
    BY <1>5, <1>6, FetchStepEffect DEF BuildInv, DiscardsBad

LEMMA PruneSimulation ==
    ASSUME NEW p \in Procs, BuildInv, PruneStep(p), UNCHANGED command
    PROVE  [Cache!Next]_(Cache!vars)
  <1>1. \A q \in Procs : InUse(q) = {} /\ InUse(q)' = {}
    BY PruneStepInv
  <1>2. PICK d : blob' = [blob EXCEPT ![d] = None] \/ blob' = blob
    BY PruneStepPc DEF BuildInv, StoreInv
  <1>3. UNCHANGED content
    BY PruneStepPc DEF BuildInv, StoreInv
  <1>4. Users' = Users /\ \A q \in Procs : Users[q] = {}
    BY <1>1 DEF Users
  <1>5. Cached' = Cached \/ (d \in Digests /\ Cached' = Cached \ {d})
    BY <1>2, <1>3, NotInodes DEF Cached, Good, BuildInv, StoreInv, TypeOK
  <1>6. QED
    BY <1>4, <1>5 DEF Cached, Users, Cache!Next, Cache!Drop, Cache!vars

LEMMA DamageSimulation ==
    ASSUME NEW d \in Fragile, BuildInv, Damage(d), UNCHANGED command
    PROVE  [Cache!Next]_(Cache!vars)
  <1>1. d \in Digests
    BY FragileAssumption
  <1>2. Cached' = Cached \ {d}
    BY <1>1, DamageGood DEF Cached, BuildInv
  <1>3. Users' = [q \in Procs |-> Users[q] \ {d}]
    BY DEF Users, InUse, Damage, command
  <1>4. QED
    BY <1>2, <1>3 DEF Cached, Users, Cache!Next, Cache!Spoil

\* One step of the locked cache is a step of VerifiedCache or a stutter.
LEMMA StepSimulation == BuildInv /\ [BuildNext]_allVars => [Cache!Next]_(Cache!vars)
  <1> SUFFICES ASSUME BuildInv, [BuildNext]_allVars
               PROVE  [Cache!Next]_(Cache!vars)
    OBVIOUS
  <1>1. ASSUME NEW p \in Procs, Kill(p)
        PROVE  [Cache!Next]_(Cache!vars)
    <2>1. UNCHANGED <<blob, content>>
      BY <1>1 DEF Kill, ProcessDies, fs
    <2>2. /\ \A q \in Procs \ {p} : InUse(q)' = InUse(q)
          /\ InUse(p)' = {}
      BY <1>1 DEF Kill, ProcessDies, InUse, BuildInv, BuildTypeOK, StoreInv, TypeOK
    <2>3. QED
      BY <2>1, <2>2, LetGoSimulation
  <1>2. CASE UNCHANGED allVars
    BY <1>2 DEF allVars, vars, fs, command, Cache!vars, Good, InUse
  <1>3. QED
    BY <1>1, <1>2, CommandSimulation, FetchSimulation, PruneSimulation, DamageSimulation
       DEF BuildNext, StoreStep, Disturb

\* The blob store behind its lock implements VerifiedCache.
THEOREM CacheImplemented == BuildSpec => ImplementsCache
  <1>1. BuildInit => Cache!Init
    BY DEF BuildInit, Init, InUse, Cache!Init
  <1>2. QED
    BY <1>1, StepSimulation, BuildInvHolds, PTL DEF BuildSpec, ImplementsCache, Cache!Spec

-----------------------------------------------------------------------------
(* A process sees only its own steps, and damage, once it has the lock *)

\* What of the state belongs to p alone.
Local(p) ==
    <<cmd[p], plan[p], needs[p], outcome[p], pc[p], req[p], digest[p], result[p],
      todo[p], left[p], verified[p]>>

ActorStep(p) == Start(p) \/ CommandStep(p) \/ GiveUp(p) \/ StoreStep(p) \/ Kill(p)

LEMMA FetchLocal ==
    ASSUME BuildInv, NEW p \in Procs, NEW q \in Procs \ {p}, FetchStep(q)
    PROVE  UNCHANGED <<pc[p], req[p], digest[p], result[p], todo[p], left[p], verified[p]>>
  <1> USE DEF BuildInv, StoreInv, TypeOK, fetch, prune
  <1>1. CASE Inspect(q) \/ Hash(q)
    BY <1>1 DEF Inspect, Hash, Unusable
  <1>2. CASE Discard(q) \/ Request(q)
    BY <1>2 DEF Discard, Request
  <1>3. CASE Copy(q)
    BY <1>3 DEF Copy
  <1>4. CASE Link(q) \/ Relink(q)
    BY <1>4 DEF Link, Relink, LinkOr
  <1>5. CASE Touch(q) \/ FetchFails(q) \/ Return(q)
    BY <1>5 DEF Touch, FetchFails, Return, FetchLocalsDie
  <1>6. QED
    BY <1>1, <1>2, <1>3, <1>4, <1>5 DEF FetchStep

LEMMA PruneLocal ==
    ASSUME BuildInv, NEW p \in Procs, NEW q \in Procs \ {p}, PruneStep(q)
    PROVE  UNCHANGED <<pc[p], req[p], digest[p], result[p], todo[p], left[p], verified[p]>>
  <1> USE DEF BuildInv, StoreInv, TypeOK, fetch, prune
  <1>1. CASE PruneEnd(q) \/ PruneInterrupted(q) \/ EvictFails(q)
    BY <1>1 DEF PruneEnd, PruneInterrupted, PruneReturns, EvictFails
  <1>2. CASE Evict(q) \/ Forget(q)
    BY <1>2 DEF Evict, Forget
  <1>3. QED
    BY <1>1, <1>2 DEF PruneStep

LEMMA OthersLocal ==
    ASSUME BuildInv, NEW p \in Procs, NEW q \in Procs \ {p}, ActorStep(q)
    PROVE  Local(p)' = Local(p)
  <1> USE DEF BuildInv, BuildTypeOK, StoreInv, TypeOK, Stage, Decide, Exit, fetch, prune
  <1>1. CASE StoreStep(q)
    BY <1>1, FetchLocal, PruneLocal DEF StoreStep, Local, command
  <1>2. CASE Start(q) \/ Acquire(q) \/ GiveUp(q)
    BY <1>2 DEF Start, Acquire, GiveUp, Local, vars
  <1>3. CASE Downloaded(q) \/ DownloadFailed(q) \/ Injected(q) \/ BuildFailed(q) \/ Pruned(q)
    BY <1>3 DEF Downloaded, DownloadFailed, Injected, BuildFailed, Pruned, Local, vars
  <1>4. CASE Download(q)
    BY <1>4 DEF Download, Fetch, PruneLocalsDie, Local
  <1>5. CASE StartPrune(q)
    BY <1>5 DEF StartPrune, Prune, Local
  <1>6. CASE Unlock(q)
    BY <1>6 DEF Unlock, PruneLocalsDie, Local
  <1>7. CASE Kill(q)
    BY <1>7 DEF Kill, ProcessDies, FetchLocalsDie, PruneLocalsDie, Local
  <1>8. QED
    BY <1>1, <1>2, <1>3, <1>4, <1>5, <1>6, <1>7 DEF ActorStep, CommandStep

\* While p holds the lock no other process touches a file.
LEMMA OthersQuiet ==
    ASSUME BuildInv, NEW p \in Procs, cmd[p] \notin {"none", "lock"},
           NEW q \in Procs \ {p}, ActorStep(q)
    PROVE  UNCHANGED fs /\ Local(p)' = Local(p)
  <1>1. cmd[q] \in {"none", "lock"} /\ pc[q] = "idle" /\ lock = p
    BY Alone DEF BuildInv, LockHeld
  <1>2. Start(q) \/ GiveUp(q) \/ Kill(q)
    <2>1. ~StoreStep(q)
      BY <1>1, FetchStepPc, PruneStepPc DEF StoreStep, BuildInv, StoreInv, FetchSteps, PruneSteps
    <2>2. ~CommandStep(q)
      BY <1>1, ProcsAssumption
         DEF CommandStep, Acquire, Download, Downloaded, DownloadFailed, Injected, BuildFailed,
             StartPrune, Pruned, Unlock, Stage
    <2>3. QED
      BY <2>1, <2>2 DEF ActorStep
  <1>3. UNCHANGED fs
    BY <1>2 DEF Start, GiveUp, Kill, ProcessDies, vars
  <1>4. QED
    BY <1>3, OthersLocal

-----------------------------------------------------------------------------
(* The prune leaves the store within the cap *)

LEMMA FiveAtMost ==
    ASSUME NEW a, NEW b, NEW c, NEW d, NEW e
    PROVE  Cardinality({a, b, c, d, e}) <= 5
  <1>1. IsFiniteSet({a}) /\ Cardinality({a}) = 1
    BY FS_Singleton
  <1>2. IsFiniteSet({a} \cup {b}) /\ Cardinality({a} \cup {b}) \in 0..2
    BY <1>1, FS_AddElement
  <1>3. IsFiniteSet({a} \cup {b} \cup {c}) /\ Cardinality({a} \cup {b} \cup {c}) \in 0..3
    BY <1>2, FS_AddElement
  <1>4. IsFiniteSet({a} \cup {b} \cup {c} \cup {d}) /\ Cardinality({a} \cup {b} \cup {c} \cup {d}) \in 0..4
    BY <1>3, FS_AddElement
  <1>5. Cardinality({a} \cup {b} \cup {c} \cup {d} \cup {e}) \in 0..5
    BY <1>4, FS_AddElement
  <1>6. {a, b, c, d, e} = {a} \cup {b} \cup {c} \cup {d} \cup {e}
    OBVIOUS
  <1>7. QED
    BY <1>5, <1>6

LEMMA OutcomesDiffer == Failed # Done /\ Failed # None /\ Done # None
  <1> DEFINE all == NotFile \cup NoDigest \cup Outcomes
  <1>1. Cardinality(all) = 6
    BY SentinelsAssumption
  <1>2. /\ Failed = Done \/ Failed = None => all = {None, Odd, Partial, Rotten, Done}
        /\ Done = None => all = {None, Odd, Partial, Rotten, Failed}
    OBVIOUS
  <1>3. /\ Cardinality({None, Odd, Partial, Rotten, Done}) # 6
        /\ Cardinality({None, Odd, Partial, Rotten, Failed}) # 6
    <2>1. Cardinality({None, Odd, Partial, Rotten, Done}) <= 5
      BY FiveAtMost
    <2>2. Cardinality({None, Odd, Partial, Rotten, Failed}) <= 5
      BY FiveAtMost
    <2>3. QED
      BY <2>1, <2>2
  <1>4. QED
    BY <1>1, <1>2, <1>3

\* Damage from outside never makes a file larger.
DamageShrinks == \A d \in Fragile : RottenSize <= Size[d]

LEMMA FileSizeType ==
    ASSUME TypeOK, NEW d \in Digests, blob[d] \in Inodes
    PROVE  FileSize(blob[d]) \in Nat
  BY SizesAssumption DEF TypeOK, FileSize

LEMMA CandidatesFinite ==
    /\ IsFiniteSet(PruneCandidates)
    /\ \A c, e \in PruneCandidates : c.digest = e.digest => c = e
  <1> DEFINE D == {e \in Digests : blob[e] \in Inodes}
             h == [d \in D |-> [digest |-> d, size |-> FileSize(blob[d]), used |-> LastUsed(d)]]
  <1>1. IsFiniteSet(D)
    BY DigestsAssumption, FS_Subset
  <1>2. h \in Surjection(D, PruneCandidates)
    BY DEF Surjection, PruneCandidates
  <1>3. QED
    BY <1>1, <1>2, FS_Surjection DEF PruneCandidates

\* What left accounts for bounds what is there.
LEMMA CoveredFits ==
    ASSUME NEW p \in Procs, TypeOK, LeftCovers(p)
    PROVE  /\ StoreSize <= TotalSize(left[p])
           /\ Cardinality(PruneCandidates) <= Cardinality(left[p])
  <1> DEFINE P == PruneCandidates
             L == left[p]
             f == [c \in P |-> c.size]
             g == [c \in L |-> c.size]
             h == [c \in P |-> CHOOSE e \in L : e.digest = c.digest /\ c.size <= e.size]
  <1>1. P \subseteq Candidate /\ L \subseteq Candidate
    BY PruneCandidatesType DEF TypeOK
  <1>2. f \in [P -> Nat] /\ g \in [L -> Nat]
    BY <1>1 DEF Candidate
  <1>3. \A c \in P : h[c] \in L /\ h[c].digest = c.digest /\ c.size <= h[c].size
    <2> SUFFICES ASSUME NEW d \in Digests, blob[d] \in Inodes
                 PROVE  \E e \in L : e.digest = d /\ FileSize(blob[d]) <= e.size
      BY DEF PruneCandidates
    <2>1. QED
      BY DEF LeftCovers, CandidatesDiffer
  <1>4. h \in Injection(P, L)
    <2>1. h \in [P -> L]
      BY <1>3
    <2>2. \A a, b \in P : h[a] = h[b] => a = b
      BY <1>3, CandidatesFinite
    <2> HIDE DEF h
    <2>3. QED
      BY <2>1, <2>2 DEF Injection, IsInjective
  <1>5. IsFiniteSet(L)
    BY DEF LeftCovers, CandidatesDiffer
  <1>6. \A c \in P : f[c] <= g[h[c]]
    BY <1>3
  <1> HIDE DEF P, L, f, g, h
  <1>7. Total(f) <= Total(g)
    BY <1>2, <1>4, <1>5, <1>6, TotalInjection
  <1>8. Cardinality(P) <= Cardinality(L)
    BY <1>4, <1>5, FS_Injection
  <1>9. QED
    BY <1>7, <1>8 DEF P, L, f, g, StoreSize, TotalSize

LEMMA StoreSizeType ==
    ASSUME TypeOK
    PROVE  StoreSize \in Nat /\ Cardinality(PruneCandidates) \in Nat
  <1> DEFINE f == [c \in PruneCandidates |-> c.size]
  <1>1. f \in [PruneCandidates -> Nat]
    BY PruneCandidatesType DEF Candidate
  <1>2. IsFiniteSet(Bytes(f, PruneCandidates)) /\ Total(f) = Cardinality(Bytes(f, PruneCandidates))
    BY <1>1, CandidatesFinite, BytesFinite, TotalCounts
  <1>3. QED
    BY <1>2, CandidatesFinite, FS_CardinalityType DEF StoreSize, TotalSize

LEMMA LeftSizeType ==
    ASSUME NEW p \in Procs, TypeOK, IsFiniteSet(left[p])
    PROVE  TotalSize(left[p]) \in Nat /\ Cardinality(left[p]) \in Nat
  <1> DEFINE f == [c \in left[p] |-> c.size]
  <1>1. f \in [left[p] -> Nat]
    BY DEF TypeOK, Candidate
  <1>2. IsFiniteSet(Bytes(f, left[p])) /\ Total(f) = Cardinality(Bytes(f, left[p]))
    BY <1>1, BytesFinite, TotalCounts
  <1>3. QED
    BY <1>2, FS_CardinalityType DEF TotalSize

\* A prune that ends leaves what it says.
LEMMA CoversFits ==
    ASSUME BuildInv, PruneCovers
    PROVE  PrunedFits
  <1> SUFFICES ASSUME NEW p \in Procs, cmd[p] = "prune", pc[p] = "idle", result[p] = Done,
                      Cap # 0
               PROVE  \/ StoreSize <= Cap
                      \/ Cardinality(PruneCandidates) <= 1
                      \/ \A d \in Digests : blob[d] \in Inodes => \E c \in Stuck(p) : c.digest = d
    BY DEF PrunedFits
  <1>1. TypeOK /\ LeftCovers(p)
    BY DEF BuildInv, StoreInv, PruneCovers
  <1>2. /\ StoreSize <= TotalSize(left[p])
        /\ Cardinality(PruneCandidates) <= Cardinality(left[p])
        /\ StoreSize \in Nat /\ Cardinality(PruneCandidates) \in Nat
        /\ TotalSize(left[p]) \in Nat /\ Cardinality(left[p]) \in Nat
    BY <1>1, CoveredFits, StoreSizeType, LeftSizeType DEF LeftCovers, CandidatesDiffer
  <1>3. todo[p] = {} \/ PruneStops(p)
    BY DEF PruneCovers
  <1>4. todo[p] = {} => \A d \in Digests : blob[d] \in Inodes => \E c \in Stuck(p) : c.digest = d
    BY <1>1 DEF LeftCovers, Stuck
  <1>5. QED
    BY <1>2, <1>3, <1>4, CapAssumption DEF PruneStops

\* The walk finds every file.
LEMMA PruneStartsCovered ==
    ASSUME NEW p \in Procs, BuildInv, StartPrune(p), Cap # 0
    PROVE  /\ LeftCovers(p)'
           /\ pc'[p] = "idle" /\ result'[p] = Done => PruneStops(p)'
  <1> USE DEF BuildInv, StoreInv, TypeOK
  <1>1. /\ todo'[p] = PruneCandidates /\ left'[p] = PruneCandidates
        /\ UNCHANGED <<blob, content>>
        /\ pc[p] = "idle" /\ pc'[p] # "forget"
    BY DEF StartPrune, Prune, fs
  <1>2. ASSUME NEW d \in Digests, blob[d] \in Inodes
        PROVE  \E c \in PruneCandidates : c.digest = d /\ FileSize(blob[d]) <= c.size
    <2> DEFINE c == [digest |-> d, size |-> FileSize(blob[d]), used |-> LastUsed(d)]
    <2>1. c \in PruneCandidates
      BY <1>2 DEF PruneCandidates
    <2>2. FileSize(blob[d]) \in Nat
      BY <1>2, FileSizeType
    <2>3. c.digest = d /\ FileSize(blob[d]) <= c.size
      BY <2>2
    <2>4. QED
      BY <2>1, <2>3
  <1>3. LeftCovers(p)'
    BY <1>1, <1>2, CandidatesFinite DEF LeftCovers, CandidatesDiffer, FileSize
  <1>4. pc'[p] = "idle" /\ result'[p] = Done => TotalSize(PruneCandidates) <= Cap
    BY OutcomesDiffer DEF StartPrune, Prune
  <1>5. QED
    BY <1>1, <1>3, <1>4 DEF PruneStops

\* The candidate the loop visits next is one of them.
LEMMA OldestIn ==
    ASSUME NEW p \in Procs, TypeOK, LeftCovers(p), todo[p] # {}
    PROVE  Oldest(todo[p]) \in todo[p] /\ Oldest(todo[p]).digest \in Digests
  BY OldestExists DEF TypeOK, LeftCovers, CandidatesDiffer, Candidate

\* A removal takes the file with its entry; a failed one leaves both.
LEMMA PruneStepCovers ==
    ASSUME NEW p \in Procs, BuildInv, PruneStep(p), LeftCovers(p)
    PROVE  /\ LeftCovers(p)'
           /\ pc'[p] = "idle" /\ result'[p] = Done => todo'[p] = {} \/ PruneStops(p)'
  <1> USE DEF BuildInv, StoreInv, TypeOK, LeftCovers, CandidatesDiffer, FileSize, fs, prune
  <1>1. CASE PruneEnd(p) \/ PruneInterrupted(p)
    <2>1. UNCHANGED <<blob, content, todo, left>> /\ pc'[p] = "idle"
      BY <1>1 DEF PruneEnd, PruneInterrupted, PruneReturns
    <2>2. LeftCovers(p)'
      BY <2>1
    <2>3. result'[p] = Done => PruneEnd(p)
      BY <1>1, OutcomesDiffer DEF PruneInterrupted, PruneReturns
    <2>4. PruneEnd(p) => todo[p] = {} \/ PruneStops(p)
      BY DEF PruneEnd
    <2>5. QED
      BY <2>1, <2>2, <2>3, <2>4 DEF PruneStops
  <1>2. CASE Evict(p)
    <2>1. /\ UNCHANGED <<content, todo, left>>
          /\ blob' = [blob EXCEPT ![Oldest(todo[p]).digest] = None]
          /\ pc'[p] = "forget" /\ todo[p] # {}
      BY <1>2 DEF Evict
    <2>2. \A d \in Digests : blob'[d] \in Inodes => blob'[d] = blob[d]
      BY <2>1, NotInodes
    <2>3. blob'[Oldest(todo[p]).digest] \notin Inodes
      BY <1>2, <2>1, OldestIn, NotInodes DEF Evict
    <2>4. QED
      BY <2>1, <2>2, <2>3
  <1>3. CASE EvictFails(p)
    BY <1>3 DEF EvictFails
  <1>4. CASE Forget(p)
    <2>1. /\ UNCHANGED <<blob, content>> /\ pc[p] = "forget" /\ pc'[p] = "evict"
          /\ todo'[p] = todo[p] \ {Oldest(todo[p])}
          /\ left'[p] = left[p] \ {Oldest(todo[p])}
      BY <1>4 DEF Forget
    <2>2. IsFiniteSet(left'[p])
      <3>1. IsFiniteSet(left[p])
        OBVIOUS
      <3> HIDE DEF LeftCovers, CandidatesDiffer, TypeOK
      <3>2. QED
        BY <2>1, <3>1, FS_RemoveElement
    <2>3. QED
      BY <2>1, <2>2
  <1>5. QED
    BY <1>1, <1>2, <1>3, <1>4 DEF PruneStep

\* Damage takes away a file or leaves one that is not larger.
LEMMA DamageCovers ==
    ASSUME NEW p \in Procs, NEW d \in Fragile, BuildInv, Damage(d), DamageShrinks, LeftCovers(p)
    PROVE  LeftCovers(p)'
  <1> USE DEF BuildInv, StoreInv, TypeOK, LeftCovers, CandidatesDiffer
  <1>1. d \in Digests /\ blob[d] \in Inodes /\ UNCHANGED <<pc, todo, left>>
    BY FragileAssumption DEF Damage, prune
  <1>2. ASSUME NEW e \in Digests, blob'[e] \in Inodes
        PROVE  blob'[e] = blob[e] /\ FileSize(blob[e])' <= FileSize(blob[e])
    <2>1. blob'[e] = blob[e]
      BY <1>1, <1>2, NotInodes DEF Damage
    <2>2. \/ content'[blob[e]] = content[blob[e]]
          \/ content' = [content EXCEPT ![blob[d]] = Rotten] /\ blob[e] = blob[d]
      BY <1>2, <2>1 DEF Damage
    <2>3. CASE content'[blob[e]] = content[blob[e]]
      BY <1>2, <2>1, <2>3, FileSizeType DEF FileSize
    <2>4. CASE content' = [content EXCEPT ![blob[d]] = Rotten] /\ blob[e] = blob[d]
      <3>1. content[blob[d]] \in {d, Rotten} /\ content'[blob[e]] = Rotten
        BY <1>1, <2>4 DEF PublishedWhole
      <3>2. Rotten \notin Digests /\ RottenSize <= Size[d] /\ RottenSize \in Nat
        BY SentinelsAssumption, SizesAssumption DEF DamageShrinks
      <3>3. QED
        BY <1>1, <2>1, <2>4, <3>1, <3>2 DEF FileSize
    <2>5. QED
      BY <2>2, <2>3, <2>4
  <1>3. \A e \in Digests : blob[e] \in Inodes => FileSize(blob[e]) \in Nat
    BY FileSizeType
  <1>4. ASSUME NEW e \in Digests, blob'[e] \in Inodes
        PROVE  \E c \in left'[p] : c.digest = e /\ FileSize(blob[e])' <= c.size
    <2>1. blob'[e] = blob[e] /\ FileSize(blob[e])' <= FileSize(blob[e])
      BY <1>2, <1>4
    <2>2. PICK c \in left[p] : c.digest = e /\ FileSize(blob[e]) <= c.size
      BY <1>4, <2>1
    <2>3. /\ FileSize(blob[e]) \in Nat /\ FileSize(blob[e])' \in Nat
          /\ c.size \in Nat
      <3>1. TypeOK'
        BY <1>1, DamageType
      <3>2. FileSize(blob[e])' \in Nat
        BY <1>4, <3>1, SizesAssumption DEF FileSize
      <3>3. QED
        BY <1>3, <1>4, <2>1, <2>2, <3>2 DEF Candidate
    <2>4. QED
      BY <1>1, <2>1, <2>2, <2>3
  <1>5. pc'[p] = "forget" => todo'[p] # {} /\ blob'[Oldest(todo'[p]).digest] \notin Inodes
    <2>1. pc[p] = "forget" => Oldest(todo[p]).digest \in Digests
      BY OldestIn
    <2>2. \A e \in Digests : blob[e] \notin Inodes => blob'[e] \notin Inodes
      BY <1>1, NotInodes DEF Damage
    <2>3. QED
      BY <1>1, <2>1, <2>2
  <1>6. QED
    BY <1>1, <1>4, <1>5

LEMMA PruneCoversNext ==
    ASSUME DamageShrinks, BuildInv, PruneCovers, [BuildNext]_allVars
    PROVE  PruneCovers'
  <1> SUFFICES ASSUME NEW p \in Procs, cmd'[p] = "prune", Cap # 0
               PROVE  /\ LeftCovers(p)'
                      /\ pc'[p] = "idle" /\ result'[p] = Done => todo'[p] = {} \/ PruneStops(p)'
    BY DEF PruneCovers
  <1>1. ASSUME UNCHANGED <<blob, content>>, Local(p)' = Local(p)
        PROVE  /\ LeftCovers(p)'
               /\ pc'[p] = "idle" /\ result'[p] = Done => todo'[p] = {} \/ PruneStops(p)'
    <2>1. cmd[p] = "prune"
      BY <1>1 DEF Local
    <2>2. QED
      BY <1>1, <2>1 DEF PruneCovers, LeftCovers, CandidatesDiffer, FileSize, PruneStops, Local
  <1>2. ASSUME NEW q \in Procs \ {p}, ActorStep(q)
        PROVE  UNCHANGED <<blob, content>> /\ Local(p)' = Local(p)
    <2>1. cmd[p] = "prune"
      BY <1>2, OthersLocal DEF Local
    <2>2. QED
      BY <1>2, <2>1, OthersQuiet DEF fs
  <1>3. CASE ActorStep(p)
    <2> USE DEF BuildInv, BuildTypeOK, Stage
    <2>1. StartPrune(p) \/ (StoreStep(p) /\ cmd[p] = "prune")
      BY <1>3 DEF ActorStep, CommandStep, Start, GiveUp, Kill, Acquire, Download, Downloaded,
         DownloadFailed, Injected, BuildFailed, Pruned, Unlock, StoreStep, command
    <2>2. CASE StartPrune(p)
      BY <2>2, PruneStartsCovered
    <2>3. CASE StoreStep(p) /\ cmd[p] = "prune"
      <3>1. PruneStep(p)
        BY <2>3, FetchStepPc DEF StoreStep, StoreInv, CallsStaged
      <3>2. QED
        BY <2>3, <3>1, PruneStepCovers DEF PruneCovers
    <2>4. QED
      BY <2>1, <2>2, <2>3
  <1>4. CASE Disturb
    <2>1. PICK d \in Fragile : Damage(d)
      BY <1>4 DEF Disturb
    <2>2. cmd[p] = "prune" /\ UNCHANGED <<pc, result, todo, left>>
      BY <1>4, <2>1 DEF Disturb, command, Damage, prune
    <2>3. QED
      BY <2>1, <2>2, DamageCovers DEF PruneCovers, PruneStops
  <1>5. CASE UNCHANGED allVars
    BY <1>1, <1>5 DEF allVars, vars, fs, fetch, prune, command, Local
  <1>6. QED
    BY <1>1, <1>2, <1>3, <1>4, <1>5 DEF BuildNext, ActorStep

\* When damage does not make files larger, a prune that ended leaves the cache within
\* the cap, with one blob, or with blobs it could not remove (DiskStore.Prune).
THEOREM PruneFits ==
    ASSUME DamageShrinks
    PROVE  BuildSpec => []PrunedFits
  <1>1. BuildInit => PruneCovers
    BY DEF BuildInit, PruneCovers
  <1>2. BuildInv /\ PruneCovers /\ [BuildNext]_allVars => PruneCovers'
    BY PruneCoversNext
  <1>3. BuildInv /\ PruneCovers => PrunedFits
    BY CoversFits
  <1>4. QED
    BY <1>1, <1>2, <1>3, BuildInvHolds, PTL DEF BuildSpec

-----------------------------------------------------------------------------
(* A build's own images are the most recently used ones *)

\* A use is recorded at the clock's new time, and a file written at its time.
LEMMA ClockAheadNext ==
    ASSUME BuildInv, ClockAhead, [BuildNext]_allVars
    PROVE  ClockAhead'
  <1> USE DEF BuildInv, StoreInv, TypeOK
  <1>1. ASSUME UNCHANGED <<mtime, meta, clock>>
        PROVE  ClockAhead'
    BY <1>1 DEF ClockAhead
  <1>2. ASSUME NEW p \in Procs, FetchStep(p)
        PROVE  ClockAhead'
    <2>1. CASE Inspect(p) \/ Hash(p) \/ FetchFails(p)
      BY <1>1, <2>1 DEF Inspect, Hash, FetchFails, fs
    <2>2. CASE Discard(p) \/ Request(p) \/ Link(p) \/ Relink(p) \/ Return(p)
      BY <1>1, <2>2 DEF Discard, Request, Link, Relink, LinkOr, Return
    <2>3. CASE Copy(p)
      BY <2>3 DEF Copy, ClockAhead
    <2>4. CASE Touch(p)
      BY <2>4 DEF Touch, ClockAhead
    <2>5. QED
      BY <1>2, <2>1, <2>2, <2>3, <2>4 DEF FetchStep
  <1>3. ASSUME NEW p \in Procs, PruneStep(p)
        PROVE  ClockAhead'
    <2>1. CASE Forget(p)
      BY <2>1 DEF Forget, ClockAhead
    <2>2. CASE PruneEnd(p) \/ PruneInterrupted(p) \/ Evict(p) \/ EvictFails(p)
      BY <1>1, <2>2 DEF PruneEnd, PruneInterrupted, PruneReturns, Evict, EvictFails, fs
    <2>3. QED
      BY <1>3, <2>1, <2>2 DEF PruneStep
  <1>4. ASSUME NEW p \in Procs, Start(p) \/ GiveUp(p) \/ CommandStep(p) \/ Kill(p)
        PROVE  ClockAhead'
    <2>1. CASE QuietCommandStep(p)
      BY <1>1, <2>1, QuietStore DEF fs
    <2>2. CASE Download(p) \/ StartPrune(p) \/ Kill(p)
      BY <1>1, <2>2 DEF Download, Fetch, StartPrune, Prune, Kill, ProcessDies, fs
    <2>3. QED
      BY <1>4, <2>1, <2>2 DEF CommandStep, QuietCommandStep
  <1>5. CASE Disturb
    BY <1>1, <1>5 DEF Disturb, Damage
  <1>6. CASE UNCHANGED allVars
    BY <1>1, <1>6 DEF allVars, vars, fs
  <1>7. QED
    BY <1>2, <1>3, <1>4, <1>5, <1>6 DEF BuildNext, StoreStep

\* The plan's head is one of the images the build needs.
LEMMA HeadNeeded ==
    ASSUME BuildInv, NEW p \in Procs, plan[p] # <<>>, PlanCovers(p)
    PROVE  /\ Head(plan[p]) = plan[p][1] /\ 1 \in DOMAIN plan[p]
           /\ Head(plan[p]).want \in needs[p]
           /\ \A i \in DOMAIN Tail(plan[p]) :
                 i + 1 \in DOMAIN plan[p] /\ Tail(plan[p])[i] = plan[p][i + 1]
           /\ \A i \in DOMAIN plan[p] \ {1} :
                 i - 1 \in DOMAIN Tail(plan[p]) /\ Tail(plan[p])[i - 1] = plan[p][i]
  <1>1. plan[p] \in Seq(Requests)
    BY DEF BuildInv, BuildTypeOK
  <1>2. Head(plan[p]) = plan[p][1] /\ 1 \in DOMAIN plan[p]
    BY <1>1
  <1>3. Head(plan[p]).want \in needs[p]
    BY <1>2 DEF PlanCovers
  <1>4. \A i \in DOMAIN Tail(plan[p]) :
            i + 1 \in DOMAIN plan[p] /\ Tail(plan[p])[i] = plan[p][i + 1]
    BY <1>1
  <1>5. \A i \in DOMAIN plan[p] \ {1} :
            i - 1 \in DOMAIN Tail(plan[p]) /\ Tail(plan[p])[i - 1] = plan[p][i]
    BY <1>1
  <1>6. QED
    BY <1>2, <1>3, <1>4, <1>5

\* Fetching an image the build needs does not make the others more recent.
LEMMA FetchKeepsUses ==
    ASSUME NEW p \in Procs, StoreInv, ClockAhead, FetchStep(p), UNCHANGED needs,
           pc[p] \in FetchSteps => digest[p] \in needs[p],
           NEW d \in Digests, UsedLast(p, d)
    PROVE  UsedLast(p, d)'
  <1> USE DEF StoreInv, TypeOK, UsedLast, FetchSteps
  <1>1. CASE Inspect(p) \/ Hash(p) \/ Request(p) \/ FetchFails(p) \/ Return(p)
    BY <1>1 DEF Inspect, Hash, Request, FetchFails, Return, fs
  <1>2. CASE Discard(p)
    BY <1>2 DEF Discard
  <1>3. CASE Link(p) \/ Relink(p)
    BY <1>3 DEF Link, Relink, LinkOr
  <1>4. CASE Copy(p)
    BY <1>4 DEF Copy, TempsHidden
  <1>5. CASE Touch(p)
    BY <1>5 DEF Touch, ClockAhead
  <1>6. QED
    BY <1>1, <1>2, <1>3, <1>4, <1>5 DEF FetchStep

\* What p's own step of Fetch does to the three facts about its build.
LEMMA FetchStepUses ==
    ASSUME NEW p \in Procs, BuildInv, ClockAhead, FetchStep(p), UNCHANGED command,
           Pinned(p), PlanCovers(p), FetchesNext(p), UsesRecorded(p)
    PROVE  PlanCovers(p)' /\ FetchesNext(p)' /\ UsesRecorded(p)'
  <1> USE DEF BuildInv, StoreInv, TypeOK, FetchSteps, command
  <1>0. PICK want : want = Head(plan[p]).want
    OBVIOUS
  <1>1. cmd[p] = "fetch" /\ plan[p] # <<>> /\ pc[p] \in FetchSteps \cup {"return"}
    BY FetchStepPc DEF CallsStaged
  <1>2. want \in needs[p] /\ want \in Digests /\ want # None
    BY <1>0, <1>1, HeadNeeded, SentinelsAssumption DEF Pinned
  <1>3. pc[p] \in FetchSteps => req[p].want = want /\ digest[p] = want /\ result[p] # Failed
    BY <1>0, <1>1 DEF FetchesNext
  <1>4. pc[p] = "touch" => Had(p, want)
    BY <1>0, <1>1 DEF FetchesNext
  <1>5. pc[p] = "return" /\ result[p] # Failed => Had(p, want) /\ result[p] = want
    BY <1>0, <1>1 DEF FetchesNext
  <1>6. /\ \A d \in verified[p] : UsedLast(p, d) => UsedLast(p, d)'
        /\ \A d \in verified[p] : result[p] = Failed \/ (pc[p] = "touch" /\ d = want) \/ UsedLast(p, d)
    BY <1>1, <1>2, <1>3, FetchKeepsUses DEF UsesRecorded
  <1>7. verified[p] \subseteq verified'[p] /\ verified'[p] \subseteq verified[p] \cup {digest[p]}
    <2>1. CASE Inspect(p) \/ Discard(p) \/ Request(p) \/ Copy(p) \/ Touch(p) \/ FetchFails(p) \/ Return(p)
      BY <2>1 DEF Inspect, Discard, Request, Copy, Touch, FetchFails, Return
    <2>2. CASE Hash(p) \/ Link(p) \/ Relink(p)
      BY <2>2 DEF Hash, Link, Relink, LinkOr
    <2>3. QED
      BY <2>1, <2>2 DEF FetchStep
  <1>8. PlanCovers(p)'
    BY <1>7 DEF PlanCovers, Had
  <1> DEFINE Next1 ==
         /\ pc'[p] \in FetchSteps => req'[p].want = want /\ digest'[p] = want /\ result'[p] # Failed
         /\ pc'[p] = "touch" => want \in verified'[p] \cup Fragile
         /\ pc'[p] \in {"return", "idle"} /\ result'[p] # Failed
               => want \in verified'[p] \cup Fragile /\ result'[p] = want
         /\ \A d \in verified'[p] :
               result'[p] = Failed \/ (pc'[p] = "touch" /\ digest'[p] = d) \/ UsedLast(p, d)'
  <1>9. Next1
    <2>1. CASE Inspect(p)
      BY <1>3, <1>6, <2>1 DEF Inspect, Unusable, fs
    <2>2. CASE Hash(p)
      BY <1>3, <1>6, <2>2 DEF Hash, Unusable, fs, fetch
    <2>3. CASE Discard(p) \/ Request(p)
      BY <1>3, <1>6, <2>3 DEF Discard, Request, fetch
    <2>4. CASE Copy(p)
      <3>1. PICK c : IF Accepts(req[p], c)
                     THEN /\ digest' = [digest EXCEPT ![p] = c]
                          /\ pc' = [pc EXCEPT ![p] = "link"]
                          /\ UNCHANGED result
                     ELSE Finish(p, Failed) /\ UNCHANGED digest
        BY <2>4 DEF Copy
      <3>2. pc[p] = "copy" /\ UNCHANGED <<req, verified>>
        BY <2>4 DEF Copy
      <3>3. Accepts(req[p], c) => c = want
        BY <1>2, <1>3, <3>2 DEF Accepts
      <3>4. QED
        BY <1>3, <1>6, <3>1, <3>2, <3>3
    <2>5. CASE Link(p) \/ Relink(p)
      BY <1>3, <1>6, <2>5 DEF Link, Relink, LinkOr
    <2>6. CASE Touch(p)
      <3>1. /\ pc[p] = "touch" /\ UNCHANGED <<blob, mtime, verified>>
            /\ meta' = [meta EXCEPT ![want] = clock + 1]
            /\ pc'[p] = "return" /\ result'[p] = want
        BY <1>3, <2>6 DEF Touch
      <3>2. UsedLast(p, want)'
        <4>1. needs' = needs
          OBVIOUS
        <4>2. SUFFICES ASSUME NEW e \in Digests \ needs[p]
                       PROVE  /\ meta'[e] < meta'[want]
                              /\ blob[e] \in Inodes => mtime[blob[e]] < meta'[want]
          BY <3>1, <4>1 DEF UsedLast
        <4>3. meta'[want] = clock + 1 /\ meta'[e] = meta[e] /\ clock \in Nat
          BY <1>2, <3>1
        <4>4. /\ meta[e] \in Nat /\ meta[e] <= clock
              /\ blob[e] \in Inodes => mtime[blob[e]] \in Nat /\ mtime[blob[e]] <= clock
          BY DEF ClockAhead
        <4>5. QED
          BY <4>3, <4>4
      <3>3. \A d \in verified'[p] : UsedLast(p, d)'
        <4>1. \A d \in verified[p] : d = want \/ UsedLast(p, d)
          BY <1>3, <1>6, <3>1
        <4> HIDE DEF BuildInv, StoreInv, TypeOK
        <4>2. QED
          BY <1>6, <3>1, <3>2, <4>1
      <3>4. QED
        BY <1>4, <3>1, <3>3 DEF Had
    <2>7. CASE FetchFails(p)
      BY <2>7 DEF FetchFails
    <2>8. CASE Return(p)
      BY <1>5, <1>6, <2>8 DEF Return, Had
    <2>9. QED
      BY <2>1, <2>2, <2>3, <2>4, <2>5, <2>6, <2>7, <2>8 DEF FetchStep
  <1> HIDE DEF Next1
  <1>10. cmd'[p] = "fetch" /\ Head(plan'[p]).want = want
    BY <1>0, <1>1
  <1>11. FetchesNext(p)'
    BY <1>9, <1>10 DEF FetchesNext, Had, Next1
  <1>12. UsesRecorded(p)'
    BY <1>9, <1>10 DEF UsesRecorded, Next1
  <1>13. QED
    BY <1>8, <1>11, <1>12

\* The facts for the process whose build it is.
OwnUses(p) ==
    /\ cmd[p] = "lock" => PlanCovers(p)
    /\ Pinned(p) /\ cmd[p] \in {"build", "fetch", "inject"} =>
          PlanCovers(p) /\ FetchesNext(p) /\ UsesRecorded(p)

\* They speak of p's own state and, once it has the lock, of files.
LEMMA QuietUses ==
    ASSUME NEW p \in Procs, OwnUses(p), Local(p)' = Local(p),
           cmd[p] \in {"none", "lock"} \/ UNCHANGED <<blob, mtime, meta>>
    PROVE  OwnUses(p)'
  <1>1. PlanCovers(p) => PlanCovers(p)'
    BY DEF PlanCovers, Had, Local
  <1>2. FetchesNext(p) => FetchesNext(p)'
    BY DEF FetchesNext, Had, Local
  <1>3. UNCHANGED <<blob, mtime, meta>> /\ UsesRecorded(p) => UsesRecorded(p)'
    BY DEF UsesRecorded, UsedLast, Local
  <1>4. cmd'[p] = cmd[p] /\ needs'[p] = needs[p]
    BY DEF Local
  <1>5. QED
    BY <1>1, <1>2, <1>3, <1>4 DEF OwnUses, Pinned

\* The command's steps between the calls to the store.
LEMMA CommandUses ==
    ASSUME NEW p \in Procs, BuildInv, OwnUses(p),
           Start(p) \/ GiveUp(p) \/ CommandStep(p) \/ Kill(p)
    PROVE  OwnUses(p)'
  <1> USE DEF BuildInv, BuildTypeOK, StoreInv, TypeOK, Stage, vars
  <1>1. CASE GiveUp(p) \/ DownloadFailed(p) \/ BuildFailed(p) \/ StartPrune(p) \/ Pruned(p)
             \/ Unlock(p) \/ Kill(p)
    <2>1. cmd'[p] \in {"none", "unlock", "prune"}
      BY <1>1 DEF GiveUp, DownloadFailed, BuildFailed, StartPrune, Pruned, Unlock, Kill
    <2>2. QED
      BY <2>1 DEF OwnUses
  <1>2. CASE Start(p)
    <2>1. PICK s \in Plans : plan'[p] = s /\ needs'[p] = {s[i].want : i \in DOMAIN s}
      BY <1>2 DEF Start
    <2>2. cmd'[p] = "lock"
      BY <1>2 DEF Start
    <2>3. QED
      BY <2>1, <2>2 DEF OwnUses, PlanCovers
  <1>3. CASE Acquire(p)
    <2>1. cmd[p] = "lock" /\ cmd'[p] = "build" /\ UNCHANGED <<plan, needs, verified>>
      BY <1>3 DEF Acquire
    <2>2. verified'[p] = {}
      BY <2>1 DEF LockHeld
    <2>3. PlanCovers(p)'
      BY <2>1 DEF OwnUses, PlanCovers, Had
    <2>4. QED
      BY <2>1, <2>2, <2>3 DEF OwnUses, FetchesNext, UsesRecorded
  <1>4. CASE Download(p)
    <2>1. /\ cmd[p] = "build" /\ cmd'[p] = "fetch" /\ plan[p] # <<>>
          /\ UNCHANGED <<plan, needs, verified, blob, mtime, meta>>
          /\ Fetch(p, Head(plan[p]))
      BY <1>4 DEF Download, Fetch, fs
    <2>2. SUFFICES ASSUME Pinned(p)
                   PROVE  PlanCovers(p)' /\ FetchesNext(p)' /\ UsesRecorded(p)'
      BY <2>1 DEF OwnUses, Pinned
    <2>3. PlanCovers(p) /\ UsesRecorded(p)
      BY <2>1, <2>2 DEF OwnUses
    <2>4. PICK want : want = Head(plan[p]).want /\ want \in Digests /\ want # None
      BY <2>1, <2>2, <2>3, HeadNeeded, SentinelsAssumption DEF Pinned
    <2>5. /\ req'[p].want = want /\ digest'[p] = want /\ result'[p] # Failed
          /\ pc'[p] = "inspect"
      BY <2>1, <2>4, OutcomesDiffer DEF Fetch
    <2>6. PlanCovers(p)'
      BY <2>1, <2>3 DEF PlanCovers, Had
    <2>7. FetchesNext(p)'
      BY <2>1, <2>4, <2>5 DEF FetchesNext
    <2>8. pc[p] # "touch"
      BY <2>1 DEF CallsStaged, FetchSteps
    <2>9. UsesRecorded(p)'
      BY <2>1, <2>3, <2>8 DEF UsesRecorded, UsedLast
    <2>10. QED
      BY <2>6, <2>7, <2>9
  <1>5. CASE Downloaded(p)
    <2>1. /\ cmd[p] = "fetch" /\ cmd'[p] = "inject"
          /\ pc[p] = "idle" /\ result[p] # Failed
          /\ UNCHANGED <<plan, needs, verified, blob, mtime, meta, pc, result, digest, req>>
      BY <1>5, SentinelsAssumption DEF Downloaded, fs, fetch
    <2>2. SUFFICES ASSUME Pinned(p)
                   PROVE  PlanCovers(p)' /\ FetchesNext(p)' /\ UsesRecorded(p)'
      BY <2>1 DEF OwnUses, Pinned
    <2>3. PlanCovers(p) /\ FetchesNext(p) /\ UsesRecorded(p)
      BY <2>1, <2>2 DEF OwnUses
    <2>4. PlanCovers(p)'
      BY <2>1, <2>3 DEF PlanCovers, Had
    <2>5. FetchesNext(p)'
      BY <2>1, <2>3 DEF FetchesNext, Had
    <2>6. UsesRecorded(p)'
      BY <2>1, <2>3 DEF UsesRecorded, UsedLast
    <2>7. QED
      BY <2>4, <2>5, <2>6
  <1>6. CASE Injected(p)
    <2>1. /\ cmd[p] = "inject" /\ cmd'[p] = "build"
          /\ plan'[p] = Tail(plan[p]) /\ plan[p] # <<>>
          /\ UNCHANGED <<needs, verified, blob, mtime, meta, pc, result, digest, req>>
      BY <1>6 DEF Injected, fs, fetch, CallsStaged
    <2>2. SUFFICES ASSUME Pinned(p)
                   PROVE  PlanCovers(p)' /\ FetchesNext(p)' /\ UsesRecorded(p)'
      BY <2>1 DEF OwnUses, Pinned
    <2>3. PlanCovers(p) /\ FetchesNext(p) /\ UsesRecorded(p)
      BY <2>1, <2>2 DEF OwnUses
    <2>4. Had(p, Head(plan[p]).want)
      BY <2>1, <2>3 DEF FetchesNext
    <2>5. /\ Head(plan[p]) = plan[p][1]
          /\ \A i \in DOMAIN Tail(plan[p]) :
                i + 1 \in DOMAIN plan[p] /\ Tail(plan[p])[i] = plan[p][i + 1]
          /\ \A i \in DOMAIN plan[p] \ {1} :
                i - 1 \in DOMAIN Tail(plan[p]) /\ Tail(plan[p])[i - 1] = plan[p][i]
      BY <2>1, <2>3, HeadNeeded
    <2>6. PlanCovers(p)'
      <3>1. \A i \in DOMAIN plan'[p] : plan'[p][i].want \in needs'[p]
        BY <2>1, <2>3, <2>5 DEF PlanCovers
      <3>2. ASSUME NEW d \in needs'[p], ~Had(p, d)
            PROVE  \E i \in DOMAIN plan'[p] : plan'[p][i].want = d
        <4>1. PICK i \in DOMAIN plan[p] : plan[p][i].want = d
          BY <2>1, <2>3, <3>2 DEF PlanCovers
        <4>2. i # 1
          BY <2>4, <2>5, <3>2, <4>1
        <4>3. QED
          BY <2>1, <2>5, <4>1, <4>2
      <3>3. QED
        BY <2>1, <3>1, <3>2 DEF PlanCovers, Had
    <2>7. FetchesNext(p)'
      BY <2>1 DEF FetchesNext
    <2>8. UsesRecorded(p)'
      BY <2>1, <2>3 DEF UsesRecorded, UsedLast
    <2>9. QED
      BY <2>6, <2>7, <2>8
  <1>7. QED
    BY <1>1, <1>2, <1>3, <1>4, <1>5, <1>6 DEF CommandStep

LEMMA DamageUses ==
    ASSUME NEW p \in Procs, BuildInv, OwnUses(p), NEW d \in Fragile, Damage(d), UNCHANGED command
    PROVE  OwnUses(p)'
  <1> USE DEF BuildInv, StoreInv, TypeOK, command
  <1>1. /\ UNCHANGED <<mtime, meta, pc, req, digest, result>>
        /\ verified'[p] = verified[p] \ {d}
    BY DEF Damage, fetch
  <1>2. \A e \in Digests : blob'[e] \in Inodes => blob'[e] = blob[e]
    BY FragileAssumption, NotInodes DEF Damage
  <1>3. PlanCovers(p) => PlanCovers(p)'
    BY <1>1 DEF PlanCovers, Had
  <1>4. FetchesNext(p) => FetchesNext(p)'
    BY <1>1 DEF FetchesNext, Had
  <1>5. UsesRecorded(p) => UsesRecorded(p)'
    BY <1>1, <1>2 DEF UsesRecorded, UsedLast
  <1>6. QED
    BY <1>3, <1>4, <1>5 DEF OwnUses, Pinned

LEMMA BuildUsesNext ==
    ASSUME BuildInv, ClockAhead, BuildUses, [BuildNext]_allVars
    PROVE  BuildUses'
  <1> SUFFICES ASSUME NEW p \in Procs
               PROVE  OwnUses(p)'
    BY DEF BuildUses, OwnUses
  <1>0. OwnUses(p)
    BY DEF BuildUses, OwnUses
  <1>1. ASSUME NEW q \in Procs \ {p}, ActorStep(q)
        PROVE  OwnUses(p)'
    BY <1>0, <1>1, OthersLocal, OthersQuiet, QuietUses DEF fs
  <1>2. ASSUME FetchStep(p), UNCHANGED command
        PROVE  OwnUses(p)'
    <2>1. cmd[p] = "fetch"
      BY <1>2, FetchStepPc DEF BuildInv, StoreInv, CallsStaged
    <2>2. QED
      BY <1>0, <1>2, <2>1, FetchStepUses DEF OwnUses, Pinned, command
  <1>3. ASSUME PruneStep(p), UNCHANGED command
        PROVE  OwnUses(p)'
    <2>1. cmd[p] = "prune"
      BY <1>3, PruneStepPc DEF BuildInv, StoreInv, CallsStaged
    <2>2. QED
      BY <1>3, <2>1 DEF OwnUses, command
  <1>4. CASE Start(p) \/ GiveUp(p) \/ CommandStep(p) \/ Kill(p)
    BY <1>0, <1>4, CommandUses
  <1>5. CASE Disturb
    BY <1>0, <1>5, DamageUses DEF Disturb
  <1>6. CASE UNCHANGED allVars
    BY <1>0, <1>6, QuietUses DEF allVars, vars, fs, fetch, prune, command, Local
  <1>7. QED
    BY <1>1, <1>2, <1>3, <1>4, <1>5, <1>6 DEF BuildNext, ActorStep, StoreStep

-----------------------------------------------------------------------------
(* The prune spares the build's own images *)

\* The facts for the process whose images they are.
OwnSpared(p) ==
    Pinned(p) /\ Undamaged(p) =>
        /\ cmd[p] = "prune" => OwnNewest(p)
        /\ \/ cmd[p] = "prune"
           \/ cmd[p] = "unlock" /\ outcome[p] = Done
           => (Fits(p) => \A d \in needs[p] : Good(d))

LEMMA QuietSpared ==
    ASSUME NEW p \in Procs, OwnSpared(p), Local(p)' = Local(p),
           cmd[p] \in {"none", "lock"} \/ UNCHANGED <<blob, content>>
    PROVE  OwnSpared(p)'
  <1>1. /\ cmd'[p] = cmd[p] /\ outcome'[p] = outcome[p]
        /\ Pinned(p)' <=> Pinned(p)
        /\ Undamaged(p)' <=> Undamaged(p)
        /\ Fits(p)' <=> Fits(p)
        /\ needs'[p] = needs[p]
    BY DEF Local, Pinned, Undamaged, Fits, Stuck
  <1>2. OwnNewest(p)' <=> OwnNewest(p)
    BY DEF Local, OwnNewest, CandidatesDiffer
  <1>3. UNCHANGED <<blob, content>> => \A d \in needs[p] : Good(d)' <=> Good(d)
    BY DEF Good
  <1>4. QED
    BY <1>1, <1>2, <1>3 DEF OwnSpared

\* When its prune starts, a build whose images nobody damaged has them all, and
\* none of the others was used later.
LEMMA PruneStartsSpared ==
    ASSUME NEW p \in Procs, BuildInv, OwnUses(p), StartPrune(p), Pinned(p), Undamaged(p)
    PROVE  OwnNewest(p)' /\ \A d \in needs[p] : Good(d)'
  <1> USE DEF BuildInv, StoreInv, TypeOK
  <1>1. /\ cmd[p] = "build" /\ plan[p] = <<>> /\ pc[p] = "idle"
        /\ UNCHANGED <<fs, needs>> /\ pc'[p] # "forget"
        /\ todo'[p] = left'[p]
        /\ left'[p] = IF Cap = 0 THEN {} ELSE PruneCandidates
    BY DEF StartPrune, Prune, Stage
  <1>2. \A d \in needs[p] : d \in Digests /\ Good(d) /\ UsedLast(p, d)
    <2>1. PlanCovers(p) /\ UsesRecorded(p)
      BY <1>1 DEF OwnUses
    <2>2. needs[p] \subseteq verified[p]
      BY <1>1, <2>1 DEF PlanCovers, Had, Undamaged
    <2>3. QED
      BY <1>1, <2>1, <2>2 DEF UsesRecorded, VerifiedIntact, InUse, Pinned
  <1>3. CandidatesDiffer(p)'
    BY <1>1, CandidatesFinite, FS_EmptySet DEF CandidatesDiffer
  <1>4. ASSUME NEW c \in PruneCandidates, c.digest \in needs[p]
        PROVE  /\ c.size = Size[c.digest]
               /\ \A e \in PruneCandidates : e.digest \notin needs[p] => e.used < c.used
    <2>1. PICK d \in needs[p] : c = [digest |-> d, size |-> FileSize(blob[d]), used |-> LastUsed(d)]
      BY <1>4 DEF PruneCandidates
    <2>2. FileSize(blob[d]) = Size[d]
      BY <1>2 DEF Good, FileSize
    <2>3. ASSUME NEW e \in Digests \ needs[p], blob[e] \in Inodes
          PROVE  LastUsed(e) < LastUsed(d)
      <3>1. meta[e] < meta[d] /\ mtime[blob[e]] < meta[d]
        BY <1>2, <2>3 DEF UsedLast
      <3>2. LastUsed(d) = meta[d]
        BY <1>2, <2>2, <2>3, <3>1 DEF LastUsed
      <3>3. QED
        BY <3>1, <3>2 DEF LastUsed
    <2>4. QED
      BY <2>1, <2>2, <2>3 DEF PruneCandidates
  <1>5. OwnNewest(p)'
    BY <1>1, <1>3, <1>4 DEF OwnNewest
  <1>6. QED
    BY <1>1, <1>2, <1>5 DEF Good, fs

\* While the build's images fit the cap beside what is stuck, the candidate the loop
\* removes is not one of them.
LEMMA EvictsAnother ==
    ASSUME NEW p \in Procs, TypeOK, Pinned(p), OwnNewest(p), Fits(p),
           todo[p] # {}, ~PruneStops(p)
    PROVE  Oldest(todo[p]).digest \notin needs[p]
  <1> DEFINE o == Oldest(todo[p])
  <1> SUFFICES ASSUME o.digest \in needs[p]
               PROVE  FALSE
    OBVIOUS
  <1>1. /\ todo[p] \in SUBSET Candidate
        /\ \A c, e \in todo[p] : c.digest = e.digest => c = e
        /\ todo[p] \subseteq left[p] /\ left[p] \subseteq Candidate
        /\ IsFiniteSet(left[p]) /\ Cap # 0
    BY DEF TypeOK, OwnNewest, CandidatesDiffer
  <1>2. o \in todo[p] /\ \A e \in todo[p] \ {o} : Before(o, e)
    BY <1>1, OldestExists
  <1>3. \A e \in todo[p] : e.digest \in needs[p]
    <2> SUFFICES ASSUME NEW e \in todo[p], e.digest \notin needs[p]
                 PROVE  FALSE
      OBVIOUS
    <2>1. e.used < o.used
      BY <1>1, <1>2 DEF OwnNewest
    <2>2. o.used <= e.used
      BY <1>1, <1>2 DEF Before, Candidate
    <2>3. o.used \in Nat /\ e.used \in Nat
      BY <1>1, <1>2 DEF Candidate
    <2> HIDE DEF o
    <2>4. QED
      BY <2>1, <2>2, <2>3
  <1> DEFINE f == [c \in todo[p] |-> c.size]
             g == [d \in needs[p] |-> Size[d]]
             h == [c \in todo[p] |-> c.digest]
  <1>4. f \in [todo[p] -> Nat] /\ g \in [needs[p] -> Nat]
    BY <1>1, SizesAssumption DEF Candidate, Pinned
  <1>5. h \in Injection(todo[p], needs[p])
    BY <1>1, <1>3 DEF Injection, IsInjective
  <1>6. \A c \in todo[p] : f[c] <= g[h[c]]
    BY <1>1, <1>3, <1>4 DEF OwnNewest
  <1>7. IsFiniteSet(needs[p])
    BY DigestsAssumption, FS_Subset DEF Pinned
  <1> HIDE DEF f, g, h
  <1>8. Total(f) <= Total(g)
    BY <1>4, <1>5, <1>6, <1>7, TotalInjection
  <1>9. Total(f) = TotalSize(todo[p]) /\ TotalSize(Stuck(p)) + Total(g) <= Cap
    BY <1>1 DEF f, g, TotalSize, Fits
  <1>10. Total(g) \in Nat
    <2>1. IsFiniteSet(Bytes(g, needs[p])) /\ Total(g) = Cardinality(Bytes(g, needs[p]))
      BY <1>4, <1>7, BytesFinite, TotalCounts
    <2>2. QED
      BY <2>1, FS_CardinalityType
  <1>11. /\ TotalSize(todo[p]) \in Nat /\ TotalSize(Stuck(p)) \in Nat
         /\ TotalSize(left[p]) = TotalSize(todo[p]) + TotalSize(Stuck(p))
    <2>1. /\ left[p] = todo[p] \cup Stuck(p) /\ todo[p] \cap Stuck(p) = {}
          /\ IsFiniteSet(todo[p]) /\ IsFiniteSet(Stuck(p))
      BY <1>1, FS_Subset DEF Stuck
    <2>2. \A c \in left[p] : c.size \in Nat
      BY <1>1 DEF Candidate
    <2>3. QED
      BY <2>1, <2>2, TotalSplit
  <1>12. QED
    BY <1>8, <1>9, <1>10, <1>11, CapAssumption DEF PruneStops

\* A removal that fails leaves less room for the build's images.
LEMMA StuckGrows ==
    ASSUME NEW p \in Procs, TypeOK, CandidatesDiffer(p), UNCHANGED <<needs, left>>,
           NEW o \in todo[p], todo'[p] = todo[p] \ {o}, Pinned(p), Fits(p)'
    PROVE  Fits(p)
  <1> DEFINE S == Stuck(p)
             total == Total([d \in needs[p] |-> Size[d]])
  <1>1. /\ o \in left[p] /\ left[p] \subseteq Candidate /\ IsFiniteSet(left[p])
        /\ S \subseteq left[p] /\ Stuck(p)' = S \cup {o} /\ S \cap {o} = {}
    BY DEF CandidatesDiffer, TypeOK, Stuck
  <1>2. IsFiniteSet(S) /\ IsFiniteSet({o}) /\ \A c \in S \cup {o} : c.size \in Nat
    BY <1>1, FS_Subset, FS_Singleton DEF Candidate
  <1>3. /\ TotalSize(S) \in Nat /\ TotalSize({o}) \in Nat
        /\ TotalSize(S \cup {o}) = TotalSize(S) + TotalSize({o})
    BY <1>1, <1>2, TotalSplit
  <1>4. total \in Nat
    <2> DEFINE g == [d \in needs[p] |-> Size[d]]
    <2>1. g \in [needs[p] -> Nat] /\ IsFiniteSet(needs[p])
      BY DigestsAssumption, SizesAssumption, FS_Subset DEF Pinned
    <2>2. IsFiniteSet(Bytes(g, needs[p])) /\ Total(g) = Cardinality(Bytes(g, needs[p]))
      BY <2>1, BytesFinite, TotalCounts
    <2>3. QED
      BY <2>2, FS_CardinalityType
  <1>5. Cap = 0 \/ TotalSize(S \cup {o}) + total <= Cap
    BY <1>1 DEF Fits, TotalSize
  <1> HIDE DEF S, total
  <1>6. Cap = 0 \/ TotalSize(S) + total <= Cap
    BY <1>3, <1>4, <1>5, CapAssumption
  <1>7. QED
    BY <1>6 DEF Fits, S, total

LEMMA PruneStepSpares ==
    ASSUME NEW p \in Procs, BuildInv, PruneStep(p), UNCHANGED needs, Pinned(p), OwnNewest(p)
    PROVE  /\ OwnNewest(p)'
           /\ Fits(p)' => Fits(p) /\ \A d \in needs[p] : Good(d) => Good(d)'
  <1> USE DEF fs, prune
  <1>0. TypeOK /\ CandidatesDiffer(p)
    BY DEF BuildInv, StoreInv, OwnNewest
  <1>1. CASE PruneEnd(p) \/ PruneInterrupted(p)
    <2>1. UNCHANGED <<blob, content, todo, left>> /\ pc'[p] = "idle"
      BY <1>0, <1>1 DEF PruneEnd, PruneInterrupted, PruneReturns, TypeOK
    <2>2. QED
      BY <2>1 DEF OwnNewest, CandidatesDiffer, Fits, Stuck, Good
  <1>2. ASSUME todo[p] # {}
        PROVE  Oldest(todo[p]) \in todo[p]
    BY <1>0, <1>2, OldestExists DEF TypeOK, CandidatesDiffer
  <1>3. CASE Evict(p)
    <2>1. /\ UNCHANGED <<content, todo, left>> /\ todo[p] # {} /\ ~PruneStops(p)
          /\ blob' = [blob EXCEPT ![Oldest(todo[p]).digest] = None]
      BY <1>3 DEF Evict
    <2>2. OwnNewest(p)'
      BY <2>1 DEF OwnNewest, CandidatesDiffer
    <2>3. Fits(p) => \A d \in needs[p] : blob'[d] = blob[d]
      BY <1>0, <2>1, EvictsAnother DEF TypeOK, Pinned
    <2>4. QED
      BY <2>1, <2>2, <2>3 DEF Fits, Stuck, Good
  <1>4. CASE EvictFails(p)
    <2>1. /\ left' = left /\ pc' = pc /\ pc[p] = "evict" /\ todo[p] # {}
          /\ todo'[p] = todo[p] \ {Oldest(todo[p])}
      BY <1>0, <1>4 DEF EvictFails, TypeOK
    <2>2. OwnNewest(p)'
      BY <1>2, <2>1 DEF OwnNewest, CandidatesDiffer
    <2>3. UNCHANGED blob /\ UNCHANGED content
      BY <1>4 DEF EvictFails
    <2>4. Fits(p)' => Fits(p)
      BY <1>0, <1>2, <2>1, StuckGrows
    <2>5. QED
      BY <2>2, <2>3, <2>4 DEF Good
  <1>5. CASE Forget(p)
    <2>1. /\ UNCHANGED <<blob, content>> /\ pc[p] = "forget" /\ pc'[p] = "evict"
          /\ todo'[p] = todo[p] \ {Oldest(todo[p])}
          /\ left'[p] = left[p] \ {Oldest(todo[p])}
      BY <1>0, <1>5 DEF Forget, TypeOK
    <2>2. IsFiniteSet(left'[p])
      BY <1>0, <2>1, FS_RemoveElement DEF CandidatesDiffer
    <2>3. Stuck(p)' = Stuck(p)
      BY <1>0, <1>2, <2>1 DEF CandidatesDiffer, Stuck
    <2>4. CandidatesDiffer(p)'
      BY <1>0, <2>1, <2>2 DEF CandidatesDiffer
    <2>5. QED
      BY <2>1, <2>3, <2>4 DEF OwnNewest, Fits, Good
  <1>6. QED
    BY <1>1, <1>3, <1>4, <1>5 DEF PruneStep

LEMMA CommandSpared ==
    ASSUME NEW p \in Procs, BuildInv, OwnUses(p), OwnSpared(p),
           Start(p) \/ GiveUp(p) \/ CommandStep(p) \/ Kill(p)
    PROVE  OwnSpared(p)'
  <1> USE DEF BuildInv, BuildTypeOK, StoreInv, TypeOK, Stage
  <1>1. CASE Start(p) \/ GiveUp(p) \/ Kill(p) \/ Unlock(p) \/ Acquire(p) \/ Download(p)
             \/ Downloaded(p) \/ Injected(p)
    <2>1. cmd'[p] \notin {"prune", "unlock"}
      BY <1>1 DEF Start, GiveUp, Kill, Unlock, Acquire, Download, Downloaded, Injected
    <2>2. QED
      BY <2>1 DEF OwnSpared
  <1>2. CASE DownloadFailed(p) \/ BuildFailed(p)
    <2>1. cmd'[p] = "unlock" /\ outcome'[p] # Done
      BY <1>2, OutcomesDiffer DEF DownloadFailed, BuildFailed, Decide
    <2>2. QED
      BY <2>1 DEF OwnSpared
  <1>3. CASE StartPrune(p)
    <2>1. UNCHANGED <<needs, verified>> /\ cmd'[p] = "prune"
      BY <1>3 DEF StartPrune, Prune
    <2>2. (Pinned(p)' <=> Pinned(p)) /\ (Undamaged(p)' <=> Undamaged(p))
      BY <2>1 DEF Pinned, Undamaged
    <2>3. Pinned(p) /\ Undamaged(p) => OwnNewest(p)' /\ \A d \in needs[p] : Good(d)'
      BY <1>3, PruneStartsSpared
    <2>4. needs'[p] = needs[p]
      BY <2>1
    <2>5. QED
      BY <2>1, <2>2, <2>3, <2>4 DEF OwnSpared
  <1>4. CASE Pruned(p)
    <2>1. UNCHANGED <<vars, needs>> /\ cmd[p] = "prune" /\ cmd'[p] = "unlock"
      BY <1>4 DEF Pruned
    <2>2. UNCHANGED <<needs, verified, blob, content, todo, left>>
      BY <2>1 DEF vars, fs, prune
    <2>3. /\ Pinned(p)' <=> Pinned(p)
          /\ Undamaged(p)' <=> Undamaged(p)
          /\ Fits(p)' <=> Fits(p)
          /\ needs'[p] = needs[p]
          /\ \A d \in needs[p] : Good(d)' <=> Good(d)
      BY <2>2 DEF Pinned, Undamaged, Fits, Stuck, Good
    <2>4. QED
      BY <2>1, <2>3 DEF OwnSpared
  <1>5. QED
    BY <1>1, <1>2, <1>3, <1>4 DEF CommandStep

LEMMA PruneStepSpared ==
    ASSUME NEW p \in Procs, BuildInv, OwnSpared(p), PruneStep(p), UNCHANGED command
    PROVE  OwnSpared(p)'
  <1>1. cmd[p] = "prune" /\ UNCHANGED <<cmd, needs, verified>>
    BY PruneStepPc DEF BuildInv, StoreInv, CallsStaged, command
  <1>2. /\ Pinned(p)' <=> Pinned(p)
        /\ Undamaged(p)' <=> Undamaged(p)
        /\ needs'[p] = needs[p] /\ cmd'[p] = "prune"
    BY <1>1 DEF Pinned, Undamaged
  <1>3. Pinned(p) /\ Undamaged(p) => OwnNewest(p)
    BY <1>1 DEF OwnSpared
  <1>4. Pinned(p) /\ Undamaged(p) =>
            /\ OwnNewest(p)'
            /\ Fits(p)' => Fits(p) /\ \A d \in needs[p] : Good(d) => Good(d)'
    BY <1>1, <1>3, PruneStepSpares
  <1>5. QED
    BY <1>1, <1>2, <1>4 DEF OwnSpared

LEMMA DamageSpared ==
    ASSUME NEW p \in Procs, BuildInv, OwnSpared(p), NEW d \in Fragile, Damage(d), UNCHANGED command
    PROVE  OwnSpared(p)'
  <1>1. /\ UNCHANGED <<todo, left, pc, cmd, needs, outcome>>
        /\ verified'[p] = verified[p] \ {d}
    BY DEF Damage, prune, command
  <1>2. SUFFICES ASSUME Pinned(p), Undamaged(p)'
                 PROVE  /\ cmd[p] = "prune" => OwnNewest(p)'
                        /\ \/ cmd[p] = "prune"
                           \/ cmd[p] = "unlock" /\ outcome[p] = Done
                           => (Fits(p) => \A e \in needs[p] : Good(e)')
    BY <1>1 DEF OwnSpared, Pinned, Fits, Stuck
  <1>3. Undamaged(p) /\ d \notin needs[p]
    BY <1>1, <1>2 DEF Undamaged
  <1>4. OwnNewest(p) => OwnNewest(p)'
    BY <1>1 DEF OwnNewest, CandidatesDiffer
  <1>5. \A e \in needs[p] : Good(e) => Good(e)'
    BY <1>2, <1>3, DamageGood, FragileAssumption DEF BuildInv, Pinned
  <1>6. QED
    BY <1>2, <1>3, <1>4, <1>5 DEF OwnSpared

LEMMA OwnKeptNext ==
    ASSUME BuildInv, BuildUses, OwnKept, [BuildNext]_allVars
    PROVE  OwnKept'
  <1> SUFFICES ASSUME NEW p \in Procs
               PROVE  OwnSpared(p)'
    BY DEF OwnKept, OwnSpared
  <1>0. OwnSpared(p) /\ OwnUses(p)
    BY DEF OwnKept, OwnSpared, BuildUses, OwnUses
  <1>1. ASSUME NEW q \in Procs \ {p}, ActorStep(q)
        PROVE  OwnSpared(p)'
    BY <1>0, <1>1, OthersLocal, OthersQuiet, QuietSpared DEF fs
  <1>2. ASSUME FetchStep(p), UNCHANGED command
        PROVE  OwnSpared(p)'
    <2>1. cmd[p] = "fetch"
      BY <1>2, FetchStepPc DEF BuildInv, StoreInv, CallsStaged
    <2>2. QED
      BY <1>2, <2>1 DEF OwnSpared, command
  <1>3. ASSUME PruneStep(p), UNCHANGED command
        PROVE  OwnSpared(p)'
    BY <1>0, <1>3, PruneStepSpared
  <1>4. CASE Start(p) \/ GiveUp(p) \/ CommandStep(p) \/ Kill(p)
    BY <1>0, <1>4, CommandSpared
  <1>5. CASE Disturb
    BY <1>0, <1>5, DamageSpared DEF Disturb
  <1>6. CASE UNCHANGED allVars
    BY <1>0, <1>6, QuietSpared DEF allVars, vars, fs, fetch, prune, command, Local
  <1>7. QED
    BY <1>1, <1>2, <1>3, <1>4, <1>5, <1>6 DEF BuildNext, ActorStep, StoreStep

\* A build that ended well still has all its images after its prune when they fit
\* the cap beside what could not be removed and nothing outside damaged them, whatever
\* other commands, crashes and damage to other images did (withLockedCache, Prune).
THEOREM OwnImagesStay == BuildSpec => []OwnImagesSurvive
  <1>1. BuildInit => ClockAhead /\ BuildUses /\ OwnKept
    BY DEF BuildInit, Init, ClockAhead, BuildUses, OwnKept
  <1>2. BuildInv /\ ClockAhead /\ BuildUses /\ OwnKept /\ [BuildNext]_allVars
            => ClockAhead' /\ BuildUses' /\ OwnKept'
    BY ClockAheadNext, BuildUsesNext, OwnKeptNext
  <1>3. OwnKept => OwnImagesSurvive
    BY DEF OwnKept, OwnImagesSurvive
  <1>4. QED
    BY <1>1, <1>2, <1>3, BuildInvHolds, PTL DEF BuildSpec
=============================================================================
