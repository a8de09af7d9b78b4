----------------------------- MODULE OutputsProofs -----------------------------
(***************************************************************************)
(* What builds that share a cache directory leave in an output directory,   *)
(* for any number of builds, artifacts and paths.                           *)
(***************************************************************************)
EXTENDS Outputs, TLAPS

\* No output path is the metadata path of an output, and two outputs have two
\* metadata paths (buildArtifactMetadataPath appends a suffix).  The program does
\* not check the first.
MetadataApart ==
    \A t, u \in Targets : \A i \in DOMAIN t, j \in DOMAIN u :
        /\ MetadataPath[t[i]] # u[j]
        /\ MetadataPath[t[i]] = MetadataPath[u[j]] => t[i] = u[j]

-----------------------------------------------------------------------------
(* The inductive invariant *)

\* The stages that loop over the artifacts.
Looping == {"stat", "build", "clean", "litter", "metadata"}

\* A command that has planned knows its paths, and its loop is at one of them.
Bounds ==
    \A b \in Builds :
        /\ target[b] = <<>> => pc[b] \in {"lock", "plan", "rejected", "dead"}
        /\ pc[b] \in Looping => n[b] \in DOMAIN target[b]

\* The cache lock: one command at a time.
Exclusive == SharedLock => \A b, c \in Builds : Inside(b) /\ Inside(c) => b = c

\* The artifacts whose images are in place.
Held(b, i) ==
    \/ pc[b] = "build" /\ i < n[b]
    \/ pc[b] \in {"clean", "litter"} /\ i <= n[b]
    \/ pc[b] \in {"built", "metadata", "done", "kept"}

InPlace == \A b \in Builds : \A i \in DOMAIN target[b] : Held(b, i) => file[target[b][i]] = Image(b, i)

\* Paths that were found absent, or are about to be, are so until they are built.
Room ==
    \A b \in Builds : \A i \in DOMAIN target[b] :
        (pc[b] = "stat" /\ i < n[b]) \/ (pc[b] = "build" /\ i >= n[b])
            => file[target[b][i]] = None

\* Every file is where its command puts it, and no command has one too early or,
\* if it cleaned up, too late.
Mine ==
    \A p \in Paths : file[p] # None =>
        LET f == file[p] IN
        /\ f.of \in DOMAIN target[f.by]
        /\ pc[f.by] \notin {"lock", "plan", "stat", "rejected", "cleaned"}
        /\ f.kind = "image" =>
            /\ f = Image(f.by, f.of)
            /\ p = target[f.by][f.of]
            /\ pc[f.by] = "build" => f.of < n[f.by]
            /\ pc[f.by] = "clean" => f.of <= n[f.by]
        /\ f.kind = "metadata" =>
            /\ f = Metadata(f.by, f.of)
            /\ p = MetadataPath[target[f.by][f.of]]
            /\ pc[f.by] \in {"metadata", "done", "kept", "dead"}
            /\ file[target[f.by][f.of]] = Image(f.by, f.of)

OutputsInv == TypeOK /\ Bounds /\ Exclusive /\ InPlace /\ Room /\ Mine

-----------------------------------------------------------------------------
(* Types *)

\* A command's paths are paths of the directory, each used once.
LEMMA TargetPaths ==
    ASSUME TypeOK, NEW b \in Builds
    PROVE  /\ target[b] \in Seq(Paths)
           /\ \A i \in DOMAIN target[b] : /\ target[b][i] \in Paths
                                          /\ i \in Nat \ {0}
                                          /\ target[b] \in Targets
                                          /\ MetadataPath[target[b][i]] \in Paths
           /\ \A i, j \in DOMAIN target[b] : target[b][i] = target[b][j] => i = j
  <1>1. target[b] \in Targets \cup {<<>>}
    BY DEF TypeOK
  <1>2. CASE target[b] \in Targets
    BY <1>2, TargetsAssumption, MetadataPathAssumption
  <1>3. CASE target[b] = <<>>
    BY <1>3
  <1> QED BY <1>1, <1>2, <1>3

\* What a step does to one command's stage and loop.
LEMMA Entered ==
    ASSUME TypeOK, NEW b \in Builds, NEW stage, NEW first, Enter(b, stage, first)
    PROVE  /\ pc'[b] = stage /\ n'[b] = first
           /\ \A c \in Builds \ {b} : pc'[c] = pc[c] /\ n'[c] = n[c]
  BY DEF TypeOK, Enter

\* The same, of a step to the loop's next artifact.
LEMMA Stayed ==
    ASSUME TypeOK, NEW b \in Builds, NEW next, Stay(b, next)
    PROVE  /\ pc' = pc /\ n'[b] = next
           /\ \A c \in Builds \ {b} : n'[c] = n[c]
  BY DEF TypeOK, Stay

-----------------------------------------------------------------------------
(* Steps that leave the directory and the paths alone *)

\* The absent paths, as a predicate of one artifact.
Roomy(b, i) == (pc[b] = "stat" /\ i < n[b]) \/ (pc[b] = "build" /\ i >= n[b])

\* A step of b alone keeps the invariant if b claims no more than it did.
LEMMA MoveKeeps ==
    ASSUME OutputsInv, TypeOK', UNCHANGED <<file, target>>, NEW b \in Builds,
           \A c \in Builds \ {b} : pc'[c] = pc[c] /\ n'[c] = n[c],
           target[b] = <<>> => pc'[b] \in {"lock", "plan", "rejected", "dead"},
           pc'[b] \in Looping => n'[b] \in DOMAIN target[b],
           SharedLock /\ Inside(b)' => Inside(b) \/ \A other \in Builds : ~Inside(other),
           \A i \in DOMAIN target[b] : /\ Held(b, i)' => Held(b, i)
                                       /\ Roomy(b, i)' => file[target[b][i]] = None,
           \A p \in Paths : file[p] # None /\ file[p].by = b =>
                /\ pc'[b] \notin {"lock", "plan", "stat", "rejected", "cleaned"}
                /\ file[p].kind = "image" =>
                    /\ pc'[b] = "build" => file[p].of < n'[b]
                    /\ pc'[b] = "clean" => file[p].of <= n'[b]
                /\ file[p].kind = "metadata" => pc'[b] \in {"metadata", "done", "kept", "dead"}
    PROVE  OutputsInv'
  <1> USE DEF OutputsInv
  <1>1. Bounds'
    BY DEF Bounds
  <1>2. Exclusive'
    BY DEF Exclusive, Inside
  <1>3. InPlace'
    BY DEF InPlace, Held, Image
  <1>4. Room'
    <2> SUFFICES ASSUME NEW c \in Builds, NEW i \in DOMAIN target[c], Roomy(c, i)'
                 PROVE  file[target[c][i]] = None
      BY DEF Room, Roomy
    <2>1. CASE c = b
      BY <2>1
    <2>2. CASE c # b
      BY <2>2 DEF Room, Roomy
    <2> QED BY <2>1, <2>2
  <1>5. Mine'
    <2> SUFFICES ASSUME NEW p \in Paths, file[p] # None
                 PROVE  LET f == file[p] IN
                    /\ f.of \in DOMAIN target[f.by]
                    /\ pc'[f.by] \notin {"lock", "plan", "stat", "rejected", "cleaned"}
                    /\ f.kind = "image" =>
                        /\ f = Image(f.by, f.of)
                        /\ p = target[f.by][f.of]
                        /\ pc'[f.by] = "build" => f.of < n'[f.by]
                        /\ pc'[f.by] = "clean" => f.of <= n'[f.by]
                    /\ f.kind = "metadata" =>
                        /\ f = Metadata(f.by, f.of)
                        /\ p = MetadataPath[target[f.by][f.of]]
                        /\ pc'[f.by] \in {"metadata", "done", "kept", "dead"}
                        /\ file[target[f.by][f.of]] = Image(f.by, f.of)
      BY DEF Mine, Image, Metadata
    <2>1. file[p].by \in Builds
      BY DEF TypeOK, Files
    <2>2. CASE file[p].by = b
      BY <2>2 DEF Mine
    <2>3. CASE file[p].by # b
      BY <2>1, <2>3 DEF Mine
    <2> QED BY <2>2, <2>3
  <1> QED BY <1>1, <1>2, <1>3, <1>4, <1>5

\* Taking the lock, which nobody holds.
LEMMA LockKeeps ==
    ASSUME OutputsInv, NEW b \in Builds, Lock(b)
    PROVE  OutputsInv'
  <1>1. /\ pc[b] = "lock" /\ UNCHANGED <<file, target>>
        /\ SharedLock => \A other \in Builds : ~Inside(other)
        /\ Enter(b, "plan", 1)
    BY DEF Lock
  <1>2. TypeOK'
    BY <1>1 DEF OutputsInv, TypeOK, Enter
  <1>3. /\ pc'[b] = "plan"
        /\ \A c \in Builds \ {b} : pc'[c] = pc[c] /\ n'[c] = n[c]
    BY <1>1, Entered DEF OutputsInv
  <1>4. \A p \in Paths : file[p] # None => file[p].by # b
    BY <1>1 DEF OutputsInv, Mine
  <1> QED BY <1>1, <1>2, <1>3, <1>4, MoveKeeps DEF Held, Roomy, Looping

\* The next output is absent; after the last one, all of them are.
LEMMA AbsentKeeps ==
    ASSUME OutputsInv, NEW b \in Builds, Absent(b)
    PROVE  OutputsInv'
  <1>1. pc[b] = "stat" /\ file[Path(b)] = None /\ UNCHANGED <<file, target>>
    BY DEF Absent
  <1>2. n[b] \in DOMAIN target[b] /\ target[b] \in Seq(Paths) /\ target[b] # <<>>
    BY <1>1, TargetPaths DEF OutputsInv, Bounds, Looping
  <1>3. \A p \in Paths : file[p] # None => file[p].by # b
    BY <1>1 DEF OutputsInv, Mine
  <1>4. \A i \in DOMAIN target[b] : i <= n[b] => file[target[b][i]] = None
    <2>1. \A i \in DOMAIN target[b] : i < n[b] => file[target[b][i]] = None
      BY <1>1 DEF OutputsInv, Room
    <2> QED BY <1>1, <1>2, <2>1 DEF Path
  <1>5. CASE ~Last(b) /\ Stay(b, n[b] + 1)
    <2>1. n[b] + 1 \in DOMAIN target[b]
      BY <1>2, <1>5 DEF Last
    <2>2. pc' = pc /\ n'[b] = n[b] + 1 /\ \A c \in Builds \ {b} : n'[c] = n[c]
      BY <1>5, Stayed DEF OutputsInv
    <2>3. TypeOK'
      BY <1>1, <1>2, <1>5 DEF OutputsInv, TypeOK, Stay
    <2>4. \A i \in DOMAIN target[b] : Roomy(b, i)' => file[target[b][i]] = None
      BY <1>1, <1>2, <1>4, <2>2 DEF Roomy
    <2>5. \A i \in DOMAIN target[b] : Held(b, i)' => Held(b, i)
      BY <1>1, <2>2 DEF Held
    <2>6. Inside(b)' => Inside(b)
      BY <2>2 DEF Inside
    <2> QED BY <1>1, <1>2, <1>3, <2>1, <2>2, <2>3, <2>4, <2>5, <2>6, MoveKeeps
  <1>6. CASE Last(b) /\ Enter(b, "build", 1)
    <2>1. /\ pc'[b] = "build" /\ n'[b] = 1
          /\ \A c \in Builds \ {b} : pc'[c] = pc[c] /\ n'[c] = n[c]
      BY <1>6, Entered DEF OutputsInv
    <2>2. TypeOK'
      BY <1>1, <1>6 DEF OutputsInv, TypeOK, Enter
    <2>3. 1 \in DOMAIN target[b]
      BY <1>2
    <2>4. \A i \in DOMAIN target[b] : Roomy(b, i)' => file[target[b][i]] = None
      BY <1>2, <1>4, <1>6 DEF Last
    <2>5. \A i \in DOMAIN target[b] : ~Held(b, i)'
      BY <1>2, <2>1 DEF Held
    <2>6. Inside(b)
      BY <1>1 DEF Inside
    <2> QED BY <1>1, <1>2, <1>3, <2>1, <2>2, <2>3, <2>4, <2>5, <2>6, MoveKeeps
  <1> QED BY <1>5, <1>6 DEF Absent

\* A build is not begun.
LEMMA RejectedKeeps ==
    ASSUME OutputsInv, NEW b \in Builds, Rejected(b)
    PROVE  OutputsInv'
  <1>1. /\ pc[b] \in {"lock", "plan", "stat"} /\ UNCHANGED <<file, target>>
        /\ Enter(b, "rejected", 1)
    BY DEF Rejected
  <1>2. TypeOK'
    BY <1>1 DEF OutputsInv, TypeOK, Enter
  <1>3. /\ pc'[b] = "rejected"
        /\ \A c \in Builds \ {b} : pc'[c] = pc[c] /\ n'[c] = n[c]
    BY <1>1, Entered DEF OutputsInv
  <1>4. \A p \in Paths : file[p] # None => file[p].by # b
    BY <1>1 DEF OutputsInv, Mine
  <1> QED BY <1>1, <1>2, <1>3, <1>4, MoveKeeps DEF Held, Roomy, Looping, Inside

\* An artifact fails: what is to be removed is what is in place.
LEMMA InjectFailsKeeps ==
    ASSUME OutputsInv, NEW b \in Builds, InjectFails(b)
    PROVE  OutputsInv'
  <1>1. pc[b] = "build" /\ UNCHANGED <<file, target>>
    BY DEF InjectFails
  <1>2. n[b] \in DOMAIN target[b] /\ target[b] \in Seq(Paths) /\ target[b] # <<>>
    BY <1>1, TargetPaths DEF OutputsInv, Bounds, Looping
  <1>3. \A p \in Paths : file[p] # None /\ file[p].by = b =>
            /\ file[p].kind = "image" => file[p].of < n[b]
            /\ file[p].kind # "metadata" /\ file[p].of \in DOMAIN target[b]
    BY <1>1 DEF OutputsInv, Mine
  <1>4. CASE n[b] > 1 /\ Enter(b, "clean", n[b] - 1)
    <2>1. /\ pc'[b] = "clean" /\ n'[b] = n[b] - 1
          /\ \A c \in Builds \ {b} : pc'[c] = pc[c] /\ n'[c] = n[c]
      BY <1>4, Entered DEF OutputsInv
    <2>2. TypeOK'
      BY <1>1, <1>2, <1>4 DEF OutputsInv, TypeOK, Enter
    <2>3. n'[b] \in DOMAIN target[b]
      BY <1>2, <1>4, <2>1
    <2>4. \A p \in Paths : file[p] # None /\ file[p].by = b =>
                file[p].kind # "metadata" /\ (file[p].kind = "image" => file[p].of <= n'[b])
      BY <1>2, <1>3, <2>1
    <2>5. \A i \in DOMAIN target[b] : Held(b, i)' => Held(b, i)
      BY <1>1, <1>2, <2>1 DEF Held
    <2> QED BY <1>1, <1>2, <2>1, <2>2, <2>3, <2>4, <2>5, MoveKeeps DEF Roomy, Inside
  <1>5. CASE n[b] = 1 /\ Enter(b, "cleaned", 1)
    <2>1. /\ pc'[b] = "cleaned"
          /\ \A c \in Builds \ {b} : pc'[c] = pc[c] /\ n'[c] = n[c]
      BY <1>5, Entered DEF OutputsInv
    <2>2. TypeOK'
      BY <1>1, <1>5 DEF OutputsInv, TypeOK, Enter
    <2>3. \A p \in Paths : file[p] # None => file[p].by # b
      <3> SUFFICES ASSUME NEW p \in Paths, file[p] # None, file[p].by = b PROVE FALSE
        OBVIOUS
      <3>1. file[p].kind = "image"
        BY <1>3 DEF OutputsInv, TypeOK, Files
      <3> QED BY <1>2, <1>3, <1>5, <3>1
    <2> QED BY <1>1, <1>2, <2>1, <2>2, <2>3, MoveKeeps DEF Held, Roomy, Looping, Inside
  <1> QED BY <1>4, <1>5 DEF InjectFails

\* A removal fails: the command no longer claims to have cleaned up.
LEMMA RemoveFailsKeeps ==
    ASSUME OutputsInv, NEW b \in Builds, RemoveFails(b)
    PROVE  OutputsInv'
  <1>1. pc[b] \in {"clean", "litter"} /\ UNCHANGED <<file, target>>
    BY DEF RemoveFails
  <1>2. n[b] \in DOMAIN target[b] /\ target[b] \in Seq(Paths) /\ target[b] # <<>>
    BY <1>1, TargetPaths DEF OutputsInv, Bounds, Looping
  <1>3. \A p \in Paths : file[p] # None /\ file[p].by = b => file[p].kind # "metadata"
    BY <1>1 DEF OutputsInv, Mine
  <1>4. PICK stage \in {"litter", "littered"} : \E k \in 1..n[b] :
            /\ Enter(b, stage, k)
            /\ stage = "litter" => k = n[b] - 1
    BY <1>2 DEF RemoveFails, NextRemoval
  <1>5. PICK k \in 1..n[b] : Enter(b, stage, k) /\ (stage = "litter" => k = n[b] - 1)
    BY <1>4
  <1>6. /\ pc'[b] = stage /\ n'[b] = k
        /\ \A c \in Builds \ {b} : pc'[c] = pc[c] /\ n'[c] = n[c]
    BY <1>5, Entered DEF OutputsInv
  <1>7. TypeOK'
    BY <1>1, <1>2, <1>5 DEF OutputsInv, TypeOK, Enter
  <1>8. n'[b] \in DOMAIN target[b]
    BY <1>2, <1>6
  <1>9. \A i \in DOMAIN target[b] : Held(b, i)' => Held(b, i)
    BY <1>1, <1>2, <1>5, <1>6 DEF Held
  <1> QED BY <1>1, <1>2, <1>3, <1>6, <1>7, <1>8, <1>9, MoveKeeps DEF Roomy, Inside

\* The lock is released.
LEMMA UnlockKeeps ==
    ASSUME OutputsInv, NEW b \in Builds, Unlock(b) \/ FailsLate(b)
    PROVE  OutputsInv'
  <1>1. /\ pc[b] \in {"built", "metadata"} /\ UNCHANGED <<file, target>>
        /\ \E stage \in {"metadata", "done", "kept"} :
            Enter(b, stage, 1) /\ (stage # "kept" => pc[b] = "built")
    BY DEF Unlock, FailsLate
  <1>2. PICK stage \in {"metadata", "done", "kept"} : Enter(b, stage, 1)
    BY <1>1
  <1>3. 1 \in DOMAIN target[b]
    <2>1. target[b] # <<>> /\ target[b] \in Seq(Paths)
      BY <1>1, TargetPaths DEF OutputsInv, Bounds
    <2> QED BY <2>1
  <1>4. TypeOK'
    BY <1>1, <1>2 DEF OutputsInv, TypeOK, Enter
  <1>5. /\ pc'[b] = stage /\ n'[b] = 1
        /\ \A c \in Builds \ {b} : pc'[c] = pc[c] /\ n'[c] = n[c]
    BY <1>2, Entered DEF OutputsInv
  <1> QED BY <1>1, <1>3, <1>4, <1>5, MoveKeeps DEF Held, Roomy, Inside

\* The command dies; what it left stays.
LEMMA DieKeeps ==
    ASSUME OutputsInv, NEW b \in Builds, Die(b)
    PROVE  OutputsInv'
  <1>1. UNCHANGED <<file, target>> /\ Enter(b, "dead", 1)
    BY DEF Die
  <1>2. TypeOK'
    BY <1>1 DEF OutputsInv, TypeOK, Enter
  <1>3. /\ pc'[b] = "dead"
        /\ \A c \in Builds \ {b} : pc'[c] = pc[c] /\ n'[c] = n[c]
    BY <1>1, Entered DEF OutputsInv
  <1> QED BY <1>1, <1>2, <1>3, MoveKeeps DEF OutputsInv, Held, Roomy, Looping, Inside

-----------------------------------------------------------------------------
(* Steps that plan, or change a file *)

\* A command that plans owns nothing yet.
LEMMA PlanKeeps ==
    ASSUME OutputsInv, NEW b \in Builds, NEW t \in Targets, Plan(b, t)
    PROVE  OutputsInv'
  <1> USE DEF OutputsInv
  <1>1. pc[b] = "plan" /\ UNCHANGED file /\ Enter(b, "stat", 1)
    BY DEF Plan
  <1>2. target'[b] = t /\ \A c \in Builds \ {b} : target'[c] = target[c]
    BY DEF Plan, TypeOK
  <1>3. /\ pc'[b] = "stat" /\ n'[b] = 1
        /\ \A c \in Builds \ {b} : pc'[c] = pc[c] /\ n'[c] = n[c]
    BY <1>1, Entered
  <1>4. t \in Seq(Paths) /\ t # <<>>
    BY TargetsAssumption
  <1>5. TypeOK'
    BY <1>1 DEF TypeOK, Enter, Plan
  <1>6. Bounds'
    BY <1>2, <1>3, <1>4 DEF Bounds, Looping
  <1>7. Exclusive'
    BY <1>1, <1>3 DEF Exclusive, Inside
  <1>8. InPlace'
    BY <1>1, <1>2, <1>3 DEF InPlace, Held, Image
  <1>9. Room'
    <2> SUFFICES ASSUME NEW c \in Builds, NEW i \in DOMAIN target'[c], Roomy(c, i)'
                 PROVE  file[target'[c][i]] = None
      BY <1>1 DEF Room, Roomy
    <2>1. c # b
      BY <1>2, <1>3, <1>4 DEF Roomy
    <2> QED BY <1>2, <1>3, <2>1 DEF Room, Roomy
  <1>10. Mine'
    <2> SUFFICES ASSUME NEW p \in Paths, file[p] # None
                 PROVE  LET f == file[p] IN
                    /\ f.of \in DOMAIN target'[f.by]
                    /\ pc'[f.by] \notin {"lock", "plan", "stat", "rejected", "cleaned"}
                    /\ f.kind = "image" =>
                        /\ f = Image(f.by, f.of)
                        /\ p = target'[f.by][f.of]
                        /\ pc'[f.by] = "build" => f.of < n'[f.by]
                        /\ pc'[f.by] = "clean" => f.of <= n'[f.by]
                    /\ f.kind = "metadata" =>
                        /\ f = Metadata(f.by, f.of)
                        /\ p = MetadataPath[target'[f.by][f.of]]
                        /\ pc'[f.by] \in {"metadata", "done", "kept", "dead"}
                        /\ file[target'[f.by][f.of]] = Image(f.by, f.of)
      BY <1>1 DEF Mine, Image, Metadata
    <2>1. file[p].by \in Builds
      BY DEF TypeOK, Files
    <2>2. file[p].by # b
      BY <1>1 DEF Mine
    <2> QED BY <1>2, <1>3, <2>1, <2>2 DEF Mine
  <1> QED BY <1>5, <1>6, <1>7, <1>8, <1>9, <1>10

\* No metadata file takes the place of an output.
LEMMA Apart ==
    ASSUME MetadataApart, TypeOK, NEW b \in Builds, NEW c \in Builds,
           NEW i \in DOMAIN target[b], NEW j \in DOMAIN target[c]
    PROVE  /\ MetadataPath[target[b][i]] # target[c][j]
           /\ MetadataPath[target[b][i]] = MetadataPath[target[c][j]] => target[b][i] = target[c][j]
  BY TargetPaths DEF MetadataApart

\* An image is put where nothing is.
LEMMA InjectKeeps ==
    ASSUME SharedLock, OutputsInv, NEW b \in Builds, Inject(b)
    PROVE  OutputsInv' /\ file[Path(b)] = None
  <1> USE DEF OutputsInv
  <1>1. /\ pc[b] = "build" /\ UNCHANGED target
        /\ file' = [file EXCEPT ![Path(b)] = Image(b, n[b])]
    BY DEF Inject
  <1>2. n[b] \in DOMAIN target[b] /\ target[b] \in Seq(Paths) /\ target[b] # <<>> /\ n[b] \in Nat \ {0}
    BY <1>1, TargetPaths DEF Bounds, Looping
  <1>3. file[Path(b)] = None /\ Path(b) \in Paths
    BY <1>1, <1>2, TargetPaths DEF Room, Path
  <1>4. Image(b, n[b]) \in Files /\ Image(b, n[b]) # None
    BY <1>2, NoneAssumption DEF Image, Files
  <1>5. /\ file'[Path(b)] = Image(b, n[b])
        /\ \A p \in Paths : p # Path(b) => file'[p] = file[p]
    BY <1>1, <1>3 DEF TypeOK
  <1>6. /\ \A c \in Builds \ {b} : pc'[c] = pc[c] /\ n'[c] = n[c]
        /\ \/ pc'[b] = "build" /\ n'[b] = n[b] + 1 /\ ~Last(b)
           \/ pc'[b] = "built" /\ Last(b)
    BY <1>1, Entered, Stayed DEF Inject
  <1>7. TypeOK'
    <2>1. file' \in [Paths -> Files \cup {None}]
      BY <1>1, <1>4 DEF TypeOK
    <2>2. CASE Stay(b, n[b] + 1)
      BY <1>1, <1>2, <2>1, <2>2 DEF TypeOK, Stay
    <2>3. CASE Enter(b, "built", 1)
      BY <1>1, <1>2, <2>1, <2>3 DEF TypeOK, Enter
    <2> QED BY <2>2, <2>3 DEF Inject
  <1>8. Bounds'
    BY <1>1, <1>2, <1>6 DEF Bounds, Looping, Last
  <1>9. Exclusive'
    BY <1>1, <1>6 DEF Exclusive, Inside
  <1>10. InPlace'
    <2> SUFFICES ASSUME NEW c \in Builds, NEW i \in DOMAIN target[c], Held(c, i)'
                 PROVE  file'[target[c][i]] = Image(c, i)
      BY <1>1 DEF InPlace, Held, Image
    <2>0. target[c][i] \in Paths /\ i \in Nat \ {0}
      BY TargetPaths
    <2>1. CASE Held(c, i)
      <3>1. file[target[c][i]] = Image(c, i) /\ Image(c, i) # None
        BY <2>0, <2>1, NoneAssumption DEF InPlace, Image, Files
      <3> QED BY <1>3, <1>5, <2>0, <3>1
    <2>2. CASE ~Held(c, i)
      <3>1. c = b /\ i = n[b]
        BY <1>1, <1>2, <1>6, <2>0, <2>2 DEF Held, Last
      <3> QED BY <1>5, <3>1 DEF Path
    <2> QED BY <2>1, <2>2
  <1>11. Room'
    <2> SUFFICES ASSUME NEW c \in Builds, NEW i \in DOMAIN target[c], Roomy(c, i)'
                 PROVE  file'[target[c][i]] = None
      BY <1>1 DEF Room, Roomy
    <2>0. target[c][i] \in Paths /\ i \in Nat \ {0}
      BY TargetPaths
    <2>1. c = b
      BY <1>1, <1>6 DEF Exclusive, Inside, Roomy
    <2>2. i > n[b]
      BY <1>2, <1>6, <2>0, <2>1 DEF Roomy
    <2>3. target[b][i] # Path(b)
      BY <1>2, <2>1, <2>2, TargetPaths DEF Path
    <2>4. file[target[b][i]] = None
      BY <1>1, <1>2, <2>0, <2>1, <2>2 DEF Room
    <2> QED BY <1>5, <2>0, <2>1, <2>3, <2>4
  <1>12. Mine'
    <2> SUFFICES ASSUME NEW p \in Paths, file'[p] # None
                 PROVE  LET f == file'[p] IN
                    /\ f.of \in DOMAIN target[f.by]
                    /\ pc'[f.by] \notin {"lock", "plan", "stat", "rejected", "cleaned"}
                    /\ f.kind = "image" =>
                        /\ f = Image(f.by, f.of)
                        /\ p = target[f.by][f.of]
                        /\ pc'[f.by] = "build" => f.of < n'[f.by]
                        /\ pc'[f.by] = "clean" => f.of <= n'[f.by]
                    /\ f.kind = "metadata" =>
                        /\ f = Metadata(f.by, f.of)
                        /\ p = MetadataPath[target[f.by][f.of]]
                        /\ pc'[f.by] \in {"metadata", "done", "kept", "dead"}
                        /\ file'[target[f.by][f.of]] = Image(f.by, f.of)
      BY <1>1 DEF Mine, Image, Metadata
    <2>1. CASE p = Path(b)
      <3> DEFINE f == Image(b, n[b])
      <3>1. f.kind = "image" /\ f.by = b /\ f.of = n[b] /\ file'[p] = f
        BY <1>5, <2>1 DEF Image
      <3>2. f = Image(f.by, f.of) /\ p = target[f.by][f.of] /\ f.of \in DOMAIN target[f.by]
        BY <1>2, <2>1, <3>1 DEF Path
      <3>3. pc'[b] \in {"build", "built"} /\ (pc'[b] = "build" => n[b] < n'[b])
        BY <1>2, <1>6
      <3> HIDE DEF f
      <3> QED BY <3>1, <3>2, <3>3
    <2>2. CASE p # Path(b)
      <3> DEFINE f == file[p]
      <3>1. file'[p] = f /\ f # None /\ f.by \in Builds
        BY <1>5, <2>2 DEF TypeOK, Files
      <3>2. f.of \in DOMAIN target[f.by] /\ f.of \in Nat
        BY <3>1, TargetPaths DEF Mine
      <3>3. f.kind = "metadata" => file'[target[f.by][f.of]] = Image(f.by, f.of)
        <4> SUFFICES ASSUME f.kind = "metadata" PROVE file'[target[f.by][f.of]] = Image(f.by, f.of)
          OBVIOUS
        <4>1. file[target[f.by][f.of]] = Image(f.by, f.of) /\ Image(f.by, f.of) # None
          BY <3>1, <3>2, NoneAssumption DEF Mine, Image, Files
        <4>2. target[f.by][f.of] \in Paths
          BY <3>1, <3>2, TargetPaths
        <4> QED BY <1>3, <1>5, <4>1, <4>2
      <3>4. /\ f.kind = "image" => f = Image(f.by, f.of) /\ p = target[f.by][f.of]
            /\ f.kind = "metadata" => f = Metadata(f.by, f.of) /\ p = MetadataPath[target[f.by][f.of]]
        BY <3>1 DEF Mine
      <3>5. CASE f.by = b
        <4>1. f.kind # "metadata" /\ (f.kind = "image" => f.of < n[b])
          BY <1>1, <3>1, <3>5 DEF Mine
        <4>2. pc'[b] \in {"build", "built"} /\ (pc'[b] = "build" => n'[b] = n[b] + 1)
          BY <1>6
        <4>3. f.kind = "image" /\ pc'[b] = "build" => f.of < n'[b]
          BY <1>2, <3>2, <4>1, <4>2
        <4> QED BY <3>1, <3>2, <3>4, <3>5, <4>1, <4>2, <4>3
      <3>6. CASE f.by # b
        BY <1>6, <3>1, <3>2, <3>3, <3>4, <3>6 DEF Mine
      <3> QED BY <3>5, <3>6
    <2> QED BY <2>1, <2>2
  <1> QED BY <1>3, <1>7, <1>8, <1>9, <1>10, <1>11, <1>12

\* A command removes an image of its own.
LEMMA RemoveKeeps ==
    ASSUME OutputsInv, NEW b \in Builds, Remove(b)
    PROVE  OutputsInv' /\ file[Path(b)] = Image(b, n[b]) /\ (pc'[b] # pc[b] \/ n'[b] # n[b])
  <1> USE DEF OutputsInv
  <1>1. /\ pc[b] \in {"clean", "litter"} /\ UNCHANGED target
        /\ file' = [file EXCEPT ![Path(b)] = None]
    BY DEF Remove
  <1>2. n[b] \in DOMAIN target[b] /\ target[b] \in Seq(Paths) /\ target[b] # <<>> /\ n[b] \in Nat \ {0}
    BY <1>1, TargetPaths DEF Bounds, Looping
  <1>3. Path(b) \in Paths /\ file[Path(b)] = Image(b, n[b])
    BY <1>1, <1>2, TargetPaths DEF InPlace, Held, Path
  <1>4. /\ file'[Path(b)] = None
        /\ \A p \in Paths : p # Path(b) => file'[p] = file[p]
    BY <1>1, <1>3 DEF TypeOK
  <1>5. PICK stage \in {"clean", "litter", "cleaned", "littered"} : \E k \in 1..n[b] :
            /\ Enter(b, stage, k)
            /\ stage \in {"clean", "litter"} => k = n[b] - 1
            /\ stage \in {"clean", "cleaned"} <=> pc[b] = "clean"
            /\ stage = "cleaned" => n[b] = 1
    <2>1. n[b] > 1 => n[b] - 1 \in 1..n[b]
      BY <1>2
    <2>2. 1 \in 1..n[b]
      BY <1>2
    <2>3. CASE pc[b] = "clean" /\ n[b] > 1 /\ Enter(b, "clean", n[b] - 1)
      BY <2>1, <2>3
    <2>4. CASE pc[b] = "clean" /\ n[b] = 1 /\ Enter(b, "cleaned", 1)
      BY <2>2, <2>4
    <2>5. CASE pc[b] = "litter" /\ n[b] > 1 /\ Enter(b, "litter", n[b] - 1)
      BY <2>1, <2>5
    <2>6. CASE pc[b] = "litter" /\ n[b] = 1 /\ Enter(b, "littered", 1)
      BY <2>2, <2>6
    <2> QED BY <2>3, <2>4, <2>5, <2>6 DEF Remove, NextRemoval
  <1>6. PICK k \in 1..n[b] :
            /\ Enter(b, stage, k)
            /\ stage \in {"clean", "litter"} => k = n[b] - 1
            /\ stage \in {"clean", "cleaned"} <=> pc[b] = "clean"
            /\ stage = "cleaned" => n[b] = 1
    BY <1>5
  <1>7. /\ pc'[b] = stage /\ n'[b] = k
        /\ \A c \in Builds \ {b} : pc'[c] = pc[c] /\ n'[c] = n[c]
    BY <1>6, Entered
  <1>8. TypeOK'
    <2>1. file' \in [Paths -> Files \cup {None}] /\ target' \in [Builds -> Targets \cup {<<>>}]
      BY <1>1 DEF TypeOK
    <2>2. pc' = [pc EXCEPT ![b] = stage] /\ n' = [n EXCEPT ![b] = k] /\ k \in Nat \ {0}
      BY <1>2, <1>6 DEF Enter
    <2> QED BY <2>1, <2>2 DEF TypeOK
  <1>9. Bounds'
    BY <1>1, <1>2, <1>7 DEF Bounds, Looping
  <1>10. Exclusive'
    BY <1>1, <1>7 DEF Exclusive, Inside
  <1>11. InPlace'
    <2> SUFFICES ASSUME NEW c \in Builds, NEW i \in DOMAIN target[c], Held(c, i)'
                 PROVE  file'[target[c][i]] = Image(c, i)
      BY <1>1 DEF InPlace, Held, Image
    <2>0. target[c][i] \in Paths /\ i \in Nat \ {0}
      BY TargetPaths
    <2>1. Held(c, i) /\ (c = b => i # n[b])
      BY <1>1, <1>2, <1>6, <1>7, <2>0 DEF Held
    <2>2. file[target[c][i]] = Image(c, i)
      BY <2>1 DEF InPlace
    <2>3. target[c][i] # Path(b)
      BY <1>3, <2>1, <2>2 DEF Image
    <2> QED BY <1>4, <2>0, <2>2, <2>3
  <1>12. Room'
    <2> SUFFICES ASSUME NEW c \in Builds, NEW i \in DOMAIN target[c], Roomy(c, i)'
                 PROVE  file'[target[c][i]] = None
      BY <1>1 DEF Room, Roomy
    <2>1. c # b /\ Roomy(c, i)
      BY <1>7 DEF Roomy
    <2>2. file[target[c][i]] = None /\ target[c][i] \in Paths
      BY <2>1, TargetPaths DEF Room, Roomy
    <2> QED BY <1>4, <2>2
  <1>13. Mine'
    <2> SUFFICES ASSUME NEW p \in Paths, file'[p] # None
                 PROVE  LET f == file'[p] IN
                    /\ f.of \in DOMAIN target[f.by]
                    /\ pc'[f.by] \notin {"lock", "plan", "stat", "rejected", "cleaned"}
                    /\ f.kind = "image" =>
                        /\ f = Image(f.by, f.of)
                        /\ p = target[f.by][f.of]
                        /\ pc'[f.by] = "build" => f.of < n'[f.by]
                        /\ pc'[f.by] = "clean" => f.of <= n'[f.by]
                    /\ f.kind = "metadata" =>
                        /\ f = Metadata(f.by, f.of)
                        /\ p = MetadataPath[target[f.by][f.of]]
                        /\ pc'[f.by] \in {"metadata", "done", "kept", "dead"}
                        /\ file'[target[f.by][f.of]] = Image(f.by, f.of)
      BY <1>1 DEF Mine, Image, Metadata
    <2> DEFINE f == file[p]
    <2>1. p # Path(b) /\ file'[p] = f /\ f # None /\ f.by \in Builds
      BY <1>4 DEF TypeOK, Files
    <2>2. f.of \in DOMAIN target[f.by] /\ f.of \in Nat
      BY <2>1, TargetPaths DEF Mine
    <2>3. /\ f.kind = "image" => f = Image(f.by, f.of) /\ p = target[f.by][f.of]
          /\ f.kind = "metadata" => f = Metadata(f.by, f.of) /\ p = MetadataPath[target[f.by][f.of]]
      BY <2>1 DEF Mine
    <2>4. f.kind \in {"image", "metadata"}
      BY <2>1 DEF TypeOK, Files
    <2>5. CASE f.by = b
      <3>1. f.kind = "image"
        BY <1>1, <2>1, <2>4, <2>5 DEF Mine
      <3>2. f.of # n[b]
        BY <2>1, <2>3, <2>5, <3>1 DEF Path
      <3>3. pc[b] = "clean" => f.of <= n[b]
        BY <2>1, <2>5, <3>1 DEF Mine
      <3>4. pc[b] = "clean" => f.of <= n[b] - 1 /\ stage = "clean"
        BY <1>2, <1>6, <2>2, <2>5, <3>2, <3>3
      <3>5. pc'[b] # "cleaned" /\ (pc'[b] = "clean" => f.of <= n'[b])
        BY <1>6, <1>7, <3>4
      <3> QED BY <1>7, <2>1, <2>2, <2>3, <2>5, <3>1, <3>5
    <2>6. CASE f.by # b
      <3>1. f.kind = "metadata" => file'[target[f.by][f.of]] = Image(f.by, f.of)
        <4> SUFFICES ASSUME f.kind = "metadata" PROVE file'[target[f.by][f.of]] = Image(f.by, f.of)
          OBVIOUS
        <4>1. file[target[f.by][f.of]] = Image(f.by, f.of)
          BY <2>1 DEF Mine
        <4>2. target[f.by][f.of] \in Paths /\ target[f.by][f.of] # Path(b)
          BY <1>3, <2>1, <2>2, <2>6, <4>1, TargetPaths DEF Image
        <4> QED BY <1>4, <4>1, <4>2
      <3> QED BY <1>7, <2>1, <2>2, <2>3, <2>6, <3>1 DEF Mine
    <2> QED BY <2>5, <2>6
  <1>14. pc'[b] # pc[b] \/ n'[b] # n[b]
    BY <1>1, <1>2, <1>6, <1>7
  <1> QED BY <1>3, <1>8, <1>9, <1>10, <1>11, <1>12, <1>13, <1>14

\* A metadata file is put beside an image that is in place.
LEMMA WriteMetadataKeeps ==
    ASSUME MetadataApart, OutputsInv, NEW b \in Builds, WriteMetadata(b)
    PROVE  /\ OutputsInv'
           /\ LET m == MetadataPath[Path(b)] IN file[m] # None => file[m].by = b
           /\ pc'[b] # pc[b] \/ n'[b] # n[b]
  <1> USE DEF OutputsInv
  <1> DEFINE m == MetadataPath[Path(b)]
  <1>1. /\ pc[b] = "metadata" /\ UNCHANGED target
        /\ file' = [file EXCEPT ![m] = Metadata(b, n[b])]
    BY DEF WriteMetadata
  <1>2. n[b] \in DOMAIN target[b] /\ target[b] \in Seq(Paths) /\ n[b] \in Nat \ {0}
    BY <1>1, TargetPaths DEF Bounds, Looping
  <1>3. m \in Paths /\ file[Path(b)] = Image(b, n[b])
    BY <1>1, <1>2, TargetPaths DEF InPlace, Held, Path
  <1>4. \A c \in Builds : \A i \in DOMAIN target[c] : target[c][i] # m
    BY <1>2, Apart DEF Path
  <1>5. Metadata(b, n[b]) \in Files /\ Metadata(b, n[b]) # None
    BY <1>2, NoneAssumption DEF Metadata, Files
  <1>6. /\ file'[m] = Metadata(b, n[b])
        /\ \A p \in Paths : p # m => file'[p] = file[p]
    BY <1>1, <1>3 DEF TypeOK
  <1>7. /\ \A c \in Builds \ {b} : pc'[c] = pc[c] /\ n'[c] = n[c]
        /\ \/ pc'[b] = "metadata" /\ n'[b] = n[b] + 1 /\ ~Last(b)
           \/ pc'[b] = "done"
    BY <1>1, Entered, Stayed DEF WriteMetadata
  <1>8. TypeOK'
    <2>1. file' \in [Paths -> Files \cup {None}]
      BY <1>1, <1>5 DEF TypeOK
    <2>2. CASE Stay(b, n[b] + 1)
      BY <1>1, <1>2, <2>1, <2>2 DEF TypeOK, Stay
    <2>3. CASE Enter(b, "done", 1)
      BY <1>1, <1>2, <2>1, <2>3 DEF TypeOK, Enter
    <2> QED BY <2>2, <2>3 DEF WriteMetadata
  <1>9. Bounds'
    BY <1>1, <1>2, <1>7 DEF Bounds, Looping, Last
  <1>10. Exclusive'
    BY <1>1, <1>7 DEF Exclusive, Inside
  <1>11. InPlace'
    <2> SUFFICES ASSUME NEW c \in Builds, NEW i \in DOMAIN target[c], Held(c, i)'
                 PROVE  file'[target[c][i]] = Image(c, i)
      BY <1>1 DEF InPlace, Held, Image
    <2>1. Held(c, i)
      BY <1>1, <1>7 DEF Held
    <2>2. target[c][i] \in Paths
      BY TargetPaths
    <2> QED BY <1>4, <1>6, <2>1, <2>2 DEF InPlace
  <1>12. Room'
    <2> SUFFICES ASSUME NEW c \in Builds, NEW i \in DOMAIN target[c], Roomy(c, i)'
                 PROVE  file'[target[c][i]] = None
      BY <1>1 DEF Room, Roomy
    <2>1. Roomy(c, i) /\ target[c][i] \in Paths
      BY <1>7, TargetPaths DEF Roomy
    <2> QED BY <1>4, <1>6, <2>1 DEF Room, Roomy
  <1>13. Mine'
    <2> SUFFICES ASSUME NEW p \in Paths, file'[p] # None
                 PROVE  LET f == file'[p] IN
                    /\ f.of \in DOMAIN target[f.by]
                    /\ pc'[f.by] \notin {"lock", "plan", "stat", "rejected", "cleaned"}
                    /\ f.kind = "image" =>
                        /\ f = Image(f.by, f.of)
                        /\ p = target[f.by][f.of]
                        /\ pc'[f.by] = "build" => f.of < n'[f.by]
                        /\ pc'[f.by] = "clean" => f.of <= n'[f.by]
                    /\ f.kind = "metadata" =>
                        /\ f = Metadata(f.by, f.of)
                        /\ p = MetadataPath[target[f.by][f.of]]
                        /\ pc'[f.by] \in {"metadata", "done", "kept", "dead"}
                        /\ file'[target[f.by][f.of]] = Image(f.by, f.of)
      BY <1>1 DEF Mine, Image, Metadata
    <2>1. CASE p = m
      <3> DEFINE f == Metadata(b, n[b])
      <3>1. f.kind = "metadata" /\ f.by = b /\ f.of = n[b] /\ file'[p] = f
        BY <1>6, <2>1 DEF Metadata
      <3>2. /\ f = Metadata(f.by, f.of) /\ p = MetadataPath[target[f.by][f.of]]
            /\ f.of \in DOMAIN target[f.by]
        BY <1>2, <2>1, <3>1 DEF Path
      <3>3. file'[target[b][n[b]]] = Image(b, n[b])
        BY <1>2, <1>3, <1>4, <1>6, TargetPaths DEF Path
      <3>4. pc'[b] \in {"metadata", "done"}
        BY <1>7
      <3> HIDE DEF f
      <3> QED BY <3>1, <3>2, <3>3, <3>4
    <2>2. CASE p # m
      <3> DEFINE f == file[p]
      <3>1. file'[p] = f /\ f # None /\ f.by \in Builds
        BY <1>6, <2>2 DEF TypeOK, Files
      <3>2. f.of \in DOMAIN target[f.by]
        BY <3>1 DEF Mine
      <3>3. target[f.by][f.of] \in Paths /\ target[f.by][f.of] # m
        BY <1>4, <3>1, <3>2, TargetPaths
      <3>4. file'[target[f.by][f.of]] = file[target[f.by][f.of]]
        BY <1>6, <3>3
      <3>5. /\ pc'[f.by] = "build" => pc[f.by] = "build" /\ n'[f.by] = n[f.by]
            /\ pc'[f.by] = "clean" => pc[f.by] = "clean" /\ n'[f.by] = n[f.by]
            /\ pc'[f.by] \in {"lock", "plan", "stat", "rejected", "cleaned"} => pc'[f.by] = pc[f.by]
            /\ pc[f.by] \in {"metadata", "done", "kept", "dead"} =>
                pc'[f.by] \in {"metadata", "done", "kept", "dead"}
        BY <1>1, <1>7, <3>1
      <3> QED BY <3>1, <3>2, <3>4, <3>5 DEF Mine
    <2> QED BY <2>1, <2>2
  <1>14. file[m] # None => file[m].by = b
    <2> SUFFICES ASSUME file[m] # None PROVE file[m].by = b
      OBVIOUS
    <2> DEFINE f == file[m]
    <2>1. f.by \in Builds /\ f.of \in DOMAIN target[f.by] /\ f.kind \in {"image", "metadata"}
      BY <1>3 DEF Mine, TypeOK, Files
    <2>2. f.kind = "metadata"
      BY <1>3, <1>4, <2>1 DEF Mine
    <2>3. m = MetadataPath[target[f.by][f.of]] /\ file[target[f.by][f.of]] = Image(f.by, f.of)
      BY <1>3, <2>2 DEF Mine
    <2>4. target[f.by][f.of] = Path(b)
      BY <1>2, <2>1, <2>3, Apart DEF Path
    <2> QED BY <1>3, <2>3, <2>4 DEF Image
  <1>15. pc'[b] # pc[b] \/ n'[b] # n[b]
    BY <1>1, <1>2, <1>7
  <1> QED BY <1>8, <1>9, <1>10, <1>11, <1>12, <1>13, <1>14, <1>15

-----------------------------------------------------------------------------
(* Theorems *)

\* At the start, nothing is there.
LEMMA OutputsInit == Init => OutputsInv
  <1> SUFFICES ASSUME Init PROVE OutputsInv
    OBVIOUS
  <1>1. TypeOK
    BY DEF Init, TypeOK
  <1>2. \A b \in Builds : pc[b] = "lock" /\ target[b] = <<>> /\ n[b] = 1
    BY DEF Init
  <1>3. \A p \in Paths : file[p] = None
    BY DEF Init
  <1> QED BY <1>1, <1>2, <1>3 DEF OutputsInv, Bounds, Exclusive, Inside, InPlace, Held, Room, Mine, Looping

\* Nothing changes in a stuttering step.
LEMMA StutterKeeps == OutputsInv /\ UNCHANGED vars => OutputsInv'
  BY DEF vars, OutputsInv, TypeOK, Bounds, Exclusive, Inside, InPlace, Held, Image, Room, Mine, Metadata

\* Every step keeps the invariant.
LEMMA OutputsNext ==
    ASSUME SharedLock, MetadataApart, OutputsInv, [Next]_vars
    PROVE  OutputsInv'
  <1>1. CASE UNCHANGED vars
    BY <1>1, StutterKeeps
  <1>2. ASSUME NEW b \in Builds, Step(b) PROVE OutputsInv'
    <2>1. CASE Lock(b)
      BY <2>1, LockKeeps
    <2>2. CASE \E t \in Targets : Plan(b, t)
      BY <2>2, PlanKeeps
    <2>3. CASE Absent(b)
      BY <2>3, AbsentKeeps
    <2>4. CASE Rejected(b)
      BY <2>4, RejectedKeeps
    <2>5. CASE Inject(b)
      BY <2>5, InjectKeeps
    <2>6. CASE InjectFails(b)
      BY <2>6, InjectFailsKeeps
    <2>7. CASE Remove(b)
      BY <2>7, RemoveKeeps
    <2>8. CASE RemoveFails(b)
      BY <2>8, RemoveFailsKeeps
    <2>9. CASE Unlock(b) \/ FailsLate(b)
      BY <2>9, UnlockKeeps
    <2>10. CASE WriteMetadata(b)
      BY <2>10, WriteMetadataKeeps
    <2>11. CASE Die(b)
      BY <2>11, DieKeeps
    <2> QED BY <1>2, <2>1, <2>2, <2>3, <2>4, <2>5, <2>6, <2>7, <2>8, <2>9, <2>10, <2>11 DEF Step
  <1> QED BY <1>1, <1>2 DEF Next

\* The invariant, for builds that share a cache directory and whose outputs are
\* not named like the metadata file of another.
THEOREM OutputsInvariant ==
    ASSUME SharedLock, MetadataApart
    PROVE  Spec => []OutputsInv
  BY OutputsInit, OutputsNext, PTL DEF Spec

\* Every variable keeps its type (Provider.Build, writeBuildArtifactMetadata).
THEOREM OutputsTypeCorrect ==
    ASSUME SharedLock, MetadataApart
    PROVE  Spec => []TypeOK
  <1>1. OutputsInv => TypeOK
    BY DEF OutputsInv
  <1> QED BY <1>1, OutputsInvariant, PTL

\* An image that a command has built, or has reported, is in its place
\* (Provider.Build, runIncusOSBuild).
THEOREM ImagesAreInPlace ==
    ASSUME SharedLock, MetadataApart
    PROVE  Spec => []ImagesInPlace
  <1>1. OutputsInv => ImagesInPlace
    BY DEF OutputsInv, InPlace, Held, ImagesInPlace
  <1> QED BY <1>1, OutputsInvariant, PTL

\* A build that failed and cleaned up leaves no image (cleanupBuiltOutputs).
THEOREM FailedBuildsLeaveNone ==
    ASSUME SharedLock, MetadataApart
    PROVE  Spec => []FailedLeavesNone
  <1>1. OutputsInv => FailedLeavesNone
    BY DEF OutputsInv, Mine, FailedLeavesNone
  <1> QED BY <1>1, OutputsInvariant, PTL

\* The metadata beside an image is the image's own (writeBuildArtifactMetadata).
THEOREM MetadataIsTrue ==
    ASSUME SharedLock, MetadataApart
    PROVE  Spec => []MetadataTrue
  <1>1. OutputsInv => MetadataTrue
    <2> SUFFICES ASSUME OutputsInv, NEW b \in Builds, pc[b] = "done", NEW i \in DOMAIN target[b],
                        file[MetadataPath[target[b][i]]] # None
                 PROVE  file[MetadataPath[target[b][i]]] = Metadata(b, i)
      BY DEF MetadataTrue
    <2> USE DEF OutputsInv
    <2> DEFINE m == MetadataPath[target[b][i]]
               f == file[m]
    <2>1. m \in Paths /\ f # None
      BY TargetPaths
    <2>2. f.by \in Builds /\ f.of \in DOMAIN target[f.by] /\ f.kind \in {"image", "metadata"}
      BY <2>1 DEF Mine, TypeOK, Files
    <2>3. f.kind = "metadata"
      BY <2>1, <2>2, Apart DEF Mine
    <2>4. /\ f = Metadata(f.by, f.of)
          /\ m = MetadataPath[target[f.by][f.of]]
          /\ file[target[f.by][f.of]] = Image(f.by, f.of)
      BY <2>1, <2>3 DEF Mine
    <2>5. target[f.by][f.of] = target[b][i]
      BY <2>2, <2>4, Apart
    <2>6. file[target[b][i]] = Image(b, i)
      BY DEF InPlace, Held
    <2> QED BY <2>4, <2>5, <2>6 DEF Image
  <1> QED BY <1>1, OutputsInvariant, PTL

\* A file is replaced or removed only by a step of the command it is by
\* (rejectExistingOutputPaths, cleanupBuiltOutputs).
THEOREM OthersAreUntouched ==
    ASSUME SharedLock, MetadataApart
    PROVE  Spec => OthersUntouched
  <1> DEFINE Kept == \A p \in Paths : file[p] # None /\ file'[p] # file[p]
                        => pc'[file[p].by] # pc[file[p].by] \/ n'[file[p].by] # n[file[p].by]
  <1>1. OutputsInv /\ [Next]_vars => [Kept]_vars
    <2> SUFFICES ASSUME OutputsInv, NEW b \in Builds, Step(b), NEW p \in Paths,
                        file[p] # None, file'[p] # file[p]
                 PROVE  pc'[file[p].by] # pc[file[p].by] \/ n'[file[p].by] # n[file[p].by]
      BY DEF Next
    <2>1. CASE Inject(b)
      <3>1. file[Path(b)] = None
        BY <2>1, InjectKeeps
      <3> QED BY <2>1, <3>1 DEF Inject, OutputsInv, TypeOK
    <2>2. CASE Remove(b)
      <3>1. file[Path(b)] = Image(b, n[b]) /\ (pc'[b] # pc[b] \/ n'[b] # n[b])
        BY <2>2, RemoveKeeps
      <3>2. p = Path(b)
        BY <2>2 DEF Remove, OutputsInv, TypeOK
      <3> QED BY <3>1, <3>2 DEF Image
    <2>3. CASE WriteMetadata(b)
      <3>1. /\ LET m == MetadataPath[Path(b)] IN file[m] # None => file[m].by = b
            /\ pc'[b] # pc[b] \/ n'[b] # n[b]
        BY <2>3, WriteMetadataKeeps
      <3>2. p = MetadataPath[Path(b)]
        BY <2>3 DEF WriteMetadata, OutputsInv, TypeOK
      <3> QED BY <3>1, <3>2
    <2>4. CASE ~Inject(b) /\ ~Remove(b) /\ ~WriteMetadata(b)
      <3>1. UNCHANGED file
        BY <2>4 DEF Step, Lock, Plan, Absent, Rejected, InjectFails, RemoveFails, Unlock, FailsLate, Die
      <3> QED BY <3>1
    <2> QED BY <2>1, <2>2, <2>3, <2>4
  <1> QED BY <1>1, OutputsInvariant, PTL DEF Spec, OthersUntouched

================================================================================
