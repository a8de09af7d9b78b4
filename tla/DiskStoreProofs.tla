--------------------------- MODULE DiskStoreProofs ---------------------------
(***************************************************************************)
(* PublishedWhole holds of DiskStore for any number of processes, digests   *)
(* and files.  StoreInv is inductive: a file that waits to be linked belongs *)
(* to one call, is whole, and no blob path leads to it.                      *)
(*                                                                         *)
(* The lemmas are stated per operation and do not mention who calls it, so   *)
(* that CachedBuildProofs can cite them.                                     *)
(***************************************************************************)
EXTENDS DiskStore, FiniteSetTheorems, WellFoundedInduction, TLAPS

USE DEF Goto, Finish, Outcomes, NotFile, NoDigest

LEMMA NotInodes == None \notin Inodes /\ Odd \notin Inodes
  BY SentinelsAssumption

-----------------------------------------------------------------------------
(* Totals *)

\* The recursive function behind FoldFunction: the total over each subset.
Subtotals(f, iter) ==
    iter = [s \in SUBSET DOMAIN f |->
              IF s = {} THEN 0
              ELSE f[CHOOSE x \in s : TRUE] + iter[s \ {CHOOSE x \in s : TRUE}]]

LEMMA TotalIter ==
    ASSUME NEW f
    PROVE  Total(f) = (CHOOSE iter : Subtotals(f, iter))[DOMAIN f]
  BY DEF Total, FoldFunction, FoldFunctionOnSet, MapThenFoldSet, Subtotals

\* The bytes of the entries s of f, one by one.
Bytes(f, s) == UNION {{x} \X (1..f[x]) : x \in s}

LEMMA BytesFinite ==
    ASSUME NEW S, NEW f \in [S -> Nat], NEW s, IsFiniteSet(s), s \subseteq S
    PROVE  IsFiniteSet(Bytes(f, s))
  <1> DEFINE h == [x \in s |-> {x} \X (1..f[x])]
             T == {h[x] : x \in s}
  <1>1. h \in Surjection(s, T)
    BY DEF Surjection
  <1>2. IsFiniteSet(T)
    BY <1>1, FS_Surjection
  <1>3. \A t \in T : IsFiniteSet(t)
    <2> SUFFICES ASSUME NEW x \in s
                 PROVE  IsFiniteSet({x} \X (1..f[x]))
      OBVIOUS
    <2>1. f[x] \in Int
      OBVIOUS
    <2>2. IsFiniteSet(1..f[x])
      BY <2>1, FS_Interval
    <2>3. IsFiniteSet({x})
      BY FS_Singleton
    <2>4. QED
      BY <2>2, <2>3, FS_Product
  <1>4. T = {{x} \X (1..f[x]) : x \in s}
    OBVIOUS
  <1>5. QED
    BY <1>2, <1>3, <1>4, FS_UNION DEF Bytes

LEMMA BytesRemove ==
    ASSUME NEW S, NEW f \in [S -> Nat], NEW s, IsFiniteSet(s), s \subseteq S, NEW x \in s
    PROVE  Cardinality(Bytes(f, s)) = f[x] + Cardinality(Bytes(f, s \ {x}))
  <1> DEFINE own  == {x} \X (1..f[x])
             rest == Bytes(f, s \ {x})
  <1>0. f[x] \in Nat
    OBVIOUS
  <1>1. IsFiniteSet(own) /\ Cardinality(own) = f[x]
    <2>1. IsFiniteSet({x}) /\ Cardinality({x}) = 1
      BY FS_Singleton
    <2>2. IsFiniteSet(1..f[x]) /\ Cardinality(1..f[x]) = f[x]
      BY <1>0, FS_Interval
    <2>3. IsFiniteSet(own) /\ Cardinality(own) = 1 * f[x]
      BY <2>1, <2>2, FS_Product
    <2>4. QED
      BY <1>0, <2>3
  <1>2. IsFiniteSet(rest)
    <2>1. IsFiniteSet(s \ {x})
      BY FS_RemoveElement
    <2>2. s \ {x} \subseteq S
      OBVIOUS
    <2>3. QED
      BY <2>1, <2>2, BytesFinite
  <1>3. Bytes(f, s) = own \cup rest
    BY DEF Bytes
  <1>4. own \cap rest = {}
    BY DEF Bytes
  <1>5. Cardinality(own \cap rest) = 0 /\ Cardinality(rest) \in Nat
    BY <1>2, <1>4, FS_EmptySet, FS_CardinalityType
  <1> HIDE DEF own, rest
  <1>6. Cardinality(own \cup rest) = Cardinality(own) + Cardinality(rest) - Cardinality(own \cap rest)
    BY <1>1, <1>2, FS_Union
  <1>7. Cardinality(own \cup rest) = f[x] + Cardinality(rest)
    BY <1>0, <1>1, <1>5, <1>6
  <1>8. QED
    BY <1>3, <1>7 DEF rest

\* A total counts the bytes.
LEMMA TotalCounts ==
    ASSUME NEW S, NEW f \in [S -> Nat], IsFiniteSet(S)
    PROVE  Total(f) = Cardinality(Bytes(f, S))
  <1> DEFINE c(s)  == CHOOSE x \in s : TRUE
             g     == [s \in SUBSET S |-> Cardinality(Bytes(f, s))]
             iter  == CHOOSE i : Subtotals(f, i)
             bad   == {s \in SUBSET S : iter[s] # g[s]}
  <1>1. \A s \in SUBSET S : IsFiniteSet(s) /\ (s # {} => c(s) \in s)
    BY FS_Subset
  <1>2. g[{}] = 0
    <2>1. Bytes(f, {}) = {}
      BY DEF Bytes
    <2>2. QED
      BY <2>1, FS_EmptySet
  <1>3. \A s \in SUBSET S : s # {} => g[s] = f[c(s)] + g[s \ {c(s)}]
    <2> SUFFICES ASSUME NEW s \in SUBSET S, s # {}
                 PROVE  g[s] = f[c(s)] + g[s \ {c(s)}]
      OBVIOUS
    <2>1. IsFiniteSet(s) /\ c(s) \in s
      BY <1>1
    <2> HIDE DEF c
    <2>2. Cardinality(Bytes(f, s)) = f[c(s)] + Cardinality(Bytes(f, s \ {c(s)}))
      BY <2>1, BytesRemove
    <2>3. QED
      BY <2>2
  <1>4. Subtotals(f, g)
    <2> HIDE DEF g
    <2>1. g = [s \in SUBSET S |-> IF s = {} THEN 0 ELSE f[c(s)] + g[s \ {c(s)}]]
      <3>1. g = [s \in SUBSET S |-> g[s]]
        BY DEF g
      <3> HIDE DEF c
      <3>2. QED
        BY <1>2, <1>3, <3>1
    <2>2. QED
      BY <2>1 DEF Subtotals
  <1>5. Subtotals(f, iter)
    BY <1>4
  <1>6. /\ iter[{}] = 0
        /\ \A s \in SUBSET S : s # {} => iter[s] = f[c(s)] + iter[s \ {c(s)}]
    <2> HIDE DEF iter
    <2>1. iter = [s \in SUBSET S |-> IF s = {} THEN 0 ELSE f[c(s)] + iter[s \ {c(s)}]]
      BY <1>5 DEF Subtotals
    <2> HIDE DEF c
    <2>2. QED
      BY <2>1
  <1>7. bad = {}
    <2> HIDE DEF iter, g, c
    <2> SUFFICES ASSUME bad # {}
                 PROVE  FALSE
      OBVIOUS
    <2>1. IsWellFoundedOn(StrictSubsetOrdering(S), SUBSET S)
      BY FS_StrictSubsetOrderingWellFounded, FS_FiniteSubsetsOfFinite
    <2>2. PICK s \in bad : \A t \in bad : <<t, s>> \notin StrictSubsetOrdering(S)
      BY <2>1, WFMin
    <2>3. s # {}
      BY <1>2, <1>6
    <2>4. c(s) \in s
      BY <1>1, <2>3
    <2>5. <<s \ {c(s)}, s>> \in StrictSubsetOrdering(S)
      BY <2>4 DEF StrictSubsetOrdering
    <2>6. iter[s \ {c(s)}] = g[s \ {c(s)}]
      BY <2>2, <2>5
    <2>7. QED
      BY <1>3, <1>6, <2>3, <2>6
  <1>8. Total(f) = iter[S]
    BY TotalIter
  <1> HIDE DEF iter, bad
  <1>9. QED
    BY <1>7, <1>8 DEF bad

\* An entry-by-entry comparison compares the totals.
LEMMA TotalInjection ==
    ASSUME NEW S, NEW f \in [S -> Nat], NEW T, NEW g \in [T -> Nat], IsFiniteSet(T),
           NEW h \in Injection(S, T), \A x \in S : f[x] <= g[h[x]]
    PROVE  Total(f) <= Total(g)
  <1>1. IsFiniteSet(S) /\ h \in [S -> T]
    BY FS_Injection DEF Injection
  <1>2. Total(f) = Cardinality(Bytes(f, S)) /\ Total(g) = Cardinality(Bytes(g, T))
    BY <1>1, TotalCounts
  <1> DEFINE A == Bytes(f, S)
             B == Bytes(g, T)
             m == [b \in A |-> <<h[b[1]], b[2]>>]
  <1>3. m \in Injection(A, B)
    <2>1. \A b \in A : b = <<b[1], b[2]>> /\ b[1] \in S /\ b[2] \in 1..f[b[1]]
      BY DEF Bytes
    <2>2. \A x \in S : \A k \in 1..f[x] : <<h[x], k>> \in B
      <3> SUFFICES ASSUME NEW x \in S, NEW k \in 1..f[x]
                   PROVE  <<h[x], k>> \in B
        OBVIOUS
      <3>1. h[x] \in T /\ f[x] <= g[h[x]] /\ f[x] \in Nat /\ g[h[x]] \in Nat
        BY <1>1
      <3>2. k \in 1..g[h[x]]
        BY <3>1
      <3>3. QED
        BY <3>1, <3>2 DEF Bytes
    <2>3. m \in [A -> B]
      BY <2>1, <2>2
    <2>4. \A a, b \in A : m[a] = m[b] => a = b
      BY <2>1 DEF Injection, IsInjective
    <2>5. QED
      BY <2>3, <2>4 DEF Injection, IsInjective
  <1>4. IsFiniteSet(B)
    BY BytesFinite
  <1> HIDE DEF A, B, m
  <1>5. Cardinality(A) <= Cardinality(B)
    BY <1>3, <1>4, FS_Injection
  <1>6. QED
    BY <1>2, <1>5 DEF A, B

\* The total of two sets apart from each other is the sum of theirs.
LEMMA TotalSplit ==
    ASSUME NEW A, NEW B, IsFiniteSet(A), IsFiniteSet(B), A \cap B = {},
           \A c \in A \cup B : c.size \in Nat
    PROVE  /\ TotalSize(A) \in Nat /\ TotalSize(B) \in Nat
           /\ TotalSize(A \cup B) = TotalSize(A) + TotalSize(B)
  <1> DEFINE C == A \cup B
             f(s) == [c \in s |-> c.size]
  <1>1. IsFiniteSet(C)
    BY FS_Union
  <1>2. f(A) \in [A -> Nat] /\ f(B) \in [B -> Nat] /\ f(C) \in [C -> Nat]
    OBVIOUS
  <1>3. /\ Total(f(A)) = Cardinality(Bytes(f(A), A))
        /\ Total(f(B)) = Cardinality(Bytes(f(B), B))
        /\ Total(f(C)) = Cardinality(Bytes(f(C), C))
    BY <1>1, <1>2, TotalCounts
  <1>4. IsFiniteSet(Bytes(f(A), A)) /\ IsFiniteSet(Bytes(f(B), B))
    BY <1>2, BytesFinite
  <1>5. Bytes(f(C), C) = Bytes(f(A), A) \cup Bytes(f(B), B)
    BY DEF Bytes
  <1>6. Bytes(f(A), A) \cap Bytes(f(B), B) = {}
    BY DEF Bytes
  <1> HIDE DEF f, C
  <1>7. Cardinality(Bytes(f(C), C)) = Cardinality(Bytes(f(A), A)) + Cardinality(Bytes(f(B), B))
    <2>1. Cardinality(Bytes(f(C), C)) = Cardinality(Bytes(f(A), A))
              + Cardinality(Bytes(f(B), B)) - Cardinality({})
      BY <1>4, <1>5, <1>6, FS_Union
    <2>2. QED
      BY <1>4, <2>1, FS_EmptySet, FS_CardinalityType
  <1>8. QED
    BY <1>3, <1>4, <1>7, FS_CardinalityType DEF TotalSize, f, C

\* Of candidates with different digests one is used least recently.
LEMMA OldestExists ==
    ASSUME NEW cs \in SUBSET Candidate, cs # {},
           \A c, e \in cs : c.digest = e.digest => c = e
    PROVE  Oldest(cs) \in cs /\ \A e \in cs \ {Oldest(cs)} : Before(Oldest(cs), e)
  <1>0. \A c \in cs : c.used \in Nat /\ c.digest \in Nat
    BY DigestsAssumption DEF Candidate
  <1>1. ASSUME NEW T \in SUBSET Nat, T # {}
        PROVE  \E x \in T : \A y \in T : x <= y
    <2> DEFINE R == OpToRel(<, Nat)
    <2>1. IsWellFoundedOn(R, Nat)
      BY NatLessThanWellFounded
    <2>2. \A x, y \in Nat : x < y => <<x, y>> \in R
      BY DEF OpToRel
    <2> HIDE DEF R
    <2>3. PICK x \in T : \A y \in T : <<y, x>> \notin R
      BY <1>1, <2>1, WFMin
    <2>4. \A y \in T : x \in Nat /\ y \in Nat /\ ~(y < x)
      BY <1>1, <2>2, <2>3
    <2>5. \A y \in T : x <= y
      BY <2>4
    <2>6. QED
      BY <2>5
  <1>2. PICK u \in {c.used : c \in cs} : \A v \in {c.used : c \in cs} : u <= v
    <2>1. {c.used : c \in cs} \subseteq Nat /\ {c.used : c \in cs} # {}
      BY <1>0
    <2>2. QED
      BY <1>1, <2>1
  <1> DEFINE least == {c \in cs : c.used = u}
  <1>3. PICK m \in {c.digest : c \in least} : \A v \in {c.digest : c \in least} : m <= v
    <2>1. {c.digest : c \in least} \subseteq Nat /\ {c.digest : c \in least} # {}
      BY <1>0, <1>2
    <2>2. QED
      BY <1>1, <2>1
  <1>4. PICK c \in cs : c.used = u /\ c.digest = m
    BY <1>3
  <1>5. \A e \in cs \ {c} : Before(c, e)
    <2> SUFFICES ASSUME NEW e \in cs \ {c}
                 PROVE  Before(c, e)
      OBVIOUS
    <2>1. u <= e.used /\ e.digest # m
      BY <1>2, <1>4
    <2>2. e.used = u => m <= e.digest
      BY <1>3
    <2>3. QED
      BY <1>0, <1>4, <2>1, <2>2 DEF Before
  <1>6. QED
    BY <1>5 DEF Oldest

-----------------------------------------------------------------------------
(* Types *)

LEMMA FetchCallType ==
    ASSUME NEW p \in Procs, NEW r \in Requests, TypeOK, Fetch(p, r)
    PROVE  TypeOK'
  BY RequestsAssumption DEF TypeOK, Fetch, RequestSet, fs, FetchSteps, PruneLocalsDie

LEMMA FetchStepType ==
    ASSUME NEW p \in Procs, TypeOK, PathNamed, TempsHidden, FetchStep(p)
    PROVE  TypeOK'
  <1> USE DEF TypeOK, FetchSteps, fs, fetch, prune
  <1>1. CASE Inspect(p)
    BY <1>1 DEF Inspect, Unusable, PathNamed, OnPath
  <1>2. CASE Hash(p)
    BY <1>2 DEF Hash, Unusable, PathNamed, OnPath
  <1>3. CASE Discard(p)
    BY <1>3 DEF Discard
  <1>4. CASE Request(p)
    BY <1>4 DEF Request
  <1>5. CASE Copy(p)
    <2>1. PICK c \in Digests \cup {Partial} :
                /\ content' = [content EXCEPT ![tmp[p]] = c]
                /\ IF Accepts(req[p], c)
                   THEN /\ digest' = [digest EXCEPT ![p] = c]
                        /\ Goto(p, "link")
                        /\ UNCHANGED result
                   ELSE Finish(p, Failed) /\ UNCHANGED digest
      BY <1>5 DEF Copy
    <2>2. Accepts(req[p], c) => c \in Digests
      BY DEF Accepts
    <2>3. content' \in [Inodes -> Digests \cup NoDigest] /\ mtime' \in [Inodes -> Nat]
      BY <1>5, <2>1 DEF Copy
    <2>4. CASE Accepts(req[p], c)
      BY <1>5, <2>1, <2>2, <2>3, <2>4 DEF Copy
    <2>5. CASE ~Accepts(req[p], c)
      BY <1>5, <2>1, <2>3, <2>5 DEF Copy
    <2>6. QED
      BY <2>4, <2>5
  <1>6. CASE Link(p) \/ Relink(p)
    BY <1>6 DEF Link, Relink, LinkOr, PathNamed, OnPath, TempsHidden, Unlinked
  <1>7. CASE Touch(p)
    BY <1>7 DEF Touch, PathNamed, OnPath
  <1>8. CASE FetchFails(p)
    BY <1>8 DEF FetchFails
  <1>9. CASE Return(p)
    BY <1>9 DEF Return, FetchLocalsDie, NoRequest, RequestSet
  <1>10. QED
    BY <1>1, <1>2, <1>3, <1>4, <1>5, <1>6, <1>7, <1>8, <1>9 DEF FetchStep

LEMMA PruneCandidatesType == TypeOK => PruneCandidates \subseteq Candidate
  <1> SUFFICES ASSUME TypeOK, NEW d \in Digests, blob[d] \in Inodes
               PROVE  [digest |-> d, size |-> FileSize(blob[d]), used |-> LastUsed(d)] \in Candidate
    BY DEF PruneCandidates
  <1>1. FileSize(blob[d]) \in Nat
    BY SizesAssumption DEF TypeOK, FileSize
  <1>2. LastUsed(d) \in Nat
    BY DEF TypeOK, LastUsed
  <1>3. QED
    BY <1>1, <1>2 DEF Candidate

LEMMA PruneType ==
    ASSUME NEW p \in Procs, TypeOK, Prune(p)
    PROVE  TypeOK'
  <1>1. PICK found \in {{}, PruneCandidates} :
            /\ candidates' = [candidates EXCEPT ![p] = found]
            /\ todo' = [todo EXCEPT ![p] = found]
            /\ left' = [left EXCEPT ![p] = found]
    BY DEF Prune
  <1>2. found \subseteq Candidate
    BY PruneCandidatesType
  <1>3. /\ candidates' \in [Procs -> SUBSET Candidate]
        /\ todo' \in [Procs -> SUBSET Candidate]
        /\ left' \in [Procs -> SUBSET Candidate]
    BY <1>1, <1>2 DEF TypeOK
  <1>4. pc' \in [Procs -> {"idle", "return"} \cup FetchSteps \cup PruneSteps]
    BY DEF TypeOK, Prune, PruneSteps
  <1>5. result' \in [Procs -> Digests \cup Outcomes]
    BY DEF TypeOK, Prune
  <1>6. UNCHANGED <<fs, fetch, verified>>
    BY DEF Prune
  <1>7. QED
    BY <1>3, <1>4, <1>5, <1>6 DEF TypeOK, fs, fetch

LEMMA PruneStepType ==
    ASSUME NEW p \in Procs, TypeOK, PruneStep(p)
    PROVE  TypeOK'
  <1> USE DEF TypeOK, PruneSteps, fs, fetch, prune
  <1>1. CASE PruneEnd(p) \/ PruneInterrupted(p)
    BY <1>1 DEF PruneEnd, PruneInterrupted, PruneReturns
  <1>2. CASE Evict(p)
    BY <1>2 DEF Evict
  <1>3. CASE EvictFails(p)
    BY <1>3 DEF EvictFails
  <1>4. CASE Forget(p)
    BY <1>4 DEF Forget
  <1>5. QED
    BY <1>1, <1>2, <1>3, <1>4 DEF PruneStep

LEMMA DeathType ==
    ASSUME NEW p \in Procs, TypeOK, ProcessDies(p)
    PROVE  TypeOK'
  BY DEF TypeOK, ProcessDies, FetchLocalsDie, PruneLocalsDie, NoRequest, RequestSet, fs

LEMMA DamageType ==
    ASSUME NEW d \in Digests, TypeOK, Damage(d)
    PROVE  TypeOK'
  <1>1. blob' \in [Digests -> Inodes \cup NotFile] /\ content' \in [Inodes -> Digests \cup NoDigest]
    BY DEF TypeOK, Damage
  <1>2. QED
    BY <1>1 DEF TypeOK, Damage, fetch, prune

-----------------------------------------------------------------------------
(* The four facts about temp files, and PublishedWhole *)

FilesInv == PathNamed /\ TempsPrivate /\ TempsHidden /\ TempsWhole /\ PublishedWhole

\* A call's own step leaves the temp files of the others alone.
LEMMA FetchStepFiles ==
    ASSUME NEW p \in Procs, TypeOK, TypeOK', FilesInv, FetchStep(p)
    PROVE  FilesInv'
  <1> USE DEF FilesInv, PathNamed, TempsPrivate, TempsHidden, TempsWhole,
              PublishedWhole, OnPath, Unlinked, TypeOK, FetchSteps
  <1>1. CASE Inspect(p)
    BY <1>1 DEF Inspect, Unusable, fs
  <1>2. CASE Hash(p)
    BY <1>2 DEF Hash, Unusable, fs, fetch
  <1>3. CASE Discard(p)
    BY <1>3, NotInodes DEF Discard, fetch
  <1>4. CASE Request(p)
    <2>1. PICK i \in Inodes :
              /\ Free(i)
              /\ tmp' = [tmp EXCEPT ![p] = i]
              /\ tmpdir' = tmpdir \cup {i}
              /\ content' = [content EXCEPT ![i] = Partial]
      BY <1>4 DEF Request
    <2>2. /\ pc' = [pc EXCEPT ![p] = "copy"]
          /\ UNCHANGED <<blob, via, digest, seen>>
      BY <1>4 DEF Request
    <2>3. PathNamed'
      BY <2>2
    <2>4. TempsPrivate'
      BY <2>1, NotInodes DEF Free
    <2>5. TempsHidden'
      BY <2>1, <2>2, NotInodes DEF Free
    <2>6. TempsWhole'
      BY <2>1, <2>2 DEF Free
    <2>7. PublishedWhole'
      BY <2>1, <2>2 DEF Free
    <2>8. QED
      BY <2>3, <2>4, <2>5, <2>6, <2>7
  <1>5. CASE Copy(p)
    BY <1>5 DEF Copy, Accepts
  <1>6. CASE Link(p) \/ Relink(p)
    <2>1. pc[p] \in {"link", "relink"} /\ UNCHANGED <<content, tmpdir, digest, seen, tmp>>
      BY <1>6 DEF Link, Relink, LinkOr
    <2>2. CASE blob[digest[p]] = None
      <3>1. /\ blob' = [blob EXCEPT ![digest[p]] = tmp[p]]
            /\ pc' = [pc EXCEPT ![p] = "touch"]
            /\ UNCHANGED via
        BY <1>6, <2>2 DEF Link, Relink, LinkOr
      <3>2. tmp[p] # None /\ content[tmp[p]] = digest[p] /\ digest[p] \in Digests
        BY <2>1
      <3>3. PathNamed' /\ TempsPrivate' /\ TempsWhole'
        BY <2>1, <3>1
      <3>4. TempsHidden'
        BY <2>1, <3>1, <3>2
      <3>5. PublishedWhole'
        BY <2>1, <3>1, <3>2
      <3>6. QED
        BY <3>3, <3>4, <3>5
    <2>3. CASE blob[digest[p]] # None
      <3>1. PICK v \in {"publish", "conflict"} :
                /\ via' = [via EXCEPT ![p] = v]
                /\ pc' = [pc EXCEPT ![p] = "inspect"]
                /\ UNCHANGED blob
        BY <1>6, <2>3 DEF Link, Relink, LinkOr
      <3>2. QED
        BY <2>1, <3>1
    <2>4. QED
      BY <2>2, <2>3
  <1>7. CASE Touch(p)
    BY <1>7 DEF Touch, fetch
  <1>8. CASE FetchFails(p)
    BY <1>8 DEF FetchFails, fs, fetch
  <1>9. CASE Return(p)
    BY <1>9 DEF Return, FetchLocalsDie
  <1>10. QED
    BY <1>1, <1>2, <1>3, <1>4, <1>5, <1>6, <1>7, <1>8, <1>9 DEF FetchStep

LEMMA FetchCallFiles ==
    ASSUME NEW p \in Procs, NEW r \in Requests, TypeOK, FilesInv, Fetch(p, r)
    PROVE  FilesInv'
  BY RequestsAssumption
     DEF FilesInv, PathNamed, TempsPrivate, TempsHidden, TempsWhole, PublishedWhole,
         OnPath, Unlinked, TypeOK, Fetch, RequestSet, fs

LEMMA PruneFiles ==
    ASSUME NEW p \in Procs, TypeOK, FilesInv, Prune(p)
    PROVE  FilesInv'
  BY DEF FilesInv, PathNamed, TempsPrivate, TempsHidden, TempsWhole, PublishedWhole,
         OnPath, Unlinked, TypeOK, Prune, fs, fetch

LEMMA PruneStepFiles ==
    ASSUME NEW p \in Procs, TypeOK, FilesInv, PruneStep(p)
    PROVE  FilesInv'
  <1> USE DEF FilesInv, PathNamed, TempsPrivate, TempsHidden, TempsWhole,
              PublishedWhole, OnPath, Unlinked, TypeOK, fs, fetch
  <1>1. CASE PruneEnd(p) \/ PruneInterrupted(p)
    BY <1>1 DEF PruneEnd, PruneInterrupted, PruneReturns
  <1>2. CASE Evict(p)
    BY <1>2, NotInodes DEF Evict
  <1>3. CASE EvictFails(p)
    BY <1>3 DEF EvictFails
  <1>4. CASE Forget(p)
    BY <1>4 DEF Forget
  <1>5. QED
    BY <1>1, <1>2, <1>3, <1>4 DEF PruneStep

LEMMA DeathFiles ==
    ASSUME NEW p \in Procs, TypeOK, FilesInv, ProcessDies(p)
    PROVE  FilesInv'
  BY DEF FilesInv, PathNamed, TempsPrivate, TempsHidden, TempsWhole, PublishedWhole,
         OnPath, Unlinked, TypeOK, ProcessDies, FetchLocalsDie, fs

LEMMA DamageFiles ==
    ASSUME NEW d \in Digests, TypeOK, FilesInv, Damage(d)
    PROVE  FilesInv'
  BY NotInodes
     DEF FilesInv, PathNamed, TempsPrivate, TempsHidden, TempsWhole, PublishedWhole,
         OnPath, Unlinked, TypeOK, Damage, fetch

-----------------------------------------------------------------------------
(* The specification *)

LEMMA StoreInvInit == Init => StoreInv
  BY NotInodes
     DEF Init, StoreInv, TypeOK, PathNamed, TempsPrivate, TempsHidden, TempsWhole,
         PublishedWhole, OnPath, Unlinked, NoRequest, RequestSet

\* Letting go of paths touches no file and no call.
LEMMA QuietStep ==
    ASSUME StoreInv, TypeOK', UNCHANGED <<fs, pc, fetch>>
    PROVE  StoreInv'
  BY DEF StoreInv, PathNamed, TempsPrivate, TempsHidden, TempsWhole, PublishedWhole,
         OnPath, Unlinked, fs, fetch

LEMMA StoreInvNext == StoreInv /\ [Next]_vars => StoreInv'
  <1> SUFFICES ASSUME StoreInv, [Next]_vars
               PROVE  StoreInv'
    OBVIOUS
  <1> USE DEF StoreInv, FilesInv
  <1>1. ASSUME NEW p \in Procs, NEW r \in Requests, Fetch(p, r)
        PROVE  StoreInv'
    BY <1>1, FetchCallType, FetchCallFiles
  <1>2. ASSUME NEW p \in Procs, FetchStep(p)
        PROVE  StoreInv'
    BY <1>2, FetchStepType, FetchStepFiles
  <1>3. ASSUME NEW p \in Procs, Prune(p)
        PROVE  StoreInv'
    BY <1>3, PruneType, PruneFiles
  <1>4. ASSUME NEW p \in Procs, PruneStep(p)
        PROVE  StoreInv'
    BY <1>4, PruneStepType, PruneStepFiles
  <1>5. ASSUME NEW p \in Procs, Release(p)
        PROVE  StoreInv'
    <2>1. TypeOK'
      BY <1>5 DEF Release, TypeOK, fs, fetch, prune
    <2>2. QED
      BY <1>5, <2>1, QuietStep DEF Release
  <1>6. ASSUME NEW p \in Procs, Crash(p)
        PROVE  StoreInv'
    BY <1>6, DeathType, DeathFiles DEF Crash
  <1>7. ASSUME NEW d \in Fragile, Damage(d)
        PROVE  StoreInv'
    BY <1>7, FragileAssumption, DamageType, DamageFiles
  <1>8. CASE UNCHANGED vars
    <2>1. TypeOK'
      BY <1>8 DEF TypeOK, vars, fs, fetch, prune
    <2>2. QED
      BY <1>8, <2>1, QuietStep DEF vars
  <1>9. QED
    BY <1>1, <1>2, <1>3, <1>4, <1>5, <1>6, <1>7, <1>8 DEF Next, Call

\* The store's variables keep their types whatever the processes do.
THEOREM StoreTypeCorrect == Spec => []TypeOK
  BY StoreInvInit, StoreInvNext, PTL DEF Spec, StoreInv

\* A blob path never shows a partial download or another digest's content:
\* publish links only finished, checked temp files, under races and crashes.
THEOREM StorePublishesWhole == Spec => []PublishedWhole
  BY StoreInvInit, StoreInvNext, PTL DEF Spec, StoreInv
=============================================================================
