----------------------------- MODULE PipelineProofs -----------------------------
(***************************************************************************)
(* The answers of catalog queries, and the commands that plan with them,    *)
(* for any number of commands, variants, updates, channels and files.       *)
(***************************************************************************)
EXTENDS Pipeline, OutputsProofs

-----------------------------------------------------------------------------
(* ResolveImage *)

\* What the loop of selectUpdate knows of the updates it has passed.
Passed(c) ==
    LET idx == updates[c]  q == query[c]  k == at[c]  s == selected[c] IN
    /\ k <= Len(idx) + 1 /\ s < k /\ s <= Len(idx)
    /\ s = 0 => \A j \in DOMAIN idx : j < k => ~Matches(idx[j], q)
    /\ s # 0 =>
        /\ Matches(idx[s], q)
        /\ Pinned(q) => k = Len(idx) + 1 /\ \A j \in DOMAIN idx : j < s => ~Matches(idx[j], q)
        /\ ~Pinned(q) =>
            \A j \in DOMAIN idx : j < k /\ Matches(idx[j], q) =>
                \/ idx[j].version < idx[s].version
                \/ idx[j].version = idx[s].version /\ (s <= j \/ idx[s].version = 0)

\* Where a call stands: its query, its index, and what it has found.
Call(c) ==
    /\ step[c] # "idle" => query[c] \in Queries
    /\ step[c] = "fetch" => index \in served[c]
    /\ step[c] \in {"scan", "resolved", "missing"} =>
        updates[c] \in Indexes /\ updates[c] \in served[c]
    /\ step[c] = "scan" => Passed(c)
    /\ step[c] = "resolved" => AnswersWith(updates[c], query[c], asset[c]) /\ asset[c] \in Asset
    /\ step[c] = "missing" => ~Answers(updates[c], query[c])

CatalogInv == CatalogTypeOK /\ \A c \in Clients : Call(c)

\* Updates and queries have their types.
LEMMA IndexTypes ==
    ASSUME NEW idx \in Indexes, NEW q \in Queries
    PROVE  /\ idx \in Seq(Update) /\ Len(idx) \in Nat /\ DOMAIN idx = 1..Len(idx)
           /\ \A j \in DOMAIN idx : /\ idx[j].version \in Nat
                                    /\ idx[j].files \in Seq(File)
           /\ q.version \in Nat
  <1>1. idx \in Seq(Update)
    BY IndexesAssumption
  <1>2. \A j \in DOMAIN idx : idx[j] \in Update
    BY <1>1
  <1>3. q \in Query
    BY QueriesAssumption
  <1> QED BY <1>1, <1>2, <1>3 DEF Update, Query

\* At the end of the loop, the selected update is the newest, and the only one.
LEMMA SelectedNewest ==
    ASSUME NEW c, updates[c] \in Indexes, query[c] \in Queries, at[c] \in Nat, selected[c] \in Nat,
           Passed(c), at[c] > Len(updates[c])
    PROVE  /\ Selected(c) => Newest(updates[c], query[c], selected[c])
           /\ ~Selected(c) => \A i \in DOMAIN updates[c] : ~Newest(updates[c], query[c], i)
  <1> DEFINE idx == updates[c]
             q == query[c]
             s == selected[c]
  <1>1. /\ Len(idx) \in Nat /\ DOMAIN idx = 1..Len(idx) /\ q.version \in Nat
        /\ \A j \in DOMAIN idx : idx[j].version \in Nat
    BY IndexTypes
  <1>2. at[c] = Len(idx) + 1 /\ s <= Len(idx)
    BY <1>1 DEF Passed
  <1>3. ASSUME Selected(c) PROVE Newest(idx, q, s)
    <2>1. s \in DOMAIN idx /\ idx[s].version # 0 /\ Matches(idx[s], q)
      BY <1>1, <1>2, <1>3 DEF Selected, Passed
    <2>2. ASSUME NEW j \in DOMAIN idx, Matches(idx[j], q)
          PROVE  idx[j].version < idx[s].version \/ (idx[j].version = idx[s].version /\ s <= j)
      <3>1. CASE Pinned(q)
        <4>1. idx[j].version = idx[s].version
          BY <2>1, <2>2, <3>1 DEF Matches
        <4>2. ~(j < s)
          BY <1>3, <2>2, <3>1 DEF Selected, Passed
        <4> QED BY <1>1, <2>1, <4>1, <4>2
      <3>2. CASE ~Pinned(q)
        BY <1>1, <1>2, <1>3, <2>1, <2>2, <3>2 DEF Selected, Passed
      <3> QED BY <3>1, <3>2
    <2> QED BY <2>1, <2>2 DEF Newest
  <1>4. ASSUME ~Selected(c), NEW i \in DOMAIN idx, Newest(idx, q, i) PROVE FALSE
    <2>1. Matches(idx[i], q) /\ idx[i].version # 0 /\ i < at[c]
      BY <1>1, <1>2, <1>4 DEF Newest
    <2>2. s # 0 /\ idx[s].version = 0
      BY <1>4, <2>1 DEF Passed, Selected
    <2>3. ~Pinned(q)
      BY <1>1, <2>1, <2>2 DEF Passed, Pinned, Matches
    <2>4. idx[i].version <= 0
      BY <1>1, <2>1, <2>2, <2>3 DEF Passed
    <2> QED BY <1>1, <2>1, <2>4
  <1> QED BY <1>3, <1>4

\* An index has one newest update for a query.
LEMMA NewestUnique ==
    ASSUME NEW idx \in Indexes, NEW q \in Queries,
           NEW i \in DOMAIN idx, NEW j \in DOMAIN idx, Newest(idx, q, i), Newest(idx, q, j)
    PROVE  i = j
  <1>1. i \in Nat /\ j \in Nat /\ idx[i].version \in Nat /\ idx[j].version \in Nat
    BY IndexTypes
  <1>2. \/ idx[j].version < idx[i].version
        \/ idx[j].version = idx[i].version /\ i <= j
    BY DEF Newest
  <1>3. \/ idx[i].version < idx[j].version
        \/ idx[i].version = idx[j].version /\ j <= i
    BY DEF Newest
  <1> QED BY <1>1, <1>2, <1>3

\* A step of client c's call keeps the invariant if c's call keeps its own part.
LEMMA CallKeeps ==
    ASSUME CatalogInv, CatalogTypeOK', NEW c \in Clients, UNCHANGED index,
           \A d \in Clients \ {c} : /\ step'[d] = step[d] /\ query'[d] = query[d]
                                    /\ updates'[d] = updates[d] /\ at'[d] = at[d]
                                    /\ selected'[d] = selected[d] /\ asset'[d] = asset[d]
                                    /\ served'[d] = served[d],
           Call(c)'
    PROVE  CatalogInv'
  <1> SUFFICES ASSUME NEW d \in Clients PROVE Call(d)'
    BY DEF CatalogInv
  <1>1. CASE d = c
    BY <1>1
  <1>2. CASE d # c
    <2>1. Call(d)
      BY DEF CatalogInv
    <2>2. Passed(d)' <=> Passed(d)
      BY <1>2 DEF Passed
    <2>3. AnswersWith(updates[d], query[d], asset[d])' <=> AnswersWith(updates[d], query[d], asset[d])
      BY <1>2
    <2>4. Answers(updates[d], query[d])' <=> Answers(updates[d], query[d])
      BY <1>2
    <2> QED BY <1>2, <2>1, <2>2, <2>3, <2>4 DEF Call
  <1> QED BY <1>1, <1>2

\* A call begins, with the index the CDN has.
LEMMA ResolveImageKeeps ==
    ASSUME CatalogInv, NEW c \in Clients, NEW q \in Queries, ResolveImage(c, q)
    PROVE  CatalogInv'
  <1>1. CatalogTypeOK'
    BY DEF CatalogInv, CatalogTypeOK, ResolveImage
  <1>2. step'[c] = "fetch" /\ query'[c] = q /\ index' \in served'[c]
    BY DEF CatalogInv, CatalogTypeOK, ResolveImage
  <1>3. Call(c)'
    BY <1>2 DEF Call
  <1> QED BY <1>1, <1>3, CallKeeps DEF CatalogInv, CatalogTypeOK, ResolveImage

\* The index is fetched, and no update of it has been looked at.
LEMMA FetchIndexKeeps ==
    ASSUME CatalogInv, NEW c \in Clients, FetchIndex(c)
    PROVE  CatalogInv'
  <1>1. CatalogTypeOK'
    BY DEF CatalogInv, CatalogTypeOK, FetchIndex
  <1>2. /\ step'[c] = "scan" /\ updates'[c] = index /\ at'[c] = 1 /\ selected'[c] = 0
        /\ query'[c] = query[c] /\ query[c] \in Queries
        /\ index \in Indexes /\ served'[c] = served[c] /\ index \in served[c]
    BY DEF CatalogInv, CatalogTypeOK, FetchIndex, Call
  <1>3. Passed(c)'
    <2>1. Len(index) \in Nat /\ DOMAIN index = 1..Len(index)
      BY <1>2, IndexTypes
    <2> QED BY <1>2, <2>1 DEF Passed
  <1>4. Call(c)'
    BY <1>2, <1>3 DEF Call
  <1> QED BY <1>1, <1>4, CallKeeps DEF CatalogInv, CatalogTypeOK, FetchIndex

\* It cannot be: the call fails.
LEMMA FetchIndexFailsKeeps ==
    ASSUME CatalogInv, NEW c \in Clients, FetchIndexFails(c)
    PROVE  CatalogInv'
  <1>1. CatalogTypeOK'
    BY DEF CatalogInv, CatalogTypeOK, FetchIndexFails
  <1>2. step'[c] = "failed" /\ query'[c] = query[c] /\ query[c] \in Queries
    BY DEF CatalogInv, CatalogTypeOK, FetchIndexFails, Call
  <1>3. Call(c)'
    BY <1>2 DEF Call
  <1> QED BY <1>1, <1>3, CallKeeps DEF CatalogInv, CatalogTypeOK, FetchIndexFails

\* The file's URL cannot be made: the call fails.
LEMMA AssetURLFailsKeeps ==
    ASSUME CatalogInv, NEW c \in Clients, AssetURLFails(c)
    PROVE  CatalogInv'
  <1>1. CatalogTypeOK'
    BY DEF CatalogInv, CatalogTypeOK, AssetURLFails
  <1>2. step'[c] = "failed" /\ query'[c] = query[c] /\ query[c] \in Queries
    BY DEF CatalogInv, CatalogTypeOK, AssetURLFails, Call
  <1>3. Call(c)'
    BY <1>2 DEF Call
  <1> QED BY <1>1, <1>3, CallKeeps DEF CatalogInv, CatalogTypeOK, AssetURLFails

\* One round of the loop.
LEMMA ScanKeeps ==
    ASSUME CatalogInv, NEW c \in Clients, Scan(c)
    PROVE  CatalogInv'
  <1> DEFINE idx == updates[c]
             q == query[c]
             k == at[c]
             s == selected[c]
             u == idx[k]
  <1>1. /\ step[c] = "scan" /\ k <= Len(idx) /\ Passed(c)
        /\ idx \in Indexes /\ idx \in served[c] /\ q \in Queries
        /\ k \in Nat \ {0} /\ s \in Nat
    BY DEF Scan, CatalogInv, CatalogTypeOK, Call
  <1>2. /\ Len(idx) \in Nat /\ DOMAIN idx = 1..Len(idx) /\ k \in DOMAIN idx /\ q.version \in Nat
        /\ \A j \in DOMAIN idx : idx[j].version \in Nat
    BY <1>1, IndexTypes
  <1>3. CatalogTypeOK'
    <2>1. PICK t \in Nat, m \in Nat \ {0} :
            selected' = [selected EXCEPT ![c] = t] /\ at' = [at EXCEPT ![c] = m]
      <3>1. k + 1 \in Nat \ {0} /\ Len(idx) + 1 \in Nat \ {0} /\ k \in Nat
        BY <1>1, <1>2
      <3>2. selected = [selected EXCEPT ![c] = s] /\ at = [at EXCEPT ![c] = k]
        BY DEF CatalogInv, CatalogTypeOK
      <3> QED BY <1>1, <3>1, <3>2 DEF Scan
    <2>2. UNCHANGED <<index, step, query, updates, asset, served>>
      BY DEF Scan
    <2>3. selected' \in [Clients -> Nat] /\ at' \in [Clients -> Nat \ {0}]
      BY <2>1 DEF CatalogInv, CatalogTypeOK
    <2> QED BY <2>2, <2>3 DEF CatalogInv, CatalogTypeOK
  <1>4. /\ step' = step /\ updates' = updates /\ query' = query /\ served' = served
        /\ \/ Matches(u, q) /\ Pinned(q) /\ selected'[c] = k /\ at'[c] = Len(idx) + 1
           \/ Matches(u, q) /\ ~Pinned(q) /\ Better(c) /\ selected'[c] = k /\ at'[c] = k + 1
           \/ /\ ~Matches(u, q) \/ (~Pinned(q) /\ ~Better(c))
              /\ at'[c] = k + 1 /\ selected'[c] = s
    BY DEF Scan, CatalogInv, CatalogTypeOK
  <1>5. Passed(c)'
    <2> DEFINE t == selected'[c]
               m == at'[c]
    <2>1. SUFFICES
            /\ m <= Len(idx) + 1 /\ t < m /\ t <= Len(idx)
            /\ t = 0 => \A j \in DOMAIN idx : j < m => ~Matches(idx[j], q)
            /\ t # 0 =>
                /\ Matches(idx[t], q)
                /\ Pinned(q) => m = Len(idx) + 1 /\ \A j \in DOMAIN idx : j < t => ~Matches(idx[j], q)
                /\ ~Pinned(q) =>
                    \A j \in DOMAIN idx : j < m /\ Matches(idx[j], q) =>
                        \/ idx[j].version < idx[t].version
                        \/ idx[j].version = idx[t].version /\ (t <= j \/ idx[t].version = 0)
      BY <1>4 DEF Passed, Matches, Pinned
    <2>2. CASE Matches(u, q) /\ Pinned(q) /\ t = k /\ m = Len(idx) + 1
      <3>1. s = 0
        BY <1>1, <1>2, <2>2 DEF Passed
      <3>2. \A j \in DOMAIN idx : j < k => ~Matches(idx[j], q)
        BY <1>1, <3>1 DEF Passed
      <3> QED BY <1>1, <1>2, <2>2, <3>2
    <2>3. CASE Matches(u, q) /\ ~Pinned(q) /\ Better(c) /\ t = k /\ m = k + 1
      <3>1. ASSUME NEW j \in DOMAIN idx, j < m, Matches(idx[j], q)
            PROVE  \/ idx[j].version < u.version
                   \/ idx[j].version = u.version /\ (t <= j \/ u.version = 0)
        <4>1. CASE j = k
          BY <1>2, <2>3, <4>1
        <4>2. CASE j # k
          <5>1. j < k /\ s # 0 /\ s \in DOMAIN idx
            BY <1>1, <1>2, <2>3, <3>1, <4>2 DEF Passed
          <5>2. idx[j].version <= idx[s].version
            BY <1>1, <1>2, <2>3, <3>1, <5>1 DEF Passed
          <5>3. idx[s].version = 0 \/ u.version > idx[s].version
            BY <2>3, <5>1 DEF Better
          <5>4. idx[j].version \in Nat /\ idx[s].version \in Nat /\ u.version \in Nat
            BY <1>2, <5>1
          <5> QED BY <5>2, <5>3, <5>4
        <4> QED BY <4>1, <4>2
      <3> QED BY <1>1, <1>2, <2>3, <3>1
    <2>4. CASE (~Matches(u, q) \/ (~Pinned(q) /\ ~Better(c))) /\ m = k + 1 /\ t = s
      <3>1. s = 0 => ~Matches(u, q)
        BY <2>4 DEF Better
      <3>2. s # 0 /\ Pinned(q) => FALSE
        BY <1>1, <1>2 DEF Passed
      <3>3. ASSUME s # 0, ~Pinned(q), NEW j \in DOMAIN idx, j < m, Matches(idx[j], q)
            PROVE  \/ idx[j].version < idx[s].version
                   \/ idx[j].version = idx[s].version /\ (s <= j \/ idx[s].version = 0)
        <4>1. CASE j = k
          <5>1. ~Better(c) /\ s < k
            BY <1>1, <2>4, <3>3, <4>1 DEF Passed
          <5>2. ~(u.version > idx[s].version) /\ s \in DOMAIN idx
            BY <1>1, <1>2, <3>3, <5>1 DEF Better
          <5> QED BY <1>2, <4>1, <5>1, <5>2
        <4>2. CASE j # k
          BY <1>1, <1>2, <2>4, <3>3, <4>2 DEF Passed
        <4> QED BY <4>1, <4>2
      <3>4. s = 0 => \A j \in DOMAIN idx : j < m => ~Matches(idx[j], q)
        BY <1>1, <1>2, <2>4, <3>1 DEF Passed
      <3>5. m <= Len(idx) + 1 /\ s < m /\ s <= Len(idx) /\ (s # 0 => Matches(idx[s], q))
        BY <1>1, <1>2, <2>4 DEF Passed
      <3> QED BY <2>4, <3>2, <3>3, <3>4, <3>5
    <2> QED BY <1>4, <2>2, <2>3, <2>4
  <1>6. Call(c)'
    BY <1>1, <1>4, <1>5 DEF Call
  <1> QED BY <1>3, <1>6, CallKeeps DEF CatalogInv, CatalogTypeOK, Scan

\* The selected update has the file.
LEMMA FoundKeeps ==
    ASSUME CatalogInv, NEW c \in Clients, Found(c)
    PROVE  CatalogInv'
  <1> DEFINE idx == updates[c]
             q == query[c]
             s == selected[c]
             u == idx[s]
  <1>1. /\ step[c] = "scan" /\ at[c] > Len(idx) /\ Selected(c) /\ Passed(c)
        /\ idx \in Indexes /\ idx \in served[c] /\ q \in Queries
        /\ at[c] \in Nat /\ s \in Nat
    BY DEF Found, CatalogInv, CatalogTypeOK, Call
  <1>2. Newest(idx, q, s)
    BY <1>1, SelectedNewest
  <1>3. PICK i \in DOMAIN u.files :
            /\ FirstOffering(u.files, q.offer, i)
            /\ asset' = [asset EXCEPT ![c] = [version |-> u.version, image |-> u.files[i].image]]
    BY DEF Found
  <1>4. s \in DOMAIN idx /\ u.version \in Nat /\ u.files \in Seq(File)
    BY <1>1, <1>2, IndexTypes DEF Newest
  <1>5. u.files[i] \in File
    BY <1>3, <1>4
  <1>6. asset'[c] = [version |-> u.version, image |-> u.files[i].image] /\ asset'[c] \in Asset
    BY <1>3, <1>4, <1>5 DEF CatalogInv, CatalogTypeOK, Asset, File
  <1>7. AnswersWith(idx, q, asset'[c])
    BY <1>2, <1>3, <1>4, <1>6 DEF AnswersWith
  <1>8. CatalogTypeOK'
    BY <1>3, <1>6 DEF Found, CatalogInv, CatalogTypeOK
  <1>9. /\ step'[c] = "resolved"
        /\ updates' = updates /\ query' = query /\ served' = served
    BY DEF Found, CatalogInv, CatalogTypeOK
  <1>10. Call(c)'
    BY <1>1, <1>6, <1>7, <1>9 DEF Call
  <1>11. \A d \in Clients \ {c} : step'[d] = step[d] /\ asset'[d] = asset[d]
    BY <1>3 DEF Found, CatalogInv, CatalogTypeOK
  <1> QED BY <1>8, <1>10, <1>11, CallKeeps DEF CatalogInv, CatalogTypeOK, Found

\* It does not, or there is none.
LEMMA NotFoundKeeps ==
    ASSUME CatalogInv, NEW c \in Clients, NotFound(c)
    PROVE  CatalogInv'
  <1> DEFINE idx == updates[c]
             q == query[c]
             s == selected[c]
  <1>1. /\ step[c] = "scan" /\ at[c] > Len(idx) /\ Passed(c)
        /\ idx \in Indexes /\ idx \in served[c] /\ q \in Queries
        /\ at[c] \in Nat /\ s \in Nat
        /\ Selected(c) => \A f \in DOMAIN idx[s].files : idx[s].files[f].offer # q.offer
    BY DEF NotFound, CatalogInv, CatalogTypeOK, Call
  <1>2. ~Answers(idx, q)
    <2> SUFFICES ASSUME NEW i \in DOMAIN idx, Newest(idx, q, i)
                 PROVE  \A f \in DOMAIN idx[i].files : idx[i].files[f].offer # q.offer
      BY DEF Answers
    <2>1. Selected(c) /\ Newest(idx, q, s)
      BY <1>1, SelectedNewest
    <2>2. s \in DOMAIN idx
      BY <2>1 DEF Newest
    <2>3. i = s
      BY <1>1, <2>1, <2>2, NewestUnique
    <2> QED BY <1>1, <2>1, <2>3
  <1>3. CatalogTypeOK'
    BY DEF NotFound, CatalogInv, CatalogTypeOK
  <1>4. /\ step'[c] = "missing"
        /\ updates' = updates /\ query' = query /\ served' = served
    BY DEF NotFound, CatalogInv, CatalogTypeOK
  <1>5. Call(c)'
    BY <1>1, <1>2, <1>4 DEF Call
  <1> QED BY <1>3, <1>5, CallKeeps DEF CatalogInv, CatalogTypeOK, NotFound

\* The call returns.
LEMMA TakenKeeps ==
    ASSUME CatalogInv, NEW c \in Clients, Taken(c)
    PROVE  CatalogInv'
  <1>1. CatalogTypeOK'
    BY DEF CatalogInv, CatalogTypeOK, Taken
  <1>2. step'[c] = "idle"
    BY DEF CatalogInv, CatalogTypeOK, Taken
  <1>3. Call(c)'
    BY <1>2 DEF Call
  <1> QED BY <1>1, <1>3, CallKeeps DEF CatalogInv, CatalogTypeOK, Taken

\* The index moves on; a call that has not fetched yet may get either.
LEMMA MoveIndexKeeps ==
    ASSUME CatalogInv, NEW i \in Indexes, MoveIndex(i)
    PROVE  CatalogInv'
  <1>1. \A c \in Clients :
            served'[c] = IF step[c] = "fetch" THEN served[c] \cup {i} ELSE served[c]
    BY DEF MoveIndex
  <1>2. CatalogTypeOK'
    BY <1>1 DEF CatalogInv, CatalogTypeOK, MoveIndex, resolving
  <1>3. ASSUME NEW c \in Clients PROVE Call(c)'
    <2>1. UNCHANGED <<step, query, updates, at, selected, asset>> /\ index' = i
      BY DEF MoveIndex, resolving
    <2>2. Passed(c)' <=> Passed(c)
      BY <2>1 DEF Passed
    <2>3. AnswersWith(updates[c], query[c], asset[c])' <=> AnswersWith(updates[c], query[c], asset[c])
      BY <2>1
    <2>4. Answers(updates[c], query[c])' <=> Answers(updates[c], query[c])
      BY <2>1
    <2>5. Call(c)
      BY DEF CatalogInv
    <2> QED BY <1>1, <2>1, <2>2, <2>3, <2>4, <2>5 DEF Call
  <1> QED BY <1>2, <1>3 DEF CatalogInv

\* Every step of the catalog's clients keeps the invariant.
LEMMA CatalogSteps == CatalogInv /\ [CatalogNext]_catalogVars => CatalogInv'
  <1> SUFFICES ASSUME CatalogInv, [CatalogNext]_catalogVars PROVE CatalogInv'
    OBVIOUS
  <1>1. ASSUME NEW c \in Clients, NEW q \in Queries, ResolveImage(c, q) PROVE CatalogInv'
    BY <1>1, ResolveImageKeeps
  <1>2. ASSUME NEW c \in Clients, ResolveStep(c) PROVE CatalogInv'
    BY <1>2, FetchIndexKeeps, FetchIndexFailsKeeps, ScanKeeps, FoundKeeps, AssetURLFailsKeeps,
       NotFoundKeeps
       DEF ResolveStep
  <1>3. ASSUME NEW c \in Clients, Taken(c) PROVE CatalogInv'
    BY <1>3, TakenKeeps
  <1>4. ASSUME NEW i \in Indexes, MoveIndex(i) PROVE CatalogInv'
    BY <1>4, MoveIndexKeeps
  <1>5. CASE UNCHANGED catalogVars
    BY <1>5 DEF catalogVars, resolving, CatalogInv, CatalogTypeOK, Call, Passed
  <1> QED BY <1>1, <1>2, <1>3, <1>4, <1>5 DEF CatalogNext

\* No call is under way initially.
LEMMA CatalogStart == CatalogInit => CatalogInv
  BY DEF CatalogInit, CatalogInv, CatalogTypeOK, Call

\* The invariant of the catalog's clients.
THEOREM CatalogInvariant == CatalogSpec => []CatalogInv
  BY CatalogStart, CatalogSteps, PTL DEF CatalogSpec

-----------------------------------------------------------------------------
(* The commands *)

\* The variants resolved so far have their images from indexes the command got.
Answered(b) ==
    \A i \in DOMAIN source[b] :
        \E idx \in fetched[b] : AnswersWith(idx, QueryOf(config[b], i), source[b][i])

\* Where a command stands: its plan, the query under way, and what it has passed.
Command(b) ==
    /\ Len(source[b]) <= Len(Variants(b))
    /\ step[b] # "idle" =>
        /\ Plannable(config[b]) /\ Len(source[b]) < Len(Variants(b))
        /\ query[b] = QueryOf(config[b], Len(source[b]) + 1)
    /\ step[b] \in {"scan", "resolved"} => updates[b] \in fetched[b]
    /\ Answered(b)
    /\ config[b].command = "publish" /\ stage[b] \notin {"load", "refused"} => Loads(config[b].settings)
    /\ config[b].command = "publish" => (stage[b] \in {"load", "refused"} => pc[b] = "lock")
    /\ pc[b] \notin {"lock", "plan", "rejected", "dead"} => Plannable(config[b])
    /\ stage[b] # "late"

\* The stages of TypeOK.
Stages == {"lock", "plan", "stat", "build", "clean", "litter", "built",
           "metadata", "done", "rejected", "cleaned", "littered", "kept", "dead"}

\* The types the commands' steps rely on.
CommandTypes ==
    /\ config \in Invocations
    /\ stage \in [Builds -> {"load", "ready", "refused", "printed", "failed", "handed", "late"}]
    /\ source \in [Builds -> Seq(Asset)]
    /\ fetched \in [Builds -> SUBSET Indexes]
    /\ pc \in [Builds -> Stages]

PipelineInv == CatalogInv /\ CommandTypes /\ \A b \in Builds : Command(b)

\* What a command is run with has its type, and its queries are among the queries.
LEMMA ConfigTypes ==
    ASSUME CommandTypes, NEW b \in Builds
    PROVE  /\ config[b] \in Configs
           /\ Variants(b) \in Seq(Variant) /\ Len(Variants(b)) \in Nat
           /\ DOMAIN Variants(b) = 1..Len(Variants(b))
           /\ \A i \in DOMAIN Variants(b) : QueryOf(config[b], i) \in Queries
           /\ config[b].settings.partSize \in Literal \cup {Malformed}
           /\ config[b].settings.partSizeBytes \in Nat
  <1>1. config \in [Builds -> Configs] /\ config[b] \in Configs
    BY InvocationsAssumption DEF CommandTypes
  <1>2. config[b].variants \in Seq(Variant)
    BY <1>1, ConfigsAssumption
  <1> QED BY <1>1, <1>2, ConfigsAssumption, QueriesCoverConfigs DEF Variants

\* A plan's output paths are something a build may make: distinct paths of the
\* output directory (planArtifacts).
LEMMA PlannedTargets ==
    ASSUME CommandTypes, NEW b \in Builds, Plannable(config[b])
    PROVE  OutputPaths(config[b]) \in Targets
  <1> DEFINE cfg == config[b]
             vs == cfg.variants
  <1>1. cfg \in Configs /\ vs \in Seq(Variant)
    BY ConfigTypes DEF Variants
  <1>2. ASSUME NEW i \in DOMAIN vs PROVE OutputPaths(cfg)[i] \in Paths
    <2>0. vs[i] \in Variant
      BY <1>1, <1>2
    <2>1. vs[i].filename \in DOMAIN OutputPath
      BY <2>0 DEF Variant
    <2>2. OutputPath[vs[i].filename] # None
      BY <1>2 DEF Plannable
    <2> QED BY <1>2, <2>1, <2>2, OutputPathAssumption DEF OutputPaths
  <1>3. ASSUME NEW i \in DOMAIN vs, NEW j \in DOMAIN vs, i # j
        PROVE  OutputPaths(cfg)[i] # OutputPaths(cfg)[j]
    BY <1>3 DEF Plannable, OutputPaths
  <1>4. vs # <<>>
    BY DEF Plannable
  <1> QED BY <1>1, <1>2, <1>3, <1>4, TargetsCoverConfigs

-----------------------------------------------------------------------------
(* A command's steps are steps of the output directory and of the catalog *)

\* A step of a command is a step of Outputs, or leaves the directory alone.
LEMMA OutputsSteps == CommandTypes /\ [PipelineNext]_pipelineVars => [Next]_vars
  <1> SUFFICES ASSUME CommandTypes, PipelineNext PROVE [Next]_vars
    BY DEF pipelineVars
  <1>1. ASSUME NEW b \in Builds, BuildStep(b) PROVE Step(b)
    <2>1. CASE Planned(b)
      <3>1. OutputPaths(config[b]) \in Targets
        BY <2>1, PlannedTargets DEF Planned, AllResolved
      <3> QED BY <2>1, <3>1 DEF Planned, Step
    <2> QED BY <1>1, <2>1 DEF BuildStep, NotBuilt, Built, LetGo, Step
  <1>2. ASSUME NEW b \in Builds, PipelineStep(b), ~BuildStep(b) PROVE UNCHANGED vars
    BY <1>2 DEF PipelineStep, ResolveNext, Resolving, Resolved, PrintPlan, PrintNothing, Load, Configure
  <1>3. IndexMoves => UNCHANGED vars
    BY DEF IndexMoves
  <1> QED BY <1>1, <1>2, <1>3 DEF PipelineNext, Next

\* A step of a command is a step of a catalog client, or leaves the catalog alone.
LEMMA ClientSteps ==
    CommandTypes /\ (\A b \in Builds : Command(b)) /\ [PipelineNext]_pipelineVars
        => [CatalogNext]_catalogVars
  <1> SUFFICES ASSUME CommandTypes, \A b \in Builds : Command(b), PipelineNext
               PROVE  [CatalogNext]_catalogVars
    BY DEF pipelineVars
  <1>1. ASSUME NEW b \in Builds, ResolveNext(b) PROVE CatalogNext
    <2>1. Len(source[b]) + 1 \in DOMAIN Variants(b)
      <3>1. Len(source[b]) \in Nat /\ Len(source[b]) <= Len(Variants(b))
        BY DEF CommandTypes, Command
      <3>2. Len(source[b]) # Len(Variants(b))
        BY <1>1 DEF ResolveNext, AllResolved
      <3> QED BY <3>1, <3>2, ConfigTypes
    <2>2. QueryOf(config[b], Len(source[b]) + 1) \in Queries
      BY <2>1, ConfigTypes
    <2> QED BY <1>1, <2>2, ClientsAssumption DEF ResolveNext, CatalogNext
  <1>2. ASSUME NEW b \in Builds, Resolving(b) \/ Resolved(b) PROVE CatalogNext
    BY <1>2, ClientsAssumption DEF Resolving, Resolved, CatalogNext
  <1>3. ASSUME NEW b \in Builds, PrintPlan(b) \/ PrintNothing(b) \/ Load(b) \/ BuildStep(b) \/ Configure(b)
        PROVE  UNCHANGED catalogVars
    BY <1>3 DEF PrintPlan, PrintNothing, Load, BuildStep, Configure
  <1>4. IndexMoves => CatalogNext
    BY DEF IndexMoves, CatalogNext
  <1> QED BY <1>1, <1>2, <1>3, <1>4 DEF PipelineNext, PipelineStep

-----------------------------------------------------------------------------
(* The commands' invariant is kept *)

\* The stages before a plan was made, or without one.
Early == {"lock", "plan", "rejected", "dead"}

\* What a step in the output directory does to the stages: only a plan leads on.
LEMMA StageMoves ==
    ASSUME pc \in [Builds -> Stages], NEW b \in Builds, Step(b)
    PROVE  /\ pc' \in [Builds -> Stages]
           /\ \A c \in Builds \ {b} : pc'[c] = pc[c]
           /\ pc'[b] \notin Early => pc[b] \notin Early \/ \E t \in Targets : Plan(b, t)
  <1>1. CASE \E t \in Targets : Plan(b, t)
    BY <1>1 DEF Plan, Enter, Stages
  <1>2. CASE Lock(b) \/ Rejected(b) \/ Die(b)
    BY <1>2 DEF Lock, Rejected, Die, Enter, Early, Stages
  <1>3. CASE Absent(b) \/ Inject(b) \/ InjectFails(b)
    BY <1>3 DEF Absent, Inject, InjectFails, Enter, Stay, Early, Stages
  <1>4. CASE Remove(b) \/ RemoveFails(b)
    BY <1>4 DEF Remove, RemoveFails, NextRemoval, Enter, Early, Stages
  <1>5. CASE Unlock(b) \/ FailsLate(b) \/ WriteMetadata(b)
    BY <1>5 DEF Unlock, FailsLate, WriteMetadata, Enter, Stay, Early, Stages
  <1> QED BY <1>1, <1>2, <1>3, <1>4, <1>5 DEF Step

\* A step of b keeps the parts of the commands that it does not touch.
LEMMA CommandKeeps ==
    ASSUME \A d \in Builds : Command(d), NEW b \in Builds, UNCHANGED config,
           \A d \in Builds \ {b} : /\ source'[d] = source[d] /\ step'[d] = step[d]
                                   /\ query'[d] = query[d] /\ updates'[d] = updates[d]
                                   /\ fetched'[d] = fetched[d] /\ stage'[d] = stage[d]
                                   /\ pc'[d] = pc[d],
           Command(b)'
    PROVE  \A d \in Builds : Command(d)'
  <1> SUFFICES ASSUME NEW d \in Builds, d # b PROVE Command(d)'
    OBVIOUS
  <1>1. Command(d) /\ (Answered(d)' <=> Answered(d)) /\ Variants(d)' = Variants(d)
    BY DEF Answered, Variants
  <1> QED BY <1>1 DEF Command

\* The next variant is looked up.
LEMMA ResolveNextKeeps ==
    ASSUME PipelineInv, NEW b \in Builds, ResolveNext(b)
    PROVE  CommandTypes' /\ \A d \in Builds : Command(d)'
  <1>1. CommandTypes'
    BY DEF PipelineInv, CommandTypes, ResolveNext, vars
  <1>2. /\ step'[b] = "fetch" /\ query'[b] = QueryOf(config[b], Len(source[b]) + 1)
        /\ UNCHANGED <<config, stage, source, fetched, updates, pc>>
        /\ \A d \in Builds \ {b} : step'[d] = step[d] /\ query'[d] = query[d]
    BY ClientsAssumption DEF ResolveNext, ResolveImage, PipelineInv, CatalogInv, CatalogTypeOK, vars
  <1>3. /\ Plannable(config[b]) /\ Len(source[b]) <= Len(Variants(b))
        /\ Len(source[b]) # Len(Variants(b))
    BY DEF ResolveNext, AllResolved, PipelineInv, Command
  <1>4. Len(source[b]) < Len(Variants(b))
    <2>1. Len(source[b]) \in Nat /\ Len(Variants(b)) \in Nat
      BY ConfigTypes DEF PipelineInv, CommandTypes
    <2> QED BY <1>3, <2>1
  <1>5. Answered(b)'
    BY <1>2 DEF PipelineInv, Command, Answered
  <1>6. Command(b)'
    BY <1>2, <1>3, <1>4, <1>5 DEF PipelineInv, Command, Variants
  <1> QED BY <1>1, <1>2, <1>6, CommandKeeps DEF PipelineInv

\* A query runs; an index it got is remembered.
LEMMA ResolvingKeeps ==
    ASSUME PipelineInv, NEW b \in Builds, Resolving(b)
    PROVE  CommandTypes' /\ \A d \in Builds : Command(d)'
  <1>1. /\ UNCHANGED <<config, stage, source, pc, query, index>>
        /\ \A d \in Builds \ {b} : step'[d] = step[d] /\ updates'[d] = updates[d]
        /\ step[b] \in {"fetch", "scan"}
        /\ \/ step[b] = "scan" /\ updates'[b] = updates[b]
           \/ step[b] = "fetch" /\ (step'[b] = "scan" => updates'[b] = index)
        /\ step[b] = "fetch" => step'[b] # "resolved"
    BY ClientsAssumption
       DEF Resolving, ResolveStep, FetchIndex, FetchIndexFails, Scan, Found, AssetURLFails,
           NotFound, PipelineInv, CatalogInv, CatalogTypeOK, vars
  <1>2. /\ index \in Indexes
        /\ step[b] = "scan" => updates[b] \in Indexes /\ updates[b] \in fetched[b]
    BY <1>1, ClientsAssumption DEF PipelineInv, CatalogInv, CatalogTypeOK, Call, Command
  <1>3. /\ fetched' \in [Builds -> SUBSET Indexes]
        /\ fetched[b] \subseteq fetched'[b]
        /\ step'[b] = "scan" => updates'[b] \in fetched'[b]
        /\ \A d \in Builds \ {b} : fetched'[d] = fetched[d]
    BY <1>1, <1>2 DEF Resolving, PipelineInv, CommandTypes
  <1>4. CommandTypes'
    BY <1>1, <1>3 DEF PipelineInv, CommandTypes
  <1>5. step'[b] \in {"scan", "resolved"} => updates'[b] \in fetched'[b]
    BY <1>1, <1>2, <1>3
  <1>6. Answered(b)'
    <2>1. Answered(b)
      BY DEF PipelineInv, Command
    <2> QED BY <1>1, <1>3, <2>1 DEF Answered
  <1>7. Command(b)'
    BY <1>1, <1>5, <1>6 DEF PipelineInv, Command, Variants
  <1> QED BY <1>1, <1>3, <1>4, <1>7, CommandKeeps DEF PipelineInv

\* The asset of a query is the next variant's source.
LEMMA ResolvedKeeps ==
    ASSUME PipelineInv, NEW b \in Builds, Resolved(b)
    PROVE  CommandTypes' /\ \A d \in Builds : Command(d)'
  <1>1. /\ step[b] = "resolved" /\ step'[b] = "idle"
        /\ source' = [source EXCEPT ![b] = Append(@, asset[b])]
        /\ UNCHANGED <<config, stage, pc, fetched>>
        /\ \A d \in Builds \ {b} : /\ step'[d] = step[d] /\ query'[d] = query[d]
                                   /\ updates'[d] = updates[d]
    BY ClientsAssumption DEF Resolved, Taken, PipelineInv, CatalogInv, CatalogTypeOK, vars
  <1>2. /\ asset[b] \in Asset
        /\ AnswersWith(updates[b], QueryOf(config[b], Len(source[b]) + 1), asset[b])
        /\ updates[b] \in fetched[b] /\ Len(source[b]) < Len(Variants(b))
    BY <1>1, ClientsAssumption DEF PipelineInv, CatalogInv, Call, Command
  <1>3. source[b] \in Seq(Asset) /\ Len(source[b]) \in Nat /\ Len(Variants(b)) \in Nat
    BY ConfigTypes DEF PipelineInv, CommandTypes
  <1>4. /\ source'[b] = Append(source[b], asset[b])
        /\ \A d \in Builds \ {b} : source'[d] = source[d]
        /\ source' \in [Builds -> Seq(Asset)]
    BY <1>1, <1>2 DEF PipelineInv, CommandTypes
  <1>5. CommandTypes'
    BY <1>1, <1>4 DEF PipelineInv, CommandTypes
  <1>6. /\ Len(source'[b]) = Len(source[b]) + 1
        /\ source'[b][Len(source[b]) + 1] = asset[b]
        /\ \A i \in DOMAIN source[b] : source'[b][i] = source[b][i]
        /\ DOMAIN source'[b] = DOMAIN source[b] \cup {Len(source[b]) + 1}
    BY <1>2, <1>3, <1>4
  <1>7. Answered(b)'
    <2>1. ASSUME NEW i \in DOMAIN source'[b]
          PROVE  \E idx \in fetched[b] : AnswersWith(idx, QueryOf(config[b], i), source'[b][i])
      <3>1. CASE i = Len(source[b]) + 1
        BY <1>2, <1>6, <3>1
      <3>2. CASE i \in DOMAIN source[b]
        BY <1>6, <3>2 DEF PipelineInv, Command, Answered
      <3> QED BY <1>6, <2>1, <3>1, <3>2
    <2> QED BY <1>1, <2>1 DEF Answered
  <1>8. Len(source'[b]) <= Len(Variants(b))
    BY <1>2, <1>3, <1>6
  <1>9. Command(b)'
    BY <1>1, <1>7, <1>8 DEF PipelineInv, Command, Variants
  <1> QED BY <1>1, <1>4, <1>5, <1>9, CommandKeeps DEF PipelineInv

\* `plan` ends, and `publish` loads its settings.
LEMMA StageKeeps ==
    ASSUME PipelineInv, NEW b \in Builds, PrintPlan(b) \/ PrintNothing(b) \/ Load(b)
    PROVE  CommandTypes' /\ \A d \in Builds : Command(d)'
  <1>1. UNCHANGED <<config, source, fetched, pc, step, query, updates>>
    BY DEF PrintPlan, PrintNothing, Load, vars, catalogVars, resolving
  <1>2. \/ config[b].command = "plan" /\ stage'[b] \in {"printed", "failed"}
        \/ /\ stage[b] = "load"
           /\ stage'[b] = "refused" \/ (stage'[b] = "ready" /\ Loads(config[b].settings))
    BY DEF PrintPlan, PrintNothing, Load, PipelineInv, CommandTypes
  <1>3. /\ stage' \in [Builds -> {"load", "ready", "refused", "printed", "failed", "handed", "late"}]
        /\ \A d \in Builds \ {b} : stage'[d] = stage[d]
    BY DEF PrintPlan, PrintNothing, Load, PipelineInv, CommandTypes
  <1>4. CommandTypes'
    BY <1>1, <1>3 DEF PipelineInv, CommandTypes
  <1>5. Answered(b)'
    BY <1>1 DEF PipelineInv, Command, Answered
  <1>6. Command(b)'
    BY <1>1, <1>2, <1>5 DEF PipelineInv, Command, Variants
  <1> QED BY <1>1, <1>3, <1>4, <1>6, CommandKeeps DEF PipelineInv

\* The build goes on; its plan is one that can be made.
LEMMA BuildKeeps ==
    ASSUME PipelineInv, NEW b \in Builds, BuildStep(b)
    PROVE  CommandTypes' /\ \A d \in Builds : Command(d)'
  <1>1. UNCHANGED <<config, stage, source, fetched, step, query, updates>> /\ stage[b] = "ready"
    BY DEF BuildStep, catalogVars, resolving
  <1>2. Step(b) /\ (Plannable(config[b]) \/ ~\E t \in Targets : Plan(b, t))
    <2>1. CASE Planned(b)
      <3>1. OutputPaths(config[b]) \in Targets /\ Plannable(config[b])
        BY <2>1, PlannedTargets DEF Planned, AllResolved, PipelineInv
      <3> QED BY <2>1, <3>1 DEF Planned, Step
    <2>2. CASE ~Planned(b)
      <3>1. Step(b)
        BY <2>2 DEF BuildStep, NotBuilt, Built, LetGo, Step
      <3>2. pc'[b] # "stat" \/ pc[b] # "plan"
        BY <2>2 DEF BuildStep, NotBuilt, Built, LetGo, Lock, Rejected, Absent, Inject, InjectFails,
                    Remove, RemoveFails, Unlock, FailsLate, WriteMetadata, Die, Enter,
                    PipelineInv, CommandTypes
      <3>3. \A t \in Targets : Plan(b, t) => pc[b] = "plan" /\ pc'[b] = "stat"
        BY DEF Plan, Enter, PipelineInv, CommandTypes
      <3> QED BY <3>1, <3>2, <3>3
    <2> QED BY <2>1, <2>2
  <1>3. /\ pc' \in [Builds -> Stages]
        /\ \A c \in Builds \ {b} : pc'[c] = pc[c]
        /\ pc'[b] \notin Early => Plannable(config[b])
    BY <1>2, StageMoves DEF PipelineInv, CommandTypes, Command, Early
  <1>4. CommandTypes'
    BY <1>1, <1>3 DEF PipelineInv, CommandTypes
  <1>5. Answered(b)'
    BY <1>1 DEF PipelineInv, Command, Answered
  <1>6. Command(b)'
    BY <1>1, <1>3, <1>5 DEF PipelineInv, Command, Early, Variants
  <1> QED BY <1>1, <1>3, <1>4, <1>6, CommandKeeps DEF PipelineInv

\* Settings that were loaded are accepted after the build (NewUploader,
\* NewPublisher), and so are the formats of a plan (imgsrvArtifactFormat).
LEMMA LoadedAccepted ==
    ASSUME CommandTypes, NEW b \in Builds, Loads(config[b].settings), Plannable(config[b])
    PROVE  /\ AcceptedByUploader(config[b].settings)
           /\ AcceptedByPublisher(config[b].settings)
           /\ \A i \in DOMAIN Variants(b) : imgsrvArtifactFormat(Variants(b)[i].format)
  <1> DEFINE s == config[b].settings
  <1>1. s.partSizeBytes \in minPublishPartSizeBytes..maxPublishPartSizeBytes
    BY DEF Loads, ValidPublishConfig
  <1>2. /\ minPublishPartSizeBytes = MinPartSizeBytes
        /\ maxPublishPartSizeBytes = MaxPartSizeBytes
    BY KAssumption DEF minPublishPartSizeBytes, maxPublishPartSizeBytes, MinPartSizeBytes, MaxPartSizeBytes
  <1>3. s.timeout > 0 /\ s.pollInterval > 0
    BY DEF Loads, ParsesDuration
  <1>4. AcceptedByUploader(s)
    BY <1>1, <1>2, <1>3 DEF AcceptedByUploader
  <1>5. \A i \in DOMAIN Variants(b) : imgsrvArtifactFormat(Variants(b)[i].format)
    BY DEF Plannable, Variants, Formats, imgsrvArtifactFormat
  <1> QED BY <1>3, <1>4, <1>5 DEF AcceptedByPublisher

\* The publisher is configured, and accepts.
LEMMA ConfigureKeeps ==
    ASSUME PipelineInv, NEW b \in Builds, Configure(b)
    PROVE  CommandTypes' /\ \A d \in Builds : Command(d)'
  <1>1. /\ config[b].command = "publish" /\ stage[b] = "ready" /\ pc[b] = "done"
        /\ UNCHANGED <<config, source, fetched, pc, step, query, updates>>
    BY DEF Configure, vars, catalogVars, resolving
  <1>2. Loads(config[b].settings) /\ Plannable(config[b])
    BY <1>1 DEF PipelineInv, Command
  <1>3. stage' = [stage EXCEPT ![b] = "handed"]
    BY <1>2, LoadedAccepted DEF Configure, PipelineInv
  <1>4. CommandTypes'
    BY <1>1, <1>3 DEF PipelineInv, CommandTypes
  <1>5. stage'[b] = "handed" /\ \A d \in Builds \ {b} : stage'[d] = stage[d]
    BY <1>3 DEF PipelineInv, CommandTypes
  <1>6. Answered(b)'
    BY <1>1 DEF PipelineInv, Command, Answered
  <1>7. Command(b)'
    BY <1>1, <1>2, <1>5, <1>6 DEF PipelineInv, Command, Variants
  <1> QED BY <1>1, <1>4, <1>5, <1>7, CommandKeeps DEF PipelineInv

-----------------------------------------------------------------------------
(* Theorems *)

\* The commands' invariant holds initially.
LEMMA PipelineStart == PipelineInit => PipelineInv
  <1> SUFFICES ASSUME PipelineInit PROVE PipelineInv
    OBVIOUS
  <1>1. CatalogInv
    BY CatalogStart DEF PipelineInit
  <1>2. CommandTypes
    BY DEF PipelineInit, Init, CommandTypes, Stages
  <1>3. ASSUME NEW b \in Builds PROVE Command(b)
    <2>1. /\ source[b] = <<>> /\ pc[b] = "lock" /\ step[b] = "idle"
          /\ stage[b] # "late" /\ (config[b].command = "publish" => stage[b] = "load")
      BY <1>3, ClientsAssumption DEF PipelineInit, Init, CatalogInit
    <2>2. Len(Variants(b)) \in Nat
      BY <1>2, ConfigTypes
    <2> QED BY <2>1, <2>2 DEF Command, Answered
  <1> QED BY <1>1, <1>2, <1>3 DEF PipelineInv

\* Every step of every command keeps it.
LEMMA PipelineSteps == PipelineInv /\ [PipelineNext]_pipelineVars => PipelineInv'
  <1> SUFFICES ASSUME PipelineInv, [PipelineNext]_pipelineVars PROVE PipelineInv'
    OBVIOUS
  <1>1. CatalogInv'
    BY ClientSteps, CatalogSteps DEF PipelineInv
  <1>2. ASSUME NEW b \in Builds, PipelineStep(b)
        PROVE  CommandTypes' /\ \A d \in Builds : Command(d)'
    BY <1>2, ResolveNextKeeps, ResolvingKeeps, ResolvedKeeps, StageKeeps, BuildKeeps, ConfigureKeeps
       DEF PipelineStep
  <1>3. ASSUME IndexMoves \/ UNCHANGED pipelineVars
        PROVE  CommandTypes' /\ \A d \in Builds : Command(d)'
    <2>1. UNCHANGED <<pc, config, stage, source, fetched, step, query, updates>>
      BY <1>3 DEF IndexMoves, MoveIndex, pipelineVars, catalogVars, resolving, vars
    <2>2. CommandTypes'
      BY <2>1 DEF PipelineInv, CommandTypes
    <2>3. ASSUME NEW d \in Builds PROVE Command(d)'
      BY <2>1 DEF PipelineInv, Command, Answered, Variants
    <2> QED BY <2>2, <2>3
  <1> QED BY <1>1, <1>2, <1>3 DEF PipelineNext, PipelineInv

\* The commands' invariant.
THEOREM PipelineInvariant == PipelineSpec => []PipelineInv
  BY PipelineStart, PipelineSteps, PTL DEF PipelineSpec

\* The commands do with the output directory what Outputs allows (Provider.Build
\* of the plan that Provider.Plan made).
THEOREM PipelineImplementsOutputs == PipelineSpec => ImplementsOutputs
  <1>1. PipelineInit => Init
    BY DEF PipelineInit
  <1>2. PipelineInv /\ [PipelineNext]_pipelineVars => [Next]_vars
    BY OutputsSteps DEF PipelineInv
  <1> QED BY <1>1, <1>2, PipelineInvariant, PTL DEF PipelineSpec, Spec, ImplementsOutputs

\* ResolveImage returns the image of the newest update (selectUpdate).
THEOREM ResolvedIsNewest == PipelineSpec => []ResolvedNewest
  <1>1. PipelineInv => ResolvedNewest
    BY DEF PipelineInv, CatalogInv, Call, ResolvedNewest
  <1> QED BY <1>1, PipelineInvariant, PTL

\* ErrImageNotFound is true of an index that was there during the call.
THEOREM MissingIsTrue == PipelineSpec => []MissingTrue
  <1>1. PipelineInv => MissingTrue
    BY DEF PipelineInv, CatalogInv, Call, MissingTrue
  <1> QED BY <1>1, PipelineInvariant, PTL

\* Two queries of one channel and version are answered from one update of an
\* index, and with one image if they ask for the same.
LEMMA SameAnswers ==
    ASSUME NEW idx \in Indexes, NEW p \in Queries, NEW q \in Queries, NEW a, NEW e,
           a \in Asset, e \in Asset,
           AnswersWith(idx, p, a), AnswersWith(idx, q, e),
           p.channel = q.channel, p.version = q.version
    PROVE  a.version = e.version /\ (p.offer = q.offer => a = e)
  <1>1. PICK i \in DOMAIN idx :
            /\ Newest(idx, p, i) /\ a.version = idx[i].version
            /\ \E f \in DOMAIN idx[i].files :
                FirstOffering(idx[i].files, p.offer, f) /\ a.image = idx[i].files[f].image
    BY DEF AnswersWith
  <1>2. PICK j \in DOMAIN idx :
            /\ Newest(idx, q, j) /\ e.version = idx[j].version
            /\ \E f \in DOMAIN idx[j].files :
                FirstOffering(idx[j].files, q.offer, f) /\ e.image = idx[j].files[f].image
    BY DEF AnswersWith
  <1>3. Newest(idx, p, j)
    BY <1>2 DEF Newest, Matches, Pinned
  <1>4. i = j
    BY <1>1, <1>3, NewestUnique
  <1>5. ASSUME p.offer = q.offer PROVE a.image = e.image
    <2> DEFINE files == idx[i].files
    <2>1. PICK f \in DOMAIN files : FirstOffering(files, p.offer, f) /\ a.image = files[f].image
      BY <1>1
    <2>2. PICK g \in DOMAIN files : FirstOffering(files, q.offer, g) /\ e.image = files[g].image
      BY <1>2, <1>4
    <2>3. f <= g /\ g <= f
      BY <1>5, <2>1, <2>2 DEF FirstOffering
    <2>4. files \in Seq(File)
      BY IndexTypes
    <2>5. f \in Nat /\ g \in Nat
      BY <2>4
    <2> QED BY <2>1, <2>2, <2>3, <2>5
  <1> QED BY <1>1, <1>2, <1>4, <1>5 DEF Asset

\* Queries made from one index give the same images for the same sources
\* (resolveArtifactSources, of `plan` and of `build`).
THEOREM SameIndexGivesSameImages == PipelineSpec => []SameIndexSameImages
  <1>1. PipelineInv => SameIndexSameImages
    <2> SUFFICES ASSUME PipelineInv, NEW b \in Builds, NEW c \in Builds, NEW idx \in Indexes,
                        fetched[b] = {idx}, fetched[c] = {idx},
                        NEW i \in DOMAIN source[b], NEW j \in DOMAIN source[c],
                        SourceOf(config[b], i) = SourceOf(config[c], j)
                 PROVE  /\ source[b][i].version = source[c][j].version
                        /\ Variants(b)[i].offer = Variants(c)[j].offer => source[b][i] = source[c][j]
      BY DEF SameIndexSameImages
    <2>1. AnswersWith(idx, QueryOf(config[b], i), source[b][i]) /\ source[b][i] \in Asset
      BY DEF PipelineInv, Command, Answered, CommandTypes
    <2>2. AnswersWith(idx, QueryOf(config[c], j), source[c][j]) /\ source[c][j] \in Asset
      BY DEF PipelineInv, Command, Answered, CommandTypes
    <2>3. QueryOf(config[b], i) \in Queries /\ QueryOf(config[c], j) \in Queries
      <3>1. /\ source[b] \in Seq(Asset) /\ Len(source[b]) <= Len(Variants(b))
            /\ source[c] \in Seq(Asset) /\ Len(source[c]) <= Len(Variants(c))
        BY DEF PipelineInv, Command, CommandTypes
      <3>2. i \in DOMAIN Variants(b) /\ j \in DOMAIN Variants(c)
        BY <3>1, ConfigTypes DEF PipelineInv
      <3> QED BY <3>2, ConfigTypes DEF PipelineInv
    <2>4. /\ QueryOf(config[b], i).channel = QueryOf(config[c], j).channel
          /\ QueryOf(config[b], i).version = QueryOf(config[c], j).version
          /\ QueryOf(config[b], i).offer = Variants(b)[i].offer
          /\ QueryOf(config[c], j).offer = Variants(c)[j].offer
      BY DEF QueryOf, Variants
    <2> QED BY <2>1, <2>2, <2>3, <2>4, SameAnswers
  <1> QED BY <1>1, PipelineInvariant, PTL

\* What NewUploader, NewPublisher or imgsrvArtifactFormat would refuse is refused before
\* the build, whatever number of bytes viper makes of a size (validatePublishConfig).
THEOREM RefusedBeforeTheBuild == PipelineSpec => []RefusedBeforeBuild
  <1>1. PipelineInv => RefusedBeforeBuild
    BY DEF PipelineInv, Command, RefusedBeforeBuild
  <1> QED BY <1>1, PipelineInvariant, PTL

\* Every variable keeps its type.
THEOREM PipelineTypeCorrect ==
    ASSUME SharedLock, MetadataApart
    PROVE  PipelineSpec => []PipelineTypeOK
  <1>1. PipelineInv /\ TypeOK => PipelineTypeOK
    BY DEF PipelineInv, CatalogInv, CommandTypes, Command, Variants, PipelineTypeOK
  <1> QED BY <1>1, PipelineInvariant, PipelineImplementsOutputs, OutputsTypeCorrect, PTL
          DEF ImplementsOutputs

\* What is proved of the output directory holds of the commands: images in their
\* place, none left by a failed build, true metadata, and nobody else's files touched.
THEOREM CommandsKeepOutputs ==
    ASSUME SharedLock, MetadataApart
    PROVE  PipelineSpec => /\ []ImagesInPlace /\ []FailedLeavesNone /\ []MetadataTrue
                           /\ OthersUntouched
  BY PipelineImplementsOutputs, ImagesAreInPlace, FailedBuildsLeaveNone, MetadataIsTrue,
     OthersAreUntouched, PTL DEF ImplementsOutputs

=================================================================================
