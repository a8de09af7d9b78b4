---------------------------- MODULE ReleaseProofs ----------------------------
(***************************************************************************)
(* What a published version lists and where aliases lead, for any number of *)
(* concurrent attempts, versions, artifacts and aliases, and that Release   *)
(* implements PublishedVersions.                                            *)
(***************************************************************************)
EXTENDS Release, TLAPS

-----------------------------------------------------------------------------
(* Types *)

\* What is assumed of the constants, in the form the proofs use.
LEMMA Constants ==
    /\ \A c \in Attempts : Count[c] \in Nat \ {0} /\ Version[c] \in Versions
    /\ \A r \in Requests : r # None /\ r.from \in Attempts /\ r.op \in Ops /\ r.arg \in Nat
    /\ "ok" # None /\ "conflict" # None /\ "error" # None
  BY CountAssumption, VersionAssumption, NoneAssumption DEF Requests, Answers

\* The attempt sends the request of its stage.
Sends(c, stage, op) == <<stage, op>> \in Asks /\ Send(c, stage, op)

\* An attempt goes on to another stage or round; if it was waiting, it stops.
\* Only the progress of uploads may change on the server.
Moves(c, s, k) ==
    /\ pc' = [pc EXCEPT ![c] = s]
    /\ n' = [n EXCEPT ![c] = k]
    /\ call' = [call EXCEPT ![c] = None]
    /\ answer' = [answer EXCEPT ![c] = None]
    /\ heard' \in {heard, [heard EXCEPT ![c] = FALSE]}
    /\ blobs' \in [Blobs -> {"none", "ingesting", "ready"}]
    /\ \A b \in Blobs : blobs[b] = "ready" => blobs'[b] = "ready"
    /\ UNCHANGED <<image, version, artifacts, alias, job, net>>

\* The initial state is well-formed.
LEMMA TypeInit == Init => TypeOK
  BY DEF Init, TypeOK, RemoteInit, RemoteTypeOK, Stages

\* Sending a request keeps the types.
LEMMA SendTypes ==
    ASSUME TypeOK, NEW c \in Attempts, NEW stage, NEW op, Sends(c, stage, op)
    PROVE  TypeOK'
  BY DEF TypeOK, Sends, Asks, Send, Ask, Requests, Ops, RemoteTypeOK, server, attempt

\* Moving on keeps the types.
LEMMA MoveTypes ==
    ASSUME TypeOK, NEW c \in Attempts, NEW s \in Stages, NEW k \in Nat \ {0}, Moves(c, s, k)
    PROVE  TypeOK'
  BY DEF TypeOK, Moves, RemoteTypeOK

\* Answering a request keeps the types of what the attempts hear.
LEMMA AnswerTypes ==
    ASSUME TypeOK, NEW r \in net, NEW a \in Answers, Answer(r, a)
    PROVE  RemoteTypeOK(Requests, Answers)'
  BY Constants DEF TypeOK, Answer, RemoteTypeOK

\* Whatever happens to a request keeps the types.
LEMMA HandleTypes ==
    ASSUME TypeOK, NEW r \in net, Handle(r) \/ Refuse(r) \/ Vanish(r)
    PROVE  TypeOK'
  <1>0. r \in Requests /\ r.from \in Attempts /\ r.arg \in Nat /\ Version[r.from] \in Versions
    BY Constants DEF TypeOK, RemoteTypeOK
  <1>1. CASE HandleImage(r)
    <2>1. RemoteTypeOK(Requests, Answers)'
      BY <1>1, AnswerTypes DEF HandleImage, Answers
    <2> QED BY <1>1, <2>1 DEF HandleImage, TypeOK, attempt
  <1>2. CASE HandleDraft(r)
    <2>1. RemoteTypeOK(Requests, Answers)'
      BY <1>2, AnswerTypes DEF HandleDraft, Answers
    <2> QED BY <1>0, <1>2, <2>1 DEF HandleDraft, TypeOK, attempt
  <1>3. CASE HandleAdd(r)
    <2>1. RemoteTypeOK(Requests, Answers)'
      BY <1>3, AnswerTypes DEF HandleAdd, Answers
    <2> QED BY <1>0, <1>3, <2>1 DEF HandleAdd, TypeOK, attempt, Artifact
  <1>4. CASE HandleDelete(r)
    <2>1. RemoteTypeOK(Requests, Answers)'
      BY <1>4, AnswerTypes DEF HandleDelete, Answers
    <2> QED BY <1>0, <1>4, <2>1 DEF HandleDelete, TypeOK, attempt
  <1>5. CASE HandlePublish(r)
    <2>1. RemoteTypeOK(Requests, Answers)'
      BY <1>5, AnswerTypes DEF HandlePublish, Answers
    <2> QED BY <1>0, <1>5, <2>1 DEF HandlePublish, TypeOK, attempt
  <1>6. CASE HandleAlias(r)
    <2>1. RemoteTypeOK(Requests, Answers)'
      BY <1>6, AnswerTypes DEF HandleAlias, Answers
    <2> QED BY <1>0, <1>6, <2>1 DEF HandleAlias, TypeOK, attempt
  <1>7. CASE Refuse(r)
    <2>1. RemoteTypeOK(Requests, Answers)'
      BY <1>7, AnswerTypes DEF Refuse, Answers
    <2> QED BY <1>7, <2>1 DEF Refuse, TypeOK, server, attempt
  <1>8. CASE Vanish(r)
    BY <1>8 DEF Vanish, Lose, TypeOK, RemoteTypeOK, server, attempt
  <1> QED BY <1>1, <1>2, <1>3, <1>4, <1>5, <1>6, <1>7, <1>8 DEF Handle

\* Jobs and ingestion keep the types.
LEMMA BackgroundTypes ==
    ASSUME TypeOK, (\E c \in Attempts : RunJob(c)) \/ (\E b \in Blobs : Ingest(b))
    PROVE  TypeOK'
  BY Constants DEF TypeOK, RunJob, Ingest, attempt, remote, RemoteTypeOK

-----------------------------------------------------------------------------
(* An attempt moves on *)

\* What an attempt must know to enter a stage.
MayEnter(c, s, k) ==
    /\ s \in {"add", "cleanup", "publish", "wait", "alias", "done"} => Drafted(c)
    /\ s \in {"upload", "uploading", "add", "cleanup"} => k <= Count[c]
    /\ Sent(c, {"delete"}) => s \in {"cleanup", "cleaned", "dead"}
    /\ Committed(c) => s \in {"publish", "wait", "alias", "done", "failed", "dead"}
    /\ s \in {"publish", "wait", "alias", "done"} => Mine(c) \subseteq artifacts[Version[c]]
    /\ s = "add" => \A i \in 1..(k - 1) : <<c, i>> \in artifacts[Version[c]]
    /\ s \in {"alias", "done"} => job[c] = "succeeded"
    /\ s \in {"upload", "uploading"} => \A i \in 1..(k - 1) : BlobReady(c, i)
    /\ s \in {"image", "draft", "add"} => \A i \in 1..Count[c] : BlobReady(c, i)

\* What it knows of its artifacts if it heard every answer.
Quiet(c, s, k) ==
    /\ \A r \in net : r.from # c
    /\ \A i \in 1..Count[c] : <<c, i>> \in artifacts[Version[c]] =>
        /\ s = "add" => i < k
        /\ s = "cleanup" => i <= k
        /\ s \notin Without

\* A move that may be made keeps the invariant.
LEMMA MoveKeeps ==
    ASSUME ReleaseInv, NEW c \in Attempts, NEW s \in Stages, NEW k \in Nat \ {0},
           Moves(c, s, k), MayEnter(c, s, k), heard'[c] /\ s # "dead" => Quiet(c, s, k)
    PROVE  ReleaseInv'
  <1> USE DEF ReleaseInv
  <1>0. /\ UNCHANGED <<image, version, artifacts, alias, job, net>>
        /\ pc'[c] = s /\ n'[c] = k /\ call'[c] = None /\ answer'[c] = None
        /\ heard'[c] => heard[c]
        /\ \A d \in Attempts \ {c} :
            /\ pc'[d] = pc[d] /\ n'[d] = n[d] /\ call'[d] = call[d]
            /\ answer'[d] = answer[d] /\ heard'[d] = heard[d]
    BY DEF Moves, TypeOK, RemoteTypeOK
  <1>1. \A d \in Attempts : Count[d] \in Nat \ {0} /\ n'[d] \in Nat \ {0} /\ Version[d] \in Versions
    BY Constants, MoveTypes DEF TypeOK
  <1>2. \A d \in Attempts : \A ops : Sent(d, ops)' <=> Sent(d, ops)
    BY <1>0 DEF Sent
  <1>3. TypeOK'
    BY MoveTypes
  <1>4. CallsMatch'
    <2>1. \A r \in net : r # None
      BY Constants DEF TypeOK, RemoteTypeOK
    <2> QED BY <1>0, <2>1 DEF CallsMatch
  <1>5. \A d \in Attempts : Drafted(d)' => Drafted(d)
    <2>1. "ok" # None
      BY Constants
    <2> QED BY <1>0, <1>2, <2>1 DEF Drafted, MayEnter
  <1>6. OneOwner'
    BY <1>0, <1>5 DEF OneOwner
  <1>7. Bounded'
    BY <1>0, <1>1 DEF Bounded, MayEnter
  <1>8. \A d \in Attempts \ {c} : Committed(d)' <=> Committed(d)
    BY <1>0, <1>2 DEF Committed
  <1>9. DeletesEarly'
    <2>1. Sent(c, {"delete"})' => s \in {"cleanup", "cleaned", "dead"} /\ ~Committed(c)'
      BY <1>0, <1>2 DEF DeletesEarly, MayEnter, Committed
    <2>2. Committed(c)' => s \in {"publish", "wait", "alias", "done", "failed", "dead"}
      BY <1>0, <1>2 DEF MayEnter, Committed
    <2> QED BY <1>0, <1>2, <1>8, <2>1, <2>2 DEF DeletesEarly
  <1>10. Progress'
    <2>1. Committed(c)' => Mine(c) \subseteq artifacts[Version[c]]
      BY <1>0, <1>2 DEF Progress, MayEnter, Committed
    <2>2. ASSUME NEW d \in Attempts, pc'[d] = "add", NEW i \in 1..n'[d],
                 i < n'[d] \/ answer'[d] = "ok"
          PROVE  <<d, i>> \in artifacts[Version[d]]
      <3>1. CASE d = c
        <4>1. i < k
          BY <1>0, <2>2, <3>1, Constants
        <4>2. i \in 1..(k - 1)
          BY <1>0, <2>2, <3>1, <4>1
        <4> QED BY <1>0, <2>2, <3>1, <4>2 DEF MayEnter
      <3>2. CASE d # c
        BY <1>0, <2>2, <3>2 DEF Progress
      <3> QED BY <3>1, <3>2
    <2> QED BY <1>0, <1>8, <2>1, <2>2 DEF Progress, Mine
  <1>11. Jobs'
    BY <1>0, <1>2 DEF Jobs, MayEnter
  <1>12. Hears'
    BY <1>0, <1>1, Constants DEF Hears, Quiet
  <1>13. \A d \in Attempts : \A i \in 1..Count[d] : BlobReady(d, i) => BlobReady(d, i)'
    BY BlobAssumption DEF BlobReady, Moves
  <1>14. Uploads'
    <2>1. ASSUME NEW d \in Attempts, pc'[d] \in {"upload", "uploading"}, NEW i \in 1..(n'[d] - 1)
          PROVE  BlobReady(d, i)'
      <3>1. i \in 1..Count[d]
        BY <1>1, <1>7, <2>1 DEF Bounded
      <3>2. BlobReady(d, i)
        BY <1>0, <2>1 DEF Uploads, MayEnter
      <3> QED BY <1>13, <3>1, <3>2
    <2>2. ASSUME NEW d \in Attempts, pc'[d] \in {"image", "draft", "add"} \/ Sent(d, {"add"})',
                 NEW i \in 1..Count[d]
          PROVE  BlobReady(d, i)'
      BY <1>0, <1>2, <1>13, <2>2 DEF Uploads, MayEnter
    <2> QED BY <2>1, <2>2 DEF Uploads
  <1>15. AliasPublished'
    BY <1>0 DEF AliasPublished
  <1>16. ArtifactsReady'
    <2> SUFFICES ASSUME NEW v \in Versions, NEW x \in artifacts[v]
                 PROVE  BlobReady(x[1], x[2])'
      BY <1>0 DEF ArtifactsReady
    <2>1. x[1] \in Attempts /\ x[2] \in 1..Count[x[1]] /\ BlobReady(x[1], x[2])
      BY DEF ArtifactsReady, Bounded, TypeOK, Artifact
    <2> QED BY <1>13, <2>1
  <1> QED
    BY <1>3, <1>4, <1>6, <1>7, <1>9, <1>10, <1>11, <1>12, <1>14, <1>15, <1>16

-----------------------------------------------------------------------------
(* An attempt sends a request *)

\* The request of its stage keeps the invariant.
LEMMA SendKeeps ==
    ASSUME ReleaseInv, NEW c \in Attempts, NEW stage, NEW op, Sends(c, stage, op)
    PROVE  ReleaseInv'
  <1> USE DEF ReleaseInv
  <1> DEFINE q == [from |-> c, op |-> op, arg |-> n[c]]
  <1>0. /\ pc[c] = stage /\ <<stage, op>> \in Asks
        /\ call[c] = None /\ answer[c] = None /\ call'[c] = q /\ answer'[c] = None
        /\ net' = net \cup {q}
        /\ q.from = c /\ q.op = op /\ q.arg = n[c]
        /\ UNCHANGED <<server, attempt, heard>>
        /\ \A d \in Attempts \ {c} : call'[d] = call[d] /\ answer'[d] = answer[d]
    BY DEF Sends, Send, Ask, TypeOK, RemoteTypeOK, CallsMatch
  <1> HIDE DEF q
  <1>1. TypeOK'
    BY SendTypes
  <1>2. \A d \in Attempts : \A ops : Sent(d, ops)' => Sent(d, ops) \/ (d = c /\ op \in ops)
    BY <1>0 DEF Sent
  <1>3. \A r \in net : r # None /\ r.from \in Attempts
    BY Constants DEF TypeOK, RemoteTypeOK
  <1>4. CallsMatch'
    <2>1. ASSUME NEW d \in Attempts, d # c, call[d] \in net' PROVE answer[d] = None
      BY <1>0, <2>1 DEF CallsMatch
    <2>2. q # None
      BY <1>0, <1>1, Constants DEF TypeOK, RemoteTypeOK
    <2>3. ASSUME NEW d \in Attempts, d # c
          PROVE  /\ call'[d] # None =>
                    call'[d].from = d /\ <<pc'[d], call'[d].op>> \in Asks /\ call'[d].arg = n'[d]
                 /\ call'[d] = None => answer'[d] = None
                 /\ call'[d] \in net' => answer'[d] = None
      BY <1>0, <2>1, <2>3 DEF CallsMatch, attempt
    <2>4. call'[c].from = c /\ <<pc'[c], call'[c].op>> \in Asks /\ call'[c].arg = n'[c]
      BY <1>0 DEF attempt
    <2> QED BY <1>0, <2>3, <2>4 DEF CallsMatch
  <1>5. \A d \in Attempts : Drafted(d)' => Drafted(d)
    <2>1. "ok" # None
      BY Constants
    <2> QED BY <1>0, <1>2, <2>1 DEF Drafted, Asks, server, attempt
  <1>6. OneOwner'
    BY <1>0, <1>5 DEF OneOwner, server
  <1>7. Bounded'
    BY <1>0, Constants DEF Bounded, Asks, server, attempt, TypeOK
  <1>8. \A d \in Attempts : Committed(d)' => Committed(d)
    BY <1>0, <1>2 DEF Committed, Asks, server, attempt
  <1>9. DeletesEarly'
    <2>1. ASSUME NEW d \in Attempts, Committed(d)'
          PROVE  pc'[d] \in {"publish", "wait", "alias", "done", "failed", "dead"}
      BY <1>0, <1>8, <2>1 DEF DeletesEarly, attempt
    <2>2. ASSUME NEW d \in Attempts, Sent(d, {"delete"})'
          PROVE  pc'[d] \in {"cleanup", "cleaned", "dead"} /\ ~Committed(d)'
      <3>1. CASE Sent(d, {"delete"})
        BY <1>0, <1>8, <3>1 DEF DeletesEarly, attempt
      <3>2. CASE d = c /\ op = "delete"
        BY <1>0, <2>1, <3>2 DEF Asks, attempt
      <3> QED BY <1>2, <2>2, <3>1, <3>2
    <2> QED BY <2>1, <2>2 DEF DeletesEarly
  <1>10. Progress'
    BY <1>0, <1>8 DEF Progress, Mine, server, attempt
  <1>11. Jobs'
    BY <1>0, <1>2 DEF Jobs, Asks, server, attempt
  <1>12. Hears'
    <2>1. "ok" # None
      BY Constants
    <2>2. heard[c] => \A r \in net : r.from # c
      BY <1>0, <1>3 DEF Hears, Asks
    <2> QED BY <1>0, <2>1, <2>2 DEF Hears, server, attempt
  <1>13. Uploads'
    BY <1>0, <1>2 DEF Uploads, BlobReady, Asks, server, attempt
  <1>14. AliasPublished' /\ ArtifactsReady'
    BY <1>0 DEF AliasPublished, ArtifactsReady, BlobReady, server
  <1> QED
    BY <1>1, <1>4, <1>6, <1>7, <1>9, <1>10, <1>11, <1>12, <1>13, <1>14

-----------------------------------------------------------------------------
(* The server handles a request, or it gets lost *)

\* A request leaves the network; only the attempt waiting for it hears of it.
Replies(r, a) ==
    /\ net' = net \ {r}
    /\ UNCHANGED <<pc, n, call, heard>>
    /\ \A d \in Attempts :
        answer'[d] = answer[d] \/ (call[d] = r /\ d = r.from /\ answer[d] = None /\ answer'[d] = a)

\* Answering a request, or losing it, is a reply; one waited for is heard.
LEMMA AnswerReplies ==
    ASSUME TypeOK, CallsMatch, NEW r \in net, NEW a, UNCHANGED attempt, Answer(r, a) \/ Lose(r)
    PROVE  /\ Replies(r, a)
           /\ Answer(r, a) /\ call[r.from] = r => answer'[r.from] = a
  <1>1. r \in Requests /\ r.from \in Attempts /\ r # None
    BY Constants DEF TypeOK, RemoteTypeOK
  <1>2. answer \in [Attempts -> Answers \cup {None}]
    BY DEF TypeOK, RemoteTypeOK
  <1>3. net' = net \ {r} /\ UNCHANGED <<pc, n, call, heard>>
    BY DEF Answer, Lose, attempt
  <1>4. CASE Answer(r, a)
    <2>1. CASE call[r.from] = r
      <3>1. answer' = [answer EXCEPT ![r.from] = a] /\ answer[r.from] = None
        BY <1>1, <1>4, <2>1 DEF Answer, CallsMatch
      <3> QED BY <1>1, <1>2, <1>3, <2>1, <3>1 DEF Replies
    <2>2. CASE call[r.from] # r
      BY <1>3, <1>4, <2>2 DEF Answer, Replies
    <2> QED BY <2>1, <2>2
  <1>5. CASE Lose(r) /\ ~Answer(r, a)
    BY <1>3, <1>5 DEF Lose, Replies
  <1> QED BY <1>4, <1>5

\* What a reply leaves alone, whatever the server did.
LEMMA ReplyCalls ==
    ASSUME TypeOK, CallsMatch, NEW r \in net, NEW a, Replies(r, a)
    PROVE  /\ CallsMatch'
           /\ \A d \in Attempts : \A ops : Sent(d, ops)' => Sent(d, ops)
           /\ \A d \in Attempts : answer'[d] = answer[d]
                \/ (d = r.from /\ <<pc[d], r.op>> \in Asks /\ r.arg = n[d] /\ answer'[d] = a)
  <1>1. r # None
    BY Constants DEF TypeOK, RemoteTypeOK
  <1> QED BY <1>1 DEF Replies, CallsMatch, Sent

\* A reply that no draft, addition or deletion waits for, or that is not "ok",
\* keeps the invariant if the server does not change but for aliases.
LEMMA ReplyKeeps ==
    ASSUME ReleaseInv, TypeOK', NEW r \in net, NEW a, Replies(r, a),
           r.op \in {"draft", "add", "delete"} => a # "ok",
           UNCHANGED <<version, artifacts, job, blobs>>, AliasPublished'
    PROVE  ReleaseInv'
  <1> USE DEF ReleaseInv
  <1>0. UNCHANGED <<pc, n, call, heard>> /\ net' \subseteq net
    BY DEF Replies
  <1>1. /\ CallsMatch'
        /\ \A d \in Attempts : \A ops : Sent(d, ops)' => Sent(d, ops)
        /\ \A d \in Attempts : answer'[d] = answer[d]
             \/ (d = r.from /\ <<pc[d], r.op>> \in Asks /\ r.arg = n[d] /\ answer'[d] = a)
    BY ReplyCalls
  <1>2. \A d \in Attempts : pc[d] \in {"draft", "add", "cleanup"} /\ answer'[d] = "ok" =>
            answer[d] = "ok"
    BY <1>1 DEF Asks
  <1>3. \A d \in Attempts : (Drafted(d)' => Drafted(d)) /\ (Committed(d)' => Committed(d))
    BY <1>0, <1>1, <1>2 DEF Drafted, Committed
  <1>4. OneOwner'
    BY <1>3 DEF OneOwner
  <1>5. Bounded'
    BY <1>0 DEF Bounded
  <1>6. DeletesEarly'
    BY <1>0, <1>1, <1>3 DEF DeletesEarly
  <1>7. Progress'
    BY <1>0, <1>2, <1>3 DEF Progress, Mine
  <1>8. Jobs'
    BY <1>0, <1>1 DEF Jobs
  <1>9. Hears'
    <2>1. \A d \in Attempts : pc[d] = "add" /\ answer[d] = "ok" => answer'[d] = "ok"
      BY Constants DEF Replies
    <2> QED BY <1>0, <1>2, <2>1 DEF Hears
  <1>10. Uploads'
    BY <1>0, <1>1 DEF Uploads, BlobReady
  <1>11. ArtifactsReady'
    BY DEF ArtifactsReady, BlobReady
  <1> QED BY <1>1, <1>4, <1>5, <1>6, <1>7, <1>8, <1>9, <1>10, <1>11

\* A version's state may change to one that is not "none" and keeps the jobs.
LEMMA DraftKeeps ==
    ASSUME ReleaseInv, TypeOK', NEW r \in net, HandleDraft(r)
    PROVE  ReleaseInv'
  <1> USE DEF ReleaseInv
  <1> DEFINE v == Version[r.from]
  <1>0. r \in Requests /\ r.from \in Attempts /\ v \in Versions
    BY Constants DEF TypeOK, RemoteTypeOK
  <1>1. CASE version[v] # "none"
    <2>1. Answer(r, "conflict") /\ UNCHANGED <<server, attempt>>
      BY <1>1 DEF HandleDraft, server
    <2>2. Replies(r, "conflict")
      BY <2>1, AnswerReplies
    <2> QED BY <2>1, <2>2, ReplyKeeps DEF AliasPublished, server
  <1>2. CASE version[v] = "none"
    <2>1. /\ Answer(r, "ok") /\ r.op = "draft"
          /\ version' = [version EXCEPT ![v] = "draft"]
          /\ UNCHANGED <<image, artifacts, alias, job, blobs, attempt>>
      BY <1>2 DEF HandleDraft
    <2>2. Replies(r, "ok")
      BY <2>1, AnswerReplies
    <2>3. /\ CallsMatch'
          /\ \A d \in Attempts : \A ops : Sent(d, ops)' => Sent(d, ops)
          /\ \A d \in Attempts : answer'[d] = answer[d]
               \/ (d = r.from /\ <<pc[d], r.op>> \in Asks /\ r.arg = n[d] /\ answer'[d] = "ok")
      BY <2>2, ReplyCalls
    <2>4. /\ UNCHANGED <<pc, n, call, heard, artifacts, alias, job, blobs>> /\ net' \subseteq net
          /\ \A w \in Versions : version'[w] # version[w] => w = v
          /\ version'[v] = "draft"
      BY <1>0, <2>1, <2>2 DEF Replies, TypeOK
    <2>5. \A d \in Attempts : Version[d] = v => ~Drafted(d)
      BY <1>2 DEF OneOwner
    <2>6. \A d \in Attempts : pc[d] \in {"add", "cleanup"} => answer'[d] = answer[d]
      BY <2>1, <2>3 DEF Asks
    <2>7. \A d \in Attempts : (Drafted(d)' => Drafted(d) \/ d = r.from) /\ (Committed(d)' => Committed(d))
      BY <2>3, <2>4 DEF Drafted, Committed
    <2>8. OneOwner'
      <3> SUFFICES ASSUME NEW d \in Attempts, Drafted(d)'
                   PROVE  /\ version'[Version[d]] # "none"
                          /\ \A e \in Attempts : Drafted(e)' /\ Version[e] = Version[d] => e = d
        BY DEF OneOwner
      <3>1. CASE d = r.from
        BY <2>4, <2>5, <2>7, <3>1
      <3>2. CASE d # r.from
        <4>1. Drafted(d) /\ Version[d] # v
          BY <2>5, <2>7, <3>2
        <4> QED BY <2>4, <2>7, <4>1, Constants DEF OneOwner
      <3> QED BY <3>1, <3>2
    <2>9. Bounded'
      BY <2>4 DEF Bounded
    <2>10. DeletesEarly'
      BY <2>3, <2>4, <2>7 DEF DeletesEarly
    <2>11. Progress'
      BY <2>4, <2>6, <2>7 DEF Progress, Mine
    <2>12. Jobs'
      BY <1>2, <2>3, <2>4, Constants DEF Jobs
    <2>13. Hears'
      BY <2>4, <2>6 DEF Hears
    <2>14. Uploads' /\ ArtifactsReady'
      BY <2>3, <2>4 DEF Uploads, ArtifactsReady, BlobReady
    <2>15. AliasPublished'
      BY <1>2, <2>4 DEF AliasPublished, TypeOK
    <2> QED BY <2>3, <2>8, <2>9, <2>10, <2>11, <2>12, <2>13, <2>14, <2>15
  <1> QED BY <1>1, <1>2

\* An artifact is added by the owner of the version, and waited for or not.
LEMMA AddKeeps ==
    ASSUME ReleaseInv, TypeOK', NEW r \in net, HandleAdd(r)
    PROVE  ReleaseInv'
  <1> USE DEF ReleaseInv
  <1> DEFINE v == Version[r.from]
             x == <<r.from, r.arg>>
  <1>0. r \in Requests /\ r.from \in Attempts /\ v \in Versions /\ r.arg \in Nat
    BY Constants DEF TypeOK, RemoteTypeOK
  <1>1. /\ Answer(r, "ok") /\ r.op = "add"
        /\ artifacts' = [artifacts EXCEPT ![v] = @ \cup {x}]
        /\ UNCHANGED <<image, version, alias, job, blobs, attempt>>
    BY DEF HandleAdd
  <1>2. Replies(r, "ok") /\ (call[r.from] = r => answer'[r.from] = "ok")
    BY <1>1, AnswerReplies
  <1>3. /\ CallsMatch'
        /\ \A d \in Attempts : \A ops : Sent(d, ops)' => Sent(d, ops)
        /\ \A d \in Attempts : answer'[d] = answer[d]
             \/ (d = r.from /\ <<pc[d], r.op>> \in Asks /\ r.arg = n[d] /\ answer'[d] = "ok")
    BY <1>2, ReplyCalls
  <1>4. /\ UNCHANGED <<pc, n, call, heard, version, alias, job, blobs>> /\ net' \subseteq net
        /\ \A w \in Versions : artifacts[w] \subseteq artifacts'[w]
        /\ \A w \in Versions : \A y \in artifacts'[w] : y \in artifacts[w] \/ (w = v /\ y = x)
        /\ x \in artifacts'[v]
    BY <1>0, <1>1, <1>2 DEF Replies, TypeOK
  <1>5. /\ Drafted(r.from) /\ r.arg \in 1..Count[r.from] /\ BlobReady(r.from, r.arg)
    BY <1>0, <1>1 DEF Drafted, Sent, Bounded, Uploads
  <1>6. \A d \in Attempts : pc[d] \in {"draft", "cleanup"} => answer'[d] = answer[d]
    BY <1>1, <1>3 DEF Asks
  <1>7. \A d \in Attempts : (Drafted(d)' => Drafted(d)) /\ (Committed(d)' => Committed(d))
    BY <1>3, <1>4, <1>5, <1>6, Constants DEF Drafted, Committed
  <1>8. OneOwner'
    BY <1>4, <1>7 DEF OneOwner
  <1>9. Bounded'
    BY <1>0, <1>4, <1>5 DEF Bounded
  <1>10. DeletesEarly'
    BY <1>3, <1>4, <1>7 DEF DeletesEarly
  <1>11. Progress'
    <2>1. ASSUME NEW d \in Attempts, pc[d] = "add", NEW i \in 1..n[d], i < n[d] \/ answer'[d] = "ok"
          PROVE  <<d, i>> \in artifacts'[Version[d]]
      <3>1. CASE i < n[d] \/ answer[d] = "ok"
        BY <1>4, <2>1, <3>1, Constants DEF Progress
      <3>2. CASE ~(i < n[d] \/ answer[d] = "ok")
        <4>1. d = r.from /\ r.arg = n[d]
          BY <1>3, <2>1, <3>2
        <4>2. i = n[d]
          BY <2>1, <3>2, <4>1, <1>0
        <4> QED BY <1>4, <4>1, <4>2
      <3> QED BY <3>1, <3>2
    <2> QED BY <1>4, <1>7, <2>1, Constants DEF Progress, Mine
  <1>12. Jobs'
    BY <1>3, <1>4 DEF Jobs
  <1>13. Hears'
    <2> SUFFICES ASSUME NEW d \in Attempts, heard[d], pc[d] # "dead"
                 PROVE  /\ \A q \in net' : q.from = d => call[d] = q
                        /\ \A i \in 1..Count[d] : <<d, i>> \in artifacts'[Version[d]] =>
                             /\ pc[d] = "add" => i < n[d] \/ (i = n[d] /\ answer'[d] = "ok")
                             /\ pc[d] = "cleanup" => i < n[d] \/ (i = n[d] /\ answer'[d] # "ok")
                             /\ pc[d] \notin Without
      BY <1>4 DEF Hears
    <2>1. d = r.from => call[d] = r /\ pc[d] = "add" /\ r.arg = n[d] /\ answer'[d] = "ok"
      BY <1>0, <1>1, <1>2, Constants DEF Hears, CallsMatch, Asks, TypeOK, RemoteTypeOK
    <2>2. ASSUME NEW i \in 1..Count[d], <<d, i>> \in artifacts'[Version[d]],
                 <<d, i>> \notin artifacts[Version[d]]
          PROVE  d = r.from /\ i = r.arg
      BY <1>4, <2>2, Constants
    <2>3. pc[d] = "add" /\ answer[d] = "ok" => answer'[d] = "ok"
      BY <1>3
    <2> QED BY <1>4, <1>6, <2>1, <2>2, <2>3 DEF Hears, Without
  <1>14. Uploads'
    BY <1>3, <1>4 DEF Uploads, BlobReady
  <1>15. ArtifactsReady'
    BY <1>4, <1>5 DEF ArtifactsReady, BlobReady
  <1>16. AliasPublished'
    BY <1>4 DEF AliasPublished
  <1> QED BY <1>3, <1>8, <1>9, <1>10, <1>11, <1>12, <1>13, <1>14, <1>15, <1>16

\* An artifact is only ever deleted for an attempt that will not publish.
LEMMA DeleteKeeps ==
    ASSUME ReleaseInv, TypeOK', NEW r \in net, HandleDelete(r)
    PROVE  ReleaseInv'
  <1> USE DEF ReleaseInv
  <1> DEFINE v == Version[r.from]
             x == <<r.from, r.arg>>
  <1>0. r \in Requests /\ r.from \in Attempts /\ v \in Versions /\ r.arg \in Nat
    BY Constants DEF TypeOK, RemoteTypeOK
  <1>1. /\ Answer(r, "ok") /\ r.op = "delete"
        /\ artifacts' = [artifacts EXCEPT ![v] = @ \ {x}]
        /\ UNCHANGED <<image, version, alias, job, blobs, attempt>>
    BY DEF HandleDelete
  <1>2. Replies(r, "ok") /\ (call[r.from] = r => answer'[r.from] = "ok")
    BY <1>1, AnswerReplies
  <1>3. /\ CallsMatch'
        /\ \A d \in Attempts : \A ops : Sent(d, ops)' => Sent(d, ops)
        /\ \A d \in Attempts : answer'[d] = answer[d]
             \/ (d = r.from /\ <<pc[d], r.op>> \in Asks /\ r.arg = n[d] /\ answer'[d] = "ok")
    BY <1>2, ReplyCalls
  <1>4. /\ UNCHANGED <<pc, n, call, heard, version, alias, job, blobs>> /\ net' \subseteq net
        /\ \A w \in Versions : artifacts'[w] \subseteq artifacts[w]
        /\ \A w \in Versions : \A y \in artifacts[w] : y \in artifacts'[w] \/ y = x
        /\ x \notin artifacts'[v]
    BY <1>0, <1>1, <1>2 DEF Replies, TypeOK
  <1>5. /\ pc[r.from] \in {"cleanup", "cleaned", "dead"} /\ ~Committed(r.from)
    BY <1>0, <1>1 DEF DeletesEarly, Sent
  <1>6. \A d \in Attempts : pc[d] \in {"draft", "add"} => answer'[d] = answer[d]
    BY <1>1, <1>3 DEF Asks
  <1>7. \A d \in Attempts : (Drafted(d)' => Drafted(d)) /\ (Committed(d)' => Committed(d))
    BY <1>3, <1>4, <1>6, Constants DEF Drafted, Committed
  <1>8. OneOwner'
    BY <1>4, <1>7 DEF OneOwner
  <1>9. Bounded'
    BY <1>4 DEF Bounded
  <1>10. DeletesEarly'
    BY <1>3, <1>4, <1>7 DEF DeletesEarly
  <1>11. Progress'
    <2>1. ASSUME NEW d \in Attempts, d # r.from, NEW i, <<d, i>> \in artifacts[Version[d]]
          PROVE  <<d, i>> \in artifacts'[Version[d]]
      BY <1>4, <2>1, Constants
    <2> QED BY <1>4, <1>5, <1>6, <1>7, <2>1 DEF Progress, Mine
  <1>12. Jobs'
    BY <1>3, <1>4 DEF Jobs
  <1>13. Hears'
    <2> SUFFICES ASSUME NEW d \in Attempts, heard[d], pc[d] # "dead"
                 PROVE  /\ \A q \in net' : q.from = d => call[d] = q
                        /\ \A i \in 1..Count[d] : <<d, i>> \in artifacts'[Version[d]] =>
                             /\ pc[d] = "add" => i < n[d] \/ (i = n[d] /\ answer'[d] = "ok")
                             /\ pc[d] = "cleanup" => i < n[d] \/ (i = n[d] /\ answer'[d] # "ok")
                             /\ pc[d] \notin Without
      BY <1>4 DEF Hears
    <2>1. answer'[d] # answer[d] => d = r.from /\ r.arg = n[d]
      BY <1>3
    <2> QED BY <1>4, <1>6, <2>1, Constants DEF Hears
  <1>14. Uploads'
    BY <1>3, <1>4 DEF Uploads, BlobReady
  <1>15. ArtifactsReady'
    BY <1>4 DEF ArtifactsReady, BlobReady
  <1>16. AliasPublished'
    BY <1>4 DEF AliasPublished
  <1> QED BY <1>3, <1>8, <1>9, <1>10, <1>11, <1>12, <1>13, <1>14, <1>15, <1>16

\* The publication starts only for the owner, who has added everything.
LEMMA PublishKeeps ==
    ASSUME ReleaseInv, TypeOK', NEW r \in net, HandlePublish(r)
    PROVE  ReleaseInv'
  <1> USE DEF ReleaseInv
  <1> DEFINE v == Version[r.from]
  <1>0. r \in Requests /\ r.from \in Attempts /\ v \in Versions
    BY Constants DEF TypeOK, RemoteTypeOK
  <1>1. CASE version[v] # "draft"
    <2>1. Answer(r, "conflict") /\ UNCHANGED <<server, attempt>>
      BY <1>1 DEF HandlePublish, server
    <2>2. Replies(r, "conflict")
      BY <2>1, AnswerReplies
    <2> QED BY <2>1, <2>2, ReplyKeeps DEF AliasPublished, server
  <1>2. CASE version[v] = "draft"
    <2>1. /\ Answer(r, "ok") /\ r.op = "publish"
          /\ version' = [version EXCEPT ![v] = "publishing"]
          /\ job' = [job EXCEPT ![r.from] = "queued"]
          /\ UNCHANGED <<image, artifacts, alias, blobs, attempt>>
      BY <1>2 DEF HandlePublish
    <2>2. Replies(r, "ok")
      BY <2>1, AnswerReplies
    <2>3. /\ CallsMatch'
          /\ \A d \in Attempts : \A ops : Sent(d, ops)' => Sent(d, ops)
          /\ \A d \in Attempts : answer'[d] = answer[d]
               \/ (d = r.from /\ <<pc[d], r.op>> \in Asks /\ r.arg = n[d] /\ answer'[d] = "ok")
      BY <2>2, ReplyCalls
    <2>4. /\ UNCHANGED <<pc, n, call, heard, artifacts, alias, blobs>> /\ net' \subseteq net
          /\ \A w \in Versions \ {v} : version'[w] = version[w]
          /\ version'[v] = "publishing" /\ job'[r.from] = "queued"
          /\ \A d \in Attempts \ {r.from} : job'[d] = job[d]
      BY <1>0, <2>1, <2>2 DEF Replies, TypeOK
    <2>5. Drafted(r.from) /\ Committed(r.from)
      BY <1>0, <2>1 DEF Drafted, Committed, Sent
    <2>6. \A d \in Attempts : pc[d] \in {"draft", "add", "cleanup"} => answer'[d] = answer[d]
      BY <2>1, <2>3 DEF Asks
    <2>7. \A d \in Attempts : (Drafted(d)' => Drafted(d)) /\ (Committed(d)' => Committed(d))
      BY <2>3, <2>4, <2>5, <2>6 DEF Drafted, Committed
    <2>8. OneOwner'
      BY <2>4, <2>7, Constants DEF OneOwner
    <2>9. Bounded'
      BY <2>4 DEF Bounded
    <2>10. DeletesEarly'
      BY <2>3, <2>4, <2>7 DEF DeletesEarly
    <2>11. Progress'
      BY <2>4, <2>6, <2>7 DEF Progress, Mine
    <2>12. Jobs'
      <3>0. \A d \in Attempts : job[d] # "none" => Drafted(d)
        BY DEF Drafted
      <3>1. \A d \in Attempts : Version[d] = v /\ job[d] # "none" => d = r.from
        BY <1>0, <2>5, <3>0 DEF OneOwner
      <3>2. job[r.from] # "succeeded"
        BY <1>0, <1>2 DEF Jobs
      <3> QED BY <1>2, <2>3, <2>4, <3>1, <3>2, Constants DEF Jobs
    <2>13. Hears'
      BY <2>4, <2>6 DEF Hears
    <2>14. Uploads' /\ ArtifactsReady'
      BY <2>3, <2>4 DEF Uploads, ArtifactsReady, BlobReady
    <2>15. AliasPublished'
      BY <1>2, <2>4 DEF AliasPublished, TypeOK
    <2> QED BY <2>3, <2>8, <2>9, <2>10, <2>11, <2>12, <2>13, <2>14, <2>15
  <1> QED BY <1>1, <1>2

\* Every request the server handles, refuses or never gets keeps the invariant.
LEMMA HandleKeeps ==
    ASSUME ReleaseInv, NEW r \in net, Handle(r) \/ Refuse(r) \/ Vanish(r)
    PROVE  ReleaseInv'
  <1> USE DEF ReleaseInv
  <1>0. TypeOK' /\ r.from \in Attempts
    BY HandleTypes, Constants DEF TypeOK, RemoteTypeOK
  <1>1. CASE HandleImage(r)
    <2>1. PICK a \in {"ok", "conflict"} : Replies(r, a)
      BY <1>1, AnswerReplies DEF HandleImage
    <2> QED BY <1>0, <1>1, <2>1, ReplyKeeps DEF HandleImage, AliasPublished
  <1>2. CASE HandleAlias(r)
    <2>1. Replies(r, "ok") /\ r.op = "alias" /\ UNCHANGED <<version, artifacts, job, blobs>>
      BY <1>2, AnswerReplies DEF HandleAlias
    <2>2. version[Version[r.from]] = "published"
      BY <1>0, <2>1 DEF Jobs, Sent
    <2>3. AliasPublished'
      BY <1>2, <2>1, <2>2 DEF HandleAlias, AliasPublished, TypeOK
    <2> QED BY <1>0, <2>1, <2>3, ReplyKeeps
  <1>3. CASE Refuse(r)
    <2>1. Replies(r, "error") /\ UNCHANGED server
      BY <1>3, AnswerReplies DEF Refuse
    <2> QED BY <1>0, <2>1, ReplyKeeps DEF server, AliasPublished
  <1>4. CASE Vanish(r)
    <2>1. Replies(r, "error") /\ UNCHANGED server
      BY <1>4, AnswerReplies DEF Vanish
    <2> QED BY <1>0, <2>1, ReplyKeeps DEF server, AliasPublished
  <1> QED
    BY <1>0, <1>1, <1>2, <1>3, <1>4, DraftKeeps, AddKeeps, DeleteKeeps, PublishKeeps DEF Handle

-----------------------------------------------------------------------------
(* The server's own steps *)

\* The job that ends is the only one of its version.
LEMMA JobKeeps ==
    ASSUME ReleaseInv, TypeOK', NEW c \in Attempts, RunJob(c)
    PROVE  ReleaseInv'
  <1> USE DEF ReleaseInv
  <1> DEFINE v == Version[c]
  <1>0. v \in Versions /\ job[c] = "queued"
    BY Constants DEF RunJob
  <1>1. /\ UNCHANGED <<pc, n, call, answer, heard, net, artifacts, alias, blobs>>
        /\ \A w \in Versions \ {v} : version'[w] = version[w]
        /\ \A d \in Attempts \ {c} : job'[d] = job[d]
        /\ \/ job'[c] = "succeeded" /\ version'[v] = "published"
           \/ job'[c] = "failed" /\ version'[v] = "draft"
    BY <1>0 DEF RunJob, TypeOK, attempt, remote
  <1>2. \A d \in Attempts : \A ops : Sent(d, ops)' <=> Sent(d, ops)
    BY <1>1 DEF Sent
  <1>3. \A d \in Attempts : (Drafted(d)' <=> Drafted(d)) /\ (Committed(d)' <=> Committed(d))
    BY <1>0, <1>1, <1>2 DEF Drafted, Committed
  <1>4. \A d \in Attempts : Version[d] = v /\ job[d] # "none" => d = c
    <2>1. \A d \in Attempts : job[d] # "none" => Drafted(d)
      BY DEF Drafted
    <2> QED BY <1>0, <2>1 DEF OneOwner
  <1>5. version[v] = "publishing"
    BY <1>0 DEF Jobs
  <1>6. CallsMatch' /\ Bounded' /\ Hears'
    BY <1>1 DEF CallsMatch, Bounded, Hears
  <1>7. OneOwner'
    BY <1>1, <1>3, Constants DEF OneOwner
  <1>8. DeletesEarly'
    BY <1>1, <1>2, <1>3 DEF DeletesEarly
  <1>9. Progress'
    BY <1>1, <1>3 DEF Progress, Mine
  <1>10. Jobs'
    BY <1>0, <1>1, <1>2, <1>4, Constants DEF Jobs
  <1>11. Uploads' /\ ArtifactsReady'
    BY <1>1, <1>2 DEF Uploads, ArtifactsReady, BlobReady
  <1>12. AliasPublished'
    BY <1>1, <1>5 DEF AliasPublished, TypeOK
  <1> QED BY <1>6, <1>7, <1>8, <1>9, <1>10, <1>11, <1>12

\* A blob that is ready stays ready.
LEMMA IngestKeeps ==
    ASSUME ReleaseInv, TypeOK', NEW b \in Blobs, Ingest(b)
    PROVE  ReleaseInv'
  <1> USE DEF ReleaseInv
  <1>1. /\ UNCHANGED <<pc, n, call, answer, heard, net, version, artifacts, alias, job>>
        /\ \A x \in Blobs : blobs[x] = "ready" => blobs'[x] = "ready"
    BY DEF Ingest, TypeOK, attempt, remote
  <1>2. \A d \in Attempts : \A ops : Sent(d, ops)' <=> Sent(d, ops)
    BY <1>1 DEF Sent
  <1>3. \A d \in Attempts : (Drafted(d)' <=> Drafted(d)) /\ (Committed(d)' <=> Committed(d))
    BY <1>1, <1>2 DEF Drafted, Committed
  <1>4. CallsMatch' /\ Bounded' /\ Hears' /\ AliasPublished'
    BY <1>1 DEF CallsMatch, Bounded, Hears, AliasPublished
  <1>5. OneOwner' /\ DeletesEarly' /\ Progress' /\ Jobs'
    BY <1>1, <1>2, <1>3 DEF OneOwner, DeletesEarly, Progress, Mine, Jobs
  <1>6. \A d \in Attempts : \A i \in 1..Count[d] : BlobReady(d, i) => BlobReady(d, i)'
    BY <1>1, BlobAssumption DEF BlobReady
  <1>7. Uploads'
    <2>1. ASSUME NEW d \in Attempts, pc[d] \in {"upload", "uploading"}, NEW i \in 1..(n[d] - 1)
          PROVE  BlobReady(d, i)'
      <3>1. i \in 1..Count[d]
        BY <2>1, Constants DEF Bounded, TypeOK
      <3> QED BY <1>6, <2>1, <3>1 DEF Uploads
    <2> QED BY <1>1, <1>2, <1>6, <2>1 DEF Uploads
  <1>8. ArtifactsReady'
    <2> SUFFICES ASSUME NEW v \in Versions, NEW x \in artifacts[v]
                 PROVE  BlobReady(x[1], x[2])'
      BY <1>1 DEF ArtifactsReady
    <2>1. x[1] \in Attempts /\ x[2] \in 1..Count[x[1]] /\ BlobReady(x[1], x[2])
      BY DEF ArtifactsReady, Bounded, TypeOK, Artifact
    <2> QED BY <1>6, <2>1
  <1> QED BY <1>4, <1>5, <1>7, <1>8

-----------------------------------------------------------------------------
(* The attempt's own steps *)

\* A move that leaves the server alone and keeps the invariant.
Goes(c, s, k) ==
    /\ pc' = [pc EXCEPT ![c] = s]
    /\ n' = [n EXCEPT ![c] = k]
    /\ UNCHANGED server
    /\ HangUp(c)
    /\ heard' \in {heard, [heard EXCEPT ![c] = FALSE]}

\* Such a move keeps the invariant under the conditions of MoveKeeps.
LEMMA GoKeeps ==
    ASSUME ReleaseInv, NEW c \in Attempts, NEW s \in Stages, NEW k \in Nat \ {0},
           Goes(c, s, k), MayEnter(c, s, k), heard'[c] /\ s # "dead" => Quiet(c, s, k)
    PROVE  ReleaseInv'
  <1>1. Moves(c, s, k)
    BY DEF Goes, Moves, HangUp, ReleaseInv, TypeOK, server
  <1> QED BY <1>1, MoveKeeps

\* An attempt that heard its answer has no request on its way.
LEMMA Heard ==
    ASSUME ReleaseInv, NEW c \in Attempts, NEW good \in SUBSET Answers,
           Told(c, good) \/ Refused(c, good), heard'[c]
    PROVE  heard[c] /\ pc[c] # "dead" /\ \A r \in net : r.from # c
  <1>1. heard[c] /\ call[c] # None /\ answer[c] # None
    BY NoneAssumption DEF Told, Refused, ReleaseInv, TypeOK, RemoteTypeOK
  <1> QED BY <1>1 DEF ReleaseInv, CallsMatch, Hears, Asks

\* What an attempt that makes a call knows before it goes on.
LEMMA Knows ==
    ASSUME ReleaseInv, NEW c \in Attempts
    PROVE  /\ n[c] \in Nat \ {0} /\ Count[c] \in Nat \ {0}
           /\ pc[c] \in {"upload", "uploading", "add", "cleanup"} => n[c] <= Count[c]
           /\ Sent(c, {"delete"}) => pc[c] \in {"cleanup", "cleaned", "dead"}
           /\ Committed(c) => pc[c] \in {"publish", "wait", "alias", "done", "failed", "dead"}
           /\ pc[c] \in {"publish", "wait", "alias", "done"} => Committed(c)
           /\ Committed(c) => Mine(c) \subseteq artifacts[Version[c]]
           /\ pc[c] \in {"add", "cleanup", "publish", "wait", "alias", "done"} => Drafted(c)
           /\ Committed(c) => ~Sent(c, {"delete"})
           /\ pc[c] \in {"upload", "uploading", "wait"} /\ heard[c] => \A r \in net : r.from # c
  BY Constants
  DEF ReleaseInv, TypeOK, RemoteTypeOK, Bounded, DeletesEarly, Progress, Committed, Drafted, Hears,
      CallsMatch, Asks

\* An attempt that fails, or is killed, need not know anything.
LEMMA StopKeeps ==
    ASSUME ReleaseInv, NEW c \in Attempts, NEW s \in {"failed", "dead"}, Goes(c, s, 1),
           Sent(c, {"delete"}) => s = "dead",
           heard'[c] /\ s # "dead" => \A r \in net : r.from # c
    PROVE  ReleaseInv'
  <1>1. MayEnter(c, s, 1) /\ (heard'[c] /\ s # "dead" => Quiet(c, s, 1))
    BY DEF MayEnter, Quiet, Without
  <1> QED BY <1>1, GoKeeps DEF Stages

\* A call that fails the attempt keeps the invariant.
LEMMA FailKeeps ==
    ASSUME ReleaseInv, NEW c \in Attempts, NEW stage, NEW good \in SUBSET Answers,
           stage \in {"image", "draft", "publish", "alias"}, Fails(c, stage, good), Enter(c, "failed", 1)
    PROVE  ReleaseInv'
  <1>1. Goes(c, "failed", 1)
    BY DEF Fails, Refused, Enter, Goes
  <1>2. ~Sent(c, {"delete"})
    BY Knows DEF Fails
  <1>3. heard'[c] => \A r \in net : r.from # c
    BY Heard DEF Fails
  <1> QED BY <1>1, <1>2, <1>3, StopKeeps

\* The upload's own steps.
LEMMA UploadKeeps ==
    ASSUME ReleaseInv, NEW c \in Attempts, Upload(c) \/ Uploaded(c) \/ UploadFailed(c)
    PROVE  ReleaseInv'
  <1> USE DEF ReleaseInv
  <1>0. /\ n[c] \in Nat \ {0} /\ Count[c] \in Nat \ {0} /\ n[c] <= Count[c]
        /\ pc[c] \in {"upload", "uploading"}
        /\ ~Sent(c, {"delete"}) /\ ~Committed(c)
        /\ heard[c] => \A r \in net : r.from # c
        /\ \A i \in 1..(n[c] - 1) : BlobReady(c, i)
        /\ heard[c] => \A i \in 1..Count[c] : <<c, i>> \notin artifacts[Version[c]]
    BY Knows DEF Upload, Uploaded, UploadFailed, Uploads, Hears, Without
  <1>1. call[c] = None /\ answer[c] = None /\ call \in [Attempts -> Requests \cup {None}]
        /\ answer \in [Attempts -> Answers \cup {None}]
    BY <1>0 DEF CallsMatch, Asks, TypeOK, RemoteTypeOK
  <1>2. call = [call EXCEPT ![c] = None] /\ answer = [answer EXCEPT ![c] = None]
    BY <1>1
  <1>3. CASE Upload(c)
    <2>1. Moves(c, "uploading", n[c])
      <3>1. Blob[c][n[c]] \in Blobs
        BY <1>0, BlobAssumption
      <3> QED BY <1>2, <1>3, <3>1 DEF Upload, Enter, Moves, TypeOK, remote
    <2>2. MayEnter(c, "uploading", n[c]) /\ (heard'[c] => Quiet(c, "uploading", n[c]))
      BY <1>0, <1>3 DEF MayEnter, Quiet, Upload, remote
    <2> QED BY <1>0, <2>1, <2>2, MoveKeeps DEF Stages
  <1>4. CASE Uploaded(c)
    <2>1. CASE Enter(c, "failed", 1)
      <3>1. Goes(c, "failed", 1)
        BY <1>2, <1>4, <2>1 DEF Uploaded, Enter, Goes, HangUp, remote
      <3> QED BY <1>0, <1>4, <3>1, StopKeeps DEF Uploaded, remote
    <2>2. CASE BlobReady(c, n[c]) /\ n[c] < Count[c] /\ Enter(c, "upload", n[c] + 1)
      <3>1. Goes(c, "upload", n[c] + 1)
        BY <1>2, <1>4, <2>2 DEF Uploaded, Enter, Goes, HangUp, remote
      <3>2. MayEnter(c, "upload", n[c] + 1) /\ (heard'[c] => Quiet(c, "upload", n[c] + 1))
        BY <1>0, <1>4, <2>2 DEF MayEnter, Quiet, Uploaded, remote
      <3> QED BY <1>0, <3>1, <3>2, GoKeeps DEF Stages
    <2>3. CASE BlobReady(c, n[c]) /\ n[c] = Count[c] /\ Enter(c, "image", 1)
      <3>1. Goes(c, "image", 1)
        BY <1>2, <1>4, <2>3 DEF Uploaded, Enter, Goes, HangUp, remote
      <3>2. MayEnter(c, "image", 1) /\ (heard'[c] => Quiet(c, "image", 1))
        BY <1>0, <1>4, <2>3 DEF MayEnter, Quiet, Uploaded, remote
      <3> QED BY <3>1, <3>2, GoKeeps DEF Stages
    <2> QED BY <1>4, <2>1, <2>2, <2>3 DEF Uploaded, BlobReady
  <1>5. CASE UploadFailed(c)
    <2>1. Goes(c, "failed", 1)
      BY <1>2, <1>5 DEF UploadFailed, Enter, Goes, HangUp, remote
    <2> QED BY <1>0, <1>5, <2>1, StopKeeps DEF UploadFailed, remote
  <1> QED BY <1>3, <1>4, <1>5

\* The calls that make the draft and fill it.
LEMMA CallKeeps ==
    ASSUME ReleaseInv, NEW c \in Attempts,
           ImageCreated(c) \/ DraftCreated(c) \/ ArtifactAdded(c) \/ AddFailed(c)
    PROVE  ReleaseInv'
  <1> USE DEF ReleaseInv
  <1>0. /\ n[c] \in Nat \ {0} /\ Count[c] \in Nat \ {0} /\ pc[c] \in {"image", "draft", "add"}
        /\ ~Sent(c, {"delete"}) /\ ~Committed(c)
        /\ \A i \in 1..Count[c] : BlobReady(c, i)
        /\ pc[c] = "add" => Drafted(c) /\ n[c] <= Count[c]
        /\ heard[c] /\ pc[c] # "add" =>
             \A i \in 1..Count[c] : <<c, i>> \notin artifacts[Version[c]]
    BY Knows
    DEF ImageCreated, DraftCreated, ArtifactAdded, AddFailed, Succeeds, Fails, Uploads, Hears, Without
  <1>1. heard'[c] => heard[c] /\ \A r \in net : r.from # c
    <2>1. {"ok"} \in SUBSET Answers /\ {"ok", "conflict"} \in SUBSET Answers
      BY DEF Answers
    <2> QED BY <2>1, Heard DEF ImageCreated, DraftCreated, ArtifactAdded, AddFailed, Succeeds, Fails
  <1>2. CASE ImageCreated(c)
    <2>1. Goes(c, "draft", 1)
      BY <1>2 DEF ImageCreated, Succeeds, Told, Enter, Goes
    <2>2. MayEnter(c, "draft", 1) /\ (heard'[c] => Quiet(c, "draft", 1))
      BY <1>0, <1>1, <1>2 DEF MayEnter, Quiet, ImageCreated, Succeeds
    <2> QED BY <2>1, <2>2, GoKeeps DEF Stages
  <1>3. CASE DraftCreated(c)
    <2>1. Goes(c, "add", 1)
      BY <1>3 DEF DraftCreated, Succeeds, Told, Enter, Goes
    <2>2. Drafted(c)
      BY <1>3 DEF DraftCreated, Succeeds, Told, Drafted
    <2>3. MayEnter(c, "add", 1)
      BY <1>0, <2>2 DEF MayEnter
    <2>4. heard'[c] => Quiet(c, "add", 1)
      BY <1>0, <1>1, <1>3 DEF Quiet, DraftCreated, Succeeds, Without
    <2> QED BY <2>1, <2>3, <2>4, GoKeeps DEF Stages
  <1>4. CASE ArtifactAdded(c)
    <2>1. pc[c] = "add" /\ answer[c] = "ok"
      BY <1>4 DEF ArtifactAdded, Succeeds, Told
    <2>2. \A i \in 1..n[c] : <<c, i>> \in artifacts[Version[c]]
      BY <2>1 DEF Progress
    <2>3. CASE n[c] < Count[c]
      <3>1. Goes(c, "add", n[c] + 1)
        BY <1>4, <2>1, <2>3 DEF ArtifactAdded, Succeeds, Told, Stay, Goes, TypeOK
      <3>2. MayEnter(c, "add", n[c] + 1)
        BY <1>0, <2>1, <2>2, <2>3 DEF MayEnter
      <3>3. heard'[c] => Quiet(c, "add", n[c] + 1)
        BY <1>0, <1>1, <2>1 DEF Quiet, Hears, Without
      <3> QED BY <1>0, <3>1, <3>2, <3>3, GoKeeps DEF Stages
    <2>4. CASE n[c] = Count[c]
      <3>1. Goes(c, "publish", 1)
        BY <1>0, <1>4, <2>4 DEF ArtifactAdded, Succeeds, Told, Enter, Goes
      <3>2. MayEnter(c, "publish", 1)
        BY <1>0, <2>1, <2>2, <2>4 DEF MayEnter, Mine
      <3>3. heard'[c] => Quiet(c, "publish", 1)
        BY <1>1 DEF Quiet, Without
      <3> QED BY <3>1, <3>2, <3>3, GoKeeps DEF Stages
    <2> QED BY <1>0, <2>1, <2>3, <2>4
  <1>5. CASE AddFailed(c)
    <2>1. pc[c] = "add" /\ (heard'[c] => answer[c] # "ok")
      BY <1>5 DEF AddFailed, Fails, Refused, TypeOK, RemoteTypeOK
    <2>2. heard'[c] => \A i \in 1..Count[c] : <<c, i>> \in artifacts[Version[c]] => i < n[c]
      BY <1>1, <2>1 DEF Hears
    <2>3. CASE n[c] > 1
      <3>1. Goes(c, "cleanup", n[c] - 1)
        BY <1>5, <2>3 DEF AddFailed, Fails, Refused, Enter, Goes
      <3>2. MayEnter(c, "cleanup", n[c] - 1)
        BY <1>0, <2>1, <2>3 DEF MayEnter
      <3>3. heard'[c] => Quiet(c, "cleanup", n[c] - 1)
        BY <1>0, <1>1, <2>2 DEF Quiet, Without
      <3> QED BY <1>0, <2>3, <3>1, <3>2, <3>3, GoKeeps DEF Stages
    <2>4. CASE n[c] = 1
      <3>1. Goes(c, "cleaned", 1)
        BY <1>5, <2>4 DEF AddFailed, Fails, Refused, Enter, Goes
      <3>2. MayEnter(c, "cleaned", 1) /\ (heard'[c] => Quiet(c, "cleaned", 1))
        BY <1>0, <1>1, <2>2, <2>4 DEF MayEnter, Quiet
      <3> QED BY <3>1, <3>2, GoKeeps DEF Stages
    <2> QED BY <1>0, <2>3, <2>4
  <1> QED BY <1>2, <1>3, <1>4, <1>5

\* The clean-up goes on to the artifact before.
LEMMA CleanupKeeps ==
    ASSUME ReleaseInv, NEW c \in Attempts, ArtifactDeleted(c)
    PROVE  ReleaseInv'
  <1> USE DEF ReleaseInv
  <1>0. /\ n[c] \in Nat \ {0} /\ Count[c] \in Nat \ {0} /\ n[c] <= Count[c]
        /\ pc[c] = "cleanup" /\ Drafted(c) /\ ~Committed(c)
    BY Knows DEF ArtifactDeleted, Succeeds, Fails
  <1>1. Told(c, {"ok"}) \/ (Refused(c, {"ok"}) /\ ~heard'[c])
    BY DEF ArtifactDeleted, Succeeds, Fails
  <1>2. heard'[c] => /\ \A r \in net : r.from # c
                     /\ \A i \in 1..Count[c] : <<c, i>> \in artifacts[Version[c]] => i < n[c]
    <2>1. {"ok"} \in SUBSET Answers
      BY DEF Answers
    <2>2. heard'[c] => heard[c] /\ \A r \in net : r.from # c
      BY <1>1, <2>1, Heard
    <2>3. heard'[c] => answer[c] = "ok"
      BY <1>1 DEF Told
    <2> QED BY <1>0, <2>2, <2>3 DEF Hears
  <1>3. CASE n[c] > 1
    <2>1. Goes(c, "cleanup", n[c] - 1)
      BY <1>0, <1>3 DEF ArtifactDeleted, Succeeds, Fails, Told, Refused, Stay, Goes, TypeOK
    <2>2. MayEnter(c, "cleanup", n[c] - 1)
      BY <1>0, <1>3 DEF MayEnter
    <2>3. heard'[c] => Quiet(c, "cleanup", n[c] - 1)
      BY <1>0, <1>2 DEF Quiet, Without
    <2> QED BY <1>0, <1>3, <2>1, <2>2, <2>3, GoKeeps DEF Stages
  <1>4. CASE n[c] = 1
    <2>1. Goes(c, "cleaned", 1)
      BY <1>4 DEF ArtifactDeleted, Succeeds, Fails, Told, Refused, Enter, Goes
    <2>2. MayEnter(c, "cleaned", 1) /\ (heard'[c] => Quiet(c, "cleaned", 1))
      BY <1>0, <1>2, <1>4 DEF MayEnter, Quiet
    <2> QED BY <2>1, <2>2, GoKeeps DEF Stages
  <1> QED BY <1>0, <1>3, <1>4

\* The steps of an attempt that has added everything.
LEMMA PublicationKeeps ==
    ASSUME ReleaseInv, NEW c \in Attempts, PublishStarted(c) \/ Published(c) \/ AliasPut(c)
    PROVE  ReleaseInv'
  <1> USE DEF ReleaseInv
  <1>0. /\ n[c] \in Nat \ {0} /\ pc[c] \in {"publish", "wait", "alias"}
        /\ Drafted(c) /\ Committed(c) /\ ~Sent(c, {"delete"})
        /\ Mine(c) \subseteq artifacts[Version[c]]
        /\ pc[c] = "alias" => job[c] = "succeeded"
        /\ pc[c] = "wait" /\ heard[c] => \A r \in net : r.from # c
    BY Knows DEF PublishStarted, Published, AliasPut, Succeeds, Jobs
  <1>1. pc[c] = "wait" => call = [call EXCEPT ![c] = None] /\ answer = [answer EXCEPT ![c] = None]
    BY DEF CallsMatch, Asks, TypeOK, RemoteTypeOK
  <1>2. heard'[c] => \A r \in net : r.from # c
    <2>1. {"ok"} \in SUBSET Answers
      BY DEF Answers
    <2>2. CASE Told(c, {"ok"})
      BY <2>1, <2>2, Heard
    <2>3. CASE Published(c)
      BY <1>0, <2>3 DEF Published, remote
    <2> QED BY <2>2, <2>3 DEF PublishStarted, AliasPut, Succeeds
  <1>3. PICK s \in {"wait", "alias", "done"}, k \in Nat \ {0} :
            Goes(c, s, k) /\ (s \in {"alias", "done"} => job[c] = "succeeded")
    <2>1. CASE PublishStarted(c)
      <3>1. Goes(c, "wait", 1)
        BY <2>1 DEF PublishStarted, Succeeds, Told, Enter, Goes
      <3> QED BY <3>1
    <2>2. CASE Published(c)
      <3>1. job[c] = "succeeded" /\ (Goes(c, "alias", 1) \/ Goes(c, "done", 1))
        BY <1>1, <2>2 DEF Published, Enter, Goes, HangUp, remote
      <3> QED BY <3>1
    <2>3. CASE AliasPut(c)
      <3>1. pc[c] = "alias" /\ n[c] + 1 \in Nat \ {0} /\ pc = [pc EXCEPT ![c] = "alias"]
        BY <1>0, <2>3 DEF AliasPut, Succeeds, TypeOK
      <3>2. Goes(c, "alias", n[c] + 1) \/ Goes(c, "done", 1)
        BY <2>3, <3>1 DEF AliasPut, Succeeds, Told, Enter, Stay, Goes
      <3> QED BY <1>0, <3>1, <3>2
    <2> QED BY <2>1, <2>2, <2>3
  <1>4. MayEnter(c, s, k)
    BY <1>0, <1>3 DEF MayEnter
  <1>5. heard'[c] => Quiet(c, s, k)
    BY <1>2 DEF Quiet, Without
  <1> QED BY <1>3, <1>4, <1>5, GoKeeps DEF Stages

\* Whatever an attempt does keeps the invariant.
LEMMA StepKeeps ==
    ASSUME ReleaseInv, NEW c \in Attempts, Step(c) \/ Die(c)
    PROVE  ReleaseInv'
  <1>1. CASE \/ CreateImage(c) \/ CreateDraftVersion(c) \/ AddArtifact(c)
             \/ DeleteArtifact(c) \/ PublishVersion(c) \/ PutAlias(c)
    <2>1. \E stage, op : Sends(c, stage, op)
      BY <1>1
      DEF CreateImage, CreateDraftVersion, AddArtifact, DeleteArtifact, PublishVersion, PutAlias,
          Sends, Asks
    <2> QED BY <2>1, SendKeeps
  <1>2. CASE ImageFailed(c) \/ DraftFailed(c) \/ PublishFailed(c) \/ AliasFailed(c)
    <2>1. {"ok"} \in SUBSET Answers /\ {"ok", "conflict"} \in SUBSET Answers
      BY DEF Answers
    <2> QED BY <1>2, <2>1, FailKeeps DEF ImageFailed, DraftFailed, PublishFailed, AliasFailed
  <1>3. CASE WaitFailed(c)
    <2>1. Goes(c, "failed", 1)
      BY <1>3
      DEF WaitFailed, Enter, Goes, HangUp, remote, ReleaseInv, CallsMatch, Asks, TypeOK, RemoteTypeOK
    <2>2. ~Sent(c, {"delete"}) /\ (heard'[c] => \A r \in net : r.from # c)
      BY <1>3, Knows DEF WaitFailed, remote
    <2> QED BY <2>1, <2>2, StopKeeps
  <1>4. CASE Die(c)
    <2>1. Goes(c, "dead", 1)
      BY <1>4 DEF Die, Enter, Goes
    <2> QED BY <2>1, StopKeeps
  <1> QED
    BY <1>1, <1>2, <1>3, <1>4, UploadKeeps, CallKeeps, CleanupKeeps, PublicationKeeps DEF Step

-----------------------------------------------------------------------------
(* Results *)

\* The invariant holds initially.
LEMMA InvInit == Init => ReleaseInv
  <1> SUFFICES ASSUME Init PROVE ReleaseInv
    OBVIOUS
  <1>1. TypeOK
    BY TypeInit
  <1>2. \A c \in Attempts : ~Drafted(c) /\ ~Committed(c) /\ \A ops : ~Sent(c, ops)
    BY Constants DEF Init, RemoteInit, Drafted, Committed, Sent
  <1>3. CallsMatch /\ Bounded /\ Hears /\ Jobs /\ Uploads /\ ArtifactsReady /\ AliasPublished
    BY <1>2, Constants
    DEF Init, RemoteInit, CallsMatch, Bounded, Hears, Jobs, Uploads, ArtifactsReady, AliasPublished
  <1> QED BY <1>1, <1>2, <1>3 DEF ReleaseInv, OneOwner, DeletesEarly, Progress, Init

\* Every step keeps the invariant.
LEMMA InvNext == ReleaseInv /\ [Next]_vars => ReleaseInv'
  <1> SUFFICES ASSUME ReleaseInv, [Next]_vars PROVE ReleaseInv'
    OBVIOUS
  <1>1. CASE Next
    <2>1. ASSUME NEW c \in Attempts, RunJob(c) PROVE ReleaseInv'
      BY <2>1, BackgroundTypes, JobKeeps DEF ReleaseInv
    <2>2. ASSUME NEW b \in Blobs, Ingest(b) PROVE ReleaseInv'
      BY <2>2, BackgroundTypes, IngestKeeps DEF ReleaseInv
    <2> QED BY <1>1, <2>1, <2>2, StepKeeps, HandleKeeps DEF Next
  <1>2. CASE UNCHANGED vars
    <2>1. UNCHANGED <<image, version, artifacts, alias, job, blobs, pc, n, net, call, answer, heard>>
      BY <1>2 DEF vars, server, attempt, remote
    <2>2. \A d \in Attempts : \A ops : Sent(d, ops)' <=> Sent(d, ops)
      BY <2>1 DEF Sent
    <2>3. \A d \in Attempts : (Drafted(d)' <=> Drafted(d)) /\ (Committed(d)' <=> Committed(d))
      BY <2>1, <2>2 DEF Drafted, Committed
    <2>4. TypeOK' /\ CallsMatch' /\ Bounded' /\ Hears' /\ AliasPublished'
      BY <2>1
      DEF ReleaseInv, TypeOK, RemoteTypeOK, CallsMatch, Bounded, Hears, AliasPublished
    <2>5. OneOwner' /\ DeletesEarly' /\ Progress' /\ Jobs'
      BY <2>1, <2>2, <2>3 DEF ReleaseInv, OneOwner, DeletesEarly, Progress, Mine, Jobs
    <2>6. Uploads' /\ ArtifactsReady'
      BY <2>1, <2>2 DEF ReleaseInv, Uploads, ArtifactsReady, BlobReady
    <2> QED BY <2>4, <2>5, <2>6 DEF ReleaseInv
  <1> QED BY <1>1, <1>2

\* An attempt that has added everything owns all its version lists.
LEMMA OwnerHasAll ==
    ASSUME ReleaseInv, NEW c \in Attempts, Committed(c)
    PROVE  artifacts[Version[c]] = Mine(c)
  <1> USE DEF ReleaseInv
  <1>1. Mine(c) \subseteq artifacts[Version[c]]
    BY DEF Progress
  <1>2. Drafted(c)
    BY DEF Committed, Drafted, Sent
  <1>3. ASSUME NEW x \in artifacts[Version[c]] PROVE x \in Mine(c)
    <2>1. x \in Artifact /\ x = <<x[1], x[2]>> /\ x[1] \in Attempts
      BY Constants DEF TypeOK, Artifact
    <2>2. Version[x[1]] = Version[c] /\ x[2] \in 1..Count[x[1]]
      BY Constants DEF Bounded
    <2>3. Drafted(x[1])
      BY <2>1, <2>2 DEF Drafted
    <2>4. x[1] = c
      BY <1>2, <2>1, <2>2, <2>3 DEF OneOwner
    <2> QED BY <2>1, <2>2, <2>4 DEF Mine
  <1> QED BY <1>1, <1>3

\* The invariant implies the properties.
LEMMA InvImplies ==
    ReleaseInv => PublishedExact /\ SuccessIsOwn /\ AliasPublished /\ CleanupComplete /\ ArtifactsReady
  <1> SUFFICES ASSUME ReleaseInv
               PROVE  PublishedExact /\ SuccessIsOwn /\ AliasPublished /\ CleanupComplete
                      /\ ArtifactsReady
    OBVIOUS
  <1> USE DEF ReleaseInv
  <1>1. PublishedExact
    <2> SUFFICES ASSUME NEW v \in Versions, version[v] = "published"
                 PROVE  \E c \in Attempts : Version[c] = v /\ artifacts[v] = Mine(c)
      BY DEF PublishedExact
    <2>1. PICK c \in Attempts : Version[c] = v /\ job[c] = "succeeded"
      BY DEF Jobs
    <2>2. Committed(c)
      BY <2>1 DEF Committed
    <2> QED BY <2>1, <2>2, OwnerHasAll
  <1>2. SuccessIsOwn
    <2> SUFFICES ASSUME NEW c \in Attempts, pc[c] \in {"alias", "done"}
                 PROVE  version[Version[c]] = "published" /\ artifacts[Version[c]] = Mine(c)
      BY DEF SuccessIsOwn
    <2>1. version[Version[c]] = "published" /\ Committed(c)
      BY DEF Jobs, Committed
    <2> QED BY <2>1, OwnerHasAll
  <1>3. CleanupComplete
    BY DEF CleanupComplete, Hears, Without
  <1> QED BY <1>1, <1>2, <1>3

\* Every reachable state satisfies the invariant.
THEOREM ReleaseInvariant == Spec => []ReleaseInv
  BY InvInit, InvNext, PTL DEF Spec

\* The states of server and attempts are well-formed.
THEOREM ReleaseTypeCorrect == Spec => []TypeOK
  <1>1. ReleaseInv => TypeOK
    BY DEF ReleaseInv
  <1> QED BY <1>1, ReleaseInvariant, PTL

\* PublishRelease: however attempts, late requests, clean-ups and deaths
\* interleave, a published version lists one attempt's artifacts, all of them
\* and nothing else.
THEOREM ReleasesAreExact == Spec => []PublishedExact
  BY InvImplies, ReleaseInvariant, PTL

\* PublishRelease returns success only when the version published is its own.
THEOREM SuccessesAreOwn == Spec => []SuccessIsOwn
  BY InvImplies, ReleaseInvariant, PTL

\* The aliases PublishRelease puts lead to published versions.
THEOREM AliasesArePublished == Spec => []AliasPublished
  BY InvImplies, ReleaseInvariant, PTL

\* cleanupDraftArtifacts leaves nothing behind if every request was answered.
THEOREM CleanupsAreComplete == Spec => []CleanupComplete
  BY InvImplies, ReleaseInvariant, PTL

\* PublishRelease adds an artifact only after its upload is ready.
THEOREM ListedAreReady == Spec => []ArtifactsReady
  BY InvImplies, ReleaseInvariant, PTL

-----------------------------------------------------------------------------
(* Aliases *)

\* What is assumed of the aliases, in the form the proofs use.
LEMMA AliasConstants ==
    /\ None \notin Versions /\ "ok" # None /\ "error" # None /\ "conflict" # None
    /\ \A c \in Attempts : /\ AliasCount[c] \in Nat /\ Version[c] \in Versions
                           /\ \A i \in 1..AliasCount[c] : Aliases[c][i] \in AliasNames
  BY NoneAssumption, CountAssumption, VersionAssumption, AliasesAssumption DEF Answers

\* What an attempt must have put before it enters a stage.
MayPass(c, s, k) ==
    /\ s = "alias" => k <= AliasCount[c]
    /\ \A i \in 1..AliasCount[c] :
        s = "done" \/ (s = "alias" /\ i < k) => alias[Aliases[c][i]] # None

\* A move that may pass keeps the aliases' invariant.
LEMMA PassKeeps ==
    ASSUME ReleaseInv, AliasInv, NEW c \in Attempts, NEW s, NEW k \in Nat \ {0},
           pc' = [pc EXCEPT ![c] = s], n' = [n EXCEPT ![c] = k],
           answer' = [answer EXCEPT ![c] = None], net' = net, UNCHANGED <<version, alias, job>>,
           MayPass(c, s, k)
    PROVE  AliasInv'
  <1>0. TypeOK
    BY DEF ReleaseInv
  <1>1. /\ pc'[c] = s /\ n'[c] = k /\ answer'[c] = None
        /\ \A d \in Attempts \ {c} : pc'[d] = pc[d] /\ n'[d] = n[d] /\ answer'[d] = answer[d]
    BY <1>0 DEF TypeOK, RemoteTypeOK
  <1>2. \A a \in AliasNames : alias'[a] # None => Follows(a)'
    BY DEF AliasInv, Follows
  <1>3. ASSUME NEW d \in Attempts
        PROVE  /\ pc'[d] = "alias" => n'[d] <= AliasCount[d]
               /\ \A i \in 1..AliasCount[d] :
                   pc'[d] = "done" \/ (pc'[d] = "alias" /\ (i < n'[d] \/ (i = n'[d] /\ answer'[d] = "ok")))
                   => alias'[Aliases[d][i]] # None
    <2>1. CASE d = c
      BY <1>1, <2>1, AliasConstants DEF MayPass
    <2>2. CASE d # c
      BY <1>1, <2>2 DEF AliasInv
    <2> QED BY <2>1, <2>2
  <1> QED BY <1>2, <1>3 DEF AliasInv

\* An attempt's step keeps the aliases' invariant.
LEMMA StepAliases ==
    ASSUME ReleaseInv, AliasInv, NEW c \in Attempts, Step(c) \/ Die(c)
    PROVE  AliasInv'
  <1>0. /\ TypeOK /\ CallsMatch /\ n[c] \in Nat \ {0} /\ UNCHANGED <<version, alias, job>>
        /\ pc[c] \in {"upload", "uploading", "wait"} => answer = [answer EXCEPT ![c] = None]
    <2>1. TypeOK /\ CallsMatch /\ n[c] \in Nat \ {0}
      BY DEF ReleaseInv, TypeOK
    <2>2. pc[c] \in {"upload", "uploading", "wait"} => answer = [answer EXCEPT ![c] = None]
      BY <2>1 DEF CallsMatch, Asks, TypeOK, RemoteTypeOK
    <2>3. UNCHANGED <<version, alias, job>>
      BY DEF Step, Upload, Uploaded, UploadFailed, CreateImage, ImageCreated, ImageFailed,
             CreateDraftVersion, DraftCreated, DraftFailed, AddArtifact, ArtifactAdded, AddFailed,
             DeleteArtifact, ArtifactDeleted, PublishVersion, PublishStarted, PublishFailed,
             Published, WaitFailed, PutAlias, AliasPut, AliasFailed, Send, Succeeds, Fails, Die, server
    <2> QED BY <2>1, <2>2, <2>3
  <1>1. CASE \/ CreateImage(c) \/ CreateDraftVersion(c) \/ AddArtifact(c)
             \/ DeleteArtifact(c) \/ PublishVersion(c) \/ PutAlias(c)
    <2>1. PICK q : /\ net' = net \cup {q} /\ UNCHANGED <<pc, n>>
                   /\ q.op = "alias" => pc[c] = "alias" /\ q.from = c /\ q.arg = n[c]
                   /\ answer' = [answer EXCEPT ![c] = None]
      BY <1>1
      DEF CreateImage, CreateDraftVersion, AddArtifact, DeleteArtifact, PublishVersion, PutAlias,
          Send, Ask, attempt
    <2>2. \A a \in AliasNames : alias'[a] # None => Follows(a)'
      BY <1>0 DEF AliasInv, Follows
    <2>3. \A r \in net' : r.op = "alias" => r.arg \in 1..AliasCount[r.from]
      BY <1>0, <2>1, AliasConstants DEF AliasInv
    <2>4. \A d \in Attempts : answer'[d] = "ok" => answer[d] = "ok"
      BY <1>0, <2>1, AliasConstants DEF TypeOK, RemoteTypeOK
    <2> QED BY <1>0, <2>1, <2>2, <2>3, <2>4 DEF AliasInv
  <1>2. CASE ~(\/ CreateImage(c) \/ CreateDraftVersion(c) \/ AddArtifact(c)
               \/ DeleteArtifact(c) \/ PublishVersion(c) \/ PutAlias(c))
    <2>1. PICK s \in Stages, k \in Nat \ {0} : Enter(c, s, k) /\ MayPass(c, s, k)
      <3>1. CASE Published(c)
        <4>1. AliasCount[c] = 0 \/ 1 <= AliasCount[c]
          BY AliasConstants
        <4>2. CASE AliasCount[c] = 0
          BY <3>1, <4>2, AliasConstants DEF Published, MayPass, Stages
        <4>3. CASE AliasCount[c] # 0
          BY <3>1, <4>1, <4>3, AliasConstants DEF Published, MayPass, Stages
        <4> QED BY <4>2, <4>3
      <3>2. CASE AliasPut(c)
        <4>0. pc[c] = "alias" /\ answer[c] = "ok"
          BY <3>2 DEF AliasPut, Succeeds, Told
        <4>1. n[c] <= AliasCount[c] /\ \A i \in 1..n[c] : alias[Aliases[c][i]] # None
          BY <1>0, <4>0, AliasConstants DEF AliasInv
        <4>2. CASE n[c] < AliasCount[c]
          <5>1. pc = [pc EXCEPT ![c] = "alias"]
            BY <1>0, <4>0 DEF TypeOK
          <5>2. MayPass(c, "alias", n[c] + 1) /\ n[c] + 1 \in Nat \ {0}
            BY <1>0, <4>1, <4>2, AliasConstants DEF MayPass
          <5> QED BY <3>2, <4>2, <5>1, <5>2 DEF AliasPut, Stay, Enter, Stages
        <4>3. CASE n[c] = AliasCount[c]
          <5>1. MayPass(c, "done", 1)
            BY <1>0, <4>1, <4>3, AliasConstants DEF MayPass
          <5> QED BY <1>0, <3>2, <4>3, <5>1 DEF AliasPut, Stages
        <4> QED BY <1>0, <4>1, <4>2, <4>3, AliasConstants
      <3>3. CASE ~Published(c) /\ ~AliasPut(c)
        <4>1. \A s : s \notin {"alias", "done"} => \A k : MayPass(c, s, k)
          BY DEF MayPass
        <4>2. pc[c] \notin {"alias", "done"} => pc = [pc EXCEPT ![c] = pc[c]]
          BY <1>0 DEF TypeOK
        <4>3. \E s \in Stages \ {"alias", "done"}, k \in Nat \ {0} : Enter(c, s, k)
          <5>1. CASE Upload(c) \/ Uploaded(c) \/ UploadFailed(c) \/ WaitFailed(c) \/ Die(c)
            BY <1>0, <5>1 DEF Upload, Uploaded, UploadFailed, WaitFailed, Die, Stages
          <5>2. CASE \/ ImageCreated(c) \/ ImageFailed(c) \/ DraftCreated(c) \/ DraftFailed(c)
                     \/ PublishStarted(c) \/ PublishFailed(c) \/ AliasFailed(c)
            BY <1>0, <5>2
            DEF ImageCreated, ImageFailed, DraftCreated, DraftFailed, PublishStarted, PublishFailed,
                AliasFailed, Stages
          <5>3. CASE ArtifactAdded(c)
            BY <1>0, <4>2, <5>3 DEF ArtifactAdded, Succeeds, Enter, Stay, Stages
          <5>4. CASE AddFailed(c)
            BY <1>0, <5>4 DEF AddFailed, Stages
          <5>5. CASE ArtifactDeleted(c)
            <6>1. pc[c] = "cleanup"
              BY <5>5 DEF ArtifactDeleted, Succeeds, Fails
            <6>2. CASE n[c] > 1
              BY <1>0, <4>2, <5>5, <6>1, <6>2 DEF ArtifactDeleted, Stay, Enter, Stages
            <6>3. CASE ~(n[c] > 1)
              BY <5>5, <6>3 DEF ArtifactDeleted, Stages
            <6> QED BY <6>2, <6>3
          <5> QED BY <1>2, <3>3, <5>1, <5>2, <5>3, <5>4, <5>5 DEF Step
        <4> QED BY <4>1, <4>3
      <3> QED BY <3>1, <3>2, <3>3
    <2>2. net' = net /\ answer' = [answer EXCEPT ![c] = None]
      <3>1. CASE Upload(c) \/ Uploaded(c) \/ UploadFailed(c) \/ Published(c) \/ WaitFailed(c)
        BY <1>0, <3>1 DEF Upload, Uploaded, UploadFailed, Published, WaitFailed, remote
      <3>2. CASE Die(c)
        BY <3>2 DEF Die, HangUp
      <3>3. CASE \/ ImageCreated(c) \/ ImageFailed(c) \/ DraftCreated(c) \/ DraftFailed(c)
                 \/ ArtifactAdded(c) \/ AddFailed(c) \/ ArtifactDeleted(c) \/ PublishStarted(c)
                 \/ PublishFailed(c) \/ AliasPut(c) \/ AliasFailed(c)
        BY <3>3
        DEF ImageCreated, ImageFailed, DraftCreated, DraftFailed, ArtifactAdded, AddFailed,
            ArtifactDeleted, PublishStarted, PublishFailed, AliasPut, AliasFailed,
            Succeeds, Fails, Told, Refused, HangUp
      <3> QED BY <1>2, <3>1, <3>2, <3>3 DEF Step
    <2> QED BY <1>0, <2>1, <2>2, PassKeeps DEF Enter
  <1> QED BY <1>1, <1>2

\* What happens to a request keeps the aliases' invariant.
LEMMA HandleAliases ==
    ASSUME ReleaseInv, AliasInv, NEW r \in net, Handle(r) \/ Refuse(r) \/ Vanish(r)
    PROVE  AliasInv'
  <1>0. /\ TypeOK /\ CallsMatch /\ Jobs
        /\ r.from \in Attempts /\ Version[r.from] \in Versions
    BY Constants DEF ReleaseInv, TypeOK, RemoteTypeOK
  <1>1. PICK a \in Answers : Replies(r, a) /\ (a = "ok" /\ r.op = "alias" => HandleAlias(r))
    <2>1. \E a \in Answers : (Answer(r, a) \/ Lose(r)) /\ (a = "ok" /\ r.op = "alias" => HandleAlias(r))
      BY DEF Handle, HandleImage, HandleDraft, HandleAdd, HandleDelete, HandlePublish, HandleAlias,
             Refuse, Vanish, Answers
    <2>2. UNCHANGED attempt
      BY DEF Handle, HandleImage, HandleDraft, HandleAdd, HandleDelete, HandlePublish, HandleAlias,
             Refuse, Vanish, attempt
    <2> QED BY <1>0, <2>1, <2>2, AnswerReplies
  <1>2. /\ net' \subseteq net /\ UNCHANGED <<pc, n>>
        /\ \A d \in Attempts : answer'[d] = answer[d]
             \/ (d = r.from /\ <<pc[d], r.op>> \in Asks /\ r.arg = n[d] /\ answer'[d] = a)
    BY <1>0, <1>1, ReplyCalls DEF Replies
  <1>3. \A d \in Attempts : job[d] = "succeeded" => job'[d] = "succeeded"
    <2>1. CASE HandlePublish(r)
      BY <1>0, <2>1 DEF HandlePublish, Jobs, TypeOK
    <2>2. CASE ~HandlePublish(r)
      BY <2>2 DEF Handle, HandleImage, HandleDraft, HandleAdd, HandleDelete, HandleAlias,
                  Refuse, Vanish, server
    <2> QED BY <2>1, <2>2
  <1>4. CASE HandleAlias(r)
    <2> DEFINE a0 == Aliases[r.from][r.arg]
    <2>1. /\ r.op = "alias" /\ alias' = [alias EXCEPT ![a0] = Version[r.from]]
          /\ r.arg \in 1..AliasCount[r.from] /\ a0 \in AliasNames /\ job[r.from] = "succeeded"
      BY <1>0, <1>4, AliasConstants DEF HandleAlias, AliasInv, Jobs, Sent
    <2>2. /\ alias'[a0] = Version[r.from] /\ alias'[a0] # None
          /\ \A b \in AliasNames \ {a0} : alias'[b] = alias[b]
      BY <1>0, <2>1, AliasConstants DEF TypeOK
    <2> HIDE DEF a0
    <2>3. ASSUME NEW b \in AliasNames, alias'[b] # None PROVE Follows(b)'
      <3>1. CASE b = a0
        BY <1>0, <1>3, <2>1, <2>2, <3>1 DEF Follows, Moved, a0
      <3>2. CASE b # a0
        BY <1>3, <2>2, <2>3, <3>2 DEF Follows, AliasInv
      <3> QED BY <3>1, <3>2
    <2>4. ASSUME NEW d \in Attempts, NEW i \in 1..AliasCount[d],
                 pc[d] = "done" \/ (pc[d] = "alias" /\ (i < n[d] \/ (i = n[d] /\ answer'[d] = "ok")))
          PROVE  alias'[Aliases[d][i]] # None
      <3>1. Aliases[d][i] \in AliasNames
        BY AliasConstants
      <3>2. Aliases[d][i] = a0 \/ alias[Aliases[d][i]] # None
        BY <1>2, <2>4 DEF AliasInv, a0
      <3> QED BY <2>2, <3>1, <3>2
    <2> QED BY <1>2, <2>3, <2>4 DEF AliasInv
  <1>5. CASE ~HandleAlias(r)
    <2>1. UNCHANGED alias
      BY <1>5 DEF Handle, HandleImage, HandleDraft, HandleAdd, HandleDelete, HandlePublish,
                  Refuse, Vanish, server
    <2>2. \A d \in Attempts : pc[d] = "alias" /\ answer'[d] = "ok" => answer[d] = "ok"
      BY <1>1, <1>2, <1>5 DEF Asks
    <2>3. \A b \in AliasNames : alias'[b] # None => Follows(b)'
      BY <1>3, <2>1 DEF AliasInv, Follows
    <2> QED BY <1>2, <2>1, <2>2, <2>3 DEF AliasInv
  <1> QED BY <1>4, <1>5

\* Every step keeps the aliases' invariant.
LEMMA AliasNext == ReleaseInv /\ AliasInv /\ [Next]_vars => AliasInv'
  <1> SUFFICES ASSUME ReleaseInv, AliasInv, [Next]_vars PROVE AliasInv'
    OBVIOUS
  <1>1. ASSUME NEW c \in Attempts, RunJob(c) PROVE AliasInv'
    <2>1. /\ UNCHANGED <<pc, n, alias, net, answer>>
          /\ \A d \in Attempts : job[d] = "succeeded" => job'[d] = "succeeded"
      BY <1>1 DEF RunJob, attempt, remote, ReleaseInv, TypeOK
    <2>2. \A b \in AliasNames : alias'[b] # None => Follows(b)'
      BY <2>1 DEF AliasInv, Follows
    <2> QED BY <2>1, <2>2 DEF AliasInv
  <1>2. CASE (\E b \in Blobs : Ingest(b)) \/ UNCHANGED vars
    <2>1. UNCHANGED <<pc, n, alias, job, net, answer>>
      BY <1>2 DEF Ingest, attempt, remote, vars, server
    <2> QED BY <2>1 DEF AliasInv, Follows
  <1> QED BY <1>1, <1>2, StepAliases, HandleAliases DEF Next

\* An alias that is put follows a release.
LEMMA AliasImplies == AliasInv => AliasesFollow
  BY AliasConstants DEF AliasInv, AliasesFollow, Moved

\* PublishRelease: when it has succeeded, each of its aliases leads where a
\* successful release that names the alias put it.
THEOREM AliasesAreFollowed == Spec => []AliasesFollow
  <1>1. Init => AliasInv
    BY AliasConstants DEF Init, RemoteInit, AliasInv
  <1> QED BY <1>1, AliasNext, AliasImplies, ReleaseInvariant, PTL DEF Spec

-----------------------------------------------------------------------------
(* Release implements PublishedVersions *)

\* The versions a reader sees.
Listed == [v \in Versions |-> IF version[v] = "published" THEN artifacts[v] ELSE None]

\* The owner of a published version has added everything, and nobody else drafted it.
LEMMA PublishedOwner ==
    ASSUME ReleaseInv, NEW c \in Attempts, Drafted(c), version[Version[c]] = "published"
    PROVE  Committed(c) /\ artifacts[Version[c]] = Mine(c)
  <1>1. Version[c] \in Versions
    BY Constants
  <1>2. PICK d \in Attempts : Version[d] = Version[c] /\ job[d] = "succeeded"
    BY <1>1 DEF ReleaseInv, Jobs
  <1>3. Committed(d) /\ Drafted(d)
    BY <1>2 DEF Committed, Drafted
  <1>4. d = c
    BY <1>2, <1>3 DEF ReleaseInv, OneOwner
  <1> QED BY <1>3, <1>4, OwnerHasAll

\* A step that publishes nothing and changes no published version nor alias.
LEMMA ReadersUnmoved ==
    ASSUME UNCHANGED alias,
           \A v \in Versions :
                /\ version'[v] = "published" <=> version[v] = "published"
                /\ version[v] = "published" => artifacts'[v] = artifacts[v]
    PROVE  [Public!Next]_(Public!vars)
  <1>1. Listed' = Listed
    BY DEF Listed
  <1> QED BY <1>1 DEF Listed, Public!vars

\* What the server does to a request is a step of PublishedVersions or a stutter:
\* a late addition to a published version is a repetition, and there is no late
\* deletion from one.
LEMMA HandleSimulation ==
    ASSUME ReleaseInv, AliasInv, NEW r \in net, Handle(r) \/ Refuse(r) \/ Vanish(r)
    PROVE  [Public!Next]_(Public!vars)
  <1> DEFINE c == r.from
             v == Version[c]
  <1>0. c \in Attempts /\ v \in Versions /\ r.arg \in Nat /\ TypeOK
    BY Constants DEF ReleaseInv, TypeOK, RemoteTypeOK
  <1>1. CASE HandleImage(r) \/ Refuse(r) \/ Vanish(r)
    BY <1>1, ReadersUnmoved DEF HandleImage, Refuse, Vanish, server
  <1>2. CASE HandleDraft(r) \/ HandlePublish(r)
    <2>1. UNCHANGED <<alias, artifacts>>
      BY <1>2 DEF HandleDraft, HandlePublish
    <2>2. \/ UNCHANGED version
          \/ /\ version[v] \in {"none", "draft"}
             /\ \E s \in {"draft", "publishing"} : version' = [version EXCEPT ![v] = s]
      BY <1>2 DEF HandleDraft, HandlePublish
    <2> QED BY <1>0, <2>1, <2>2, ReadersUnmoved DEF TypeOK
  <1>3. CASE HandleAdd(r)
    <2>1. /\ UNCHANGED <<alias, version>> /\ r.op = "add"
          /\ artifacts' = [artifacts EXCEPT ![v] = @ \cup {<<c, r.arg>>}]
      BY <1>3 DEF HandleAdd
    <2>2. Drafted(c) /\ r.arg \in 1..Count[c]
      BY <1>0, <2>1 DEF Drafted, Sent, ReleaseInv, Bounded
    <2>3. version[v] = "published" => <<c, r.arg>> \in artifacts[v]
      BY <1>0, <2>2, PublishedOwner DEF Mine
    <2> QED BY <1>0, <2>1, <2>3, ReadersUnmoved DEF TypeOK
  <1>4. CASE HandleDelete(r)
    <2>1. /\ UNCHANGED <<alias, version>> /\ r.op = "delete"
          /\ artifacts' = [artifacts EXCEPT ![v] = @ \ {<<c, r.arg>>}]
      BY <1>4 DEF HandleDelete
    <2>2. Drafted(c) /\ ~Committed(c)
      BY <1>0, <2>1 DEF Drafted, Sent, ReleaseInv, DeletesEarly
    <2>3. version[v] # "published"
      BY <1>0, <2>2, PublishedOwner
    <2> QED BY <1>0, <2>1, <2>3, ReadersUnmoved DEF TypeOK
  <1>5. CASE HandleAlias(r)
    <2> DEFINE a == Aliases[c][r.arg]
    <2>1. /\ UNCHANGED <<version, artifacts>> /\ r.op = "alias"
          /\ alias' = [alias EXCEPT ![a] = v]
      BY <1>5 DEF HandleAlias
    <2>2. job[c] = "succeeded" /\ version[v] = "published"
      BY <1>0, <2>1 DEF ReleaseInv, Jobs, Sent
    <2>3. artifacts[v] = Mine(c)
      BY <1>0, <2>2, OwnerHasAll DEF Committed
    <2>4. a \in AliasNames /\ a \in Moved(c)
      <3>1. r.arg \in 1..AliasCount[c]
        BY <2>1 DEF AliasInv
      <3> QED BY <1>0, <3>1, AliasConstants DEF Moved
    <2>5. Listed' = Listed /\ Listed[v] = Mine(c)
      BY <1>0, <2>1, <2>2, <2>3 DEF Listed
    <2> HIDE DEF a
    <2> QED BY <1>0, <2>1, <2>4, <2>5 DEF Listed, Public!Next, Public!Point
  <1> QED BY <1>1, <1>2, <1>3, <1>4, <1>5 DEF Handle

\* A publish job that succeeds makes the version public, with its owner's artifacts.
LEMMA JobSimulation ==
    ASSUME ReleaseInv, NEW c \in Attempts, RunJob(c)
    PROVE  [Public!Next]_(Public!vars)
  <1> DEFINE v == Version[c]
  <1>0. v \in Versions /\ TypeOK
    BY Constants DEF ReleaseInv
  <1>1. UNCHANGED <<alias, artifacts>> /\ version[v] = "publishing"
    BY DEF RunJob, ReleaseInv, Jobs
  <1>2. PICK s \in {"published", "draft"} : version' = [version EXCEPT ![v] = s]
    BY DEF RunJob
  <1>3. CASE s = "draft"
    BY <1>0, <1>1, <1>2, <1>3, ReadersUnmoved DEF TypeOK
  <1>4. CASE s = "published"
    <2>1. artifacts[v] = Mine(c)
      BY <1>0, OwnerHasAll DEF RunJob, Committed
    <2>2. Listed[v] = None /\ Listed' = [Listed EXCEPT ![v] = Mine(c)]
      BY <1>0, <1>1, <1>2, <1>4, <2>1 DEF Listed, TypeOK
    <2> QED BY <1>1, <2>2 DEF Listed, Public!Next, Public!Publish
  <1> QED BY <1>2, <1>3, <1>4

\* Every step of Release is a step of PublishedVersions or a stutter.
LEMMA StepSimulation == ReleaseInv /\ AliasInv /\ [Next]_vars => [Public!Next]_(Public!vars)
  <1> SUFFICES ASSUME ReleaseInv, AliasInv, [Next]_vars PROVE [Public!Next]_(Public!vars)
    OBVIOUS
  <1>1. ASSUME NEW c \in Attempts, Step(c) \/ Die(c) PROVE UNCHANGED <<version, artifacts, alias>>
    BY <1>1
    DEF Step, Upload, Uploaded, UploadFailed, CreateImage, ImageCreated, ImageFailed,
        CreateDraftVersion, DraftCreated, DraftFailed, AddArtifact, ArtifactAdded, AddFailed,
        DeleteArtifact, ArtifactDeleted, PublishVersion, PublishStarted, PublishFailed,
        Published, WaitFailed, PutAlias, AliasPut, AliasFailed, Send, Succeeds, Fails, Die, server
  <1>2. ASSUME (\E b \in Blobs : Ingest(b)) \/ UNCHANGED vars PROVE UNCHANGED <<version, artifacts, alias>>
    BY <1>2 DEF Ingest, vars, server
  <1> QED BY <1>1, <1>2, ReadersUnmoved, HandleSimulation, JobSimulation DEF Next

\* PublishRelease: versions become public whole, once and for good, and aliases
\* are put on public versions by the releases they belong to.
THEOREM PublishedImplemented == Spec => ImplementsPublished
  <1>1. Init => Public!Init
    BY DEF Init, Public!Init
  <1>2. Init => AliasInv
    BY AliasConstants DEF Init, RemoteInit, AliasInv
  <1> QED
    BY <1>1, <1>2, AliasNext, StepSimulation, ReleaseInvariant, PTL
    DEF Spec, ImplementsPublished, Public!Spec
==============================================================================
