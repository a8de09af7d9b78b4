----------------------------- MODULE UploadProofs -----------------------------
(***************************************************************************)
(* What an upload leaves behind, and what a completed session holds, for    *)
(* any number of concurrent attempts and any artifact and part sizes.       *)
(***************************************************************************)
EXTENDS Upload, TLAPS, FiniteSetTheorems

\* What the assumptions say of the constants.
LEMMA Constants ==
    /\ \A r \in Requests : r # None /\ r.from \in Attempts /\ r.op \in Ops /\ r.parts \subseteq Part
    /\ \A a \in Answers : a # None
    /\ PartSize \in Nat \ {0} /\ \A s \in Sizes : s \in Nat \ {0}
  BY NoneAssumption, PartsAssumption, SizesAssumption DEF Requests

-----------------------------------------------------------------------------
(* Types *)

FiniteParts == \A c \in Attempts : IsFiniteSet(parts[c])

\* The next part has a number and a size.
LEMMA NextPartType ==
    ASSUME TypeOK, FiniteParts, NEW c \in Attempts, offset[c] < size[c]
    PROVE  NextPart(c) \in Part
  <1>1. Cardinality(parts[c]) \in Nat
    BY FS_CardinalityType DEF FiniteParts
  <1>2. size[c] \in Nat /\ offset[c] \in Nat
    BY Constants DEF TypeOK
  <1>3. size[c] - offset[c] \in Nat
    BY <1>2
  <1> QED BY <1>1, <1>3, Constants DEF NextPart, Part

\* An attempt sends a request of its stage.
Sends(c, stage, op) == <<stage, op>> \in Asks /\ \E ps \in SUBSET Part : Send(c, stage, op, ps)

\* The requests of the attempts' steps are sends.
LEMMA StepSends ==
    ASSUME TypeOK, FiniteParts, NEW c \in Attempts,
           BeginUpload(c) \/ PutUploadPart(c) \/ CompleteUpload(c) \/ AbortUpload(c) \/ GetUpload(c)
    PROVE  \E stage, op : Sends(c, stage, op)
  <1>1. CASE PutUploadPart(c)
    <2>1. NextPart(c) \in Part
      BY <1>1, NextPartType DEF PutUploadPart
    <2> QED BY <1>1, <2>1 DEF PutUploadPart, Sends, Asks
  <1>2. CASE CompleteUpload(c)
    BY <1>2 DEF CompleteUpload, Sends, Asks, TypeOK
  <1>3. CASE BeginUpload(c) \/ AbortUpload(c) \/ GetUpload(c)
    BY <1>3 DEF BeginUpload, AbortUpload, GetUpload, Sends, Asks
  <1> QED BY <1>1, <1>2, <1>3

\* An attempt goes on to a stage; if it was waiting, it stops.
Moves(c, s) ==
    /\ pc' = [pc EXCEPT ![c] = s]
    /\ call' = [call EXCEPT ![c] = None]
    /\ answer' = [answer EXCEPT ![c] = None]
    /\ heard' \in {heard, [heard EXCEPT ![c] = FALSE]}
    /\ UNCHANGED <<session, stored, known, net, size, fileSize>>
    /\ offset' \in [Attempts -> Nat]
    /\ parts' \in [Attempts -> SUBSET Part]
    /\ FiniteParts'

\* Sending keeps the types.
LEMMA SendTypes ==
    ASSUME TypeOK, FiniteParts, NEW c \in Attempts, NEW stage, NEW op, Sends(c, stage, op)
    PROVE  TypeOK' /\ FiniteParts'
  <1>1. PICK ps \in SUBSET Part : Send(c, stage, op, ps)
    BY DEF Sends
  <1>2. [from |-> c, op |-> op, parts |-> ps] \in Requests
    BY DEF Sends, Asks, Requests, Ops
  <1>3. RemoteTypeOK(Requests, Answers)'
    BY <1>1, <1>2 DEF Send, Ask, TypeOK, RemoteTypeOK
  <1> QED BY <1>1, <1>3 DEF Send, TypeOK, FiniteParts, server, attempt

\* Moving on keeps the types.
LEMMA MoveTypes ==
    ASSUME TypeOK, NEW c \in Attempts, NEW s \in Stages, Moves(c, s)
    PROVE  TypeOK' /\ FiniteParts'
  <1>1. RemoteTypeOK(Requests, Answers)'
    BY DEF Moves, TypeOK, RemoteTypeOK
  <1> QED BY <1>1 DEF Moves, TypeOK

\* Answering keeps the types of what the attempts hear.
LEMMA AnswerTypes ==
    ASSUME TypeOK, NEW r \in net, NEW a \in Answers, Answer(r, a)
    PROVE  RemoteTypeOK(Requests, Answers)'
  BY DEF TypeOK, Answer, RemoteTypeOK

\* Whatever happens to a request keeps the types.
LEMMA HandleTypes ==
    ASSUME TypeOK, FiniteParts, NEW r \in net, Handle(r) \/ Refuse(r) \/ Vanish(r)
    PROVE  TypeOK' /\ FiniteParts'
  <1>0. r \in Requests /\ r.from \in Attempts /\ r.parts \subseteq Part
    BY Constants DEF TypeOK, RemoteTypeOK
  <1>1. RemoteTypeOK(Requests, Answers)'
    <2>1. CASE Vanish(r)
      BY <2>1 DEF Vanish, Lose, TypeOK, RemoteTypeOK
    <2>2. CASE ~Vanish(r)
      <3>1. session[r.from] \in States
        BY <1>0 DEF TypeOK
      <3>2. \E a \in Answers : Answer(r, a)
        BY <2>2, <3>1
        DEF Handle, HandleBegin, HandlePut, HandleComplete, HandleGet, HandleAbort, Refuse,
            Answers, States
      <3> QED BY <3>2, AnswerTypes
    <2> QED BY <2>1, <2>2
  <1>2. UNCHANGED attempt /\ FiniteParts'
    BY DEF Handle, HandleBegin, HandlePut, HandleComplete, HandleGet, HandleAbort, Refuse, Vanish,
           FiniteParts, attempt
  <1>3. /\ session' \in [Attempts -> States]
        /\ stored' \in [Attempts -> SUBSET Part]
        /\ known' \in BOOLEAN
    <2>1. CASE HandleBegin(r)
      BY <1>0, <2>1 DEF HandleBegin, TypeOK, States
    <2>2. CASE HandlePut(r)
      <3>1. stored[r.from] \cup r.parts \subseteq Part
        BY <1>0 DEF TypeOK
      <3> QED BY <1>0, <2>2, <3>1 DEF HandlePut, TypeOK
    <2>3. CASE HandleComplete(r)
      <3>1. PICK s \in {"completed", "ready", "failed"} :
                session' = [session EXCEPT ![r.from] = s] /\ known' = (known \/ s = "ready")
        BY <2>3 DEF HandleComplete
      <3>2. known' \in BOOLEAN
        BY <3>1 DEF TypeOK
      <3>3. session' \in [Attempts -> States]
        BY <3>1 DEF TypeOK, States
      <3>4. stored' \in [Attempts -> SUBSET Part]
        BY <1>0, <2>3 DEF HandleComplete, TypeOK
      <3> QED BY <3>2, <3>3, <3>4
    <2>4. CASE HandleAbort(r)
      BY <1>0, <2>4 DEF HandleAbort, TypeOK, States
    <2>5. CASE HandleGet(r) \/ Refuse(r) \/ Vanish(r)
      BY <2>5 DEF HandleGet, Refuse, Vanish, server, TypeOK
    <2> QED BY <2>1, <2>2, <2>3, <2>4, <2>5 DEF Handle
  <1> QED BY <1>1, <1>2, <1>3 DEF TypeOK, attempt

-----------------------------------------------------------------------------
(* An attempt sends a request *)

\* A request of its stage keeps the invariant.
LEMMA SendKeeps ==
    ASSUME UploadInv, NEW c \in Attempts, NEW stage, NEW op, Sends(c, stage, op)
    PROVE  UploadInv'
  <1> USE DEF UploadInv, FiniteParts
  <1>1. PICK ps \in SUBSET Part : Send(c, stage, op, ps)
    BY DEF Sends
  <1> DEFINE q == [from |-> c, op |-> op, parts |-> ps]
  <1>0. /\ pc[c] = stage /\ <<stage, op>> \in Asks
        /\ call[c] = None /\ answer[c] = None /\ call'[c] = q /\ answer' = answer
        /\ net' = net \cup {q}
        /\ q.from = c /\ q.op = op
        /\ UNCHANGED <<session, stored, known, pc, heard>>
        /\ \A d \in Attempts \ {c} : call'[d] = call[d]
    <2>1. answer[c] = None
      BY <1>1 DEF Send, Ask, CallsMatch
    <2>2. answer' = answer
      BY <1>1, <2>1 DEF Send, Ask, TypeOK, RemoteTypeOK
    <2> QED BY <1>1, <2>1, <2>2 DEF Sends, Send, Ask, TypeOK, RemoteTypeOK, server, attempt
  <1>2. TypeOK' /\ FiniteParts' /\ q # None
    <2>1. q \in Requests
      BY DEF Sends, Asks, Requests, Ops
    <2> QED BY <2>1, SendTypes, Constants
  <1> HIDE DEF q
  <1>3. CallsMatch'
    <2>1. ASSUME NEW d \in Attempts, call'[d] \in net' PROVE answer[d] = None
      BY <1>0, <2>1 DEF CallsMatch
    <2> QED BY <1>0, <1>2, <2>1 DEF CallsMatch
  <1>4. heard[c] => \A r \in net : r.from # c
    <2>1. \A r \in net : r # None
      BY Constants DEF TypeOK, RemoteTypeOK
    <2> QED BY <1>0, <2>1 DEF Hears, Asks
  <1>5. Hears'
    BY <1>0, <1>4 DEF Hears
  <1>6. \A d \in Attempts, o \in Ops : Sent(d, o)' <=> Sent(d, o) \/ (d = c /\ o = op)
    BY <1>0 DEF Sent
  <1>7. Begins'
    <2>1. \A d \in Attempts : Sent(d, "begin")' =>
            pc[d] = "begin" \/ pc[d] = "dead" \/ (pc[d] = "failed" /\ ~heard[d])
      BY <1>0, <1>6 DEF Begins, Asks, Ops
    <2>2. \A d \in Attempts : \A r \in net' :
            r.from = d /\ r.op # "begin" => pc[d] \notin {"check", "begin", "refused"}
      BY <1>0 DEF Begins, Asks
    <2> QED BY <1>0, <2>1, <2>2 DEF Begins
  <1>8. Opened' /\ Known' /\ NoSessionLeft'
    BY <1>0 DEF Opened, Known, NoSessionLeft
  <1>9. Kept'
    <2>1. ASSUME NEW d \in Attempts, heard[d], Sent(d, "abort")'
          PROVE  session[d] # "completed" /\ ~Sent(d, "complete")'
      <3>1. CASE d = c /\ op = "abort"
        <4>1. ~Sent(c, "complete")
          BY <1>4, <2>1, <3>1 DEF Sent
        <4> QED BY <1>0, <1>6, <2>1, <3>1, <4>1 DEF Kept, Asks, Ops
      <3>2. CASE d # c
        BY <1>6, <2>1, <3>2 DEF Kept, Ops
      <3>3. CASE d = c /\ op # "abort"
        <4>1. ~Sent(c, "abort")
          BY <1>4, <2>1, <3>3 DEF Sent
        <4> QED BY <1>6, <2>1, <3>3, <4>1 DEF Ops
      <3> QED BY <3>1, <3>2, <3>3
    <2> QED BY <1>0, <2>1 DEF Kept
  <1> QED BY <1>2, <1>3, <1>5, <1>7, <1>8, <1>9

-----------------------------------------------------------------------------
(* An attempt moves on *)

\* What must be so when an attempt enters a stage.
MayEnter(c, s) ==
    /\ Sent(c, "begin") => s = "dead" \/ (s = "failed" /\ ~heard'[c])
    /\ \A r \in net : r.from = c /\ r.op # "begin" => s \notin {"check", "begin", "refused"}
    /\ heard'[c] /\ s # "dead" => \A r \in net : r.from # c
    /\ s \in {"check", "begin", "refused"} => heard'[c]
    /\ s \in {"check", "begin", "refused"} => session[c] = "none"
    /\ s \in {"wait", "completed", "timedout"} => session[c] # "uploading"
    /\ heard'[c] /\ s \in {"parts", "abort"} => session[c] # "completed"
    /\ s = "ready" => known
    /\ s \in Over \ {"dead", "orphaned"} /\ (s = "failed" => heard'[c]) => session[c] # "uploading"

\* A move that may be made keeps the invariant.
LEMMA MoveKeeps ==
    ASSUME UploadInv, NEW c \in Attempts, NEW s \in Stages, Moves(c, s), MayEnter(c, s)
    PROVE  UploadInv'
  <1> USE DEF UploadInv, FiniteParts
  <1>0. /\ UNCHANGED <<session, stored, known, net>>
        /\ pc'[c] = s /\ call'[c] = None /\ answer'[c] = None
        /\ heard'[c] => heard[c]
        /\ \A d \in Attempts \ {c} :
            pc'[d] = pc[d] /\ call'[d] = call[d] /\ answer'[d] = answer[d] /\ heard'[d] = heard[d]
    BY DEF Moves, TypeOK, RemoteTypeOK
  <1>1. TypeOK' /\ FiniteParts'
    BY MoveTypes
  <1>2. \A d \in Attempts : \A o : Sent(d, o)' <=> Sent(d, o)
    BY <1>0 DEF Sent
  <1>3. CallsMatch'
    <2>1. \A r \in net : r # None
      BY Constants DEF TypeOK, RemoteTypeOK
    <2> QED BY <1>0, <2>1 DEF CallsMatch
  <1>4. Hears'
    BY <1>0 DEF Hears, MayEnter
  <1>5. Begins'
    BY <1>0, <1>2 DEF Begins, MayEnter
  <1>6. Opened'
    BY <1>0, Constants DEF Opened, MayEnter, Answers, States
  <1>7. Kept'
    BY <1>0, <1>2 DEF Kept, MayEnter
  <1>8. Known'
    BY <1>0, Constants DEF Known, MayEnter, Answers, States
  <1>9. NoSessionLeft'
    BY <1>0 DEF NoSessionLeft, MayEnter
  <1> QED BY <1>1, <1>3, <1>4, <1>5, <1>6, <1>7, <1>8, <1>9

\* An attempt that heard an answer has no request on its way, if it heard all.
LEMMA Heard ==
    ASSUME UploadInv, NEW c \in Attempts, NEW good \in SUBSET Answers,
           Told(c, good) \/ Refused(c, good)
    PROVE  /\ heard'[c] => heard[c]
           /\ heard'[c] => answer[c] # None
           /\ heard'[c] /\ pc[c] # "dead" => \A r \in net : r.from # c
           /\ call' = [call EXCEPT ![c] = None] /\ answer' = [answer EXCEPT ![c] = None]
           /\ heard' \in {heard, [heard EXCEPT ![c] = FALSE]} /\ net' = net
           /\ <<pc[c], call[c].op>> \in Asks
           /\ answer[c] # None => call[c] \notin net
  <1> USE DEF UploadInv
  <1>1. heard'[c] => heard[c] /\ answer[c] # None
    BY Constants DEF Told, Refused, TypeOK, RemoteTypeOK
  <1>2. answer[c] # None => call[c] \notin net
    BY DEF CallsMatch
  <1>3. heard'[c] /\ pc[c] # "dead" => \A r \in net : r.from # c
    BY <1>1, <1>2 DEF Hears
  <1>4. <<pc[c], call[c].op>> \in Asks
    BY DEF Told, Refused, CallsMatch
  <1> QED BY <1>1, <1>2, <1>3, <1>4 DEF Told, Refused, HangUp

\* A stage that is entered with the other variables of the attempt unchanged.
LEMMA PlainMove ==
    ASSUME UploadInv, NEW c \in Attempts, NEW s,
           pc' = [pc EXCEPT ![c] = s],
           UNCHANGED <<session, stored, known, net, size, fileSize, offset, parts>>,
           call' = [call EXCEPT ![c] = None], answer' = [answer EXCEPT ![c] = None],
           heard' \in {heard, [heard EXCEPT ![c] = FALSE]}
    PROVE  Moves(c, s)
  BY DEF UploadInv, TypeOK, Moves, FiniteParts

\* The part that is put joins the parts of the attempt.
LEMMA PartMove ==
    ASSUME UploadInv, NEW c \in Attempts, PartPut(c)
    PROVE  Moves(c, "parts") /\ MayEnter(c, "parts")
  <1> USE DEF UploadInv
  <1>1. pc[c] = "parts" /\ answer[c] = "uploading" /\ offset[c] < size[c] /\ UNCHANGED <<server, heard, net>>
    BY DEF PartPut, Succeeds, Told, HangUp
  <1>2. NextPart(c) \in Part
    BY <1>1, NextPartType DEF FiniteParts
  <1>3. parts' = [parts EXCEPT ![c] = @ \cup {NextPart(c)}]
        /\ offset' = [offset EXCEPT ![c] = @ + NextPart(c).size]
    BY DEF PartPut
  <1>4. parts' \in [Attempts -> SUBSET Part] /\ offset' \in [Attempts -> Nat]
    <2>1. NextPart(c).size \in Nat
      BY <1>2 DEF Part
    <2> QED BY <1>2, <1>3, <2>1 DEF TypeOK
  <1>5. FiniteParts'
    <2>1. IsFiniteSet(parts[c] \cup {NextPart(c)})
      BY FS_AddElement
    <2>2. \A d \in Attempts : parts'[d] = IF d = c THEN parts[c] \cup {NextPart(c)} ELSE parts[d]
      BY <1>3 DEF TypeOK
    <2> QED BY <2>1, <2>2 DEF FiniteParts
  <1>6. {"uploading"} \in SUBSET Answers
    BY DEF Answers, States
  <1>7. pc' = [pc EXCEPT ![c] = "parts"]
    BY <1>1 DEF PartPut, TypeOK
  <1>8. Moves(c, "parts")
    BY <1>3, <1>4, <1>5, <1>6, <1>7, Heard DEF PartPut, Succeeds, Moves, server
  <1>9. heard[c] => session[c] # "completed"
    BY <1>1 DEF Kept
  <1>10. ~Sent(c, "begin")
    BY <1>1 DEF Begins
  <1>11. heard'[c] => \A r \in net : r.from # c
    BY <1>1, <1>6, Heard DEF PartPut, Succeeds
  <1>12. MayEnter(c, "parts")
    BY <1>1, <1>9, <1>10, <1>11 DEF MayEnter, Over
  <1> QED BY <1>8, <1>12

\* An attempt goes on after an answer or without one.
LEMMA GoKeeps ==
    ASSUME UploadInv, NEW c \in Attempts,
           \/ Begun(c) \/ AlreadyKnown(c) \/ BeginFailed(c) \/ Completed(c) \/ PartsFailed(c)
           \/ Aborted(c) \/ Ready(c) \/ Pending(c) \/ WaitFailed(c)
    PROVE  UploadInv'
  <1> USE DEF UploadInv
  <1>1. PICK stage \in {"begin", "parts", "abort", "wait"}, good \in SUBSET Answers :
            Succeeds(c, stage, good) \/ Fails(c, stage, good)
    BY DEF Begun, AlreadyKnown, BeginFailed, Completed, PartsFailed, Aborted, Ready, Pending,
           WaitFailed, Answers, States
  <1>2. /\ pc[c] = stage /\ UNCHANGED <<session, stored, known, net, size, fileSize, offset, parts>>
        /\ Told(c, good) \/ Refused(c, good)
    BY <1>1
    DEF Succeeds, Fails, server, Begun, AlreadyKnown, BeginFailed, Completed, PartsFailed, Aborted,
        Ready, Pending, WaitFailed, attempt, Told, Refused, HangUp
  <1>3. /\ heard'[c] => heard[c] /\ answer[c] # None /\ \A r \in net : r.from # c
        /\ call' = [call EXCEPT ![c] = None] /\ answer' = [answer EXCEPT ![c] = None]
        /\ heard' \in {heard, [heard EXCEPT ![c] = FALSE]}
        /\ answer[c] # None => call[c] \notin net
    BY <1>2, Heard
  <1>4. answer[c] \in Answers \cup {None}
    BY DEF TypeOK, RemoteTypeOK
  <1>5. \A s : pc' = [pc EXCEPT ![c] = s] => Moves(c, s)
    BY <1>2, <1>3, PlainMove
  <1>6. pc[c] # "begin" => ~Sent(c, "begin")
    BY <1>2 DEF Begins
  <1>7. pc[c] = "begin" /\ answer[c] # None => ~Sent(c, "begin")
    BY <1>2, <1>3, Heard DEF Begins, Hears, Sent
  <1>8. ASSUME Refused(c, good), heard'[c] PROVE answer[c] \notin good \cup {None}
    BY <1>8 DEF Refused, TypeOK, RemoteTypeOK
  <1>9. answer[c] \in {"completed", "ready", "failed", "aborted"} => session[c] # "uploading"
    BY DEF Opened
  <1>10. CASE Begun(c)
    <2>1. pc[c] = "begin" /\ answer[c] = "uploading" /\ pc' = [pc EXCEPT ![c] = "parts"]
      BY <1>10 DEF Begun, Succeeds, Told, Goto
    <2>2. session[c] # "completed"
      BY <2>1 DEF Opened
    <2>3. MayEnter(c, "parts")
      BY <1>3, <1>7, <2>1, <2>2, Constants DEF MayEnter, Over, Answers, States
    <2> QED BY <1>5, <2>1, <2>3, MoveKeeps DEF Stages
  <1>11. CASE AlreadyKnown(c)
    <2>1. pc[c] = "begin" /\ answer[c] = "ready" /\ pc' = [pc EXCEPT ![c] = "ready"]
      BY <1>11 DEF AlreadyKnown, Succeeds, Told, Goto
    <2>2. known
      BY <2>1 DEF Known
    <2>3. MayEnter(c, "ready")
      BY <1>3, <1>7, <1>9, <2>1, <2>2, Constants DEF MayEnter, Over, Answers, States
    <2> QED BY <1>5, <2>1, <2>3, MoveKeeps DEF Stages
  <1>12. CASE BeginFailed(c)
    <2>1. pc[c] = "begin" /\ pc' = [pc EXCEPT ![c] = "failed"]
      BY <1>12 DEF BeginFailed, Fails, Goto
    <2>2. heard'[c] => answer[c] # "uploading"
      BY <1>12, <1>3, <2>1 DEF BeginFailed, Fails, Refused, TypeOK, RemoteTypeOK
    <2>3. heard'[c] => session[c] # "uploading"
      BY <2>1, <2>2 DEF Opened
    <2>4. MayEnter(c, "failed")
      BY <1>3, <1>7, <2>1, <2>3 DEF MayEnter, Over
    <2> QED BY <1>5, <2>1, <2>4, MoveKeeps DEF Stages
  <1>13. CASE Completed(c)
    <2>1. PICK s \in {"wait", "completed", "ready", "failed"} :
            /\ pc[c] = "parts" /\ pc' = [pc EXCEPT ![c] = s]
            /\ answer[c] \in {"completed", "ready", "failed"} /\ (s = "ready" => answer[c] = "ready")
      BY <1>13 DEF Completed, Succeeds, Told, Goto
    <2>2. s = "ready" => known
      BY <2>1 DEF Known
    <2>3. MayEnter(c, s)
      BY <1>3, <1>6, <1>9, <2>1, <2>2 DEF MayEnter, Over
    <2> QED BY <1>5, <2>1, <2>3, MoveKeeps DEF Stages
  <1>14. CASE PartsFailed(c)
    <2>1. pc[c] = "parts" /\ pc' = [pc EXCEPT ![c] = "abort"]
      BY <1>14 DEF PartsFailed, Fails, Goto
    <2>2. heard'[c] => answer[c] # "completed"
      BY <1>14 DEF PartsFailed, Fails, Refused, TypeOK, RemoteTypeOK
    <2>3. heard'[c] => session[c] # "completed"
      BY <1>3, <2>1, <2>2 DEF Kept
    <2>4. MayEnter(c, "abort")
      BY <1>3, <1>6, <2>1, <2>3 DEF MayEnter, Over
    <2> QED BY <1>5, <2>1, <2>4, MoveKeeps DEF Stages
  <1>15. CASE Aborted(c)
    <2>1. PICK s \in {"aborted", "orphaned"} :
            /\ pc[c] = "abort" /\ pc' = [pc EXCEPT ![c] = s]
            /\ s = "aborted" => answer[c] = "aborted"
      BY <1>15 DEF Aborted, Succeeds, Fails, Told, Goto
    <2>2. MayEnter(c, s)
      BY <1>3, <1>6, <1>9, <2>1 DEF MayEnter, Over
    <2> QED BY <1>5, <2>1, <2>2, MoveKeeps DEF Stages
  <1>16. CASE Ready(c)
    <2>1. pc[c] = "wait" /\ answer[c] = "ready" /\ pc' = [pc EXCEPT ![c] = "ready"]
      BY <1>16 DEF Ready, Succeeds, Told, Goto
    <2>2. known
      BY <2>1 DEF Known
    <2>3. MayEnter(c, "ready")
      BY <1>3, <1>6, <1>9, <2>1, <2>2 DEF MayEnter, Over
    <2> QED BY <1>5, <2>1, <2>3, MoveKeeps DEF Stages
  <1>17. CASE Pending(c)
    <2>1. pc[c] = "wait" /\ pc' = [pc EXCEPT ![c] = "wait"]
      BY <1>17 DEF Pending, Succeeds, attempt, TypeOK
    <2>2. MayEnter(c, "wait")
      BY <1>3, <1>6, <2>1 DEF MayEnter, Over, Opened
    <2> QED BY <1>5, <2>1, <2>2, MoveKeeps DEF Stages
  <1>18. CASE WaitFailed(c)
    <2>1. pc[c] = "wait" /\ pc' = [pc EXCEPT ![c] = "failed"]
      BY <1>18 DEF WaitFailed, Fails, Goto
    <2>2. MayEnter(c, "failed")
      BY <1>3, <1>6, <2>1 DEF MayEnter, Over, Opened
    <2> QED BY <1>5, <2>1, <2>2, MoveKeeps DEF Stages
  <1> QED BY <1>10, <1>11, <1>12, <1>13, <1>14, <1>15, <1>16, <1>17, <1>18

\* An attempt checks the file, or stops without an answer.
LEMMA StopKeeps ==
    ASSUME UploadInv, NEW c \in Attempts, Check(c) \/ TimedOut(c) \/ Die(c)
    PROVE  UploadInv'
  <1> USE DEF UploadInv
  <1>1. CASE Check(c)
    <2>1. PICK s \in {"begin", "refused"} : pc[c] = "check" /\ pc' = [pc EXCEPT ![c] = s]
      BY <1>1 DEF Check, Goto
    <2>2. /\ call = [call EXCEPT ![c] = None] /\ answer = [answer EXCEPT ![c] = None]
          /\ call[c] = None
      BY <2>1 DEF CallsMatch, Asks, TypeOK, RemoteTypeOK
    <2>3. Moves(c, s)
      BY <1>1, <2>1, <2>2, PlainMove DEF Check, server, remote
    <2>4. \A r \in net : r.from # c
      BY <2>1 DEF Begins, Sent
    <2>5. MayEnter(c, s)
      BY <1>1, <2>1, <2>4 DEF MayEnter, Over, Opened, Begins, Sent, Check, remote
    <2> QED BY <2>1, <2>3, <2>5, MoveKeeps DEF Stages
  <1>2. CASE TimedOut(c)
    <2>1. /\ pc[c] = "wait" /\ pc' = [pc EXCEPT ![c] = "timedout"]
          /\ heard' = [heard EXCEPT ![c] = @ /\ call[c] = None]
      BY <1>2 DEF TimedOut, Expire, Goto
    <2>2. heard' \in {heard, [heard EXCEPT ![c] = FALSE]}
      <3>1. CASE call[c] = None
        BY <2>1, <3>1 DEF TypeOK, RemoteTypeOK
      <3>2. CASE call[c] # None
        BY <2>1, <3>2 DEF TypeOK, RemoteTypeOK
      <3> QED BY <3>1, <3>2
    <2>3. Moves(c, "timedout")
      BY <1>2, <2>1, <2>2, PlainMove DEF TimedOut, Expire, HangUp, server
    <2>4. heard'[c] => \A r \in net : r.from # c
      <3>1. heard'[c] => heard[c] /\ call[c] = None
        BY <2>1 DEF TypeOK, RemoteTypeOK
      <3>2. \A r \in net : r # None
        BY Constants DEF TypeOK, RemoteTypeOK
      <3> QED BY <2>1, <3>1, <3>2 DEF Hears
    <2>5. MayEnter(c, "timedout")
      BY <2>1, <2>4 DEF MayEnter, Over, Opened, Begins
    <2> QED BY <2>3, <2>5, MoveKeeps DEF Stages
  <1>3. CASE Die(c)
    <2>1. Moves(c, "dead")
      BY <1>3, PlainMove DEF Die, Goto, HangUp, server
    <2>2. MayEnter(c, "dead")
      BY DEF MayEnter
    <2> QED BY <2>1, <2>2, MoveKeeps DEF Stages
  <1> QED BY <1>1, <1>2, <1>3

-----------------------------------------------------------------------------
(* The server handles a request, or it gets lost *)

\* A request leaves the network; only the attempt waiting for it hears of it.
Replies(r, a) ==
    /\ net' = net \ {r}
    /\ UNCHANGED <<pc, call, heard, parts>>
    /\ \A d \in Attempts :
        answer'[d] = answer[d] \/ (call[d] = r /\ d = r.from /\ answer[d] = None /\ answer'[d] = a)

\* Answering a request, or losing it, is a reply; one waited for is heard.
LEMMA AnswerReplies ==
    ASSUME UploadInv, NEW r \in net, NEW a, UNCHANGED attempt, Answer(r, a) \/ Lose(r)
    PROVE  /\ Replies(r, a)
           /\ Answer(r, a) /\ call[r.from] = r => answer'[r.from] = a
  <1> USE DEF UploadInv
  <1>1. r \in Requests /\ r.from \in Attempts /\ r # None
    BY Constants DEF TypeOK, RemoteTypeOK
  <1>2. answer \in [Attempts -> Answers \cup {None}]
    BY DEF TypeOK, RemoteTypeOK
  <1>3. net' = net \ {r} /\ UNCHANGED <<pc, call, heard, parts>>
    BY DEF Answer, Lose, attempt
  <1>4. CASE Answer(r, a)
    <2>1. CASE call[r.from] = r
      <3>1. answer' = [answer EXCEPT ![r.from] = a] /\ answer[r.from] = None
        BY <1>1, <1>4, <2>1 DEF Answer, CallsMatch
      <3> QED BY <1>1, <1>2, <1>3, <2>1, <3>1 DEF Replies
    <2>2. CASE call[r.from] # r
      BY <1>3, <1>4, <2>2 DEF Answer, Replies
    <2> QED BY <2>1, <2>2
  <1>5. CASE Lose(r) /\ ~Answer(r, a)
    BY <1>3, <1>5 DEF Lose, Replies
  <1> QED BY <1>4, <1>5

\* What every reply keeps, whatever becomes of the session.
LEMMA ReplyCalls ==
    ASSUME UploadInv, NEW r \in net, NEW a, Replies(r, a)
    PROVE  /\ CallsMatch' /\ Hears' /\ Begins'
           /\ UNCHANGED <<pc, call, heard, parts>>
           /\ \A d \in Attempts : \A o : Sent(d, o)' => Sent(d, o)
  <1> USE DEF UploadInv
  <1>0. r # None /\ r.from \in Attempts
    BY Constants DEF TypeOK, RemoteTypeOK
  <1>1. UNCHANGED <<pc, call, heard, parts>> /\ net' \subseteq net
    BY DEF Replies
  <1>2. CallsMatch'
    BY <1>0 DEF Replies, CallsMatch
  <1>3. Hears'
    BY <1>1 DEF Hears
  <1>4. \A d \in Attempts : \A o : Sent(d, o)' => Sent(d, o)
    BY <1>1 DEF Sent
  <1>5. Begins'
    BY <1>1, <1>4 DEF Begins
  <1> QED BY <1>1, <1>2, <1>3, <1>4, <1>5

\* Who hears a reply, and who still has a request on its way.
LEMMA ReplyHeard ==
    ASSUME UploadInv, NEW r \in net, NEW a, Replies(r, a)
    PROVE  /\ r.from \in Attempts
           /\ \A d \in Attempts : answer'[d] # answer[d] =>
                /\ d = r.from /\ <<pc[d], r.op>> \in Asks
                /\ answer[d] = None /\ answer'[d] = a
           /\ r.op = "begin" =>
                \/ pc[r.from] = "begin" /\ call[r.from] = r
                \/ pc[r.from] = "dead"
                \/ pc[r.from] = "failed" /\ ~heard[r.from]
           /\ r.op # "begin" => pc[r.from] \notin {"check", "begin", "refused"}
  <1> USE DEF UploadInv
  <1>0. r.from \in Attempts /\ r # None
    BY Constants DEF TypeOK, RemoteTypeOK
  <1>1. /\ r.op = "begin" => pc[r.from] = "begin" \/ pc[r.from] = "dead"
                             \/ (pc[r.from] = "failed" /\ ~heard[r.from])
        /\ r.op # "begin" => pc[r.from] \notin {"check", "begin", "refused"}
    BY <1>0 DEF Begins, Sent
  <1>2. \A d \in Attempts : answer'[d] # answer[d] =>
            /\ d = r.from /\ <<pc[d], r.op>> \in Asks
            /\ answer[d] = None /\ answer'[d] = a
    BY <1>0 DEF Replies, CallsMatch
  <1>3. pc[r.from] = "begin" => call[r.from] = r
    BY <1>0 DEF Begins, Hears
  <1> QED BY <1>0, <1>1, <1>2, <1>3

\* A reply that leaves the session as it is keeps the invariant.
LEMMA SameKeeps ==
    ASSUME UploadInv, TypeOK', NEW r \in net, NEW a, Replies(r, a), UNCHANGED <<session, known>>,
           a \in {"completed", "ready", "failed", "aborted"} => session[r.from] # "uploading"
                \/ r.op = "begin",
           a = "ready" => known
    PROVE  UploadInv'
  <1> USE DEF UploadInv
  <1>1. /\ CallsMatch' /\ Hears' /\ Begins'
        /\ UNCHANGED <<pc, call, heard, parts>>
        /\ \A d \in Attempts : \A o : Sent(d, o)' => Sent(d, o)
        /\ \A d \in Attempts : answer'[d] # answer[d] =>
             d = r.from /\ <<pc[d], r.op>> \in Asks /\ answer[d] = None /\ answer'[d] = a
    BY ReplyCalls, ReplyHeard
  <1>2. "uploading" # None /\ "completed" # None
    BY Constants DEF Answers, States
  <1>3. Opened'
    <2>1. ASSUME NEW d \in Attempts, pc[d] = "begin"
          PROVE  session[d] = "none" \/ (session[d] = "uploading" /\ answer'[d] = "uploading")
      BY <1>1, <1>2, <2>1 DEF Opened
    <2>2. ASSUME NEW d \in Attempts, answer'[d] \in {"completed", "ready", "failed", "aborted"}
          PROVE  session[d] # "uploading"
      <3>1. CASE answer'[d] = answer[d]
        BY <2>2, <3>1 DEF Opened
      <3>2. CASE answer'[d] # answer[d]
        <4>1. d = r.from /\ answer'[d] = a /\ answer[d] = None /\ (r.op = "begin" => pc[d] = "begin")
          BY <1>1, <3>2 DEF Asks
        <4> QED BY <1>2, <2>2, <4>1 DEF Opened
      <3> QED BY <3>1, <3>2
    <2> QED BY <1>1, <2>1, <2>2 DEF Opened
  <1>4. Kept'
    BY <1>1, <1>2 DEF Kept
  <1>5. Known'
    BY <1>1 DEF Known
  <1>6. NoSessionLeft'
    BY <1>1 DEF NoSessionLeft
  <1> QED BY <1>1, <1>3, <1>4, <1>5, <1>6

\* A session begins only for an attempt that waits for it or gave up on it.
LEMMA BeginKeeps ==
    ASSUME UploadInv, TypeOK', NEW r \in net, HandleBegin(r)
    PROVE  UploadInv'
  <1> USE DEF UploadInv
  <1> DEFINE c == r.from
  <1>1. ASSUME NEW s \in {"ready", "failed", "aborted"}, s = "ready" => known,
               Answer(r, s), UNCHANGED session
        PROVE  UploadInv'
    <2>1. Replies(r, s) /\ r.op = "begin" /\ UNCHANGED known
      BY <1>1, AnswerReplies DEF HandleBegin
    <2> QED BY <1>1, <2>1, SameKeeps
  <1>2. CASE Answer(r, "uploading") /\ session' = [session EXCEPT ![c] = "uploading"]
    <2>1. Replies(r, "uploading") /\ (call[c] = r => answer'[c] = "uploading")
          /\ r.op = "begin" /\ UNCHANGED known
      BY <1>2, AnswerReplies DEF HandleBegin
    <2>0. /\ CallsMatch' /\ Hears' /\ Begins'
          /\ UNCHANGED <<pc, call, heard, parts>>
          /\ \A d \in Attempts : \A o : Sent(d, o)' => Sent(d, o)
      BY <2>1, ReplyCalls
    <2>2. /\ c \in Attempts
          /\ \A d \in Attempts : answer'[d] # answer[d] => d = c /\ answer'[d] = "uploading"
          /\ \/ pc[c] = "begin" /\ answer'[c] = "uploading"
             \/ pc[c] = "dead"
             \/ pc[c] = "failed" /\ ~heard[c]
      BY <2>1, ReplyHeard
    <2>3. session'[c] = "uploading" /\ \A d \in Attempts \ {c} : session'[d] = session[d]
      BY <1>2, <2>2 DEF TypeOK
    <2>4. answer'[c] \notin {"completed", "ready", "failed", "aborted"}
      <3>1. pc[c] \in {"dead", "failed"} => answer[c] = None
        BY <2>0, <2>2 DEF CallsMatch, Asks
      <3> QED BY <2>2, <3>1, Constants DEF Answers, States
    <2>5. Opened'
      BY <2>0, <2>2, <2>3, <2>4 DEF Opened
    <2>6. Kept'
      BY <2>0, <2>2, <2>3 DEF Kept
    <2>7. Known'
      BY <2>0, <2>1, <2>2, <2>3 DEF Known
    <2>8. NoSessionLeft'
      BY <2>0, <2>2, <2>3 DEF NoSessionLeft, Over
    <2> QED BY <2>0, <2>8, <2>5, <2>6, <2>7
  <1> QED BY <1>1, <1>2 DEF HandleBegin

\* A completion is heard of, or no abort follows it unheard.
LEMMA CompleteKeeps ==
    ASSUME UploadInv, TypeOK', NEW r \in net, HandleComplete(r)
    PROVE  UploadInv'
  <1> USE DEF UploadInv
  <1> DEFINE c == r.from
  <1>1. PICK s \in {"completed", "ready", "failed"} :
            /\ session' = [session EXCEPT ![c] = s] /\ known' = (known \/ s = "ready")
            /\ Answer(r, s)
    BY DEF HandleComplete
  <1>2. Replies(r, s) /\ (call[c] = r => answer'[c] = s) /\ r.op = "complete"
    BY <1>1, AnswerReplies DEF HandleComplete
  <1>0. /\ CallsMatch' /\ Hears' /\ Begins'
        /\ UNCHANGED <<pc, call, heard, parts>>
        /\ \A d \in Attempts : \A o : Sent(d, o)' => Sent(d, o)
    BY <1>2, ReplyCalls
  <1>3. /\ c \in Attempts
        /\ \A d \in Attempts : answer'[d] # answer[d] => d = c /\ answer'[d] = s
        /\ pc[c] \notin {"check", "begin", "refused"}
    <2>1. c \in Attempts /\ pc[c] \notin {"check", "begin", "refused"}
      BY <1>2, ReplyHeard
    <2>2. \A d \in Attempts : answer'[d] # answer[d] => d = c /\ answer'[d] = s
      BY <1>2, ReplyHeard
    <2> QED BY <2>1, <2>2
  <1>4. session'[c] = s /\ \A d \in Attempts \ {c} : session'[d] = session[d]
    BY <1>1, <1>3 DEF TypeOK
  <1>5. Opened'
    BY <1>0, <1>3, <1>4 DEF Opened
  <1>6. heard[c] => ~Sent(c, "abort") /\ pc[c] # "abort" /\ (pc[c] = "parts" => answer'[c] = s)
    <2>1. Sent(c, "complete")
      BY <1>2, <1>3 DEF Sent
    <2>2. heard[c] => ~Sent(c, "abort")
      BY <1>3, <2>1 DEF Kept
    <2>3. heard[c] /\ pc[c] # "dead" => call[c] = r /\ <<pc[c], "complete">> \in Asks
      BY <1>0, <1>2, <1>3, Constants DEF Hears, CallsMatch, TypeOK, RemoteTypeOK
    <2> QED BY <1>2, <2>2, <2>3 DEF Asks
  <1>7. Kept'
    BY <1>0, <1>3, <1>4, <1>6 DEF Kept
  <1>8. Known'
    BY <1>0, <1>1, <1>3, <1>4 DEF Known
  <1>9. NoSessionLeft'
    BY <1>0, <1>3, <1>4 DEF NoSessionLeft
  <1> QED BY <1>0, <1>5, <1>7, <1>8, <1>9

\* An aborted session is none of those the invariant is about.
LEMMA AbortKeeps ==
    ASSUME UploadInv, TypeOK', NEW r \in net, HandleAbort(r)
    PROVE  UploadInv'
  <1> USE DEF UploadInv
  <1> DEFINE c == r.from
  <1>1. /\ session' = [session EXCEPT ![c] = "aborted"] /\ UNCHANGED known
        /\ Replies(r, "aborted") /\ r.op = "abort"
    BY AnswerReplies DEF HandleAbort
  <1>0. /\ CallsMatch' /\ Hears' /\ Begins'
        /\ UNCHANGED <<pc, call, heard, parts>>
        /\ \A d \in Attempts : \A o : Sent(d, o)' => Sent(d, o)
    BY <1>1, ReplyCalls
  <1>2. /\ c \in Attempts
        /\ \A d \in Attempts : answer'[d] # answer[d] => d = c /\ answer'[d] = "aborted"
        /\ pc[c] \notin {"check", "begin", "refused"}
    BY <1>1, ReplyHeard
  <1>3. session'[c] = "aborted" /\ \A d \in Attempts \ {c} : session'[d] = session[d]
    BY <1>1, <1>2 DEF TypeOK
  <1>4. Opened' /\ Known' /\ NoSessionLeft'
    BY <1>0, <1>1, <1>2, <1>3 DEF Opened, Known, NoSessionLeft
  <1>5. Kept'
    <2>1. \A d \in Attempts \ {c} : answer'[d] = answer[d]
      BY <1>2
    <2> QED BY <1>0, <1>2, <1>3, <2>1 DEF Kept
  <1> QED BY <1>0, <1>4, <1>5

\* Whatever happens to a request keeps the invariant.
LEMMA HandleKeeps ==
    ASSUME UploadInv, NEW r \in net, Handle(r) \/ Refuse(r) \/ Vanish(r)
    PROVE  UploadInv'
  <1> USE DEF UploadInv
  <1>0. TypeOK' /\ r.from \in Attempts
    BY HandleTypes, Constants DEF TypeOK, RemoteTypeOK, FiniteParts
  <1>1. CASE HandlePut(r) \/ Refuse(r) \/ Vanish(r)
    <2>1. PICK a \in {"uploading", "error"} : Replies(r, a)
      BY <1>1, AnswerReplies DEF HandlePut, Refuse, Vanish
    <2>2. UNCHANGED <<session, known>>
      BY <1>1 DEF HandlePut, Refuse, Vanish, server
    <2> QED BY <1>0, <2>1, <2>2, SameKeeps
  <1>2. CASE HandleGet(r)
    <2>1. Replies(r, session[r.from]) /\ UNCHANGED <<session, known>>
      BY <1>2, AnswerReplies DEF HandleGet, server
    <2>2. session[r.from] = "ready" => known
      BY <1>0 DEF Known
    <2> QED BY <1>0, <2>1, <2>2, SameKeeps
  <1> QED BY <1>0, <1>1, <1>2, BeginKeeps, CompleteKeeps, AbortKeeps DEF Handle

\* A content check ends; only a completed session changes.
LEMMA IngestKeeps ==
    ASSUME UploadInv, NEW c \in Attempts, Ingest(c)
    PROVE  UploadInv'
  <1> USE DEF UploadInv
  <1>1. PICK s \in {"ready", "failed"} :
            /\ session[c] = "completed" /\ session' = [session EXCEPT ![c] = s]
            /\ (known => known') /\ (s = "ready" => known') /\ known' \in BOOLEAN
            /\ UNCHANGED <<stored, pc, size, fileSize, offset, parts, net, call, answer, heard>>
    BY DEF Ingest, attempt, remote, TypeOK
  <1>2. session'[c] = s /\ \A d \in Attempts \ {c} : session'[d] = session[d]
    BY <1>1 DEF TypeOK
  <1>3. TypeOK'
    BY <1>1 DEF TypeOK, RemoteTypeOK, States
  <1>4. CallsMatch' /\ Hears' /\ Begins'
    BY <1>1 DEF CallsMatch, Hears, Begins, Sent
  <1>5. Opened'
    BY <1>1, <1>2 DEF Opened
  <1>6. Kept' /\ Known' /\ NoSessionLeft'
    BY <1>1, <1>2 DEF Kept, Known, NoSessionLeft, Sent
  <1> QED BY <1>1, <1>3, <1>4, <1>5, <1>6

-----------------------------------------------------------------------------
(* Results *)

\* The invariant holds initially.
LEMMA InvInit == Init => UploadInv
  <1> SUFFICES ASSUME Init PROVE UploadInv
    OBVIOUS
  <1>1. TypeOK
    BY DEF Init, TypeOK, RemoteInit, RemoteTypeOK, States, Stages
  <1>2. \A c \in Attempts : IsFiniteSet(parts[c])
    BY FS_EmptySet DEF Init
  <1>3. CallsMatch /\ Hears /\ Begins /\ Kept /\ NoSessionLeft
    BY DEF Init, RemoteInit, CallsMatch, Hears, Begins, Kept, NoSessionLeft, Sent, Over
  <1>4. Opened /\ Known
    BY Constants DEF Init, RemoteInit, Opened, Known, Answers, States
  <1> QED BY <1>1, <1>2, <1>3, <1>4 DEF UploadInv

\* Every step keeps the invariant.
LEMMA InvNext == UploadInv /\ [Next]_vars => UploadInv'
  <1> SUFFICES ASSUME UploadInv, [Next]_vars PROVE UploadInv'
    OBVIOUS
  <1>1. ASSUME NEW c \in Attempts, Step(c) PROVE UploadInv'
    <2>1. CASE BeginUpload(c) \/ PutUploadPart(c) \/ CompleteUpload(c) \/ AbortUpload(c)
               \/ GetUpload(c)
      BY <2>1, StepSends, SendKeeps DEF UploadInv, FiniteParts
    <2> QED BY <1>1, <2>1, PartMove, MoveKeeps, GoKeeps, StopKeeps DEF Step, Stages
  <1>2. CASE UNCHANGED vars
    <2>1. UNCHANGED <<session, stored, known, pc, size, fileSize, offset, parts, net, call, answer,
                      heard>>
      BY <1>2 DEF vars, server, attempt, remote
    <2>2. TypeOK' /\ (\A c \in Attempts : IsFiniteSet(parts'[c])) /\ CallsMatch' /\ Hears'
      BY <2>1 DEF UploadInv, TypeOK, RemoteTypeOK, CallsMatch, Hears
    <2>3. Begins' /\ Opened' /\ Kept' /\ Known' /\ NoSessionLeft'
      BY <2>1 DEF UploadInv, Begins, Opened, Kept, Known, NoSessionLeft, Sent
    <2> QED BY <2>2, <2>3 DEF UploadInv
  <1> QED BY <1>1, <1>2, StopKeeps, IngestKeeps, HandleKeeps DEF Next

\* An attempt that heard of the completion has no abort on its way.
LEMMA KeptStep == UploadInv /\ [Next]_vars =>
    \A c \in Attempts : session[c] = "completed" /\ heard[c] => session'[c] # "aborted"
  <1> SUFFICES ASSUME UploadInv, [Next]_vars, NEW c \in Attempts, session[c] = "completed", heard[c]
               PROVE  session'[c] # "aborted"
    OBVIOUS
  <1> USE DEF UploadInv
  <1>1. ASSUME NEW r \in net, Handle(r) PROVE session'[c] # "aborted"
    <2>1. CASE HandleAbort(r)
      <3>1. r.from # c
        BY <2>1 DEF HandleAbort, Kept, Sent
      <3> QED BY <2>1, <3>1 DEF HandleAbort, TypeOK
    <2>2. CASE HandleBegin(r)
      BY <2>2 DEF HandleBegin, TypeOK
    <2>3. CASE HandleComplete(r)
      BY <2>3 DEF HandleComplete, TypeOK
    <2>4. CASE HandlePut(r) \/ HandleGet(r)
      BY <2>4 DEF HandlePut, HandleGet, server
    <2> QED BY <1>1, <2>1, <2>2, <2>3, <2>4 DEF Handle
  <1>2. ASSUME NEW d \in Attempts, Ingest(d) PROVE session'[c] # "aborted"
    BY <1>2 DEF Ingest, TypeOK
  <1>3. CASE UNCHANGED session
    BY <1>3
  <1>4. ASSUME NEW d \in Attempts, Step(d) \/ Die(d) PROVE UNCHANGED session
    BY <1>4
    DEF Step, Check, BeginUpload, Begun, AlreadyKnown, BeginFailed, PutUploadPart, PartPut,
        CompleteUpload, Completed, PartsFailed, AbortUpload, Aborted, GetUpload, Ready, Pending,
        WaitFailed, TimedOut, Expire, Die, Send, Succeeds, Fails, server
  <1>5. ASSUME NEW r \in net, Refuse(r) \/ Vanish(r) PROVE UNCHANGED session
    BY <1>5 DEF Refuse, Vanish, server
  <1> QED BY <1>1, <1>2, <1>3, <1>4, <1>5 DEF Next, vars, server

\* Every reachable state satisfies the invariant.
THEOREM UploadInvariant == Spec => []UploadInv
  BY InvInit, InvNext, PTL DEF Spec

\* The states of server and attempts are well-formed.
THEOREM UploadTypeCorrect == Spec => []TypeOK
  <1>1. UploadInv => TypeOK
    BY DEF UploadInv
  <1> QED BY <1>1, UploadInvariant, PTL

\* UploadArtifact: an attempt that returns leaves no session open, unless it
\* never heard of it or could not reach the server to abort it.
THEOREM NoSessionIsLeft == Spec => []NoSessionLeft
  <1>1. UploadInv => NoSessionLeft
    BY DEF UploadInv
  <1> QED BY <1>1, UploadInvariant, PTL

\* UploadArtifact reports "ready" only of content that the store has.
THEOREM ReadyIsReallyKnown == Spec => []ReadyIsKnown
  <1>1. UploadInv => ReadyIsKnown
    BY DEF UploadInv, Known, ReadyIsKnown
  <1> QED BY <1>1, UploadInvariant, PTL

\* UploadArtifact aborts no session of whose completion it heard.
THEOREM CompletionsAreKept == Spec => CompletedKept
  <1>1. UploadInv /\ [Next]_vars =>
            [ \A c \in Attempts :
                session[c] = "completed" /\ heard[c] => session'[c] # "aborted" ]_vars
    BY KeptStep
  <1> QED BY <1>1, UploadInvariant, PTL DEF Spec, CompletedKept

-----------------------------------------------------------------------------
(* The parts *)

\* What fits a number of times into a quantity fits that often when divided.
LEMMA DivRoom ==
    ASSUME NEW a \in Nat, NEW b \in Nat \ {0}, NEW m \in Nat, m * b <= a
    PROVE  m <= a \div b
  <1> DEFINE q == a \div b
  <1>1. q \in Nat /\ a < (q + 1) * b
    OBVIOUS
  <1> HIDE DEF q
  <1>2. ASSUME m > q PROVE FALSE
    <2>1. PICK n \in Nat : m = (q + 1) + n
      <3>1. m - (q + 1) \in Nat /\ m = (q + 1) + (m - (q + 1))
        BY <1>1, <1>2
      <3> QED BY <3>1
    <2>2. m * b = (q + 1) * b + n * b /\ n * b >= 0
      BY <1>1, <2>1
    <2> QED BY <1>1, <2>2
  <1> QED BY <1>1, <1>2 DEF q

\* The facts about the parts of one attempt.
Cut(c) ==
    LET k == Cardinality(parts[c]) IN
    /\ {p.number : p \in parts[c]} = 1..k
    /\ \A p \in parts[c] : p.number < k \/ offset[c] < size[c] => p.size = PartSize
    /\ UNION {Bytes(p) : p \in parts[c]} = 1..offset[c]
    /\ offset[c] <= size[c]
    /\ offset[c] < size[c] => offset[c] = k * PartSize
    /\ k <= partCount(size[c])

\* The part at the offset takes up where the others end.
LEMMA NextCut ==
    ASSUME UploadInv, NEW c \in Attempts, Cut(c), PartPut(c)
    PROVE  Cut(c)'
  <1> DEFINE k == Cardinality(parts[c])
             n == NextPart(c)
  <1>1. /\ offset[c] < size[c] /\ UNCHANGED size
        /\ parts'[c] = parts[c] \cup {n}
        /\ offset'[c] = offset[c] + n.size
    BY DEF PartPut, UploadInv, TypeOK
  <1>2. /\ k \in Nat /\ size[c] \in Nat /\ offset[c] \in Nat /\ PartSize \in Nat \ {0}
        /\ IsFiniteSet(parts[c]) /\ parts[c] \subseteq Part
    BY FS_CardinalityType, Constants DEF UploadInv, TypeOK
  <1>3. /\ n.number = k + 1 /\ n.size \in Nat
        /\ n.size <= PartSize /\ n.size <= size[c] - offset[c]
        /\ n.size = PartSize \/ n.size = size[c] - offset[c]
    BY <1>1, <1>2 DEF NextPart
  <1>4. /\ {p.number : p \in parts[c]} = 1..k
        /\ \A p \in parts[c] : p.size = PartSize
        /\ UNION {Bytes(p) : p \in parts[c]} = 1..offset[c]
        /\ offset[c] = k * PartSize
    BY <1>1 DEF Cut
  <1>5. Bytes(n) = (offset[c] + 1)..offset'[c]
    <2>1. n.number - 1 = k
      BY <1>2, <1>3
    <2> HIDE DEF k, n
    <2> QED BY <1>1, <1>4, <2>1 DEF Bytes
  <1>6. n \notin parts[c] /\ Cardinality(parts'[c]) = k + 1
    <2>1. k + 1 \notin 1..k
      BY <1>2
    <2>2. n \notin parts[c]
      BY <1>3, <1>4, <2>1
    <2> QED BY <1>1, <1>2, <2>2, FS_AddElement
  <1> HIDE DEF k, n
  <1>7. {p.number : p \in parts'[c]} = 1..(k + 1)
    <2>1. {p.number : p \in parts'[c]} = 1..k \cup {k + 1}
      BY <1>1, <1>3, <1>4
    <2> QED BY <1>2, <2>1
  <1>8. UNION {Bytes(p) : p \in parts'[c]} = 1..offset'[c]
    <2>1. UNION {Bytes(p) : p \in parts'[c]} = (1..offset[c]) \cup Bytes(n)
      BY <1>1, <1>4
    <2> QED BY <1>1, <1>2, <1>3, <1>5, <2>1
  <1>9. offset'[c] <= size[c] /\ (offset'[c] < size[c] => n.size = PartSize)
    BY <1>1, <1>2, <1>3
  <1>10. offset'[c] < size[c] => offset'[c] = (k + 1) * PartSize
    BY <1>1, <1>2, <1>4, <1>9
  <1>11. \A p \in parts'[c] : p.number < k + 1 \/ offset'[c] < size[c] => p.size = PartSize
    BY <1>1, <1>2, <1>3, <1>4, <1>9
  <1>12. k + 1 <= partCount(size[c])
    <2>1. (k + 1) * PartSize = offset[c] + PartSize
      BY <1>2, <1>4
    <2>2. (k + 1) * PartSize <= size[c] + PartSize - 1 /\ size[c] + PartSize - 1 \in Nat
      BY <1>1, <1>2, <2>1
    <2> QED BY <1>2, <2>2, DivRoom DEF partCount
  <1>13. size'[c] = size[c] /\ partCount(size[c])' = partCount(size[c])
    BY <1>1 DEF partCount
  <1> QED BY <1>6, <1>7, <1>8, <1>9, <1>10, <1>11, <1>12, <1>13 DEF Cut, Bytes

\* At the end of the file the parts are all there.
LEMMA AllCut ==
    ASSUME UploadInv, NEW c \in Attempts, Cut(c), offset[c] >= size[c],
           partCount(size[c]) <= MaxParts
    PROVE  Tiles(parts[c], size[c])
  <1>1. /\ Cardinality(parts[c]) \in Nat /\ size[c] \in Nat /\ offset[c] \in Nat
        /\ partCount(size[c]) \in Int /\ MaxParts \in Nat
    BY FS_CardinalityType, Constants, PartsAssumption DEF UploadInv, TypeOK, partCount
  <1>2. offset[c] = size[c]
    BY <1>1 DEF Cut
  <1> QED BY <1>1, <1>2 DEF Cut, Tiles

\* A step that adds no part, sends no completion and completes no session.
LEMMA SameTiles ==
    ASSUME UploadInv, TilesInv, UNCHANGED <<size, offset, parts>>,
           \A r \in net' : r.op = "complete" => r \in net,
           \A c \in Attempts : pc'[c] \in {"begin", "parts"} =>
                pc[c] \in {"begin", "parts"} \/ partCount(size[c]) <= MaxParts,
           \A c \in Attempts : session'[c] \in {"completed", "ready"} =>
                session[c] \in {"completed", "ready"} /\ stored'[c] = stored[c]
    PROVE  TilesInv'
  <1>1. CutsInOrder'
    BY DEF TilesInv, CutsInOrder, Bytes, partCount
  <1>2. NumbersFit'
    BY DEF TilesInv, NumbersFit, partCount
  <1>3. CompletionsWhole'
    BY DEF TilesInv, CompletionsWhole, Tiles, Bytes
  <1>4. CompletedTiles'
    BY DEF TilesInv, CompletedTiles, Tiles, Bytes
  <1> QED BY <1>1, <1>2, <1>3, <1>4 DEF TilesInv

\* The steps of an attempt keep the invariant.
LEMMA StepTiles ==
    ASSUME UploadInv, TilesInv, NEW c \in Attempts, Step(c) \/ Die(c)
    PROVE  TilesInv'
  <1> USE DEF UploadInv, TypeOK
  <1>1. CASE Check(c)
    BY <1>1, SameTiles DEF Check, Goto, server, remote
  <1>2. CASE BeginUpload(c) \/ PutUploadPart(c) \/ AbortUpload(c) \/ GetUpload(c)
    <2>1. PICK r : r.op # "complete" /\ net' = net \cup {r}
      <3>1. CASE BeginUpload(c) BY <3>1 DEF BeginUpload, Send, Ask
      <3>2. CASE PutUploadPart(c) BY <3>2 DEF PutUploadPart, Send, Ask
      <3>3. CASE AbortUpload(c) BY <3>3 DEF AbortUpload, Send, Ask
      <3>4. CASE GetUpload(c) BY <3>4 DEF GetUpload, Send, Ask
      <3> QED BY <1>2, <3>1, <3>2, <3>3, <3>4
    <2>2. UNCHANGED <<session, stored, pc, size, offset, parts>>
      BY <1>2 DEF BeginUpload, PutUploadPart, AbortUpload, GetUpload, Send, server, attempt
    <2> QED BY <2>1, <2>2, SameTiles
  <1>3. CASE \/ Begun(c) \/ AlreadyKnown(c) \/ BeginFailed(c) \/ Completed(c) \/ PartsFailed(c)
             \/ Aborted(c) \/ Ready(c) \/ Pending(c) \/ WaitFailed(c) \/ TimedOut(c) \/ Die(c)
    <2>1. UNCHANGED <<session, stored, net, size, offset, parts>>
      BY <1>3
      DEF Begun, AlreadyKnown, BeginFailed, Completed, PartsFailed, Aborted, Ready, Pending,
          WaitFailed, TimedOut, Expire, Die, Succeeds, Fails, Told, Refused, HangUp, server, attempt
    <2>2. \A d \in Attempts : pc'[d] \in {"begin", "parts"} => pc[d] \in {"begin", "parts"}
      BY <1>3
      DEF Begun, AlreadyKnown, BeginFailed, Completed, PartsFailed, Aborted, Ready, Pending,
          WaitFailed, TimedOut, Die, Succeeds, Goto, attempt
    <2> QED BY <2>1, <2>2, SameTiles
  <1>4. CASE PartPut(c)
    <2>1. /\ UNCHANGED <<session, stored, net, pc, size>>
          /\ \A d \in Attempts \ {c} : parts'[d] = parts[d] /\ offset'[d] = offset[d]
      BY <1>4 DEF PartPut, Succeeds, Told, HangUp, server
    <2>2. \A d \in Attempts : Cut(d)
      BY DEF TilesInv, CutsInOrder, Cut
    <2>3. \A d \in Attempts \ {c} : Cut(d)'
      BY <2>1, <2>2 DEF Cut, Bytes, partCount
    <2>4. Cut(c)'
      BY <1>4, <2>2, NextCut
    <2>5. CutsInOrder'
      BY <2>3, <2>4 DEF CutsInOrder, Cut
    <2>6. NumbersFit' /\ CompletionsWhole' /\ CompletedTiles'
      BY <2>1 DEF TilesInv, NumbersFit, CompletionsWhole, CompletedTiles, Tiles, Bytes, partCount
    <2> QED BY <2>5, <2>6 DEF TilesInv
  <1>5. CASE CompleteUpload(c)
    <2> DEFINE q == [from |-> c, op |-> "complete", parts |-> parts[c]]
    <2>1. /\ net' = net \cup {q} /\ pc[c] = "parts" /\ offset[c] >= size[c]
          /\ UNCHANGED <<session, stored, pc, size, offset, parts>>
      BY <1>5 DEF CompleteUpload, Send, Ask, server, attempt
    <2>2. Tiles(parts[c], size[c])
      BY <2>1, AllCut DEF TilesInv, CutsInOrder, Cut, NumbersFit
    <2>3. CompletionsWhole'
      BY <2>1, <2>2 DEF TilesInv, CompletionsWhole, Tiles, Bytes
    <2>4. CutsInOrder' /\ NumbersFit' /\ CompletedTiles'
      BY <2>1 DEF TilesInv, CutsInOrder, NumbersFit, CompletedTiles, Tiles, Bytes, partCount
    <2> QED BY <2>3, <2>4 DEF TilesInv
  <1> QED BY <1>1, <1>2, <1>3, <1>4, <1>5 DEF Step

\* So do those of the server: it completes a session with what it was told.
LEMMA ServerTiles ==
    ASSUME UploadInv, TilesInv, NEW r \in net, Handle(r) \/ Refuse(r) \/ Vanish(r)
    PROVE  TilesInv'
  <1> USE DEF UploadInv, TypeOK
  <1>1. r.from \in Attempts
    BY Constants DEF RemoteTypeOK
  <1>2. net' \subseteq net /\ UNCHANGED <<pc, size, offset, parts>>
    BY DEF Handle, HandleBegin, HandlePut, HandleComplete, HandleGet, HandleAbort, Refuse, Vanish,
           Answer, Lose, attempt
  <1>3. CASE HandleComplete(r)
    <2>1. PICK s \in {"completed", "ready", "failed"} : session' = [session EXCEPT ![r.from] = s]
      BY <1>3 DEF HandleComplete
    <2>2. r.op = "complete" /\ stored' = [stored EXCEPT ![r.from] = r.parts]
      BY <1>3 DEF HandleComplete
    <2>3. Tiles(stored'[r.from], size[r.from])
      BY <1>1, <2>2 DEF TilesInv, CompletionsWhole
    <2>4. CompletedTiles'
      BY <1>1, <1>2, <2>1, <2>2, <2>3 DEF TilesInv, CompletedTiles, Tiles, Bytes
    <2>5. CutsInOrder' /\ NumbersFit' /\ CompletionsWhole'
      BY <1>2 DEF TilesInv, CutsInOrder, NumbersFit, CompletionsWhole, Tiles, Bytes, partCount
    <2> QED BY <2>4, <2>5 DEF TilesInv
  <1>4. CASE ~HandleComplete(r)
    <2>1. \A c \in Attempts : session'[c] \in {"completed", "ready"} =>
              session[c] \in {"completed", "ready"} /\ stored'[c] = stored[c]
      BY <1>1, <1>4
      DEF Handle, HandleBegin, HandlePut, HandleGet, HandleAbort, Refuse, Vanish, server
    <2> QED BY <1>2, <2>1, SameTiles
  <1> QED BY <1>3, <1>4

LEMMA TilesNext == UploadInv /\ TilesInv /\ [Next]_vars => TilesInv'
  <1> SUFFICES ASSUME UploadInv, TilesInv, [Next]_vars PROVE TilesInv'
    OBVIOUS
  <1>1. ASSUME NEW c \in Attempts, Ingest(c) PROVE TilesInv'
    <2>1. UNCHANGED <<stored, net, pc, size, offset, parts>>
      BY <1>1 DEF Ingest, attempt, remote
    <2>2. \A d \in Attempts : session'[d] \in {"completed", "ready"} =>
              session[d] \in {"completed", "ready"}
      BY <1>1 DEF Ingest, UploadInv, TypeOK
    <2> QED BY <2>1, <2>2, SameTiles
  <1>2. CASE UNCHANGED vars
    BY <1>2, SameTiles DEF vars, server, attempt, remote
  <1> QED BY <1>1, <1>2, StepTiles, ServerTiles DEF Next

LEMMA TilesInit == Init => TilesInv
  <1> SUFFICES ASSUME Init PROVE TilesInv
    OBVIOUS
  <1>1. NumbersFit /\ CompletionsWhole /\ CompletedTiles
    BY DEF Init, RemoteInit, NumbersFit, CompletionsWhole, CompletedTiles
  <1>2. \A c \in Attempts : /\ Cardinality(parts[c]) = 0 /\ parts[c] = {} /\ offset[c] = 0
                            /\ size[c] \in Nat \ {0} /\ partCount(size[c]) >= 0
    <2>1. \A c \in Attempts : parts[c] = {} /\ offset[c] = 0 /\ size[c] \in Nat \ {0}
      BY Constants DEF Init
    <2>2. \A b \in Nat : partCount(b) >= 0
      BY Constants DEF partCount
    <2> QED BY <2>1, <2>2, FS_EmptySet
  <1>3. CutsInOrder
    <2>1. 1..0 = {} /\ 0 = 0 * PartSize
      BY Constants
    <2>2. ASSUME NEW c \in Attempts
          PROVE  /\ {p.number : p \in parts[c]} = {} /\ UNION {Bytes(p) : p \in parts[c]} = {}
                 /\ offset[c] <= size[c] /\ Cardinality(parts[c]) <= partCount(size[c])
      BY <1>2
    <2>3. ASSUME NEW c \in Attempts PROVE Cut(c)
      BY <1>2, <2>1, <2>2 DEF Cut
    <2> QED BY <2>3 DEF CutsInOrder, Cut
  <1> QED BY <1>1, <1>3 DEF TilesInv

\* A completed session holds all bytes of the artifact, cut into consecutive parts
\* of the configured size whose numbers imgsrv takes (putParts, partCount).
THEOREM CompletedSessionsTile == Spec => []CompletedTiles
  <1>1. TilesInv => CompletedTiles
    BY DEF TilesInv
  <1> QED BY <1>1, TilesInit, TilesNext, UploadInvariant, PTL DEF Spec
===============================================================================
