-------------------------------- MODULE Upload --------------------------------
(***************************************************************************)
(* Uploader.UploadArtifact of internal/publish: one artifact goes to imgsrv *)
(* in parts through an upload session, which is completed and, with Wait,   *)
(* polled until the content store has ingested it.  Each attempt has its    *)
(* own session; attempts to upload the same content share the store.  An    *)
(* attempt may die, and talks to the server as module Remote says: the      *)
(* deadlines of waitReady and abortIncomplete also end a call in flight.    *)
(*                                                                         *)
(* The server is external.  It keeps the parts it is sent, names their      *)
(* numbers and sizes as they were sent, accepts a completion whose parts it *)
(* has, and checks the content afterwards.  A session that takes parts is   *)
(* the attempt's own.                                                       *)
(***************************************************************************)
EXTENDS Remote, FiniteSets

CONSTANTS
    PartSize,    \* Options.PartSizeBytes
    MaxParts,    \* maxPartNumber
    Sizes,       \* artifact sizes
    Wait         \* Options.Wait

ASSUME PartsAssumption == PartSize \in Nat \ {0} /\ MaxParts \in Nat
ASSUME SizesAssumption == Sizes \subseteq Nat \ {0}
ASSUME WaitAssumption == Wait \in BOOLEAN

VARIABLES
    \* the server
    session,   \* [Attempts -> state of the session the attempt began]
    stored,    \* [Attempts -> parts the session holds]
    known,     \* the content store has the content
    \* the attempts
    pc,        \* [Attempts -> stage of UploadArtifact]
    size,      \* [Attempts -> artifact.Size]
    fileSize,  \* [Attempts -> size of the file when it is opened]
    offset,    \* [Attempts -> offset of putParts]
    parts      \* [Attempts -> parts to complete the session with]

server  == <<session, stored, known>>
attempt == <<pc, size, fileSize, offset, parts>>
vars    == <<server, attempt, remote>>

Part     == [number : Nat \ {0}, size : Nat]
States   == {"none", "uploading", "completed", "ready", "failed", "aborted"}
Ops      == {"begin", "put", "complete", "abort", "get"}
Requests == [from : Attempts, op : Ops, parts : SUBSET Part]
Stages   == {"check", "begin", "parts", "abort", "wait", "ready", "completed",
             "refused", "failed", "aborted", "orphaned", "timedout", "dead"}
Answers  == States \cup {"error"}

ASSUME NoneAssumption == None \notin Requests \cup Answers

TypeOK ==
    /\ session \in [Attempts -> States]
    /\ stored \in [Attempts -> SUBSET Part]
    /\ known \in BOOLEAN
    /\ pc \in [Attempts -> Stages]
    /\ size \in [Attempts -> Sizes]
    /\ fileSize \in [Attempts -> Sizes]
    /\ offset \in [Attempts -> Nat]
    /\ parts \in [Attempts -> SUBSET Part]
    /\ RemoteTypeOK(Requests, Answers)

Init ==
    /\ session = [c \in Attempts |-> "none"]
    /\ stored = [c \in Attempts |-> {}]
    /\ known = FALSE
    /\ pc = [c \in Attempts |-> "check"]
    /\ size \in [Attempts -> Sizes]
    /\ fileSize \in [Attempts -> Sizes]
    /\ offset = [c \in Attempts |-> 0]
    /\ parts = [c \in Attempts |-> {}]
    /\ RemoteInit

-----------------------------------------------------------------------------
(* The server: an answer is the state of the session, or an error *)

\* Content that the store has may need no session, and an earlier session of it
\* that is over may be answered with instead of a new one.
HandleBegin(r) ==
    /\ r.op = "begin"
    /\ \/ /\ session' = [session EXCEPT ![r.from] = "uploading"]
          /\ Answer(r, "uploading")
       \/ /\ \E s \in {"ready", "failed", "aborted"} : (s = "ready" => known) /\ Answer(r, s)
          /\ UNCHANGED session
    /\ UNCHANGED <<stored, known, attempt>>

HandlePut(r) ==
    /\ r.op = "put"
    /\ session[r.from] = "uploading"
    /\ stored' = [stored EXCEPT ![r.from] = @ \cup r.parts]
    /\ Answer(r, "uploading")
    /\ UNCHANGED <<session, known, attempt>>

HandleComplete(r) ==
    /\ r.op = "complete"
    /\ session[r.from] = "uploading" /\ r.parts \subseteq stored[r.from]
    /\ \E s \in {"completed", "ready", "failed"} :
        /\ session' = [session EXCEPT ![r.from] = s]
        /\ known' = (known \/ s = "ready")
        /\ Answer(r, s)
    /\ stored' = [stored EXCEPT ![r.from] = r.parts]
    /\ UNCHANGED attempt

HandleGet(r) ==
    /\ r.op = "get"
    /\ Answer(r, session[r.from])
    /\ UNCHANGED <<server, attempt>>

\* A session is aborted in whatever state it is, until its content is ready.
HandleAbort(r) ==
    /\ r.op = "abort"
    /\ session[r.from] \in {"uploading", "completed"}
    /\ session' = [session EXCEPT ![r.from] = "aborted"]
    /\ Answer(r, "aborted")
    /\ UNCHANGED <<stored, known, attempt>>

Handle(r) ==
    HandleBegin(r) \/ HandlePut(r) \/ HandleComplete(r) \/ HandleGet(r) \/ HandleAbort(r)

\* A request fails on the server and changes nothing.
Refuse(r) == Answer(r, "error") /\ UNCHANGED <<server, attempt>>

\* A request never arrives.
Vanish(r) == Lose(r) /\ UNCHANGED <<server, attempt>>

\* The content of a completed session is checked and enters the store, or not.
Ingest(c) ==
    /\ session[c] = "completed"
    /\ \/ session' = [session EXCEPT ![c] = "ready"] /\ known' = TRUE
       \/ session' = [session EXCEPT ![c] = "failed"] /\ UNCHANGED known
    /\ UNCHANGED <<stored, attempt, remote>>

-----------------------------------------------------------------------------
(* The attempt *)

Goto(c, stage) == pc' = [pc EXCEPT ![c] = stage]

\* Mutant: the division rounds down.
wholeParts(bytes) == bytes \div PartSize

partCount(bytes) == (bytes + PartSize - 1) \div PartSize

\* Mutant: part numbers start at 0.
NextPartFromZero(c) ==
    [number |-> Cardinality(parts[c]),
     size   |-> IF size[c] - offset[c] < PartSize THEN size[c] - offset[c] ELSE PartSize]

\* The part at the offset: the number counts the iterations of putParts.
NextPart(c) ==
    [number |-> Cardinality(parts[c]) + 1,
     size   |-> IF size[c] - offset[c] < PartSize THEN size[c] - offset[c] ELSE PartSize]

\* One call of the upload API: it is sent, and it succeeds or fails.
Send(c, stage, op, ps) ==
    /\ pc[c] = stage
    /\ Ask(c, [from |-> c, op |-> op, parts |-> ps])
    /\ UNCHANGED <<server, attempt>>

Succeeds(c, stage, good) == pc[c] = stage /\ Told(c, good) /\ UNCHANGED server

Fails(c, stage, good) == pc[c] = stage /\ Refused(c, good) /\ UNCHANGED server

\* The checks before the first request: the part numbers, and the file's size.
Check(c) ==
    /\ pc[c] = "check"
    /\ IF partCount(size[c]) <= MaxParts /\ fileSize[c] = size[c]
       THEN Goto(c, "begin")
       ELSE Goto(c, "refused")
    /\ UNCHANGED <<server, size, fileSize, offset, parts, remote>>

BeginUpload(c) == Send(c, "begin", "begin", {})

\* A session in a state that is not terminal: its parts are put.
Begun(c) ==
    /\ Succeeds(c, "begin", {"uploading"})
    /\ Goto(c, "parts")
    /\ UNCHANGED <<size, fileSize, offset, parts>>

\* A session that is ready already.
AlreadyKnown(c) ==
    /\ Succeeds(c, "begin", {"ready"})
    /\ Goto(c, "ready")
    /\ UNCHANGED <<size, fileSize, offset, parts>>

\* No session, or one that failed or was aborted: nothing to abort.
BeginFailed(c) ==
    /\ Fails(c, "begin", {"uploading", "ready"})
    /\ Goto(c, "failed")
    /\ UNCHANGED <<size, fileSize, offset, parts>>

PutUploadPart(c) == offset[c] < size[c] /\ Send(c, "parts", "put", {NextPart(c)})

\* The part is named by the number and the size that the server gives it.
PartPut(c) ==
    /\ offset[c] < size[c]
    /\ Succeeds(c, "parts", {"uploading"})
    /\ parts' = [parts EXCEPT ![c] = @ \cup {NextPart(c)}]
    /\ offset' = [offset EXCEPT ![c] = @ + NextPart(c).size]
    /\ UNCHANGED <<pc, size, fileSize>>

CompleteUpload(c) == offset[c] >= size[c] /\ Send(c, "parts", "complete", parts[c])

\* Without Wait the session's state is not looked at; with it waitReady begins.
Completed(c) ==
    /\ offset[c] >= size[c]
    /\ \/ Succeeds(c, "parts", {"completed"}) /\ Goto(c, IF Wait THEN "wait" ELSE "completed")
       \/ Succeeds(c, "parts", {"ready"}) /\ Goto(c, IF Wait THEN "ready" ELSE "completed")
       \/ Succeeds(c, "parts", {"failed"}) /\ Goto(c, IF Wait THEN "failed" ELSE "completed")
    /\ UNCHANGED <<size, fileSize, offset, parts>>

\* Mutant: the session is left alone when a part fails.
PartsFailedUnaborted(c) ==
    /\ Fails(c, "parts", {"uploading", "completed", "ready", "failed"})
    /\ Goto(c, "failed")
    /\ UNCHANGED <<size, fileSize, offset, parts>>

\* A part or the completion failed: the session is aborted.
PartsFailed(c) ==
    /\ Fails(c, "parts", {"uploading", "completed", "ready", "failed"})
    /\ Goto(c, "abort")
    /\ UNCHANGED <<size, fileSize, offset, parts>>

\* abortIncomplete, with a context of its own.
AbortUpload(c) == Send(c, "abort", "abort", {})

Aborted(c) ==
    /\ \/ Succeeds(c, "abort", {"aborted"}) /\ Goto(c, "aborted")
       \/ Fails(c, "abort", {"aborted"}) /\ Goto(c, "orphaned")
    /\ UNCHANGED <<size, fileSize, offset, parts>>

\* waitReady: a tick of the ticker polls the session.
GetUpload(c) == Send(c, "wait", "get", {})

\* Mutant: a completed session passes for a ready one.
ReadyEarly(c) ==
    /\ Succeeds(c, "wait", {"completed", "ready"})
    /\ Goto(c, "ready")
    /\ UNCHANGED <<size, fileSize, offset, parts>>

Ready(c) ==
    /\ Succeeds(c, "wait", {"ready"})
    /\ Goto(c, "ready")
    /\ UNCHANGED <<size, fileSize, offset, parts>>

Pending(c) == Succeeds(c, "wait", {"completed"}) /\ UNCHANGED attempt

\* The session failed or was aborted, or the poll failed.
WaitFailed(c) ==
    /\ Fails(c, "wait", {"completed", "ready"})
    /\ Goto(c, "failed")
    /\ UNCHANGED <<size, fileSize, offset, parts>>

\* The deadline ends whatever the attempt waits for.
Expire(c) ==
    /\ pc[c] = "wait"
    /\ HangUp(c)
    /\ heard' = [heard EXCEPT ![c] = @ /\ call[c] = None]
    /\ UNCHANGED <<server, size, fileSize, offset, parts>>

\* Mutant: a session that is late is aborted.
TimedOutAborts(c) == Expire(c) /\ Goto(c, "abort")

\* Mutant: the time is looked at between polls only; a poll has no deadline.
TimedOutBetween(c) == call[c] = None /\ Expire(c) /\ Goto(c, "timedout")

\* The time is up, during a poll or between two.  The session is left as it is.
TimedOut(c) == Expire(c) /\ Goto(c, "timedout")

Over == {"ready", "completed", "refused", "failed", "aborted", "orphaned", "timedout",
         "dead"}

Die(c) ==
    /\ pc[c] \notin Over
    /\ Goto(c, "dead")
    /\ HangUp(c)
    /\ UNCHANGED <<server, size, fileSize, offset, parts, heard>>

Step(c) ==
    \/ Check(c)
    \/ BeginUpload(c) \/ Begun(c) \/ AlreadyKnown(c) \/ BeginFailed(c)
    \/ PutUploadPart(c) \/ PartPut(c)
    \/ CompleteUpload(c) \/ Completed(c) \/ PartsFailed(c)
    \/ AbortUpload(c) \/ Aborted(c)
    \/ GetUpload(c) \/ Ready(c) \/ Pending(c) \/ WaitFailed(c) \/ TimedOut(c)

Next ==
    \/ \E c \in Attempts : Step(c) \/ Die(c) \/ Ingest(c)
    \/ \E r \in net : Handle(r) \/ Refuse(r) \/ Vanish(r)

\* The runtime's timers fire, and a goroutine that can go on does.  Nothing is
\* assumed of the server or the network.
Fairness ==
    \A c \in Attempts :
        WF_vars(TimedOut(c)) /\ WF_vars(AbortUpload(c)) /\ WF_vars(Aborted(c))

Spec == Init /\ [][Next]_vars /\ Fairness

-----------------------------------------------------------------------------
(* Properties *)

\* The bytes of the file a part holds when all parts before it are full.
Bytes(p) == ((p.number - 1) * PartSize + 1) .. ((p.number - 1) * PartSize + p.size)

\* The parts cut a file of so many bytes into consecutive pieces: all but the
\* last have the configured size, and their numbers are within imgsrv's limit.
Tiles(ps, bytes) ==
    LET k == Cardinality(ps) IN
    /\ {p.number : p \in ps} = 1..k
    /\ k <= MaxParts
    /\ \A p \in ps : p.number < k => p.size = PartSize
    /\ UNION {Bytes(p) : p \in ps} = 1..bytes

\* A completed session holds exactly the artifact's bytes, part by part, however
\* the attempt went on after it sent the completion (putParts, partCount).
CompletedTiles ==
    \A c \in Attempts :
        session[c] \in {"completed", "ready"} => Tiles(stored[c], size[c])

\* An attempt that returns leaves no session open on the server, unless it never
\* heard of the session or could not reach the server to abort it.
NoSessionLeft ==
    \A c \in Attempts :
        (pc[c] \in Over \ {"dead", "orphaned"} /\ (pc[c] = "failed" => heard[c]))
        => session[c] # "uploading"

\* A completed session is aborted only by an attempt that did not hear of the
\* completion: one that waits too long leaves it alone, so that the content may
\* still become ready for a retry (abortIncomplete, waitReady).
CompletedKept ==
    [][ \A c \in Attempts :
            session[c] = "completed" /\ heard[c] => session'[c] # "aborted" ]_vars

\* Waiting for the content and aborting a session both end, even if no request is
\* ever answered: every call in them is made under a deadline (waitReady,
\* abortIncomplete).
WaitsEnd == \A c \in Attempts : pc[c] \in {"wait", "abort"} ~> pc[c] \in Over

\* "Ready" is only reported of content that the store has: what PublishRelease
\* relies on before it lists the artifact in a version.
ReadyIsKnown == \A c \in Attempts : pc[c] = "ready" => known

-----------------------------------------------------------------------------
(* The inductive invariant behind the properties *)

\* The requests each stage makes.
Asks == { <<"begin", "begin">>, <<"parts", "put">>, <<"parts", "complete">>,
          <<"abort", "abort">>, <<"wait", "get">> }

\* An attempt waits for a request of its stage, and has an answer only to that.
CallsMatch ==
    \A c \in Attempts :
        /\ call[c] # None => call[c].from = c /\ <<pc[c], call[c].op>> \in Asks
        /\ call[c] = None => answer[c] = None
        /\ call[c] \in net => answer[c] = None

\* An attempt that heard every answer has no other request on its way.
Hears ==
    \A c \in Attempts : heard[c] /\ pc[c] # "dead" =>
        \A r \in net : r.from = c => call[c] = r

\* A request of the attempt is on its way.
Sent(c, op) == \E r \in net : r.from = c /\ r.op = op

\* No session is begun late but by an attempt that gave up on it, and nothing is
\* asked of a session before it is begun.
Begins ==
    \A c \in Attempts :
        /\ Sent(c, "begin") =>
            pc[c] = "begin" \/ pc[c] = "dead" \/ (pc[c] = "failed" /\ ~heard[c])
        /\ \A r \in net : r.from = c /\ r.op # "begin" => pc[c] \notin {"check", "begin", "refused"}
        /\ pc[c] \in {"check", "begin", "refused"} => heard[c]

\* What each stage and answer says of the session.
Opened ==
    \A c \in Attempts :
        /\ pc[c] \in {"check", "refused"} => session[c] = "none"
        /\ pc[c] = "begin" =>
            session[c] = "none" \/ (session[c] = "uploading" /\ answer[c] = "uploading")
        /\ pc[c] \in {"wait", "completed", "timedout"} => session[c] # "uploading"
        /\ answer[c] \in {"completed", "ready", "failed", "aborted"} => session[c] # "uploading"

\* No abort is on its way, nor made, by an attempt that heard of the completion.
Kept ==
    \A c \in Attempts : heard[c] =>
        /\ Sent(c, "abort") => session[c] # "completed" /\ ~Sent(c, "complete")
        /\ pc[c] = "abort" => session[c] # "completed"
        /\ pc[c] = "parts" /\ session[c] = "completed" => answer[c] = "completed"

\* Where "ready" is said, the store has the content.
Known == \A c \in Attempts : "ready" \in {session[c], answer[c], pc[c]} => known

UploadInv ==
    /\ TypeOK /\ (\A c \in Attempts : IsFiniteSet(parts[c]))
    /\ CallsMatch /\ Hears /\ Begins /\ Opened /\ Kept /\ Known
    /\ NoSessionLeft

-----------------------------------------------------------------------------
(* The inductive invariant behind CompletedTiles *)

\* The parts put so far are consecutive pieces of the file, from its start to the
\* offset, and full as long as the file is not at its end.
CutsInOrder ==
    \A c \in Attempts :
        LET k == Cardinality(parts[c]) IN
        /\ {p.number : p \in parts[c]} = 1..k
        /\ \A p \in parts[c] : p.number < k \/ offset[c] < size[c] => p.size = PartSize
        /\ UNION {Bytes(p) : p \in parts[c]} = 1..offset[c]
        /\ offset[c] <= size[c]
        /\ offset[c] < size[c] => offset[c] = k * PartSize
        /\ k <= partCount(size[c])

\* Only an artifact whose parts can all be numbered gets as far as a session.
NumbersFit ==
    \A c \in Attempts : pc[c] \in {"begin", "parts"} => partCount(size[c]) <= MaxParts

\* A completion on its way names all parts of the artifact.
CompletionsWhole ==
    \A r \in net : r.op = "complete" => Tiles(r.parts, size[r.from])

TilesInv == CutsInOrder /\ NumbersFit /\ CompletionsWhole /\ CompletedTiles
===============================================================================
