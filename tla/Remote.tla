-------------------------------- MODULE Remote --------------------------------
(***************************************************************************)
(* How the publisher of internal/publish talks to imgsrv: one blocking HTTP *)
(* call at a time per attempt.  An attempt may stop waiting for the answer  *)
(* (cancelled context, timeout, broken connection) while its request is     *)
(* still on its way; the server then handles it later, or never gets it.    *)
(***************************************************************************)
EXTENDS Naturals

CONSTANTS
    Attempts,  \* executions of a publisher operation
    None

VARIABLES
    net,       \* requests on their way, records with a field `from`
    call,      \* [Attempts -> the request it is waiting for, or None]
    answer,    \* [Attempts -> the answer to it, None until there is one]
    heard      \* [Attempts -> it heard the answer to all it asked]

remote == <<net, call, answer, heard>>

RemoteTypeOK(Requests, Answers) ==
    /\ net \subseteq Requests
    /\ call \in [Attempts -> Requests \cup {None}]
    /\ answer \in [Attempts -> Answers \cup {None}]
    /\ heard \in [Attempts -> BOOLEAN]

RemoteInit ==
    /\ net = {}
    /\ call = [c \in Attempts |-> None]
    /\ answer = [c \in Attempts |-> None]
    /\ heard = [c \in Attempts |-> TRUE]

\* The attempt sends a request and waits.
Ask(c, r) ==
    /\ call[c] = None
    /\ call' = [call EXCEPT ![c] = r]
    /\ answer' = [answer EXCEPT ![c] = None]
    /\ net' = net \cup {r}
    /\ UNCHANGED heard

HangUp(c) ==
    /\ call' = [call EXCEPT ![c] = None]
    /\ answer' = [answer EXCEPT ![c] = None]
    /\ UNCHANGED net

\* It hears an answer it takes for a success.
Told(c, good) ==
    /\ call[c] # None
    /\ answer[c] \in good
    /\ HangUp(c)
    /\ UNCHANGED heard

\* It hears another answer, or stops waiting.
Refused(c, good) ==
    /\ call[c] # None
    /\ \/ answer[c] \notin good \cup {None} /\ UNCHANGED heard
       \/ heard' = [heard EXCEPT ![c] = FALSE]
    /\ HangUp(c)

\* The server handles a request; the answer reaches an attempt still waiting.
Answer(r, a) ==
    /\ r \in net
    /\ net' = net \ {r}
    /\ answer' = IF call[r.from] = r THEN [answer EXCEPT ![r.from] = a] ELSE answer
    /\ UNCHANGED <<call, heard>>

\* A request never arrives.
Lose(r) ==
    /\ r \in net
    /\ net' = net \ {r}
    /\ UNCHANGED <<call, answer, heard>>
===============================================================================
