------------------------------ MODULE BoundedCopy ------------------------------
(***************************************************************************)
(* How many bytes DiskStore.download takes from a server: io.Copy through   *)
(* limitedBody, read by read, in the arithmetic of int64, and the checks    *)
(* that follow.  DiskStore!Copy is this in one step.                        *)
(*                                                                         *)
(* Bytes are counted, not looked at: a digest is the length of the file it  *)
(* belongs to, of which the server sends a beginning, or more.              *)
(***************************************************************************)
EXTENDS Integers

CONSTANTS
    MaxInt,    \* math.MaxInt64
    Expected,  \* sizes the catalog may list: FetchRequest.ExpectedSize
    Caps,      \* values of DiskStore.maxUnknownSizeBytes, 0 = unbounded
    Bodies,    \* lengths of what the server sends
    Buffer,    \* size of io.Copy's buffer
    None       \* no digest expected

ASSUME BufferAssumption == MaxInt \in Nat /\ Buffer \in Nat \ {0}

\* normalizeFetchRequest refuses a negative size; a cap of MaxInt itself is not
\* a way to ask for an unbounded download (see README).
ASSUME SizesAssumption ==
    /\ Expected \subseteq 0..MaxInt
    /\ Caps \subseteq 0..(MaxInt - 1)
    /\ Bodies \subseteq 0..MaxInt

ASSUME NoneAssumption == None \notin Int

VARIABLES
    expected,  \* the request's size, 0 = unknown
    pinned,    \* the request's digest, or None
    cap,       \* the store's maxUnknownSizeBytes
    body,      \* length of the body
    left,      \* LimitedReader.N, or None where there is no such reader
    copied,    \* bytes written to the temp file
    pc

vars == <<expected, pinned, cap, body, left, copied, pc>>

\* int64 addition.
Plus(a, b) == IF a + b > MaxInt THEN a + b - 2 * (MaxInt + 1) ELSE a + b

\* Mutant: the size the catalog lists does not bound the download.
CapOnly(e, c) == c

downloadLimit(e, c) == IF e # 0 THEN e ELSE c

\* Mutant: the reader ends at the limit, not one byte after it.
ExactlyLimited(limit) == IF limit = 0 THEN None ELSE limit

\* limitedBody: an excess shows as one byte too many.
limitedBody(limit) == IF limit = 0 THEN None ELSE Plus(limit, 1)

Init ==
    /\ expected \in Expected /\ cap \in Caps /\ body \in Bodies
    /\ pinned \in Bodies \cup {None}
    /\ left = limitedBody(downloadLimit(expected, cap))
    /\ copied = 0
    /\ pc = "copy"

\* The limit is used up.
Exhausted == left # None /\ left <= 0

Least(a, b) == IF a < b THEN a ELSE b

\* One read of io.Copy: some of what the buffer, the limit and the body allow.
Read ==
    /\ pc = "copy" /\ ~Exhausted /\ copied < body
    /\ \E k \in 1..Least(Buffer, body - copied) :
        /\ left # None => k <= left
        /\ copied' = copied + k
        /\ left' = IF left = None THEN None ELSE left - k
    /\ UNCHANGED <<expected, pinned, cap, body, pc>>

\* The connection breaks, or the temp file cannot be written.
CopyFails ==
    /\ pc = "copy"
    /\ pc' = "refused"
    /\ UNCHANGED <<expected, pinned, cap, body, left, copied>>

\* The checks of download that follow the copy.
Accepted ==
    /\ expected # 0 => copied = expected
    /\ expected = 0 /\ cap # 0 => copied <= cap
    /\ pinned # None => copied = pinned

EndOfFile ==
    /\ pc = "copy" /\ (Exhausted \/ copied = body)
    /\ pc' = IF Accepted THEN "accepted" ELSE "refused"
    /\ UNCHANGED <<expected, pinned, cap, body, left, copied>>

Next == Read \/ CopyFails \/ EndOfFile

Spec == Init /\ [][Next]_vars

-----------------------------------------------------------------------------
(* The inductive invariant *)

\* What is left of the limit and what was copied make up the limit, and a limit
\* that overflowed lets nothing through.
LimitKept ==
    LET limit == downloadLimit(expected, cap) IN
    /\ limit = 0 => left = None
    /\ limit # 0 /\ limit < MaxInt => left \in Nat /\ left + copied = limit + 1
    /\ limit # 0 /\ limit >= MaxInt => left \in Int /\ left < 0 /\ copied = 0

-----------------------------------------------------------------------------
(* Properties *)

\* A download that is accepted is all the server sent, of the size the catalog
\* lists, or within the cap where it lists none: a body that is longer is never
\* cut to fit, digest or no digest, up to the largest sizes (limitedBody).
AcceptsWhole ==
    pc = "accepted" =>
        /\ copied = body
        /\ expected # 0 => body = expected
        /\ expected = 0 /\ cap # 0 => body <= cap

\* However much a server sends, no more than one byte above the size it may have
\* is ever written to the cache directory.
CopiesBounded ==
    /\ expected # 0 => copied <= expected + 1
    /\ expected = 0 /\ cap # 0 => copied <= cap + 1
===============================================================================
