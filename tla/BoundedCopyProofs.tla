--------------------------- MODULE BoundedCopyProofs ---------------------------
(***************************************************************************)
(* What a download accepts and how much it writes, for every size of the    *)
(* catalog, cap, body and integer width.                                    *)
(***************************************************************************)
EXTENDS BoundedCopy, TLAPS

\* The counters and the lengths are numbers of the machine.
CopyTypes ==
    /\ expected \in 0..MaxInt /\ cap \in 0..(MaxInt - 1) /\ body \in 0..MaxInt
    /\ copied \in 0..body
    /\ pc \in {"copy", "accepted", "refused"}

CopyInv == CopyTypes /\ LimitKept /\ AcceptsWhole

\* The limit of a download, where it has one, is within the machine's numbers.
LEMMA LimitRange ==
    ASSUME CopyTypes
    PROVE  downloadLimit(expected, cap) \in 0..MaxInt
  BY BufferAssumption DEF CopyTypes, downloadLimit

\* The invariant holds initially.
LEMMA CopyInit == Init => CopyInv
  <1> SUFFICES ASSUME Init PROVE CopyInv
    OBVIOUS
  <1>1. CopyTypes
    BY SizesAssumption, BufferAssumption DEF Init, CopyTypes
  <1> DEFINE limit == downloadLimit(expected, cap)
  <1>2. limit \in 0..MaxInt /\ left = limitedBody(limit) /\ copied = 0
    BY <1>1, LimitRange DEF Init
  <1> HIDE DEF limit
  <1>3. limit # 0 => left = Plus(limit, 1)
    BY <1>2 DEF limitedBody
  <1>4. limit # 0 /\ limit < MaxInt => left = limit + 1
    BY <1>2, <1>3, BufferAssumption DEF Plus
  <1>5. limit # 0 /\ limit >= MaxInt => left = -MaxInt - 1
    BY <1>2, <1>3, BufferAssumption DEF Plus
  <1>6. limit = 0 => left = None
    BY <1>2 DEF limitedBody
  <1>7. LimitKept
    BY <1>2, <1>4, <1>5, <1>6, BufferAssumption DEF LimitKept, limit
  <1> QED BY <1>1, <1>7 DEF Init, CopyInv, AcceptsWhole

\* A read takes from the limit what it adds to the file.
LEMMA ReadKeeps == CopyInv /\ Read => CopyInv'
  <1> SUFFICES ASSUME CopyInv, Read PROVE CopyInv'
    OBVIOUS
  <1> USE DEF CopyInv
  <1>0. copied \in Nat /\ body \in Nat /\ body - copied \in Nat \ {0} /\ Buffer \in Nat \ {0}
    BY BufferAssumption DEF CopyTypes, Read
  <1>1. PICK k \in 1..Least(Buffer, body - copied) :
            /\ left # None => k <= left
            /\ copied' = copied + k
            /\ left' = IF left = None THEN None ELSE left - k
    BY DEF Read
  <1>2. k \in Nat \ {0} /\ k <= body - copied
    BY <1>0, <1>1 DEF Least
  <1>3. UNCHANGED <<expected, pinned, cap, body, pc>> /\ pc = "copy" /\ ~Exhausted
    BY DEF Read
  <1>4. CopyTypes'
    BY <1>0, <1>1, <1>2, <1>3 DEF CopyTypes
  <1> DEFINE limit == downloadLimit(expected, cap)
  <1>5. limit \in Nat /\ limit' = limit
    BY <1>3, LimitRange, BufferAssumption DEF downloadLimit
  <1> HIDE DEF limit
  <1>6. LimitKept'
    <2>1. CASE limit = 0
      <3>1. left = None
        BY <2>1 DEF LimitKept, limit
      <3> QED BY <1>1, <1>5, <2>1, <3>1 DEF LimitKept, limit
    <2>2. CASE limit # 0 /\ limit < MaxInt
      <3>1. left \in Nat /\ left + copied = limit + 1 /\ left # None
        BY <2>2, NoneAssumption DEF LimitKept, limit
      <3>2. left' \in Nat /\ left' + copied' = limit + 1
        BY <1>0, <1>1, <1>2, <1>5, <3>1
      <3> QED BY <1>5, <2>2, <3>2, BufferAssumption DEF LimitKept, limit
    <2>3. CASE limit # 0 /\ limit >= MaxInt
      <3>1. left \in Int /\ left < 0 /\ left # None
        BY <2>3, NoneAssumption DEF LimitKept, limit
      <3> QED BY <1>3, <3>1 DEF Exhausted
    <2> QED BY <1>5, <2>1, <2>2, <2>3, BufferAssumption
  <1>7. AcceptsWhole'
    BY <1>3 DEF AcceptsWhole
  <1> QED BY <1>4, <1>6, <1>7

\* What the checks accept at the end of the copy is the whole body.
LEMMA EndKeeps == CopyInv /\ EndOfFile => CopyInv'
  <1> SUFFICES ASSUME CopyInv, EndOfFile PROVE CopyInv'
    OBVIOUS
  <1> USE DEF CopyInv
  <1>1. /\ UNCHANGED <<expected, pinned, cap, body, left, copied>>
        /\ Exhausted \/ copied = body
        /\ pc' = IF Accepted THEN "accepted" ELSE "refused"
    BY DEF EndOfFile
  <1>2. CopyTypes' /\ LimitKept'
    BY <1>1 DEF CopyTypes, LimitKept
  <1>3. ASSUME Accepted, Exhausted PROVE FALSE
    <2>1. CASE downloadLimit(expected, cap) = 0
      BY <1>3, <2>1 DEF LimitKept, Exhausted
    <2>2. CASE downloadLimit(expected, cap) # 0 /\ downloadLimit(expected, cap) < MaxInt
      <3>1. left = 0
        BY <1>3, <2>2 DEF LimitKept, Exhausted
      <3>2. copied = downloadLimit(expected, cap) + 1
        BY <2>2, <3>1 DEF LimitKept, CopyTypes
      <3> QED BY <1>3, <2>2, <3>2, BufferAssumption DEF Accepted, downloadLimit, CopyTypes
    <2>3. CASE downloadLimit(expected, cap) # 0 /\ downloadLimit(expected, cap) >= MaxInt
      <3>1. copied = 0
        BY <2>3 DEF LimitKept
      <3>2. expected # 0
        BY <2>3, BufferAssumption DEF downloadLimit, CopyTypes
      <3> QED BY <1>3, <3>1, <3>2 DEF Accepted
    <2> QED BY <2>1, <2>2, <2>3, LimitRange, BufferAssumption
  <1>4. AcceptsWhole'
    <2>1. pc' = "accepted" => Accepted /\ copied = body
      BY <1>1, <1>3
    <2> QED BY <1>1, <2>1 DEF AcceptsWhole, Accepted
  <1> QED BY <1>2, <1>4

\* Every step keeps the invariant.
LEMMA CopyNext == CopyInv /\ [Next]_vars => CopyInv'
  <1> SUFFICES ASSUME CopyInv, [Next]_vars PROVE CopyInv'
    OBVIOUS
  <1>1. CASE CopyFails
    BY <1>1 DEF CopyInv, CopyFails, CopyTypes, LimitKept, AcceptsWhole
  <1>2. CASE UNCHANGED vars
    BY <1>2 DEF CopyInv, vars, CopyTypes, LimitKept, AcceptsWhole
  <1> QED BY <1>1, <1>2, ReadKeeps, EndKeeps DEF Next

\* The invariant bounds what is written.
LEMMA InvBounds == CopyInv => CopiesBounded
  <1> SUFFICES ASSUME CopyInv PROVE CopiesBounded
    OBVIOUS
  <1>1. /\ downloadLimit(expected, cap) \in 0..MaxInt
        /\ copied \in Nat /\ expected \in 0..MaxInt /\ cap \in 0..(MaxInt - 1)
    BY LimitRange, BufferAssumption DEF CopyInv, CopyTypes
  <1>2. downloadLimit(expected, cap) # 0 => copied <= downloadLimit(expected, cap) + 1
    BY <1>1, BufferAssumption DEF CopyInv, LimitKept
  <1> QED BY <1>1, <1>2 DEF CopiesBounded, downloadLimit

\* Every reachable state satisfies the invariant.
THEOREM CopyInvariant == Spec => []CopyInv
  BY CopyInit, CopyNext, PTL DEF Spec

\* DiskStore.download: what it accepts is all the server sent, of the size the
\* catalog lists or within the cap.
THEOREM DownloadsAreWhole == Spec => []AcceptsWhole
  <1>1. CopyInv => AcceptsWhole
    BY DEF CopyInv
  <1> QED BY <1>1, CopyInvariant, PTL

\* DiskStore.download: at most one byte above the size it may have is written.
THEOREM DownloadsAreBounded == Spec => []CopiesBounded
  BY InvBounds, CopyInvariant, PTL

================================================================================
