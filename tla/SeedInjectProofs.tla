--------------------------- MODULE SeedInjectProofs ---------------------------
(***************************************************************************)
(* What InjectSeed writes, for every source, seed, layout and buffer.       *)
(***************************************************************************)
EXTENDS SeedInject, TLAPS

InjectInv == TypeOK /\ Agrees /\ InStep /\ OutputExact

\* Concatenation, for sequences of bytes.
LEMMA ConcatBytes ==
    ASSUME NEW a \in Seq(Int), NEW b \in Seq(Int)
    PROVE  /\ a \o b \in Seq(Int) /\ Len(a \o b) = Len(a) + Len(b)
           /\ \A k \in 1..Len(a) : (a \o b)[k] = a[k]
           /\ \A k \in 1..Len(b) : (a \o b)[Len(a) + k] = b[k]
  <1> Len(a) \in Nat /\ Len(b) \in Nat
    OBVIOUS
  <1>1. a \o b \in Seq(Int)
    OBVIOUS
  <1>2. Len(a \o b) = Len(a) + Len(b)
    OBVIOUS
  <1>3. ASSUME NEW k \in 1..Len(a) PROVE (a \o b)[k] = a[k]
    BY <1>3
  <1>4. ASSUME NEW k \in 1..Len(b) PROVE (a \o b)[Len(a) + k] = b[k]
    BY <1>4
  <1> QED BY <1>1, <1>2, <1>3, <1>4

\* A chunk is a sequence of the source bytes that come next.
LEMMA ChunkBytes ==
    ASSUME pos \in Nat, NEW r \in Nat
    PROVE  /\ Chunk(r) \in Seq(Int) /\ Len(Chunk(r)) = r
           /\ \A k \in 1..r : Chunk(r)[k] = pos + k
  BY DEF Chunk

\* Appending a chunk to bytes that agree and are as many as were read keeps both.
LEMMA AppendChunk ==
    ASSUME TypeOK, Agrees, Len(temp) = pos, NEW r \in Nat,
           pos + r <= Offset \/ pos >= Offset + seedLen
    PROVE  LET t == temp \o Chunk(r) IN
           /\ t \in Seq(Int) /\ Len(t) = pos + r
           /\ \A k \in DOMAIN t : t[k] = Wanted(k)
  <1>1. /\ temp \in Seq(Int) /\ pos \in Nat /\ seedLen \in Nat /\ Offset \in Nat
    BY LengthsAssumption, LayoutAssumption DEF TypeOK
  <1>2. /\ Chunk(r) \in Seq(Int) /\ Len(Chunk(r)) = r
        /\ \A k \in 1..r : Chunk(r)[k] = pos + k
    BY <1>1, ChunkBytes
  <1> DEFINE t == temp \o Chunk(r)
  <1>3. t \in Seq(Int) /\ Len(t) = pos + r
    BY <1>1, <1>2
  <1>4. ASSUME NEW k \in 1..(pos + r) PROVE t[k] = Wanted(k)
    <2>0. k \in Int
      BY <1>1
    <2>1. CASE k <= pos
      BY <1>1, <1>2, <2>1 DEF Agrees
    <2>2. CASE k > pos
      <3>1. t[k] = Chunk(r)[k - pos] /\ k - pos \in 1..r
        BY <1>1, <1>2, <2>2
      <3>2. t[k] = k
        BY <1>1, <1>2, <3>1
      <3>3. Wanted(k) = k
        BY <1>1, <2>2 DEF Wanted
      <3> QED BY <3>2, <3>3
    <2>3. k <= pos \/ k > pos
      BY <1>1, <2>0
    <2> HIDE DEF t
    <2> QED BY <2>1, <2>2, <2>3
  <1> QED BY <1>1, <1>3, <1>4

LEMMA InjectInvInit == Init => InjectInv
  BY LengthsAssumption, LayoutAssumption
  DEF Init, InjectInv, TypeOK, Agrees, InStep, OutputExact

\* A round reads at most what is left and stays within the source.
LEMMA ReadBounds ==
    ASSUME TypeOK, NEW most \in Nat, NEW r \in 0..Buffer, NEW eof \in BOOLEAN, Read(most, r, eof)
    PROVE  /\ r \in Nat /\ r <= most
           /\ pos' = pos + r /\ pos' \in 0..length
           /\ eof => pos' = length
  BY LengthsAssumption, LayoutAssumption DEF TypeOK, Read

LEMMA InjectInvNext == InjectInv /\ [Next]_vars => InjectInv'
  <1> SUFFICES ASSUME InjectInv, [Next]_vars PROVE InjectInv'
    OBVIOUS
  <1> USE DEF InjectInv
  <1>0. /\ pos \in Nat /\ left \in Nat /\ seedLen \in Nat /\ length \in Nat
        /\ Offset \in Nat /\ Buffer \in Nat /\ temp \in Seq(Int)
    BY LengthsAssumption, LayoutAssumption DEF TypeOK
  <1>1. CASE Validate
    <2>1. /\ pc = "validate" /\ UNCHANGED <<input, pos, temp, output>>
          /\ \/ pc' = "prefix" /\ left' = Offset
             \/ pc' = "error" /\ left' = left
      BY <1>1 DEF Validate
    <2>2. temp = <<>> /\ pos = 0
      BY <2>1 DEF InStep
    <2>3. TypeOK'
      BY <1>0, <2>1 DEF TypeOK, input
    <2>4. Agrees'
      BY <2>1 DEF Agrees, Wanted, input
    <2>5. InStep'
      BY <1>0, <2>1, <2>2 DEF InStep, input
    <2> QED BY <2>1, <2>3, <2>4, <2>5 DEF OutputExact
  <1>2. CASE CopyPrefix
    <2>1. PICK r \in 0..Buffer, eof \in BOOLEAN :
            Round("prefix", "seed", r, eof) /\ temp' = temp \o Chunk(r)
      BY <1>2 DEF CopyPrefix
    <2>2. /\ pc = "prefix" /\ left' = left - r /\ UNCHANGED <<input, output>>
          /\ r \in Nat /\ r <= left /\ pos' = pos + r /\ pos' \in 0..length
          /\ pc' \in {"prefix", "seed", "error"}
          /\ pc' = "seed" => left' = 0
      BY <1>0, <2>1, ReadBounds DEF Round
    <2>3. Len(temp) = pos /\ pos + left = Offset
      BY <2>2 DEF InStep
    <2>4. /\ temp' \in Seq(Int) /\ Len(temp') = pos + r
          /\ \A k \in DOMAIN temp' : temp'[k] = Wanted(k)
      BY <1>0, <2>1, <2>2, <2>3, AppendChunk
    <2>5. TypeOK'
      BY <1>0, <2>2, <2>4 DEF TypeOK, input
    <2>6. Agrees'
      BY <2>2, <2>4 DEF Agrees, Wanted, input
    <2>7. InStep'
      <3>1. CASE pc' = "prefix"
        BY <1>0, <2>2, <2>3, <2>4, <3>1 DEF InStep, input
      <3>2. CASE pc' = "seed"
        BY <1>0, <2>2, <2>3, <2>4, <3>2 DEF InStep, input
      <3>3. CASE pc' = "error"
        BY <3>3 DEF InStep
      <3> QED BY <2>2, <3>1, <3>2, <3>3
    <2> QED BY <2>2, <2>5, <2>6, <2>7 DEF OutputExact
  <1>3. CASE WriteSeed
    <2>1. /\ pc = "seed" /\ pc' = "discard" /\ temp' = temp \o seed /\ left' = seedLen
          /\ UNCHANGED <<input, pos, output>>
      BY <1>3 DEF WriteSeed
    <2>2. Len(temp) = Offset /\ pos = Offset
      BY <2>1 DEF InStep
    <2>3. seed \in Seq(Int) /\ Len(seed) = seedLen /\ \A k \in 1..seedLen : seed[k] = -k
      BY <1>0 DEF seed
    <2>4. temp' \in Seq(Int) /\ Len(temp') = Offset + seedLen
      <3>1. temp \o seed \in Seq(Int) /\ Len(temp \o seed) = Len(temp) + Len(seed)
        BY <1>0, <2>3, ConcatBytes
      <3> QED BY <2>1, <2>2, <2>3, <3>1
    <2>5. ASSUME NEW k \in 1..(Offset + seedLen) PROVE temp'[k] = Wanted(k)
      <3>0. k \in Int
        BY <1>0
      <3>1. CASE k <= Offset
        <4>1. k \in 1..Len(temp) /\ k \in DOMAIN temp
          BY <1>0, <2>2, <3>0, <3>1
        <4>2. temp'[k] = temp[k]
          BY <1>0, <2>1, <2>3, <4>1, ConcatBytes
        <4> QED BY <4>1, <4>2 DEF Agrees
      <3>2. CASE k > Offset
        <4>1. k - Offset \in 1..Len(seed) /\ k = Len(temp) + (k - Offset)
          BY <1>0, <2>2, <2>3, <3>0, <3>2
        <4>2. temp'[k] = seed[k - Offset]
          BY <1>0, <2>1, <2>3, <4>1, ConcatBytes
        <4> QED BY <1>0, <2>3, <3>0, <3>2, <4>1, <4>2 DEF Wanted
      <3> QED BY <1>0, <3>0, <3>1, <3>2
    <2>6. TypeOK'
      BY <1>0, <2>1, <2>4 DEF TypeOK, input
    <2>7. Agrees'
      BY <1>0, <2>1, <2>4, <2>5 DEF Agrees, Wanted, input
    <2>8. InStep'
      BY <1>0, <2>1, <2>2, <2>4 DEF InStep, input
    <2> QED BY <2>1, <2>6, <2>7, <2>8 DEF OutputExact
  <1>4. CASE DiscardSpan
    <2>1. PICK r \in 0..Buffer, eof \in BOOLEAN :
            Round("discard", "suffix", r, eof) /\ UNCHANGED temp
      BY <1>4 DEF DiscardSpan
    <2>2. /\ pc = "discard" /\ left' = left - r /\ UNCHANGED <<input, output, temp>>
          /\ r \in Nat /\ r <= left /\ pos' = pos + r /\ pos' \in 0..length
          /\ pc' \in {"discard", "suffix", "error"}
          /\ pc' = "suffix" => left' = 0
      BY <1>0, <2>1, ReadBounds DEF Round
    <2>3. TypeOK'
      BY <1>0, <2>2 DEF TypeOK, input
    <2>4. Agrees'
      BY <2>2 DEF Agrees, Wanted, input
    <2>5. InStep'
      <3>1. CASE pc' = "discard"
        BY <1>0, <2>2, <3>1 DEF InStep, input
      <3>2. CASE pc' = "suffix"
        BY <1>0, <2>2, <3>2 DEF InStep, input
      <3>3. CASE pc' = "error"
        BY <3>3 DEF InStep
      <3> QED BY <2>2, <3>1, <3>2, <3>3
    <2> QED BY <2>2, <2>3, <2>4, <2>5 DEF OutputExact
  <1>5. CASE CopySuffix
    <2>1. PICK r \in 0..Buffer, eof \in BOOLEAN :
            /\ pc = "suffix"
            /\ Read(Buffer, r, eof)
            /\ temp' = temp \o Chunk(r)
            /\ IF eof THEN pc' = "rename" ELSE UNCHANGED pc
            /\ UNCHANGED <<input, left, output>>
      BY <1>5 DEF CopySuffix
    <2>2. /\ r \in Nat /\ pos' = pos + r /\ pos' \in 0..length
          /\ pc' \in {"suffix", "rename"}
          /\ pc' = "rename" => pos' = length
      BY <1>0, <2>1, ReadBounds
    <2>3. Len(temp) = pos /\ pos >= Offset + seedLen
      BY <2>1 DEF InStep
    <2>4. /\ temp' \in Seq(Int) /\ Len(temp') = pos + r
          /\ \A k \in DOMAIN temp' : temp'[k] = Wanted(k)
      BY <1>0, <2>1, <2>2, <2>3, AppendChunk
    <2>5. TypeOK'
      BY <1>0, <2>1, <2>2, <2>4 DEF TypeOK, input
    <2>6. Agrees'
      BY <2>1, <2>4 DEF Agrees, Wanted, input
    <2>7. InStep'
      BY <1>0, <2>1, <2>2, <2>3, <2>4 DEF InStep, input
    <2> QED BY <2>2, <2>5, <2>6, <2>7 DEF OutputExact
  <1>6. CASE Rename
    <2>1. /\ pc = "rename" /\ pc' = "done" /\ output' = [bytes |-> temp, gzip |-> gzName]
          /\ UNCHANGED <<input, pos, left, temp>>
      BY <1>6 DEF Rename
    <2>2. Len(temp) = length /\ length >= Offset + seedLen
      BY <2>1 DEF InStep
    <2>3. temp = [k \in 1..length |-> Wanted(k)]
      BY <1>0, <2>2 DEF Agrees
    <2>4. TypeOK'
      BY <1>0, <2>1 DEF TypeOK, input
    <2>5. OutputExact'
      BY <2>1, <2>2, <2>3 DEF OutputExact, Wanted, input
    <2> QED BY <2>1, <2>4, <2>5 DEF Agrees, Wanted, InStep, input
  <1>7. CASE Fail
    BY <1>0, <1>7 DEF Fail, input, TypeOK, Agrees, Wanted, InStep, OutputExact
  <1>8. CASE UNCHANGED vars
    BY <1>8 DEF vars, input, TypeOK, Agrees, Wanted, InStep, OutputExact
  <1> QED
    BY <1>1, <1>2, <1>3, <1>4, <1>5, <1>6, <1>7, <1>8 DEF Next

\* The injector's state keeps its types, whatever the reader returns.
THEOREM InjectTypeCorrect == Spec => []TypeOK
  BY InjectInvInit, InjectInvNext, PTL DEF Spec, InjectInv

\* InjectSeed writes exactly the source with the seed in its place: for every
\* offset, buffer and length, and every way the reader may cut the source.
THEOREM InjectsExactly == Spec => []OutputExact
  BY InjectInvInit, InjectInvNext, PTL DEF Spec, InjectInv
===============================================================================
