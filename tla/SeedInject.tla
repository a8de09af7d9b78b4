------------------------------ MODULE SeedInject ------------------------------
(***************************************************************************)
(* Injector.InjectSeed of internal/providers/incusos/imagefile: a copy of a *)
(* source image in which the seed archive replaces as many bytes at the     *)
(* seed offset.  The source is read in chunks of any size up to the buffer, *)
(* and the end of it may come with the last bytes or after them; any call   *)
(* may fail and the context may end.  The copy is written to a temp file    *)
(* and renamed.                                                             *)
(*                                                                         *)
(* Byte k of the (uncompressed) source is k, byte k of the seed is -k.      *)
(* Compression is the flag of a file, not its bytes.                        *)
(***************************************************************************)
EXTENDS Integers, Sequences

CONSTANTS
    Lengths,      \* lengths of (uncompressed) source images
    SeedLengths,  \* lengths of seed archives
    Offset,       \* seedOffsetOrDefault
    Partition,    \* seedPartitionSizeOrDefault
    Buffer,       \* copyBufferSize
    Before        \* what the output path holds before

ASSUME LengthsAssumption == Lengths \subseteq Nat /\ SeedLengths \subseteq Nat
ASSUME LayoutAssumption == Offset \in Nat \ {0} /\ Partition \in Nat /\ Buffer \in Nat \ {0}

VARIABLES
    length,   \* length of the source
    seedLen,  \* length of the seed
    format,   \* ArtifactPlan.Format
    gzName,   \* the output path ends in .gz
    pc,       \* part of InjectSeed
    pos,      \* bytes of the source read
    left,     \* n in copyExactly and discardExactly
    temp,     \* bytes in the temp file
    output    \* file at the output path

input == <<length, seedLen, format, gzName>>
vars  == <<input, pc, pos, left, temp, output>>

TypeOK ==
    /\ length \in Lengths /\ seedLen \in SeedLengths
    /\ format \in {"raw", "raw.gz"} /\ gzName \in BOOLEAN
    /\ pc \in {"validate", "prefix", "seed", "discard", "suffix", "rename", "done", "error"}
    /\ pos \in 0..length
    /\ left \in Nat
    /\ temp \in Seq(Int)
    /\ output = Before \/ output \in [bytes : Seq(Int), gzip : BOOLEAN]

Init ==
    /\ length \in Lengths /\ seedLen \in SeedLengths
    /\ format \in {"raw", "raw.gz"} /\ gzName \in BOOLEAN
    /\ pc = "validate"
    /\ pos = 0
    /\ left = 0
    /\ temp = <<>>
    /\ output = Before

-----------------------------------------------------------------------------

\* The next r bytes of the source, and the seed archive.
Chunk(r) == [k \in 1..r |-> pos + k]
seed     == [k \in 1..seedLen |-> -k]

\* The checks of the input; the source is opened and the temp file created.
Validate ==
    /\ pc = "validate"
    /\ IF seedLen \in 1..Partition
       THEN pc' = "prefix" /\ left' = Offset
       ELSE pc' = "error" /\ UNCHANGED left
    /\ UNCHANGED <<input, pos, temp, output>>

\* Mutant: the whole buffer is offered, however few bytes are wanted.
ReadWholeBuffer(most, r, eof) ==
    /\ r <= Buffer /\ pos + r <= length
    /\ eof => pos + r = length
    /\ r = 0 => eof
    /\ pos' = pos + r

\* A Read of at most `most` bytes: r bytes, and perhaps the end of the source.
Read(most, r, eof) ==
    /\ r <= most /\ r <= Buffer /\ pos + r <= length
    /\ eof => pos + r = length
    /\ r = 0 => eof
    /\ pos' = pos + r

\* A round of copyExactly or discardExactly: the end of the source comes too
\* early if bytes are missing.
Round(stage, next, r, eof) ==
    /\ pc = stage
    /\ Read(left, r, eof)
    /\ left' = left - r
    /\ \/ left' <= 0 /\ pc' = next
       \/ left' > 0 /\ eof /\ pc' = "error"
       \/ left' > 0 /\ ~eof /\ UNCHANGED pc
    /\ UNCHANGED <<input, output>>

\* copyExactly of the bytes in front of the seed.
CopyPrefix ==
    \E r \in 0..Buffer, eof \in BOOLEAN :
        Round("prefix", "seed", r, eof) /\ temp' = temp \o Chunk(r)

\* writeAll of the seed archive.
WriteSeed ==
    /\ pc = "seed"
    /\ pc' = "discard"
    /\ temp' = temp \o seed
    /\ left' = seedLen
    /\ UNCHANGED <<input, pos, output>>

\* discardExactly of as many bytes of the source.
DiscardSpan ==
    \E r \in 0..Buffer, eof \in BOOLEAN :
        Round("discard", "suffix", r, eof) /\ UNCHANGED temp

\* Mutant: bytes that come together with the end of the source are dropped.
CopySuffixEarlyEnd ==
    /\ pc = "suffix"
    /\ \E r \in 0..Buffer, eof \in BOOLEAN :
        /\ Read(Buffer, r, eof)
        /\ temp' = IF eof THEN temp ELSE temp \o Chunk(r)
        /\ IF eof THEN pc' = "rename" ELSE UNCHANGED pc
    /\ UNCHANGED <<input, left, output>>

\* copyRemaining, then the compressor and the temp file are closed.
CopySuffix ==
    /\ pc = "suffix"
    /\ \E r \in 0..Buffer, eof \in BOOLEAN :
        /\ Read(Buffer, r, eof)
        /\ temp' = temp \o Chunk(r)
        /\ IF eof THEN pc' = "rename" ELSE UNCHANGED pc
    /\ UNCHANGED <<input, left, output>>

\* fileDigest and os.Rename.
Rename ==
    /\ pc = "rename"
    /\ pc' = "done"
    /\ output' = [bytes |-> temp, gzip |-> gzName]
    /\ UNCHANGED <<input, pos, left, temp>>

\* An error, or the end of the context: the temp file is removed.
Fail ==
    /\ pc \notin {"done", "error"}
    /\ pc' = "error"
    /\ temp' = <<>>
    /\ UNCHANGED <<input, pos, left, output>>

Next ==
    \/ Validate
    \/ CopyPrefix \/ WriteSeed \/ DiscardSpan \/ CopySuffix
    \/ Rename \/ Fail

Spec == Init /\ [][Next]_vars

-----------------------------------------------------------------------------
(* The inductive invariant behind OutputExact *)

\* Byte k of the image InjectSeed should write.
Wanted(k) == IF k > Offset /\ k <= Offset + seedLen THEN Offset - k ELSE k

\* What is written so far is right...
Agrees == \A k \in DOMAIN temp : temp[k] = Wanted(k)

\* ...and as long as what was read, once the seed span is discarded.
InStep ==
    CASE pc = "validate" -> temp = <<>> /\ pos = 0
      [] pc = "prefix"  -> Len(temp) = pos /\ pos + left = Offset
      [] pc = "seed"    -> Len(temp) = pos /\ pos = Offset
      [] pc = "discard" -> Len(temp) = pos + left /\ pos + left = Offset + seedLen
      [] pc = "suffix"  -> Len(temp) = pos /\ pos >= Offset + seedLen
      [] pc = "rename"  -> Len(temp) = pos /\ pos >= Offset + seedLen /\ pos = length
      [] OTHER          -> TRUE

-----------------------------------------------------------------------------
(* Properties *)

\* However the source is chunked, the output is the whole source with the seed in
\* its place, and a source too short to hold the seed never yields an output.
OutputExact ==
    pc = "done" =>
        /\ length >= Offset + seedLen
        /\ output.bytes = [k \in 1..length |-> Wanted(k)]

\* "Format is the artifact file format": the image is compressed if the plan says
\* so.
FormatTrue == pc = "done" => (output.gzip <=> format = "raw.gz")
===============================================================================
