------------------------------- MODULE Settings -------------------------------
(***************************************************************************)
(* The settings of `imgcli publish`: what loadPublishConfig of internal/cli *)
(* accepts before anything is built, and what internal/publish requires of  *)
(* the same values when it is called after the build.                       *)
(*                                                                         *)
(* A size is a literal, a number and its unit's multiplier; a blank or      *)
(* ill-formed one is no literal.  Beside it the settings have the number of *)
(* bytes that viper reads in the same text.  MaxInt is the largest int64.   *)
(***************************************************************************)
EXTENDS Integers

CONSTANTS
    K,         \* 1 << cacheSizeKiBShift
    MaxInt,    \* math.MaxInt64
    Malformed  \* a size that is no literal

ASSUME KAssumption == K \in Nat /\ K >= 2
ASSUME MaxIntAssumption == MaxInt \in Nat

\* The suffixes b, kb, mb and gb, and none.
Multipliers == {1, K, K * K, K * K * K}

Literal == [value : 0..MaxInt, multiplier : Multipliers]

\* parseSizeLiteral returns no error: the product is an int64.
Parses(l) == l # Malformed /\ l.value <= MaxInt \div l.multiplier

\* parseSizeConfig: the literal is checked, but what is used is the uint64 that
\* viper's own parser makes of the same text (GetSizeInBytes), whatever that is.
ParsesSize(s) == Parses(s.partSize) /\ s.partSizeBytes <= MaxInt

minPublishPartSizeBytes == 5 * (K * K)
maxPublishPartSizeBytes == 5 * (K * K * K)

\* Mutant: the bounds are looked up in the literal, not in the size that is used.
ValidLiteral(s) ==
    /\ s.given /\ s.wait
    /\ s.partSize.value * s.partSize.multiplier
            \in minPublishPartSizeBytes..maxPublishPartSizeBytes

\* validatePublishConfig; `given` says URL, token and version are not blank.
ValidPublishConfig(s) ==
    /\ s.given /\ s.wait
    /\ s.partSizeBytes \in minPublishPartSizeBytes..maxPublishPartSizeBytes

\* parseDurationConfig
ParsesDuration(d) == d > 0

\* loadPublishConfig and publishAliases.
Loads(s) ==
    /\ ParsesSize(s)
    /\ ParsesDuration(s.timeout) /\ ParsesDuration(s.pollInterval)
    /\ ValidPublishConfig(s)
    /\ s.aliasesGiven

MinPartSizeBytes == 5 * K * K
MaxPartSizeBytes == 5 * K * K * K

\* NewUploader
AcceptedByUploader(s) ==
    /\ s.partSizeBytes >= MinPartSizeBytes
    /\ s.partSizeBytes <= MaxPartSizeBytes
    /\ s.wait => s.timeout > 0 /\ s.pollInterval > 0

\* imgsrvArtifactFormat returns no error.
imgsrvArtifactFormat(format) == format \in {"raw", "raw.gz"}

\* NewPublisher
AcceptedByPublisher(s) == s.timeout > 0 /\ s.pollInterval > 0
===============================================================================
