------------------------------ MODULE Versions ------------------------------
(***************************************************************************)
(* models.is_newer_version and resolvers._version_key.                     *)
(*                                                                         *)
(* A version is its numbers in order, whether the last one stands after a  *)
(* dash ("1.6.0-3"), and what follows them: nothing, or a text that begins *)
(* with a letter and that PEP 440 does not allow ("20240715-noble", the    *)
(* commit of NixOS' "24.11.1234.b13f").  packaging is external.             *)
(***************************************************************************)
EXTENDS Integers, Sequences

CONSTANTS
  TextRank,  \* per text, the rank of the pre-release marker it begins with
  TextOrder  \* per text, its place in the alphabet

NoText == ""

ASSUME TextAssumption ==
  /\ NoText \in DOMAIN TextRank /\ DOMAIN TextOrder = DOMAIN TextRank
  /\ TextRank[NoText] = 0 /\ TextOrder[NoText] = 0
  /\ \A t \in DOMAIN TextRank : TextRank[t] \in -4..0 /\ TextOrder[t] \in Nat

\* What the program calls a version.
KnownVersions == [numbers : Seq(Nat) \ {<<>>}, dash : BOOLEAN, text : DOMAIN TextRank]

\* No version: what a name like "Rocky-9-latest" says.
Unknown == [numbers |-> <<>>, dash |-> FALSE, text |-> NoText]

\* Python's order of tuples.
LexLess(a, b) ==
  \E i \in DOMAIN b :
    /\ \A j \in 1..i - 1 : j \in DOMAIN a /\ a[j] = b[j]
    /\ i \in DOMAIN a => a[i] < b[i]

Padded(numbers) == [i \in 1..8 |-> IF i \in DOMAIN numbers THEN numbers[i] ELSE 0]

\* _numeric_key: eight numbers, the rank of a pre-release, the rest.
NumericKey(v) == Padded(v.numbers) \o <<TextRank[v.text], TextOrder[v.text]>>

\* packaging.version.Version: the number after a dash is a post-release.
PEP440(v) == v.text = NoText /\ v.numbers # <<>>
PEP440Key(v) ==
  IF v.dash
    THEN Padded(SubSeq(v.numbers, 1, Len(v.numbers) - 1)) \o <<v.numbers[Len(v.numbers)]>>
    ELSE Padded(v.numbers) \o <<-1>>

\* Mutant of NewerVersion: any other version counts as a newer one.
NewerVersionOther(candidate, installed) == candidate # installed

NewerVersion(candidate, installed) ==
  \/ installed = Unknown
  \/ IF PEP440(candidate) /\ PEP440(installed)
       THEN LexLess(PEP440Key(installed), PEP440Key(candidate))
       ELSE LexLess(NumericKey(installed), NumericKey(candidate))

\* _version_key, by which resolvers choose the newest of several files.
VersionKey(v) == v.numbers
=============================================================================
