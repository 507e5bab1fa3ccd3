--------------------------- MODULE Versions_proofs ---------------------------
(***************************************************************************)
(* Proofs about module Versions: whether one version is newer than another *)
(* is a strict order on the versions packaging understands and on those it *)
(* does not, for any numbers and texts.                                    *)
(***************************************************************************)
EXTENDS Versions, SequenceTheorems, WellFoundedInduction, TLAPS

\* Tuples of one length, as Python compares them.
Tuples(n) == [1..n -> Int]

LEMMA LessIsAsymmetric ==
  ASSUME NEW n \in Nat, NEW a \in Tuples(n), NEW b \in Tuples(n), LexLess(a, b)
  PROVE  ~LexLess(b, a)
PROOF
<1> SUFFICES ASSUME LexLess(b, a) PROVE FALSE
  OBVIOUS
<1>1. PICK i \in 1..n : a[i] < b[i] /\ \A k \in 1..i - 1 : a[k] = b[k]
  BY DEF LexLess, Tuples
<1>2. PICK j \in 1..n : b[j] < a[j] /\ \A k \in 1..j - 1 : b[k] = a[k]
  BY DEF LexLess, Tuples
<1>3. i \in 1..j - 1 \/ j \in 1..i - 1 \/ i = j
  OBVIOUS
<1> QED
  BY <1>1, <1>2, <1>3 DEF Tuples

LEMMA LessIsTransitive ==
  ASSUME NEW n \in Nat, NEW a \in Tuples(n), NEW b \in Tuples(n), NEW c \in Tuples(n),
         LexLess(a, b), LexLess(b, c)
  PROVE  LexLess(a, c)
PROOF
<1>1. PICK i \in 1..n : a[i] < b[i] /\ \A k \in 1..i - 1 : a[k] = b[k]
  BY DEF LexLess, Tuples
<1>2. PICK j \in 1..n : b[j] < c[j] /\ \A k \in 1..j - 1 : b[k] = c[k]
  BY DEF LexLess, Tuples
<1>3. ASSUME NEW m \in 1..n, a[m] < c[m], \A k \in 1..m - 1 : a[k] = c[k]
      PROVE  LexLess(a, c)
  BY <1>3 DEF LexLess, Tuples
<1>4. CASE i <= j
  <2>1. a[i] < c[i]
    BY <1>1, <1>2, <1>4 DEF Tuples
  <2>2. \A k \in 1..i - 1 : a[k] = c[k]
    BY <1>1, <1>2, <1>4
  <2> QED
    BY <2>1, <2>2, <1>3
<1>5. CASE j < i
  <2>1. a[j] < c[j]
    BY <1>1, <1>2, <1>5 DEF Tuples
  <2>2. \A k \in 1..j - 1 : a[k] = c[k]
    BY <1>1, <1>2, <1>5
  <2> QED
    BY <2>1, <2>2, <1>3
<1> QED
  BY <1>4, <1>5

\* No key is less than itself.
LEMMA LessIsIrreflexive ==
  ASSUME NEW n \in Nat, NEW a \in Tuples(n)
  PROVE  ~LexLess(a, a)
BY LessIsAsymmetric

\* Of two different tuples one is less: they have a first difference.
LEMMA LessIsTotal ==
  ASSUME NEW n \in Nat, NEW a \in Tuples(n), NEW b \in Tuples(n), a # b
  PROVE  LexLess(a, b) \/ LexLess(b, a)
PROOF
<1> DEFINE Differ == {i \in 1..n : a[i] # b[i]}
<1>1. Differ # {} /\ Differ \subseteq Nat
  BY DEF Tuples
<1>2. PICK i \in Differ : \A j \in Differ : <<j, i>> \notin OpToRel(<, Nat)
  BY <1>1, NatLessThanWellFounded, WFMin, Zenon
<1>3. \A j \in Differ : ~(j < i)
  BY <1>1, <1>2, Zenon DEF OpToRel
<1>4. i \in 1..n /\ a[i] # b[i] /\ \A j \in 1..i - 1 : a[j] = b[j]
  BY <1>3
<1>5. a[i] < b[i] \/ b[i] < a[i]
  BY <1>4 DEF Tuples
<1> QED
  BY <1>4, <1>5 DEF LexLess, Tuples
-----------------------------------------------------------------------------
(* The keys *)

LEMMA PaddedTypes ==
  ASSUME NEW numbers \in Seq(Nat)
  PROVE  Padded(numbers) \in Tuples(8) /\ Padded(numbers) \in Seq(Int) /\ Len(Padded(numbers)) = 8
PROOF
<1>1. \A i \in DOMAIN numbers : numbers[i] \in Int
  BY ElementOfSeq, LenProperties
<1>2. Padded(numbers) \in [1..8 -> Int]
  BY <1>1 DEF Padded
<1>3. Padded(numbers) \in Seq(Int)
  <2>1. [1..8 -> Int] \in {[1..n -> Int] : n \in Nat}
    OBVIOUS
  <2> QED
    BY <1>2, <2>1, SeqDef
<1>4. Len(Padded(numbers)) = 8
  BY <1>2, <1>3, LenProperties
<1> QED
  BY <1>2, <1>3, <1>4 DEF Tuples

LEMMA NumericKeyTypes ==
  ASSUME NEW v \in KnownVersions
  PROVE  NumericKey(v) \in Tuples(10)
PROOF
<1> DEFINE head == Padded(v.numbers)
           rest == <<TextRank[v.text], TextOrder[v.text]>>
<1>1. head \in Seq(Int) /\ Len(head) = 8
  BY PaddedTypes DEF KnownVersions
<1>2. rest \in Seq(Int) /\ Len(rest) = 2
  BY TextAssumption DEF KnownVersions
<1> HIDE DEF head, rest
<1>3. head \o rest \in Seq(Int) /\ Len(head \o rest) = 10
  <2>1. head \o rest \in Seq(Int) /\ Len(head \o rest) = Len(head) + Len(rest)
    BY <1>1, <1>2, ConcatProperties, Zenon
  <2> QED
    BY <1>1, <1>2, <2>1
<1>4. head \o rest \in [1..10 -> Int]
  BY <1>3, LenProperties
<1> QED
  BY <1>4 DEF NumericKey, Tuples, head, rest

LEMMA PEP440KeyTypes ==
  ASSUME NEW v \in KnownVersions
  PROVE  PEP440Key(v) \in Tuples(9)
PROOF
<1>1. ASSUME NEW numbers \in Seq(Nat), NEW n \in Int
      PROVE  Padded(numbers) \o <<n>> \in Tuples(9)
  <2> DEFINE head == Padded(numbers)
             rest == <<n>>
  <2>1. head \in Seq(Int) /\ Len(head) = 8
    BY PaddedTypes
  <2>2. rest \in Seq(Int) /\ Len(rest) = 1
    OBVIOUS
  <2> HIDE DEF head, rest
  <2>3. head \o rest \in Seq(Int) /\ Len(head \o rest) = 9
    <3>1. head \o rest \in Seq(Int) /\ Len(head \o rest) = Len(head) + Len(rest)
      BY <2>1, <2>2, ConcatProperties, Zenon
    <3> QED
      BY <2>1, <2>2, <3>1
  <2>4. head \o rest \in [1..9 -> Int]
    BY <2>3, LenProperties
  <2> QED
    BY <2>4 DEF Tuples, head, rest
<1>2. v.numbers \in Seq(Nat) /\ Len(v.numbers) \in Nat \ {0}
  BY EmptySeq DEF KnownVersions
<1>3. v.numbers[Len(v.numbers)] \in Int
  BY <1>2, ElementOfSeq
<1>4. SubSeq(v.numbers, 1, Len(v.numbers) - 1) \in Seq(Nat)
  <2>1. \A i \in 1..Len(v.numbers) - 1 : v.numbers[i] \in Nat
    BY <1>2, ElementOfSeq
  <2> QED
    BY <1>2, <2>1, SubSeqProperties
<1> QED
  BY <1>1, <1>2, <1>3, <1>4, -1 \in Int DEF PEP440Key
-----------------------------------------------------------------------------
(* Newer *)

LEMMA KnownIsNotUnknown ==
  ASSUME NEW v \in KnownVersions
  PROVE  v # Unknown
BY DEF KnownVersions, Unknown

\* models.is_newer_version never says of two versions that each is newer than
\* the other, nor that one is newer than itself: no ISO is replaced by a file
\* of its own release, and no two releases replace each other in turn.
THEOREM NewerIsAsymmetric ==
  ASSUME NEW v \in KnownVersions, NEW w \in KnownVersions, NewerVersion(v, w)
  PROVE  ~NewerVersion(w, v) /\ v # w
PROOF
<1>1. v # Unknown /\ w # Unknown
  BY KnownIsNotUnknown
<1>2. CASE PEP440(v) /\ PEP440(w)
  <2>1. LexLess(PEP440Key(w), PEP440Key(v))
    BY <1>1, <1>2 DEF NewerVersion
  <2>2. ~LexLess(PEP440Key(v), PEP440Key(w))
    BY <2>1, PEP440KeyTypes, LessIsAsymmetric, 9 \in Nat
  <2> QED
    BY <1>1, <1>2, <2>1, <2>2 DEF NewerVersion
<1>3. CASE ~(PEP440(v) /\ PEP440(w))
  <2>1. LexLess(NumericKey(w), NumericKey(v))
    BY <1>1, <1>3 DEF NewerVersion
  <2>2. ~LexLess(NumericKey(v), NumericKey(w))
    BY <2>1, NumericKeyTypes, LessIsAsymmetric, 10 \in Nat
  <2> QED
    BY <1>1, <1>3, <2>1, <2>2 DEF NewerVersion
<1> QED
  BY <1>2, <1>3

\* Among versions that packaging understands, and among those it does not,
\* an update of an update is an update: newer is transitive.
THEOREM NewerIsTransitive ==
  ASSUME NEW u \in KnownVersions, NEW v \in KnownVersions, NEW w \in KnownVersions,
         PEP440(u) <=> PEP440(v), PEP440(v) <=> PEP440(w),
         NewerVersion(w, v), NewerVersion(v, u)
  PROVE  NewerVersion(w, u)
PROOF
<1>1. u # Unknown /\ v # Unknown /\ w # Unknown
  BY KnownIsNotUnknown
<1>2. CASE PEP440(v)
  <2>1. LexLess(PEP440Key(u), PEP440Key(v)) /\ LexLess(PEP440Key(v), PEP440Key(w))
    BY <1>1, <1>2 DEF NewerVersion
  <2>2. LexLess(PEP440Key(u), PEP440Key(w))
    BY <2>1, PEP440KeyTypes, LessIsTransitive, 9 \in Nat
  <2> QED
    BY <1>2, <2>2 DEF NewerVersion
<1>3. CASE ~PEP440(v)
  <2>1. LexLess(NumericKey(u), NumericKey(v)) /\ LexLess(NumericKey(v), NumericKey(w))
    BY <1>1, <1>3 DEF NewerVersion
  <2>2. LexLess(NumericKey(u), NumericKey(w))
    BY <2>1, NumericKeyTypes, LessIsTransitive, 10 \in Nat
  <2> QED
    BY <1>3, <2>2 DEF NewerVersion
<1> QED
  BY <1>2, <1>3

\* Two versions of which neither is newer have the same key: eight numbers,
\* and a post-release or the rank and order of a text.  Nothing else is lost.
THEOREM NewerIsTotal ==
  ASSUME NEW v \in KnownVersions, NEW w \in KnownVersions,
         ~NewerVersion(v, w), ~NewerVersion(w, v)
  PROVE  IF PEP440(v) /\ PEP440(w) THEN PEP440Key(v) = PEP440Key(w)
                                   ELSE NumericKey(v) = NumericKey(w)
PROOF
<1>1. CASE PEP440(v) /\ PEP440(w)
  <2>1. ~LexLess(PEP440Key(w), PEP440Key(v)) /\ ~LexLess(PEP440Key(v), PEP440Key(w))
    BY <1>1 DEF NewerVersion
  <2> QED
    BY <1>1, <2>1, PEP440KeyTypes, LessIsTotal, 9 \in Nat
<1>2. CASE ~(PEP440(v) /\ PEP440(w))
  <2>1. ~LexLess(NumericKey(w), NumericKey(v)) /\ ~LexLess(NumericKey(v), NumericKey(w))
    BY <1>2 DEF NewerVersion
  <2> QED
    BY <1>2, <2>1, NumericKeyTypes, LessIsTotal, 10 \in Nat
<1> QED
  BY <1>1, <1>2
=============================================================================
