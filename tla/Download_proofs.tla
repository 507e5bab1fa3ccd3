--------------------------- MODULE Download_proofs ---------------------------
(***************************************************************************)
(* Proofs about module Download, for releases of any size, any number of   *)
(* disturbances and all liberties of the server.                           *)
(***************************************************************************)
EXTENDS Download, TLAPS

\* A release's image is a sequence of its blocks.
LEMMA FullIsImage ==
  ASSUME NEW r \in Releases
  PROVE  Full(r) \in Seq(Releases) /\ Len(Full(r)) = Size[r] /\ Size[r] \in Nat \ {0}
BY SizeAssumption DEF Full

LEMMA ExpectedIsLength ==
  /\ Expected \in Nat \ {0} /\ Len(Full(Pinned)) = Expected /\ Full(Pinned) # <<>>
  /\ Pinned \in Releases
BY ReleaseAssumption, FullIsImage DEF Expected

LEMMA FaultTypes ==
  ASSUME faults \in 0..MaxFaults, NEW name,
         Fault(name) \/ UNCHANGED faults
  PROVE  faults' \in 0..MaxFaults
BY FaultAssumption DEF Fault

LEMMA TagsAndBlocks ==
  NoTag \in Tags /\ Releases \subseteq Tags /\ <<>> \in Seq(Releases) /\ Len(<<>>) = 0
BY DEF Tags

LEMMA InitTypes == Init => TypeOK
PROOF
<1> SUFFICES ASSUME Init PROVE TypeOK
  OBVIOUS
<1>1. cache \in Seq(Releases)
  BY FullIsImage, TagsAndBlocks DEF Init, Leftovers
<1> QED
  BY <1>1, ReleaseAssumption, FaultAssumption, TagsAndBlocks DEF Init, TypeOK, Running

\* Every statement of a run, and whatever happens around it, keeps the types.
LEMMA TypeStep == TypeOK /\ [Next]_vars => TypeOK'
PROOF
<1> SUFFICES ASSUME TypeOK, [Next]_vars PROVE TypeOK'
  OBVIOUS
<1> USE DEF TypeOK
<1>0. Len(cache) \in Nat /\ Expected \in Nat /\ Free \in Nat
  BY ExpectedIsLength, RoomAssumption DEF Free
<1>p. {"load", "request", "tag", "open", "read", "verify", "apply"} = Running
  BY DEF Running
<1> USE <1>0, <1>p, TagsAndBlocks
<1>1. CASE Begin
  BY <1>1 DEF Begin, cacheFiles, locals
<1>2. CASE Load
  <2> DEFINE found == IF tag = NoTag THEN 0 ELSE Len(cache)
  <2>1. /\ found \in Nat /\ pc' \in Running /\ existing' \in {0, found}
        /\ validator' \in {NoTag, tag}
        /\ (cache' = cache /\ tag' = tag) \/ (cache' = <<>> /\ tag' = NoTag)
        /\ UNCHANGED <<served, body, completed, faults>> /\ maximum' = found + Free
    BY <1>2 DEF Load, Discard, cacheFiles
  <2>2. cache' \in Seq(Releases) /\ tag' \in Tags /\ validator' \in Tags
    BY <2>1
  <2> QED
    BY <2>1, <2>2
<1>3. CASE Request
  <2>1. PICK t \in Headers :
          /\ (cache' = cache /\ tag' = tag) \/ (cache' = <<>> /\ tag' = NoTag)
          /\ body' = body \/ body' \in {[release |-> served, tag |-> t, append |-> a] : a \in BOOLEAN}
          /\ completed' \in {0, existing, completed} /\ pc' \in {"tag", "load", "idle"}
    BY <1>3 DEF Request, Discard, Raise, cacheFiles
  <2>2. body' \in [release : Releases, tag : Tags, append : BOOLEAN]
    BY <2>1 DEF Headers
  <2>3. cache' \in Seq(Releases) /\ tag' \in Tags
    BY <2>1
  <2> QED
    BY <1>3, <2>1, <2>2, <2>3 DEF Request
<1>4. CASE RequestFails
  BY <1>4, FaultTypes DEF RequestFails, Raise, cacheFiles, locals
<1>5. CASE StoreTag
  BY <1>5 DEF StoreTag, locals
<1>6. CASE OpenCache
  BY <1>6 DEF OpenCache, locals
<1>7. CASE ReadBlock
  BY <1>7 DEF ReadBlock, Raise
<1>8. CASE ReadFails
  BY <1>8, FaultTypes DEF ReadFails, Raise, cacheFiles, locals
<1>9. CASE EndOfBody
  BY <1>9, FaultTypes DEF EndOfBody, Raise, cacheFiles, locals
<1>10. CASE Verify
  <2>1. /\ (cache' = cache /\ tag' = tag) \/ (cache' = <<>> /\ tag' = NoTag)
        /\ pc' \in {"apply", "idle"} /\ UNCHANGED <<served, locals>>
        /\ Fault("cancel") \/ UNCHANGED faults
    BY <1>10 DEF Verify, Discard, Raise, cacheFiles
  <2> QED
    BY <2>1, FaultTypes DEF locals
<1>11. CASE Apply
  BY <1>11, FaultTypes DEF Apply, Raise, cacheFiles, locals
<1>12. CASE Kill
  BY <1>12, FaultTypes DEF Kill, cacheFiles, locals
<1>13. ASSUME NEW r \in Releases, Publish(r)
       PROVE  TypeOK'
  BY <1>13, FaultTypes DEF Publish, cacheFiles, locals
<1>14. CASE Done \/ UNCHANGED vars
  BY <1>14 DEF Done, vars, cacheFiles, locals
<1> QED
  BY <1>1, <1>2, <1>3, <1>4, <1>5, <1>6, <1>7, <1>8, <1>9, <1>10, <1>11, <1>12, <1>13,
     <1>14 DEF Next, Step

\* The state always has its type.
THEOREM DownloadTypeCorrect == Spec => []TypeOK
BY InitTypes, TypeStep, PTL DEF Spec
-----------------------------------------------------------------------------
(* The count and the file *)

LEMMA CacheStep == CacheInv /\ [Next]_vars => CacheInv'
PROOF
<1> SUFFICES ASSUME CacheInv, [Next]_vars PROVE CacheInv'
  OBVIOUS
<1>0. TypeOK /\ TypeOK' /\ Len(cache) \in Nat /\ completed \in Nat /\ existing \in Nat
  BY TypeStep DEF CacheInv, TypeOK
<1> USE <1>0, ExpectedIsLength
        DEF CacheInv, ResumesAtEnd, CountIsPromised, CountIsLength, CountWithinSize
<1>1. CASE Begin
  BY <1>1 DEF Begin, cacheFiles, locals
<1>2. CASE Load
  <2> DEFINE found == IF tag = NoTag THEN 0 ELSE Len(cache)
  <2>1. /\ pc' \in {"request", "verify"}
        /\ pc' = "request" => \/ existing' = 0
                              \/ /\ existing' = found /\ cache' = cache
                                 /\ SizeKnown => found < Expected
    BY <1>2 DEF Load, cacheFiles
  <2> QED
    BY <2>1
<1>3. CASE Request
  BY <1>3 DEF Request, MayContinue, Discard, Raise, cacheFiles
<1>4. CASE RequestFails \/ ReadFails \/ EndOfBody \/ Verify \/ Apply \/ Kill
  BY <1>4 DEF RequestFails, ReadFails, EndOfBody, Verify, Apply, Kill, Raise, Running
<1>5. CASE StoreTag
  BY <1>5 DEF StoreTag, locals
<1>6. CASE OpenCache
  BY <1>6 DEF OpenCache, locals
<1>7. CASE ReadBlock
  <2>1. cache \in Seq(Releases) /\ body.release \in Releases
    BY DEF TypeOK
  <2>2. Len(Append(cache, body.release)) = Len(cache) + 1
    BY <2>1
  <2> QED
    BY <1>7, <2>2 DEF ReadBlock, Raise
<1>8. ASSUME NEW r \in Releases, Publish(r)
      PROVE  CacheInv'
  BY <1>8 DEF Publish, cacheFiles, locals
<1>9. CASE Done \/ UNCHANGED vars
  BY <1>9 DEF Done, vars, cacheFiles, locals
<1> QED
  BY <1>1, <1>2, <1>3, <1>4, <1>5, <1>6, <1>7, <1>8, <1>9 DEF Next, Step

LEMMA CacheAlways == Spec => []CacheInv
PROOF
<1>1. Init => CacheInv
  BY InitTypes DEF Init, CacheInv, ResumesAtEnd, CountIsPromised, CountIsLength, CountWithinSize
<1> QED
  BY <1>1, CacheStep, PTL DEF Spec

\* Whatever an interrupted run left in the cache and whatever the server
\* answers, a run counts exactly the blocks that are in the file.
THEOREM CountMatchesFile == Spec => []CountIsLength
PROOF
<1>1. CacheInv => CountIsLength
  BY DEF CacheInv
<1> QED
  BY <1>1, CacheAlways, PTL

\* When the size is in the metadata, no range past the end of a complete
\* download is ever requested.
THEOREM CompleteIsNotRequested == SizeKnown => (Spec => []CompleteStaysOffline)
PROOF
<1> SUFFICES ASSUME SizeKnown PROVE Spec => []CompleteStaysOffline
  OBVIOUS
<1>1. CacheInv => CompleteStaysOffline
  BY ExpectedIsLength DEF CacheInv, ResumesAtEnd, CompleteStaysOffline, TypeOK
<1> QED
  BY <1>1, CacheAlways, PTL

\* No run writes more blocks to the cache than the metadata announce.
THEOREM DownloadsAreBounded == Spec => WithinAdvertisedSize
PROOF
<1> DEFINE Within == pc = "read" /\ SizeKnown => Len(cache') <= Expected
<1>1. CacheInv /\ CacheInv' /\ [Next]_vars => [Within]_vars
  <2> SUFFICES ASSUME CacheInv, CacheInv', Next, pc = "read", SizeKnown
               PROVE  Len(cache') <= Expected
    BY DEF vars
  <2>1. Len(cache) <= Expected
    BY DEF CacheInv, CountIsLength, CountWithinSize
  <2>2. CASE ReadBlock
    BY <2>1, <2>2 DEF ReadBlock, Raise, CacheInv, CountIsLength, CountWithinSize
  <2>3. CASE ~ReadBlock
    <3>1. cache' = cache
      BY <2>3 DEF Next, Step, Begin, Load, Request, RequestFails, StoreTag, OpenCache,
         ReadFails, EndOfBody, Verify, Apply, Kill, Publish, Done, vars, cacheFiles
    <3> QED
      BY <2>1, <3>1
  <2> QED
    BY <2>2, <2>3
<1> QED
  BY <1>1, CacheAlways, PTL DEF Spec, WithinAdvertisedSize

\* When the size is in the metadata, only the verification of a complete
\* download, or a response that replaces it, removes it from the cache.
THEOREM CompleteIsKept == SizeKnown => (Spec => CompleteDownloadKept)
PROOF
<1> SUFFICES ASSUME SizeKnown PROVE Spec => CompleteDownloadKept
  OBVIOUS
<1> DEFINE Kept == cache = Full(Pinned) /\ tag # NoTag /\ pc \notin {"verify", "open"}
                     => cache' = cache
<1>1. CacheInv /\ [Next]_vars => [Kept]_vars
  <2> SUFFICES ASSUME CacheInv, Next, cache = Full(Pinned), tag # NoTag,
                      pc \notin {"verify", "open"}
               PROVE  cache' = cache
    BY DEF vars
  <2>0. Len(cache) = Expected /\ Expected \in Nat \ {0}
    BY ExpectedIsLength
  <2>1. CASE Load
    BY <2>0, <2>1 DEF Load, cacheFiles
  <2>2. CASE Request
    BY <2>0, <2>2 DEF Request, MayContinue, cacheFiles, CacheInv, ResumesAtEnd, TypeOK
  <2>3. CASE ReadBlock
    BY <2>0, <2>3 DEF ReadBlock, CacheInv, CountIsLength
  <2>4. CASE ~(Load \/ Request \/ ReadBlock)
    BY <2>4 DEF Next, Step, Begin, RequestFails, StoreTag, OpenCache, ReadFails,
       EndOfBody, Verify, Apply, Kill, Publish, Done, vars, cacheFiles
  <2> QED
    BY <2>1, <2>2, <2>3, <2>4
<1> QED
  BY <1>1, CacheAlways, PTL DEF Spec, CompleteDownloadKept
=============================================================================
