--------------------------- MODULE Registry_proofs ---------------------------
(***************************************************************************)
(* Proofs about module Registry, for any number of instances, releases and *)
(* disturbances, and any order of their steps.                             *)
(***************************************************************************)
EXTENDS Registry, SequenceTheorems, TLAPS

LEMMA Extremes ==
  ASSUME NEW m \in Nat, NEW n \in Nat
  PROVE  /\ Max({m, n}) = IF m >= n THEN m ELSE n
         /\ Min({m, n}) = IF m <= n THEN m ELSE n
BY DEF Max, Min

LEMMA ReleaseTypes ==
  /\ Len(Releases) \in Nat \ {0} /\ Versions = 1..Len(Releases)
  /\ \A v \in Versions :
       /\ Releases[v].index \in Seq(AllIds) /\ Releases[v].revision \in [AllIds -> Revisions]
PROOF
<1>1. Len(Releases) \in Nat /\ Len(Releases) # 0
  BY ReleaseAssumption, EmptySeq
<1>2. \A v \in 1..Len(Releases) :
        Releases[v] \in [index : Seq(AllIds), revision : [AllIds -> Revisions]]
  <2> DEFINE R == [index : Seq(AllIds), revision : [AllIds -> Revisions]]
  <2>1. Releases \in Seq(R)
    BY ReleaseAssumption
  <2> HIDE DEF R
  <2>2. \A v \in 1..Len(Releases) : Releases[v] \in R
    BY <2>1, ElementOfSeq
  <2> QED
    BY <2>2 DEF R
<1> QED
  BY <1>1, <1>2 DEF Versions

LEMMA RevisionTypes ==
  /\ 0 \in Revisions \ {Broken} /\ Broken \in Revisions
  /\ Empty \in [AllIds -> Revisions \ {Broken}] /\ Empty \in [AllIds -> Revisions]
BY DEF Revisions, Broken, Empty

LEMMA MapTypes ==
  ASSUME NEW curated \in [AllIds -> Revisions]
  PROVE  ProviderMap(curated) \in Results
BY RevisionTypes DEF ProviderMap, Results

LEMMA Labels ==
  /\ Refreshing = {"askTimestamp", "timestamp", "targets", "index", "manifest", "state"}
  /\ Loading = {"checkIndex", "readIndex", "check", "read"}
  /\ PCs = {"idle", "load"} \cup Refreshing \cup Loading
BY DEF Refreshing, Loading, PCs

LEMMA FaultTypes ==
  ASSUME faults \in 0..MaxFaults, NEW name, Fault(name) \/ UNCHANGED faults
  PROVE  faults' \in 0..MaxFaults
BY FaultAssumption DEF Fault

LEMMA InitTypes == Init => TypeOK
PROOF
<1> SUFFICES ASSUME Init PROVE TypeOK
  OBVIOUS
<1>1. published \in Versions /\ expired \in 0..published - 1
  BY ReleaseTypes DEF Init
<1>2. providers \in [Apps -> Results]
  BY MapTypes, RevisionTypes DEF Init
<1>3. /\ pc \in [Apps -> PCs] /\ todo \in [Apps -> Seq(AllIds)]
      /\ \A a \in Apps : (todo[a] # <<>>) <=> pc[a] \in {"manifest", "check", "read"}
  BY Labels DEF Init
<1>4. 0 \in 0..published /\ 0 \in 0..MaxFaults
  BY <1>1, ReleaseTypes, FaultAssumption
<1> QED
  BY <1>1, <1>2, <1>3, <1>4, RevisionTypes DEF Init, TypeOK

\* The types of what a call keeps for itself, and of its result.
CallTypes ==
  /\ pc \in [Apps -> PCs] /\ trusted \in [Apps -> 0..published]
  /\ todo \in [Apps -> Seq(AllIds)] /\ loaded \in [Apps -> [AllIds -> Revisions \ {Broken}]]
  /\ disturbed \in [Apps -> BOOLEAN]
  /\ \A a \in Apps : (todo[a] # <<>>) <=> pc[a] \in {"manifest", "check", "read"}
ResultTypes ==
  providers \in [Apps -> Results] /\ newest \in 0..published /\ overtaken \in BOOLEAN
CacheTypes ==
  /\ timestamp \in 0..published /\ targets \in 0..published
  /\ index \in {<<>>} \cup {Releases[v].index : v \in Versions}
  /\ manifests \in [AllIds -> Revisions] /\ checked \in {"never", "today", "before"}
ServerTypes == published \in Versions /\ expired \in 0..published - 1

LEMMA TypeParts ==
  TypeOK <=> CallTypes /\ ResultTypes /\ CacheTypes /\ ServerTypes /\ faults \in 0..MaxFaults
BY DEF TypeOK, CallTypes, ResultTypes, CacheTypes, ServerTypes

LEMMA PublishedIsNat ==
  ASSUME ServerTypes
  PROVE  published \in Nat \ {0} /\ 0 \in 0..published
BY ReleaseTypes DEF ServerTypes

LEMMA DisturbsTypes ==
  ASSUME CallTypes, NEW a \in Apps
  PROVE  Disturbs(a) \in [Apps -> BOOLEAN]
BY DEF Disturbs, CallTypes

LEMMA ReturnTypes ==
  ASSUME TypeOK, NEW a \in Apps, NEW curated \in [AllIds -> Revisions], Return(a, curated),
         UNCHANGED published
  PROVE  CallTypes' /\ ResultTypes' /\ faults' \in 0..MaxFaults
PROOF
<1>t. CallTypes /\ ResultTypes /\ ServerTypes /\ faults \in 0..MaxFaults
  BY TypeParts
<1>1. CallTypes'
  <2>1. /\ pc' = [pc EXCEPT ![a] = "idle"] /\ trusted' = [trusted EXCEPT ![a] = 0]
        /\ todo' = [todo EXCEPT ![a] = <<>>] /\ loaded' = [loaded EXCEPT ![a] = Empty]
        /\ disturbed' = [disturbed EXCEPT ![a] = FALSE]
    BY DEF Return, Forget, Goto
  <2>2. "idle" \in PCs /\ <<>> \in Seq(AllIds)
    BY Labels
  <2> QED
    BY <2>1, <2>2, <1>t, PublishedIsNat, RevisionTypes DEF CallTypes
<1>2. providers' \in [Apps -> Results]
  BY <1>t, MapTypes DEF Return, ResultTypes, Results
<1>3. newest' \in 0..published
  <2>1. trusted[a] \in 0..published /\ newest \in 0..published
    BY <1>t DEF CallTypes, ResultTypes
  <2>2. trusted[a] \in Nat /\ newest \in Nat
    BY <2>1, <1>t, PublishedIsNat
  <2> QED
    BY <2>1, <2>2, Extremes DEF Return
<1>4. faults' \in 0..MaxFaults /\ overtaken' \in BOOLEAN
  BY <1>t, FaultTypes DEF Return, ResultTypes
<1> QED
  BY <1>1, <1>2, <1>3, <1>4 DEF ResultTypes

\* A step of an instance in the middle of its call.
LEMMA CallStep ==
  ASSUME CallTypes, NEW a \in Apps, NEW label \in PCs, Goto(a, label), UNCHANGED published,
         trusted' \in [Apps -> 0..published], todo' \in [Apps -> Seq(AllIds)],
         \A b \in Apps \ {a} : todo'[b] = todo[b],
         (todo'[a] # <<>>) <=> label \in {"manifest", "check", "read"},
         loaded' \in [Apps -> [AllIds -> Revisions \ {Broken}]],
         disturbed' \in [Apps -> BOOLEAN]
  PROVE  CallTypes'
PROOF
<1>1. pc' \in [Apps -> PCs] /\ pc'[a] = label /\ \A b \in Apps \ {a} : pc'[b] = pc[b]
  BY DEF CallTypes, Goto
<1>2. \A b \in Apps : (todo'[b] # <<>>) <=> pc'[b] \in {"manifest", "check", "read"}
  <2> SUFFICES ASSUME NEW b \in Apps
               PROVE  (todo'[b] # <<>>) <=> pc'[b] \in {"manifest", "check", "read"}
    OBVIOUS
  <2>1. CASE b = a
    BY <2>1, <1>1
  <2>2. CASE b # a
    <3>1. (todo[b] # <<>>) <=> pc[b] \in {"manifest", "check", "read"}
      BY DEF CallTypes
    <3> QED
      BY <2>2, <1>1, <3>1
  <2> QED
    BY <2>1, <2>2
<1> QED
  BY <1>1, <1>2 DEF CallTypes

LEMMA ThenLoadTypes ==
  ASSUME CallTypes, ServerTypes, NEW a \in Apps, ThenLoad(a), UNCHANGED <<published, loaded>>,
         disturbed' \in [Apps -> BOOLEAN]
  PROVE  CallTypes'
PROOF
<1>1. 0 \in Nat /\ "load" \in PCs /\ <<>> \in Seq(AllIds)
  BY Labels
<1>2. 0 \in 0..published
  BY PublishedIsNat
<1> QED
  BY <1>1, <1>2 DEF CallTypes, ThenLoad, Goto

\* The head of a list of ids is an id, and the tail is a list again.
LEMMA HeadAndTail ==
  ASSUME CallTypes, NEW a \in Apps, todo[a] # <<>>
  PROVE  /\ todo[a] \in Seq(AllIds) /\ Len(todo[a]) \in Nat \ {0}
         /\ Head(todo[a]) \in AllIds /\ Head(todo[a]) = todo[a][1]
         /\ Tail(todo[a]) \in Seq(AllIds)
         /\ Tail(todo[a]) = <<>> <=> Len(todo[a]) = 1
PROOF
<1>1. todo[a] \in Seq(AllIds)
  BY DEF CallTypes
<1>2. Len(todo[a]) \in Nat \ {0} /\ Head(todo[a]) \in AllIds /\ Head(todo[a]) = todo[a][1]
      /\ Tail(todo[a]) \in Seq(AllIds) /\ Len(Tail(todo[a])) = Len(todo[a]) - 1
  BY <1>1, HeadTailProperties, EmptySeq
<1>3. Tail(todo[a]) = <<>> <=> Len(todo[a]) = 1
  <2>1. CASE Tail(todo[a]) = <<>>
    <3>1. Len(Tail(todo[a])) = 0
      BY <2>1, Zenon, EmptySeq
    <3> QED
      BY <1>2, <2>1, <3>1
  <2>2. CASE Tail(todo[a]) # <<>>
    <3>1. Len(Tail(todo[a])) \in Nat \ {0}
      BY <1>2, <2>2, EmptySeq
    <3> QED
      BY <1>2, <2>2, <3>1
  <2> QED
    BY <2>1, <2>2
<1> QED
  BY <1>1, <1>2, <1>3

LEMMA SignedTypes ==
  ASSUME CallTypes, ServerTypes, NEW a \in Apps, trusted[a] # 0
  PROVE  /\ trusted[a] \in Versions /\ trusted[a] \in 1..published
         /\ Releases[trusted[a]].index \in Seq(AllIds)
         /\ Releases[trusted[a]].revision \in [AllIds -> Revisions]
BY ReleaseTypes DEF CallTypes, ServerTypes

LEMMA KnownStep ==
  ASSUME CallTypes, TrustedIsKnown, NEW a \in Apps, NEW label \in PCs, Goto(a, label),
         \A b \in Apps \ {a} : trusted'[b] = trusted[b],
         label \in {"idle", "load", "askTimestamp"} \/ trusted'[a] # 0
  PROVE  TrustedIsKnown'
PROOF
<1>1. pc'[a] = label /\ \A b \in Apps \ {a} : pc'[b] = pc[b]
  BY DEF CallTypes, Goto
<1>2. \A l \in {"idle", "load", "askTimestamp"} :
        l \notin {"timestamp", "targets", "index", "manifest", "state"} \cup Loading
  BY Labels
<1> QED
  BY <1>1, <1>2 DEF TrustedIsKnown

Basics == TypeOK /\ TrustedIsKnown
Kept == CallTypes' /\ ResultTypes' /\ CacheTypes' /\ ServerTypes' /\ faults' \in 0..MaxFaults
        /\ TrustedIsKnown'

LEMMA ReturnKeeps ==
  ASSUME Basics, NEW a \in Apps, NEW curated \in [AllIds -> Revisions], Return(a, curated),
         UNCHANGED <<server, cache>>
  PROVE  Kept
PROOF
<1>1. UNCHANGED <<published, expired, timestamp, targets, index, manifests, checked>>
  BY DEF server, cache, metadata, files
<1>2. CallTypes' /\ ResultTypes' /\ faults' \in 0..MaxFaults
  BY <1>1, ReturnTypes DEF Basics
<1>3. /\ Goto(a, "idle") /\ trusted' = [trusted EXCEPT ![a] = 0]
  BY DEF Return, Forget
<1>4. TrustedIsKnown'
  BY <1>3, KnownStep, TypeParts, Labels DEF Basics, CallTypes
<1> QED
  BY <1>1, <1>2, <1>4, TypeParts DEF Basics, Kept, CacheTypes, ServerTypes

\* A step that leaves the server and the result alone.
LEMMA StepKeeps ==
  ASSUME Basics, UNCHANGED <<server, providers>>, CallTypes', TrustedIsKnown', CacheTypes',
         newest' \in 0..published, overtaken' \in BOOLEAN, faults' \in 0..MaxFaults
  PROVE  Kept
BY TypeParts DEF Basics, Kept, ResultTypes, ServerTypes, server

LEMMA AskTimestampKeeps ==
  ASSUME Basics, NEW a \in Apps, AskTimestamp(a)
  PROVE  Kept
PROOF
<1>t. CallTypes /\ ResultTypes /\ CacheTypes /\ ServerTypes /\ faults \in 0..MaxFaults /\ TrustedIsKnown
  BY TypeParts DEF Basics
<1>1. UNCHANGED <<server, cache, todo, loaded, result, disturbed>>
  BY DEF AskTimestamp
<1>2. todo[a] = <<>>
  BY <1>t DEF AskTimestamp, CallTypes
<1>3. PICK v \in 1..published :
        /\ IF v = published THEN UNCHANGED faults ELSE Fault("replay")
        /\ IF Accepted(v) /\ (v # timestamp \/ v > expired)
             THEN /\ trusted' = [trusted EXCEPT ![a] = v]
                  /\ Goto(a, IF v = timestamp THEN "targets" ELSE "timestamp")
             ELSE UNCHANGED trusted /\ Goto(a, "load")
  BY DEF AskTimestamp
<1>4. faults' \in 0..MaxFaults
  BY <1>3, <1>t, FaultTypes
<1>5. v \in 0..published /\ v # 0
  BY <1>t, PublishedIsNat
<1>6. PICK label \in {"targets", "timestamp", "load"} :
        /\ Goto(a, label) /\ trusted' \in [Apps -> 0..published]
        /\ \A b \in Apps \ {a} : trusted'[b] = trusted[b]
        /\ label = "load" \/ trusted'[a] # 0
  BY <1>3, <1>5, <1>t DEF CallTypes
<1>7. label \in PCs /\ label \notin {"manifest", "check", "read"}
  BY <1>6, Labels
<1>8. CallTypes'
  BY <1>1, <1>2, <1>6, <1>7, <1>t, CallStep DEF CallTypes, server
<1>9. TrustedIsKnown'
  BY <1>6, <1>7, <1>t, KnownStep
<1> QED
  BY <1>1, <1>4, <1>8, <1>9, <1>t, StepKeeps
  DEF CacheTypes, ResultTypes, server, cache, metadata, files, result

LEMMA KeepTimestampKeeps ==
  ASSUME Basics, NEW a \in Apps, KeepTimestamp(a)
  PROVE  Kept
PROOF
<1>t. CallTypes /\ ResultTypes /\ CacheTypes /\ ServerTypes /\ faults \in 0..MaxFaults /\ TrustedIsKnown
  BY TypeParts DEF Basics
<1>1. /\ UNCHANGED <<server, targets, files, checked, loaded, providers, newest, faults>>
      /\ pc[a] = "timestamp" /\ timestamp' = trusted[a]
      /\ disturbed' = [Disturbs(a) EXCEPT ![a] = FALSE]
  BY DEF KeepTimestamp
<1>2. todo[a] = <<>> /\ trusted[a] # 0
  BY <1>1, <1>t DEF CallTypes, TrustedIsKnown
<1>3. disturbed' \in [Apps -> BOOLEAN]
  BY <1>1, <1>t, DisturbsTypes
<1>4. newest' \in 0..published /\ overtaken' \in BOOLEAN
  BY <1>1, <1>t DEF KeepTimestamp, ResultTypes, server
<1>5. CASE trusted[a] > expired
  <2>1. Goto(a, "targets") /\ UNCHANGED <<trusted, todo>>
    BY <1>5 DEF KeepTimestamp
  <2>2. CallTypes'
    BY <2>1, <1>1, <1>2, <1>3, <1>t, CallStep, Labels DEF CallTypes, server
  <2>3. TrustedIsKnown'
    BY <2>1, <1>2, <1>t, KnownStep, Labels
  <2> QED
    BY <2>2, <2>3, <1>1, <1>4, <1>t, StepKeeps DEF CacheTypes, CallTypes, server, files
<1>6. CASE ~(trusted[a] > expired)
  <2>1. ThenLoad(a)
    BY <1>6 DEF KeepTimestamp
  <2>2. CallTypes'
    BY <2>1, <1>1, <1>3, <1>t, ThenLoadTypes DEF server
  <2>3. TrustedIsKnown'
    BY <2>1, <1>t, KnownStep, Labels DEF ThenLoad, CallTypes
  <2> QED
    BY <2>2, <2>3, <1>1, <1>4, <1>t, StepKeeps DEF CacheTypes, CallTypes, server, files
<1> QED
  BY <1>5, <1>6

LEMMA RefreshKeeps ==
  ASSUME Basics, NEW a \in Apps,
         KeepTargets(a) \/ FetchIndex(a) \/ FetchManifest(a) \/ WriteState(a)
  PROVE  Kept
PROOF
<1>t. CallTypes /\ ResultTypes /\ CacheTypes /\ ServerTypes /\ faults \in 0..MaxFaults /\ TrustedIsKnown
  BY TypeParts DEF Basics
<1>k. trusted[a] # 0
  BY <1>t DEF TrustedIsKnown, KeepTargets, FetchIndex, FetchManifest, WriteState
<1>r. /\ trusted[a] \in Versions /\ trusted[a] \in 1..published
      /\ Releases[trusted[a]].index \in Seq(AllIds)
      /\ Releases[trusted[a]].revision \in [AllIds -> Revisions]
  BY <1>t, <1>k, SignedTypes
<1>n. newest \in 0..published /\ overtaken \in BOOLEAN /\ published \in Nat
  BY <1>t, PublishedIsNat DEF ResultTypes
<1>1. CASE KeepTargets(a)
  <2>1. /\ UNCHANGED <<server, timestamp, files, checked, trusted, todo, loaded, result, faults>>
        /\ Goto(a, "index") /\ targets' = trusted[a] /\ disturbed' = Disturbs(a) /\ pc[a] = "targets"
    BY <1>1 DEF KeepTargets, Wrote
  <2>2. todo[a] = <<>>
    BY <2>1, <1>t DEF CallTypes
  <2>3. CallTypes'
    BY <2>1, <2>2, <1>t, CallStep, DisturbsTypes, Labels DEF CallTypes, server
  <2>4. TrustedIsKnown'
    BY <2>1, <1>k, <1>t, KnownStep, Labels
  <2> QED
    BY <2>1, <2>3, <2>4, <1>t, <1>n, <1>r, StepKeeps DEF CacheTypes, server, files, result
<1>2. CASE FetchIndex(a)
  <2>1. /\ UNCHANGED <<server, timestamp, targets, manifests, checked, trusted, loaded, result, faults>>
        /\ index' = Releases[trusted[a]].index /\ disturbed' = Disturbs(a)
        /\ todo' = [todo EXCEPT ![a] = index']
        /\ Goto(a, IF index' = <<>> THEN "state" ELSE "manifest")
    BY <1>2 DEF FetchIndex, Wrote, metadata
  <2>2. CallTypes'
    <3>1. todo' \in [Apps -> Seq(AllIds)] /\ todo'[a] = index' /\ \A b \in Apps \ {a} : todo'[b] = todo[b]
      BY <2>1, <1>r, <1>t DEF CallTypes
    <3> QED
      BY <2>1, <3>1, <1>t, CallStep, DisturbsTypes, Labels DEF CallTypes, server
  <2>3. TrustedIsKnown'
    BY <2>1, <1>k, <1>t, KnownStep, Labels
  <2> QED
    BY <2>1, <2>2, <2>3, <1>t, <1>n, <1>r, StepKeeps DEF CacheTypes, server, result
<1>3. CASE FetchManifest(a)
  <2> DEFINE id == Head(todo[a])
  <2>1. /\ UNCHANGED <<server, timestamp, targets, index, checked, loaded, result, faults>>
        /\ manifests' = [manifests EXCEPT ![id] = Releases[trusted[a]].revision[id]]
        /\ disturbed' = Disturbs(a) /\ pc[a] = "manifest"
        /\ \/ ThenLoad(a)
           \/ /\ Goto(a, IF Len(todo[a]) = 1 THEN "state" ELSE "manifest")
              /\ todo' = [todo EXCEPT ![a] = Tail(todo[a])] /\ UNCHANGED trusted
    BY <1>3 DEF FetchManifest, Wrote, metadata
  <2>2. todo[a] # <<>>
    BY <2>1, <1>t DEF CallTypes
  <2>3. id \in AllIds /\ Tail(todo[a]) \in Seq(AllIds) /\ (Tail(todo[a]) = <<>> <=> Len(todo[a]) = 1)
    BY <2>2, <1>t, HeadAndTail
  <2>4. manifests' \in [AllIds -> Revisions]
    BY <2>1, <2>3, <1>r, <1>t DEF CacheTypes
  <2>5. CallTypes' /\ TrustedIsKnown'
    <3>1. CASE ThenLoad(a)
      <4>1. CallTypes'
        BY <2>1, <3>1, <1>t, ThenLoadTypes, DisturbsTypes DEF server
      <4>2. TrustedIsKnown'
        BY <3>1, <1>t, KnownStep, Labels DEF ThenLoad, CallTypes
      <4> QED
        BY <4>1, <4>2
    <3>2. CASE /\ Goto(a, IF Len(todo[a]) = 1 THEN "state" ELSE "manifest")
               /\ todo' = [todo EXCEPT ![a] = Tail(todo[a])] /\ UNCHANGED trusted
      <4>1. /\ todo' \in [Apps -> Seq(AllIds)] /\ todo'[a] = Tail(todo[a])
            /\ \A b \in Apps \ {a} : todo'[b] = todo[b]
        BY <2>3, <3>2, <1>t DEF CallTypes
      <4>2. CallTypes'
        BY <2>1, <2>3, <3>2, <4>1, <1>t, CallStep, DisturbsTypes, Labels DEF CallTypes, server
      <4>3. TrustedIsKnown'
        BY <3>2, <1>k, <1>t, KnownStep, Labels
      <4> QED
        BY <4>2, <4>3
    <3> QED
      BY <2>1, <3>1, <3>2
  <2> QED
    BY <2>1, <2>4, <2>5, <1>t, <1>n, StepKeeps DEF CacheTypes, server, result
<1>4. CASE WriteState(a)
  <2>1. /\ UNCHANGED <<server, timestamp, targets, index, manifests, loaded, result, disturbed, faults>>
        /\ ThenLoad(a) /\ checked' = "today"
    BY <1>4 DEF WriteState, metadata, files
  <2>2. CallTypes'
    BY <2>1, <1>t, ThenLoadTypes DEF server, CallTypes
  <2>3. TrustedIsKnown'
    BY <2>1, <1>t, KnownStep, Labels DEF ThenLoad, CallTypes
  <2> QED
    BY <2>1, <2>2, <2>3, <1>t, <1>n, StepKeeps DEF CacheTypes, server, result
<1> QED
  BY <1>1, <1>2, <1>3, <1>4

LEMMA LoadKeeps ==
  ASSUME Basics, NEW a \in Apps, Load(a)
  PROVE  Kept
PROOF
<1>t. CallTypes /\ ResultTypes /\ CacheTypes /\ ServerTypes /\ faults \in 0..MaxFaults /\ TrustedIsKnown
  BY TypeParts DEF Basics
<1>n. newest \in 0..published /\ overtaken \in BOOLEAN /\ published \in Nat
  BY <1>t, PublishedIsNat DEF ResultTypes
<1>s. UNCHANGED <<server, cache>>
  BY DEF Load, LoadMetadata, CheckIndex, ReadIndex, CheckManifest, ReadManifest
<1>e. Empty \in [AllIds -> Revisions]
  BY RevisionTypes
<1>1. CASE Reject(a)
  BY <1>1, <1>s, <1>e, ReturnKeeps DEF Reject
\* A load that goes on.
<1>2. ASSUME NEW label \in PCs, Goto(a, label), UNCHANGED <<disturbed, result, faults>>,
             trusted' \in [Apps -> 0..published], \A b \in Apps \ {a} : trusted'[b] = trusted[b],
             label = "load" \/ trusted'[a] # 0,
             todo' \in [Apps -> Seq(AllIds)], \A b \in Apps \ {a} : todo'[b] = todo[b],
             (todo'[a] # <<>>) <=> label \in {"manifest", "check", "read"},
             loaded' \in [Apps -> [AllIds -> Revisions \ {Broken}]]
      PROVE  Kept
  <2>1. CallTypes'
    BY <1>2, <1>s, <1>t, CallStep DEF CallTypes, server
  <2>2. TrustedIsKnown'
    BY <1>2, <1>t, KnownStep
  <2> QED
    BY <1>2, <2>1, <2>2, <1>s, <1>t, <1>n, StepKeeps
    DEF CacheTypes, server, cache, metadata, files, result
<1>p. /\ trusted \in [Apps -> 0..published] /\ todo \in [Apps -> Seq(AllIds)]
      /\ loaded \in [Apps -> [AllIds -> Revisions \ {Broken}]]
      /\ (todo[a] # <<>>) <=> pc[a] \in {"manifest", "check", "read"}
  BY <1>t DEF CallTypes
<1>3. CASE LoadMetadata(a)
  <2>1. CASE trusted' = [trusted EXCEPT ![a] = timestamp] /\ Goto(a, "checkIndex")
             /\ UNCHANGED <<todo, loaded, disturbed, result, faults>> /\ timestamp > expired
    <3>1. timestamp \in 0..published /\ timestamp # 0
      BY <2>1, <1>t, <1>n DEF CacheTypes, ServerTypes
    <3> QED
      BY <2>1, <3>1, <1>2, <1>3, <1>p, Labels DEF LoadMetadata
  <2> QED
    BY <2>1, <1>1, <1>3 DEF LoadMetadata
<1>4. CASE CheckIndex(a)
  <2>1. CASE Goto(a, "readIndex") /\ UNCHANGED <<locals, result, faults>>
    BY <2>1, <1>2, <1>4, <1>p, <1>t, Labels DEF CheckIndex, locals, TrustedIsKnown
  <2> QED
    BY <2>1, <1>1, <1>4 DEF CheckIndex
<1>5. CASE ReadIndex(a)
  <2>1. CASE /\ index # <<>> /\ todo' = [todo EXCEPT ![a] = index] /\ Goto(a, "check")
             /\ UNCHANGED <<trusted, loaded, disturbed, result, faults>>
    <3>1. index \in Seq(AllIds)
      BY <2>1, <1>t, ReleaseTypes DEF CacheTypes
    <3> QED
      BY <2>1, <3>1, <1>2, <1>5, <1>p, <1>t, Labels DEF ReadIndex, TrustedIsKnown
  <2> QED
    BY <2>1, <1>1, <1>5 DEF ReadIndex
<1>6. CASE CheckManifest(a)
  <2>1. CASE Goto(a, "read") /\ UNCHANGED <<locals, result, faults>>
    BY <2>1, <1>2, <1>6, <1>p, <1>t, Labels DEF CheckManifest, locals, TrustedIsKnown
  <2> QED
    BY <2>1, <1>1, <1>6 DEF CheckManifest
<1>7. CASE ReadManifest(a)
  <2> DEFINE id == Head(todo[a])
             now == [loaded[a] EXCEPT ![id] = manifests[id]]
  <2>1. pc[a] = "read" /\ todo[a] # <<>>
    BY <1>7, <1>p DEF ReadManifest
  <2>2. id \in AllIds /\ Tail(todo[a]) \in Seq(AllIds) /\ (Tail(todo[a]) = <<>> <=> Len(todo[a]) = 1)
    BY <2>1, <1>t, HeadAndTail
  <2>3. CASE manifests[id] = Broken
    BY <2>3, <1>1, <1>7 DEF ReadManifest
  <2>4. manifests[id] # Broken => now \in [AllIds -> Revisions \ {Broken}]
    BY <2>2, <1>p, <1>t DEF CacheTypes
  <2>5. CASE manifests[id] # Broken /\ Len(todo[a]) = 1
    <3>1. now \in [AllIds -> Revisions]
      BY <2>4, <2>5
    <3>2. Return(a, now)
      BY <2>5, <1>7 DEF ReadManifest
    <3> QED
      BY <3>1, <3>2, <1>s, ReturnKeeps
  <2>6. CASE manifests[id] # Broken /\ Len(todo[a]) # 1
    <3>1. /\ loaded' = [loaded EXCEPT ![a] = now]
          /\ todo' = [todo EXCEPT ![a] = Tail(todo[a])]
          /\ Goto(a, "check") /\ UNCHANGED <<trusted, disturbed, result, faults>>
      BY <2>6, <1>7 DEF ReadManifest
    <3>2. todo' \in [Apps -> Seq(AllIds)] /\ todo'[a] # <<>> /\ \A b \in Apps \ {a} : todo'[b] = todo[b]
      BY <3>1, <2>2, <2>6, <1>p
    <3>3. loaded' \in [Apps -> [AllIds -> Revisions \ {Broken}]]
      BY <3>1, <2>4, <2>6, <1>p
    <3> QED
      BY <3>1, <3>2, <3>3, <1>2, <1>p, <1>t, <2>1, Labels DEF TrustedIsKnown
  <2> QED
    BY <2>3, <2>5, <2>6
<1> QED
  BY <1>3, <1>4, <1>5, <1>6, <1>7 DEF Load

LEMMA OthersKeep ==
  ASSUME Basics,
         \/ \E a \in Apps : (\E refresh \in BOOLEAN : Begin(a, refresh)) \/ RefreshFails(a) \/ Kill(a)
         \/ Publish \/ Expire \/ Day \/ ClockSetBack
  PROVE  Kept
PROOF
<1>t. CallTypes /\ ResultTypes /\ CacheTypes /\ ServerTypes /\ faults \in 0..MaxFaults /\ TrustedIsKnown
  BY TypeParts DEF Basics
<1>n. newest \in 0..published /\ overtaken \in BOOLEAN /\ published \in Nat
  BY <1>t, PublishedIsNat DEF ResultTypes
<1>1. ASSUME NEW a \in Apps, NEW refresh \in BOOLEAN, Begin(a, refresh) PROVE Kept
  <2>1. PICK label \in {"askTimestamp", "load"} : Goto(a, label)
    BY <1>1 DEF Begin
  <2>2. UNCHANGED <<server, cache, trusted, todo, loaded, disturbed, result, faults>> /\ todo[a] = <<>>
    BY <1>1, <1>t DEF Begin, locals, CallTypes
  <2>3. CallTypes' /\ TrustedIsKnown'
    BY <2>1, <2>2, <1>t, CallStep, KnownStep, Labels DEF CallTypes, server
  <2> QED
    BY <2>2, <2>3, <1>t, <1>n, StepKeeps DEF CacheTypes, server, cache, metadata, files, result
<1>2. ASSUME NEW a \in Apps, RefreshFails(a) PROVE Kept
  <2>1. /\ ThenLoad(a) /\ disturbed' = [disturbed EXCEPT ![a] = FALSE]
        /\ UNCHANGED <<server, cache, loaded, result>> /\ faults' \in 0..MaxFaults
    BY <1>2, <1>t, FaultTypes DEF RefreshFails
  <2>2. disturbed' \in [Apps -> BOOLEAN]
    BY <2>1, <1>t DEF CallTypes
  <2>3. CallTypes'
    BY <2>1, <2>2, <1>t, ThenLoadTypes DEF server
  <2>4. TrustedIsKnown'
    BY <2>1, <1>t, KnownStep, Labels DEF ThenLoad, CallTypes
  <2> QED
    BY <2>1, <2>3, <2>4, <1>t, <1>n, StepKeeps DEF CacheTypes, server, cache, metadata, files, result
<1>3. ASSUME NEW a \in Apps, Kill(a) PROVE Kept
  <2>1. /\ Forget(a) /\ Goto(a, "idle") /\ UNCHANGED <<server, cache, result>>
        /\ faults' \in 0..MaxFaults
    BY <1>3, <1>t, FaultTypes DEF Kill
  <2>2. /\ trusted' \in [Apps -> 0..published] /\ todo' \in [Apps -> Seq(AllIds)]
        /\ \A b \in Apps \ {a} : todo'[b] = todo[b] /\ trusted'[b] = trusted[b]
        /\ todo'[a] = <<>> /\ loaded' \in [Apps -> [AllIds -> Revisions \ {Broken}]]
        /\ disturbed' \in [Apps -> BOOLEAN]
    BY <2>1, <1>t, RevisionTypes, PublishedIsNat DEF Forget, CallTypes
  <2>3. CallTypes' /\ TrustedIsKnown'
    BY <2>1, <2>2, <1>t, CallStep, KnownStep, Labels DEF server
  <2> QED
    BY <2>1, <2>3, <1>t, <1>n, StepKeeps DEF CacheTypes, server, cache, metadata, files, result
<1>4. CASE Publish
  <2>1. /\ published' = published + 1 /\ published < Len(Releases)
        /\ UNCHANGED <<expired, timestamp, targets, index, manifests, checked, pc, trusted, todo,
                       loaded, disturbed, providers, newest, overtaken, faults>>
    BY <1>4 DEF Publish, cache, metadata, files, running, locals, result
  <2>2. ServerTypes'
    BY <2>1, <1>t, ReleaseTypes DEF ServerTypes
  <2>3. 0..published \subseteq 0..published'
    BY <2>1, <1>n
  <2>4. CallTypes' /\ ResultTypes' /\ CacheTypes'
    BY <2>1, <2>3, <1>t DEF CallTypes, ResultTypes, CacheTypes
  <2> QED
    BY <2>1, <2>2, <2>4, <1>t DEF Kept, TrustedIsKnown
<1>5. CASE Expire
  <2>1. /\ expired' = expired + 1 /\ expired + 1 < published /\ faults' \in 0..MaxFaults
        /\ UNCHANGED <<published, timestamp, targets, index, manifests, checked, pc, trusted, todo,
                       loaded, disturbed, providers, newest, overtaken>>
    BY <1>5, <1>t, FaultTypes DEF Expire, cache, metadata, files, running, locals, result
  <2>2. ServerTypes'
    BY <2>1, <1>t, <1>n DEF ServerTypes
  <2> QED
    BY <2>1, <2>2, <1>t DEF Kept, TrustedIsKnown, CallTypes, ResultTypes, CacheTypes
<1>6. CASE Day \/ ClockSetBack
  <2>1. /\ checked' \in {"before", "today"} /\ faults' \in 0..MaxFaults
        /\ UNCHANGED <<published, expired, timestamp, targets, index, manifests, pc, trusted, todo,
                       loaded, disturbed, providers, newest, overtaken>>
    BY <1>6, <1>t, FaultTypes DEF Day, ClockSetBack, server, metadata, files, running, locals, result
  <2> QED
    BY <2>1, <1>t DEF Kept, TrustedIsKnown, CallTypes, ResultTypes, CacheTypes, ServerTypes
<1> QED
  BY <1>1, <1>2, <1>3, <1>4, <1>5, <1>6

LEMMA BasicStep == Basics /\ [Next]_vars => Basics'
PROOF
<1>1. Kept => Basics'
  BY TypeParts DEF Kept, Basics, TypeOK, CallTypes, ResultTypes, CacheTypes, ServerTypes
<1>2. Basics /\ UNCHANGED vars => Basics'
  BY DEF Basics, TypeOK, TrustedIsKnown, vars, server, cache, metadata, files, locals, result
<1> QED
  BY <1>1, <1>2, AskTimestampKeeps, KeepTimestampKeeps, RefreshKeeps, LoadKeeps, OthersKeep
  DEF Next, Refresh

LEMMA InitBasic == Init => Basics
PROOF
<1>1. Init => TrustedIsKnown
  BY Labels DEF Init, TrustedIsKnown
<1> QED
  BY <1>1, InitTypes DEF Basics

\* The state has its type, and only a call in progress holds ids.
THEOREM RegistryTypeCorrect == Spec => []TypeOK
PROOF
<1>1. Basics => TypeOK
  BY DEF Basics
<1> QED
  BY <1>1, InitBasic, BasicStep, PTL DEF Spec
-----------------------------------------------------------------------------
(* No rollback *)

LEMMA InitNewest == Init => TimestampIsNewest
BY Labels DEF Init, TimestampIsNewest

\* What the step of one instance leaves of the others.
Alone(a) ==
  \A b \in Apps \ {a} :
    /\ pc'[b] = pc[b] /\ trusted'[b] = trusted[b] /\ loaded'[b] = loaded[b] /\ todo'[b] = todo[b]
    /\ disturbed[b] => disturbed'[b]

\* Who writes disturbs whoever has asked for the timestamp or loads.
LEMMA WriteDisturbs ==
  ASSUME CallTypes, NEW a \in Apps, NEW b \in Apps \ {a}
  PROVE  /\ disturbed[b] => Disturbs(a)[b]
         /\ pc[b] \in Loading \cup {"timestamp"} => Disturbs(a)[b]
BY DEF Disturbs, CallTypes

LEMMA NewestOfStep ==
  ASSUME TimestampIsNewest, NEW a \in Apps, Alone(a), UNCHANGED <<timestamp, overtaken>>,
         newest' <= timestamp \/ overtaken,
         ~disturbed'[a] => /\ pc'[a] = "timestamp" => trusted'[a] >= timestamp
                           /\ pc'[a] \in Loading => trusted'[a] = timestamp
  PROVE  TimestampIsNewest'
BY DEF TimestampIsNewest, Alone

LEMMA ReturnsAlone ==
  ASSUME CallTypes, NEW a \in Apps, NEW curated, Return(a, curated)
  PROVE  Alone(a) /\ pc'[a] = "idle"
BY DEF CallTypes, Return, Forget, Goto, Alone

LEMMA NewestStep == Basics /\ TimestampIsNewest /\ [Next]_vars => TimestampIsNewest'
PROOF
<1> SUFFICES ASSUME Basics, TimestampIsNewest, [Next]_vars PROVE TimestampIsNewest'
  OBVIOUS
<1>t. CallTypes /\ ResultTypes /\ CacheTypes /\ ServerTypes /\ faults \in 0..MaxFaults /\ TrustedIsKnown
  BY TypeParts DEF Basics
<1>n. /\ published \in Nat /\ newest \in Nat /\ timestamp \in Nat /\ (newest <= timestamp \/ overtaken)
      /\ \A a \in Apps : trusted[a] \in Nat
  BY <1>t, PublishedIsNat DEF ResultTypes, CacheTypes, CallTypes, TimestampIsNewest
<1>l. "idle" \notin Loading /\ "load" \notin Loading /\ "askTimestamp" \notin Loading
      /\ "targets" \notin Loading /\ "index" \notin Loading /\ "manifest" \notin Loading
      /\ "state" \notin Loading /\ "timestamp" \notin Loading
  BY Labels
<1>q. ASSUME NEW a \in Apps, Alone(a), UNCHANGED <<timestamp, newest, overtaken>>,
             pc'[a] \notin Loading \cup {"timestamp"}
      PROVE  TimestampIsNewest'
  BY <1>q, <1>n, NewestOfStep
<1>1. ASSUME NEW a \in Apps, AskTimestamp(a) PROVE TimestampIsNewest'
  <2>1. UNCHANGED <<timestamp, newest, overtaken, todo, loaded, disturbed>>
    BY <1>1 DEF AskTimestamp, cache, metadata, result
  <2>2. PICK v \in 1..published :
          IF Accepted(v) /\ (v # timestamp \/ v > expired)
            THEN /\ trusted' = [trusted EXCEPT ![a] = v]
                 /\ Goto(a, IF v = timestamp THEN "targets" ELSE "timestamp")
            ELSE UNCHANGED trusted /\ Goto(a, "load")
    BY <1>1 DEF AskTimestamp
  <2>3. Alone(a)
    BY <2>1, <2>2, <1>t DEF Alone, CallTypes, Goto
  <2>4. pc'[a] = "timestamp" => trusted'[a] >= timestamp
    BY <2>2, <1>t DEF CallTypes, Goto, Accepted
  <2>5. pc'[a] \notin Loading
    BY <2>2, <1>t, <1>l DEF CallTypes, Goto
  <2> QED
    BY <2>1, <2>3, <2>4, <2>5, <1>n, NewestOfStep
<1>2. ASSUME NEW a \in Apps, KeepTimestamp(a) PROVE TimestampIsNewest'
  <2>1. /\ timestamp' = trusted[a] /\ pc[a] = "timestamp"
        /\ disturbed' = [Disturbs(a) EXCEPT ![a] = FALSE]
        /\ UNCHANGED newest
        /\ overtaken' = (trusted[a] < newest /\ (disturbed[a] \/ overtaken))
    BY <1>2 DEF KeepTimestamp
  <2>2. newest' <= timestamp' \/ overtaken'
    <3>1. ~disturbed[a] => trusted[a] >= timestamp
      BY <2>1 DEF TimestampIsNewest
    <3>2. trusted[a] < newest => disturbed[a] \/ overtaken
      BY <3>1, <1>n
    <3>3. CASE trusted[a] < newest
      BY <2>1, <3>2, <3>3, Zenon
    <3>4. CASE newest <= trusted[a]
      BY <2>1, <3>4
    <3> QED
      BY <3>3, <3>4, <1>n
  <2>3. pc'[a] \in {"targets", "load"} /\ \A b \in Apps \ {a} : pc'[b] = pc[b]
    BY <1>2, <1>t DEF KeepTimestamp, ThenLoad, Goto, CallTypes
  <2>4. \A b \in Apps \ {a} : ~disturbed'[b] => pc'[b] \notin Loading \cup {"timestamp"}
    BY <2>1, <2>3, <1>t, WriteDisturbs, DisturbsTypes
  <2> QED
    BY <2>2, <2>3, <2>4, <1>l DEF TimestampIsNewest
<1>3. ASSUME NEW a \in Apps, KeepTargets(a) \/ FetchIndex(a) \/ FetchManifest(a) \/ WriteState(a)
      PROVE  TimestampIsNewest'
  <2>1. UNCHANGED <<timestamp, newest, overtaken, loaded>>
    BY <1>3 DEF KeepTargets, FetchIndex, FetchManifest, WriteState, metadata, files, result
  <2>2. disturbed' = Disturbs(a) \/ UNCHANGED disturbed
    BY <1>3 DEF KeepTargets, FetchIndex, FetchManifest, WriteState, Wrote
  <2>3. pc'[a] \in {"index", "manifest", "state", "load"}
        /\ \A b \in Apps \ {a} : pc'[b] = pc[b] /\ trusted'[b] = trusted[b] /\ todo'[b] = todo[b]
    BY <1>3, <1>t DEF KeepTargets, FetchIndex, FetchManifest, WriteState, ThenLoad, Goto, CallTypes
  <2>4. Alone(a)
    BY <2>1, <2>2, <2>3, <1>t, WriteDisturbs DEF Alone
  <2> QED
    BY <2>1, <2>3, <2>4, <1>l, <1>q
<1>4. ASSUME NEW a \in Apps, NEW curated, Return(a, curated), UNCHANGED <<server, cache>>, 
             trusted[a] = timestamp \/ curated = Empty \/ disturbed[a]
      PROVE  TimestampIsNewest'
  <2>1. UNCHANGED <<timestamp, overtaken>> /\ (newest' <= timestamp \/ overtaken)
    BY <1>4, <1>n, Extremes DEF Return, cache, metadata
  <2> QED
    BY <2>1, <1>4, <1>t, <1>l, ReturnsAlone, NewestOfStep
<1>5. ASSUME NEW a \in Apps, Load(a) PROVE TimestampIsNewest'
  <2>s. UNCHANGED <<server, cache>> /\ UNCHANGED timestamp
    BY <1>5 DEF Load, LoadMetadata, CheckIndex, ReadIndex, CheckManifest, ReadManifest,
                cache, metadata
  <2>1. CASE Reject(a)
    BY <2>1, <2>s, <1>4 DEF Reject
  <2>2. ASSUME Alone(a), UNCHANGED <<newest, overtaken, disturbed>>, pc'[a] \in Loading,
               ~disturbed[a] => trusted'[a] = timestamp
        PROVE  TimestampIsNewest'
    BY <2>2, <2>s, <1>n, <1>l, NewestOfStep
  <2>3. CASE LoadMetadata(a)
    <3>1. CASE trusted' = [trusted EXCEPT ![a] = timestamp] /\ Goto(a, "checkIndex")
               /\ UNCHANGED <<todo, loaded, disturbed, result, faults>>
      BY <3>1, <2>2, <1>t, Labels DEF Alone, CallTypes, Goto, result
    <3> QED
      BY <3>1, <2>1, <2>3 DEF LoadMetadata
  <2>4. CASE CheckIndex(a) \/ ReadIndex(a) \/ CheckManifest(a) \/ ReadManifest(a)
    <3>1. pc[a] \in Loading
      BY <2>4, Labels DEF CheckIndex, ReadIndex, CheckManifest, ReadManifest
    <3>2. disturbed[a] \/ trusted[a] = timestamp
      BY <3>1 DEF TimestampIsNewest
    <3>3. CASE \E curated : Return(a, curated)
      BY <3>2, <3>3, <2>s, <1>4
    <3>4. CASE ~\E curated : Return(a, curated)
      <4>1. /\ \E label \in Loading : Goto(a, label)
            /\ UNCHANGED <<trusted, disturbed, newest, overtaken>>
            /\ \A b \in Apps \ {a} : todo'[b] = todo[b] /\ loaded'[b] = loaded[b]
        BY <2>4, <3>4, <1>t, Labels
        DEF CheckIndex, ReadIndex, CheckManifest, ReadManifest, Reject, locals, result, CallTypes
      <4>2. Alone(a) /\ pc'[a] \in Loading
        BY <4>1, <1>t DEF Alone, Goto, CallTypes
      <4> QED
        BY <4>1, <4>2, <3>2, <2>2
    <3> QED
      BY <3>3, <3>4
  <2> QED
    BY <1>5, <2>3, <2>4 DEF Load
<1>6. ASSUME NEW a \in Apps, (\E refresh \in BOOLEAN : Begin(a, refresh)) \/ RefreshFails(a) \/ Kill(a)
      PROVE  TimestampIsNewest'
  <2>1. UNCHANGED <<timestamp, newest, overtaken>> /\ Alone(a) /\ pc'[a] \in {"askTimestamp", "load", "idle"}
    BY <1>6, <1>t DEF Begin, RefreshFails, Kill, ThenLoad, Forget, Goto, Alone, CallTypes, cache,
                      metadata, locals, result
  <2> QED
    BY <2>1, <1>l, <1>q
<1>7. CASE Publish \/ Expire \/ Day \/ ClockSetBack \/ UNCHANGED vars
  <2>1. UNCHANGED <<timestamp, newest, overtaken, pc, trusted, disturbed>>
    BY <1>7 DEF Publish, Expire, Day, ClockSetBack, vars, cache, metadata, running, locals, result
  <2> QED
    BY <2>1 DEF TimestampIsNewest
<1> QED
  BY <1>1, <1>2, <1>3, <1>5, <1>6, <1>7 DEF Next, Refresh

\* No undisturbed load uses an older release than an earlier one
\* (registry_client.py:80, 111: both updaters start from the cached metadata):
\* what it has verified is the cached timestamp's release, and only an
\* instance that another has overtaken stores an older timestamp.  From there
\* to the next newer timestamp nothing is promised.
THEOREM NoLoadGoesBack == Spec => NoRollback
PROOF
<1> DEFINE Forward ==
      \A a \in Apps :
        (Loads(a) /\ providers'[a] \notin {Refused, ProviderMap(Empty)})
          => trusted[a] >= newest \/ overtaken
<1>1. Basics /\ TimestampIsNewest => Forward
  <2> SUFFICES ASSUME Basics, TimestampIsNewest, NEW a \in Apps, Loads(a)
               PROVE  trusted[a] >= newest \/ overtaken
    OBVIOUS
  <2>1. trusted[a] = timestamp /\ (newest <= timestamp \/ overtaken)
    BY DEF Loads, TimestampIsNewest
  <2>2. timestamp \in Nat /\ newest \in Nat
    BY TypeParts, PublishedIsNat DEF Basics, CacheTypes, ResultTypes
  <2> QED
    BY <2>1, <2>2
<1>2. Basics /\ TimestampIsNewest /\ [Next]_vars => [Forward]_vars
  BY <1>1
<1> QED
  BY <1>2, InitBasic, BasicStep, InitNewest, NewestStep, PTL DEF Spec, NoRollback
-----------------------------------------------------------------------------
(* One release *)

\* CheckedIsRead, of one instance.
Checked(a) ==
  LET signed == Releases[trusted[a]] IN
  /\ pc[a] \notin {"check", "read"} => loaded[a] = Empty
  /\ ~disturbed[a] =>
       /\ pc[a] = "readIndex" => index = signed.index
       /\ pc[a] \in {"check", "read"} =>
            \E n \in 0..Len(signed.index) - 1 : Progress(a, n)
       /\ pc[a] = "read" => manifests[Head(todo[a])] = signed.revision[Head(todo[a])]

LEMMA CheckedParts == CheckedIsRead <=> \A a \in Apps : Checked(a)
BY DEF CheckedIsRead, Checked

LEMMA InitChecked == Init => CheckedIsRead
BY DEF Init, CheckedIsRead

LEMMA NoManifests ==
  ASSUME NEW v \in Versions
  PROVE  FirstManifests(v, 0) = Empty
BY DEF FirstManifests, Empty

\* One manifest more.
LEMMA NextManifest ==
  ASSUME NEW v \in Versions, NEW n \in 0..Len(Releases[v].index) - 1,
         NEW id, id = Releases[v].index[n + 1]
  PROVE  FirstManifests(v, n + 1) = [FirstManifests(v, n) EXCEPT ![id] = Releases[v].revision[id]]
PROOF
<1> DEFINE ids == Releases[v].index
           revision == Releases[v].revision
<1>1. Len(ids) \in Nat /\ n \in Nat /\ n + 1 \in 1..Len(ids)
  BY ReleaseTypes
<1>2. id \in AllIds
  BY <1>1, ReleaseTypes, ElementOfSeq
<1>3. \A i \in 1..n + 1 : i \in 1..n \/ i = n + 1
  BY <1>1
<1>4. 1..n \subseteq 1..n + 1 /\ n + 1 \in 1..n + 1
  BY <1>1
<1> HIDE DEF ids, revision
<1>5. ASSUME NEW other \in AllIds
      PROVE  (\E i \in 1..n + 1 : ids[i] = other) <=> (\E i \in 1..n : ids[i] = other) \/ other = id
  BY <1>3, <1>4 DEF ids
<1>6. [k \in AllIds |-> IF \E i \in 1..n + 1 : ids[i] = k THEN revision[k] ELSE 0]
        = [[k \in AllIds |-> IF \E i \in 1..n : ids[i] = k THEN revision[k] ELSE 0]
             EXCEPT ![id] = revision[id]]
  BY <1>2, <1>5
<1> QED
  BY <1>6 DEF FirstManifests, ids, revision

\* All manifests of a release without a bad one are what it puts in force.
LEMMA LastManifest ==
  ASSUME NEW v \in Versions,
         \A i \in 1..Len(Releases[v].index) : Releases[v].revision[Releases[v].index[i]] # Broken
  PROVE  FirstManifests(v, Len(Releases[v].index)) = InForce(v)
PROOF
<1>1. v # 0 /\ DOMAIN Releases[v].index = 1..Len(Releases[v].index)
  BY ReleaseTypes, LenProperties
<1> QED
  BY <1>1 DEF FirstManifests, InForce, Contains

\* The step of another instance.
LEMMA OthersChecked ==
  ASSUME NEW b \in Apps, Checked(b), pc'[b] = pc[b], trusted'[b] = trusted[b],
         loaded'[b] = loaded[b], todo'[b] = todo[b], disturbed[b] => disturbed'[b],
         pc[b] \in Loading /\ ~disturbed'[b] => UNCHANGED <<index, manifests>>
  PROVE  Checked(b)'
PROOF
<1>1. \A n : Progress(b, n) => Progress(b, n)'
  BY DEF Progress
<1> QED
  BY <1>1, Labels DEF Checked

\* A step of an instance that is not, or no longer, loading.
LEMMA NotLoading ==
  ASSUME NEW a \in Apps, pc'[a] \notin {"readIndex", "check", "read"}, loaded'[a] = Empty
  PROVE  Checked(a)'
BY DEF Checked

LEMMA CheckedByStep ==
  ASSUME CheckedIsRead, NEW a \in Apps, Alone(a), Checked(a)',
         \/ UNCHANGED <<index, manifests>>
         \/ \A b \in Apps \ {a} : pc[b] \in Loading => disturbed'[b]
  PROVE  CheckedIsRead'
PROOF
<1>1. \A b \in Apps \ {a} : Checked(b)'
  BY CheckedParts, OthersChecked DEF Alone
<1>2. \A b \in Apps : Checked(b)'
  BY <1>1
<1> QED
  BY <1>2 DEF CheckedIsRead, Checked

LEMMA RefreshChecked ==
  ASSUME CallTypes, CheckedIsRead, NEW a \in Apps,
         (\E refresh \in BOOLEAN : Begin(a, refresh)) \/ Refresh(a) \/ RefreshFails(a)
  PROVE  CheckedIsRead'
PROOF
<1>1. /\ pc[a] \notin {"check", "read"} /\ loaded' = loaded
      /\ \E label \in {"askTimestamp", "load", "targets", "timestamp", "index", "manifest", "state"} :
           Goto(a, label)
  <2>1. CASE \E refresh \in BOOLEAN : Begin(a, refresh)
    BY <2>1 DEF Begin, locals
  <2>2. CASE AskTimestamp(a) \/ KeepTimestamp(a) \/ KeepTargets(a)
    BY <2>2 DEF AskTimestamp, KeepTimestamp, KeepTargets, ThenLoad
  <2>3. CASE FetchIndex(a) \/ FetchManifest(a) \/ WriteState(a)
    BY <2>3 DEF FetchIndex, FetchManifest, WriteState, ThenLoad
  <2>4. CASE RefreshFails(a)
    BY <2>4, Labels DEF RefreshFails, ThenLoad
  <2> QED
    BY <2>1, <2>2, <2>3, <2>4 DEF Refresh
<1>2. pc'[a] \notin {"readIndex", "check", "read"} /\ loaded'[a] = Empty
  BY <1>1 DEF CallTypes, Goto, CheckedIsRead
<1>3. \A b \in Apps \ {a} : /\ pc'[b] = pc[b] /\ trusted'[b] = trusted[b] /\ loaded'[b] = loaded[b]
                            /\ todo'[b] = todo[b]
  <2>1. \A b \in Apps \ {a} : pc'[b] = pc[b] /\ loaded'[b] = loaded[b]
    BY <1>1 DEF CallTypes, Goto
  <2>2. CASE (\E refresh \in BOOLEAN : Begin(a, refresh)) \/ RefreshFails(a)
    BY <2>1, <2>2 DEF Begin, RefreshFails, ThenLoad, locals, CallTypes
  <2>3. CASE Refresh(a)
    BY <2>1, <2>3 DEF Refresh, AskTimestamp, KeepTimestamp, KeepTargets, FetchIndex,
                      FetchManifest, WriteState, ThenLoad, CallTypes
  <2> QED
    BY <2>2, <2>3
<1>4. /\ \A b \in Apps \ {a} : disturbed[b] => disturbed'[b]
      /\ \/ UNCHANGED <<index, manifests>>
         \/ \A b \in Apps \ {a} : pc[b] \in Loading => disturbed'[b]
  <2>1. CASE (\E refresh \in BOOLEAN : Begin(a, refresh)) \/ RefreshFails(a)
    BY <2>1 DEF Begin, RefreshFails, locals, CallTypes, cache, files
  <2>2. CASE AskTimestamp(a) \/ WriteState(a)
    BY <2>2 DEF AskTimestamp, WriteState, cache, files
  <2>3. CASE KeepTimestamp(a)
    <3>1. disturbed' = [Disturbs(a) EXCEPT ![a] = FALSE] /\ UNCHANGED <<index, manifests>>
      BY <2>3 DEF KeepTimestamp, files
    <3> QED
      BY <3>1, WriteDisturbs, DisturbsTypes
  <2>4. CASE KeepTargets(a) \/ FetchIndex(a) \/ FetchManifest(a)
    <3>1. disturbed' = Disturbs(a)
      BY <2>4 DEF KeepTargets, FetchIndex, FetchManifest, Wrote
    <3> QED
      BY <3>1, WriteDisturbs
  <2> QED
    BY <2>1, <2>2, <2>3, <2>4 DEF Refresh
<1>5. Alone(a)
  BY <1>3, <1>4 DEF Alone
<1> QED
  BY <1>2, <1>4, <1>5, NotLoading, CheckedByStep

LEMMA ReturnChecked ==
  ASSUME CallTypes, CheckedIsRead, NEW a \in Apps, NEW curated, Return(a, curated),
         UNCHANGED <<index, manifests>>
  PROVE  CheckedIsRead'
PROOF
<1>1. loaded'[a] = Empty
  BY DEF Return, Forget, CallTypes
<1> QED
  BY <1>1, ReturnsAlone, NotLoading, CheckedByStep

\* The loop over the manifests: one more has been read.
LEMMA LoopStep ==
  ASSUME CallTypes, ServerTypes, NEW a \in Apps, trusted[a] # 0,
         NEW n \in 0..Len(Releases[trusted[a]].index) - 1, Progress(a, n),
         manifests[Head(todo[a])] = Releases[trusted[a]].revision[Head(todo[a])],
         manifests[Head(todo[a])] # Broken
  PROVE  LET signed == Releases[trusted[a]]
             id == Head(todo[a])
         IN /\ id = signed.index[n + 1]
            /\ Tail(todo[a]) = SubSeq(signed.index, n + 2, Len(signed.index))
            /\ [loaded[a] EXCEPT ![id] = manifests[id]] = FirstManifests(trusted[a], n + 1)
            /\ \A i \in 1..n + 1 : signed.revision[signed.index[i]] # Broken
            /\ Len(todo[a]) = Len(signed.index) - n
PROOF
<1> DEFINE signed == Releases[trusted[a]]
           ids == signed.index
           id == Head(todo[a])
<1>1. /\ trusted[a] \in Versions /\ ids \in Seq(AllIds) /\ Len(ids) \in Nat
      /\ n \in Nat /\ n + 1 \in 1..Len(ids) /\ Len(ids) \in n + 1..Len(ids)
  BY SignedTypes, LenProperties
<1>2. todo[a] = SubSeq(ids, n + 1, Len(ids)) /\ loaded[a] = FirstManifests(trusted[a], n)
      /\ \A i \in 1..n : signed.revision[ids[i]] # Broken
  BY DEF Progress
<1> HIDE DEF ids
<1>3. id = ids[n + 1] /\ Tail(todo[a]) = SubSeq(ids, (n + 1) + 1, Len(ids))
  BY <1>1, <1>2, HeadTailOfSubSeq
<1>4. (n + 1) + 1 = n + 2
  BY <1>1
<1>5. [loaded[a] EXCEPT ![id] = manifests[id]] = FirstManifests(trusted[a], n + 1)
  <2>1. FirstManifests(trusted[a], n + 1)
          = [FirstManifests(trusted[a], n) EXCEPT ![id] = signed.revision[id]]
    BY <1>1, <1>3, NextManifest DEF ids
  <2> QED
    BY <2>1, <1>2
<1>6. \A i \in 1..n + 1 : signed.revision[ids[i]] # Broken
  <2>1. \A i \in 1..n + 1 : i \in 1..n \/ i = n + 1
    BY <1>1
  <2> QED
    BY <2>1, <1>2, <1>3
<1>7. Len(todo[a]) = Len(ids) - n
  <2>1. \A i \in n + 1..Len(ids) : ids[i] \in AllIds
    BY <1>1, ElementOfSeq
  <2>2. Len(SubSeq(ids, n + 1, Len(ids))) = Len(ids) - (n + 1) + 1
    BY <1>1, <2>1, SubSeqProperties
  <2> QED
    BY <1>1, <1>2, <2>2
<1> QED
  BY <1>3, <1>4, <1>5, <1>6, <1>7 DEF ids

LEMMA LoadChecked ==
  ASSUME Basics, CheckedIsRead, NEW a \in Apps, Load(a)
  PROVE  CheckedIsRead'
PROOF
<1>t. CallTypes /\ ServerTypes /\ CacheTypes /\ TrustedIsKnown
  BY TypeParts DEF Basics
<1>c. Checked(a)
  BY CheckedParts
<1>s. UNCHANGED <<index, manifests>>
  BY DEF Load, LoadMetadata, CheckIndex, ReadIndex, CheckManifest, ReadManifest, cache, files
<1>1. CASE \E curated : Return(a, curated)
  BY <1>1, <1>s, <1>t, ReturnChecked
<1>2. ASSUME NEW label \in PCs, Goto(a, label),
             \A b \in Apps \ {a} : trusted'[b] = trusted[b] /\ todo'[b] = todo[b] /\ loaded'[b] = loaded[b],
             UNCHANGED disturbed, Checked(a)'
      PROVE  CheckedIsRead'
  <2>1. Alone(a)
    BY <1>2, <1>t DEF Alone, CallTypes, Goto
  <2> QED
    BY <2>1, <1>2, <1>s, CheckedByStep
<1>3. CASE LoadMetadata(a)
  <2>1. CASE trusted' = [trusted EXCEPT ![a] = timestamp] /\ Goto(a, "checkIndex")
             /\ UNCHANGED <<todo, loaded, disturbed, result, faults>>
    <3>1. pc'[a] = "checkIndex" /\ loaded'[a] = Empty
      BY <2>1, <1>3, <1>c, <1>t DEF LoadMetadata, Checked, CallTypes, Goto
    <3>2. Checked(a)'
      BY <3>1, NotLoading
    <3> QED
      BY <2>1, <3>2, <1>2, <1>t, Labels DEF CallTypes
  <2> QED
    BY <2>1, <1>1, <1>3 DEF LoadMetadata, Reject
<1>4. CASE CheckIndex(a)
  <2>1. CASE Goto(a, "readIndex") /\ UNCHANGED <<locals, result, faults>>
                /\ index = Releases[trusted[a]].index
    <3>1. UNCHANGED <<trusted, todo, loaded, disturbed>> /\ pc'[a] = "readIndex" /\ pc[a] = "checkIndex"
      BY <2>1, <1>4, <1>t DEF locals, CheckIndex, Goto, CallTypes
    <3>2. Checked(a)'
      BY <2>1, <3>1, <1>c, <1>s DEF Checked
    <3> QED
      BY <2>1, <3>1, <3>2, <1>2, Labels
  <2> QED
    BY <2>1, <1>1, <1>4 DEF CheckIndex, Reject, Verified
<1>5. CASE ReadIndex(a)
  <2>1. CASE /\ index # <<>> /\ todo' = [todo EXCEPT ![a] = index] /\ Goto(a, "check")
             /\ UNCHANGED <<trusted, loaded, disturbed, result, faults>>
    <3>1. pc'[a] = "check" /\ pc[a] = "readIndex" /\ todo'[a] = index /\ loaded'[a] = Empty
      BY <2>1, <1>5, <1>c, <1>t DEF ReadIndex, Goto, CallTypes, Checked
    <3>2. trusted[a] # 0
      BY <3>1, <1>t, Labels DEF TrustedIsKnown
    <3>3. ~disturbed[a] => /\ 0 \in 0..Len(Releases[trusted[a]].index) - 1
                           /\ Progress(a, 0)'
      <4> SUFFICES ASSUME ~disturbed[a]
                   PROVE  /\ 0 \in 0..Len(Releases[trusted[a]].index) - 1
                          /\ Progress(a, 0)'
        OBVIOUS
      <4> DEFINE ids == Releases[trusted[a]].index
      <4>1. index = ids /\ ids \in Seq(AllIds) /\ trusted[a] \in Versions
        BY <3>1, <3>2, <1>c, <1>t, SignedTypes DEF Checked
      <4>2. Len(ids) \in Nat \ {0}
        BY <4>1, <2>1, EmptySeq, LenProperties
      <4>3. SubSeq(ids, 0 + 1, Len(ids)) = ids
        BY <4>1, SubSeqFull
      <4>4. FirstManifests(trusted[a], 0) = Empty
        BY <4>1, NoManifests
      <4> QED
        BY <2>1, <3>1, <4>1, <4>2, <4>3, <4>4 DEF Progress
    <3>4. Checked(a)'
      BY <2>1, <3>1, <3>3 DEF Checked
    <3> QED
      BY <2>1, <3>4, <1>2, <1>t, Labels DEF CallTypes
  <2> QED
    BY <2>1, <1>1, <1>5 DEF ReadIndex, Reject
<1>6. CASE CheckManifest(a)
  <2>1. CASE /\ Goto(a, "read") /\ UNCHANGED <<locals, result, faults>>
             /\ manifests[Head(todo[a])] = Releases[trusted[a]].revision[Head(todo[a])]
    <3>1. UNCHANGED <<trusted, todo, loaded, disturbed>> /\ pc'[a] = "read" /\ pc[a] = "check"
      BY <2>1, <1>6, <1>t DEF locals, CheckManifest, Goto, CallTypes
    <3>2. \A n : Progress(a, n) => Progress(a, n)'
      BY <3>1 DEF Progress
    <3>3. Checked(a)'
      BY <2>1, <3>1, <3>2, <1>c, <1>s DEF Checked
    <3> QED
      BY <2>1, <3>1, <3>3, <1>2, Labels
  <2> QED
    BY <2>1, <1>1, <1>6 DEF CheckManifest, Reject, Verified
<1>7. CASE ReadManifest(a)
  <2> DEFINE id == Head(todo[a])
             now == [loaded[a] EXCEPT ![id] = manifests[id]]
             ids == Releases[trusted[a]].index
  <2>1. CASE manifests[id] # Broken /\ Len(todo[a]) # 1
    <3>1. /\ loaded' = [loaded EXCEPT ![a] = now]
          /\ todo' = [todo EXCEPT ![a] = Tail(todo[a])]
          /\ Goto(a, "check") /\ UNCHANGED <<trusted, disturbed, result, faults>> /\ pc[a] = "read"
      BY <2>1, <1>7 DEF ReadManifest
    <3>2. pc'[a] = "check" /\ loaded'[a] = now /\ todo'[a] = Tail(todo[a]) /\ trusted[a] # 0
      BY <3>1, <1>t, Labels DEF Goto, CallTypes, TrustedIsKnown
    <3>3. ~disturbed[a] => \E n \in 0..Len(ids) - 1 : Progress(a, n)'
      <4> SUFFICES ASSUME ~disturbed[a] PROVE \E n \in 0..Len(ids) - 1 : Progress(a, n)'
        OBVIOUS
      <4>1. PICK n \in 0..Len(ids) - 1 : Progress(a, n)
        BY <3>1, <1>c DEF Checked
      <4>2. manifests[id] = Releases[trusted[a]].revision[id]
        BY <3>1, <1>c DEF Checked
      <4>3. /\ Tail(todo[a]) = SubSeq(ids, n + 2, Len(ids)) /\ now = FirstManifests(trusted[a], n + 1)
            /\ \A i \in 1..n + 1 : Releases[trusted[a]].revision[ids[i]] # Broken
            /\ Len(todo[a]) = Len(ids) - n
        BY <4>1, <4>2, <2>1, <3>2, <1>t, LoopStep
      <4>4. Len(ids) \in Nat
        BY <3>2, <1>t, SignedTypes, LenProperties
      <4>5. n + 1 \in 0..Len(ids) - 1 /\ n + 2 = (n + 1) + 1
        BY <2>1, <4>3, <4>4
      <4>6. Progress(a, n + 1)'
        BY <3>1, <3>2, <4>3, <4>5 DEF Progress
      <4> QED
        BY <4>5, <4>6
    <3>4. Checked(a)'
      BY <3>1, <3>2, <3>3 DEF Checked
    <3> QED
      BY <3>1, <3>4, <1>2, <1>t, Labels DEF CallTypes
  <2> QED
    BY <2>1, <1>1, <1>7 DEF ReadManifest, Reject
<1> QED
  BY <1>3, <1>4, <1>5, <1>6, <1>7 DEF Load

LEMMA CheckedStep == Basics /\ CheckedIsRead /\ [Next]_vars => CheckedIsRead'
PROOF
<1> SUFFICES ASSUME Basics, CheckedIsRead, [Next]_vars PROVE CheckedIsRead'
  OBVIOUS
<1>t. CallTypes
  BY TypeParts DEF Basics
<1>1. ASSUME NEW a \in Apps, Kill(a) PROVE CheckedIsRead'
  <2>1. Alone(a) /\ pc'[a] = "idle" /\ loaded'[a] = Empty /\ UNCHANGED <<index, manifests>>
    BY <1>1, <1>t DEF Kill, Forget, Goto, Alone, CallTypes, cache, files
  <2> QED
    BY <2>1, NotLoading, CheckedByStep
<1>2. CASE Publish \/ Expire \/ Day \/ ClockSetBack \/ UNCHANGED vars
  <2>1. UNCHANGED <<index, manifests, pc, trusted, todo, loaded, disturbed>>
    BY <1>2 DEF Publish, Expire, Day, ClockSetBack, vars, cache, files, running, locals
  <2>2. \A a \in Apps : Checked(a)'
    BY <2>1, CheckedParts, OthersChecked
  <2> QED
    BY <2>2 DEF CheckedIsRead, Checked
<1> QED
  BY <1>1, <1>2, <1>t, RefreshChecked, LoadChecked DEF Next

\* How an undisturbed load ends.
LEMMA LoadEnds ==
  ASSUME Basics, CheckedIsRead, NEW a \in Apps, Load(a), Loads(a), providers'[a] # Refused
  PROVE  providers'[a] \in {ProviderMap(InForce(trusted[a])), ProviderMap(Empty)}
PROOF
<1>t. CallTypes /\ ServerTypes /\ CacheTypes /\ ResultTypes /\ TrustedIsKnown /\ faults \in 0..MaxFaults
  BY TypeParts DEF Basics
<1>l. pc[a] \in Loading /\ ~disturbed[a] /\ pc'[a] = "idle" /\ faults' = faults
  BY DEF Loads
<1>k. trusted[a] # 0
  BY <1>l, <1>t DEF TrustedIsKnown
<1>1. ASSUME NEW curated, Return(a, curated) PROVE providers'[a] = ProviderMap(curated)
  <2>1. ~Fault("local")
    BY <1>l, <1>t, FaultAssumption DEF Fault
  <2> QED
    BY <1>1, <2>1, <1>t DEF Return, ResultTypes
<1>2. CASE Reject(a)
  BY <1>1, <1>2 DEF Reject
<1>3. CASE ~Reject(a)
  <2> DEFINE id == Head(todo[a])
             now == [loaded[a] EXCEPT ![id] = manifests[id]]
             ids == Releases[trusted[a]].index
  <2>1. pc[a] = "read" /\ manifests[id] # Broken /\ Len(todo[a]) = 1 /\ Return(a, now)
    <3>1. \A label \in Loading : ~Goto(a, label)
      BY <1>l, <1>t, Labels DEF Goto, CallTypes
    <3> QED
      BY <3>1, <1>3, <1>l, Labels
      DEF Load, LoadMetadata, CheckIndex, ReadIndex, CheckManifest, ReadManifest
  <2>2. PICK n \in 0..Len(ids) - 1 : Progress(a, n)
    BY <2>1, <1>l DEF CheckedIsRead
  <2>3. manifests[id] = Releases[trusted[a]].revision[id]
    BY <2>1, <1>l DEF CheckedIsRead
  <2>4. /\ now = FirstManifests(trusted[a], n + 1) /\ Len(todo[a]) = Len(ids) - n
        /\ \A i \in 1..n + 1 : Releases[trusted[a]].revision[ids[i]] # Broken
    BY <2>1, <2>2, <2>3, <1>k, <1>t, LoopStep
  <2>5. trusted[a] \in Versions /\ Len(ids) \in Nat
    BY <1>k, <1>t, SignedTypes, LenProperties
  <2>6. n + 1 = Len(ids)
    <3>1. Len(ids) - n = 1
      BY <2>1, <2>4
    <3> HIDE DEF ids
    <3> QED
      BY <3>1, <2>5
  <2>7. now = InForce(trusted[a])
    BY <2>4, <2>5, <2>6, LastManifest
  <2> QED
    BY <2>1, <2>7, <1>1
<1> QED
  BY <1>2, <1>3

\* A load nobody disturbs ends with the manifests of the release its metadata
\* are of, all of them, or with none of the registry's (registry_client.py:36),
\* whatever crashes, failed refreshes and other instances left in the cache:
\* each file is what the metadata sign when it is checked, nobody has written
\* when it is read, and the ids still to come are the rest of the signed index.
THEOREM LoadsAreOfOneRelease == Spec => OneRelease
PROOF
<1> DEFINE Whole ==
      \A a \in Apps :
        (Loads(a) /\ providers'[a] # Refused)
          => providers'[a] \in {ProviderMap(InForce(trusted[a])), ProviderMap(Empty)}
<1>1. Basics /\ CheckedIsRead /\ [Next]_vars => [Whole]_vars
  <2> SUFFICES ASSUME Basics, CheckedIsRead, Next, NEW a \in Apps, Loads(a), providers'[a] # Refused
               PROVE  providers'[a] \in {ProviderMap(InForce(trusted[a])), ProviderMap(Empty)}
    OBVIOUS
  <2>t. CallTypes /\ faults \in 0..MaxFaults
    BY TypeParts DEF Basics
  <2>l. /\ pc[a] \in Loading /\ pc'[a] = "idle" /\ pc[a] # "idle" /\ faults' = faults
        /\ pc[a] \notin Refreshing /\ \A name : ~Fault(name)
    BY <2>t, FaultAssumption, Labels DEF Loads, Fault
  <2>1. ~(Publish \/ Expire \/ Day \/ ClockSetBack)
    BY <2>l DEF Publish, Expire, Day, ClockSetBack, running
  <2>2. ASSUME NEW b \in Apps \ {a} 
        PROVE  ~(\/ \E refresh \in BOOLEAN : Begin(b, refresh)
                 \/ Refresh(b) \/ RefreshFails(b) \/ Load(b) \/ Kill(b))
    <3>1. \A label : Goto(b, label) => pc'[a] = pc[a]
      BY <2>2, <2>t DEF Goto, CallTypes
    <3>2. ~((\E refresh \in BOOLEAN : Begin(b, refresh)) \/ RefreshFails(b) \/ Kill(b))
      BY <3>1, <2>l DEF Begin, RefreshFails, Kill
    <3>3. ~Refresh(b)
      BY <3>1, <2>l DEF Refresh, AskTimestamp, KeepTimestamp, KeepTargets, FetchIndex, FetchManifest,
                        WriteState, ThenLoad
    <3>4. ~Load(b)
      BY <3>1, <2>l DEF Load, LoadMetadata, CheckIndex, ReadIndex, CheckManifest, ReadManifest,
                        Reject, Return
    <3> QED
      BY <3>2, <3>3, <3>4
  <2>3. Load(a)
    <3>1. ~((\E refresh \in BOOLEAN : Begin(a, refresh)) \/ RefreshFails(a) \/ Kill(a))
      BY <2>l DEF Begin, RefreshFails, Kill
    <3>2. ~Refresh(a)
      BY <2>l, Labels DEF Refresh, AskTimestamp, KeepTimestamp, KeepTargets, FetchIndex,
                          FetchManifest, WriteState
    <3> QED
      BY <2>1, <2>2, <3>1, <3>2 DEF Next
  <2> QED
    BY <2>3, LoadEnds
<1> QED
  BY <1>1, InitBasic, BasicStep, InitChecked, CheckedStep, PTL DEF Spec, OneRelease
=============================================================================
