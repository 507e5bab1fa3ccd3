--------------------------- MODULE Catalog_proofs ---------------------------
(***************************************************************************)
(* Proofs about module Catalog, for any number of instances, ISOs and      *)
(* disturbances.                                                           *)
(***************************************************************************)
EXTENDS Catalog, TLAPS

Entries == [hash : Contents, identity : Identities]

LEMMA FaultTypes ==
  ASSUME faults \in 0..MaxFaults, NEW name, Fault(name)
  PROVE  faults' \in 0..MaxFaults
BY FaultAssumption DEF Fault

LEMMA RecordTypes ==
  /\ Empty \in Records
  /\ \A known \in Records : \A iso \in Isos : known[iso] \in Entries \cup {Nothing}
  /\ \A known \in Records : \A iso \in Isos : \A entry \in Entries :
       [known EXCEPT ![iso] = entry] \in Records
BY DEF Empty, Records, Entries

LEMMA DocumentTypes ==
  /\ \A known \in Records : \A synced \in BOOLEAN : 
       [records |-> known, synced |-> synced] \in Documents
  /\ \A document \in Documents :
       /\ document.records \in Records /\ document.synced \in BOOLEAN
       /\ [document EXCEPT !.synced = TRUE] \in Documents
  /\ Torn \notin Documents /\ Torn.records = Nothing
BY NothingAssumption DEF Documents, Torn

LEMMA JobTypes ==
  ASSUME TypeOK, NEW a \in Apps
  PROVE  /\ job[a][1] \in Isos /\ job[a][2] \in Identities
         /\ job[a] = <<job[a][1], job[a][2]>>
BY DEF TypeOK

LEMMA InitTypes == Init => TypeOK
PROOF
<1> SUFFICES ASSUME Init PROVE TypeOK
  OBVIOUS
<1>0. \E j \in Isos \X Identities : TRUE
  <2>1. PICK iso \in Isos, identity \in Identities : TRUE
    BY SomeAssumption
  <2> WITNESS <<iso, identity>> \in Isos \X Identities
  <2> QED
    OBVIOUS
<1>1. (CHOOSE j \in Isos \X Identities : TRUE) \in Isos \X Identities
  BY <1>0
<1>c. (CHOOSE c \in Contents : TRUE) \in Contents
  BY SomeAssumption
<1>2. job \in [Apps -> Isos \X Identities] /\ hash \in [Apps -> Contents]
  BY <1>1, <1>c DEF Init
<1>3. catalog \in Documents
  BY RecordTypes, DocumentTypes DEF Init
<1>4. 0 \in 0..MaxFaults /\ 0 \in 0..MaxAssignments
  BY FaultAssumption, CountAssumption
<1>5. pc \in [Apps -> PCs] /\ \A a \in Apps : pc[a] \notin Writing
  BY DEF Init, PCs, Writing
<1> QED
  BY <1>2, <1>3, <1>4, <1>5, RecordTypes DEF Init, TypeOK

\* Every statement of an assignment keeps the types.
LEMMA StepTypes ==
  ASSUME TypeOK, NEW a \in Apps, Step(a)
  PROVE  TypeOK'
PROOF
<1> USE DEF TypeOK, files, locals, history, Goto
<1>j. job[a][1] \in Isos /\ job[a][2] \in Identities
  BY JobTypes
<1>l. "idle" \in PCs /\ "read" \in PCs /\ "hash" \in PCs /\ "write" \in PCs /\ "sync" \in PCs
      /\ "replace" \in PCs
  BY DEF PCs, Writing
<1>w. \A label : label \in Writing <=> label \in {"sync", "replace"}
  BY DEF Writing
<1> USE <1>j, <1>l, <1>w
<1>1. CASE Choose(a)
  <2>1. PICK iso \in Isos, identity \in Identities :
          /\ job' = [job EXCEPT ![a] = <<iso, identity>>]
          /\ meant' = meant \cup {<<iso, content[iso], identity>>}
    BY <1>1 DEF Choose
  <2>2. job' \in [Apps -> Isos \X Identities] /\ meant' \subseteq Isos \X Contents \X Identities
    BY <2>1
  <2>3. assigned' \in 0..MaxAssignments
    BY <1>1, CountAssumption DEF Choose
  <2> QED
    BY <1>1, <2>2, <2>3 DEF Choose
<1>2. CASE Read(a)
  <2>1. records' \in [Apps -> Records]
    BY <1>2, DocumentTypes DEF Read
  <2> QED
    BY <1>2, <2>1 DEF Read
<1>3. CASE Hash(a)
  BY <1>3 DEF Hash
<1>4. CASE WriteTemporary(a)
  <2> DEFINE known == [records[a] EXCEPT ![job[a][1]] = [hash |-> hash[a], identity |-> job[a][2]]]
             new == [records |-> known, synced |-> FALSE]
  <2>1. known \in Records
    BY RecordTypes DEF Entries
  <2>2. new \in Documents /\ new # Nothing
    BY <2>1, DocumentTypes, NothingAssumption
  <2>3. temporary' = [temporary EXCEPT ![a] = new]
    BY <1>4 DEF WriteTemporary
  <2> HIDE DEF new
  <2> QED
    BY <1>4, <2>2, <2>3 DEF WriteTemporary
<1>5. CASE Sync(a)
  <2>1. temporary[a] \in Documents
    BY <1>5 DEF Sync
  <2> DEFINE new == [temporary[a] EXCEPT !.synced = TRUE]
  <2>2. new \in Documents /\ new # Nothing
    BY <2>1, DocumentTypes, NothingAssumption
  <2>3. temporary' = [temporary EXCEPT ![a] = new]
    BY <1>5 DEF Sync
  <2> HIDE DEF new
  <2> QED
    BY <1>5, <2>2, <2>3 DEF Sync
<1>6. CASE Replace(a)
  <2>1. temporary[a] \in Documents
    BY <1>6 DEF Replace
  <2> QED
    BY <1>6, <2>1 DEF Replace
<1>7. CASE Fails(a)
  BY <1>7, FaultTypes DEF Fails
<1>8. CASE Kill(a)
  BY <1>8, FaultTypes DEF Kill
<1> QED
  BY <1>1, <1>2, <1>3, <1>4, <1>5, <1>6, <1>7, <1>8 DEF Step

LEMMA TypeStep == TypeOK /\ [Next]_vars => TypeOK'
PROOF
<1> SUFFICES ASSUME TypeOK, [Next]_vars PROVE TypeOK'
  OBVIOUS
<1> USE DEF TypeOK, files, locals, history
<1>1. CASE PowerLoss
  <2>1. catalog' \in Documents \cup {Torn}
    BY <1>1 DEF PowerLoss, AfterPowerLoss
  <2>2. /\ pc' = [a \in Apps |-> "idle"] /\ "idle" \notin Writing /\ "idle" \in PCs
        /\ temporary' = [a \in Apps |-> Nothing]
    BY <1>1 DEF PowerLoss, Writing, PCs
  <2> QED
    BY <1>1, <2>1, <2>2, FaultTypes DEF PowerLoss
<1>2. CASE Writeback
  BY <1>2 DEF Writeback
<1>3. ASSUME NEW iso \in Isos, Change(iso) PROVE TypeOK'
  BY <1>3, FaultTypes DEF Change
<1>4. CASE UNCHANGED vars
  BY <1>4 DEF vars
<1> QED
  BY <1>1, <1>2, <1>3, <1>4, StepTypes DEF Next

\* Every variable keeps its type, and an instance has a temporary file only
\* while it writes one.
THEOREM CatalogTypeCorrect == Spec => []TypeOK
BY InitTypes, TypeStep, PTL DEF Spec
-----------------------------------------------------------------------------
(* Power loss *)

LEMMA InitSynced == Init => DocumentsSynced
PROOF
<1> SUFFICES ASSUME Init PROVE DocumentsSynced
  OBVIOUS
<1>1. catalog \in Documents /\ catalog.synced /\ earlier = {}
  BY RecordTypes, DocumentTypes DEF Init
<1>2. \A a \in Apps : pc[a] # "replace"
  BY DEF Init
<1> QED
  BY <1>1, <1>2 DEF DocumentsSynced

LEMMA SyncedStep == TypeOK /\ DocumentsSynced /\ [Next]_vars => DocumentsSynced'
PROOF
<1> SUFFICES ASSUME TypeOK, DocumentsSynced, [Next]_vars PROVE DocumentsSynced'
  OBVIOUS
<1> USE DEF DocumentsSynced, files, locals, history
<1>t. pc \in [Apps -> PCs] /\ temporary \in [Apps -> Documents \cup {Nothing}]
  BY DEF TypeOK
<1>1. ASSUME NEW a \in Apps, Step(a) PROVE DocumentsSynced'
  <2>1. CASE Choose(a) \/ Hash(a) \/ WriteTemporary(a)
    BY <1>t, <2>1 DEF Choose, Hash, WriteTemporary, Goto
  <2>2. CASE Read(a)
    BY <1>t, <2>2 DEF Read, Goto
  <2>3. CASE Sync(a)
    <3>1. temporary[a] \in Documents
      BY <2>3 DEF Sync, TypeOK, Writing
    <3>2. temporary' = [temporary EXCEPT ![a] = [temporary[a] EXCEPT !.synced = TRUE]]
      BY <2>3 DEF Sync
    <3>3. temporary'[a].synced
      BY <1>t, <3>1, <3>2 DEF Documents
    <3> QED
      BY <1>t, <2>3, <3>2, <3>3 DEF Sync, Goto
  <2>4. CASE Replace(a)
    <3>1. temporary[a] \in Documents
      BY <2>4 DEF Replace, TypeOK, Writing
    <3> QED
      BY <1>t, <2>4, <3>1 DEF Replace, Goto
  <2>5. CASE Fails(a) \/ Kill(a)
    BY <1>t, <2>5 DEF Fails, Kill, Goto
  <2> QED
    BY <1>1, <2>1, <2>2, <2>3, <2>4, <2>5 DEF Step
<1>2. CASE PowerLoss
  BY <1>2 DEF PowerLoss, AfterPowerLoss
<1>3. CASE Writeback
  BY <1>3 DEF Writeback
<1>4. ASSUME NEW iso \in Isos, Change(iso) PROVE DocumentsSynced'
  BY <1>4 DEF Change
<1>5. CASE UNCHANGED vars
  BY <1>5 DEF vars
<1> QED
  BY <1>1, <1>2, <1>3, <1>4, <1>5 DEF Next

LEMMA SyncedAlways == Spec => [](TypeOK /\ DocumentsSynced)
BY InitTypes, InitSynced, TypeStep, SyncedStep, PTL DEF Spec

\* The document can be read after every crash and power loss.
THEOREM CatalogIsNeverTorn == Spec => []NeverTorn
PROOF
<1>1. DocumentsSynced => NeverTorn
  BY DocumentTypes DEF DocumentsSynced, NeverTorn
<1> QED
  BY <1>1, SyncedAlways, PTL

-----------------------------------------------------------------------------
(* What the document holds *)

LEMMA InitMore == Init => OneRecordMore
BY DEF Init, OneRecordMore, Writing

LEMMA MoreStep == TypeOK /\ OneRecordMore /\ [Next]_vars => OneRecordMore'
PROOF
<1> SUFFICES ASSUME TypeOK, OneRecordMore, [Next]_vars PROVE OneRecordMore'
  OBVIOUS
<1> USE DEF OneRecordMore, files, locals, history
<1>t. /\ pc \in [Apps -> PCs] /\ temporary \in [Apps -> Documents \cup {Nothing}]
      /\ records \in [Apps -> Records] /\ hash \in [Apps -> Contents]
      /\ job \in [Apps -> Isos \X Identities]
  BY DEF TypeOK
<1>w. \A label : label \in Writing <=> label \in {"sync", "replace"}
  BY DEF Writing
<1>1. ASSUME NEW a \in Apps, Step(a) PROVE OneRecordMore'
  <2>1. CASE Choose(a) \/ Read(a) \/ Hash(a)
    <3>1. /\ pc'[a] \notin Writing /\ UNCHANGED temporary
          /\ \A b \in Apps \ {a} : /\ pc'[b] = pc[b] /\ records'[b] = records[b]
                                   /\ job'[b] = job[b] /\ hash'[b] = hash[b]
      BY <1>t, <1>w, <2>1 DEF Choose, Read, Hash, Goto
    <3> QED
      BY <3>1
  <2>2. CASE WriteTemporary(a)
    <3>1. /\ temporary'[a].records =
                [records[a] EXCEPT ![job[a][1]] = [hash |-> hash[a], identity |-> job[a][2]]]
          /\ \A b \in Apps \ {a} : pc'[b] = pc[b] /\ temporary'[b] = temporary[b]
          /\ UNCHANGED <<records, job, hash>>
      BY <1>t, <2>2 DEF WriteTemporary, Goto
    <3> QED
      BY <3>1
  <2>3. CASE Sync(a)
    <3>1. temporary[a] \in Documents
      BY <2>3, <1>w DEF Sync, TypeOK
    <3>2. temporary' = [temporary EXCEPT ![a] = [temporary[a] EXCEPT !.synced = TRUE]]
      BY <2>3 DEF Sync
    <3>3. temporary'[a].records = temporary[a].records
      BY <1>t, <3>1, <3>2 DEF Documents
    <3>4. /\ \A b \in Apps \ {a} : pc'[b] = pc[b] /\ temporary'[b] = temporary[b]
          /\ UNCHANGED <<records, job, hash>> /\ pc[a] \in Writing
      BY <1>t, <1>w, <2>3 DEF Sync, Goto
    <3> QED
      BY <3>3, <3>4
  <2>4. CASE Replace(a) \/ Fails(a) \/ Kill(a)
    <3>1. /\ pc'[a] \notin Writing
          /\ \A b \in Apps \ {a} : pc'[b] = pc[b] /\ temporary'[b] = temporary[b]
          /\ UNCHANGED <<records, job, hash>>
      BY <1>t, <1>w, <2>4 DEF Replace, Fails, Kill, Goto
    <3> QED
      BY <3>1
  <2> QED
    BY <1>1, <2>1, <2>2, <2>3, <2>4 DEF Step
<1>2. CASE PowerLoss
  BY <1>2, <1>w DEF PowerLoss
<1>3. CASE Writeback
  BY <1>3 DEF Writeback
<1>4. ASSUME NEW iso \in Isos, Change(iso) PROVE OneRecordMore'
  BY <1>4 DEF Change
<1>5. CASE UNCHANGED vars
  BY <1>5 DEF vars
<1> QED
  BY <1>1, <1>2, <1>3, <1>4, <1>5 DEF Next

LEMMA MoreAlways == Spec => [](TypeOK /\ DocumentsSynced /\ OneRecordMore)
BY InitTypes, InitSynced, InitMore, TypeStep, SyncedStep, MoreStep, PTL DEF Spec

\* A record is lost only to an instance that had read an older document, or
\* with a directory entry that power loss takes back.
THEOREM RecordsAreKept == Spec => KeptUnlessOverlapped
PROOF
<1> DEFINE Kept(iso) ==
      \/ catalog'.records = Nothing
      \/ catalog'.records[iso] = catalog.records[iso]
      \/ catalog' \in earlier
      \/ \E a \in Apps :
           /\ pc[a] = "replace" /\ pc'[a] = "idle"
           /\ job[a][1] = iso \/ records[a] # catalog.records
<1>1. TypeOK /\ DocumentsSynced /\ OneRecordMore /\ [Next]_vars
      => [\A iso \in Isos : Kept(iso)]_vars
  <2> SUFFICES ASSUME TypeOK, DocumentsSynced, OneRecordMore, Next, NEW iso \in Isos
               PROVE  Kept(iso)
    BY DEF vars
  <2>1. ASSUME NEW a \in Apps, Step(a) PROVE Kept(iso)
    <3>1. CASE Replace(a)
      <4>1. catalog' = temporary[a] /\ pc[a] = "replace" /\ pc'[a] = "idle"
        BY <3>1 DEF Replace, Goto, TypeOK
      <4>2. CASE job[a][1] = iso \/ records[a] # catalog.records
        BY <4>1, <4>2
      <4>3. CASE job[a][1] # iso /\ records[a] = catalog.records
        <5>1. catalog'.records = [catalog.records EXCEPT ![job[a][1]] =
                                    [hash |-> hash[a], identity |-> job[a][2]]]
          BY <4>1, <4>3 DEF OneRecordMore, Writing
        <5>2. catalog.records \in Records
          BY DocumentTypes DEF DocumentsSynced
        <5>3. catalog'.records[iso] = catalog.records[iso]
          BY <4>3, <5>1, <5>2 DEF Records
        <5> QED
          BY <5>3
      <4> QED
        BY <4>2, <4>3
    <3>2. CASE Choose(a) \/ Read(a) \/ Hash(a) \/ WriteTemporary(a) \/ Sync(a) \/ Fails(a) \/ Kill(a)
      <4>1. UNCHANGED catalog
        BY <3>2 DEF Choose, Read, Hash, WriteTemporary, Sync, Fails, Kill, files
      <4> QED
        BY <4>1
    <3> QED
      BY <2>1, <3>1, <3>2 DEF Step
  <2>2. CASE PowerLoss
    BY <2>2 DEF PowerLoss, AfterPowerLoss, DocumentsSynced
  <2>3. CASE Writeback \/ \E other \in Isos : Change(other)
    <3>1. UNCHANGED catalog
      BY <2>3 DEF Writeback, Change
    <3> QED
      BY <3>1
  <2> QED
    BY <2>1, <2>2, <2>3 DEF Next
<1> QED
  BY <1>1, MoreAlways, PTL DEF Spec, KeptUnlessOverlapped, Kept
-----------------------------------------------------------------------------
(* What the user has said *)

LEMMA SaidNext ==
  ASSUME NEW known, Said(known), meant \subseteq meant'
  PROVE  Said(known)'
BY DEF Said

LEMMA AllSaidNext ==
  ASSUME AllSaid, meant \subseteq meant', UNCHANGED <<catalog, earlier, records>>
  PROVE  AllSaid'
BY DEF AllSaid, Said

LEMMA InitSaid == Init => AllSaid /\ HashIsMeant
PROOF
<1> SUFFICES ASSUME Init PROVE AllSaid /\ HashIsMeant
  OBVIOUS
<1>1. Said(Empty)
  BY DEF Said, Empty
<1>2. /\ catalog.records = Empty /\ earlier = {} /\ \A a \in Apps : records[a] = Empty
      /\ \A a \in Apps : pc[a] = "idle"
  BY DEF Init
<1> QED
  BY <1>1, <1>2 DEF AllSaid, HashIsMeant, Writing

\* Nobody modifies an ISO while it is identified and hashed; then what is
\* hashed is what the user saw.
LEMMA SaidStep ==
  ASSUME "changeWhileAssigning" \notin Faults
  PROVE  TypeOK /\ DocumentsSynced /\ OneRecordMore /\ AllSaid /\ HashIsMeant /\ [Next]_vars
         => AllSaid' /\ HashIsMeant'
PROOF
<1> SUFFICES ASSUME TypeOK, DocumentsSynced, OneRecordMore, AllSaid, HashIsMeant, [Next]_vars
             PROVE  AllSaid' /\ HashIsMeant'
  OBVIOUS
<1> USE DEF files, locals, history
<1>t. /\ pc \in [Apps -> PCs] /\ temporary \in [Apps -> Documents \cup {Nothing}]
      /\ records \in [Apps -> Records] /\ hash \in [Apps -> Contents]
      /\ job \in [Apps -> Isos \X Identities] /\ content \in [Isos -> Contents]
  BY DEF TypeOK
<1>w. \A label : label \in Writing <=> label \in {"sync", "replace"}
  BY DEF Writing
<1>1. ASSUME NEW a \in Apps, Step(a) PROVE AllSaid' /\ HashIsMeant'
  \* The other instances' jobs are not touched.
  <2>o. ASSUME UNCHANGED content, meant \subseteq meant',
               \A b \in Apps \ {a} :
                 pc'[b] = pc[b] /\ job'[b] = job[b] /\ hash'[b] = hash[b],
               pc'[a] \in {"read", "hash"} => <<job'[a][1], content'[job'[a][1]], job'[a][2]>> \in meant',
               pc'[a] \in {"write"} \cup Writing => <<job'[a][1], hash'[a], job'[a][2]>> \in meant'
        PROVE  HashIsMeant'
    BY <2>o DEF HashIsMeant
  <2>1. CASE Choose(a)
    <3>1. PICK iso \in Isos, identity \in Identities :
            /\ job' = [job EXCEPT ![a] = <<iso, identity>>]
            /\ meant' = meant \cup {<<iso, content[iso], identity>>}
      BY <2>1 DEF Choose
    <3>2. pc' = [pc EXCEPT ![a] = "read"] /\ UNCHANGED <<content, catalog, earlier, records, hash>>
      BY <2>1 DEF Choose, Goto
    <3>3. job'[a] = <<iso, identity>> /\ pc'[a] = "read"
      BY <1>t, <3>1, <3>2
    <3> QED
      BY <1>t, <1>w, <2>o, <3>1, <3>2, <3>3, AllSaidNext
  <2>2. CASE Read(a)
    <3>1. AllSaid'
      BY <1>t, <2>2 DEF Read, AllSaid, Said
    <3>2. /\ pc[a] = "read" /\ pc'[a] \in {"idle", "hash"}
          /\ \A b \in Apps \ {a} : pc'[b] = pc[b]
          /\ UNCHANGED <<content, meant, job, hash>>
      BY <1>t, <2>2 DEF Read, Goto
    <3>3. HashIsMeant'
      BY <1>w, <3>2 DEF HashIsMeant
    <3> QED
      BY <3>1, <3>3
  <2>3. CASE Hash(a)
    <3>1. AllSaid'
      BY <2>3, AllSaidNext DEF Hash
    <3>2. /\ pc[a] = "hash" /\ pc'[a] = "write" /\ hash'[a] = content[job[a][1]]
          /\ \A b \in Apps \ {a} : pc'[b] = pc[b] /\ hash'[b] = hash[b]
          /\ UNCHANGED <<content, meant, job>>
      BY <1>t, <2>3 DEF Hash, Goto
    <3>3. HashIsMeant'
      BY <1>w, <3>2 DEF HashIsMeant
    <3> QED
      BY <3>1, <3>3
  <2>4. CASE WriteTemporary(a) \/ Sync(a) \/ Fails(a) \/ Kill(a)
    <3>1. AllSaid'
      BY <2>4, AllSaidNext DEF WriteTemporary, Sync, Fails, Kill
    <3>2. /\ pc'[a] \in {"idle"} \/ (pc[a] \in {"write"} \cup Writing /\ pc'[a] \in Writing)
          /\ \A b \in Apps \ {a} : pc'[b] = pc[b]
          /\ UNCHANGED <<content, meant, job, hash>>
      BY <1>t, <1>w, <2>4 DEF WriteTemporary, Sync, Fails, Kill, Goto
    <3>3. HashIsMeant'
      BY <1>w, <3>2 DEF HashIsMeant
    <3> QED
      BY <3>1, <3>3
  <2>5. CASE Replace(a)
    <3>1. /\ catalog' = temporary[a] /\ earlier' = earlier \cup {catalog} /\ pc[a] = "replace"
          /\ UNCHANGED <<content, meant, job, hash, records>>
      BY <2>5 DEF Replace
    <3>2. catalog'.records = [records[a] EXCEPT ![job[a][1]] =
                                [hash |-> hash[a], identity |-> job[a][2]]]
      BY <1>w, <3>1 DEF OneRecordMore
    <3>3. <<job[a][1], hash[a], job[a][2]>> \in meant /\ Said(records[a])
      BY <1>w, <3>1 DEF HashIsMeant, AllSaid
    <3>4. Said(catalog.records)'
      <4> SUFFICES ASSUME NEW iso \in Isos, catalog'.records[iso] # Nothing
                   PROVE  <<iso, catalog'.records[iso].hash, catalog'.records[iso].identity>> \in meant
        BY <3>1 DEF Said
      <4>1. CASE iso = job[a][1]
        <5>1. catalog'.records[iso] = [hash |-> hash[a], identity |-> job[a][2]]
          BY <1>t, <3>2, <4>1 DEF Records
        <5> QED
          BY <3>3, <4>1, <5>1
      <4>2. CASE iso # job[a][1]
        <5>1. catalog'.records[iso] = records[a][iso]
          BY <1>t, <3>2, <4>2 DEF Records
        <5> QED
          BY <3>3, <5>1 DEF Said
      <4> QED
        BY <4>1, <4>2
    <3>5. AllSaid'
      BY <3>1, <3>4 DEF AllSaid, Said
    <3>6. pc'[a] = "idle" /\ \A b \in Apps \ {a} : pc'[b] = pc[b]
      BY <1>t, <2>5 DEF Replace, Goto
    <3>7. HashIsMeant'
      BY <1>w, <3>1, <3>6 DEF HashIsMeant
    <3> QED
      BY <3>5, <3>7
  <2> QED
    BY <1>1, <2>1, <2>2, <2>3, <2>4, <2>5 DEF Step
<1>2. CASE PowerLoss
  <2>1. PICK document \in {catalog} \cup earlier : catalog' = AfterPowerLoss(document)
    BY <1>2 DEF PowerLoss
  <2>2. catalog' = document /\ Said(document.records)
    BY <2>1 DEF DocumentsSynced, AfterPowerLoss, AllSaid
  <2>3. earlier' = {} /\ UNCHANGED <<content, meant, job, records, hash>>
    BY <1>2 DEF PowerLoss
  <2>4. \A a \in Apps : pc'[a] = "idle"
    BY <1>2 DEF PowerLoss
  <2>5. AllSaid'
    BY <2>2, <2>3 DEF AllSaid, Said
  <2>6. HashIsMeant'
    BY <1>w, <2>4 DEF HashIsMeant
  <2> QED
    BY <2>5, <2>6
<1>3. CASE Writeback
  BY <1>3 DEF Writeback, AllSaid, Said, HashIsMeant
<1>4. ASSUME NEW iso \in Isos, Change(iso) PROVE AllSaid' /\ HashIsMeant'
  <2>1. /\ UNCHANGED <<catalog, earlier, pc, job, records, hash, meant>>
        /\ \A other \in Isos \ {iso} : content'[other] = content[other]
        /\ \A a \in Apps : pc[a] \in {"read", "hash"} => job[a][1] # iso
    BY <1>t, <1>4 DEF Change
  <2>2. AllSaid'
    BY <2>1, AllSaidNext
  <2>3. \A a \in Apps : job[a][1] \in Isos
    BY JobTypes
  <2>4. HashIsMeant'
    BY <2>1, <2>3 DEF HashIsMeant
  <2> QED
    BY <2>2, <2>4
<1>5. CASE UNCHANGED vars
  BY <1>5 DEF vars, AllSaid, Said, HashIsMeant
<1> QED
  BY <1>1, <1>2, <1>3, <1>4, <1>5 DEF Next

\* An identity found for an ISO is one the user gave to its content of now,
\* across crashes, power loss and other instances of the program.
THEOREM IdentitiesAreMeant ==
  ASSUME "changeWhileAssigning" \notin Faults
  PROVE  Spec => []OnlyWhatWasMeant
PROOF
<1>1. AllSaid => OnlyWhatWasMeant
  BY DEF AllSaid, Said, OnlyWhatWasMeant, Lookup
<1>2. Spec => [](TypeOK /\ DocumentsSynced /\ OneRecordMore /\ AllSaid /\ HashIsMeant)
  BY InitTypes, InitSynced, InitMore, InitSaid, TypeStep, SyncedStep, MoreStep, SaidStep, PTL
  DEF Spec
<1> QED
  BY <1>1, <1>2, PTL
=============================================================================
