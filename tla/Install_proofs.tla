--------------------------- MODULE Install_proofs ---------------------------
(***************************************************************************)
(* Proofs about module Install, for any number of drives, blocks and       *)
(* disturbances.                                                           *)
(***************************************************************************)
EXTENDS Install, SequenceTheorems, TLAPS

\* Cutting a file leaves a file.
LEMMA CutIsFile ==
  ASSUME NEW f \in File, NEW n \in f.flushed..Len(f.data)
  PROVE  /\ Cut(f, n) \in File
         /\ Cut(f, n).kind = f.kind
         /\ Cut(f, n).flushed = n
         /\ Cut(f, n).data = SubSeq(f.data, 1, n)
         /\ Len(Cut(f, n).data) = n
PROOF
<1>1. f.data \in Seq(BOOLEAN) /\ f.flushed \in Nat /\ Len(f.data) \in Nat
  BY DEF File
<1>2. n \in Nat /\ n <= Len(f.data)
  BY <1>1
<1>3. SubSeq(f.data, 1, n) \in Seq(BOOLEAN) /\ Len(SubSeq(f.data, 1, n)) = n
  BY <1>1, <1>2, SubSeqProperties
<1> QED
  BY <1>1, <1>2, <1>3 DEF Cut, File

\* Flushing a file leaves a file with the same data, all of it flushed.
LEMMA FlushIsFile ==
  ASSUME NEW f \in File
  PROVE  /\ Flush(f) \in File
         /\ Flush(f).kind = f.kind /\ Flush(f).data = f.data
         /\ Flush(f).flushed = Len(f.data)
PROOF
<1>1. Len(f.data) \in Nat
  BY DEF File
<1> QED
  BY <1>1 DEF Flush, File

\* A file that is flushed to its end loses nothing when power is lost.
LEMMA CutOfFlushed ==
  ASSUME NEW f \in File, f.flushed = Len(f.data), NEW n \in f.flushed..Len(f.data)
  PROVE  Cut(f, n).data = f.data /\ Cut(f, n).flushed = Len(f.data)
PROOF
<1>1. f.data \in Seq(BOOLEAN) /\ Len(f.data) \in Nat
  BY DEF File
<1>2. n = Len(f.data)
  BY <1>1
<1>3. SubSeq(f.data, 1, Len(f.data)) = f.data
  BY <1>1, SubSeqFull
<1> QED
  BY <1>2, <1>3, CutIsFile

\* An empty file stays as it is.
LEMMA CutOfNothing ==
  ASSUME NEW f \in File, f.data = <<>>, f.flushed = 0
  PROVE  Cut(f, 0) = f
PROOF
<1>1. /\ Cut(f, 0) \in File /\ Cut(f, 0).kind = f.kind /\ Cut(f, 0).flushed = f.flushed
      /\ Cut(f, 0).data = SubSeq(f.data, 1, 0)
  BY CutIsFile
<1>2. SubSeq(f.data, 1, 0) = f.data
  BY SubSeqEmpty
<1> QED
  BY <1>1, <1>2 DEF File
-----------------------------------------------------------------------------
(* Types *)

LEMMA FilesAreFiles == NoFile \in File /\ ForeignFile \in File /\ EmptyImage \in File
BY DEF NoFile, ForeignFile, EmptyImage, File, Kinds

\* One more block, good or bad, leaves a file.
LEMMA AppendIsFile ==
  ASSUME NEW f \in File, NEW good \in BOOLEAN
  PROVE  [f EXCEPT !.data = Append(@, good)] \in File
BY DEF File

LEMMA ClosedIsHandle == Closed \in Handles
BY DriveAssumption DEF Closed, Handles

LEMMA Labels ==
  /\ InTry \subseteq PCs /\ Handling \subseteq PCs
  /\ {"idle", "download", "check", "open", "copy", "verify", "recheck", "exists", "sync",
      "rename", "syncdir", "trash", "cleanup", "unlink"} \subseteq PCs
BY DEF PCs, InTry, Handling

\* A write through a handle leaves files and touches nothing else.
LEMMA WriteIsFile ==
  ASSUME TypeOK, NEW w \in Workers, NEW f \in File, Write(w, f)
  PROVE  partial' \in [Drives -> File] /\ final' \in [Drives -> File]
BY DEF TypeOK, DriveTypeOK, Write

LEMMA HeldIsFile ==
  ASSUME TypeOK, NEW w \in Workers
  PROVE  Held(w) \in File
BY DEF TypeOK, DriveTypeOK, RunTypeOK, Held, Handles

LEMMA LostAreFiles ==
  ASSUME TypeOK, NEW d \in Drives, LoseUnsynced(d)
  PROVE  partial' \in [Drives -> File] /\ final' \in [Drives -> File]
PROOF
<1>1. partial \in [Drives -> File] /\ final \in [Drives -> File]
  BY DEF TypeOK, DriveTypeOK
<1>2. \A n \in partial[d].flushed..Len(partial[d].data) : Cut(partial[d], n) \in File
  BY <1>1, CutIsFile
<1>3. \A n \in final[d].flushed..Len(final[d].data) : Cut(final[d], n) \in File
  BY <1>1, CutIsFile
<1> QED
  BY <1>1, <1>2, <1>3, FilesAreFiles DEF LoseUnsynced

LEMMA RedirectedAreHandles ==
  ASSUME TypeOK, NEW d \in Drives
  PROVE  /\ Redirected(d, [partial |-> "final", final |-> "unlinked"]) \in [Workers -> Handles]
         /\ Redirected(d, [partial |-> "unlinked"]) \in [Workers -> Handles]
BY DEF TypeOK, RunTypeOK, Redirected, Handles

LEMMA InitTypes == Init => TypeOK
BY FilesAreFiles, ClosedIsHandle, Labels, DriveAssumption, BlocksAssumption, FaultAssumption
   DEF Init, TypeOK, DriveTypeOK, RunTypeOK, Results

\* What Continue, Return and Raise leave a run as.
LEMMA MoveTypes ==
  ASSUME RunTypeOK, NEW w \in Workers, NEW label \in PCs, NEW outcome \in Results,
         \/ Continue(w, label) \/ Return(w, outcome) \/ Raise(w, outcome)
  PROVE  RunTypeOK'
BY ClosedIsHandle, Labels DEF RunTypeOK, Continue, Return, Raise, Goto, Close

LEMMA FaultTypes ==
  ASSUME faults \in 0..MaxFaults, NEW name,
         \/ Fault(name) \/ UNCHANGED faults
  PROVE  faults' \in 0..MaxFaults
BY FaultAssumption DEF Fault
\* Every statement of a run keeps the types.
LEMMA StepTypes ==
  ASSUME TypeOK, NEW w \in Workers, Step(w)
  PROVE  TypeOK'
PROOF
<1> USE DEF TypeOK
<1>0. {"added", "failed", "cancelled", "running"} \subseteq Results
  BY DEF Results
<1>1. CASE Begin(w)
  <2>1. DriveTypeOK'
    BY <1>1 DEF Begin, DriveTypeOK, drive
  <2>2. RunTypeOK'
    BY <1>1, <1>0, Labels, BlocksAssumption DEF Begin, RunTypeOK, Goto
  <2>3. faults' \in 0..MaxFaults
    BY <1>1, FaultTypes DEF Begin
  <2> QED
    BY <2>1, <2>2, <2>3
<1>2. CASE Fetch(w)
  <2>1. DriveTypeOK'
    BY <1>2 DEF Fetch, DriveTypeOK, drive
  <2>2. RunTypeOK'
    BY <1>2, <1>0, Labels, MoveTypes DEF Fetch
  <2>3. faults' \in 0..MaxFaults
    BY <1>2, FaultTypes DEF Fetch
  <2> QED
    BY <2>1, <2>2, <2>3
<1>3. CASE CheckDevice(w)
  <2>1. DriveTypeOK'
    BY <1>3 DEF CheckDevice, DriveTypeOK, drive
  <2>2. RunTypeOK'
    BY <1>3, <1>0, Labels, MoveTypes DEF CheckDevice
  <2>3. faults' \in 0..MaxFaults
    BY <1>3, FaultTypes DEF CheckDevice
  <2> QED
    BY <2>1, <2>2, <2>3
<1>4. CASE OpenPartial(w)
  <2>1. DriveTypeOK'
    BY <1>4, FilesAreFiles DEF OpenPartial, DriveTypeOK
  <2>2. RunTypeOK'
    <3>1. CASE mounted # NoDrive /\ ~Exists(partial[mounted])
      <4>1. [drive |-> mounted, at |-> "partial"] \in Handles
        BY <3>1 DEF DriveTypeOK, Handles
      <4> QED
        BY <1>4, <3>1, <4>1, Labels, BlocksAssumption DEF OpenPartial, RunTypeOK, Goto
    <3>2. CASE ~(mounted # NoDrive /\ ~Exists(partial[mounted]))
      BY <1>4, <3>2, <1>0, MoveTypes, Labels DEF OpenPartial
    <3> QED
      BY <3>1, <3>2
  <2> QED
    BY <1>4, <2>1, <2>2 DEF OpenPartial
<1>5. CASE CopyBlock(w)
  <2>1. PICK good \in BOOLEAN :
          /\ Write(w, [Held(w) EXCEPT !.data = Append(@, good)])
          /\ IF good THEN UNCHANGED faults ELSE Fault("media")
    BY <1>5 DEF CopyBlock
  <2>2. DriveTypeOK'
    BY <1>5, <2>1, HeldIsFile, AppendIsFile, WriteIsFile DEF CopyBlock, DriveTypeOK
  <2>3. RunTypeOK'
    BY <1>5, <1>0, MoveTypes, Labels, BlocksAssumption DEF CopyBlock, RunTypeOK
  <2>4. faults' \in 0..MaxFaults
    BY <2>1, FaultTypes
  <2> QED
    BY <2>2, <2>3, <2>4
<1>6. CASE FinishCopy(w)
  <2>1. DriveTypeOK'
    BY <1>6, HeldIsFile, FlushIsFile, WriteIsFile DEF FinishCopy, DriveTypeOK
  <2>2. RunTypeOK'
    BY <1>6, Labels, ClosedIsHandle DEF FinishCopy, RunTypeOK, Goto, Close
  <2> QED
    BY <1>6, <2>1, <2>2 DEF FinishCopy
<1>7. CASE CopyFails(w)
  <2>1. DriveTypeOK'
    BY <1>7 DEF CopyFails, DriveTypeOK, drive
  <2>2. RunTypeOK'
    BY <1>7, <1>0, Labels, MoveTypes DEF CopyFails
  <2>3. faults' \in 0..MaxFaults
    BY <1>7, FaultTypes DEF CopyFails
  <2> QED
    BY <2>1, <2>2, <2>3
<1>8. CASE VerifyPartial(w)
  BY <1>8, <1>0, Labels, MoveTypes DEF VerifyPartial, DriveTypeOK, drive
<1>9. CASE Recheck(w)
  BY <1>9, <1>0, Labels, MoveTypes DEF Recheck, DriveTypeOK, drive
<1>10. CASE CheckTarget(w)
  BY <1>10, <1>0, Labels, MoveTypes DEF CheckTarget, DriveTypeOK, drive
<1>11. CASE SyncPartial(w)
  <2>1. DriveTypeOK'
    BY <1>11, FlushIsFile DEF SyncPartial, DriveTypeOK, PartialHere
  <2>2. RunTypeOK'
    BY <1>11, <1>0, Labels, MoveTypes DEF SyncPartial
  <2> QED
    BY <1>11, <2>1, <2>2 DEF SyncPartial
<1>12. CASE Rename(w)
  <2>1. DriveTypeOK'
    BY <1>12, FilesAreFiles DEF Rename, DriveTypeOK, PartialHere
  <2>2. RunTypeOK'
    <3>1. CASE PartialHere
      <4>1. mounted \in Drives
        BY <3>1 DEF PartialHere, DriveTypeOK
      <4> QED
        BY <1>12, <3>1, <4>1, Labels, RedirectedAreHandles DEF Rename, RunTypeOK, Goto
    <3>2. CASE ~PartialHere
      BY <1>12, <3>2, <1>0, MoveTypes, Labels DEF Rename
    <3> QED
      BY <3>1, <3>2
  <2> QED
    BY <1>12, <2>1, <2>2 DEF Rename
<1>13. CASE SyncDirectory(w)
  <2>1. DriveTypeOK'
    BY <1>13 DEF SyncDirectory, DriveTypeOK
  <2>2. RunTypeOK'
    BY <1>13, <1>0, Labels, MoveTypes DEF SyncDirectory
  <2> QED
    BY <1>13, <2>1, <2>2 DEF SyncDirectory
<1>14. CASE Trash(w)
  <2>1. DriveTypeOK'
    BY <1>14 DEF Trash, DriveTypeOK
  <2>2. RunTypeOK'
    BY <1>14, <1>0, Labels, MoveTypes DEF Trash
  <2> QED
    BY <1>14, <2>1, <2>2 DEF Trash
<1>15. CASE Cleanup(w)
  BY <1>15, <1>0, Labels, MoveTypes DEF Cleanup, DriveTypeOK, drive
<1>16. CASE UnlinkPartial(w)
  <2>1. DriveTypeOK'
    BY <1>16, FilesAreFiles DEF UnlinkPartial, DriveTypeOK
  <2>2. RunTypeOK'
    <3>1. CASE mounted # NoDrive
      <4>1. mounted \in Drives
        BY <3>1 DEF DriveTypeOK
      <4> QED
        BY <1>16, <3>1, <4>1, Labels, RedirectedAreHandles DEF UnlinkPartial, RunTypeOK, Goto
    <3>2. CASE mounted = NoDrive
      BY <1>16, <3>2, Labels DEF UnlinkPartial, RunTypeOK, Goto
    <3> QED
      BY <3>1, <3>2
  <2> QED
    BY <1>16, <2>1, <2>2 DEF UnlinkPartial
<1>17. CASE StatementFails(w)
  <2>1. DriveTypeOK'
    BY <1>17 DEF StatementFails, DriveTypeOK, drive
  <2>2. RunTypeOK'
    BY <1>17, <1>0, Labels, MoveTypes DEF StatementFails
  <2>3. faults' \in 0..MaxFaults
    BY <1>17, FaultTypes DEF StatementFails
  <2> QED
    BY <2>1, <2>2, <2>3
<1> QED
  BY <1>1, <1>2, <1>3, <1>4, <1>5, <1>6, <1>7, <1>8, <1>9, <1>10, <1>11, <1>12,
     <1>13, <1>14, <1>15, <1>16, <1>17 DEF Step

\* Whatever happens around a run keeps the types.
LEMMA EnvironmentTypes ==
  ASSUME TypeOK, Environment
  PROVE  TypeOK'
PROOF
<1> USE DEF TypeOK
<1>0. {"died"} \subseteq Results
  BY DEF Results
<1>1. ASSUME NEW w \in Workers, RequestCancel(w)
      PROVE  TypeOK'
  BY <1>1, FaultTypes DEF RequestCancel, DriveTypeOK, RunTypeOK, drive
<1>2. ASSUME NEW w \in Workers, Kill(w)
      PROVE  TypeOK'
  BY <1>2, <1>0, FaultTypes, Labels, ClosedIsHandle
     DEF Kill, DriveTypeOK, RunTypeOK, drive, Goto, Close
<1>3. CASE PowerLoss
  <2>1. DriveTypeOK'
    BY <1>3, LostAreFiles DEF PowerLoss, DriveTypeOK
  <2>2. RunTypeOK'
    BY <1>3, <1>0, Labels, ClosedIsHandle DEF PowerLoss, RunTypeOK
  <2> QED
    BY <1>3, <2>1, <2>2, FaultTypes DEF PowerLoss
<1>4. CASE Unplug
  <2>1. DriveTypeOK'
    BY <1>4, LostAreFiles DEF Unplug, DriveTypeOK
  <2>2. \A w \in Workers : [handle[w] EXCEPT !.at = "dead"] \in Handles
    BY DEF RunTypeOK, Handles
  <2>3. RunTypeOK'
    BY <1>4, <2>2 DEF Unplug, RunTypeOK
  <2> QED
    BY <1>4, <2>1, <2>3, FaultTypes DEF Unplug
<1>5. CASE Replug
  BY <1>5, DriveAssumption DEF Replug, DriveTypeOK, RunTypeOK, run
<1>6. CASE CreateTarget
  BY <1>6, FilesAreFiles, FaultTypes DEF CreateTarget, DriveTypeOK, RunTypeOK, run
<1>7. ASSUME NEW d \in Drives, PlugOther(d)
      PROVE  TypeOK'
  BY <1>7, FaultTypes DEF PlugOther, DriveTypeOK, RunTypeOK, run
<1> QED
  BY <1>1, <1>2, <1>3, <1>4, <1>5, <1>6, <1>7 DEF Environment

\* The state always has its type, however many runs there are.
THEOREM TypeCorrect == Spec => []TypeOK
PROOF
<1>1. TypeOK /\ [Next]_vars => TypeOK'
  <2> SUFFICES ASSUME TypeOK, [Next]_vars PROVE TypeOK'
    OBVIOUS
  <2>1. CASE UNCHANGED vars
    BY <2>1 DEF vars, drive, run, TypeOK, DriveTypeOK, RunTypeOK
  <2> QED
    BY <2>1, StepTypes, EnvironmentTypes DEF Next
<1> QED
  BY <1>1, InitTypes, PTL DEF Spec
-----------------------------------------------------------------------------
(* VisibleIsVerified *)

LEMMA ImageLength == Len(Image) = Blocks /\ Image \in Seq(BOOLEAN) /\ Image # <<>>
BY BlocksAssumption DEF Image

LEMMA InitSafe == Init => SafeInv
BY InitTypes DEF Init, SafeInv, OthersClean, WindowMounted, CopyHandle, PartialFlushed,
   PartialWhole, FinalsWhole, NoFile, Closed, Window

\* Power loss leaves a whole image whole.
LEMMA CutOfWhole ==
  ASSUME NEW f \in File, Whole(f), NEW n \in f.flushed..Len(f.data)
  PROVE  Whole(Cut(f, n)) /\ Cut(f, n).kind = f.kind
BY CutOfFlushed, CutIsFile, ImageLength DEF Whole

\* What power loss or a pulled drive leaves of SafeInv's claims about files.
LEMMA LostFiles ==
  ASSUME SafeInv, NEW d \in Drives, LoseUnsynced(d)
  PROVE  /\ OthersClean' /\ FinalsWhole'
         /\ partial[Planned].flushed = Len(partial[Planned].data)
              => partial'[Planned].flushed = Len(partial'[Planned].data)
         /\ partial[Planned].kind = "none" \/ Whole(partial[Planned])
              => partial'[Planned].kind = "none" \/ Whole(partial'[Planned])
PROOF
<1> DEFINE Before == partial[Planned].kind = "none" \/ Whole(partial[Planned])
           After == partial'[Planned].kind = "none" \/ Whole(partial'[Planned])
<1>0. /\ partial \in [Drives -> File] /\ final \in [Drives -> File]
      /\ Planned \in Drives
  BY DriveAssumption DEF SafeInv, TypeOK, DriveTypeOK
<1>1. CASE \E n \in partial[d].flushed..Len(partial[d].data),
              m \in final[d].flushed..Len(final[d].data) :
             /\ partial' = [partial EXCEPT ![d] = Cut(@, n)]
             /\ final' = [final EXCEPT ![d] = Cut(@, m)]
  <2>1. PICK n \in partial[d].flushed..Len(partial[d].data),
             m \in final[d].flushed..Len(final[d].data) :
             /\ partial' = [partial EXCEPT ![d] = Cut(@, n)]
             /\ final' = [final EXCEPT ![d] = Cut(@, m)]
    BY <1>1
  <2>2. /\ Cut(partial[d], n).kind = partial[d].kind
        /\ Cut(final[d], m).kind = final[d].kind
    BY <1>0, CutIsFile
  <2>3. final[d].kind = "image" => Whole(Cut(final[d], m))
    BY <1>0, CutOfWhole DEF SafeInv, FinalsWhole
  <2>4. Whole(partial[d]) => Whole(Cut(partial[d], n))
    BY <1>0, CutOfWhole
  <2>5. partial[d].flushed = Len(partial[d].data)
          => Cut(partial[d], n).flushed = Len(Cut(partial[d], n).data)
    BY <1>0, CutOfFlushed
  <2>6. OthersClean'
    BY <1>0, <2>1, <2>2 DEF SafeInv, OthersClean
  <2>7. FinalsWhole'
    BY <1>0, <2>1, <2>2, <2>3 DEF SafeInv, FinalsWhole
  <2>8. Before => After
    BY <1>0, <2>1, <2>2, <2>4
  <2> QED
    BY <1>0, <2>1, <2>5, <2>6, <2>7, <2>8
<1>2. CASE partial' = [partial EXCEPT ![d] = NoFile] /\ UNCHANGED final
  BY <1>0, <1>2 DEF SafeInv, OthersClean, FinalsWhole, NoFile
<1>3. CASE /\ final[d].kind = "image" /\ d \notin linked
           /\ partial' = [partial EXCEPT ![d] = final[d]]
           /\ final' = [final EXCEPT ![d] = NoFile]
  BY <1>0, <1>3, ImageLength DEF SafeInv, OthersClean, FinalsWhole, NoFile, Whole
<1> QED
  BY <1>1, <1>2, <1>3 DEF LoseUnsynced

\* A step that leaves the files alone and closes or keeps w's handle.
LEMMA QuietStep ==
  ASSUME SafeInv, TypeOK', NEW w \in Workers, OneRun,
         UNCHANGED drive,
         \/ handle' = handle /\ (pc'[w] = "copy" <=> pc[w] = "copy")
         \/ handle' = [handle EXCEPT ![w] = Closed] /\ pc'[w] # "copy",
         pc'[w] \in Window => pc[w] \in Window \/ SameDevice,
         pc'[w] = "verify" => pc[w] = "verify",
         pc'[w] \in {"recheck", "exists", "sync", "rename"} =>
           \/ pc[w] \in {"recheck", "exists", "sync", "rename"}
           \/ Whole(partial[Planned])
  PROVE  SafeInv'
PROOF
<1>1. OthersClean' /\ FinalsWhole'
  BY DEF SafeInv, drive, OthersClean, FinalsWhole
<1>2. WindowMounted'
  BY DEF SafeInv, drive, WindowMounted, OneRun, SameDevice
<1>3. CopyHandle'
  BY DEF SafeInv, CopyHandle, OneRun, TypeOK, RunTypeOK, Closed
<1>4. PartialFlushed'
  BY DEF SafeInv, drive, PartialFlushed, OneRun
<1>5. PartialWhole'
  BY DEF SafeInv, drive, PartialWhole, OneRun
<1> QED
  BY <1>1, <1>2, <1>3, <1>4, <1>5 DEF SafeInv
\* Every statement of a lone run keeps SafeInv.
LEMMA StepSafe ==
  ASSUME SafeInv, OneRun, NEW w \in Workers, Step(w)
  PROVE  SafeInv'
PROOF
<1>0. TypeOK /\ TypeOK'
  BY StepTypes DEF SafeInv
<1>t. /\ partial \in [Drives -> File] /\ final \in [Drives -> File]
      /\ pc \in [Workers -> PCs] /\ handle \in [Workers -> Handles]
      /\ mounted \in Drives \cup {NoDrive} /\ Planned \in Drives
  BY <1>0, DriveAssumption DEF TypeOK, DriveTypeOK, RunTypeOK
<1> USE <1>0, <1>t
<1>1. CASE Begin(w)
  BY <1>1, QuietStep DEF Begin, Goto, Window
<1>2. CASE Fetch(w)
  BY <1>2, QuietStep DEF Fetch, Continue, Raise, Goto, Close, Window
<1>3. CASE CheckDevice(w)
  BY <1>3, QuietStep DEF CheckDevice, Continue, Raise, Goto, Close, Window
<1>4. CASE OpenPartial(w)
  <2>1. CASE mounted # NoDrive /\ ~Exists(partial[mounted])
    <3>1. mounted = Planned
      BY <1>4, <2>1 DEF OpenPartial, SafeInv, WindowMounted, Window
    <3>2. /\ partial' = [partial EXCEPT ![Planned] = EmptyImage]
          /\ handle' = [handle EXCEPT ![w] = [drive |-> Planned, at |-> "partial"]]
          /\ pc' = [pc EXCEPT ![w] = "copy"]
          /\ final' = final /\ mounted' = mounted
      BY <1>4, <2>1, <3>1 DEF OpenPartial, Goto
    <3>3. OthersClean' /\ FinalsWhole'
      BY <3>2 DEF SafeInv, OthersClean, FinalsWhole
    <3>4. WindowMounted' /\ CopyHandle' /\ PartialFlushed' /\ PartialWhole'
      BY <3>2 DEF OneRun, WindowMounted, CopyHandle, PartialFlushed, PartialWhole, Window
    <3> QED
      BY <3>3, <3>4 DEF SafeInv
  <2>2. CASE ~(mounted # NoDrive /\ ~Exists(partial[mounted]))
    BY <1>4, <2>2, QuietStep DEF OpenPartial, Raise, Goto, Close, Window, drive
  <2> QED
    BY <2>1, <2>2
<1>5. CASE CopyBlock(w)
  <2>1. handle[w] = [drive |-> Planned, at |-> "partial"]
    BY <1>5 DEF CopyBlock, SafeInv, CopyHandle
  <2>2. PICK f : Write(w, f) /\ f.kind = partial[Planned].kind
    BY <1>5, <2>1 DEF CopyBlock, Held, File
  <2>3. partial' = [partial EXCEPT ![Planned] = f] /\ final' = final
    BY <2>1, <2>2 DEF Write
  <2>4. OthersClean' /\ FinalsWhole'
    BY <2>3 DEF SafeInv, OthersClean, FinalsWhole
  <2>5. \/ pc'[w] = "copy" /\ handle' = handle /\ mounted' = mounted
        \/ pc'[w] = "cleanup" /\ handle'[w] = Closed /\ mounted' = mounted
    BY <1>5 DEF CopyBlock, Raise, Goto, Close
  <2>6. CopyHandle'
    BY <2>1, <2>5 DEF OneRun, CopyHandle, Closed
  <2>7. WindowMounted' /\ PartialFlushed' /\ PartialWhole'
    BY <2>5 DEF OneRun, WindowMounted, PartialFlushed, PartialWhole, Window
  <2> QED
    BY <2>4, <2>6, <2>7 DEF SafeInv
<1>6. CASE FinishCopy(w)
  <2>1. handle[w] = [drive |-> Planned, at |-> "partial"]
    BY <1>6 DEF FinishCopy, SafeInv, CopyHandle
  <2>2. partial' = [partial EXCEPT ![Planned] = Flush(partial[Planned])] /\ final' = final
    BY <1>6, <2>1 DEF FinishCopy, Write, Held
  <2>3. pc'[w] = "verify" /\ handle'[w] = Closed /\ mounted' = mounted
    BY <1>6 DEF FinishCopy, Goto, Close
  <2>4. OthersClean' /\ FinalsWhole'
    BY <2>2 DEF SafeInv, OthersClean, FinalsWhole
  <2>5. PartialFlushed'
    BY <2>2, FlushIsFile DEF PartialFlushed
  <2>6. WindowMounted' /\ CopyHandle' /\ PartialWhole'
    BY <2>3 DEF OneRun, WindowMounted, CopyHandle, PartialWhole, Window, Closed
  <2> QED
    BY <2>4, <2>5, <2>6 DEF SafeInv
<1>7. CASE CopyFails(w)
  BY <1>7, QuietStep DEF CopyFails, Raise, Goto, Close, Window
<1>8. CASE VerifyPartial(w)
  <2>1. ASSUME Continue(w, "recheck"), PartialHere, partial[mounted].data = Image
        PROVE  Whole(partial[Planned])
    <3>1. mounted = Planned
      BY <2>1 DEF PartialHere, Exists, SafeInv, OthersClean
    <3> QED
      BY <1>8, <2>1, <3>1, ImageLength DEF VerifyPartial, Whole, SafeInv, PartialFlushed
  <2> QED
    BY <1>8, <2>1, QuietStep DEF VerifyPartial, Continue, Raise, Goto, Close, Window
<1>9. CASE Recheck(w)
  BY <1>9, QuietStep DEF Recheck, Continue, Raise, Goto, Close, Window
<1>10. CASE CheckTarget(w)
  BY <1>10, QuietStep DEF CheckTarget, Continue, Raise, Goto, Close, Window
<1>11. CASE SyncPartial(w)
  <2>1. CASE PartialHere
    <3>1. mounted = Planned
      BY <1>11, <2>1 DEF SyncPartial, PartialHere, SafeInv, WindowMounted, Window
    <3>2. Whole(partial[Planned])
      BY <1>11, <2>1, <3>1 DEF SyncPartial, PartialHere, Exists, SafeInv, PartialWhole
    <3>3. Whole(Flush(partial[Planned]))
      BY <3>2, FlushIsFile, ImageLength DEF Whole
    <3>4. /\ partial' = [partial EXCEPT ![Planned] = Flush(partial[Planned])]
          /\ final' = final /\ mounted' = mounted /\ handle' = handle
          /\ pc' = [pc EXCEPT ![w] = "rename"] /\ pc[w] = "sync"
      BY <1>11, <2>1, <3>1 DEF SyncPartial, Continue, Goto
    <3>5. OthersClean' /\ FinalsWhole'
      BY <3>4 DEF SafeInv, OthersClean, FinalsWhole
    <3>6. WindowMounted' /\ CopyHandle' /\ PartialFlushed' /\ PartialWhole'
      BY <3>1, <3>3, <3>4
         DEF SafeInv, OneRun, WindowMounted, CopyHandle, PartialFlushed, PartialWhole
    <3> QED
      BY <3>5, <3>6 DEF SafeInv
  <2>2. CASE ~PartialHere
    BY <1>11, <2>2, QuietStep DEF SyncPartial, Raise, Goto, Close, Window, drive
  <2> QED
    BY <2>1, <2>2
<1>12. CASE Rename(w)
  <2>1. CASE PartialHere
    <3>1. mounted = Planned
      BY <1>12, <2>1 DEF Rename, PartialHere, SafeInv, WindowMounted, Window
    <3>2. Whole(partial[Planned])
      BY <1>12, <2>1, <3>1 DEF Rename, PartialHere, Exists, SafeInv, PartialWhole
    <3>3. /\ partial' = [partial EXCEPT ![Planned] = NoFile]
          /\ final' = [final EXCEPT ![Planned] = partial[Planned]]
          /\ mounted' = mounted
          /\ pc' = [pc EXCEPT ![w] = "syncdir"] /\ pc[w] = "rename"
      BY <1>12, <2>1, <3>1 DEF Rename, Goto
    <3>4. handle'[w].at = "closed"
      BY <1>12, <2>1, <3>3 DEF Rename, Redirected, SafeInv, CopyHandle
    <3>5. OthersClean' /\ FinalsWhole'
      BY <3>2, <3>3 DEF SafeInv, OthersClean, FinalsWhole
    <3>6. WindowMounted' /\ CopyHandle' /\ PartialFlushed' /\ PartialWhole'
      BY <3>1, <3>3, <3>4
         DEF OneRun, WindowMounted, CopyHandle, PartialFlushed, PartialWhole
    <3> QED
      BY <3>5, <3>6 DEF SafeInv
  <2>2. CASE ~PartialHere
    BY <1>12, <2>2, QuietStep DEF Rename, Raise, Goto, Close, Window, drive
  <2> QED
    BY <2>1, <2>2
<1>13. CASE SyncDirectory(w)
  <2>1. pc[w] = "syncdir" /\ UNCHANGED <<mounted, partial, final>>
    BY <1>13 DEF SyncDirectory
  <2>2. pc'[w] \in {"trash", "idle", "cleanup"}
    BY <1>13 DEF SyncDirectory, Continue, Return, Raise, Goto
  <2>3. handle'[w] = handle[w] \/ handle'[w] = Closed
    BY <1>13 DEF SyncDirectory, Continue, Return, Raise, Close
  <2> QED
    BY <2>1, <2>2, <2>3
       DEF SafeInv, OneRun, OthersClean, FinalsWhole, WindowMounted, CopyHandle,
           PartialFlushed, PartialWhole, Window, Closed
<1>14. CASE Trash(w)
  <2>1. pc[w] = "trash" /\ UNCHANGED <<mounted, partial, final>>
    BY <1>14 DEF Trash
  <2>2. pc'[w] \in {"idle", "cleanup"}
    BY <1>14 DEF Trash, Return, Raise, Goto
  <2>3. handle'[w] = handle[w] \/ handle'[w] = Closed
    BY <1>14 DEF Trash, Return, Raise, Close
  <2> QED
    BY <2>1, <2>2, <2>3
       DEF SafeInv, OneRun, OthersClean, FinalsWhole, WindowMounted, CopyHandle,
           PartialFlushed, PartialWhole, Window, Closed
<1>15. CASE Cleanup(w)
  BY <1>15, QuietStep DEF Cleanup, Continue, Goto, Window
<1>16. CASE UnlinkPartial(w)
  <2>1. /\ pc[w] = "unlink" /\ pc' = [pc EXCEPT ![w] = "idle"]
        /\ UNCHANGED <<mounted, final>>
    BY <1>16 DEF UnlinkPartial, Goto
  <2>2. partial' = partial \/ partial' = [partial EXCEPT ![mounted] = NoFile]
    BY <1>16 DEF UnlinkPartial
  <2>3. handle'[w].at = "closed"
    BY <1>16, <2>1 DEF UnlinkPartial, Redirected, SafeInv, CopyHandle
  <2>4. OthersClean' /\ FinalsWhole'
    BY <2>1, <2>2 DEF SafeInv, OthersClean, FinalsWhole, NoFile
  <2>5. WindowMounted' /\ CopyHandle' /\ PartialFlushed' /\ PartialWhole'
    BY <2>1, <2>3 DEF OneRun, WindowMounted, CopyHandle, PartialFlushed, PartialWhole, Window
  <2> QED
    BY <2>4, <2>5 DEF SafeInv
<1>17. CASE StatementFails(w)
  BY <1>17, QuietStep DEF StatementFails, Continue, Raise, Goto, Close, Window, Handling
<1> QED
  BY <1>1, <1>2, <1>3, <1>4, <1>5, <1>6, <1>7, <1>8, <1>9, <1>10, <1>11, <1>12,
     <1>13, <1>14, <1>15, <1>16, <1>17 DEF Step
\* Whatever happens around a lone run keeps SafeInv.
LEMMA EnvironmentSafe ==
  ASSUME SafeInv, OneRun, NoQuickSwap, Environment
  PROVE  SafeInv'
PROOF
<1>0. TypeOK /\ TypeOK'
  BY EnvironmentTypes DEF SafeInv
<1>t. /\ partial \in [Drives -> File] /\ final \in [Drives -> File]
      /\ pc \in [Workers -> PCs] /\ handle \in [Workers -> Handles]
      /\ mounted \in Drives \cup {NoDrive} /\ Planned \in Drives
  BY <1>0, DriveAssumption DEF TypeOK, DriveTypeOK, RunTypeOK
<1> USE <1>0, <1>t
<1>1. ASSUME NEW w \in Workers, RequestCancel(w)
      PROVE  SafeInv'
  BY <1>1, QuietStep DEF RequestCancel
<1>2. ASSUME NEW w \in Workers, Kill(w)
      PROVE  SafeInv'
  BY <1>2, QuietStep DEF Kill, Goto, Close, Window
<1>3. CASE PowerLoss
  <2>1. /\ \A w \in Workers : pc'[w] = "idle" /\ handle'[w] = Closed
        /\ mounted' = mounted
    BY <1>3 DEF PowerLoss
  <2>2. WindowMounted' /\ CopyHandle' /\ PartialFlushed' /\ PartialWhole'
    BY <2>1 DEF WindowMounted, CopyHandle, PartialFlushed, PartialWhole, Window, Closed
  <2>3. OthersClean' /\ FinalsWhole'
    <3>1. CASE mounted = NoDrive
      BY <1>3, <3>1 DEF PowerLoss, SafeInv, OthersClean, FinalsWhole
    <3>2. CASE mounted # NoDrive
      BY <1>3, <3>2, LostFiles DEF PowerLoss
    <3> QED
      BY <3>1, <3>2
  <2> QED
    BY <2>2, <2>3 DEF SafeInv
<1>4. CASE Unplug
  <2>1. mounted \in Drives /\ LoseUnsynced(mounted) /\ mounted' = NoDrive /\ pc' = pc
    BY <1>4 DEF Unplug
  <2>2. OthersClean' /\ FinalsWhole'
    BY <2>1, LostFiles
  <2>3. WindowMounted'
    BY <2>1 DEF WindowMounted
  <2>4. CopyHandle'
    BY <1>4, <2>1 DEF Unplug, SafeInv, CopyHandle
  <2>5. PartialFlushed'
    BY <2>1, LostFiles DEF SafeInv, PartialFlushed
  <2>6. PartialWhole'
    BY <2>1, LostFiles DEF SafeInv, PartialWhole
  <2> QED
    BY <2>2, <2>3, <2>4, <2>5, <2>6 DEF SafeInv
<1>5. CASE Replug
  BY <1>5 DEF Replug, run, SafeInv, OthersClean, FinalsWhole, WindowMounted, CopyHandle,
              PartialFlushed, PartialWhole
<1>6. CASE CreateTarget
  <2>1. final' = [final EXCEPT ![mounted] = ForeignFile] /\ mounted \in Drives
    BY <1>6 DEF CreateTarget
  <2>2. OthersClean' /\ FinalsWhole'
    BY <1>6, <2>1 DEF CreateTarget, SafeInv, OthersClean, FinalsWhole, ForeignFile
  <2> QED
    BY <1>6, <2>2 DEF CreateTarget, run, SafeInv, WindowMounted, CopyHandle,
                      PartialFlushed, PartialWhole
<1>7. ASSUME NEW d \in Drives, PlugOther(d)
      PROVE  SafeInv'
  BY <1>7 DEF PlugOther, TimeToPlug, NoQuickSwap, run, SafeInv, OthersClean, FinalsWhole,
              WindowMounted, CopyHandle, PartialFlushed, PartialWhole
<1> QED
  BY <1>1, <1>2, <1>3, <1>4, <1>5, <1>6, <1>7 DEF Environment

LEMMA SafeStep == OneRun /\ NoQuickSwap /\ SafeInv /\ [Next]_vars => SafeInv'
PROOF
<1> SUFFICES ASSUME OneRun, NoQuickSwap, SafeInv, [Next]_vars PROVE SafeInv'
  OBVIOUS
<1>1. CASE UNCHANGED vars
  BY <1>1 DEF vars, drive, run, SafeInv, TypeOK, DriveTypeOK, RunTypeOK, OthersClean,
              FinalsWhole, WindowMounted, CopyHandle, PartialFlushed, PartialWhole
<1> QED
  BY <1>1, StepSafe, EnvironmentSafe DEF Next

LEMMA SafeAlways == OneRun /\ NoQuickSwap => (Spec => []SafeInv)
PROOF
<1> SUFFICES ASSUME OneRun, NoQuickSwap PROVE Spec => []SafeInv
  OBVIOUS
<1>1. SafeInv /\ [Next]_vars => SafeInv'
  BY SafeStep
<1> QED
  BY <1>1, InitSafe, PTL DEF Spec

\* With one run at a time and no drive exchanged inside a window, a target
\* name never shows anything but the whole published image.
THEOREM VisibleImagesAreVerified ==
  OneRun /\ NoQuickSwap => (Spec => []VisibleIsVerified)
PROOF
<1> SUFFICES ASSUME OneRun, NoQuickSwap PROVE Spec => []VisibleIsVerified
  OBVIOUS
<1>1. SafeInv => VisibleIsVerified
  BY DEF SafeInv, FinalsWhole, VisibleIsVerified, Whole
<1> QED
  BY <1>1, SafeAlways, PTL
-----------------------------------------------------------------------------
(* What a step does to the drives *)

\* What a statement of a lone run may do to the drives: publish the image,
\* sync its directory, move the replaced ISO, or work on `.partial`.
Publishes(w) ==
  /\ pc[w] = "rename" /\ pc'[w] = "syncdir" /\ mounted = Planned
  /\ partial[Planned].kind # "none"
  /\ final' = [final EXCEPT ![Planned] = partial[Planned]]
  /\ linked' = linked \ {Planned}
  /\ UNCHANGED <<old, result>>
Settles(w) ==
  /\ pc[w] = "syncdir" /\ mounted = Planned
  /\ linked' = IF DirectorySync THEN linked \cup {Planned} ELSE linked
  /\ \/ pc'[w] = "trash" /\ result' = result
     \/ pc'[w] = "idle" /\ result' = [result EXCEPT ![w] = "added"]
  /\ UNCHANGED <<final, old>>
Retires(w) ==
  /\ pc[w] = "trash" /\ pc'[w] = "idle" /\ mounted = Planned
  /\ old[Planned] = "kept" /\ old' = [old EXCEPT ![Planned] = "trashed"]
  /\ result' = [result EXCEPT ![w] = "added"]
  /\ UNCHANGED <<final, linked>>
Prepares(w) ==
  /\ UNCHANGED <<final, linked, old>>
  /\ pc'[w] \notin {"syncdir", "trash"}
  /\ pc'[w] \in {"sync", "rename"} => pc[w] \in {"sync", "rename"} \/ ~TargetHere
  /\ result'[w] = "added" => result[w] = "added"
  /\ pc[w] = "idle" => result[w] # "added"
PartialOnly ==
  /\ \A d \in Drives \ {Planned} : partial'[d] = partial[d]
  /\ partial'[Planned].kind \in {partial[Planned].kind, "image", "none"}

LEMMA StepEffects ==
  ASSUME SafeInv, OneRun, NEW w \in Workers, Step(w)
  PROVE  /\ UNCHANGED mounted
         /\ PartialOnly
         /\ Publishes(w) \/ Settles(w) \/ Retires(w) \/ Prepares(w)
PROOF
<1>t. /\ partial \in [Drives -> File] /\ final \in [Drives -> File]
      /\ pc \in [Workers -> PCs] /\ handle \in [Workers -> Handles]
      /\ result \in [Workers -> Results] /\ old \in [Drives -> {"kept", "trashed", "none"}]
      /\ mounted \in Drives \cup {NoDrive} /\ Planned \in Drives
  BY DriveAssumption DEF SafeInv, TypeOK, DriveTypeOK, RunTypeOK
<1>w. pc[w] \in Window => mounted \in {Planned, NoDrive}
  BY DEF SafeInv, WindowMounted
<1>h. pc[w] = "copy" /\ handle[w].at # "dead" => handle[w] = [drive |-> Planned, at |-> "partial"]
  BY DEF SafeInv, CopyHandle
<1> USE <1>t
<1>1. CASE Begin(w)
  BY <1>1 DEF Begin, drive, Goto, Prepares, PartialOnly
<1>2. CASE Fetch(w)
  BY <1>2 DEF Fetch, drive, Continue, Raise, Goto, Prepares, PartialOnly
<1>3. CASE CheckDevice(w)
  BY <1>3 DEF CheckDevice, drive, Continue, Raise, Goto, Prepares, PartialOnly
<1>4. CASE OpenPartial(w)
  BY <1>4, <1>w DEF OpenPartial, Raise, Goto, Prepares, PartialOnly, Window, EmptyImage
<1>5. CASE CopyBlock(w)
  BY <1>5, <1>h DEF CopyBlock, Write, Held, Raise, Goto, Prepares, PartialOnly, File
<1>6. CASE FinishCopy(w)
  BY <1>6, <1>h DEF FinishCopy, Write, Held, Flush, Goto, Prepares, PartialOnly, File
<1>7. CASE CopyFails(w)
  BY <1>7 DEF CopyFails, drive, Raise, Goto, Prepares, PartialOnly
<1>8. CASE VerifyPartial(w)
  BY <1>8 DEF VerifyPartial, drive, Continue, Raise, Goto, Prepares, PartialOnly
<1>9. CASE Recheck(w)
  BY <1>9 DEF Recheck, drive, Continue, Raise, Goto, Prepares, PartialOnly
<1>10. CASE CheckTarget(w)
  BY <1>10 DEF CheckTarget, drive, Continue, Raise, Goto, Prepares, PartialOnly
<1>11. CASE SyncPartial(w)
  BY <1>11, <1>w DEF SyncPartial, PartialHere, Flush, Continue, Raise, Goto, Prepares,
     PartialOnly, Window, File
<1>12. CASE Rename(w)
  BY <1>12, <1>w DEF Rename, PartialHere, Exists, Raise, Goto, Prepares, Publishes,
     PartialOnly, Window, NoFile
<1>13. CASE SyncDirectory(w)
  BY <1>13, <1>w DEF SyncDirectory, Continue, Return, Raise, Goto, Prepares, Settles,
     PartialOnly, Window
<1>14. CASE Trash(w)
  BY <1>14, <1>w DEF Trash, Return, Raise, Goto, Prepares, Retires, PartialOnly, Window
<1>15. CASE Cleanup(w)
  BY <1>15 DEF Cleanup, drive, Continue, Goto, Prepares, PartialOnly
<1>16. CASE UnlinkPartial(w)
  BY <1>16, <1>w DEF UnlinkPartial, Goto, Prepares, PartialOnly, Window, NoFile
<1>17. CASE StatementFails(w)
  BY <1>17 DEF StatementFails, drive, Continue, Raise, Goto, Prepares, PartialOnly, InTry
<1> QED
  BY <1>1, <1>2, <1>3, <1>4, <1>5, <1>6, <1>7, <1>8, <1>9, <1>10, <1>11, <1>12,
     <1>13, <1>14, <1>15, <1>16, <1>17 DEF Step

\* What the surroundings may do to the drives.
Loses(d) ==
  /\ \A e \in Drives \ {Planned} : partial'[e] = partial[e] /\ final'[e] = final[e]
  /\ \/ final'[Planned] = final[Planned]
     \/ final[Planned].kind = "image" /\ final'[Planned].kind = "image"
     \/ /\ final[Planned].kind = "image" /\ Planned \notin linked
        /\ final'[Planned] = NoFile

LEMMA LoseEffects ==
  ASSUME CleanInv, NEW d \in Drives, LoseUnsynced(d)
  PROVE  Loses(d) /\ NothingElse'
PROOF
<1>t. /\ partial \in [Drives -> File] /\ final \in [Drives -> File]
      /\ Planned \in Drives
  BY DriveAssumption DEF CleanInv, SafeInv, TypeOK, DriveTypeOK
<1>e. Cut(NoFile, 0) = NoFile /\ Cut(ForeignFile, 0) = ForeignFile
  BY FilesAreFiles, CutOfNothing DEF NoFile, ForeignFile
<1>1. CASE \E n \in partial[d].flushed..Len(partial[d].data),
              m \in final[d].flushed..Len(final[d].data) :
             /\ partial' = [partial EXCEPT ![d] = Cut(@, n)]
             /\ final' = [final EXCEPT ![d] = Cut(@, m)]
  <2>1. PICK n \in partial[d].flushed..Len(partial[d].data),
             m \in final[d].flushed..Len(final[d].data) :
             /\ partial' = [partial EXCEPT ![d] = Cut(@, n)]
             /\ final' = [final EXCEPT ![d] = Cut(@, m)]
    BY <1>1
  <2>2. /\ Cut(partial[d], n).kind = partial[d].kind
        /\ Cut(final[d], m).kind = final[d].kind
    BY <1>t, CutIsFile
  <2>3. partial[d] = NoFile => Cut(partial[d], n) = NoFile
    BY <2>1, <1>t, <1>e DEF NoFile
  <2>4. /\ final[d].kind = "none" => Cut(final[d], m) = final[d]
        /\ final[d].kind = "foreign" => Cut(final[d], m) = final[d]
    BY <2>1, <1>t, <1>e DEF CleanInv, NothingElse, NoFile, ForeignFile
  <2>5. d # Planned => partial[d] = NoFile /\ final[d].kind \in {"none", "foreign"}
    BY <1>t DEF CleanInv, NothingElse, SafeInv, OthersClean, File, Kinds
  <2>6. Loses(d)
    BY <1>t, <2>1, <2>2, <2>3, <2>4, <2>5 DEF Loses, File, Kinds
  <2>7. NothingElse'
    BY <1>t, <2>1, <2>2, <2>3, <2>4, <2>5 DEF CleanInv, NothingElse
  <2> QED
    BY <2>6, <2>7
<1>2. CASE partial' = [partial EXCEPT ![d] = NoFile] /\ UNCHANGED final
  BY <1>t, <1>2 DEF Loses, CleanInv, NothingElse, NoFile
<1>3. CASE /\ final[d].kind = "image" /\ d \notin linked
           /\ partial' = [partial EXCEPT ![d] = final[d]]
           /\ final' = [final EXCEPT ![d] = NoFile]
  <2>1. d = Planned
    BY <1>t, <1>3 DEF CleanInv, SafeInv, OthersClean
  <2> QED
    BY <1>t, <1>3, <2>1 DEF Loses, CleanInv, NothingElse, NoFile
<1> QED
  BY <1>1, <1>2, <1>3 DEF LoseUnsynced
Occupies ==
  /\ mounted \in Drives /\ final[mounted].kind = "none"
  /\ partial' = partial /\ final' = [final EXCEPT ![mounted] = ForeignFile]
  /\ NoLateCreate => \A w \in Workers : pc[w] \notin {"sync", "rename"}

LEMMA EnvironmentEffects ==
  ASSUME TypeOK, NoQuickSwap, Environment
  PROVE  /\ UNCHANGED <<linked, old>>
         /\ \/ UNCHANGED <<partial, final>>
            \/ \E d \in Drives : LoseUnsynced(d)
            \/ Occupies
         /\ \A w \in Workers :
              /\ pc'[w] \in {pc[w], "idle"}
              /\ result'[w] \in {result[w], "died"}
              /\ pc[w] = "idle" => result'[w] = result[w]
              /\ pc'[w] \in Window /\ mounted' = Planned => mounted = Planned
PROOF
<1>t. /\ pc \in [Workers -> PCs] /\ result \in [Workers -> Results]
      /\ mounted \in Drives \cup {NoDrive} /\ Planned # NoDrive
  BY DriveAssumption DEF TypeOK, DriveTypeOK, RunTypeOK
<1> USE <1>t
<1> DEFINE Files == \/ UNCHANGED <<partial, final>>
                    \/ \E d \in Drives : LoseUnsynced(d)
                    \/ Occupies
           Runs == \A w \in Workers :
              /\ pc'[w] \in {pc[w], "idle"}
              /\ result'[w] \in {result[w], "died"}
              /\ pc[w] = "idle" => result'[w] = result[w]
              /\ pc'[w] \in Window /\ mounted' = Planned => mounted = Planned
           Goal == UNCHANGED <<linked, old>> /\ Files /\ Runs
<1>1. ASSUME NEW w \in Workers, RequestCancel(w)
      PROVE  Goal
  BY <1>1 DEF RequestCancel, drive
<1>2. ASSUME NEW w \in Workers, Kill(w)
      PROVE  Goal
  BY <1>2 DEF Kill, drive, Goto, Window
<1>3. CASE PowerLoss
  BY <1>3 DEF PowerLoss, Window
<1>4. CASE Unplug
  BY <1>4 DEF Unplug
<1>5. CASE Replug
  BY <1>5 DEF Replug, TimeToPlug, NoQuickSwap, run
<1>6. CASE CreateTarget
  <2>1. mounted \in Drives /\ final[mounted].kind = "none"
    BY <1>6 DEF CreateTarget, TargetHere, Exists
  <2>2. Occupies
    BY <1>6, <2>1 DEF CreateTarget, Occupies, NoLateCreate
  <2> QED
    BY <1>6, <2>2 DEF CreateTarget, run
<1>7. ASSUME NEW d \in Drives, PlugOther(d)
      PROVE  Goal
  BY <1>7 DEF PlugOther, run
<1> QED
  BY <1>1, <1>2, <1>3, <1>4, <1>5, <1>6, <1>7 DEF Environment
-----------------------------------------------------------------------------
(* Files of others *)

LEMMA CleanStep == OneRun /\ NoQuickSwap /\ CleanInv /\ [Next]_vars => CleanInv'
PROOF
<1> SUFFICES ASSUME OneRun, NoQuickSwap, CleanInv, [Next]_vars PROVE CleanInv'
  OBVIOUS
<1>t. /\ TypeOK /\ SafeInv /\ NothingElse
      /\ partial \in [Drives -> File] /\ final \in [Drives -> File] /\ Planned \in Drives
      /\ TypeOK' /\ partial' \in [Drives -> File]
  BY SafeStep, DriveAssumption DEF CleanInv, SafeInv, TypeOK, DriveTypeOK
<1>1. SafeInv'
  BY SafeStep DEF CleanInv
<1>2. NothingElse'
  <2>1. ASSUME NEW w \in Workers, Step(w)
        PROVE  NothingElse'
    <3>1. PartialOnly /\ (final' = final \/ Publishes(w))
      BY <1>t, <2>1, StepEffects DEF Settles, Retires, Prepares
    <3>2. final' = final \/ final' = [final EXCEPT ![Planned] = partial[Planned]]
      BY <3>1 DEF Publishes
    <3>3. /\ Publishes(w) => partial[Planned].kind = "image"
          /\ \A d \in Drives : partial'[d].kind # "foreign"
      BY <1>t, <3>1 DEF Publishes, PartialOnly, NothingElse, File, Kinds
    <3> QED
      BY <1>t, <3>1, <3>2, <3>3 DEF NothingElse, PartialOnly, Publishes
  <2>2. CASE Environment
    <3>1. CASE Occupies
      BY <1>t, <3>1 DEF Occupies, NothingElse, ForeignFile
    <3>2. CASE \E d \in Drives : LoseUnsynced(d)
      BY <3>2, LoseEffects
    <3> QED
      BY <1>t, <2>2, <3>1, <3>2, EnvironmentEffects DEF NothingElse
  <2>3. CASE UNCHANGED vars
    BY <1>t, <2>3 DEF vars, drive, NothingElse
  <2> QED
    BY <2>1, <2>2, <2>3 DEF Next
<1> QED
  BY <1>1, <1>2 DEF CleanInv

LEMMA CleanAlways == OneRun /\ NoQuickSwap => (Spec => []CleanInv)
PROOF
<1> SUFFICES ASSUME OneRun, NoQuickSwap PROVE Spec => []CleanInv
  OBVIOUS
<1>1. Init => CleanInv
  BY InitSafe DEF Init, CleanInv, NothingElse, NoFile
<1>2. CleanInv /\ [Next]_vars => CleanInv'
  BY CleanStep
<1> QED
  BY <1>1, <1>2, PTL DEF Spec

\* With one run at a time and no drive exchanged inside a window, no step of
\* apply_item, and nothing that happens around it, changes another drive.
THEOREM OtherDrivesAreUntouched ==
  OneRun /\ NoQuickSwap => (Spec => OtherDrivesUntouched)
PROOF
<1> SUFFICES ASSUME OneRun, NoQuickSwap PROVE Spec => OtherDrivesUntouched
  OBVIOUS
<1> DEFINE Untouched ==
      \A d \in Drives \ {Planned} :
        /\ partial'[d] = partial[d] /\ old'[d] = old[d]
        /\ final'[d] # final[d] => final'[d] = ForeignFile
<1>1. CleanInv /\ [Next]_vars => [Untouched]_vars
  <2> SUFFICES ASSUME CleanInv, Next PROVE Untouched
    BY DEF vars
  <2>t. /\ TypeOK /\ SafeInv /\ final \in [Drives -> File]
        /\ old \in [Drives -> {"kept", "trashed", "none"}]
    BY DEF CleanInv, SafeInv, TypeOK, DriveTypeOK
  <2>1. ASSUME NEW w \in Workers, Step(w)
        PROVE  Untouched
    BY <2>t, <2>1, StepEffects DEF Publishes, Settles, Retires, Prepares, PartialOnly
  <2>2. CASE Environment
    BY <2>t, <2>2, EnvironmentEffects, LoseEffects DEF Occupies, Loses
  <2> QED
    BY <2>1, <2>2 DEF Next
<1> QED
  BY <1>1, CleanAlways, PTL DEF Spec, OtherDrivesUntouched

LEMMA FreeStep ==
  OneRun /\ NoQuickSwap /\ NoLateCreate /\ FreeInv /\ [Next]_vars => FreeInv'
PROOF
<1> SUFFICES ASSUME OneRun, NoQuickSwap, NoLateCreate, FreeInv, [Next]_vars PROVE FreeInv'
  OBVIOUS
<1>t. /\ TypeOK /\ SafeInv /\ CleanInv /\ TargetFree /\ CleanInv'
      /\ final \in [Drives -> File] /\ Planned \in Drives /\ Planned # NoDrive
  BY CleanStep, DriveAssumption DEF FreeInv, CleanInv, SafeInv, TypeOK, DriveTypeOK
<1>1. ASSUME NEW w \in Workers, Step(w)
      PROVE  TargetFree'
  <2>1. UNCHANGED mounted /\ (Publishes(w) \/ Settles(w) \/ Retires(w) \/ Prepares(w))
    BY <1>t, <1>1, StepEffects
  <2>2. pc'[w] \in {"sync", "rename"} =>
          final' = final /\ (pc[w] \in {"sync", "rename"} \/ ~TargetHere)
    BY <2>1 DEF Publishes, Settles, Retires, Prepares
  <2> QED
    BY <1>t, <2>1, <2>2 DEF TargetFree, OneRun, TargetHere, Exists
<1>2. CASE Environment
  <2>1. \A w \in Workers :
          pc'[w] \in {"sync", "rename"} /\ mounted' = Planned
            => pc[w] \in {"sync", "rename"} /\ mounted = Planned
    BY <1>t, <1>2, EnvironmentEffects DEF Window
  <2>2. CASE Occupies
    BY <1>t, <2>1, <2>2 DEF Occupies, TargetFree, FreeInv
  <2>3. ASSUME NEW d \in Drives, LoseUnsynced(d)
        PROVE  FreeInv'
    BY <1>t, <2>1, <2>3, LoseEffects DEF Loses, TargetFree, FreeInv
  <2>4. CASE UNCHANGED final
    BY <1>t, <2>1, <2>4 DEF TargetFree, FreeInv
  <2> QED
    BY <1>t, <1>2, <2>2, <2>3, <2>4, EnvironmentEffects
<1>3. CASE UNCHANGED vars
  BY <1>t, <1>3 DEF vars, drive, run, TargetFree, FreeInv
<1> QED
  BY <1>t, <1>1, <1>2, <1>3 DEF Next, FreeInv

LEMMA FreeAlways == OneRun /\ NoQuickSwap /\ NoLateCreate => (Spec => []FreeInv)
PROOF
<1> SUFFICES ASSUME OneRun, NoQuickSwap, NoLateCreate PROVE Spec => []FreeInv
  OBVIOUS
<1>1. CleanInv /\ Init => FreeInv
  BY DEF Init, FreeInv, TargetFree
<1>2. FreeInv /\ [Next]_vars => FreeInv'
  BY FreeStep
<1> QED
  BY <1>1, <1>2, CleanAlways, PTL DEF Spec

\* A file somebody else saved under the target's name outlives every run, as
\* long as it is not saved between the last look at the name and the rename.
THEOREM FilesOfOthersAreKept ==
  OneRun /\ NoQuickSwap /\ NoLateCreate => (Spec => OthersFilesKept)
PROOF
<1> SUFFICES ASSUME OneRun, NoQuickSwap, NoLateCreate PROVE Spec => OthersFilesKept
  OBVIOUS
<1> DEFINE Kept == \A d \in Drives : final[d].kind = "foreign" => final'[d] = final[d]
<1>1. FreeInv /\ [Next]_vars => [Kept]_vars
  <2> SUFFICES ASSUME FreeInv, Next PROVE Kept
    BY DEF vars
  <2>t. /\ TypeOK /\ SafeInv /\ CleanInv /\ TargetFree
        /\ final \in [Drives -> File] /\ Planned \in Drives
    BY DriveAssumption DEF FreeInv, CleanInv, SafeInv, TypeOK, DriveTypeOK
  <2>1. ASSUME NEW w \in Workers, Step(w)
        PROVE  Kept
    BY <2>t, <2>1, StepEffects DEF Publishes, Settles, Retires, Prepares, TargetFree
  <2>2. ASSUME NEW d \in Drives, LoseUnsynced(d)
        PROVE  Kept
    BY <2>t, <2>2, LoseEffects DEF Loses
  <2>3. CASE Occupies
    BY <2>t, <2>3 DEF Occupies
  <2> QED
    BY <2>t, <2>1, <2>2, <2>3, EnvironmentEffects DEF Next
<1> QED
  BY <1>1, FreeAlways, PTL DEF Spec, OthersFilesKept
-----------------------------------------------------------------------------
(* Success *)

LEMMA DurableStep ==
  OneRun /\ NoQuickSwap /\ DirectorySync /\ DurableInv /\ [Next]_vars => DurableInv'
PROOF
<1> SUFFICES ASSUME OneRun, NoQuickSwap, DirectorySync, DurableInv, [Next]_vars
             PROVE  DurableInv'
  OBVIOUS
<1>t. /\ TypeOK /\ SafeInv /\ CleanInv /\ ImageShown /\ ImageSettled
      /\ SettledIsImage /\ SuccessSettled /\ TrashedBySuccess /\ CleanInv'
      /\ partial \in [Drives -> File] /\ final \in [Drives -> File] /\ linked \subseteq Drives
      /\ old \in [Drives -> {"kept", "trashed", "none"}] /\ result \in [Workers -> Results]
      /\ Planned \in Drives /\ Planned # NoDrive /\ mounted \in Drives \cup {NoDrive}
  BY CleanStep, DriveAssumption
     DEF DurableInv, CleanInv, SafeInv, TypeOK, DriveTypeOK, RunTypeOK
<1>1. ASSUME NEW w \in Workers, Step(w)
      PROVE  DurableInv'
  <2>0. UNCHANGED mounted /\ \A v \in Workers : v = w
    BY <1>t, <1>1, StepEffects DEF OneRun
  <2>1. CASE Publishes(w)
    <3>1. final'[Planned].kind = "image"
      BY <1>t, <2>1 DEF Publishes, CleanInv, NothingElse, File, Kinds
    <3> QED
      BY <1>t, <2>0, <2>1, <3>1
         DEF Publishes, DurableInv, ImageShown, ImageSettled, SettledIsImage, SuccessSettled,
             TrashedBySuccess
  <2>2. CASE Settles(w)
    BY <1>t, <2>0, <2>2
       DEF Settles, DurableInv, ImageShown, ImageSettled, SettledIsImage, SuccessSettled,
           TrashedBySuccess
  <2>3. CASE Retires(w)
    BY <1>t, <2>0, <2>3
       DEF Retires, DurableInv, ImageShown, ImageSettled, SettledIsImage, SuccessSettled,
           TrashedBySuccess
  <2>4. CASE Prepares(w)
    BY <1>t, <2>0, <2>4
       DEF Prepares, DurableInv, ImageShown, ImageSettled, SettledIsImage, SuccessSettled,
           TrashedBySuccess
  <2> QED
    BY <1>t, <1>1, <2>1, <2>2, <2>3, <2>4, StepEffects
<1>2. CASE Environment
  <2>1. /\ UNCHANGED <<linked, old>>
        /\ \A w \in Workers :
             /\ pc'[w] \in {pc[w], "idle"}
             /\ result'[w] \in {result[w], "died"}
             /\ pc[w] = "idle" => result'[w] = result[w]
             /\ pc'[w] \in Window /\ mounted' = Planned => mounted = Planned
    BY <1>t, <1>2, EnvironmentEffects
  <2>2. \/ final'[Planned].kind = "image"
        \/ final[Planned].kind # "image"
        \/ /\ Planned \notin linked
           /\ \E d \in Drives : LoseUnsynced(d)
           /\ \A w \in Workers : pc'[w] = "idle" \/ mounted' # Planned
    <3>1. ASSUME NEW d \in Drives, LoseUnsynced(d)
          PROVE  \/ final'[Planned].kind = "image" \/ final[Planned].kind # "image"
                 \/ Planned \notin linked
      BY <1>t, <3>1, LoseEffects DEF Loses
    <3>2. CASE UNCHANGED final
      BY <3>2
    <3>3. CASE CreateTarget
      BY <1>t, <3>3 DEF CreateTarget, TargetHere, Exists
    <3>4. CASE PowerLoss
      BY <1>t, <3>1, <3>4 DEF PowerLoss
    <3>5. CASE Unplug
      BY <1>t, <3>1, <3>5 DEF Unplug
    <3> QED
      BY <1>2, <3>2, <3>3, <3>4, <3>5
         DEF Environment, RequestCancel, Kill, Replug, PlugOther, drive
  <2>3. ImageShown' /\ ImageSettled'
    BY <1>t, <2>1, <2>2 DEF ImageShown, ImageSettled, Window
  <2>4. SettledIsImage' /\ SuccessSettled' /\ TrashedBySuccess'
    BY <1>t, <2>1, <2>2 DEF SettledIsImage, SuccessSettled, TrashedBySuccess
  <2> QED
    BY <1>t, <2>3, <2>4 DEF DurableInv
<1>3. CASE UNCHANGED vars
  BY <1>t, <1>3 DEF vars, drive, run, DurableInv, ImageShown, ImageSettled, SettledIsImage,
     SuccessSettled, TrashedBySuccess
<1> QED
  BY <1>1, <1>2, <1>3 DEF Next

LEMMA DurableAlways ==
  OneRun /\ NoQuickSwap /\ DirectorySync => (Spec => []DurableInv)
PROOF
<1> SUFFICES ASSUME OneRun, NoQuickSwap, DirectorySync PROVE Spec => []DurableInv
  OBVIOUS
<1>1. CleanInv /\ Init => DurableInv
  BY DriveAssumption DEF Init, DurableInv, ImageShown, ImageSettled, SettledIsImage,
     SuccessSettled, TrashedBySuccess
<1>2. DurableInv /\ [Next]_vars => DurableInv'
  BY DurableStep
<1> QED
  BY <1>1, <1>2, CleanAlways, PTL DEF Spec

\* Where directories are synced, an ISO that a lone run reports as added is on
\* the planned drive ever after: no crash, power loss or unplugging undoes it.
THEOREM SuccessLasts ==
  OneRun /\ NoQuickSwap /\ DirectorySync => (Spec => []SuccessIsDurable)
PROOF
<1> SUFFICES ASSUME OneRun, NoQuickSwap, DirectorySync PROVE Spec => []SuccessIsDurable
  OBVIOUS
<1>1. DurableInv => SuccessIsDurable
  BY DriveAssumption DEF DurableInv, CleanInv, SafeInv, FinalsWhole, Whole, SettledIsImage,
     SuccessSettled, SuccessIsDurable
<1> QED
  BY <1>1, DurableAlways, PTL

\* Under the same conditions the replaced ISO leaves its place only after the
\* new one is whole, visible and settled.
THEOREM OldIsKeptUntilReplaced ==
  OneRun /\ NoQuickSwap /\ DirectorySync => (Spec => []OldKeptUntilReplaced)
PROOF
<1> SUFFICES ASSUME OneRun, NoQuickSwap, DirectorySync PROVE Spec => []OldKeptUntilReplaced
  OBVIOUS
<1>1. DurableInv => OldKeptUntilReplaced
  BY DriveAssumption DEF DurableInv, CleanInv, SafeInv, FinalsWhole, Whole, SettledIsImage,
     SuccessSettled, TrashedBySuccess, OldKeptUntilReplaced
<1> QED
  BY <1>1, DurableAlways, PTL
-----------------------------------------------------------------------------
(* Refinement *)

\* What the planned drive shows follows from the kind of its file.
ShownByKind ==
  /\ final[Planned].kind = "none" => TargetShows = "nothing"
  /\ final[Planned].kind = "foreign" => TargetShows = "foreign"
  /\ final[Planned].kind = "image" => TargetShows = "image"

LEMMA Shown == SafeInv => ShownByKind
PROOF
<1> SUFFICES ASSUME SafeInv PROVE ShownByKind
  OBVIOUS
<1>1. final[Planned] \in File /\ Planned \in Drives
  BY DriveAssumption DEF SafeInv, TypeOK, DriveTypeOK
<1>2. final[Planned].kind = "image" => final[Planned].data = Image
  BY <1>1 DEF SafeInv, FinalsWhole, Whole
<1> QED
  BY <1>1, <1>2 DEF ShownByKind, TargetShows, File, Kinds

\* Every step of apply_item, and of what happens around it, is a step of
\* AtomicInstall or changes nothing that AtomicInstall sees.
LEMMA RefinementStep ==
  ASSUME OneRun, NoQuickSwap, NoLateCreate, DirectorySync,
         DurableInv, FreeInv, DurableInv', [Next]_vars
  PROVE  [Abstract!Next]_(Abstract!avars)
PROOF
<1>t. /\ TypeOK /\ SafeInv /\ CleanInv /\ SafeInv'
      /\ final \in [Drives -> File] /\ partial \in [Drives -> File]
      /\ old \in [Drives -> {"kept", "trashed", "none"}]
      /\ Planned \in Drives /\ Planned # NoDrive
  BY DriveAssumption DEF DurableInv, CleanInv, SafeInv, TypeOK, DriveTypeOK
<1>s. /\ final[Planned].kind = "none" => TargetShows = "nothing"
      /\ final[Planned].kind = "foreign" => TargetShows = "foreign"
      /\ final[Planned].kind = "image" => TargetShows = "image"
      /\ final'[Planned].kind = "none" => TargetShows' = "nothing"
      /\ final'[Planned].kind = "foreign" => TargetShows' = "foreign"
      /\ final'[Planned].kind = "image" => TargetShows' = "image"
  <2>1. SafeInv' => ShownByKind'
    BY Shown, PTL
  <2> QED
    BY <1>t, <2>1, Shown DEF ShownByKind
<1>u. final'[Planned] = final[Planned] => TargetShows' = TargetShows
  BY DEF TargetShows, Image
<1>1. ASSUME NEW w \in Workers, Publishes(w)
      PROVE  Abstract!Publish
  <2>1. final[Planned].kind = "none"
    BY <1>1 DEF Publishes, FreeInv, TargetFree
  <2>2. final'[Planned].kind = "image"
    BY <1>t, <1>1 DEF Publishes, CleanInv, NothingElse, File, Kinds
  <2> QED
    BY <1>t, <1>1, <1>s, <2>1, <2>2 DEF Publishes, Abstract!Publish
<1>2. ASSUME NEW w \in Workers, Settles(w)
      PROVE  Abstract!Settle \/ UNCHANGED Abstract!avars
  <2>1. final[Planned].kind = "image"
    BY <1>2 DEF Settles, DurableInv, ImageShown
  <2> QED
    BY <1>2, <1>s, <1>u, <2>1 DEF Settles, Abstract!Settle, Abstract!avars
<1>3. ASSUME NEW w \in Workers, Retires(w)
      PROVE  Abstract!Retire
  <2>1. final[Planned].kind = "image" /\ Planned \in linked
    BY <1>3 DEF Retires, DurableInv, ImageShown, ImageSettled
  <2> QED
    BY <1>t, <1>3, <1>s, <1>u, <2>1 DEF Retires, Abstract!Retire
<1>4. ASSUME NEW w \in Workers, Prepares(w)
      PROVE  UNCHANGED Abstract!avars
  BY <1>4, <1>u DEF Prepares, Abstract!avars
<1>5. CASE Environment
  <2>1. UNCHANGED <<linked, old>>
    BY <1>t, <1>5, EnvironmentEffects
  <2>2. ASSUME NEW d \in Drives, LoseUnsynced(d)
        PROVE  Abstract!Forget \/ UNCHANGED Abstract!avars
    BY <1>t, <1>s, <1>u, <2>1, <2>2, LoseEffects
       DEF Loses, NoFile, Abstract!Forget, Abstract!avars
  <2>3. CASE Occupies
    BY <1>t, <1>s, <1>u, <2>1, <2>3 DEF Occupies, ForeignFile, Abstract!Next, Abstract!Occupy, Abstract!avars
  <2>4. CASE UNCHANGED final
    BY <1>u, <2>1, <2>4 DEF Abstract!avars
  <2> QED
    BY <1>t, <1>5, <2>2, <2>3, <2>4, EnvironmentEffects DEF Abstract!Next
<1>6. CASE UNCHANGED vars
  BY <1>u, <1>6 DEF vars, drive, Abstract!avars
<1> QED
  BY <1>t, <1>1, <1>2, <1>3, <1>4, <1>5, <1>6, StepEffects DEF Next, Abstract!Next

\* apply_item implements AtomicInstall where directories are synced, one run
\* at a time, nobody exchanges drives inside a window and nobody creates the
\* target's name between the last look at it and the rename.
THEOREM InstallIsAtomic ==
  OneRun /\ NoQuickSwap /\ NoLateCreate /\ DirectorySync => (Spec => Implements)
PROOF
<1> SUFFICES ASSUME OneRun, NoQuickSwap, NoLateCreate, DirectorySync
             PROVE  Spec => Abstract!Spec
  BY DEF Implements
<1>1. Init => Abstract!Init
  BY DriveAssumption DEF Init, Abstract!Init, TargetShows, NoFile
<1>2. DurableInv /\ FreeInv /\ DurableInv' /\ [Next]_vars => [Abstract!Next]_(Abstract!avars)
  BY RefinementStep
<1> QED
  BY <1>1, <1>2, DurableAlways, FreeAlways, PTL DEF Spec, Abstract!Spec
=============================================================================
