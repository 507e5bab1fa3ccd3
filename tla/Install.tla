------------------------------ MODULE Install ------------------------------
(***************************************************************************)
(* transfer.apply_item: how one plan item reaches a removable drive.       *)
(*                                                                         *)
(* A run of apply_item copies the verified download to `<name>.partial` on *)
(* the drive, verifies the copy and renames it to the target name.  Every  *)
(* path operation acts on whatever drive is mounted at that moment, so the *)
(* code checks again and again that it still is the planned one; those     *)
(* checks, the operations they guard and the failures between them are     *)
(* the steps of this module.  The download is one step here (its protocol  *)
(* is module Download).  A run is a thread of one application process;     *)
(* Workers with two elements are two processes on the same drive.          *)
(*                                                                         *)
(* File data are sequences of blocks, TRUE for a block equal to the        *)
(* published one.                                                          *)
(***************************************************************************)
EXTENDS Naturals, Sequences

CONSTANTS
  Workers,        \* runs of apply_item, all for the same plan item
  Drives,         \* drives that can appear at the plan's mount path
  Planned,        \* plan.device, the drive the plan was built for
  NoDrive,        \* nothing is mounted
  Blocks,         \* how many blocks the published image has
  Required,       \* artifact.size_bytes or 0: Blocks, or 0 if it is unknown
  Room,           \* blocks a drive has free without the files of this item
  Action,         \* item.action: "ADD" or "REPLACE"
  DirectorySync,  \* os.name # "nt": _fsync_directory does something
  Faults,         \* the disturbances this instance allows, see FaultNames
  MaxFaults       \* how many disturbances a behaviour may have

FaultNames ==
  {"kill",         \* the process dies or the user quits
   "power",        \* the machine loses power
   "unplug",       \* the drive is pulled out
   "swap",         \* another drive appears at the mount path
   "swapInWindow", \* drives come and go even between a device check and
                   \* the operation it guards
   "media",        \* a block reaches the drive corrupted
   "io",           \* an I/O error, a failed download
   "cancel",       \* the user presses Cancel
   "create",       \* another program creates the target's name
   "createInWindow"} \* ... even between the last check and the rename

ASSUME DriveAssumption == Planned \in Drives /\ NoDrive \notin Drives
ASSUME BlocksAssumption == Blocks \in Nat \ {0}
ASSUME RoomAssumption == Required \in {0, Blocks} /\ Room \in Nat
ASSUME ActionAssumption == Action \in {"ADD", "REPLACE"}
ASSUME SyncAssumption == DirectorySync \in BOOLEAN
ASSUME FaultAssumption == Faults \subseteq FaultNames /\ MaxFaults \in Nat

VARIABLES
  mounted,  \* the drive at the mount path, or NoDrive
  partial,  \* per drive, the file `<name>.partial`
  final,    \* per drive, the file with the target's name
  linked,   \* the drives whose target name would survive power loss
  old,      \* per drive, item.local.path: "kept", "trashed" or "none"
  pc,       \* per run, the next statement of apply_item
  handle,   \* per run, the file _copy holds open for writing
  copied,   \* per run, the blocks _copy has written
  cancel,   \* per run, cancelled() is true
  result,   \* per run, what apply_item returned or raised
  faults    \* disturbances so far

drive == <<mounted, partial, final, linked, old>>
run == <<pc, handle, copied, cancel, result>>
vars == <<drive, run, faults>>

-----------------------------------------------------------------------------
(* Files *)

Kinds == {"none", "image", "foreign"}
File == [kind : Kinds, data : Seq(BOOLEAN), flushed : Nat]

NoFile == [kind |-> "none", data |-> <<>>, flushed |-> 0]
ForeignFile == [kind |-> "foreign", data |-> <<>>, flushed |-> 0]
EmptyImage == [kind |-> "image", data |-> <<>>, flushed |-> 0]

\* The published image, the one the item's checksum accepts.
Image == [i \in 1..Blocks |-> TRUE]

Exists(f) == f.kind # "none"

\* Mutant of Flush: the data are written but not forced to the medium.
FlushForgotten(f) == f
Flush(f) == [f EXCEPT !.flushed = Len(f.data)]

\* f after losing power with n of its blocks on the medium.
Cut(f, n) == [f EXCEPT !.data = SubSeq(f.data, 1, n), !.flushed = n]

\* Where a handle of _copy leads: the `.partial` it created, that file after
\* a rename or an unlink, nowhere once its drive has gone.
Handles == [drive : Drives, at : {"partial", "final", "unlinked", "dead", "closed"}]
Closed == [drive |-> Planned, at |-> "closed"]

\* Every handle on drive d that leads to a place in `moved` now leads where
\* `moved` says.
Redirected(d, moved) ==
  [w \in Workers |->
     IF handle[w].drive = d /\ handle[w].at \in DOMAIN moved
       THEN [handle[w] EXCEPT !.at = moved[@]] ELSE handle[w]]

\* revalidate_device: the plan's device still has the plan's mount path.
SameDevice == mounted = Planned

\* partial.exists() and destination.exists(): FALSE when nothing is mounted.
PartialHere == mounted # NoDrive /\ Exists(partial[mounted])
TargetHere == mounted # NoDrive /\ Exists(final[mounted])

\* shutil.disk_usage: n more blocks fit on drive d, besides what this and
\* earlier attempts have written there.
HasRoom(d, n) == Len(partial[d].data) + Len(final[d].data) + n <= Room

Fault(name) == name \in Faults /\ faults < MaxFaults /\ faults' = faults + 1
-----------------------------------------------------------------------------
(* The states of a run *)

InTry == {"download", "check", "open", "copy", "verify", "recheck", "exists",
          "sync", "rename", "syncdir", "trash"}
Handling == {"cleanup", "unlink"}
PCs == {"idle"} \cup InTry \cup Handling

\* Statements a device check has cleared and nothing has checked since.
Window == {"open", "exists", "sync", "rename", "syncdir", "trash", "unlink"}

Goto(w, label) == pc' = [pc EXCEPT ![w] = label]
Close(w) == handle' = [handle EXCEPT ![w] = Closed]

\* An exception inside the try block: its handler comes next.
Raise(w, outcome) ==
  /\ Goto(w, "cleanup")
  /\ result' = [result EXCEPT ![w] = outcome]
  /\ Close(w)
  /\ UNCHANGED <<copied, cancel>>

\* The next statement, nothing else of the run changing.
Continue(w, label) ==
  /\ Goto(w, label)
  /\ UNCHANGED <<handle, copied, cancel, result>>

Return(w, outcome) ==
  /\ Goto(w, "idle")
  /\ result' = [result EXCEPT ![w] = outcome]
  /\ UNCHANGED <<handle, copied, cancel>>

Init ==
  /\ mounted = Planned
  /\ partial = [d \in Drives |-> NoFile]
  /\ final = [d \in Drives |-> NoFile]
  /\ linked = {}
  /\ old \in {f \in [Drives -> {"kept", "none"}] : f[Planned] = "kept"}
  /\ pc = [w \in Workers |-> "idle"]
  /\ handle = [w \in Workers |-> Closed]
  /\ copied = [w \in Workers |-> 0]
  /\ cancel = [w \in Workers |-> FALSE]
  /\ result = [w \in Workers |-> "none"]
  /\ faults = 0
-----------------------------------------------------------------------------
(* apply_item, statement by statement *)

\* The guards before the try block.  A `.partial` left by an earlier attempt
\* counts against the space they ask for.
Admitted == SameDevice /\ ~TargetHere /\ HasRoom(Planned, Required)

\* Their exceptions skip the handler that would remove that `.partial`.
\* An item that was added is not applied again: only failed ones are retried.
Begin(w) ==
  /\ pc[w] = "idle" /\ result[w] # "added"
  /\ cancel' = [cancel EXCEPT ![w] = FALSE]
  /\ \/ /\ Admitted
        /\ Goto(w, "download")
        /\ result' = [result EXCEPT ![w] = "running"]
        /\ copied' = [copied EXCEPT ![w] = 0]
        /\ UNCHANGED faults
     \/ /\ IF Admitted THEN Fault("io") ELSE UNCHANGED faults
        /\ result' = [result EXCEPT ![w] = "failed"]
        /\ UNCHANGED <<pc, copied>>
  /\ UNCHANGED <<drive, handle>>

\* _download and the verification of what it fetched.
Fetch(w) ==
  /\ pc[w] = "download"
  /\ \/ ~cancel[w] /\ Continue(w, "check") /\ UNCHANGED faults
     \/ cancel[w] /\ Raise(w, "cancelled") /\ UNCHANGED faults
     \/ ~cancel[w] /\ Raise(w, "failed") /\ Fault("io")
  /\ UNCHANGED drive

\* Mutant of CheckDevice: the drive is not looked at again after a download.
CheckDeviceSkipped(w) ==
  /\ pc[w] = "check"
  /\ \/ cancel[w] /\ Raise(w, "cancelled") /\ UNCHANGED faults
     \/ ~cancel[w] /\ mounted # NoDrive /\ Continue(w, "open") /\ UNCHANGED faults
  /\ UNCHANGED drive

\* revalidate_device and the free space of the drive, before the copy: here
\* the handler does remove the `.partial` that takes up the space.
CheckDevice(w) ==
  LET cleared == SameDevice /\ HasRoom(Planned, Blocks)
  IN  /\ pc[w] = "check"
      /\ \/ cancel[w] /\ Raise(w, "cancelled") /\ UNCHANGED faults
         \/ ~cancel[w] /\ cleared /\ Continue(w, "open") /\ UNCHANGED faults
         \/ /\ ~cancel[w] /\ Raise(w, "failed")
            /\ IF cleared THEN Fault("io") ELSE UNCHANGED faults
      /\ UNCHANGED drive

\* target.open("xb"): fails when the name exists.
OpenPartial(w) ==
  /\ pc[w] = "open"
  /\ IF mounted # NoDrive /\ ~Exists(partial[mounted])
       THEN /\ partial' = [partial EXCEPT ![mounted] = EmptyImage]
            /\ handle' = [handle EXCEPT ![w] = [drive |-> mounted, at |-> "partial"]]
            /\ copied' = [copied EXCEPT ![w] = 0]
            /\ Goto(w, "copy")
            /\ UNCHANGED <<cancel, result>>
       ELSE Raise(w, "failed") /\ UNCHANGED partial
  /\ UNCHANGED <<mounted, final, linked, old, faults>>

\* The file behind w's handle, and its replacement by f: a write to a file
\* that was unlinked leaves no trace.
Held(w) == IF handle[w].at = "final" THEN final[handle[w].drive]
                                     ELSE partial[handle[w].drive]
Write(w, f) ==
  /\ partial' = IF handle[w].at = "partial"
                  THEN [partial EXCEPT ![handle[w].drive] = f] ELSE partial
  /\ final' = IF handle[w].at = "final"
                THEN [final EXCEPT ![handle[w].drive] = f] ELSE final

\* Mutant of CopyBlock: one block too many.
CopyBlockTooMany(w) ==
  /\ pc[w] = "copy" /\ handle[w].at # "dead" /\ copied[w] <= Blocks
  /\ Write(w, [Held(w) EXCEPT !.data = Append(@, TRUE)])
  /\ copied' = [copied EXCEPT ![w] = @ + 1]
  /\ UNCHANGED <<mounted, linked, old, pc, handle, cancel, result, faults>>

\* One block of _copy: the write, then checked_progress.
CopyBlock(w) ==
  /\ pc[w] = "copy" /\ copied[w] < Blocks
  /\ handle[w].at # "dead" /\ HasRoom(handle[w].drive, 1)
  /\ \E good \in BOOLEAN :
       /\ Write(w, [Held(w) EXCEPT !.data = Append(@, good)])
       /\ IF good THEN UNCHANGED faults ELSE Fault("media")
  /\ \/ /\ ~cancel[w]
        /\ copied' = [copied EXCEPT ![w] = @ + 1]
        /\ UNCHANGED <<pc, handle, cancel, result>>
     \/ cancel[w] /\ Raise(w, "cancelled")
  /\ UNCHANGED <<mounted, linked, old>>

\* The end of _copy: outgoing.flush and os.fsync.
FinishCopy(w) ==
  /\ pc[w] = "copy" /\ handle[w].at # "dead" /\ copied[w] = Blocks
  /\ Write(w, Flush(Held(w)))
  /\ Close(w)
  /\ Goto(w, "verify")
  /\ UNCHANGED <<mounted, linked, old, copied, cancel, result, faults>>

\* A write or an fsync that fails.
CopyFails(w) ==
  /\ pc[w] = "copy"
  /\ IF handle[w].at = "dead" \/ (copied[w] < Blocks /\ ~HasRoom(handle[w].drive, 1))
       THEN UNCHANGED faults ELSE Fault("io")
  /\ Raise(w, "failed")
  /\ UNCHANGED drive

\* Mutant of VerifyPartial: only the size of the copy is compared.
VerifyPartialSize(w) ==
  /\ pc[w] = "verify"
  /\ IF ~PartialHere THEN Raise(w, "failed")
     ELSE IF Len(partial[mounted].data) # Blocks THEN Raise(w, "failed")
     ELSE Continue(w, "recheck")
  /\ UNCHANGED <<drive, faults>>

\* The digest of `.partial`, read from whatever drive is mounted.  Blocks are
\* only ever appended, so what counts is the file when its end is read.
VerifyPartial(w) ==
  /\ pc[w] = "verify"
  /\ IF ~PartialHere THEN Raise(w, "failed")
     ELSE IF cancel[w] /\ partial[mounted].data # <<>> THEN Raise(w, "cancelled")
     ELSE IF partial[mounted].data # Image THEN Raise(w, "failed")
     ELSE Continue(w, "recheck")
  /\ UNCHANGED <<drive, faults>>

\* The last look at the cancel flag and at the device.
Recheck(w) ==
  /\ pc[w] = "recheck"
  /\ IF cancel[w] THEN Raise(w, "cancelled")
     ELSE IF ~SameDevice THEN Raise(w, "failed")
     ELSE Continue(w, "exists")
  /\ UNCHANGED <<drive, faults>>

\* Mutant of CheckTarget: the name is not looked at again.
CheckTargetSkipped(w) ==
  /\ pc[w] = "exists"
  /\ Continue(w, "sync")
  /\ UNCHANGED <<drive, faults>>

\* The second look at destination.exists().
CheckTarget(w) ==
  /\ pc[w] = "exists"
  /\ IF TargetHere THEN Raise(w, "failed") ELSE Continue(w, "sync")
  /\ UNCHANGED <<drive, faults>>

\* _fsync_file(partial).
SyncPartial(w) ==
  /\ pc[w] = "sync"
  /\ IF PartialHere
       THEN /\ partial' = [partial EXCEPT ![mounted] = Flush(@)]
            /\ Continue(w, "rename")
       ELSE Raise(w, "failed") /\ UNCHANGED partial
  /\ UNCHANGED <<mounted, final, linked, old, faults>>

\* os.replace(partial, destination): replaces whatever has the name by now.
Rename(w) ==
  /\ pc[w] = "rename"
  /\ IF PartialHere
       THEN /\ final' = [final EXCEPT ![mounted] = partial[mounted]]
            /\ partial' = [partial EXCEPT ![mounted] = NoFile]
            /\ linked' = linked \ {mounted}
            /\ handle' = Redirected(mounted, [partial |-> "final", final |-> "unlinked"])
            /\ Goto(w, "syncdir")
            /\ UNCHANGED <<copied, cancel, result>>
       ELSE Raise(w, "failed") /\ UNCHANGED <<final, partial, linked>>
  /\ UNCHANGED <<mounted, old, faults>>

\* Mutant of SyncDirectory: the directory is not synced.
SyncDirectorySkipped(w) ==
  /\ pc[w] = "syncdir"
  /\ IF Action = "REPLACE" THEN Continue(w, "trash") ELSE Return(w, "added")
  /\ UNCHANGED <<drive, faults>>

\* Mutant of SyncDirectory: the replaced ISO is moved before the sync.
SyncDirectoryAfterTrash(w) ==
  /\ pc[w] = "syncdir" /\ mounted # NoDrive
  /\ old' = [old EXCEPT ![mounted] = "trashed"]
  /\ linked' = linked
  /\ Return(w, "added")
  /\ UNCHANGED <<mounted, partial, final, faults>>

\* _fsync_directory, and the return of an added ISO.
SyncDirectory(w) ==
  /\ pc[w] = "syncdir"
  /\ IF mounted # NoDrive
       THEN /\ linked' = IF DirectorySync THEN linked \cup {mounted} ELSE linked
            /\ IF Action = "REPLACE" THEN Continue(w, "trash") ELSE Return(w, "added")
       ELSE Raise(w, "failed") /\ UNCHANGED linked
  /\ UNCHANGED <<mounted, partial, final, old, faults>>

\* _trash(item.local.path): the replaced ISO is moved aside.
Trash(w) ==
  /\ pc[w] = "trash"
  /\ IF mounted # NoDrive /\ old[mounted] = "kept"
       THEN old' = [old EXCEPT ![mounted] = "trashed"] /\ Return(w, "added")
       ELSE Raise(w, "failed") /\ UNCHANGED old
  /\ UNCHANGED <<mounted, partial, final, linked, faults>>

\* Mutant of Cleanup: a `.partial` left by an earlier run is not removed.
CleanupOwnOnly(w) ==
  /\ pc[w] = "cleanup"
  /\ Continue(w, IF PartialHere /\ SameDevice /\ copied[w] > 0 THEN "unlink" ELSE "idle")
  /\ UNCHANGED <<drive, faults>>

\* The exception handler: a `.partial` is removed from the planned drive only.
Cleanup(w) ==
  /\ pc[w] = "cleanup"
  /\ Continue(w, IF PartialHere /\ SameDevice THEN "unlink" ELSE "idle")
  /\ UNCHANGED <<drive, faults>>

\* partial.unlink(missing_ok=True), whoever wrote that file.
UnlinkPartial(w) ==
  /\ pc[w] = "unlink"
  /\ Goto(w, "idle")
  /\ IF mounted # NoDrive
       THEN /\ partial' = [partial EXCEPT ![mounted] = NoFile]
            /\ handle' = Redirected(mounted, [partial |-> "unlinked"])
       ELSE UNCHANGED <<partial, handle>>
  /\ UNCHANGED <<mounted, final, linked, old, copied, cancel, result, faults>>

\* An I/O error in any other statement: the name may be taken already, the
\* directory not synced, the replaced ISO not moved, the `.partial` not removed.
StatementFails(w) ==
  /\ Fault("io")
  /\ \/ pc[w] \in InTry \ {"download", "check", "copy"} /\ Raise(w, "failed")
     \/ pc[w] = "unlink" /\ Continue(w, "idle")
  /\ UNCHANGED drive

Step(w) ==
  \/ Begin(w) \/ Fetch(w) \/ CheckDevice(w) \/ OpenPartial(w)
  \/ CopyBlock(w) \/ FinishCopy(w) \/ CopyFails(w) \/ VerifyPartial(w)
  \/ Recheck(w) \/ CheckTarget(w) \/ SyncPartial(w) \/ Rename(w)
  \/ SyncDirectory(w) \/ Trash(w) \/ Cleanup(w) \/ UnlinkPartial(w)
  \/ StatementFails(w)
-----------------------------------------------------------------------------
(* What happens around a run *)

\* action_cancel_run sets cancel_event; only a running transfer has one.
RequestCancel(w) ==
  /\ pc[w] # "idle" /\ ~cancel[w]
  /\ Fault("cancel")
  /\ cancel' = [cancel EXCEPT ![w] = TRUE]
  /\ UNCHANGED <<drive, pc, handle, copied, result>>

\* The process of w dies; what it wrote stays with the operating system.
Kill(w) ==
  /\ pc[w] # "idle"
  /\ Fault("kill")
  /\ Goto(w, "idle") /\ Close(w)
  /\ result' = [result EXCEPT ![w] = "died"]
  /\ UNCHANGED <<drive, copied, cancel>>

\* What drive d may hold after losing power: its files cut anywhere behind
\* their last fsync, a name that was not synced gone, a rename undone.
LoseUnsynced(d) ==
  \/ \E n \in partial[d].flushed..Len(partial[d].data),
        m \in final[d].flushed..Len(final[d].data) :
       /\ partial' = [partial EXCEPT ![d] = Cut(@, n)]
       /\ final' = [final EXCEPT ![d] = Cut(@, m)]
  \/ /\ partial' = [partial EXCEPT ![d] = NoFile]
     /\ UNCHANGED final
  \/ /\ final[d].kind = "image" /\ d \notin linked
     /\ partial' = [partial EXCEPT ![d] = final[d]]
     /\ final' = [final EXCEPT ![d] = NoFile]

\* The machine loses power: every run ends.
PowerLoss ==
  /\ Fault("power")
  /\ IF mounted = NoDrive THEN UNCHANGED <<partial, final>> ELSE LoseUnsynced(mounted)
  /\ pc' = [w \in Workers |-> "idle"]
  /\ handle' = [w \in Workers |-> Closed]
  /\ result' = [w \in Workers |-> IF pc[w] = "idle" THEN result[w] ELSE "died"]
  /\ UNCHANGED <<mounted, linked, old, copied, cancel>>

\* The drive is pulled out: open handles on it are dead from now on.
Unplug ==
  /\ mounted # NoDrive
  /\ Fault("unplug")
  /\ mounted' = NoDrive
  /\ LoseUnsynced(mounted)
  /\ handle' = [w \in Workers |->
                  IF handle[w].drive = mounted /\ handle[w].at # "closed"
                    THEN [handle[w] EXCEPT !.at = "dead"] ELSE handle[w]]
  /\ UNCHANGED <<linked, old, pc, copied, cancel, result>>

\* Plugging a drive in takes longer than the statements of Window, unless
\* "swapInWindow" says otherwise.
TimeToPlug ==
  (\E w \in Workers : pc[w] \in Window) => "swapInWindow" \in Faults

\* The planned drive comes back.
Replug ==
  /\ mounted = NoDrive /\ TimeToPlug
  /\ mounted' = Planned
  /\ UNCHANGED <<partial, final, linked, old, run, faults>>

\* Another drive takes the mount path.
PlugOther(d) ==
  /\ mounted = NoDrive /\ d # Planned /\ TimeToPlug
  /\ Fault("swap")
  /\ mounted' = d
  /\ UNCHANGED <<partial, final, linked, old, run>>

\* Another program saves a file under the target's name.
CreateTarget ==
  /\ mounted # NoDrive /\ ~TargetHere
  /\ Fault("create")
  /\ (\E w \in Workers : pc[w] \in {"sync", "rename"}) => "createInWindow" \in Faults
  /\ final' = [final EXCEPT ![mounted] = ForeignFile]
  /\ UNCHANGED <<mounted, partial, linked, old, run>>

Environment ==
  \/ \E w \in Workers : RequestCancel(w) \/ Kill(w)
  \/ PowerLoss \/ Unplug \/ Replug \/ CreateTarget
  \/ \E d \in Drives : PlugOther(d)

Next == (\E w \in Workers : Step(w)) \/ Environment

Spec == Init /\ [][Next]_vars

\* A thread that can run does; the user retries what failed and plugs the
\* planned drive in again.
FairSpec ==
  /\ Spec
  /\ \A w \in Workers : WF_vars(Step(w))
  /\ WF_vars(Replug)
-----------------------------------------------------------------------------
(* Correctness *)

DriveTypeOK ==
  /\ mounted \in Drives \cup {NoDrive}
  /\ partial \in [Drives -> File] /\ final \in [Drives -> File]
  /\ linked \subseteq Drives
  /\ old \in [Drives -> {"kept", "trashed", "none"}]

Results == {"none", "running", "added", "failed", "cancelled", "died"}
RunTypeOK ==
  /\ pc \in [Workers -> PCs]
  /\ handle \in [Workers -> Handles]
  /\ copied \in [Workers -> 0..Blocks]
  /\ cancel \in [Workers -> BOOLEAN]
  /\ result \in [Workers -> Results]

\* The state has the shape the comments at VARIABLES give it; in particular a
\* copy never writes more blocks than the download has.
TypeOK == DriveTypeOK /\ RunTypeOK /\ faults \in 0..MaxFaults

\* No drive ever shows the target name with anything but the whole published
\* image behind it: through crashes, power loss, corrupted blocks and drives
\* that come and go (docs/THREAT_MODEL.md: no "partial copy" becomes "a
\* bootable-looking final ISO").
VisibleIsVerified ==
  \A d \in Drives : final[d].kind = "image" => final[d].data = Image

\* An ISO reported as added stays on the planned drive, whatever fails later.
SuccessIsDurable ==
  \A w \in Workers :
    result[w] = "added" => final[Planned].kind = "image" /\ final[Planned].data = Image

\* The replaced ISO has left its place only if the new one is there to stay
\* (README.md: "It keeps the existing ISO until ...").
OldKeptUntilReplaced ==
  old[Planned] = "trashed" => /\ final[Planned].kind = "image"
                              /\ final[Planned].data = Image
                              /\ Planned \in linked

\* A drive that takes the mount path during a run is never written to: only
\* programs other than this one change its files.
OtherDrivesUntouched ==
  [][\A d \in Drives \ {Planned} :
       /\ partial'[d] = partial[d] /\ old'[d] = old[d]
       /\ final'[d] # final[d] => final'[d] = ForeignFile]_vars

\* A file another program saved under the target's name is never replaced
\* (README.md: "The application does not overwrite an ISO that has the same
\* target filename").
OthersFilesKept ==
  [][\A d \in Drives : final[d].kind = "foreign" => final'[d] = final[d]]_vars

\* A `.partial` that a killed or unplugged run left takes so much space that
\* the guard before the try block refuses every further attempt.
LeftoverFills == Exists(partial[Planned]) /\ ~HasRoom(Planned, Required)

\* Once the disturbances are over, retrying brings the verified image to the
\* drive for good: no `.partial` left behind, by whatever failure, blocks it,
\* but one that fills the drive, which the user must remove (docs/RECOVERY.md:
\* "remove stale `.partial` files, and build a fresh plan").
EventuallyVisible ==
  <>[]((final[Planned].kind = "image" /\ final[Planned].data = Image) \/ LeftoverFills)

\* What the planned drive shows of all this, and the promise it keeps.
TargetShows ==
  CASE final[Planned].kind = "none" -> "nothing"
    [] final[Planned].kind = "foreign" -> "foreign"
    [] final[Planned].kind = "image" ->
         IF final[Planned].data = Image THEN "image" ELSE "broken"

Abstract == INSTANCE AtomicInstall WITH
  target <- TargetShows,
  settled <- Planned \in linked,
  old <- old[Planned]

\* apply_item, with everything around it, implements AtomicInstall.
Implements == Abstract!Spec
-----------------------------------------------------------------------------
(* Why VisibleIsVerified and its companions hold *)

\* One run at a time, and no drive comes or goes between a check and the
\* operation it guards: without either, TLC finds VisibleIsVerified violated.
OneRun == \A v, w \in Workers : v = w
NoQuickSwap == "swapInWindow" \notin Faults

\* The file holds the whole published image and would survive power loss.
Whole(f) == f.data = Image /\ f.flushed = Blocks

\* Other drives hold nothing of ours, and a run in a window acts on the
\* planned drive or on none.
OthersClean ==
  \A d \in Drives \ {Planned} : partial[d].kind = "none" /\ final[d].kind # "image"
WindowMounted ==
  \A w \in Workers : pc[w] \in Window => mounted \in {Planned, NoDrive}

\* A copy writes to the planned drive's `.partial` or to a drive that is gone.
CopyHandle ==
  \A w \in Workers :
    IF pc[w] = "copy"
      THEN handle[w].at = "dead" \/ handle[w] = [drive |-> Planned, at |-> "partial"]
      ELSE handle[w].at = "closed"

\* From the end of the copy on, `.partial` is flushed; from its verification
\* on it is the whole image; and so is whatever took its name's place.
PartialFlushed ==
  \A w \in Workers :
    pc[w] = "verify" => partial[Planned].flushed = Len(partial[Planned].data)
PartialWhole ==
  \A w \in Workers :
    pc[w] \in {"recheck", "exists", "sync", "rename"} =>
      partial[Planned].kind = "none" \/ Whole(partial[Planned])
FinalsWhole ==
  \A d \in Drives : final[d].kind = "image" => Whole(final[d])

\* The inductive invariant.
SafeInv ==
  /\ TypeOK /\ OthersClean /\ WindowMounted /\ CopyHandle
  /\ PartialFlushed /\ PartialWhole /\ FinalsWhole
-----------------------------------------------------------------------------
(* Why success is durable and AtomicInstall is implemented *)

\* Nobody creates the target's name between the last look and the rename.
NoLateCreate == "createInWindow" \notin Faults

\* Names that show no image of ours are as they were found, and `.partial` is
\* always ours.
NothingElse ==
  /\ \A d \in Drives : /\ final[d].kind = "none" => final[d] = NoFile
                       /\ final[d].kind = "foreign" => final[d] = ForeignFile
                       /\ partial[d].kind # "foreign"
  /\ \A d \in Drives \ {Planned} : partial[d] = NoFile

\* The name the rename will take is free, as long as the drive is there.
TargetFree ==
  \A w \in Workers :
    pc[w] \in {"sync", "rename"} /\ mounted = Planned => final[Planned].kind = "none"

\* After the rename the drive shows the image, or it is gone; the ISO that is
\* replaced goes only when the image's name is settled.
ImageShown ==
  \A w \in Workers :
    pc[w] \in {"syncdir", "trash"} /\ mounted = Planned => final[Planned].kind = "image"
ImageSettled ==
  \A w \in Workers : pc[w] = "trash" /\ mounted = Planned => Planned \in linked

\* A settled name is that of an image; a run that reported success is over,
\* with its image settled, and only such a run has moved the replaced ISO.
SettledIsImage == Planned \in linked => final[Planned].kind = "image"
SuccessSettled ==
  \A w \in Workers : result[w] = "added" => pc[w] = "idle" /\ Planned \in linked
TrashedBySuccess ==
  old[Planned] = "trashed" => \E w \in Workers : result[w] = "added"

\* The inductive invariants: for all systems, for those where nobody creates
\* the name late, and for those that sync directories.
CleanInv == SafeInv /\ NothingElse
FreeInv == CleanInv /\ TargetFree
DurableInv ==
  /\ CleanInv /\ ImageShown /\ ImageSettled
  /\ SettledIsImage /\ SuccessSettled /\ TrashedBySuccess
=============================================================================
