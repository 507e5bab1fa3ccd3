------------------------------ MODULE Download ------------------------------
(***************************************************************************)
(* transfer._download and the part of apply_item around it: how an image   *)
(* gets into the download cache, and what a later run makes of what an     *)
(* interrupted one left there.                                             *)
(*                                                                         *)
(* The cache keeps `<filename>.download` and, beside it, the validator     *)
(* (ETag or Last-Modified) of the response it came from.  A run resumes    *)
(* with Range and If-Range, or starts over; only the checksum of the plan  *)
(* item decides whether the result is used.  The file name is the only key *)
(* of the cache, so the file may stem from another release of that name.   *)
(*                                                                         *)
(* File data are sequences of blocks, a block named for the release it     *)
(* belongs to; its position in the file is its position in the release.    *)
(***************************************************************************)
EXTENDS Naturals, Sequences

CONSTANTS
  Releases,    \* what the download URL may serve, each with a validator of its own
  NoTag,       \* no validator
  Pinned,      \* the release whose checksum the plan item has
  Size,        \* [Releases -> Nat \ {0}], in blocks
  SizeKnown,   \* artifact.size_bytes is not None
  Room,        \* blocks the staging directory has free without this file
  Server,      \* the liberties the server takes, see ServerNames
  Faults,      \* the disturbances this instance allows, see FaultNames
  MaxFaults    \* how many disturbances a behaviour may have

ServerNames ==
  {"ignoresIfRange",  \* answers 206 although the file has changed
   "omitsTag"}        \* leaves out ETag and Last-Modified

FaultNames ==
  {"kill",     \* the process dies or the user quits
   "network",  \* the request or the transfer raises an exception
   "short",    \* the body ends early without an exception
   "space",    \* other programs fill the staging directory for a while
   "cancel",   \* the user presses Cancel
   "drive",    \* the part of apply_item after the download fails
   "publish"}  \* the server's file is replaced

ASSUME ReleaseAssumption == Pinned \in Releases /\ NoTag \notin Releases
ASSUME SizeAssumption == Size \in [Releases -> Nat \ {0}] /\ SizeKnown \in BOOLEAN
ASSUME RoomAssumption == Room \in Nat
ASSUME ServerAssumption == Server \subseteq ServerNames
ASSUME FaultAssumption == Faults \subseteq FaultNames /\ MaxFaults \in Nat

VARIABLES
  served,     \* the release behind download_url now
  cache,      \* the blocks of `.download`; <<>> when it is empty or missing
  tag,        \* the validator stored beside it, or NoTag
  pc,         \* the next statement of the run
  existing,   \* bytes the run resumes from, and the validator it read with them
  validator,
  body,       \* the response: which release, which validator, append or rewrite
  completed,  \* blocks in the file as the run counts them
  maximum,    \* maximum_size: what the run found room for when it began
  faults      \* disturbances so far

cacheFiles == <<cache, tag>>
locals == <<existing, validator, body, completed, maximum>>
vars == <<served, cacheFiles, pc, locals, faults>>

Tags == Releases \cup {NoTag}
Full(r) == [i \in 1..Size[r] |-> r]
Expected == Size[Pinned]
Fault(name) == name \in Faults /\ faults < MaxFaults /\ faults' = faults + 1

Running == {"load", "request", "tag", "open", "read", "verify", "apply"}

\* What an earlier plan for another release may have left in the cache.
Leftovers == {<<>>} \cup {Full(r) : r \in {q \in Releases : Size[q] <= Room}}

\* shutil.disk_usage(target.parent).free
Free == IF Len(cache) <= Room THEN Room - Len(cache) ELSE 0

Init ==
  /\ served \in Releases
  /\ cache \in Leftovers
  /\ tag \in Tags /\ (cache # <<>> => tag \in {cache[1], NoTag}) /\ (cache = <<>> => tag = NoTag)
  /\ pc = "idle"
  /\ existing = 0 /\ validator = NoTag
  /\ body = [release |-> Pinned, tag |-> NoTag, append |-> FALSE]
  /\ completed = 0 /\ maximum = 0
  /\ faults = 0
-----------------------------------------------------------------------------
(* One run *)

\* The end of a run by an exception: the cache stays as it is.
Raise == pc' = "idle"

\* target.unlink and validator_path.unlink.
Discard == cache' = <<>> /\ tag' = NoTag

Begin ==
  /\ pc = "idle" /\ pc' = "load"
  /\ UNCHANGED <<served, cacheFiles, locals, faults>>

\* Mutant of Load: the range starts one block too early.
LoadOneLess ==
  /\ pc = "load" /\ pc' = "request"
  /\ existing' = (IF tag = NoTag THEN 0 ELSE Len(cache)) - 1
  /\ validator' = tag /\ maximum' = Room
  /\ UNCHANGED <<served, cacheFiles, body, completed, faults>>

\* Mutant of Load: a complete download is not recognised.
LoadForgetful ==
  /\ pc = "load" /\ pc' = "request"
  /\ existing' = IF tag = NoTag THEN 0 ELSE Len(cache)
  /\ validator' = tag /\ maximum' = Room
  /\ UNCHANGED <<served, cacheFiles, body, completed, faults>>

\* What the cache holds of an earlier attempt.  Without a validator it counts
\* as nothing; a complete one is not requested again; a longer one goes.
Load ==
  LET found == IF tag = NoTag THEN 0 ELSE Len(cache) IN
  /\ pc = "load"
  /\ maximum' = found + Free
  /\ \/ /\ SizeKnown /\ found = Expected
        /\ pc' = "verify" /\ existing' = found /\ validator' = tag
        /\ UNCHANGED cacheFiles
     \/ /\ SizeKnown /\ found > Expected
        /\ pc' = "request" /\ existing' = 0 /\ validator' = NoTag
        /\ Discard
     \/ /\ SizeKnown => found < Expected
        /\ pc' = "request" /\ existing' = found /\ validator' = tag
        /\ UNCHANGED cacheFiles
  /\ UNCHANGED <<served, body, completed, faults>>

\* The tag a response may carry.
Headers == {served} \cup (IF "omitsTag" \in Server THEN {NoTag} ELSE {})

\* Whether the server answers a Range request with the rest of its file: it
\* may unless If-Range names another release.
MayContinue == existing > 0 /\ (validator = served \/ "ignoresIfRange" \in Server)

\* The blocks the response is to bring after the first `done`: what the
\* metadata or Content-Length say, none if neither does.
Needed(done) == IF SizeKnown THEN {Expected - done} ELSE {0, Size[served] - done}

\* The free space is asked for while the old file is still there.
HasRoom(need) == need <= Free

\* client.open, and the response's status and headers: 206, the rest of the
\* file, or 200, the whole of it, which the server may always send.  A lack of
\* room comes first; a 206 of another file goes back to the start with an
\* empty cache.
Request ==
  /\ pc = "request"
  /\ \E t \in Headers, append \in BOOLEAN :
       LET done == IF append THEN existing ELSE 0
           same == append => t \in {validator, NoTag}
       IN \E need \in Needed(done) :
            /\ append => MayContinue /\ existing < Size[served]
            /\ \/ /\ HasRoom(need) /\ same
                  /\ body' = [release |-> served, tag |-> t, append |-> append]
                  /\ completed' = done /\ pc' = "tag"
                  /\ UNCHANGED cacheFiles
               \/ /\ HasRoom(need) /\ ~same
                  /\ Discard /\ pc' = "load"
                  /\ UNCHANGED <<body, completed>>
               \/ /\ ~HasRoom(need)
                  /\ Raise
                  /\ UNCHANGED <<cacheFiles, body, completed>>
  /\ UNCHANGED <<served, existing, validator, maximum, faults>>

\* The request fails: the network, or 416 for a range that starts at the end
\* of the file.
RequestFails ==
  /\ pc = "request"
  /\ \/ MayContinue /\ existing >= Size[served] /\ UNCHANGED faults
     \/ Fault("network") \/ Fault("space")
  /\ Raise
  /\ UNCHANGED <<served, cacheFiles, locals>>

\* The response's validator is stored before any of its body.
StoreTag ==
  /\ pc = "tag" /\ pc' = "open"
  /\ tag' = body.tag
  /\ UNCHANGED <<served, cache, locals, faults>>

\* Mutant of OpenCache: a file the server starts anew is opened to append.
OpenCacheAppends ==
  /\ pc = "open" /\ pc' = "read"
  /\ UNCHANGED <<served, cacheFiles, locals, faults>>

\* target.open(mode): "wb" truncates.
OpenCache ==
  /\ pc = "open" /\ pc' = "read"
  /\ cache' = IF body.append THEN cache ELSE <<>>
  /\ UNCHANGED <<served, tag, locals, faults>>

\* Mutant of ReadBlock: the advertised size is checked after the write.
ReadBlockUnbounded ==
  /\ pc = "read" /\ completed < Size[body.release]
  /\ cache' = Append(cache, body.release)
  /\ completed' = completed + 1
  /\ pc' = IF SizeKnown /\ completed' > Expected THEN "idle" ELSE "read"
  /\ UNCHANGED <<served, tag, existing, validator, body, maximum, faults>>

\* One block of the body; more of them than fit or than advertised is an error.
ReadBlock ==
  /\ pc = "read" /\ completed < Size[body.release]
  /\ IF completed + 1 > maximum \/ (SizeKnown /\ completed + 1 > Expected)
       THEN Raise /\ UNCHANGED <<cache, completed>>
       ELSE /\ cache' = Append(cache, body.release)
            /\ completed' = completed + 1
            /\ UNCHANGED pc
  /\ UNCHANGED <<served, tag, existing, validator, body, maximum, faults>>

\* An exception while reading: the network, a full disk, the cancel flag.
ReadFails ==
  /\ pc = "read"
  /\ Fault("network") \/ Fault("space") \/ Fault("cancel")
  /\ Raise
  /\ UNCHANGED <<served, cacheFiles, locals>>

\* The end of the body, or what looks like it.
EndOfBody ==
  /\ pc = "read"
  /\ IF completed = Size[body.release] THEN UNCHANGED faults ELSE Fault("short")
  /\ IF SizeKnown /\ completed # Expected THEN Raise ELSE pc' = "verify"
  /\ UNCHANGED <<served, cacheFiles, locals>>

\* Mutant of Verify: a download that fails its checksum is kept.
VerifyKeeps ==
  /\ pc = "verify"
  /\ pc' = IF cache = Full(Pinned) THEN "apply" ELSE "idle"
  /\ UNCHANGED <<served, cacheFiles, locals, faults>>

\* The checksum of the download.  What fails it is removed, tag and all; so
\* is a download whose verification is cancelled, for TransferCancelled is a
\* TransferError.
Verify ==
  /\ pc = "verify"
  /\ \/ /\ cache = Full(Pinned)
        /\ pc' = "apply"
        /\ UNCHANGED <<cacheFiles, faults>>
     \/ /\ cache # Full(Pinned)
        /\ Discard /\ Raise
        /\ UNCHANGED faults
     \/ /\ Fault("cancel")
        /\ Discard /\ Raise
  /\ UNCHANGED <<served, locals>>

\* Mutant of Apply: a failure on the drive throws the download away.
ApplyDiscards ==
  /\ pc = "apply"
  /\ \/ pc' = "done" /\ UNCHANGED <<cacheFiles, faults>>
     \/ Fault("drive") /\ Raise /\ Discard
  /\ UNCHANGED <<served, locals>>

\* The rest of apply_item (module Install).  The download is not removed,
\* whether the drive got its copy or not.
Apply ==
  /\ pc = "apply"
  /\ \/ pc' = "done" /\ UNCHANGED faults
     \/ Fault("drive") /\ Raise
  /\ UNCHANGED <<served, cacheFiles, locals>>

Step ==
  \/ Begin \/ Load \/ Request \/ RequestFails \/ StoreTag \/ OpenCache
  \/ ReadBlock \/ ReadFails \/ EndOfBody \/ Verify \/ Apply
-----------------------------------------------------------------------------
(* What happens around a run *)

\* The process dies; its files stay.
Kill ==
  /\ pc \in Running
  /\ Fault("kill")
  /\ pc' = "idle"
  /\ UNCHANGED <<served, cacheFiles, locals>>

\* Another release takes the place of the one served.
Publish(r) ==
  /\ r # served /\ pc # "done"
  /\ Fault("publish")
  /\ served' = r
  /\ UNCHANGED <<cacheFiles, pc, locals>>

\* The image is on the drive; the plan is done with this item.
Done == pc = "done" /\ UNCHANGED vars

Next == Step \/ Kill \/ (\E r \in Releases : Publish(r)) \/ Done

Spec == Init /\ [][Next]_vars

\* A thread that can run does, and the user retries.
FairSpec == Spec /\ WF_vars(Step)
-----------------------------------------------------------------------------
(* Correctness *)

TypeOK ==
  /\ served \in Releases
  /\ cache \in Seq(Releases) /\ tag \in Tags
  /\ pc \in Running \cup {"idle", "done"}
  /\ existing \in Nat /\ validator \in Tags
  /\ body \in [release : Releases, tag : Tags, append : BOOLEAN]
  /\ completed \in Nat /\ maximum \in Nat
  /\ faults \in 0..MaxFaults

\* The count the size checks rely on is the length of the file: an appended
\* body continues exactly where the cache ends.
CountIsLength == pc = "read" => completed = Len(cache)

\* A run never writes more than the metadata announce, whatever the server
\* sends and whatever it finds in the cache.
WithinAdvertisedSize == [][pc = "read" /\ SizeKnown => Len(cache') <= Expected]_vars

\* A complete download that is known to be one is never requested again
\* (tests/test_depot_transfer.py: "a complete cached download must not
\* request a range past EOF").
CompleteStaysOffline == pc = "request" /\ existing > 0 => cache # Full(Pinned)

\* A complete download with its validator survives every failure until it is
\* on the drive: only a cancelled verification removes it.  (At "open" the tag
\* is already that of the response that will replace the file.)
CompleteDownloadKept ==
  [][cache = Full(Pinned) /\ tag # NoTag /\ pc \notin {"verify", "open"}
       => cache' = cache]_vars

\* A leftover that is not resumed takes so much space that no response is
\* admitted, although opening the file would truncate it.
LeftoverFills == cache # <<>> /\ ~HasRoom(Expected)

\* Once the URL serves the planned release and nothing disturbs the runs any
\* more, one of them succeeds: neither a mixture of releases, nor a validator
\* stored for data that never arrived, nor a leftover blocks the cache, but a
\* leftover that the staging directory cannot hold beside the whole image.
EventuallyDownloaded ==
  <>[](served = Pinned) => <>(pc = "done") \/ <>[]LeftoverFills
-----------------------------------------------------------------------------
(* Why they hold *)

\* A run resumes from the end of the cache or from the start; a download known
\* to be complete is not resumed.
ResumesAtEnd ==
  pc = "request" => /\ existing \in {0, Len(cache)}
                    /\ SizeKnown /\ existing > 0 => existing < Expected

\* Between the response and the first block the count is what opening the
\* cache will leave in it.
CountIsPromised ==
  pc \in {"tag", "open"} => completed = IF body.append THEN Len(cache) ELSE 0

CountWithinSize ==
  pc \in {"tag", "open", "read"} /\ SizeKnown => completed <= Expected

\* The inductive invariant.
CacheInv == TypeOK /\ ResumesAtEnd /\ CountIsPromised /\ CountIsLength /\ CountWithinSize
=============================================================================
