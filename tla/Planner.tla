------------------------------ MODULE Planner ------------------------------
(***************************************************************************)
(* planner.build_plan: from the ISOs on a drive to the plan the user       *)
(* confirms.  Every ISO is identified, its release is looked up on a pool  *)
(* of threads that finish in any order, and one loop in the order of the   *)
(* ISOs decides what is added: one file per target name, within the free   *)
(* space, and nothing unverified.                                          *)
(*                                                                         *)
(* What providers, the assignment catalog and the drive answer are inputs, *)
(* chosen when the code asks for them.  Messages are the reason they give. *)
(***************************************************************************)
EXTENDS Naturals, Sequences, FiniteSets

CONSTANTS
  Isos,         \* how many ISOs find_isos returns, 1..Isos in its order
  Directories,  \* where on the drive they lie
  Names,        \* file names of releases
  Variants,     \* values of IsoIdentity.variant_key
  Sizes,        \* release sizes
  NoSize,       \* artifact.size_bytes is None
  Free,         \* values of disk_usage(mount_path).free
  Parallelism,  \* metadata_parallelism
  Detections,   \* what identification may come to, of Preparation
  Releases      \* what providers may offer, of Artifact

ASSUME SizeAssumption == Sizes \subseteq Nat /\ NoSize \notin Nat /\ Free \subseteq Nat
ASSUME PoolAssumption == Isos \in Nat /\ Parallelism \in Nat \ {0}

\* ReleaseArtifact, as far as planning looks at it; newer is what
\* provider.is_newer says of it.
Artifact == [name : Names, size : Sizes \cup {NoSize}, verified : BOOLEAN,
             newer : BOOLEAN, variant : Variants]
NoArtifact == [name |-> "none"]

\* How identification can end, unless it raises (Fails): a provider or the
\* catalog knows the ISO, the catalog names a provider that does not exist,
\* nobody knows it, the catalog raises AssignmentError.
Findings == {[known |-> TRUE, errors |-> {}],
             [known |-> TRUE, errors |-> {"provider"}],
             [known |-> FALSE, errors |-> {"unknown"}],
             [known |-> FALSE, errors |-> {"catalog", "unknown"}]}

Preparation == [directory : Directories, variant : Variants, custom : BOOLEAN,
                finding : Findings]

ASSUME InputAssumption == Releases \subseteq Artifact /\ Detections \subseteq Preparation

VARIABLES
  phase,     \* "prepare", "resolve", "plan", "done" or "failed"
  prepared,  \* prepared: what is known of each ISO so far, in order
  resolved,  \* resolved: index -> release or error
  drive,     \* free space, existing target paths, whether the drive is writable
  remaining, \* remaining_free
  taken,     \* planned_destinations
  items      \* items: the plan, in order

vars == <<phase, prepared, resolved, drive, remaining, taken, items>>

-----------------------------------------------------------------------------
(* The data of a plan *)

\* What resolved holds for an index: a target, or the error in its place.
Answers == [target : Artifact \cup {NoArtifact}, errors : SUBSET {"resolution"}]
Missing == [target |-> NoArtifact, errors |-> {}]
Failure == [target |-> NoArtifact, errors |-> {"resolution"}]

Indexes == 1..Isos
Paths == Directories \X Names
Path(i, target) == <<prepared[i].directory, target.name>>

\* The indexes whose lookup was submitted to the pool.
Submitted == {i \in DOMAIN prepared : prepared[i].finding = [known |-> TRUE, errors |-> {}]}
Unresolved == Submitted \ DOMAIN resolved

\* PlanItem.writable.
Writable(item) == item.errors = {} /\ item.action = "ADD"
Added == {i \in DOMAIN items : items[i].action = "ADD"}
Reasons == {"provider", "catalog", "unknown", "resolution", "unverified", "duplicate",
            "readonly", "space"}
Items == [target : Artifact \cup {NoArtifact}, warnings : SUBSET {"custom", "current", "exists"},
          action : {"ADD", "SKIP"}, errors : SUBSET Reasons]

Init ==
  /\ phase = "prepare"
  /\ prepared = <<>>
  /\ resolved = [i \in {} |-> Missing]
  /\ drive \in [free : Free, existing : SUBSET Paths, writable : BOOLEAN]
  /\ remaining = drive.free
  /\ taken = {}
  /\ items = <<>>
-----------------------------------------------------------------------------
(* build_plan *)

\* What nothing here expects ends the scan without a plan, for every ISO:
\* provider_map and find_isos raise before the first one; lookup raises what
\* is no AssignmentError, the OSError of an ISO that cannot be read or the
\* UnicodeDecodeError of a document; disk_usage raises before the loop.
Fails ==
  /\ \/ phase = "prepare" /\ (prepared = <<>> \/ Len(prepared) < Isos)
     \/ phase = "plan" /\ items = <<>>
  /\ phase' = "failed"
  /\ UNCHANGED <<prepared, resolved, drive, remaining, taken, items>>

\* One ISO is identified by its name, or else by the catalog's hash of it.
Prepare ==
  /\ phase = "prepare" /\ Len(prepared) < Isos
  /\ \E detection \in Detections : prepared' = Append(prepared, detection)
  /\ UNCHANGED <<phase, resolved, drive, remaining, taken, items>>

Submit ==
  /\ phase = "prepare" /\ Len(prepared) = Isos
  /\ phase' = "resolve"
  /\ UNCHANGED <<prepared, resolved, drive, remaining, taken, items>>

\* Mutant of Answer: the release is taken as the provider gives it.
AnswerUnbound(i, target) == [target |-> target, errors |-> {}]

\* _resolve_target: a release that is not of the ISO's variant is an error
\* (Provider.validate_binding), as is one without an identity.
Answer(i, target) ==
  IF target.variant = prepared[i].variant
    THEN [target |-> target, errors |-> {}] ELSE Failure

\* Mutant of Resolve: answers are stored in the order they arrive.
ResolveByArrival(i) ==
  /\ phase = "resolve" /\ i \in Unresolved
  /\ \E target \in Releases :
       LET slot == CHOOSE j \in Unresolved : \A k \in Unresolved : j <= k IN
       resolved' = [j \in DOMAIN resolved \cup {slot} |->
                      IF j = slot THEN Answer(i, target) ELSE resolved[j]]
  /\ UNCHANGED <<phase, prepared, drive, remaining, taken, items>>

\* A future completes: one of those a thread of the pool is working on.  It
\* is stored under the index it was submitted for.
Resolve(i) ==
  /\ phase = "resolve" /\ i \in Unresolved
  /\ Cardinality({j \in Unresolved : j < i}) < Parallelism
  /\ \E answer \in {Answer(i, target) : target \in Releases} \cup {Failure} :
       resolved' = [j \in DOMAIN resolved \cup {i} |->
                      IF j = i THEN answer ELSE resolved[j]]
  /\ UNCHANGED <<phase, prepared, drive, remaining, taken, items>>

\* Mutant of Resolved: an answer is awaited for every ISO.
ResolvedEvery ==
  /\ phase = "resolve" /\ DOMAIN resolved = Indexes
  /\ phase' = "plan"
  /\ UNCHANGED <<prepared, resolved, drive, remaining, taken, items>>

\* The pool is empty: its with block ends.
Resolved ==
  /\ phase = "resolve" /\ Unresolved = {}
  /\ phase' = "plan"
  /\ UNCHANGED <<prepared, resolved, drive, remaining, taken, items>>

Found(i) == IF i \in DOMAIN resolved THEN resolved[i] ELSE Missing
Required(target) == IF target = NoArtifact THEN NoSize ELSE target.size

\* Mutant of OwnErrors: the provider's failure is not reported.
OwnErrorsSilent(i) ==
  prepared[i].finding.errors \cup
  (IF Found(i).target # NoArtifact /\ ~Found(i).target.verified THEN {"unverified"} ELSE {})

\* The reasons to refuse an ISO that do not depend on the other ones.
OwnErrors(i) ==
  prepared[i].finding.errors \cup Found(i).errors \cup
  (IF Found(i).target # NoArtifact /\ ~Found(i).target.verified THEN {"unverified"} ELSE {})

Warnings(i) ==
  LET target == Found(i).target IN
  (IF prepared[i].custom THEN {"custom"} ELSE {}) \cup
  (IF target # NoArtifact /\ ~target.newer THEN {"current"} ELSE {}) \cup
  (IF target # NoArtifact /\ Path(i, target) \in drive.existing THEN {"exists"} ELSE {})

\* Mutant of Duplicate: what earlier items write is not looked at.
DuplicateUnchecked(i, target) == FALSE

\* An earlier item of the plan writes the same path.
Duplicate(i, target) ==
  /\ target # NoArtifact
  /\ Path(i, target) \notin drive.existing
  /\ Path(i, target) \in taken

\* Mutant of Fits: the whole free space is there for every item.
FitsAlone(target) == Required(target) \in Nat => Required(target) <= drive.free

\* Mutant of Fits: an image that fills the drive exactly is refused.
FitsStrictly(target) == Required(target) \in Nat => Required(target) < remaining

Fits(target) == Required(target) \in Nat => Required(target) <= remaining

\* One turn of the loop over the prepared ISOs.
PlanItem ==
  LET i == Len(items) + 1
      target == Found(i).target
      errors == OwnErrors(i) \cup
                (IF Duplicate(i, target) THEN {"duplicate"} ELSE {}) \cup
                (IF drive.writable THEN {} ELSE {"readonly"})
      wanted == /\ target # NoArtifact /\ errors = {}
                /\ Warnings(i) \subseteq {"custom"}
      add == wanted /\ Fits(target)
  IN
  /\ phase = "plan" /\ Len(items) < Isos
  /\ items' = Append(items,
       [target |-> target, warnings |-> Warnings(i),
        action |-> IF add THEN "ADD" ELSE "SKIP",
        errors |-> errors \cup (IF wanted /\ ~add THEN {"space"} ELSE {})])
  /\ taken' = IF add THEN taken \cup {Path(i, target)} ELSE taken
  /\ remaining' = IF add /\ Required(target) \in Nat
                    THEN remaining - Required(target) ELSE remaining
  /\ UNCHANGED <<phase, prepared, resolved, drive>>

Finish ==
  /\ phase = "plan" /\ Len(items) = Isos
  /\ phase' = "done"
  /\ UNCHANGED <<prepared, resolved, drive, remaining, taken, items>>

\* The plan is returned, or the exception is raised.
Done == phase \in {"done", "failed"} /\ UNCHANGED vars

Step == Prepare \/ Fails \/ Submit \/ (\E i \in Indexes : Resolve(i)) \/ Resolved \/ PlanItem \/ Finish
Next == Step \/ Done

Spec == Init /\ [][Next]_vars

\* The threads of the pool and the one that waits for them run.
FairSpec == Spec /\ WF_vars(Step)
-----------------------------------------------------------------------------
(* Correctness *)

TypeOK ==
  /\ phase \in {"prepare", "resolve", "plan", "done", "failed"}
  /\ prepared \in Seq(Preparation) /\ Len(prepared) <= Isos
  /\ DOMAIN resolved \subseteq Indexes
  /\ \A i \in DOMAIN resolved : resolved[i] \in Answers
  /\ remaining \in Nat /\ taken \subseteq Paths
  /\ items \in Seq(Items) /\ Len(items) <= Isos

\* The space an item is known to need, and that of the first n items.
Space(i) ==
  IF i \in Added /\ Required(items[i].target) \in Nat THEN Required(items[i].target) ELSE 0
Need[n \in 0..Len(items)] == IF n = 0 THEN 0 ELSE Need[n - 1] + Space(n)

\* No two items of a plan write the same path, and none writes one that the
\* drive already has (README.md: "does not overwrite an ISO").
OneFilePerTarget ==
  \A i \in Added :
    /\ Path(i, items[i].target) \notin drive.existing
    /\ \A j \in Added : i # j => Path(i, items[i].target) # Path(j, items[j].target)

\* The whole plan, not only each item of it, fits on the drive as far as the
\* providers tell the sizes.
WithinFreeSpace == Need[Len(items)] <= drive.free

\* Whatever order the lookups finish in, an ISO is only ever updated to a
\* newer, verified release of its own variant (README.md: "updates may not
\* silently change any of these dimensions").
OwnVariantOnly ==
  \A i \in Added :
    /\ items[i].target.variant = prepared[i].variant
    /\ items[i].target.verified /\ items[i].target.newer

\* A refusal because of the other items is justified by earlier items that
\* are really added: a skipped item reserves neither space nor its path.
RefusalsAreJust ==
  \A i \in DOMAIN items :
    /\ "space" \in items[i].errors => Need[i - 1] + Required(items[i].target) > drive.free
    /\ "duplicate" \in items[i].errors =>
         \E j \in Added : j < i /\ Path(j, items[j].target) = Path(i, items[i].target)

\* An ISO that is not updated comes with a reason the user can read.
SkipsAreExplained ==
  \A i \in DOMAIN items :
    items[i].action = "SKIP" => items[i].errors \cup (items[i].warnings \ {"custom"}) # {}

\* Every scan ends, however few threads the pool has and whatever lookups
\* fail: with an item for every ISO, or with an exception.
PlanCompletes == <>(phase = "failed" \/ (phase = "done" /\ Len(items) = Isos))
-----------------------------------------------------------------------------
(* Why they hold *)

\* What the next phase reads is complete before it begins.
PhasesInOrder ==
  /\ phase \in {"resolve", "plan", "done"} => Len(prepared) = Isos
  /\ DOMAIN resolved # {} => phase # "prepare"
  /\ phase \in {"plan", "done"} => Unresolved = {}
  /\ items # <<>> => phase \in {"plan", "done"}

\* An answer belongs to the ISO it is stored for, or says why there is none.
AnswersBound ==
  \A i \in DOMAIN resolved :
    /\ i \in DOMAIN prepared
    /\ IF resolved[i].target = NoArtifact THEN resolved[i].errors # {}
       ELSE resolved[i].target.variant = prepared[i].variant

\* An item has the answer of its ISO.  It is added when it was wanted.
ItemsExplained ==
  \A i \in DOMAIN items :
    LET target == items[i].target IN
    /\ target = Found(i).target
    /\ i \in Added =>
         target # NoArtifact /\ target.verified /\ target.newer
         /\ Path(i, target) \notin drive.existing

\* What the loop over the items carries on is what the items so far say.
LoopCounts ==
  /\ taken = {Path(i, items[i].target) : i \in Added}
  /\ Need[Len(items)] + remaining = drive.free

\* The inductive invariant.
PlannerInv ==
  /\ TypeOK /\ PhasesInOrder /\ AnswersBound /\ ItemsExplained /\ LoopCounts
  /\ OneFilePerTarget /\ RefusalsAreJust /\ SkipsAreExplained
=============================================================================
