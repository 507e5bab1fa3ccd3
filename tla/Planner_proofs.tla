--------------------------- MODULE Planner_proofs ---------------------------
(***************************************************************************)
(* Proofs about module Planner, for any ISOs, drives, providers' answers   *)
(* and number of lookup threads.                                           *)
(***************************************************************************)
EXTENDS Planner, TLAPS

LEMMA ArtifactTypes ==
  /\ NoArtifact \notin Artifact
  /\ \A target \in Artifact : target.size \in Sizes \cup {NoSize} /\ target.name \in Names
  /\ \A target \in Artifact \cup {NoArtifact} : Required(target) \in Nat =>
       target \in Artifact /\ target.size \in Nat /\ Required(target) = target.size
PROOF
<1>1. \A target \in Artifact : "size" \in DOMAIN target
  BY DEF Artifact
<1>2. "size" \notin DOMAIN NoArtifact
  BY DEF NoArtifact
<1>3. NoArtifact \notin Artifact
  BY <1>1, <1>2
<1>4. \A target \in Artifact : target.size \in Sizes \cup {NoSize} /\ target.name \in Names
  BY DEF Artifact
<1> QED
  BY <1>3, <1>4, SizeAssumption DEF Required

LEMMA AnswerTypes ==
  /\ Missing \in Answers /\ Failure \in Answers
  /\ Missing.target = NoArtifact /\ Failure.target = NoArtifact /\ Failure.errors # {}
  /\ \A i : \A target \in Artifact :
       /\ Answer(i, target) \in Answers
       /\ IF Answer(i, target).target = NoArtifact THEN Answer(i, target).errors # {}
          ELSE Answer(i, target).target.variant = prepared[i].variant
BY ArtifactTypes DEF Missing, Failure, Answers, Answer

LEMMA InitTypes == Init => TypeOK
PROOF
<1> SUFFICES ASSUME Init PROVE TypeOK
  OBVIOUS
<1>1. prepared = <<>> /\ items = <<>> /\ DOMAIN resolved = {}
  BY DEF Init
<1> QED
  BY <1>1, SizeAssumption, PoolAssumption DEF Init, TypeOK
-----------------------------------------------------------------------------
(* The sum of a plan's sizes, without induction: Sums are the functions that *)
(* satisfy Need's equation.                                                  *)

Sums(need) ==
  need = [n \in 0..Len(items) |-> IF n = 0 THEN 0 ELSE need[n - 1] + Space(n)]

\* Refusals for want of space are just.
SpaceIsJust(need) ==
  \A i \in DOMAIN items :
    "space" \in items[i].errors => need[i - 1] + Required(items[i].target) > drive.free

SumInv ==
  /\ \E need : Sums(need)
  /\ \A need : Sums(need) =>
       /\ need \in [0..Len(items) -> Nat]
       /\ need[Len(items)] + remaining = drive.free
       /\ SpaceIsJust(need)

LEMMA NeedIsSum ==
  ASSUME SumInv
  PROVE  Sums(Need)
PROOF
<1>1. PICK need : Sums(need)
  BY DEF SumInv
<1> QED
  BY <1>1 DEF Sums, Need
-----------------------------------------------------------------------------
(* The steps *)

LEMMA Appended ==
  ASSUME items \in Seq(Items), NEW new \in Items, items' = Append(items, new)
  PROVE  /\ items' \in Seq(Items) /\ Len(items) \in Nat /\ Len(items') = Len(items) + 1
         /\ DOMAIN items = 1..Len(items) /\ DOMAIN items' = 1..Len(items) + 1
         /\ \A j \in 1..Len(items) : items'[j] = items[j]
         /\ items'[Len(items) + 1] = new
         /\ \A j \in 1..Len(items) : j \in Added' <=> j \in Added
         /\ (Len(items) + 1) \in Added' <=> new.action = "ADD"
         /\ Added \subseteq 1..Len(items) /\ Added' \subseteq 1..Len(items) + 1
BY DEF Added

LEMMA FindingTypes ==
  ASSUME TypeOK, PhasesInOrder, NEW i \in 1..Isos, phase \in {"plan", "done"}
  PROVE  /\ i \in DOMAIN prepared /\ prepared[i] \in Preparation
         /\ prepared[i].finding.errors \subseteq {"provider", "catalog", "unknown"}
         /\ prepared[i].directory \in Directories
         /\ prepared[i].finding.errors = {} => i \in DOMAIN resolved
         /\ Found(i) \in Answers
PROOF
<1>1. i \in DOMAIN prepared /\ prepared[i] \in Preparation
  BY PoolAssumption DEF TypeOK, PhasesInOrder
<1>2. prepared[i].finding \in Findings /\ prepared[i].directory \in Directories
  BY <1>1 DEF Preparation
<1>3. prepared[i].finding.errors \subseteq {"provider", "catalog", "unknown"}
  BY <1>2 DEF Findings
<1>4. prepared[i].finding.errors = {} => prepared[i].finding = [known |-> TRUE, errors |-> {}]
  <2>1. {"provider"} # {} /\ {"unknown"} # {} /\ {"catalog", "unknown"} # {}
    OBVIOUS
  <2>2. \/ prepared[i].finding = [known |-> TRUE, errors |-> {}]
        \/ prepared[i].finding.errors = {"provider"}
        \/ prepared[i].finding.errors = {"unknown"}
        \/ prepared[i].finding.errors = {"catalog", "unknown"}
    <3> DEFINE finding == prepared[i].finding
    <3>1. \/ finding = [known |-> TRUE, errors |-> {}]
          \/ finding = [known |-> TRUE, errors |-> {"provider"}]
          \/ finding = [known |-> FALSE, errors |-> {"unknown"}]
          \/ finding = [known |-> FALSE, errors |-> {"catalog", "unknown"}]
      BY <1>2 DEF Findings
    <3> HIDE DEF finding
    <3>2. \/ finding = [known |-> TRUE, errors |-> {}]
          \/ finding.errors = {"provider"} \/ finding.errors = {"unknown"}
          \/ finding.errors = {"catalog", "unknown"}
      BY <3>1
    <3> QED
      BY <3>2 DEF finding
  <2> QED
    BY <2>1, <2>2
<1>5. prepared[i].finding.errors = {} => i \in DOMAIN resolved
  BY <1>1, <1>4 DEF PhasesInOrder, Unresolved, Submitted
<1>6. Found(i) \in Answers
  BY AnswerTypes DEF Found, TypeOK
<1> QED
  BY <1>1, <1>2, <1>3, <1>5, <1>6

LEMMA ReasonTypes ==
  ASSUME TypeOK, PhasesInOrder, NEW i \in 1..Isos, phase \in {"plan", "done"}
  PROVE  /\ OwnErrors(i) \subseteq Reasons \ {"space", "duplicate"}
         /\ Warnings(i) \subseteq {"custom", "current", "exists"}
         /\ Found(i).target \in Artifact \cup {NoArtifact}
PROOF
<1>1. Found(i).errors \subseteq {"resolution"} /\ Found(i).target \in Artifact \cup {NoArtifact}
  BY FindingTypes DEF Answers
<1>2. OwnErrors(i) \subseteq {"provider", "catalog", "unknown", "resolution", "unverified"}
  BY <1>1, FindingTypes DEF OwnErrors
<1> QED
  BY <1>1, <1>2 DEF Reasons, Warnings

\* What one turn of the loop does to the plan.
Turn(new, i) ==
  /\ new \in Items /\ i = Len(items) + 1 /\ i \in 1..Isos /\ items' = Append(items, new)
  /\ new.target = Found(i).target
  /\ new.warnings = Warnings(i)
  /\ OwnErrors(i) \subseteq new.errors
  /\ "duplicate" \in new.errors => Duplicate(i, new.target)
  /\ "space" \in new.errors => Required(new.target) \in Nat /\ Required(new.target) > remaining
  /\ new.action = "ADD" =>
       /\ new.target # NoArtifact /\ OwnErrors(i) = {} /\ Warnings(i) \subseteq {"custom"}
       /\ ~Duplicate(i, new.target) /\ Fits(new.target)
       /\ taken' = taken \cup {Path(i, new.target)}
       /\ remaining' = IF Required(new.target) \in Nat
                         THEN remaining - Required(new.target) ELSE remaining
  /\ new.action = "SKIP" =>
       /\ taken' = taken /\ remaining' = remaining
       /\ \/ new.errors # {} \/ new.target = NoArtifact \/ ~(Warnings(i) \subseteq {"custom"})
  /\ UNCHANGED <<phase, prepared, resolved, drive>>

LEMMA PlanItemTurns ==
  ASSUME TypeOK, PhasesInOrder, PlanItem
  PROVE  \E new, i : Turn(new, i)
PROOF
<1> DEFINE i == Len(items) + 1
           target == Found(i).target
           errors == OwnErrors(i) \cup (IF Duplicate(i, target) THEN {"duplicate"} ELSE {})
                     \cup (IF drive.writable THEN {} ELSE {"readonly"})
           wanted == /\ target # NoArtifact /\ errors = {}
                     /\ Warnings(i) \subseteq {"custom"}
           add == wanted /\ Fits(target)
           new == [target |-> target, warnings |-> Warnings(i),
                   action |-> IF add THEN "ADD" ELSE "SKIP",
                   errors |-> errors \cup (IF wanted /\ ~add THEN {"space"} ELSE {})]
<1>1. /\ items' = Append(items, new) /\ phase = "plan"
      /\ taken' = IF add THEN taken \cup {Path(i, target)} ELSE taken
      /\ remaining' = IF add /\ Required(target) \in Nat
                        THEN remaining - Required(target) ELSE remaining
      /\ UNCHANGED <<phase, prepared, resolved, drive>>
  BY DEF PlanItem
<1>2. i \in 1..Isos
  BY PoolAssumption DEF PlanItem, TypeOK
<1>3. /\ OwnErrors(i) \subseteq Reasons \ {"space", "duplicate"}
      /\ Warnings(i) \subseteq {"custom", "current", "exists"}
      /\ target \in Artifact \cup {NoArtifact}
  BY <1>1, <1>2, ReasonTypes
<1>4. errors \subseteq Reasons \ {"space"}
  BY <1>3 DEF Reasons
<1>5. new \in Items
  <2>1. errors \cup (IF wanted /\ ~add THEN {"space"} ELSE {}) \subseteq Reasons
    BY <1>4 DEF Reasons
  <2> HIDE DEF errors, wanted, add, target
  <2> QED
    BY <1>3, <2>1 DEF Items
<1>6. "space" \in new.errors => wanted /\ ~Fits(target)
  BY <1>4
<1>7. ~Fits(target) => Required(target) \in Nat /\ Required(target) > remaining
  BY DEF Fits, TypeOK
<1>8. "duplicate" \in new.errors => Duplicate(i, target)
  BY <1>3
<1>9. /\ new.target = target /\ new.warnings = Warnings(i) /\ OwnErrors(i) \subseteq new.errors
      /\ new.action = "ADD" <=> add
      /\ new.action = "SKIP" => ~add
      /\ errors \subseteq new.errors
      /\ wanted /\ ~add => "space" \in new.errors
  OBVIOUS
<1>10. add => /\ target # NoArtifact /\ OwnErrors(i) = {} /\ Warnings(i) \subseteq {"custom"}
              /\ ~Duplicate(i, target) /\ Fits(target)
  OBVIOUS
<1>11. ~add => \/ new.errors # {} \/ target = NoArtifact \/ ~(Warnings(i) \subseteq {"custom"})
  BY <1>9
<1> HIDE DEF new, add, errors, wanted
<1>12. Turn(new, i)
  BY <1>1, <1>2, <1>5, <1>6, <1>7, <1>8, <1>9, <1>10, <1>11 DEF Turn
<1> QED
  BY <1>12

\* The other steps leave the plan alone; those that change what it is made of
\* come before its first item.
LEMMA QuietStep ==
  ASSUME PhasesInOrder,
         Prepare \/ Fails \/ Submit \/ (\E i \in Indexes : Resolve(i)) \/ Resolved \/ Finish
         \/ UNCHANGED vars
  PROVE  /\ UNCHANGED <<items, taken, remaining, drive>>
         /\ items = <<>> \/ UNCHANGED <<prepared, resolved>>
BY DEF PhasesInOrder, Prepare, Fails, Submit, Resolve, Resolved, Finish, vars

LEMMA ResolveTypes ==
  ASSUME TypeOK, PhasesInOrder, AnswersBound, NEW i \in Indexes, Resolve(i)
  PROVE  /\ DOMAIN resolved' = DOMAIN resolved \cup {i} /\ i \in DOMAIN prepared
         /\ \A j \in DOMAIN resolved' : resolved'[j] \in Answers
         /\ AnswersBound'
PROOF
<1>1. PICK answer \in {Answer(i, target) : target \in Releases} \cup {Failure} :
        resolved' = [j \in DOMAIN resolved \cup {i} |-> IF j = i THEN answer ELSE resolved[j]]
  BY DEF Resolve
<1>2. answer \in Answers /\ (IF answer.target = NoArtifact THEN answer.errors # {}
                             ELSE answer.target.variant = prepared[i].variant)
  BY AnswerTypes, InputAssumption
<1>3. DOMAIN resolved' = DOMAIN resolved \cup {i} /\ i \in DOMAIN prepared
  BY <1>1 DEF Resolve, Unresolved, Submitted
<1>4. \A j \in DOMAIN resolved' : resolved'[j] = IF j = i THEN answer ELSE resolved[j]
  BY <1>1
<1>5. UNCHANGED prepared
  BY DEF Resolve
<1>6. \A j \in DOMAIN resolved' : resolved'[j] \in Answers
  BY <1>2, <1>3, <1>4 DEF TypeOK
<1>7. AnswersBound'
  BY <1>2, <1>3, <1>4, <1>5 DEF AnswersBound
<1> QED
  BY <1>3, <1>6, <1>7

BasicInv == TypeOK /\ PhasesInOrder /\ AnswersBound

LEMMA InitBasic == Init => BasicInv
PROOF
<1>1. Init => PhasesInOrder /\ AnswersBound
  BY DEF Init, PhasesInOrder, AnswersBound
<1> QED
  BY <1>1, InitTypes DEF BasicInv

LEMMA BasicStep == BasicInv /\ [Next]_vars => BasicInv'
PROOF
<1> SUFFICES ASSUME TypeOK, PhasesInOrder, AnswersBound, [Next]_vars
             PROVE  TypeOK' /\ PhasesInOrder' /\ AnswersBound'
  BY DEF BasicInv
<1>1. CASE Prepare
  <2>1. PICK detection \in Detections : prepared' = Append(prepared, detection)
    BY <1>1 DEF Prepare
  <2>2. prepared' \in Seq(Preparation) /\ Len(prepared') = Len(prepared) + 1
    BY <2>1, InputAssumption DEF TypeOK
  <2>3. phase = "prepare" /\ DOMAIN resolved = {} /\ items = <<>>
    BY <1>1 DEF Prepare, PhasesInOrder
  <2>4. UNCHANGED <<phase, resolved, drive, remaining, taken, items>> /\ Len(prepared) < Isos
    BY <1>1 DEF Prepare
  <2>5. TypeOK'
    BY <2>2, <2>4, PoolAssumption DEF TypeOK
  <2> QED
    BY <2>3, <2>4, <2>5 DEF PhasesInOrder, AnswersBound
<1>2. CASE Submit
  BY <1>2 DEF Submit, TypeOK, PhasesInOrder, AnswersBound
<1>3. ASSUME NEW i \in Indexes, Resolve(i) PROVE TypeOK' /\ PhasesInOrder' /\ AnswersBound'
  <2>1. /\ DOMAIN resolved' = DOMAIN resolved \cup {i} /\ i \in DOMAIN prepared
        /\ \A j \in DOMAIN resolved' : resolved'[j] \in Answers
        /\ AnswersBound'
    BY <1>3, ResolveTypes
  <2>2. phase = "resolve" /\ UNCHANGED <<phase, prepared, drive, remaining, taken, items>>
    BY <1>3 DEF Resolve
  <2> QED
    BY <2>1, <2>2 DEF TypeOK, PhasesInOrder
<1>4. CASE Resolved
  <2>1. UNCHANGED <<prepared, resolved, drive, remaining, taken, items>>
        /\ phase' = "plan" /\ phase = "resolve" /\ Unresolved = {}
    BY <1>4 DEF Resolved
  <2> QED
    BY <2>1 DEF TypeOK, PhasesInOrder, AnswersBound, Unresolved, Submitted
<1>5. CASE PlanItem
  <2>1. PICK new, i : Turn(new, i)
    BY <1>5, PlanItemTurns
  <2>2. phase = "plan"
    BY <1>5 DEF PlanItem
  <2>3. items' \in Seq(Items) /\ Len(items') <= Isos
    BY <2>1, Appended, PoolAssumption DEF Turn, TypeOK
  <2>4. taken' \subseteq Paths
    <3>1. new.target = NoArtifact \/ new.target.name \in Names
      BY <2>1, <2>2, ReasonTypes, ArtifactTypes DEF Turn
    <3>2. new.action = "ADD" => Path(i, new.target) \in Paths
      BY <2>1, <2>2, <3>1, FindingTypes DEF Turn, Paths, Path
    <3> QED
      BY <2>1, <3>2 DEF Turn, TypeOK, Items
  <2>5. remaining' \in Nat
    BY <2>1 DEF Turn, Fits, TypeOK, Items
  <2>6. UNCHANGED <<phase, prepared, resolved, drive>>
    BY <2>1 DEF Turn
  <2> QED
    BY <2>2, <2>3, <2>4, <2>5, <2>6 DEF TypeOK, PhasesInOrder, AnswersBound, Unresolved, Submitted
<1>6. CASE Finish
  BY <1>6 DEF Finish, TypeOK, PhasesInOrder, AnswersBound, Unresolved, Submitted
<1>7. CASE UNCHANGED vars
  BY <1>7 DEF vars, TypeOK, PhasesInOrder, AnswersBound, Unresolved, Submitted
<1>8. CASE Fails
  BY <1>8 DEF Fails, TypeOK, PhasesInOrder, AnswersBound
<1> QED
  BY <1>1, <1>2, <1>3, <1>4, <1>5, <1>6, <1>7, <1>8 DEF Next, Step, Done

\* Every variable keeps its type: the free space that is left never becomes
\* negative, and the plan is a list of items.
THEOREM PlannerTypeCorrect == Spec => []TypeOK
PROOF
<1>1. BasicInv => TypeOK
  BY DEF BasicInv
<1> QED
  BY <1>1, InitBasic, BasicStep, PTL DEF Spec
-----------------------------------------------------------------------------
(* What the items say *)

TakenInv == taken = {Path(i, items[i].target) : i \in Added}
DuplicatesAreJust ==
  \A i \in DOMAIN items : "duplicate" \in items[i].errors =>
    \E j \in Added : j < i /\ Path(j, items[j].target) = Path(i, items[i].target)
ItemsInv ==
  ItemsExplained /\ SkipsAreExplained /\ TakenInv /\ OneFilePerTarget /\ DuplicatesAreJust

LEMMA InitItems == Init => ItemsInv
PROOF
<1> SUFFICES ASSUME Init PROVE ItemsInv
  OBVIOUS
<1>1. DOMAIN items = {} /\ Added = {} /\ taken = {}
  BY DEF Init, Added
<1> QED
  BY <1>1 DEF ItemsInv, ItemsExplained, SkipsAreExplained, TakenInv, OneFilePerTarget,
              DuplicatesAreJust

LEMMA QuietItems ==
  ASSUME ItemsInv, UNCHANGED <<items, taken, remaining, drive>>,
         items = <<>> \/ UNCHANGED <<prepared, resolved>>
  PROVE  ItemsInv'
PROOF
<1>1. CASE items = <<>>
  <2>1. DOMAIN items' = {} /\ Added' = {} /\ taken' = {}
    BY <1>1 DEF Added, ItemsInv, TakenInv
  <2> QED
    BY <2>1 DEF ItemsInv, ItemsExplained, SkipsAreExplained, TakenInv, OneFilePerTarget,
                DuplicatesAreJust
<1>2. CASE UNCHANGED <<prepared, resolved>>
  BY <1>2 DEF ItemsInv, ItemsExplained, SkipsAreExplained, TakenInv, OneFilePerTarget,
              DuplicatesAreJust, Added, Found, Path
<1> QED
  BY <1>1, <1>2

\* Each part holds of the new item, and goes on to hold of the earlier ones.
LEMMA TurnItems ==
  ASSUME BasicInv, ItemsInv, phase = "plan", NEW new, NEW k, Turn(new, k)
  PROVE  ItemsInv'
PROOF
<1>i. /\ items' \in Seq(Items) /\ Len(items) \in Nat /\ k = Len(items) + 1
      /\ DOMAIN items = 1..Len(items) /\ DOMAIN items' = 1..k
      /\ \A j \in 1..Len(items) : items'[j] = items[j]
      /\ items'[k] = new
      /\ \A j \in 1..Len(items) : j \in Added' <=> j \in Added
      /\ k \in Added' <=> new.action = "ADD"
      /\ Added \subseteq 1..Len(items) /\ Added' \subseteq 1..k
  BY Appended DEF Turn, BasicInv, TypeOK
<1>u. UNCHANGED <<phase, prepared, resolved, drive>>
  BY DEF Turn
<1>s. \A j \in 1..k : j \in 1..Len(items) \/ j = k
  BY <1>i
<1>k. k \in 1..Isos /\ new \in Items /\ new.target = Found(k).target
  BY DEF Turn
<1>a. new.action = "ADD" \/ new.action = "SKIP"
  BY <1>k DEF Items
<1>p. \A j \in 1..Len(items) : Path(j, items[j].target)' = Path(j, items[j].target)
  BY <1>i, <1>u DEF Path
<1>q. Path(k, items[k].target)' = Path(k, new.target)
  BY <1>i, <1>u DEF Path
<1>n. new.action = "ADD" =>
        /\ new.target # NoArtifact /\ OwnErrors(k) = {} /\ Warnings(k) \subseteq {"custom"}
        /\ ~Duplicate(k, new.target) /\ taken' = taken \cup {Path(k, new.target)}
  BY DEF Turn
<1>w. new.action = "ADD" =>
        /\ new.target.verified /\ new.target.newer /\ Path(k, new.target) \notin drive.existing
        /\ Path(k, new.target) \notin taken
  <2> SUFFICES ASSUME new.action = "ADD"
               PROVE  /\ new.target.verified /\ new.target.newer
                      /\ Path(k, new.target) \notin drive.existing /\ Path(k, new.target) \notin taken
    OBVIOUS
  <2>1. new.target.verified
    BY <1>n, <1>k DEF OwnErrors
  <2>2. "current" \notin Warnings(k) /\ "exists" \notin Warnings(k)
    BY <1>n
  <2>3. new.target.newer /\ Path(k, new.target) \notin drive.existing
    BY <2>2, <1>n, <1>k DEF Warnings
  <2> QED
    BY <2>1, <2>3, <1>n DEF Duplicate
<1>1. ItemsExplained'
  <2>1. \A j \in 1..k : Found(j)' = Found(j)
    BY <1>u DEF Found
  <2> QED
    BY <2>1, <1>i, <1>s, <1>k, <1>p, <1>q, <1>n, <1>w, <1>u DEF ItemsExplained, ItemsInv
<1>2. SkipsAreExplained'
  <2>1. new.action = "SKIP" => new.errors \cup (new.warnings \ {"custom"}) # {}
    <3> SUFFICES ASSUME new.action = "SKIP", new.errors = {}
                 PROVE  new.warnings \ {"custom"} # {}
      OBVIOUS
    <3>1. new.target = NoArtifact \/ ~(Warnings(k) \subseteq {"custom"})
      BY DEF Turn
    <3>2. OwnErrors(k) = {}
      BY DEF Turn
    <3>3. new.target # NoArtifact
      <4>1. k \in DOMAIN resolved /\ Found(k).errors = {}
        BY <3>2, <1>k, FindingTypes DEF OwnErrors, BasicInv
      <4> QED
        BY <4>1, <1>k DEF BasicInv, AnswersBound, Found
    <3> QED
      BY <3>1, <3>3 DEF Turn
  <2> QED
    BY <2>1, <1>i, <1>s DEF SkipsAreExplained, ItemsInv
<1>3. TakenInv'
  <2>1. CASE new.action = "ADD"
    <3>1. Added' = Added \cup {k}
      BY <2>1, <1>i, <1>s
    <3> QED
      BY <2>1, <3>1, <1>i, <1>n, <1>p, <1>q DEF TakenInv, ItemsInv
  <2>2. CASE new.action = "SKIP"
    <3>1. Added' = Added /\ taken' = taken
      BY <2>2, <1>i, <1>s DEF Turn
    <3> QED
      BY <2>2, <3>1, <1>i, <1>p DEF TakenInv, ItemsInv
  <2> QED
    BY <2>1, <2>2, <1>a
<1>4. OneFilePerTarget'
  <2>1. new.action = "ADD" => \A j \in Added : Path(j, items[j].target) # Path(k, new.target)
    BY <1>w DEF ItemsInv, TakenInv
  <2> QED
    BY <2>1, <1>i, <1>s, <1>p, <1>q, <1>w, <1>u DEF OneFilePerTarget, ItemsInv
<1>5. DuplicatesAreJust'
  <2>1. "duplicate" \in new.errors => \E j \in Added : Path(j, items[j].target) = Path(k, new.target)
    BY DEF Turn, Duplicate, ItemsInv, TakenInv
  <2>2. \A i \in DOMAIN items : "duplicate" \in items[i].errors =>
          \E j \in Added : j < i /\ Path(j, items[j].target) = Path(i, items[i].target)
    BY DEF ItemsInv, DuplicatesAreJust
  <2> QED
    BY <2>1, <2>2, <1>i, <1>s, <1>p, <1>q DEF DuplicatesAreJust
<1> QED
  BY <1>1, <1>2, <1>3, <1>4, <1>5 DEF ItemsInv

LEMMA ItemsStep == BasicInv /\ ItemsInv /\ [Next]_vars => ItemsInv'
PROOF
<1> SUFFICES ASSUME BasicInv, ItemsInv, [Next]_vars PROVE ItemsInv'
  OBVIOUS
<1>1. CASE PlanItem
  BY <1>1, PlanItemTurns, TurnItems DEF BasicInv, PlanItem
<1>2. CASE ~PlanItem
  BY <1>2, QuietStep, QuietItems DEF BasicInv, Next, Step, Done
<1> QED
  BY <1>1, <1>2

LEMMA ItemsAlways == Spec => [](BasicInv /\ ItemsInv)
BY InitBasic, InitItems, BasicStep, ItemsStep, PTL DEF Spec

\* No plan writes a path twice, or one the drive has.
THEOREM PlansWriteEachPathOnce == Spec => []OneFilePerTarget
PROOF
<1>1. ItemsInv => OneFilePerTarget
  BY DEF ItemsInv
<1> QED
  BY <1>1, ItemsAlways, PTL

\* An ISO's update is of its own variant, verified and newer, in whatever
\* order the threads of the pool answer.
THEOREM UpdatesKeepTheVariant == Spec => []OwnVariantOnly
PROOF
<1>1. BasicInv /\ ItemsInv => OwnVariantOnly
  <2> SUFFICES ASSUME BasicInv, ItemsInv, NEW i \in Added
               PROVE  /\ items[i].target.variant = prepared[i].variant
                      /\ items[i].target.verified /\ items[i].target.newer
    BY DEF OwnVariantOnly
  <2>1. i \in DOMAIN items
    BY DEF Added
  <2>2. /\ items[i].target = Found(i).target /\ items[i].target # NoArtifact
        /\ items[i].target.verified /\ items[i].target.newer
    BY <2>1 DEF ItemsInv, ItemsExplained
  <2>3. i \in DOMAIN resolved /\ resolved[i].target # NoArtifact
    BY <2>2, AnswerTypes DEF Found
  <2>4. resolved[i].target.variant = prepared[i].variant
    BY <2>3 DEF BasicInv, AnswersBound
  <2> QED
    BY <2>2, <2>3, <2>4 DEF Found
<1> QED
  BY <1>1, ItemsAlways, PTL

\* Nothing is left out of the updates silently.
THEOREM SkipsHaveReasons == Spec => []SkipsAreExplained
PROOF
<1>1. ItemsInv => SkipsAreExplained
  BY DEF ItemsInv
<1> QED
  BY <1>1, ItemsAlways, PTL
-----------------------------------------------------------------------------
(* The free space *)

LEMMA InitSum == Init => SumInv
PROOF
<1> SUFFICES ASSUME Init PROVE SumInv
  OBVIOUS
<1>1. items = <<>> /\ Len(items) = 0 /\ DOMAIN items = {} /\ 0..Len(items) = {0}
  BY DEF Init
<1>2. Sums([n \in {0} |-> 0])
  BY <1>1 DEF Sums
<1>3. ASSUME NEW need, Sums(need)
      PROVE  need \in [0..Len(items) -> Nat] /\ need[Len(items)] = 0
  BY <1>1, <1>3 DEF Sums
<1>4. remaining = drive.free /\ drive.free \in Nat
  BY SizeAssumption DEF Init
<1> QED
  BY <1>1, <1>2, <1>3, <1>4 DEF SumInv, SpaceIsJust

LEMMA SpaceTypes ==
  ASSUME NEW i
  PROVE  Space(i) \in Nat
BY DEF Space

\* What the sums over the longer plan are in terms of those over the shorter.
LEMMA TurnSums ==
  ASSUME TypeOK, NEW new, NEW k, Turn(new, k)
  PROVE  \A need : Sums(need)' <=>
           \E shorter : Sums(shorter) /\
             need = [n \in 0..k |-> IF n = k THEN shorter[k - 1] + Space(k)' ELSE shorter[n]]
PROOF
<1>i. /\ Len(items) \in Nat /\ k = Len(items) + 1 /\ Len(items') = k /\ k - 1 = Len(items)
      /\ DOMAIN items = 1..Len(items)
      /\ \A j \in 1..Len(items) : items'[j] = items[j]
      /\ \A j \in 1..Len(items) : j \in Added' <=> j \in Added
  BY Appended DEF Turn, TypeOK
<1>s. \A j \in 1..Len(items) : Space(j)' = Space(j)
  BY <1>i DEF Space
<1>1. ASSUME NEW need, Sums(need)'
      PROVE  \E shorter : Sums(shorter) /\
               need = [n \in 0..k |-> IF n = k THEN shorter[k - 1] + Space(k)' ELSE shorter[n]]
  <2> DEFINE shorter == [n \in 0..Len(items) |-> need[n]]
  <2>1. need = [n \in 0..k |-> IF n = 0 THEN 0 ELSE need[n - 1] + Space(n)']
    BY <1>1, <1>i DEF Sums
  <2>2. \A n \in 0..Len(items) : shorter[n] = IF n = 0 THEN 0 ELSE shorter[n - 1] + Space(n)
    BY <2>1, <1>i, <1>s
  <2>3. Sums(shorter)
    BY <2>2 DEF Sums
  <2>4. \A n \in 0..k : need[n] = IF n = k THEN shorter[k - 1] + Space(k)' ELSE shorter[n]
    BY <2>1, <1>i
  <2>5. need = [n \in 0..k |-> IF n = k THEN shorter[k - 1] + Space(k)' ELSE shorter[n]]
    BY <2>1, <2>4
  <2> QED
    BY <2>3, <2>5
<1>2. ASSUME NEW shorter, Sums(shorter), NEW need,
             need = [n \in 0..k |-> IF n = k THEN shorter[k - 1] + Space(k)' ELSE shorter[n]]
      PROVE  Sums(need)'
  <2>1. shorter = [n \in 0..Len(items) |-> IF n = 0 THEN 0 ELSE shorter[n - 1] + Space(n)]
    BY <1>2 DEF Sums
  <2>2. \A n \in 0..k : need[n] = IF n = 0 THEN 0 ELSE need[n - 1] + Space(n)'
    BY <2>1, <1>2, <1>i, <1>s
  <2>3. need = [n \in 0..k |-> IF n = 0 THEN 0 ELSE need[n - 1] + Space(n)']
    BY <2>2, <1>2
  <2> QED
    BY <2>3, <1>i DEF Sums
<1> QED
  BY <1>1, <1>2

LEMMA TurnSum ==
  ASSUME TypeOK, SumInv, NEW new, NEW k, Turn(new, k)
  PROVE  SumInv'
PROOF
<1>i. /\ Len(items) \in Nat /\ k = Len(items) + 1 /\ Len(items') = k /\ k - 1 = Len(items)
      /\ DOMAIN items = 1..Len(items) /\ DOMAIN items' = 1..k
      /\ \A j \in 1..Len(items) : items'[j] = items[j]
      /\ items'[k] = new
      /\ k \in Added' <=> new.action = "ADD"
  BY Appended DEF Turn, TypeOK
<1>l. k - 1 = Len(items) /\ Len(items) \in 0..k /\ Len(items) # k
  <2>1. ASSUME NEW n \in Nat PROVE n \in 0..n + 1 /\ n # n + 1
    OBVIOUS
  <2> QED
    BY <2>1, <1>i
<1>a. new.action = "ADD" \/ new.action = "SKIP"
  BY DEF Turn, Items
<1>1. Space(k)' = IF new.action = "ADD" /\ Required(new.target) \in Nat
                    THEN Required(new.target) ELSE 0
  BY <1>i DEF Space
<1>2. remaining \in Nat /\ remaining' \in Nat /\ remaining' + Space(k)' = remaining
  BY <1>1, <1>a DEF Turn, TypeOK, Fits
<1>3. Space(k)' \in Nat
  BY <1>1
<1>4. UNCHANGED drive
  BY DEF Turn
<1>5. \E need : Sums(need)'
  BY TurnSums DEF SumInv
<1>6. ASSUME NEW need, Sums(need)'
      PROVE  /\ need \in [0..Len(items') -> Nat]
             /\ need[Len(items')] + remaining' = drive'.free
             /\ SpaceIsJust(need)'
  <2>1. PICK shorter : Sums(shorter) /\
          need = [n \in 0..k |-> IF n = k THEN shorter[k - 1] + Space(k)' ELSE shorter[n]]
    BY <1>6, TurnSums
  <2>2. /\ shorter \in [0..Len(items) -> Nat]
        /\ shorter[Len(items)] + remaining = drive.free
        /\ SpaceIsJust(shorter)
    BY <2>1 DEF SumInv
  <2>3. need \in [0..Len(items') -> Nat]
    BY <2>1, <2>2, <1>3, <1>i
  <2>4. need[Len(items')] + remaining' = drive'.free
    BY <2>1, <2>2, <1>2, <1>3, <1>4, <1>i
  <2>5. ASSUME NEW i \in DOMAIN items', "space" \in items'[i].errors
        PROVE  need[i - 1] + Required(items'[i].target) > drive'.free
    <3>1. CASE i = k
      <4>1. Required(new.target) \in Nat /\ Required(new.target) > remaining
        BY <2>5, <3>1, <1>i DEF Turn
      <4>2. need[i - 1] = shorter[Len(items)] /\ shorter[Len(items)] \in Nat
        <5>1. i - 1 = Len(items) /\ Len(items) \in 0..k /\ Len(items) # k
          BY <3>1, <1>l
        <5>2. need[Len(items)] = shorter[Len(items)]
          BY <2>1, <5>1
        <5>3. shorter[Len(items)] \in Nat
          BY <2>2, <1>i
        <5> QED
          BY <5>1, <5>2, <5>3
      <4> QED
        BY <4>1, <4>2, <2>2, <3>1, <1>2, <1>4, <1>i
    <3>2. CASE i # k
      <4>1. i \in DOMAIN items /\ items'[i] = items[i] /\ i - 1 \in 0..Len(items) /\ i - 1 # k
        BY <3>2, <2>5, <1>i
      <4>2. need[i - 1] = shorter[i - 1]
        BY <4>1, <2>1, <1>i
      <4> QED
        BY <4>1, <4>2, <2>2, <2>5, <1>4 DEF SpaceIsJust
    <3> QED
      BY <3>1, <3>2
  <2>6. SpaceIsJust(need)'
    BY <2>5 DEF SpaceIsJust
  <2> QED
    BY <2>3, <2>4, <2>6
<1> QED
  BY <1>5, <1>6 DEF SumInv

LEMMA SumStep == BasicInv /\ SumInv /\ [Next]_vars => SumInv'
PROOF
<1> SUFFICES ASSUME BasicInv, SumInv, [Next]_vars PROVE SumInv'
  OBVIOUS
<1>1. CASE PlanItem
  BY <1>1, PlanItemTurns, TurnSum DEF BasicInv
<1>2. CASE ~PlanItem
  <2>1. UNCHANGED <<items, remaining, drive>>
    BY <1>2, QuietStep DEF BasicInv, Next, Step, Done
  <2>2. \A need : Sums(need)' <=> Sums(need)
    BY <2>1 DEF Sums, Space, Added
  <2>3. \A need : SpaceIsJust(need)' <=> SpaceIsJust(need)
    BY <2>1 DEF SpaceIsJust
  <2> QED
    BY <2>1, <2>2, <2>3 DEF SumInv
<1> QED
  BY <1>1, <1>2

\* The whole plan fits on the drive, however many items it has.
THEOREM PlansFit == Spec => []WithinFreeSpace
PROOF
<1>1. BasicInv /\ SumInv => WithinFreeSpace
  <2> SUFFICES ASSUME BasicInv, SumInv PROVE WithinFreeSpace
    OBVIOUS
  <2>1. /\ Need \in [0..Len(items) -> Nat] /\ Need[Len(items)] + remaining = drive.free
    BY NeedIsSum DEF SumInv
  <2>2. remaining \in Nat /\ Len(items) \in Nat
    BY DEF BasicInv, TypeOK
  <2>3. Need[Len(items)] \in Nat
    BY <2>1, <2>2
  <2> QED
    BY <2>1, <2>2, <2>3 DEF WithinFreeSpace
<1> QED
  BY <1>1, InitBasic, InitSum, BasicStep, SumStep, PTL DEF Spec

\* An ISO is refused for want of space or as a duplicate only because of
\* items before it that are added.
THEOREM RefusalsAreJustified == Spec => []RefusalsAreJust
PROOF
<1>1. SumInv /\ ItemsInv => RefusalsAreJust
  BY NeedIsSum DEF SumInv, SpaceIsJust, ItemsInv, DuplicatesAreJust, RefusalsAreJust
<1>2. Spec => []SumInv
  BY InitBasic, InitSum, BasicStep, SumStep, PTL DEF Spec
<1> QED
  BY <1>1, <1>2, ItemsAlways, PTL
=============================================================================
