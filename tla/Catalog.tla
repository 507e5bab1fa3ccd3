------------------------------ MODULE Catalog ------------------------------
(***************************************************************************)
(* assignments.AssignmentCatalog: what the user says an unrecognised ISO   *)
(* is, kept on the drive in one JSON document and bound to the ISO's hash. *)
(* An assignment reads the document, hashes the ISO, writes a temporary    *)
(* file and replaces the document with it.  Apps are instances of the      *)
(* program; each saves one assignment at a time (module App).              *)
(*                                                                         *)
(* The hash of an ISO is its content.  Symlinks and the drive's            *)
(* revalidation are left out.                                              *)
(***************************************************************************)
EXTENDS Naturals, FiniteSets

CONSTANTS
  Apps,           \* instances of the program on one drive
  Isos,           \* relative paths of ISOs
  Contents,       \* what may be in them
  Identities,     \* what the user may say of them
  Nothing,        \* no record, no identity, no file
  Faults,         \* the disturbances this instance allows, see FaultNames
  MaxFaults,      \* how many disturbances a behaviour may have
  MaxAssignments  \* how many assignments the user makes

FaultNames ==
  {"kill",    \* an instance dies
   "power",   \* the machine loses power
   "io",      \* a write, an fsync or the replacement fails
   "change",  \* an ISO is replaced or modified
   "changeWhileAssigning"} \* ... even while an assignment to it is made

ASSUME FaultAssumption == Faults \subseteq FaultNames /\ MaxFaults \in Nat
ASSUME CountAssumption == MaxAssignments \in Nat

Records == [Isos -> [hash : Contents, identity : Identities] \cup {Nothing}]
Empty == [iso \in Isos |-> Nothing]

\* A document, whether its data survive power loss; and what is left of one
\* whose data did not.
Documents == [records : Records, synced : BOOLEAN]
Torn == [records |-> Nothing, synced |-> TRUE]

ASSUME NothingAssumption == Nothing \notin Records /\ Nothing \notin Documents
ASSUME SomeAssumption == Isos # {} /\ Contents # {} /\ Identities # {}

VARIABLES
  content,   \* what is in each ISO now
  catalog,   \* catalog.json
  earlier,   \* documents power loss may bring back: replaced, no fsync since
  pc,        \* per app, the next statement of assign
  job,       \* per app, which ISO is assigned which identity
  records,   \* per app, the records it has read
  hash,      \* per app, the hash it has computed
  temporary, \* per app, the file it will replace the document with
  meant,     \* what the user has said: <<ISO, content, identity>>
  assigned,  \* assignments so far
  faults     \* disturbances so far

files == <<content, catalog, earlier>>
locals == <<job, records, hash, temporary>>
history == <<meant, assigned>>
vars == <<files, pc, locals, history, faults>>

Fault(name) == name \in Faults /\ faults < MaxFaults /\ faults' = faults + 1
Goto(a, label) == pc' = [pc EXCEPT ![a] = label]
Writing == {"sync", "replace"}
PCs == {"idle", "read", "hash", "write"} \cup Writing

Init ==
  /\ content \in [Isos -> Contents]
  /\ catalog = [records |-> Empty, synced |-> TRUE]
  /\ earlier = {}
  /\ pc = [a \in Apps |-> "idle"]
  /\ job \in [Apps -> {CHOOSE j \in Isos \X Identities : TRUE}]
  /\ records = [a \in Apps |-> Empty]
  /\ hash \in [Apps -> {CHOOSE c \in Contents : TRUE}]
  /\ temporary = [a \in Apps |-> Nothing]
  /\ meant = {} /\ assigned = 0 /\ faults = 0
-----------------------------------------------------------------------------
(* lookup and assign *)

\* Mutant of Lookup: the record counts whatever the file holds by now.
LookupByPath(iso) ==
  IF catalog.records[iso] = Nothing THEN Nothing ELSE catalog.records[iso].identity

Lookup(iso) ==
  LET record == catalog.records[iso] IN
  IF record = Nothing THEN Nothing
  ELSE IF record.hash # content[iso] THEN Nothing ELSE record.identity

\* The user leaves the dialog, having looked at the ISO as it is.
Choose(a) ==
  /\ pc[a] = "idle" /\ assigned < MaxAssignments
  /\ \E iso \in Isos, identity \in Identities :
       /\ job' = [job EXCEPT ![a] = <<iso, identity>>]
       /\ meant' = meant \cup {<<iso, content[iso], identity>>}
  /\ assigned' = assigned + 1
  /\ Goto(a, "read")
  /\ UNCHANGED <<files, records, hash, temporary, faults>>

\* _records: a document that is no valid JSON is an error.
Read(a) ==
  /\ pc[a] = "read"
  /\ IF catalog = Torn
       THEN Goto(a, "idle") /\ UNCHANGED records
       ELSE Goto(a, "hash") /\ records' = [records EXCEPT ![a] = catalog.records]
  /\ UNCHANGED <<files, job, hash, temporary, history, faults>>

Hash(a) ==
  /\ pc[a] = "hash"
  /\ hash' = [hash EXCEPT ![a] = content[job[a][1]]]
  /\ Goto(a, "write")
  /\ UNCHANGED <<files, job, records, temporary, history, faults>>

\* Mutant of WriteTemporary: only the new record is written.
WriteTemporaryAlone(a) ==
  /\ pc[a] = "write"
  /\ temporary' = [temporary EXCEPT ![a] =
       [records |-> [Empty EXCEPT ![job[a][1]] = [hash |-> hash[a], identity |-> job[a][2]]],
        synced |-> FALSE]]
  /\ Goto(a, "sync")
  /\ UNCHANGED <<files, job, records, hash, history, faults>>

WriteTemporary(a) ==
  /\ pc[a] = "write"
  /\ temporary' = [temporary EXCEPT ![a] =
       [records |-> [records[a] EXCEPT ![job[a][1]] =
                       [hash |-> hash[a], identity |-> job[a][2]]],
        synced |-> FALSE]]
  /\ Goto(a, "sync")
  /\ UNCHANGED <<files, job, records, hash, history, faults>>

\* Mutant of Sync: flush without fsync.
SyncForgotten(a) ==
  /\ pc[a] = "sync"
  /\ Goto(a, "replace")
  /\ UNCHANGED <<files, locals, history, faults>>

Sync(a) ==
  /\ pc[a] = "sync"
  /\ temporary' = [temporary EXCEPT ![a].synced = TRUE]
  /\ Goto(a, "replace")
  /\ UNCHANGED <<files, job, records, hash, history, faults>>

\* os.replace.  The directory is not synced.
Replace(a) ==
  /\ pc[a] = "replace"
  /\ catalog' = temporary[a]
  /\ earlier' = earlier \cup {catalog}
  /\ temporary' = [temporary EXCEPT ![a] = Nothing]
  /\ Goto(a, "idle")
  /\ UNCHANGED <<content, job, records, hash, history, faults>>

\* Mutant of Fails: the temporary file stays.
FailsUncleaned(a) ==
  /\ pc[a] \in {"hash", "write"} \cup Writing
  /\ Fault("io")
  /\ Goto(a, "idle")
  /\ UNCHANGED <<files, locals, history>>

\* An error on the way: the temporary file is removed.
Fails(a) ==
  /\ pc[a] \in {"hash", "write"} \cup Writing
  /\ Fault("io")
  /\ temporary' = [temporary EXCEPT ![a] = Nothing]
  /\ Goto(a, "idle")
  /\ UNCHANGED <<files, job, records, hash, history>>
-----------------------------------------------------------------------------
(* What happens around it *)

\* A temporary file that stays behind has a name nobody uses again.
Kill(a) ==
  /\ pc[a] # "idle"
  /\ Fault("kill")
  /\ temporary' = [temporary EXCEPT ![a] = Nothing]
  /\ Goto(a, "idle")
  /\ UNCHANGED <<files, job, records, hash, history>>

AfterPowerLoss(document) == IF document.synced THEN document ELSE Torn

PowerLoss ==
  /\ Fault("power")
  /\ \E document \in {catalog} \cup earlier : catalog' = AfterPowerLoss(document)
  /\ earlier' = {}
  /\ pc' = [a \in Apps |-> "idle"]
  /\ temporary' = [a \in Apps |-> Nothing]
  /\ UNCHANGED <<content, job, records, hash, history>>

\* The operating system writes the directory back.
Writeback ==
  /\ earlier # {} /\ earlier' = {}
  /\ UNCHANGED <<content, catalog, pc, locals, history, faults>>

\* An ISO is replaced or modified.
Change(iso) ==
  /\ Fault("change")
  /\ (\E a \in Apps : pc[a] \in {"read", "hash"} /\ job[a][1] = iso)
       => "changeWhileAssigning" \in Faults
  /\ \E c \in Contents \ {content[iso]} : content' = [content EXCEPT ![iso] = c]
  /\ UNCHANGED <<catalog, earlier, pc, locals, history>>

Step(a) ==
  \/ Choose(a) \/ Read(a) \/ Hash(a) \/ WriteTemporary(a) \/ Sync(a)
  \/ Replace(a) \/ Fails(a) \/ Kill(a)

Next ==
  \/ \E a \in Apps : Step(a)
  \/ PowerLoss \/ Writeback
  \/ \E iso \in Isos : Change(iso)

Spec == Init /\ [][Next]_vars
-----------------------------------------------------------------------------
(* Correctness *)

\* A temporary file exists only between its creation and the replacement.
TypeOK ==
  /\ content \in [Isos -> Contents]
  /\ catalog \in Documents \cup {Torn} /\ earlier \subseteq Documents \cup {Torn}
  /\ pc \in [Apps -> PCs] /\ job \in [Apps -> Isos \X Identities]
  /\ records \in [Apps -> Records] /\ hash \in [Apps -> Contents]
  /\ temporary \in [Apps -> Documents \cup {Nothing}]
  /\ \A a \in Apps : temporary[a] # Nothing <=> pc[a] \in Writing
  /\ meant \subseteq Isos \X Contents \X Identities
  /\ assigned \in 0..MaxAssignments /\ faults \in 0..MaxFaults

\* The catalog can always be read: crashes and power loss leave the old
\* document or the new one.
NeverTorn == catalog # Torn

\* An identity found for an ISO is one the user gave to exactly this content
\* (README.md: "replacing or modifying the file invalidates stale mappings").
OnlyWhatWasMeant ==
  NeverTorn =>
    \A iso \in Isos : Lookup(iso) # Nothing => <<iso, content[iso], Lookup(iso)>> \in meant

\* A record goes only for a newer one of its ISO, unless two instances saved
\* at the same time, or the power went before the directory was written.
KeptUnlessOverlapped ==
  [][\A iso \in Isos :
       \/ catalog'.records = Nothing
       \/ catalog'.records[iso] = catalog.records[iso]
       \/ catalog' \in earlier
       \/ \E a \in Apps :
            /\ pc[a] = "replace" /\ pc'[a] = "idle"
            /\ job[a][1] = iso \/ records[a] # catalog.records]_vars
-----------------------------------------------------------------------------
(* Why they hold *)

\* The document there is, and each one power loss may bring back, is on the
\* medium; a file takes its place only after its fsync.
DocumentsSynced ==
  /\ catalog \in Documents /\ catalog.synced
  /\ \A document \in earlier : document \in Documents /\ document.synced
  /\ \A a \in Apps : pc[a] = "replace" => temporary[a].synced

\* A temporary file holds what its instance has read, and one record more.
OneRecordMore ==
  \A a \in Apps : pc[a] \in Writing =>
    temporary[a].records =
      [records[a] EXCEPT ![job[a][1]] = [hash |-> hash[a], identity |-> job[a][2]]]

\* The user has said all that is in these records.
Said(known) ==
  \A iso \in Isos : known[iso] # Nothing => <<iso, known[iso].hash, known[iso].identity>> \in meant

AllSaid ==
  /\ Said(catalog.records)
  /\ \A document \in earlier : Said(document.records)
  /\ \A a \in Apps : Said(records[a])

\* The user has seen what is hashed.
HashIsMeant ==
  \A a \in Apps :
    /\ pc[a] \in {"read", "hash"} => <<job[a][1], content[job[a][1]], job[a][2]>> \in meant
    /\ pc[a] \in {"write"} \cup Writing => <<job[a][1], hash[a], job[a][2]>> \in meant

\* The inductive invariant; AllSaid and HashIsMeant need the user to leave an
\* ISO alone while it is assigned.
CatalogInv == TypeOK /\ DocumentsSynced /\ OneRecordMore /\ AllSaid /\ HashIsMeant
=============================================================================
