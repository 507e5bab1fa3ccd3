------------------------------ MODULE Registry ------------------------------
(***************************************************************************)
(* registry_client.load_registry and the provider_map built from it.       *)
(*                                                                         *)
(* The publisher signs releases of a registry: an index of provider ids    *)
(* and one manifest per id, under TUF metadata.  Once a day a refresh      *)
(* stores the newest metadata, then the index and the manifests, then the  *)
(* time.  Every load, after a refresh or without one, checks the cached    *)
(* files again against the cached metadata, and falls back to the bundled  *)
(* providers when anything is wrong.                                       *)
(*                                                                         *)
(* python-tuf is external: timestamp, snapshot and targets metadata are    *)
(* the number of the release they belong to, a hash is the content it is   *)
(* of, and a signature never fails.                                        *)
(***************************************************************************)
EXTENDS Naturals, Sequences, SequencesExt, FiniteSetsExt

CONSTANTS
  Apps,       \* instances of the program, with one cache directory
  Releases,   \* what the publisher signs, one after the other
  AllIds,     \* provider ids
  Builtin,    \* the ids of the bundled providers
  Local,      \* the ids of the manifest files named in the settings
  Refused,    \* provider_map raised
  Faults,     \* the disturbances this instance allows, see FaultNames
  MaxFaults   \* how many disturbances a behaviour may have

FaultNames ==
  {"network", \* a request or a write of the refresh fails
   "replay",  \* the server, or a cache before it, offers an older release
   "expire",  \* the metadata of a release that is no longer offered expire
   "clock",   \* the clock is set back by a day or more
   "kill",    \* an instance dies
   "local"}   \* a local manifest is moved away, or becomes a symlink

\* A manifest is known by its revision, so is its cached file; revision 0 is
\* a file that is not there.  Broken is one load_and_validate_manifest refuses.
Broken == 9
Revisions == 0..9
Versions == 1..Len(Releases)
Empty == [id \in AllIds |-> 0]

ASSUME ReleaseAssumption ==
  /\ Releases \in Seq([index : Seq(AllIds), revision : [AllIds -> Revisions]])
  /\ Releases # <<>>
  /\ \A v \in Versions : \A i \in DOMAIN Releases[v].index :
       Releases[v].revision[Releases[v].index[i]] # 0
ASSUME FaultAssumption == Faults \subseteq FaultNames /\ MaxFaults \in Nat

VARIABLES
  published,  \* the release on the server
  expired,    \* releases up to this one have expired
  timestamp,  \* the cached timestamp.json; 0: not there
  targets,    \* the cached snapshot.json and targets.json; 0: not there
  index,      \* the cached providers/index.json
  manifests,  \* the cached providers/<id>.json
  checked,    \* state.json: "never", "today" or "before"
  pc,         \* per app, the next statement
  trusted,    \* per app, the release its updater has verified
  todo,       \* per app, the provider ids still to be handled
  loaded,     \* per app, the manifests loaded so far
  providers,  \* per app, what provider_map returned last
  newest,     \* the newest release loaded undisturbed, see NoRollback
  overtaken,  \* an older timestamp than that is cached, see KeepTimestamp
  disturbed,  \* per app, another one has written to the cache since it looked
  faults      \* disturbances so far

metadata == <<timestamp, targets>>
files == <<index, manifests>>
server == <<published, expired>>
locals == <<trusted, todo, loaded, disturbed>>
result == <<providers, newest, overtaken>>
cache == <<metadata, files, checked>>
vars == <<server, cache, pc, locals, result, faults>>

Fault(name) == name \in Faults /\ faults < MaxFaults /\ faults' = faults + 1
Goto(a, label) == pc' = [pc EXCEPT ![a] = label]
Refreshing == {"askTimestamp", "timestamp", "targets", "index", "manifest", "state"}
Loading == {"checkIndex", "readIndex", "check", "read"}
PCs == {"idle", "load"} \cup Refreshing \cup Loading

\* Every instance that loads now may meet another's files, and one that has
\* asked for the timestamp may store an older one over it.
Disturbs(a) ==
  [b \in Apps |-> disturbed[b] \/ (b # a /\ pc[b] \in Loading \cup {"timestamp"})]
Wrote(a) == disturbed' = Disturbs(a)

\* What the statements of a call know is gone with it.
Forget(a) ==
  /\ trusted' = [trusted EXCEPT ![a] = 0] /\ todo' = [todo EXCEPT ![a] = <<>>]
  /\ loaded' = [loaded EXCEPT ![a] = Empty] /\ disturbed' = [disturbed EXCEPT ![a] = FALSE]
-----------------------------------------------------------------------------
(* provider_map *)

\* Registry manifests replace bundled providers of the same id; a local one
\* that meets either stops everything.
ProviderMap(curated) ==
  IF \E id \in Local : id \in Builtin \/ curated[id] # 0 THEN Refused
  ELSE [id \in AllIds |->
         IF id \in Local THEN <<"custom", 0>>
         ELSE IF curated[id] # 0 THEN <<"registry", curated[id]>>
         ELSE IF id \in Builtin THEN <<"builtin", 0>> ELSE <<"none", 0>>]

Results ==
  {Refused} \cup [AllIds -> {"custom", "registry", "builtin", "none"} \X Revisions]

\* load_registry returns; the settings' manifests are added, unless a file is
\* gone, a symlink or invalid.
Return(a, curated) ==
  /\ \/ providers' = [providers EXCEPT ![a] = ProviderMap(curated)] /\ UNCHANGED faults
     \/ providers' = [providers EXCEPT ![a] = Refused] /\ Fault("local")
  /\ newest' = IF curated = Empty \/ disturbed[a] THEN newest ELSE Max({newest, trusted[a]})
  /\ UNCHANGED overtaken
  /\ Forget(a) /\ Goto(a, "idle")

\* "Remote registry rejected": the bundled providers.
Reject(a) == Return(a, Empty)
-----------------------------------------------------------------------------
(* _refresh *)

\* The refresh is over, well or not: what is cached is loaded.
ThenLoad(a) ==
  /\ trusted' = [trusted EXCEPT ![a] = 0] /\ todo' = [todo EXCEPT ![a] = <<>>]
  /\ Goto(a, "load")

\* Mutant of RefreshDue: the age of the last refresh is not looked at.
RefreshDueOnce == timestamp = 0 \/ targets = 0 \/ checked = "never"

RefreshDue == timestamp = 0 \/ targets = 0 \/ checked # "today"

Begin(a, refresh) ==
  /\ pc[a] = "idle"
  /\ IF refresh /\ RefreshDue
       THEN Goto(a, "askTimestamp")
       ELSE Goto(a, "load")
  /\ UNCHANGED <<server, cache, locals, result, faults>>

\* Mutant of Accepted: the updater starts from the root alone.
AcceptedAnew(v) == TRUE

\* A timestamp older than the cached one is refused.
Accepted(v) == v >= timestamp

\* updater.refresh asks for the timestamp; the one it has need not be stored.
AskTimestamp(a) ==
  /\ pc[a] = "askTimestamp"
  /\ \E v \in 1..published :
       /\ IF v = published THEN UNCHANGED faults ELSE Fault("replay")
       /\ IF Accepted(v) /\ (v # timestamp \/ v > expired)
            THEN /\ trusted' = [trusted EXCEPT ![a] = v]
                 /\ Goto(a, IF v = timestamp THEN "targets" ELSE "timestamp")
            ELSE UNCHANGED trusted /\ Goto(a, "load")
  /\ UNCHANGED <<server, cache, todo, loaded, result, disturbed>>

\* It is stored even if it has expired, and then refused.  Nobody looks at the
\* cache again: an instance that another has overtaken since it asked stores
\* an older timestamp over the newer one.
KeepTimestamp(a) ==
  /\ pc[a] = "timestamp"
  /\ timestamp' = trusted[a]
  /\ overtaken' = (trusted[a] < newest /\ (disturbed[a] \/ overtaken))
  /\ disturbed' = [Disturbs(a) EXCEPT ![a] = FALSE]
  /\ IF trusted[a] > expired
       THEN Goto(a, "targets") /\ UNCHANGED <<trusted, todo>>
       ELSE ThenLoad(a)
  /\ UNCHANGED <<server, targets, files, checked, loaded, providers, newest, faults>>

\* The snapshot and targets metadata, requested and stored one by one.
KeepTargets(a) ==
  /\ pc[a] = "targets"
  /\ targets' = trusted[a] /\ Wrote(a)
  /\ Goto(a, "index")
  /\ UNCHANGED <<server, timestamp, files, checked, trusted, todo, loaded, result, faults>>

\* download_target of the index.
FetchIndex(a) ==
  /\ pc[a] = "index"
  /\ index' = Releases[trusted[a]].index /\ Wrote(a)
  /\ todo' = [todo EXCEPT ![a] = index']
  /\ Goto(a, IF index' = <<>> THEN "state" ELSE "manifest")
  /\ UNCHANGED <<server, metadata, manifests, checked, trusted, loaded,
                 result, faults>>

\* Mutant of FetchManifest: the loop ends one manifest early.
FetchManifestOneLess(a) ==
  /\ pc[a] = "manifest"
  /\ LET id == Head(todo[a]) IN
       /\ manifests' = [manifests EXCEPT ![id] = Releases[trusted[a]].revision[id]]
       /\ IF manifests'[id] = Broken THEN ThenLoad(a)
          ELSE /\ Goto(a, IF Len(todo[a]) <= 2 THEN "state" ELSE "manifest")
               /\ todo' = [todo EXCEPT ![a] = Tail(@)] /\ UNCHANGED trusted
  /\ Wrote(a)
  /\ UNCHANGED <<server, metadata, index, checked, loaded, result,
                 faults>>

\* download_target of a manifest, and its validation.
FetchManifest(a) ==
  /\ pc[a] = "manifest"
  /\ LET id == Head(todo[a]) IN
       /\ manifests' = [manifests EXCEPT ![id] = Releases[trusted[a]].revision[id]]
       /\ IF manifests'[id] = Broken THEN ThenLoad(a)
          ELSE /\ Goto(a, IF Len(todo[a]) = 1 THEN "state" ELSE "manifest")
               /\ todo' = [todo EXCEPT ![a] = Tail(@)] /\ UNCHANGED trusted
  /\ Wrote(a)
  /\ UNCHANGED <<server, metadata, index, checked, loaded, result,
                 faults>>

WriteState(a) ==
  /\ pc[a] = "state"
  /\ checked' = "today"
  /\ ThenLoad(a)
  /\ UNCHANGED <<server, metadata, files, loaded, result, disturbed,
                 faults>>

\* "Registry refresh failed": the load is tried with what is there.
RefreshFails(a) ==
  /\ pc[a] \in Refreshing /\ Fault("network")
  /\ ThenLoad(a) /\ disturbed' = [disturbed EXCEPT ![a] = FALSE]
  /\ UNCHANGED <<server, cache, loaded, result>>
-----------------------------------------------------------------------------
(* _load_cached *)

\* The offline updater accepts metadata files of one release only, not expired.
LoadMetadata(a) ==
  /\ pc[a] = "load"
  /\ IF timestamp > expired /\ targets = timestamp
       THEN /\ trusted' = [trusted EXCEPT ![a] = timestamp] /\ Goto(a, "checkIndex")
            /\ UNCHANGED <<todo, loaded, disturbed, result, faults>>
       ELSE Reject(a)
  /\ UNCHANGED <<server, cache>>

\* Mutant of Verified: the cached file is taken as it is.
VerifiedNever(file, expected) == TRUE

\* _verify_cached_target
Verified(file, expected) == file = expected

CheckIndex(a) ==
  /\ pc[a] = "checkIndex"
  /\ IF Verified(index, Releases[trusted[a]].index)
       THEN Goto(a, "readIndex") /\ UNCHANGED <<locals, result, faults>>
       ELSE Reject(a)
  /\ UNCHANGED <<server, cache>>

\* The file is read again: it may be another by now.  An empty index is no
\* registry.
ReadIndex(a) ==
  /\ pc[a] = "readIndex"
  /\ IF index = <<>>
       THEN Reject(a)
       ELSE /\ todo' = [todo EXCEPT ![a] = index]
            /\ Goto(a, "check") /\ UNCHANGED <<trusted, loaded, disturbed, result, faults>>
  /\ UNCHANGED <<server, cache>>

CheckManifest(a) ==
  /\ pc[a] = "check"
  /\ LET id == Head(todo[a])
         signed == Releases[trusted[a]]
     IN IF Contains(signed.index, id) /\ Verified(manifests[id], signed.revision[id])
          THEN Goto(a, "read") /\ UNCHANGED <<locals, result, faults>>
          ELSE Reject(a)
  /\ UNCHANGED <<server, cache>>

ReadManifest(a) ==
  /\ pc[a] = "read"
  /\ LET id == Head(todo[a])
         now == [loaded[a] EXCEPT ![id] = manifests[id]]
     IN IF manifests[id] = Broken THEN Reject(a)
        ELSE IF Len(todo[a]) = 1 THEN Return(a, now)
        ELSE /\ loaded' = [loaded EXCEPT ![a] = now]
             /\ todo' = [todo EXCEPT ![a] = Tail(@)]
             /\ Goto(a, "check") /\ UNCHANGED <<trusted, disturbed, result, faults>>
  /\ UNCHANGED <<server, cache>>
-----------------------------------------------------------------------------
(* What happens around it *)

running == <<pc, locals, result>>

Publish ==
  /\ published < Len(Releases) /\ published' = published + 1
  /\ UNCHANGED <<expired, cache, running, faults>>

\* The publisher signs again before the release on the server expires.
Expire ==
  /\ expired + 1 < published /\ Fault("expire") /\ expired' = expired + 1
  /\ UNCHANGED <<published, cache, running>>

Day ==
  /\ checked = "today" /\ checked' = "before"
  /\ UNCHANGED <<server, metadata, files, running, faults>>

\* The time of the last refresh lies ahead: none is due until it is a day ago.
ClockSetBack ==
  /\ checked = "before" /\ Fault("clock") /\ checked' = "today"
  /\ UNCHANGED <<server, metadata, files, running>>

Kill(a) ==
  /\ pc[a] # "idle" /\ Fault("kill")
  /\ Forget(a) /\ Goto(a, "idle")
  /\ UNCHANGED <<server, cache, result>>

Refresh(a) ==
  \/ AskTimestamp(a) \/ KeepTimestamp(a) \/ KeepTargets(a)
  \/ FetchIndex(a) \/ FetchManifest(a) \/ WriteState(a)

Load(a) ==
  LoadMetadata(a) \/ CheckIndex(a) \/ ReadIndex(a) \/ CheckManifest(a) \/ ReadManifest(a)

Init ==
  /\ published = 1 /\ expired = 0
  /\ timestamp = 0 /\ targets = 0
  /\ index = <<>> /\ manifests = Empty /\ checked = "never"
  /\ pc = [a \in Apps |-> "idle"] /\ trusted = [a \in Apps |-> 0]
  /\ todo = [a \in Apps |-> <<>>] /\ loaded = [a \in Apps |-> Empty]
  /\ providers = [a \in Apps |-> ProviderMap(Empty)]
  /\ disturbed = [a \in Apps |-> FALSE] /\ newest = 0 /\ overtaken = FALSE
  /\ faults = 0

Next ==
  \/ \E a \in Apps : \E refresh \in BOOLEAN : Begin(a, refresh)
  \/ \E a \in Apps : Refresh(a) \/ RefreshFails(a) \/ Load(a) \/ Kill(a)
  \/ Publish \/ Expire \/ Day \/ ClockSetBack

\* What is begun goes on, days pass, and the user plans with a refresh now
\* and then.
Fairness ==
  /\ WF_vars(Day)
  /\ \A a \in Apps :
       /\ WF_vars(Refresh(a) \/ Load(a))
       /\ SF_vars(checked # "today" /\ Begin(a, TRUE))

Spec == Init /\ [][Next]_vars /\ Fairness
-----------------------------------------------------------------------------
(* Correctness *)

\* The state has its type; only a call in progress holds ids or manifests.
TypeOK ==
  /\ published \in Versions /\ expired \in 0..published - 1
  /\ timestamp \in 0..published /\ targets \in 0..published
  /\ index \in {<<>>} \cup {Releases[v].index : v \in Versions}
  /\ manifests \in [AllIds -> Revisions] /\ checked \in {"never", "today", "before"}
  /\ pc \in [Apps -> PCs] /\ trusted \in [Apps -> 0..published]
  /\ newest \in 0..published /\ overtaken \in BOOLEAN
  /\ loaded \in [Apps -> [AllIds -> Revisions \ {Broken}]]
  /\ todo \in [Apps -> Seq(AllIds)] /\ providers \in [Apps -> Results]
  /\ \A a \in Apps : (todo[a] # <<>>) <=> pc[a] \in {"manifest", "check", "read"}
  /\ disturbed \in [Apps -> BOOLEAN] /\ faults \in 0..MaxFaults

\* The manifests a release puts in force: all of them, or none if it is
\* empty or one of them is refused.
InForce(v) ==
  LET signed == Releases[v] IN
  IF v = 0 \/ \E i \in DOMAIN signed.index : signed.revision[signed.index[i]] = Broken
    THEN Empty
    ELSE [id \in AllIds |-> IF Contains(signed.index, id) THEN signed.revision[id] ELSE 0]

\* A load ends that no other instance has disturbed.
Loads(a) ==
  pc[a] \in Loading /\ ~disturbed[a] /\ pc'[a] = "idle" /\ faults' = faults

\* Whatever crashes, failures and other instances left in the cache, a load
\* that nobody disturbs uses the manifests of exactly the release its metadata
\* are of, or none of the registry's (registry_client.py:36: "only
\* TUF-verified remote manifests, otherwise built-in providers").
OneRelease ==
  [][\A a \in Apps :
       (Loads(a) /\ providers'[a] # Refused)
         => providers'[a] \in {ProviderMap(InForce(trusted[a])),
                               ProviderMap(Empty)}]_vars

\* Whatever the server offers, no undisturbed load uses an older release than
\* an earlier one did.  There is one exception, and it is the code's: between
\* the moment an instance that was overtaken stores the older timestamp it had
\* asked for and the moment a newer one is stored, loads do go back.
NoRollback ==
  [][\A a \in Apps :
       (Loads(a) /\ providers'[a] \notin {Refused, ProviderMap(Empty)})
         => trusted[a] >= newest \/ overtaken]_vars

\* When the publisher and the disturbances rest, every instance ends with the
\* release on the server: nothing a crash, a race or a bad release left in the
\* cache stays for ever.
EventuallyFresh ==
  <>[](\A a \in Apps : providers[a] = ProviderMap(InForce(published)))
-----------------------------------------------------------------------------
(* Why there is no rollback and no mixture of releases *)

\* Whoever has verified metadata knows a release.
TrustedIsKnown ==
  \A a \in Apps :
    pc[a] \in {"timestamp", "targets", "index", "manifest", "state"} \cup Loading => trusted[a] # 0

\* The cached timestamp is not older than what was loaded, unless an overtaken
\* instance stored it, and nobody who is not disturbed knows an older one.
TimestampIsNewest ==
  /\ newest <= timestamp \/ overtaken
  /\ \A a \in Apps : ~disturbed[a] =>
       /\ pc[a] = "timestamp" => trusted[a] >= timestamp
       /\ pc[a] \in Loading => trusted[a] = timestamp

\* The manifests of the first n ids of a release.
FirstManifests(v, n) ==
  [id \in AllIds |-> IF \E i \in 1..n : Releases[v].index[i] = id THEN Releases[v].revision[id] ELSE 0]

\* So far a load has taken the first manifests of its release, valid ones.
Progress(a, n) ==
  LET signed == Releases[trusted[a]] IN
  /\ todo[a] = SubSeq(signed.index, n + 1, Len(signed.index))
  /\ loaded[a] = FirstManifests(trusted[a], n)
  /\ \A i \in 1..n : signed.revision[signed.index[i]] # Broken

\* What was checked is still there when it is read.
CheckedIsRead ==
  \A a \in Apps :
    LET signed == Releases[trusted[a]] IN
    /\ pc[a] \notin {"check", "read"} => loaded[a] = Empty
    /\ ~disturbed[a] =>
         /\ pc[a] = "readIndex" => index = signed.index
         /\ pc[a] \in {"check", "read"} =>
              \E n \in 0..Len(signed.index) - 1 : Progress(a, n)
         /\ pc[a] = "read" => manifests[Head(todo[a])] = signed.revision[Head(todo[a])]

\* The inductive invariant.
RegistryInv == TypeOK /\ TrustedIsKnown /\ TimestampIsNewest /\ CheckedIsRead
=============================================================================
