# A TLA+ model of Ventoy Depot

Ventoy Depot keeps the ISO images on a Ventoy USB drive up to date. It finds the ISOs on a
drive, asks their publishers for newer releases, and copies verified images to the drive
from a terminal UI. These modules model the parts of `src/ventoy_depot` in which order,
failure and concurrency matter, check them with TLC and prove the central ones with TLAPS.

## The system

| Part | State it keeps | Operations | Hard behaviours | What makes it correct |
|---|---|---|---|---|
| `transfer.apply_item` | files on the drive: target name, `.partial`, replaced ISO | one run per plan item: fetch, check, copy, verify, rename, sync, trash, clean up | drive pulled or swapped, power loss, crash, full drive, corruption, cancel, retry, second process | only whole verified images become visible; nothing of others is overwritten; the old ISO stays until then; retries succeed |
| `transfer._download` | `.download` file and its validator in the cache | resume, restart, append, verify | broken connections, a file that changes on the server, crashes between the two files | the count matches the file; the advertised size is never exceeded; a complete download is neither requested again nor lost; retries succeed |
| `planner.build_plan` | nothing lasting | identify ISOs, look up releases on a thread pool, decide | answers in any order, failing providers, ISOs that compete for a name or for space | one file per name, within the free space, own variant only, every skip explained |
| `app.VentoyDepotApp` | plan, rows, selection, dialogs, running flags, cancel event | key and button handlers, metadata and transfer threads | handlers interleaved with threads, dialogs over changing state, cancel | one writer at a time; it writes what was confirmed; cancel is heeded; keys come back |
| `devices` | nothing (asks the operating system) | discover, find, revalidate | a drive changes between two questions | a plan's drive is never mistaken for another one |
| `assignments` | `.ventoy-depot/catalog.json` on the drive | lookup by hash, assign | two processes, crash while writing, ISO changed after assignment | an assignment never applies to another image; no torn catalog |
| `registry_client` | TUF metadata, targets, `state.json` in the cache | refresh once a day, load | crash or failure between metadata and targets, two instances in one cache, replayed and expired metadata | all manifests of one release or none; never an older release; the newest in the end |
| `providers`, `iso` | compiled rules, blocked variants | detect, resolve, build the provider map | some sixty name patterns, renamed and discontinued images, ambiguous names, precedence of built-in, registry and local providers | an update is the same variant again; what can be updated is |
| `models` | - | version order, writable | two ways to compare versions, respins, withdrawn releases | never an "update" to an older release |
| `security`, `network` | the proxy | validation, HTTPS with checked redirects | - | only allow-listed hosts |
| `config`, `report` | `config.json`, reports on the drive | load, save atomically | crash while writing | old or new file, nothing between |
| `cli`, `i18n`, `ventoy_iso_updater` | - | read-only commands; texts; the former application, which no entry point starts | - | - |

How they interact: `app` runs `build_plan` on a thread, which calls the registry client,
providers, catalog and resolvers; the user confirms items of the plan; a second kind of
thread calls `apply_item` for each, which calls `_download`, `revalidate_device` and the
file system. Threads reach the UI only through `call_from_thread`, which runs one handler in
the event loop. Two instances of the program share the drive and the download cache and
know nothing of each other.

## The modules

| Module | Models | |
|---|---|---|
| `AtomicInstall` | the promise of one plan item: the image appears whole, at once, and the old ISO goes after it is settled | abstract specification |
| `Install` | `transfer.apply_item` 36-138 and the drive around it | implements `AtomicInstall` |
| `Download`, `MCDownload` | `_download` 149-219 and the download's verification 79-91 | |
| `Planner`, `MCPlanner` | `planner.build_plan` 25-128 | |
| `App`, `MCApp` | `app.VentoyDepotApp` 336-760 | |
| `Catalog`, `MCCatalog` | `assignments.AssignmentCatalog` 29-103 and the drive around it | |
| `Registry`, `MCRegistry` | `registry_client.py` and `providers/__init__.py` | |
| `Versions` | `models.is_newer_version` and the resolvers' key | pure operators |
| `Names` | the tables of `providers/builtin.py` and `identify_iso` | pure operators, on `Versions` |
| `Resolvers` | `providers/resolvers.py` and `is_newer` | pure operators, on `Names` |
| `Manifest` | `providers/manifest.py` | pure operators, on `Resolvers` |
| `Updates`, `MCUpdates` | one ISO from release to release, through the four modules above | composition |
| `Install_proofs`, `Download_proofs`, `Planner_proofs`, `App_proofs`, `Catalog_proofs`, `Registry_proofs`, `Versions_proofs`, `Updates_proofs` | theorems about the modules they are named after | TLAPS |

**Install.** A step is a statement of `apply_item` that touches the drive, `pc[w]` the next
one. Paths have no drive in them: every operation acts on `mounted`, whatever that is by
then, and only `SameDevice` (`revalidate_device`) compares it with the plan's drive. A file is
its blocks (TRUE when equal to the published one) and how many of them an fsync has made
durable; `linked` holds the drives whose new directory entry is durable. A file handle
follows its file through rename and unlink and dies with its drive. `Raise` is an exception
inside the `try`, so `Cleanup` and `UnlinkPartial` come next; the guards before the `try` fail
without them. `StatementFails` is an I/O error of any statement that has no failure of its
own. The environment kills a process, cuts power (any file is cut back to its last fsync or
further on, an unsynced name may be undone), unplugs, replugs or swaps drives and creates
files. Every disturbance counts against `MaxFaults`, except that the planned drive comes back
freely.

A drive takes seconds to be mounted, the statements between a device check and the operation
it guards take far less, except the copy, which has a handle on its drive and dies with it.
`Window` lists these statements. A drive may always *leave* in a window, but comes back or is
replaced in one only if `"swapInWindow"` is allowed. With it TLC finds other drives written to:
a path-based program cannot close that gap, and docs/THREAT_MODEL.md puts physical attacks
during a write out of scope. A mount directory that stays behind without its drive counts as
another drive in this sense.

A drive has room for `Room` blocks. `Begin` wants the size the metadata announce (`Required`, 0 when they
announce none) free before the `try` (lines 62-64), so its refusal removes nothing: a `.partial` an earlier
attempt could not remove, of a drive that was gone or a process that was killed, counts against the image
that would replace it. On a drive too small for both, every later attempt fails in the same way
(`LeftoverFills`), which `EventuallyVisible` excepts; TLC finds the behaviour when the exception is left out. `CheckDevice` asks
for the room again inside the `try`, and a block that finds none fails the copy. The space of a file that
is unlinked while it is open is taken to be free, which only `install_two` can tell. Other programs that
fill the drive are the disturbance `"io"`.

`"REPLACE"` is an action of `apply_item`; today's planner only produces `"ADD"`.

**Download.** The cache is a sequence of blocks, each named by its release, so a mixture of
releases is visible. The server may serve another release at any time, leave out validators,
answer 200 to a range request or 206 although the file changed. What the rest of `apply_item`
does is one step, `Apply`, which may fail. The staging disk has `Room` blocks for the cache. The guard at
lines 179-181 wants what the response is to bring free, on top of a file that is truncated only at line 194:
on a disk too small for both, a leftover that cannot be resumed makes every later attempt fail
(`LeftoverFills`, the exception of `EventuallyDownloaded`). `maximum` is what lines 159-160 allow the run
to write.

**Planner.** `Prepare` identifies the ISOs one by one, `Resolve(i)` is a completed future: at
most `Parallelism` are being worked on and they finish in any order. `Fails` ends a scan
with an error and no plan: only `AssignmentError` is caught around the catalog, and nothing around
`provider_map`, `find_isos` and `disk_usage`. `PlanItem` is one turn of
the loop, with the order of its tests. What a provider, the catalog or the drive answers is
chosen when the code asks.

**App.** An action is one handler of the event loop, or what a thread does between two. A
thread waits at `"new"` for its first handler. Starting a worker of an exclusive group cancels
older ones, which only stops those whose thread has not begun. `TypeAhead` says whether the
user can act before a new metadata thread's first handler. A scan gives any plan, an item
succeeds, fails or is cancelled. The app's `on_select_changed` (387-405) receives the messages of the Selects in
the assign and settings dialogs too and does not ask whose they are: opening such a dialog, or a choice in
it, drops the plan, the marks and what failed (`PlanDropped`), though the rows stay on the screen. Afterwards the
update key does nothing (line 606) until the next scan.

**Catalog.** A step is a statement of `assign`: read the document, hash the ISO, write the temporary
file, sync it, replace the document. The hash of an ISO is its content. The document carries
whether its data were synced, since power loss tears what was not; the directory is never synced,
so `earlier` holds the documents power loss may bring back until the operating system writes the
directory (`Writeback`). `meant` records what the user said of which content. Two limits of the
code are part of the model: of two saves that overlap one is lost, and a saved record can be
undone by power loss. An ISO may change at any time except between the user's choice and the end
of the hashing of that ISO, which `"changeWhileAssigning"` would allow: the code then binds the
identity to the new content.

**Registry.** A step is a file written by a refresh, or a file checked or read by a load. A
manifest is its revision and a hash is the content, so verification is equality with what the
metadata's release signed. The snapshot and targets metadata are stored in one step, and the index is
downloaded and read in one. Whether a refresh is due depends on the three metadata files and on
`checked`, which days and a clock set back change. Two instances share the directory: `disturbed[a]`
says that another one has written since `a` looked, which the properties need because
`_load_cached` verifies a file and then reads it again (lines 132-133). python-tuf is external.
The repository ships no `registry/root.json`, so today `load_registry` always returns at line 39;
the model is of an installation with a root. Line 46 says of a failed refresh that the "verified cache"
is used: a refresh that failed after the metadata leaves a cache that no longer verifies, and the load
falls back to the bundled providers (`OneRelease` allows both).

A refresh that another has overtaken may store its older timestamp last. From then on (`overtaken`) the cache may go
back, and `NoRollback` says nothing, until a refresh stores a timestamp as new as the newest ever loaded; `newest`
itself is never lowered.

**Names, Versions, Resolvers, Manifest.** A file name is its form (the pattern that matches it), the
parts that tell variants apart and its release. `Names` has one rule per `FilenameRule`, with the values
its groups accept; `Resolvers` one operator per publisher, the set of names it looks for, empty when
it raises. `Reads` is the syntax of the
group `version` in the rules (how many numbers, a dash, a text, Ubuntu's decades, the majors of Rocky and Alma), `ResolverReads`
that of the resolvers' patterns, which differ. A declarative manifest is its rules and sources with their identity templates; the page
a source reads is the set of names the publisher has out. Versions are numbers, a dash and a text.

**Updates.** One ISO of any form and release, its publisher's feed, and the drive's other files. `Update`
is a scan, a plan and its execution: identify the name with every provider, resolve, take the newest
listed release, compare, and put the published file in the ISO's place. The next `Update` starts
from that name. The publisher publishes and withdraws releases, a manifest's hosts fail and come
back, and the user may delete the other files. A provider whose id the registry has a manifest for
(`curated`) keeps its resolver and loses `FilenameProvider.is_newer`; its detection is taken to be the
bundled one. The majors of Rocky and Alma are in one feed, and the ISO has one of them. A release
comes in all variants of its provider, but for forms that begin or end (`InUse`) and what the feed says it `lacks`. A publisher's
releases are in the order of their versions, respins after what they replace, and Vanilla OS starts again at
2 after 22.10 (`FeedAssumption`, `Follows`); any of them may be withdrawn. Which release a resolver returns is `Newest`:
`Listed` are those whose version its pattern takes; `ByDirectory` names the publishers of which the newest directory, channel or
`releases/latest` is chosen first and must then have the variant; `OrderKey` and `Precedes` say what the newest is and
which of equals is taken: the first name in the alphabet for Fedora, the first on the page for Clonezilla and Zorin OS
(`newestFirst` is the order of that page).

What the code does to variants and the properties except:
- Rocky's and Alma's `latest` names and NixOS' `plasma5` image become the plain image, Fedora's KDE spin
  changes its name: `Line` takes these as one variant each.
- Ubuntu's rules (`builtin.py` 207-222) take *every* April release for an LTS, the resolver those of even
  years (`resolvers.py` 274). An interim 25.04 is identified as `lts` and is next followed by 26.04,
  never by 25.10: a change of channel against README.md:82-83 (`MisreadUbuntu`). The LTS rule also knows
  no April of a decade with an odd digit (`[02468]\d`): a 30.04 is installed and then not identified.
- `TakenUnread`: the Debian resolver takes versions of any length (299, 304), the rules at most three numbers (234, 241);
  Clonezilla's (456) and Rescuezilla's (792) take any text, the rules (353, 361, 682) do not. Such a version, and Ubuntu's 30.04, is
  installed under a name the next scan does not know. For every other form `VariantKept` has no exception but
  `MisreadUbuntu`.
- `Dropped`: while the newest directory lacks the variant, the lookup raises although older releases have it.
- `Unseen`: Zorin's versions without a dot (builtin.py:819, resolvers.py:868), Pop!_OS releases other than the 24.04 at
  resolvers.py:708, and on Clonezilla's page all but the first entry.
- Editions the resolvers refuse, bundled providers without a resolver, names with an alias for their
  architecture in a manifest (`detect` normalises it, the comparison with artifacts does not) and
  variants blocked by a file on the drive stay where they are (`Refused`).
- A respin is seen only if both names have a build and no registry manifest is in force, never of Fedora (whose first
  name in the alphabet is taken) unless it sorts first, and of Zorin OS only when it comes first on the page
  (`RespinUnseen`); a registry manifest for Vanilla OS also loses the step from 22.10 to 2 (`Unseen`).
- A source whose template has a text is not compared with the artifact in that dimension: manifests
  are assumed to have an `artifact_regex` that says the same (`SourcesNameTheirVariant`).

Assumed of publishers: in a Fedora directory the variant's own image sorts before other ISOs that match (the
server's `dvd` before its `netinst`, resolvers.py:357-360), and Fedora's builds have at most two digits. How many digits a number
has is left out, rules and resolvers agreeing on it.

## The runs

| Run | Instance | Shows |
|---|---|---|
| `install_safe` | one run, two drives, two blocks, REPLACE, six disturbances of every kind outside the windows | `VisibleIsVerified`, `SuccessIsDurable`, `OldKeptUntilReplaced`, `OtherDrivesUntouched`, `OthersFilesKept`, and that `Install` implements `AtomicInstall` |
| `install_retry` | one drive with room for five blocks, an image of three, ADD, five disturbances, weak fairness | `EventuallyVisible` |
| `install_two` | two processes, no disturbance | **violated**: a half-written image gets the final name |
| `install_race` | a file created between last check and rename | **violated**: the file is overwritten |
| `download_resume` | three releases of 1, 2 and 3 blocks, the planned one in the middle, three disturbances, size known, room for four blocks | `CountIsLength`, `WithinAdvertisedSize`, `CompleteStaysOffline`, `CompleteDownloadKept`, `EventuallyDownloaded` |
| `download_unknown_size` | the same with `size_bytes = None` and room for six | **violated**: `CompleteStaysOffline` |
| `planner` | three ISOs, two threads, two names, two variants, free space 2 or 3 | `OneFilePerTarget`, `WithinFreeSpace`, `OwnVariantOnly`, `RefusalsAreJust`, `SkipsAreExplained`, `PlanCompletes` |
| `app` | two drives with two and one ISOs, three scans or assignments, room for two threads of each kind | `OneWriter`, `WritesWhatWasConfirmed`, `ScreenAgrees`, `RefreshIgnored`, `CancelIsHeeded`, `OperationsEnd` |
| `app_type_ahead` | the same, the user faster than the thread | **violated**: `RefreshIgnored` |
| `catalog` | two instances, two ISOs of two contents, two identities, three assignments, two disturbances | `NeverTorn`, `OnlyWhatWasMeant`, `KeptUnlessOverlapped` |
| `registry` | two instances, three releases (a good one, one with an invalid manifest, a smaller one), one disturbance of six kinds | `OneRelease`, `NoRollback`, `EventuallyFresh` |
| `updates` | all bundled providers and one manifest with five sources, three to six releases each, some of which lack variants or have versions a pattern does not take, one outage | `VariantKept`, `NeverOlder`, `EventuallyCurrent` |

The four violated properties are findings; PROJECT.json quotes what the repository says
against each. In short: `.partial` is shared by two instances and removed by either's
exception handler; the no-overwrite rule is check-then-act; a complete cached download of
unknown size is requested with a range past its end for ever; and assigning an ISO leaves
the UI unlocked for the moment before its thread begins: a scan started then runs next to the saving thread and
clears the running flag, the user starts a transfer from its plan, and the end of the saving thread unlocks the keys
while the transfer writes.

**Bounds.** `install_retry` has a drive on which an image of three fits beside a leftover of one or two blocks, and not beside a whole
one; `download_resume` a disk for the longest release and one block. With a block more on the drive `EventuallyVisible` holds without its exception. Six disturbances are enough for a failed attempt, a failed clean-up of it, a retry
under a swapped drive and a power loss in one behaviour; two blocks tell whole from partial
images, corrupted first from corrupted last blocks. Three releases give the cache a longer,
an equal and a shorter content than planned. Three ISOs let two compete while a third
profits or loses. Two thread slots are one more than a correct UI uses. Three assignments let one
instance save twice around the other's save; with two disturbances an ISO changes and changes
back, or power is lost after an error. The instances are symmetric, and the run has no liveness.
In `registry` the third release drops a manifest of the first, so a mixture shows; one disturbance meets
every interleaving of two refreshes. The feeds of `updates` have the versions that are hard to order:
9 before 10, a release with and without a further number, numbers after a dash, texts that look like
pre-releases, respins, 2 after 22.10, versions only one of a resolver and the rules takes, and variants that are dropped
for one release or for good. Every exception of the two properties is needed: without any one of them TLC finds a
violation.

**Fairness.** A thread that can run does, and the event loop runs the handlers threads wait
for (`WF` of each thread's step). `install_retry` and `download_resume` also assume that the user
retries what failed and plugs the planned drive in again: the properties say that retrying is
*enough*, which the code has to provide, not that users retry. In `app` nothing makes the user
act. `EventuallyDownloaded` assumes that the server ends up serving the planned release; the
disturbances are finitely many by `MaxFaults`. In `registry` calls that began go on, days pass, and the user
plans with a refresh again and again on days without one (`SF`: another instance's refresh may come first).
In `updates` the user keeps updating and hosts come back; nothing makes a publisher publish.

**Deadlock** is checked except in the runs of `Install`, where a behaviour ends when the image
is added and no disturbance is left, in `catalog`, where assignments are bounded, and in `updates`, which ends
with the feed.

## What is proved

TLAPS proves the following for all values of the constants that satisfy the modules' `ASSUME`s: any
drives, image lengths, ISOs, threads, instances, releases and numbers of disturbances. Every safety
property of the passing runs is among them (`VariantKept` for bundled providers), and so is the refinement
of `AtomicInstall`. TLC checked each
inductive invariant before it was proved; they stand at the end of the modules, the steps of the proofs
follow the actions.

| Module | Theorems | Assumed besides |
|---|---|---|
| `Install` | `TypeCorrect` | - |
| | `VisibleImagesAreVerified`, `OtherDrivesAreUntouched` | `OneRun`, `NoQuickSwap` |
| | `FilesOfOthersAreKept` | these and `NoLateCreate` |
| | `SuccessLasts`, `OldIsKeptUntilReplaced` | `OneRun`, `NoQuickSwap`, `DirectorySync` |
| | `InstallIsAtomic` (the refinement) | all four |
| `Download` | `DownloadTypeCorrect`, `CountMatchesFile`, `DownloadsAreBounded` | - |
| | `CompleteIsNotRequested`, `CompleteIsKept` | `SizeKnown` |
| `Planner` | `PlannerTypeCorrect`, `PlansWriteEachPathOnce`, `PlansFit`, `UpdatesKeepTheVariant`, `RefusalsAreJustified`, `SkipsHaveReasons` | - |
| `App` | `AppTypeCorrect` | - |
| | `OneThreadWrites`, `OnlyTheConfirmedIsWritten`, `TheScreenAgrees`, `NothingIsChosenMeanwhile`, `CancelStopsTheRun` | `~TypeAhead` |
| `Catalog` | `CatalogTypeCorrect`, `CatalogIsNeverTorn`, `RecordsAreKept` | - |
| | `IdentitiesAreMeant` | `"changeWhileAssigning" \notin Faults` |
| `Registry` | `RegistryTypeCorrect`, `NoLoadGoesBack` (but for `overtaken`), `LoadsAreOfOneRelease` | - |
| `Versions` | `NewerIsAsymmetric`, `NewerIsTransitive`, `NewerIsTotal` | - |
| `Updates` | `UpdatesTypeCorrect`, `UpdatesNeverGoBack` | - |
| | `BundledVariantsAreKept` | `DeclaredApart`, a bundled provider |

The hypotheses in the last column are the limits the sections above describe, and the code needs them:
`install_two`, `install_race`, `download_unknown_size` and `app_type_ahead` are TLC's counterexamples
without `OneRun`, `NoLateCreate`, `SizeKnown` and `~TypeAhead`. `DirectorySync` is a POSIX system: on Windows
`_fsync_directory` returns at once. All of them hold in the instances of the passing runs.

**Install.** `VisibleIsVerified` is not inductive: at the rename nothing in it says what `.partial` holds.
`SafeInv` adds, against the flow of a run: what is visible is whole *and* flushed (`FinalsWhole`), for power
loss cuts files to what was flushed; from the verification to the rename the planned drive's `.partial` is
missing or whole and flushed (`PartialWhole`), which needs that it is flushed when verification reads it
(`PartialFlushed`); only `_copy` holds a handle, on the planned drive's `.partial` or on a drive that is gone
(`CopyHandle`); in a window the mounted drive is the planned one or none (`WindowMounted`, from the device
checks and `NoQuickSwap`); and other drives hold nothing of this program (`OthersClean`). `CleanInv` adds that
names which show no image are as they were found, which gives `OtherDrivesUntouched`; `FreeInv` that the target's
name is free at the rename (`TargetFree`). `DurableInv` carries a success past its end: the image is shown from
the rename on, its name is settled when the old ISO goes, and a run reports success only with its image
settled. The refinement then has one step per action: the rename is `Publish`, the directory's fsync
`Settle`, moving the replaced ISO `Retire`, power loss may be `Forget`, a file somebody creates `Occupy`, and
all else a stutter.

**Download.** `CacheInv`: a run resumes from the end of the file or from the start, and never a download known
to be complete (`ResumesAtEnd`); before the first block its count is what opening the file will leave in it
(`CountIsPromised`), and never more than the advertised size (`CountWithinSize`).

**Planner.** `taken` is the set of the paths of the added items (`TakenInv`), and a refused duplicate names
one of them. Whether the plan fits is about a sum, and what a recursive function computes cannot be proved
here by induction: `SumInv` therefore speaks of *every* function that satisfies the equation of the sum
(`Sums`), says that there is one, and that it and the remaining space add up to the free space. Each
`PlanItem` extends such a function by one.

**App.** `AppInv`: while a thread runs the UI is locked and nobody has the keys (`OneThread`,
`BusyIsRunning`), dialogs are open only while no thread runs (`DialogsAlone`) and show what the plan has
(`DialogShowsPlan`). Who may act is therefore alone, which `UserIsAlone` says once for all handlers.

**Catalog.** `DocumentsSynced`: the document, and every one power loss may bring back, was synced before it
took its place. `OneRecordMore`: what an instance writes is what it read and one record. `AllSaid` and
`HashIsMeant`: every record anywhere is something the user said, from the choice to the save.

**Registry.** `TimestampIsNewest`: the cached timestamp is at least what was ever loaded, unless an overtaken refresh wrote it, and the trusted
release of an undisturbed call at least the cached timestamp, since both updaters start from the cache.
`CheckedIsRead`: what an undisturbed load has is the first manifests of its release, what it has checked is what
it is about to read, and the ids to come are the rest of the signed index.

**Versions, Updates.** The order of versions is lexicographic on keys; that of any two versions one may be
newer at most, it is transitive among the versions packaging understands and among the others, and equal
keys are the only ties. With it `NewerFollows` shows that whatever `is_newer` accepts comes later in a feed.
`BundledVariantsAreKept` needs four facts about the tables: rules with one form belong to one provider and,
but for Ubuntu's two, say the same (`BuiltinsAlike`), what a provider's rules have in common
(`BuiltinsRegular`), what each of the 24 resolvers makes of an identity's parts (`ResolversKeep`), and that a version a
resolver takes is read by the rules but for the forms of `TakenUnread` (`TakenIsRead`). From
these, the name that is offered is identified once, as the same variant. `DeclaredApart` says that the manifest
claims no bundled name.

**Only model-checked.** Liveness (`EventuallyVisible`, `EventuallyDownloaded`, `PlanCompletes`, `OperationsEnd`,
`EventuallyFresh`, `EventuallyCurrent`) is out of the prover's reach. `VariantKept` of a declarative provider
depends on its rules and sources saying the same of each file, which no code enforces; assuming it would
assume the conclusion. The four violated properties are counterexamples.

## The plan

Everything in the table of modules is done. Next: `Session`, `App` composed with the outcome of `Install` per
item, for what a retry after a partly failed run does; discovery (`devices`) as pure operators, with the lemma
that a plan's drive is never mistaken for another; that `RegistryInv` bounds what two loads of different
instances may disagree on; and a condition on a manifest's templates that is checked when it is loaded and
implies `VariantKept` for it.

## Not modelled

The OpenPGP branch of `apply_item` (the app passes no keyring, so signed artifacts end in an
error), the addresses, checksums and sizes resolvers take from publishers' pages, URL validation and
the shape of manifests beyond their identities, HTTP redirects, the parsing of `lsblk`'s and PowerShell's
answers, two instances that download into one cache file, texts, the read-only command line and the former application
`ventoy_iso_updater`. Quitting the UI during a transfer is `Kill` of `Install`; what Textual does to
the waiting thread is not modelled.
