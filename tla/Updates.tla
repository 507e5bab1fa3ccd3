------------------------------ MODULE Updates ------------------------------
(***************************************************************************)
(* One ISO over the years: the program identifies it by its name, looks up *)
(* its publisher's newest release of that variant and installs it under    *)
(* the publisher's name, which is what the next scan identifies.           *)
(* Publishers, the user and other files on the drive are external.         *)
(***************************************************************************)
EXTENDS Manifest, FiniteSetsExt

CONSTANTS
  Declared,    \* a manifest whose provider has no integrated resolver
  Feeds,       \* per publisher, its releases in order: a version, a build and
               \* the editions, flavors and architectures it has no image of
  OtherNames,  \* the name of another file on the drive, if there is one
  MaxOutages

ASSUME UpdatesAssumption ==
  /\ ValidManifest(Declared) /\ SourcesNameTheirVariant(Declared)
  /\ Declared.id \notin {p.id : p \in BuiltinProviders}
  /\ Len(Declared.sources) \in Nat /\ MaxOutages \in Nat

VARIABLES
  provider,   \* the id of the ISO's provider
  curated,    \* the registry has a manifest for a bundled provider
  name,       \* the ISO's name, but for its release
  installed,  \* the release it is, 0 for a name that tells none
  released,   \* how many of its releases the publisher has published
  withdrawn,  \* those the publisher took back
  newestFirst,  \* a page that lists several releases begins with the newest
  others,     \* the other files' names
  down,       \* the hosts that do not answer, by release source
  outages

publisher == <<released, withdrawn, newestFirst>>
hosts == <<down, outages>>
vars == <<provider, curated, name, installed, publisher, others, hosts>>

\* A build of 0 is none.
NoRelease == [version |-> Unknown, build |-> 0, lacks |-> {}]

\* What a publisher releases later has the greater version, or is a respin of
\* the same one.  Vanilla OS counts from 2 again after 22.10.
Follows(id, later, earlier) ==
  LET first(release) == id = "vanilla-os" /\ release.version.numbers[1] = 22 IN
  IF first(earlier) # first(later) THEN first(earlier)
  ELSE \/ NewerVersion(later.version, earlier.version)
       \/ /\ later.version = earlier.version
          /\ later.build >= earlier.build \/ 0 \in {later.build, earlier.build}

FeedIds == {p.id : p \in BuiltinProviders} \cup {"clonezilla-alternative", Declared.id}

ASSUME FeedAssumption ==
  /\ Feeds \in [FeedIds -> Seq([version : KnownVersions, build : Nat, lacks : SUBSET STRING])]
  /\ \A id \in FeedIds :
       /\ Feeds[id] # <<>>
       /\ \A j \in DOMAIN Feeds[id] : \A i \in 1..j - 1 : Follows(id, Feeds[id][j], Feeds[id][i])
-----------------------------------------------------------------------------
(* The publisher *)

\* The names in use at a release: some forms and variants ended or began.
InUse(n, version) == LET form == n.form IN
  /\ form \notin AliasForms
  /\ form \in {"rocky", "alma"} => version.numbers[1] = MajorNumber[n.major]
  /\ form = "fedora-41" => version.numbers[1] <= 41
  /\ form = "fedora" => version.numbers[1] > 41
  /\ form \in {"vanilla-22", "vanilla-22-all"} => version.numbers[1] = 22
  /\ form = "vanilla-os" => version.numbers[1] # 22
  /\ form = "nixos-plasma5" => version.numbers[1] < 24
  /\ form = "cachyos-kde" => version.numbers[1] < 240000
  /\ form = "manjaro-rc" <=> provider = "manjaro" /\ version.text # NoText
  /\ form = "legacy" => version.numbers[1] < 2

ProviderIds == {p.id : p \in BuiltinProviders} \cup {Declared.id}
Providers == [id \in ProviderIds |-> IF id = Declared.id THEN Declared
                                     ELSE CHOOSE p \in BuiltinProviders : p.id = id]
NamesOf ==
  [id \in ProviderIds |->
     IF id = Declared.id THEN UNION {Declared.rules[i].names : i \in DOMAIN Declared.rules}
     ELSE UNION {Names(rule) : rule \in Providers[id].rules}]
AllNames == NamesOf[provider]

\* Clonezilla's two editions are two lines of releases.
Feed ==
  Feeds[IF provider = "clonezilla" /\ name.form = "clonezilla-alternative" THEN name.form
        ELSE provider]
Release(i) == IF i = 0 THEN NoRelease ELSE Feed[i]
Published(i) ==
  {n \in AllNames : /\ InUse(n, Release(i).version)
                    /\ {n.edition, n.flavor, n.arch} \cap Release(i).lacks = {}}
Available == 1..released \ withdrawn
-----------------------------------------------------------------------------
(* A scan and its plan *)

\* identify_iso: every provider is asked.
Detected(n, version) == Identities(BuiltinProviders, n, version) \cup Detect(Declared, n)

\* Each plan has providers of its own, whose detect has seen the whole drive.
Blocked == BlockedVariants(Declared, others \cup {name})

\* What the publisher's pages list.
Page == UNION {Published(i) : i \in Available}

Accepted(id) ==
  IF provider = Declared.id THEN ResolveManifest(Declared, Page, down, Blocked, id)
  ELSE IF down # {} THEN {} ELSE Resolve(Providers[provider], id)

\* Mutant of Listed: a release that is announced and not yet out counts.
ListedAnnounced(id, names) == {i \in DOMAIN Feed : names \cap Published(i) # {}}

\* Publishers whose newest directory, channel or release is chosen first, and
\* is then to have an image of the variant.
ByDirectory == {"ubuntu", "fedora", "linux-mint", "cachyos", "nixos", "freebsd", "manjaro",
                "rescuezilla", "vanilla-os"}

\* The releases to choose from: in Ubuntu's case those of the channel.
Listed(id, names) ==
  {i \in Available :
     /\ \A n \in names : provider = Declared.id \/ ResolverReads(n.form, Release(i).version)
     /\ id.provider = "ubuntu" => UbuntuRelease(id.channel, Release(i).version)
     /\ id.provider \in ByDirectory \/ names \cap Published(i) # {}}

\* By what the newest is chosen: GitHub's "releases/latest", the channel of
\* NixOS, Clonezilla's first match, and _version_key.
OrderKey(id, i) ==
  CASE id.provider \in {"rescuezilla", "vanilla-os"} -> <<i>>
    [] id.provider = "nixos" -> SubSeq(Release(i).version.numbers, 1, 2)
    [] id.provider = "clonezilla" -> <<>>
    [] OTHER -> VersionKey(Release(i).version)

\* The text of a Fedora build "1.n", of at most two digits.
BuildText(build) == IF build < 10 THEN <<build>> ELSE <<build \div 10, build % 10>>

\* Of equals: Fedora's first name in the alphabet, the first on the page, or
\* the last: of a file of the same name only the later is left.
Precedes(id, i, j) ==
  CASE id.provider = "fedora" -> ~LexLess(BuildText(Release(j).build), BuildText(Release(i).build))
    [] id.provider \in {"clonezilla", "zorin-os"} /\ ~newestFirst -> i <= j
    [] OTHER -> i >= j

\* The release a resolver returns: none if the newest has no such image.
Newest(id, names) ==
  LET listed == Listed(id, names)
      newest == {i \in listed : /\ names \cap Published(i) # {}
                                /\ \A j \in listed : ~LexLess(OrderKey(id, i), OrderKey(id, j))}
  IN {i \in newest : \A j \in newest : Precedes(id, i, j)}

\* An ISO that exactly one provider identifies, a newer candidate, its name.
Update ==
  /\ \E ids \in {Detected(name, Release(installed).version)} :
       /\ Cardinality(ids) = 1
       /\ \E id \in ids : \E names \in {Accepted(id)} : \E i \in Newest(id, names) :
            /\ IsNewer(id, curated, Release(i), Release(installed))
            /\ name' \in names \cap Published(i)
            /\ installed' = i
  /\ UNCHANGED <<provider, curated, publisher, others, hosts>>
-----------------------------------------------------------------------------
Publish ==
  /\ released < Len(Feed)
  /\ released' = released + 1
  /\ UNCHANGED <<provider, curated, name, installed, withdrawn, newestFirst, others, hosts>>

\* A release is taken back, or is too old to be kept.
Withdraw ==
  /\ \E i \in Available : Available # {i} /\ withdrawn' = withdrawn \cup {i}
  /\ UNCHANGED <<provider, curated, name, installed, released, newestFirst, others, hosts>>

GoesDown ==
  /\ outages < MaxOutages /\ outages' = outages + 1
  /\ \E i \in 1..(IF provider = Declared.id THEN Len(Declared.sources) ELSE 1) : down' = down \cup {i}
  /\ UNCHANGED <<provider, curated, name, installed, publisher, others>>

ComesBack ==
  /\ down # {} /\ down' = {}
  /\ UNCHANGED <<provider, curated, name, installed, publisher, others, outages>>

\* The user deletes the other files.
RemoveOthers ==
  /\ others # {} /\ others' = {}
  /\ UNCHANGED <<provider, curated, name, installed, publisher, hosts>>

Init ==
  /\ provider \in ProviderIds
  /\ curated \in (IF provider \in ReportsBuild THEN BOOLEAN ELSE {FALSE})
  /\ name \in AllNames
  /\ installed \in 0..Len(Feed)
  /\ IF installed = 0 THEN name.form \in AliasForms ELSE name \in Published(installed)
  /\ released = Max({1, installed}) /\ withdrawn = {}
  /\ newestFirst \in (IF provider \in {"clonezilla", "zorin-os"} THEN BOOLEAN ELSE {TRUE})
  /\ others \in (IF provider = Declared.id THEN {{}, OtherNames} ELSE {{}})
  /\ down = {} /\ outages = 0

Next == Update \/ Publish \/ Withdraw \/ GoesDown \/ ComesBack \/ RemoveOthers

\* The user keeps scanning and updating, and hosts come back.
Spec == Init /\ [][Next]_vars /\ WF_vars(Update) /\ WF_vars(ComesBack)
-----------------------------------------------------------------------------
\* The ISO is a file of its provider's family, of a release that is out
\* (resolvers.py takes names and versions from the publisher's pages).
TypeOK ==
  /\ provider \in ProviderIds /\ curated \in BOOLEAN
  /\ name \in AllNames
  /\ installed \in 0..released /\ released \in 1..Len(Feed) /\ newestFirst \in BOOLEAN
  /\ withdrawn \subseteq 1..released /\ Available # {}
  /\ others \in {{}, OtherNames} /\ down \subseteq Nat /\ outages \in 0..MaxOutages

Version == Release(installed).version

\* What a variant is to its publisher: an alias is the release it points to,
\* NixOS' Plasma 5 image became the graphical one, Fedora's KDE spin has a new
\* name, and Ubuntu's channel follows from the date.
Line(id, version) ==
  [id EXCEPT
     !.flavor = IF @ \in {"latest-alias", "plasma5"} THEN None ELSE @,
     !.edition = IF id.provider = "fedora" /\ @ = "kde" THEN "kde-desktop" ELSE @,
     !.channel = IF id.provider # "ubuntu" THEN @
                 ELSE IF UbuntuRelease("lts", version) THEN "lts" ELSE "interim"]

\* Ubuntu's April release of an odd year: interim, and detected as lts.
MisreadUbuntu(version) ==
  provider = "ubuntu" /\ version.numbers[1] % 2 = 1 /\ version.numbers[2] = 4

\* Versions a resolver takes and no rule reads: Debian's with four numbers,
\* whatever Clonezilla's page and Rescuezilla's tags say, Ubuntu's April of a
\* decade with an odd digit.
TakenUnread(form, version) ==
  /\ form \in {"debian", "debian-live", "clonezilla", "clonezilla-alternative", "rescuezilla",
               "ubuntu"}
  /\ ~Reads(form, version)

\* README.md:82 "updates may not silently change any of these dimensions": the
\* file that replaces another is identified, by one provider, as the same
\* variant, whatever releases lie between the two, but for the versions above.
\* (resolvers.py, builtin.py and manifest.py agree on every variant;
\* _resolve_target's validate_binding compares an identity with a copy of
\* itself.)
VariantKept ==
  [][name' # name \/ installed' # installed =>
       \/ \E new \in Detected(name', Version') :
            /\ Detected(name', Version') = {new}
            /\ \/ \E id \in Detected(name, Version) : Line(new, Version') = Line(id, Version)
               \/ MisreadUbuntu(Version)
       \/ TakenUnread(name'.form, Version')]_vars

\* No update goes back to a release the publisher made earlier, even when it
\* withdraws the newest one (Provider.is_newer, models.is_newer_version).
NeverOlder == [][installed' # installed => installed' > installed]_vars

\* The variants of a release, whether or not a rule reads its version.
Variants(i) ==
  LET version == Release(i).version IN
  IF provider = Declared.id
    THEN {Line(id, version) : id \in UNION {Detect(Declared, n) : n \in Published(i)}}
    ELSE UNION {{Line(Identity(Providers[provider], rule, n), version) :
                   n \in Names(rule) \cap Published(i)} : rule \in Providers[provider].rules}

\* Variants the code says it does not update, or of which no image exists.
Refused(id) ==
  \/ id.provider \notin BuiltinResolverIds \cup {Declared.id}
  \/ id.provider = "alpine" /\ id.edition = "extended" /\ id.arch \notin {"x86", "x86_64"}
  \/ id.provider = "alpine" /\ id.edition = "xen" /\ id.arch # "x86_64"
  \/ id.edition = "dvd-4" \/ id.edition = "silverblue" \/ id.flavor = "edge"
  \/ id.provider = "manjaro" /\ id.channel = "review"
  \/ id.provider = "zorin-os" /\ (id.edition \in {"pro", "pro-lite"} \/ id.arch = "amd64")
  \/ id.provider = Declared.id /\ (id.edition = "tiny" \/ id \in Blocked)

\* The last release, of Ubuntu's those of the channel, of Manjaro's the final
\* ones, has no image of the variant, and the resolver looks no further.
Dropped(id) ==
  LET listed == {i \in Available :
                   /\ id.provider = "ubuntu" => UbuntuRelease(id.channel, Release(i).version)
                   /\ id.provider = "manjaro" => Release(i).version.text = NoText}
  IN /\ id.provider \in ByDirectory
     /\ \E i \in listed : \A j \in listed :
          /\ j <= i
          /\ Release(j).version = Release(i).version => Line(id, Version) \notin Variants(j)

\* Respins the code does not see: without a number in one of the names, by a
\* registry manifest, which knows no builds, under a Fedora name that comes
\* later in the alphabet, or below the first one on Zorin's page.
RespinUnseen(i) ==
  /\ Release(i).version = Version
  /\ \/ curated \/ 0 \in {Release(i).build, Release(installed).build}
     \/ provider = "fedora" \/ (provider = "zorin-os" /\ ~newestFirst)

\* Releases the code does not find or does not recognise as newer: Zorin's
\* without a dot, Pop!_OS's but 24.04, all but the first on Clonezilla's page,
\* and what a registry manifest makes of the first Vanilla OS.
Unseen(i) ==
  \/ provider = "zorin-os" /\ Len(Release(i).version.numbers) = 1
  \/ provider = "pop-os" /\ Release(i).version.numbers # PopRelease
  \/ provider = "clonezilla" /\ ~newestFirst
  \/ provider = "vanilla-os" /\ curated /\ Version.numbers[1] = 22

Behind(id) ==
  \E i \in Available : /\ i > installed /\ Line(id, Version) \in Variants(i)
                       /\ ~RespinUnseen(i) /\ ~Unseen(i)

\* A user who keeps scanning ends with the newest release of the variant,
\* through renamed forms, builds, pre-release texts and withdrawn releases, but
\* for what the code refuses, does not read and does not see.
EventuallyCurrent ==
  <>[](\/ provider # Declared.id /\ ~Reads(name.form, Version)
       \/ \E id \in Detected(name, Version) :
            Refused(id) \/ MisreadUbuntu(Version) \/ Dropped(id) \/ ~Behind(id))
=============================================================================
