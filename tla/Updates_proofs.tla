--------------------------- MODULE Updates_proofs ---------------------------
(***************************************************************************)
(* Proofs about module Updates, for any publishers' releases, any manifest *)
(* and any number of outages.                                              *)
(***************************************************************************)
EXTENDS Updates, Versions_proofs

-----------------------------------------------------------------------------
(* The tables *)

\* Of the bundled providers' rules, those of Clonezilla and of Vanilla OS are
\* the ones with their product.
Products(providers) ==
  \A p \in providers : \A r \in p.rules :
    /\ p.id = "clonezilla" <=> r.product = "clonezilla-live"
    /\ p.id = "vanilla-os" <=> r.product = "vanilla-os"

LEMMA Products1 == Products(ArchToAlmalinux)
BY DEF Products, ArchToAlmalinux, Provider, Rule

LEMMA Products2 == Products(UbuntuToDebian)
BY DEF Products, UbuntuToDebian, Provider, Rule

LEMMA Products3 == Products(FedoraToCachyos)
BY DEF Products, FedoraToCachyos, Provider, Rule

LEMMA Products4 == Products(ClonezillaToGparted)
BY DEF Products, ClonezillaToGparted, Provider, Rule

LEMMA Products5 == Products(KaliToQubes)
BY DEF Products, KaliToQubes, Provider, Rule

LEMMA Products6 == Products(ProxmoxToMemtest)
BY DEF Products, ProxmoxToMemtest, Provider, Rule

LEMMA Products7 == Products(VanillaToZorin)
PROOF
<1> SUFFICES ASSUME NEW p \in VanillaToZorin, NEW r \in p.rules
             PROVE  /\ p.id = "clonezilla" <=> r.product = "clonezilla-live"
                    /\ p.id = "vanilla-os" <=> r.product = "vanilla-os"
  BY DEF Products
<1>1. CASE p = Windows11
  BY <1>1 DEF Windows11, Provider, Rule
<1>2. CASE p # Windows11
  BY <1>2 DEF VanillaToZorin, Provider, Rule
<1> QED
  BY <1>1, <1>2

LEMMA BuiltinProducts == Products(BuiltinProviders)
BY Products1, Products2, Products3, Products4, Products5, Products6, Products7
DEF Products, BuiltinProviders

\* Clonezilla's two editions have a form each.
LEMMA ClonezillaForms ==
  ASSUME NEW p \in BuiltinProviders, p.id = "clonezilla", NEW r \in p.rules
  PROVE  \/ r.form = "clonezilla" /\ r.editions = {"debian"}
         \/ r.form = "clonezilla-alternative" /\ r.editions = {"ubuntu"}
PROOF
<1>1. p \in ClonezillaToGparted
  <2>1. p \notin ArchToAlmalinux /\ p \notin UbuntuToDebian
    BY DEF ArchToAlmalinux, UbuntuToDebian, Provider
  <2>2. p \notin FedoraToCachyos
    BY DEF FedoraToCachyos, Provider
  <2>3. p \notin KaliToQubes
    BY DEF KaliToQubes, Provider
  <2>4. p \notin ProxmoxToMemtest
    BY DEF ProxmoxToMemtest, Provider
  <2>5. p \notin VanillaToZorin
    <3>1. Windows11.id = "windows-11"
      BY DEF Windows11, Provider
    <3> QED
      BY <3>1 DEF VanillaToZorin, Provider
  <2> QED
    BY <2>1, <2>2, <2>3, <2>4, <2>5 DEF BuiltinProviders
<1> QED
  BY <1>1 DEF ClonezillaToGparted, Provider, Rule

\* The publishers resolve_release knows are bundled providers.
LEMMA ResolvedAreBundled ==
  ASSUME NEW id, ResolveRelease(id) # {}
  PROVE  \E p \in BuiltinProviders : p.id = id.provider
PROOF
<1>1. id.provider \in {"arch", "alpine", "rocky-linux", "almalinux"}
        => \E p \in ArchToAlmalinux : p.id = id.provider
  BY DEF ArchToAlmalinux, Provider
<1>2. id.provider \in {"ubuntu", "debian"} => \E p \in UbuntuToDebian : p.id = id.provider
  BY DEF UbuntuToDebian, Provider
<1>3. id.provider \in {"fedora", "linux-mint", "endeavouros", "cachyos"}
        => \E p \in FedoraToCachyos : p.id = id.provider
  BY DEF FedoraToCachyos, Provider
<1>4. id.provider \in {"clonezilla", "gparted-live", "omarchy", "manjaro", "pop-os"}
        => \E p \in ClonezillaToGparted : p.id = id.provider
  BY DEF ClonezillaToGparted, Provider
<1>5. id.provider \in {"kali-linux", "nixos", "systemrescue", "opensuse-tumbleweed", "freebsd"}
        => \E p \in KaliToQubes : p.id = id.provider
  BY DEF KaliToQubes, Provider
<1>6. id.provider \in {"proxmox", "rescuezilla"} => \E p \in ProxmoxToMemtest : p.id = id.provider
  BY DEF ProxmoxToMemtest, Provider
<1>7. id.provider \in {"vanilla-os", "zorin-os"} => \E p \in VanillaToZorin : p.id = id.provider
  BY DEF VanillaToZorin, Provider
<1>8. \/ id.provider \in {"arch", "alpine", "rocky-linux", "almalinux"}
      \/ id.provider \in {"ubuntu", "debian"}
      \/ id.provider \in {"fedora", "linux-mint", "endeavouros", "cachyos"}
      \/ id.provider \in {"clonezilla", "gparted-live", "omarchy", "manjaro", "pop-os"}
      \/ id.provider \in {"kali-linux", "nixos", "systemrescue", "opensuse-tumbleweed", "freebsd"}
      \/ id.provider \in {"proxmox", "rescuezilla"}
      \/ id.provider \in {"vanilla-os", "zorin-os"}
  BY DEF ResolveRelease
<1> QED
  BY <1>1, <1>2, <1>3, <1>4, <1>5, <1>6, <1>7, <1>8 DEF BuiltinProviders
-----------------------------------------------------------------------------
(* One update *)

LEMMA BundledProvider ==
  ASSUME NEW id \in ProviderIds, id # Declared.id
  PROVE  Providers[id] \in BuiltinProviders /\ Providers[id].id = id
BY DEF Providers, ProviderIds

\* Who identified the name is who is asked for the release, and its rules say
\* which product that is.
LEMMA OfOneProduct ==
  ASSUME provider \in ProviderIds, provider # Declared.id, NEW n, NEW version,
         NEW id \in Detected(n, version), Accepted(id) # {}
  PROVE  \E p \in BuiltinProviders : \E r \in p.rules :
           /\ id = Identity(p, r, n) /\ n \in Names(r) /\ r.form = n.form
           /\ \E s \in Providers[provider].rules : s.product = r.product
PROOF
<1>1. ResolveRelease(id) # {} /\ \E s \in Providers[provider].rules : s.product = id.product
  BY DEF Accepted, Resolve
<1>2. id.provider # Declared.id
  BY <1>1, ResolvedAreBundled, UpdatesAssumption
<1>3. id \notin Detect(Declared, n)
  BY <1>2 DEF Detect, RuleIdentity
<1>4. PICK p \in BuiltinProviders : \E r \in p.rules :
        id = Identity(p, r, n) /\ n \in Names(r) /\ r.form = n.form
  BY <1>3 DEF Detected, Identities
<1>5. PICK r \in p.rules : id = Identity(p, r, n) /\ n \in Names(r) /\ r.form = n.form
  BY <1>4
<1>6. id.product = r.product
  BY <1>5 DEF Identity
<1> QED
  BY <1>1, <1>5, <1>6

LEMMA VanillaOffers ==
  ASSUME provider \in ProviderIds, NEW n, NEW version, NEW id \in Detected(n, version),
         id.provider = "vanilla-os" \/ provider = "vanilla-os", NEW offered \in Accepted(id)
  PROVE  provider = "vanilla-os" /\ offered.form = "vanilla-os"
PROOF
<1>1. provider # Declared.id
  <2>1. "vanilla-os" # Declared.id
    <3>1. \E p \in VanillaToZorin : p.id = "vanilla-os"
      BY DEF VanillaToZorin, Provider
    <3> QED
      BY <3>1, UpdatesAssumption DEF BuiltinProviders
  <2> QED
    BY <2>1 DEF Accepted, ResolveManifest
<1>2. PICK p \in BuiltinProviders : \E r \in p.rules :
        /\ id = Identity(p, r, n)
        /\ \E s \in Providers[provider].rules : s.product = r.product
  BY <1>1, OfOneProduct
<1>3. PICK r \in p.rules : /\ id = Identity(p, r, n)
                           /\ \E s \in Providers[provider].rules : s.product = r.product
  BY <1>2
<1>4. id.provider = p.id
  BY <1>3 DEF Identity
<1>5. provider = "vanilla-os" /\ id.provider = "vanilla-os"
  BY <1>1, <1>3, <1>4, BuiltinProducts, BundledProvider DEF Products
<1>6. offered \in VanillaOS(id)
  BY <1>1, <1>5 DEF Accepted, Resolve, ResolveRelease
<1> QED
  BY <1>5, <1>6 DEF VanillaOS, Plain, Named

LEMMA ClonezillaOffers ==
  ASSUME provider = "clonezilla", NEW n, NEW version, NEW id \in Detected(n, version),
         NEW offered \in Accepted(id)
  PROVE  offered.form = "clonezilla-alternative" <=> n.form = "clonezilla-alternative"
PROOF
<1>1. provider \in ProviderIds /\ provider # Declared.id
  <2>1. \E p \in ClonezillaToGparted : p.id = "clonezilla"
    BY DEF ClonezillaToGparted, Provider
  <2> QED
    BY <2>1, UpdatesAssumption DEF BuiltinProviders, ProviderIds
<1>2. PICK p \in BuiltinProviders : \E r \in p.rules :
        /\ id = Identity(p, r, n) /\ n \in Names(r) /\ r.form = n.form
        /\ \E s \in Providers[provider].rules : s.product = r.product
  BY <1>1, OfOneProduct
<1>3. PICK r \in p.rules :
        /\ id = Identity(p, r, n) /\ n \in Names(r) /\ r.form = n.form
        /\ \E s \in Providers[provider].rules : s.product = r.product
  BY <1>2
<1>4. p.id = "clonezilla"
  BY <1>1, <1>3, BuiltinProducts, BundledProvider DEF Products
<1>5. id.provider = "clonezilla" /\ id.edition = n.edition /\ n.edition \in r.editions
  BY <1>3, <1>4 DEF Identity, Names
<1>6. n.form = "clonezilla-alternative" <=> id.edition # "debian"
  BY <1>3, <1>4, <1>5, ClonezillaForms
<1>7. offered \in Clonezilla(id)
  BY <1>1, <1>5 DEF Accepted, Resolve, ResolveRelease
<1> QED
  BY <1>6, <1>7 DEF Clonezilla, Offer, Plain, Named
-----------------------------------------------------------------------------
(* The feeds *)

FeedId == IF provider = "clonezilla" /\ name.form = "clonezilla-alternative" THEN name.form ELSE provider

LEMMA FeedTypes ==
  ASSUME provider \in ProviderIds
  PROVE  /\ Feed = Feeds[FeedId] /\ FeedId \in FeedIds
         /\ Len(Feed) \in Nat \ {0} /\ DOMAIN Feed = 1..Len(Feed)
         /\ \A i \in 1..Len(Feed) :
              Feed[i] \in [version : KnownVersions, build : Nat, lacks : SUBSET STRING]
PROOF
<1> DEFINE R == [version : KnownVersions, build : Nat, lacks : SUBSET STRING]
<1>1. Feed = Feeds[FeedId] /\ FeedId \in FeedIds
  BY DEF Feed, FeedId, FeedIds, ProviderIds
<1>2. Feed \in Seq(R) /\ Feed # <<>>
  BY <1>1, FeedAssumption
<1> HIDE DEF R
<1>3. Len(Feed) \in Nat \ {0} /\ DOMAIN Feed = 1..Len(Feed) /\ \A i \in 1..Len(Feed) : Feed[i] \in R
  BY <1>2, EmptySeq, LenProperties, ElementOfSeq
<1> QED
  BY <1>1, <1>3 DEF R

\* What an update does, in the terms of its candidates.
LEMMA UpdateMeans ==
  ASSUME Update
  PROVE  /\ UNCHANGED <<provider, curated, publisher, others, hosts>>
         /\ \E id \in Detected(name, Release(installed).version) : \E i \in Available :
              /\ name' \in Accepted(id) /\ name' \in Published(i) /\ installed' = i
              /\ IsNewer(id, curated, Release(i), Release(installed))
              /\ Accepted(id) \cap Published(i) # {}
              /\ id.provider = "ubuntu" => UbuntuRelease(id.channel, Release(i).version)
              /\ provider # Declared.id => ResolverReads(name'.form, Release(i).version)
PROOF
<1>1. PICK id \in Detected(name, Release(installed).version) :
        \E i \in Newest(id, Accepted(id)) :
          /\ IsNewer(id, curated, Release(i), Release(installed))
          /\ name' \in Accepted(id) \cap Published(i) /\ installed' = i
  BY DEF Update
<1>2. PICK i \in Newest(id, Accepted(id)) :
        /\ IsNewer(id, curated, Release(i), Release(installed))
        /\ name' \in Accepted(id) \cap Published(i) /\ installed' = i
  BY <1>1
<1>3. i \in Listed(id, Accepted(id))
  BY <1>2 DEF Newest
<1>4. /\ i \in Available /\ (id.provider = "ubuntu" => UbuntuRelease(id.channel, Release(i).version))
      /\ \A n \in Accepted(id) : provider = Declared.id \/ ResolverReads(n.form, Release(i).version)
  BY <1>3 DEF Listed
<1> QED
  BY <1>2, <1>4 DEF Update
-----------------------------------------------------------------------------
(* Types *)

LEMMA OneAndMore ==
  ASSUME NEW n \in Nat
  PROVE  Max({1, n}) = IF n = 0 THEN 1 ELSE n
BY DEF Max

LEMMA InitTypes == Init => TypeOK
PROOF
<1> SUFFICES ASSUME Init PROVE TypeOK
  OBVIOUS
<1>1. Len(Feed) \in Nat \ {0} /\ installed \in 0..Len(Feed)
  BY FeedTypes DEF Init
<1>2. released = IF installed = 0 THEN 1 ELSE installed
  BY <1>1, OneAndMore DEF Init
<1>3. released \in 1..Len(Feed) /\ installed \in 0..released
  BY <1>1, <1>2
<1>4. withdrawn = {} /\ Available # {}
  <2>1. withdrawn = {} /\ 1 \in 1..released
    BY <1>1, <1>3 DEF Init
  <2> QED
    BY <2>1 DEF Available
<1>5. curated \in BOOLEAN /\ newestFirst \in BOOLEAN
  BY DEF Init
<1>6. others \in {{}, OtherNames} /\ down \subseteq Nat /\ outages \in 0..MaxOutages
  BY UpdatesAssumption DEF Init
<1> QED
  BY <1>3, <1>4, <1>5, <1>6 DEF Init, TypeOK

\* What replaces a file is in the same line of releases.
LEMMA UpdateFeed == Update => Feed' = Feed
PROOF
<1> SUFFICES ASSUME Update PROVE Feed' = Feed
  OBVIOUS
<1>1. PICK id \in Detected(name, Release(installed).version) : name' \in Accepted(id)
  BY UpdateMeans
<1>2. provider' = provider
  BY UpdateMeans
<1>3. provider = "clonezilla" =>
        (name'.form = "clonezilla-alternative" <=> name.form = "clonezilla-alternative")
  BY <1>1, ClonezillaOffers
<1> QED
  BY <1>2, <1>3 DEF Feed

LEMMA TypeStep == TypeOK /\ [Next]_vars => TypeOK'
PROOF
<1> SUFFICES ASSUME TypeOK, [Next]_vars PROVE TypeOK'
  OBVIOUS
<1>t. /\ provider \in ProviderIds /\ Len(Feed) \in Nat \ {0} /\ released \in 1..Len(Feed)
      /\ released \in Nat
  BY FeedTypes DEF TypeOK
<1>1. CASE Update
  <2>1. PICK id \in Detected(name, Release(installed).version) : \E i \in Available :
          name' \in Accepted(id) /\ name' \in Published(i) /\ installed' = i
    BY <1>1, UpdateMeans
  <2>2. PICK i \in Available : name' \in Accepted(id) /\ name' \in Published(i) /\ installed' = i
    BY <2>1
  <2>3. UNCHANGED <<provider, curated, released, withdrawn, newestFirst, others, down, outages>>
    BY <1>1 DEF Update, publisher, hosts
  <2>4. name' \in AllNames /\ installed' \in 0..released
    BY <2>2, <1>t DEF Published, Available
  <2>5. Feed' = Feed
    BY <1>1, UpdateFeed
  <2> QED
    BY <2>3, <2>4, <2>5 DEF TypeOK, AllNames, Available
<1>2. CASE Publish
  <2>1. /\ released' = released + 1 /\ released < Len(Feed)
        /\ UNCHANGED <<provider, curated, name, installed, withdrawn, newestFirst, others, down,
                       outages>>
    BY <1>2 DEF Publish, hosts
  <2>2. Feed' = Feed /\ AllNames' = AllNames
    BY <2>1 DEF Feed, AllNames
  <2>3. released' \in 1..Len(Feed) /\ 0..released \subseteq 0..released' /\ 1..released \subseteq 1..released'
    BY <2>1, <1>t
  <2>4. Available \subseteq Available'
    BY <2>1, <2>3 DEF Available
  <2> QED
    BY <2>1, <2>2, <2>3, <2>4 DEF TypeOK
<1>3. CASE Withdraw
  <2>1. PICK i \in Available : Available # {i} /\ withdrawn' = withdrawn \cup {i}
    BY <1>3 DEF Withdraw
  <2>2. UNCHANGED <<provider, curated, name, installed, released, newestFirst, others, down, outages>>
    BY <1>3 DEF Withdraw, hosts
  <2>3. Feed' = Feed /\ AllNames' = AllNames /\ Available' = Available \ {i}
    BY <2>1, <2>2 DEF Feed, AllNames, Available
  <2>4. withdrawn' \subseteq 1..released
    BY <2>1 DEF TypeOK, Available
  <2> QED
    BY <2>1, <2>2, <2>3, <2>4 DEF TypeOK
<1>4. CASE GoesDown \/ ComesBack \/ RemoveOthers
  <2>1. UNCHANGED <<provider, curated, name, installed, released, withdrawn, newestFirst>>
    BY <1>4 DEF GoesDown, ComesBack, RemoveOthers, publisher
  <2>2. Feed' = Feed /\ AllNames' = AllNames /\ Available' = Available
    BY <2>1 DEF Feed, AllNames, Available
  <2>3. others' \in {{}, OtherNames} /\ down' \subseteq Nat /\ outages' \in 0..MaxOutages
    <3>1. CASE GoesDown
      <4>1. PICK i \in Nat : down' = down \cup {i}
        BY <3>1, UpdatesAssumption DEF GoesDown
      <4>2. outages' \in 0..MaxOutages /\ others' = others
        BY <3>1, UpdatesAssumption DEF GoesDown, TypeOK
      <4> QED
        BY <4>1, <4>2 DEF TypeOK
    <3>2. CASE ComesBack \/ RemoveOthers
      BY <3>2 DEF ComesBack, RemoveOthers, hosts, TypeOK
    <3> QED
      BY <1>4, <3>1, <3>2
  <2> QED
    BY <2>1, <2>2, <2>3 DEF TypeOK
<1>5. CASE UNCHANGED vars
  BY <1>5 DEF vars, publisher, hosts, TypeOK, Feed, AllNames, Available
<1> QED
  BY <1>1, <1>2, <1>3, <1>4, <1>5 DEF Next

\* The ISO is always a file of its provider's family, of a release that is
\* out, and what a publisher offers instead is in the same line of releases.
THEOREM UpdatesTypeCorrect == Spec => []TypeOK
BY InitTypes, TypeStep, PTL DEF Spec
-----------------------------------------------------------------------------
(* No update goes back *)

\* A release of Vanilla OS that is listed for an update has the new name.
LEMMA VanillaListed ==
  ASSUME provider \in ProviderIds, NEW n, NEW version, NEW id \in Detected(n, version),
         id.provider = "vanilla-os" \/ provider = "vanilla-os",
         NEW i, Accepted(id) \cap Published(i) # {}
  PROVE  provider = "vanilla-os" /\ Release(i).version.numbers[1] # 22
PROOF
<1>1. PICK offered \in Accepted(id) : InUse(offered, Release(i).version)
  BY DEF Published
<1>2. provider = "vanilla-os" /\ offered.form = "vanilla-os"
  BY VanillaOffers
<1> QED
  BY <1>1, <1>2 DEF InUse

\* What is newer follows: neither an earlier release nor the same one is.
LEMMA NewerFollows ==
  ASSUME TypeOK, NEW n, NEW version, NEW id \in Detected(n, version), NEW i \in Available,
         Accepted(id) \cap Published(i) # {},
         IsNewer(id, curated, Release(i), Release(installed))
  PROVE  i > installed
PROOF
<1> DEFINE new == Feed[i]
           old == Feed[installed]
<1>1. /\ provider \in ProviderIds /\ Len(Feed) \in Nat \ {0} /\ released \in 1..Len(Feed)
      /\ i \in 1..Len(Feed) /\ installed \in 0..Len(Feed) /\ Release(i) = new
      /\ FeedId \in FeedIds /\ Feed = Feeds[FeedId] /\ DOMAIN Feed = 1..Len(Feed)
  BY FeedTypes DEF TypeOK, Available, Release
<1> SUFFICES ASSUME ~(i > installed) PROVE FALSE
  OBVIOUS
<1>2. installed \in 1..Len(Feed) /\ i \in 1..installed /\ Release(installed) = old
  BY <1>1 DEF Release
<1>3. /\ new.version \in KnownVersions /\ new.build \in Nat
      /\ old.version \in KnownVersions /\ old.build \in Nat
  BY <1>1, <1>2, FeedTypes
<1>4. new = old \/ Follows(FeedId, old, new)
  <2>1. CASE i = installed
    BY <2>1
  <2>2. CASE i # installed
    <3>1. i \in 1..installed - 1
      BY <1>2, <2>2
    <3> QED
      BY <1>1, <1>2, <3>1, FeedAssumption
  <2> QED
    BY <2>1, <2>2
<1>5. /\ provider = "vanilla-os" \/ id.provider = "vanilla-os" => FeedId = "vanilla-os"
      /\ FeedId = "vanilla-os" => new.version.numbers[1] # 22
  BY <1>1, VanillaListed DEF FeedId
<1> HIDE DEF new, old
<1>6. /\ ~(id.provider = "vanilla-os" /\ old.version.numbers[1] = 22)
      /\ \/ NewerVersion(old.version, new.version)
         \/ /\ old.version = new.version
            /\ old.build >= new.build \/ 0 \in {old.build, new.build}
  BY <1>4, <1>5, <1>3 DEF Follows
<1>7. ~NewerVersion(new.version, old.version)
  BY <1>3, <1>6, NewerIsAsymmetric
<1>8. ~(new.version = old.version /\ new.build # 0 /\ old.build # 0 /\ new.build > old.build)
  BY <1>3, <1>6, NewerIsAsymmetric
<1> QED
  BY <1>1, <1>2, <1>6, <1>7, <1>8 DEF IsNewer

\* Whatever a publisher releases in the order of its versions, and takes back,
\* no update installs the release the ISO is of, or an earlier one
\* (Provider.is_newer, FilenameProvider.is_newer, models.is_newer_version).
THEOREM UpdatesNeverGoBack == Spec => NeverOlder
PROOF
<1> DEFINE Forward == installed' # installed => installed' > installed
<1>1. TypeOK /\ [Next]_vars => [Forward]_vars
  <2> SUFFICES ASSUME TypeOK, Next, installed' # installed PROVE installed' > installed
    OBVIOUS
  <2>1. CASE Update
    <3>1. PICK id \in Detected(name, Release(installed).version) : \E i \in Available :
            /\ installed' = i /\ Accepted(id) \cap Published(i) # {}
            /\ IsNewer(id, curated, Release(i), Release(installed))
      BY <2>1, UpdateMeans
    <3> QED
      BY <3>1, NewerFollows
  <2>2. CASE ~Update
    BY <2>2 DEF Next, Publish, Withdraw, GoesDown, ComesBack, RemoveOthers
  <2> QED
    BY <2>1, <2>2
<1> QED
  BY <1>1, InitTypes, TypeStep, PTL DEF Spec, NeverOlder
-----------------------------------------------------------------------------
(* Each form is one rule's *)

Forms1 == {"arch", "alpine", "rocky", "rocky-latest", "alma", "alma-latest"}
Forms2 == {"ubuntu", "debian", "debian-live"}
Forms3 == {"fedora-41", "fedora", "fedora-server", "silverblue", "mint", "endeavouros",
           "cachyos", "cachyos-kde"}
Forms4 == {"clonezilla", "clonezilla-alternative", "omarchy", "manjaro-rc", "manjaro", "pop-os",
           "nobara", "gparted-live"}
Forms5 == {"kali", "nixos-plasma5", "nixos", "systemrescue", "tumbleweed", "tumbleweed-current",
           "freebsd", "grml", "qubes-os"}
Forms6 == {"proxmox-ve", "proxmox-backup-server", "proxmox-mail-gateway",
           "proxmox-datacenter-manager", "rescuezilla", "tails", "memtest"}
Forms7 == {"vanilla-os", "vanilla-22-all", "vanilla-22", "de-de", "en-us", "en-gb", "zorin-os"}

\* Rules of one form stand for the same variants, but for Ubuntu's two.
Alike(providers, forms) ==
  \A p \in providers : \A r \in p.rules :
    /\ r.form \in forms
    /\ \A q \in providers : \A s \in q.rules :
         s.form = r.form =>
           /\ p.id = q.id /\ s.product = r.product /\ s.language = r.language
           /\ s.channel = r.channel \/ r.form = "ubuntu"

LEMMA Alike1 == Alike(ArchToAlmalinux, Forms1)
BY DEF Alike, Forms1, ArchToAlmalinux, Provider, Rule

LEMMA Alike2 == Alike(UbuntuToDebian, Forms2)
BY DEF Alike, Forms2, UbuntuToDebian, Provider, Rule

LEMMA Alike3 == Alike(FedoraToCachyos, Forms3)
BY DEF Alike, Forms3, FedoraToCachyos, Provider, Rule

LEMMA Alike4 == Alike(ClonezillaToGparted, Forms4)
BY DEF Alike, Forms4, ClonezillaToGparted, Provider, Rule

LEMMA Alike5 == Alike(KaliToQubes, Forms5)
BY DEF Alike, Forms5, KaliToQubes, Provider, Rule

LEMMA Alike6 == Alike(ProxmoxToMemtest, Forms6)
BY DEF Alike, Forms6, ProxmoxToMemtest, Provider, Rule

LEMMA Alike7 == Alike(VanillaToZorin, Forms7)
PROOF
<1> DEFINE Plainly == VanillaToZorin \ {Windows11}
<1>1. Windows11.id = "windows-11" /\ \A r \in Windows11.rules :
        /\ r.form \in {"de-de", "en-us", "en-gb"} /\ r.product = "windows-11"
        /\ r.language = r.form /\ r.channel = "stable"
  BY DEF Windows11, Provider, Rule
<1>2. \A p \in Plainly : p.id # "windows-11" /\ \A r \in p.rules :
        /\ r.form \in {"vanilla-os", "vanilla-22-all", "vanilla-22", "zorin-os"}
        /\ r.channel = "stable" /\ r.language = None
        /\ p.id = r.product /\ (r.form = "zorin-os" <=> p.id = "zorin-os")
        /\ p.id \in {"vanilla-os", "zorin-os"}
  BY <1>1 DEF VanillaToZorin, Provider, Rule
<1>3. \A p \in VanillaToZorin : p = Windows11 \/ p \in Plainly
  OBVIOUS
<1> HIDE DEF Plainly
<1> QED
  BY <1>1, <1>2, <1>3 DEF Alike, Forms7

\* Of two sets of providers without a form in common.
LEMMA AlikeTogether ==
  ASSUME NEW P, NEW Q, NEW F, NEW G, Alike(P, F), Alike(Q, G), \A f \in F : f \notin G
  PROVE  Alike(P \cup Q, F \cup G)
BY DEF Alike

BuiltinForms ==
  ((((((Forms1 \cup Forms2) \cup Forms3) \cup Forms4) \cup Forms5) \cup Forms6) \cup Forms7)

LEMMA BuiltinsAlike == Alike(BuiltinProviders, BuiltinForms)
PROOF
<1> DEFINE P2 == ArchToAlmalinux \cup UbuntuToDebian
           P3 == P2 \cup FedoraToCachyos
           P4 == P3 \cup ClonezillaToGparted
           P5 == P4 \cup KaliToQubes
           P6 == P5 \cup ProxmoxToMemtest
           F2 == Forms1 \cup Forms2
           F3 == F2 \cup Forms3
           F4 == F3 \cup Forms4
           F5 == F4 \cup Forms5
           F6 == F5 \cup Forms6
<1>1. Alike(P2, F2)
  BY Alike1, Alike2, AlikeTogether DEF Forms1, Forms2
<1>2. Alike(P3, F3)
  BY <1>1, Alike3, AlikeTogether DEF Forms1, Forms2, Forms3
<1>3. Alike(P4, F4)
  BY <1>2, Alike4, AlikeTogether DEF Forms1, Forms2, Forms3, Forms4
<1>4. Alike(P5, F5)
  BY <1>3, Alike5, AlikeTogether DEF Forms1, Forms2, Forms3, Forms4, Forms5
<1>5. Alike(P6, F6)
  BY <1>4, Alike6, AlikeTogether DEF Forms1, Forms2, Forms3, Forms4, Forms5, Forms6
<1>6. Alike(P6 \cup VanillaToZorin, F6 \cup Forms7)
  BY <1>5, Alike7, AlikeTogether DEF Forms1, Forms2, Forms3, Forms4, Forms5, Forms6, Forms7
<1>7. P6 \cup VanillaToZorin = BuiltinProviders
  BY DEF BuiltinProviders
<1> QED
  BY <1>6, <1>7 DEF BuiltinForms

-----------------------------------------------------------------------------
(* What resolvers offer is the same variant *)

\* Equal but for what Line leaves out of both.
SameButNames(new, id) ==
  /\ new.provider = id.provider /\ new.product = id.product
  /\ new.channel = id.channel \/ id.provider = "ubuntu"
  /\ new.arch = id.arch /\ new.language = id.language
  /\ \/ new.flavor = id.flavor
     \/ new.flavor = None /\ id.flavor \in {"latest-alias", "plasma5"}
  /\ \/ new.edition = id.edition
     \/ id.provider = "fedora" /\ {new.edition, id.edition} = {"kde", "kde-desktop"}

Flavorless ==
  {"arch", "alpine", "ubuntu", "endeavouros", "clonezilla", "opensuse-tumbleweed", "freebsd",
   "omarchy", "pop-os", "proxmox", "vanilla-os", "zorin-os"}
OfMajors == {"rocky-linux", "almalinux"}

\* What resolvers make of an identity's parts.
OfferedFor(m, id) ==
  /\ \/ m.edition = id.edition
     \/ id.provider = "fedora" /\ {m.edition, id.edition} = {"kde", "kde-desktop"}
  /\ \/ m.arch = id.arch
     \/ id.provider = "vanilla-os" /\ id.arch \notin BothAMD
     \/ id.provider = "zorin-os" /\ m.arch = "64-bit"
  /\ \/ m.flavor = id.flavor
     \/ m.flavor = None /\ (id.provider \in Flavorless \/ id.flavor \in {"latest-alias", "plasma5"})
  /\ id.provider \in OfMajors => m.major = id.channel
  /\ id.provider = "manjaro" => m.form = "manjaro" /\ id.channel = "stable"
  /\ id.provider = "proxmox" => m.form = id.product
  /\ id.provider # "windows-11"

LEMMA ResolversKeep ==
  ASSUME NEW id, NEW m \in ResolveRelease(id)
  PROVE  OfferedFor(m, id)
PROOF
<1> USE DEF OfferedFor, Flavorless, OfMajors, Offer, Plain, Named
<1>1. CASE id.provider \in {"arch", "alpine", "ubuntu", "endeavouros", "clonezilla", "omarchy"}
  BY <1>1 DEF ResolveRelease, Arch, Alpine, Ubuntu, Endeavouros, Clonezilla, Omarchy
<1>2. CASE id.provider \in {"opensuse-tumbleweed", "freebsd", "pop-os", "proxmox"}
  BY <1>2 DEF ResolveRelease, OpensuseTumbleweed, Freebsd, PopOS, Proxmox
<1>3. CASE id.provider \in {"vanilla-os", "zorin-os"}
  BY <1>3 DEF ResolveRelease, VanillaOS, ZorinOS, BothAMD
<1>4. CASE id.provider \in OfMajors
  BY <1>4 DEF ResolveRelease, RockyLinux, Almalinux, EnterpriseLinux
<1>5. CASE id.provider = "fedora"
  BY <1>5 DEF ResolveRelease, Fedora
<1>6. CASE id.provider \in {"debian", "manjaro", "rescuezilla"}
  BY <1>6 DEF ResolveRelease, Debian, Manjaro, Rescuezilla
<1>7. CASE id.provider \in {"linux-mint", "cachyos", "gparted-live", "kali-linux"}
  BY <1>7 DEF ResolveRelease, LinuxMint, Cachyos, GpartedLive, KaliLinux
<1>8. CASE id.provider \in {"nixos", "systemrescue"}
  BY <1>8 DEF ResolveRelease, Nixos, Systemrescue
<1> QED
  BY <1>1, <1>2, <1>3, <1>4, <1>5, <1>6, <1>7, <1>8 DEF ResolveRelease

UbuntuRules ==
  {Rule("ubuntu", "ubuntu", channel, UbuntuEditions, Absent, BothAMD) : channel \in {"lts", "interim"}}

\* What a provider's rules have in common.
Regular(providers) ==
  \A p \in providers :
    /\ p.id \in Flavorless => p.flavors = {}
    /\ p.id = "vanilla-os" => p.archs = BothAMD
    /\ p.id = "zorin-os" => p.archs = PC
    /\ p.id = "ubuntu" => p.rules = UbuntuRules
    /\ \A r \in p.rules :
         /\ r.form = "ubuntu" <=> p.id = "ubuntu"
         /\ r.channel = Major => p.id \in OfMajors
         /\ p.id = "proxmox" => r.form = r.product
         /\ p.id = "manjaro" /\ r.form = "manjaro" => r.channel = "stable"
         /\ \A s \in p.rules :
              /\ s.language = r.language \/ p.id = "windows-11"
              /\ s.product = r.product \/ p.id = "proxmox"
              /\ s.channel = r.channel \/ p.id \in {"ubuntu", "manjaro"}

LEMMA Regular1 == Regular(ArchToAlmalinux)
BY DEF Regular, Flavorless, OfMajors, ArchToAlmalinux, Provider, Rule, Major

LEMMA Regular2 == Regular(UbuntuToDebian)
BY DEF Regular, Flavorless, OfMajors, UbuntuRules, UbuntuToDebian, Provider, Rule, Major

LEMMA Regular3 == Regular(FedoraToCachyos)
BY DEF Regular, Flavorless, OfMajors, FedoraToCachyos, Provider, Rule, Major

LEMMA Regular4 == Regular(ClonezillaToGparted)
BY DEF Regular, Flavorless, OfMajors, ClonezillaToGparted, Provider, Rule, Major

LEMMA Regular5 == Regular(KaliToQubes)
BY DEF Regular, Flavorless, OfMajors, KaliToQubes, Provider, Rule, Major

LEMMA Regular6 == Regular(ProxmoxToMemtest)
BY DEF Regular, Flavorless, OfMajors, ProxmoxToMemtest, Provider, Rule, Major

LEMMA Regular7 == Regular(VanillaToZorin)
PROOF
<1>1. Windows11.id = "windows-11" /\ \A r \in Windows11.rules :
        r.product = "windows-11" /\ r.channel = "stable" /\ r.form # "ubuntu"
  BY DEF Windows11, Provider, Rule
<1>2. Regular({Windows11})
  BY <1>1 DEF Regular, Flavorless, OfMajors, Major
<1>3. Regular(VanillaToZorin \ {Windows11})
  BY DEF Regular, Flavorless, OfMajors, VanillaToZorin, Provider, Rule, Major
<1> QED
  BY <1>2, <1>3 DEF Regular

LEMMA BuiltinsRegular == Regular(BuiltinProviders)
BY Regular1, Regular2, Regular3, Regular4, Regular5, Regular6, Regular7 DEF Regular, BuiltinProviders

\* An identity's parts are those of its rule and its name.
LEMMA Parts ==
  ASSUME NEW p, NEW r, NEW n \in Names(r)
  PROVE  LET id == Identity(p, r, n) IN
         /\ id.provider = p.id /\ id.product = r.product /\ id.edition = n.edition
         /\ id.flavor = n.flavor /\ id.arch = Architecture(n.arch) /\ id.language = r.language
         /\ id.channel = IF r.channel = Major THEN n.major ELSE r.channel
         /\ n.form = r.form
BY DEF Identity, Names

LEMMA ArchitectureTwice ==
  ASSUME NEW text
  PROVE  /\ Architecture(Architecture(text)) = Architecture(text)
         /\ Architecture("64-bit") = "x86_64"
BY DEF Architecture

LEMMA BuiltinsKeep ==
  ASSUME NEW p \in BuiltinProviders, NEW r \in p.rules, NEW s \in p.rules,
         NEW n \in Names(r), NEW m \in Names(s), m \in Resolve(p, Identity(p, r, n))
  PROVE  SameButNames(Identity(p, s, m), Identity(p, r, n))
PROOF
<1> DEFINE id == Identity(p, r, n)
           new == Identity(p, s, m)
<1>1. m \in ResolveRelease(id) /\ WithinCapabilities(p, id)
  BY DEF Resolve
<1>2. /\ id.provider = p.id /\ id.product = r.product /\ id.edition = n.edition
      /\ id.flavor = n.flavor /\ id.arch = Architecture(n.arch) /\ id.language = r.language
      /\ id.channel = IF r.channel = Major THEN n.major ELSE r.channel
  BY Parts
<1>3. /\ new.provider = p.id /\ new.product = s.product /\ new.edition = m.edition
      /\ new.flavor = m.flavor /\ new.arch = Architecture(m.arch) /\ new.language = s.language
      /\ new.channel = IF s.channel = Major THEN m.major ELSE s.channel
      /\ m.form = s.form
  BY Parts
<1> HIDE DEF id, new
<1>4. OfferedFor(m, id)
  BY <1>1, ResolversKeep
<1>5. new.product = id.product /\ new.language = id.language
  BY <1>2, <1>3, <1>4, BuiltinsRegular DEF OfferedFor, Regular
<1>6. new.arch = id.arch
  BY <1>1, <1>2, <1>3, <1>4, BuiltinsRegular, ArchitectureTwice
  DEF OfferedFor, Regular, WithinCapabilities, PC
<1>7. new.channel = id.channel \/ p.id = "ubuntu"
  BY <1>2, <1>3, <1>4, BuiltinsRegular DEF OfferedFor, Regular, OfMajors, Major
<1>8. \/ new.flavor = id.flavor
      \/ new.flavor = None /\ id.flavor \in {"latest-alias", "plasma5"}
  BY <1>1, <1>2, <1>3, <1>4, BuiltinsRegular DEF OfferedFor, Regular, WithinCapabilities
<1> QED
  BY <1>2, <1>3, <1>4, <1>5, <1>6, <1>7, <1>8 DEF SameButNames, OfferedFor, id, new

\* The name a provider of its own gives: every rule of the form agrees on it.
LEMMA OneIdentity ==
  ASSUME NEW p \in BuiltinProviders, p.id # "ubuntu", NEW r \in p.rules, NEW n \in Names(r),
         NEW version, Reads(n.form, version)
  PROVE  Identities(BuiltinProviders, n, version) = {Identity(p, r, n)}
PROOF
<1>0. n.form = r.form
  BY Parts
<1>1. \A q \in BuiltinProviders : \A s \in q.rules :
        s.form = n.form => Identity(q, s, n) = Identity(p, r, n) /\ s.form # "ubuntu"
  <2> SUFFICES ASSUME NEW q \in BuiltinProviders, NEW s \in q.rules, s.form = n.form
               PROVE  Identity(q, s, n) = Identity(p, r, n) /\ s.form # "ubuntu"
    OBVIOUS
  <2>1. /\ p.id = q.id /\ s.product = r.product /\ s.language = r.language
        /\ s.channel = r.channel \/ r.form = "ubuntu"
    BY <1>0, BuiltinsAlike DEF Alike
  <2>2. r.form # "ubuntu"
    BY BuiltinsRegular DEF Regular
  <2> QED
    BY <1>0, <2>1, <2>2 DEF Identity
<1>2. Fits(r, version)
  BY <1>0, <1>1 DEF Fits
<1>3. Identities(BuiltinProviders, n, version) \subseteq {Identity(p, r, n)}
  BY <1>1 DEF Identities
<1>4. Identity(p, r, n) \in Identities(BuiltinProviders, n, version)
  BY <1>0, <1>2 DEF Identities
<1> QED
  BY <1>3, <1>4

\* The same for every provider: Ubuntu's two rules share their names, and the
\* month tells which of them matches a version that one of them reads.
LEMMA OneRule ==
  ASSUME NEW p \in BuiltinProviders, NEW r \in p.rules, NEW n \in Names(r), NEW version,
         Reads(n.form, version)
  PROVE  \E s \in p.rules :
           /\ n \in Names(s) /\ Identities(BuiltinProviders, n, version) = {Identity(p, s, n)}
           /\ p.id = "ubuntu" => (s.channel = "lts" <=> version.numbers[2] = 4)
PROOF
<1>1. CASE p.id # "ubuntu"
  BY <1>1, OneIdentity
<1>2. CASE p.id = "ubuntu"
  <2> DEFINE ruleOf(channel) == Rule("ubuntu", "ubuntu", channel, UbuntuEditions, Absent, BothAMD)
             s == ruleOf(IF version.numbers[2] = 4 THEN "lts" ELSE "interim")
             other == ruleOf(IF version.numbers[2] = 4 THEN "interim" ELSE "lts")
  <2>1. p.rules = {s, other}
    BY <1>2, BuiltinsRegular DEF Regular, UbuntuRules
  <2>2. /\ s.form = "ubuntu" /\ s.channel = IF version.numbers[2] = 4 THEN "lts" ELSE "interim"
        /\ other.form = "ubuntu" /\ other.channel = IF version.numbers[2] = 4 THEN "interim" ELSE "lts"
        /\ Names(s) = Names(other)
    BY DEF Rule, Names, Major
  <2> HIDE DEF s, other
  <2>3. n \in Names(s) /\ n.form = "ubuntu"
    BY <2>1, <2>2, Parts
  <2>4. Fits(s, version) /\ ~Fits(other, version)
    BY <2>2, <2>3 DEF Fits
  <2>5. \A q \in BuiltinProviders : \A t \in q.rules :
          t.form = n.form /\ Fits(t, version) => Identity(q, t, n) = Identity(p, s, n)
    <3> SUFFICES ASSUME NEW q \in BuiltinProviders, NEW t \in q.rules, t.form = n.form,
                        Fits(t, version)
                 PROVE  Identity(q, t, n) = Identity(p, s, n)
      OBVIOUS
    <3>1. q.id = "ubuntu"
      BY <2>3, BuiltinsRegular DEF Regular
    <3>2. q.rules = p.rules
      BY <1>2, <3>1, BuiltinsRegular DEF Regular
    <3>3. t = s
      BY <2>1, <2>4, <3>2
    <3> QED
      BY <1>2, <3>1, <3>3 DEF Identity
  <2>6. Identities(BuiltinProviders, n, version) \subseteq {Identity(p, s, n)}
    BY <2>5 DEF Identities
  <2>7. Identity(p, s, n) \in Identities(BuiltinProviders, n, version)
    BY <2>1, <2>2, <2>3, <2>4 DEF Identities
  <2> QED
    BY <2>1, <2>2, <2>3, <2>6, <2>7
<1> QED
  BY <1>1, <1>2

LEMMA LineFields ==
  ASSUME NEW a, NEW b, NEW c, NEW d, NEW e, NEW f, NEW g, NEW version
  PROVE  LET id == [provider |-> a, product |-> b, edition |-> c, flavor |-> d, channel |-> e,
                    arch |-> f, language |-> g] IN
         Line(id, version) =
           [provider |-> a, product |-> b,
            edition |-> IF a = "fedora" /\ c = "kde" THEN "kde-desktop" ELSE c,
            flavor |-> IF d \in {"latest-alias", "plasma5"} THEN None ELSE d,
            channel |-> IF a # "ubuntu" THEN e
                        ELSE IF UbuntuRelease("lts", version) THEN "lts" ELSE "interim",
            arch |-> f, language |-> g]
PROOF
<1> DEFINE id == [provider |-> a, product |-> b, edition |-> c, flavor |-> d, channel |-> e,
                  arch |-> f, language |-> g]
           with(y, x, z) == [provider |-> a, product |-> b, edition |-> y, flavor |-> x,
                             channel |-> z, arch |-> f, language |-> g]
<1>1. \A x : [id EXCEPT !.flavor = x] = with(c, x, e)
  OBVIOUS
<1>2. \A x, y : [with(c, x, e) EXCEPT !.edition = y] = with(y, x, e)
  OBVIOUS
<1>3. \A x, y, z : [with(y, x, e) EXCEPT !.channel = z] = with(y, x, z)
  OBVIOUS
<1>4. \A x, y, z : [id EXCEPT !.flavor = x, !.edition = y, !.channel = z] = with(y, x, z)
  <2> SUFFICES ASSUME NEW x, NEW y, NEW z
               PROVE  [id EXCEPT !.flavor = x, !.edition = y, !.channel = z] = with(y, x, z)
    OBVIOUS
  <2> DEFINE one == [id EXCEPT !.flavor = x]
             two == [one EXCEPT !.edition = y]
  <2>1. one = with(c, x, e)
    BY <1>1
  <2>2. two = with(y, x, e)
    <3> HIDE DEF one, id
    <3>1. two = [with(c, x, e) EXCEPT !.edition = y]
      BY <2>1
    <3> QED
      BY <1>2, <3>1
  <2>3. [two EXCEPT !.channel = z] = with(y, x, z)
    <3> HIDE DEF two
    <3>1. [two EXCEPT !.channel = z] = [with(y, x, e) EXCEPT !.channel = z]
      BY <2>2
    <3> QED
      BY <1>3, <3>1
  <2> HIDE DEF id
  <2>4. [id EXCEPT !.flavor = x, !.edition = y, !.channel = z] = [two EXCEPT !.channel = z]
    OBVIOUS
  <2> QED
    BY <2>3, <2>4
<1>5. id.provider = a /\ id.edition = c /\ id.flavor = d /\ id.channel = e
  OBVIOUS
<1> DEFINE x == IF d \in {"latest-alias", "plasma5"} THEN None ELSE d
           y == IF a = "fedora" /\ c = "kde" THEN "kde-desktop" ELSE c
           z == IF a # "ubuntu" THEN e ELSE IF UbuntuRelease("lts", version) THEN "lts" ELSE "interim"
<1>6. Line(id, version) = [id EXCEPT !.flavor = x, !.edition = y, !.channel = z]
  BY <1>5 DEF Line
<1> HIDE DEF x, y, z, id
<1>7. Line(id, version) = with(y, x, z)
  BY <1>4, <1>6
<1> QED
  BY <1>7 DEF x, y, z, id

\* Line forgets what SameButNames leaves open.
LEMMA SameLine ==
  ASSUME NEW p, NEW r, NEW s, NEW n, NEW m, NEW v, NEW w,
         SameButNames(Identity(p, s, m), Identity(p, r, n)),
         p.id = "ubuntu" => (UbuntuRelease("lts", w) <=> UbuntuRelease("lts", v))
  PROVE  Line(Identity(p, s, m), w) = Line(Identity(p, r, n), v)
PROOF
<1> DEFINE id == Identity(p, r, n)
           new == Identity(p, s, m)
           fields(i, v0) ==
             [provider |-> i.provider, product |-> i.product,
              edition |-> IF i.provider = "fedora" /\ i.edition = "kde" THEN "kde-desktop" ELSE i.edition,
              flavor |-> IF i.flavor \in {"latest-alias", "plasma5"} THEN None ELSE i.flavor,
              channel |-> IF i.provider # "ubuntu" THEN i.channel
                          ELSE IF UbuntuRelease("lts", v0) THEN "lts" ELSE "interim",
              arch |-> i.arch, language |-> i.language]
<1>1. Line(id, v) = fields(id, v) /\ Line(new, w) = fields(new, w)
  BY LineFields DEF Identity
<1>2. new.provider = p.id
  BY DEF Identity
<1> HIDE DEF id, new
<1>3. fields(new, w) = fields(id, v)
  BY <1>2 DEF SameButNames, None, id, new
<1> QED
  BY <1>1, <1>3 DEF id, new
-----------------------------------------------------------------------------
(* The file that replaces another is the same variant *)

\* No rule of the manifest takes a bundled provider's file for its own.
DeclaredApart ==
  \A p \in BuiltinProviders : \A r \in p.rules : \A n \in Names(r) : Detect(Declared, n) = {}

LEMMA NamesAreRules ==
  ASSUME provider \in ProviderIds, provider # Declared.id, NEW n \in AllNames
  PROVE  \E r \in Providers[provider].rules : n \in Names(r)
BY DEF AllNames, NamesOf

\* Who identifies a bundled provider's file, if its version is read at all.
LEMMA DetectedAs ==
  ASSUME DeclaredApart, provider \in ProviderIds, provider # Declared.id, NEW n \in AllNames,
         NEW version, Reads(n.form, version)
  PROVE  \E r \in Providers[provider].rules :
           /\ n \in Names(r) /\ Detected(n, version) = {Identity(Providers[provider], r, n)}
           /\ provider = "ubuntu" => (r.channel = "lts" <=> version.numbers[2] = 4)
PROOF
<1>1. PICK r \in Providers[provider].rules : n \in Names(r)
  BY NamesAreRules
<1>2. Detect(Declared, n) = {}
  BY <1>1, BundledProvider DEF DeclaredApart
<1>3. PICK s \in Providers[provider].rules :
        /\ n \in Names(s)
        /\ Identities(BuiltinProviders, n, version) = {Identity(Providers[provider], s, n)}
        /\ provider = "ubuntu" => (s.channel = "lts" <=> version.numbers[2] = 4)
  BY <1>1, BundledProvider, OneRule
<1> QED
  BY <1>2, <1>3 DEF Detected

LEMMA DetectedIsRead ==
  ASSUME DeclaredApart, provider \in ProviderIds, provider # Declared.id, NEW n \in AllNames,
         NEW version, NEW id \in Detected(n, version)
  PROVE  Reads(n.form, version)
PROOF
<1>1. PICK r \in Providers[provider].rules : n \in Names(r)
  BY NamesAreRules
<1>2. Detect(Declared, n) = {}
  BY <1>1, BundledProvider DEF DeclaredApart
<1>3. id \in Identities(BuiltinProviders, n, version)
  BY <1>2 DEF Detected
<1>4. PICK p \in BuiltinProviders : \E s \in p.rules : s.form = n.form /\ Fits(s, version)
  BY <1>3 DEF Identities
<1> QED
  BY <1>4 DEF Fits

\* What a resolver's pattern takes, a rule of the form reads, but for the forms
\* of TakenUnread.
LEMMA TakenIsRead ==
  ASSUME NEW form, NEW version, ResolverReads(form, version), ~TakenUnread(form, version)
  PROVE  Reads(form, version)
BY DEF ResolverReads, TakenUnread

\* Ubuntu's names tell their release.
LEMMA UbuntuNumbers ==
  ASSUME TypeOK, provider = "ubuntu", Reads("ubuntu", Version)
  PROVE  Version.numbers[1] \in Nat
PROOF
<1>1. Len(Version.numbers) \in {2, 3}
  BY DEF Reads, NumberCounts, AliasForms, Dashed
<1>2. installed # 0
  <2>1. Len(<<>>) = 0
    OBVIOUS
  <2> QED
    BY <1>1, <2>1 DEF Version, Release, NoRelease, Unknown
<1>3. provider \in ProviderIds /\ installed \in 1..Len(Feed)
  BY <1>2, FeedTypes DEF TypeOK
<1>4. Version = Feed[installed].version /\ Feed[installed].version \in KnownVersions
  BY <1>2, <1>3, FeedTypes DEF Version, Release
<1>5. Version.numbers \in Seq(Nat)
  BY <1>4 DEF KnownVersions
<1> QED
  BY <1>1, <1>5

LEMMA UpdateKeeps ==
  ASSUME DeclaredApart, TypeOK, provider # Declared.id, Update,
         ~TakenUnread(name'.form, Version')
  PROVE  \E new \in Detected(name', Version') :
           /\ Detected(name', Version') = {new}
           /\ \/ \E id \in Detected(name, Version) : Line(new, Version') = Line(id, Version)
              \/ MisreadUbuntu(Version)
PROOF
<1> DEFINE p == Providers[provider]
<1>0. /\ p \in BuiltinProviders /\ p.id = provider /\ provider \in ProviderIds /\ name \in AllNames
      /\ Len(Feed) \in Nat /\ installed \in 0..Len(Feed)
  BY BundledProvider, FeedTypes DEF TypeOK
<1>1. provider' = provider /\ Feed' = Feed
  BY UpdateMeans, UpdateFeed
<1>2. PICK id \in Detected(name, Version) : \E i \in Available :
        /\ name' \in Accepted(id) /\ name' \in Published(i) /\ installed' = i
        /\ id.provider = "ubuntu" => UbuntuRelease(id.channel, Release(i).version)
        /\ ResolverReads(name'.form, Release(i).version)
  BY UpdateMeans DEF Version
<1>3. PICK i \in Available :
        /\ name' \in Accepted(id) /\ name' \in Published(i) /\ installed' = i
        /\ id.provider = "ubuntu" => UbuntuRelease(id.channel, Release(i).version)
        /\ ResolverReads(name'.form, Release(i).version)
  BY <1>2
<1>4. name' \in AllNames
  BY <1>3 DEF Published
<1>5. Version' = Release(i).version
  BY <1>1, <1>3 DEF Version, Release
<1>6. Reads(name'.form, Version') /\ Reads(name.form, Version)
  BY <1>0, <1>2, <1>3, <1>5, TakenIsRead, DetectedIsRead
<1>7. PICK r \in p.rules :
        /\ name \in Names(r) /\ Detected(name, Version) = {Identity(p, r, name)}
        /\ provider = "ubuntu" => (r.channel = "lts" <=> Version.numbers[2] = 4)
  BY <1>0, <1>6, DetectedAs
<1>8. PICK s \in p.rules :
        name' \in Names(s) /\ Detected(name', Version') = {Identity(p, s, name')}
  BY <1>0, <1>4, <1>6, DetectedAs
<1>9. id = Identity(p, r, name)
  BY <1>2, <1>7
<1>10. name' \in Resolve(p, Identity(p, r, name))
  BY <1>3, <1>9 DEF Accepted
<1>11. SameButNames(Identity(p, s, name'), Identity(p, r, name))
  BY <1>0, <1>7, <1>8, <1>10, BuiltinsKeep
<1>12. ASSUME ~MisreadUbuntu(Version), provider = "ubuntu"
       PROVE  UbuntuRelease("lts", Version') <=> UbuntuRelease("lts", Version)
  <2>1. id.provider = "ubuntu" /\ id.channel = r.channel /\ name.form = "ubuntu"
    BY <1>0, <1>7, <1>9, <1>12, Parts, BuiltinsRegular DEF Regular, OfMajors
  <2>2. UbuntuRelease(r.channel, Version')
    BY <1>3, <1>5, <1>12, <2>1
  <2>3. Version.numbers[1] \in Nat
    BY <1>6, <1>12, <2>1, UbuntuNumbers
  <2>4. UbuntuRelease(r.channel, Version)
    <3>1. Version.numbers[1] % 2 \in {0, 1}
      BY <2>3
    <3> QED
      BY <1>7, <1>12, <3>1 DEF UbuntuRelease, MisreadUbuntu
  <2> QED
    BY <2>2, <2>4 DEF UbuntuRelease
<1>13. ~MisreadUbuntu(Version)
         => Line(Identity(p, s, name'), Version') = Line(Identity(p, r, name), Version)
  BY <1>0, <1>11, <1>12, SameLine
<1> QED
  BY <1>7, <1>8, <1>13

\* Whatever publishers release, and however names and images of theirs began
\* and ended in between, the file that replaces a bundled provider's is
\* identified by that provider alone, as the same variant (README.md:82), but
\* for Ubuntu's interim releases of April and for the versions that resolvers
\* take and no rule reads.
THEOREM BundledVariantsAreKept ==
  ASSUME DeclaredApart
  PROVE  Spec /\ provider # Declared.id => VariantKept
PROOF
<1> DEFINE Bundled == provider # Declared.id
           Kept == name' # name \/ installed' # installed =>
             \/ \E new \in Detected(name', Version') :
                  /\ Detected(name', Version') = {new}
                  /\ \/ \E id \in Detected(name, Version) : Line(new, Version') = Line(id, Version)
                     \/ MisreadUbuntu(Version)
             \/ TakenUnread(name'.form, Version')
<1>1. Bundled /\ [Next]_vars => Bundled'
  <2> SUFFICES ASSUME Bundled, [Next]_vars PROVE provider' = provider
    OBVIOUS
  <2>1. CASE Update
    BY <2>1, UpdateMeans
  <2>2. CASE ~Update
    BY <2>2 DEF Next, Publish, Withdraw, GoesDown, ComesBack, RemoveOthers, vars
  <2> QED
    BY <2>1, <2>2
<1>2. Bundled /\ TypeOK /\ [Next]_vars => [Kept]_vars
  <2> SUFFICES ASSUME Bundled, TypeOK, Next PROVE Kept
    BY DEF vars
  <2>1. CASE Update
    BY <2>1, UpdateKeeps
  <2>2. CASE ~Update
    <3>1. name' = name /\ installed' = installed
      BY <2>2 DEF Next, Publish, Withdraw, GoesDown, ComesBack, RemoveOthers
    <3> QED
      BY <3>1
  <2> QED
    BY <2>1, <2>2
<1> QED
  BY <1>1, <1>2, InitTypes, TypeStep, PTL DEF Spec, VariantKept
=============================================================================
