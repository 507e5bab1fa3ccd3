----------------------------- MODULE Resolvers -----------------------------
(***************************************************************************)
(* providers/resolvers.py: for the identity of an installed ISO, the names *)
(* of the files each publisher offers in its place.                        *)
(*                                                                         *)
(* A resolver is the set of names, but for their release, it looks for on  *)
(* the publisher's pages, empty when it refuses the identity, and the      *)
(* versions its pattern takes (ResolverReads).  Which release it then      *)
(* picks is in Updates; addresses and checksums are left out.              *)
(***************************************************************************)
EXTENDS Names

\* The name of a form that keeps everything an identity says.
Named(form, id) ==
  [form |-> form, edition |-> id.edition, flavor |-> id.flavor, arch |-> id.arch, major |-> None]

\* The same without a flavor: none is in the name.
Plain(form, id) == [Named(form, id) EXCEPT !.flavor = None]

Offer(condition, name) == IF condition THEN {name} ELSE {}

Arch(id) == Offer(id.arch = "x86_64", Plain("arch", id))

Alpine(id) ==
  Offer(/\ id.edition \in AlpineEditions /\ id.arch \in AlpineArchs
        /\ id.edition = "extended" => id.arch \in {"x86", "x86_64"}
        /\ id.edition = "xen" => id.arch = "x86_64",
        Plain("alpine", id))

\* Mutant of EnterpriseLinux: the channel is not looked at.
EnterpriseLinuxAnyMajor(form, id) ==
  {[Plain(form, id) EXCEPT !.major = m] : m \in Majors}

\* The alias names no release; what replaces it does.
EnterpriseLinux(form, id) ==
  Offer(/\ id.channel \in Majors /\ id.edition \in RockyEditions
        /\ id.flavor \in {None, "latest-alias"},
        [Plain(form, id) EXCEPT !.major = id.channel])

RockyLinux(id) == IF id.arch \in BothPC THEN EnterpriseLinux("rocky", id) ELSE {}
Almalinux(id) == IF id.arch \in AlmaArchs THEN EnterpriseLinux("alma", id) ELSE {}

Ubuntu(id) ==
  Offer(id.edition \in UbuntuEditions /\ id.arch \in BothAMD /\ id.channel \in {"lts", "interim"},
        Plain("ubuntu", id))

\* Ubuntu's releases of a channel: long-term support is April of an even year.
UbuntuRelease(channel, version) ==
  (channel = "lts") <=> (version.numbers[1] % 2 = 0 /\ version.numbers[2] = 4)

Debian(id) ==
  IF id.edition = "live"
    THEN Offer(id.arch = "amd64" /\ id.flavor # None, Named("debian-live", id))
    ELSE Offer(/\ id.arch \in BothAMD /\ id.flavor = None
               /\ id.edition \in {"netinst", "dvd-4"} \cup DebianDVDs,
               Named("debian", id))

\* KDE's directory holds the spin under its old name or under its new one.  Of
\* what a directory holds, the variant comes first in the alphabet: the server's
\* "dvd" before its "netinst".
Fedora(id) ==
  IF id.arch \notin BothPC THEN {}
  ELSE CASE id.edition = "server" -> Offer(id.flavor = "dvd", Named("fedora-server", id))
         [] id.edition = "workstation" /\ id.flavor = "live" ->
              {Named("fedora-41", id), Named("fedora", id)}
         [] id.edition \in {"kde", "kde-desktop"} /\ id.flavor = "live" ->
              {[Named("fedora-41", id) EXCEPT !.edition = "kde"],
               [Named("fedora", id) EXCEPT !.edition = "kde-desktop"]}
         [] OTHER -> {}

LinuxMint(id) == Offer(id.edition \in MintEditions /\ id.flavor = None, Plain("mint", id))

Endeavouros(id) == {Plain("endeavouros", id)}

\* "The historical CachyOS KDE image was discontinued."
Cachyos(id) ==
  Offer(id.edition \in {"desktop", "handheld"} /\ id.arch = "x86_64" /\ id.flavor = None,
        Plain("cachyos", id))

Clonezilla(id) ==
  Offer(id.edition \in {"debian", "ubuntu"} /\ id.arch = "amd64",
        Plain(IF id.edition = "debian" THEN "clonezilla" ELSE "clonezilla-alternative", id))

GpartedLive(id) ==
  Offer(id.edition = "live" /\ id.arch = "amd64" /\ id.flavor = None, Plain("gparted-live", id))

KaliLinux(id) ==
  Offer(id.edition \in KaliEditions /\ id.arch \in BothAMD /\ id.flavor = None, Plain("kali", id))

\* Plasma 5 has no image of its own any more: the graphical one takes its place.
Nixos(id) ==
  Offer(/\ id.edition \in {"graphical", "minimal"} /\ id.arch \in BothPC
        /\ id.flavor = None \/ (id.flavor = "plasma5" /\ id.edition = "graphical"),
        Plain("nixos", id))

Systemrescue(id) ==
  Offer(id.edition = "live" /\ id.arch = "amd64" /\ id.flavor = None, Plain("systemrescue", id))

OpensuseTumbleweed(id) ==
  Offer(id.edition \in SuseEditions /\ id.arch \in BothPC, Plain("tumbleweed", id))

Freebsd(id) ==
  Offer(id.edition \in {"disc1", "dvd1", "bootonly"} /\ id.arch \in BothAMD, Plain("freebsd", id))

Omarchy(id) == {Plain("omarchy", id)}

Manjaro(id) ==
  Offer(/\ id.edition \in ManjaroEditions /\ id.arch = "x86_64" /\ id.channel = "stable"
        /\ id.flavor \in {"full", "minimal"},
        Named("manjaro", id))

\* The one release the builds are asked for.
PopRelease == <<24, 4>>

PopOS(id) ==
  Offer(id.edition \in {"generic", "nvidia"} /\ id.arch \in BothAMD, Plain("pop-os", id))

Proxmox(id) ==
  Offer(/\ id.edition = "installer" /\ id.arch \in BothAMD
        /\ id.arch = "arm64" => id.product = "proxmox-ve",
        Plain(id.product, id))

Rescuezilla(id) ==
  Offer(id.edition = "live" /\ id.flavor \in Bases /\ id.arch = "amd64", Named("rescuezilla", id))

VanillaOS(id) ==
  {[Plain("vanilla-os", id) EXCEPT
      !.arch = IF id.arch \in {"arm64", "aarch64"} THEN "arm64" ELSE "amd64"]}

\* "Paid or unknown Zorin OS editions cannot be downloaded automatically."
ZorinOS(id) ==
  Offer(id.edition \in {"core", "education", "lite"},
        [Plain("zorin-os", id) EXCEPT !.arch = "64-bit"])

\* Numbers with dots between them, and how many.
Dotted(version, counts) ==
  Len(version.numbers) \in counts /\ ~version.dash /\ version.text = NoText

\* The versions the patterns of resolvers take: those the rules read, with a
\* dot in Debian's and Omarchy's, and others.
ResolverReads(form, version) ==
  \/ /\ Reads(form, version)
     /\ form \in {"debian", "omarchy"} => Len(version.numbers) >= 2
     /\ form = "pop-os" => version.numbers = PopRelease
  \/ form \in {"debian", "debian-live"} /\ Dotted(version, AtLeast(2))
  \/ form = "ubuntu" /\ Dotted(version, {2, 3})
  \/ form \in {"clonezilla", "clonezilla-alternative", "rescuezilla"} /\ version # Unknown

\* BUILTIN_RESOLVER_IDS: the bundled providers that have a resolver.
BuiltinResolverIds ==
  {p.id : p \in BuiltinProviders}
    \ {"nobara", "grml", "qubes-os", "tails", "memtest86-plus", "windows-11"}

\* resolve_release
ResolveRelease(id) ==
  CASE id.provider = "arch" -> Arch(id)
    [] id.provider = "alpine" -> Alpine(id)
    [] id.provider = "rocky-linux" -> RockyLinux(id)
    [] id.provider = "almalinux" -> Almalinux(id)
    [] id.provider = "ubuntu" -> Ubuntu(id)
    [] id.provider = "debian" -> Debian(id)
    [] id.provider = "fedora" -> Fedora(id)
    [] id.provider = "linux-mint" -> LinuxMint(id)
    [] id.provider = "endeavouros" -> Endeavouros(id)
    [] id.provider = "cachyos" -> Cachyos(id)
    [] id.provider = "clonezilla" -> Clonezilla(id)
    [] id.provider = "gparted-live" -> GpartedLive(id)
    [] id.provider = "kali-linux" -> KaliLinux(id)
    [] id.provider = "nixos" -> Nixos(id)
    [] id.provider = "systemrescue" -> Systemrescue(id)
    [] id.provider = "opensuse-tumbleweed" -> OpensuseTumbleweed(id)
    [] id.provider = "freebsd" -> Freebsd(id)
    [] id.provider = "omarchy" -> Omarchy(id)
    [] id.provider = "manjaro" -> Manjaro(id)
    [] id.provider = "pop-os" -> PopOS(id)
    [] id.provider = "proxmox" -> Proxmox(id)
    [] id.provider = "rescuezilla" -> Rescuezilla(id)
    [] id.provider = "vanilla-os" -> VanillaOS(id)
    [] id.provider = "zorin-os" -> ZorinOS(id)
    [] OTHER -> {}

\* _validate_dimension, for each of them: an identity within the capabilities.
WithinCapabilities(provider, id) ==
  /\ id.edition \in provider.editions \cup {None} /\ id.flavor \in provider.flavors \cup {None}
  /\ id.arch \in provider.archs /\ id.channel \in provider.channels
  /\ id.language \in provider.languages \cup {None}

\* FilenameProvider.resolve
Resolve(provider, id) ==
  IF /\ id.product \in {r.product : r \in provider.rules} /\ WithinCapabilities(provider, id)
    THEN ResolveRelease(id) ELSE {}

\* The publishers whose releases have a build the resolver reports.
ReportsBuild == {"fedora", "manjaro", "pop-os", "vanilla-os", "zorin-os"}

\* Mutant of IsNewer: builds are not compared.
IsNewerVersionOnly(id, curated, candidate, installed) ==
  \/ id.provider = "vanilla-os" /\ ~curated /\ installed.version.numbers[1] = 22
  \/ NewerVersion(candidate.version, installed.version)

\* FilenameProvider.is_newer and, for what the registry provides, Provider's.
IsNewer(id, curated, candidate, installed) ==
  LET base == NewerVersion(candidate.version, installed.version) IN
  IF curated THEN base
  ELSE \/ id.provider = "vanilla-os" /\ installed.version.numbers[1] = 22
       \/ IF /\ candidate.version = installed.version
             /\ id.provider \in ReportsBuild /\ candidate.build # 0 /\ installed.build # 0
            THEN candidate.build > installed.build
            ELSE base
=============================================================================
