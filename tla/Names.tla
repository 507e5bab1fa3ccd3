------------------------------- MODULE Names -------------------------------
(***************************************************************************)
(* providers/builtin.py: the file names the bundled providers recognise,   *)
(* and the identity each one stands for.                                   *)
(*                                                                         *)
(* A file name is the rule whose pattern it matches but for the version    *)
(* (its form), the parts of it that tell variants apart, and the version   *)
(* it names.  Identities are lower case.                                   *)
(***************************************************************************)
EXTENDS Versions, FiniteSets

None == "-"

\* A FilenameRule: the form of the names it matches, the product and channel
\* they stand for, and what may stand in each of their other places.
Rule(form, product, channel, editions, flavors, archs) ==
  [form |-> form, product |-> product, channel |-> channel, editions |-> editions,
   flavors |-> flavors, archs |-> archs, language |-> None]

\* A FilenameProvider with its capabilities.
Provider(id, rules, editions, archs, channels, flavors) ==
  [id |-> id, rules |-> rules, editions |-> editions, archs |-> archs,
   channels |-> channels, flavors |-> flavors, languages |-> {}]

\* A dimension no name has, and the channel that is the version's first number.
Absent == {None}
Major == "major"
PC == {"x86_64"}
AMD == {"amd64"}
Live == {"live"}
BothAMD == {"amd64", "arm64"}
BothPC == {"x86_64", "aarch64"}
Stable == {"stable"}
Majors == {"8", "9", "10"}
MajorNumber == [m \in Majors |-> CASE m = "8" -> 8 [] m = "9" -> 9 [] m = "10" -> 10]
-----------------------------------------------------------------------------
AlpineEditions == {"standard", "extended", "virtual", "xen"}
AlpineArchs == {"x86", "x86_64", "aarch64", "armv7", "loongarch64", "ppc64le", "riscv64", "s390x"}
RockyEditions == {"boot", "dvd", "dvd1", "minimal"}
AlmaEditions == {"boot", "dvd", "minimal"}
AlmaArchs == {"x86_64", "x86_64_v2", "aarch64", "ppc64le", "s390x"}

ArchToAlmalinux ==
  {Provider("arch", {Rule("arch", "archlinux", "stable", Absent, Absent, PC)},
            {}, PC, Stable, {}),
   Provider("alpine",
            {Rule("alpine", "alpine-linux", "stable", AlpineEditions, Absent, AlpineArchs)},
            AlpineEditions, AlpineArchs, Stable, {}),
   Provider("rocky-linux",
            {Rule("rocky", "rocky-linux", Major, RockyEditions, Absent, BothPC),
             Rule("rocky-latest", "rocky-linux", Major, RockyEditions, {"latest-alias"}, BothPC)},
            RockyEditions, BothPC, Majors, {"latest-alias"}),
   Provider("almalinux",
            {Rule("alma", "almalinux", Major, AlmaEditions, Absent, AlmaArchs),
             Rule("alma-latest", "almalinux", Major, AlmaEditions, {"latest-alias"}, AlmaArchs)},
            AlmaEditions, AlmaArchs, Majors, {"latest-alias"})}

UbuntuEditions == {"desktop", "live-server"}
DebianFlavors == {"cinnamon", "gnome", "kde", "lxde", "lxqt", "mate", "standard", "xfce"}
DebianDVDs == {"dvd-1", "dvd-2", "dvd-3"}

\* Which of Ubuntu's rules matches depends on the month, see Fits.  A DVD-4
\* is recognised and no capability.
UbuntuToDebian ==
  {Provider("ubuntu",
            {Rule("ubuntu", "ubuntu", "lts", UbuntuEditions, Absent, BothAMD),
             Rule("ubuntu", "ubuntu", "interim", UbuntuEditions, Absent, BothAMD)},
            UbuntuEditions, BothAMD, {"lts", "interim"}, {}),
   Provider("debian",
            {Rule("debian", "debian", "stable", {"netinst", "dvd-4"} \cup DebianDVDs, Absent, BothAMD),
             Rule("debian-live", "debian", "stable", Live, DebianFlavors, AMD)},
            {"netinst", "live"} \cup DebianDVDs, BothAMD, Stable, DebianFlavors)}

MintEditions == {"cinnamon", "mate", "xfce"}

FedoraToCachyos ==
  {Provider("fedora",
            {Rule("fedora-41", "fedora", "stable", {"workstation", "kde"}, Live, BothPC),
             Rule("fedora", "fedora", "stable", {"workstation", "kde-desktop"}, Live, BothPC),
             Rule("fedora-server", "fedora", "stable", {"server"}, {"dvd"}, BothPC),
             Rule("silverblue", "fedora", "stable", {"silverblue"}, {"ostree"}, BothPC)},
            {"workstation", "server", "kde", "kde-desktop", "silverblue", "iot"}, BothPC,
            Stable, {"live", "dvd", "ostree"}),
   Provider("linux-mint",
            {Rule("mint", "linux-mint", "stable", MintEditions, {None, "edge"}, PC)},
            MintEditions, PC, Stable, {}),
   Provider("endeavouros", {Rule("endeavouros", "endeavouros", "stable", Absent, Absent, PC)},
            {}, PC, Stable, {}),
   Provider("cachyos",
            {Rule("cachyos", "cachyos", "stable", {"desktop", "handheld"}, Absent, PC),
             Rule("cachyos-kde", "cachyos", "stable", {"kde"}, Absent, PC)},
            {"desktop", "handheld", "kde"}, PC, Stable, {})}

ManjaroEditions == {"gnome", "kde", "xfce"}
NobaraEditions == {"official", "gnome", "kde", "steam-htpc", "steam-handheld"}

ClonezillaToGparted ==
  {Provider("clonezilla",
            {Rule("clonezilla", "clonezilla-live", "stable", {"debian"}, Absent, AMD),
             Rule("clonezilla-alternative", "clonezilla-live", "stable", {"ubuntu"}, Absent, AMD)},
            {"debian", "ubuntu"}, AMD, Stable, {}),
   Provider("omarchy", {Rule("omarchy", "omarchy", "stable", Absent, Absent, PC)},
            {}, PC, Stable, {}),
   Provider("manjaro",
            {Rule("manjaro-rc", "manjaro", "review", ManjaroEditions, {"full", "minimal"}, PC),
             Rule("manjaro", "manjaro", "stable", ManjaroEditions, {"full", "minimal"}, PC)},
            ManjaroEditions, PC, {"stable", "review", "preview"}, {"full", "minimal"}),
   Provider("pop-os", {Rule("pop-os", "pop-os", "stable", {"generic", "nvidia"}, Absent, BothAMD)},
            {"generic", "nvidia"}, BothAMD, Stable, {}),
   Provider("nobara", {Rule("nobara", "nobara", "stable", NobaraEditions, {None, "nvidia"}, PC)},
            NobaraEditions, PC, Stable, {}),
   Provider("gparted-live",
            {Rule("gparted-live", "gparted-live", "stable", Live, Absent, AMD)},
            Live, AMD, Stable, {})}

KaliEditions == {"installer", "installer-netinst", "installer-purple", "live", "live-everything"}
SuseEditions == {"dvd", "net", "rescue-cd", "gnome-live", "kde-live", "xfce-live"}

KaliToQubes ==
  {Provider("kali-linux", {Rule("kali", "kali-linux", "stable", KaliEditions, Absent, BothAMD)},
            KaliEditions, BothAMD, Stable, {}),
   Provider("nixos",
            {Rule("nixos-plasma5", "nixos", "stable", {"graphical"}, {"plasma5"}, BothPC),
             Rule("nixos", "nixos", "stable", {"graphical", "minimal"}, Absent, BothPC)},
            {"graphical", "minimal"}, BothPC, Stable, {"plasma5"}),
   Provider("systemrescue", {Rule("systemrescue", "systemrescue", "stable", Live, Absent, AMD)},
            Live, AMD, Stable, {}),
   Provider("opensuse-tumbleweed",
            {Rule("tumbleweed", "opensuse-tumbleweed", "rolling", SuseEditions, Absent, BothPC),
             Rule("tumbleweed-current", "opensuse-tumbleweed", "rolling", SuseEditions, Absent, BothPC)},
            SuseEditions, BothPC, {"rolling"}, {}),
   Provider("freebsd",
            {Rule("freebsd", "freebsd", "release", {"disc1", "dvd1", "bootonly"}, Absent, BothAMD)},
            {"disc1", "dvd1", "bootonly"}, BothAMD, {"release"}, {}),
   Provider("grml", {Rule("grml", "grml", "stable", {"full", "small"}, Absent, BothAMD)},
            {"full", "small"}, BothAMD, Stable, {}),
   Provider("qubes-os", {Rule("qubes-os", "qubes-os", "stable", {"installer"}, Absent, PC)},
            {"installer"}, PC, Stable, {})}

Bases == {"noble", "oracular", "questing", "resolute"}
MemtestArchs == {"i586", "x86_64", "loongarch64"}

ProxmoxToMemtest ==
  {Provider("proxmox",
            {Rule("proxmox-ve", "proxmox-ve", "stable", {"installer"}, Absent, BothAMD)} \cup
            {Rule(product, product, "stable", {"installer"}, Absent, AMD) :
               product \in {"proxmox-backup-server", "proxmox-mail-gateway",
                            "proxmox-datacenter-manager"}},
            {"installer"}, BothAMD, Stable, {}),
   Provider("rescuezilla", {Rule("rescuezilla", "rescuezilla", "stable", Live, Bases, AMD)},
            Live, AMD, Stable, Bases),
   Provider("tails", {Rule("tails", "tails", "stable", {"iso"}, Absent, AMD)},
            {"iso"}, AMD, Stable, {}),
   Provider("memtest86-plus",
            {Rule("memtest", "memtest86-plus", "stable", {"grub", "bare"}, Absent, MemtestArchs)},
            {"grub", "bare"}, MemtestArchs, Stable, {})}

Windows11 ==
  [Provider("windows-11",
     {[Rule(language, "windows-11", "stable", {"multi-edition"}, {"consumer"}, {"x64"})
         EXCEPT !.language = language] : language \in {"de-de", "en-us", "en-gb"}},
     {"multi-edition"}, PC, Stable, {"consumer"}) EXCEPT !.languages = {"de-de", "en-us", "en-gb"}]

\* The bare arch "amd64" in Zorin's names is recognised and no capability.
VanillaToZorin ==
  {Provider("vanilla-os",
            {Rule("vanilla-os", "vanilla-os", "stable", Absent, Absent, BothAMD),
             Rule("vanilla-22-all", "vanilla-os", "stable", Absent, Absent, AMD),
             Rule("vanilla-22", "vanilla-os", "stable", Absent, Absent, {"amd64", "all"})},
            {}, BothAMD, Stable, {}),
   Windows11,
   Provider("zorin-os",
            {Rule("zorin-os", "zorin-os", "stable", {"core", "education", "lite", "pro", "pro-lite"},
                  Absent, {"64-bit", "amd64"})},
            {"core", "education", "lite", "pro", "pro-lite"}, PC, Stable, {})}

BuiltinProviders ==
  ArchToAlmalinux \cup UbuntuToDebian \cup FedoraToCachyos \cup ClonezillaToGparted
    \cup KaliToQubes \cup ProxmoxToMemtest \cup VanillaToZorin
-----------------------------------------------------------------------------
(* FilenameProvider.detect *)

Architecture(text) ==
  CASE text \in {"64bit", "64-bit", "x64"} -> "x86_64"
    [] text = "all" -> "amd64"
    [] OTHER -> text

\* Forms that name no release.
AliasForms == {"rocky-latest", "alma-latest", "tumbleweed-current"}

AtLeast(n) == Nat \ 0..n - 1

Dashed == {"clonezilla", "gparted-live", "proxmox-ve", "proxmox-backup-server",
           "proxmox-mail-gateway", "proxmox-datacenter-manager"}

\* The group "version" of the rules of a form: how many numbers it has ...
NumberCounts(form) ==
  CASE form \in AliasForms -> {0}
    [] form \in {"fedora-41", "fedora", "fedora-server", "silverblue", "cachyos", "cachyos-kde",
                 "tumbleweed", "nobara", "clonezilla-alternative"} -> {1}
    [] form \in {"rocky", "alma", "pop-os", "kali", "grml", "vanilla-22", "vanilla-22-all",
                 "de-de", "en-us", "en-gb"} -> {2}
    [] form \in {"arch", "endeavouros"} -> {3}
    [] form \in {"ubuntu", "mint", "debian-live"} -> {2, 3}
    [] form = "debian" -> {1, 2, 3}
    [] form \in {"nixos", "nixos-plasma5"} -> {3, 4}
    [] form \in {"omarchy", "vanilla-os"} -> AtLeast(1)
    [] form \in Dashed -> AtLeast(3)
    [] OTHER -> AtLeast(2)

\* ... and all of it: whether one of the rules reads a version.  How many digits
\* a number has is left out, resolvers.py agreeing on it.  Ubuntu's pattern
\* "(2[02468]|[02468]\d).04" is April of every decade with an even digit.
Reads(form, version) == LET numbers == version.numbers IN
  /\ Len(numbers) \in NumberCounts(form)
  /\ version.dash <=> form \in Dashed
  /\ IF form \in {"nixos", "nixos-plasma5"} THEN Len(numbers) = 3 => version.text # NoText
     ELSE version.text # NoText <=> form \in {"manjaro-rc", "clonezilla-alternative"}
  /\ form \in {"rocky", "alma"} => numbers[1] \in {8, 9, 10}
  /\ form \in {"vanilla-22", "vanilla-22-all"} => numbers[1] = 22
  /\ form = "ubuntu" /\ numbers[2] = 4 => (numbers[1] \div 10) % 2 = 0

\* Of Ubuntu's two rules the one for long-term support takes the Aprils.
Fits(rule, version) ==
  /\ Reads(rule.form, version)
  /\ rule.form = "ubuntu" => (rule.channel = "lts" <=> version.numbers[2] = 4)

\* The names a rule matches, but for their release.
Names(rule) ==
  [form : {rule.form}, edition : rule.editions, flavor : rule.flavors, arch : rule.archs,
   major : IF rule.channel = Major THEN Majors ELSE Absent]

\* The variant a name stands for under a rule (IsoIdentity.variant_key).
Identity(provider, rule, name) ==
  [provider |-> provider.id, product |-> rule.product, edition |-> name.edition,
   flavor |-> name.flavor, channel |-> IF rule.channel = Major THEN name.major ELSE rule.channel,
   arch |-> Architecture(name.arch), language |-> rule.language]

\* Every identity some provider gives a name: identify_iso needs exactly one.
Identities(providers, name, version) ==
  UNION {{Identity(provider, rule, name) :
            rule \in {r \in provider.rules :
                        r.form = name.form /\ name \in Names(r) /\ Fits(r, version)}} :
           provider \in providers}
=============================================================================
