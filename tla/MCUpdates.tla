----------------------------- MODULE MCUpdates -----------------------------
(* Updates with the publishers' ways of numbering, and one manifest.        *)
EXTENDS Updates, TLC

MCTextRank ==
  [t \in {NoText, "noble", "plucky", "b13f", "d02a", "rc"} |->
     CASE t = "b13f" -> -2 [] t = "rc" -> -1 [] OTHER -> 0]
MCTextOrder ==
  NoText :> 0 @@ "noble" :> 3 @@ "plucky" :> 4 @@ "b13f" :> 1 @@ "d02a" :> 2 @@ "rc" :> 5

V(numbers) ==
  [version |-> [numbers |-> numbers, dash |-> FALSE, text |-> NoText], build |-> 0, lacks |-> {}]
Dash(numbers) == [V(numbers) EXCEPT !.version.dash = TRUE]
Text(numbers, text) == [V(numbers) EXCEPT !.version.text = text]
Build(numbers, build) == [V(numbers) EXCEPT !.build = build]
Lacks(release, parts) == [release EXCEPT !.lacks = parts]

\* Versions that gain a number, end in 9 or 10, only differ in their build, or
\* have a form that some pattern does not take; releases without an image.
MCFeeds ==
  LET plain == <<V(<<1, 9>>), V(<<1, 10>>), V(<<1, 10, 1>>)>>
      single == <<V(<<39>>), V(<<240609>>), V(<<250202>>)>>
      two == <<V(<<24, 2>>), V(<<24, 10>>), V(<<25, 1>>)>>
      dates == <<V(<<2024, 9, 1>>), V(<<2024, 12, 1>>), V(<<2025, 1, 1>>)>>
      dashes == <<Dash(<<3, 1, 3, 16>>), Dash(<<3, 2, 0, 5>>), Dash(<<3, 2, 0, 10>>)>>
      majors == <<V(<<8, 10>>), V(<<9, 5>>), V(<<9, 10>>), V(<<10, 1>>)>>
  IN
  [id \in {p.id : p \in BuiltinProviders} \cup {"clonezilla-alternative", "declared"} |->
     CASE id \in {"rocky-linux", "almalinux"} -> majors
       [] id \in {"arch", "endeavouros"} -> dates
       [] id \in {"opensuse-tumbleweed", "nobara"} -> single
       [] id \in {"kali-linux", "grml", "windows-11"} -> two
       [] id \in {"clonezilla", "gparted-live", "proxmox"} -> dashes
       [] id = "ubuntu" -> <<V(<<24, 4, 1>>), Lacks(V(<<24, 10>>), {"arm64"}), V(<<25, 4>>),
                             V(<<25, 10>>), V(<<26, 4>>), V(<<30, 4>>)>>
       [] id = "debian" -> <<V(<<12>>), V(<<12, 9>>), V(<<12, 10, 0>>), V(<<12, 10, 0, 1>>)>>
       [] id = "fedora" -> <<Build(<<41>>, 9), Build(<<41>>, 14),
                             Lacks(Build(<<42>>, 11), {"server"}), Build(<<42>>, 12)>>
       [] id = "cachyos" -> <<V(<<231126>>), V(<<240609>>), Lacks(V(<<250202>>), {"handheld"})>>
       [] id = "clonezilla-alternative" ->
            <<Text(<<20240715>>, "noble"), Text(<<20250303>>, "noble"), Text(<<20250303>>, "plucky")>>
       [] id = "freebsd" -> <<V(<<13, 5>>), V(<<14, 2>>), Lacks(V(<<14, 10>>), {"dvd1"})>>
       [] id = "nixos" -> <<Text(<<23, 11, 99>>, "d02a"), Text(<<24, 11, 990>>, "b13f"),
                            Text(<<24, 11, 1000>>, "d02a"), V(<<25, 5, 7, 4>>)>>
       [] id = "manjaro" -> <<Build(<<24, 2>>, 240101), Build(<<24, 2, 1>>, 240216),
                              Lacks(Build(<<24, 2, 1>>, 241216), {"minimal"}),
                              [Build(<<25, 0>>, 250101) EXCEPT !.version.text = "rc"]>>
       [] id = "pop-os" -> <<Build(<<22, 4>>, 50), Build(<<24, 4>>, 9), Build(<<24, 4>>, 10),
                             Build(<<26, 4>>, 1)>>
       [] id = "rescuezilla" -> <<V(<<2, 5>>), Lacks(V(<<2, 5, 1>>), {"oracular"}), V(<<3>>)>>
       [] id = "vanilla-os" -> <<V(<<22, 10>>), Build(<<2>>, 20240728), Build(<<2>>, 20250101)>>
       [] id = "zorin-os" -> <<V(<<17, 3>>), V(<<18>>), V(<<18, 1>>), Build(<<18, 1>>, 1),
                               Build(<<18, 1>>, 2)>>
       [] OTHER -> plain]

Template(edition, arch) ==
  [product |-> "os", edition |-> edition, flavor |-> None, channel |-> "stable", arch |-> arch,
   language |-> None]
File(form, edition, arch) ==
  [form |-> form, product |-> None, edition |-> edition, flavor |-> None, channel |-> None,
   arch |-> arch, language |-> None]
NewNames ==
  {File("new", "desktop", "x86_64"), File("new", "desktop", "aarch64"),
   File("new", "server", "x86_64"), File("new", "tiny", "x64")}
Source(automatic, template, download) ==
  [automatic |-> automatic, identity |-> template, download |-> download, linked |-> TRUE,
   listed |-> TRUE, signature |-> "none",
   names |-> {n \in NewNames : \A d \in {"edition", "arch"} : template[d] \in {Group, n[d]}}]

\* The old names of the desktop are not to be replaced, the architecture of
\* the tiny edition has an alias, and the sources of the others differ.
MCDeclared ==
  [id |-> "declared", products |-> {"os"}, editions |-> {"desktop", "server", "tiny"},
   flavors |-> {}, archs |-> {"x86_64", "aarch64"}, channels |-> {"stable"}, languages |-> {},
   rules |->
     <<[names |-> {File("legacy", "desktop", "x86_64")}, downloadable |-> FALSE,
        identity |-> Template("desktop", Group)],
       [names |-> NewNames, downloadable |-> TRUE,
        identity |-> Template(Group, Group)]>>,
   sources |->
     <<Source(FALSE, Template("server", "x86_64"), "page-link"),
       Source(TRUE, Template("server", "x86_64"), "user-supplied"),
       Source(TRUE, Template("desktop", Group), "page-link"),
       Source(TRUE, Template("server", Group), "release-asset"),
       Source(TRUE, Template(Group, Group), "url-template")>>]
MCOtherNames == {File("legacy", "desktop", "x86_64")}
=============================================================================
