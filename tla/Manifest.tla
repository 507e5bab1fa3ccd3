------------------------------ MODULE Manifest ------------------------------
(***************************************************************************)
(* providers/manifest.py: a provider that is data, from the signed         *)
(* registry or from the user's directory.                                  *)
(*                                                                         *)
(* A manifest has rules, each with the names its regex matches, and        *)
(* release sources, each with the names its artifact_regex matches.  Both  *)
(* describe an identity by a template: per dimension a text, a group of    *)
(* the regex, or nothing.  A name says what each group captures in it, or  *)
(* None.  Text is lower case; a group has the name of its dimension.       *)
(***************************************************************************)
EXTENDS Resolvers

Dimensions == {"product", "edition", "flavor", "channel", "arch", "language"}
Required == {"product", "channel", "arch"}
Group == "$group"

\* _resolve_value
ResolveValue(template, name, d) == IF template[d] = Group THEN name[d] ELSE template[d]

\* _validate_identity: what a template must say to be loaded at all.
ValidTemplate(manifest, template) ==
  /\ \A d \in Required : template[d] # None
  /\ \A d \in Dimensions :
       template[d] \in {Group, None} \cup
         (CASE d = "product" -> manifest.products [] d = "edition" -> manifest.editions
            [] d = "flavor" -> manifest.flavors [] d = "channel" -> manifest.channels
            [] d = "arch" -> manifest.archs [] d = "language" -> manifest.languages)

ValidManifest(manifest) ==
  /\ manifest.rules # <<>> /\ manifest.sources # <<>>
  /\ \A i \in DOMAIN manifest.rules : ValidTemplate(manifest, manifest.rules[i].identity)
  /\ \A i \in DOMAIN manifest.sources : ValidTemplate(manifest, manifest.sources[i].identity)
\* What nothing enforces: a text in a source's template is what its
\* artifact_regex says of every file it matches.
SourcesNameTheirVariant(manifest) ==
  \A i \in DOMAIN manifest.sources : LET source == manifest.sources[i] IN
    \A name \in source.names, d \in Dimensions :
      source.identity[d] = Group \/ name[d] \in {None, source.identity[d]}
-----------------------------------------------------------------------------
(* ManifestProvider.detect *)

\* The identity a rule gives a name.  A required group that captured nothing
\* is the text "none".
RuleIdentity(manifest, rule, name) ==
  LET value(d) == LET v == ResolveValue(rule.identity, name, d) IN
                  IF v = None /\ d \in Required THEN "none" ELSE v
  IN [provider |-> manifest.id, product |-> value("product"), edition |-> value("edition"),
      flavor |-> value("flavor"), channel |-> value("channel"),
      arch |-> Architecture(value("arch")), language |-> value("language")]

\* The first rule whose regex matches, if one does.
RuleOf(manifest, name) ==
  LET matching == {i \in DOMAIN manifest.rules : name \in manifest.rules[i].names}
  IN {manifest.rules[i] : i \in {j \in matching : \A k \in matching : j <= k}}

Detect(manifest, name) == {RuleIdentity(manifest, rule, name) : rule \in RuleOf(manifest, name)}

\* What detect leaves in _blocked_variants after the names on a drive.
BlockedVariants(manifest, names) ==
  UNION {{RuleIdentity(manifest, rule, name) : rule \in {r \in RuleOf(manifest, name) : ~r.downloadable}} :
           name \in names}
-----------------------------------------------------------------------------
(* ManifestProvider.resolve *)

\* _source_matches_identity: a group matches anything.
SourceMatchesIdentity(template, id) ==
  \A d \in Dimensions : template[d] \in {Group, None} \/ template[d] = id[d]

\* _candidate_identity_matches: what the template leaves open, the artifact's
\* own group decides; what both leave open is not compared.  The identity's
\* architecture is normalised, the artifact's is not.
CandidateIdentityMatches(name, template, id) ==
  \A d \in Dimensions :
    LET configured == ResolveValue(template, name, d)
        candidate == IF configured = None THEN name[d] ELSE configured
    IN candidate = None \/ candidate = id[d]

ArtifactCandidates(source, page, id) ==
  {name \in page \cap source.names : CandidateIdentityMatches(name, source.identity, id)}

\* _download_url, _resolve_checksum, _signature: those that do not end in a
\* ProviderError.  "linked" and "listed" say whether the page has the link and
\* the checksum the strategy looks for.
DownloadUrl(source) ==
  \/ source.download \in {"url-template", "latest-redirect"}
  \/ source.download \in {"release-asset", "page-link"} /\ source.linked
ResolveChecksum(source) == source.listed
Signature(source) == source.signature # "signed-checksum-list"

\* _resolve_source: the names it may return, none for a ProviderError.
ResolveSource(source, page, id) ==
  IF DownloadUrl(source) /\ ResolveChecksum(source) /\ Signature(source)
    THEN ArtifactCandidates(source, page, id) ELSE {}

\* _resolve_declarative: the first source that answers.  An exception that is
\* no ProviderError, such as the one of a host that is down, ends the search.
ResolveDeclarative(manifest, page, down, id) ==
  LET tried == {i \in DOMAIN manifest.sources :
                  /\ manifest.sources[i].automatic
                  /\ SourceMatchesIdentity(manifest.sources[i].identity, id)}
      answers(i) == ResolveSource(manifest.sources[i], page, id)
      ends == {i \in tried : i \in down \/ answers(i) # {}}
      first == {i \in ends : \A j \in ends : i <= j}
  IN UNION {answers(i) : i \in first \ down}

ResolveManifest(manifest, page, down, blocked, id) ==
  IF \/ id.provider # manifest.id \/ id.product \notin manifest.products
     \/ ~WithinCapabilities(manifest, id) \/ id \in blocked THEN {}
  ELSE IF manifest.id \in BuiltinResolverIds THEN ResolveRelease(id)
  ELSE ResolveDeclarative(manifest, page, down, id)
=============================================================================
