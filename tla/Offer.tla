-------------------------------- MODULE Offer --------------------------------
(***************************************************************************)
(* What a ProviderConfig offers, and what buildComponents of               *)
(* internal/controller/crossplane_controller.go makes of it for one        *)
(* Crossplane instance: the search of the version resolver, the pull       *)
(* secrets, the objects of the control plane and what each refers to.      *)
(* CrossplaneReconciler knows the outcome only (Components); here are the  *)
(* contents.                                                               *)
(*                                                                         *)
(* A ProviderConfig is                                                     *)
(*   [versions : its list of Crossplane versions,                          *)
(*    packages : for each kind the list of what is available, an entry of  *)
(*               the code with n versions being n entries in that order,   *)
(*    secrets  : for each kind the image pull secrets,                     *)
(*    ca       : whether it refers to a CA bundle].                        *)
(* A spec is                                                               *)
(*   [version, lists : the kinds whose list is not nil, packages].         *)
(***************************************************************************)
EXTENDS Naturals, Sequences

CONSTANTS Names,      \* of providers and functions
          Images,     \* repositories of packages
          Secrets,    \* the secrets in the operator's namespace
          Numbers     \* versions, without a leading "v"

Kinds == {"provider", "function"}
CrossplaneRelease == "crossplane"   \* its name, and what the resolver calls it
NoSecret == ""                      \* a reference without a name
NoImage  == "of the chart"          \* no image given for a Crossplane version

ASSUME OfferAssumption == {NoSecret, NoImage, "ca"} \cap Secrets = {} /\ "" \notin Numbers

Tags == [v : BOOLEAN, number : Numbers]
NoTag == [v |-> FALSE, number |-> ""]   \* of an entry that lists no version

ReleaseEntries == [version : Tags, chart : Secrets \cup {NoSecret},
                   image : Secrets \cup {NoSecret, NoImage}]
PackageEntries == [name : Names, package : Images, tag : Tags \cup {NoTag}]

OfferType ==
  [versions : Seq(ReleaseEntries),
   packages : [Kinds -> Seq(PackageEntries)],
   secrets  : [Kinds -> SUBSET (Secrets \cup {NoSecret})],
   ca       : BOOLEAN]

\* +listMapKey=name: a list holds a name once.
SpecType ==
  {s \in [version : Tags, lists : SUBSET Kinds,
          packages : SUBSET [kind : Kinds, name : Names, tag : Tags]] :
     \A p \in s.packages : /\ p.kind \in s.lists
                           /\ \A q \in s.packages : p.kind = q.kind /\ p.name = q.name => p = q}
-----------------------------------------------------------------------------
(* The resolver.                                                           *)

\* Mutant: versions are compared as they are written.
NormalizeNothing(tag) == tag

\* One leading "v" makes no difference.
Normalize(tag) == [tag EXCEPT !.v = FALSE]

Earliest(S) == CHOOSE i \in S : \A j \in S : i <= j

Unresolved == [package |-> "", tag |-> NoTag]

\* Entries of a list of packages that have the name, and those that match.
Known(list, name) == {i \in DOMAIN list : list[i].name = name /\ list[i].tag # NoTag}
Matches(list, name, tag) ==
  {i \in Known(list, name) : Normalize(list[i].tag) = Normalize(tag)}
First(list, name, tag) ==
  LET e == list[Earliest(Matches(list, name, tag))]
  IN [package |-> e.package, tag |-> e.tag]

\* Crossplane versions must match to the letter.
Releases(offer, tag) == {i \in DOMAIN offer.versions : offer.versions[i].version = tag}
ResolveRelease(offer, tag) ==
  IF Releases(offer, tag) = {} THEN Unresolved
  ELSE [package |-> IF offer.versions[Earliest(Releases(offer, tag))].image = NoImage
                    THEN NoImage ELSE CrossplaneRelease,
        tag     |-> tag]

\* Mutant: the reference carries the version that was asked for.
ResolveAsAsked(offer, name, tag) ==
  LET providers == offer.packages["provider"]
      functions == offer.packages["function"]
  IN CASE name = CrossplaneRelease -> ResolveRelease(offer, tag)
       [] name # CrossplaneRelease /\ Matches(providers, name, tag) # {} ->
            [First(providers, name, tag) EXCEPT !.tag = tag]
       [] name # CrossplaneRelease /\ Known(providers, name) = {}
            /\ Matches(functions, name, tag) # {} ->
            [First(functions, name, tag) EXCEPT !.tag = tag]
       [] OTHER -> Unresolved

\* GetResolverFunc is asked for a name, not for a kind: Crossplane first, then
\* the providers; functions only if no provider has the name.
Resolve(offer, name, tag) ==
  LET providers == offer.packages["provider"]
      functions == offer.packages["function"]
  IN IF name = CrossplaneRelease THEN ResolveRelease(offer, tag)
     ELSE IF Matches(providers, name, tag) # {} THEN First(providers, name, tag)
     ELSE IF Known(providers, name) # {} THEN Unresolved
     ELSE IF Matches(functions, name, tag) # {} THEN First(functions, name, tag)
     ELSE Unresolved
-----------------------------------------------------------------------------
(* The pull secrets.                                                       *)

\* The chart's is that of the first entry with the version; the images' are
\* those of all of them.
ChartSecret(spec, offer) ==
  LET R == Releases(offer, spec.version)
  IN IF R = {} THEN NoSecret ELSE offer.versions[Earliest(R)].chart
ImageSecrets(spec, offer) ==
  {offer.versions[i].image : i \in Releases(offer, spec.version)} \ {NoImage, NoSecret}

\* Functions without secrets of their own use those of the providers.
PullSecrets(offer, kind) ==
  IF offer.secrets[kind] # {} THEN offer.secrets[kind] ELSE offer.secrets["provider"]

\* Mutant: the secrets of functions are forgotten.
CopiedSecretsOfProviders(spec, offer) ==
  (ImageSecrets(spec, offer) \cup PullSecrets(offer, "provider")) \ {NoSecret}

CopiedSecrets(spec, offer) ==
  (ImageSecrets(spec, offer) \cup UNION {PullSecrets(offer, k) : k \in Kinds}) \ {NoSecret}

\* Mutant: image pull secrets of Crossplane are not looked at.
ReferencedCharts(offer) ==
  {offer.versions[i].chart : i \in DOMAIN offer.versions}
    \cup (UNION {PullSecrets(offer, k) : k \in Kinds})

\* isSecretReferencedInProviderConfig: whether or not a version is in use.
Referenced(offer) ==
  (UNION {{offer.versions[i].chart, offer.versions[i].image} : i \in DOMAIN offer.versions})
    \cup (UNION {PullSecrets(offer, k) : k \in Kinds})
-----------------------------------------------------------------------------
(* The components, by kind and name, and what they are made of.            *)

Id(kind, name) == [kind |-> kind, name |-> name]
Release  == Id("release", CrossplaneRelease)
CABundle == Id("configMap", "ca")
Copies   == {"secret", "platformSecret", "configMap"}

IdOf(p) == Id(p.kind, p.name)

\* The error paths of buildComponents.  A list that is not nil but empty
\* insists on an offer, too.
BuildOK(spec, offer) ==
  /\ Releases(offer, spec.version) # {}
  /\ \A k \in spec.lists : offer.packages[k] # <<>>

\* buildComponents: a provider and a function of one name share their runtime
\* config; a chart pull secret stays on the platform cluster.
Components(spec, offer) ==
  {Release, Id("runtime", "default")}
    \cup {Id("secret", s) : s \in CopiedSecrets(spec, offer)}
    \cup {Id("platformSecret", s) : s \in {ChartSecret(spec, offer)} \ {NoSecret}}
    \cup (IF offer.ca THEN {CABundle} ELSE {})
    \cup {IdOf(p) : p \in spec.packages}
    \cup {Id("runtime", p.name) : p \in spec.packages}

\* The version asked for, of a component that has one.
Asked(id, spec) ==
  IF id = Release THEN spec.version
  ELSE (CHOOSE p \in spec.packages : IdOf(p) = id).tag

Versioned(id) == id.kind \in Kinds \cup {"release"}

Reference(id, spec, offer) ==
  IF Versioned(id) THEN Resolve(offer, id.name, Asked(id, spec)) ELSE Unresolved

\* IsInstallable.
Installable(id, spec, offer) == Versioned(id) => Reference(id, spec, offer) # Unresolved

\* What an object names: pull secrets, its runtime config, the CA bundle.
Uses(id, spec, offer) ==
  LET ca == IF offer.ca THEN {CABundle} ELSE {}
  IN IF id = Release
     THEN {Id("secret", s) : s \in ImageSecrets(spec, offer)} \cup ca
            \cup {Id("platformSecret", s) : s \in {ChartSecret(spec, offer)} \ {NoSecret}}
     ELSE IF id.kind \in Kinds
     THEN {Id("secret", s) : s \in PullSecrets(offer, id.kind) \ {NoSecret}}
            \cup {Id("runtime", id.name)}
     ELSE IF id.kind = "runtime" THEN ca ELSE {}

\* The object a pass writes; sources holds the data of what is copied.
Content(id, spec, offer, sources) ==
  [reference |-> Reference(id, spec, offer),
   uses      |-> Uses(id, spec, offer),
   data      |-> IF id.kind \in Copies THEN sources[id.name] ELSE 0]
=============================================================================
