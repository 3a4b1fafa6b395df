----------------------------- MODULE OfferFacts -----------------------------
(***************************************************************************)
(* What the resolver finds and what the components refer to, for every     *)
(* ProviderConfig and every spec.                                          *)
(***************************************************************************)
EXTENDS Offer, WellFoundedInduction, TLAPS

\* The first of several entries is one of them.
LEMMA EarliestIsOne ==
  ASSUME NEW S, S \subseteq Nat, S # {}
  PROVE  Earliest(S) \in S
<1> DEFINE R == OpToRel(<, Nat)
<1>1. IsWellFoundedOn(R, Nat)
  BY NatLessThanWellFounded
<1>2. \E x \in S : \A y \in S : ~ (<<y, x>> \in R)
  <2> HIDE DEF R
  <2> QED BY <1>1, WFMin
<1>3. \A x, y \in S : <<y, x>> \notin R => x <= y
  BY DEF OpToRel
<1>4. \E x \in S : \A y \in S : x <= y
  BY <1>2, <1>3
<1> QED BY <1>4 DEF Earliest

-----------------------------------------------------------------------------
(* The resolver.                                                           *)

\* Versions match if and only if their numbers agree.
LEMMA NormalizeTags ==
  \A s, t \in Tags : Normalize(s) = Normalize(t) <=> s.number = t.number
BY DEF Normalize, Tags

\* The entries of a list of packages, and the one that is taken.
LEMMA FirstIsOffered ==
  ASSUME NEW list \in Seq(PackageEntries), NEW name, NEW tag \in Tags,
         Matches(list, name, tag) # {}
  PROVE  \E i \in DOMAIN list :
           /\ list[i].name = name /\ list[i].tag \in Tags /\ list[i].tag.number = tag.number
           /\ First(list, name, tag) = [package |-> list[i].package, tag |-> list[i].tag]
<1> DEFINE i == Earliest(Matches(list, name, tag))
<1>1. i \in Matches(list, name, tag)
  <2>1. Matches(list, name, tag) \subseteq Nat
    BY DEF Matches, Known
  <2> QED BY <2>1, EarliestIsOne
<1>2. i \in DOMAIN list /\ list[i] \in PackageEntries
  BY <1>1 DEF Matches, Known
<1>3. list[i].name = name /\ list[i].tag \in Tags /\ Normalize(list[i].tag) = Normalize(tag)
  BY <1>1, <1>2 DEF Matches, Known, PackageEntries
<1> QED BY <1>2, <1>3, NormalizeTags DEF First

\* A list has a match if it has an entry of that name and number.
LEMMA OfferedIsMatched ==
  ASSUME NEW list \in Seq(PackageEntries), NEW name, NEW tag \in Tags,
         NEW i \in DOMAIN list, list[i].name = name, list[i].tag.number = tag.number
  PROVE  Matches(list, name, tag) # {}
<1>1. list[i] \in PackageEntries
  OBVIOUS
<1>2. list[i].tag # NoTag
  <2>1. tag.number \in Numbers
    BY DEF Tags
  <2>2. NoTag.number = ""
    BY DEF NoTag
  <2> QED BY <2>1, <2>2, OfferAssumption
<1>3. list[i].tag \in Tags
  BY <1>1, <1>2 DEF PackageEntries
<1>4. i \in Matches(list, name, tag)
  BY <1>2, <1>3, NormalizeTags DEF Matches, Known
<1> QED BY <1>4

\* What the resolver returns: a reference, or nothing.
ReferenceType ==
  [package : Images \cup {NoImage, CrossplaneRelease}, tag : Tags] \cup {Unresolved}

LEMMA ResolveType ==
  ASSUME NEW offer \in OfferType, NEW name, NEW tag \in Tags
  PROVE  Resolve(offer, name, tag) \in ReferenceType
<1> DEFINE providers == offer.packages["provider"]
           functions == offer.packages["function"]
<1>1. providers \in Seq(PackageEntries) /\ functions \in Seq(PackageEntries)
  BY DEF OfferType, Kinds
<1>2. \A list \in Seq(PackageEntries) :
        Matches(list, name, tag) # {} => First(list, name, tag) \in ReferenceType
  <2> SUFFICES ASSUME NEW list \in Seq(PackageEntries), Matches(list, name, tag) # {}
               PROVE  First(list, name, tag) \in ReferenceType
    OBVIOUS
  <2>1. PICK i \in DOMAIN list :
          /\ list[i].name = name /\ list[i].tag \in Tags /\ list[i].tag.number = tag.number
          /\ First(list, name, tag) = [package |-> list[i].package, tag |-> list[i].tag]
    BY FirstIsOffered
  <2>2. list[i] \in PackageEntries
    OBVIOUS
  <2>3. list[i].package \in Images
    BY <2>2 DEF PackageEntries
  <2> QED BY <2>1, <2>3 DEF ReferenceType
<1>3. ResolveRelease(offer, tag) \in ReferenceType
  BY DEF ResolveRelease, ReferenceType
<1>4. Unresolved \in ReferenceType
  BY DEF ReferenceType
<1> HIDE DEF providers, functions
<1> QED BY <1>1, <1>2, <1>3, <1>4 DEF Resolve, providers, functions

\* If no package of another kind has the name, the resolver looks at the list
\* of the kind only.
LEMMA ResolveByKind ==
  ASSUME NEW offer \in OfferType, NEW kind \in Kinds, NEW name, NEW tag \in Tags,
         name # CrossplaneRelease,
         \A k \in Kinds \ {kind} : \A i \in DOMAIN offer.packages[k] :
            offer.packages[k][i].name # name
  PROVE  Resolve(offer, name, tag) =
           IF Matches(offer.packages[kind], name, tag) # {}
           THEN First(offer.packages[kind], name, tag) ELSE Unresolved
<1>1. \A k \in Kinds \ {kind} :
        Known(offer.packages[k], name) = {} /\ Matches(offer.packages[k], name, tag) = {}
  BY DEF Known, Matches
<1>2. Matches(offer.packages[kind], name, tag) # {} => Known(offer.packages[kind], name) # {}
  BY DEF Matches
<1>3. CASE kind = "provider"
  BY <1>1, <1>2, <1>3 DEF Resolve, Kinds
<1>4. CASE kind = "function"
  BY <1>1, <1>2, <1>4 DEF Resolve, Kinds
<1> QED BY <1>3, <1>4 DEF Kinds

-----------------------------------------------------------------------------
(* The components.                                                         *)

\* The secret of the chart is one the ProviderConfig names.
LEMMA ChartSecretIsListed ==
  ASSUME NEW offer \in OfferType, NEW spec, ChartSecret(spec, offer) # NoSecret
  PROVE  \E i \in DOMAIN offer.versions : ChartSecret(spec, offer) = offer.versions[i].chart
<1> DEFINE S == Releases(offer, spec.version)
<1>1. S # {} /\ S \subseteq Nat /\ S \subseteq DOMAIN offer.versions
  BY DEF ChartSecret, Releases, OfferType
<1>2. Earliest(S) \in DOMAIN offer.versions
  BY <1>1, EarliestIsOne
<1> QED BY <1>1, <1>2 DEF ChartSecret

\* Every secret that is copied for an instance is watched.
LEMMA CopiesAreReferenced ==
  ASSUME NEW offer \in OfferType, NEW spec
  PROVE  /\ CopiedSecrets(spec, offer) \subseteq Referenced(offer)
         /\ ChartSecret(spec, offer) # NoSecret => ChartSecret(spec, offer) \in Referenced(offer)
<1>1. CopiedSecrets(spec, offer) \subseteq Referenced(offer)
  <2>1. ImageSecrets(spec, offer) \subseteq Referenced(offer)
    <3> SUFFICES ASSUME NEW i \in DOMAIN offer.versions
                 PROVE  offer.versions[i].image \in Referenced(offer)
      BY DEF ImageSecrets, Releases
    <3>1. offer.versions[i].image \in {offer.versions[i].chart, offer.versions[i].image}
      OBVIOUS
    <3> QED BY <3>1 DEF Referenced
  <2>2. UNION {PullSecrets(offer, k) : k \in Kinds} \subseteq Referenced(offer)
    BY DEF Referenced
  <2> QED BY <2>1, <2>2 DEF CopiedSecrets
<1>2. ASSUME ChartSecret(spec, offer) # NoSecret
      PROVE  ChartSecret(spec, offer) \in Referenced(offer)
  <2>1. PICK i \in DOMAIN offer.versions : ChartSecret(spec, offer) = offer.versions[i].chart
    BY <1>2, ChartSecretIsListed
  <2>2. offer.versions[i].chart \in {offer.versions[i].chart, offer.versions[i].image}
    OBVIOUS
  <2> QED BY <2>1, <2>2 DEF Referenced
<1> QED BY <1>1, <1>2

\* The secrets of an instance are secrets of the operator's namespace.
LEMMA SecretTypes ==
  ASSUME NEW offer \in OfferType, NEW spec
  PROVE  /\ CopiedSecrets(spec, offer) \subseteq Secrets
         /\ ChartSecret(spec, offer) \in Secrets \cup {NoSecret}
<1>1. \A i \in DOMAIN offer.versions :
        /\ offer.versions[i].chart \in Secrets \cup {NoSecret}
        /\ offer.versions[i].image \in Secrets \cup {NoSecret, NoImage}
  <2>1. offer.versions \in Seq(ReleaseEntries)
    BY DEF OfferType
  <2>2. \A i \in DOMAIN offer.versions : offer.versions[i] \in ReleaseEntries
    BY <2>1
  <2> QED BY <2>2 DEF ReleaseEntries
<1>2. ImageSecrets(spec, offer) \subseteq Secrets
  BY <1>1 DEF ImageSecrets, Releases
<1>3. \A k \in Kinds : PullSecrets(offer, k) \subseteq Secrets \cup {NoSecret}
  BY DEF PullSecrets, OfferType, Kinds
<1>4. ChartSecret(spec, offer) \in Secrets \cup {NoSecret}
  BY <1>1, ChartSecretIsListed
<1> QED BY <1>2, <1>3, <1>4 DEF CopiedSecrets

\* Whatever a component refers to is a component itself, and has no version.
LEMMA UsesAreComponents ==
  ASSUME NEW spec \in SpecType, NEW offer \in OfferType, NEW id \in Components(spec, offer),
         NEW u \in Uses(id, spec, offer)
  PROVE  u \in Components(spec, offer) /\ ~ Versioned(u)
<1> DEFINE ca == IF offer.ca THEN {CABundle} ELSE {}
<1>1. ca \subseteq Components(spec, offer) /\ \A x \in ca : ~ Versioned(x)
  BY DEF Components, Versioned, CABundle, Id, Kinds
<1>2. \A s : ~ Versioned(Id("secret", s)) /\ ~ Versioned(Id("platformSecret", s))
             /\ ~ Versioned(Id("runtime", s))
  BY DEF Versioned, Id, Kinds
<1>3. CASE id = Release
  <2>1. ImageSecrets(spec, offer) \subseteq CopiedSecrets(spec, offer)
    BY DEF ImageSecrets, CopiedSecrets
  <2>2. CASE u \in {Id("secret", s) : s \in ImageSecrets(spec, offer)}
    BY <2>1, <2>2, <1>2 DEF Components
  <2>3. CASE u \in {Id("platformSecret", s) : s \in {ChartSecret(spec, offer)} \ {NoSecret}}
    BY <2>3, <1>2 DEF Components
  <2> QED BY <1>1, <1>3, <2>2, <2>3 DEF Uses
<1>4. CASE id # Release /\ id.kind \in Kinds
  <2>1. u \in {Id("secret", s) : s \in PullSecrets(offer, id.kind) \ {NoSecret}}
        \/ u = Id("runtime", id.name)
    BY <1>4 DEF Uses
  <2>2. PullSecrets(offer, id.kind) \ {NoSecret} \subseteq CopiedSecrets(spec, offer)
    BY <1>4 DEF CopiedSecrets
  <2>3. \E p \in spec.packages : id.name = p.name
    BY <1>4 DEF Components, IdOf, Id, Kinds, CABundle, Release
  <2> QED BY <2>1, <2>2, <2>3, <1>2 DEF Components
<1>5. CASE id # Release /\ id.kind \notin Kinds
  BY <1>1, <1>5 DEF Uses
<1> QED BY <1>3, <1>4, <1>5

\* The version asked for is that of the one package with this kind and name.
LEMMA AskedOfPackage ==
  ASSUME NEW spec \in SpecType, NEW p \in spec.packages
  PROVE  /\ p \in [kind : Kinds, name : Names, tag : Tags]
         /\ IdOf(p) # Release /\ Versioned(IdOf(p)) /\ IdOf(p).name = p.name
         /\ Asked(IdOf(p), spec) = p.tag
<1>1. p \in [kind : Kinds, name : Names, tag : Tags]
  BY DEF SpecType
<1>2. IdOf(p) # Release /\ Versioned(IdOf(p)) /\ IdOf(p).name = p.name
  BY <1>1 DEF IdOf, Id, Release, Versioned, Kinds
<1>3. \A q \in spec.packages : IdOf(q) = IdOf(p) => q = p
  BY DEF SpecType, IdOf, Id
<1> QED BY <1>1, <1>2, <1>3 DEF Asked
=============================================================================
