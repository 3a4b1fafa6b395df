------------------------- MODULE ProvisioningProofs -------------------------
(***************************************************************************)
(* Theorems about Provisioning, for every set of specs and ProviderConfigs *)
(* and any number of edits and faults.                                     *)
(***************************************************************************)
EXTENDS Provisioning, OfferFacts

-----------------------------------------------------------------------------
(* Types.                                                                  *)

LEMMA ViewType ==
  ASSUME TypeOK, view # NoView
  PROVE  view.spec \in Specs /\ view.offer \in Offers
BY DEF TypeOK

\* The components and what they refer to have names a control plane knows.
LEMMA ComponentTypes ==
  ASSUME NEW s \in SpecType, NEW o \in OfferType, NEW id \in Components(s, o)
  PROVE  /\ id \in Ids
         /\ id.kind \in Copies => id.name \in Inputs
<1>1. CASE id \in {Release, Id("runtime", "default"), CABundle}
  BY <1>1 DEF Ids, Id, Release, CABundle, Kinds, Copies, Inputs
<1>2. CASE \E x \in Secrets : id \in {Id("secret", x), Id("platformSecret", x)}
  BY <1>2 DEF Ids, Id, Copies, Inputs
<1>3. CASE \E p \in s.packages : id \in {IdOf(p), Id("runtime", p.name)}
  <2>1. PICK p \in s.packages : id \in {IdOf(p), Id("runtime", p.name)}
    BY <1>3
  <2>2. p.kind \in Kinds /\ p.name \in Names
    BY AskedOfPackage
  <2> QED BY <2>1, <2>2 DEF Ids, Id, IdOf, Kinds, Copies
<1>4. /\ CopiedSecrets(s, o) \subseteq Secrets
      /\ {ChartSecret(s, o)} \ {NoSecret} \subseteq Secrets
  BY SecretTypes
<1> QED BY <1>1, <1>2, <1>3, <1>4 DEF Components

\* A reference has the type the invariant asks for.
LEMMA ReferenceTypes ==
  ASSUME NEW s \in SpecType, NEW o \in OfferType, NEW id \in Components(s, o)
  PROVE  Reference(id, s, o) \in References
<1>1. ReferenceType = References
  BY DEF ReferenceType, References
<1>2. CASE id = Release
  <2>1. Asked(id, s) \in Tags
    BY <1>2 DEF Asked, SpecType
  <2> QED BY <1>1, <2>1, ResolveType DEF Reference, References
<1>3. CASE \E p \in s.packages : id = IdOf(p)
  <2>1. PICK p \in s.packages : id = IdOf(p)
    BY <1>3
  <2>2. Asked(id, s) \in Tags
    BY <2>1, AskedOfPackage
  <2> QED BY <1>1, <2>2, ResolveType DEF Reference, References
<1>4. CASE ~ Versioned(id)
  BY <1>4 DEF Reference, References
<1>5. id = Release \/ (\E p \in s.packages : id = IdOf(p)) \/ ~ Versioned(id)
  BY DEF Components, Versioned, Id, IdOf, CABundle, Kinds
<1> QED BY <1>2, <1>3, <1>4, <1>5

\* An object as the type invariant describes it.
Sound(id, content) ==
  /\ content \in [reference : References, uses : SUBSET Ids, data : Data]
  /\ Versioned(id) <=> content.reference # Unresolved
  /\ id.kind \in Copies <=> content.data # 0

\* The objects a pass writes are of that kind.
LEMMA AppliedAreSound ==
  ASSUME TypeOK, view # NoView, NEW F, NEW id \in Applied(F)
  PROVE  id \in Ids /\ Sound(id, Content(id, view.spec, view.offer, sources))
<1> DEFINE c == Content(id, view.spec, view.offer, sources)
<1>1. view.spec \in SpecType /\ view.offer \in OfferType
  BY ViewType, ProvisioningAssumption
<1>2. id \in Components(view.spec, view.offer)
  BY DEF Applied
<1>3. id \in Ids /\ (id.kind \in Copies => sources[id.name] \in Data \ {0})
  BY <1>1, <1>2, ComponentTypes DEF Applied, TypeOK
<1>4. c.reference \in References /\ (Versioned(id) <=> c.reference # Unresolved)
  BY <1>1, <1>2, ReferenceTypes DEF Content, Applied, Installable, Reference
<1>5. c.uses \subseteq Ids
  BY <1>1, <1>2, UsesAreComponents, ComponentTypes DEF Content
<1>6. c.data \in Data /\ (id.kind \in Copies <=> c.data # 0)
  BY <1>3 DEF Content, Data
<1>7. c = [reference |-> c.reference, uses |-> c.uses, data |-> c.data]
  BY DEF Content
<1>8. Sound(id, c)
  <2> HIDE DEF c
  <2> QED BY <1>4, <1>5, <1>6, <1>7 DEF Sound
<1> QED BY <1>3, <1>8

LEMMA TypesOfObjects ==
  TypeOK <=>
    /\ spec \in Specs /\ offer \in Offers /\ sources \in [Inputs -> Data]
    /\ DOMAIN objects \subseteq Ids /\ \A id \in DOMAIN objects : Sound(id, objects[id])
    /\ crossplane \in {"down", "outdated", "up"}
    /\ view = NoView \/ view \in [spec : Specs, offer : Offers]
    /\ due \in BOOLEAN /\ late \in BOOLEAN
    /\ edits \in 0..MaxEdits /\ faults \in 0..MaxFaults
BY DEF TypeOK, Sound

\* After a pass the objects are as before or as just written.
LEMMA WrittenObjects ==
  ASSUME NEW F
  PROVE  /\ DOMAIN Written(F) = (DOMAIN objects \ Removed(F)) \cup Applied(F)
         /\ \A id \in DOMAIN Written(F) :
              Written(F)[id] = IF id \in Applied(F)
                               THEN Content(id, view.spec, view.offer, sources)
                               ELSE objects[id]
BY DEF Written

\* The state variables are always of their types: a provider, a function and
\* the release always have a reference the ProviderConfig once gave, a copy
\* always has data.
THEOREM ProvisioningTyping == Spec => []TypeOK
<1>1. Init => TypeOK
  <2> SUFFICES ASSUME Init PROVE TypeOK
    OBVIOUS
  <2>1. sources \in [Inputs -> Data]
    BY DEF Init, Data
  <2>2. DOMAIN objects = {}
    BY DEF Init
  <2>3. edits \in 0..MaxEdits /\ faults \in 0..MaxFaults
    BY ProvisioningAssumption DEF Init
  <2> QED BY <2>1, <2>2, <2>3 DEF Init, TypeOK
<1>2. TypeOK /\ [Next]_vars => TypeOK'
  <2> SUFFICES ASSUME TypeOK, [Next]_vars PROVE TypeOK'
    OBVIOUS
  <2>1. MaxEdits \in Nat /\ MaxFaults \in Nat
    BY ProvisioningAssumption
  <2>2. ASSUME NEW s \in Specs, EditSpec(s) PROVE TypeOK'
    BY <2>1, <2>2 DEF EditSpec, Edit, TypeOK
  <2>3. ASSUME NEW o \in Offers, ChangeOffer(o) PROVE TypeOK'
    <3>1. edits' \in 0..MaxEdits /\ offer' \in Offers
      BY <2>1, <2>3 DEF ChangeOffer, Edit, TypeOK
    <3>2. due' \in BOOLEAN /\ late' \in BOOLEAN
      BY <2>3 DEF ChangeOffer, TypeOK
    <3>3. UNCHANGED <<spec, sources, objects, crossplane, view, faults>>
      BY <2>3 DEF ChangeOffer
    <3> QED BY <3>1, <3>2, <3>3 DEF TypeOK
  <2>4. ASSUME NEW x \in Inputs, NEW d \in Data, ChangeSource(x, d) PROVE TypeOK'
    BY <2>1, <2>4 DEF ChangeSource, Edit, TypeOK
  <2>5. CASE ReadInputs
    BY <2>5 DEF ReadInputs, TypeOK
  <2>6. CASE BuildFails
    BY <2>6 DEF BuildFails, TypeOK
  <2>7. CASE Pass
    <3>1. view # NoView
      BY <2>7 DEF Pass
    <3>2. PICK F \in Setbacks :
            /\ faults' = IF F = {} THEN faults ELSE faults + 1
            /\ objects' = Written(F)
      BY <2>7 DEF Pass
    <3>3. faults' \in 0..MaxFaults
      BY <2>1, <3>2 DEF Setbacks, TypeOK
    <3>4. DOMAIN objects' \subseteq Ids /\ \A id \in DOMAIN objects' : Sound(id, objects'[id])
      BY <3>1, <3>2, WrittenObjects, AppliedAreSound, TypesOfObjects
    <3>5. UNCHANGED <<spec, offer, sources, due, edits>> /\ view' = NoView /\ late' \in BOOLEAN
      BY <2>7 DEF Pass, TypeOK
    <3>6. crossplane' \in {"down", "outdated", "up"}
      BY <2>7 DEF Pass, TypeOK
    <3> QED BY <3>3, <3>4, <3>5, <3>6 DEF TypeOK, Sound
  <2>8. CASE Crash
    BY <2>1, <2>8 DEF Crash, TypeOK
  <2>9. CASE ComeUp \/ GoDown
    BY <2>9 DEF ComeUp, GoDown, TypeOK
  <2>10. CASE UNCHANGED vars
    BY <2>10 DEF vars, TypeOK
  <2> QED BY <2>2, <2>3, <2>4, <2>5, <2>6, <2>7, <2>8, <2>9, <2>10 DEF Next, Users, Work
<1> QED BY <1>1, <1>2, PTL DEF Spec
-----------------------------------------------------------------------------
(* No reminder is lost.                                                    *)

\* What the queue and the timer promise is enough to know that the inputs a
\* reconcile works on are those of now, or that it will look again.
LEMMA Awareness == Attending!Spec => []Attending!Aware
<1> USE DEF Attending!vars
<1>1. Attending!Init => Attending!Aware
  BY DEF Attending!Init, Attending!Aware
<1>2. Attending!Aware /\ [Attending!Next]_(Attending!vars) => Attending!Aware'
  BY DEF Attending!Aware, Attending!Next, Attending!Change, Attending!Remind, Attending!Postpone,
         Attending!Attend, Attending!Take, Attending!Finish, Attending!Restart, Attending!Louder
<1> QED BY <1>1, <1>2, PTL DEF Attending!Spec

\* Every edit reminds the worker by an event or by the timer, and none of its
\* steps takes back what it has not answered (Reconcile).
THEOREM Attentive == Spec => KeepsAttention
<1> DEFINE copied == [x \in Referenced(offer) \cap Secrets |-> sources[x]]
<1>1. Init => Attending!Init
  BY DEF Init, Attending!Init
<1>2. TypeOK /\ [Next]_vars => [Attending!Next]_(Attending!vars)
  <2> SUFFICES ASSUME TypeOK, [Next]_vars
               PROVE  Attending!Next \/ UNCHANGED Attending!vars
    OBVIOUS
  <2> USE DEF Attending!Louder, Attending!Next
  <2>1. ASSUME NEW s \in Specs, EditSpec(s) PROVE Attending!Change
    BY <2>1 DEF EditSpec, Attending!Change
  <2>2. ASSUME NEW o \in Offers, ChangeOffer(o) PROVE Attending!Change
    BY <2>2 DEF ChangeOffer, Attending!Change
  <2>3. ASSUME NEW x \in Inputs, NEW d \in Data, ChangeSource(x, d)
        PROVE  Attending!Change \/ Attending!Remind
    <3>1. UNCHANGED <<spec, offer, view>> /\ (due => due') /\ (late => late')
      BY <2>3 DEF ChangeSource
    <3>2. CASE x \in Referenced(offer)
      BY <2>3, <3>1, <3>2 DEF ChangeSource, Attending!Change, Attending!Remind
    <3>3. CASE x \notin Referenced(offer)
      <4>1. ASSUME NEW y \in Referenced(offer) \cap Secrets PROVE sources'[y] = sources[y]
        BY <2>3, <3>3, <4>1 DEF ChangeSource, TypeOK, Inputs
      <4>2. UNCHANGED copied
        BY <3>1, <4>1
      <4> QED BY <3>1, <4>2 DEF Attending!Remind
    <3> QED BY <3>2, <3>3
  <2>4. CASE ReadInputs
    BY <2>4 DEF ReadInputs, Attending!Take
  <2>5. CASE BuildFails
    BY <2>5 DEF BuildFails, Attending!Finish
  <2>6. CASE Pass
    BY <2>6 DEF Pass, Attending!Finish
  <2>7. CASE Crash
    BY <2>7 DEF Crash, Attending!Restart
  <2>8. CASE ComeUp \/ GoDown \/ UNCHANGED vars
    BY <2>8 DEF ComeUp, GoDown, vars, Attending!vars
  <2> QED BY <2>1, <2>2, <2>3, <2>4, <2>5, <2>6, <2>7, <2>8 DEF Next, Users, Work
<1> QED BY <1>1, <1>2, ProvisioningTyping, PTL DEF Spec, KeepsAttention, Attending!Spec
-----------------------------------------------------------------------------
(* Copies and their sources.                                               *)

CopiesInv == TypeOK /\ Attending!Aware /\ CopiesFollowSources

\* Of a pass that ends with nothing left undone, seen by the old values: a copy
\* holds what its source holds.
LEMMA PassCopies ==
  ASSUME TypeOK, view # NoView, NEW id \in Components(view.spec, view.offer),
         id.kind \in Copies, sources[id.name] # 0, crossplane # "down"
  PROVE  /\ id \in DOMAIN Written({})
         /\ Written({})[id].data = sources[id.name]
<1>1. ~ Versioned(id)
  BY DEF Versioned, Copies, Kinds
<1>2. id \in Applied({})
  BY <1>1 DEF Applied, Installable, DependencyReady
<1>3. Written({})[id] = Content(id, view.spec, view.offer, sources)
  BY <1>2, WrittenObjects
<1>4. id \in DOMAIN Written({})
  BY <1>2, WrittenObjects
<1>5. Content(id, view.spec, view.offer, sources).data = sources[id.name]
  BY DEF Content
<1> QED BY <1>3, <1>4, <1>5

\* A source that is copied for the instance is watched, the CA bundle excepted.
LEMMA CopiedIsWatched ==
  ASSUME NEW s \in SpecType, NEW o \in OfferType, NEW id \in Components(s, o),
         id.kind \in Copies
  PROVE  id.name = "ca" \/ id.name \in Referenced(o)
<1>1. CASE \E p \in s.packages : id = IdOf(p) \/ id = Id("runtime", p.name)
  BY <1>1, AskedOfPackage DEF Copies, IdOf, Id, Kinds
<1>2. CASE id \in {Release, CABundle, Id("runtime", "default")}
  BY <1>2 DEF Copies, Id, Release, CABundle
<1>3. CASE \E x \in CopiedSecrets(s, o) : id = Id("secret", x)
  BY <1>3, CopiesAreReferenced DEF Id
<1>4. CASE ChartSecret(s, o) # NoSecret /\ id = Id("platformSecret", ChartSecret(s, o))
  BY <1>4, CopiesAreReferenced DEF Id
<1> QED BY <1>1, <1>2, <1>3, <1>4 DEF Components

\* A copy that is not what its source is has an event or the timer to come:
\* nothing that is copied goes unwatched (isSecretReferencedInProviderConfig).
THEOREM CopiesAreFollowed == Spec => []CopiesFollowSources
<1>1. Init => CopiesFollowSources
  BY DEF Init, CopiesFollowSources
<1>2. CopiesInv /\ [Next]_vars => CopiesFollowSources'
  <2> SUFFICES ASSUME CopiesInv, [Next]_vars
               PROVE  CopiesFollowSources'
    OBVIOUS
  <2> USE DEF CopiesInv
  <2> SUFFICES ASSUME BuildOK(spec, offer)',
                      NEW id \in DOMAIN objects' \cap Components(spec, offer)',
                      id.kind \in Copies, sources'[id.name] # 0,
                      ~ due', ~ late', view' # [spec |-> spec, offer |-> offer]'
               PROVE  objects'[id].data = sources'[id.name]
    BY DEF CopiesFollowSources
  <2>1. ASSUME NEW s \in Specs, EditSpec(s) PROVE FALSE
    BY <2>1 DEF EditSpec
  <2>2. ASSUME NEW o \in Offers, ChangeOffer(o) PROVE FALSE
    BY <2>2 DEF ChangeOffer
  <2>3. ASSUME NEW x \in Inputs, NEW d \in Data, ChangeSource(x, d)
        PROVE  objects'[id].data = sources'[id.name]
    <3>1. ~ due /\ ~ late /\ x \notin Referenced(offer) /\ x # "ca"
      BY <2>3 DEF ChangeSource
    <3>2. UNCHANGED <<spec, offer, objects, view>>
      BY <2>3 DEF ChangeSource
    <3>3. id.name \in Inputs /\ id.name # x
      BY <3>1, <3>2, CopiedIsWatched, ComponentTypes, ProvisioningAssumption DEF TypeOK
    <3>4. sources'[id.name] = sources[id.name]
      BY <2>3, <3>3 DEF ChangeSource, TypeOK
    <3> QED BY <3>1, <3>2, <3>4 DEF CopiesFollowSources
  <2>4. CASE ReadInputs
    BY <2>4 DEF ReadInputs
  <2>5. CASE BuildFails
    BY <2>5 DEF BuildFails, Attending!Aware
  <2>6. CASE Pass
    <3>1. PICK F \in Setbacks :
            /\ objects' = Written(F) /\ late' = (late \/ F # {} \/ crossplane = "down")
      BY <2>6 DEF Pass
    <3>2. /\ F = {} /\ ~ late /\ ~ due /\ crossplane # "down" /\ view # NoView
          /\ UNCHANGED <<spec, offer, sources>>
      BY <2>6, <3>1 DEF Pass
    <3>3. view = [spec |-> spec, offer |-> offer]
      BY <3>2 DEF Attending!Aware
    <3> QED BY <3>1, <3>2, <3>3, PassCopies
  <2>7. CASE Crash
    BY <2>7 DEF Crash
  <2>8. CASE ComeUp \/ GoDown \/ UNCHANGED vars
    BY <2>8 DEF ComeUp, GoDown, vars, CopiesFollowSources
  <2> QED BY <2>1, <2>2, <2>3, <2>4, <2>5, <2>6, <2>7, <2>8 DEF Next, Users, Work
<1> QED BY <1>1, <1>2, ProvisioningTyping, Attentive, Awareness, PTL
        DEF Spec, CopiesInv, KeepsAttention

-----------------------------------------------------------------------------
(* What a reconcile writes.                                                *)

\* Only a pass, or a restart, ends a reconcile whose components were built.
LEMMA PassesBy ==
  ASSUME TypeOK, [Next]_vars, Passes
  PROVE  /\ \/ UNCHANGED objects /\ faults' # faults
            \/ \E F : objects' = Written(F) /\ (F # {} => faults' # faults)
         /\ UNCHANGED <<spec, offer, sources>>
<1>1. CASE Crash
  BY <1>1 DEF Crash, TypeOK
<1>2. CASE Pass
  <2>1. PICK F \in Setbacks : /\ faults' = IF F = {} THEN faults ELSE faults + 1
                              /\ objects' = Written(F)
    BY <1>2 DEF Pass
  <2>2. UNCHANGED <<spec, offer, sources>>
    BY <1>2 DEF Pass
  <2> QED BY <2>1, <2>2 DEF TypeOK
<1>3. ASSUME ~ Crash, ~ Pass PROVE FALSE
  BY <1>3 DEF Passes, Next, Users, Work, EditSpec, ChangeOffer, ChangeSource, ReadInputs,
     BuildFails, ComeUp, GoDown, vars
<1> QED BY <1>1, <1>2, <1>3

\* An object that is up to date refers to nothing that a reconcile removes or
\* leaves out, but for a source that is missing, a request that fails, or a
\* pass that waits for Crossplane.
THEOREM UsesKept == Spec => UsesAreKept
<1> DEFINE Kept ==
      Passes => \A id \in DOMAIN objects' \cap Components(view.spec, view.offer) :
        objects'[id].uses = Uses(id, view.spec, view.offer) =>
          \A u \in objects'[id].uses :
            \/ u \in DOMAIN objects'
            \/ /\ u \notin DOMAIN objects
               /\ \/ faults' # faults \/ crossplane = "down"
                  \/ (u.kind \in Copies /\ sources[u.name] = 0)
<1>1. TypeOK /\ [Next]_vars => Kept
  <2> SUFFICES ASSUME TypeOK, [Next]_vars, Passes,
                      NEW id \in DOMAIN objects' \cap Components(view.spec, view.offer),
                      NEW u \in Uses(id, view.spec, view.offer), u \notin DOMAIN objects'
               PROVE  /\ u \notin DOMAIN objects
                      /\ \/ faults' # faults \/ crossplane = "down"
                         \/ (u.kind \in Copies /\ sources[u.name] = 0)
    OBVIOUS
  <2>1. view.spec \in SpecType /\ view.offer \in OfferType
    BY ViewType, ProvisioningAssumption DEF Passes
  <2>2. u \in Components(view.spec, view.offer) /\ ~ Versioned(u)
    BY <2>1, UsesAreComponents
  <2>3. CASE UNCHANGED objects /\ faults' # faults
    BY <2>3
  <2>4. CASE \E F : objects' = Written(F) /\ (F # {} => faults' # faults)
    <3>1. PICK F : objects' = Written(F) /\ (F # {} => faults' # faults)
      BY <2>4
    <3>2. u \notin DOMAIN objects /\ u \notin Applied(F)
      BY <2>2, <3>1, WrittenObjects DEF Removed
    <3>3. F # {} \/ crossplane = "down" \/ (u.kind \in Copies /\ sources[u.name] = 0)
      BY <2>2, <3>2 DEF Applied, Installable, DependencyReady
    <3> QED BY <3>1, <3>2, <3>3
  <2> QED BY <2>3, <2>4, PassesBy
<1>2. Spec => [][Kept]_vars
  BY <1>1, ProvisioningTyping, PTL DEF Spec
<1> QED BY <1>2 DEF UsesAreKept

\* No provider or function of a spec has its name in the list of the other
\* kind, and none is called as the resolver calls Crossplane itself.
NoNamesakes ==
  /\ CrossplaneRelease \notin Names
  /\ \A s \in Specs, o \in Offers : \A p \in s.packages : \A k \in Kinds \ {p.kind} :
       \A i \in DOMAIN o.packages[k] : o.packages[k][i].name # p.name

\* The reference of a package is one on offer for it, if there is any.
LEMMA ReferenceIsOnOffer ==
  ASSUME NoNamesakes, NEW s \in Specs, NEW o \in Offers, NEW p \in s.packages
  PROVE  LET r == Reference(IdOf(p), s, o)
         IN IF OnOffer(p, o) = {} THEN r = Unresolved
            ELSE r # Unresolved /\ r \in OnOffer(p, o)
<1> DEFINE list == o.packages[p.kind]
<1>1. s \in SpecType /\ o \in OfferType
  BY ProvisioningAssumption
<1>2. p.kind \in Kinds /\ p.name \in Names /\ p.tag \in Tags
  BY <1>1, AskedOfPackage
<1>3. list \in Seq(PackageEntries)
  BY <1>1, <1>2 DEF OfferType
<1>4. Reference(IdOf(p), s, o) =
        IF Matches(list, p.name, p.tag) # {} THEN First(list, p.name, p.tag) ELSE Unresolved
  <2>1. Reference(IdOf(p), s, o) = Resolve(o, p.name, p.tag)
    BY <1>1, AskedOfPackage DEF Reference
  <2>2. p.name # CrossplaneRelease
    BY <1>2 DEF NoNamesakes
  <2> QED BY <1>1, <1>2, <2>1, <2>2, ResolveByKind DEF NoNamesakes
<1>5. CASE Matches(list, p.name, p.tag) # {}
  <2>1. PICK i \in DOMAIN list :
          /\ list[i].name = p.name /\ list[i].tag \in Tags /\ list[i].tag.number = p.tag.number
          /\ First(list, p.name, p.tag) = [package |-> list[i].package, tag |-> list[i].tag]
    <3>1. \A l \in Seq(PackageEntries) : \A name : \A tag \in Tags :
            Matches(l, name, tag) # {} =>
              \E i \in DOMAIN l :
                /\ l[i].name = name /\ l[i].tag \in Tags /\ l[i].tag.number = tag.number
                /\ First(l, name, tag) = [package |-> l[i].package, tag |-> l[i].tag]
      BY FirstIsOffered
    <3> HIDE DEF list
    <3> QED BY <1>2, <1>3, <1>5, <3>1
  <2>2. list[i] \in PackageEntries
    BY <1>3
  <2>3. First(list, p.name, p.tag) \in OnOffer(p, o)
    BY <2>1, <2>2 DEF OnOffer
  <2>4. First(list, p.name, p.tag) # Unresolved
    <3>1. NoTag \notin Tags
      BY OfferAssumption DEF NoTag, Tags
    <3>2. First(list, p.name, p.tag).tag = list[i].tag
      BY <2>1
    <3>3. Unresolved.tag = NoTag
      BY DEF Unresolved
    <3> QED BY <2>1, <3>1, <3>2, <3>3
  <2> QED BY <1>4, <1>5, <2>3, <2>4
<1>6. CASE Matches(list, p.name, p.tag) = {}
  <2>1. OnOffer(p, o) = {}
    BY <1>2, <1>3, <1>6, OfferedIsMatched DEF OnOffer
  <2> QED BY <1>4, <1>6, <2>1
<1> QED BY <1>5, <1>6

\* With names of their own, the packages a reconcile writes are those the
\* ProviderConfig lists for their kind, and none of these is left out once
\* Crossplane is healthy.
THEOREM AllowListIsKept ==
  ASSUME NoNamesakes
  PROVE  Spec => AllowList
<1> DEFINE Allowed ==
      Passes => \A p \in view.spec.packages :
         LET id == IdOf(p) IN
         /\ id \in DOMAIN objects' /\ (id \in DOMAIN objects => objects'[id] # objects[id]) =>
              objects'[id].reference \in OnOffer(p, view.offer)
         /\ OnOffer(p, view.offer) # {} /\ faults' = faults /\ crossplane # "down" =>
              id \in DOMAIN objects' /\ objects'[id].reference \in OnOffer(p, view.offer)
<1>1. TypeOK /\ [Next]_vars => Allowed
  <2> SUFFICES ASSUME TypeOK, [Next]_vars, Passes, NEW p \in view.spec.packages
               PROVE  LET id == IdOf(p) IN
         /\ id \in DOMAIN objects' /\ (id \in DOMAIN objects => objects'[id] # objects[id]) =>
              objects'[id].reference \in OnOffer(p, view.offer)
         /\ OnOffer(p, view.offer) # {} /\ faults' = faults /\ crossplane # "down" =>
              id \in DOMAIN objects' /\ objects'[id].reference \in OnOffer(p, view.offer)
    OBVIOUS
  <2> DEFINE id == IdOf(p)
             r  == Reference(id, view.spec, view.offer)
  <2>1. view.spec \in Specs /\ view.offer \in Offers
    BY ViewType DEF Passes
  <2>2. IF OnOffer(p, view.offer) = {} THEN r = Unresolved
        ELSE r # Unresolved /\ r \in OnOffer(p, view.offer)
    BY <2>1, ReferenceIsOnOffer
  <2>3. id \in Components(view.spec, view.offer) /\ Versioned(id) /\ id.kind \notin Copies
    <3>1. p.kind \in Kinds /\ Versioned(id)
      BY <2>1, AskedOfPackage, ProvisioningAssumption
    <3> QED BY <3>1 DEF Components, IdOf, Id, Kinds, Copies
  <2>4. CASE UNCHANGED objects /\ faults' # faults
    BY <2>4
  <2>5. CASE \E F : objects' = Written(F) /\ (F # {} => faults' # faults)
    <3>1. PICK F : objects' = Written(F) /\ (F # {} => faults' # faults)
      BY <2>5
    <3>2. /\ id \in Applied(F) => r # Unresolved
          /\ id \notin F /\ r # Unresolved /\ crossplane # "down" => id \in Applied(F)
      BY <2>3 DEF Applied, Installable, DependencyReady
    <3>3. id \in Applied(F) => id \in DOMAIN objects' /\ objects'[id].reference = r
      <4>1. Content(id, view.spec, view.offer, sources).reference = r
        BY DEF Content
      <4>2. id \in Applied(F) => id \in DOMAIN Written(F)
        BY WrittenObjects
      <4>3. id \in Applied(F) =>
              Written(F)[id] = Content(id, view.spec, view.offer, sources)
        <5> HIDE DEF id
        <5> QED BY <4>2, WrittenObjects
      <4> QED BY <3>1, <4>1, <4>2, <4>3
    <3>4. id \in DOMAIN objects' /\ id \notin Applied(F) =>
            id \in DOMAIN objects /\ objects'[id] = objects[id]
      BY <3>1, WrittenObjects
    <3> HIDE DEF id, r
    <3> QED BY <2>2, <3>1, <3>2, <3>3, <3>4 DEF id
  <2> QED BY <2>4, <2>5, PassesBy
<1>2. Spec => [][Allowed]_vars
  BY <1>1, ProvisioningTyping, PTL DEF Spec
<1> QED BY <1>2 DEF AllowList
-----------------------------------------------------------------------------
(* Quiet means settled.                                                    *)

\* A pass without a setback leaves what the worker has read, and nothing else.
LEMMA PassSettles ==
  ASSUME objects' = Written({}), UNCHANGED <<spec, offer, sources>>,
         view.spec = spec, view.offer = offer, crossplane # "down"
  PROVE  Settled'
<1> DEFINE wanted == Components(spec, offer)
<1>1. DOMAIN objects' \subseteq wanted
  <2>1. DOMAIN objects' = (DOMAIN objects \ Removed({})) \cup Applied({})
    BY WrittenObjects
  <2>2. Removed({}) = DOMAIN objects \ wanted
    BY DEF Removed
  <2>3. Applied({}) \subseteq wanted
    BY DEF Applied
  <2> HIDE DEF wanted
  <2> QED BY <2>1, <2>2, <2>3
<1>2. ASSUME NEW id \in wanted, Installable(id, spec, offer),
             id.kind \in Copies => sources[id.name] # 0
      PROVE  id \in DOMAIN objects' /\ objects'[id] = Content(id, spec, offer, sources)
  <2>1. id \in Applied({})
    BY <1>2 DEF Applied, DependencyReady
  <2> QED BY <2>1, WrittenObjects
<1> QED BY <1>1, <1>2 DEF Settled

\* A secret that is not copied for the instance changes nothing about it.
LEMMA OtherSourcesDoNotMatter ==
  ASSUME Settled, UNCHANGED <<spec, offer, objects>>,
         \A id \in Components(spec, offer) :
           id.kind \in Copies => sources'[id.name] = sources[id.name]
  PROVE  Settled'
<1>1. ASSUME NEW id \in Components(spec, offer)
      PROVE  Content(id, spec, offer, sources') = Content(id, spec, offer, sources)
  BY <1>1 DEF Content
<1> QED BY <1>1 DEF Settled

QuietInv == TypeOK /\ Attending!Aware /\ QuietIsSettled

\* For every set of specs and ProviderConfigs and from whatever is left of
\* earlier ones: whatever a reconcile waits for, fails at or has read too early
\* is in the queue or left to the timer; where neither has anything to do, the
\* control plane is as the spec and the ProviderConfig say, to the contents.
THEOREM QuietMeansSettled == Spec => []QuietIsSettled
<1>1. Init => QuietIsSettled
  BY DEF Init, QuietIsSettled
<1>2. QuietInv /\ [Next]_vars => QuietIsSettled'
  <2> SUFFICES ASSUME TypeOK, Attending!Aware, QuietIsSettled, [Next]_vars,
                      view' = NoView, ~ due', ~ late', BuildOK(spec, offer)'
               PROVE  Settled'
    BY DEF QuietIsSettled, QuietInv
  <2>1. ASSUME NEW s \in Specs, EditSpec(s) PROVE FALSE
    BY <2>1 DEF EditSpec
  <2>2. ASSUME NEW o \in Offers, ChangeOffer(o) PROVE FALSE
    BY <2>2 DEF ChangeOffer
  <2>3. ASSUME NEW x \in Inputs, NEW d \in Data, ChangeSource(x, d) PROVE Settled'
    <3>1. ~ due /\ ~ late /\ x \notin Referenced(offer) /\ x # "ca"
      BY <2>3 DEF ChangeSource
    <3>2. UNCHANGED <<spec, offer, objects, view>>
      BY <2>3 DEF ChangeSource
    <3>3. Settled
      BY <3>1, <3>2 DEF QuietIsSettled
    <3>4. ASSUME NEW id \in Components(spec, offer), id.kind \in Copies
          PROVE  sources'[id.name] = sources[id.name]
      <4>1. id.name \in Inputs /\ id.name # x
        BY <3>1, <3>4, CopiedIsWatched, ComponentTypes, ProvisioningAssumption DEF TypeOK
      <4> QED BY <2>3, <4>1 DEF ChangeSource, TypeOK
    <3> QED BY <3>2, <3>3, <3>4, OtherSourcesDoNotMatter
  <2>4. CASE ReadInputs
    BY <2>4, ProvisioningAssumption DEF ReadInputs, TypeOK
  <2>5. CASE BuildFails
    BY <2>5 DEF BuildFails, Attending!Aware
  <2>6. CASE Pass
    <3>1. PICK F \in Setbacks :
            /\ objects' = Written(F) /\ late' = (late \/ F # {} \/ crossplane = "down")
      BY <2>6 DEF Pass
    <3>2. /\ F = {} /\ ~ late /\ ~ due /\ crossplane # "down" /\ view # NoView
          /\ UNCHANGED <<spec, offer, sources>>
      BY <2>6, <3>1 DEF Pass
    <3>3. view = [spec |-> spec, offer |-> offer]
      BY <3>2 DEF Attending!Aware
    <3>4. view.spec = spec /\ view.offer = offer
      BY <3>3
    <3> QED BY <3>1, <3>2, <3>4, PassSettles
  <2>7. CASE Crash
    BY <2>7 DEF Crash
  <2>8. CASE ComeUp \/ GoDown \/ UNCHANGED vars
    <3>1. UNCHANGED <<spec, offer, sources, objects, view, due, late>>
      BY <2>8 DEF ComeUp, GoDown, vars
    <3> QED BY <3>1 DEF QuietIsSettled, Settled
  <2> QED BY <2>1, <2>2, <2>3, <2>4, <2>5, <2>6, <2>7, <2>8 DEF Next, Users, Work
<1> QED BY <1>1, <1>2, ProvisioningTyping, Attentive, Awareness, PTL
        DEF Spec, QuietInv, KeepsAttention
=============================================================================
