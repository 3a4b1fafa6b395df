---------------------------- MODULE Provisioning -----------------------------
(***************************************************************************)
(* The objects the operator keeps on a control plane for one Crossplane    *)
(* instance, while its spec, the ProviderConfig and the secrets it copies  *)
(* change under it.  One action per reconcile that has got as far as       *)
(* createOrUpdateCrossplaneInstance; access, finalizers, conditions and    *)
(* deletion are the subject of CrossplaneReconciler.                       *)
(***************************************************************************)
EXTENDS Offer

CONSTANTS Specs,      \* the specs a user may write
          Offers,     \* the ProviderConfigs an admin may write
          NoView,     \* no reconcile is under way
          MaxEdits,   \* bound: writes by users and admins
          MaxFaults,  \* bound: passes in which something fails
          MaxFailing  \* bound: components that fail in one pass

ASSUME ProvisioningAssumption ==
  /\ Specs \subseteq SpecType /\ Offers \subseteq OfferType
  /\ NoView \notin [spec : Specs, offer : Offers]
  /\ {MaxEdits, MaxFaults, MaxFailing} \subseteq Nat

VARIABLES
  spec, offer,   \* what the user and the admin have written
  sources,       \* data of the secrets and the CA bundle to copy; 0 if missing
  objects,       \* the objects of the instance, by kind and name
  crossplane,    \* whether Crossplane is healthy; "outdated" if what it says
                 \* of itself is still about the release before
  view,          \* the spec and the ProviderConfig a reconcile has read
  due,           \* an event has put the instance into the work queue
  late,          \* history: an event was dropped, or a pass left something
                 \* undone or waiting; all that is left to the requeue timer
  edits, faults  \* counters of the two bounds

vars == <<spec, offer, sources, objects, crossplane, view, due, late, edits, faults>>

Ids == [kind : Kinds \cup Copies \cup {"release", "runtime"},
        name : Names \cup Secrets \cup {CrossplaneRelease, "default", "ca"}]
References == [package : Images \cup {NoImage, CrossplaneRelease}, tag : Tags] \cup {Unresolved}

Inputs == Secrets \cup {"ca"}
Data   == 0..2

TypeOK ==
  /\ spec \in Specs /\ offer \in Offers
  /\ sources \in [Inputs -> Data]
  /\ DOMAIN objects \subseteq Ids
  /\ \A id \in DOMAIN objects :
       /\ objects[id] \in [reference : References, uses : SUBSET Ids, data : Data]
       /\ Versioned(id) <=> objects[id].reference # Unresolved
       /\ id.kind \in Copies <=> objects[id].data # 0
  /\ crossplane \in {"down", "outdated", "up"}
  /\ view = NoView \/ view \in [spec : Specs, offer : Offers]
  /\ due \in BOOLEAN /\ late \in BOOLEAN
  /\ edits \in 0..MaxEdits /\ faults \in 0..MaxFaults

Init ==
  /\ spec \in Specs /\ offer \in Offers
  /\ sources = [x \in Inputs |-> 1] /\ objects = [id \in {} |-> {}]
  /\ crossplane = "down" /\ view = NoView /\ due = TRUE /\ late = FALSE
  /\ edits = 0 /\ faults = 0
-----------------------------------------------------------------------------
Edit == edits < MaxEdits /\ edits' = edits + 1

EditSpec(new) ==
  /\ Edit /\ new # spec /\ spec' = new /\ due' = TRUE
  /\ UNCHANGED <<offer, sources, objects, crossplane, view, late, faults>>

\* Mutant: an event in the middle of a reconcile is taken for its own.
ChangeOfferMeanwhile(new) ==
  /\ Edit /\ new # offer /\ offer' = new
  /\ due' = (due \/ view = NoView)
  /\ UNCHANGED <<spec, sources, objects, crossplane, view, late, faults>>

\* The event of the ProviderConfigReconciler may be dropped.
ChangeOffer(new) ==
  /\ Edit /\ new # offer /\ offer' = new
  /\ \/ due' = TRUE /\ UNCHANGED late
     \/ late' = TRUE /\ UNCHANGED due
  /\ UNCHANGED <<spec, sources, objects, crossplane, view, faults>>

\* A source is created, rotated or deleted.  mapSecretToRequests knows the
\* secrets of the ProviderConfig; the CA bundle is not watched.
ChangeSource(x, data) ==
  /\ Edit /\ data # sources[x] /\ sources' = [sources EXCEPT ![x] = data]
  /\ due' = (due \/ x \in Referenced(offer)) /\ late' = (late \/ x = "ca")
  /\ UNCHANGED <<spec, offer, objects, crossplane, view, faults>>

\* Reconcile, by an event or by the requeue timer.
ReadInputs ==
  /\ view = NoView /\ view' = [spec |-> spec, offer |-> offer]
  /\ due' = FALSE /\ late' = FALSE
  /\ UNCHANGED <<spec, offer, sources, objects, crossplane, edits, faults>>

\* buildComponents fails: nothing is touched.
BuildFails ==
  /\ view # NoView /\ view' = NoView /\ ~ BuildOK(view.spec, view.offer)
  /\ UNCHANGED <<spec, offer, sources, objects, crossplane, due, late, edits, faults>>

\* Everything but Crossplane waits until that is healthy.
DependencyReady(id) == id # Release => crossplane # "down"

\* Mutant: a package that cannot be resolved is applied all the same.
AppliedUnresolved(F) ==
  {id \in Components(view.spec, view.offer) \ F :
     /\ DependencyReady(id)
     /\ id.kind \in Copies => sources[id.name] # 0}

\* A pass over the components and the orphans, that is all other objects.  F
\* are those whose requests fail; a package that cannot be resolved is left as
\* it is, and so is a copy without a source.
Applied(F) ==
  {id \in Components(view.spec, view.offer) \ F :
     /\ DependencyReady(id) /\ Installable(id, view.spec, view.offer)
     /\ id.kind \in Copies => sources[id.name] # 0}
Removed(F) == (DOMAIN objects \ Components(view.spec, view.offer)) \ F

\* Mutant: an object that is there is left as it is.
WrittenOnce(F) ==
  [id \in (DOMAIN objects \ Removed(F)) \cup Applied(F) |->
     IF id \in DOMAIN objects THEN objects[id]
     ELSE Content(id, view.spec, view.offer, sources)]

Written(F) ==
  LET applied == Applied(F)
  IN [id \in (DOMAIN objects \ Removed(F)) \cup applied |->
        IF id \in applied THEN Content(id, view.spec, view.offer, sources)
        ELSE objects[id]]

\* All goes well, or some requests fail.
Setbacks ==
  LET all  == Components(view.spec, view.offer) \cup DOMAIN objects
      some == {{f[k] : k \in 1..MaxFailing} : f \in [1..MaxFailing -> all]}
  IN IF faults = MaxFaults THEN {{}} ELSE some \cup {{}}

\* A release that was there is rolled out anew when it changes.
Pass ==
  /\ view # NoView /\ BuildOK(view.spec, view.offer)
  /\ view' = NoView
  /\ UNCHANGED <<spec, offer, sources, due, edits>>
  /\ \E F \in Setbacks :
       /\ faults' = IF F = {} THEN faults ELSE faults + 1
       /\ late' = (late \/ F # {} \/ crossplane = "down")
       /\ objects' = Written(F)
       /\ crossplane' = IF crossplane = "up" /\ objects'[Release] # objects[Release]
                        THEN "outdated" ELSE crossplane

\* Flux rolls the release out, and may find it unhealthy meanwhile.
ComeUp ==
  /\ Release \in DOMAIN objects /\ crossplane # "up" /\ crossplane' = "up"
  /\ UNCHANGED <<spec, offer, sources, objects, view, due, late, edits, faults>>
GoDown ==
  /\ crossplane = "outdated" /\ crossplane' = "down"
  /\ UNCHANGED <<spec, offer, sources, objects, view, due, late, edits, faults>>

\* The operator restarts; its watches list everything.
Crash ==
  /\ view # NoView /\ faults < MaxFaults /\ faults' = faults + 1
  /\ view' = NoView /\ due' = TRUE
  /\ UNCHANGED <<spec, offer, sources, objects, crossplane, late, edits>>

Users == \/ \E s \in Specs : EditSpec(s)
         \/ \E o \in Offers : ChangeOffer(o)
         \/ \E x \in Inputs, d \in Data : ChangeSource(x, d)
Work == BuildFails \/ Pass

Next == Users \/ ReadInputs \/ Work \/ ComeUp \/ GoDown \/ Crash

Spec == Init /\ [][Next]_vars

\* The timer never stops (updateStatus), a reconcile comes to its end, and so
\* does the roll-out of a release.
Fairness == WF_vars(ReadInputs) /\ WF_vars(Work) /\ WF_vars(ComeUp)
FairSpec == Spec /\ Fairness
-----------------------------------------------------------------------------
\* The references on offer for a package of a spec, by its kind and name.
OnOffer(p, o) ==
  {[package |-> e.package, tag |-> e.tag] :
     e \in {o.packages[p.kind][i] : i \in DOMAIN o.packages[p.kind]} \cap
            {e \in PackageEntries : e.name = p.name /\ e.tag.number = p.tag.number}}

Passes == view # NoView /\ view' = NoView /\ BuildOK(view.spec, view.offer)

\* The ProviderConfig is an allow-list for each kind: a reconcile writes no
\* package it has not found there, and whatever is there gets written unless
\* something fails or Crossplane is not healthy (GetResolverFunc, ReconcileObject of the packages).
AllowList ==
  [][Passes => \A p \in view.spec.packages :
       LET id == IdOf(p) IN
       /\ id \in DOMAIN objects' /\ (id \in DOMAIN objects => objects'[id] # objects[id]) =>
            objects'[id].reference \in OnOffer(p, view.offer)
       /\ OnOffer(p, view.offer) # {} /\ faults' = faults /\ crossplane # "down" =>
            id \in DOMAIN objects' /\ objects'[id].reference \in OnOffer(p, view.offer)]_vars

\* Whatever an object that is up to date refers to is there as well, its pull
\* secrets in particular, however the lists of secrets overlap and change: if
\* not, it had not been there before and could not be copied yet (buildComponents
\* and the detection of orphans).
UsesAreKept ==
  [][Passes => \A id \in DOMAIN objects' \cap Components(view.spec, view.offer) :
       objects'[id].uses = Uses(id, view.spec, view.offer) =>
         \A u \in objects'[id].uses :
           \/ u \in DOMAIN objects'
           \/ /\ u \notin DOMAIN objects
              /\ \/ faults' # faults \/ crossplane = "down"
                 \/ (u.kind \in Copies /\ sources[u.name] = 0)]_vars

\* The work queue and the timer, as ever so many instances, events and channels
\* provide them (EventDelivery, where the same is checked).
Attending == INSTANCE Attention WITH
  Nothing <- NoView,
  wanted  <- [spec |-> spec, offer |-> offer],
  copied  <- [x \in Referenced(offer) \cap Secrets |-> sources[x]],
  taken   <- view

\* No step loses a reminder before the worker has read what it was about
\* (mapSecretToRequests, ProviderConfigReconciler.Reconcile, doReconcile).
KeepsAttention == Attending!Spec

\* A copy that is out of date is not left to the timer: a secret is watched
\* wherever it is copied from, and no change falls between the event, the
\* reading of the ProviderConfig and the pass (mapSecretToRequests,
\* isSecretReferencedInProviderConfig, buildAllSecretComponents).
CopiesFollowSources ==
  BuildOK(spec, offer) =>
    \A id \in DOMAIN objects \cap Components(spec, offer) :
      \/ id.kind \notin Copies \/ sources[id.name] = 0
      \/ objects[id].data = sources[id.name]
      \/ due \/ late \/ view = [spec |-> spec, offer |-> offer]

Settled ==
  /\ DOMAIN objects \subseteq Components(spec, offer)
  /\ \A id \in Components(spec, offer) :
       Installable(id, spec, offer) /\ (id.kind \in Copies => sources[id.name] # 0) =>
         id \in DOMAIN objects /\ objects[id] = Content(id, spec, offer, sources)

\* When no event is on its way, nothing waits for the timer and no reconcile is
\* under way, the control plane is as it should be: whatever a pass could not do
\* yet, and whatever changed since it read its inputs, leaves a trace for the
\* next (createOrUpdateCrossplaneInstance, doReconcileComponents).
QuietIsSettled ==
  view = NoView /\ ~ due /\ ~ late /\ BuildOK(spec, offer) => Settled

\* Once nobody changes anything any more, the control plane holds what the spec
\* and the ProviderConfig say, to the contents, and nothing else; a package
\* that is not offered or a secret that is missing keeps nothing else from
\* getting there (createOrUpdateCrossplaneInstance).
ContentsSettle == <>[](BuildOK(spec, offer) => Settled)
=============================================================================
