# Verification of service-provider-crossplane

TLA+ models of the operator in `src/`, TLC configurations that model-check them
on small instances, and TLAPS proofs of their main safety properties for every
value of the constants.

The operator watches `Crossplane` instances on an *onboarding cluster*. For each
one it requests access to a control plane (an MCP cluster) and installs Crossplane
there: a Flux `HelmRelease` and `OCIRepository` on the *platform cluster*, and
providers, functions, runtime configs, pull secrets and a CA bundle on the control
plane. What may be installed is offered by one `ProviderConfig` on the platform
cluster.

## Inventory

| part | state it keeps | operations | talks to | hard behaviour | correct when |
|---|---|---|---|---|---|
| `CrossplaneReconciler` (`internal/controller/crossplane_controller.go`) | finalizers, conditions and phase of the instance; a local copy of the instance during a reconcile | `Reconcile` and its handlers: annotation, access, install, delete in two phases, cleanup of the access, status | all clusters, cluster-access library, juggler | interleaving with edits; optimistic-lock conflicts; crash between two requests; failing requests; order of finalizers; stale `ProviderConfig` | nothing is orphaned; the access goes last; no edit is lost; Ready is only said of what is ready; deletions end; the last spec gets installed |
| Status (`internal/controller/status.go`) | - | `computePhase`, `smartRequeueConditional`, `overrideCondition` | `Reconcile` | conditions merge over reconciles | phase and requeue fit the conditions |
| Component set (`buildComponents`, `pkg/component`) | - | build, installable, dependencies, health, orphans, hook | juggler | same pass installs, removes orphans and reports on both; a component that fails must not hold up the others; lists of secrets overlap | the control plane holds what spec and ProviderConfig say, and nothing refers to what is not there |
| `ProviderConfigReconciler` (`providerconfig_controller.go`) | channel of 128 events | list the instances, send an event for each, drop it after 1 s | `Reconcile`'s queue | lost events | a change is seen in the end |
| Secret watch (`mapSecretToRequests`) | - | map a secret to all instances | `Reconcile`'s queue | an error loses the event | a change is seen in the end |
| Version resolver (`GetResolverFunc`, `tolerantResolverFunc`) | - | look a name and version up in the `ProviderConfig` | component set | provider and function of one name; `v` prefixes | finds what is offered for the kind, and nothing else |
| Secret components (`buildAllSecretComponents`, `secret_component.go`, `platform_secret_component.go`) | - | deduplicate, prefix, copy | component set | overlapping lists, fallback for functions, missing or rotated source | copies follow their sources; no secret in use is removed |
| Cluster access (library) | AccessRequest | reconcile, delete | `Reconcile` | pending and terminating states | external |
| Flux, Crossplane package manager | releases, packages, revisions | install, finalize, garbage-collect | objects | packages need a running Crossplane to be finalized | external |
| `pkg/crossplane` | - | names of packages, runtime configs | component set | - | an object refers to what the component set installs |
| `pkg/utils`, `internal/scheme`, `api`, `cmd` | - | labels, schemes, types, process start | - | errors of `init` are ignored | not modelled |

The parts interact through Kubernetes objects only: the reconciler and the user
share the instance (spec and annotations by the user, finalizers and status by the
reconciler), the reconciler and admins share the `ProviderConfig`, the reconciler
and the other operators share AccessRequest, releases and packages. The hazards of
this are listed one by one, each at its line, in `PROJECT.json`.

## Modules

| module | models | code |
|---|---|---|
| `Status` | phase, requeue and merge of conditions | `status.go`, `updateStatus` |
| `Components` | the component set and what an install or a delete pass does to objects and conditions | `buildComponents`, `createOrUpdateCrossplaneInstance`, `deleteComponents`, `registerReconcilers`, `pkg/component` |
| `CrossplaneReconciler` | the state, and the worker's handler, one action per call to an API server | `Reconcile` and everything it calls |
| `CrossplaneSystem` | the reconciler with users, admins, the other operators and crashes; all properties | the system |
| `ManagedInstance` | abstract specification: the order in which instance, access, guard and resources come and go | what the two finalizers promise |
| `Attention` | abstract specification: a worker and the inputs of one instance; no change goes by without a reminder | what watches, channel, queue and timers owe an instance |
| `EventDelivery` | how changes of the `ProviderConfig`, its secrets and the CA bundle reach several instances | `providerconfig_controller.go`, `mapSecretToRequests`, `SetupWithManager`, the channel of `main.go` |
| `Offer` | what a ProviderConfig offers and what one spec makes of it, as pure operators: resolver, pull secrets, components, contents of the objects | `GetResolverFunc`, `buildComponents` and its helpers, `isSecretReferencedInProviderConfig`, `ReconcileObject` of the components |
| `Provisioning` | the objects of one instance on its control plane while spec, ProviderConfig and sources of copies change | `createOrUpdateCrossplaneInstance`, the watches, `pkg/component` |
| `MCCrossplane`, `MCEventDelivery`, `MCProvisioning` | instances for TLC | - |
| `CrossplaneTyping`, `CrossplaneSafety`, `CrossplaneGuards`, `CrossplaneReady`, `CrossplaneUpkeep` | theorems and proofs about `CrossplaneSystem` | - |
| `DeliveryProofs` | theorems and proofs about `EventDelivery` | - |
| `OfferFacts` | lemmas about the operators of `Offer` | - |
| `ProvisioningProofs` | theorems and proofs about `Provisioning` | - |

`CrossplaneReconciler` EXTENDS `Components` and instantiates `Status`;
`CrossplaneSystem` EXTENDS `CrossplaneReconciler` and instantiates
`ManagedInstance` under a refinement mapping; the proof modules extend
`CrossplaneSystem` in a chain. `EventDelivery` stands beside these: it follows many
instances but of each only which versions of its inputs are installed, while
`CrossplaneReconciler` follows one instance in detail and sees of the delivery only
that a change of the `ProviderConfig` raises an event or none (`ChangeConfig`).
`Provisioning` EXTENDS `Offer` and looks at the same passes from the other side: it
has no finalizers, no conditions and no deletion, but knows what is in each object,
where `Components` knows only whether an object is there and healthy.

`Attention` ties the two together. It knows one instance, the inputs it is made of, what
the worker has read of them, and whether an event (`due`) or only a timer (`late`) will
bring the worker back. `EventDelivery` implements it once for every instance, and
`Provisioning` implements it with its own `due` and `late`. So what `Provisioning`
takes for granted about the delivery, that a change raises an event or is left to the
timer and that only a new reading answers it, is what the delivery is proved to do. The
other thing it takes for granted is that `ReadInputs` may happen at any time, that is
that the instance never drops out of the cycle: this is `NeverForgotten` of
`EventDelivery`, and of `CrossplaneSystem` for the handler in detail.

### State and code

* `xp` is the instance as the API server has it, `view` the worker's copy of it
  (`xp` in the Go code), `fresh` whether the resourceVersion of the copy is still
  the current one. A user's write clears `fresh`; the worker's own writes keep it,
  since the answer updates the copy. `client.Update` succeeds only while `fresh`.
* `config` is the worker's copy of `providerConfig`; the latter stands for what the
  cache of the platform cluster holds, so the delay of the cache is part of the
  admin's action.
* `access` is the AccessRequest; `obj` the state of each component's object; `rev` the
  packages that have revisions; `ver` the version the HelmRelease and each package
  were last set to. A release or a package is pending until it is healthy for the
  first time. When a pass gives it another version it is *outdated*: its conditions
  are still those of the version before, and say that it is healthy. It may become
  healthy in the new version right away, or be found *upgrading* first (`Upgrade`).
  A pass reports what the conditions say (`LooksHealthy`), of whatever version they are.
* An instance of an older release (`LegacyXP`) starts with the legacy finalizer and is as
  that release left it: with access granted and all components healthy, or with an
  AccessRequest that is pending or still to be made and no components.
* `step` is the place in the handler, named after what comes next; `rr` the
  `ReconcileResult`: conditions, whether there is an error, the smart requeue.
* `queued` says that the instance is in the work queue or will be after its
  backoff. Delays have no length: TLC sees every order they allow.
* A condition is absent, True or False; reasons, messages and times are left out.

Each action of `CrossplaneReconciler` is the code from one request to the next:
its guard is the branch taken, its failure disjunct is the error path of that
request. `Install`, `DeletePackages` and `DeleteRest` are a whole juggler pass, in
which any set `F` of components may fail; the list of orphans may fail before it
(`ListFails`). `UpdateStatus` merges conditions, computes the phase, patches and
decides on the requeue in one step, as `updateStatus` does.

In `EventDelivery`:

* `version` counts the writes to each input, `observed` says which versions were last
  installed for an instance, `refs` is the set of secrets the ProviderConfig names.
* `listing` says that the `ProviderConfigReconciler` is queued, `sending` for which
  instances its loop has still to send an event, `channel` is what the two
  reconcilers share, `queue` the work queue, `timers` the requeues to come. The
  one-second timeout has no length: `DropEvent` may happen whenever the channel is
  full, and only then.
* `worker` is one turn of `Reconcile`: started, ProviderConfig read, installed (or
  skipped, for an ignored instance). An instance in deletion counts as gone.
* A pass may end without an error and yet install nothing, or only a part: the access is
  pending, the version unknown, the source of a secret missing, Crossplane not healthy.
  `InstallPart` is that pass; `Parts` says which inputs may get through in it.
* `late` is a history variable: the instances whose event was dropped, or whose pass was
  held up, since the worker last began with them. What they wait for is the timer.

In `Offer` and `Provisioning`:

* A version is a number and whether it is written with a leading `v`; an image or a
  secret is its name. An entry of `availableProviders` with several versions is that
  many entries in the same order (one with `NoTag` if it has none), which gives the
  same search. Crossplane versions are compared to the letter, others after `Normalize`.
* A spec says for each kind whether its list is nil (`lists`), since an empty list
  that is not nil insists on an offer (`BuildOK`).
* `objects` maps kind and name to what the last pass wrote: the reference the resolver
  gave, what the object refers to, and the data it copied. `sources` holds the data
  of the secrets and the CA bundle in the operator's namespace, 0 for a missing one.
* `crossplane` says whether the release looks healthy: it is down until it has been rolled
  out (`ComeUp`), and when it changes it is outdated and may go down again (`GoDown`).
  While it is down everything but the release waits, without any fault: this is how
  every first pass ends.
* `view` is what a reconcile has read (`ReadInputs`); sources are read by the pass
  itself. `due` is the work queue, `late` the history: an event was dropped, the CA
  bundle has changed, which is not watched, or a pass left something undone or found
  Crossplane down.
* In a pass every component is applied by itself: one that cannot be resolved or
  whose source is missing keeps its old object. `Setbacks` are the sets of
  components whose requests fail on top of that.

### Assumptions on what is not in the repository

* API server: optimistic locking on updates; no new finalizers on an object in
  deletion; an object in deletion goes with its last finalizer. A status patch
  carries a resourceVersion only after a write of the same reconcile; the model
  lets it fail or succeed whenever the copy is outdated.
* Juggler: components of a pass do not see each other's effects; an installable
  component is applied when its dependencies are healthy; every managed object
  that is not desired is uninstalled; a component is reported from what was read
  before it was changed, so by the conditions of the version before. A disabled
  component that is not there gives no condition in an install pass.
  A package also depends on a runtime config without a name
  (`crossplaneprovider_component.go:129`), which no component is; the models leave this
  dependency out. The chart pull secret depends on Crossplane, too (`platform_secret_component.go:64`),
  although Crossplane's chart may need it; the model lets the release become healthy
  without it, that is it assumes charts that can be pulled (or a secret that is there).
* Secrets, config maps and runtime configs vanish at once when deleted. Packages
  are finalized, and their revisions collected, by a running Crossplane only.
* Health degrades only when a new version is rolled out.
* A copy of the instance that comes from a cache and is older than the instance at that
  time is not modelled; its writes would be refused like those of a copy that is
  overtaken later (`fresh`).
* controller-runtime: one worker per controller, a queue without duplicates in which
  an item that is being worked on may be queued again, and an event for everything
  that exists when the operator starts.
* A read that fails is the same as the failed write after it: the reconcile ends
  in the same error and is retried.

## Runs

Bounds are `MaxEdits` (writes by users and admins, the only unbounded behaviour of
theirs) and `MaxFaults` (crashes and requests that fail for no reason of their
own; conflicts do not count); in `Provisioning` also `MaxFailing`, the components
that fail by chance in one pass. `CHECK_DEADLOCK FALSE` is set where the system does
stop: without an instance, or with one that is ignored, once no more edits come.
In `provisioning` there is always an instance to be polled, and deadlock is checked.

| run | instance | checks | result |
|---|---|---|---|
| `safety` (`MCSafety`) | a provider, a function, a secret, two versions, two specs, three ProviderConfigs or none, 4 edits, 1 fault | types, nothing orphaned, Crossplane stays for its packages, access outlives components, no instance forgotten, no lost edit, Ready is earned, a deletion only removes, what is healthy is left alone, refinement of `ManagedInstance` | holds, 3.9 million states |
| `liveness` (`MCLiveness`) | a provider, a secret, two versions, two ProviderConfigs or none, 3 edits, 1 fault, starting with no instance or with one of an older release in any state | inductive invariant, guard kept and released last, deletions complete, the last spec gets installed, the status says so | holds, 970 thousand states |
| `delivery` (`MCDelivery`) | two instances, a secret, room for one event, 1 change, 1 fault, passes held up in all or for the secret | types and capacity, no change missed unless its event was dropped or a pass held up, no instance forgotten, no step backwards, refinement of `Attention`, every instance gets to see the last version of its inputs | holds, 840 thousand states |
| `provisioning` (`MCProvisioning`) | two names, three images, two secrets, two versions with and without `v`, three specs, three ProviderConfigs, 3 edits, 1 fault | types, copies follow their sources, what is quiet is settled, allow-list, what is used is kept, refinement of `Attention`, the contents settle | holds, 370 thousand states |
| `legacy_orphans` (`MCLegacy`) | a provider, legacy start, 2 edits | nothing orphaned | violated: finding 1 |
| `false_ready` (`MCFalseReady`) | no package, 2 edits, 1 fault | Ready means installed, without the excuse of an error | violated: finding 2 |
| `emptied_offer` (`MCEmptied`) | a provider, 3 edits | deletion needs nothing offered | violated: finding 3 |
| `stale_condition` (`MCStale`) | a provider, 2 edits | the phase becomes Ready | violated: finding 4 |
| `namesake` (`MCNamesake`) | a provider and a function of one name, 1 edit | allow-list | violated: finding 5 |
| `ignore_lost` (`MCIgnore`) | no package, 3 edits | an ignore annotation is kept | violated: finding 6 |
| `early_ready` (`MCEarlyReady`) | a provider in two versions, 2 edits | Ready means healthy in the version asked for | violated: finding 7 |
| `legacy_hangs` (`MCLegacyHangs`) | a provider, legacy start, 1 edit | the deletion of a legacy instance completes | violated: finding 8 |

Why these bounds show something: four edits are enough to create an instance,
change it to a spec with packages on another version, delete it and change the
ProviderConfig or re-create the instance, in any interleaving with the worker; one
fault is enough to crash or fail at any step of any of these. A second package of
each kind or a second secret would behave like the first: components of a kind are
treated alike and independently. The two specs differ in version and packages at
once, so that an edit is an upgrade, an addition and, backwards, a removal; the
three ProviderConfigs offer everything, nothing but versions, and everything but
the version and packages asked for.

For the delivery two instances and room for one event suffice for a full channel, for
an event that is dropped while another gets through, and for an instance that waits
while the worker is busy with the other. One change can hit any stage of the way of
each instance, after the listing and the first turns at the start; more changes are
left to the proofs, which cover all safety properties of this run for any numbers of
changes, instances and secrets. `EventuallySeen` is about what follows the last change,
and one change is checked: what an earlier one could leave behind (an instance in the
queue, the channel, the timers or the worker's hands) the start and the timers leave, too,
but a second change is a matter of TLC's time and not of a proof.

For the contents the three ProviderConfigs are chosen to differ where it matters:
between the first two the secrets change their places among chart, image, providers
and functions, one has the fallback for functions, an image that is the chart's, the CA
bundle and two entries of one provider with different images; the third has no
functions and lacks a version. The specs have no lists, both, and an empty list next
to one that is not. Three edits change spec, ProviderConfig and a source in any
order around the reading and the pass, or delete a source and bring it back; the
proofs below cover the safety properties for any ProviderConfigs.

### Properties

Safety, with the hazard in mind:

* `NoOrphans`: when an instance is gone so are components, revisions and
  AccessRequest, whatever crashed or conflicted on the way.
* `CrossplaneServesPackages`: Crossplane is there as long as a package or revision
  needs it to be finalized.
* `AccessOutlivesComponents`: access is granted as long as anything is owned.
* `GuardIsReleasedLast`: whoever removes the components finalizer leaves nothing
  behind, legacy instances included.
* `GuardIsForGood`: once the components finalizer covers what is owned it does so for
  good, also for an instance that started without it.
* `DeletionOnlyRemoves`: a reconcile that has seen the deletion creates nothing, and what
  others do to the objects meanwhile creates nothing either; a deletion does not chase
  what it installs itself.
* `LeavesAlone`: what is as the reconcile has read it to be is not touched, whichever of
  its requests fail: a healthy release or package is never taken down in passing.
* `NeverForgotten`: an instance that is not ignored is queued or in the worker's hands.
  Every way out of the handler, the early returns and failed requests included, has to
  end in a requeue, and an event that comes in the meantime must not be lost.
* `NoLostEdit`: no step of the operator changes a spec.
* `ReadyIsEarned`: a reconcile without error turns the phase to Ready only when all that
  was desired is there, has been healthy in some version, and was set to the version
  read (`Provided`). Two reconciles with different specs could mix their conditions.
* `ReadyIsCurrent`: and it is healthy in that very version (violated, finding 7).
* `KeepsThePromise`: the system implements `ManagedInstance`.
* `Coherent`: the inductive invariant (below).
* `NothingMissed`: an instance that is not up to date is being listed, sent to, in
  the channel, in the queue, in the hands of a worker that has read the present
  ProviderConfig, or else its event was dropped or its last pass was held up. No change
  falls between two stages.
* `NeverForgotten` of `EventDelivery`: the same of several instances that share a worker,
  whatever it was doing with one when that was annotated, deleted or re-created.
* `NeverBackwards`: what is installed for an instance never goes back to an earlier
  ProviderConfig, secret or CA bundle, however late the worker installs what it has read.
* `KeepsAttention`: `EventDelivery`, for each instance, and `Provisioning` implement
  `Attention`.
* `CopiesFollowSources`: a copy that differs from its source is being worked on, with
  the inputs of now, or queued, unless an event was dropped or a pass could not do
  everything. It ties `Referenced`, which decides whether a changed secret is of interest,
  to `CopiedSecrets` and `ChartSecret`, which are other functions over the same lists.
* `UsesAreKept`: after a pass an object that is up to date refers only to what is
  there, pull secrets in particular; what is missing was missing before, for want of
  a source or of Crossplane, or by a failure. No list of secrets may cost another one its secret.
* `AllowList`: a pass writes a package only with a reference on offer for its kind,
  name and version, and what is on offer gets written unless something fails or
  Crossplane is not healthy. It speaks of the lists of the ProviderConfig and not of the resolver.
* `QuietIsSettled`: when no event is due, nothing is left to the timer and no reconcile is
  under way, the control plane holds what spec, ProviderConfig and sources say at that
  moment, to the contents. Whatever a pass could not do, for want of Crossplane or of a
  source or by a failure, and whatever changed after it had read its inputs, must leave
  something that brings the worker back.
* `IgnoreIsKept`: only a user takes an ignore annotation away (violated, finding 6).

Liveness, under `Fairness`:

* `DeletionCompletes`: a deletion ends while the ProviderConfig offers packages of
  the kinds the instance uses, also of a legacy instance, unless that was deleted before
  its first reconcile (`DeletedTooEarly`).
* `LegacyDeletionCompletes`: the same without this exception (violated, finding 8).
* `Converges`: once edits stop, what the last spec and ProviderConfig ask for is
  installed and nothing else is left, even if events were dropped.
* `StatusSettles`: and the phase says Ready, unless a stale condition is left.
* `EventuallySeen`: once changes stop, every instance that is not ignored has the last
  version of the ProviderConfig, its secrets and the CA bundle, whatever was dropped,
  or else its passes are held up again and again (`InstallPart`).
* `ContentsSettle`: once changes stop, the control plane holds every component that
  can be installed, with the content the present inputs give, and nothing else,
  unless `buildComponents` fails for good.

`Fairness` is weak fairness of `Reconcile` (a controller-runtime worker keeps
serving its queue; backoff delays a retry but is bounded by five minutes in
`SetupWithManager`) and of each step of the other operators (they retry, too).
In `EventDelivery` the queue serves each instance in its turn: `Begin(i)` is strongly
fair, since the work queue is first in, first out and the timers of the others leave
it room; all other steps are weakly fair.
Nothing is assumed of a pass that is held up: access, Crossplane and a source may be
missing for ever, and `EventuallySeen` says so.
In `Provisioning` reading and working are weakly fair: the requeue timer never stops,
since every reconcile ends in `updateStatus`, and a reconcile comes to its end. So is
`ComeUp`: Flux rolls a release out in the end. No fairness makes a roll-out go through a
state that is not healthy (`Upgrade`, `GoDown`).
Users, admins, crashes and failed requests are under no obligation, and faults are
finite in number: a request that fails for ever blocks any operator.

### Findings

1. `legacy_orphans`: `setupClusterAccess` removes the legacy finalizer
   (`crossplane_controller.go:363`) long before the components finalizer is added
   (`:246`). If an instance of an older release is deleted while its access is
   requested, it goes and its components stay.
2. `false_ready`: when adding the components finalizer conflicts, the only
   condition of a new instance is `Reconciled=True`, and the phase turns to Ready
   with nothing installed (until the retry).
3. `emptied_offer`: `buildComponents` fails for an instance with providers once the
   list of available providers is empty (`:651`, functions `:678`), also when it is
   to be deleted; the deletion hangs.
4. `stale_condition`: a provider dropped from the spec before it was ever installed
   leaves a False condition (`:561`) that keeps the phase at Progressing for good.
5. `namesake`: the resolver is asked for a name and looks among the providers first
   (`:1064`, `:1077`). A function that has the name of a provider is installed with
   the provider's package, or not at all.
6. `ignore_lost`: the patch that removes the reconcile annotation (`:166`) removes by
   key; an ignore annotation a user sets after the instance was read goes with it, and
   the instance is reconciled.
7. `early_ready`: the conditions of a package are read without asking which version they
   are about (`crossplaneprovider_component.go:93`, the same for functions), and before
   Crossplane has seen what the pass writes. After a change of version the phase turns
   Ready on the health of the old version, until the next reconcile.
8. `legacy_hangs`: `setupClusterAccess` first adds the access finalizer (`:358`), which
   the API server refuses for an instance in deletion. A legacy instance that is
   deleted before its first reconcile keeps the legacy finalizer for ever, and its
   components stay.

## Proofs

About 3300 obligations, checked by TLAPS for every set of packages, specs and
ProviderConfigs and for unbounded numbers of edits and faults (the two bounds are
arbitrary naturals). The assumptions are `ComponentsAreDistinct` (names of packages
and of other components differ) and `SpecsAssumption` (constants have the right
types and there is at least one spec and one ProviderConfig). `OfferAssumption` and
`ProvisioningAssumption` say the same for `Offer` and `Provisioning`; `NoNamesakes` is
an assumption of one theorem only.

| theorem | module | states |
|---|---|---|
| `Typing` | `CrossplaneTyping` | `Spec => []TypeOK` |
| `Coherence` | `CrossplaneSafety` | `Spec => []Coherent` |
| `ServesPackages` | `CrossplaneSafety` | `Spec => []CrossplaneServesPackages` |
| `EditsAreKept` | `CrossplaneSafety` | `Spec => NoLostEdit` |
| `GuardOrder` | `CrossplaneGuards` | `Spec => GuardIsReleasedLast` |
| `NothingOrphaned` | `CrossplaneGuards` | `Spec => []NoOrphans` without a legacy instance |
| `AccessIsKept` | `CrossplaneGuards` | `Spec => []AccessOutlivesComponents` without a legacy instance |
| `Implements` | `CrossplaneGuards` | `Spec => KeepsThePromise` without a legacy instance |
| `GuardStays` | `CrossplaneGuards` | `Spec => GuardIsForGood`, with or without a legacy instance |
| `ReadyOnlyIfEarned` | `CrossplaneReady` | `Spec => ReadyIsEarned` |
| `NeverLeftAlone` | `CrossplaneUpkeep` | `Spec => []NeverForgotten` |
| `HealthIsLeftAlone` | `CrossplaneUpkeep` | `Spec => LeavesAlone` |
| `DeletionShrinks` | `CrossplaneUpkeep` | `Spec => DeletionOnlyRemoves` |
| `DeliveryTyping` | `DeliveryProofs` | `Spec => []TypeOK` of `EventDelivery`, the bound of the channel included |
| `NoChangeIsMissed` | `DeliveryProofs` | `Spec => []NothingMissed`, for any number of instances and secrets and any capacity |
| `NoneIsForgotten` | `DeliveryProofs` | `Spec => []NeverForgotten` of `EventDelivery` |
| `OnlyForwards` | `DeliveryProofs` | `Spec => NeverBackwards` |
| `NoReminderIsLost` | `DeliveryProofs` | `Spec => KeepsAttention`: every instance sees an implementation of `Attention` |
| `ProvisioningTyping` | `ProvisioningProofs` | `Spec => []TypeOK` of `Provisioning` |
| `Attentive` | `ProvisioningProofs` | `Spec => KeepsAttention` of `Provisioning` |
| `CopiesAreFollowed` | `ProvisioningProofs` | `Spec => []CopiesFollowSources` |
| `UsesKept` | `ProvisioningProofs` | `Spec => UsesAreKept` |
| `AllowListIsKept` | `ProvisioningProofs` | `Spec => AllowList` if no package of a spec has a namesake in the list of the other kind (`NoNamesakes`) |
| `QuietMeansSettled` | `ProvisioningProofs` | `Spec => []QuietIsSettled` |

None of the properties of `CrossplaneSystem` is inductive. What makes them so is `Coherent`:

* `ViewCoherent`: during a reconcile the finalizers of the copy are those of the
  instance, because only the worker writes them and an instance that has some
  cannot go; and a copy that is still fresh has the current spec.
* `StepCoherent`: what the handler has established at each step, e.g. that at the
  delete passes both finalizers are set and the access is granted, and that at
  `unguard` nothing is left.
* `AccessGuarded`: an AccessRequest exists only under the access finalizer or that of an
  older release, and the components finalizer only on a granted access.
* `CrossplaneServesPackages`: needed at the end of phase two, where the code knows
  that every object is gone but not that every revision is: without a running
  Crossplane there is none.

`Coherent` holds of every start, also of a legacy instance with a granted access. That components exist
only under their finalizer (`ComponentsGuarded`) does: it is false for a legacy
instance until the reconciler gets that far, which is finding 1. With
`~ LegacyUpgrade` it is inductive relative to `Coherent`, and `NoOrphans` and
`AccessOutlivesComponents` follow. `CrossplaneGuards` classifies every step of the
system by its effect on the guards (`StepKinds`); `GuardOrder`, the induction step
of `ComponentsGuarded` and the refinement are each one look at these kinds. That step
(`GuardedStep`) does not ask how the system started, so it also shows `GuardStays`: what
a legacy instance lacks is the beginning only.

`ReadyIsEarned` needs that what an install pass reported is still so when the status is
written. `ReadyInv` says that any result `updateStatus` can be given is an error, of a
deletion, has a False condition, or says what is `Provided` (`Vouched`); that only an instance in
deletion gets to the steps of a deletion (`OnCourse`); and that objects without
finalizers are never deleting and have no versions (`AuxPlain`), or a pass could report
one as healthy that is on its way out. Users and the other operators may take the health
of a new version away, but not that it was healthy once (`OthersKeepProvided`).
`GoodPass` shows that a pass which reports nothing bad does not
itself spoil what it reported on.

`NeverForgotten` becomes inductive as `Remembered`: the worker counts as having an
instance in its hands only while the result it carries asks for a requeue, and one that
asks for none is on its way to the status. `AlwaysAgain` says that
`smartRequeueConditional` never turns a wish to come back into none. `LeavesAlone` uses
`ReadyInv` once more: up to date means that nothing is being deleted, so nobody else has
a step to take on it. `DeletionOnlyRemoves` needs `InstallsAlive`, that the handler does
not get to the steps of an installation with a copy in deletion; that the copy cannot be
outdated in this is `ViewCoherent`.

`NothingMissed` is inductive together with `TypeOK` and `ReadCoherent`, which says that
nothing goes back in time: the version installed for an instance is not later than the
one the worker has read for it, and the latter comes with its own list of secrets.
Without it a worker that is late could overwrite a newer installation. The proof
follows an event on its way (`EventMoves`), a turn of the worker (`WorkerDelivers`) and
the writes of users and admins (`ChangesAreSeen`). `NeverBackwards` adds to `ReadCoherent`
that nothing installed is newer than what there is (`NothingAhead`), or a secret that is
read at the installation could be older than the last one. The refinement of `Attention`
goes by who acts: users, the delivery (`EventMoves` and its like never lose an event but
by dropping it), and the worker, of whom an instance that is not its own sees nothing
(`AttentionStays`). The assumption of these proofs,
`DeliveryAssumption`, asks for a channel with room for one event and for distinct names.

The proofs about `Provisioning` rest on `OfferFacts`. That the search finds an entry
and a first one is `EarliestIsOne` (by the well-founded order of the naturals), from
which follows what a reference may be (`ReferenceType`, `OfferedIsMatched`); that what
is copied is what is watched is `CopiesAreReferenced` with `ChartSecretIsListed`; and
that what an object uses is a component is `UsesAreComponents`. `CopiesFollowSources`
rests on the refinement: `Attention` has an invariant of its own (`Awareness`), that a
worker whose inputs have changed since it read them will be back, by an event or by the
timer, and `Attentive` carries it over. `QuietIsSettled` is inductive together with it and
with types: a pass that is not held up and whose inputs are still those of now settles
everything (`PassSettles`), one whose inputs have changed has left a reminder
(`Awareness`), and a source whose change raises no event is copied for no component
(`OtherSourcesDoNotMatter`). `UsesAreKept` and `AllowList` are step properties and need
only types. `NoNamesakes` cannot be dropped: that is finding 5.

Only model-checked: the liveness properties (`DeletionCompletes`, `Converges`,
`StatusSettles`, `EventuallySeen`, `ContentsSettle`), which are out of the prover's reach
as is everything about ENABLED and fairness. `QuietIsSettled` is the safety part of
`ContentsSettle`: with it, what is left to fairness is that it gets quiet. All other properties of the passing runs are proved. No
module uses RECURSIVE operators.

## Plan

Done: the core, the delivery of events, the resolver and the contents of the objects, and
the abstract specification that ties delivery and contents.
What could follow:

1. `CrossplaneSystem` as an implementation of `Attention`, too, with `ChangeConfig`
   as its change: its history of dropped events would have to be a variable.
2. The safety part of `DeletionCompletes`: that each pass of a deletion removes
   something or waits for another operator, as `QuietIsSettled` is for `ContentsSettle`.
3. Packages the operator does not manage, health that degrades, and a second replica
   without leader election, as variants of `CrossplaneSystem`.

## Not modelled

* Generated code, schemes, flags, certificates and the `init` command (run once, no
  interaction with the controllers); end-to-end tests and samples.
* Mounts, paths, environment variables and Helm values other than those that refer to
  something; URLs of charts; wording of conditions and events; metrics and webhooks.
* Names as strings: the shortening of long secret names, and the component names and
  condition types made of them (a provider and a function of one name share theirs).
  Nor a package that is called `crossplane`, which the resolver takes for Crossplane,
  or `default`, which shares the default runtime config.
* Order and duplicates of pull secrets, which are sets here.
* The placeholders of the tolerant resolver: in a deletion every component is
  installable (`Components`), what is in the objects is of no interest any more.
* In `Provisioning` a removed object is gone at once; that packages are finalized first
  is the subject of `CrossplaneSystem`. A package whose version is withdrawn keeps its
  old object, and nothing is claimed of the secrets that one refers to (`UsesAreKept`
  speaks of objects that are up to date): the code may remove them.
* Two replicas at once (`--leader-elect` off): what the library's status patch does
  between two writers is not in the repository.
