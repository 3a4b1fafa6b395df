-------------------------- MODULE CrossplaneSystem --------------------------
(***************************************************************************)
(* The reconciler among everyone who writes the objects it works on: the   *)
(* users of the onboarding cluster, the admins of the platform cluster,    *)
(* the cluster-access operator, Flux, and Crossplane's package manager.    *)
(***************************************************************************)
EXTENDS CrossplaneReconciler

\* A write by somebody else outdates the resourceVersion of the view and
\* raises a watch event for the instance.
Edit == edits < MaxEdits /\ edits' = edits + 1
Touch == /\ Edit /\ fresh' = FALSE /\ queued' = TRUE
         /\ UNCHANGED <<providerConfig, cluster, worker, faults>>

CreateXP(spec) == Touch /\ ~ xp.exists /\ xp' = NewXP(spec, {})

EditSpec(spec) == Touch /\ xp.exists /\ spec # xp.spec /\ xp' = [xp EXCEPT !.spec = spec]

Annotate(anno) == Touch /\ xp.exists /\ anno # xp.anno /\ xp' = [xp EXCEPT !.anno = anno]

\* Without a finalizer the instance is gone at once.
DeleteXP ==
  /\ Touch /\ xp.exists /\ ~ xp.deleting
  /\ xp' = IF xp.fins = {} THEN NoXP ELSE [xp EXCEPT !.deleting = TRUE]

\* The ProviderConfigReconciler sends an event for every instance and drops
\* it when the channel stays full for a second.
ChangeConfig(new) ==
  /\ Edit /\ new # providerConfig /\ providerConfig' = new
  /\ queued' \in {queued, TRUE}
  /\ UNCHANGED <<xp, cluster, worker, fresh, faults>>
-----------------------------------------------------------------------------
Elsewhere == UNCHANGED <<xp, providerConfig, queued, worker, fresh, edits, faults>>

GrantAccess ==
  /\ access = "pending" /\ access' = "granted"
  /\ UNCHANGED <<obj, rev, ver>> /\ Elsewhere

RevokeAccess ==
  /\ access = "terminating" /\ access' = "none"
  /\ UNCHANGED <<obj, rev, ver>> /\ Elsewhere

\* Flux rolls out the release; Crossplane installs a package and keeps a
\* revision of it.
BecomeHealthy(c) ==
  /\ obj[c] \in {"pending", "outdated", "upgrading"}
  /\ c # Crossplane => Up(obj, Crossplane)
  /\ obj' = [obj EXCEPT ![c] = "healthy"]
  /\ rev' = rev \cup ({c} \cap Packages)
  /\ UNCHANGED <<access, ver>> /\ Elsewhere

\* Flux or Crossplane gets to see the new version.
Upgrade(c) ==
  /\ obj[c] = "outdated" /\ obj' = [obj EXCEPT ![c] = "upgrading"]
  /\ UNCHANGED <<access, rev, ver>> /\ Elsewhere

\* Flux uninstalls the release.  Only a running Crossplane can process the
\* finalizers of a package.
Uninstalled(c) ==
  /\ obj[c] = "deleting" /\ (c # Crossplane => Running(obj))
  /\ obj' = [obj EXCEPT ![c] = "absent"]
  /\ ver' = [ver EXCEPT ![c] = NoVersion]
  /\ UNCHANGED <<access, rev>> /\ Elsewhere

\* Revisions are collected some time after their package, by Crossplane.
CollectRevision(p) ==
  /\ p \in rev /\ obj[p] = "absent" /\ Running(obj)
  /\ rev' = rev \ {p}
  /\ UNCHANGED <<access, obj, ver>> /\ Elsewhere

\* The operator restarts: nothing is kept but the queue's initial listing.
Crash ==
  /\ step # "idle" /\ Fault
  /\ step' = "idle" /\ view' = NoXP /\ fresh' = FALSE
  /\ config' = NoConfig /\ rr' = NoResult /\ queued' = TRUE
  /\ UNCHANGED <<xp, providerConfig, cluster, edits>>

Users == \/ \E s \in Specs : CreateXP(s) \/ EditSpec(s)
         \/ \E a \in {"none", "ignore", "reconcile"} : Annotate(a)
         \/ DeleteXP
         \/ \E new \in Configs \cup {NoConfig} : ChangeConfig(new)
Operators == \/ GrantAccess \/ RevokeAccess
             \/ \E c \in Comp : BecomeHealthy(c) \/ Upgrade(c) \/ Uninstalled(c)
             \/ \E p \in Packages : CollectRevision(p)

Next == Reconcile \/ Users \/ Operators \/ Crash

Spec == Init /\ [][Next]_vars

\* controller-runtime keeps serving its queue, and the other operators do
\* their work; users, crashes and failing requests are under no obligation.
Fairness ==
  /\ WF_vars(Reconcile)
  /\ WF_vars(GrantAccess) /\ WF_vars(RevokeAccess)
  /\ \A c \in Comp : WF_vars(BecomeHealthy(c)) /\ WF_vars(Uninstalled(c))
  /\ \A p \in Packages : WF_vars(CollectRevision(p))

FairSpec == Spec /\ Fairness
-----------------------------------------------------------------------------
(* Safety.                                                                 *)

\* There is something of the instance on the control plane.
Owns == rev # {} \/ ~ AllAbsent(obj)

\* "A finalizer ensures the Service Provider managed resources are cleaned
\* up": nothing is left behind, not even a revision or the AccessRequest,
\* when the instance is gone, whatever crashed, conflicted or was retried
\* on the way (setupClusterAccess, doDeleteComponents, readyForCleanup).
NoOrphans ==
  ~ xp.exists => ~ Owns /\ access = "none"

\* Packages and their revisions can only be finalized by Crossplane: it is
\* there as long as one of them is (the phases of deleteControlPlaneComponents
\* and the PreUninstall hook).
CrossplaneServesPackages ==
  (rev # {} \/ \E p \in Packages : Present(obj, p)) => Running(obj)

\* The operator keeps its access to the control plane as long as it has
\* anything left to remove there (the two finalizers and their order).
AccessOutlivesComponents == Owns => access = "granted"

\* The guard of the components goes last, also for an instance an older
\* release installed: whoever removes it leaves nothing behind on the control
\* plane (doDeleteComponents).
GuardIsReleasedLast ==
  [][(xp.exists /\ "Components" \in xp.fins /\ ~ (xp'.exists /\ "Components" \in xp'.fins)) =>
       ~ Owns]_vars

\* No write of the operator brings back a spec the user has replaced: a view
\* that was overtaken is refused (ensureFinalizer, removeFinalizer).
NoLostEdit ==
  [][(xp.exists /\ xp'.exists /\ xp'.spec # xp.spec) => edits' = edits + 1]_vars

\* All that is asked for is there, was up in some version, and has been set to
\* the version asked for.
Provided(spec, cfg) ==
  \A c \in Desired(spec, cfg) : Up(obj, c) /\ (c \notin Aux => ver[c] = VersionOf(c, spec))

\* A reconcile that ends without an error turns the phase to Ready only when
\* all it had to install is up and was given the version it read, whatever the
\* conditions of earlier reconciles said (updateStatus, computePhase).
ReadyIsEarned ==
  [][(xp.phase # "Ready" /\ xp'.phase = "Ready" /\ ~ rr.err) => Provided(view.spec, config)]_vars

\* The same without the excuse of an error.
ReadyMeansInstalled ==
  [][(xp.phase # "Ready" /\ xp'.phase = "Ready") => Provided(view.spec, config)]_vars

\* "Crossplane is ready and operational": a reconcile without an error turns
\* the phase to Ready only when all it had to install runs in the version it
\* read, and not in the one before (IsObjectHealthy,
\* createOrUpdateCrossplaneInstance).
ReadyIsCurrent ==
  [][(xp.phase # "Ready" /\ xp'.phase = "Ready" /\ ~ rr.err) =>
       \A c \in Desired(view.spec, config) : obj[c] = "healthy"]_vars

\* A reconcile that has seen the deletion creates nothing any more, and neither
\* does anybody else: what the removal still has to wait for only gets less
\* (doReconcileComponents, doDeleteComponents).
DeletionOnlyRemoves ==
  [][view.deleting => \A c \in Comp : Present(obj', c) => Present(obj, c)]_vars

\* All that is asked for is installed and up to date, and nothing else is there.
UpToDate(spec, cfg) ==
  /\ \A c \in Comp : obj[c] = IF c \in Desired(spec, cfg) THEN "healthy" ELSE "absent"
  /\ \A c \in Desired(spec, cfg) \ Aux : ver[c] = VersionOf(c, spec)

\* What is as it should be is left alone: neither a reconcile that has read as
\* much, whichever of its requests fail, nor anybody else takes down or
\* replaces a part of it (createOrUpdateCrossplaneInstance).
LeavesAlone ==
  [][config # NoConfig /\ ~ view.deleting /\ UpToDate(view.spec, config) =>
       UNCHANGED <<obj, ver>>]_vars

\* An instance that is not ignored is in the queue or in the hands of the
\* worker, whatever failed, crashed or was overtaken: every way through the
\* handler ends in a requeue, and every event in between is kept (Reconcile,
\* updateStatus, smartRequeueConditional).
NeverForgotten ==
  xp.exists /\ xp.anno # "ignore" => queued \/ step # "idle"

\* "Ignore annotation skips reconciliation and is kept": it goes by the hand of
\* a user only, also when it replaces the annotation that asks for a reconcile
\* (handleOperationAnnotation).
IgnoreIsKept ==
  [][(xp.exists /\ xp'.exists /\ xp.anno = "ignore" /\ xp'.anno # "ignore") =>
       edits' = edits + 1]_vars

\* What the finalizers promise: the instance, its components and revisions,
\* and its AccessRequest come and go in the order ManagedInstance allows.
Stage == IF ~ xp.exists THEN "gone"
         ELSE IF "Components" \in xp.fins THEN "guarded" ELSE "registered"
Held  == access # "none"
OwnedResources == {c \in Comp : Present(obj, c)} \cup (rev \X {"revision"})

Managed == INSTANCE ManagedInstance WITH
  Resources <- Comp \cup (Packages \X {"revision"}),
  stage <- Stage, held <- Held, resources <- OwnedResources

\* The reconciler keeps that promise (GuardAccess to UnguardComponents).
KeepsThePromise == Managed!Spec
-----------------------------------------------------------------------------
(* The inductive invariant behind the safety properties.                   *)

\* During a reconcile nobody but the worker changes finalizers, and an
\* instance with finalizers stays; a view that still is fresh has its spec.
ViewCoherent ==
  /\ step # "idle" => /\ xp.exists => view.fins = xp.fins
                      /\ view.fins # {} => xp.exists
  /\ fresh /\ xp.exists => view.spec = xp.spec

\* What the worker may rely on at each of its steps.
StepCoherent ==
  /\ step \in {"accessDelete", "accessRelease"} => "Components" \notin view.fins
  /\ step = "accessRelease" => access = "none"
  /\ step \in {"legacy", "accessRequest"} => "Access" \in view.fins
  /\ step \in {"guard", "install", "packages", "revisions", "rest", "unguard"} =>
       "Access" \in view.fins /\ access = "granted"
  /\ step \in {"install", "packages", "revisions", "rest", "unguard"} =>
       "Components" \in view.fins
  /\ step = "unguard" => ~ Owns

\* An AccessRequest is guarded by its finalizer or that of an older release,
\* and the guard of the components stands on a granted one.
AccessGuarded ==
  /\ access # "none" => xp.exists /\ xp.fins \cap {"Access", "Legacy"} # {}
  /\ xp.exists /\ "Components" \in xp.fins => access = "granted"

\* What the worker knows is what holds, at every step of the handler, whatever
\* users did since it read the instance (Reconcile, doReconcileComponents).
Coherent == ViewCoherent /\ StepCoherent /\ AccessGuarded /\ CrossplaneServesPackages

\* Components and revisions are guarded by theirs; an instance of an older
\* release starts without it.
ComponentsGuarded == Owns => xp.exists /\ "Components" \in xp.fins

\* Once it has its guard, an instance of an older release is as safe as any
\* other: no step takes the guard away from what is there, and none creates
\* anything without it (doReconcileComponents, doDeleteComponents).
GuardIsForGood == [][ComponentsGuarded => ComponentsGuarded']_vars
-----------------------------------------------------------------------------
(* Liveness.                                                               *)

Ignored == xp.anno = "ignore"

\* The deletion of an instance that asks for packages of kinds that the
\* ProviderConfig still has a list of.
InDeletion ==
  /\ xp.exists /\ xp.deleting /\ ~ Ignored
  /\ providerConfig # NoConfig /\ KindsOffered(xp.spec, providerConfig)

\* An instance of an older release that was deleted before the first reconcile
\* of this one: it cannot be given the access finalizer any more.
DeletedTooEarly == {"Legacy", "Access"} \cap xp.fins = {"Legacy"}

\* A deletion does not hang, with that exception (doDeleteComponents,
\* doCleanupClusterAccess).
DeletionCompletes == []<>~ (InDeletion /\ ~ DeletedTooEarly)

\* The same without the exception: what an older release installed is cleaned
\* up as well (setupClusterAccess).
LegacyDeletionCompletes == []<>~ InDeletion

\* The same for any ProviderConfig: what it offers plays no part when
\* components are removed.
DeletionNeedsNoOffer ==
  []<>~ (xp.exists /\ xp.deleting /\ ~ Ignored /\ providerConfig # NoConfig)

Achievable ==
  /\ xp.exists /\ ~ xp.deleting /\ ~ Ignored /\ providerConfig # NoConfig
  /\ BuildOK(xp.spec, providerConfig, TRUE)
  /\ \A c \in Desired(xp.spec, providerConfig) : Installable(c, xp.spec, providerConfig)

InSync == UpToDate(xp.spec, providerConfig)

\* Once nobody edits any more, what the last spec and ProviderConfig ask for
\* is installed, and nothing else is left, even if events were dropped.
Converges == <>[](Achievable => InSync)

\* ... and the phase says so, unless a component that is no longer asked for
\* left a condition behind.
StaleCondition ==
  \E c \in Comp \ Desired(xp.spec, providerConfig) : xp.conds[c] = "False"
StatusSettles == <>[](Achievable => xp.phase = "Ready" \/ StaleCondition)

\* The same without the exception.
BecomesReady == <>[](Achievable => xp.phase = "Ready")
=============================================================================
