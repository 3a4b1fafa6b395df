------------------------ MODULE CrossplaneReconciler ------------------------
(***************************************************************************)
(* internal/controller/crossplane_controller.go: the reconcile loop of one *)
(* Crossplane instance, one step per call to an API server.                *)
(*                                                                         *)
(* The worker reads the instance into view, walks through the handler step *)
(* by step and ends in updateStatus.  Between two steps the user may edit, *)
(* annotate, delete and re-create the instance, the ProviderConfig may     *)
(* change, Crossplane and Flux may make progress, and the operator may     *)
(* crash.  A request that fails for any other reason is a fault.           *)
(***************************************************************************)
EXTENDS Components

CONSTANTS Specs,          \* the specs a user may write
          Configs,        \* the ProviderConfigs an admin may write
          NoConfig,       \* there is no ProviderConfig
          LegacyUpgrade,  \* there may be an instance of an older release
          MaxEdits,       \* bound: writes by users and admins
          MaxFaults       \* bound: failed requests and crashes

ASSUME SpecsAssumption ==
  /\ Specs # {} /\ Specs \subseteq SpecType
  /\ Configs # {} /\ Configs \subseteq ConfigType
  /\ NoConfig \notin Configs
  /\ "Reconciled" \notin Comp
  /\ LegacyUpgrade \in BOOLEAN
  /\ MaxEdits \in Nat /\ MaxFaults \in Nat

VARIABLES
  xp,              \* the Crossplane instance on the onboarding cluster
  providerConfig,  \* the ProviderConfig, as the platform cluster's cache has it
  access,          \* the AccessRequest for the control plane
  obj, rev, ver,   \* component objects, package revisions, versions written
  queued,          \* the instance is in the work queue
  step,            \* where the worker stands in Reconcile
  view, fresh,     \* its copy of xp, and whether the resourceVersion still holds
  config,          \* its copy of the ProviderConfig
  rr,              \* its ReconcileResult
  edits, faults    \* counters of the two bounds

cluster == <<access, obj, rev, ver>>
worker  == <<step, view, config, rr>>
vars    == <<xp, providerConfig, cluster, queued, worker, fresh, edits, faults>>

Status == INSTANCE Status WITH CondTypes <- {"Reconciled"} \cup Comp

Finalizers == {"Legacy", "Components", "Access"}
Steps == {"idle", "annotation", "config", "accessDelete", "accessRelease",
          "accessGuard", "legacy", "accessRequest", "guard", "install",
          "packages", "revisions", "rest", "unguard", "status"}

XPType == [exists : BOOLEAN, deleting : BOOLEAN, fins : SUBSET Finalizers,
           anno : {"none", "ignore", "reconcile"}, spec : Specs,
           conds : Status!Conditions, phase : Status!Phases]

NewXP(spec, fins) == [exists |-> TRUE, deleting |-> FALSE, fins |-> fins,
                      anno |-> "none", spec |-> spec,
                      conds |-> Status!NoConditions, phase |-> ""]
NoXP == [NewXP(CHOOSE s \in Specs : TRUE, {}) EXCEPT !.exists = FALSE]

ResultType == [conds : Status!Conditions, err : BOOLEAN, sr : Status!Requeues]
NoResult == [conds |-> Status!NoConditions, err |-> FALSE, sr |-> "Unset"]

TypeOK ==
  /\ xp \in XPType /\ view \in XPType /\ fresh \in BOOLEAN
  /\ providerConfig \in Configs \cup {NoConfig} /\ config \in Configs \cup {NoConfig}
  /\ access \in {"none", "pending", "granted", "terminating"}
  /\ obj \in [Comp -> ObjState] /\ rev \subseteq Packages
  /\ ver \in [Comp -> Versions \cup {NoVersion}]
  /\ queued \in BOOLEAN /\ step \in Steps
  /\ rr \in ResultType
  /\ edits \in 0..MaxEdits /\ faults \in 0..MaxFaults

\* An instance of an older release is as that left it, with access and all its
\* components or still on the way to both.
LegacyXP(spec) ==
  /\ xp = NewXP(spec, {"Legacy"}) /\ queued = TRUE
  /\ \/ /\ access = "granted" /\ rev = Pkgs(spec)
        /\ obj = [c \in Comp |-> IF c \in {Crossplane} \cup Pkgs(spec) THEN "healthy" ELSE "absent"]
        /\ ver = [c \in Comp |-> VersionOf(c, spec)]
     \/ /\ access \in {"none", "pending"} /\ rev = {}
        /\ obj = [c \in Comp |-> "absent"] /\ ver = [c \in Comp |-> NoVersion]

Init ==
  /\ providerConfig \in Configs
  /\ edits = 0 /\ faults = 0
  /\ step = "idle" /\ view = NoXP /\ fresh = FALSE /\ config = NoConfig /\ rr = NoResult
  /\ \/ /\ xp = NoXP /\ queued = FALSE /\ access = "none" /\ rev = {}
        /\ obj = [c \in Comp |-> "absent"] /\ ver = [c \in Comp |-> NoVersion]
     \/ LegacyUpgrade /\ \E s \in Specs : LegacyXP(s)
-----------------------------------------------------------------------------
(* Helpers of the worker's steps.                                          *)

Goto(s) == step' = s

\* Only some requests of a run fail.
Fault   == faults < MaxFaults /\ faults' = faults + 1
NoFault == faults' = faults

\* A result with no condition but "Reconciled"; and the end of the handler.
Result(status, err, sr) ==
  [conds |-> Status!OverrideCondition(Status!NoConditions, "Reconciled", status),
   err |-> err, sr |-> sr]

Finish(status, err, sr) == Goto("status") /\ rr' = Result(status, err, sr)

\* The end of the handler with the conditions collected so far.
FinishWith(status, err, sr) ==
  /\ Goto("status")
  /\ rr' = [conds |-> Status!OverrideCondition(rr.conds, "Reconciled", status),
            err |-> err, sr |-> sr]

\* The conditions of a juggler pass, with the verdict on the whole.
Report(status, conds, sr) ==
  [conds |-> [t \in {"Reconciled"} \cup Comp |->
                IF t = "Reconciled" THEN status ELSE conds[t]],
   err |-> FALSE, sr |-> sr]

\* client.Update carries the resourceVersion of the view; an object in
\* deletion takes no new finalizers and vanishes with its last one.
CanUpdate(F) == xp.exists /\ fresh /\ (xp.deleting => F \subseteq xp.fins)
Updated(F) ==
  IF xp.deleting /\ F = {} THEN NoXP
  ELSE [xp EXCEPT !.fins = F, !.spec = view.spec, !.anno = view.anno]

\* Mutant: a conflict is retried with the view as it is.
SetFinalizersRetried(F) ==
  /\ F # view.fins => xp.exists /\ (xp.deleting => F \subseteq xp.fins)
  /\ xp' = IF F = view.fins THEN xp ELSE Updated(F)
  /\ view' = [view EXCEPT !.fins = F]
  /\ NoFault

\* ensureFinalizer and removeFinalizer write only when there is a change.
SetFinalizers(F) ==
  /\ F # view.fins => CanUpdate(F)
  /\ xp' = IF F = view.fins THEN xp ELSE Updated(F)
  /\ view' = [view EXCEPT !.fins = F]
  /\ NoFault
SetFinalizersFails(F) ==
  /\ F # view.fins
  /\ (~ CanUpdate(F) /\ NoFault) \/ Fault
  /\ UNCHANGED <<xp, view>>
-----------------------------------------------------------------------------
(* The steps of Reconcile.                                                 *)

\* Mutant: cleanup as soon as the instance is in deletion.
ReadyForCleanupEarly(x) == x.deleting /\ "Legacy" \notin x.fins

ReadyForCleanup(x) == x.deleting /\ x.fins \cap {"Components", "Legacy"} = {}

\* Reconcile: get the instance; nothing to do when it is gone.
StartReconcile ==
  /\ step = "idle" /\ queued
  /\ queued' = FALSE
  /\ IF ~ xp.exists THEN UNCHANGED <<step, view, fresh, rr>>
     ELSE /\ view' = xp /\ fresh' = TRUE
          /\ \/ xp.anno = "ignore" /\ Finish("False", FALSE, "NoRequeue")
             \/ xp.anno = "reconcile" /\ Goto("annotation") /\ UNCHANGED rr
             \/ xp.anno = "none" /\ Goto("config") /\ UNCHANGED rr
  /\ UNCHANGED <<xp, providerConfig, cluster, config, edits, faults>>

\* handleOperationAnnotation: a merge patch, not tied to a resourceVersion,
\* removes the annotation; its answer replaces the view.  On an error
\* Reconcile returns at once and the queue tries again.
RemoveAnnotation ==
  /\ step = "annotation"
  /\ \/ /\ xp.exists /\ NoFault
        /\ xp' = [xp EXCEPT !.anno = "none"]
        /\ view' = xp' /\ fresh' = TRUE
        /\ Goto("config") /\ UNCHANGED queued
     \/ /\ (~ xp.exists /\ NoFault) \/ Fault
        /\ Goto("idle") /\ queued' = TRUE
        /\ view' = NoXP /\ fresh' = FALSE /\ UNCHANGED xp
  /\ UNCHANGED <<providerConfig, cluster, config, rr, edits>>

\* doReconcile up to readyForCleanup: without a ProviderConfig nothing goes
\* on, not even a deletion.
ReadProviderConfig ==
  /\ step = "config"
  /\ \/ /\ (providerConfig = NoConfig /\ NoFault) \/ Fault
        /\ Finish("False", TRUE, "Unset") /\ UNCHANGED config
     \/ /\ providerConfig # NoConfig /\ NoFault
        /\ config' = providerConfig
        /\ IF ReadyForCleanup(view)
           THEN Goto("accessDelete") /\ rr' = Result("False", FALSE, "Reset")
           ELSE Goto("accessGuard") /\ UNCHANGED rr
  /\ UNCHANGED <<xp, providerConfig, cluster, queued, view, fresh, edits>>

\* doCleanupClusterAccess: delete the AccessRequest and wait until it is gone.
DeleteAccess ==
  /\ step = "accessDelete"
  /\ \/ Fault /\ Finish("False", TRUE, "Reset") /\ UNCHANGED access
     \/ access # "none" /\ NoFault /\ access' = "terminating" /\ Goto("status") /\ UNCHANGED rr
     \/ access = "none" /\ NoFault /\ Goto("accessRelease") /\ UNCHANGED <<access, rr>>
  /\ UNCHANGED <<xp, providerConfig, obj, rev, ver, queued, view, fresh, config, edits>>

\* doCleanupClusterAccess: remove the access finalizer.
ReleaseAccess ==
  /\ step = "accessRelease"
  /\ LET F == view.fins \ {"Access"} IN
     \/ SetFinalizers(F) /\ Goto("status") /\ UNCHANGED rr
     \/ SetFinalizersFails(F) /\ Finish("False", TRUE, "Reset")
  /\ UNCHANGED <<providerConfig, cluster, queued, fresh, config, edits>>

\* setupClusterAccess: add the access finalizer.
GuardAccess ==
  /\ step = "accessGuard"
  /\ LET F == view.fins \cup {"Access"} IN
     \/ SetFinalizers(F) /\ Goto("legacy") /\ UNCHANGED rr
     \/ SetFinalizersFails(F) /\ Finish("False", TRUE, "Unset")
  /\ UNCHANGED <<providerConfig, cluster, queued, fresh, config, edits>>

\* setupClusterAccess: remove the finalizer of older releases.
RemoveLegacy ==
  /\ step = "legacy"
  /\ LET F == view.fins \ {"Legacy"} IN
     \/ SetFinalizers(F) /\ Goto("accessRequest") /\ UNCHANGED rr
     \/ SetFinalizersFails(F) /\ Finish("False", TRUE, "Unset")
  /\ UNCHANGED <<providerConfig, cluster, queued, fresh, config, edits>>

\* Mutant: components are installed in a deletion, too.
AfterAccessInstalls == Goto("guard") /\ rr' = Result("True", FALSE, "Unset")

\* Where doReconcileComponents goes once there is access.
AfterAccess ==
  \/ ~ view.deleting /\ Goto("guard") /\ rr' = Result("True", FALSE, "Unset")
  \/ /\ view.deleting /\ "Components" \in view.fins
     /\ Goto(IF Pkgs(view.spec) # {} THEN "packages" ELSE "rest")
     /\ rr' = Result("True", FALSE, "Unset")
  \/ view.deleting /\ "Components" \notin view.fins /\ Finish("True", FALSE, "Reset")

\* setupClusterAccess: create the AccessRequest and wait until it is granted.
RequestAccess ==
  /\ step = "accessRequest"
  /\ \/ Fault /\ Finish("False", TRUE, "Unset") /\ UNCHANGED access
     \/ /\ access # "granted" /\ NoFault
        /\ access' = IF access = "none" THEN "pending" ELSE access
        /\ Finish("False", FALSE, "Backoff")
     \/ access = "granted" /\ NoFault /\ UNCHANGED access /\ AfterAccess
  /\ UNCHANGED <<xp, providerConfig, obj, rev, ver, queued, view, fresh, config, edits>>

\* Mutant: the error of ensureFinalizer is dropped.
GuardComponentsUnchecked ==
  /\ step = "guard"
  /\ LET F == view.fins \cup {"Components"} IN
     SetFinalizers(F) \/ SetFinalizersFails(F)
  /\ Goto("install") /\ UNCHANGED rr
  /\ UNCHANGED <<providerConfig, cluster, queued, fresh, config, edits>>

\* doReconcileComponents: add the components finalizer.  An error leaves the
\* condition Reconciled at True.  The legacy finalizer removed next is gone
\* since RemoveLegacy, so that call writes nothing.
GuardComponents ==
  /\ step = "guard"
  /\ LET F == view.fins \cup {"Components"} IN
     \/ SetFinalizers(F) /\ Goto("install") /\ UNCHANGED rr
     \/ SetFinalizersFails(F) /\ Finish("True", TRUE, "Unset")
  /\ UNCHANGED <<providerConfig, cluster, queued, fresh, config, edits>>

\* createOrUpdateCrossplaneInstance cannot build the components; an unknown
\* version is the user's mistake and no error to retry.
BuildFails ==
  /\ step = "install" /\ ~ BuildOK(view.spec, config, TRUE)
  /\ Finish("False", view.spec.version \in config.versions, "Unset")
  /\ UNCHANGED <<xp, providerConfig, cluster, queued, view, fresh, config, edits, faults>>

\* newJuggler cannot list the orphans: no component is touched, and the
\* conditions of an earlier pass are dropped.
ListFails ==
  /\ \/ step \in {"packages", "revisions"}
     \/ step \in {"install", "rest"} /\ BuildOK(view.spec, config, step = "install")
  /\ Fault /\ Finish("False", TRUE, "Unset")
  /\ UNCHANGED <<xp, providerConfig, cluster, queued, view, fresh, config, edits>>

\* A pass over the components of the spec; F are those whose requests fail.
Install ==
  /\ step = "install" /\ BuildOK(view.spec, config, TRUE)
  /\ \E F \in SUBSET Comp :
       LET conds == InstallReport(obj, view.spec, config, F)
           status == IF \E c \in Comp : conds[c] = "False" THEN "False" ELSE "True"
       IN /\ IF F = {} THEN NoFault ELSE Fault
          /\ obj' = AfterInstall(obj, ver, view.spec, config, F)
          /\ ver' = VersionsAfter(obj, ver, view.spec, config, F)
          /\ rr' = Report(status, conds, "Backoff")
  /\ Goto("status")
  /\ UNCHANGED <<xp, providerConfig, access, rev, queued, view, fresh, config, edits>>

\* deleteComponents over the disabled components in scope.
DeletePass(scope, registered, next) ==
  \E F \in SUBSET scope :
    /\ IF F = {} THEN NoFault ELSE Fault
    /\ obj' = AfterDelete(obj, rev, scope, F)
    /\ IF Remaining(obj, scope)
       THEN Goto("status") /\ rr' = Report("False", DeleteReport(obj, registered), "Backoff")
       ELSE Goto(next) /\ rr' = Report("True", DeleteReport(obj, registered), "Unset")

\* deleteControlPlaneComponents, phase one: the packages, while Crossplane runs.
DeletePackages ==
  /\ step = "packages"
  /\ DeletePass(PhaseOne, Pkgs(view.spec), "revisions")
  /\ UNCHANGED <<xp, providerConfig, access, rev, ver, queued, view, fresh, config, edits>>

\* deleteControlPlaneComponents: wait until the package revisions are gone;
\* the conditions of phase one are only returned while there are some.
AwaitRevisions ==
  /\ step = "revisions"
  /\ \/ rev # {} /\ FinishWith("False", FALSE, "Backoff")
     \/ rev = {} /\ Goto("rest") /\ rr' = Result("True", FALSE, "Unset")
  /\ UNCHANGED <<xp, providerConfig, cluster, queued, view, fresh, config, edits, faults>>

\* deleteControlPlaneComponents, phase two: everything else.  The build can
\* still fail, and then nothing is deleted.
DeleteRest ==
  /\ step = "rest"
  /\ \/ /\ ~ BuildOK(view.spec, config, FALSE) /\ NoFault
        /\ Finish("False", TRUE, "Unset") /\ UNCHANGED obj
     \/ /\ BuildOK(view.spec, config, FALSE)
        /\ DeletePass(PhaseTwo, Desired(view.spec, config), "unguard")
  /\ UNCHANGED <<xp, providerConfig, access, rev, ver, queued, view, fresh, config, edits>>

\* doDeleteComponents: remove the components finalizer.
UnguardComponents ==
  /\ step = "unguard"
  /\ LET F == view.fins \ {"Components"} IN
     \/ SetFinalizers(F) /\ FinishWith("True", FALSE, "Reset")
     \/ SetFinalizersFails(F) /\ FinishWith("True", TRUE, "Unset")
  /\ UNCHANGED <<providerConfig, cluster, queued, fresh, config, edits>>

\* The status patch is refused when it carries an outdated resourceVersion,
\* which it does only if this reconcile has written before.
StatusFails == ((~ xp.exists \/ ~ fresh) /\ NoFault) \/ Fault

\* updateStatus: merge the conditions, compute the phase, patch, requeue.  A
\* status that changes also comes back as an event of the watch.
UpdateStatus ==
  LET conds == Status!MergeConditions(view.conds, rr.conds)
      new   == [xp EXCEPT !.conds = conds,
                          !.phase = Status!ComputePhase(view.deleting, conds)]
      again == rr.err \/ Status!SmartRequeueConditional(rr.sr, conds) # "NoRequeue"
  IN /\ step = "status"
     /\ \/ /\ xp.exists /\ NoFault
           /\ xp' = new
           /\ queued' = (queued \/ again \/ new # xp)
        \/ StatusFails /\ queued' = TRUE /\ UNCHANGED xp
     /\ Goto("idle") /\ view' = NoXP /\ fresh' = FALSE
     /\ config' = NoConfig /\ rr' = NoResult
     /\ UNCHANGED <<providerConfig, cluster, edits>>

Reconcile ==
  \/ StartReconcile \/ RemoveAnnotation \/ ReadProviderConfig
  \/ DeleteAccess \/ ReleaseAccess
  \/ GuardAccess \/ RemoveLegacy \/ RequestAccess
  \/ GuardComponents \/ BuildFails \/ ListFails \/ Install
  \/ DeletePackages \/ AwaitRevisions \/ DeleteRest \/ UnguardComponents
  \/ UpdateStatus
=============================================================================
