--------------------------- MODULE CrossplaneGuards ---------------------------
(***************************************************************************)
(* What the finalizers guard.  Every step of the reconciler is one of a    *)
(* few kinds (ReconcileKinds); from these follow the order in which guards *)
(* are released, and that the system implements ManagedInstance.           *)
(***************************************************************************)
EXTENDS CrossplaneSafety

-----------------------------------------------------------------------------
(* The kinds of steps of the reconciler.                                   *)

Guarded == xp.exists /\ "Components" \in xp.fins

\* No guard is set or released, nothing on the control plane changes.
Still == /\ xp'.exists <=> xp.exists
         /\ Guarded' <=> Guarded
         /\ UNCHANGED <<access, obj, rev>>

\* The guard of the components is set, or released.
Guards   == ~ Guarded /\ Guarded' /\ xp.exists /\ access = "granted" /\ UNCHANGED cluster
Unguards == Guarded /\ ~ Guarded' /\ xp'.exists /\ ~ Owns /\ UNCHANGED cluster

\* A pass over the components.
Passes == Guarded /\ UNCHANGED <<xp, access, rev>>

\* The access is requested, or its end is.
Requests == /\ xp.exists /\ ~ Guarded /\ UNCHANGED <<xp, obj, rev>>
            /\ \/ access = "none" /\ access' = "pending"
               \/ access # "none" /\ access' = "terminating"

\* The instance goes with its last finalizer.
Removes == xp.exists /\ ~ xp'.exists /\ ~ Guarded /\ access = "none" /\ UNCHANGED cluster

\* A write of finalizers that keep the guard as it is.
LEMMA WriteIsStill ==
  ASSUME TypeOK, Coherent, step # "idle", NEW F \in SUBSET Finalizers,
         SetFinalizers(F) \/ SetFinalizersFails(F), F # {},
         "Components" \in F <=> "Components" \in view.fins, UNCHANGED <<cluster>>
  PROVE  Still
<1>1. CASE SetFinalizers(F)
  <2>1. xp'.exists /\ xp'.fins = F /\ xp.exists
    BY <1>1, WriteCoherent DEF Coherent
  <2>2. view.fins = xp.fins
    BY <2>1 DEF Coherent, ViewCoherent
  <2> QED BY <2>1, <2>2 DEF Still, Guarded, cluster
<1>2. CASE SetFinalizersFails(F)
  BY <1>2 DEF SetFinalizersFails, Still, Guarded, cluster
<1> QED BY <1>1, <1>2

\* Each step of the handler is of one of these kinds.
LEMMA ReconcileKinds ==
  ASSUME TypeOK, Coherent, Reconcile
  PROVE  Still \/ Guards \/ Unguards \/ Passes \/ Requests \/ Removes
<1> USE DEF Coherent, cluster, Goto, Finish, FinishWith
<1>a. view.fins \in SUBSET Finalizers
  BY DEF TypeOK, XPType
<1>b. ASSUME UNCHANGED <<xp, access, obj, rev>> PROVE Still
  BY <1>b DEF Still, Guarded
<1>1. CASE StartReconcile \/ ReadProviderConfig \/ BuildFails \/ ListFails \/ AwaitRevisions
  BY <1>1, <1>b DEF StartReconcile, ReadProviderConfig, BuildFails, ListFails, AwaitRevisions
<1>2. CASE RemoveAnnotation \/ UpdateStatus
  <2>1. xp'.exists = xp.exists /\ xp'.fins = xp.fins
    BY <1>2 DEF RemoveAnnotation, UpdateStatus, TypeOK, XPType
  <2> QED BY <1>2, <2>1 DEF RemoveAnnotation, UpdateStatus, Still, Guarded
<1>3. CASE DeleteAccess
  <2>1. CASE access # "none" /\ access' = "terminating"
    <3>1. xp.exists /\ "Components" \notin xp.fins
      BY <1>3, <2>1 DEF DeleteAccess, StepCoherent, ViewCoherent, AccessGuarded
    <3> QED BY <1>3, <2>1, <3>1 DEF DeleteAccess, Requests, Guarded
  <2> QED BY <1>3, <1>b, <2>1 DEF DeleteAccess
<1>4. CASE ReleaseAccess
  <2> DEFINE F == view.fins \ {"Access"}
  <2>1. /\ F \in SUBSET Finalizers /\ access = "none" /\ step # "idle"
        /\ "Components" \notin view.fins /\ "Components" \notin F
    BY <1>4, <1>a DEF ReleaseAccess, StepCoherent
  <2>2. xp.exists => "Components" \notin xp.fins
    BY <2>1 DEF ViewCoherent
  <2>3. CASE SetFinalizers(F)
    <3>1. xp'.exists => xp.exists /\ xp'.fins = F
      BY <2>1, <2>3, WriteCoherent
    <3> QED BY <1>4, <2>1, <2>2, <3>1 DEF ReleaseAccess, Still, Removes, Guarded
  <2>4. CASE SetFinalizersFails(F)
    BY <1>4, <1>b, <2>4 DEF ReleaseAccess, SetFinalizersFails
  <2> QED BY <1>4, <2>3, <2>4 DEF ReleaseAccess
<1>5. CASE GuardAccess
  <2> DEFINE F == view.fins \cup {"Access"}
  <2>1. F \in SUBSET Finalizers /\ F # {} /\ step # "idle"
        /\ ("Components" \in F <=> "Components" \in view.fins)
    BY <1>5, <1>a DEF GuardAccess, Finalizers
  <2> QED BY <1>5, <2>1, WriteIsStill DEF GuardAccess
<1>6. CASE RemoveLegacy
  <2> DEFINE F == view.fins \ {"Legacy"}
  <2>1. F \in SUBSET Finalizers /\ "Access" \in F /\ view.fins # {} /\ step # "idle"
        /\ ("Components" \in F <=> "Components" \in view.fins)
    BY <1>6, <1>a DEF RemoveLegacy, StepCoherent
  <2> QED BY <1>6, <2>1, WriteIsStill DEF RemoveLegacy
<1>7. CASE RequestAccess
  <2>1. CASE access = "none" /\ access' = "pending"
    <3>1. xp.exists /\ ~ Guarded
      BY <1>7, <2>1 DEF RequestAccess, StepCoherent, ViewCoherent, AccessGuarded, Guarded
    <3> QED BY <1>7, <2>1, <3>1 DEF RequestAccess, Requests
  <2> QED BY <1>7, <1>b, <2>1 DEF RequestAccess
<1>8. CASE GuardComponents
  <2> DEFINE F == view.fins \cup {"Components"}
  <2>1. /\ F \in SUBSET Finalizers /\ F # {} /\ "Components" \in F
        /\ view.fins # {} /\ access = "granted" /\ step # "idle"
    BY <1>8, <1>a DEF GuardComponents, StepCoherent, Finalizers
  <2>2. xp.exists /\ view.fins = xp.fins
    BY <2>1 DEF ViewCoherent
  <2>3. CASE SetFinalizers(F)
    <3>1. xp'.exists /\ xp'.fins = F
      BY <2>1, <2>3, WriteCoherent
    <3> QED BY <1>8, <2>1, <2>2, <3>1 DEF GuardComponents, Guards, Still, Guarded
  <2>4. CASE SetFinalizersFails(F)
    BY <1>8, <1>b, <2>4 DEF GuardComponents, SetFinalizersFails
  <2> QED BY <1>8, <2>3, <2>4 DEF GuardComponents
<1>9. CASE Install \/ DeletePackages \/ DeleteRest
  <2>1. Guarded
    BY <1>9 DEF Install, DeletePackages, DeleteRest, StepCoherent, ViewCoherent, Guarded
  <2> QED BY <1>9, <2>1 DEF Install, DeletePackages, DeleteRest, Passes
<1>10. CASE UnguardComponents
  <2> DEFINE F == view.fins \ {"Components"}
  <2>1. /\ F \in SUBSET Finalizers /\ F # {} /\ "Components" \notin F
        /\ "Components" \in view.fins /\ ~ Owns /\ step # "idle"
    BY <1>10, <1>a DEF UnguardComponents, StepCoherent
  <2>2. Guarded
    BY <2>1 DEF ViewCoherent, Guarded
  <2>3. CASE SetFinalizers(F)
    <3>1. xp'.exists /\ xp'.fins = F
      BY <2>1, <2>3, WriteCoherent
    <3> QED BY <1>10, <2>1, <2>2, <3>1 DEF UnguardComponents, Unguards, Guarded
  <2>4. CASE SetFinalizersFails(F)
    BY <1>10, <1>b, <2>4 DEF UnguardComponents, SetFinalizersFails
  <2> QED BY <1>10, <2>3, <2>4 DEF UnguardComponents
<1> QED
  BY <1>1, <1>2, <1>3, <1>4, <1>5, <1>6, <1>7, <1>8, <1>9, <1>10 DEF Reconcile
-----------------------------------------------------------------------------
(* Every step of the system, seen from the guards.                         *)

\* A user creates the instance, or deletes one without finalizers; another
\* operator finishes the access or does its work on what is there.
Creates == ~ xp.exists /\ xp'.exists /\ ~ Guarded' /\ UNCHANGED cluster
Drops   == xp.exists /\ ~ xp'.exists /\ xp.fins = {} /\ UNCHANGED cluster
Works   == /\ UNCHANGED xp
           /\ \/ access' = access
              \/ access = "pending" /\ access' = "granted"
           /\ Owns' => Owns
Revokes == /\ UNCHANGED <<xp, obj, rev>>
           /\ access = "terminating" /\ access' = "none"

\* What users do to the guards.
LEMMA UserKinds ==
  ASSUME TypeOK, Users
  PROVE  Still \/ Creates \/ Drops
<1>1. CASE xp'.exists = xp.exists /\ xp'.fins = xp.fins
  BY <1>1, UserWrites DEF Still, Guarded, cluster
<1>2. CASE ~ xp.exists /\ xp'.exists /\ xp'.fins = {}
  BY <1>2, UserWrites DEF Creates, Guarded, cluster
<1>3. CASE ~ xp'.exists /\ xp.fins = {}
  BY <1>3, UserWrites DEF Still, Drops, Guarded, cluster
<1> QED BY <1>1, <1>2, <1>3, UserWrites

\* What the other operators do to what is guarded.
LEMMA OperatorKinds ==
  ASSUME TypeOK, CrossplaneServesPackages, Operators
  PROVE  Works \/ Revokes
<1>1. CASE RevokeAccess
  BY <1>1 DEF RevokeAccess, Elsewhere, Revokes
<1>2. CASE ~ RevokeAccess
  <2>1. access' = access \/ (access = "pending" /\ access' = "granted")
    BY <1>2 DEF Operators, GrantAccess, BecomeHealthy, Upgrade, Uninstalled, CollectRevision
  <2> QED BY <2>1, OperatorEffects DEF Works
<1> QED BY <1>1, <1>2

\* Each step of the system is of one of these kinds.
LEMMA StepKinds ==
  ASSUME TypeOK, Coherent, [Next]_vars
  PROVE  \/ Still \/ Guards \/ Unguards \/ Passes \/ Requests \/ Removes
         \/ Creates \/ Drops \/ Works \/ Revokes
<1>1. CASE Crash \/ UNCHANGED vars
  BY <1>1 DEF Crash, vars, cluster, Still, Guarded
<1> QED BY <1>1, ReconcileKinds, UserKinds, OperatorKinds DEF Next, Coherent
-----------------------------------------------------------------------------
(* The order of the guards.                                                *)

\* The guard of the components goes only when nothing is left on the control
\* plane, whatever an older release left there (doDeleteComponents).
THEOREM GuardOrder == Spec => GuardIsReleasedLast
<1>1. ASSUME TypeOK, Coherent, [Next]_vars, Guarded, ~ Guarded'
      PROVE  ~ Owns
  <2>1. xp.exists /\ xp.fins # {} /\ access = "granted"
    BY <1>1 DEF Guarded, Coherent, AccessGuarded
  <2>2. ~ Works /\ ~ Revokes /\ ~ Passes
    BY <1>1 DEF Works, Revokes, Passes, Guarded
  <2> QED BY <1>1, <2>1, <2>2, StepKinds
          DEF Still, Guards, Unguards, Requests, Removes, Creates, Drops
<1>2. TypeOK /\ Coherent /\ [Next]_vars =>
        [(xp.exists /\ "Components" \in xp.fins /\ ~ (xp'.exists /\ "Components" \in xp'.fins))
           => ~ Owns]_vars
  BY <1>1 DEF Guarded
<1> QED BY <1>2, Typing, Coherence, PTL DEF Spec, GuardIsReleasedLast

\* What is guarded stays guarded, and nothing is created without its guard.
LEMMA GuardedStep ==
  ASSUME TypeOK, Coherent, ComponentsGuarded, [Next]_vars
  PROVE  ComponentsGuarded'
<1>1. ComponentsGuarded <=> (Owns => Guarded)
  BY DEF ComponentsGuarded, Guarded
<1>2. ComponentsGuarded' <=> (Owns' => Guarded')
  BY DEF ComponentsGuarded, Guarded
<1>3. UNCHANGED <<obj, rev>> => (Owns' <=> Owns)
  BY DEF Owns
<1>4. UNCHANGED xp => (Guarded' <=> Guarded)
  BY DEF Guarded
<1>5. xp.fins = {} => ~ Guarded
  BY DEF Guarded
<1>6. Guarded => xp.exists
  BY DEF Guarded
<1> QED BY <1>1, <1>2, <1>3, <1>4, <1>5, <1>6, StepKinds
        DEF Still, Guards, Unguards, Passes, Requests, Removes, Creates, Drops, Works,
            Revokes, cluster

\* Also an instance of an older release, which starts with components and
\* without their guard, keeps the guard once it has it, until nothing is left
\* (doReconcileComponents, doDeleteComponents).
THEOREM GuardStays == Spec => GuardIsForGood
<1>1. TypeOK /\ Coherent /\ [Next]_vars => [ComponentsGuarded => ComponentsGuarded']_vars
  BY GuardedStep
<1> QED BY <1>1, Typing, Coherence, PTL DEF Spec, GuardIsForGood

\* What is owned is guarded at all times.
LEMMA GuardedComponents ==
  ASSUME ~ LegacyUpgrade
  PROVE  Spec => []ComponentsGuarded
<1>1. Init => ComponentsGuarded
  BY DEF Init, ComponentsGuarded, Owns, AllAbsent, Present
<1> QED BY <1>1, GuardedStep, Typing, Coherence, PTL DEF Spec

\* Nothing is left behind on the control plane, and no AccessRequest, when
\* the instance is gone (setupClusterAccess, doDeleteComponents).
THEOREM NothingOrphaned ==
  ASSUME ~ LegacyUpgrade
  PROVE  Spec => []NoOrphans
<1>1. Coherent /\ ComponentsGuarded => NoOrphans
  BY DEF Coherent, AccessGuarded, ComponentsGuarded, NoOrphans
<1> QED BY <1>1, Coherence, GuardedComponents, PTL

\* The operator can reach the control plane as long as it owns something
\* there (readyForCleanup, doReconcileComponents).
THEOREM AccessIsKept ==
  ASSUME ~ LegacyUpgrade
  PROVE  Spec => []AccessOutlivesComponents
<1>1. Coherent /\ ComponentsGuarded => AccessOutlivesComponents
  BY DEF Coherent, AccessGuarded, ComponentsGuarded, AccessOutlivesComponents
<1> QED BY <1>1, Coherence, GuardedComponents, PTL
-----------------------------------------------------------------------------
(* The system implements ManagedInstance.                                  *)

\* The resources of ManagedInstance are what the instance owns.
LEMMA OwnedIsOwned ==
  /\ Owns <=> OwnedResources # {}
  /\ ~ Owns' => OwnedResources' = {}
<1>1. ASSUME NEW r \in rev PROVE <<r, "revision">> \in OwnedResources
  BY DEF OwnedResources
<1>2. ASSUME NEW c \in Comp, Present(obj, c) PROVE c \in OwnedResources
  BY <1>2 DEF OwnedResources
<1>3. Owns => OwnedResources # {}
  BY <1>1, <1>2 DEF Owns, AllAbsent
<1>4. ~ Owns => OwnedResources = {}
  BY DEF Owns, AllAbsent, OwnedResources
<1>5. ~ Owns' => OwnedResources' = {}
  BY DEF Owns, AllAbsent, OwnedResources
<1> QED BY <1>3, <1>4, <1>5

\* Each kind of step is a step of ManagedInstance or none.
LEMMA MappedStep ==
  ASSUME TypeOK, TypeOK', Coherent, ComponentsGuarded, [Next]_vars
  PROVE  [Managed!Next]_(Managed!vars)
<1> USE DEF Managed!Next, Managed!vars
<1>1. /\ Stage = IF ~ xp.exists THEN "gone" ELSE IF Guarded THEN "guarded" ELSE "registered"
      /\ Stage' = IF ~ xp'.exists THEN "gone" ELSE IF Guarded' THEN "guarded" ELSE "registered"
  BY DEF Stage, Guarded
<1>2. Guarded => xp.exists /\ access = "granted"
  BY DEF Guarded, Coherent, AccessGuarded
<1>3. ~ Guarded => OwnedResources = {}
  BY OwnedIsOwned DEF Guarded, ComponentsGuarded
<1>4. UNCHANGED <<obj, rev>> => UNCHANGED OwnedResources
  BY DEF OwnedResources
<1>5. UNCHANGED access => UNCHANGED Held
  BY DEF Held
<1>6. OwnedResources' \in SUBSET (Comp \cup (Packages \X {"revision"}))
  BY DEF TypeOK, OwnedResources
<1>7. access # "none" => xp.exists
  BY DEF Coherent, AccessGuarded
<1>8. UNCHANGED xp => UNCHANGED Stage
  BY DEF Stage
<1>9. CASE Still
  BY <1>1, <1>4, <1>5, <1>9 DEF Still
<1>10. CASE Guards
  <2>1. Managed!Guard
    BY <1>1, <1>4, <1>5, <1>10 DEF Guards, Guarded, Managed!Guard, Held, cluster
  <2> QED BY <2>1
<1>11. CASE Unguards
  <2>1. Managed!Unguard
    BY <1>1, <1>2, <1>4, <1>5, <1>11, OwnedIsOwned DEF Unguards, Managed!Unguard, cluster
  <2> QED BY <2>1
<1>12. CASE Passes
  <2>1. Managed!Adjust
    BY <1>1, <1>2, <1>5, <1>6, <1>8, <1>12 DEF Passes, Managed!Adjust, Held
  <2> QED BY <2>1
<1>13. CASE Requests
  <2>1. CASE access = "none" /\ access' = "pending"
    <3>1. Managed!Connect
      BY <1>1, <1>4, <1>8, <1>13, <2>1 DEF Requests, Managed!Connect, Held
    <3> QED BY <3>1
  <2>2. CASE access # "none" /\ access' = "terminating"
    BY <1>4, <1>8, <1>13, <2>2 DEF Requests, Held
  <2> QED BY <1>13, <2>1, <2>2 DEF Requests
<1>14. CASE Removes \/ Drops
  <2>1. xp.exists /\ ~ xp'.exists /\ ~ Guarded /\ access = "none" /\ UNCHANGED cluster
    BY <1>14 DEF Removes, Drops, Guarded, Coherent, AccessGuarded
  <2>2. Managed!Remove
    BY <1>1, <1>3, <1>4, <1>5, <2>1 DEF Managed!Remove, Held, cluster
  <2> QED BY <2>2
<1>15. CASE Creates
  <2>1. Managed!Register
    BY <1>1, <1>4, <1>5, <1>15 DEF Creates, Managed!Register, cluster
  <2> QED BY <2>1
<1>16. CASE Works
  <2>1. UNCHANGED Stage /\ UNCHANGED Held
    BY <1>8, <1>16 DEF Works, Held
  <2>2. CASE Guarded
    <3>1. Managed!Adjust
      BY <1>1, <1>2, <1>6, <2>1, <2>2 DEF Managed!Adjust, Held
    <3> QED BY <3>1
  <2>3. CASE ~ Guarded
    <3>1. ~ Owns /\ ~ Owns'
      BY <1>16, <2>3 DEF Works, Guarded, ComponentsGuarded
    <3>2. OwnedResources' = {}
      BY <3>1, OwnedIsOwned
    <3> QED BY <1>3, <2>1, <2>3, <3>2
  <2> QED BY <2>2, <2>3
<1>17. CASE Revokes
  <2>1. ~ Guarded
    BY <1>2, <1>17 DEF Revokes
  <2>2. Managed!Disconnect
    BY <1>1, <1>3, <1>4, <1>7, <1>8, <1>17, <2>1 DEF Revokes, Managed!Disconnect, Held
  <2> QED BY <2>2
<1> QED
  BY <1>9, <1>10, <1>11, <1>12, <1>13, <1>14, <1>15, <1>16, <1>17, StepKinds

\* The operator implements ManagedInstance: instance, access and resources come
\* and go in the order its two finalizers promise (GuardAccess, GuardComponents,
\* UnguardComponents, ReleaseAccess).
THEOREM Implements ==
  ASSUME ~ LegacyUpgrade
  PROVE  Spec => KeepsThePromise
<1>1. Init => Managed!Init
  <2>1. ASSUME Init PROVE ~ xp.exists /\ ~ Owns /\ access = "none"
    BY <2>1, RecordTypes DEF Init, Owns, AllAbsent, Present
  <2> QED BY <2>1, OwnedIsOwned DEF Managed!Init, Stage, Held
<1>2. TypeOK /\ TypeOK' /\ Coherent /\ ComponentsGuarded /\ [Next]_vars =>
        [Managed!Next]_(Managed!vars)
  BY MappedStep
<1> QED BY <1>1, <1>2, Typing, Coherence, GuardedComponents, PTL
        DEF Spec, KeepsThePromise, Managed!Spec
=============================================================================
