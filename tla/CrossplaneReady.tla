--------------------------- MODULE CrossplaneReady ---------------------------
(***************************************************************************)
(* That the phase Ready is earned, for every value of the constants: what  *)
(* an install pass reports is still so when updateStatus comes to write    *)
(* it, and no other way through Reconcile reports as much.                 *)
(***************************************************************************)
EXTENDS CrossplaneSafety

InstallSteps  == {"accessGuard", "legacy", "accessRequest", "guard", "install"}
DeletionSteps == {"accessDelete", "accessRelease", "packages", "revisions", "rest", "unguard"}

\* Only an instance in deletion gets to the steps of a deletion, and none to
\* those of an installation without a ProviderConfig.
OnCourse == /\ step \in DeletionSteps => view.deleting
            /\ step \in InstallSteps => config # NoConfig

\* A result is bad, or of a deletion, or what it says is the case.
Vouched == step = "status" =>
  \/ rr.err \/ view.deleting \/ rr.conds["Reconciled"] = "False"
  \/ config \in Configs /\ Provided(view.spec, config)

\* Secrets, config maps and runtime configs have no finalizers and no versions.
AuxPlain == \A c \in Aux : obj[c] # "deleting" /\ ver[c] = NoVersion

ReadyInv == OnCourse /\ Vouched /\ AuxPlain
-----------------------------------------------------------------------------
\* The verdict on the whole is part of what a handler or a pass reports.
LEMMA BadResult ==
  /\ Status!OverrideCondition(Status!NoConditions, "Reconciled", "False")["Reconciled"] = "False"
  /\ \A conds, sr : Report("False", conds, sr).conds["Reconciled"] = "False"
<1>1. \A c \in Status!Conditions :
        Status!OverrideCondition(c, "Reconciled", "False")["Reconciled"] = "False"
  BY DEF Status!OverrideCondition, Status!Conditions
<1> QED BY <1>1, ConditionTypes DEF Report

\* Desired components are components.
LEMMA DesiredAreComponents ==
  ASSUME NEW spec \in Specs, NEW cfg \in Configs
  PROVE  Desired(spec, cfg) \subseteq Comp /\ Crossplane \in Desired(spec, cfg)
BY SpecsAssumption DEF Desired, Pkgs, Comp, SpecType, ConfigType

\* Applying brings an object without finalizers into being, and leaves alone
\* what is healthy in the right version; what was up stays so.
LEMMA AuxApplied ==
  ASSUME NEW o, NEW v, NEW spec \in SpecType, NEW c \in Aux, o[c] # "deleting"
  PROVE  ApplyState(c, o, v, spec) = "healthy" /\ VersionOf(c, spec) = NoVersion
<1>1. c # Crossplane /\ c \notin Pkgs(spec)
  BY ComponentsAreDistinct DEF Pkgs, SpecType
<1> QED BY <1>1 DEF ApplyState, VersionOf

LEMMA HealthyApplied ==
  ASSUME NEW o, NEW v, NEW spec, NEW c, c \notin Aux
  PROVE  /\ o[c] = "healthy" /\ v[c] = VersionOf(c, spec) =>
              ApplyState(c, o, v, spec) = "healthy"
         /\ LooksHealthy(o, c) => ApplyState(c, o, v, spec) \in {"healthy", "outdated"}
BY DEF ApplyState, LooksHealthy

\* A pass that reports nothing bad leaves all that is desired provided: what
\* it judges by is the state before the pass, and the pass does not spoil it.
LEMMA GoodPass ==
  ASSUME TypeOK, AuxPlain, NEW spec \in Specs, NEW cfg \in Configs, NEW F,
         obj' = AfterInstall(obj, ver, spec, cfg, F),
         ver' = VersionsAfter(obj, ver, spec, cfg, F),
         \A c \in Comp : InstallReport(obj, spec, cfg, F)[c] # "False"
  PROVE  Provided(spec, cfg)'
<1>1. ASSUME NEW c \in Desired(spec, cfg)
      PROVE  c \in Comp /\ c \in Applied(obj, spec, cfg, F) /\ (c \in Aux \/ LooksHealthy(obj, c))
  <2>1. c \in Comp /\ InstallReport(obj, spec, cfg, F)[c] # "False"
    BY DesiredAreComponents
  <2> QED BY <2>1 DEF InstallReport
<1>2. ASSUME NEW c \in Desired(spec, cfg)
      PROVE  Up(obj', c) /\ ver'[c] = VersionOf(c, spec)
  <2>1. obj'[c] = ApplyState(c, obj, ver, spec) /\ ver'[c] = VersionOf(c, spec)
    BY <1>1, <1>2 DEF AfterInstall, VersionsAfter
  <2>2. CASE c \in Aux
    BY <2>1, <2>2, AuxApplied, SpecsAssumption DEF AuxPlain, Up
  <2>3. CASE c \notin Aux
    BY <1>1, <1>2, <2>1, <2>3, HealthyApplied DEF Up
  <2> QED BY <2>1, <2>2, <2>3
<1> QED BY <1>2 DEF Provided
-----------------------------------------------------------------------------
\* No pass and nobody else gives such an object a finalizer or a version.
LEMMA AuxPlainInductive ==
  ASSUME TypeOK, AuxPlain, [Next]_vars
  PROVE  AuxPlain'
<1>1. Aux \subseteq Comp /\ obj \in [Comp -> ObjState]
  BY DEF Comp, TypeOK
<1>2. ASSUME NEW spec \in Specs, NEW cfg, NEW F,
             obj' = AfterInstall(obj, ver, spec, cfg, F),
             ver' = VersionsAfter(obj, ver, spec, cfg, F)
      PROVE  AuxPlain'
  <2>1. \A c \in Aux : ApplyState(c, obj, ver, spec) = "healthy" /\ VersionOf(c, spec) = NoVersion
    BY AuxApplied, SpecsAssumption DEF AuxPlain
  <2>2. \A c \in Aux : UninstallState(c, obj) # "deleting"
    BY DEF UninstallState
  <2>3. \A c \in Aux : obj'[c] # "deleting"
    BY <1>1, <1>2, <2>1, <2>2 DEF AfterInstall, AuxPlain
  <2>4. \A c \in Aux : ver'[c] = NoVersion
    BY <1>1, <1>2, <2>1 DEF VersionsAfter, AuxPlain
  <2> QED BY <2>3, <2>4 DEF AuxPlain
<1>3. ASSUME NEW scope, NEW F, obj' = AfterDelete(obj, rev, scope, F), ver' = ver
      PROVE  AuxPlain'
  <2>1. \A c \in Aux : UninstallState(c, obj) # "deleting"
    BY DEF UninstallState
  <2> QED BY <1>1, <1>3, <2>1 DEF AfterDelete, AuxPlain
<1>4. ASSUME UNCHANGED <<obj, ver>> PROVE AuxPlain'
  BY <1>4 DEF AuxPlain
<1>5. CASE Reconcile
  <2>1. CASE Install
    <3>1. view.spec \in Specs
      BY DEF TypeOK, XPType
    <3> QED BY <1>2, <2>1, <3>1 DEF Install
  <2>2. CASE DeletePackages \/ DeleteRest
    BY <1>3, <1>4, <2>2 DEF DeletePackages, DeleteRest, DeletePass
  <2>3. CASE Reconcile /\ ~ Install /\ ~ DeletePackages /\ ~ DeleteRest
    BY <1>4, <2>3
    DEF Reconcile, StartReconcile, RemoveAnnotation, ReadProviderConfig, DeleteAccess,
        ReleaseAccess, GuardAccess, RemoveLegacy, RequestAccess, GuardComponents, BuildFails,
        ListFails, AwaitRevisions, UnguardComponents, UpdateStatus, cluster
  <2> QED BY <1>5, <2>1, <2>2, <2>3
<1>6. ASSUME NEW c \in Comp, BecomeHealthy(c) \/ Upgrade(c) \/ Uninstalled(c)
      PROVE  AuxPlain'
  BY <1>1, <1>6 DEF BecomeHealthy, Upgrade, Uninstalled, AuxPlain, TypeOK
<1>7. CASE Operators
  BY <1>4, <1>6, <1>7 DEF Operators, GrantAccess, RevokeAccess, CollectRevision
<1>8. CASE Users \/ Crash \/ UNCHANGED vars
  BY <1>4, <1>8
  DEF Users, CreateXP, EditSpec, Annotate, DeleteXP, ChangeConfig, Touch, Crash, vars, cluster
<1> QED BY <1>5, <1>7, <1>8 DEF Next
-----------------------------------------------------------------------------
\* A write of finalizers does not change what the worker knows of deletion
\* and spec.
LEMMA WriteKeepsView ==
  ASSUME TypeOK, NEW F, SetFinalizers(F) \/ SetFinalizersFails(F)
  PROVE  view'.deleting = view.deleting /\ view'.spec = view.spec
BY DEF TypeOK, XPType, SetFinalizers, SetFinalizersFails

\* Each way through Reconcile ends in a result that can be vouched for.
LEMMA ReconcileVouched ==
  ASSUME TypeOK, ReadyInv, Reconcile
  PROVE  OnCourse' /\ Vouched'
<1> USE DEF ReadyInv, InstallSteps, DeletionSteps, OnCourse, Goto, Finish, Result
<1>1. CASE StartReconcile
  <2>1. step' # "idle" /\ step' = "status" => rr'.conds["Reconciled"] = "False"
    BY <1>1, BadResult DEF StartReconcile
  <2> QED BY <1>1, <2>1 DEF StartReconcile, Vouched
<1>2. CASE RemoveAnnotation
  BY <1>2 DEF RemoveAnnotation, Vouched
<1>3. CASE ReadProviderConfig
  <2>1. step' = "status" => rr'.conds["Reconciled"] = "False"
    BY <1>3, BadResult DEF ReadProviderConfig
  <2> QED BY <1>3, <2>1, SpecsAssumption DEF ReadProviderConfig, ReadyForCleanup, Vouched
<1>4. CASE DeleteAccess
  BY <1>4 DEF DeleteAccess, Vouched
<1>5. CASE ReleaseAccess
  BY <1>5, WriteKeepsView DEF ReleaseAccess, Vouched
<1>6. CASE GuardAccess \/ RemoveLegacy
  BY <1>6, BadResult DEF GuardAccess, RemoveLegacy, Vouched
<1>7. CASE RequestAccess
  <2>1. step' = "status" => view.deleting \/ rr'.conds["Reconciled"] = "False"
    BY <1>7, BadResult DEF RequestAccess, AfterAccess
  <2> QED BY <1>7, <2>1 DEF RequestAccess, AfterAccess, Vouched
<1>8. CASE GuardComponents
  BY <1>8, BadResult DEF GuardComponents, Vouched
<1>9. CASE BuildFails \/ ListFails
  <2>1. CASE BuildFails
    BY <2>1, BadResult DEF BuildFails, Vouched
  <2>2. CASE ListFails
    BY <2>2, BadResult DEF ListFails, Vouched
  <2> QED BY <1>9, <2>1, <2>2
<1>10. CASE Install
  <2>1. PICK F \in SUBSET Comp :
          /\ obj' = AfterInstall(obj, ver, view.spec, config, F)
          /\ ver' = VersionsAfter(obj, ver, view.spec, config, F)
          /\ rr' = Report(IF \E c \in Comp :
                               InstallReport(obj, view.spec, config, F)[c] = "False"
                          THEN "False" ELSE "True",
                          InstallReport(obj, view.spec, config, F), "Backoff")
    BY <1>10 DEF Install
  <2>2. view.spec \in Specs /\ config \in Configs
    BY <1>10 DEF Install, TypeOK, XPType
  <2>3. step' = "status" /\ UNCHANGED <<view, config>>
    BY <1>10 DEF Install
  <2>4. CASE \E c \in Comp : InstallReport(obj, view.spec, config, F)[c] = "False"
    BY <2>1, <2>3, <2>4, BadResult DEF Vouched
  <2>5. CASE \A c \in Comp : InstallReport(obj, view.spec, config, F)[c] # "False"
    <3>1. Provided(view.spec, config)'
      BY <2>1, <2>2, <2>3, <2>5, GoodPass DEF Provided
    <3> QED BY <2>2, <2>3, <3>1 DEF Vouched
  <2> QED BY <2>4, <2>5
<1>11. CASE DeletePackages \/ AwaitRevisions \/ DeleteRest
  BY <1>11 DEF DeletePackages, AwaitRevisions, DeleteRest, DeletePass, FinishWith, Vouched
<1>12. CASE UnguardComponents
  BY <1>12, WriteKeepsView DEF UnguardComponents, FinishWith, Vouched
<1>13. CASE UpdateStatus
  BY <1>13 DEF UpdateStatus, Vouched
<1> QED BY <1>1, <1>2, <1>3, <1>4, <1>5, <1>6, <1>7, <1>8, <1>9, <1>10, <1>11, <1>12, <1>13
        DEF Reconcile

\* What is provided stays so while the status is written: what was up in some
\* version remains, and nobody but the worker changes the versions.
LEMMA OthersKeepProvided ==
  ASSUME TypeOK, Operators, NEW spec \in Specs, NEW cfg \in Configs, Provided(spec, cfg)
  PROVE  Provided(spec, cfg)'
<1>1. obj \in [Comp -> ObjState] /\ Desired(spec, cfg) \subseteq Comp
      /\ Crossplane \in Desired(spec, cfg)
  BY DesiredAreComponents DEF TypeOK
<1>2. ASSUME NEW c \in Comp, BecomeHealthy(c) \/ Upgrade(c) PROVE Provided(spec, cfg)'
  BY <1>1, <1>2 DEF BecomeHealthy, Upgrade, Provided, Up
<1>3. ASSUME NEW c \in Comp, Uninstalled(c) PROVE Provided(spec, cfg)'
  <2>1. ASSUME NEW d \in Desired(spec, cfg) PROVE obj'[d] = obj[d] /\ ver'[d] = ver[d]
    <3>1. d \in Comp /\ d # c
      BY <1>1, <1>3 DEF Uninstalled, Provided, Up
    <3> QED BY <1>1, <1>3, <3>1 DEF Uninstalled, TypeOK
  <2> QED BY <2>1 DEF Provided, Up
<1>4. ASSUME UNCHANGED <<obj, ver>> PROVE Provided(spec, cfg)'
  BY <1>4 DEF Provided, Up
<1> QED BY <1>2, <1>3, <1>4 DEF Operators, GrantAccess, RevokeAccess, CollectRevision

\* ReadyInv is inductive.
LEMMA ReadyInductive ==
  /\ Init => ReadyInv
  /\ TypeOK /\ ReadyInv /\ [Next]_vars => ReadyInv'
<1>1. Init => ReadyInv
  <2> SUFFICES ASSUME Init PROVE ReadyInv
    OBVIOUS
  <2>1. ASSUME NEW s \in Specs, LegacyXP(s) PROVE AuxPlain
    <3>1. \A c \in Aux : VersionOf(c, s) = NoVersion /\ c \in Comp /\ c # Crossplane /\ c \notin Pkgs(s)
      BY SpecsAssumption, ComponentsAreDistinct DEF VersionOf, Pkgs, SpecType, Comp
    <3> QED BY <2>1, <3>1 DEF LegacyXP, AuxPlain
  <2>2. AuxPlain
    BY <2>1 DEF Init, AuxPlain, Comp
  <2> QED BY <2>2 DEF Init, ReadyInv, OnCourse, Vouched, InstallSteps, DeletionSteps
<1>2. ASSUME TypeOK, ReadyInv, [Next]_vars PROVE ReadyInv'
  <2>1. AuxPlain'
    BY <1>2, AuxPlainInductive DEF ReadyInv
  <2>2. CASE Reconcile
    BY <1>2, <2>1, <2>2, ReconcileVouched DEF ReadyInv
  <2>3. CASE UNCHANGED <<worker, obj, ver>>
    BY <1>2, <2>1, <2>3
    DEF ReadyInv, OnCourse, Vouched, Provided, Up, worker
  <2>4. CASE Users \/ UNCHANGED vars
    BY <2>3, <2>4
    DEF Users, CreateXP, EditSpec, Annotate, DeleteXP, ChangeConfig, Touch, vars, cluster
  <2>5. CASE Operators
    <3>1. UNCHANGED worker
      BY <2>5 DEF Operators, GrantAccess, RevokeAccess, BecomeHealthy, Upgrade, Uninstalled,
                  CollectRevision, Elsewhere
    <3>2. view.spec \in Specs
      BY <1>2 DEF TypeOK, XPType
    <3>3. config \in Configs /\ Provided(view.spec, config) => Provided(view.spec, config)'
      BY <1>2, <2>5, <3>1, <3>2, OthersKeepProvided DEF worker
    <3> QED BY <1>2, <2>1, <3>1, <3>3 DEF ReadyInv, OnCourse, Vouched, worker
  <2>6. CASE Crash
    BY <2>1, <2>6 DEF Crash, ReadyInv, OnCourse, Vouched, InstallSteps, DeletionSteps
  <2> QED BY <1>2, <2>2, <2>4, <2>5, <2>6 DEF Next
<1> QED BY <1>1, <1>2

\* The phase turns to Ready only when a status is written whose conditions
\* hold nothing bad.
LEMMA OnlyStatusSaysReady ==
  ASSUME TypeOK, [Next]_vars, xp.phase # "Ready", xp'.phase = "Ready"
  PROVE  /\ step = "status" /\ ~ view.deleting
         /\ rr.conds["Reconciled"] # "False"
<1>1. CASE UpdateStatus
  <2> DEFINE conds == Status!MergeConditions(view.conds, rr.conds)
             phase == Status!ComputePhase(view.deleting, conds)
  <2>1. step = "status" /\ (xp' = xp \/ xp' = [xp EXCEPT !.conds = conds, !.phase = phase])
    BY <1>1 DEF UpdateStatus
  <2>2. phase = "Ready"
    BY <2>1 DEF TypeOK, XPType
  <2>3. ~ view.deleting /\ ~ Status!Has(conds, "False")
    BY <2>2 DEF Status!ComputePhase
  <2>4. conds["Reconciled"] # "False"
    BY <2>3 DEF Status!Has
  <2>5. rr.conds["Reconciled"] # "False"
    BY <2>4 DEF Status!MergeConditions
  <2> QED BY <2>1, <2>3, <2>5
<1>2. \A F : SetFinalizers(F) => xp'.phase \in {xp.phase, ""}
  BY DEF SetFinalizers, Updated, NoXP, NewXP, TypeOK, XPType
<1>3. \A F : SetFinalizersFails(F) => xp' = xp
  BY DEF SetFinalizersFails
<1>4. CASE Reconcile /\ ~ UpdateStatus
  <2>1. CASE RemoveAnnotation
    BY <2>1 DEF RemoveAnnotation, TypeOK, XPType
  <2>2. CASE ReleaseAccess \/ GuardAccess \/ RemoveLegacy \/ GuardComponents \/ UnguardComponents
    <3>1. PICK F : SetFinalizers(F) \/ SetFinalizersFails(F)
      BY <2>2
      DEF ReleaseAccess, GuardAccess, RemoveLegacy, GuardComponents, UnguardComponents
    <3> QED BY <1>2, <1>3, <3>1
  <2>3. CASE \/ StartReconcile \/ ReadProviderConfig \/ DeleteAccess \/ RequestAccess
            \/ BuildFails \/ ListFails \/ Install
            \/ DeletePackages \/ AwaitRevisions \/ DeleteRest
    BY <2>3
    DEF StartReconcile, ReadProviderConfig, DeleteAccess, RequestAccess, BuildFails, ListFails,
        Install, DeletePackages, AwaitRevisions, DeleteRest
  <2> QED BY <1>4, <2>1, <2>2, <2>3 DEF Reconcile
<1>5. CASE Users
  <2>1. ASSUME NEW s \in Specs, EditSpec(s) PROVE xp'.phase = xp.phase
    BY <2>1 DEF EditSpec, TypeOK, XPType
  <2>2. ASSUME NEW a, Annotate(a) PROVE xp'.phase = xp.phase
    BY <2>2 DEF Annotate, TypeOK, XPType
  <2>3. ASSUME NEW s, CreateXP(s) PROVE xp'.phase = ""
    BY <2>3 DEF CreateXP, NewXP
  <2>4. ASSUME DeleteXP PROVE xp'.phase \in {xp.phase, ""}
    BY <2>4 DEF DeleteXP, NoXP, NewXP, TypeOK, XPType
  <2>5. ASSUME NEW new, ChangeConfig(new) PROVE xp' = xp
    BY <2>5 DEF ChangeConfig
  <2> QED BY <1>5, <2>1, <2>2, <2>3, <2>4, <2>5 DEF Users
<1>6. CASE Operators \/ Crash \/ UNCHANGED vars
  BY <1>6 DEF Operators, GrantAccess, RevokeAccess, BecomeHealthy, Upgrade, Uninstalled,
              CollectRevision, Elsewhere, Crash, vars
<1> QED BY <1>1, <1>4, <1>5, <1>6 DEF Next

\* Without an error in the reconcile, the phase turns to Ready only when all
\* that was desired is there, was up and has been set to the version read, none
\* left out, refused or waiting; though it may still be up in the version
\* before (ReadyIsEarned).
THEOREM ReadyOnlyIfEarned == Spec => ReadyIsEarned
<1>1. ASSUME TypeOK, ReadyInv, [Next]_vars, xp.phase # "Ready", xp'.phase = "Ready", ~ rr.err
      PROVE  Provided(view.spec, config)
  BY <1>1, OnlyStatusSaysReady DEF ReadyInv, Vouched
<1>2. TypeOK /\ ReadyInv /\ [Next]_vars =>
        [(xp.phase # "Ready" /\ xp'.phase = "Ready" /\ ~ rr.err) =>
           Provided(view.spec, config)]_vars
  BY <1>1
<1>3. Spec => []ReadyInv
  BY ReadyInductive, Typing, PTL DEF Spec
<1> QED BY <1>2, <1>3, Typing, PTL DEF Spec, ReadyIsEarned
=============================================================================
