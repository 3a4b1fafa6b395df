-------------------------- MODULE CrossplaneTyping --------------------------
(***************************************************************************)
(* Type correctness of CrossplaneSystem, for every value of its constants. *)
(***************************************************************************)
EXTENDS CrossplaneSystem, TLAPS

-----------------------------------------------------------------------------
(* The values the handler builds.                                          *)

\* The conditions a reconcile reports and those it keeps are conditions.
LEMMA ConditionTypes ==
  /\ Status!NoConditions \in Status!Conditions
  /\ \A c \in Status!Conditions, s \in Status!CondStatus :
       Status!OverrideCondition(c, "Reconciled", s) \in Status!Conditions
  /\ \A c, d \in Status!Conditions : Status!MergeConditions(c, d) \in Status!Conditions
  /\ \A d \in BOOLEAN, c \in Status!Conditions :
       Status!ComputePhase(d, c) \in Status!Phases
<1>1. Status!NoConditions \in Status!Conditions
  BY DEF Status!NoConditions, Status!Conditions, Status!CondStatus
<1>2. ASSUME NEW c \in Status!Conditions, NEW s \in Status!CondStatus
      PROVE  Status!OverrideCondition(c, "Reconciled", s) \in Status!Conditions
  BY DEF Status!OverrideCondition, Status!Conditions
<1>3. ASSUME NEW c \in Status!Conditions, NEW d \in Status!Conditions
      PROVE  Status!MergeConditions(c, d) \in Status!Conditions
  BY DEF Status!MergeConditions, Status!Conditions
<1>4. ASSUME NEW d \in BOOLEAN, NEW c \in Status!Conditions
      PROVE  Status!ComputePhase(d, c) \in Status!Phases
  BY DEF Status!ComputePhase, Status!Phases
<1> QED BY <1>1, <1>2, <1>3, <1>4

\* An instance that is gone, one just created, and an empty result.
LEMMA RecordTypes ==
  /\ NoXP \in XPType /\ ~ NoXP.exists /\ NoXP.fins = {}
  /\ NoResult \in ResultType
  /\ \A s \in Specs, F \in SUBSET Finalizers : NewXP(s, F) \in XPType
  /\ \A status \in Status!CondStatus, err \in BOOLEAN, sr \in Status!Requeues :
       Result(status, err, sr) \in ResultType
<1>1. \A s \in Specs, F \in SUBSET Finalizers : NewXP(s, F) \in XPType
  BY ConditionTypes DEF NewXP, XPType, Status!Phases
<1>2. NoXP \in XPType /\ ~ NoXP.exists /\ NoXP.fins = {}
  <2> DEFINE s0 == CHOOSE s \in Specs : TRUE
  <2>1. s0 \in Specs
    BY SpecsAssumption
  <2>2. NewXP(s0, {}) \in XPType
    BY <1>1, <2>1
  <2>3. NoXP = [NewXP(s0, {}) EXCEPT !.exists = FALSE]
    BY DEF NoXP
  <2>4. NewXP(s0, {}).fins = {}
    BY DEF NewXP
  <2> HIDE DEF s0
  <2> QED BY <2>2, <2>3, <2>4 DEF XPType
<1>3. NoResult \in ResultType
  BY ConditionTypes DEF NoResult, ResultType, Status!Requeues
<1>4. ASSUME NEW status \in Status!CondStatus, NEW err \in BOOLEAN, NEW sr \in Status!Requeues
      PROVE  Result(status, err, sr) \in ResultType
  BY ConditionTypes DEF Result, ResultType
<1> QED BY <1>1, <1>2, <1>3, <1>4

\* The version of a component is one a user can write, if it has any.
LEMMA VersionTypes ==
  ASSUME NEW spec \in SpecType, NEW c
  PROVE  VersionOf(c, spec) \in Versions \cup {NoVersion}
<1>1. PICK P \in SUBSET Packages : spec.pkgs \in [P -> Versions]
  BY DEF SpecType
<1> QED BY <1>1 DEF VersionOf, Pkgs, SpecType

\* A juggler pass leaves component objects, versions and conditions.
LEMMA PassTypes ==
  ASSUME TypeOK, NEW spec \in Specs, NEW cfg, NEW F, NEW scope, NEW registered
  PROVE  /\ AfterInstall(obj, ver, spec, cfg, F) \in [Comp -> ObjState]
         /\ VersionsAfter(obj, ver, spec, cfg, F) \in [Comp -> Versions \cup {NoVersion}]
         /\ AfterDelete(obj, rev, scope, F) \in [Comp -> ObjState]
         /\ InstallReport(obj, spec, cfg, F) \in [Comp -> Status!CondStatus]
         /\ DeleteReport(obj, registered) \in [Comp -> Status!CondStatus]
<1>1. obj \in [Comp -> ObjState] /\ spec \in SpecType
  BY SpecsAssumption DEF TypeOK
<1>2. \A c \in Comp : ApplyState(c, obj, ver, spec) \in ObjState
  BY <1>1 DEF ApplyState, ObjState
<1>3. \A c \in Comp : UninstallState(c, obj) \in ObjState
  BY <1>1 DEF UninstallState, ObjState
<1>4. AfterInstall(obj, ver, spec, cfg, F) \in [Comp -> ObjState]
  BY <1>1, <1>2, <1>3 DEF AfterInstall
<1>5. VersionsAfter(obj, ver, spec, cfg, F) \in [Comp -> Versions \cup {NoVersion}]
  BY <1>1, VersionTypes DEF VersionsAfter, TypeOK
<1>6. AfterDelete(obj, rev, scope, F) \in [Comp -> ObjState]
  BY <1>1, <1>3 DEF AfterDelete
<1>7. InstallReport(obj, spec, cfg, F) \in [Comp -> Status!CondStatus]
  BY DEF InstallReport, Status!CondStatus
<1>8. DeleteReport(obj, registered) \in [Comp -> Status!CondStatus]
  BY DEF DeleteReport, Status!CondStatus
<1> QED BY <1>4, <1>5, <1>6, <1>7, <1>8

\* The result of a pass.
LEMMA ReportType ==
  ASSUME NEW status \in Status!CondStatus, NEW conds \in [Comp -> Status!CondStatus],
         NEW sr \in Status!Requeues
  PROVE  Report(status, conds, sr) \in ResultType
BY DEF Report, ResultType, Status!Conditions

\* A write of finalizers, done or failed, and the fault counter.
LEMMA FinalizerTypes ==
  ASSUME TypeOK, NEW F \in SUBSET Finalizers, SetFinalizers(F) \/ SetFinalizersFails(F)
  PROVE  xp' \in XPType /\ view' \in XPType /\ faults' \in 0..MaxFaults
<1>1. CASE SetFinalizers(F)
  <2>1. xp \in XPType /\ view \in XPType /\ faults \in 0..MaxFaults
    BY DEF TypeOK
  <2>2. Updated(F) \in XPType
    BY <2>1, RecordTypes DEF Updated, XPType
  <2>3. [view EXCEPT !.fins = F] \in XPType
    BY <2>1 DEF XPType
  <2> QED BY <1>1, <2>1, <2>2, <2>3 DEF SetFinalizers, NoFault
<1>2. CASE SetFinalizersFails(F)
  BY <1>2, SpecsAssumption DEF SetFinalizersFails, TypeOK, NoFault, Fault
<1> QED BY <1>1, <1>2

\* The end of a handler.
LEMMA FinishTypes ==
  ASSUME TypeOK, NEW status \in Status!CondStatus, NEW err \in BOOLEAN,
         NEW sr \in Status!Requeues
  PROVE  /\ Finish(status, err, sr) => step' \in Steps /\ rr' \in ResultType
         /\ FinishWith(status, err, sr) => step' \in Steps /\ rr' \in ResultType
<1>1. rr.conds \in Status!Conditions
  BY DEF TypeOK, ResultType
<1>2. Finish(status, err, sr) => step' \in Steps /\ rr' \in ResultType
  BY RecordTypes DEF Finish, Goto, Steps
<1>3. FinishWith(status, err, sr) => step' \in Steps /\ rr' \in ResultType
  BY <1>1, ConditionTypes DEF FinishWith, Goto, Steps, ResultType
<1> QED BY <1>2, <1>3
-----------------------------------------------------------------------------
(* Every step keeps the types.                                             *)

\* The steps of the handler.
LEMMA ReconcileTypes ==
  ASSUME TypeOK, Reconcile
  PROVE  TypeOK'
<1> USE DEF cluster
<1>a. \A s \in {"True", "False"} : s \in Status!CondStatus
  BY DEF Status!CondStatus
<1>b. \A s \in {"Unset", "NoRequeue", "Reset", "Backoff"} : s \in Status!Requeues
  BY DEF Status!Requeues
<1>c. Fault \/ NoFault => faults' \in 0..MaxFaults
  BY SpecsAssumption DEF TypeOK, Fault, NoFault
<1>d. view.spec \in Specs /\ view.fins \in SUBSET Finalizers
  BY DEF TypeOK, XPType
<1>1. CASE StartReconcile
  BY <1>1, <1>a, <1>b, FinishTypes DEF StartReconcile, TypeOK, Goto, Steps
<1>2. CASE RemoveAnnotation
  <2>1. [xp EXCEPT !.anno = "none"] \in XPType
    BY DEF TypeOK, XPType
  <2> QED BY <1>2, <1>c, <2>1, RecordTypes DEF RemoveAnnotation, TypeOK, Goto, Steps
<1>3. CASE ReadProviderConfig
  BY <1>3, <1>a, <1>b, <1>c, FinishTypes, RecordTypes DEF ReadProviderConfig, TypeOK, Goto, Steps
<1>4. CASE DeleteAccess
  BY <1>4, <1>a, <1>b, <1>c, FinishTypes DEF DeleteAccess, TypeOK, Goto, Steps
<1>5. CASE ReleaseAccess
  <2>1. view.fins \ {"Access"} \in SUBSET Finalizers
    BY <1>d
  <2> QED BY <1>5, <1>a, <1>b, <2>1, FinalizerTypes, FinishTypes
          DEF ReleaseAccess, TypeOK, Goto, Steps
<1>6. CASE GuardAccess
  <2>1. view.fins \cup {"Access"} \in SUBSET Finalizers
    BY <1>d DEF Finalizers
  <2> QED BY <1>6, <1>a, <1>b, <2>1, FinalizerTypes, FinishTypes
          DEF GuardAccess, TypeOK, Goto, Steps
<1>7. CASE RemoveLegacy
  <2>1. view.fins \ {"Legacy"} \in SUBSET Finalizers
    BY <1>d
  <2> QED BY <1>7, <1>a, <1>b, <2>1, FinalizerTypes, FinishTypes
          DEF RemoveLegacy, TypeOK, Goto, Steps
<1>8. CASE RequestAccess
  <2>1. AfterAccess => step' \in Steps /\ rr' \in ResultType
    BY <1>a, <1>b, RecordTypes, FinishTypes DEF AfterAccess, Goto, Steps
  <2> QED BY <1>8, <1>a, <1>b, <1>c, <2>1, FinishTypes DEF RequestAccess, TypeOK
<1>9. CASE GuardComponents
  <2>1. view.fins \cup {"Components"} \in SUBSET Finalizers
    BY <1>d DEF Finalizers
  <2> QED BY <1>9, <1>a, <1>b, <2>1, FinalizerTypes, FinishTypes
          DEF GuardComponents, TypeOK, Goto, Steps
<1>10. CASE BuildFails
  <2>1. (view.spec.version \in config.versions) \in BOOLEAN
    OBVIOUS
  <2> QED BY <1>10, <1>a, <1>b, <2>1, FinishTypes DEF BuildFails, TypeOK
<1>11. CASE ListFails
  BY <1>11, <1>a, <1>b, <1>c, FinishTypes DEF ListFails, TypeOK
<1>12. CASE Install
  <2>1. PICK F \in SUBSET Comp :
          LET conds  == InstallReport(obj, view.spec, config, F)
              status == IF \E c \in Comp : conds[c] = "False" THEN "False" ELSE "True"
          IN /\ IF F = {} THEN NoFault ELSE Fault
             /\ obj' = AfterInstall(obj, ver, view.spec, config, F)
             /\ ver' = VersionsAfter(obj, ver, view.spec, config, F)
             /\ rr' = Report(status, conds, "Backoff")
    BY <1>12 DEF Install
  <2>2. obj' \in [Comp -> ObjState] /\ ver' \in [Comp -> Versions \cup {NoVersion}]
    BY <2>1, <1>d, PassTypes
  <2>3. rr' \in ResultType
    BY <2>1, <1>a, <1>b, <1>d, PassTypes, ReportType
  <2>4. faults' \in 0..MaxFaults
    BY <2>1, <1>c
  <2> QED BY <1>12, <2>2, <2>3, <2>4 DEF Install, TypeOK, Goto, Steps
<1>13. ASSUME NEW scope, NEW registered, NEW next \in Steps, DeletePass(scope, registered, next)
       PROVE  /\ obj' \in [Comp -> ObjState] /\ rr' \in ResultType
              /\ faults' \in 0..MaxFaults /\ step' \in Steps
  <2>1. PICK F \in SUBSET scope :
          /\ IF F = {} THEN NoFault ELSE Fault
          /\ obj' = AfterDelete(obj, rev, scope, F)
          /\ IF Remaining(obj, scope)
             THEN Goto("status") /\ rr' = Report("False", DeleteReport(obj, registered), "Backoff")
             ELSE Goto(next) /\ rr' = Report("True", DeleteReport(obj, registered), "Unset")
    BY <1>13 DEF DeletePass
  <2>2. obj' \in [Comp -> ObjState]
    BY <2>1, <1>d, PassTypes
  <2>3. rr' \in ResultType
    BY <2>1, <1>a, <1>b, <1>d, PassTypes, ReportType
  <2> QED BY <2>1, <2>2, <2>3, <1>c DEF Goto, Steps
<1>14. CASE DeletePackages
  BY <1>14, <1>13 DEF DeletePackages, TypeOK, Steps
<1>15. CASE AwaitRevisions
  <2>1. step' \in Steps /\ rr' \in ResultType
    BY <1>15, <1>a, <1>b, FinishTypes, RecordTypes DEF AwaitRevisions, Goto, Steps
  <2> QED BY <1>15, <2>1 DEF AwaitRevisions, TypeOK
<1>16. CASE DeleteRest
  BY <1>16, <1>13, <1>a, <1>b, <1>c, FinishTypes DEF DeleteRest, TypeOK, Steps
<1>17. CASE UnguardComponents
  <2>1. view.fins \ {"Components"} \in SUBSET Finalizers
    BY <1>d
  <2> QED BY <1>17, <1>a, <1>b, <2>1, FinalizerTypes, FinishTypes
          DEF UnguardComponents, TypeOK
<1>18. CASE UpdateStatus
  <2> DEFINE conds == Status!MergeConditions(view.conds, rr.conds)
             new   == [xp EXCEPT !.conds = conds,
                                 !.phase = Status!ComputePhase(view.deleting, conds)]
  <2>1. conds \in Status!Conditions
    BY ConditionTypes DEF TypeOK, XPType, ResultType
  <2>2. Status!ComputePhase(view.deleting, conds) \in Status!Phases
    BY <2>1, ConditionTypes DEF TypeOK, XPType
  <2>3. new \in XPType
    BY <2>1, <2>2 DEF TypeOK, XPType
  <2>4. (xp' = new \/ xp' = xp) /\ faults' \in 0..MaxFaults /\ queued' \in BOOLEAN
    <3>1. CASE xp.exists /\ NoFault /\ xp' = new /\ queued' =
                 (queued \/ rr.err \/ Status!SmartRequeueConditional(rr.sr, conds) # "NoRequeue"
                  \/ new # xp)
      BY <3>1, <1>c
    <3>2. CASE StatusFails /\ queued' = TRUE /\ UNCHANGED xp
      BY <3>2, <1>c DEF StatusFails
    <3> QED BY <1>18, <3>1, <3>2 DEF UpdateStatus
  <2>5. /\ step' = "idle" /\ view' = NoXP /\ fresh' = FALSE
        /\ config' = NoConfig /\ rr' = NoResult
        /\ UNCHANGED <<providerConfig, cluster, edits>>
    BY <1>18 DEF UpdateStatus, Goto
  <2> HIDE DEF conds, new
  <2> QED BY <2>3, <2>4, <2>5, RecordTypes DEF TypeOK, Steps
<1> QED
  BY <1>1, <1>2, <1>3, <1>4, <1>5, <1>6, <1>7, <1>8, <1>9, <1>10, <1>11, <1>12,
     <1>14, <1>15, <1>16, <1>17, <1>18 DEF Reconcile

\* The writes of users and admins.
LEMMA UserTypes ==
  ASSUME TypeOK, Users
  PROVE  TypeOK'
<1>1. Edit => edits' \in 0..MaxEdits
  BY SpecsAssumption DEF Edit, TypeOK
<1>2. ASSUME NEW new \in XPType, Touch, xp' = new
      PROVE  TypeOK'
  BY <1>1, <1>2 DEF Touch, TypeOK, cluster, worker
<1>3. ASSUME NEW s \in Specs, CreateXP(s) \/ EditSpec(s)
      PROVE  TypeOK'
  <2>1. NewXP(s, {}) \in XPType
    BY RecordTypes
  <2>2. [xp EXCEPT !.spec = s] \in XPType
    BY DEF TypeOK, XPType
  <2> QED BY <1>2, <1>3, <2>1, <2>2 DEF CreateXP, EditSpec
<1>4. ASSUME NEW a \in {"none", "ignore", "reconcile"}, Annotate(a)
      PROVE  TypeOK'
  <2>1. [xp EXCEPT !.anno = a] \in XPType
    BY DEF TypeOK, XPType
  <2> QED BY <1>2, <1>4, <2>1 DEF Annotate
<1>5. CASE DeleteXP
  <2>1. [xp EXCEPT !.deleting = TRUE] \in XPType
    BY DEF TypeOK, XPType
  <2> QED BY <1>2, <1>5, <2>1, RecordTypes DEF DeleteXP
<1>6. ASSUME NEW new \in Configs \cup {NoConfig}, ChangeConfig(new)
      PROVE  TypeOK'
  BY <1>1, <1>6 DEF ChangeConfig, TypeOK, cluster, worker
<1> QED BY <1>3, <1>4, <1>5, <1>6 DEF Users

\* The effects of the other operators.
LEMMA OperatorTypes ==
  ASSUME TypeOK, Operators
  PROVE  TypeOK'
<1> USE DEF Elsewhere, worker, TypeOK, ObjState
<1>1. CASE GrantAccess \/ RevokeAccess
  BY <1>1 DEF GrantAccess, RevokeAccess
<1>2. ASSUME NEW c \in Comp, BecomeHealthy(c) \/ Upgrade(c)
      PROVE  TypeOK'
  BY <1>2 DEF BecomeHealthy, Upgrade
<1>3. ASSUME NEW c \in Comp, Uninstalled(c)
      PROVE  TypeOK'
  BY <1>3 DEF Uninstalled
<1>4. ASSUME NEW p \in Packages, CollectRevision(p)
      PROVE  TypeOK'
  BY <1>4 DEF CollectRevision
<1> QED BY <1>1, <1>2, <1>3, <1>4 DEF Operators
-----------------------------------------------------------------------------
(* Init and Next together.                                                 *)

\* Every variable keeps its type: in particular no handler leaves a view, a
\* result or an object in a state the next step cannot read (Reconcile).
THEOREM Typing == Spec => []TypeOK
<1>1. Init => TypeOK
  <2> SUFFICES ASSUME Init PROVE TypeOK
    OBVIOUS
  <2> DEFINE Started ==
        /\ xp \in XPType /\ access \in {"none", "pending", "granted", "terminating"}
        /\ obj \in [Comp -> ObjState] /\ rev \subseteq Packages
        /\ ver \in [Comp -> Versions \cup {NoVersion}] /\ queued \in BOOLEAN
  <2>1. ASSUME NEW s \in Specs, LegacyXP(s) PROVE Started
    <3>1. xp \in XPType
      BY <2>1, RecordTypes DEF LegacyXP, Finalizers
    <3>2. s \in SpecType
      BY SpecsAssumption
    <3>3. Pkgs(s) \subseteq Packages
      BY <3>2 DEF Pkgs, SpecType
    <3>4. \A c \in Comp : VersionOf(c, s) \in Versions \cup {NoVersion}
      BY <3>2, VersionTypes
    <3> QED BY <2>1, <3>1, <3>3, <3>4 DEF LegacyXP, ObjState
  <2>2. Started
    <3>1. CASE /\ xp = NoXP /\ queued = FALSE /\ access = "none" /\ rev = {}
               /\ obj = [c \in Comp |-> "absent"] /\ ver = [c \in Comp |-> NoVersion]
      BY <3>1, RecordTypes DEF ObjState
    <3> QED BY <2>1, <3>1 DEF Init
  <2>3. edits \in 0..MaxEdits /\ faults \in 0..MaxFaults
    BY SpecsAssumption DEF Init
  <2>4. view \in XPType /\ rr \in ResultType /\ step \in Steps
    BY RecordTypes DEF Init, Steps
  <2> QED BY <2>2, <2>3, <2>4 DEF Init, TypeOK
<1>2. TypeOK /\ [Next]_vars => TypeOK'
  <2> SUFFICES ASSUME TypeOK, [Next]_vars PROVE TypeOK'
    OBVIOUS
  <2>1. CASE Crash
    <3>1. faults' \in 0..MaxFaults
      BY <2>1, SpecsAssumption DEF Crash, Fault, TypeOK
    <3>2. view' \in XPType /\ rr' \in ResultType /\ step' \in Steps
      BY <2>1, RecordTypes DEF Crash, Steps
    <3> QED BY <2>1, <3>1, <3>2 DEF Crash, TypeOK, cluster
  <2>2. CASE UNCHANGED vars
    BY <2>2 DEF vars, cluster, worker, TypeOK
  <2> QED BY <2>1, <2>2, ReconcileTypes, UserTypes, OperatorTypes DEF Next
<1> QED BY <1>1, <1>2, PTL DEF Spec
=============================================================================
