--------------------------- MODULE CrossplaneUpkeep ---------------------------
(***************************************************************************)
(* What a reconcile owes an instance between its edits, for every value of *)
(* the constants: it comes back to it, it leaves alone what is as it       *)
(* should be, and it only removes once it has seen the deletion.           *)
(***************************************************************************)
EXTENDS CrossplaneReady

-----------------------------------------------------------------------------
(* No instance is forgotten.                                               *)

\* The worker returns without a requeue only from an instance that is ignored.
Remembered ==
  /\ rr.sr = "NoRequeue" => step = "status"
  /\ xp.exists /\ xp.anno # "ignore" =>
       queued \/ (step # "idle" /\ rr.sr # "NoRequeue")

\* Whatever requeue the handler asks for, it gets one.
LEMMA AlwaysAgain ==
  ASSUME NEW sr \in Status!Requeues, NEW conds, sr # "NoRequeue"
  PROVE  Status!SmartRequeueConditional(sr, conds) # "NoRequeue"
BY DEF Status!SmartRequeueConditional, Status!Requeues

\* Results that ask for a requeue.
LEMMA ResultAsksAgain ==
  ASSUME NEW status, NEW err, NEW sr \in Status!Requeues, sr # "NoRequeue", NEW conds
  PROVE  /\ Finish(status, err, sr) => step' = "status" /\ rr'.sr # "NoRequeue"
         /\ FinishWith(status, err, sr) => step' = "status" /\ rr'.sr # "NoRequeue"
         /\ Result(status, err, sr).sr # "NoRequeue"
         /\ Report(status, conds, sr).sr # "NoRequeue"
BY DEF Finish, FinishWith, Goto, Result, Report

\* On its way through the handler the worker keeps the instance, or goes back
\* to the queue with it.
LEMMA ReconcileRemembers ==
  ASSUME TypeOK, Remembered, Reconcile
  PROVE  Remembered'
<1> USE DEF Remembered, Goto
<1>a. {"Unset", "Reset", "Backoff"} \subseteq Status!Requeues
  BY DEF Status!Requeues
<1>b. ASSUME step' # "idle", rr'.sr # "NoRequeue" PROVE Remembered'
  BY <1>b
<1>1. CASE StartReconcile
  BY <1>1 DEF StartReconcile, Finish, Result
<1>2. CASE RemoveAnnotation
  BY <1>2 DEF RemoveAnnotation
<1>3. CASE ReadProviderConfig
  BY <1>3, <1>a, <1>b, ResultAsksAgain DEF ReadProviderConfig
<1>4. CASE DeleteAccess \/ ReleaseAccess
  BY <1>4, <1>a, <1>b, ResultAsksAgain DEF DeleteAccess, ReleaseAccess
<1>5. CASE GuardAccess \/ RemoveLegacy
  BY <1>5, <1>a, <1>b, ResultAsksAgain DEF GuardAccess, RemoveLegacy
<1>6. CASE RequestAccess
  BY <1>6, <1>a, <1>b, ResultAsksAgain DEF RequestAccess, AfterAccess
<1>7. CASE GuardComponents \/ UnguardComponents
  BY <1>7, <1>a, <1>b, ResultAsksAgain DEF GuardComponents, UnguardComponents
<1>8. CASE BuildFails \/ ListFails
  BY <1>8, <1>a, <1>b, ResultAsksAgain DEF BuildFails, ListFails
<1>9. CASE Install
  BY <1>9, <1>a, <1>b, ResultAsksAgain DEF Install
<1>10. CASE DeletePackages \/ AwaitRevisions \/ DeleteRest
  BY <1>10, <1>a, <1>b, ResultAsksAgain
  DEF DeletePackages, AwaitRevisions, DeleteRest, DeletePass
<1>11. CASE UpdateStatus
  <2>1. rr.sr # "NoRequeue" =>
          \A conds : Status!SmartRequeueConditional(rr.sr, conds) # "NoRequeue"
    BY AlwaysAgain DEF TypeOK, ResultType
  <2>2. xp'.exists = xp.exists /\ xp'.anno = xp.anno
    BY <1>11 DEF UpdateStatus, TypeOK, XPType
  <2>3. rr'.sr = "Unset" /\ (queued => queued') /\ (rr.sr # "NoRequeue" => queued')
    BY <1>11, <2>1 DEF UpdateStatus, NoResult
  <2> QED BY <2>2, <2>3
<1> QED BY <1>1, <1>2, <1>3, <1>4, <1>5, <1>6, <1>7, <1>8, <1>9, <1>10, <1>11 DEF Reconcile

\* So does everybody else: a write raises an event, a crash lists all anew.
LEMMA RememberedInductive ==
  /\ Init => Remembered
  /\ TypeOK /\ Coherent /\ Remembered /\ [Next]_vars => Remembered'
<1> USE DEF Remembered
<1>1. Init => Remembered
  BY RecordTypes DEF Init, LegacyXP, NoResult
<1>2. ASSUME TypeOK, Coherent, Remembered, [Next]_vars PROVE Remembered'
  <2>1. CASE Reconcile
    BY <1>2, <2>1, ReconcileRemembers
  <2>2. CASE Users
    <3>1. UNCHANGED <<step, rr>>
      BY <1>2, <2>2, UserWrites DEF worker
    <3>2. queued' = TRUE \/ (UNCHANGED xp /\ (queued => queued'))
      BY <2>2 DEF Users, CreateXP, EditSpec, Annotate, DeleteXP, ChangeConfig, Touch
    <3> QED BY <1>2, <3>1, <3>2
  <2>3. CASE Operators
    BY <1>2, <2>3, OperatorEffects DEF Coherent, worker
  <2>4. CASE Crash
    BY <1>2, <2>4 DEF Crash, NoResult
  <2>5. CASE UNCHANGED vars
    BY <1>2, <2>5 DEF vars, worker
  <2> QED BY <1>2, <2>1, <2>2, <2>3, <2>4, <2>5 DEF Next
<1> QED BY <1>1, <1>2

\* An instance that is not ignored is in the queue or in the worker's hands,
\* whatever failed, conflicted or crashed (Reconcile, updateStatus).
THEOREM NeverLeftAlone == Spec => []NeverForgotten
<1>1. Remembered => NeverForgotten
  BY DEF Remembered, NeverForgotten
<1> QED BY <1>1, RememberedInductive, Typing, Coherence, PTL DEF Spec
-----------------------------------------------------------------------------
(* What is as it should be is left alone.                                  *)

\* An install pass over what is up to date changes nothing, whichever of its
\* requests fail.
LEMMA PassKeepsUpToDate ==
  ASSUME TypeOK, AuxPlain, NEW spec \in Specs, NEW cfg \in Configs, NEW F, UpToDate(spec, cfg)
  PROVE  /\ AfterInstall(obj, ver, spec, cfg, F) = obj
         /\ VersionsAfter(obj, ver, spec, cfg, F) = ver
<1>1. obj \in [Comp -> ObjState] /\ ver \in [Comp -> Versions \cup {NoVersion}]
  BY DEF TypeOK
<1>2. ASSUME NEW c \in Applied(obj, spec, cfg, F), c \in Comp
      PROVE  ApplyState(c, obj, ver, spec) = obj[c] /\ VersionOf(c, spec) = ver[c]
  <2>1. c \in Desired(spec, cfg) /\ obj[c] = "healthy"
    BY <1>2 DEF Applied, UpToDate
  <2>2. CASE c \in Aux
    BY <2>1, <2>2, AuxApplied, SpecsAssumption DEF AuxPlain
  <2>3. CASE c \notin Aux
    BY <2>1, <2>3, HealthyApplied DEF UpToDate
  <2> QED BY <2>2, <2>3
<1>3. ASSUME NEW c \in Comp, c \notin Applied(obj, spec, cfg, F)
      PROVE  AfterInstall(obj, ver, spec, cfg, F)[c] = obj[c]
  <2>1. CASE c \in Desired(spec, cfg) \cup F
    BY <1>3, <2>1 DEF AfterInstall
  <2>2. CASE c \notin Desired(spec, cfg) \cup F
    <3>1. obj[c] = "absent"
      BY <2>2 DEF UpToDate
    <3> QED BY <1>3, <2>2, <3>1 DEF AfterInstall, UninstallState
  <2> QED BY <2>1, <2>2
<1>4. AfterInstall(obj, ver, spec, cfg, F) = obj
  BY <1>1, <1>2, <1>3 DEF AfterInstall
<1>5. VersionsAfter(obj, ver, spec, cfg, F) = ver
  BY <1>1, <1>2 DEF VersionsAfter
<1> QED BY <1>4, <1>5

\* Once all that was asked for is in place, no reconcile that has read as much
\* touches it, and no other operator has anything left to do
\* (createOrUpdateCrossplaneInstance).
THEOREM HealthIsLeftAlone == Spec => LeavesAlone
<1>1. ASSUME TypeOK, ReadyInv, [Next]_vars,
             config # NoConfig, ~ view.deleting, UpToDate(view.spec, config)
      PROVE  UNCHANGED <<obj, ver>>
  <2>1. config \in Configs /\ view.spec \in Specs /\ step \notin DeletionSteps
    BY <1>1 DEF TypeOK, XPType, ReadyInv, OnCourse
  <2>2. CASE Install
    BY <1>1, <2>1, <2>2, PassKeepsUpToDate DEF Install, ReadyInv
  <2>3. CASE Reconcile /\ ~ Install
    <3>1. ~ (DeletePackages \/ DeleteRest)
      BY <2>1 DEF DeletePackages, DeleteRest, DeletionSteps
    <3> QED BY <2>3, <3>1
        DEF Reconcile, StartReconcile, RemoveAnnotation, ReadProviderConfig, DeleteAccess,
            ReleaseAccess, GuardAccess, RemoveLegacy, RequestAccess, GuardComponents,
            BuildFails, ListFails, AwaitRevisions, UnguardComponents, UpdateStatus, cluster
  <2>4. CASE Operators
    <3>1. \A c \in Comp : obj[c] \in {"healthy", "absent"}
      BY <1>1 DEF UpToDate
    <3> QED BY <2>4, <3>1 DEF Operators, GrantAccess, RevokeAccess, BecomeHealthy, Upgrade,
                              Uninstalled, CollectRevision
  <2>5. CASE Users \/ Crash \/ UNCHANGED vars
    BY <1>1, <2>5, UserWrites DEF Crash, vars, cluster
  <2> QED BY <1>1, <2>2, <2>3, <2>4, <2>5 DEF Next
<1>2. TypeOK /\ ReadyInv /\ [Next]_vars =>
        [config # NoConfig /\ ~ view.deleting /\ UpToDate(view.spec, config) =>
           UNCHANGED <<obj, ver>>]_vars
  BY <1>1
<1>3. Spec => []ReadyInv
  BY ReadyInductive, Typing, PTL DEF Spec
<1> QED BY <1>2, <1>3, Typing, PTL DEF Spec, LeavesAlone
-----------------------------------------------------------------------------
(* A deletion only removes.                                                *)

\* Nothing is installed for an instance in deletion.
InstallsAlive == step \in {"guard", "install"} => ~ view.deleting

LEMMA InstallsAliveInductive ==
  /\ Init => InstallsAlive
  /\ TypeOK /\ Coherent /\ InstallsAlive /\ [Next]_vars => InstallsAlive'
<1> USE DEF InstallsAlive, Goto
<1>1. Init => InstallsAlive
  BY DEF Init
<1>2. ASSUME TypeOK, Coherent, InstallsAlive, [Next]_vars PROVE InstallsAlive'
  <2>1. CASE RequestAccess
    BY <2>1 DEF RequestAccess, AfterAccess, Finish
  <2>2. CASE GuardComponents
    BY <1>2, <2>2, WriteKeepsView DEF GuardComponents, Finish
  <2>3. CASE Reconcile /\ ~ RequestAccess /\ ~ GuardComponents
    <3>1. step' \notin {"guard", "install"}
      BY <2>3
      DEF Reconcile, StartReconcile, RemoveAnnotation, ReadProviderConfig, DeleteAccess,
          ReleaseAccess, GuardAccess, RemoveLegacy, BuildFails, ListFails, Install,
          DeletePackages, AwaitRevisions, DeleteRest, DeletePass, UnguardComponents,
          UpdateStatus, Finish, FinishWith
    <3> QED BY <3>1
  <2>4. CASE Users \/ Operators
    BY <1>2, <2>4, UserWrites, OperatorEffects DEF worker, Coherent
  <2>5. CASE Crash \/ UNCHANGED vars
    BY <1>2, <2>5 DEF Crash, vars, worker
  <2> QED BY <1>2, <2>1, <2>2, <2>3, <2>4, <2>5 DEF Next
<1> QED BY <1>1, <1>2

\* While a reconcile that has seen the deletion is under way, nothing comes to
\* the control plane that was not there (doReconcileComponents).
THEOREM DeletionShrinks == Spec => DeletionOnlyRemoves
<1>1. ASSUME TypeOK, Coherent, InstallsAlive, [Next]_vars, view.deleting, NEW c \in Comp,
             Present(obj', c)
      PROVE  Present(obj, c)
  <2>1. CASE UNCHANGED obj
    BY <1>1, <2>1 DEF Present
  <2>2. ASSUME NEW scope, NEW registered, NEW next, DeletePass(scope, registered, next),
               rev' = rev
        PROVE  Present(obj, c)
    BY <1>1, <2>2, DeleteServes DEF DeletePass, Coherent
  <2>3. CASE DeletePackages \/ DeleteRest
    BY <2>1, <2>2, <2>3 DEF DeletePackages, DeleteRest
  <2>4. CASE Reconcile /\ ~ DeletePackages /\ ~ DeleteRest
    <3>1. ~ Install
      BY <1>1 DEF Install, InstallsAlive
    <3> QED BY <2>1, <2>4, <3>1
        DEF Reconcile, StartReconcile, RemoveAnnotation, ReadProviderConfig, DeleteAccess,
            ReleaseAccess, GuardAccess, RemoveLegacy, RequestAccess, GuardComponents,
            BuildFails, ListFails, AwaitRevisions, UnguardComponents, UpdateStatus, cluster
  <2>5. ASSUME NEW d \in Comp, BecomeHealthy(d) \/ Upgrade(d) \/ Uninstalled(d)
        PROVE  Present(obj, c)
    BY <1>1, <2>5 DEF BecomeHealthy, Upgrade, Uninstalled, Present, TypeOK
  <2>6. CASE Operators
    BY <2>1, <2>5, <2>6 DEF Operators, GrantAccess, RevokeAccess, CollectRevision
  <2>7. CASE Users \/ Crash \/ UNCHANGED vars
    BY <1>1, <2>1, <2>7, UserWrites DEF Crash, vars, cluster
  <2> QED BY <1>1, <2>3, <2>4, <2>6, <2>7 DEF Next
<1>2. TypeOK /\ Coherent /\ InstallsAlive /\ [Next]_vars =>
        [view.deleting => \A c \in Comp : Present(obj', c) => Present(obj, c)]_vars
  BY <1>1
<1>3. Spec => []InstallsAlive
  BY InstallsAliveInductive, Typing, Coherence, PTL DEF Spec
<1> QED BY <1>2, <1>3, Typing, Coherence, PTL DEF Spec, DeletionOnlyRemoves
=============================================================================
