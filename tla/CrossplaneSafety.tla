-------------------------- MODULE CrossplaneSafety --------------------------
(***************************************************************************)
(* The safety properties of CrossplaneSystem, for every value of its       *)
(* constants: Coherent is inductive, and so is ComponentsGuarded unless    *)
(* the operator takes over an instance of an older release.                *)
(***************************************************************************)
EXTENDS CrossplaneTyping

-----------------------------------------------------------------------------
(* What the writes and passes of the handler do.                           *)

\* A write keeps the view coherent.
LEMMA WriteCoherent ==
  ASSUME TypeOK, ViewCoherent, step # "idle", NEW F \in SUBSET Finalizers, SetFinalizers(F)
  PROVE  /\ view'.fins = F /\ view'.spec = view.spec /\ view'.deleting = view.deleting
         /\ xp'.exists => xp.exists /\ xp'.fins = F
         /\ F # {} => xp'.exists
         /\ fresh /\ xp'.exists => view'.spec = xp'.spec
<1>1. xp \in XPType /\ view \in XPType
  BY DEF TypeOK
<1>2. view' = [view EXCEPT !.fins = F]
  BY DEF SetFinalizers
<1>3. view'.fins = F /\ view'.spec = view.spec /\ view'.deleting = view.deleting
  BY <1>1, <1>2 DEF XPType
<1>4. CASE F = view.fins
  <2>1. xp' = xp
    BY <1>4 DEF SetFinalizers
  <2> QED BY <1>3, <1>4, <2>1 DEF ViewCoherent
<1>5. CASE F # view.fins
  <2>1. xp.exists /\ fresh /\ xp' = Updated(F)
    BY <1>5 DEF SetFinalizers, CanUpdate
  <2>2. CASE xp.deleting /\ F = {}
    <3>1. ~ xp'.exists
      BY <2>1, <2>2, RecordTypes DEF Updated
    <3> QED BY <1>3, <2>2, <3>1
  <2>3. CASE ~ (xp.deleting /\ F = {})
    <3>1. xp' = [xp EXCEPT !.fins = F, !.spec = view.spec, !.anno = view.anno]
      BY <2>1, <2>3 DEF Updated
    <3>2. xp'.fins = F /\ xp'.exists /\ xp'.spec = view.spec
      BY <1>1, <2>1, <3>1 DEF XPType
    <3> QED BY <1>3, <2>1, <3>2
  <2> QED BY <2>2, <2>3
<1> QED BY <1>4, <1>5

\* Installing packages takes a healthy Crossplane, and never removes it.
LEMMA InstallServes ==
  ASSUME TypeOK, CrossplaneServesPackages, NEW spec \in Specs, NEW F,
         NEW cfg, obj' = AfterInstall(obj, ver, spec, cfg, F), rev' = rev
  PROVE  CrossplaneServesPackages'
<1> USE DEF Present, Running
<1>1. obj \in [Comp -> ObjState] /\ Crossplane \in Comp /\ Crossplane \in Desired(spec, cfg)
  BY DEF TypeOK, Comp, Desired
<1>2. Packages \subseteq Comp /\ Crossplane \notin Packages
  BY ComponentsAreDistinct DEF Comp
<1>3. Running(obj) => Running(obj')
  <2>1. Running(obj) => ApplyState(Crossplane, obj, ver, spec)
                          \in {"pending", "healthy", "outdated", "upgrading"}
    BY ComponentsAreDistinct DEF ApplyState, Comp
  <2>2. obj'[Crossplane] \in {ApplyState(Crossplane, obj, ver, spec), obj[Crossplane]}
    BY <1>1 DEF AfterInstall
  <2> QED BY <2>1, <2>2
<1>4. ASSUME NEW p \in Packages, Present(obj', p)
      PROVE  Present(obj, p) \/ Running(obj)
  <2>1. p \in Comp /\ p # Crossplane
    BY <1>2
  <2>2. p \in Applied(obj, spec, cfg, F) => Running(obj)
    BY <2>1 DEF Applied, DependencyReady, LooksHealthy
  <2>3. p \notin Applied(obj, spec, cfg, F) => Present(obj, p)
    BY <1>1, <1>4, <2>1 DEF AfterInstall, UninstallState
  <2> QED BY <2>2, <2>3
<1> QED BY <1>3, <1>4 DEF CrossplaneServesPackages

\* A deletion pass creates nothing, and keeps Crossplane for its packages.
LEMMA DeleteServes ==
  ASSUME TypeOK, CrossplaneServesPackages, NEW scope, NEW F,
         obj' = AfterDelete(obj, rev, scope, F), rev' = rev
  PROVE  /\ CrossplaneServesPackages'
         /\ \A c \in Comp : Present(obj', c) => Present(obj, c)
<1> USE DEF Present, Running
<1>1. obj \in [Comp -> ObjState] /\ Crossplane \in Comp /\ Packages \subseteq Comp
  BY DEF TypeOK, Comp
<1>2. \A c \in Comp : Present(obj', c) => Present(obj, c)
  BY <1>1 DEF AfterDelete, UninstallState
<1>3. ~ HookOK(obj, rev) => obj'[Crossplane] = obj[Crossplane]
  BY <1>1 DEF AfterDelete
<1>4. HookOK(obj, rev) => rev' = {} /\ \A p \in Packages : ~ Present(obj', p)
  BY <1>1, <1>2 DEF HookOK
<1> QED BY <1>1, <1>2, <1>3, <1>4 DEF CrossplaneServesPackages

\* A write of finalizers, done or failed, that does not give up an access.
LEMMA FinalizerStep ==
  ASSUME TypeOK, Coherent, step # "idle", NEW F \in SUBSET Finalizers,
         SetFinalizers(F) \/ SetFinalizersFails(F),
         UNCHANGED <<cluster, fresh>>, "Access" \in F \/ access = "none",
         "Components" \in F => "Components" \in view.fins \/ access = "granted"
  PROVE  ViewCoherent' /\ AccessGuarded' /\ CrossplaneServesPackages'
<1> USE DEF Coherent
<1>1. CrossplaneServesPackages'
  BY DEF CrossplaneServesPackages, cluster
<1>2. CASE SetFinalizers(F)
  <2>1. access' = access
    BY DEF cluster
  <2>2. xp'.exists => xp.exists /\ xp'.fins = F /\ view.fins = xp.fins
    BY <1>2, WriteCoherent DEF ViewCoherent
  <2>3. access # "none" => xp'.exists /\ xp'.fins \cap {"Access", "Legacy"} # {}
    BY <1>2, <2>2, WriteCoherent
  <2>4. xp'.exists /\ "Components" \in xp'.fins => access = "granted"
    BY <2>2 DEF AccessGuarded
  <2>5. AccessGuarded'
    BY <2>1, <2>3, <2>4 DEF AccessGuarded
  <2> QED BY <1>1, <1>2, <2>5, WriteCoherent DEF ViewCoherent
<1>3. CASE SetFinalizersFails(F)
  BY <1>1, <1>3 DEF SetFinalizersFails, ViewCoherent, AccessGuarded, cluster
<1> QED BY <1>2, <1>3

\* Steps that leave the instance and the view alone.
LEMMA QuietStep ==
  ASSUME TypeOK, Coherent, step # "idle", UNCHANGED <<xp, view, fresh>>
  PROVE  ViewCoherent'
BY DEF Coherent, ViewCoherent
-----------------------------------------------------------------------------
(* Coherent is inductive.                                                  *)

\* Each step of the handler leaves the next one what it relies on.
LEMMA ReconcileCoherent ==
  ASSUME TypeOK, Coherent, Reconcile
  PROVE  Coherent'
<1> USE DEF Coherent, cluster, Goto, Finish, FinishWith
<1>a. view.fins \in SUBSET Finalizers /\ view.spec \in Specs
  BY DEF TypeOK, XPType
<1>b. rev' = rev /\ obj' = obj => CrossplaneServesPackages' /\ Owns' = Owns
  BY DEF CrossplaneServesPackages, Owns
<1>c. xp' = xp /\ access' = access => AccessGuarded'
  BY DEF AccessGuarded
<1>1. CASE StartReconcile
  <2>1. ViewCoherent'
    BY <1>1 DEF StartReconcile, ViewCoherent
  <2>2. StepCoherent'
    BY <1>1 DEF StartReconcile, StepCoherent
  <2> QED BY <1>1, <1>b, <1>c, <2>1, <2>2 DEF StartReconcile
<1>2. CASE RemoveAnnotation
  <2>1. CASE /\ xp.exists /\ xp' = [xp EXCEPT !.anno = "none"]
             /\ view' = xp' /\ fresh' = TRUE /\ step' = "config"
    <3>1. xp'.exists = xp.exists /\ xp'.fins = xp.fins /\ xp'.spec = xp.spec
      BY <2>1 DEF TypeOK, XPType
    <3> QED BY <1>2, <1>b, <2>1, <3>1
            DEF RemoveAnnotation, ViewCoherent, StepCoherent, AccessGuarded
  <2>2. CASE step' = "idle" /\ fresh' = FALSE /\ UNCHANGED xp
    BY <1>2, <1>b, <1>c, <2>2 DEF RemoveAnnotation, ViewCoherent, StepCoherent
  <2> QED BY <1>2, <2>1, <2>2 DEF RemoveAnnotation
<1>3. CASE ReadProviderConfig
  <2>1. ReadyForCleanup(view) => "Components" \notin view.fins
    BY DEF ReadyForCleanup
  <2> QED BY <1>3, <1>b, <1>c, <2>1, QuietStep DEF ReadProviderConfig, StepCoherent
<1>4. CASE DeleteAccess
  <2>0. xp.exists => "Components" \notin xp.fins
    BY <1>4 DEF DeleteAccess, StepCoherent, ViewCoherent
  <2>1. AccessGuarded'
    BY <1>4, <2>0 DEF DeleteAccess, AccessGuarded
  <2> QED BY <1>4, <1>b, <2>1, QuietStep DEF DeleteAccess, StepCoherent
<1>5. CASE ReleaseAccess
  <2>1. view.fins \ {"Access"} \in SUBSET Finalizers
    BY <1>a
  <2>2. ViewCoherent' /\ AccessGuarded' /\ CrossplaneServesPackages'
    BY <1>5, <2>1, FinalizerStep DEF ReleaseAccess, StepCoherent
  <2> QED BY <1>5, <2>2 DEF ReleaseAccess, StepCoherent
<1>6. CASE GuardAccess
  <2>1. view.fins \cup {"Access"} \in SUBSET Finalizers
    BY <1>a DEF Finalizers
  <2>2. ViewCoherent' /\ AccessGuarded' /\ CrossplaneServesPackages'
    BY <1>6, <2>1, FinalizerStep DEF GuardAccess
  <2>3. step' = "legacy" => "Access" \in view'.fins
    BY <1>6, <2>1, WriteCoherent DEF GuardAccess
  <2> QED BY <1>6, <2>2, <2>3 DEF GuardAccess, StepCoherent
<1>7. CASE RemoveLegacy
  <2>1. view.fins \ {"Legacy"} \in SUBSET Finalizers /\ "Access" \in view.fins \ {"Legacy"}
    BY <1>7, <1>a DEF RemoveLegacy, StepCoherent
  <2>2. ViewCoherent' /\ AccessGuarded' /\ CrossplaneServesPackages'
    BY <1>7, <2>1, FinalizerStep DEF RemoveLegacy
  <2>3. step' = "accessRequest" => "Access" \in view'.fins
    BY <1>7, <2>1, WriteCoherent DEF RemoveLegacy
  <2> QED BY <1>7, <2>2, <2>3 DEF RemoveLegacy, StepCoherent
<1>8. CASE RequestAccess
  <2>1. xp.exists /\ "Access" \in xp.fins /\ "Access" \in view.fins
    BY <1>8 DEF RequestAccess, StepCoherent, ViewCoherent
  <2>2. AccessGuarded'
    BY <1>8, <2>1 DEF RequestAccess, AccessGuarded
  <2>3. StepCoherent'
    BY <1>8, <2>1 DEF RequestAccess, AfterAccess, StepCoherent
  <2> QED BY <1>8, <1>b, <2>2, <2>3, QuietStep DEF RequestAccess
<1>9. CASE GuardComponents
  <2>1. /\ view.fins \cup {"Components"} \in SUBSET Finalizers /\ "Access" \in view.fins
        /\ access = "granted"
    BY <1>9, <1>a DEF GuardComponents, StepCoherent, Finalizers
  <2>2. ViewCoherent' /\ AccessGuarded' /\ CrossplaneServesPackages'
    BY <1>9, <2>1, FinalizerStep DEF GuardComponents
  <2>3. step' = "install" => {"Access", "Components"} \subseteq view'.fins
    BY <1>9, <2>1, WriteCoherent DEF GuardComponents
  <2> QED BY <1>9, <2>2, <2>3 DEF GuardComponents, StepCoherent
<1>10. CASE BuildFails
  BY <1>10, <1>b, <1>c, QuietStep DEF BuildFails, StepCoherent
<1>11. CASE ListFails
  BY <1>11, <1>b, <1>c, QuietStep DEF ListFails, StepCoherent
<1>12. CASE Install
  <2>1. CrossplaneServesPackages'
    BY <1>12, <1>a, InstallServes DEF Install
  <2> QED BY <1>12, <1>c, <2>1, QuietStep DEF Install, StepCoherent
<1>13. ASSUME NEW scope, NEW registered, NEW next, DeletePass(scope, registered, next), rev' = rev
       PROVE  /\ CrossplaneServesPackages' /\ step' \in {"status", next}
              /\ \A c \in Comp : Present(obj', c) => Present(obj, c)
              /\ step' = "status" \/ ~ Remaining(obj, scope)
  BY <1>13, DeleteServes DEF DeletePass
<1>14. CASE DeletePackages
  BY <1>14, <1>c, <1>13, QuietStep DEF DeletePackages, StepCoherent
<1>15. CASE AwaitRevisions
  BY <1>15, <1>b, <1>c, QuietStep DEF AwaitRevisions, StepCoherent
<1>16. CASE DeleteRest
  <2>1. CrossplaneServesPackages' /\ step' \in {"status", "unguard"}
    BY <1>16, <1>13, <1>b DEF DeleteRest
  <2>2. ASSUME step' = "unguard" PROVE ~ Owns'
    <3>1. \A c \in Comp : ~ Present(obj', c)
      BY <1>16, <1>13, <2>2 DEF DeleteRest, Remaining, PhaseTwo
    <3>2. rev' = {}
      BY <2>1, <3>1 DEF CrossplaneServesPackages, Running, Present, Comp
    <3> QED BY <3>1, <3>2 DEF Owns, AllAbsent
  <2> QED BY <1>16, <1>c, <2>1, <2>2, QuietStep DEF DeleteRest, StepCoherent
<1>17. CASE UnguardComponents
  <2>1. view.fins \ {"Components"} \in SUBSET Finalizers /\ "Access" \in view.fins
    BY <1>17, <1>a DEF UnguardComponents, StepCoherent
  <2>2. ViewCoherent' /\ AccessGuarded' /\ CrossplaneServesPackages'
    BY <1>17, <2>1, FinalizerStep DEF UnguardComponents
  <2> QED BY <1>17, <2>2 DEF UnguardComponents, StepCoherent
<1>18. CASE UpdateStatus
  <2>1. step' = "idle" /\ fresh' = FALSE
    BY <1>18 DEF UpdateStatus
  <2>2. xp'.exists = xp.exists /\ xp'.fins = xp.fins
    BY <1>18 DEF UpdateStatus, TypeOK, XPType
  <2> QED BY <1>18, <1>b, <2>1, <2>2
          DEF UpdateStatus, ViewCoherent, StepCoherent, AccessGuarded
<1> QED
  BY <1>1, <1>2, <1>3, <1>4, <1>5, <1>6, <1>7, <1>8, <1>9, <1>10, <1>11, <1>12,
     <1>14, <1>15, <1>16, <1>17, <1>18 DEF Reconcile

\* A user's write: only an instance without finalizers comes or goes.
LEMMA UserWrites ==
  ASSUME TypeOK, Users
  PROVE  /\ UNCHANGED <<cluster, worker>>
         /\ fresh' = FALSE \/ UNCHANGED <<xp, fresh>>
         /\ \/ xp'.exists = xp.exists /\ xp'.fins = xp.fins
            \/ ~ xp.exists /\ xp'.exists /\ xp'.fins = {}
            \/ ~ xp'.exists /\ xp.fins = {}
<1>1. ASSUME NEW s \in Specs, CreateXP(s) PROVE xp'.exists /\ xp'.fins = {}
  BY <1>1 DEF CreateXP, NewXP
<1>2. ASSUME NEW s \in Specs, EditSpec(s) PROVE xp'.exists = xp.exists /\ xp'.fins = xp.fins
  BY <1>2 DEF EditSpec, TypeOK, XPType
<1>3. ASSUME NEW a \in {"none", "ignore", "reconcile"}, Annotate(a)
      PROVE  xp'.exists = xp.exists /\ xp'.fins = xp.fins
  BY <1>3 DEF Annotate, TypeOK, XPType
<1>4. ASSUME DeleteXP
      PROVE  \/ xp'.exists = xp.exists /\ xp'.fins = xp.fins
             \/ ~ xp'.exists /\ xp.fins = {}
  BY <1>4, RecordTypes DEF DeleteXP, TypeOK, XPType
<1>5. \A s \in Specs : CreateXP(s) => ~ xp.exists
  BY DEF CreateXP
<1>6. \/ fresh' = FALSE /\ UNCHANGED <<cluster, worker>>
      \/ UNCHANGED <<xp, fresh, cluster, worker>>
  BY DEF Users, CreateXP, EditSpec, Annotate, DeleteXP, ChangeConfig, Touch
<1>7. ASSUME NEW new, ChangeConfig(new) PROVE UNCHANGED xp
  BY <1>7 DEF ChangeConfig
<1> QED BY <1>1, <1>2, <1>3, <1>4, <1>5, <1>6, <1>7 DEF Users

\* The other operators only touch what is on the control plane; they create
\* nothing but the revision of a package that is there.
LEMMA OperatorEffects ==
  ASSUME TypeOK, CrossplaneServesPackages, Operators
  PROVE  /\ UNCHANGED <<xp, providerConfig, queued, worker, fresh, edits, faults>>
         /\ \/ access' = access
            \/ access = "pending" /\ access' = "granted"
            \/ access = "terminating" /\ access' = "none"
         /\ CrossplaneServesPackages'
         /\ Owns' => Owns
<1> USE DEF Elsewhere, Present, Running, Owns, AllAbsent, CrossplaneServesPackages
<1>1. obj \in [Comp -> ObjState] /\ Packages \subseteq Comp /\ Crossplane \in Comp
      /\ Crossplane \notin Packages
  BY ComponentsAreDistinct DEF TypeOK, Comp
<1>2. CASE GrantAccess \/ RevokeAccess
  BY <1>2 DEF GrantAccess, RevokeAccess
<1>3. ASSUME NEW c \in Comp, BecomeHealthy(c) \/ Upgrade(c)
      PROVE  CrossplaneServesPackages' /\ (Owns' => Owns)
  <2>1. PICK new \in {"healthy", "upgrading"} :
          obj' = [obj EXCEPT ![c] = new] /\ obj[c] \in {"pending", "outdated", "upgrading"}
    BY <1>3 DEF BecomeHealthy, Upgrade
  <2>2. rev' \subseteq rev \cup ({c} \cap Packages)
    BY <1>3 DEF BecomeHealthy, Upgrade
  <2>3. Running(obj) => Running(obj')
    BY <1>1, <2>1
  <2>4. \A d \in Comp : Present(obj', d) => Present(obj, d)
    BY <1>1, <2>1
  <2>5. c \in Packages => Running(obj)
    BY <1>1, <2>1
  <2> QED BY <1>1, <2>1, <2>2, <2>3, <2>4, <2>5
<1>4. ASSUME NEW c \in Comp, Uninstalled(c)
      PROVE  CrossplaneServesPackages' /\ (Owns' => Owns)
  <2>1. obj' = [obj EXCEPT ![c] = "absent"] /\ obj[c] = "deleting" /\ rev' = rev
    BY <1>4 DEF Uninstalled
  <2>2. Running(obj) => Running(obj')
    BY <1>1, <2>1
  <2>3. \A d \in Comp : Present(obj', d) => Present(obj, d)
    BY <1>1, <2>1
  <2> QED BY <1>1, <2>1, <2>2, <2>3
<1>5. ASSUME NEW p \in Packages, CollectRevision(p)
      PROVE  CrossplaneServesPackages' /\ (Owns' => Owns)
  BY <1>5 DEF CollectRevision
<1>6. UNCHANGED <<xp, providerConfig, queued, worker, fresh, edits, faults>>
  BY DEF Operators, GrantAccess, RevokeAccess, BecomeHealthy, Upgrade, Uninstalled,
         CollectRevision
<1>7. \/ access' = access
      \/ access = "pending" /\ access' = "granted"
      \/ access = "terminating" /\ access' = "none"
  BY DEF Operators, GrantAccess, RevokeAccess, BecomeHealthy, Upgrade, Uninstalled,
         CollectRevision
<1> QED BY <1>2, <1>3, <1>4, <1>5, <1>6, <1>7 DEF Operators

\* So does every other step.
LEMMA CoherentInductive ==
  /\ Init => Coherent
  /\ TypeOK /\ Coherent /\ [Next]_vars => Coherent'
<1> USE DEF Coherent, cluster, worker
<1>1. Init => Coherent
  <2> SUFFICES ASSUME Init PROVE Coherent
    OBVIOUS
  <2>1. ViewCoherent /\ StepCoherent
    BY DEF Init, ViewCoherent, StepCoherent
  <2>2. ASSUME NEW s \in Specs, LegacyXP(s)
        PROVE  AccessGuarded /\ CrossplaneServesPackages
    <3>1. xp.exists /\ xp.fins = {"Legacy"}
      BY <2>2 DEF LegacyXP, NewXP
    <3>2. AccessGuarded
      BY <3>1 DEF AccessGuarded
    <3>3. \/ obj[Crossplane] = "healthy"
          \/ rev = {} /\ \A c \in Comp : obj[c] = "absent"
      BY <2>2 DEF LegacyXP, Comp
    <3>4. CrossplaneServesPackages
      BY <3>3 DEF CrossplaneServesPackages, Running, Present, Comp
    <3> QED BY <3>2, <3>4
  <2>3. CASE /\ xp = NoXP /\ access = "none" /\ rev = {}
             /\ obj = [c \in Comp |-> "absent"]
    BY <2>1, <2>3, RecordTypes
    DEF AccessGuarded, CrossplaneServesPackages, Present, Comp
  <2> QED BY <2>1, <2>2, <2>3 DEF Init
<1>2. ASSUME TypeOK, Coherent, [Next]_vars PROVE Coherent'
  <2>1. CASE Users
    <3>1. UNCHANGED <<cluster, worker>>
      BY <1>2, <2>1, UserWrites
    <3>2. CrossplaneServesPackages' /\ StepCoherent'
      BY <1>2, <3>1 DEF CrossplaneServesPackages, StepCoherent, Owns
    <3>3. CASE xp'.exists = xp.exists /\ xp'.fins = xp.fins
      <4>1. fresh' = FALSE \/ UNCHANGED <<xp, fresh>>
        BY <1>2, <2>1, UserWrites
      <4> QED BY <1>2, <3>1, <3>2, <3>3, <4>1 DEF ViewCoherent, AccessGuarded
    <3>4. CASE fresh' = FALSE /\ ~ xp.exists /\ xp'.exists /\ xp'.fins = {}
      BY <1>2, <3>1, <3>2, <3>4 DEF ViewCoherent, AccessGuarded
    <3>5. CASE fresh' = FALSE /\ ~ xp'.exists /\ xp.fins = {}
      BY <1>2, <3>1, <3>2, <3>5 DEF ViewCoherent, AccessGuarded
    <3> QED BY <1>2, <2>1, <3>3, <3>4, <3>5, UserWrites
  <2>2. CASE Operators
    <3>1. CrossplaneServesPackages' /\ ViewCoherent'
      BY <1>2, <2>2, OperatorEffects DEF ViewCoherent
    <3>2. StepCoherent' /\ AccessGuarded'
      BY <1>2, <2>2, OperatorEffects DEF StepCoherent, AccessGuarded
    <3> QED BY <3>1, <3>2
  <2>3. CASE Crash
    <3>1. CrossplaneServesPackages' /\ AccessGuarded'
      BY <1>2, <2>3 DEF Crash, CrossplaneServesPackages, AccessGuarded
    <3>2. ViewCoherent' /\ StepCoherent'
      BY <2>3 DEF Crash, ViewCoherent, StepCoherent
    <3> QED BY <3>1, <3>2
  <2>4. CASE UNCHANGED vars
    BY <1>2, <2>4 DEF vars, ViewCoherent, StepCoherent, AccessGuarded,
       CrossplaneServesPackages, Owns
  <2> QED BY <1>2, <2>1, <2>2, <2>3, <2>4, ReconcileCoherent DEF Next
<1> QED BY <1>1, <1>2

\* At every step the worker knows what it relies on, whatever users, other
\* operators and crashes did in between.
THEOREM Coherence == Spec => []Coherent
BY CoherentInductive, Typing, PTL DEF Spec

\* Crossplane is there as long as it has packages or revisions to finalize.
THEOREM ServesPackages == Spec => []CrossplaneServesPackages
BY Coherence, PTL DEF Coherent
-----------------------------------------------------------------------------
(* No write loses an edit.                                                 *)

\* The worker's writes leave the spec of an instance alone.
LEMMA ReconcileKeepsSpec ==
  ASSUME TypeOK, Coherent, Reconcile, xp.exists, xp'.exists
  PROVE  xp'.spec = xp.spec
<1> USE DEF Coherent
<1>1. ASSUME NEW F \in SUBSET Finalizers, SetFinalizers(F), step # "idle"
      PROVE  xp'.spec = xp.spec
  <2>1. CASE xp' = Updated(F) /\ fresh
    <3>1. view'.spec = xp'.spec /\ view'.spec = view.spec /\ view.spec = xp.spec
      BY <1>1, <2>1, WriteCoherent DEF ViewCoherent
    <3> QED BY <3>1
  <2> QED BY <1>1, <2>1 DEF SetFinalizers, CanUpdate
<1>2. \A c \in Finalizers : /\ view.fins \cup {c} \in SUBSET Finalizers
                           /\ view.fins \ {c} \in SUBSET Finalizers
  BY DEF TypeOK, XPType
<1>3. CASE \/ ReleaseAccess \/ GuardAccess \/ RemoveLegacy
           \/ GuardComponents \/ UnguardComponents
  <2>1. \E F \in SUBSET Finalizers : SetFinalizers(F) \/ SetFinalizersFails(F)
    BY <1>2, <1>3
    DEF ReleaseAccess, GuardAccess, RemoveLegacy, GuardComponents, UnguardComponents, Finalizers
  <2>2. step # "idle"
    BY <1>3
    DEF ReleaseAccess, GuardAccess, RemoveLegacy, GuardComponents, UnguardComponents
  <2> QED BY <1>1, <2>1, <2>2 DEF SetFinalizersFails
<1>4. CASE RemoveAnnotation \/ UpdateStatus
  BY <1>4 DEF RemoveAnnotation, UpdateStatus, TypeOK, XPType
<1> QED
  BY <1>3, <1>4 DEF Reconcile, StartReconcile, ReadProviderConfig, DeleteAccess, RequestAccess,
     BuildFails, ListFails, Install, DeletePackages, AwaitRevisions, DeleteRest

\* Only a user's own write changes the spec of an instance: a worker whose
\* view was overtaken is refused (ensureFinalizer, removeFinalizer).
THEOREM EditsAreKept == Spec => NoLostEdit
<1>1. ASSUME TypeOK, Coherent, [Next]_vars, xp.exists, xp'.exists, xp'.spec # xp.spec
      PROVE  edits' = edits + 1
  <2>1. CASE Users
    BY <2>1 DEF Users, CreateXP, EditSpec, Annotate, DeleteXP, ChangeConfig, Touch, Edit
  <2>2. ~ (Operators \/ Crash \/ UNCHANGED vars)
    BY <1>1, OperatorEffects DEF Coherent, Crash, vars
  <2> QED BY <1>1, <2>1, <2>2, ReconcileKeepsSpec DEF Next
<1>2. TypeOK /\ Coherent /\ [Next]_vars =>
        [(xp.exists /\ xp'.exists /\ xp'.spec # xp.spec) => edits' = edits + 1]_vars
  BY <1>1
<1> QED BY <1>2, Typing, Coherence, PTL DEF Spec, NoLostEdit
=============================================================================
