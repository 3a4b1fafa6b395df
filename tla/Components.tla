----------------------------- MODULE Components -----------------------------
(***************************************************************************)
(* The components of a Crossplane instance and what one pass of the        *)
(* juggler library does to them.  A pass is written as operators over the  *)
(* state of the component objects (obj), the package revisions Crossplane  *)
(* keeps (rev) and the version the Helm release and each package were last *)
(* set to (ver).                                                           *)
(*                                                                         *)
(* A spec is [version, pkgs], where pkgs gives each package its version.   *)
(* A ProviderConfig is                                                     *)
(*   [versions : the Crossplane versions it offers,                        *)
(*    kinds    : which of its two package lists are not empty,             *)
(*    pkgs     : the packages it offers, with their versions,              *)
(*    aux      : the secrets, config maps and runtime configs it implies]. *)
(***************************************************************************)
EXTENDS Naturals, FiniteSets

CONSTANTS Providers,     \* names of Crossplane providers
          Functions,     \* names of Crossplane functions
          Aux,           \* secrets, config maps, deployment runtime configs
          Versions       \* of Crossplane and of packages

Crossplane == "Crossplane"
Packages   == Providers \cup Functions
Comp       == {Crossplane} \cup Packages \cup Aux

ASSUME ComponentsAreDistinct ==
  /\ Crossplane \notin Packages \cup Aux
  /\ Packages \cap Aux = {}

NoVersion    == "none"
SpecType     == [version : Versions, pkgs : UNION {[P -> Versions] : P \in SUBSET Packages}]
ConfigType   == [versions : SUBSET Versions, kinds : SUBSET {"providers", "functions"},
                 pkgs : SUBSET (Packages \X Versions), aux : SUBSET Aux]

\* A release or a package is pending until it is healthy for the first time.
\* One that is given another version is outdated as long as its conditions are
\* still those of the version before, and upgrading once they say that it is
\* not healthy.  It lives on as deleting until its finalizer is processed;
\* secrets, config maps and runtime configs are there or not.
ObjState == {"absent", "pending", "healthy", "outdated", "upgrading", "deleting"}

Present(obj, c)  == obj[c] # "absent"
AllAbsent(obj)   == \A c \in Comp : ~ Present(obj, c)
Running(obj)     == obj[Crossplane] \in {"pending", "healthy", "outdated", "upgrading"}

\* It has been healthy in some version; its conditions say that it is.
Up(obj, c)           == obj[c] \in {"healthy", "outdated", "upgrading"}
LooksHealthy(obj, c) == obj[c] \in {"healthy", "outdated"}

\* What buildComponents returns for a spec and a ProviderConfig.
Pkgs(spec)         == DOMAIN spec.pkgs
Desired(spec, cfg) == {Crossplane} \cup Pkgs(spec) \cup cfg.aux

\* The version a spec asks for, of a component that has one.
VersionOf(c, spec) ==
  IF c = Crossplane THEN spec.version
  ELSE IF c \in Pkgs(spec) THEN spec.pkgs[c] ELSE NoVersion

\* Packages of a kind whose list in the ProviderConfig is empty make the
\* build fail, whether components are built to be installed or removed.
KindsOffered(spec, cfg) ==
  /\ Pkgs(spec) \cap Providers # {} => "providers" \in cfg.kinds
  /\ Pkgs(spec) \cap Functions # {} => "functions" \in cfg.kinds

\* Mutant: a removal insists on the version, too.
BuildOKStrict(spec, cfg, enabled) ==
  /\ spec.version \in cfg.versions
  /\ KindsOffered(spec, cfg)

\* Only a build for installation insists on the version.
BuildOK(spec, cfg, enabled) ==
  /\ enabled => spec.version \in cfg.versions
  /\ KindsOffered(spec, cfg)

Installable(c, spec, cfg) == c \in Pkgs(spec) => <<c, spec.pkgs[c]>> \in cfg.pkgs

\* Everything but Crossplane depends on Crossplane, in whatever version it is
\* healthy.  (A package also names a runtime config, by a name none of the
\* components has.)
DependencyReady(c, obj) == c # Crossplane => LooksHealthy(obj, Crossplane)

\* The components a pass can apply, F being those whose calls fail.
Applied(obj, spec, cfg, F) ==
  {c \in Desired(spec, cfg) \ F : Installable(c, spec, cfg) /\ DependencyReady(c, obj)}

\* Mutant: every pass starts a new roll-out.
ApplyStateAnew(c, obj, ver, spec) ==
  IF obj[c] = "deleting" THEN "deleting"
  ELSE IF c \in Aux THEN "healthy"
  ELSE IF Up(obj, c) THEN "outdated" ELSE "pending"

\* Only a new version starts a roll-out, and until that is noticed the
\* conditions of the object stay as they are.
ApplyState(c, obj, ver, spec) ==
  IF obj[c] = "deleting" THEN "deleting"
  ELSE IF c \in Aux THEN "healthy"
  ELSE IF obj[c] = "absent" THEN "pending"
  ELSE IF obj[c] = "healthy" /\ ver[c] # VersionOf(c, spec) THEN "outdated"
  ELSE obj[c]

\* A package Crossplane cannot finalize stays; so does a running release.
UninstallState(c, obj) ==
  IF c \in Aux \/ obj[c] = "absent" THEN "absent" ELSE "deleting"

\* An install pass applies what it can and uninstalls every orphan, that is
\* every managed object that is no longer desired.
AfterInstall(obj, ver, spec, cfg, F) ==
  [c \in Comp |->
     IF c \in Applied(obj, spec, cfg, F) THEN ApplyState(c, obj, ver, spec)
     ELSE IF c \in Desired(spec, cfg) \cup F THEN obj[c]
     ELSE UninstallState(c, obj)]

VersionsAfter(obj, ver, spec, cfg, F) ==
  [c \in Comp |-> IF c \in Applied(obj, spec, cfg, F) THEN VersionOf(c, spec) ELSE ver[c]]

\* Mutant: what was applied counts as healthy.
InstallReportApplied(obj, spec, cfg, F) ==
  [c \in Comp |->
     IF c \in Desired(spec, cfg)
     THEN IF c \in Applied(obj, spec, cfg, F) THEN "True" ELSE "False"
     ELSE IF Present(obj, c) THEN "True" ELSE "Absent"]

\* Status of the conditions an install pass returns: of a component that was
\* applied, what its object said of itself before, of whatever version; no
\* entry for a disabled component that is not there, True for an orphan that
\* was uninstalled.
InstallReport(obj, spec, cfg, F) ==
  [c \in Comp |->
     IF c \in Desired(spec, cfg)
     THEN IF c \in Applied(obj, spec, cfg, F) /\ (c \in Aux \/ LooksHealthy(obj, c))
          THEN "True" ELSE "False"
     ELSE IF ~ Present(obj, c) THEN "Absent"
     ELSE IF c \in F THEN "False" ELSE "True"]

\* Mutant: the hook looks at packages only.
HookOKPackagesOnly(obj, rev) == \A p \in Packages : ~ Present(obj, p)

\* PreventOrphanedResources: no uninstall of Crossplane while packages or
\* their revisions are left.
HookOK(obj, rev) == rev = {} /\ \A p \in Packages : ~ Present(obj, p)

\* A pass over the disabled components in scope.
AfterDelete(obj, rev, scope, F) ==
  [c \in Comp |->
     IF c \in scope \ F /\ (c = Crossplane => HookOK(obj, rev))
     THEN UninstallState(c, obj) ELSE obj[c]]

\* Mutant: a component whose removal has begun counts as removed.
RemainingNotDeleting(obj, scope) ==
  \E c \in scope : obj[c] \notin {"absent", "deleting"}

\* Some component of the pass was not "Disabled", i.e. it was still there.
Remaining(obj, scope) == \E c \in scope : Present(obj, c)

DeleteReport(obj, registered) ==
  [c \in Comp |-> IF c \in registered \/ (c # Crossplane /\ Present(obj, c))
                  THEN "False" ELSE "Absent"]

\* Phase one registers the packages of the spec; the orphan detectors add
\* every other managed object except the release.  Phase two adds the release.
PhaseOne == Packages \cup Aux

\* Mutant: orphans are not registered in phase two.
PhaseTwoNoOrphans == {Crossplane}

PhaseTwo == Comp
=============================================================================
