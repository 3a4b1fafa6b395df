---------------------------- MODULE MCCrossplane ----------------------------
(***************************************************************************)
(* Small instances of CrossplaneSystem for TLC.                            *)
(***************************************************************************)
EXTENDS CrossplaneSystem

\* Without packages, and with all of them on another Crossplane version.
None == [p \in {} |-> "v1"]
All(v) == [p \in Packages |-> v]
MCSpecs == {[version |-> "v1", pkgs |-> None], [version |-> "v2", pkgs |-> All("v2")]}

\* The same, on one version.
MCOneVersion == {[version |-> "v1", pkgs |-> None], [version |-> "v1", pkgs |-> All("v1")]}

\* One Crossplane, its packages in two versions.
MCUpgrades == {[version |-> "v1", pkgs |-> All(v)] : v \in Versions}

\* Everything is offered.
Full == [versions |-> Versions, kinds |-> {"providers", "functions"},
         pkgs |-> Packages \X Versions, aux |-> Aux]

\* The package lists have been emptied and the secrets withdrawn.
Emptied == [versions |-> Versions, kinds |-> {}, pkgs |-> {}, aux |-> {}]

\* The versions asked for together with packages and the secrets are no longer
\* offered.
Withdrawn == [Full EXCEPT !.versions = Versions \ {"v2"}, !.pkgs = {}, !.aux = {}]

MCFull    == {Full}
MCConfigs == {Full, Emptied}
MCOffered == {Full, Withdrawn}
MCAll     == {Full, Emptied, Withdrawn}
=============================================================================
