--------------------------- MODULE MCChangeControl ---------------------------
(* Instances of ChangeControl for TLC.  Change sets and principals are      *)
(* model values; the kinds are the strings the code uses.                   *)
EXTENDS ChangeControlRefinement, TLC

ObjectKinds == {"object_write"}
TenantKinds == {"firewall_write", "policy_deploy", "license_write"}
DeployOnly  == {"policy_deploy"}
LicenseOnly == {"license_write"}

(* Change sets are interchangeable: no definition tells two of them apart. *)
Interchangeable == Permutations(ChangeSet)
=============================================================================
