-------------------------- MODULE MCProvisioning --------------------------
(* Instances of Provisioning for TLC. *)
EXTENDS Provisioning, TLC

CONSTANTS c1, c2, admin, member, ann

\* All callers are alike.
Alike == Permutations(Callers)

TwoRoles == <<admin, member>>
=============================================================================
