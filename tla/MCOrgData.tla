----------------------------- MODULE MCOrgData -----------------------------
(* Instances of OrgData for TLC. *)
EXTENDS OrgData, TLC

CONSTANTS a, b, c, job, acme, aws

Symmetry == Permutations(Sessions)
===============================================================================
