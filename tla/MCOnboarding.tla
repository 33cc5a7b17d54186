---------------------------- MODULE MCOnboarding ----------------------------
(* Instances of Onboarding for TLC: one tab of the owner and one other member. *)
EXTENDS Onboarding, TLC

CONSTANTS tab1, member, placeholder, acme, founder
===============================================================================
