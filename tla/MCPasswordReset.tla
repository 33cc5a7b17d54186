--------------------------- MODULE MCPasswordReset ---------------------------
(* Instances of PasswordReset for TLC. *)
EXTENDS PasswordReset, TLC

CONSTANTS t1, t2, t3, r1, r2, r3
===============================================================================
