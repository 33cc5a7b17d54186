----------------------------- MODULE MCMembership -----------------------------
(* Instances of Membership for TLC. *)
EXTENDS Membership, TLC

CONSTANTS ann, bob, cyd,     \* three e-mail addresses
          r1, r2, i1, i2

OwnMailbox == [u \in Users |-> u]

\* Every membership table with an owner (a viewer has the rights of a member here).
AnyTable == {t \in [Users -> {"owner", "admin", "member", "none"}] : OwnersIn(t) # {}}

\* The organisation as registration leaves it.
NewOrg == {[u \in Users |-> IF u = ann THEN "owner" ELSE "none"]}

Symmetry == Permutations({r1, r2}) \cup Permutations({i1, i2})
===============================================================================
