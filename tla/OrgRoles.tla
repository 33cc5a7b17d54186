------------------------------- MODULE OrgRoles -------------------------------
(***************************************************************************)
(* What membership administration promises, with every request atomic: the *)
(* committed role of each user in one organisation, and the three ways it  *)
(* may change.  No request, lock or transaction is visible here.           *)
(***************************************************************************)
CONSTANTS Users,        \* accounts
          Tables        \* the membership tables an organisation may start from

VARIABLE role           \* role[u]: u's role in the organisation, or "none"

Roles == {"owner", "admin", "member", "viewer"}

\* Roles an invitation can carry: never "owner".
InvitableRoles == {"admin", "member", "viewer"}

Administers(table, u) == table[u] \in {"owner", "admin"}

OwnersIn(table) == {u \in Users : table[u] = "owner"}

\* What an administrator a may do to t's membership: give it the role new, or
\* end it when new = "none".  Ownership is granted and taken by owners only, and
\* the last owner keeps it.
MayChange(table, a, t, new) ==
  /\ Administers(table, a)
  /\ table[t] # "none"
  /\ "owner" \in {table[t], new} => table[a] = "owner"
  /\ table[t] = "owner" /\ new # "owner" => OwnersIn(table) # {t}

Init == role \in Tables

Join(u, r) ==
  /\ role[u] = "none"
  /\ role' = [role EXCEPT ![u] = r]

ChangeRole(a, t, new) ==
  /\ MayChange(role, a, t, new)
  /\ role' = [role EXCEPT ![t] = new]

Next ==
  \/ \E u \in Users, r \in InvitableRoles : Join(u, r)
  \/ \E a, t \in Users, new \in Roles \cup {"none"} : ChangeRole(a, t, new)

Spec == Init /\ [][Next]_role
===============================================================================
