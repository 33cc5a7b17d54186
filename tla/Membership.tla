------------------------------ MODULE Membership ------------------------------
(***************************************************************************)
(* One organisation's memberships and invitations under concurrent HTTP    *)
(* requests.  Each request is one READ COMMITTED transaction: a statement  *)
(* sees what other transactions have committed, a request's own writes     *)
(* reach the tables at Commit, and everything it holds is released when it *)
(* commits or rolls back.                                                  *)
(*                                                                         *)
(* orgLock is the organisation row held FOR UPDATE by a membership change; *)
(* orgShare are the transactions holding it FOR KEY SHARE because they     *)
(* inserted a row whose org_id refers to it; the two exclude each other.   *)
(* rowLock[i] is the open transaction that has written invitation i.       *)
(* newUser are the requests with an uncommitted row in users; a pending    *)
(* insert into memberships is pc = "joined".                               *)
(***************************************************************************)
CONSTANTS Users,        \* accounts, each named by its exact e-mail address
          Mailbox,      \* Mailbox[u]: that address in lower case
          Invites,      \* invitation rows, one token each
          Requests,     \* requests that may be in flight together
          Tables,       \* membership tables the organisation may start from
          PatchRoles,   \* the roles PATCH bodies ask for
          OfferRoles,   \* the roles invitation bodies ask for
          NoUser, NoInvite, NoOffer, Free

Roles == {"owner", "admin", "member", "viewer"}

InvitableRoles == {"admin", "member", "viewer"}

OwnersIn(table) == {u \in Users : table[u] = "owner"}

ASSUME SentinelsOK ==
  NoUser \notin Users /\ NoInvite \notin Invites /\ Free \notin Requests

ASSUME InputsOK ==
  /\ PatchRoles \subseteq Roles
  /\ OfferRoles \subseteq InvitableRoles

\* A register request creates the organisation together with its first owner.
ASSUME TablesOK ==
  /\ Tables \subseteq [Users -> Roles \cup {"none"}]
  /\ \A table \in Tables : OwnersIn(table) # {}

VARIABLES users,        \* committed rows of users
          role,         \* role[u]: u's committed membership, "none" without one
          offer,        \* offer[i]: mailbox and role of invitation i, or NoOffer
          acceptor,     \* acceptor[i]: who accepted i (accepted_at), or NoUser
          revoked,      \* invitations with revoked_at set
          expired,      \* invitations whose expires_at has passed
          pc, op,       \* where each request is, and what it asks for
          seen,         \* seen[r]: the actor's role as r read it under the lock
          orgLock, orgShare, rowLock, newUser

tables == <<users, role, offer, acceptor, revoked, expired>>
locks == <<orgLock, orgShare, rowLock, newUser>>
vars == <<tables, pc, op, seen, locks>>

NoOp == [kind |-> "none", actor |-> NoUser, target |-> NoUser,
         role |-> "none", invite |-> NoInvite]

Init ==
  /\ role \in Tables
  /\ users = {u \in Users : role[u] # "none"}
  /\ offer = [i \in Invites |-> NoOffer]
  /\ acceptor = [i \in Invites |-> NoUser]
  /\ revoked = {} /\ expired = {}
  /\ pc = [r \in Requests |-> "idle"]
  /\ op = [r \in Requests |-> NoOp]
  /\ seen = [r \in Requests |-> "none"]
  /\ orgLock = Free /\ orgShare = {} /\ newUser = {}
  /\ rowLock = [i \in Invites |-> Free]

-------------------------------------------------------------------------------
(* Requests and transactions *)

Start(r, request, first) ==
  /\ pc[r] = "idle"
  /\ op' = [op EXCEPT ![r] = request]
  /\ pc' = [pc EXCEPT ![r] = first]
  /\ UNCHANGED <<tables, seen, locks>>

Goto(r, from, to) ==
  /\ pc[r] = from
  /\ pc' = [pc EXCEPT ![r] = to]
  /\ UNCHANGED <<tables, op>>

\* Mutant of End: the organisation row stays locked.
EndKeepsLock(r) ==
  /\ pc' = [pc EXCEPT ![r] = "idle"]
  /\ op' = [op EXCEPT ![r] = NoOp]
  /\ seen' = [seen EXCEPT ![r] = "none"]
  /\ orgShare' = orgShare \ {r}
  /\ rowLock' = [i \in Invites |-> IF rowLock[i] = r THEN Free ELSE rowLock[i]]
  /\ newUser' = newUser \ {r}
  /\ UNCHANGED orgLock

\* The end of r's transaction: PostgreSQL lets go of everything it held.
End(r) ==
  /\ pc' = [pc EXCEPT ![r] = "idle"]
  /\ op' = [op EXCEPT ![r] = NoOp]
  /\ seen' = [seen EXCEPT ![r] = "none"]
  /\ orgLock' = IF orgLock = r THEN Free ELSE orgLock
  /\ orgShare' = orgShare \ {r}
  /\ rowLock' = [i \in Invites |-> IF rowLock[i] = r THEN Free ELSE rowLock[i]]
  /\ newUser' = newUser \ {r}

\* An HTTPException, an IntegrityError, a dropped connection or a dying process:
\* the session dependency rolls the transaction back.
Rollback(r) ==
  /\ pc[r] # "idle"
  /\ End(r)
  /\ UNCHANGED tables

\* requires_role("owner", "admin"): read once, before any lock.
Gate(u) == role[u] \in {"owner", "admin"}

\* Mutant of ShareOrg: inserting a row does not wait for the organisation row.
ShareOrgUnguarded(r) ==
  /\ orgShare' = orgShare \cup {r}
  /\ UNCHANGED <<seen, orgLock, rowLock, newUser>>

\* The KEY SHARE lock that an insert referring to the organisation takes.
ShareOrg(r) ==
  /\ orgLock = Free
  /\ orgShare' = orgShare \cup {r}
  /\ UNCHANGED <<seen, orgLock, rowLock, newUser>>

-------------------------------------------------------------------------------
(* PATCH and DELETE /org/members/{id} *)

BeginPatch(r, a, t, new) ==
  /\ Gate(a)
  /\ Start(r, [NoOp EXCEPT !.kind = "patch", !.actor = a, !.target = t, !.role = new],
           "gated")

BeginRemove(r, a, t) ==
  /\ Gate(a)
  /\ Start(r, [NoOp EXCEPT !.kind = "remove", !.actor = a, !.target = t], "gated")

\* Mutant of LockOrg: a SELECT without FOR UPDATE.
LockOrgPlainSelect(r) ==
  /\ Goto(r, "gated", "locked")
  /\ UNCHANGED <<seen, locks>>

\* SELECT ... FOR UPDATE on the organisation row.
LockOrg(r) ==
  /\ Goto(r, "gated", "locked")
  /\ orgLock = Free /\ orgShare = {}
  /\ orgLock' = r
  /\ UNCHANGED <<seen, orgShare, rowLock, newUser>>

\* Mutant of RecheckActor: the role is read again but no longer required.
RecheckActorLax(r) ==
  /\ Goto(r, "locked", "vetted")
  /\ seen' = [seen EXCEPT ![r] = role[op[r].actor]]
  /\ UNCHANGED locks

\* The actor's membership is read again, now that the lock is held.
RecheckActor(r) ==
  /\ Goto(r, "locked", "vetted")
  /\ Gate(op[r].actor)
  /\ seen' = [seen EXCEPT ![r] = role[op[r].actor]]
  /\ UNCHANGED locks

\* The checks of patch_member_role on the target it has just read.
PatchAllowed(r) ==
  LET target == op[r].target
      new == op[r].role
  IN /\ role[target] # "none"
     /\ seen[r] # "owner" => "owner" \notin {role[target], new}
     /\ role[target] = "owner" /\ new # "owner" => OwnersIn(role) # {target}

\* Mutant of RemoveAllowed: the owners are not counted.
RemoveAllowedUncounted(r) ==
  /\ role[op[r].target] # "none"
  /\ role[op[r].target] = "owner" => seen[r] = "owner"

\* The checks of remove_member.
RemoveAllowed(r) ==
  LET target == op[r].target
  IN /\ role[target] # "none"
     /\ role[target] = "owner" => seen[r] = "owner" /\ OwnersIn(role) # {target}

ChangeAllowed(r) == IF op[r].kind = "patch" THEN PatchAllowed(r) ELSE RemoveAllowed(r)

\* The UPDATE or DELETE is flushed; other transactions do not see it yet.
Approve(r) ==
  /\ Goto(r, "vetted", "approved")
  /\ ChangeAllowed(r)
  /\ UNCHANGED <<seen, locks>>

\* A removed membership is role "none", which is what a remove request's op holds.
CommitChange(r) ==
  /\ pc[r] = "approved"
  /\ role' = [role EXCEPT ![op[r].target] = op[r].role]
  /\ End(r)
  /\ UNCHANGED <<users, offer, acceptor, revoked, expired>>

-------------------------------------------------------------------------------
(* POST /org/invitations and DELETE /org/invitations/{id} *)

\* The new row's id and token are fresh: no other request holds invitation i.
BeginInvite(r, a, t, new, i) ==
  /\ Gate(a)
  /\ offer[i] = NoOffer /\ \A other \in Requests : op[other].invite # i
  /\ Start(r, [kind |-> "invite", actor |-> a, target |-> t, role |-> new, invite |-> i],
           "insertInvite")

InsertInvite(r) ==
  /\ Goto(r, "insertInvite", "ready")
  /\ ShareOrg(r)

CommitInvite(r) ==
  /\ pc[r] = "ready" /\ op[r].kind = "invite"
  /\ offer' = [offer EXCEPT ![op[r].invite] =
                 [box |-> Mailbox[op[r].target], role |-> op[r].role]]
  /\ End(r)
  /\ UNCHANGED <<users, role, acceptor, revoked, expired>>

BeginRevoke(r, a, i) ==
  /\ Gate(a)
  /\ Start(r, [NoOp EXCEPT !.kind = "revoke", !.actor = a, !.invite = i], "readInvite")

\* The row is read without a lock; only a row not yet revoked is written.
ReadInvite(r) ==
  /\ Goto(r, "readInvite", IF op[r].invite \in revoked THEN "audit" ELSE "mark")
  /\ offer[op[r].invite] # NoOffer
  /\ UNCHANGED <<seen, locks>>

\* UPDATE ... WHERE id = ...: waits for the row, then writes whatever it now holds.
MarkRevoked(r) ==
  /\ Goto(r, "mark", "audit")
  /\ rowLock[op[r].invite] = Free
  /\ rowLock' = [rowLock EXCEPT ![op[r].invite] = r]
  /\ UNCHANGED <<seen, orgLock, orgShare, newUser>>

\* record_audit inserts a row that refers to the organisation.
Audit(r) ==
  /\ Goto(r, "audit", "ready")
  /\ ShareOrg(r)

CommitRevoke(r) ==
  /\ pc[r] = "ready" /\ op[r].kind = "revoke"
  /\ revoked' = IF rowLock[op[r].invite] = r THEN revoked \cup {op[r].invite} ELSE revoked
  /\ End(r)
  /\ UNCHANGED <<users, role, offer, acceptor, expired>>

\* Seven days pass.
Expire(i) ==
  /\ offer[i] # NoOffer /\ i \notin expired
  /\ expired' = expired \cup {i}
  /\ UNCHANGED <<users, role, offer, acceptor, revoked, pc, op, seen, locks>>

-------------------------------------------------------------------------------
(* POST /auth/accept-invite, and POST /auth/register by a future invitee *)

\* The expiry is compared with a clock read before the UPDATE is sent.
BeginAccept(r, a, i) ==
  /\ i \notin expired
  /\ Start(r, [NoOp EXCEPT !.kind = "accept", !.actor = a, !.invite = i], "consume")

Consumable(i) == offer[i] # NoOffer /\ acceptor[i] = NoUser /\ i \notin revoked

\* Mutant of Consume: read the row, then update it whatever it has become.
ConsumeUnlocked(r) ==
  /\ Goto(r, "consume", "verify")
  /\ Consumable(op[r].invite)
  /\ UNCHANGED <<seen, locks>>

\* UPDATE ... WHERE accepted_at IS NULL AND revoked_at IS NULL RETURNING: waits for
\* the row and evaluates the condition on what it finds then.
Consume(r) ==
  /\ Goto(r, "consume", "verify")
  /\ rowLock[op[r].invite] = Free
  /\ Consumable(op[r].invite)
  /\ rowLock' = [rowLock EXCEPT ![op[r].invite] = r]
  /\ UNCHANGED <<seen, orgLock, orgShare, newUser>>

\* A request whose address is not the invited one goes no further: Rollback.
VerifyMailbox(r) ==
  /\ Goto(r, "verify", IF op[r].actor \in users THEN "lookup" ELSE "insertUser")
  /\ Mailbox[op[r].actor] = offer[op[r].invite].box
  /\ UNCHANGED <<seen, locks>>

BeginRegister(r, a) ==
  /\ a \notin users
  /\ Start(r, [NoOp EXCEPT !.kind = "register", !.actor = a], "insertUser")

\* The unique index on users.email: an open insert of the same address is waited for,
\* a committed one is an IntegrityError, hence Rollback.
InsertUser(r) ==
  /\ Goto(r, "insertUser", IF op[r].kind = "register" THEN "ready" ELSE "lookup")
  /\ op[r].actor \notin users
  /\ \A other \in newUser : op[other].actor # op[r].actor
  /\ newUser' = newUser \cup {r}
  /\ UNCHANGED <<seen, orgLock, orgShare, rowLock>>

LookupMembership(r) ==
  /\ Goto(r, "lookup", IF role[op[r].actor] = "none" THEN "insertMember" ELSE "audit")
  /\ UNCHANGED <<seen, locks>>

\* The unique index on (user_id, org_id) works as the one on users.email.
InsertMember(r) ==
  /\ Goto(r, "insertMember", "joined")
  /\ role[op[r].actor] = "none"
  /\ \A other \in Requests : pc[other] = "joined" => op[other].actor # op[r].actor
  /\ ShareOrg(r)

\* Mutant of CommitUser: the account is not written.
CommitNoUser(r) == users' = users

\* What an accept or a register leaves behind in users.
CommitUser(r) == users' = IF r \in newUser THEN users \cup {op[r].actor} ELSE users

CommitAccept(r) ==
  LET i == op[r].invite
  IN /\ pc[r] \in {"joined", "ready"} /\ op[r].kind = "accept"
     /\ CommitUser(r)
     /\ acceptor' = [acceptor EXCEPT ![i] = op[r].actor]
     /\ role' = IF pc[r] = "joined" THEN [role EXCEPT ![op[r].actor] = offer[i].role]
                                    ELSE role
     /\ End(r)
     /\ UNCHANGED <<offer, revoked, expired>>

CommitRegister(r) ==
  /\ pc[r] = "ready" /\ op[r].kind = "register"
  /\ CommitUser(r)
  /\ End(r)
  /\ UNCHANGED <<role, offer, acceptor, revoked, expired>>
-------------------------------------------------------------------------------
Begin(r) ==
  \/ \E a, t \in Users : \/ \E new \in PatchRoles : BeginPatch(r, a, t, new)
                         \/ BeginRemove(r, a, t)
                         \/ \E new \in OfferRoles, i \in Invites : BeginInvite(r, a, t, new, i)
  \/ \E a \in Users, i \in Invites : BeginRevoke(r, a, i) \/ BeginAccept(r, a, i)
  \/ \E a \in Users : BeginRegister(r, a)

ChangeStep(r) ==
  LockOrg(r) \/ RecheckActor(r) \/ Approve(r) \/ CommitChange(r)

InviteStep(r) ==
  \/ InsertInvite(r) \/ CommitInvite(r)
  \/ ReadInvite(r) \/ MarkRevoked(r) \/ Audit(r) \/ CommitRevoke(r)

AcceptStep(r) ==
  \/ Consume(r) \/ VerifyMailbox(r) \/ InsertUser(r) \/ LookupMembership(r)
  \/ InsertMember(r) \/ CommitAccept(r) \/ CommitRegister(r)

Step(r) == ChangeStep(r) \/ InviteStep(r) \/ AcceptStep(r)

\* The handler has just read something it answers with an error.
Refused(r) ==
  \/ pc[r] = "locked" /\ ~Gate(op[r].actor)
  \/ pc[r] = "vetted" /\ ~ChangeAllowed(r)
  \/ pc[r] = "readInvite" /\ offer[op[r].invite] = NoOffer
  \/ pc[r] = "consume" /\ rowLock[op[r].invite] = Free /\ ~Consumable(op[r].invite)
  \/ pc[r] = "verify" /\ Mailbox[op[r].actor] # offer[op[r].invite].box
  \/ pc[r] = "insertUser" /\ op[r].actor \in users
  \/ pc[r] = "insertMember" /\ role[op[r].actor] # "none"

Next ==
  \/ \E r \in Requests : Begin(r) \/ Step(r) \/ Rollback(r)
  \/ \E i \in Invites : Expire(i)

Spec == Init /\ [][Next]_vars

\* The server goes on executing every request it has started.
FairSpec == Spec /\ \A r \in Requests : WF_vars(Step(r) \/ (Refused(r) /\ Rollback(r)))
-------------------------------------------------------------------------------
(* Properties *)

Kinds == {"none", "patch", "remove", "invite", "revoke", "accept", "register"}

Ops == [kind : Kinds, actor : Users \cup {NoUser}, target : Users \cup {NoUser},
        role : Roles \cup {"none"}, invite : Invites \cup {NoInvite}]

Steps == {"idle", "gated", "locked", "vetted", "approved", "insertInvite", "readInvite",
          "mark", "audit", "ready", "consume", "verify", "insertUser", "lookup",
          "insertMember", "joined"}

Offers == [box : {Mailbox[u] : u \in Users}, role : InvitableRoles]

\* Every table, lock and request holds what its columns allow.
TypeOK ==
  /\ users \subseteq Users
  /\ role \in [Users -> Roles \cup {"none"}]
  /\ offer \in [Invites -> Offers \cup {NoOffer}]
  /\ acceptor \in [Invites -> Users \cup {NoUser}]
  /\ revoked \subseteq Invites /\ expired \subseteq Invites
  /\ pc \in [Requests -> Steps]
  /\ op \in [Requests -> Ops]
  /\ seen \in [Requests -> Roles \cup {"none"}]
  /\ orgLock \in Requests \cup {Free} /\ orgShare \subseteq Requests
  /\ rowLock \in [Invites -> Requests \cup {Free}]
  /\ newUser \subseteq Requests

\* However demotions, removals and acceptances interleave, the organisation never
\* loses its last owner (org.py: "cannot demote the last owner").
OwnerRemains == OwnersIn(role) # {}

Abs == INSTANCE OrgRoles

\* Membership administration is serializable: each commit is an atomic operation
\* allowed by the memberships of that instant, although authority, target and owner
\* count were read by earlier statements.
AtomicAdministration == Abs!Spec

\* A membership is changed or ended only on behalf of someone entitled to do it at the
\* moment of the commit: authority checked when the request arrived is not enough if it
\* was withdrawn while the request waited for the organisation's lock.
ActsWithAuthority ==
  [][\A u \in Users : role[u] # "none" /\ role'[u] # role[u] =>
        \E r \in Requests : /\ pc[r] = "approved" /\ op[r].target = u /\ op[r].role = role'[u]
                            /\ Abs!MayChange(role, op[r].actor, u, role'[u])]_vars

\* An invitation is accepted at most once, by its addressee, and never after its
\* revocation has been committed; the acceptance is never undone or reassigned.
InvitationUsedOnce ==
  [][\A i \in Invites : acceptor'[i] # acceptor[i] =>
        /\ acceptor[i] = NoUser /\ i \notin revoked
        /\ Mailbox[acceptor'[i]] = offer[i].box]_vars

\* Nobody becomes a member except by accepting an invitation in the same commit, with
\* the role it offered and an account that exists by then.
JoinsByInvitation ==
  [][\A u \in Users : role[u] = "none" /\ role'[u] # "none" =>
        /\ u \in users'
        /\ \E i \in Invites : /\ acceptor[i] = NoUser /\ acceptor'[i] = u
                              /\ role'[u] = offer[i].role]_vars

\* The strengthening of TypeOK and OwnerRemains that every step preserves.
\* A request keeps the shape its endpoint gave it.
WellFormed(r) ==
  LET o == op[r]
  IN /\ pc[r] # "idle" => o.actor \in Users
     /\ pc[r] \in {"gated", "locked", "vetted", "approved"} =>
          o.kind \in {"patch", "remove"} /\ o.target \in Users
     /\ o.kind = "patch" => o.role \in Roles
     /\ o.kind = "remove" => o.role = "none"
     /\ o.kind = "invite" => o.role \in InvitableRoles /\ o.target \in Users
     /\ o.kind = "accept" /\ pc[r] # "consume" => offer[o.invite] \in Offers
     /\ o.kind \in {"invite", "revoke", "accept"} => o.invite \in Invites
     /\ pc[r] \in {"consume", "verify", "lookup", "insertMember", "joined"} => o.kind = "accept"
     /\ pc[r] = "insertUser" => o.kind \in {"accept", "register"}

\* The FOR UPDATE lock belongs to the one request between LockOrg and its end, and
\* meanwhile nobody has an uncommitted membership.
Locking ==
  /\ \A r \in Requests : pc[r] \in {"locked", "vetted", "approved"} <=> orgLock = r
  /\ orgLock # Free => orgShare = {}
  /\ \A r \in Requests : pc[r] = "joined" => r \in orgShare

\* What a request has read and relies on is still so.
StillTrue(r) ==
  /\ pc[r] \in {"vetted", "approved"} => seen[r] = role[op[r].actor] /\ Gate(op[r].actor)
  /\ pc[r] = "approved" => Abs!MayChange(role, op[r].actor, op[r].target, op[r].role)
  /\ pc[r] = "joined" => role[op[r].actor] = "none"
  /\ \A s \in Requests \ {r} :
       pc[r] = "joined" /\ pc[s] = "joined" => op[r].actor # op[s].actor

\* Every request's reads are still valid when it writes, because the row locks
\* exclude whoever could have changed them.
IInv ==
  /\ TypeOK /\ OwnerRemains /\ Locking
  /\ \A r \in Requests : WellFormed(r) /\ StillTrue(r)

\* Once clients stop sending, every request in flight is answered: no set of requests
\* waits for one another's locks.
RequestsFinish ==
  (<>[][\A r \in Requests : ~Begin(r)]_vars) =>
     \A r \in Requests : [](pc[r] # "idle" => <>(pc[r] = "idle"))
===============================================================================
