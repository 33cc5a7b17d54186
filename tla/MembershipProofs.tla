---------------------------- MODULE MembershipProofs ---------------------------
(***************************************************************************)
(* Proofs about Membership, for any users, invitations, requests and       *)
(* initial membership tables.  IInv is inductive (Invariance); from it the *)
(* refinement of OrgRoles (Serializable).  With Claims, on top of it, an   *)
(* invitation is used once, and nobody joins without one.                  *)
(***************************************************************************)
EXTENDS Membership, TLAPS

\* The steps at which a request relies on nothing it has read of the memberships.
Quiet == Steps \ {"locked", "vetted", "approved", "joined"}

LEMMA InitHolds == Init => IInv
<1> SUFFICES ASSUME Init PROVE IInv
  OBVIOUS
<1> USE DEF Init
<1>1. role \in [Users -> Roles \cup {"none"}] /\ OwnersIn(role) # {}
  BY TablesOK
<1>2. TypeOK
  BY <1>1 DEF TypeOK, Steps, Ops, Kinds, NoOp
<1>3. Locking
  BY SentinelsOK DEF Locking
<1>4. ASSUME NEW r \in Requests PROVE WellFormed(r) /\ StillTrue(r)
  BY DEF WellFormed, StillTrue, NoOp
<1> QED
  BY <1>1, <1>2, <1>3, <1>4 DEF IInv, OwnerRemains

\* Starting a request keeps IInv: it holds nothing and has read nothing it relies on.
LEMMA StartKeeps ==
  ASSUME IInv, NEW r \in Requests, NEW request \in Ops, NEW first \in Quiet,
         Start(r, request, first), request.actor \in Users,
         first \in {"gated", "insertInvite", "readInvite", "consume", "insertUser"},
         first = "gated" => request.kind \in {"patch", "remove"} /\ request.target \in Users,
         request.kind = "patch" => request.role \in Roles,
         request.kind = "remove" => request.role = "none",
         request.kind = "invite" => request.role \in InvitableRoles /\ request.target \in Users,
         request.kind \in {"invite", "revoke", "accept"} => request.invite \in Invites,
         first = "consume" <=> request.kind = "accept",
         first = "insertUser" => request.kind = "register"
  PROVE  IInv'
<1> USE DEF Start, tables, locks
<1>1. TypeOK'
  BY DEF IInv, TypeOK, Quiet
<1>2. OwnerRemains'
  BY DEF IInv, OwnerRemains, OwnersIn
<1>3. Locking'
  BY DEF IInv, Locking, TypeOK
<1>4. ASSUME NEW s \in Requests PROVE WellFormed(s)'
  <2>1. CASE s = r
    BY <2>1 DEF IInv, TypeOK, WellFormed
  <2>2. CASE s # r
    BY <2>2 DEF IInv, TypeOK, WellFormed
  <2> QED BY <2>1, <2>2
<1>5. ASSUME NEW s \in Requests PROVE StillTrue(s)'
  <2>1. pc[s]' = "joined" => pc[s] = "joined" /\ op[s]' = op[s]
    BY DEF IInv, TypeOK
  <2> QED
    BY <2>1 DEF IInv, TypeOK, StillTrue, Gate, Abs!MayChange, Abs!Administers, Abs!OwnersIn
<1> QED
  BY <1>1, <1>2, <1>3, <1>4, <1>5 DEF IInv

\* Ending a request that leaves the memberships alone keeps IInv, whatever it commits
\* to the other tables, as long as an invitation that carries an offer keeps one.
LEMMA EndKeeps ==
  ASSUME IInv, NEW r \in Requests, End(r), role' = role,
         users' \subseteq Users, revoked' \subseteq Invites, expired' = expired,
         acceptor' \in [Invites -> Users \cup {NoUser}],
         offer' \in [Invites -> Offers \cup {NoOffer}],
         \A i \in Invites : offer[i] \in Offers => offer'[i] \in Offers
  PROVE  IInv'
<1> USE DEF End
<1>1. TypeOK'
  BY DEF IInv, TypeOK, Steps, Ops, Kinds, NoOp
<1>2. OwnerRemains'
  BY DEF IInv, OwnerRemains, OwnersIn
<1>3. Locking'
  BY SentinelsOK DEF IInv, Locking, TypeOK
<1>4. ASSUME NEW s \in Requests PROVE WellFormed(s)'
  <2>1. CASE s = r
    BY <2>1 DEF IInv, TypeOK, WellFormed, NoOp
  <2>2. CASE s # r
    BY <2>2 DEF IInv, TypeOK, WellFormed
  <2> QED BY <2>1, <2>2
<1>5. ASSUME NEW s \in Requests PROVE StillTrue(s)'
  <2>1. pc'[s] # "idle" => pc'[s] = pc[s] /\ op'[s] = op[s] /\ seen'[s] = seen[s]
    BY DEF IInv, TypeOK
  <2>2. \A q \in Requests : pc'[q] = "joined" => pc[q] = "joined" /\ op'[q] = op[q]
    BY DEF IInv, TypeOK
  <2> QED
    BY <2>1, <2>2 DEF IInv, StillTrue, Gate, Abs!MayChange, Abs!Administers, Abs!OwnersIn
<1> QED
  BY <1>1, <1>2, <1>3, <1>4, <1>5 DEF IInv

\* Going from one quiet step to another keeps IInv.
LEMMA QuietKeeps ==
  ASSUME IInv, NEW r \in Requests, NEW from \in Quiet, NEW to \in Quiet,
         Goto(r, from, to), from # "idle", to \notin {"idle", "gated"}, seen' = seen,
         orgLock' = orgLock,
         orgShare' = orgShare \/ (orgLock = Free /\ orgShare' = orgShare \cup {r}),
         rowLock' \in [Invites -> Requests \cup {Free}], newUser' \subseteq Requests,
         to \in {"consume", "verify", "lookup", "insertMember"} => op[r].kind = "accept",
         to = "insertUser" => op[r].kind \in {"accept", "register"},
         op[r].kind = "accept" /\ from = "consume" => offer[op[r].invite] \in Offers
  PROVE  IInv'
<1> USE DEF Goto, tables
<1>1. TypeOK'
  BY DEF IInv, TypeOK, Quiet
<1>2. OwnerRemains'
  BY DEF IInv, OwnerRemains, OwnersIn
<1>3. Locking'
  BY DEF IInv, Locking, TypeOK, Quiet
<1>4. ASSUME NEW s \in Requests PROVE WellFormed(s)'
  <2>1. CASE s = r
    BY <2>1 DEF IInv, TypeOK, WellFormed, Quiet
  <2>2. CASE s # r
    BY <2>2 DEF IInv, TypeOK, WellFormed
  <2> QED BY <2>1, <2>2
<1>5. ASSUME NEW s \in Requests PROVE StillTrue(s)'
  <2>1. \A q \in Requests : pc'[q] \in {"vetted", "approved", "joined"} => pc'[q] = pc[q]
    BY DEF IInv, TypeOK, Quiet
  <2> QED
    BY <2>1 DEF IInv, TypeOK, StillTrue, Gate, Abs!MayChange, Abs!Administers, Abs!OwnersIn
<1> QED
  BY <1>1, <1>2, <1>3, <1>4, <1>5 DEF IInv

-------------------------------------------------------------------------------
(* Membership changes *)

\* Taking the organisation lock keeps IInv: nobody else is between lock and commit.
LEMMA LockKeeps == ASSUME IInv, NEW r \in Requests, LockOrg(r) PROVE IInv'
<1> USE DEF LockOrg, Goto, tables
<1>1. TypeOK' /\ OwnerRemains'
  BY DEF IInv, TypeOK, OwnerRemains, OwnersIn, Steps
<1>2. Locking'
  BY SentinelsOK DEF IInv, Locking, TypeOK
<1>3. ASSUME NEW s \in Requests PROVE WellFormed(s)'
  BY DEF IInv, TypeOK, WellFormed
<1>4. ASSUME NEW s \in Requests PROVE StillTrue(s)'
  <2>1. \A q \in Requests : pc'[q] \in {"vetted", "approved", "joined"} => pc'[q] = pc[q]
    BY DEF IInv, TypeOK
  <2> QED
    BY <2>1 DEF IInv, TypeOK, StillTrue, Gate, Abs!MayChange, Abs!Administers, Abs!OwnersIn
<1> QED
  BY <1>1, <1>2, <1>3, <1>4 DEF IInv

\* Reading the actor under the lock keeps IInv.
LEMMA RecheckKeeps == ASSUME IInv, NEW r \in Requests, RecheckActor(r) PROVE IInv'
<1> USE DEF RecheckActor, Goto, tables, locks
<1>1. TypeOK' /\ OwnerRemains'
  BY DEF IInv, TypeOK, OwnerRemains, OwnersIn, Steps, WellFormed
<1>2. Locking'
  BY DEF IInv, Locking, TypeOK
<1>3. ASSUME NEW s \in Requests PROVE WellFormed(s)'
  BY DEF IInv, TypeOK, WellFormed
<1>4. ASSUME NEW s \in Requests PROVE StillTrue(s)'
  <2>1. \A q \in Requests : pc'[q] \in {"approved", "joined"} => pc'[q] = pc[q]
    BY DEF IInv, TypeOK
  <2> QED
    BY <2>1 DEF IInv, TypeOK, StillTrue, Gate, Abs!MayChange, Abs!Administers, Abs!OwnersIn
<1> QED
  BY <1>1, <1>2, <1>3, <1>4 DEF IInv

\* The handler's checks, made with the role read under the lock, establish what the
\* atomic operation requires.
LEMMA ChecksSuffice ==
  ASSUME IInv, NEW r \in Requests, pc[r] = "vetted", ChangeAllowed(r)
  PROVE  Abs!MayChange(role, op[r].actor, op[r].target, op[r].role)
<1>1. op[r].kind \in {"patch", "remove"} /\ (op[r].kind = "remove" => op[r].role = "none")
  BY DEF IInv, WellFormed
<1>2. seen[r] = role[op[r].actor] /\ Gate(op[r].actor)
  BY DEF IInv, StillTrue
<1> QED
  BY <1>1, <1>2 DEF ChangeAllowed, PatchAllowed, RemoveAllowed, Gate, OwnersIn,
                   Abs!MayChange, Abs!Administers, Abs!OwnersIn

\* Passing the checks keeps IInv.
LEMMA ApproveKeeps == ASSUME IInv, NEW r \in Requests, Approve(r) PROVE IInv'
<1> USE DEF Approve, Goto, tables, locks
<1>1. TypeOK' /\ OwnerRemains'
  BY DEF IInv, TypeOK, OwnerRemains, OwnersIn, Steps
<1>2. Locking'
  BY DEF IInv, Locking, TypeOK
<1>3. ASSUME NEW s \in Requests PROVE WellFormed(s)'
  BY DEF IInv, TypeOK, WellFormed
<1>4. ASSUME NEW s \in Requests PROVE StillTrue(s)'
  <2>1. \A q \in Requests : pc'[q] = "joined" => pc[q] = "joined"
    BY DEF IInv, TypeOK
  <2>2. CASE s = r
    BY <2>1, <2>2, ChecksSuffice
       DEF IInv, TypeOK, StillTrue, Gate, Abs!MayChange, Abs!Administers, Abs!OwnersIn
  <2>3. CASE s # r
    BY <2>1, <2>3
       DEF IInv, TypeOK, StillTrue, Gate, Abs!MayChange, Abs!Administers, Abs!OwnersIn
  <2> QED BY <2>2, <2>3
<1> QED
  BY <1>1, <1>2, <1>3, <1>4 DEF IInv

\* An allowed change leaves an owner.
LEMMA ChangeLeavesOwner ==
  ASSUME NEW table, NEW a \in Users, NEW t \in Users, NEW new,
         table \in [Users -> Roles \cup {"none"}], OwnersIn(table) # {},
         Abs!MayChange(table, a, t, new)
  PROVE  \E u \in Users : [table EXCEPT ![t] = new][u] = "owner"
BY DEF OwnersIn, Abs!MayChange, Abs!OwnersIn

\* Committing a change keeps IInv: every other request that relies on a membership
\* would hold the lock, or would keep the lock from being held.
LEMMA CommitChangeKeeps == ASSUME IInv, NEW r \in Requests, CommitChange(r) PROVE IInv'
<1> USE DEF CommitChange, End
<1>1. op[r].actor \in Users /\ op[r].target \in Users /\ op[r].role \in Roles \cup {"none"}
  BY DEF IInv, TypeOK, WellFormed, Ops
<1>2. TypeOK'
  BY <1>1 DEF IInv, TypeOK, Steps, Ops, Kinds, NoOp
<1>3. OwnerRemains'
  <2>1. role \in [Users -> Roles \cup {"none"}] /\ OwnersIn(role) # {}
    BY DEF IInv, TypeOK, OwnerRemains
  <2>2. Abs!MayChange(role, op[r].actor, op[r].target, op[r].role)
    BY DEF IInv, StillTrue
  <2>3. \E u \in Users : role'[u] = "owner"
    BY <1>1, <2>1, <2>2, ChangeLeavesOwner
  <2> QED
    BY <2>3 DEF OwnerRemains, OwnersIn
<1>4. Locking'
  BY SentinelsOK DEF IInv, Locking, TypeOK
<1>5. ASSUME NEW s \in Requests PROVE WellFormed(s)'
  BY DEF IInv, TypeOK, WellFormed, NoOp
<1>6. ASSUME NEW s \in Requests PROVE StillTrue(s)'
  <2>1. \A q \in Requests : pc'[q] \notin {"vetted", "approved", "joined"}
    BY SentinelsOK DEF IInv, TypeOK, Locking
  <2> QED
    BY <2>1 DEF StillTrue
<1> QED
  BY <1>2, <1>3, <1>4, <1>5, <1>6 DEF IInv

-------------------------------------------------------------------------------
(* Acceptances *)

\* Inserting a membership keeps IInv.
LEMMA InsertMemberKeeps == ASSUME IInv, NEW r \in Requests, InsertMember(r) PROVE IInv'
<1> USE DEF InsertMember, ShareOrg, Goto, tables
<1>1. TypeOK' /\ OwnerRemains'
  BY DEF IInv, TypeOK, OwnerRemains, OwnersIn, Steps
<1>2. Locking'
  BY SentinelsOK DEF IInv, Locking, TypeOK
<1>3. ASSUME NEW s \in Requests PROVE WellFormed(s)'
  BY DEF IInv, TypeOK, WellFormed
<1>4. ASSUME NEW s \in Requests PROVE StillTrue(s)'
  <2>1. \A q \in Requests : pc'[q] \in {"vetted", "approved"} => pc'[q] = pc[q]
    BY DEF IInv, TypeOK
  <2> QED
    BY <2>1 DEF IInv, TypeOK, StillTrue, Gate, Abs!MayChange, Abs!Administers, Abs!OwnersIn
<1> QED
  BY <1>1, <1>2, <1>3, <1>4 DEF IInv

\* Committing an acceptance that inserted a membership: nobody holds the organisation
\* lock, so nobody relies on the memberships but other pending inserts, which are for
\* other users.
LEMMA CommitJoinKeeps ==
  ASSUME IInv, NEW r \in Requests, CommitAccept(r), pc[r] = "joined"
  PROVE  IInv' /\ role[op[r].actor] = "none" /\ op[r].actor \in Users
         /\ \E new \in InvitableRoles : role' = [role EXCEPT ![op[r].actor] = new]
<1> USE DEF CommitAccept, CommitUser, End
<1>1. op[r].actor \in Users /\ op[r].invite \in Invites
      /\ offer[op[r].invite].role \in InvitableRoles
  BY DEF IInv, TypeOK, WellFormed, Offers
<1>2. role[op[r].actor] = "none"
  BY DEF IInv, StillTrue
<1>3. TypeOK'
  BY <1>1 DEF IInv, TypeOK, Steps, Ops, Kinds, NoOp, InvitableRoles, Roles
<1>4. OwnerRemains'
  BY <1>1, <1>2 DEF IInv, TypeOK, OwnerRemains, OwnersIn
<1>5. Locking'
  BY SentinelsOK DEF IInv, Locking, TypeOK
<1>6. ASSUME NEW s \in Requests PROVE WellFormed(s)'
  BY DEF IInv, TypeOK, WellFormed, NoOp
<1>7. ASSUME NEW s \in Requests PROVE StillTrue(s)'
  <2>1. \A q \in Requests : pc'[q] \notin {"vetted", "approved"}
    BY SentinelsOK DEF IInv, TypeOK, Locking
  <2>2. \A q \in Requests : pc'[q] = "joined" =>
          q # r /\ pc[q] = "joined" /\ op'[q] = op[q]
    BY DEF IInv, TypeOK
  <2> QED
    BY <1>1, <2>1, <2>2 DEF IInv, TypeOK, StillTrue
<1> QED
  BY <1>1, <1>2, <1>3, <1>4, <1>5, <1>6, <1>7 DEF IInv

-------------------------------------------------------------------------------
(* The theorems *)

\* Every request's first step keeps IInv.
LEMMA BeginKeeps == ASSUME IInv, NEW r \in Requests, Begin(r) PROVE IInv'
<1>1. ASSUME NEW a \in Users, NEW t \in Users, NEW new \in PatchRoles, BeginPatch(r, a, t, new)
      PROVE  IInv'
  BY <1>1, StartKeeps, InputsOK DEF BeginPatch, Ops, Kinds, NoOp, Quiet, Steps
<1>2. ASSUME NEW a \in Users, NEW t \in Users, BeginRemove(r, a, t) PROVE IInv'
  BY <1>2, StartKeeps DEF BeginRemove, Ops, Kinds, NoOp, Quiet, Steps
<1>3. ASSUME NEW a \in Users, NEW t \in Users, NEW new \in OfferRoles, NEW i \in Invites,
             BeginInvite(r, a, t, new, i)
      PROVE  IInv'
  BY <1>3, StartKeeps, InputsOK DEF BeginInvite, Ops, Kinds, Quiet, Steps, Roles, InvitableRoles
<1>4. ASSUME NEW a \in Users, NEW i \in Invites, BeginRevoke(r, a, i) PROVE IInv'
  BY <1>4, StartKeeps DEF BeginRevoke, Ops, Kinds, NoOp, Quiet, Steps
<1>5. ASSUME NEW a \in Users, NEW i \in Invites, BeginAccept(r, a, i) PROVE IInv'
  BY <1>5, StartKeeps DEF BeginAccept, Ops, Kinds, NoOp, Quiet, Steps
<1>6. ASSUME NEW a \in Users, BeginRegister(r, a) PROVE IInv'
  BY <1>6, StartKeeps DEF BeginRegister, Ops, Kinds, NoOp, Quiet, Steps
<1> QED
  BY <1>1, <1>2, <1>3, <1>4, <1>5, <1>6 DEF Begin

\* The statements of invite, revoke, accept and register requests keep IInv.
LEMMA StatementKeeps ==
  ASSUME IInv, NEW r \in Requests,
         \/ InsertInvite(r) \/ ReadInvite(r) \/ MarkRevoked(r) \/ Audit(r) \/ Consume(r)
         \/ VerifyMailbox(r) \/ InsertUser(r) \/ LookupMembership(r)
  PROVE  IInv' /\ UNCHANGED role
<1>0. TypeOK /\ WellFormed(r)
  BY DEF IInv
<1>1. CASE InsertInvite(r)
  <2> DEFINE to == "ready"
  <2>1. Goto(r, "insertInvite", to) /\ UNCHANGED <<seen, orgLock>>
        /\ (orgShare' = orgShare \/ (orgLock = Free /\ orgShare' = orgShare \cup {r}))
    BY <1>1 DEF InsertInvite, ShareOrg, locks
  <2>2. /\ "insertInvite" \in Quiet \ {"idle"} /\ to \in Quiet \ {"idle", "gated"}
        /\ rowLock' \in [Invites -> Requests \cup {Free}] /\ newUser' \subseteq Requests
    BY <1>0, <1>1 DEF InsertInvite, ShareOrg, TypeOK, locks, Quiet, Steps
  <2>3. /\ to \in {"consume", "verify", "lookup", "insertMember"} => op[r].kind = "accept"
        /\ to = "insertUser" => op[r].kind \in {"accept", "register"}
        /\ op[r].kind = "accept" /\ "insertInvite" = "consume" => offer[op[r].invite] \in Offers
    BY <1>0, <1>1 DEF InsertInvite, ShareOrg, Goto, WellFormed
  <2>4. UNCHANGED role
    BY <2>1 DEF Goto, tables
  <2> QED
    BY <2>1, <2>2, <2>3, <2>4, QuietKeeps
<1>2. CASE ReadInvite(r)
  <2> DEFINE to == IF op[r].invite \in revoked THEN "audit" ELSE "mark"
  <2>1. Goto(r, "readInvite", to) /\ UNCHANGED <<seen, orgLock>>
        /\ (orgShare' = orgShare \/ (orgLock = Free /\ orgShare' = orgShare \cup {r}))
    BY <1>2 DEF ReadInvite, locks
  <2>2. /\ "readInvite" \in Quiet \ {"idle"} /\ to \in Quiet \ {"idle", "gated"}
        /\ rowLock' \in [Invites -> Requests \cup {Free}] /\ newUser' \subseteq Requests
    BY <1>0, <1>2 DEF ReadInvite, TypeOK, locks, Quiet, Steps
  <2>3. /\ to \in {"consume", "verify", "lookup", "insertMember"} => op[r].kind = "accept"
        /\ to = "insertUser" => op[r].kind \in {"accept", "register"}
        /\ op[r].kind = "accept" /\ "readInvite" = "consume" => offer[op[r].invite] \in Offers
    BY <1>0, <1>2 DEF ReadInvite, Goto, WellFormed
  <2>4. UNCHANGED role
    BY <2>1 DEF Goto, tables
  <2> QED
    BY <2>1, <2>2, <2>3, <2>4, QuietKeeps
<1>3. CASE MarkRevoked(r)
  <2> DEFINE to == "audit"
  <2>1. Goto(r, "mark", to) /\ UNCHANGED <<seen, orgLock>>
        /\ (orgShare' = orgShare \/ (orgLock = Free /\ orgShare' = orgShare \cup {r}))
    BY <1>3 DEF MarkRevoked, locks
  <2>2. /\ "mark" \in Quiet \ {"idle"} /\ to \in Quiet \ {"idle", "gated"}
        /\ rowLock' \in [Invites -> Requests \cup {Free}] /\ newUser' \subseteq Requests
    BY <1>0, <1>3 DEF MarkRevoked, TypeOK, locks, Quiet, Steps
  <2>3. /\ to \in {"consume", "verify", "lookup", "insertMember"} => op[r].kind = "accept"
        /\ to = "insertUser" => op[r].kind \in {"accept", "register"}
        /\ op[r].kind = "accept" /\ "mark" = "consume" => offer[op[r].invite] \in Offers
    BY <1>0, <1>3 DEF MarkRevoked, Goto, WellFormed
  <2>4. UNCHANGED role
    BY <2>1 DEF Goto, tables
  <2> QED
    BY <2>1, <2>2, <2>3, <2>4, QuietKeeps
<1>4. CASE Audit(r)
  <2> DEFINE to == "ready"
  <2>1. Goto(r, "audit", to) /\ UNCHANGED <<seen, orgLock>>
        /\ (orgShare' = orgShare \/ (orgLock = Free /\ orgShare' = orgShare \cup {r}))
    BY <1>4 DEF Audit, ShareOrg, locks
  <2>2. /\ "audit" \in Quiet \ {"idle"} /\ to \in Quiet \ {"idle", "gated"}
        /\ rowLock' \in [Invites -> Requests \cup {Free}] /\ newUser' \subseteq Requests
    BY <1>0, <1>4 DEF Audit, ShareOrg, TypeOK, locks, Quiet, Steps
  <2>3. /\ to \in {"consume", "verify", "lookup", "insertMember"} => op[r].kind = "accept"
        /\ to = "insertUser" => op[r].kind \in {"accept", "register"}
        /\ op[r].kind = "accept" /\ "audit" = "consume" => offer[op[r].invite] \in Offers
    BY <1>0, <1>4 DEF Audit, ShareOrg, Goto, WellFormed
  <2>4. UNCHANGED role
    BY <2>1 DEF Goto, tables
  <2> QED
    BY <2>1, <2>2, <2>3, <2>4, QuietKeeps
<1>5. CASE Consume(r)
  <2> DEFINE to == "verify"
  <2>1. Goto(r, "consume", to) /\ UNCHANGED <<seen, orgLock>>
        /\ (orgShare' = orgShare \/ (orgLock = Free /\ orgShare' = orgShare \cup {r}))
    BY <1>5 DEF Consume, locks
  <2>2. /\ "consume" \in Quiet \ {"idle"} /\ to \in Quiet \ {"idle", "gated"}
        /\ rowLock' \in [Invites -> Requests \cup {Free}] /\ newUser' \subseteq Requests
    BY <1>0, <1>5 DEF Consume, TypeOK, locks, Quiet, Steps
  <2>3. /\ to \in {"consume", "verify", "lookup", "insertMember"} => op[r].kind = "accept"
        /\ to = "insertUser" => op[r].kind \in {"accept", "register"}
        /\ op[r].kind = "accept" /\ "consume" = "consume" => offer[op[r].invite] \in Offers
    BY <1>0, <1>5 DEF Consume, Consumable, TypeOK, Goto, WellFormed
  <2>4. UNCHANGED role
    BY <2>1 DEF Goto, tables
  <2> QED
    BY <2>1, <2>2, <2>3, <2>4, QuietKeeps
<1>6. CASE VerifyMailbox(r)
  <2> DEFINE to == IF op[r].actor \in users THEN "lookup" ELSE "insertUser"
  <2>1. Goto(r, "verify", to) /\ UNCHANGED <<seen, orgLock>>
        /\ (orgShare' = orgShare \/ (orgLock = Free /\ orgShare' = orgShare \cup {r}))
    BY <1>6 DEF VerifyMailbox, locks
  <2>2. /\ "verify" \in Quiet \ {"idle"} /\ to \in Quiet \ {"idle", "gated"}
        /\ rowLock' \in [Invites -> Requests \cup {Free}] /\ newUser' \subseteq Requests
    BY <1>0, <1>6 DEF VerifyMailbox, TypeOK, locks, Quiet, Steps
  <2>3. /\ to \in {"consume", "verify", "lookup", "insertMember"} => op[r].kind = "accept"
        /\ to = "insertUser" => op[r].kind \in {"accept", "register"}
        /\ op[r].kind = "accept" /\ "verify" = "consume" => offer[op[r].invite] \in Offers
    BY <1>0, <1>6 DEF VerifyMailbox, Goto, WellFormed
  <2>4. UNCHANGED role
    BY <2>1 DEF Goto, tables
  <2> QED
    BY <2>1, <2>2, <2>3, <2>4, QuietKeeps
<1>7. CASE InsertUser(r)
  <2> DEFINE to == IF op[r].kind = "register" THEN "ready" ELSE "lookup"
  <2>1. Goto(r, "insertUser", to) /\ UNCHANGED <<seen, orgLock>>
        /\ (orgShare' = orgShare \/ (orgLock = Free /\ orgShare' = orgShare \cup {r}))
    BY <1>7 DEF InsertUser, locks
  <2>2. /\ "insertUser" \in Quiet \ {"idle"} /\ to \in Quiet \ {"idle", "gated"}
        /\ rowLock' \in [Invites -> Requests \cup {Free}] /\ newUser' \subseteq Requests
    BY <1>0, <1>7 DEF InsertUser, TypeOK, locks, Quiet, Steps
  <2>3. /\ to \in {"consume", "verify", "lookup", "insertMember"} => op[r].kind = "accept"
        /\ to = "insertUser" => op[r].kind \in {"accept", "register"}
        /\ op[r].kind = "accept" /\ "insertUser" = "consume" => offer[op[r].invite] \in Offers
    BY <1>0, <1>7 DEF InsertUser, Goto, WellFormed
  <2>4. UNCHANGED role
    BY <2>1 DEF Goto, tables
  <2> QED
    BY <2>1, <2>2, <2>3, <2>4, QuietKeeps
<1>8. CASE LookupMembership(r)
  <2> DEFINE to == IF role[op[r].actor] = "none" THEN "insertMember" ELSE "audit"
  <2>1. Goto(r, "lookup", to) /\ UNCHANGED <<seen, orgLock>>
        /\ (orgShare' = orgShare \/ (orgLock = Free /\ orgShare' = orgShare \cup {r}))
    BY <1>8 DEF LookupMembership, locks
  <2>2. /\ "lookup" \in Quiet \ {"idle"} /\ to \in Quiet \ {"idle", "gated"}
        /\ rowLock' \in [Invites -> Requests \cup {Free}] /\ newUser' \subseteq Requests
    BY <1>0, <1>8 DEF LookupMembership, TypeOK, locks, Quiet, Steps
  <2>3. /\ to \in {"consume", "verify", "lookup", "insertMember"} => op[r].kind = "accept"
        /\ to = "insertUser" => op[r].kind \in {"accept", "register"}
        /\ op[r].kind = "accept" /\ "lookup" = "consume" => offer[op[r].invite] \in Offers
    BY <1>0, <1>8 DEF LookupMembership, Goto, WellFormed
  <2>4. UNCHANGED role
    BY <2>1 DEF Goto, tables
  <2> QED
    BY <2>1, <2>2, <2>3, <2>4, QuietKeeps
<1> QED
  BY <1>1, <1>2, <1>3, <1>4, <1>5, <1>6, <1>7, <1>8

\* Ending without touching a membership keeps IInv.
LEMMA QuietEndKeeps ==
  ASSUME IInv, NEW r \in Requests,
         \/ Rollback(r) \/ CommitInvite(r) \/ CommitRevoke(r) \/ CommitRegister(r)
         \/ CommitAccept(r) /\ pc[r] # "joined"
  PROVE  IInv' /\ UNCHANGED role
<1> USE DEF tables
<1>0. TypeOK /\ WellFormed(r)
  BY DEF IInv
<1>1. CASE Rollback(r)
  BY <1>0, <1>1, EndKeeps DEF Rollback, TypeOK
<1>2. CASE CommitInvite(r)
  BY <1>0, <1>2, EndKeeps DEF CommitInvite, TypeOK, WellFormed, Offers
<1>3. CASE CommitRevoke(r)
  BY <1>0, <1>3, EndKeeps DEF CommitRevoke, TypeOK, WellFormed
<1>4. CASE CommitRegister(r)
  BY <1>0, <1>4, EndKeeps DEF CommitRegister, CommitUser, TypeOK, WellFormed
<1>5. CASE CommitAccept(r) /\ pc[r] # "joined"
  BY <1>0, <1>5, EndKeeps DEF CommitAccept, CommitUser, TypeOK, WellFormed
<1> QED
  BY <1>1, <1>2, <1>3, <1>4, <1>5

\* Time passing keeps IInv.
LEMMA ExpireKeeps == ASSUME IInv, NEW i \in Invites, Expire(i) PROVE IInv' /\ UNCHANGED role
BY DEF Expire, locks, IInv, TypeOK, OwnerRemains, OwnersIn, Locking, WellFormed, StillTrue,
       Gate, Abs!MayChange, Abs!Administers, Abs!OwnersIn

\* One step of Membership keeps IInv, and is one atomic operation of OrgRoles or none.
LEMMA NextKeeps == IInv /\ [Next]_vars => IInv' /\ [Abs!Next]_role
<1> SUFFICES ASSUME IInv, [Next]_vars PROVE IInv' /\ [Abs!Next]_role
  OBVIOUS
<1>1. ASSUME NEW r \in Requests, Begin(r) PROVE IInv' /\ UNCHANGED role
  BY <1>1, BeginKeeps DEF Begin, BeginPatch, BeginRemove, BeginInvite, BeginRevoke,
                          BeginAccept, BeginRegister, Start, tables
<1>2. ASSUME NEW r \in Requests, ChangeStep(r) PROVE IInv' /\ [Abs!Next]_role
  <2>1. CASE LockOrg(r)
    BY <2>1, LockKeeps DEF LockOrg, Goto, tables
  <2>2. CASE RecheckActor(r)
    BY <2>2, RecheckKeeps DEF RecheckActor, Goto, tables
  <2>3. CASE Approve(r)
    BY <2>3, ApproveKeeps DEF Approve, Goto, tables
  <2>4. CASE CommitChange(r)
    <3>1. Abs!MayChange(role, op[r].actor, op[r].target, op[r].role)
      BY <2>4 DEF CommitChange, IInv, StillTrue
    <3>2. op[r].actor \in Users /\ op[r].target \in Users /\ op[r].role \in Abs!Roles \cup {"none"}
      BY <2>4 DEF CommitChange, IInv, TypeOK, WellFormed, Ops, Roles, Abs!Roles
    <3>3. Abs!Next
      BY <2>4, <3>1, <3>2 DEF CommitChange, Abs!Next, Abs!ChangeRole
    <3> QED
      BY <2>4, <3>3, CommitChangeKeeps
  <2> QED
    BY <1>2, <2>1, <2>2, <2>3, <2>4 DEF ChangeStep
<1>3. ASSUME NEW r \in Requests, CommitAccept(r), pc[r] = "joined"
      PROVE  IInv' /\ [Abs!Next]_role
  BY <1>3, CommitJoinKeeps DEF Abs!Next, Abs!Join, Abs!InvitableRoles, InvitableRoles
<1>4. ASSUME NEW r \in Requests, InsertMember(r) PROVE IInv' /\ UNCHANGED role
  BY <1>4, InsertMemberKeeps DEF InsertMember, Goto, tables
<1>5. CASE UNCHANGED vars
  BY <1>5 DEF vars, tables, locks, IInv, TypeOK, OwnerRemains, OwnersIn, Locking, WellFormed,
              StillTrue, Gate, Abs!MayChange, Abs!Administers, Abs!OwnersIn
<1> QED
  BY <1>1, <1>2, <1>3, <1>4, <1>5, StatementKeeps, QuietEndKeeps, ExpireKeeps
     DEF Next, Step, InviteStep, AcceptStep

\* In every reachable state, whatever requests are in flight, the tables are well typed
\* and everything a request has read and relies on still holds.
THEOREM Invariance == Spec => []IInv
<1>1. IInv /\ [Next]_vars => IInv'
  BY NextKeeps
<1> QED
  BY <1>1, InitHolds, PTL DEF Spec

\* Types: no interleaving puts a value outside a column's range or leaves a lock with
\* a request that does not exist.
THEOREM TypeCorrect == Spec => []TypeOK
<1>1. IInv => TypeOK
  BY DEF IInv
<1> QED
  BY <1>1, Invariance, PTL

\* The organisation keeps an owner under every interleaving of role changes, removals,
\* acceptances and rollbacks, for any number of users and of concurrent requests.
THEOREM LastOwnerStays == Spec => []OwnerRemains
<1>1. IInv => OwnerRemains
  BY DEF IInv
<1> QED
  BY <1>1, Invariance, PTL

\* Membership administration is serializable: Membership implements OrgRoles, in which
\* each request happens in one step and is allowed by the memberships it finds there.
THEOREM Serializable == Spec => AtomicAdministration
<1>1. Init => Abs!Init
  BY DEF Init, Abs!Init
<1>2. IInv /\ [Next]_vars => [Abs!Next]_role
  BY NextKeeps
<1> QED
  BY <1>1, <1>2, Invariance, PTL DEF Spec, AtomicAdministration, Abs!Spec

\* Only CommitChange touches an existing membership, and StillTrue says that the actor
\* is entitled to the change it was approved for.
LEMMA ChangesAuthorized ==
  ASSUME IInv, Next, NEW u \in Users, role[u] # "none", role'[u] # role[u]
  PROVE  \E r \in Requests : /\ pc[r] = "approved" /\ op[r].target = u /\ op[r].role = role'[u]
                             /\ Abs!MayChange(role, op[r].actor, u, role'[u])
<1>0. role \in [Users -> Roles \cup {"none"}]
  BY DEF IInv, TypeOK
<1>1. \A r \in Requests : ~(CommitAccept(r) /\ pc[r] = "joined")
  BY <1>0 DEF CommitAccept, IInv, StillTrue
<1>2. \A r \in Requests : ~CommitAccept(r)
  BY <1>1, QuietEndKeeps
<1>3. PICK r \in Requests : CommitChange(r)
  <2>1. \A r \in Requests : ~Begin(r)
    BY DEF Begin, BeginPatch, BeginRemove, BeginInvite, BeginRevoke, BeginAccept,
           BeginRegister, Start, tables
  <2>2. \A r \in Requests :
          ~(LockOrg(r) \/ RecheckActor(r) \/ Approve(r) \/ InsertInvite(r) \/ ReadInvite(r)
            \/ MarkRevoked(r) \/ Audit(r) \/ Consume(r) \/ VerifyMailbox(r) \/ InsertUser(r)
            \/ LookupMembership(r) \/ InsertMember(r))
    BY DEF LockOrg, RecheckActor, Approve, InsertInvite, ReadInvite, MarkRevoked, Audit,
           Consume, VerifyMailbox, InsertUser, LookupMembership, InsertMember, Goto, tables
  <2>3. \A r \in Requests :
          ~(Rollback(r) \/ CommitInvite(r) \/ CommitRevoke(r) \/ CommitRegister(r))
    BY QuietEndKeeps
  <2>4. \A i \in Invites : ~Expire(i)
    BY ExpireKeeps
  <2> QED
    BY <1>2, <2>1, <2>2, <2>3, <2>4 DEF Next, Step, ChangeStep, InviteStep, AcceptStep
<1>4. op[r].target = u /\ op[r].role = role'[u]
  BY <1>0, <1>3 DEF CommitChange
<1>5. pc[r] = "approved" /\ Abs!MayChange(role, op[r].actor, op[r].target, op[r].role)
  BY <1>3 DEF CommitChange, IInv, StillTrue
<1> QED
  BY <1>4, <1>5

\* Whatever happened while a request waited, the change it commits is one its actor is
\* entitled to make then.
THEOREM Authorized == Spec => ActsWithAuthority
<1>1. IInv /\ [Next]_vars =>
        [\A u \in Users : role[u] # "none" /\ role'[u] # role[u] =>
           \E r \in Requests : /\ pc[r] = "approved" /\ op[r].target = u /\ op[r].role = role'[u]
                               /\ Abs!MayChange(role, op[r].actor, u, role'[u])]_vars
  BY ChangesAuthorized
<1> QED
  BY <1>1, Invariance, PTL DEF Spec, ActsWithAuthority
-------------------------------------------------------------------------------
(* Invitations: what a row lock protects until the acceptance commits *)

\* An acceptance that has consumed its invitation holds the row, as it found it: open, and
\* offered to the mailbox that was checked.
Accepting(r) ==
  LET o == op[r]
      i == o.invite
  IN o.kind = "accept" /\ pc[r] # "consume" =>
       /\ rowLock[i] = r /\ acceptor[i] = NoUser /\ i \notin revoked /\ offer[i] # NoOffer
       /\ pc[r] # "verify" => Mailbox[o.actor] = offer[i].box
       /\ pc[r] \notin {"verify", "insertUser"} => o.actor \in users \/ r \in newUser

\* A request that creates an invitation is the only one to do so, and an idle one does nothing.
Fresh(r) ==
  /\ pc[r] = "idle" => op[r].kind = "none"
  /\ op[r].kind = "invite" =>
       /\ offer[op[r].invite] = NoOffer
       /\ \A s \in Requests \ {r} : op[s].kind = "invite" => op[s].invite # op[r].invite

Claims == \A r \in Requests : Accepting(r) /\ Fresh(r)

LEMMA InitClaims == Init => Claims
BY DEF Init, Claims, Accepting, Fresh, NoOp

\* Starting a request keeps what the others hold.
LEMMA BeginKeepsClaims == ASSUME IInv, Claims, NEW r \in Requests, Begin(r) PROVE Claims'
<1>1. ASSUME NEW request, NEW first, Start(r, request, first),
             first # "idle", request.kind = "accept" => first = "consume",
             request.kind = "invite" =>
               /\ offer[request.invite] = NoOffer
               /\ \A s \in Requests : op[s].invite # request.invite
      PROVE  Claims'
  <2>1. \A s \in Requests : op'[s] = (IF s = r THEN request ELSE op[s])
                         /\ pc'[s] = (IF s = r THEN first ELSE pc[s])
    BY <1>1 DEF Start, IInv, TypeOK
  <2>2. UNCHANGED <<tables, locks>>
    BY <1>1 DEF Start
  <2>3. ASSUME NEW s \in Requests PROVE Accepting(s)'
    BY <1>1, <2>1, <2>2 DEF Claims, Accepting, tables, locks
  <2>4. ASSUME NEW s \in Requests PROVE Fresh(s)'
    BY <1>1, <2>1, <2>2 DEF Claims, Fresh, tables
  <2> QED BY <2>3, <2>4 DEF Claims
<1>2. ASSUME NEW a \in Users, NEW t \in Users, NEW new \in PatchRoles, BeginPatch(r, a, t, new)
      PROVE  Claims'
  BY <1>1, <1>2 DEF BeginPatch, NoOp
<1>3. ASSUME NEW a \in Users, NEW t \in Users, BeginRemove(r, a, t) PROVE Claims'
  BY <1>1, <1>3 DEF BeginRemove, NoOp
<1>4. ASSUME NEW a \in Users, NEW t \in Users, NEW new \in OfferRoles, NEW i \in Invites,
             BeginInvite(r, a, t, new, i)
      PROVE  Claims'
  BY <1>1, <1>4 DEF BeginInvite
<1>5. ASSUME NEW a \in Users, NEW i \in Invites, BeginRevoke(r, a, i) PROVE Claims'
  BY <1>1, <1>5 DEF BeginRevoke, NoOp
<1>6. ASSUME NEW a \in Users, NEW i \in Invites, BeginAccept(r, a, i) PROVE Claims'
  BY <1>1, <1>6 DEF BeginAccept, NoOp
<1>7. ASSUME NEW a \in Users, BeginRegister(r, a) PROVE Claims'
  BY <1>1, <1>7 DEF BeginRegister, NoOp
<1> QED
  BY <1>2, <1>3, <1>4, <1>5, <1>6, <1>7 DEF Begin

\* A statement that takes only free rows keeps Claims, provided its own request can still
\* claim what it needs.
LEMMA StatementKeepsClaims ==
  ASSUME IInv, Claims, NEW r \in Requests, NEW from, NEW to, Goto(r, from, to), to # "idle",
         \A i \in Invites : rowLock[i] # Free => rowLock'[i] = rowLock[i],
         newUser \subseteq newUser', Accepting(r)'
  PROVE  Claims'
<1>1. UNCHANGED <<users, offer, acceptor, revoked, op>>
  BY DEF Goto, tables
<1>2. \A s \in Requests : s # r => pc'[s] = pc[s]
  BY DEF Goto, IInv, TypeOK
<1>3. ASSUME NEW s \in Requests, s # r PROVE Accepting(s)'
  <2>1. CASE op[s].kind = "accept" /\ pc[s] # "consume"
    <3>1. op[s].invite \in Invites /\ rowLock[op[s].invite] = s
      BY <2>1 DEF IInv, WellFormed, Claims, Accepting
    <3>2. rowLock'[op[s].invite] = s
      BY <3>1, SentinelsOK
    <3> QED BY <1>1, <1>2, <1>3, <2>1, <3>2 DEF Claims, Accepting
  <2>2. CASE ~(op[s].kind = "accept" /\ pc[s] # "consume")
    BY <1>1, <1>2, <1>3, <2>2 DEF Accepting
  <2> QED BY <2>1, <2>2
<1>4. pc'[r] = to
  BY DEF Goto, IInv, TypeOK
<1>5. ASSUME NEW s \in Requests PROVE Fresh(s)'
  BY <1>1, <1>2, <1>4 DEF Claims, Fresh
<1> QED
  BY <1>3, <1>5 DEF Claims

\* The end of a transaction that has written only the invitations it holds, or has created
\* the one that is its own, keeps Claims.
LEMMA EndKeepsClaims ==
  ASSUME IInv, Claims, NEW r \in Requests, End(r), users \subseteq users',
         \A i \in Invites : rowLock[i] # r =>
           acceptor'[i] = acceptor[i] /\ (i \in revoked' => i \in revoked),
         \A i \in Invites : offer'[i] # offer[i] =>
           offer[i] = NoOffer /\ op[r].kind = "invite" /\ op[r].invite = i
  PROVE  Claims'
<1>1. \A s \in Requests : /\ op'[s] = (IF s = r THEN NoOp ELSE op[s])
                          /\ pc'[s] = (IF s = r THEN "idle" ELSE pc[s])
  BY DEF End, IInv, TypeOK
<1>2. NoOp.kind = "none"
  BY DEF NoOp
<1>3. ASSUME NEW s \in Requests PROVE Accepting(s)'
  <2>1. CASE s # r /\ op[s].kind = "accept" /\ pc[s] # "consume"
    <3> DEFINE i == op[s].invite
    <3>1. /\ i \in Invites /\ rowLock[i] = s /\ acceptor[i] = NoUser /\ i \notin revoked
          /\ offer[i] # NoOffer
      BY <2>1 DEF IInv, WellFormed, Claims, Accepting
    <3>2. rowLock'[i] = s /\ acceptor'[i] = NoUser /\ i \notin revoked' /\ offer'[i] = offer[i]
      BY <2>1, <3>1 DEF End
    <3>3. s \in newUser => s \in newUser'
      BY <2>1 DEF End
    <3> QED BY <1>1, <2>1, <3>1, <3>2, <3>3 DEF Claims, Accepting
  <2>2. CASE ~(s # r /\ op[s].kind = "accept" /\ pc[s] # "consume")
    BY <1>1, <1>2, <2>2 DEF Accepting
  <2> QED BY <2>1, <2>2
<1>4. ASSUME NEW s \in Requests PROVE Fresh(s)'
  <2>1. CASE s = r
    BY <1>1, <1>2, <2>1 DEF Fresh
  <2>2. CASE s # r /\ op[s].kind = "invite"
    <3>1. op[s].invite \in Invites
      BY <2>2 DEF IInv, WellFormed
    <3> QED BY <1>1, <1>2, <2>2, <3>1 DEF Claims, Fresh
  <2>3. CASE s # r /\ op[s].kind # "invite"
    BY <1>1, <2>3 DEF Claims, Fresh
  <2> QED BY <2>1, <2>2, <2>3
<1> QED
  BY <1>3, <1>4 DEF Claims

\* Every statement of every request keeps Claims.
LEMMA StepKeepsClaims ==
  ASSUME IInv, Claims, NEW r \in Requests,
         \/ LockOrg(r) \/ RecheckActor(r) \/ Approve(r) \/ InsertInvite(r) \/ ReadInvite(r)
         \/ MarkRevoked(r) \/ Audit(r) \/ Consume(r) \/ VerifyMailbox(r) \/ InsertUser(r)
         \/ LookupMembership(r) \/ InsertMember(r)
  PROVE  Claims'
<1>0. Accepting(r) /\ WellFormed(r) /\ TypeOK
  BY DEF Claims, IInv
<1>1. CASE LockOrg(r)
  <2>1. Goto(r, "gated", "locked")
    BY <1>1 DEF LockOrg
  <2>2. UNCHANGED <<rowLock, newUser>>
    BY <1>0, <1>1 DEF LockOrg
  <2>3. Accepting(r)'
    BY <1>0, <1>1 DEF LockOrg, Goto, Accepting, tables, WellFormed, TypeOK
  <2> QED BY <1>0, <2>1, <2>2, <2>3, StatementKeepsClaims
<1>2. CASE RecheckActor(r)
  <2>1. Goto(r, "locked", "vetted")
    BY <1>2 DEF RecheckActor
  <2>2. UNCHANGED <<rowLock, newUser>>
    BY <1>0, <1>2 DEF RecheckActor, locks
  <2>3. Accepting(r)'
    BY <1>0, <1>2 DEF RecheckActor, Goto, Accepting, tables, locks, WellFormed, TypeOK
  <2> QED BY <1>0, <2>1, <2>2, <2>3, StatementKeepsClaims
<1>3. CASE Approve(r)
  <2>1. Goto(r, "vetted", "approved")
    BY <1>3 DEF Approve
  <2>2. UNCHANGED <<rowLock, newUser>>
    BY <1>0, <1>3 DEF Approve, locks
  <2>3. Accepting(r)'
    BY <1>0, <1>3 DEF Approve, Goto, Accepting, tables, locks, WellFormed, TypeOK
  <2> QED BY <1>0, <2>1, <2>2, <2>3, StatementKeepsClaims
<1>4. CASE InsertInvite(r)
  <2>1. Goto(r, "insertInvite", "ready")
    BY <1>4 DEF InsertInvite
  <2>2. UNCHANGED <<rowLock, newUser>>
    BY <1>0, <1>4 DEF InsertInvite, ShareOrg
  <2>3. Accepting(r)'
    BY <1>0, <1>4 DEF InsertInvite, Goto, Accepting, tables, ShareOrg, TypeOK
  <2> QED BY <1>0, <2>1, <2>2, <2>3, StatementKeepsClaims
<1>5. CASE ReadInvite(r)
  <2>1. Goto(r, "readInvite", IF op[r].invite \in revoked THEN "audit" ELSE "mark")
    BY <1>5 DEF ReadInvite
  <2>2. UNCHANGED <<rowLock, newUser>>
    BY <1>0, <1>5 DEF ReadInvite, locks
  <2>3. Accepting(r)'
    BY <1>0, <1>5 DEF ReadInvite, Goto, Accepting, tables, locks, TypeOK
  <2> QED BY <1>0, <2>1, <2>2, <2>3, StatementKeepsClaims
<1>6. CASE MarkRevoked(r)
  <2>1. Goto(r, "mark", "audit")
    BY <1>6 DEF MarkRevoked
  <2>2. newUser' = newUser /\ \A i \in Invites : rowLock[i] # Free => rowLock'[i] = rowLock[i]
    BY <1>0, <1>6 DEF MarkRevoked, TypeOK
  <2>3. op[r].kind # "accept"
    BY <1>0, <1>6, SentinelsOK DEF MarkRevoked, Goto, Accepting
  <2>4. Accepting(r)'
    BY <2>1, <2>3 DEF Accepting, Goto
  <2> QED BY <2>1, <2>2, <2>4, StatementKeepsClaims
<1>7. CASE Audit(r)
  <2>1. Goto(r, "audit", "ready")
    BY <1>7 DEF Audit
  <2>2. UNCHANGED <<rowLock, newUser>>
    BY <1>0, <1>7 DEF Audit, ShareOrg
  <2>3. Accepting(r)'
    BY <1>0, <1>7 DEF Audit, Goto, Accepting, tables, ShareOrg, TypeOK
  <2> QED BY <1>0, <2>1, <2>2, <2>3, StatementKeepsClaims
<1>8. CASE Consume(r)
  <2>1. Goto(r, "consume", "verify")
    BY <1>8 DEF Consume
  <2>2. newUser' = newUser /\ \A i \in Invites : rowLock[i] # Free => rowLock'[i] = rowLock[i]
    BY <1>0, <1>8 DEF Consume, TypeOK
  <2>3. Accepting(r)'
    BY <1>0, <1>8 DEF Consume, Goto, Accepting, tables, Consumable, WellFormed, TypeOK
  <2> QED BY <1>0, <2>1, <2>2, <2>3, StatementKeepsClaims
<1>9. CASE VerifyMailbox(r)
  <2>1. Goto(r, "verify", IF op[r].actor \in users THEN "lookup" ELSE "insertUser")
    BY <1>9 DEF VerifyMailbox
  <2>2. UNCHANGED <<rowLock, newUser>>
    BY <1>0, <1>9 DEF VerifyMailbox, locks
  <2>3. Accepting(r)'
    BY <1>0, <1>9 DEF VerifyMailbox, Goto, Accepting, tables, locks, TypeOK
  <2> QED BY <1>0, <2>1, <2>2, <2>3, StatementKeepsClaims
<1>10. CASE InsertUser(r)
  <2>1. Goto(r, "insertUser", IF op[r].kind = "register" THEN "ready" ELSE "lookup")
    BY <1>10 DEF InsertUser
  <2>2. UNCHANGED rowLock /\ newUser \subseteq newUser'
    BY <1>0, <1>10 DEF InsertUser
  <2>3. Accepting(r)'
    BY <1>0, <1>10 DEF InsertUser, Goto, Accepting, tables, TypeOK
  <2> QED BY <1>0, <2>1, <2>2, <2>3, StatementKeepsClaims
<1>11. CASE LookupMembership(r)
  <2>1. Goto(r, "lookup", IF role[op[r].actor] = "none" THEN "insertMember" ELSE "audit")
    BY <1>11 DEF LookupMembership
  <2>2. UNCHANGED <<rowLock, newUser>>
    BY <1>0, <1>11 DEF LookupMembership, locks
  <2>3. Accepting(r)'
    BY <1>0, <1>11 DEF LookupMembership, Goto, Accepting, tables, locks, TypeOK
  <2> QED BY <1>0, <2>1, <2>2, <2>3, StatementKeepsClaims
<1>12. CASE InsertMember(r)
  <2>1. Goto(r, "insertMember", "joined")
    BY <1>12 DEF InsertMember
  <2>2. UNCHANGED <<rowLock, newUser>>
    BY <1>0, <1>12 DEF InsertMember, ShareOrg
  <2>3. Accepting(r)'
    BY <1>0, <1>12 DEF InsertMember, Goto, Accepting, tables, ShareOrg, TypeOK
  <2> QED BY <1>0, <2>1, <2>2, <2>3, StatementKeepsClaims
<1> QED
  BY <1>1, <1>2, <1>3, <1>4, <1>5, <1>6, <1>7, <1>8, <1>9, <1>10, <1>11, <1>12

\* Every end of a request keeps Claims: it writes only rows it has claimed.
LEMMA CommitKeepsClaims ==
  ASSUME IInv, Claims, NEW r \in Requests,
         \/ Rollback(r) \/ CommitChange(r) \/ CommitInvite(r) \/ CommitRevoke(r)
         \/ CommitAccept(r) \/ CommitRegister(r)
  PROVE  Claims'
<1>0. Accepting(r) /\ Fresh(r) /\ WellFormed(r) /\ TypeOK
  BY DEF Claims, IInv
<1>1. CASE Rollback(r)
  BY <1>0, <1>1, EndKeepsClaims DEF Rollback, tables
<1>2. CASE CommitChange(r)
  BY <1>0, <1>2, EndKeepsClaims DEF CommitChange
<1>3. CASE CommitInvite(r)
  BY <1>0, <1>3, EndKeepsClaims DEF CommitInvite, Fresh, TypeOK
<1>4. CASE CommitRevoke(r)
  BY <1>0, <1>4, EndKeepsClaims DEF CommitRevoke
<1>5. CASE CommitAccept(r)
  <2>1. op[r].invite \in Invites /\ rowLock[op[r].invite] = r
    BY <1>0, <1>5 DEF CommitAccept, Accepting, WellFormed
  <2> QED BY <1>0, <1>5, <2>1, EndKeepsClaims DEF CommitAccept, CommitUser, TypeOK
<1>6. CASE CommitRegister(r)
  BY <1>0, <1>6, EndKeepsClaims DEF CommitRegister, CommitUser
<1> QED
  BY <1>1, <1>2, <1>3, <1>4, <1>5, <1>6

LEMMA NextKeepsClaims == IInv /\ Claims /\ [Next]_vars => Claims'
<1> SUFFICES ASSUME IInv, Claims, [Next]_vars PROVE Claims'
  OBVIOUS
<1>1. CASE UNCHANGED vars
  BY <1>1 DEF vars, tables, locks, Claims, Accepting, Fresh
<1>2. ASSUME NEW i \in Invites, Expire(i) PROVE Claims'
  BY <1>2 DEF Expire, locks, Claims, Accepting, Fresh
<1> QED
  BY <1>1, <1>2, BeginKeepsClaims, StepKeepsClaims, CommitKeepsClaims
     DEF Next, Step, ChangeStep, InviteStep, AcceptStep

\* In every reachable state, what an acceptance has consumed is still its own.
THEOREM ClaimsHold == Spec => []Claims
<1>1. IInv /\ Claims /\ [Next]_vars => Claims'
  BY NextKeepsClaims
<1> QED
  BY <1>1, InitClaims, Invariance, PTL DEF Spec

\* Only a commit writes acceptances, memberships of newcomers included.
LEMMA OnlyAcceptWrites ==
  ASSUME IInv, Next
  PROVE  \/ UNCHANGED acceptor
            /\ \A u \in Users : role[u] = "none" => role'[u] = "none"
         \/ \E r \in Requests : CommitAccept(r)
<1>1. ASSUME NEW r \in Requests, CommitChange(r)
      PROVE  UNCHANGED acceptor /\ \A u \in Users : role[u] = "none" => role'[u] = "none"
  <2>1. role[op[r].target] # "none"
    BY <1>1 DEF CommitChange, IInv, StillTrue, Abs!MayChange
  <2> QED BY <1>1, <2>1 DEF CommitChange, IInv, TypeOK
<1>2. ASSUME NEW r \in Requests, Begin(r) PROVE UNCHANGED <<acceptor, role>>
  BY <1>2 DEF Begin, BeginPatch, BeginRemove, BeginInvite, BeginRevoke, BeginAccept,
              BeginRegister, Start, tables
<1>3. ASSUME NEW r \in Requests,
             \/ LockOrg(r) \/ RecheckActor(r) \/ Approve(r) \/ InsertInvite(r) \/ ReadInvite(r)
             \/ MarkRevoked(r) \/ Audit(r) \/ Consume(r) \/ VerifyMailbox(r) \/ InsertUser(r)
             \/ LookupMembership(r) \/ InsertMember(r)
      PROVE  UNCHANGED <<acceptor, role>>
  BY <1>3 DEF LockOrg, RecheckActor, Approve, InsertInvite, ReadInvite, MarkRevoked, Audit,
              Consume, VerifyMailbox, InsertUser, LookupMembership, InsertMember, Goto, tables
<1>4. ASSUME NEW r \in Requests,
             Rollback(r) \/ CommitInvite(r) \/ CommitRevoke(r) \/ CommitRegister(r)
      PROVE  UNCHANGED <<acceptor, role>>
  BY <1>4 DEF Rollback, CommitInvite, CommitRevoke, CommitRegister, tables
<1>5. ASSUME NEW i \in Invites, Expire(i) PROVE UNCHANGED <<acceptor, role>>
  BY <1>5 DEF Expire
<1> QED
  BY <1>1, <1>2, <1>3, <1>4, <1>5 DEF Next, Step, ChangeStep, InviteStep, AcceptStep

\* An invitation is accepted at most once, by its addressee, and never once revoked: the
\* row lock taken by the conditional UPDATE is held until the acceptance commits.
THEOREM InvitationsUsedOnce == Spec => InvitationUsedOnce
<1>1. ASSUME IInv, Claims, Next, NEW i \in Invites, acceptor'[i] # acceptor[i]
      PROVE  acceptor[i] = NoUser /\ i \notin revoked /\ Mailbox[acceptor'[i]] = offer[i].box
  <2>1. PICK r \in Requests : CommitAccept(r)
    BY <1>1, OnlyAcceptWrites
  <2>2. op[r].invite = i /\ acceptor'[i] = op[r].actor
    BY <1>1, <2>1 DEF CommitAccept, IInv, TypeOK
  <2>3. Accepting(r)
    BY <1>1 DEF Claims
  <2> QED BY <2>1, <2>2, <2>3 DEF CommitAccept, Accepting
<1>2. IInv /\ Claims /\ [Next]_vars =>
        [\A i \in Invites : acceptor'[i] # acceptor[i] =>
           /\ acceptor[i] = NoUser /\ i \notin revoked
           /\ Mailbox[acceptor'[i]] = offer[i].box]_vars
  BY <1>1
<1> QED
  BY <1>2, Invariance, ClaimsHold, PTL DEF Spec, InvitationUsedOnce

\* Whoever joins does so by accepting an invitation in the same commit, with the role it
\* offers and an account committed with it or before it.
THEOREM JoiningNeedsInvitation == Spec => JoinsByInvitation
<1>1. ASSUME IInv, Claims, Next, NEW u \in Users, role[u] = "none", role'[u] # "none"
      PROVE  /\ u \in users'
             /\ \E i \in Invites : /\ acceptor[i] = NoUser /\ acceptor'[i] = u
                                   /\ role'[u] = offer[i].role
  <2>1. PICK r \in Requests : CommitAccept(r)
    BY <1>1, OnlyAcceptWrites
  <2>2. Accepting(r) /\ WellFormed(r) /\ TypeOK
    BY <1>1 DEF Claims, IInv
  <2>3. pc[r] = "joined" /\ op[r].actor = u /\ role'[u] = offer[op[r].invite].role
    BY <1>1, <2>1, <2>2 DEF CommitAccept, TypeOK
  <2>4. op[r].invite \in Invites /\ acceptor[op[r].invite] = NoUser
        /\ acceptor'[op[r].invite] = u
    BY <2>1, <2>2, <2>3 DEF CommitAccept, Accepting, WellFormed, TypeOK
  <2>5. u \in users'
    BY <2>1, <2>2, <2>3 DEF CommitAccept, CommitUser, Accepting
  <2> QED BY <2>3, <2>4, <2>5
<1>2. IInv /\ Claims /\ [Next]_vars =>
        [\A u \in Users : role[u] = "none" /\ role'[u] # "none" =>
           /\ u \in users'
           /\ \E i \in Invites : /\ acceptor[i] = NoUser /\ acceptor'[i] = u
                                 /\ role'[u] = offer[i].role]_vars
  BY <1>1
<1> QED
  BY <1>2, Invariance, ClaimsHold, PTL DEF Spec, JoinsByInvitation
===============================================================================
