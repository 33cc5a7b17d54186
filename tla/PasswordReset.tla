---------------------------- MODULE PasswordReset ----------------------------
(***************************************************************************)
(* The reset tokens of one account under concurrent POST                   *)
(* /auth/forgot-password and /auth/reset-password requests.  A reset       *)
(* claims its token with one conditional UPDATE, changes the password, and *)
(* marks every other unconsumed token of the account with a second UPDATE  *)
(* that takes the rows one after the other.  Both run READ COMMITTED: an   *)
(* UPDATE finds its rows in what is committed when it starts, waits for    *)
(* rows that other transactions have written, and looks at them again      *)
(* then.  Two resets may wait for each other; PostgreSQL ends one of them. *)
(***************************************************************************)
EXTENDS Naturals, Sequences

CONSTANTS Tokens,       \* rows of password_reset_tokens, one raw token each
          Requests,     \* requests that may be in flight together
          NoToken, Free

ASSUME SentinelsOK == NoToken \notin Tokens /\ Free \notin Requests

VARIABLES issued,       \* committed rows
          consumed,     \* those with consumed_at set
          expired,      \* tokens whose expires_at has passed
          holder,       \* holder[t]: the open transaction that has written row t
          pc, op,       \* where each request is, and the token it is about
          todo,         \* todo[r]: rows the second UPDATE of r has still to visit
          visible,      \* visible[r]: the rows committed when that UPDATE started
          log           \* history: the resets that committed, oldest first

rows == <<issued, consumed, expired>>
resetVars == <<rows, holder, pc, op, todo, visible, log>>

ResetInit ==
  /\ issued = {} /\ consumed = {} /\ expired = {}
  /\ holder = [t \in Tokens |-> Free]
  /\ pc = [r \in Requests |-> "idle"]
  /\ op = [r \in Requests |-> NoToken]
  /\ todo = [r \in Requests |-> {}]
  /\ visible = [r \in Requests |-> {}]
  /\ log = <<>>

-------------------------------------------------------------------------------
(* Transactions *)

Start(r, t, first) ==
  /\ pc[r] = "idle"
  /\ pc' = [pc EXCEPT ![r] = first]
  /\ op' = [op EXCEPT ![r] = t]
  /\ UNCHANGED <<rows, holder, todo, visible, log>>

Goto(r, from, to) ==
  /\ pc[r] = from
  /\ pc' = [pc EXCEPT ![r] = to]
  /\ UNCHANGED <<rows, op, log>>

\* Mutant of End: rows stay locked.
EndKeepsRows(r) ==
  /\ pc' = [pc EXCEPT ![r] = "idle"]
  /\ op' = [op EXCEPT ![r] = NoToken]
  /\ todo' = [todo EXCEPT ![r] = {}]
  /\ visible' = [visible EXCEPT ![r] = {}]
  /\ UNCHANGED holder

\* The transaction ends, and the rows it has written are free again.
End(r) ==
  /\ pc' = [pc EXCEPT ![r] = "idle"]
  /\ op' = [op EXCEPT ![r] = NoToken]
  /\ todo' = [todo EXCEPT ![r] = {}]
  /\ visible' = [visible EXCEPT ![r] = {}]
  /\ holder' = [t \in Tokens |-> IF holder[t] = r THEN Free ELSE holder[t]]

\* An HTTPException, a deadlock, a lost connection or a dying process.
Rollback(r) ==
  /\ pc[r] # "idle"
  /\ End(r)
  /\ UNCHANGED <<rows, log>>

-------------------------------------------------------------------------------
(* POST /auth/forgot-password *)

\* generate_token gives a fresh token.
BeginForgot(r, t) ==
  /\ t \notin issued /\ \A other \in Requests : op[other] # t
  /\ Start(r, t, "inserted")

\* The session dependency commits when the handler has returned.
CommitForgot(r) ==
  /\ pc[r] = "inserted"
  /\ issued' = issued \cup {op[r]}
  /\ End(r)
  /\ UNCHANGED <<consumed, expired, log>>

\* An hour passes.
Expire(t) ==
  /\ t \in issued \ expired
  /\ expired' = expired \cup {t}
  /\ UNCHANGED <<issued, consumed, holder, pc, op, todo, visible, log>>
-------------------------------------------------------------------------------
(* POST /auth/reset-password *)

\* The expiry is compared with a clock read before the UPDATE is sent.
BeginReset(r, t) ==
  /\ t \in issued \ expired
  /\ Start(r, t, "consume")

\* Mutant of Consume: verify_reset_token, then an unconditional write.
ConsumeChecked(r) ==
  /\ Goto(r, "consume", "claimed")
  /\ op[r] \notin consumed
  /\ UNCHANGED <<holder, todo, visible>>

\* UPDATE ... WHERE token_hash = ... AND consumed_at IS NULL RETURNING.
Consume(r) ==
  /\ Goto(r, "consume", "claimed")
  /\ holder[op[r]] = Free
  /\ op[r] \notin consumed
  /\ holder' = [holder EXCEPT ![op[r]] = r]
  /\ UNCHANGED <<todo, visible>>

\* The second UPDATE starts; it does not see the row r has just written as unconsumed.
BeginSweep(r) ==
  /\ Goto(r, "claimed", "sweep")
  /\ visible' = [visible EXCEPT ![r] = issued]
  /\ todo' = [todo EXCEPT ![r] = issued \ (consumed \cup {op[r]})]
  /\ UNCHANGED holder

\* Mutant of SweepRow: a locked row is skipped.
SweepUnlocked(r, t) ==
  /\ Goto(r, "sweep", "sweep")
  /\ t \in todo[r]
  /\ todo' = [todo EXCEPT ![r] = @ \ {t}]
  /\ holder' = IF holder[t] = Free /\ t \notin consumed THEN [holder EXCEPT ![t] = r] ELSE holder
  /\ UNCHANGED visible

\* It waits for a row that another transaction has written, and writes it unless that
\* transaction has consumed it.
SweepRow(r, t) ==
  /\ Goto(r, "sweep", "sweep")
  /\ t \in todo[r] /\ holder[t] = Free
  /\ todo' = [todo EXCEPT ![r] = @ \ {t}]
  /\ holder' = IF t \in consumed THEN holder ELSE [holder EXCEPT ![t] = r]
  /\ UNCHANGED visible

\* The new password and all consumed_at are committed.
CommitReset(r) ==
  /\ pc[r] = "sweep" /\ todo[r] = {}
  /\ consumed' = consumed \cup {t \in Tokens : holder[t] = r}
  /\ log' = Append(log, [token |-> op[r], visible |-> visible[r]])
  /\ End(r)
  /\ UNCHANGED <<issued, expired>>

Begin(r) == \E t \in Tokens : BeginForgot(r, t) \/ BeginReset(r, t)

Step(r) ==
  \/ CommitForgot(r)
  \/ Consume(r) \/ BeginSweep(r) \/ (\E t \in Tokens : SweepRow(r, t)) \/ CommitReset(r)

\* The conditional UPDATE of r returns no row.
NoRow(r) == pc[r] = "consume" /\ holder[op[r]] = Free /\ op[r] \in consumed

\* Rows that r needs next, all of them written by others.
WaitsFor(r, other) ==
  LET needed == CASE pc[r] = "consume" -> {op[r]} [] pc[r] = "sweep" -> todo[r] [] OTHER -> {}
  IN /\ Free \notin {holder[t] : t \in needed}
     /\ other \in {holder[t] : t \in needed}

Deadlocked(r) ==
  \E cycle \in SUBSET Requests :
     r \in cycle /\ \A s \in cycle : \E other \in cycle : WaitsFor(s, other)

ResetNext ==
  \/ \E r \in Requests : Begin(r) \/ Step(r) \/ Rollback(r)
  \/ \E t \in Tokens : Expire(t)

ResetSpec == ResetInit /\ [][ResetNext]_resetVars

\* Requests are executed to their end, and PostgreSQL breaks deadlocks.
ResetFairSpec ==
  ResetSpec /\ \A r \in Requests :
            WF_resetVars(Step(r) \/ ((NoRow(r) \/ Deadlocked(r)) /\ Rollback(r)))
-------------------------------------------------------------------------------
(* Properties *)

Steps == {"idle", "inserted", "consume", "claimed", "sweep"}

\* Rows and sessions hold what their columns and handlers allow.
ResetTypeOK ==
  /\ issued \subseteq Tokens /\ consumed \subseteq issued /\ expired \subseteq issued
  /\ holder \in [Tokens -> Requests \cup {Free}]
  /\ pc \in [Requests -> Steps]
  /\ op \in [Requests -> Tokens \cup {NoToken}]
  /\ todo \in [Requests -> SUBSET Tokens]
  /\ visible \in [Requests -> SUBSET Tokens]
  /\ log \in Seq([token : Tokens, visible : SUBSET Tokens])

\* "invalidate any other unconsumed tokens for the user" (auth.py): once a reset has
\* committed, the password can only be changed by a token that was not yet there when that
\* reset looked for the others; in particular no token changes it twice.
OlderTokensDie ==
  \A m, n \in DOMAIN log :
     m < n => log[n].token # log[m].token /\ log[n].token \notin log[m].visible

\* Only unconsumed rows are written, by a reset that has claimed its token.
Locking ==
  \A t \in Tokens :
     holder[t] # Free => t \in issued \ consumed /\ pc[holder[t]] \in {"claimed", "sweep"}

\* A reset holds the token it has claimed.
Claims(r) ==
  /\ pc[r] \in {"claimed", "sweep"} => op[r] \in Tokens /\ holder[op[r]] = r
  /\ pc[r] = "consume" => op[r] \in issued
  /\ pc[r] = "inserted" => op[r] \in Tokens

\* What r saw and has visited is consumed, or written by r.
Sweeps(r) ==
  pc[r] = "sweep" =>
     /\ todo[r] \subseteq visible[r] /\ visible[r] \subseteq issued
     /\ \A t \in visible[r] \ todo[r] : t \in consumed \/ holder[t] = r

Logged ==
  \A n \in DOMAIN log : log[n].token \in consumed /\ log[n].visible \subseteq consumed

\* Why OlderTokensDie holds: a committed reset has consumed every row it saw, and whoever
\* still holds a token holds an unconsumed one.
ResetInv ==
  /\ ResetTypeOK /\ Locking /\ Logged /\ OlderTokensDie
  /\ \A r \in Requests : Claims(r) /\ Sweeps(r)

\* Once clients stop sending, every request in flight ends, although resets of one account
\* take each other's rows.
ResetsFinish ==
  (<>[][\A r \in Requests : ~Begin(r)]_resetVars) =>
     \A r \in Requests : [](pc[r] # "idle" => <>(pc[r] = "idle"))
===============================================================================
