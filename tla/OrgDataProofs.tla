---------------------------- MODULE OrgDataProofs ----------------------------
(***************************************************************************)
(* Proofs about OrgData, for any number of transactions and parsing jobs.  *)
(* IInv is inductive: what each transaction holds and refers to keeps the  *)
(* others from disturbing it, an id that was used never comes back, and a  *)
(* purge holds, table after table, all that it found.                      *)
(***************************************************************************)
EXTENDS OrgData, FiniteSetTheorems, TLAPS

Kinds == {"customer", "invoice", "transaction", "charges", "commitment", "event"}

Made == Sessions \X Kinds

AllIds == Jobs \cup Made

\* The tables the purge goes through, and the one it leaves alone.
Tables == <<"job", "invoice", "customer", "commitment", "transaction", "event">>

\* The place in Tables of the table that a row of this id is in.
Place ==
  [invoice |-> 2, customer |-> 3, commitment |-> 4, transaction |-> 5, charges |-> 5,
   event |-> 6]

PlaceOf(id) == IF id \in Jobs THEN 1 ELSE Place[id[2]]

Names == Jobs \cup {None, Name, Merchant, "pending_review", "confirmed"}

Records ==
  [table : {"job", "invoice", "customer", "commitment", "transaction", "event"}, id : AllIds,
   name : Names, parent : AllIds \cup {None}]

Rows ==
  {r \in Records : /\ r.table = Tables[PlaceOf(r.id)]
                   /\ r.table = "invoice" => r.name \in Jobs \cup {None}
                   /\ r.table \in {"commitment", "event"} => r.parent = None}

Transactions ==
  [pc : {"idle", "ended", "pick", "new_customer", "invoice", "job", "recompute", "flush",
         "purge", "delete", "commit"},
   job : Jobs \cup {None}, customer : AllIds \cup {None}, adds : SUBSET Rows,
   sets : SUBSET Rows, next : 1..6, todo : SUBSET Rows, gone : SUBSET Rows,
   old : SUBSET Rows]

Held(s) == Ids(s.gone \cup s.sets)

\* Ids that no transaction will insert again.
Spent == posted \cup {id \in Made : session[id[1]].pc = "ended"}

Unique(set) == \A r, q \in set : r.id = q.id => r = q

Purging(s) == s.pc \in {"purge", "delete"} \/ s.next > 1

\* What x has inserted is its own, and what that refers to is there.
Inserts(x, s) ==
  /\ Unique(s.adds)
  /\ \A r \in s.adds :
       /\ r.id[1] = x /\ r.id \in Made
       /\ r.parent # None => PlaceOf(r.parent) = 3 /\ r.parent \in Ids(rows \cup s.adds)
       /\ r.table = "invoice" /\ r.name # None =>
            /\ r.name = s.job /\ s.pc \in {"job", "commit"}
            /\ s.pc = "commit" => s.job \in Ids(s.sets)

Updates(s) ==
  /\ Unique(s.sets)
  /\ \A r \in s.sets : /\ PlaceOf(r.id) \in {1, 4} /\ r.id \in Ids(rows)
                       /\ r.parent \in Ids(s.adds) \cup {None}

\* Which parts of a transaction are in use at which point.
Stage(x, s) ==
  /\ ~Purging(s) => s.gone = {} /\ s.old = {}
  /\ Purging(s) => /\ s.adds = {} /\ s.sets = {} /\ s.pc \in {"purge", "delete", "commit"}
                   /\ s.pc = "commit" <=> s.next = 6
  /\ s.pc \notin {"invoice", "job", "commit"} => s.adds = {}
  /\ s.pc # "commit" => s.sets = {}
  /\ s.pc \notin {"delete", "flush"} => s.todo = {}
  /\ \A r \in s.gone : PlaceOf(r.id) # 6
  /\ s.pc = "delete" => \A r \in s.todo : PlaceOf(r.id) = s.next
  /\ s.pc = "flush" => \A r \in s.todo : PlaceOf(r.id) = 4
  /\ s.pc = "invoice" => s.customer \in AllIds /\ PlaceOf(s.customer) = 3
                           /\ \A r \in s.adds : PlaceOf(r.id) = 3
  /\ s.pc = "job" => /\ s.job \in Jobs /\ <<x, "invoice">> \in Ids(s.adds)
                     /\ \A r \in s.adds : PlaceOf(r.id) # 6

\* The purge has looked for the rows of this id.
Swept(s, id) == PlaceOf(id) < s.next \/ (PlaceOf(id) = s.next /\ s.pc = "delete")

\* It holds, or has still to visit, those of them that it found when it began, and the
\* invoices of the jobs it holds.
Sweeps(s) ==
  /\ Ids(s.old \cup s.gone) \subseteq Spent
  /\ \A r \in rows :
       /\ Swept(s, r.id)
       /\ r.id \in Ids(s.old) \/ (r.table = "invoice" /\ r.name \in Ids(s.gone))
       => r.id \in Ids(s.gone \cup s.todo)

Sound(x, s) == Inserts(x, s) /\ Updates(s) /\ Stage(x, s) /\ Sweeps(s)

Apart ==
  \A x, y \in Sessions : x # y =>
    /\ Held(session[x]) \cap Held(session[y]) = {}
    /\ \A r \in session[x].adds : r.parent \notin Held(session[y])

Stored ==
  /\ rows \subseteq Rows /\ Unique(rows) /\ Ids(rows) \subseteq Spent
  /\ \A r \in rows : r.parent \in Ids(rows) \cup {None}

IInv ==
  /\ session \in [Sessions -> Transactions] /\ posted \subseteq Jobs
  /\ Stored /\ InvoicesKeepJobs /\ Apart
  /\ \A x \in Sessions : Sound(x, session[x])
-------------------------------------------------------------------------------
(* Rows and ids *)

LEMMA Orders ==
  /\ Len(PurgeOrder) = 5 /\ DOMAIN PurgeOrder = 1..5
  /\ \A k \in 1..5 : PurgeOrder[k] = Tables[k]
  /\ Tables[1] = "job" /\ Tables[2] = "invoice" /\ Tables[3] = "customer"
  /\ Tables[4] = "commitment" /\ Tables[5] = "transaction" /\ Tables[6] = "event"
BY DEF PurgeOrder, Tables

LEMMA Places ==
  /\ \A id \in AllIds : PlaceOf(id) \in 1..6
  /\ \A id \in Jobs : PlaceOf(id) = 1
  /\ \A x \in Sessions :
       /\ <<x, "invoice">> \in Made /\ PlaceOf(<<x, "invoice">>) = 2
       /\ <<x, "customer">> \in Made /\ PlaceOf(<<x, "customer">>) = 3
       /\ <<x, "commitment">> \in Made /\ PlaceOf(<<x, "commitment">>) = 4
       /\ <<x, "transaction">> \in Made /\ PlaceOf(<<x, "transaction">>) = 5
       /\ <<x, "charges">> \in Made /\ PlaceOf(<<x, "charges">>) = 5
       /\ <<x, "event">> \in Made /\ PlaceOf(<<x, "event">>) = 6
BY IdsApart DEF AllIds, Made, Kinds, PlaceOf, Place

LEMMA NoneApart == None \notin Jobs /\ None \notin Made /\ None \notin AllIds
BY IdsApart DEF Made, Kinds, AllIds

LEMMA RowFacts ==
  ASSUME NEW r \in Rows
  PROVE  /\ r.id \in AllIds /\ r.id # None /\ r.table = Tables[PlaceOf(r.id)]
         /\ r.parent \in AllIds \cup {None}
         /\ PlaceOf(r.id) \in 1..6
         /\ r.table = "job" <=> PlaceOf(r.id) = 1
         /\ r.table = "invoice" <=> PlaceOf(r.id) = 2
         /\ r.table = "customer" <=> PlaceOf(r.id) = 3
         /\ r.table = "commitment" <=> PlaceOf(r.id) = 4
         /\ r.table = "event" <=> PlaceOf(r.id) = 6
         /\ r.table = "invoice" => r.name \in Jobs \cup {None}
         /\ r.table \in {"commitment", "event"} => r.parent = None
<1>1. /\ r.id \in AllIds /\ r.id # None /\ r.table = Tables[PlaceOf(r.id)]
      /\ r.parent \in AllIds \cup {None}
      /\ r.table = "invoice" => r.name \in Jobs \cup {None}
      /\ r.table \in {"commitment", "event"} => r.parent = None
  BY NoneApart DEF Rows, Records
<1>2. PlaceOf(r.id) \in 1..6
  BY <1>1, Places
<1> QED
  BY <1>1, <1>2, Orders

LEMMA NewRow ==
  ASSUME NEW id \in AllIds, NEW name \in Names, NEW parent \in AllIds \cup {None},
         NEW table, table = Tables[PlaceOf(id)],
         table = "invoice" => name \in Jobs \cup {None},
         table \in {"commitment", "event"} => parent = None
  PROVE  LET r == Row(table, id, name, parent)
         IN r \in Rows /\ r.table = table /\ r.id = id /\ r.name = name /\ r.parent = parent
<1>1. PlaceOf(id) \in 1..6
  BY Places
<1>2. table \in {"job", "invoice", "customer", "commitment", "transaction", "event"}
  BY <1>1, Orders
<1> QED
  BY <1>2 DEF Row, Rows, Records

LEMMA TakenIs ==
  ASSUME NEW x \in Sessions
  PROVE  /\ \A id : id \in Taken(x) <=> \E y \in Sessions \ {x} : id \in Held(session[y])
         /\ \A id : id \in Referred(x) <=>
              \E y \in Sessions \ {x} : \E r \in session[y].adds : r.parent = id
BY DEF Taken, Referred, Held

\* A transaction is replaced while the rows stay: it keeps IInv if the new one is sound, and
\* neither it nor another now holds what the other holds or refers to.
LEMMA SessionKeeps ==
  ASSUME IInv, NEW x \in Sessions, session[x].pc # "ended", NEW s \in Transactions,
         Goto(x, s), Sound(x, s), Held(s) \cap Taken(x) = {}, Held(s) \cap Referred(x) = {},
         \A r \in s.adds : r.parent \notin Taken(x)
  PROVE  IInv'
<1>1. /\ session \in [Sessions -> Transactions] /\ session' \in [Sessions -> Transactions]
      /\ \A y \in Sessions : session'[y] = IF y = x THEN s ELSE session[y]
      /\ UNCHANGED <<rows, posted>>
  BY DEF IInv, Goto
<1>2. Spent \subseteq Spent'
  BY <1>1 DEF Spent, Made
<1>3. Stored' /\ InvoicesKeepJobs'
  BY <1>1, <1>2 DEF IInv, Stored, InvoicesKeepJobs
<1>4. Apart'
  BY <1>1, TakenIs DEF IInv, Apart
<1>5. ASSUME NEW y \in Sessions PROVE Sound(y, session[y])'
  <2> DEFINE t == IF y = x THEN s ELSE session[y]
  <2>1. Sound(y, t)
    BY DEF IInv
  <2>2. session'[y] = t
    BY <1>1
  <2> HIDE DEF t
  <2>3. /\ Inserts(y, session[y])' /\ Updates(session[y])' /\ Stage(y, session[y])'
    BY <1>1, <2>1, <2>2 DEF Sound, Inserts, Updates, Stage, Purging
  <2>4. Sweeps(session[y])'
    BY <1>1, <1>2, <2>1, <2>2 DEF Sound, Sweeps, Swept
  <2> QED BY <2>3, <2>4 DEF Sound
<1> QED
  BY <1>1, <1>3, <1>4, <1>5 DEF IInv
-------------------------------------------------------------------------------
(* Transactions that hold nothing yet, or nothing any more *)

Empty(s) ==
  /\ s.adds = {} /\ s.sets = {} /\ s.todo = {} /\ s.gone = {} /\ s.old = {} /\ s.next = 1

LEMMA EmptySound ==
  ASSUME NEW x \in Sessions, NEW s \in Transactions, Empty(s),
         s.pc \in {"idle", "ended", "pick", "new_customer", "recompute", "invoice"},
         s.pc = "invoice" => s.customer \in AllIds /\ PlaceOf(s.customer) = 3
  PROVE  Sound(x, s) /\ Held(s) = {} /\ s.adds = {}
<1>1. Inserts(x, s) /\ Updates(s) /\ Stage(x, s)
  BY DEF Empty, Inserts, Updates, Stage, Purging, Unique
<1>2. Ids(s.old) = {} /\ Ids(s.gone) = {} /\ Ids(s.old \cup s.gone) = {}
  BY DEF Empty, Ids
<1>3. Sweeps(s)
  BY <1>2 DEF Sweeps
<1>4. Held(s) = {} /\ s.adds = {}
  BY DEF Held, Empty, Ids
<1> QED
  BY <1>1, <1>3, <1>4 DEF Sound

LEMMA EmptyKeeps ==
  ASSUME IInv, NEW x \in Sessions, session[x].pc # "ended", NEW s \in Transactions,
         Goto(x, s), Empty(s),
         s.pc \in {"idle", "ended", "pick", "new_customer", "recompute", "invoice"},
         s.pc = "invoice" => s.customer \in AllIds /\ PlaceOf(s.customer) = 3
  PROVE  IInv'
BY EmptySound, SessionKeeps

LEMMA NewIs ==
  /\ NewSession \in Transactions /\ Empty(NewSession) /\ NewSession.pc = "idle"
  /\ NewSession.job = None /\ NewSession.customer = None
BY DEF NewSession, Transactions, Empty

LEMMA EndedIs == Ended \in Transactions /\ Empty(Ended) /\ Ended.pc = "ended"
<1>1. Ended \in Transactions /\ Ended.pc = "ended"
  BY NewIs DEF Ended, Transactions
<1>2. Empty(Ended)
  BY NewIs DEF Ended, Empty, Transactions
<1> QED BY <1>1, <1>2

\* A transaction that fails, at any point.
LEMMA EndingKeeps ==
  ASSUME IInv, NEW x \in Sessions, session[x].pc # "ended", Goto(x, Ended)
  PROVE  IInv'
BY EndedIs, EmptyKeeps

LEMMA RollbackKeeps == ASSUME IInv, NEW x \in Sessions, Rollback(x) PROVE IInv'
BY EndingKeeps DEF Rollback

LEMMA InitHolds == Init => IInv
<1> SUFFICES ASSUME Init PROVE IInv
  OBVIOUS
<1>1. \A x \in Sessions : session[x] = NewSession
  BY DEF Init
<1>2. session \in [Sessions -> Transactions] /\ posted \subseteq Jobs
  BY NewIs DEF Init
<1>3. Stored /\ InvoicesKeepJobs
  BY DEF Init, Stored, Unique, Ids, InvoicesKeepJobs
<1>4. \A x \in Sessions :
        Sound(x, session[x]) /\ Held(session[x]) = {} /\ session[x].adds = {}
  BY <1>1, NewIs, EmptySound
<1>5. Apart
  BY <1>4 DEF Apart
<1> QED
  BY <1>2, <1>3, <1>4, <1>5 DEF IInv

LEMMA StoredRows ==
  ASSUME IInv, NEW r \in rows
  PROVE  r \in Rows /\ r.id \in AllIds /\ r.id \in Spent /\ r.id \in Ids(rows)
BY RowFacts DEF IInv, Stored, Ids

\* The customers on offer are rows of their table.
LEMMA CustomerRows ==
  ASSUME IInv, NEW c \in Named(rows, "customer", Name)
  PROVE  c.id \in AllIds /\ PlaceOf(c.id) = 3
<1>1. c \in rows /\ c.table = "customer"
  BY DEF Named
<1> QED
  BY <1>1, StoredRows, RowFacts

LEMMA ReadJobKeeps == ASSUME IInv, NEW x \in Sessions, NEW j \in Jobs, ReadJob(x, j) PROVE IInv'
<1> DEFINE s == [NewSession EXCEPT !.pc = "pick", !.job = j]
<1>1. s \in Transactions /\ s.pc = "pick" /\ Empty(s)
  BY NewIs DEF Transactions, Empty
<1>2. session[x].pc # "ended" /\ Goto(x, s)
  BY NewIs DEF ReadJob, Begin
<1> QED
  BY <1>1, <1>2, EmptyKeeps

LEMMA ReadTransactionsKeeps ==
  ASSUME IInv, NEW x \in Sessions, ReadTransactions(x) PROVE IInv'
<1> DEFINE s == [NewSession EXCEPT !.pc = "recompute"]
<1>1. s \in Transactions /\ s.pc = "recompute" /\ Empty(s)
  BY NewIs DEF Transactions, Empty
<1>2. session[x].pc # "ended" /\ Goto(x, s)
  BY NewIs DEF ReadTransactions, Begin
<1> QED
  BY <1>1, <1>2, EmptyKeeps

LEMMA PickCustomerKeeps == ASSUME IInv, NEW x \in Sessions, PickCustomer(x) PROVE IInv'
<1>1. session[x] \in Transactions /\ session[x].pc = "pick" /\ Stage(x, session[x])
  BY DEF PickCustomer, IInv, Sound
<1>2. Empty(session[x])
  BY <1>1 DEF Stage, Purging, Empty, Transactions
<1>3. ASSUME NEW c \in Named(rows, "customer", Name),
             Goto(x, [session[x] EXCEPT !.pc = "invoice", !.customer = c.id])
      PROVE  IInv'
  <2> DEFINE s == [session[x] EXCEPT !.pc = "invoice", !.customer = c.id]
  <2>1. c.id \in AllIds /\ PlaceOf(c.id) = 3
    BY CustomerRows
  <2>2. s \in Transactions /\ s.pc = "invoice" /\ s.customer = c.id /\ Empty(s)
    BY <1>1, <1>2, <2>1 DEF Transactions, Empty
  <2> QED BY <1>1, <1>3, <2>1, <2>2, EmptyKeeps
<1>4. CASE Goto(x, [session[x] EXCEPT !.pc = "new_customer"])
  <2> DEFINE s == [session[x] EXCEPT !.pc = "new_customer"]
  <2>1. s \in Transactions /\ s.pc = "new_customer" /\ Empty(s)
    BY <1>1, <1>2 DEF Transactions, Empty
  <2> QED BY <1>1, <1>4, <2>1, EmptyKeeps
<1> QED
  BY <1>3, <1>4 DEF PickCustomer

LEMMA ImportInvoiceKeeps == ASSUME IInv, NEW x \in Sessions, ImportInvoice(x) PROVE IInv'
<1> DEFINE found == Named(rows, "customer", Name)
           pick == (CHOOSE c \in found : TRUE).id
           new == [NewSession EXCEPT !.pc = "new_customer"]
           old == [NewSession EXCEPT !.pc = "invoice", !.customer = pick]
           n == Cardinality(found)
           none == found = {}
<1>1. session[x].pc # "ended" /\ Goto(x, CASE none -> new [] n = 1 -> old [] OTHER -> Ended)
  BY NewIs DEF ImportInvoice, Begin
<1>2. none => n # 1
  BY FS_EmptySet
<1>3. ~none => pick \in AllIds /\ PlaceOf(pick) = 3
  <2>1. ASSUME ~none PROVE (CHOOSE c \in found : TRUE) \in found
    BY <2>1
  <2> QED BY <2>1, CustomerRows
<1>4. new \in Transactions /\ new.pc = "new_customer" /\ Empty(new)
  BY NewIs DEF Transactions, Empty
<1>5. ~none =>
        old \in Transactions /\ old.pc = "invoice" /\ old.customer = pick /\ Empty(old)
  BY <1>3, NewIs DEF Transactions, Empty
<1> HIDE DEF found, pick, new, old, n, none
<1>6. CASE none
  <2>1. Goto(x, new)
    BY <1>1, <1>2, <1>6, Zenon
  <2> QED BY <1>1, <1>4, <2>1, EmptyKeeps
<1>7. CASE ~none /\ n = 1
  <2>1. Goto(x, old)
    BY <1>1, <1>7, Zenon
  <2> QED BY <1>1, <1>3, <1>5, <1>7, <2>1, EmptyKeeps
<1>8. CASE ~none /\ n # 1
  <2>1. Goto(x, Ended)
    BY <1>1, <1>8, Zenon
  <2> QED BY <1>1, <2>1, EndingKeeps
<1> QED
  BY <1>6, <1>7, <1>8
-------------------------------------------------------------------------------
(* Inserts and updates *)

\* A transaction that is no purge has nothing to sweep.
LEMMA NothingSwept ==
  ASSUME IInv, NEW s \in Transactions, s.next = 1, s.pc # "delete", s.old = {}, s.gone = {}
  PROVE  Sweeps(s)
<1>1. \A r \in rows : ~Swept(s, r.id)
  BY StoredRows, Places DEF Swept
<1>2. Ids(s.old \cup s.gone) = {}
  BY DEF Ids
<1> QED
  BY <1>1, <1>2 DEF Sweeps

\* What a transaction holds or refers to is apart from what the others hold.
LEMMA OwnAddsFree ==
  ASSUME IInv, NEW x \in Sessions
  PROVE  /\ \A r \in session[x].adds : r.parent \notin Taken(x)
         /\ Held(session[x]) \cap Taken(x) = {}
         /\ Held(session[x]) \cap Referred(x) = {}
BY TakenIs DEF IInv, Apart

LEMMA NothingHeldIsNone == ASSUME IInv, NEW x \in Sessions PROVE None \notin Taken(x)
<1>1. ASSUME NEW y \in Sessions PROVE None \notin Held(session[y])
  <2>1. session[y].gone \cup session[y].sets \subseteq Rows
    BY DEF IInv, Transactions
  <2> QED BY <2>1, RowFacts DEF Held, Ids
<1> QED
  BY <1>1, TakenIs

LEMMA ReferredAreCustomers ==
  ASSUME IInv, NEW x \in Sessions, NEW id \in Referred(x), id # None
  PROVE  PlaceOf(id) = 3
<1>1. PICK y \in Sessions \ {x} : \E r \in session[y].adds : r.parent = id
  BY TakenIs
<1>2. Inserts(y, session[y])
  BY DEF IInv, Sound
<1> QED
  BY <1>1, <1>2 DEF Inserts

LEMMA InsertCustomerKeeps ==
  ASSUME IInv, NEW x \in Sessions, InsertCustomer(x) PROVE IInv'
<1> DEFINE old == session[x]
           id == <<x, "customer">>
           r == Row("customer", id, Name, None)
           s == [old EXCEPT !.pc = "invoice", !.customer = id, !.adds = @ \cup {r}]
<1>1. old \in Transactions /\ old.pc = "new_customer" /\ Stage(x, old) /\ Goto(x, s)
  BY DEF InsertCustomer, IInv, Sound
<1>2. Empty(old)
  BY <1>1 DEF Stage, Purging, Empty, Transactions
<1>3. id \in Made /\ id \in AllIds /\ PlaceOf(id) = 3 /\ id[1] = x
  BY Places DEF AllIds
<1>4. r \in Rows /\ r.table = "customer" /\ r.id = id /\ r.parent = None
  BY <1>3, Orders, NewRow DEF Names
<1> HIDE DEF r, id
<1>5. /\ s \in Transactions /\ s.pc = "invoice" /\ s.customer = id /\ s.adds = {r}
      /\ s.sets = {} /\ s.todo = {} /\ s.gone = {} /\ s.old = {} /\ s.next = 1
  BY <1>1, <1>2, <1>3, <1>4 DEF Transactions, Empty
<1> HIDE DEF s, old
<1>6. Inserts(x, s) /\ Updates(s) /\ Stage(x, s)
  BY <1>3, <1>4, <1>5 DEF Inserts, Updates, Stage, Unique, Purging
<1>7. Sweeps(s)
  BY <1>5, NothingSwept
<1>8. Held(s) = {}
  BY <1>5 DEF Held, Ids
<1>9. None \notin Taken(x)
  BY NothingHeldIsNone
<1> QED
  BY <1>1, <1>4, <1>5, <1>6, <1>7, <1>8, <1>9, SessionKeeps DEF Sound, old

LEMMA InsertInvoiceKeeps ==
  ASSUME IInv, NEW x \in Sessions, InsertInvoice(x) PROVE IInv'
<1> DEFINE old == session[x]
           id == <<x, "invoice">>
           r == Row("invoice", id, old.job, old.customer)
           pc == IF old.job = None THEN "commit" ELSE "job"
           s == [old EXCEPT !.pc = pc, !.adds = @ \cup {r}]
<1>1. /\ old \in Transactions /\ old.pc = "invoice" /\ Stage(x, old) /\ Inserts(x, old)
      /\ old.customer \notin Taken(x)
  BY DEF InsertInvoice, IInv, Sound
<1>2. /\ old.sets = {} /\ old.todo = {} /\ old.gone = {} /\ old.old = {} /\ old.next = 1
      /\ old.customer \in AllIds /\ PlaceOf(old.customer) = 3 /\ old.job \in Jobs \cup {None}
      /\ \A q \in old.adds : PlaceOf(q.id) = 3
  BY <1>1 DEF Stage, Purging, Transactions
<1>3. CASE old.customer \notin Ids(rows \cup old.adds)
  BY <1>1, <1>3, EndingKeeps DEF InsertInvoice
<1>4. CASE old.customer \in Ids(rows \cup old.adds)
  <2>1. Goto(x, s)
    BY <1>4 DEF InsertInvoice
  <2>2. id \in Made /\ id \in AllIds /\ PlaceOf(id) = 2 /\ id[1] = x
    BY Places DEF AllIds
  <2>3. r \in Rows /\ r.table = "invoice" /\ r.id = id /\ r.name = old.job /\ r.parent = old.customer
    BY <1>2, <2>2, Orders, NewRow DEF Names
  <2> HIDE DEF r
  <2>4. /\ s \in Transactions /\ s.pc = pc /\ s.job = old.job /\ s.adds = old.adds \cup {r}
        /\ s.sets = {} /\ s.todo = {} /\ s.gone = {} /\ s.old = {} /\ s.next = 1
    BY <1>1, <1>2, <2>3 DEF Transactions
  <2> HIDE DEF s, id
  <2>5. Inserts(x, s)
    <3>1. Unique(s.adds)
      BY <1>1, <1>2, <2>2, <2>3, <2>4 DEF Unique, Inserts
    <3>2. Ids(rows \cup old.adds) \subseteq Ids(rows \cup s.adds)
      BY <2>4 DEF Ids
    <3>3. \A q \in old.adds : q.table # "invoice"
      BY <1>1, <1>2, RowFacts DEF Transactions
    <3>4. \A q \in old.adds :
            /\ q.id[1] = x /\ q.id \in Made
            /\ q.parent # None => PlaceOf(q.parent) = 3 /\ q.parent \in Ids(rows \cup s.adds)
      BY <1>1, <3>2 DEF Inserts
    <3>5. /\ r.id[1] = x /\ r.id \in Made
          /\ r.parent # None => PlaceOf(r.parent) = 3 /\ r.parent \in Ids(rows \cup s.adds)
          /\ r.name # None => r.name = s.job /\ s.pc = "job"
      BY <1>2, <1>4, <2>2, <2>3, <2>4, <3>2
    <3> QED BY <2>4, <3>1, <3>3, <3>4, <3>5 DEF Inserts
  <2>6. Updates(s)
    BY <2>4 DEF Updates, Unique
  <2>7. Stage(x, s)
    <3>1. id \in Ids(s.adds)
      BY <2>3, <2>4 DEF Ids
    <3>2. \A q \in s.adds : PlaceOf(q.id) # 6
      BY <1>2, <2>2, <2>3, <2>4
    <3> QED BY <1>2, <2>4, <3>1, <3>2 DEF Stage, Purging, id
  <2>8. Sweeps(s)
    BY <2>4, NothingSwept
  <2>9. Held(s) = {}
    BY <2>4 DEF Held, Ids
  <2>10. \A q \in s.adds : q.parent \notin Taken(x)
    BY <1>1, <2>3, <2>4, OwnAddsFree
  <2> HIDE DEF old, pc
  <2> QED BY <1>1, <2>1, <2>4, <2>5, <2>6, <2>7, <2>8, <2>9, <2>10, SessionKeeps DEF Sound, old
<1> QED
  BY <1>3, <1>4

LEMMA UpdateJobKeeps == ASSUME IInv, NEW x \in Sessions, UpdateJob(x) PROVE IInv'
<1> DEFINE old == session[x]
           id == <<x, "invoice">>
           r == Row("job", old.job, "confirmed", id)
           e == Row("event", <<x, "event">>, None, None)
           s == [old EXCEPT !.pc = "commit", !.adds = @ \cup {e}, !.sets = {r}]
<1>1. /\ old \in Transactions /\ old.pc = "job" /\ Stage(x, old) /\ Inserts(x, old)
      /\ old.job \notin Taken(x)
  BY DEF UpdateJob, IInv, Sound
<1>2. /\ old.todo = {} /\ old.gone = {} /\ old.old = {} /\ old.next = 1
      /\ old.job \in Jobs /\ id \in Ids(old.adds)
      /\ \A q \in old.adds : PlaceOf(q.id) # 6
  BY <1>1 DEF Stage, Purging, Transactions
<1>3. CASE old.job \notin Ids(rows)
  BY <1>1, <1>3, EndingKeeps DEF UpdateJob
<1>4. CASE old.job \in Ids(rows)
  <2>1. Goto(x, s)
    BY <1>4 DEF UpdateJob
  <2>2. id \in AllIds /\ old.job \in AllIds /\ PlaceOf(old.job) = 1
    BY <1>2, Places DEF AllIds
  <2>3. r \in Rows /\ r.id = old.job /\ r.parent = id
    BY <2>2, Orders, NewRow DEF Names
  <2>4. /\ e \in Rows /\ e.id \in Made /\ e.id[1] = x /\ PlaceOf(e.id) = 6
        /\ e.parent = None /\ e.table = "event"
    <3>1. /\ <<x, "event">> \in Made /\ <<x, "event">> \in AllIds
          /\ PlaceOf(<<x, "event">>) = 6 /\ <<x, "event">>[1] = x
      BY Places DEF AllIds
    <3> QED BY <3>1, Orders, NewRow DEF Names
  <2> HIDE DEF r, id, e
  <2>5. /\ s \in Transactions /\ s.pc = "commit" /\ s.job = old.job
        /\ s.adds = old.adds \cup {e}
        /\ s.sets = {r} /\ s.todo = {} /\ s.gone = {} /\ s.old = {} /\ s.next = 1
    BY <1>1, <1>2, <2>3, <2>4 DEF Transactions
  <2> HIDE DEF s
  <2>6. Ids(s.sets) = {old.job} /\ Ids(old.adds) \subseteq Ids(s.adds)
        /\ Ids(rows \cup old.adds) \subseteq Ids(rows \cup s.adds)
    BY <2>3, <2>5 DEF Ids
  <2>7. Inserts(x, s)
    <3>1. Unique(s.adds)
      BY <1>1, <1>2, <2>4, <2>5 DEF Inserts, Unique
    <3>2. ASSUME NEW q \in old.adds
          PROVE  /\ q.id[1] = x /\ q.id \in Made
                 /\ q.parent # None =>
                      PlaceOf(q.parent) = 3 /\ q.parent \in Ids(rows \cup s.adds)
                 /\ q.table = "invoice" /\ q.name # None => q.name = s.job
      BY <1>1, <2>5, <2>6 DEF Inserts
    <3> QED BY <2>4, <2>5, <2>6, <3>1, <3>2 DEF Inserts
  <2>8. Updates(s)
    BY <1>2, <1>4, <2>2, <2>3, <2>5, <2>6 DEF Updates, Unique
  <2>9. Stage(x, s)
    BY <2>5 DEF Stage, Purging
  <2>10. Sweeps(s)
    BY <2>5, NothingSwept
  <2>11. Held(s) = {old.job}
    BY <2>3, <2>5 DEF Held, Ids
  <2>12. old.job \notin Referred(x)
    BY <1>2, <2>2, NoneApart, ReferredAreCustomers
  <2>13. \A q \in s.adds : q.parent \notin Taken(x)
    BY <2>4, <2>5, OwnAddsFree, NothingHeldIsNone
  <2> HIDE DEF old
  <2>14. Held(s) \cap Taken(x) = {} /\ Held(s) \cap Referred(x) = {}
    BY <1>1, <2>11, <2>12
  <2> QED BY <1>1, <2>1, <2>5, <2>7, <2>8, <2>9, <2>10, <2>13, <2>14, SessionKeeps
          DEF Sound, old
<1> QED
  BY <1>3, <1>4

\* Whatever is held was stored once.
LEMMA HeldIsSpent == ASSUME IInv, NEW x \in Sessions PROVE Taken(x) \subseteq Spent
<1>1. ASSUME NEW y \in Sessions PROVE Held(session[y]) \subseteq Spent
  <2>1. Ids(session[y].gone) \subseteq Spent
    BY DEF IInv, Sound, Sweeps, Ids
  <2>2. Ids(session[y].sets) \subseteq Spent
    BY DEF IInv, Sound, Updates, Stored, Ids
  <2> QED BY <2>1, <2>2 DEF Held, Ids
<1> QED
  BY <1>1, TakenIs

\* The ids of a transaction that has not ended are unused.
LEMMA OwnUnspent ==
  ASSUME IInv, NEW x \in Sessions, session[x].pc # "ended", NEW kind \in Kinds
  PROVE  <<x, kind>> \in Made /\ <<x, kind>> \notin Spent
<1>1. <<x, kind>> \in Made /\ <<x, kind>> \notin Jobs
  BY IdsApart DEF Made, Kinds
<1> QED
  BY <1>1 DEF Spent, IInv

\* A transaction that begins with all its inserts at once.
LEMMA AddingKeeps ==
  ASSUME IInv, NEW x \in Sessions, NEW s \in Transactions, session[x].pc # "ended", Goto(x, s),
         s.pc = "commit", s.sets = {}, s.todo = {}, s.gone = {}, s.old = {}, s.next = 1,
         Unique(s.adds),
         \A r \in s.adds :
           /\ r.id[1] = x /\ r.id \in Made
           /\ r.parent \in {None, <<x, "customer">>} /\ r.parent \in Ids(s.adds) \cup {None}
           /\ r.table = "invoice" => r.name = None
  PROVE  IInv'
<1>1. Ids(s.adds) \subseteq Ids(rows \cup s.adds)
  BY DEF Ids
<1>2. Inserts(x, s)
  BY <1>1, Places DEF Inserts
<1>3. Updates(s) /\ Stage(x, s)
  BY DEF Updates, Stage, Purging, Unique
<1>4. Sweeps(s)
  BY NothingSwept
<1>5. Held(s) = {}
  BY DEF Held, Ids
<1>6. None \notin Taken(x) /\ <<x, "customer">> \notin Taken(x)
  BY NothingHeldIsNone, HeldIsSpent, OwnUnspent DEF Kinds
<1> QED
  BY <1>2, <1>3, <1>4, <1>5, <1>6, SessionKeeps DEF Sound

LEMMA SampleRows ==
  ASSUME NEW x \in Sessions
  PROVE  /\ Sample(x) \subseteq Rows /\ Unique(Sample(x))
         /\ \A r \in Sample(x) :
              /\ r.id[1] = x /\ r.id \in Made
              /\ r.parent \in {None, <<x, "customer">>}
              /\ r.parent \in Ids(Sample(x)) \cup {None}
              /\ r.table = "invoice" => r.name = None
<1> DEFINE c == Row("customer", <<x, "customer">>, Name, None)
           i == Row("invoice", <<x, "invoice">>, None, <<x, "customer">>)
           t == Row("transaction", <<x, "transaction">>, Merchant, None)
           m == Row("commitment", <<x, "commitment">>, Merchant, None)
<1> DEFINE ci == <<x, "customer">>
           ii == <<x, "invoice">>
           ti == <<x, "transaction">>
           mi == <<x, "commitment">>
<1>1. /\ {ci, ii, ti, mi} \subseteq Made /\ {ci, ii, ti, mi} \subseteq AllIds
      /\ ci[1] = x /\ ii[1] = x /\ ti[1] = x /\ mi[1] = x
      /\ Tables[PlaceOf(ci)] = "customer" /\ Tables[PlaceOf(ii)] = "invoice"
      /\ Tables[PlaceOf(ti)] = "transaction" /\ Tables[PlaceOf(mi)] = "commitment"
      /\ ci # ii /\ ci # ti /\ ci # mi /\ ii # ti /\ ii # mi /\ ti # mi
  BY Places, Orders DEF AllIds
<1>2. {Name, Merchant, None} \subseteq Names
  BY DEF Names
<1>3. Sample(x) = {c, i, t, m}
  BY DEF Sample
<1> HIDE DEF ci, ii, ti, mi
<1>4. c \in Rows /\ c.id = ci /\ c.parent = None /\ c.table = "customer"
  BY <1>1, <1>2, NewRow DEF ci
<1>5. i \in Rows /\ i.id = ii /\ i.parent = ci /\ i.name = None /\ i.table = "invoice"
  BY <1>1, <1>2, NewRow DEF ii, ci
<1>6. t \in Rows /\ t.id = ti /\ t.parent = None /\ t.table = "transaction"
  BY <1>1, <1>2, NewRow DEF ti
<1>7. m \in Rows /\ m.id = mi /\ m.parent = None /\ m.table = "commitment"
  BY <1>1, <1>2, NewRow DEF mi
<1> HIDE DEF c, i, t, m
<1>8. Unique(Sample(x))
  BY <1>1, <1>3, <1>4, <1>5, <1>6, <1>7 DEF Unique
<1>9. ci \in Ids(Sample(x))
  BY <1>3, <1>4 DEF Ids
<1>10. ASSUME NEW r \in Sample(x)
       PROVE  /\ r \in Rows /\ r.id[1] = x /\ r.id \in Made /\ r.parent \in {None, ci}
              /\ r.parent \in Ids(Sample(x)) \cup {None}
              /\ r.table = "invoice" => r.name = None
  BY <1>1, <1>3, <1>4, <1>5, <1>6, <1>7, <1>9
<1> QED
  BY <1>8, <1>10 DEF ci

LEMMA SeedSampleKeeps == ASSUME IInv, NEW x \in Sessions, SeedSample(x) PROVE IInv'
<1> DEFINE adds == Sample(x)
           s == [NewSession EXCEPT !.pc = "commit", !.adds = adds]
<1>1. adds \subseteq Rows
  BY SampleRows
<1>2. session[x].pc # "ended" /\ Goto(x, s)
  BY NewIs DEF SeedSample, Begin
<1> HIDE DEF adds
<1>3. /\ s \in Transactions /\ s.pc = "commit" /\ s.adds = adds /\ s.sets = {} /\ s.todo = {}
      /\ s.gone = {} /\ s.old = {} /\ s.next = 1
  BY <1>1, NewIs DEF Transactions, Empty
<1> HIDE DEF s
<1> QED
  BY <1>2, <1>3, SampleRows, AddingKeeps DEF adds

\* A transaction that has decided to insert one row without a parent.
LEMMA AddingOneKeeps ==
  ASSUME IInv, NEW x \in Sessions, NEW kind \in {"charges", "commitment"},
         NEW table \in {"transaction", "commitment"}, NEW old \in Transactions, Empty(old),
         table = Tables[PlaceOf(<<x, kind>>)], session[x].pc # "ended",
         Goto(x, [old EXCEPT !.pc = "commit", !.adds = {Row(table, <<x, kind>>, Merchant, None)}])
  PROVE  IInv'
<1> DEFINE r == Row(table, <<x, kind>>, Merchant, None)
           s == [old EXCEPT !.pc = "commit", !.adds = {r}]
<1>1. <<x, kind>> \in Made /\ <<x, kind>> \in AllIds
  BY DEF Made, Kinds, AllIds
<1>2. r \in Rows /\ r.id = <<x, kind>> /\ r.parent = None /\ r.table # "invoice"
  <2>1. Merchant \in Names /\ None \in AllIds \cup {None}
    BY DEF Names
  <2>2. table # "invoice"
    OBVIOUS
  <2> QED BY <1>1, <2>1, <2>2, NewRow
<1> HIDE DEF r
<1>3. /\ s \in Transactions /\ s.pc = "commit" /\ s.adds = {r} /\ s.sets = {} /\ s.todo = {}
      /\ s.gone = {} /\ s.old = {} /\ s.next = 1
  BY <1>2 DEF Transactions, Empty
<1>4. Goto(x, s)
  BY DEF r
<1> HIDE DEF s
<1>5. Unique(s.adds)
  BY <1>3 DEF Unique
<1>6. <<x, kind>>[1] = x
  OBVIOUS
<1>7. \A q \in s.adds :
        /\ q.id[1] = x /\ q.id \in Made
        /\ q.parent \in {None, <<x, "customer">>} /\ q.parent \in Ids(s.adds) \cup {None}
        /\ q.table = "invoice" => q.name = None
  BY <1>1, <1>2, <1>3, <1>6
<1> QED
  BY <1>3, <1>4, <1>5, <1>7, AddingKeeps

LEMMA ImportChargesKeeps == ASSUME IInv, NEW x \in Sessions, ImportCharges(x) PROVE IInv'
<1>1. Tables[PlaceOf(<<x, "charges">>)] = "transaction"
  BY Places, Orders
<1>2. /\ session[x].pc # "ended"
      /\ Goto(x, [NewSession EXCEPT !.pc = "commit",
                            !.adds = {Row("transaction", <<x, "charges">>, Merchant, None)}])
  BY NewIs DEF ImportCharges, Begin
<1> QED
  BY <1>1, <1>2, NewIs, AddingOneKeeps

LEMMA UpsertCommitmentKeeps ==
  ASSUME IInv, NEW x \in Sessions, UpsertCommitment(x) PROVE IInv'
<1> DEFINE found == Named(rows, "commitment", Merchant)
           old == session[x]
           new == [old EXCEPT !.pc = "commit",
                              !.adds = {Row("commitment", <<x, "commitment">>, Merchant, None)}]
           change == [old EXCEPT !.pc = "flush", !.todo = found]
           n == Cardinality(found)
           none == found = {}
<1>1. /\ old \in Transactions /\ old.pc = "recompute" /\ Stage(x, old)
      /\ Goto(x, CASE none -> new [] n = 1 -> change [] OTHER -> Ended)
  BY DEF UpsertCommitment, IInv, Sound
<1>2. Empty(old)
  BY <1>1 DEF Stage, Purging, Empty, Transactions
<1>3. none => n # 1
  BY FS_EmptySet
<1>4. found \subseteq Rows /\ \A r \in found : PlaceOf(r.id) = 4
  <2>1. \A r \in found : r \in rows /\ r.table = "commitment"
    BY DEF Named
  <2> QED BY <2>1, StoredRows, RowFacts
<1>5. /\ change \in Transactions /\ change.pc = "flush" /\ change.adds = {} /\ change.sets = {}
      /\ change.gone = {} /\ change.old = {} /\ change.next = 1 /\ change.todo = found
  BY <1>1, <1>2, <1>4 DEF Transactions, Empty
<1> HIDE DEF n, none, change, new, found
<1>6. CASE none
  <2>1. Goto(x, new)
    BY <1>1, <1>3, <1>6, Zenon
  <2>2. Tables[PlaceOf(<<x, "commitment">>)] = "commitment"
    BY Places, Orders
  <2> QED BY <1>1, <1>2, <2>1, <2>2, AddingOneKeeps DEF new
<1>7. CASE ~none /\ n = 1
  <2>1. Goto(x, change)
    BY <1>1, <1>7, Zenon
  <2>2. Inserts(x, change) /\ Updates(change) /\ Stage(x, change)
    BY <1>4, <1>5 DEF Inserts, Updates, Stage, Purging, Unique
  <2>3. Sweeps(change)
    BY <1>5, NothingSwept
  <2>4. Held(change) = {}
    BY <1>5 DEF Held, Ids
  <2> QED BY <1>1, <1>5, <2>1, <2>2, <2>3, <2>4, SessionKeeps DEF Sound
<1>8. CASE ~none /\ n # 1
  <2>1. Goto(x, Ended)
    BY <1>1, <1>8, Zenon
  <2> QED BY <1>1, <2>1, EndingKeeps
<1> QED
  BY <1>6, <1>7, <1>8

LEMMA FlushCommitmentKeeps ==
  ASSUME IInv, NEW x \in Sessions, FlushCommitment(x) PROVE IInv'
<1> DEFINE old == session[x]
           set == old.todo
           s == [old EXCEPT !.pc = "commit", !.todo = {}, !.sets = set]
<1>1. /\ old \in Transactions /\ old.pc = "flush" /\ Stage(x, old) /\ Ids(set) \cap Taken(x) = {}
  BY DEF FlushCommitment, IInv, Sound
<1>2. /\ old.adds = {} /\ old.gone = {} /\ old.old = {} /\ old.next = 1 /\ set \subseteq Rows
  BY <1>1 DEF Stage, Purging, Transactions
<1>3. CASE ~(set \subseteq rows)
  BY <1>1, <1>3, EndingKeeps DEF FlushCommitment
<1>4. CASE set \subseteq rows
  <2>1. Goto(x, s)
    BY <1>4 DEF FlushCommitment
  <2> HIDE DEF set
  <2>2. /\ s \in Transactions /\ s.pc = "commit" /\ s.adds = {} /\ s.sets = set /\ s.todo = {}
        /\ s.gone = {} /\ s.old = {} /\ s.next = 1
    BY <1>1, <1>2 DEF Transactions
  <2> HIDE DEF s
  <2>3. Unique(set)
    BY <1>4 DEF IInv, Stored, Unique
  <2>4. ASSUME NEW r \in set
        PROVE  PlaceOf(r.id) = 4 /\ r.id \in Ids(rows) /\ r.parent = None
    <3>1. PlaceOf(r.id) = 4
      BY <1>1 DEF Stage, set
    <3> QED BY <1>4, <3>1, StoredRows, RowFacts
  <2>5. Inserts(x, s) /\ Updates(s) /\ Stage(x, s)
    BY <2>2, <2>3, <2>4 DEF Inserts, Updates, Stage, Purging, Unique
  <2>6. Sweeps(s)
    BY <2>2, NothingSwept
  <2>7. Held(s) = Ids(set)
    BY <2>2 DEF Held, Ids
  <2>8. \A id \in Ids(set) : id # None /\ PlaceOf(id) # 3
    BY <1>4, <2>4, StoredRows, RowFacts DEF Ids
  <2>9. Held(s) \cap Referred(x) = {}
    BY <2>7, <2>8, ReferredAreCustomers
  <2> QED BY <1>1, <2>1, <2>2, <2>5, <2>6, <2>7, <2>9, SessionKeeps DEF Sound, set
<1> QED
  BY <1>3, <1>4
-------------------------------------------------------------------------------
(* The purge *)

LEMMA StartPurgeKeeps == ASSUME IInv, NEW x \in Sessions, StartPurge(x) PROVE IInv'
<1> DEFINE s == [NewSession EXCEPT !.pc = "purge", !.old = rows]
<1>1. rows \subseteq Rows /\ Ids(rows) \subseteq Spent
  BY DEF IInv, Stored
<1>2. session[x].pc # "ended" /\ Goto(x, s)
  BY NewIs DEF StartPurge, Begin
<1>3. /\ s \in Transactions /\ s.pc = "purge" /\ s.adds = {} /\ s.sets = {} /\ s.todo = {}
      /\ s.gone = {} /\ s.old = rows /\ s.next = 1
  BY <1>1, NewIs DEF Transactions, Empty
<1> HIDE DEF s
<1>4. Inserts(x, s) /\ Updates(s) /\ Stage(x, s)
  BY <1>3 DEF Inserts, Updates, Stage, Purging, Unique
<1>5. Sweeps(s)
  <2>1. \A r \in rows : ~Swept(s, r.id)
    BY <1>3, StoredRows, Places DEF Swept
  <2>2. s.old \cup s.gone = rows
    BY <1>3
  <2> QED BY <1>1, <2>1, <2>2 DEF Sweeps
<1>6. Held(s) = {}
  BY <1>3 DEF Held, Ids
<1> QED
  BY <1>2, <1>3, <1>4, <1>5, <1>6, SessionKeeps DEF Sound

LEMMA StartDeleteKeeps == ASSUME IInv, NEW x \in Sessions, StartDelete(x) PROVE IInv'
<1> DEFINE old == session[x]
           todo == {r \in rows : r.table = PurgeOrder[old.next]}
           s == [old EXCEPT !.pc = "delete", !.todo = todo]
<1>1. /\ old \in Transactions /\ old.pc = "purge" /\ old.next \in 1..5 /\ Goto(x, s)
      /\ Stage(x, old) /\ Sweeps(old)
  BY Orders DEF StartDelete, IInv, Sound, Transactions
<1>2. old.adds = {} /\ old.sets = {} /\ old.todo = {}
  BY <1>1 DEF Stage, Purging
<1>3. todo \subseteq Rows /\ todo \subseteq rows
  BY DEF IInv, Stored
<1>4. \A r \in rows : r \in todo <=> PlaceOf(r.id) = old.next
  <2>1. \A r \in rows : r.table = Tables[PlaceOf(r.id)] /\ PlaceOf(r.id) \in 1..6
    BY StoredRows, RowFacts
  <2>2. \A m \in 1..5, n \in 1..6 : PurgeOrder[m] = Tables[n] <=> m = n
    BY Orders
  <2>3. \A r \in rows : r.table = PurgeOrder[old.next] <=> PlaceOf(r.id) = old.next
    BY <1>1, <2>1, <2>2
  <2> QED BY <2>3
<1> HIDE DEF todo
<1>5. /\ s \in Transactions /\ s.pc = "delete" /\ s.adds = {} /\ s.sets = {} /\ s.todo = todo
      /\ s.gone = old.gone /\ s.old = old.old /\ s.next = old.next
  BY <1>1, <1>2, <1>3 DEF Transactions
<1> HIDE DEF s
<1>6. Inserts(x, s) /\ Updates(s) /\ Stage(x, s)
  BY <1>1, <1>3, <1>4, <1>5 DEF Inserts, Updates, Stage, Purging, Unique
<1>7. Sweeps(s)
  <2>1. ASSUME NEW r \in rows, Swept(s, r.id),
               r.id \in Ids(s.old) \/ (r.table = "invoice" /\ r.name \in Ids(s.gone))
        PROVE  r.id \in Ids(s.gone \cup s.todo)
    <3>1. CASE PlaceOf(r.id) = old.next
      BY <1>4, <1>5, <3>1 DEF Ids
    <3>2. CASE PlaceOf(r.id) # old.next
      <4>1. Swept(old, r.id)
        BY <1>5, <2>1, <3>2 DEF Swept
      <4>2. r.id \in Ids(old.gone \cup old.todo)
        BY <1>1, <1>5, <2>1, <4>1 DEF Sweeps
      <4> QED BY <1>2, <1>5, <4>2 DEF Ids
    <3> QED BY <3>1, <3>2
  <2> QED BY <1>1, <1>5, <2>1 DEF Sweeps
<1>8. Held(s) = Held(old) /\ s.adds = {}
  BY <1>2, <1>5 DEF Held
<1> QED
  BY <1>1, <1>5, <1>6, <1>7, <1>8, OwnAddsFree, SessionKeeps DEF Sound

LEMMA DeleteRowKeeps ==
  ASSUME IInv, NEW x \in Sessions, NEW r \in session[x].todo, DeleteRow(x, r)
  PROVE  IInv'
<1> DEFINE old == session[x]
           hit == {q \in rows : q.id = r.id}
           s == [old EXCEPT !.todo = @ \ {r}, !.gone = @ \cup hit]
<1>1. /\ old \in Transactions /\ old.pc = "delete" /\ Goto(x, s)
      /\ Stage(x, old) /\ Sweeps(old) /\ r.id \notin Taken(x) \cup Referred(x)
  BY DEF DeleteRow, IInv, Sound
<1>2. /\ old.adds = {} /\ old.sets = {} /\ PlaceOf(r.id) = old.next /\ r \in Rows
      /\ old.next \in 1..6
  BY <1>1 DEF Stage, Purging, Transactions
<1>3. hit \subseteq Rows /\ hit \subseteq rows /\ Ids(hit) \subseteq {r.id}
      /\ Ids(hit) \subseteq Spent
  BY DEF IInv, Stored, Ids
<1>4. \A q \in rows : q.id = r.id => q \in hit
  OBVIOUS
<1> HIDE DEF hit
<1>5. /\ s \in Transactions /\ s.pc = "delete" /\ s.adds = {} /\ s.sets = {}
      /\ s.todo = old.todo \ {r}
      /\ s.gone = old.gone \cup hit /\ s.old = old.old /\ s.next = old.next
  BY <1>1, <1>2, <1>3 DEF Transactions
<1> HIDE DEF s
<1>6. Inserts(x, s) /\ Updates(s) /\ Stage(x, s)
  <2>1. old.next # 6
    BY <1>1 DEF Stage, Purging
  <2>2. \A q \in hit : PlaceOf(q.id) # 6
    BY <1>2, <1>3, <2>1 DEF Ids
  <2> QED BY <1>1, <1>5, <2>2 DEF Inserts, Updates, Stage, Purging, Unique
<1>7. Sweeps(s)
  <2>1. Ids(s.old \cup s.gone) \subseteq Spent
    BY <1>1, <1>3, <1>5 DEF Sweeps, Ids
  <2>2. ASSUME NEW q \in rows, Swept(s, q.id),
               q.id \in Ids(s.old) \/ (q.table = "invoice" /\ q.name \in Ids(s.gone))
        PROVE  q.id \in Ids(s.gone \cup s.todo)
    <3>1. Swept(old, q.id)
      BY <1>1, <1>5, <2>2 DEF Swept
    <3>2. CASE q.id \in Ids(old.old) \/ (q.table = "invoice" /\ q.name \in Ids(old.gone))
      <4>1. q.id \in Ids(old.gone \cup old.todo)
        BY <1>1, <3>1, <3>2 DEF Sweeps
      <4>2. CASE q.id = r.id
        BY <1>4, <1>5, <4>2 DEF Ids
      <4>3. CASE q.id # r.id
        BY <1>5, <4>1, <4>3 DEF Ids
      <4> QED BY <4>2, <4>3
    <3>3. CASE q.table = "invoice" /\ q.name \in Ids(hit)
      <4>1. q.name = r.id
        BY <1>3, <3>3
      <4>2. q.name \in Jobs /\ PlaceOf(q.id) = 2
        BY <1>2, <3>3, <4>1, StoredRows, RowFacts
      <4>3. old.next = 1
        BY <1>2, <4>1, <4>2, Places
      <4> QED BY <3>1, <4>2, <4>3 DEF Swept
    <3> QED BY <1>5, <2>2, <3>2, <3>3 DEF Ids
  <2> QED BY <2>1, <2>2 DEF Sweeps
<1>8. \A id \in Held(s) : id \in Held(old) \/ id = r.id
  BY <1>2, <1>3, <1>5 DEF Held, Ids
<1>9. Held(s) \cap Taken(x) = {} /\ Held(s) \cap Referred(x) = {}
  BY <1>1, <1>8, OwnAddsFree
<1> QED
  BY <1>1, <1>5, <1>6, <1>7, <1>9, SessionKeeps DEF Sound

LEMMA EndDeleteKeeps == ASSUME IInv, NEW x \in Sessions, EndDelete(x) PROVE IInv'
<1> DEFINE old == session[x]
           next == old.next + 1
           pc == IF next > 5 THEN "commit" ELSE "purge"
           s == [old EXCEPT !.next = next, !.pc = pc]
<1>1. /\ old \in Transactions /\ old.pc = "delete" /\ old.todo = {} /\ Goto(x, s)
      /\ Stage(x, old) /\ Sweeps(old)
  BY Orders DEF EndDelete, IInv, Sound
<1>2. /\ old.adds = {} /\ old.sets = {} /\ old.next \in 1..5
  BY <1>1 DEF Stage, Purging, Transactions
<1>3. /\ next \in 1..6 /\ next > 1 /\ pc \in {"commit", "purge"} /\ (pc = "commit" <=> next = 6)
      /\ pc \in {"idle", "ended", "pick", "new_customer", "invoice", "job", "recompute", "flush",
                "purge", "delete", "commit"}
  BY <1>2
<1>4. \A id : Swept(old, id) \/ ~(PlaceOf(id) < next) \/ PlaceOf(id) \notin 1..6
  BY <1>1, <1>2 DEF Swept
<1> HIDE DEF next, pc
<1>5. /\ s \in Transactions /\ s.pc = pc /\ s.adds = {} /\ s.sets = {} /\ s.todo = {}
      /\ s.gone = old.gone /\ s.old = old.old /\ s.next = next
  BY <1>1, <1>2, <1>3 DEF Transactions
<1> HIDE DEF s
<1>6. Inserts(x, s) /\ Updates(s) /\ Stage(x, s)
  <2>1. \A r \in s.gone : PlaceOf(r.id) # 6
    BY <1>1, <1>5 DEF Stage
  <2> QED BY <1>3, <1>5, <2>1 DEF Inserts, Updates, Stage, Purging, Unique
<1>7. Sweeps(s)
  <2>1. \A r \in rows : Swept(s, r.id) => Swept(old, r.id)
    BY <1>3, <1>4, <1>5, StoredRows, Places DEF Swept
  <2>2. s.gone \cup s.todo = old.gone \cup old.todo
    BY <1>1, <1>5
  <2> QED BY <1>1, <1>5, <2>1, <2>2 DEF Sweeps
<1>8. Held(s) = Held(old) /\ s.adds = {}
  BY <1>2, <1>5 DEF Held
<1> QED
  BY <1>1, <1>5, <1>6, <1>7, <1>8, OwnAddsFree, SessionKeeps DEF Sound
-------------------------------------------------------------------------------
(* The commit *)

\* The ids a commit deletes: what the transaction holds, and the invoices of customers.
Deleted(s) ==
  Ids(s.gone \cup {r \in rows : r.table = "invoice" /\ r.parent \in Ids(s.gone)})

LEMMA DeletedIs ==
  ASSUME IInv, NEW s \in Transactions
  PROVE  /\ \A id \in Deleted(s) : id # None /\ id \in AllIds
         /\ \A id \in Deleted(s) : PlaceOf(id) # 2 => id \in Ids(s.gone)
         /\ Ids(s.gone) \subseteq Deleted(s)
         /\ s.gone = {} => Deleted(s) = {}
<1>1. s.gone \subseteq Rows
  BY DEF Transactions
<1>2. \A r \in s.gone : r.id # None /\ r.id \in AllIds
  BY <1>1, RowFacts
<1>3. \A r \in rows : /\ r.id # None /\ r.id \in AllIds
                      /\ r.table = "invoice" => PlaceOf(r.id) = 2
  BY StoredRows, RowFacts
<1> QED
  BY <1>2, <1>3 DEF Deleted, Ids

\* A committed row is one that was there and stays, perhaps without its parent, or one that
\* the transaction updated or inserted.
LEMMA CommittedRow ==
  ASSUME IInv, NEW x \in Sessions, Commit(x), NEW q \in rows'
  PROVE  \/ \E r \in rows : /\ r.id \notin Deleted(session[x]) \cup Ids(session[x].sets)
                            /\ q \in Rows /\ q.id = r.id /\ q.table = r.table /\ q.name = r.name
                            /\ r.parent \in Deleted(session[x]) => q.parent = None
                            /\ r.parent \notin Deleted(session[x]) => q = r
         \/ q \in session[x].sets
         \/ q \in session[x].adds
<1> DEFINE s == session[x]
           kept == {r \in rows : r.id \notin Deleted(s) \cup Ids(s.sets)}
<1>1. q \in {IF r.parent \in Deleted(s) THEN [r EXCEPT !.parent = None] ELSE r : r \in kept}
            \cup s.sets \cup s.adds
  BY DEF Commit, Committed, Deleted
<1>2. ASSUME NEW r \in kept,
             q = IF r.parent \in Deleted(s) THEN [r EXCEPT !.parent = None] ELSE r
      PROVE  /\ q \in Rows /\ q.id = r.id /\ q.table = r.table /\ q.name = r.name
             /\ r.parent \in Deleted(s) => q.parent = None
             /\ r.parent \notin Deleted(s) => q = r
  <2>1. r \in Rows
    BY StoredRows
  <2> QED BY <1>2, <2>1 DEF Rows, Records
<1> QED
  BY <1>1, <1>2

LEMMA CommittedId ==
  ASSUME IInv, NEW x \in Sessions, Commit(x)
  PROVE  /\ \A r \in rows : r.id \notin Deleted(session[x]) => r.id \in Ids(rows')
         /\ Ids(session[x].sets) \subseteq Ids(rows')
         /\ Ids(session[x].adds) \subseteq Ids(rows')
<1> DEFINE s == session[x]
           kept == {r \in rows : r.id \notin Deleted(s) \cup Ids(s.sets)}
           moved == {IF r.parent \in Deleted(s) THEN [r EXCEPT !.parent = None] ELSE r : r \in kept}
<1>1. rows' = moved \cup s.sets \cup s.adds
  BY DEF Commit, Committed, Deleted
<1>2. ASSUME NEW r \in kept PROVE r.id \in Ids(moved)
  <2> DEFINE q == IF r.parent \in Deleted(s) THEN [r EXCEPT !.parent = None] ELSE r
  <2>1. q \in moved
    OBVIOUS
  <2>2. r \in Rows
    BY StoredRows
  <2>3. q.id = r.id
    BY <2>2 DEF Rows, Records
  <2> QED BY <2>1, <2>3 DEF Ids
<1> HIDE DEF moved
<1>3. Ids(moved) \subseteq Ids(rows') /\ Ids(s.sets) \subseteq Ids(rows')
      /\ Ids(s.adds) \subseteq Ids(rows')
  BY <1>1 DEF Ids
<1> QED
  BY <1>2, <1>3

\* The committing transaction: what it deletes is nothing, or all it has is deletes.
LEMMA Committing ==
  ASSUME IInv, NEW x \in Sessions, Commit(x)
  PROVE  LET s == session[x]
         IN /\ s \in Transactions /\ Inserts(x, s) /\ Updates(s) /\ Sweeps(s) /\ s.todo = {}
            /\ s.pc = "commit"
            /\ \/ Deleted(s) = {} /\ s.next # 6
               \/ /\ s.adds = {} /\ s.sets = {} /\ s.next = 6
                  /\ \A r \in rows : PlaceOf(r.id) # 6 => Swept(s, r.id)
            /\ \A r \in s.adds : r.id \in Made /\ r.id \notin Spent
            /\ \A r \in s.sets : r.id \in Ids(rows) /\ r.table # "invoice"
            /\ Ids(rows) \subseteq Spent
<1> DEFINE s == session[x]
<1>1. s \in Transactions /\ Inserts(x, s) /\ Updates(s) /\ Sweeps(s) /\ Stage(x, s)
      /\ s.pc = "commit" /\ s.todo = {} /\ Ids(rows) \subseteq Spent
  BY DEF Commit, IInv, Sound, Stage, Stored
<1>2. CASE Purging(s)
  <2>1. s.adds = {} /\ s.sets = {} /\ s.next = 6
    BY <1>1, <1>2 DEF Stage
  <2>2. \A r \in rows : PlaceOf(r.id) # 6 => Swept(s, r.id)
    BY <2>1, StoredRows, Places DEF Swept
  <2> QED BY <1>1, <2>1, <2>2
<1>3. CASE ~Purging(s)
  <2>1. s.gone = {} /\ s.next # 6
    BY <1>1, <1>3 DEF Stage, Purging
  <2>2. Deleted(s) = {}
    BY <1>1, <2>1, DeletedIs
  <2>3. \A r \in s.adds : r.id \in Made /\ r.id \notin Spent
    BY <1>1, IdsApart DEF Inserts, Spent, Made, Kinds, IInv
  <2>4. \A r \in s.sets : r.id \in Ids(rows) /\ r.table # "invoice"
    BY <1>1, RowFacts DEF Updates, Transactions
  <2> QED BY <1>1, <2>1, <2>2, <2>3, <2>4
<1> QED
  BY <1>2, <1>3

\* A row that nobody else deletes or that others refer to stays.
LEMMA OthersStay ==
  ASSUME IInv, NEW x \in Sessions, Commit(x), NEW id \in Ids(rows), PlaceOf(id) # 2,
         id \notin Held(session[x])
  PROVE  id \in Ids(rows')
<1>1. session[x] \in Transactions
  BY Committing
<1>2. id \notin Ids(session[x].gone)
  BY DEF Held, Ids
<1>3. id \notin Deleted(session[x])
  BY <1>1, <1>2, DeletedIs
<1> QED
  BY <1>3, CommittedId DEF Ids

LEMMA CommitStores == ASSUME IInv, NEW x \in Sessions, Commit(x) PROVE Stored' /\ InvoicesKeepJobs'
<1> DEFINE s == session[x]
           gone == Deleted(s)
<1>1. /\ s \in Transactions /\ Inserts(x, s) /\ Updates(s) /\ Sweeps(s)
      /\ s.todo = {} /\ s.pc = "commit" /\ Ids(rows) \subseteq Spent
      /\ \/ gone = {} /\ s.next # 6
         \/ /\ s.adds = {} /\ s.sets = {} /\ s.next = 6
            /\ \A r \in rows : PlaceOf(r.id) # 6 => Swept(s, r.id)
      /\ \A r \in s.adds : r.id \in Made /\ r.id \notin Spent
      /\ \A r \in s.sets : r.id \in Ids(rows) /\ r.table # "invoice"
  BY Committing
<1>2. \A q \in rows' :
        \/ \E r \in rows : /\ r.id \notin gone \cup Ids(s.sets)
                           /\ q \in Rows /\ q.id = r.id /\ q.table = r.table /\ q.name = r.name
                           /\ r.parent \in gone => q.parent = None
                           /\ r.parent \notin gone => q = r
        \/ q \in s.sets
        \/ q \in s.adds
  BY CommittedRow
<1>3. /\ \A r \in rows : r.id \notin gone => r.id \in Ids(rows')
      /\ Ids(s.sets) \subseteq Ids(rows') /\ Ids(s.adds) \subseteq Ids(rows')
  BY CommittedId
<1>4. /\ \A id \in gone : id # None /\ id \in AllIds
      /\ \A id \in gone : PlaceOf(id) # 2 => id \in Ids(s.gone)
      /\ s.gone = {} => gone = {}
      /\ Ids(s.gone) \subseteq gone
  BY <1>1, DeletedIs
<1> HIDE DEF gone
<1>5. Spent \subseteq Spent' /\ \A id \in Made : id[1] = x => id \in Spent'
  BY EndedIs DEF Commit, Spent, Made, IInv
<1> HIDE DEF s
<1>6. rows' \subseteq Rows
  BY <1>1, <1>2 DEF Transactions
<1>7. Unique(rows')
  <2>1. ASSUME NEW q \in rows', NEW p \in rows', q.id = p.id PROVE q = p
    <3>1. CASE q \in s.adds
      <4>1. p \in s.adds
        <5>1. p.id \notin Ids(rows)
          BY <1>1, <2>1, <3>1
        <5> QED BY <1>1, <1>2, <5>1 DEF Ids
      <4> QED BY <1>1, <2>1, <3>1, <4>1 DEF Inserts, Unique
    <3>2. CASE q \in s.sets
      <4>1. p \in s.sets
        <5>1. p.id \in Ids(rows) /\ p.id \in Ids(s.sets)
          BY <1>1, <2>1, <3>2 DEF Ids
        <5> QED BY <1>1, <1>2, <5>1
      <4> QED BY <1>1, <2>1, <3>2, <4>1 DEF Updates, Unique
    <3>3. CASE q \notin s.adds /\ q \notin s.sets
      <4>1. PICK r \in rows : /\ r.id \notin gone \cup Ids(s.sets) /\ q.id = r.id
                              /\ q.table = r.table /\ q.name = r.name /\ q \in Rows
                              /\ r.parent \in gone => q.parent = None
                              /\ r.parent \notin gone => q = r
        BY <1>2, <3>3
      <4>2. p \notin s.adds /\ p \notin s.sets
        BY <1>1, <2>1, <4>1 DEF Ids
      <4>3. PICK t \in rows : /\ t.id \notin gone \cup Ids(s.sets) /\ p.id = t.id
                              /\ p.table = t.table /\ p.name = t.name /\ p \in Rows
                              /\ t.parent \in gone => p.parent = None
                              /\ t.parent \notin gone => p = t
        BY <1>2, <4>2
      <4>4. r = t
        BY <2>1, <4>1, <4>3 DEF IInv, Stored, Unique
      <4>5. CASE r.parent \notin gone
        BY <4>1, <4>3, <4>4, <4>5
      <4>6. CASE r.parent \in gone
        BY <4>1, <4>3, <4>4, <4>6 DEF Rows, Records
      <4> QED BY <4>5, <4>6
    <3> QED BY <3>1, <3>2, <3>3
  <2> QED BY <2>1 DEF Unique
<1>8. Ids(rows') \subseteq Spent'
  <2>1. ASSUME NEW q \in rows' PROVE q.id \in Spent'
    <3>1. CASE q \in s.adds
      BY <1>1, <1>5, <3>1 DEF Inserts
    <3>2. CASE q.id \in Ids(rows)
      BY <1>1, <1>5, <3>2
    <3> QED BY <1>1, <1>2, <3>1, <3>2 DEF Ids
  <2> QED BY <2>1 DEF Ids
<1>9. ASSUME NEW q \in rows' PROVE q.parent \in Ids(rows') \cup {None}
  <2>1. CASE q \in s.adds
    <3>1. CASE q.parent \in Ids(rows)
      <4>1. gone = {}
        BY <1>1, <2>1
      <4> QED BY <1>3, <3>1, <4>1 DEF Ids
    <3>2. CASE q.parent \in Ids(s.adds)
      BY <1>3, <3>2
    <3> QED BY <1>1, <2>1, <3>1, <3>2 DEF Inserts, Ids
  <2>2. CASE q \in s.sets
    BY <1>1, <1>3, <2>2 DEF Updates
  <2>3. CASE q \notin s.adds /\ q \notin s.sets
    <3>1. PICK r \in rows : /\ r.parent \in gone => q.parent = None
                            /\ r.parent \notin gone => q = r
      BY <1>2, <2>3
    <3>2. r.parent \in Ids(rows) \cup {None}
      BY DEF IInv, Stored
    <3> QED BY <1>3, <3>1, <3>2 DEF Ids
  <2> QED BY <2>1, <2>2, <2>3
<1>10. ASSUME NEW q \in rows', q.table = "invoice", q.name # None PROVE q.name \in Ids(rows')
  <2>1. CASE q \in s.adds
    <3>1. q.name \in Ids(s.sets)
      BY <1>1, <1>10, <2>1 DEF Inserts
    <3> QED BY <1>3, <3>1
  <2>2. CASE q \notin s.adds
    <3>1. q \notin s.sets
      BY <1>1, <1>10
    <3>2. PICK r \in rows : r.id \notin gone /\ r.table = "invoice" /\ r.name = q.name
      BY <1>2, <1>10, <2>2, <3>1
    <3>3. q.name \in Ids(rows) /\ q.name \in Jobs
      BY <1>10, <3>2, StoredRows, RowFacts DEF IInv, InvoicesKeepJobs
    <3>4. q.name \notin gone
      <4>1. ASSUME q.name \in gone PROVE FALSE
        <5>1. q.name \in Ids(s.gone) /\ Swept(s, r.id)
          <6>1. PlaceOf(r.id) = 2
            BY <3>2, StoredRows, RowFacts
          <6>2. q.name \in Ids(s.gone) /\ gone # {}
            BY <1>4, <3>3, <4>1, Places
          <6> QED BY <1>1, <6>1, <6>2
        <5>2. r.id \in Ids(s.gone \cup s.todo)
          BY <1>1, <3>2, <5>1 DEF Sweeps
        <5>3. r.id \in Ids(s.gone)
          BY <1>1, <5>2 DEF Ids
        <5> QED BY <1>4, <3>2, <5>3
      <4> QED BY <4>1
    <3> QED BY <1>3, <3>3, <3>4 DEF Ids
  <2> QED BY <2>1, <2>2
<1> QED
  BY <1>6, <1>7, <1>8, <1>9, <1>10 DEF Stored, InvoicesKeepJobs

\* The others are as sound as before: what they refer to stays, and nothing comes back.
LEMMA CommitKeepsOthers ==
  ASSUME IInv, NEW x \in Sessions, Commit(x), NEW y \in Sessions \ {x}
  PROVE  Sound(y, session[y])' /\ session'[y] = session[y]
<1> DEFINE s == session[x]
           o == session[y]
<1>1. /\ s \in Transactions /\ Inserts(x, s) /\ Ids(rows) \subseteq Spent
      /\ s.pc = "commit" /\ Updates(s)
      /\ \A r \in s.adds : r.id \in Made /\ r.id \notin Spent
      /\ \A r \in s.sets : r.id \in Ids(rows) /\ r.table # "invoice"
  BY Committing
<1>2. /\ session'[y] = o /\ UNCHANGED posted /\ o \in Transactions /\ Sound(y, o)
      /\ Spent \subseteq Spent'
  BY DEF Commit, IInv, Spent, Made
<1>3. /\ Held(s) \cap Held(o) = {} /\ \A r \in o.adds : r.parent \notin Held(s)
  BY DEF IInv, Apart
<1> HIDE DEF s, o
<1>4. ASSUME NEW id \in Ids(rows), PlaceOf(id) # 2, id \notin Held(s) PROVE id \in Ids(rows')
  BY <1>4, OthersStay DEF s
<1>5. Inserts(y, o)'
  <2>1. ASSUME NEW r \in o.adds, r.parent # None PROVE r.parent \in Ids(rows' \cup o.adds)
    <3>1. PlaceOf(r.parent) = 3 /\ r.parent \in Ids(rows \cup o.adds)
      BY <1>2, <2>1 DEF Sound, Inserts
    <3>2. CASE r.parent \in Ids(rows)
      <4>1. r.parent \in Ids(rows')
        BY <1>3, <1>4, <3>1, <3>2
      <4> QED BY <4>1 DEF Ids
    <3>3. CASE r.parent \in Ids(o.adds)
      BY <3>3 DEF Ids
    <3> QED BY <3>1, <3>2, <3>3 DEF Ids
  <2>2. o' = o
    BY <1>2 DEF o
  <2> QED BY <1>2, <2>1, <2>2 DEF Sound, Inserts
<1>6. Updates(o)'
  <2>1. \A r \in o.sets : r.id \in Held(o)
    BY DEF Held, Ids
  <2>2. \A r \in o.sets : r.id \in Ids(rows')
    BY <1>2, <1>3, <1>4, <2>1 DEF Sound, Updates
  <2>3. o' = o
    BY <1>2 DEF o
  <2> QED BY <1>2, <2>2, <2>3 DEF Sound, Updates
<1>7. Stage(y, o)'
  <2>1. o' = o
    BY <1>2 DEF o
  <2> QED BY <1>2, <2>1 DEF Sound, Stage, Purging
<1>8. Sweeps(o)'
  <2>1. o' = o
    BY <1>2 DEF o
  <2>2. Ids(o.old \cup o.gone) \subseteq Spent'
    BY <1>2 DEF Sound, Sweeps
  <2>3. ASSUME NEW q \in rows', Swept(o, q.id),
               q.id \in Ids(o.old) \/ (q.table = "invoice" /\ q.name \in Ids(o.gone))
        PROVE  q.id \in Ids(o.gone \cup o.todo)
    <3>1. CASE \E r \in rows : r.id = q.id /\ r.table = q.table /\ r.name = q.name
      BY <1>2, <2>3, <3>1 DEF Sound, Sweeps
    <3>2. CASE q \in s.sets
      <4>1. q.id \in Ids(o.old) /\ q.id \in Ids(rows)
        BY <1>1, <2>3, <3>2
      <4>2. PICK r \in rows : r.id = q.id
        BY <4>1 DEF Ids
      <4> QED BY <1>2, <2>3, <4>1, <4>2 DEF Sound, Sweeps
    <3>3. CASE q \in s.adds
      <4>1. q.id \notin Ids(o.old)
        BY <1>1, <1>2, <3>3 DEF Sound, Sweeps, Ids
      <4>2. q.table = "invoice" /\ q.name \in Ids(o.gone)
        BY <2>3, <4>1
      <4>3. q.name # None
        BY <1>2, <4>2, RowFacts DEF Transactions, Ids
      <4>4. q.name \in Ids(s.sets)
        BY <1>1, <3>3, <4>2, <4>3 DEF Inserts
      <4> QED BY <1>3, <4>2, <4>4 DEF Held, Ids
    <3> QED BY <3>1, <3>2, <3>3, CommittedRow DEF s
  <2> QED BY <2>1, <2>2, <2>3 DEF Sweeps, Swept
<1> QED
  BY <1>2, <1>5, <1>6, <1>7, <1>8 DEF Sound, o

LEMMA CommitKeeps == ASSUME IInv, NEW x \in Sessions, Commit(x) PROVE IInv'
<1>1. /\ session' \in [Sessions -> Transactions] /\ session'[x] = Ended /\ UNCHANGED posted
      /\ \A y \in Sessions \ {x} : session'[y] = session[y]
  BY EndedIs DEF Commit, IInv
<1>2. Stored' /\ InvoicesKeepJobs'
  BY CommitStores
<1>3. /\ Ended.adds = {} /\ Ended.sets = {} /\ Ended.gone = {} /\ Ended.todo = {}
      /\ Ended.old = {} /\ Ended.next = 1 /\ Ended.pc = "ended"
  BY EndedIs DEF Empty
<1>4. Ids({}) = {} /\ Held(Ended) = {}
  BY <1>3 DEF Held, Ids
<1>5. Apart'
  BY <1>1, <1>3, <1>4 DEF IInv, Apart, Held
<1>6. Sound(x, session[x])'
  <2>1. session'[x].old \cup session'[x].gone = {}
    BY <1>1, <1>3
  <2> QED BY <1>1, <1>3, <1>4, <2>1
            DEF Sound, Inserts, Updates, Stage, Purging, Sweeps, Unique
<1>7. \A y \in Sessions : Sound(y, session[y])'
  BY <1>6, CommitKeepsOthers
<1> QED
  BY <1>1, <1>2, <1>5, <1>7 DEF IInv

\* A parsing job that arrives takes an id that was never used.
LEMMA PostParsedKeeps == ASSUME IInv, NEW j \in Jobs, PostParsed(j) PROVE IInv'
<1>1. PICK status \in {"pending_review", "confirmed"} :
        rows' = rows \cup {Row("job", j, status, None)}
  BY DEF PostParsed
<1> DEFINE r == Row("job", j, status, None)
<1>2. UNCHANGED session /\ posted' = posted \cup {j} /\ j \notin posted
  BY DEF PostParsed
<1>3. j \in AllIds /\ PlaceOf(j) = 1 /\ j \notin Made
  BY Places, IdsApart DEF AllIds, Made, Kinds
<1>4. r \in Rows /\ r.id = j /\ r.parent = None /\ r.table = "job"
  BY <1>3, Orders, NewRow DEF Names
<1> HIDE DEF r
<1>5. rows' = rows \cup {r}
  BY <1>1 DEF r
<1>6. Spent' = Spent \cup {j} /\ j \notin Spent
  BY <1>2, <1>3 DEF Spent
<1>7. Ids(rows') = Ids(rows) \cup {j} /\ j \notin Ids(rows)
  BY <1>4, <1>5, <1>6 DEF Ids, IInv, Stored
<1>8. Stored' /\ InvoicesKeepJobs'
  <2>1. Unique(rows')
    BY <1>4, <1>5, <1>7 DEF IInv, Stored, Unique, Ids
  <2> QED BY <1>4, <1>5, <1>6, <1>7, <2>1 DEF IInv, Stored, InvoicesKeepJobs
<1>9. Apart'
  BY <1>2 DEF IInv, Apart, Held
<1>10. ASSUME NEW x \in Sessions PROVE Sound(x, session[x])'
  <2>1. Ids(rows \cup session[x].adds) \subseteq Ids(rows' \cup session[x].adds)
    BY <1>5 DEF Ids
  <2>2. Inserts(x, session[x])' /\ Updates(session[x])' /\ Stage(x, session[x])'
    <3>1. Inserts(x, session[x])'
      BY <1>2, <2>1 DEF IInv, Sound, Inserts
    <3>2. Updates(session[x])'
      BY <1>2, <1>7 DEF IInv, Sound, Updates
    <3>3. Stage(x, session[x])'
      BY <1>2 DEF IInv, Sound, Stage, Purging
    <3> QED BY <3>1, <3>2, <3>3
  <2>3. j \notin Ids(session[x].old)
    BY <1>6 DEF IInv, Sound, Sweeps, Ids
  <2>4. Sweeps(session[x])'
    BY <1>2, <1>4, <1>5, <1>6, <2>3 DEF IInv, Sound, Sweeps, Swept
  <2> QED BY <2>2, <2>4 DEF Sound
<1> QED
  BY <1>2, <1>8, <1>9, <1>10 DEF IInv

-------------------------------------------------------------------------------
(* The theorems *)

LEMMA NextKeeps == IInv /\ [Next]_vars => IInv'
<1> SUFFICES ASSUME IInv, [Next]_vars PROVE IInv'
  OBVIOUS
<1>1. CASE UNCHANGED vars
  <2>1. rows' = rows /\ session' = session /\ posted' = posted
    BY <1>1 DEF vars
  <2>2. Spent' = Spent
    BY <2>1 DEF Spent
  <2>3. Stored' /\ InvoicesKeepJobs' /\ Apart'
    BY <2>1, <2>2 DEF IInv, Stored, InvoicesKeepJobs, Apart, Held
  <2>4. ASSUME NEW x \in Sessions PROVE Sound(x, session[x])'
    <3>1. Inserts(x, session[x])' /\ Updates(session[x])'
      BY <2>1 DEF IInv, Sound, Inserts, Updates
    <3>2. Stage(x, session[x])' /\ Sweeps(session[x])'
      BY <2>1, <2>2 DEF IInv, Sound, Stage, Purging, Sweeps, Swept
    <3> QED BY <3>1, <3>2 DEF Sound
  <2> QED BY <2>1, <2>3, <2>4 DEF IInv
<1> QED
  BY <1>1, CommitKeeps, RollbackKeeps, PostParsedKeeps, ReadJobKeeps, PickCustomerKeeps,
     InsertCustomerKeeps, InsertInvoiceKeeps, UpdateJobKeeps, ImportInvoiceKeeps,
     SeedSampleKeeps, ImportChargesKeeps, ReadTransactionsKeeps, UpsertCommitmentKeeps,
     FlushCommitmentKeeps, StartPurgeKeeps, StartDeleteKeeps, DeleteRowKeeps, EndDeleteKeeps
     DEF Next

\* In every reachable state each transaction is sound, and apart from the others.
THEOREM Invariance == Spec => []IInv
BY InitHolds, NextKeeps, PTL DEF Spec

\* An ended transaction holds nothing, only a DELETE or a flush under way has rows to visit,
\* a job is updated after its invoice was inserted, and whoever deletes writes nothing else.
THEOREM TypeCorrect == Spec => []TypeOK
<1>1. IInv => TypeOK
  <2> SUFFICES ASSUME IInv, NEW x \in Sessions
               PROVE  LET s == session[x]
                      IN /\ s.pc \in {"idle", "ended"} =>
                              s.adds \cup s.sets \cup s.gone \cup s.todo = {}
                         /\ s.todo # {} => s.pc \in {"delete", "flush"}
                         /\ s.pc = "job" => <<x, "invoice">> \in Ids(s.adds)
                         /\ s.gone # {} => s.adds \cup s.sets = {}
    BY DEF TypeOK
  <2>1. session[x] \in Transactions /\ Stage(x, session[x])
    BY DEF IInv, Sound
  <2>2. session[x].pc \in {"idle", "ended"} => ~Purging(session[x])
    BY <2>1 DEF Stage
  <2> QED BY <2>1, <2>2 DEF Stage
<1> QED
  BY <1>1, Invariance, PTL

\* A confirmed invoice never outlives its parsing job, whatever purges race the confirmation.
THEOREM ConfirmedKeepJobs == Spec => []InvoicesKeepJobs
<1>1. IInv => InvoicesKeepJobs
  BY DEF IInv
<1> QED
  BY <1>1, Invariance, PTL

\* Only its commit ends a purge that has looked at every table and changes rows.
LEMMA OnlyCommitPurges ==
  ASSUME IInv, Next, NEW x \in Sessions, session[x].next > Len(PurgeOrder),
         session'[x].pc = "ended", rows' # rows
  PROVE  Commit(x)
<1>1. session[x].pc # "ended"
  <2>1. Purging(session[x]) /\ Stage(x, session[x]) /\ session[x] \in Transactions
    BY Orders DEF Purging, IInv, Sound, Transactions
  <2> QED BY <2>1 DEF Stage
<1>2. ASSUME NEW j \in Jobs, PostParsed(j) PROVE FALSE
  BY <1>1, <1>2 DEF PostParsed
<1>3. ASSUME NEW y \in Sessions, Commit(y), y # x PROVE FALSE
  BY <1>1, <1>3 DEF Commit, IInv
<1>4. \/ \E j \in Jobs : PostParsed(j)
      \/ \E y \in Sessions : Commit(y)
      \/ UNCHANGED rows
  BY DEF Next, Rollback, ReadJob, PickCustomer, InsertCustomer, InsertInvoice, UpdateJob,
         ImportInvoice, SeedSample, ImportCharges, ReadTransactions, UpsertCommitment,
         FlushCommitment, StartPurge, StartDelete, DeleteRow, EndDelete, Begin, Goto
<1> QED
  BY <1>2, <1>3, <1>4

LEMMA InPurgeIs == \A r \in Rows : r.table \in ToSet(PurgeOrder) <=> PlaceOf(r.id) # 6
<1>1. ToSet(PurgeOrder) = {"job", "invoice", "customer", "commitment", "transaction"}
  BY DEF ToSet, PurgeOrder
<1> QED
  BY <1>1, RowFacts DEF Rows, Records

\* Whatever was committed, when a purge began, of the tables it names is gone when it commits,
\* and every other row stays as it was.
THEOREM PurgeIsComplete == Spec => PurgeEmptiesItsTables
<1>1. ASSUME IInv, Next, NEW x \in Sessions, session[x].next > Len(PurgeOrder),
             session'[x].pc = "ended", rows' # rows
      PROVE  /\ Ids(rows') \cap Ids(InPurge(session[x].old)) = {}
             /\ rows \ InPurge(rows) \subseteq rows'
  <2> DEFINE s == session[x]
  <2>1. Commit(x)
    BY <1>1, OnlyCommitPurges
  <2>2. /\ s \in Transactions /\ Sweeps(s) /\ s.todo = {} /\ s.adds = {} /\ s.sets = {}
        /\ \A r \in rows : PlaceOf(r.id) # 6 => Swept(s, r.id)
        /\ \A r \in s.gone : PlaceOf(r.id) # 6
    <3>1. s.next = 6 /\ \A r \in s.gone : PlaceOf(r.id) # 6
      <4>1. s \in Transactions /\ Stage(x, s)
        BY <1>1, <2>1, Committing DEF IInv, Sound
      <4> QED BY <1>1, <4>1, Orders DEF Transactions, Stage
    <3> QED BY <1>1, <2>1, <3>1, Committing
  <2>3. ASSUME NEW q \in rows', NEW p \in InPurge(s.old), q.id = p.id PROVE FALSE
    <3>1. PICK r \in rows : r.id \notin Deleted(s) /\ q.id = r.id
      BY <1>1, <2>1, <2>2, CommittedRow
    <3>2. p \in s.old /\ PlaceOf(p.id) # 6
      BY <2>2, InPurgeIs DEF InPurge, Transactions
    <3>3. r.id \in Ids(s.gone \cup s.todo)
      BY <2>2, <2>3, <3>1, <3>2 DEF Sweeps, Ids
    <3>4. r.id \in Ids(s.gone)
      BY <2>2, <3>3 DEF Ids
    <3> QED BY <1>1, <2>2, <3>1, <3>4, DeletedIs
  <2>4. ASSUME NEW r \in rows, r \notin InPurge(rows) PROVE r \in rows'
    <3>1. r \in Rows /\ PlaceOf(r.id) = 6 /\ r.parent = None
      BY <1>1, <2>4, InPurgeIs, StoredRows, RowFacts DEF InPurge
    <3>2. r.id \notin Deleted(s) /\ None \notin Deleted(s)
      BY <1>1, <2>2, <3>1, DeletedIs DEF Ids
    <3> QED BY <2>1, <2>2, <3>1, <3>2 DEF Commit, Committed, Deleted, Ids
  <2> QED BY <2>3, <2>4 DEF Ids
<1>2. IInv /\ [Next]_vars =>
        [\A x \in Sessions :
           session[x].next > Len(PurgeOrder) /\ session'[x].pc = "ended" /\ rows' # rows
             => /\ Ids(rows') \cap Ids(InPurge(session[x].old)) = {}
                /\ rows \ InPurge(rows) \subseteq rows']_vars
  BY <1>1
<1> QED
  BY <1>2, Invariance, PTL DEF Spec, PurgeEmptiesItsTables
===============================================================================
