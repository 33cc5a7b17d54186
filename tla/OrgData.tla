------------------------------- MODULE OrgData -------------------------------
(***************************************************************************)
(* The rows of one organisation that several requests and tasks write:     *)
(* parsed invoices and their confirmation, the CSV import of an invoice,   *)
(* the recomputation of commitments, the sample data, and the purge that   *)
(* deletes table by table, the outbox of events excepted.  Each works in   *)
(* one READ COMMITTED transaction; PostgreSQL's row locks and foreign keys *)
(* are modelled by what they let a statement do.                           *)
(***************************************************************************)
EXTENDS Naturals, Sequences, FiniteSets, FiniteSetsExt, SequencesExt

CONSTANTS Sessions,     \* requests and tasks
          Jobs,         \* ids of parsing jobs
          Name,         \* the customer the invoices are for
          Merchant,     \* the merchant the transactions recur at
          None

\* Ids are UUIDs: a session makes its own, one of each kind of row, and a job has another.
ASSUME IdsApart ==
  LET made == Sessions \X {"customer", "invoice", "transaction", "charges", "commitment", "event"}
  IN Jobs \cap made = {} /\ None \notin Jobs \cup made

\* A row; parent is its foreign key.  A job's name is its status and its parent the
\* invoice, an invoice's name the job it was confirmed from and its parent the customer.
Row(table, id, name, parent) == [table |-> table, id |-> id, name |-> name, parent |-> parent]

Ids(rows) == {r.id : r \in rows}

Named(rows, table, name) == {r \in rows : r.table = table /\ r.name = name}

VARIABLES rows,         \* what is committed
          session,      \* session[x]: the transaction of x
          posted        \* ids of jobs that were given out

vars == <<rows, session, posted>>

\* adds: rows inserted; sets: rows updated, as they will be; todo: rows the DELETE under
\* way has still to visit; gone: rows deleted; old is history: what was committed when a
\* purge began.
NewSession ==
  [pc |-> "idle", job |-> None, customer |-> None, adds |-> {}, sets |-> {},
   next |-> 1, todo |-> {}, gone |-> {}, old |-> {}]

Init ==
  /\ rows = {} /\ posted = {}
  /\ session = [x \in Sessions |-> NewSession]

Goto(x, s) == session' = [session EXCEPT ![x] = s] /\ UNCHANGED <<rows, posted>>

Begin(x, s) == session[x] = NewSession /\ Goto(x, s)

\* Commit: the deletes with their cascades, the updates, then the inserts.
Committed(s) ==
  LET cascade == {r \in rows : r.table = "invoice" /\ r.parent \in Ids(s.gone)}
      gone == Ids(s.gone \cup cascade)
      kept == {r \in rows : r.id \notin gone \cup Ids(s.sets)}
  IN {IF r.parent \in gone THEN [r EXCEPT !.parent = None] ELSE r : r \in kept}
       \cup s.sets \cup s.adds

Ended == [NewSession EXCEPT !.pc = "ended"]

Commit(x) ==
  /\ session[x].pc = "commit"
  /\ rows' = Committed(session[x])
  /\ session' = [session EXCEPT ![x] = Ended]
  /\ UNCHANGED posted

\* Mutant of Rollback: what was flushed stays in the session.
EndUnrolled(x) ==
  /\ session[x].pc \notin {"idle", "ended"}
  /\ Goto(x, [session[x] EXCEPT !.pc = "ended"])

\* An HTTPException, a violated constraint, a deadlock, a crash.
Rollback(x) == session[x].pc \notin {"idle", "ended"} /\ Goto(x, Ended)

\* Rows another transaction is about to change.
Taken(x) ==
  UNION {Ids(session[y].gone \cup session[y].sets) : y \in Sessions \ {x}}

\* Rows another transaction's inserts refer to: they cannot be deleted under them.
Referred(x) == UNION {{r.parent : r \in session[y].adds} : y \in Sessions \ {x}}
-------------------------------------------------------------------------------
(* Parsed invoices *)

\* POST /integrations/invoices/parsed: low confidence waits for review.
PostParsed(j) ==
  /\ j \notin posted
  /\ \E status \in {"pending_review", "confirmed"} :
       rows' = rows \cup {Row("job", j, status, None)}
  /\ posted' = posted \cup {j}
  /\ UNCHANGED session

\* POST /invoices/parsing/jobs/{id}/confirm, whatever the status of the job.
ReadJob(x, j) ==
  /\ j \in Ids(rows)
  /\ Begin(x, [NewSession EXCEPT !.pc = "pick", !.job = j])

\* The form may name an existing customer; otherwise a new one is made, by name, unseen.
PickCustomer(x) ==
  /\ session[x].pc = "pick"
  /\ \/ \E c \in Named(rows, "customer", Name) :
          Goto(x, [session[x] EXCEPT !.pc = "invoice", !.customer = c.id])
     \/ Goto(x, [session[x] EXCEPT !.pc = "new_customer"])

InsertCustomer(x) ==
  /\ session[x].pc = "new_customer"
  /\ LET id == <<x, "customer">>
     IN Goto(x, [session[x] EXCEPT !.pc = "invoice", !.customer = id,
                                   !.adds = @ \cup {Row("customer", id, Name, None)}])

\* The foreign key waits for whoever deletes the customer, and fails if it is gone.
InsertInvoice(x) ==
  LET s == session[x] IN
  /\ s.pc = "invoice" /\ s.customer \notin Taken(x)
  /\ IF s.customer \in Ids(rows \cup s.adds)
     THEN Goto(x, [s EXCEPT !.pc = IF s.job = None THEN "commit" ELSE "job",
                            !.adds = @ \cup {Row("invoice", <<x, "invoice">>, s.job, s.customer)}])
     ELSE Goto(x, Ended)

\* UPDATE ... WHERE id: it waits for the row, and StaleDataError ends the request if the
\* row is gone.  The outbox row of invoice.created goes with it.
UpdateJob(x) ==
  LET s == session[x] IN
  /\ s.pc = "job" /\ s.job \notin Taken(x)
  /\ IF s.job \in Ids(rows)
     THEN Goto(x, [s EXCEPT !.pc = "commit",
                            !.adds = @ \cup {Row("event", <<x, "event">>, None, None)},
                            !.sets = {Row("job", s.job, "confirmed", <<x, "invoice">>)}])
     ELSE Goto(x, Ended)
-------------------------------------------------------------------------------
(* The CSV import of one invoice, the sample data, the commitments *)

\* scalar_one_or_none: no customer, the customer, or an error that drops the line.
ImportInvoice(x) ==
  LET found == Named(rows, "customer", Name)
  IN Begin(x, CASE found = {} -> [NewSession EXCEPT !.pc = "new_customer"]
                [] Cardinality(found) = 1 ->
                     [NewSession EXCEPT !.pc = "invoice", !.customer = (CHOOSE c \in found : TRUE).id]
                [] OTHER -> Ended)

Sample(x) ==
  {Row("customer", <<x, "customer">>, Name, None),
   Row("invoice", <<x, "invoice">>, None, <<x, "customer">>),
   Row("transaction", <<x, "transaction">>, Merchant, None),
   Row("commitment", <<x, "commitment">>, Merchant, None)}

SeedSample(x) == Begin(x, [NewSession EXCEPT !.pc = "commit", !.adds = Sample(x)])

\* A CSV of three monthly charges by the merchant.
ImportCharges(x) ==
  Begin(x, [NewSession EXCEPT !.pc = "commit",
                              !.adds = {Row("transaction", <<x, "charges">>, Merchant, None)}])

\* detect_commitments wants three charges; the sample data has two.
Recurs ==
  LET found == Named(rows, "transaction", Merchant)
  IN Cardinality(found) > 1 \/ \E r \in found : r.id[2] = "charges"

\* recompute_commitments reads the transactions ...
ReadTransactions(x) ==
  /\ Recurs
  /\ Begin(x, [NewSession EXCEPT !.pc = "recompute"])

\* ... and looks for the merchant's commitment: a new one, an update, or
\* MultipleResultsFound.
UpsertCommitment(x) ==
  LET found == Named(rows, "commitment", Merchant)
      s == session[x]
  IN /\ s.pc = "recompute"
     /\ Goto(x, CASE found = {} ->
                       [s EXCEPT !.pc = "commit",
                                 !.adds = {Row("commitment", <<x, "commitment">>, Merchant, None)}]
                  [] Cardinality(found) = 1 -> [s EXCEPT !.pc = "flush", !.todo = found]
                  [] OTHER -> Ended)

FlushCommitment(x) ==
  LET s == session[x] IN
  /\ s.pc = "flush" /\ Ids(s.todo) \cap Taken(x) = {}
  /\ IF s.todo \subseteq rows
     THEN Goto(x, [s EXCEPT !.pc = "commit", !.todo = {}, !.sets = s.todo])
     ELSE Goto(x, Ended)
-------------------------------------------------------------------------------
(* DELETE /org/data *)

\* Mutant of PurgeOrder: children last.
PurgeOrderParentsFirst == <<"customer", "invoice", "job", "commitment", "transaction">>

\* The tables of this module in the order the handler deletes from them.
PurgeOrder == <<"job", "invoice", "customer", "commitment", "transaction">>

\* The rows of these tables.
InPurge(set) == {r \in set : r.table \in ToSet(PurgeOrder)}

StartPurge(x) == Begin(x, [NewSession EXCEPT !.pc = "purge", !.old = rows])

\* A DELETE visits the rows that are committed when it starts ...
StartDelete(x) ==
  LET s == session[x] IN
  /\ s.pc = "purge" /\ s.next <= Len(PurgeOrder)
  /\ Goto(x, [s EXCEPT !.pc = "delete", !.todo = {r \in rows : r.table = PurgeOrder[s.next]}])

\* Mutant of DeleteRow: rows that others hold are skipped.
DeleteRowSkipLocked(x, r) ==
  LET s == session[x] IN
  /\ s.pc = "delete" /\ r \in s.todo
  /\ Goto(x, [s EXCEPT !.todo = @ \ {r},
                       !.gone = IF r.id \in Taken(x) \cup Referred(x) THEN @
                                ELSE @ \cup {q \in rows : q.id = r.id}])

\* ... waits for the ones that others hold, and takes each as it then is.
DeleteRow(x, r) ==
  LET s == session[x] IN
  /\ s.pc = "delete" /\ r \in s.todo /\ r.id \notin Taken(x) \cup Referred(x)
  /\ Goto(x, [s EXCEPT !.todo = @ \ {r}, !.gone = @ \cup {q \in rows : q.id = r.id}])

EndDelete(x) ==
  LET s == session[x]
      next == s.next + 1
  IN /\ s.pc = "delete" /\ s.todo = {}
     /\ Goto(x, [s EXCEPT !.next = next,
                          !.pc = IF next > Len(PurgeOrder) THEN "commit" ELSE "purge"])

Next ==
  \/ \E j \in Jobs : PostParsed(j)
  \/ \E x \in Sessions :
       \/ Commit(x) \/ Rollback(x)
       \/ \E j \in Jobs : ReadJob(x, j)
       \/ PickCustomer(x) \/ InsertCustomer(x) \/ InsertInvoice(x) \/ UpdateJob(x)
       \/ ImportInvoice(x) \/ SeedSample(x) \/ ImportCharges(x)
       \/ ReadTransactions(x) \/ UpsertCommitment(x) \/ FlushCommitment(x)
       \/ StartPurge(x) \/ StartDelete(x) \/ EndDelete(x)
       \/ \E r \in session[x].todo : DeleteRow(x, r)

Spec == Init /\ [][Next]_vars
-------------------------------------------------------------------------------
(* Properties *)

\* An ended transaction holds nothing, only a DELETE or a flush under way has rows to visit,
\* a job is updated after its invoice was inserted, and whoever deletes writes nothing else.
TypeOK ==
  \A x \in Sessions :
    LET s == session[x]
    IN /\ s.pc \in {"idle", "ended"} => s.adds \cup s.sets \cup s.gone \cup s.todo = {}
       /\ s.todo # {} => s.pc \in {"delete", "flush"}
       /\ s.pc = "job" => <<x, "invoice">> \in Ids(s.adds)
       /\ s.gone # {} => s.adds \cup s.sets = {}

\* A confirmed invoice never outlives its parsing job: a purge that races the confirmation
\* takes both or makes it fail, because it deletes jobs before invoices and customers.
InvoicesKeepJobs == \A r \in rows : r.table = "invoice" /\ r.name # None => r.name \in Ids(rows)

\* The purge empties the tables it names: whatever of them was committed when it began is
\* gone when it commits, although others hold and change rows meanwhile.  It is not a purge
\* of everything: what the outbox holds of the deleted invoices stays.
PurgeEmptiesItsTables ==
  [][\A x \in Sessions :
       session[x].next > Len(PurgeOrder) /\ session'[x].pc = "ended" /\ rows' # rows
         => /\ Ids(rows') \cap Ids(InPurge(session[x].old)) = {}
            /\ rows \ InPurge(rows) \subseteq rows']_vars
===============================================================================
