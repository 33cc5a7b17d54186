------------------------------- MODULE CsvImport -------------------------------
(***************************************************************************)
(* The worker's CSV imports, import_transactions_csv and                   *)
(* import_invoices_csv, for one organisation.  A job walks through its     *)
(* file, looks every row up, adds what is new to its session, flushes the  *)
(* session with each progress event and commits once at the end; the audit *)
(* row follows in a second transaction.  Sessions do not autoflush, so a   *)
(* lookup sees what is committed and what the job has flushed, not what it *)
(* has merely added.                                                       *)
(***************************************************************************)
EXTENDS Naturals, FiniteSets, Sequences, SequencesExt

CONSTANTS Jobs,         \* task executions
          Batches,      \* sets of files that may be uploaded to the same task; a file
                        \* is a sequence of rows
          MaxChunks,    \* progress events of a long file (20 in the code)
          OutboxFaults, \* whether the database may refuse an event row
          NoCustomer

(* A row is [key, customer, kind]: key is what it is deduplicated by, customer the name
   an invoice row carries (NoCustomer in a transactions file).  An "unreadable" row
   fails to parse, an "unstorable" one is refused by the database when flushed. *)
Kinds == {"good", "unreadable", "unstorable"}

Files == UNION Batches

Rows == UNION {ToSet(f) : f \in Files}

Keys == {row.key : row \in Rows}

Customers == {row.customer : row \in Rows} \ {NoCustomer}

\* An empty file ends the task before it touches the database.
ASSUME FilesOK ==
  /\ \A f \in Files : f \in Seq(Rows) /\ f # <<>>
  /\ \A row \in Rows : row.kind \in Kinds

ASSUME BoundsOK == MaxChunks \in Nat \ {0} /\ OutboxFaults \in BOOLEAN

VARIABLES ledger,       \* committed rows
          names,        \* committed customers
          job           \* job[j]: the execution j and its session

vars == <<ledger, names, job>>

\* A session with nothing in it; added is what session.add was given since the last
\* flush, sent what was flushed, made the customers flushed; before is history, the
\* jobs that had committed when this one started.
NewJob(j, file) ==
  [id |-> j, pc |-> "queued", file |-> file, done |-> 0, imported |-> 0, errors |-> 0,
   added |-> {}, sent |-> {}, made |-> {}, broken |-> FALSE, before |-> {}]

Init ==
  /\ ledger = {} /\ names = {}
  /\ \E batch \in Batches : \E file \in [Jobs -> batch] : job = [j \in Jobs |-> NewJob(j, file[j])]

-------------------------------------------------------------------------------
(* The session *)

\* What line n becomes, and the customer made for it; each has an id of its own.
Row(s, n) == [job |-> s.id, line |-> n, key |-> s.file[n].key]

Customer(s, n) == [job |-> s.id, line |-> n, name |-> s.file[n].customer]

\* Mutant of Found: rows of earlier imports are not looked for.
FoundInJob(s, k) == {row \in s.sent : row.key = k}

\* A lookup sees what is committed and what the session has flushed.
Found(s, k) == {row \in ledger \cup s.sent : row.key = k}

Named(s, c) == {customer \in names \cup s.made : customer.name = c}

One(set) == \E x \in set : set = {x}

Empty(s) == [s EXCEPT !.added = {}, !.sent = {}, !.made = {}]

Refused(s) == s.broken \/ \E row \in s.added : s.file[row.line].kind = "unstorable"

Sent(s) == [s EXCEPT !.sent = @ \cup s.added, !.added = {}]

\* Mutant of Flush: a refused session is not rolled back; its objects stay in it.
FlushKeeps(s) == IF Refused(s) THEN [s EXCEPT !.broken = TRUE] ELSE Sent(s)

\* session.flush(): one refused row rolls the whole transaction back, and until
\* session.rollback(), which nobody calls, every further use of the session fails.
Flush(s) == IF Refused(s) THEN [Empty(s) EXCEPT !.broken = TRUE] ELSE Sent(s)

\* scalar_one_or_none on the dedupe key: none, one, or MultipleResultsFound.
Lookup(s, n) ==
  LET found == Found(s, s.file[n].key)
  IN IF found = {} THEN [s EXCEPT !.added = @ \cup {Row(s, n)}, !.imported = @ + 1]
     ELSE IF One(found) THEN s
     ELSE [s EXCEPT !.errors = @ + 1]

\* An unknown customer is added and flushed at once, with all that was added before.
WithCustomer(s, n) ==
  LET flushed == Flush(s)
  IN IF s.file[n].customer = NoCustomer \/ Named(s, s.file[n].customer) # {} THEN s
     ELSE IF flushed.broken THEN flushed
     ELSE [flushed EXCEPT !.made = @ \cup {Customer(s, n)}]

\* Looking the customer of line n up raises MultipleResultsFound.
Ambiguous(s, n) ==
  LET c == s.file[n].customer
  IN c # NoCustomer /\ Named(s, c) # {} /\ ~One(Named(s, c))

\* Mutant of Handled: a line whose customer cannot be told is left out without a word.
HandledSilently(s, n) ==
  LET ready == WithCustomer(s, n)
  IN IF s.file[n].kind = "unreadable" \/ s.broken THEN [s EXCEPT !.errors = @ + 1]
     ELSE IF Ambiguous(s, n) THEN s
     ELSE IF ready.broken THEN [ready EXCEPT !.errors = @ + 1]
     ELSE Lookup(ready, n)

\* The body of the loop for line n; "except Exception" turns any failure into an entry
\* of errors.
Handled(s, n) ==
  LET ready == WithCustomer(s, n)
  IN IF s.file[n].kind = "unreadable" \/ s.broken \/ Ambiguous(s, n)
     THEN [s EXCEPT !.errors = @ + 1]
     ELSE IF ready.broken THEN [ready EXCEPT !.errors = @ + 1]
     ELSE Lookup(ready, n)

\* "continue" on a row that is already there leaves the loop before the progress event.
Skipped(s, n) ==
  /\ s.file[n].kind # "unreadable" /\ ~s.broken
  /\ s.file[n].customer # NoCustomer => One(Named(s, s.file[n].customer))
  /\ One(Found(s, s.file[n].key))

ChunkSize(total) == IF total > MaxChunks THEN total \div MaxChunks ELSE total

\* _publish_progress: an event row is added and the session flushed; a failed flush is
\* logged and ignored.
Reported(s, taken) == Flush([s EXCEPT !.broken = @ \/ ~taken])

ReportDue(s) ==
  s.done % ChunkSize(Len(s.file)) = 0 \/ s.done = Len(s.file)

-------------------------------------------------------------------------------
(* The task *)

Running == {j \in Jobs : job[j].pc \in {"running", "stored"}}

Committed == {j \in Jobs : job[j].pc \in {"stored", "done", "unlogged"}}

StartJob(j) ==
  /\ job[j].pc = "queued"
  /\ job' = [job EXCEPT ![j].pc = "running", ![j].before = Committed]
  /\ UNCHANGED <<ledger, names>>

\* One turn of the loop.
NextRow(j) ==
  LET s == job[j]
      after == [Handled(s, s.done + 1) EXCEPT !.done = @ + 1]
  IN /\ s.pc = "running" /\ s.done < Len(s.file)
     /\ \E taken \in {TRUE, ~OutboxFaults} :
          job' = [job EXCEPT ![j] = IF ReportDue(after) /\ ~Skipped(s, s.done + 1)
                                    THEN Reported(after, taken) ELSE after]
     /\ UNCHANGED <<ledger, names>>

\* The session is closed, and what it has not committed is gone.
Ended(s, pc) == [Empty(s) EXCEPT !.pc = pc]

\* Mutant of Store: a broken session is rolled back and the task goes on as if nothing
\* had happened.
StoreAnyway(j) ==
  LET s == Flush(job[j])
  IN /\ job[j].pc = "running" /\ job[j].done = Len(job[j].file)
     /\ ledger' = ledger \cup s.sent /\ names' = names \cup s.made
     /\ job' = [job EXCEPT ![j] = Ended(s, "stored")]

\* The one commit of the import.  On a broken session it raises, and the task fails.
Store(j) ==
  LET s == Flush(job[j])
  IN /\ job[j].pc = "running" /\ job[j].done = Len(job[j].file)
     /\ ledger' = ledger \cup s.sent /\ names' = names \cup s.made
     /\ job' = [job EXCEPT ![j] = Ended(s, IF s.broken THEN "failed" ELSE "stored")]

\* The audit row is a transaction of its own, and its commit ends the task.
Log(j) ==
  /\ job[j].pc = "stored"
  /\ job' = [job EXCEPT ![j].pc = "done"]
  /\ UNCHANGED <<ledger, names>>

\* The worker dies.  Tasks are acknowledged when they start: nobody runs j again.
Crash(j) ==
  /\ j \in Running
  /\ job' = [job EXCEPT ![j] = Ended(@, IF @.pc = "stored" THEN "unlogged" ELSE "lost")]
  /\ UNCHANGED <<ledger, names>>

Next == \E j \in Jobs : StartJob(j) \/ NextRow(j) \/ Store(j) \/ Log(j) \/ Crash(j)

Spec == Init /\ [][Next]_vars
-------------------------------------------------------------------------------
(* Properties *)

States == {"queued", "running", "stored", "done", "failed", "lost", "unlogged"}

\* The counters stay within the file, a broken or closed session holds nothing, and a row or
\* customer is held by one session or the tables, not both.
TypeOK ==
  /\ ledger \subseteq [job : Jobs, line : Nat, key : Keys]
  /\ names \subseteq [job : Jobs, line : Nat, name : Customers]
  /\ \A j \in Jobs :
       LET s == job[j]
       IN /\ s.id = j /\ s.pc \in States /\ s.file \in Files /\ s.before \subseteq Committed
          /\ s.done <= Len(s.file) /\ s.imported + s.errors <= s.done
          /\ s.broken \/ s.pc # "running" => s.added = {} /\ s.sent = {} /\ s.made = {}
          /\ s.added \cap s.sent = {}
          /\ \A x \in s.added \cup s.sent \cup s.made : x.job = j /\ x.line \in 1..s.done
          /\ (\A row \in s.added \cup s.sent : row \notin ledger) /\ s.made \cap names = {}

\* What a job reports as imported is what the table holds of it, and a job that did not
\* commit left nothing: rows counted before a flush failed are not reported, and no commit
\* stores rows that were not counted.
ReportedIsStored ==
  \A j \in Jobs :
     Cardinality({row \in ledger : row.job = j}) = IF j \in Committed THEN job[j].imported ELSE 0

\* No row of this line's key is in the ledger.
Missing(line) == \A row \in ledger : row.key # line.key

\* A finished import leaves no line of its file out in silence: each line that the ledger
\* misses has its entry among the reported errors, and it is missing for a reason, because it
\* could not be read or because two imports side by side made its customer twice.
NothingDropped ==
  \A j \in Committed :
     LET missing == {n \in 1..Len(job[j].file) : Missing(job[j].file[n])}
     IN /\ Cardinality(missing) <= job[j].errors
        /\ \A n \in missing :
             job[j].file[n].kind # "unreadable" =>
               \E c, d \in names : c # d /\ {c.name, d.name} = {job[j].file[n].customer}

\* "All idempotent" (jobs.py): a job that starts when its file has been imported adds
\* nothing, whatever runs beside it.
ReimportAddsNothing ==
  [][\A j \in Jobs :
       /\ job[j].pc = "running" /\ job'[j].pc = "stored"
       /\ \E i \in job[j].before : job[i].file = job[j].file
       => ledger' = ledger /\ names' = names]_vars
===============================================================================
