------------------------- MODULE ImportAndResetProofs -------------------------
(***************************************************************************)
(* Proofs about two components that share nothing, CsvImport for any      *)
(* jobs, files and chunk sizes, and PasswordReset for any tokens and       *)
(* requests.                                                               *)
(*                                                                         *)
(* CsvImport: IInv is inductive.  A session that is not broken holds the   *)
(* rows it has counted, every line it has read is settled by what it sees, *)
(* and what a committed job has left in the tables settles its whole file  *)
(* for whoever imports it again.  From it the four properties, and, with   *)
(* DInv on top of it, which imports can store one key twice.               *)
(*                                                                         *)
(* PasswordReset: ResetInv is inductive, hence no token that a committed   *)
(* reset has seen changes the password again.                              *)
(***************************************************************************)
EXTENDS CsvImport, PasswordReset, FiniteSetTheorems, TLAPS

RowsOfLedger == [job : Jobs, line : Nat, key : Keys]

CustomersOfTable == [job : Jobs, line : Nat, name : Customers]

Session ==
  [id : Jobs, pc : States, file : Files, done : Nat, imported : Nat, errors : Nat,
   added : SUBSET RowsOfLedger, sent : SUBSET RowsOfLedger, made : SUBSET CustomersOfTable,
   broken : BOOLEAN, before : SUBSET Jobs]

\* What a session holds, on its way to the database.
Held(s) == s.added \cup s.sent

\* s and t are the same execution, at the same line.
Same(s, t) ==
  /\ s \in Session /\ t \in Session
  /\ t.id = s.id /\ t.pc = s.pc /\ t.file = s.file /\ t.done = s.done /\ t.before = s.before

-------------------------------------------------------------------------------
(* Imports: the session *)

LEMMA EmptyIs ==
  ASSUME NEW s \in Session
  PROVE  /\ Same(s, Empty(s))
         /\ Empty(s).imported = s.imported /\ Empty(s).errors = s.errors
         /\ Empty(s).added = {} /\ Empty(s).sent = {} /\ Empty(s).made = {}
         /\ Empty(s).broken = s.broken
  BY DEF Empty, Same, Session

LEMMA SentIs ==
  ASSUME NEW s \in Session
  PROVE  /\ Same(s, Sent(s))
         /\ Sent(s).imported = s.imported /\ Sent(s).errors = s.errors
         /\ Sent(s).added = {} /\ Sent(s).sent = Held(s) /\ Sent(s).made = s.made
         /\ Sent(s).broken = s.broken
  BY DEF Sent, Same, Session, Held

LEMMA BrokenIs ==
  ASSUME NEW s \in Session, NEW b \in BOOLEAN
  PROVE  /\ Same(s, [s EXCEPT !.broken = b])
         /\ [s EXCEPT !.broken = b].imported = s.imported
         /\ [s EXCEPT !.broken = b].errors = s.errors
         /\ [s EXCEPT !.broken = b].added = s.added
         /\ [s EXCEPT !.broken = b].sent = s.sent
         /\ [s EXCEPT !.broken = b].made = s.made
         /\ [s EXCEPT !.broken = b].broken = b
  BY DEF Same, Session

LEMMA FlushIs ==
  ASSUME NEW s \in Session
  PROVE  /\ Same(s, Flush(s))
         /\ Flush(s).imported = s.imported /\ Flush(s).errors = s.errors
         /\ Flush(s).added = {}
         /\ Refused(s) => Flush(s).broken /\ Flush(s).sent = {} /\ Flush(s).made = {}
         /\ ~Refused(s) => /\ ~Flush(s).broken /\ ~s.broken
                           /\ Flush(s).sent = Held(s) /\ Flush(s).made = s.made
<1>1. CASE Refused(s)
  <2> DEFINE e == Empty(s)
  <2>1. /\ e \in Session /\ e.imported = s.imported /\ e.errors = s.errors
        /\ e.added = {} /\ e.sent = {} /\ e.made = {} /\ Same(s, e)
    BY EmptyIs DEF Same
  <2> HIDE DEF e
  <2>2. Same(s, [e EXCEPT !.broken = TRUE])
    BY <2>1, BrokenIs DEF Same
  <2>3. Flush(s) = [e EXCEPT !.broken = TRUE]
    BY <1>1 DEF Flush, e
  <2> QED
    BY <1>1, <2>1, <2>2, <2>3, BrokenIs
<1>2. CASE ~Refused(s)
  <2>1. ~s.broken
    BY <1>2 DEF Refused
  <2>2. Flush(s) = Sent(s)
    BY <1>2 DEF Flush
  <2> QED
    BY <1>2, <2>1, <2>2, SentIs
<1> QED
  BY <1>1, <1>2
\* Counting an error changes nothing else.
LEMMA ErrorIs ==
  ASSUME NEW s \in Session
  PROVE  /\ Same(s, [s EXCEPT !.errors = @ + 1])
         /\ [s EXCEPT !.errors = @ + 1].imported = s.imported
         /\ [s EXCEPT !.errors = @ + 1].errors = s.errors + 1
         /\ [s EXCEPT !.errors = @ + 1].added = s.added
         /\ [s EXCEPT !.errors = @ + 1].sent = s.sent
         /\ [s EXCEPT !.errors = @ + 1].made = s.made
         /\ [s EXCEPT !.errors = @ + 1].broken = s.broken
  BY DEF Same, Session

LEMMA LineIs ==
  ASSUME NEW f \in Files, NEW n \in 1..Len(f)
  PROVE  /\ f \in Seq(Rows) /\ Len(f) \in Nat /\ n \in Nat /\ f[n] \in Rows
         /\ f[n].key \in Keys
         /\ f[n].customer # NoCustomer => f[n].customer \in Customers
<1>1. f \in Seq(Rows)
  BY FilesOK
<1>2. Len(f) \in Nat /\ n \in Nat /\ f[n] \in Rows
  BY <1>1
<1> QED
  BY <1>1, <1>2 DEF Keys, Customers

LEMMA RowIs ==
  ASSUME NEW s \in Session, NEW n \in 1..Len(s.file)
  PROVE  /\ Row(s, n) \in RowsOfLedger
         /\ Row(s, n).job = s.id /\ Row(s, n).line = n /\ Row(s, n).key = s.file[n].key
<1>1. s.file \in Files /\ s.id \in Jobs
  BY DEF Session
<1>2. s.file[n].key \in Keys /\ n \in Nat
  BY <1>1, LineIs
<1> QED
  BY <1>1, <1>2 DEF Row, RowsOfLedger

LEMMA CustomerIs ==
  ASSUME NEW s \in Session, NEW n \in 1..Len(s.file), s.file[n].customer # NoCustomer
  PROVE  /\ Customer(s, n) \in CustomersOfTable
         /\ Customer(s, n).job = s.id /\ Customer(s, n).name = s.file[n].customer
<1>1. s.file \in Files /\ s.id \in Jobs
  BY DEF Session
<1>2. s.file[n].customer \in Customers /\ n \in Nat
  BY <1>1, LineIs
<1> QED
  BY <1>1, <1>2 DEF Customer, CustomersOfTable

\* Looking a row up adds it, leaves it, or counts an error.
LEMMA LookupIs ==
  ASSUME NEW s \in Session, NEW n \in 1..Len(s.file)
  PROVE  LET t == Lookup(s, n)
             found == Found(s, s.file[n].key)
         IN /\ Same(s, t) /\ t.sent = s.sent /\ t.made = s.made /\ t.broken = s.broken
            /\ found = {} => /\ t.added = s.added \cup {Row(s, n)}
                             /\ t.imported = s.imported + 1 /\ t.errors = s.errors
            /\ found # {} => /\ t.added = s.added /\ t.imported = s.imported
                             /\ t.errors \in {s.errors, s.errors + 1}
<1> DEFINE found == Found(s, s.file[n].key)
<1>1. CASE found = {}
  <2> DEFINE u == [s EXCEPT !.added = @ \cup {Row(s, n)}]
             t == [u EXCEPT !.imported = s.imported + 1]
  <2>1. Lookup(s, n) = t
    BY <1>1 DEF Lookup
  <2>2. s.added \cup {Row(s, n)} \in SUBSET RowsOfLedger
    BY RowIs DEF Session
  <2>3. /\ Same(s, u) /\ u.sent = s.sent /\ u.made = s.made /\ u.broken = s.broken
        /\ u.added = s.added \cup {Row(s, n)}
        /\ u.imported = s.imported /\ u.errors = s.errors
    <3> HIDE DEF RowsOfLedger
    <3> QED
      BY <2>2 DEF Same, Session
  <2>4. /\ Same(u, t) /\ t.sent = u.sent /\ t.made = u.made /\ t.broken = u.broken
        /\ t.added = u.added /\ t.imported = s.imported + 1 /\ t.errors = u.errors
    <3>1. s.imported + 1 \in Nat
      BY DEF Session
    <3> HIDE DEF u
    <3> QED
      BY <2>3, <3>1 DEF Same, Session
  <2> HIDE DEF t, u
  <2> QED
    BY <1>1, <2>1, <2>3, <2>4 DEF Same
<1>2. CASE found # {} /\ One(found)
  <2>1. Lookup(s, n) = s
    BY <1>2 DEF Lookup
  <2> QED
    BY <1>2, <2>1 DEF Same
<1>3. CASE found # {} /\ ~One(found)
  <2>1. Lookup(s, n) = [s EXCEPT !.errors = @ + 1]
    BY <1>3 DEF Lookup
  <2> QED
    BY <1>3, <2>1, ErrorIs
<1> QED
  BY <1>1, <1>2, <1>3

\* A customer that is there changes nothing; an unknown one is made, after a flush.
LEMMA WithCustomerIs ==
  ASSUME NEW s \in Session, NEW n \in 1..Len(s.file)
  PROVE  LET t == WithCustomer(s, n)
             c == s.file[n].customer
         IN /\ Same(s, t) /\ t.imported = s.imported /\ t.errors = s.errors
            /\ c = NoCustomer \/ Named(s, c) # {} => t = s
            /\ ~(c = NoCustomer \/ Named(s, c) # {}) /\ Refused(s) =>
                 t.broken /\ t.added = {} /\ t.sent = {} /\ t.made = {}
            /\ ~(c = NoCustomer \/ Named(s, c) # {}) /\ ~Refused(s) =>
                 /\ ~t.broken /\ t.added = {} /\ t.sent = Held(s)
                 /\ t.made = s.made \cup {Customer(s, n)}
<1> DEFINE c == s.file[n].customer
           known == c = NoCustomer \/ Named(s, c) # {}
           flushed == Flush(s)
<1>1. CASE known
  <2>1. WithCustomer(s, n) = s
    BY <1>1 DEF WithCustomer
  <2> QED
    BY <1>1, <2>1 DEF Same
<1>2. CASE ~known /\ Refused(s)
  <2>1. WithCustomer(s, n) = flushed
    BY <1>2, FlushIs DEF WithCustomer
  <2> QED
    BY <1>2, <2>1, FlushIs
<1>3. CASE ~known /\ ~Refused(s)
  <2> DEFINE t == [flushed EXCEPT !.made = @ \cup {Customer(s, n)}]
  <2>1. WithCustomer(s, n) = t
    BY <1>3, FlushIs DEF WithCustomer
  <2>2. /\ Same(s, flushed) /\ flushed.imported = s.imported /\ flushed.errors = s.errors
        /\ ~flushed.broken /\ flushed.added = {}
        /\ flushed.sent = Held(s) /\ flushed.made = s.made
    BY <1>3, FlushIs
  <2>3. s.made \cup {Customer(s, n)} \in SUBSET CustomersOfTable
    BY <1>3, CustomerIs DEF Session
  <2>4. /\ Same(s, t) /\ t.imported = s.imported /\ t.errors = s.errors /\ ~t.broken
        /\ t.added = {} /\ t.sent = Held(s) /\ t.made = s.made \cup {Customer(s, n)}
    <3> HIDE DEF flushed
    <3> QED
      BY <2>2, <2>3 DEF Same, Session
  <2> HIDE DEF t, flushed, c
  <2> QED
    BY <1>3, <2>1, <2>4 DEF c
<1> QED
  BY <1>1, <1>2, <1>3
-------------------------------------------------------------------------------
(* Imports: the inductive invariant *)

\* A line is dealt with, as far as these rows and customers show: an error was counted, for
\* a reason that will be there again, or a row of its key is there, and its customer with it.
Settled(line, errors, stored, customers) ==
  \/ /\ errors > 0
     /\ \/ line.kind = "unreadable"
        \/ \E c, d \in customers : c # d /\ c.name = line.customer /\ d.name = line.customer
  \/ /\ \E row \in stored : row.key = line.key
     /\ line.customer # NoCustomer => \E c \in customers : c.name = line.customer

\* After n lines a session holds rows and customers of these lines; unless it is broken, the
\* rows it has counted.
Balanced(s, n) ==
  /\ s.imported + s.errors <= n
  /\ IsFiniteSet(Held(s)) /\ s.added \cap s.sent = {}
  /\ \A row \in Held(s) : \E m \in 1..n : row = Row(s, m)
  /\ \A c \in s.made : \E m \in 1..n : c = Customer(s, m)
  /\ s.broken \/ s.pc # "running" => Held(s) = {} /\ s.made = {}
  /\ ~s.broken /\ s.pc = "running" => s.imported = Cardinality(Held(s))

\* The first n lines of a file that no stored row stands for.
Lost(f, n, stored) == {m \in 1..n : \A row \in stored : row.key # f[m].key}

\* ... and n lines are dealt with, by what it sees; those without a row are counted.
Settles(s, n) ==
  ~s.broken /\ s.pc \notin {"failed", "lost"} =>
     /\ \A m \in 1..n : Settled(s.file[m], s.errors, ledger \cup Held(s), names \cup s.made)
     /\ Cardinality(Lost(s.file, n, ledger \cup Held(s))) <= s.errors

\* The tables are enough to settle every line of f.
Imported(f) == \A m \in 1..Len(f) : Settled(f[m], 1, ledger, names)

\* Where the counters and the commit of execution j are.
Counted(j) ==
  LET s == job[j]
  IN /\ s.id = j /\ s.before \subseteq Committed
     /\ s.done <= Len(s.file)
     /\ s.pc = "queued" => s.done = 0
     /\ j \in Committed => s.done = Len(s.file) /\ ~s.broken

\* The tables hold what committed executions have put there.
Tables ==
  /\ IsFiniteSet(ledger) /\ ledger \subseteq RowsOfLedger /\ names \subseteq CustomersOfTable
  /\ \A row \in ledger : row.job \in Committed
  /\ \A c \in names : c.job \in Committed
  /\ \A j \in Committed : Cardinality({row \in ledger : row.job = j}) = job[j].imported

\* An execution that repeats a committed one finds everything there.
Repeats(j) ==
  (\E i \in job[j].before : job[i].file = job[j].file) => Held(job[j]) = {} /\ job[j].made = {}

IInv ==
  /\ job \in [Jobs -> Session] /\ Tables
  /\ \A j \in Jobs : /\ Counted(j) /\ Repeats(j)
                     /\ Balanced(job[j], job[j].done) /\ Settles(job[j], job[j].done)

LEMMA SettledGrows ==
  ASSUME NEW line, NEW e \in Nat, NEW f \in Nat, e <= f,
         NEW R, NEW S, R \subseteq S, NEW C, NEW D, C \subseteq D,
         Settled(line, e, R, C)
  PROVE  Settled(line, f, S, D)
<1>1. CASE e > 0 /\ line.kind = "unreadable"
  BY <1>1 DEF Settled
<1>2. CASE e > 0 /\ \E c, d \in C : c # d /\ c.name = line.customer /\ d.name = line.customer
  <2>1. f > 0
    BY <1>2
  <2>2. \E c, d \in D : c # d /\ c.name = line.customer /\ d.name = line.customer
    BY <1>2
  <2> QED
    BY <2>1, <2>2 DEF Settled
<1>3. CASE (\E row \in R : row.key = line.key) /\
           (line.customer # NoCustomer => \E c \in C : c.name = line.customer)
  BY <1>3 DEF Settled
<1> QED
  BY <1>1, <1>2, <1>3 DEF Settled

LEMMA LostIs ==
  ASSUME NEW f, NEW n \in Nat, NEW R, NEW S, R \subseteq S
  PROVE  /\ Cardinality(Lost(f, n, S)) \in Nat
         /\ Cardinality(Lost(f, n, S)) <= Cardinality(Lost(f, n, R))
         /\ Cardinality(Lost(f, n + 1, S)) <= Cardinality(Lost(f, n, R)) + 1
         /\ (\E row \in S : row.key = f[n + 1].key) =>
              Cardinality(Lost(f, n + 1, S)) <= Cardinality(Lost(f, n, R))
         /\ Cardinality(Lost(f, 0, S)) = 0
<1>1. IsFiniteSet(1..n) /\ IsFiniteSet(1..(n + 1))
  BY FS_Interval
<1>2. Lost(f, n, R) \subseteq 1..n /\ IsFiniteSet(Lost(f, n, R))
  BY <1>1, FS_Subset DEF Lost
<1>3. Lost(f, n, S) \subseteq Lost(f, n, R)
  BY DEF Lost
<1>4. Lost(f, n + 1, S) \subseteq Lost(f, n, R) \cup {n + 1}
  BY DEF Lost
<1>5. (\E row \in S : row.key = f[n + 1].key) => Lost(f, n + 1, S) \subseteq Lost(f, n, R)
  BY DEF Lost
<1>6. Lost(f, 0, S) = {}
  BY DEF Lost
<1>7. n + 1 \notin Lost(f, n, R)
  BY <1>2
<1>8. /\ IsFiniteSet(Lost(f, n, R) \cup {n + 1})
      /\ Cardinality(Lost(f, n, R) \cup {n + 1}) = Cardinality(Lost(f, n, R)) + 1
  BY <1>2, <1>7, FS_AddElement
<1>9. /\ Cardinality(Lost(f, n, R)) \in Nat
      /\ IsFiniteSet(Lost(f, n, S)) /\ Cardinality(Lost(f, n, S)) <= Cardinality(Lost(f, n, R))
  BY <1>2, <1>3, FS_Subset, FS_CardinalityType
<1>10. Cardinality(Lost(f, n, S)) \in Nat
  BY <1>9, FS_CardinalityType
<1>11. Cardinality(Lost(f, n + 1, S)) <= Cardinality(Lost(f, n, R)) + 1
  BY <1>4, <1>8, FS_Subset
<1>12. Lost(f, n + 1, S) \subseteq Lost(f, n, R) =>
         Cardinality(Lost(f, n + 1, S)) <= Cardinality(Lost(f, n, R))
  BY <1>2, FS_Subset
<1> QED
  BY <1>5, <1>6, <1>9, <1>10, <1>11, <1>12, FS_EmptySet

LEMMA SameRows ==
  ASSUME NEW s, NEW t, Same(s, t), NEW m
  PROVE  Row(t, m) = Row(s, m) /\ Customer(t, m) = Customer(s, m)
  BY DEF Same, Row, Customer

\* A line whose customer is known twice.
LEMMA AmbiguousIs ==
  ASSUME NEW s \in Session, NEW n \in 1..Len(s.file), Ambiguous(s, n)
  PROVE  \E c, d \in names \cup s.made :
            c # d /\ c.name = s.file[n].customer /\ d.name = s.file[n].customer
<1> DEFINE named == Named(s, s.file[n].customer)
<1>1. named # {} /\ ~One(named)
  BY DEF Ambiguous
<1>2. PICK c \in named : TRUE
  BY <1>1
<1>3. named # {c}
  BY <1>1 DEF One
<1>4. PICK d \in named : d # c
  BY <1>2, <1>3
<1> QED
  BY <1>2, <1>4 DEF Named

-------------------------------------------------------------------------------
(* Imports: one line *)

\* A line that ends as an error and leaves the session as it is.
LEMMA ErrorKeeps ==
  ASSUME NEW s \in Session, s.pc = "running", NEW d \in Nat, d < Len(s.file),
         Balanced(s, d), Settles(s, d),
         s.file[d + 1].kind = "unreadable" \/ s.broken \/ Ambiguous(s, d + 1)
  PROVE  LET t == [s EXCEPT !.errors = @ + 1]
         IN Balanced(t, d + 1) /\ Settles(t, d + 1)
<1> DEFINE t == [s EXCEPT !.errors = @ + 1]
<1>0. s.file \in Files /\ s.imported \in Nat /\ s.errors \in Nat
  BY DEF Session
<1>1. /\ Same(s, t) /\ t.imported = s.imported /\ t.errors = s.errors + 1
      /\ t.added = s.added /\ t.sent = s.sent /\ t.made = s.made /\ t.broken = s.broken
  BY ErrorIs
<1> HIDE DEF t
<1>2. Held(t) = Held(s) /\ t.pc = s.pc /\ t.file = s.file
  BY <1>1 DEF Held, Same
<1>3. \A m \in 1..d : m \in 1..(d + 1)
  OBVIOUS
<1>4. Balanced(t, d + 1)
  <2>1. t.imported + t.errors <= d + 1
    BY <1>0, <1>1 DEF Balanced
  <2>2. \A row \in Held(t) : \E m \in 1..(d + 1) : row = Row(t, m)
    BY <1>1, <1>2, <1>3, SameRows DEF Balanced
  <2>3. \A c \in t.made : \E m \in 1..(d + 1) : c = Customer(t, m)
    BY <1>1, <1>3, SameRows DEF Balanced
  <2> QED
    BY <1>1, <1>2, <2>1, <2>2, <2>3 DEF Balanced
<1>6. ~s.broken => Cardinality(Lost(s.file, d + 1, ledger \cup Held(s))) <= s.errors + 1
  <2> DEFINE R == ledger \cup Held(s)
  <2>1. ~s.broken => Cardinality(Lost(s.file, d, R)) <= s.errors
    BY DEF Settles
  <2> HIDE DEF R
  <2>2. /\ Cardinality(Lost(s.file, d, R)) \in Nat
        /\ Cardinality(Lost(s.file, d + 1, R)) <= Cardinality(Lost(s.file, d, R)) + 1
    BY LostIs
  <2>3. Cardinality(Lost(s.file, d + 1, R)) \in Nat
    <3>1. d + 1 \in Nat
      OBVIOUS
    <3> QED BY <3>1, LostIs
  <2> QED BY <1>0, <2>1, <2>2, <2>3 DEF R
<1>5. Settles(t, d + 1)
  <2> SUFFICES ASSUME ~s.broken, NEW m \in 1..(d + 1)
               PROVE  Settled(s.file[m], s.errors + 1, ledger \cup Held(s), names \cup s.made)
    BY <1>1, <1>2, <1>6 DEF Settles
  <2>1. CASE m \in 1..d
    <3>1. Settled(s.file[m], s.errors, ledger \cup Held(s), names \cup s.made)
      BY <2>1 DEF Settles
    <3> QED
      BY <1>0, <3>1, SettledGrows
  <2>2. CASE m = d + 1
    <3>1. m \in 1..Len(s.file)
      BY <1>0, <2>2, LineIs
    <3>2. s.errors + 1 > 0
      BY <1>0
    <3>3. \/ s.file[m].kind = "unreadable"
          \/ \E c, e \in names \cup s.made :
               c # e /\ c.name = s.file[m].customer /\ e.name = s.file[m].customer
      BY <2>2, <3>1, AmbiguousIs
    <3> QED
      BY <3>2, <3>3 DEF Settled
  <2> QED
    BY <2>1, <2>2
<1> QED
  BY <1>4, <1>5 DEF t
\* A line whose customer is known is looked up, in a session that is not broken.
LEMMA LookupKeeps ==
  ASSUME NEW s \in Session, s.pc = "running", ~s.broken, NEW d \in Nat, d < Len(s.file),
         s.imported + s.errors <= d, s.imported = Cardinality(Held(s)),
         IsFiniteSet(Held(s)), s.added \cap s.sent = {},
         \A row \in Held(s) : \E m \in 1..d : row = Row(s, m),
         \A c \in s.made : \E m \in 1..(d + 1) : c = Customer(s, m),
         \A m \in 1..d : Settled(s.file[m], s.errors, ledger \cup Held(s), names \cup s.made),
         Cardinality(Lost(s.file, d, ledger \cup Held(s))) <= s.errors,
         s.file[d + 1].customer # NoCustomer =>
            \E c \in names \cup s.made : c.name = s.file[d + 1].customer
  PROVE  Balanced(Lookup(s, d + 1), d + 1) /\ Settles(Lookup(s, d + 1), d + 1)
<1> DEFINE t == Lookup(s, d + 1)
           line == s.file[d + 1]
           found == Found(s, line.key)
           row == Row(s, d + 1)
<1>0. s.file \in Files /\ s.imported \in Nat /\ s.errors \in Nat
  BY DEF Session
<1>1. d + 1 \in 1..Len(s.file)
  BY <1>0, LineIs
<1>2. /\ Same(s, t) /\ t.sent = s.sent /\ t.made = s.made /\ t.broken = s.broken
      /\ found = {} => /\ t.added = s.added \cup {row}
                       /\ t.imported = s.imported + 1 /\ t.errors = s.errors
      /\ found # {} => /\ t.added = s.added /\ t.imported = s.imported
                       /\ t.errors \in {s.errors, s.errors + 1}
  BY <1>1, LookupIs
<1>3. t.pc = s.pc /\ t.file = s.file
  BY <1>2 DEF Same
<1>4. row.line = d + 1 /\ row.key = line.key
  BY <1>1, RowIs
<1>5. row \notin Held(s)
  <2> SUFFICES ASSUME row \in Held(s) PROVE FALSE
    OBVIOUS
  <2>1. PICK m \in 1..d : row = Row(s, m)
    OBVIOUS
  <2>2. m \in 1..Len(s.file)
    BY <1>1
  <2>3. row.line = m
    BY <2>1, <2>2, RowIs
  <2> QED
    BY <1>4, <2>3
<1> HIDE DEF t, row, line, found
<1>6. /\ found = {} => Held(t) = Held(s) \cup {row}
      /\ found # {} => Held(t) = Held(s)
  BY <1>2 DEF Held
<1>7. t.imported + t.errors <= d + 1
  BY <1>0, <1>2
<1>8. IsFiniteSet(Held(t)) /\ t.imported = Cardinality(Held(t))
  <2>1. CASE found = {}
    BY <1>2, <1>5, <1>6, <2>1, FS_AddElement
  <2>2. CASE found # {}
    BY <1>2, <1>6, <2>2
  <2> QED
    BY <2>1, <2>2
<1>9. t.added \cap t.sent = {}
  BY <1>2, <1>5 DEF Held
<1>10. \A x \in Held(t) : \E m \in 1..(d + 1) : x = Row(t, m)
  <2> SUFFICES ASSUME NEW x \in Held(t) PROVE \E m \in 1..(d + 1) : x = Row(s, m)
    BY <1>2, SameRows
  <2>1. CASE x \in Held(s)
    <3>1. PICK m \in 1..d : x = Row(s, m)
      BY <2>1
    <3>2. m \in 1..(d + 1)
      OBVIOUS
    <3> QED
      BY <3>1, <3>2
  <2>2. CASE x = row
    <3>1. d + 1 \in 1..(d + 1)
      OBVIOUS
    <3> QED
      BY <2>2, <3>1 DEF row
  <2> QED
    BY <1>6, <2>1, <2>2
<1>11. \A c \in t.made : \E m \in 1..(d + 1) : c = Customer(t, m)
  BY <1>2, SameRows
<1>12. Balanced(t, d + 1)
  BY <1>2, <1>3, <1>7, <1>8, <1>9, <1>10, <1>11 DEF Balanced
<1>13. \E x \in ledger \cup Held(t) : x.key = line.key
  <2>1. CASE found = {}
    BY <1>4, <1>6, <2>1
  <2>2. CASE found # {}
    BY <1>6, <2>2 DEF found, Found, Held
  <2> QED
    BY <2>1, <2>2
<1>14. ASSUME NEW m \in 1..(d + 1)
       PROVE  Settled(s.file[m], t.errors, ledger \cup Held(t), names \cup t.made)
  <2>1. CASE m \in 1..d
    <3>1. Settled(s.file[m], s.errors, ledger \cup Held(s), names \cup s.made)
      BY <2>1
    <3>2. t.errors \in Nat /\ s.errors <= t.errors
      BY <1>0, <1>2
    <3>3. /\ ledger \cup Held(s) \subseteq ledger \cup Held(t)
          /\ names \cup s.made \subseteq names \cup t.made
      BY <1>2, <1>6
    <3> QED
      BY <1>0, <3>1, <3>2, <3>3, SettledGrows
  <2>2. CASE m = d + 1
    BY <1>2, <1>13, <2>2 DEF Settled, line
  <2> QED
    BY <2>1, <2>2
<1>15. Settles(t, d + 1)
  <2> DEFINE R == ledger \cup Held(s)
             S == ledger \cup Held(t)
  <2>1. R \subseteq S /\ (\E x \in S : x.key = s.file[d + 1].key) /\ d + 1 \in Nat
    BY <1>6, <1>13 DEF line
  <2>2. Cardinality(Lost(s.file, d, R)) <= s.errors
    OBVIOUS
  <2>3. t.errors \in Nat /\ s.errors <= t.errors
    BY <1>0, <1>2
  <2> HIDE DEF R, S
  <2>4. Cardinality(Lost(s.file, d + 1, S)) <= Cardinality(Lost(s.file, d, R))
    BY <2>1, LostIs
  <2>5. Cardinality(Lost(s.file, d, R)) \in Nat /\ Cardinality(Lost(s.file, d + 1, S)) \in Nat
    BY <2>1, LostIs
  <2>6. Cardinality(Lost(s.file, d + 1, S)) <= t.errors
    BY <1>0, <2>2, <2>3, <2>4, <2>5
  <2> QED
    BY <1>3, <1>14, <2>6 DEF Settles, S
<1> QED
  BY <1>12, <1>15 DEF t

\* One turn of the loop keeps the session balanced, with one more line behind it.
LEMMA HandledKeeps ==
  ASSUME NEW s \in Session, s.pc = "running", NEW d \in Nat, d < Len(s.file),
         Balanced(s, d), Settles(s, d)
  PROVE  /\ Same(s, Handled(s, d + 1))
         /\ Balanced(Handled(s, d + 1), d + 1) /\ Settles(Handled(s, d + 1), d + 1)
<1> DEFINE n == d + 1
           line == s.file[n]
           ready == WithCustomer(s, n)
           fails == line.kind = "unreadable" \/ s.broken \/ Ambiguous(s, n)
           known == line.customer = NoCustomer \/ Named(s, line.customer) # {}
           t == Handled(s, n)
<1>0. s.file \in Files /\ s.imported \in Nat /\ s.errors \in Nat
  BY DEF Session
<1>1. n \in 1..Len(s.file)
  BY <1>0, LineIs
<1>2. CASE fails
  <2>1. t = [s EXCEPT !.errors = @ + 1]
    BY <1>2 DEF Handled
  <2>2. Same(s, [s EXCEPT !.errors = @ + 1])
    BY ErrorIs
  <2>3. LET u == [s EXCEPT !.errors = @ + 1] IN Balanced(u, d + 1) /\ Settles(u, d + 1)
    BY <1>2, ErrorKeeps
  <2> QED
    BY <2>1, <2>2, <2>3
<1>3. /\ Same(s, ready) /\ ready.imported = s.imported /\ ready.errors = s.errors
      /\ known => ready = s
      /\ ~known /\ Refused(s) =>
           ready.broken /\ ready.added = {} /\ ready.sent = {} /\ ready.made = {}
      /\ ~known /\ ~Refused(s) =>
           /\ ~ready.broken /\ ready.added = {} /\ ready.sent = Held(s)
           /\ ready.made = s.made \cup {Customer(s, n)}
  BY <1>1, WithCustomerIs
<1>4. CASE ~fails /\ ready.broken
  <2> DEFINE u == [ready EXCEPT !.errors = @ + 1]
  <2>1. t = u
    BY <1>4 DEF Handled
  <2>2. ~known /\ Refused(s)
    BY <1>3, <1>4
  <2>3. /\ Same(ready, u) /\ u.imported = s.imported /\ u.errors = s.errors + 1
        /\ u.added = {} /\ u.sent = {} /\ u.made = {} /\ u.broken
    BY <1>3, <1>4, <2>2, ErrorIs DEF Same
  <2> HIDE DEF u, known, ready
  <2>4. Same(s, u) /\ Held(u) = {}
    BY <1>3, <2>3 DEF Same, Held
  <2>5. u.imported + u.errors <= d + 1
    BY <1>0, <2>3 DEF Balanced
  <2>6. Balanced(u, d + 1) /\ Settles(u, d + 1)
    BY <2>3, <2>4, <2>5, FS_EmptySet DEF Balanced, Settles
  <2> QED
    BY <2>1, <2>4, <2>6
<1>5. CASE ~fails /\ ~ready.broken
  <2>1. t = Lookup(ready, n)
    BY <1>5 DEF Handled
  <2>2. known \/ ~Refused(s)
    BY <1>3, <1>5
  <2>3. /\ Held(ready) = Held(s) /\ ready.added \cap ready.sent = {}
        /\ s.made \subseteq ready.made /\ ready.made \subseteq s.made \cup {Customer(s, n)}
    BY <1>3, <2>2 DEF Balanced, Held
  <2>4. ready \in Session /\ ready.pc = "running" /\ ready.file = s.file
    BY <1>3 DEF Same
  <2>5. line.customer # NoCustomer => \E c \in names \cup ready.made : c.name = line.customer
    <3>1. CASE known
      BY <1>3, <3>1 DEF Named
    <3>2. CASE ~known
      BY <1>1, <1>3, <2>2, <3>2, CustomerIs
    <3> QED
      BY <3>1, <3>2
  <2> HIDE DEF known, ready
  <2>6. s.imported + s.errors <= d /\ s.imported = Cardinality(Held(s)) /\ IsFiniteSet(Held(s))
    BY <1>5 DEF Balanced
  <2>7. \A row \in Held(ready) : \E m \in 1..d : row = Row(ready, m)
    BY <1>3, <2>3, SameRows DEF Balanced
  <2>8. \A c \in ready.made : \E m \in 1..(d + 1) : c = Customer(ready, m)
    <3> SUFFICES ASSUME NEW c \in ready.made PROVE \E m \in 1..(d + 1) : c = Customer(s, m)
      BY <1>3, SameRows
    <3>1. CASE c \in s.made
      <4>1. PICK m \in 1..d : c = Customer(s, m)
        BY <3>1 DEF Balanced
      <4>2. m \in 1..(d + 1)
        OBVIOUS
      <4> QED
        BY <4>1, <4>2
    <3>2. CASE c = Customer(s, n)
      <4>1. n \in 1..(d + 1)
        OBVIOUS
      <4> QED
        BY <3>2, <4>1
    <3> QED
      BY <2>3, <3>1, <3>2
  <2>9. ASSUME NEW m \in 1..d
        PROVE  Settled(ready.file[m], ready.errors, ledger \cup Held(ready),
                       names \cup ready.made)
    <3>1. Settled(s.file[m], s.errors, ledger \cup Held(s), names \cup s.made)
      BY <1>5 DEF Settles
    <3>2. names \cup s.made \subseteq names \cup ready.made
      BY <2>3
    <3>3. Settled(s.file[m], s.errors, ledger \cup Held(s), names \cup ready.made)
      BY <1>0, <3>1, <3>2, SettledGrows
    <3> QED
      BY <1>3, <2>3, <2>4, <3>3
  <2>12. Cardinality(Lost(ready.file, d, ledger \cup Held(ready))) <= ready.errors
    BY <1>3, <1>5, <2>3, <2>4 DEF Settles
  <2>10. Balanced(Lookup(ready, d + 1), d + 1) /\ Settles(Lookup(ready, d + 1), d + 1)
    BY <1>3, <1>5, <2>3, <2>4, <2>5, <2>6, <2>7, <2>8, <2>9, <2>12, LookupKeeps
  <2>11. Same(ready, Lookup(ready, n))
    BY <1>1, <2>4, LookupIs
  <2> QED
    BY <1>3, <2>1, <2>10, <2>11 DEF Same
<1> QED
  BY <1>2, <1>4, <1>5
\* A progress event: the session is flushed, or breaks and holds nothing any more.
LEMMA ReportedKeeps ==
  ASSUME NEW s \in Session, s.pc = "running", NEW d \in Nat, Balanced(s, d), Settles(s, d),
         NEW taken \in BOOLEAN
  PROVE  LET t == Reported(s, taken)
         IN /\ Same(s, t) /\ Balanced(t, d) /\ Settles(t, d)
            /\ Held(t) \subseteq Held(s) /\ t.made \subseteq s.made
<1> DEFINE b == s.broken \/ ~taken
           u == [s EXCEPT !.broken = b]
           t == Flush(u)
<1>1. b \in BOOLEAN /\ (~b => ~s.broken)
  OBVIOUS
<1>2. Reported(s, taken) = t
  BY DEF Reported
<1> HIDE DEF b
<1>3. /\ Same(s, u) /\ u.imported = s.imported /\ u.errors = s.errors
      /\ u.added = s.added /\ u.sent = s.sent /\ u.made = s.made /\ u.broken = b
  BY <1>1, BrokenIs
<1>4. u \in Session /\ Held(u) = Held(s)
  BY <1>3 DEF Same, Held
<1> HIDE DEF u
<1>5. /\ Same(u, t) /\ t.imported = s.imported /\ t.errors = s.errors /\ t.added = {}
      /\ Refused(u) => t.broken /\ t.sent = {} /\ t.made = {}
      /\ ~Refused(u) => /\ ~t.broken /\ ~s.broken
                        /\ t.sent = Held(s) /\ t.made = s.made
  BY <1>1, <1>3, <1>4, FlushIs
<1> HIDE DEF t
<1>6. Same(s, t) /\ t.pc = s.pc /\ t.file = s.file
  BY <1>3, <1>5 DEF Same
<1>7. CASE Refused(u)
  <2>1. Held(t) = {} /\ t.made = {} /\ t.broken
    BY <1>5, <1>7 DEF Held
  <2>2. Balanced(t, d)
    BY <1>5, <2>1, FS_EmptySet DEF Balanced
  <2>3. Settles(t, d)
    BY <2>1 DEF Settles
  <2> QED
    BY <1>2, <1>6, <2>1, <2>2, <2>3
<1>8. CASE ~Refused(u)
  <2>1. /\ Held(t) = Held(s) /\ t.made = s.made /\ ~t.broken /\ ~s.broken
        /\ t.added \cap t.sent = {}
    BY <1>5, <1>8 DEF Held
  <2>2. \A m \in 1..d : Row(t, m) = Row(s, m) /\ Customer(t, m) = Customer(s, m)
    BY <1>6, SameRows
  <2>3. Balanced(t, d)
    BY <1>5, <1>6, <2>1, <2>2 DEF Balanced
  <2>4. Settles(t, d)
    BY <1>5, <1>6, <2>1 DEF Settles
  <2> QED
    BY <1>2, <1>6, <2>1, <2>3, <2>4
<1> QED
  BY <1>7, <1>8

\* When the tables are enough for the file, a line changes nothing but the count of errors.
LEMMA HandledRepeats ==
  ASSUME NEW s \in Session, NEW n \in 1..Len(s.file), Imported(s.file),
         names \subseteq CustomersOfTable, Held(s) = {}, s.made = {}
  PROVE  Held(Handled(s, n)) = {} /\ Handled(s, n).made = {}
<1> DEFINE line == s.file[n]
           fails == line.kind = "unreadable" \/ s.broken \/ Ambiguous(s, n)
<1>1. CASE fails
  <2>1. Handled(s, n) = [s EXCEPT !.errors = @ + 1]
    BY <1>1 DEF Handled
  <2> QED
    BY <2>1, ErrorIs DEF Held
<1>2. CASE ~fails
  <2>1. Settled(line, 1, ledger, names)
    BY DEF Imported
  <2>2. ~ \E c, d \in names : c # d /\ c.name = line.customer /\ d.name = line.customer
    <3> SUFFICES ASSUME NEW c \in names, NEW d \in names, c # d,
                        c.name = line.customer, d.name = line.customer
                 PROVE  FALSE
      OBVIOUS
    <3>1. line.customer # NoCustomer
      BY DEF CustomersOfTable, Customers
    <3>2. c \in Named(s, line.customer) /\ d \in Named(s, line.customer)
      BY DEF Named
    <3>3. Ambiguous(s, n)
      BY <3>1, <3>2 DEF Ambiguous, One
    <3> QED
      BY <1>2, <3>3
  <2>3. /\ \E row \in ledger : row.key = line.key
        /\ line.customer # NoCustomer => \E c \in names : c.name = line.customer
    BY <1>2, <2>1, <2>2 DEF Settled
  <2>4. line.customer = NoCustomer \/ Named(s, line.customer) # {}
    BY <2>3 DEF Named
  <2>5. WithCustomer(s, n) = s
    BY <2>4, WithCustomerIs
  <2>6. Handled(s, n) = Lookup(s, n)
    BY <1>2, <2>5 DEF Handled
  <2>7. Found(s, line.key) # {}
    BY <2>3 DEF Found
  <2>8. Lookup(s, n).added = s.added /\ Lookup(s, n).sent = s.sent /\ Lookup(s, n).made = s.made
    BY <2>7, LookupIs
  <2> QED
    BY <2>6, <2>8 DEF Held
<1> QED
  BY <1>1, <1>2
LEMMA AfterIs ==
  ASSUME NEW s \in Session
  PROVE  LET t == [s EXCEPT !.done = @ + 1]
         IN /\ t \in Session /\ t.id = s.id /\ t.pc = s.pc /\ t.file = s.file
            /\ t.before = s.before /\ t.done = s.done + 1
            /\ t.imported = s.imported /\ t.errors = s.errors
            /\ t.added = s.added /\ t.sent = s.sent /\ t.made = s.made /\ t.broken = s.broken
  BY DEF Session

LEMMA EndedIs ==
  ASSUME NEW s \in Session, NEW end \in States
  PROVE  LET t == Ended(s, end)
         IN /\ t \in Session /\ t.id = s.id /\ t.pc = end /\ t.file = s.file
            /\ t.before = s.before /\ t.done = s.done
            /\ t.imported = s.imported /\ t.errors = s.errors
            /\ Held(t) = {} /\ t.made = {} /\ t.broken = s.broken
<1> DEFINE e == Empty(s)
           t == [e EXCEPT !.pc = end]
<1>1. /\ e \in Session /\ e.id = s.id /\ e.file = s.file /\ e.before = s.before
      /\ e.done = s.done /\ e.imported = s.imported /\ e.errors = s.errors
      /\ e.added = {} /\ e.sent = {} /\ e.made = {} /\ e.broken = s.broken
  BY EmptyIs DEF Same
<1> HIDE DEF e
<1>2. /\ t \in Session /\ t.id = e.id /\ t.pc = end /\ t.file = e.file /\ t.before = e.before
      /\ t.done = e.done /\ t.imported = e.imported /\ t.errors = e.errors
      /\ t.added = e.added /\ t.sent = e.sent /\ t.made = e.made /\ t.broken = e.broken
  BY <1>1 DEF Session
<1>3. Ended(s, end) = t
  BY DEF Ended, e
<1> HIDE DEF t
<1> QED
  BY <1>1, <1>2, <1>3 DEF Held

-------------------------------------------------------------------------------
(* Imports: the steps *)

LEMMA InitHolds == Init => IInv
<1> SUFFICES ASSUME Init PROVE IInv
  OBVIOUS
<1>0. PICK batch \in Batches :
        \E file \in [Jobs -> batch] : job = [j \in Jobs |-> NewJob(j, file[j])]
  BY DEF Init
<1>1. PICK file \in [Jobs -> batch] : job = [j \in Jobs |-> NewJob(j, file[j])]
  BY <1>0
<1>2. ASSUME NEW j \in Jobs
      PROVE  LET s == job[j]
             IN /\ s \in Session /\ s.id = j /\ s.pc = "queued" /\ s.done = 0
                /\ s.imported = 0 /\ s.errors = 0 /\ s.before = {}
                /\ s.added = {} /\ s.sent = {} /\ s.made = {} /\ ~s.broken
  <2>1. file[j] \in Files
    BY <1>1 DEF Files
  <2>2. job[j] = NewJob(j, file[j])
    BY <1>1
  <2> QED
    BY <2>1, <2>2 DEF NewJob, Session, States
<1>3. job \in [Jobs -> Session]
  BY <1>1, <1>2
<1>4. ledger = {} /\ names = {} /\ Committed = {}
  BY <1>2 DEF Init, Committed
<1>5. Tables
  BY <1>4, FS_EmptySet DEF Tables
<1>6. ASSUME NEW j \in Jobs
      PROVE  /\ Counted(j) /\ Repeats(j)
             /\ Balanced(job[j], job[j].done) /\ Settles(job[j], job[j].done)
  <2>1. Held(job[j]) = {}
    BY <1>2 DEF Held
  <2>2. Len(job[j].file) \in Nat
    BY <1>2, FilesOK DEF Session
  <2>3. Counted(j)
    BY <1>2, <1>4, <2>2 DEF Counted
  <2>4. Repeats(j)
    BY <1>2 DEF Repeats
  <2>5. Balanced(job[j], job[j].done)
    BY <1>2, <2>1, FS_EmptySet DEF Balanced
  <2>6. Settles(job[j], job[j].done)
    <3>1. Cardinality(Lost(job[j].file, 0, ledger \cup Held(job[j]))) = 0
      BY LostIs
    <3> QED BY <1>2, <3>1 DEF Settles
  <2> QED
    BY <2>3, <2>4, <2>5, <2>6
<1> QED
  BY <1>3, <1>5, <1>6 DEF IInv

\* Every line of a committed execution is settled by the tables alone, and counted when they
\* have no row for it.
LEMMA CommittedSettles ==
  ASSUME IInv, NEW i \in Committed
  PROVE  /\ \A m \in 1..Len(job[i].file) : Settled(job[i].file[m], job[i].errors, ledger, names)
         /\ Cardinality(Lost(job[i].file, Len(job[i].file), ledger)) <= job[i].errors
<1> DEFINE s == job[i]
<1>1. /\ i \in Jobs /\ s \in Session /\ s.pc \in {"stored", "done", "unlogged"}
      /\ s.done = Len(s.file) /\ ~s.broken
      /\ Balanced(s, s.done) /\ Settles(s, s.done)
  BY DEF IInv, Committed, Counted
<1> HIDE DEF s
<1>3. Held(s) = {} /\ s.made = {}
  BY <1>1 DEF Balanced
<1>4. ledger \cup Held(s) = ledger /\ names \cup s.made = names
  BY <1>3
<1>5. /\ \A m \in 1..s.done : Settled(s.file[m], s.errors, ledger, names)
      /\ Cardinality(Lost(s.file, s.done, ledger)) <= s.errors
  BY <1>1, <1>4 DEF Settles
<1> QED
  BY <1>1, <1>5 DEF s

LEMMA CommittedImported ==
  ASSUME IInv, NEW i \in Committed
  PROVE  Imported(job[i].file)
<1> SUFFICES ASSUME NEW m \in 1..Len(job[i].file)
             PROVE  Settled(job[i].file[m], 1, ledger, names)
  BY DEF Imported
<1>1. Settled(job[i].file[m], job[i].errors, ledger, names)
  BY CommittedSettles
<1> QED
  BY <1>1 DEF Settled

\* A step that changes one session, and neither the tables nor what is committed.
LEMMA SessionKeeps ==
  ASSUME IInv, NEW j \in Jobs, NEW t \in Session, job' = [job EXCEPT ![j] = t],
         ledger' = ledger, names' = names,
         t.id = j, t.file = job[j].file, t.before \subseteq Committed,
         t.done <= Len(t.file), t.pc = "queued" => t.done = 0,
         j \in Committed <=> t.pc \in {"stored", "done", "unlogged"},
         j \in Committed => /\ t.done = job[j].done /\ t.imported = job[j].imported
                            /\ ~t.broken,
         Balanced(t, t.done), Settles(t, t.done),
         (\E i \in t.before : job[i].file = t.file) => Held(t) = {} /\ t.made = {}
  PROVE  IInv'
<1>1. job' \in [Jobs -> Session] /\ job'[j] = t /\ \A k \in Jobs \ {j} : job'[k] = job[k]
  BY DEF IInv
<1>2. Committed' = Committed
  <2>1. ASSUME NEW k \in Jobs PROVE k \in Committed' <=> k \in Committed
    BY <1>1 DEF Committed
  <2> QED
    BY <2>1 DEF Committed
<1>3. Tables'
  <2>1. \A k \in Committed : Cardinality({row \in ledger : row.job = k}) = job'[k].imported
    BY <1>1 DEF IInv, Tables, Committed
  <2> QED
    BY <1>2, <2>1 DEF IInv, Tables
<1>4. ASSUME NEW k \in Jobs
      PROVE  (/\ Counted(k) /\ Repeats(k)
              /\ Balanced(job[k], job[k].done) /\ Settles(job[k], job[k].done))'
  <2>1. Counted(k)'
    BY <1>1, <1>2 DEF IInv, Counted
  <2>2. \A i \in Committed : job'[i].file = job[i].file
    BY <1>1 DEF Committed
  <2>3. Repeats(k)'
    <3>1. CASE k = j
      BY <1>1, <2>2, <3>1 DEF Repeats
    <3>2. CASE k # j
      <4>1. job'[k] = job[k] /\ job[k].before \subseteq Committed /\ Repeats(k)
        BY <1>1, <3>2 DEF IInv, Counted
      <4> QED
        BY <2>2, <4>1 DEF Repeats
    <3> QED
      BY <3>1, <3>2
  <2>4. Balanced(job'[k], job'[k].done)
    BY <1>1 DEF IInv
  <2>5. Settles(job[k], job[k].done)'
    BY <1>1 DEF IInv, Settles
  <2> QED
    BY <2>1, <2>3, <2>4, <2>5
<1> QED
  BY <1>1, <1>3, <1>4 DEF IInv
LEMMA StartJobKeeps ==
  ASSUME IInv, NEW j \in Jobs, StartJob(j)
  PROVE  IInv'
<1> DEFINE s == job[j]
           t == [s EXCEPT !.pc = "running", !.before = Committed]
<1>1. /\ s \in Session /\ s.pc = "queued" /\ Counted(j)
      /\ Balanced(s, s.done) /\ Settles(s, s.done)
  BY DEF IInv, StartJob
<1>2. Committed \subseteq Jobs
  BY DEF Committed
<1>3. /\ t \in Session /\ t.id = s.id /\ t.pc = "running" /\ t.file = s.file
      /\ t.before = Committed /\ t.done = s.done
      /\ t.imported = s.imported /\ t.errors = s.errors
      /\ t.added = s.added /\ t.sent = s.sent /\ t.made = s.made /\ t.broken = s.broken
  <2> HIDE DEF s
  <2> QED
    BY <1>1, <1>2 DEF Session, States
<1>4. job' = [job EXCEPT ![j] = t] /\ ledger' = ledger /\ names' = names
  BY DEF StartJob, IInv
<1>5. j \notin Committed
  BY <1>1 DEF Committed
<1>6. s.id = j /\ s.done = 0 /\ Len(s.file) \in Nat
  BY <1>1, FilesOK DEF Counted, Session
<1>7. s.imported = 0 /\ s.errors = 0
  BY <1>1, <1>6 DEF Balanced, Session
<1> HIDE DEF s, t
<1>8. Held(s) = {} /\ s.made = {} /\ Held(t) = {} /\ t.made = {}
  BY <1>1, <1>3 DEF Balanced, Held
<1>9. t.done = 0 /\ Balanced(t, t.done) /\ Settles(t, t.done)
  <2>1. t.imported + t.errors <= 0 /\ t.done = 0
    BY <1>3, <1>6, <1>7
  <2>2. t.added \cap t.sent = {}
    BY <1>8 DEF Held
  <2>3. IsFiniteSet(Held(t)) /\ t.imported = Cardinality(Held(t))
    BY <1>3, <1>7, <1>8, FS_EmptySet
  <2>4. Balanced(t, 0)
    BY <1>8, <2>1, <2>2, <2>3 DEF Balanced
  <2>5. Settles(t, 0)
    <3>1. Cardinality(Lost(t.file, 0, ledger \cup Held(t))) = 0
      BY LostIs
    <3>2. t.errors \in Nat
      BY <1>3, <1>7
    <3> QED BY <3>1, <3>2 DEF Settles
  <2> QED
    BY <2>1, <2>4, <2>5
<1>10. t.file = job[j].file /\ t.pc \notin {"queued", "stored", "done", "unlogged"}
  BY <1>3 DEF s
<1>11. t.done <= Len(t.file) /\ t.before \subseteq Committed /\ t.id = j
  BY <1>3, <1>6, <1>9
<1> QED
  BY <1>3, <1>4, <1>5, <1>8, <1>9, <1>10, <1>11, SessionKeeps

LEMMA NextRowKeeps ==
  ASSUME IInv, NEW j \in Jobs, NextRow(j)
  PROVE  /\ IInv' /\ job'[j].pc = "running" /\ job'[j].before = job[j].before
         /\ Held(job'[j]) \subseteq Held(Handled(job[j], job[j].done + 1))
         /\ job'[j].made \subseteq Handled(job[j], job[j].done + 1).made
<1> DEFINE s == job[j]
           h == Handled(s, s.done + 1)
           after == [h EXCEPT !.done = @ + 1]
<1>1. /\ s \in Session /\ s.pc = "running" /\ s.done \in Nat /\ s.done < Len(s.file)
      /\ s.id = j /\ s.before \subseteq Committed
      /\ Balanced(s, s.done) /\ Settles(s, s.done) /\ Repeats(j)
  BY DEF IInv, NextRow, Counted, Session
<1>2. PICK taken \in BOOLEAN :
        job' = [job EXCEPT ![j] = IF ReportDue(after) /\ ~Skipped(s, s.done + 1)
                                  THEN Reported(after, taken) ELSE after]
  BY DEF NextRow
<1>3. ledger' = ledger /\ names' = names
  BY DEF NextRow
<1>4. Same(s, h) /\ Balanced(h, s.done + 1) /\ Settles(h, s.done + 1)
  <2> HIDE DEF s
  <2> QED
    BY <1>1, HandledKeeps DEF s
<1>5. (\E i \in s.before : job[i].file = s.file) => Held(h) = {} /\ h.made = {}
  <2> SUFFICES ASSUME NEW i \in s.before, job[i].file = s.file
               PROVE  Held(h) = {} /\ h.made = {}
    OBVIOUS
  <2>1. Imported(s.file)
    <3>1. i \in Committed
      BY <1>1
    <3> QED
      BY <3>1, CommittedImported
  <2>2. Held(s) = {} /\ s.made = {}
    BY <1>1 DEF Repeats
  <2>3. s.done + 1 \in 1..Len(s.file)
    <3>1. s.file \in Files
      BY <1>1 DEF Session
    <3>2. Len(s.file) \in Nat
      BY <3>1, FilesOK
    <3> QED
      BY <1>1, <3>2
  <2>4. names \subseteq CustomersOfTable
    BY DEF IInv, Tables
  <2> HIDE DEF s
  <2> QED
    BY <1>1, <2>1, <2>2, <2>3, <2>4, HandledRepeats
<1> HIDE DEF h
<1>6. /\ after \in Session /\ after.id = s.id /\ after.pc = s.pc /\ after.file = s.file
      /\ after.before = s.before /\ after.done = s.done + 1
      /\ after.imported = h.imported /\ after.errors = h.errors
      /\ after.added = h.added /\ after.sent = h.sent /\ after.made = h.made
      /\ after.broken = h.broken
  BY <1>4, AfterIs DEF Same
<1>7. h.pc = s.pc /\ h.file = s.file /\ h.id = s.id
  BY <1>4 DEF Same
<1> HIDE DEF after
<1>8. Held(after) = Held(h)
  BY <1>6 DEF Held
<1>9. Balanced(after, s.done + 1) /\ Settles(after, s.done + 1)
  <2>1. \A m : Row(after, m) = Row(h, m) /\ Customer(after, m) = Customer(h, m)
    BY <1>6, <1>7 DEF Row, Customer
  <2>2. Balanced(after, s.done + 1)
    BY <1>4, <1>6, <1>7, <1>8, <2>1 DEF Balanced
  <2>3. Settles(after, s.done + 1)
    BY <1>4, <1>6, <1>7, <1>8 DEF Settles
  <2> QED
    BY <2>2, <2>3
<1>10. PICK t : /\ job' = [job EXCEPT ![j] = t]
                /\ t = after \/ t = Reported(after, taken)
  BY <1>2
<1>11. /\ t \in Session /\ t.id = j /\ t.pc = "running" /\ t.file = s.file
       /\ t.before = s.before /\ t.done = s.done + 1
       /\ Balanced(t, s.done + 1) /\ Settles(t, s.done + 1)
       /\ Held(t) \subseteq Held(h) /\ t.made \subseteq h.made
  <2>1. CASE t = after
    BY <1>1, <1>6, <1>8, <1>9, <2>1
  <2>2. CASE t = Reported(after, taken)
    <3>1. s.done + 1 \in Nat
      BY <1>1
    <3>2. /\ Same(after, t) /\ Balanced(t, s.done + 1) /\ Settles(t, s.done + 1)
          /\ Held(t) \subseteq Held(after) /\ t.made \subseteq after.made
      BY <1>1, <1>6, <1>9, <2>2, <3>1, ReportedKeeps
    <3> QED
      BY <1>1, <1>6, <1>8, <3>2 DEF Same
  <2> QED
    BY <1>10, <2>1, <2>2
<1>12. j \notin Committed /\ t.pc \notin {"queued", "stored", "done", "unlogged"}
  BY <1>1, <1>11 DEF Committed
<1>13. t.done <= Len(t.file)
  <2>1. Len(s.file) \in Nat
    BY <1>1, FilesOK DEF Session
  <2> QED
    BY <1>1, <1>11, <2>1
<1>14. (\E i \in t.before : job[i].file = t.file) => Held(t) = {} /\ t.made = {}
  BY <1>5, <1>11
<1>15. Balanced(t, t.done) /\ Settles(t, t.done) /\ t.before \subseteq Committed
  BY <1>1, <1>11
<1>16. IInv'
  BY <1>3, <1>10, <1>11, <1>12, <1>13, <1>14, <1>15, SessionKeeps DEF s
<1>17. job'[j] = t
  BY <1>10 DEF IInv
<1> QED
  BY <1>11, <1>16, <1>17 DEF h, s
LEMMA LogKeeps ==
  ASSUME IInv, NEW j \in Jobs, Log(j)
  PROVE  IInv'
<1> DEFINE s == job[j]
           t == [s EXCEPT !.pc = "done"]
<1>1. /\ s \in Session /\ s.pc = "stored" /\ j \in Committed /\ Counted(j)
      /\ Balanced(s, s.done) /\ Settles(s, s.done)
  BY DEF IInv, Log, Committed
<1>2. /\ t \in Session /\ t.id = s.id /\ t.pc = "done" /\ t.file = s.file
      /\ t.before = s.before /\ t.done = s.done
      /\ t.imported = s.imported /\ t.errors = s.errors
      /\ t.added = s.added /\ t.sent = s.sent /\ t.made = s.made /\ t.broken = s.broken
  <2> HIDE DEF s
  <2> QED
    BY <1>1 DEF Session, States
<1>3. job' = [job EXCEPT ![j] = t] /\ ledger' = ledger /\ names' = names
  BY DEF Log, IInv
<1>4. /\ s.id = j /\ s.done <= Len(s.file) /\ s.before \subseteq Committed /\ ~s.broken
  BY <1>1 DEF Counted
<1>5. t.file = job[j].file /\ t.done = job[j].done /\ t.imported = job[j].imported
  BY <1>2
<1> HIDE DEF s, t
<1>6. Held(s) = {} /\ s.made = {} /\ Held(t) = {} /\ t.made = {}
  BY <1>1, <1>2 DEF Balanced, Held
<1>7. Balanced(t, t.done)
  BY <1>1, <1>2, <1>6 DEF Balanced
<1>8. Settles(t, t.done)
  BY <1>1, <1>2, <1>4, <1>6 DEF Settles
<1>9. /\ t.id = j /\ t.done <= Len(t.file) /\ t.before \subseteq Committed /\ ~t.broken
      /\ t.pc # "queued" /\ t.pc \in {"stored", "done", "unlogged"}
  BY <1>2, <1>4
<1> QED
  BY <1>1, <1>2, <1>3, <1>5, <1>6, <1>7, <1>8, <1>9, SessionKeeps

LEMMA CrashKeeps ==
  ASSUME IInv, NEW j \in Jobs, Crash(j)
  PROVE  IInv' /\ job'[j].pc \in {"unlogged", "lost"}
<1> DEFINE s == job[j]
           end == IF s.pc = "stored" THEN "unlogged" ELSE "lost"
           t == Ended(s, end)
<1>1. /\ s \in Session /\ s.pc \in {"running", "stored"} /\ Counted(j)
      /\ Balanced(s, s.done) /\ Settles(s, s.done)
  BY DEF IInv, Crash, Running
<1>2. end \in States /\ end \in {"unlogged", "lost"} /\ (end = "unlogged" <=> s.pc = "stored")
  BY <1>1 DEF States
<1>3. job' = [job EXCEPT ![j] = t] /\ ledger' = ledger /\ names' = names
  BY DEF Crash, IInv
<1>4. j \in Committed <=> end = "unlogged"
  BY <1>1 DEF Committed
<1> HIDE DEF end
<1>5. /\ t \in Session /\ t.id = s.id /\ t.pc = end /\ t.file = s.file
      /\ t.before = s.before /\ t.done = s.done
      /\ t.imported = s.imported /\ t.errors = s.errors
      /\ Held(t) = {} /\ t.made = {} /\ t.broken = s.broken
  BY <1>1, <1>2, EndedIs
<1>6. /\ s.id = j /\ s.done <= Len(s.file) /\ s.before \subseteq Committed
      /\ end = "unlogged" => ~s.broken
  BY <1>1, <1>4 DEF Counted
<1>7. t.file = job[j].file /\ t.done = job[j].done /\ t.imported = job[j].imported
  BY <1>5
<1> HIDE DEF s, t
<1>8. t.added \cap t.sent = {}
  BY <1>5 DEF Held
<1>9. Balanced(t, t.done)
  BY <1>1, <1>2, <1>5, <1>8, FS_EmptySet DEF Balanced
<1>10. Settles(t, t.done)
  <2>1. CASE end = "lost"
    BY <1>5, <2>1 DEF Settles
  <2>2. CASE end = "unlogged"
    <3>1. Held(s) = {} /\ s.made = {} /\ s.pc = "stored"
      BY <1>1, <1>2, <2>2 DEF Balanced
    <3> QED
      BY <1>1, <1>5, <1>6, <2>2, <3>1 DEF Settles
  <2> QED
    BY <1>2, <2>1, <2>2
<1>11. /\ t.id = j /\ t.done <= Len(t.file) /\ t.before \subseteq Committed
       /\ t.pc # "queued" /\ (j \in Committed => ~t.broken)
       /\ j \in Committed <=> t.pc \in {"stored", "done", "unlogged"}
  BY <1>2, <1>4, <1>5, <1>6
<1>12. IInv'
  BY <1>3, <1>5, <1>7, <1>9, <1>10, <1>11, SessionKeeps
<1>13. job'[j] = t
  BY <1>3 DEF IInv
<1> QED
  BY <1>2, <1>5, <1>12, <1>13
\* A commit that is refused leaves the tables as they were.
LEMMA StoreRefused ==
  ASSUME IInv, NEW j \in Jobs, Store(j), Refused(job[j])
  PROVE  IInv' /\ job'[j].pc = "failed"
<1> DEFINE s == job[j]
           f == Flush(s)
           t == Ended(f, "failed")
<1>1. /\ s \in Session /\ s.pc = "running" /\ Counted(j) /\ Balanced(s, s.done)
  BY DEF IInv, Store
<1>2. /\ Same(s, f) /\ f.imported = s.imported /\ f.errors = s.errors
      /\ f.broken /\ f.sent = {} /\ f.made = {}
  BY <1>1, FlushIs
<1>3. ledger' = ledger /\ names' = names
  BY <1>2 DEF Store
<1>4. job' = [job EXCEPT ![j] = t]
  BY <1>2 DEF Store
<1>5. f \in Session /\ f.id = s.id /\ f.file = s.file /\ f.before = s.before /\ f.done = s.done
  BY <1>2 DEF Same
<1> HIDE DEF f
<1>6. /\ t \in Session /\ t.id = f.id /\ t.pc = "failed" /\ t.file = f.file
      /\ t.before = f.before /\ t.done = f.done
      /\ t.imported = f.imported /\ t.errors = f.errors
      /\ Held(t) = {} /\ t.made = {} /\ t.broken = f.broken
  BY <1>5, EndedIs DEF States
<1>7. s.id = j /\ s.done <= Len(s.file) /\ s.before \subseteq Committed /\ j \notin Committed
  BY <1>1 DEF Counted, Committed
<1>8. t.file = job[j].file
  BY <1>5, <1>6
<1> HIDE DEF s, t
<1>9. t.added \cap t.sent = {}
  BY <1>6 DEF Held
<1>10. Balanced(t, t.done) /\ Settles(t, t.done)
  <2>1. Balanced(t, t.done)
    BY <1>1, <1>2, <1>5, <1>6, <1>9, FS_EmptySet DEF Balanced
  <2>2. Settles(t, t.done)
    BY <1>6 DEF Settles
  <2> QED
    BY <2>1, <2>2
<1>11. /\ t.id = j /\ t.done <= Len(t.file) /\ t.before \subseteq Committed
       /\ t.pc \notin {"queued", "stored", "done", "unlogged"}
  BY <1>5, <1>6, <1>7
<1>12. IInv'
  BY <1>3, <1>4, <1>6, <1>7, <1>8, <1>10, <1>11, SessionKeeps
<1>13. job'[j] = t
  BY <1>4 DEF IInv
<1> QED
  BY <1>6, <1>12, <1>13

\* A commit moves what the session holds into the tables.
LEMMA StoreMoves ==
  ASSUME IInv, NEW j \in Jobs, Store(j), ~Refused(job[j])
  PROVE  LET s == job[j]
             t == job'[j]
         IN /\ job' = [job EXCEPT ![j] = t]
            /\ ledger' = ledger \cup Held(s) /\ names' = names \cup s.made
            /\ t \in Session /\ t.id = j /\ t.pc = "stored" /\ t.file = s.file
            /\ t.before = s.before /\ t.done = s.done
            /\ t.imported = s.imported /\ t.errors = s.errors
            /\ Held(t) = {} /\ t.made = {} /\ ~t.broken /\ ~s.broken
            /\ s.pc = "running" /\ s.done = Len(s.file)
<1> DEFINE s == job[j]
           f == Flush(s)
           t == Ended(f, "stored")
<1>1. /\ s \in Session /\ s.pc = "running" /\ s.done = Len(s.file) /\ s.id = j
  BY DEF IInv, Store, Counted
<1>2. /\ Same(s, f) /\ f.imported = s.imported /\ f.errors = s.errors
      /\ ~f.broken /\ ~s.broken /\ f.sent = Held(s) /\ f.made = s.made
  BY <1>1, FlushIs
<1>3. ledger' = ledger \cup Held(s) /\ names' = names \cup s.made
  BY <1>2 DEF Store
<1>4. job' = [job EXCEPT ![j] = t]
  BY <1>2 DEF Store
<1>5. f \in Session /\ f.id = s.id /\ f.file = s.file /\ f.before = s.before /\ f.done = s.done
  BY <1>2 DEF Same
<1> HIDE DEF f
<1>6. /\ t \in Session /\ t.id = f.id /\ t.pc = "stored" /\ t.file = f.file
      /\ t.before = f.before /\ t.done = f.done
      /\ t.imported = f.imported /\ t.errors = f.errors
      /\ Held(t) = {} /\ t.made = {} /\ t.broken = f.broken
  BY <1>5, EndedIs DEF States
<1> HIDE DEF t
<1>7. job'[j] = t
  BY <1>4 DEF IInv
<1> QED
  BY <1>1, <1>2, <1>3, <1>4, <1>5, <1>6, <1>7

LEMMA StoreKeeps ==
  ASSUME IInv, NEW j \in Jobs, Store(j), ~Refused(job[j])
  PROVE  IInv'
<1> DEFINE s == job[j]
           t == job'[j]
<1>1. /\ job' = [job EXCEPT ![j] = t]
      /\ ledger' = ledger \cup Held(s) /\ names' = names \cup s.made
      /\ t \in Session /\ t.id = j /\ t.pc = "stored" /\ t.file = s.file
      /\ t.before = s.before /\ t.done = s.done
      /\ t.imported = s.imported /\ t.errors = s.errors
      /\ Held(t) = {} /\ t.made = {} /\ ~t.broken /\ ~s.broken
      /\ s.pc = "running" /\ s.done = Len(s.file)
  BY StoreMoves
<1>2. s \in Session /\ Counted(j) /\ Balanced(s, s.done) /\ Settles(s, s.done)
  BY DEF IInv
<1>3. /\ job' \in [Jobs -> Session] /\ \A k \in Jobs \ {j} : job'[k] = job[k]
      /\ \A k \in Jobs : job'[k].file = job[k].file
  BY <1>1 DEF IInv
<1>4. s.id = j /\ s.before \subseteq Committed /\ j \notin Committed
  BY <1>1, <1>2 DEF Counted, Committed
<1> HIDE DEF s, t
<1>5. Committed' = Committed \cup {j}
  <2>1. ASSUME NEW k \in Jobs PROVE k \in Committed' <=> k \in Committed \/ k = j
    BY <1>1, <1>3, <1>4 DEF Committed, t
  <2> QED
    BY <2>1 DEF Committed
<1>6. \A row \in Held(s) : row.job = j
  BY <1>2, <1>4 DEF Balanced, Row
<1>7. \A c \in s.made : c.job = j
  BY <1>2, <1>4 DEF Balanced, Customer
<1>8. s.imported = Cardinality(Held(s)) /\ IsFiniteSet(Held(s))
  BY <1>1, <1>2 DEF Balanced
<1>9. Tables'
  <2>1. /\ IsFiniteSet(ledger)
        /\ ledger \subseteq RowsOfLedger /\ names \subseteq CustomersOfTable
        /\ \A row \in ledger : row.job \in Committed
        /\ \A c \in names : c.job \in Committed
    BY DEF IInv, Tables
  <2>2. Held(s) \subseteq RowsOfLedger /\ s.made \subseteq CustomersOfTable
    BY <1>2 DEF Session, Held
  <2>3. IsFiniteSet(ledger')
    BY <1>1, <1>8, <2>1, FS_Union
  <2>4. /\ \A row \in ledger' : row.job \in Committed'
        /\ \A c \in names' : c.job \in Committed'
    BY <1>1, <1>5, <1>6, <1>7, <2>1
  <2>5. ASSUME NEW k \in Committed'
        PROVE  Cardinality({row \in ledger' : row.job = k}) = job'[k].imported
    <3>1. CASE k = j
      <4>1. {row \in ledger' : row.job = j} = Held(s)
        BY <1>1, <1>4, <1>6, <2>1
      <4> QED
        BY <1>1, <1>8, <3>1, <4>1 DEF t
    <3>2. CASE k # j
      <4>1. k \in Committed /\ k \in Jobs /\ job'[k] = job[k]
        BY <1>3, <1>5, <3>2 DEF Committed
      <4>2. {row \in ledger' : row.job = k} = {row \in ledger : row.job = k}
        BY <1>1, <1>6, <3>2
      <4> QED
        BY <4>1, <4>2 DEF IInv, Tables
    <3> QED
      BY <3>1, <3>2
  <2>6. ledger' \subseteq RowsOfLedger /\ names' \subseteq CustomersOfTable
    BY <1>1, <2>1, <2>2
  <2> QED
    BY <2>3, <2>4, <2>5, <2>6 DEF Tables
<1>10. ASSUME NEW k \in Jobs
       PROVE  (/\ Counted(k) /\ Repeats(k)
               /\ Balanced(job[k], job[k].done) /\ Settles(job[k], job[k].done))'
  <2>1. CASE k = j
    <3>0. s.done \in Nat
      BY <1>2 DEF Session
    <3>1. s.done <= Len(s.file)
      BY <1>1, <3>0
    <3>2. Counted(j)'
      BY <1>1, <1>4, <1>5, <3>1 DEF Counted, t
    <3>3. Repeats(j)'
      BY <1>1 DEF Repeats, t
    <3>4. t.added \cap t.sent = {}
      BY <1>1 DEF Held
    <3>5. Balanced(t, t.done)
      BY <1>1, <1>2, <3>4, FS_EmptySet DEF Balanced
    <3>6. \A m \in 1..s.done : Settled(s.file[m], s.errors, ledger', names')
      BY <1>1, <1>2 DEF Settles
    <3>7. ledger' \cup Held(t) = ledger' /\ names' \cup t.made = names'
      BY <1>1
    <3>8. \A m \in 1..t.done :
            Settled(t.file[m], t.errors, ledger' \cup Held(t), names' \cup t.made)
      BY <1>1, <3>6, <3>7
    <3>10. Cardinality(Lost(t.file, t.done, ledger' \cup Held(t))) <= t.errors
      BY <1>1, <1>2, <3>7 DEF Settles
    <3>9. Settles(job[j], job[j].done)'
      BY <3>8, <3>10 DEF Settles, t
    <3> QED
      BY <2>1, <3>2, <3>3, <3>5, <3>9 DEF t
  <2>2. CASE k # j
    <3> DEFINE u == job[k]
    <3>1. /\ job'[k] = u /\ u \in Session /\ Counted(k) /\ Repeats(k)
          /\ Balanced(u, u.done) /\ Settles(u, u.done)
      BY <1>3, <2>2 DEF IInv
    <3>2. Counted(k)'
      BY <1>5, <2>2, <3>1 DEF Counted
    <3>3. u.before \subseteq Jobs
      BY <3>1 DEF Session
    <3>4. Repeats(k)'
      BY <1>3, <3>1, <3>3 DEF Repeats
    <3> HIDE DEF u
    <3>5. ASSUME ~u.broken, u.pc \notin {"failed", "lost"}, NEW m \in 1..u.done
          PROVE  Settled(u.file[m], u.errors, ledger' \cup Held(u), names' \cup u.made)
      <4>1. Settled(u.file[m], u.errors, ledger \cup Held(u), names \cup u.made)
        BY <3>1, <3>5 DEF Settles
      <4>2. /\ ledger \cup Held(u) \subseteq ledger' \cup Held(u)
            /\ names \cup u.made \subseteq names' \cup u.made
        BY <1>1
      <4>3. u.errors \in Nat /\ u.errors <= u.errors
        BY <3>1 DEF Session
      <4> QED
        BY <4>1, <4>2, <4>3, SettledGrows
    <3>7. ASSUME ~u.broken, u.pc \notin {"failed", "lost"}
          PROVE  Cardinality(Lost(u.file, u.done, ledger' \cup Held(u))) <= u.errors
      <4> DEFINE R == ledger \cup Held(u)
                 S == ledger' \cup Held(u)
      <4>1. R \subseteq S /\ u.done \in Nat /\ u.errors \in Nat
        BY <1>1, <3>1 DEF Session
      <4>2. Cardinality(Lost(u.file, u.done, R)) <= u.errors
        BY <3>1, <3>7 DEF Settles
      <4> HIDE DEF R, S
      <4>3. /\ Cardinality(Lost(u.file, u.done, S)) <= Cardinality(Lost(u.file, u.done, R))
            /\ Cardinality(Lost(u.file, u.done, S)) \in Nat
            /\ Cardinality(Lost(u.file, u.done, R)) \in Nat
        BY <4>1, LostIs
      <4>4. Cardinality(Lost(u.file, u.done, S)) <= u.errors
        BY <4>1, <4>2, <4>3
      <4> QED BY <4>4 DEF S
    <3>6. Settles(job[k], job[k].done)'
      BY <3>1, <3>5, <3>7 DEF Settles
    <3> QED
      BY <3>1, <3>2, <3>4, <3>6
  <2> QED
    BY <2>1, <2>2
<1> QED
  BY <1>3, <1>9, <1>10 DEF IInv
LEMMA StutterKeeps ==
  ASSUME IInv, UNCHANGED vars
  PROVE  IInv'
<1> USE DEF vars
<1>1. Committed' = Committed
  BY DEF Committed
<1>2. Tables'
  BY <1>1 DEF IInv, Tables
<1>3. ASSUME NEW j \in Jobs
      PROVE  (/\ Counted(j) /\ Repeats(j)
              /\ Balanced(job[j], job[j].done) /\ Settles(job[j], job[j].done))'
  BY <1>1 DEF IInv, Counted, Repeats, Settles
<1> QED
  BY <1>2, <1>3 DEF IInv

LEMMA StepKeeps ==
  ASSUME IInv, [Next]_vars
  PROVE  IInv'
<1> SUFFICES ASSUME Next PROVE IInv'
  BY StutterKeeps
<1>1. PICK j \in Jobs : StartJob(j) \/ NextRow(j) \/ Store(j) \/ Log(j) \/ Crash(j)
  BY DEF Next
<1>2. Store(j) => IInv'
  BY StoreRefused, StoreKeeps
<1> QED
  BY <1>1, <1>2, StartJobKeeps, NextRowKeeps, LogKeeps, CrashKeeps

\* IInv holds in every reachable state, whatever imports run side by side and wherever they
\* crash.
THEOREM Invariance == Spec => []IInv
<1>1. IInv /\ [Next]_vars => IInv'
  BY StepKeeps
<1> QED
  BY InitHolds, <1>1, PTL DEF Spec

-------------------------------------------------------------------------------
(* Imports: what follows *)

\* Counters, sessions and tables hold what the tasks (jobs.py, import_transactions_csv and
\* import_invoices_csv) can leave in them; nothing is in a session and in a table at once.
THEOREM TypeCorrect == Spec => []TypeOK
<1>1. ASSUME IInv PROVE TypeOK
  <2>1. ledger \subseteq RowsOfLedger /\ names \subseteq CustomersOfTable
    BY <1>1 DEF IInv, Tables
  <2>2. ASSUME NEW j \in Jobs
        PROVE  LET s == job[j]
               IN /\ s.id = j /\ s.pc \in States /\ s.file \in Files
                  /\ s.before \subseteq Committed
                  /\ s.done <= Len(s.file) /\ s.imported + s.errors <= s.done
                  /\ s.broken \/ s.pc # "running" => s.added = {} /\ s.sent = {} /\ s.made = {}
                  /\ s.added \cap s.sent = {}
                  /\ \A x \in s.added \cup s.sent \cup s.made : x.job = j /\ x.line \in 1..s.done
                  /\ \A row \in s.added \cup s.sent : row \notin ledger
                  /\ s.made \cap names = {}
    <3> DEFINE s == job[j]
    <3>1. /\ s \in Session /\ Counted(j) /\ Balanced(s, s.done)
          /\ \A row \in ledger : row.job \in Committed
          /\ \A c \in names : c.job \in Committed
      BY <1>1 DEF IInv, Tables
    <3>2. /\ s.id = j /\ s.before \subseteq Committed /\ s.done <= Len(s.file)
          /\ j \in Committed => s.pc # "running"
      BY <3>1 DEF Counted, Committed
    <3>3. s.pc \in States /\ s.file \in Files
      BY <3>1 DEF Session
    <3> HIDE DEF s
    <3>4. /\ s.imported + s.errors <= s.done /\ s.added \cap s.sent = {}
          /\ s.broken \/ s.pc # "running" => s.added = {} /\ s.sent = {} /\ s.made = {}
      BY <3>1 DEF Balanced, Held
    <3>5. \A x \in s.added \cup s.sent \cup s.made : x.job = j /\ x.line \in 1..s.done
      <4>1. \A m : /\ Row(s, m).job = j /\ Row(s, m).line = m
                   /\ Customer(s, m).job = j /\ Customer(s, m).line = m
        BY <3>2 DEF Row, Customer
      <4> QED
        BY <3>1, <4>1 DEF Balanced, Held
    <3>6. s.added \cup s.sent \cup s.made # {} => j \notin Committed
      BY <3>2, <3>4
    <3>7. (\A row \in s.added \cup s.sent : row \notin ledger) /\ s.made \cap names = {}
      BY <3>1, <3>5, <3>6
    <3> QED
      BY <3>2, <3>3, <3>4, <3>5, <3>7 DEF s
  <2> QED
    BY <2>1, <2>2 DEF TypeOK, RowsOfLedger, CustomersOfTable
<1> QED
  BY Invariance, <1>1, PTL

\* What a job reports as imported is what the table holds of it, and a job that did not
\* commit has left nothing.
THEOREM ReportsAreTrue == Spec => []ReportedIsStored
<1>1. ASSUME IInv PROVE ReportedIsStored
  <2> SUFFICES ASSUME NEW j \in Jobs
               PROVE  Cardinality({row \in ledger : row.job = j})
                        = IF j \in Committed THEN job[j].imported ELSE 0
    BY DEF ReportedIsStored
  <2>1. CASE j \in Committed
    BY <1>1, <2>1 DEF IInv, Tables
  <2>2. CASE j \notin Committed
    <3>1. {row \in ledger : row.job = j} = {}
      BY <1>1, <2>2 DEF IInv, Tables
    <3> QED
      BY <2>2, <3>1, FS_EmptySet
  <2> QED
    BY <2>1, <2>2
<1> QED
  BY Invariance, <1>1, PTL

\* A finished import leaves no line of its file out in silence: those the ledger misses are
\* among the reported errors, and each was unreadable or named a customer made twice.
THEOREM Complete == Spec => []NothingDropped
<1>1. ASSUME IInv PROVE NothingDropped
  <2> SUFFICES ASSUME NEW j \in Committed
               PROVE  LET missing == {n \in 1..Len(job[j].file) : Missing(job[j].file[n])}
                      IN /\ Cardinality(missing) <= job[j].errors
                         /\ \A n \in missing :
                              job[j].file[n].kind # "unreadable" =>
                                \E c, d \in names :
                                   c # d /\ {c.name, d.name} = {job[j].file[n].customer}
    BY DEF NothingDropped
  <2> DEFINE f == job[j].file
             missing == {n \in 1..Len(f) : Missing(f[n])}
  <2>1. missing = Lost(f, Len(f), ledger)
    BY DEF Missing, Lost
  <2>2. Cardinality(missing) <= job[j].errors
    BY <1>1, <2>1, CommittedSettles
  <2>3. ASSUME NEW n \in missing, f[n].kind # "unreadable"
        PROVE  \E c, d \in names : c # d /\ {c.name, d.name} = {f[n].customer}
    <3>1. Settled(f[n], job[j].errors, ledger, names)
      BY <1>1, CommittedSettles
    <3>2. ~ \E row \in ledger : row.key = f[n].key
      BY DEF Missing
    <3>3. PICK c, d \in names : c # d /\ c.name = f[n].customer /\ d.name = f[n].customer
      BY <2>3, <3>1, <3>2 DEF Settled
    <3> QED BY <3>3
  <2> QED BY <2>2, <2>3
<1> QED
  BY Invariance, <1>1, PTL

\* A job that starts when its file has been imported adds nothing, whatever runs beside it.
THEOREM Idempotent == Spec => ReimportAddsNothing
<1>1. ASSUME IInv, [Next]_vars, NEW j \in Jobs, job[j].pc = "running", job'[j].pc = "stored",
             \E i \in job[j].before : job[i].file = job[j].file
      PROVE  ledger' = ledger /\ names' = names
  <2>1. Next
    BY <1>1 DEF vars
  <2>2. PICK k \in Jobs : StartJob(k) \/ NextRow(k) \/ Store(k) \/ Log(k) \/ Crash(k)
    BY <2>1 DEF Next
  <2>3. k = j
    <3>1. k # j => job'[j] = job[j]
      BY <1>1, <2>2 DEF StartJob, NextRow, Store, Log, Crash, IInv
    <3> QED
      BY <1>1, <3>1
  <2>4. ~StartJob(j) /\ ~Log(j)
    BY <1>1 DEF StartJob, Log
  <2>5. ~NextRow(j)
    BY <1>1, NextRowKeeps
  <2>6. ~Crash(j)
    BY <1>1, CrashKeeps
  <2>7. Store(j) /\ ~Refused(job[j])
    BY <1>1, <2>2, <2>3, <2>4, <2>5, <2>6, StoreRefused
  <2>8. ledger' = ledger \cup Held(job[j]) /\ names' = names \cup job[j].made
    BY <1>1, <2>7, StoreMoves
  <2>9. Held(job[j]) = {} /\ job[j].made = {}
    BY <1>1 DEF IInv, Repeats
  <2> QED
    BY <2>8, <2>9
<1> DEFINE A == \A j \in Jobs :
                  /\ job[j].pc = "running" /\ job'[j].pc = "stored"
                  /\ \E i \in job[j].before : job[i].file = job[j].file
                  => ledger' = ledger /\ names' = names
<1>2. IInv /\ [Next]_vars => A
  BY <1>1
<1> QED
  BY <1>2, Invariance, PTL DEF Spec, ReimportAddsNothing
-------------------------------------------------------------------------------
(* Imports: duplicates *)

\* Neither job had committed when the other started.
Overlap(i, j) == i \notin job[j].before /\ j \notin job[i].before

\* Two jobs store one key, or make one customer twice, only when they overlap (jobs.py:161
\* and :264 look before they add); a job makes a customer once.
DuplicatesOverlap ==
  /\ \A x, y \in ledger : x.key = y.key /\ x.job # y.job => Overlap(x.job, y.job)
  /\ \A c, d \in names : c.name = d.name /\ c # d => c.job # d.job /\ Overlap(c.job, d.job)

\* What j holds was not in the tables when j started, and it holds a customer once.
Fresh(j) ==
  LET s == job[j]
  IN /\ \A row \in Held(s) : \A x \in ledger : x.key = row.key => x.job \notin s.before
     /\ \A c \in s.made : \A d \in names : d.name = c.name => d.job \notin s.before
     /\ \A c, d \in s.made : c.name = d.name => c = d

DInv == IInv /\ DuplicatesOverlap /\ \A j \in Jobs : Fresh(j)

\* One line adds only a row whose key, and a customer whose name, is not in sight.
LEMMA HandledAdds ==
  ASSUME NEW s \in Session, NEW n \in 1..Len(s.file)
  PROVE  LET h == Handled(s, n)
         IN /\ \A row \in Held(h) : row \in Held(s) \/ \A x \in ledger : x.key # row.key
            /\ \A c \in h.made : \/ c \in s.made
                                 \/ /\ c = Customer(s, n)
                                    /\ \A d \in names \cup s.made : d.name # c.name
<1> DEFINE line == s.file[n]
           ready == WithCustomer(s, n)
           fails == line.kind = "unreadable" \/ s.broken \/ Ambiguous(s, n)
           known == line.customer = NoCustomer \/ Named(s, line.customer) # {}
           h == Handled(s, n)
<1>1. CASE fails
  <2>1. h = [s EXCEPT !.errors = @ + 1]
    BY <1>1 DEF Handled
  <2>2. h.added = s.added /\ h.sent = s.sent /\ h.made = s.made
    BY <2>1, ErrorIs
  <2> QED
    BY <2>2 DEF Held
<1>2. /\ Same(s, ready)
      /\ known => ready = s
      /\ ~known /\ Refused(s) => ready.added = {} /\ ready.sent = {} /\ ready.made = {}
      /\ ~known /\ ~Refused(s) => /\ ready.added = {} /\ ready.sent = Held(s)
                                  /\ ready.made = s.made \cup {Customer(s, n)}
  BY WithCustomerIs
<1>3. ~known => /\ Customer(s, n).name = line.customer
               /\ \A d \in names \cup s.made : d.name # line.customer
  BY CustomerIs DEF Named
<1>4. /\ Held(ready) \subseteq Held(s)
      /\ \A c \in ready.made : \/ c \in s.made
                               \/ /\ c = Customer(s, n)
                                  /\ \A d \in names \cup s.made : d.name # c.name
  BY <1>2, <1>3 DEF Held
<1>5. CASE ~fails /\ ready.broken
  <2>1. h = [ready EXCEPT !.errors = @ + 1]
    BY <1>5 DEF Handled
  <2>2. ready \in Session
    BY <1>2 DEF Same
  <2> HIDE DEF ready, h
  <2>3. h.added = ready.added /\ h.sent = ready.sent /\ h.made = ready.made
    BY <2>1, <2>2, ErrorIs
  <2> QED
    BY <1>4, <2>3 DEF Held, h
<1>6. CASE ~fails /\ ~ready.broken
  <2> DEFINE found == Found(ready, line.key)
  <2>1. h = Lookup(ready, n)
    BY <1>6 DEF Handled
  <2>2. ready \in Session /\ ready.file = s.file
    BY <1>2 DEF Same
  <2> HIDE DEF ready, h
  <2>3. /\ h.sent = ready.sent /\ h.made = ready.made
        /\ found = {} => h.added = ready.added \cup {Row(ready, n)}
        /\ found # {} => h.added = ready.added
    BY <2>1, <2>2, LookupIs
  <2>4. found = {} => \A x \in ledger : x.key # Row(ready, n).key
    BY <2>2, RowIs DEF Found
  <2>5. \A row \in Held(h) : row \in Held(ready) \/ \A x \in ledger : x.key # row.key
    BY <2>3, <2>4 DEF Held
  <2> QED
    BY <1>4, <2>3, <2>5 DEF h
<1> QED
  BY <1>1, <1>5, <1>6

\* A step that changes j's session only, and leaves the tables alone.
LEMMA QuietKeeps ==
  ASSUME DInv, NEW j \in Jobs, \A k \in Jobs \ {j} : job'[k] = job[k],
         ledger' = ledger, names' = names,
         j \in Committed => job'[j].before = job[j].before, Fresh(j)'
  PROVE  DuplicatesOverlap' /\ \A k \in Jobs : Fresh(k)'
<1>1. ASSUME NEW k \in Jobs PROVE Fresh(k)'
  <2>1. k # j => job'[k] = job[k]
    OBVIOUS
  <2> QED
    BY <2>1 DEF DInv, Fresh
<1>2. \A k \in Committed : job'[k].before = job[k].before
  BY DEF Committed
<1>3. \A i, k \in Committed : Overlap(i, k) => Overlap(i, k)'
  BY <1>2 DEF Overlap
<1>4. (\A x \in ledger : x.job \in Committed) /\ (\A c \in names : c.job \in Committed)
  BY DEF DInv, IInv, Tables
<1>5. DuplicatesOverlap'
  BY <1>3, <1>4 DEF DInv, DuplicatesOverlap
<1> QED
  BY <1>1, <1>5

LEMMA NextRowIsFresh ==
  ASSUME DInv, NEW j \in Jobs, NextRow(j)
  PROVE  Fresh(j)'
<1> DEFINE s == job[j]
           n == s.done + 1
           h == Handled(s, n)
           t == job'[j]
<1>1. /\ s \in Session /\ s.file \in Files /\ s.done \in Nat /\ s.done < Len(s.file)
      /\ Fresh(j) /\ s.before \subseteq Committed
  BY DEF DInv, IInv, NextRow, Counted, Session
<1>2. n \in 1..Len(s.file)
  <2>1. Len(s.file) \in Nat
    BY <1>1, FilesOK
  <2> QED
    BY <1>1, <2>1
<1>3. /\ Held(t) \subseteq Held(h) /\ t.made \subseteq h.made /\ t.before = s.before
  BY NextRowKeeps DEF DInv
<1>4. ledger' = ledger /\ names' = names
  BY DEF NextRow
<1>5. /\ \A row \in Held(h) : row \in Held(s) \/ \A x \in ledger : x.key # row.key
      /\ \A c \in h.made : \/ c \in s.made
                           \/ /\ c = Customer(s, n)
                              /\ \A d \in names \cup s.made : d.name # c.name
  BY <1>1, <1>2, HandledAdds
<1> HIDE DEF h, n
<1>6. \A row \in Held(t) : \A x \in ledger : x.key = row.key => x.job \notin t.before
  BY <1>1, <1>3, <1>5 DEF Fresh
<1>7. \A c \in t.made : \A d \in names : d.name = c.name => d.job \notin t.before
  BY <1>1, <1>3, <1>5 DEF Fresh
<1>8. \A c, d \in t.made : c.name = d.name => c = d
  BY <1>1, <1>3, <1>5 DEF Fresh
<1> QED
  BY <1>4, <1>6, <1>7, <1>8 DEF Fresh

\* What a commit adds was new when the job started, and the job was not there for those
\* that have committed before.
LEMMA StoreOverlaps ==
  ASSUME DInv, NEW j \in Jobs, Store(j), ~Refused(job[j])
  PROVE  DuplicatesOverlap' /\ \A k \in Jobs : Fresh(k)'
<1> DEFINE s == job[j]
           t == job'[j]
<1>1. /\ job' = [job EXCEPT ![j] = t]
      /\ ledger' = ledger \cup Held(s) /\ names' = names \cup s.made
      /\ t.before = s.before /\ Held(t) = {} /\ t.made = {} /\ s.pc = "running"
  BY StoreMoves DEF DInv
<1>2. /\ s \in Session /\ s.id = j /\ s.before \subseteq Committed /\ j \notin Committed
      /\ Fresh(j) /\ Balanced(s, s.done)
  BY <1>1 DEF DInv, IInv, Counted, Committed
<1>3. \A k \in Jobs : job'[k].before = job[k].before /\ (k # j => job'[k] = job[k])
  BY <1>1 DEF DInv, IInv
<1>4. \A k \in Jobs : j \notin job[k].before
  BY <1>2 DEF DInv, IInv, Counted
<1> HIDE DEF s, t
<1>5. /\ \A row \in Held(s) : row.job = j
      /\ \A c \in s.made : c.job = j
  BY <1>2 DEF Balanced, Row, Customer
<1>6. /\ \A x \in ledger : x.job \in Jobs
      /\ \A c \in names : c.job \in Jobs
  BY DEF DInv, IInv, Tables, Committed
<1>7. \A i, k \in Jobs : Overlap(i, k)' <=> Overlap(i, k)
  BY <1>3 DEF Overlap
<1>8. /\ \A x \in ledger, row \in Held(s) : x.key = row.key => Overlap(x.job, j) /\ Overlap(j, x.job)
      /\ \A d \in names, c \in s.made : d.name = c.name => Overlap(d.job, j) /\ Overlap(j, d.job)
  BY <1>2, <1>4, <1>6 DEF Fresh, Overlap, s
<1>9. ASSUME NEW x \in ledger', NEW y \in ledger', x.key = y.key, x.job # y.job
      PROVE  Overlap(x.job, y.job)'
  <2>1. x.job \in Jobs /\ y.job \in Jobs
    BY <1>1, <1>5, <1>6, <1>9
  <2>2. Overlap(x.job, y.job)
    BY <1>1, <1>5, <1>8, <1>9 DEF DInv, DuplicatesOverlap
  <2> QED
    BY <1>7, <2>1, <2>2
<1>10. ASSUME NEW c \in names', NEW d \in names', c.name = d.name, c # d
       PROVE  c.job # d.job /\ Overlap(c.job, d.job)'
  <2>1. c.job \in Jobs /\ d.job \in Jobs
    BY <1>1, <1>5, <1>6, <1>10
  <2>2. \A e, f \in s.made : e.name = f.name => e = f
    BY <1>2 DEF Fresh, s
  <2>3. \A e \in names : e.job \in Committed
    BY DEF DInv, IInv, Tables
  <2>4. c.job # d.job /\ Overlap(c.job, d.job)
    <3>1. CASE c \in names /\ d \in names
      BY <1>10, <3>1 DEF DInv, DuplicatesOverlap
    <3>2. CASE c \in names /\ d \in s.made
      BY <1>2, <1>5, <1>8, <1>10, <2>3, <3>2
    <3>3. CASE c \in s.made /\ d \in names
      BY <1>2, <1>5, <1>8, <1>10, <2>3, <3>3
    <3>4. CASE c \in s.made /\ d \in s.made
      BY <1>10, <2>2, <3>4
    <3> QED
      BY <1>1, <3>1, <3>2, <3>3, <3>4
  <2> QED
    BY <1>7, <2>1, <2>4
<1>11. DuplicatesOverlap'
  BY <1>9, <1>10 DEF DuplicatesOverlap
<1>12. ASSUME NEW k \in Jobs PROVE Fresh(k)'
  <2>1. CASE k = j
    BY <1>1, <2>1 DEF Fresh, t
  <2>2. CASE k # j
    <3>1. job'[k] = job[k] /\ Fresh(k) /\ j \notin job[k].before
      BY <1>3, <1>4, <2>2 DEF DInv
    <3> QED
      BY <1>1, <1>5, <3>1 DEF Fresh
  <2> QED
    BY <2>1, <2>2
<1> QED
  BY <1>11, <1>12

LEMMA DInvInit == Init => DInv
<1> SUFFICES ASSUME Init PROVE DInv
  OBVIOUS
<1>1. IInv
  BY InitHolds
<1>2. DuplicatesOverlap
  BY DEF Init, DuplicatesOverlap
<1>3. ASSUME NEW j \in Jobs PROVE Fresh(j)
  BY DEF Init, NewJob, Fresh, Held
<1> QED
  BY <1>1, <1>2, <1>3 DEF DInv

LEMMA DInvKeeps ==
  ASSUME DInv, [Next]_vars
  PROVE  DInv'
<1>0. IInv /\ IInv'
  BY StepKeeps DEF DInv
<1>1. CASE UNCHANGED vars
  <2>1. \A j \in Jobs : Fresh(j)'
    BY <1>1 DEF vars, DInv, Fresh
  <2>2. DuplicatesOverlap'
    BY <1>1 DEF vars, DInv, DuplicatesOverlap, Overlap
  <2> QED
    BY <1>0, <2>1, <2>2 DEF DInv
<1>2. ASSUME NEW j \in Jobs, StartJob(j) \/ NextRow(j) \/ Store(j) \/ Log(j) \/ Crash(j)
      PROVE  DuplicatesOverlap' /\ \A k \in Jobs : Fresh(k)'
  <2>1. \A k \in Jobs \ {j} : job'[k] = job[k]
    BY <1>0, <1>2 DEF StartJob, NextRow, Store, Log, Crash, IInv
  <2> DEFINE s == job[j]
             t == job'[j]
  <2>2. s \in Session /\ Balanced(s, s.done)
    BY <1>0 DEF IInv
  <2>3. CASE StartJob(j) \/ Log(j)
    <3>1. ledger' = ledger /\ names' = names
      BY <2>3 DEF StartJob, Log
    <3>2. s.pc \in {"queued", "stored"}
      BY <2>3 DEF StartJob, Log
    <3>3. t.added = s.added /\ t.sent = s.sent /\ t.made = s.made
      BY <1>0, <2>2, <2>3 DEF StartJob, Log, IInv, Session
    <3>4. j \in Committed => t.before = s.before
      <4>1. CASE StartJob(j)
        BY <4>1 DEF StartJob, Committed
      <4>2. CASE Log(j)
        BY <1>0, <2>2, <4>2 DEF Log, IInv, Session
      <4> QED
        BY <2>3, <4>1, <4>2
    <3> HIDE DEF s, t
    <3>5. Held(t) = {} /\ t.made = {}
      BY <2>2, <3>2, <3>3 DEF Balanced, Held
    <3>6. Fresh(j)'
      BY <3>5 DEF Fresh, t
    <3> QED
      BY <2>1, <3>1, <3>4, <3>6, QuietKeeps DEF s, t
  <2>4. CASE NextRow(j)
    <3>1. ledger' = ledger /\ names' = names
      BY <2>4 DEF NextRow
    <3>2. t.before = s.before
      BY <1>0, <2>4, NextRowKeeps
    <3>3. Fresh(j)'
      BY <2>4, NextRowIsFresh
    <3> QED
      BY <2>1, <3>1, <3>2, <3>3, QuietKeeps
  <2>5. CASE Store(j) /\ ~Refused(s)
    BY <2>5, StoreOverlaps
  <2>6. CASE Store(j) /\ Refused(s)
    <3>1. Flush(s).added = {} /\ Flush(s).sent = {} /\ Flush(s).made = {}
      BY <2>2, <2>6, FlushIs
    <3>2. ledger' = ledger /\ names' = names
      BY <2>6, <3>1 DEF Store
    <3>3. t.pc = "failed"
      BY <1>0, <2>6, StoreRefused
    <3>4. j \notin Committed
      BY <2>6 DEF Store, Committed
    <3>5. Balanced(t, t.done)
      BY <1>0 DEF IInv
    <3> HIDE DEF s, t
    <3>6. Held(t) = {} /\ t.made = {}
      BY <3>3, <3>5 DEF Balanced
    <3>7. Fresh(j)'
      BY <3>6 DEF Fresh, t
    <3> QED
      BY <2>1, <3>2, <3>4, <3>7, QuietKeeps
  <2>7. CASE Crash(j)
    <3>1. ledger' = ledger /\ names' = names
      BY <2>7 DEF Crash
    <3>2. t.before = s.before
      <4>1. PICK end \in {"unlogged", "lost"} : t = Ended(s, end)
        BY <1>0, <2>7 DEF Crash, IInv
      <4>2. end \in States
        BY DEF States
      <4> QED
        BY <2>2, <4>1, <4>2, EndedIs
    <3>3. t.pc \in {"unlogged", "lost"}
      BY <1>0, <2>7, CrashKeeps
    <3>4. Balanced(t, t.done)
      BY <1>0 DEF IInv
    <3> HIDE DEF s, t
    <3>5. Held(t) = {} /\ t.made = {}
      BY <3>3, <3>4 DEF Balanced
    <3>6. Fresh(j)'
      BY <3>5 DEF Fresh, t
    <3> QED
      BY <2>1, <3>1, <3>2, <3>6, QuietKeeps DEF s, t
  <2> QED
    BY <1>2, <2>3, <2>4, <2>5, <2>6, <2>7
<1>3. DuplicatesOverlap' /\ \A k \in Jobs : Fresh(k)'
  BY <1>1, <1>2 DEF Next, DInv, vars
<1> QED
  BY <1>0, <1>3 DEF DInv

\* Whatever imports run, two rows of one key come from one job or from two that overlapped,
\* and two customers of one name from two that overlapped (jobs.py, the dedupe lookups).
THEOREM OnlyOverlapDuplicates == Spec => []DuplicatesOverlap
<1>1. DInv /\ [Next]_vars => DInv'
  BY DInvKeeps
<1>2. DInv => DuplicatesOverlap
  BY DEF DInv
<1> QED
  BY DInvInit, <1>1, <1>2, PTL DEF Spec

-------------------------------------------------------------------------------
(* Password resets *)

LEMMA ResetInitHolds == ResetInit => ResetInv
  BY SentinelsOK
  DEF ResetInit, ResetInv, ResetTypeOK, Locking, Logged, OlderTokensDie,
      Claims, Sweeps, Steps

\* A step that ends r, commits no reset, and issues at most a row nobody holds.
LEMMA ResetEndKeeps ==
  ASSUME ResetInv, NEW r \in Requests, End(r), issued \subseteq issued', issued' \subseteq Tokens,
         UNCHANGED <<consumed, expired, log>>
  PROVE  ResetInv'
<1> USE DEF ResetInv, End
<1>1. ResetTypeOK'
  BY DEF ResetTypeOK, Steps
<1>2. Locking'
  BY SentinelsOK DEF ResetTypeOK, Locking
<1>3. Logged' /\ OlderTokensDie'
  BY DEF Logged, OlderTokensDie
<1>4. ASSUME NEW s \in Requests PROVE Claims(s)' /\ Sweeps(s)'
  BY DEF ResetTypeOK, Claims, Sweeps
<1> QED
  BY <1>1, <1>2, <1>3, <1>4

\* Starting a request about a known or a fresh token.
LEMMA ResetBeginKeeps ==
  ASSUME ResetInv, NEW r \in Requests, NEW t \in Tokens, BeginForgot(r,
         t) \/ BeginReset(r, t)
  PROVE  ResetInv'
<1> USE DEF ResetInv, BeginForgot, BeginReset, Start, rows
<1>1. ResetTypeOK'
  BY DEF ResetTypeOK, Steps
<1>2. Locking'
  BY DEF ResetTypeOK, Locking
<1>3. Logged' /\ OlderTokensDie'
  BY DEF Logged, OlderTokensDie
<1>4. ASSUME NEW s \in Requests PROVE Claims(s)' /\ Sweeps(s)'
  BY DEF ResetTypeOK, Claims, Sweeps
<1> QED
  BY <1>1, <1>2, <1>3, <1>4

LEMMA ResetConsumeKeeps ==
  ASSUME ResetInv, NEW r \in Requests, Consume(r)
  PROVE  ResetInv'
<1> USE DEF ResetInv, Consume, Goto, rows
<1>1. op[r] \in issued /\ op[r] \in Tokens
  BY DEF ResetTypeOK, Claims
<1>2. ResetTypeOK'
  BY DEF ResetTypeOK, Steps
<1>3. Locking'
  BY <1>1, SentinelsOK DEF ResetTypeOK, Locking
<1>4. Logged' /\ OlderTokensDie'
  BY DEF Logged, OlderTokensDie
<1>5. ASSUME NEW s \in Requests PROVE Claims(s)' /\ Sweeps(s)'
  BY <1>1, SentinelsOK DEF ResetTypeOK, Claims, Sweeps
<1> QED
  BY <1>2, <1>3, <1>4, <1>5

LEMMA ResetBeginSweepKeeps ==
  ASSUME ResetInv, NEW r \in Requests, BeginSweep(r)
  PROVE  ResetInv'
<1> USE DEF ResetInv, BeginSweep, Goto, rows
<1>1. ResetTypeOK'
  BY DEF ResetTypeOK, Steps
<1>2. Locking'
  BY DEF ResetTypeOK, Locking
<1>3. Logged' /\ OlderTokensDie'
  BY DEF Logged, OlderTokensDie
<1>4. ASSUME NEW s \in Requests PROVE Claims(s)' /\ Sweeps(s)'
  BY DEF ResetTypeOK, Claims, Sweeps
<1> QED
  BY <1>1, <1>2, <1>3, <1>4

LEMMA ResetSweepRowKeeps ==
  ASSUME ResetInv, NEW r \in Requests, NEW t \in Tokens, SweepRow(r, t)
  PROVE  ResetInv'
<1> USE DEF ResetInv, SweepRow, Goto, rows
<1>1. t \in issued
  BY DEF Sweeps
<1>2. ResetTypeOK'
  BY DEF ResetTypeOK, Steps
<1>3. Locking'
  BY <1>1, SentinelsOK DEF ResetTypeOK, Locking
<1>4. Logged' /\ OlderTokensDie'
  BY DEF Logged, OlderTokensDie
<1>5. ASSUME NEW s \in Requests PROVE Claims(s)' /\ Sweeps(s)'
  BY SentinelsOK DEF ResetTypeOK, Claims, Sweeps
<1> QED
  BY <1>2, <1>3, <1>4, <1>5

\* The step the property is about: the token of the new entry was held, hence unconsumed,
\* hence in no earlier entry.
LEMMA ResetCommitResetKeeps ==
  ASSUME ResetInv, NEW r \in Requests, CommitReset(r)
  PROVE  ResetInv'
<1> DEFINE entry == [token |-> op[r], visible |-> visible[r]]
<1> USE DEF ResetInv, CommitReset, End
<1>1. op[r] \in Tokens /\ holder[op[r]] = r /\ op[r] \notin consumed
  BY SentinelsOK DEF ResetTypeOK, Claims, Locking
<1>2. entry \in [token : Tokens, visible : SUBSET Tokens]
  BY <1>1 DEF ResetTypeOK
<1>3. /\ DOMAIN log' = 1..(Len(log) + 1) /\ DOMAIN log = 1..Len(log)
      /\ \A n \in DOMAIN log : log'[n] = log[n]
      /\ log'[Len(log) + 1] = entry
      /\ Len(log) \in Nat
  BY <1>2 DEF ResetTypeOK
<1>4. consumed \subseteq consumed' /\ op[r] \in consumed' /\ visible[r] \subseteq consumed'
  BY <1>1 DEF ResetTypeOK, Sweeps
<1>5. ResetTypeOK'
  <2>1. log' \in Seq([token : Tokens, visible : SUBSET Tokens])
    BY <1>2 DEF ResetTypeOK
  <2>2. consumed' \subseteq issued'
    BY SentinelsOK DEF ResetTypeOK, Locking
  <2> QED
    BY <2>1, <2>2 DEF ResetTypeOK, Steps
<1>6. Locking'
  BY SentinelsOK DEF ResetTypeOK, Locking
<1>7. Logged'
  BY <1>3, <1>4 DEF Logged
<1>8. OlderTokensDie'
  <2> SUFFICES ASSUME NEW m \in DOMAIN log', NEW n \in DOMAIN log', m < n
               PROVE  log'[n].token # log'[m].token /\ log'[n].token \notin log'[m].visible
    BY DEF OlderTokensDie
  <2>1. m \in DOMAIN log
    BY <1>3
  <2>2. CASE n \in DOMAIN log
    BY <2>1, <2>2, <1>3 DEF OlderTokensDie
  <2>3. CASE n = Len(log) + 1
    BY <2>1, <2>3, <1>1, <1>3 DEF Logged
  <2> QED
    BY <2>2, <2>3, <1>3
<1>9. ASSUME NEW s \in Requests PROVE Claims(s)' /\ Sweeps(s)'
  BY DEF ResetTypeOK, Claims, Sweeps
<1> QED
  BY <1>5, <1>6, <1>7, <1>8, <1>9

LEMMA ResetExpireKeeps ==
  ASSUME ResetInv, NEW t \in Tokens, Expire(t)
  PROVE  ResetInv'
  BY DEF ResetInv, Expire, ResetTypeOK, Locking, Logged,
         OlderTokensDie, Claims, Sweeps

LEMMA ResetStutterKeeps == ResetInv /\ UNCHANGED resetVars => ResetInv'
  BY DEF ResetInv, resetVars, rows, ResetTypeOK, Locking, Logged,
         OlderTokensDie, Claims, Sweeps

\* ResetInv holds in every reachable state, whatever requests run together.
THEOREM ResetInvariance == ResetSpec => []ResetInv
<1>1. ResetInv /\ [ResetNext]_resetVars => ResetInv'
  <2> SUFFICES ASSUME ResetInv, ResetNext PROVE ResetInv'
    BY ResetStutterKeeps
  <2>1. ASSUME NEW r \in Requests, Begin(r) PROVE ResetInv'
    BY <2>1, ResetBeginKeeps DEF Begin
  <2>2. ASSUME NEW r \in Requests, CommitForgot(r) PROVE ResetInv'
    <3>1. op[r] \in Tokens
      BY <2>2 DEF ResetInv, Claims, CommitForgot
    <3> QED
      BY <2>2, <3>1, ResetEndKeeps DEF CommitForgot, ResetInv, ResetTypeOK
  <2>3. ASSUME NEW r \in Requests, Rollback(r) PROVE ResetInv'
    BY <2>3, ResetEndKeeps DEF Rollback, rows, ResetInv, ResetTypeOK
  <2>4. ASSUME NEW r \in Requests, Step(r) PROVE ResetInv'
    BY <2>4, <2>2, ResetConsumeKeeps, ResetBeginSweepKeeps, ResetSweepRowKeeps,
       ResetCommitResetKeeps DEF Step
  <2>5. ASSUME NEW t \in Tokens, Expire(t) PROVE ResetInv'
    BY <2>5, ResetExpireKeeps
  <2> QED
    BY <2>1, <2>3, <2>4, <2>5 DEF ResetNext
<1> QED
  BY ResetInitHolds, <1>1, PTL DEF ResetSpec

\* A committed reset ends the life of every token it could see, its own included: none of
\* them changes the password afterwards (auth.py, reset_password).
THEOREM TokensDie == ResetSpec => []OlderTokensDie
<1>1. ResetInv => OlderTokensDie
  BY DEF ResetInv
<1> QED
  BY ResetInvariance, <1>1, PTL
===============================================================================
