------------------------------ MODULE Insights ------------------------------
(***************************************************************************)
(* The insights of one organisation: run_all, called by the nightly task   *)
(* and by POST /insights/run, and the requests that dismiss a row.  A run  *)
(* loads its facts table by table, then the keys of every insight there    *)
(* is, and commits the findings whose key is new.  Other sessions commit   *)
(* between any two of its statements.                                      *)
(***************************************************************************)
EXTENDS InsightRules, Sequences

CONSTANTS Runs,         \* calls of run_all
          Txns,         \* transactions that exist or may be imported
          Invoices,     \* invoices that exist or may be imported, with the status of their line
          Commitments,
          Opening,      \* the transactions and invoices that exist from the start
          OpeningBalance, Balances,     \* the balance there is, and those the questionnaire may set
          Profile,      \* the id of the financial profile
          Outlooks,     \* weeks of runway a forecast may give, NoValue for no crash
          LookbackWeeks, \* weeks of history a forecast stands on (8)
          FirstDay, LastDay, MaxChanges, MaxDismissed   \* bounds on calendar, changes, dismissals

\* Version 0 stands for no version, so the calendar starts later.
ASSUME CalendarOK == FirstDay \in Nat \ {0} /\ LastDay \in Nat /\ FirstDay <= LastDay

VARIABLES today,        \* the calendar
          data,         \* the committed rows the loaders read
          insights,     \* committed insights, each with the run that wrote it
          run,          \* run[r]: call r and its session
          \* history: changes to data, the day of the last committed run, and the version
          \* of the facts that run saw throughout
          changes, lastDay, settled

vars == <<today, data, insights, run, changes, lastDay, settled>>

\* The tables in the order run_all reads them; the cash series takes the profile's balance
\* first and the transactions after it.
Loads == <<"invoices", "commitments", "vendors", "profile", "cash", "forecasts">>

Version == changes + today

\* history: began is the version of the facts at the start, steady whether every load has seen
\* it, after the runs committed when the keys were read, repeats whether nothing has changed
\* since the last committed run.
NewRun ==
  [pc |-> "queued", today |-> NoValue, next |-> 1, balance |-> NoValue, found |-> {},
   unpaid |-> {}, keys |-> {},
   began |-> 0, steady |-> TRUE, after |-> {}, repeats |-> FALSE]

Init ==
  /\ today = FirstDay
  /\ data = [txns |-> Txns \cap Opening, invoices |-> Invoices \cap Opening,
             balance |-> OpeningBalance, enabled |-> Ids(Commitments), forecasts |-> <<>>]
  /\ insights = {}
  /\ run = [r \in Runs |-> NewRun]
  /\ changes = 0 /\ lastDay = NoValue /\ settled = 0
-------------------------------------------------------------------------------
(* The rest of the application *)

Tick ==
  /\ today < LastDay
  /\ today' = today + 1
  /\ UNCHANGED <<data, insights, run, changes, lastDay, settled>>

Change(new) ==
  /\ changes < MaxChanges /\ new # data
  /\ data' = new /\ changes' = changes + 1
  /\ UNCHANGED <<today, insights, run, lastDay, settled>>

ImportTransaction(t) == t.day <= today /\ Change([data EXCEPT !.txns = @ \cup {t}])

ImportInvoice(i) == Change([data EXCEPT !.invoices = @ \cup {i}])

SetBalance(b) == Change([data EXCEPT !.balance = b])

ToggleCommitment(c) == Change([data EXCEPT !.enabled = SymDiff(@, {c.id})])

\* POST /runway/forecast/compute refuses to work without a balance or without history;
\* its evidence is the profile and the history.
ComputeForecast(weeks) ==
  LET this == WeekOf(today)
      history == {t \in data.txns : WeekOf(t.day) \in (this - LookbackWeeks)..(this - 1)}
      forecast == [weeks |-> weeks, evidence |-> {Profile} \cup Ids(history)]
  IN /\ data.balance # NoValue /\ history # {}
     /\ Change([data EXCEPT !.forecasts = Append(@, forecast)])
-------------------------------------------------------------------------------
(* run_all *)

StartRun(r) ==
  /\ run[r].pc = "queued"
  /\ run' = [run EXCEPT ![r] = [@ EXCEPT !.pc = "load", !.today = today, !.began = Version,
                                         !.repeats = settled = Version]]
  /\ UNCHANGED <<today, data, insights, changes, lastDay, settled>>

Unpaid == {i \in data.invoices : i.status # "paid"}

Latest(n) ==
  LET k == Len(data.forecasts) - n IN IF k < 1 THEN NoValue ELSE data.forecasts[k]

\* What the generator of a table makes of the table as it is now.
Detect(table, s) ==
  LET day == s.today IN
  CASE table = "cash" -> CashFindings(s.balance, data.txns, day)
    [] table = "profile" -> {}
    [] table = "invoices" -> LateFindings(Unpaid, day)
    [] table = "vendors" -> VendorFindings(data.txns, day)
    [] table = "commitments" ->
         RenewalFindings({[id |-> c.id, due |-> c.due, amount |-> c.amount,
                           enabled |-> c.id \in data.enabled] : c \in Commitments}, day)
    [] table = "forecasts" -> RunwayFindings(Latest(1), Latest(0))

Load(r) ==
  LET s == run[r] IN
  /\ s.pc = "load" /\ s.next <= Len(Loads)
  /\ run' = [run EXCEPT ![r] =
       [s EXCEPT !.next = @ + 1, !.steady = @ /\ Version = s.began,
                 !.found = @ \cup Detect(Loads[s.next], s),
                 !.balance = IF Loads[s.next] = "profile" THEN data.balance ELSE @,
                 !.unpaid = IF Loads[s.next] = "invoices" THEN Unpaid ELSE @]]
  /\ UNCHANGED <<today, data, insights, changes, lastDay, settled>>

\* Mutant of Seen: only the insights still in the inbox.
SeenActive == {i \in insights : i.status = "active"}

\* Every insight ever recorded, dismissed or not.
Seen == insights

Committed == {q \in Runs : run[q].pc = "done"}

ReadKeys(r) ==
  /\ run[r].pc = "load" /\ run[r].next > Len(Loads)
  /\ run' = [run EXCEPT ![r] = [@ EXCEPT !.pc = "insert", !.keys = {Key(i) : i \in Seen},
                                         !.after = Committed]]
  /\ UNCHANGED <<today, data, insights, changes, lastDay, settled>>

\* Mutant of Batches: keys found twice in one run are not told apart.
BatchesWhole(fresh) == {fresh}

\* One finding for each key: the first the generators happened to give.
Batches(fresh) ==
  LET firsts == {f \in [{Key(c) : c \in fresh} -> fresh] : \A k \in DOMAIN f : Key(f[k]) = k}
  IN {{f[k] : k \in DOMAIN f} : f \in firsts}

Ended(s, pc) == [NewRun EXCEPT !.pc = pc, !.after = s.after]

CommitRow(r, c) ==
  [type |-> c.type, subject |-> c.subject, evidence |-> c.evidence, run |-> r, status |-> "active"]

CommitRun(r) ==
  LET s == run[r]
      fresh == {c \in s.found : Key(c) \notin s.keys}
  IN /\ s.pc = "insert"
     /\ \E created \in Batches(fresh) :
          insights' = insights \cup {CommitRow(r, c) : c \in created}
     /\ run' = [run EXCEPT ![r] = Ended(s, "done")]
     /\ lastDay' = s.today
     /\ settled' = IF s.steady THEN s.began ELSE 0
     /\ UNCHANGED <<today, data, changes>>

\* Mutant of LoseRun: the failed session keeps what it has found.
LoseRunUnrolled(r) ==
  /\ run[r].pc \in {"load", "insert"}
  /\ run' = [run EXCEPT ![r].pc = "failed"]
  /\ UNCHANGED <<today, data, insights, changes, lastDay, settled>>

\* A generator raises, the database is gone or the worker dies: the session is rolled
\* back and the call is not repeated.
LoseRun(r) ==
  /\ run[r].pc \in {"load", "insert"}
  /\ run' = [run EXCEPT ![r] = Ended(@, "failed")]
  /\ UNCHANGED <<today, data, insights, changes, lastDay, settled>>

Dismiss(i) ==
  /\ i.status = "active"
  /\ Cardinality({j \in insights : j.status = "dismissed"}) < MaxDismissed
  /\ insights' = (insights \ {i}) \cup {[i EXCEPT !.status = "dismissed"]}
  /\ UNCHANGED <<today, data, run, changes, lastDay, settled>>

Next ==
  \/ Tick
  \/ \E t \in Txns : ImportTransaction(t)
  \/ \E i \in Invoices : ImportInvoice(i)
  \/ \E b \in Balances : SetBalance(b)
  \/ \E c \in Commitments : ToggleCommitment(c)
  \/ \E w \in Outlooks : ComputeForecast(w)
  \/ \E r \in Runs : StartRun(r) \/ Load(r) \/ ReadKeys(r) \/ CommitRun(r) \/ LoseRun(r)
  \/ \E i \in insights : Dismiss(i)

Spec == Init /\ [][Next]_vars
-------------------------------------------------------------------------------
(* Properties *)

\* Only a working session holds facts and findings, the keys it has read are those of
\* insights, and every insight comes from a run that committed.
TypeOK ==
  /\ data.txns \subseteq Txns /\ data.invoices \subseteq Invoices /\ today \in FirstDay..LastDay
  /\ \A n \in insights : run[n.run].pc = "done" /\ n.status \in {"active", "dismissed"}
  /\ \A r \in Runs :
       LET s == run[r]
       IN /\ s.next \in 1..(Len(Loads) + 1) /\ s.unpaid \subseteq Invoices
          /\ s.pc \notin {"load", "insert"} => s.found = {} /\ s.keys = {} /\ s.today = NoValue
          /\ s.keys \subseteq {Key(n) : n \in insights}

\* Two rows of one finding come from two runs, neither of which had committed when the
\* other read the keys: the dedupe of run_all holds within a run and against every run
\* before it, and fails only for runs that overlap.
DuplicatesOverlap ==
  \A i, j \in insights :
    i # j /\ Key(i) = Key(j) =>
      i.run # j.run /\ i.run \notin run[j.run].after /\ j.run \notin run[i.run].after

\* "Re-running the same day with unchanged facts inserts zero rows" (jobs.py): a run that
\* starts with the facts the last committed run saw throughout, and sees them throughout,
\* adds nothing, whatever was dismissed in between.
RerunAddsNothing ==
  [][\A r \in Runs :
       (run[r].pc = "insert" /\ run'[r].pc = "done" /\ run[r].repeats /\ run[r].steady)
         => insights' = insights]_vars

\* An invoice that fell due since the last committed run and was found unpaid is reported.
Reported(r) ==
  \A i \in run[r].unpaid :
    (lastDay # NoValue /\ i.due \in (lastDay + 1)..run[r].today)
      => \E n \in insights' : n.type = "late_invoice" /\ n.subject = i.id

Completes(r) == run[r].pc = "insert" /\ run'[r].pc = "done"

\* As long as a run commits every day, no invoice goes unreported.
DailyRunsMissNothing ==
  [][\A r \in Runs : Completes(r) /\ lastDay # NoValue /\ run[r].today <= lastDay + 1
       => Reported(r)]_vars
===============================================================================
