---------------------------- MODULE Notifications ----------------------------
(***************************************************************************)
(* The notifications of one organisation: generate_org_notifications, a    *)
(* worker task started after every import and by the daily job, and the    *)
(* inbox requests that mark its rows as read.  A run asks each generator   *)
(* in turn; _dedupe looks for an unread row of the alert's key among what  *)
(* is committed; everything the run adds or changes is written by its one  *)
(* commit.  Runs of several workers interleave at every statement.         *)
(***************************************************************************)
EXTENDS Naturals, Sequences, FiniteSets, SequencesExt

CONSTANTS Runs,         \* executions of the task
          Possible,     \* bound: the alerts that may be called for
          NoAlert

\* The generators in the order the task calls them, and the alerts each may raise.  The
\* one for funding is left out: the task calls it with no deadlines.
Order == <<"spending", "invoice", "runway">>

Alert(key, severity) == [key |-> key, severity |-> severity]

AlertsOf(g) ==
  CASE g = "spending" -> {Alert("spend_creep", s) : s \in {"warning", "critical"}}
    [] g = "invoice" -> {Alert("invoices_overdue", s) : s \in {"warning", "critical"}}
                          \cup {Alert("invoices_open", "info")}
    [] g = "runway" -> {Alert("runway_low", s) : s \in {"warning", "critical"}}

Findings(g) == (AlertsOf(g) \cap Possible) \cup {NoAlert}

ASSUME PossibleOK ==
  /\ Possible \subseteq UNION {AlertsOf(g) : g \in ToSet(Order)}
  /\ NoAlert \notin Possible

SEVERITY_ORDER == [info |-> 0, warning |-> 1, critical |-> 2]

Rank(severity) == SEVERITY_ORDER[severity]

VARIABLES facts,        \* facts[g]: the alert the figures call for, or NoAlert
          inbox,        \* committed rows, oldest first
          run,          \* run[j]: execution j and its session
          readAll       \* the rows an open read-all has selected, or {}

vars == <<facts, inbox, run, readAll>>

\* added: rows given to session.add; bumps: rows whose severity was raised; wanted, alone
\* and stale are history: the alerts found, whether no other run overlapped this one, and
\* the rows that had been read when it started.
NewRun ==
  [pc |-> "queued", next |-> 1, added |-> <<>>, bumps |-> {},
   wanted |-> {}, alone |-> TRUE, stale |-> {}]

Init ==
  /\ facts = [g \in ToSet(Order) |-> NoAlert]
  /\ inbox = <<>>
  /\ run = [j \in Runs |-> NewRun]
  /\ readAll = {}

\* A run that is over, with an empty session.
Ended(s, pc) == [NewRun EXCEPT !.pc = pc, !.alone = s.alone]

Unread == {n \in DOMAIN inbox : ~inbox[n].read}

Working == {j \in Runs : run[j].pc = "working"}
-------------------------------------------------------------------------------
(* The task *)

\* Imports, payments and the calendar change what the generators will find.
FactsChange(g) ==
  /\ \E found \in Findings(g) \ {facts[g]} :
       facts' = [facts EXCEPT ![g] = found]
  /\ UNCHANGED <<inbox, run, readAll>>

StartRun(j) ==
  /\ run[j].pc = "queued"
  /\ run' = [i \in Runs |->
       IF i = j THEN [run[j] EXCEPT !.pc = "working", !.alone = (Working = {}),
                                    !.stale = DOMAIN inbox \ Unread]
       ELSE IF i \in Working THEN [run[i] EXCEPT !.alone = FALSE]
       ELSE run[i]]
  /\ UNCHANGED <<facts, inbox, readAll>>

\* Mutant of Matches: a row that was read still counts.
MatchesAny(key) == {n \in DOMAIN inbox : inbox[n].key = key}

\* SELECT ... WHERE dedupe_key = key AND read_at IS NULL.
Matches(key) == {n \in Unread : inbox[n].key = key}

Bump(rows, severity) == {[row |-> n, to |-> severity] : n \in rows}

\* Mutant of Dedupe: a more severe alert becomes a row of its own.
DedupeAddsLouder(s, alert) ==
  LET found == Matches(alert.key)
      louder == {n \in found : Rank(alert.severity) > Rank(inbox[n].severity)}
  IN CASE found = louder -> [s EXCEPT !.added = Append(@, alert)]
       [] Cardinality(found) = 1 -> s
       [] OTHER -> Ended(s, "failed")

\* Mutant of Dedupe: the row takes the severity of the alert, higher or lower.
DedupeFollows(s, alert) ==
  LET found == Matches(alert.key)
      other == {n \in found : alert.severity # inbox[n].severity}
  IN CASE Cardinality(found) = 0 -> [s EXCEPT !.added = Append(@, alert)]
       [] Cardinality(found) = 1 -> [s EXCEPT !.bumps = @ \cup Bump(other, alert.severity)]
       [] OTHER -> Ended(s, "failed")

\* _dedupe: scalar_one_or_none gives no row, the one row, or MultipleResultsFound,
\* which ends the run in a rollback.
Dedupe(s, alert) ==
  LET found == Matches(alert.key)
      louder == {n \in found : Rank(alert.severity) > Rank(inbox[n].severity)}
  IN CASE Cardinality(found) = 0 -> [s EXCEPT !.added = Append(@, alert)]
       [] Cardinality(found) = 1 -> [s EXCEPT !.bumps = @ \cup Bump(louder, alert.severity)]
       [] OTHER -> Ended(s, "failed")

\* One generator: it reads the figures, then the inbox.
Generate(j) ==
  LET s == run[j]
      found == facts[Order[s.next]]
  IN /\ s.pc = "working" /\ s.next <= Len(Order)
     /\ run' = [run EXCEPT ![j] =
          IF found = NoAlert THEN [s EXCEPT !.next = @ + 1]
          ELSE Dedupe([s EXCEPT !.next = @ + 1, !.wanted = @ \cup {found}], found)]
     /\ UNCHANGED <<facts, inbox, readAll>>

Row(j, alert) ==
  [key |-> alert.key, severity |-> alert.severity, read |-> FALSE, by |-> j]

Inserted(j) == [n \in DOMAIN run[j].added |-> Row(j, run[j].added[n])]

\* UPDATE ... SET severity WHERE id: it overwrites whatever the row has become.
Bumped(j) ==
  [n \in DOMAIN inbox |->
     IF \E b \in run[j].bumps : b.row = n
     THEN [inbox[n] EXCEPT !.severity = (CHOOSE b \in run[j].bumps : b.row = n).to]
     ELSE inbox[n]]

CommitRun(j) ==
  /\ run[j].pc = "working" /\ run[j].next > Len(Order)
  /\ inbox' = Bumped(j) \o Inserted(j)
  /\ run' = [run EXCEPT ![j] = Ended(@, "done")]
  /\ UNCHANGED <<facts, readAll>>

\* Mutant of LoseRun: the failed session is not rolled back.
LoseRunUnrolled(j) ==
  /\ run[j].pc = "working"
  /\ run' = [run EXCEPT ![j].pc = "failed"]
  /\ UNCHANGED <<facts, inbox, readAll>>

\* Another exception, or the worker dies; the task is not run again.
LoseRun(j) ==
  /\ run[j].pc = "working"
  /\ run' = [run EXCEPT ![j] = Ended(@, "failed")]
  /\ UNCHANGED <<facts, inbox, readAll>>
-------------------------------------------------------------------------------
(* The inbox *)

MarkRead(n) ==
  /\ n \in Unread
  /\ inbox' = [inbox EXCEPT ![n].read = TRUE]
  /\ UNCHANGED <<facts, run, readAll>>

\* POST /notifications/read-all loads the unread rows ...
SelectUnread ==
  /\ readAll = {} /\ Unread # {}
  /\ readAll' = Unread
  /\ UNCHANGED <<facts, inbox, run>>

\* ... and updates each of them by its id.
MarkAllRead ==
  /\ readAll # {}
  /\ inbox' = [n \in DOMAIN inbox |-> [inbox[n] EXCEPT !.read = @ \/ n \in readAll]]
  /\ readAll' = {}
  /\ UNCHANGED <<facts, run>>

Next ==
  \/ \E g \in ToSet(Order) : FactsChange(g)
  \/ \E j \in Runs : StartRun(j) \/ Generate(j) \/ CommitRun(j) \/ LoseRun(j)
  \/ \E n \in DOMAIN inbox : MarkRead(n)
  \/ SelectUnread \/ MarkAllRead

Spec == Init /\ [][Next]_vars
-------------------------------------------------------------------------------
(* Properties *)

\* A session holds work only while its run works, one piece for each alert found, and
\* points at rows that exist.
TypeOK ==
  /\ \A g \in ToSet(Order) : facts[g] \in Findings(g)
  /\ \A n \in DOMAIN inbox : inbox[n].by \in Runs /\ inbox[n].severity \in DOMAIN SEVERITY_ORDER
  /\ \A j \in Runs :
       LET s == run[j]
       IN /\ s.pc # "working" => s.added = <<>> /\ s.bumps = {}
          /\ Len(s.added) + Cardinality(s.bumps) <= Cardinality(s.wanted)
          /\ \A b \in s.bumps : b.row \in DOMAIN inbox
  /\ readAll \subseteq DOMAIN inbox

\* "Dedupe by (org_id, dedupe_key); no duplicate unread" (generators.py), which the code
\* keeps as long as runs do not overlap: two unread rows of a key come from two runs that
\* both overlapped another one.
DuplicatesOverlap ==
  \A n, m \in Unread :
     n # m /\ inbox[n].key = inbox[m].key
       => ~run[inbox[n].by].alone /\ ~run[inbox[m].by].alone

\* A run that no other overlaps, and that commits, leaves every alert it found announced:
\* by a row that was not read before it started, and at least as severe as the alert, even
\* when rows are read and figures change while it works.
AlertsStand ==
  [][\A j \in Runs :
       run[j].alone /\ run[j].pc = "working" /\ run'[j].pc = "done"
       => \A alert \in run[j].wanted : \E n \in DOMAIN inbox' \ run[j].stale :
            inbox'[n].key = alert.key /\ Rank(inbox'[n].severity) >= Rank(alert.severity)]_vars

\* An alert that was announced is never taken back: its row stays and its severity never goes
\* down, although a raise writes over whatever the row has become since the run read it.  No
\* lock and no comparison at the write protects it; two overlapping runs cannot lower each
\* other's raise only because every key has two severities at most.
SeverityStands ==
  [][\A n \in DOMAIN inbox :
       /\ n \in DOMAIN inbox' /\ inbox'[n].key = inbox[n].key
       /\ Rank(inbox'[n].severity) >= Rank(inbox[n].severity)]_vars
===============================================================================
