-------------------------- MODULE NotificationsProofs --------------------------
(***************************************************************************)
(* Proofs about Notifications, for any number of runs and any of the       *)
(* alerts.  IInv is inductive: what a session holds was true of the inbox  *)
(* when it read it, and stays true as long as no other run overlaps it.    *)
(***************************************************************************)
EXTENDS Notifications, FiniteSetTheorems, SequenceTheorems, TLAPS

Severities == {"info", "warning", "critical"}

Keys == {"spend_creep", "invoices_overdue", "invoices_open", "runway_low"}

Alerts == [key : Keys, severity : Severities]

\* The generator that raises the alerts of a key, by its place in Order.
Turn(key) == IF key = "spend_creep" THEN 1 ELSE IF key = "runway_low" THEN 3 ELSE 2

Rows == [key : Keys, severity : Severities, read : BOOLEAN, by : Runs]

Sessions ==
  [pc : {"queued", "working", "done", "failed"}, next : 1..4, added : Seq(Alerts),
   bumps : SUBSET [row : Nat, to : Severities], wanted : SUBSET Alerts, alone : BOOLEAN,
   stale : SUBSET Nat]

Typed ==
  /\ \A g \in ToSet(Order) : facts[g] \in Findings(g)
  /\ facts = [g \in ToSet(Order) |-> facts[g]]
  /\ inbox \in Seq(Rows)
  /\ run \in [Runs -> Sessions]
  /\ readAll \subseteq DOMAIN inbox

\* A session answers each alert it found once, by a row of its own or by one bump, and the
\* generators still to be asked raise alerts of other keys.
Accounted(s) ==
  /\ s.pc # "working" => s.added = <<>> /\ s.bumps = {} /\ s.wanted = {}
  /\ IsFiniteSet(s.wanted) /\ IsFiniteSet(s.bumps)
  /\ Len(s.added) + Cardinality(s.bumps) <= Cardinality(s.wanted)
  /\ \A a \in s.wanted : Turn(a.key) < s.next
  /\ \A n \in DOMAIN s.added : s.added[n] \in s.wanted
  /\ \A n, m \in DOMAIN s.added : n # m => s.added[n].key # s.added[m].key
  /\ \A b \in s.bumps : b.row \in DOMAIN inbox /\ Turn(inbox[b.row].key) < s.next
  /\ \A b, c \in s.bumps : b.row = c.row => b = c
  /\ \A n \in s.stale : n \in DOMAIN inbox /\ inbox[n].read

\* The alert will stand when the session commits, if nobody else writes the inbox until then.
Announced(s, a) ==
  \/ \E n \in DOMAIN s.added : s.added[n] = a
  \/ \E n \in DOMAIN inbox \ s.stale :
       /\ inbox[n].key = a.key
       /\ \A b \in s.bumps : b.row = n => Rank(b.to) >= Rank(a.severity)
       /\ (\E b \in s.bumps : b.row = n) \/ Rank(inbox[n].severity) >= Rank(a.severity)

\* A run counted as alone is the only one at work, and whoever wrote a row is done.
Solitude ==
  /\ \A i, j \in Runs : run[i].pc = "working" /\ run[j].pc = "working" /\ i # j => ~run[i].alone
  /\ \A n \in DOMAIN inbox : run[inbox[n].by].pc = "done"

Standing ==
  \A j \in Runs : run[j].pc = "working" /\ run[j].alone =>
    \A a \in run[j].wanted : Announced(run[j], a)

\* An unread row of a key a session is about to add has come since the session looked.
Crossed ==
  \A j \in Runs : \A n \in DOMAIN run[j].added, m \in DOMAIN inbox :
    ~inbox[m].read /\ inbox[m].key = run[j].added[n].key =>
      ~run[j].alone /\ ~run[inbox[m].by].alone

IInv ==
  /\ Typed /\ Solitude /\ Standing /\ Crossed /\ DuplicatesOverlap
  /\ \A j \in Runs : Accounted(run[j])

-------------------------------------------------------------------------------
(* The generators *)

LEMMA Generators ==
  /\ Len(Order) = 3 /\ DOMAIN Order = 1..3
  /\ ToSet(Order) = {"spending", "invoice", "runway"}
  /\ \A k \in 1..3 : Order[k] \in ToSet(Order)
BY DEF Order, ToSet

LEMMA RaisedBy ==
  /\ AlertsOf("spending") = {Alert("spend_creep", s) : s \in {"warning", "critical"}}
  /\ AlertsOf("invoice") = {Alert("invoices_overdue", s) : s \in {"warning", "critical"}}
                              \cup {Alert("invoices_open", "info")}
  /\ AlertsOf("runway") = {Alert("runway_low", s) : s \in {"warning", "critical"}}
BY Zenon DEF AlertsOf

\* Each generator raises alerts of its own keys.
LEMMA OwnKeys ==
  ASSUME NEW k \in 1..3, NEW a \in Findings(Order[k]), a # NoAlert
  PROVE  a \in Alerts /\ Turn(a.key) = k
<1>1. a \in AlertsOf(Order[k])
  BY DEF Findings
<1>2. CASE k = 1
  BY <1>1, <1>2, RaisedBy DEF Order, Alert, Alerts, Keys, Severities, Turn
<1>3. CASE k = 2
  BY <1>1, <1>3, RaisedBy DEF Order, Alert, Alerts, Keys, Severities, Turn
<1>4. CASE k = 3
  BY <1>1, <1>4, RaisedBy DEF Order, Alert, Alerts, Keys, Severities, Turn
<1> QED
  BY <1>2, <1>3, <1>4

LEMMA TurnIsNumber == \A key : Turn(key) \in 1..3
BY DEF Turn

LEMMA Ranks == \A s \in Severities : Rank(s) \in Nat /\ s \in DOMAIN SEVERITY_ORDER
BY DEF Severities, Rank, SEVERITY_ORDER

-------------------------------------------------------------------------------
(* Sessions *)

LEMMA NewSession ==
  NewRun \in Sessions /\ Accounted(NewRun) /\ NewRun.pc = "queued" /\ NewRun.added = <<>>
BY FS_EmptySet, EmptySeq DEF NewRun, Sessions, Accounted

LEMMA EndedSession ==
  ASSUME NEW s \in Sessions, NEW pc \in {"done", "failed"}
  PROVE  /\ Ended(s, pc) \in Sessions /\ Accounted(Ended(s, pc))
         /\ Ended(s, pc).pc = pc /\ Ended(s, pc).alone = s.alone /\ Ended(s, pc).added = <<>>
         /\ Ended(s, pc).bumps = {} /\ Ended(s, pc).wanted = {}
<1> DEFINE e == Ended(s, pc)
<1>1. /\ e.pc = pc /\ e.next = 1 /\ e.added = <<>> /\ e.bumps = {} /\ e.wanted = {}
      /\ e.alone = s.alone /\ e.stale = {}
  BY DEF Ended, NewRun
<1>2. s.alone \in BOOLEAN
  BY DEF Sessions
<1>3. e \in Sessions
  BY <1>2, NewSession DEF Ended, Sessions
<1>4. Accounted(e)
  BY <1>1, FS_EmptySet, EmptySeq DEF Accounted
<1> QED
  BY <1>1, <1>3, <1>4

Disturbed(s) == [s EXCEPT !.alone = FALSE]

Started(s, alone, stale) == [s EXCEPT !.pc = "working", !.alone = alone, !.stale = stale]

LEMMA DisturbedSession ==
  ASSUME NEW s \in Sessions, NEW e, e = Disturbed(s)
  PROVE  /\ e \in Sessions /\ e.pc = s.pc /\ e.added = s.added /\ e.bumps = s.bumps
         /\ e.wanted = s.wanted /\ e.next = s.next /\ e.stale = s.stale /\ ~e.alone
BY DEF Sessions, Disturbed

LEMMA StartedSession ==
  ASSUME NEW s \in Sessions, NEW b \in BOOLEAN, NEW stale \in SUBSET Nat, NEW e,
         e = Started(s, b, stale)
  PROVE  /\ e \in Sessions /\ e.pc = "working" /\ e.added = s.added /\ e.bumps = s.bumps
         /\ e.wanted = s.wanted /\ e.next = s.next /\ e.stale = stale /\ (e.alone <=> b)
BY DEF Sessions, Started

LEMMA InitHolds == Init => IInv
<1> SUFFICES ASSUME Init PROVE IInv
  OBVIOUS
<1>1. Typed
  BY NewSession, EmptySeq DEF Init, Typed, Findings
<1>2. \A j \in Runs : Accounted(run[j]) /\ run[j].pc = "queued" /\ run[j].added = <<>>
  BY NewSession DEF Init
<1>3. DOMAIN inbox = {} /\ DOMAIN <<>> = {}
  BY DEF Init
<1> QED
  BY <1>1, <1>2, <1>3
     DEF IInv, Solitude, Standing, Crossed, DuplicatesOverlap, Unread

LEMMA InboxRows ==
  ASSUME IInv
  PROVE  /\ Len(inbox) \in Nat /\ DOMAIN inbox = 1..Len(inbox) /\ DOMAIN inbox \subseteq Nat
         /\ \A n \in DOMAIN inbox :
              /\ inbox[n] \in Rows /\ inbox[n].by \in Runs /\ inbox[n].read \in BOOLEAN
              /\ inbox[n].key \in Keys /\ inbox[n].severity \in Severities
<1>1. inbox \in Seq(Rows)
  BY DEF IInv, Typed
<1>2. \A n \in DOMAIN inbox : inbox[n] \in Rows
  BY <1>1
<1> QED
  BY <1>1, <1>2 DEF Rows

\* A working session is replaced while the inbox stays: it keeps IInv if the new session is
\* accounted for and what it relies on is so.
LEMMA SessionKeeps ==
  ASSUME IInv, NEW j \in Runs, run[j].pc = "working", NEW s \in Sessions,
         run' = [run EXCEPT ![j] = s], UNCHANGED <<facts, inbox, readAll>>,
         s.pc \in {"working", "failed"}, s.alone = run[j].alone, Accounted(s),
         s.pc = "working" /\ s.alone => \A a \in s.wanted : Announced(s, a),
         \A n \in DOMAIN s.added, m \in DOMAIN inbox :
           ~inbox[m].read /\ inbox[m].key = s.added[n].key =>
             ~s.alone /\ ~run[inbox[m].by].alone
  PROVE  IInv'
<1>1. \A i \in Runs : run'[i] = IF i = j THEN s ELSE run[i]
  BY DEF IInv, Typed
<1>2. Typed'
  BY DEF IInv, Typed
<1>3. \A n \in DOMAIN inbox : inbox[n].by \in Runs
  BY InboxRows
<1>4. \A n \in DOMAIN inbox : inbox[n].by # j
  BY DEF IInv, Solitude
<1>5. Solitude'
  BY <1>1, <1>3, <1>4 DEF IInv, Solitude
<1>6. \A i \in Runs : Accounted(run[i])'
  BY <1>1 DEF IInv, Accounted
<1>7. Standing'
  BY <1>1 DEF IInv, Standing, Announced
<1>8. Crossed'
  BY <1>1, <1>3, <1>4 DEF IInv, Crossed
<1>9. DuplicatesOverlap'
  BY <1>1, <1>3, <1>4 DEF IInv, DuplicatesOverlap, Unread
<1> QED
  BY <1>2, <1>5, <1>6, <1>7, <1>8, <1>9 DEF IInv

\* Rows are marked as read while the runs stay.
LEMMA ReadingKeeps ==
  ASSUME IInv, UNCHANGED <<facts, run>>, inbox' \in Seq(Rows), Len(inbox') = Len(inbox),
         readAll' \subseteq DOMAIN inbox,
         \A n \in DOMAIN inbox :
           /\ inbox'[n].key = inbox[n].key /\ inbox'[n].severity = inbox[n].severity
           /\ inbox'[n].by = inbox[n].by /\ (inbox[n].read => inbox'[n].read)
  PROVE  IInv'
<1>1. DOMAIN inbox' = DOMAIN inbox
  BY DEF IInv, Typed
<1>2. Typed'
  BY <1>1 DEF IInv, Typed
<1>3. Solitude' /\ Crossed'
  BY <1>1 DEF IInv, Solitude, Crossed
<1>4. \A j \in Runs : Accounted(run[j])'
  BY <1>1 DEF IInv, Accounted
<1>5. Standing'
  BY <1>1 DEF IInv, Standing, Announced
<1>6. DuplicatesOverlap'
  BY <1>1 DEF IInv, DuplicatesOverlap, Unread
<1> QED
  BY <1>2, <1>3, <1>4, <1>5, <1>6 DEF IInv

LEMMA MarkReadKeeps == ASSUME IInv, NEW n \in DOMAIN inbox, MarkRead(n) PROVE IInv'
<1>1. inbox \in Seq(Rows) /\ inbox[n] \in Rows /\ n \in 1..Len(inbox)
  BY DEF IInv, Typed
<1> DEFINE row == [inbox[n] EXCEPT !.read = TRUE]
<1>2. /\ row \in Rows /\ row.key = inbox[n].key /\ row.severity = inbox[n].severity
      /\ row.by = inbox[n].by /\ row.read
  BY <1>1 DEF Rows
<1>3. inbox' = [inbox EXCEPT ![n] = row]
  BY DEF MarkRead
<1> HIDE DEF row
<1>4. /\ inbox' \in Seq(Rows) /\ Len(inbox') = Len(inbox)
      /\ \A m \in 1..Len(inbox) : inbox'[m] = IF m = n THEN row ELSE inbox[m]
  BY <1>1, <1>2, <1>3, ExceptSeq
<1>5. readAll' \subseteq DOMAIN inbox /\ UNCHANGED <<facts, run>>
  BY DEF MarkRead, IInv, Typed
<1> QED
  BY <1>1, <1>2, <1>4, <1>5, ReadingKeeps

LEMMA ReadRow ==
  ASSUME NEW row \in Rows, NEW read \in BOOLEAN
  PROVE  LET new == [row EXCEPT !.read = read]
         IN /\ new \in Rows /\ new.key = row.key /\ new.severity = row.severity
            /\ new.by = row.by /\ new.read = read
BY DEF Rows

LEMMA MarkAllReadKeeps == ASSUME IInv, MarkAllRead PROVE IInv'
<1>1. inbox \in Seq(Rows) /\ DOMAIN inbox = 1..Len(inbox) /\ Len(inbox) \in Nat
  BY DEF IInv, Typed
<1> DEFINE row(n) == [inbox[n] EXCEPT !.read = @ \/ n \in readAll]
<1>2. ASSUME NEW n \in 1..Len(inbox)
      PROVE  /\ row(n) \in Rows /\ row(n).key = inbox[n].key /\ row(n).by = inbox[n].by
             /\ row(n).severity = inbox[n].severity /\ (inbox[n].read => row(n).read)
  <2>1. inbox[n] \in Rows
    BY <1>1, InboxRows
  <2>2. (inbox[n].read \/ n \in readAll) \in BOOLEAN
    OBVIOUS
  <2> QED BY <2>1, <2>2, ReadRow
<1>3. inbox' = [n \in 1..Len(inbox) |-> row(n)]
  BY <1>1 DEF MarkAllRead
<1> HIDE DEF row
<1>4. inbox' \in Seq(Rows) /\ Len(inbox') = Len(inbox)
  BY <1>1, <1>2, <1>3
<1>5. readAll' \subseteq DOMAIN inbox /\ UNCHANGED <<facts, run>>
  BY DEF MarkAllRead
<1> QED
  BY <1>1, <1>2, <1>3, <1>4, <1>5, ReadingKeeps

\* Changing what the generators will find, and selecting the unread rows, keep IInv.
LEMMA FactsKeep ==
  ASSUME IInv, SelectUnread \/ \E g \in ToSet(Order) : FactsChange(g)
  PROVE  IInv'
<1>1. UNCHANGED <<inbox, run>>
  BY DEF SelectUnread, FactsChange
<1>2. Typed'
  <2>1. CASE SelectUnread
    BY <2>1 DEF SelectUnread, IInv, Typed, Unread
  <2>2. ASSUME NEW g \in ToSet(Order), FactsChange(g) PROVE Typed'
    BY <2>2 DEF FactsChange, IInv, Typed
  <2> QED BY <2>1, <2>2
<1> QED
  BY <1>1, <1>2 DEF IInv, Solitude, Standing, Crossed, DuplicatesOverlap, Unread, Accounted,
                    Announced

\* A run that starts ends the solitude of the others, and has none among them.
LEMMA StartKeeps == ASSUME IInv, NEW j \in Runs, StartRun(j) PROVE IInv'
<1>1. /\ run \in [Runs -> Sessions] /\ run[j].pc = "queued"
      /\ \A i \in Runs : Accounted(run[i]) /\ run[i] \in Sessions
  BY DEF IInv, Typed, StartRun
<1> DEFINE stale == DOMAIN inbox \ Unread
           solo == Working = {}
<1>2. run'[j] = Started(run[j], solo, stale) /\ UNCHANGED <<facts, inbox, readAll>>
  BY DEF StartRun, Started
<1>3. /\ stale \in SUBSET Nat /\ stale \subseteq DOMAIN inbox /\ \A n \in stale : inbox[n].read
      /\ solo \in BOOLEAN /\ (solo <=> Working = {})
  BY InboxRows DEF Unread
<1> HIDE DEF stale, solo
<1>4. /\ run'[j] \in Sessions /\ run'[j].pc = "working" /\ (run'[j].alone <=> solo)
      /\ run'[j].stale = stale /\ run'[j].added = run[j].added
      /\ run'[j].bumps = run[j].bumps
      /\ run'[j].wanted = run[j].wanted /\ run'[j].next = run[j].next
  BY <1>1, <1>2, <1>3, StartedSession
<1>5. ASSUME NEW i \in Runs \ {j}
      PROVE  /\ run'[i] \in Sessions /\ run'[i].pc = run[i].pc
             /\ run'[i].added = run[i].added /\ run'[i].bumps = run[i].bumps
             /\ run'[i].wanted = run[i].wanted /\ run'[i].next = run[i].next
             /\ run'[i].stale = run[i].stale
             /\ run'[i].alone <=> (run[i].alone /\ i \notin Working)
  <2>1. CASE i \in Working
    <3>1. run'[i] = Disturbed(run[i])
      BY <2>1 DEF StartRun, Disturbed
    <3> QED BY <1>1, <2>1, <3>1, DisturbedSession
  <2>2. CASE i \notin Working
    BY <1>1, <2>2 DEF StartRun
  <2> QED BY <2>1, <2>2
<1>6. run'[j].added = <<>> /\ run'[j].bumps = {} /\ run'[j].wanted = {}
  BY <1>1, <1>4 DEF Accounted
<1>7. Typed'
  <2>1. run' \in [Runs -> Sessions]
    BY <1>4, <1>5 DEF StartRun
  <2> QED BY <1>2, <2>1 DEF IInv, Typed
<1>8. ASSUME NEW i \in Runs PROVE Accounted(run[i])'
  <2>1. CASE i = j
    <3>1. Accounted(run[j])
      BY <1>1
    <3>2. \A n \in run'[j].stale : n \in DOMAIN inbox /\ inbox[n].read
      BY <1>3, <1>4
    <3>3. Accounted(run'[j])
      BY <1>1, <1>4, <1>6, <3>1, <3>2 DEF Accounted
    <3> QED BY <1>2, <2>1, <3>3 DEF Accounted
  <2>2. CASE i # j
    BY <1>1, <1>2, <1>5, <2>2 DEF Accounted
  <2> QED BY <2>1, <2>2
<1>9. Solitude'
  <2>1. \A n \in DOMAIN inbox : inbox[n].by \in Runs \ {j} /\ run[inbox[n].by].pc = "done"
    BY <1>1, InboxRows DEF IInv, Solitude
  <2>2. \A n \in DOMAIN inbox : run'[inbox[n].by].pc = "done"
    BY <1>5, <2>1
  <2>3. \A i, k \in Runs : run'[i].pc = "working" /\ run'[k].pc = "working" /\ i # k
          => ~run'[i].alone
    BY <1>3, <1>4, <1>5 DEF Working
  <2> QED BY <1>2, <2>2, <2>3 DEF Solitude
<1>10. Standing'
  <2>1. \A i \in Runs \ {j} : run'[i].pc = "working" => ~run'[i].alone
    BY <1>5 DEF Working
  <2> QED BY <1>6, <2>1 DEF Standing
<1>11. Crossed'
  BY <1>1, <1>2, <1>3, <1>4, <1>5, <1>6, InboxRows DEF IInv, Crossed, Solitude
<1>12. DuplicatesOverlap'
  BY <1>1, <1>2, <1>3, <1>4, <1>5, InboxRows
     DEF IInv, DuplicatesOverlap, Solitude, Unread, Working
<1> QED
  BY <1>7, <1>8, <1>9, <1>10, <1>11, <1>12 DEF IInv
-------------------------------------------------------------------------------
(* One generator *)

Advanced(s) == [s EXCEPT !.next = @ + 1]

Found(s, a) == [s EXCEPT !.next = @ + 1, !.wanted = @ \cup {a}]

Adding(s, a) == [s EXCEPT !.added = Append(@, a)]

Raising(s, bumps) == [s EXCEPT !.bumps = @ \cup bumps]

LEMMA AdvancedSession ==
  ASSUME NEW s \in Sessions, s.next <= 3, NEW e, e = Advanced(s)
  PROVE  /\ e \in Sessions /\ e.pc = s.pc /\ e.added = s.added /\ e.bumps = s.bumps
         /\ e.wanted = s.wanted /\ e.next = s.next + 1 /\ e.stale = s.stale
         /\ e.alone = s.alone
BY DEF Sessions, Advanced

LEMMA FoundSession ==
  ASSUME NEW s \in Sessions, s.next <= 3, NEW a \in Alerts, NEW e, e = Found(s, a)
  PROVE  /\ e \in Sessions /\ e.pc = s.pc /\ e.added = s.added /\ e.bumps = s.bumps
         /\ e.wanted = s.wanted \cup {a} /\ e.next = s.next + 1 /\ e.stale = s.stale
         /\ e.alone = s.alone
<1>1. s.next + 1 \in 1..4 /\ s.wanted \cup {a} \in SUBSET Alerts
  BY DEF Sessions
<1>2. /\ e.pc = s.pc /\ e.added = s.added /\ e.bumps = s.bumps
      /\ e.wanted = s.wanted \cup {a} /\ e.next = s.next + 1 /\ e.stale = s.stale
      /\ e.alone = s.alone
  BY DEF Sessions, Found
<1>3. e \in Sessions
  BY <1>1 DEF Sessions, Found
<1> QED
  BY <1>2, <1>3

LEMMA AddingSession ==
  ASSUME NEW s \in Sessions, NEW a \in Alerts, NEW e, e = Adding(s, a)
  PROVE  /\ e \in Sessions /\ e.pc = s.pc /\ e.bumps = s.bumps /\ e.added = Append(s.added, a)
         /\ e.wanted = s.wanted /\ e.next = s.next /\ e.stale = s.stale
         /\ e.alone = s.alone
         /\ Len(e.added) = Len(s.added) + 1 /\ e.added[Len(s.added) + 1] = a
         /\ DOMAIN s.added = 1..Len(s.added) /\ Len(s.added) \in Nat
         /\ DOMAIN e.added = 1..(Len(s.added) + 1)
         /\ \A n \in 1..Len(s.added) : e.added[n] = s.added[n]
<1>1. s.added \in Seq(Alerts)
  BY DEF Sessions
<1> DEFINE added == Append(s.added, a)
<1>2. /\ added \in Seq(Alerts)
      /\ Len(added) = Len(s.added) + 1 /\ added[Len(s.added) + 1] = a
      /\ DOMAIN s.added = 1..Len(s.added) /\ Len(s.added) \in Nat
      /\ DOMAIN added = 1..(Len(s.added) + 1)
      /\ \A n \in 1..Len(s.added) : added[n] = s.added[n]
  BY <1>1
<1> HIDE DEF added
<1>3. /\ e.pc = s.pc /\ e.bumps = s.bumps /\ e.added = added
      /\ e.wanted = s.wanted /\ e.next = s.next /\ e.stale = s.stale
      /\ e.alone = s.alone
  BY DEF Sessions, Adding, added
<1>4. e \in Sessions
  BY <1>2 DEF Sessions, Adding, added
<1> QED
  BY <1>2, <1>3, <1>4 DEF added

LEMMA RaisingSession ==
  ASSUME NEW s \in Sessions, NEW bumps \in SUBSET [row : Nat, to : Severities],
         NEW e, e = Raising(s, bumps)
  PROVE  /\ e \in Sessions /\ e.pc = s.pc /\ e.bumps = s.bumps \cup bumps
         /\ e.added = s.added
         /\ e.wanted = s.wanted /\ e.next = s.next /\ e.stale = s.stale
         /\ e.alone = s.alone
BY DEF Sessions, Raising

\* The three outcomes of _dedupe.
LEMMA DedupeCases ==
  ASSUME NEW s, NEW a
  PROVE  LET found == Matches(a.key)
             louder == {n \in found : Rank(a.severity) > Rank(inbox[n].severity)}
         IN /\ Cardinality(found) = 0 => Dedupe(s, a) = Adding(s, a)
            /\ Cardinality(found) = 1 => Dedupe(s, a) = Raising(s, Bump(louder, a.severity))
            /\ Cardinality(found) \notin {0, 1} => Dedupe(s, a) = Ended(s, "failed")
<1> DEFINE n == Cardinality(Matches(a.key))
           louder == {m \in Matches(a.key) : Rank(a.severity) > Rank(inbox[m].severity)}
           r == Raising(s, Bump(louder, a.severity))
           f == Ended(s, "failed")
<1>1. Dedupe(s, a) = CASE n = 0 -> Adding(s, a) [] n = 1 -> r [] OTHER -> f
  BY DEF Dedupe, Adding, Raising
<1> HIDE DEF n, r, f
<1>2. n = 0 => n # 1
  OBVIOUS
<1>3. n = 0 => Dedupe(s, a) = Adding(s, a)
  BY <1>1, <1>2, Zenon
<1>4. n = 1 => Dedupe(s, a) = r
  BY <1>1, <1>2, Zenon
<1>5. n # 0 /\ n # 1 => Dedupe(s, a) = f
  BY <1>1, Zenon
<1> QED
  BY <1>3, <1>4, <1>5 DEF n, r, f

\* A generator that finds nothing.
LEMMA NothingFoundKeeps ==
  ASSUME IInv, NEW j \in Runs, run[j].pc = "working", run[j].next <= 3,
         run' = [run EXCEPT ![j] = Advanced(run[j])], UNCHANGED <<facts, inbox, readAll>>
  PROVE  IInv'
<1>1. run[j] \in Sessions /\ Accounted(run[j]) /\ run[j].next \in 1..4
  BY DEF IInv, Typed, Sessions
<1> DEFINE s == Advanced(run[j])
<1>2. /\ s \in Sessions /\ s.pc = "working" /\ s.added = run[j].added /\ s.bumps = run[j].bumps
      /\ s.wanted = run[j].wanted /\ s.next = run[j].next + 1 /\ s.stale = run[j].stale
      /\ s.alone = run[j].alone
  BY <1>1, AdvancedSession
<1> HIDE DEF s
<1>3. Accounted(s)
  <2>0. run[j].next \in Int /\ s.next = run[j].next + 1
    BY <1>1, <1>2
  <2>1. \A a \in run[j].wanted : Turn(a.key) < s.next
    BY <1>1, <2>0, TurnIsNumber DEF Accounted
  <2>2. \A b \in run[j].bumps : Turn(inbox[b.row].key) < s.next
    BY <1>1, <2>0, TurnIsNumber DEF Accounted
  <2> QED BY <1>1, <1>2, <2>1, <2>2 DEF Accounted
<1>4. ASSUME s.alone, NEW a \in s.wanted PROVE Announced(s, a)
  <2>1. Announced(run[j], a)
    BY <1>2, <1>4 DEF IInv, Standing
  <2> QED BY <1>2, <2>1 DEF Announced
<1>5. \A n \in DOMAIN s.added, m \in DOMAIN inbox :
        ~inbox[m].read /\ inbox[m].key = s.added[n].key =>
          ~s.alone /\ ~run[inbox[m].by].alone
  BY <1>2 DEF IInv, Crossed
<1> QED
  BY <1>2, <1>3, <1>4, <1>5, SessionKeeps DEF s

\* A generator whose alert has no unread row: the session will add one.
LEMMA AddingKeeps ==
  ASSUME IInv, NEW j \in Runs, run[j].pc = "working", run[j].next <= 3,
         NEW a \in Alerts, Turn(a.key) = run[j].next, Matches(a.key) = {},
         run' = [run EXCEPT ![j] = Adding(Found(run[j], a), a)],
         UNCHANGED <<facts, inbox, readAll>>
  PROVE  IInv'
<1> DEFINE old == run[j]
           mid == Found(old, a)
           s == Adding(mid, a)
           len == Len(old.added)
<1>1. old \in Sessions /\ Accounted(old) /\ old.next \in 1..4
  BY DEF IInv, Typed, Sessions
<1>2. /\ mid \in Sessions /\ mid.pc = "working" /\ mid.added = old.added
      /\ mid.bumps = old.bumps /\ mid.wanted = old.wanted \cup {a}
      /\ mid.next = old.next + 1 /\ mid.stale = old.stale /\ mid.alone = old.alone
  BY <1>1, FoundSession
<1> HIDE DEF mid
<1>3. /\ s \in Sessions /\ s.pc = "working" /\ s.bumps = old.bumps
      /\ s.wanted = old.wanted \cup {a} /\ s.next = old.next + 1 /\ s.stale = old.stale
      /\ s.alone = old.alone
      /\ Len(s.added) = len + 1 /\ s.added[len + 1] = a
      /\ DOMAIN old.added = 1..len /\ len \in Nat /\ DOMAIN s.added = 1..(len + 1)
      /\ \A n \in 1..len : s.added[n] = old.added[n]
  <2>1. /\ s \in Sessions /\ s.pc = mid.pc /\ s.bumps = mid.bumps
        /\ s.wanted = mid.wanted /\ s.next = mid.next /\ s.stale = mid.stale
        /\ s.alone = mid.alone /\ Len(s.added) = Len(mid.added) + 1
        /\ s.added[Len(mid.added) + 1] = a
        /\ DOMAIN mid.added = 1..Len(mid.added) /\ Len(mid.added) \in Nat
        /\ DOMAIN s.added = 1..(Len(mid.added) + 1)
        /\ \A n \in 1..Len(mid.added) : s.added[n] = mid.added[n]
    <3>1. mid \in Sessions
      BY <1>2
    <3> QED BY <3>1, AddingSession
  <2> QED BY <1>2, <2>1
<1> HIDE DEF s
<1>4. \A b \in old.wanted : Turn(b.key) < Turn(a.key)
  BY <1>1 DEF Accounted
<1>5. a \notin old.wanted
  BY <1>4, TurnIsNumber
<1>6. \A n \in 1..len : old.added[n] \in old.wanted /\ old.added[n].key # a.key
  BY <1>1, <1>3, <1>4, TurnIsNumber DEF Accounted
<1>7. Accounted(s)
  <2>1. IsFiniteSet(s.wanted) /\ Cardinality(s.wanted) = Cardinality(old.wanted) + 1
    <3>1. IsFiniteSet(old.wanted)
      BY <1>1 DEF Accounted
    <3>2. /\ IsFiniteSet(old.wanted \cup {a})
          /\ Cardinality(old.wanted \cup {a}) = Cardinality(old.wanted) + 1
      BY <3>1, <1>5, FS_AddElement
    <3> QED BY <1>3, <3>2
  <2>2. Cardinality(old.wanted) \in Nat /\ Cardinality(old.bumps) \in Nat
    BY <1>1, FS_CardinalityType DEF Accounted
  <2>3. IsFiniteSet(s.bumps) /\ Len(s.added) + Cardinality(s.bumps) <= Cardinality(s.wanted)
    BY <1>1, <1>3, <2>1, <2>2 DEF Accounted
  <2>4. \A b \in s.wanted : Turn(b.key) < s.next
    BY <1>1, <1>3, <1>4, TurnIsNumber
  <2>5. \A b \in s.bumps : b.row \in DOMAIN inbox /\ Turn(inbox[b.row].key) < s.next
    BY <1>1, <1>3, TurnIsNumber DEF Accounted
  <2>6. \A n \in DOMAIN s.added : s.added[n] \in s.wanted
    BY <1>3, <1>6
  <2>7. \A n, m \in DOMAIN s.added : n # m => s.added[n].key # s.added[m].key
    <3>1. \A n, m \in 1..len : n # m => old.added[n].key # old.added[m].key
      BY <1>1, <1>3 DEF Accounted
    <3> SUFFICES ASSUME NEW n \in 1..(len + 1), NEW m \in 1..(len + 1), n # m
                 PROVE  s.added[n].key # s.added[m].key
      BY <1>3
    <3>2. CASE n \in 1..len /\ m \in 1..len
      BY <1>3, <3>1, <3>2
    <3>3. CASE n = len + 1 /\ m \in 1..len
      BY <1>3, <1>6, <3>3
    <3>4. CASE m = len + 1 /\ n \in 1..len
      BY <1>3, <1>6, <3>4
    <3> QED BY <1>3, <3>2, <3>3, <3>4
  <2>8. \A b, c \in s.bumps : b.row = c.row => b = c
    BY <1>1, <1>3 DEF Accounted
  <2>9. \A n \in s.stale : n \in DOMAIN inbox /\ inbox[n].read
    BY <1>1, <1>3 DEF Accounted
  <2> QED
    BY <1>3, <2>1, <2>3, <2>4, <2>5, <2>6, <2>7, <2>8, <2>9 DEF Accounted
<1>8. ASSUME s.alone, NEW b \in s.wanted PROVE Announced(s, b)
  <2>1. CASE b = a
    BY <1>3, <2>1 DEF Announced
  <2>2. CASE b # a
    <3>1. Announced(old, b)
      BY <1>3, <1>8, <2>2 DEF IInv, Standing
    <3> QED BY <1>3, <3>1 DEF Announced
  <2> QED BY <2>1, <2>2
<1>9. ASSUME NEW n \in DOMAIN s.added, NEW m \in DOMAIN inbox, ~inbox[m].read,
             inbox[m].key = s.added[n].key
      PROVE  ~s.alone /\ ~run[inbox[m].by].alone
  <2>1. n # len + 1
    BY <1>3, <1>9 DEF Matches, Unread
  <2> QED BY <1>3, <1>9, <2>1 DEF IInv, Crossed
<1> QED
  BY <1>3, <1>7, <1>8, <1>9, SessionKeeps DEF s, mid

\* A generator whose alert has one unread row: it stands, or is raised to the alert.
LEMMA RaisingKeeps ==
  ASSUME IInv, NEW j \in Runs, run[j].pc = "working", run[j].next <= 3,
         NEW a \in Alerts, Turn(a.key) = run[j].next, Cardinality(Matches(a.key)) = 1,
         NEW louder, louder = {n \in Matches(a.key) : Rank(a.severity) > Rank(inbox[n].severity)},
         run' = [run EXCEPT ![j] = Raising(Found(run[j], a), Bump(louder, a.severity))],
         UNCHANGED <<facts, inbox, readAll>>
  PROVE  IInv'
<1> DEFINE old == run[j]
           mid == Found(old, a)
           bumps == Bump(louder, a.severity)
           s == Raising(mid, bumps)
<1>1. old \in Sessions /\ Accounted(old) /\ old.next \in 1..4
  BY DEF IInv, Typed, Sessions
<1>2. /\ mid \in Sessions /\ mid.pc = "working" /\ mid.added = old.added
      /\ mid.bumps = old.bumps /\ mid.wanted = old.wanted \cup {a}
      /\ mid.next = old.next + 1 /\ mid.stale = old.stale /\ mid.alone = old.alone
  BY <1>1, FoundSession
<1> HIDE DEF mid
<1>3. PICK row \in DOMAIN inbox : Matches(a.key) = {row}
  <2>1. IsFiniteSet(Matches(a.key))
    <3>1. IsFiniteSet(1..Len(inbox)) /\ Matches(a.key) \subseteq 1..Len(inbox)
      BY InboxRows, FS_Interval DEF Matches, Unread
    <3> QED BY <3>1, FS_Subset
  <2> QED BY <2>1, FS_Singleton DEF Matches, Unread
<1>4. inbox[row].key = a.key /\ ~inbox[row].read /\ row \in Nat
  BY <1>3, InboxRows DEF Matches, Unread
<1>5. /\ bumps = {} /\ Rank(inbox[row].severity) >= Rank(a.severity)
      \/ bumps = {[row |-> row, to |-> a.severity]}
  <2>1. Rank(inbox[row].severity) \in Nat /\ Rank(a.severity) \in Nat
    BY InboxRows, Ranks DEF Alerts
  <2>2. CASE Rank(a.severity) > Rank(inbox[row].severity)
    BY <1>3, <2>2 DEF Bump
  <2>3. CASE ~(Rank(a.severity) > Rank(inbox[row].severity))
    BY <1>3, <2>1, <2>3 DEF Bump
  <2> QED BY <2>2, <2>3
<1>6. bumps \in SUBSET [row : Nat, to : Severities]
  BY <1>4, <1>5 DEF Alerts
<1> HIDE DEF bumps
<1>7. /\ s \in Sessions /\ s.pc = "working" /\ s.bumps = old.bumps \cup bumps
      /\ s.added = old.added /\ s.wanted = old.wanted \cup {a} /\ s.next = old.next + 1
      /\ s.stale = old.stale /\ s.alone = old.alone
  BY <1>2, <1>6, RaisingSession
<1> HIDE DEF s
<1>8. \A b \in old.wanted : Turn(b.key) < Turn(a.key)
  BY <1>1 DEF Accounted
<1>9. a \notin old.wanted
  BY <1>8, TurnIsNumber
<1>10. \A b \in old.bumps : b.row # row /\ Turn(inbox[b.row].key) < Turn(a.key)
  BY <1>1, <1>4, TurnIsNumber DEF Accounted
<1>11. Accounted(s)
  <2>1. IsFiniteSet(s.wanted) /\ Cardinality(s.wanted) = Cardinality(old.wanted) + 1
    <3>1. IsFiniteSet(old.wanted)
      BY <1>1 DEF Accounted
    <3>2. /\ IsFiniteSet(old.wanted \cup {a})
          /\ Cardinality(old.wanted \cup {a}) = Cardinality(old.wanted) + 1
      BY <3>1, <1>9, FS_AddElement
    <3> QED BY <1>7, <3>2
  <2>2. /\ Cardinality(old.wanted) \in Nat /\ Cardinality(old.bumps) \in Nat
        /\ Len(old.added) \in Nat
    BY <1>1, FS_CardinalityType DEF Accounted, Sessions
  <2>3. IsFiniteSet(s.bumps) /\ Cardinality(s.bumps) <= Cardinality(old.bumps) + 1
        /\ Cardinality(s.bumps) \in Nat
    <3>1. CASE bumps = {}
      BY <1>1, <1>7, <2>2, <3>1 DEF Accounted
    <3>2. CASE bumps = {[row |-> row, to |-> a.severity]}
      <4>1. IsFiniteSet(old.bumps)
        BY <1>1 DEF Accounted
      <4>2. /\ IsFiniteSet(old.bumps \cup bumps)
            /\ Cardinality(old.bumps \cup bumps) \in
                 {Cardinality(old.bumps), Cardinality(old.bumps) + 1}
        BY <3>2, <4>1, FS_AddElement
      <4> QED BY <1>7, <2>2, <4>2
    <3> QED BY <1>5, <3>1, <3>2
  <2>4. Len(s.added) + Cardinality(s.bumps) <= Cardinality(s.wanted)
    BY <1>1, <1>7, <2>1, <2>2, <2>3 DEF Accounted
  <2>5. \A b \in s.wanted : Turn(b.key) < s.next
    BY <1>1, <1>7, <1>8, TurnIsNumber
  <2>6. \A b \in s.bumps : b.row \in DOMAIN inbox /\ Turn(inbox[b.row].key) < s.next
    BY <1>1, <1>4, <1>5, <1>7, <1>10, TurnIsNumber DEF Accounted
  <2>7. /\ \A n \in DOMAIN s.added : s.added[n] \in s.wanted
        /\ \A n, m \in DOMAIN s.added : n # m => s.added[n].key # s.added[m].key
        /\ \A n \in s.stale : n \in DOMAIN inbox /\ inbox[n].read
    BY <1>1, <1>7 DEF Accounted
  <2>8. \A b, c \in s.bumps : b.row = c.row => b = c
    BY <1>1, <1>5, <1>7, <1>10 DEF Accounted
  <2> QED
    BY <1>7, <2>1, <2>3, <2>4, <2>5, <2>6, <2>7, <2>8 DEF Accounted
<1>12. ASSUME s.alone, NEW b \in s.wanted PROVE Announced(s, b)
  <2>0. row \notin s.stale
    BY <1>1, <1>4, <1>7 DEF Accounted
  <2>1. CASE b = a
    <3>1. \A c \in s.bumps : c.row = row => c \in bumps
      BY <1>7, <1>10
    <3>2. \A c \in bumps : c.row = row => Rank(c.to) >= Rank(a.severity)
      BY <1>5, Ranks DEF Alerts
    <3>3. (\E c \in s.bumps : c.row = row) \/ Rank(inbox[row].severity) >= Rank(a.severity)
      <4>1. CASE bumps = {[row |-> row, to |-> a.severity]}
        <5>1. [row |-> row, to |-> a.severity] \in s.bumps
          BY <1>7, <4>1
        <5> QED BY <5>1
      <4> QED BY <1>5, <4>1
    <3> QED BY <1>4, <2>0, <2>1, <3>1, <3>2, <3>3 DEF Announced
  <2>2. CASE b # a
    <3>1. Announced(old, b) /\ b \in old.wanted
      BY <1>7, <1>12, <2>2 DEF IInv, Standing
    <3>2. CASE \E n \in DOMAIN old.added : old.added[n] = b
      BY <1>7, <3>2 DEF Announced
    <3>3. ASSUME NEW n \in DOMAIN inbox \ old.stale, inbox[n].key = b.key,
                 \A c \in old.bumps : c.row = n => Rank(c.to) >= Rank(b.severity),
                 (\E c \in old.bumps : c.row = n) \/ Rank(inbox[n].severity) >= Rank(b.severity)
          PROVE  Announced(s, b)
      <4>1. n # row
        BY <1>4, <1>8, <3>1, <3>3, TurnIsNumber
      <4>2. \A c \in bumps : c.row # n
        BY <1>5, <4>1
      <4> QED BY <1>7, <3>3, <4>2 DEF Announced
    <3> QED BY <3>1, <3>2, <3>3 DEF Announced
  <2> QED BY <2>1, <2>2
<1>13. \A n \in DOMAIN s.added, m \in DOMAIN inbox :
         ~inbox[m].read /\ inbox[m].key = s.added[n].key =>
           ~s.alone /\ ~run[inbox[m].by].alone
  BY <1>7 DEF IInv, Crossed
<1> QED
  BY <1>7, <1>11, <1>12, <1>13, SessionKeeps DEF s, mid, bumps

\* A session that is rolled back keeps IInv: it held nothing anyone else relies on.
LEMMA FailingKeeps ==
  ASSUME IInv, NEW j \in Runs, run[j].pc = "working",
         NEW s \in Sessions, s.alone = run[j].alone,
         run' = [run EXCEPT ![j] = Ended(s, "failed")], UNCHANGED <<facts, inbox, readAll>>
  PROVE  IInv'
<1> DEFINE e == Ended(s, "failed")
<1>1. /\ e \in Sessions /\ Accounted(e) /\ e.pc = "failed" /\ e.alone = run[j].alone
      /\ e.added = <<>> /\ e.wanted = {}
  BY EndedSession
<1> HIDE DEF e
<1>2. DOMAIN e.added = {}
  BY <1>1
<1> QED
  BY <1>1, <1>2, SessionKeeps DEF e

LEMMA GenerateKeeps == ASSUME IInv, NEW j \in Runs, Generate(j) PROVE IInv'
<1> DEFINE k == run[j].next
           g == Order[k]
           a == facts[g]
           s == Found(run[j], a)
<1>1. run[j] \in Sessions /\ run[j].pc = "working" /\ k \in 1..3 /\ run[j].next <= 3
  BY Generators DEF Generate, IInv, Typed, Sessions
<1>2. UNCHANGED <<facts, inbox, readAll>>
  BY DEF Generate
<1>3. a \in Findings(g)
  BY <1>1, Generators DEF IInv, Typed
<1>4. CASE a = NoAlert
  <2>1. run' = [run EXCEPT ![j] = Advanced(run[j])]
    BY <1>4 DEF Generate, Advanced
  <2> QED BY <1>1, <1>2, <2>1, NothingFoundKeeps
<1>5. CASE a # NoAlert
  <2>1. a \in Alerts /\ Turn(a.key) = k
    BY <1>1, <1>3, <1>5, OwnKeys
  <2>2. run' = [run EXCEPT ![j] = Dedupe(s, a)]
    BY <1>5 DEF Generate, Found
  <2>3. s \in Sessions /\ s.alone = run[j].alone
    BY <1>1, <2>1, FoundSession
  <2> DEFINE louder == {n \in Matches(a.key) : Rank(a.severity) > Rank(inbox[n].severity)}
             size == Cardinality(Matches(a.key))
  <2>4. /\ size = 0 => Dedupe(s, a) = Adding(s, a)
        /\ size = 1 => Dedupe(s, a) = Raising(s, Bump(louder, a.severity))
        /\ size \notin {0, 1} => Dedupe(s, a) = Ended(s, "failed")
    BY DedupeCases
  <2> HIDE DEF louder
  <2>5. CASE size = 0
    <3>1. IsFiniteSet(Matches(a.key))
      <4>1. IsFiniteSet(1..Len(inbox)) /\ Matches(a.key) \subseteq 1..Len(inbox)
        BY InboxRows, FS_Interval DEF Matches, Unread
      <4> QED BY <4>1, FS_Subset
    <3>2. Matches(a.key) = {}
      BY <2>5, <3>1, FS_EmptySet
    <3> HIDE DEF k, g, a
    <3> QED BY <1>1, <1>2, <2>1, <2>2, <2>4, <2>5, <3>2, AddingKeeps DEF k
  <2>6. CASE size = 1
    <3> HIDE DEF g, a
    <3> QED BY <1>1, <1>2, <2>1, <2>2, <2>4, <2>6, RaisingKeeps DEF louder
  <2>7. CASE size \notin {0, 1}
    BY <1>1, <1>2, <2>2, <2>3, <2>4, <2>7, FailingKeeps
  <2> QED BY <2>5, <2>6, <2>7
<1> QED
  BY <1>4, <1>5

LEMMA LoseRunKeeps == ASSUME IInv, NEW j \in Runs, LoseRun(j) PROVE IInv'
<1>1. run[j] \in Sessions
  BY DEF IInv, Typed
<1> QED
  BY <1>1, FailingKeeps DEF LoseRun

-------------------------------------------------------------------------------
(* The commit *)

LEMMA NewRow ==
  \A j, a : LET row == Row(j, a)
            IN row.key = a.key /\ row.severity = a.severity /\ row.by = j /\ ~row.read
BY DEF Row

LEMMA RaisedRow ==
  ASSUME NEW row \in Rows, NEW to \in Severities
  PROVE  LET new == [row EXCEPT !.severity = to]
         IN /\ new \in Rows /\ new.key = row.key /\ new.severity = to
            /\ new.by = row.by /\ new.read = row.read
BY DEF Rows

\* What the commit of a run leaves in the inbox: the old rows, some of them raised, then
\* the new ones.
LEMMA CommitWrites ==
  ASSUME IInv, NEW j \in Runs, CommitRun(j)
  PROVE  LET len == Len(inbox)
             added == run[j].added
         IN /\ inbox' \in Seq(Rows) /\ Len(inbox') = len + Len(added)
            /\ \A n \in 1..len :
                 /\ inbox'[n].key = inbox[n].key /\ inbox'[n].by = inbox[n].by
                 /\ inbox'[n].read = inbox[n].read
                 /\ \A b \in run[j].bumps : b.row = n => inbox'[n].severity = b.to
                 /\ (\A b \in run[j].bumps : b.row # n) => inbox'[n] = inbox[n]
            /\ \A n \in 1..Len(added) : inbox'[len + n] = Row(j, added[n])
<1> DEFINE len == Len(inbox)
           added == run[j].added
           bumps == run[j].bumps
           new == Inserted(j)
           old == Bumped(j)
<1>1. /\ run[j] \in Sessions /\ Accounted(run[j]) /\ added \in Seq(Alerts)
      /\ bumps \in SUBSET [row : Nat, to : Severities]
  BY DEF IInv, Typed, Sessions
<1>2. inbox \in Seq(Rows) /\ len \in Nat /\ DOMAIN inbox = 1..len
      /\ \A n \in 1..len : inbox[n] \in Rows
  BY InboxRows DEF IInv, Typed
<1>3. new \in Seq(Rows) /\ Len(new) = Len(added)
      /\ \A n \in 1..Len(added) : new[n] = Row(j, added[n])
  <2>1. DOMAIN added = 1..Len(added) /\ \A n \in 1..Len(added) : added[n] \in Alerts
    BY <1>1
  <2>2. \A n \in 1..Len(added) : Row(j, added[n]) \in Rows
    BY <2>1 DEF Row, Rows, Alerts
  <2>3. new = [n \in 1..Len(added) |-> Row(j, added[n])]
    BY <2>1 DEF Inserted
  <2>4. Len(added) \in Nat
    BY <1>1
  <2> HIDE DEF new, added
  <2> QED BY <2>2, <2>3, <2>4
<1>4. ASSUME NEW n \in 1..len
      PROVE  /\ old[n] \in Rows /\ old[n].key = inbox[n].key /\ old[n].by = inbox[n].by
             /\ old[n].read = inbox[n].read
             /\ \A b \in bumps : b.row = n => old[n].severity = b.to
             /\ (\A b \in bumps : b.row # n) => old[n] = inbox[n]
  <2>1. CASE \A b \in bumps : b.row # n
    BY <1>2, <2>1 DEF Bumped
  <2>2. ASSUME NEW b \in bumps, b.row = n
        PROVE  /\ old[n] \in Rows /\ old[n].key = inbox[n].key /\ old[n].by = inbox[n].by
               /\ old[n].read = inbox[n].read /\ old[n].severity = b.to
    <3>1. (CHOOSE c \in bumps : c.row = n) = b
      BY <1>1, <2>2 DEF Accounted
    <3>2. old[n] = [inbox[n] EXCEPT !.severity = b.to]
      BY <1>2, <2>2, <3>1 DEF Bumped
    <3>3. b.to \in Severities /\ inbox[n] \in Rows
      BY <1>1, <1>2
    <3> QED BY <3>2, <3>3, RaisedRow
  <2>3. \A b \in bumps : b.row = n => old[n].severity = b.to
    BY <2>2
  <2>4. CASE \E b \in bumps : b.row = n
    BY <2>2, <2>3, <2>4
  <2> QED BY <1>2, <2>1, <2>3, <2>4
<1>5. old \in Seq(Rows) /\ Len(old) = len
  BY <1>2, <1>4 DEF Bumped
<1>6. inbox' = old \o new
  BY DEF CommitRun
<1> HIDE DEF old, new, len, added, bumps
<1>7. /\ inbox' \in Seq(Rows) /\ Len(inbox') = Len(old) + Len(new)
      /\ \A i \in 1..(Len(old) + Len(new)) :
           inbox'[i] = IF i <= Len(old) THEN old[i] ELSE new[i - Len(old)]
  BY <1>3, <1>5, <1>6, ConcatProperties
<1>8. \A n \in 1..len : inbox'[n] = old[n]
  BY <1>2, <1>3, <1>5, <1>7
<1>9. Len(added) \in Nat
  BY <1>1
<1>10. \A n \in 1..Len(added) : inbox'[len + n] = Row(j, added[n])
  BY <1>2, <1>3, <1>5, <1>7, <1>9
<1>11. ASSUME NEW n \in 1..len
       PROVE  /\ inbox'[n].key = inbox[n].key /\ inbox'[n].by = inbox[n].by
              /\ inbox'[n].read = inbox[n].read
              /\ \A b \in bumps : b.row = n => inbox'[n].severity = b.to
              /\ (\A b \in bumps : b.row # n) => inbox'[n] = inbox[n]
  BY <1>4, <1>8
<1>12. inbox' \in Seq(Rows) /\ Len(inbox') = len + Len(added)
  BY <1>3, <1>5, <1>7
<1> QED
  BY <1>10, <1>11, <1>12 DEF len, added, bumps

\* The commit of a run keeps IInv.
LEMMA CommitKeeps == ASSUME IInv, NEW j \in Runs, CommitRun(j) PROVE IInv'
<1> DEFINE len == Len(inbox)
           added == run[j].added
<1>1. /\ inbox' \in Seq(Rows) /\ Len(inbox') = len + Len(added)
      /\ \A n \in 1..len :
           /\ inbox'[n].key = inbox[n].key /\ inbox'[n].by = inbox[n].by
           /\ inbox'[n].read = inbox[n].read
      /\ \A n \in 1..Len(added) : inbox'[len + n] = Row(j, added[n])
  BY CommitWrites
<1>2. /\ run \in [Runs -> Sessions] /\ run[j].pc = "working" /\ Accounted(run[j])
      /\ run[j] \in Sessions /\ UNCHANGED <<facts, readAll>>
      /\ added \in Seq(Alerts) /\ Len(added) \in Nat /\ DOMAIN added = 1..Len(added)
  BY DEF CommitRun, IInv, Typed, Sessions
<1> DEFINE e == Ended(run[j], "done")
<1>3. /\ e \in Sessions /\ e.pc = "done" /\ e.alone = run[j].alone /\ e.added = <<>>
      /\ e.bumps = {} /\ e.wanted = {} /\ e.stale = {} /\ Accounted(e)
  <2>1. e.stale = {}
    BY DEF Ended, NewRun
  <2> QED BY <1>2, <2>1, EndedSession
<1>4. run' = [run EXCEPT ![j] = e]
  BY DEF CommitRun
<1> HIDE DEF e
<1>5. \A i \in Runs : run'[i] = IF i = j THEN e ELSE run[i]
  BY <1>2, <1>4
<1>6. len \in Nat /\ DOMAIN inbox = 1..len /\ DOMAIN inbox' = 1..(len + Len(added))
      /\ \A n \in 1..len : inbox[n].by \in Runs
  BY <1>1, InboxRows
<1> HIDE DEF len, added
<1>7. \A n \in 1..Len(added) :
        /\ inbox'[len + n].key = added[n].key /\ inbox'[len + n].by = j
        /\ ~inbox'[len + n].read
  BY <1>1, NewRow
<1>8. ASSUME NEW n \in DOMAIN inbox'
      PROVE  n \in 1..len \/ \E m \in 1..Len(added) : n = len + m
  <2>1. CASE n \notin 1..len
    <3>1. n - len \in 1..Len(added) /\ n = len + (n - len)
      BY <1>2, <1>6, <2>1
    <3> QED BY <3>1
  <2> QED BY <2>1
<1>9. Typed'
  <2>1. run' \in [Runs -> Sessions]
    BY <1>2, <1>3, <1>5, <1>4
  <2>2. readAll' \subseteq DOMAIN inbox'
    BY <1>2, <1>6 DEF IInv, Typed
  <2> QED BY <1>1, <1>2, <2>1, <2>2 DEF IInv, Typed
<1>10. ASSUME NEW i \in Runs PROVE Accounted(run[i])'
  <2>1. CASE i = j
    BY <1>3, <1>5, <2>1 DEF Accounted
  <2>2. CASE i # j
    <3>1. Accounted(run[i]) /\ run'[i] = run[i]
      BY <1>5, <2>2 DEF IInv
    <3>2. \A b \in run[i].bumps :
            b.row \in DOMAIN inbox' /\ Turn(inbox'[b.row].key) < run[i].next
      BY <1>1, <1>2, <1>6, <3>1 DEF Accounted
    <3>3. \A n \in run[i].stale : n \in DOMAIN inbox' /\ inbox'[n].read
      BY <1>1, <1>2, <1>6, <3>1 DEF Accounted
    <3> QED BY <3>1, <3>2, <3>3 DEF Accounted
  <2> QED BY <2>1, <2>2
<1>11. Solitude'
  <2>1. \A i, k \in Runs : run'[i].pc = "working" /\ run'[k].pc = "working" /\ i # k
          => ~run'[i].alone
    BY <1>3, <1>5 DEF IInv, Solitude
  <2>2. \A n \in 1..len : run'[inbox'[n].by].pc = "done"
    BY <1>1, <1>2, <1>3, <1>5, <1>6 DEF IInv, Solitude
  <2>3. \A n \in 1..Len(added) : run'[inbox'[len + n].by].pc = "done"
    BY <1>3, <1>5, <1>7
  <2> QED BY <1>8, <2>1, <2>2, <2>3 DEF Solitude
<1>12. Standing'
  <2>1. \A i \in Runs : run'[i].pc = "working" => i # j /\ run'[i] = run[i]
    BY <1>3, <1>5
  <2>2. \A i \in Runs : run'[i].pc = "working" => ~run'[i].alone
    BY <1>2, <2>1 DEF IInv, Solitude
  <2> QED BY <2>2 DEF Standing
<1>13. \A i \in Runs : run'[i].alone = run[i].alone
  BY <1>3, <1>5
<1>14. Crossed'
  <2>1. ASSUME NEW i \in Runs, NEW n \in DOMAIN run'[i].added, NEW m \in DOMAIN inbox',
               ~inbox'[m].read, inbox'[m].key = run'[i].added[n].key
        PROVE  ~run'[i].alone /\ ~run'[inbox'[m].by].alone
    <3>1. i # j /\ run'[i] = run[i]
      BY <1>3, <1>5, <2>1
    <3>2. run[i].pc = "working"
      BY <2>1, <3>1 DEF IInv, Accounted
    <3>3. CASE m \in 1..len
      BY <1>1, <1>6, <1>13, <2>1, <3>1, <3>3 DEF IInv, Crossed
    <3>4. CASE \E q \in 1..Len(added) : m = len + q
      BY <1>2, <1>7, <1>13, <3>1, <3>2, <3>4 DEF IInv, Solitude
    <3> QED BY <1>8, <3>3, <3>4
  <2> QED BY <2>1 DEF Crossed
<1>15. DuplicatesOverlap'
  <2>1. ASSUME NEW n \in 1..len, NEW q \in 1..Len(added), ~inbox'[n].read,
               inbox'[n].key = inbox'[len + q].key
        PROVE  ~run'[inbox'[n].by].alone /\ ~run'[inbox'[len + q].by].alone
    <3>1. ~inbox[n].read /\ inbox[n].key = added[q].key
      BY <1>1, <1>7, <2>1
    <3>2. ~run[j].alone /\ ~run[inbox[n].by].alone
      BY <1>2, <1>6, <3>1 DEF IInv, Crossed, added
    <3> QED BY <1>1, <1>6, <1>7, <1>13, <3>2
  <2>2. \A q, p \in 1..Len(added) : q # p => inbox'[len + q].key # inbox'[len + p].key
    BY <1>2, <1>7 DEF Accounted, added
  <2>3. ASSUME NEW n \in 1..len, NEW m \in 1..len, n # m, ~inbox'[n].read, ~inbox'[m].read,
               inbox'[n].key = inbox'[m].key
        PROVE  ~run'[inbox'[n].by].alone /\ ~run'[inbox'[m].by].alone
    BY <1>1, <1>6, <1>13, <2>3 DEF IInv, DuplicatesOverlap, Unread
  <2> QED BY <1>8, <2>1, <2>2, <2>3 DEF DuplicatesOverlap, Unread
<1> QED
  BY <1>9, <1>10, <1>11, <1>12, <1>14, <1>15 DEF IInv

-------------------------------------------------------------------------------
(* The theorems *)

\* A generator leaves its own run at work, or failed.
LEMMA GenerateGoesOn ==
  ASSUME IInv, NEW i \in Runs, Generate(i)
  PROVE  /\ run'[i].pc # "done"
         /\ \A j \in Runs \ {i} : run'[j] = run[j]
<1> DEFINE k == run[i].next
           a == facts[Order[k]]
           s == Found(run[i], a)
<1>1. run \in [Runs -> Sessions] /\ run[i] \in Sessions /\ run[i].pc = "working" /\ k \in 1..3
  BY Generators DEF Generate, IInv, Typed, Sessions
<1>2. CASE a = NoAlert
  <2>1. run' = [run EXCEPT ![i] = Advanced(run[i])]
    BY <1>2 DEF Generate, Advanced
  <2>2. Advanced(run[i]).pc = "working"
    BY <1>1, AdvancedSession
  <2> QED BY <1>1, <2>1, <2>2
<1>3. CASE a # NoAlert
  <2>1. a \in Alerts
    <3>1. a \in Findings(Order[k])
      BY <1>1, Generators DEF IInv, Typed
    <3> QED BY <1>1, <1>3, <3>1, OwnKeys
  <2>2. run' = [run EXCEPT ![i] = Dedupe(s, a)]
    BY <1>3 DEF Generate, Found
  <2>3. s \in Sessions /\ s.pc = "working"
    BY <1>1, <2>1, FoundSession
  <2> DEFINE bumps == Bump({n \in Matches(a.key) :
                              Rank(a.severity) > Rank(inbox[n].severity)}, a.severity)
  <2>4. Dedupe(s, a) \in {Adding(s, a), Raising(s, bumps), Ended(s, "failed")}
    BY DedupeCases
  <2>5. /\ Adding(s, a).pc = "working" /\ Ended(s, "failed").pc = "failed"
    BY <2>1, <2>3, AddingSession, EndedSession
  <2>6. bumps \in SUBSET [row : Nat, to : Severities]
    BY <2>1, InboxRows DEF Bump, Matches, Unread, Alerts
  <2> HIDE DEF bumps, s, a
  <2>7. Raising(s, bumps).pc = "working"
    BY <2>3, <2>6, RaisingSession
  <2> QED BY <1>1, <2>2, <2>4, <2>5, <2>7
<1> QED
  BY <1>2, <1>3

\* A run is done by committing.
LEMMA OnlyCommitFinishes ==
  ASSUME IInv, [Next]_vars, NEW j \in Runs, run[j].pc = "working", run'[j].pc = "done"
  PROVE  CommitRun(j)
<1>1. run \in [Runs -> Sessions]
  BY DEF IInv, Typed
<1>2. run' # run
  OBVIOUS
<1>3. ASSUME NEW i \in Runs, StartRun(i) PROVE FALSE
  <2>1. i # j
    BY <1>3 DEF StartRun
  <2>2. run'[j] = IF j \in Working THEN Disturbed(run[j]) ELSE run[j]
    BY <1>3, <2>1 DEF StartRun, Disturbed
  <2>3. run[j] \in Sessions
    BY <1>1
  <2> QED BY <2>2, <2>3, DisturbedSession
<1>4. ASSUME NEW i \in Runs, LoseRun(i) PROVE FALSE
  <2>1. run'[j] = IF i = j THEN Ended(run[j], "failed") ELSE run[j]
    BY <1>1, <1>4 DEF LoseRun
  <2>2. Ended(run[j], "failed").pc = "failed"
    BY <1>1, EndedSession
  <2> QED BY <2>1, <2>2
<1>5. ASSUME NEW i \in Runs, Generate(i) PROVE FALSE
  BY <1>5, GenerateGoesOn
<1>6. ASSUME NEW i \in Runs, CommitRun(i), i # j PROVE FALSE
  BY <1>1, <1>6 DEF CommitRun
<1> QED
  BY <1>2, <1>3, <1>4, <1>5, <1>6
     DEF Next, vars, FactsChange, MarkRead, SelectUnread, MarkAllRead

LEMMA NextKeeps == IInv /\ [Next]_vars => IInv'
<1> SUFFICES ASSUME IInv, [Next]_vars PROVE IInv'
  OBVIOUS
<1>1. CASE UNCHANGED vars
  BY <1>1 DEF vars, IInv, Typed, Solitude, Standing, Crossed, DuplicatesOverlap, Unread,
              Accounted, Announced
<1> QED
  BY <1>1, FactsKeep, StartKeeps, GenerateKeeps, CommitKeeps, LoseRunKeeps, MarkReadKeeps,
     MarkAllReadKeeps DEF Next

\* In every reachable state each session is accounted for, whatever overlaps.
THEOREM Invariance == Spec => []IInv
BY InitHolds, NextKeeps, PTL DEF Spec

\* Types: a session that is over holds nothing, one at work holds at most one piece of work
\* for each alert it found, and every row it points at exists.
THEOREM TypeCorrect == Spec => []TypeOK
<1>1. IInv => TypeOK
  <2> SUFFICES ASSUME IInv PROVE TypeOK
    OBVIOUS
  <2>1. \A g \in ToSet(Order) : facts[g] \in Findings(g)
    BY DEF IInv, Typed
  <2>2. \A n \in DOMAIN inbox :
          inbox[n].by \in Runs /\ inbox[n].severity \in DOMAIN SEVERITY_ORDER
    BY InboxRows, Ranks
  <2>3. readAll \subseteq DOMAIN inbox
    BY DEF IInv, Typed
  <2>4. \A j \in Runs : Accounted(run[j])
    BY DEF IInv
  <2> QED BY <2>1, <2>2, <2>3, <2>4 DEF TypeOK, Accounted
<1> QED
  BY <1>1, Invariance, PTL

\* Two unread rows of one key come from runs that both overlapped another: however inbox
\* requests interleave with them, runs that do not overlap never announce a thing twice.
THEOREM OnlyOverlapDuplicates == Spec => []DuplicatesOverlap
<1>1. IInv => DuplicatesOverlap
  BY DEF IInv
<1> QED
  BY <1>1, Invariance, PTL

\* A run that is alone leaves every alert it found announced, although rows are read and
\* figures change while it works.
THEOREM AlertsAnnounced == Spec => AlertsStand
<1>1. ASSUME IInv, [Next]_vars, NEW j \in Runs, run[j].alone, run[j].pc = "working",
             run'[j].pc = "done", NEW a \in run[j].wanted
      PROVE  \E n \in DOMAIN inbox' \ run[j].stale :
               inbox'[n].key = a.key /\ Rank(inbox'[n].severity) >= Rank(a.severity)
  <2> DEFINE len == Len(inbox)
             added == run[j].added
             bumps == run[j].bumps
  <2>1. CommitRun(j)
    BY <1>1, OnlyCommitFinishes
  <2>2. /\ Len(inbox') = len + Len(added) /\ inbox' \in Seq(Rows)
        /\ \A n \in 1..len :
             /\ inbox'[n].key = inbox[n].key
             /\ \A b \in bumps : b.row = n => inbox'[n].severity = b.to
             /\ (\A b \in bumps : b.row # n) => inbox'[n] = inbox[n]
        /\ \A n \in 1..Len(added) : inbox'[len + n] = Row(j, added[n])
    BY <1>1, <2>1, CommitWrites
  <2>3. /\ DOMAIN inbox = 1..len /\ len \in Nat /\ Len(added) \in Nat
        /\ DOMAIN added = 1..Len(added) /\ added \in Seq(Alerts)
        /\ DOMAIN inbox' = 1..(len + Len(added)) /\ run[j].stale \subseteq 1..len
    BY <1>1, <2>2, InboxRows DEF IInv, Typed, Sessions, Accounted
  <2>4. Announced(run[j], a)
    BY <1>1 DEF IInv, Standing
  <2> HIDE DEF len, added, bumps
  <2>5. CASE \E n \in 1..Len(added) : added[n] = a
    <3>1. PICK n \in 1..Len(added) : added[n] = a
      BY <2>5
    <3>2. inbox'[len + n].key = a.key /\ inbox'[len + n].severity = a.severity
      BY <2>2, <3>1, NewRow
    <3>3. len + n \in DOMAIN inbox' /\ len + n \notin run[j].stale
      BY <2>3
    <3>4. Rank(a.severity) \in Nat
      <4>1. a \in Alerts
        BY <2>3, <3>1
      <4> QED BY <4>1, Ranks DEF Alerts
    <3>5. Rank(inbox'[len + n].severity) >= Rank(a.severity)
      BY <3>2, <3>4
    <3> QED BY <3>2, <3>3, <3>5
  <2>6. CASE \E n \in (1..len) \ run[j].stale :
               /\ inbox[n].key = a.key
               /\ \A b \in bumps : b.row = n => Rank(b.to) >= Rank(a.severity)
               /\ (\E b \in bumps : b.row = n) \/ Rank(inbox[n].severity) >= Rank(a.severity)
    <3>1. PICK n \in (1..len) \ run[j].stale :
               /\ inbox[n].key = a.key
               /\ \A b \in bumps : b.row = n => Rank(b.to) >= Rank(a.severity)
               /\ (\E b \in bumps : b.row = n) \/ Rank(inbox[n].severity) >= Rank(a.severity)
      BY <2>6
    <3>2. Rank(inbox'[n].severity) >= Rank(a.severity)
      BY <2>2, <3>1
    <3>3. n \in DOMAIN inbox' \ run[j].stale /\ inbox'[n].key = a.key
      BY <2>2, <2>3, <3>1
    <3> QED BY <3>2, <3>3
  <2> QED BY <2>3, <2>4, <2>5, <2>6 DEF Announced, added, bumps
<1>2. IInv /\ [Next]_vars =>
        [\A j \in Runs :
           run[j].alone /\ run[j].pc = "working" /\ run'[j].pc = "done"
           => \A alert \in run[j].wanted : \E n \in DOMAIN inbox' \ run[j].stale :
                inbox'[n].key = alert.key
                  /\ Rank(inbox'[n].severity) >= Rank(alert.severity)]_vars
  BY <1>1
<1> QED
  BY <1>2, Invariance, PTL DEF Spec, AlertsStand

\* The severities a key can have: one for open invoices, two for every other key.
LevelOf(x) == x.key = "invoices_open" <=> x.severity = "info"

\* Whatever is raised is raised to the top.
Levels ==
  /\ \A n \in DOMAIN inbox : LevelOf(inbox[n])
  /\ \A j \in Runs :
       /\ \A n \in DOMAIN run[j].added : LevelOf(run[j].added[n])
       /\ \A b \in run[j].bumps : b.to = "critical" /\ inbox[b.row].key # "invoices_open"

LEMMA RaisedLevel ==
  ASSUME NEW k \in 1..3, NEW a \in Findings(Order[k]), a # NoAlert
  PROVE  LevelOf(a)
<1>1. a \in AlertsOf(Order[k])
  BY DEF Findings
<1>2. CASE k = 1
  BY <1>1, <1>2, RaisedBy DEF Order, Alert, LevelOf
<1>3. CASE k = 2
  BY <1>1, <1>3, RaisedBy DEF Order, Alert, LevelOf
<1>4. CASE k = 3
  BY <1>1, <1>4, RaisedBy DEF Order, Alert, LevelOf
<1> QED
  BY <1>2, <1>3, <1>4

\* One key, two severities: the louder one is critical.
LEMMA LouderIsCritical ==
  ASSUME NEW a \in Alerts, NEW row \in Rows, LevelOf(a), LevelOf(row), row.key = a.key,
         Rank(a.severity) > Rank(row.severity)
  PROVE  a.severity = "critical" /\ a.key # "invoices_open"
<1>1. a.severity \in Severities /\ row.severity \in Severities
  BY DEF Alerts, Rows
<1>2. CASE a.key = "invoices_open"
  BY <1>2 DEF LevelOf, Rank, SEVERITY_ORDER
<1>3. CASE a.key # "invoices_open"
  BY <1>1, <1>3 DEF LevelOf, Rank, SEVERITY_ORDER, Severities
<1> QED
  BY <1>2, <1>3

\* What one generator does to its session.
LEMMA GenerateLevels ==
  ASSUME IInv, Levels, NEW i \in Runs, Generate(i)
  PROVE  /\ \A n \in DOMAIN run'[i].added : LevelOf(run'[i].added[n])
         /\ \A b \in run'[i].bumps : b.to = "critical" /\ inbox[b.row].key # "invoices_open"
<1> DEFINE k == run[i].next
           a == facts[Order[k]]
           s == Found(run[i], a)
           louder == {n \in Matches(a.key) : Rank(a.severity) > Rank(inbox[n].severity)}
           bumps == Bump(louder, a.severity)
<1>1. run \in [Runs -> Sessions] /\ run[i] \in Sessions /\ run[i].pc = "working" /\ k \in 1..3
  BY Generators DEF Generate, IInv, Typed, Sessions
<1>2. CASE a = NoAlert
  <2>1. run' = [run EXCEPT ![i] = Advanced(run[i])]
    BY <1>2 DEF Generate, Advanced
  <2>2. Advanced(run[i]).added = run[i].added /\ Advanced(run[i]).bumps = run[i].bumps
    BY <1>1, AdvancedSession
  <2>3. run'[i] = Advanced(run[i])
    BY <1>1, <2>1
  <2> QED BY <2>2, <2>3 DEF Levels
<1>3. CASE a # NoAlert
  <2>1. a \in Findings(Order[k])
    BY <1>1, Generators DEF IInv, Typed
  <2>2. a \in Alerts /\ LevelOf(a)
    BY <1>1, <1>3, <2>1, OwnKeys, RaisedLevel
  <2>3. run'[i] = Dedupe(s, a)
    BY <1>1, <1>3 DEF Generate, Found
  <2>4. s \in Sessions /\ s.added = run[i].added /\ s.bumps = run[i].bumps
    BY <1>1, <2>2, FoundSession
  <2>5. Dedupe(s, a) \in {Adding(s, a), Raising(s, bumps), Ended(s, "failed")}
    BY DedupeCases
  <2>6. \A n \in louder : a.severity = "critical" /\ inbox[n].key # "invoices_open"
    <3>1. \A n \in louder : inbox[n] \in Rows /\ LevelOf(inbox[n]) /\ inbox[n].key = a.key
                             /\ Rank(a.severity) > Rank(inbox[n].severity)
      BY InboxRows DEF Levels, Matches, Unread
    <3> HIDE DEF louder, a
    <3> QED BY <2>2, <3>1, LouderIsCritical
  <2>7. /\ bumps \in SUBSET [row : Nat, to : Severities]
        /\ \A b \in bumps : b.to = "critical" /\ inbox[b.row].key # "invoices_open"
    <3>1. louder \subseteq Nat /\ a.severity \in Severities
      BY <2>2, InboxRows DEF Matches, Unread, Alerts
    <3> HIDE DEF louder, a
    <3> QED BY <2>6, <3>1 DEF Bump
  <2> HIDE DEF bumps, louder, s, a
  <2>8. CASE run'[i] = Adding(s, a)
    <3>1. /\ run'[i].bumps = s.bumps /\ DOMAIN run'[i].added = 1..(Len(s.added) + 1)
          /\ run'[i].added[Len(s.added) + 1] = a /\ DOMAIN s.added = 1..Len(s.added)
          /\ Len(s.added) \in Nat
          /\ \A n \in 1..Len(s.added) : run'[i].added[n] = s.added[n]
      BY <2>2, <2>4, <2>8, AddingSession
    <3>2. \A n \in DOMAIN run'[i].added : n \in DOMAIN s.added \/ n = Len(s.added) + 1
      BY <3>1
    <3> QED BY <2>2, <2>4, <3>1, <3>2 DEF Levels
  <2>9. CASE run'[i] = Raising(s, bumps)
    <3>1. run'[i].bumps = s.bumps \cup bumps /\ run'[i].added = s.added
      BY <2>4, <2>7, <2>9, RaisingSession
    <3> QED BY <2>4, <2>7, <3>1 DEF Levels
  <2>10. CASE run'[i] = Ended(s, "failed")
    BY <2>4, <2>10, EndedSession, EmptySeq
  <2> QED BY <2>3, <2>5, <2>8, <2>9, <2>10
<1> QED
  BY <1>2, <1>3

\* The commit writes "critical" over rows that may be so, and the new rows are as found.
LEMMA CommitLevels ==
  ASSUME IInv, Levels, NEW i \in Runs, CommitRun(i)
  PROVE  /\ \A n \in DOMAIN inbox' : LevelOf(inbox'[n])
         /\ \A n \in DOMAIN inbox :
              /\ n \in DOMAIN inbox' /\ inbox'[n].key = inbox[n].key
              /\ Rank(inbox'[n].severity) >= Rank(inbox[n].severity)
<1> DEFINE len == Len(inbox)
           added == run[i].added
           bumps == run[i].bumps
<1>1. /\ inbox' \in Seq(Rows) /\ Len(inbox') = len + Len(added)
      /\ \A n \in 1..len :
           /\ inbox'[n].key = inbox[n].key
           /\ \A b \in bumps : b.row = n => inbox'[n].severity = b.to
           /\ (\A b \in bumps : b.row # n) => inbox'[n] = inbox[n]
      /\ \A n \in 1..Len(added) : inbox'[len + n] = Row(i, added[n])
  BY CommitWrites
<1>2. /\ len \in Nat /\ DOMAIN inbox = 1..len /\ \A n \in 1..len : inbox[n].severity \in Severities
      /\ Len(added) \in Nat /\ DOMAIN added = 1..Len(added)
  BY InboxRows DEF IInv, Typed, Sessions
<1>3. /\ \A n \in 1..len : LevelOf(inbox[n])
      /\ \A n \in 1..Len(added) : LevelOf(added[n])
      /\ \A b \in bumps : b.to = "critical" /\ inbox[b.row].key # "invoices_open"
  BY <1>2 DEF Levels
<1> HIDE DEF len, added, bumps
<1>4. DOMAIN inbox' = 1..(len + Len(added))
  BY <1>1, <1>2
<1>5. ASSUME NEW n \in 1..len
      PROVE  LevelOf(inbox'[n]) /\ Rank(inbox'[n].severity) >= Rank(inbox[n].severity)
  <2>1. Rank(inbox[n].severity) \in Nat /\ Rank("critical") >= Rank(inbox[n].severity)
    BY <1>2 DEF Severities, Rank, SEVERITY_ORDER
  <2>2. CASE \A b \in bumps : b.row # n
    BY <1>1, <1>3, <2>1, <2>2
  <2>3. CASE \E b \in bumps : b.row = n
    BY <1>1, <1>3, <2>1, <2>3 DEF LevelOf
  <2> QED BY <2>2, <2>3
<1>6. \A n \in 1..Len(added) : LevelOf(inbox'[len + n])
  BY <1>1, <1>3, NewRow DEF LevelOf
<1>7. \A n \in 1..(len + Len(added)) : n \in 1..len \/ \E m \in 1..Len(added) : n = len + m
  <2> TAKE n \in 1..(len + Len(added))
  <2>1. CASE n \notin 1..len
    <3>1. n - len \in 1..Len(added) /\ n = len + (n - len)
      BY <1>2, <2>1
    <3> QED BY <3>1
  <2> QED BY <2>1
<1>8. \A n \in DOMAIN inbox' : LevelOf(inbox'[n])
  BY <1>4, <1>5, <1>6, <1>7
<1>9. \A n \in DOMAIN inbox : n \in DOMAIN inbox' /\ inbox'[n].key = inbox[n].key
  BY <1>1, <1>2, <1>4
<1> QED
  BY <1>2, <1>5, <1>8, <1>9

\* Reading touches neither keys nor severities.
LEMMA ReadLevels ==
  ASSUME IInv, MarkAllRead \/ \E m \in DOMAIN inbox : MarkRead(m)
  PROVE  /\ DOMAIN inbox' = DOMAIN inbox /\ UNCHANGED run
         /\ \A n \in DOMAIN inbox :
              inbox'[n].key = inbox[n].key /\ inbox'[n].severity = inbox[n].severity
<1>1. DOMAIN inbox = 1..Len(inbox) /\ \A n \in DOMAIN inbox : inbox[n] \in Rows
  BY InboxRows
<1>2. CASE MarkAllRead
  <2>1. DOMAIN inbox' = DOMAIN inbox /\ UNCHANGED run
    BY <1>2 DEF MarkAllRead
  <2>2. ASSUME NEW n \in DOMAIN inbox
        PROVE  inbox'[n].key = inbox[n].key /\ inbox'[n].severity = inbox[n].severity
    <3>1. inbox'[n] = [inbox[n] EXCEPT !.read = @ \/ n \in readAll]
      BY <1>2 DEF MarkAllRead
    <3>2. (inbox[n].read \/ n \in readAll) \in BOOLEAN
      OBVIOUS
    <3> QED BY <1>1, <3>1, <3>2, ReadRow
  <2> QED BY <2>1, <2>2
<1>3. ASSUME NEW m \in DOMAIN inbox, MarkRead(m)
      PROVE  /\ DOMAIN inbox' = DOMAIN inbox /\ UNCHANGED run
             /\ \A n \in DOMAIN inbox :
                  inbox'[n].key = inbox[n].key /\ inbox'[n].severity = inbox[n].severity
  <2>1. DOMAIN inbox' = DOMAIN inbox /\ UNCHANGED run
    BY <1>3 DEF MarkRead
  <2>2. ASSUME NEW n \in DOMAIN inbox
        PROVE  inbox'[n].key = inbox[n].key /\ inbox'[n].severity = inbox[n].severity
    <3>1. inbox'[n] = IF n = m THEN [inbox[n] EXCEPT !.read = TRUE] ELSE inbox[n]
      BY <1>3 DEF MarkRead
    <3> QED BY <1>1, <3>1, ReadRow
  <2> QED BY <2>1, <2>2
<1> QED
  BY <1>2, <1>3

\* An ended session holds nothing to raise or to add.
LEMMA EndedLevels ==
  ASSUME IInv, Levels, NEW i \in Runs, NEW pc \in {"done", "failed"},
         run' = [run EXCEPT ![i] = Ended(run[i], pc)]
  PROVE  \A j \in Runs : \/ j # i /\ run'[j] = run[j]
                         \/ DOMAIN run'[j].added = {} /\ run'[j].bumps = {}
<1>1. run \in [Runs -> Sessions]
  BY DEF IInv, Typed
<1>2. Ended(run[i], pc).added = <<>> /\ Ended(run[i], pc).bumps = {}
  BY <1>1, EndedSession
<1>3. \A j \in Runs : run'[j] = IF j = i THEN Ended(run[i], pc) ELSE run[j]
  BY <1>1
<1>4. DOMAIN <<>> = {}
  OBVIOUS
<1> QED
  BY <1>2, <1>3, <1>4

\* Every step keeps Levels and takes no announcement back.
LEMMA LevelsKept ==
  ASSUME IInv, Levels, [Next]_vars
  PROVE  /\ Levels'
         /\ \A n \in DOMAIN inbox :
              /\ n \in DOMAIN inbox' /\ inbox'[n].key = inbox[n].key
              /\ Rank(inbox'[n].severity) >= Rank(inbox[n].severity)
<1> DEFINE Goal ==
      /\ Levels'
      /\ \A n \in DOMAIN inbox :
           /\ n \in DOMAIN inbox' /\ inbox'[n].key = inbox[n].key
           /\ Rank(inbox'[n].severity) >= Rank(inbox[n].severity)
<1>1. /\ run \in [Runs -> Sessions]
      /\ \A n \in DOMAIN inbox : Rank(inbox[n].severity) \in Nat
      /\ \A j \in Runs : \A b \in run[j].bumps : b.row \in DOMAIN inbox
  BY InboxRows, Ranks DEF IInv, Typed, Accounted
<1>2. ASSUME UNCHANGED inbox, NEW i \in Runs, Generate(i) \/ LoseRun(i),
             \A j \in Runs \ {i} : run'[j] = run[j]
      PROVE  Goal
  <2>1. LoseRun(i) => DOMAIN run'[i].added = {} /\ run'[i].bumps = {}
    BY EndedLevels DEF LoseRun
  <2>2. Levels'
    BY <1>2, <2>1, GenerateLevels DEF Levels
  <2> QED BY <1>1, <1>2, <2>2
<1>3. CASE UNCHANGED <<inbox, run>>
  BY <1>1, <1>3 DEF Levels
<1>4. ASSUME NEW i \in Runs, StartRun(i) PROVE Goal
  <2>1. \A j \in Runs : run'[j].added = run[j].added /\ run'[j].bumps = run[j].bumps
    <3> TAKE j \in Runs
    <3>1. run[j] \in Sessions
      BY <1>1
    <3> QED BY <1>4, <3>1 DEF StartRun, Sessions
  <2>2. UNCHANGED inbox
    BY <1>4 DEF StartRun
  <2> QED BY <1>1, <2>1, <2>2 DEF Levels
<1>5. ASSUME NEW i \in Runs, Generate(i) PROVE Goal
  <2>1. UNCHANGED inbox /\ \A j \in Runs \ {i} : run'[j] = run[j]
    BY <1>5, GenerateGoesOn DEF Generate
  <2> QED BY <1>2, <1>5, <2>1
<1>6. ASSUME NEW i \in Runs, LoseRun(i) PROVE Goal
  <2>1. UNCHANGED inbox /\ \A j \in Runs \ {i} : run'[j] = run[j]
    BY <1>1, <1>6 DEF LoseRun
  <2> QED BY <1>2, <1>6, <2>1
<1>7. ASSUME NEW i \in Runs, CommitRun(i) PROVE Goal
  <2>1. \A j \in Runs : \/ run'[j] = run[j]
                        \/ DOMAIN run'[j].added = {} /\ run'[j].bumps = {}
    BY <1>7, EndedLevels DEF CommitRun
  <2>2. /\ \A n \in DOMAIN inbox' : LevelOf(inbox'[n])
        /\ \A n \in DOMAIN inbox :
             /\ n \in DOMAIN inbox' /\ inbox'[n].key = inbox[n].key
             /\ Rank(inbox'[n].severity) >= Rank(inbox[n].severity)
    BY <1>7, CommitLevels
  <2>3. Levels'
    BY <1>1, <2>1, <2>2 DEF Levels
  <2> QED BY <2>2, <2>3
<1>8. CASE MarkAllRead \/ \E m \in DOMAIN inbox : MarkRead(m)
  <2>1. /\ DOMAIN inbox' = DOMAIN inbox /\ UNCHANGED run
        /\ \A n \in DOMAIN inbox :
             inbox'[n].key = inbox[n].key /\ inbox'[n].severity = inbox[n].severity
    BY <1>8, ReadLevels
  <2>2. Levels'
    BY <1>1, <2>1 DEF Levels, LevelOf
  <2> QED BY <1>1, <2>1, <2>2
<1> QED
  BY <1>3, <1>4, <1>5, <1>6, <1>7, <1>8 DEF Next, vars, FactsChange, SelectUnread

\* No announcement is taken back, however runs and inbox requests interleave: a row stays,
\* and a raise that writes over another run's raise never lowers it.
THEOREM SeverityNeverLowered == Spec => SeverityStands
<1>1. Init => Levels
  BY NewSession, EmptySeq DEF Init, Levels, NewRun
<1>2. IInv /\ Levels /\ [Next]_vars => Levels'
  BY LevelsKept
<1>3. Spec => []Levels
  BY <1>1, <1>2, Invariance, PTL DEF Spec
<1>4. IInv /\ Levels /\ [Next]_vars =>
        [\A n \in DOMAIN inbox :
           /\ n \in DOMAIN inbox' /\ inbox'[n].key = inbox[n].key
           /\ Rank(inbox'[n].severity) >= Rank(inbox[n].severity)]_vars
  BY LevelsKept
<1> QED
  BY <1>3, <1>4, Invariance, PTL DEF Spec, SeverityStands
===============================================================================
