---------------------------- MODULE InsightsProofs ----------------------------
(***************************************************************************)
(* Proofs about Insights, for any number of runs, any rows and any of the  *)
(* thresholds.  IInv is inductive: it says what a session that has seen    *)
(* the facts of one version, and no other, has found, and which of the     *)
(* keys it found are those of insights.                                    *)
(***************************************************************************)
EXTENDS Insights, TLAPS

Fields ==
  {"pc", "today", "next", "balance", "found", "unpaid", "keys", "began", "steady", "after",
   "repeats"}

Keys(set) == {Key(f) : f \in set}

\* All that the facts, as they are, call for.
Current == [today |-> today, balance |-> data.balance]

Calls == UNION {Detect(Loads[k], Current) : k \in 1..6}

Typed ==
  /\ DOMAIN data = {"txns", "invoices", "balance", "enabled", "forecasts"}
  /\ data.txns \subseteq Txns /\ data.invoices \subseteq Invoices
  /\ today \in FirstDay..LastDay /\ changes \in Nat
  /\ settled \in Nat /\ settled <= Version /\ lastDay \in Nat \cup {NoValue}
  /\ run = [r \in Runs |-> run[r]]
  /\ \A r \in Runs :
       LET s == run[r]
       IN /\ DOMAIN s = Fields /\ s.pc \in {"queued", "load", "insert", "done", "failed"}
          /\ s.next \in 1..7 /\ s.steady \in BOOLEAN /\ s.repeats \in BOOLEAN
          /\ s.unpaid \subseteq Invoices /\ s.after \subseteq Committed
  /\ \A n \in insights :
       /\ DOMAIN n = {"type", "subject", "evidence", "run", "status"}
       /\ n.run \in Runs /\ run[n.run].pc = "done" /\ n.status \in {"active", "dismissed"}

\* Findings about late invoices cite the invoice and nothing else.
Late(set) == \A c \in set : c.type = "late_invoice" => c.evidence = {c.subject}

\* A session at work that has seen nothing but the facts as they are holds all that its
\* loads called for.
Loaded(s) ==
  /\ s.today = today
  /\ s.next > 4 => s.balance = data.balance
  /\ \A k \in 1..6 : k < s.next => Detect(Loads[k], Current) \subseteq s.found

Sound(s) ==
  /\ s.today \in Nat /\ s.began \in Nat /\ s.began <= Version /\ Late(s.found)
  /\ \A i \in s.unpaid :
       DueInWindow(i.due, s.today) => Finding("late_invoice", i.id, {i.id}) \in s.found
  /\ s.began = Version => Loaded(s)
  /\ s.began = Version /\ s.repeats => Keys(Calls) \subseteq Keys(insights)
  /\ s.steady /\ s.repeats => Keys(s.found) \subseteq Keys(insights)
  /\ s.pc = "insert" =>
       /\ s.next = 7
       /\ s.steady /\ s.repeats => Keys(s.found) \subseteq s.keys
       /\ \A n \in insights : n.run \in s.after => Key(n) \in s.keys

Working(s) == s.pc \in {"load", "insert"}

Idle(s) ==
  s.found = {} /\ s.keys = {} /\ s.unpaid = {} /\ s.today = NoValue /\ s.next = 1

IInv ==
  /\ Typed /\ Late(insights) /\ DuplicatesOverlap
  /\ settled = Version => Keys(Calls) \subseteq Keys(insights)
  /\ \A r \in Runs :
       /\ run[r].keys \subseteq Keys(insights)
       /\ IF Working(run[r]) THEN Sound(run[r])
          ELSE Idle(run[r])
-------------------------------------------------------------------------------
(* What is found *)

LEMMA LoadsAre ==
  /\ Len(Loads) = 6 /\ DOMAIN Loads = 1..6
  /\ Loads[1] = "invoices" /\ Loads[2] = "commitments" /\ Loads[3] = "vendors"
  /\ Loads[4] = "profile" /\ Loads[5] = "cash" /\ Loads[6] = "forecasts"
BY DEF Loads

LEMMA DetectIs ==
  ASSUME NEW s
  PROVE  /\ Detect("cash", s) = CashFindings(s.balance, data.txns, s.today)
         /\ Detect("profile", s) = {}
         /\ Detect("invoices", s) = LateFindings(Unpaid, s.today)
         /\ Detect("vendors", s) = VendorFindings(data.txns, s.today)
         /\ Detect("commitments", s) =
              RenewalFindings({[id |-> c.id, due |-> c.due, amount |-> c.amount,
                                enabled |-> c.id \in data.enabled] : c \in Commitments}, s.today)
         /\ Detect("forecasts", s) = RunwayFindings(Latest(1), Latest(0))
<1> DEFINE day == s.today
           renewals == RenewalFindings({[id |-> c.id, due |-> c.due, amount |-> c.amount,
                                enabled |-> c.id \in data.enabled] : c \in Commitments}, day)
           cash == CashFindings(s.balance, data.txns, day)
           late == LateFindings(Unpaid, day)
           vendors == VendorFindings(data.txns, day)
           runway == RunwayFindings(Latest(1), Latest(0))
<1>1. \A table : Detect(table, s) =
        CASE table = "cash" -> cash
          [] table = "profile" -> {}
          [] table = "invoices" -> late
          [] table = "vendors" -> vendors
          [] table = "commitments" -> renewals
          [] table = "forecasts" -> runway
  BY DEF Detect
<1> HIDE DEF cash, late, vendors, renewals, runway
<1>2. /\ Detect("cash", s) = cash /\ Detect("profile", s) = {}
      /\ Detect("invoices", s) = late /\ Detect("vendors", s) = vendors
      /\ Detect("commitments", s) = renewals /\ Detect("forecasts", s) = runway
  BY <1>1
<1> QED
  BY <1>2 DEF cash, late, vendors, renewals, runway

\* The generators see the day, the rows, and one of them the balance; nothing else of the run.
LEMMA DetectDepends ==
  ASSUME NEW s, NEW t, s.today = t.today, NEW k \in 1..6, k > 4 => s.balance = t.balance
  PROVE  Detect(Loads[k], s) = Detect(Loads[k], t)
<1>1. CASE k <= 4
  <2>1. k = 1 \/ k = 2 \/ k = 3 \/ k = 4
    BY <1>1
  <2> QED BY <2>1, LoadsAre, DetectIs
<1>2. CASE k > 4
  <2>1. k = 5 \/ k = 6
    BY <1>2
  <2> QED BY <1>2, <2>1, LoadsAre, DetectIs
<1> QED
  BY <1>1, <1>2

LEMMA DetectKeeps ==
  ASSUME UNCHANGED data, NEW s, NEW k \in 1..6
  PROVE  Detect(Loads[k], s)' = Detect(Loads[k], s)
BY DEF Detect, Unpaid, Latest

LEMMA FindingIs ==
  \A type, subject, evidence :
    /\ Finding(type, subject, evidence).type = type
    /\ Finding(type, subject, evidence).subject = subject
    /\ Finding(type, subject, evidence).evidence = evidence
BY DEF Finding

\* Only invoices that are late are reported as late, each citing itself.
LEMMA LateOnly == ASSUME NEW s, NEW k \in 1..6 PROVE Late(Detect(Loads[k], s))
<1>1. Late(Detect("invoices", s))
  <2>1. \A c \in LateFindings(Unpaid, s.today) : c.evidence = {c.subject}
    BY FindingIs DEF LateFindings
  <2> QED BY <2>1, DetectIs DEF Late
<1>2. Late(Detect("commitments", s))
  BY DetectIs DEF Late, RenewalFindings, Finding
<1>3. Late(Detect("vendors", s))
  <2> DEFINE spend == {t \in Since(data.txns, s.today - VendorDays) : t.amount < 0}
             Of(v) == {t \in spend : t.vendor = v}
             Months(v) == {MonthOf(t.day) : t \in Of(v)}
             In(v, months) == {t \in Of(v) : MonthOf(t.day) \in months}
             Earlier(v) == Months(v) \ {Max(Months(v))}
             Trailing(v) == {m \in Earlier(v) : Cardinality({n \in Earlier(v) : n > m}) < 12}
             Spikes(v) ==
               /\ Cardinality(Earlier(v)) >= MinBaselineMonths
               /\ Spiked(-Total(In(v, Trailing(v))), Cardinality(Trailing(v)),
                         -Total(In(v, {Max(Months(v))})))
             cited(v) == Ids(In(v, {MonthOf(s.today)}))
             vendors == {w \in {t.vendor : t \in spend} : Spikes(w)}
  <2>1. VendorFindings(data.txns, s.today) =
          {Finding("vendor_spike", v, cited(v)) : v \in vendors}
    BY DEF VendorFindings
  <2> HIDE DEF cited, vendors
  <2>2. \A c \in VendorFindings(data.txns, s.today) : c.type = "vendor_spike"
    BY <2>1, FindingIs
  <2> QED BY <2>2, DetectIs DEF Late
<1>4. Late(Detect("profile", s))
  BY DetectIs DEF Late
<1>5. Late(Detect("cash", s))
  <2>1. \A c \in CashFindings(s.balance, data.txns, s.today) : c.type = "cash_drop"
    BY DEF CashFindings, Finding
  <2> QED BY <2>1, DetectIs DEF Late
<1>6. Late(Detect("forecasts", s))
  <2>1. \A c \in RunwayFindings(Latest(1), Latest(0)) : c.type = "runway_change"
    BY DEF RunwayFindings, Finding
  <2> QED BY <2>1, DetectIs DEF Late
<1>7. k = 1 \/ k = 2 \/ k = 3 \/ k = 4 \/ k = 5 \/ k = 6
  OBVIOUS
<1> QED
  BY <1>1, <1>2, <1>3, <1>4, <1>5, <1>6, <1>7, LoadsAre

LEMMA VersionIs ==
  ASSUME Typed
  PROVE  today \in Nat /\ Version \in Nat /\ Version = changes + today /\ Version > 0
BY CalendarOK DEF Typed, Version

-------------------------------------------------------------------------------
(* The rest of the application *)

\* A session at work while the facts move on: what it has seen is of an older version.
LEMMA MovesOn ==
  ASSUME IInv, UNCHANGED <<insights, run, settled, lastDay>>,
         changes' \in Nat, today' \in FirstDay..LastDay, Version' > Version,
         DOMAIN data' = DOMAIN data, data'.txns \subseteq Txns, data'.invoices \subseteq Invoices
  PROVE  IInv'
<1>1. Version \in Nat /\ Version' \in Int /\ settled <= Version
  BY VersionIs, CalendarOK DEF IInv, Typed, Version
<1>2. settled \in Nat /\ settled # Version'
  BY <1>1 DEF IInv, Typed
<1>3. Typed'
  BY <1>1 DEF IInv, Typed, Committed
<1>4. ASSUME NEW r \in Runs, Working(run[r]) PROVE Sound(run[r])'
  <2>1. Sound(run[r]) /\ run'[r] = run[r]
    BY <1>4 DEF IInv
  <2>2. run[r].began \in Nat /\ run[r].began <= Version'  /\ run[r].began # Version'
    BY <1>1, <2>1 DEF Sound
  <2> QED BY <2>1, <2>2 DEF Sound
<1> QED
  BY <1>2, <1>3, <1>4 DEF IInv, DuplicatesOverlap, Working, Idle

LEMMA TickKeeps == ASSUME IInv, Tick PROVE IInv'
<1>1. today \in Nat /\ Version = changes + today /\ changes \in Nat
  BY VersionIs DEF IInv, Typed
<1>2. today' = today + 1 /\ today < LastDay /\ UNCHANGED <<data, insights, run, changes, lastDay, settled>>
  BY DEF Tick
<1>3. Version' > Version /\ today' \in FirstDay..LastDay
  BY <1>1, <1>2, CalendarOK DEF Version, IInv, Typed
<1> QED
  BY <1>2, <1>3, MovesOn DEF IInv, Typed

LEMMA ChangeKeeps ==
  ASSUME IInv, NEW new, Change(new), DOMAIN new = DOMAIN data, new.txns \subseteq Txns,
         new.invoices \subseteq Invoices
  PROVE  IInv'
<1>1. today \in Nat /\ changes \in Nat
  BY VersionIs DEF IInv, Typed
<1>2. data' = new /\ changes' = changes + 1 /\ UNCHANGED <<today, insights, run, lastDay, settled>>
  BY DEF Change
<1>3. Version' > Version
  BY <1>1, <1>2 DEF Version
<1> QED
  BY <1>1, <1>2, <1>3, MovesOn DEF IInv, Typed

LEMMA ChangesKeep ==
  ASSUME IInv,
         \/ \E t \in Txns : ImportTransaction(t)
         \/ \E i \in Invoices : ImportInvoice(i)
         \/ \E b \in Balances : SetBalance(b)
         \/ \E c \in Commitments : ToggleCommitment(c)
         \/ \E w \in Outlooks : ComputeForecast(w)
  PROVE  IInv'
<1>1. /\ DOMAIN data = {"txns", "invoices", "balance", "enabled", "forecasts"}
      /\ data.txns \subseteq Txns /\ data.invoices \subseteq Invoices
  BY DEF IInv, Typed
<1>2. ASSUME NEW t \in Txns, ImportTransaction(t) PROVE IInv'
  <2> DEFINE new == [data EXCEPT !.txns = @ \cup {t}]
  <2>1. /\ DOMAIN new = DOMAIN data /\ new.txns \subseteq Txns /\ new.invoices \subseteq Invoices
    BY <1>1
  <2>2. Change(new)
    BY <1>2 DEF ImportTransaction
  <2> HIDE DEF new
  <2> QED BY <2>1, <2>2, ChangeKeeps
<1>3. ASSUME NEW i \in Invoices, ImportInvoice(i) PROVE IInv'
  <2> DEFINE new == [data EXCEPT !.invoices = @ \cup {i}]
  <2>1. /\ DOMAIN new = DOMAIN data /\ new.txns \subseteq Txns /\ new.invoices \subseteq Invoices
    BY <1>1
  <2>2. Change(new)
    BY <1>3 DEF ImportInvoice
  <2> HIDE DEF new
  <2> QED BY <2>1, <2>2, ChangeKeeps
<1>4. ASSUME NEW v, NEW field \in {"balance", "enabled", "forecasts"},
             Change([data EXCEPT ![field] = v])
      PROVE  IInv'
  <2> DEFINE new == [data EXCEPT ![field] = v]
  <2>1. /\ DOMAIN new = DOMAIN data /\ new.txns \subseteq Txns /\ new.invoices \subseteq Invoices
    BY <1>1
  <2> HIDE DEF new
  <2>2. Change(new)
    BY <1>4 DEF new
  <2> QED BY <2>1, <2>2, ChangeKeeps
<1>5. ASSUME NEW b \in Balances, SetBalance(b) PROVE IInv'
  <2>1. Change([data EXCEPT !["balance"] = b])
    BY <1>5 DEF SetBalance
  <2> QED BY <1>4, <2>1
<1>6. ASSUME NEW c \in Commitments, ToggleCommitment(c) PROVE IInv'
  <2>1. Change([data EXCEPT !["enabled"] = SymDiff(data.enabled, {c.id})])
    BY <1>6 DEF ToggleCommitment
  <2> QED BY <1>4, <2>1
<1>7. ASSUME NEW w \in Outlooks, ComputeForecast(w) PROVE IInv'
  <2>1. PICK forecast : Change([data EXCEPT !["forecasts"] = Append(data.forecasts, forecast)])
    BY <1>7 DEF ComputeForecast
  <2> QED BY <1>4, <2>1
<1> QED
  BY <1>2, <1>3, <1>5, <1>6, <1>7
-------------------------------------------------------------------------------
(* A session and the insights *)

LEMMA SameFacts ==
  ASSUME UNCHANGED <<today, data, changes>>
  PROVE  /\ Version' = Version /\ Calls' = Calls
         /\ \A k \in 1..6 : Detect(Loads[k], Current)' = Detect(Loads[k], Current)
<1>1. Version' = Version
  BY DEF Version
<1>2. Current' = Current
  BY DEF Current
<1>3. \A k \in 1..6 : \A s : Detect(Loads[k], s)' = Detect(Loads[k], s)
  BY DetectKeeps
<1>4. \A k \in 1..6 : Detect(Loads[k], Current)' = Detect(Loads[k], Current)
  BY <1>2, <1>3
<1>5. Calls' = Calls
  BY <1>4 DEF Calls
<1> QED
  BY <1>1, <1>4, <1>5

\* While the facts stay, a session stays sound if no key is lost and no insight of a run it
\* follows is news to it.
LEMMA SoundStays ==
  ASSUME UNCHANGED <<today, data, changes>>, Keys(insights) \subseteq Keys(insights'),
         NEW q, Sound(run'[q]),
         run'[q].pc = "insert" =>
           \A n \in insights' : n.run \in run'[q].after => Key(n) \in run'[q].keys
  PROVE  Sound(run[q])'
<1>1. /\ Version' = Version /\ Calls' = Calls
      /\ \A k \in 1..6 : Detect(Loads[k], Current)' = Detect(Loads[k], Current)
  BY SameFacts
<1>2. Loaded(run'[q]) => Loaded(run[q])'
  BY <1>1 DEF Loaded
<1> QED
  BY <1>1, <1>2 DEF Sound

SessionOK(s) ==
  /\ DOMAIN s = Fields /\ s.pc \in {"queued", "load", "insert", "done", "failed"}
  /\ s.next \in 1..7 /\ s.steady \in BOOLEAN /\ s.repeats \in BOOLEAN
  /\ s.unpaid \subseteq Invoices /\ s.after \subseteq Committed

\* A session is replaced while the facts and the insights stay.
LEMMA SessionKeeps ==
  ASSUME IInv, NEW r \in Runs, run[r].pc # "done", NEW s, run' = [run EXCEPT ![r] = s],
         UNCHANGED <<today, data, insights, changes, lastDay, settled>>,
         SessionOK(s), s.pc # "done", s.keys \subseteq Keys(insights),
         IF Working(s) THEN Sound(s) ELSE Idle(s)
  PROVE  IInv'
<1>1. \A q \in Runs : run'[q] = IF q = r THEN s ELSE run[q]
  BY DEF IInv, Typed
<1>2. Committed' = Committed
  BY <1>1 DEF Committed
<1>3. Version' = Version /\ Calls' = Calls
  BY SameFacts
<1>4. Typed'
  <2>1. run' = [q \in Runs |-> run'[q]]
    BY DEF IInv, Typed
  <2>2. \A n \in insights : n.run # r /\ n.run \in Runs
    BY DEF IInv, Typed
  <2> QED BY <1>1, <1>2, <1>3, <2>1, <2>2 DEF IInv, Typed, SessionOK
<1>5. DuplicatesOverlap'
  <2>1. \A n \in insights : n.run # r /\ n.run \in Runs
    BY DEF IInv, Typed
  <2> QED BY <1>1, <2>1 DEF IInv, DuplicatesOverlap
<1>6. ASSUME NEW q \in Runs, Working(run'[q]) PROVE Sound(run[q])'
  <2>1. Sound(run'[q])
    BY <1>1, <1>6 DEF IInv
  <2>2. run'[q].pc = "insert" =>
          \A n \in insights' : n.run \in run'[q].after => Key(n) \in run'[q].keys
    BY <2>1 DEF Sound
  <2> HIDE DEF Sound
  <2> QED BY <2>1, <2>2, SoundStays
<1>7. ASSUME NEW q \in Runs
      PROVE  /\ run'[q].keys \subseteq Keys(insights')
             /\ IF Working(run'[q]) THEN Sound(run[q])' ELSE Idle(run'[q])
  BY <1>1, <1>6 DEF IInv
<1> QED
  BY <1>3, <1>4, <1>5, <1>7 DEF IInv, Working, Idle-------------------------------------------------------------------------------
(* run_all up to its commit *)

Begun(s, repeats) ==
  [s EXCEPT !.pc = "load", !.today = today, !.began = Version, !.repeats = repeats]

LEMMA StartKeeps == ASSUME IInv, NEW r \in Runs, StartRun(r) PROVE IInv'
<1> DEFINE repeats == settled = Version
           q == run[r]
           s == Begun(q, repeats)
<1>1. /\ run[r].pc = "queued" /\ run' = [run EXCEPT ![r] = s]
      /\ UNCHANGED <<today, data, insights, changes, lastDay, settled>>
  BY DEF StartRun, Begun
<1>2. SessionOK(q) /\ Idle(q)
  BY <1>1 DEF IInv, Typed, SessionOK, Working
<1>3. PICK e : e = s
  OBVIOUS
<1>4. /\ DOMAIN e = Fields /\ e.pc = "load" /\ e.today = today /\ e.began = Version
      /\ (e.repeats <=> repeats) /\ e.repeats \in BOOLEAN
      /\ e.next = q.next /\ e.found = q.found /\ e.unpaid = q.unpaid
      /\ e.keys = q.keys /\ e.steady = q.steady /\ e.after = q.after
  <2>1. repeats \in BOOLEAN /\ DOMAIN q = Fields
    BY <1>2 DEF SessionOK
  <2> HIDE DEF repeats, q
  <2> QED BY <1>3, <2>1 DEF Begun, Fields
<1>5. SessionOK(e)
  BY <1>2, <1>4 DEF SessionOK
<1>6. e.next = 1 /\ e.found = {} /\ e.unpaid = {} /\ e.keys = {}
  BY <1>2, <1>4 DEF Idle
<1>7. e.repeats => Keys(Calls) \subseteq Keys(insights)
  BY <1>4 DEF IInv
<1>8. Sound(e)
  <2>1. Loaded(e)
    BY <1>4, <1>6 DEF Loaded
  <2>2. Late(e.found) /\ Keys(e.found) = {}
    BY <1>6 DEF Late, Keys
  <2> HIDE DEF repeats
  <2> QED BY <1>4, <1>6, <1>7, <2>1, <2>2, VersionIs DEF Sound, IInv
<1> HIDE DEF s
<1> QED
  BY <1>1, <1>3, <1>4, <1>5, <1>6, <1>8, SessionKeeps DEF Working

Loading(s, steady, found, balance, unpaid) ==
  [s EXCEPT !.next = @ + 1, !.steady = steady, !.found = found, !.balance = balance,
            !.unpaid = unpaid]

LEMMA LoadingIs ==
  ASSUME NEW s, DOMAIN s = Fields, NEW steady \in BOOLEAN, NEW found, NEW balance, NEW unpaid,
         NEW e, e = Loading(s, steady, found, balance, unpaid)
  PROVE  /\ DOMAIN e = Fields
         /\ e.next = s.next + 1 /\ (e.steady <=> steady) /\ e.steady \in BOOLEAN
         /\ e.found = found /\ e.balance = balance /\ e.unpaid = unpaid
         /\ e.pc = s.pc /\ e.today = s.today /\ e.began = s.began /\ e.keys = s.keys
         /\ e.repeats = s.repeats /\ e.after = s.after
BY DEF Loading, Fields

LEMMA LoadKeeps == ASSUME IInv, NEW r \in Runs, Load(r) PROVE IInv'
<1> DEFINE s == run[r]
           steady == s.steady /\ Version = s.began
           news == Detect(Loads[s.next], s)
           found == s.found \cup news
           balance == IF Loads[s.next] = "profile" THEN data.balance ELSE s.balance
           unpaid == IF Loads[s.next] = "invoices" THEN Unpaid ELSE s.unpaid
<1>1. /\ s.pc = "load" /\ s.next <= 6
      /\ run' = [run EXCEPT ![r] = Loading(s, steady, found, balance, unpaid)]
      /\ UNCHANGED <<today, data, insights, changes, lastDay, settled>>
  BY LoadsAre DEF Load, Loading
<1>2. SessionOK(s) /\ Sound(s) /\ s.keys \subseteq Keys(insights)
  BY <1>1 DEF IInv, Typed, SessionOK, Working
<1>3. s.next \in 1..6 /\ DOMAIN s = Fields
  BY <1>1, <1>2 DEF SessionOK
<1>4. PICK e : e = Loading(s, steady, found, balance, unpaid)
  OBVIOUS
<1>5. /\ DOMAIN e = Fields
      /\ e.next = s.next + 1 /\ (e.steady <=> steady) /\ e.steady \in BOOLEAN
      /\ e.found = found /\ e.balance = balance /\ e.unpaid = unpaid
      /\ e.pc = s.pc /\ e.today = s.today /\ e.began = s.began /\ e.keys = s.keys
      /\ e.repeats = s.repeats /\ e.after = s.after
  <2>1. steady \in BOOLEAN
    BY <1>2 DEF SessionOK
  <2> HIDE DEF s, steady, found, balance, unpaid
  <2> QED BY <1>3, <1>4, <2>1, LoadingIs
<1>6. SessionOK(e)
  <2>1. e.unpaid \subseteq Invoices
    BY <1>2, <1>5 DEF SessionOK, Unpaid, IInv, Typed
  <2> HIDE DEF s, steady
  <2> QED BY <1>2, <1>3, <1>5, <2>1 DEF SessionOK
<1>7. Late(e.found)
  <2>1. Late(news)
    BY <1>3, LateOnly
  <2>2. Late(s.found)
    BY <1>2 DEF Sound
  <2> HIDE DEF news
  <2> QED BY <1>5, <2>1, <2>2 DEF Late
<1>8. \A i \in e.unpaid :
        DueInWindow(i.due, e.today) => Finding("late_invoice", i.id, {i.id}) \in e.found
  <2>1. CASE s.next = 1
    <3>1. news = LateFindings(Unpaid, s.today) /\ unpaid = Unpaid
      BY <2>1, LoadsAre, DetectIs
    <3> HIDE DEF s, news
    <3> QED BY <1>5, <3>1 DEF LateFindings
  <2>2. CASE s.next # 1
    <3>1. unpaid = s.unpaid
      BY <1>3, <2>2, LoadsAre
    <3>2. \A i \in s.unpaid :
            DueInWindow(i.due, s.today) => Finding("late_invoice", i.id, {i.id}) \in s.found
      BY <1>2 DEF Sound
    <3> HIDE DEF s, news, unpaid
    <3> QED BY <1>5, <3>1, <3>2
  <2> QED BY <2>1, <2>2
<1>9. s.began = Version => Loaded(s) /\ news = Detect(Loads[s.next], Current)
  <2>1. s.began = Version => Loaded(s)
    BY <1>2 DEF Sound
  <2>2. Current.today = today /\ Current.balance = data.balance
    BY DEF Current
  <2>3. Loaded(s) => s.today = Current.today /\ (s.next > 4 => s.balance = Current.balance)
    BY <2>2 DEF Loaded
  <2> HIDE DEF s
  <2>4. Loaded(s) => news = Detect(Loads[s.next], Current)
    BY <1>3, <2>3, DetectDepends
  <2> QED BY <2>1, <2>4
<1>10. e.began = Version => Loaded(e)
  <2> SUFFICES ASSUME e.began = Version PROVE Loaded(e)
    OBVIOUS
  <2>1. Loaded(s) /\ news = Detect(Loads[s.next], Current)
    BY <1>5, <1>9
  <2> HIDE DEF news
  <2>2. e.today = today
    BY <1>5, <2>1 DEF Loaded
  <2>3. e.next > 4 => e.balance = data.balance
    <3>1. s.next = 4 => balance = data.balance
      BY LoadsAre
    <3>2. s.next > 4 => balance = s.balance
      BY <1>3, LoadsAre
    <3> HIDE DEF s, balance
    <3> QED BY <1>3, <1>5, <2>1, <3>1, <3>2 DEF Loaded
  <2>4. ASSUME NEW k \in 1..6, k < e.next PROVE Detect(Loads[k], Current) \subseteq e.found
    <3> HIDE DEF s
    <3>1. k < s.next \/ k = s.next
      BY <1>3, <1>5, <2>4
    <3>2. k < s.next => Detect(Loads[k], Current) \subseteq s.found
      BY <2>1 DEF Loaded
    <3> QED BY <1>5, <2>1, <3>1, <3>2
  <2> QED BY <2>2, <2>3, <2>4 DEF Loaded
<1>11. s.began = Version /\ s.repeats => Keys(Calls) \subseteq Keys(insights)
  BY <1>2 DEF Sound
<1>12. e.steady /\ e.repeats => Keys(e.found) \subseteq Keys(insights)
  <2> SUFFICES ASSUME e.steady, e.repeats PROVE Keys(e.found) \subseteq Keys(insights)
    OBVIOUS
  <2>1. s.steady /\ s.began = Version /\ s.repeats
    BY <1>5
  <2>2. Keys(s.found) \subseteq Keys(insights)
    BY <1>2, <2>1 DEF Sound
  <2> HIDE DEF s, news
  <2>3. news \subseteq Calls
    BY <1>3, <1>9, <2>1 DEF Calls
  <2>4. Keys(news) \subseteq Keys(insights)
    BY <1>11, <2>1, <2>3 DEF Keys
  <2> QED BY <1>5, <2>2, <2>4 DEF Keys
<1>13. e.today \in Nat /\ e.began \in Nat /\ e.began <= Version
  BY <1>2, <1>5 DEF Sound
<1> HIDE DEF s, steady, found, balance, unpaid
<1>14. Sound(e)
  BY <1>1, <1>5, <1>7, <1>8, <1>10, <1>11, <1>12, <1>13 DEF Sound
<1>15. run[r].pc # "done" /\ e.pc # "done" /\ Working(e) /\ e.keys \subseteq Keys(insights)
  BY <1>1, <1>2, <1>5 DEF s, Working
<1> QED
  BY <1>1, <1>4, <1>6, <1>14, <1>15, SessionKeeps
ReadBy(s) == [s EXCEPT !.pc = "insert", !.keys = Keys(insights), !.after = Committed]

LEMMA ReadKeep == ASSUME IInv, NEW r \in Runs, ReadKeys(r) PROVE IInv'
<1> DEFINE s == run[r]
<1>1. /\ s.pc = "load" /\ s.next > 6 /\ run' = [run EXCEPT ![r] = ReadBy(s)]
      /\ UNCHANGED <<today, data, insights, changes, lastDay, settled>>
  BY LoadsAre DEF ReadKeys, ReadBy, Seen, Keys
<1>2. SessionOK(s) /\ Sound(s)
  BY <1>1 DEF IInv, Typed, SessionOK, Working
<1>3. PICK e : e = ReadBy(s)
  OBVIOUS
<1>4. /\ DOMAIN e = Fields /\ e.pc = "insert" /\ e.keys = Keys(insights)
      /\ e.after = Committed
      /\ e.next = s.next /\ e.today = s.today /\ e.began = s.began /\ e.found = s.found
      /\ e.balance = s.balance /\ e.unpaid = s.unpaid /\ e.steady = s.steady
      /\ e.repeats = s.repeats
  <2>1. DOMAIN s = Fields
    BY <1>2 DEF SessionOK
  <2> HIDE DEF s
  <2> QED BY <1>3, <2>1 DEF ReadBy, Fields
<1> HIDE DEF s
<1>5. SessionOK(e) /\ e.next = 7
  BY <1>1, <1>2, <1>4 DEF SessionOK
<1>6. Loaded(s) => Loaded(e)
  BY <1>4 DEF Loaded
<1>7. Sound(e)
  <2>1. e.steady /\ e.repeats => Keys(e.found) \subseteq e.keys
    BY <1>2, <1>4 DEF Sound
  <2>2. \A n \in insights : n.run \in e.after => Key(n) \in e.keys
    BY <1>4 DEF Keys
  <2> QED BY <1>2, <1>4, <1>5, <1>6, <2>1, <2>2 DEF Sound
<1>8. run[r].pc # "done" /\ e.pc # "done" /\ Working(e) /\ e.keys \subseteq Keys(insights)
  BY <1>1, <1>4 DEF s, Working
<1> QED
  BY <1>1, <1>3, <1>5, <1>7, <1>8, SessionKeeps

\* A session that has ended holds nothing but the runs it followed.
LEMMA EndedIs ==
  ASSUME NEW s, NEW pc \in {"done", "failed"}, NEW e, e = Ended(s, pc)
  PROVE  /\ DOMAIN e = Fields /\ e.pc = pc /\ e.after = s.after /\ Idle(e)
         /\ e.steady \in BOOLEAN /\ e.repeats \in BOOLEAN /\ ~Working(e)
BY DEF Ended, NewRun, Fields, Idle, Working

LEMMA LoseKeeps == ASSUME IInv, NEW r \in Runs, LoseRun(r) PROVE IInv'
<1>1. /\ run[r].pc \in {"load", "insert"} /\ run' = [run EXCEPT ![r] = Ended(run[r], "failed")]
      /\ UNCHANGED <<today, data, insights, changes, lastDay, settled>>
  BY DEF LoseRun
<1>2. PICK e : e = Ended(run[r], "failed")
  OBVIOUS
<1>3. /\ DOMAIN e = Fields /\ e.pc = "failed" /\ e.after = run[r].after /\ Idle(e)
      /\ e.steady \in BOOLEAN /\ e.repeats \in BOOLEAN /\ ~Working(e)
  BY <1>2, EndedIs
<1>4. SessionOK(e) /\ e.keys \subseteq Keys(insights)
  BY <1>3 DEF SessionOK, Idle, IInv, Typed
<1>5. run[r].pc # "done" /\ e.pc # "done"
  BY <1>1, <1>3
<1> QED
  BY <1>1, <1>2, <1>3, <1>4, <1>5, SessionKeeps
-------------------------------------------------------------------------------
(* The commit of run_all *)

\* A batch holds one finding for each key that is fresh.
LEMMA BatchIs ==
  ASSUME NEW fresh, NEW created \in Batches(fresh)
  PROVE  /\ created \subseteq fresh /\ Keys(created) = Keys(fresh)
         /\ \A c, d \in created : Key(c) = Key(d) => c = d
<1> DEFINE firsts == {f \in [{Key(c) : c \in fresh} -> fresh] : \A k \in DOMAIN f : Key(f[k]) = k}
<1>1. PICK f \in firsts : created = {f[k] : k \in DOMAIN f}
  BY DEF Batches
<1>2. f \in [Keys(fresh) -> fresh] /\ DOMAIN f = Keys(fresh)
  BY DEF Keys
<1>3. \A k \in Keys(fresh) : f[k] \in fresh /\ Key(f[k]) = k
  BY <1>2
<1>4. created = {f[k] : k \in Keys(fresh)}
  BY <1>1, <1>2
<1> HIDE DEF firsts
<1>5. \A c, d \in created : Key(c) = Key(d) => c = d
  BY <1>3, <1>4
<1>6. created \subseteq fresh
  BY <1>3, <1>4
<1>7. Keys(created) = Keys(fresh)
  BY <1>3, <1>4, <1>6 DEF Keys
<1> QED
  BY <1>5, <1>6, <1>7

LEMMA RowIs ==
  ASSUME NEW r, NEW c
  PROVE  /\ DOMAIN CommitRow(r, c) = {"type", "subject", "evidence", "run", "status"}
         /\ CommitRow(r, c).type = c.type /\ CommitRow(r, c).subject = c.subject
         /\ CommitRow(r, c).evidence = c.evidence /\ CommitRow(r, c).run = r
         /\ CommitRow(r, c).status = "active" /\ Key(CommitRow(r, c)) = Key(c)
BY DEF CommitRow, Key

\* What a commit writes: findings of the run with a key it had not read, one for each key,
\* so that afterwards there is an insight for every key it found.
LEMMA CommitIs ==
  ASSUME IInv, NEW r \in Runs, CommitRun(r)
  PROVE  \E created :
           /\ insights' = insights \cup {CommitRow(r, c) : c \in created}
           /\ created \subseteq run[r].found
           /\ \A c \in created : Key(c) \notin run[r].keys
           /\ \A c, d \in created : Key(c) = Key(d) => c = d
           /\ Keys(run[r].found) \subseteq Keys(insights')
<1> DEFINE s == run[r]
           fresh == {c \in s.found : Key(c) \notin s.keys}
<1>1. PICK created \in Batches(fresh) :
        insights' = insights \cup {CommitRow(r, c) : c \in created}
  BY DEF CommitRun
<1>2. /\ created \subseteq fresh /\ Keys(created) = Keys(fresh)
      /\ \A c, d \in created : Key(c) = Key(d) => c = d
  BY BatchIs
<1>3. s.keys \subseteq Keys(insights)
  BY DEF IInv
<1>4. Keys(created) \subseteq Keys(insights')
  BY <1>1, RowIs DEF Keys
<1>5. Keys(insights) \subseteq Keys(insights')
  BY <1>1 DEF Keys
<1>6. ASSUME NEW c \in s.found PROVE Key(c) \in Keys(insights')
  <2>1. CASE Key(c) \in s.keys
    BY <1>3, <1>5, <2>1
  <2>2. CASE Key(c) \notin s.keys
    BY <1>2, <1>4, <2>2 DEF Keys
  <2> QED BY <2>1, <2>2
<1>7. Keys(s.found) \subseteq Keys(insights')
  BY <1>6 DEF Keys
<1>8. created \subseteq s.found /\ \A c \in created : Key(c) \notin s.keys
  BY <1>2
<1> HIDE DEF fresh
<1> QED
  BY <1>1, <1>2, <1>7, <1>8

LEMMA CommitKeeps == ASSUME IInv, NEW r \in Runs, CommitRun(r) PROVE IInv'
<1> DEFINE s == run[r]
<1>1. /\ s.pc = "insert" /\ run' = [run EXCEPT ![r] = Ended(s, "done")] /\ lastDay' = s.today
      /\ settled' = IF s.steady THEN s.began ELSE 0
      /\ UNCHANGED <<today, data, changes>>
  BY DEF CommitRun
<1>2. PICK created :
        /\ insights' = insights \cup {CommitRow(r, c) : c \in created}
        /\ created \subseteq s.found
        /\ \A c \in created : Key(c) \notin s.keys
        /\ \A c, d \in created : Key(c) = Key(d) => c = d
        /\ Keys(s.found) \subseteq Keys(insights')
  BY CommitIs
<1>3. SessionOK(s) /\ Sound(s) /\ Typed
  BY <1>1 DEF IInv, Typed, SessionOK, Working
<1>4. PICK e : e = Ended(s, "done")
  OBVIOUS
<1>5. /\ DOMAIN e = Fields /\ e.pc = "done" /\ e.after = s.after /\ Idle(e)
      /\ e.steady \in BOOLEAN /\ e.repeats \in BOOLEAN /\ ~Working(e)
  BY <1>4, EndedIs
<1>6. \A q \in Runs : run'[q] = IF q = r THEN e ELSE run[q]
  BY <1>1, <1>3, <1>4 DEF Typed
<1>7. Committed' = Committed \cup {r} /\ r \notin Committed
  BY <1>1, <1>5, <1>6 DEF Committed
<1>8. Version' = Version /\ Calls' = Calls
  BY <1>1, SameFacts
<1>9. Keys(insights) \subseteq Keys(insights')
  BY <1>2 DEF Keys
<1>10. \A n \in insights : n.run \in Runs /\ n.run # r /\ n.run \in Committed
  BY <1>1, <1>3 DEF Typed, Committed
<1>11. ASSUME NEW n \in insights', n \notin insights
       PROVE  \E c \in created : n = CommitRow(r, c)
  BY <1>2, <1>11
<1>12. Typed'
  <2>1. run' = [q \in Runs |-> run'[q]]
    BY <1>1, <1>3 DEF Typed
  <2>2. settled' \in Nat /\ settled' <= Version' /\ lastDay' \in Nat
    BY <1>1, <1>3, <1>8, VersionIs DEF Sound
  <2>3. ASSUME NEW n \in insights'
        PROVE  /\ DOMAIN n = {"type", "subject", "evidence", "run", "status"}
               /\ n.run \in Runs /\ run'[n.run].pc = "done" /\ n.status \in {"active", "dismissed"}
    <3>1. CASE n \in insights
      BY <1>3, <1>6, <1>10, <3>1 DEF Typed
    <3>2. CASE n \notin insights
      BY <1>5, <1>6, <1>11, <3>2, RowIs
    <3> QED BY <3>1, <3>2
  <2>4. ASSUME NEW q \in Runs
        PROVE  /\ DOMAIN run'[q] = Fields
               /\ run'[q].pc \in {"queued", "load", "insert", "done", "failed"}
               /\ run'[q].next \in 1..7 /\ run'[q].steady \in BOOLEAN
               /\ run'[q].repeats \in BOOLEAN /\ run'[q].unpaid \subseteq Invoices
               /\ run'[q].after \subseteq Committed'
    <3>1. CASE q = r
      BY <1>3, <1>5, <1>6, <1>7, <3>1 DEF SessionOK, Idle
    <3>2. CASE q # r
      BY <1>3, <1>6, <1>7, <3>2 DEF Typed
    <3> QED BY <3>1, <3>2
  <2> HIDE DEF s
  <2> QED BY <1>1, <1>3, <2>1, <2>2, <2>3, <2>4 DEF Typed
<1>13. Late(insights')
  <2>1. Late(insights) /\ Late(s.found)
    BY <1>3 DEF IInv, Sound
  <2> HIDE DEF s
  <2>2. ASSUME NEW n \in insights', n.type = "late_invoice" PROVE n.evidence = {n.subject}
    <3>1. CASE n \in insights
      BY <2>1, <2>2, <3>1 DEF Late
    <3>2. CASE n \notin insights
      BY <1>2, <1>11, <2>1, <2>2, <3>2, RowIs DEF Late
    <3> QED BY <3>1, <3>2
  <2> QED BY <2>2 DEF Late
<1>14. settled' = Version' => Keys(Calls') \subseteq Keys(insights')
  <2> SUFFICES ASSUME settled' = Version' PROVE Keys(Calls) \subseteq Keys(insights')
    BY <1>8
  <2>1. s.began = Version /\ s.next = 7
    <3>1. Version \in Nat /\ Version > 0
      BY <1>3, VersionIs
    <3>2. s.next = 7
      BY <1>1, <1>3 DEF Sound
    <3>3. settled' = IF s.steady THEN s.began ELSE 0
      BY <1>1
    <3> HIDE DEF s
    <3> QED BY <1>8, <3>1, <3>2, <3>3
  <2>2. Loaded(s)
    BY <1>3, <2>1 DEF Sound
  <2>3. Calls \subseteq s.found
    BY <2>1, <2>2 DEF Loaded, Calls
  <2> HIDE DEF s
  <2> QED BY <1>2, <2>3 DEF Keys
<1>15. ASSUME NEW i \in insights', NEW j \in insights', i # j, Key(i) = Key(j)
       PROVE  i.run # j.run /\ i.run \notin run'[j.run].after
  <2>1. CASE i \in insights /\ j \in insights
    BY <1>6, <1>10, <1>15, <2>1 DEF IInv, DuplicatesOverlap
  <2>2. CASE i \in insights /\ j \notin insights
    <3>1. PICK c \in created : j = CommitRow(r, c)
      BY <1>11, <2>2
    <3>2. j.run = r /\ Key(j) \notin s.keys
      BY <1>2, <3>1, RowIs
    <3>3. i.run \notin s.after
      BY <1>1, <1>3, <1>15, <2>2, <3>2 DEF Sound
    <3> QED BY <1>5, <1>6, <1>10, <2>2, <3>2, <3>3
  <2>3. CASE i \notin insights /\ j \in insights
    <3>1. i.run = r
      BY <1>11, <2>3, RowIs
    <3>2. j.run # r /\ j.run \in Runs /\ run'[j.run] = run[j.run]
      BY <1>6, <1>10, <2>3
    <3>3. run[j.run].after \subseteq Committed
      BY <1>3, <3>2 DEF Typed
    <3> QED BY <1>7, <3>1, <3>2, <3>3
  <2>4. CASE i \notin insights /\ j \notin insights
    <3>1. PICK c \in created : i = CommitRow(r, c)
      BY <1>11, <2>4
    <3>2. PICK d \in created : j = CommitRow(r, d)
      BY <1>11, <2>4
    <3>3. Key(c) = Key(d)
      BY <1>15, <3>1, <3>2, RowIs
    <3> QED BY <1>2, <1>15, <3>1, <3>2, <3>3
  <2> QED BY <2>1, <2>2, <2>3, <2>4
<1>16. DuplicatesOverlap'
  BY <1>15 DEF DuplicatesOverlap
<1>17. ASSUME NEW q \in Runs, Working(run'[q]) PROVE Sound(run[q])'
  <2>1. q # r /\ run'[q] = run[q]
    BY <1>5, <1>6, <1>17
  <2>2. Sound(run'[q]) /\ run[q].after \subseteq Committed
    BY <1>3, <1>17, <2>1 DEF IInv, Typed
  <2>3. ASSUME run'[q].pc = "insert", NEW n \in insights', n.run \in run'[q].after
        PROVE  Key(n) \in run'[q].keys
    <3>1. n.run # r
      BY <1>7, <2>1, <2>2, <2>3
    <3>2. n \in insights
      BY <1>11, <3>1, RowIs
    <3> QED BY <2>2, <2>3, <3>2 DEF Sound
  <2> HIDE DEF Sound
  <2> QED BY <1>1, <1>9, <2>2, <2>3, SoundStays
<1>18. ASSUME NEW q \in Runs
       PROVE  /\ run'[q].keys \subseteq Keys(insights')
              /\ IF Working(run'[q]) THEN Sound(run[q])' ELSE Idle(run'[q])
  <2>1. CASE q = r
    BY <1>5, <1>6, <2>1 DEF Idle
  <2>2. CASE q # r
    BY <1>6, <1>9, <1>17, <2>2 DEF IInv
  <2> QED BY <2>1, <2>2
<1> QED
  BY <1>12, <1>13, <1>14, <1>16, <1>18 DEF IInv, Working, Idle-------------------------------------------------------------------------------
(* The other requests *)

\* A row is dismissed: each of the rows that are left stands for one that was there, of the
\* same key and run.
LEMMA DismissIs ==
  ASSUME IInv, NEW i \in insights, Dismiss(i)
  PROVE  /\ \E from \in [insights' -> insights] :
              \A n \in insights' :
                /\ Key(n) = Key(from[n]) /\ n.run = from[n].run /\ DOMAIN n = DOMAIN from[n]
                /\ n.type = from[n].type /\ n.subject = from[n].subject
                /\ n.evidence = from[n].evidence
                /\ n.status = from[n].status \/ n.status = "dismissed"
                /\ \A m \in insights' : from[n] = from[m] => n = m
         /\ Keys(insights) \subseteq Keys(insights')
<1> DEFINE d == [i EXCEPT !.status = "dismissed"]
<1>1. insights' = (insights \ {i}) \cup {d}
  BY DEF Dismiss
<1>2. DOMAIN i = {"type", "subject", "evidence", "run", "status"}
  BY DEF IInv, Typed
<1>3. /\ Key(d) = Key(i) /\ d.run = i.run /\ DOMAIN d = DOMAIN i /\ d.type = i.type
      /\ d.subject = i.subject /\ d.evidence = i.evidence /\ d.status = "dismissed"
  BY <1>2 DEF Key
<1> HIDE DEF d
<1> DEFINE from == [n \in insights' |-> IF n = d THEN i ELSE n]
<1>4. from \in [insights' -> insights]
  BY <1>1
<1>5. \A n \in insights' : from[n] = IF n = d THEN i ELSE n
  OBVIOUS
<1>6. \A n \in insights' : n # d => n # i
  BY <1>1
<1> HIDE DEF from
<1>7. \A n \in insights' :
        /\ Key(n) = Key(from[n]) /\ n.run = from[n].run /\ DOMAIN n = DOMAIN from[n]
        /\ n.type = from[n].type /\ n.subject = from[n].subject
        /\ n.evidence = from[n].evidence
        /\ n.status = from[n].status \/ n.status = "dismissed"
        /\ \A m \in insights' : from[n] = from[m] => n = m
  BY <1>3, <1>5, <1>6
<1>8. Keys(insights) \subseteq Keys(insights')
  BY <1>1, <1>3 DEF Keys
<1> QED
  BY <1>4, <1>7, <1>8

LEMMA DismissKeeps == ASSUME IInv, NEW i \in insights, Dismiss(i) PROVE IInv'
<1>1. UNCHANGED <<today, data, run, changes, lastDay, settled>>
  BY DEF Dismiss
<1>2. PICK from \in [insights' -> insights] :
        \A n \in insights' :
          /\ Key(n) = Key(from[n]) /\ n.run = from[n].run /\ DOMAIN n = DOMAIN from[n]
          /\ n.type = from[n].type /\ n.subject = from[n].subject
          /\ n.evidence = from[n].evidence
          /\ n.status = from[n].status \/ n.status = "dismissed"
          /\ \A m \in insights' : from[n] = from[m] => n = m
  BY DismissIs
<1>3. Keys(insights) \subseteq Keys(insights')
  BY DismissIs
<1>4. Version' = Version /\ Calls' = Calls
  BY <1>1, SameFacts
<1>5. Typed'
  <2>1. ASSUME NEW n \in insights'
        PROVE  /\ DOMAIN n = {"type", "subject", "evidence", "run", "status"}
               /\ n.run \in Runs /\ run'[n.run].pc = "done" /\ n.status \in {"active", "dismissed"}
    <3>1. from[n] \in insights
      BY <1>2
    <3> QED BY <1>1, <1>2, <3>1 DEF IInv, Typed
  <2> QED BY <1>1, <1>4, <2>1 DEF IInv, Typed, Committed
<1>6. Late(insights')
  BY <1>2 DEF IInv, Late
<1>7. ASSUME NEW n \in insights', NEW m \in insights', n # m, Key(n) = Key(m)
      PROVE  n.run # m.run /\ n.run \notin run'[m.run].after
  <2>1. from[n] \in insights /\ from[m] \in insights /\ from[n] # from[m]
    BY <1>2, <1>7
  <2>2. Key(from[n]) = Key(from[m]) /\ n.run = from[n].run /\ m.run = from[m].run
    BY <1>2, <1>7
  <2> QED BY <1>1, <2>1, <2>2 DEF IInv, DuplicatesOverlap
<1>8. DuplicatesOverlap'
  BY <1>7 DEF DuplicatesOverlap
<1>9. ASSUME NEW q \in Runs, Working(run'[q]) PROVE Sound(run[q])'
  <2>1. Sound(run'[q])
    BY <1>1, <1>9 DEF IInv
  <2>2. ASSUME run'[q].pc = "insert", NEW n \in insights', n.run \in run'[q].after
        PROVE  Key(n) \in run'[q].keys
    <3>1. from[n] \in insights /\ Key(n) = Key(from[n]) /\ n.run = from[n].run
      BY <1>2
    <3> QED BY <2>1, <2>2, <3>1 DEF Sound
  <2> HIDE DEF Sound
  <2> QED BY <1>1, <1>3, <2>1, <2>2, SoundStays
<1>10. ASSUME NEW q \in Runs
       PROVE  /\ run'[q].keys \subseteq Keys(insights')
              /\ IF Working(run'[q]) THEN Sound(run[q])' ELSE Idle(run'[q])
  BY <1>1, <1>3, <1>9 DEF IInv
<1>11. settled' = Version' => Keys(Calls') \subseteq Keys(insights')
  BY <1>1, <1>3, <1>4 DEF IInv
<1> QED
  BY <1>5, <1>6, <1>8, <1>10, <1>11 DEF IInv, Working, Idle
-------------------------------------------------------------------------------
(* The invariant *)

LEMMA InitHolds == Init => IInv
<1> SUFFICES ASSUME Init PROVE IInv
  OBVIOUS
<1>1. /\ today = FirstDay /\ insights = {} /\ run = [r \in Runs |-> NewRun]
      /\ changes = 0 /\ lastDay = NoValue /\ settled = 0
      /\ data = [txns |-> Txns \cap Opening, invoices |-> Invoices \cap Opening,
                 balance |-> OpeningBalance, enabled |-> Ids(Commitments), forecasts |-> <<>>]
  BY DEF Init
<1>2. today \in Nat \ {0} /\ today \in FirstDay..LastDay /\ Version = today
  BY <1>1, CalendarOK DEF Version
<1>3. \A r \in Runs : run[r] = NewRun
  BY <1>1
<1>4. SessionOK(NewRun) /\ Idle(NewRun) /\ ~Working(NewRun) /\ NewRun.keys = {}
  BY DEF SessionOK, Idle, Working, NewRun, Fields
<1>5. Typed
  <2>1. /\ DOMAIN data = {"txns", "invoices", "balance", "enabled", "forecasts"}
        /\ data.txns \subseteq Txns /\ data.invoices \subseteq Invoices
    BY <1>1
  <2>2. run = [r \in Runs |-> run[r]]
    BY <1>1
  <2> QED BY <1>1, <1>2, <1>3, <1>4, <2>1, <2>2 DEF Typed, SessionOK
<1>6. settled # Version
  BY <1>1, <1>2
<1>7. Late(insights) /\ DuplicatesOverlap
  BY <1>1 DEF Late, DuplicatesOverlap
<1>8. \A r \in Runs : run[r].keys \subseteq Keys(insights) /\ ~Working(run[r]) /\ Idle(run[r])
  BY <1>3, <1>4
<1> QED
  BY <1>5, <1>6, <1>7, <1>8 DEF IInv

LEMMA NextKeeps == IInv /\ [Next]_vars => IInv'
<1> SUFFICES ASSUME IInv, [Next]_vars PROVE IInv'
  OBVIOUS
<1>1. CASE Tick
  BY <1>1, TickKeeps
<1>2. CASE \/ \E t \in Txns : ImportTransaction(t)
           \/ \E i \in Invoices : ImportInvoice(i)
           \/ \E b \in Balances : SetBalance(b)
           \/ \E c \in Commitments : ToggleCommitment(c)
           \/ \E w \in Outlooks : ComputeForecast(w)
  BY <1>2, ChangesKeep
<1>3. ASSUME NEW r \in Runs, StartRun(r) \/ Load(r) \/ ReadKeys(r) \/ CommitRun(r) \/ LoseRun(r)
      PROVE  IInv'
  BY <1>3, StartKeeps, LoadKeeps, ReadKeep, CommitKeeps, LoseKeeps
<1>4. ASSUME NEW i \in insights, Dismiss(i) PROVE IInv'
  BY <1>4, DismissKeeps
<1>5. CASE UNCHANGED vars
  <2>1. UNCHANGED <<today, data, insights, run, changes, lastDay, settled>>
    BY <1>5 DEF vars
  <2>2. /\ Version' = Version /\ Calls' = Calls
        /\ \A k \in 1..6 : Detect(Loads[k], Current)' = Detect(Loads[k], Current)
    BY <2>1, SameFacts
  <2>3. \A r \in Runs : Sound(run[r]) => Sound(run[r])'
    BY <2>1, <2>2 DEF Sound, Loaded
  <2>4. Typed'
    BY <2>1, <2>2 DEF IInv, Typed, Committed
  <2> QED BY <2>1, <2>2, <2>3, <2>4 DEF IInv, DuplicatesOverlap, Working, Idle
<1> QED
  BY <1>1, <1>2, <1>3, <1>4, <1>5 DEF Next
-------------------------------------------------------------------------------
(* Theorems *)

\* The invariant holds throughout: of the calls of run_all and the requests around them
\* nothing leads out of it.
THEOREM Invariance == Spec => []IInv
<1> QED
  BY InitHolds, NextKeeps, PTL DEF Spec

\* Only a working call holds facts, findings and keys; the keys it has read are those of
\* insights; every insight is of a run that committed.
THEOREM TypeCorrect == Spec => []TypeOK
<1>1. IInv => TypeOK
  <2> SUFFICES ASSUME IInv PROVE TypeOK
    OBVIOUS
  <2>1. /\ data.txns \subseteq Txns /\ data.invoices \subseteq Invoices
        /\ today \in FirstDay..LastDay
        /\ \A n \in insights : run[n.run].pc = "done" /\ n.status \in {"active", "dismissed"}
    BY DEF IInv, Typed
  <2>2. ASSUME NEW r \in Runs
        PROVE  /\ run[r].next \in 1..7 /\ run[r].unpaid \subseteq Invoices
               /\ run[r].pc \notin {"load", "insert"} =>
                    run[r].found = {} /\ run[r].keys = {} /\ run[r].today = NoValue
               /\ run[r].keys \subseteq {Key(n) : n \in insights}
    BY DEF IInv, Typed, Working, Idle, Keys
  <2>3. Len(Loads) + 1 = 7
    BY LoadsAre
  <2> QED BY <2>1, <2>2, <2>3 DEF TypeOK
<1> QED
  BY <1>1, Invariance, PTL

\* Two insights of one key come from runs that overlapped: each read the keys before the
\* other committed.  The dedupe of run_all fails in no other way.
THEOREM OnlyOverlapDuplicates == Spec => []DuplicatesOverlap
<1>1. IInv => DuplicatesOverlap
  BY DEF IInv
<1> QED
  BY <1>1, Invariance, PTL

\* A call of run_all goes from its inserts to done by its commit alone.
LEMMA CompletesByCommit ==
  ASSUME IInv, [Next]_vars, NEW r \in Runs, run[r].pc = "insert", run'[r].pc = "done"
  PROVE  CommitRun(r)
<1>1. run' # run
  OBVIOUS
<1>2. \A q \in Runs : q # r => \A s : run' = [run EXCEPT ![q] = s] => run'[r] = run[r]
  BY DEF IInv, Typed
<1>3. \A s : run' = [run EXCEPT ![r] = s] => s.pc = "done"
  BY DEF IInv, Typed
<1>4. PICK q \in Runs : StartRun(q) \/ Load(q) \/ ReadKeys(q) \/ CommitRun(q) \/ LoseRun(q)
  BY <1>1 DEF Next, vars, Tick, ImportTransaction, ImportInvoice, SetBalance, ToggleCommitment,
              ComputeForecast, Change, Dismiss
<1>5. \E s : run' = [run EXCEPT ![q] = s]
  BY <1>4 DEF StartRun, Load, ReadKeys, CommitRun, LoseRun
<1>6. q = r
  BY <1>2, <1>5
<1>7. ~StartRun(r) /\ ~Load(r) /\ ~ReadKeys(r)
  BY DEF StartRun, Load, ReadKeys
<1>8. ~LoseRun(r)
  <2> SUFFICES ASSUME LoseRun(r) PROVE FALSE
    OBVIOUS
  <2>1. run' = [run EXCEPT ![r] = Ended(run[r], "failed")]
    BY DEF LoseRun
  <2>2. Ended(run[r], "failed").pc = "failed"
    BY EndedIs
  <2> QED BY <1>3, <2>1, <2>2
<1> QED
  BY <1>4, <1>6, <1>7, <1>8

\* Running again over facts that a run has seen throughout adds nothing, for any facts and
\* any thresholds, even when insights have been dismissed since.
THEOREM RerunsAddNothing == Spec => RerunAddsNothing
<1>1. ASSUME IInv, [Next]_vars, NEW r \in Runs, run[r].pc = "insert", run'[r].pc = "done",
             run[r].repeats, run[r].steady
      PROVE  insights' = insights
  <2>1. CommitRun(r)
    BY <1>1, CompletesByCommit
  <2>2. PICK created :
          /\ insights' = insights \cup {CommitRow(r, c) : c \in created}
          /\ created \subseteq run[r].found
          /\ \A c \in created : Key(c) \notin run[r].keys
    BY <1>1, <2>1, CommitIs
  <2>3. Keys(run[r].found) \subseteq run[r].keys
    BY <1>1 DEF IInv, Working, Sound
  <2>4. created = {}
    BY <2>2, <2>3 DEF Keys
  <2> QED BY <2>2, <2>4
<1>2. IInv /\ [Next]_vars =>
        [\A r \in Runs :
           (run[r].pc = "insert" /\ run'[r].pc = "done" /\ run[r].repeats /\ run[r].steady)
             => insights' = insights]_vars
  BY <1>1
<1> QED
  BY <1>2, Invariance, PTL DEF Spec, RerunAddsNothing

\* As long as a run commits every day, every invoice that a run finds unpaid and due since
\* the run before is reported, whatever else there is.
THEOREM DailyRunsReport == Spec => DailyRunsMissNothing
<1>1. ASSUME IInv, [Next]_vars, NEW r \in Runs, Completes(r), lastDay # NoValue,
             run[r].today <= lastDay + 1
      PROVE  Reported(r)
  <2>1. CommitRun(r) /\ Sound(run[r]) /\ lastDay \in Nat
    BY <1>1, CompletesByCommit DEF Completes, IInv, Typed, Working
  <2>2. Late(insights') /\ Keys(run[r].found) \subseteq Keys(insights')
    BY <1>1, <2>1, CommitIs, CommitKeeps DEF IInv
  <2>3. ASSUME NEW i \in run[r].unpaid, i.due \in (lastDay + 1)..run[r].today
        PROVE  \E n \in insights' : n.type = "late_invoice" /\ n.subject = i.id
    <3> DEFINE f == Finding("late_invoice", i.id, {i.id})
    <3>1. run[r].today \in Nat
      BY <2>1 DEF Sound
    <3>2. DueInWindow(i.due, run[r].today)
      BY <1>1, <2>1, <2>3, <3>1 DEF DueInWindow
    <3>3. f \in run[r].found
      BY <2>1, <3>2 DEF Sound
    <3>4. f.type = "late_invoice" /\ f.evidence = {i.id}
      BY FindingIs
    <3> HIDE DEF f
    <3>5. PICK n \in insights' : Key(n) = Key(f)
      BY <2>2, <3>3 DEF Keys
    <3>6. n.type = "late_invoice" /\ n.evidence = {i.id}
      BY <3>4, <3>5 DEF Key
    <3>7. n.evidence = {n.subject}
      BY <2>2, <3>6 DEF Late
    <3> QED BY <3>6, <3>7
  <2> QED BY <2>3 DEF Reported
<1>2. IInv /\ [Next]_vars =>
        [\A r \in Runs : Completes(r) /\ lastDay # NoValue /\ run[r].today <= lastDay + 1
           => Reported(r)]_vars
  BY <1>1
<1> QED
  BY <1>2, Invariance, PTL DEF Spec, DailyRunsMissNothing
===============================================================================
