---------------------------- MODULE InsightRules ----------------------------
(***************************************************************************)
(* The five insight generators and the loaders that feed them: from the    *)
(* rows of one organisation and a day to the findings called for.  A       *)
(* finding keeps what its dedupe key and its reader see: type, subject,    *)
(* evidence ids.  Amounts are integers, days are numbers.                  *)
(***************************************************************************)
EXTENDS Integers, FiniteSets, FiniteSetsExt

CONSTANTS WeekLength, MonthLength,  \* days of a week, days of a month
          CashDays,                 \* days of transactions read for the cash series (21)
          VendorDays,               \* days of transactions read for the vendors (400)
          MinBaselineMonths,        \* months of history a spike needs (3)
          MinBaselineAmount,        \* and their average (100)
          RenewalDays,              \* lookahead for renewals (30)
          MinRenewal,               \* smallest renewal worth a finding (500)
          RunwayThreshold,          \* weeks of runway that matter (4)
          TopOutflows,              \* outflows cited for a drop (10)
          NoValue                   \* a value that is not known

ASSUME LengthsPositive == {WeekLength, MonthLength, MinBaselineMonths, TopOutflows} \subseteq Nat \ {0}

Finding(type, subject, evidence) == [type |-> type, subject |-> subject, evidence |-> evidence]

\* The dedupe key; sha256 over the sorted ids tells apart exactly the sets of ids.
Key(finding) == <<finding.type, finding.evidence>>

WeekOf(day) == day \div WeekLength

MonthOf(day) == day \div MonthLength

Since(txns, day) == {t \in txns : t.day >= day}

Ids(rows) == {r.id : r \in rows}

Total(txns) == MapThenSumSet(LAMBDA t : t.amount, txns)

\* The n largest outflows; ties go to the smaller id.
Largest(n, outflows) ==
  {t \in outflows :
     Cardinality({u \in outflows : u.amount < t.amount \/ (u.amount = t.amount /\ u.id < t.id)}) < n}
-------------------------------------------------------------------------------
(* Cash: the week's end before the latest is found by undoing the latest week *)

CashDropped(before, after) ==
  IF before <= 0 THEN after < before ELSE 4 * (before - after) >= before

\* A balance of zero counts as no balance, as in `if profile and profile.cash_balance`.
CashFindings(balance, txns, today) ==
  LET recent == Since(txns, today - CashDays)
      weeks == {WeekOf(t.day) : t \in recent}
      latest == {t \in recent : WeekOf(t.day) = Max(weeks)}
      outflows == {t \in latest : t.amount < 0}
  IN IF balance \in {NoValue, 0} \/ Cardinality(weeks) < 2 THEN {}
     ELSE IF CashDropped(balance - Total(latest), balance)
          THEN {Finding("cash_drop", "cash", Ids(Largest(TopOutflows, outflows)))}
          ELSE {}
-------------------------------------------------------------------------------
(* Invoices, vendors, commitments, forecasts *)

\* Mutant of DueInWindow: the day itself is left for tomorrow's run.
DueInWindowExclusive(due, today) == today - 1 < due /\ due < today

DueInWindow(due, today) == today - 1 < due /\ due <= today

LateFindings(unpaid, today) ==
  {Finding("late_invoice", i.id, {i.id}) : i \in {j \in unpaid : DueInWindow(j.due, today)}}

\* baseline: the spend of each of at most twelve months before the latest one.
Spiked(baseline, months, latest) ==
  /\ baseline >= MinBaselineAmount * months
  /\ 2 * (latest * months - baseline) >= baseline

\* The evidence is the spend of the month of today, which need not be the latest month
\* the vendor has.
VendorFindings(txns, today) ==
  LET spend == {t \in Since(txns, today - VendorDays) : t.amount < 0}
      Of(v) == {t \in spend : t.vendor = v}
      Months(v) == {MonthOf(t.day) : t \in Of(v)}
      In(v, months) == {t \in Of(v) : MonthOf(t.day) \in months}
      Earlier(v) == Months(v) \ {Max(Months(v))}
      Trailing(v) == {m \in Earlier(v) : Cardinality({n \in Earlier(v) : n > m}) < 12}
      Spikes(v) ==
        /\ Cardinality(Earlier(v)) >= MinBaselineMonths
        /\ Spiked(-Total(In(v, Trailing(v))), Cardinality(Trailing(v)),
                  -Total(In(v, {Max(Months(v))})))
  IN {Finding("vendor_spike", v, Ids(In(v, {MonthOf(today)}))) :
        v \in {w \in {t.vendor : t \in spend} : Spikes(w)}}

RenewalFindings(commitments, today) ==
  {Finding("commitment_renewal", c.id, {c.id}) :
     c \in {d \in commitments : /\ d.enabled /\ d.due # NoValue
                                /\ today <= d.due /\ d.due <= today + RenewalDays
                                /\ d.amount >= MinRenewal}}

\* Every row of a stored forecast cites the same rows, so the top three cite them too.
RunwayFindings(previous, latest) ==
  IF NoValue \in {previous, latest} THEN {}
  ELSE IF NoValue \in {previous.weeks, latest.weeks} THEN {}
  ELSE IF (latest.weeks - previous.weeks) \in (1 - RunwayThreshold)..(RunwayThreshold - 1) THEN {}
  ELSE {Finding("runway_change", "runway", latest.evidence)}
===============================================================================
