----------------------------- MODULE MCInsights -----------------------------
(* Instances of Insights for TLC: a week of two days, a month of four. *)
EXTENDS Insights, TLC

CONSTANTS nightly, manual

Spend(id, vendor, day, amount) ==
  [id |-> id, vendor |-> vendor, day |-> day, amount |-> -amount]

\* Two vendors whose spend doubles in month 2, days 8 to 11.
Ledger == {Spend(1, "aws", 5, 100), Spend(2, "aws", 8, 200),
           Spend(3, "figma", 6, 100), Spend(4, "figma", 8, 200), Spend(5, "aws", 9, 20)}

Bills == {[id |-> 11, due |-> 11, status |-> "open"], [id |-> 12, due |-> 11, status |-> "paid"]}

OpeningRows == {row \in Ledger \cup Bills : row.id \notin {5, 12}}

Subscriptions == {[id |-> 21, due |-> 12, amount |-> 500]}

Symmetry == Permutations(Runs)
===============================================================================
