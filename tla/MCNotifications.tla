--------------------------- MODULE MCNotifications ---------------------------
(* Instances of Notifications for TLC. *)
EXTENDS Notifications, TLC

CONSTANTS daily, import1, import2

\* Spending, and invoices that become overdue, then critically so.
Figures == {Alert("spend_creep", "warning"), Alert("invoices_overdue", "warning"),
            Alert("invoices_overdue", "critical")}

Symmetry == Permutations(Runs)
===============================================================================
