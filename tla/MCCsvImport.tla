----------------------------- MODULE MCCsvImport -----------------------------
(* Instances of CsvImport for TLC. *)
EXTENDS CsvImport, TLC

CONSTANTS j1, j2, rent, fees, acme

Line(k, c, kind) == [key |-> k, customer |-> c, kind |-> kind]

\* Every transactions file of up to three lines of four kinds.
TransactionFiles ==
  LET lines == {Line(rent, NoCustomer, "good"), Line(fees, NoCustomer, "good"),
                Line(fees, NoCustomer, "unreadable"), Line(fees, NoCustomer, "unstorable")}
  IN UNION {[1..n -> lines] : n \in 1..3}

\* Files of up to three invoices, of one customer.
InvoiceFiles ==
  LET lines == {Line(rent, acme, "good"), Line(fees, acme, "good"),
                Line(fees, acme, "unreadable"), Line(fees, acme, "unstorable")}
  IN UNION {[1..n -> lines] : n \in 1..3}

Uploads == {TransactionFiles, InvoiceFiles}

Symmetry == Permutations(Jobs)
===============================================================================
