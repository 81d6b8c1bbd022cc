-------------------------- MODULE MCCustomerDeposit --------------------------
(* TLC instance of CustomerDeposit: one deposit paid in two receipts, two    *)
(* invoices it can be applied to, and payments and credit notes besides.     *)
EXTENDS CustomerDeposit, TLC

CONSTANTS i1, i2, s1, o1, d1, r1, r2

TwoInvoices == {i1, i2}
Totals == (i1 :> 2) @@ (i2 :> 1)
AllSubmissions == {s1, o1}
Invoice == (s1 :> i1) @@ (o1 :> i1)
Amount == (s1 :> 1) @@ (o1 :> 1)
OrderValue == (d1 :> 3)
TwoReceipts == {r1, r2}
Depositor == (r1 :> d1) @@ (r2 :> d1)
PaidIn == (r1 :> 2) @@ (r2 :> 2)
=============================================================================
