--------------------------- MODULE MCPaymentLedger ---------------------------
(* TLC instance of PaymentLedger: two invoices, a submission from the        *)
(* invoice screen and an outstanding receipt; handlers are interchangeable.  *)
EXTENDS PaymentLedger, TLC

CONSTANTS i1, i2, s1, o1

TwoInvoices == {i1, i2}
Totals == (i1 :> 3) @@ (i2 :> 1)
AllSubmissions == {s1, o1}
Invoice == (s1 :> i1) @@ (o1 :> i1)
Amount == (s1 :> 2) @@ (o1 :> 3)
Interchangeable == Permutations(Handlers)
=============================================================================
