-------------------------- MODULE MCInvoicePosting --------------------------
(* TLC instance of InvoicePosting: handlers are interchangeable.             *)
EXTENDS InvoicePosting, TLC

Interchangeable == Permutations(Handlers)
=============================================================================
