-------------------------- MODULE MCSalesInvoicing --------------------------
(* TLC instance of SalesInvoicing. *)
EXTENDS SalesInvoicing
=============================================================================
