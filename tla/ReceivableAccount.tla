-------------------------- MODULE ReceivableAccount --------------------------
(***************************************************************************)
(* What the payment ledger promises, without rows, journals or requests: a *)
(* submission is received at most once and, if returned, never again; money *)
(* received or applied only lowers what invoices owe, money returned only  *)
(* raises it, and an invoice owes between nothing and its total.           *)
(***************************************************************************)
EXTENDS Integers

CONSTANTS
  Invoices,
  Total,   \* what each invoice owes before any payment
  Keys     \* the submissions

VARIABLES
  owed,      \* what each invoice still owes
  standing   \* "new", "received" or "returned" for each submission

vars == <<owed, standing>>

Owing == {o \in [Invoices -> Int] : \A i \in Invoices : 0 <= o[i] /\ o[i] <= Total[i]}
Lowered == owed' \in Owing /\ \A i \in Invoices : owed'[i] <= owed[i]
Raised  == owed' \in Owing /\ \A i \in Invoices : owed'[i] >= owed[i]

Init == owed = Total /\ standing = [k \in Keys |-> "new"]

Receive(k) ==
  /\ standing[k] = "new"
  /\ Lowered
  /\ standing' = [standing EXCEPT ![k] = "received"]

(* Money already received, or a credit note, is applied. *)
Apply == Lowered /\ UNCHANGED standing

Return(k) ==
  /\ standing[k] = "received"
  /\ Raised
  /\ standing' = [standing EXCEPT ![k] = "returned"]

(* An applied credit is taken back: no submission is behind it. *)
TakeBack == Raised /\ UNCHANGED standing

Next == Apply \/ TakeBack \/ \E k \in Keys : Receive(k) \/ Return(k)

Spec == Init /\ [][Next]_vars
=============================================================================
