--------------------------- MODULE CustomerDeposit ---------------------------
(***************************************************************************)
(* Customer deposits (lib/accounting/deposit-service.ts) together with the *)
(* payment ledger they settle invoices in.  Money is taken for an order    *)
(* before it is invoiced and held as a liability; it is applied to         *)
(* invoices by payment rows of its own, or refunded; and reversing such a  *)
(* payment opens the deposit again (payment-reversal.server.ts).  All of   *)
(* these are serializable transactions, and so are single steps here.      *)
(*                                                                         *)
(* Abstractions: as in PaymentLedger.  A receipt is its idempotency key;   *)
(* customers match, invoices are posted, and the order's lines are its     *)
(* value.                                                                  *)
(***************************************************************************)
EXTENDS PaymentLedger

CONSTANTS
  Deposits,
  Value,          \* deposits.total_value
  Receipts,       \* idempotency keys of the receipts users submit
  ReceiptFor,     \* the deposit a receipt is for
  ReceiptAmount,  \* the amount the user typed
  NoDeposit

ASSUME DepositAssumption ==
  /\ IsFiniteSet(Receipts) /\ Value \in [Deposits -> Nat \ {0}]
  /\ ReceiptFor \in [Receipts -> Deposits]
  /\ ReceiptAmount \in [Receipts -> Nat \ {0}]
  /\ NoDeposit \notin Deposits

VARIABLES
  status,    \* deposits.status
  balance,   \* deposits.balance: what the customer has still to pay in
  receipt,   \* deposit_payments of type receipt: amount under each key
  refunded,  \* deposit_payments of type refund: their sum
  use        \* deposit_applications: what a payment row applied

depositVars == <<status, balance, receipt, refunded, use>>
allVars == <<vars, depositVars>>

(* upTo is the part of the payment's idempotency key that tells two        *)
(* applications of a deposit to one invoice apart.                         *)
Uses == [deposit : Deposits, invoice : Invoices, upTo : Nat,
         status : {"applied", "reversed"}]
NoUse == [deposit |-> NoDeposit]

-----------------------------------------------------------------------------
(* The sums each transaction takes over the rows of a deposit. *)

Received(d) ==
  SumFunction([k \in {j \in Receipts : ReceiptFor[j] = d} |-> receipt[k]])

UsesOf(d) == {p \in Payments : use[p].deposit = d}
AppliedBy(d) == {p \in UsesOf(d) : use[p].status = "applied"}
Applied(d) == SumFunction([p \in AppliedBy(d) |-> amount[p]])

AvailableIfKept(d) == Received(d) - Applied(d)  \* mutant: refunds forgotten
Available(d) == Received(d) - refunded[d] - Applied(d)

UsableAlone(d, i) == Available(d)               \* mutant: residual not looked at
Usable(d, i) == Least(Available(d), Residual(i))

StatusOf(left) == IF left = 0 THEN "fully_paid" ELSE "partially_paid"

-----------------------------------------------------------------------------
DepositInit ==
  /\ Init
  /\ status = [d \in Deposits |-> "none"]
  /\ balance = [d \in Deposits |-> 0]
  /\ receipt = [k \in Receipts |-> 0]
  /\ refunded = [d \in Deposits |-> 0]
  /\ use = [p \in Payments |-> NoUse]

(* createDepositWithReceipt.  A key that already has its receipt returns   *)
(* that receipt's deposit and changes nothing, here and in AddReceipt.     *)
CreateDeposit(k) ==
  LET d == ReceiptFor[k]
  IN /\ receipt[k] = 0 /\ status[d] = "none"
     /\ ReceiptAmount[k] <= Value[d]
     /\ receipt' = [receipt EXCEPT ![k] = ReceiptAmount[k]]
     /\ balance' = [balance EXCEPT ![d] = Value[d] - ReceiptAmount[k]]
     /\ status' = [status EXCEPT ![d] = StatusOf(balance'[d])]
     /\ UNCHANGED <<vars, refunded, use>>

TakenWhole(k) == ReceiptAmount[k]               \* mutant: not cut to the balance
Taken(k) == Least(ReceiptAmount[k], balance[ReceiptFor[k]])

AddReceipt(k) ==
  LET d == ReceiptFor[k]
  IN /\ receipt[k] = 0 /\ status[d] = "partially_paid"
     /\ Taken(k) > 0
     /\ receipt' = [receipt EXCEPT ![k] = Taken(k)]
     /\ balance' = [balance EXCEPT ![d] = @ - Taken(k)]
     /\ status' = [status EXCEPT ![d] = StatusOf(balance'[d])]
     /\ UNCHANGED <<vars, refunded, use>>

(* The unique key of the payment row an application writes. *)
UseKeyFree(d, i, upTo) == \A p \in UsesOf(d) : use[p].invoice # i \/ use[p].upTo # upTo

CompletedWhenPaid(d, left) == balance[d] = 0    \* mutant: money left over
Completed(d, left) == left = 0 /\ balance[d] = 0

(* applyDepositToInvoice, for an amount or for all that fits.  The status  *)
(* of the deposit is not looked at: what a partial refund left is usable.  *)
ApplyDeposit(d, i, a) ==
  LET upTo == Applied(d) + a
  IN /\ status[d] # "none"
     /\ UseKeyFree(d, i, upTo)
     /\ \E p \in Payments :
          /\ NewRow(p, NoKey, a)
          /\ alloc' = [alloc EXCEPT ![p][i] = a]
          /\ entries' = [entries EXCEPT ![p] = 1]
          /\ journalId' = [journalId EXCEPT ![p] = 1]
          /\ use' = [use EXCEPT ![p] =
               [deposit |-> d, invoice |-> i, upTo |-> upTo, status |-> "applied"]]
     /\ amountPaid' = [amountPaid EXCEPT ![i] = Allocated(i) + a]
     /\ status' = [status EXCEPT ![d] =
          IF Completed(d, Available(d) - a) THEN "completed" ELSE @]
     /\ UNCHANGED <<reversed, credited, hand, balance, receipt, refunded>>

(* refundDeposit: any part of what is not applied; the deposit is closed.  *)
RefundDeposit(d, a) ==
  /\ refunded' = [refunded EXCEPT ![d] = @ + a]
  /\ status' = [status EXCEPT ![d] = "cancelled"]
  /\ UNCHANGED <<vars, balance, receipt, use>>

(* reverseInvoicePayment: the applications the payment made are reversed,  *)
(* and the deposits they completed are open again.                         *)
ReversedUseKept(p) == use                       \* mutant: application left applied
ReversedUse(p) ==
  IF use[p] = NoUse THEN use ELSE [use EXCEPT ![p].status = "reversed"]

ReopenedNever(p) == status                      \* mutant: deposit stays completed
Reopened(p) == [d \in Deposits |->
  IF use[p].deposit = d /\ status[d] = "completed" THEN StatusOf(balance[d]) ELSE status[d]]

ReversePayment(p) ==
  /\ Reverse(p)
  /\ use' = ReversedUse(p)
  /\ status' = Reopened(p)
  /\ UNCHANGED <<balance, receipt, refunded>>

(* What else happens in the ledger leaves deposits alone. *)
LedgerStep ==
  /\ \/ \E h \in Handlers, k \in Submissions : ReadInvoice(h, k)
     \/ \E h \in Handlers : CommitInvoicePayment(h) \/ LeaveInvoicePayment(h)
     \/ \E k \in Submissions : RecordReceipt(k)
     \/ \E p \in Payments : Allocate(p)
     \/ \E i \in Invoices : \E a \in 1..Total[i] : CreditInvoice(i, a)
  /\ UNCHANGED depositVars

DepositNext ==
  \/ \E k \in Receipts : CreateDeposit(k) \/ AddReceipt(k)
  \/ \E d \in Deposits, i \in Invoices : \E a \in 1..Usable(d, i) : ApplyDeposit(d, i, a)
  \/ \E d \in Deposits : \E a \in 1..Available(d) : RefundDeposit(d, a)
  \/ \E p \in Payments : ReversePayment(p)
  \/ LedgerStep

DepositSpec == DepositInit /\ [][DepositNext]_allVars

-----------------------------------------------------------------------------
DepositTypeOK ==
  /\ TypeOK
  /\ status \in [Deposits ->
       {"none", "partially_paid", "fully_paid", "completed", "cancelled"}]
  /\ \A d \in Deposits : balance[d] \in 0..Value[d]
  /\ receipt \in [Receipts -> Nat]
  /\ refunded \in [Deposits -> Nat]
  /\ use \in [Payments -> Uses \cup {NoUse}]

\* A customer's deposit is spent once: applications, partial refunds and
\* applications taken back never use more than was paid in, and the customer
\* never pays in more than the order's value.
SpentOnce ==
  \A d \in Deposits :
    /\ Applied(d) + refunded[d] <= Received(d)
    /\ Received(d) <= Value[d]

\* The deposits account agrees with the deposit: receipts, less refunds, less
\* the application journals that stand, is what can still be used or refunded.
LiabilityAgrees ==
  \A d \in Deposits :
    LET booked == SumFunction([p \in UsesOf(d) |->
          amount[p] * Cardinality((1..entries[p]) \ reversed[p])])
    IN Received(d) - refunded[d] - booked = Available(d)

\* A completed deposit has nothing left to pay in, use or refund, although
\* applications are reversed and a deposit refunded in part is used up later.
CompletedIsSettled ==
  \A d \in Deposits : status[d] = "completed" => Available(d) = 0 /\ balance[d] = 0
=============================================================================
