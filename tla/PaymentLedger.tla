---------------------------- MODULE PaymentLedger ----------------------------
(***************************************************************************)
(* Payments on customer invoices (lib/accounting/payment-allocations.ts,   *)
(* payment-reversal.server.ts, credit-note-service.ts and their routes).   *)
(* A payment row is recorded with its allocations to invoices, its money   *)
(* may be allocated later, and a payment registered by mistake is reversed. *)
(* Each of these is one serializable transaction; the invoice screen's     *)
(* route reads the balance before its transaction starts.                  *)
(*                                                                         *)
(* Abstractions: money is a whole number of cents, so the 0.009 tolerances *)
(* of the code are exact comparisons; serializable transactions that Prisma *)
(* retries are single steps; permissions, fiscal locks and invoice status  *)
(* only decide whether a request is made at all; a payment matched to a    *)
(* bank statement line, which cannot be reversed, is one never reversed.   *)
(***************************************************************************)
EXTENDS Integers, Sequences, FiniteSets, Functions

CONSTANTS
  Invoices,     \* posted customer invoices
  Total,        \* totalAmount of each
  Submissions,  \* payments a user submits: one idempotency key each
  InvoiceOf,    \* the invoice a submission pays
  AmountOf,     \* the amount the user typed
  Outstanding,  \* the submissions made on POST /api/payments
  Handlers,     \* requests being handled: retries and second clicks included
  Repeats,      \* whether a request may name the same invoice twice
  MaxPayments,  \* bound: payment rows
  MaxEntries,   \* bound: journal entries of one payment
  NoKey         \* the key of a row no submission made

ASSUME LedgerAssumption ==
  /\ IsFiniteSet(Invoices) /\ Total \in [Invoices -> Nat]
  /\ Outstanding \subseteq Submissions
  /\ InvoiceOf \in [Submissions -> Invoices]
  /\ AmountOf \in [Submissions -> Nat \ {0}]
  /\ Repeats \in BOOLEAN
  /\ MaxPayments \in Nat /\ MaxEntries \in Nat \ {0}
  /\ NoKey \notin Submissions

VARIABLES
  state,       \* payments: whether the row exists and is_voided
  key,         \* payments.idempotency_key
  amount,      \* payments.amount
  alloc,       \* payment_allocations: amount of each payment on each invoice
  amountPaid,  \* invoices.amount_paid
  entries,     \* how many journal entries were posted for a payment
  journalId,   \* payments.journal_id, as a position in its entries; 0 is null
  reversed,    \* which of its entries have is_reversed
  credited,    \* what credit notes took off each invoice
  hand         \* what the invoice route read before its transaction

paymentVars == <<state, key, amount>>
rowVars == <<paymentVars, alloc, amountPaid>>
journalVars == <<entries, journalId, reversed>>
vars == <<rowVars, journalVars, credited, hand>>

Payments == 1..MaxPayments
Idle == [key |-> NoKey, capped |-> 0]
Nothing == [i \in Invoices |-> 0]

-----------------------------------------------------------------------------
(* What the transactions compute from the rows. *)

Live == {p \in Payments : state[p] = "recorded"}

(* The non-voided allocations of an invoice, and of a payment. *)
PaidBy(i, a, ps) == SumFunction([p \in ps |-> a[p][i]])
Allocated(i) == PaidBy(i, alloc, Live)
Used(p) == SumFunction(alloc[p])

Most(x, y) == IF x > y THEN x ELSE y
Least(x, y) == IF x < y THEN x ELSE y

ResidualOfTotal(i) == Total[i]                 \* mutant: other payments forgotten
Residual(i) == Most(0, Total[i] - Allocated(i))

UnallocatedWhole(p) == amount[p]       \* mutant: ceiling left at the amount
Unallocated(p) == Most(0, amount[p] - Used(p))

(* A request's allocation lines: an invoice and a positive amount each. *)
Line(most) == [invoice : Invoices, amount : 1..most]
Lines(most) == {<<>>} \cup {<<l>> : l \in Line(most)}
  \cup {<<l, m>> : l \in Line(most), m \in Line(most)}
Requests(most) ==
  {ls \in Lines(most) : Repeats \/ Len(ls) < 2 \/ ls[1].invoice # ls[2].invoice}

OnInvoice(ls, i) ==
  SumFunction([n \in DOMAIN ls |-> IF ls[n].invoice = i THEN ls[n].amount ELSE 0])
LinesTotal(ls) == SumFunction([n \in DOMAIN ls |-> ls[n].amount])

(* validateAllocationTotals: each line is compared with the residual alone. *)
LinesValid(ls, ceiling) ==
  /\ LinesTotal(ls) <= ceiling
  /\ \A n \in DOMAIN ls : ls[n].amount <= Residual(ls[n].invoice)

(* The check recordPaymentWithAllocations makes on the new sums. *)
SumsFit(ls) == \A i \in Invoices :
  OnInvoice(ls, i) > 0 => Allocated(i) + OnInvoice(ls, i) <= Total[i]

(* Invoices that get an allocation have amountPaid set to the recount. *)
Recount(ls) == [i \in Invoices |->
  IF OnInvoice(ls, i) > 0 THEN Allocated(i) + OnInvoice(ls, i) ELSE amountPaid[i]]

-----------------------------------------------------------------------------
Init ==
  /\ state = [p \in Payments |-> "absent"]
  /\ key = [p \in Payments |-> NoKey]
  /\ amount = [p \in Payments |-> 0]
  /\ alloc = [p \in Payments |-> Nothing]
  /\ amountPaid = Nothing
  /\ entries = [p \in Payments |-> 0]
  /\ journalId = [p \in Payments |-> 0]
  /\ reversed = [p \in Payments |-> {}]
  /\ credited = Nothing
  /\ hand = [h \in Handlers |-> Idle]

Recorded(k) == \E p \in Live : key[p] = k    \* findFirst on the key
KeyTakenLive(k) == Recorded(k)                 \* mutant: no unique index
KeyTaken(k) == \E p \in Payments : key[p] = k  \* the unique index

(* A new row is the next one: rows are never deleted. *)
NextRow(p) == /\ state[p] = "absent"
              /\ \A q \in 1..(p - 1) : state[q] # "absent"

NewRow(p, k, a) ==
  /\ NextRow(p)
  /\ state' = [state EXCEPT ![p] = "recorded"]
  /\ key' = [key EXCEPT ![p] = k]
  /\ amount' = [amount EXCEPT ![p] = a]

(* tryPostPaymentJournalInTx: the journal is posted, or refused and the    *)
(* payment stays.  A posted journal becomes the payment's journalId.       *)
PostJournal(p) ==
  \/ UNCHANGED journalVars
  \/ /\ entries[p] < MaxEntries
     /\ entries' = [entries EXCEPT ![p] = @ + 1]
     /\ journalId' = [journalId EXCEPT ![p] = entries[p] + 1]
     /\ UNCHANGED reversed

(* recordPaymentWithAllocations, once it has neither returned the recorded *)
(* payment nor met the unique index on the key.                            *)
Record(p, k, a, ls) ==
  /\ ~ Recorded(k) /\ ~ KeyTaken(k)
  /\ LinesValid(ls, a) /\ SumsFit(ls)
  /\ NewRow(p, k, a)
  /\ alloc' = [alloc EXCEPT ![p] = [i \in Invoices |-> OnInvoice(ls, i)]]
  /\ amountPaid' = Recount(ls)
  /\ PostJournal(p)

(* POST /api/invoices/[id]/payments, up to the transaction: the balance is *)
(* read and the amount capped to it.                                       *)
ReadInvoice(h, k) ==
  /\ hand[h] = Idle /\ k \notin Outstanding
  /\ LET balance == Total[InvoiceOf[k]] - amountPaid[InvoiceOf[k]]
     IN /\ balance > 0
        /\ hand' = [hand EXCEPT ![h] = [key |-> k, capped |-> Least(AmountOf[k], balance)]]
  /\ UNCHANGED <<rowVars, journalVars, credited>>

CommitInvoicePayment(h) ==
  /\ hand[h] # Idle
  /\ LET k == hand[h].key
         capped == hand[h].capped
     IN \E p \in Payments :
          Record(p, k, capped, <<[invoice |-> InvoiceOf[k], amount |-> capped]>>)
  /\ hand' = [hand EXCEPT ![h] = Idle]
  /\ UNCHANGED credited

(* The other ends of the transaction: the recorded payment is returned, or *)
(* it is refused (unique key, amount above the residual) and rolled back.  *)
LeaveInvoicePayment(h) ==
  /\ hand[h] # Idle
  /\ \/ KeyTaken(hand[h].key)
     \/ hand[h].capped > Residual(InvoiceOf[hand[h].key])
  /\ hand' = [hand EXCEPT ![h] = Idle]
  /\ UNCHANGED <<rowVars, journalVars, credited>>

(* POST /api/payments: a receipt with allocations below or equal to its    *)
(* amount, or with none.                                                   *)
RecordReceipt(k) ==
  /\ k \in Outstanding
  /\ \E p \in Payments, ls \in Requests(AmountOf[k]) : Record(p, k, AmountOf[k], ls)
  /\ UNCHANGED <<credited, hand>>

Allocatable(p) == p \in Live

(* POST /api/payments/[id]/allocations: allocatePayment. *)
Allocate(p) ==
  /\ Allocatable(p)
  /\ Unallocated(p) > 0
  /\ \E ls \in Requests(Unallocated(p)) \ {<<>>} :
       /\ LinesValid(ls, Unallocated(p))
       /\ alloc' = [alloc EXCEPT ![p] = [i \in Invoices |-> @[i] + OnInvoice(ls, i)]]
       /\ amountPaid' = Recount(ls)
  /\ PostJournal(p)
  /\ UNCHANGED <<paymentVars, credited, hand>>

(* createCustomerCreditNote: the part of the credit the invoice still owes *)
(* is applied by a payment row whose journal is the credit note's own.     *)
CreditInvoice(i, a) ==
  LET applied == Least(a, Residual(i))
  IN /\ credited[i] + a <= Total[i]
     /\ credited' = [credited EXCEPT ![i] = @ + a]
     /\ UNCHANGED <<reversed, hand>>
     /\ \/ applied = 0 /\ UNCHANGED <<rowVars, entries, journalId>>
        \/ /\ applied > 0
           /\ \E p \in Payments :
                /\ NewRow(p, NoKey, applied)
                /\ alloc' = [alloc EXCEPT ![p][i] = applied]
                /\ entries' = [entries EXCEPT ![p] = 1]
                /\ journalId' = [journalId EXCEPT ![p] = 1]
           /\ amountPaid' = [amountPaid EXCEPT ![i] = Allocated(i) + applied]

(* reverseInvoicePayment: what the payment put on each invoice is taken    *)
(* off amountPaid, and the journal of the payment's journalId is reversed. *)
TakenOffWhole(p) == [i \in Invoices |->           \* mutant: the whole payment
  IF alloc[p][i] > 0 THEN Most(0, amountPaid[i] - amount[p]) ELSE amountPaid[i]]
EntriesNone(p) == {}                             \* mutant: taken for a vendor credit

TakenOff(p) == [i \in Invoices |-> Most(0, amountPaid[i] - alloc[p][i])]
EntriesToReverse(p) == {journalId[p]} \ {0}

Reverse(p) ==
  /\ p \in Live
  /\ \E i \in Invoices : alloc[p][i] > 0
  /\ state' = [state EXCEPT ![p] = "voided"]
  /\ amountPaid' = TakenOff(p)
  /\ reversed' = [reversed EXCEPT ![p] = @ \cup EntriesToReverse(p)]
  /\ UNCHANGED <<key, amount, alloc, entries, journalId, credited, hand>>

Next ==
  \/ \E h \in Handlers, k \in Submissions : ReadInvoice(h, k)
  \/ \E h \in Handlers : CommitInvoicePayment(h)
  \/ \E h \in Handlers : LeaveInvoicePayment(h)
  \/ \E k \in Submissions : RecordReceipt(k)
  \/ \E p \in Payments : Allocate(p)
  \/ \E i \in Invoices : \E a \in 1..Total[i] : CreditInvoice(i, a)
  \/ \E p \in Payments : Reverse(p)

Spec == Init /\ [][Next]_vars

-----------------------------------------------------------------------------
TypeOK ==
  /\ state \in [Payments -> {"absent", "recorded", "voided"}]
  /\ key \in [Payments -> Submissions \cup {NoKey}]
  /\ amount \in [Payments -> Nat]
  /\ alloc \in [Payments -> [Invoices -> Nat]]
  /\ amountPaid \in [Invoices -> Nat]
  /\ entries \in [Payments -> 0..MaxEntries]
  /\ journalId \in [Payments -> 0..MaxEntries]
  /\ reversed \in [Payments -> SUBSET (1..MaxEntries)]
  /\ credited \in [Invoices -> Nat]
  /\ hand \in [Handlers -> [key : Submissions \cup {NoKey}, capped : Nat]]

\* Payments, credit notes and later allocations made at the same time never
\* put more on an invoice than its total, although each of them decided how
\* much to put from a balance it read earlier.
NeverOverpaid == \A i \in Invoices : Allocated(i) <= Total[i]

\* amountPaid, which recording recounts and reversing subtracts from, is always
\* what the non-voided allocations of the invoice add up to.
PaidMatchesAllocations == \A i \in Invoices : amountPaid[i] = Allocated(i)

\* A submission has one payment row for ever: neither two requests at once nor
\* a retry that arrives after the payment was reversed make a second one.
OncePerKey ==
  \A p, q \in Payments :
    key[p] # NoKey /\ key[p] = key[q] => p = q

\* However often money is allocated from a payment, it is money it has.
WithinAmount == \A p \in Payments : Used(p) <= amount[p]

\* The journal follows the payment: no entry of a standing payment is reversed,
\* and of a reversed submission with at most one entry none is left standing.
EntriesFollow ==
  \A p \in Payments :
    /\ state[p] = "recorded" => reversed[p] = {}
    /\ state[p] = "voided" /\ key[p] # NoKey /\ entries[p] <= 1
         => reversed[p] = 1..entries[p]

\* A reversed payment is final: nothing is allocated from it, posted for it or
\* reversed again, and it never counts once more.
VoidedIsFinal ==
  [][\A p \in Payments : state[p] = "voided" =>
       /\ state'[p] = "voided" /\ key'[p] = key[p] /\ alloc'[p] = alloc[p]
       /\ entries'[p] = entries[p] /\ reversed'[p] = reversed[p]]_vars

-----------------------------------------------------------------------------
(* What the repository says of the ledger and the code does not do. *)

\* "The payment is not deleted: it is voided, its allocations reversed, its
\* receipt journal reversed" (payment-reversal.ts): no entry is left standing.
ReversedEntirely ==
  \A p \in Payments : state[p] = "voided" => reversed[p] = 1..entries[p]

-----------------------------------------------------------------------------
(* The ledger keeps the promises of a receivable account. *)

Standing(k) ==
  IF Recorded(k) THEN "received" ELSE IF KeyTaken(k) THEN "returned" ELSE "new"

Account == INSTANCE ReceivableAccount WITH
  Invoices <- Invoices, Total <- Total, Keys <- Submissions,
  owed <- [i \in Invoices |-> Total[i] - amountPaid[i]],
  standing <- [k \in Submissions |-> Standing(k)]

\* Every step of the ledger is a step of the account or changes nothing in it.
KeepsAccount == Account!Spec
=============================================================================
