------------------------- MODULE PaymentLedgerProofs -------------------------
(***************************************************************************)
(* What holds of the payment ledger for every set of invoices, submissions *)
(* and handlers.  Rows and journals (IInv): one row per idempotency key,   *)
(* journals that follow their payment, reversed payments that stay as they *)
(* are.  Money (MInv): amountPaid is the sum of the standing allocations   *)
(* and no payment is allocated above its amount.  Both together, while no  *)
(* request names an invoice twice: no invoice is overpaid, and the ledger  *)
(* implements ReceivableAccount.  Deposits (DInv): a row that applied one  *)
(* has all its money on one invoice and one entry standing as long as the  *)
(* application does; what was applied and refunded was paid in before.     *)
(***************************************************************************)
EXTENDS CustomerDeposit, SumLaws, TLAPS

(* What the rows look like, and the last entry posted is the journalId. *)
Shape ==
  /\ state \in [Payments -> {"absent", "recorded", "voided"}]
  /\ key \in [Payments -> Submissions \cup {NoKey}]
  /\ DOMAIN alloc = Payments
  /\ entries \in [Payments -> Nat]
  /\ reversed \in [Payments -> SUBSET Nat]
  /\ journalId = entries

(* A request holds the key of a submission. *)
HandKeys == DOMAIN hand = Handlers /\ \A h \in Handlers : hand[h].key \in Submissions \cup {NoKey}

(* A row that does not exist yet has no key and no entries. *)
FreshRows ==
  \A p \in Payments : state[p] = "absent" =>
    key[p] = NoKey /\ entries[p] = 0 /\ reversed[p] = {}

IInv == Shape /\ HandKeys /\ FreshRows /\ OncePerKey /\ EntriesFollow

-----------------------------------------------------------------------------
(* The four ways a step can touch the rows, sums and amounts left out. *)

QuietRows == UNCHANGED <<state, key, alloc, journalVars>>
OthersKept(p) ==
  DOMAIN alloc' = DOMAIN alloc /\ \A q \in Payments \ {p} : alloc'[q] = alloc[q]
Posts(p, n) ==
  /\ entries' = [entries EXCEPT ![p] = n]
  /\ journalId' = [journalId EXCEPT ![p] = n]
  /\ reversed' = reversed
Adds(p, k, n) ==
  /\ state[p] = "absent"
  /\ ~ KeyTaken(k) \/ k = NoKey
  /\ state' = [state EXCEPT ![p] = "recorded"]
  /\ key' = [key EXCEPT ![p] = k]
  /\ OthersKept(p) /\ Posts(p, n)
AllocatesTo(p, n) ==
  state[p] = "recorded" /\ UNCHANGED <<state, key>> /\ OthersKept(p) /\ Posts(p, n)
Reverses(p) ==
  /\ state[p] = "recorded"
  /\ state' = [state EXCEPT ![p] = "voided"]
  /\ reversed' = [reversed EXCEPT ![p] = @ \cup EntriesToReverse(p)]
  /\ UNCHANGED <<key, alloc, entries, journalId>>

RowStep ==
  \/ QuietRows
  \/ \E p \in Payments, k \in Submissions \cup {NoKey}, n \in Nat : Adds(p, k, n)
  \/ \E p \in Payments, n \in Nat : AllocatesTo(p, n)
  \/ \E p \in Payments : Reverses(p)

LEMMA JournalPosts ==
  ASSUME Shape, NEW p \in Payments, PostJournal(p)
  PROVE  \E n \in Nat : Posts(p, n)
<1>1. CASE UNCHANGED journalVars
  <2>1. [entries EXCEPT ![p] = entries[p]] = entries
    BY DEF Shape
  <2>2. Posts(p, entries[p])
    BY <1>1, <2>1 DEF Posts, Shape, journalVars
  <2>3. QED
    BY <2>2 DEF Shape
<1>2. CASE /\ entries' = [entries EXCEPT ![p] = entries[p] + 1]
           /\ journalId' = [journalId EXCEPT ![p] = entries[p] + 1]
           /\ UNCHANGED reversed
  <2>1. entries[p] + 1 \in Nat
    BY DEF Shape
  <2>2. Posts(p, entries[p] + 1)
    BY <1>2 DEF Posts
  <2>3. QED
    BY <2>1, <2>2
<1>3. QED
  BY <1>1, <1>2 DEF PostJournal

LEMMA RecordAdds ==
  ASSUME Shape, NEW p \in Payments, NEW k \in Submissions \cup {NoKey},
         NEW a, NEW ls, Record(p, k, a, ls)
  PROVE  RowStep
<1>1. PICK n \in Nat : Posts(p, n)
  BY JournalPosts DEF Record
<1>2. OthersKept(p)
  BY DEF Record, OthersKept, Shape
<1>3. Adds(p, k, n)
  BY <1>1, <1>2 DEF Record, NewRow, NextRow, Adds
<1>4. QED
  BY <1>3 DEF RowStep

LEMMA CreditSteps ==
  ASSUME Shape, FreshRows, NEW i \in Invoices, NEW a, CreditInvoice(i, a)
  PROVE  RowStep
<1> DEFINE applied == Least(a, Residual(i))
<1>1. CASE applied = 0 /\ UNCHANGED <<rowVars, entries, journalId>>
  BY <1>1 DEF CreditInvoice, RowStep, QuietRows, rowVars, paymentVars, journalVars
<1>2. ASSUME NEW p \in Payments, NewRow(p, NoKey, applied),
             alloc' = [alloc EXCEPT ![p][i] = applied],
             entries' = [entries EXCEPT ![p] = 1],
             journalId' = [journalId EXCEPT ![p] = 1]
      PROVE  RowStep
  <2>1. OthersKept(p)
    BY <1>2 DEF OthersKept, Shape
  <2>2. Posts(p, 1)
    BY <1>2 DEF Posts, CreditInvoice
  <2>3. Adds(p, NoKey, 1)
    BY <1>2, <2>1, <2>2 DEF NewRow, NextRow, Adds
  <2>4. QED
    BY <2>3 DEF RowStep
<1>3. QED
  BY <1>1, <1>2 DEF CreditInvoice

LEMMA AllocateSteps ==
  ASSUME Shape, NEW p \in Payments, Allocate(p)
  PROVE  RowStep
<1>1. PICK n \in Nat : Posts(p, n)
  BY JournalPosts DEF Allocate
<1>2. OthersKept(p)
  BY DEF Allocate, OthersKept, Shape
<1>3. AllocatesTo(p, n)
  BY <1>1, <1>2 DEF Allocate, Allocatable, Live, AllocatesTo, paymentVars
<1>4. QED
  BY <1>3 DEF RowStep

LEMMA StepKinds ==
  ASSUME Shape, HandKeys, FreshRows, [Next]_vars
  PROVE  RowStep
<1>1. CASE UNCHANGED vars
  BY <1>1 DEF vars, rowVars, paymentVars, RowStep, QuietRows, journalVars
<1>2. ASSUME NEW h \in Handlers, NEW k \in Submissions, ReadInvoice(h, k)
      PROVE  RowStep
  BY <1>2 DEF ReadInvoice, rowVars, paymentVars, RowStep, QuietRows, journalVars
<1>3. ASSUME NEW h \in Handlers, CommitInvoicePayment(h)
      PROVE  RowStep
  <2>1. hand[h].key \in Submissions \cup {NoKey}
    BY DEF HandKeys
  <2>2. PICK p \in Payments :
          Record(p, hand[h].key, hand[h].capped,
                 <<[invoice |-> InvoiceOf[hand[h].key], amount |-> hand[h].capped]>>)
    BY <1>3 DEF CommitInvoicePayment
  <2>3. QED
    BY <2>1, <2>2, RecordAdds
<1>4. ASSUME NEW h \in Handlers, LeaveInvoicePayment(h)
      PROVE  RowStep
  BY <1>4 DEF LeaveInvoicePayment, rowVars, paymentVars, RowStep, QuietRows, journalVars
<1>5. ASSUME NEW k \in Submissions, RecordReceipt(k)
      PROVE  RowStep
  <2>1. PICK p \in Payments, ls \in Requests(AmountOf[k]) : Record(p, k, AmountOf[k], ls)
    BY <1>5 DEF RecordReceipt
  <2>2. QED
    BY <2>1, RecordAdds
<1>6. ASSUME NEW p \in Payments, Reverse(p)
      PROVE  RowStep
  <2>1. Reverses(p)
    BY <1>6 DEF Reverse, Reverses, Live
  <2>2. QED
    BY <2>1 DEF RowStep
<1>7. QED
  BY <1>1, <1>2, <1>3, <1>4, <1>5, <1>6, AllocateSteps, CreditSteps DEF Next

(* No step but the invoice route's touches what a request holds. *)
LEMMA HandStep ==
  ASSUME HandKeys, [Next]_vars
  PROVE  HandKeys'
<1>1. CASE UNCHANGED hand
  BY <1>1 DEF HandKeys
<1>2. ASSUME NEW h \in Handlers, NEW k \in Submissions, ReadInvoice(h, k)
      PROVE  HandKeys'
  <2>1. PICK c : hand' = [hand EXCEPT ![h] = [key |-> k, capped |-> c]]
    BY <1>2 DEF ReadInvoice
  <2>2. QED
    BY <2>1 DEF HandKeys
<1>3. ASSUME NEW h \in Handlers, hand' = [hand EXCEPT ![h] = Idle]
      PROVE  HandKeys'
  BY <1>3 DEF HandKeys, Idle
<1>4. CASE UNCHANGED vars
  BY <1>1, <1>4 DEF vars
<1>5. QED
  BY <1>1, <1>2, <1>3, <1>4
  DEF Next, CommitInvoicePayment, LeaveInvoicePayment, RecordReceipt, Allocate,
      CreditInvoice, Reverse

-----------------------------------------------------------------------------
(* Each kind of step keeps the invariant. *)

LEMMA AddKeeps ==
  ASSUME IInv, NEW p \in Payments, NEW k \in Submissions \cup {NoKey}, NEW n \in Nat,
         Adds(p, k, n)
  PROVE  Shape' /\ FreshRows' /\ OncePerKey' /\ EntriesFollow'
<1>1. Shape'
  BY DEF IInv, Shape, Adds, OthersKept, Posts
<1>2. FreshRows'
  BY DEF IInv, Shape, FreshRows, Adds, Posts
<1>3. OncePerKey'
  BY DEF IInv, Shape, OncePerKey, Adds, KeyTaken
<1>4. EntriesFollow'
  BY DEF IInv, Shape, FreshRows, EntriesFollow, Adds, Posts
<1>5. QED
  BY <1>1, <1>2, <1>3, <1>4

LEMMA AllocateKeeps ==
  ASSUME IInv, NEW p \in Payments, NEW n \in Nat, AllocatesTo(p, n)
  PROVE  Shape' /\ FreshRows' /\ OncePerKey' /\ EntriesFollow'
<1>1. Shape'
  BY DEF IInv, Shape, AllocatesTo, OthersKept, Posts
<1>2. FreshRows'
  BY DEF IInv, Shape, FreshRows, AllocatesTo, Posts
<1>3. OncePerKey'
  BY DEF IInv, OncePerKey, AllocatesTo
<1>4. EntriesFollow'
  BY DEF IInv, Shape, EntriesFollow, AllocatesTo, Posts
<1>5. QED
  BY <1>1, <1>2, <1>3, <1>4

(* A payment with no entry or one entry is left with none standing. *)
LEMMA AllReversed ==
  ASSUME NEW n \in Nat, n <= 1
  PROVE  {n} \ {0} = 1..n
<1>1. CASE n = 0
  BY <1>1
<1>2. CASE n = 1
  BY <1>2
<1>3. QED
  BY <1>1, <1>2

LEMMA ReverseKeeps ==
  ASSUME IInv, NEW p \in Payments, Reverses(p)
  PROVE  Shape' /\ FreshRows' /\ OncePerKey' /\ EntriesFollow'
<1>1. EntriesToReverse(p) = {entries[p]} \ {0} /\ entries[p] \in Nat
  BY DEF IInv, Shape, EntriesToReverse
<1>2. Shape'
  BY <1>1 DEF IInv, Shape, Reverses
<1>3. FreshRows'
  BY DEF IInv, Shape, FreshRows, Reverses
<1>4. OncePerKey'
  BY DEF IInv, OncePerKey, Reverses
<1>5. EntriesFollow'
  <2>1. reversed[p] = {}
    BY DEF IInv, EntriesFollow, Reverses
  <2>2. reversed'[p] = {entries[p]} \ {0}
    BY <1>1, <2>1 DEF IInv, Shape, Reverses
  <2>3. entries[p] <= 1 => reversed'[p] = 1..entries[p]
    BY <1>1, <2>2, AllReversed
  <2>4. state'[p] = "voided" /\ entries' = entries /\ key' = key
    BY DEF IInv, Shape, Reverses
  <2>5. \A q \in Payments \ {p} : state'[q] = state[q] /\ reversed'[q] = reversed[q]
    BY DEF IInv, Shape, Reverses
  <2>6. QED
    BY <2>3, <2>4, <2>5 DEF IInv, EntriesFollow
<1>6. QED
  BY <1>2, <1>3, <1>4, <1>5

LEMMA InvariantStep ==
  ASSUME IInv, RowStep, HandKeys'
  PROVE  IInv'
<1>1. CASE QuietRows
  BY <1>1 DEF IInv, QuietRows, journalVars, Shape, FreshRows, OncePerKey, EntriesFollow
<1>2. QED
  BY <1>1, AddKeeps, AllocateKeeps, ReverseKeeps DEF RowStep, IInv

-----------------------------------------------------------------------------
(* The rows keep their shape, the last entry posted is the one a reversal  *)
(* reverses, no two rows share a key and journals follow their payments.   *)
THEOREM LedgerInductive == Spec => []IInv
<1>1. Init => IInv
  BY DEF Init, IInv, Shape, HandKeys, FreshRows, OncePerKey, EntriesFollow, Idle, Payments
<1>2. IInv /\ [Next]_vars => IInv'
  BY InvariantStep, StepKinds, HandStep DEF IInv
<1>3. QED
  BY <1>1, <1>2, PTL DEF Spec

(* A submission has one payment row for ever, whatever retries, concurrent *)
(* requests and reversals come.                                            *)
THEOREM OneRowPerSubmission == Spec => []OncePerKey
<1>1. IInv => OncePerKey
  BY DEF IInv
<1>2. QED
  BY <1>1, LedgerInductive, PTL

(* No entry of a standing payment is reversed, and a reversed submission   *)
(* with at most one entry has none left standing.                          *)
THEOREM JournalsFollow == Spec => []EntriesFollow
<1>1. IInv => EntriesFollow
  BY DEF IInv
<1>2. QED
  BY <1>1, LedgerInductive, PTL

(* Nothing is allocated from, posted for or reversed again on a payment    *)
(* that was reversed: the retry, the allocation and the second reversal    *)
(* find it voided.                                                         *)
THEOREM ReversalIsFinal == Spec => VoidedIsFinal
<1> DEFINE Final == \A p \in Payments : state[p] = "voided" =>
       /\ state'[p] = "voided" /\ key'[p] = key[p] /\ alloc'[p] = alloc[p]
       /\ entries'[p] = entries[p] /\ reversed'[p] = reversed[p]
<1>1. IInv /\ [Next]_vars => Final
  <2> SUFFICES ASSUME IInv, [Next]_vars PROVE Final
    OBVIOUS
  <2>1. RowStep
    BY StepKinds DEF IInv
  <2>2. CASE QuietRows
    BY <2>2 DEF QuietRows, journalVars
  <2>3. ASSUME NEW p \in Payments, NEW k, NEW n \in Nat, Adds(p, k, n)
        PROVE  Final
    BY <2>3 DEF IInv, Shape, Adds, OthersKept, Posts
  <2>4. ASSUME NEW p \in Payments, NEW n \in Nat, AllocatesTo(p, n)
        PROVE  Final
    BY <2>4 DEF IInv, Shape, AllocatesTo, OthersKept, Posts
  <2>5. ASSUME NEW p \in Payments, Reverses(p)
        PROVE  Final
    BY <2>5 DEF IInv, Shape, Reverses
  <2>6. QED
    BY <2>1, <2>2, <2>3, <2>4, <2>5 DEF RowStep
<1>2. IInv /\ [Next]_vars => [Final]_vars
  BY <1>1
<1>3. QED
  BY <1>2, LedgerInductive, PTL DEF Spec, VoidedIsFinal
-----------------------------------------------------------------------------
(* Money.  What a step does to amounts and sums, journals left out.        *)

MoneyShape ==
  /\ state \in [Payments -> {"absent", "recorded", "voided"}]
  /\ amount \in [Payments -> Nat]
  /\ alloc \in [Payments -> [Invoices -> Nat]]
  /\ amountPaid \in [Invoices -> Nat]

(* A row that does not exist yet holds nothing. *)
BlankRows ==
  \A p \in Payments : state[p] = "absent" =>
    amount[p] = 0 /\ \A i \in Invoices : alloc[p][i] = 0

(* What a request read is an amount of a submission. *)
HandTyped == hand \in [Handlers -> [key : Submissions, capped : Nat] \cup {Idle}]

MInv == MoneyShape /\ BlankRows /\ HandTyped /\ PaidMatchesAllocations /\ WithinAmount

(* The allocations of an invoice, with a zero for the rows that do not count. *)
ColumnOf(st, al, i) == [p \in Payments |-> IF st[p] = "recorded" THEN al[p][i] ELSE 0]
Column(i) == ColumnOf(state, alloc, i)

MoneyQuiet == UNCHANGED <<state, amount, alloc, amountPaid>>
Fitting(line) == \A i \in Invoices : line[i] > 0 => Allocated(i) + line[i] <= Total[i]
Puts(p, line) ==
  /\ state[p] # "voided" /\ state' = [state EXCEPT ![p] = "recorded"]
  /\ amount' \in [Payments -> Nat] /\ \A q \in Payments \ {p} : amount'[q] = amount[q]
  /\ alloc' = [alloc EXCEPT ![p] = [i \in Invoices |-> alloc[p][i] + line[i]]]
  /\ Used(p) + SumFunction(line) <= amount'[p]
  /\ amountPaid' = [i \in Invoices |->
       IF line[i] > 0 THEN Allocated(i) + line[i] ELSE amountPaid[i]]
  /\ Repeats = FALSE => Fitting(line)
TakesBack(p) ==
  /\ state[p] = "recorded" /\ state' = [state EXCEPT ![p] = "voided"]
  /\ amountPaid' = TakenOff(p)
  /\ UNCHANGED <<amount, alloc>>

MoneyStep ==
  \/ MoneyQuiet
  \/ \E p \in Payments, line \in [Invoices -> Nat] : Puts(p, line)
  \/ \E p \in Payments : TakesBack(p)

LEMMA PaymentsFinite == IsFiniteSet(Payments)
<1>1. MaxPayments \in Int /\ 1 \in Int
  BY LedgerAssumption
<1>2. QED
  BY <1>1, FS_Interval DEF Payments

LEMMA PartOfPayments ==
  ASSUME NEW T \in SUBSET Payments, NEW f \in [Payments -> Nat],
         \A x \in Payments : x \notin T => f[x] = 0
  PROVE  SumFunction([x \in T |-> f[x]]) = SumFunction(f)
BY PaymentsFinite, SumOfPart

LiveSum(st, al, i) == SumFunction([p \in {q \in Payments : st[q] = "recorded"} |-> al[p][i]])

LEMMA ColumnSums ==
  ASSUME NEW st, NEW al \in [Payments -> [Invoices -> Nat]], NEW i \in Invoices
  PROVE  /\ ColumnOf(st, al, i) \in [Payments -> Nat]
         /\ LiveSum(st, al, i) = SumFunction(ColumnOf(st, al, i))
         /\ LiveSum(st, al, i) \in Nat
<1> DEFINE live == {p \in Payments : st[p] = "recorded"}
           column == ColumnOf(st, al, i)
<1>1. column \in [Payments -> Nat]
  BY DEF ColumnOf
<1>2. live \in SUBSET Payments
  OBVIOUS
<1>3. \A p \in Payments : p \notin live => column[p] = 0
  BY DEF ColumnOf
<1>4. [p \in live |-> al[p][i]] = [p \in live |-> column[p]]
  BY DEF ColumnOf
<1>5. LiveSum(st, al, i) = SumFunction([p \in live |-> column[p]])
  BY <1>4 DEF LiveSum
<1> HIDE DEF live, column
<1>6. SumFunction([p \in live |-> column[p]]) = SumFunction(column)
  BY <1>1, <1>2, <1>3, PartOfPayments
<1>7. SumFunction(column) \in Nat
  BY <1>1, PaymentsFinite, SumNat
<1>8. QED
  BY <1>1, <1>5, <1>6, <1>7 DEF column

LEMMA ColumnSum ==
  ASSUME MoneyShape, NEW i \in Invoices
  PROVE  /\ Column(i) \in [Payments -> Nat]
         /\ Allocated(i) = SumFunction(Column(i))
         /\ Allocated(i) \in Nat
<1>1. Allocated(i) = LiveSum(state, alloc, i)
  BY DEF Allocated, PaidBy, Live, LiveSum
<1>2. QED
  BY <1>1, ColumnSums DEF MoneyShape, Column

LEMMA ColumnSumNext ==
  ASSUME MoneyShape', NEW i \in Invoices
  PROVE  /\ Column(i)' \in [Payments -> Nat]
         /\ Allocated(i)' = SumFunction(Column(i)')
<1>1. Allocated(i)' = LiveSum(state', alloc', i)
  BY DEF Allocated, PaidBy, Live, LiveSum
<1>2. QED
  BY <1>1, ColumnSums DEF MoneyShape, Column

LEMMA UsedNat ==
  ASSUME MoneyShape, NEW p \in Payments
  PROVE  Used(p) \in Nat
BY SumNat, LedgerAssumption DEF MoneyShape, Used

-----------------------------------------------------------------------------
(* The lines of a request. *)

AnyLine == [invoice : Invoices, amount : Nat]
ShortList(ls) ==
  \/ ls = <<>>
  \/ \E l \in AnyLine : ls = <<l>>
  \/ \E l \in AnyLine, m \in AnyLine : ls = <<l, m>>
LineOn(l, i) == IF l.invoice = i THEN l.amount ELSE 0

LEMMA NoLines ==
  ASSUME NEW i
  PROVE  OnInvoice(<<>>, i) = 0 /\ LinesTotal(<<>>) = 0
<1> DEFINE on == [n \in DOMAIN <<>> |-> IF <<>>[n].invoice = i THEN <<>>[n].amount ELSE 0]
           all == [n \in DOMAIN <<>> |-> <<>>[n].amount]
<1>1. DOMAIN <<>> = {}
  OBVIOUS
<1>2. on \in [{} -> Nat] /\ all \in [{} -> Nat]
  BY <1>1
<1>3. IsFiniteSet({})
  BY FS_EmptySet
<1> HIDE DEF on, all
<1>4. SumFunction(on) = 0 /\ SumFunction(all) = 0
  BY <1>2, <1>3, SumZero
<1>5. QED
  BY <1>4 DEF OnInvoice, LinesTotal, on, all

LEMMA OneLine ==
  ASSUME NEW l \in AnyLine, NEW i
  PROVE  OnInvoice(<<l>>, i) = LineOn(l, i) /\ LinesTotal(<<l>>) = l.amount
<1> DEFINE ls == <<l>>
           on == [n \in DOMAIN ls |-> IF ls[n].invoice = i THEN ls[n].amount ELSE 0]
           all == [n \in DOMAIN ls |-> ls[n].amount]
<1>1. DOMAIN ls = 1..1 /\ ls[1] = l
  OBVIOUS
<1>2. on \in [1..1 -> Nat] /\ all \in [1..1 -> Nat] /\ on[1] = LineOn(l, i) /\ all[1] = l.amount
  BY <1>1 DEF AnyLine, LineOn
<1>3. OnInvoice(ls, i) = SumFunction(on) /\ LinesTotal(ls) = SumFunction(all)
  BY DEF OnInvoice, LinesTotal
<1> HIDE DEF on, all
<1>4. QED
  BY <1>2, <1>3, SumOfOne

LEMMA TwoLines ==
  ASSUME NEW l \in AnyLine, NEW m \in AnyLine, NEW i
  PROVE  /\ OnInvoice(<<l, m>>, i) = LineOn(l, i) + LineOn(m, i)
         /\ LinesTotal(<<l, m>>) = l.amount + m.amount
<1> DEFINE ls == <<l, m>>
           on == [n \in DOMAIN ls |-> IF ls[n].invoice = i THEN ls[n].amount ELSE 0]
           all == [n \in DOMAIN ls |-> ls[n].amount]
<1>1. DOMAIN ls = 1..2 /\ ls[1] = l /\ ls[2] = m
  OBVIOUS
<1>2. \A n \in 1..2 : ls[n] \in AnyLine
  BY <1>1
<1>3. on \in [1..2 -> Nat] /\ all \in [1..2 -> Nat]
  BY <1>1, <1>2 DEF AnyLine
<1>4. /\ on[1] = LineOn(l, i) /\ on[2] = LineOn(m, i)
      /\ all[1] = l.amount /\ all[2] = m.amount
  BY <1>1 DEF LineOn
<1>5. OnInvoice(ls, i) = SumFunction(on) /\ LinesTotal(ls) = SumFunction(all)
  BY DEF OnInvoice, LinesTotal
<1> HIDE DEF on, all
<1>6. QED
  BY <1>3, <1>4, <1>5, SumOfTwo

(* A line adds its amount to what a request puts on all invoices. *)
LEMMA LineTotal ==
  ASSUME NEW l \in AnyLine
  PROVE  /\ [i \in Invoices |-> LineOn(l, i)] \in [Invoices -> Nat]
         /\ SumFunction([i \in Invoices |-> LineOn(l, i)]) = l.amount
<1> DEFINE on == [i \in Invoices |-> LineOn(l, i)]
<1>1. on \in [Invoices -> Nat] /\ l.invoice \in Invoices
  BY DEF AnyLine, LineOn
<1>2. on[l.invoice] = l.amount /\ \A i \in Invoices \ {l.invoice} : on[i] = 0
  BY <1>1 DEF LineOn
<1> HIDE DEF on
<1>3. SumFunction(on) = on[l.invoice]
  BY <1>1, <1>2, LedgerAssumption, SumAt
<1>4. QED
  BY <1>1, <1>2, <1>3 DEF on

(* The lines of a request add up to what it puts on the invoices. *)
LEMMA ListSums ==
  ASSUME NEW ls, ShortList(ls)
  PROVE  /\ [i \in Invoices |-> OnInvoice(ls, i)] \in [Invoices -> Nat]
         /\ SumFunction([i \in Invoices |-> OnInvoice(ls, i)]) = LinesTotal(ls)
<1> DEFINE on == [i \in Invoices |-> OnInvoice(ls, i)]
<1>1. CASE ls = <<>>
  <2>1. on \in [Invoices -> Nat] /\ \A i \in Invoices : on[i] = 0
    BY <1>1, NoLines
  <2> HIDE DEF on
  <2>2. SumFunction(on) = 0
    BY <2>1, LedgerAssumption, SumZero
  <2>3. QED
    BY <1>1, <2>1, <2>2, NoLines DEF on
<1>2. ASSUME NEW l \in AnyLine, ls = <<l>>
      PROVE  on \in [Invoices -> Nat] /\ SumFunction(on) = LinesTotal(ls)
  <2>1. on = [i \in Invoices |-> LineOn(l, i)]
    BY <1>2, OneLine
  <2>2. LinesTotal(ls) = l.amount
    BY <1>2, OneLine
  <2> HIDE DEF on
  <2>3. QED
    BY <2>1, <2>2, LineTotal
<1>3. ASSUME NEW l \in AnyLine, NEW m \in AnyLine, ls = <<l, m>>
      PROVE  on \in [Invoices -> Nat] /\ SumFunction(on) = LinesTotal(ls)
  <2> DEFINE onL == [i \in Invoices |-> LineOn(l, i)]
             onM == [i \in Invoices |-> LineOn(m, i)]
  <2>1. onL \in [Invoices -> Nat] /\ SumFunction(onL) = l.amount
    BY LineTotal
  <2>2. onM \in [Invoices -> Nat] /\ SumFunction(onM) = m.amount
    BY LineTotal
  <2>3. \A i \in Invoices : on[i] = onL[i] + onM[i]
    BY <1>3, TwoLines
  <2>4. LinesTotal(ls) = l.amount + m.amount
    BY <1>3, TwoLines
  <2>5. DOMAIN on = Invoices /\ on = [i \in Invoices |-> on[i]]
    OBVIOUS
  <2> HIDE DEF on, onL, onM
  <2>6. on \in [Invoices -> Nat]
    BY <2>1, <2>2, <2>3, <2>5
  <2>7. SumFunction(on) = SumFunction(onL) + SumFunction(onM)
    BY <2>1, <2>2, <2>3, <2>6, LedgerAssumption, SumPlus
  <2>8. QED
    BY <2>1, <2>2, <2>4, <2>6, <2>7
<1>4. QED
  BY <1>1, <1>2, <1>3 DEF ShortList

(* Lines on different invoices that fit one by one fit together. *)
LEMMA ListFits ==
  ASSUME MoneyShape, NEW ls, ShortList(ls),
         Len(ls) < 2 \/ ls[1].invoice # ls[2].invoice,
         \A n \in DOMAIN ls : ls[n].amount <= Residual(ls[n].invoice)
  PROVE  Fitting([i \in Invoices |-> OnInvoice(ls, i)])
<1> SUFFICES ASSUME NEW i \in Invoices, OnInvoice(ls, i) > 0
             PROVE  Allocated(i) + OnInvoice(ls, i) <= Total[i]
  BY DEF Fitting
<1>1. Allocated(i) \in Nat /\ Total[i] \in Nat
  BY ColumnSum, LedgerAssumption
<1>2. \A a \in Nat : a > 0 /\ a <= Residual(i) => Allocated(i) + a <= Total[i]
  BY <1>1 DEF Residual, Most
<1>3. CASE ls = <<>>
  BY <1>3, NoLines
<1>4. ASSUME NEW l \in AnyLine, ls = <<l>>
      PROVE  Allocated(i) + OnInvoice(ls, i) <= Total[i]
  <2>1. OnInvoice(ls, i) = LineOn(l, i) /\ l.amount \in Nat
    BY <1>4, OneLine DEF AnyLine
  <2>2. l.amount <= Residual(l.invoice)
    BY <1>4
  <2>3. QED
    BY <1>2, <2>1, <2>2 DEF LineOn
<1>5. ASSUME NEW l \in AnyLine, NEW m \in AnyLine, ls = <<l, m>>
      PROVE  Allocated(i) + OnInvoice(ls, i) <= Total[i]
  <2>1. OnInvoice(ls, i) = LineOn(l, i) + LineOn(m, i) /\ l.amount \in Nat /\ m.amount \in Nat
    BY <1>5, TwoLines DEF AnyLine
  <2>2. l.amount <= Residual(l.invoice) /\ m.amount <= Residual(m.invoice)
    BY <1>5
  <2>3. l.invoice # m.invoice
    BY <1>5
  <2>4. QED
    BY <1>2, <2>1, <2>2, <2>3 DEF LineOn
<1>6. QED
  BY <1>3, <1>4, <1>5 DEF ShortList

LEMMA RequestIsShort ==
  ASSUME NEW most \in Nat, NEW ls \in Requests(most)
  PROVE  ShortList(ls) /\ (Repeats = FALSE => Len(ls) < 2 \/ ls[1].invoice # ls[2].invoice)
<1>1. Line(most) \subseteq AnyLine
  BY DEF Line, AnyLine
<1>2. QED
  BY <1>1 DEF Requests, Lines, ShortList

-----------------------------------------------------------------------------
(* Every step is a money step. *)

LEMMA BlankUsesNothing ==
  ASSUME MoneyShape, BlankRows, NEW p \in Payments, state[p] = "absent"
  PROVE  Used(p) = 0
<1>1. alloc[p] \in [Invoices -> Nat] /\ \A i \in Invoices : alloc[p][i] = 0
  BY DEF MoneyShape, BlankRows
<1>2. QED
  BY <1>1, LedgerAssumption, SumZero DEF Used

LEMMA RecordPuts ==
  ASSUME MInv, NEW p \in Payments, NEW k, NEW a \in Nat, NEW ls, ShortList(ls),
         Record(p, k, a, ls)
  PROVE  Puts(p, [i \in Invoices |-> OnInvoice(ls, i)])
<1> DEFINE line == [i \in Invoices |-> OnInvoice(ls, i)]
<1>1. line \in [Invoices -> Nat] /\ SumFunction(line) = LinesTotal(ls)
  BY ListSums
<1>2. state[p] = "absent" /\ state' = [state EXCEPT ![p] = "recorded"]
  BY DEF Record, NewRow, NextRow
<1>3. amount' \in [Payments -> Nat] /\ amount'[p] = a /\ \A q \in Payments \ {p} : amount'[q] = amount[q]
  BY DEF Record, NewRow, MInv, MoneyShape
<1>4. alloc' = [alloc EXCEPT ![p] = [i \in Invoices |-> alloc[p][i] + line[i]]]
  <2>1. \A i \in Invoices : alloc[p][i] + line[i] = OnInvoice(ls, i)
    BY <1>1, <1>2 DEF MInv, BlankRows
  <2>2. alloc' = [alloc EXCEPT ![p] = line]
    BY DEF Record
  <2>3. [i \in Invoices |-> alloc[p][i] + line[i]] = line
    BY <2>1
  <2>4. QED
    BY <2>2, <2>3
<1>5. Used(p) + SumFunction(line) <= amount'[p]
  <2>1. Used(p) = 0
    BY <1>2, BlankUsesNothing DEF MInv
  <2>2. LinesTotal(ls) <= a
    BY DEF Record, LinesValid
  <2>3. LinesTotal(ls) \in Nat
    BY <1>1, LedgerAssumption, SumNat
  <2>4. QED
    BY <1>1, <1>3, <2>1, <2>2, <2>3
<1>6. amountPaid' = [i \in Invoices |->
        IF line[i] > 0 THEN Allocated(i) + line[i] ELSE amountPaid[i]]
  BY DEF Record, Recount
<1>7. Fitting(line)
  BY DEF Record, SumsFit, Fitting
<1>8. state[p] # "voided"
  BY <1>2
<1> HIDE DEF line
<1>9. Puts(p, line)
  BY <1>2, <1>3, <1>4, <1>5, <1>6, <1>7, <1>8 DEF Puts
<1>10. QED
  BY <1>9 DEF line

LEMMA AllocatePuts ==
  ASSUME MInv, NEW p \in Payments, Allocate(p)
  PROVE  \E line \in [Invoices -> Nat] : Puts(p, line)
<1>1. Used(p) \in Nat /\ amount[p] \in Nat
  BY UsedNat DEF MInv, MoneyShape
<1>2. Unallocated(p) \in Nat /\ Unallocated(p) = amount[p] - Used(p)
  BY <1>1 DEF Allocate, Unallocated, Most
<1>3. PICK ls \in Requests(Unallocated(p)) :
        /\ LinesValid(ls, Unallocated(p))
        /\ alloc' = [alloc EXCEPT ![p] = [i \in Invoices |-> @[i] + OnInvoice(ls, i)]]
        /\ amountPaid' = Recount(ls)
  BY DEF Allocate
<1>4. ShortList(ls) /\ (Repeats = FALSE => Len(ls) < 2 \/ ls[1].invoice # ls[2].invoice)
  BY <1>2, RequestIsShort
<1> DEFINE line == [i \in Invoices |-> OnInvoice(ls, i)]
<1>5. line \in [Invoices -> Nat] /\ SumFunction(line) = LinesTotal(ls)
  BY <1>4, ListSums
<1>6. state[p] = "recorded" /\ UNCHANGED <<state, amount>>
  BY DEF Allocate, Allocatable, Live, paymentVars
<1>7. state' = [state EXCEPT ![p] = "recorded"]
  BY <1>6 DEF MInv, MoneyShape
<1>8. alloc' = [alloc EXCEPT ![p] = [i \in Invoices |-> alloc[p][i] + line[i]]]
  BY <1>3
<1>9. Used(p) + SumFunction(line) <= amount'[p]
  <2>1. LinesTotal(ls) <= Unallocated(p)
    BY <1>3 DEF LinesValid
  <2>2. LinesTotal(ls) \in Nat
    BY <1>5, LedgerAssumption, SumNat
  <2>3. QED
    BY <1>1, <1>2, <1>5, <1>6, <2>1, <2>2
<1>10. amountPaid' = [i \in Invoices |->
         IF line[i] > 0 THEN Allocated(i) + line[i] ELSE amountPaid[i]]
  BY <1>3 DEF Recount
<1>11. Repeats = FALSE => Fitting(line)
  BY <1>3, <1>4, ListFits DEF LinesValid, MInv
<1>12. amount' \in [Payments -> Nat]
  BY <1>6 DEF MInv, MoneyShape
<1> HIDE DEF line
<1>13. Puts(p, line)
  BY <1>6, <1>7, <1>8, <1>9, <1>10, <1>11, <1>12 DEF Puts
<1>14. QED
  BY <1>5, <1>13

(* A row of its own puts a on one invoice that owes as much: a credit note, *)
(* and a deposit applied.                                                  *)
LEMMA OneInvoicePuts ==
  ASSUME MInv, NEW p \in Payments, NEW i \in Invoices, NEW a \in Nat \ {0},
         a <= Residual(i), NewRow(p, NoKey, a),
         alloc' = [alloc EXCEPT ![p][i] = a],
         amountPaid' = [amountPaid EXCEPT ![i] = Allocated(i) + a]
  PROVE  \E line \in [Invoices -> Nat] : Puts(p, line)
<1> DEFINE line == [j \in Invoices |-> IF j = i THEN a ELSE 0]
<1>1. /\ line \in [Invoices -> Nat] /\ line[i] = a
      /\ \A j \in Invoices \ {i} : line[j] = 0
  OBVIOUS
<1>2. state[p] = "absent" /\ state' = [state EXCEPT ![p] = "recorded"]
  BY DEF NewRow, NextRow
<1>3. amount' \in [Payments -> Nat] /\ amount'[p] = a /\ \A q \in Payments \ {p} : amount'[q] = amount[q]
  BY DEF NewRow, MInv, MoneyShape
<1>4. alloc' = [alloc EXCEPT ![p] = [j \in Invoices |-> alloc[p][j] + line[j]]]
  <2>1. alloc[p] \in [Invoices -> Nat] /\ \A j \in Invoices : alloc[p][j] = 0
    BY <1>2 DEF MInv, MoneyShape, BlankRows
  <2>2. [alloc[p] EXCEPT ![i] = a] = [j \in Invoices |-> alloc[p][j] + line[j]]
    BY <1>1, <2>1
  <2>3. QED
    BY <2>2
<1>5. Allocated(i) \in Nat /\ Total[i] \in Nat
  BY ColumnSum, LedgerAssumption DEF MInv
<1>6. Fitting(line)
  BY <1>1, <1>5 DEF Fitting, Residual, Most
<1>7. amountPaid' = [j \in Invoices |->
        IF line[j] > 0 THEN Allocated(j) + line[j] ELSE amountPaid[j]]
  <2> HIDE DEF line
  <2>1. DOMAIN amountPaid' = Invoices /\ amountPaid' = [j \in Invoices |-> amountPaid'[j]]
    BY DEF MInv, MoneyShape
  <2>2. \A j \in Invoices :
          amountPaid'[j] = IF line[j] > 0 THEN Allocated(j) + line[j] ELSE amountPaid[j]
    <3>1. amountPaid'[i] = Allocated(i) + line[i] /\ line[i] > 0
      BY <1>1 DEF MInv, MoneyShape
    <3>2. \A j \in Invoices \ {i} : amountPaid'[j] = amountPaid[j] /\ ~ line[j] > 0
      BY <1>1 DEF MInv, MoneyShape
    <3>3. QED
      BY <3>1, <3>2
  <2>3. QED
    BY <2>1, <2>2
<1> HIDE DEF line
<1>8. Used(p) + SumFunction(line) <= amount'[p]
  <2>1. Used(p) = 0
    BY <1>2, BlankUsesNothing DEF MInv
  <2>2. SumFunction(line) = a
    BY <1>1, LedgerAssumption, SumAt
  <2>3. QED
    BY <1>3, <2>1, <2>2
<1>9. Puts(p, line)
  BY <1>2, <1>3, <1>4, <1>6, <1>7, <1>8 DEF Puts
<1>10. QED
  BY <1>1, <1>9

LEMMA MoneySteps ==
  ASSUME MInv, [Next]_vars
  PROVE  MoneyStep /\ HandTyped'
<1> USE DEF rowVars, paymentVars
<1>1. CASE UNCHANGED vars
  BY <1>1 DEF vars, MoneyStep, MoneyQuiet, MInv, HandTyped
<1>2. ASSUME NEW h \in Handlers, NEW k \in Submissions, ReadInvoice(h, k)
      PROVE  MoneyStep /\ HandTyped'
  <2>1. MoneyStep
    BY <1>2 DEF ReadInvoice, MoneyStep, MoneyQuiet
  <2>2. PICK c \in Nat : hand' = [hand EXCEPT ![h] = [key |-> k, capped |-> c]]
    <3> DEFINE left == Total[InvoiceOf[k]] - amountPaid[InvoiceOf[k]]
    <3>1. InvoiceOf[k] \in Invoices /\ AmountOf[k] \in Nat
      BY LedgerAssumption
    <3>2. left \in Int
      BY <3>1, LedgerAssumption DEF MInv, MoneyShape
    <3>3. left > 0 /\ hand' = [hand EXCEPT ![h] = [key |-> k, capped |-> Least(AmountOf[k], left)]]
      BY <1>2 DEF ReadInvoice
    <3> HIDE DEF left
    <3>4. Least(AmountOf[k], left) \in Nat
      BY <3>1, <3>2, <3>3 DEF Least
    <3>5. QED
      BY <3>3, <3>4
  <2>3. HandTyped'
    BY <2>2 DEF MInv, HandTyped
  <2>4. QED
    BY <2>1, <2>3
<1>3. ASSUME NEW h \in Handlers, hand' = [hand EXCEPT ![h] = Idle]
      PROVE  HandTyped'
  BY <1>3 DEF MInv, HandTyped, Idle
<1>4. ASSUME NEW h \in Handlers, CommitInvoicePayment(h)
      PROVE  MoneyStep /\ HandTyped'
  <2> DEFINE k == hand[h].key
             c == hand[h].capped
             l == [invoice |-> InvoiceOf[k], amount |-> c]
  <2>1. c \in Nat
    BY DEF MInv, HandTyped, Idle
  <2>2. k \in Submissions
    BY <1>4 DEF CommitInvoicePayment, MInv, HandTyped
  <2>3. ShortList(<<l>>)
    BY <2>1, <2>2, LedgerAssumption DEF ShortList, AnyLine
  <2>4. PICK p \in Payments : Record(p, k, c, <<l>>)
    BY <1>4 DEF CommitInvoicePayment
  <2>5. HandTyped'
    BY <1>3, <1>4 DEF CommitInvoicePayment
  <2> HIDE DEF l, c, k
  <2>6. Puts(p, [i \in Invoices |-> OnInvoice(<<l>>, i)])
    BY <2>1, <2>3, <2>4, RecordPuts
  <2>7. [i \in Invoices |-> OnInvoice(<<l>>, i)] \in [Invoices -> Nat]
    BY <2>3, ListSums
  <2>8. QED
    BY <2>5, <2>6, <2>7 DEF MoneyStep
<1>5. ASSUME NEW h \in Handlers, LeaveInvoicePayment(h)
      PROVE  MoneyStep /\ HandTyped'
  BY <1>3, <1>5 DEF LeaveInvoicePayment, MoneyStep, MoneyQuiet
<1>6. ASSUME NEW k \in Submissions, RecordReceipt(k)
      PROVE  MoneyStep /\ HandTyped'
  <2>1. PICK p \in Payments, ls \in Requests(AmountOf[k]) : Record(p, k, AmountOf[k], ls)
    BY <1>6 DEF RecordReceipt
  <2>2. AmountOf[k] \in Nat
    BY LedgerAssumption
  <2>3. ShortList(ls)
    BY <2>2, RequestIsShort
  <2>4. Puts(p, [i \in Invoices |-> OnInvoice(ls, i)])
    BY <2>1, <2>2, <2>3, RecordPuts
  <2>5. [i \in Invoices |-> OnInvoice(ls, i)] \in [Invoices -> Nat]
    BY <2>3, ListSums
  <2>6. HandTyped'
    BY <1>6 DEF RecordReceipt, MInv, HandTyped
  <2>7. QED
    BY <2>4, <2>5, <2>6 DEF MoneyStep
<1>7. ASSUME NEW p \in Payments, Allocate(p)
      PROVE  MoneyStep /\ HandTyped'
  <2>1. HandTyped'
    BY <1>7 DEF Allocate, MInv, HandTyped
  <2>2. QED
    BY <1>7, <2>1, AllocatePuts DEF MoneyStep
<1>8. ASSUME NEW i \in Invoices, NEW a \in 1..Total[i], CreditInvoice(i, a)
      PROVE  MoneyStep /\ HandTyped'
  <2> DEFINE applied == Least(a, Residual(i))
  <2>1. HandTyped'
    BY <1>8 DEF CreditInvoice, MInv, HandTyped
  <2>2. Residual(i) \in Nat
    BY ColumnSum, LedgerAssumption DEF MInv, Residual, Most
  <2>3. applied \in Nat /\ applied <= Residual(i)
    BY <2>2, LedgerAssumption DEF Least
  <2>4. CASE applied = 0 /\ UNCHANGED <<rowVars, entries, journalId>>
    BY <2>1, <2>4 DEF MoneyStep, MoneyQuiet
  <2>5. ASSUME NEW p \in Payments, applied > 0, NewRow(p, NoKey, applied),
               alloc' = [alloc EXCEPT ![p][i] = applied],
               amountPaid' = [amountPaid EXCEPT ![i] = Allocated(i) + applied]
        PROVE  MoneyStep
    <3> HIDE DEF applied
    <3>1. applied \in Nat \ {0}
      BY <2>3, <2>5
    <3>2. QED
      BY <2>3, <2>5, <3>1, OneInvoicePuts DEF MoneyStep
  <2>6. QED
    BY <1>8, <2>1, <2>4, <2>5 DEF CreditInvoice
<1>9. ASSUME NEW p \in Payments, Reverse(p)
      PROVE  MoneyStep /\ HandTyped'
  <2>1. TakesBack(p)
    BY <1>9 DEF Reverse, Live, TakesBack
  <2>2. HandTyped'
    BY <1>9 DEF Reverse, MInv, HandTyped
  <2>3. QED
    BY <2>1, <2>2 DEF MoneyStep
<1>10. QED
  BY <1>1, <1>2, <1>4, <1>5, <1>6, <1>7, <1>8, <1>9 DEF Next

-----------------------------------------------------------------------------
(* Money steps keep the sums. *)

(* What a row that was not voided gets more is what its invoices get more. *)
LEMMA PutsAdds ==
  ASSUME MInv, NEW p \in Payments, NEW line \in [Invoices -> Nat], Puts(p, line)
  PROVE  MoneyShape' /\ \A i \in Invoices : Allocated(i)' = Allocated(i) + line[i]
<1>1. \A i \in Invoices : Allocated(i) \in Nat
  BY ColumnSum DEF MInv
<1>2. MoneyShape'
  <2>1. [i \in Invoices |-> alloc[p][i] + line[i]] \in [Invoices -> Nat]
    BY DEF MInv, MoneyShape
  <2>2. alloc' \in [Payments -> [Invoices -> Nat]]
    BY <2>1 DEF Puts, MInv, MoneyShape
  <2>3. amountPaid' \in [Invoices -> Nat]
    BY <1>1 DEF Puts, MInv, MoneyShape
  <2>4. QED
    BY <2>2, <2>3 DEF Puts, MInv, MoneyShape
<1>3. ASSUME NEW i \in Invoices
      PROVE  Allocated(i)' = Allocated(i) + line[i]
  <2>1. Column(i) \in [Payments -> Nat] /\ Allocated(i) = SumFunction(Column(i))
    BY ColumnSum DEF MInv
  <2>2. Column(i)' \in [Payments -> Nat] /\ Allocated(i)' = SumFunction(Column(i)')
    BY <1>2, ColumnSumNext
  <2>3. Column(i)[p] = alloc[p][i]
    BY DEF Column, ColumnOf, Puts, MInv, MoneyShape, BlankRows
  <2>4. Column(i)'[p] = alloc[p][i] + line[i]
    BY DEF Column, ColumnOf, Puts, MInv, MoneyShape
  <2>5. \A q \in Payments \ {p} : Column(i)'[q] = Column(i)[q]
    BY DEF Column, ColumnOf, Puts, MInv, MoneyShape
  <2>6. SumFunction(Column(i)') = SumFunction(Column(i)) - Column(i)[p] + Column(i)'[p]
    BY <2>1, <2>2, <2>5, PaymentsFinite, SumChangedAt
  <2>7. alloc[p][i] \in Nat /\ line[i] \in Nat
    BY DEF MInv, MoneyShape
  <2>8. QED
    BY <1>1, <2>1, <2>2, <2>3, <2>4, <2>6, <2>7
<1>4. QED
  BY <1>2, <1>3

LEMMA PutsKeeps ==
  ASSUME MInv, NEW p \in Payments, NEW line \in [Invoices -> Nat], Puts(p, line)
  PROVE  MoneyShape' /\ BlankRows' /\ PaidMatchesAllocations' /\ WithinAmount'
<1>1. MoneyShape' /\ \A i \in Invoices : Allocated(i)' = Allocated(i) + line[i]
  BY PutsAdds
<1>2. BlankRows'
  BY DEF MInv, MoneyShape, BlankRows, Puts
<1>3. PaidMatchesAllocations'
  <2> SUFFICES ASSUME NEW i \in Invoices
               PROVE  amountPaid'[i] = Allocated(i)'
    BY DEF PaidMatchesAllocations
  <2>1. amountPaid'[i] = IF line[i] > 0 THEN Allocated(i) + line[i] ELSE amountPaid[i]
    BY DEF Puts
  <2>2. amountPaid[i] = Allocated(i) /\ Allocated(i) \in Nat /\ line[i] \in Nat
    BY ColumnSum DEF MInv, PaidMatchesAllocations
  <2>3. Allocated(i)' = Allocated(i) + line[i]
    BY <1>1
  <2>4. QED
    BY <2>1, <2>2, <2>3
<1>4. WithinAmount'
  <2> SUFFICES ASSUME NEW q \in Payments
               PROVE  SumFunction(alloc'[q]) <= amount'[q]
    BY DEF WithinAmount, Used
  <2>1. CASE q = p
    <3> DEFINE row == [i \in Invoices |-> alloc[p][i] + line[i]]
    <3>1. alloc'[p] = row
      BY DEF Puts, MInv, MoneyShape
    <3>2. /\ alloc[p] \in [Invoices -> Nat] /\ row \in [Invoices -> Nat]
          /\ \A i \in Invoices : row[i] = alloc[p][i] + line[i]
      BY DEF MInv, MoneyShape
    <3> HIDE DEF row
    <3>3. SumFunction(row) = SumFunction(alloc[p]) + SumFunction(line)
      BY <3>2, LedgerAssumption, SumPlus
    <3>4. QED
      BY <2>1, <3>1, <3>3 DEF Puts, Used
  <2>2. CASE q # p
    <3>1. alloc'[q] = alloc[q] /\ amount'[q] = amount[q]
      BY <2>2 DEF Puts, MInv, MoneyShape
    <3>2. SumFunction(alloc[q]) <= amount[q]
      BY DEF MInv, WithinAmount, Used
    <3>3. QED
      BY <3>1, <3>2
  <2>3. QED
    BY <2>1, <2>2
<1>5. QED
  BY <1>1, <1>2, <1>3, <1>4

LEMMA TakesBackTakes ==
  ASSUME MInv, NEW p \in Payments, TakesBack(p)
  PROVE  /\ MoneyShape'
         /\ \A i \in Invoices : /\ Allocated(i)' = Allocated(i) - alloc[p][i]
                                /\ alloc[p][i] \in Nat /\ Allocated(i)' \in Nat
<1>1. MoneyShape'
  <2>1. TakenOff(p) \in [Invoices -> Nat]
    BY DEF MInv, MoneyShape, TakenOff, Most
  <2>2. QED
    BY <2>1 DEF TakesBack, MInv, MoneyShape
<1>2. ASSUME NEW i \in Invoices
      PROVE  /\ Allocated(i)' = Allocated(i) - alloc[p][i]
             /\ alloc[p][i] \in Nat /\ Allocated(i)' \in Nat
  <2>1. Column(i) \in [Payments -> Nat] /\ Allocated(i) = SumFunction(Column(i))
    BY ColumnSum DEF MInv
  <2>2. Column(i)' \in [Payments -> Nat] /\ Allocated(i)' = SumFunction(Column(i)')
    BY <1>1, ColumnSumNext
  <2>3. Column(i)[p] = alloc[p][i] /\ Column(i)'[p] = 0
    BY DEF Column, ColumnOf, TakesBack, MInv, MoneyShape
  <2>4. \A q \in Payments \ {p} : Column(i)'[q] = Column(i)[q]
    BY DEF Column, ColumnOf, TakesBack, MInv, MoneyShape
  <2>5. SumFunction(Column(i)') = SumFunction(Column(i)) - Column(i)[p] + Column(i)'[p]
    BY <2>1, <2>2, <2>4, PaymentsFinite, SumChangedAt
  <2>6. alloc[p][i] \in Nat /\ SumFunction(Column(i)) \in Nat /\ SumFunction(Column(i)') \in Nat
    BY <2>1, <2>2, PaymentsFinite, SumNat DEF MInv, MoneyShape
  <2>7. QED
    BY <2>1, <2>2, <2>3, <2>5, <2>6
<1>3. QED
  BY <1>1, <1>2

LEMMA TakesBackKeeps ==
  ASSUME MInv, NEW p \in Payments, TakesBack(p)
  PROVE  MoneyShape' /\ BlankRows' /\ PaidMatchesAllocations' /\ WithinAmount'
<1>1. MoneyShape'
  BY TakesBackTakes
<1>2. BlankRows'
  BY DEF MInv, MoneyShape, BlankRows, TakesBack
<1>3. PaidMatchesAllocations'
  <2> SUFFICES ASSUME NEW i \in Invoices
               PROVE  amountPaid'[i] = Allocated(i)'
    BY DEF PaidMatchesAllocations
  <2>1. amountPaid'[i] = Most(0, amountPaid[i] - alloc[p][i])
    BY DEF TakesBack, TakenOff
  <2>2. amountPaid[i] = Allocated(i) /\ Allocated(i) \in Nat
    BY ColumnSum DEF MInv, PaidMatchesAllocations
  <2>3. /\ Allocated(i)' = Allocated(i) - alloc[p][i]
        /\ alloc[p][i] \in Nat /\ Allocated(i)' \in Nat
    BY TakesBackTakes
  <2>4. QED
    BY <2>1, <2>2, <2>3 DEF Most
<1>4. WithinAmount'
  BY DEF TakesBack, MInv, WithinAmount, Used
<1>5. QED
  BY <1>1, <1>2, <1>3, <1>4

LEMMA MoneyQuietKeeps ==
  ASSUME MInv, MoneyQuiet
  PROVE  /\ MoneyShape' /\ BlankRows' /\ PaidMatchesAllocations' /\ WithinAmount'
         /\ \A i \in Invoices : Allocated(i)' = Allocated(i)
<1>1. \A i \in Invoices : Allocated(i)' = Allocated(i)
  BY DEF MoneyQuiet, Allocated, PaidBy, Live
<1>2. PaidMatchesAllocations'
  BY <1>1 DEF MoneyQuiet, MInv, PaidMatchesAllocations
<1>3. WithinAmount'
  BY DEF MoneyQuiet, MInv, WithinAmount, Used
<1>4. QED
  BY <1>1, <1>2, <1>3 DEF MoneyQuiet, MInv, MoneyShape, BlankRows

LEMMA MoneyInvariantStep ==
  ASSUME MInv, MoneyStep, HandTyped'
  PROVE  MInv'
BY PutsKeeps, TakesBackKeeps, MoneyQuietKeeps DEF MoneyStep, MInv

(* With no invoice named twice in a request, what is put on an invoice fits. *)
LEMMA NeverOverpaidStep ==
  ASSUME Repeats = FALSE, MInv, NeverOverpaid, MoneyStep
  PROVE  NeverOverpaid'
<1> SUFFICES ASSUME NEW i \in Invoices
             PROVE  Allocated(i)' <= Total[i]
  BY DEF NeverOverpaid
<1>1. Allocated(i) \in Nat /\ Allocated(i) <= Total[i] /\ Total[i] \in Nat
  BY ColumnSum, LedgerAssumption DEF MInv, NeverOverpaid
<1>2. CASE MoneyQuiet
  BY <1>1, <1>2, MoneyQuietKeeps
<1>3. ASSUME NEW p \in Payments, NEW line \in [Invoices -> Nat], Puts(p, line)
      PROVE  Allocated(i)' <= Total[i]
  <2>1. Allocated(i)' = Allocated(i) + line[i] /\ line[i] \in Nat
    BY <1>3, PutsAdds
  <2>2. line[i] > 0 => Allocated(i) + line[i] <= Total[i]
    BY <1>3 DEF Puts, Fitting
  <2>3. QED
    BY <1>1, <2>1, <2>2
<1>4. ASSUME NEW p \in Payments, TakesBack(p)
      PROVE  Allocated(i)' <= Total[i]
  <2>1. Allocated(i)' = Allocated(i) - alloc[p][i] /\ alloc[p][i] \in Nat
    BY <1>4, TakesBackTakes
  <2>2. QED
    BY <1>1, <2>1
<1>5. QED
  BY <1>2, <1>3, <1>4 DEF MoneyStep

LEMMA MoneyInit ==
  ASSUME Init
  PROVE  MInv /\ NeverOverpaid
<1>1. MoneyShape /\ BlankRows /\ HandTyped
  BY DEF Init, Nothing, MoneyShape, BlankRows, HandTyped
<1>2. \A i \in Invoices : Allocated(i) = 0
  <2> TAKE i \in Invoices
  <2>1. Column(i) \in [Payments -> Nat] /\ Allocated(i) = SumFunction(Column(i))
    BY <1>1, ColumnSum
  <2>2. \A p \in Payments : Column(i)[p] = 0
    BY DEF Init, Column, ColumnOf
  <2>3. QED
    BY <2>1, <2>2, PaymentsFinite, SumZero
<1>3. \A p \in Payments : Used(p) = 0
  BY <1>1, BlankUsesNothing DEF Init
<1>4. QED
  BY <1>1, <1>2, <1>3, LedgerAssumption
  DEF Init, Nothing, MInv, PaidMatchesAllocations, WithinAmount, NeverOverpaid

(* The amounts keep their types, amountPaid is the sum of the standing      *)
(* allocations and no payment is allocated above its amount.               *)
THEOREM MoneyInductive == Spec => []MInv
<1>1. Init => MInv
  BY MoneyInit
<1>2. MInv /\ [Next]_vars => MInv'
  BY MoneyInvariantStep, MoneySteps
<1>3. QED
  BY <1>1, <1>2, PTL DEF Spec

(* amountPaid never drifts from the allocations, whatever is recorded,      *)
(* allocated, credited and reversed, in any order: recording recounts it,   *)
(* reversing subtracts from it.                                            *)
THEOREM PaidIsAllocated == Spec => []PaidMatchesAllocations
<1>1. MInv => PaidMatchesAllocations
  BY DEF MInv
<1>2. QED
  BY <1>1, MoneyInductive, PTL

(* No payment is ever allocated above its amount, however often money is    *)
(* allocated from it and although an invoice may be named twice at once.   *)
THEOREM MoneyIsThere == Spec => []WithinAmount
<1>1. MInv => WithinAmount
  BY DEF MInv
<1>2. QED
  BY <1>1, MoneyInductive, PTL

(* While no request names an invoice twice, the standing allocations of an  *)
(* invoice never exceed its total.  (A request that does can overpay it     *)
(* through allocatePayment, which looks at each line alone.)               *)
THEOREM InvoicesNeverOverpaid ==
  ASSUME Repeats = FALSE
  PROVE  Spec => []NeverOverpaid
<1>1. Init => MInv /\ NeverOverpaid
  BY MoneyInit
<1>2. MInv /\ NeverOverpaid /\ [Next]_vars => NeverOverpaid'
  BY NeverOverpaidStep, MoneySteps
<1>3. QED
  BY <1>1, <1>2, MoneyInductive, PTL DEF Spec
-----------------------------------------------------------------------------
(* The ledger implements ReceivableAccount while no request names an        *)
(* invoice twice.                                                          *)

AccountInv == IInv /\ MInv /\ NeverOverpaid
OwedNow == [i \in Invoices |-> Total[i] - amountPaid[i]]
Lowers == \A i \in Invoices : amountPaid'[i] >= amountPaid[i]
Raises == \A i \in Invoices : amountPaid'[i] <= amountPaid[i]

(* What invoices owe stays between nothing and their totals. *)
LEMMA OwedFits ==
  ASSUME NEW paid \in [Invoices -> Nat], \A i \in Invoices : paid[i] <= Total[i]
  PROVE  [i \in Invoices |-> Total[i] - paid[i]] \in Account!Owing
<1> SUFFICES ASSUME NEW i \in Invoices
             PROVE  /\ Total[i] - paid[i] \in Int
                    /\ 0 <= Total[i] - paid[i] /\ Total[i] - paid[i] <= Total[i]
  BY DEF Account!Owing
<1>1. paid[i] \in Nat /\ Total[i] \in Nat
  BY LedgerAssumption
<1>2. QED
  BY <1>1

LEMMA LowersOwed ==
  ASSUME AccountInv, AccountInv', Lowers
  PROVE  Account!Lowered
<1>1. /\ amountPaid' \in [Invoices -> Nat]
      /\ \A i \in Invoices : amountPaid'[i] <= Total[i]
  BY DEF AccountInv, MInv, MoneyShape, PaidMatchesAllocations, NeverOverpaid
<1>2. OwedNow' \in Account!Owing
  BY <1>1, OwedFits DEF OwedNow
<1>3. \A i \in Invoices : Total[i] - amountPaid'[i] <= Total[i] - amountPaid[i]
  BY LedgerAssumption DEF Lowers, AccountInv, MInv, MoneyShape
<1>4. QED
  BY <1>2, <1>3 DEF OwedNow, Account!Lowered, Account!Owing

LEMMA RaisesOwed ==
  ASSUME AccountInv, AccountInv', Raises
  PROVE  Account!Raised
<1>1. /\ amountPaid' \in [Invoices -> Nat]
      /\ \A i \in Invoices : amountPaid'[i] <= Total[i]
  BY DEF AccountInv, MInv, MoneyShape, PaidMatchesAllocations, NeverOverpaid
<1>2. OwedNow' \in Account!Owing
  BY <1>1, OwedFits DEF OwedNow
<1>3. \A i \in Invoices : Total[i] - amountPaid'[i] >= Total[i] - amountPaid[i]
  BY LedgerAssumption DEF Raises, AccountInv, MInv, MoneyShape
<1>4. QED
  BY <1>2, <1>3 DEF OwedNow, Account!Raised, Account!Owing

(* A step that leaves payments not voided lowers what is owed, one that     *)
(* voids a payment raises it.                                              *)
LEMMA OwedMoves ==
  ASSUME AccountInv, MInv', MoneyStep
  PROVE  \/ Lowers /\ \A p \in Payments : state[p] # "voided" => state'[p] # "voided"
         \/ Raises /\ \E p \in Payments : state[p] = "recorded" /\ state'[p] = "voided"
<1>1. \A i \in Invoices : /\ amountPaid[i] = Allocated(i) /\ amountPaid'[i] = Allocated(i)'
                          /\ amountPaid[i] \in Nat /\ amountPaid'[i] \in Nat
  BY DEF AccountInv, MInv, PaidMatchesAllocations, MoneyShape
<1>2. CASE MoneyQuiet
  BY <1>1, <1>2 DEF MoneyQuiet, Lowers
<1>3. ASSUME NEW p \in Payments, NEW line \in [Invoices -> Nat], Puts(p, line)
      PROVE  Lowers /\ \A q \in Payments : state[q] # "voided" => state'[q] # "voided"
  <2>1. \A i \in Invoices : Allocated(i)' = Allocated(i) + line[i]
    BY <1>3, PutsAdds DEF AccountInv
  <2>2. Lowers
    BY <1>1, <2>1 DEF Lowers
  <2>3. QED
    BY <1>3, <2>2 DEF Puts, AccountInv, MInv, MoneyShape
<1>4. ASSUME NEW p \in Payments, TakesBack(p)
      PROVE  Raises /\ state[p] = "recorded" /\ state'[p] = "voided"
  <2>1. \A i \in Invoices : Allocated(i)' = Allocated(i) - alloc[p][i] /\ alloc[p][i] \in Nat
    BY <1>4, TakesBackTakes DEF AccountInv
  <2>2. Raises
    BY <1>1, <2>1 DEF Raises
  <2>3. QED
    BY <1>4, <2>2 DEF TakesBack, AccountInv, MInv, MoneyShape
<1>5. QED
  BY <1>2, <1>3, <1>4 DEF MoneyStep

StandingNow == [k \in Submissions |-> Standing(k)]

LEMMA StandingAdds ==
  ASSUME IInv, NEW p \in Payments, NEW k \in Submissions \cup {NoKey}, NEW n \in Nat,
         Adds(p, k, n)
  PROVE  IF k = NoKey THEN StandingNow' = StandingNow
         ELSE /\ StandingNow[k] = "new"
              /\ StandingNow' = [StandingNow EXCEPT ![k] = "received"]
<1>1. /\ state[p] = "absent" /\ key[p] = NoKey /\ state'[p] = "recorded" /\ key'[p] = k
      /\ \A q \in Payments \ {p} : state'[q] = state[q] /\ key'[q] = key[q]
  BY DEF Adds, IInv, Shape, FreshRows
<1>2. \A j \in Submissions \ {k} : Recorded(j)' = Recorded(j) /\ KeyTaken(j)' = KeyTaken(j)
  BY <1>1, LedgerAssumption DEF Recorded, KeyTaken, Live
<1>3. \A j \in Submissions \ {k} : Standing(j)' = Standing(j)
  BY <1>2 DEF Standing
<1>4. CASE k = NoKey
  BY <1>3, <1>4, LedgerAssumption DEF StandingNow
<1>5. CASE k # NoKey
  <2>1. ~ KeyTaken(k) /\ ~ Recorded(k) /\ k \in Submissions
    BY <1>5 DEF Adds, Recorded, KeyTaken, Live
  <2>2. Recorded(k)'
    BY <1>1 DEF Recorded, Live
  <2>3. Standing(k) = "new" /\ Standing(k)' = "received"
    BY <2>1, <2>2 DEF Standing
  <2>4. QED
    BY <1>3, <1>5, <2>1, <2>3 DEF StandingNow
<1>6. QED
  BY <1>4, <1>5

LEMMA StandingReverses ==
  ASSUME IInv, NEW p \in Payments, Reverses(p), NEW k, key[p] = k
  PROVE  IF k = NoKey THEN StandingNow' = StandingNow
         ELSE /\ k \in Submissions /\ StandingNow[k] = "received"
              /\ StandingNow' = [StandingNow EXCEPT ![k] = "returned"]
<1>1. /\ state[p] = "recorded" /\ state'[p] = "voided" /\ key' = key
      /\ \A q \in Payments \ {p} : state'[q] = state[q]
  BY DEF Reverses, IInv, Shape
<1>2. \A j \in Submissions \ {k} : Recorded(j)' = Recorded(j) /\ KeyTaken(j)' = KeyTaken(j)
  BY <1>1 DEF Recorded, KeyTaken, Live
<1>3. \A j \in Submissions \ {k} : Standing(j)' = Standing(j)
  BY <1>2 DEF Standing
<1>4. CASE k = NoKey
  BY <1>3, <1>4, LedgerAssumption DEF StandingNow
<1>5. CASE k # NoKey
  <2>1. k \in Submissions /\ Recorded(k)
    BY <1>1, <1>5 DEF IInv, Shape, Recorded, Live
  <2>2. \A q \in Payments : key[q] = k => q = p
    BY <1>5 DEF IInv, OncePerKey
  <2>3. ~ Recorded(k)' /\ KeyTaken(k)'
    BY <1>1, <2>2 DEF Recorded, KeyTaken, Live
  <2>4. Standing(k) = "received" /\ Standing(k)' = "returned"
    BY <2>1, <2>3 DEF Standing
  <2>5. \A j \in Submissions : Standing(j)' = IF j = k THEN "returned" ELSE Standing(j)
    BY <1>3, <2>4
  <2>6. QED
    BY <1>5, <2>1, <2>4, <2>5 DEF StandingNow
<1>6. QED
  BY <1>4, <1>5

LEMMA AccountStep ==
  ASSUME AccountInv, AccountInv', RowStep, MoneyStep
  PROVE  Account!Next
<1>1. \/ Account!Lowered /\ \A p \in Payments : state[p] # "voided" => state'[p] # "voided"
      \/ Account!Raised /\ \E p \in Payments : state[p] = "recorded" /\ state'[p] = "voided"
  BY OwedMoves, LowersOwed, RaisesOwed DEF AccountInv
<1>2. ASSUME state' = state \/ \E p \in Payments : state'[p] = "recorded" /\ state' = [state EXCEPT ![p] = "recorded"]
      PROVE  Account!Lowered
  BY <1>1, <1>2 DEF AccountInv, IInv, Shape
<1>3. ASSUME UNCHANGED <<state, key>>
      PROVE  Account!Next
  <2>1. StandingNow' = StandingNow
    BY <1>3 DEF StandingNow, Standing, Recorded, KeyTaken, Live
  <2>2. QED
    BY <1>2, <1>3, <2>1 DEF StandingNow, Account!Apply, Account!Next
<1>4. ASSUME NEW p \in Payments, NEW k \in Submissions \cup {NoKey}, NEW n \in Nat, Adds(p, k, n)
      PROVE  Account!Next
  <2>1. Account!Lowered
    BY <1>2, <1>4 DEF Adds, AccountInv, IInv, Shape
  <2>2. QED
    BY <1>4, <2>1, StandingAdds
    DEF AccountInv, StandingNow, Account!Apply, Account!Receive, Account!Next
<1>5. ASSUME NEW p \in Payments, Reverses(p)
      PROVE  Account!Next
  <2>1. state[p] # "voided" /\ state'[p] = "voided"
    BY <1>5 DEF Reverses, AccountInv, IInv, Shape
  <2>2. Account!Raised
    BY <1>1, <2>1
  <2>3. QED
    BY <1>5, <2>2, StandingReverses
    DEF AccountInv, StandingNow, Account!TakeBack, Account!Return, Account!Next
<1>6. QED
  BY <1>3, <1>4, <1>5 DEF RowStep, QuietRows, AllocatesTo

LEMMA AccountInit ==
  ASSUME Init
  PROVE  Account!Init
<1>1. \A k \in Submissions : Standing(k) = "new"
  BY LedgerAssumption DEF Init, Standing, Recorded, KeyTaken, Live
<1>2. \A i \in Invoices : Total[i] - amountPaid[i] = Total[i]
  BY LedgerAssumption DEF Init, Nothing
<1>3. [i \in Invoices |-> Total[i] - amountPaid[i]] = Total
  BY <1>2, LedgerAssumption
<1>4. QED
  BY <1>1, <1>3 DEF Account!Init

(* While no request names an invoice twice, the ledger implements the        *)
(* receivable account: each step of its rows receives, applies, returns or  *)
(* takes back money, and a submission is received and returned once.        *)
THEOREM LedgerKeepsAccount ==
  ASSUME Repeats = FALSE
  PROVE  Spec => KeepsAccount
<1>1. Init => Account!Init
  BY AccountInit
<1>2. AccountInv /\ AccountInv' /\ [Next]_vars => [Account!Next]_(Account!vars)
  BY AccountStep, StepKinds, MoneySteps DEF AccountInv, IInv
<1>3. Spec => []AccountInv
  BY LedgerInductive, MoneyInductive, InvoicesNeverOverpaid, PTL DEF AccountInv
<1>4. QED
  BY <1>1, <1>2, <1>3, PTL DEF Spec, KeepsAccount, Account!Spec


-----------------------------------------------------------------------------
(* Deposits: the ledger's rows and money, with the rows that applied a     *)
(* deposit.                                                                *)

(* No payment has more entries than the bound, or one reversed that is not  *)
(* there.                                                                  *)
EntriesBound ==
  /\ \A p \in Payments : entries[p] \in 0..MaxEntries /\ reversed[p] \subseteq 1..entries[p]
  /\ credited \in [Invoices -> Nat]

LedgerInv == IInv /\ MInv /\ EntriesBound

(* A row that applied a deposit put all of its money on one invoice and has *)
(* one entry, which stands as long as the application does.                 *)
UsedRow(p) ==
  /\ use[p] \in Uses
  /\ Used(p) = amount[p] /\ entries[p] = 1
  /\ \/ state[p] = "recorded" /\ use[p].status = "applied" /\ reversed[p] = {}
     \/ state[p] = "voided" /\ use[p].status = "reversed" /\ reversed[p] = {1}

UsesFollow ==
  /\ use \in [Payments -> Uses \cup {NoUse}]
  /\ \A p \in Payments : use[p] = NoUse \/ UsedRow(p)

DepositRows ==
  /\ status \in [Deposits -> {"none", "partially_paid", "fully_paid", "completed", "cancelled"}]
  /\ balance \in [Deposits -> Nat]
  /\ receipt \in [Receipts -> Nat]
  /\ refunded \in [Deposits -> Nat]

(* What was paid in and what is still to be paid in are the order's value.  *)
PaidInFits ==
  \A d \in Deposits :
    IF status[d] = "none"
    THEN balance[d] = 0 /\ \A k \in Receipts : ReceiptFor[k] = d => receipt[k] = 0
    ELSE Received(d) + balance[d] = Value[d]

NotOverspent == \A d \in Deposits : Applied(d) + refunded[d] <= Received(d)

DInv == /\ LedgerInv /\ UsesFollow /\ DepositRows
        /\ PaidInFits /\ NotOverspent /\ CompletedIsSettled


(* The ledger's steps under DepositNext: its own, and an applied deposit. *)

EntriesFit == \A q \in Payments : entries[q] \in 0..MaxEntries /\ reversed[q] \subseteq 1..entries[q]

LEMMA PostsBounded ==
  ASSUME IInv, EntriesBound, NEW p \in Payments, PostJournal(p)
  PROVE  EntriesFit'
<1>1. CASE UNCHANGED journalVars
  BY <1>1 DEF journalVars, EntriesBound, EntriesFit
<1>2. CASE /\ entries[p] < MaxEntries
           /\ entries' = [entries EXCEPT ![p] = entries[p] + 1] /\ UNCHANGED reversed
  <2>1. entries'[p] = entries[p] + 1 /\ \A q \in Payments \ {p} : entries'[q] = entries[q]
    BY <1>2 DEF IInv, Shape
  <2>2. entries[p] \in 0..MaxEntries /\ MaxEntries \in Nat
    BY LedgerAssumption DEF EntriesBound
  <2>3. entries'[p] \in 0..MaxEntries /\ 1..entries[p] \subseteq 1..entries'[p]
    BY <1>2, <2>1, <2>2
  <2>4. QED
    BY <1>2, <2>1, <2>3 DEF EntriesBound, EntriesFit
<1>3. QED
  BY <1>1, <1>2 DEF PostJournal

LEMMA FirstEntryBounded ==
  ASSUME IInv, EntriesBound, NEW p \in Payments, state[p] = "absent",
         entries' = [entries EXCEPT ![p] = 1], reversed' = reversed
  PROVE  EntriesFit'
<1>1. entries'[p] = 1 /\ \A q \in Payments \ {p} : entries'[q] = entries[q]
  BY DEF IInv, Shape
<1>2. reversed'[p] = {} /\ 1 \in 0..MaxEntries
  BY LedgerAssumption DEF IInv, FreshRows
<1>3. QED
  BY <1>1, <1>2 DEF EntriesBound, EntriesFit

LEMMA RecordBounded ==
  ASSUME IInv, EntriesBound, NEW p \in Payments, NEW k, NEW a, NEW ls, Record(p, k, a, ls)
  PROVE  EntriesFit'
BY PostsBounded DEF Record

LEMMA BoundStep ==
  ASSUME LedgerInv, [Next]_vars
  PROVE  EntriesBound'
<1> USE DEF LedgerInv
<1>1. CASE UNCHANGED vars
  BY <1>1 DEF vars, journalVars, EntriesBound
<1>2. ASSUME UNCHANGED journalVars PROVE EntriesFit'
  BY <1>2 DEF journalVars, EntriesBound, EntriesFit
<1>3. ASSUME NEW h \in Handlers, NEW k \in Submissions, ReadInvoice(h, k)
      PROVE  EntriesFit' /\ credited' = credited
  BY <1>2, <1>3 DEF ReadInvoice
<1>4. ASSUME NEW h \in Handlers, CommitInvoicePayment(h)
      PROVE  EntriesFit' /\ credited' = credited
  BY <1>4, RecordBounded DEF CommitInvoicePayment
<1>5. ASSUME NEW h \in Handlers, LeaveInvoicePayment(h)
      PROVE  EntriesFit' /\ credited' = credited
  BY <1>2, <1>5 DEF LeaveInvoicePayment
<1>6. ASSUME NEW k \in Submissions, RecordReceipt(k)
      PROVE  EntriesFit' /\ credited' = credited
  BY <1>6, RecordBounded DEF RecordReceipt
<1>7. ASSUME NEW p \in Payments, Allocate(p)
      PROVE  EntriesFit' /\ credited' = credited
  BY <1>7, PostsBounded DEF Allocate
<1>8. ASSUME NEW i \in Invoices, NEW a \in 1..Total[i], CreditInvoice(i, a)
      PROVE  EntriesFit' /\ credited' \in [Invoices -> Nat]
  <2>1. credited' = [credited EXCEPT ![i] = credited[i] + a] /\ reversed' = reversed
    BY <1>8 DEF CreditInvoice
  <2>2. credited' \in [Invoices -> Nat]
    BY <2>1, LedgerAssumption DEF EntriesBound
  <2>3. CASE UNCHANGED entries
    BY <2>1, <2>2, <2>3 DEF EntriesBound, EntriesFit
  <2>4. CASE \E p \in Payments : state[p] = "absent" /\ entries' = [entries EXCEPT ![p] = 1]
    BY <2>1, <2>2, <2>4, FirstEntryBounded
  <2>5. QED
    BY <1>8, <2>2, <2>3, <2>4 DEF CreditInvoice, NewRow, NextRow
<1>9. ASSUME NEW p \in Payments, Reverse(p)
      PROVE  EntriesFit' /\ credited' = credited
  <2>1. /\ entries' = entries /\ credited' = credited
        /\ reversed' = [reversed EXCEPT ![p] = reversed[p] \cup EntriesToReverse(p)]
    BY <1>9 DEF Reverse
  <2>2. EntriesToReverse(p) \subseteq 1..entries[p]
    BY DEF EntriesToReverse, IInv, Shape
  <2>3. QED
    BY <2>1, <2>2 DEF EntriesBound, EntriesFit, IInv, Shape
<1>10. ASSUME EntriesFit', credited' \in [Invoices -> Nat] PROVE EntriesBound'
  BY <1>10 DEF EntriesBound, EntriesFit
<1>11. credited \in [Invoices -> Nat]
  BY DEF EntriesBound
<1> HIDE DEF LedgerInv
<1>12. QED
  BY <1>1, <1>3, <1>4, <1>5, <1>6, <1>7, <1>8, <1>9, <1>10, <1>11 DEF Next

LEMMA LedgerInvStep ==
  ASSUME LedgerInv, [Next]_vars
  PROVE  LedgerInv'
<1>1. IInv'
  BY InvariantStep, StepKinds, HandStep DEF LedgerInv, IInv
<1>2. MInv'
  BY MoneyInvariantStep, MoneySteps DEF LedgerInv
<1>3. QED
  BY <1>1, <1>2, BoundStep DEF LedgerInv

(* The ledger's own steps leave a row alone that is allocated in full.      *)
SameRow(q) ==
  /\ state'[q] = state[q] /\ amount'[q] = amount[q] /\ alloc'[q] = alloc[q]
  /\ entries'[q] = entries[q] /\ reversed'[q] = reversed[q]

LEMMA OtherRowsSame ==
  ASSUME LedgerInv, NEW p \in Payments, NEW q \in Payments, q # p, PostJournal(p)
  PROVE  entries'[q] = entries[q] /\ reversed'[q] = reversed[q]
BY DEF PostJournal, journalVars, LedgerInv, IInv, Shape

LEMMA RecordLeaves ==
  ASSUME LedgerInv, NEW p \in Payments, NEW k, NEW a, NEW ls, Record(p, k, a, ls),
         NEW q \in Payments, state[q] # "absent"
  PROVE  SameRow(q)
<1>1. q # p
  BY DEF Record, NewRow, NextRow
<1>2. state'[q] = state[q] /\ amount'[q] = amount[q] /\ alloc'[q] = alloc[q]
  BY <1>1 DEF Record, NewRow, LedgerInv, MInv, MoneyShape
<1>3. QED
  BY <1>1, <1>2, OtherRowsSame DEF Record, SameRow

LEMMA NewRowLeaves ==
  ASSUME LedgerInv, NEW p \in Payments, NEW i, NEW a, NewRow(p, NoKey, a),
         alloc' = [alloc EXCEPT ![p][i] = a], entries' = [entries EXCEPT ![p] = 1],
         reversed' = reversed, NEW q \in Payments, state[q] # "absent"
  PROVE  SameRow(q) /\ q # p
<1>1. q # p
  BY DEF NewRow, NextRow
<1>2. QED
  BY <1>1 DEF NewRow, SameRow, LedgerInv, IInv, Shape, MInv, MoneyShape

LEMMA LedgerLeaves ==
  ASSUME LedgerInv, LedgerStep, NEW q \in Payments, state[q] # "absent", Used(q) = amount[q]
  PROVE  SameRow(q)
<1> USE DEF rowVars, paymentVars, journalVars
<1>1. ASSUME NEW h \in Handlers, NEW k \in Submissions, ReadInvoice(h, k) PROVE SameRow(q)
  BY <1>1 DEF ReadInvoice, SameRow
<1>2. ASSUME NEW h \in Handlers, CommitInvoicePayment(h) PROVE SameRow(q)
  BY <1>2, RecordLeaves DEF CommitInvoicePayment
<1>3. ASSUME NEW h \in Handlers, LeaveInvoicePayment(h) PROVE SameRow(q)
  BY <1>3 DEF LeaveInvoicePayment, SameRow
<1>4. ASSUME NEW k \in Submissions, RecordReceipt(k) PROVE SameRow(q)
  BY <1>4, RecordLeaves DEF RecordReceipt
<1>5. ASSUME NEW p \in Payments, Allocate(p) PROVE SameRow(q)
  <2>1. amount[q] \in Nat
    BY DEF LedgerInv, MInv, MoneyShape
  <2>2. Unallocated(q) = 0
    BY <2>1 DEF Unallocated, Most
  <2>3. q # p
    BY <1>5, <2>2 DEF Allocate
  <2>4. alloc'[q] = alloc[q]
    BY <1>5, <2>3 DEF Allocate, LedgerInv, MInv, MoneyShape
  <2>5. QED
    BY <1>5, <2>3, <2>4, OtherRowsSame DEF Allocate, SameRow
<1>6. ASSUME NEW i \in Invoices, NEW a \in 1..Total[i], CreditInvoice(i, a) PROVE SameRow(q)
  <2>1. CASE UNCHANGED <<rowVars, entries, journalId>>
    BY <1>6, <2>1 DEF CreditInvoice, SameRow
  <2>2. ASSUME NEW p \in Payments, NewRow(p, NoKey, Least(a, Residual(i))),
               alloc' = [alloc EXCEPT ![p][i] = Least(a, Residual(i))],
               entries' = [entries EXCEPT ![p] = 1]
        PROVE  SameRow(q)
    BY <1>6, <2>2, NewRowLeaves DEF CreditInvoice
  <2>3. QED
    BY <1>6, <2>1, <2>2 DEF CreditInvoice
<1>7. QED
  BY <1>1, <1>2, <1>3, <1>4, <1>5, <1>6 DEF LedgerStep


-----------------------------------------------------------------------------
(* The sums of a deposit. *)

ReceiptColumn(rc, d) == [k \in Receipts |-> IF ReceiptFor[k] = d THEN rc[k] ELSE 0]
UseColumn(us, am, d) ==
  [p \in Payments |-> IF us[p].deposit = d /\ us[p].status = "applied" THEN am[p] ELSE 0]

ReceivedOf(rc, d) == SumFunction([k \in {j \in Receipts : ReceiptFor[j] = d} |-> rc[k]])
AppliedOf(us, am, d) ==
  SumFunction([p \in {q \in {r \in Payments : us[r].deposit = d} : us[q].status = "applied"} |-> am[p]])

LEMMA ReceivedSum ==
  ASSUME NEW rc \in [Receipts -> Nat], NEW d
  PROVE  /\ ReceiptColumn(rc, d) \in [Receipts -> Nat]
         /\ ReceivedOf(rc, d) = SumFunction(ReceiptColumn(rc, d))
         /\ ReceivedOf(rc, d) \in Nat
<1> DEFINE T == {j \in Receipts : ReceiptFor[j] = d}
           g == [k \in T |-> rc[k]]
           f == ReceiptColumn(rc, d)
<1>1. /\ f \in [Receipts -> Nat] /\ T \in SUBSET Receipts /\ g \in [T -> Nat]
      /\ \A k \in T : f[k] = g[k]
      /\ \A k \in Receipts \ T : f[k] = 0
  BY DEF ReceiptColumn
<1>2. ReceivedOf(rc, d) = SumFunction(g) /\ IsFiniteSet(Receipts)
  BY DepositAssumption DEF ReceivedOf
<1> HIDE DEF f, g, T
<1>3. SumFunction(g) = SumFunction(f) /\ SumFunction(f) \in Nat
  BY <1>1, <1>2, SumPadded, SumNat
<1>4. QED
  BY <1>1, <1>2, <1>3 DEF f

LEMMA AppliedSum ==
  ASSUME NEW us, NEW am \in [Payments -> Nat], NEW d
  PROVE  /\ UseColumn(us, am, d) \in [Payments -> Nat]
         /\ AppliedOf(us, am, d) = SumFunction(UseColumn(us, am, d))
         /\ AppliedOf(us, am, d) \in Nat
<1> DEFINE T == {q \in {r \in Payments : us[r].deposit = d} : us[q].status = "applied"}
           g == [p \in T |-> am[p]]
           f == UseColumn(us, am, d)
<1>1. /\ f \in [Payments -> Nat] /\ T \in SUBSET Payments /\ g \in [T -> Nat]
      /\ \A p \in T : f[p] = g[p]
      /\ \A p \in Payments \ T : f[p] = 0
  BY DEF UseColumn
<1>2. AppliedOf(us, am, d) = SumFunction(g)
  BY DEF AppliedOf
<1> HIDE DEF f, g, T
<1>3. SumFunction(g) = SumFunction(f) /\ SumFunction(f) \in Nat
  BY <1>1, PaymentsFinite, SumPadded, SumNat
<1>4. QED
  BY <1>1, <1>2, <1>3 DEF f

(* One receipt, or one row, moves the sum by what it moves.                *)
LEMMA ReceivedMoves ==
  ASSUME NEW rc \in [Receipts -> Nat], NEW rd \in [Receipts -> Nat], NEW k \in Receipts,
         \A j \in Receipts : j # k => rd[j] = rc[j], NEW d
  PROVE  ReceivedOf(rd, d) = IF ReceiptFor[k] = d THEN ReceivedOf(rc, d) - rc[k] + rd[k]
                                                  ELSE ReceivedOf(rc, d)
<1> DEFINE f == ReceiptColumn(rc, d)
           g == ReceiptColumn(rd, d)
<1>1. /\ f \in [Receipts -> Nat] /\ g \in [Receipts -> Nat]
      /\ ReceivedOf(rc, d) = SumFunction(f) /\ ReceivedOf(rd, d) = SumFunction(g)
      /\ ReceivedOf(rc, d) \in Nat /\ ReceivedOf(rd, d) \in Nat
  BY ReceivedSum
<1>2. /\ \A j \in Receipts \ {k} : g[j] = f[j]
      /\ f[k] = IF ReceiptFor[k] = d THEN rc[k] ELSE 0
      /\ g[k] = IF ReceiptFor[k] = d THEN rd[k] ELSE 0
  BY DEF ReceiptColumn
<1> HIDE DEF f, g
<1>3. SumFunction(g) = SumFunction(f) - f[k] + g[k]
  BY <1>1, <1>2, DepositAssumption, SumChangedAt
<1>4. rc[k] \in Nat /\ rd[k] \in Nat
  OBVIOUS
<1>5. QED
  BY <1>1, <1>2, <1>3, <1>4

LEMMA AppliedMoves ==
  ASSUME NEW us, NEW am \in [Payments -> Nat], NEW ut, NEW an \in [Payments -> Nat],
         NEW p \in Payments, NEW d,
         \A q \in Payments : q # p => UseColumn(ut, an, d)[q] = UseColumn(us, am, d)[q]
  PROVE  AppliedOf(ut, an, d)
           = AppliedOf(us, am, d) - UseColumn(us, am, d)[p] + UseColumn(ut, an, d)[p]
<1> DEFINE f == UseColumn(us, am, d)
           g == UseColumn(ut, an, d)
<1>1. /\ f \in [Payments -> Nat] /\ g \in [Payments -> Nat]
      /\ AppliedOf(us, am, d) = SumFunction(f) /\ AppliedOf(ut, an, d) = SumFunction(g)
  BY AppliedSum
<1> HIDE DEF f, g
<1>2. SumFunction(g) = SumFunction(f) - f[p] + g[p]
  BY <1>1, PaymentsFinite, SumChangedAt DEF f, g
<1>3. QED
  BY <1>1, <1>2 DEF f, g

LEMMA AppliedSame ==
  ASSUME NEW us, NEW am \in [Payments -> Nat], NEW ut, NEW an \in [Payments -> Nat], NEW d,
         \A q \in Payments : UseColumn(ut, an, d)[q] = UseColumn(us, am, d)[q]
  PROVE  AppliedOf(ut, an, d) = AppliedOf(us, am, d)
<1>1. UseColumn(ut, an, d) = UseColumn(us, am, d)
  BY DEF UseColumn
<1>2. QED
  BY <1>1, AppliedSum

(* What the model's operators are, now and after a step. *)
LEMMA DepositSums ==
  ASSUME NEW d
  PROVE  /\ Received(d) = ReceivedOf(receipt, d) /\ Received(d)' = ReceivedOf(receipt', d)
         /\ Applied(d) = AppliedOf(use, amount, d) /\ Applied(d)' = AppliedOf(use', amount', d)
BY DEF Received, ReceivedOf, Applied, AppliedBy, UsesOf, AppliedOf

LEMMA SumsNat ==
  ASSUME LedgerInv, DepositRows
  PROVE  \A d \in Deposits : /\ Received(d) \in Nat /\ Applied(d) \in Nat /\ refunded[d] \in Nat
                             /\ Available(d) = Received(d) - refunded[d] - Applied(d)
                             /\ Available(d) \in Int
<1>1. amount \in [Payments -> Nat] /\ receipt \in [Receipts -> Nat]
  BY DEF LedgerInv, MInv, MoneyShape, DepositRows
<1>2. QED
  BY <1>1, DepositSums, ReceivedSum, AppliedSum DEF Available, DepositRows


LEMMA SumsNatNext ==
  ASSUME LedgerInv', DepositRows'
  PROVE  \A d \in Deposits : Received(d)' \in Nat /\ Applied(d)' \in Nat
<1>1. amount' \in [Payments -> Nat] /\ receipt' \in [Receipts -> Nat]
  BY DEF LedgerInv, MInv, MoneyShape, DepositRows
<1>2. QED
  BY <1>1, DepositSums, ReceivedSum, AppliedSum

-----------------------------------------------------------------------------
(* Each step of the deposits keeps the invariant. *)

LEMMA UsableFits ==
  ASSUME LedgerInv, DepositRows, NEW d \in Deposits, NEW i \in Invoices, NEW a \in 1..Usable(d, i)
  PROVE  a \in Nat \ {0} /\ a <= Available(d) /\ a <= Residual(i)
<1>1. Available(d) \in Int
  BY SumsNat
<1>2. Residual(i) \in Nat
  BY ColumnSum, LedgerAssumption DEF LedgerInv, MInv, Residual, Most
<1>3. QED
  BY <1>1, <1>2 DEF Usable, Least

(* The row an application writes. *)
Applies(d, i, a, p) ==
  /\ NewRow(p, NoKey, a) /\ alloc' = [alloc EXCEPT ![p][i] = a]
  /\ entries' = [entries EXCEPT ![p] = 1] /\ journalId' = [journalId EXCEPT ![p] = 1]
  /\ amountPaid' = [amountPaid EXCEPT ![i] = Allocated(i) + a]
  /\ UNCHANGED <<reversed, credited, hand>>

LEMMA ApplyInLedger ==
  ASSUME LedgerInv, NEW d, NEW i \in Invoices, NEW a \in Nat \ {0}, a <= Residual(i),
         NEW p \in Payments, Applies(d, i, a, p)
  PROVE  RowStep /\ MoneyStep /\ LedgerInv'
<1> USE DEF LedgerInv
<1>1. RowStep
  <2>1. OthersKept(p)
    BY DEF Applies, OthersKept, IInv, Shape
  <2>2. Adds(p, NoKey, 1)
    BY <2>1 DEF Applies, NewRow, NextRow, Adds, Posts
  <2>3. QED
    BY <2>2 DEF RowStep
<1>2. MoneyStep
  BY OneInvoicePuts DEF Applies, MoneyStep
<1>3. HandKeys' /\ HandTyped'
  BY DEF Applies, IInv, MInv, HandKeys, HandTyped
<1>4. EntriesBound'
  <2>1. EntriesFit'
    BY FirstEntryBounded DEF Applies, NewRow, NextRow
  <2>2. QED
    BY <2>1 DEF Applies, EntriesFit, EntriesBound
<1>5. QED
  BY <1>1, <1>2, <1>3, <1>4, InvariantStep, MoneyInvariantStep

(* An application made in full has all of its row's money on one invoice.   *)
LEMMA AppliedInFull ==
  ASSUME LedgerInv, NEW d, NEW i \in Invoices, NEW a \in Nat \ {0},
         NEW p \in Payments, Applies(d, i, a, p)
  PROVE  Used(p)' = a /\ amount'[p] = a /\ state[p] = "absent" /\ state'[p] = "recorded"
<1>1. state[p] = "absent" /\ state'[p] = "recorded" /\ amount'[p] = a
  BY DEF Applies, NewRow, NextRow, LedgerInv, MInv, MoneyShape
<1>2. alloc[p] \in [Invoices -> Nat] /\ \A j \in Invoices : alloc[p][j] = 0
  BY <1>1 DEF LedgerInv, MInv, MoneyShape, BlankRows
<1> DEFINE row == [alloc[p] EXCEPT ![i] = a]
<1>3. alloc'[p] = row
  BY DEF Applies, LedgerInv, MInv, MoneyShape
<1>4. row \in [Invoices -> Nat] /\ row[i] = a /\ \A j \in Invoices \ {i} : row[j] = 0
  BY <1>2
<1> HIDE DEF row
<1>5. SumFunction(row) = a
  BY <1>4, LedgerAssumption, SumAt
<1>6. QED
  BY <1>1, <1>3, <1>5 DEF Used

LEMMA NoUseUnused ==
  /\ \A d \in Deposits : NoUse.deposit # d
  /\ \A x \in Uses : x # NoUse /\ x.deposit \in Deposits /\ x.status \in {"applied", "reversed"}
BY DepositAssumption DEF NoUse, Uses

(* Rows that are left alone: nothing moves. *)
LEMMA UsesStay ==
  ASSUME LedgerInv, LedgerInv', DepositRows, UsesFollow, UNCHANGED <<use, receipt>>,
         \A q \in Payments : use[q] # NoUse => SameRow(q)
  PROVE  /\ UsesFollow'
         /\ \A d \in Deposits : Received(d)' = Received(d) /\ Applied(d)' = Applied(d)
<1>1. UsesFollow'
  <2>1. \A q \in Payments : use[q] # NoUse => UsedRow(q)'
    BY DEF UsesFollow, UsedRow, SameRow, Used
  <2>2. QED
    BY <2>1 DEF UsesFollow
<1>2. ASSUME NEW d \in Deposits
      PROVE  Received(d)' = Received(d) /\ Applied(d)' = Applied(d)
  <2>1. amount \in [Payments -> Nat] /\ amount' \in [Payments -> Nat]
    BY DEF LedgerInv, MInv, MoneyShape
  <2>2. \A q \in Payments : UseColumn(use', amount', d)[q] = UseColumn(use, amount, d)[q]
    BY NoUseUnused DEF UseColumn, SameRow
  <2>3. QED
    BY <2>1, <2>2, AppliedSame, DepositSums
<1>3. QED
  BY <1>1, <1>2

LEMMA ApplyMoves ==
  ASSUME LedgerInv, LedgerInv', DepositRows, UsesFollow, NEW d \in Deposits, NEW i \in Invoices,
         NEW a \in Nat \ {0}, NEW p \in Payments, Applies(d, i, a, p),
         NEW new \in Uses, new.deposit = d, new.status = "applied",
         use' \in [Payments -> Uses \cup {NoUse}],
         use'[p] = new, \A q \in Payments \ {p} : use'[q] = use[q],
         receipt' = receipt
  PROVE  /\ UsesFollow'
         /\ \A e \in Deposits :
              /\ Received(e)' = Received(e)
              /\ Applied(e)' = IF e = d THEN Applied(e) + a ELSE Applied(e)
<1>1. /\ use'[p] = new /\ use' \in [Payments -> Uses \cup {NoUse}]
      /\ \A q \in Payments \ {p} : use'[q] = use[q]
  OBVIOUS
<1>2. Used(p)' = a /\ amount'[p] = a /\ state[p] = "absent" /\ state'[p] = "recorded"
  BY AppliedInFull
<1>3. use[p] = NoUse
  BY <1>2 DEF UsesFollow, UsedRow
<1>4. \A q \in Payments \ {p} : state[q] # "absent" => SameRow(q)
  BY NewRowLeaves DEF Applies
<1>5. UsesFollow'
  <2>1. UsedRow(p)'
    <3>1. entries'[p] = 1 /\ reversed'[p] = {}
      BY <1>2 DEF Applies, LedgerInv, IInv, Shape, FreshRows
    <3>2. QED
      BY <3>1, <1>1, <1>2 DEF UsedRow
  <2>2. ASSUME NEW q \in Payments \ {p}, use[q] # NoUse
        PROVE  UsedRow(q)'
    <3>1. UsedRow(q) /\ SameRow(q) /\ use'[q] = use[q]
      BY <1>1, <1>4, <2>2 DEF UsesFollow, UsedRow
    <3>2. QED
      BY <3>1 DEF UsedRow, SameRow, Used
  <2>3. QED
    BY <1>1, <2>1, <2>2 DEF UsesFollow
<1>6. ASSUME NEW e \in Deposits
      PROVE  /\ Received(e)' = Received(e)
             /\ Applied(e)' = IF e = d THEN Applied(e) + a ELSE Applied(e)
  <2>1. amount \in [Payments -> Nat] /\ amount' \in [Payments -> Nat]
    BY DEF LedgerInv, MInv, MoneyShape
  <2>2. \A q \in Payments : q # p => UseColumn(use', amount', e)[q] = UseColumn(use, amount, e)[q]
    <3>1. \A q \in Payments : q # p => amount'[q] = amount[q]
      BY DEF Applies, NewRow, LedgerInv, MInv, MoneyShape
    <3>2. QED
      BY <3>1, <1>1 DEF UseColumn
  <2>3. /\ UseColumn(use, amount, e)[p] = 0
        /\ UseColumn(use', amount', e)[p] = IF e = d THEN a ELSE 0
    BY <1>1, <1>2, <1>3, NoUseUnused DEF UseColumn
  <2>4. AppliedOf(use', amount', e) = AppliedOf(use, amount, e)
           - UseColumn(use, amount, e)[p] + UseColumn(use', amount', e)[p]
    <3> DEFINE f == UseColumn(use, amount, e)
               g == UseColumn(use', amount', e)
    <3>1. /\ f \in [Payments -> Nat] /\ g \in [Payments -> Nat]
          /\ AppliedOf(use, amount, e) = SumFunction(f)
          /\ AppliedOf(use', amount', e) = SumFunction(g)
      BY <2>1, AppliedSum
    <3>2. \A q \in Payments \ {p} : g[q] = f[q]
      BY <2>2
    <3> HIDE DEF f, g
    <3>3. SumFunction(g) = SumFunction(f) - f[p] + g[p]
      BY <3>1, <3>2, PaymentsFinite, SumChangedAt
    <3>4. QED
      BY <3>1, <3>3 DEF f, g
  <2>5. AppliedOf(use, amount, e) \in Nat
    BY <2>1, AppliedSum
  <2>6. Received(e)' = Received(e)
    BY DepositSums
  <2>7. /\ Applied(e) \in Nat
        /\ Applied(e)' = IF e = d THEN Applied(e) + a ELSE Applied(e)
    BY <2>3, <2>4, <2>5, DepositSums
  <2>8. QED
    BY <2>6, <2>7
<1>7. QED
  BY <1>5, <1>6

LEMMA ReverseMoves ==
  ASSUME LedgerInv, LedgerInv', DepositRows, UsesFollow, NEW p \in Payments, ReversePayment(p)
  PROVE  /\ UsesFollow'
         /\ \A e \in Deposits : Received(e)' = Received(e)
         /\ \A e \in Deposits : Applied(e)' <= Applied(e)
         /\ \A e \in Deposits : use[p].deposit # e => Applied(e)' = Applied(e)
<1>1. /\ state[p] = "recorded" /\ state' = [state EXCEPT ![p] = "voided"]
      /\ UNCHANGED <<amount, alloc, entries, journalId, receipt>>
      /\ reversed' = [reversed EXCEPT ![p] = reversed[p] \cup EntriesToReverse(p)]
      /\ use' = ReversedUse(p)
  BY DEF ReversePayment, Reverse, Live
<1>2. \A q \in Payments \ {p} : use'[q] = use[q]
  BY <1>1 DEF ReversedUse, UsesFollow
<1>3. /\ use[p] = NoUse => use'[p] = NoUse
      /\ use[p] # NoUse => use'[p] = [use[p] EXCEPT !.status = "reversed"]
  BY <1>1 DEF ReversedUse, UsesFollow
<1>4. use[p] # NoUse => /\ use'[p] \in Uses /\ use'[p].status = "reversed"
                        /\ use'[p].deposit = use[p].deposit /\ use[p].status = "applied"
  BY <1>1, <1>3 DEF UsesFollow, UsedRow, Uses
<1>5. UsesFollow'
  <2> DEFINE back == [use[p] EXCEPT !.status = "reversed"]
  <2>0. use' \in [Payments -> Uses \cup {NoUse}]
    <3>1. use' = IF use[p] = NoUse THEN use ELSE [use EXCEPT ![p] = back]
      BY <1>1 DEF ReversedUse
    <3>2. use[p] # NoUse => back \in Uses
      BY <1>3, <1>4
    <3> HIDE DEF back
    <3>3. QED
      BY <3>1, <3>2 DEF UsesFollow
  <2>1. ASSUME use[p] # NoUse PROVE UsedRow(p)'
    <3>1. EntriesToReverse(p) = {1} /\ reversed[p] = {}
      BY <1>1, <2>1 DEF EntriesToReverse, UsesFollow, UsedRow, LedgerInv, IInv, Shape
    <3>2. reversed'[p] = {1} /\ state'[p] = "voided"
      BY <1>1, <3>1 DEF LedgerInv, IInv, Shape
    <3>3. Used(p)' = amount'[p] /\ entries'[p] = 1
      BY <1>1, <2>1 DEF UsesFollow, UsedRow, Used
    <3>4. QED
      BY <1>4, <2>1, <3>2, <3>3 DEF UsedRow
  <2>2. ASSUME NEW q \in Payments \ {p}, use[q] # NoUse PROVE UsedRow(q)'
    <3>1. state'[q] = state[q] /\ reversed'[q] = reversed[q]
      BY <1>1 DEF LedgerInv, IInv, Shape
    <3>2. UsedRow(q)
      BY <2>2 DEF UsesFollow
    <3>3. QED
      BY <1>1, <1>2, <3>1, <3>2 DEF UsedRow, Used
  <2>3. QED
    BY <2>0, <1>2, <1>3, <2>1, <2>2 DEF UsesFollow
<1>6. ASSUME NEW e \in Deposits
      PROVE  /\ Received(e)' = Received(e) /\ Applied(e)' <= Applied(e)
             /\ use[p].deposit # e => Applied(e)' = Applied(e)
  <2>1. amount \in [Payments -> Nat] /\ amount' \in [Payments -> Nat] /\ amount' = amount
    BY <1>1 DEF LedgerInv, MInv, MoneyShape
  <2>2. \A q \in Payments : q # p => UseColumn(use', amount', e)[q] = UseColumn(use, amount, e)[q]
    BY <2>1, <1>2 DEF UseColumn
  <2>3. /\ UseColumn(use', amount', e)[p] = 0
        /\ use[p].deposit # e => UseColumn(use, amount, e)[p] = 0
    BY <1>3, <1>4, NoUseUnused DEF UseColumn
  <2>4. AppliedOf(use', amount', e) = AppliedOf(use, amount, e)
           - UseColumn(use, amount, e)[p] + UseColumn(use', amount', e)[p]
    BY <2>1, <2>2, AppliedMoves
  <2>5. AppliedOf(use, amount, e) \in Nat /\ UseColumn(use, amount, e)[p] \in Nat
    BY <2>1, AppliedSum
  <2>6. Received(e)' = Received(e)
    BY <1>1, DepositSums
  <2>7. Applied(e)' = Applied(e) - UseColumn(use, amount, e)[p] /\ Applied(e) \in Nat
    BY <2>3, <2>4, <2>5, DepositSums
  <2>8. QED
    BY <2>3, <2>5, <2>6, <2>7
<1>7. QED
  BY <1>5, <1>6


(* A deposit that is not there has received nothing. *)
LEMMA NothingReceived ==
  ASSUME DepositRows, PaidInFits
  PROVE  \A d \in Deposits : status[d] = "none" => Received(d) = 0
<1> SUFFICES ASSUME NEW d \in Deposits, status[d] = "none"
             PROVE  Received(d) = 0
  OBVIOUS
<1> DEFINE f == ReceiptColumn(receipt, d)
<1>1. receipt \in [Receipts -> Nat]
  BY DEF DepositRows
<1>2. f \in [Receipts -> Nat] /\ Received(d) = SumFunction(f)
  BY <1>1, ReceivedSum, DepositSums
<1>3. \A k \in Receipts : f[k] = 0
  BY DEF PaidInFits, ReceiptColumn
<1> HIDE DEF f
<1>4. QED
  BY <1>2, <1>3, SumZero, DepositAssumption

(* Rows that did not change keep the ledger's part and the applications.   *)
LEMMA LedgerSame ==
  ASSUME LedgerInv, UNCHANGED vars
  PROVE  LedgerInv' /\ \A q \in Payments : SameRow(q)
<1>1. LedgerInv'
  BY LedgerInvStep
<1>2. QED
  BY <1>1 DEF vars, rowVars, paymentVars, journalVars, SameRow

LEMMA LedgerStepKeeps ==
  ASSUME DInv, LedgerStep
  PROVE  DInv'
<1>1. LedgerInv'
  BY LedgerInvStep DEF DInv, LedgerStep, Next
<1>2. /\ UNCHANGED <<status, balance, receipt, refunded, use>>
  BY DEF LedgerStep, depositVars
<1>3. \A q \in Payments : use[q] # NoUse => SameRow(q)
  BY LedgerLeaves DEF DInv, UsesFollow, UsedRow
<1>4. /\ UsesFollow'
      /\ \A d \in Deposits : Received(d)' = Received(d) /\ Applied(d)' = Applied(d)
  BY <1>1, <1>2, <1>3, UsesStay DEF DInv
<1>5. \A d \in Deposits : Available(d)' = Available(d)
  BY <1>2, <1>4 DEF Available
<1>6. DepositRows'
  BY <1>2 DEF DInv, DepositRows
<1>7. PaidInFits' /\ NotOverspent' /\ CompletedIsSettled'
  BY <1>2, <1>4, <1>5 DEF DInv, PaidInFits, NotOverspent, CompletedIsSettled
<1>8. QED
  BY <1>1, <1>4, <1>6, <1>7 DEF DInv

(* Money paid in, with the first receipt or with a later one. *)
PaysIn(d, k, x, b) ==
  /\ receipt[k] = 0
  /\ \/ status[d] = "none" /\ x + b = Value[d]
     \/ status[d] = "partially_paid" /\ x + b = balance[d]
  /\ receipt' = [receipt EXCEPT ![k] = x]
  /\ balance' = [balance EXCEPT ![d] = b]
  /\ status' = [status EXCEPT ![d] = StatusOf(b)]
  /\ UNCHANGED <<vars, refunded, use>>

LEMMA PaidInKeeps ==
  ASSUME DInv, NEW k \in Receipts, NEW x \in Nat, NEW b \in Nat,
         NEW d \in Deposits, d = ReceiptFor[k], PaysIn(d, k, x, b)
  PROVE  DInv'
<1>1. LedgerInv' /\ \A q \in Payments : SameRow(q)
  BY LedgerSame DEF DInv, PaysIn
<1>2. amount' = amount /\ use' = use /\ refunded' = refunded
  BY DEF vars, rowVars, paymentVars, PaysIn
<1>3. UsesFollow'
  BY <1>1, <1>2 DEF DInv, UsesFollow, UsedRow, SameRow, Used
<1>4. /\ status'[d] = StatusOf(b) /\ balance'[d] = b /\ receipt'[k] = x
      /\ \A e \in Deposits \ {d} : status'[e] = status[e] /\ balance'[e] = balance[e]
      /\ \A j \in Receipts : j # k => receipt'[j] = receipt[j]
      /\ receipt \in [Receipts -> Nat] /\ receipt' \in [Receipts -> Nat] /\ receipt[k] = 0
  BY DEF DInv, DepositRows, PaysIn
<1>5. DepositRows'
  BY <1>2 DEF DInv, DepositRows, StatusOf, PaysIn
<1>6. \A e \in Deposits : Received(e)' = IF e = d THEN Received(e) + x ELSE Received(e)
  <2> TAKE e \in Deposits
  <2>1. ReceivedOf(receipt', e) = IF ReceiptFor[k] = e THEN ReceivedOf(receipt, e) - receipt[k] + receipt'[k]
                                                      ELSE ReceivedOf(receipt, e)
    BY <1>4, ReceivedMoves
  <2>2. ReceivedOf(receipt, e) \in Nat
    BY <1>4, ReceivedSum
  <2>3. QED
    BY <1>4, <2>1, <2>2, DepositSums
<1>7. \A e \in Deposits : Applied(e)' = Applied(e)
  BY <1>2 DEF Applied, AppliedBy, UsesOf
<1>8. \A e \in Deposits : /\ Received(e) \in Nat /\ Applied(e) \in Nat /\ refunded[e] \in Nat
                          /\ Value[e] \in Nat /\ balance[e] \in Nat
  BY SumsNat, DepositAssumption DEF DInv, DepositRows
<1>9. PaidInFits'
  <2>1. status[d] = "none" => Received(d) = 0
    BY NothingReceived DEF DInv
  <2>2. status[d] = "partially_paid" => Received(d) + balance[d] = Value[d]
    BY DEF DInv, PaidInFits
  <2>3. Received(d)' + balance'[d] = Value[d] /\ status'[d] # "none"
    BY <1>4, <1>6, <1>8, <2>1, <2>2 DEF StatusOf, PaysIn
  <2>4. ASSUME NEW e \in Deposits \ {d}, status[e] = "none"
        PROVE  balance'[e] = 0 /\ \A j \in Receipts : ReceiptFor[j] = e => receipt'[j] = 0
    BY <1>4, <2>4 DEF DInv, PaidInFits
  <2>5. ASSUME NEW e \in Deposits \ {d}, status[e] # "none"
        PROVE  Received(e)' + balance'[e] = Value[e]
    BY <1>4, <1>6, <2>5 DEF DInv, PaidInFits
  <2>6. QED
    BY <1>4, <2>3, <2>4, <2>5 DEF PaidInFits
<1>10. NotOverspent'
  BY <1>2, <1>6, <1>7, <1>8 DEF DInv, NotOverspent
<1>11. CompletedIsSettled'
  <2>1. ASSUME NEW e \in Deposits, status'[e] = "completed"
        PROVE  Available(e)' = 0 /\ balance'[e] = 0
    <3>1. e # d
      BY <1>4, <2>1 DEF StatusOf
    <3>2. Available(e)' = Available(e)
      BY <1>2, <1>6, <1>7, <3>1 DEF Available
    <3>3. QED
      BY <1>4, <2>1, <3>1, <3>2 DEF DInv, CompletedIsSettled
  <2>2. QED
    BY <2>1 DEF CompletedIsSettled
<1>12. QED
  BY <1>1, <1>3, <1>5, <1>9, <1>10, <1>11 DEF DInv

LEMMA ReceiptsKeep ==
  ASSUME DInv, NEW k \in Receipts, CreateDeposit(k) \/ AddReceipt(k)
  PROVE  DInv'
<1> DEFINE d == ReceiptFor[k]
<1>1. d \in Deposits /\ ReceiptAmount[k] \in Nat /\ Value[d] \in Nat /\ balance[d] \in Nat
  BY DepositAssumption DEF DInv, DepositRows
<1>2. CASE CreateDeposit(k)
  <2> DEFINE b == Value[d] - ReceiptAmount[k]
  <2>1. /\ receipt[k] = 0 /\ status[d] = "none" /\ ReceiptAmount[k] <= Value[d]
        /\ receipt' = [receipt EXCEPT ![k] = ReceiptAmount[k]]
        /\ balance' = [balance EXCEPT ![d] = b]
        /\ status' = [status EXCEPT ![d] = StatusOf(balance'[d])]
        /\ UNCHANGED <<vars, refunded, use>>
    BY <1>2 DEF CreateDeposit
  <2>2. balance'[d] = b /\ b \in Nat /\ ReceiptAmount[k] + b = Value[d]
    BY <1>1, <2>1 DEF DInv, DepositRows
  <2> HIDE DEF b, d
  <2>3. QED
    BY <1>1, <2>1, <2>2, PaidInKeeps DEF d, PaysIn
<1>3. CASE AddReceipt(k)
  <2> DEFINE b == balance[d] - Taken(k)
  <2>1. /\ receipt[k] = 0 /\ status[d] = "partially_paid"
        /\ receipt' = [receipt EXCEPT ![k] = Taken(k)]
        /\ balance' = [balance EXCEPT ![d] = b]
        /\ status' = [status EXCEPT ![d] = StatusOf(balance'[d])]
        /\ UNCHANGED <<vars, refunded, use>>
    BY <1>3 DEF AddReceipt
  <2>2. Taken(k) \in Nat /\ Taken(k) <= balance[d]
    BY <1>1 DEF Taken, Least
  <2>3. balance'[d] = b /\ b \in Nat /\ Taken(k) + b = balance[d]
    BY <1>1, <2>1, <2>2 DEF DInv, DepositRows
  <2> HIDE DEF b, d
  <2>4. QED
    BY <1>1, <2>1, <2>2, <2>3, PaidInKeeps DEF d, PaysIn
<1>4. QED
  BY <1>2, <1>3


LEMMA RefundKeeps ==
  ASSUME DInv, NEW d \in Deposits, NEW a \in 1..Available(d), RefundDeposit(d, a)
  PROVE  DInv'
<1>1. LedgerInv' /\ \A q \in Payments : SameRow(q)
  BY LedgerSame DEF DInv, RefundDeposit
<1>2. /\ UNCHANGED <<balance, receipt, use>> /\ amount' = amount
      /\ refunded'[d] = refunded[d] + a /\ status'[d] = "cancelled"
      /\ \A e \in Deposits \ {d} : refunded'[e] = refunded[e] /\ status'[e] = status[e]
  BY DEF RefundDeposit, DInv, DepositRows, vars, rowVars, paymentVars
<1>3. /\ UsesFollow'
      /\ \A e \in Deposits : Received(e)' = Received(e) /\ Applied(e)' = Applied(e)
  BY <1>1, <1>2, UsesStay DEF DInv
<1>4. \A e \in Deposits : /\ Received(e) \in Nat /\ Applied(e) \in Nat /\ refunded[e] \in Nat
                          /\ Available(e) = Received(e) - refunded[e] - Applied(e)
                          /\ Available(e) \in Int
  BY SumsNat DEF DInv
<1>5. a \in Nat \ {0} /\ a <= Available(d)
  BY <1>4
<1>6. DepositRows'
  BY <1>2, <1>5 DEF DInv, DepositRows, RefundDeposit
<1>7. PaidInFits'
  <2>1. status[d] # "none"
    BY <1>4, <1>5, NothingReceived DEF DInv
  <2>2. Received(d) + balance[d] = Value[d]
    BY <2>1 DEF DInv, PaidInFits
  <2>3. \A e \in Deposits : status'[e] = "none" <=> status[e] = "none"
    BY <1>2, <2>1
  <2>4. \A e \in Deposits : balance'[e] = balance[e] /\ Received(e)' = Received(e)
    BY <1>2, <1>3
  <2>5. QED
    BY <1>2, <2>3, <2>4 DEF DInv, PaidInFits
<1>8. NotOverspent'
  BY <1>2, <1>3, <1>4, <1>5 DEF DInv, NotOverspent
<1>9. CompletedIsSettled'
  <2>1. \A e \in Deposits \ {d} : Available(e)' = Available(e)
    BY <1>2, <1>3 DEF Available
  <2>2. QED
    BY <1>2, <2>1 DEF DInv, CompletedIsSettled
<1>10. QED
  BY <1>1, <1>3, <1>6, <1>7, <1>8, <1>9 DEF DInv

LEMMA ApplyKeeps ==
  ASSUME DInv, NEW d \in Deposits, NEW i \in Invoices, NEW a \in 1..Usable(d, i),
         ApplyDeposit(d, i, a)
  PROVE  DInv' /\ RowStep /\ MoneyStep
<1> DEFINE new == [deposit |-> d, invoice |-> i, upTo |-> Applied(d) + a, status |-> "applied"]
<1>1. PICK p \in Payments : Applies(d, i, a, p) /\ use' = [use EXCEPT ![p] = new]
  BY DEF ApplyDeposit, Applies
<1>2. a \in Nat \ {0} /\ a <= Available(d) /\ a <= Residual(i)
  BY UsableFits DEF DInv
<1>3. \A e \in Deposits : /\ Received(e) \in Nat /\ Applied(e) \in Nat /\ refunded[e] \in Nat
                          /\ Available(e) = Received(e) - refunded[e] - Applied(e)
                          /\ Available(e) \in Int
  BY SumsNat DEF DInv
<1>4. LedgerInv' /\ RowStep /\ MoneyStep
  BY <1>1, <1>2, ApplyInLedger DEF DInv
<1>5. new \in Uses /\ new.deposit = d /\ new.status = "applied"
  BY <1>2, <1>3 DEF Uses
<1> HIDE DEF new
<1>6. /\ UNCHANGED <<balance, receipt, refunded>> /\ status[d] # "none"
      /\ status'[d] = IF Completed(d, Available(d) - a) THEN "completed" ELSE status[d]
      /\ \A e \in Deposits \ {d} : status'[e] = status[e]
      /\ DepositRows'
  BY DEF ApplyDeposit, DInv, DepositRows
<1>7. /\ use' \in [Payments -> Uses \cup {NoUse}]
      /\ use'[p] = new /\ \A q \in Payments \ {p} : use'[q] = use[q]
  BY <1>1, <1>5 DEF DInv, UsesFollow
<1>8. /\ UsesFollow'
      /\ \A e \in Deposits :
           /\ Received(e)' = Received(e)
           /\ Applied(e)' = IF e = d THEN Applied(e) + a ELSE Applied(e)
  BY <1>1, <1>2, <1>4, <1>5, <1>6, <1>7, ApplyMoves DEF DInv
<1>9. PaidInFits'
  <2>1. \A e \in Deposits : status'[e] = "none" <=> status[e] = "none"
    BY <1>6
  <2>2. QED
    BY <1>6, <1>8, <2>1 DEF DInv, PaidInFits
<1>10. NotOverspent'
  BY <1>2, <1>3, <1>6, <1>8 DEF DInv, NotOverspent
<1>11. CompletedIsSettled'
  <2>1. \A e \in Deposits \ {d} : Available(e)' = Available(e)
    BY <1>6, <1>8 DEF Available
  <2>2. Available(d)' = Available(d) - a
    BY <1>2, <1>3, <1>6, <1>8 DEF Available
  <2>3. status[d] # "completed"
    BY <1>2, <1>3 DEF DInv, CompletedIsSettled
  <2>4. status'[d] = "completed" => Available(d)' = 0 /\ balance'[d] = 0
    BY <1>6, <2>2, <2>3 DEF Completed
  <2>5. QED
    BY <1>6, <2>1, <2>4 DEF DInv, CompletedIsSettled
<1>12. QED
  BY <1>4, <1>6, <1>8, <1>9, <1>10, <1>11 DEF DInv

LEMMA ReverseDepositKeeps ==
  ASSUME DInv, NEW p \in Payments, ReversePayment(p)
  PROVE  DInv'
<1>1. LedgerInv'
  BY LedgerInvStep DEF DInv, ReversePayment, Next
<1>2. /\ UNCHANGED <<balance, receipt, refunded>>
      /\ status' = Reopened(p)
  BY DEF ReversePayment
<1>3. /\ UsesFollow'
      /\ \A e \in Deposits : Received(e)' = Received(e)
      /\ \A e \in Deposits : Applied(e)' <= Applied(e)
      /\ \A e \in Deposits : use[p].deposit # e => Applied(e)' = Applied(e)
  BY <1>1, ReverseMoves DEF DInv
<1>4. \A e \in Deposits : /\ Received(e) \in Nat /\ Applied(e) \in Nat /\ refunded[e] \in Nat
  BY SumsNat DEF DInv
<1>5. DepositRows'
  BY <1>2 DEF DInv, DepositRows, Reopened, StatusOf
<1>6. \A e \in Deposits : Applied(e)' \in Nat
  BY <1>1, <1>5, SumsNatNext
<1>7. PaidInFits'
  <2>1. \A e \in Deposits : status'[e] = "none" <=> status[e] = "none"
    BY <1>2 DEF Reopened, StatusOf
  <2>2. QED
    BY <1>2, <1>3, <2>1 DEF DInv, PaidInFits
<1>8. NotOverspent'
  BY <1>2, <1>3, <1>4, <1>6 DEF DInv, NotOverspent
<1>9. CompletedIsSettled'
  <2>1. ASSUME NEW e \in Deposits, status'[e] = "completed"
        PROVE  Available(e)' = 0 /\ balance'[e] = 0
    <3>1. status[e] = "completed" /\ use[p].deposit # e
      BY <1>2, <2>1 DEF Reopened, StatusOf
    <3>2. Available(e)' = Available(e)
      BY <1>2, <1>3, <3>1 DEF Available
    <3>3. QED
      BY <1>2, <3>1, <3>2 DEF DInv, CompletedIsSettled
  <2>2. QED
    BY <2>1 DEF CompletedIsSettled
<1>10. QED
  BY <1>1, <1>3, <1>5, <1>7, <1>8, <1>9 DEF DInv

LEMMA DepositStep ==
  ASSUME DInv, [DepositNext]_allVars
  PROVE  DInv'
<1>1. CASE UNCHANGED allVars
  <2>1. LedgerInv' /\ (\A q \in Payments : SameRow(q)) /\ UNCHANGED <<status, balance, receipt, refunded, use>>
    BY <1>1, LedgerSame DEF DInv, allVars, depositVars
  <2>2. /\ UsesFollow'
        /\ \A d \in Deposits : Received(d)' = Received(d) /\ Applied(d)' = Applied(d)
    BY <2>1, UsesStay DEF DInv
  <2>3. \A d \in Deposits : Available(d)' = Available(d)
    BY <2>1, <2>2 DEF Available
  <2>4. QED
    BY <2>1, <2>2, <2>3
    DEF DInv, DepositRows, PaidInFits, NotOverspent, CompletedIsSettled
<1>2. CASE DepositNext
  BY <1>2, ReceiptsKeep, ApplyKeeps, RefundKeeps, ReverseDepositKeeps, LedgerStepKeeps
  DEF DepositNext
<1>3. QED
  BY <1>1, <1>2


LEMMA DepositStart ==
  ASSUME DepositInit
  PROVE  DInv
<1>1. LedgerInv
  <2>1. IInv
    BY DEF DepositInit, Init, IInv, Shape, HandKeys, FreshRows, OncePerKey, EntriesFollow,
           Idle, Payments
  <2>2. MInv
    BY MoneyInit DEF DepositInit
  <2>3. EntriesBound
    BY LedgerAssumption DEF DepositInit, Init, Nothing, EntriesBound
  <2>4. QED
    BY <2>1, <2>2, <2>3 DEF LedgerInv
<1>2. DepositRows /\ UsesFollow /\ \A d \in Deposits : status[d] = "none"
  BY DEF DepositInit, DepositRows, UsesFollow
<1>3. PaidInFits /\ CompletedIsSettled
  BY <1>2 DEF DepositInit, PaidInFits, CompletedIsSettled
<1>4. NotOverspent
  <2> SUFFICES ASSUME NEW d \in Deposits
               PROVE  Applied(d) + refunded[d] <= Received(d)
    BY DEF NotOverspent
  <2> DEFINE f == UseColumn(use, amount, d)
  <2>1. amount \in [Payments -> Nat]
    BY <1>1 DEF LedgerInv, MInv, MoneyShape
  <2>2. f \in [Payments -> Nat] /\ Applied(d) = SumFunction(f)
    BY <2>1, AppliedSum, DepositSums
  <2>3. \A p \in Payments : f[p] = 0
    BY NoUseUnused DEF DepositInit, UseColumn
  <2> HIDE DEF f
  <2>4. Applied(d) = 0
    BY <2>2, <2>3, PaymentsFinite, SumZero
  <2>5. Received(d) = 0 /\ refunded[d] = 0
    BY <1>2, <1>3, NothingReceived DEF DepositInit
  <2>6. QED
    BY <2>4, <2>5
<1>5. QED
  BY <1>1, <1>2, <1>3, <1>4 DEF DInv

(* With the rows, journals and money of the ledger, what deposits received, *)
(* applied and refunded is inductive.                                      *)
THEOREM DepositInductive == DepositSpec => []DInv
<1>1. QED
  BY DepositStart, DepositStep, PTL DEF DepositSpec

(* The tables of deposits and of the ledger under them keep their types; in *)
(* particular nobody is ever asked to pay in more than the order's value.  *)
THEOREM DepositTyped == DepositSpec => []DepositTypeOK
<1>1. DInv => DepositTypeOK
  <2> SUFFICES ASSUME DInv PROVE DepositTypeOK
    OBVIOUS
  <2>1. TypeOK
    <3>1. journalId \in [Payments -> 0..MaxEntries] /\ entries \in [Payments -> 0..MaxEntries]
      BY DEF DInv, LedgerInv, EntriesBound, IInv, Shape
    <3>2. reversed \in [Payments -> SUBSET (1..MaxEntries)]
      <4>1. \A p \in Payments : 1..entries[p] \subseteq 1..MaxEntries
        BY <3>1, LedgerAssumption
      <4>2. QED
        BY <4>1 DEF DInv, LedgerInv, EntriesBound, IInv, Shape
    <3>3. hand \in [Handlers -> [key : Submissions \cup {NoKey}, capped : Nat]]
      BY DEF DInv, LedgerInv, MInv, HandTyped, Idle
    <3>4. QED
      BY <3>1, <3>2, <3>3
      DEF TypeOK, DInv, LedgerInv, IInv, Shape, MInv, MoneyShape, EntriesBound
  <2>2. \A d \in Deposits : balance[d] \in 0..Value[d]
    <3> TAKE d \in Deposits
    <3>1. Received(d) \in Nat /\ balance[d] \in Nat /\ Value[d] \in Nat
      BY SumsNat, DepositAssumption DEF DInv, DepositRows
    <3>2. balance[d] = 0 \/ Received(d) + balance[d] = Value[d]
      BY DEF DInv, PaidInFits
    <3>3. QED
      BY <3>1, <3>2
  <2>3. use \in [Payments -> Uses \cup {NoUse}]
    BY DEF DInv, UsesFollow
  <2>4. QED
    BY <2>1, <2>2, <2>3 DEF DepositTypeOK, DInv, DepositRows
<1>2. QED
  BY <1>1, DepositInductive, PTL

(* A deposit is spent once and never paid in above the order's value, in    *)
(* whatever order it is paid in, applied, refunded in part and its         *)
(* applications reversed.                                                  *)
THEOREM DepositSpentOnce == DepositSpec => []SpentOnce
<1>1. DInv => SpentOnce
  <2> SUFFICES ASSUME DInv, NEW d \in Deposits
               PROVE  Received(d) <= Value[d]
    BY DEF SpentOnce, DInv, NotOverspent
  <2>1. Received(d) \in Nat /\ balance[d] \in Nat /\ Value[d] \in Nat
    BY SumsNat, DepositAssumption DEF DInv, DepositRows
  <2>2. Received(d) = 0 \/ Received(d) + balance[d] = Value[d]
    BY NothingReceived DEF DInv, PaidInFits
  <2>3. QED
    BY <2>1, <2>2
<1>2. QED
  BY <1>1, DepositInductive, PTL

(* A deposit shown as completed has nothing left to pay in, use or refund;  *)
(* a reversed application opens it again.                                  *)
THEOREM DepositSettled == DepositSpec => []CompletedIsSettled
<1>1. DInv => CompletedIsSettled
  BY DEF DInv
<1>2. QED
  BY <1>1, DepositInductive, PTL

(* The liability account agrees with the deposit: a row has one standing    *)
(* entry of its amount as long as its application stands, and none after.  *)
THEOREM LiabilityIsRight == DepositSpec => []LiabilityAgrees
<1>1. DInv => LiabilityAgrees
  <2> SUFFICES ASSUME DInv, NEW d \in Deposits
               PROVE  Received(d) - refunded[d]
                        - SumFunction([p \in UsesOf(d) |->
                            amount[p] * Cardinality((1..entries[p]) \ reversed[p])])
                        = Available(d)
    BY DEF LiabilityAgrees
  <2> DEFINE booked(p) == amount[p] * Cardinality((1..entries[p]) \ reversed[p])
             f == UseColumn(use, amount, d)
             g == [p \in UsesOf(d) |-> booked(p)]
  <2>1. amount \in [Payments -> Nat]
    BY DEF DInv, LedgerInv, MInv, MoneyShape
  <2>2. f \in [Payments -> Nat] /\ Applied(d) = SumFunction(f)
    BY <2>1, AppliedSum, DepositSums
  <2>3. ASSUME NEW p \in UsesOf(d)
        PROVE  booked(p) = f[p]
    <3>1. p \in Payments /\ use[p].deposit = d /\ use[p] # NoUse
      BY <2>3, NoUseUnused DEF UsesOf
    <3>2. UsedRow(p) /\ amount[p] \in Nat
      BY <2>1, <3>1 DEF DInv, UsesFollow
    <3>3. CASE use[p].status = "applied"
      <4>1. (1..entries[p]) \ reversed[p] = {1}
        BY <3>2, <3>3 DEF UsedRow
      <4>2. Cardinality((1..entries[p]) \ reversed[p]) = 1
        BY <4>1, FS_Singleton
      <4>3. QED
        BY <3>1, <3>2, <3>3, <4>2 DEF UseColumn
    <3>4. CASE use[p].status # "applied"
      <4>1. (1..entries[p]) \ reversed[p] = {}
        BY <3>2, <3>4 DEF UsedRow
      <4>2. Cardinality((1..entries[p]) \ reversed[p]) = 0
        BY <4>1, FS_EmptySet
      <4>3. QED
        BY <3>1, <3>2, <3>4, <4>2 DEF UseColumn
    <3>5. QED
      BY <3>3, <3>4
  <2>4. UsesOf(d) \in SUBSET Payments /\ \A p \in Payments \ UsesOf(d) : f[p] = 0
    BY DEF UsesOf, UseColumn
  <2>5. g \in [UsesOf(d) -> Nat] /\ \A p \in UsesOf(d) : f[p] = g[p]
    <3> HIDE DEF booked, f
    <3>1. \A p \in UsesOf(d) : booked(p) = f[p] /\ f[p] \in Nat
      BY <2>2, <2>3, <2>4
    <3>2. QED
      BY <3>1
  <2> HIDE DEF f, g
  <2>6. SumFunction(g) = Applied(d)
    BY <2>2, <2>4, <2>5, PaymentsFinite, SumPadded
  <2>7. Received(d) - refunded[d] - SumFunction(g) = Available(d)
    BY <2>6 DEF Available
  <2>8. QED
    BY <2>7 DEF g
<1>2. QED
  BY <1>1, DepositInductive, PTL

(* The ledger's rows and money move under DepositNext as they do under      *)
(* Next: applying a deposit adds a row like any other.                     *)
LEMMA DepositMoves ==
  ASSUME DInv, [DepositNext]_allVars
  PROVE  RowStep /\ MoneyStep
<1>1. ASSUME [Next]_vars PROVE RowStep /\ MoneyStep
  BY <1>1, StepKinds, MoneySteps DEF DInv, LedgerInv, IInv
<1>2. ASSUME NEW k \in Receipts, CreateDeposit(k) \/ AddReceipt(k)
      PROVE  RowStep /\ MoneyStep
  BY <1>1, <1>2 DEF CreateDeposit, AddReceipt
<1>3. ASSUME NEW d \in Deposits, NEW a \in 1..Available(d), RefundDeposit(d, a)
      PROVE  RowStep /\ MoneyStep
  BY <1>1, <1>3 DEF RefundDeposit
<1>4. ASSUME NEW p \in Payments, ReversePayment(p)
      PROVE  RowStep /\ MoneyStep
  BY <1>1, <1>4 DEF ReversePayment, Next
<1>5. CASE LedgerStep
  BY <1>1, <1>5 DEF LedgerStep, Next
<1>6. CASE UNCHANGED allVars
  BY <1>1, <1>6 DEF allVars
<1>7. QED
  BY <1>2, <1>3, <1>4, <1>5, <1>6, ApplyKeeps DEF DepositNext

(* Deposits do not disturb the account: while no request names an invoice   *)
(* twice, applying them and taking applications back are its steps too.    *)
THEOREM DepositsKeepAccount ==
  ASSUME Repeats = FALSE
  PROVE  DepositSpec => KeepsAccount
<1>1. DepositInit => Account!Init /\ NeverOverpaid
  BY AccountInit, MoneyInit DEF DepositInit
<1>2. DInv /\ NeverOverpaid /\ [DepositNext]_allVars => NeverOverpaid'
  BY DepositMoves, NeverOverpaidStep DEF DInv, LedgerInv
<1>3. DepositSpec => [](DInv /\ NeverOverpaid)
  BY <1>1, <1>2, DepositInductive, PTL DEF DepositSpec
<1>4. /\ DInv /\ NeverOverpaid /\ (DInv /\ NeverOverpaid)' /\ [DepositNext]_allVars
      => [Account!Next]_(Account!vars)
  BY DepositMoves, AccountStep DEF AccountInv, DInv, LedgerInv
<1>5. QED
  BY <1>1, <1>3, <1>4, PTL DEF DepositSpec, KeepsAccount, Account!Spec
=============================================================================
