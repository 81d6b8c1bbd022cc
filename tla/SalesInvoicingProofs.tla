------------------------- MODULE SalesInvoicingProofs -------------------------
(***************************************************************************)
(* For any lines, handlers and quantities: while nobody has put a count     *)
(* below what stands on invoices, no quantity of a line is billed twice,   *)
(* with the lock of the order or without it; and while the lock works, a   *)
(* repair has one invoice besides those replaced by a reissue and those    *)
(* revived from cancelled.                                                 *)
(***************************************************************************)
EXTENDS SalesInvoicing, SumLaws, TLAPS

(* A request that is raising an invoice. *)
Billing(h) == hand[h].pc \in {"heal", "count", "reset", "commit"}

OneHolds == \A g, h \in Handlers : Holding(g) /\ Holding(h) => g = h

(* So far every request that raises an invoice holds the lock. *)
BillsLocked == alone => \A h \in Handlers : Billing(h) => hand[h].locked

(* Under the lock, what a request found missing is still missing when it    *)
(* acts on it, but for invoices revived since: the invoices of an order     *)
(* whose counts it resets, and those not replaced of a repair it bills.    *)
StillNone ==
  alone => \A h \in Handlers :
             /\ hand[h].pc = "reset" => Live \subseteq revived
             /\ repair /\ Billing(h) => Live \subseteq replaced \cup revived

(* No count, written or about to be, is above what can be ordered. *)
CountsWithin ==
  /\ \A l \in Lines : items[l].invoiced <= Ordered
  /\ \A h \in Handlers, l \in Lines : hand[h].items[l].invoiced <= Ordered

BilledWithinCount == backed => Covered

IInv == /\ SalesTypeOK /\ BillsLocked /\ StillNone /\ CountsWithin
        /\ BilledWithinCount /\ RepairBilledOnce

-----------------------------------------------------------------------------
(* What the operators return. *)

USE SalesAssumption

LEMMA CountBound ==
  /\ Ordered * MaxInvoices \in Nat
  /\ MaxInvoices >= 1 => Ordered <= Ordered * MaxInvoices
<1>1. Ordered \in Nat /\ MaxInvoices \in Nat
  OBVIOUS
<1>2. \A a, b \in Nat : a * b \in Nat /\ (b >= 1 => a <= a * b)
  OBVIOUS
<1>3. QED
  BY <1>1, <1>2

LEMMA LimitBound ==
  Limit \in 1..Ordered /\ Portions \subseteq [Lines -> Quantity]
<1>1. Limit \in 1..Ordered
  BY DEF Limit
<1>2. 0..Limit \subseteq Quantity
  BY <1>1 DEF Quantity
<1>3. QED
  BY <1>1, <1>2 DEF Portions

LEMMA LeastMost ==
  ASSUME NEW n \in Nat, NEW a \in 0..n, NEW b \in 0..n
  PROVE  Least(a, b) \in 0..n /\ Most(a, b) \in 0..n /\ Least(a, b) <= a
BY DEF Least, Most

LEMMA HealedRows ==
  ASSUME NEW row \in Rows, NEW out \in [Lines -> Quantity]
  PROVE  /\ Healed(row, out) \in Rows
         /\ \A l \in Lines : Healed(row, out)[l].invoiced = row[l].invoiced
<1>1. ASSUME NEW l \in Lines
      PROVE  Most(row[l].delivered, Least(row[l].qty, out[l])) \in Quantity
  <2>1. row[l].delivered \in 0..Ordered /\ row[l].qty \in 0..Ordered /\ out[l] \in 0..Ordered
    BY DEF Rows, Item, Quantity
  <2>2. QED
    BY <2>1, LeastMost DEF Quantity
<1>2. \A l \in Lines :
        /\ [row[l] EXCEPT !.delivered = Most(@, Least(row[l].qty, out[l]))] \in Item
        /\ [row[l] EXCEPT !.delivered = Most(@, Least(row[l].qty, out[l]))].invoiced = row[l].invoiced
  BY <1>1 DEF Rows, Item
<1>3. QED
  BY <1>2 DEF Healed, Rows

LEMMA SavedRows ==
  ASSUME NEW row \in Rows, NEW body \in Rows
  PROVE  /\ Saved(row, body) \in Rows
         /\ \A l \in Lines : Saved(row, body)[l].invoiced <= Ordered
<1>1. ASSUME NEW l \in Lines
      PROVE  /\ Least(body[l].qty, Most(row[l].delivered, body[l].delivered)) \in Quantity
             /\ Least(body[l].qty, Most(row[l].invoiced, body[l].invoiced))
                  \in 0..(Ordered * MaxInvoices)
             /\ Least(body[l].qty, Most(row[l].invoiced, body[l].invoiced)) <= Ordered
  <2>1. /\ row[l].delivered \in 0..Ordered /\ body[l].delivered \in 0..Ordered
        /\ body[l].qty \in 0..Ordered
        /\ row[l].invoiced \in 0..(Ordered * MaxInvoices)
        /\ body[l].invoiced \in 0..(Ordered * MaxInvoices)
    BY DEF Rows, Item, Quantity
  <2>2. Most(row[l].delivered, body[l].delivered) \in 0..Ordered
    BY <2>1, LeastMost
  <2>3. Most(row[l].invoiced, body[l].invoiced) \in 0..(Ordered * MaxInvoices)
    BY <2>1, CountBound, LeastMost
  <2>4. QED
    BY <2>1, <2>2, <2>3, CountBound DEF Least, Quantity
<1>2. \A l \in Lines : Saved(row, body)[l] \in Item /\ Saved(row, body)[l].invoiced <= Ordered
  BY <1>1 DEF Saved, Rows, Item
<1>3. QED
  BY <1>2 DEF Saved, Rows

LEMMA ToBillTyped ==
  ASSUME NEW row \in Rows, NEW take \in [Lines -> Quantity], repair \in BOOLEAN
  PROVE  ToBill(row, take) \in [Lines -> Quantity]
<1>1. ASSUME NEW l \in Lines
      PROVE  Least(Invoiceable(l, row[l]), take[l]) \in Quantity
  <2>1. /\ row[l].qty \in 0..Ordered /\ row[l].delivered \in 0..Ordered
        /\ row[l].invoiced \in Nat /\ take[l] \in 0..Ordered
    BY CountBound DEF Rows, Item, Quantity
  <2>2. Base(l, row[l]) \in 0..Ordered
    BY <2>1 DEF Base
  <2>3. Invoiceable(l, row[l]) \in 0..Ordered
    BY <2>1, <2>2 DEF Invoiceable, Most
  <2>4. QED
    BY <2>1, <2>3, LeastMost DEF Quantity
<1>2. QED
  BY <1>1 DEF ToBill

LEMMA BlankTyped ==
  /\ Blank \in Rows /\ Nothing \in [Lines -> Quantity] /\ NoTask \in Tasks
  /\ NoTask.pc = "idle" /\ ~ NoTask.locked
  /\ \A l \in Lines : Blank[l].invoiced = 0 /\ NoTask.items[l].invoiced = 0
<1>1. 0 \in Quantity /\ 0 \in 0..(Ordered * MaxInvoices) /\ 0 \in 0..MaxInvoices
  BY CountBound DEF Quantity
<1>2. Blank \in Rows /\ Nothing \in [Lines -> Quantity]
  BY <1>1 DEF Blank, Nothing, Rows, Item
<1>3. \A l \in Lines : Blank[l].invoiced = 0
  BY DEF Blank
<1>4. NoTask = [pc |-> "idle", items |-> Blank, done |-> Nothing, take |-> Nothing,
                locked |-> FALSE, gone |-> FALSE, invoice |-> 0]
  BY DEF NoTask, Task, Nothing
<1>5. QED
  BY <1>1, <1>2, <1>3, <1>4 DEF Tasks, Points

LEMMA TaskTyped ==
  ASSUME done \in [Lines -> Quantity], NEW pc \in Points, NEW row \in Rows,
         NEW take \in [Lines -> Quantity], NEW locked \in BOOLEAN
  PROVE  /\ Task(pc, row, take, locked) \in Tasks
         /\ Task(pc, row, take, locked).pc = pc /\ Task(pc, row, take, locked).items = row
         /\ Task(pc, row, take, locked).take = take
         /\ Task(pc, row, take, locked).locked = locked
<1>1. 0 \in Quantity /\ 0 \in 0..MaxInvoices
  BY DEF Quantity
<1>2. [l \in Lines |-> IF pc = "heal" THEN done[l] ELSE 0] \in [Lines -> Quantity]
  BY <1>1
<1>3. QED
  BY <1>1, <1>2 DEF Task, Tasks

-----------------------------------------------------------------------------
(* The quantities on standing invoices. *)

InvoiceSet == [Invoices -> [state : {"absent", "draft", "posted", "credited", "cancelled"},
                            qty : [Lines -> Quantity], raised : [Lines -> Quantity]]]
LiveOf(inv) == {i \in Invoices : inv[i].state \in {"draft", "posted", "credited"}}
StandingOf(inv) == {i \in Invoices : inv[i].state \in {"draft", "posted"}}
BillColumn(inv, l) == [i \in Invoices |-> IF i \in StandingOf(inv) THEN inv[i].qty[l] ELSE 0]
BilledOf(inv, l) == SumFunction([i \in StandingOf(inv) |-> inv[i].qty[l]])

LEMMA InvoicesFinite == IsFiniteSet(Invoices)
<1>1. MaxInvoices \in Int /\ 1 \in Int
  OBVIOUS
<1>2. QED
  BY <1>1, FS_Interval DEF Invoices

LEMMA PartOfInvoices ==
  ASSUME NEW T \in SUBSET Invoices, NEW f \in [Invoices -> Nat],
         \A i \in Invoices : i \notin T => f[i] = 0
  PROVE  SumFunction([i \in T |-> f[i]]) = SumFunction(f)
BY InvoicesFinite, SumOfPart

LEMMA BilledIsColumn ==
  ASSUME NEW inv \in InvoiceSet, NEW l \in Lines
  PROVE  /\ BillColumn(inv, l) \in [Invoices -> Nat]
         /\ BilledOf(inv, l) = SumFunction(BillColumn(inv, l))
         /\ BilledOf(inv, l) \in Nat
<1> DEFINE column == BillColumn(inv, l)
           live == StandingOf(inv)
<1>1. \A i \in Invoices : inv[i].qty[l] \in Nat
  BY DEF InvoiceSet, Quantity
<1>2. column \in [Invoices -> Nat]
  BY <1>1 DEF BillColumn
<1>3. live \in SUBSET Invoices
  BY DEF StandingOf
<1>4. \A i \in Invoices : i \notin live => column[i] = 0
  BY DEF BillColumn
<1>5. [i \in live |-> inv[i].qty[l]] = [i \in live |-> column[i]]
  BY <1>3 DEF BillColumn
<1>6. BilledOf(inv, l) = SumFunction([i \in live |-> column[i]])
  BY <1>5 DEF BilledOf
<1> HIDE DEF column, live
<1>7. SumFunction([i \in live |-> column[i]]) = SumFunction(column)
  BY <1>2, <1>3, <1>4, PartOfInvoices
<1>8. SumFunction(column) \in Nat
  BY <1>2, InvoicesFinite, SumNat
<1>9. QED
  BY <1>2, <1>6, <1>7, <1>8 DEF column

(* A new standing invoice adds its quantities. *)
LEMMA NewInvoiceBills ==
  ASSUME NEW inv \in InvoiceSet, NEW new \in InvoiceSet, NEW i \in Invoices,
         inv[i].state = "absent", new[i].state = "draft",
         \A j \in Invoices \ {i} : new[j] = inv[j], NEW l \in Lines
  PROVE  BilledOf(new, l) = BilledOf(inv, l) + new[i].qty[l]
<1>1. new[i].state = "draft" /\ \A j \in Invoices \ {i} : new[j] = inv[j]
  OBVIOUS
<1>2. StandingOf(new) = StandingOf(inv) \cup {i} /\ i \notin StandingOf(inv)
  BY <1>1 DEF StandingOf
<1> DEFINE before == BillColumn(inv, l)
           after == BillColumn(new, l)
<1>3. before[i] = 0 /\ after[i] = new[i].qty[l]
  BY <1>1, <1>2 DEF BillColumn
<1>4. ASSUME NEW j \in Invoices \ {i} PROVE after[j] = before[j]
  <2>1. j \in StandingOf(new) <=> j \in StandingOf(inv)
    BY <1>2
  <2>2. new[j].qty[l] = inv[j].qty[l]
    BY <1>1
  <2>3. QED
    BY <2>1, <2>2 DEF BillColumn
<1>5. /\ before \in [Invoices -> Nat] /\ after \in [Invoices -> Nat]
      /\ BilledOf(inv, l) = SumFunction(before) /\ BilledOf(inv, l) \in Nat
      /\ BilledOf(new, l) = SumFunction(after)
  BY BilledIsColumn
<1>6. new[i].qty[l] \in Nat
  BY DEF InvoiceSet, Quantity
<1> HIDE DEF before, after
<1>7. SumFunction(after) = SumFunction(before) - before[i] + after[i]
  BY <1>4, <1>5, InvoicesFinite, SumChangedAt
<1>8. BilledOf(new, l) = BilledOf(inv, l) - 0 + new[i].qty[l]
  BY <1>3, <1>5, <1>7, Zenon
<1>9. QED
  BY <1>5, <1>6, <1>8

(* Invoices that stop standing bill nothing more. *)
LEMMA FewerStandingBill ==
  ASSUME NEW inv \in InvoiceSet, NEW new \in InvoiceSet, NEW l \in Lines,
         StandingOf(new) \subseteq StandingOf(inv),
         \A j \in Invoices : new[j].qty = inv[j].qty
  PROVE  BilledOf(new, l) <= BilledOf(inv, l)
<1>1. \A j \in StandingOf(new) : new[j].qty[l] = inv[j].qty[l] /\ inv[j].qty[l] \in Nat
  BY DEF StandingOf, InvoiceSet, Quantity
<1>2. \A j \in StandingOf(inv) : inv[j].qty[l] \in Nat
  BY DEF StandingOf, InvoiceSet, Quantity
<1> DEFINE f == [j \in StandingOf(inv) |-> inv[j].qty[l]]
           g == [j \in StandingOf(new) |-> new[j].qty[l]]
<1>3. f \in [StandingOf(inv) -> Nat] /\ g \in [StandingOf(new) -> Nat]
  BY <1>1, <1>2
<1>4. IsFiniteSet(StandingOf(inv))
  BY InvoicesFinite, FS_Subset DEF StandingOf
<1>5. ASSUME NEW j \in StandingOf(new) PROVE g[j] <= f[j]
  <2>1. g[j] = inv[j].qty[l] /\ f[j] = inv[j].qty[l] /\ inv[j].qty[l] \in Nat
    BY <1>1
  <2>2. QED
    BY <2>1
<1> HIDE DEF f, g
<1>6. SumFunction(g) <= SumFunction(f)
  BY <1>3, <1>4, <1>5, SumOnLess
<1>7. QED
  BY <1>6 DEF f, g, BilledOf

-----------------------------------------------------------------------------
(* What a step does to the requests.                                        *)

BillingPoints == {"heal", "count", "reset", "commit"}
CountsTask(t) == \A l \in Lines : t.items[l].invoiced <= Ordered

(* The task a request gets: one that bills holds the lock if it did or if   *)
(* nobody does, and finds no invoice where that matters.                   *)
Sets(h, t) ==
  /\ hand' = [hand EXCEPT ![h] = t] /\ t \in Tasks /\ CountsTask(t)
  /\ t.pc \in BillingPoints =>
       /\ alone' => t.locked
       /\ t.locked => Holding(h) \/ \A g \in Handlers : ~ Holding(g)
       /\ alone /\ t.pc = "reset" => Live \subseteq revived
       /\ alone /\ repair => Live \subseteq replaced \cup revived

(* No request starts to bill or gets the lock. *)
Settles ==
  /\ hand' \in [Handlers -> Tasks]
  /\ \A g \in Handlers : /\ hand'[g].pc \in BillingPoints => hand'[g].pc = hand[g].pc
                         /\ hand'[g].locked = hand[g].locked
                         /\ hand'[g].items = hand[g].items

HandStep == Settles \/ \E h \in Handlers, t \in Tasks : Sets(h, t)

LEMMA HandUnchanged ==
  ASSUME SalesTypeOK, hand' = hand
  PROVE  HandStep
BY DEF SalesTypeOK, HandStep, Settles

LEMMA FinishSets ==
  ASSUME NEW h \in Handlers, Finish(h)
  PROVE  HandStep
<1>1. Sets(h, NoTask)
  BY BlankTyped DEF Finish, Sets, CountsTask, BillingPoints
<1>2. QED
  BY <1>1, BlankTyped DEF HandStep

(* A task of a request that was read and will be written. *)
LEMMA WriterSets ==
  ASSUME SalesTypeOK, NEW h \in Handlers, NEW pc \in {"report", "save", "cancel"},
         NEW row \in Rows, \A l \in Lines : row[l].invoiced <= Ordered,
         hand' = [hand EXCEPT ![h] = Task(pc, row, Nothing, FALSE)]
  PROVE  HandStep
<1> DEFINE t == Task(pc, row, Nothing, FALSE)
<1>1. pc \in Points /\ done \in [Lines -> Quantity]
  BY DEF Points, HoldsLines, SalesTypeOK
<1>2. Nothing \in [Lines -> Quantity]
  BY BlankTyped
<1>3. t \in Tasks /\ t.pc = pc /\ t.items = row
  <2>1. \A locked \in BOOLEAN : /\ Task(pc, row, Nothing, locked) \in Tasks
                                /\ Task(pc, row, Nothing, locked).pc = pc
                                /\ Task(pc, row, Nothing, locked).items = row
    BY <1>1, <1>2, TaskTyped
  <2>2. QED
    BY <2>1
<1> HIDE DEF t
<1>4. Sets(h, t)
  BY <1>3 DEF Sets, CountsTask, BillingPoints, t
<1>5. QED
  BY <1>3, <1>4 DEF HandStep

LEMMA DecideSets ==
  ASSUME IInv, NEW h \in Handlers, Billing(h), NEW row \in Rows, Decide(h, row), alone' = alone
  PROVE  HandStep
<1> DEFINE take == ToBill(row, hand[h].take)
           t == [hand[h] EXCEPT !.pc = "commit", !.items = Blank, !.done = Nothing, !.take = take]
<1>1. CASE Finish(h)
  BY <1>1, FinishSets
<1>2. CASE hand' = [hand EXCEPT ![h].pc = "commit", ![h].items = Blank, ![h].done = Nothing,
                                ![h].take = ToBill(row, @)]
  <2>1. hand \in [Handlers -> Tasks] /\ hand[h] \in Tasks
    BY DEF IInv, SalesTypeOK
  <2>2. hand[h].take \in [Lines -> Quantity] /\ hand[h].locked \in BOOLEAN
    BY <2>1 DEF Tasks
  <2>3. take \in [Lines -> Quantity]
    BY <2>2, ToBillTyped DEF IInv, SalesTypeOK
  <2>4. hand' = [hand EXCEPT ![h] = t]
    BY <1>2, <2>1 DEF Tasks
  <2>5. "commit" \in Points
    BY DEF Points, HoldsLines
  <2> HIDE DEF take
  <2>6. /\ t \in Tasks /\ t.pc = "commit" /\ t.items = Blank /\ t.locked = hand[h].locked
    BY <2>1, <2>3, <2>5, BlankTyped DEF Tasks
  <2> HIDE DEF t
  <2>7. CountsTask(t)
    BY <2>6, BlankTyped DEF CountsTask
  <2>8. hand[h].locked => Holding(h)
    BY DEF Billing, Holding
  <2>9. alone => hand[h].locked /\ (repair => Live \subseteq replaced \cup revived)
    BY DEF IInv, BillsLocked, StillNone
  <2>10. Sets(h, t)
    BY <2>4, <2>6, <2>7, <2>8, <2>9 DEF Sets
  <2>11. QED
    BY <2>6, <2>10 DEF HandStep
<1>3. QED
  BY <1>1, <1>2 DEF Decide

LEMMA AskSets ==
  ASSUME IInv, NEW h \in Handlers, NEW take \in [Lines -> Quantity], NEW locked \in BOOLEAN,
         AskInvoice(h, take, locked)
  PROVE  HandStep
<1> DEFINE t == Task("heal", items, take, locked)
<1>1. "heal" \in Points /\ items \in Rows /\ done \in [Lines -> Quantity]
  BY DEF Points, HoldsLines, IInv, SalesTypeOK
<1>2. t \in Tasks /\ t.pc = "heal" /\ t.items = items /\ t.locked = locked
  BY <1>1, TaskTyped
<1>3. hand' = [hand EXCEPT ![h] = t]
  BY DEF AskInvoice
<1> HIDE DEF t
<1>4. alone' => locked
  BY DEF AskInvoice, Lock
<1>5. locked => \A g \in Handlers : ~ Holding(g)
  BY DEF AskInvoice, Lock
<1>6. repair => Live \subseteq replaced \cup revived
  BY DEF AskInvoice, HandedBack
<1>7. Sets(h, t)
  BY <1>2, <1>3, <1>4, <1>5, <1>6 DEF Sets, CountsTask, IInv, CountsWithin
<1>8. QED
  BY <1>2, <1>7 DEF HandStep

(* A request that bills goes on: the lock stays as it is. *)
LEMMA GoesOnSets ==
  ASSUME IInv, NEW h \in Handlers, Billing(h), alone' = alone,
         NEW pc \in {"count", "reset"}, pc = "reset" => Live = {},
         NEW row \in Rows, \A l \in Lines : row[l].invoiced <= Ordered,
         hand' = [hand EXCEPT ![h] = [hand[h] EXCEPT !.pc = pc, !.items = row]]
  PROVE  HandStep
<1> DEFINE t == [hand[h] EXCEPT !.pc = pc, !.items = row]
<1>1. hand[h] \in Tasks
  BY DEF IInv, SalesTypeOK
<1>2. t \in Tasks /\ t.pc = pc /\ t.items = row /\ t.locked = hand[h].locked
  BY <1>1 DEF Tasks, Points, HoldsLines
<1> HIDE DEF t
<1>3. hand[h].locked => Holding(h)
  BY DEF Billing, Holding
<1>4. alone => hand[h].locked /\ (repair => Live \subseteq replaced \cup revived)
  BY DEF IInv, BillsLocked, StillNone
<1>5. Sets(h, t)
  BY <1>2, <1>3, <1>4 DEF Sets, CountsTask, t
<1>6. QED
  BY <1>2, <1>5 DEF HandStep

LEMMA HealedHand ==
  ASSUME IInv, NEW h \in Handlers
  PROVE  /\ Healed(hand[h].items, hand[h].done) \in Rows
         /\ \A l \in Lines : Healed(hand[h].items, hand[h].done)[l].invoiced <= Ordered
<1>1. hand[h].items \in Rows /\ hand[h].done \in [Lines -> Quantity]
  BY DEF IInv, SalesTypeOK, Tasks
<1>2. \A l \in Lines : hand[h].items[l].invoiced <= Ordered
  BY DEF IInv, CountsWithin
<1>3. QED
  BY <1>1, <1>2, HealedRows

LEMMA HandSteps ==
  ASSUME IInv, [Next]_vars
  PROVE  HandStep
<1>1. CASE UNCHANGED vars
  BY <1>1, HandUnchanged DEF vars, IInv
<1>2. ASSUME NEW h \in Handlers, NEW take \in [Lines -> Quantity], NEW locked \in BOOLEAN,
             AskInvoice(h, take, locked)
      PROVE  HandStep
  BY <1>2, AskSets
<1>3. ASSUME NEW h \in Handlers, Heal(h) PROVE HandStep
  <2> DEFINE row == Healed(hand[h].items, hand[h].done)
  <2>1. hand' = [hand EXCEPT ![h] = [hand[h] EXCEPT !.pc = "count", !.items = row]]
    BY <1>3 DEF Heal, HealedRow, IInv, SalesTypeOK
  <2>2. Billing(h) /\ alone' = alone
    BY <1>3 DEF Heal, Billing
  <2>3. row \in Rows /\ \A l \in Lines : row[l].invoiced <= Ordered
    BY HealedHand
  <2> HIDE DEF row
  <2>4. QED
    BY <2>1, <2>2, <2>3, GoesOnSets
<1>4. ASSUME NEW h \in Handlers, CountInvoices(h) PROVE HandStep
  <2>1. Billing(h) /\ alone' = alone
    BY <1>4 DEF CountInvoices, Billing
  <2>2. hand[h] \in Tasks /\ hand[h].items \in Rows
    BY DEF IInv, SalesTypeOK, Tasks
  <2>3. CASE Phantom(hand[h].items)
    <3>1. hand' = [hand EXCEPT ![h].pc = "reset"]
      BY <1>4, <2>3 DEF CountInvoices
    <3>2. [hand[h] EXCEPT !.pc = "reset"] = [hand[h] EXCEPT !.pc = "reset", !.items = hand[h].items]
      BY <2>2 DEF Tasks
    <3>3. hand' = [hand EXCEPT ![h] = [hand[h] EXCEPT !.pc = "reset", !.items = hand[h].items]]
      BY <3>1, <3>2
    <3>4. Live = {} /\ \A l \in Lines : hand[h].items[l].invoiced <= Ordered
      BY <2>3 DEF Phantom, IInv, CountsWithin
    <3>5. QED
      BY <2>1, <2>2, <3>3, <3>4, GoesOnSets
  <2>4. CASE ~ Phantom(hand[h].items)
    BY <1>4, <2>1, <2>2, <2>4, DecideSets DEF CountInvoices
  <2>5. QED
    BY <2>3, <2>4
<1>5. ASSUME NEW h \in Handlers, ResetCounts(h) PROVE HandStep
  <2> DEFINE row == [l \in Lines |-> [hand[h].items[l] EXCEPT !.invoiced = 0]]
  <2>1. Billing(h) /\ alone' = alone /\ Decide(h, row)
    BY <1>5 DEF ResetCounts, Billing
  <2>2. hand[h].items \in Rows /\ 0 \in 0..(Ordered * MaxInvoices)
    BY CountBound DEF IInv, SalesTypeOK, Tasks
  <2>3. row \in Rows
    BY <2>2 DEF Rows, Item
  <2> HIDE DEF row
  <2>4. QED
    BY <2>1, <2>3, DecideSets
<1>6. ASSUME NEW h \in Handlers,
             \/ CommitInvoice(h) \/ QuantityChanged(h) \/ WriteReport(h) \/ WriteSave(h)
             \/ WriteCancel(h) \/ LinesGone(h) \/ FreeRepair(h) \/ Killed(h)
      PROVE  HandStep
  BY <1>6, FinishSets
  DEF CommitInvoice, QuantityChanged, WriteReport, WriteSave, WriteCancel, LinesGone, FreeRepair, Killed
<1>7. ASSUME NEW h \in Handlers, ReadReport(h) PROVE HandStep
  <2>1. PICK sent \in [Lines -> Quantity] :
          hand' = [hand EXCEPT ![h] = Task("report",
            [l \in Lines |-> [Blank[l] EXCEPT !.delivered = Healed(items, sent)[l].delivered]],
            Nothing, FALSE)]
    BY <1>7, LimitBound DEF ReadReport
  <2> DEFINE row == [l \in Lines |-> [Blank[l] EXCEPT !.delivered = Healed(items, sent)[l].delivered]]
  <2>2. Healed(items, sent) \in Rows
    BY HealedRows DEF IInv, SalesTypeOK
  <2>3. row \in Rows /\ \A l \in Lines : row[l].invoiced <= Ordered
    BY <2>2, BlankTyped DEF Rows, Item
  <2> HIDE DEF row
  <2>4. QED
    BY <2>1, <2>3, WriterSets DEF IInv, row
<1>8. ASSUME NEW h \in Handlers, NEW body \in Rows, NEW pc \in {"save", "cancel"},
             hand' = [hand EXCEPT ![h] = Task(pc, Saved(items, body), Nothing, FALSE)]
      PROVE  HandStep
  <2>1. /\ Saved(items, body) \in Rows
        /\ \A l \in Lines : Saved(items, body)[l].invoiced <= Ordered
    BY SavedRows DEF IInv, SalesTypeOK
  <2>2. QED
    BY <1>8, <2>1, WriterSets DEF IInv
<1>9. ASSUME NEW h \in Handlers, ReadSave(h) \/ ReadCancel(h) PROVE HandStep
  BY <1>8, <1>9 DEF ReadSave, ReadCancel, Bodies
<1>10. ASSUME \/ \E l \in Lines : ValidateDelivery(l) \/ ReverseDelivery(l)
              \/ \E i \in Invoices : MoveInvoice(i) \/ SaveInvoice(i) \/ ApproveRevision(i)
       PROVE  HandStep
  BY <1>10, HandUnchanged
  DEF IInv, ValidateDelivery, ReverseDelivery, MoveInvoice, SaveInvoice, ApproveRevision
<1>11. ASSUME NEW h \in Handlers, CreditOld(h) PROVE HandStep
  <2> DEFINE t == [NoTask EXCEPT !.pc = "rewrite", !.invoice = reissue]
  <2>1. reissue \in 0..MaxInvoices /\ "rewrite" \in Points
    BY DEF IInv, SalesTypeOK, Points
  <2>2. t \in Tasks /\ t.pc = "rewrite" /\ t.items = NoTask.items
    BY <2>1, BlankTyped DEF Tasks
  <2>3. hand' = [hand EXCEPT ![h] = t]
    BY <1>11 DEF CreditOld
  <2> HIDE DEF t
  <2>4. Sets(h, t)
    BY <2>2, <2>3, BlankTyped DEF Sets, CountsTask, BillingPoints
  <2>5. QED
    BY <2>2, <2>4 DEF HandStep
<1>12. ASSUME NEW h \in Handlers, RewriteOrder(h) PROVE HandStep
  <2>1. hand \in [Handlers -> Tasks] /\ "free" \in Points
    BY DEF IInv, SalesTypeOK, Points
  <2>2. hand' = [g \in Handlers |->
           IF g = h THEN [hand[g] EXCEPT !.pc = "free"]
           ELSE [hand[g] EXCEPT !.gone = @ \/ hand[g].pc \in HoldsLines]]
    BY <1>12 DEF RewriteOrder
  <2>3. ASSUME NEW g \in Handlers
        PROVE  /\ hand'[g] \in Tasks /\ hand'[g].locked = hand[g].locked
               /\ hand'[g].items = hand[g].items
               /\ hand'[g].pc \in {"free", hand[g].pc}
    <3>1. hand[g] \in Tasks
      BY <2>1
    <3>2. CASE g = h
      BY <2>1, <2>2, <3>1, <3>2 DEF Tasks
    <3>3. CASE g # h
      <4>1. (hand[g].gone \/ hand[g].pc \in HoldsLines) \in BOOLEAN
        BY <3>1 DEF Tasks
      <4>2. hand'[g] = [hand[g] EXCEPT !.gone = hand[g].gone \/ hand[g].pc \in HoldsLines]
        BY <2>2, <3>1, <3>3 DEF Tasks
      <4>3. QED
        BY <3>1, <4>1, <4>2 DEF Tasks
    <3>4. QED
      BY <3>2, <3>3
  <2>4. Settles
    BY <2>2, <2>3 DEF Settles, BillingPoints
  <2>5. QED
    BY <2>4 DEF HandStep
<1>13. QED
  BY <1>1, <1>2, <1>3, <1>4, <1>5, <1>6, <1>7, <1>9, <1>10, <1>11, <1>12, LimitBound DEF Next, Step

-----------------------------------------------------------------------------
(* What a step does to the lines and to the invoices.                       *)

LEMMA ItemsStep ==
  ASSUME IInv, [Next]_vars
  PROVE  items' \in Rows /\ \A l \in Lines : items'[l].invoiced <= Ordered
<1>1. items \in Rows /\ hand \in [Handlers -> Tasks] /\ \A l \in Lines : items[l].invoiced <= Ordered
  BY DEF IInv, SalesTypeOK, CountsWithin
<1>2. CASE items' = items
  BY <1>1, <1>2
<1>3. ASSUME NEW h \in Handlers, Heal(h)
      PROVE  items' \in Rows /\ \A l \in Lines : items'[l].invoiced <= Ordered
  <2> DEFINE row == Healed(hand[h].items, hand[h].done)
  <2>1. row \in Rows
    BY HealedHand
  <2>2. items' = [l \in Lines |-> IF row[l] # hand[h].items[l]
                    THEN [items[l] EXCEPT !.delivered = row[l].delivered] ELSE items[l]]
    BY <1>3 DEF Heal, HealedRow
  <2> HIDE DEF row
  <2>3. \A l \in Lines : items'[l] \in Item /\ items'[l].invoiced = items[l].invoiced
    BY <1>1, <2>1, <2>2 DEF Rows, Item
  <2>4. QED
    BY <1>1, <2>2, <2>3 DEF Rows
<1>4. ASSUME NEW h \in Handlers, ResetCounts(h)
      PROVE  items' \in Rows /\ \A l \in Lines : items'[l].invoiced <= Ordered
  <2>1. items' = [l \in Lines |-> [items[l] EXCEPT !.invoiced = 0]]
    BY <1>4 DEF ResetCounts
  <2>2. 0 \in 0..(Ordered * MaxInvoices)
    BY CountBound
  <2>3. \A l \in Lines : items'[l] \in Item /\ items'[l].invoiced = 0
    BY <1>1, <2>1, <2>2 DEF Rows, Item
  <2>4. QED
    BY <2>1, <2>3 DEF Rows
<1>5. ASSUME NEW h \in Handlers, CommitInvoice(h)
      PROVE  items' \in Rows /\ \A l \in Lines : items'[l].invoiced <= Ordered
  <2>1. items' = [l \in Lines |-> [items[l] EXCEPT !.invoiced = @ + hand[h].take[l]]]
    BY <1>5 DEF CommitInvoice
  <2>2. MaxInvoices >= 1
    BY <1>5 DEF CommitInvoice, Invoices
  <2>3. ASSUME NEW l \in Lines
        PROVE  /\ items[l].invoiced + hand[h].take[l] \in Nat
               /\ items[l].invoiced + hand[h].take[l] <= Ordered
    <3>1. /\ items[l].qty \in 0..Ordered /\ items[l].delivered \in 0..Ordered
          /\ items[l].invoiced \in Nat /\ items[l].invoiced <= Ordered
      BY <1>1, CountBound DEF Rows, Item, Quantity
    <3>2. hand[h].take[l] \in 0..Ordered
      BY <1>1 DEF Tasks, Quantity
    <3>3. hand[h].take[l] <= Invoiceable(l, items[l])
      BY <1>5 DEF CommitInvoice, StillAllowed
    <3>4. Base(l, items[l]) \in 0..Ordered
      BY <3>1 DEF Base
    <3>5. hand[h].take[l] <= Most(0, Base(l, items[l]) - items[l].invoiced)
      BY <3>3 DEF Invoiceable
    <3>6. QED
      BY <3>1, <3>2, <3>4, <3>5 DEF Most
  <2>4. \A l \in Lines : items[l].invoiced + hand[h].take[l] \in 0..(Ordered * MaxInvoices)
    BY <2>2, <2>3, CountBound
  <2>5. \A l \in Lines : /\ items'[l] \in Item
                         /\ items'[l].invoiced = items[l].invoiced + hand[h].take[l]
    BY <1>1, <2>1, <2>4 DEF Rows, Item
  <2>6. QED
    BY <2>1, <2>3, <2>5 DEF Rows
<1>6. ASSUME NEW h \in Handlers, WriteReport(h)
      PROVE  items' \in Rows /\ \A l \in Lines : items'[l].invoiced <= Ordered
  <2>1. items' = [l \in Lines |-> [items[l] EXCEPT !.delivered = hand[h].items[l].delivered]]
    BY <1>6 DEF WriteReport
  <2>2. hand[h].items \in Rows
    BY <1>1 DEF Tasks
  <2>3. \A l \in Lines : items'[l] \in Item /\ items'[l].invoiced = items[l].invoiced
    BY <1>1, <2>1, <2>2 DEF Rows, Item
  <2>4. QED
    BY <1>1, <2>1, <2>3 DEF Rows
<1>7. ASSUME NEW h \in Handlers, WriteSave(h) \/ WriteCancel(h)
      PROVE  items' \in Rows /\ \A l \in Lines : items'[l].invoiced <= Ordered
  <2>1. items' \in {items, hand[h].items}
    BY <1>7 DEF WriteSave, WriteCancel
  <2>2. hand[h].items \in Rows /\ \A l \in Lines : hand[h].items[l].invoiced <= Ordered
    BY <1>1 DEF Tasks, IInv, CountsWithin
  <2>3. QED
    BY <1>1, <2>1, <2>2
<1>8. ASSUME NEW h \in Handlers, RewriteOrder(h)
      PROVE  items' \in Rows /\ \A l \in Lines : items'[l].invoiced <= Ordered
  <2>1. PICK qty \in [Lines -> 1..Limit] :
          items' = [l \in Lines |-> [qty |-> qty[l], delivered |-> 0, invoiced |-> 0]]
    BY <1>8 DEF RewriteOrder
  <2>2. 0 \in Quantity /\ 0 \in 0..(Ordered * MaxInvoices) /\ \A l \in Lines : qty[l] \in Quantity
    BY CountBound, LimitBound DEF Quantity
  <2>3. \A l \in Lines : items'[l] \in Item /\ items'[l].invoiced = 0
    BY <2>1, <2>2 DEF Item
  <2>4. QED
    BY <2>1, <2>3 DEF Rows
<1>9. ASSUME ~ (items' = items)
      PROVE  \E h \in Handlers : \/ Heal(h) \/ ResetCounts(h) \/ CommitInvoice(h)
                                 \/ WriteReport(h) \/ WriteSave(h) \/ WriteCancel(h)
                                 \/ RewriteOrder(h)
  BY <1>9 DEF vars, orderVars, Next, Step, AskInvoice, CountInvoices, QuantityChanged, LinesGone,
     ReadReport, ReadSave, ReadCancel, CreditOld, FreeRepair, Killed, ValidateDelivery,
     ReverseDelivery, MoveInvoice, SaveInvoice, ApproveRevision
<1>10. QED
  BY <1>2, <1>3, <1>4, <1>5, <1>6, <1>7, <1>8, <1>9

(* What a step does to the invoices: a request raises one, a reissue takes  *)
(* one off the books, or somebody saves one and the counts are compared.   *)
Raises(h) ==
  /\ hand[h].pc = "commit" /\ Finish(h)
  /\ \E i \in Invoices : /\ invoices[i].state = "absent"
                         /\ invoices' = [invoices EXCEPT ![i] = Raised(hand[h].take)]
  /\ items' = [l \in Lines |-> [items[l] EXCEPT !.invoiced = @ + hand[h].take[l]]]
  /\ UNCHANGED <<revived, backed>>
TakesOff ==
  /\ invoices' \in InvoiceSet /\ LiveOf(invoices') \subseteq LiveOf(invoices)
  /\ StandingOf(invoices') \subseteq StandingOf(invoices)
  /\ \A i \in Invoices : invoices'[i].qty = invoices[i].qty
  /\ UNCHANGED <<items, revived, backed>>
Saves ==
  /\ invoices' \in InvoiceSet /\ LiveOf(invoices') \subseteq LiveOf(invoices) \cup revived'
  /\ revived \subseteq revived' /\ revived' \subseteq Invoices
  /\ backed' => Covered'
InvoiceStep ==
  \/ UNCHANGED <<invoices, revived>> \/ TakesOff \/ Saves \/ \E h \in Handlers : Raises(h)

LEMMA InvoicesNow ==
  ASSUME IInv
  PROVE  invoices \in InvoiceSet /\ hand \in [Handlers -> Tasks]
BY DEF IInv, SalesTypeOK, InvoiceSet

LEMMA MoveSaves ==
  ASSUME IInv, NEW i \in Invoices, MoveInvoice(i)
  PROVE  Saves
<1>1. PICK m \in Moves : /\ invoices[i].state = m[1]
                          /\ invoices' = [invoices EXCEPT ![i].state = m[2]]
  BY DEF MoveInvoice
<1>2. m[1] \in {"draft", "posted", "credited"} /\ m[2] \in {"draft", "posted", "cancelled"}
  BY DEF Moves
<1>3. invoices' \in InvoiceSet /\ LiveOf(invoices') \subseteq LiveOf(invoices)
  BY <1>1, <1>2, InvoicesNow DEF InvoiceSet, LiveOf
<1>4. revived' = revived /\ (backed' => Covered')
  BY DEF MoveInvoice
<1>5. QED
  BY <1>3, <1>4 DEF Saves, IInv, SalesTypeOK

LEMMA SaveSaves ==
  ASSUME IInv, NEW i \in Invoices, SaveInvoice(i)
  PROVE  Saves
<1>1. PICK s \in {"draft", "posted", "cancelled"}, qty \in [Lines -> Quantity] \ {Nothing} :
        /\ invoices' = [invoices EXCEPT ![i].state = s, ![i].qty = qty]
        /\ revived' = revived \cup {j \in {i} : invoices[i].state = "cancelled" /\ s # "cancelled"}
  BY LimitBound DEF SaveInvoice
<1>2. invoices[i].state \in {"draft", "cancelled"}
  BY DEF SaveInvoice
<1>3. invoices' \in InvoiceSet
  BY <1>1, InvoicesNow DEF InvoiceSet
<1>4. ASSUME NEW j \in LiveOf(invoices') PROVE j \in LiveOf(invoices) \cup revived'
  <2>1. CASE j = i
    <3>1. invoices'[i].state = s
      BY <1>1, InvoicesNow DEF InvoiceSet
    <3>2. s # "cancelled"
      BY <1>4, <2>1, <3>1 DEF LiveOf
    <3>3. QED
      BY <1>1, <1>2, <2>1, <3>2 DEF LiveOf
  <2>2. CASE j # i
    BY <1>1, <1>4, <2>2, InvoicesNow DEF LiveOf, InvoiceSet
  <2>3. QED
    BY <2>1, <2>2
<1>5. revived \subseteq revived' /\ revived' \subseteq Invoices
  BY <1>1 DEF IInv, SalesTypeOK
<1>6. backed' => Covered'
  BY DEF SaveInvoice
<1>7. QED
  BY <1>3, <1>4, <1>5, <1>6 DEF Saves

LEMMA CreditTakesOff ==
  ASSUME IInv, NEW h \in Handlers, CreditOld(h)
  PROVE  TakesOff
<1>1. reissue \in Invoices
  BY DEF CreditOld, IInv, SalesTypeOK, Invoices
<1>2. PICK s \in {"credited", "cancelled"} :
        /\ s = "credited" => invoices[reissue].state \in {"posted", "credited"}
        /\ invoices' = [invoices EXCEPT ![reissue].state = s]
  BY DEF CreditOld
<1>3. invoices' \in InvoiceSet /\ \A i \in Invoices : invoices'[i].qty = invoices[i].qty
  BY <1>1, <1>2, InvoicesNow DEF InvoiceSet
<1>4. /\ LiveOf(invoices') \subseteq LiveOf(invoices)
      /\ StandingOf(invoices') \subseteq StandingOf(invoices)
  BY <1>1, <1>2, InvoicesNow DEF LiveOf, StandingOf, InvoiceSet
<1>5. UNCHANGED <<items, revived, backed>>
  BY DEF CreditOld, orderVars
<1>6. QED
  BY <1>3, <1>4, <1>5 DEF TakesOff

LEMMA InvoiceSteps ==
  ASSUME IInv, [Next]_vars
  PROVE  InvoiceStep /\ (alone' => alone) /\ repair' = repair
<1>1. ASSUME NEW h \in Handlers, CommitInvoice(h)
      PROVE  Raises(h) /\ alone' = alone /\ repair' = repair
  BY <1>1 DEF CommitInvoice, Raises, repairVars
<1>2. ASSUME NEW i \in Invoices, MoveInvoice(i) \/ SaveInvoice(i)
      PROVE  Saves /\ alone' = alone /\ repair' = repair
  <2>1. alone' = alone /\ repair' = repair
    BY <1>2 DEF MoveInvoice, SaveInvoice, repairVars
  <2>2. QED
    BY <1>2, <2>1, MoveSaves, SaveSaves
<1>3. ASSUME NEW h \in Handlers, NEW take, NEW locked, AskInvoice(h, take, locked)
      PROVE  UNCHANGED billVars /\ (alone' => alone) /\ repair' = repair
  BY <1>3 DEF AskInvoice, Lock, repairVars, billVars
<1>4. ASSUME NEW h \in Handlers,
             \/ Heal(h) \/ CountInvoices(h) \/ ResetCounts(h) \/ QuantityChanged(h)
             \/ LinesGone(h) \/ ReadReport(h) \/ WriteReport(h) \/ ReadSave(h) \/ WriteSave(h)
             \/ ReadCancel(h) \/ WriteCancel(h) \/ RewriteOrder(h) \/ FreeRepair(h) \/ Killed(h)
      PROVE  UNCHANGED billVars /\ alone' = alone /\ repair' = repair
  BY <1>4 DEF billVars, repairVars, Heal, CountInvoices, ResetCounts, QuantityChanged, LinesGone,
     ReadReport, WriteReport, ReadSave, WriteSave, ReadCancel, WriteCancel, RewriteOrder,
     FreeRepair, Killed
<1>5. ASSUME \/ UNCHANGED vars \/ \E l \in Lines : ValidateDelivery(l) \/ ReverseDelivery(l)
             \/ \E i \in Invoices : ApproveRevision(i)
      PROVE  UNCHANGED billVars /\ alone' = alone /\ repair' = repair
  BY <1>5 DEF vars, billVars, repairVars, ValidateDelivery, ReverseDelivery, ApproveRevision
<1>6. ASSUME NEW h \in Handlers, CreditOld(h)
      PROVE  TakesOff /\ alone' = alone /\ repair' = repair
  <2>1. alone' = alone /\ repair' = repair
    BY <1>6 DEF CreditOld, repairVars
  <2>2. QED
    BY <1>6, <2>1, CreditTakesOff
<1>7. CASE UNCHANGED billVars /\ (alone' => alone) /\ repair' = repair
  BY <1>7 DEF InvoiceStep, billVars
<1>8. QED
  BY <1>1, <1>2, <1>3, <1>4, <1>5, <1>6, <1>7 DEF InvoiceStep, Next, Step

(* The other variables. *)
LEMMA OrderStep ==
  ASSUME IInv, [Next]_vars
  PROVE  /\ status' \in {"sale", "cancelled"} /\ done' \in [Lines -> Quantity]
         /\ reissue' \in 0..MaxInvoices /\ replaced' \subseteq 0..MaxInvoices
         /\ replaced \subseteq replaced'
<1>1. /\ status \in {"sale", "cancelled"} /\ done \in [Lines -> Quantity]
      /\ reissue \in 0..MaxInvoices /\ replaced \subseteq 0..MaxInvoices
      /\ hand \in [Handlers -> Tasks]
  BY DEF IInv, SalesTypeOK
<1>2. ASSUME NEW l \in Lines, ValidateDelivery(l) \/ ReverseDelivery(l)
      PROVE  UNCHANGED <<status, repairVars>> /\ done' \in [Lines -> Quantity]
  <2>1. PICK n \in 0..Ordered : done' = [done EXCEPT ![l] = n]
    <3>1. done[l] \in 0..Ordered
      BY <1>1 DEF Quantity
    <3>2. CASE ValidateDelivery(l)
      <4>1. PICK n \in 1..(Limit - done[l]) : done' = [done EXCEPT ![l] = @ + n]
        BY <3>2 DEF ValidateDelivery
      <4>2. done[l] + n \in 0..Ordered
        BY <3>1, LimitBound
      <4>3. QED
        BY <1>1, <4>1, <4>2
    <3>3. CASE ReverseDelivery(l)
      <4>1. PICK n \in 1..done[l] : done' = [done EXCEPT ![l] = @ - n]
        BY <3>3 DEF ReverseDelivery
      <4>2. done[l] - n \in 0..Ordered
        BY <3>1
      <4>3. QED
        BY <1>1, <4>1, <4>2
    <3>4. QED
      BY <1>2, <3>2, <3>3
  <2>2. QED
    BY <1>1, <1>2, <2>1 DEF ValidateDelivery, ReverseDelivery, Quantity
<1>3. ASSUME NEW i \in Invoices, ApproveRevision(i)
      PROVE  UNCHANGED <<status, done, replaced>> /\ reissue' \in 0..MaxInvoices
  BY <1>3 DEF ApproveRevision, orderVars, Invoices
<1>4. ASSUME NEW h \in Handlers, FreeRepair(h)
      PROVE  /\ UNCHANGED <<status, done>> /\ reissue' \in 0..MaxInvoices
             /\ replaced \subseteq replaced' /\ replaced' \subseteq 0..MaxInvoices
  <2>1. hand[h].invoice \in 0..MaxInvoices
    BY <1>1 DEF Tasks
  <2>2. UNCHANGED <<status, done>> /\ replaced' = replaced \cup {hand[h].invoice} /\ reissue' = 0
    BY <1>4 DEF FreeRepair, orderVars
  <2>3. 0 \in 0..MaxInvoices
    BY SalesAssumption
  <2>4. QED
    BY <1>1, <2>1, <2>2, <2>3
<1>5. ASSUME ~ \E l \in Lines : ValidateDelivery(l) \/ ReverseDelivery(l),
             ~ \E i \in Invoices : ApproveRevision(i), ~ \E h \in Handlers : FreeRepair(h)
      PROVE  UNCHANGED <<done, reissue, replaced>> /\ status' \in {status, "sale", "cancelled"}
  BY <1>5 DEF vars, orderVars, repairVars, Next, Step, AskInvoice, Heal, CountInvoices, ResetCounts,
     CommitInvoice, QuantityChanged, LinesGone, ReadReport, WriteReport, ReadSave, WriteSave,
     ReadCancel, WriteCancel, CreditOld, RewriteOrder, Killed, MoveInvoice, SaveInvoice
<1>6. QED
  BY <1>1, <1>2, <1>3, <1>4, <1>5 DEF repairVars

-----------------------------------------------------------------------------
(* The invariant is kept. *)

LEMMA InvoicesTyped ==
  ASSUME IInv, InvoiceStep
  PROVE  invoices \in InvoiceSet /\ invoices' \in InvoiceSet /\ revived' \subseteq Invoices
<1>1. invoices \in InvoiceSet /\ hand \in [Handlers -> Tasks] /\ revived \subseteq Invoices
  BY InvoicesNow DEF IInv, SalesTypeOK
<1>2. ASSUME NEW h \in Handlers, Raises(h)
      PROVE  invoices' \in InvoiceSet /\ revived' \subseteq Invoices
  <2>1. hand[h].take \in [Lines -> Quantity]
    BY <1>1 DEF Tasks
  <2>2. QED
    BY <1>1, <1>2, <2>1 DEF Raises, Raised, InvoiceSet
<1>3. CASE TakesOff \/ Saves
  BY <1>1, <1>3 DEF TakesOff, Saves
<1>4. QED
  BY <1>1, <1>2, <1>3 DEF InvoiceStep

LEMMA LiveNow == Live = LiveOf(invoices) /\ \A l \in Lines : Billed(l) = BilledOf(invoices, l)
BY DEF Live, LiveOf, Standing, StandingOf, Billed, BilledOf

LEMMA LiveNext == Live' = LiveOf(invoices') /\ \A l \in Lines : Billed(l)' = BilledOf(invoices', l)
BY DEF Live, LiveOf, Standing, StandingOf, Billed, BilledOf

(* What is not cancelled grows by the invoice a request raises and by those *)
(* that are revived.                                                       *)
LEMMA LiveStep ==
  ASSUME IInv, InvoiceStep
  PROVE  /\ revived \subseteq revived'
         /\ \/ Live' \subseteq Live \cup revived'
            \/ \E h \in Handlers, i \in Invoices : Raises(h) /\ Live' = Live \cup {i}
<1>1. CASE UNCHANGED <<invoices, revived>> \/ TakesOff \/ Saves
  BY <1>1, LiveNow, LiveNext DEF TakesOff, Saves
<1>2. ASSUME NEW h \in Handlers, Raises(h)
      PROVE  revived' = revived /\ \E i \in Invoices : Live' = Live \cup {i}
  <2>1. PICK i \in Invoices : /\ invoices[i].state = "absent"
                               /\ invoices' = [invoices EXCEPT ![i] = Raised(hand[h].take)]
    BY <1>2 DEF Raises
  <2>2. LiveOf(invoices') = LiveOf(invoices) \cup {i}
    BY <2>1, InvoicesNow DEF LiveOf, InvoiceSet, Raised
  <2>3. QED
    BY <1>2, <2>2, LiveNow, LiveNext DEF Raises
<1>3. QED
  BY <1>1, <1>2 DEF InvoiceStep

LEMMA RaisedBills ==
  ASSUME IInv, InvoiceStep, NEW h \in Handlers, Raises(h)
  PROVE  \A l \in Lines : Billed(l)' = Billed(l) + hand[h].take[l]
<1>1. PICK take \in [Lines -> Quantity] : take = hand[h].take
  BY InvoicesNow DEF Tasks
<1>2. PICK i \in Invoices : /\ invoices[i].state = "absent"
                             /\ invoices' = [invoices EXCEPT ![i] = Raised(take)]
  BY <1>1 DEF Raises
<1>3. invoices \in InvoiceSet /\ invoices' \in InvoiceSet
  BY InvoicesTyped
<1>4. ASSUME NEW l \in Lines
      PROVE  BilledOf(invoices', l) = BilledOf(invoices, l) + take[l]
  <2>1. /\ invoices'[i].state = "draft" /\ invoices'[i].qty[l] = take[l]
        /\ \A j \in Invoices \ {i} : invoices'[j] = invoices[j]
    BY <1>2, <1>3 DEF InvoiceSet, Raised
  <2>2. BilledOf(invoices', l) = BilledOf(invoices, l) + invoices'[i].qty[l]
    <3>1. invoices[i].state = "absent" /\ invoices'[i].state = "draft"
      BY <1>2, <2>1
    <3>2. QED
      BY <1>3, <2>1, <3>1, NewInvoiceBills
  <2>3. QED
    BY <2>1, <2>2
<1>5. QED
  BY <1>1, <1>4, LiveNow, LiveNext

LEMMA HandKept ==
  ASSUME IInv, [Next]_vars
  PROVE  /\ hand' \in [Handlers -> Tasks] /\ OneHolds' /\ BillsLocked'
         /\ \A h \in Handlers, l \in Lines : hand'[h].items[l].invoiced <= Ordered
<1>1. HandStep /\ (alone' => alone)
  BY HandSteps, InvoiceSteps
<1>2. /\ hand \in [Handlers -> Tasks] /\ OneHolds /\ BillsLocked
      /\ \A h \in Handlers, l \in Lines : hand[h].items[l].invoiced <= Ordered
  BY DEF IInv, SalesTypeOK, OneHolds, CountsWithin
<1>3. CASE Settles
  <2>1. \A g \in Handlers : (Holding(g)' => Holding(g)) /\ (Billing(g)' => Billing(g))
    BY <1>3 DEF Settles, Holding, Billing, BillingPoints
  <2>2. OneHolds' /\ BillsLocked'
    BY <1>1, <1>2, <1>3, <2>1 DEF OneHolds, BillsLocked, Settles
  <2>3. QED
    BY <1>2, <1>3, <2>2 DEF Settles
<1>4. ASSUME NEW h \in Handlers, NEW t \in Tasks, Sets(h, t)
      PROVE  /\ hand' \in [Handlers -> Tasks] /\ OneHolds' /\ BillsLocked'
             /\ \A g \in Handlers, l \in Lines : hand'[g].items[l].invoiced <= Ordered
  <2>1. /\ hand' \in [Handlers -> Tasks] /\ hand'[h] = t
        /\ \A g \in Handlers \ {h} : hand'[g] = hand[g]
    BY <1>2, <1>4 DEF Sets
  <2>2. \A g \in Handlers \ {h} : Holding(g)' = Holding(g)
    BY <2>1 DEF Holding
  <2>3. Holding(h)' => Holding(h) \/ \A g \in Handlers : ~ Holding(g)
    BY <1>4, <2>1 DEF Sets, Holding, BillingPoints
  <2>4. OneHolds'
    BY <1>2, <2>2, <2>3 DEF OneHolds
  <2>5. BillsLocked'
    BY <1>1, <1>2, <1>4, <2>1 DEF Sets, BillsLocked, Billing, BillingPoints
  <2>6. \A g \in Handlers, l \in Lines : hand'[g].items[l].invoiced <= Ordered
    BY <1>2, <1>4, <2>1 DEF Sets, CountsTask
  <2>7. QED
    BY <2>1, <2>4, <2>5, <2>6
<1>5. QED
  BY <1>1, <1>3, <1>4 DEF HandStep

(* While the lock works, no two requests bill at a time. *)
LEMMA BillsAlone ==
  ASSUME IInv, alone, NEW g \in Handlers, NEW h \in Handlers, Billing(g), Billing(h)
  PROVE  g = h
<1>1. Holding(g) /\ Holding(h)
  BY DEF IInv, BillsLocked, Billing, Holding
<1>2. QED
  BY <1>1 DEF IInv, SalesTypeOK

LEMMA StillNoneKept ==
  ASSUME IInv, [Next]_vars
  PROVE  StillNone'
<1>1. HandStep /\ InvoiceStep /\ (alone' => alone) /\ repair' = repair
  BY HandSteps, InvoiceSteps
<1>2. hand \in [Handlers -> Tasks] /\ StillNone /\ revived \subseteq revived' /\ replaced \subseteq replaced'
  BY <1>1, LiveStep, OrderStep DEF IInv, SalesTypeOK
<1>3. CASE Live' \subseteq Live \cup revived'
  <2>1. /\ Live \subseteq revived => Live' \subseteq revived'
        /\ Live \subseteq replaced \cup revived => Live' \subseteq replaced' \cup revived'
    BY <1>2, <1>3
  <2>2. CASE Settles
    <3>1. ASSUME alone', NEW g \in Handlers
          PROVE  /\ hand'[g].pc = "reset" => Live' \subseteq revived'
                 /\ repair' /\ Billing(g)' => Live' \subseteq replaced' \cup revived'
      <4>1. alone /\ (repair' <=> repair)
        BY <1>1, <3>1
      <4>2. /\ hand[g].pc = "reset" => Live \subseteq revived
            /\ repair /\ Billing(g) => Live \subseteq replaced \cup revived
        BY <1>2, <4>1 DEF StillNone
      <4>3. (hand'[g].pc = "reset" => hand[g].pc = "reset") /\ (Billing(g)' => Billing(g))
        BY <2>2, <3>1 DEF Billing, Settles, BillingPoints
      <4>4. QED
        BY <2>1, <4>1, <4>2, <4>3
    <3>2. QED
      BY <3>1 DEF StillNone
  <2>3. ASSUME NEW h \in Handlers, NEW t \in Tasks, Sets(h, t)
        PROVE  StillNone'
    <3>1. hand'[h] = t /\ \A g \in Handlers \ {h} : hand'[g] = hand[g]
      BY <1>2, <2>3 DEF Sets
    <3>2. /\ alone' /\ t.pc = "reset" => Live \subseteq revived
          /\ alone' /\ repair /\ t.pc \in BillingPoints => Live \subseteq replaced \cup revived
      BY <1>1, <2>3 DEF Sets, BillingPoints
    <3>3. ASSUME alone', NEW g \in Handlers
          PROVE  /\ hand'[g].pc = "reset" => Live \subseteq revived
                 /\ repair /\ Billing(g)' => Live \subseteq replaced \cup revived
      <4>1. CASE g = h
        BY <3>1, <3>2, <3>3, <4>1 DEF Billing, BillingPoints
      <4>2. CASE g # h
        BY <1>1, <1>2, <3>1, <3>3, <4>2 DEF StillNone, Billing
      <4>3. QED
        BY <4>1, <4>2
    <3>4. QED
      BY <1>1, <2>1, <3>3 DEF StillNone
  <2>4. QED
    BY <1>1, <2>2, <2>3 DEF HandStep
<1>4. ASSUME NEW h \in Handlers, Raises(h)
      PROVE  StillNone'
  <2>1. Billing(h) /\ hand'[h] = NoTask /\ \A g \in Handlers \ {h} : hand'[g] = hand[g]
    BY <1>2, <1>4 DEF Raises, Finish, Billing
  <2>2. ~ Billing(h)'
    BY <2>1, BlankTyped DEF Billing
  <2>3. ASSUME alone', NEW g \in Handlers PROVE ~ Billing(g)'
    <3>1. CASE g = h
      BY <2>2, <3>1
    <3>2. CASE g # h
      <4>1. ~ Billing(g)
        BY <1>1, <2>1, <2>3, <3>2, BillsAlone
      <4>2. hand'[g] = hand[g]
        BY <2>1, <3>2
      <4>3. QED
        BY <4>1, <4>2 DEF Billing
    <3>3. QED
      BY <3>1, <3>2
  <2>4. QED
    BY <2>3 DEF StillNone, Billing
<1>5. QED
  BY <1>1, <1>3, <1>4, LiveStep

LEMMA RepairKept ==
  ASSUME IInv, [Next]_vars
  PROVE  RepairBilledOnce'
<1> DEFINE Own == Live \ (replaced \cup revived)
<1>1. /\ InvoiceStep /\ (alone' => alone) /\ repair' = repair
      /\ revived \subseteq revived' /\ replaced \subseteq replaced'
  BY InvoiceSteps, LiveStep, OrderStep
<1>2. IsFiniteSet(Own)
  BY InvoicesFinite, FS_Subset DEF Live
<1>3. CASE Live' \subseteq Live \cup revived'
  <2>1. Own' \subseteq Own
    BY <1>1, <1>3
  <2>2. Cardinality(Own') <= Cardinality(Own) /\ Cardinality(Own) \in Nat /\ Cardinality(Own') \in Nat
    BY <1>2, <2>1, FS_Subset, FS_CardinalityType
  <2>3. QED
    BY <1>1, <2>2 DEF IInv, RepairBilledOnce
<1>4. ASSUME NEW h \in Handlers, NEW i \in Invoices, Raises(h), Live' = Live \cup {i}
      PROVE  RepairBilledOnce'
  <2>1. repair /\ alone => Live \subseteq replaced \cup revived
    BY <1>4 DEF Raises, IInv, StillNone, Billing
  <2>2. repair' /\ alone' => Own' \subseteq {i}
    BY <1>1, <1>4, <2>1
  <2>3. Cardinality({i}) = 1 /\ IsFiniteSet({i})
    BY FS_Singleton
  <2>4. Own' \subseteq {i} => Cardinality(Own') <= 1
    BY <2>3, FS_Subset
  <2>5. QED
    BY <2>2, <2>4 DEF RepairBilledOnce
<1>5. QED
  BY <1>1, <1>3, <1>4, LiveStep

(* What a step does to the counts. *)
LEMMA CountsStep ==
  ASSUME IInv, [Next]_vars
  PROVE  \/ backed' => Covered'
         \/ \E h \in Handlers : Raises(h)
         \/ /\ \A l \in Lines : items'[l].invoiced = items[l].invoiced
            /\ (backed' => backed) /\ (UNCHANGED invoices \/ TakesOff)
         \/ /\ \A l \in Lines : items'[l].invoiced = 0
            /\ (backed' => Live = {}) /\ UNCHANGED invoices
<1> DEFINE Kept == (\A l \in Lines : items'[l].invoiced = items[l].invoiced) /\ backed' = backed
<1>1. items \in Rows
  BY DEF IInv, SalesTypeOK
<1>2. ASSUME NEW h \in Handlers, Heal(h) \/ WriteReport(h) PROVE Kept /\ UNCHANGED invoices
  BY <1>1, <1>2 DEF Heal, WriteReport, Rows, Item, billVars
<1>3. ASSUME NEW h \in Handlers, ResetCounts(h)
      PROVE  (\A l \in Lines : items'[l].invoiced = 0) /\ (backed' => Live = {}) /\ UNCHANGED invoices
  <2>1. items' = [l \in Lines |-> [items[l] EXCEPT !.invoiced = 0]] /\ UNCHANGED invoices
    BY <1>3 DEF ResetCounts, billVars
  <2>2. \A l \in Lines : items'[l].invoiced = 0
    BY <1>1, <2>1 DEF Rows, Item
  <2>3. alone => Live \subseteq revived
    BY <1>3 DEF ResetCounts, IInv, StillNone
  <2>4. backed' => Live = {} \/ (alone /\ Live \cap revived = {})
    BY <1>3 DEF ResetCounts
  <2>5. QED
    BY <2>1, <2>2, <2>3, <2>4
<1>4. ASSUME \/ \E h \in Handlers : WriteSave(h) \/ WriteCancel(h) \/ RewriteOrder(h)
             \/ \E i \in Invoices : MoveInvoice(i) \/ SaveInvoice(i)
      PROVE  backed' => Covered'
  BY <1>4 DEF WriteSave, WriteCancel, RewriteOrder, MoveInvoice, SaveInvoice
<1>5. ASSUME NEW h \in Handlers, CommitInvoice(h) PROVE Raises(h)
  BY <1>5 DEF CommitInvoice, Raises
<1>6. ASSUME NEW h \in Handlers, NEW take, NEW locked, AskInvoice(h, take, locked)
      PROVE  Kept /\ UNCHANGED invoices
  BY <1>6 DEF AskInvoice, orderVars, billVars
<1>7. ASSUME NEW h \in Handlers,
             \/ CountInvoices(h) \/ QuantityChanged(h) \/ LinesGone(h) \/ ReadReport(h)
             \/ ReadSave(h) \/ ReadCancel(h) \/ FreeRepair(h) \/ Killed(h)
      PROVE  Kept /\ UNCHANGED invoices
  <2>1. UNCHANGED <<items, invoices>>
    BY <1>7 DEF orderVars, billVars, CountInvoices, QuantityChanged, LinesGone, ReadReport, ReadSave,
       ReadCancel, FreeRepair, Killed
  <2>2. backed' = backed
    BY <1>7 DEF CountInvoices, QuantityChanged, LinesGone, ReadReport, ReadSave, ReadCancel,
       FreeRepair, Killed
  <2>3. QED
    BY <2>1, <2>2
<1>8. ASSUME \/ UNCHANGED vars \/ \E l \in Lines : ValidateDelivery(l) \/ ReverseDelivery(l)
             \/ \E i \in Invoices : ApproveRevision(i)
      PROVE  Kept /\ UNCHANGED invoices
  BY <1>8 DEF vars, orderVars, billVars, ValidateDelivery, ReverseDelivery, ApproveRevision
<1>9. ASSUME NEW h \in Handlers, CreditOld(h) PROVE Kept /\ TakesOff
  BY <1>9, CreditTakesOff DEF TakesOff
<1> HIDE DEF Kept
<1>10. CASE Kept /\ (UNCHANGED invoices \/ TakesOff)
  BY <1>10 DEF Kept
<1>11. QED
  BY <1>2, <1>3, <1>4, <1>5, <1>6, <1>7, <1>8, <1>9, <1>10 DEF Next, Step

LEMMA NothingBilled ==
  ASSUME Live = {}, NEW l \in Lines
  PROVE  Billed(l) = 0
<1> DEFINE f == [i \in {} |-> invoices[i].qty[l]]
<1>1. f \in [{} -> Nat] /\ IsFiniteSet({})
  BY FS_EmptySet
<1>2. Standing = {}
  BY DEF Live, Standing
<1> HIDE DEF f
<1>3. SumFunction(f) = 0
  BY <1>1, SumZero
<1>4. QED
  BY <1>2, <1>3 DEF Billed, f

LEMMA BilledKept ==
  ASSUME IInv, [Next]_vars
  PROVE  BilledWithinCount'
<1>1. InvoiceStep
  BY InvoiceSteps
<1>2. \A l \in Lines : Billed(l) \in Nat /\ Billed(l)' \in Nat /\ items[l].invoiced \in Nat
  BY <1>1, InvoicesTyped, LiveNow, LiveNext, BilledIsColumn, CountBound
  DEF IInv, SalesTypeOK, Rows, Item
<1>3. backed => \A l \in Lines : Billed(l) <= items[l].invoiced
  BY DEF IInv, BilledWithinCount, Covered
<1>4. SUFFICES ASSUME backed', NEW l \in Lines PROVE Billed(l)' <= items'[l].invoiced
  BY DEF BilledWithinCount, Covered
<1>5. CASE backed' => Covered'
  BY <1>4, <1>5 DEF Covered
<1>6. ASSUME NEW h \in Handlers, Raises(h) PROVE Billed(l)' <= items'[l].invoiced
  <2>1. items'[l].invoiced = items[l].invoiced + hand[h].take[l]
    BY <1>6 DEF Raises, IInv, SalesTypeOK, Rows, Item
  <2>2. hand[h].take[l] \in Nat
    BY InvoicesNow DEF Tasks, Quantity
  <2>3. backed
    BY <1>4, <1>6 DEF Raises
  <2>4. Billed(l)' = Billed(l) + hand[h].take[l]
    BY <1>1, <1>6, RaisedBills
  <2>5. QED
    BY <1>2, <1>3, <2>1, <2>2, <2>3, <2>4
<1>7. CASE UNCHANGED invoices \/ TakesOff
  <2>1. Billed(l)' <= Billed(l)
    <3>1. CASE UNCHANGED invoices
      BY <1>2, <3>1, LiveNow, LiveNext
    <3>2. CASE TakesOff
      <4>1. BilledOf(invoices', l) <= BilledOf(invoices, l)
        BY <1>1, <3>2, InvoicesTyped, FewerStandingBill DEF TakesOff
      <4>2. QED
        BY <4>1, LiveNow, LiveNext
    <3>3. QED
      BY <1>7, <3>1, <3>2
  <2>2. CASE items'[l].invoiced = items[l].invoiced /\ backed
    BY <1>2, <1>3, <2>1, <2>2
  <2>3. CASE items'[l].invoiced = 0 /\ Live = {}
    BY <1>2, <2>1, <2>3, NothingBilled
  <2>4. (items'[l].invoiced = items[l].invoiced /\ backed) \/ (items'[l].invoiced = 0 /\ Live = {})
        \/ Billed(l)' <= items'[l].invoiced
    BY <1>4, <1>5, <1>6, CountsStep
  <2>5. QED
    BY <2>2, <2>3, <2>4
<1>8. QED
  BY <1>5, <1>6, <1>7, CountsStep

LEMMA InvariantStep ==
  ASSUME IInv, [Next]_vars
  PROVE  IInv'
<1>1. invoices' \in InvoiceSet /\ repair' \in BOOLEAN /\ revived' \subseteq Invoices
  BY InvoiceSteps, InvoicesTyped DEF IInv, SalesTypeOK
<1>2. SalesTypeOK'
  BY <1>1, HandKept, ItemsStep, OrderStep DEF IInv, SalesTypeOK, OneHolds, InvoiceSet
<1>3. CountsWithin'
  BY HandKept, ItemsStep DEF CountsWithin
<1>4. QED
  BY <1>2, <1>3, HandKept, StillNoneKept, BilledKept, RepairKept DEF IInv

LEMMA InvariantInit ==
  ASSUME Init
  PROVE  IInv
<1>1. \A h \in Handlers : hand[h] = NoTask
  BY DEF Init
<1>2. /\ items \in Rows /\ \A l \in Lines : items[l].invoiced = 0
  BY CountBound, LimitBound DEF Init, Rows, Item, Quantity
<1>3. hand \in [Handlers -> Tasks]
  BY BlankTyped DEF Init
<1>4. \A h \in Handlers : ~ Holding(h) /\ ~ Billing(h)
  BY <1>1, BlankTyped DEF Holding, Billing
<1>5. invoices \in InvoiceSet
  BY BlankTyped DEF Init, InvoiceSet
<1>6. SalesTypeOK
  BY <1>2, <1>3, <1>4, <1>5, BlankTyped DEF Init, SalesTypeOK, InvoiceSet
<1>7. CountsWithin
  BY <1>1, <1>2, BlankTyped DEF CountsWithin
<1>8. Live = {}
  BY DEF Init, Live
<1>9. Covered
  BY <1>2, <1>8, NothingBilled DEF Covered
<1>10. Cardinality(Live \ (replaced \cup revived)) = 0
  BY <1>8, FS_EmptySet
<1>11. QED
  BY <1>1, <1>2, <1>4, <1>6, <1>7, <1>8, <1>9, <1>10, BlankTyped
  DEF IInv, BillsLocked, StillNone, BilledWithinCount, RepairBilledOnce

(* Every variable keeps its type, no count is written above what can be     *)
(* ordered, and what a request found missing under the lock stays missing. *)
THEOREM SalesInductive == Spec => []IInv
<1>1. Init => IInv
  BY InvariantInit
<1>2. IInv /\ [Next]_vars => IInv'
  BY InvariantStep
<1>3. QED
  BY <1>1, <1>2, PTL DEF Spec

(* The variables keep their types and one request at a time holds the lock  *)
(* of the order, whoever is killed or goes on without it.                  *)
THEOREM OneRequestLocks == Spec => []SalesTypeOK
<1>1. IInv => SalesTypeOK
  BY DEF IInv
<1>2. QED
  BY <1>1, SalesInductive, PTL

(* Until somebody puts a count below what stands on invoices (a save of the *)
(* order or of an invoice, a reissue, an unlocked reset or one beside a     *)
(* revived invoice), no quantity is billed twice and none that was never    *)
(* ordered, for any number of overlapping requests, locked or not.         *)
THEOREM NothingBilledTwice == Spec => []BilledOnce
<1>1. IInv => BilledOnce
  BY DEF IInv, BilledWithinCount, CountsWithin, BilledOnce
<1>2. QED
  BY <1>1, SalesInductive, PTL

(* While the lock works, a repair has at most one invoice besides those a   *)
(* reissue replaced and those revived from cancelled, whatever the saves    *)
(* of the order do to its counts and wherever a reissue is cut off.        *)
THEOREM RepairHasOneInvoice == Spec => []RepairBilledOnce
<1>1. IInv => RepairBilledOnce
  BY DEF IInv
<1>2. QED
  BY <1>1, SalesInductive, PTL
===============================================================================
