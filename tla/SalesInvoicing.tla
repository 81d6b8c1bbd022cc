--------------------------- MODULE SalesInvoicing ---------------------------
(***************************************************************************)
(* One confirmed sale order, its deliveries as far as billing reads them,  *)
(* the customer invoices raised from it and, when it bills a repair, the   *)
(* reissue of an invoice whose quote was revised                           *)
(* (app/api/sale-orders/[id]/route.ts and its create-invoice and           *)
(* deliver-lines routes, deliver-held/route.ts, invoices/[id]/route.ts,    *)
(* repairs/[id]/reissue-invoice/route.ts, lib/sale-order-items-write.ts).  *)
(*                                                                         *)
(* Every request reads the order and writes back later.  Only creating an  *)
(* invoice takes a lock, and only the invoice itself is written in a       *)
(* transaction that looks at the order again.                              *)
(*                                                                         *)
(* Abstractions: each line has a product of its own and no serials; prices,*)
(* discounts, down payments (the route refuses new ones) and credit limits *)
(* are left out; voided is "cancelled"; quotations are left out, so only a *)
(* reissue reopens a cancelled order; neither a save nor a revised quote   *)
(* removes or adds lines; a repair is finished throughout; the screens send*)
(* the whole order with its lines and status, a save without lockVersion   *)
(* (lib/sale-order-persist.ts).                                            *)
(***************************************************************************)
EXTENDS Integers, FiniteSets, Functions

CONSTANTS
  Lines,        \* lines of the order
  ByDelivery,   \* those whose product is invoiced by delivered quantity
  Repairs,      \* whether the order may bill a finished repair: a set of Booleans
  Handlers,     \* requests being handled
  Ordered,      \* bound: quantity of a line
  Quoted,       \* bound: quantity of a line of an order that bills a repair
  MaxInvoices,  \* bound: invoices raised from the order
  MaxTrouble    \* bound: saves of the order and of its invoices, delivery reports,
                \*        killed requests and failures of the lock, taken together

ASSUME SalesAssumption ==
  /\ ByDelivery \subseteq Lines /\ IsFiniteSet(Lines) /\ IsFiniteSet(Handlers)
  /\ Repairs \subseteq BOOLEAN
  /\ Ordered \in Nat \ {0} /\ Quoted \in 1..Ordered
  /\ MaxInvoices \in Nat /\ MaxTrouble \in Nat

VARIABLES
  status,    \* sale_orders.status
  items,     \* sale_order_items: qty, qty_delivered, qty_invoiced
  done,      \* quantity of each line in its validated deliveries
  repair,    \* whether the order bills a finished repair
  reissue,   \* the repair's invoice an approved revision replaces, or 0
  replaced,  \* the repair's previousInvoiceIds
  invoices,  \* the invoices of the order: what each bills, what it billed when raised
  revived,   \* invoices that were cancelled and then brought back (history)
  hand,      \* what each request read and what it has left to do
  trouble,   \* saves, reports, kills and lock failures so far
  alone,     \* no request has run without the lock so far
  backed     \* nobody has put a count below what stands on invoices so far

orderVars == <<status, items, done>>
repairVars == <<repair, reissue, replaced>>
billVars == <<invoices, revived>>
vars == <<orderVars, repairVars, billVars, hand, trouble, alone, backed>>

Quantity == 0..Ordered
Limit == IF repair THEN Quoted ELSE Ordered
Portions == [Lines -> 0..Limit]
Item == [qty : Quantity, delivered : Quantity, invoiced : 0..(Ordered * MaxInvoices)]
Rows == [Lines -> Item]
Invoices == 1..MaxInvoices
HoldsLines == {"heal", "count", "reset", "commit", "report", "save", "cancel"}
Points == HoldsLines \cup {"idle", "rewrite", "free"}
Tasks == [pc : Points, items : Rows, done : [Lines -> Quantity], take : [Lines -> Quantity],
          locked : BOOLEAN, gone : BOOLEAN, invoice : 0..MaxInvoices]

-----------------------------------------------------------------------------
Least(a, b) == IF a < b THEN a ELSE b
Most(a, b) == IF a > b THEN a ELSE b

(* The invoices that are not cancelled, and those of them that bill: one    *)
(* credited in full by a reissue keeps its posted status.                  *)
Live == {i \in Invoices : invoices[i].state \in {"draft", "posted", "credited"}}
Standing == {i \in Invoices : invoices[i].state \in {"draft", "posted"}}
Billed(l) == SumFunction([i \in Standing |-> invoices[i].qty[l]])
Covered == \A l \in Lines : Billed(l) <= items[l].invoiced

(* invoiceableQty: a finished repair bills what was ordered. *)
Base(l, item) == IF l \in ByDelivery /\ ~repair THEN item.delivered ELSE item.qty
Invoiceable(l, item) == Most(0, Base(l, item) - item.invoiced)

(* allocateDeliveredQtyToOrderLines, mode max *)
Healed(row, out) ==
  [l \in Lines |-> [row[l] EXCEPT !.delivered = Most(@, Least(row[l].qty, out[l]))]]

(* mapSaleOrderItems: a saved line keeps the larger of the count read from  *)
(* the row and the count the screen sent, within the quantity.             *)
Saved(row, body) ==
  [l \in Lines |->
     [qty       |-> body[l].qty,
      delivered |-> Least(body[l].qty, Most(row[l].delivered, body[l].delivered)),
      invoiced  |-> Least(body[l].qty, Most(row[l].invoiced, body[l].invoiced))]]

(* An order whose counters say invoiced while no invoice stands.  Counting  *)
(* is over when the request resets them.                                   *)
PhantomAlways(row) == \E l \in Lines : row[l].invoiced > 0
                      \* mutant: whatever invoices stand
PhantomNever(row) == FALSE   \* mutant: the counters are believed
Phantom(row) == Live = {} /\ \E l \in Lines : row[l].invoiced > 0

(* hasValidatedDeliveryForInvoice and fullyDelivered, or workshopFinished *)
Deliverable(row, out) ==
  repair \/ (/\ \E l \in Lines : out[l] > 0
             /\ \A l \in Lines : row[l].delivered >= row[l].qty)

(* invoiceable, capped by what the request asked for *)
ToBill(row, take) == [l \in Lines |-> Least(Invoiceable(l, row[l]), take[l])]

(* A repair is billed once, until a reissue replaces its invoice. *)
HandedBackNever == FALSE    \* mutant: another invoice for a billed repair
HandedBack == repair /\ \E i \in Live : i \notin replaced

Holding(h) == hand[h].pc \in {"heal", "count", "reset", "commit"} /\ hand[h].locked
Idle(h) == hand[h].pc = "idle"

Task(pc, row, take, locked) ==
  [pc |-> pc, items |-> row, done |-> [l \in Lines |-> IF pc = "heal" THEN done[l] ELSE 0],
   take |-> take, locked |-> locked, gone |-> FALSE, invoice |-> 0]
Nothing == [l \in Lines |-> 0]
Blank == [l \in Lines |-> [qty |-> 0, delivered |-> 0, invoiced |-> 0]]
NoTask == Task("idle", Blank, Nothing, FALSE)
Finish(h) == hand' = [hand EXCEPT ![h] = NoTask]

Init ==
  /\ status = "sale"
  /\ repair \in Repairs
  /\ items = [l \in Lines |-> [qty |-> Limit, delivered |-> 0, invoiced |-> 0]]
  /\ done = Nothing /\ reissue = 0 /\ replaced = {}
  /\ invoices = [i \in Invoices |-> [state |-> "absent", qty |-> Nothing, raised |-> Nothing]]
  /\ revived = {}
  /\ hand = [h \in Handlers |-> NoTask]
  /\ trouble = 0 /\ alone = TRUE /\ backed = TRUE

-----------------------------------------------------------------------------
(* Creating an invoice (create-invoice/route.ts). *)

LockShared(h, locked) == UNCHANGED <<trouble, alone>>   \* mutant: no lock is taken

Trouble == trouble < MaxTrouble /\ trouble' = trouble + 1

(* The lock of the order; without a database connection for it the request *)
(* goes on unlocked.                                                       *)
Lock(h, locked) ==
  IF locked
  THEN /\ \A g \in Handlers : ~Holding(g)
       /\ UNCHANGED <<trouble, alone>>
  ELSE /\ Trouble
       /\ alone' = FALSE

(* The order and the deliveries are read; a billed repair's invoice is      *)
(* handed back.  take is the whole order or the quantities chosen (a choice *)
(* of nothing is left out: it heals as any other and is then refused).     *)
AskInvoice(h, take, locked) ==
  /\ Idle(h) /\ status = "sale" /\ ~HandedBack /\ take # Nothing
  /\ Lock(h, locked)
  /\ hand' = [hand EXCEPT ![h] = Task("heal", items, take, locked)]
  /\ UNCHANGED <<orderVars, repairVars, billVars, backed>>

(* qtyDelivered is raised to what the validated deliveries say. *)
HealedRow(h) == Healed(hand[h].items, hand[h].done)
Heal(h) ==
  /\ hand[h].pc = "heal" /\ (hand[h].gone => HealedRow(h) = hand[h].items)
  /\ items' = [l \in Lines |->
       IF HealedRow(h)[l] # hand[h].items[l]
       THEN [items[l] EXCEPT !.delivered = HealedRow(h)[l].delivered]
       ELSE items[l]]
  /\ hand' = [hand EXCEPT ![h].pc = "count", ![h].items = HealedRow(h)]
  /\ UNCHANGED <<status, done, repairVars, billVars, trouble, alone, backed>>

(* What is left to bill is settled, unless nothing is or the order is not   *)
(* delivered: then the request is refused.                                 *)
Decide(h, row) ==
  IF Deliverable(row, hand[h].done) /\ ToBill(row, hand[h].take) # Nothing
  THEN hand' = [hand EXCEPT ![h].pc = "commit", ![h].items = Blank, ![h].done = Nothing,
                            ![h].take = ToBill(row, @)]
  ELSE Finish(h)

CountInvoices(h) ==
  /\ hand[h].pc = "count"
  /\ IF Phantom(hand[h].items) THEN hand' = [hand EXCEPT ![h].pc = "reset"]
     ELSE Decide(h, hand[h].items)
  /\ UNCHANGED <<orderVars, repairVars, billVars, trouble, alone, backed>>

ResetCounts(h) ==
  LET none(row) == [l \in Lines |-> [row[l] EXCEPT !.invoiced = 0]] IN
  /\ hand[h].pc = "reset"
  /\ items' = none(items)
  /\ backed' = (backed /\ (Live = {} \/ (alone /\ Live \cap revived = {})))
  /\ Decide(h, none(hand[h].items))
  /\ UNCHANGED <<status, done, repairVars, billVars, trouble, alone>>

(* The transaction: the lines are read again, each must still allow its     *)
(* quantity, and the counts rise with the invoice.                         *)
StillAllowedAsRead(h) == TRUE    \* mutant: what was read before is enough
StillAllowed(h) == \A l \in Lines : hand[h].take[l] <= Invoiceable(l, items[l])

Raised(take) == [state |-> "draft", qty |-> take, raised |-> take]

CommitInvoice(h) ==
  /\ hand[h].pc = "commit" /\ ~hand[h].gone /\ StillAllowed(h)
  /\ \E i \in Invoices :
       /\ invoices[i].state = "absent" /\ \A j \in 1..i-1 : invoices[j].state # "absent"
       /\ invoices' = [invoices EXCEPT ![i] = Raised(hand[h].take)]
  /\ items' = [l \in Lines |-> [items[l] EXCEPT !.invoiced = @ + hand[h].take[l]]]
  /\ Finish(h)
  /\ UNCHANGED <<status, done, repairVars, revived, trouble, alone, backed>>

QuantityChanged(h) ==
  /\ hand[h].pc = "commit"
  /\ ~StillAllowed(h) \/ \A i \in Invoices : invoices[i].state # "absent"
  /\ Finish(h)
  /\ UNCHANGED <<orderVars, repairVars, billVars, trouble, alone, backed>>

(* A request about to write lines that a reissue has replaced is refused. *)
LinesGone(h) ==
  /\ hand[h].gone
  /\ \/ hand[h].pc \in {"commit", "report", "save", "cancel"}
     \/ hand[h].pc = "heal" /\ HealedRow(h) # hand[h].items
  /\ Finish(h)
  /\ UNCHANGED <<orderVars, repairVars, billVars, trouble, alone, backed>>

-----------------------------------------------------------------------------
(* Deliveries. *)

(* A delivery is validated or reversed, as far as its lines count here      *)
(* (DeliveryStock models both): neither touches the order's own counts.    *)
ValidateDelivery(l) ==
  /\ \E n \in 1..(Limit - done[l]) : done' = [done EXCEPT ![l] = @ + n]
  /\ UNCHANGED <<status, items, repairVars, billVars, hand, trouble, alone, backed>>

ReverseDelivery(l) ==
  /\ \E n \in 1..done[l] : done' = [done EXCEPT ![l] = @ - n]
  /\ UNCHANGED <<status, items, repairVars, billVars, hand, trouble, alone, backed>>

(* deliver-lines and deliver-held read the order, and raise what they read. *)
ReadReport(h) ==
  /\ Idle(h) /\ status = "sale" /\ Trouble
  /\ \E sent \in Portions :
       LET row == Healed(items, sent) IN
       hand' = [hand EXCEPT ![h] = Task("report",
         [l \in Lines |-> [Blank[l] EXCEPT !.delivered = row[l].delivered]], Nothing, FALSE)]
  /\ UNCHANGED <<orderVars, repairVars, billVars, alone, backed>>

WriteReport(h) ==
  /\ hand[h].pc = "report" /\ ~hand[h].gone
  /\ items' = [l \in Lines |->
       [items[l] EXCEPT !.delivered = hand[h].items[l].delivered]]
  /\ Finish(h)
  /\ UNCHANGED <<status, done, repairVars, billVars, trouble, alone, backed>>

-----------------------------------------------------------------------------
(* Saving and cancelling the order (PUT). *)

(* What a screen may send: a director's new quantity, and counts it had     *)
(* before, which are no more than was ever invoiced.                       *)
EverBilled(l) == SumFunction([i \in Invoices |-> invoices[i].raised[l]])
Bodies(row) == {body \in Rows :
  \A l \in Lines : body[l].qty \in 1..Limit /\ body[l].delivered <= row[l].delivered
                   /\ body[l].invoiced <= Most(row[l].invoiced, EverBilled(l))}

ReadSave(h) ==
  /\ Idle(h) /\ status = "sale" /\ Trouble
  /\ \E body \in Bodies(items) :
       hand' = [hand EXCEPT ![h] = Task("save", Saved(items, body), Nothing, FALSE)]
  /\ UNCHANGED <<orderVars, repairVars, billVars, alone, backed>>

WriteSave(h) ==
  /\ hand[h].pc = "save" /\ ~hand[h].gone
  /\ items' = hand[h].items
  /\ status' = "sale"
  /\ Finish(h)
  /\ UNCHANGED <<done, repairVars, billVars, trouble, alone>>
  /\ backed' = (backed /\ Covered')

(* saleOrderCancelBlockers *)
Cancellable ==
  /\ \A l \in Lines : done[l] = 0
  /\ \A i \in Invoices : invoices[i].state \notin {"posted", "credited"}

(* A screen cancels by sending the status alone, or the whole order with its *)
(* lockVersion: the quantities are then those of the row, and the lines are *)
(* written back as in a save.                                              *)
ReadCancel(h) ==
  /\ Idle(h) /\ status = "sale" /\ Cancellable /\ Trouble
  /\ \E body \in Bodies(items) :
       /\ \A l \in Lines : body[l].qty = items[l].qty
       /\ hand' = [hand EXCEPT ![h] = Task("cancel", Saved(items, body), Nothing, FALSE)]
  /\ UNCHANGED <<orderVars, repairVars, billVars, alone, backed>>

WriteCancel(h) ==
  /\ hand[h].pc = "cancel"
  /\ status' = "cancelled"
  /\ items' \in {items} \cup (IF hand[h].gone THEN {} ELSE {hand[h].items})
  /\ Finish(h)
  /\ UNCHANGED <<done, repairVars, billVars, trouble, alone>>
  /\ backed' = (backed /\ Covered')

-----------------------------------------------------------------------------
(* The invoices on their own (invoices/[id]/route.ts; their ledger entries *)
(* are in InvoicePosting).  None of this looks at the order or its counts. *)

(* Confirming, resetting, cancelling. *)
Moves == {<<"draft", "posted">>, <<"draft", "cancelled">>} \cup
         {"posted", "credited"} \X {"draft", "cancelled"}
MoveInvoice(i) ==
  /\ \E m \in Moves : invoices[i].state = m[1] /\ invoices' = [invoices EXCEPT ![i].state = m[2]]
  /\ UNCHANGED <<orderVars, repairVars, revived, hand, trouble, alone>>
  /\ backed' = (backed /\ Covered')

(* A save of an invoice that is not posted takes its status and its lines   *)
(* as they are sent: quantities change, and a cancelled one is revived.    *)
SaveInvoice(i) ==
  /\ invoices[i].state \in {"draft", "cancelled"} /\ Trouble
  /\ \E s \in {"draft", "posted", "cancelled"}, qty \in Portions \ {Nothing} :
       /\ invoices' = [invoices EXCEPT ![i].state = s, ![i].qty = qty]
       /\ revived' = revived \cup {j \in {i} : invoices[i].state = "cancelled" /\ s # "cancelled"}
  /\ UNCHANGED <<orderVars, repairVars, hand, alone>>
  /\ backed' = (backed /\ Covered')

-----------------------------------------------------------------------------
(* A repair re-quoted after its invoice was posted                          *)
(* (repairs/[id]/reissue-invoice/route.ts).                                *)

(* The client approves the revised quote. *)
ApproveRevision(i) ==
  /\ repair /\ reissue = 0 /\ invoices[i].state = "posted" /\ i \notin replaced
  /\ reissue' = i
  /\ UNCHANGED <<orderVars, repair, replaced, billVars, hand, trouble, alone, backed>>

(* Finance reissues: the old invoice is credited in full, or cancelled if it *)
(* never reached the ledger.                                               *)
CreditOld(h) ==
  /\ Idle(h) /\ reissue # 0
  /\ \E s \in {"credited", "cancelled"} :
       /\ s = "credited" => invoices[reissue].state \in {"posted", "credited"}
       /\ invoices[reissue].state = "credited" => s = "credited"
       /\ invoices' = [invoices EXCEPT ![reissue].state = s]
  /\ hand' = [hand EXCEPT ![h] = [NoTask EXCEPT !.pc = "rewrite", !.invoice = reissue]]
  /\ UNCHANGED <<orderVars, repairVars, revived, trouble, alone, backed>>

(* The order gets the lines of the approved quote, under new ids: what other *)
(* requests have read of the old ones is gone.                             *)
RewriteOrder(h) ==
  /\ hand[h].pc = "rewrite"
  /\ \E qty \in [Lines -> 1..Limit] :
       items' = [l \in Lines |-> [qty |-> qty[l], delivered |-> 0, invoiced |-> 0]]
  /\ status' = "sale"
  /\ hand' = [g \in Handlers |->
       IF g = h THEN [hand[g] EXCEPT !.pc = "free"]
       ELSE [hand[g] EXCEPT !.gone = @ \/ hand[g].pc \in HoldsLines]]
  /\ UNCHANGED <<done, repairVars, billVars, trouble, alone>>
  /\ backed' = (backed /\ Covered')

(* The repair may be billed afresh. *)
FreeRepair(h) ==
  /\ hand[h].pc = "free"
  /\ replaced' = replaced \cup {hand[h].invoice} /\ reissue' = 0
  /\ Finish(h)
  /\ UNCHANGED <<orderVars, repair, billVars, trouble, alone, backed>>

-----------------------------------------------------------------------------
Killed(h) ==
  /\ ~Idle(h) /\ Trouble
  /\ Finish(h)
  /\ UNCHANGED <<orderVars, repairVars, billVars, alone, backed>>

Step(h) ==
  \/ Heal(h) \/ CountInvoices(h) \/ ResetCounts(h) \/ CommitInvoice(h) \/ QuantityChanged(h)
  \/ LinesGone(h) \/ WriteReport(h) \/ WriteSave(h) \/ WriteCancel(h)
  \/ RewriteOrder(h) \/ FreeRepair(h)

Whole == [l \in Lines |-> Limit]
AskWhole == \E h \in Handlers : AskInvoice(h, Whole, TRUE)

Next ==
  \/ \E h \in Handlers :
       \/ \E take \in Portions, locked \in BOOLEAN : AskInvoice(h, take, locked)
       \/ Step(h) \/ ReadReport(h) \/ ReadSave(h) \/ ReadCancel(h) \/ CreditOld(h) \/ Killed(h)
  \/ \E l \in Lines : ValidateDelivery(l) \/ ReverseDelivery(l)
  \/ \E i \in Invoices : MoveInvoice(i) \/ SaveInvoice(i) \/ ApproveRevision(i)

Spec == Init /\ [][Next]_vars

(* A request that is not killed goes on, and somebody asks for the invoice  *)
(* of the order again and again.                                           *)
Fairness == /\ \A h \in Handlers : WF_vars(Step(h))
            /\ SF_vars(AskWhole)
FairSpec == Spec /\ Fairness

-----------------------------------------------------------------------------
(* Properties. *)

(* Every variable keeps its type, and one request at a time holds the lock. *)
SalesTypeOK ==
  /\ status \in {"sale", "cancelled"} /\ repair \in BOOLEAN
  /\ items \in Rows /\ done \in [Lines -> Quantity]
  /\ reissue \in 0..MaxInvoices /\ replaced \subseteq 0..MaxInvoices /\ revived \subseteq Invoices
  /\ invoices \in [Invoices -> [state : {"absent", "draft", "posted", "credited", "cancelled"},
                                qty : [Lines -> Quantity], raised : [Lines -> Quantity]]]
  /\ hand \in [Handlers -> Tasks]
  /\ \A g, h \in Handlers : Holding(g) /\ Holding(h) => g = h

(* The standing invoices of a line never bill more than its count says, nor *)
(* more than was ever ordered, however requests overlap, with the lock or   *)
(* without: "instead of silently double-invoicing the same delivered        *)
(* quantity" (create-invoice/route.ts:484).  The promise is about creating  *)
(* invoices: it ends (backed) when a save of the order or a reissue writes  *)
(* a count below what stands, when a save of an invoice revives or enlarges *)
(* it past its count, and when a request resets the counts beside an        *)
(* unlocked one, or beside a revived invoice.                              *)
BilledOnce == backed => Covered /\ \A l \in Lines : items[l].invoiced <= Ordered

(* "A repair is billed once" (create-invoice/route.ts:152): while the lock  *)
(* works it never has two invoices besides those a reissue replaced and     *)
(* those revived from cancelled, whatever the counts say and whatever       *)
(* reissues overlap or are cut off half-way.                               *)
RepairBilledOnce == repair /\ alone => Cardinality(Live \ (replaced \cup revived)) <= 1

(* An order delivered in full never stays without an invoice that can be    *)
(* raised: neither counts left by cancelled invoices, nor a request killed  *)
(* half-way, nor a lost delivery report keep it from being billed.  (An     *)
(* invoice that a reissue credited away does count as one here, as it does *)
(* when the code asks whether the counts may be cleared.)                  *)
EventuallyBilled ==
  (/\ status = "sale" /\ Live = {}
   /\ \A l \in Lines : done[l] >= items[l].qty)
  ~> (\/ status = "cancelled" \/ Live # {}
      \/ \A i \in Invoices : invoices[i].state # "absent"
      \/ \E l \in Lines : done[l] < items[l].qty)
=============================================================================
