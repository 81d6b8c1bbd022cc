---------------------------- MODULE DeliveryStock ----------------------------
(***************************************************************************)
(* The stock a delivery and a till sale take: applyDeliveryStockMutation,  *)
(* reverseDeliveryStockMutation and applyPosStockMutation of               *)
(* lib/inventory/stock-transactions.ts, called by the validate and reverse *)
(* routes of deliveries and by the till.                                   *)
(*                                                                         *)
(* Each reads the stock lists at its start and writes whole lists back, one *)
(* table after the other: first the StockLevel transaction, then           *)
(* saveStoreKeys.  Deliveries hold one advisory lock from their read to    *)
(* their last write, till sales another.                                   *)
(*                                                                         *)
(* Abstractions: two products, one tracked by serial and one by quantity,  *)
(* all in the warehouse; the lists hold much more than one document's      *)
(* rows, so that a list without them is not taken for a partial one; every *)
(* row fits its table; a StockLevel transaction is one step; reservations, *)
(* which only refuse more, and the cost journals posted after the stock    *)
(* are left out; a request that is refused changes nothing.                *)
(***************************************************************************)
EXTENDS Integers, FiniteSets, Functions

CONSTANTS
  Deliveries,  \* prepared deliveries, each of an order of its own
  Sales,       \* till sales, each with its order reference
  Units,       \* devices with a serial number
  UnitsOf,     \* the devices on each document
  QtyOf,       \* the quantity of the other product on it
  Stock,       \* what is on the shelf of that product at first
  Overlap,     \* whether documents of the two locks are worked on at once
  MaxCrashes,  \* bound: processes killed in a behaviour
  NoOrder      \* a device linked to no order

Documents == Deliveries \cup Sales

ASSUME StockAssumption ==
  /\ Deliveries \cap Sales = {} /\ NoOrder \notin Documents
  /\ IsFiniteSet(Documents)
  /\ UnitsOf \in [Documents -> SUBSET Units] /\ IsFiniteSet(Units)
  /\ QtyOf \in [Documents -> Nat]
  /\ Overlap \in BOOLEAN /\ Stock \in Nat /\ MaxCrashes \in Nat

VARIABLES
  status,      \* deed_deliveries: status of each delivery
  unit,        \* serial_numbers: status and sale order of each device
  shelf,       \* stock_location_levels: quantity in the warehouse
  moves,       \* stock_movements not removed: a document's line for a product
  count,       \* the stockQty saved with each product
  level,       \* stock_levels.qty_on_hand of each product
  rung,        \* till sales that were answered as taken
  job,         \* what the holder of each advisory lock is doing
  cut,         \* deliveries with an attempt cut off after it saved the devices
  crashes

stockVars == <<unit, shelf, moves, count, level>>
vars      == <<status, stockVars, rung, job, cut, crashes>>

Products == {"device", "goods"}
Locks    == {"deed_deliveries", "deed_serials"}
LockOf(x) == IF x \in Deliveries THEN "deed_deliveries" ELSE "deed_serials"

Steps == {"level", "units", "shelf", "moves", "count", "answer"}
Free  == [at |-> "free"]

Device == [status : {"available", "assigned", "sold"}, order : Deliveries \cup {NoOrder}]
Lists  == [unit : [Units -> Device], shelf : Nat, moves : SUBSET (Documents \X Products),
           count : [Products -> Nat]]
Jobs   == [doc : Documents, op : {"take", "return"}, at : Steps,
           delta : [Products -> Int], lists : Lists]

TypeOK ==
  /\ status \in [Deliveries -> {"ready", "done", "cancelled"}]
  /\ unit \in [Units -> Device]
  /\ shelf \in Nat /\ moves \subseteq Documents \X Products
  /\ count \in [Products -> Nat] /\ level \in [Products -> Nat]
  /\ rung \subseteq Sales
  /\ job \in [Locks -> Jobs \cup {Free}]
  /\ cut \subseteq Deliveries \X {"take", "return"}
  /\ crashes \in Nat

OnHand == [p \in Products |-> IF p = "device" THEN Cardinality(Units) ELSE Stock]

(* A device is free or was assigned to a delivery's order. *)
Init ==
  /\ status = [d \in Deliveries |-> "ready"]
  /\ unit \in [Units -> {u \in Device : u.status = "available" <=> u.order = NoOrder}
                          \ [status : {"sold"}, order : Deliveries \cup {NoOrder}]]
  /\ shelf = Stock /\ moves = {}
  /\ count = OnHand /\ level = OnHand
  /\ rung = {}
  /\ job = [l \in Locks |-> Free]
  /\ cut = {} /\ crashes = 0

-----------------------------------------------------------------------------
(* What a document takes, decided on the lists read at its start. *)

Quantity(x, p) == IF p = "device" THEN Cardinality(UnitsOf[x]) ELSE QtyOf[x]

Least0(n) == IF n > 0 THEN n ELSE 0

AppliedByMove(d, p) == <<d, p>> \in moves       \* mutant: only the moves looked at

(* The line left in an earlier attempt that was cut off. *)
AlreadyApplied(d, p) ==
  \/ <<d, p>> \in moves
  \/ p = "device" /\ \A u \in UnitsOf[d] : unit[u] = [status |-> "sold", order |-> d]

Lines(x) == {p \in Products : Quantity(x, p) > 0}
Pending(d) == {p \in Lines(d) : ~ AlreadyApplied(d, p)}

DeviceAny(u, d) == unit[u].status # "assigned" \/ unit[u].order = d  \* mutant: sold not refused
DeviceReady(u, d) ==
  unit[u].status = "available" \/ unit[u] = [status |-> "assigned", order |-> d]

Deliverable(d) ==
  /\ "device" \in Pending(d) => \A u \in UnitsOf[d] : DeviceReady(u, d)
  /\ "goods" \in Pending(d) => QtyOf[d] <= shelf /\ QtyOf[d] <= count["goods"]

Sellable(t) ==
  /\ \A u \in UnitsOf[t] : unit[u].status = "available"
  /\ QtyOf[t] <= shelf

Change(x, ps, sign) == [p \in Products |-> IF p \in ps THEN sign * Quantity(x, p) ELSE 0]
PlusUnclamped(f, g) == [p \in Products |-> f[p] + g[p]]    \* mutant: no Math.max(0, ...)
Plus(f, g) == [p \in Products |-> Least0(f[p] + g[p])]

(* A sale leaves the order of the device as it was. *)
Sold(u, x) == [status |-> "sold", order |-> IF x \in Deliveries THEN x ELSE unit[u].order]

ListsTaken(x, ps) ==
  [unit |-> [u \in Units |-> IF "device" \in ps /\ u \in UnitsOf[x] THEN Sold(u, x) ELSE unit[u]],
   shelf |-> IF "goods" \in ps THEN Least0(shelf - QtyOf[x]) ELSE shelf,
   moves |-> moves \cup ({x} \X ps),
   count |-> Plus(count, Change(x, ps, -1))]

RemovedNone(d) == moves                            \* mutant: a reversal keeps the moves
Removed(d) == {m \in moves : m[1] # d}

(* A reversal puts every line back without looking whether it is out. *)
ListsReturned(d) ==
  [unit |-> [u \in Units |->
               IF u \in UnitsOf[d] THEN [unit[u] EXCEPT !.status = "available"] ELSE unit[u]],
   shelf |-> shelf + QtyOf[d],
   moves |-> Removed(d),
   count |-> Plus(count, Change(d, Lines(d), 1))]

-----------------------------------------------------------------------------
AtRest == \A l \in Locks : job[l] = Free

Begin(x, op, delta, lists) ==
  /\ job[LockOf(x)] = Free /\ (Overlap \/ AtRest)
  /\ job' = [job EXCEPT ![LockOf(x)] =
               [doc |-> x, op |-> op, at |-> "level", delta |-> delta, lists |-> lists]]
  /\ UNCHANGED <<status, stockVars, rung, cut, crashes>>

(* POST /api/deliveries/[id]/validate of a prepared delivery. *)
Validate(d) ==
  /\ status[d] = "ready" /\ Deliverable(d)
  /\ Begin(d, "take", Change(d, Pending(d), -1), ListsTaken(d, Pending(d)))

(* POST /api/deliveries/[id]/reverse of a validated one. *)
Reverse(d) ==
  /\ status[d] = "done"
  /\ Begin(d, "return", Change(d, Lines(d), 1), ListsReturned(d))

(* The same of an open one: it never moved stock, as far as its status says. *)
Cancel(d) ==
  /\ status[d] = "ready" /\ job["deed_deliveries"] = Free
  /\ status' = [status EXCEPT ![d] = "cancelled"]
  /\ UNCHANGED <<stockVars, rung, job, cut, crashes>>

(* POST /api/inventory/apply-pos-stock; a sale whose moves are there is     *)
(* answered as taken.                                                       *)
Sell(t) ==
  /\ moves \cap ({t} \X Products) = {} /\ Sellable(t)
  /\ Begin(t, "take", Change(t, Lines(t), -1), ListsTaken(t, Lines(t)))

AnswerAgain(t) ==
  /\ job["deed_serials"] = Free
  /\ moves \cap ({t} \X Products) # {}
  /\ rung' = rung \cup {t}
  /\ UNCHANGED <<status, stockVars, job, cut, crashes>>

-----------------------------------------------------------------------------
(* The writes, in the order of the code. *)

At(l, s) == job[l].at = s
Go(l, s) == job' = [job EXCEPT ![l].at = s]

CommitLevel(l) ==
  /\ At(l, "level") /\ Go(l, "units")
  /\ level' = Plus(level, job[l].delta)
  /\ UNCHANGED <<status, unit, shelf, moves, count, rung, cut, crashes>>

SaveUnits(l) ==
  /\ At(l, "units") /\ Go(l, "shelf")
  /\ unit' = job[l].lists.unit
  /\ UNCHANGED <<status, shelf, moves, count, level, rung, cut, crashes>>

SaveShelf(l) ==
  /\ At(l, "shelf") /\ Go(l, "moves")
  /\ shelf' = job[l].lists.shelf
  /\ UNCHANGED <<status, unit, moves, count, level, rung, cut, crashes>>

SaveMoves(l) ==
  /\ At(l, "moves") /\ Go(l, "count")
  /\ moves' = job[l].lists.moves
  /\ UNCHANGED <<status, unit, shelf, count, level, rung, cut, crashes>>

SaveCount(l) ==
  /\ At(l, "count") /\ Go(l, "answer")
  /\ count' = job[l].lists.count
  /\ UNCHANGED <<status, unit, shelf, moves, level, rung, cut, crashes>>

(* The delivery is saved with its new status, or the till is answered. *)
Finish(l) ==
  /\ At(l, "answer")
  /\ LET x == job[l].doc
     IN \/ /\ x \in Deliveries
           /\ status' = [status EXCEPT ![x] = IF job[l].op = "take" THEN "done" ELSE "cancelled"]
           /\ UNCHANGED rung
        \/ x \in Sales /\ rung' = rung \cup {x} /\ UNCHANGED status
  /\ job' = [job EXCEPT ![l] = Free]
  /\ UNCHANGED <<stockVars, cut, crashes>>

(* The process is killed: its lock goes with its connection, what it wrote  *)
(* stays.                                                                   *)
Crash(l) ==
  /\ job[l] # Free /\ crashes < MaxCrashes
  /\ crashes' = crashes + 1
  /\ cut' = IF job[l].doc \in Deliveries /\ job[l].at \notin {"level", "units"}
            THEN cut \cup {<<job[l].doc, job[l].op>>} ELSE cut
  /\ job' = [job EXCEPT ![l] = Free]
  /\ UNCHANGED <<status, stockVars, rung>>

Next ==
  \/ \E d \in Deliveries : Validate(d) \/ Reverse(d) \/ Cancel(d)
  \/ \E t \in Sales : Sell(t) \/ AnswerAgain(t)
  \/ \E l \in Locks : \/ CommitLevel(l) \/ SaveUnits(l) \/ SaveShelf(l) \/ SaveMoves(l)
                      \/ SaveCount(l) \/ Finish(l) \/ Crash(l)

Spec == Init /\ [][Next]_vars

-----------------------------------------------------------------------------
(* Properties.  The two locks do not exclude each other: all but the last   *)
(* are checked without Overlap, for what each lock protects on its own.     *)

Out(x, p) == <<x, p>> \in moves
OnlyTakesCut == \A c \in cut : c[2] = "take"    \* no reversal was killed

\* Validations, reversals, cancellations and till sales in any order, repeated
\* requests included, keep the five tables in agreement: the shelf, the counts
\* and the StockLevel lack exactly what standing moves took, a device is sold
\* exactly when one move has it, and the moves are those of done deliveries.
StockAccounted ==
  AtRest /\ crashes = 0 =>
    /\ shelf = Stock - SumFunction([x \in {y \in Documents : Out(y, "goods")} |-> QtyOf[x]])
    /\ count = [device |-> Cardinality({u \in Units : unit[u].status # "sold"}), goods |-> shelf]
    /\ level = count
    /\ \A u \in Units :
         LET outOn == {x \in Documents : u \in UnitsOf[x] /\ Out(x, "device")}
         IN Cardinality(outOn) = IF unit[u].status = "sold" THEN 1 ELSE 0
    /\ \A d \in Deliveries, p \in Products :
         Out(d, p) <=> status[d] = "done" /\ p \in Lines(d)

\* A validation that is killed once it has saved the devices can be repeated:
\* the retry takes them as delivered, whoever else tries to take them meanwhile
\* (the regression of 23-Sep-2026, __tests__/stock-transactions.test.ts).
RetryTakesNoDevice ==
  OnlyTakesCut =>
    \A d \in Deliveries :
      <<d, "take">> \in cut /\ status[d] = "ready" => "device" \notin Pending(d)

\* Even when validations are killed and repeated, the devices of a done
\* delivery are sold to its order until the delivery is reversed.
DoneIsSold ==
  OnlyTakesCut =>
    \A d \in Deliveries :
      /\ status[d] = "done"
      /\ ~ \E l \in Locks : job[l] # Free /\ job[l].doc = d
      => \A u \in UnitsOf[d] : unit[u] = [status |-> "sold", order |-> d]

\* "A delivery and serial cannot be consumed twice" (docs/domain/
\* SALES_ORDER_WORKFLOW.md): a device is on one done delivery or one till sale.
ConsumedOnce ==
  \A u \in Units :
    Cardinality({d \in Deliveries : status[d] = "done" /\ u \in UnitsOf[d]}
                  \cup {t \in rung : u \in UnitsOf[t]}) <= 1
=============================================================================
