-------------------------- MODULE DeliveryStockProofs --------------------------
(***************************************************************************)
(* For any deliveries, sales, devices and quantities, while documents of   *)
(* the two locks are not worked on at once: the stock tables agree after   *)
(* every request, and a validation that was killed after it saved the      *)
(* devices can be repeated.                                                *)
(***************************************************************************)
EXTENDS DeliveryStock, SumLaws, TLAPS

SoldTo(d, un) == \A u \in UnitsOf[d] : un[u] = [status |-> "sold", order |-> d]

Busy(l) == job[l] # Free

(* The units are written by this step, the moves by that one. *)
UnitsUnsaved(l) == job[l].at \in {"level", "units"}
MovesUnsaved(l) == job[l].at \in {"level", "units", "shelf", "moves"}
Returning(d) == \E l \in Locks : /\ Busy(l) /\ job[l].doc = d /\ job[l].op = "return"
                                 /\ ~ UnitsUnsaved(l)

(* One document is worked on at a time, and it is still in the state in     *)
(* which the request found it.                                             *)
OneJob == \A l \in Locks : Busy(l) =>
  /\ LockOf(job[l].doc) = l
  /\ \A k \in Locks : k # l => ~ Busy(k)
  /\ IF job[l].doc \in Deliveries
     THEN status[job[l].doc] = IF job[l].op = "take" THEN "ready" ELSE "done"
     ELSE job[l].op = "take"

(* The devices and moves it is about to save differ from the saved ones     *)
(* only for its own document.                                              *)
OwnRows == \A l \in Locks : Busy(l) =>
  /\ IF UnitsUnsaved(l)
     THEN \A u \in Units : job[l].lists.unit[u] # unit[u] =>
            u \in UnitsOf[job[l].doc] /\ (job[l].op = "take" => unit[u].status # "sold")
     ELSE unit = job[l].lists.unit
  /\ IF MovesUnsaved(l)
     THEN \A m \in job[l].lists.moves : m \notin moves =>
            m[1] = job[l].doc /\ job[l].op = "take"
     ELSE moves = job[l].lists.moves

(* A delivery that is done, was cut off after its devices were saved, or has *)
(* its move for them, has them.                                            *)
HasDevices(d) ==
  status[d] = "done" \/ <<d, "take">> \in cut \/ <<d, "device">> \in moves

DevicesKept == OnlyTakesCut =>
  /\ \A d \in Deliveries :
       status[d] # "cancelled" /\ HasDevices(d) /\ ~ Returning(d) => SoldTo(d, unit)
  /\ \A l \in Locks :
       Busy(l) /\ job[l].op = "take" /\ job[l].doc \in Deliveries
         => SoldTo(job[l].doc, job[l].lists.unit)

KeptInv == TypeOK /\ OneJob /\ OwnRows /\ DevicesKept

-----------------------------------------------------------------------------
(* The tables add up: what standing moves took is what is missing. *)

Taken(mv) == SumFunction([x \in Documents |-> IF <<x, "goods">> \in mv THEN QtyOf[x] ELSE 0])
NotSold(un) == {u \in Units : un[u].status # "sold"}

OneMoveEach(un, mv) ==
  \A u \in Units :
    /\ un[u].status = "sold" => \E x \in Documents : u \in UnitsOf[x] /\ <<x, "device">> \in mv
    /\ \A x, y \in Documents :
         /\ u \in UnitsOf[x] /\ <<x, "device">> \in mv
         => /\ un[u].status = "sold"
            /\ u \in UnitsOf[y] /\ <<y, "device">> \in mv => x = y

Adds(un, sh, mv, ct) ==
  /\ sh + Taken(mv) = Stock
  /\ ct["goods"] = sh /\ ct["device"] = Cardinality(NotSold(un))
  /\ OneMoveEach(un, mv)

(* The moves are those of the done deliveries. *)
MovesOfDone(mv, st) ==
  \A d \in Deliveries, p \in Products :
    <<d, p>> \in mv <=> st[d] = "done" /\ p \in Lines(d)

(* What is linked to an open delivery's order is only assigned to it. *)
OnlyAssigned(un, st) ==
  \A d \in Deliveries, u \in Units :
    st[d] = "ready" /\ un[u].order = d => un[u].status = "assigned"

Agreed(un, sh, mv, ct, st) ==
  Adds(un, sh, mv, ct) /\ MovesOfDone(mv, st) /\ OnlyAssigned(un, st)

(* The statuses once the job of l is answered. *)
StatusWith(x, op) ==
  [d \in Deliveries |-> IF d # x THEN status[d] ELSE IF op = "take" THEN "done" ELSE "cancelled"]
StatusAfter(l) == StatusWith(job[l].doc, job[l].op)

(* Between requests the tables agree; during one they will once it is       *)
(* through, and those it has saved are already as they will be.            *)
SavedSoFar(l) ==
  LET saved(after) == job[l].at \notin after
  IN /\ IF job[l].at = "level" THEN Plus(level, job[l].delta) = job[l].lists.count
                               ELSE level = job[l].lists.count
     /\ saved({"level", "units"}) => unit = job[l].lists.unit
     /\ saved({"level", "units", "shelf"}) => shelf = job[l].lists.shelf
     /\ saved({"level", "units", "shelf", "moves"}) => moves = job[l].lists.moves
     /\ saved(Steps \ {"answer"}) => count = job[l].lists.count

WillAgree == crashes = 0 =>
  /\ cut = {}
  /\ AtRest => Agreed(unit, shelf, moves, count, status) /\ level = count
  /\ \A l \in Locks : Busy(l) =>
       /\ Agreed(job[l].lists.unit, job[l].lists.shelf, job[l].lists.moves,
                 job[l].lists.count, StatusAfter(l))
       /\ SavedSoFar(l)

IInv == KeptInv /\ WillAgree


-----------------------------------------------------------------------------
(* What the operators return. *)

USE StockAssumption

LEMMA QuantityNat ==
  ASSUME NEW x \in Documents
  PROVE  /\ \A p \in Products : Quantity(x, p) \in Nat
         /\ Quantity(x, "device") = Cardinality(UnitsOf[x])
         /\ Quantity(x, "goods") = QtyOf[x] /\ QtyOf[x] \in Nat
         /\ UnitsOf[x] \subseteq Units /\ IsFiniteSet(UnitsOf[x])
         /\ "device" \in Lines(x) <=> UnitsOf[x] # {}
         /\ "goods" \in Lines(x) <=> QtyOf[x] > 0
         /\ Lines(x) \subseteq Products
<1>1. IsFiniteSet(UnitsOf[x]) /\ UnitsOf[x] \subseteq Units
  BY FS_Subset
<1>2. Cardinality(UnitsOf[x]) \in Nat /\ (Cardinality(UnitsOf[x]) = 0 <=> UnitsOf[x] = {})
  BY <1>1, FS_CardinalityType, FS_EmptySet
<1>3. QtyOf[x] \in Nat
  OBVIOUS
<1>4. QED
  BY <1>1, <1>2, <1>3 DEF Quantity, Lines, Products

LEMMA ChangeTyped ==
  ASSUME NEW x \in Documents, NEW ps \in SUBSET Products, NEW sign \in {-1, 1}
  PROVE  Change(x, ps, sign) \in [Products -> Int]
<1>1. \A p \in Products : (IF p \in ps THEN sign * Quantity(x, p) ELSE 0) \in Int
  BY QuantityNat
<1>2. QED
  BY <1>1 DEF Change

LEMMA PlusTyped ==
  ASSUME NEW f \in [Products -> Int], NEW g \in [Products -> Int]
  PROVE  /\ Plus(f, g) \in [Products -> Nat]
         /\ \A p \in Products : f[p] + g[p] >= 0 => Plus(f, g)[p] = f[p] + g[p]
<1>1. \A p \in Products : /\ Least0(f[p] + g[p]) \in Nat
                          /\ f[p] + g[p] >= 0 => Least0(f[p] + g[p]) = f[p] + g[p]
  BY DEF Least0
<1>2. QED
  BY <1>1 DEF Plus

LEMMA ListsTakenTyped ==
  ASSUME TypeOK, NEW x \in Documents, NEW ps \in SUBSET Products
  PROVE  ListsTaken(x, ps) \in Lists
<1> DEFINE L == ListsTaken(x, ps)
<1>1. L.unit \in [Units -> Device]
  BY DEF ListsTaken, Sold, Device, TypeOK
<1>2. L.shelf \in Nat
  BY QuantityNat DEF ListsTaken, Least0, TypeOK
<1>3. L.moves \subseteq Documents \X Products
  BY DEF ListsTaken, TypeOK
<1>4. count \in [Products -> Int]
  BY DEF TypeOK
<1>5. L.count \in [Products -> Nat]
  BY <1>4, ChangeTyped, PlusTyped DEF ListsTaken
<1>6. QED
  BY <1>1, <1>2, <1>3, <1>5 DEF ListsTaken, Lists

LEMMA ListsReturnedTyped ==
  ASSUME TypeOK, NEW d \in Deliveries
  PROVE  ListsReturned(d) \in Lists
<1> DEFINE L == ListsReturned(d)
<1>0. d \in Documents
  BY DEF Documents
<1>1. L.unit \in [Units -> Device]
  BY DEF ListsReturned, Device, TypeOK
<1>2. L.shelf \in Nat
  BY <1>0, QuantityNat DEF ListsReturned, TypeOK
<1>3. L.moves \subseteq Documents \X Products
  BY DEF ListsReturned, Removed, TypeOK
<1>4. count \in [Products -> Int]
  BY DEF TypeOK
<1>5. L.count \in [Products -> Nat]
  BY <1>0, <1>4, ChangeTyped, PlusTyped, QuantityNat DEF ListsReturned
<1>6. QED
  BY <1>1, <1>2, <1>3, <1>5 DEF ListsReturned, Lists

LEMMA OnHandTyped == OnHand \in [Products -> Nat]
BY FS_CardinalityType DEF OnHand

LEMMA TypeInit == Init => TypeOK
<1> SUFFICES ASSUME Init PROVE TypeOK
  OBVIOUS
<1>1. job \in [Locks -> Jobs \cup {Free}]
  BY DEF Init
<1>2. unit \in [Units -> Device]
  BY DEF Init
<1>3. QED
  BY <1>1, <1>2, OnHandTyped DEF Init, TypeOK


(* What is known of the job of a held lock, and of a new one. *)
LEMMA JobFacts ==
  ASSUME TypeOK, NEW l \in Locks, Busy(l)
  PROVE  /\ job[l] \in Jobs
         /\ job[l].doc \in Documents /\ job[l].op \in {"take", "return"}
         /\ job[l].at \in Steps /\ job[l].delta \in [Products -> Int]
         /\ job[l].lists.unit \in [Units -> Device] /\ job[l].lists.shelf \in Nat
         /\ job[l].lists.moves \subseteq Documents \X Products
         /\ job[l].lists.count \in [Products -> Nat]
<1>1. job[l] \in Jobs
  BY DEF TypeOK, Busy
<1>2. job[l].lists \in Lists
  BY <1>1 DEF Jobs
<1>3. QED
  BY <1>1, <1>2 DEF Jobs, Lists

LEMMA AtIsBusy ==
  ASSUME NEW l \in Locks, NEW s \in Steps, At(l, s)
  PROVE  Busy(l)
BY DEF At, Busy, Free, Steps

LEMMA GoTyped ==
  ASSUME TypeOK, NEW l \in Locks, NEW s \in Steps, Busy(l), Go(l, s)
  PROVE  /\ job' \in [Locks -> Jobs \cup {Free}]
         /\ job'[l] = [job[l] EXCEPT !.at = s]
         /\ \A k \in Locks : k # l => job'[k] = job[k]
<1>1. job[l] \in Jobs
  BY JobFacts
<1>2. [job[l] EXCEPT !.at = s] \in Jobs
  BY <1>1 DEF Jobs
<1>3. QED
  BY <1>2 DEF Go, TypeOK

LEMMA LockOfTyped == \A x \in Documents : LockOf(x) \in Locks
BY DEF LockOf, Locks

LEMMA BeginFacts ==
  ASSUME TypeOK, NEW x \in Documents, NEW op \in {"take", "return"},
         NEW delta \in [Products -> Int], NEW lists \in Lists, Begin(x, op, delta, lists)
  PROVE  /\ job' \in [Locks -> Jobs \cup {Free}]
         /\ job'[LockOf(x)].doc = x /\ job'[LockOf(x)].op = op
         /\ job'[LockOf(x)].at = "level" /\ job'[LockOf(x)].delta = delta
         /\ job'[LockOf(x)].lists = lists
         /\ \A k \in Locks : k # LockOf(x) => job'[k] = job[k]
         /\ UNCHANGED <<status, unit, shelf, moves, count, level, rung, cut, crashes>>
<1> DEFINE new == [doc |-> x, op |-> op, at |-> "level", delta |-> delta, lists |-> lists]
<1>1. new \in Jobs
  BY DEF Jobs, Steps
<1>2. job' = [job EXCEPT ![LockOf(x)] = new]
  BY DEF Begin
<1>3. job'[LockOf(x)] = new
  BY <1>2, LockOfTyped DEF TypeOK
<1>4. job' \in [Locks -> Jobs \cup {Free}] /\ \A k \in Locks : k # LockOf(x) => job'[k] = job[k]
  BY <1>1, <1>2 DEF TypeOK
<1>5. QED
  BY <1>3, <1>4 DEF Begin, stockVars

LEMMA PendingTyped == \A d \in Deliveries : Pending(d) \in SUBSET Products
BY DEF Pending, Lines

(* A request of each kind begins a job of this form. *)
LEMMA RequestBegins ==
  ASSUME TypeOK
  PROVE  /\ \A d \in Deliveries :
              /\ Validate(d) =>
                   /\ Change(d, Pending(d), -1) \in [Products -> Int]
                   /\ ListsTaken(d, Pending(d)) \in Lists
              /\ Reverse(d) =>
                   /\ Change(d, Lines(d), 1) \in [Products -> Int] /\ ListsReturned(d) \in Lists
         /\ \A t \in Sales :
              Sell(t) => /\ Change(t, Lines(t), -1) \in [Products -> Int]
                         /\ ListsTaken(t, Lines(t)) \in Lists
<1>1. ASSUME NEW d \in Deliveries
      PROVE  /\ Change(d, Pending(d), -1) \in [Products -> Int]
             /\ ListsTaken(d, Pending(d)) \in Lists
             /\ Change(d, Lines(d), 1) \in [Products -> Int] /\ ListsReturned(d) \in Lists
  <2>1. d \in Documents /\ Pending(d) \in SUBSET Products
    BY PendingTyped DEF Documents
  <2>2. Lines(d) \in SUBSET Products
    BY <2>1, QuantityNat
  <2>3. QED
    BY <2>1, <2>2, ChangeTyped, ListsTakenTyped, ListsReturnedTyped
<1>2. ASSUME NEW t \in Sales
      PROVE  /\ Change(t, Lines(t), -1) \in [Products -> Int] /\ ListsTaken(t, Lines(t)) \in Lists
  <2>1. t \in Documents
    BY DEF Documents
  <2>2. Lines(t) \in SUBSET Products
    BY <2>1, QuantityNat
  <2>3. QED
    BY <2>1, <2>2, ChangeTyped, ListsTakenTyped
<1>3. QED
  BY <1>1, <1>2

LEMMA RequestTypes ==
  ASSUME TypeOK, NEW x \in Documents, NEW op \in {"take", "return"},
         NEW delta \in [Products -> Int], NEW lists \in Lists, Begin(x, op, delta, lists)
  PROVE  TypeOK'
BY BeginFacts DEF TypeOK

LEMMA SavesType ==
  ASSUME TypeOK, NEW l \in Locks,
         CommitLevel(l) \/ SaveUnits(l) \/ SaveShelf(l) \/ SaveMoves(l) \/ SaveCount(l)
  PROVE  TypeOK'
<1> USE DEF Steps
<1>1. CASE CommitLevel(l)
  <2>1. Busy(l) /\ Go(l, "units")
    BY <1>1, AtIsBusy DEF CommitLevel
  <2>2. job' \in [Locks -> Jobs \cup {Free}]
    BY <2>1, GoTyped
  <2>3. level \in [Products -> Int] /\ job[l].delta \in [Products -> Int]
    BY <2>1, JobFacts DEF TypeOK
  <2>4. level' \in [Products -> Nat]
    BY <1>1, <2>3, PlusTyped DEF CommitLevel
  <2>5. QED
    BY <1>1, <2>2, <2>4 DEF CommitLevel, TypeOK
<1>2. CASE SaveUnits(l)
  <2>1. Busy(l) /\ Go(l, "shelf")
    BY <1>2, AtIsBusy DEF SaveUnits
  <2>2. QED
    BY <1>2, <2>1, GoTyped, JobFacts DEF SaveUnits, TypeOK
<1>3. CASE SaveShelf(l)
  <2>1. Busy(l) /\ Go(l, "moves")
    BY <1>3, AtIsBusy DEF SaveShelf
  <2>2. QED
    BY <1>3, <2>1, GoTyped, JobFacts DEF SaveShelf, TypeOK
<1>4. CASE SaveMoves(l)
  <2>1. Busy(l) /\ Go(l, "count")
    BY <1>4, AtIsBusy DEF SaveMoves
  <2>2. QED
    BY <1>4, <2>1, GoTyped, JobFacts DEF SaveMoves, TypeOK
<1>5. CASE SaveCount(l)
  <2>1. Busy(l) /\ Go(l, "answer")
    BY <1>5, AtIsBusy DEF SaveCount
  <2>2. QED
    BY <1>5, <2>1, GoTyped, JobFacts DEF SaveCount, TypeOK
<1>6. QED
  BY <1>1, <1>2, <1>3, <1>4, <1>5

LEMMA EndsType ==
  ASSUME TypeOK, NEW l \in Locks, Finish(l) \/ Crash(l)
  PROVE  /\ TypeOK' /\ Busy(l) /\ ~ Busy(l)'
         /\ \A k \in Locks : k # l => job'[k] = job[k]
<1>1. Busy(l)
  BY AtIsBusy DEF Finish, Crash, Busy, Steps
<1>2. job' = [job EXCEPT ![l] = Free]
  BY DEF Finish, Crash
<1>3. job' \in [Locks -> Jobs \cup {Free}]
  BY <1>2 DEF TypeOK
<1>4. ~ Busy(l)' /\ \A k \in Locks : k # l => job'[k] = job[k]
  BY <1>2 DEF TypeOK, Busy
<1>5. CASE Finish(l)
  BY <1>3, <1>4, <1>1, <1>5 DEF Finish, TypeOK, stockVars
<1>6. CASE Crash(l)
  <2>1. cut' \subseteq Deliveries \X {"take", "return"}
    BY <1>1, <1>6, JobFacts DEF Crash, TypeOK
  <2>2. QED
    BY <1>3, <1>4, <1>1, <1>6, <2>1 DEF Crash, TypeOK, stockVars
<1>7. QED
  BY <1>5, <1>6

LEMMA StepTypes == TypeOK /\ [Next]_vars => TypeOK'
<1> SUFFICES ASSUME TypeOK, [Next]_vars PROVE TypeOK'
  OBVIOUS
<1>1. ASSUME NEW d \in Deliveries, Validate(d) PROVE TypeOK'
  BY <1>1, RequestBegins, RequestTypes DEF Validate, Documents
<1>2. ASSUME NEW d \in Deliveries, Reverse(d) PROVE TypeOK'
  BY <1>2, RequestBegins, RequestTypes DEF Reverse, Documents
<1>3. ASSUME NEW d \in Deliveries, Cancel(d) PROVE TypeOK'
  BY <1>3 DEF Cancel, TypeOK, stockVars
<1>4. ASSUME NEW t \in Sales, Sell(t) PROVE TypeOK'
  BY <1>4, RequestBegins, RequestTypes DEF Sell, Documents
<1>5. ASSUME NEW t \in Sales, AnswerAgain(t) PROVE TypeOK'
  BY <1>5 DEF AnswerAgain, TypeOK, stockVars
<1>6. CASE UNCHANGED vars
  BY <1>6 DEF vars, stockVars, TypeOK
<1> HIDE DEF TypeOK
<1>7. QED
  BY <1>1, <1>2, <1>3, <1>4, <1>5, <1>6, SavesType, EndsType DEF Next

(* The tables keep their types, two documents at a time or one. *)
THEOREM StockTyped == Spec => []TypeOK
<1>1. QED
  BY TypeInit, StepTypes, PTL DEF Spec


-----------------------------------------------------------------------------
(* One document at a time: what a step leaves alone. *)

LEMMA BeginsAlone ==
  ASSUME TypeOK, Overlap = FALSE, NEW x \in Documents, NEW op \in {"take", "return"},
         NEW delta \in [Products -> Int], NEW lists \in Lists, Begin(x, op, delta, lists)
  PROVE  /\ AtRest /\ LockOf(x) \in Locks /\ Busy(LockOf(x))'
         /\ \A k \in Locks : Busy(k)' => k = LockOf(x)
<1>1. AtRest
  BY DEF Begin
<1>2. job'[LockOf(x)].at = "level" /\ \A k \in Locks : k # LockOf(x) => job'[k] = job[k]
  BY BeginFacts
<1>3. QED
  BY <1>1, <1>2, LockOfTyped DEF AtRest, Busy, Free

Saves(l) == CommitLevel(l) \/ SaveUnits(l) \/ SaveShelf(l) \/ SaveMoves(l) \/ SaveCount(l)

LEMMA SaveGoesOn ==
  ASSUME TypeOK, NEW l \in Locks, Saves(l)
  PROVE  /\ Busy(l) /\ \A k \in Locks : Busy(k)' <=> Busy(k)
         /\ \A k \in Locks : /\ job'[k].doc = job[k].doc /\ job'[k].op = job[k].op
                             /\ job'[k].delta = job[k].delta /\ job'[k].lists = job[k].lists
         /\ \A k \in Locks : k # l => job'[k] = job[k]
         /\ UNCHANGED <<status, rung, cut, crashes>>
         /\ CommitLevel(l) => job[l].at = "level" /\ job'[l].at = "units"
         /\ SaveUnits(l) => job[l].at = "units" /\ job'[l].at = "shelf"
         /\ SaveShelf(l) => job[l].at = "shelf" /\ job'[l].at = "moves"
         /\ SaveMoves(l) => job[l].at = "moves" /\ job'[l].at = "count"
         /\ SaveCount(l) => job[l].at = "count" /\ job'[l].at = "answer"
<1>1. Busy(l)
  BY AtIsBusy DEF Saves, CommitLevel, SaveUnits, SaveShelf, SaveMoves, SaveCount, Steps
<1>2. PICK s \in Steps : Go(l, s)
  BY DEF Saves, CommitLevel, SaveUnits, SaveShelf, SaveMoves, SaveCount, Steps
<1>3. job'[l] = [job[l] EXCEPT !.at = s] /\ \A k \in Locks : k # l => job'[k] = job[k]
  BY <1>1, <1>2, GoTyped
<1>4. job[l] \in Jobs
  BY <1>1, JobFacts
<1>5. /\ job'[l].doc = job[l].doc /\ job'[l].op = job[l].op /\ job'[l].at = s
      /\ job'[l].delta = job[l].delta /\ job'[l].lists = job[l].lists
  BY <1>3, <1>4 DEF Jobs
<1>6. job'[l].at # "free"
  BY <1>5 DEF Steps
<1>7. Busy(l)'
  BY <1>6 DEF Busy, Free
<1>8. \A t \in Steps : Go(l, t) => job'[l].at = t
  <2> SUFFICES ASSUME NEW t \in Steps, Go(l, t) PROVE job'[l].at = t
    OBVIOUS
  <2>1. job'[l] = [job[l] EXCEPT !.at = t]
    BY <1>1, GoTyped
  <2>2. QED
    BY <2>1, <1>4 DEF Jobs
<1>9. UNCHANGED <<status, rung, cut, crashes>>
  BY DEF Saves, CommitLevel, SaveUnits, SaveShelf, SaveMoves, SaveCount
<1>10. QED
  BY <1>1, <1>3, <1>5, <1>7, <1>8, <1>9
     DEF Busy, At, CommitLevel, SaveUnits, SaveShelf, SaveMoves, SaveCount, Steps

LEMMA EndsAlone ==
  ASSUME TypeOK, OneJob, NEW l \in Locks, Finish(l) \/ Crash(l)
  PROVE  Busy(l) /\ \A k \in Locks : ~ Busy(k)'
BY EndsType DEF OneJob, Busy

LEMMA KeptInit == Init => OneJob /\ OwnRows /\ DevicesKept
BY DEF Init, OneJob, OwnRows, DevicesKept, HasDevices, Busy, Locks

LEMMA BeginOneJob ==
  ASSUME TypeOK, Overlap = FALSE, NEW x \in Documents, NEW op \in {"take", "return"},
         NEW delta \in [Products -> Int], NEW lists \in Lists, Begin(x, op, delta, lists),
         IF x \in Deliveries THEN status[x] = IF op = "take" THEN "ready" ELSE "done"
                             ELSE op = "take"
  PROVE  OneJob'
<1> SUFFICES ASSUME NEW l \in Locks, Busy(l)'
             PROVE  /\ LockOf(job'[l].doc) = l
                    /\ \A k \in Locks : k # l => ~ Busy(k)'
                    /\ IF job'[l].doc \in Deliveries
                       THEN status'[job'[l].doc] = IF job'[l].op = "take" THEN "ready" ELSE "done"
                       ELSE job'[l].op = "take"
  BY DEF OneJob
<1>1. l = LockOf(x) /\ \A k \in Locks : k # l => ~ Busy(k)'
  BY BeginsAlone
<1>2. job'[l].doc = x /\ job'[l].op = op /\ status' = status
  BY <1>1, BeginFacts
<1>3. QED
  BY <1>1, <1>2

LEMMA SaveOneJob ==
  ASSUME TypeOK, OneJob, NEW l \in Locks, Saves(l)
  PROVE  OneJob'
<1>1. /\ \A k \in Locks : Busy(k)' <=> Busy(k)
      /\ \A k \in Locks : job'[k].doc = job[k].doc /\ job'[k].op = job[k].op
      /\ status' = status
  BY SaveGoesOn
<1>2. QED
  BY <1>1 DEF OneJob

LEMMA CancelOneJob ==
  ASSUME TypeOK, OneJob, NEW d \in Deliveries, Cancel(d)
  PROVE  OneJob'
<1>1. \A l \in Locks : Busy(l) => job[l].doc \notin Deliveries
  BY DEF Cancel, OneJob, Busy, LockOf
<1>2. QED
  BY <1>1 DEF Cancel, OneJob, Busy

LEMMA NextOneJob ==
  ASSUME TypeOK, OneJob, Overlap = FALSE, [Next]_vars
  PROVE  OneJob'
<1>1. ASSUME NEW d \in Deliveries, Validate(d) PROVE OneJob'
  <2>1. Begin(d, "take", Change(d, Pending(d), -1), ListsTaken(d, Pending(d))) /\ status[d] = "ready"
    BY <1>1 DEF Validate
  <2>2. QED
    BY <2>1, <1>1, RequestBegins, BeginOneJob DEF Documents
<1>2. ASSUME NEW d \in Deliveries, Reverse(d) PROVE OneJob'
  <2>1. Begin(d, "return", Change(d, Lines(d), 1), ListsReturned(d)) /\ status[d] = "done"
    BY <1>2 DEF Reverse
  <2>2. QED
    BY <2>1, <1>2, RequestBegins, BeginOneJob DEF Documents
<1>3. ASSUME NEW t \in Sales, Sell(t) PROVE OneJob'
  <2>1. Begin(t, "take", Change(t, Lines(t), -1), ListsTaken(t, Lines(t)))
    BY <1>3 DEF Sell
  <2>2. t \in Documents /\ t \notin Deliveries
    BY DEF Documents
  <2>3. QED
    BY <2>1, <2>2, <1>3, RequestBegins, BeginOneJob
<1>4. ASSUME NEW t \in Sales, AnswerAgain(t) PROVE OneJob'
  BY <1>4 DEF AnswerAgain, OneJob, Busy
<1>5. ASSUME NEW l \in Locks, Finish(l) \/ Crash(l) PROVE OneJob'
  BY <1>5, EndsAlone DEF OneJob
<1>6. CASE UNCHANGED vars
  BY <1>6 DEF vars, OneJob, Busy
<1> HIDE DEF OneJob, TypeOK
<1>7. QED
  BY <1>1, <1>2, <1>3, <1>4, <1>5, <1>6, SaveOneJob, CancelOneJob DEF Next, Saves


-----------------------------------------------------------------------------
(* The rows a job saves are its own. *)

LEMMA BeginOwnRows ==
  ASSUME TypeOK, Overlap = FALSE, NEW x \in Documents, NEW op \in {"take", "return"},
         NEW delta \in [Products -> Int], NEW lists \in Lists, Begin(x, op, delta, lists),
         \A u \in Units : lists.unit[u] # unit[u] =>
           u \in UnitsOf[x] /\ (op = "take" => unit[u].status # "sold"),
         \A m \in lists.moves : m \notin moves => m[1] = x /\ op = "take"
  PROVE  OwnRows'
<1> SUFFICES ASSUME NEW l \in Locks, Busy(l)'
             PROVE  /\ UnitsUnsaved(l)' /\ MovesUnsaved(l)'
                    /\ \A u \in Units : job'[l].lists.unit[u] # unit'[u] =>
                         /\ u \in UnitsOf[job'[l].doc]
                         /\ job'[l].op = "take" => unit'[u].status # "sold"
                    /\ \A m \in job'[l].lists.moves : m \notin moves' =>
                         m[1] = job'[l].doc /\ job'[l].op = "take"
  BY DEF OwnRows
<1>1. l = LockOf(x)
  BY BeginsAlone
<1>2. /\ job'[l].doc = x /\ job'[l].op = op /\ job'[l].at = "level" /\ job'[l].lists = lists
      /\ unit' = unit /\ moves' = moves
  BY <1>1, BeginFacts
<1>3. QED
  BY <1>2 DEF UnitsUnsaved, MovesUnsaved

LEMMA ListsTakenOwn ==
  ASSUME TypeOK, NEW x \in Documents, NEW ps \in SUBSET Products,
         "device" \in ps => \A u \in UnitsOf[x] : unit[u].status # "sold"
  PROVE  /\ \A u \in Units : ListsTaken(x, ps).unit[u] # unit[u] =>
              u \in UnitsOf[x] /\ unit[u].status # "sold"
         /\ \A m \in ListsTaken(x, ps).moves : m \notin moves => m[1] = x
BY DEF ListsTaken

LEMMA ListsReturnedOwn ==
  ASSUME TypeOK, NEW d \in Deliveries
  PROVE  /\ \A u \in Units : ListsReturned(d).unit[u] # unit[u] => u \in UnitsOf[d]
         /\ ListsReturned(d).moves \subseteq moves
BY DEF ListsReturned, Removed

(* The guards: a device that is taken is not sold. *)
LEMMA ReadyNotSold ==
  ASSUME TypeOK, NEW d \in Deliveries, Validate(d), "device" \in Pending(d), NEW u \in UnitsOf[d]
  PROVE  unit[u].status # "sold"
BY DEF Validate, Deliverable, DeviceReady

LEMMA SellableNotSold ==
  ASSUME TypeOK, NEW t \in Sales, Sell(t), NEW u \in UnitsOf[t]
  PROVE  unit[u].status = "available"
BY DEF Sell, Sellable

LEMMA SaveOwnRows ==
  ASSUME TypeOK, OneJob, OwnRows, NEW l \in Locks, Saves(l)
  PROVE  OwnRows'
<1>1. /\ Busy(l) /\ \A k \in Locks : Busy(k)' => k = l
      /\ job'[l].doc = job[l].doc /\ job'[l].op = job[l].op /\ job'[l].lists = job[l].lists
  BY SaveGoesOn DEF OneJob
<1>2. /\ IF UnitsUnsaved(l)'
         THEN /\ unit' = unit
              /\ \A u \in Units : job[l].lists.unit[u] # unit[u] =>
                   u \in UnitsOf[job[l].doc] /\ (job[l].op = "take" => unit[u].status # "sold")
         ELSE unit' = job[l].lists.unit
      /\ IF MovesUnsaved(l)'
         THEN /\ moves' = moves
              /\ \A m \in job[l].lists.moves : m \notin moves =>
                   m[1] = job[l].doc /\ job[l].op = "take"
         ELSE moves' = job[l].lists.moves
  <2>1. CASE CommitLevel(l)
    BY <2>1, <1>1, SaveGoesOn DEF CommitLevel, OwnRows, UnitsUnsaved, MovesUnsaved
  <2>2. CASE SaveUnits(l)
    BY <2>2, <1>1, SaveGoesOn DEF SaveUnits, OwnRows, UnitsUnsaved, MovesUnsaved
  <2>3. CASE SaveShelf(l)
    BY <2>3, <1>1, SaveGoesOn DEF SaveShelf, OwnRows, UnitsUnsaved, MovesUnsaved
  <2>4. CASE SaveMoves(l)
    BY <2>4, <1>1, SaveGoesOn DEF SaveMoves, OwnRows, UnitsUnsaved, MovesUnsaved
  <2>5. CASE SaveCount(l)
    BY <2>5, <1>1, SaveGoesOn DEF SaveCount, OwnRows, UnitsUnsaved, MovesUnsaved
  <2>6. QED
    BY <2>1, <2>2, <2>3, <2>4, <2>5 DEF Saves
<1>3. QED
  BY <1>1, <1>2 DEF OwnRows, UnitsUnsaved, MovesUnsaved

LEMMA NextOwnRows ==
  ASSUME TypeOK, OneJob, OwnRows, Overlap = FALSE, [Next]_vars
  PROVE  OwnRows'
<1>1. ASSUME NEW d \in Deliveries, Validate(d) PROVE OwnRows'
  <2>1. Begin(d, "take", Change(d, Pending(d), -1), ListsTaken(d, Pending(d))) /\ d \in Documents
    BY <1>1 DEF Validate, Documents
  <2>2. /\ \A u \in Units : ListsTaken(d, Pending(d)).unit[u] # unit[u] =>
             u \in UnitsOf[d] /\ unit[u].status # "sold"
        /\ \A m \in ListsTaken(d, Pending(d)).moves : m \notin moves => m[1] = d
    BY <1>1, <2>1, ReadyNotSold, PendingTyped, ListsTakenOwn
  <2>3. QED
    BY <1>1, <2>1, <2>2, RequestBegins, BeginOwnRows
<1>2. ASSUME NEW d \in Deliveries, Reverse(d) PROVE OwnRows'
  <2>1. Begin(d, "return", Change(d, Lines(d), 1), ListsReturned(d)) /\ d \in Documents
    BY <1>2 DEF Reverse, Documents
  <2>2. /\ \A u \in Units : ListsReturned(d).unit[u] # unit[u] => u \in UnitsOf[d]
        /\ \A m \in ListsReturned(d).moves : m \in moves
    BY ListsReturnedOwn
  <2>3. QED
    BY <1>2, <2>1, <2>2, RequestBegins, BeginOwnRows
<1>3. ASSUME NEW t \in Sales, Sell(t) PROVE OwnRows'
  <2>1. /\ Begin(t, "take", Change(t, Lines(t), -1), ListsTaken(t, Lines(t)))
        /\ t \in Documents /\ Lines(t) \in SUBSET Products
    BY <1>3 DEF Sell, Documents, Lines
  <2>2. /\ \A u \in Units : ListsTaken(t, Lines(t)).unit[u] # unit[u] =>
             u \in UnitsOf[t] /\ unit[u].status # "sold"
        /\ \A m \in ListsTaken(t, Lines(t)).moves : m \notin moves => m[1] = t
    BY <1>3, <2>1, SellableNotSold, ListsTakenOwn
  <2>3. QED
    BY <1>3, <2>1, <2>2, RequestBegins, BeginOwnRows
<1>4. ASSUME NEW d \in Deliveries, Cancel(d) PROVE OwnRows'
  BY <1>4 DEF Cancel, OwnRows, Busy, UnitsUnsaved, MovesUnsaved, stockVars
<1>5. ASSUME NEW t \in Sales, AnswerAgain(t) PROVE OwnRows'
  BY <1>5 DEF AnswerAgain, OwnRows, Busy, UnitsUnsaved, MovesUnsaved, stockVars
<1>6. ASSUME NEW l \in Locks, Finish(l) \/ Crash(l) PROVE OwnRows'
  BY <1>6, EndsAlone DEF OwnRows
<1>7. CASE UNCHANGED vars
  BY <1>7 DEF vars, stockVars, OwnRows, Busy, UnitsUnsaved, MovesUnsaved
<1> HIDE DEF OneJob, TypeOK, OwnRows
<1>8. QED
  BY <1>1, <1>2, <1>3, <1>4, <1>5, <1>6, <1>7, SaveOwnRows DEF Next, Saves


-----------------------------------------------------------------------------
(* The devices of a delivery stay with it. *)

LEMMA CutGrows ==
  ASSUME TypeOK, [Next]_vars, OnlyTakesCut'
  PROVE  OnlyTakesCut
<1> DEFINE Kept == cut \subseteq cut'
<1>1. \A l \in Locks : Saves(l) => Kept
  BY SaveGoesOn
<1>2. \A l \in Locks : Finish(l) \/ Crash(l) => Kept
  BY DEF Finish, Crash
<1>3. \A d \in Deliveries : Validate(d) \/ Reverse(d) \/ Cancel(d) => Kept
  BY DEF Validate, Reverse, Cancel, Begin
<1>4. \A t \in Sales : Sell(t) \/ AnswerAgain(t) => Kept
  BY DEF Sell, AnswerAgain, Begin
<1>5. Next \/ cut' = cut
  BY DEF vars
<1> HIDE DEF Kept
<1>6. cut' = cut => Kept
  BY DEF Kept
<1>7. Kept
  BY <1>1, <1>2, <1>3, <1>4, <1>5, <1>6 DEF Next, Saves
<1> QED
  BY <1>7 DEF Kept, OnlyTakesCut

LEMMA AtRestReturnsNone ==
  ASSUME AtRest
  PROVE  \A d \in Deliveries : ~ Returning(d)
BY DEF AtRest, Returning, Busy

(* What a validation is about to save has the devices of its delivery sold. *)
LEMMA ValidateSells ==
  ASSUME TypeOK, OnlyTakesCut, DevicesKept, AtRest, NEW d \in Deliveries, Validate(d)
  PROVE  SoldTo(d, ListsTaken(d, Pending(d)).unit)
<1>1. d \in Documents /\ status[d] = "ready"
  BY DEF Documents, Validate
<1>2. UnitsOf[d] \subseteq Units /\ ("device" \in Lines(d) <=> UnitsOf[d] # {})
  BY <1>1, QuantityNat
<1>3. CASE "device" \in Pending(d)
  BY <1>2, <1>3 DEF ListsTaken, SoldTo, Sold
<1>4. CASE "device" \notin Pending(d)
  <2>1. \A u \in UnitsOf[d] : ListsTaken(d, Pending(d)).unit[u] = unit[u]
    BY <1>2, <1>4 DEF ListsTaken
  <2>2. SoldTo(d, unit)
    <3>1. CASE "device" \notin Lines(d)
      BY <3>1, <1>2 DEF SoldTo
    <3>2. CASE <<d, "device">> \in moves
      BY <3>2, <1>1, AtRestReturnsNone DEF DevicesKept, HasDevices
    <3>3. CASE \A u \in UnitsOf[d] : unit[u] = [status |-> "sold", order |-> d]
      BY <3>3 DEF SoldTo
    <3>4. QED
      BY <3>1, <3>2, <3>3, <1>4 DEF Pending, AlreadyApplied, Lines
  <2>3. QED
    BY <2>1, <2>2 DEF SoldTo
<1>5. QED
  BY <1>3, <1>4

LEMMA BeginDevicesKept ==
  ASSUME TypeOK, Overlap = FALSE, DevicesKept,
         NEW x \in Documents, NEW op \in {"take", "return"},
         NEW delta \in [Products -> Int], NEW lists \in Lists, Begin(x, op, delta, lists),
         OnlyTakesCut /\ x \in Deliveries /\ op = "take" => SoldTo(x, lists.unit)
  PROVE  DevicesKept'
<1> SUFFICES ASSUME OnlyTakesCut'
             PROVE  /\ \A d \in Deliveries :
                         status'[d] # "cancelled" /\ HasDevices(d)' /\ ~ Returning(d)'
                           => SoldTo(d, unit')
                    /\ \A l \in Locks :
                         Busy(l)' /\ job'[l].op = "take" /\ job'[l].doc \in Deliveries
                           => SoldTo(job'[l].doc, job'[l].lists.unit)
  BY DEF DevicesKept, SoldTo
<1>1. /\ status' = status /\ unit' = unit /\ moves' = moves /\ cut' = cut
      /\ job'[LockOf(x)].doc = x /\ job'[LockOf(x)].op = op /\ job'[LockOf(x)].lists = lists
  BY BeginFacts
<1>2. AtRest /\ \A k \in Locks : Busy(k)' => k = LockOf(x)
  BY BeginsAlone
<1>3. OnlyTakesCut /\ \A d \in Deliveries : ~ Returning(d)
  BY <1>1, <1>2, AtRestReturnsNone DEF OnlyTakesCut
<1>4. \A d \in Deliveries : HasDevices(d)' => HasDevices(d)
  BY <1>1 DEF HasDevices
<1>5. QED
  BY <1>1, <1>2, <1>3, <1>4 DEF DevicesKept

(* The devices of one delivery are saved: another that has its own keeps    *)
(* them.                                                                   *)
LEMMA OthersKeepDevices ==
  ASSUME TypeOK, OneJob, OwnRows, OnlyTakesCut, DevicesKept, NEW l \in Locks, SaveUnits(l),
         NEW d \in Deliveries, d # job[l].doc,
         status[d] # "cancelled", HasDevices(d)
  PROVE  SoldTo(d, unit')
<1>1. Busy(l) /\ UnitsUnsaved(l) /\ unit' = job[l].lists.unit
  BY AtIsBusy DEF SaveUnits, At, UnitsUnsaved, Steps
<1>2. ~ Returning(d) /\ ~ Returning(job[l].doc)
  BY <1>1 DEF OneJob, Returning
<1>3. SoldTo(d, unit)
  BY <1>2 DEF DevicesKept
<1>4. d \in Documents /\ UnitsOf[d] \subseteq Units
  BY QuantityNat DEF Documents
<1>5. ASSUME NEW u \in UnitsOf[d] PROVE unit'[u] = unit[u]
  <2>1. SUFFICES ASSUME unit'[u] # unit[u] PROVE FALSE
    OBVIOUS
  <2>2. /\ u \in UnitsOf[job[l].doc]
        /\ job[l].op = "take" => unit[u].status # "sold"
    BY <1>1, <1>4, <2>1 DEF OwnRows
  <2>3. unit[u] = [status |-> "sold", order |-> d]
    BY <1>3 DEF SoldTo
  <2>4. job[l].op = "return" /\ job[l].doc \in Deliveries
    BY <1>1, <2>2, <2>3, JobFacts DEF OneJob
  <2>5. status[job[l].doc] = "done"
    BY <1>1, <2>4 DEF OneJob
  <2>6. SoldTo(job[l].doc, unit)
    BY <1>2, <2>4, <2>5 DEF DevicesKept, HasDevices
  <2>7. unit[u] = [status |-> "sold", order |-> job[l].doc]
    BY <2>2, <2>6 DEF SoldTo
  <2>8. unit[u].order = d /\ unit[u].order = job[l].doc
    BY <2>3, <2>7
  <2>9. QED
    BY <2>8
<1>6. QED
  BY <1>3, <1>5 DEF SoldTo

LEMMA SaveDevicesKept ==
  ASSUME TypeOK, OneJob, OwnRows, DevicesKept, NEW l \in Locks, Saves(l)
  PROVE  DevicesKept'
<1> SUFFICES ASSUME OnlyTakesCut'
             PROVE  /\ \A d \in Deliveries :
                         status'[d] # "cancelled" /\ HasDevices(d)' /\ ~ Returning(d)'
                           => SoldTo(d, unit')
                    /\ \A k \in Locks :
                         Busy(k)' /\ job'[k].op = "take" /\ job'[k].doc \in Deliveries
                           => SoldTo(job'[k].doc, job'[k].lists.unit)
  BY DEF DevicesKept, SoldTo
<1>1. /\ Busy(l) /\ \A k \in Locks : Busy(k)' => k = l
      /\ \A k \in Locks : Busy(k) => k = l
      /\ job'[l].doc = job[l].doc /\ job'[l].op = job[l].op /\ job'[l].lists = job[l].lists
      /\ status' = status /\ cut' = cut /\ Busy(l)'
  BY SaveGoesOn DEF OneJob
<1>2. OnlyTakesCut
  BY <1>1 DEF OnlyTakesCut
<1>3. \A k \in Locks :
        Busy(k)' /\ job'[k].op = "take" /\ job'[k].doc \in Deliveries
          => SoldTo(job'[k].doc, job'[k].lists.unit)
  BY <1>1, <1>2 DEF DevicesKept
<1>4. ASSUME NEW d \in Deliveries, status[d] # "cancelled", HasDevices(d)', ~ Returning(d)'
      PROVE  SoldTo(d, unit')
  <2>1. CASE SaveUnits(l)
    <3>1. HasDevices(d) /\ unit' = job[l].lists.unit
      BY <2>1, <1>4, <1>1 DEF SaveUnits, HasDevices
    <3>2. CASE d # job[l].doc
      BY <3>1, <3>2, <2>1, <1>2, <1>4, OthersKeepDevices
    <3>3. CASE d = job[l].doc
      <4>1. job'[l].at = "shelf"
        BY <2>1, SaveGoesOn
      <4>2. job[l].op = "take"
        BY <4>1, <3>3, <1>1, <1>4, JobFacts DEF Returning, UnitsUnsaved
      <4>3. QED
        BY <4>2, <3>1, <3>3, <1>1, <1>2 DEF DevicesKept
    <3>4. QED
      BY <3>2, <3>3
  <2>2. CASE SaveMoves(l)
    <3>1. /\ unit' = unit /\ moves' = job[l].lists.moves
          /\ job[l].at = "moves" /\ job'[l].at = "count"
      BY <2>2, SaveGoesOn DEF SaveMoves
    <3>2. ~ Returning(d)
      BY <3>1, <1>1, <1>4 DEF Returning, UnitsUnsaved
    <3>3. CASE HasDevices(d)
      BY <3>1, <3>2, <3>3, <1>2, <1>4 DEF DevicesKept
    <3>4. CASE ~ HasDevices(d)
      <4>1. <<d, "device">> \in job[l].lists.moves /\ <<d, "device">> \notin moves
        BY <3>1, <3>4, <1>1, <1>4 DEF HasDevices
      <4>2. d = job[l].doc /\ job[l].op = "take"
        BY <4>1, <3>1, <1>1 DEF OwnRows, MovesUnsaved
      <4>3. unit = job[l].lists.unit
        BY <3>1, <1>1 DEF OwnRows, UnitsUnsaved
      <4>4. QED
        BY <4>2, <4>3, <3>1, <1>1, <1>2 DEF DevicesKept
    <3>5. QED
      BY <3>3, <3>4
  <2>3. CASE CommitLevel(l) \/ SaveShelf(l) \/ SaveCount(l)
    <3>1. unit' = unit /\ moves' = moves
      BY <2>3 DEF CommitLevel, SaveShelf, SaveCount
    <3>2. UnitsUnsaved(l)' <=> UnitsUnsaved(l)
      BY <2>3, SaveGoesOn DEF UnitsUnsaved
    <3>3. HasDevices(d) /\ ~ Returning(d)
      BY <3>1, <3>2, <1>1, <1>4 DEF HasDevices, Returning
    <3>4. QED
      BY <3>1, <3>3, <1>2, <1>4 DEF DevicesKept
  <2>4. QED
    BY <2>1, <2>2, <2>3 DEF Saves
<1>5. QED
  BY <1>1, <1>3, <1>4


LEMMA CancelDevicesKept ==
  ASSUME TypeOK, DevicesKept, NEW c \in Deliveries, Cancel(c)
  PROVE  DevicesKept'
<1>1. /\ unit' = unit /\ moves' = moves /\ cut' = cut /\ job' = job
      /\ status' = [status EXCEPT ![c] = "cancelled"]
  BY DEF Cancel, stockVars
<1>2. \A d \in Deliveries : status'[d] # "cancelled" => status'[d] = status[d]
  BY <1>1 DEF TypeOK
<1>3. \A d \in Deliveries : Returning(d)' <=> Returning(d)
  BY <1>1 DEF Returning, Busy, UnitsUnsaved
<1>4. \A d \in Deliveries :
        status'[d] # "cancelled" /\ HasDevices(d)' => status[d] # "cancelled" /\ HasDevices(d)
  BY <1>1, <1>2 DEF HasDevices
<1>5. QED
  BY <1>1, <1>3, <1>4 DEF DevicesKept, OnlyTakesCut, Busy, SoldTo

LEMMA FinishDevicesKept ==
  ASSUME TypeOK, OneJob, OwnRows, DevicesKept, NEW l \in Locks, Finish(l)
  PROVE  DevicesKept'
<1>1. Busy(l) /\ (\A k \in Locks : ~ Busy(k)') /\ \A k \in Locks : Busy(k) => k = l
  BY EndsAlone DEF OneJob
<1>2. /\ unit' = unit /\ moves' = moves /\ cut' = cut /\ job[l].at = "answer"
      /\ job[l].doc \in Deliveries \cup Sales
  BY DEF Finish, stockVars, At
<1>3. unit = job[l].lists.unit
  BY <1>1, <1>2 DEF OwnRows, UnitsUnsaved
<1>4. SUFFICES ASSUME OnlyTakesCut', NEW d \in Deliveries, status'[d] # "cancelled", HasDevices(d)'
               PROVE  SoldTo(d, unit')
  BY <1>1 DEF DevicesKept, SoldTo
<1>5. OnlyTakesCut
  BY <1>2, <1>4 DEF OnlyTakesCut
<1>6. CASE d = job[l].doc
  <2>1. status' = [status EXCEPT ![d] = IF job[l].op = "take" THEN "done" ELSE "cancelled"]
    BY <1>6 DEF Finish, StockAssumption
  <2>2. job[l].op = "take"
    BY <2>1, <1>4 DEF TypeOK
  <2>3. QED
    BY <2>2, <1>1, <1>2, <1>3, <1>5, <1>6 DEF DevicesKept
<1>7. CASE d # job[l].doc
  <2>1. status'[d] = status[d]
    BY <1>7 DEF Finish, TypeOK
  <2>2. HasDevices(d) /\ ~ Returning(d)
    BY <2>1, <1>1, <1>2, <1>4, <1>7 DEF HasDevices, Returning
  <2>3. QED
    BY <2>1, <2>2, <1>2, <1>4, <1>5 DEF DevicesKept
<1>8. QED
  BY <1>6, <1>7

LEMMA CrashDevicesKept ==
  ASSUME TypeOK, OneJob, OwnRows, DevicesKept, NEW l \in Locks, Crash(l)
  PROVE  DevicesKept'
<1>1. Busy(l) /\ (\A k \in Locks : ~ Busy(k)') /\ \A k \in Locks : Busy(k) => k = l
  BY EndsAlone DEF OneJob
<1>2. /\ unit' = unit /\ moves' = moves /\ status' = status
      /\ cut' = IF job[l].doc \in Deliveries /\ ~ UnitsUnsaved(l)
                THEN cut \cup {<<job[l].doc, job[l].op>>} ELSE cut
  BY DEF Crash, stockVars, UnitsUnsaved
<1>3. SUFFICES ASSUME OnlyTakesCut', NEW d \in Deliveries, status'[d] # "cancelled", HasDevices(d)'
               PROVE  SoldTo(d, unit')
  BY <1>1 DEF DevicesKept, SoldTo
<1>4. OnlyTakesCut
  BY <1>2, <1>3 DEF OnlyTakesCut
<1>5. ASSUME job[l].doc \in Deliveries, ~ UnitsUnsaved(l) PROVE job[l].op = "take"
  <2> DEFINE mark == <<job[l].doc, job[l].op>>
  <2>1. mark \in cut'
    BY <1>2, <1>5
  <2>2. mark[2] = "take"
    BY <2>1, <1>3 DEF OnlyTakesCut
  <2>3. QED
    BY <2>2
<1>6. ~ Returning(d)
  BY <1>1, <1>3, <1>5 DEF Returning
<1>7. CASE HasDevices(d)
  BY <1>2, <1>3, <1>4, <1>6, <1>7 DEF DevicesKept
<1>8. CASE ~ HasDevices(d)
  <2>1. d = job[l].doc /\ ~ UnitsUnsaved(l)
    BY <1>2, <1>3, <1>8 DEF HasDevices
  <2>2. unit = job[l].lists.unit /\ job[l].op = "take"
    BY <2>1, <1>1, <1>5 DEF OwnRows
  <2>3. QED
    BY <2>1, <2>2, <1>1, <1>2, <1>4 DEF DevicesKept
<1>9. QED
  BY <1>7, <1>8

LEMMA NextDevicesKept ==
  ASSUME KeptInv, Overlap = FALSE, [Next]_vars
  PROVE  DevicesKept'
<1> USE DEF KeptInv
<1>1. ASSUME NEW d \in Deliveries, Validate(d) PROVE DevicesKept'
  <2>1. Begin(d, "take", Change(d, Pending(d), -1), ListsTaken(d, Pending(d))) /\ d \in Documents
    BY <1>1 DEF Validate, Documents
  <2>2. AtRest
    BY <2>1 DEF Begin
  <2>3. OnlyTakesCut => SoldTo(d, ListsTaken(d, Pending(d)).unit)
    BY <1>1, <2>2, ValidateSells
  <2>4. QED
    BY <1>1, <2>1, <2>3, RequestBegins, BeginDevicesKept
<1>2. ASSUME NEW d \in Deliveries, Reverse(d) PROVE DevicesKept'
  <2>1. Begin(d, "return", Change(d, Lines(d), 1), ListsReturned(d)) /\ d \in Documents
    BY <1>2 DEF Reverse, Documents
  <2>2. QED
    BY <1>2, <2>1, RequestBegins, BeginDevicesKept
<1>3. ASSUME NEW t \in Sales, Sell(t) PROVE DevicesKept'
  <2>1. /\ Begin(t, "take", Change(t, Lines(t), -1), ListsTaken(t, Lines(t)))
        /\ t \in Documents /\ t \notin Deliveries
    BY <1>3 DEF Sell, Documents
  <2>2. QED
    BY <1>3, <2>1, RequestBegins, BeginDevicesKept
<1>4. ASSUME NEW t \in Sales, AnswerAgain(t) PROVE DevicesKept'
  BY <1>4 DEF AnswerAgain, DevicesKept, OnlyTakesCut, HasDevices, Returning, Busy, UnitsUnsaved,
             stockVars, SoldTo
<1>5. CASE UNCHANGED vars
  BY <1>5 DEF vars, DevicesKept, OnlyTakesCut, HasDevices, Returning, Busy, UnitsUnsaved,
              stockVars, SoldTo
<1> HIDE DEF OneJob, TypeOK, OwnRows, DevicesKept
<1>6. QED
  BY <1>1, <1>2, <1>3, <1>4, <1>5, CancelDevicesKept, SaveDevicesKept, FinishDevicesKept,
     CrashDevicesKept DEF Next, Saves

(* What holds of the devices whatever is killed: inductive.                *)
THEOREM KeptInductive ==
  ASSUME Overlap = FALSE
  PROVE  Spec => []KeptInv
<1>1. Init => KeptInv
  BY TypeInit, KeptInit DEF KeptInv
<1>2. KeptInv /\ [Next]_vars => KeptInv'
  BY StepTypes, NextOneJob, NextOwnRows, NextDevicesKept DEF KeptInv
<1>3. QED
  BY <1>1, <1>2, PTL DEF Spec

(* A validation cut off after it saved the devices can be repeated: the     *)
(* retry finds them delivered.                                             *)
THEOREM RetryFindsDevices ==
  ASSUME Overlap = FALSE
  PROVE  Spec => []RetryTakesNoDevice
<1>1. KeptInv => RetryTakesNoDevice
  <2> SUFFICES ASSUME KeptInv, OnlyTakesCut, NEW d \in Deliveries,
                      <<d, "take">> \in cut, status[d] = "ready"
               PROVE  "device" \notin Pending(d)
    BY DEF RetryTakesNoDevice
  <2>1. ~ Returning(d)
    BY DEF KeptInv, OneJob, Returning
  <2>2. SoldTo(d, unit)
    BY <2>1 DEF KeptInv, DevicesKept, HasDevices
  <2>3. QED
    BY <2>2 DEF SoldTo, Pending, AlreadyApplied
<1>2. QED
  BY <1>1, KeptInductive, PTL

(* The devices of a done delivery are sold to its order.                   *)
THEOREM DoneKeepsDevices ==
  ASSUME Overlap = FALSE
  PROVE  Spec => []DoneIsSold
<1>1. KeptInv => DoneIsSold
  <2> SUFFICES ASSUME KeptInv, OnlyTakesCut, NEW d \in Deliveries, status[d] = "done",
                      ~ \E l \in Locks : job[l] # Free /\ job[l].doc = d
               PROVE  SoldTo(d, unit)
    BY DEF DoneIsSold, SoldTo
  <2>1. ~ Returning(d)
    BY DEF Returning, Busy
  <2>2. QED
    BY <2>1 DEF KeptInv, DevicesKept, HasDevices
<1>2. QED
  BY <1>1, KeptInductive, PTL


-----------------------------------------------------------------------------
(* How the sums change when one document takes or returns. *)

GoodsOf(mv, x) == IF <<x, "goods">> \in mv THEN QtyOf[x] ELSE 0

LEMMA TakenNat ==
  ASSUME NEW mv
  PROVE  Taken(mv) \in Nat
<1> DEFINE f == [x \in Documents |-> IF <<x, "goods">> \in mv THEN QtyOf[x] ELSE 0]
<1>1. f \in [Documents -> Nat]
  OBVIOUS
<1>2. Taken(mv) = SumFunction(f)
  BY DEF Taken
<1> HIDE DEF f
<1>3. QED
  BY <1>1, <1>2, SumNat

LEMMA TakenChanged ==
  ASSUME NEW mv, NEW mw, NEW x \in Documents,
         \A y \in Documents : y # x => (<<y, "goods">> \in mw <=> <<y, "goods">> \in mv)
  PROVE  Taken(mw) = Taken(mv) - GoodsOf(mv, x) + GoodsOf(mw, x)
<1> DEFINE f == [y \in Documents |-> IF <<y, "goods">> \in mv THEN QtyOf[y] ELSE 0]
           g == [y \in Documents |-> IF <<y, "goods">> \in mw THEN QtyOf[y] ELSE 0]
<1>1. f \in [Documents -> Nat] /\ g \in [Documents -> Nat]
  OBVIOUS
<1>2. \A y \in Documents \ {x} : g[y] = f[y]
  OBVIOUS
<1>3. f[x] = GoodsOf(mv, x) /\ g[x] = GoodsOf(mw, x)
  BY DEF GoodsOf
<1>4. Taken(mv) = SumFunction(f) /\ Taken(mw) = SumFunction(g)
  BY DEF Taken
<1> HIDE DEF f, g
<1>5. SumFunction(g) = SumFunction(f) - f[x] + g[x]
  BY <1>1, <1>2, SumChangedAt
<1>6. QED
  BY <1>3, <1>4, <1>5

(* The sum of the property is the same one. *)
LEMMA TakenIsSum ==
  ASSUME NEW mv
  PROVE  SumFunction([x \in {y \in Documents : <<y, "goods">> \in mv} |-> QtyOf[x]]) = Taken(mv)
<1> DEFINE T == {y \in Documents : <<y, "goods">> \in mv}
           f == [y \in Documents |-> IF <<y, "goods">> \in mv THEN QtyOf[y] ELSE 0]
           g == [y \in T |-> QtyOf[y]]
<1>1. T \in SUBSET Documents /\ f \in [Documents -> Nat] /\ g \in [T -> Nat]
  OBVIOUS
<1>2. (\A y \in T : f[y] = g[y]) /\ \A y \in Documents \ T : f[y] = 0
  OBVIOUS
<1>3. Taken(mv) = SumFunction(f)
  BY DEF Taken
<1> HIDE DEF f, g, T
<1>4. SumFunction(g) = SumFunction(f)
  BY <1>1, <1>2, SumPadded
<1>5. QED
  BY <1>3, <1>4 DEF g, T

LEMMA NotSoldTyped == \A un : NotSold(un) \in SUBSET Units
BY DEF NotSold

LEMMA PartCount ==
  ASSUME NEW A \in SUBSET Units, NEW B \in SUBSET Units, NEW S \in SUBSET Units,
         A = B \cup S, B \cap S = {}
  PROVE  /\ Cardinality(A) = Cardinality(B) + Cardinality(S)
         /\ Cardinality(A) \in Nat /\ Cardinality(B) \in Nat /\ Cardinality(S) \in Nat
<1>1. IsFiniteSet(A) /\ IsFiniteSet(B) /\ IsFiniteSet(S)
  BY FS_Subset
<1>2. Cardinality(B \cup S) = Cardinality(B) + Cardinality(S) - Cardinality(B \cap S)
  BY <1>1, FS_Union
<1>3. Cardinality(B \cap S) = 0
  BY FS_EmptySet
<1>4. Cardinality(A) \in Nat /\ Cardinality(B) \in Nat /\ Cardinality(S) \in Nat
  BY <1>1, FS_CardinalityType
<1>5. QED
  BY <1>2, <1>3, <1>4

(* A document whose devices are not sold and whose goods are there takes    *)
(* all of its lines.                                                       *)
LEMMA TakeAgrees ==
  ASSUME TypeOK, Agreed(unit, shelf, moves, count, status), NEW x \in Documents, NEW st,
         \A p \in Products : <<x, p>> \notin moves,
         \A u \in UnitsOf[x] : IF x \in Deliveries THEN unit[u].status # "sold"
                                                   ELSE unit[u].status = "available",
         QtyOf[x] <= shelf,
         \A d \in Deliveries : st[d] = IF d = x THEN "done" ELSE status[d]
  PROVE  LET L == ListsTaken(x, Lines(x))
         IN Agreed(L.unit, L.shelf, L.moves, L.count, st)
<1> DEFINE L == ListsTaken(x, Lines(x))
           un == L.unit
           mv == L.moves
<1>0. /\ UnitsOf[x] \subseteq Units /\ ("device" \in Lines(x) <=> UnitsOf[x] # {})
      /\ ("goods" \in Lines(x) <=> QtyOf[x] > 0) /\ Lines(x) \subseteq Products
      /\ QtyOf[x] \in Nat /\ Quantity(x, "device") = Cardinality(UnitsOf[x])
      /\ Quantity(x, "goods") = QtyOf[x]
  BY QuantityNat
<1>1. /\ \A u \in Units : u \notin UnitsOf[x] => un[u] = unit[u]
      /\ \A u \in UnitsOf[x] :
           un[u].status = "sold" /\ un[u].order = IF x \in Deliveries THEN x ELSE unit[u].order
  BY <1>0 DEF ListsTaken, Sold
<1>2. \A u \in UnitsOf[x] : unit[u].status # "sold" /\ un[u].status = "sold"
  BY <1>1
<1>3. mv = moves \cup ({x} \X Lines(x))
  BY DEF ListsTaken
<1>4. \A y \in Documents, p \in Products :
        <<y, p>> \in mv <=> <<y, p>> \in moves \/ (y = x /\ p \in Lines(x))
  BY <1>3
<1> HIDE DEF un, mv
<1>5. L.shelf + Taken(mv) = Stock /\ L.shelf \in Nat
      /\ (QtyOf[x] > 0 => L.shelf = shelf - QtyOf[x]) /\ (QtyOf[x] = 0 => L.shelf = shelf)
  <2>1. L.shelf = IF "goods" \in Lines(x) THEN Least0(shelf - QtyOf[x]) ELSE shelf
    BY DEF ListsTaken
  <2>2. L.shelf = shelf - QtyOf[x] /\ L.shelf \in Nat
    BY <2>1, <1>0 DEF Least0, TypeOK
  <2>3. Taken(mv) = Taken(moves) - GoodsOf(moves, x) + GoodsOf(mv, x)
    BY <1>4, TakenChanged DEF Products
  <2>4. GoodsOf(moves, x) = 0 /\ GoodsOf(mv, x) = QtyOf[x]
    BY <1>0, <1>4 DEF GoodsOf, Products
  <2>5. shelf + Taken(moves) = Stock /\ Taken(moves) \in Nat /\ shelf \in Nat
    BY TakenNat DEF Agreed, Adds, TypeOK
  <2>6. QED
    BY <2>2, <2>3, <2>4, <2>5, <1>0
<1>6. L.count["goods"] = L.shelf /\ L.count["device"] = Cardinality(NotSold(un))
  <2>1. count \in [Products -> Int] /\ Change(x, Lines(x), -1) \in [Products -> Int]
    BY <1>0, ChangeTyped DEF TypeOK
  <2>2. /\ Cardinality(NotSold(unit)) = Cardinality(NotSold(un)) + Cardinality(UnitsOf[x])
        /\ Cardinality(NotSold(unit)) \in Nat /\ Cardinality(NotSold(un)) \in Nat
        /\ Cardinality(UnitsOf[x]) \in Nat
    <3> DEFINE A == NotSold(unit)
               B == NotSold(un)
               S == UnitsOf[x]
    <3>1. A \in SUBSET Units /\ B \in SUBSET Units /\ S \in SUBSET Units
      BY <1>0, NotSoldTyped
    <3>2. A = B \cup S /\ B \cap S = {}
      BY <1>0, <1>1, <1>2 DEF NotSold
    <3> HIDE DEF A, B, S
    <3>3. Cardinality(A) = Cardinality(B) + Cardinality(S)
      BY <3>1, <3>2, PartCount
    <3>4. Cardinality(A) \in Nat /\ Cardinality(B) \in Nat /\ Cardinality(S) \in Nat
      BY <3>1, <3>2, PartCount
    <3>5. QED
      BY <3>3, <3>4 DEF A, B, S
  <2>3. count["goods"] = shelf /\ count["device"] = Cardinality(NotSold(unit)) /\ shelf \in Nat
    BY DEF Agreed, Adds, TypeOK
  <2>4. Change(x, Lines(x), -1)["device"] = - Cardinality(UnitsOf[x])
    <3>1. CASE UnitsOf[x] = {}
      BY <3>1, <1>0, FS_EmptySet DEF Change, Products
    <3>2. CASE UnitsOf[x] # {}
      BY <3>2, <1>0, <2>2 DEF Change, Products
    <3>3. QED
      BY <3>1, <3>2
  <2>5. Change(x, Lines(x), -1)["goods"] = - QtyOf[x]
    BY <1>0 DEF Change, Products
  <2>6. L.count = Plus(count, Change(x, Lines(x), -1))
    BY DEF ListsTaken
  <2>7. \A p \in Products : count[p] + Change(x, Lines(x), -1)[p] >= 0
             => L.count[p] = count[p] + Change(x, Lines(x), -1)[p]
    BY <2>1, <2>6, PlusTyped
  <2>8. L.count["device"] = count["device"] - Cardinality(UnitsOf[x])
    BY <2>2, <2>3, <2>4, <2>7 DEF Products
  <2>9. L.count["goods"] = count["goods"] - QtyOf[x]
    BY <1>0, <2>3, <2>5, <2>7 DEF Products
  <2>10. QED
    BY <2>2, <2>3, <2>8, <2>9, <1>5, <1>0
<1>7. OneMoveEach(un, mv)
  <2> SUFFICES ASSUME NEW u \in Units
               PROVE  /\ un[u].status = "sold" =>
                           \E y \in Documents : u \in UnitsOf[y] /\ <<y, "device">> \in mv
                      /\ \A y, z \in Documents :
                           u \in UnitsOf[y] /\ <<y, "device">> \in mv
                           => /\ un[u].status = "sold"
                              /\ u \in UnitsOf[z] /\ <<z, "device">> \in mv => y = z
    BY DEF OneMoveEach
  <2>1. /\ unit[u].status = "sold" =>
             \E y \in Documents : u \in UnitsOf[y] /\ <<y, "device">> \in moves
        /\ \A y, z \in Documents :
             u \in UnitsOf[y] /\ <<y, "device">> \in moves
             => /\ unit[u].status = "sold"
                /\ u \in UnitsOf[z] /\ <<z, "device">> \in moves => y = z
    BY DEF Agreed, Adds, OneMoveEach
  <2>2. \A y \in Documents :
          <<y, "device">> \in mv <=> <<y, "device">> \in moves \/ (y = x /\ UnitsOf[x] # {})
    BY <1>0, <1>4 DEF Products
  <2>3. CASE u \in UnitsOf[x]
    BY <2>1, <2>2, <2>3, <1>2
  <2>4. CASE u \notin UnitsOf[x]
    BY <2>1, <2>2, <2>4, <1>1
  <2>5. QED
    BY <2>3, <2>4
<1>8. MovesOfDone(mv, st)
  <2>1. \A d \in Deliveries, p \in Products : <<d, p>> \in moves <=> status[d] = "done" /\ p \in Lines(d)
    BY DEF Agreed, MovesOfDone
  <2>2. Deliveries \subseteq Documents
    BY DEF Documents
  <2>3. QED
    BY <2>1, <2>2, <1>4 DEF MovesOfDone
<1>9. OnlyAssigned(un, st)
  <2> SUFFICES ASSUME NEW d \in Deliveries, NEW u \in Units, st[d] = "ready", un[u].order = d
               PROVE  un[u].status = "assigned"
    BY DEF OnlyAssigned
  <2>1. d # x /\ status[d] = "ready"
    OBVIOUS
  <2>2. unit[u].order = d => unit[u].status = "assigned"
    BY <2>1 DEF Agreed, OnlyAssigned
  <2>3. CASE u \in UnitsOf[x]
    <3>1. un[u].order = IF x \in Deliveries THEN x ELSE unit[u].order
      BY <2>3, <1>1
    <3>2. x \notin Deliveries /\ unit[u].order = d
      BY <3>1, <2>1
    <3>3. unit[u].status = "available"
      BY <3>2, <2>3
    <3>4. QED
      BY <3>2, <3>3, <2>2
  <2>4. CASE u \notin UnitsOf[x]
    BY <2>4, <2>2, <1>1
  <2>5. QED
    BY <2>3, <2>4
<1>10. QED
  BY <1>5, <1>6, <1>7, <1>8, <1>9 DEF un, mv, Agreed, Adds


(* A done delivery puts back all that its moves took. *)
LEMMA ReturnAgrees ==
  ASSUME TypeOK, Agreed(unit, shelf, moves, count, status), NEW x \in Deliveries, NEW st,
         status[x] = "done", SoldTo(x, unit),
         \A d \in Deliveries : st[d] = IF d = x THEN "cancelled" ELSE status[d]
  PROVE  LET L == ListsReturned(x)
         IN Agreed(L.unit, L.shelf, L.moves, L.count, st)
<1> DEFINE L == ListsReturned(x)
           un == L.unit
           mv == L.moves
<1>0. /\ UnitsOf[x] \subseteq Units /\ ("device" \in Lines(x) <=> UnitsOf[x] # {})
      /\ ("goods" \in Lines(x) <=> QtyOf[x] > 0) /\ Lines(x) \subseteq Products
      /\ QtyOf[x] \in Nat /\ Quantity(x, "device") = Cardinality(UnitsOf[x])
      /\ Quantity(x, "goods") = QtyOf[x] /\ x \in Documents
  BY QuantityNat DEF Documents
<1>1. /\ \A u \in Units : u \notin UnitsOf[x] => un[u] = unit[u]
      /\ \A u \in UnitsOf[x] : un[u].status = "available" /\ un[u].order = unit[u].order
  BY <1>0 DEF ListsReturned, TypeOK, Device
<1>2. \A u \in UnitsOf[x] : unit[u].status = "sold" /\ unit[u].order = x /\ un[u].status # "sold"
  BY <1>1 DEF SoldTo
<1>3. mv = {m \in moves : m[1] # x}
  BY DEF ListsReturned, Removed
<1>4. \A y \in Documents, p \in Products : <<y, p>> \in mv <=> <<y, p>> \in moves /\ y # x
  BY <1>3
<1>5. \A p \in Products : <<x, p>> \in moves <=> p \in Lines(x)
  BY DEF Agreed, MovesOfDone
<1> HIDE DEF un, mv
<1>6. L.shelf + Taken(mv) = Stock /\ L.shelf = shelf + QtyOf[x]
  <2>1. L.shelf = shelf + QtyOf[x]
    BY DEF ListsReturned
  <2>2. Taken(mv) = Taken(moves) - GoodsOf(moves, x) + GoodsOf(mv, x)
    BY <1>0, <1>4, TakenChanged DEF Products
  <2>3. GoodsOf(moves, x) = QtyOf[x] /\ GoodsOf(mv, x) = 0
    BY <1>0, <1>4, <1>5 DEF GoodsOf, Products
  <2>4. shelf + Taken(moves) = Stock /\ Taken(moves) \in Nat /\ shelf \in Nat
    BY TakenNat DEF Agreed, Adds, TypeOK
  <2>5. QED
    BY <2>1, <2>2, <2>3, <2>4, <1>0
<1>7. L.count["goods"] = L.shelf /\ L.count["device"] = Cardinality(NotSold(un))
  <2>1. count \in [Products -> Int] /\ Change(x, Lines(x), 1) \in [Products -> Int]
    BY <1>0, ChangeTyped DEF TypeOK
  <2>2. /\ Cardinality(NotSold(un)) = Cardinality(NotSold(unit)) + Cardinality(UnitsOf[x])
        /\ Cardinality(NotSold(unit)) \in Nat /\ Cardinality(UnitsOf[x]) \in Nat
    <3> DEFINE A == NotSold(un)
               B == NotSold(unit)
               S == UnitsOf[x]
    <3>1. A \in SUBSET Units /\ B \in SUBSET Units /\ S \in SUBSET Units
      BY <1>0, NotSoldTyped
    <3>2. A = B \cup S /\ B \cap S = {}
      BY <1>0, <1>1, <1>2 DEF NotSold
    <3> HIDE DEF A, B, S
    <3>3. Cardinality(A) = Cardinality(B) + Cardinality(S)
      BY <3>1, <3>2, PartCount
    <3>4. Cardinality(B) \in Nat /\ Cardinality(S) \in Nat
      BY <3>1, <3>2, PartCount
    <3>5. QED
      BY <3>3, <3>4 DEF A, B, S
  <2>3. count["goods"] = shelf /\ count["device"] = Cardinality(NotSold(unit)) /\ shelf \in Nat
    BY DEF Agreed, Adds, TypeOK
  <2>4. Change(x, Lines(x), 1)["device"] = Cardinality(UnitsOf[x])
    <3>1. CASE UnitsOf[x] = {}
      BY <3>1, <1>0, FS_EmptySet DEF Change, Products
    <3>2. CASE UnitsOf[x] # {}
      BY <3>2, <1>0, <2>2 DEF Change, Products
    <3>3. QED
      BY <3>1, <3>2
  <2>5. Change(x, Lines(x), 1)["goods"] = QtyOf[x]
    BY <1>0 DEF Change, Products
  <2>6. L.count = Plus(count, Change(x, Lines(x), 1))
    BY DEF ListsReturned
  <2>7. \A p \in Products : count[p] + Change(x, Lines(x), 1)[p] >= 0
             => L.count[p] = count[p] + Change(x, Lines(x), 1)[p]
    BY <2>1, <2>6, PlusTyped
  <2>8. L.count["device"] = count["device"] + Cardinality(UnitsOf[x])
    BY <2>2, <2>3, <2>4, <2>7 DEF Products
  <2>9. L.count["goods"] = count["goods"] + QtyOf[x]
    BY <1>0, <2>3, <2>5, <2>7 DEF Products
  <2>10. QED
    BY <2>2, <2>3, <2>8, <2>9, <1>6, <1>0
<1>8. OneMoveEach(un, mv)
  <2> SUFFICES ASSUME NEW u \in Units
               PROVE  /\ un[u].status = "sold" =>
                           \E y \in Documents : u \in UnitsOf[y] /\ <<y, "device">> \in mv
                      /\ \A y, z \in Documents :
                           u \in UnitsOf[y] /\ <<y, "device">> \in mv
                           => /\ un[u].status = "sold"
                              /\ u \in UnitsOf[z] /\ <<z, "device">> \in mv => y = z
    BY DEF OneMoveEach
  <2>1. /\ unit[u].status = "sold" =>
             \E y \in Documents : u \in UnitsOf[y] /\ <<y, "device">> \in moves
        /\ \A y, z \in Documents :
             u \in UnitsOf[y] /\ <<y, "device">> \in moves
             => /\ unit[u].status = "sold"
                /\ u \in UnitsOf[z] /\ <<z, "device">> \in moves => y = z
    BY DEF Agreed, Adds, OneMoveEach
  <2>2. \A y \in Documents : <<y, "device">> \in mv <=> <<y, "device">> \in moves /\ y # x
    BY <1>4 DEF Products
  <2>3. CASE u \in UnitsOf[x]
    <3>1. <<x, "device">> \in moves
      BY <2>3, <1>0, <1>5 DEF Products
    <3>2. un[u].status # "sold"
      BY <2>3, <1>2
    <3>3. \A y \in Documents : u \in UnitsOf[y] /\ <<y, "device">> \in moves => y = x
      BY <3>1, <2>1, <2>3, <1>0
    <3>4. QED
      BY <3>2, <3>3, <2>2
  <2>4. CASE u \notin UnitsOf[x]
    BY <2>1, <2>2, <2>4, <1>1
  <2>5. QED
    BY <2>3, <2>4
<1>9. MovesOfDone(mv, st)
  <2>1. \A d \in Deliveries, p \in Products : <<d, p>> \in moves <=> status[d] = "done" /\ p \in Lines(d)
    BY DEF Agreed, MovesOfDone
  <2>2. Deliveries \subseteq Documents
    BY DEF Documents
  <2>3. QED
    BY <2>1, <2>2, <1>4 DEF MovesOfDone
<1>10. OnlyAssigned(un, st)
  <2> SUFFICES ASSUME NEW d \in Deliveries, NEW u \in Units, st[d] = "ready", un[u].order = d
               PROVE  un[u].status = "assigned"
    BY DEF OnlyAssigned
  <2>1. d # x /\ status[d] = "ready"
    OBVIOUS
  <2>2. unit[u].order = d => unit[u].status = "assigned"
    BY <2>1 DEF Agreed, OnlyAssigned
  <2>3. u \notin UnitsOf[x]
    BY <2>1, <1>1, <1>2
  <2>4. QED
    BY <2>2, <2>3, <1>1
<1>11. QED
  BY <1>6, <1>7, <1>8, <1>9, <1>10 DEF un, mv, Agreed, Adds

(* Cancelling an open delivery touches no table. *)
LEMMA CancelAgrees ==
  ASSUME NEW un, NEW sh, NEW mv, NEW ct, NEW st, NEW sw, NEW c \in Deliveries,
         Agreed(un, sh, mv, ct, st), st[c] = "ready",
         \A d \in Deliveries : sw[d] = IF d = c THEN "cancelled" ELSE st[d]
  PROVE  Agreed(un, sh, mv, ct, sw)
<1>1. MovesOfDone(mv, sw)
  BY DEF Agreed, MovesOfDone
<1>2. OnlyAssigned(un, sw)
  BY DEF Agreed, OnlyAssigned
<1>3. QED
  BY <1>1, <1>2 DEF Agreed


-----------------------------------------------------------------------------
(* As long as nothing was killed, every request leaves the tables agreed.   *)

LEMMA NoCrashYet ==
  ASSUME TypeOK, [Next]_vars, crashes' = 0
  PROVE  /\ crashes = 0 /\ cut' = cut /\ \A l \in Locks : ~ Crash(l)
<1>0. crashes \in Nat
  BY DEF TypeOK
<1>1. \A l \in Locks : ~ Crash(l)
  BY <1>0 DEF Crash
<1>2. ASSUME NEW l \in Locks, Finish(l) PROVE UNCHANGED <<cut, crashes>>
  BY <1>2 DEF Finish
<1>3. ASSUME NEW l \in Locks, Saves(l) PROVE UNCHANGED <<cut, crashes>>
  BY <1>3, SaveGoesOn
<1>4. ASSUME NEW d \in Deliveries, Validate(d) \/ Reverse(d) \/ Cancel(d)
      PROVE  UNCHANGED <<cut, crashes>>
  BY <1>4 DEF Validate, Reverse, Cancel, Begin
<1>5. ASSUME NEW t \in Sales, Sell(t) \/ AnswerAgain(t) PROVE UNCHANGED <<cut, crashes>>
  BY <1>5 DEF Sell, AnswerAgain, Begin
<1>6. ASSUME UNCHANGED vars PROVE UNCHANGED <<cut, crashes>>
  BY <1>6 DEF vars
<1>7. UNCHANGED <<cut, crashes>>
  BY <1>1, <1>2, <1>3, <1>4, <1>5, <1>6 DEF Next, Saves
<1>8. QED
  BY <1>1, <1>7

LEMMA AgreeInit ==
  ASSUME Init
  PROVE  WillAgree
<1>1. \A l \in Locks : ~ Busy(l)
  BY DEF Init, Busy
<1>2. cut = {} /\ level = count
  BY DEF Init
<1>3. Taken(moves) = 0
  <2> DEFINE f == [x \in Documents |-> IF <<x, "goods">> \in moves THEN QtyOf[x] ELSE 0]
  <2>1. f \in [Documents -> Nat] /\ \A x \in Documents : f[x] = 0
    BY DEF Init
  <2>2. Taken(moves) = SumFunction(f)
    BY DEF Taken
  <2> HIDE DEF f
  <2>3. QED
    BY <2>1, <2>2, SumZero
<1>4. NotSold(unit) = Units
  BY DEF Init, NotSold, Device
<1>5. count["goods"] = Stock /\ count["device"] = Cardinality(Units) /\ shelf = Stock
  BY DEF Init, OnHand, Products
<1>6. OneMoveEach(unit, moves)
  BY <1>4 DEF Init, OneMoveEach, NotSold
<1>7. MovesOfDone(moves, status)
  BY DEF Init, MovesOfDone
<1>8. OnlyAssigned(unit, status)
  <2> SUFFICES ASSUME NEW d \in Deliveries, NEW u \in Units, unit[u].order = d
               PROVE  unit[u].status = "assigned"
    BY DEF OnlyAssigned
  <2>1. d # NoOrder
    BY DEF Documents
  <2>2. unit[u] \in Device /\ (unit[u].status = "available" <=> unit[u].order = NoOrder)
    BY DEF Init
  <2>3. unit[u].status # "sold"
    BY <1>4 DEF NotSold
  <2>4. QED
    BY <2>1, <2>2, <2>3 DEF Device
<1>9. QED
  BY <1>1, <1>2, <1>3, <1>4, <1>5, <1>6, <1>7, <1>8 DEF WillAgree, Agreed, Adds

LEMMA BeginAgrees ==
  ASSUME TypeOK, Overlap = FALSE, WillAgree, crashes = 0, level = count,
         NEW x \in Documents, NEW op \in {"take", "return"},
         NEW delta \in [Products -> Int], NEW lists \in Lists, Begin(x, op, delta, lists),
         lists.count = Plus(count, delta),
         Agreed(lists.unit, lists.shelf, lists.moves, lists.count, StatusWith(x, op))
  PROVE  WillAgree'
<1> DEFINE l == LockOf(x)
<1>1. /\ job'[l].doc = x /\ job'[l].op = op /\ job'[l].lists = lists
      /\ job'[l].at = "level" /\ job'[l].delta = delta
      /\ UNCHANGED <<status, unit, shelf, moves, count, level, rung, cut, crashes>>
  BY BeginFacts
<1>2. l \in Locks /\ Busy(l)' /\ \A k \in Locks : Busy(k)' => k = l
  BY BeginsAlone
<1>3. ~ AtRest'
  BY <1>2 DEF AtRest, Busy
<1> HIDE DEF l
<1>4. StatusAfter(l)' = StatusWith(x, op)
  BY <1>1 DEF StatusAfter, StatusWith
<1>5. Agreed(lists.unit, lists.shelf, lists.moves, lists.count, StatusAfter(l)')
  BY <1>4
<1>6. SavedSoFar(l)'
  BY <1>1 DEF SavedSoFar, Steps
<1>7. cut' = {}
  BY <1>1 DEF WillAgree
<1>8. SUFFICES /\ cut' = {}
               /\ \A k \in Locks : Busy(k)' =>
                    /\ Agreed(job'[k].lists.unit, job'[k].lists.shelf, job'[k].lists.moves,
                              job'[k].lists.count, StatusAfter(k)')
                    /\ SavedSoFar(k)'
  BY <1>3 DEF WillAgree
<1>9. QED
  BY <1>1, <1>2, <1>5, <1>6, <1>7

(* Without a killed attempt nothing of an open delivery is applied yet.     *)
LEMMA AllPending ==
  ASSUME TypeOK, Agreed(unit, shelf, moves, count, status), NEW d \in Deliveries,
         status[d] = "ready"
  PROVE  Pending(d) = Lines(d) /\ \A p \in Products : <<d, p>> \notin moves
<1>1. \A p \in Products : <<d, p>> \notin moves
  BY DEF Agreed, MovesOfDone
<1>2. "device" \in Lines(d) <=> UnitsOf[d] # {}
  BY QuantityNat DEF Documents
<1>3. UnitsOf[d] \subseteq Units
  BY QuantityNat DEF Documents
<1>4. UnitsOf[d] # {} => ~ \A u \in UnitsOf[d] : unit[u] = [status |-> "sold", order |-> d]
  <2> SUFFICES ASSUME NEW u \in UnitsOf[d], unit[u] = [status |-> "sold", order |-> d]
               PROVE  FALSE
    OBVIOUS
  <2>1. unit[u].order = d /\ unit[u].status = "sold"
    OBVIOUS
  <2>2. QED
    BY <2>1, <1>3 DEF Agreed, OnlyAssigned
<1>5. \A p \in Lines(d) : p \in Products /\ ~ AlreadyApplied(d, p)
  BY <1>1, <1>2, <1>4 DEF AlreadyApplied, Lines
<1>6. QED
  BY <1>1, <1>5 DEF Pending


LEMMA ValidateAgrees ==
  ASSUME KeptInv, WillAgree, Overlap = FALSE, crashes = 0, NEW d \in Deliveries, Validate(d)
  PROVE  WillAgree'
<1> DEFINE ps == Pending(d)
<1>1. /\ Begin(d, "take", Change(d, ps, -1), ListsTaken(d, ps)) /\ d \in Documents
      /\ status[d] = "ready" /\ Deliverable(d)
  BY DEF Validate, Documents
<1>2. Agreed(unit, shelf, moves, count, status) /\ level = count
  BY <1>1 DEF Begin, WillAgree
<1>3. ps = Lines(d) /\ \A p \in Products : <<d, p>> \notin moves
  BY <1>1, <1>2, AllPending DEF KeptInv
<1>4. \A u \in UnitsOf[d] : unit[u].status # "sold"
  <2>1. "device" \in Lines(d) <=> UnitsOf[d] # {}
    BY <1>1, QuantityNat
  <2>2. QED
    BY <2>1, <1>3, ReadyNotSold DEF KeptInv
<1>5. QtyOf[d] <= shelf
  <2>1. "goods" \in Lines(d) <=> QtyOf[d] > 0
    BY <1>1, QuantityNat
  <2>2. shelf \in Nat /\ QtyOf[d] \in Nat
    BY <1>1 DEF KeptInv, TypeOK
  <2>3. QED
    BY <2>1, <2>2, <1>1, <1>3 DEF Deliverable
<1>6. Change(d, ps, -1) \in [Products -> Int] /\ ListsTaken(d, ps) \in Lists
  BY RequestBegins DEF KeptInv
<1>7. ListsTaken(d, ps).count = Plus(count, Change(d, ps, -1))
  BY DEF ListsTaken
<1>8. Agreed(ListsTaken(d, ps).unit, ListsTaken(d, ps).shelf, ListsTaken(d, ps).moves,
             ListsTaken(d, ps).count, StatusWith(d, "take"))
  <2>1. \A e \in Deliveries : StatusWith(d, "take")[e] = IF e = d THEN "done" ELSE status[e]
    BY DEF StatusWith
  <2>2. \A u \in UnitsOf[d] : IF d \in Deliveries THEN unit[u].status # "sold"
                                                  ELSE unit[u].status = "available"
    BY <1>4
  <2>3. QED
    BY <2>1, <2>2, <1>1, <1>2, <1>3, <1>5, TakeAgrees DEF KeptInv
<1> HIDE DEF ps
<1>9. QED
  BY <1>1, <1>2, <1>6, <1>7, <1>8, BeginAgrees DEF KeptInv

LEMMA SellAgrees ==
  ASSUME KeptInv, WillAgree, Overlap = FALSE, crashes = 0, NEW t \in Sales, Sell(t)
  PROVE  WillAgree'
<1> DEFINE ps == Lines(t)
<1>1. /\ Begin(t, "take", Change(t, ps, -1), ListsTaken(t, ps)) /\ t \in Documents
      /\ t \notin Deliveries /\ Sellable(t)
  BY DEF Sell, Documents
<1>2. Agreed(unit, shelf, moves, count, status) /\ level = count
  BY <1>1 DEF Begin, WillAgree
<1>3. \A p \in Products : <<t, p>> \notin moves
  BY DEF Sell
<1>4. \A u \in UnitsOf[t] : IF t \in Deliveries THEN unit[u].status # "sold"
                                                ELSE unit[u].status = "available"
  BY <1>1 DEF Sellable
<1>5. QtyOf[t] <= shelf
  BY <1>1 DEF Sellable
<1>6. Change(t, ps, -1) \in [Products -> Int] /\ ListsTaken(t, ps) \in Lists
  BY RequestBegins DEF KeptInv
<1>7. ListsTaken(t, ps).count = Plus(count, Change(t, ps, -1))
  BY DEF ListsTaken
<1>8. Agreed(ListsTaken(t, ps).unit, ListsTaken(t, ps).shelf, ListsTaken(t, ps).moves,
             ListsTaken(t, ps).count, StatusWith(t, "take"))
  <2>1. \A e \in Deliveries : StatusWith(t, "take")[e] = IF e = t THEN "done" ELSE status[e]
    BY DEF StatusWith
  <2>2. QED
    BY <2>1, <1>1, <1>2, <1>3, <1>4, <1>5, TakeAgrees DEF KeptInv
<1> HIDE DEF ps
<1>9. QED
  BY <1>1, <1>2, <1>6, <1>7, <1>8, BeginAgrees DEF KeptInv

LEMMA ReverseAgrees ==
  ASSUME KeptInv, WillAgree, Overlap = FALSE, crashes = 0, NEW d \in Deliveries, Reverse(d)
  PROVE  WillAgree'
<1> DEFINE L == ListsReturned(d)
           delta == Change(d, Lines(d), 1)
<1>1. Begin(d, "return", delta, L) /\ d \in Documents /\ status[d] = "done"
  BY DEF Reverse, Documents
<1>2. Agreed(unit, shelf, moves, count, status) /\ level = count /\ AtRest
  BY <1>1 DEF Begin, WillAgree
<1>3. SoldTo(d, unit)
  <2>1. OnlyTakesCut /\ ~ Returning(d)
    BY <1>2, AtRestReturnsNone DEF WillAgree, OnlyTakesCut
  <2>2. QED
    BY <2>1, <1>1 DEF KeptInv, DevicesKept, HasDevices
<1>4. delta \in [Products -> Int] /\ L \in Lists
  BY RequestBegins DEF KeptInv
<1>5. L.count = Plus(count, delta)
  BY DEF ListsReturned
<1>6. Agreed(L.unit, L.shelf, L.moves, L.count, StatusWith(d, "return"))
  <2>1. \A e \in Deliveries : StatusWith(d, "return")[e] = IF e = d THEN "cancelled" ELSE status[e]
    BY DEF StatusWith
  <2>2. QED
    BY <2>1, <1>1, <1>2, <1>3, ReturnAgrees DEF KeptInv
<1> HIDE DEF L, delta
<1>7. QED
  BY <1>1, <1>2, <1>4, <1>5, <1>6, BeginAgrees DEF KeptInv

LEMMA SaveAgrees ==
  ASSUME KeptInv, WillAgree, crashes = 0, NEW l \in Locks, Saves(l)
  PROVE  WillAgree'
<1> USE DEF KeptInv
<1>1. /\ Busy(l) /\ Busy(l)' /\ \A k \in Locks : Busy(k)' => k = l
      /\ job'[l].doc = job[l].doc /\ job'[l].op = job[l].op /\ job'[l].lists = job[l].lists
      /\ job'[l].delta = job[l].delta
      /\ status' = status /\ cut' = cut
  BY SaveGoesOn DEF OneJob
<1>2. ~ AtRest' /\ cut' = {}
  BY <1>1 DEF AtRest, Busy, WillAgree
<1>3. StatusAfter(l)' = StatusAfter(l)
  BY <1>1 DEF StatusAfter, StatusWith
<1>4. Agreed(job[l].lists.unit, job[l].lists.shelf, job[l].lists.moves, job[l].lists.count,
             StatusAfter(l)) /\ SavedSoFar(l)
  BY <1>1 DEF WillAgree
<1>5. SavedSoFar(l)'
  <2>1. CASE CommitLevel(l)
    BY <2>1, <1>1, <1>4, SaveGoesOn DEF CommitLevel, SavedSoFar, Steps
  <2>2. CASE SaveUnits(l)
    BY <2>2, <1>1, <1>4, SaveGoesOn DEF SaveUnits, SavedSoFar, Steps
  <2>3. CASE SaveShelf(l)
    BY <2>3, <1>1, <1>4, SaveGoesOn DEF SaveShelf, SavedSoFar, Steps
  <2>4. CASE SaveMoves(l)
    BY <2>4, <1>1, <1>4, SaveGoesOn DEF SaveMoves, SavedSoFar, Steps
  <2>5. CASE SaveCount(l)
    BY <2>5, <1>1, <1>4, SaveGoesOn DEF SaveCount, SavedSoFar, Steps
  <2>6. QED
    BY <2>1, <2>2, <2>3, <2>4, <2>5 DEF Saves
<1>6. SUFFICES /\ cut' = {}
               /\ \A k \in Locks : Busy(k)' =>
                    /\ Agreed(job'[k].lists.unit, job'[k].lists.shelf, job'[k].lists.moves,
                              job'[k].lists.count, StatusAfter(k)')
                    /\ SavedSoFar(k)'
  BY <1>2 DEF WillAgree
<1>7. QED
  BY <1>1, <1>2, <1>3, <1>4, <1>5


LEMMA CancelKeepsAgreed ==
  ASSUME KeptInv, WillAgree, crashes = 0, NEW c \in Deliveries, Cancel(c)
  PROVE  WillAgree'
<1> USE DEF KeptInv
<1>1. /\ UNCHANGED <<unit, shelf, moves, count, level, job, cut>>
      /\ status[c] = "ready" /\ job["deed_deliveries"] = Free
      /\ status' = [status EXCEPT ![c] = "cancelled"]
  BY DEF Cancel, stockVars
<1>2. \A d \in Deliveries : status'[d] = IF d = c THEN "cancelled" ELSE status[d]
  BY <1>1 DEF TypeOK
<1>3. (\A k \in Locks : Busy(k)' <=> Busy(k)) /\ (AtRest' <=> AtRest)
  BY <1>1 DEF Busy, AtRest
<1>4. AtRest => Agreed(unit, shelf, moves, count, status') /\ level = count
  BY <1>1, <1>2, CancelAgrees DEF WillAgree
<1>5. ASSUME NEW k \in Locks, Busy(k)
      PROVE  /\ Agreed(job[k].lists.unit, job[k].lists.shelf, job[k].lists.moves,
                       job[k].lists.count, StatusAfter(k)')
             /\ SavedSoFar(k)
  <2>1. job[k].doc # c
    BY <1>1, <1>5 DEF OneJob, Busy, LockOf
  <2>2. StatusAfter(k)[c] = "ready"
    BY <1>1, <2>1 DEF StatusAfter, StatusWith
  <2>3. \A d \in Deliveries : StatusAfter(k)'[d] = IF d = c THEN "cancelled" ELSE StatusAfter(k)[d]
    BY <1>1, <1>2, <2>1 DEF StatusAfter, StatusWith
  <2>4. Agreed(job[k].lists.unit, job[k].lists.shelf, job[k].lists.moves,
               job[k].lists.count, StatusAfter(k)) /\ SavedSoFar(k)
    BY <1>5 DEF WillAgree
  <2>5. QED
    BY <2>2, <2>3, <2>4, CancelAgrees
<1>6. \A k \in Locks : SavedSoFar(k)' <=> SavedSoFar(k)
  BY <1>1 DEF SavedSoFar
<1>7. cut' = {}
  BY <1>1 DEF WillAgree
<1>8. SUFFICES /\ cut' = {}
               /\ AtRest' => Agreed(unit', shelf', moves', count', status') /\ level' = count'
               /\ \A k \in Locks : Busy(k)' =>
                    /\ Agreed(job'[k].lists.unit, job'[k].lists.shelf, job'[k].lists.moves,
                              job'[k].lists.count, StatusAfter(k)')
                    /\ SavedSoFar(k)'
  BY DEF WillAgree
<1>9. QED
  BY <1>1, <1>3, <1>4, <1>5, <1>6, <1>7

LEMMA FinishAgrees ==
  ASSUME KeptInv, WillAgree, crashes = 0, NEW l \in Locks, Finish(l)
  PROVE  WillAgree'
<1> USE DEF KeptInv
<1>1. Busy(l) /\ \A k \in Locks : ~ Busy(k)'
  BY EndsAlone
<1>2. UNCHANGED <<unit, shelf, moves, count, level, cut>> /\ job[l].at = "answer"
  BY DEF Finish, stockVars, At
<1>3. /\ Agreed(job[l].lists.unit, job[l].lists.shelf, job[l].lists.moves,
                job[l].lists.count, StatusAfter(l))
      /\ SavedSoFar(l) /\ cut = {}
  BY <1>1 DEF WillAgree
<1>4. /\ unit = job[l].lists.unit /\ shelf = job[l].lists.shelf /\ moves = job[l].lists.moves
      /\ count = job[l].lists.count /\ level = job[l].lists.count
  BY <1>2, <1>3 DEF SavedSoFar, Steps
<1>5. \A d \in Deliveries : status'[d] = StatusAfter(l)[d]
  BY DEF Finish, StatusAfter, StatusWith, TypeOK
<1>6. Agreed(unit, shelf, moves, count, StatusAfter(l))
  BY <1>3, <1>4
<1>7. Agreed(unit, shelf, moves, count, status')
  <2>1. MovesOfDone(moves, status')
    BY <1>5, <1>6 DEF Agreed, MovesOfDone
  <2>2. OnlyAssigned(unit, status')
    BY <1>5, <1>6 DEF Agreed, OnlyAssigned
  <2>3. QED
    BY <2>1, <2>2, <1>6 DEF Agreed
<1>8. SUFFICES /\ cut' = {}
               /\ Agreed(unit', shelf', moves', count', status') /\ level' = count'
  BY <1>1 DEF WillAgree
<1>9. QED
  BY <1>2, <1>3, <1>4, <1>7

LEMMA NextAgrees ==
  ASSUME KeptInv, WillAgree, Overlap = FALSE, [Next]_vars
  PROVE  WillAgree'
<1> SUFFICES ASSUME crashes' = 0 PROVE WillAgree'
  BY DEF WillAgree
<1>1. crashes = 0 /\ \A l \in Locks : ~ Crash(l)
  BY NoCrashYet DEF KeptInv
<1>2. ASSUME NEW t \in Sales, AnswerAgain(t) PROVE WillAgree'
  BY <1>2 DEF AnswerAgain, stockVars, WillAgree, AtRest, Busy, SavedSoFar, StatusAfter, StatusWith
<1>3. CASE UNCHANGED vars
  BY <1>3 DEF vars, stockVars, WillAgree, AtRest, Busy, SavedSoFar, StatusAfter, StatusWith
<1>4. QED
  BY <1>1, <1>2, <1>3, ValidateAgrees, SellAgrees, ReverseAgrees, SaveAgrees, CancelKeepsAgreed,
     FinishAgrees DEF Next, Saves

(* With what holds of the devices, the agreement of the tables is inductive. *)
THEOREM StockInductive ==
  ASSUME Overlap = FALSE
  PROVE  Spec => []IInv
<1>1. Init => IInv
  BY TypeInit, KeptInit, AgreeInit DEF IInv, KeptInv
<1>2. IInv /\ [Next]_vars => IInv'
  BY StepTypes, NextOneJob, NextOwnRows, NextDevicesKept, NextAgrees DEF IInv, KeptInv
<1>3. QED
  BY <1>1, <1>2, PTL DEF Spec

LEMMA AgreedIsAccounted ==
  ASSUME TypeOK, Agreed(unit, shelf, moves, count, status), level = count
  PROVE  StockAccounted
<1>1. shelf = Stock - SumFunction([x \in {y \in Documents : Out(y, "goods")} |-> QtyOf[x]])
  <2>1. SumFunction([x \in {y \in Documents : Out(y, "goods")} |-> QtyOf[x]]) = Taken(moves)
    BY TakenIsSum DEF Out
  <2>2. shelf + Taken(moves) = Stock /\ Taken(moves) \in Nat /\ shelf \in Nat
    BY TakenNat DEF Agreed, Adds, TypeOK
  <2>3. QED
    BY <2>1, <2>2
<1>2. count = [device |-> Cardinality({u \in Units : unit[u].status # "sold"}), goods |-> shelf]
  BY DEF Agreed, Adds, NotSold, TypeOK, Products
<1>3. ASSUME NEW u \in Units
      PROVE  Cardinality({x \in Documents : u \in UnitsOf[x] /\ Out(x, "device")})
               = IF unit[u].status = "sold" THEN 1 ELSE 0
  <2> DEFINE outOn == {x \in Documents : u \in UnitsOf[x] /\ Out(x, "device")}
  <2>1. OneMoveEach(unit, moves)
    BY DEF Agreed, Adds
  <2>2. CASE unit[u].status = "sold"
    <3>1. PICK x \in Documents : u \in UnitsOf[x] /\ <<x, "device">> \in moves
      BY <2>1, <2>2 DEF OneMoveEach
    <3>2. outOn = {x}
      BY <2>1, <3>1 DEF OneMoveEach, Out
    <3>3. QED
      BY <2>2, <3>2, FS_Singleton
  <2>3. CASE unit[u].status # "sold"
    <3>1. outOn = {}
      BY <2>1, <2>3 DEF OneMoveEach, Out
    <3>2. QED
      BY <2>3, <3>1, FS_EmptySet
  <2>4. QED
    BY <2>2, <2>3
<1>4. \A d \in Deliveries, p \in Products :
        Out(d, p) <=> status[d] = "done" /\ p \in Lines(d)
  BY DEF Agreed, MovesOfDone, Out
<1>5. QED
  BY <1>1, <1>2, <1>3, <1>4 DEF StockAccounted

(* Whatever the deliveries, sales and quantities, the five stock tables agree *)
(* after every request, and lack exactly what the standing moves took.     *)
THEOREM TablesAgree ==
  ASSUME Overlap = FALSE
  PROVE  Spec => []StockAccounted
<1>1. IInv => StockAccounted
  <2> SUFFICES ASSUME IInv, AtRest, crashes = 0 PROVE StockAccounted
    BY DEF StockAccounted
  <2>1. TypeOK /\ Agreed(unit, shelf, moves, count, status) /\ level = count
    BY DEF IInv, KeptInv, WillAgree
  <2>2. QED
    BY <2>1, AgreedIsAccounted
<1>2. QED
  BY <1>1, StockInductive, PTL
=============================================================================
