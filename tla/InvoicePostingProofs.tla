------------------------ MODULE InvoicePostingProofs ------------------------
(***************************************************************************)
(* What holds of an invoice's ledger entries for every set of handlers and *)
(* every bound.  With faults or without (IInv): its first entry stands     *)
(* alone, and entries only age.  While calm (BooksInv): the ledger has the *)
(* entry the invoice says it has, once no request owes it one, and no      *)
(* payment is left on a draft or a cancelled invoice.                      *)
(***************************************************************************)
EXTENDS InvoicePosting, FiniteSetTheorems, TLAPS

(* A second entry exists only after the first was reversed ... *)
SiblingsFollow ==
  \A n \in Entries \ {1} : entries[n] # "absent" => entries[1] = "reversed"

(* ... and so it is with the ref a request has been given to post under. *)
RefsFollow ==
  \A h \in Handlers :
    hand[h].pc # "dedupe" /\ hand[h].ref \notin {0, 1} => entries[1] = "reversed"

(* The repair tool names entries that exist. *)
ExtrasExist ==
  \A h \in Handlers : \A n \in hand[h].extra : entries[n] # "absent"

IInv == TypeOK /\ SiblingsFollow /\ RefsFollow /\ ExtrasExist

LEMMA FirstIsEntry == 1 \in Entries
BY PostingAssumption, SMT DEF Entries

LEMMA RefsInRange == NextRef \subseteq Entries
BY FirstIsEntry DEF NextRef, FreeRefs

-----------------------------------------------------------------------------
(* The three ways a step moves a handler. *)

LEMMA GotoMoves ==
  ASSUME hand \in [Handlers -> Tasks], NEW h \in Handlers, NEW p \in Points, Goto(h, p)
  PROVE  /\ hand' \in [Handlers -> Tasks]
         /\ hand'[h].pc = p /\ hand'[h].ref = hand[h].ref /\ hand'[h].extra = hand[h].extra
         /\ \A g \in Handlers \ {h} : hand'[g] = hand[g]
<1>1. [hand[h] EXCEPT !.pc = p] \in Tasks
  BY DEF Tasks
<1>2. hand' = [hand EXCEPT ![h] = [hand[h] EXCEPT !.pc = p]]
  BY DEF Goto
<1> QED
  BY <1>1, <1>2 DEF Tasks

LEMMA IdleIsTask == Idle \in Tasks
BY PostingAssumption, SMT DEF Idle, Tasks, Points, Statuses, Entries

LEMMA DoneMoves ==
  ASSUME hand \in [Handlers -> Tasks], NEW h \in Handlers, Done(h)
  PROVE  /\ hand' \in [Handlers -> Tasks]
         /\ hand'[h] = Idle
         /\ \A g \in Handlers \ {h} : hand'[g] = hand[g]
BY IdleIsTask DEF Done

LEMMA TaskIsTask ==
  ASSUME TypeOK, NEW p \in Points, NEW want \in Statuses \cup {"none"},
         NEW ref \in Entries \cup {0}, NEW extra \in SUBSET Entries
  PROVE  Task(p, want, ref, extra) \in Tasks
<1>1. status \in Statuses /\ lockVersion \in 0..MaxVersion /\ paid \in BOOLEAN
  BY DEF TypeOK
<1> QED
  BY <1>1, Zenon DEF Task, Tasks

LEMMA BeginMoves ==
  ASSUME TypeOK, NEW h \in Handlers, NEW p \in Points,
         NEW want \in Statuses \cup {"none"}, Begin(h, p, want)
  PROVE  /\ hand' \in [Handlers -> Tasks]
         /\ hand'[h].ref = 0 /\ hand'[h].extra = {}
         /\ \A g \in Handlers \ {h} : hand'[g] = hand[g]
<1>1. Task(p, want, 0, {}) \in Tasks
  BY TaskIsTask
<1>2. Task(p, want, 0, {}).ref = 0 /\ Task(p, want, 0, {}).extra = {}
  BY DEF Task
<1>3. hand \in [Handlers -> Tasks]
  BY DEF TypeOK
<1> QED
  BY <1>1, <1>2, <1>3 DEF Begin

-----------------------------------------------------------------------------
LEMMA InitTypes == Init => TypeOK
<1> SUFFICES ASSUME Init PROVE TypeOK
  OBVIOUS
<1>1. hand \in [Handlers -> Tasks]
  BY IdleIsTask DEF Init
<1>2. lockVersion \in 0..MaxVersion
  BY PostingAssumption DEF Init
<1>3. entries \in [Entries -> {"absent", "live", "reversed"}]
  BY DEF Init
<1> QED
  BY <1>1, <1>2, <1>3 DEF Init, TypeOK, Statuses

LEMMA StepKeepsTypes == TypeOK /\ [Next]_vars => TypeOK'
<1> SUFFICES ASSUME TypeOK, [Next]_vars PROVE TypeOK'
  OBVIOUS
<1> USE DEF TypeOK
<1>1. ASSUME NEW h \in Handlers, NEW want \in Statuses \cup {"none"}, NEW reset \in BOOLEAN,
             ReadPut(h, want, reset)
      PROVE  TypeOK'
  <2>1. hand' \in [Handlers -> Tasks]
    BY <1>1, BeginMoves DEF ReadPut, Points
  <2> QED
    BY <1>1, <2>1 DEF ReadPut, invoiceVars
<1>2. ASSUME NEW h \in Handlers, BuildEntry(h) PROVE TypeOK'
  <2>1. PICK n \in NextRef \cup {0} : hand' = [hand EXCEPT ![h].ref = n, ![h].pc = "claim"]
    BY <1>2 DEF BuildEntry
  <2>2. [hand[h] EXCEPT !.ref = n, !.pc = "claim"] \in Tasks
    BY RefsInRange DEF Tasks, Points
  <2>3. hand' \in [Handlers -> Tasks]
    BY <2>1, <2>2
  <2> QED
    BY <1>2, <2>3 DEF BuildEntry, invoiceVars
<1>3. ASSUME NEW h \in Handlers, ClaimAndWrite(h) PROVE TypeOK'
  <2>1. hand[h] \in Tasks
    OBVIOUS
  <2>2. AfterClaim(h) \in Points
    BY DEF AfterClaim, Points
  <2>3. hand' \in [Handlers -> Tasks]
    BY <1>3, <2>2, GotoMoves, DoneMoves DEF ClaimAndWrite
  <2>4. lockVersion' \in 0..MaxVersion
    BY <1>3, PostingAssumption, SMT DEF ClaimAndWrite, Claims
  <2>5. status' \in Statuses
    BY <1>3, <2>1 DEF ClaimAndWrite, Written, Tasks
  <2> QED
    BY <1>3, <2>3, <2>4, <2>5 DEF ClaimAndWrite, Calmly
<1>4. ASSUME NEW h \in Handlers, ClaimLost(h) PROVE TypeOK'
  <2>1. hand' \in [Handlers -> Tasks]
    BY <1>4, DoneMoves DEF ClaimLost, Points
  <2> QED
    BY <1>4, <2>1 DEF ClaimLost, invoiceVars, Calmly
<1>5. ASSUME NEW h \in Handlers, PostEntry(h) PROVE TypeOK'
  <2>1. Goto(h, "mark") \/ Goto(h, "unmark") \/ Done(h)
    BY <1>5 DEF PostEntry
  <2>2. hand' \in [Handlers -> Tasks]
    BY <2>1, GotoMoves, DoneMoves DEF Points
  <2>3. entries' \in [Entries -> {"absent", "live", "reversed"}] /\ calm' \in BOOLEAN
    BY <1>5 DEF PostEntry, Calmly
  <2> QED
    BY <1>5, <2>2, <2>3 DEF PostEntry, invoiceVars
<1>6. ASSUME NEW h \in Handlers, MarkPosted(h) PROVE TypeOK'
  <2>1. hand' \in [Handlers -> Tasks]
    BY <1>6, DoneMoves DEF MarkPosted
  <2>2. hand[h].ref \in Entries \cup {0}
    BY DEF Tasks
  <2> QED
    BY <1>6, <2>1, <2>2 DEF MarkPosted
<1>7. ASSUME NEW h \in Handlers, MarkUnposted(h) PROVE TypeOK'
  <2>1. hand' \in [Handlers -> Tasks]
    BY <1>7, DoneMoves DEF MarkUnposted, Points
  <2> QED
    BY <1>7, <2>1 DEF MarkUnposted, invoiceVars, Calmly
<1>8. ASSUME NEW h \in Handlers, ReverseEntry(h) PROVE TypeOK'
  <2>1. hand' \in [Handlers -> Tasks]
    BY <1>8, DoneMoves DEF ReverseEntry, Points
  <2> QED
    BY <1>8, <2>1 DEF ReverseEntry, invoiceVars, Calmly, ReverseNewest
<1>9. ASSUME NEW h \in Handlers, PostCredit(h) PROVE TypeOK'
  <2>1. hand' \in [Handlers -> Tasks]
    BY <1>9, DoneMoves DEF PostCredit, Points
  <2> QED
    BY <1>9, <2>1 DEF PostCredit, invoiceVars, Calmly
<1>10. ASSUME NEW h \in Handlers, ReadDelete(h) PROVE TypeOK'
  <2>1. hand' \in [Handlers -> Tasks]
    BY <1>10, BeginMoves DEF ReadDelete, Points, Statuses
  <2> QED
    BY <1>10, <2>1 DEF ReadDelete, invoiceVars, Calmly
<1>11. ASSUME NEW h \in Handlers, VoidInvoice(h) PROVE TypeOK'
  <2>1. hand' \in [Handlers -> Tasks]
    BY <1>11, GotoMoves DEF VoidInvoice, Points
  <2> QED
    BY <1>11, <2>1 DEF VoidInvoice, Statuses, Calmly
<1>12. ASSUME NEW h \in Handlers, ReadSend(h) PROVE TypeOK'
  <2>1. hand' \in [Handlers -> Tasks]
    BY <1>12, BeginMoves DEF ReadSend, Points, Statuses
  <2> QED
    BY <1>12, <2>1 DEF ReadSend, invoiceVars, Calmly
<1>13. ASSUME NEW h \in Handlers, IssueSent(h) PROVE TypeOK'
  <2>1. hand' \in [Handlers -> Tasks]
    BY <1>13, DoneMoves DEF IssueSent, Points
  <2> QED
    BY <1>13, <2>1 DEF IssueSent, Statuses, Calmly
<1>14. ASSUME NEW h \in Handlers, ReadPayment(h) PROVE TypeOK'
  <2>1. hand' \in [Handlers -> Tasks]
    BY <1>14, BeginMoves DEF ReadPayment, Points, Statuses
  <2> QED
    BY <1>14, <2>1 DEF ReadPayment, invoiceVars, Calmly
<1>15. ASSUME NEW h \in Handlers, RecordPayment(h) PROVE TypeOK'
  <2>1. hand' \in [Handlers -> Tasks]
    BY <1>15, DoneMoves DEF RecordPayment, Points
  <2> QED
    BY <1>15, <2>1 DEF RecordPayment, invoiceVars, Calmly
<1>16. ASSUME ReversePayment PROVE TypeOK'
  BY <1>16 DEF ReversePayment, invoiceVars
<1>17. ASSUME NEW h \in Handlers, ReadOrphan(h) PROVE TypeOK'
  <2>1. hand' \in [Handlers -> Tasks]
    BY <1>17, BeginMoves DEF ReadOrphan, Points, Statuses
  <2> QED
    BY <1>17, <2>1 DEF ReadOrphan, invoiceVars, Calmly
<1>18. ASSUME NEW h \in Handlers, AllocateRepost(h) PROVE TypeOK'
  <2>1. PICK n \in NextRef : hand' = [hand EXCEPT ![h].ref = n, ![h].pc = "post"]
    BY <1>18 DEF AllocateRepost
  <2>2. [hand[h] EXCEPT !.ref = n, !.pc = "post"] \in Tasks
    BY RefsInRange DEF Tasks, Points
  <2>3. hand' \in [Handlers -> Tasks]
    BY <2>1, <2>2
  <2> QED
    BY <1>18, <2>3 DEF AllocateRepost, invoiceVars
<1>19. ASSUME NEW h \in Handlers, ReadDuplicates(h) PROVE TypeOK'
  <2>1. PICK keep \in Entries \cup {0} :
          hand' = [hand EXCEPT ![h] = Task("dedupe", "none", keep, LiveEntries \ {keep})]
    BY <1>19 DEF ReadDuplicates, LiveEntries
  <2>2. Task("dedupe", "none", keep, LiveEntries \ {keep}) \in Tasks
    BY TaskIsTask DEF LiveEntries, Points
  <2>3. hand' \in [Handlers -> Tasks]
    BY <2>1, <2>2
  <2> QED
    BY <1>19, <2>3 DEF ReadDuplicates, invoiceVars
<1>20. ASSUME NEW h \in Handlers, ReverseDuplicates(h) PROVE TypeOK'
  <2>1. hand' \in [Handlers -> Tasks]
    BY <1>20, DoneMoves DEF ReverseDuplicates
  <2>2. hand[h].ref \in Entries \cup {0}
    BY DEF Tasks
  <2> QED
    BY <1>20, <2>1, <2>2 DEF ReverseDuplicates, Calmly
<1>21. ASSUME NEW h \in Handlers, Kill(h) PROVE TypeOK'
  <2>1. hand' \in [Handlers -> Tasks]
    BY <1>21, DoneMoves DEF Kill, Points
  <2> QED
    BY <1>21, <2>1 DEF Kill, invoiceVars, Calmly
<1>22. CASE UNCHANGED vars
  BY <1>22 DEF vars, invoiceVars
<1> QED
  BY <1>1, <1>2, <1>3, <1>4, <1>5, <1>6, <1>7, <1>8, <1>9, <1>10, <1>11, <1>12, <1>13,
     <1>14, <1>15, <1>16, <1>17, <1>18, <1>19, <1>20, <1>21, <1>22 DEF Next

\* Every variable keeps to its type, the versions and entries to their bounds.
THEOREM Typed == Spec => []TypeOK
BY InitTypes, StepKeepsTypes, PTL DEF Spec

-----------------------------------------------------------------------------
(* How a step moves the entries: one is posted where none was, or some that *)
(* exist are reversed.                                                     *)
Posts == \E n \in Entries, h \in Handlers :
  /\ hand[h].pc = "post" /\ n = hand[h].ref
  /\ entries[n] = "absent" /\ entries' = [entries EXCEPT ![n] = "live"]
Withdraws == \E S \in SUBSET Entries :
  /\ \A n \in S : entries[n] # "absent"
  /\ entries' = [n \in Entries |-> IF n \in S THEN "reversed" ELSE entries[n]]
EntriesMove == entries' = entries \/ Posts \/ Withdraws

(* How it moves a handler's ref and the entries it would reverse. *)
RefMoves(h) ==
  \/ hand'[h].pc = "dedupe" \/ hand'[h].ref \in {0, 1}
  \/ hand[h].pc # "dedupe" /\ hand'[h].ref = hand[h].ref
  \/ entries[1] = "reversed"
ExtraMoves(h) == hand'[h].extra \subseteq hand[h].extra \/ hand'[h].extra \subseteq LiveEntries
HandMoves(h) == RefMoves(h) /\ ExtraMoves(h)

LEMMA RefAfterFirst ==
  ASSUME NEW n \in NextRef, n # 1
  PROVE  entries[1] = "reversed"
BY DEF NextRef

LEMMA StepMovesEntries == TypeOK /\ ExtrasExist /\ [Next]_vars => EntriesMove
<1> SUFFICES ASSUME TypeOK, ExtrasExist, [Next]_vars PROVE EntriesMove
  OBVIOUS
<1> USE DEF EntriesMove
<1>1. ASSUME NEW h \in Handlers, PostEntry(h) PROVE EntriesMove
  <2>1. CASE UNCHANGED entries
    BY <2>1
  <2>2. CASE RefFree(hand[h].ref) /\ entries' = [entries EXCEPT ![hand[h].ref] = "live"]
    <3>1. CASE hand[h].ref \in Entries
      BY <1>1, <2>2, <3>1 DEF Posts, PostEntry, RefFree
    <3>2. CASE hand[h].ref \notin Entries
      BY <2>2, <3>2 DEF TypeOK
    <3> QED
      BY <3>1, <3>2
  <2> QED
    BY <1>1, <2>1, <2>2 DEF PostEntry
<1>2. ASSUME NEW h \in Handlers, ReverseEntry(h) PROVE EntriesMove
  <2>1. Newest \in SUBSET Entries /\ \A n \in Newest : entries[n] # "absent"
    BY DEF Newest, LiveEntries
  <2> QED
    BY <1>2, <2>1 DEF ReverseEntry, ReverseNewest, Withdraws
<1>3. ASSUME NEW h \in Handlers, ReverseDuplicates(h) PROVE EntriesMove
  <2>1. hand[h].extra \in SUBSET Entries
    BY DEF TypeOK, Tasks
  <2> QED
    BY <1>3, <2>1 DEF ReverseDuplicates, Withdraws, ExtrasExist
<1>4. CASE UNCHANGED entries
  BY <1>4
<1> QED
  BY <1>1, <1>2, <1>3, <1>4
     DEF Next, vars, ReadPut, BuildEntry, ClaimAndWrite, ClaimLost, MarkPosted, MarkUnposted,
         PostCredit, ReadDelete, VoidInvoice, ReadSend, IssueSent, ReadPayment, RecordPayment,
         ReversePayment, ReadOrphan, AllocateRepost, ReadDuplicates, Kill

LEMMA StepMovesHands ==
  ASSUME TypeOK, [Next]_vars, NEW g \in Handlers
  PROVE  HandMoves(g)
<1> USE DEF HandMoves, RefMoves, ExtraMoves
<1>1. hand \in [Handlers -> Tasks]
  BY DEF TypeOK
<1>2. ASSUME hand'[g] = hand[g] PROVE HandMoves(g)
  BY <1>2
<1>3. ASSUME NEW h \in Handlers, Done(h) PROVE HandMoves(g)
  <2>1. hand'[h].ref = 0 /\ hand'[h].extra = {}
    BY <1>1, <1>3, DoneMoves DEF Idle
  <2> QED
    BY <1>1, <1>2, <1>3, <2>1, DoneMoves
<1>4. ASSUME NEW h \in Handlers, NEW p \in Points, hand[h].pc # "dedupe", Goto(h, p)
      PROVE  HandMoves(g)
  BY <1>1, <1>2, <1>4, GotoMoves
<1>5. ASSUME NEW h \in Handlers, NEW p \in Points, NEW want \in Statuses \cup {"none"},
             Begin(h, p, want)
      PROVE  HandMoves(g)
  BY <1>2, <1>5, BeginMoves
<1>6. ASSUME NEW h \in Handlers, BuildEntry(h) \/ AllocateRepost(h) PROVE HandMoves(g)
  <2>1. PICK n \in NextRef \cup {0}, p \in {"claim", "post"} :
          hand' = [hand EXCEPT ![h].ref = n, ![h].pc = p]
    BY <1>6 DEF BuildEntry, AllocateRepost
  <2>2. CASE g = h
    <3>1. hand'[h] = [hand[h] EXCEPT !.ref = n, !.pc = p] /\ hand[h] \in Tasks
      BY <1>1, <2>1
    <3>2. hand'[h].ref = n /\ hand'[h].extra = hand[h].extra
      BY <3>1 DEF Tasks
    <3> QED
      BY <2>2, <3>2, RefAfterFirst
  <2> QED
    BY <1>1, <1>2, <2>1, <2>2
<1>7. ASSUME NEW h \in Handlers, ReadDuplicates(h) PROVE HandMoves(g)
  <2>1. PICK keep \in Entries \cup {0} :
          hand' = [hand EXCEPT ![h] = Task("dedupe", "none", keep, LiveEntries \ {keep})]
    BY <1>7 DEF ReadDuplicates, LiveEntries
  <2> QED
    BY <1>1, <1>2, <2>1 DEF Task
<1>8. ASSUME NEW h \in Handlers, ClaimAndWrite(h) PROVE HandMoves(g)
  <2>1. AfterClaim(h) \in Points
    BY DEF AfterClaim, Points
  <2> QED
    BY <1>3, <1>4, <1>8, <2>1 DEF ClaimAndWrite
<1>9. ASSUME NEW h \in Handlers, PostEntry(h) \/ VoidInvoice(h) PROVE HandMoves(g)
  <2>1. hand[h].pc # "dedupe" /\ (Done(h) \/ \E p \in {"mark", "unmark", "reverse"} : Goto(h, p))
    BY <1>9 DEF PostEntry, VoidInvoice
  <2> QED
    BY <1>3, <1>4, <2>1 DEF Points
<1>10. ASSUME NEW h \in Handlers, NEW want \in Statuses \cup {"none"}, NEW reset \in BOOLEAN,
              ReadPut(h, want, reset)
       PROVE  HandMoves(g)
  <2>1. PICK p \in {"build", "claim"} : Begin(h, p, want)
    BY <1>10 DEF ReadPut
  <2> QED
    BY <1>5, <2>1 DEF Points
<1>11. ASSUME NEW h \in Handlers,
              ReadDelete(h) \/ ReadSend(h) \/ ReadPayment(h) \/ ReadOrphan(h)
       PROVE  HandMoves(g)
  <2>1. PICK p \in {"void", "issue", "pay", "repost"}, want \in Statuses \cup {"none"} :
          Begin(h, p, want)
    BY <1>11 DEF ReadDelete, ReadSend, ReadPayment, ReadOrphan, Statuses
  <2> QED
    BY <1>5, <2>1 DEF Points
<1>12. CASE hand' = hand
  BY <1>2, <1>12
<1> QED
  BY <1>3, <1>6, <1>7, <1>8, <1>9, <1>10, <1>11, <1>12
     DEF Next, vars, ClaimLost, MarkPosted, MarkUnposted, ReverseEntry, PostCredit, IssueSent,
         RecordPayment, ReversePayment, ReverseDuplicates, Kill

-----------------------------------------------------------------------------
LEMMA StepKeepsIInv == IInv /\ [Next]_vars => IInv'
<1> SUFFICES ASSUME IInv, [Next]_vars PROVE IInv'
  OBVIOUS
<1> USE DEF IInv
<1>1. TypeOK'
  BY StepKeepsTypes
<1>2. EntriesMove
  BY StepMovesEntries
<1>3. \A h \in Handlers : HandMoves(h)
  BY StepMovesHands
<1>4. entries \in [Entries -> {"absent", "live", "reversed"}]
  BY DEF TypeOK
<1>5. /\ entries[1] = "reversed" => entries'[1] = "reversed"
      /\ \A n \in Entries : entries[n] # "absent" => entries'[n] # "absent"
  BY <1>2, <1>4, FirstIsEntry DEF EntriesMove, Posts, Withdraws
<1>6. SiblingsFollow'
  <2> SUFFICES ASSUME NEW n \in Entries \ {1}, entries'[n] # "absent"
               PROVE  entries'[1] = "reversed"
    BY DEF SiblingsFollow
  <2>1. CASE entries[n] # "absent"
    BY <1>5, <2>1 DEF SiblingsFollow
  <2>2. CASE entries[n] = "absent"
    <3>1. PICK h \in Handlers : hand[h].pc = "post" /\ n = hand[h].ref
      BY <1>2, <1>4, <2>2 DEF EntriesMove, Posts, Withdraws
    <3>2. n # 0
      BY PostingAssumption DEF Entries
    <3> QED
      BY <1>5, <3>1, <3>2 DEF RefsFollow
  <2> QED
    BY <2>1, <2>2
<1>7. RefsFollow'
  BY <1>3, <1>5 DEF RefsFollow, HandMoves, RefMoves
<1>8. ExtrasExist'
  <2> SUFFICES ASSUME NEW h \in Handlers, NEW n \in hand'[h].extra PROVE entries'[n] # "absent"
    BY DEF ExtrasExist
  <2>1. n \in Entries
    BY <1>1 DEF TypeOK, Tasks
  <2>2. entries[n] # "absent"
    BY <1>3 DEF HandMoves, ExtraMoves, ExtrasExist, LiveEntries
  <2> QED
    BY <1>5, <2>1, <2>2
<1> QED
  BY <1>1, <1>6, <1>7, <1>8

LEMMA InitHolds == Init => IInv
BY InitTypes DEF Init, IInv, SiblingsFollow, RefsFollow, ExtrasExist, Idle, Entries

LEMMA FirstAlone == IInv => FirstEntryStandsAlone
BY FirstIsEntry DEF IInv, SiblingsFollow, FirstEntryStandsAlone, LiveEntries

LEMMA OnlyAge == IInv /\ [Next]_vars =>
  \A n \in Entries :
    /\ entries[n] = "reversed" => entries'[n] = "reversed"
    /\ entries[n] = "live" => entries'[n] # "absent"
<1> SUFFICES ASSUME IInv, [Next]_vars, NEW n \in Entries
             PROVE  /\ entries[n] = "reversed" => entries'[n] = "reversed"
                    /\ entries[n] = "live" => entries'[n] # "absent"
  OBVIOUS
<1>1. EntriesMove
  BY StepMovesEntries DEF IInv
<1> QED
  BY <1>1 DEF IInv, TypeOK, EntriesMove, Posts, Withdraws

\* While an invoice's first ledger entry stands it is the only one: no race of
\* confirmations, reposts and repairs posts the invoice twice beside it.
THEOREM FirstStandsAlone == Spec => []FirstEntryStandsAlone
<1>1. Spec => []IInv
  BY InitHolds, StepKeepsIInv, PTL DEF Spec
<1> QED
  BY <1>1, FirstAlone, PTL

\* An entry goes from absent to live to reversed and never back, whoever posts,
\* reverses or repairs.
THEOREM EntriesAge == Spec => EntriesOnlyAge
<1>1. Spec => []IInv
  BY InitHolds, StepKeepsIInv, PTL DEF Spec
<1>2. IInv /\ [Next]_vars =>
        [\A n \in Entries :
           /\ entries[n] = "reversed" => entries'[n] = "reversed"
           /\ entries[n] = "live" => entries'[n] # "absent"]_entries
  BY OnlyAge
<1> QED
  BY <1>1, <1>2, PTL DEF Spec, EntriesOnlyAge


-----------------------------------------------------------------------------
(* The books.  As long as nothing unguarded has interfered (calm), the      *)
(* entries and the payment follow the status but for what the requests that *)
(* are not done still owe.                                                 *)

Doing(points) == \E h \in Handlers : hand[h].pc \in points

AtMostOneLive == \A m, n \in LiveEntries : m = n

DraftBooks ==
  status = "draft" =>
    postingStatus = "unposted" /\ (LiveEntries = {} \/ Doing({"reverse"}))

CancelledBooks ==
  status = "cancelled" => LiveEntries = {} \/ credited \/ Doing({"reverse", "credit"})

PostedBooks ==
  status = "posted" =>
    \/ Doing({"mark"})
    \/ LiveEntries = IF postingStatus = "posted" THEN {postedEntry} ELSE {}

PaidBooks ==
  paid => \/ status = "posted"
          \/ status = "cancelled" /\ credited
          \/ status = "cancelled" /\ Doing({"credit"})

(* What is so while a request has a duty left, and who has it to itself.    *)
Duty(h) ==
  /\ hand[h].pc = "post" =>
       /\ status = "posted" /\ LiveEntries = {} /\ hand[h].ref \in Entries
       /\ IF Confirms(h) THEN postingStatus = "posting" /\ Apart(h)
                         ELSE postingStatus = "unposted"
  /\ hand[h].pc = "repost" =>
       status = "posted" /\ LiveEntries = {} /\ postingStatus = "unposted" /\ ~ Confirms(h)
  /\ hand[h].pc = "mark" =>
       status = "posted" /\ LiveEntries = {hand[h].ref} /\ postingStatus # "posted" /\ Apart(h)
  /\ hand[h].pc = "unmark" =>
       status = "posted" /\ LiveEntries = {} /\ postingStatus = "posting" /\ Apart(h)
  /\ hand[h].pc = "reverse" => status # "posted" /\ ~ paid
  /\ hand[h].pc \in {"credit", "dedupe"} => status = "cancelled"

(* What a request read is still so when its claim can succeed.              *)
Copy(h) ==
  /\ hand[h].version <= lockVersion
  /\ hand[h].pc \in {"build", "claim"} /\ hand[h].version = lockVersion =>
       hand[h].status = status /\ (paid => hand[h].paid)
  /\ hand[h].pc = "claim" /\ hand[h].status = "posted" /\ hand[h].want = "draft" => ~ hand[h].paid
  /\ hand[h].pc = "build" => hand[h].want = "posted"
  /\ hand[h].pc = "void" => ~ hand[h].paid
  /\ hand[h].pc = "issue" => hand[h].status = "draft"
  /\ hand[h].pc = "pay" => hand[h].status = "posted"

Books == AtMostOneLive /\ DraftBooks /\ CancelledBooks /\ PostedBooks /\ PaidBooks
Works == \A h \in Handlers : Duty(h) /\ Copy(h)
CalmBooks == Books /\ Works

BooksInv == TypeOK /\ (calm => CalmBooks)

(* These have the invoice to themselves. *)
NeedsApart(g) == hand[g].pc \in {"mark", "unmark"} \/ (hand[g].pc = "post" /\ Confirms(g))

-----------------------------------------------------------------------------
(* A request goes on and the invoice stays as it is. *)

SameInvoice == UNCHANGED <<status, lockVersion, postingStatus, postedEntry, paid, entries, credited>>

OnlyMoves(h) == \A g \in Handlers \ {h} : hand'[g] = hand[g]

LEMMA OthersSame ==
  ASSUME NEW h \in Handlers, OnlyMoves(h), NEW g \in Handlers, g # h
  PROVE  /\ hand'[g] = hand[g] /\ (Owing(g)' <=> Owing(g)) /\ (Confirms(g)' <=> Confirms(g))
BY DEF OnlyMoves, Owing, Confirms

LEMMA LiveSame == entries' = entries => LiveEntries' = LiveEntries
BY DEF LiveEntries

LEMMA GoesOn ==
  ASSUME CalmBooks, SameInvoice, NEW h \in Handlers, OnlyMoves(h),
         hand[h].pc \notin {"mark", "reverse", "credit"},
         Owing(h)' => Owing(h) \/ \A g \in Handlers \ {h} : ~ NeedsApart(g),
         Duty(h)', Copy(h)'
  PROVE  CalmBooks'
<1>1. LiveEntries' = LiveEntries
  BY LiveSame DEF SameInvoice
<1>2. \A S \in {{"mark"}, {"reverse"}, {"credit"}, {"reverse", "credit"}} : Doing(S) => Doing(S)'
  BY OthersSame DEF Doing
<1>3. Books'
  BY <1>1, <1>2
  DEF CalmBooks, Books, SameInvoice, AtMostOneLive, DraftBooks, CancelledBooks, PostedBooks, PaidBooks
<1>4. ASSUME NEW g \in Handlers, g # h PROVE Duty(g)' /\ Copy(g)'
  <2>1. hand'[g] = hand[g] /\ (Owing(g)' <=> Owing(g)) /\ (Confirms(g)' <=> Confirms(g))
    BY <1>4, OthersSame
  <2>2. Copy(g)'
    BY <2>1 DEF CalmBooks, Works, Copy, SameInvoice
  <2>3. ASSUME NeedsApart(g), Apart(g) PROVE Apart(g)'
    <3>1. ~ Owing(h)'
      BY <1>4, <2>3 DEF Apart
    <3>2. \A f \in Handlers \ {g} : f # h => ~ Owing(f)'
      BY <2>3, OthersSame DEF Apart
    <3>3. QED
      BY <3>1, <3>2 DEF Apart
  <2>4. Duty(g)'
    BY <1>1, <2>1, <2>3 DEF CalmBooks, Works, Duty, NeedsApart, SameInvoice
  <2>5. QED
    BY <2>2, <2>4
<1>5. QED
  BY <1>3, <1>4 DEF CalmBooks, Works


LEMMA BeginsWith ==
  ASSUME TypeOK, NEW h \in Handlers, NEW p, NEW want, Begin(h, p, want)
  PROVE  /\ OnlyMoves(h) /\ hand'[h].pc = p /\ hand'[h].want = want /\ hand'[h].status = status
         /\ hand'[h].version = lockVersion /\ hand'[h].paid = paid
BY DEF TypeOK, Begin, Task, OnlyMoves

LEMMA GoesTo ==
  ASSUME TypeOK, NEW h \in Handlers, NEW p, Goto(h, p)
  PROVE  /\ OnlyMoves(h) /\ hand'[h].pc = p /\ hand'[h].want = hand[h].want
         /\ hand'[h].status = hand[h].status /\ hand'[h].version = hand[h].version
         /\ hand'[h].paid = hand[h].paid /\ hand'[h].ref = hand[h].ref
BY DEF TypeOK, Goto, Tasks, OnlyMoves

GetsRef(h, n, p) == hand' = [hand EXCEPT ![h].ref = n, ![h].pc = p]

LEMMA GoesToUnder ==
  ASSUME TypeOK, NEW h \in Handlers, NEW n, NEW p, GetsRef(h, n, p)
  PROVE  /\ OnlyMoves(h) /\ hand'[h].pc = p /\ hand'[h].want = hand[h].want
         /\ hand'[h].status = hand[h].status /\ hand'[h].version = hand[h].version
         /\ hand'[h].paid = hand[h].paid /\ hand'[h].ref = n
<1>1. hand'[h] = [hand[h] EXCEPT !.ref = n, !.pc = p] /\ OnlyMoves(h)
  BY DEF TypeOK, OnlyMoves, GetsRef
<1>2. hand[h] \in Tasks
  BY DEF TypeOK
<1> QED
  BY <1>1, <1>2 DEF Tasks

LEMMA IsDone ==
  ASSUME TypeOK, NEW h \in Handlers, Done(h)
  PROVE  /\ OnlyMoves(h) /\ hand'[h].pc = "idle" /\ hand'[h].version = 0
         /\ ~ Owing(h)' /\ Duty(h)' /\ (0 <= lockVersion' => Copy(h)')
<1>1. hand'[h] = Idle /\ OnlyMoves(h)
  BY DEF TypeOK, Done, OnlyMoves
<1> QED
  BY <1>1 DEF Idle, Owing, Duty, Copy

LEMMA VersionNat == TypeOK => lockVersion \in Nat /\ 0 <= lockVersion
BY PostingAssumption DEF TypeOK

(* Requests that read the invoice. *)

LEMMA ReadsCalm ==
  ASSUME TypeOK, CalmBooks, SameInvoice, NEW h \in Handlers, hand[h] = Idle,
         NEW p \in {"build", "claim", "void", "issue", "pay"}, NEW want, Begin(h, p, want),
         p = "build" => want = "posted",
         p = "claim" /\ status = "posted" /\ want = "draft" => ~ paid,
         p = "void" => ~ paid, p = "issue" => status = "draft", p = "pay" => status = "posted"
  PROVE  CalmBooks'
<1>1. /\ OnlyMoves(h) /\ hand'[h].pc = p /\ hand'[h].want = want /\ hand'[h].status = status
      /\ hand'[h].version = lockVersion /\ hand'[h].paid = paid
  BY BeginsWith
<1>2. hand[h].pc = "idle" /\ ~ Owing(h)'
  BY <1>1 DEF Idle, Owing
<1>3. Duty(h)'
  BY <1>1 DEF Duty
<1>4. Copy(h)'
  BY <1>1, VersionNat DEF Copy, SameInvoice
<1> QED
  BY <1>1, <1>2, <1>3, <1>4, GoesOn

LEMMA ReadingCalm ==
  ASSUME TypeOK, CalmBooks, NEW h \in Handlers,
         \/ \E want \in Statuses \cup {"none"}, reset \in BOOLEAN : ReadPut(h, want, reset)
         \/ ReadDelete(h) \/ ReadSend(h) \/ ReadPayment(h)
  PROVE  CalmBooks'
<1>1. ASSUME NEW want \in Statuses \cup {"none"}, NEW reset \in BOOLEAN, ReadPut(h, want, reset)
      PROVE  CalmBooks'
  <2>1. SameInvoice /\ hand[h] = Idle
    BY <1>1 DEF ReadPut, SameInvoice, invoiceVars
  <2>2. CASE status = "draft" /\ want = "posted"
    <3>1. Begin(h, "build", want)
      BY <1>1, <2>2 DEF ReadPut
    <3> QED
      BY <2>1, <2>2, <3>1, ReadsCalm
  <2>3. CASE ~ (status = "draft" /\ want = "posted")
    <3>1. Begin(h, "claim", want) /\ (status = "posted" /\ want = "draft" => ~ paid)
      BY <1>1, <2>3 DEF ReadPut, Reversible
    <3> QED
      BY <2>1, <3>1, ReadsCalm
  <2> QED
    BY <2>2, <2>3
<1>2. CASE ReadDelete(h)
  <2>1. SameInvoice /\ hand[h] = Idle /\ Begin(h, "void", "cancelled") /\ ~ paid
    BY <1>2 DEF ReadDelete, SameInvoice, invoiceVars, Voidable
  <2> QED
    BY <2>1, ReadsCalm
<1>3. CASE ReadSend(h)
  <2>1. SameInvoice /\ hand[h] = Idle /\ Begin(h, "issue", "posted") /\ status = "draft"
    BY <1>3 DEF ReadSend, SameInvoice, invoiceVars
  <2> QED
    BY <2>1, ReadsCalm
<1>4. CASE ReadPayment(h)
  <2>1. SameInvoice /\ hand[h] = Idle /\ Begin(h, "pay", "none") /\ status = "posted"
    BY <1>4 DEF ReadPayment, SameInvoice, invoiceVars
  <2> QED
    BY <2>1, ReadsCalm
<1> QED
  BY <1>1, <1>2, <1>3, <1>4

(* An orphan has no entry and is not being posted; duplicates there are     *)
(* none, so that only a cancelled invoice's entry is up for repair.         *)
LEMMA RepairsCalm ==
  ASSUME TypeOK, CalmBooks, NEW h \in Handlers, ReadOrphan(h) \/ ReadDuplicates(h)
  PROVE  CalmBooks'
<1>1. CASE ReadOrphan(h)
  <2>1. SameInvoice /\ hand[h] = Idle /\ Begin(h, "repost", "posted")
        /\ status = "posted" /\ postingStatus = "unposted" /\ LiveEntries = {}
    BY <1>1 DEF ReadOrphan, Orphan, SameInvoice, invoiceVars
  <2>2. /\ OnlyMoves(h) /\ hand'[h].pc = "repost" /\ hand'[h].want = "posted"
        /\ hand'[h].status = status /\ hand'[h].version = lockVersion
    BY <2>1, BeginsWith
  <2>3. \A g \in Handlers \ {h} : ~ NeedsApart(g)
    BY <2>1 DEF NeedsApart, CalmBooks, Works, Duty
  <2>4. Duty(h)' /\ Copy(h)'
    BY <2>1, <2>2, LiveSame, VersionNat DEF Duty, Copy, SameInvoice, Confirms
  <2> QED
    BY <2>1, <2>2, <2>3, <2>4, GoesOn DEF Idle
<1>2. CASE ReadDuplicates(h)
  <2>1. SameInvoice /\ hand[h] = Idle /\ LiveEntries # {}
        /\ (status = "cancelled" \/ Cardinality(LiveEntries) > 1)
    BY <1>2 DEF ReadDuplicates, SameInvoice, invoiceVars
  <2>2. status = "cancelled"
    <3>1. PICK n \in LiveEntries : TRUE
      BY <2>1
    <3>2. LiveEntries = {n}
      BY <3>1 DEF CalmBooks, Books, AtMostOneLive
    <3>3. Cardinality(LiveEntries) = 1
      BY <3>2, FS_Singleton
    <3> QED
      BY <2>1, <3>3
  <2>3. /\ OnlyMoves(h) /\ hand'[h].pc = "dedupe" /\ hand'[h].version = lockVersion
    BY <1>2 DEF ReadDuplicates, TypeOK, Task, OnlyMoves
  <2>4. \A g \in Handlers \ {h} : ~ NeedsApart(g)
    BY <2>2 DEF NeedsApart, CalmBooks, Works, Duty
  <2>5. Duty(h)' /\ Copy(h)'
    BY <2>1, <2>2, <2>3, VersionNat DEF Duty, Copy, SameInvoice
  <2> QED
    BY <2>1, <2>3, <2>4, <2>5, GoesOn DEF Idle
<1> QED
  BY <1>1, <1>2

(* A request builds its entry, gets its ref, loses its claim, finds nothing *)
(* left to pay or is killed owing nothing.                                  *)
LEMMA TurnsCalm ==
  ASSUME TypeOK, CalmBooks, NEW h \in Handlers, SameInvoice,
         \/ BuildEntry(h) \/ AllocateRepost(h) \/ ClaimLost(h)
         \/ RecordPayment(h)
         \/ (Kill(h) /\ ~ Owing(h))
  PROVE  CalmBooks'
<1>1. CASE Done(h) /\ hand[h].pc \notin {"mark", "reverse", "credit"}
  <2>1. OnlyMoves(h) /\ ~ Owing(h)' /\ Duty(h)' /\ Copy(h)'
    BY <1>1, IsDone, VersionNat DEF SameInvoice
  <2> QED
    BY <1>1, <2>1, GoesOn
<1>2. CASE BuildEntry(h)
  <2>1. PICK n \in NextRef \cup {0} : GetsRef(h, n, "claim")
    BY <1>2 DEF BuildEntry, GetsRef
  <2>2. /\ OnlyMoves(h) /\ hand'[h].pc = "claim" /\ hand'[h].want = hand[h].want
        /\ hand'[h].status = hand[h].status /\ hand'[h].version = hand[h].version
        /\ hand'[h].paid = hand[h].paid
    BY <2>1, GoesToUnder
  <2>3. hand[h].pc = "build" /\ Copy(h)
    BY <1>2 DEF BuildEntry, CalmBooks, Works
  <2>4. Duty(h)' /\ Copy(h)' /\ ~ Owing(h)'
    BY <2>2, <2>3 DEF Duty, Copy, SameInvoice, Owing
  <2> QED
    BY <2>2, <2>3, <2>4, GoesOn
<1>3. CASE AllocateRepost(h)
  <2>1. PICK n \in NextRef : GetsRef(h, n, "post")
    BY <1>3 DEF AllocateRepost, GetsRef
  <2>2. /\ OnlyMoves(h) /\ hand'[h].pc = "post" /\ hand'[h].want = hand[h].want
        /\ hand'[h].status = hand[h].status /\ hand'[h].version = hand[h].version
        /\ hand'[h].paid = hand[h].paid /\ hand'[h].ref = n
    BY <2>1, GoesToUnder
  <2>3. hand[h].pc = "repost" /\ Copy(h) /\ Duty(h) /\ n \in Entries
    BY <1>3, <2>1, RefsInRange DEF AllocateRepost, CalmBooks, Works
  <2>4. Duty(h)' /\ Copy(h)' /\ Owing(h)
    BY <2>2, <2>3, LiveSame DEF Duty, Copy, SameInvoice, Owing, Confirms
  <2> QED
    BY <2>2, <2>3, <2>4, GoesOn
<1>4. CASE ClaimLost(h)
  BY <1>1, <1>4 DEF ClaimLost
<1>5. CASE RecordPayment(h)
  BY <1>1, <1>5 DEF RecordPayment
<1>6. CASE Kill(h) /\ ~ Owing(h)
  BY <1>1, <1>6 DEF Kill, Owing
<1> QED
  BY <1>2, <1>3, <1>4, <1>5, <1>6


-----------------------------------------------------------------------------
(* A request with nothing owed beside it changes the invoice. *)

(* The books when nobody owes them anything. *)
PlainBooks ==
  /\ AtMostOneLive
  /\ status = "draft" => postingStatus = "unposted" /\ LiveEntries = {}
  /\ status = "cancelled" => LiveEntries = {} \/ credited
  /\ status = "posted" => LiveEntries = IF postingStatus = "posted" THEN {postedEntry} ELSE {}
  /\ paid => status = "posted" \/ (status = "cancelled" /\ credited)

LEMMA NobodyOwes ==
  ASSUME CalmBooks, NEW h \in Handlers, Apart(h), hand[h].pc \notin {"mark", "reverse", "credit"}
  PROVE  PlainBooks
<1>1. ~ Doing({"mark"}) /\ ~ Doing({"reverse"}) /\ ~ Doing({"credit"}) /\ ~ Doing({"reverse", "credit"})
  BY DEF Doing, Apart, Owing
<1> QED
  BY <1>1
  DEF CalmBooks, Books, PlainBooks, DraftBooks, CancelledBooks, PostedBooks, PaidBooks

LEMMA PlainIsBooks == PlainBooks' => Books'
BY DEF PlainBooks, Books, DraftBooks, CancelledBooks, PostedBooks, PaidBooks

LEMMA Settles ==
  ASSUME NEW h \in Handlers, OnlyMoves(h), Apart(h), Books', Duty(h)',
         \A g \in Handlers : Copy(g)'
  PROVE  CalmBooks'
<1>1. \A g \in Handlers : g # h => Duty(g)'
  BY DEF OnlyMoves, Apart, Owing, Duty
<1> QED
  BY <1>1 DEF CalmBooks, Works

SameToClaims == status' = status /\ lockVersion' = lockVersion /\ paid' = paid

LEMMA CopiesStay ==
  ASSUME CalmBooks, SameToClaims, NEW h \in Handlers, OnlyMoves(h), Copy(h)'
  PROVE  \A g \in Handlers : Copy(g)'
BY DEF CalmBooks, Works, Copy, SameToClaims, OnlyMoves

(* Alone, a request finds the others idle. *)
LEMMA AloneIsApart ==
  ASSUME TypeOK, NEW h \in Handlers, OnlyMoves(h), Alone(h), lockVersion' = lockVersion
  PROVE  Apart(h) /\ \A g \in Handlers \ {h} : Copy(g)'
BY VersionNat DEF Alone, OnlyMoves, Apart, Owing, Idle, Copy

LEMMA PostCalm ==
  ASSUME TypeOK, CalmBooks, NEW h \in Handlers, PostEntry(h), calm'
  PROVE  CalmBooks'
<1>1. /\ UNCHANGED <<status, lockVersion, postingStatus, postedEntry, paid, credited>>
      /\ hand[h].pc = "post" /\ Duty(h) /\ Copy(h) /\ SameToClaims
  BY DEF PostEntry, invoiceVars, CalmBooks, Works, SameToClaims
<1>2. CASE entries' = [entries EXCEPT ![hand[h].ref] = "live"] /\ Goto(h, "mark") /\ Apart(h)
  <2>1. LiveEntries' = {hand[h].ref}
    BY <1>1, <1>2 DEF LiveEntries, Duty, TypeOK
  <2>2. /\ OnlyMoves(h) /\ hand'[h].pc = "mark" /\ hand'[h].ref = hand[h].ref
        /\ hand'[h].version = hand[h].version
    BY <1>2, GoesTo
  <2>3. Copy(h)'
    BY <1>1, <2>2 DEF Copy
  <2>4. Duty(h)'
    <3>1. Apart(h)'
      BY <1>2, <2>2 DEF Apart, OnlyMoves, Owing
    <3>2. status = "posted" /\ postingStatus # "posted"
      BY <1>1 DEF Duty
    <3> QED
      BY <1>1, <2>1, <2>2, <3>1, <3>2 DEF Duty
  <2>5. Books'
    <3>1. status = "posted" /\ Doing({"mark"})'
      BY <1>1, <2>2 DEF Duty, Doing
    <3>2. AtMostOneLive'
      BY <2>1 DEF AtMostOneLive
    <3> QED
      BY <1>1, <3>1, <3>2
      DEF Books, DraftBooks, CancelledBooks, PostedBooks, PaidBooks
  <2> QED
    BY <1>1, <1>2, <2>2, <2>3, <2>4, <2>5, CopiesStay, Settles
<1>3. CASE entries' = entries /\ Confirms(h) /\ Goto(h, "unmark")
  <2>1. SameInvoice
    BY <1>1, <1>3 DEF SameInvoice
  <2>2. OnlyMoves(h) /\ hand'[h].pc = "unmark" /\ hand'[h].version = hand[h].version
    BY <1>3, GoesTo
  <2>3. Apart(h)'
    BY <1>1, <1>3, <2>2 DEF Duty, Apart, OnlyMoves, Owing
  <2>4. Duty(h)' /\ Copy(h)' /\ Owing(h)
    BY <1>1, <1>3, <2>2, <2>3, LiveSame DEF Duty, Copy, Owing
  <2> QED
    BY <1>1, <2>1, <2>2, <2>4, GoesOn
<1>4. CASE entries' = entries /\ Done(h)
  <2>1. SameInvoice
    BY <1>1, <1>4 DEF SameInvoice
  <2>2. OnlyMoves(h) /\ ~ Owing(h)' /\ Duty(h)' /\ Copy(h)'
    BY <1>1, <1>4, IsDone, VersionNat
  <2> QED
    BY <1>1, <2>1, <2>2, GoesOn
<1> QED
  BY <1>2, <1>3, <1>4 DEF PostEntry, Calmly

LEMMA MarksCalm ==
  ASSUME TypeOK, CalmBooks, NEW h \in Handlers, MarkPosted(h) \/ MarkUnposted(h)
  PROVE  CalmBooks'
<1>1. /\ UNCHANGED <<status, lockVersion, paid, entries, credited>> /\ SameToClaims
      /\ Done(h) /\ Duty(h) /\ LiveEntries' = LiveEntries
  BY LiveSame DEF MarkPosted, MarkUnposted, CalmBooks, Works, SameToClaims
<1>2. /\ status = "posted" /\ Apart(h)
      /\ \/ LiveEntries = {hand[h].ref} /\ postingStatus' = "posted" /\ postedEntry' = hand[h].ref
         \/ LiveEntries = {} /\ postingStatus' = "unposted"
  BY <1>1 DEF MarkPosted, MarkUnposted, Duty
<1>3. OnlyMoves(h) /\ Duty(h)' /\ Copy(h)'
  BY <1>1, IsDone, VersionNat
<1>4. PlainBooks'
  BY <1>1, <1>2 DEF PlainBooks, AtMostOneLive
<1> QED
  BY <1>1, <1>2, <1>3, <1>4, PlainIsBooks, CopiesStay, Settles

LEMMA ReversesCalm ==
  ASSUME TypeOK, CalmBooks, NEW h \in Handlers, ReverseEntry(h), calm'
  PROVE  CalmBooks'
<1>1. /\ UNCHANGED <<status, lockVersion, postingStatus, postedEntry, paid, credited>>
      /\ SameToClaims /\ entries' = ReverseNewest /\ Apart(h) /\ Done(h)
      /\ hand[h].pc = "reverse" /\ Duty(h)
  BY DEF ReverseEntry, invoiceVars, Calmly, CalmBooks, Works, SameToClaims
<1>2. LiveEntries' = {}
  <2>1. Newest = LiveEntries
    <3>1. \A m \in LiveEntries : m <= m
      BY DEF LiveEntries, Entries
    <3> QED
      BY <3>1 DEF Newest, CalmBooks, Books, AtMostOneLive
  <2> QED
    BY <1>1, <2>1 DEF ReverseNewest, LiveEntries
<1>3. OnlyMoves(h) /\ Duty(h)' /\ Copy(h)'
  BY <1>1, IsDone, VersionNat
<1>4. PlainBooks'
  <2>1. status # "posted" /\ ~ paid
    BY <1>1 DEF Duty
  <2>2. status = "draft" => postingStatus = "unposted"
    BY DEF CalmBooks, Books, DraftBooks
  <2> QED
    BY <1>1, <1>2, <2>1, <2>2 DEF PlainBooks, AtMostOneLive
<1> QED
  BY <1>1, <1>3, <1>4, PlainIsBooks, CopiesStay, Settles

LEMMA CreditsCalm ==
  ASSUME TypeOK, CalmBooks, NEW h \in Handlers, PostCredit(h), calm'
  PROVE  CalmBooks'
<1>1. /\ UNCHANGED <<status, lockVersion, postingStatus, postedEntry, paid, entries>>
      /\ SameToClaims /\ credited' = TRUE /\ Done(h) /\ LiveEntries' = LiveEntries
      /\ status = "cancelled"
  BY LiveSame DEF PostCredit, invoiceVars, Calmly, CalmBooks, Works, Duty, SameToClaims
<1>2. OnlyMoves(h) /\ Duty(h)' /\ Copy(h)' /\ ~ Owing(h)'
  BY <1>1, IsDone, VersionNat
<1>3. Books'
  BY <1>1
  DEF CalmBooks, Books, AtMostOneLive, DraftBooks, CancelledBooks, PostedBooks, PaidBooks
<1>4. \A g \in Handlers : Copy(g)'
  BY <1>1, <1>2, CopiesStay
<1>5. ASSUME NEW g \in Handlers, g # h PROVE Duty(g)'
  <2>1. Duty(g) /\ hand'[g] = hand[g]
    BY <1>2, <1>5 DEF CalmBooks, Works, OnlyMoves
  <2> QED
    BY <1>1, <2>1 DEF Duty
<1> QED
  BY <1>2, <1>3, <1>4, <1>5 DEF CalmBooks, Works

LEMMA DuplicatesCalm ==
  ASSUME TypeOK, CalmBooks, NEW h \in Handlers, ReverseDuplicates(h), calm'
  PROVE  CalmBooks'
<1>1. /\ UNCHANGED <<status, lockVersion, postingStatus, paid, credited>> /\ SameToClaims
      /\ Apart(h) /\ Done(h) /\ status = "cancelled" /\ hand[h].pc = "dedupe"
      /\ LiveEntries' \subseteq LiveEntries
  BY DEF ReverseDuplicates, Calmly, CalmBooks, Works, Duty, SameToClaims, LiveEntries
<1>2. OnlyMoves(h) /\ Duty(h)' /\ Copy(h)'
  BY <1>1, IsDone, VersionNat
<1>3. PlainBooks
  BY <1>1, NobodyOwes
<1>4. PlainBooks'
  BY <1>1, <1>3 DEF PlainBooks, AtMostOneLive
<1> QED
  BY <1>1, <1>2, <1>4, PlainIsBooks, CopiesStay, Settles


(* A claim that succeeds writes over what it read. *)
LEMMA ClaimCalm ==
  ASSUME TypeOK, CalmBooks, NEW h \in Handlers, ClaimAndWrite(h), calm'
  PROVE  CalmBooks'
<1>1. /\ hand[h].pc = "claim" /\ hand[h].version = lockVersion /\ Apart(h)
      /\ status' = Written(h) /\ lockVersion' = lockVersion + 1
      /\ status = "cancelled" => Written(h) = "cancelled"
      /\ UNCHANGED <<paid, entries, credited>> /\ LiveEntries' = LiveEntries
      /\ hand[h] \in Tasks /\ status \in Statuses /\ paid \in BOOLEAN
  BY LiveSame DEF ClaimAndWrite, Claims, Calmly, TypeOK
<1>2. hand[h].status = status /\ (paid => hand[h].paid)
      /\ (status = "posted" /\ hand[h].want = "draft" => ~ hand[h].paid)
  BY <1>1 DEF CalmBooks, Works, Copy
<1>3. PlainBooks
  BY <1>1, NobodyOwes
<1>4. \A g \in Handlers : hand[g].version \in Nat /\ hand[g].version <= lockVersion /\ lockVersion \in Nat
  BY PostingAssumption, VersionNat DEF CalmBooks, Works, Copy, TypeOK, Tasks
<1>5. ASSUME OnlyMoves(h), hand'[h].pc \notin {"build", "claim", "void", "issue", "pay"},
             hand'[h].version \in Nat, hand'[h].version <= lockVersion
      PROVE  \A g \in Handlers : Copy(g)'
  <2>0. hand'[h].version <= lockVersion'
    BY <1>1, <1>4, <1>5
  <2>1. Copy(h)'
    BY <1>5, <2>0 DEF Copy
  <2>2. ASSUME NEW g \in Handlers, g # h PROVE Copy(g)'
    <3>1. hand'[g] = hand[g] /\ Copy(g)
      BY <1>5, <2>2 DEF OnlyMoves, CalmBooks, Works
    <3>2. hand[g].version <= lockVersion' /\ hand[g].version # lockVersion'
      BY <1>1, <1>4
    <3> QED
      BY <3>1, <3>2 DEF Copy
  <2> QED
    BY <2>1, <2>2
<1>6. CASE Confirms(h)
  <2>0. hand[h].status = "draft" /\ hand[h].want = "posted" /\ Written(h) = "posted"
    BY <1>6 DEF Confirms, Written
  <2>a. status = "draft" /\ status' = "posted" /\ LiveEntries = {}
    BY <1>1, <1>2, <1>3, <2>0 DEF PlainBooks
  <2>b. postingStatus' = "posting" /\ ~ LeavesPosted(h)
    BY <1>6, <2>0 DEF ClaimAndWrite, LeavesPosted, Reverses
  <2>1. /\ status = "draft" /\ status' = "posted" /\ postingStatus' = "posting"
        /\ LiveEntries = {} /\ ~ LeavesPosted(h)
    BY <2>a, <2>b
  <2>c. AfterClaim(h) = IF hand[h].ref = 0 THEN "unmark" ELSE "post"
    BY <1>6, <2>1 DEF AfterClaim
  <2>d. Goto(h, AfterClaim(h))
    BY <2>c DEF ClaimAndWrite
  <2>e. hand[h].ref \in Entries \cup {0}
    BY <1>1 DEF Tasks
  <2>2. PICK p \in {"post", "unmark"} : Goto(h, p) /\ (p = "post" => hand[h].ref \in Entries)
    <3>1. CASE hand[h].ref = 0
      BY <2>c, <2>d, <3>1
    <3>2. CASE hand[h].ref # 0
      BY <2>c, <2>d, <2>e, <3>2
    <3> QED
      BY <3>1, <3>2
  <2>3. /\ OnlyMoves(h) /\ hand'[h].pc = p /\ hand'[h].ref = hand[h].ref
        /\ hand'[h].version = hand[h].version /\ hand'[h].want = hand[h].want
        /\ hand'[h].status = hand[h].status
    BY <2>2, GoesTo
  <2>4. Apart(h)' /\ Confirms(h)'
    BY <1>1, <1>6, <2>3 DEF Apart, OnlyMoves, Owing, Confirms
  <2>5. Duty(h)'
    BY <1>1, <2>1, <2>2, <2>3, <2>4 DEF Duty
  <2>6. PlainBooks'
    BY <1>1, <1>3, <2>1 DEF PlainBooks, AtMostOneLive
  <2> QED
    BY <1>1, <1>4, <1>5, <2>3, <2>5, <2>6, PlainIsBooks, Settles
<1>7. CASE LeavesPosted(h)
  <2>1. /\ status = "posted" /\ Written(h) \in {"draft", "cancelled"}
        /\ hand[h].want = Written(h) /\ Reverses(h) /\ ~ Confirms(h)
    BY <1>1, <1>2, <1>7 DEF LeavesPosted, Written, Reverses, Confirms, Tasks, Statuses
  <2>2. status' # "posted" /\ postingStatus' = "unposted"
    BY <1>1, <2>1 DEF ClaimAndWrite
  <2>3. PICK p \in {"reverse", "credit"} :
          /\ Goto(h, p) /\ (p = "reverse" => ~ paid) /\ (p = "credit" => Written(h) = "cancelled")
    BY <1>1, <1>2, <1>7, <2>1 DEF ClaimAndWrite, AfterClaim
  <2>4. /\ OnlyMoves(h) /\ hand'[h].pc = p /\ hand'[h].version = hand[h].version
    BY <2>3, GoesTo
  <2>5. Duty(h)'
    BY <1>1, <2>2, <2>3, <2>4 DEF Duty
  <2>6. /\ p = "reverse" => Doing({"reverse"})' /\ Doing({"reverse", "credit"})'
        /\ p = "credit" => Doing({"credit"})' /\ Doing({"reverse", "credit"})'
    BY <2>4 DEF Doing
  <2>7. Books'
    BY <1>1, <1>3, <2>1, <2>2, <2>3, <2>6
    DEF PlainBooks, Books, AtMostOneLive, DraftBooks, CancelledBooks, PostedBooks, PaidBooks
  <2> QED
    BY <1>1, <1>4, <1>5, <2>4, <2>5, <2>7, Settles
<1>8. CASE ~ Confirms(h) /\ ~ LeavesPosted(h)
  <2>1. Done(h)
    BY <1>8 DEF ClaimAndWrite, AfterClaim
  <2>2. /\ OnlyMoves(h) /\ hand'[h].pc = "idle" /\ hand'[h].version = 0 /\ Duty(h)'
    BY <2>1, IsDone
  <2>3. \/ status' = status /\ UNCHANGED <<postingStatus, postedEntry>>
        \/ status # "posted" /\ status' = "cancelled"
    <3>1. CASE status = "posted"
      <4>1. Written(h) = "posted" /\ ~ Reverses(h)
        BY <1>2, <1>8, <3>1 DEF LeavesPosted, Reverses, Written
      <4> QED
        BY <1>1, <1>8, <3>1, <4>1 DEF ClaimAndWrite
    <3>2. CASE status # "posted"
      <4>1. ~ Reverses(h) /\ Written(h) \in Statuses
        BY <1>1, <1>2, <3>2 DEF Reverses, Written, Tasks
      <4>2. status = "draft" => Written(h) # "posted"
        BY <1>2, <1>8 DEF Confirms, Written
      <4>3. UNCHANGED <<postingStatus, postedEntry>>
        BY <1>8, <4>1 DEF ClaimAndWrite
      <4> QED
        BY <1>1, <3>2, <4>1, <4>2, <4>3 DEF Statuses
    <3> QED
      BY <3>1, <3>2
  <2>a. AtMostOneLive'
    BY <1>1, <1>3 DEF PlainBooks, AtMostOneLive
  <2>4. PlainBooks'
    <3>1. CASE status' = status /\ UNCHANGED <<postingStatus, postedEntry>>
      BY <1>1, <1>3, <2>a, <3>1 DEF PlainBooks
    <3>2. CASE status # "posted" /\ status' = "cancelled"
      <4>1. (LiveEntries = {} \/ credited) /\ (paid => credited)
        BY <1>1, <1>3, <3>2 DEF PlainBooks, Statuses
      <4> QED
        BY <1>1, <2>a, <3>2, <4>1 DEF PlainBooks
    <3> QED
      BY <2>3, <3>1, <3>2
  <2> QED
    BY <1>1, <1>4, <1>5, <2>2, <2>4, PlainIsBooks, Settles
<1> QED
  BY <1>6, <1>7, <1>8

LEMMA UnclaimedCalm ==
  ASSUME TypeOK, CalmBooks, NEW h \in Handlers, calm',
         VoidInvoice(h) \/ IssueSent(h) \/ (RecordPayment(h) /\ paid' # paid)
  PROVE  CalmBooks'
<1>1. /\ hand[h].pc \in {"void", "issue", "pay"} /\ Alone(h) /\ Copy(h)
      /\ UNCHANGED <<lockVersion, postingStatus, postedEntry, entries, credited>>
      /\ LiveEntries' = LiveEntries
  BY LiveSame
  DEF VoidInvoice, IssueSent, RecordPayment, Calmly, CalmBooks, Works, invoiceVars
<1>2. OnlyMoves(h)
  BY GoesTo, IsDone DEF VoidInvoice, IssueSent, RecordPayment
<1>3. Apart(h) /\ \A g \in Handlers \ {h} : Copy(g)'
  BY <1>1, <1>2, AloneIsApart
<1>4. PlainBooks
  BY <1>1, <1>3, NobodyOwes
<1>5. hand[h].status = status /\ hand[h].paid = paid
  BY <1>1 DEF Alone
<1>6. CASE VoidInvoice(h)
  <2>1. /\ status' = "cancelled" /\ paid' = paid /\ ~ paid
        /\ hand'[h].pc = "reverse" /\ hand'[h].version = hand[h].version
    BY <1>1, <1>5, <1>6, GoesTo DEF VoidInvoice, Copy
  <2>2. Duty(h)' /\ Copy(h)' /\ Doing({"reverse", "credit"})'
    BY <1>1, <2>1 DEF Duty, Copy, Doing
  <2>3. Books'
    BY <1>1, <1>4, <2>1, <2>2
    DEF PlainBooks, Books, AtMostOneLive, DraftBooks, CancelledBooks, PostedBooks, PaidBooks
  <2> QED
    BY <1>2, <1>3, <2>2, <2>3, Settles
<1>7. CASE IssueSent(h)
  <2>1. status' = "posted" /\ paid' = paid /\ status = "draft" /\ Done(h)
    BY <1>1, <1>5, <1>7 DEF IssueSent, Copy
  <2>2. Duty(h)' /\ Copy(h)'
    BY <1>1, <2>1, IsDone, VersionNat
  <2>3. PlainBooks'
    BY <1>1, <1>4, <2>1 DEF PlainBooks, AtMostOneLive
  <2> QED
    BY <1>2, <1>3, <2>2, <2>3, PlainIsBooks, Settles
<1>8. CASE RecordPayment(h)
  <2>1. status' = status /\ status = "posted" /\ Done(h)
    BY <1>1, <1>5, <1>8 DEF RecordPayment, Copy, invoiceVars
  <2>2. Duty(h)' /\ Copy(h)'
    BY <1>1, <2>1, IsDone, VersionNat
  <2>3. PlainBooks'
    BY <1>1, <1>4, <2>1 DEF PlainBooks, AtMostOneLive
  <2> QED
    BY <1>2, <1>3, <2>2, <2>3, PlainIsBooks, Settles
<1> QED
  BY <1>6, <1>7, <1>8

LEMMA UnpaidCalm ==
  ASSUME CalmBooks, ReversePayment
  PROVE  CalmBooks'
<1>1. /\ UNCHANGED <<status, lockVersion, postingStatus, postedEntry, entries, credited, hand>>
      /\ paid' = FALSE /\ LiveEntries' = LiveEntries
  BY LiveSame DEF ReversePayment, invoiceVars
<1>2. Books'
  BY <1>1
  DEF CalmBooks, Books, AtMostOneLive, DraftBooks, CancelledBooks, PostedBooks, PaidBooks, Doing
<1>3. ASSUME NEW h \in Handlers PROVE Duty(h)' /\ Copy(h)'
  BY <1>1 DEF CalmBooks, Works, Duty, Copy, Confirms, Apart, Owing
<1> QED
  BY <1>2, <1>3 DEF CalmBooks, Works

LEMMA BooksStep ==
  ASSUME BooksInv, [Next]_vars
  PROVE  BooksInv'
<1>1. TypeOK /\ TypeOK'
  BY StepKeepsTypes DEF BooksInv
<1> SUFFICES ASSUME calm' PROVE CalmBooks'
  BY <1>1 DEF BooksInv
<1>2. calm
  <2>1. calm' = calm \/ \E ok \in BOOLEAN : calm' = (calm /\ ok)
    BY DEF Next, vars, ReadPut, BuildEntry, ClaimAndWrite, ClaimLost, PostEntry, MarkPosted,
           MarkUnposted, ReverseEntry, PostCredit, ReadDelete, VoidInvoice, ReadSend, IssueSent,
           ReadPayment, RecordPayment, ReversePayment, ReadOrphan, AllocateRepost,
           ReadDuplicates, ReverseDuplicates, Kill, Calmly
  <2> QED
    BY <1>1, <2>1 DEF TypeOK
<1>3. CalmBooks
  BY <1>2 DEF BooksInv
<1>4. CASE UNCHANGED vars
  <2>1. SameInvoice /\ hand' = hand /\ LiveEntries' = LiveEntries
    BY <1>4, LiveSame DEF vars, invoiceVars, SameInvoice
  <2> QED
    BY <1>3, <2>1
    DEF CalmBooks, Books, AtMostOneLive, DraftBooks, CancelledBooks, PostedBooks, PaidBooks,
        Doing, Works, Duty, Copy, Confirms, Apart, Owing, SameInvoice
<1>5. ASSUME NEW h \in Handlers, RecordPayment(h) PROVE CalmBooks'
  <2>1. CASE paid' = paid
    <3>1. SameInvoice
      BY <1>5, <2>1 DEF RecordPayment, SameInvoice, invoiceVars
    <3> QED
      BY <1>1, <1>3, <1>5, <3>1, TurnsCalm
  <2>2. CASE paid' # paid
    BY <1>1, <1>3, <1>5, <2>2, UnclaimedCalm
  <2> QED
    BY <2>1, <2>2
<1>6. ASSUME NEW h \in Handlers, Kill(h) PROVE CalmBooks'
  <2>1. SameInvoice /\ ~ Owing(h)
    BY <1>6 DEF Kill, SameInvoice, invoiceVars, Calmly
  <2> QED
    BY <1>1, <1>3, <1>6, <2>1, TurnsCalm
<1>7. ASSUME NEW h \in Handlers, BuildEntry(h) \/ AllocateRepost(h) \/ ClaimLost(h) PROVE CalmBooks'
  <2>1. SameInvoice
    BY <1>7 DEF BuildEntry, AllocateRepost, ClaimLost, SameInvoice, invoiceVars
  <2> QED
    BY <1>1, <1>3, <1>7, <2>1, TurnsCalm
<1> QED
  BY <1>1, <1>3, <1>4, <1>5, <1>6, <1>7, ReadingCalm, RepairsCalm, PostCalm, MarksCalm, ReversesCalm,
     CreditsCalm, DuplicatesCalm, ClaimCalm, UnclaimedCalm, UnpaidCalm DEF Next

LEMMA BooksInit == Init => BooksInv
<1> SUFFICES ASSUME Init PROVE BooksInv
  OBVIOUS
<1>1. TypeOK
  BY InitTypes
<1>2. LiveEntries = {} /\ status = "draft" /\ postingStatus = "unposted" /\ paid = FALSE
  BY DEF Init, LiveEntries
<1>3. Books
  BY <1>2 DEF Books, AtMostOneLive, DraftBooks, CancelledBooks, PostedBooks, PaidBooks
<1>4. ASSUME NEW h \in Handlers PROVE Duty(h) /\ Copy(h)
  <2>1. hand[h].pc = "idle" /\ hand[h].version = 0 /\ lockVersion = 0
    BY DEF Init, Idle
  <2> QED
    BY <2>1 DEF Duty, Copy
<1> QED
  BY <1>1, <1>3, <1>4 DEF BooksInv, CalmBooks, Works

\* The books with what the unfinished requests owe them are inductive while
\* nothing unguarded interferes.
THEOREM BooksInductive == Spec => []BooksInv
<1>1. QED
  BY BooksInit, BooksStep, PTL DEF Spec

LEMMA QuietBooks ==
  ASSUME BooksInv, calm, Quiet
  PROVE  PlainBooks
<1>1. \A S \in {{"mark"}, {"reverse"}, {"credit"}, {"reverse", "credit"}} : ~ Doing(S)
  BY DEF Quiet, Owing, Doing
<1> QED
  BY <1>1
  DEF BooksInv, CalmBooks, Books, PlainBooks, DraftBooks, CancelledBooks, PostedBooks, PaidBooks

\* For any number of requests guarded by the lockVersion, once none owes it
\* anything the ledger has exactly the entry the invoice says it has.
THEOREM LedgerFollowsStatus == Spec => []BooksFollow
<1>1. BooksInv => BooksFollow
  BY QuietBooks DEF BooksFollow, PlainBooks
<1> QED
  BY <1>1, BooksInductive, PTL

\* Nor is a payment ever left on a draft, or on a cancelled invoice without the
\* credit note that keeps it for the customer.
THEOREM PaymentsAreKept == Spec => []PaymentKept
<1>1. BooksInv => PaymentKept
  BY QuietBooks DEF PaymentKept, PlainBooks
<1> QED
  BY <1>1, BooksInductive, PTL
=============================================================================
