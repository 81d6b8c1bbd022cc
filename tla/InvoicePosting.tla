--------------------------- MODULE InvoicePosting ---------------------------
(***************************************************************************)
(* One customer invoice, its status and its entries in the ledger          *)
(* (app/api/invoices/[id]/route.ts and its send and payments routes,       *)
(* lib/accounting/invoice-journals.ts, orphaned-invoice-journals.ts and    *)
(* duplicate-invoice-journals.server.ts).                                  *)
(*                                                                         *)
(* A request reads the invoice, decides, and changes the status in one     *)
(* transaction; the journal entry is posted or reversed after that, in     *)
(* transactions of its own that may be refused without undoing the status. *)
(* PUT claims the lockVersion it read; DELETE, the mail route and payments *)
(* neither look at it nor raise it.                                        *)
(*                                                                         *)
(* Abstractions: approved, invoiced, dispatched and delivered are "posted",*)
(* voided is "cancelled"; entry n has the ref JRN/<number>/<n>, the first  *)
(* JRN/<number>; amounts, lines and numbers do not change; a payment       *)
(* settles the whole invoice (parts are PaymentLedger's); the screens send *)
(* no lockVersion (lib/invoice-persist.ts).                                *)
(***************************************************************************)
EXTENDS Integers, FiniteSets

CONSTANTS
  Handlers,    \* requests being handled
  Faults,      \* whether entries may be refused after the fact and handlers killed
  MaxVersion,  \* bound: lockVersion
  MaxEntries   \* bound: journal entries of the invoice

ASSUME PostingAssumption ==
  Faults \in BOOLEAN /\ MaxVersion \in Nat /\ MaxEntries \in Nat \ {0}

VARIABLES
  status,         \* invoices.status
  lockVersion,    \* invoices.lock_version
  paid,           \* whether invoices.amount_paid is above zero
  postingStatus,  \* invoices.posting_status
  postedEntry,    \* invoices.posted_journal_entry_id; 0 is null
  entries,        \* journal_entries of the invoice, by the number in their ref
  credited,       \* whether a credit note journal was posted for a paid cancel
  hand,           \* what each handler read and what it has left to do
  calm            \* no unguarded overlap, fault or resurrection so far

invoiceVars == <<status, lockVersion, postingStatus, postedEntry>>
vars == <<invoiceVars, paid, entries, credited, hand, calm>>

Entries == 1..MaxEntries
Statuses == {"draft", "posted", "cancelled"}
Points == {"idle", "build", "claim", "post", "mark", "unmark", "reverse", "credit",
           "void", "issue", "pay", "repost", "dedupe"}
Tasks == [pc : Points, want : Statuses \cup {"none"}, status : Statuses,
          version : 0..MaxVersion, paid : BOOLEAN,
          ref : Entries \cup {0}, extra : SUBSET Entries]
Idle == [pc |-> "idle", want |-> "none", status |-> "draft", version |-> 0,
         paid |-> FALSE, ref |-> 0, extra |-> {}]

-----------------------------------------------------------------------------
LiveEntries == {n \in Entries : entries[n] = "live"}
Newest == {n \in LiveEntries : \A m \in LiveEntries : m <= n}

FreeRefs == {n \in Entries : entries[n] = "absent"}

(* allocateInvoiceJournalRef: a canonical ref that is live is handed back,  *)
(* for the journal service to refuse it.                                   *)
NextRefAlways == IF 1 \in FreeRefs THEN {1} ELSE {n \in FreeRefs : \A m \in FreeRefs : n <= m}
                 \* mutant: a sibling of a live entry
NextRef ==
  IF entries[1] # "reversed" THEN {1}
  ELSE {n \in FreeRefs : \A m \in FreeRefs : n <= m}

(* What nothing guards: the work a request still owes the ledger, and the  *)
(* writes that do not raise the lockVersion, over what another request read*)
Owing(h) == hand[h].pc \in {"post", "mark", "unmark", "reverse", "credit", "repost", "dedupe"}
Apart(h) == \A g \in Handlers \ {h} : ~ Owing(g)
Alone(h) ==
  /\ hand[h].status = status /\ hand[h].paid = paid
  /\ \A g \in Handlers \ {h} : hand[g] = Idle

Calmly(ok) == calm' = (calm /\ ok)

Goto(h, pc) == hand' = [hand EXCEPT ![h].pc = pc]
Done(h) == hand' = [hand EXCEPT ![h] = Idle]
Task(pc, want, ref, extra) ==
  [pc |-> pc, want |-> want, status |-> status, version |-> lockVersion,
   paid |-> paid, ref |-> ref, extra |-> extra]
Begin(h, pc, want) == hand' = [hand EXCEPT ![h] = Task(pc, want, 0, {})]

Init ==
  /\ status = "draft" /\ lockVersion = 0 /\ paid = FALSE
  /\ postingStatus = "unposted" /\ postedEntry = 0
  /\ entries = [n \in Entries |-> "absent"]
  /\ credited = FALSE
  /\ hand = [h \in Handlers |-> Idle]
  /\ calm = TRUE

-----------------------------------------------------------------------------
(* PUT /api/invoices/[id] *)

(* postedInvoicePutDecision: a posted invoice is reset to draft only when  *)
(* asked to and unpaid; cancelling it is always allowed.                   *)
ReversibleAsPaid(want, reset) ==           \* mutant: payments not looked at
  want = "cancelled" \/ (want = "draft" /\ reset)
Reversible(want, reset) ==
  want = "cancelled" \/ (want = "draft" /\ reset /\ ~ paid)

(* A confirmation of a posted invoice, or a draft copy of it, changes      *)
(* nothing; an edit without a status ("none") does.  An invoice that is not*)
(* posted takes any status.                                                *)
ReadPut(h, want, reset) ==
  /\ hand[h] = Idle
  /\ status = "posted" => want = "none" \/ Reversible(want, reset)
  /\ Begin(h, IF status = "draft" /\ want = "posted" THEN "build" ELSE "claim", want)
  /\ UNCHANGED <<invoiceVars, paid, entries, credited, calm>>

(* The entry is built and its ref chosen before the transaction, or it     *)
(* cannot be built.                                                        *)
BuildEntry(h) ==
  /\ hand[h].pc = "build"
  /\ \E n \in NextRef \cup {0} :
       hand' = [hand EXCEPT ![h].ref = n, ![h].pc = "claim"]
  /\ UNCHANGED <<invoiceVars, paid, entries, credited, calm>>

UnclaimedWrite(h) == TRUE                  \* mutant: update without the version
Claims(h) == hand[h].version = lockVersion

Confirms(h) == hand[h].want = "posted" /\ hand[h].status = "draft"
Reverses(h) == hand[h].want \in {"draft", "cancelled"} /\ hand[h].status = "posted"

Written(h) == IF hand[h].want = "none" THEN status ELSE hand[h].want
LeavesPosted(h) == hand[h].status = "posted" /\ Written(h) # "posted"

(* What the request still owes is decided on the row as it read it and as   *)
(* its write left it.                                                      *)
AfterClaim(h) ==
  CASE Confirms(h) -> IF hand[h].ref = 0 THEN "unmark" ELSE "post"
    [] LeavesPosted(h) /\ ~ hand[h].paid -> "reverse"
    [] LeavesPosted(h) /\ hand[h].paid /\ Written(h) = "cancelled" -> "credit"
    [] OTHER -> "idle"

ClaimAndWrite(h) ==
  /\ hand[h].pc = "claim" /\ Claims(h)
  /\ lockVersion < MaxVersion
  /\ status' = Written(h)
  /\ lockVersion' = hand[h].version + 1
  /\ postingStatus' = CASE Confirms(h) -> "posting"
                        [] Reverses(h) -> "unposted"
                        [] OTHER -> postingStatus
  /\ postedEntry' = IF Reverses(h) THEN 0 ELSE postedEntry
  /\ IF AfterClaim(h) = "idle" THEN Done(h) ELSE Goto(h, AfterClaim(h))
  /\ Calmly(Apart(h) /\ (status = "cancelled" => Written(h) = "cancelled"))
  /\ UNCHANGED <<paid, entries, credited>>

ClaimLost(h) ==
  /\ hand[h].pc = "claim" /\ ~ Claims(h)
  /\ Done(h)
  /\ UNCHANGED <<invoiceVars, paid, entries, credited, calm>>

RefNotLive(n) == entries[n] # "live"        \* mutant: a reversed entry is reused
RefFree(n) == entries[n] = "absent"

(* createJournalEntry: the ref is unique, and the entry may be refused for *)
(* its accounts or its period.  The invoice stays posted either way; a     *)
(* repost just ends, and its tax rows come after it is marked.             *)
PostEntry(h) ==
  /\ hand[h].pc = "post"
  /\ LET n == hand[h].ref
         Refused == IF Confirms(h) THEN Goto(h, "unmark") ELSE Done(h)
     IN \/ /\ RefFree(n)
           /\ entries' = [entries EXCEPT ![n] = "live"]
           /\ \/ Goto(h, "mark") /\ Calmly(Apart(h))
              \/ Faults /\ Confirms(h) /\ Refused /\ Calmly(FALSE)  \* its tax rows are refused
        \/ /\ Refused
           /\ UNCHANGED <<entries, calm>>
  /\ UNCHANGED <<invoiceVars, paid, credited>>

MarkPosted(h) ==
  /\ hand[h].pc = "mark"
  /\ postingStatus' = "posted"
  /\ postedEntry' = hand[h].ref
  /\ Done(h)
  /\ UNCHANGED <<status, lockVersion, paid, entries, credited, calm>>

MarkUnposted(h) ==
  /\ hand[h].pc = "unmark"
  /\ postingStatus' = "unposted"
  /\ Done(h)
  /\ UNCHANGED <<status, lockVersion, postedEntry, paid, entries, credited, calm>>

(* reverseInvoiceJournalInPrisma: the newest live entry, if there is one;   *)
(* an error is logged and left.                                            *)
ReverseNone == entries                      \* mutant: nothing reversed
ReverseNewest == [n \in Entries |-> IF n \in Newest THEN "reversed" ELSE entries[n]]

ReverseEntry(h) ==
  /\ hand[h].pc = "reverse"
  /\ \/ entries' = ReverseNewest /\ Calmly(Apart(h))
     \/ Faults /\ Calmly(FALSE) /\ UNCHANGED entries
  /\ Done(h)
  /\ UNCHANGED <<invoiceVars, paid, credited>>

(* A paid invoice cancelled: its entry stays, and a credit note journal    *)
(* turns the revenue into a debt to the customer, unless it is refused or  *)
(* the request names no credit note.                                       *)
PostCredit(h) ==
  /\ hand[h].pc = "credit"
  /\ \/ credited' = TRUE /\ UNCHANGED calm
     \/ Faults /\ Calmly(FALSE) /\ UNCHANGED credited
  /\ Done(h)
  /\ UNCHANGED <<invoiceVars, paid, entries>>

-----------------------------------------------------------------------------
(* The other routes that change the invoice *)

VoidableAlways == status # "cancelled"      \* mutant: a paid invoice is voided
Voidable == status # "cancelled" /\ ~ paid

(* DELETE voids what it read as unpaid, whatever happened since.           *)
ReadDelete(h) ==
  /\ hand[h] = Idle /\ Voidable
  /\ Begin(h, "void", "cancelled")
  /\ UNCHANGED <<invoiceVars, paid, entries, credited, calm>>

VoidInvoice(h) ==
  /\ hand[h].pc = "void"
  /\ status' = "cancelled"
  /\ Goto(h, "reverse")
  /\ Calmly(Alone(h))
  /\ UNCHANGED <<lockVersion, postingStatus, postedEntry, paid, entries, credited>>

(* POST send: an invoice read as a draft is "invoiced" once mailed.        *)
ReadSend(h) ==
  /\ hand[h] = Idle /\ status = "draft"
  /\ Begin(h, "issue", "posted")
  /\ UNCHANGED <<invoiceVars, paid, entries, credited, calm>>

IssueSent(h) ==
  /\ hand[h].pc = "issue"
  /\ status' = "posted"
  /\ Done(h)
  /\ Calmly(Alone(h))
  /\ UNCHANGED <<lockVersion, postingStatus, postedEntry, paid, entries, credited>>

(* POST payments: the status is looked at before the transaction only.     *)
ReadPayment(h) ==
  /\ hand[h] = Idle /\ status = "posted" /\ ~ paid
  /\ Begin(h, "pay", "none")
  /\ UNCHANGED <<invoiceVars, paid, entries, credited, calm>>

RecordPayment(h) ==
  /\ hand[h].pc = "pay"
  /\ \/ ~ paid /\ paid' = TRUE /\ Calmly(Alone(h))
     \/ paid /\ UNCHANGED <<paid, calm>>           \* nothing left to pay
  /\ Done(h)
  /\ UNCHANGED <<invoiceVars, entries, credited>>

ReversePayment ==
  /\ paid
  /\ paid' = FALSE
  /\ UNCHANGED <<invoiceVars, entries, credited, hand, calm>>

-----------------------------------------------------------------------------
(* The director's repair tools *)

(* repostOrphanedInvoice: a posted invoice without a live entry.  One that *)
(* never had an entry may be named on purpose.                             *)
OrphanByStatus == status = "posted" /\ postingStatus = "unposted"   \* mutant
Orphan == status = "posted" /\ postingStatus = "unposted" /\ LiveEntries = {}

ReadOrphan(h) ==
  /\ hand[h] = Idle /\ Orphan
  /\ Begin(h, "repost", "posted")
  /\ UNCHANGED <<invoiceVars, paid, entries, credited, calm>>

AllocateRepost(h) ==
  /\ hand[h].pc = "repost"
  /\ \E n \in NextRef : hand' = [hand EXCEPT ![h].ref = n, ![h].pc = "post"]
  /\ UNCHANGED <<invoiceVars, paid, entries, credited, calm>>

(* reverseDuplicateInvoiceJournals: one entry of an invoice with several is*)
(* kept, none of a cancelled one.                                          *)
ReadDuplicates(h) ==
  /\ hand[h] = Idle
  /\ LiveEntries # {}
  /\ status = "cancelled" \/ Cardinality(LiveEntries) > 1
  /\ \E keep \in IF status = "cancelled" THEN {0} ELSE LiveEntries :
       hand' = [hand EXCEPT ![h] = Task("dedupe", "none", keep, LiveEntries \ {keep})]
  /\ UNCHANGED <<invoiceVars, paid, entries, credited, calm>>

ReverseDuplicates(h) ==
  /\ hand[h].pc = "dedupe"
  /\ entries' = [n \in Entries |-> IF n \in hand[h].extra THEN "reversed" ELSE entries[n]]
  /\ postedEntry' = IF hand[h].ref = 0 THEN postedEntry ELSE hand[h].ref
  /\ Done(h)
  /\ Calmly(Apart(h))
  /\ UNCHANGED <<status, lockVersion, postingStatus, paid, credited>>

(* A handler is cut off: what it had left to do is not done.               *)
Kill(h) ==
  /\ Faults /\ hand[h] # Idle
  /\ Done(h)
  /\ Calmly(~ Owing(h))
  /\ UNCHANGED <<invoiceVars, paid, entries, credited>>

Next ==
  \/ \E h \in Handlers, want \in Statuses \cup {"none"}, reset \in BOOLEAN : ReadPut(h, want, reset)
  \/ \E h \in Handlers :
       \/ BuildEntry(h) \/ ClaimAndWrite(h) \/ ClaimLost(h)
       \/ PostEntry(h) \/ MarkPosted(h) \/ MarkUnposted(h)
       \/ ReverseEntry(h) \/ PostCredit(h)
       \/ ReadDelete(h) \/ VoidInvoice(h)
       \/ ReadSend(h) \/ IssueSent(h)
       \/ ReadPayment(h) \/ RecordPayment(h)
       \/ ReadOrphan(h) \/ AllocateRepost(h)
       \/ ReadDuplicates(h) \/ ReverseDuplicates(h)
       \/ Kill(h)
  \/ ReversePayment

Spec == Init /\ [][Next]_vars

-----------------------------------------------------------------------------
TypeOK ==
  /\ status \in Statuses
  /\ lockVersion \in 0..MaxVersion
  /\ paid \in BOOLEAN /\ credited \in BOOLEAN /\ calm \in BOOLEAN
  /\ postingStatus \in {"unposted", "posting", "posted"}
  /\ postedEntry \in Entries \cup {0}
  /\ entries \in [Entries -> {"absent", "live", "reversed"}]
  /\ hand \in [Handlers -> Tasks]

\* While the invoice's first entry stands no other entry of it does: whatever
\* is confirmed, reposted, overtaken, refused or killed, the journal service
\* refuses the second posting of an invoice whose first was never reversed.
FirstEntryStandsAlone == entries[1] = "live" => LiveEntries = {1}

Quiet == \A h \in Handlers : ~ Owing(h)

\* Requests guarded by the lockVersion may overlap as they like: the ledger
\* has an entry of the invoice exactly when the invoice says so, a draft has
\* none, and a cancelled one has none unless a credit note offsets it.
BooksFollow ==
  calm /\ Quiet =>
    /\ status = "posted" =>
         LiveEntries = IF postingStatus = "posted" THEN {postedEntry} ELSE {}
    /\ status = "draft" => LiveEntries = {}
    /\ status = "cancelled" => LiveEntries = {} \/ credited

\* A customer's payment is never left on a draft, and never on a cancelled
\* invoice without the credit note that keeps it for the customer.
PaymentKept ==
  calm /\ Quiet /\ paid => status = "posted" \/ (status = "cancelled" /\ credited)

\* A reversed entry is final: no repost, repair or race brings it back, and an
\* entry leaves the books only by a reversal.
EntriesOnlyAge ==
  [][\A n \in Entries :
       /\ entries[n] = "reversed" => entries'[n] = "reversed"
       /\ entries[n] = "live" => entries'[n] # "absent"]_entries
=============================================================================
