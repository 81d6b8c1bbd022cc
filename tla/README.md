# A verification model of the Deed ERP

TLA+ modules for the parts of the ERP where several requests, workers or
webhooks meet over the same rows: what they do, what must hold of them, what TLC
checks on small instances and what TLAPS proves for every instance. Paths are
relative to the repository. `map` in PROJECT.json gives the lines each definition
stands for.

## 1. Inventory

The ERP is a Next.js application over PostgreSQL (Prisma). Requests run
concurrently; cron starts background passes; providers and M-Pesa call back; the
browser keeps copies of whole collections ("the store").

| Component | State | Operations | What is hard | Correct means |
|---|---|---|---|---|
| Notification outbox (`lib/notifications/service.ts`, `worker.ts`) | events, outbox rows, delivery rows, escalation timers | publish, acknowledge, resolve, claim, route, retry, escalate | overlapping runs, killed runs, half-routed events | each target gets one delivery; retries are limited; escalations are justified and happen |
| Notification dispatch (`worker.ts`, `provider-status.ts`, `api/admin/notifications`) | deliveries, attempts, dead letters | claim, quiet hours, send, retry, give up, SMS fallback, provider reports, manual retry | reports that race each other and the worker | no second send, complete attempts, listed dead letters |
| Payments (`lib/accounting/payment-*.ts`, `credit-note-service.ts`) | payments, allocations, `amountPaid`, journal entries | record, allocate, credit, reverse | balance read before the transaction, retries, sequences of operations | no overpayment, one row per key, journals follow |
| Customer deposits (`deposit-service.ts`) | deposit, receipts, refunds, applications | receive, apply, refund, reverse | an idempotency key computed from a sum, a ledger shared with payments | spent once, the liability account agrees |
| Invoice status and its entries (`api/invoices/[id]`, `invoice-journals.ts`, `orphaned-` and `duplicate-invoice-journals`) | status, lockVersion, posting status, journal entries | confirm, edit, reset, cancel, void, mail, pay, repost, repair | the entry is posted after the status was committed, requests overlap | the ledger follows the invoice, no payment is stranded |
| Store synchronisation (`store.tsx`, `store-delta.ts`, `store-baseline.ts`, `api/store`) | screen, queue, baseline and timers of each browser; the stored collection | edit, undo, flush, retry, beacon, fetch, reload; rebuild and write | refused, unanswered and overlapping saves, stale tabs | nothing typed is lost, others' rows are kept |
| Sales orders and invoicing (`api/sale-orders/[id]`, `create-invoice`, `deliver-lines`, `invoices/[id]`, `reissue-invoice`, `odoo-sales-flow.ts`) | order lines with delivered and invoiced counts, invoices, a repair's reissue | report a delivery, save, cancel, raise, edit, cancel, revive or reissue an invoice | every request writes back what it read; invoices change without their order; the lock fails open | nothing billed twice, everything delivered can be billed |
| Delivery and till stock (`lib/inventory`, `api/deliveries`, `lib/blob-transfer.ts`) | serials, shelf quantities, moves, counts, stock levels, delivery status | validate, reverse, cancel, till sale | several commits in one request, two locks over one table | stock leaves once, the tables agree |
| Supplier credit (`api/invoices/[id]/supplier-credit`) | bills, credit notes | apply, refund | absolute amounts written from an earlier read | no lost use of a credit |
| Other stock movements (`api/inventory`) | the tables of deliveries | receipts, transfers, adjustments, returns | the same writes under further locks | the tables agree |
| Outbound releases, reconfiguration, repairs | workflow states | transitions with approvals | stale approvals | states agree |
| M-Pesa, document counters, credit facility | requests, counters, exposure | callback, next number, check | duplicate callbacks, races | one payment per callback, unique numbers |
| Infrastructure (`lib/infra`) | leases, queue, caches | lock, enqueue, invalidate | expiry while held | mutual exclusion, freshness |
| Sessions, HR, CRM, POS, purchasing, screens, PDF, integrations | — | — | little shared state, rendering, I/O | not modelled |

Interactions: payments, credit notes and releases publish notifications inside or
after their own transaction; the worker's runs share nothing but rows; a reversal
works on rows that recording, allocation, credit notes and deposits made; the
screen copies of invoices are written after the ledger transaction. Deposits settle
invoices with payment rows of the ledger (CustomerDeposit extends PaymentLedger); an
order's deliveries are DeliveryStock's and the ledger entries of its invoices
InvoicePosting's: SalesInvoicing has of the former the quantities billing reads, of the
latter the status and what each line bills. Every screen's copy of the small collections
goes through the store.

## 2. Plan

The order in which the modules were written, the most important behaviour first:

1. **NotificationOutbox** and **NotificationDelivery**.
2. **PaymentLedger**, implementing **ReceivableAccount**.
3. **DeliveryStock**.
4. **CustomerDeposit**, composed with the whole of PaymentLedger; the composition
   still implements ReceivableAccount.
5. **InvoicePosting**.
6. **StoreSync**.
7. **SalesInvoicing**.

The proofs of a module M are in MProofs; those of CustomerDeposit, which extends
PaymentLedger, follow the ledger's in PaymentLedgerProofs. **SumLaws** holds what all
of them need of finite sums. No module that is proved about has a RECURSIVE operator;
sums are the community operator SumFunction.

Worth doing next: what still holds of the devices when a delivery and a till sale are
worked on at once; what is left of StockAccounted after a killed request; receipts,
transfers and returns as further documents of DeliveryStock; M-Pesa callbacks;
supplier credits.

## 3. Modules

### NotificationOutbox
`status`, `attempts` are the columns of `notification_outbox`; `deliveries` counts
delivery rows per target; `escalateAt`, `acked`, `resolved` are event columns. Per
run of the worker: `phase`, `batch` (claimed rows), `cur`, `todo`, and for the
escalation pass `due`, `ackSeen`, `handled`. `Publish` is
`publishNotificationEvent` (the key makes a second publish a no-op); `Claim` the
`FOR UPDATE SKIP LOCKED` statement; `RouteBegin`, one `RouteTarget` per upsert,
`RouteDone`, `RouteFail` are `routePendingNotificationEvents`, split at its awaits;
`EscalationQuery` .. `EscalationClear` are `processNotificationEscalations`;
`Crash` forgets what a run holds in memory. Runs overlap because the cron script's
curl gives up after 110 s and frees its lock while the server still works.

### NotificationDelivery
The delivery, attempt and dead-letter rows, the run's position in the dispatch loop
(`stage`, `claimed`, `cur`, `seen`) and the webhooks between their read and their
update (`hook`). One action for each await of `dispatchPendingNotificationDeliveries`;
`Receive` and `Apply`/`ApplyFatal` are `applyProviderDeliveryStatus` before and after
its read. `RetryDeadLetter` is the panel's retry: the panel offers it for rows it shows
as given up, the route requeues by id alone, so it may also hit a row that has since
been retried, is being sent, was sent or confirmed; `stale` is history and remembers the
rows it hit so. A report can only start after the message id was saved: one that arrives
earlier is dropped by the code without effect.

### PaymentLedger and ReceivableAccount
`state`, `key`, `amount` are a payment row (rows are never deleted, `voided` is
`is_voided`); `alloc` its allocations per invoice; `entries`, `journalId`, `reversed`
the journal entries posted for it, which of them `journal_id` names and which are
reversed; `hand` what a request of the invoice screen read before its transaction.
`ReadInvoice` / `CommitInvoicePayment` / `LeaveInvoicePayment` split
`POST /api/invoices/[id]/payments` at the start of its serializable transaction;
`RecordReceipt`, `Allocate`, `CreditInvoice`, `Reverse` are one transaction each.
ReceivableAccount knows only what each invoice owes and whether a submission is new,
received or returned; `KeepsAccount` is the refinement, with
`owed = Total - amountPaid` and the standing read off the rows of the key.

### DeliveryStock
`unit`, `shelf`, `moves`, `count`, `level` are the five tables a document writes
(`serial_numbers`, `stock_location_levels`, `stock_movements`, the saved `stockQty` of
products, `stock_levels`), `status` the delivery rows, `rung` the till sales answered.
`job` is what the holder of each advisory lock is doing: `Validate`, `Reverse` and
`Sell` read everything and decide (`applyDeliveryStockMutation`,
`reverseDeliveryStockMutation`, `applyPosStockMutation` up to their first write); the
whole lists they computed are then written by `CommitLevel`, `SaveUnits`, `SaveShelf`,
`SaveMoves`, `SaveCount` in the order of `saveStoreKeys`, and `Finish` saves the
delivery or answers the till. `Crash` kills a holder between any two of them: what it
wrote stays. `cut` remembers, for the properties only, whose attempt was cut off. With
Overlap FALSE only one document is worked on at a time, which is what each lock
ensures for its own kind; Overlap TRUE is the code: two locks, side by side.

### CustomerDeposit
PaymentLedger with `status` and `balance` of a deposit, its `receipt` rows by
idempotency key, the sum `refunded` and `use`, what each payment row applied.
`Available` is recomputed from three sums each time, as in the code; `upTo` is the
part of an application's key computed from the sum applied so far. Reversing such a
payment (payment-reversal.server.ts) marks the use reversed and opens the deposit
again. Deposits, payments, receipts, credit notes and reversals interleave freely.

### InvoicePosting
The columns of one invoice, its journal `entries` by the number in their ref, and the
requests with what they read (`hand`). `ReadPut` / `ClaimAndWrite` is PUT up to and
with its transaction, whose `updateMany` claims the `lockVersion` read; what the
request still owes the ledger afterwards (`post`, `mark`, `unmark`, `reverse`,
`credit`) are steps of their own, each able to be refused (`Faults`) or never to
happen. `ReadDelete` .. `VoidInvoice`, `ReadSend` .. `IssueSent`, `ReadPayment` ..
`RecordPayment` neither look at the version nor raise it. `ReadOrphan` ..
`AllocateRepost` and `ReadDuplicates` .. `ReverseDuplicates` are the two repairs.
`calm` is history: TRUE while no request has overlapped in a way nothing guards and
no step was refused or cut off. BooksFollow and PaymentKept are promised only then;
section 7 lists what happens otherwise.

### StoreSync
Of each browser the `screen`, the baseline (`base`), the queue (`pending`, `dirty`,
`timer`; the debounce, retry and resend timers are one) and a fetched copy on its way
(`got`); the POSTs (`saves`) on their way, being handled or answered; the `stored`
collection. `Send`, `Saved`, `Refused`, `Unanswered` are `flushServerSync` and what
follows it; `Rebuild` and `Commit`/`Throw` the route's read and write, which no lock
holds together (its two reads of the stored copy, route.ts:270 and :569, are one
step); `Guarded` and `Bulk` the guard against bulk deletions; `ApplyRemote` and
`Hydrate` the two ways a fetched copy reaches the screen; `Reload` the beacon and the
fresh start from localStorage. `history`, `made`, `touched`, `sync` and the `kind` of
a save are history, for the properties only.

### SalesInvoicing
The `items` of one confirmed order, the quantities in its validated deliveries
(`done`), its `invoices` (state, what each bills, what it billed when raised) and what
each request read (`hand`). create-invoice is `AskInvoice` (lock, read), `Heal`,
`CountInvoices`, `ResetCounts`, and the transaction `CommitInvoice` or
`QuantityChanged`; a request whose lock fails runs beside the others. `ReadReport` ..
`WriteReport` are deliver-lines and deliver-held, `ReadSave` .. `WriteSave` and
`ReadCancel` .. `WriteCancel` the order's PUT. Orders, deliveries and invoices are read
in one step. `MoveInvoice` confirms, resets, cancels or voids an invoice; `SaveInvoice`
is a PUT of one that is not posted, which takes lines and status as sent, so that a
cancelled invoice comes back. Neither touches the order's counts.

When the order bills a repair (`repair`), `ApproveRevision` leaves a posted invoice to
Finance (`reissue`), and a request reissues it in three commits: `CreditOld` credits or
cancels it, `RewriteOrder` replaces the lines of the order, whereupon requests that have
read the old ones find them gone (`LinesGone`), and `FreeRepair` adds the invoice to
`replaced` (`previousInvoiceIds`). Nothing locks a reissue: two may overlap, each may be
killed between its commits, and it may start again until it has freed the repair.

`alone`, `backed` and `revived` are history: whether every request held the lock; whether
nobody has put a count below what stands on invoices; which invoices came back from
cancelled (section 7).

## 4. Runs

| Run | Shows | Bounds |
|---|---|---|
| `outbox` | routed once, retry limit, justified escalations; every row routed unless a run is killed; escalated even then | 1 event and its escalation, 2 targets, 2 overlapping runs, 2 attempts, 2 routing errors, 1 killed run |
| `delivery_safety` | attempts complete, dead letters listed, nothing sent twice, a confirmed message stays confirmed unless its row was already held, but for manual retries | one delivery with reports and SMS fallback, one without; 2 runs, 2 attempts, 1 quiet hour, 2 reports, 2 manual retries, also stale ones, 1 killed run |
| `delivery_live` | every delivery settled; the fallback follows | 1 delivery, 2 runs, 2 reports, 1 quiet hour, nobody killed |
| `ledger` | no overpayment, `amountPaid` = allocations, one row per key, journals follow, refinement | 2 invoices (3 and 1), a submission handled by 2 requests, a receipt, 3 rows, 2 entries a payment |
| `ledger_receipt_left` | **violation**: a reversed receipt leaves its journal standing | as `ledger` |
| `deposits` | spent once, liability account, completed deposits settled, refinement | 1 deposit in 2 receipts, 2 invoices, 1 request, a receipt, 3 payment rows |
| `posting` | first entry alone, ledger follows, payments kept, entries only age | 1 invoice, 2 requests, 4 versions, 3 entries, faults anywhere |
| `store` | nothing typed lost or left unsent, baselines stored, others' rows kept | 2 browsers, 2 rows, 2 changes, 1 fault, 1 GET at a time, bulk limit 1 |
| `store_stale_tab` | **violation**: an opened page moves the baseline, a waiting save deletes others' rows | as `store`, no fault, 2 GETs |
| `stock` | the five tables agree; a cut-off validation can be repeated; a done delivery keeps its devices | 2 deliveries and 2 till sales, 2 devices, 3 pieces of the other product, 2 killed processes, one document at a time |
| `stock_overlap` | **violation**: a delivery and a till sale take the same device | as `stock`, none killed, two documents at a time |
| `sales` | creating invoices never bills above a count, a repair has one invoice besides replaced and revived ones, everything delivered can be billed | 1 line of quantity 2 (1 in a repair order), 2 requests, 2 invoices, reissues unlimited, 1 save, report, killed or unlocked request; ordinary and repair orders |

TypeOK of NotificationOutbox, InvoicePosting and StoreSync is in no run: it is proved
(section 6), as are ClaimExclusive and RowNeverRestarts of the outbox and VoidedIsFinal
of the ledger. PaymentLedger's TypeOK is part of DepositTypeOK, which `deposits` checks
of the ledger and the deposits together.

Why the bounds suffice: the hazards need two actors at the same row (two runs, two
webhooks, two requests of a submission), a fault on the way, and one more operation
afterwards; each is within the bounds, and every property has a mutant of the code that
breaks it under its run's own configuration. Three rows let a payment, a receipt and a
credit note compete for one invoice. Two deliveries and a till sale that want the same
devices, and goods for two of the three, make every refusal and every order of the
writes happen; two killed processes let a retry be killed as well. Two requests, four
versions and three entries let an invoice be confirmed, reset, confirmed again and
cancelled while another request does the same. Two browsers with two rows each are
enough for a row of the one to be deleted by the other; the bulk limit of 1 makes a
deletion of two rows meet the guard. A quantity of 2 and two invoices make a partial
invoice, its cancellation and a second one possible, while two requests bill, report and
save over each other; a repair is not billed in parts, so 1 is enough there. One bound
is shared by saves, reports, kills and unlocked requests (`MaxTrouble`): what two of
them do together is left to the proofs, except for liveness. Two manual retries are a
first one and a second tap. People may simply do nothing more once the bounds are
reached, so deadlock is not checked in `ledger`, `ledger_receipt_left`, `deposits`,
`stock`, `stock_overlap`, `posting`, the `store` runs and `sales`.

## 5. Fairness

Of the notifications only the worker, cron and webhooks are fair. A run that is not
killed takes its next step (weak): its awaits are bounded by timeouts. Cron starts runs
every minute, and a due row is eventually among the claimed ones (strong: claims take
the oldest rows first and other runs hold rows only for a while). In `sales` a request
that is not killed takes its next step (weak), and somebody who still wants the order
billed asks for the whole invoice again and again (strong: requests and the lock are
held only for a while); without anybody asking, nothing bills an order. Users are never
made to acknowledge, retry or pay. `ledger`, `deposits`, `stock`, `posting` and `store`
check safety only, without fairness.

## 6. What is proved

Every invariant and every action property that a run checks is also proved for all
values of the constants that satisfy the assumptions of its module, and so is the
refinement. Two groups of theorems carry a hypothesis, the one their runs have too:
Repeats = FALSE (no request names an invoice twice) for NeverOverpaid and KeepsAccount,
Overlap = FALSE (one stock document at a time) for DeliveryStock beyond its types.
Section 7 says what happens without.

- **NotificationOutboxProofs**: TypeOK, ClaimExclusive, AttemptLimit, RoutedExactlyOnce,
  RowNeverRestarts and EscalationJustified for any events, targets, workers and bounds.
  Besides the properties themselves the invariant says that a held row is `processing`,
  that the targets a run still has to upsert are exactly those that may lack a row, that
  an event being routed is held, and that absent rows have neither attempts nor
  deliveries. Without "held while routing" two runs could interleave their upserts and
  mark an event processed too early. Escalation needs a second one (`Timers`): a run
  holds only published events, and whoever escalated one keeps it until its timer is
  cleared. Steps are first abstracted to a few kinds (`StepKinds`).
- **NotificationDeliveryProofs**: TypeOK, DeadLettersListed, AttemptsComplete, SentOnce
  and ConfirmedStays for any deliveries, workers, hooks and bounds. A run `Holds` a row
  from its claim until it was sent, put off or given up; meanwhile the row is `sending`,
  nobody else holds it, and the attempt count the run read is the row's (`HeldAlone`).
  None of this survives a manual retry of a row that is not given up, which may requeue
  it in a run's hands: the row invariants are about rows outside `stale`.
  Attempt rows are numbered without a gap up to that count until a manual retry resets
  it (`Counted`), and afterwards no attempt begins any more (`Spent`). Rows whose
  provider reports back can be reopened in a run's hands and are excluded, as section 7
  explains.
- **SumLaws**: what proofs about money and quantities need of a sum over a finite set.
  SumFunction is a recursion; instead of an induction its value is shown to be the
  number of units of the function, pairs of a point and a number up to its value, by
  taking a subset of least size on which the two would differ. How a sum changes at a
  point, its parts, bounds and pointwise sums then follow from the library's laws of
  cardinality.
- **PaymentLedgerProofs**, the ledger: OncePerKey, EntriesFollow and VoidedIsFinal
  (`IInv`), PaidMatchesAllocations and WithinAmount (`MInv`), and from both NeverOverpaid
  and the refinement KeepsAccount, for any number of invoices, submissions, requests and
  rows. `IInv` adds that rows that do not exist have no key and no entries and that
  `journalId` is the last entry posted, which is both why a payment with one entry is
  reversed completely and why one with two is not (`ledger_receipt_left`). `MInv` adds
  that such rows hold no money. Each action is shown to receive, apply, return or take
  back money, or to leave it; each of these keeps the invariants and is a step of
  ReceivableAccount.
- **PaymentLedgerProofs**, deposits: DepositTypeOK, SpentOnce, LiabilityAgrees,
  CompletedIsSettled, and KeepsAccount of the composition. `DInv` is the ledger's
  invariant and three facts more: a row that applied a deposit has all of its money on
  one invoice and exactly one entry, which stands as long as the application does, so
  that neither an allocation nor a second reversal can touch it (`UsesFollow`); received
  and balance make the order's value (`PaidInFits`), without which a late receipt could
  exceed it; what was applied and refunded was received (`NotOverspent`).
- **DeliveryStockProofs**: TypeOK; RetryTakesNoDevice and DoneIsSold with processes
  killed at any step; StockAccounted while none was. A request reads everything, computes
  whole lists and saves them one by one, so the invariant compares the lists with the
  tables: they differ only in rows of the request's own document (`OwnRows`), the devices
  of a delivery that is done or was cut off after saving them are its own in the tables
  and in the lists (`DevicesKept`), the lists agree among each other before they are
  saved, and the tables are the lists as far as they were saved (`WillAgree`).
- **InvoicePostingProofs**: TypeOK, FirstEntryStandsAlone and EntriesOnlyAge for any set
  of requests and any bounds, with faults or without, and BooksFollow and PaymentKept.
  For the first ones the invariant adds that a second entry, or a ref other than the
  first given to a request, exists only after the first entry was reversed
  (`SiblingsFollow`, `RefsFollow`), and that what a repair found extra exists
  (`ExtrasExist`): a request chooses its ref and posts later. For the last two
  (`BooksInv`) it says, while `calm`, what each request still owes the ledger (`Duty`:
  who is about to post finds no live entry and a posting status to match; who marks finds
  exactly its own) and what a request that can still claim has read (`Copy`: with the
  current lockVersion, the current status). Without `Copy` a claim could succeed over a
  status it never saw; without `Duty` the books between a commit and its entry are
  arbitrary.
- **StoreSyncProofs**: TypeOK, EditsSurvive, BaselineWasStored, QueueArmed,
  OthersWorkKept and NothingUnsent for any browsers, rows and bounds. The invariant has
  three parts: `Written`, what was written (every copy given out holds only rows the
  server once held, a save leaves out only such rows, queued edits are what is shown);
  `Followed`, who changed what (screen, queue, save in flight and baseline of a browser
  differ only in rows it touched); and `Armed`, QueueArmed with what a save sent by
  itself may leave. Only with all three is a save known to carry nothing but its
  sender's rows.
- **SalesInvoicingProofs**: SalesTypeOK, BilledOnce and RepairBilledOnce for any lines,
  quantities and requests. Steps are abstracted to what they do to the requests, the
  invoices and the order (`HandStep`, `InvoiceStep`, `OrderStep`). BilledOnce rests on
  counts, written or about to be, that stay within what was ordered (`CountsWithin`) and
  on `BilledWithinCount`: until `backed` ends, what stands on invoices is covered by the
  count of its line. It needs no lock: the transaction of an invoice looks at the count
  again. RepairBilledOnce does: what a request found missing under the lock stays
  missing, but for invoices replaced or revived since (`StillNone`), and while `alone`
  only the holder raises invoices (`BillsLocked`).

Model-checked only: the liveness properties (RoutedUnlessKilled and EventuallyEscalated of
the outbox, EventuallySettled and FallbackFollows of the dispatch, EventuallyBilled), as
the prover has no ENABLED; and the three violations, which are counterexamples.

## 7. Where the code departs from what it says

The violation runs above, each quoted in PROJECT.json. Further departures the models
rest on without a run of their own:
- recording a payment recounts `amountPaid` from payment rows
  (`payment-allocations.ts:415`), which drops what a migrated invoice had paid before
  rows existed; `payment-reversal.server.ts:100` warns of exactly this. The model
  starts with `amountPaid` explained by rows.
- two lines of one allocation request may name one invoice: each is compared with its
  residual alone (`payment-allocations.ts:144`), and `allocatePayment` lacks the second
  look that recording takes (`:417`). Requests have such lines only where the constant
  Repeats is TRUE; the run has it FALSE, as the screens do.
- stock is written table by table without one transaction. A validation cut off before
  its moves are saved takes quantities a second time when repeated, and leaves them
  taken when the delivery is cancelled instead; a reversal cut off before the delivery
  is saved puts stock back twice when repeated. `SALES_ORDER_WORKFLOW.md:112` calls the
  posting atomic. StockAccounted is therefore said of behaviours without a killed
  process, RetryTakesNoDevice and DoneIsSold of those in which no reversal was killed.
- a late `deferred` or `failed` report reopens a delivery a run is sending
  (`provider-status.ts:118`, `:157`); SentOnce is therefore stated for deliveries whose
  provider does not report back. Two webhooks that both read before either writes can
  turn `delivered` back (`:96`, `:101`), as ConfirmedStays says. A report that arrives
  before the message id is saved (`:62`) is dropped; a message accepted by the provider
  whose answer is lost (`worker.ts:465`) is sent again; a crash between the dead-letter
  transaction and the fallback (`worker.ts:315`) loses the fallback.
- a killed run leaves its outbox rows `processing`, and the claim's stale-lock clause
  does not cover that status (`worker.ts:199`, `service.ts:77`): never claimed again.
- a manual retry sets the attempt count back to 0 while the attempt rows stay
  (`admin/notifications/route.ts:141`): attempt 1 meets the unique key and the delivery
  stays `sending`. It looks at nothing but the id (`:138`): a second tap, or a second
  panel not reloaded, requeues a row already retried and sent, and it is sent again,
  takes back a confirmation, and lets two runs hold a row one of them is sending.
  SentOnce and AttemptsComplete leave such rows out, ConfirmedStays names the step.
- reversing the payment that applied a credit note reverses the credit note's whole
  journal (`payment-reversal.server.ts:152`, `credit-note-service.ts:149`).
- a deposit applied to the same invoice for the same amount after a reversal meets the
  unique key of the voided row and is refused (`deposit-service.ts:243`); a deposit
  refunded in part can still be applied and become completed.

InvoicePosting, whenever `calm` is FALSE:
- a reset, cancel or void between a confirmation's commit and its journal entry
  (`route.ts:427`, `:505`) leaves a draft or void invoice with a live entry;
- after one reset two overlapping reposts post `/2` and `/3` side by side, as only the
  canonical ref is guarded (`allocateInvoiceJournalRef`, `invoice-journals.ts:135`);
- a payment recorded beside a reset, cancel or DELETE is stranded: `amountPaid` is read
  outside the transaction and payments do not raise the version;
- a stale tab's save, or a slow mail request, revives a cancelled invoice
  (`finance-invoice.ts:321` lets every PUT of a row that is not posted pass), which a
  comment at `route.ts:641` calls terminal;
- the credit of a paid invoice that is cancelled is posted only from approved or invoiced
  (`route.ts:594`), not from dispatched or delivered, and not when the request names no
  credit note (`:600`): ordinary requests, after which the payment has no credit. The
  model has one posted status and puts both beside a refused entry (`PostCredit`): they
  end `calm`, so PaymentKept does not speak of them;
- tax rows refused after the entry was posted leave `unposted` beside a live entry, which
  the repost skips; the repair of cancelled invoices reverses an entry that a credit
  note already offsets.

StoreSync, outside what its properties promise (each names its exceptions):
- two POSTs that overlap between the route's read and its write undo each other;
- one refused save, a 5xx included, sends the collection whole until the next reload
  (`store.tsx:5349`), and what fails again by itself has no timer, though the message
  says "Retrying automatically." (`:5371`);
- the dirty mark is cleared while a newer edit is queued (`:5210`); a copy left dirty by a
  closed page is never pushed (`:6022`, the layout passes an empty `serverState`);
- an edit undone after its save got no answer stays on the server (`:5563`); a deletion
  before the first baseline is known is never sent, and stale rows go out again as
  upserts (`store-delta.ts:69`); a bulk deletion is merged back silently.

SalesInvoicing:
- a save of the order, or a screen's cancelling of it (`store.tsx:14517`), writes back the
  counts it read; a save sends no lockVersion and an invoice does not raise it: an
  invoice raised in between can be raised again (`backed` ends), although
  `docs/ux-phase6-user-journey-plan.md:102` says "stale tabs must not create duplicate
  invoices". A director who cuts a line's quantity and raises it again cuts the invoiced
  count too. Such a save also brings an order back that was cancelled meanwhile;
- "never lower qtyDelivered" (`deliver-lines/route.ts:70`) does not hold of two overlapping
  reports, and a heal beside an edit leaves more delivered than ordered, all billable;
- deliver-lines is posted before the validation: a refused or reversed delivery leaves its
  quantity billable (`SALES_ORDER_WORKFLOW.md:124`: "Invoiceable quantity cannot exceed
  eligible quantity.");
- a partial invoice cancelled while another stands is never billed again
  (`odoo-sales-flow.ts:212`); the document's invoices for a partial delivery cannot be
  raised, as create-invoice asks for the whole order to be delivered (`route.ts:343`);
- invoices change without their order. One cancelled, billed again and then revived, or a draft whose quantities are raised in its form
  (`invoices/[id]/route.ts:442`), bills more than its line's count: `backed` ends. A
  request that found no invoice and clears the counts beside one revived since ends it
  too, and a revived invoice is a second one of its repair;
- a reissue clears the counts of an order whose later invoices may stand (`backed` ends),
  locks nothing, and its first commit can run twice;
- an invoice credited away by a reissue still counts as live when counts are to be cleared
  (`create-invoice/route.ts:321`), although handing back leaves it out (`:155`): once a
  repair's second invoice is cancelled, its counts stay and it is never billed again.
  EventuallyBilled asks that no invoice is left, that one included;
- with the lock failing open, a reset of one request beside the invoice of another bills
  twice; a draft invoice does not keep its order from being cancelled.

Where SalesInvoicing is coarser than the code: a reissue reads the repair and its invoice
in the step that credits it; each line keeps a product of its own through a reissue, so a
screen opened before it still matches its lines; a repair is finished throughout; a
screen sends counts no larger than were ever raised.

## 8. What is not modelled

Permissions and fiscal locks (they decide whether a request is made); rounding to cents
(amounts are whole cents, so the 0.009 tolerances are exact); negative invoices; bank
reconciliation; recipients' preferences (fixed while an event is routed); the directors'
alert about failed messages. Of invoices: bills, invoices created as posted, drafts
promoted by the frozen screen copy, document-ledger-repair, portal and reissue,
renumbering, commissions. Of the store: the merges of single collections, permissions
per key, sessions that expire, the critical-key reconciliation, the IndexedDB cache. Of
orders: quotations, confirming and its heal, lines added or removed or sharing a product,
down payments, returns, the frozen `deed_saleOrders` copies, the approval of a quote in
the portal as far as it writes the order and an unposted invoice itself
(`portal/repair/[ref]/approve/route.ts:195`), a revised quote's reopening of the order,
invoices raised by hand with an order's id. Most of the repository's
lines are screens, PDF and label rendering, vendored tooling and single-record CRUD, which
hold no protocol to check. The components listed `not_modelled` in PROJECT.json, with
their reasons, are the rest.
