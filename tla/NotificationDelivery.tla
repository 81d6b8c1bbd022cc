------------------------- MODULE NotificationDelivery -------------------------
(***************************************************************************)
(* The life of the delivery rows the outbox creates: the dispatcher of     *)
(* lib/notifications/worker.ts, the provider webhooks that report on what  *)
(* was sent (lib/notifications/provider-status.ts) and the manual retry of *)
(* a dead letter (app/api/admin/notifications/route.ts).                   *)
(*                                                                         *)
(* A run claims rows and handles them one by one with no try/catch around  *)
(* the loop; every await is a step.  A webhook reads the row, decides, and *)
(* then updates it by id whatever it has become.  Abstractions: one        *)
(* outstanding provider message per delivery, whose webhooks may report    *)
(* any status in any order and repeatedly; next_attempt_at is modelled by  *)
(* choosing which retrying rows are due.                                   *)
(***************************************************************************)
EXTENDS Naturals, FiniteSets

CONSTANTS
  Deliveries,    \* notification_deliveries rows
  Confirmed,     \* those whose provider reports back (SMS, WhatsApp, SendGrid/SES email)
  WithFallback,  \* WhatsApp deliveries whose policy has an SMS fallback
  Workers,       \* overlapping runs of the notification worker
  Hooks,         \* webhook requests handled at the same time
  MaxAttempts,   \* MAX_ATTEMPTS
  MaxQuiet,      \* bound: times quiet hours put a delivery off
  MaxReports,    \* bound: webhook requests in a behaviour
  MaxRetries,    \* bound: manual retries in a behaviour
  MaxCrashes,    \* bound: worker processes killed in a behaviour
  NoDelivery     \* no delivery

ASSUME DeliveryAssumption ==
  /\ Confirmed \subseteq Deliveries /\ WithFallback \subseteq Deliveries
  /\ MaxAttempts \in Nat \ {0}
  /\ MaxQuiet \in Nat /\ MaxReports \in Nat /\ MaxRetries \in Nat /\ MaxCrashes \in Nat
  /\ NoDelivery \notin Deliveries

VARIABLES
  status,        \* notification_deliveries.status
  attemptCount,  \* notification_deliveries.attempt_count
  attemptNos,    \* attempt_no of its notification_attempts rows
  messageId,     \* deliveries with a provider message id
  deadLetter,    \* its notification_dead_letters row
  fallback,      \* deliveries whose SMS fallback row exists
  stage,         \* where each run is in the dispatch loop
  claimed,       \* the rows a run claimed and has not finished
  cur,           \* the row it is handling
  seen,          \* the attempt count it read from that row
  hook,          \* the webhook requests between their read and their update
  stale,         \* history: rows a manual retry found no longer a dead letter
  quiet, reports, retries, crashes

rowVars   == <<status, attemptCount, attemptNos, messageId, deadLetter, fallback>>
runVars   == <<stage, claimed, cur, seen>>
bounds    == <<quiet, reports, retries, crashes>>
vars      == <<rowVars, runVars, hook, stale, bounds>>

Statuses  == {"queued", "retrying", "sending", "sent", "delivered", "read",
              "dead_letter", "suppressed"}
Stages    == {"idle", "loop", "read", "sending", "accepted", "failed", "dead"}
Reports   == {"open", "read", "delivered", "sent", "deferred", "failed", "bounced"}
Successes == {"delivered", "read"}

NoHook == [d |-> NoDelivery, report |-> "open", status |-> "queued", count |-> 0]
HookStates ==
  [d : Deliveries \cup {NoDelivery}, report : Reports \cup {"fallback"},
   status : Statuses, count : Nat]

TypeOK ==
  /\ status \in [Deliveries -> Statuses]
  /\ attemptCount \in [Deliveries -> Nat]
  /\ attemptNos \in [Deliveries -> SUBSET Nat]
  /\ messageId \subseteq Deliveries /\ fallback \subseteq Deliveries
  /\ deadLetter \in [Deliveries -> {"none", "open", "resolved"}]
  /\ stage \in [Workers -> Stages]
  /\ claimed \in [Workers -> SUBSET Deliveries]
  /\ cur \in [Workers -> Deliveries \cup {NoDelivery}]
  /\ seen \in [Workers -> Nat]
  /\ hook \in [Hooks -> HookStates]
  /\ stale \subseteq Deliveries
  /\ quiet \in Nat /\ reports \in Nat /\ retries \in Nat /\ crashes \in Nat

Init ==
  /\ status = [d \in Deliveries |-> "queued"]
  /\ attemptCount = [d \in Deliveries |-> 0]
  /\ attemptNos = [d \in Deliveries |-> {}]
  /\ messageId = {} /\ fallback = {}
  /\ deadLetter = [d \in Deliveries |-> "none"]
  /\ stage = [w \in Workers |-> "idle"]
  /\ claimed = [w \in Workers |-> {}]
  /\ cur = [w \in Workers |-> NoDelivery]
  /\ seen = [w \in Workers |-> 0]
  /\ hook = [h \in Hooks |-> NoHook]
  /\ stale = {}
  /\ quiet = 0 /\ reports = 0 /\ retries = 0 /\ crashes = 0

-----------------------------------------------------------------------------
(* The dispatcher. *)

DueStale  == {d \in Deliveries : status[d] \in {"queued", "retrying", "sending"}}  \* mutant
DueQueued == {d \in Deliveries : status[d] = "queued"}                             \* mutant

Due == {d \in Deliveries : status[d] \in {"queued", "retrying"}}

\* A run claims every queued row and the retrying rows whose time has come.
ClaimDeliveries(w, S) ==
  /\ stage[w] = "idle"
  /\ S \subseteq Due /\ {d \in Deliveries : status[d] = "queued"} \subseteq S
  /\ status' = [d \in Deliveries |-> IF d \in S THEN "sending" ELSE status[d]]
  /\ attemptCount' = [d \in Deliveries |->
                        IF d \in S THEN attemptCount[d] + 1 ELSE attemptCount[d]]
  /\ claimed' = [claimed EXCEPT ![w] = S]
  /\ stage' = [stage EXCEPT ![w] = "loop"]
  /\ UNCHANGED <<attemptNos, messageId, deadLetter, fallback, cur, seen, hook, stale, bounds>>

ReadRow(w, d) ==
  /\ stage[w] = "loop" /\ d \in claimed[w]
  /\ cur' = [cur EXCEPT ![w] = d]
  /\ seen' = [seen EXCEPT ![w] = attemptCount[d]]
  /\ stage' = [stage EXCEPT ![w] = "read"]
  /\ UNCHANGED <<rowVars, claimed, hook, stale, bounds>>

\* The loop moves to its next row.
Continue(w) ==
  /\ stage' = [stage EXCEPT ![w] = "loop"]
  /\ claimed' = [claimed EXCEPT ![w] = @ \ {cur[w]}]
  /\ cur' = [cur EXCEPT ![w] = NoDelivery]
  /\ seen' = [seen EXCEPT ![w] = 0]

\* The channel is paused or blocked for the event, or the phone opted out.
Suppress(w) ==
  /\ stage[w] = "read"
  /\ status' = [status EXCEPT ![cur[w]] = "suppressed"]
  /\ Continue(w)
  /\ UNCHANGED <<attemptCount, attemptNos, messageId, deadLetter, fallback, hook, stale, bounds>>

UncountedKeepsAttempt(n) == n     \* mutant: the deferred attempt stays counted

Uncounted(n) == IF n = 0 THEN 0 ELSE n - 1

\* Quiet hours: the delivery is put off and the attempt is not counted.
QuietHours(w) ==
  /\ stage[w] = "read" /\ quiet < MaxQuiet
  /\ quiet' = quiet + 1
  /\ status' = [status EXCEPT ![cur[w]] = "retrying"]
  /\ attemptCount' = [attemptCount EXCEPT ![cur[w]] = Uncounted(seen[w])]
  /\ Continue(w)
  /\ UNCHANGED <<attemptNos, messageId, deadLetter, fallback, hook, stale, reports, retries, crashes>>

BeginAttempt(w) ==
  /\ stage[w] = "read" /\ seen[w] \notin attemptNos[cur[w]]
  /\ attemptNos' = [attemptNos EXCEPT ![cur[w]] = @ \cup {seen[w]}]
  /\ stage' = [stage EXCEPT ![w] = "sending"]
  /\ UNCHANGED <<status, attemptCount, messageId, deadLetter, fallback,
                 claimed, cur, seen, hook, stale, bounds>>

Abort(w) ==
  /\ stage' = [stage EXCEPT ![w] = "idle"]
  /\ claimed' = [claimed EXCEPT ![w] = {}]
  /\ cur' = [cur EXCEPT ![w] = NoDelivery]
  /\ seen' = [seen EXCEPT ![w] = 0]
  /\ UNCHANGED <<rowVars, hook, stale>>

\* The unique (deliveryId, attemptNo) rejects the attempt row: the exception
\* ends the run, and the rows it still holds stay "sending".
AttemptCollides(w) ==
  /\ stage[w] = "read" /\ seen[w] \in attemptNos[cur[w]]
  /\ Abort(w)
  /\ UNCHANGED bounds

\* The provider call: its answer, then the transaction that records it.
ProviderAccepts(w) ==
  /\ stage[w] = "sending"
  /\ stage' = [stage EXCEPT ![w] = "accepted"]
  /\ UNCHANGED <<rowVars, claimed, cur, seen, hook, stale, bounds>>

RecordSent(w) ==
  /\ stage[w] = "accepted"
  /\ status' = [status EXCEPT ![cur[w]] = "sent"]
  /\ messageId' = messageId \cup ({cur[w]} \cap Confirmed)
  /\ Continue(w)
  /\ UNCHANGED <<attemptCount, attemptNos, deadLetter, fallback, hook, stale, bounds>>

ProviderRejects(w) ==
  /\ stage[w] = "sending"
  /\ stage' = [stage EXCEPT ![w] = "failed"]
  /\ UNCHANGED <<rowVars, claimed, cur, seen, hook, stale, bounds>>

ExhaustedEarly(n) == n + 1 >= MaxAttempts  \* mutant: counts the attempts already made

Exhausted(n) == n >= MaxAttempts

RetryLater(w) ==
  /\ stage[w] = "failed" /\ ~Exhausted(seen[w])
  /\ status' = [status EXCEPT ![cur[w]] = "retrying"]
  /\ Continue(w)
  /\ UNCHANGED <<attemptCount, attemptNos, messageId, deadLetter, fallback, hook, stale, bounds>>

OpenDeadLetterOnce(d) ==   \* mutant: an upsert whose update leaves a resolved row resolved
  /\ status' = [status EXCEPT ![d] = "dead_letter"]
  /\ deadLetter' = [deadLetter EXCEPT ![d] = IF @ = "none" THEN "open" ELSE @]

OpenDeadLetterFailed(d) ==   \* mutant: the status of an outbox row
  /\ status' = [status EXCEPT ![d] = "failed"]
  /\ deadLetter' = [deadLetter EXCEPT ![d] = "open"]

\* One transaction; the upsert reopens a row an earlier retry resolved.
OpenDeadLetter(d) ==
  /\ status' = [status EXCEPT ![d] = "dead_letter"]
  /\ deadLetter' = [deadLetter EXCEPT ![d] = "open"]

GiveUp(w) ==
  /\ stage[w] = "failed" /\ Exhausted(seen[w])
  /\ OpenDeadLetter(cur[w])
  /\ stage' = [stage EXCEPT ![w] = "dead"]
  /\ UNCHANGED <<attemptCount, attemptNos, messageId, fallback, claimed, cur, seen, hook, stale, bounds>>

Unfallen(d) == fallback     \* mutant: the fallback forgotten

\* An upsert on the SMS delivery's key.
WithSmsFallback(d) == fallback \cup ({d} \cap WithFallback)

Fallback(w) ==
  /\ stage[w] = "dead"
  /\ fallback' = WithSmsFallback(cur[w])
  /\ Continue(w)
  /\ UNCHANGED <<status, attemptCount, attemptNos, messageId, deadLetter, hook, stale, bounds>>

RunEnds(w) ==
  /\ stage[w] = "loop" /\ claimed[w] = {}
  /\ stage' = [stage EXCEPT ![w] = "idle"]
  /\ UNCHANGED <<rowVars, claimed, cur, seen, hook, stale, bounds>>

\* The process is killed: the rows it claimed stay "sending".
Crash(w) ==
  /\ stage[w] # "idle" /\ crashes < MaxCrashes
  /\ crashes' = crashes + 1
  /\ Abort(w)
  /\ UNCHANGED <<quiet, reports, retries>>

-----------------------------------------------------------------------------
(* Provider webhooks. *)

Receive(h, d, r) ==
  /\ hook[h] = NoHook /\ d \in messageId /\ reports < MaxReports
  /\ reports' = reports + 1
  /\ hook' = [hook EXCEPT ![h] = [d |-> d, report |-> r, status |-> status[d],
                                  count |-> attemptCount[d]]]
  /\ UNCHANGED <<rowVars, runVars, stale, quiet, retries, crashes>>

SetStatus(d, s) ==
  /\ status' = [status EXCEPT ![d] = s]
  /\ UNCHANGED deadLetter

ConfirmRegress(m) ==   \* mutant: a late "deferred" or "sent" is not held back
  \/ m.report = "open" /\ SetStatus(m.d, "delivered")
  \/ m.report = "read" /\ SetStatus(m.d, "read")
  \/ m.report \in {"delivered", "sent"} /\ SetStatus(m.d, m.report)
  \/ m.report = "deferred" /\ SetStatus(m.d, "retrying")
  \/ m.report \in {"failed", "bounced"} /\ m.status \in Successes
     /\ UNCHANGED <<status, deadLetter>>

\* What a report does to its row, decided on the copy read earlier.  The last
\* clause is followed by the SMS fallback, the others end the request.
Confirm(m) ==
  \/ m.report = "open" /\ SetStatus(m.d, "delivered")
  \/ m.report = "read" /\ SetStatus(m.d, "read")
  \/ m.report \in {"delivered", "sent"} /\ m.status \notin Successes
     /\ SetStatus(m.d, m.report)
  \/ m.report = "deferred" /\ m.status \notin Successes /\ SetStatus(m.d, "retrying")
  \/ /\ m.report \notin {"open", "read"} /\ m.status \in Successes
     /\ UNCHANGED <<status, deadLetter>>

Undeliverable(m) ==
  m.report \in {"failed", "bounced"} /\ m.status \notin Successes

Fatal(m) == m.report = "bounced" \/ Exhausted(m.count)

Apply(h) ==
  /\ hook[h] # NoHook
  /\ \/ Confirm(hook[h])
     \/ Undeliverable(hook[h]) /\ ~Fatal(hook[h]) /\ SetStatus(hook[h].d, "retrying")
  /\ hook' = [hook EXCEPT ![h] = NoHook]
  /\ UNCHANGED <<attemptCount, attemptNos, messageId, fallback, runVars, stale, bounds>>

ApplyFatal(h) ==
  /\ hook[h] # NoHook /\ Undeliverable(hook[h]) /\ Fatal(hook[h])
  /\ OpenDeadLetter(hook[h].d)
  /\ hook' = [hook EXCEPT ![h].report = "fallback"]
  /\ UNCHANGED <<attemptCount, attemptNos, messageId, fallback, runVars, stale, bounds>>

HookFallback(h) ==
  /\ hook[h].report = "fallback"
  /\ fallback' = WithSmsFallback(hook[h].d)
  /\ hook' = [hook EXCEPT ![h] = NoHook]
  /\ UNCHANGED <<status, attemptCount, attemptNos, messageId, deadLetter, runVars, stale, bounds>>

-----------------------------------------------------------------------------
(* The operations panel requeues a dead letter it lists.  The route looks at *)
(* nothing but the id, and the list may be an old one: a second tap, or a    *)
(* second person, requeues a row whatever became of it since.                *)

RetryDeadLetter(d) ==
  /\ deadLetter[d] # "none" /\ retries < MaxRetries
  /\ retries' = retries + 1
  /\ status' = [status EXCEPT ![d] = "queued"]
  /\ attemptCount' = [attemptCount EXCEPT ![d] = 0]
  /\ deadLetter' = [deadLetter EXCEPT ![d] = "resolved"]
  /\ stale' = IF status[d] = "dead_letter" THEN stale ELSE stale \cup {d}
  /\ UNCHANGED <<attemptNos, messageId, fallback, runVars, hook, quiet, reports, crashes>>

WorkerStep(w) ==
  \/ \E d \in Deliveries : ReadRow(w, d)
  \/ Suppress(w) \/ QuietHours(w) \/ BeginAttempt(w) \/ AttemptCollides(w)
  \/ ProviderAccepts(w) \/ RecordSent(w) \/ ProviderRejects(w)
  \/ RetryLater(w) \/ GiveUp(w) \/ Fallback(w) \/ RunEnds(w)

HookStep(h) == Apply(h) \/ ApplyFatal(h) \/ HookFallback(h)

Next ==
  \/ \E w \in Workers : \/ \E S \in SUBSET Deliveries : ClaimDeliveries(w, S)
                        \/ WorkerStep(w)
                        \/ Crash(w)
  \/ \E h \in Hooks : \/ \E d \in Deliveries, r \in Reports : Receive(h, d, r)
                      \/ HookStep(h)
  \/ \E d \in Deliveries : RetryDeadLetter(d)

Spec == Init /\ [][Next]_vars

\* A run that is not killed goes on (its awaits have timeouts), cron starts the
\* next one, a retrying row's time comes, and a webhook request finishes.
ClaimRow(w, d) == \E S \in SUBSET Deliveries : d \in S /\ ClaimDeliveries(w, S)

Fairness ==
  /\ \A w \in Workers : WF_vars(WorkerStep(w))
  /\ \A d \in Deliveries : SF_vars(\E w \in Workers : ClaimRow(w, d))
  /\ \A h \in Hooks : WF_vars(HookStep(h))

FairSpec == Spec /\ Fairness

-----------------------------------------------------------------------------
(* Properties. *)

\* While no manual retry has reset the count, the attempt rows are numbered
\* without a gap, and a delivery is given up exactly when all of MAX_ATTEMPTS
\* were made, however often quiet hours put it off in between.
AttemptsComplete ==
  \A d \in Deliveries \ (Confirmed \cup stale) :
    deadLetter[d] # "resolved" =>
      /\ attemptNos[d] \in {1..n : n \in 0..MaxAttempts}
      /\ status[d] = "dead_letter" => attemptNos[d] = 1..MaxAttempts
      /\ status[d] \in {"queued", "retrying"} => attemptNos[d] = 1..attemptCount[d]

\* A given-up delivery is always on the panel's list of open dead letters, also
\* after a retry of it failed again and whichever webhook gave it up.
DeadLettersListed ==
  \A d \in Deliveries : status[d] = "dead_letter" => deadLetter[d] = "open"

\* Without reports, a delivery that was sent or suppressed is never touched again,
\* so a message a provider accepted and the run recorded goes out once.  Only a
\* manual retry of a row that is no dead letter any more sends it again, and lets
\* two runs hold it.
SentOnce ==
  [][\A d \in Deliveries \ (Confirmed \cup stale') :
       status[d] \in {"sent", "suppressed"} => status'[d] = status[d]]_vars

\* A message confirmed as delivered or read stays so ("Never regress a delivery
\* already confirmed as delivered/read", provider-status.ts:96), unless somebody
\* had read or claimed the row before: a run that holds it, or another report
\* between its read and its update (both do regress it).  The one other step that
\* takes the confirmation back is the panel's retry of a row once given up.
ConfirmedStays ==
  [][\A d \in Deliveries :
       /\ status[d] \in Successes
       /\ \A w \in Workers : d \notin claimed[w]
       /\ \A h \in Hooks : hook[h].d = d => hook[h].status \in Successes
       => status'[d] \in Successes \/ RetryDeadLetter(d)]_vars

\* While no run is killed, every queued delivery is sent, suppressed or given up.
EventuallySettled ==
  \A d \in Deliveries :
    status[d] = "queued" ~> status[d] \in {"sent", "suppressed", "dead_letter"} \cup Successes

\* A WhatsApp message that is given up, by the worker or by a report, is sent by SMS.
FallbackFollows ==
  \A d \in WithFallback : status[d] = "dead_letter" ~> d \in fallback

=============================================================================
