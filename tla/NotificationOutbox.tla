-------------------------- MODULE NotificationOutbox --------------------------
(***************************************************************************)
(* The transactional outbox of the notification platform                   *)
(* (lib/notifications/service.ts and the router and the escalation pass of *)
(* lib/notifications/worker.ts).  Business code publishes an event; a cron *)
(* worker claims the outbox rows, creates one delivery row per target and  *)
(* marks the row processed; the same run then escalates the events nobody  *)
(* acknowledged.  Runs overlap: the cron script's curl gives up after 110s *)
(* and releases its lock while the server is still working.                *)
(*                                                                         *)
(* Abstractions: a target is one (channel, destination) pair the routing   *)
(* policy gives the event; the recipient's preferences are fixed while the *)
(* event is routed; the LIMIT of a claim is larger than the number of rows; *)
(* next_attempt_at is modelled by choosing which retrying rows are due.    *)
(***************************************************************************)
EXTENDS Naturals, FiniteSets

CONSTANTS
  Events,        \* idempotency keys of the events business code publishes
  AckEvents,     \* those whose policy requires an acknowledgement
  Escalatable,   \* those whose escalation finds someone not yet notified
  Targets,       \* (channel, destination) pairs an event is routed to
  Workers,       \* overlapping runs of the notification worker
  MaxAttempts,   \* MAX_ATTEMPTS
  MaxFaults,     \* bound: routing errors in a behaviour
  MaxCrashes,    \* bound: worker processes killed in a behaviour
  NoKey          \* no outbox row

ASSUME OutboxAssumption ==
  /\ AckEvents \subseteq Events /\ Escalatable \subseteq AckEvents
  /\ MaxAttempts \in Nat \ {0}
  /\ MaxFaults \in Nat /\ MaxCrashes \in Nat
  /\ NoKey \notin Events \X {0, 1}

VARIABLES
  status,      \* notification_outbox.status, "absent" before the event exists
  attempts,    \* notification_outbox.attempt_count
  deliveries,  \* number of notification_deliveries rows per key and target
  escalateAt,  \* events whose escalate_at is set
  acked,       \* events a recipient acknowledged
  resolved,    \* events with resolved_at
  phase,       \* where each worker is in runNotificationWorker
  batch,       \* the outbox rows a worker claimed and has not finished
  cur,         \* the row a worker is routing
  todo,        \* the targets it has not upserted yet
  due,         \* the events its escalation query returned, not yet handled
  ackSeen,     \* those that were acknowledged when the query ran
  handled,     \* the event just escalated whose timer is still to be cleared
  faults, crashes

outboxVars == <<status, attempts, deliveries>>
eventVars  == <<escalateAt, acked, resolved>>
routerVars == <<batch, cur, todo>>
passVars   == <<due, ackSeen, handled>>
bounds     == <<faults, crashes>>
vars == <<outboxVars, eventVars, phase, routerVars, passVars, bounds>>

-----------------------------------------------------------------------------
(* An event and its one escalation are both outbox rows: the escalation of *)
(* e is published under the key notification-escalation:e:1.               *)

Keys          == Events \X {0, 1}
Original(e)   == <<e, 0>>
Escalation(e) == <<e, 1>>

Statuses == {"absent", "queued", "processing", "retrying", "processed", "failed"}
Phases   == {"idle", "routing", "escalating"}

TypeOK ==
  /\ status \in [Keys -> Statuses]
  /\ attempts \in [Keys -> Nat]
  /\ deliveries \in [Keys -> [Targets -> Nat]]
  /\ escalateAt \subseteq Events /\ acked \subseteq Events /\ resolved \subseteq Events
  /\ phase \in [Workers -> Phases]
  /\ batch \in [Workers -> SUBSET Keys]
  /\ cur \in [Workers -> Keys \cup {NoKey}]
  /\ todo \in [Workers -> SUBSET Targets]
  /\ due \in [Workers -> SUBSET Events]
  /\ ackSeen \in [Workers -> SUBSET Events]
  /\ handled \in [Workers -> SUBSET Events]
  /\ faults \in 0..MaxFaults /\ crashes \in 0..MaxCrashes

Init ==
  /\ status = [k \in Keys |-> "absent"]
  /\ attempts = [k \in Keys |-> 0]
  /\ deliveries = [k \in Keys |-> [t \in Targets |-> 0]]
  /\ escalateAt = {} /\ acked = {} /\ resolved = {}
  /\ phase = [w \in Workers |-> "idle"]
  /\ batch = [w \in Workers |-> {}]
  /\ cur = [w \in Workers |-> NoKey]
  /\ todo = [w \in Workers |-> {}]
  /\ due = [w \in Workers |-> {}]
  /\ ackSeen = [w \in Workers |-> {}]
  /\ handled = [w \in Workers |-> {}]
  /\ faults = 0 /\ crashes = 0

-----------------------------------------------------------------------------
(* Publishing: one transaction that returns the existing event of the key, *)
(* or creates the event and its queued outbox row.                         *)

Enqueued(k) == IF status[k] = "absent" THEN [status EXCEPT ![k] = "queued"] ELSE status

Publish(e) ==
  /\ status[Original(e)] = "absent"
  /\ status' = Enqueued(Original(e))
  /\ escalateAt' = IF e \in AckEvents THEN escalateAt \cup {e} ELSE escalateAt
  /\ UNCHANGED <<attempts, deliveries, acked, resolved, phase, routerVars, passVars, bounds>>

Acknowledge(e) ==
  /\ status[Original(e)] # "absent"
  /\ acked' = acked \cup {e}
  /\ UNCHANGED <<outboxVars, escalateAt, resolved, phase, routerVars, passVars, bounds>>

Resolve(e) ==
  /\ status[Original(e)] # "absent"
  /\ resolved' = resolved \cup {e}
  /\ UNCHANGED <<outboxVars, escalateAt, acked, phase, routerVars, passVars, bounds>>

-----------------------------------------------------------------------------
(* Routing. *)

ClaimableQueued == {k \in Keys : status[k] = "queued"}                                \* mutant

Claimable == {k \in Keys : status[k] \in {"queued", "retrying"}}

\* A run claims every queued row and the retrying rows whose time has come.
Claim(w, S) ==
  /\ phase[w] = "idle"
  /\ S \subseteq Claimable
  /\ {k \in Keys : status[k] = "queued"} \subseteq S
  /\ status' = [k \in Keys |-> IF k \in S THEN "processing" ELSE status[k]]
  /\ attempts' = [k \in Keys |-> IF k \in S THEN attempts[k] + 1 ELSE attempts[k]]
  /\ batch' = [batch EXCEPT ![w] = S]
  /\ phase' = [phase EXCEPT ![w] = "routing"]
  /\ UNCHANGED <<deliveries, eventVars, cur, todo, passVars, bounds>>

RouteBegin(w, k) ==
  /\ phase[w] = "routing" /\ cur[w] = NoKey /\ k \in batch[w]
  /\ cur' = [cur EXCEPT ![w] = k]
  /\ todo' = [todo EXCEPT ![w] = Targets]
  /\ UNCHANGED <<outboxVars, eventVars, phase, batch, passVars, bounds>>

CreateDeliveryAgain(k, t) == [deliveries EXCEPT ![k][t] = @ + 1]   \* mutant: a plain create

\* createDelivery: an upsert on event:channel:hash(destination) with an empty update.
CreateDelivery(k, t) ==
  [deliveries EXCEPT ![k][t] = IF @ = 0 THEN 1 ELSE @]

RouteTarget(w, t) ==
  /\ cur[w] # NoKey /\ t \in todo[w]
  /\ deliveries' = CreateDelivery(cur[w], t)
  /\ todo' = [todo EXCEPT ![w] = @ \ {t}]
  /\ UNCHANGED <<status, attempts, eventVars, phase, batch, cur, passVars, bounds>>

LeaveRow(w) ==
  /\ batch' = [batch EXCEPT ![w] = @ \ {cur[w]}]
  /\ cur' = [cur EXCEPT ![w] = NoKey]
  /\ todo' = [todo EXCEPT ![w] = {}]

RouteDone(w) ==
  /\ cur[w] # NoKey /\ todo[w] = {}
  /\ status' = [status EXCEPT ![cur[w]] = "processed"]
  /\ LeaveRow(w)
  /\ UNCHANGED <<attempts, deliveries, eventVars, phase, passVars, bounds>>

GiveUpLate(k) == attempts[k] > MaxAttempts      \* mutant

GiveUp(k) == attempts[k] >= MaxAttempts


AfterError(k) == IF GiveUp(k) THEN "failed" ELSE "retrying"

\* Any lookup or upsert of routeEvent throws: the rows already created stay.
RouteFail(w) ==
  /\ cur[w] # NoKey /\ faults < MaxFaults
  /\ faults' = faults + 1
  /\ status' = [status EXCEPT ![cur[w]] = AfterError(cur[w])]
  /\ LeaveRow(w)
  /\ UNCHANGED <<attempts, deliveries, eventVars, phase, passVars, crashes>>

-----------------------------------------------------------------------------
(* Escalation, after the deliveries were dispatched.  The query reads the   *)
(* due events with their recipients; each is then handled from that copy.   *)

Armed == {e \in escalateAt : e \notin resolved}

EscalationQuery(w, S) ==
  /\ phase[w] = "routing" /\ batch[w] = {}
  /\ S \subseteq Armed
  /\ due' = [due EXCEPT ![w] = S]
  /\ ackSeen' = [ackSeen EXCEPT ![w] = S \cap acked]
  /\ phase' = [phase EXCEPT ![w] = "escalating"]
  /\ UNCHANGED <<outboxVars, eventVars, routerVars, handled, bounds>>

AtEvent(w, e) == phase[w] = "escalating" /\ handled[w] = {} /\ e \in due[w]

NobodyInverted(w, e) == e \in Escalatable      \* mutant: the check inverted

\* Acknowledged, or nobody left to escalate to.
Nobody(w, e) == e \in ackSeen[w] \/ e \notin Escalatable

\* The timer is just cleared.
EscalationDrop(w, e) ==
  /\ AtEvent(w, e)
  /\ Nobody(w, e)
  /\ escalateAt' = escalateAt \ {e}
  /\ due' = [due EXCEPT ![w] = @ \ {e}]
  /\ UNCHANGED <<outboxVars, acked, resolved, phase, routerVars, ackSeen, handled, bounds>>

EscalationPublish(w, e) ==
  /\ AtEvent(w, e)
  /\ ~Nobody(w, e)
  /\ status' = Enqueued(Escalation(e))
  /\ handled' = [handled EXCEPT ![w] = {e}]
  /\ UNCHANGED <<attempts, deliveries, eventVars, phase, routerVars, due, ackSeen, bounds>>

\* Two runs publish the same escalation at once: both saw no event of its key,
\* the second insert fails on the unique key and its run ends with the exception.
EscalationConflict(w, e) ==
  /\ AtEvent(w, e) /\ ~Nobody(w, e)
  /\ \E v \in Workers \ {w} : handled[v] = {e}
  /\ phase' = [phase EXCEPT ![w] = "idle"]
  /\ due' = [due EXCEPT ![w] = {}]
  /\ ackSeen' = [ackSeen EXCEPT ![w] = {}]
  /\ UNCHANGED <<outboxVars, eventVars, routerVars, handled, bounds>>

TimerKept(w) ==      \* mutant: the timer is not cleared
  /\ handled[w] # {}
  /\ due' = [due EXCEPT ![w] = @ \ handled[w]]
  /\ handled' = [handled EXCEPT ![w] = {}]
  /\ UNCHANGED <<outboxVars, eventVars, phase, routerVars, ackSeen, bounds>>

EscalationClear(w) ==
  /\ handled[w] # {}
  /\ escalateAt' = escalateAt \ handled[w]
  /\ due' = [due EXCEPT ![w] = @ \ handled[w]]
  /\ handled' = [handled EXCEPT ![w] = {}]
  /\ UNCHANGED <<outboxVars, acked, resolved, phase, routerVars, ackSeen, bounds>>

RunEnds(w) ==
  /\ phase[w] = "escalating" /\ due[w] = {}
  /\ phase' = [phase EXCEPT ![w] = "idle"]
  /\ ackSeen' = [ackSeen EXCEPT ![w] = {}]
  /\ UNCHANGED <<outboxVars, eventVars, routerVars, due, handled, bounds>>

-----------------------------------------------------------------------------
(* The process is killed (deployment, out of memory): what it held in       *)
(* memory is gone, the rows it claimed stay as they are.                    *)

Crash(w) ==
  /\ phase[w] # "idle" /\ crashes < MaxCrashes
  /\ crashes' = crashes + 1
  /\ phase' = [phase EXCEPT ![w] = "idle"]
  /\ batch' = [batch EXCEPT ![w] = {}]
  /\ cur' = [cur EXCEPT ![w] = NoKey]
  /\ todo' = [todo EXCEPT ![w] = {}]
  /\ due' = [due EXCEPT ![w] = {}]
  /\ ackSeen' = [ackSeen EXCEPT ![w] = {}]
  /\ handled' = [handled EXCEPT ![w] = {}]
  /\ UNCHANGED <<outboxVars, eventVars, faults>>

WorkerStep(w) ==
  \/ \E k \in Keys : RouteBegin(w, k)
  \/ \E t \in Targets : RouteTarget(w, t)
  \/ RouteDone(w)
  \/ \E e \in Events : EscalationDrop(w, e) \/ EscalationPublish(w, e) \/ EscalationConflict(w, e)
  \/ EscalationClear(w)
  \/ RunEnds(w)

Next ==
  \/ \E e \in Events : Publish(e) \/ Acknowledge(e) \/ Resolve(e)
  \/ \E w \in Workers :
       \/ \E S \in SUBSET Keys : Claim(w, S)
       \/ \E S \in SUBSET Events : EscalationQuery(w, S)
       \/ WorkerStep(w)
       \/ RouteFail(w)
       \/ Crash(w)

Spec == Init /\ [][Next]_vars

-----------------------------------------------------------------------------
(* Fairness: cron starts a run every minute and a run that is not killed    *)
(* finishes (bounded timeouts); a row's retry time and an event's           *)
(* escalation time come.  Nothing makes users acknowledge or resolve.       *)

ClaimRow(w, k)      == \E S \in SUBSET Keys : k \in S /\ Claim(w, S)
QueryEvent(w, e)    == \E S \in SUBSET Events : e \in S /\ EscalationQuery(w, S)

Fairness ==
  /\ \A w \in Workers : /\ WF_vars(WorkerStep(w))
                        /\ WF_vars(\E S \in SUBSET Keys : Claim(w, S))
                        /\ WF_vars(\E S \in SUBSET Events : EscalationQuery(w, S))
  /\ \A k \in Keys : SF_vars(\E w \in Workers : ClaimRow(w, k))
  /\ \A e \in Events : SF_vars(\E w \in Workers : QueryEvent(w, e))

FairSpec == Spec /\ Fairness

-----------------------------------------------------------------------------
(* Properties. *)

\* Overlapping runs never hold the same row, and a row that is held reads
\* "processing" with the attempt that claimed it counted (the SKIP LOCKED claim).
ClaimExclusive ==
  /\ \A w \in Workers : /\ batch[w] \subseteq {k \in Keys : status[k] = "processing"}
                        /\ cur[w] # NoKey => cur[w] \in batch[w]
  /\ \A v, w \in Workers : v # w => batch[v] \cap batch[w] = {}

\* However often an event is published, retried after a routing error or left
\* half routed by a crash, a target gets at most one delivery row, and an event
\* is marked processed only when every target has its row.
RoutedExactlyOnce ==
  \A k \in Keys, t \in Targets :
    /\ deliveries[k][t] <= 1
    /\ status[k] = "processed" => deliveries[k][t] = 1

\* A row is claimed at most MaxAttempts times, and is given up only after
\* MaxAttempts claims: the retry limit is neither passed nor cut short.
AttemptLimit ==
  \A k \in Keys : /\ attempts[k] <= MaxAttempts
                  /\ status[k] = "failed" => attempts[k] = MaxAttempts
                  /\ status[k] = "retrying" => attempts[k] < MaxAttempts

\* An escalation exists only for an event that was published with a required
\* acknowledgement and that escalates; and while its timer is still set after
\* the escalation went out, a run is about to clear it or a crash lost that step.
EscalationJustified ==
  \A e \in Events : status[Escalation(e)] # "absent" =>
    /\ status[Original(e)] # "absent" /\ e \in Escalatable
    /\ e \in escalateAt /\ crashes = 0 => \E w \in Workers : e \in due[w]

\* Publishing again never restarts an event: a row returns to the queue only
\* as "retrying" from the run that holds it, and processed and failed are final.
RowNeverRestarts ==
  [][\A k \in Keys :
       /\ status'[k] = "queued" => status[k] \in {"absent", "queued"}
       /\ status'[k] = "retrying" => status[k] \in {"processing", "retrying"}
       /\ status[k] \in {"processed", "failed"} => status'[k] = status[k]]_vars

\* The durable write of service.ts:77-79: every published event is routed, or
\* given up after its retries, by the worker later.
EventuallyRouted ==
  \A k \in Keys : status[k] = "queued" ~> status[k] \in {"processed", "failed"}

\* What holds of it: while no run is killed every queued row gets there.
RoutedUnlessKilled == [](crashes = 0) => EventuallyRouted

\* An event that nobody acknowledges or resolves in time is escalated, even if
\* the run that was handling it is killed.
EventuallyEscalated ==
  \A e \in Escalatable :
    status[Original(e)] # "absent"
      ~> (e \in acked \/ e \in resolved \/ status[Escalation(e)] # "absent")
=============================================================================
