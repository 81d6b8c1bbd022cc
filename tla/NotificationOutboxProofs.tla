----------------------- MODULE NotificationOutboxProofs -----------------------
(***************************************************************************)
(* For any events, targets, overlapping runs and retry limit: the outbox   *)
(* rows are never shared, never restarted and never retried past the       *)
(* limit, and a processed event has exactly one delivery row per target    *)
(* (IInv); escalations are of published events whose timer ran (Timers).   *)
(***************************************************************************)
EXTENDS NotificationOutbox, TLAPS

LEMMA AtTheLimit == ASSUME NEW a \in Nat, NEW b \in Nat, a <= b, a >= b PROVE a = b
OBVIOUS

USE OutboxAssumption DEF Keys

\* A run's routed targets already have their row: what a run has removed from
\* todo is in the database, whichever run put it there.
RoutedTargets ==
  \A w \in Workers, t \in Targets :
    cur[w] # NoKey /\ t \notin todo[w] => deliveries[cur[w]][t] = 1

AtMostOneRow == \A k \in Keys, t \in Targets : deliveries[k][t] \in {0, 1}

Processed == \A k \in Keys, t \in Targets :
               status[k] = "processed" => deliveries[k][t] = 1

\* A row that was never claimed has no attempt counted.
FreshRows == \A k \in Keys : status[k] \in {"absent", "queued"} => attempts[k] = 0

\* A run holds rows only while it routes.
HeldWhileRouting == \A w \in Workers : phase[w] # "routing" => batch[w] = {}

IInv == /\ TypeOK /\ ClaimExclusive /\ AttemptLimit /\ HeldWhileRouting
        /\ RoutedTargets /\ AtMostOneRow /\ Processed /\ FreshRows

-----------------------------------------------------------------------------
\* What a step does to the rows and to the runs that hold them: the escalation
\* pass and the users only enqueue rows, or leave both alone.
Quiet ==
  /\ UNCHANGED <<outboxVars, routerVars>>
  /\ \A w \in Workers : phase'[w] # "routing" => phase[w] # "routing" \/ batch[w] = {}

Enqueues(k) == /\ status' = Enqueued(k)
               /\ UNCHANGED <<attempts, deliveries, phase, routerVars>>

Kinds ==
  \/ Quiet
  \/ \E k \in Keys : Enqueues(k)
  \/ \E w \in Workers :
       \/ \E S \in SUBSET Keys : Claim(w, S)
       \/ \E k \in Keys : RouteBegin(w, k)
       \/ \E t \in Targets : RouteTarget(w, t)
       \/ RouteDone(w) \/ RouteFail(w) \/ Crash(w)

LEMMA StepKinds == TypeOK /\ [Next]_vars => Kinds
<1> SUFFICES ASSUME TypeOK, [Next]_vars PROVE Kinds
  OBVIOUS
<1>1. ASSUME UNCHANGED vars PROVE Kinds
  BY <1>1 DEF vars, outboxVars, routerVars, Kinds, Quiet
<1>2. ASSUME NEW e \in Events, Publish(e) \/ Acknowledge(e) \/ Resolve(e) PROVE Kinds
  <2>1. CASE Publish(e)
    <3>1. Original(e) \in Keys /\ Enqueues(Original(e))
      BY <2>1 DEF Publish, Enqueues, Original
    <3>2. QED BY <3>1 DEF Kinds
  <2>2. CASE Acknowledge(e) BY <2>2 DEF Acknowledge, Kinds, Quiet
  <2>3. CASE Resolve(e) BY <2>3 DEF Resolve, Kinds, Quiet
  <2>4. QED BY <1>2, <2>1, <2>2, <2>3
<1>3. ASSUME NEW w \in Workers, NEW e \in Events,
             EscalationDrop(w, e) \/ EscalationPublish(w, e) \/ EscalationConflict(w, e)
      PROVE Kinds
  <2>1. CASE EscalationDrop(w, e) BY <2>1 DEF EscalationDrop, Kinds, Quiet
  <2>2. CASE EscalationPublish(w, e)
    <3>1. Escalation(e) \in Keys /\ Enqueues(Escalation(e))
      BY <2>2 DEF EscalationPublish, Enqueues, Escalation
    <3>2. QED BY <3>1 DEF Kinds
  <2>3. CASE EscalationConflict(w, e)
    BY <2>3 DEF EscalationConflict, AtEvent, Kinds, Quiet, TypeOK
  <2>4. QED BY <1>3, <2>1, <2>2, <2>3
<1>4. ASSUME NEW w \in Workers, EscalationClear(w) \/ RunEnds(w) PROVE Kinds
  BY <1>4 DEF EscalationClear, RunEnds, Kinds, Quiet, TypeOK
<1>5. ASSUME NEW w \in Workers, NEW S \in SUBSET Events, EscalationQuery(w, S) PROVE Kinds
  BY <1>5 DEF EscalationQuery, Kinds, Quiet, TypeOK
<1>6. ASSUME NEW w \in Workers, WorkerStep(w) PROVE Kinds
  BY <1>3, <1>4, <1>6 DEF WorkerStep, Kinds
<1>7. QED BY <1>1, <1>2, <1>5, <1>6 DEF Next, Kinds

-----------------------------------------------------------------------------
LEMMA TypeInit == Init => TypeOK
BY DEF Init, TypeOK, Statuses, Phases

LEMMA TypeStep == TypeOK /\ [Next]_vars => TypeOK'
<1> SUFFICES ASSUME TypeOK, [Next]_vars PROVE TypeOK'
  OBVIOUS
<1> USE DEF TypeOK, Statuses, Phases, outboxVars, eventVars, routerVars, passVars, bounds
<1>1. CASE UNCHANGED vars BY <1>1 DEF vars
<1>2. ASSUME NEW e \in Events, Publish(e) PROVE TypeOK'
  BY <1>2 DEF Publish, Enqueued, Original
<1>3. ASSUME NEW e \in Events, Acknowledge(e) PROVE TypeOK'
  BY <1>3 DEF Acknowledge
<1>4. ASSUME NEW e \in Events, Resolve(e) PROVE TypeOK'
  BY <1>4 DEF Resolve
<1>5. ASSUME NEW w \in Workers, NEW S \in SUBSET Keys, Claim(w, S) PROVE TypeOK'
  BY <1>5 DEF Claim
<1>6. ASSUME NEW w \in Workers, NEW S \in SUBSET Events, EscalationQuery(w, S) PROVE TypeOK'
  BY <1>6 DEF EscalationQuery
<1>7. ASSUME NEW w \in Workers, NEW k \in Keys, RouteBegin(w, k) PROVE TypeOK'
  BY <1>7 DEF RouteBegin
<1>8. ASSUME NEW w \in Workers, NEW t \in Targets, RouteTarget(w, t) PROVE TypeOK'
  BY <1>8 DEF RouteTarget, CreateDelivery
<1>9. ASSUME NEW w \in Workers, RouteDone(w) PROVE TypeOK'
  BY <1>9 DEF RouteDone, LeaveRow
<1>10. ASSUME NEW w \in Workers, RouteFail(w) PROVE TypeOK'
  BY <1>10 DEF RouteFail, LeaveRow, AfterError
<1>11. ASSUME NEW w \in Workers, NEW e \in Events, EscalationDrop(w, e) PROVE TypeOK'
  BY <1>11 DEF EscalationDrop
<1>12. ASSUME NEW w \in Workers, NEW e \in Events, EscalationPublish(w, e) PROVE TypeOK'
  BY <1>12 DEF EscalationPublish, Enqueued, Escalation
<1>13. ASSUME NEW w \in Workers, NEW e \in Events, EscalationConflict(w, e) PROVE TypeOK'
  BY <1>13 DEF EscalationConflict
<1>14. ASSUME NEW w \in Workers, EscalationClear(w) PROVE TypeOK'
  BY <1>14 DEF EscalationClear
<1>15. ASSUME NEW w \in Workers, RunEnds(w) PROVE TypeOK'
  BY <1>15 DEF RunEnds
<1>16. ASSUME NEW w \in Workers, Crash(w) PROVE TypeOK'
  BY <1>16 DEF Crash
<1>17. QED
  BY <1>1, <1>2, <1>3, <1>4, <1>5, <1>6, <1>7, <1>8, <1>9, <1>10, <1>11, <1>12,
     <1>13, <1>14, <1>15, <1>16 DEF Next, WorkerStep

\* The state of an outbox and its runs is always a state of the declared type.
THEOREM TypeCorrect == Spec => []TypeOK
BY TypeInit, TypeStep, PTL DEF Spec

-----------------------------------------------------------------------------
Rows == /\ ClaimExclusive /\ AttemptLimit /\ HeldWhileRouting
        /\ RoutedTargets /\ AtMostOneRow /\ Processed /\ FreshRows

LEMMA RowsInit == Init => Rows
BY DEF Init, Rows, ClaimExclusive, AttemptLimit, HeldWhileRouting, RoutedTargets,
       AtMostOneRow, Processed, FreshRows

LEMMA RowsStep == IInv /\ Kinds /\ TypeOK' => Rows'
<1> SUFFICES ASSUME IInv, Kinds, TypeOK' PROVE Rows'
  OBVIOUS
<1> USE DEF IInv, TypeOK, Statuses, outboxVars, routerVars
<1>1. CASE Quiet
  <2>1. ClaimExclusive' /\ AttemptLimit' BY <1>1 DEF Quiet, ClaimExclusive, AttemptLimit
  <2>2. HeldWhileRouting' BY <1>1 DEF Quiet, HeldWhileRouting
  <2>3. RoutedTargets' /\ AtMostOneRow' BY <1>1 DEF Quiet, RoutedTargets, AtMostOneRow
  <2>4. Processed' /\ FreshRows' BY <1>1 DEF Quiet, Processed, FreshRows
  <2>5. QED BY <2>1, <2>2, <2>3, <2>4 DEF Rows
<1>2. ASSUME NEW k \in Keys, Enqueues(k) PROVE Rows'
  <2>1. ClaimExclusive' /\ HeldWhileRouting'
    BY <1>2 DEF Enqueues, Enqueued, ClaimExclusive, HeldWhileRouting
  <2>2. AttemptLimit' /\ FreshRows'
    BY <1>2 DEF Enqueues, Enqueued, AttemptLimit, FreshRows
  <2>3. RoutedTargets' /\ AtMostOneRow'
    BY <1>2 DEF Enqueues, RoutedTargets, AtMostOneRow
  <2>4. Processed' BY <1>2 DEF Enqueues, Enqueued, Processed
  <2>5. QED BY <2>1, <2>2, <2>3, <2>4 DEF Rows
<1>3. ASSUME NEW w \in Workers, NEW S \in SUBSET Keys, Claim(w, S) PROVE Rows'
  <2>1. ClaimExclusive' /\ HeldWhileRouting'
    <3>1. ASSUME NEW v \in Workers PROVE batch[v] \cap S = {}
      <4>1. \A k \in S : status[k] # "processing" BY <1>3 DEF Claim, Claimable
      <4>2. \A k \in batch[v] : status[k] = "processing" BY DEF ClaimExclusive
      <4>3. QED BY <4>1, <4>2
    <3>2. \A v \in Workers : batch'[v] = IF v = w THEN S ELSE batch[v]
      BY <1>3 DEF Claim
    <3>3. \A v \in Workers : batch'[v] \subseteq {k \in Keys : status'[k] = "processing"}
      BY <1>3, <3>2 DEF Claim, ClaimExclusive
    <3>4. \A v \in Workers : cur'[v] # NoKey => cur'[v] \in batch'[v]
      BY <1>3, <3>2 DEF Claim, ClaimExclusive, HeldWhileRouting
    <3>5. ASSUME NEW u \in Workers, NEW v \in Workers, u # v
          PROVE batch'[u] \cap batch'[v] = {}
      <4>1. batch[u] \cap batch[v] = {} BY <3>5 DEF ClaimExclusive
      <4>2. QED BY <4>1, <3>5, <3>1, <3>2
    <3>6. HeldWhileRouting' BY <1>3, <3>2 DEF Claim, HeldWhileRouting
    <3>7. QED BY <3>3, <3>4, <3>5, <3>6 DEF ClaimExclusive
  <2>2. AttemptLimit' /\ FreshRows'
    BY <1>3 DEF Claim, Claimable, AttemptLimit, FreshRows
  <2>3. RoutedTargets' /\ AtMostOneRow' /\ Processed'
    BY <1>3 DEF Claim, RoutedTargets, AtMostOneRow, Processed
  <2>4. QED BY <2>1, <2>2, <2>3 DEF Rows
<1>4. ASSUME NEW w \in Workers, NEW k \in Keys, RouteBegin(w, k) PROVE Rows'
  <2>1. ClaimExclusive' /\ HeldWhileRouting'
    BY <1>4 DEF RouteBegin, ClaimExclusive, HeldWhileRouting
  <2>2. RoutedTargets' BY <1>4 DEF RouteBegin, RoutedTargets
  <2>3. AttemptLimit' /\ FreshRows' /\ AtMostOneRow' /\ Processed'
    BY <1>4 DEF RouteBegin, AttemptLimit, FreshRows, AtMostOneRow, Processed
  <2>4. QED BY <2>1, <2>2, <2>3 DEF Rows
<1>5. ASSUME NEW w \in Workers, NEW t \in Targets, RouteTarget(w, t) PROVE Rows'
  <2>1. cur[w] \in Keys BY <1>5 DEF RouteTarget
  <2>2. \A k \in Keys, x \in Targets :
          deliveries'[k][x] = IF k = cur[w] /\ x = t THEN 1 ELSE deliveries[k][x]
    BY <1>5, <2>1 DEF RouteTarget, CreateDelivery, AtMostOneRow
  <2>3. RoutedTargets'
    <3>1. ASSUME NEW v \in Workers, NEW x \in Targets, cur'[v] # NoKey, x \notin todo'[v]
          PROVE deliveries'[cur'[v]][x] = 1
      <4>1. cur'[v] = cur[v] /\ cur[v] \in Keys BY <1>5, <3>1 DEF RouteTarget
      <4>2. CASE x \notin todo[v] BY <3>1, <4>1, <4>2, <2>2 DEF RoutedTargets
      <4>3. CASE x \in todo[v]
        <5>1. v = w /\ x = t BY <1>5, <3>1, <4>3 DEF RouteTarget
        <5>2. QED BY <5>1, <4>1, <2>2
      <4>4. QED BY <4>2, <4>3
    <3>2. QED BY <3>1 DEF RoutedTargets
  <2>4. AtMostOneRow' /\ Processed'
    BY <1>5, <2>2 DEF RouteTarget, AtMostOneRow, Processed
  <2>5. ClaimExclusive' /\ HeldWhileRouting' /\ AttemptLimit' /\ FreshRows'
    BY <1>5 DEF RouteTarget, ClaimExclusive, HeldWhileRouting, AttemptLimit, FreshRows
  <2>6. QED BY <2>3, <2>4, <2>5 DEF Rows
<1>6. ASSUME NEW w \in Workers, NEW s \in {"processed", "failed", "retrying"},
             cur[w] # NoKey, LeaveRow(w), status' = [status EXCEPT ![cur[w]] = s],
             UNCHANGED <<attempts, deliveries, phase>>
      PROVE /\ ClaimExclusive' /\ HeldWhileRouting'
            /\ RoutedTargets' /\ AtMostOneRow' /\ FreshRows'
  <2>1. cur[w] \in batch[w] /\ cur[w] \in Keys BY <1>6 DEF ClaimExclusive
  <2>2. \A v \in Workers :
          /\ v # w => cur[w] \notin batch[v]
          /\ batch'[v] = (IF v = w THEN batch[w] \ {cur[w]} ELSE batch[v])
          /\ cur'[v] = (IF v = w THEN NoKey ELSE cur[v])
    BY <1>6, <2>1 DEF LeaveRow, ClaimExclusive
  <2>3. ClaimExclusive'
    <3>1. ASSUME NEW v \in Workers, NEW k \in batch'[v]
          PROVE k \in Keys /\ status'[k] = "processing"
      <4>1. k \in batch[v] /\ k # cur[w]
        <5>1. CASE v = w BY <5>1, <3>1, <2>2
        <5>2. CASE v # w BY <5>2, <3>1, <2>2
        <5>3. QED BY <5>1, <5>2
      <4>2. k \in Keys /\ status[k] = "processing" BY <4>1 DEF ClaimExclusive
      <4>3. QED BY <1>6, <4>1, <4>2, <2>1
    <3>2. \A v \in Workers : cur'[v] # NoKey => cur'[v] \in batch'[v]
      BY <2>2 DEF ClaimExclusive
    <3>3. \A u, v \in Workers : u # v => batch'[u] \cap batch'[v] = {}
      BY <2>2 DEF ClaimExclusive
    <3>4. QED BY <3>1, <3>2, <3>3 DEF ClaimExclusive
  <2>4. RoutedTargets' BY <1>6, <2>2 DEF LeaveRow, RoutedTargets
  <2>5. AtMostOneRow' /\ FreshRows' BY <1>6, <2>1 DEF AtMostOneRow, FreshRows
  <2>6. HeldWhileRouting' BY <1>6, <2>2 DEF HeldWhileRouting
  <2>7. QED BY <2>3, <2>4, <2>5, <2>6
<1>7. ASSUME NEW w \in Workers, RouteDone(w) PROVE Rows'
  <2>1. cur[w] \in batch[w] /\ cur[w] \in Keys BY <1>7 DEF RouteDone, ClaimExclusive
  <2>2. /\ ClaimExclusive' /\ HeldWhileRouting'
        /\ RoutedTargets' /\ AtMostOneRow' /\ FreshRows'
    BY <1>6, <1>7 DEF RouteDone
  <2>3. Processed' BY <1>7, <2>1 DEF RouteDone, Processed, RoutedTargets
  <2>4. AttemptLimit' BY <1>7, <2>1 DEF RouteDone, AttemptLimit
  <2>5. QED BY <2>2, <2>3, <2>4 DEF Rows
<1>8. ASSUME NEW w \in Workers, RouteFail(w) PROVE Rows'
  <2>1. cur[w] \in batch[w] /\ cur[w] \in Keys BY <1>8 DEF RouteFail, ClaimExclusive
  <2>2. AfterError(cur[w]) \in {"processed", "failed", "retrying"} BY DEF AfterError
  <2>3. /\ ClaimExclusive' /\ HeldWhileRouting'
        /\ RoutedTargets' /\ AtMostOneRow' /\ FreshRows'
    BY <1>6, <1>8, <2>2 DEF RouteFail
  <2>4. Processed' BY <1>8, <2>1 DEF RouteFail, AfterError, Processed
  <2>5. AttemptLimit'
    <3>1. \A k \in Keys : attempts[k] \in Nat /\ attempts[k] <= MaxAttempts
      BY DEF AttemptLimit
    <3>2. \A k \in Keys : status'[k] = IF k = cur[w] THEN AfterError(k) ELSE status[k]
      BY <1>8, <2>1 DEF RouteFail
    <3>3. attempts' = attempts BY <1>8 DEF RouteFail
    <3>4. ASSUME NEW k \in Keys
          PROVE /\ attempts'[k] <= MaxAttempts
                /\ status'[k] = "failed" => attempts'[k] = MaxAttempts
                /\ status'[k] = "retrying" => attempts'[k] < MaxAttempts
      <4>1. CASE k # cur[w]
        <5>1. status'[k] = status[k] /\ attempts'[k] = attempts[k] BY <4>1, <3>2, <3>3
        <5>2. QED BY <5>1 DEF AttemptLimit
      <4>2. CASE k = cur[w] /\ attempts[k] >= MaxAttempts
        <5>1. attempts[k] = MaxAttempts /\ attempts'[k] = MaxAttempts
          <6>1. attempts[k] \in Nat /\ attempts[k] <= MaxAttempts /\ MaxAttempts \in Nat
            BY <3>1
          <6>2. attempts[k] >= MaxAttempts BY <4>2
          <6>3. attempts[k] = MaxAttempts BY <6>1, <6>2, AtTheLimit
          <6>4. QED BY <6>3, <3>3
        <5>2. status'[k] = "failed" BY <4>2, <3>2 DEF AfterError, GiveUp
        <5>3. QED BY <5>1, <5>2
      <4>3. CASE k = cur[w] /\ ~(attempts[k] >= MaxAttempts)
        <5>1. attempts'[k] < MaxAttempts BY <4>3, <3>1, <3>3
        <5>2. status'[k] = "retrying" BY <4>3, <3>2 DEF AfterError, GiveUp
        <5>3. QED BY <5>1, <5>2
      <4>4. QED BY <4>1, <4>2, <4>3
    <3>5. QED BY <3>4 DEF AttemptLimit
  <2>6. QED BY <2>3, <2>4, <2>5 DEF Rows
<1>9. ASSUME NEW w \in Workers, Crash(w) PROVE Rows'
  <2>1. ClaimExclusive' /\ HeldWhileRouting' /\ RoutedTargets'
    BY <1>9 DEF Crash, ClaimExclusive, HeldWhileRouting, RoutedTargets
  <2>2. AttemptLimit' /\ FreshRows' /\ AtMostOneRow' /\ Processed'
    BY <1>9 DEF Crash, AttemptLimit, FreshRows, AtMostOneRow, Processed
  <2>3. QED BY <2>1, <2>2 DEF Rows
<1>10. QED BY <1>1, <1>2, <1>3, <1>4, <1>5, <1>7, <1>8, <1>9 DEF Kinds

\* The conjunction the properties follow from holds in every reachable state.
THEOREM OutboxInductive == Spec => []IInv
<1>1. Init => IInv BY TypeInit, RowsInit DEF IInv, Rows
<1>2. IInv /\ [Next]_vars => IInv'
  <2>1. IInv /\ [Next]_vars => TypeOK' BY TypeStep DEF IInv
  <2>2. IInv /\ [Next]_vars => Rows' BY <2>1, StepKinds, RowsStep DEF IInv
  <2>3. QED BY <2>1, <2>2 DEF IInv, Rows
<1>3. QED BY <1>1, <1>2, PTL DEF Spec

\* However many runs overlap, no two hold the same outbox row (claimOutbox).
THEOREM ClaimIsExclusive == Spec => []ClaimExclusive
<1>1. IInv => ClaimExclusive BY DEF IInv
<1>2. QED BY <1>1, OutboxInductive, PTL

\* For every retry limit, a row is claimed at most that often and fails only then.
THEOREM RetriesAreLimited == Spec => []AttemptLimit
<1>1. IInv => AttemptLimit BY DEF IInv
<1>2. QED BY <1>1, OutboxInductive, PTL

\* Any interleaving of runs, routing errors and crashes leaves at most one delivery
\* row per target, and exactly one for every target of a processed event.
THEOREM RoutedOnce == Spec => []RoutedExactlyOnce
<1>1. IInv => RoutedExactlyOnce
  BY DEF IInv, TypeOK, RoutedExactlyOnce, AtMostOneRow, Processed
<1>2. QED BY <1>1, OutboxInductive, PTL

-----------------------------------------------------------------------------
LEMMA RestartStep ==
  IInv /\ Kinds =>
    \A k \in Keys :
       /\ status'[k] = "queued" => status[k] \in {"absent", "queued"}
       /\ status'[k] = "retrying" => status[k] \in {"processing", "retrying"}
       /\ status[k] \in {"processed", "failed"} => status'[k] = status[k]
<1> SUFFICES ASSUME IInv, Kinds, NEW k \in Keys
             PROVE /\ status'[k] = "queued" => status[k] \in {"absent", "queued"}
                   /\ status'[k] = "retrying" => status[k] \in {"processing", "retrying"}
                   /\ status[k] \in {"processed", "failed"} => status'[k] = status[k]
  OBVIOUS
<1> USE DEF IInv, TypeOK, Statuses, outboxVars, routerVars
<1>1. CASE Quiet BY <1>1 DEF Quiet
<1>2. ASSUME NEW j \in Keys, Enqueues(j) PROVE status'[k] = Enqueued(j)[k]
  BY <1>2 DEF Enqueues
<1>3. CASE \E j \in Keys : Enqueues(j) BY <1>2, <1>3 DEF Enqueued
<1>4. ASSUME NEW w \in Workers, RouteDone(w) \/ RouteFail(w)
      PROVE /\ status[cur[w]] = "processing" /\ cur[w] \in Keys
            /\ \A j \in Keys \ {cur[w]} : status'[j] = status[j]
            /\ status'[cur[w]] \in {"processed", "failed", "retrying"}
  BY <1>4 DEF RouteDone, RouteFail, AfterError, ClaimExclusive
<1>5. CASE \E w \in Workers : RouteDone(w) \/ RouteFail(w) BY <1>4, <1>5
<1>6. CASE \E w \in Workers : \E S \in SUBSET Keys : Claim(w, S)
  <2>1. PICK w \in Workers, S \in SUBSET Keys : Claim(w, S) BY <1>6
  <2>2. status'[k] = (IF k \in S THEN "processing" ELSE status[k]) BY <2>1 DEF Claim
  <2>3. k \in S => status[k] \in {"queued", "retrying"} BY <2>1 DEF Claim, Claimable
  <2>4. QED BY <2>2, <2>3
<1>7. CASE \E w \in Workers : \/ \E j \in Keys : RouteBegin(w, j)
                              \/ \E t \in Targets : RouteTarget(w, t)
                              \/ Crash(w)
  BY <1>7 DEF RouteBegin, RouteTarget, Crash
<1>8. QED BY <1>1, <1>3, <1>5, <1>6, <1>7 DEF Kinds

\* Publishing an event again, or escalating it again, never restarts it.
THEOREM RowsNeverRestart == Spec => RowNeverRestarts
<1>1. IInv /\ [Next]_vars =>
        [\A k \in Keys :
           /\ status'[k] = "queued" => status[k] \in {"absent", "queued"}
           /\ status'[k] = "retrying" => status[k] \in {"processing", "retrying"}
           /\ status[k] \in {"processed", "failed"} => status'[k] = status[k]]_vars
  BY StepKinds, RestartStep DEF IInv
<1>2. QED BY <1>1, OutboxInductive, PTL DEF Spec, RowNeverRestarts


-----------------------------------------------------------------------------
(* Escalation.  A timer is set and a run holds an event only after it was   *)
(* published; and what a run has just escalated it holds until the timer is *)
(* cleared, so a timer that outlives its escalation has a run behind it.    *)

Published(e) == status[Original(e)] # "absent"
Escalated(e) == status[Escalation(e)] # "absent"

TimersPublished == \A e \in escalateAt : Published(e)

DueKnown ==
  \A w \in Workers : /\ \A e \in due[w] : Published(e)
                     /\ handled[w] \subseteq due[w]
                     /\ phase[w] # "escalating" => due[w] = {}

EscalatedRightly == \A e \in Events : Escalated(e) => Published(e) /\ e \in Escalatable

TimerHeld ==
  \A e \in escalateAt : Escalated(e) /\ crashes = 0 => \E w \in Workers : e \in handled[w]

Timers == TimersPublished /\ DueKnown /\ EscalatedRightly /\ TimerHeld

(* No row begins to exist or ceases to. *)
RowsKept == \A k \in Keys : status'[k] = "absent" <=> status[k] = "absent"

LEMMA KeptRows == RowsKept => \A e \in Events : (Published(e)' <=> Published(e)) /\ (Escalated(e)' <=> Escalated(e))
BY DEF RowsKept, Published, Escalated, Original, Escalation

(* A row is enqueued: it exists afterwards, and the others as before.      *)
LEMMA EnqueuedRows ==
  ASSUME TypeOK, NEW k \in Keys, status' = Enqueued(k)
  PROVE  status'[k] # "absent" /\ \A j \in Keys \ {k} : status'[j] = status[j]
BY DEF TypeOK, Enqueued

PassesKept == \A w \in Workers : phase'[w] = "escalating" <=> phase[w] = "escalating"

LEMMA RoutingTimers ==
  ASSUME IInv, Timers, RowsKept, eventVars' = eventVars, passVars' = passVars, crashes' = crashes,
         PassesKept
  PROVE  Timers'
<1>1. \A e \in Events : (Published(e)' <=> Published(e)) /\ (Escalated(e)' <=> Escalated(e))
  BY KeptRows
<1>2. escalateAt \subseteq Events /\ \A w \in Workers : due[w] \subseteq Events
  BY DEF IInv, TypeOK
<1>3. TimersPublished' /\ EscalatedRightly' /\ TimerHeld'
  BY <1>1, <1>2 DEF Timers, TimersPublished, EscalatedRightly, TimerHeld, eventVars, passVars
<1>4. DueKnown'
  BY <1>1, <1>2 DEF Timers, DueKnown, passVars, PassesKept
<1>5. QED
  BY <1>3, <1>4 DEF Timers

LEMMA TimersStep ==
  ASSUME IInv, Timers, [Next]_vars
  PROVE  Timers'
<1> USE DEF IInv, TypeOK, outboxVars, routerVars, bounds
<1>0. \A e \in Events : Original(e) \in Keys /\ Escalation(e) \in Keys /\ Original(e) # Escalation(e)
  BY DEF Original, Escalation
<1>1. CASE UNCHANGED vars
  BY <1>1, RoutingTimers DEF vars, RowsKept, PassesKept
<1>2. ASSUME NEW e \in Events, Publish(e) PROVE Timers'
  <2>1. status'[Original(e)] # "absent" /\ \A k \in Keys \ {Original(e)} : status'[k] = status[k]
    BY <1>0, <1>2, EnqueuedRows DEF Publish
  <2>2. \A f \in Events : Published(f)' = (Published(f) \/ f = e) /\ Escalated(f)' = Escalated(f)
    BY <1>0, <2>1 DEF Published, Escalated, Original, Escalation
  <2>3. ~ Escalated(e)
    BY <1>2 DEF Publish, Timers, EscalatedRightly, Published
  <2>4. TimersPublished' /\ EscalatedRightly' /\ TimerHeld'
    BY <1>2, <2>2, <2>3
    DEF Publish, Timers, TimersPublished, EscalatedRightly, TimerHeld, passVars
  <2>5. DueKnown'
    BY <1>2, <2>2 DEF Publish, Timers, DueKnown, passVars
  <2>6. QED
    BY <2>4, <2>5 DEF Timers
<1>3. ASSUME NEW e \in Events, Acknowledge(e) \/ Resolve(e) PROVE Timers'
  <2>1. /\ UNCHANGED <<status, escalateAt, passVars, crashes>> /\ phase' = phase
    BY <1>3 DEF Acknowledge, Resolve
  <2>2. QED
    BY <2>1 DEF Timers, TimersPublished, DueKnown, EscalatedRightly, TimerHeld, passVars,
                Published, Escalated
<1>4. ASSUME NEW w \in Workers, NEW S \in SUBSET Keys, Claim(w, S) PROVE Timers'
  <2>1. RowsKept
    BY <1>4 DEF Claim, Claimable, RowsKept
  <2>2. QED
    BY <1>4, <2>1, RoutingTimers DEF Claim, PassesKept
<1>5. ASSUME NEW w \in Workers, NEW S \in SUBSET Events, EscalationQuery(w, S) PROVE Timers'
  <2>1. /\ UNCHANGED <<status, escalateAt, handled, crashes>>
        /\ \A v \in Workers : due'[v] = IF v = w THEN S ELSE due[v]
        /\ \A v \in Workers : phase'[v] = IF v = w THEN "escalating" ELSE phase[v]
        /\ S \subseteq escalateAt /\ phase[w] # "escalating"
    BY <1>5 DEF EscalationQuery, Armed, eventVars
  <2>2. TimersPublished' /\ EscalatedRightly' /\ TimerHeld'
    BY <2>1 DEF Timers, TimersPublished, EscalatedRightly, TimerHeld, Published, Escalated
  <2>3. handled[w] = {} /\ \A e \in S : Published(e)
    BY <2>1 DEF Timers, TimersPublished, DueKnown
  <2>4. DueKnown'
    BY <2>1, <2>3 DEF Timers, DueKnown, Published
  <2>5. QED
    BY <2>2, <2>4 DEF Timers
<1>6. ASSUME NEW w \in Workers, NEW k \in Keys, RouteBegin(w, k) PROVE Timers'
  BY <1>6, RoutingTimers DEF RouteBegin, RowsKept, PassesKept
<1>7. ASSUME NEW w \in Workers, NEW t \in Targets, RouteTarget(w, t) PROVE Timers'
  <2>1. RowsKept /\ UNCHANGED <<eventVars, passVars, crashes, phase>>
    BY <1>7 DEF RouteTarget, RowsKept
  <2>2. PassesKept
    BY <2>1 DEF PassesKept
  <2> HIDE DEF IInv, TypeOK
  <2>3. QED
    BY <2>1, <2>2, RoutingTimers
<1>8. ASSUME NEW w \in Workers, RouteDone(w) \/ RouteFail(w) PROVE Timers'
  <2>1. /\ cur[w] \in Keys /\ status[cur[w]] = "processing"
        /\ \A k \in Keys : k # cur[w] => status'[k] = status[k]
        /\ status'[cur[w]] # "absent"
    BY <1>8 DEF RouteDone, RouteFail, AfterError, ClaimExclusive
  <2>2. RowsKept
    BY <2>1 DEF RowsKept
  <2>3. UNCHANGED <<eventVars, passVars, crashes, phase>>
    BY <1>8 DEF RouteDone, RouteFail
  <2>4. PassesKept
    BY <2>3 DEF PassesKept
  <2> HIDE DEF IInv, TypeOK
  <2>5. QED
    BY <2>2, <2>3, <2>4, RoutingTimers
<1>9. ASSUME NEW w \in Workers, NEW e \in Events, EscalationDrop(w, e) PROVE Timers'
  <2>1. /\ UNCHANGED <<status, handled, crashes, phase>>
        /\ escalateAt' = escalateAt \ {e} /\ handled[w] = {}
        /\ \A v \in Workers : due'[v] = IF v = w THEN due[v] \ {e} ELSE due[v]
    BY <1>9 DEF EscalationDrop, AtEvent
  <2>2. TimersPublished' /\ EscalatedRightly' /\ TimerHeld'
    BY <2>1 DEF Timers, TimersPublished, EscalatedRightly, TimerHeld, Published, Escalated
  <2>3. DueKnown'
    BY <2>1 DEF Timers, DueKnown, Published
  <2>4. QED
    BY <2>2, <2>3 DEF Timers
<1>10. ASSUME NEW w \in Workers, NEW e \in Events, EscalationPublish(w, e) PROVE Timers'
  <2>1. status'[Escalation(e)] # "absent" /\ \A k \in Keys \ {Escalation(e)} : status'[k] = status[k]
    BY <1>0, <1>10, EnqueuedRows DEF EscalationPublish
  <2>2. \A f \in Events : Published(f)' = Published(f) /\ Escalated(f)' = (Escalated(f) \/ f = e)
    BY <1>0, <2>1 DEF Published, Escalated, Original, Escalation
  <2>3. /\ UNCHANGED <<escalateAt, due, crashes, phase>>
        /\ e \in due[w] /\ e \in Escalatable /\ handled[w] = {}
        /\ \A v \in Workers : handled'[v] = IF v = w THEN {e} ELSE handled[v]
    BY <1>10 DEF EscalationPublish, AtEvent, Nobody, eventVars
  <2>4. TimersPublished' /\ EscalatedRightly'
    BY <2>2, <2>3 DEF Timers, TimersPublished, DueKnown, EscalatedRightly
  <2>5. TimerHeld'
    <3> SUFFICES ASSUME NEW f \in escalateAt, Escalated(f)', crashes = 0
                 PROVE  \E v \in Workers : f \in handled'[v]
      BY <2>3 DEF TimerHeld
    <3>1. CASE f = e
      BY <2>3, <3>1
    <3>2. CASE f # e
      <4>1. PICK v \in Workers : f \in handled[v]
        BY <2>2, <3>2 DEF Timers, TimerHeld
      <4>2. f \in handled'[v]
        BY <2>3, <4>1
      <4>3. QED
        BY <4>2
    <3>3. QED
      BY <3>1, <3>2
  <2>6. DueKnown'
    BY <2>2, <2>3 DEF Timers, DueKnown
  <2>7. QED
    BY <2>4, <2>5, <2>6 DEF Timers
<1>11. ASSUME NEW w \in Workers, NEW e \in Events, EscalationConflict(w, e) PROVE Timers'
  <2>1. /\ UNCHANGED <<status, escalateAt, handled, crashes>> /\ handled[w] = {}
        /\ \A v \in Workers : due'[v] = IF v = w THEN {} ELSE due[v]
        /\ \A v \in Workers : phase'[v] = IF v = w THEN "idle" ELSE phase[v]
    BY <1>11 DEF EscalationConflict, AtEvent, eventVars
  <2>2. TimersPublished' /\ EscalatedRightly' /\ TimerHeld'
    BY <2>1 DEF Timers, TimersPublished, EscalatedRightly, TimerHeld, Published, Escalated
  <2>3. DueKnown'
    BY <2>1 DEF Timers, DueKnown, Published
  <2>4. QED
    BY <2>2, <2>3 DEF Timers
<1>12. ASSUME NEW w \in Workers, EscalationClear(w) PROVE Timers'
  <2>1. /\ UNCHANGED <<status, crashes, phase>> /\ escalateAt' = escalateAt \ handled[w]
        /\ \A v \in Workers : due'[v] = IF v = w THEN due[v] \ handled[v] ELSE due[v]
        /\ \A v \in Workers : handled'[v] = IF v = w THEN {} ELSE handled[v]
    BY <1>12 DEF EscalationClear
  <2>2. TimersPublished' /\ EscalatedRightly'
    BY <2>1 DEF Timers, TimersPublished, EscalatedRightly, Published, Escalated
  <2>3. TimerHeld'
    BY <2>1 DEF Timers, TimerHeld, Escalated
  <2>4. DueKnown'
    BY <2>1 DEF Timers, DueKnown, Published
  <2>5. QED
    BY <2>2, <2>3, <2>4 DEF Timers
<1>13. ASSUME NEW w \in Workers, RunEnds(w) PROVE Timers'
  <2>1. /\ UNCHANGED <<status, escalateAt, due, handled, crashes>> /\ due[w] = {}
        /\ \A v \in Workers : phase'[v] = IF v = w THEN "idle" ELSE phase[v]
    BY <1>13 DEF RunEnds, eventVars
  <2>2. TimersPublished' /\ EscalatedRightly' /\ TimerHeld'
    BY <2>1 DEF Timers, TimersPublished, EscalatedRightly, TimerHeld, Published, Escalated
  <2>3. DueKnown'
    BY <2>1 DEF Timers, DueKnown, Published
  <2>4. QED
    BY <2>2, <2>3 DEF Timers
<1>14. ASSUME NEW w \in Workers, Crash(w) PROVE Timers'
  <2>1. /\ UNCHANGED <<status, escalateAt>> /\ crashes' = crashes + 1 /\ crashes \in Nat
        /\ \A v \in Workers : due'[v] = IF v = w THEN {} ELSE due[v]
        /\ \A v \in Workers : handled'[v] = IF v = w THEN {} ELSE handled[v]
        /\ \A v \in Workers : phase'[v] = IF v = w THEN "idle" ELSE phase[v]
    BY <1>14 DEF Crash, eventVars
  <2>2. crashes' # 0
    BY <2>1
  <2>3. TimersPublished' /\ EscalatedRightly' /\ TimerHeld'
    BY <2>1, <2>2 DEF Timers, TimersPublished, EscalatedRightly, TimerHeld, Published, Escalated
  <2>4. DueKnown'
    BY <2>1 DEF Timers, DueKnown, Published
  <2>5. QED
    BY <2>3, <2>4 DEF Timers
<1> HIDE DEF IInv, TypeOK, outboxVars, routerVars, bounds
<1>15. QED
  BY <1>1, <1>2, <1>3, <1>4, <1>5, <1>6, <1>7, <1>8, <1>9, <1>10, <1>11, <1>12, <1>13, <1>14
  DEF Next, WorkerStep

\* An escalation exists only for a published event that escalates; and its timer
\* outlives it only while the run that sent it is about to clear it, or after a
\* crash lost that step.
THEOREM EscalationsJustified == Spec => []EscalationJustified
<1>1. Init => Timers
  BY DEF Init, Timers, TimersPublished, DueKnown, EscalatedRightly, TimerHeld,
         Published, Escalated, Original, Escalation
<1>2. IInv /\ Timers /\ [Next]_vars => Timers'
  BY TimersStep
<1>3. Timers => EscalationJustified
  BY DEF Timers, EscalatedRightly, TimerHeld, DueKnown, Published, Escalated,
         EscalationJustified
<1>4. QED
  BY <1>1, <1>2, <1>3, OutboxInductive, PTL DEF Spec
=============================================================================
