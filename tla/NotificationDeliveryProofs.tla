---------------------- MODULE NotificationDeliveryProofs ----------------------
(***************************************************************************)
(* For any deliveries, overlapping runs, webhooks and retry limit: given-up *)
(* deliveries are listed and a confirmed one stays confirmed.  Of the rows *)
(* without reports that no retry from an old list touched: what a run      *)
(* holds nobody else touches, so attempts are numbered without a gap and   *)
(* given up when all were made, and a sent one is left alone.              *)
(***************************************************************************)
EXTENDS NotificationDelivery, TLAPS

\* A run has a row in its hands exactly while it is past the loop's head.
CurrentClaimed ==
  \A w \in Workers :
    IF stage[w] \in {"idle", "loop"} THEN cur[w] = NoDelivery ELSE cur[w] \in claimed[w]

IdleHoldsNothing == \A w \in Workers : stage[w] = "idle" => claimed[w] = {}

\* Reports concern only deliveries whose provider reports back.
OnlyConfirmedReported ==
  /\ messageId \subseteq Confirmed
  /\ \A h \in Hooks : hook[h].d \in Confirmed \cup {NoDelivery}

\* A run holds a claimed row until it has sent it, put it off or given it up.
Holds(w, d) == d \in claimed[w] /\ ~ (cur[w] = d /\ stage[w] = "dead")

\* A row a run holds is "sending", no other run holds it, and its count is the
\* one the run read.
HeldAlone(d) ==
  \A w \in Workers : Holds(w, d) =>
    /\ status[d] = "sending"
    /\ \A v \in Workers : Holds(v, d) => v = w
    /\ cur[w] = d => seen[w] = attemptCount[d]

OpenIsDead(d) == deadLetter[d] = "open" <=> status[d] = "dead_letter"

Attempting(w) == stage[w] \in {"sending", "accepted", "failed"}

\* Before a manual retry, the attempts made are 1..n, where n is the count, less
\* one while the counted attempt has not begun.
Counted(d) ==
  /\ attemptNos[d] \in {1..n : n \in 0..MaxAttempts}
  /\ status[d] \in {"queued", "retrying"} =>
       attemptCount[d] < MaxAttempts /\ attemptNos[d] = 1..attemptCount[d]
  /\ status[d] = "sending" =>
       /\ attemptCount[d] \in 1..MaxAttempts
       /\ \A w \in Workers : Holds(w, d) =>
            attemptNos[d] = IF cur[w] = d /\ Attempting(w) THEN 1..attemptCount[d]
                            ELSE 1..(attemptCount[d] - 1)
  /\ status[d] = "dead_letter" => attemptNos[d] = 1..MaxAttempts

\* After one, every attempt number is taken, so no attempt begins any more.
Spent(d) ==
  /\ attemptNos[d] = 1..MaxAttempts
  /\ status[d] \in {"queued", "retrying"} => attemptCount[d] = 0
  /\ status[d] = "sending" => attemptCount[d] = 1
  /\ \A w \in Workers : cur[w] = d => ~ Attempting(w)

Numbered(d) == IF deadLetter[d] = "resolved" THEN Spent(d) ELSE Counted(d)

RowInv(d) == HeldAlone(d) /\ OpenIsDead(d) /\ Numbered(d)

IInv == /\ TypeOK /\ CurrentClaimed /\ IdleHoldsNothing /\ OnlyConfirmedReported
        /\ DeadLettersListed /\ \A d \in Deliveries \ (Confirmed \cup stale) : RowInv(d)

-----------------------------------------------------------------------------
USE DeliveryAssumption

LEMMA TypeInit == Init => TypeOK
BY DEF Init, TypeOK, Statuses, Stages, NoHook, HookStates, Reports

LEMMA TypeStep == TypeOK /\ [Next]_vars => TypeOK'
<1> SUFFICES ASSUME TypeOK, [Next]_vars PROVE TypeOK'
  OBVIOUS
<1> USE DEF TypeOK, Statuses, Stages, rowVars, runVars, bounds
<1>1. CASE UNCHANGED vars BY <1>1 DEF vars
<1>2. ASSUME NEW w \in Workers, NEW S \in SUBSET Deliveries, ClaimDeliveries(w, S) PROVE TypeOK'
  BY <1>2 DEF ClaimDeliveries
<1>3. ASSUME NEW w \in Workers, NEW d \in Deliveries, ReadRow(w, d) PROVE TypeOK'
  BY <1>3 DEF ReadRow
<1>4. ASSUME NEW w \in Workers, Suppress(w) PROVE TypeOK'
  BY <1>4 DEF Suppress, Continue
<1>5. ASSUME NEW w \in Workers, QuietHours(w) PROVE TypeOK'
  <2>1. Uncounted(seen[w]) \in Nat
    BY DEF Uncounted
  <2>2. attemptCount' \in [Deliveries -> Nat] /\ status' \in [Deliveries -> Statuses]
    BY <1>5, <2>1 DEF QuietHours
  <2>3. QED
    BY <1>5, <2>2 DEF QuietHours, Continue
<1>6. ASSUME NEW w \in Workers, BeginAttempt(w) PROVE TypeOK'
  <2>1. seen[w] \in Nat /\ \A d \in Deliveries : attemptNos[d] \in SUBSET Nat
    OBVIOUS
  <2>2. attemptNos' = [attemptNos EXCEPT ![cur[w]] = @ \cup {seen[w]}]
    BY <1>6 DEF BeginAttempt
  <2>3. attemptNos' \in [Deliveries -> SUBSET Nat]
    BY <2>1, <2>2
  <2>4. QED
    BY <1>6, <2>3 DEF BeginAttempt
<1>7. ASSUME NEW w \in Workers, AttemptCollides(w) PROVE TypeOK'
  BY <1>7 DEF AttemptCollides, Abort
<1>8. ASSUME NEW w \in Workers, ProviderAccepts(w) PROVE TypeOK'
  BY <1>8 DEF ProviderAccepts
<1>9. ASSUME NEW w \in Workers, RecordSent(w) PROVE TypeOK'
  BY <1>9 DEF RecordSent, Continue
<1>10. ASSUME NEW w \in Workers, ProviderRejects(w) PROVE TypeOK'
  BY <1>10 DEF ProviderRejects
<1>11. ASSUME NEW w \in Workers, RetryLater(w) PROVE TypeOK'
  BY <1>11 DEF RetryLater, Continue
<1>12. ASSUME NEW w \in Workers, GiveUp(w) PROVE TypeOK'
  BY <1>12 DEF GiveUp, OpenDeadLetter
<1>13. ASSUME NEW w \in Workers, Fallback(w) PROVE TypeOK'
  BY <1>13 DEF Fallback, Continue, WithSmsFallback
<1>14. ASSUME NEW w \in Workers, RunEnds(w) PROVE TypeOK'
  BY <1>14 DEF RunEnds
<1>15. ASSUME NEW w \in Workers, Crash(w) PROVE TypeOK'
  BY <1>15 DEF Crash, Abort
<1>16. ASSUME NEW h \in Hooks, NEW d \in Deliveries, NEW r \in Reports, Receive(h, d, r) PROVE TypeOK'
  <2>1. [d |-> d, report |-> r, status |-> status[d], count |-> attemptCount[d]] \in HookStates
    BY DEF HookStates
  <2>2. hook' \in [Hooks -> HookStates]
    BY <1>16, <2>1 DEF Receive
  <2>3. QED
    BY <1>16, <2>2 DEF Receive
<1>17. NoHook \in HookStates
  BY DEF NoHook, HookStates, Reports
<1>18. ASSUME NEW h \in Hooks, Apply(h) PROVE TypeOK'
  <2>1. hook[h] \in HookStates /\ hook' \in [Hooks -> HookStates]
    BY <1>17, <1>18 DEF Apply
  <2>2. status' \in [Deliveries -> Statuses] /\ deadLetter' = deadLetter
    BY <1>18, <2>1 DEF Apply, Confirm, SetStatus, HookStates, Reports
  <2>3. QED
    BY <1>18, <2>1, <2>2 DEF Apply
<1>19. ASSUME NEW h \in Hooks, ApplyFatal(h) PROVE TypeOK'
  <2>1. [hook[h] EXCEPT !.report = "fallback"] \in HookStates
    BY DEF HookStates
  <2>2. hook' \in [Hooks -> HookStates]
    BY <1>19, <2>1 DEF ApplyFatal
  <2>3. QED
    BY <1>19, <2>2 DEF ApplyFatal, OpenDeadLetter
<1>20. ASSUME NEW h \in Hooks, HookFallback(h) PROVE TypeOK'
  <2>1. hook' \in [Hooks -> HookStates]
    BY <1>17, <1>20 DEF HookFallback
  <2>2. QED
    BY <1>20, <2>1 DEF HookFallback, WithSmsFallback
<1>21. ASSUME NEW d \in Deliveries, RetryDeadLetter(d) PROVE TypeOK'
  BY <1>21 DEF RetryDeadLetter
<1>22. QED
  BY <1>1, <1>2, <1>3, <1>4, <1>5, <1>6, <1>7, <1>8, <1>9, <1>10, <1>11, <1>12, <1>13, <1>14,
     <1>15, <1>16, <1>18, <1>19, <1>20, <1>21 DEF Next, WorkerStep, HookStep

-----------------------------------------------------------------------------
RunsInv == CurrentClaimed /\ IdleHoldsNothing

LEMMA RunsStep == TypeOK /\ RunsInv /\ [Next]_vars => RunsInv'
<1> SUFFICES ASSUME TypeOK, RunsInv, [Next]_vars PROVE RunsInv'
  OBVIOUS
<1> USE DEF RunsInv, CurrentClaimed, IdleHoldsNothing, TypeOK, Stages, runVars
<1>1. CASE UNCHANGED vars BY <1>1 DEF vars
<1>2. ASSUME NEW w \in Workers, NEW S \in SUBSET Deliveries, ClaimDeliveries(w, S) PROVE RunsInv'
  BY <1>2 DEF ClaimDeliveries
<1>3. ASSUME NEW w \in Workers, NEW d \in Deliveries, ReadRow(w, d) PROVE RunsInv'
  BY <1>3 DEF ReadRow
<1>4. ASSUME NEW w \in Workers, Suppress(w) PROVE RunsInv'
  BY <1>4 DEF Suppress, Continue
<1>5. ASSUME NEW w \in Workers, QuietHours(w) PROVE RunsInv'
  BY <1>5 DEF QuietHours, Continue
<1>6. ASSUME NEW w \in Workers, BeginAttempt(w) PROVE RunsInv'
  BY <1>6 DEF BeginAttempt
<1>7. ASSUME NEW w \in Workers, AttemptCollides(w) PROVE RunsInv'
  BY <1>7 DEF AttemptCollides, Abort
<1>8. ASSUME NEW w \in Workers, ProviderAccepts(w) PROVE RunsInv'
  BY <1>8 DEF ProviderAccepts
<1>9. ASSUME NEW w \in Workers, RecordSent(w) PROVE RunsInv'
  BY <1>9 DEF RecordSent, Continue
<1>10. ASSUME NEW w \in Workers, ProviderRejects(w) PROVE RunsInv'
  BY <1>10 DEF ProviderRejects
<1>11. ASSUME NEW w \in Workers, RetryLater(w) PROVE RunsInv'
  BY <1>11 DEF RetryLater, Continue
<1>12. ASSUME NEW w \in Workers, GiveUp(w) PROVE RunsInv'
  BY <1>12 DEF GiveUp, OpenDeadLetter
<1>13. ASSUME NEW w \in Workers, Fallback(w) PROVE RunsInv'
  BY <1>13 DEF Fallback, Continue
<1>14. ASSUME NEW w \in Workers, RunEnds(w) PROVE RunsInv'
  BY <1>14 DEF RunEnds
<1>15. ASSUME NEW w \in Workers, Crash(w) PROVE RunsInv'
  BY <1>15 DEF Crash, Abort
<1>16. ASSUME NEW h \in Hooks, NEW d \in Deliveries, NEW r \in Reports, Receive(h, d, r) PROVE RunsInv'
  BY <1>16 DEF Receive
<1>17. ASSUME NEW h \in Hooks, Apply(h) PROVE RunsInv'
  BY <1>17 DEF Apply
<1>18. ASSUME NEW h \in Hooks, ApplyFatal(h) PROVE RunsInv'
  BY <1>18 DEF ApplyFatal
<1>19. ASSUME NEW h \in Hooks, HookFallback(h) PROVE RunsInv'
  BY <1>19 DEF HookFallback
<1>20. ASSUME NEW d \in Deliveries, RetryDeadLetter(d) PROVE RunsInv'
  BY <1>20 DEF RetryDeadLetter
<1>21. QED
  BY <1>1, <1>2, <1>3, <1>4, <1>5, <1>6, <1>7, <1>8, <1>9, <1>10, <1>11, <1>12, <1>13, <1>14,
     <1>15, <1>16, <1>17, <1>18, <1>19, <1>20 DEF Next, WorkerStep, HookStep

LEMMA ReportsStep == TypeOK /\ OnlyConfirmedReported /\ [Next]_vars => OnlyConfirmedReported'
<1> SUFFICES ASSUME TypeOK, OnlyConfirmedReported, [Next]_vars PROVE OnlyConfirmedReported'
  OBVIOUS
<1> USE DEF OnlyConfirmedReported, TypeOK, rowVars, runVars, bounds, HookStates
<1>1. CASE UNCHANGED vars BY <1>1 DEF vars
<1>2. ASSUME NEW w \in Workers,
             WorkerStep(w) \/ Crash(w) \/ \E S \in SUBSET Deliveries : ClaimDeliveries(w, S)
      PROVE  hook' = hook /\ messageId' \subseteq messageId \cup Confirmed
  BY <1>2 DEF WorkerStep, ClaimDeliveries, ReadRow, Suppress, QuietHours, BeginAttempt,
     AttemptCollides, ProviderAccepts, RecordSent, ProviderRejects, RetryLater, GiveUp, Fallback,
     RunEnds, Crash, Abort
<1>3. ASSUME NEW h \in Hooks, NEW d \in Deliveries, NEW r \in Reports, Receive(h, d, r)
      PROVE  OnlyConfirmedReported'
  BY <1>3 DEF Receive
<1>4. ASSUME NEW h \in Hooks, Apply(h) \/ HookFallback(h) PROVE OnlyConfirmedReported'
  <2>1. messageId' = messageId /\ hook' = [hook EXCEPT ![h] = NoHook]
    BY <1>4 DEF Apply, HookFallback
  <2>2. NoHook.d = NoDelivery
    BY DEF NoHook
  <2>3. QED
    BY <2>1, <2>2
<1>5. ASSUME NEW h \in Hooks, ApplyFatal(h) PROVE OnlyConfirmedReported'
  BY <1>5 DEF ApplyFatal
<1>6. ASSUME NEW d \in Deliveries, RetryDeadLetter(d) PROVE OnlyConfirmedReported'
  BY <1>6 DEF RetryDeadLetter
<1>7. QED
  BY <1>1, <1>2, <1>3, <1>4, <1>5, <1>6 DEF Next, HookStep

LEMMA ListedStep == TypeOK /\ DeadLettersListed /\ [Next]_vars => DeadLettersListed'
<1> SUFFICES ASSUME TypeOK, DeadLettersListed, [Next]_vars PROVE DeadLettersListed'
  OBVIOUS
<1> USE DEF DeadLettersListed, TypeOK, rowVars
<1>1. CASE UNCHANGED vars BY <1>1 DEF vars
<1>2. ASSUME NEW w \in Workers, NEW S \in SUBSET Deliveries, ClaimDeliveries(w, S)
      PROVE  DeadLettersListed'
  BY <1>2 DEF ClaimDeliveries
<1>3. ASSUME NEW w \in Workers, Suppress(w) \/ QuietHours(w) \/ RecordSent(w) \/ RetryLater(w)
      PROVE  DeadLettersListed'
  BY <1>3 DEF Suppress, QuietHours, RecordSent, RetryLater
<1>4. ASSUME NEW w \in Workers, GiveUp(w) PROVE DeadLettersListed'
  BY <1>4 DEF GiveUp, OpenDeadLetter
<1>5. ASSUME NEW w \in Workers,
             \/ \E d \in Deliveries : ReadRow(w, d)
             \/ BeginAttempt(w) \/ AttemptCollides(w) \/ ProviderAccepts(w) \/ ProviderRejects(w)
             \/ Fallback(w) \/ RunEnds(w) \/ Crash(w)
      PROVE  UNCHANGED <<status, deadLetter>>
  BY <1>5 DEF ReadRow, BeginAttempt, AttemptCollides, ProviderAccepts, ProviderRejects,
     Fallback, RunEnds, Crash, Abort
<1>6. ASSUME NEW h \in Hooks, Apply(h) PROVE DeadLettersListed'
  BY <1>6 DEF Apply, Confirm, SetStatus
<1>7. ASSUME NEW h \in Hooks, ApplyFatal(h) PROVE DeadLettersListed'
  BY <1>7 DEF ApplyFatal, OpenDeadLetter
<1>8. ASSUME NEW h \in Hooks,
             HookFallback(h) \/ \E d \in Deliveries, r \in Reports : Receive(h, d, r)
      PROVE  UNCHANGED <<status, deadLetter>>
  BY <1>8 DEF HookFallback, Receive
<1>9. ASSUME NEW d \in Deliveries, RetryDeadLetter(d) PROVE DeadLettersListed'
  BY <1>9 DEF RetryDeadLetter
<1>10. QED
  BY <1>1, <1>2, <1>3, <1>4, <1>5, <1>6, <1>7, <1>8, <1>9 DEF Next, WorkerStep, HookStep

-----------------------------------------------------------------------------
(* One row of a delivery without reports and stale retries, under each step. *)

LEMMA StaleGrows == [Next]_vars => stale \subseteq stale'
BY DEF Next, vars, WorkerStep, HookStep, ClaimDeliveries, ReadRow, Suppress, QuietHours, BeginAttempt,
   AttemptCollides, ProviderAccepts, RecordSent, ProviderRejects, RetryLater, GiveUp, Fallback,
   RunEnds, Crash, Abort, Receive, Apply, ApplyFatal, HookFallback, RetryDeadLetter

LEMMA Intervals ==
  ASSUME NEW n \in Nat \ {0}
  PROVE  (1..(n - 1)) \cup {n} = 1..n
OBVIOUS

LEMMA RowStep ==
  ASSUME IInv, [Next]_vars, NEW d \in Deliveries \ (Confirmed \cup stale')
  PROVE  RowInv(d)'
<1>0. d \in Deliveries \ (Confirmed \cup stale)
  BY StaleGrows
<1> USE <1>0 DEF IInv, TypeOK, CurrentClaimed, IdleHoldsNothing, RowInv, HeldAlone, Holds, OpenIsDead,
            Numbered, Counted, Spent, Attempting, rowVars, runVars
<1>1. CASE UNCHANGED vars BY <1>1 DEF vars
<1>2. ASSUME NEW w \in Workers, NEW S \in SUBSET Deliveries, ClaimDeliveries(w, S)
      PROVE  RowInv(d)'
  BY <1>2 DEF ClaimDeliveries, Due
<1>3. ASSUME NEW w \in Workers, NEW e \in Deliveries, ReadRow(w, e) PROVE RowInv(d)'
  BY <1>3 DEF ReadRow
<1>4. ASSUME NEW w \in Workers, Suppress(w) PROVE RowInv(d)'
  BY <1>4 DEF Suppress, Continue
<1>5. ASSUME NEW w \in Workers, QuietHours(w) PROVE RowInv(d)'
  <2>1. CASE cur[w] = d
    <3>1. Holds(w, d) /\ status[d] = "sending" /\ seen[w] = attemptCount[d]
      BY <1>5, <2>1 DEF QuietHours
    <3>2. /\ status'[d] = "retrying" /\ attemptCount'[d] = Uncounted(attemptCount[d])
          /\ UNCHANGED <<attemptNos, deadLetter>>
      BY <1>5, <2>1, <3>1 DEF QuietHours
    <3>3. \A v \in Workers : ~ Holds(v, d)' /\ (Attempting(v)' => cur'[v] # d)
      BY <1>5, <2>1, <3>1 DEF QuietHours, Continue
    <3>4. HeldAlone(d)' /\ OpenIsDead(d)'
      BY <3>1, <3>2, <3>3
    <3>5. CASE deadLetter[d] = "resolved"
      BY <3>1, <3>2, <3>3, <3>5 DEF Uncounted
    <3>6. CASE deadLetter[d] # "resolved"
      <4>1. attemptNos[d] = 1..(attemptCount[d] - 1) /\ attemptCount[d] \in 1..MaxAttempts
        BY <1>5, <2>1, <3>1, <3>6 DEF QuietHours
      <4>2. attemptCount'[d] = attemptCount[d] - 1
        BY <3>2, <4>1 DEF Uncounted
      <4>3. QED
        BY <3>1, <3>2, <3>4, <3>6, <4>1, <4>2
    <3>7. QED
      BY <3>4, <3>5, <3>6
  <2>2. CASE cur[w] # d
    BY <1>5, <2>2 DEF QuietHours, Continue
  <2>3. QED
    BY <2>1, <2>2
<1>6. ASSUME NEW w \in Workers, BeginAttempt(w) PROVE RowInv(d)'
  <2>1. /\ stage[w] = "read" /\ stage' = [stage EXCEPT ![w] = "sending"]
        /\ UNCHANGED <<status, attemptCount, deadLetter, claimed, cur, seen>>
    BY <1>6 DEF BeginAttempt
  <2>2. CASE cur[w] = d
    <3>1. /\ Holds(w, d) /\ status[d] = "sending" /\ seen[w] = attemptCount[d]
          /\ \A v \in Workers : Holds(v, d) => v = w
      BY <2>1, <2>2
    <3>2. attemptCount[d] \notin attemptNos[d] /\ attemptNos'[d] = attemptNos[d] \cup {attemptCount[d]}
      BY <1>6, <2>2, <3>1 DEF BeginAttempt
    <3>3. deadLetter[d] # "resolved"
      BY <3>1, <3>2
    <3>4. attemptNos[d] = 1..(attemptCount[d] - 1) /\ attemptCount[d] \in 1..MaxAttempts
      BY <2>1, <2>2, <3>1, <3>3
    <3>5. attemptNos'[d] = 1..attemptCount[d]
      BY <3>2, <3>4, Intervals
    <3>6. attemptNos'[d] \in {1..n : n \in 0..MaxAttempts}
      BY <3>4, <3>5
    <3>7. \A v \in Workers : Holds(v, d)' <=> Holds(v, d)
      BY <2>1, <2>2
    <3>8. HeldAlone(d)' /\ OpenIsDead(d)'
      BY <2>1, <3>7
    <3>9. Attempting(w)' /\ cur'[w] = d
      BY <2>1, <2>2
    <3>10. Counted(d)'
      BY <2>1, <3>1, <3>4, <3>5, <3>6, <3>7, <3>9
    <3>11. QED
      BY <2>1, <3>3, <3>8, <3>10
  <2>3. CASE cur[w] # d
    <3>1. attemptNos'[d] = attemptNos[d]
      BY <1>6, <2>3 DEF BeginAttempt
    <3>2. \A v \in Workers : /\ Holds(v, d)' <=> Holds(v, d)
                             /\ cur'[v] = d /\ Attempting(v)' <=> cur[v] = d /\ Attempting(v)
      BY <2>1, <2>3
    <3>3. QED
      BY <2>1, <3>1, <3>2
  <2>4. QED
    BY <2>2, <2>3
<1>7. ASSUME NEW w \in Workers, AttemptCollides(w) PROVE RowInv(d)'
  BY <1>7 DEF AttemptCollides, Abort
<1>8. ASSUME NEW w \in Workers, ProviderAccepts(w) PROVE RowInv(d)'
  BY <1>8 DEF ProviderAccepts
<1>9. ASSUME NEW w \in Workers, RecordSent(w) PROVE RowInv(d)'
  BY <1>9 DEF RecordSent, Continue
<1>10. ASSUME NEW w \in Workers, ProviderRejects(w) PROVE RowInv(d)'
  BY <1>10 DEF ProviderRejects
<1>11. ASSUME NEW w \in Workers, RetryLater(w) PROVE RowInv(d)'
  <2>1. CASE cur[w] = d
    <3>1. Holds(w, d) /\ deadLetter[d] # "resolved" /\ status[d] = "sending"
      BY <1>11, <2>1 DEF RetryLater
    <3>2. attemptNos[d] = 1..attemptCount[d] /\ attemptCount[d] < MaxAttempts
      BY <1>11, <2>1, <3>1 DEF RetryLater, Exhausted
    <3>3. /\ status'[d] = "retrying" /\ UNCHANGED <<attemptCount, attemptNos, deadLetter>>
      BY <1>11, <2>1 DEF RetryLater
    <3>4. \A v \in Workers : ~ Holds(v, d)'
      BY <1>11, <2>1, <3>1 DEF RetryLater, Continue
    <3>5. HeldAlone(d)' /\ OpenIsDead(d)'
      BY <3>1, <3>3, <3>4
    <3>6. Numbered(d)'
      BY <3>1, <3>2, <3>3
    <3>7. QED
      BY <3>5, <3>6
  <2>2. CASE cur[w] # d
    BY <1>11, <2>2 DEF RetryLater, Continue
  <2>3. QED
    BY <2>1, <2>2
<1>12. ASSUME NEW w \in Workers, GiveUp(w) PROVE RowInv(d)'
  <2>1. stage[w] = "failed" /\ cur[w] \in Deliveries /\ cur[w] \in claimed[w]
    BY <1>12 DEF GiveUp
  <2>2. CASE cur[w] = d
    <3>1. Holds(w, d) /\ deadLetter[d] # "resolved" /\ status[d] = "sending"
      BY <2>1, <2>2
    <3>2. attemptNos[d] = 1..attemptCount[d] /\ attemptCount[d] \in 1..MaxAttempts
      BY <2>1, <2>2, <3>1
    <3>3. attemptCount[d] >= MaxAttempts
      BY <1>12, <2>2, <3>1 DEF GiveUp, Exhausted
    <3>4. attemptNos[d] = 1..MaxAttempts
      BY <3>2, <3>3
    <3>5. status'[d] = "dead_letter" /\ deadLetter'[d] = "open" /\ attemptNos' = attemptNos
      BY <1>12, <2>2 DEF GiveUp, OpenDeadLetter
    <3>6. attemptNos[d] \in {1..n : n \in 0..MaxAttempts}
      BY <3>1
    <3>7. \A v \in Workers : ~ Holds(v, d)'
      BY <1>12, <2>1, <2>2, <3>1 DEF GiveUp
    <3>8. HeldAlone(d)' /\ OpenIsDead(d)'
      BY <3>5, <3>7
    <3>9. Numbered(d)'
      BY <3>4, <3>5, <3>6
    <3>10. QED
      BY <3>8, <3>9
  <2>3. CASE cur[w] # d
    BY <1>12, <2>1, <2>3 DEF GiveUp, OpenDeadLetter
  <2>4. QED
    BY <2>2, <2>3
<1>13. ASSUME NEW w \in Workers, Fallback(w) PROVE RowInv(d)'
  BY <1>13 DEF Fallback, Continue
<1>14. ASSUME NEW w \in Workers, RunEnds(w) PROVE RowInv(d)'
  BY <1>14 DEF RunEnds
<1>15. ASSUME NEW w \in Workers, Crash(w) PROVE RowInv(d)'
  BY <1>15 DEF Crash, Abort
<1>16. ASSUME NEW h \in Hooks,
             HookStep(h) \/ \E e \in Deliveries, r \in Reports : Receive(h, e, r)
      PROVE  RowInv(d)'
  <2>1. hook[h].d # d
    BY DEF OnlyConfirmedReported
  <2>2. /\ UNCHANGED <<attemptCount, attemptNos, runVars>>
        /\ status'[d] = status[d] /\ deadLetter'[d] = deadLetter[d]
    BY <1>16, <2>1 DEF Receive, HookStep, Apply, Confirm, SetStatus, ApplyFatal, OpenDeadLetter,
       HookFallback
  <2>3. QED
    BY <2>2
<1>17. ASSUME NEW e \in Deliveries, RetryDeadLetter(e) PROVE RowInv(d)'
  <2>1. CASE e = d
    <3>1. status[d] = "dead_letter"
      BY <1>17, <2>1 DEF RetryDeadLetter
    <3>2. deadLetter[d] = "open" /\ attemptNos[d] = 1..MaxAttempts
      BY <3>1
    <3>3. \A w \in Workers : ~ Holds(w, d)
      BY <3>1
    <3>4. \A w \in Workers : cur[w] = d => ~ Attempting(w)
      BY <3>3
    <3>5. /\ status'[d] = "queued" /\ attemptCount'[d] = 0 /\ deadLetter'[d] = "resolved"
          /\ UNCHANGED <<attemptNos, runVars>>
      BY <1>17, <2>1 DEF RetryDeadLetter
    <3>6. HeldAlone(d)' /\ OpenIsDead(d)'
      BY <3>3, <3>5
    <3>7. Numbered(d)'
      BY <3>2, <3>4, <3>5
    <3>8. QED
      BY <3>6, <3>7
  <2>2. CASE e # d
    BY <1>17, <2>2 DEF RetryDeadLetter
  <2>3. QED
    BY <2>1, <2>2
<1> HIDE DEF IInv, TypeOK, CurrentClaimed, IdleHoldsNothing, RowInv, HeldAlone, Holds, OpenIsDead,
             Numbered, Counted, Spent, Attempting, rowVars, runVars
<1>18. ASSUME NEW w \in Workers, WorkerStep(w) PROVE RowInv(d)'
  BY <1>3, <1>4, <1>5, <1>6, <1>7, <1>8, <1>9, <1>10, <1>11, <1>12, <1>13, <1>14, <1>18
  DEF WorkerStep
<1>19. QED
  BY <1>1, <1>2, <1>15, <1>16, <1>17, <1>18 DEF Next

-----------------------------------------------------------------------------
LEMMA InvariantInit == Init => IInv
<1> SUFFICES ASSUME Init PROVE IInv
  OBVIOUS
<1>1. TypeOK
  BY TypeInit
<1>2. CurrentClaimed /\ IdleHoldsNothing /\ OnlyConfirmedReported /\ DeadLettersListed
  BY DEF Init, CurrentClaimed, IdleHoldsNothing, OnlyConfirmedReported, DeadLettersListed, NoHook
<1>3. ASSUME NEW d \in Deliveries \ (Confirmed \cup stale) PROVE RowInv(d)
  <2>1. HeldAlone(d) /\ OpenIsDead(d)
    BY DEF Init, HeldAlone, Holds, OpenIsDead
  <2>2. attemptNos[d] = 1..0 /\ 0 \in 0..MaxAttempts
    BY DEF Init
  <2>3. Numbered(d)
    BY <2>2 DEF Init, Numbered, Counted
  <2>4. QED
    BY <2>1, <2>3 DEF RowInv
<1>4. QED
  BY <1>1, <1>2, <1>3 DEF IInv

LEMMA InvariantStep == IInv /\ [Next]_vars => IInv'
<1> SUFFICES ASSUME IInv, [Next]_vars PROVE IInv'
  OBVIOUS
<1>1. TypeOK' /\ RunsInv' /\ OnlyConfirmedReported' /\ DeadLettersListed'
  BY TypeStep, RunsStep, ReportsStep, ListedStep DEF IInv, RunsInv
<1>2. \A d \in Deliveries \ (Confirmed \cup stale') : RowInv(d)'
  BY RowStep
<1>3. QED
  BY <1>1, <1>2 DEF IInv, RunsInv

(* The rows, the runs that hold them and the attempts they made.           *)
THEOREM DeliveryInductive == Spec => []IInv
BY InvariantInit, InvariantStep, PTL DEF Spec

(* Every variable keeps its type, whatever runs, webhooks and retries do.   *)
THEOREM DeliveryTyped == Spec => []TypeOK
BY TypeInit, TypeStep, PTL DEF Spec

(* A given-up delivery is on the panel's list: no run, webhook or retry     *)
(* leaves one in "dead_letter" whose dead-letter row is closed.            *)
THEOREM GivenUpIsListed == Spec => []DeadLettersListed
<1>1. IInv => DeadLettersListed
  BY DEF IInv
<1>2. QED
  BY <1>1, DeliveryInductive, PTL

(* Attempts are numbered without a gap up to the count, quiet hours counted *)
(* back, and a delivery is given up when all of MAX_ATTEMPTS were made.    *)
THEOREM AttemptsNumbered == Spec => []AttemptsComplete
<1>1. IInv => AttemptsComplete
  BY DEF IInv, RowInv, Numbered, Counted, AttemptsComplete
<1>2. QED
  BY <1>1, DeliveryInductive, PTL

(* A delivery without reports that was sent or suppressed is left alone: no *)
(* other run holds it, however many runs overlap, crash and are retried,    *)
(* until a retry of it from an old list, which alone gives it to two runs.  *)
THEOREM SentIsFinal == Spec => SentOnce
<1> DEFINE Left == \A d \in Deliveries \ (Confirmed \cup stale') :
                     status[d] \in {"sent", "suppressed"} => status'[d] = status[d]
<1>1. IInv /\ [Next]_vars => Left
  <2> SUFFICES ASSUME IInv, [Next]_vars, NEW d \in Deliveries \ (Confirmed \cup stale'),
                      status[d] \in {"sent", "suppressed"}
               PROVE  status'[d] = status[d]
    OBVIOUS
  <2> d \in Deliveries \ (Confirmed \cup stale)
    BY StaleGrows
  <2>1. /\ status \in [Deliveries -> Statuses]
        /\ \A w \in Workers : d \in claimed[w] => cur[w] = d /\ stage[w] = "dead"
        /\ deadLetter[d] # "open"
    BY DEF IInv, TypeOK, RowInv, HeldAlone, Holds, OpenIsDead
  <2>2. \A w \in Workers : stage[w] \in {"read", "accepted", "failed"} => cur[w] # d
    BY <2>1 DEF IInv, CurrentClaimed
  <2>3. \A h \in Hooks : hook[h].d # d
    BY DEF IInv, OnlyConfirmedReported
  <2>4. CASE UNCHANGED vars
    BY <2>4 DEF vars, rowVars
  <2>5. ASSUME NEW w \in Workers, NEW S \in SUBSET Deliveries, ClaimDeliveries(w, S)
        PROVE  status'[d] = status[d]
    BY <2>5 DEF ClaimDeliveries, Due
  <2>6. ASSUME NEW w \in Workers, WorkerStep(w) \/ Crash(w)
        PROVE  status'[d] = status[d]
    BY <2>1, <2>2, <2>6 DEF WorkerStep, ReadRow, Suppress, QuietHours, BeginAttempt,
       AttemptCollides, ProviderAccepts, RecordSent, ProviderRejects, RetryLater, GiveUp,
       OpenDeadLetter, Fallback, RunEnds, Crash, Abort, rowVars
  <2>7. ASSUME NEW h \in Hooks,
             HookStep(h) \/ \E e \in Deliveries, r \in Reports : Receive(h, e, r)
        PROVE  status'[d] = status[d]
    BY <2>1, <2>3, <2>7 DEF Receive, HookStep, Apply, Confirm, SetStatus, ApplyFatal,
       OpenDeadLetter, HookFallback, rowVars
  <2>8. ASSUME NEW e \in Deliveries, RetryDeadLetter(e)
        PROVE  status'[d] = status[d]
    BY <2>1, <2>8 DEF RetryDeadLetter
  <2>9. QED
    BY <2>4, <2>5, <2>6, <2>7, <2>8 DEF Next
<1>2. IInv /\ [Next]_vars => [Left]_vars
  BY <1>1
<1>3. QED
  BY <1>2, DeliveryInductive, PTL DEF Spec, SentOnce

(* A delivery confirmed as delivered or read stays so, unless a run holds   *)
(* it, a report was read before it was confirmed, or the panel retries it:  *)
(* the exceptions are the only ways a confirmed row regresses.             *)
THEOREM ConfirmedIsKept == Spec => ConfirmedStays
<1> DEFINE Stays == \A d \in Deliveries :
       /\ status[d] \in Successes
       /\ \A w \in Workers : d \notin claimed[w]
       /\ \A h \in Hooks : hook[h].d = d => hook[h].status \in Successes
       => status'[d] \in Successes \/ RetryDeadLetter(d)
<1>1. IInv /\ [Next]_vars => Stays
  <2> SUFFICES ASSUME IInv, [Next]_vars, NEW d \in Deliveries,
                      status[d] \in Successes, ~ RetryDeadLetter(d),
                      \A w \in Workers : d \notin claimed[w],
                      \A h \in Hooks : hook[h].d = d => hook[h].status \in Successes
               PROVE  status'[d] \in Successes
    OBVIOUS
  <2>1. status \in [Deliveries -> Statuses]
    BY DEF IInv, TypeOK
  <2>2. \A w \in Workers : stage[w] \in {"read", "accepted", "failed"} => cur[w] # d
    BY DEF IInv, CurrentClaimed
  <2>3. CASE UNCHANGED vars
    BY <2>3 DEF vars, rowVars
  <2>4. ASSUME NEW w \in Workers, NEW S \in SUBSET Deliveries, ClaimDeliveries(w, S)
        PROVE  status'[d] \in Successes
    BY <2>4 DEF ClaimDeliveries, Due, Successes
  <2>5. ASSUME NEW w \in Workers, WorkerStep(w) \/ Crash(w)
        PROVE  status'[d] = status[d]
    BY <2>1, <2>2, <2>5 DEF WorkerStep, ReadRow, Suppress, QuietHours, BeginAttempt,
       AttemptCollides, ProviderAccepts, RecordSent, ProviderRejects, RetryLater, GiveUp,
       OpenDeadLetter, Fallback, RunEnds, Crash, Abort, rowVars
  <2>6. ASSUME NEW h \in Hooks,
             HookFallback(h) \/ \E e \in Deliveries, r \in Reports : Receive(h, e, r)
        PROVE  status'[d] = status[d]
    BY <2>6 DEF Receive, HookFallback, rowVars
  <2>7. ASSUME NEW h \in Hooks, Apply(h)
        PROVE  status'[d] \in Successes
    <3>1. CASE hook[h].d # d
      BY <2>1, <2>7, <3>1 DEF Apply, Confirm, SetStatus
    <3>2. CASE hook[h].d = d
      BY <2>1, <2>7, <3>2 DEF Apply, Confirm, SetStatus, Undeliverable, Successes
    <3>3. QED
      BY <3>1, <3>2
  <2>8. ASSUME NEW h \in Hooks, ApplyFatal(h)
        PROVE  status'[d] = status[d]
    BY <2>1, <2>8 DEF ApplyFatal, OpenDeadLetter, Undeliverable
  <2>9. ASSUME NEW e \in Deliveries, RetryDeadLetter(e)
        PROVE  status'[d] = status[d]
    <3>1. e # d
      BY <2>9
    <3>2. QED
      BY <2>1, <2>9, <3>1 DEF RetryDeadLetter
  <2>10. QED
    BY <2>3, <2>4, <2>5, <2>6, <2>7, <2>8, <2>9 DEF Next, HookStep
<1>2. IInv /\ [Next]_vars => [Stays]_vars
  BY <1>1
<1>3. QED
  BY <1>2, DeliveryInductive, PTL DEF Spec, ConfirmedStays
===============================================================================
