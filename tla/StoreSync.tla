------------------------------ MODULE StoreSync ------------------------------
(***************************************************************************)
(* One shared collection, the browsers that edit it and the server that    *)
(* keeps it (lib/store.tsx, store-delta.ts, store-baseline.ts,             *)
(* client-store-hydrate.ts; app/api/store/route.ts, server-store.ts,       *)
(* store-bulk-delete-guard.ts).                                            *)
(*                                                                         *)
(* A browser shows an edit at once, queues the collection as it now is and *)
(* sends what differs from its baseline, the collection as the server last *)
(* gave it or accepted it.  The server applies that to its stored copy, in *)
(* a read and a write that no lock or version check holds together.        *)
(*                                                                         *)
(* Abstractions: a plain collection without a merge of its own, such as    *)
(* deed_buyBacks, small enough for localStorage; a row's content is the    *)
(* number of the edit that made it; the debounce, retry and resend timers  *)
(* of a browser are one; assertNoBulkDeletes is one step with the write it *)
(* precedes; sessions do not expire and every browser may write.           *)
(***************************************************************************)
EXTENDS Integers, FiniteSets

CONSTANTS
  Tabs,      \* browsers with the collection open, each with its own localStorage
  Rows,      \* record ids
  None,      \* nothing queued; no baseline yet
  Whole,     \* the baseline is given up until the page is reloaded
  BulkMax,   \* BULK_DELETE_MAX_REMOVALS
  MaxEdits,  \* bound: changes made by people
  MaxFaults, \* bound: refused or unanswered saves, pages reloaded
  MaxGets    \* bound: GETs on their way at a time

Absent == -1
Values == {Absent} \cup 0..MaxEdits        \* 0: a row that was there from the start
Copies == [Rows -> Values]

ASSUME SyncAssumption ==
  /\ BulkMax \in Nat /\ MaxEdits \in Nat /\ MaxFaults \in Nat /\ MaxGets \in Nat
  /\ None # Whole /\ None \notin Copies /\ Whole \notin Copies

VARIABLES
  stored,   \* the server's collection
  screen,   \* React state and localStorage of each browser
  base,     \* store-baseline.ts
  pending,  \* _pendingSync
  dirty,    \* DIRTY_KEYS_LS
  timer,    \* whether _syncTimer or _syncRetryTimer is set
  got,      \* the answer to a GET that has not reached the browser yet
  saves,    \* POSTs being sent, handled or answered
  edits,    \* number of the last change
  faults,   \* faults so far
  \* What the properties remember of the past:
  history,  \* <<row, value>> pairs the server has held
  made,     \* what the person at each browser last made of each row
  touched,  \* rows changed on the screen since the last save was sent
  sync      \* how the screen and the baseline came apart, if they did

queue == <<pending, dirty, timer>>
tabVars == <<screen, base, queue, got, made, touched, sync>>
vars == <<stored, tabVars, saves, edits, faults, history>>

Phases == {"sent", "rebuilt", "saved", "refused"}
Saves == [tab : Tabs, live : BOOLEAN, alone : BOOLEAN, phase : Phases,
          sent : Copies, up : SUBSET Rows, rm : SUBSET Rows,
          result : Copies, fresh : BOOLEAN, touched : SUBSET Rows,
          kind : {"exact", "moved", "blind"}]

-----------------------------------------------------------------------------
Present(c) == {r \in Rows : c[r] # Absent}
Pairs(c) == {<<r, c[r]>> : r \in Rows}

(* _flushInFlight *)
InFlight(t) == \E s \in saves : s.tab = t /\ s.live

(* computeCollectionDelta, upsertOnlyDelta, or the whole value, which       *)
(* removes every row it does not hold.                                     *)
ChangedRows(b, c) == {r \in Present(c) : b[r] # c[r]}
RemovedAlways(b, c) == Rows \ Present(c)    \* mutant: whatever is not in the list
RemovedRows(b, c) == Present(b) \ Present(c)
Body(b, c) ==
  IF b = Whole THEN [up |-> Present(c), rm |-> Rows \ Present(c)]
  ELSE IF b = None THEN [up |-> Present(c), rm |-> {}]
  ELSE [up |-> ChangedRows(b, c), rm |-> RemovedRows(b, c)]

(* applyCollectionDelta *)
Applied(c, s) ==
  [r \in Rows |-> IF r \in s.rm THEN Absent ELSE IF r \in s.up THEN s.sent[r] ELSE c[r]]

(* guardCollectionWrite and unionMissingRecords *)
Bulk(c, new) == Cardinality(Present(c) \ Present(new)) > BulkMax
Union(c, new) == [r \in Rows |-> IF new[r] = Absent THEN c[r] ELSE new[r]]

Without(s) == saves \ {s}
Becomes(s, new) == saves' = Without(s) \cup {new}
Fault == faults < MaxFaults /\ faults' = faults + 1

(* A save as it leaves: with its batch, alone or as a beacon. *)
Save(t, c, b, how) ==
  [tab |-> t, live |-> how # "beacon", alone |-> how = "alone", phase |-> "sent", sent |-> c,
   up |-> Body(b, c).up, rm |-> Body(b, c).rm, result |-> c, fresh |-> TRUE,
   touched |-> touched[t] \cup UNION {s.touched : s \in {x \in saves : x.tab = t /\ x.live}},
   kind |-> IF b \in {None, Whole} THEN "blind"
            ELSE IF sync[t] = "exact" THEN "exact" ELSE "moved"]

Init ==
  /\ stored \in [Rows -> {Absent, 0}]
  /\ screen = [t \in Tabs |-> stored] /\ base = [t \in Tabs |-> stored]
  /\ pending = [t \in Tabs |-> None]
  /\ dirty = [t \in Tabs |-> FALSE] /\ timer = [t \in Tabs |-> FALSE]
  /\ got = [t \in Tabs |-> None]
  /\ saves = {} /\ edits = 0 /\ faults = 0
  /\ history = Pairs(stored)
  /\ made = [t \in Tabs |-> [r \in Rows |-> Absent]]
  /\ touched = [t \in Tabs |-> {}]
  /\ sync = [t \in Tabs |-> "exact"]

-----------------------------------------------------------------------------
(* In the browser *)

(* useLS: a changed collection is queued and the timer set, unless it is   *)
(* what the server holds and no save is on its way.                        *)
KnownIgnoringFlight(t, c) == c = base[t]   \* mutant: while a save is in flight
KnownToServer(t, c) == c = base[t] /\ ~ InFlight(t)

Change(t, r, v) ==
  LET c == [screen[t] EXCEPT ![r] = v] IN
  /\ edits < MaxEdits /\ edits' = edits + 1
  /\ screen[t][r] # v
  /\ screen' = [screen EXCEPT ![t] = c]
  /\ made' = [made EXCEPT ![t][r] = v]
  /\ IF KnownToServer(t, c)
     THEN /\ pending' = [pending EXCEPT ![t] = None]
          /\ dirty' = [dirty EXCEPT ![t] = FALSE]
          /\ timer' = timer
          /\ touched' = [touched EXCEPT ![t] = {}]
     ELSE /\ pending' = [pending EXCEPT ![t] = c]
          /\ dirty' = [dirty EXCEPT ![t] = TRUE]
          /\ timer' = [timer EXCEPT ![t] = TRUE]
          /\ touched' = [touched EXCEPT ![t] = @ \cup {r}]
  /\ UNCHANGED <<stored, base, got, sync, saves, faults, history>>

Edit(t, r) == Change(t, r, edits + 1)
Delete(t, r) == Change(t, r, Absent)
Undo(t, r) == base[t] \notin {None, Whole} /\ Change(t, r, base[t][r])

(* flushServerSync: one save of a browser at a time *)
MaySend(t) == pending[t] # None /\ ~ InFlight(t)
Send(t) ==
  /\ saves' = saves \cup {Save(t, pending[t], base[t], "batch")}
  /\ touched' = [touched EXCEPT ![t] = {}]

TimerFires(t) ==
  /\ timer[t]
  /\ timer' = [timer EXCEPT ![t] = FALSE]
  /\ IF MaySend(t) THEN Send(t) ELSE UNCHANGED <<saves, touched>>
  /\ UNCHANGED <<stored, screen, base, pending, dirty, got, made, sync, edits, faults, history>>

(* handleOnline *)
BackOnline(t) ==
  /\ MaySend(t) /\ Send(t)
  /\ UNCHANGED <<stored, screen, base, queue, got, made, sync, edits, faults, history>>

(* markKeysSynced and rememberServerBaseline.  Only the batch that went out *)
(* on its own timer looks for a newer edit to send next.                   *)
NothingQueued(t, s) == None                \* mutant: a newer edit leaves the queue too
StillQueued(t, s) == IF pending[t] = s.sent THEN None ELSE pending[t]
Remember(t, c) == IF base[t] = Whole THEN Whole ELSE c
TimerSpent(t, s, left) == timer[t] /\ left # None   \* mutant: waits for the next edit
NextTimer(t, s, left) == IF s.alone THEN timer[t] ELSE left # None

Saved(s) ==
  LET t == s.tab  left == StillQueued(t, s) IN
  /\ s.live /\ s.phase = "saved"
  /\ saves' = Without(s)
  /\ pending' = [pending EXCEPT ![t] = left]
  /\ dirty' = [dirty EXCEPT ![t] = FALSE]
  /\ base' = [base EXCEPT ![t] = Remember(t, s.sent)]
  /\ timer' = [timer EXCEPT ![t] = NextTimer(t, s, left)]
  /\ sync' = [sync EXCEPT ![t] = IF @ = "overtaken" THEN @ ELSE "exact"]
  /\ UNCHANGED <<stored, screen, got, made, touched, edits, faults, history>>

(* A refused save: the collection goes whole from now on.  Refused together*)
(* with others (flushKeysIndividually) it is sent again by itself, and     *)
(* after that only the next edit or reconnection sends it.                 *)
Refused(s) ==
  LET t == s.tab IN
  /\ s.live /\ s.phase = "refused"
  /\ base' = [base EXCEPT ![t] = Whole]
  /\ \/ /\ ~ s.alone
        /\ Becomes(s, Save(t, s.sent, Whole, "alone"))
        /\ UNCHANGED <<timer, touched>>
     \/ /\ saves' = Without(s)
        /\ timer' = [timer EXCEPT ![t] = @ \/ ~ s.alone]
        /\ touched' = [touched EXCEPT ![t] = @ \cup s.touched]
  /\ UNCHANGED <<stored, screen, pending, dirty, got, made, sync, edits, faults, history>>

(* No answer: the server may still be at it, or done.                      *)
Unanswered(s) ==
  LET t == s.tab IN
  /\ s.live /\ Fault
  /\ saves' = Without(s) \cup (IF s.phase \in {"saved", "refused"} THEN {}
                               ELSE {[s EXCEPT !.live = FALSE]})
  /\ timer' = [timer EXCEPT ![t] = @ \/ ~ s.alone]
  /\ touched' = [touched EXCEPT ![t] = @ \cup s.touched]
  /\ UNCHANGED <<stored, screen, base, pending, dirty, got, made, sync, edits, history>>

(* A GET is answered from the collection as it is; the answer is taken     *)
(* later, by applyRemoteState (a change notice, the backup poll) or by     *)
(* applyHydratedStoreState (a page of the application is opened).          *)
Get(t) ==
  /\ got[t] = None /\ Cardinality({x \in Tabs : got[x] # None}) < MaxGets
  /\ got' = [got EXCEPT ![t] = stored]
  /\ UNCHANGED <<stored, screen, base, queue, made, touched, sync, saves, edits, faults, history>>

Show(t, g) ==
  LET queued == pending[t] # None
      over == \/ queued /\ pending[t] # g
              \/ InFlight(t) /\ sync[t] = "overtaken" IN
  /\ screen' = [screen EXCEPT ![t] = g]
  /\ base' = [base EXCEPT ![t] = Remember(t, g)]
  /\ dirty' = [dirty EXCEPT ![t] = FALSE]
  /\ touched' = IF queued THEN touched ELSE [touched EXCEPT ![t] = {}]
  /\ sync' = [sync EXCEPT ![t] = IF over THEN "overtaken" ELSE "exact"]
  /\ made' = IF over THEN [made EXCEPT ![t] = [r \in Rows |-> Absent]] ELSE made

Unconfirmed(t) == pending[t] # None \/ dirty[t] \/ InFlight(t)

ApplyRemote(t) ==
  LET g == got[t] IN
  /\ g # None
  /\ got' = [got EXCEPT ![t] = None]
  /\ IF \/ Unconfirmed(t) /\ ~ (Present(screen[t]) = {} /\ Present(g) # {})
        \/ ~ Unconfirmed(t) /\ screen[t] = g
     THEN UNCHANGED <<screen, base, dirty, touched, sync, made>>
     ELSE Show(t, g)
  /\ UNCHANGED <<stored, pending, timer, saves, edits, faults, history>>

Hydrate(t) ==
  LET g == got[t]  keeps == dirty[t] /\ screen[t] # g IN
  /\ g # None
  /\ got' = [got EXCEPT ![t] = None]
  /\ CASE keeps ->
            /\ base' = [base EXCEPT ![t] = Remember(t, g)]
            /\ sync' = [sync EXCEPT ![t] = IF g = base[t] \/ @ = "overtaken" THEN @ ELSE "moved"]
            /\ UNCHANGED <<screen, dirty, touched, made>>
       [] ~ keeps /\ Present(g) = {} /\ Present(screen[t]) # {} ->
            UNCHANGED <<screen, base, dirty, touched, sync, made>>
       [] OTHER -> Show(t, g)
  /\ UNCHANGED <<stored, pending, timer, saves, edits, faults, history>>

(* The page is reloaded, or closed and opened again: what is queued goes   *)
(* out in a beacon nobody waits for, and localStorage is all that remains. *)
CacheAsBaseline(t) == screen[t]            \* mutant: the browser's own copy
FirstBaseline(t) == None
Reload(t) ==
  /\ Fault
  /\ saves' = {s \in saves : s.tab # t \/ ~ s.live}
       \cup {[s EXCEPT !.live = FALSE] :
               s \in {x \in saves : x.tab = t /\ x.live /\ x.phase \notin {"saved", "refused"}}}
       \cup (IF pending[t] = None THEN {}
             ELSE {Save(t, pending[t], base[t], "beacon")})
  /\ base' = [base EXCEPT ![t] = FirstBaseline(t)]
  /\ pending' = [pending EXCEPT ![t] = None]
  /\ timer' = [timer EXCEPT ![t] = FALSE]
  /\ got' = [got EXCEPT ![t] = None]
  /\ touched' = [touched EXCEPT ![t] = {}]
  /\ sync' = [sync EXCEPT ![t] = "exact"]
  /\ made' = [made EXCEPT ![t] = [r \in Rows |-> Absent]]
  /\ UNCHANGED <<stored, screen, dirty, edits, history>>

-----------------------------------------------------------------------------
(* On the server: POST /api/store *)

Server == UNCHANGED <<tabVars, edits>>

Guarded(c, new) == IF Bulk(c, new) THEN Union(c, new) ELSE new

Rebuild(s) ==
  /\ s.phase = "sent"
  /\ Becomes(s, [s EXCEPT !.phase = "rebuilt", !.result = Guarded(stored, Applied(stored, s)),
                          !.fresh = TRUE])
  /\ Server /\ UNCHANGED <<stored, faults, history>>

(* saveStoreKeys: the whole collection is written, rows it leaves out are  *)
(* deleted, unless assertNoBulkDeletes throws.                             *)
Commit(s) ==
  /\ s.phase = "rebuilt" /\ ~ Bulk(stored, s.result)
  /\ stored' = s.result
  /\ history' = history \cup Pairs(s.result)
  /\ saves' = {IF stored' = stored THEN x ELSE [x EXCEPT !.fresh = FALSE] : x \in Without(s)}
       \cup (IF s.live THEN {[s EXCEPT !.phase = "saved", !.fresh = TRUE]} ELSE {})
  /\ Server /\ UNCHANGED faults

Throw(s) ==
  /\ s.phase = "rebuilt" /\ Bulk(stored, s.result)
  /\ saves' = Without(s) \cup (IF s.live THEN {[s EXCEPT !.phase = "refused"]} ELSE {})
  /\ Server /\ UNCHANGED <<stored, faults, history>>

(* A 5xx of the database, the process or the gateway, the write done or not*)
ServerError(s) ==
  /\ s.live /\ s.phase # "refused" /\ Fault
  /\ Becomes(s, [s EXCEPT !.phase = "refused"])
  /\ Server /\ UNCHANGED <<stored, history>>

-----------------------------------------------------------------------------
Handle(s) == Rebuild(s) \/ Commit(s) \/ Throw(s)
Answer(s) == Saved(s) \/ Refused(s)

Next ==
  \/ \E t \in Tabs :
       \/ \E r \in Rows : Edit(t, r) \/ Delete(t, r) \/ Undo(t, r)
       \/ TimerFires(t) \/ BackOnline(t)
       \/ Get(t) \/ ApplyRemote(t) \/ Hydrate(t) \/ Reload(t)
  \/ \E s \in saves : Handle(s) \/ Answer(s) \/ Unanswered(s) \/ ServerError(s)

Spec == Init /\ [][Next]_vars

-----------------------------------------------------------------------------
(* Every variable keeps to its type; a browser awaits one answer at a time. *)
TypeOK ==
  /\ stored \in Copies /\ screen \in [Tabs -> Copies]
  /\ base \in [Tabs -> Copies \cup {None, Whole}]
  /\ pending \in [Tabs -> Copies \cup {None}]
  /\ dirty \in [Tabs -> BOOLEAN] /\ timer \in [Tabs -> BOOLEAN]
  /\ got \in [Tabs -> Copies \cup {None}]
  /\ saves \subseteq Saves
  /\ \A s, x \in saves : s.live /\ x.live /\ s.tab = x.tab => s = x
  /\ edits \in 0..MaxEdits /\ faults \in 0..MaxFaults
  /\ history \subseteq Rows \X Values
  /\ made \in [Tabs -> Copies]
  /\ touched \in [Tabs -> SUBSET Rows]
  /\ sync \in [Tabs -> {"exact", "moved", "overtaken"}]

(* What is queued is on its way: a timer is set or an answer awaited, so    *)
(* no flush that found a save in flight leaves an edit behind.  (Not once  *)
(* a save was refused: flushKeysIndividually sets no timer.)               *)
QueueArmed ==
  \A t \in Tabs : pending[t] # None /\ base[t] # Whole => timer[t] \/ InFlight(t)

(* What a person last typed into a row is queued as they typed it until a   *)
(* collection holding it was written, whatever was refused, unanswered,    *)
(* undone or typed meanwhile.  (Not when the page is reloaded, nor when an *)
(* opened page's answer is shown over queued edits.)                       *)
EditsSurvive ==
  \A t \in Tabs, r \in Rows :
    made[t][r] # Absent =>
      \/ <<r, made[t][r]>> \in history
      \/ pending[t] # None /\ pending[t][r] = made[t][r]

(* The baseline never holds a row the server never held: what a save leaves *)
(* out as unchanged was really written once (store-baseline.ts:2).         *)
BaselineWasStored ==
  \A t \in Tabs :
    base[t] \notin {None, Whole} =>
      \A r \in Present(base[t]) : <<r, base[t][r]>> \in history

(* A browser with nothing queued shows its baseline: no difference is left  *)
(* on the screen that no save will ever carry.  (Not after a reload with   *)
(* unsaved edits, nor after an answer shown over queued ones.)             *)
NothingUnsent ==
  \A t \in Tabs :
    /\ pending[t] = None /\ ~ dirty[t]
    /\ base[t] \notin {None, Whole} /\ sync[t] # "overtaken"
    => screen[t] = base[t]

(* A save changes no row its sender had not changed, as long as the server *)
(* handled it alone and no answer moved the baseline under unsaved edits:  *)
(* two people on one collection keep each other's work.                    *)
OthersWorkKept ==
  [][\A s \in saves :
       Commit(s) /\ s.fresh /\ s.kind = "exact" =>
         \A r \in Rows : stored'[r] # stored[r] => r \in s.touched]_vars

(* "Records this browser did not touch are never re-sent, so a stale tab   *)
(* can no longer overwrite someone else's newer edit to them"              *)
(* (lib/store-delta.ts:8): it does, when a page is opened while edits wait *)
(* and the baseline moves to rows the screen does not show.                *)
StaleTabHarmless ==
  [][\A s \in saves :
       Commit(s) /\ s.fresh /\ s.kind # "blind" =>
         \A r \in Rows : stored'[r] # stored[r] => r \in s.touched]_vars
=============================================================================
