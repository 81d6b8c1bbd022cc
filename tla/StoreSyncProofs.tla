--------------------------- MODULE StoreSyncProofs ---------------------------
(***************************************************************************)
(* Proofs about StoreSync, for every number of browsers, rows, changes and *)
(* faults.                                                                 *)
(*                                                                         *)
(* The inductive invariant has two halves.  What was written: every copy   *)
(* the server gave out holds rows it once held, and a save leaves out only *)
(* such rows.  Who changed what: the screen, the queue, the save on its way*)
(* and the baseline of one browser differ only in rows its person changed, *)
(* until an answer moves one of them without the others.                   *)
(***************************************************************************)
EXTENDS StoreSync, TLAPS

Held(c) == \A r \in Present(c) : <<r, c[r]>> \in history
Copy(x) == x \notin {None, Whole}

StoredHeld == Held(stored)
GotHeld == \A t \in Tabs : got[t] # None => Held(got[t])

(* A save leaves out only what was once written, and what it holds is in    *)
(* its result before and in the history after it is written.               *)
SaveHeld(s) ==
  /\ s.up \subseteq Present(s.sent) /\ s.rm \cap Present(s.sent) = {}
  /\ \A r \in Present(s.sent) \ s.up : <<r, s.sent[r]>> \in history
  /\ s.phase = "rebuilt" => \A r \in s.up : s.result[r] = s.sent[r]
  /\ s.phase = "saved" => Held(s.sent)
SavesHeld == \A s \in saves : SaveHeld(s)

(* A queued edit is queued as the screen shows it. *)
EditsShown ==
  \A t \in Tabs, r \in Rows :
    made[t][r] # Absent =>
      \/ <<r, made[t][r]>> \in history
      \/ pending[t] # None /\ pending[t][r] = made[t][r] /\ screen[t][r] = made[t][r]

(* A save sent by itself follows a refusal. *)
AloneIsWhole == \A s \in saves : s.live /\ s.alone => base[s.tab] = Whole

(* Who changed what. *)
Waiting(t) == UNION {s.touched : s \in {x \in saves : x.tab = t /\ x.live}}
QueueIsScreen ==
  \A t \in Tabs : pending[t] # None /\ sync[t] # "overtaken" => pending[t] = screen[t]
FlightIsQueued == \A s \in saves : s.live => pending[s.tab] # None
FlightFollowed ==
  \A s \in saves : s.live /\ sync[s.tab] # "overtaken" =>
    \A r \in Rows : screen[s.tab][r] # s.sent[r] => r \in touched[s.tab]
ScreenFollowed ==
  \A t \in Tabs : sync[t] = "exact" /\ Copy(base[t]) =>
    \A r \in Rows : screen[t][r] # base[t][r] => r \in touched[t] \cup Waiting(t)
ExactSaves ==
  \A s \in saves :
    /\ s.kind = "exact" => s.up \cup s.rm \subseteq s.touched
    /\ s.phase = "rebuilt" /\ s.fresh => s.result = Guarded(stored, Applied(stored, s))

Written == StoredHeld /\ GotHeld /\ BaselineWasStored /\ SavesHeld /\ EditsShown
Followed == /\ AloneIsWhole /\ QueueIsScreen /\ FlightIsQueued /\ FlightFollowed
            /\ ScreenFollowed /\ ExactSaves
IInv == TypeOK /\ Written /\ Followed /\ QueueArmed

-----------------------------------------------------------------------------
(* Lemmas about the operators *)

LEMMA PairsHeld ==
  ASSUME NEW c \in Copies, NEW r \in Rows PROVE <<r, c[r]>> \in Pairs(c)
  BY DEF Pairs

LEMMA PairsType == ASSUME NEW c \in Copies PROVE Pairs(c) \subseteq Rows \X Values
  BY DEF Pairs, Copies

LEMMA WaitingType ==
  ASSUME TypeOK, NEW t \in Tabs PROVE Waiting(t) \subseteq Rows
  <1>1. \A s \in saves : s.touched \subseteq Rows
    BY DEF TypeOK, Saves
  <1> QED BY <1>1 DEF Waiting

(* The body of a save removes nothing it holds and sends what differs. *)
LEMMA BodyFits ==
  ASSUME NEW c \in Copies, NEW b \in Copies \cup {None, Whole}
  PROVE  /\ Body(b, c).up \in SUBSET Rows /\ Body(b, c).rm \in SUBSET Rows
         /\ Body(b, c).up \subseteq Present(c) /\ Body(b, c).rm \cap Present(c) = {}
         /\ \A r \in Present(c) \ Body(b, c).up : Copy(b) /\ r \in Present(b) /\ b[r] = c[r]
         /\ Copy(b) => \A r \in Body(b, c).up \cup Body(b, c).rm : b[r] # c[r]
  <1>1. CASE b = Whole
    BY <1>1 DEF Body, Present, Copy
  <1>2. CASE b = None
    BY <1>2, SyncAssumption DEF Body, Present, Copy
  <1>3. CASE b # None /\ b # Whole
    <2>1. b \in Copies
      BY <1>3
    <2>2. Body(b, c).up = ChangedRows(b, c) /\ Body(b, c).rm = RemovedRows(b, c)
      BY <1>3 DEF Body
    <2> QED BY <1>3, <2>1, <2>2 DEF ChangedRows, RemovedRows, Present, Copy
  <1> QED BY <1>1, <1>2, <1>3

LEMMA SaveFits ==
  ASSUME TypeOK, NEW t \in Tabs, NEW c \in Copies, NEW b \in Copies \cup {None, Whole},
         NEW how \in {"batch", "alone", "beacon"}
  PROVE  /\ Save(t, c, b, how) \in Saves
         /\ Save(t, c, b, how).tab = t
         /\ (Save(t, c, b, how).live <=> how # "beacon")
         /\ (Save(t, c, b, how).alone <=> how = "alone")
         /\ Save(t, c, b, how).phase = "sent"
         /\ Save(t, c, b, how).sent = c
         /\ Save(t, c, b, how).up = Body(b, c).up
         /\ Save(t, c, b, how).rm = Body(b, c).rm
         /\ Save(t, c, b, how).touched = touched[t] \cup Waiting(t)
         /\ Save(t, c, b, how).kind = "exact" => Copy(b) /\ sync[t] = "exact"
  <1>1. Body(b, c).up \in SUBSET Rows /\ Body(b, c).rm \in SUBSET Rows
    BY BodyFits
  <1>2. touched[t] \cup Waiting(t) \in SUBSET Rows
    BY WaitingType DEF TypeOK
  <1>3. Save(t, c, b, how).touched = touched[t] \cup Waiting(t)
    BY DEF Save, Waiting
  <1>4. Save(t, c, b, how).kind \in {"exact", "moved", "blind"}
    BY DEF Save
  <1> QED BY <1>1, <1>2, <1>3, <1>4 DEF Save, Saves, Phases, Copy

LEMMA AppliedType ==
  ASSUME NEW c \in Copies, NEW s \in Saves
  PROVE  Applied(c, s) \in Copies /\ Guarded(c, Applied(c, s)) \in Copies
  <1>0. Absent \in Values
    BY DEF Values
  <1>1. s.sent \in Copies
    BY DEF Saves
  <1>2. Applied(c, s) \in Copies
    BY <1>0, <1>1 DEF Applied, Copies
  <1>3. ASSUME NEW n \in Copies PROVE Union(c, n) \in Copies
    BY <1>3 DEF Union, Copies
  <1> QED BY <1>2, <1>3 DEF Guarded

-----------------------------------------------------------------------------
(* Types *)

OneLive == \A s, x \in saves : s.live /\ x.live /\ s.tab = x.tab => s = x

LEMMA TypeInit == Init => TypeOK
  <1> SUFFICES ASSUME Init PROVE TypeOK
    OBVIOUS
  <1>1. stored \in Copies
    BY SyncAssumption DEF Init, Copies, Values
  <1>2. [r \in Rows |-> Absent] \in Copies
    BY DEF Copies, Values
  <1>3. history \subseteq Rows \X Values
    BY <1>1, PairsType DEF Init
  <1> QED BY <1>1, <1>2, <1>3, SyncAssumption DEF Init, TypeOK

LEMMA TypeChange ==
  ASSUME TypeOK, NEW t \in Tabs, NEW r \in Rows, NEW v \in Values \cup {edits + 1}, Change(t, r, v)
  PROVE  TypeOK'
  <1>1. v \in Values /\ edits' \in 0..MaxEdits
    BY SyncAssumption DEF TypeOK, Change, Values
  <1>2. [screen[t] EXCEPT ![r] = v] \in Copies
    BY <1>1 DEF TypeOK, Copies
  <1>3. screen' \in [Tabs -> Copies] /\ made' \in [Tabs -> Copies]
    BY <1>1, <1>2 DEF TypeOK, Change, Copies
  <1>4. /\ pending' \in [Tabs -> Copies \cup {None}]
        /\ dirty' \in [Tabs -> BOOLEAN] /\ timer' \in [Tabs -> BOOLEAN]
        /\ touched' \in [Tabs -> SUBSET Rows]
    <2>0. /\ pending \in [Tabs -> Copies \cup {None}] /\ dirty \in [Tabs -> BOOLEAN]
          /\ timer \in [Tabs -> BOOLEAN] /\ touched \in [Tabs -> SUBSET Rows]
      BY DEF TypeOK
    <2>1. CASE KnownToServer(t, [screen[t] EXCEPT ![r] = v])
      BY <2>0, <2>1 DEF Change
    <2>2. CASE ~ KnownToServer(t, [screen[t] EXCEPT ![r] = v])
      <3>1. pending' = [pending EXCEPT ![t] = [screen[t] EXCEPT ![r] = v]]
        BY <2>2 DEF Change
      <3>2. dirty' = [dirty EXCEPT ![t] = TRUE] /\ timer' = [timer EXCEPT ![t] = TRUE]
        BY <2>2 DEF Change
      <3>3. touched' = [touched EXCEPT ![t] = touched[t] \cup {r}]
        BY <2>2 DEF Change
      <3>4. pending' \in [Tabs -> Copies \cup {None}]
        BY <1>2, <2>0, <3>1
      <3> QED BY <2>0, <3>2, <3>3, <3>4
    <2> QED BY <2>1, <2>2
  <1> QED BY <1>1, <1>3, <1>4 DEF TypeOK, Change

LEMMA TypeSend ==
  ASSUME TypeOK, NEW t \in Tabs, MaySend(t), Send(t)
  PROVE  /\ saves' \subseteq Saves /\ OneLive' /\ touched' \in [Tabs -> SUBSET Rows]
         /\ saves' = saves \cup {Save(t, pending[t], base[t], "batch")}
         /\ pending[t] \in Copies /\ base[t] \in Copies \cup {None, Whole}
  <1>1. pending[t] \in Copies /\ base[t] \in Copies \cup {None, Whole}
    BY DEF TypeOK, MaySend
  <1>2. /\ Save(t, pending[t], base[t], "batch") \in Saves
        /\ Save(t, pending[t], base[t], "batch").tab = t
    BY <1>1, SaveFits
  <1>3. saves' = saves \cup {Save(t, pending[t], base[t], "batch")}
    BY DEF Send
  <1>4. \A s \in saves : s.live => s.tab # t
    BY DEF MaySend, InFlight
  <1> QED BY <1>1, <1>2, <1>3, <1>4 DEF TypeOK, OneLive, Send

LEMMA TypeShow ==
  ASSUME TypeOK, NEW t \in Tabs, NEW g \in Copies, Show(t, g)
  PROVE  /\ screen' \in [Tabs -> Copies]
         /\ base' \in [Tabs -> Copies \cup {None, Whole}]
         /\ dirty' \in [Tabs -> BOOLEAN]
         /\ touched' \in [Tabs -> SUBSET Rows]
         /\ sync' \in [Tabs -> {"exact", "moved", "overtaken"}]
         /\ made' \in [Tabs -> Copies]
  <1>1. [r \in Rows |-> Absent] \in Copies
    BY DEF Copies, Values
  <1> QED BY <1>1 DEF TypeOK, Show, Remember

LEMMA TypeBrowser ==
  ASSUME TypeOK, NEW t \in Tabs,
         \/ TimerFires(t) \/ BackOnline(t) \/ Get(t) \/ ApplyRemote(t) \/ Hydrate(t) \/ Reload(t)
  PROVE  TypeOK'
  <1>1. CASE TimerFires(t)
    <2>1. CASE MaySend(t)
      BY <1>1, <2>1, TypeSend DEF TimerFires, TypeOK, OneLive
    <2>2. CASE ~ MaySend(t)
      BY <1>1, <2>2 DEF TimerFires, TypeOK
    <2> QED BY <2>1, <2>2
  <1>2. CASE BackOnline(t)
    BY <1>2, TypeSend DEF BackOnline, TypeOK, OneLive, queue
  <1>3. CASE Get(t)
    BY <1>3 DEF Get, TypeOK, queue
  <1>4. CASE ApplyRemote(t)
    <2>1. got[t] \in Copies /\ got' \in [Tabs -> Copies \cup {None}]
      BY <1>4 DEF ApplyRemote, TypeOK
    <2>2. CASE Show(t, got[t])
      BY <1>4, <2>1, <2>2, TypeShow DEF ApplyRemote, TypeOK
    <2>3. CASE UNCHANGED <<screen, base, dirty, touched, sync, made>>
      BY <1>4, <2>1, <2>3 DEF ApplyRemote, TypeOK
    <2> QED BY <1>4, <2>2, <2>3 DEF ApplyRemote
  <1>5. CASE Hydrate(t)
    <2> DEFINE keeps == dirty[t] /\ screen[t] # got[t]
    <2>1. got[t] \in Copies /\ got' \in [Tabs -> Copies \cup {None}]
      BY <1>5 DEF Hydrate, TypeOK
    <2>2. CASE Show(t, got[t])
      BY <1>5, <2>1, <2>2, TypeShow DEF Hydrate, TypeOK
    <2>3. CASE UNCHANGED <<screen, base, dirty, touched, sync, made>>
      BY <1>5, <2>1, <2>3 DEF Hydrate, TypeOK
    <2>4. CASE keeps
      BY <1>5, <2>1, <2>4 DEF Hydrate, TypeOK, Remember
    <2> QED BY <1>5, <2>2, <2>3, <2>4 DEF Hydrate
  <1>6. CASE Reload(t)
    <2> DEFINE beacon == Save(t, pending[t], base[t], "beacon")
               orphans == {[s EXCEPT !.live = FALSE] :
                 s \in {x \in saves : x.tab = t /\ x.live /\ x.phase \notin {"saved", "refused"}}}
               rest == {s \in saves : s.tab # t \/ ~ s.live}
    <2>1. pending[t] # None => beacon \in Saves /\ ~ beacon.live
      <3>1. pending[t] \in Copies \cup {None} /\ base[t] \in Copies \cup {None, Whole}
        BY DEF TypeOK
      <3> QED BY <3>1, SaveFits
    <2>0. \A s \in Saves : [s EXCEPT !.live = FALSE] \in Saves /\ ~ [s EXCEPT !.live = FALSE].live
      BY DEF Saves
    <2>2. \A s \in orphans : s \in Saves /\ ~ s.live
      BY <2>0 DEF TypeOK
    <2>3. \A s \in rest : s \in Saves /\ s \in saves
      BY DEF TypeOK
    <2>4. saves' = rest \cup orphans \cup (IF pending[t] = None THEN {} ELSE {beacon})
      BY <1>6 DEF Reload
    <2>5. saves' \subseteq Saves
      BY <2>1, <2>2, <2>3, <2>4
    <2>6. \A s \in saves' : s.live => s \in saves
      BY <2>1, <2>2, <2>3, <2>4
    <2>7. OneLive'
      BY <2>6 DEF OneLive, TypeOK
    <2>8. [r \in Rows |-> Absent] \in Copies
      BY DEF Copies, Values
    <2>9. faults' \in 0..MaxFaults
      BY <1>6, SyncAssumption DEF Reload, Fault, TypeOK
    <2> QED BY <1>6, <2>5, <2>7, <2>8, <2>9 DEF Reload, TypeOK, OneLive, FirstBaseline
  <1> QED BY <1>1, <1>2, <1>3, <1>4, <1>5, <1>6

LEMMA TypeAnswer ==
  ASSUME TypeOK, NEW s \in saves, Saved(s) \/ Refused(s) \/ Unanswered(s)
  PROVE  TypeOK'
  <1>0. s \in Saves /\ s.tab \in Tabs
    BY DEF TypeOK, Saves
  <1>1. CASE Saved(s)
    BY <1>0, <1>1 DEF Saved, TypeOK, Saves, Without, Remember, StillQueued, NextTimer
  <1>2. CASE Refused(s)
    <2> DEFINE again == Save(s.tab, s.sent, Whole, "alone")
    <2>1. base' \in [Tabs -> Copies \cup {None, Whole}]
      BY <1>0, <1>2 DEF Refused, TypeOK
    <2>2. CASE saves' = Without(s) \cup {again} /\ UNCHANGED <<timer, touched>>
      <3>0. s.sent \in Copies /\ Whole \in Copies \cup {None, Whole}
        BY <1>0 DEF Saves
      <3>1. again \in Saves /\ again.tab = s.tab
        BY <1>0, <3>0, SaveFits
      <3>2. \A x \in Without(s) : x \in saves /\ (x.live => x.tab # s.tab)
        BY <1>2 DEF Without, TypeOK, Refused
      <3>3. OneLive'
        BY <2>2, <3>1, <3>2 DEF OneLive, TypeOK
      <3> QED BY <1>2, <2>1, <2>2, <3>1, <3>2, <3>3 DEF Refused, TypeOK, OneLive
    <2>3. CASE saves' = Without(s) /\ timer' = [timer EXCEPT ![s.tab] = @ \/ ~ s.alone]
               /\ touched' = [touched EXCEPT ![s.tab] = @ \cup s.touched]
      BY <1>0, <1>2, <2>1, <2>3 DEF Refused, TypeOK, Saves, Without
    <2> QED BY <1>2, <2>2, <2>3 DEF Refused, Becomes
  <1>3. CASE Unanswered(s)
    <2>1. [s EXCEPT !.live = FALSE] \in Saves /\ ~ [s EXCEPT !.live = FALSE].live
      BY <1>0 DEF Saves
    <2>2. saves' \subseteq Without(s) \cup {[s EXCEPT !.live = FALSE]}
      BY <1>3 DEF Unanswered
    <2>3. saves' \subseteq Saves /\ \A x \in saves' : x.live => x \in saves
      BY <2>1, <2>2 DEF Without, TypeOK
    <2>4. OneLive'
      BY <2>3 DEF OneLive, TypeOK
    <2>5. faults' \in 0..MaxFaults
      BY <1>3, SyncAssumption DEF Unanswered, Fault, TypeOK
    <2>6. timer' \in [Tabs -> BOOLEAN] /\ touched' \in [Tabs -> SUBSET Rows]
      BY <1>0, <1>3 DEF Unanswered, TypeOK, Saves
    <2> QED BY <1>3, <2>3, <2>4, <2>5, <2>6 DEF Unanswered, TypeOK, OneLive
  <1> QED BY <1>1, <1>2, <1>3

(* A save of a browser in place of its other: still one that is live. *)
LEMMA OneLiveStays ==
  ASSUME TypeOK, NEW s \in saves, NEW new, new.tab = s.tab, new.live => s.live,
         saves' \subseteq Without(s) \cup {new}
  PROVE  OneLive'
  <1>1. \A x \in Without(s) : x \in saves /\ x # s
    BY DEF Without
  <1>2. \A x, y \in saves : x.live /\ y.live /\ x.tab = y.tab => x = y
    BY DEF TypeOK
  <1>3. ASSUME NEW a \in saves', NEW b \in saves', a.live, b.live, a.tab = b.tab PROVE a = b
    <2>1. CASE a = new /\ b \in Without(s)
      <3>1. b \in saves /\ b # s /\ s.live /\ b.tab = s.tab
        BY <1>1, <1>3, <2>1
      <3> QED BY <1>2, <1>3, <3>1
    <2>2. CASE b = new /\ a \in Without(s)
      <3>1. a \in saves /\ a # s /\ s.live /\ a.tab = s.tab
        BY <1>1, <1>3, <2>2
      <3> QED BY <1>2, <1>3, <3>1
    <2>3. CASE a \in Without(s) /\ b \in Without(s)
      BY <1>1, <1>2, <1>3, <2>3
    <2> QED BY <1>3, <2>1, <2>2, <2>3
  <1> QED BY <1>3 DEF OneLive

LEMMA TypeServer ==
  ASSUME TypeOK, NEW s \in saves, Rebuild(s) \/ Commit(s) \/ Throw(s) \/ ServerError(s)
  PROVE  TypeOK'
  <1>0. s \in Saves /\ s.result \in Copies /\ stored \in Copies
    BY DEF TypeOK, Saves
  <1>1. CASE Rebuild(s)
    <2> DEFINE new == [s EXCEPT !.phase = "rebuilt", !.result = Guarded(stored, Applied(stored, s)),
                                !.fresh = TRUE]
    <2>1. new \in Saves /\ new.tab = s.tab /\ new.live = s.live
      BY <1>0, AppliedType DEF Saves, Phases
    <2>2. saves' = Without(s) \cup {new}
      BY <1>1 DEF Rebuild, Becomes
    <2>3. OneLive'
      BY <2>1, <2>2, OneLiveStays
    <2> QED BY <1>1, <2>1, <2>2, <2>3 DEF Rebuild, Server, tabVars, queue, TypeOK, OneLive, Without
  <1>2. CASE Commit(s)
    <2> DEFINE old(x) == IF stored' = stored THEN x ELSE [x EXCEPT !.fresh = FALSE]
               new == [s EXCEPT !.phase = "saved", !.fresh = TRUE]
    <2>1. new \in Saves /\ new.tab = s.tab /\ new.live = s.live
      BY <1>0 DEF Saves, Phases
    <2>2. ASSUME NEW x \in saves PROVE old(x) \in Saves /\ old(x).tab = x.tab /\ old(x).live = x.live
      <3>1. x \in Saves
        BY DEF TypeOK
      <3>2. [x EXCEPT !.fresh = FALSE] \in Saves
        BY <3>1 DEF Saves
      <3>3. /\ [x EXCEPT !.fresh = FALSE].tab = x.tab
            /\ [x EXCEPT !.fresh = FALSE].live = x.live
        BY <3>1 DEF Saves
      <3>4. old(x) = x \/ old(x) = [x EXCEPT !.fresh = FALSE]
        OBVIOUS
      <3> HIDE DEF old
      <3> QED BY <3>1, <3>2, <3>3, <3>4
    <2>3. saves' = {old(x) : x \in Without(s)} \cup (IF s.live THEN {new} ELSE {})
      BY <1>2 DEF Commit
    <2>4. saves' \subseteq Saves
      BY <2>1, <2>2, <2>3 DEF Without
    <2>5. ASSUME NEW a \in saves', NEW b \in saves', a.live, b.live, a.tab = b.tab PROVE a = b
      <3>1. \A x \in Without(s) : x \in saves /\ x # s
        BY DEF Without
      <3>2. \A x, y \in saves : x.live /\ y.live /\ x.tab = y.tab => x = y
        BY DEF TypeOK
      <3>3. ASSUME NEW c \in saves'
            PROVE  \/ c = new /\ s.live
                   \/ \E x \in Without(s) : c = old(x) /\ x.tab = c.tab /\ x.live = c.live
        BY <2>2, <2>3, <3>1, <3>3
      <3>4. CASE a = new /\ s.live
        <4>1. CASE b = new
          BY <3>4, <4>1
        <4>2. CASE \E x \in Without(s) : b = old(x) /\ x.tab = b.tab /\ x.live = b.live
          BY <2>1, <2>5, <3>1, <3>2, <3>4, <4>2
        <4> QED BY <3>3, <4>1, <4>2
      <3>5. CASE \E x \in Without(s) : a = old(x) /\ x.tab = a.tab /\ x.live = a.live
        <4>0. PICK x \in Without(s) : a = old(x) /\ x.tab = a.tab /\ x.live = a.live
          BY <3>5
        <4>1. CASE b = new /\ s.live
          BY <2>1, <2>5, <3>1, <3>2, <4>0, <4>1
        <4>2. CASE \E y \in Without(s) : b = old(y) /\ y.tab = b.tab /\ y.live = b.live
          <5>1. PICK y \in Without(s) : b = old(y) /\ y.tab = b.tab /\ y.live = b.live
            BY <4>2
          <5>2. x = y
            BY <2>5, <3>1, <3>2, <4>0, <5>1
          <5> QED BY <4>0, <5>1, <5>2
        <4> QED BY <3>3, <4>1, <4>2
      <3> QED BY <3>3, <3>4, <3>5
    <2>6. stored' \in Copies /\ history' \subseteq Rows \X Values
      BY <1>0, <1>2, PairsType DEF Commit, TypeOK
    <2> QED BY <1>2, <2>4, <2>5, <2>6 DEF Commit, Server, tabVars, queue, TypeOK
  <1>3. CASE Throw(s)
    <2> DEFINE new == [s EXCEPT !.phase = "refused"]
    <2>1. new \in Saves /\ new.tab = s.tab /\ new.live = s.live
      BY <1>0 DEF Saves, Phases
    <2>2. saves' = Without(s) \cup (IF s.live THEN {new} ELSE {})
      BY <1>3 DEF Throw
    <2>3. OneLive'
      BY <2>1, <2>2, OneLiveStays
    <2> QED BY <1>3, <2>1, <2>2, <2>3 DEF Throw, Server, tabVars, queue, TypeOK, OneLive, Without
  <1>4. CASE ServerError(s)
    <2> DEFINE new == [s EXCEPT !.phase = "refused"]
    <2>1. new \in Saves /\ new.tab = s.tab /\ new.live = s.live
      BY <1>0 DEF Saves, Phases
    <2>2. saves' = Without(s) \cup {new}
      BY <1>4 DEF ServerError, Becomes
    <2>3. OneLive'
      BY <2>1, <2>2, OneLiveStays
    <2>4. faults' \in 0..MaxFaults
      BY <1>4, SyncAssumption DEF ServerError, Fault, TypeOK
    <2> QED BY <1>4, <2>1, <2>2, <2>3, <2>4
            DEF ServerError, Server, tabVars, queue, TypeOK, OneLive, Without
  <1> QED BY <1>1, <1>2, <1>3, <1>4

(* What a step can be. *)
LEMMA Steps ==
  ASSUME TypeOK, Next
  PROVE  \/ \E t \in Tabs, r \in Rows, v \in Values \cup {edits + 1} : Change(t, r, v)
         \/ \E t \in Tabs : \/ TimerFires(t) \/ BackOnline(t)
                            \/ Get(t) \/ ApplyRemote(t) \/ Hydrate(t) \/ Reload(t)
         \/ \E s \in saves : Saved(s) \/ Refused(s) \/ Unanswered(s)
         \/ \E s \in saves : Rebuild(s) \/ Commit(s) \/ Throw(s) \/ ServerError(s)
  <1>1. ASSUME NEW t \in Tabs, NEW r \in Rows, Edit(t, r) \/ Delete(t, r) \/ Undo(t, r)
        PROVE  \E v \in Values \cup {edits + 1} : Change(t, r, v)
    <2>1. CASE Edit(t, r)
      BY <2>1 DEF Edit
    <2>2. CASE Delete(t, r)
      BY <2>2 DEF Delete, Values
    <2>3. CASE Undo(t, r)
      <3>1. base[t] \in Copies
        BY <2>3 DEF Undo, TypeOK
      <3>2. base[t][r] \in Values
        BY <3>1 DEF Copies
      <3> QED BY <2>3, <3>2 DEF Undo
    <2> QED BY <1>1, <2>1, <2>2, <2>3
  <1> QED BY <1>1 DEF Next, Handle, Answer

LEMMA TypeNext == TypeOK /\ [Next]_vars => TypeOK'
  <1> SUFFICES ASSUME TypeOK, [Next]_vars PROVE TypeOK'
    OBVIOUS
  <1>1. CASE Next
    BY <1>1, Steps, TypeChange, TypeBrowser, TypeAnswer, TypeServer
  <1>2. CASE UNCHANGED vars
    BY <1>2 DEF vars, tabVars, queue, TypeOK
  <1> QED BY <1>1, <1>2

(* Every variable of the protocol keeps to its type. *)
THEOREM Typed == Spec => []TypeOK
  BY TypeInit, TypeNext, PTL DEF Spec

-----------------------------------------------------------------------------
(* What was written *)

LEMMA NewSaveHeld ==
  ASSUME TypeOK, BaselineWasStored, NEW t \in Tabs, NEW c \in Copies,
         NEW b \in {base[t], Whole}, NEW how \in {"batch", "alone", "beacon"}
  PROVE  SaveHeld(Save(t, c, b, how))
  <1>0. b \in Copies \cup {None, Whole}
    BY DEF TypeOK
  <1> DEFINE new == Save(t, c, b, how)
  <1>1. /\ new.phase = "sent" /\ new.sent = c
        /\ new.up = Body(b, c).up /\ new.rm = Body(b, c).rm
    BY <1>0, SaveFits
  <1>2. /\ Body(b, c).up \subseteq Present(c) /\ Body(b, c).rm \cap Present(c) = {}
        /\ \A r \in Present(c) \ Body(b, c).up : Copy(b) /\ r \in Present(b) /\ b[r] = c[r]
    BY <1>0, BodyFits
  <1>3. \A r \in Present(c) \ Body(b, c).up : <<r, c[r]>> \in history
    <2> TAKE r \in Present(c) \ Body(b, c).up
    <2>1. Copy(b) /\ r \in Present(b) /\ b[r] = c[r]
      BY <1>2
    <2>2. b = base[t] /\ base[t] \notin {None, Whole}
      BY <2>1 DEF Copy
    <2> QED BY <2>1, <2>2 DEF BaselineWasStored
  <1>4. new.phase # "rebuilt" /\ new.phase # "saved"
    BY <1>1
  <1>5. /\ new.up \subseteq Present(new.sent) /\ new.rm \cap Present(new.sent) = {}
        /\ \A r \in Present(new.sent) \ new.up : <<r, new.sent[r]>> \in history
    BY <1>1, <1>2, <1>3
  <1> QED BY <1>4, <1>5 DEF SaveHeld

(* What was held stays held: the past only grows. *)
LEMMA SaveHeldStays ==
  ASSUME NEW s, SaveHeld(s), history \subseteq history' PROVE SaveHeld(s)'
  BY DEF SaveHeld, Held, Present

LEMMA WrittenInit == Init => Written
  <1> SUFFICES ASSUME Init PROVE Written
    OBVIOUS
  <1>1. StoredHeld /\ BaselineWasStored
    BY DEF Init, StoredHeld, Held, Pairs, Present, BaselineWasStored
  <1>2. GotHeld /\ SavesHeld
    BY DEF Init, GotHeld, SavesHeld
  <1>3. EditsShown
    BY DEF Init, EditsShown
  <1> QED BY <1>1, <1>2, <1>3 DEF Written

LEMMA WrittenChange ==
  ASSUME TypeOK, Written, NEW t \in Tabs, NEW r \in Rows, NEW v \in Values \cup {edits + 1},
         Change(t, r, v)
  PROVE  Written'
  <1> DEFINE c == [screen[t] EXCEPT ![r] = v]
  <1>1. /\ UNCHANGED <<stored, base, got, saves, history>>
        /\ made' = [made EXCEPT ![t][r] = v] /\ screen' = [screen EXCEPT ![t] = c]
    BY DEF Change
  <1>2. StoredHeld' /\ GotHeld' /\ BaselineWasStored' /\ SavesHeld'
    BY <1>1 DEF Written, StoredHeld, GotHeld, Held, Present, BaselineWasStored, SavesHeld, SaveHeld
  <1>3. ASSUME NEW u \in Tabs, NEW q \in Rows, made'[u][q] # Absent
        PROVE  \/ <<q, made'[u][q]>> \in history'
               \/ pending'[u] # None /\ pending'[u][q] = made'[u][q] /\ screen'[u][q] = made'[u][q]
    <2>0. /\ screen \in [Tabs -> Copies] /\ made \in [Tabs -> Copies]
          /\ pending \in [Tabs -> Copies \cup {None}]
      BY DEF TypeOK
    <2>1. CASE u # t
      <3>1. /\ made'[u] = made[u] /\ screen'[u] = screen[u] /\ pending'[u] = pending[u]
        BY <1>1, <2>0, <2>1 DEF Change
      <3> QED BY <1>1, <1>3, <3>1 DEF Written, EditsShown
    <2>2. CASE u = t
      <3>0. screen[t] \in [Rows -> Values] /\ made[t] \in [Rows -> Values]
        BY <2>0 DEF Copies
      <3>1. screen'[u] = c /\ made'[u] = [made[t] EXCEPT ![r] = v]
        BY <1>1, <2>0, <2>2
      <3>2. made'[u][q] = c[q] \/ <<q, made'[u][q]>> \in history
        BY <1>3, <2>2, <3>0, <3>1 DEF Written, EditsShown
      <3>3. CASE KnownToServer(t, c)
        <4>1. c = base[t]
          BY <3>3 DEF KnownToServer
        <4>2. c \in [Rows -> Values \cup {edits + 1}]
          BY <3>0
        <4>3. base[t] \notin {None, Whole}
          <5>1. v \in Values
            BY SyncAssumption DEF TypeOK, Change, Values
          <5>2. c \in Copies
            BY <3>0, <5>1 DEF Copies
          <5> QED BY <4>1, <5>2, SyncAssumption
        <4>4. made'[u][q] = c[q] => q \in Present(base[t]) /\ <<q, base[t][q]>> \in history
          BY <1>3, <4>1, <4>3 DEF Present, Written, BaselineWasStored
        <4>5. history' = history /\ base[t][q] = c[q]
          BY <1>1, <4>1
        <4>6. <<q, made'[u][q]>> \in history
          BY <3>2, <4>4, <4>5
        <4> QED BY <4>5, <4>6
      <3>4. CASE ~ KnownToServer(t, c)
        <4>1. pending'[t] = c /\ c # None
          <5>1. v \in Values
            BY SyncAssumption DEF TypeOK, Change, Values
          <5>2. c \in Copies
            BY <3>0, <5>1 DEF Copies
          <5> QED BY <2>0, <3>4, <5>2, SyncAssumption DEF Change
        <4> QED BY <1>1, <2>2, <3>1, <3>2, <4>1
      <3> QED BY <3>3, <3>4
    <2> QED BY <2>1, <2>2
  <1>4. EditsShown'
    BY <1>3 DEF EditsShown
  <1> QED BY <1>2, <1>4 DEF Written

LEMMA WrittenShow ==
  ASSUME TypeOK, Written, NEW t \in Tabs, NEW g \in Copies, Held(g), Show(t, g),
         UNCHANGED <<history, pending>>
  PROVE  BaselineWasStored' /\ EditsShown'
  <1>1. BaselineWasStored'
    BY DEF TypeOK, Show, Remember, Held, Present, Written, BaselineWasStored
  <1>2. ASSUME NEW u \in Tabs, NEW q \in Rows, made'[u][q] # Absent
        PROVE  \/ <<q, made'[u][q]>> \in history'
               \/ pending'[u] # None /\ pending'[u][q] = made'[u][q] /\ screen'[u][q] = made'[u][q]
    <2>0. screen \in [Tabs -> Copies] /\ made \in [Tabs -> Copies]
      BY DEF TypeOK
    <2>1. CASE u # t
      <3>1. made'[u] = made[u] /\ screen'[u] = screen[u]
        BY <2>0, <2>1 DEF Show
      <3> QED BY <1>2, <3>1 DEF Written, EditsShown
    <2>2. CASE u = t
      <3>1. made' = made
        BY <1>2, <2>0, <2>2 DEF Show
      <3>2. pending[t] # None => pending[t] = g
        <4>1. made' = [made EXCEPT ![t] = [x \in Rows |-> Absent]] => made'[t][q] = Absent
          BY <2>0
        <4> QED BY <1>2, <2>2, <4>1 DEF Show
      <3>3. screen'[t] = g
        BY <2>0 DEF Show
      <3> QED BY <1>2, <2>2, <3>1, <3>2, <3>3 DEF Written, EditsShown
    <2> QED BY <2>1, <2>2
  <1> QED BY <1>1, <1>2 DEF EditsShown

(* A step that leaves the rest alone keeps each part of Written. *)
LEMMA WrittenStays ==
  ASSUME Written, history \subseteq history'
  PROVE  /\ UNCHANGED stored => StoredHeld'
         /\ UNCHANGED got => GotHeld'
         /\ UNCHANGED base => BaselineWasStored'
         /\ UNCHANGED saves => SavesHeld'
         /\ UNCHANGED <<made, pending, screen>> => EditsShown'
  <1>1. UNCHANGED stored => StoredHeld'
    BY DEF Written, StoredHeld, Held, Present
  <1>2. UNCHANGED got => GotHeld'
    BY DEF Written, GotHeld, Held, Present
  <1>3. UNCHANGED base => BaselineWasStored'
    BY DEF Written, BaselineWasStored, Present
  <1>4. UNCHANGED saves => SavesHeld'
    BY SaveHeldStays DEF Written, SavesHeld
  <1>5. UNCHANGED <<made, pending, screen>> => EditsShown'
    BY DEF Written, EditsShown
  <1> QED BY <1>1, <1>2, <1>3, <1>4, <1>5

LEMMA WrittenSend ==
  ASSUME TypeOK, Written, NEW t \in Tabs, MaySend(t), Send(t), UNCHANGED history
  PROVE  SavesHeld'
  <1>1. /\ saves' = saves \cup {Save(t, pending[t], base[t], "batch")}
        /\ pending[t] \in Copies
    BY TypeSend
  <1>2. SaveHeld(Save(t, pending[t], base[t], "batch"))
    BY <1>1, NewSaveHeld DEF Written
  <1>3. \A x \in saves' : SaveHeld(x)
    BY <1>1, <1>2 DEF Written, SavesHeld
  <1> QED BY <1>3, SaveHeldStays DEF SavesHeld

LEMMA WrittenBrowser ==
  ASSUME TypeOK, Written, NEW t \in Tabs,
         \/ TimerFires(t) \/ BackOnline(t) \/ Get(t) \/ ApplyRemote(t) \/ Hydrate(t) \/ Reload(t)
  PROVE  Written'
  <1>0. got \in [Tabs -> Copies \cup {None}] /\ (got[t] # None => Held(got[t]))
    BY DEF TypeOK, Written, GotHeld
  <1>1. CASE TimerFires(t)
    <2>1. UNCHANGED <<stored, screen, base, pending, got, made, history>>
      BY <1>1 DEF TimerFires
    <2>2. SavesHeld'
      BY <1>1, <2>1, WrittenSend, WrittenStays DEF TimerFires
    <2> QED BY <2>1, <2>2, WrittenStays DEF Written
  <1>2. CASE BackOnline(t)
    <2>1. UNCHANGED <<stored, screen, base, pending, got, made, history>>
      BY <1>2 DEF BackOnline, queue
    <2>2. SavesHeld'
      BY <1>2, <2>1, WrittenSend DEF BackOnline
    <2> QED BY <2>1, <2>2, WrittenStays DEF Written
  <1>3. CASE Get(t)
    <2>1. UNCHANGED <<stored, screen, base, pending, saves, made, history>>
      BY <1>3 DEF Get, queue
    <2>2. GotHeld'
      BY <1>0, <1>3, <2>1 DEF Get, GotHeld, Held, Present, Written, StoredHeld
    <2> QED BY <2>1, <2>2, WrittenStays DEF Written
  <1>4. CASE ApplyRemote(t)
    <2>1. UNCHANGED <<stored, pending, saves, history>> /\ got[t] \in Copies
      BY <1>0, <1>4 DEF ApplyRemote
    <2>2. GotHeld'
      BY <1>0, <1>4, <2>1 DEF ApplyRemote, GotHeld, Held, Present, Written
    <2>3. BaselineWasStored' /\ EditsShown'
      <3>1. CASE Show(t, got[t])
        BY <1>0, <2>1, <3>1, SyncAssumption, WrittenShow
      <3>2. CASE UNCHANGED <<screen, base, dirty, touched, sync, made>>
        BY <2>1, <3>2, WrittenStays
      <3> QED BY <1>4, <3>1, <3>2 DEF ApplyRemote
    <2> QED BY <2>1, <2>2, <2>3, WrittenStays DEF Written
  <1>5. CASE Hydrate(t)
    <2>1. UNCHANGED <<stored, pending, saves, history>> /\ got[t] \in Copies
      BY <1>0, <1>5 DEF Hydrate
    <2>2. GotHeld'
      BY <1>0, <1>5, <2>1 DEF Hydrate, GotHeld, Held, Present, Written
    <2>3. BaselineWasStored' /\ EditsShown'
      <3>1. CASE Show(t, got[t])
        BY <1>0, <2>1, <3>1, SyncAssumption, WrittenShow
      <3>2. CASE UNCHANGED <<screen, base, dirty, touched, sync, made>>
        BY <2>1, <3>2, WrittenStays
      <3>3. CASE /\ base' = [base EXCEPT ![t] = Remember(t, got[t])]
                 /\ UNCHANGED <<screen, dirty, touched, made>>
        <4>1. BaselineWasStored'
          BY <1>0, <2>1, <3>3, SyncAssumption
             DEF TypeOK, Remember, Held, Present, Written, BaselineWasStored
        <4> QED BY <2>1, <3>3, <4>1, WrittenStays
      <3> QED BY <1>5, <3>1, <3>2, <3>3 DEF Hydrate
    <2> QED BY <2>1, <2>2, <2>3, WrittenStays DEF Written
  <1>6. CASE Reload(t)
    <2>1. UNCHANGED <<stored, screen, history>>
      BY <1>6 DEF Reload
    <2>2. GotHeld' /\ BaselineWasStored'
      BY <1>0, <1>6, <2>1
         DEF Reload, FirstBaseline, TypeOK, GotHeld, BaselineWasStored, Held, Present, Written
    <2>3. EditsShown'
      BY <1>6, <2>1 DEF Reload, TypeOK, EditsShown, Written
    <2>4. SavesHeld'
      <3>1. ASSUME NEW x \in saves' PROVE SaveHeld(x)
        <4>1. CASE x \in saves
          BY <4>1 DEF Written, SavesHeld
        <4>2. CASE \E s \in saves : x = [s EXCEPT !.live = FALSE]
          <5>1. PICK s \in saves : x = [s EXCEPT !.live = FALSE]
            BY <4>2
          <5>2. /\ x.phase = s.phase /\ x.sent = s.sent /\ x.up = s.up /\ x.rm = s.rm
                /\ x.result = s.result
            BY <5>1 DEF TypeOK, Saves
          <5>3. SaveHeld(s)
            BY DEF Written, SavesHeld
          <5> QED BY <5>2, <5>3 DEF SaveHeld
        <4>3. CASE pending[t] # None /\ x = Save(t, pending[t], base[t], "beacon")
          <5>1. pending[t] \in Copies
            BY <4>3 DEF TypeOK
          <5> QED BY <4>3, <5>1, NewSaveHeld DEF Written
        <4> QED BY <1>6, <4>1, <4>2, <4>3 DEF Reload
      <3> QED BY <2>1, <3>1, SaveHeldStays DEF SavesHeld
    <2> QED BY <2>1, <2>2, <2>3, <2>4, WrittenStays DEF Written
  <1> QED BY <1>1, <1>2, <1>3, <1>4, <1>5, <1>6

LEMMA WrittenAnswer ==
  ASSUME TypeOK, Written, NEW s \in saves, Saved(s) \/ Refused(s) \/ Unanswered(s)
  PROVE  Written'
  <1>0. s \in Saves /\ s.tab \in Tabs /\ s.sent \in Copies /\ SaveHeld(s)
    BY DEF TypeOK, Saves, Written, SavesHeld
  <1>1. UNCHANGED <<stored, screen, got, made, history>>
    BY DEF Saved, Refused, Unanswered
  <1>2. CASE Saved(s)
    <2>1. SavesHeld'
      BY <1>1, <1>2, SaveHeldStays DEF Saved, Without, Written, SavesHeld
    <2>2. Held(s.sent)
      BY <1>0, <1>2 DEF Saved, SaveHeld
    <2>3. BaselineWasStored'
      BY <1>0, <1>1, <1>2, <2>2
         DEF Saved, TypeOK, Remember, Held, Present, Written, BaselineWasStored
    <2>4. ASSUME NEW u \in Tabs, NEW q \in Rows, made'[u][q] # Absent
          PROVE  \/ <<q, made'[u][q]>> \in history'
                 \/ /\ pending'[u] # None
                    /\ pending'[u][q] = made'[u][q] /\ screen'[u][q] = made'[u][q]
      <3>1. \/ <<q, made[u][q]>> \in history
            \/ pending[u] # None /\ pending[u][q] = made[u][q] /\ screen[u][q] = made[u][q]
        BY <1>1, <2>4 DEF Written, EditsShown
      <3>2. pending'[u] = pending[u] \/ pending[u] = s.sent
        BY <1>0, <1>2 DEF Saved, StillQueued, TypeOK
      <3>3. s.sent[q] = made[u][q] => <<q, made[u][q]>> \in history
        BY <1>1, <2>2, <2>4 DEF Held, Present
      <3> QED BY <1>1, <3>1, <3>2, <3>3
    <2> QED BY <1>1, <2>1, <2>3, <2>4, WrittenStays DEF Written, EditsShown
  <1>3. CASE Refused(s)
    <2>1. BaselineWasStored'
      BY <1>0, <1>1, <1>3 DEF Refused, TypeOK, Present, Written, BaselineWasStored
    <2>2. ASSUME NEW x \in saves' PROVE SaveHeld(x)
      <3>1. CASE x \in saves
        BY <3>1 DEF Written, SavesHeld
      <3>2. CASE x = Save(s.tab, s.sent, Whole, "alone")
        BY <1>0, <3>2, NewSaveHeld DEF Written
      <3> QED BY <1>3, <3>1, <3>2 DEF Refused, Becomes, Without
    <2>3. pending' = pending
      BY <1>3 DEF Refused
    <2> QED BY <1>1, <2>1, <2>2, <2>3, WrittenStays, SaveHeldStays DEF Written, SavesHeld
  <1>4. CASE Unanswered(s)
    <2>1. UNCHANGED <<base, pending>>
      BY <1>4 DEF Unanswered
    <2>2. ASSUME NEW x \in saves' PROVE SaveHeld(x)
      <3>1. CASE x \in saves
        BY <3>1 DEF Written, SavesHeld
      <3>2. CASE x = [s EXCEPT !.live = FALSE]
        <4>1. /\ x.phase = s.phase /\ x.sent = s.sent /\ x.up = s.up /\ x.rm = s.rm
              /\ x.result = s.result
          BY <1>0, <3>2 DEF Saves
        <4> QED BY <1>0, <4>1 DEF SaveHeld
      <3> QED BY <1>4, <3>1, <3>2 DEF Unanswered, Without
    <2> QED BY <1>1, <2>1, <2>2, WrittenStays, SaveHeldStays DEF Written, SavesHeld
  <1> QED BY <1>2, <1>3, <1>4

(* What a save carries is in the collection the server rebuilds. *)
LEMMA CarriedOver ==
  ASSUME NEW c \in Copies, NEW s \in Saves, SaveHeld(s), NEW r \in s.up
  PROVE  Guarded(c, Applied(c, s))[r] = s.sent[r]
  <1>1. r \in Rows /\ r \notin s.rm /\ s.sent[r] # Absent
    BY DEF SaveHeld, Present, Saves
  <1>2. Applied(c, s)[r] = s.sent[r]
    BY <1>1 DEF Applied
  <1>3. Union(c, Applied(c, s))[r] = s.sent[r]
    BY <1>1, <1>2 DEF Union
  <1> QED BY <1>2, <1>3 DEF Guarded

LEMMA WrittenServer ==
  ASSUME TypeOK, Written, NEW s \in saves,
         Rebuild(s) \/ Commit(s) \/ Throw(s) \/ ServerError(s)
  PROVE  Written'
  <1>0. s \in Saves /\ s.result \in Copies /\ stored \in Copies /\ SaveHeld(s)
    BY DEF TypeOK, Saves, Written, SavesHeld
  <1>1. UNCHANGED <<screen, base, pending, got, made>>
    BY DEF Rebuild, Commit, Throw, ServerError, Server, tabVars, queue
  <1>2. CASE Rebuild(s)
    <2>1. UNCHANGED <<stored, history>>
      BY <1>2 DEF Rebuild
    <2>2. ASSUME NEW x \in saves' PROVE SaveHeld(x)
      <3>1. CASE x \in saves
        BY <3>1 DEF Written, SavesHeld
      <3>2. CASE x = [s EXCEPT !.phase = "rebuilt", !.result = Guarded(stored, Applied(stored, s)),
                               !.fresh = TRUE]
        <4>1. /\ x.phase = "rebuilt" /\ x.sent = s.sent /\ x.up = s.up /\ x.rm = s.rm
              /\ x.result = Guarded(stored, Applied(stored, s))
          BY <1>0, <3>2 DEF Saves
        <4>2. \A r \in s.up : x.result[r] = s.sent[r]
          BY <1>0, <4>1, CarriedOver
        <4>3. x.phase # "saved"
          BY <4>1
        <4> QED BY <1>0, <4>1, <4>2, <4>3 DEF SaveHeld
      <3> QED BY <1>2, <3>1, <3>2 DEF Rebuild, Becomes, Without
    <2> QED BY <1>1, <2>1, <2>2, WrittenStays, SaveHeldStays DEF Written, SavesHeld
  <1>3. CASE Commit(s)
    <2>1. stored' = s.result /\ history' = history \cup Pairs(s.result)
      BY <1>3 DEF Commit
    <2>2. \A r \in Rows : <<r, s.result[r]>> \in history'
      BY <1>0, <2>1, PairsHeld
    <2>3. StoredHeld'
      BY <2>1, <2>2 DEF StoredHeld, Held, Present
    <2>4. ASSUME NEW x \in saves' PROVE SaveHeld(x)'
      <3>1. CASE \E y \in saves : x = y \/ x = [y EXCEPT !.fresh = FALSE]
        <4>1. PICK y \in saves : x = y \/ x = [y EXCEPT !.fresh = FALSE]
          BY <3>1
        <4>2. /\ x.phase = y.phase /\ x.sent = y.sent /\ x.up = y.up /\ x.rm = y.rm
              /\ x.result = y.result
          BY <4>1 DEF TypeOK, Saves
        <4>3. SaveHeld(y)
          BY DEF Written, SavesHeld
        <4>4. SaveHeld(x)
          BY <4>2, <4>3 DEF SaveHeld
        <4> QED BY <2>1, <4>4, SaveHeldStays
      <3>2. CASE x = [s EXCEPT !.phase = "saved", !.fresh = TRUE]
        <4>1. x.phase = "saved" /\ x.sent = s.sent /\ x.up = s.up /\ x.rm = s.rm
          BY <1>0, <3>2 DEF Saves
        <4>2. \A r \in s.up : r \in Rows /\ s.result[r] = s.sent[r]
          BY <1>0, <1>3 DEF Commit, SaveHeld, Saves
        <4>3. \A r \in Present(s.sent) : <<r, s.sent[r]>> \in history'
          BY <1>0, <2>1, <2>2, <4>2 DEF SaveHeld
        <4>4. x.phase # "rebuilt"
          BY <4>1
        <4>5. Held(x.sent)'
          BY <4>1, <4>3 DEF Held
        <4> QED BY <1>0, <2>1, <4>1, <4>3, <4>4, <4>5 DEF SaveHeld
      <3> QED BY <1>3, <3>1, <3>2 DEF Commit, Without
    <2> QED BY <1>1, <2>1, <2>3, <2>4, WrittenStays DEF Written, SavesHeld
  <1>4. CASE Throw(s) \/ ServerError(s)
    <2>1. UNCHANGED <<stored, history>>
      BY <1>4 DEF Throw, ServerError
    <2>2. ASSUME NEW x \in saves' PROVE SaveHeld(x)
      <3>1. CASE x \in saves
        BY <3>1 DEF Written, SavesHeld
      <3>2. CASE x = [s EXCEPT !.phase = "refused"]
        <4>1. x.phase = "refused" /\ x.sent = s.sent /\ x.up = s.up /\ x.rm = s.rm
          BY <1>0, <3>2 DEF Saves
        <4>2. x.phase # "rebuilt" /\ x.phase # "saved"
          BY <4>1
        <4> QED BY <1>0, <4>1, <4>2 DEF SaveHeld
      <3> QED BY <1>4, <3>1, <3>2 DEF Throw, ServerError, Becomes, Without
    <2> QED BY <1>1, <2>1, <2>2, WrittenStays, SaveHeldStays DEF Written, SavesHeld
  <1> QED BY <1>2, <1>3, <1>4

LEMMA WrittenNext == TypeOK /\ Written /\ [Next]_vars => Written'
  <1> SUFFICES ASSUME TypeOK, Written, [Next]_vars PROVE Written'
    OBVIOUS
  <1>1. CASE Next
    BY <1>1, Steps, WrittenChange, WrittenBrowser, WrittenAnswer, WrittenServer
  <1>2. CASE UNCHANGED vars
    BY <1>2, WrittenStays DEF vars, tabVars, queue, Written
  <1> QED BY <1>1, <1>2

LEMMA WrittenAlways == Spec => [](TypeOK /\ Written)
  BY TypeInit, TypeNext, WrittenInit, WrittenNext, PTL DEF Spec

(* What a person last typed into a row is queued until the server holds it. *)
THEOREM EditsKept == Spec => []EditsSurvive
  <1>1. Written => EditsSurvive
    BY DEF Written, EditsShown, EditsSurvive
  <1> QED BY <1>1, WrittenAlways, PTL

(* A save leaves out as unchanged only what the server once held. *)
THEOREM BaselineHeld == Spec => []BaselineWasStored
  <1>1. Written => BaselineWasStored
    BY DEF Written
  <1> QED BY <1>1, WrittenAlways, PTL

-----------------------------------------------------------------------------
(* What the server does with a save changes nothing the browser gave it. *)

Same(x, y) ==
  /\ x.tab = y.tab /\ x.live = y.live /\ x.alone = y.alone /\ x.sent = y.sent
  /\ x.up = y.up /\ x.rm = y.rm /\ x.touched = y.touched /\ x.kind = y.kind

LEMMA ServerCarries ==
  ASSUME TypeOK, NEW s \in saves, Rebuild(s) \/ Commit(s) \/ Throw(s) \/ ServerError(s)
  PROVE  /\ \A x \in saves' : \E y \in saves : Same(x, y)
         /\ \A y \in saves : y.live => \E x \in saves' : Same(x, y)
         /\ UNCHANGED tabVars
  <1>0. saves \subseteq Saves /\ \A x \in Saves : Same(x, x)
    BY DEF TypeOK, Same
  <1>1. UNCHANGED tabVars
    BY DEF Rebuild, Commit, Throw, ServerError, Server
  <1>2. CASE Rebuild(s)
    <2> DEFINE new == [s EXCEPT !.phase = "rebuilt", !.result = Guarded(stored, Applied(stored, s)),
                                !.fresh = TRUE]
    <2>1. Same(new, s)
      BY <1>0 DEF Saves, Same
    <2>2. saves' = Without(s) \cup {new}
      BY <1>2 DEF Rebuild, Becomes
    <2> HIDE DEF new
    <2> QED BY <1>0, <1>1, <2>1, <2>2 DEF Without
  <1>3. CASE Commit(s)
    <2> DEFINE old(x) == IF stored' = stored THEN x ELSE [x EXCEPT !.fresh = FALSE]
               new == [s EXCEPT !.phase = "saved", !.fresh = TRUE]
    <2>1. Same(new, s)
      BY <1>0 DEF Saves, Same
    <2>2. \A x \in saves : Same(old(x), x)
      BY <1>0 DEF Saves, Same
    <2>3. saves' = {old(x) : x \in Without(s)} \cup (IF s.live THEN {new} ELSE {})
      BY <1>3 DEF Commit
    <2> HIDE DEF new, old
    <2>4. ASSUME NEW x \in saves' PROVE \E y \in saves : Same(x, y)
      BY <2>1, <2>2, <2>3 DEF Without
    <2>5. ASSUME NEW y \in saves, y.live PROVE \E x \in saves' : Same(x, y)
      BY <2>1, <2>2, <2>3, <2>5 DEF Without
    <2> QED BY <1>1, <2>4, <2>5
  <1>4. CASE Throw(s) \/ ServerError(s)
    <2> DEFINE new == [s EXCEPT !.phase = "refused"]
    <2>1. Same(new, s)
      BY <1>0 DEF Saves, Same
    <2>2. saves' = Without(s) \cup (IF s.live THEN {new} ELSE {})
      BY <1>4 DEF Throw, ServerError, Becomes
    <2> HIDE DEF new
    <2>3. ASSUME NEW x \in saves' PROVE \E y \in saves : Same(x, y)
      BY <1>0, <2>1, <2>2 DEF Without
    <2>4. ASSUME NEW y \in saves, y.live PROVE \E x \in saves' : Same(x, y)
      BY <1>0, <2>1, <2>2, <2>4 DEF Without
    <2> QED BY <1>1, <2>3, <2>4
  <1> QED BY <1>2, <1>3, <1>4

-----------------------------------------------------------------------------
(* What is queued is on its way *)

Armed == AloneIsWhole /\ QueueArmed

LEMMA ArmedSend ==
  ASSUME TypeOK, Armed, NEW t \in Tabs, MaySend(t), Send(t), UNCHANGED <<base, pending>>,
         timer' = [timer EXCEPT ![t] = FALSE] \/ UNCHANGED timer
  PROVE  Armed'
  <1> DEFINE new == Save(t, pending[t], base[t], "batch")
  <1>1. saves' = saves \cup {new} /\ pending[t] \in Copies /\ base[t] \in Copies \cup {None, Whole}
    BY TypeSend
  <1>2. new.tab = t /\ new.live /\ ~ new.alone
    BY <1>1, SaveFits
  <1> HIDE DEF new
  <1>3. AloneIsWhole'
    BY <1>1, <1>2 DEF Armed, AloneIsWhole
  <1>4. ASSUME NEW u \in Tabs, pending'[u] # None, base'[u] # Whole
        PROVE  timer'[u] \/ InFlight(u)'
    <2>1. CASE u = t
      BY <1>1, <1>2, <2>1 DEF InFlight
    <2>2. CASE u # t
      BY <1>1, <1>4, <2>2 DEF InFlight, Armed, QueueArmed, TypeOK
    <2> QED BY <2>1, <2>2
  <1> QED BY <1>3, <1>4 DEF Armed, QueueArmed

LEMMA ArmedNext == TypeOK /\ Armed /\ [Next]_vars => Armed'
  <1> SUFFICES ASSUME TypeOK, Armed, [Next]_vars PROVE Armed'
    OBVIOUS
  <1>1. ASSUME NEW t \in Tabs, NEW r \in Rows, NEW v \in Values \cup {edits + 1}, Change(t, r, v)
        PROVE  Armed'
    <2>1. UNCHANGED <<base, saves>>
      BY <1>1 DEF Change
    <2>2. ASSUME NEW u \in Tabs, pending'[u] # None
          PROVE  timer'[u] \/ (pending[u] # None /\ timer'[u] = timer[u])
      <3>1. CASE KnownToServer(t, [screen[t] EXCEPT ![r] = v])
        BY <1>1, <2>2, <3>1 DEF Change, TypeOK
      <3>2. CASE ~ KnownToServer(t, [screen[t] EXCEPT ![r] = v])
        <4>1. /\ pending' = [pending EXCEPT ![t] = [screen[t] EXCEPT ![r] = v]]
              /\ timer' = [timer EXCEPT ![t] = TRUE]
          BY <1>1, <3>2 DEF Change
        <4>0. timer \in [Tabs -> BOOLEAN]
          BY DEF TypeOK
        <4>2. CASE u = t
          <5>1. timer'[t]
            BY <4>0, <4>1
          <5> QED BY <4>2, <5>1
        <4>3. CASE u # t
          BY <2>2, <4>1, <4>3 DEF TypeOK
        <4> QED BY <4>2, <4>3
      <3> QED BY <3>1, <3>2
    <2> QED BY <2>1, <2>2 DEF Armed, AloneIsWhole, QueueArmed, InFlight
  <1>2. ASSUME NEW t \in Tabs, TimerFires(t) \/ BackOnline(t) PROVE Armed'
    <2>1. CASE MaySend(t)
      BY <1>2, <2>1, ArmedSend DEF TimerFires, BackOnline, queue
    <2>2. CASE ~ MaySend(t)
      BY <1>2, <2>2
         DEF TimerFires, BackOnline, MaySend, Armed, AloneIsWhole, QueueArmed, InFlight, TypeOK
    <2> QED BY <2>1, <2>2
  <1>3. ASSUME NEW t \in Tabs, Get(t) \/ ApplyRemote(t) \/ Hydrate(t) PROVE Armed'
    <2>1. UNCHANGED <<pending, timer, saves>>
      BY <1>3 DEF Get, ApplyRemote, Hydrate, queue
    <2>2. \A u \in Tabs : base'[u] = Whole <=> base[u] = Whole
      <3>1. ASSUME NEW g \in Copies, base' = [base EXCEPT ![t] = Remember(t, g)]
            PROVE  \A u \in Tabs : base'[u] = Whole <=> base[u] = Whole
        BY <3>1, SyncAssumption DEF Remember, TypeOK
      <3>2. got[t] # None => got[t] \in Copies
        BY DEF TypeOK
      <3> QED BY <1>3, <3>1, <3>2 DEF Get, ApplyRemote, Hydrate, Show, queue
    <2>3. \A x \in saves : x.tab \in Tabs
      BY DEF TypeOK, Saves
    <2> QED BY <2>1, <2>2, <2>3 DEF Armed, AloneIsWhole, QueueArmed, InFlight
  <1>4. ASSUME NEW t \in Tabs, Reload(t) PROVE Armed'
    <2>1. ASSUME NEW x \in saves', x.live PROVE x \in saves /\ x.tab # t
      <3>1. \A s \in saves : ~ [s EXCEPT !.live = FALSE].live
        BY DEF TypeOK, Saves
      <3>2. pending[t] # None => ~ Save(t, pending[t], base[t], "beacon").live
        BY DEF Save
      <3> QED BY <1>4, <2>1, <3>1, <3>2 DEF Reload
    <2>2. ASSUME NEW u \in Tabs, u # t, InFlight(u) PROVE InFlight(u)'
      BY <1>4, <2>2 DEF Reload, InFlight
    <2>3. /\ base' = [base EXCEPT ![t] = None] /\ pending' = [pending EXCEPT ![t] = None]
          /\ timer' = [timer EXCEPT ![t] = FALSE]
      BY <1>4 DEF Reload, FirstBaseline
    <2>4. AloneIsWhole'
      BY <2>1, <2>3 DEF Armed, AloneIsWhole, TypeOK, Saves
    <2>5. QueueArmed'
      BY <2>2, <2>3 DEF Armed, QueueArmed, TypeOK
    <2> QED BY <2>4, <2>5 DEF Armed
  <1>5. ASSUME NEW s \in saves, Saved(s) \/ Refused(s) \/ Unanswered(s) PROVE Armed'
    <2>0. s.tab \in Tabs /\ s.live /\ (s.alone => base[s.tab] = Whole)
      BY <1>5 DEF Saved, Refused, Unanswered, TypeOK, Saves, Armed, AloneIsWhole
    <2>1. \A x \in saves : x.tab \in Tabs /\ (x.live /\ x.tab = s.tab => x = s)
      BY <2>0 DEF TypeOK, Saves
    <2>2. \A u \in Tabs : u # s.tab => /\ base'[u] = base[u] /\ pending'[u] = pending[u]
                                       /\ timer'[u] = timer[u]
      BY <1>5, <2>0 DEF Saved, Refused, Unanswered, TypeOK
    <2>3. ASSUME NEW u \in Tabs, u # s.tab, InFlight(u) PROVE InFlight(u)'
      BY <1>5, <2>3 DEF Saved, Refused, Unanswered, Becomes, Without, InFlight
    <2>4. base[s.tab] = Whole => base'[s.tab] = Whole
      BY <1>5, <2>0 DEF Saved, Refused, Unanswered, Remember, TypeOK
    <2>5. ASSUME NEW x \in saves', x.live PROVE x \in Without(s) \/ base'[x.tab] = Whole
      <3>1. CASE Refused(s)
        <4>1. Save(s.tab, s.sent, Whole, "alone").tab = s.tab
          BY DEF Save
        <4> QED BY <2>0, <2>5, <3>1, <4>1 DEF Refused, Becomes, TypeOK
      <3>2. CASE Saved(s)
        BY <2>5, <3>2 DEF Saved
      <3>3. CASE Unanswered(s)
        <4>1. ~ [s EXCEPT !.live = FALSE].live
          BY DEF TypeOK, Saves
        <4> QED BY <2>5, <3>3, <4>1 DEF Unanswered
      <3> QED BY <1>5, <3>1, <3>2, <3>3
    <2>6. AloneIsWhole'
      <3> SUFFICES ASSUME NEW x \in saves', x.live, x.alone PROVE base'[x.tab] = Whole
        BY DEF AloneIsWhole
      <3>1. CASE x \in Without(s)
        BY <2>1, <2>2, <2>4, <3>1 DEF Without, Armed, AloneIsWhole
      <3> QED BY <2>5, <3>1
    <2>7. pending'[s.tab] # None /\ base'[s.tab] # Whole => timer'[s.tab]
      <3>1. CASE Saved(s)
        BY <2>0, <2>4, <3>1 DEF Saved, NextTimer, StillQueued, TypeOK
      <3>2. CASE Refused(s)
        BY <2>0, <3>2 DEF Refused, TypeOK
      <3>3. CASE Unanswered(s)
        BY <2>0, <2>4, <3>3 DEF Unanswered, TypeOK
      <3> QED BY <1>5, <3>1, <3>2, <3>3
    <2>8. QueueArmed'
      BY <2>2, <2>3, <2>7 DEF Armed, QueueArmed
    <2> QED BY <2>6, <2>8 DEF Armed
  <1>6. ASSUME NEW s \in saves, Rebuild(s) \/ Commit(s) \/ Throw(s) \/ ServerError(s)
        PROVE  Armed'
    <2>1. /\ \A x \in saves' : \E y \in saves : Same(x, y)
          /\ \A y \in saves : y.live => \E x \in saves' : Same(x, y)
          /\ UNCHANGED <<base, pending, timer>>
      BY <1>6, ServerCarries DEF tabVars, queue
    <2>2. AloneIsWhole'
      BY <2>1 DEF Same, Armed, AloneIsWhole
    <2>3. ASSUME NEW u \in Tabs, InFlight(u) PROVE InFlight(u)'
      BY <2>1, <2>3 DEF Same, InFlight
    <2> QED BY <2>1, <2>2, <2>3 DEF Armed, QueueArmed
  <1>7. CASE UNCHANGED vars
    BY <1>7 DEF vars, tabVars, queue, Armed, AloneIsWhole, QueueArmed, InFlight
  <1> QED BY <1>1, <1>2, <1>3, <1>4, <1>5, <1>6, <1>7, Steps

(* No flush that finds a save in flight leaves an edit behind. *)
THEOREM QueueOnItsWay == Spec => []QueueArmed
  <1>1. Init => Armed
    BY DEF Init, Armed, AloneIsWhole, QueueArmed
  <1>2. Armed => QueueArmed
    BY DEF Armed
  <1> QED BY <1>1, <1>2, ArmedNext, TypeInit, TypeNext, PTL DEF Spec

-----------------------------------------------------------------------------
(* Who changed what *)

LEMMA WaitingKept ==
  ASSUME NEW u \in Tabs,
         \A x \in saves : x.live /\ x.tab = u =>
           \E y \in saves' : y.live /\ y.tab = u /\ y.touched = x.touched
  PROVE  Waiting(u) \subseteq Waiting(u)'
  BY DEF Waiting

(* A save made of what is queued carries only rows changed on this screen.  *)
LEMMA NewSaveExact ==
  ASSUME TypeOK, Followed, NEW t \in Tabs, pending[t] # None, NEW how \in {"batch", "beacon"},
         Save(t, pending[t], base[t], how).kind = "exact"
  PROVE  /\ Save(t, pending[t], base[t], how).up \cup Save(t, pending[t], base[t], how).rm
              \subseteq Save(t, pending[t], base[t], how).touched
         /\ Save(t, pending[t], base[t], how).phase = "sent"
  <1>0. pending[t] \in Copies /\ base[t] \in Copies \cup {None, Whole}
    BY DEF TypeOK
  <1> DEFINE new == Save(t, pending[t], base[t], how)
  <1>1. /\ new.phase = "sent" /\ new.touched = touched[t] \cup Waiting(t)
        /\ new.up = Body(base[t], pending[t]).up /\ new.rm = Body(base[t], pending[t]).rm
        /\ Copy(base[t]) /\ sync[t] = "exact"
    BY <1>0, SaveFits
  <1>2. /\ Body(base[t], pending[t]).up \in SUBSET Rows
        /\ Body(base[t], pending[t]).rm \in SUBSET Rows
        /\ \A r \in Body(base[t], pending[t]).up \cup Body(base[t], pending[t]).rm :
             base[t][r] # pending[t][r]
    BY <1>0, <1>1, BodyFits
  <1>3. pending[t] = screen[t]
    BY <1>1 DEF Followed, QueueIsScreen
  <1>4. \A r \in Rows : screen[t][r] # base[t][r] => r \in touched[t] \cup Waiting(t)
    BY <1>1 DEF Followed, ScreenFollowed
  <1> HIDE DEF new
  <1>5. new.up \cup new.rm \subseteq new.touched
    BY <1>1, <1>2, <1>3, <1>4
  <1> QED BY <1>1, <1>5 DEF new

LEMMA FollowedSend ==
  ASSUME TypeOK, Followed, NEW t \in Tabs, MaySend(t), Send(t),
         UNCHANGED <<stored, screen, base, pending, sync>>
  PROVE  QueueIsScreen' /\ FlightIsQueued' /\ FlightFollowed' /\ ScreenFollowed' /\ ExactSaves'
  <1> DEFINE new == Save(t, pending[t], base[t], "batch")
  <1>1. /\ saves' = saves \cup {new} /\ touched' = [touched EXCEPT ![t] = {}]
        /\ pending[t] \in Copies /\ base[t] \in Copies \cup {None, Whole}
        /\ pending[t] # None /\ ~ InFlight(t) /\ touched \in [Tabs -> SUBSET Rows]
    BY TypeSend DEF Send, MaySend, TypeOK
  <1>2. /\ new.tab = t /\ new.live /\ new.sent = pending[t] /\ new.phase = "sent"
        /\ new.touched = touched[t] \cup Waiting(t)
    BY <1>1, SaveFits
  <1>3. new.kind = "exact" => new.up \cup new.rm \subseteq new.touched
    BY <1>1, NewSaveExact
  <1> HIDE DEF new
  <1>4. QueueIsScreen' /\ FlightIsQueued'
    BY <1>1, <1>2 DEF Followed, QueueIsScreen, FlightIsQueued
  <1>5. FlightFollowed'
    <2> SUFFICES ASSUME NEW x \in saves', x.live, sync'[x.tab] # "overtaken",
                        NEW r \in Rows, screen'[x.tab][r] # x.sent[r]
                 PROVE  r \in touched'[x.tab]
      BY DEF FlightFollowed
    <2>1. CASE x = new
      BY <1>1, <1>2, <2>1 DEF Followed, QueueIsScreen
    <2>2. CASE x \in saves
      <3>1. x.tab # t /\ x.tab \in Tabs
        BY <1>1, <2>2 DEF InFlight, TypeOK, Saves
      <3> QED BY <1>1, <2>2, <3>1 DEF Followed, FlightFollowed
    <2> QED BY <1>1, <2>1, <2>2
  <1>6. ScreenFollowed'
    <2> SUFFICES ASSUME NEW u \in Tabs, sync'[u] = "exact", Copy(base'[u]),
                        NEW r \in Rows, screen'[u][r] # base'[u][r]
                 PROVE  r \in touched'[u] \cup Waiting(u)'
      BY DEF ScreenFollowed
    <2>1. r \in touched[u] \cup Waiting(u)
      BY DEF Followed, ScreenFollowed
    <2>2. CASE u = t
      <3>1. new.touched \subseteq Waiting(u)'
        BY <1>1, <1>2, <2>2 DEF Waiting
      <3> QED BY <1>2, <2>1, <2>2, <3>1
    <2>3. CASE u # t
      <3>1. Waiting(u) \subseteq Waiting(u)'
        BY <1>1 DEF Waiting
      <3> QED BY <1>1, <2>1, <2>3, <3>1
    <2> QED BY <2>2, <2>3
  <1>7. ExactSaves'
    <2> SUFFICES ASSUME NEW x \in saves'
                 PROVE  /\ x.kind = "exact" => x.up \cup x.rm \subseteq x.touched
                        /\ x.phase = "rebuilt" /\ x.fresh =>
                             x.result = Guarded(stored, Applied(stored, x))
      BY DEF ExactSaves, Guarded, Applied, Bulk, Union, Present
    <2>1. CASE x = new
      <3>1. x.phase # "rebuilt"
        BY <1>2, <2>1
      <3> QED BY <1>3, <2>1, <3>1
    <2>2. CASE x \in saves
      BY <2>2 DEF Followed, ExactSaves
    <2> QED BY <1>1, <2>1, <2>2
  <1> QED BY <1>4, <1>5, <1>6, <1>7

LEMMA FollowedChange ==
  ASSUME TypeOK, Followed, NEW t \in Tabs, NEW r \in Rows, NEW v \in Values \cup {edits + 1},
         Change(t, r, v)
  PROVE  QueueIsScreen' /\ FlightIsQueued' /\ FlightFollowed' /\ ScreenFollowed' /\ ExactSaves'
  <1> DEFINE c == [screen[t] EXCEPT ![r] = v]
  <1>0. /\ screen \in [Tabs -> Copies] /\ pending \in [Tabs -> Copies \cup {None}]
        /\ touched \in [Tabs -> SUBSET Rows] /\ c \in Copies /\ c # None
        /\ \A x \in saves : x.tab \in Tabs
    <2>1. v \in Values
      BY SyncAssumption DEF TypeOK, Change, Values
    <2>2. c \in Copies
      BY <2>1 DEF TypeOK, Copies
    <2> QED BY <2>2, SyncAssumption DEF TypeOK, Saves
  <1>1. /\ UNCHANGED <<stored, base, sync, saves>> /\ screen' = [screen EXCEPT ![t] = c]
    BY DEF Change
  <1>2. ExactSaves'
    BY <1>1 DEF Followed, ExactSaves, Guarded, Applied, Bulk, Union, Present
  <1>3. \A u \in Tabs : Waiting(u)' = Waiting(u)
    BY <1>1 DEF Waiting
  <1>4. \A u \in Tabs : u # t => /\ screen'[u] = screen[u] /\ pending'[u] = pending[u]
                                 /\ touched'[u] = touched[u]
    BY <1>0 DEF Change
  <1>5. CASE KnownToServer(t, c)
    <2>1. screen'[t] = base[t] /\ pending'[t] = None /\ ~ InFlight(t)
      BY <1>0, <1>1, <1>5 DEF Change, KnownToServer
    <2>2. \A x \in saves : x.live => x.tab # t
      BY <2>1 DEF InFlight
    <2>3. QueueIsScreen' /\ FlightIsQueued' /\ FlightFollowed'
      BY <1>0, <1>1, <1>4, <2>1, <2>2
         DEF Followed, QueueIsScreen, FlightIsQueued, FlightFollowed
    <2>4. ScreenFollowed'
      BY <1>1, <1>3, <1>4, <2>1 DEF Followed, ScreenFollowed
    <2> QED BY <1>2, <2>3, <2>4
  <1>6. CASE ~ KnownToServer(t, c)
    <2>1. screen'[t] = c /\ pending'[t] = c /\ touched'[t] = touched[t] \cup {r}
      <3>1. pending' = [pending EXCEPT ![t] = c]
        BY <1>6 DEF Change
      <3>2. touched' = [touched EXCEPT ![t] = touched[t] \cup {r}]
        BY <1>6 DEF Change
      <3> HIDE DEF c
      <3> QED BY <1>0, <1>1, <3>1, <3>2
    <2>2. \A q \in Rows : q # r => c[q] = screen[t][q]
      BY <1>0 DEF Copies
    <2> HIDE DEF c
    <2>3. QueueIsScreen' /\ FlightIsQueued'
      BY <1>0, <1>1, <1>4, <2>1 DEF Followed, QueueIsScreen, FlightIsQueued
    <2>4. FlightFollowed'
      <3> SUFFICES ASSUME NEW x \in saves', x.live, sync'[x.tab] # "overtaken",
                          NEW q \in Rows, screen'[x.tab][q] # x.sent[q]
                   PROVE  q \in touched'[x.tab]
        BY DEF FlightFollowed
      <3>1. x \in saves /\ x.tab \in Tabs
        BY <1>0, <1>1
      <3>2. screen[x.tab][q] # x.sent[q] => q \in touched[x.tab]
        BY <1>1, <3>1 DEF Followed, FlightFollowed
      <3> QED BY <1>4, <2>1, <2>2, <3>1, <3>2
    <2>5. ScreenFollowed'
      <3> SUFFICES ASSUME NEW u \in Tabs, sync'[u] = "exact", Copy(base'[u]),
                          NEW q \in Rows, screen'[u][q] # base'[u][q]
                   PROVE  q \in touched'[u] \cup Waiting(u)'
        BY DEF ScreenFollowed
      <3>1. screen[u][q] # base[u][q] => q \in touched[u] \cup Waiting(u)
        BY <1>1 DEF Followed, ScreenFollowed
      <3>2. screen'[u][q] = screen[u][q] \/ (u = t /\ q = r)
        BY <1>4, <2>1, <2>2
      <3> QED BY <1>1, <1>3, <1>4, <2>1, <3>1, <3>2
    <2> QED BY <1>2, <2>3, <2>4, <2>5
  <1> QED BY <1>5, <1>6

LEMMA FollowedShown ==
  ASSUME TypeOK, Followed, NEW t \in Tabs, Get(t) \/ ApplyRemote(t) \/ Hydrate(t)
  PROVE  QueueIsScreen' /\ FlightIsQueued' /\ FlightFollowed' /\ ScreenFollowed' /\ ExactSaves'
  <1>0. /\ screen \in [Tabs -> Copies] /\ base \in [Tabs -> Copies \cup {None, Whole}]
        /\ touched \in [Tabs -> SUBSET Rows]
        /\ sync \in [Tabs -> {"exact", "moved", "overtaken"}]
        /\ got[t] \in Copies \cup {None} /\ \A x \in saves : x.tab \in Tabs
    BY DEF TypeOK, Saves
  <1>1. UNCHANGED <<stored, pending, saves>>
    BY DEF Get, ApplyRemote, Hydrate, queue
  <1>2. ExactSaves' /\ FlightIsQueued'
    BY <1>1 DEF Followed, ExactSaves, FlightIsQueued, Guarded, Applied, Bulk, Union, Present
  <1>3. \A u \in Tabs : Waiting(u)' = Waiting(u)
    BY <1>1 DEF Waiting
  <1>4. CASE UNCHANGED <<screen, base, touched, sync>>
    BY <1>1, <1>2, <1>3, <1>4 DEF Followed, QueueIsScreen, FlightFollowed, ScreenFollowed
  <1>5. CASE got[t] # None /\ Show(t, got[t])
    <2> DEFINE g == got[t]
    <2>1. /\ screen' = [screen EXCEPT ![t] = g]
          /\ base' = [base EXCEPT ![t] = Remember(t, g)]
          /\ g \in Copies
      BY <1>0, <1>5 DEF Show
    <2>2. \A u \in Tabs : u # t => /\ screen'[u] = screen[u] /\ base'[u] = base[u]
                                   /\ touched'[u] = touched[u] /\ sync'[u] = sync[u]
      BY <1>0, <1>5 DEF Show
    <2>3. screen'[t] = g /\ base'[t] = Remember(t, g)
      BY <1>0, <2>1
    <2>4. sync'[t] # "overtaken" =>
            /\ pending[t] # None => pending[t] = g /\ touched'[t] = touched[t]
            /\ InFlight(t) => sync[t] # "overtaken"
      BY <1>0, <1>5 DEF Show
    <2> HIDE DEF g
    <2>5. QueueIsScreen'
      BY <1>1, <2>2, <2>3, <2>4 DEF Followed, QueueIsScreen
    <2>6. FlightFollowed'
      <3> SUFFICES ASSUME NEW x \in saves', x.live, sync'[x.tab] # "overtaken",
                          NEW r \in Rows, screen'[x.tab][r] # x.sent[r]
                   PROVE  r \in touched'[x.tab]
        BY DEF FlightFollowed
      <3>1. x \in saves /\ x.tab \in Tabs
        BY <1>0, <1>1
      <3>2. CASE x.tab = t
        <4>1. InFlight(t) /\ pending[t] # None
          BY <3>1, <3>2 DEF InFlight, Followed, FlightIsQueued
        <4>2. g = screen[t] /\ sync[t] # "overtaken" /\ touched'[t] = touched[t]
          BY <2>4, <3>2, <4>1 DEF Followed, QueueIsScreen
        <4> QED BY <2>3, <3>1, <3>2, <4>2 DEF Followed, FlightFollowed
      <3>3. CASE x.tab # t
        BY <2>2, <3>1, <3>3 DEF Followed, FlightFollowed
      <3> QED BY <3>2, <3>3
    <2>7. ScreenFollowed'
      <3> SUFFICES ASSUME NEW u \in Tabs, sync'[u] = "exact", Copy(base'[u]),
                          NEW r \in Rows, screen'[u][r] # base'[u][r]
                   PROVE  r \in touched'[u] \cup Waiting(u)'
        BY DEF ScreenFollowed
      <3>1. u # t
        BY <2>3 DEF Remember, Copy
      <3> QED BY <1>3, <2>2, <3>1 DEF Followed, ScreenFollowed
    <2> QED BY <1>2, <2>5, <2>6, <2>7
  <1>6. CASE /\ got[t] # None /\ UNCHANGED <<screen, touched>>
             /\ base' = [base EXCEPT ![t] = Remember(t, got[t])]
             /\ sync' = [sync EXCEPT ![t] = IF got[t] = base[t] \/ sync[t] = "overtaken"
                                            THEN sync[t] ELSE "moved"]
    <2>1. \A u \in Tabs : sync'[u] # "overtaken" <=> sync[u] # "overtaken"
      BY <1>0, <1>6
    <2>2. QueueIsScreen' /\ FlightFollowed'
      BY <1>0, <1>1, <1>6, <2>1 DEF Followed, QueueIsScreen, FlightFollowed
    <2>3. \A u \in Tabs : sync'[u] = "exact" => sync[u] = "exact"
                                                /\ (Copy(base'[u]) => base'[u] = base[u])
      <3> SUFFICES ASSUME NEW u \in Tabs, sync'[u] = "exact"
                   PROVE  sync[u] = "exact" /\ (Copy(base'[u]) => base'[u] = base[u])
        OBVIOUS
      <3>1. CASE u = t
        <4>1. sync[t] = "exact" /\ got[t] = base[t]
          BY <1>0, <1>6, <3>1
        <4>2. base'[t] = Whole \/ base'[t] = got[t]
          BY <1>0, <1>6 DEF Remember
        <4> QED BY <3>1, <4>1, <4>2 DEF Copy
      <3>2. CASE u # t
        BY <1>0, <1>6, <3>2
      <3> QED BY <3>1, <3>2
    <2>4. ScreenFollowed'
      BY <1>3, <1>6, <2>3 DEF Followed, ScreenFollowed
    <2> QED BY <1>2, <2>2, <2>4
  <1>7. CASE Get(t)
    BY <1>4, <1>7 DEF Get, queue
  <1>8. CASE ApplyRemote(t)
    BY <1>4, <1>5, <1>8 DEF ApplyRemote
  <1>9. CASE Hydrate(t)
    <2>1. CASE dirty[t] /\ screen[t] # got[t]
      BY <1>6, <1>9, <2>1 DEF Hydrate
    <2>2. CASE ~ (dirty[t] /\ screen[t] # got[t])
      BY <1>4, <1>5, <1>9, <2>2 DEF Hydrate
    <2> QED BY <2>1, <2>2
  <1> QED BY <1>7, <1>8, <1>9

LEMMA FollowedReload ==
  ASSUME TypeOK, Followed, NEW t \in Tabs, Reload(t)
  PROVE  QueueIsScreen' /\ FlightIsQueued' /\ FlightFollowed' /\ ScreenFollowed' /\ ExactSaves'
  <1>0. /\ base \in [Tabs -> Copies \cup {None, Whole}] /\ touched \in [Tabs -> SUBSET Rows]
        /\ sync \in [Tabs -> {"exact", "moved", "overtaken"}]
        /\ pending \in [Tabs -> Copies \cup {None}]
        /\ saves \subseteq Saves /\ \A x \in saves : x.tab \in Tabs
    BY DEF TypeOK, Saves
  <1>1. /\ UNCHANGED <<stored, screen>>
        /\ base' = [base EXCEPT ![t] = None] /\ pending' = [pending EXCEPT ![t] = None]
        /\ touched' = [touched EXCEPT ![t] = {}] /\ sync' = [sync EXCEPT ![t] = "exact"]
    BY DEF Reload, FirstBaseline
  <1>2. ASSUME NEW x \in saves' PROVE x.live => x \in saves /\ x.tab # t
    <2>1. \A s \in saves : ~ [s EXCEPT !.live = FALSE].live
      BY <1>0 DEF Saves
    <2>2. ~ Save(t, pending[t], base[t], "beacon").live
      BY DEF Save
    <2> QED BY <1>2, <2>1, <2>2 DEF Reload
  <1>3. \A u \in Tabs : u # t => Waiting(u) \subseteq Waiting(u)'
    <2> TAKE u \in Tabs
    <2> HAVE u # t
    <2>1. \A x \in saves : x.live /\ x.tab = u => x \in saves'
      BY DEF Reload
    <2> QED BY <2>1, WaitingKept
  <1>4. QueueIsScreen' /\ FlightIsQueued' /\ FlightFollowed'
    BY <1>0, <1>1, <1>2 DEF Followed, QueueIsScreen, FlightIsQueued, FlightFollowed
  <1>5. ScreenFollowed'
    BY <1>0, <1>1, <1>3 DEF Followed, ScreenFollowed, Copy
  <1>6. ExactSaves'
    <2> SUFFICES ASSUME NEW x \in saves'
                 PROVE  /\ x.kind = "exact" => x.up \cup x.rm \subseteq x.touched
                        /\ x.phase = "rebuilt" /\ x.fresh =>
                             x.result = Guarded(stored, Applied(stored, x))
      BY <1>1 DEF ExactSaves, Guarded, Applied, Bulk, Union, Present
    <2>1. CASE x \in saves
      BY <2>1 DEF Followed, ExactSaves
    <2>2. CASE \E s \in saves : x = [s EXCEPT !.live = FALSE]
      <3>1. PICK s \in saves : x = [s EXCEPT !.live = FALSE]
        BY <2>2
      <3>2. /\ x.phase = s.phase /\ x.sent = s.sent /\ x.up = s.up /\ x.rm = s.rm
            /\ x.result = s.result /\ x.fresh = s.fresh /\ x.kind = s.kind
            /\ x.touched = s.touched
        BY <1>0, <3>1 DEF Saves
      <3>3. Applied(stored, x) = Applied(stored, s)
        BY <3>2 DEF Applied
      <3> QED BY <3>2, <3>3 DEF Followed, ExactSaves
    <2>3. CASE pending[t] # None /\ x = Save(t, pending[t], base[t], "beacon")
      <3>1. x.kind = "exact" => x.up \cup x.rm \subseteq x.touched
        BY <2>3, NewSaveExact
      <3>2. x.phase = "sent"
        BY <2>3 DEF Save
      <3>3. x.phase # "rebuilt"
        BY <3>2
      <3> QED BY <3>1, <3>3
    <2> QED BY <2>1, <2>2, <2>3 DEF Reload
  <1> QED BY <1>4, <1>5, <1>6

LEMMA FollowedAnswer ==
  ASSUME TypeOK, Followed, NEW s \in saves, Saved(s) \/ Refused(s) \/ Unanswered(s)
  PROVE  QueueIsScreen' /\ FlightIsQueued' /\ FlightFollowed' /\ ScreenFollowed' /\ ExactSaves'
  <1> DEFINE t == s.tab
             again == Save(t, s.sent, Whole, "alone")
             orphan == [s EXCEPT !.live = FALSE]
  <1>0. /\ base \in [Tabs -> Copies \cup {None, Whole}] /\ touched \in [Tabs -> SUBSET Rows]
        /\ sync \in [Tabs -> {"exact", "moved", "overtaken"}]
        /\ pending \in [Tabs -> Copies \cup {None}]
        /\ saves \subseteq Saves /\ s \in Saves /\ s.live /\ t \in Tabs
        /\ s.sent \in Copies /\ s.touched \subseteq Rows
    BY DEF TypeOK, Saves, Saved, Refused, Unanswered
  <1>1. \A x \in saves : x.tab \in Tabs /\ (x.live /\ x.tab = t => x = s)
    BY <1>0 DEF TypeOK, Saves
  <1>2. UNCHANGED <<stored, screen>>
    BY DEF Saved, Refused, Unanswered
  <1>3. /\ again.tab = t /\ again.sent = s.sent /\ again.phase = "sent" /\ again.kind = "blind"
        /\ again.live
    BY DEF Save
  <1>4. /\ ~ orphan.live /\ orphan.phase = s.phase /\ orphan.sent = s.sent /\ orphan.up = s.up
        /\ orphan.rm = s.rm /\ orphan.result = s.result /\ orphan.fresh = s.fresh
        /\ orphan.kind = s.kind /\ orphan.touched = s.touched
    BY <1>0 DEF Saves
  <1>5. ASSUME NEW x \in saves' PROVE x \in Without(s) \/ x = orphan \/ (Refused(s) /\ x = again)
    BY DEF Saved, Refused, Unanswered, Becomes
  <1> HIDE DEF t, again, orphan
  <1>6. \A x \in Without(s) : x \in saves /\ (x.live => x.tab # t)
    BY <1>1 DEF Without
  <1>7. ExactSaves'
    <2> SUFFICES ASSUME NEW x \in saves'
                 PROVE  /\ x.kind = "exact" => x.up \cup x.rm \subseteq x.touched
                        /\ x.phase = "rebuilt" /\ x.fresh =>
                             x.result = Guarded(stored, Applied(stored, x))
      BY <1>2 DEF ExactSaves, Guarded, Applied, Bulk, Union, Present
    <2>1. CASE x \in saves
      BY <2>1 DEF Followed, ExactSaves
    <2>2. CASE x = orphan
      <3>1. Applied(stored, x) = Applied(stored, s)
        BY <1>4, <2>2 DEF Applied
      <3> QED BY <1>4, <2>2, <3>1 DEF Followed, ExactSaves
    <2>3. CASE x = again
      <3>1. x.phase # "rebuilt" /\ x.kind # "exact"
        BY <1>3, <2>3
      <3> QED BY <3>1
    <2> QED BY <1>5, <1>6, <2>1, <2>2, <2>3
  <1>8. \A u \in Tabs : u # t => Waiting(u) \subseteq Waiting(u)'
    <2> TAKE u \in Tabs
    <2> HAVE u # t
    <2>1. \A x \in saves : x.live /\ x.tab = u => x \in saves'
      BY DEF Saved, Refused, Unanswered, Becomes, Without, t
    <2> QED BY <2>1, WaitingKept
  <1>9. Waiting(t) \subseteq s.touched
    BY <1>1 DEF Waiting
  <1>10. \A u \in Tabs : u # t => /\ base'[u] = base[u] /\ pending'[u] = pending[u]
                                  /\ touched'[u] = touched[u] /\ sync'[u] = sync[u]
    BY <1>0 DEF Saved, Refused, Unanswered, t
  <1>11. CASE Saved(s)
    <2>1. /\ pending'[t] = None \/ pending'[t] = pending[t]
          /\ touched' = touched
          /\ base'[t] = Remember(t, s.sent)
          /\ sync'[t] = "exact" => sync[t] # "overtaken"
          /\ sync'[t] # "overtaken" => sync[t] # "overtaken"
      BY <1>0, <1>11 DEF Saved, StillQueued, t
    <2>2. \A x \in saves' : x.live => x \in saves /\ x.tab # t
      BY <1>6, <1>11 DEF Saved
    <2>3. QueueIsScreen'
      BY <1>2, <1>10, <2>1 DEF Followed, QueueIsScreen
    <2>4. FlightIsQueued' /\ FlightFollowed'
      BY <1>1, <1>2, <1>10, <2>2 DEF Followed, FlightIsQueued, FlightFollowed
    <2>5. \A r \in Rows : sync[t] # "overtaken" /\ screen[t][r] # s.sent[r] => r \in touched[t]
      BY <1>0 DEF Followed, FlightFollowed, t
    <2>6. Copy(base'[t]) => base'[t] = s.sent
      BY <2>1 DEF Remember, Copy
    <2>7. ScreenFollowed'
      BY <1>2, <1>8, <1>10, <2>1, <2>5, <2>6 DEF Followed, ScreenFollowed
    <2> QED BY <1>7, <2>3, <2>4, <2>7
  <1>12. CASE Refused(s) \/ Unanswered(s)
    <2>1. /\ UNCHANGED <<pending, sync>>
          /\ touched[t] \subseteq touched'[t]
          /\ Copy(base'[t]) => base'[t] = base[t] /\ touched'[t] = touched[t] \cup s.touched
      BY <1>0, <1>12 DEF Refused, Unanswered, Copy, t
    <2>2. ASSUME NEW x \in saves', x.live
          PROVE  (x \in saves /\ x.tab # t) \/ (x.tab = t /\ x.sent = s.sent)
      BY <1>3, <1>4, <1>5, <1>6, <2>2
    <2>3. QueueIsScreen'
      BY <1>2, <2>1 DEF Followed, QueueIsScreen
    <2>4. pending[t] # None
      BY <1>0 DEF Followed, FlightIsQueued, t
    <2>5. FlightIsQueued'
      BY <2>1, <2>2, <2>4 DEF Followed, FlightIsQueued
    <2>6. \A r \in Rows : sync[t] # "overtaken" /\ screen[t][r] # s.sent[r] => r \in touched[t]
      BY <1>0 DEF Followed, FlightFollowed, t
    <2>7. FlightFollowed'
      <3> SUFFICES ASSUME NEW x \in saves', x.live, sync'[x.tab] # "overtaken",
                          NEW r \in Rows, screen'[x.tab][r] # x.sent[r]
                   PROVE  r \in touched'[x.tab]
        BY DEF FlightFollowed
      <3>1. CASE x \in saves /\ x.tab # t
        BY <1>1, <1>2, <1>10, <2>1, <3>1 DEF Followed, FlightFollowed
      <3>2. CASE x.tab = t /\ x.sent = s.sent
        BY <1>2, <2>1, <2>6, <3>2
      <3> QED BY <2>2, <3>1, <3>2
    <2>8. ScreenFollowed'
      <3> SUFFICES ASSUME NEW u \in Tabs, sync'[u] = "exact", Copy(base'[u]),
                          NEW r \in Rows, screen'[u][r] # base'[u][r]
                   PROVE  r \in touched'[u] \cup Waiting(u)'
        BY DEF ScreenFollowed
      <3>1. CASE u = t
        BY <1>2, <1>9, <2>1, <3>1 DEF Followed, ScreenFollowed
      <3>2. CASE u # t
        BY <1>2, <1>8, <1>10, <3>2 DEF Followed, ScreenFollowed
      <3> QED BY <3>1, <3>2
    <2> QED BY <1>7, <2>3, <2>5, <2>7, <2>8
  <1> QED BY <1>11, <1>12

LEMMA FollowedServer ==
  ASSUME TypeOK, Followed, NEW s \in saves,
         Rebuild(s) \/ Commit(s) \/ Throw(s) \/ ServerError(s)
  PROVE  QueueIsScreen' /\ FlightIsQueued' /\ FlightFollowed' /\ ScreenFollowed' /\ ExactSaves'
  <1>0. s \in Saves /\ saves \subseteq Saves
    BY DEF TypeOK
  <1>1. /\ \A x \in saves' : \E y \in saves : Same(x, y)
        /\ \A y \in saves : y.live => \E x \in saves' : Same(x, y)
        /\ UNCHANGED <<screen, base, pending, touched, sync>>
    BY ServerCarries DEF tabVars, queue
  <1>2. QueueIsScreen' /\ FlightIsQueued' /\ FlightFollowed'
    BY <1>1 DEF Same, Followed, QueueIsScreen, FlightIsQueued, FlightFollowed
  <1>3. \A u \in Tabs : Waiting(u) \subseteq Waiting(u)'
    <2> TAKE u \in Tabs
    <2>1. ASSUME NEW x \in saves, x.live, x.tab = u
          PROVE  \E y \in saves' : y.live /\ y.tab = u /\ y.touched = x.touched
      BY <1>1, <2>1 DEF Same
    <2> QED BY <2>1, WaitingKept
  <1>4. ScreenFollowed'
    BY <1>1, <1>3 DEF Followed, ScreenFollowed
  <1>5. ASSUME NEW x \in saves', x.kind = "exact" PROVE x.up \cup x.rm \subseteq x.touched
    BY <1>1, <1>5 DEF Same, Followed, ExactSaves
  <1>6. ASSUME NEW x \in saves', x.phase = "rebuilt", x.fresh
        PROVE  x.result = Guarded(stored, Applied(stored, x)) /\ stored' = stored
    <2>1. CASE Rebuild(s)
      <3>1. stored' = stored
        BY <2>1 DEF Rebuild
      <3>2. CASE x \in saves
        BY <1>6, <3>1, <3>2 DEF Followed, ExactSaves
      <3>3. CASE x = [s EXCEPT !.phase = "rebuilt", !.result = Guarded(stored, Applied(stored, s)),
                               !.fresh = TRUE]
        <4>1. /\ x.result = Guarded(stored, Applied(stored, s)) /\ x.sent = s.sent
              /\ x.up = s.up /\ x.rm = s.rm
          BY <1>0, <3>3 DEF Saves
        <4>2. Applied(stored, x) = Applied(stored, s)
          BY <4>1 DEF Applied
        <4> QED BY <3>1, <4>1, <4>2
      <3> QED BY <2>1, <3>2, <3>3 DEF Rebuild, Becomes, Without
    <2>2. CASE Commit(s)
      <3>1. CASE x = [s EXCEPT !.phase = "saved", !.fresh = TRUE]
        <4>1. x.phase = "saved"
          BY <1>0, <3>1 DEF Saves
        <4> QED BY <1>6, <4>1
      <3>2. CASE x \in saves /\ stored' = stored
        BY <1>6, <3>2 DEF Followed, ExactSaves
      <3>3. CASE \E y \in saves : x = [y EXCEPT !.fresh = FALSE]
        <4>1. ~ x.fresh
          BY <1>0, <3>3 DEF Saves
        <4> QED BY <1>6, <4>1
      <3> QED BY <2>2, <3>1, <3>2, <3>3 DEF Commit, Without
    <2>3. CASE Throw(s) \/ ServerError(s)
      <3>1. stored' = stored
        BY <2>3 DEF Throw, ServerError
      <3>2. CASE x = [s EXCEPT !.phase = "refused"]
        <4>1. x.phase = "refused"
          BY <1>0, <3>2 DEF Saves
        <4> QED BY <1>6, <4>1
      <3>3. CASE x \in saves
        BY <1>6, <3>1, <3>3 DEF Followed, ExactSaves
      <3> QED BY <2>3, <3>2, <3>3 DEF Throw, ServerError, Becomes, Without
    <2> QED BY <2>1, <2>2, <2>3
  <1>7. ASSUME NEW x \in saves', x.phase = "rebuilt", x.fresh
        PROVE  x.result = Guarded(stored', Applied(stored', x))
    <2>1. x.result = Guarded(stored, Applied(stored, x)) /\ stored' = stored
      BY <1>6, <1>7
    <2> QED BY <2>1
  <1>8. ExactSaves'
    BY <1>5, <1>7 DEF ExactSaves
  <1> QED BY <1>2, <1>4, <1>8

Follows == QueueIsScreen /\ FlightIsQueued /\ FlightFollowed /\ ScreenFollowed /\ ExactSaves

LEMMA FollowsNext == TypeOK /\ Follows /\ Armed /\ [Next]_vars => Follows'
  <1> SUFFICES ASSUME TypeOK, Follows, Armed, [Next]_vars PROVE Follows'
    OBVIOUS
  <1>0. Followed
    BY DEF Follows, Armed, Followed
  <1>1. ASSUME NEW t \in Tabs, TimerFires(t) \/ BackOnline(t) PROVE Follows'
    <2>1. UNCHANGED <<stored, screen, base, pending, sync>>
      BY <1>1 DEF TimerFires, BackOnline, queue
    <2>2. CASE MaySend(t)
      BY <1>0, <1>1, <2>1, <2>2, FollowedSend DEF TimerFires, BackOnline, Follows
    <2>3. CASE ~ MaySend(t)
      <3>1. UNCHANGED <<saves, touched>>
        BY <1>1, <2>3 DEF TimerFires, BackOnline
      <3> QED BY <2>1, <3>1 DEF Follows, QueueIsScreen, FlightIsQueued, FlightFollowed,
                ScreenFollowed, Waiting, ExactSaves, Guarded, Applied, Bulk, Union, Present
    <2> QED BY <2>2, <2>3
  <1>2. CASE UNCHANGED vars
    BY <1>2 DEF vars, tabVars, queue, Follows, QueueIsScreen, FlightIsQueued, FlightFollowed,
                ScreenFollowed, Waiting, ExactSaves, Guarded, Applied, Bulk, Union, Present
  <1>3. CASE Next
    BY <1>0, <1>1, <1>3, Steps, FollowedChange, FollowedShown, FollowedReload, FollowedAnswer,
       FollowedServer DEF Follows
  <1> QED BY <1>2, <1>3

(* The inductive invariant of the module. *)
LEMMA IInvAlways == Spec => []IInv
  <1>1. Init => Armed /\ Follows
    BY DEF Init, Copy, Armed, AloneIsWhole, QueueArmed, Follows, QueueIsScreen, FlightIsQueued,
           FlightFollowed, ScreenFollowed, ExactSaves
  <1>2. TypeOK /\ Written /\ Armed /\ Follows => IInv
    BY DEF IInv, Armed, Follows, Followed
  <1> QED BY <1>1, <1>2, TypeInit, TypeNext, WrittenInit, WrittenNext, ArmedNext, FollowsNext, PTL
          DEF Spec

(* A save the server handles alone changes no row its sender had not changed,*)
(* whatever the other browsers did: two people keep each other's work.     *)
THEOREM OthersKept == Spec => OthersWorkKept
  <1>1. ASSUME IInv, [Next]_vars
        PROVE  [\A s \in saves : Commit(s) /\ s.fresh /\ s.kind = "exact" =>
                  \A r \in Rows : stored'[r] # stored[r] => r \in s.touched]_vars
    <2> SUFFICES ASSUME NEW s \in saves, Commit(s), s.fresh, s.kind = "exact",
                        NEW r \in Rows, stored'[r] # stored[r]
                 PROVE  r \in s.touched
      OBVIOUS
    <2>1. stored' = Guarded(stored, Applied(stored, s)) /\ s.up \cup s.rm \subseteq s.touched
      <3>1. ExactSaves
        BY <1>1 DEF IInv, Followed
      <3>2. s.phase = "rebuilt" /\ stored' = s.result
        BY DEF Commit
      <3> QED BY <3>1, <3>2 DEF ExactSaves
    <2>2. Applied(stored, s)[r] # stored[r] => r \in s.up \cup s.rm
      BY DEF Applied
    <2>3. Union(stored, Applied(stored, s))[r] # stored[r] => Applied(stored, s)[r] # stored[r]
      BY DEF Union
    <2> QED BY <2>1, <2>2, <2>3 DEF Guarded
  <1> QED BY <1>1, IInvAlways, PTL DEF Spec, OthersWorkKept

-----------------------------------------------------------------------------
(* Nothing is left unsent *)

LEMMA NothingUnsentNext ==
  IInv /\ NothingUnsent /\ [Next]_vars => NothingUnsent'
  <1> SUFFICES ASSUME IInv, NothingUnsent, [Next]_vars PROVE NothingUnsent'
    OBVIOUS
  <1>0. /\ TypeOK /\ QueueIsScreen /\ FlightIsQueued
        /\ screen \in [Tabs -> Copies] /\ base \in [Tabs -> Copies \cup {None, Whole}]
        /\ pending \in [Tabs -> Copies \cup {None}] /\ dirty \in [Tabs -> BOOLEAN]
        /\ sync \in [Tabs -> {"exact", "moved", "overtaken"}]
    BY DEF IInv, Followed, TypeOK
  <1>1. ASSUME NEW t \in Tabs, NEW r \in Rows, NEW v \in Values \cup {edits + 1}, Change(t, r, v)
        PROVE  NothingUnsent'
    <2> DEFINE c == [screen[t] EXCEPT ![r] = v]
    <2>1. UNCHANGED <<base, sync>> /\ screen' = [screen EXCEPT ![t] = c]
      BY <1>1 DEF Change
    <2>2. CASE KnownToServer(t, c)
      BY <1>0, <1>1, <2>1, <2>2 DEF Change, KnownToServer, NothingUnsent
    <2>3. CASE ~ KnownToServer(t, c)
      <3>1. pending' = [pending EXCEPT ![t] = c] /\ dirty' = [dirty EXCEPT ![t] = TRUE]
        BY <1>1, <2>3 DEF Change
      <3> HIDE DEF c
      <3> QED BY <1>0, <2>1, <3>1 DEF NothingUnsent
    <2> QED BY <2>2, <2>3
  <1>2. ASSUME NEW t \in Tabs, TimerFires(t) \/ BackOnline(t) \/ Get(t) PROVE NothingUnsent'
    BY <1>2 DEF TimerFires, BackOnline, Get, queue, NothingUnsent
  <1>3. ASSUME NEW t \in Tabs, got[t] # None, Show(t, got[t]), UNCHANGED pending
        PROVE  NothingUnsent'
    BY <1>0, <1>3 DEF Show, Remember, NothingUnsent
  <1>4. ASSUME NEW t \in Tabs, ApplyRemote(t) PROVE NothingUnsent'
    BY <1>3, <1>4 DEF ApplyRemote, NothingUnsent
  <1>5. ASSUME NEW t \in Tabs, Hydrate(t) PROVE NothingUnsent'
    <2>1. CASE dirty[t] /\ screen[t] # got[t]
      BY <1>0, <1>5, <2>1 DEF Hydrate, NothingUnsent
    <2>2. CASE ~ (dirty[t] /\ screen[t] # got[t])
      BY <1>3, <1>5, <2>2 DEF Hydrate, NothingUnsent
    <2> QED BY <2>1, <2>2
  <1>6. ASSUME NEW t \in Tabs, Reload(t) PROVE NothingUnsent'
    BY <1>0, <1>6 DEF Reload, FirstBaseline, NothingUnsent
  <1>7. ASSUME NEW s \in saves, Saved(s) \/ Refused(s) \/ Unanswered(s) PROVE NothingUnsent'
    <2>0. s.tab \in Tabs /\ s.live /\ pending[s.tab] # None
      BY <1>0, <1>7 DEF Saved, Refused, Unanswered, TypeOK, Saves, FlightIsQueued
    <2>1. CASE Saved(s)
      <3>1. /\ base'[s.tab] \in {Whole, s.sent} /\ screen' = screen
            /\ pending'[s.tab] = None => pending[s.tab] = s.sent
            /\ sync'[s.tab] # "overtaken" => sync[s.tab] # "overtaken"
            /\ \A u \in Tabs : u # s.tab => /\ base'[u] = base[u] /\ pending'[u] = pending[u]
                                            /\ sync'[u] = sync[u] /\ dirty'[u] = dirty[u]
        BY <1>0, <2>0, <2>1 DEF Saved, StillQueued, Remember
      <3> QED BY <1>0, <2>0, <3>1 DEF QueueIsScreen, NothingUnsent
    <2>2. CASE Refused(s) \/ Unanswered(s)
      BY <1>0, <2>0, <2>2 DEF Refused, Unanswered, NothingUnsent
    <2> QED BY <1>7, <2>1, <2>2
  <1>8. ASSUME NEW s \in saves, Rebuild(s) \/ Commit(s) \/ Throw(s) \/ ServerError(s)
        PROVE  NothingUnsent'
    BY <1>8 DEF Rebuild, Commit, Throw, ServerError, Server, tabVars, queue, NothingUnsent
  <1>9. CASE UNCHANGED vars
    BY <1>9 DEF vars, tabVars, queue, NothingUnsent
  <1> QED BY <1>0, <1>1, <1>2, <1>4, <1>5, <1>6, <1>7, <1>8, <1>9, Steps

(* A browser with nothing queued shows what the server last gave it. *)
THEOREM AllSent == Spec => []NothingUnsent
  <1>1. Init => NothingUnsent
    BY DEF Init, NothingUnsent
  <1> QED BY <1>1, NothingUnsentNext, IInvAlways, PTL DEF Spec
=============================================================================
