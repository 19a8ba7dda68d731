---------------------------- MODULE WebhookProofs -----------------------------
(***************************************************************************)
(* Theorems about WebhookOutbox, for every value of its constants.         *)
(*                                                                         *)
(* It has three parts: the Enqueuer's cached list, the Dispatcher's        *)
(* treatment of failing webhooks, and the delivery contract, with the      *)
(* types of the whole.                                                     *)
(*                                                                         *)
(* The Enqueuer's cached list of subscribers hides no webhook from an      *)
(* event, for any number of processes, webhooks, events and failures.      *)
(*                                                                         *)
(* EventReachesSubscribers speaks of events that are handled.  Two facts   *)
(* carry it there: the list cached by the serve process lacks only         *)
(* webhooks whose service call has not returned (ListIsFull), and a        *)
(* webhook an event is owed to is in what Handle has left to do, has its   *)
(* row, or is deleted for good (OwedOrQueued).                             *)
(***************************************************************************)
EXTENDS WebhookOutbox, FiniteSetTheorems, TLAPS

EnqTypes ==
    /\ hook \in [Hook -> HookState]
    /\ enq \in [Proc -> [list : SUBSET Hook, fresh : BOOLEAN]]
    /\ job \in [Event -> [pc : {"none", "list", "run"}, proc : Proc, todo : SUBSET Hook]]
    /\ known \in [Event -> SUBSET Hook]

ListIsFull == enq["serve"].fresh => \A h \in Hook \ owed : On(h) => h \in enq["serve"].list

OwedOrQueued ==
    \A e \in Event :
        /\ job[e].pc # "run" => known[e] = {}
        /\ \A h \in known[e] :
              \/ hook[h].at = "deleted"
              \/ hook[h].at = "here" /\ (h \in job[e].todo \/ <<e, h>> \in queued)

EnqInv == EnqTypes /\ ListIsFull /\ OwedOrQueued

\* Nothing is registered, cached or published at the start.
LEMMA InitEnq == ASSUME Init PROVE EnqInv
  <1>1. EnqTypes
    BY ParamAssumption DEF Init, EnqTypes, HookState
  <1>2. ListIsFull /\ OwedOrQueued
    BY ParamAssumption DEF Init, ListIsFull, OwedOrQueued
  <1> QED BY <1>1, <1>2 DEF EnqInv

\* No webhook becomes active but by a call that owes the Enqueuer a word, and
\* none that was registered is there again after it is deleted.
Calm ==
    /\ hook' \in [Hook -> HookState]
    /\ \A h \in Hook :
          /\ hook'[h].at # hook[h].at => hook'[h].at = "deleted" \/ hook[h].at = "none"
          /\ hook[h].at = "deleted" => hook'[h].at = "deleted"
          /\ On(h)' => On(h) \/ h \in owed'
    /\ owed \subseteq owed'

\* Such a step keeps the invariant when it leaves the Enqueuers alone.
LEMMA CalmStep ==
    ASSUME EnqInv, Calm, UNCHANGED <<enq, job, known>>, queued \subseteq queued' PROVE EnqInv'
  <1>1. EnqTypes'
    BY DEF EnqInv, EnqTypes, Calm
  <1>2. ListIsFull'
    BY DEF EnqInv, Calm, ListIsFull
  <1>3. OwedOrQueued'
    BY DEF EnqInv, EnqTypes, Calm, OwedOrQueued
  <1> QED BY <1>1, <1>2, <1>3 DEF EnqInv

\* The service calls register, enable and delete webhooks.
LEMMA CallsAreCalm ==
    ASSUME EnqInv, NEW h \in Hook, Create(h) \/ Enable(h) \/ Delete(h) PROVE EnqInv'
  <1>0. hook[h] \in HookState /\ hook \in [Hook -> HookState]
    BY DEF EnqInv, EnqTypes
  <1>1. UNCHANGED <<enq, job, known, queued>> /\ owed' = owed \cup {h}
    BY DEF Create, Enable, Delete, histVars
  <1>2. /\ hook' \in [Hook -> HookState] /\ \A g \in Hook \ {h} : hook'[g] = hook[g]
        /\ hook'[h].at # hook[h].at => hook'[h].at = "deleted" \/ hook[h].at = "none"
        /\ hook[h].at # "deleted"
    <2>1. CASE Create(h)
      BY <1>0, <2>1 DEF Create, HookState
    <2>2. CASE Enable(h)
      BY <1>0, <2>2 DEF Enable, HookState
    <2>3. CASE Delete(h)
      BY <1>0, <2>3 DEF Delete, HookState
    <2> QED BY <2>1, <2>2, <2>3
  <1>3. Calm
    BY <1>0, <1>1, <1>2 DEF Calm, On
  <1> QED BY <1>1, <1>3, CalmStep

\* The Dispatcher disables webhooks, and registers none.
LEMMA DispatchIsCalm == ASSUME EnqInv, Dispatch \/ RecordFails PROVE EnqInv'
  <1>0. hook \in [Hook -> HookState]
    BY DEF EnqInv, EnqTypes
  <1>1. UNCHANGED <<enq, job, known, owed, queued>>
    BY DEF Dispatch, RecordFails, LoadDue, Take, BatchDone, Post, Delivered, Failed, enqVars, histVars
  <1>2. CASE UNCHANGED hook
    BY <1>0, <1>1, <1>2, CalmStep DEF Calm, On
  <1>3. CASE Delivered
    <2> DEFINE g == Current.hook
    <2>1. hook' = [hook EXCEPT ![g].fails = IF hook[g].at = "here" THEN 0 ELSE @]
      BY <1>3 DEF Delivered
    <2> HIDE DEF g
    <2>2. hook' \in [Hook -> HookState]
          /\ \A h \in Hook : hook'[h].at = hook[h].at /\ hook'[h].active = hook[h].active
      BY <1>0, <2>1 DEF HookState
    <2> QED BY <1>1, <2>2, CalmStep DEF Calm, On
  <1>4. CASE Failed /\ hook[Current.hook].at = "here"
    <2> DEFINE g == Current.hook
               n == hook[g].fails + 1
    <2>1. hook' = [hook EXCEPT ![g].fails = n, ![g].active = @ /\ ~(hook[g].at = "here" /\ n >= DisableAfter)]
      BY <1>4 DEF Failed
    <2> HIDE DEF g
    <2>2. ASSUME NEW h \in Hook
          PROVE  hook'[h] \in HookState /\ hook'[h].at = hook[h].at /\ (hook'[h].active => hook[h].active)
      BY <1>0, <2>1 DEF HookState
    <2>3. hook' \in [Hook -> HookState]
      BY <1>0, <2>1, <2>2
    <2> QED BY <1>1, <2>2, <2>3, CalmStep DEF Calm, On
  <1> QED BY <1>2, <1>3, <1>4 DEF Dispatch, RecordFails, LoadDue, Take, BatchDone, Post, Failed, dbVars

\* The other steps that leave the Enqueuers alone.
LEMMA OtherSteps ==
    ASSUME EnqInv, \/ UNCHANGED vars
                   \/ \E h \in Hook : CheckPing(h) \/ QueuePing(h)
                   \/ \E i \in DOMAIN rows : BackoffOver(i)
                   \/ \E S \in SUBSET DOMAIN rows : Prune(S)
    PROVE  EnqInv'
  <1>1. UNCHANGED <<hook, enq, job, known, owed>> /\ queued \subseteq queued'
    BY DEF CheckPing, QueuePing, InsertRow, BackoffOver, Prune, vars, dbVars, enqVars, histVars
  <1>2. Calm
    BY <1>1 DEF Calm, On, EnqInv, EnqTypes
  <1> QED BY <1>1, <1>2, CalmStep

\* invalidateWebhooks drops the serve process's list with the word it was owed.
LEMMA InvalidateStep == ASSUME EnqInv, NEW h \in Hook, Invalidate(h) PROVE EnqInv'
  <1>1. EnqTypes'
    BY DEF Invalidate, EnqInv, EnqTypes, dbVars, histVars
  <1>2. ~enq'["serve"].fresh
    BY ParamAssumption DEF Invalidate, EnqInv, EnqTypes
  <1>3. OwedOrQueued'
    BY DEF Invalidate, EnqInv, OwedOrQueued, dbVars, histVars
  <1> QED BY <1>1, <1>2, <1>3 DEF EnqInv, ListIsFull

\* Publish hands the event over.
LEMMA PublishStep == ASSUME EnqInv, NEW p \in Proc, NEW e \in Event, Publish(p, e) PROVE EnqInv'
  <1>1. EnqTypes' /\ UNCHANGED <<hook, enq, owed, known, queued>>
    BY DEF Publish, EnqInv, EnqTypes, dbVars, histVars
  <1>2. ListIsFull'
    BY <1>1 DEF EnqInv, ListIsFull, On
  <1>3. OwedOrQueued'
    BY <1>1 DEF Publish, EnqInv, EnqTypes, OwedOrQueued
  <1> QED BY <1>1, <1>2, <1>3 DEF EnqInv

\* subscriberMaxAge makes a list old.
LEMMA ExpireStep == ASSUME EnqInv, NEW p \in Proc, Expire(p) PROVE EnqInv'
  <1>1. EnqTypes' /\ UNCHANGED <<hook, job, owed, known, queued>>
    BY DEF Expire, EnqInv, EnqTypes, dbVars, histVars
  <1>2. enq'["serve"].fresh => enq'["serve"] = enq["serve"]
    BY ParamAssumption DEF Expire, EnqInv, EnqTypes
  <1>3. ListIsFull' /\ OwedOrQueued'
    BY <1>1, <1>2 DEF EnqInv, ListIsFull, OwedOrQueued, On
  <1> QED BY <1>1, <1>3 DEF EnqInv

\* subscribers(): what it owes the event is in the list it returns.
LEMMA ListStep == ASSUME EnqInv, NEW e \in Event, List(e) \/ ListFails(e) PROVE EnqInv'
  <1>0. /\ EnqTypes /\ Active \subseteq Hook /\ job[e].proc \in Proc /\ job[e].pc = "list" /\ known[e] = {}
        /\ UNCHANGED <<hook, owed, queued>>
    BY DEF EnqInv, EnqTypes, OwedOrQueued, List, ListFails, Active, dbVars, histVars
  <1>1. CASE List(e)
    <2> DEFINE p == job[e].proc
               list == IF enq[p].fresh THEN enq[p].list ELSE Active
    <2>1. /\ enq' = [enq EXCEPT ![p] = [list |-> list, fresh |-> TRUE]]
          /\ job' = [job EXCEPT ![e].pc = "run", ![e].todo = list]
          /\ known' = [known EXCEPT ![e] = IF p = "serve" THEN Active \ owed ELSE {}]
      BY <1>1 DEF List
    <2>2. list \subseteq Hook /\ (p = "serve" => Active \ owed \subseteq list)
      BY <1>0 DEF EnqTypes, EnqInv, ListIsFull, Active
    <2> HIDE DEF list
    <2>3. EnqTypes'
      BY <1>0, <2>1, <2>2 DEF EnqTypes
    <2>4. ListIsFull'
      <3>1. CASE p = "serve"
        <4>1. enq'["serve"].list = list
          BY <1>0, <2>1, <3>1 DEF EnqTypes
        <4> QED BY <1>0, <2>2, <3>1, <4>1 DEF ListIsFull, Active, On
      <3>2. CASE p # "serve"
        BY <1>0, <2>1, <3>2 DEF EnqTypes, EnqInv, ListIsFull, On
      <3> QED BY <3>1, <3>2
    <2>5. /\ job'[e].pc = "run" /\ job'[e].todo = list
          /\ \A f \in Event \ {e} : job'[f] = job[f] /\ known'[f] = known[f]
          /\ known'[e] \subseteq list /\ \A h \in known'[e] : hook[h].at = "here"
      BY <1>0, <2>1, <2>2 DEF EnqTypes, Active, On
    <2>6. OwedOrQueued'
      BY <1>0, <2>5 DEF EnqInv, OwedOrQueued
    <2> QED BY <2>3, <2>4, <2>6 DEF EnqInv
  <1>2. CASE ListFails(e)
    <2>1. job' = [job EXCEPT ![e].pc = "run", ![e].todo = enq[job[e].proc].list] /\ UNCHANGED <<enq, known>>
      BY <1>2 DEF ListFails, histVars
    <2>2. EnqTypes'
      BY <1>0, <2>1 DEF EnqTypes
    <2>3. ListIsFull' /\ OwedOrQueued'
      BY <1>0, <2>1 DEF EnqInv, EnqTypes, ListIsFull, OwedOrQueued, On
    <2> QED BY <2>2, <2>3 DEF EnqInv
  <1> QED BY <1>1, <1>2

\* Handle queues the event for the next webhook of its list, or drops it with
\* a failing insert.
LEMMA EnqueueStep ==
    ASSUME EnqInv, NEW e \in Event, NEW h \in Hook, Enqueue(e, h) \/ EnqueueFails(e, h) PROVE EnqInv'
  <1>0. /\ EnqTypes /\ job' = [job EXCEPT ![e].todo = @ \ {h}] /\ h \in job[e].todo
        /\ UNCHANGED <<hook, enq, owed>>
    BY DEF EnqInv, Enqueue, EnqueueFails, InsertRow, dbVars
  <1>1. /\ \A f \in Event \ {e} : job'[f] = job[f]
        /\ job'[e].pc = job[e].pc /\ job'[e].todo = job[e].todo \ {h}
        /\ job' \in [Event -> [pc : {"none", "list", "run"}, proc : Proc, todo : SUBSET Hook]]
    BY <1>0 DEF EnqTypes
  <1>2. ListIsFull'
    BY <1>0 DEF EnqInv, ListIsFull, On
  <1>3. CASE Enqueue(e, h)
    <2>1. known' = known /\ queued \subseteq queued' /\ (hook[h].at = "here" => <<e, h>> \in queued')
      BY <1>3 DEF Enqueue, InsertRow
    <2>2. EnqTypes' /\ OwedOrQueued'
      BY <1>0, <1>1, <2>1 DEF EnqInv, EnqTypes, OwedOrQueued
    <2> QED BY <1>2, <2>2 DEF EnqInv
  <1>4. CASE EnqueueFails(e, h)
    <2>1. queued' = queued /\ known' = [known EXCEPT ![e] = @ \ {h}]
      BY <1>4 DEF EnqueueFails
    <2>2. EnqTypes' /\ OwedOrQueued'
      BY <1>0, <1>1, <2>1 DEF EnqInv, EnqTypes, OwedOrQueued
    <2> QED BY <1>2, <2>2 DEF EnqInv
  <1> QED BY <1>3, <1>4

\* A process that dies forgets its list and its handlers, and what they owed.
LEMMA CrashStep == ASSUME EnqInv, NEW p \in Proc, Crash(p) PROVE EnqInv'
  <1>0. /\ EnqTypes /\ UNCHANGED <<hook, queued>>
        /\ enq' = [enq EXCEPT ![p] = [list |-> {}, fresh |-> FALSE]]
        /\ \A e \in Event : known'[e] = IF job'[e] # job[e] THEN {} ELSE known[e]
    BY DEF Crash, EnqInv, dbVars
  <1>a. ASSUME NEW e \in Event
         PROVE  /\ job'[e] = job[e] \/ job'[e] = [job[e] EXCEPT !.pc = "run", !.todo = {}]
                /\ job'[e] \in [pc : {"none", "list", "run"}, proc : Proc, todo : SUBSET Hook]
                /\ job'[e] = job[e] \/ job'[e].pc = "run"
    <2>1. job'[e] = job[e] \/ job'[e] = [job[e] EXCEPT !.pc = "run", !.todo = {}]
      BY DEF Crash
    <2>2. job[e] \in [pc : {"none", "list", "run"}, proc : Proc, todo : SUBSET Hook]
      BY <1>0 DEF EnqTypes
    <2> QED BY <2>1, <2>2
  <1>b. job' \in [Event -> [pc : {"none", "list", "run"}, proc : Proc, todo : SUBSET Hook]]
    <2>1. DOMAIN job' = Event /\ job' = [e \in Event |-> job'[e]]
      BY DEF Crash
    <2> QED BY <1>a, <2>1
  <1>c. known' \in [Event -> SUBSET Hook]
    BY <1>0 DEF Crash, EnqTypes
  <1>1. EnqTypes'
    BY <1>0, <1>b, <1>c DEF EnqTypes
  <1>2. ListIsFull'
    <2>1. CASE p = "serve"
      BY <1>0, <2>1, ParamAssumption DEF EnqTypes, ListIsFull
    <2>2. CASE p # "serve"
      BY <1>0, <2>2, ParamAssumption DEF Crash, EnqTypes, EnqInv, ListIsFull, On
    <2> QED BY <2>1, <2>2
  <1>3. OwedOrQueued'
    BY <1>0, <1>a DEF EnqInv, OwedOrQueued
  <1> QED BY <1>1, <1>2, <1>3 DEF EnqInv

\* Every step preserves the invariant.
LEMMA EnqStep == ASSUME EnqInv, [Next]_vars PROVE EnqInv'
  <1>1. CASE \E h \in Hook : Create(h) \/ Enable(h) \/ Delete(h)
    BY <1>1, CallsAreCalm
  <1>2. CASE \E h \in Hook : Invalidate(h)
    BY <1>2, InvalidateStep
  <1>3. CASE \E e \in Event : \E p \in Proc : Publish(p, e)
    BY <1>3, PublishStep
  <1>4. CASE \E e \in Event : List(e) \/ ListFails(e)
    BY <1>4, ListStep
  <1>5. CASE \E e \in Event : \E h \in Hook : Enqueue(e, h) \/ EnqueueFails(e, h)
    BY <1>5, EnqueueStep
  <1>6. CASE \E p \in Proc : Expire(p) \/ Crash(p)
    BY <1>6, ExpireStep, CrashStep
  <1>7. CASE Dispatch \/ RecordFails
    BY <1>7, DispatchIsCalm
  <1>8. CASE \/ UNCHANGED vars
             \/ \E h \in Hook : CheckPing(h) \/ QueuePing(h)
             \/ \E i \in DOMAIN rows : BackoffOver(i)
             \/ \E S \in SUBSET DOMAIN rows : Prune(S)
    BY <1>8, OtherSteps
  <1> QED BY <1>1, <1>2, <1>3, <1>4, <1>5, <1>6, <1>7, <1>8 DEF Next

\* Whatever the number of processes, webhooks and events, and whatever fails,
\* an event the serve process publishes is queued for every webhook that was
\* active and announced when its subscribers were listed
\* (EventReachesSubscribers; Enqueuer in dispatch.go).
THEOREM CacheHidesNoWebhook == Spec => []EventReachesSubscribers
  <1>1. Init => EnqInv
    BY InitEnq
  <1>2. EnqInv /\ [Next]_vars => EnqInv'
    BY EnqStep
  <1>3. EnqInv => EventReachesSubscribers
    BY DEF EnqInv, EnqTypes, OwedOrQueued, EventReachesSubscribers
  <1> QED BY <1>1, <1>2, <1>3, PTL DEF Spec

-------------------------------------------------------------------------------
(***************************************************************************)
(* The Dispatcher leaves webhooks alone that are disabled, and disables    *)
(* them for a streak of failures only, for any number of webhooks, events  *)
(* and processes and every batch size.                                     *)
(*                                                                         *)
(* A webhook it goes on with in a batch is active, or was deleted          *)
(* meanwhile (SeenIsOn): it notices what it disables itself.  As long as   *)
(* nothing fails to be recorded, a webhook's count of failures is at most  *)
(* that of its requests that failed in a row, less one not yet recorded    *)
(* (FailsCounted).                                                         *)
(***************************************************************************)

Rowed == [id : Nat, hook : Hook, attempts : Nat]
Local == [pc : {"idle", "next", "post", "record"}, due : SUBSET Rowed,
          seen : SUBSET Hook, off : SUBSET Hook, ok : BOOLEAN]

DispTypes ==
    /\ hook \in [Hook -> HookState]
    /\ DOMAIN rows \subseteq Nat /\ rows \in [DOMAIN rows -> Row] /\ nextId \in Nat
    /\ disp \in Local
    /\ streak \in [Hook -> Nat]
    /\ used \in [{"admin", "trouble"} -> Nat]

First(d) == d \in disp.due /\ \A c \in disp.due : d.id <= c.id

InHand ==
    /\ \A c, d \in disp.due : c.id = d.id => c = d
    /\ disp.pc \in {"post", "record"} =>
          First(Current) /\ Current.hook \in disp.seen \ disp.off

SeenIsOn == \A h \in disp.seen \ disp.off : On(h) \/ hook[h].at = "deleted"

\* A failed request of the webhook is not recorded yet.
Unrecorded(h) == disp.pc = "record" /\ Current.hook = h

FailsCounted ==
    used.trouble = 0 => \A h \in Hook : hook[h].at = "here" =>
        /\ ~Unrecorded(h) => hook[h].fails <= streak[h]
        /\ Unrecorded(h) /\ ~disp.ok => hook[h].fails + 1 <= streak[h]
        /\ ~hook[h].active => streak[h] >= DisableAfter

DispInv == DispTypes /\ InHand /\ SeenIsOn /\ FailsCounted

\* The oldest delivery of the batch is one of it, and no other.
LEMMA FirstIsCurrent == ASSUME DispInv, NEW d, First(d) PROVE d = Current
  <1>1. First(Current)
    BY DEF First, Current
  <1>2. d.id \in Nat /\ Current.id \in Nat
    BY <1>1 DEF DispInv, DispTypes, Local, Rowed, First
  <1> QED BY <1>1, <1>2 DEF First, DispInv, InHand

\* Nothing is registered, queued or sent at the start.
LEMMA InitDisp == ASSUME Init PROVE DispInv
  <1>1. disp = Idle /\ Idle \in Local /\ Idle.pc = "idle" /\ Idle.due = {} /\ Idle.seen = {}
    BY DEF Init, Idle, Local
  <1>2. DispTypes
    BY <1>1 DEF Init, DispTypes, HookState
  <1>3. InHand /\ SeenIsOn /\ FailsCounted
    BY <1>1 DEF Init, InHand, SeenIsOn, FailsCounted
  <1> QED BY <1>2, <1>3 DEF DispInv

\* Steps of anything but the Dispatcher and the service calls: rows come and
\* go, and trouble is counted.
LEMMA AsideStep ==
    ASSUME DispInv, UNCHANGED <<hook, disp, streak>>,
           DOMAIN rows' \subseteq Nat, rows' \in [DOMAIN rows' -> Row], nextId' \in Nat,
           used' \in [{"admin", "trouble"} -> Nat], used'.trouble >= used.trouble
    PROVE  DispInv'
  <1>1. DispTypes'
    BY DEF DispInv, DispTypes
  <1>2. InHand' /\ SeenIsOn'
    BY DEF DispInv, InHand, SeenIsOn, First, Current, On
  <1>3. FailsCounted'
    BY DEF DispInv, DispTypes, FailsCounted, Unrecorded, Current
  <1> QED BY <1>1, <1>2, <1>3 DEF DispInv

\* A new row is pending.
LEMMA InsertKeeps ==
    ASSUME DispInv, NEW h \in Hook, NEW e \in Event \cup {Ping}, InsertRow(h, e)
    PROVE  DOMAIN rows' \subseteq Nat /\ rows' \in [DOMAIN rows' -> Row] /\ nextId' \in Nat
  <1> DEFINE r == [hook |-> h, event |-> e, wait |-> FALSE, status |-> "pending", attempts |-> 0]
  <1>1. r \in Row /\ rows \in [DOMAIN rows -> Row] /\ DOMAIN rows \subseteq Nat /\ nextId \in Nat
    BY DEF Row, DispInv, DispTypes
  <1>2. CASE hook[h].at # "here"
    BY <1>1, <1>2 DEF InsertRow
  <1>3. CASE hook[h].at = "here"
    <2>1. /\ rows' = [i \in DOMAIN rows \cup {nextId} |-> IF i # nextId THEN rows[i] ELSE r]
          /\ nextId' = nextId + 1
      BY <1>3 DEF InsertRow
    <2> HIDE DEF r
    <2> QED BY <1>1, <2>1
  <1> QED BY <1>2, <1>3

\* Trouble is only ever added.
LEMMA SpendKeeps ==
    ASSUME DispInv, NEW what \in {"admin", "trouble"}, Spend(what)
    PROVE  /\ used' \in [{"admin", "trouble"} -> Nat] /\ used'.trouble >= used.trouble
           /\ what = "trouble" => used'.trouble # 0
  <1>1. used' = [used EXCEPT ![what] = @ + 1] /\ used \in [{"admin", "trouble"} -> Nat]
    BY DEF Spend, DispInv, DispTypes
  <1>2. used' \in [{"admin", "trouble"} -> Nat]
    BY <1>1
  <1>3. used.trouble \in Nat /\ used'.trouble = IF what = "trouble" THEN used.trouble + 1 ELSE used.trouble
    BY <1>1
  <1> QED BY <1>2, <1>3

\* The service calls: what they make active, or delete, the Dispatcher may go
\* on with.
LEMMA CallKeeps ==
    ASSUME DispInv, NEW h \in Hook, Create(h) \/ Enable(h) \/ Delete(h) PROVE DispInv'
  <1>0. DispTypes /\ disp' = disp /\ hook[h] \in HookState
    BY DEF Create, Enable, Delete, DispInv, DispTypes
  <1>1. /\ hook' \in [Hook -> HookState] /\ \A g \in Hook \ {h} : hook'[g] = hook[g]
        /\ On(h)' \/ hook'[h].at = "deleted"
        /\ hook'[h].at = "here" => hook'[h].fails = 0 /\ hook'[h].active
    <2>1. CASE Create(h)
      BY <1>0, <2>1 DEF Create, DispTypes, HookState, On
    <2>2. CASE Enable(h)
      BY <1>0, <2>2 DEF Enable, DispTypes, HookState, On
    <2>3. CASE Delete(h)
      BY <1>0, <2>3 DEF Delete, DispTypes, HookState
    <2> QED BY <2>1, <2>2, <2>3
  <1>2. DOMAIN rows' \subseteq Nat /\ rows' \in [DOMAIN rows' -> Row] /\ nextId' = nextId
    BY <1>0 DEF Create, Enable, Delete, DispTypes, Without
  <1>3. used' \in [{"admin", "trouble"} -> Nat] /\ used'.trouble >= used.trouble
    <2>1. CASE used' = used
      BY <1>0, <2>1 DEF DispTypes
    <2>2. CASE Spend("admin")
      BY <2>2, SpendKeeps
    <2> QED BY <2>1, <2>2 DEF Create, Enable, Delete
  <1>4. /\ streak' \in [Hook -> Nat] /\ \A g \in Hook \ {h} : streak'[g] = streak[g]
        /\ Enable(h) /\ Unrecorded(h) /\ ~disp.ok => streak'[h] = 1
    BY <1>0 DEF Create, Enable, Delete, DispTypes, histVars, Unrecorded
  <1>5. DispTypes'
    BY <1>0, <1>1, <1>2, <1>3, <1>4 DEF DispTypes
  <1>6. InHand'
    BY <1>0 DEF DispInv, InHand, First, Current
  <1>7. SeenIsOn'
    BY <1>0, <1>1 DEF DispInv, DispTypes, Local, SeenIsOn, On
  <1>8. FailsCounted'
    <2> SUFFICES ASSUME used'.trouble = 0, NEW g \in Hook, hook'[g].at = "here"
                 PROVE  /\ ~Unrecorded(g)' => hook'[g].fails <= streak'[g]
                        /\ Unrecorded(g)' /\ ~disp'.ok => hook'[g].fails + 1 <= streak'[g]
                        /\ ~hook'[g].active => streak'[g] >= DisableAfter
      BY DEF FailsCounted
    <2>1. Unrecorded(g)' = Unrecorded(g) /\ used.trouble = 0
      BY <1>0, <1>3 DEF Unrecorded, Current, DispTypes
    <2>2. CASE g # h
      BY <1>0, <1>1, <1>4, <2>1, <2>2 DEF DispInv, FailsCounted
    <2>3. CASE g = h
      <3>1. hook'[g].fails = 0 /\ hook'[g].active /\ streak'[g] \in Nat
        BY <1>1, <1>4, <2>3
      <3>2. Unrecorded(h) => ~Create(h) /\ ~Delete(h)
        <4>1. Unrecorded(h) => On(h) \/ hook[h].at = "deleted"
          BY DEF DispInv, InHand, SeenIsOn, Unrecorded
        <4>2. ~Delete(h)
          BY <1>0, <2>3 DEF Delete, DispTypes, HookState
        <4> QED BY <4>1, <4>2 DEF Create, On
      <3> QED BY <1>0, <1>4, <2>1, <2>3, <3>1, <3>2
    <2> QED BY <2>2, <2>3
  <1> QED BY <1>5, <1>6, <1>7, <1>8 DEF DispInv

\* The Dispatcher goes on with another batch, or another delivery of it, that
\* is not recorded.
LEMMA MoveStep ==
    ASSUME DispInv, UNCHANGED <<hook, rows, nextId, streak>>, disp' \in Local,
           disp'.pc \in {"idle", "next"}, disp'.due \subseteq disp.due \/ disp'.due \subseteq DueRows,
           disp'.seen \ disp'.off \subseteq disp.seen \ disp.off,
           used' \in [{"admin", "trouble"} -> Nat], used'.trouble >= used.trouble,
           disp.pc = "record" => used'.trouble # 0
    PROVE  DispInv'
  <1>1. DispTypes'
    BY DEF DispInv, DispTypes
  <1>2. InHand'
    <2>1. \A c, d \in DueRows : c.id = d.id => c = d
      BY DEF DueRows
    <2> QED BY <2>1 DEF DispInv, InHand
  <1>3. SeenIsOn'
    BY DEF DispInv, SeenIsOn, On
  <1>4. FailsCounted'
    BY DEF DispInv, DispTypes, FailsCounted, Unrecorded
  <1> QED BY <1>1, <1>2, <1>3, <1>4 DEF DispInv

\* LoadDue, a batch done, a transaction that fails and a death of the process.
LEMMA BatchSteps ==
    ASSUME DispInv, LoadDue \/ BatchDone \/ RecordFails \/ \E p \in Proc : Crash(p) PROVE DispInv'
  <1>0. DispTypes /\ disp \in Local /\ UNCHANGED <<hook, rows, nextId, streak>>
    BY DEF DispInv, DispTypes, LoadDue, BatchDone, RecordFails, Crash, dbVars, histVars
  <1>1. Idle \in Local /\ Idle.pc = "idle" /\ Idle.due = {} /\ Idle.seen = {}
    BY DEF Idle, Local
  <1>2. CASE LoadDue
    <2> DEFINE B == Oldest(DueRows, BatchSize)
    <2>1. B \subseteq DueRows /\ DueRows \subseteq Rowed
      BY <1>0 DEF Oldest, DueRows, Rowed, DispTypes, Row
    <2>2. disp' = [Idle EXCEPT !.pc = "next", !.due = B] /\ used' = used /\ disp.pc = "idle"
      BY <1>2 DEF LoadDue
    <2> HIDE DEF B
    <2>3. disp' \in Local /\ disp'.pc = "next" /\ disp'.due = B /\ disp'.seen = {}
      BY <2>1, <2>2 DEF Idle, Local
    <2> QED BY <1>0, <2>1, <2>2, <2>3, MoveStep DEF DispTypes
  <1>3. CASE BatchDone
    BY <1>0, <1>1, <1>3, MoveStep DEF BatchDone, DispTypes
  <1>4. CASE RecordFails
    <2>1. disp' = [disp EXCEPT !.pc = "next", !.due = @ \ {Current}] /\ Spend("trouble")
      BY <1>4 DEF RecordFails
    <2>2. disp' \in Local /\ disp'.pc = "next" /\ disp'.due \subseteq disp.due
          /\ disp'.seen = disp.seen /\ disp'.off = disp.off
      BY <1>0, <2>1 DEF Local
    <2> QED BY <1>0, <2>1, <2>2, SpendKeeps, MoveStep
  <1>5. ASSUME NEW p \in Proc, Crash(p) PROVE DispInv'
    <2>1. /\ used' \in [{"admin", "trouble"} -> Nat] /\ used'.trouble >= used.trouble
          /\ used'.trouble # 0 /\ (disp' = Idle \/ disp' = disp)
      BY <1>5, SpendKeeps DEF Crash
    <2>2. CASE disp' = Idle
      BY <1>0, <1>1, <2>1, <2>2, MoveStep
    <2>3. CASE disp' = disp
      BY <1>0, <2>1, <2>3, AsideStep DEF DispTypes
    <2> QED BY <2>1, <2>2, <2>3
  <1> QED BY <1>2, <1>3, <1>4, <1>5

\* The webhook of the next delivery is read, and found active, once per batch.
LEMMA TakeStep == ASSUME DispInv, NEW d \in disp.due, Take(d) PROVE DispInv'
  <1> DEFINE read == d.hook \notin disp.seen \cup disp.off
             gone == read /\ hook[d.hook].at # "here"
             off == IF read /\ ~gone /\ ~hook[d.hook].active THEN disp.off \cup {d.hook} ELSE disp.off
             skip == gone \/ d.hook \in off
  <1>0. /\ DispTypes /\ disp \in Local /\ d \in Rowed /\ First(d) /\ disp.pc = "next"
        /\ UNCHANGED <<hook, rows, nextId, streak, used>>
        /\ disp' = [disp EXCEPT !.pc = IF skip THEN "next" ELSE "post",
                                !.due = IF skip THEN @ \ {d} ELSE @,
                                !.off = off,
                                !.seen = IF skip THEN @ ELSE @ \cup {d.hook}]
    BY DEF Take, DispInv, DispTypes, Local, First, dbVars, histVars
  <1>1. off \subseteq Hook /\ disp.off \subseteq off /\ d.hook \in Hook
    BY <1>0 DEF Local, Rowed
  <1>2. ~skip => /\ d.hook \notin off
                 /\ read => On(d.hook)
                 /\ ~read => d.hook \in disp.seen
    BY <1>1 DEF On
  <1> HIDE DEF skip, off
  <1>3. /\ disp' \in Local /\ disp'.pc = IF skip THEN "next" ELSE "post"
        /\ disp'.due = IF skip THEN disp.due \ {d} ELSE disp.due
        /\ disp'.off = off /\ disp'.seen = IF skip THEN disp.seen ELSE disp.seen \cup {d.hook}
    BY <1>0, <1>1 DEF Local, Rowed
  <1>4. CASE skip
    <2>1. disp'.seen \ disp'.off \subseteq disp.seen \ disp.off
      BY <1>1, <1>3, <1>4
    <2> QED BY <1>0, <1>3, <1>4, <2>1, MoveStep DEF DispTypes
  <1>5. CASE ~skip
    <2>1. DispTypes'
      BY <1>0, <1>3 DEF DispTypes
    <2>2. Current' = Current /\ Current = d
      BY <1>0, <1>3, <1>5, FirstIsCurrent DEF Current
    <2>3. InHand'
      BY <1>0, <1>2, <1>3, <1>5, <2>2 DEF DispInv, InHand, First
    <2>4. SeenIsOn'
      BY <1>0, <1>1, <1>2, <1>3, <1>5 DEF DispInv, SeenIsOn, On
    <2>5. FailsCounted'
      BY <1>0, <1>3, <1>5 DEF DispInv, FailsCounted, Unrecorded
    <2> QED BY <2>1, <2>3, <2>4, <2>5 DEF DispInv
  <1> QED BY <1>4, <1>5

\* A request adds to the streak of its webhook, or ends it.
LEMMA PostStep == ASSUME DispInv, NEW ok \in BOOLEAN, NEW acc \in BOOLEAN, Post(ok, acc) PROVE DispInv'
  <1> DEFINE g == Current.hook
  <1>0. /\ DispTypes /\ disp \in Local /\ disp.pc = "post" /\ g \in Hook
        /\ g \in disp.seen \ disp.off
        /\ UNCHANGED <<hook, rows, nextId, used>>
        /\ disp' = [disp EXCEPT !.pc = "record", !.ok = ok]
        /\ streak' = [streak EXCEPT ![g] = IF ok THEN 0 ELSE @ + 1]
    BY DEF Post, DispInv, DispTypes, Local, InHand, dbVars
  <1>1. /\ disp' \in Local /\ disp'.pc = "record" /\ disp'.ok = ok /\ disp'.due = disp.due
        /\ disp'.seen = disp.seen /\ disp'.off = disp.off
    BY <1>0 DEF Local
  <1>2. Current' = Current
    BY <1>1 DEF Current
  <1>a. First(Current)
    BY <1>0 DEF DispInv, InHand
  <1> HIDE DEF g
  <1>3. /\ streak' \in [Hook -> Nat] /\ streak'[g] = IF ok THEN 0 ELSE streak[g] + 1
        /\ \A h \in Hook \ {g} : streak'[h] = streak[h]
    BY <1>0 DEF DispTypes
  <1>4. DispTypes'
    BY <1>0, <1>1, <1>3 DEF DispTypes
  <1>5. InHand'
    BY <1>0, <1>1, <1>2, <1>a DEF DispInv, InHand, First, g
  <1>6. SeenIsOn'
    BY <1>0, <1>1 DEF DispInv, SeenIsOn, On
  <1>7. FailsCounted'
    <2> SUFFICES ASSUME used'.trouble = 0, NEW h \in Hook, hook'[h].at = "here"
                 PROVE  /\ ~Unrecorded(h)' => hook'[h].fails <= streak'[h]
                        /\ Unrecorded(h)' /\ ~disp'.ok => hook'[h].fails + 1 <= streak'[h]
                        /\ ~hook'[h].active => streak'[h] >= DisableAfter
      BY DEF FailsCounted
    <2>1. /\ hook[h].fails \in Nat /\ streak[h] \in Nat /\ hook[h].fails <= streak[h]
          /\ ~hook[h].active => streak[h] >= DisableAfter
      BY <1>0 DEF DispInv, DispTypes, HookState, FailsCounted, Unrecorded
    <2>2. Unrecorded(h)' <=> h = g
      BY <1>1, <1>2 DEF Unrecorded, g
    <2>3. h = g => hook[h].active
      BY <1>0 DEF DispInv, SeenIsOn, On
    <2> QED BY <1>0, <1>1, <1>3, <2>1, <2>2, <2>3
  <1> QED BY <1>4, <1>5, <1>6, <1>7 DEF DispInv

\* An attempt that is recorded leaves a row.
LEMMA RowsAreTried ==
    ASSUME NEW r \in Row, NEW s \in {"pending", "delivered", "failed"}, NEW b \in BOOLEAN
    PROVE  /\ [r EXCEPT !.status = s, !.attempts = @ + 1] \in Row
           /\ [r EXCEPT !.status = s, !.wait = b, !.attempts = @ + 1] \in Row
  <1>1. r.attempts + 1 \in Nat
    BY DEF Row
  <1>2. [r EXCEPT !.status = s, !.attempts = r.attempts + 1] \in Row
    BY <1>1 DEF Row
  <1>3. [r EXCEPT !.status = s, !.wait = b, !.attempts = r.attempts + 1] \in Row
    BY <1>1 DEF Row
  <1> QED BY <1>2, <1>3

\* A success ends the count of failures of its webhook.
LEMMA DeliveredStep == ASSUME DispInv, Delivered PROVE DispInv'
  <1> DEFINE g == Current.hook
  <1>0. /\ DispTypes /\ disp \in Local /\ disp.pc = "record" /\ disp.ok /\ g \in Hook
        /\ UNCHANGED <<nextId, streak, used>>
        /\ disp' = [disp EXCEPT !.pc = "next", !.due = @ \ {Current}]
        /\ hook' = [hook EXCEPT ![g].fails = IF hook[g].at = "here" THEN 0 ELSE @]
    BY DEF Delivered, DispInv, DispTypes, Local, InHand, histVars
  <1>1. DOMAIN rows' \subseteq Nat /\ rows' \in [DOMAIN rows' -> Row]
    <2>1. DOMAIN rows' = DOMAIN rows
      BY DEF Delivered
    <2>2. ASSUME NEW i \in DOMAIN rows PROVE rows'[i] \in Row
      <3>1. rows[i] \in Row
        BY <1>0 DEF DispTypes
      <3>2. \/ rows'[i] = rows[i]
            \/ rows'[i] = [rows[i] EXCEPT !.status = "delivered", !.attempts = @ + 1]
        BY DEF Delivered
      <3> QED BY <3>1, <3>2, RowsAreTried
    <2>3. rows' = [i \in DOMAIN rows |-> rows'[i]]
      BY DEF Delivered
    <2> QED BY <1>0, <2>1, <2>2, <2>3 DEF DispTypes
  <1> HIDE DEF g
  <1>2. /\ disp' \in Local /\ disp'.pc = "next" /\ disp'.due \subseteq disp.due
        /\ disp'.seen = disp.seen /\ disp'.off = disp.off
    BY <1>0 DEF Local
  <1>3. /\ hook' \in [Hook -> HookState]
        /\ \A h \in Hook : hook'[h].at = hook[h].at /\ hook'[h].active = hook[h].active
        /\ \A h \in Hook \ {g} : hook'[h].fails = hook[h].fails
        /\ hook[g].at = "here" => hook'[g].fails = 0
    BY <1>0 DEF DispTypes, HookState
  <1>4. DispTypes' /\ InHand' /\ SeenIsOn'
    BY <1>0, <1>1, <1>2, <1>3 DEF DispInv, DispTypes, Local, InHand, SeenIsOn, On
  <1>5. FailsCounted'
    BY <1>0, <1>2, <1>3 DEF DispInv, DispTypes, FailsCounted, Unrecorded, g
  <1> QED BY <1>4, <1>5 DEF DispInv

\* A failure is counted, and the webhook disabled, when it is the
\* DisableAfter-th in a row; the batch leaves that webhook alone.
LEMMA FailedStep == ASSUME DispInv, Failed PROVE DispInv'
  <1> DEFINE g == Current.hook
             n == hook[g].fails + 1
             disabled == hook[g].at = "here" /\ n >= DisableAfter
  <1>0. /\ DispTypes /\ disp \in Local /\ disp.pc = "record" /\ ~disp.ok /\ g \in Hook
        /\ UNCHANGED <<nextId, streak, used>>
        /\ disp' = [disp EXCEPT !.pc = "next", !.due = @ \ {Current}, !.off = OffAfter(Current, disabled)]
    BY DEF Failed, DispInv, DispTypes, Local, InHand, histVars
  <1>1. DOMAIN rows' \subseteq Nat /\ rows' \in [DOMAIN rows' -> Row]
    <2>1. CASE rows' = rows
      BY <1>0, <2>1 DEF DispTypes
    <2>2. CASE hook[g].at = "here"
      <3>1. DOMAIN rows' = DOMAIN rows /\ rows' = [i \in DOMAIN rows |-> rows'[i]]
        BY <2>2 DEF Failed
      <3>2. ASSUME NEW i \in DOMAIN rows PROVE rows'[i] \in Row
        <4> DEFINE last == GivesUp(Current)
        <4>1. rows[i] \in Row /\ rows[i].status \in {"pending", "delivered", "failed"}
          BY <1>0 DEF DispTypes, Row
        <4>2. \/ rows'[i] = rows[i]
              \/ rows'[i] = [rows[i] EXCEPT !.status = IF last THEN "failed" ELSE @,
                                            !.wait = ~last, !.attempts = @ + 1]
          BY <2>2 DEF Failed
        <4>3. (~last) \in BOOLEAN
          OBVIOUS
        <4> HIDE DEF last
        <4>4. [rows[i] EXCEPT !.status = IF last THEN "failed" ELSE @, !.wait = ~last, !.attempts = @ + 1] \in Row
          <5>1. (IF last THEN "failed" ELSE rows[i].status) \in {"pending", "delivered", "failed"}
            BY <4>1
          <5> QED BY <4>1, <4>3, <5>1, RowsAreTried
        <4> QED BY <4>1, <4>2, <4>4
      <3> QED BY <1>0, <3>1, <3>2 DEF DispTypes
    <2> QED BY <2>1, <2>2 DEF Failed
  <1>2. /\ hook[g].at # "here" => hook' = hook
        /\ hook[g].at = "here" => hook' = [hook EXCEPT ![g].fails = n, ![g].active = @ /\ ~disabled]
    BY DEF Failed
  <1>3. OffAfter(Current, disabled) = IF disabled THEN disp.off \cup {g} ELSE disp.off
    BY DEF OffAfter
  <1> HIDE DEF g
  <1>4. /\ disp' \in Local /\ disp'.pc = "next" /\ disp'.due \subseteq disp.due
        /\ disp'.seen = disp.seen /\ disp'.off = IF disabled THEN disp.off \cup {g} ELSE disp.off
    BY <1>0, <1>3 DEF Local
  <1>5. /\ hook' \in [Hook -> HookState]
        /\ \A h \in Hook : hook'[h].at = hook[h].at
        /\ \A h \in Hook \ {g} : hook'[h] = hook[h]
        /\ hook[g].at = "here" => hook'[g].fails = n /\ (hook'[g].active <=> hook[g].active /\ ~disabled)
        /\ hook[g].at # "here" => hook'[g] = hook[g]
    <2>1. hook \in [Hook -> HookState] /\ hook[g] \in HookState /\ n \in Nat
      BY <1>0 DEF DispTypes, HookState
    <2>2. CASE hook[g].at # "here"
      BY <1>2, <2>1, <2>2
    <2>3. CASE hook[g].at = "here"
      <3>1. hook'[g].fails = n /\ hook'[g].at = "here" /\ hook'[g] \in HookState
        BY <1>0, <1>2, <2>1, <2>3 DEF HookState
      <3>2. hook'[g].active <=> hook[g].active /\ ~disabled
        BY <1>0, <1>2, <2>1, <2>3 DEF HookState
      <3>3. hook' \in [Hook -> HookState] /\ \A h \in Hook \ {g} : hook'[h] = hook[h]
        BY <1>0, <1>2, <2>1, <2>3 DEF HookState
      <3> QED BY <2>3, <3>1, <3>2, <3>3
    <2> QED BY <2>2, <2>3
  <1>6. DispTypes'
    BY <1>0, <1>1, <1>4, <1>5 DEF DispTypes
  <1>7. InHand'
    BY <1>4 DEF DispInv, InHand
  <1>8. SeenIsOn'
    BY <1>0, <1>4, <1>5 DEF DispInv, SeenIsOn, Local, On
  <1>9. FailsCounted'
    <2> SUFFICES ASSUME used'.trouble = 0, NEW h \in Hook, hook'[h].at = "here"
                 PROVE  /\ hook'[h].fails <= streak'[h]
                        /\ ~hook'[h].active => streak'[h] >= DisableAfter
      BY <1>4 DEF FailsCounted, Unrecorded
    <2>1. used.trouble = 0 /\ hook[h].at = "here" /\ streak[h] \in Nat /\ hook[h].fails \in Nat
      BY <1>0, <1>5 DEF DispTypes, HookState
    <2>2. /\ h # g => hook[h].fails <= streak[h]
          /\ h = g => hook[h].fails + 1 <= streak[h]
          /\ ~hook[h].active => streak[h] >= DisableAfter
      BY <1>0, <2>1 DEF DispInv, FailsCounted, Unrecorded, g
    <2> QED BY <1>0, <1>5, <2>1, <2>2, ParamAssumption
  <1> QED BY <1>6, <1>7, <1>8, <1>9 DEF DispInv

\* What the Enqueuers, time and pruning do, the Dispatcher does not notice.
LEMMA AsideSteps ==
    ASSUME DispInv,
           \/ UNCHANGED vars
           \/ \E h \in Hook : Invalidate(h) \/ CheckPing(h) \/ QueuePing(h)
           \/ \E e \in Event : \/ \E p \in Proc : Publish(p, e)
                              \/ List(e) \/ ListFails(e)
                              \/ \E h \in Hook : Enqueue(e, h) \/ EnqueueFails(e, h)
           \/ \E p \in Proc : Expire(p)
           \/ \E i \in DOMAIN rows : BackoffOver(i)
           \/ \E S \in SUBSET DOMAIN rows : Prune(S)
    PROVE  DispInv'
  <1>1. UNCHANGED <<hook, disp, streak>>
    BY DEF Invalidate, CheckPing, QueuePing, Publish, List, ListFails, Enqueue, EnqueueFails, Expire,
           BackoffOver, Prune, vars, dbVars, histVars
  <1>2. /\ used' \in [{"admin", "trouble"} -> Nat] /\ used'.trouble >= used.trouble
    <2>1. used' = used \/ Spend("admin") \/ Spend("trouble")
      BY DEF Invalidate, CheckPing, QueuePing, Publish, List, ListFails, Enqueue, EnqueueFails, Expire,
             BackoffOver, Prune, vars
    <2>2. CASE used' = used
      BY <2>2 DEF DispInv, DispTypes
    <2> QED BY <2>1, <2>2, SpendKeeps
  <1>3. DOMAIN rows' \subseteq Nat /\ rows' \in [DOMAIN rows' -> Row] /\ nextId' \in Nat
    <2>1. ASSUME NEW h \in Hook, NEW e \in Event, QueuePing(h) \/ Enqueue(e, h)
          PROVE  DOMAIN rows' \subseteq Nat /\ rows' \in [DOMAIN rows' -> Row] /\ nextId' \in Nat
      BY <2>1, InsertKeeps DEF QueuePing, Enqueue
    <2>2. ASSUME NEW h \in Hook, QueuePing(h)
          PROVE  DOMAIN rows' \subseteq Nat /\ rows' \in [DOMAIN rows' -> Row] /\ nextId' \in Nat
      BY <2>2, InsertKeeps DEF QueuePing
    <2>3. ASSUME NEW i \in DOMAIN rows, BackoffOver(i)
          PROVE  DOMAIN rows' \subseteq Nat /\ rows' \in [DOMAIN rows' -> Row] /\ nextId' \in Nat
      <3>1. rows' = [rows EXCEPT ![i].wait = FALSE] /\ rows \in [DOMAIN rows -> Row] /\ nextId' = nextId
            /\ DOMAIN rows \subseteq Nat /\ nextId \in Nat
        BY <2>3 DEF BackoffOver, DispInv, DispTypes
      <3>2. [rows[i] EXCEPT !.wait = FALSE] \in Row
        BY <3>1 DEF Row
      <3> QED BY <3>1, <3>2
    <2>4. ASSUME NEW S \in SUBSET DOMAIN rows, Prune(S)
          PROVE  DOMAIN rows' \subseteq Nat /\ rows' \in [DOMAIN rows' -> Row] /\ nextId' \in Nat
      BY <2>4 DEF Prune, Without, DispInv, DispTypes
    <2>5. CASE UNCHANGED <<rows, nextId>>
      BY <2>5 DEF DispInv, DispTypes
    <2> QED BY <2>1, <2>2, <2>3, <2>4, <2>5 DEF Invalidate, CheckPing, Publish, List, ListFails,
               EnqueueFails, Expire, vars, dbVars
  <1> QED BY <1>1, <1>2, <1>3, AsideStep

\* Every step preserves the invariant.
LEMMA DispStep == ASSUME DispInv, [Next]_vars PROVE DispInv'
  <1>1. CASE Dispatch \/ RecordFails
    BY <1>1, BatchSteps, TakeStep, PostStep, DeliveredStep, FailedStep DEF Dispatch
  <1>2. CASE \E h \in Hook : Create(h) \/ Enable(h) \/ Delete(h)
    BY <1>2, CallKeeps
  <1>3. CASE \E p \in Proc : Crash(p)
    BY <1>3, BatchSteps
  <1> QED BY <1>1, <1>2, <1>3, AsideSteps DEF Next

\* Whatever a batch holds, the Dispatcher sends to no webhook it has disabled
\* (PostsOnlyToActive; RunOnce in dispatch.go).
THEOREM DisabledIsLeftAlone == Spec => []PostsOnlyToActive
  <1>1. Init => DispInv
    BY InitDisp
  <1>2. DispInv /\ [Next]_vars => DispInv'
    BY DispStep
  <1>3. DispInv => PostsOnlyToActive
    BY DEF DispInv, InHand, SeenIsOn, PostsOnlyToActive
  <1> QED BY <1>1, <1>2, <1>3, PTL DEF Spec

\* As long as every answer is recorded, only DisableAfter requests in a row
\* that failed disable a webhook, over all its deliveries and batches
\* (DisabledByStreak; Failed in webhooks.go).
THEOREM OnlyAStreakDisables == Spec => []DisabledByStreak
  <1>1. Init => DispInv
    BY InitDisp
  <1>2. DispInv /\ [Next]_vars => DispInv'
    BY DispStep
  <1>3. DispInv => DisabledByStreak
    BY DEF DispInv, FailsCounted, DisabledByStreak
  <1> QED BY <1>1, <1>2, <1>3, PTL DEF Spec

-------------------------------------------------------------------------------
(***************************************************************************)
(* The outbox keeps the delivery contract, for any number of webhooks,     *)
(* events and processes, any limit on attempts and any batch size.         *)
(*                                                                         *)
(* An event is queued for a webhook once (OnceEach), so there are ids for  *)
(* all the rows there will ever be (Counted).  A row names a webhook that  *)
(* is there and a pending one has attempts left (RowsFit).  The batch in   *)
(* hand was read a while ago, but a delivery of it that still has its row  *)
(* is as it was read (DueFits), and one that was answered with success was *)
(* accepted (Heard).                                                       *)
(***************************************************************************)

Paired == queued \cap (Event \X Hook)

OnceEach ==
    \A e \in Event :
        /\ job[e].pc # "run" => job[e].todo = {} /\ \A h \in Hook : <<e, h>> \notin queued
        /\ \A h \in job[e].todo : <<e, h>> \notin queued

Counted ==
    /\ owed \subseteq Hook /\ pings \subseteq Hook /\ nextId \in Nat \ {0}
    /\ nextId + Cardinality(pings) <= Cardinality(Paired) + used.admin + 1
    /\ used.admin + used.trouble <= MaxUpset

Numbered ==
    /\ nextId # 0 /\ DOMAIN rows \subseteq 1..nextId - 1
    /\ acked \subseteq 1..nextId - 1
    /\ \A d \in disp.due : d.id \in 1..nextId - 1

RowsFit ==
    \A i \in DOMAIN rows :
        /\ hook[rows[i].hook].at = "here"
        /\ rows[i].status = "pending" => rows[i].attempts < MaxAttempts

\* The row a delivery was read from, if it is still there, is as it was read.
Fits(d) ==
    d.id \in DOMAIN rows =>
        /\ rows[d.id].status = "pending"
        /\ rows[d.id].hook = d.hook /\ rows[d.id].attempts = d.attempts

DueFits == \A d \in disp.due : Fits(d)

Heard == disp.pc = "record" /\ disp.ok => Current.id \in acked

Base == EnqInv /\ DispInv
RowInv == Numbered /\ RowsFit /\ DueFits /\ Heard
OutboxInv == Base /\ OnceEach /\ Counted /\ RowInv

\* Finitely many pairs are queued, and finitely many webhooks have a test call
\* under way.
LEMMA Finite ==
    ASSUME NEW P \in SUBSET Hook
    PROVE  /\ IsFiniteSet(P) /\ Cardinality(P) \in Nat
           /\ IsFiniteSet(Paired) /\ Cardinality(Paired) \in Nat
           /\ Cardinality(Event) * Cardinality(Hook) \in Nat
           /\ Cardinality(Paired) <= Cardinality(Event) * Cardinality(Hook)
  <1>1. IsFiniteSet(Hook) /\ IsFiniteSet(Event)
    BY ParamAssumption
  <1>2. /\ IsFiniteSet(Event \X Hook)
        /\ Cardinality(Event \X Hook) = Cardinality(Event) * Cardinality(Hook)
    BY <1>1, FS_Product
  <1>3. Paired \in SUBSET (Event \X Hook)
    BY DEF Paired
  <1>4. IsFiniteSet(Paired) /\ Cardinality(Paired) <= Cardinality(Event \X Hook)
    BY <1>2, <1>3, FS_Subset
  <1>5. IsFiniteSet(P)
    BY <1>1, FS_Subset
  <1> QED BY <1>2, <1>4, <1>5, FS_CardinalityType

\* Nothing is queued at the start.
LEMMA InitOutbox == ASSUME Init PROVE OutboxInv
  <1>1. Base
    BY InitEnq, InitDisp DEF Base
  <1>2. OnceEach
    BY DEF Init, OnceEach
  <1>3. Counted
    <2>1. pings = {} /\ Paired = {} /\ nextId = 1 /\ owed = {} /\ used.admin = 0 /\ used.trouble = 0
      BY DEF Init, Paired
    <2> QED BY <2>1, FS_EmptySet, ParamAssumption DEF Counted
  <1>4. RowInv
    BY DEF Init, Idle, RowInv, Numbered, RowsFit, DueFits, Heard
  <1> QED BY <1>1, <1>2, <1>3, <1>4 DEF OutboxInv

-------------------------------------------------------------------------------
(* Ids are enough. *)

\* What is spent of the bound, and what is left of it.
LEMMA SpendCounts ==
    ASSUME DispInv, Counted, NEW what \in {"admin", "trouble"}, Spend(what)
    PROVE  /\ used'.admin + used'.trouble <= MaxUpset
           /\ used.admin \in Nat /\ used.trouble \in Nat
           /\ used'.admin = IF what = "admin" THEN used.admin + 1 ELSE used.admin
  <1>1. /\ used' = [used EXCEPT ![what] = @ + 1] /\ used \in [{"admin", "trouble"} -> Nat]
        /\ used.admin + used.trouble < MaxUpset
    BY DEF Spend, DispInv, DispTypes
  <1>2. used.admin \in Nat /\ used.trouble \in Nat
    BY <1>1
  <1>3. \/ what = "admin" /\ used'.admin = used.admin + 1 /\ used'.trouble = used.trouble
        \/ what = "trouble" /\ used'.admin = used.admin /\ used'.trouble = used.trouble + 1
    BY <1>1
  <1> QED BY <1>1, <1>2, <1>3, ParamAssumption

\* Steps that queue nothing and check no test call keep the count.
LEMMA CountKeeps ==
    ASSUME DispInv, Counted, UNCHANGED <<nextId, queued>>, owed' \subseteq Hook,
           pings' = pings \/ pings' = {},
           used' = used \/ Spend("admin") \/ Spend("trouble")
    PROVE  Counted'
  <1>1. Paired' = Paired
    BY DEF Paired
  <1>2. pings' \subseteq Hook /\ pings \subseteq Hook
    BY DEF Counted
  <1>3. Cardinality(pings') \in Nat /\ Cardinality(pings) \in Nat /\ Cardinality(pings') <= Cardinality(pings)
        /\ Cardinality(Paired) \in Nat
    BY <1>2, Finite, FS_EmptySet
  <1>4. /\ used'.admin + used'.trouble <= MaxUpset
        /\ used.admin \in Nat /\ used'.admin \in Nat /\ used'.admin >= used.admin
    <2>1. CASE used' = used
      BY <2>1 DEF DispInv, DispTypes, Counted
    <2>2. CASE Spend("admin") \/ Spend("trouble")
      BY <2>2, SpendCounts
    <2> QED BY <2>1, <2>2
  <1> QED BY <1>1, <1>2, <1>3, <1>4 DEF Counted

\* A test call checked is one more, and one queued one less, with a row.
LEMMA PingCounts ==
    ASSUME DispInv, Counted, NEW h \in Hook, CheckPing(h) \/ QueuePing(h) PROVE Counted'
  <1>1. /\ pings \subseteq Hook /\ IsFiniteSet(pings) /\ Cardinality(pings) \in Nat
        /\ Cardinality(Paired) \in Nat /\ nextId \in Nat \ {0} /\ owed' = owed
        /\ used.admin \in Nat
    <2>1. pings \subseteq Hook
      BY DEF Counted
    <2> QED BY <2>1, Finite DEF Counted, CheckPing, QueuePing, DispInv, DispTypes
  <1>2. CASE CheckPing(h)
    <2>1. pings' = pings \cup {h} /\ Spend("admin") /\ UNCHANGED <<nextId, queued>>
      BY <1>2 DEF CheckPing, dbVars, histVars
    <2>2. /\ Cardinality(pings') <= Cardinality(pings) + 1 /\ Cardinality(pings') \in Nat
          /\ pings' \subseteq Hook
      <3>1. Cardinality(pings') = IF h \in pings THEN Cardinality(pings) ELSE Cardinality(pings) + 1
        BY <1>1, <2>1, FS_AddElement
      <3> QED BY <1>1, <2>1, <3>1
    <2>3. Paired' = Paired /\ used'.admin = used.admin + 1 /\ used'.admin + used'.trouble <= MaxUpset
      BY <2>1, SpendCounts DEF Paired
    <2> QED BY <1>1, <2>1, <2>2, <2>3 DEF Counted
  <1>3. CASE QueuePing(h)
    <2>1. pings' = pings \ {h} /\ h \in pings /\ used' = used /\ InsertRow(h, Ping)
      BY <1>3 DEF QueuePing
    <2>2. /\ Cardinality(pings') = Cardinality(pings) - 1 /\ Cardinality(pings') \in Nat
          /\ pings' \subseteq Hook
      <3>1. pings' \subseteq Hook
        BY <1>1, <2>1
      <3> QED BY <1>1, <2>1, <3>1, FS_RemoveElement, Finite
    <2>3. nextId' \in {nextId, nextId + 1} /\ queued' \subseteq queued \cup {<<Ping, h>>} /\ queued \subseteq queued'
      BY <2>1 DEF InsertRow
    <2>4. Paired' = Paired
      BY <2>3, ParamAssumption DEF Paired
    <2> QED BY <1>1, <2>1, <2>2, <2>3, <2>4 DEF Counted
  <1> QED BY <1>2, <1>3

\* An event that is queued for a webhook was not before.
LEMMA EnqueueCounts ==
    ASSUME DispInv, OnceEach, Counted, NEW e \in Event, NEW h \in Hook, Enqueue(e, h) PROVE Counted'
  <1>1. /\ <<e, h>> \notin queued /\ InsertRow(h, e) /\ UNCHANGED <<owed, pings, used>>
    BY DEF Enqueue, OnceEach
  <1>2. /\ pings \subseteq Hook /\ Cardinality(pings) \in Nat /\ IsFiniteSet(Paired)
        /\ Cardinality(Paired) \in Nat /\ nextId \in Nat \ {0} /\ used.admin \in Nat
    <2>1. pings \subseteq Hook
      BY DEF Counted
    <2> QED BY <2>1, Finite DEF Counted, DispInv, DispTypes
  <1>3. CASE UNCHANGED <<nextId, queued>>
    BY <1>1, <1>3, CountKeeps DEF Counted
  <1>4. CASE nextId' = nextId + 1 /\ queued' = queued \cup {<<e, h>>}
    <2>1. Paired' = Paired \cup {<<e, h>>} /\ <<e, h>> \notin Paired
      BY <1>1, <1>4 DEF Paired
    <2>2. Cardinality(Paired') = Cardinality(Paired) + 1
      BY <1>2, <2>1, FS_AddElement
    <2> QED BY <1>1, <1>2, <1>4, <2>2 DEF Counted
  <1> QED BY <1>1, <1>3, <1>4 DEF InsertRow

\* No step lets the ids run out.
LEMMA CountStep == ASSUME Base, OnceEach, Counted, [Next]_vars PROVE Counted'
  <1>0. DispInv /\ EnqInv
    BY DEF Base
  <1>1. CASE \E h \in Hook : CheckPing(h) \/ QueuePing(h)
    BY <1>0, <1>1, PingCounts
  <1>2. CASE \E e \in Event : \E h \in Hook : Enqueue(e, h)
    BY <1>0, <1>2, EnqueueCounts
  <1>3. ASSUME \/ UNCHANGED vars
               \/ \E h \in Hook : Create(h) \/ Enable(h) \/ Delete(h) \/ Invalidate(h)
               \/ \E e \in Event : \/ \E p \in Proc : Publish(p, e)
                                  \/ List(e) \/ ListFails(e)
                                  \/ \E h \in Hook : EnqueueFails(e, h)
               \/ \E p \in Proc : Expire(p) \/ Crash(p)
               \/ Dispatch \/ RecordFails
               \/ \E i \in DOMAIN rows : BackoffOver(i)
               \/ \E S \in SUBSET DOMAIN rows : Prune(S)
        PROVE  Counted'
    <2>1. /\ UNCHANGED <<nextId, queued>> /\ (pings' = pings \/ pings' = {})
          /\ used' = used \/ Spend("admin") \/ Spend("trouble")
      BY <1>3 DEF Create, Enable, Delete, Invalidate, Publish, List, ListFails, EnqueueFails, Expire,
         Crash, Dispatch, LoadDue, Take, BatchDone, Post, Delivered, Failed, RecordFails, BackoffOver,
         Prune, vars, dbVars, enqVars, histVars
    <2>2. owed \subseteq Hook
      BY DEF Counted
    <2>3. owed' \subseteq Hook
      BY <1>3, <2>2 DEF Create, Enable, Delete, Invalidate, Publish, List, ListFails, EnqueueFails, Expire,
         Crash, Dispatch, LoadDue, Take, BatchDone, Post, Delivered, Failed, RecordFails, BackoffOver,
         Prune, vars, enqVars
    <2> QED BY <1>0, <2>1, <2>3, CountKeeps
  <1> QED BY <1>1, <1>2, <1>3 DEF Next

\* Handle queues an event for each webhook of its list, and starts no second
\* time.
LEMMA OnceStep == ASSUME Base, OnceEach, [Next]_vars PROVE OnceEach'
  <1>0. /\ job \in [Event -> [pc : {"none", "list", "run"}, proc : Proc, todo : SUBSET Hook]]
        /\ enq \in [Proc -> [list : SUBSET Hook, fresh : BOOLEAN]]
    BY DEF Base, EnqInv, EnqTypes
  <1>1. CASE \E e \in Event : \E p \in Proc : Publish(p, e)
    BY <1>0, <1>1 DEF Publish, OnceEach, histVars
  <1>2. ASSUME NEW e \in Event, List(e) \/ ListFails(e) PROVE OnceEach'
    <2>1. job[e].pc = "list" /\ queued' = queued /\ \A f \in Event \ {e} : job'[f] = job[f]
      BY <1>0, <1>2 DEF List, ListFails, histVars
    <2>2. job'[e].pc = "run" /\ job'[e].todo \subseteq Hook
      <3>1. CASE List(e)
        BY <1>0, <3>1 DEF List, Active
      <3>2. CASE ListFails(e)
        BY <1>0, <3>2 DEF ListFails
      <3> QED BY <1>2, <3>1, <3>2
    <2> QED BY <2>1, <2>2 DEF OnceEach
  <1>3. ASSUME NEW e \in Event, NEW h \in Hook, Enqueue(e, h) \/ EnqueueFails(e, h) PROVE OnceEach'
    <2>1. /\ \A f \in Event \ {e} : job'[f] = job[f]
          /\ job'[e].pc = job[e].pc /\ job'[e].todo = job[e].todo \ {h} /\ h \in job[e].todo
      BY <1>0, <1>3 DEF Enqueue, EnqueueFails
    <2>2. queued' \subseteq queued \cup {<<e, h>>}
      BY <1>3 DEF Enqueue, EnqueueFails, InsertRow
    <2> QED BY <2>1, <2>2 DEF OnceEach
  <1>4. ASSUME NEW p \in Proc, Crash(p) PROVE OnceEach'
    <2>1. queued' = queued
      BY <1>4 DEF Crash
    <2>2. ASSUME NEW e \in Event PROVE job'[e] = job[e] \/ (job'[e].pc = "run" /\ job'[e].todo = {})
      BY <1>0, <1>4 DEF Crash
    <2> QED BY <2>1, <2>2 DEF OnceEach
  <1>5. CASE \E h \in Hook : QueuePing(h)
    <2>1. job' = job /\ \E h \in Hook : queued' \subseteq queued \cup {<<Ping, h>>}
      BY <1>5 DEF QueuePing, InsertRow
    <2> QED BY <2>1, ParamAssumption DEF OnceEach
  <1>6. CASE UNCHANGED <<job, queued>>
    BY <1>6 DEF OnceEach
  <1>7. ASSUME \/ UNCHANGED vars
               \/ \E h \in Hook : Create(h) \/ Enable(h) \/ Delete(h) \/ Invalidate(h) \/ CheckPing(h)
               \/ \E p \in Proc : Expire(p)
               \/ Dispatch \/ RecordFails
               \/ \E i \in DOMAIN rows : BackoffOver(i)
               \/ \E S \in SUBSET DOMAIN rows : Prune(S)
        PROVE  UNCHANGED <<job, queued>>
    BY <1>7 DEF Create, Enable, Delete, Invalidate, CheckPing, Expire, Dispatch, LoadDue, Take, BatchDone,
       Post, Delivered, Failed, RecordFails, BackoffOver, Prune, vars, dbVars, enqVars, histVars
  <1> QED BY <1>1, <1>2, <1>3, <1>4, <1>5, <1>6, <1>7 DEF Next

-------------------------------------------------------------------------------
(* A delivery in hand is as its row says. *)

\* Every row, accepted delivery and delivery in hand keeps its place when ids
\* are only added: rows, hooks and batches that do not change stay right.
LEMMA RowsAside ==
    ASSUME RowInv, UNCHANGED <<rows, nextId, disp, acked>>,
           \A i \in DOMAIN rows : hook'[rows[i].hook].at = hook[rows[i].hook].at
    PROVE  RowInv'
  <1>1. Numbered' /\ RowsFit'
    BY DEF RowInv, Numbered, RowsFit
  <1>2. DueFits'
    BY DEF RowInv, DueFits, Fits
  <1>3. Heard'
    BY DEF RowInv, Heard, Current
  <1> QED BY <1>1, <1>2, <1>3 DEF RowInv

\* What an insert does to the table.
LEMMA Inserted ==
    ASSUME Base, Numbered, NEW h \in Hook, NEW e \in Event \cup {Ping}, InsertRow(h, e), hook[h].at = "here"
    PROVE  /\ nextId' = nextId + 1 /\ nextId \notin DOMAIN rows /\ DOMAIN rows' = DOMAIN rows \cup {nextId}
           /\ \A i \in DOMAIN rows : rows'[i] = rows[i]
           /\ rows'[nextId].hook = h /\ rows'[nextId].status = "pending" /\ rows'[nextId].attempts = 0
  <1> DEFINE r == [hook |-> h, event |-> e, wait |-> FALSE, status |-> "pending", attempts |-> 0]
  <1>1. /\ rows' = [i \in DOMAIN rows \cup {nextId} |-> IF i # nextId THEN rows[i] ELSE r]
        /\ nextId' = nextId + 1
    BY DEF InsertRow
  <1>2. nextId \notin DOMAIN rows
    BY DEF Numbered, Base, DispInv, DispTypes
  <1>3. r.hook = h /\ r.status = "pending" /\ r.attempts = 0
    OBVIOUS
  <1> HIDE DEF r
  <1> QED BY <1>1, <1>2, <1>3

\* A new row has attempts left, and is of no batch in hand.
LEMMA RowsInserted ==
    ASSUME Base, RowInv, NEW h \in Hook, NEW e \in Event \cup {Ping}, InsertRow(h, e),
           UNCHANGED <<hook, disp, acked>>
    PROVE  RowInv'
  <1>1. CASE hook[h].at # "here"
    BY <1>1, RowsAside DEF InsertRow
  <1>2. CASE hook[h].at = "here"
    <2>1. /\ nextId' = nextId + 1 /\ nextId \notin DOMAIN rows /\ DOMAIN rows' = DOMAIN rows \cup {nextId}
          /\ \A i \in DOMAIN rows : rows'[i] = rows[i]
          /\ rows'[nextId].hook = h /\ rows'[nextId].status = "pending" /\ rows'[nextId].attempts = 0
      BY <1>2, Inserted DEF RowInv
    <2>2. nextId \in Nat
      BY DEF Base, DispInv, DispTypes
    <2>3. Numbered'
      BY <2>1, <2>2 DEF RowInv, Numbered
    <2>4. RowsFit'
      BY <1>2, <2>1, ParamAssumption DEF RowInv, RowsFit
    <2>5. DueFits'
      BY <2>1, <2>2 DEF RowInv, Numbered, DueFits, Fits
    <2>6. Heard'
      BY DEF RowInv, Heard, Current
    <2> QED BY <2>3, <2>4, <2>5, <2>6 DEF RowInv
  <1> QED BY <1>1, <1>2

\* Rows that go leave no trace in what remains.
LEMMA RowsLeave ==
    ASSUME RowInv, NEW D, rows' = Without(rows, D), UNCHANGED <<nextId, disp, acked>>,
           \A i \in DOMAIN rows \ D : hook'[rows[i].hook].at = hook[rows[i].hook].at
    PROVE  RowInv'
  <1>1. DOMAIN rows' = DOMAIN rows \ D /\ \A i \in DOMAIN rows \ D : rows'[i] = rows[i]
    BY DEF Without
  <1>2. Numbered' /\ RowsFit'
    BY <1>1 DEF RowInv, Numbered, RowsFit
  <1>3. DueFits'
    BY <1>1 DEF RowInv, DueFits, Fits
  <1>4. Heard'
    BY DEF RowInv, Heard, Current
  <1> QED BY <1>2, <1>3, <1>4 DEF RowInv

\* The service calls: a webhook takes its rows along.
LEMMA CallRows ==
    ASSUME Base, RowInv, NEW h \in Hook, Create(h) \/ Enable(h) \/ Delete(h) PROVE RowInv'
  <1>1. hook \in [Hook -> HookState] /\ \A i \in DOMAIN rows : rows[i].hook \in Hook
    BY DEF Base, DispInv, DispTypes, Row
  <1>2. CASE Create(h)
    <2>1. \A i \in DOMAIN rows : rows[i].hook # h
      BY <1>2 DEF Create, RowInv, RowsFit
    <2> QED BY <1>1, <1>2, <2>1, RowsAside DEF Create
  <1>3. CASE Enable(h)
    <2>1. \A g \in Hook : hook'[g].at = hook[g].at
      BY <1>1, <1>3 DEF Enable, HookState
    <2> QED BY <1>1, <1>3, <2>1, RowsAside DEF Enable
  <1>4. CASE Delete(h)
    <2> DEFINE D == {i \in DOMAIN rows : rows[i].hook = h}
    <2>1. rows' = Without(rows, D) /\ UNCHANGED <<nextId, disp, acked>>
      BY <1>4 DEF Delete
    <2>2. \A i \in DOMAIN rows \ D : hook'[rows[i].hook].at = hook[rows[i].hook].at
      BY <1>1, <1>4 DEF Delete
    <2> HIDE DEF D
    <2> QED BY <2>1, <2>2, RowsLeave
  <1> QED BY <1>2, <1>3, <1>4

\* The Dispatcher takes a batch, or goes on with what it has, and nothing else
\* changes.
LEMMA BatchRows ==
    ASSUME Base, RowInv, UNCHANGED <<hook, rows, nextId, acked>>,
           disp'.due \subseteq disp.due \/ disp'.due \subseteq DueRows, disp'.pc # "record"
    PROVE  RowInv'
  <1>1. \A d \in DueRows : d.id \in DOMAIN rows /\ Fits(d)
    BY DEF DueRows, Eligible, Fits
  <1>2. Numbered'
    BY <1>1 DEF RowInv, Numbered
  <1>3. RowsFit'
    BY DEF RowInv, RowsFit
  <1>4. DueFits'
    BY <1>1 DEF RowInv, DueFits, Fits
  <1> QED BY <1>2, <1>3, <1>4 DEF RowInv, Heard

\* The steps of a batch that record nothing, and the death of a process.
LEMMA BatchStepsRows ==
    ASSUME Base, RowInv,
           \/ LoadDue \/ BatchDone \/ RecordFails
           \/ \E d \in disp.due : Take(d)
           \/ \E p \in Proc : Crash(p)
    PROVE  RowInv'
  <1>0. disp \in Local /\ UNCHANGED <<hook, rows, nextId, acked>>
    BY DEF Base, DispInv, DispTypes, LoadDue, BatchDone, RecordFails, Take, Crash, dbVars
  <1>1. CASE LoadDue
    <2>1. disp'.due = Oldest(DueRows, BatchSize) /\ disp'.pc = "next"
      BY <1>1 DEF LoadDue, Idle
    <2> QED BY <1>0, <2>1, BatchRows DEF Oldest
  <1>2. CASE disp' = Idle
    BY <1>0, <1>2, BatchRows DEF Idle
  <1>3. CASE RecordFails
    <2>1. disp'.due \subseteq disp.due /\ disp'.pc = "next"
      BY <1>0, <1>3 DEF RecordFails, Local
    <2> QED BY <1>0, <2>1, BatchRows
  <1>4. ASSUME NEW d \in disp.due, Take(d) PROVE RowInv'
    <2>1. disp'.due \subseteq disp.due /\ disp'.pc \in {"next", "post"}
      BY <1>0, <1>4 DEF Take, Local
    <2> QED BY <1>0, <2>1, BatchRows
  <1>5. CASE \E p \in Proc : Crash(p) /\ disp' = disp
    BY <1>0, <1>5, RowsAside
  <1> QED BY <1>1, <1>2, <1>3, <1>4, <1>5 DEF BatchDone, Crash

\* What the receiver accepts has an id.
LEMMA PostRows ==
    ASSUME Base, RowInv, NEW ok \in BOOLEAN, NEW accepted \in BOOLEAN, Post(ok, accepted) PROVE RowInv'
  <1>0. /\ disp \in Local /\ UNCHANGED <<hook, rows, nextId>> /\ disp.pc = "post" /\ Current \in disp.due
        /\ disp' = [disp EXCEPT !.pc = "record", !.ok = ok]
        /\ acked' = IF accepted THEN acked \cup {Current.id} ELSE acked
        /\ ok => accepted
    BY DEF Base, DispInv, DispTypes, InHand, First, Post, dbVars
  <1>1. disp'.due = disp.due /\ (disp'.ok => ok) /\ disp'.ok \in BOOLEAN
    BY <1>0 DEF Local
  <1>2. Current' = Current
    BY <1>1 DEF Current
  <1>3. Numbered' /\ RowsFit'
    BY <1>0, <1>1 DEF RowInv, Numbered, RowsFit
  <1>4. DueFits'
    BY <1>0, <1>1 DEF RowInv, DueFits, Fits
  <1>5. Heard'
    BY <1>0, <1>1, <1>2 DEF Heard
  <1> QED BY <1>3, <1>4, <1>5 DEF RowInv

\* What recording an answer does: to the row in hand, and to no other.
LEMMA Recorded ==
    ASSUME Base, RowInv, Delivered \/ Failed
    PROVE  /\ disp.pc = "record" /\ Current \in disp.due /\ Current \in Rowed /\ UNCHANGED <<nextId, acked>>
           /\ disp'.due = disp.due \ {Current} /\ disp'.pc = "next"
           /\ DOMAIN rows' = DOMAIN rows
           /\ \A i \in DOMAIN rows : i # Current.id => rows'[i] = rows[i]
           /\ \A h \in Hook : hook'[h].at = hook[h].at
  <1>0. /\ disp \in Local /\ disp.pc = "record" /\ First(Current) /\ hook \in [Hook -> HookState]
    BY DEF Delivered, Failed, Base, DispInv, DispTypes, InHand
  <1>1. Current \in disp.due /\ Current \in Rowed
    BY <1>0 DEF First, Local
  <1>2. UNCHANGED <<nextId, acked>> /\ DOMAIN rows' = DOMAIN rows
    BY DEF Delivered, Failed
  <1>3. disp'.due = disp.due \ {Current} /\ disp'.pc = "next"
    BY <1>0 DEF Delivered, Failed, Local
  <1>4. \A i \in DOMAIN rows : i # Current.id => rows'[i] = rows[i]
    BY DEF Delivered, Failed
  <1>5. ASSUME NEW h \in Hook PROVE hook'[h].at = hook[h].at
    <2>1. hook[h] \in HookState
      BY <1>0
    <2>2. CASE Delivered
      BY <1>0, <2>1, <2>2 DEF Delivered, HookState
    <2>3. CASE Failed
      <3> DEFINE g == Current.hook
                 n == hook[g].fails + 1
                 b == hook[g].at = "here" /\ n >= DisableAfter
      <3>1. hook' = hook \/ hook' = [hook EXCEPT ![g].fails = n, ![g].active = @ /\ ~b]
        BY <2>3 DEF Failed
      <3> HIDE DEF n, b, g
      <3> QED BY <1>0, <2>1, <3>1 DEF HookState
    <2> QED BY <2>2, <2>3
  <1> QED BY <1>0, <1>1, <1>2, <1>3, <1>4, <1>5

\* The row of a success is delivered.
LEMMA DeliveredRow ==
    ASSUME Base, RowInv, Delivered, Current.id \in DOMAIN rows
    PROVE  LET r == rows[Current.id] IN
           rows'[Current.id] = [r EXCEPT !.status = "delivered", !.attempts = r.attempts + 1]
  BY DEF Delivered

\* The row of a failure is given up with its last attempt, else it waits.
LEMMA FailedRow ==
    ASSUME Base, RowInv, Failed, Current.id \in DOMAIN rows
    PROVE  LET r == rows[Current.id]
               last == r.attempts + 1 = MaxAttempts
           IN  /\ hook[r.hook].at = "here" /\ r.status = "pending" /\ r.attempts < MaxAttempts
               /\ rows'[Current.id] = [r EXCEPT !.status = IF last THEN "failed" ELSE "pending",
                                               !.wait = ~last, !.attempts = r.attempts + 1]
  <1> DEFINE r == rows[Current.id]
             last == r.attempts + 1 = MaxAttempts
  <1>1. Current \in disp.due
    BY Recorded
  <1>2. r.status = "pending" /\ r.hook = Current.hook /\ r.attempts = Current.attempts
    BY <1>1 DEF RowInv, DueFits, Fits
  <1>3. hook[r.hook].at = "here" /\ r.attempts < MaxAttempts /\ r.attempts \in Nat
    BY <1>2 DEF RowInv, RowsFit, Base, DispInv, DispTypes, Row
  <1>4. GivesUp(Current) <=> last
    BY <1>2, <1>3, ParamAssumption DEF GivesUp
  <1>5. rows'[Current.id] = [r EXCEPT !.status = IF GivesUp(Current) THEN "failed" ELSE @,
                                     !.wait = ~GivesUp(Current), !.attempts = @ + 1]
    BY <1>2, <1>3 DEF Failed
  <1> QED BY <1>2, <1>3, <1>4, <1>5

\* A row that is recorded has attempts left or is finished.
LEMMA RecordRows == ASSUME Base, RowInv, Delivered \/ Failed PROVE RowInv'
  <1>1. /\ disp.pc = "record" /\ Current \in disp.due /\ Current \in Rowed /\ UNCHANGED <<nextId, acked>>
        /\ disp'.due = disp.due \ {Current} /\ disp'.pc = "next"
        /\ DOMAIN rows' = DOMAIN rows
        /\ \A i \in DOMAIN rows : i # Current.id => rows'[i] = rows[i]
        /\ \A h \in Hook : hook'[h].at = hook[h].at
    BY Recorded
  <1>2. \A i \in DOMAIN rows : rows[i] \in Row /\ rows[i].hook \in Hook
    BY DEF Base, DispInv, DispTypes, Row
  <1>3. ASSUME Current.id \in DOMAIN rows
        PROVE  LET r == rows'[Current.id] IN
               r.hook = rows[Current.id].hook /\ (r.status = "pending" => r.attempts < MaxAttempts)
    <2> DEFINE r == rows[Current.id]
               last == r.attempts + 1 = MaxAttempts
    <2>1. r \in Row /\ r.attempts \in Nat
      BY <1>2, <1>3 DEF Row
    <2>2. CASE Delivered
      BY <1>3, <2>1, <2>2, DeliveredRow DEF Row
    <2>3. CASE Failed
      <3>1. /\ r.attempts < MaxAttempts
            /\ rows'[Current.id] = [r EXCEPT !.status = IF last THEN "failed" ELSE "pending",
                                            !.wait = ~last, !.attempts = r.attempts + 1]
        BY <1>3, <2>3, FailedRow
      <3>2. /\ rows'[Current.id].hook = r.hook /\ rows'[Current.id].attempts = r.attempts + 1
            /\ rows'[Current.id].status = IF last THEN "failed" ELSE "pending"
        BY <2>1, <3>1 DEF Row
      <3> QED BY <2>1, <3>1, <3>2, ParamAssumption
    <2> QED BY <2>2, <2>3
  <1>4. Numbered'
    BY <1>1 DEF RowInv, Numbered
  <1>5. RowsFit'
    BY <1>1, <1>2, <1>3 DEF RowInv, RowsFit
  <1>6. DueFits'
    <2> SUFFICES ASSUME NEW d \in disp.due, d # Current PROVE Fits(d)'
      BY <1>1 DEF DueFits
    <2>1. d.id # Current.id
      BY <1>1 DEF Base, DispInv, InHand
    <2> QED BY <1>1, <2>1 DEF RowInv, DueFits, Fits
  <1> QED BY <1>1, <1>4, <1>5, <1>6 DEF RowInv, Heard

\* A backoff that ends changes when a row is due, and nothing else.
LEMMA BackoffRows ==
    ASSUME Base, RowInv, NEW i \in DOMAIN rows, BackoffOver(i) PROVE RowInv'
  <1>1. DOMAIN rows' = DOMAIN rows /\ UNCHANGED <<hook, nextId, disp, acked>>
    BY DEF BackoffOver
  <1>2. ASSUME NEW j \in DOMAIN rows
        PROVE  /\ rows'[j].hook = rows[j].hook /\ rows'[j].status = rows[j].status
               /\ rows'[j].attempts = rows[j].attempts
    <2>1. rows[j] \in Row
      BY DEF Base, DispInv, DispTypes
    <2> QED BY <2>1 DEF BackoffOver, Row
  <1>3. Numbered' /\ RowsFit'
    BY <1>1, <1>2 DEF RowInv, Numbered, RowsFit
  <1>4. DueFits'
    BY <1>1, <1>2 DEF RowInv, DueFits, Fits
  <1>5. Heard'
    BY <1>1 DEF RowInv, Heard, Current
  <1> QED BY <1>3, <1>4, <1>5 DEF RowInv

\* Every step keeps rows, batch and receiver in agreement.
LEMMA RowStep == ASSUME Base, RowInv, [Next]_vars PROVE RowInv'
  <1>1. CASE \E h \in Hook : Create(h) \/ Enable(h) \/ Delete(h)
    BY <1>1, CallRows
  <1>2. CASE \E h \in Hook : QueuePing(h)
    BY <1>2, RowsInserted DEF QueuePing
  <1>3. CASE \E e \in Event : \E h \in Hook : Enqueue(e, h)
    BY <1>3, RowsInserted DEF Enqueue
  <1>4. CASE LoadDue \/ BatchDone \/ RecordFails \/ (\E d \in disp.due : Take(d)) \/ (\E p \in Proc : Crash(p))
    BY <1>4, BatchStepsRows
  <1>5. CASE Delivered \/ Failed
    BY <1>5, RecordRows
  <1>6. CASE \E ok, accepted \in BOOLEAN : Post(ok, accepted)
    BY <1>6, PostRows
  <1>7. CASE \E i \in DOMAIN rows : BackoffOver(i)
    BY <1>7, BackoffRows
  <1>8. CASE \E S \in SUBSET DOMAIN rows : Prune(S)
    <2>1. \E S : rows' = Without(rows, S) /\ UNCHANGED <<hook, nextId, disp, acked>>
      BY <1>8 DEF Prune
    <2> QED BY <2>1, RowsLeave DEF RowInv
  <1>9. CASE \/ UNCHANGED vars
             \/ \E h \in Hook : Invalidate(h) \/ CheckPing(h)
             \/ \E e \in Event : \/ \E p \in Proc : Publish(p, e)
                                \/ List(e) \/ ListFails(e)
                                \/ \E h \in Hook : EnqueueFails(e, h)
             \/ \E p \in Proc : Expire(p)
    <2>1. UNCHANGED <<hook, rows, nextId, disp, acked>>
      BY <1>9 DEF Invalidate, CheckPing, Publish, List, ListFails, EnqueueFails, Expire, vars, dbVars
    <2> QED BY <2>1, RowsAside
  <1> QED BY <1>1, <1>2, <1>3, <1>4, <1>5, <1>6, <1>7, <1>8, <1>9 DEF Next, Dispatch

\* Every step preserves the invariant.
LEMMA OutboxStep == ASSUME OutboxInv, [Next]_vars PROVE OutboxInv'
  <1>1. Base'
    BY EnqStep, DispStep DEF OutboxInv, Base
  <1>2. OnceEach' /\ Counted' /\ RowInv'
    BY OnceStep, CountStep, RowStep DEF OutboxInv
  <1> QED BY <1>1, <1>2 DEF OutboxInv

\* Ids counted as Counted counts them are ids there are.
LEMMA IdsCounted ==
    ASSUME NEW P \in SUBSET Hook, NEW Q \in SUBSET (Event \X Hook), NEW n \in Nat \ {0},
           NEW a \in Nat, NEW t \in Nat,
           n + Cardinality(P) <= Cardinality(Q) + a + 1, a + t <= MaxUpset
    PROVE  1..n - 1 \subseteq Id
  <1> DEFINE m == Cardinality(Event) * Cardinality(Hook)
             k == Cardinality(P)
             q == Cardinality(Q)
  <1>1. IsFiniteSet(Event \X Hook) /\ Cardinality(Event \X Hook) = m
    BY FS_Product, ParamAssumption
  <1>2. q \in Nat /\ m \in Nat /\ q <= m
    BY <1>1, FS_Subset, FS_CardinalityType
  <1>3. k \in Nat
    BY FS_Subset, FS_CardinalityType, ParamAssumption
  <1>4. Id = 1..(m + MaxUpset)
    BY DEF Id
  <1>5. n + k <= q + a + 1
    OBVIOUS
  <1> HIDE DEF m, k, q
  <1>6. n - 1 <= m + MaxUpset
    BY <1>2, <1>3, <1>5, ParamAssumption
  <1> QED BY <1>2, <1>4, <1>6, ParamAssumption

\* No id is beyond those there are.
LEMMA IdsSuffice == ASSUME OutboxInv PROVE 1..nextId - 1 \subseteq Id
  <1>1. /\ pings \subseteq Hook /\ nextId \in Nat \ {0} /\ used.admin \in Nat /\ used.trouble \in Nat
        /\ Paired \subseteq Event \X Hook
    BY DEF OutboxInv, Base, DispInv, DispTypes, Counted, Paired
  <1> QED BY <1>1, IdsCounted DEF OutboxInv, Counted

\* The tables, the Enqueuers and the Dispatcher's locals keep their types: no
\* row without a webhook and a status the Dispatcher knows, and an id for
\* every row that any number of webhooks and events can make (TypeOK).
THEOREM OutboxTypes == Spec => []TypeOK
  <1>1. Init => OutboxInv
    BY InitOutbox
  <1>2. OutboxInv /\ [Next]_vars => OutboxInv'
    BY OutboxStep
  <1>3. ASSUME OutboxInv PROVE TypeOK
    <2>1. EnqTypes /\ DispTypes /\ Counted /\ Numbered /\ 1..nextId - 1 \subseteq Id
      BY <1>3, IdsSuffice DEF OutboxInv, Base, EnqInv, DispInv, RowInv
    <2>2. disp.due \subseteq Due
      BY <2>1 DEF DispTypes, Local, Rowed, Due, Numbered
    <2>3. /\ disp.pc \in {"idle", "next", "post", "record"}
          /\ disp.seen \subseteq Hook /\ disp.off \subseteq Hook /\ disp.ok \in BOOLEAN
      BY <2>1 DEF DispTypes, Local
    <2>4. DOMAIN rows \subseteq Id /\ acked \subseteq Id
      BY <2>1 DEF Numbered
    <2> QED BY <2>1, <2>2, <2>3, <2>4 DEF EnqTypes, DispTypes, Counted, TypeOK
  <1> QED BY <1>1, <1>2, <1>3, PTL DEF Spec

-------------------------------------------------------------------------------
(* Each step is one of the contract, or none of its business. *)

Live == [i \in DOMAIN rows |-> [hook |-> rows[i].hook, status |-> rows[i].status,
                               tries |-> rows[i].attempts]]
Closed == {h \in Hook : hook[h].at = "deleted"}

\* Steps that change no row but when it is due, delete no webhook and accept
\* nothing.
LEMMA StutterMaps ==
    ASSUME UNCHANGED <<nextId, acked>>, DOMAIN rows' = DOMAIN rows,
           \A i \in DOMAIN rows :
               /\ rows'[i].hook = rows[i].hook /\ rows'[i].status = rows[i].status
               /\ rows'[i].attempts = rows[i].attempts,
           \A h \in Hook : hook'[h].at = "deleted" <=> hook[h].at = "deleted"
    PROVE  UNCHANGED Contract!vars
  <1>1. Live' = Live
    BY DEF Live
  <1>2. Closed' = Closed
    BY DEF Closed
  <1> QED BY <1>1, <1>2 DEF Contract!vars, Live, Closed

\* A row is a delivery queued.
LEMMA InsertMaps ==
    ASSUME OutboxInv, OutboxInv', NEW h \in Hook, NEW e \in Event \cup {Ping}, InsertRow(h, e),
           UNCHANGED <<hook, acked>>
    PROVE  [Contract!Next]_Contract!vars
  <1>1. CASE hook[h].at # "here"
    BY <1>1, StutterMaps DEF InsertRow
  <1>2. CASE hook[h].at = "here"
    <2>1. /\ nextId' = nextId + 1 /\ nextId \notin DOMAIN rows /\ DOMAIN rows' = DOMAIN rows \cup {nextId}
          /\ \A i \in DOMAIN rows : rows'[i] = rows[i]
          /\ rows'[nextId].hook = h /\ rows'[nextId].status = "pending" /\ rows'[nextId].attempts = 0
      BY <1>2, Inserted DEF OutboxInv, RowInv
    <2>2. nextId \in Nat \ {0} /\ nextId \in Id
      <3>1. /\ pings' \subseteq Hook /\ nextId' \in Nat \ {0} /\ used'.admin \in Nat /\ used'.trouble \in Nat
            /\ Paired' \subseteq Event \X Hook /\ nextId \in Nat \ {0}
        BY DEF OutboxInv, Base, DispInv, DispTypes, Counted, Paired
      <3>2. 1..nextId' - 1 \subseteq Id
        BY <3>1, IdsCounted DEF OutboxInv, Counted
      <3> QED BY <2>1, <3>1, <3>2
    <2>3. Live' = [c \in DOMAIN Live \cup {nextId} |->
                     IF c = nextId THEN [hook |-> h, status |-> "pending", tries |-> 0] ELSE Live[c]]
      BY <2>1 DEF Live
    <2>4. 1..nextId' - 1 = (1..nextId - 1) \cup {nextId} /\ nextId \notin 1..nextId - 1
      BY <2>1, <2>2
    <2>5. h \notin Closed /\ Closed' = Closed
      BY <1>2 DEF Closed
    <2>6. Contract!Queue(nextId, h)
      BY <2>3, <2>4, <2>5 DEF Contract!Queue, Live, Closed
    <2> QED BY <2>2, <2>6 DEF Contract!Next
  <1> QED BY <1>1, <1>2

\* DeleteWebhook closes a webhook.
LEMMA DeleteMaps ==
    ASSUME OutboxInv, NEW h \in Hook, Delete(h) PROVE [Contract!Next]_Contract!vars
  <1> DEFINE D == {i \in DOMAIN rows : rows[i].hook = h}
  <1>1. rows' = Without(rows, D) /\ UNCHANGED <<nextId, acked>>
    BY DEF Delete
  <1>2. Closed' = Closed \cup {h}
    BY DEF Delete, Closed, OutboxInv, Base, DispInv, DispTypes, HookState
  <1>3. Live' = [d \in {d \in DOMAIN Live : Live[d].hook # h} |-> Live[d]]
    <2>1. {d \in DOMAIN Live : Live[d].hook # h} = DOMAIN rows \ D
      BY DEF Live
    <2>2. DOMAIN rows' = DOMAIN rows \ D /\ \A i \in DOMAIN rows \ D : rows'[i] = rows[i]
      BY <1>1 DEF Without
    <2> HIDE DEF D
    <2> QED BY <2>1, <2>2 DEF Live
  <1>4. Contract!Close(h)
    BY <1>1, <1>2, <1>3 DEF Contract!Close, Contract!Keep, Live, Closed
  <1> QED BY <1>4 DEF Contract!Next

\* Prune forgets what is done.
LEMMA PruneMaps ==
    ASSUME OutboxInv, NEW S \in SUBSET DOMAIN rows, Prune(S) PROVE [Contract!Next]_Contract!vars
  <1>1. rows' = Without(rows, S) /\ UNCHANGED <<hook, nextId, acked>>
    BY DEF Prune
  <1>2. Closed' = Closed
    BY <1>1 DEF Closed
  <1>3. Live' = [d \in DOMAIN Live \ S |-> Live[d]]
    BY <1>1 DEF Live, Without
  <1>4. S \subseteq {d \in DOMAIN Live : Live[d].status # "pending"}
    BY DEF Prune, Prunable, Live
  <1>5. S \in SUBSET Contract!Done
    BY <1>4 DEF Contract!Done, Contract!Pending, Live
  <1>6. Contract!Forget(S)
    BY <1>1, <1>2, <1>3 DEF Contract!Forget, Contract!Keep, Live, Closed
  <1> QED BY <1>5, <1>6 DEF Contract!Next

\* A request the receiver answers with success, whether or not the answer
\* arrives, is of a delivery that is pending or forgotten.
LEMMA PostMaps ==
    ASSUME OutboxInv, NEW ok \in BOOLEAN, NEW accepted \in BOOLEAN, Post(ok, accepted)
    PROVE  [Contract!Next]_Contract!vars
  <1>1. UNCHANGED <<hook, rows, nextId>> /\ Current \in disp.due
    BY DEF OutboxInv, Base, DispInv, DispTypes, InHand, First, Post, dbVars
  <1>2. CASE ~accepted
    BY <1>1, <1>2, StutterMaps DEF Post
  <1>3. CASE accepted
    <2>1. acked' = acked \cup {Current.id}
      BY <1>3 DEF Post
    <2>2. Current.id \in 1..nextId - 1 /\ Current.id \in Id
      BY <1>1, IdsSuffice DEF OutboxInv, RowInv, Numbered
    <2>3. Current.id \in DOMAIN Live => Live[Current.id].status = "pending"
      BY <1>1 DEF OutboxInv, RowInv, DueFits, Fits, Live
    <2>4. Current.id \notin Contract!Done
      BY <2>3 DEF Contract!Done, Contract!Pending, Live
    <2>5. Contract!Accept(Current.id)
      BY <1>1, <2>1, <2>2, <2>4 DEF Contract!Accept
    <2> QED BY <2>2, <2>5 DEF Contract!Next
  <1> QED BY <1>2, <1>3

\* The row of an answer, still there, is confirmed, put off or given up.
LEMMA RecordMaps ==
    ASSUME OutboxInv, Delivered \/ Failed PROVE [Contract!Next]_Contract!vars
  <1>0. PICK i : i = Current.id
    OBVIOUS
  <1> DEFINE r == rows[i]
  <1>1. /\ disp.pc = "record" /\ Current \in disp.due /\ UNCHANGED <<nextId, acked>>
        /\ DOMAIN rows' = DOMAIN rows
        /\ \A j \in DOMAIN rows : j # i => rows'[j] = rows[j]
        /\ \A h \in Hook : hook'[h].at = hook[h].at
    BY <1>0, Recorded DEF OutboxInv
  <1>2. CASE i \notin DOMAIN rows
    BY <1>1, <1>2, StutterMaps
  <1>3. ASSUME i \in DOMAIN rows PROVE Contract!Next
    <2>1. /\ r \in Row /\ r.status = "pending" /\ r.attempts \in Nat /\ r.attempts < MaxAttempts
          /\ i \in Id
      BY <1>0, <1>1, <1>3, IdsSuffice
      DEF OutboxInv, Base, DispInv, DispTypes, RowInv, Numbered, RowsFit, DueFits, Fits, Row
    <2>2. Closed' = Closed
      BY <1>1 DEF Closed
    <2>3. Contract!Pending(i) /\ Live[i].tries = r.attempts
      BY <1>3, <2>1 DEF Contract!Pending, Live
    <2>4. ASSUME NEW s, rows'[i].status = s, rows'[i].hook = r.hook, rows'[i].attempts = r.attempts + 1
          PROVE  Contract!Record(i, s)
      <3>1. Live' = [Live EXCEPT ![i].status = s, ![i].tries = Live[i].tries + 1]
        BY <1>1, <1>3, <2>4 DEF Live
      <3> QED BY <1>1, <2>2, <2>3, <3>1 DEF Contract!Record, Live, Closed
    <2>5. CASE Delivered
      <3>1. rows'[i] = [r EXCEPT !.status = "delivered", !.attempts = r.attempts + 1]
        BY <1>0, <1>3, <2>5, DeliveredRow DEF OutboxInv
      <3>2. rows'[i].status = "delivered" /\ rows'[i].hook = r.hook /\ rows'[i].attempts = r.attempts + 1
        BY <2>1, <3>1 DEF Row
      <3>3. i \in acked
        BY <1>0, <2>5 DEF OutboxInv, RowInv, Heard, Delivered
      <3>4. Contract!Confirm(i)
        BY <2>4, <3>2, <3>3 DEF Contract!Confirm
      <3> QED BY <2>1, <3>4 DEF Contract!Next
    <2>6. CASE Failed
      <3> DEFINE last == r.attempts + 1 = MaxAttempts
      <3>1. rows'[i] = [r EXCEPT !.status = IF last THEN "failed" ELSE "pending",
                                !.wait = ~last, !.attempts = r.attempts + 1]
        BY <1>0, <1>3, <2>6, FailedRow DEF OutboxInv
      <3>2. /\ rows'[i].status = IF last THEN "failed" ELSE "pending"
            /\ rows'[i].hook = r.hook /\ rows'[i].attempts = r.attempts + 1
        BY <2>1, <3>1 DEF Row
      <3>3. CASE last
        <4>1. Contract!GiveUp(i)
          BY <2>3, <2>4, <3>2, <3>3 DEF Contract!GiveUp, Live
        <4> QED BY <2>1, <4>1 DEF Contract!Next
      <3>4. CASE ~last
        <4>1. Live[i].tries + 1 < MaxAttempts
          BY <2>1, <2>3, <3>4, ParamAssumption
        <4>2. Contract!Retry(i)
          BY <2>4, <3>2, <3>4, <4>1 DEF Contract!Retry, Live
        <4> QED BY <2>1, <4>2 DEF Contract!Next
      <3> QED BY <3>3, <3>4
    <2> QED BY <2>5, <2>6
  <1> QED BY <1>2, <1>3

\* Every step of the outbox is one of the contract, or leaves it as it is.
LEMMA ContractStep ==
    ASSUME OutboxInv, OutboxInv', [Next]_vars PROVE [Contract!Next]_Contract!vars
  <1>0. hook \in [Hook -> HookState] /\ rows \in [DOMAIN rows -> Row]
    BY DEF OutboxInv, Base, DispInv, DispTypes
  <1>1. CASE \E h \in Hook : QueuePing(h)
    BY <1>1, InsertMaps DEF QueuePing
  <1>2. CASE \E e \in Event : \E h \in Hook : Enqueue(e, h)
    BY <1>2, InsertMaps DEF Enqueue
  <1>3. CASE \E h \in Hook : Delete(h)
    BY <1>3, DeleteMaps
  <1>4. CASE \E S \in SUBSET DOMAIN rows : Prune(S)
    BY <1>4, PruneMaps
  <1>5. CASE \E ok, accepted \in BOOLEAN : Post(ok, accepted)
    BY <1>5, PostMaps
  <1>6. CASE Delivered \/ Failed
    BY <1>6, RecordMaps
  <1>7. ASSUME NEW i \in DOMAIN rows, BackoffOver(i) PROVE UNCHANGED Contract!vars
    <2>1. DOMAIN rows' = DOMAIN rows /\ UNCHANGED <<hook, nextId, acked>>
      BY <1>7 DEF BackoffOver
    <2>2. ASSUME NEW j \in DOMAIN rows
          PROVE  /\ rows'[j].hook = rows[j].hook /\ rows'[j].status = rows[j].status
                 /\ rows'[j].attempts = rows[j].attempts
      BY <1>0, <1>7 DEF BackoffOver, Row
    <2> QED BY <2>1, <2>2, StutterMaps
  <1>8. CASE \E h \in Hook : Create(h) \/ Enable(h)
    <2>1. UNCHANGED <<rows, nextId, acked>>
      BY <1>8 DEF Create, Enable
    <2>2. \A g \in Hook : hook'[g].at = "deleted" <=> hook[g].at = "deleted"
      BY <1>0, <1>8 DEF Create, Enable, HookState
    <2> QED BY <2>1, <2>2, StutterMaps
  <1>9. CASE \/ UNCHANGED vars
             \/ \E h \in Hook : Invalidate(h) \/ CheckPing(h)
             \/ \E e \in Event : \/ \E p \in Proc : Publish(p, e)
                                \/ List(e) \/ ListFails(e)
                                \/ \E h \in Hook : EnqueueFails(e, h)
             \/ \E p \in Proc : Expire(p) \/ Crash(p)
             \/ LoadDue \/ BatchDone \/ RecordFails
             \/ \E d \in disp.due : Take(d)
    <2>1. UNCHANGED <<hook, rows, nextId, acked>>
      BY <1>9 DEF Invalidate, CheckPing, Publish, List, ListFails, EnqueueFails, Expire, Crash, LoadDue,
         BatchDone, RecordFails, Take, vars, dbVars
    <2> QED BY <2>1, StutterMaps
  <1> QED BY <1>1, <1>2, <1>3, <1>4, <1>5, <1>6, <1>7, <1>8, <1>9 DEF Next, Dispatch

\* The outbox implements the delivery contract (KeepsContract; "Delivery
\* guarantees"), whatever fails and however calls, batches and deaths of the
\* process interleave: a delivery is marked delivered only if the receiver
\* accepted it, given up only after MaxAttempts recorded attempts, and
\* forgotten while pending only with its webhook.
THEOREM OutboxKeepsContract == Spec => KeepsContract
  <1>1. Init => OutboxInv
    BY InitOutbox
  <1>2. OutboxInv /\ [Next]_vars => OutboxInv'
    BY OutboxStep
  <1>3. Init => Contract!Init
    <2>1. ASSUME Init PROVE Live = [d \in {} |-> FALSE] /\ Closed = {} /\ 1..nextId - 1 = {} /\ acked = {}
      BY <2>1 DEF Init, Live, Closed
    <2> QED BY <2>1 DEF Contract!Init, Live, Closed
  <1>4. OutboxInv /\ OutboxInv' /\ [Next]_vars => [Contract!Next]_Contract!vars
    BY ContractStep
  <1> QED BY <1>1, <1>2, <1>3, <1>4, PTL DEF Spec, KeepsContract, Contract!Spec
===============================================================================
