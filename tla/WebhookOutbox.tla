----------------------------- MODULE WebhookOutbox -----------------------------
(***************************************************************************)
(* The durable webhook outbox: the Enqueuer of each process that publishes *)
(* events and the Dispatcher of the serve process                          *)
(* (internal/webhook/dispatch.go), the tables they share                   *)
(* (internal/db/webhooks.go) and the calls that change a webhook           *)
(* (internal/service/webhooks.go).                                         *)
(*                                                                         *)
(* Every SQL statement or transaction is a step, and so is every request   *)
(* to the receiver; a process may die between any two of them.  Time is    *)
(* abstracted to what it makes possible: a cached subscriber list expires, *)
(* a backoff ends, a finished row becomes old enough to prune.  Every      *)
(* webhook is subscribed to every event.                                   *)
(***************************************************************************)
EXTENDS Naturals, FiniteSets

CONSTANTS
    Hook,         \* webhook ids; AUTOINCREMENT: each is created once at most
    Proc,         \* the running processes: "serve", and perhaps run-rules ("cli")
    Event,        \* events the processes publish
    Ping,         \* the webhook.test event, queued for one webhook on demand
    MaxAttempts,  \* MaxAttempts (12)
    DisableAfter, \* DisableAfter (100)
    BatchSize,    \* batchSize (50)
    MaxUpset      \* bound on enable, delete and test calls ("admin"), deaths of
                  \* a process and failing SQL statements ("trouble"), together

ASSUME ParamAssumption ==
    /\ "serve" \in Proc /\ Proc \subseteq {"serve", "cli"}
    /\ IsFiniteSet(Hook) /\ IsFiniteSet(Event) /\ Ping \notin Event
    /\ MaxAttempts \in Nat \ {0}
    /\ DisableAfter \in Nat \ {0}
    /\ BatchSize \in Nat \ {0}
    /\ MaxUpset \in Nat

VARIABLES
    hook,    \* imap.db webhooks: Hook -> state, active flag, fail_count
    rows,    \* imap.db webhook_deliveries: id -> row
    nextId,  \* the AUTOINCREMENT counter of webhook_deliveries
    enq,     \* each process's Enqueuer: cached list and whether it is fresh
    job,     \* each event's Enqueuer.Handle call
    owed,    \* service calls that changed a webhook and not yet Invalidate'd
    pings,   \* service calls that found a webhook active, not yet queued
    disp,    \* the Dispatcher's locals
    acked,   \* receiver: the ids it has answered with 2xx
    queued,  \* history: <<event, hook>> ever inserted
    known,   \* history: hooks active and announced when an event was listed
    streak,  \* history: requests of a hook that failed since one succeeded
    used     \* how many of each bounded event have happened

dbVars == <<hook, rows, nextId>>
enqVars == <<enq, job, owed, pings>>
histVars == <<queued, known, streak>>
vars == <<hook, rows, nextId, enq, job, owed, pings, disp, acked, queued, known,
          streak, used>>

\* Each event makes one row per webhook at most, each test call one.
Id == 1..(Cardinality(Event) * Cardinality(Hook) + MaxUpset)
HookState == [at : {"none", "here", "deleted"}, active : BOOLEAN, fails : Nat]
Row == [hook : Hook, event : Event \cup {Ping}, wait : BOOLEAN,
        status : {"pending", "delivered", "failed"}, attempts : Nat]
\* A db.Delivery as Due returned it.
Due == [id : Id, hook : Hook, attempts : Nat]

On(h) == hook[h].at = "here" /\ hook[h].active
Active == {h \in Hook : On(h)}
Idle == [pc |-> "idle", due |-> {}, seen |-> {}, off |-> {}, ok |-> FALSE]

\* The delivery in hand: the oldest of the batch.
Current == CHOOSE d \in disp.due : \A c \in disp.due : d.id <= c.id

Init ==
    /\ hook = [h \in Hook |-> [at |-> "none", active |-> FALSE, fails |-> 0]]
    /\ rows = [i \in {} |-> FALSE]
    /\ nextId = 1
    /\ enq = [p \in Proc |-> [list |-> {}, fresh |-> FALSE]]
    /\ job = [e \in Event |-> [pc |-> "none", proc |-> "serve", todo |-> {}]]
    /\ owed = {}
    /\ pings = {}
    /\ disp = Idle
    /\ acked = {}
    /\ queued = {}
    /\ known = [e \in Event |-> {}]
    /\ streak = [h \in Hook |-> 0]
    /\ used = [admin |-> 0, trouble |-> 0]

Spend(what) ==
    /\ used.admin + used.trouble < MaxUpset
    /\ used' = [used EXCEPT ![what] = @ + 1]

Without(f, D) == [i \in DOMAIN f \ D |-> f[i]]

-------------------------------------------------------------------------------
(* Service calls. *)

\* CreateWebhook.
Create(h) ==
    /\ hook[h].at = "none"
    /\ hook' = [hook EXCEPT ![h] = [at |-> "here", active |-> TRUE, fails |-> 0]]
    /\ owed' = owed \cup {h}
    /\ UNCHANGED <<rows, nextId, enq, job, pings, disp, acked, histVars, used>>

\* EnableWebhook.
Enable(h) ==
    /\ hook[h].at = "here"
    /\ Spend("admin")
    /\ hook' = [hook EXCEPT ![h].active = TRUE, ![h].fails = 0]
    /\ owed' = owed \cup {h}
    /\ streak' = [streak EXCEPT ![h] =
                     IF disp.pc = "record" /\ ~disp.ok /\ Current.hook = h THEN 1 ELSE 0]
    /\ UNCHANGED <<rows, nextId, enq, job, pings, disp, acked, queued, known>>

\* DeleteWebhook: its outbox rows go with it (ON DELETE CASCADE).
Delete(h) ==
    /\ hook[h].at = "here"
    /\ Spend("admin")
    /\ hook' = [hook EXCEPT ![h].at = "deleted", ![h].active = FALSE]
    /\ rows' = Without(rows, {i \in DOMAIN rows : rows[i].hook = h})
    /\ owed' = owed \cup {h}
    /\ UNCHANGED <<nextId, enq, job, pings, disp, acked, histVars>>

\* (Faulty variant: the cached list is not dropped.)
InvalidateNothing(h) ==
    /\ h \in owed
    /\ owed' = owed \ {h}
    /\ UNCHANGED <<dbVars, enq, job, pings, disp, acked, histVars, used>>

\* invalidateWebhooks, before the call returns.  It reaches the Enqueuer of
\* the serve process only.
Invalidate(h) ==
    /\ h \in owed
    /\ owed' = owed \ {h}
    /\ enq' = [enq EXCEPT !["serve"].fresh = FALSE]
    /\ UNCHANGED <<dbVars, job, pings, disp, acked, histVars, used>>

\* TestWebhook: the check that the webhook is active, then the insert.
CheckPing(h) ==
    /\ On(h)
    /\ Spend("admin")
    /\ pings' = pings \cup {h}
    /\ UNCHANGED <<dbVars, enq, job, owed, disp, acked, histVars>>

\* (Faulty variant: a status the dispatcher does not look for.)
InsertRowQueued(h, e) ==
    IF hook[h].at # "here" THEN UNCHANGED <<rows, nextId, queued>>
    ELSE /\ rows' = [i \in DOMAIN rows \cup {nextId} |->
                        IF i # nextId THEN rows[i]
                        ELSE [hook |-> h, event |-> e, wait |-> FALSE,
                              status |-> "queued", attempts |-> 0]]
         /\ nextId' = nextId + 1
         /\ queued' = queued \cup {<<e, h>>}

\* One outbox row.  A webhook that is gone fails the foreign key.
InsertRow(h, e) ==
    IF hook[h].at # "here" THEN UNCHANGED <<rows, nextId, queued>>
    ELSE /\ rows' = [i \in DOMAIN rows \cup {nextId} |->
                        IF i # nextId THEN rows[i]
                        ELSE [hook |-> h, event |-> e, wait |-> FALSE,
                              status |-> "pending", attempts |-> 0]]
         /\ nextId' = nextId + 1
         /\ queued' = queued \cup {<<e, h>>}

QueuePing(h) ==
    /\ h \in pings
    /\ pings' = pings \ {h}
    /\ InsertRow(h, Ping)
    /\ UNCHANGED <<hook, enq, job, owed, disp, acked, known, streak, used>>

-------------------------------------------------------------------------------
(* Enqueuer: Handle of one event. *)

\* The serve process publishes from goroutines of their own; run-rules calls
\* Publish, so its handlers run one after the other.
Publish(p, e) ==
    /\ job[e].pc = "none"
    /\ p = "cli" => \A f \in Event :
                      job[f].proc = p => job[f].pc = "run" /\ job[f].todo = {}
    /\ job' = [job EXCEPT ![e] = [pc |-> "list", proc |-> p, todo |-> {}]]
    /\ UNCHANGED <<dbVars, enq, owed, pings, disp, acked, histVars, used>>

\* subscribers(): the list cached for subscriberMaxAge, else the active
\* webhooks, read and cached under q.mu.
List(e) ==
    /\ job[e].pc = "list"
    /\ LET p == job[e].proc
           list == IF enq[p].fresh THEN enq[p].list ELSE Active
       IN /\ enq' = [enq EXCEPT ![p] = [list |-> list, fresh |-> TRUE]]
          /\ job' = [job EXCEPT ![e].pc = "run", ![e].todo = list]
          /\ known' = [known EXCEPT ![e] = IF p = "serve" THEN Active \ owed ELSE {}]
    /\ UNCHANGED <<dbVars, owed, pings, disp, acked, queued, streak, used>>

\* Active fails: the old list is used.
ListFails(e) ==
    /\ job[e].pc = "list"
    /\ ~enq[job[e].proc].fresh
    /\ Spend("trouble")
    /\ job' = [job EXCEPT ![e].pc = "run", ![e].todo = enq[job[e].proc].list]
    /\ UNCHANGED <<dbVars, enq, owed, pings, disp, acked, histVars>>

Enqueue(e, h) ==
    /\ h \in job[e].todo
    /\ job' = [job EXCEPT ![e].todo = @ \ {h}]
    /\ InsertRow(h, e)
    /\ UNCHANGED <<hook, enq, owed, pings, disp, acked, known, streak, used>>

\* The insert fails: the event is dropped for this webhook.
EnqueueFails(e, h) ==
    /\ h \in job[e].todo
    /\ Spend("trouble")
    /\ job' = [job EXCEPT ![e].todo = @ \ {h}]
    /\ known' = [known EXCEPT ![e] = @ \ {h}]
    /\ UNCHANGED <<dbVars, enq, owed, pings, disp, acked, queued, streak>>

\* subscriberMaxAge has passed.
Expire(p) ==
    /\ enq[p].fresh
    /\ enq' = [enq EXCEPT ![p].fresh = FALSE]
    /\ UNCHANGED <<dbVars, job, owed, pings, disp, acked, histVars, used>>

-------------------------------------------------------------------------------
(* Dispatcher, serve only: Run calls RunOnce every pollInterval. *)

\* (Faulty variant: a delivery is tried once.)
EligibleOnce(i) ==
    /\ rows[i].status = "pending"
    /\ rows[i].attempts = 0
    /\ On(rows[i].hook)

\* The WHERE clause of repo.Due.
Eligible(i) ==
    /\ rows[i].status = "pending"
    /\ ~rows[i].wait
    /\ On(rows[i].hook)

DueRows ==
    {[id |-> i, hook |-> rows[i].hook, attempts |-> rows[i].attempts] :
        i \in {j \in DOMAIN rows : Eligible(j)}}

Oldest(S, n) == {d \in S : Cardinality({c \in S : c.id < d.id}) < n}

\* repo.Due.
LoadDue ==
    /\ disp.pc = "idle"
    /\ DueRows # {}
    /\ disp' = [Idle EXCEPT !.pc = "next", !.due = Oldest(DueRows, BatchSize)]
    /\ UNCHANGED <<dbVars, enqVars, acked, histVars, used>>

\* The next delivery of the batch.  Its webhook is read once per batch: seen
\* holds those read as active, off those found inactive or disabled since.
Take(d) ==
    /\ disp.pc = "next"
    /\ \A c \in disp.due : d.id <= c.id
    /\ LET read == d.hook \notin disp.seen \cup disp.off
           gone == read /\ hook[d.hook].at # "here"
           off == IF read /\ ~gone /\ ~hook[d.hook].active
                  THEN disp.off \cup {d.hook} ELSE disp.off
           skip == gone \/ d.hook \in off
       IN disp' = [disp EXCEPT
             !.pc = IF skip THEN "next" ELSE "post",
             !.due = IF skip THEN @ \ {d} ELSE @,
             !.off = off,
             !.seen = IF skip THEN @ ELSE @ \cup {d.hook}]
    /\ UNCHANGED <<dbVars, enqVars, acked, histVars, used>>

BatchDone ==
    /\ disp.pc = "next"
    /\ disp.due = {}
    /\ disp' = Idle
    /\ UNCHANGED <<dbVars, enqVars, acked, histVars, used>>

\* post.  The receiver may accept the request and the answer be lost.
Post(ok, accepted) ==
    /\ disp.pc = "post"
    /\ ok => accepted
    /\ disp' = [disp EXCEPT !.pc = "record", !.ok = ok]
    /\ acked' = IF accepted THEN acked \cup {Current.id} ELSE acked
    /\ streak' = [streak EXCEPT ![Current.hook] = IF ok THEN 0 ELSE @ + 1]
    /\ UNCHANGED <<dbVars, enqVars, queued, known, used>>

\* (Faulty variant: the failure count of the webhook is not reset.)
DeliveredKeepCount ==
    /\ disp.pc = "record"
    /\ disp.ok
    /\ rows' = [i \in DOMAIN rows |->
                  IF i = Current.id
                  THEN [rows[i] EXCEPT !.status = "delivered", !.attempts = @ + 1]
                  ELSE rows[i]]
    /\ disp' = [disp EXCEPT !.pc = "next", !.due = @ \ {Current}]
    /\ UNCHANGED <<hook, nextId, enqVars, acked, histVars, used>>

\* repo.Delivered, one transaction; deleted rows are not found.
Delivered ==
    /\ disp.pc = "record"
    /\ disp.ok
    /\ rows' = [i \in DOMAIN rows |->
                  IF i = Current.id
                  THEN [rows[i] EXCEPT !.status = "delivered", !.attempts = @ + 1]
                  ELSE rows[i]]
    /\ hook' = [hook EXCEPT ![Current.hook].fails =
                   IF hook[Current.hook].at = "here" THEN 0 ELSE @]
    /\ disp' = [disp EXCEPT !.pc = "next", !.due = @ \ {Current}]
    /\ UNCHANGED <<nextId, enqVars, acked, histVars, used>>

\* (Faulty variant: an attempt too few before giving up.)
GivesUpEarly(d) == d.attempts + 2 >= MaxAttempts

\* next is the zero time: no attempt is left.
GivesUp(d) == d.attempts + 1 >= MaxAttempts

\* (Faulty variant: the batch goes on with a webhook it has disabled.)
OffIgnored(d, disabled) == disp.off

\* The webhooks this batch will not try again: w.Active = false.
OffAfter(d, disabled) == IF disabled THEN disp.off \cup {d.hook} ELSE disp.off

\* repo.Failed, one transaction: retry after a backoff or give up, count the
\* failure, disable the webhook.  Without the webhook it rolls back.
Failed ==
    /\ disp.pc = "record"
    /\ ~disp.ok
    /\ LET d == Current
           fails == hook[d.hook].fails + 1
           disabled == hook[d.hook].at = "here" /\ fails >= DisableAfter
       IN /\ IF hook[d.hook].at # "here" THEN UNCHANGED <<rows, hook>>
             ELSE /\ rows' = [i \in DOMAIN rows |->
                        IF i # d.id THEN rows[i]
                        ELSE [rows[i] EXCEPT
                                !.status = IF GivesUp(d) THEN "failed" ELSE @,
                                !.wait = ~GivesUp(d),
                                !.attempts = @ + 1]]
                  /\ hook' = [hook EXCEPT ![d.hook].fails = fails,
                                          ![d.hook].active = @ /\ ~disabled]
          /\ disp' = [disp EXCEPT !.pc = "next", !.due = @ \ {d},
                         !.off = OffAfter(d, disabled)]
    /\ UNCHANGED <<nextId, enqVars, acked, histVars, used>>

\* The transaction fails and is only logged.
RecordFails ==
    /\ disp.pc = "record"
    /\ Spend("trouble")
    /\ disp' = [disp EXCEPT !.pc = "next", !.due = @ \ {Current}]
    /\ UNCHANGED <<dbVars, enqVars, acked, histVars>>

\* The time next_attempt is reached.
BackoffOver(i) ==
    /\ rows[i].status = "pending"
    /\ rows[i].wait
    /\ rows' = [rows EXCEPT ![i].wait = FALSE]
    /\ UNCHANGED <<hook, nextId, enqVars, disp, acked, histVars, used>>

\* Only finished rows are ever old enough: done_at is set when they finish.
Prunable(i) == rows[i].status \in {"delivered", "failed"}

\* repo.Prune, between two batches.
Prune(S) ==
    /\ disp.pc = "idle"
    /\ S # {}
    /\ \A i \in S : Prunable(i)
    /\ rows' = Without(rows, S)
    /\ UNCHANGED <<hook, nextId, enqVars, disp, acked, histVars, used>>

-------------------------------------------------------------------------------
\* The process dies, with its calls and handlers, and starts again.
Crash(p) ==
    /\ Spend("trouble")
    /\ enq' = [enq EXCEPT ![p] = [list |-> {}, fresh |-> FALSE]]
    /\ job' = [e \in Event |-> IF job[e].pc # "none" /\ job[e].proc = p
                               THEN [job[e] EXCEPT !.pc = "run", !.todo = {}] ELSE job[e]]
    /\ known' = [e \in Event |-> IF job'[e] # job[e] THEN {} ELSE known[e]]
    /\ IF p = "serve" THEN owed' = {} /\ pings' = {} /\ disp' = Idle
       ELSE UNCHANGED <<owed, pings, disp>>
    /\ UNCHANGED <<dbVars, acked, queued, streak>>

Dispatch ==
    \/ LoadDue
    \/ \E d \in disp.due : Take(d)
    \/ BatchDone
    \/ \E ok, accepted \in BOOLEAN : Post(ok, accepted)
    \/ Delivered
    \/ Failed

Next ==
    \/ \E h \in Hook : \/ Create(h) \/ Enable(h) \/ Delete(h) \/ Invalidate(h)
                       \/ CheckPing(h) \/ QueuePing(h)
    \/ \E e \in Event : \/ \E p \in Proc : Publish(p, e)
                        \/ List(e) \/ ListFails(e)
                        \/ \E h \in Hook : Enqueue(e, h) \/ EnqueueFails(e, h)
    \/ \E p \in Proc : Expire(p) \/ Crash(p)
    \/ Dispatch
    \/ RecordFails
    \/ \E i \in DOMAIN rows : BackoffOver(i)
    \/ \E S \in SUBSET DOMAIN rows : Prune(S)

Spec == Init /\ [][Next]_vars

\* The dispatcher polls for ever, a request times out, time passes.
FairSpec ==
    /\ Spec
    /\ WF_vars(Dispatch)
    /\ \A i \in Id : WF_vars(i \in DOMAIN rows /\ BackoffOver(i))
-------------------------------------------------------------------------------
(* Properties. *)

\* The type invariant: the tables, the Enqueuers, the Dispatcher's locals.
TypeOK ==
    /\ hook \in [Hook -> HookState]
    /\ DOMAIN rows \subseteq Id /\ rows \in [DOMAIN rows -> Row]
    /\ nextId \in Nat \ {0}
    /\ enq \in [Proc -> [list : SUBSET Hook, fresh : BOOLEAN]]
    /\ job \in [Event -> [pc : {"none", "list", "run"}, proc : Proc, todo : SUBSET Hook]]
    /\ owed \subseteq Hook /\ pings \subseteq Hook
    /\ disp.pc \in {"idle", "next", "post", "record"}
    /\ disp.due \subseteq Due
    /\ disp.seen \subseteq Hook /\ disp.off \subseteq Hook /\ disp.ok \in BOOLEAN
    /\ acked \subseteq Id
    /\ streak \in [Hook -> Nat]
    /\ used \in [{"admin", "trouble"} -> Nat]

\* An event of the serve process is queued for every webhook that was active,
\* and whose registration or enabling had returned, when the Enqueuer listed
\* the subscribers: the cached list never hides a webhook from an event
\* (Enqueuer.subscribers and Invalidate).
EventReachesSubscribers ==
    \A e \in Event :
        job[e].pc = "run" /\ job[e].todo = {} =>
            \A h \in known[e] : hook[h].at = "here" => <<e, h>> \in queued

\* The dispatcher never sends to a webhook it has disabled, even with more
\* deliveries of it in the batch in hand (RunOnce, "disabled by an earlier
\* failure in this batch").
PostsOnlyToActive ==
    disp.pc = "post" => On(Current.hook) \/ hook[Current.hook].at = "deleted"

\* A webhook is disabled only by DisableAfter requests in a row that failed,
\* over all its deliveries (webhooks.fail_count), unless a success went
\* unrecorded.
DisabledByStreak ==
    \A h \in Hook :
        hook[h].at = "here" /\ ~hook[h].active /\ used.trouble = 0 =>
            streak[h] >= DisableAfter

\* Every row is delivered or given up in the end, unless its webhook is
\* disabled or deleted.
Settles ==
    \A i \in Id :
        (i \in DOMAIN rows /\ rows[i].status = "pending") ~>
            (i \notin DOMAIN rows \/ rows[i].status # "pending" \/ ~On(rows[i].hook))

\* The outbox keeps the delivery contract: a row is a delivery on record, a
\* row's id is spent for ever, and a deleted webhook is closed.
Contract == INSTANCE DeliveryContract WITH
    Delivery <- Id,
    Limit <- MaxAttempts,
    live <- [i \in DOMAIN rows |-> [hook |-> rows[i].hook,
                                    status |-> rows[i].status,
                                    tries |-> rows[i].attempts]],
    spent <- 1..nextId - 1,
    accepted <- acked,
    closed <- {h \in Hook : hook[h].at = "deleted"}

\* The detailed specification implements the contract: at-least-once, never
\* given up early, never lost while its webhook exists.
KeepsContract == Contract!Spec
===============================================================================
