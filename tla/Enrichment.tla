------------------------------ MODULE Enrichment ------------------------------
(***************************************************************************)
(* The enrichment queue and the pipeline that works it off:                *)
(* internal/enrichment/pipeline.go, with the insert and delete statements  *)
(* of internal/db/cache.go that fill and empty the queue.                  *)
(*                                                                         *)
(* The loop (Run, runOnce, process, processGroup) is one goroutine; each   *)
(* item in hand has a goroutine of its own (handle).  Every SQL statement, *)
(* every provider call and every use of p.mu is a step, and the syncer or  *)
(* a sweep may insert or delete messages between any two of them.          *)
(*                                                                         *)
(* Data: a message is its slot (account, folder, UID) and its Message-ID;  *)
(* an embedding is whether it is stored; the backoff is whether it is      *)
(* still running.  Whether the gates and the rate limiter let backfill run *)
(* is a choice of the environment.  The two provider caps only restrict    *)
(* which calls overlap, and are left out.                                  *)
(***************************************************************************)
EXTENDS Naturals, FiniteSets

CONSTANTS
    Slot,        \* cached copies: (account, folder, UID)
    Mail,        \* Message-IDs
    NoId,        \* a message without Message-ID
    BatchSize,   \* batch_size
    MaxAttempts, \* max_attempts
    Limits,      \* limits of a manual trigger
    MaxInsert,   \* bound on inserted messages
    MaxDelete,   \* bound on deleted messages
    MaxTrigger,  \* bound on manual triggers
    MaxCrash,    \* bound on deaths of the process
    MaxFault,    \* bound on failing SQL statements
    MaxUpset     \* bound on all of these four together

ASSUME ParamAssumption ==
    /\ NoId \notin Mail
    /\ BatchSize \in Nat \ {0}
    /\ MaxAttempts \in Nat \ {0}
    /\ Limits \subseteq Nat \ {0}
    /\ MaxInsert \in Nat /\ MaxDelete \in Nat /\ MaxTrigger \in Nat
    /\ MaxCrash \in Nat /\ MaxFault \in Nat /\ MaxUpset \in Nat

VARIABLES
    msgs,    \* cache.db messages: id -> slot, Message-ID, enrichment_status
    queue,   \* cache.db enrichment_queue: id of its message -> row
    vec,     \* cache.db message_vectors: the ids with an embedding
    nextId,  \* the AUTOINCREMENT counter of messages
    loop,    \* the locals of Run, runOnce, process and processGroup
    hd,      \* the handle goroutines that are running
    backoff, \* is backoffUntil in the future?
    trigger, \* the trigger channel (capacity 1): a limit, or 0 when empty
    bad,     \* history: failed tries of each message
    used     \* how many of each bounded event have happened

dbVars == <<msgs, queue, vec, nextId>>
vars == <<msgs, queue, vec, nextId, loop, hd, backoff, trigger, bad, used>>

Id == 1..MaxInsert
Lane == {"new", "backfill"}
Message == [slot : Slot, mail : Mail \cup {NoId},
            status : {"pending", "duplicate", "done", "error"}]
QueueRow == [status : {"pending", "processing", "done", "error"},
             lane : Lane, tries : Nat]
\* queueItem: a row as selectLane read it.
Item == [id : Id, lane : Lane, tries : Nat]
Handler == [item : Item, pc : {"call", "store", "ok", "queue", "message",
                               "fail", "error", "backoff"}, transient : BOOLEAN]

Empty == [i \in {} |-> FALSE]
Without(f, D) == [i \in DOMAIN f \ D |-> f[i]]
With(f, i, x) == [j \in DOMAIN f \cup {i} |-> IF j = i THEN x ELSE f[j]]

\* A loop with no batch in hand; "down" is a process that is not running.
At(pc) == [pc |-> pc, size |-> 0, forced |-> FALSE, items |-> {}, lane |-> "new", group |-> {}]
Up == loop.pc # "down"

Init ==
    /\ msgs = Empty
    /\ queue = Empty
    /\ vec = {}
    /\ nextId = 1
    /\ loop = At("down")
    /\ hd = {}
    /\ backoff = FALSE
    /\ trigger = 0
    /\ bad = [i \in Id |-> 0]
    /\ used = [delete |-> 0, trigger |-> 0, crash |-> 0, fault |-> 0]

Spend(what, bound) ==
    /\ used[what] < bound
    /\ used.delete + used.trigger + used.crash + used.fault < MaxUpset
    /\ used' = [used EXCEPT ![what] = @ + 1]

-------------------------------------------------------------------------------
(* The syncer and the sweeps. *)

\* (Faulty variant: a copy counts as queued while it waits only.)
QueuedElsewherePending(s, m) ==
    m # NoId /\ \E i \in DOMAIN queue :
        msgs[i].mail = m /\ msgs[i].slot # s /\ queue[i].status = "pending"

\* Is another cached copy of the mail on the queue, in whatever status?
QueuedElsewhere(s, m) ==
    m # NoId /\ \E i \in DOMAIN queue : msgs[i].mail = m /\ msgs[i].slot # s

\* MessageRepo.Insert, one transaction: replaces the slot's row, a copy of the
\* same mail (two workers may fetch it).
Insert(s, m, lane) ==
    /\ Up
    /\ nextId <= MaxInsert
    /\ \A i \in DOMAIN msgs : msgs[i].slot = s => msgs[i].mail = m
    /\ LET old == {i \in DOMAIN msgs : msgs[i].slot = s}
           dup == QueuedElsewhere(s, m)
           kept == Without(queue, old)
       IN /\ msgs' = With(Without(msgs, old), nextId,
                [slot |-> s, mail |-> m, status |-> IF dup THEN "duplicate" ELSE "pending"])
          /\ queue' = IF dup THEN kept
                ELSE With(kept, nextId, [status |-> "pending", lane |-> lane, tries |-> 0])
          /\ vec' = vec \ old
    /\ nextId' = nextId + 1
    /\ UNCHANGED <<loop, hd, backoff, trigger, bad, used>>

\* DeleteUIDs, DeleteFolder or Sweep: queue row and vector cascade.
Delete(i) ==
    /\ Up
    /\ Spend("delete", MaxDelete)
    /\ msgs' = Without(msgs, {i})
    /\ queue' = Without(queue, {i})
    /\ vec' = vec \ {i}
    /\ UNCHANGED <<nextId, loop, hd, backoff, trigger, bad>>

-------------------------------------------------------------------------------
(* The loop. *)

\* (Faulty variant: the rows a dead process left are not requeued.)
RequeuedNone == queue

\* The rows a crash left "processing", back to the queue.
Requeued ==
    [i \in DOMAIN queue |-> IF queue[i].status = "processing"
                            THEN [queue[i] EXCEPT !.status = "pending"] ELSE queue[i]]

\* Run's first statement.
Start ==
    /\ loop.pc = "down"
    /\ loop' = At("idle")
    /\ queue' = Requeued
    /\ UNCHANGED <<msgs, vec, nextId, hd, backoff, trigger, bad, used>>

\* The statement fails and is only logged.
StartFails ==
    /\ loop.pc = "down"
    /\ Spend("fault", MaxFault)
    /\ loop' = At("idle")
    /\ UNCHANGED <<dbVars, hd, backoff, trigger, bad>>

\* Trigger; a second one while the channel is full is refused.
Trigger(limit) ==
    /\ Up
    /\ trigger = 0
    /\ Spend("trigger", MaxTrigger)
    /\ trigger' = limit
    /\ UNCHANGED <<dbVars, loop, hd, backoff, bad>>

\* A trigger taken while backing off does nothing.
TriggerLost ==
    /\ loop.pc = "idle"
    /\ trigger # 0 /\ backoff
    /\ trigger' = 0
    /\ UNCHANGED <<dbVars, loop, hd, backoff, bad, used>>

Waiting(lane) == {i \in DOMAIN queue : queue[i].status = "pending" /\ queue[i].lane = lane}
Oldest(S, n) == {i \in S : Cardinality({j \in S : j < i}) < n}

\* selectLane.
Selected(lane, n) ==
    {[id |-> i, lane |-> lane, tries |-> queue[i].tries] : i \in Oldest(Waiting(lane), n)}

\* runOnce, on the ticker or for a trigger: the new lane first.
SelectNew(forced) ==
    /\ loop.pc = "idle"
    /\ ~backoff
    /\ forced => trigger # 0
    /\ LET size == IF forced THEN trigger ELSE BatchSize
       IN loop' = [At("room") EXCEPT !.size = size, !.forced = forced,
                                     !.items = Selected("new", size)]
    /\ trigger' = IF forced THEN 0 ELSE trigger
    /\ UNCHANGED <<dbVars, hd, backoff, bad, used>>

Room == loop.size - Cardinality(loop.items)

\* Backfill gets the room that is left, or the n that the gates and the rate
\* limiter allow; a trigger passes both.
SelectBackfill(n) ==
    /\ loop.pc = "room"
    /\ n <= Room
    /\ loop.forced => n = Room
    /\ LET items == loop.items \cup Selected("backfill", n)
       IN loop' = IF items = {} THEN At("idle")
                  ELSE [loop EXCEPT !.pc = "mark", !.items = items]
    /\ UNCHANGED <<dbVars, hd, backoff, trigger, bad, used>>

\* One of the two queries fails: the batch is given up.
SelectFails ==
    /\ \/ loop.pc = "idle" /\ ~backoff
       \/ loop.pc = "room" /\ Room > 0
    /\ Spend("fault", MaxFault)
    /\ loop' = At("idle")
    /\ UNCHANGED <<dbVars, hd, backoff, trigger, bad>>

Group == {it \in loop.items : it.lane = loop.lane}

\* processGroup: mark the next item and start its goroutine.
Mark(it) ==
    /\ loop.pc = "mark"
    /\ it \in Group /\ \A o \in Group : it.id <= o.id
    /\ queue' = IF it.id \in DOMAIN queue
                THEN [queue EXCEPT ![it.id].status = "processing", ![it.id].tries = @ + 1]
                ELSE queue
    /\ loop' = [loop EXCEPT !.items = @ \ {it}, !.group = @ \cup {it}]
    /\ hd' = hd \cup {[item |-> it, pc |-> "call", transient |-> FALSE]}
    /\ UNCHANGED <<msgs, vec, nextId, backoff, trigger, bad, used>>

\* After a group: the backfill group, or the end of the batch.
NextGroup(items) ==
    IF loop.lane = "new" THEN [loop EXCEPT !.lane = "backfill", !.items = items, !.group = {}]
    ELSE At("idle")

\* The statement fails: the rest of the group is dropped, and the goroutines
\* already started are not waited for.
MarkFails ==
    /\ loop.pc = "mark"
    /\ Group # {}
    /\ Spend("fault", MaxFault)
    /\ loop' = NextGroup(loop.items \ Group)
    /\ UNCHANGED <<dbVars, hd, backoff, trigger, bad>>

\* wg.Wait: the goroutines of this group are done.
Waited == \A h \in hd : h.item \notin loop.group

GroupDone ==
    /\ loop.pc = "mark"
    /\ Group = {}
    /\ Waited
    /\ loop' = NextGroup(loop.items)
    /\ UNCHANGED <<dbVars, hd, backoff, trigger, bad, used>>

-------------------------------------------------------------------------------
(* handle, for one item. *)

Go(h, pc) == hd' = (hd \ {h}) \cup {[h EXCEPT !.pc = pc]}
Exit(h) == hd' = hd \ {h}
Lost(h, transient) ==
    /\ hd' = (hd \ {h}) \cup {[h EXCEPT !.pc = "fail", !.transient = transient]}
    /\ bad' = [bad EXCEPT ![h.item.id] = @ + 1]

\* enrich: embed and classify; a classifier's bad answer is no failure.
Enriched(h) ==
    /\ h.pc = "call"
    /\ Go(h, "store")
    /\ UNCHANGED <<dbVars, loop, backoff, trigger, bad, used>>

EnrichFails(h, transient) ==
    /\ h.pc = "call"
    /\ Lost(h, transient)
    /\ UNCHANGED <<dbVars, loop, backoff, trigger, used>>

\* applyResult.  A message that is gone fails the foreign key.
Store(h) ==
    /\ h.pc = "store"
    /\ h.item.id \in DOMAIN msgs
    /\ vec' = vec \cup {h.item.id}
    /\ Go(h, "ok")
    /\ UNCHANGED <<msgs, queue, nextId, loop, backoff, trigger, bad, used>>

StoreFails(h) ==
    /\ h.pc = "store"
    /\ IF h.item.id \in DOMAIN msgs THEN Spend("fault", MaxFault) ELSE UNCHANGED used
    /\ Lost(h, FALSE)
    /\ UNCHANGED <<dbVars, loop, backoff, trigger>>

\* succeed(), under p.mu.
Succeed(h) ==
    /\ h.pc = "ok"
    /\ backoff' = FALSE
    /\ Go(h, "queue")
    /\ UNCHANGED <<dbVars, loop, trigger, bad, used>>

SetQueue(i, s) ==
    queue' = IF i \in DOMAIN queue THEN [queue EXCEPT ![i].status = s] ELSE queue
SetMessage(i, s) ==
    msgs' = IF i \in DOMAIN msgs THEN [msgs EXCEPT ![i].status = s] ELSE msgs

\* The two status statements of a success, one after the other.
QueueDone(h) ==
    /\ h.pc = "queue"
    /\ SetQueue(h.item.id, "done")
    /\ Go(h, "message")
    /\ UNCHANGED <<msgs, vec, nextId, loop, backoff, trigger, bad, used>>

MessageDone(h) ==
    /\ h.pc = "message"
    /\ SetMessage(h.item.id, "done")
    /\ Exit(h)
    /\ UNCHANGED <<queue, vec, nextId, loop, backoff, trigger, bad, used>>

\* (Faulty variant: one failure short of the limit.)
GivesUpEarly(it) == it.tries + 2 >= MaxAttempts

GivesUp(it) == it.tries + 1 >= MaxAttempts

\* fail: back to the queue, or give up.
Fail(h) ==
    /\ h.pc = "fail"
    /\ SetQueue(h.item.id, IF GivesUp(h.item) THEN "error" ELSE "pending")
    /\ Go(h, IF GivesUp(h.item) THEN "error" ELSE "backoff")
    /\ UNCHANGED <<msgs, vec, nextId, loop, backoff, trigger, bad, used>>

\* (Faulty variant: a status the sweep does not know.)
MessageFailed(h) ==
    /\ h.pc = "error"
    /\ SetMessage(h.item.id, "failed")
    /\ Go(h, "backoff")
    /\ UNCHANGED <<queue, vec, nextId, loop, backoff, trigger, bad, used>>

MessageError(h) ==
    /\ h.pc = "error"
    /\ SetMessage(h.item.id, "error")
    /\ Go(h, "backoff")
    /\ UNCHANGED <<queue, vec, nextId, loop, backoff, trigger, bad, used>>

\* A transient failure extends the backoff, under p.mu.
BackOff(h) ==
    /\ h.pc = "backoff"
    /\ backoff' = (backoff \/ h.transient)
    /\ Exit(h)
    /\ UNCHANGED <<dbVars, loop, trigger, bad, used>>

\* setStatus fails: logged, and the goroutine goes on.
StatusFails(h) ==
    /\ h.pc \in {"queue", "message", "fail", "error"}
    /\ Spend("fault", MaxFault)
    /\ IF h.pc = "message" THEN Exit(h)
       ELSE Go(h, IF h.pc = "queue" THEN "message"
                  ELSE IF h.pc = "fail" /\ GivesUp(h.item) THEN "error" ELSE "backoff")
    /\ UNCHANGED <<dbVars, loop, backoff, trigger, bad>>

-------------------------------------------------------------------------------
\* backoffUntil is reached.
BackoffOver ==
    /\ backoff
    /\ backoff' = FALSE
    /\ UNCHANGED <<dbVars, loop, hd, trigger, bad, used>>

\* The process dies; only the database is left.
Crash ==
    /\ Up
    /\ Spend("crash", MaxCrash)
    /\ loop' = At("down")
    /\ hd' = {}
    /\ backoff' = FALSE
    /\ trigger' = 0
    /\ UNCHANGED <<dbVars, bad>>

Handle(h) ==
    \/ Enriched(h) \/ \E transient \in BOOLEAN : EnrichFails(h, transient)
    \/ Store(h) \/ StoreFails(h) \/ Succeed(h) \/ QueueDone(h) \/ MessageDone(h)
    \/ Fail(h) \/ MessageError(h) \/ BackOff(h)

\* The gates and the rate limiter let backfill through.
Open == \E n \in 1..BatchSize : SelectBackfill(n)

Loop ==
    \/ Start \/ TriggerLost
    \/ \E forced \in BOOLEAN : SelectNew(forced)
    \/ \E n \in 0..loop.size : SelectBackfill(n)
    \/ \E it \in loop.items : Mark(it)
    \/ GroupDone

Next ==
    \/ \E s \in Slot, m \in Mail \cup {NoId}, lane \in Lane : Insert(s, m, lane)
    \/ \E i \in DOMAIN msgs : Delete(i)
    \/ Loop
    \/ StartFails \/ SelectFails \/ MarkFails
    \/ \E limit \in Limits : Trigger(limit)
    \/ \E h \in hd : Handle(h) \/ StatusFails(h)
    \/ BackoffOver
    \/ Crash

Spec == Init /\ [][Next]_vars

\* Run ticks for ever, a provider call times out, goroutines are scheduled,
\* the backoff ends.  Nothing makes a gate open.
FairSpec ==
    /\ Spec
    /\ WF_vars(Loop)
    /\ WF_vars(BackoffOver)
    /\ \A i \in Id : WF_vars(\E h \in hd : h.item.id = i /\ Handle(h))

-------------------------------------------------------------------------------
(* Properties. *)

\* The type invariant: the three tables, the loop's locals, the goroutines.
TypeOK ==
    /\ DOMAIN msgs \subseteq Id /\ msgs \in [DOMAIN msgs -> Message]
    /\ DOMAIN queue \subseteq DOMAIN msgs /\ queue \in [DOMAIN queue -> QueueRow]
    /\ vec \subseteq DOMAIN msgs
    /\ nextId \in Nat \ {0}
    /\ loop \in [pc : {"down", "idle", "room", "mark"}, size : Nat, forced : BOOLEAN,
                 items : SUBSET Item, lane : Lane, group : SUBSET Item]
    /\ hd \subseteq Handler
    /\ backoff \in BOOLEAN
    /\ trigger \in Limits \cup {0}
    /\ bad \in [Id -> Nat]
    /\ used \in [{"delete", "trigger", "crash", "fault"} -> Nat]

\* However copies come, go and are fetched again, one mail is on the queue
\* once, so it is enriched once (MessageRepo.Insert).
MailQueuedOnce ==
    \A i, j \in DOMAIN queue :
        msgs[i].mail = msgs[j].mail /\ msgs[i].mail # NoId => i = j

\* No backfill item is worked on while a new-mail item is (process), unless
\* marking an item failed: then the goroutines started are not waited for.
NewFirst == used.fault = 0 => \A g, h \in hd : g.item.lane = h.item.lane

\* When no goroutine has the message in hand, the queue and the message agree
\* on whether it is done or given up (handle, fail).
StatusAgrees ==
    \A i \in DOMAIN queue :
        (\A h \in hd : h.item.id # i) =>
            \A s \in {"done", "error"} : queue[i].status = s <=> msgs[i].status = s

\* A message that says done has its embedding, whatever died, failed or was
\* deleted on the way (handle, applyResult).
DoneIsEmbedded == \A i \in DOMAIN msgs : msgs[i].status = "done" => i \in vec

\* A message is given up only after max_attempts tries that failed or that a
\* crash cut short (fail).
GivenUpAfterFailures ==
    \A i \in DOMAIN queue :
        queue[i].status = "error" => bad[i] + used.crash >= MaxAttempts

\* The queue is fair to mail: no mail twice, new mail before old.
QueueIsFair == MailQueuedOnce /\ NewFirst

\* What a message says of itself is true; and the queue says the same, unless
\* a crash or a failing statement came between the two statements.
Outcomes ==
    /\ used.crash + used.fault = 0 => StatusAgrees
    /\ DoneIsEmbedded /\ GivenUpAfterFailures

Settled(i) == i \notin DOMAIN queue \/ queue[i].status \in {"done", "error"}

\* Every queued message of the lane is enriched or given up in the end,
\* whatever the process was doing when it died.  A status statement that
\* failed may leave a row in processing until the next start.
LaneSettles(lane) ==
    \A i \in Id : (i \in DOMAIN queue /\ queue[i].lane = lane)
                    ~> (Settled(i) \/ used.fault > 0)

\* New mail settles even if the gates never let backfill run again; backfill
\* does, if the gates and the rate limiter let it run again and again.
Settles == LaneSettles("new") /\ (SF_vars(Open) => LaneSettles("backfill"))
===============================================================================
