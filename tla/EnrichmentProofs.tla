--------------------------- MODULE EnrichmentProofs ---------------------------
(***************************************************************************)
(* Theorems about Enrichment, for every value of its constants.            *)
(*                                                                         *)
(* What the properties say of rows and messages rests on who works on      *)
(* them: a message is in hand once (OneTry), its row is as its item says   *)
(* (RowAsRead), and an id never comes to mean another message (Fresh).     *)
(* Tries are then accounted for (Counted), an embedding comes before the   *)
(* status that speaks of it (Embedded), and a row and its message differ   *)
(* only between a goroutine's two statements (Agreeing).                   *)
(***************************************************************************)
EXTENDS Enrichment, TLAPS

\* Failed tries and deaths of the process that a message has met.
Spent(i) == bad[i] + used.crash

\* An id is given out once: whoever holds one finds its own message or none.
Fresh ==
    /\ \A i \in DOMAIN msgs : i < nextId
    /\ \A it \in loop.items : it.id < nextId
    /\ \A h \in hd : h.item.id < nextId

\* The loop holds a batch only while it works on it, and, unless a statement
\* failed, the goroutines that run are those of its group.
LoopShape ==
    /\ loop.pc = "down" => hd = {}
    /\ loop.pc \in {"down", "idle"} => loop.items = {}
    /\ loop.pc # "mark" => loop.group = {}
    /\ \A it \in loop.group : it.lane = loop.lane
    /\ used.fault = 0 => \A h \in hd : h.item \in loop.group

\* An item in hand is in hand once, but for goroutines that only have to
\* extend the backoff.
OneTry ==
    /\ \A it, o \in loop.items : it.id = o.id => it = o
    /\ \A it \in loop.items, h \in hd : h.item.id = it.id => h.pc = "backoff"
    /\ \A g, h \in hd : g.item.id = h.item.id /\ g # h => g.pc = "backoff" \/ h.pc = "backoff"

\* A selected row waits as it was read; a row worked on is "processing", and
\* one more try than its item says.
RowAsRead ==
    /\ \A it \in loop.items : it.id \in DOMAIN queue =>
          /\ queue[it.id].status = "pending"
          /\ queue[it.id].lane = it.lane /\ queue[it.id].tries = it.tries
    /\ \A h \in hd : h.item.id \in DOMAIN queue =>
          /\ queue[h.item.id].status = "pending" => h.pc = "backoff"
          /\ h.pc \in {"call", "store", "ok", "queue", "fail"} =>
                /\ queue[h.item.id].status = "processing"
                /\ queue[h.item.id].tries = h.item.tries + 1

\* Every try but one that still runs has failed or was cut short.
Counted ==
    /\ \A i \in DOMAIN queue :
          /\ queue[i].status = "pending" => queue[i].tries <= Spent(i)
          /\ queue[i].status = "processing" =>
                queue[i].tries <= Spent(i) + IF loop.pc = "down" THEN 0 ELSE 1
          /\ queue[i].status = "error" => MaxAttempts <= Spent(i)
    /\ \A it \in loop.items : it.tries <= Spent(it.id)
    /\ \A h \in hd :
          /\ h.item.tries <= Spent(h.item.id)
          /\ h.pc = "fail" => h.item.tries + 1 <= Spent(h.item.id)

\* Past applyResult, the embedding is there as long as the message is.
Embedded ==
    /\ DoneIsEmbedded
    /\ \A h \in hd : h.pc \in {"ok", "queue", "message"} /\ h.item.id \in DOMAIN msgs => h.item.id \in vec

\* Row and message agree, or a goroutine is between the two statements.
Between(i, pc) == msgs[i].status = "pending" /\ \E h \in hd : h.item.id = i /\ h.pc = pc

RowAgrees(i) ==
    /\ queue[i].status \in {"pending", "processing"} => msgs[i].status = "pending"
    /\ queue[i].status = "done" => msgs[i].status = "done" \/ Between(i, "message")
    /\ queue[i].status = "error" => msgs[i].status = "error" \/ Between(i, "error")

HandlerAgrees(h) ==
    h.item.id \in DOMAIN queue =>
        /\ h.pc = "message" => queue[h.item.id].status = "done"
        /\ h.pc = "error" => queue[h.item.id].status = "error"

Agreeing ==
    used.crash + used.fault = 0 =>
        (\A i \in DOMAIN queue : RowAgrees(i)) /\ \A h \in hd : HandlerAgrees(h)

Inv ==
    /\ TypeOK /\ Fresh /\ LoopShape /\ OneTry /\ RowAsRead /\ Counted /\ Embedded /\ Agreeing
    /\ MailQueuedOnce

-------------------------------------------------------------------------------
(* Types. *)

\* A bounded event is counted, and no other is.
LEMMA SpendCounts ==
    ASSUME TypeOK, NEW what \in {"delete", "trigger", "crash", "fault"}, NEW bound, Spend(what, bound)
    PROVE  /\ used' \in [{"delete", "trigger", "crash", "fault"} -> Nat]
           /\ used'[what] = used[what] + 1
           /\ \A o \in {"delete", "trigger", "crash", "fault"} : o # what => used'[o] = used[o]
  BY DEF Spend, TypeOK

LEMMA FaultCounts ==
    ASSUME TypeOK, NEW bound, Spend("fault", bound)
    PROVE  /\ used' \in [{"delete", "trigger", "crash", "fault"} -> Nat]
           /\ used'.crash = used.crash /\ used'.fault # 0 /\ used'.fault >= used.fault
  <1>1. /\ used' \in [{"delete", "trigger", "crash", "fault"} -> Nat]
        /\ used'["fault"] = used["fault"] + 1 /\ used'["crash"] = used["crash"]
    BY SpendCounts
  <1>2. used["fault"] \in Nat
    BY DEF TypeOK
  <1> QED BY <1>1, <1>2

\* A goroutine that goes on keeps its item.
LEMMA GoTyped ==
    ASSUME TypeOK, NEW h \in hd, NEW pc, Go(h, pc),
           pc \in {"call", "store", "ok", "queue", "message", "fail", "error", "backoff"}
    PROVE  hd' \subseteq Handler
  BY DEF Go, TypeOK, Handler

\* A failed try is counted, and the goroutine goes on to fail.
LEMMA LostTyped ==
    ASSUME TypeOK, NEW h \in hd, NEW transient \in BOOLEAN, Lost(h, transient)
    PROVE  /\ hd' \subseteq Handler
           /\ h.item.id \in Id
           /\ bad' \in [Id -> Nat] /\ bad'[h.item.id] = bad[h.item.id] + 1
           /\ \A i \in Id : i # h.item.id => bad'[i] = bad[i]
  <1>1. h.item.id \in Id /\ h \in Handler
    BY DEF TypeOK, Handler, Item
  <1>2. bad' = [bad EXCEPT ![h.item.id] = bad[h.item.id] + 1] /\ bad \in [Id -> Nat]
    BY DEF Lost, TypeOK
  <1>3. hd' \subseteq Handler
    BY <1>1 DEF Lost, TypeOK, Handler
  <1> QED BY <1>1, <1>2, <1>3

\* A status statement changes the status of a row that is there.
LEMMA SetQueueTyped ==
    ASSUME TypeOK, NEW i, NEW s \in {"pending", "processing", "done", "error"}, SetQueue(i, s)
    PROVE  /\ DOMAIN queue' = DOMAIN queue
           /\ queue' \in [DOMAIN queue -> QueueRow]
           /\ \A j \in DOMAIN queue : j # i => queue'[j] = queue[j]
           /\ i \in DOMAIN queue => /\ queue'[i].status = s
                                    /\ queue'[i].lane = queue[i].lane
                                    /\ queue'[i].tries = queue[i].tries
  BY DEF SetQueue, TypeOK, QueueRow

LEMMA SetMessageTyped ==
    ASSUME TypeOK, NEW i, NEW s \in {"pending", "duplicate", "done", "error"}, SetMessage(i, s)
    PROVE  /\ DOMAIN msgs' = DOMAIN msgs
           /\ msgs' \in [DOMAIN msgs -> Message]
           /\ \A j \in DOMAIN msgs : j # i => msgs'[j] = msgs[j]
           /\ i \in DOMAIN msgs => /\ msgs'[i].status = s
                                   /\ msgs'[i].mail = msgs[i].mail
                                   /\ msgs'[i].slot = msgs[i].slot
  BY DEF SetMessage, TypeOK, Message

\* What selectLane reads is a set of items of waiting rows.
LEMMA SelectedRows ==
    ASSUME TypeOK, NEW lane \in Lane, NEW n
    PROVE  /\ Selected(lane, n) \subseteq Item
           /\ \A it \in Selected(lane, n) :
                 /\ it.id \in DOMAIN queue
                 /\ queue[it.id].status = "pending"
                 /\ queue[it.id].lane = lane /\ it.lane = lane
                 /\ queue[it.id].tries = it.tries
  <1>1. ASSUME NEW i \in Oldest(Waiting(lane), n)
        PROVE  /\ i \in DOMAIN queue /\ i \in Id
               /\ queue[i].status = "pending" /\ queue[i].lane = lane /\ queue[i].tries \in Nat
    BY DEF Oldest, Waiting, TypeOK, QueueRow
  <1> HIDE DEF Oldest
  <1>2. ASSUME NEW it \in Selected(lane, n)
        PROVE  /\ it \in Item
               /\ it.id \in DOMAIN queue /\ queue[it.id].status = "pending"
               /\ queue[it.id].lane = lane /\ it.lane = lane /\ queue[it.id].tries = it.tries
    <2>1. PICK i \in Oldest(Waiting(lane), n) : it = [id |-> i, lane |-> lane, tries |-> queue[i].tries]
      BY DEF Selected
    <2> QED BY <1>1, <2>1 DEF Item
  <1> QED BY <1>2

\* A row that is marked counts one more try.
LEMMA MarkedRow ==
    ASSUME TypeOK, NEW it \in Item,
           queue' = IF it.id \in DOMAIN queue
                    THEN [queue EXCEPT ![it.id].status = "processing", ![it.id].tries = @ + 1]
                    ELSE queue
    PROVE  /\ DOMAIN queue' = DOMAIN queue
           /\ queue' \in [DOMAIN queue -> QueueRow]
           /\ \A j \in DOMAIN queue : j # it.id => queue'[j] = queue[j]
           /\ it.id \in DOMAIN queue => /\ queue'[it.id].status = "processing"
                                        /\ queue'[it.id].lane = queue[it.id].lane
                                        /\ queue'[it.id].tries = queue[it.id].tries + 1
  BY DEF TypeOK, QueueRow

\* The rows a crash left in processing wait again.
LEMMA RequeuedRows ==
    ASSUME TypeOK
    PROVE  /\ DOMAIN Requeued = DOMAIN queue
           /\ Requeued \in [DOMAIN queue -> QueueRow]
           /\ \A i \in DOMAIN queue :
                 /\ Requeued[i].tries = queue[i].tries /\ Requeued[i].lane = queue[i].lane
                 /\ Requeued[i].status = IF queue[i].status = "processing" THEN "pending"
                                         ELSE queue[i].status
  BY DEF TypeOK, QueueRow, Requeued

\* The row that a new copy of the slot replaces.
Replaced(s) == {i \in DOMAIN msgs : msgs[i].slot = s}

\* Insert takes out the slot's old message, its row and its embedding, and puts
\* in a message with a new id, and its row unless the mail is queued elsewhere.
Inserted(s, m) ==
    /\ nextId \in Id /\ nextId \notin DOMAIN msgs /\ nextId' = nextId + 1
    /\ DOMAIN msgs' = (DOMAIN msgs \ Replaced(s)) \cup {nextId}
    /\ msgs' \in [DOMAIN msgs' -> Message]
    /\ \A i \in DOMAIN msgs \ Replaced(s) : msgs'[i] = msgs[i]
    /\ msgs'[nextId].slot = s /\ msgs'[nextId].mail = m
    /\ msgs'[nextId].status \in {"pending", "duplicate"}
    /\ vec' = vec \ Replaced(s)
    /\ queue' \in [DOMAIN queue' -> QueueRow]
    /\ DOMAIN queue' \subseteq DOMAIN msgs'
    /\ \A i \in DOMAIN queue' : i # nextId =>
          i \in DOMAIN queue \ Replaced(s) /\ queue'[i] = queue[i]
    /\ nextId \in DOMAIN queue' =>
          /\ queue'[nextId].status = "pending" /\ queue'[nextId].tries = 0
          /\ msgs'[nextId].status = "pending" /\ ~QueuedElsewhere(s, m)
    /\ UNCHANGED <<loop, hd, backoff, trigger, bad, used>>

LEMMA InsertEffect ==
    ASSUME TypeOK, Fresh, NEW s \in Slot, NEW m \in Mail \cup {NoId}, NEW lane \in Lane,
           Insert(s, m, lane)
    PROVE  Inserted(s, m)
  <1> DEFINE old == Replaced(s)
             row == [slot |-> s, mail |-> m,
                     status |-> IF QueuedElsewhere(s, m) THEN "duplicate" ELSE "pending"]
             new == [status |-> "pending", lane |-> lane, tries |-> 0]
  <1>1. /\ msgs' = With(Without(msgs, old), nextId, row)
        /\ queue' = IF QueuedElsewhere(s, m) THEN Without(queue, old)
                    ELSE With(Without(queue, old), nextId, new)
        /\ vec' = vec \ old
        /\ nextId <= MaxInsert
        /\ nextId' = nextId + 1
        /\ UNCHANGED <<loop, hd, backoff, trigger, bad, used>>
    BY DEF Insert, Replaced
  <1>2. nextId \in Id /\ nextId \notin DOMAIN msgs
    BY <1>1, ParamAssumption DEF Fresh, TypeOK, Id
  <1>3. /\ row \in Message /\ row.slot = s /\ row.mail = m /\ row.status \in {"pending", "duplicate"}
        /\ ~QueuedElsewhere(s, m) => row.status = "pending"
    BY DEF Message
  <1>4. new \in QueueRow /\ new.status = "pending" /\ new.tries = 0
    BY DEF QueueRow
  <1> HIDE DEF old, row, new
  <1>5. /\ DOMAIN Without(msgs, old) = DOMAIN msgs \ old
        /\ Without(msgs, old) \in [DOMAIN Without(msgs, old) -> Message]
        /\ \A i \in DOMAIN msgs \ old : Without(msgs, old)[i] = msgs[i]
    BY DEF Without, TypeOK
  <1>6. /\ DOMAIN Without(queue, old) = DOMAIN queue \ old
        /\ Without(queue, old) \in [DOMAIN Without(queue, old) -> QueueRow]
        /\ \A i \in DOMAIN queue \ old : Without(queue, old)[i] = queue[i]
    BY DEF Without, TypeOK
  <1>7. /\ DOMAIN msgs' = (DOMAIN msgs \ old) \cup {nextId}
        /\ msgs' \in [DOMAIN msgs' -> Message] /\ msgs'[nextId] = row
        /\ \A i \in DOMAIN msgs \ old : msgs'[i] = msgs[i]
    BY <1>1, <1>2, <1>3, <1>5 DEF With
  <1>8. CASE QueuedElsewhere(s, m)
    <2>1. queue' = Without(queue, old) /\ nextId \notin DOMAIN queue'
      BY <1>1, <1>2, <1>6, <1>8 DEF TypeOK
    <2>2. DOMAIN queue' \subseteq DOMAIN msgs'
      BY <1>6, <1>7, <2>1 DEF TypeOK
    <2> QED BY <1>1, <1>2, <1>3, <1>6, <1>7, <2>1, <2>2 DEF old, Inserted
  <1>9. CASE ~QueuedElsewhere(s, m)
    <2>1. queue' = With(Without(queue, old), nextId, new)
      BY <1>1, <1>9
    <2>2. /\ DOMAIN queue' = (DOMAIN queue \ old) \cup {nextId}
          /\ queue' \in [DOMAIN queue' -> QueueRow] /\ queue'[nextId] = new
          /\ \A i \in DOMAIN queue \ old : i # nextId => queue'[i] = queue[i]
      BY <1>4, <1>6, <2>1 DEF With
    <2>3. DOMAIN queue' \subseteq DOMAIN msgs'
      BY <1>7, <2>2 DEF TypeOK
    <2> QED BY <1>1, <1>2, <1>3, <1>4, <1>7, <1>9, <2>2, <2>3 DEF old, Inserted
  <1> QED BY <1>8, <1>9

\* Delete takes out a message, its row and its embedding.
Deleted(i) ==
    /\ DOMAIN msgs' = DOMAIN msgs \ {i} /\ msgs' \in [DOMAIN msgs' -> Message]
    /\ DOMAIN queue' = DOMAIN queue \ {i} /\ queue' \in [DOMAIN queue' -> QueueRow]
    /\ \A j \in DOMAIN msgs \ {i} : msgs'[j] = msgs[j]
    /\ \A j \in DOMAIN queue \ {i} : queue'[j] = queue[j]
    /\ vec' = vec \ {i}
    /\ used' \in [{"delete", "trigger", "crash", "fault"} -> Nat]
    /\ used'.crash = used.crash /\ used'.fault = used.fault
    /\ UNCHANGED <<nextId, loop, hd, backoff, trigger, bad>>

LEMMA DeleteEffect == ASSUME TypeOK, NEW i \in DOMAIN msgs, Delete(i) PROVE Deleted(i)
  <1>1. /\ msgs' = Without(msgs, {i}) /\ queue' = Without(queue, {i}) /\ vec' = vec \ {i}
        /\ Spend("delete", MaxDelete)
        /\ UNCHANGED <<nextId, loop, hd, backoff, trigger, bad>>
    BY DEF Delete
  <1>2. /\ DOMAIN msgs' = DOMAIN msgs \ {i} /\ msgs' \in [DOMAIN msgs' -> Message]
        /\ \A j \in DOMAIN msgs \ {i} : msgs'[j] = msgs[j]
    BY <1>1 DEF Without, TypeOK
  <1>3. /\ DOMAIN queue' = DOMAIN queue \ {i} /\ queue' \in [DOMAIN queue' -> QueueRow]
        /\ \A j \in DOMAIN queue \ {i} : queue'[j] = queue[j]
    BY <1>1 DEF Without, TypeOK
  <1>4. /\ used' \in [{"delete", "trigger", "crash", "fault"} -> Nat]
        /\ used'.crash = used.crash /\ used'.fault = used.fault
    BY <1>1, SpendCounts
  <1> QED BY <1>1, <1>2, <1>3, <1>4 DEF Deleted

\* The loop's locals keep their types.
LoopTyped == loop' \in [pc : {"down", "idle", "room", "mark"}, size : Nat, forced : BOOLEAN,
                        items : SUBSET Item, lane : Lane, group : SUBSET Item]

\* An empty batch is well typed, and so is the batch after a group.
LEMMA AtTyped ==
    ASSUME NEW pc \in {"down", "idle", "room", "mark"}
    PROVE  /\ At(pc) \in [pc : {"down", "idle", "room", "mark"}, size : Nat, forced : BOOLEAN,
                          items : SUBSET Item, lane : Lane, group : SUBSET Item]
           /\ At(pc).pc = pc /\ At(pc).items = {} /\ At(pc).group = {} /\ At(pc).lane = "new"
  BY DEF At, Lane

LEMMA NextGroupTyped ==
    ASSUME TypeOK, NEW items, items \subseteq loop.items, loop' = NextGroup(items), loop.pc = "mark"
    PROVE  /\ LoopTyped
           /\ loop'.items \subseteq items /\ loop'.group = {} /\ loop'.pc # "down"
           /\ loop'.pc # "mark" => loop'.items = {}
  <1>1. CASE loop.lane = "new"
    BY <1>1 DEF NextGroup, TypeOK, LoopTyped, Lane
  <1>2. CASE loop.lane # "new"
    BY <1>2, AtTyped DEF NextGroup, LoopTyped
  <1> QED BY <1>1, <1>2

\* The steps of the loop that mark no item.
LoopStep ==
    \/ Start \/ StartFails \/ SelectFails
    \/ \E forced \in BOOLEAN : SelectNew(forced)
    \/ \E n \in 0..loop.size : SelectBackfill(n)
    \/ MarkFails \/ GroupDone

\* What they leave alone.
LEMMA LoopFrame ==
    ASSUME TypeOK, LoopStep
    PROVE  /\ UNCHANGED <<msgs, vec, nextId, hd, bad, backoff>> /\ trigger' \in {trigger, 0}
           /\ queue' = queue \/ (queue' = Requeued /\ loop.pc = "down" /\ loop'.pc = "idle")
           /\ used' \in [{"delete", "trigger", "crash", "fault"} -> Nat]
           /\ used'.crash = used.crash
           /\ used' = used \/ used'.fault # 0
  <1>1. CASE StartFails \/ SelectFails \/ MarkFails
    <2>1. UNCHANGED <<dbVars, hd, bad, backoff, trigger>> /\ Spend("fault", MaxFault)
      BY <1>1 DEF StartFails, SelectFails, MarkFails
    <2> QED BY <2>1, FaultCounts DEF dbVars
  <1>2. CASE Start
    BY <1>2, AtTyped DEF Start, TypeOK
  <1>3. CASE \/ \E forced \in BOOLEAN : SelectNew(forced)
             \/ \E n \in 0..loop.size : SelectBackfill(n)
             \/ GroupDone
    BY <1>3 DEF SelectNew, SelectBackfill, GroupDone, TypeOK, dbVars
  <1> QED BY <1>1, <1>2, <1>3 DEF LoopStep

\* The row is as the item says.
AsRead(it) ==
    /\ it.id \in DOMAIN queue /\ queue[it.id].status = "pending"
    /\ queue[it.id].lane = it.lane /\ queue[it.id].tries = it.tries

\* What they do to the loop's locals: the group is empty, and new items are
\* read from rows that wait.
LEMMA LoopEffect ==
    ASSUME TypeOK, LoopShape, LoopStep
    PROVE  /\ LoopTyped /\ loop'.pc # "down" /\ loop'.group = {}
           /\ loop'.pc = "idle" => loop'.items = {}
           /\ \A it \in loop'.items : it \in loop.items \/ AsRead(it)
  <1> DEFINE Goal ==
        /\ LoopTyped /\ loop'.pc # "down" /\ loop'.group = {}
        /\ loop'.pc = "idle" => loop'.items = {}
        /\ \A it \in loop'.items : it \in loop.items \/ AsRead(it)
  <1>1. CASE loop' = At("idle")
    BY <1>1, AtTyped DEF LoopTyped
  <1>2. CASE \E forced \in BOOLEAN : SelectNew(forced)
    <2>1. PICK forced \in BOOLEAN : SelectNew(forced)
      BY <1>2
    <2> DEFINE size == IF forced THEN trigger ELSE BatchSize
               items == Selected("new", size)
    <2>2. loop' = [At("room") EXCEPT !.size = size, !.forced = forced, !.items = items]
      BY <2>1 DEF SelectNew
    <2>3. size \in Nat
      BY ParamAssumption DEF TypeOK
    <2>4. items \subseteq Item /\ \A it \in items : AsRead(it)
      BY SelectedRows DEF Lane, AsRead
    <2> HIDE DEF size, items
    <2>5. loop' = [pc |-> "room", size |-> size, forced |-> forced, items |-> items,
                   lane |-> "new", group |-> {}]
      BY <2>2 DEF At
    <2>6. LoopTyped
      BY <2>3, <2>4, <2>5 DEF LoopTyped, Lane
    <2> QED BY <2>4, <2>5, <2>6
  <1>3. ASSUME NEW n \in 0..loop.size, SelectBackfill(n), loop' # At("idle") PROVE Goal
    <2> DEFINE more == Selected("backfill", n)
               items == loop.items \cup more
    <2>1. loop' = [loop EXCEPT !.pc = "mark", !.items = items] /\ loop.pc = "room"
      BY <1>3 DEF SelectBackfill
    <2>2. more \subseteq Item /\ \A it \in more : AsRead(it)
      BY SelectedRows DEF Lane, AsRead
    <2> HIDE DEF more
    <2>3. loop.group = {} /\ items \subseteq Item
      BY <2>1, <2>2 DEF TypeOK, LoopShape
    <2>4. LoopTyped /\ loop'.pc = "mark" /\ loop'.items = items /\ loop'.group = loop.group
      BY <2>1, <2>3 DEF LoopTyped, TypeOK
    <2> QED BY <2>2, <2>3, <2>4
  <1>4. CASE MarkFails \/ GroupDone
    <2>1. PICK items \in SUBSET loop.items : loop' = NextGroup(items) /\ loop.pc = "mark"
      BY <1>4 DEF MarkFails, GroupDone
    <2> QED BY <2>1, NextGroupTyped
  <1> QED BY <1>1, <1>2, <1>3, <1>4 DEF LoopStep, Start, StartFails, SelectFails

\* Marking moves an item from the batch to the group, and starts its goroutine.
LEMMA MarkEffect ==
    ASSUME TypeOK, NEW it \in loop.items, Mark(it)
    PROVE  /\ LoopTyped /\ loop.pc = "mark" /\ loop'.pc = "mark"
           /\ it \in Item /\ it.lane = loop.lane /\ loop'.lane = loop.lane
           /\ loop'.items = loop.items \ {it} /\ loop'.group = loop.group \cup {it}
           /\ hd' = hd \cup {[item |-> it, pc |-> "call", transient |-> FALSE]}
           /\ hd' \subseteq Handler
           /\ UNCHANGED <<msgs, vec, nextId, backoff, trigger, bad, used>>
  <1>1. /\ it \in Item /\ it.lane = loop.lane /\ loop.pc = "mark"
        /\ loop' = [loop EXCEPT !.items = loop.items \ {it}, !.group = loop.group \cup {it}]
        /\ hd' = hd \cup {[item |-> it, pc |-> "call", transient |-> FALSE]}
        /\ UNCHANGED <<msgs, vec, nextId, backoff, trigger, bad, used>>
    BY DEF Mark, Group, TypeOK
  <1>2. LoopTyped
    BY <1>1 DEF LoopTyped, TypeOK
  <1>3. /\ loop'.pc = "mark" /\ loop'.lane = loop.lane
        /\ loop'.items = loop.items \ {it} /\ loop'.group = loop.group \cup {it}
    BY <1>1 DEF TypeOK
  <1>4. [item |-> it, pc |-> "call", transient |-> FALSE] \in Handler /\ hd \subseteq Handler
    BY <1>1 DEF TypeOK, Handler
  <1> QED BY <1>1, <1>2, <1>3, <1>4

\* A goroutine's step moves it on, or ends it, and no other.
HandlerMoves(h) ==
    \/ hd' = hd \ {h}
    \/ \E g \in Handler : /\ g.item = h.item /\ g.pc # h.pc /\ h.pc # "backoff"
                         /\ hd' = (hd \ {h}) \cup {g}

\* A step of a goroutine.
HandlerStep(h) == Handle(h) \/ StatusFails(h)

LEMMA HandlerHd ==
    ASSUME TypeOK, NEW h \in hd, HandlerStep(h)
    PROVE  hd' \subseteq Handler /\ HandlerMoves(h)
  <1>1. h \in Handler /\ hd \subseteq Handler
    BY DEF TypeOK
  <1>2. CASE BackOff(h) \/ MessageDone(h)
    BY <1>1, <1>2 DEF BackOff, MessageDone, Exit, HandlerMoves
  <1>3. ASSUME NEW transient \in BOOLEAN, Lost(h, transient), h.pc \notin {"fail", "backoff"}
        PROVE  hd' \subseteq Handler /\ HandlerMoves(h)
    <2>1. [h EXCEPT !.pc = "fail", !.transient = transient] \in Handler
      BY <1>1 DEF Handler
    <2>2. /\ [h EXCEPT !.pc = "fail", !.transient = transient].item = h.item
          /\ [h EXCEPT !.pc = "fail", !.transient = transient].pc = "fail"
      BY <1>1 DEF Handler
    <2> QED BY <1>1, <1>3, <2>1, <2>2 DEF Lost, HandlerMoves
  <1>4. ASSUME NEW pc \in {"store", "ok", "queue", "message", "error", "backoff"},
               Go(h, pc), h.pc \notin {pc, "backoff"}
        PROVE  hd' \subseteq Handler /\ HandlerMoves(h)
    <2>1. /\ [h EXCEPT !.pc = pc] \in Handler
          /\ [h EXCEPT !.pc = pc].item = h.item /\ [h EXCEPT !.pc = pc].pc = pc
      BY <1>1 DEF Handler
    <2> QED BY <1>1, <1>4, <2>1 DEF Go, HandlerMoves
  <1>5. CASE Enriched(h) \/ Store(h) \/ Succeed(h) \/ QueueDone(h) \/ Fail(h) \/ MessageError(h)
    BY <1>4, <1>5 DEF Enriched, Store, Succeed, QueueDone, Fail, MessageError
  <1>6. CASE StoreFails(h) \/ \E transient \in BOOLEAN : EnrichFails(h, transient)
    BY <1>3, <1>6 DEF StoreFails, EnrichFails
  <1>7. CASE StatusFails(h)
    <2>1. CASE Exit(h)
      BY <1>1, <2>1 DEF Exit, HandlerMoves
    <2>2. CASE ~Exit(h)
      BY <1>4, <1>7, <2>2 DEF StatusFails
    <2> QED BY <2>1, <2>2
  <1> QED BY <1>2, <1>5, <1>6, <1>7 DEF HandlerStep, Handle

\* What a goroutine's step does to the rest: it takes no message and no row
\* away, and nothing but a status or an embedding changes there.
LEMMA HandlerFrame ==
    ASSUME TypeOK, NEW h \in hd, HandlerStep(h)
    PROVE  /\ UNCHANGED <<loop, nextId, trigger>> /\ backoff' \in BOOLEAN
           /\ DOMAIN msgs' = DOMAIN msgs /\ msgs' \in [DOMAIN msgs -> Message]
           /\ DOMAIN queue' = DOMAIN queue /\ queue' \in [DOMAIN queue -> QueueRow]
           /\ \A i \in DOMAIN msgs : msgs'[i].mail = msgs[i].mail /\ msgs'[i].slot = msgs[i].slot
           /\ \A i \in DOMAIN queue : queue'[i].tries = queue[i].tries /\ queue'[i].lane = queue[i].lane
           /\ \A i \in DOMAIN queue : i # h.item.id => queue'[i] = queue[i]
           /\ \A i \in DOMAIN msgs : i # h.item.id => msgs'[i] = msgs[i]
           /\ vec \subseteq vec' /\ vec' \subseteq DOMAIN msgs
           /\ bad' \in [Id -> Nat] /\ \A i \in Id : bad[i] <= bad'[i]
           /\ used' \in [{"delete", "trigger", "crash", "fault"} -> Nat]
           /\ used'.crash = used.crash /\ (used' = used \/ used'.fault # 0)
  <1>0. bad \in [Id -> Nat] /\ vec \subseteq DOMAIN msgs /\ backoff \in BOOLEAN /\ h \in Handler
        /\ used \in [{"delete", "trigger", "crash", "fault"} -> Nat]
        /\ msgs \in [DOMAIN msgs -> Message] /\ queue \in [DOMAIN queue -> QueueRow]
    BY DEF TypeOK
  <1>1. CASE Enriched(h) \/ Succeed(h) \/ BackOff(h)
    <2>1. UNCHANGED <<dbVars, loop, trigger, bad, used>> /\ backoff' \in BOOLEAN
      BY <1>0, <1>1 DEF Enriched, Succeed, BackOff, Handler
    <2> QED BY <1>0, <2>1 DEF dbVars
  <1>2. CASE StatusFails(h)
    <2>1. UNCHANGED <<dbVars, loop, trigger, bad, backoff>> /\ Spend("fault", MaxFault)
      BY <1>2 DEF StatusFails
    <2> QED BY <1>0, <2>1, FaultCounts DEF dbVars
  <1>3. CASE StoreFails(h) \/ \E transient \in BOOLEAN : EnrichFails(h, transient)
    <2>1. /\ UNCHANGED <<dbVars, loop, trigger, backoff>>
          /\ \E transient \in BOOLEAN : Lost(h, transient)
          /\ used' = used \/ Spend("fault", MaxFault)
      BY <1>3 DEF StoreFails, EnrichFails
    <2>2. bad' \in [Id -> Nat] /\ \A i \in Id : bad[i] <= bad'[i]
      BY <1>0, <2>1, LostTyped
    <2> QED BY <1>0, <2>1, <2>2, FaultCounts DEF dbVars
  <1>4. CASE Store(h)
    <2>1. /\ UNCHANGED <<msgs, queue, nextId, loop, trigger, bad, used, backoff>>
          /\ vec' = vec \cup {h.item.id} /\ h.item.id \in DOMAIN msgs
      BY <1>4 DEF Store
    <2> QED BY <1>0, <2>1
  <1>5. CASE QueueDone(h) \/ Fail(h)
    <2>1. /\ UNCHANGED <<msgs, vec, nextId, loop, trigger, bad, used, backoff>>
          /\ \E s \in {"pending", "done", "error"} : SetQueue(h.item.id, s)
      BY <1>5 DEF QueueDone, Fail
    <2> QED BY <1>0, <2>1, SetQueueTyped
  <1>6. CASE MessageDone(h) \/ MessageError(h)
    <2>1. /\ UNCHANGED <<queue, vec, nextId, loop, trigger, bad, used, backoff>>
          /\ \E s \in {"done", "error"} : SetMessage(h.item.id, s)
      BY <1>6 DEF MessageDone, MessageError
    <2> QED BY <1>0, <2>1, SetMessageTyped
  <1> QED BY <1>1, <1>2, <1>3, <1>4, <1>5, <1>6 DEF HandlerStep, Handle

\* What has nothing to do with the queue.
Aside == UNCHANGED vars \/ BackoffOver \/ TriggerLost \/ \E limit \in Limits : Trigger(limit)

LEMMA AsideFrame ==
    ASSUME TypeOK, Aside
    PROVE  /\ UNCHANGED <<dbVars, loop, hd, bad>>
           /\ backoff' \in BOOLEAN /\ trigger' \in Limits \cup {0}
           /\ used' \in [{"delete", "trigger", "crash", "fault"} -> Nat]
           /\ used'.crash = used.crash /\ used'.fault = used.fault
  <1>1. CASE \E limit \in Limits : Trigger(limit)
    BY <1>1, SpendCounts DEF Trigger, TypeOK
  <1>2. CASE UNCHANGED vars \/ BackoffOver \/ TriggerLost
    BY <1>2 DEF BackoffOver, TriggerLost, TypeOK, vars, dbVars
  <1> QED BY <1>1, <1>2 DEF Aside

\* A dead process leaves the database behind, and is counted.
LEMMA CrashEffect ==
    ASSUME TypeOK, Crash
    PROVE  /\ UNCHANGED <<dbVars, bad>> /\ LoopTyped
           /\ loop'.pc = "down" /\ loop'.items = {} /\ loop'.group = {}
           /\ loop.pc # "down"
           /\ hd' = {} /\ backoff' = FALSE /\ trigger' = 0
           /\ used' \in [{"delete", "trigger", "crash", "fault"} -> Nat]
           /\ used'.crash = used.crash + 1 /\ used'.fault = used.fault
  <1>1. /\ UNCHANGED <<dbVars, bad>> /\ loop' = At("down") /\ loop.pc # "down"
        /\ hd' = {} /\ backoff' = FALSE /\ trigger' = 0 /\ Spend("crash", MaxCrash)
    BY DEF Crash, Up
  <1>2. LoopTyped /\ loop'.pc = "down" /\ loop'.items = {} /\ loop'.group = {}
    BY <1>1, AtTyped DEF LoopTyped
  <1>3. /\ used' \in [{"delete", "trigger", "crash", "fault"} -> Nat]
        /\ used'["crash"] = used["crash"] + 1 /\ used'["fault"] = used["fault"]
    BY <1>1, SpendCounts
  <1> QED BY <1>1, <1>2, <1>3

\* The kinds of step.
LEMMA Kinds ==
    ASSUME [Next]_vars
    PROVE  \/ \E s \in Slot, m \in Mail \cup {NoId}, lane \in Lane : Insert(s, m, lane)
           \/ \E i \in DOMAIN msgs : Delete(i)
           \/ LoopStep
           \/ \E it \in loop.items : Mark(it)
           \/ \E h \in hd : HandlerStep(h)
           \/ Crash
           \/ Aside
  BY DEF Next, Loop, LoopStep, HandlerStep, Aside

\* The table of embeddings and the three tables keep their types.
LEMMA TypeStep ==
    ASSUME TypeOK, Fresh, LoopShape, [Next]_vars
    PROVE  TypeOK' /\ Fresh'
  <1>0. /\ DOMAIN msgs \subseteq Id /\ msgs \in [DOMAIN msgs -> Message]
        /\ DOMAIN queue \subseteq DOMAIN msgs /\ queue \in [DOMAIN queue -> QueueRow]
        /\ vec \subseteq DOMAIN msgs /\ nextId \in Nat \ {0} /\ hd \subseteq Handler
        /\ backoff \in BOOLEAN /\ trigger \in Limits \cup {0} /\ bad \in [Id -> Nat]
        /\ loop.items \subseteq Item
    BY DEF TypeOK
  <1>i. \A i \in Id : i \in Nat
    BY ParamAssumption DEF Id
  <1>1. ASSUME NEW s \in Slot, NEW m \in Mail \cup {NoId}, NEW lane \in Lane, Insert(s, m, lane)
        PROVE  TypeOK' /\ Fresh'
    <2>0. Inserted(s, m)
      BY <1>1, InsertEffect
    <2>1. TypeOK'
      BY <1>0, <2>0 DEF TypeOK, Inserted
    <2>2. \A i \in DOMAIN msgs' : i < nextId'
      BY <1>0, <1>i, <2>0 DEF Fresh, Inserted
    <2>3. /\ \A it \in loop'.items : it.id < nextId'
          /\ \A h \in hd' : h.item.id < nextId'
      BY <1>0, <1>i, <2>0 DEF Fresh, Inserted, Handler, Item
    <2> QED BY <2>1, <2>2, <2>3 DEF Fresh
  <1>2. ASSUME NEW i \in DOMAIN msgs, Delete(i) PROVE TypeOK' /\ Fresh'
    <2>0. Deleted(i)
      BY <1>2, DeleteEffect
    <2>1. TypeOK'
      BY <1>0, <2>0 DEF TypeOK, Deleted
    <2> QED BY <2>0, <2>1 DEF Fresh, Deleted
  <1>3. CASE LoopStep
    <2>1. DOMAIN queue' = DOMAIN queue /\ queue' \in [DOMAIN queue -> QueueRow]
      BY <1>0, <1>3, LoopFrame, RequeuedRows
    <2>2. TypeOK'
      BY <1>0, <1>3, <2>1, LoopFrame, LoopEffect DEF TypeOK, LoopTyped
    <2>3. \A it \in loop'.items : it.id < nextId
      BY <1>0, <1>3, LoopEffect DEF Fresh, AsRead
    <2> QED BY <1>3, <2>2, <2>3, LoopFrame DEF Fresh
  <1>4. ASSUME NEW it \in loop.items, Mark(it) PROVE TypeOK' /\ Fresh'
    <2>1. DOMAIN queue' = DOMAIN queue /\ queue' \in [DOMAIN queue -> QueueRow]
      BY <1>4, MarkEffect, MarkedRow DEF Mark
    <2>2. TypeOK'
      BY <1>0, <1>4, <2>1, MarkEffect DEF TypeOK, LoopTyped
    <2> QED BY <1>4, <2>2, MarkEffect DEF Fresh
  <1>5. ASSUME NEW h \in hd, HandlerStep(h) PROVE TypeOK' /\ Fresh'
    <2>1. TypeOK'
      BY <1>0, <1>5, HandlerHd, HandlerFrame DEF TypeOK
    <2>2. \A g \in hd' : g.item.id < nextId
      BY <1>5, HandlerHd DEF HandlerMoves, Fresh
    <2> QED BY <1>5, <2>1, <2>2, HandlerFrame DEF Fresh
  <1>6. CASE Crash
    BY <1>0, <1>6, CrashEffect DEF TypeOK, Fresh, LoopTyped, dbVars
  <1>7. CASE Aside
    BY <1>0, <1>7, AsideFrame DEF TypeOK, Fresh, dbVars
  <1> QED BY <1>1, <1>2, <1>3, <1>4, <1>5, <1>6, <1>7, Kinds

-------------------------------------------------------------------------------
(* What the loop has in hand. *)

\* The loop lets go of its group when no goroutine of it runs, or when a
\* statement failed.
LEMMA LetGo == ASSUME TypeOK, LoopShape, LoopStep, used'.fault = 0, used' = used PROVE hd = {}
  <1>1. CASE loop.pc = "mark"
    <2>1. ~MarkFails
      BY FaultCounts DEF MarkFails
    <2>2. GroupDone
      BY <1>1, <2>1 DEF LoopStep, Start, StartFails, SelectNew, SelectBackfill, SelectFails
    <2> QED BY <2>2 DEF GroupDone, Waited, LoopShape
  <1>2. CASE loop.pc # "mark"
    BY <1>2 DEF LoopShape
  <1> QED BY <1>1, <1>2

LEMMA ShapeStep == ASSUME TypeOK, Fresh, LoopShape, [Next]_vars PROVE LoopShape'
  <1>1. ASSUME NEW s \in Slot, NEW m \in Mail \cup {NoId}, NEW lane \in Lane, Insert(s, m, lane)
        PROVE  LoopShape'
    BY <1>1 DEF Insert, LoopShape
  <1>2. ASSUME NEW i \in DOMAIN msgs, Delete(i) PROVE LoopShape'
    <2>1. Deleted(i)
      BY <1>2, DeleteEffect
    <2> QED BY <2>1 DEF Deleted, LoopShape
  <1>3. CASE LoopStep
    <2>1. used'.fault = 0 => hd' = {}
      BY <1>3, LoopFrame, LetGo
    <2> QED BY <1>3, <2>1, LoopEffect DEF LoopShape, LoopTyped
  <1>4. ASSUME NEW it \in loop.items, Mark(it) PROVE LoopShape'
    BY <1>4, MarkEffect DEF LoopShape
  <1>5. ASSUME NEW h \in hd, HandlerStep(h) PROVE LoopShape'
    <2>1. \A g \in hd' : \E k \in hd : g.item = k.item
      BY <1>5, HandlerHd DEF HandlerMoves
    <2>2. loop' = loop /\ (used'.fault = 0 => used.fault = 0)
      BY <1>5, HandlerFrame
    <2> QED BY <2>1, <2>2 DEF LoopShape
  <1>6. CASE Crash
    BY <1>6, CrashEffect DEF LoopShape
  <1>7. CASE Aside
    BY <1>7, AsideFrame DEF LoopShape
  <1> QED BY <1>1, <1>2, <1>3, <1>4, <1>5, <1>6, <1>7, Kinds

\* An item that agrees with its row is the item of that row.
LEMMA OneItem ==
    ASSUME NEW it \in Item, NEW o \in Item, it.id = o.id, it.lane = o.lane, it.tries = o.tries
    PROVE  it = o
  BY DEF Item

LEMMA OneTryStep == ASSUME TypeOK, Fresh, LoopShape, OneTry, RowAsRead, [Next]_vars PROVE OneTry'
  <1>1. ASSUME NEW s \in Slot, NEW m \in Mail \cup {NoId}, NEW lane \in Lane, Insert(s, m, lane)
        PROVE  OneTry'
    BY <1>1 DEF Insert, OneTry
  <1>2. ASSUME NEW i \in DOMAIN msgs, Delete(i) PROVE OneTry'
    BY <1>2 DEF Delete, OneTry
  <1>3. CASE LoopStep
    <2>1. \A it \in loop'.items : it \in Item /\ (it \in loop.items \/ AsRead(it))
      BY <1>3, LoopEffect DEF LoopTyped
    <2>2. \A it, o \in loop'.items : it.id = o.id => it = o
      BY <2>1, OneItem DEF OneTry, RowAsRead, AsRead
    <2>3. \A it \in loop'.items, h \in hd : h.item.id = it.id => h.pc = "backoff"
      BY <2>1 DEF OneTry, RowAsRead, AsRead
    <2> QED BY <1>3, <2>2, <2>3, LoopFrame DEF OneTry
  <1>4. ASSUME NEW it \in loop.items, Mark(it) PROVE OneTry'
    <2> DEFINE new == [item |-> it, pc |-> "call", transient |-> FALSE]
    <2>1. loop'.items = loop.items \ {it} /\ hd' = hd \cup {new} /\ new.item = it
      BY <1>4, MarkEffect
    <2> HIDE DEF new
    <2> QED BY <2>1 DEF OneTry
  <1>5. ASSUME NEW h \in hd, HandlerStep(h) PROVE OneTry'
    BY <1>5, HandlerHd, HandlerFrame DEF OneTry, HandlerMoves
  <1>6. CASE Crash
    BY <1>6, CrashEffect DEF OneTry
  <1>7. CASE Aside
    BY <1>7, AsideFrame DEF OneTry
  <1> QED BY <1>1, <1>2, <1>3, <1>4, <1>5, <1>6, <1>7, Kinds

\* Only a goroutine at one of its two queue statements changes a row.
LEMMA RowWriters ==
    ASSUME TypeOK, NEW h \in hd, HandlerStep(h), queue' # queue
    PROVE  QueueDone(h) \/ Fail(h)
  BY DEF HandlerStep, Handle, Enriched, EnrichFails, Store, StoreFails, Succeed, MessageDone,
         MessageError, BackOff, StatusFails, dbVars

\* The goroutine that goes on keeps its row as its item says.
LEMMA WorkedRow ==
    ASSUME TypeOK, RowAsRead, NEW h \in hd, HandlerStep(h), h.item.id \in DOMAIN queue,
           NEW g \in hd', g \notin hd
    PROVE  /\ queue'[h.item.id].status = "pending" => g.pc = "backoff"
           /\ g.pc \in {"call", "store", "ok", "queue", "fail"} =>
                 /\ queue'[h.item.id].status = "processing"
                 /\ queue'[h.item.id].tries = h.item.tries + 1
  <1>0. h \in Handler
    BY DEF TypeOK
  <1>1. CASE Enriched(h) \/ Store(h) \/ Succeed(h)
    BY <1>0, <1>1 DEF Enriched, Store, Succeed, Go, RowAsRead, dbVars, Handler
  <1>2. CASE StoreFails(h) \/ \E transient \in BOOLEAN : EnrichFails(h, transient)
    BY <1>0, <1>2 DEF StoreFails, EnrichFails, Lost, RowAsRead, dbVars, Handler
  <1>3. CASE QueueDone(h)
    BY <1>0, <1>3, SetQueueTyped DEF QueueDone, Go, Handler
  <1>4. CASE Fail(h)
    <2>1. CASE GivesUp(h.item)
      BY <1>0, <1>4, <2>1, SetQueueTyped DEF Fail, Go, Handler
    <2>2. CASE ~GivesUp(h.item)
      BY <1>0, <1>4, <2>2, SetQueueTyped DEF Fail, Go, Handler
    <2> QED BY <2>1, <2>2
  <1>5. CASE MessageDone(h) \/ BackOff(h)
    BY <1>5 DEF MessageDone, BackOff, Exit
  <1>6. CASE MessageError(h)
    BY <1>0, <1>6 DEF MessageError, Go, Handler, RowAsRead
  <1>7. CASE StatusFails(h)
    BY <1>0, <1>7 DEF StatusFails, Go, Exit, Handler, RowAsRead, dbVars
  <1> QED BY <1>1, <1>2, <1>3, <1>4, <1>5, <1>6, <1>7 DEF HandlerStep, Handle

LEMMA RowStep == ASSUME TypeOK, Fresh, LoopShape, OneTry, RowAsRead, [Next]_vars PROVE RowAsRead'
  <1>0. loop.items \subseteq Item /\ \A h \in hd : h.item \in Item
    BY DEF TypeOK, Handler
  <1>1. ASSUME NEW s \in Slot, NEW m \in Mail \cup {NoId}, NEW lane \in Lane, Insert(s, m, lane)
        PROVE  RowAsRead'
    <2>1. Inserted(s, m)
      BY <1>1, InsertEffect
    <2>2. \A i \in Id : i < nextId /\ i \in DOMAIN queue' => i \in DOMAIN queue /\ queue'[i] = queue[i]
      BY <2>1, ParamAssumption DEF Inserted, Id
    <2> QED BY <1>0, <2>1, <2>2 DEF RowAsRead, Fresh, Item, Inserted
  <1>2. ASSUME NEW i \in DOMAIN msgs, Delete(i) PROVE RowAsRead'
    <2>1. Deleted(i)
      BY <1>2, DeleteEffect
    <2> QED BY <2>1 DEF RowAsRead, Deleted
  <1>3. CASE LoopStep
    <2>1. CASE queue' = queue
      BY <1>3, <2>1, LoopFrame, LoopEffect DEF RowAsRead, AsRead
    <2>2. CASE queue' # queue
      <3>1. hd' = {} /\ loop'.items = {}
        BY <1>3, <2>2, LoopFrame, LoopEffect DEF LoopShape
      <3> QED BY <3>1 DEF RowAsRead
    <2> QED BY <2>1, <2>2
  <1>4. ASSUME NEW it \in loop.items, Mark(it) PROVE RowAsRead'
    <2> DEFINE new == [item |-> it, pc |-> "call", transient |-> FALSE]
    <2>1. loop'.items = loop.items \ {it} /\ hd' = hd \cup {new} /\ new.item = it /\ new.pc = "call"
      BY <1>4, MarkEffect
    <2> HIDE DEF new
    <2>2. /\ DOMAIN queue' = DOMAIN queue
          /\ \A j \in DOMAIN queue : j # it.id => queue'[j] = queue[j]
          /\ it.id \in DOMAIN queue => /\ queue'[it.id].status = "processing"
                                       /\ queue'[it.id].tries = queue[it.id].tries + 1
      BY <1>0, <1>4, MarkedRow DEF Mark
    <2>3. \A o \in loop'.items : o \in loop.items /\ o.id # it.id
      BY <2>1 DEF OneTry
    <2>4. \A h \in hd : h.item.id = it.id => h.pc = "backoff"
      BY DEF OneTry
    <2> QED BY <2>1, <2>2, <2>3, <2>4 DEF RowAsRead
  <1>5. ASSUME NEW h \in hd, HandlerStep(h) PROVE RowAsRead'
    <2>1. /\ loop' = loop /\ DOMAIN queue' = DOMAIN queue
          /\ \A i \in DOMAIN queue : i # h.item.id => queue'[i] = queue[i]
      BY <1>5, HandlerFrame
    <2>2. queue' # queue => h.pc # "backoff"
      BY <1>5, RowWriters DEF QueueDone, Fail
    <2>3. \A it \in loop.items : it.id \in DOMAIN queue => queue'[it.id] = queue[it.id]
      BY <2>1, <2>2 DEF OneTry
    <2>4. \A k \in hd : k # h /\ k.pc # "backoff" /\ k.item.id \in DOMAIN queue =>
              queue'[k.item.id] = queue[k.item.id]
      BY <2>1, <2>2 DEF OneTry
    <2>5. ASSUME NEW g \in hd', g.item.id \in DOMAIN queue
          PROVE  /\ queue'[g.item.id].status = "pending" => g.pc = "backoff"
                 /\ g.pc \in {"call", "store", "ok", "queue", "fail"} =>
                       /\ queue'[g.item.id].status = "processing"
                       /\ queue'[g.item.id].tries = g.item.tries + 1
      <3>1. CASE g \in hd /\ g # h
        BY <2>4, <2>5, <3>1 DEF RowAsRead
      <3>2. CASE g \notin hd
        <4>1. g.item = h.item
          BY <1>5, <3>2, HandlerHd DEF HandlerMoves
        <4> QED BY <1>5, <2>5, <3>2, <4>1, WorkedRow
      <3>3. g # h
        BY <1>5, HandlerHd DEF HandlerMoves
      <3> QED BY <3>1, <3>2, <3>3
    <2> QED BY <2>1, <2>3, <2>5 DEF RowAsRead
  <1>6. CASE Crash
    BY <1>6, CrashEffect DEF RowAsRead
  <1>7. CASE Aside
    BY <1>7, AsideFrame DEF RowAsRead, dbVars
  <1> QED BY <1>1, <1>2, <1>3, <1>4, <1>5, <1>6, <1>7, Kinds

-------------------------------------------------------------------------------
(* Tries. *)

\* A row that is given up is given up after as many tries as it counts.
LEMMA FailCounts ==
    ASSUME TypeOK, RowAsRead, Counted, NEW h \in hd, Fail(h), h.item.id \in DOMAIN queue
    PROVE  /\ queue'[h.item.id].status = "pending" => queue'[h.item.id].tries <= Spent(h.item.id)
           /\ queue'[h.item.id].status = "error" => MaxAttempts <= Spent(h.item.id)
           /\ queue'[h.item.id].status \in {"pending", "error"}
  <1>0. /\ h.item.tries \in Nat /\ h.item.id \in Id /\ Spent(h.item.id) \in Nat
        /\ queue[h.item.id].tries \in Nat /\ MaxAttempts \in Nat
    BY ParamAssumption DEF TypeOK, Handler, Item, Spent, QueueRow
  <1>1. h.item.tries + 1 <= Spent(h.item.id) /\ queue[h.item.id].tries = h.item.tries + 1
    BY DEF Fail, Counted, RowAsRead
  <1>2. CASE GivesUp(h.item)
    <2>1. queue'[h.item.id].status = "error"
      BY <1>2, SetQueueTyped DEF Fail
    <2> QED BY <1>0, <1>1, <1>2, <2>1 DEF GivesUp
  <1>3. CASE ~GivesUp(h.item)
    <2>1. queue'[h.item.id].status = "pending" /\ queue'[h.item.id].tries = queue[h.item.id].tries
      BY <1>3, SetQueueTyped DEF Fail
    <2> QED BY <1>0, <1>1, <2>1
  <1> QED BY <1>2, <1>3

\* A goroutine comes to fail by a failed try.
LEMMA FailsAfterTry ==
    ASSUME TypeOK, NEW h \in hd, HandlerStep(h), NEW g \in hd', g \notin hd, g.pc = "fail"
    PROVE  bad'[h.item.id] = bad[h.item.id] + 1
  <1>0. h \in Handler
    BY DEF TypeOK
  <1>1. CASE StoreFails(h) \/ \E transient \in BOOLEAN : EnrichFails(h, transient)
    BY <1>1, LostTyped DEF StoreFails, EnrichFails
  <1>2. CASE \E pc \in {"store", "ok", "queue", "message", "error", "backoff"} : Go(h, pc)
    BY <1>0, <1>2 DEF Go, Handler
  <1>3. CASE Exit(h)
    BY <1>3 DEF Exit
  <1> QED BY <1>1, <1>2, <1>3 DEF HandlerStep, Handle, Enriched, Store, Succeed, QueueDone, Fail,
             MessageError, MessageDone, BackOff, StatusFails

LEMMA CountedStep ==
    ASSUME TypeOK, TypeOK', Fresh, LoopShape, OneTry, RowAsRead, Counted, [Next]_vars
    PROVE  Counted'
  <1>0. /\ loop.items \subseteq Item /\ \A h \in hd : h.item \in Item
        /\ \A i \in Id : bad[i] \in Nat /\ Spent(i) \in Nat
        /\ used.crash \in Nat /\ MaxAttempts \in Nat
        /\ \A i \in DOMAIN queue : i \in Id /\ queue[i].tries \in Nat
    BY ParamAssumption DEF TypeOK, Handler, Spent, QueueRow
  <1>1. ASSUME NEW s \in Slot, NEW m \in Mail \cup {NoId}, NEW lane \in Lane, Insert(s, m, lane)
        PROVE  Counted'
    <2>1. Inserted(s, m)
      BY <1>1, InsertEffect
    <2>2. \A i \in Id : Spent(i)' = Spent(i)
      BY <2>1 DEF Inserted, Spent
    <2>3. ASSUME NEW i \in DOMAIN queue'
          PROVE  \/ i = nextId /\ i \in Id /\ queue'[i].status = "pending" /\ queue'[i].tries = 0
                 \/ i \in DOMAIN queue /\ queue'[i] = queue[i]
      BY <2>1 DEF Inserted
    <2>4. loop' = loop /\ hd' = hd
      BY <2>1 DEF Inserted
    <2> QED BY <1>0, <2>2, <2>3, <2>4 DEF Counted, Item
  <1>2. ASSUME NEW i \in DOMAIN msgs, Delete(i) PROVE Counted'
    <2>1. Deleted(i)
      BY <1>2, DeleteEffect
    <2>2. \A j \in Id : Spent(j)' = Spent(j)
      BY <2>1 DEF Deleted, Spent
    <2> QED BY <1>0, <2>1, <2>2 DEF Counted, Deleted, Item
  <1>3. CASE LoopStep
    <2>1. /\ hd' = hd /\ \A i \in Id : Spent(i)' = Spent(i)
          /\ loop'.pc # "down"
          /\ \A it \in loop'.items : it.id \in Id /\ (it \in loop.items \/ AsRead(it))
      BY <1>3, LoopFrame, LoopEffect DEF Spent, LoopTyped, Item
    <2>2. \A it \in loop'.items : it.tries <= Spent(it.id)'
      BY <2>1 DEF Counted, AsRead
    <2>3. CASE queue' = queue
      BY <1>0, <2>1, <2>2, <2>3 DEF Counted, Item
    <2>4. CASE queue' = Requeued /\ loop.pc = "down"
      <3>1. /\ DOMAIN queue' = DOMAIN queue
            /\ \A i \in DOMAIN queue :
                  /\ queue'[i].tries = queue[i].tries
                  /\ queue'[i].status = IF queue[i].status = "processing" THEN "pending"
                                        ELSE queue[i].status
        BY <2>4, RequeuedRows
      <3> QED BY <1>0, <2>1, <2>2, <2>4, <3>1 DEF Counted, Item
    <2> QED BY <1>3, <2>3, <2>4, LoopFrame
  <1>4. ASSUME NEW it \in loop.items, Mark(it) PROVE Counted'
    <2> DEFINE new == [item |-> it, pc |-> "call", transient |-> FALSE]
    <2>1. /\ loop'.items = loop.items \ {it} /\ hd' = hd \cup {new}
          /\ new.item = it /\ new.pc = "call" /\ loop'.pc = "mark"
          /\ \A i \in Id : Spent(i)' = Spent(i)
      BY <1>4, MarkEffect DEF Spent
    <2> HIDE DEF new
    <2>2. /\ DOMAIN queue' = DOMAIN queue
          /\ \A j \in DOMAIN queue : j # it.id => queue'[j] = queue[j]
          /\ it.id \in DOMAIN queue => /\ queue'[it.id].status = "processing"
                                       /\ queue'[it.id].tries = queue[it.id].tries + 1
      BY <1>0, <1>4, MarkedRow DEF Mark
    <2>3. it.id \in DOMAIN queue => queue[it.id].tries <= Spent(it.id)
      BY DEF RowAsRead, Counted
    <2>4. loop.pc = "mark"
      BY <1>4 DEF Mark
    <2> QED BY <1>0, <2>1, <2>2, <2>3, <2>4 DEF Counted, Item
  <1>5. ASSUME NEW h \in hd, HandlerStep(h) PROVE Counted'
    <2>1. /\ loop' = loop /\ DOMAIN queue' = DOMAIN queue
          /\ \A i \in DOMAIN queue : i # h.item.id => queue'[i] = queue[i]
          /\ \A i \in DOMAIN queue : queue'[i].tries = queue[i].tries
          /\ used'.crash = used.crash /\ \A i \in Id : bad[i] <= bad'[i] /\ bad'[i] \in Nat
      BY <1>5, HandlerFrame
    <2>2. \A i \in Id : Spent(i) \in Nat /\ Spent(i)' \in Nat /\ Spent(i) <= Spent(i)'
      BY <1>0, <2>1 DEF Spent
    <2>3. ASSUME NEW i \in DOMAIN queue
          PROVE  /\ queue'[i].status = "pending" => queue'[i].tries <= Spent(i)'
                 /\ queue'[i].status = "processing" =>
                       queue'[i].tries <= Spent(i)' + IF loop'.pc = "down" THEN 0 ELSE 1
                 /\ queue'[i].status = "error" => MaxAttempts <= Spent(i)'
      <3>1. CASE queue'[i] = queue[i]
        BY <1>0, <2>1, <2>2, <3>1 DEF Counted
      <3>2. CASE queue'[i] # queue[i] /\ QueueDone(h)
        <4>1. queue'[i].status = "done"
          BY <2>1, <3>2, SetQueueTyped DEF QueueDone
        <4> QED BY <4>1
      <3>3. CASE queue'[i] # queue[i] /\ Fail(h)
        BY <1>0, <2>1, <2>2, <3>3, FailCounts
      <3> QED BY <1>5, <3>1, <3>2, <3>3, RowWriters
    <2>4. ASSUME NEW g \in hd'
          PROVE  /\ g.item.tries <= Spent(g.item.id)'
                 /\ g.pc = "fail" => g.item.tries + 1 <= Spent(g.item.id)'
      <3>1. CASE g \in hd
        BY <1>0, <2>2, <3>1 DEF Counted, Item
      <3>2. CASE g \notin hd
        <4>1. g.item = h.item
          BY <1>5, <3>2, HandlerHd DEF HandlerMoves
        <4>2. g.pc = "fail" => Spent(h.item.id)' = Spent(h.item.id) + 1
          BY <1>0, <1>5, <2>1, <3>2, FailsAfterTry DEF Spent, Item
        <4>3. h.item.tries <= Spent(h.item.id) /\ h.item.id \in Id /\ h.item.tries \in Nat
          BY <1>0 DEF Counted, Item
        <4> QED BY <2>2, <4>1, <4>2, <4>3
      <3> QED BY <3>1, <3>2
    <2>5. \A it \in loop.items : it.tries <= Spent(it.id)'
      BY <1>0, <2>2 DEF Counted, Item
    <2> QED BY <2>1, <2>3, <2>4, <2>5 DEF Counted
  <1>6. CASE Crash
    <2>1. /\ UNCHANGED queue /\ hd' = {} /\ loop'.items = {} /\ loop'.pc = "down" /\ loop.pc # "down"
          /\ \A i \in Id : Spent(i)' = Spent(i) + 1
      BY <1>0, <1>6, CrashEffect DEF Spent, dbVars
    <2> QED BY <1>0, <2>1 DEF Counted
  <1>7. CASE Aside
    <2>1. UNCHANGED <<queue, hd, loop>> /\ \A i \in Id : Spent(i)' = Spent(i)
      BY <1>7, AsideFrame DEF Spent, dbVars
    <2> QED BY <1>0, <2>1 DEF Counted, Item
  <1> QED BY <1>1, <1>2, <1>3, <1>4, <1>5, <1>6, <1>7, Kinds

-------------------------------------------------------------------------------
(* What messages and rows say. *)

\* Past applyResult, a goroutine's message has its embedding.
LEMMA StoredFirst ==
    ASSUME TypeOK, Embedded, NEW h \in hd, HandlerStep(h), NEW g \in hd', g \notin hd,
           g.pc \in {"ok", "queue", "message"}, h.item.id \in DOMAIN msgs
    PROVE  h.item.id \in vec'
  <1>0. h \in Handler
    BY DEF TypeOK
  <1>1. CASE Store(h)
    BY <1>1 DEF Store
  <1>2. CASE Succeed(h) \/ QueueDone(h) \/ StatusFails(h)
    BY <1>0, <1>2 DEF Succeed, QueueDone, StatusFails, Go, Exit, Embedded, Handler, dbVars
  <1>3. CASE StoreFails(h) \/ \E transient \in BOOLEAN : EnrichFails(h, transient)
    <2>1. PICK transient \in BOOLEAN : Lost(h, transient)
      BY <1>3 DEF StoreFails, EnrichFails
    <2>2. g = [h EXCEPT !.pc = "fail", !.transient = transient]
      BY <2>1 DEF Lost
    <2>3. g.pc = "fail"
      BY <1>0, <2>2 DEF Handler
    <2> QED BY <2>3
  <1>4. CASE \E pc \in {"store", "error", "backoff"} : Go(h, pc)
    BY <1>0, <1>4 DEF Go, Handler
  <1>5. CASE Exit(h)
    BY <1>5 DEF Exit
  <1> QED BY <1>1, <1>2, <1>3, <1>4, <1>5 DEF HandlerStep, Handle, Enriched, Fail,
             MessageError, MessageDone, BackOff

\* Only the two message statements of a goroutine change a message.
LEMMA MessageWriters ==
    ASSUME TypeOK, NEW h \in hd, HandlerStep(h), msgs' # msgs
    PROVE  MessageDone(h) \/ MessageError(h)
  BY DEF HandlerStep, Handle, Enriched, EnrichFails, Store, StoreFails, Succeed, QueueDone,
         Fail, BackOff, StatusFails, dbVars

LEMMA EmbeddedStep ==
    ASSUME TypeOK, Fresh, LoopShape, Embedded, [Next]_vars PROVE Embedded'
  <1>1. ASSUME NEW s \in Slot, NEW m \in Mail \cup {NoId}, NEW lane \in Lane, Insert(s, m, lane)
        PROVE  Embedded'
    <2>1. Inserted(s, m)
      BY <1>1, InsertEffect
    <2>2. \A h \in hd : h.item.id # nextId
      BY DEF Fresh, TypeOK, Handler, Item, Id
    <2> QED BY <2>1, <2>2 DEF Embedded, DoneIsEmbedded, Inserted
  <1>2. ASSUME NEW i \in DOMAIN msgs, Delete(i) PROVE Embedded'
    <2>1. Deleted(i)
      BY <1>2, DeleteEffect
    <2> QED BY <2>1 DEF Embedded, DoneIsEmbedded, Deleted
  <1>3. CASE LoopStep
    BY <1>3, LoopFrame DEF Embedded, DoneIsEmbedded
  <1>4. ASSUME NEW it \in loop.items, Mark(it) PROVE Embedded'
    BY <1>4, MarkEffect DEF Embedded, DoneIsEmbedded
  <1>5. ASSUME NEW h \in hd, HandlerStep(h) PROVE Embedded'
    <2>1. /\ DOMAIN msgs' = DOMAIN msgs /\ vec \subseteq vec'
          /\ \A i \in DOMAIN msgs : i # h.item.id => msgs'[i] = msgs[i]
      BY <1>5, HandlerFrame
    <2>2. ASSUME NEW i \in DOMAIN msgs, msgs'[i].status = "done" PROVE i \in vec'
      <3>1. CASE msgs'[i] = msgs[i]
        BY <2>1, <2>2, <3>1 DEF Embedded, DoneIsEmbedded
      <3>2. CASE msgs'[i] # msgs[i] /\ MessageDone(h)
        BY <2>1, <3>2 DEF MessageDone, Embedded
      <3>3. CASE msgs'[i] # msgs[i] /\ MessageError(h)
        <4>1. msgs'[i].status = "error"
          BY <2>1, <3>3, SetMessageTyped DEF MessageError
        <4> QED BY <2>2, <4>1
      <3> QED BY <1>5, <3>1, <3>2, <3>3, MessageWriters
    <2>3. ASSUME NEW g \in hd', g.pc \in {"ok", "queue", "message"}, g.item.id \in DOMAIN msgs
          PROVE  g.item.id \in vec'
      <3>1. CASE g \in hd
        BY <2>1, <2>3, <3>1 DEF Embedded
      <3>2. CASE g \notin hd
        <4>1. g.item = h.item
          BY <1>5, <3>2, HandlerHd DEF HandlerMoves
        <4> QED BY <1>5, <2>3, <3>2, <4>1, StoredFirst
      <3> QED BY <3>1, <3>2
    <2> QED BY <2>1, <2>2, <2>3 DEF Embedded, DoneIsEmbedded
  <1>6. CASE Crash
    BY <1>6, CrashEffect DEF Embedded, DoneIsEmbedded, dbVars
  <1>7. CASE Aside
    BY <1>7, AsideFrame DEF Embedded, DoneIsEmbedded, dbVars
  <1> QED BY <1>1, <1>2, <1>3, <1>4, <1>5, <1>6, <1>7, Kinds

\* A mail that is put on the queue is on no other row.
LEMMA QueuedOnceStep ==
    ASSUME TypeOK, Fresh, LoopShape, MailQueuedOnce, [Next]_vars PROVE MailQueuedOnce'
  <1>0. DOMAIN queue \subseteq DOMAIN msgs
    BY DEF TypeOK
  <1>1. ASSUME NEW s \in Slot, NEW m \in Mail \cup {NoId}, NEW lane \in Lane, Insert(s, m, lane)
        PROVE  MailQueuedOnce'
    <2>1. Inserted(s, m)
      BY <1>1, InsertEffect
    <2>2. ASSUME NEW i \in DOMAIN queue', i # nextId
          PROVE  i \in DOMAIN queue /\ msgs[i].slot # s /\ msgs'[i] = msgs[i]
      BY <1>0, <2>1, <2>2 DEF Inserted, Replaced
    <2>3. ASSUME nextId \in DOMAIN queue', m # NoId, NEW i \in DOMAIN queue', i # nextId
          PROVE  msgs'[i].mail # m
      BY <2>1, <2>2, <2>3 DEF Inserted, QueuedElsewhere
    <2>4. msgs'[nextId].mail = m
      BY <2>1 DEF Inserted
    <2> QED BY <2>2, <2>3, <2>4 DEF MailQueuedOnce
  <1>2. ASSUME NEW i \in DOMAIN msgs, Delete(i) PROVE MailQueuedOnce'
    <2>1. Deleted(i)
      BY <1>2, DeleteEffect
    <2> QED BY <1>0, <2>1 DEF Deleted, MailQueuedOnce
  <1>3. CASE LoopStep
    BY <1>3, LoopFrame, RequeuedRows DEF MailQueuedOnce
  <1>4. ASSUME NEW it \in loop.items, Mark(it) PROVE MailQueuedOnce'
    <2>1. DOMAIN queue' = DOMAIN queue /\ msgs' = msgs
      BY <1>4, MarkEffect, MarkedRow DEF Mark
    <2> QED BY <2>1 DEF MailQueuedOnce
  <1>5. ASSUME NEW h \in hd, HandlerStep(h) PROVE MailQueuedOnce'
    <2>1. DOMAIN queue' = DOMAIN queue /\ \A i \in DOMAIN msgs : msgs'[i].mail = msgs[i].mail
      BY <1>5, HandlerFrame
    <2> QED BY <1>0, <2>1 DEF MailQueuedOnce
  <1>6. CASE Crash
    BY <1>6, CrashEffect DEF MailQueuedOnce, dbVars
  <1>7. CASE Aside
    BY <1>7, AsideFrame DEF MailQueuedOnce, dbVars
  <1> QED BY <1>1, <1>2, <1>3, <1>4, <1>5, <1>6, <1>7, Kinds


\* A goroutine that goes on is the only one that is new.
LEMMA WentOn ==
    ASSUME TypeOK, NEW h \in hd, NEW pc, Go(h, pc)
    PROVE  \E g \in hd' : g.item = h.item /\ g.pc = pc /\ \A k \in hd' : k \notin hd => k = g
  <1>1. h \in Handler
    BY DEF TypeOK
  <1>2. [h EXCEPT !.pc = pc].item = h.item /\ [h EXCEPT !.pc = pc].pc = pc
    BY <1>1 DEF Handler
  <1>3. hd' = (hd \ {h}) \cup {[h EXCEPT !.pc = pc]}
    BY DEF Go
  <1> DEFINE g == [h EXCEPT !.pc = pc]
  <1> HIDE DEF g
  <1> QED BY <1>2, <1>3 DEF g

\* A goroutine that ran one of its statements leaves its row and its message in
\* agreement, but for the one statement it has yet to run.
LEMMA WorkedAgrees ==
    ASSUME TypeOK, OneTry, RowAsRead, NEW h \in hd, Handle(h), h.item.id \in DOMAIN queue,
           \A i \in DOMAIN queue : RowAgrees(i), HandlerAgrees(h)
    PROVE  /\ RowAgrees(h.item.id)'
           /\ \A g \in hd' : g \notin hd => HandlerAgrees(g)'
  <1> DEFINE i == h.item.id
  <1>0. h \in Handler /\ i \in DOMAIN msgs
    BY DEF TypeOK
  <1>h. \A g \in hd' : g \notin hd => g.item = h.item
    BY HandlerHd DEF HandlerMoves, HandlerStep
  <1>1. ASSUME queue' = queue, msgs' = msgs, h.pc \notin {"message", "error"}
        PROVE  RowAgrees(i)'
    <2>1. \A k \in hd : k.pc \in {"message", "error"} => k \in hd'
      BY <1>1, HandlerHd DEF HandlerMoves, HandlerStep
    <2>2. RowAgrees(i)
      OBVIOUS
    <2> QED BY <1>1, <2>1, <2>2 DEF RowAgrees, Between
  <1>2. CASE \/ Enriched(h) \/ Store(h) \/ StoreFails(h) \/ Succeed(h) \/ BackOff(h)
             \/ \E transient \in BOOLEAN : EnrichFails(h, transient)
    <2>1. queue' = queue /\ msgs' = msgs /\ h.pc \notin {"message", "error"}
      BY <1>2 DEF Enriched, Store, StoreFails, Succeed, BackOff, EnrichFails, dbVars
    <2>2. ASSUME NEW g \in hd', g \notin hd PROVE g.pc \notin {"message", "error"}
      <3>1. CASE StoreFails(h) \/ \E transient \in BOOLEAN : EnrichFails(h, transient)
        <4>1. PICK transient \in BOOLEAN : Lost(h, transient)
          BY <3>1 DEF StoreFails, EnrichFails
        <4>2. g = [h EXCEPT !.pc = "fail", !.transient = transient]
          BY <2>2, <4>1 DEF Lost
        <4> QED BY <1>0, <4>2 DEF Handler
      <3>2. CASE Enriched(h) \/ Store(h) \/ Succeed(h) \/ BackOff(h)
        BY <1>0, <2>2, <3>2 DEF Enriched, Store, Succeed, BackOff, Go, Exit, Handler
      <3> QED BY <1>2, <3>1, <3>2
    <2> QED BY <1>1, <2>1, <2>2 DEF HandlerAgrees
  <1>3. CASE QueueDone(h) \/ Fail(h)
    <2>1. queue[i].status = "processing"
      BY <1>3 DEF QueueDone, Fail, RowAsRead
    <2>2. msgs' = msgs /\ msgs[i].status = "pending"
      BY <1>3, <2>1 DEF QueueDone, Fail, RowAgrees
    <2>3. PICK g \in hd' : /\ g.item = h.item /\ \A k \in hd' : k \notin hd => k = g
                           /\ \/ queue'[i].status = "done" /\ g.pc = "message"
                              \/ queue'[i].status = "error" /\ g.pc = "error"
                              \/ queue'[i].status = "pending" /\ g.pc = "backoff"
      <3>1. CASE QueueDone(h)
        <4>1. queue'[i].status = "done"
          BY <3>1, SetQueueTyped DEF QueueDone
        <4> QED BY <3>1, <4>1, WentOn DEF QueueDone
      <3>2. CASE Fail(h) /\ GivesUp(h.item)
        <4>1. queue'[i].status = "error"
          BY <3>2, SetQueueTyped DEF Fail
        <4>2. Go(h, "error")
          BY <3>2 DEF Fail
        <4> QED BY <4>1, <4>2, WentOn
      <3>3. CASE Fail(h) /\ ~GivesUp(h.item)
        <4>1. queue'[i].status = "pending"
          BY <3>3, SetQueueTyped DEF Fail
        <4>2. Go(h, "backoff")
          BY <3>3 DEF Fail
        <4> QED BY <4>1, <4>2, WentOn
      <3> QED BY <1>3, <3>1, <3>2, <3>3
    <2>4. RowAgrees(i)'
      BY <2>2, <2>3 DEF RowAgrees, Between
    <2>5. HandlerAgrees(g)'
      BY <2>3 DEF HandlerAgrees
    <2> QED BY <2>3, <2>4, <2>5
  <1>4. CASE MessageDone(h)
    <2>1. queue' = queue /\ queue[i].status = "done" /\ hd' = hd \ {h}
      BY <1>4 DEF MessageDone, HandlerAgrees, Exit
    <2>2. msgs'[i].status = "done"
      BY <1>0, <1>4, SetMessageTyped DEF MessageDone
    <2> QED BY <2>1, <2>2 DEF RowAgrees
  <1>5. CASE MessageError(h)
    <2>1. queue' = queue /\ queue[i].status = "error"
      BY <1>5 DEF MessageError, HandlerAgrees
    <2>2. msgs'[i].status = "error"
      BY <1>0, <1>5, SetMessageTyped DEF MessageError
    <2>3. \A g \in hd' : g \notin hd => g.pc = "backoff"
      BY <1>0, <1>5 DEF MessageError, Go, Handler
    <2> QED BY <2>1, <2>2, <2>3 DEF RowAgrees, HandlerAgrees
  <1> QED BY <1>2, <1>3, <1>4, <1>5 DEF Handle

LEMMA AgreeingStep ==
    ASSUME TypeOK, TypeOK', Fresh, LoopShape, OneTry, RowAsRead, Agreeing, [Next]_vars
    PROVE  Agreeing'
  <1>0. /\ used.crash \in Nat /\ used.fault \in Nat /\ used'.crash \in Nat /\ used'.fault \in Nat
        /\ DOMAIN queue \subseteq DOMAIN msgs
    BY DEF TypeOK
  <1> SUFFICES ASSUME used'.crash + used'.fault = 0
               PROVE  (\A i \in DOMAIN queue' : RowAgrees(i)') /\ \A h \in hd' : HandlerAgrees(h)'
    BY DEF Agreeing
  <1>z. used'.crash = 0 /\ used'.fault = 0
    BY <1>0
  <1>a. ASSUME used.crash = 0, used.fault = 0
        PROVE  (\A i \in DOMAIN queue : RowAgrees(i)) /\ \A h \in hd : HandlerAgrees(h)
    BY <1>a DEF Agreeing
  <1>1. ASSUME NEW s \in Slot, NEW m \in Mail \cup {NoId}, NEW lane \in Lane, Insert(s, m, lane)
        PROVE  (\A i \in DOMAIN queue' : RowAgrees(i)') /\ \A h \in hd' : HandlerAgrees(h)'
    <2>1. Inserted(s, m)
      BY <1>1, InsertEffect
    <2>2. (\A i \in DOMAIN queue : RowAgrees(i)) /\ \A h \in hd : HandlerAgrees(h)
      BY <1>z, <1>a, <2>1 DEF Inserted
    <2>3. ASSUME NEW i \in DOMAIN queue' PROVE RowAgrees(i)'
      <3>1. CASE i = nextId
        BY <2>1, <3>1 DEF Inserted, RowAgrees
      <3>2. CASE i # nextId
        <4>1. i \in DOMAIN queue /\ queue'[i] = queue[i] /\ msgs'[i] = msgs[i] /\ hd' = hd
          BY <1>0, <2>1, <3>2 DEF Inserted
        <4> QED BY <2>2, <4>1 DEF RowAgrees, Between
      <3> QED BY <3>1, <3>2
    <2>4. ASSUME NEW h \in hd PROVE HandlerAgrees(h)'
      <3>1. h.item.id # nextId
        BY DEF Fresh, TypeOK, Handler, Item, Id
      <3> QED BY <2>1, <2>2, <3>1 DEF HandlerAgrees, Inserted
    <2> QED BY <2>1, <2>3, <2>4 DEF Inserted
  <1>2. ASSUME NEW i \in DOMAIN msgs, Delete(i)
        PROVE  (\A j \in DOMAIN queue' : RowAgrees(j)') /\ \A h \in hd' : HandlerAgrees(h)'
    <2>1. Deleted(i)
      BY <1>2, DeleteEffect
    <2>2. (\A j \in DOMAIN queue : RowAgrees(j)) /\ \A h \in hd : HandlerAgrees(h)
      BY <1>z, <1>a, <2>1 DEF Deleted
    <2>3. ASSUME NEW j \in DOMAIN queue' PROVE RowAgrees(j)'
      <3>1. j \in DOMAIN queue /\ queue'[j] = queue[j] /\ msgs'[j] = msgs[j] /\ hd' = hd
        BY <1>0, <2>1 DEF Deleted
      <3> QED BY <2>2, <3>1 DEF RowAgrees, Between
    <2> QED BY <2>1, <2>2, <2>3 DEF HandlerAgrees, Deleted
  <1>3. CASE LoopStep
    <2>1. /\ (\A i \in DOMAIN queue : RowAgrees(i)) /\ \A h \in hd : HandlerAgrees(h)
          /\ msgs' = msgs /\ hd' = hd
      BY <1>z, <1>3, <1>a, LoopFrame
    <2>2. CASE queue' = queue
      BY <2>1, <2>2 DEF RowAgrees, HandlerAgrees, Between
    <2>3. CASE queue' = Requeued /\ loop.pc = "down"
      <3>1. hd = {} /\ DOMAIN queue' = DOMAIN queue
        BY <2>3, RequeuedRows DEF LoopShape
      <3>2. ASSUME NEW i \in DOMAIN queue PROVE RowAgrees(i)'
        <4>1. RowAgrees(i) /\ queue'[i].status = IF queue[i].status = "processing" THEN "pending"
                                                 ELSE queue[i].status
          BY <2>1, <2>3, RequeuedRows
        <4> QED BY <2>1, <4>1 DEF RowAgrees, Between
      <3> QED BY <2>1, <3>1, <3>2
    <2> QED BY <1>3, <2>2, <2>3, LoopFrame
  <1>4. ASSUME NEW it \in loop.items, Mark(it)
        PROVE  (\A i \in DOMAIN queue' : RowAgrees(i)') /\ \A h \in hd' : HandlerAgrees(h)'
    <2> DEFINE new == [item |-> it, pc |-> "call", transient |-> FALSE]
    <2>1. /\ hd' = hd \cup {new} /\ new.pc = "call" /\ msgs' = msgs /\ used' = used /\ it \in Item
      BY <1>4, MarkEffect
    <2> HIDE DEF new
    <2>2. (\A i \in DOMAIN queue : RowAgrees(i)) /\ \A h \in hd : HandlerAgrees(h)
      BY <1>z, <1>a, <2>1
    <2>3. /\ DOMAIN queue' = DOMAIN queue
          /\ \A j \in DOMAIN queue : j # it.id => queue'[j] = queue[j]
          /\ it.id \in DOMAIN queue => /\ queue'[it.id].status = "processing"
                                       /\ queue[it.id].status = "pending"
      BY <1>4, <2>1, MarkedRow DEF Mark, RowAsRead
    <2>4. ASSUME NEW i \in DOMAIN queue PROVE RowAgrees(i)'
      <3>1. CASE i = it.id
        BY <2>1, <2>2, <2>3, <3>1 DEF RowAgrees
      <3>2. CASE i # it.id
        BY <2>1, <2>2, <2>3, <3>2 DEF RowAgrees, Between
      <3> QED BY <3>1, <3>2
    <2>5. ASSUME NEW h \in hd' PROVE HandlerAgrees(h)'
      <3>1. CASE h.pc \in {"message", "error"}
        <4>1. h \in hd /\ h.item.id # it.id
          BY <2>1, <3>1 DEF OneTry
        <4> QED BY <2>2, <2>3, <4>1 DEF HandlerAgrees
      <3>2. CASE h.pc \notin {"message", "error"}
        BY <3>2 DEF HandlerAgrees
      <3> QED BY <3>1, <3>2
    <2> QED BY <2>3, <2>4, <2>5
  <1>5. ASSUME NEW h \in hd, HandlerStep(h)
        PROVE  (\A i \in DOMAIN queue' : RowAgrees(i)') /\ \A k \in hd' : HandlerAgrees(k)'
    <2>1. used' = used /\ Handle(h)
      BY <1>z, <1>5, HandlerFrame, FaultCounts DEF HandlerStep, StatusFails
    <2>2. (\A i \in DOMAIN queue : RowAgrees(i)) /\ \A k \in hd : HandlerAgrees(k)
      BY <1>z, <1>a, <2>1
    <2>3. /\ DOMAIN queue' = DOMAIN queue
          /\ \A i \in DOMAIN queue : i # h.item.id => queue'[i] = queue[i]
          /\ \A i \in DOMAIN msgs : i # h.item.id => msgs'[i] = msgs[i]
      BY <1>5, HandlerFrame
    <2>4. \A k \in hd : k # h => k \in hd'
      BY <1>5, HandlerHd DEF HandlerMoves
    <2>5. ASSUME NEW i \in DOMAIN queue PROVE RowAgrees(i)'
      <3>1. CASE i = h.item.id
        BY <2>1, <2>2, <3>1, WorkedAgrees
      <3>2. CASE i # h.item.id
        <4>1. RowAgrees(i) /\ queue'[i] = queue[i] /\ msgs'[i] = msgs[i]
          BY <1>0, <2>2, <2>3, <3>2
        <4> QED BY <2>4, <3>2, <4>1 DEF RowAgrees, Between
      <3> QED BY <3>1, <3>2
    <2>6. ASSUME NEW k \in hd' PROVE HandlerAgrees(k)'
      <3>1. CASE k \in hd
        <4>1. k # h
          BY <1>5, HandlerHd DEF HandlerMoves
        <4>2. k.pc # "backoff" => (k.item.id \in DOMAIN queue => queue'[k.item.id] = queue[k.item.id])
          <5>1. queue' # queue => h.pc # "backoff"
            BY <1>5, RowWriters DEF QueueDone, Fail
          <5> QED BY <2>3, <3>1, <4>1, <5>1 DEF OneTry
        <4> QED BY <2>2, <2>3, <3>1, <4>2 DEF HandlerAgrees
      <3>2. CASE k \notin hd
        <4>1. k.item = h.item
          BY <1>5, <3>2, HandlerHd DEF HandlerMoves
        <4>2. CASE h.item.id \in DOMAIN queue
          BY <2>1, <2>2, <3>2, <4>2, WorkedAgrees
        <4>3. CASE h.item.id \notin DOMAIN queue
          BY <2>3, <4>1, <4>3 DEF HandlerAgrees
        <4> QED BY <4>2, <4>3
      <3> QED BY <3>1, <3>2
    <2> QED BY <2>3, <2>5, <2>6
  <1>6. CASE Crash
    <2>1. used'["crash"] = used["crash"] + 1
      BY <1>6, CrashEffect
    <2> QED BY <1>0, <1>z, <2>1
  <1>7. CASE Aside
    <2>1. UNCHANGED <<dbVars, hd>> /\ used.crash = 0 /\ used.fault = 0
      BY <1>z, <1>7, AsideFrame
    <2> QED BY <1>a, <2>1 DEF RowAgrees, HandlerAgrees, Between, dbVars
  <1> QED BY <1>1, <1>2, <1>3, <1>4, <1>5, <1>6, <1>7, Kinds

-------------------------------------------------------------------------------
(* The invariant, and what follows from it. *)

LEMMA InitInv == ASSUME Init PROVE Inv
  <1>1. /\ msgs = Empty /\ queue = Empty /\ DOMAIN Empty = {} /\ vec = {} /\ hd = {}
        /\ nextId = 1 /\ backoff = FALSE /\ trigger = 0 /\ bad = [i \in Id |-> 0]
        /\ used = [delete |-> 0, trigger |-> 0, crash |-> 0, fault |-> 0]
    BY DEF Init, Empty
  <1>2. /\ loop.pc = "down" /\ loop.items = {} /\ loop.group = {}
    BY AtTyped DEF Init
  <1>3. loop \in [pc : {"down", "idle", "room", "mark"}, size : Nat, forced : BOOLEAN,
                  items : SUBSET Item, lane : Lane, group : SUBSET Item]
    BY AtTyped DEF Init
  <1>4. msgs \in [DOMAIN msgs -> Message] /\ queue \in [DOMAIN queue -> QueueRow]
    BY <1>1 DEF Empty
  <1>5. used \in [{"delete", "trigger", "crash", "fault"} -> Nat]
    BY <1>1
  <1>6. TypeOK
    <2>1. DOMAIN msgs = {} /\ DOMAIN queue = {} /\ bad \in [Id -> Nat] /\ nextId \in Nat \ {0}
      BY <1>1
    <2>2. hd \subseteq Handler /\ backoff \in BOOLEAN /\ trigger \in Limits \cup {0}
      BY <1>1
    <2> QED BY <1>1, <1>3, <1>4, <1>5, <2>1, <2>2 DEF TypeOK
  <1>7. Fresh /\ LoopShape /\ OneTry /\ RowAsRead /\ Counted
    BY <1>1, <1>2 DEF Fresh, LoopShape, OneTry, RowAsRead, Counted
  <1>8. Embedded /\ Agreeing /\ MailQueuedOnce
    BY <1>1 DEF Embedded, DoneIsEmbedded, Agreeing, MailQueuedOnce
  <1> QED BY <1>6, <1>7, <1>8 DEF Inv

LEMMA InvStep == ASSUME Inv, [Next]_vars PROVE Inv'
  <1>1. TypeOK' /\ Fresh'
    BY TypeStep DEF Inv
  <1>2. LoopShape' /\ OneTry' /\ RowAsRead'
    BY ShapeStep, OneTryStep, RowStep DEF Inv
  <1>3. Counted' /\ Agreeing'
    BY <1>1, CountedStep, AgreeingStep DEF Inv
  <1>4. Embedded' /\ MailQueuedOnce'
    BY EmbeddedStep, QueuedOnceStep DEF Inv
  <1> QED BY <1>1, <1>2, <1>3, <1>4 DEF Inv

LEMMA InvHolds == Spec => []Inv
  <1>1. Init => Inv
    BY InitInv
  <1>2. Inv /\ [Next]_vars => Inv'
    BY InvStep
  <1> QED BY <1>1, <1>2, PTL DEF Spec

\* The tables, the loop's locals and the goroutines keep their types
\* (TypeOK; pipeline.go).
THEOREM TypeCorrect == Spec => []TypeOK
  <1>1. Inv => TypeOK
    BY DEF Inv
  <1> QED BY <1>1, InvHolds, PTL

\* However copies come and go, a mail is on the queue once; and no backfill is
\* worked on together with new mail unless a statement failed (QueueIsFair;
\* MessageRepo.Insert in cache.go, process in pipeline.go).
THEOREM FairQueue == Spec => []QueueIsFair
  <1>1. Inv => QueueIsFair
    BY DEF Inv, LoopShape, QueueIsFair, NewFirst
  <1> QED BY <1>1, InvHolds, PTL

\* Done means embedded, given up means tried max_attempts times, and row and
\* message agree whenever nobody works on them (Outcomes; handle and fail in
\* pipeline.go).
THEOREM TrueOutcomes == Spec => []Outcomes
  <1>1. ASSUME Inv PROVE GivenUpAfterFailures
    BY <1>1 DEF Inv, Counted, GivenUpAfterFailures, Spent
  <1>2. ASSUME Inv, used.crash + used.fault = 0 PROVE StatusAgrees
    BY <1>2 DEF Inv, Agreeing, RowAgrees, Between, StatusAgrees, TypeOK, QueueRow
  <1>3. Inv => Outcomes
    BY <1>1, <1>2 DEF Inv, Embedded, Outcomes
  <1> QED BY <1>3, InvHolds, PTL
===============================================================================
