--------------------------- MODULE DeliveryContract ---------------------------
(***************************************************************************)
(* What the webhook outbox promises of each delivery (docs/webhooks.md,    *)
(* "Delivery guarantees"), whatever the dispatcher, the database and the   *)
(* process do: it is marked delivered only if the receiver accepted it, it *)
(* is given up only after Limit recorded attempts, it is never forgotten   *)
(* while pending unless its webhook is closed, and no id is used twice.    *)
(***************************************************************************)
EXTENDS Naturals

CONSTANTS
    Delivery,   \* delivery ids
    Hook,       \* webhooks
    Limit       \* recorded attempts before a delivery is given up

VARIABLES
    live,       \* the deliveries on record: id -> webhook, status, attempts
    spent,      \* ids ever used
    accepted,   \* deliveries the receiver has answered with success
    closed      \* webhooks that were deleted

vars == <<live, spent, accepted, closed>>

Pending(d) == d \in DOMAIN live /\ live[d].status = "pending"
Done == {d \in DOMAIN live : ~Pending(d)}
Keep(D) == [d \in D |-> live[d]]

Init ==
    /\ live = [d \in {} |-> FALSE]
    /\ spent = {}
    /\ accepted = {}
    /\ closed = {}

\* An event is queued for a webhook that exists.
Queue(d, h) ==
    /\ d \notin spent
    /\ h \notin closed
    /\ live' = [c \in DOMAIN live \cup {d} |->
                   IF c = d THEN [hook |-> h, status |-> "pending", tries |-> 0]
                   ELSE live[c]]
    /\ spent' = spent \cup {d}
    /\ UNCHANGED <<accepted, closed>>

\* The receiver accepts a request: at least once, so perhaps again, and
\* perhaps after the delivery was forgotten with its webhook.
Accept(d) ==
    /\ d \in spent
    /\ d \notin Done
    /\ accepted' = accepted \cup {d}
    /\ UNCHANGED <<live, spent, closed>>

\* An attempt is recorded.
Record(d, status) ==
    /\ Pending(d)
    /\ live' = [live EXCEPT ![d].status = status, ![d].tries = @ + 1]
    /\ UNCHANGED <<spent, accepted, closed>>

Confirm(d) == d \in accepted /\ Record(d, "delivered")
Retry(d) == Record(d, "pending") /\ live[d].tries + 1 < Limit
GiveUp(d) == Record(d, "failed") /\ live[d].tries + 1 = Limit

\* The history of finished deliveries is kept for a while only.
Forget(S) ==
    /\ live' = Keep(DOMAIN live \ S)
    /\ UNCHANGED <<spent, accepted, closed>>

\* A deleted webhook takes its deliveries along.
Close(h) ==
    /\ closed' = closed \cup {h}
    /\ live' = Keep({d \in DOMAIN live : live[d].hook # h})
    /\ UNCHANGED <<spent, accepted>>

Next ==
    \/ \E d \in Delivery : \/ \E h \in Hook : Queue(d, h)
                           \/ Accept(d) \/ Confirm(d) \/ Retry(d) \/ GiveUp(d)
    \/ \E S \in SUBSET Done : Forget(S)
    \/ \E h \in Hook : Close(h)

Spec == Init /\ [][Next]_vars
===============================================================================
