---------------------------- MODULE EventStream ----------------------------
(***************************************************************************)
(* The event bus (internal/bus) and the event stream of the REST API       *)
(* (internal/api/server.go).  A publisher calls the bus's handlers in its  *)
(* own goroutine; the API's handler copies the list of clients under the   *)
(* lock and offers the event to each, without waiting for a slow one.      *)
(* Clients come and go meanwhile, and write what their channel holds.      *)
(***************************************************************************)
EXTENDS Integers, Sequences, SequencesExt

CONSTANTS
    Publisher,      \* goroutines that publish
    Client,         \* connections to /api/events; one that comes again is another
    Buffer,         \* the capacity of a client's channel (32)
    MaxEvents       \* bound: events of a publisher, and of any two together

ParamAssumption == Buffer \in Nat /\ MaxEvents \in Nat

VARIABLES
    sseChans,   \* the clients registered, in the order they came
    channel,    \* [Client -> events in its channel]
    written,    \* [Client -> events its handler wrote]
    conn,       \* [Client -> "new", "on" or "gone"]
    turn,       \* [Publisher -> events begun, the clients copied, how many were served]
    due,        \* [Client -> events published to the end while it was registered]
    dropped     \* [Client -> events its full channel did not take]

streamVars == <<sseChans, channel, written, conn, turn, due, dropped>>

Init ==
    /\ sseChans = <<>> /\ channel = [c \in Client |-> <<>>] /\ written = [c \in Client |-> <<>>]
    /\ conn = [c \in Client |-> "new"]
    /\ turn = [p \in Publisher |-> [event |-> 0, busy |-> FALSE, clients |-> <<>>, served |-> 0]]
    /\ due = [c \in Client |-> {}] /\ dropped = [c \in Client |-> {}]

\* addSSEClient, by the handler of a new connection.
Connect(c) ==
    /\ conn[c] = "new" /\ conn' = [conn EXCEPT ![c] = "on"] /\ sseChans' = Append(sseChans, c)
    /\ UNCHANGED <<channel, written, turn, due, dropped>>

\* The handler takes an event and writes it; it leaves when the write fails,
\* or when the request ends.
Write(c) ==
    /\ conn[c] = "on" /\ channel[c] # <<>>
    /\ written' = [written EXCEPT ![c] = Append(@, Head(channel[c]))]
    /\ channel' = [channel EXCEPT ![c] = Tail(@)]
    /\ UNCHANGED <<sseChans, conn, turn, due, dropped>>

\* removeSSEClient: the list without this client, which is in it once.
Leave(c) ==
    /\ conn[c] = "on" /\ conn' = [conn EXCEPT ![c] = "gone"]
    /\ \E i \in DOMAIN sseChans : sseChans[i] = c /\ sseChans' = RemoveAt(sseChans, i)
    /\ UNCHANGED <<channel, written, turn, due, dropped>>

-----------------------------------------------------------------------------
(* Publish: the copy, then one client after the other.                     *)

Publish(p) ==
    /\ ~turn[p].busy /\ turn[p].event < MaxEvents
    /\ \A q \in Publisher \ {p} : turn[p].event + turn[q].event < MaxEvents
    /\ turn' = [turn EXCEPT ![p] = [event |-> @.event + 1, busy |-> TRUE, clients |-> sseChans, served |-> 0]]
    /\ UNCHANGED <<sseChans, channel, written, conn, due, dropped>>

\* Variant: the list itself is gone through, which shifts when a client leaves.
ToServeNow(p) == SubSeq(sseChans, turn[p].served + 1, Len(sseChans))
ToServe(p) == SubSeq(turn[p].clients, turn[p].served + 1, Len(turn[p].clients))

Event(p) == <<p, turn[p].event>>

\* A full channel drops the event.
Offered(c, e) == IF Len(channel[c]) < Buffer THEN Append(channel[c], e) ELSE channel[c]

Offer(p) ==
    /\ turn[p].busy /\ ToServe(p) # <<>>
    /\ LET c == Head(ToServe(p)) IN
       /\ channel' = [channel EXCEPT ![c] = Offered(c, Event(p))]
       /\ dropped' = [dropped EXCEPT ![c] = IF Len(channel[c]) < Buffer THEN @ ELSE @ \cup {Event(p)}]
    /\ turn' = [turn EXCEPT ![p].served = @ + 1]
    /\ UNCHANGED <<sseChans, written, conn, due>>

Published(p) ==
    /\ turn[p].busy /\ ToServe(p) = <<>>
    /\ turn' = [turn EXCEPT ![p].busy = FALSE, ![p].clients = <<>>, ![p].served = 0]
    /\ due' = [c \in Client |-> IF conn[c] = "on" /\ c \in Range(turn[p].clients) THEN due[c] \cup {Event(p)} ELSE due[c]]
    /\ UNCHANGED <<sseChans, channel, written, conn, dropped>>

Serve(p) == Publish(p) \/ Offer(p) \/ Published(p)

Next ==
    \/ \E p \in Publisher : Serve(p)
    \/ \E c \in Client : Connect(c) \/ Write(c) \/ Leave(c)

Spec == Init /\ [][Next]_streamVars

\* Publishers run; what a client reads, and when, is its own affair.
FairSpec == Spec /\ \A p \in Publisher : WF_streamVars(Serve(p))

-----------------------------------------------------------------------------
Taken(c) == written[c] \o channel[c]

\* The variables keep their types, and a channel its capacity.
TypeOK ==
    /\ Range(sseChans) = {c \in Client : conn[c] = "on"}
    /\ \A c \in Client : Len(channel[c]) <= Buffer
    /\ \A p \in Publisher : turn[p].event \in 0..MaxEvents

\* A client that is there while an event is published gets it once, unless its
\* channel was full (server.go:69-74), and gets the events of one publisher in
\* the order they were published, whoever else comes and goes meanwhile.
NoneMissed ==
    \A c \in Client :
       /\ due[c] \subseteq Range(Taken(c)) \cup dropped[c]
       /\ dropped[c] \cap Range(Taken(c)) = {}
       /\ \A i, j \in DOMAIN Taken(c) : i < j /\ Taken(c)[i][1] = Taken(c)[j][1] => Taken(c)[i][2] < Taken(c)[j][2]

\* No client keeps a publisher waiting (server.go:72).
Serving(p) == turn[p].busy
BusGoesOn == \A p \in Publisher : Serving(p) ~> ~Serving(p)
=============================================================================
