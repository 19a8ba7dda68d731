------------------------------- MODULE ConnPool -------------------------------
(***************************************************************************)
(* The pool of IMAP connections, one per account (internal/imap/pool.go),  *)
(* and the goroutines that share it: callers (the syncer, the scanner, a   *)
(* service call, the inbound watcher), the keepalive and the shutdown.     *)
(*                                                                         *)
(* Two kinds of lock are taken: p.mu over the map of connections, and each *)
(* connection's own mutex, held over whole IMAP commands.  A read of the   *)
(* map holds p.mu for no other step, so readers are not counted.  A        *)
(* connection is a number: reconnecting makes a new one.                   *)
(***************************************************************************)
EXTENDS Naturals, FiniteSets

CONSTANTS
    Account,  \* the configured accounts
    Caller,   \* goroutines that use a connection for a while
    MaxDrop   \* bound on connections the server drops and dials it refuses

ParamAssumption ==
    /\ IsFiniteSet(Account)
    /\ MaxDrop \in Nat
    /\ Caller \cap {"keepalive", "main", "none"} = {}

VARIABLES
    conns,    \* p.conns: the connection of each account, 0 when there is none
    pool,     \* who holds p.mu as a writer
    link,     \* each connection made: open, dropped by the server, or closed
    owner,    \* who holds each connection's mutex
    th,       \* each goroutine's locals
    drops     \* how many of them there were

vars == <<conns, pool, link, owner, th, drops>>

Thread == Caller \cup {"keepalive", "main"}
\* One at startup, one for each drop, one made while Close is running.
Conn == 1..(Cardinality(Account) + MaxDrop + 1)
Free == "none"

PC == {"idle", "resolve", "lock", "use", "names", "connect", "writer", "swap",
       "close", "ended"}
\* todo: the accounts keepalive or Close has still to visit.
Local == [pc : PC, acct : SUBSET Account, conn : Conn \cup {0}, todo : SUBSET Account]
Idle == [pc |-> "idle", acct |-> {}, conn |-> 0, todo |-> {}]

Connected == {a \in Account : conns[a] # 0}

\* Connect has run before any goroutine starts: an account it could not reach
\* is not in the map.
Init ==
    /\ \E S \in SUBSET Account : \E f \in [S -> 1..Cardinality(S)] :
         /\ \A a, b \in S : a # b => f[a] # f[b]
         /\ conns = [a \in Account |-> IF a \in S THEN f[a] ELSE 0]
         /\ link = [c \in 1..Cardinality(S) |-> "open"]
         /\ owner = [c \in 1..Cardinality(S) |-> Free]
    /\ pool = Free
    /\ th = [t \in Thread |-> Idle]
    /\ drops = 0

Goto(t, local) == th' = [th EXCEPT ![t] = local]

-------------------------------------------------------------------------------
(* A caller, and the part of keepalive's ping that is the same. *)

Call(t, a) ==
    /\ th[t].pc = "idle"
    /\ Goto(t, [Idle EXCEPT !.pc = "resolve", !.acct = {a}])
    /\ UNCHANGED <<conns, pool, link, owner, drops>>

\* Get, under p.mu for reading: an account that is not connected is an error.
Resolve(t) ==
    /\ th[t].pc = "resolve"
    /\ pool = Free
    /\ \E a \in th[t].acct :
         Goto(t, IF conns[a] = 0 THEN Idle
                 ELSE [th[t] EXCEPT !.pc = "lock", !.conn = conns[a]])
    /\ UNCHANGED <<conns, pool, link, owner, drops>>

\* Conn.Lock.
TakeConn(t) ==
    /\ th[t].pc = "lock"
    /\ owner[th[t].conn] = Free
    /\ owner' = [owner EXCEPT ![th[t].conn] = t]
    /\ Goto(t, [th[t] EXCEPT !.pc = "use"])
    /\ UNCHANGED <<conns, pool, link, drops>>

\* The caller's commands are answered or fail, and it unlocks.
EndUse(t) ==
    /\ th[t].pc = "use"
    /\ owner' = [owner EXCEPT ![th[t].conn] = Free]
    /\ Goto(t, Idle)
    /\ UNCHANGED <<conns, pool, link, drops>>

-------------------------------------------------------------------------------
(* StartKeepalive. *)

KeepaliveAt(pc) == Goto("keepalive", [th["keepalive"] EXCEPT !.pc = pc])

\* The ticker fires: AccountNames.
Tick ==
    /\ th["keepalive"].pc = "idle"
    /\ pool = Free
    /\ Connected # {}
    /\ Goto("keepalive", [Idle EXCEPT !.pc = "names", !.todo = Connected])
    /\ UNCHANGED <<conns, pool, link, owner, drops>>

\* Get the next name, to ping it.
NextName(a) ==
    /\ th["keepalive"].pc = "names"
    /\ a \in th["keepalive"].todo
    /\ pool = Free
    /\ Goto("keepalive", [pc |-> "lock", acct |-> {a}, conn |-> conns[a],
                          todo |-> th["keepalive"].todo \ {a}])
    /\ UNCHANGED <<conns, pool, link, owner, drops>>

NoMoreNames ==
    /\ th["keepalive"].pc = "names"
    /\ th["keepalive"].todo = {}
    /\ Goto("keepalive", Idle)
    /\ UNCHANGED <<conns, pool, link, owner, drops>>

\* (Faulty variant: the error is logged and forgotten.)
PingIgnored ==
    /\ th["keepalive"].pc = "use"
    /\ owner' = [owner EXCEPT ![th["keepalive"].conn] = Free]
    /\ KeepaliveAt("names")
    /\ UNCHANGED <<conns, pool, link, drops>>

\* ping: a NOOP under the connection's lock.
Ping ==
    /\ th["keepalive"].pc = "use"
    /\ owner' = [owner EXCEPT ![th["keepalive"].conn] = Free]
    /\ KeepaliveAt(IF link[th["keepalive"].conn] = "open" THEN "names" ELSE "connect")
    /\ UNCHANGED <<conns, pool, link, drops>>

\* reconnectOnce dials and logs in, with no lock held.
Dial ==
    /\ th["keepalive"].pc = "connect"
    /\ Cardinality(DOMAIN link) + 1 \in Conn
    /\ LET new == Cardinality(DOMAIN link) + 1
       IN /\ link' = [c \in 1..new |-> IF c = new THEN "open" ELSE link[c]]
          /\ owner' = [c \in 1..new |-> IF c = new THEN Free ELSE owner[c]]
          /\ Goto("keepalive", [th["keepalive"] EXCEPT !.pc = "writer", !.conn = new])
    /\ UNCHANGED <<conns, pool, drops>>

DialFails ==
    /\ th["keepalive"].pc = "connect" /\ drops < MaxDrop /\ drops' = drops + 1
    /\ KeepaliveAt("names")
    /\ UNCHANGED <<conns, pool, link, owner>>

TakePool ==
    /\ th["keepalive"].pc = "writer"
    /\ pool = Free
    /\ pool' = "keepalive"
    /\ KeepaliveAt("swap")
    /\ UNCHANGED <<conns, link, owner, drops>>

\* (Faulty variant: the old client is closed without its lock.)
SwapUnlocked(a) ==
    /\ th["keepalive"].pc = "swap"
    /\ a \in th["keepalive"].acct
    /\ link' = [link EXCEPT ![conns[a]] = "closed"]
    /\ conns' = [conns EXCEPT ![a] = th["keepalive"].conn]
    /\ pool' = Free
    /\ KeepaliveAt("names")
    /\ UNCHANGED <<owner, drops>>

\* Still under p.mu: close the old client under its own lock, put the new one
\* in the map.
Swap(a) ==
    /\ th["keepalive"].pc = "swap"
    /\ a \in th["keepalive"].acct
    /\ owner[conns[a]] = Free
    /\ link' = [link EXCEPT ![conns[a]] = "closed"]
    /\ conns' = [conns EXCEPT ![a] = th["keepalive"].conn]
    /\ pool' = Free
    /\ KeepaliveAt("names")
    /\ UNCHANGED <<owner, drops>>

-------------------------------------------------------------------------------
(* Close, when the process is told to stop; then the process ends. *)

Stop ==
    /\ th["main"].pc = "idle"
    /\ pool = Free
    /\ pool' = "main"
    /\ Goto("main", [Idle EXCEPT !.pc = "close", !.todo = Connected])
    /\ UNCHANGED <<conns, link, owner, drops>>

CloseConn(a) ==
    /\ th["main"].pc = "close"
    /\ a \in th["main"].todo
    /\ owner[conns[a]] = Free
    /\ link' = [link EXCEPT ![conns[a]] = "closed"]
    /\ Goto("main", [th["main"] EXCEPT !.todo = @ \ {a}])
    /\ UNCHANGED <<conns, pool, owner, drops>>

Ended ==
    /\ th["main"].pc = "close"
    /\ th["main"].todo = {}
    /\ pool' = Free
    /\ Goto("main", [th["main"] EXCEPT !.pc = "ended"])
    /\ UNCHANGED <<conns, link, owner, drops>>

-------------------------------------------------------------------------------
\* The server or the network drops a connection.
Drop(c) ==
    /\ drops < MaxDrop
    /\ link[c] = "open"
    /\ link' = [link EXCEPT ![c] = "dropped"]
    /\ drops' = drops + 1
    /\ UNCHANGED <<conns, pool, owner, th>>

Running == th["main"].pc # "ended"

CallerStep(t) == Running /\ (Resolve(t) \/ TakeConn(t) \/ EndUse(t))

KeepaliveStep ==
    /\ Running
    /\ \/ \E a \in Account : NextName(a) \/ Swap(a)
       \/ NoMoreNames \/ TakeConn("keepalive") \/ Ping \/ Dial \/ TakePool

CloseStep == Ended \/ \E a \in Account : CloseConn(a)

Next ==
    \/ \E t \in Caller : CallerStep(t)
    \/ Running /\ \E t \in Caller, a \in Account : Call(t, a)
    \/ Running /\ (Tick \/ DialFails)
    \/ KeepaliveStep
    \/ Stop
    \/ CloseStep
    \/ Running /\ \E c \in DOMAIN link : Drop(c)

Spec == Init /\ [][Next]_vars

\* The keepalive ticks for ever; a goroutine waiting for a mutex gets it if it
\* comes free again and again (Go's mutexes hand over to the longest waiter);
\* commands end.
FairSpec ==
    /\ Spec
    /\ WF_vars(Running /\ Tick)
    /\ SF_vars(KeepaliveStep)
    /\ SF_vars(CloseStep)
    /\ \A t \in Caller : SF_vars(CallerStep(t))
-------------------------------------------------------------------------------
(* Properties. *)

\* The type invariant: the map, the locks and every goroutine's locals.
TypeOK ==
    /\ conns \in [Account -> DOMAIN link \cup {0}]
    /\ pool \in {Free, "keepalive", "main"}
    /\ DOMAIN link \subseteq Conn
    /\ link \in [DOMAIN link -> {"open", "dropped", "closed"}]
    /\ owner \in [DOMAIN link -> Thread \cup {Free}]
    /\ th \in [Thread -> Local]
    /\ drops \in 0..MaxDrop

\* No connection is closed under a goroutine that is using it (reconnectOnce,
\* Close: the client is closed under the connection's own lock).
ClosesUnused == \A c \in DOMAIN link : link[c] # "closed" /\ link'[c] = "closed" => owner[c] = Free
NotClosedInUse == [][ClosesUnused]_vars

\* Two accounts never share a connection, and a closed one leaves the map with
\* the step that closes it, until Close: no caller is handed a connection that
\* reconnectOnce has given up (reconnectOnce, Get).
MapIsCurrent ==
    /\ \A a, b \in Connected : conns[a] = conns[b] => a = b
    /\ th["main"].pc = "idle" => \A a \in Connected : link[conns[a]] # "closed"

\* Every call gets its connection, uses it and returns, whatever the keepalive
\* does: the two kinds of lock are never waited for in a circle.
Busy(t) == Running /\ th[t].pc # "idle"
EveryCallEnds == \A t \in Caller : Busy(t) ~> ~Busy(t)

\* A dropped connection is replaced (StartKeepalive).
Lost(a) == th["main"].pc = "idle" /\ a \in Connected /\ link[conns[a]] = "dropped"
Heals == \A a \in Account : Lost(a) ~> ~Lost(a)

\* The process can always stop: Close gets every connection's lock.
Closing == th["main"].pc = "close"
Stops == Closing ~> ~Closing
===============================================================================
