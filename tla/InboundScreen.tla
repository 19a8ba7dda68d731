---------------------------- MODULE InboundScreen -----------------------------
(***************************************************************************)
(* A `screen` command through the inbound command channel (hmac mode).     *)
(*                                                                         *)
(* The watcher polls an account with the connection's mutex held           *)
(* (internal/inbound/watcher.go, pollAccount).  A verified command is      *)
(* published on the bus, whose handlers run in the publishing goroutine    *)
(* (internal/bus/bus.go, Publish); the screener's handler resolves the     *)
(* account's connection and locks it, to find Trash, to move the held mail *)
(* and to append the confirmation (internal/service/screenmail.go,         *)
(* HandleInboundScreen; screener.go, Screen).  ConnPool's caller is the    *)
(* watcher, and its steps serve for the handler's connection too.          *)
(***************************************************************************)
EXTENDS ConnPool

VARIABLE outer  \* the connection pollAccount holds while a handler runs, or 0

screenVars == <<conns, pool, link, owner, th, drops, outer>>

ScreenInit == Init /\ outer = 0

\* Process publishes inbound.command: Screen asks the pool for the account the
\* command names.  A poll whose connection was dropped finds no command.
ScreenCommand(t, a) ==
    /\ th[t].pc = "use"
    /\ outer = 0
    /\ link[th[t].conn] = "open"
    /\ outer' = th[t].conn
    /\ Goto(t, [Idle EXCEPT !.pc = "resolve", !.acct = {a}])
    /\ UNCHANGED <<conns, pool, link, owner, drops>>

\* The handler returns to pollAccount, which still holds its connection.
ScreenReturns(t) ==
    /\ outer # 0
    /\ th[t].pc = "idle"
    /\ outer' = 0
    /\ Goto(t, [Idle EXCEPT !.pc = "use", !.conn = outer])
    /\ UNCHANGED <<conns, pool, link, owner, drops>>

WatcherStep(t) ==
    \/ CallerStep(t) /\ UNCHANGED outer
    \/ Running /\ ScreenReturns(t)

ScreenNext ==
    \/ \E t \in Caller : WatcherStep(t)
    \/ Running /\ outer = 0 /\ \E t \in Caller, a \in Account : Call(t, a) /\ UNCHANGED outer
    \/ Running /\ \E t \in Caller, a \in Account : ScreenCommand(t, a)
    \/ Running /\ (Tick \/ DialFails) /\ UNCHANGED outer
    \/ (KeepaliveStep \/ Stop \/ CloseStep) /\ UNCHANGED outer
    \/ Running /\ \E c \in DOMAIN link : Drop(c) /\ UNCHANGED outer

\* The watcher's goroutine is scheduled, and so is the keepalive's.
ScreenSpec ==
    /\ ScreenInit /\ [][ScreenNext]_screenVars
    /\ \A t \in Caller : SF_screenVars(WatcherStep(t))
    /\ SF_screenVars(KeepaliveStep /\ UNCHANGED outer)

\* A verified screen command is carried out: its handler returns to the
\* watcher (HandleInboundScreen), unless the process is told to stop.
ScreenCommandEnds == (outer # 0) ~> (outer = 0 \/ th["main"].pc # "idle")
===============================================================================
