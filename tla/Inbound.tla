------------------------------- MODULE Inbound --------------------------------
(***************************************************************************)
(* The inbound command channel of one account: the watcher of each process *)
(* polls the same folder (internal/inbound/watcher.go), the verifier runs  *)
(* the gates and records the command's nonce (internal/trust/trust.go,     *)
(* internal/db/nonces.go), and the processor publishes the outcome         *)
(* (internal/inbound/processor.go).                                        *)
(*                                                                         *)
(* `imap-mcp serve` and `imap-mcp` over stdio each start a watcher, and    *)
(* share the state DB.  A mail here carries a command envelope: ordinary   *)
(* mail is passed over by hasEnvelope.                                     *)
(***************************************************************************)
EXTENDS Naturals, FiniteSets

CONSTANTS
    Proc,      \* processes that watch the account
    Mail,      \* command mails, by UID
    Nonce,     \* the nonces they carry; two mails may carry the same one
    NonceOf,   \* [Mail -> Nonce]
    Trusted,   \* mails that pass the gates of sender, signature and verb
    MaxUpset,  \* bound on crashes, failures and mails marked unread again
    MaxEvent   \* events of one mail are counted up to this bound

ASSUME ParamAssumption ==
    /\ Mail \subseteq Nat
    /\ NonceOf \in [Mail -> Nonce]
    /\ Trusted \subseteq Mail
    /\ MaxUpset \in Nat
    /\ MaxEvent \in Nat \ {0, 1}

VARIABLES
    delivered,  \* mails in the watched folder
    seen,       \* those with the \Seen flag
    expired,    \* commands, by nonce, whose timestamp has left the replay window
    nonces,     \* table inbound_nonces
    honoured,   \* [Mail -> Nat]: inbound.command events published
    rejected,   \* mails for which inbound.rejected was published
    watcher,    \* each process's watcher
    upset       \* crashes, failures and unread marks so far

vars == <<delivered, seen, expired, nonces, honoured, rejected, watcher, upset>>

NoMail == 0
Watcher == [pc : {"idle", "list", "publish", "mark"}, uids : SUBSET Mail,
            mail : Mail \cup {NoMail}, triggered : BOOLEAN]
Idle == [pc |-> "idle", uids |-> {}, mail |-> NoMail, triggered |-> FALSE]

Init ==
    /\ delivered = {} /\ seen = {} /\ expired = {} /\ nonces = {}
    /\ honoured = [m \in Mail |-> 0] /\ rejected = {}
    /\ watcher = [p \in Proc |-> Idle]
    /\ upset = 0

Goto(p, w) == watcher' = [watcher EXCEPT ![p] = w]
Count(n) == IF n < MaxEvent THEN n + 1 ELSE n
Upset == upset < MaxUpset /\ upset' = upset + 1

-------------------------------------------------------------------------------
(* The mailbox and the clock. *)

\* A mail arrives, with the next UID or a later one.
Deliver(m) ==
    /\ \A n \in delivered : n < m
    /\ delivered' = delivered \cup {m}
    /\ UNCHANGED <<seen, expired, nonces, honoured, rejected, watcher, upset>>

\* The owner marks a handled mail unread.
MarkUnread(m) ==
    /\ m \in seen
    /\ Upset
    /\ seen' = seen \ {m}
    /\ UNCHANGED <<delivered, expired, nonces, honoured, rejected, watcher>>

Expire(n) ==
    /\ n \notin expired
    /\ expired' = expired \cup {n}
    /\ UNCHANGED <<delivered, seen, nonces, honoured, rejected, watcher, upset>>

-------------------------------------------------------------------------------
(* pollAccount. *)

\* UIDSearch of the unseen mails.
Poll(p) ==
    /\ watcher[p].pc = "idle"
    /\ delivered \ seen # {}
    /\ Goto(p, [Idle EXCEPT !.pc = "list", !.uids = delivered \ seen])
    /\ UNCHANGED <<delivered, seen, expired, nonces, honoured, rejected, upset>>

\* The mails of the list are fetched in the order of their UIDs.
NextMail(p, m) ==
    /\ watcher[p].pc = "list"
    /\ m \in watcher[p].uids
    /\ \A n \in watcher[p].uids : m <= n

FetchFails(p, m) ==
    /\ NextMail(p, m)
    /\ Upset
    /\ Goto(p, [watcher[p] EXCEPT !.uids = @ \ {m}])
    /\ UNCHANGED <<delivered, seen, expired, nonces, honoured, rejected>>

\* The gates of sender, signature and verb, and the replay window.
Passes(m) == m \in Trusted /\ NonceOf[m] \notin expired

\* The INSERT of a nonce; one that was there already is left as it was.
SeenOrRecord(n) == nonces' = nonces \cup {n}

Evaluated(p, m, triggered) ==
    Goto(p, [watcher[p] EXCEPT !.pc = "publish", !.uids = @ \ {m}, !.mail = m,
                               !.triggered = triggered])

\* (Faulty variant: a nonce that is already there counts as fresh.)
EvaluateIgnored(p, m) ==
    /\ NextMail(p, m)
    /\ nonces' = nonces \cup {NonceOf[m]}
    /\ Evaluated(p, m, Passes(m))
    /\ UNCHANGED <<delivered, seen, expired, honoured, rejected, upset>>

\* (Faulty variant: the mail is marked before its outcome is published.)
EvaluateMarks(p, m) ==
    /\ NextMail(p, m)
    /\ nonces' = nonces \cup {NonceOf[m]}
    /\ Evaluated(p, m, Passes(m) /\ NonceOf[m] \notin nonces)
    /\ seen' = seen \cup {m}
    /\ UNCHANGED <<delivered, expired, honoured, rejected, upset>>

\* (Faulty variant: the nonce is looked up after it is recorded.)
EvaluateRecordsFirst(p, m) ==
    /\ NextMail(p, m)
    /\ nonces' = nonces \cup {NonceOf[m]}
    /\ Evaluated(p, m, Passes(m) /\ NonceOf[m] \notin nonces')
    /\ UNCHANGED <<delivered, seen, expired, honoured, rejected, upset>>

\* Evaluate: the gates, the window, and the INSERT of the nonce, which is made
\* whatever the other gates said.
Evaluate(p, m) ==
    /\ NextMail(p, m)
    /\ SeenOrRecord(NonceOf[m])
    /\ Evaluated(p, m, Passes(m) /\ NonceOf[m] \notin nonces)
    /\ UNCHANGED <<delivered, seen, expired, honoured, rejected, upset>>

\* The nonce store fails: the gate fails, and nothing is recorded.
NonceStoreFails(p, m) ==
    /\ NextMail(p, m)
    /\ Upset
    /\ Evaluated(p, m, FALSE)
    /\ UNCHANGED <<delivered, seen, expired, nonces, honoured, rejected>>

\* Process: inbound.command or inbound.rejected.
Publish(p) ==
    LET w == watcher[p]
    IN /\ w.pc = "publish"
       /\ honoured' = IF w.triggered THEN [honoured EXCEPT ![w.mail] = Count(@)] ELSE honoured
       /\ rejected' = IF w.triggered THEN rejected ELSE rejected \cup {w.mail}
       /\ Goto(p, [w EXCEPT !.pc = "mark", !.triggered = FALSE])
       /\ UNCHANGED <<delivered, seen, expired, nonces, upset>>

Marked(p) == Goto(p, [watcher[p] EXCEPT !.pc = "list", !.mail = NoMail])

\* (Faulty variant: the flag is never stored.)
MarkForgotten(p) ==
    /\ watcher[p].pc = "mark"
    /\ Marked(p)
    /\ UNCHANGED <<delivered, seen, expired, nonces, honoured, rejected, upset>>

\* (Faulty variant: a sequence number is taken for a UID.)
MarkWrongUid(p) ==
    /\ watcher[p].pc = "mark"
    /\ seen' = seen \cup {watcher[p].mail + 1}
    /\ Marked(p)
    /\ UNCHANGED <<delivered, expired, nonces, honoured, rejected, upset>>

\* STORE +FLAGS (\Seen).
Mark(p) ==
    /\ watcher[p].pc = "mark"
    /\ seen' = seen \cup {watcher[p].mail}
    /\ Marked(p)
    /\ UNCHANGED <<delivered, expired, nonces, honoured, rejected, upset>>

\* Its error is ignored.
MarkFails(p) ==
    /\ watcher[p].pc = "mark"
    /\ Upset
    /\ Marked(p)
    /\ UNCHANGED <<delivered, seen, expired, nonces, honoured, rejected>>

PollEnds(p) ==
    /\ watcher[p].pc = "list"
    /\ watcher[p].uids = {}
    /\ Goto(p, Idle)
    /\ UNCHANGED <<delivered, seen, expired, nonces, honoured, rejected, upset>>

\* The process dies at any point and is started again.
Crash(p) ==
    /\ watcher[p].pc # "idle"
    /\ Upset
    /\ Goto(p, Idle)
    /\ UNCHANGED <<delivered, seen, expired, nonces, honoured, rejected>>

Work(p) ==
    \/ Poll(p) \/ Publish(p) \/ Mark(p) \/ PollEnds(p)
    \/ \E m \in Mail : Evaluate(p, m)

Next ==
    \/ \E m \in Mail : Deliver(m) \/ MarkUnread(m)
    \/ \E n \in Nonce : Expire(n)
    \/ \E p \in Proc : Work(p) \/ MarkFails(p) \/ Crash(p)
    \/ \E p \in Proc, m \in Mail : FetchFails(p, m) \/ NonceStoreFails(p, m)

Spec == Init /\ [][Next]_vars

\* Each process polls every minute, and each poll proceeds.
FairSpec == Spec /\ \A p \in Proc : WF_vars(Work(p))
-------------------------------------------------------------------------------
(* Properties. *)

\* The type invariant: the mailbox, the tables and each watcher's locals.
TypeOK ==
    /\ delivered \subseteq Mail /\ seen \subseteq delivered /\ expired \subseteq Nonce
    /\ nonces \subseteq Nonce
    /\ honoured \in [Mail -> 0..MaxEvent]
    /\ rejected \subseteq Mail
    /\ watcher \in [Proc -> Watcher]
    /\ upset \in 0..MaxUpset

\* A command is single-use: whichever processes fetch it, whatever copies of it
\* arrive, and whether its mail is marked seen, lost track of or marked unread,
\* at most one inbound.command is published for a nonce (Evaluate,
\* SeenOrRecord, Process).
HonouredOnce ==
    \A m, n \in Mail :
        /\ honoured[m] <= 1
        /\ m # n /\ NonceOf[m] = NonceOf[n] => honoured[m] = 0 \/ honoured[n] = 0

\* The watcher marks a command seen only after an outcome of it has been
\* published, so a crash never hides a command nobody heard of (pollAccount).
PublishedBeforeMarked ==
    [][\A m \in seen' \ seen : honoured[m] > 0 \/ m \in rejected]_vars

\* Every command mail is handled: marked seen after an outcome.
EveryCommandHandled == \A m \in Mail : (m \in delivered) ~> (m \in seen)

\* A command that passes the gates is honoured, by one of its copies, unless
\* its window passes, something fails, or a copy that does not pass the gates
\* has spent its nonce (Evaluate).
TrustedIsHonoured ==
    \A m \in Trusted :
        (m \in delivered)
            ~> \/ \E n \in Mail :
                    /\ NonceOf[n] = NonceOf[m]
                    /\ honoured[n] > 0 \/ NonceOf[m] \in expired \/ n \in delivered \ Trusted
               \/ upset > 0
===============================================================================
