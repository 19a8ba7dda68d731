------------------------------ MODULE Identity ------------------------------
(***************************************************************************)
(* Who the owner is and what the senders are to the owner                  *)
(* (internal/intel/identity.go, roles.go, internal/service/identity.go).   *)
(* The owner confirms or rejects an address or an @domain through the API; *)
(* a confirmed one is written through the stored history.  The scanner     *)
(* does that itself for the configured ones and for what a crash left, at  *)
(* the start of a tick, then indexes new mail, recomputes roles, looks for *)
(* addresses that may be the owner's, and asks the model about senders     *)
(* nothing else decides.  The API runs while a tick does.                  *)
(***************************************************************************)
EXTENDS Integers, FiniteSets, FiniteSetsExt, Functions

CONSTANTS
    Address,        \* correspondents
    Login,          \* the owner's login
    Entry, Covers,  \* identities; [Entry -> SUBSET Address]: itself, or a domain's addresses
    AlsoMe,         \* identity.also_me, entries of the configuration
    Mail,           \* messages, numbers in the order the folder holds them
    From, To,       \* [Mail -> Address \cup {Login}]
    Kind,           \* [Mail -> {"plain", "list", "auto"}]
    Hall,           \* [Mail -> role]: what the class enrichment may give the message stands for
    NoReply,        \* addresses that say they are not read
    Colleague,      \* addresses in a domain of the owner's that is no webmail domain
    RoleBatch,      \* roleBatch
    PerTick,        \* intelligence.llm_roles_per_tick
    Nobody,
    MaxFaults       \* bound: ticks that fail and deaths

\* hallRole (roles.go:84-96) knows four roles; an entry covers correspondents.
ParamAssumption ==
    /\ Covers \in [Entry -> SUBSET Address] /\ AlsoMe \subseteq Entry /\ Nobody \notin Entry \cup Address
    /\ From \in [Mail -> Address \cup {Login}] /\ To \in [Mail -> Address \cup {Login}]
    /\ Hall \in [Mail -> {"newsletter", "vendor", "bot", "personal", "unknown"}] /\ MaxFaults \in Nat

VARIABLES
    status,     \* identities.status: [Entry -> "unknown" or a status]
    applied,    \* entries with applied_at
    senders,    \* [Address with a profile -> its row]
    mail,       \* intel_messages: [Mail -> how it was counted, "unread" before]
    marked,     \* messages with outgoing = 1
    tracked,    \* counterparts of conversations in reply_threads
    call,       \* the entry a confirmation has stored and not yet applied
    tick,       \* the scanner's locals
    missed,     \* entries whose history may not be theirs throughout, see OwnerIsKnown
    faults

tables       == <<status, applied, senders, mail, marked, tracked>>
identityVars == <<tables, call, tick, missed, faults>>

Idle == [step |-> "idle", own |-> {}, todo |-> {}, batch |-> <<>>, asks |-> 0, asking |-> Nobody]

Init ==
    /\ status = [e \in Entry |-> "unknown"] /\ applied = {}
    /\ senders = [a \in {} |-> Nobody] /\ mail = [m \in Mail |-> "unread"] /\ marked = {} /\ tracked = {}
    /\ call = Nobody /\ tick = Idle /\ missed = {} /\ faults = 0

Goes(step) == tick' = [tick EXCEPT !.step = step]

-----------------------------------------------------------------------------
(* ApplyIdentity: one transaction over the history.                        *)

Applied(e) ==
    /\ marked' = marked \cup {m \in Mail : mail[m] = "received" /\ From[m] \in Covers[e]}
    /\ tracked' = tracked \ Covers[e]
    /\ senders' = [a \in DOMAIN senders |-> IF a \in Covers[e]
                    THEN [senders[a] EXCEPT !.role = "self", !.by = "identity", !.dirty = FALSE] ELSE senders[a]]
    /\ applied' = applied \cup {e}
    /\ UNCHANGED <<status, mail>>

\* setIdentity: the decision is stored, then a confirmed one applied.
Ready == tick.step \in {"idle", "start"}

\* Applied once, then no identity for a while: what came since is not rewritten.
Restored == {e \in applied : status[e] \notin {"confirmed", "config"}}

Confirm(e) ==
    /\ call = Nobody /\ call' = e
    /\ status' = [status EXCEPT ![e] = "confirmed"]
    /\ missed' = missed \cup ({e} \cap Restored)
    /\ UNCHANGED <<applied, senders, mail, marked, tracked, tick, faults>>

ConfirmApplies ==
    /\ call # Nobody /\ Applied(call) /\ call' = Nobody
    /\ missed' = IF Ready THEN missed \ {call} ELSE IF call \in tick.own THEN missed ELSE missed \cup {call}
    /\ UNCHANGED <<tick, faults>>

Reject(e) ==
    /\ call = Nobody /\ status' = [status EXCEPT ![e] = "rejected"]
    /\ UNCHANGED <<applied, senders, mail, marked, tracked, call, tick, missed, faults>>

-----------------------------------------------------------------------------
(* refreshIdentities, at the start of a tick.                              *)

StartTick ==
    /\ tick.step = "idle" /\ Goes("start")
    /\ status' = [e \in Entry |-> IF e \in AlsoMe /\ status[e] # "confirmed" THEN "config" ELSE status[e]]
    /\ missed' = missed \cup (AlsoMe \cap Restored)
    /\ UNCHANGED <<applied, senders, mail, marked, tracked, call, faults>>

OwnEntries == {e \in Entry : status[e] \in {"confirmed", "config"}}
Pending == OwnEntries \ applied

ReadIdentities ==
    /\ tick.step = "start"
    /\ tick' = [tick EXCEPT !.step = "apply", !.own = OwnEntries, !.todo = Pending]
    /\ UNCHANGED <<tables, call, missed, faults>>

ApplyPending(e) ==
    /\ tick.step = "apply" /\ e \in tick.todo /\ Applied(e)
    /\ tick' = [tick EXCEPT !.todo = @ \ {e}]
    /\ UNCHANGED <<call, missed, faults>>

Scan ==
    /\ tick.step = "apply" /\ tick.todo = {} /\ Goes("scan")
    /\ UNCHANGED <<tables, call, missed, faults>>

-----------------------------------------------------------------------------
(* The index takes a message with the own set read when the tick began.    *)

\* Variant: entries that name a domain are not looked at.
IsOwnNamed(a) == a = Login \/ a \in tick.own
IsOwn(a)  == a = Login \/ \E e \in tick.own : a \in Covers[e]
Fresh     == [role |-> "unknown", by |-> "none", dirty |-> TRUE, asked |-> FALSE]
Profiled(a) == [b \in DOMAIN senders \cup {a} |->
                IF b # a THEN senders[b] ELSE IF a \in DOMAIN senders THEN [senders[a] EXCEPT !.dirty = TRUE] ELSE Fresh]

Index(m) ==
    /\ tick.step = "scan" /\ mail[m] = "unread" /\ \A n \in Mail : n < m => mail[n] # "unread"
    /\ \/ /\ ~IsOwn(From[m]) /\ mail' = [mail EXCEPT ![m] = "received"]
          /\ senders' = Profiled(From[m])
          /\ tracked' = IF Kind[m] = "plain" THEN tracked \cup {From[m]} ELSE tracked
          /\ UNCHANGED marked
       \/ /\ IsOwn(From[m]) /\ ~IsOwn(To[m]) /\ mail' = [mail EXCEPT ![m] = "sent"]
          /\ senders' = Profiled(To[m]) /\ tracked' = tracked \cup {To[m]} /\ marked' = marked \cup {m}
       \/ /\ IsOwn(From[m]) /\ IsOwn(To[m]) /\ mail' = [mail EXCEPT ![m] = "note"]
          /\ marked' = marked \cup {m} /\ UNCHANGED <<senders, tracked>>
    /\ UNCHANGED <<status, applied, call, tick, missed, faults>>

ScanEnds ==
    /\ tick.step = "scan" /\ Goes("roles")
    /\ UNCHANGED <<tables, call, missed, faults>>

-----------------------------------------------------------------------------
(* recomputeRoles: signals, then the class of cached mail, then what the   *)
(* model said earlier.  Rows are read before the transaction that writes.  *)

Got(a, kinds) == Cardinality({m \in Mail : mail[m] = "received" /\ From[m] = a /\ Kind[m] \in kinds})
Mostly(a, kind) == Got(a, {kind}) > 0 /\ 2 * Got(a, {kind}) >= Got(a, {"plain", "list", "auto"})
WroteTo(a) == \E m \in Mail : mail[m] = "sent" /\ To[m] = a

SignalRole(a) ==
    IF Mostly(a, "list") THEN "newsletter"
    ELSE IF Mostly(a, "auto") \/ a \in NoReply THEN "bot"
    ELSE IF WroteTo(a) THEN IF a \in Colleague THEN "colleague" ELSE "personal"
    ELSE "unknown"

\* The majority among the mail that is cached and classified by now.
HallRoles(a) == {"unknown"} \cup {Hall[m] : m \in {n \in Mail : From[n] = a}}

Dirty == {a \in DOMAIN senders : senders[a].dirty}

ReadDirty ==
    /\ tick.step = "roles" /\ Dirty # {}
    /\ \E S \in kSubset(Min({RoleBatch, Cardinality(Dirty)}), Dirty) :
          tick' = [tick EXCEPT !.step = "write", !.batch = Restrict(senders, S)]
    /\ UNCHANGED <<tables, call, missed, faults>>

Decided(read, a, hall) ==
    IF SignalRole(a) # "unknown" THEN <<SignalRole(a), "signal">>
    ELSE IF hall # "unknown" THEN <<hall, "hall">>
    ELSE IF read.by = "llm" THEN <<read.role, "llm">> ELSE <<"unknown", "none">>

WriteRoles ==
    /\ tick.step = "write"
    /\ \E hall \in [DOMAIN tick.batch -> UNION {HallRoles(a) : a \in DOMAIN tick.batch}] :
          /\ \A a \in DOMAIN hall : hall[a] \in HallRoles(a)
          /\ senders' = [a \in DOMAIN senders |->
               IF a \notin DOMAIN tick.batch THEN senders[a]
               ELSE IF tick.batch[a].by = "identity" THEN [senders[a] EXCEPT !.dirty = FALSE]
               ELSE LET d == Decided(tick.batch[a], a, hall[a]) IN
                    [senders[a] EXCEPT !.role = d[1], !.by = d[2], !.dirty = FALSE]]
    /\ tick' = [tick EXCEPT !.step = "roles", !.batch = <<>>]
    /\ UNCHANGED <<status, applied, mail, marked, tracked, call, missed, faults>>

-----------------------------------------------------------------------------
(* detectIdentities: senders that look like the owner and are in no row of *)
(* identities; which names the owner is seen to use is left open.          *)

Suspects == {e \in Entry : Covers[e] = {e} /\ e \in DOMAIN senders /\ status[e] = "unknown"
                           /\ senders[e].by # "identity" /\ ~IsOwn(e)}

Detect ==
    /\ tick.step = "roles" /\ Dirty = {}
    /\ \E found \in SUBSET Suspects : tick' = [tick EXCEPT !.step = "suggest", !.todo = found]
    /\ UNCHANGED <<tables, call, missed, faults>>

\* INSERT OR IGNORE.
Suggested(e) == IF status[e] = "unknown" THEN "candidate" ELSE status[e]

Suggest ==
    /\ tick.step = "suggest"
    /\ status' = [e \in Entry |-> IF e \in tick.todo THEN Suggested(e) ELSE status[e]]
    /\ tick' = [tick EXCEPT !.step = "cached", !.todo = {}]
    /\ UNCHANGED <<applied, senders, mail, marked, tracked, call, missed, faults>>

-----------------------------------------------------------------------------
(* modelRoles: senders still unknown and not asked about lately, one call  *)
(* after the other.                                                        *)

Unplaced == {a \in DOMAIN senders : senders[a].role = "unknown" /\ ~senders[a].asked}

ReadUnplaced ==
    /\ tick.step = "cached"
    /\ \E S \in SUBSET Unplaced : /\ Cardinality(S) <= 2 * PerTick
                                  /\ tick' = [tick EXCEPT !.step = "ask", !.todo = S]
    /\ UNCHANGED <<tables, call, missed, faults>>

\* A sender with no subject in the cache is passed over.
Ask(a) ==
    /\ tick.step = "ask" /\ tick.asks < PerTick /\ a \in tick.todo
    /\ \/ tick' = [tick EXCEPT !.todo = @ \ {a}]
       \/ tick' = [tick EXCEPT !.step = "wait", !.todo = @ \ {a}, !.asking = a]
    /\ UNCHANGED <<tables, call, missed, faults>>

Answers == {<<"vendor", "llm">>, <<"unknown", "llm:none">>, <<"unknown", "llm:error">>}

\* The answer is written whatever the row has become.
Answer(r) ==
    /\ tick.step = "wait"
    /\ senders' = [senders EXCEPT ![tick.asking] = [@ EXCEPT !.role = r[1], !.by = r[2], !.asked = TRUE]]
    /\ tick' = [tick EXCEPT !.step = "ask", !.asks = @ + 1, !.asking = Nobody]
    /\ UNCHANGED <<status, applied, mail, marked, tracked, call, missed, faults>>

Gated ==
    /\ tick.step = "wait" /\ tick' = Idle
    /\ UNCHANGED <<tables, call, missed, faults>>

EndTick ==
    /\ tick.step = "ask" /\ (tick.todo = {} \/ tick.asks >= PerTick)
    /\ tick' = Idle
    /\ UNCHANGED <<tables, call, missed, faults>>

\* llmRetryAfter has passed since the model was asked.
Forget(a) ==
    /\ tick.step = "idle" /\ a \in DOMAIN senders /\ senders[a].asked
    /\ senders' = [senders EXCEPT ![a].asked = FALSE]
    /\ UNCHANGED <<status, applied, mail, marked, tracked, call, tick, missed, faults>>

-----------------------------------------------------------------------------
Fault == faults < MaxFaults /\ faults' = faults + 1

\* A statement fails and the tick returns; or the process dies.
Abort == tick.step # "idle" /\ Fault /\ tick' = Idle /\ UNCHANGED <<tables, call, missed>>
Death == Fault /\ tick' = Idle /\ call' = Nobody /\ UNCHANGED <<tables, missed>>

Tick ==
    \/ StartTick \/ ReadIdentities \/ (\E e \in Entry : ApplyPending(e)) \/ Scan
    \/ (\E m \in Mail : Index(m)) \/ ScanEnds \/ ReadDirty \/ WriteRoles \/ Detect \/ Suggest
    \/ ReadUnplaced \/ (\E a \in Address : Ask(a)) \/ (\E r \in Answers : Answer(r)) \/ Gated \/ EndTick

Next ==
    \/ Tick \/ ConfirmApplies \/ Abort \/ Death
    \/ \E e \in Entry : Confirm(e) \/ Reject(e)
    \/ \E a \in Address : Forget(a)

Spec == Init /\ [][Next]_identityVars

\* Scanner.Run ticks for ever, no step of a tick waits for the owner, and a
\* call of the API ends.
FairSpec == Spec /\ WF_identityVars(Tick) /\ WF_identityVars(ConfirmApplies)

-----------------------------------------------------------------------------
Roles == {"newsletter", "bot", "colleague", "personal", "vendor", "unknown", "self"}

\* The tables and locals keep their types.
TypeOK ==
    /\ status \in [Entry -> {"unknown", "candidate", "confirmed", "rejected", "config"}] /\ applied \subseteq Entry
    /\ DOMAIN senders \subseteq Address /\ \A a \in DOMAIN senders : senders[a].role \in Roles
    /\ mail \in [Mail -> {"unread", "received", "sent", "note"}] /\ marked \subseteq Mail /\ tracked \subseteq Address
    /\ call \in Entry \cup {Nobody} /\ tick.own \subseteq Entry /\ missed \subseteq Entry /\ faults \in 0..MaxFaults

\* What a confirmed or configured identity covers is the owner's everywhere:
\* its profile is hidden, its messages count as the owner's and no conversation
\* with it waits for an answer (identity.go:107-111), whatever was indexed,
\* judged or answered since.  Excepted is an identity confirmed while a tick
\* already ran with the older set, or brought back after a rejection and not
\* applied again.
OwnerIsKnown ==
    \A e \in (OwnEntries \cap applied) \ missed : \A a \in Covers[e] :
        /\ a \in DOMAIN senders => senders[a].by = "identity"
        /\ a \notin tracked
        /\ \A m \in Mail : From[m] = a /\ mail[m] = "received" => m \in marked

\* Only the owner undoes a decision of the owner's; the scanner neither turns
\* it into a suggestion (identity.go:268-270) nor drops a confirmed identity
\* for a configured one.
KeepsDecisions ==
    \A e \in Entry : status'[e] # status[e] =>
        /\ status[e] = "confirmed" => status'[e] = "rejected"
        /\ status[e] = "rejected" => call' = e \/ e \in AlsoMe
DecisionStands == [][KeepsDecisions]_identityVars

\* A confirmed identity is applied at last, after a crash of the call too.
Unapplied(e) == e \in OwnEntries \ applied
AppliedAtLast == \A e \in Entry : Unapplied(e) ~> ~Unapplied(e)

\* What identity.go:107-111 says of every confirmed identity: whoever it covers
\* becomes the owner, for good.
CoversOwner(e) == \A a \in Covers[e] \cap DOMAIN senders : senders[a].role = "self"
OwnerIsSelf == \A e \in Entry : <>[](e \in OwnEntries \cap applied) => <>[]CoversOwner(e)
=============================================================================
