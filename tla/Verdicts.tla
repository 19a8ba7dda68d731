------------------------------ MODULE Verdicts ------------------------------
(***************************************************************************)
(* The second opinion (internal/service/verdicts.go).  After every tick of *)
(* the header scan the daemon asks a model about a few messages that have  *)
(* no verdict: cached INBOX mail of senders the owner never wrote to, then *)
(* first contacts waiting in reply tracking, read live.  A verdict is      *)
(* stored, and one that asks for money or access raises an anomaly.        *)
(***************************************************************************)
EXTENDS Integers, FiniteSets, Sequences

CONSTANTS
    Letter,         \* cached or indexed messages, numbers: a newer one is larger
    Writer, From,   \* senders; [Letter -> Writer]
    Id,             \* [Letter -> Message-ID]: a mail to two accounts is two letters
    Asks,           \* what mail can ask for
    Synced, Tracked,    \* letters the cache's INBOX gets; letters that become the last of a conversation
    PerTick,        \* intelligence.verdict.per_tick
    Active,         \* intelligence.verdict.active
    MaxFaults       \* bound: failures and deaths

\* What mail can ask for are the values of verdict.go:24 but "none";
\* PerTickOrDefault leaves no per_tick below one (config.go:607-613).
ParamAssumption ==
    /\ IsFiniteSet(Letter) /\ Letter \subseteq Nat /\ From \in [Letter -> Writer]
    /\ Asks \subseteq {"payment", "credentials", "gift_card", "bank_change"}
    /\ PerTick \in Nat \ {0} /\ MaxFaults \in Nat

VARIABLES
    cached,     \* letters in the cache's INBOX
    waiting,    \* letters that wait in reply_threads
    gone,       \* letters that are no longer where reply_threads says
    known,      \* senders the owner wrote to, trusts, or that are bots or lists
    verdict,    \* message_verdicts: [Letter -> Unjudged or a verdict]
    anomalies,  \* rows <<type, Message-ID>> of anomalies
    told,       \* how many anomaly.detected events were published
    tick,       \* the pass: its step and the candidates it still holds
    cut,        \* letters whose verdict was stored by a pass that went no further
    faults

mailbox == <<cached, waiting, gone, known>>
verdictVars == <<mailbox, verdict, anomalies, told, tick, cut, faults>>

Unjudged == "unjudged"
\* A request the model is not confident of is as good as none.
Verdicts == {"harmless"} \cup Asks
Answers  == Verdicts \cup {"unparsed"}
Idle     == [step |-> "rest", todo |-> <<>>]

Init ==
    /\ cached = {} /\ waiting = {} /\ gone = {} /\ known = {}
    /\ verdict = [m \in Letter |-> Unjudged] /\ anomalies = {} /\ told = 0
    /\ tick = Idle /\ cut = {} /\ faults = 0

-----------------------------------------------------------------------------
(* Mail arrives in the cache and in reply tracking, and moves on.          *)

ArriveInCache(m) ==
    /\ m \in Synced \ (cached \cup gone) /\ cached' = cached \cup {m}
    /\ UNCHANGED <<waiting, gone, known, verdict, anomalies, told, tick, cut, faults>>

ArriveInThread(m) ==
    /\ m \in Tracked \ waiting /\ waiting' = waiting \cup {m}
    /\ UNCHANGED <<cached, gone, known, verdict, anomalies, told, tick, cut, faults>>

OwnerMoves(m) ==
    /\ m \in cached \cup waiting /\ m \notin gone
    /\ cached' = cached \ {m} /\ gone' = gone \cup {m}
    /\ UNCHANGED <<waiting, known, verdict, anomalies, told, tick, cut, faults>>

OwnerWrites(w) ==
    /\ w \notin known /\ known' = known \cup {w}
    /\ UNCHANGED <<cached, waiting, gone, verdict, anomalies, told, tick, cut, faults>>

-----------------------------------------------------------------------------
(* verdictCandidates: two passes, newest first, no letter twice.           *)

Candidate(m) == From[m] \notin known /\ verdict[m] = Unjudged
NewestFirst(S) ==
    {f \in [1 .. Cardinality(S) -> S] : \A i, j \in 1 .. Cardinality(S) : i < j => f[i] > f[j]}
InCache  == {m \in cached : Candidate(m)}
\* Variant: the second pass does not know what the first one took.
InThreadAgain == {m \in waiting : Candidate(m)}
InThread == {m \in waiting : Candidate(m)} \ InCache

Held(m, live) == [mail |-> m, live |-> live]
Candidates(f, g) ==
    LET all == Len(f) + Len(g)
    IN  [i \in 1 .. (IF all < PerTick THEN all ELSE PerTick) |->
            IF i <= Len(f) THEN Held(f[i], FALSE) ELSE Held(g[i - Len(f)], TRUE)]

\* VerdictTick
StartTick ==
    /\ tick.step = "rest" /\ InCache \cup InThread # {}
    /\ \E f \in NewestFirst(InCache), g \in NewestFirst(InThread) :
          tick' = [step |-> "judge", todo |-> Candidates(f, g)]
    /\ UNCHANGED <<mailbox, verdict, anomalies, told, cut, faults>>

Later == IF Len(tick.todo) = 1 THEN Idle ELSE [step |-> "judge", todo |-> Tail(tick.todo)]

\* A letter read live that has moved is passed over: it stays a candidate.
PassOver ==
    /\ tick.step = "judge" /\ Head(tick.todo).live /\ Head(tick.todo).mail \in gone
    /\ tick' = Later
    /\ UNCHANGED <<mailbox, verdict, anomalies, told, cut, faults>>

Kept(m, a) == IF a = "unparsed" THEN "harmless" ELSE a

\* The answer is stored; one that does not parse counts as harmless.
Judge(m, a) ==
    /\ tick.step = "judge" /\ Head(tick.todo).mail = m /\ (Head(tick.todo).live => m \notin gone)
    /\ verdict' = [verdict EXCEPT ![m] = Kept(m, a)]
    /\ tick' = IF Active /\ a \in Asks THEN [tick EXCEPT !.step = "raise"] ELSE Later
    /\ UNCHANGED <<mailbox, anomalies, told, cut, faults>>

\* Variant: an event per statement.
TellsAlways(row) == TRUE
Tells(row) == row \notin anomalies

Type(a) == IF a = "credentials" THEN "credential_request" ELSE "payment_request"

\* askAnomaly: a row per type and Message-ID, an event per row.
AskAnomaly ==
    LET m == Head(tick.todo).mail
        row == <<Type(verdict[m]), Id[m]>> IN
    /\ tick.step = "raise"
    /\ anomalies' = anomalies \cup {row}
    /\ told' = IF Tells(row) THEN told + 1 ELSE told
    /\ tick' = Later
    /\ UNCHANGED <<mailbox, verdict, cut, faults>>

\* The model does not answer: the rest of the pass waits for the next tick.
ModelFails ==
    /\ tick.step = "judge" /\ tick' = Idle
    /\ UNCHANGED <<mailbox, verdict, anomalies, told, cut, faults>>

\* An SQL error or the death of the process ends the pass.
Fault ==
    /\ faults < MaxFaults /\ faults' = faults + 1
    /\ tick.step # "rest"
    /\ cut' = IF tick.step = "raise" THEN cut \cup {Head(tick.todo).mail} ELSE cut
    /\ tick' = Idle
    /\ UNCHANGED <<mailbox, verdict, anomalies, told>>

-----------------------------------------------------------------------------
Tick == StartTick \/ PassOver \/ AskAnomaly \/ ModelFails \/ (\E m \in Letter, a \in Answers : Judge(m, a))

Next ==
    \/ \E m \in Letter : ArriveInCache(m) \/ ArriveInThread(m) \/ OwnerMoves(m)
    \/ \E w \in Writer : OwnerWrites(w)
    \/ Tick \/ Fault

\* The scan ticks for ever; asked again and again, the model answers.
FairSpec == /\ Init /\ [][Next]_verdictVars /\ WF_verdictVars(Tick)
            /\ SF_verdictVars(\E m \in Letter, a \in Answers : Judge(m, a))

-----------------------------------------------------------------------------
\* The tables and the pass keep their types.
TypeOK ==
    /\ cached \cup waiting \cup gone \cup cut \subseteq Letter /\ known \subseteq Writer
    /\ verdict \in [Letter -> Verdicts \cup {Unjudged}]
    /\ \A row \in anomalies : row[1] \in {"credential_request", "payment_request"} /\ \E m \in Letter : row[2] = Id[m]
    /\ tick.step \in {"rest", "judge", "raise"} /\ Len(tick.todo) <= PerTick
    /\ (tick.step = "rest") = (tick.todo = <<>>)
    /\ told \in Nat /\ faults \in 0 .. MaxFaults

\* A mail found to ask for money or access has its anomaly, told once, unless
\* the pass ended between the two statements: such a mail is never judged
\* again, so its anomaly never comes (verdicts.go:485-494, D37).
Pending(m) == tick.step = "raise" /\ Head(tick.todo).mail = m
AskIsRaised ==
    /\ \A m \in Letter \ cut : Active /\ verdict[m] \in Asks /\ ~Pending(m) =>
           <<Type(verdict[m]), Id[m]>> \in anomalies
    /\ told = Cardinality(anomalies)

\* A verdict once stored is the one that stays, though a mail can be found in
\* the cache and in reply tracking (INSERT OR REPLACE, verdicts.go:485).
KeepsVerdicts == \A m \in Letter : verdict[m] # Unjudged => verdict'[m] = verdict[m]
JudgedOnce == [][KeepsVerdicts]_verdictVars

\* No mail of an unknown sender waits for its verdict for ever: cached mail
\* always, mail read live as long as none that waits has moved away.
WaitsCached(m) == m \in cached /\ Candidate(m)
WaitsLive(m) == m \in waiting /\ Candidate(m) /\ waiting \cap gone = {}
JudgedAtLast == \A m \in Letter : ~<>[]WaitsCached(m) /\ ~<>[]WaitsLive(m)
=============================================================================
