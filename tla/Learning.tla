------------------------------ MODULE Learning ------------------------------
(***************************************************************************)
(* Learning from the owner's moves (internal/service/learn.go) in one      *)
(* account.  The header scan records where each message lies; the hourly   *)
(* run-rules process applies the active rules, records what they moved,    *)
(* and turns senders whose mail the owner mostly discards into suggestions *)
(* or rules.  Meanwhile the owner moves mail, dismisses suggestions and    *)
(* deletes rules through the server process.                               *)
(***************************************************************************)
EXTENDS Integers, FiniteSets, FiniteSetsExt

CONSTANTS
    Letter,         \* messages, each with a Message-ID
    Writer, From,   \* senders of one domain; [Letter -> Writer]
    Domain,         \* the target that stands for the whole domain
    Discard,        \* discard folders; every other folder is Inbox
    Inbox,
    Exempt,         \* senders that are the owner, held or in an own domain
    Freemail,       \* whether the domain is a freemail domain
    Modes,          \* values of rules.learn.mode: "suggest", "inactive", "active"
    MinDiscards, Ratio, DomainMin,  \* thresholds; the ratio in percent
    NoTarget,
    ByHand, Matched, OwnDest,       \* the owner's own rule, by subject: its name, what it matches, where it moves
    MaxMoves,       \* bound: moves by the owner
    MaxFaults       \* bound: failures and deaths of the run-rules process

Target == Writer \cup {Domain}
Folders == Discard \cup {Inbox}

\* An account has finitely many letters and folders, and its own rule moves to
\* one of them; a threshold of none means the default.
ParamAssumption ==
    /\ IsFiniteSet(Letter) /\ IsFiniteSet(Discard) /\ From \in [Letter -> Writer]
    /\ Inbox \notin Discard /\ NoTarget \notin Folders \cup Target /\ OwnDest \in Folders
    /\ Modes \subseteq {"suggest", "inactive", "active"} /\ MinDiscards \in Nat \ {0}

VARIABLES
    mode,       \* rules.learn.mode, read once from the configuration
    place,      \* [Letter -> folder it is in]
    seen,       \* intel_messages.folder: [Letter -> folder, or NoTarget before the scan]
    trusted,    \* senders.trusted
    written,    \* senders the owner has written to
    moves,      \* rule_moves: messages a rule moved
    rules,      \* learned rules: [Target -> "none", "inactive" or "active"]
    dest,       \* [Target -> where its rule moves mail]
    state,      \* learn_state: [Target -> "none", "suggested", "created" or "dismissed"]
    rr,         \* the run-rules process
    deleting,   \* a rule deleted, its learn_state not yet
    byOwner,    \* messages the owner ever put into a discard folder
    unnoted,    \* messages a rule moved in a run that ended before recording them
    count       \* owner's moves and faults so far

learned == <<mode, rules, dest, state>>
mail    == <<place, seen, trusted, written>>
past    == <<byOwner, unnoted, count>>
learningVars == <<mail, moves, learned, rr, deleting, past>>

Resting == [step |-> "rest", todo |-> {}, at |-> NoTarget, carried |-> {}, list |-> {}, current |-> {}]

Init ==
    /\ mode \in Modes /\ place = [m \in Letter |-> Inbox] /\ seen = [m \in Letter |-> NoTarget]
    /\ trusted = {} /\ written = {} /\ moves = {} /\ byOwner = {} /\ unnoted = {}
    /\ rules = [t \in Target |-> "none"] /\ dest = [t \in Target |-> Inbox] /\ state = [t \in Target |-> "none"]
    /\ rr = Resting /\ deleting = NoTarget /\ count = [moves |-> 0, faults |-> 0]

-----------------------------------------------------------------------------
(* The owner and the scan.                                                 *)

OwnerMove == count.moves < MaxMoves /\ count' = [count EXCEPT !.moves = @ + 1]

OwnerMoves(m, f) ==
    /\ OwnerMove /\ place[m] # f /\ place' = [place EXCEPT ![m] = f]
    /\ byOwner' = IF f \in Discard THEN byOwner \cup {m} ELSE byOwner
    /\ UNCHANGED <<seen, trusted, written, moves, learned, rr, deleting, unnoted>>

OwnerWrites(w) ==
    /\ OwnerMove /\ w \notin written /\ written' = written \cup {w}
    /\ UNCHANGED <<place, seen, trusted, moves, learned, rr, deleting, byOwner, unnoted>>

\* store.locate and rescue: out of a discard folder, the sender is trusted
\* and what was learned of the address is forgotten.
Rescued(m) == seen[m] \in Discard /\ place[m] \notin Discard

See(m) ==
    /\ seen[m] # place[m] /\ seen' = [seen EXCEPT ![m] = place[m]]
    /\ trusted' = IF Rescued(m) THEN trusted \cup {From[m]} ELSE trusted
    /\ state' = IF Rescued(m) THEN [state EXCEPT ![From[m]] = "none"] ELSE state
    /\ UNCHANGED <<place, written, moves, mode, rules, dest, rr, deleting, past>>

\* A target the owner can know of: dismissed by name, in one statement.
Dismiss(t) ==
    /\ state' = [state EXCEPT ![t] = "dismissed"] /\ state[t] # "dismissed"
    /\ OwnerMove
    /\ UNCHANGED <<mail, moves, mode, rules, dest, rr, deleting, byOwner, unnoted>>

\* DeleteRule: the row, then forgetLearnedRule.
DeleteRow(t) ==
    /\ deleting = NoTarget /\ rules[t] # "none" /\ OwnerMove
    /\ rules' = [rules EXCEPT ![t] = "none"] /\ deleting' = t
    /\ UNCHANGED <<mail, moves, mode, dest, state, rr, byOwner, unnoted>>

Forget ==
    /\ deleting # NoTarget /\ deleting' = NoTarget
    /\ state' = IF state[deleting] = "created" THEN [state EXCEPT ![deleting] = "dismissed"] ELSE state
    /\ UNCHANGED <<mail, moves, mode, rules, dest, rr, past>>

Owner ==
    \/ \E m \in Letter, f \in Folders : OwnerMoves(m, f)
    \/ \E w \in Writer : OwnerWrites(w)
    \/ \E t \in Target : Dismiss(t) \/ DeleteRow(t)

-----------------------------------------------------------------------------
(* run-rules, first part: the active rules.                                *)

Matches(t, w) == t = Domain \/ t = w

StartRun ==
    /\ rr.step = "rest"
    /\ rr' = [rr EXCEPT !.step = "rules", !.todo = {ByHand} \cup {t \in Target : rules[t] = "active"}]
    /\ UNCHANGED <<mail, moves, learned, deleting, past>>

\* applyRule reads the Message-IDs, then moves.
ApplyRule(t) ==
    /\ rr.step = "rules" /\ t \in rr.todo
    /\ LET found == {m \in Letter : place[m] = Inbox /\ IF t = ByHand THEN m \in Matched ELSE Matches(t, From[m])} IN
       /\ place' = [m \in Letter |-> IF m \notin found THEN place[m] ELSE IF t = ByHand THEN OwnDest ELSE dest[t]]
       /\ rr' = [rr EXCEPT !.step = "note", !.todo = @ \ {t}, !.at = t, !.carried = found]
    /\ UNCHANGED <<seen, trusted, written, moves, learned, deleting, past>>

\* recordRuleMoves
RecordRuleMoves ==
    /\ rr.step = "note"
    /\ moves' = moves \cup rr.carried
    /\ rr' = [rr EXCEPT !.step = "rules", !.carried = {}]
    /\ UNCHANGED <<mail, learned, deleting, past>>

-----------------------------------------------------------------------------
(* Second part: what the moves suggest.                                    *)

Received(w)  == {m \in Letter : From[m] = w /\ seen[m] # NoTarget}
\* Variant: whoever moved them.
ThrownByAnyone(w) == {m \in Received(w) : seen[m] \in Discard}
Thrown(w)    == {m \in Received(w) : seen[m] \in Discard /\ m \notin moves}
Covered(t)   == \E r \in Target : rules[r] # "none" /\ (r = Domain \/ r = t)
Protected(w) == w \in written \/ w \in trusted

Candidate(w) ==
    /\ ~Protected(w)
    /\ Cardinality(Thrown(w)) >= MinDiscards
    /\ Cardinality(Thrown(w)) * 100 >= Ratio * Cardinality(Received(w)) /\ Received(w) # {}
    /\ w \notin Exempt /\ ~Covered(w)
    /\ state[w] # "dismissed" /\ state[Domain] # "dismissed"

Candidates == {w \in Writer : Candidate(w)}
ForDomain  == /\ Cardinality(Candidates) >= DomainMin /\ Candidates # {} /\ ~Freemail /\ ~Covered(Domain)
              /\ \A w \in Writer : ~Protected(w)

Suggestions == IF ForDomain THEN {Domain} ELSE Candidates

\* Where the rule of a suggestion puts mail: where the owner put most of it.
Mostly(t) ==
    LET n(f) == Cardinality({m \in UNION {Thrown(w) : w \in {x \in Candidates : Matches(t, x)}} : seen[m] = f})
    IN  CHOOSE f \in Discard : \A g \in Discard : n(g) <= n(f)

Suggest ==
    /\ rr.step = "rules" /\ rr.todo = {}
    /\ rr' = [rr EXCEPT !.step = "learn", !.list = {[target |-> t, to |-> Mostly(t)] : t \in
                            {s \in Suggestions : state[s] = "none"}}, !.current = Suggestions]
    /\ UNCHANGED <<mail, moves, learned, deleting, past>>

\* A new one becomes a rule, where the mode says so, ...
Status == IF mode = "suggest" THEN "suggested" ELSE "created"
MakeRule(g) ==
    /\ rr.step = "learn" /\ g \in rr.list
    /\ rules' = IF mode = "suggest" THEN rules ELSE [rules EXCEPT ![g.target] = mode]
    /\ dest' = IF mode = "suggest" THEN dest ELSE [dest EXCEPT ![g.target] = g.to]
    /\ rr' = [rr EXCEPT !.step = "state", !.at = g.target, !.list = @ \ {g}]
    /\ UNCHANGED <<mail, moves, mode, state, deleting, past>>

\* ... and is recorded.
RecordSuggestion ==
    /\ rr.step = "state"
    /\ state' = [state EXCEPT ![rr.at] = Status]
    /\ rr' = [rr EXCEPT !.step = "learn"]
    /\ UNCHANGED <<mail, moves, mode, rules, dest, deleting, past>>

\* Suggestions that qualify no longer are forgotten.
\* Variant: those that still qualify, too.
StaleAlways(t) == state[t] = "suggested"
Stale(t) == state[t] = "suggested" /\ t \notin rr.current

EndRun ==
    /\ rr.step = "learn" /\ rr.list = {}
    /\ state' = [t \in Target |-> IF Stale(t) THEN "none" ELSE state[t]]
    /\ rr' = Resting
    /\ UNCHANGED <<mail, moves, mode, rules, dest, deleting, past>>

\* An IMAP or SQL error, or the death of the process, at any step.
RunFails ==
    /\ rr.step # "rest" /\ count.faults < MaxFaults /\ count' = [count EXCEPT !.faults = @ + 1]
    /\ unnoted' = unnoted \cup rr.carried
    /\ rr' = Resting
    /\ UNCHANGED <<mail, moves, learned, deleting, byOwner>>

RunRules ==
    \/ StartRun \/ RecordRuleMoves \/ Suggest \/ RecordSuggestion \/ EndRun
    \/ \E t \in Target \cup {ByHand} : ApplyRule(t)
    \/ \E g \in rr.list : MakeRule(g)

Next == Owner \/ Forget \/ (\E m \in Letter : See(m)) \/ RunRules \/ RunFails

\* The scan ticks for ever, cron starts run-rules every hour, and a request
\* that has deleted a rule goes on to its end.
FairSpec == /\ Init /\ [][Next]_learningVars /\ WF_learningVars(RunRules) /\ WF_learningVars(Forget)
            /\ \A m \in Letter : WF_learningVars(See(m))

-----------------------------------------------------------------------------
\* The tables and the process's locals keep their types.
TypeOK ==
    /\ mode \in Modes /\ place \in [Letter -> Folders] /\ seen \in [Letter -> Folders \cup {NoTarget}]
    /\ trusted \cup written \subseteq Writer /\ moves \cup byOwner \cup unnoted \subseteq Letter
    /\ rules \in [Target -> {"none", "inactive", "active"}] /\ dest \in [Target -> Folders]
    /\ state \in [Target -> {"none", "suggested", "created", "dismissed"}]
    /\ deleting \in Target \cup {NoTarget} /\ rr.current \subseteq Target
    /\ rr.step \in {"rest", "rules", "note", "learn", "state"}

\* What is learned rests on the owner's own discards: mail a rule moved never
\* counts, unless the run died or failed between the move and its record
\* (rules.go:262-264, D34).
Evidence(t) == {m \in byOwner \cup unnoted : Matches(t, From[m])}
LearnsFromOwner ==
    \A t \in Target : rules[t] # "none" \/ state[t] \in {"suggested", "created"} =>
        Cardinality(Evidence(t)) >= MinDiscards

\* A dismissal is lost only to a rescue of that sender, or to a pass that had
\* read the suggestions before it was made (learn.go:422-424, D47).
KeepsDismissals ==
    \A t \in Target : state[t] = "dismissed" /\ state'[t] # "dismissed" =>
        trusted' # trusted \/ (\E m \in Letter : Rescued(m) /\ From[m] = t) \/ (rr.step = "state" /\ rr.at = t)
DismissalHolds == [][KeepsDismissals]_learningVars

\* A sender who goes on qualifying is at last suggested or has a rule.
Qualifies(w) == Candidate(w) /\ ~ForDomain
Answered(w) == state[w] # "none" \/ Covered(w)
Learns == \A w \in Writer : <>[]Qualifies(w) => <>[]Answered(w)
=============================================================================
