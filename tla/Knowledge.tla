----------------------------- MODULE Knowledge -----------------------------
(***************************************************************************)
(* The knowledge graph (internal/intel/kg.go).  A relation between two     *)
(* names weighs the evidence for it: each message gives its header edges   *)
(* when it is indexed, its tag edges when enrichment has tagged the cached *)
(* copy, and what the model reads in its body, each once.  Relations with  *)
(* no evidence for a while are marked stale at the end of a tick.          *)
(***************************************************************************)
EXTENDS Integers, Sequences, FiniteSets, FiniteSetsExt, SequencesExt

CONSTANTS
    Mail,           \* messages, numbers: the date, and the order they reach the cache in
    Owner, Own,     \* the account's own address, and all of the owner's
    From, People,   \* [Mail -> address]; [Mail -> the other addresses on it]
    Before,         \* the order of addresses, as pairs: an undirected relation is stored once
    Org,            \* [address -> its domain, "" for a webmail domain]
    Talk,           \* messages with no list, bulk or auto headers
    Thread,         \* [Mail -> conversation]
    Topics,         \* [Mail -> SUBSET (predicate \X name)]: the tags enrichment gives
    Letters,        \* messages enrichment classes as conversation or personal, with a body
    Text,           \* those whose body has a line that is not quoted
    Stated,         \* [Mail -> SUBSET (name \X predicate \X name)]: what a model may read in it
    MaxCc,          \* maxCcParticipants
    TagBatch,       \* tagBatch
    Reach, PerTick, \* how many bodies a tick looks at, and reads (kg_llm_per_tick)
    StaleAfter,     \* intelligence.kg_stale_days
    MaxNow,         \* bound: the clock
    MaxFaults       \* bound: ticks that fail and deaths

\* What the code takes for granted of them.
ParamAssumption ==
    /\ IsFiniteSet(Mail) /\ Mail \subseteq Nat /\ {Reach, PerTick, StaleAfter, MaxNow, MaxFaults} \subseteq Nat

VARIABLES
    now,
    cached, enriched,   \* messages in the cache; those with enrichment_status done
    indexed,        \* rows of intel_messages (kg_done)
    tagDone, readDone,  \* kg_tags_done, kg_llm_done
    graph,          \* kg_relationships: [<<subject, predicate, object>> -> row]
    tick,           \* the pass
    heard,          \* [Mail -> what the model answered]
    calls,          \* [Mail -> how often the model was given it]
    faults

store         == <<indexed, tagDone, readDone, graph>>
mailbox       == <<now, cached, enriched>>
knowledgeVars == <<mailbox, store, tick, heard, calls, faults>>

Rest == [step |-> "rest", todo |-> <<>>, done |-> 0]

Init ==
    /\ now = 0 /\ cached = {} /\ enriched = {} /\ indexed = {} /\ tagDone = {} /\ readDone = {}
    /\ graph = [e \in {} |-> now]
    /\ tick = Rest /\ heard = [m \in Mail |-> {}] /\ calls = [m \in Mail |-> 0] /\ faults = 0

-----------------------------------------------------------------------------
(* What happens around the scanner.                                        *)

Arrived(m) == m <= now
Sync(m) ==
    /\ Arrived(m) /\ m \notin cached /\ (\A n \in Mail : n < m => n \in cached) /\ cached' = cached \cup {m}
    /\ UNCHANGED <<now, enriched, store, tick, heard, calls, faults>>

Enrich(m) ==
    /\ m \in cached \ enriched /\ enriched' = enriched \cup {m}
    /\ UNCHANGED <<now, cached, store, tick, heard, calls, faults>>

Pass ==
    /\ now < MaxNow /\ now' = now + 1
    /\ UNCHANGED <<cached, enriched, store, tick, heard, calls, faults>>

-----------------------------------------------------------------------------
(* kgWriter: evidence for a relation, dated and more or less sure.         *)

\* Variant: evidence replaces the row.
RowOver(old, when, sure) == [weight |-> 1, from |-> when, last |-> when, sure |-> sure, stale |-> FALSE]
RowWith(old, when, sure) ==
    IF old.weight = 0 THEN [weight |-> 1, from |-> when, last |-> when, sure |-> sure, stale |-> FALSE]
    ELSE [old EXCEPT !.weight = @ + 1, !.from = Min({@, when}), !.last = Max({@, when}), !.sure = @ \/ sure]

NoEdge == [weight |-> 0, from |-> 0, last |-> 0, sure |-> FALSE, stale |-> FALSE]
RowOf(g, e) == IF e \in DOMAIN g THEN g[e] ELSE NoEdge

\* A relation of a name with itself is left out.
Linked(g, edges, when, sure) ==
    LET real == {e \in edges : e[1] # e[3]} IN
    [e \in DOMAIN g \cup real |-> IF e \in real THEN RowWith(RowOf(g, e), when, sure) ELSE g[e]]

\* addMessage.
Outgoing(m)  == From[m] \in Own
Others(m)    == People[m] \ Own
Contacts(m)  == IF Outgoing(m) THEN Others(m) ELSE {From[m]}
HeaderEdges(m) ==
    {<<p, "belongs_to", Org[p]>> : p \in {q \in Others(m) : Org[q] # ""}}
    \cup (IF ~Talk[m] THEN {<<p, "is_subscription", Owner>> : p \in {From[m]} \ Own}
          ELSE {<<p, "corresponds_with", Owner>> : p \in Contacts(m)}
               \cup (IF Cardinality(Others(m)) > MaxCc THEN {}
                     ELSE {<<p, "participates_in", Thread[m]>> : p \in Others(m)}
                          \cup {<<r[1], "cc_with", r[2]>> : r \in Before \cap (Others(m) \X Others(m))}))

\* cleanName and parseRelations leave what Topics and Stated hold.
TagEdges(m) == {<<From[m], t[1], t[2]>> : t \in Topics[m]}

-----------------------------------------------------------------------------
(* A tick: index new mail, read the tags, then a few bodies.               *)

StartTick ==
    /\ tick.step = "rest" /\ tick' = [tick EXCEPT !.step = "index"]
    /\ UNCHANGED <<mailbox, store, heard, calls, faults>>

Index(m) ==
    /\ tick.step = "index" /\ Arrived(m) /\ m \notin indexed
    /\ indexed' = indexed \cup {m} /\ graph' = Linked(graph, HeaderEdges(m), m, TRUE)
    /\ UNCHANGED <<mailbox, tagDone, readDone, tick, heard, calls, faults>>

Newest(S, n) == {m \in S : Cardinality({k \in S : k > m}) < n}
TagList == Newest({m \in enriched : Topics[m] # {}}, TagBatch)
TagClaimed == (TagList \cap indexed) \ tagDone

ReadTags ==
    /\ tick.step = "index" /\ tick' = [tick EXCEPT !.step = "tagged"]
    /\ tagDone' = tagDone \cup TagClaimed
    /\ graph' = FoldFunction(LAMBDA m, g : Linked(g, TagEdges(m), m, TRUE), graph, [m \in TagClaimed |-> m])
    /\ UNCHANGED <<mailbox, indexed, readDone, heard, calls, faults>>

NewestFirst(S) == {f \in [1..Cardinality(S) -> S] : \A i, j \in 1..Cardinality(S) : i < j => f[i] > f[j]}

PickBodies ==
    /\ tick.step = "tagged"
    /\ \E todo \in NewestFirst(Newest(enriched \cap Letters, Reach)) :
          tick' = [tick EXCEPT !.step = "read", !.todo = todo]
    /\ UNCHANGED <<mailbox, store, heard, calls, faults>>

ReadsOn   == tick.step = "read" /\ tick.todo # <<>> /\ tick.done < PerTick
Readable(m) == m \in indexed \ readDone /\ m \in Text

PassOver ==
    /\ ReadsOn /\ ~Readable(Head(tick.todo)) /\ tick' = [tick EXCEPT !.todo = Tail(@)]
    /\ UNCHANGED <<mailbox, store, heard, calls, faults>>

Asked == calls' = [calls EXCEPT ![Head(tick.todo)] = @ + 1]

\* The model answers with relations, or fails: then there are none.
ModelAnswers ==
    /\ ReadsOn /\ Readable(Head(tick.todo)) /\ Asked
    /\ \E said \in SUBSET Stated[Head(tick.todo)] : heard' = [heard EXCEPT ![Head(tick.todo)] = said]
    /\ tick' = [tick EXCEPT !.step = "answered"]
    /\ UNCHANGED <<mailbox, store, faults>>

StoreExtracted ==
    /\ tick.step = "answered"
    /\ LET m == Head(tick.todo) IN
       /\ readDone' = readDone \cup {m}
       /\ graph' = IF m \in readDone THEN graph ELSE Linked(graph, heard[m], m, FALSE)
    /\ tick' = [tick EXCEPT !.step = "read", !.todo = Tail(@), !.done = @ + 1]
    /\ UNCHANGED <<mailbox, indexed, tagDone, heard, calls, faults>>

Gated ==
    /\ ReadsOn /\ Readable(Head(tick.todo)) /\ tick' = [tick EXCEPT !.todo = <<>>]
    /\ UNCHANGED <<mailbox, store, heard, calls, faults>>

Old(row) == row.last < now - StaleAfter
\* Variant: what was stale stays so.
StaleOnce(row) == row.stale \/ Old(row)
Stale(row) == Old(row)

MarkStale ==
    /\ tick.step = "read" /\ ~ReadsOn /\ tick' = Rest
    /\ graph' = [e \in DOMAIN graph |-> [graph[e] EXCEPT !.stale = Stale(graph[e])]]
    /\ UNCHANGED <<mailbox, indexed, tagDone, readDone, heard, calls, faults>>

\* A statement fails and the tick returns, or the process dies.
Break ==
    /\ tick.step # "rest" /\ faults < MaxFaults /\ faults' = faults + 1 /\ tick' = Rest
    /\ UNCHANGED <<mailbox, store, heard, calls>>

Tick ==
    \/ StartTick \/ (\E m \in Mail : Index(m)) \/ ReadTags \/ PickBodies \/ PassOver
    \/ ModelAnswers \/ StoreExtracted \/ Gated \/ MarkStale

Next == Tick \/ Break \/ Pass \/ \E m \in Mail : Sync(m) \/ Enrich(m)

Spec == Init /\ [][Next]_knowledgeVars

\* Scanner.Run ticks for ever.
FairSpec == Spec /\ WF_knowledgeVars(Tick)

-----------------------------------------------------------------------------
Evidence(e) ==
    {<<m, "header">> : m \in {n \in indexed : e \in HeaderEdges(n)}}
    \cup {<<m, "tag">> : m \in {n \in tagDone : e \in TagEdges(n)}}
    \cup {<<m, "body">> : m \in {n \in readDone : e \in heard[n]}}

\* The tables keep their types.
TypeOK ==
    /\ now \in 0..MaxNow /\ enriched \subseteq cached /\ cached \subseteq Mail
    /\ tagDone \subseteq indexed /\ readDone \subseteq indexed /\ indexed \subseteq Mail
    /\ tick.step \in {"rest", "index", "tagged", "read", "answered"} /\ faults \in 0..MaxFaults

\* A relation weighs what speaks for it, each message once per source, and is
\* dated from the first to the last of it, in whatever order mail is indexed,
\* tagged and read, over ticks that break off (kg.go:72-74, 196-198, 382-384).
EvidenceOnce ==
    \A e \in DOMAIN graph :
       LET found == Evidence(e) IN
       /\ graph[e].weight = Cardinality(found)
       /\ graph[e].from = Min({v[1] : v \in found}) /\ graph[e].last = Max({v[1] : v \in found})
       /\ graph[e].sure <=> \E v \in found : v[2] # "body"

\* A body goes to the model once, but for a tick that broke off (kg.go:384).
ReadOnce == \A m \in Mail : calls[m] <= 1 + faults

\* Tags of an indexed message among the newest become edges, and a relation
\* with new evidence is not left stale.
Untagged(m) == m \in (TagList \cap indexed) \ tagDone
AgesRight == tick.step = "rest" => \A e \in DOMAIN graph : graph[e].stale = Old(graph[e])
GraphSettles == (\A m \in Mail : Untagged(m) ~> ~Untagged(m)) /\ <>[]AgesRight
=============================================================================
