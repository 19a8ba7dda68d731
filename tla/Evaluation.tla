----------------------------- MODULE Evaluation -----------------------------
(***************************************************************************)
(* Evaluating verdict models (internal/service/verdicts.go, D53, D54).  A  *)
(* request stores a row and starts a goroutine; it takes a balanced sample *)
(* of labelled mail, puts every mail to every model, and stores counts.    *)
(* The row is polled meanwhile.                                            *)
(***************************************************************************)
EXTENDS Integers, FiniteSets

CONSTANTS
    Held,           \* mail the hold took and the owner did not release: spam
    Legit,          \* latest mail of conversations with correspondents
    PerClass,       \* per_class
    Model,          \* the models asked
    Threshold,      \* evalThresholds
    Confidence      \* confidences a model answers with

\* A hold takes finitely many mails; thresholds and confidences are compared.
ParamAssumption ==
    /\ IsFiniteSet(Held) /\ IsFiniteSet(Legit)
    /\ PerClass \in Nat /\ Threshold \subseteq Int /\ Confidence \subseteq Int

VARIABLES
    row,        \* the row's status; "none" before the request
    alive,      \* the goroutine runs
    sample,     \* the mail it took, once it has
    results     \* [Model -> counts, or NoResult]

evaluationVars == <<row, alive, sample, results>>

NoSample == [taken |-> FALSE, mail |-> {}]
NoResult == [done |-> FALSE]
Answer == [verdict : {"error", "unparsed"}, sure : {0}] \cup [verdict : {"scam", "bulk", "legitimate"}, sure : Confidence]

Init == row = "none" /\ alive = FALSE /\ sample = NoSample /\ results = [m \in Model |-> NoResult]

\* StartVerdictEval
Start ==
    /\ row = "none" /\ row' = "running" /\ alive' = TRUE
    /\ UNCHANGED <<sample, results>>

\* evalSample: mail that can still be read, up to PerClass of each label.
Balanced(S) == Cardinality(S \cap Held) <= PerClass /\ Cardinality(S \cap Legit) <= PerClass

TakeSample(S) ==
    /\ alive /\ ~sample.taken /\ Balanced(S) /\ sample' = [taken |-> TRUE, mail |-> S]
    /\ UNCHANGED <<row, alive, results>>

\* evaluate: the counts of one model's answers.
Sure(a, t) == a.sure >= t
Flagged(a, t) == a.verdict \in {"scam", "bulk"} /\ Sure(a, t)
Count(S, P(_)) == Cardinality({x \in S : P(x)})

Counts(answers) ==
    LET spam  == sample.mail \cap Held
        legit == sample.mail \ Held
    IN  [done     |-> TRUE,
         spam     |-> Cardinality(spam),
         legit    |-> Cardinality(legit),
         errors   |-> Count(sample.mail, LAMBDA x : answers[x].verdict = "error"),
         unparsed |-> Count(sample.mail, LAMBDA x : answers[x].verdict = "unparsed"),
         caught   |-> [t \in Threshold |-> Count(spam, LAMBDA x : Flagged(answers[x], t))],
         falsepos |-> [t \in Threshold |-> Count(legit, LAMBDA x : Flagged(answers[x], t))],
         scamfp   |-> [t \in Threshold |-> Count(legit, LAMBDA x : Flagged(answers[x], t) /\ answers[x].verdict = "scam")],
         vetted   |-> [t \in Threshold |-> Count(legit, LAMBDA x : ~Flagged(answers[x], t)
                                              /\ answers[x].verdict = "legitimate" /\ Sure(answers[x], t))]]

Evaluate(m, answers) ==
    /\ alive /\ sample.taken /\ ~results[m].done
    /\ results' = [results EXCEPT ![m] = Counts(answers)]
    /\ UNCHANGED <<row, alive, sample>>

\* runVerdictEval stores the outcome; the statement itself may fail.
Finish ==
    /\ alive /\ alive' = FALSE
    /\ \/ sample.taken /\ (\A m \in Model : results[m].done) /\ row' = "done"
       \/ ~sample.taken /\ row' = "failed"
       \/ row' = row
    /\ UNCHANGED <<sample, results>>

Next ==
    \/ Start \/ Finish
    \/ \E S \in SUBSET (Held \cup Legit) : TakeSample(S)
    \/ \E m \in Model : \E answers \in [sample.mail -> Answer] : Evaluate(m, answers)

Spec == Init /\ [][Next]_evaluationVars

-----------------------------------------------------------------------------
\* The row, the goroutine's locals and its results keep their types.
TypeOK ==
    /\ row \in {"none", "running", "done", "failed"} /\ alive \in BOOLEAN
    /\ sample.taken \in BOOLEAN /\ sample.mail \subseteq Held \cup Legit
    /\ \A m \in Model : results[m].done \in BOOLEAN

\* The counts add up: a higher threshold flags and vets no more, no mail is
\* counted twice, neither label outnumbers per_class, and a finished row has
\* every model's (verdicts.go:325-378, D53).
EvalAddsUp ==
    /\ row = "done" => \A m \in Model : results[m].done
    /\ \A m \in Model : results[m].done =>
         LET r == results[m] IN
         /\ r.spam <= PerClass /\ r.legit <= PerClass
         /\ \A t \in Threshold :
              /\ \A u \in Threshold : t <= u => r.caught[u] <= r.caught[t] /\ r.vetted[u] <= r.vetted[t]
              /\ r.scamfp[t] <= r.falsepos[t]
              /\ r.caught[t] + r.falsepos[t] + r.vetted[t] + r.errors + r.unparsed <= r.spam + r.legit
=============================================================================
