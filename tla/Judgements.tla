----------------------------- MODULE Judgements -----------------------------
(***************************************************************************)
(* The scenes in which the service makes up its mind about mail and those  *)
(* who write it: learning from the owner's moves, verdicts, the evaluation *)
(* of models, conversations to answer, identities.                         *)
(***************************************************************************)
EXTENDS Scene

CONSTANTS       \* each scene's parameters: a record with a field per constant of its module
    ForLearning, ForVerdicts, ForEvaluation, ForReplies, ForIdentity

-----------------------------------------------------------------------------
L == INSTANCE Learning WITH
    Letter <- ForLearning.Letter, Writer <- ForLearning.Writer, From <- ForLearning.From,
    Domain <- ForLearning.Domain, Discard <- ForLearning.Discard, Inbox <- ForLearning.Inbox,
    Exempt <- ForLearning.Exempt, Freemail <- ForLearning.Freemail, Modes <- ForLearning.Modes,
    MinDiscards <- ForLearning.MinDiscards, Ratio <- ForLearning.Ratio, DomainMin <- ForLearning.DomainMin,
    NoTarget <- ForLearning.NoTarget, ByHand <- ForLearning.ByHand, Matched <- ForLearning.Matched,
    OwnDest <- ForLearning.OwnDest, MaxMoves <- ForLearning.MaxMoves, MaxFaults <- ForLearning.MaxFaults,
    mode <- x1, place <- x2, seen <- x3, trusted <- x4, written <- x5, moves <- x6, rules <- x7, dest <- x8,
    state <- x9, rr <- x10, deleting <- x11, byOwner <- x12, unnoted <- x13, count <- x14

V == INSTANCE Verdicts WITH
    Letter <- ForVerdicts.Letter, Writer <- ForVerdicts.Writer, From <- ForVerdicts.From, Id <- ForVerdicts.Id,
    Asks <- ForVerdicts.Asks, Synced <- ForVerdicts.Synced, Tracked <- ForVerdicts.Tracked,
    PerTick <- ForVerdicts.PerTick, Active <- ForVerdicts.Active, MaxFaults <- ForVerdicts.MaxFaults,
    cached <- x1, waiting <- x2, gone <- x3, known <- x4, verdict <- x5, anomalies <- x6, told <- x7,
    tick <- x8, cut <- x9, faults <- x10

E == INSTANCE Evaluation WITH
    Held <- ForEvaluation.Held, Legit <- ForEvaluation.Legit, PerClass <- ForEvaluation.PerClass,
    Model <- ForEvaluation.Model, Threshold <- ForEvaluation.Threshold, Confidence <- ForEvaluation.Confidence,
    row <- x1, alive <- x2, sample <- x3, results <- x4

R == INSTANCE Replies WITH
    Thread <- ForReplies.Thread, Stories <- ForReplies.Stories, Strangers <- ForReplies.Strangers,
    Limit <- ForReplies.Limit, MaxRenumber <- ForReplies.MaxRenumber, story <- x1, arrived <- x2, flag <- x3,
    seen <- x4, discarded <- x5, row <- x6, at <- x7, renumbered <- x8, req <- x9, misread <- x10

I == INSTANCE Identity WITH
    Address <- ForIdentity.Address, Login <- ForIdentity.Login, Entry <- ForIdentity.Entry,
    Covers <- ForIdentity.Covers, AlsoMe <- ForIdentity.AlsoMe, Mail <- ForIdentity.Mail,
    From <- ForIdentity.From, To <- ForIdentity.To, Kind <- ForIdentity.Kind, Hall <- ForIdentity.Hall,
    NoReply <- ForIdentity.NoReply, Colleague <- ForIdentity.Colleague, RoleBatch <- ForIdentity.RoleBatch,
    PerTick <- ForIdentity.PerTick, Nobody <- ForIdentity.Nobody, MaxFaults <- ForIdentity.MaxFaults,
    status <- x1, applied <- x2, senders <- x3, mail <- x4, marked <- x5, tracked <- x6, call <- x7, tick <- x8,
    missed <- x9, faults <- x10

\* What the modules assume of their constants.
ASSUME JudgementAssumption ==
    /\ L!ParamAssumption /\ V!ParamAssumption /\ E!ParamAssumption
    /\ R!ParamAssumption /\ I!ParamAssumption

-----------------------------------------------------------------------------
JudgingInit ==
    /\ scene \in Scenes
    /\ \/ At("learning") /\ L!Init
       \/ At("verdicts") /\ V!Init /\ Unused10
       \/ At("evaluation") /\ E!Init /\ Unused4
       \/ At("replies") /\ R!Init /\ Unused10
       \/ At("identity") /\ I!Init /\ Unused10

JudgingNext ==
    \/ At("learning") /\ L!Next /\ UNCHANGED Beyond14
    \/ At("verdicts") /\ V!Next /\ UNCHANGED Beyond10
    \/ At("evaluation") /\ E!Next /\ UNCHANGED Beyond4
    \/ At("replies") /\ R!Next /\ UNCHANGED Beyond10
    \/ At("identity") /\ I!Next /\ UNCHANGED Beyond10

JudgingSpec == JudgingInit /\ [][JudgingNext]_services

-----------------------------------------------------------------------------
(* The properties: each is stated and explained in the scene's module.     *)

\* Every module's variables keep their types.
JudgingTypeOK ==
    /\ At("learning") => L!TypeOK
    /\ At("verdicts") => V!TypeOK
    /\ At("evaluation") => E!TypeOK
    /\ At("replies") => R!TypeOK
    /\ At("identity") => I!TypeOK

\* learn.go: what is learned rests on the owner's own discards.
LearnsFromOwner == At("learning") => L!LearnsFromOwner

\* learn.go, verdicts.go, identity.go: a dismissal, a verdict and a decision
\* about an identity stand against every pass that runs meanwhile.
DecisionsStand ==
    [][/\ At("learning") => L!KeepsDismissals
       /\ At("verdicts") => V!KeepsVerdicts
       /\ At("identity") => I!KeepsDecisions]_services

\* verdicts.go: what asks for money or access has its anomaly, told once; the
\* counts of an evaluation add up.
AskIsRaised == (At("verdicts") => V!AskIsRaised) /\ (At("evaluation") => E!EvalAddsUp)

\* replies.go: an unanswered conversation stays open, and a short list is so
\* because nothing else is open.
RepliesRight == [][At("replies") => R!StaysOpen' /\ R!AnswersInFull]_services

\* identity.go: what a confirmed identity covers is the owner's everywhere.
OwnerIsKnown == At("identity") => I!OwnerIsKnown
=============================================================================
