----------------------------- MODULE MCServices -----------------------------
(***************************************************************************)
(* Every scene with small parameters, the fairness the scenes assume, and  *)
(* what must eventually happen in them.                                    *)
(***************************************************************************)
EXTENDS Services, Judgements, Intelligence, Sequences, FiniteSets, Functions, TLC

-----------------------------------------------------------------------------
(* The scan's account: an inbox, a hold folder and Junk, into which come a *)
(* letter, the owner's answer to it and a message without a Message-ID.    *)

Boxes  == <<"inbox", "held", "junk">>
Normal == [all |-> FALSE, skip |-> FALSE, excluded |-> FALSE, kind |-> "", hold |-> FALSE]
Attributes ==
    "inbox" :> Normal @@ "held" :> [Normal EXCEPT !.hold = TRUE]
    @@ "junk" :> [Normal EXCEPT !.skip = TRUE, !.kind = "junk"]
Letter ==
    [id |-> TRUE, from |-> "s", to |-> <<"me">>, answers |-> "none", thread |-> "letter", date |-> 1,
     conversation |-> TRUE, dmarc |-> "pass", resembles |-> "", otherReplyTo |-> FALSE]
Headers ==
    "letter" :> Letter
    @@ "answer" :> [Letter EXCEPT !.from = "me", !.to = <<"s">>, !.answers = "letter", !.date = 2]
    @@ "bare" :> [Letter EXCEPT !.id = FALSE, !.from = "t", !.thread = "bare", !.dmarc = "fail",
                                !.resembles = "s", !.otherReplyTo = TRUE]

\* Replies: a conversation that goes on after an answer; a letter and a first
\* contact's invitation.
Talk       == [of |-> <<"A", "A", "A">>, answers |-> 2 :> 1, machine |-> {}]
Invitation == [of |-> <<"A", "B">>, answers |-> <<>>, machine |-> {2}]

-----------------------------------------------------------------------------
(* The parameters.                                                         *)

PoolHere ==
    [Account |-> {"a", "b"}, Caller |-> {"watcher"}, MaxDrop |-> 2]

ScanHere ==
    [Folder |-> Range(Boxes), Listing |-> Boxes,
     Placed |-> "letter" :> "inbox" @@ "answer" :> "none" @@ "bare" :> "inbox", Attr |-> Attributes,
     Mail |-> DOMAIN Headers, Header |-> Headers, Address |-> {"me", "s", "t"}, Own |-> {"me"},
     NoMail |-> "none", NoFolder |-> "none", BatchSize |-> 1, MaxGap |-> 5, MismatchAfter |-> 0,
     AuthMinPasses |-> 0, MaxUID |-> 3, MaxChanges |-> 2]

LearningHere ==
    [Letter |-> {"a", "c"}, Writer |-> {"x", "y"}, From |-> "a" :> "x" @@ "c" :> "y", Domain |-> "@d",
     Discard |-> {"trash"}, Inbox |-> "inbox", Exempt |-> {}, Freemail |-> FALSE,
     Modes |-> {"suggest", "active"}, MinDiscards |-> 1, Ratio |-> 50, DomainMin |-> 2, NoTarget |-> "-",
     ByHand |-> "hand", Matched |-> {"a"}, OwnDest |-> "trash", MaxMoves |-> 2, MaxFaults |-> 1]

VerdictsHere ==
    [Letter |-> 1..3, Writer |-> {"x", "y"}, From |-> <<"x", "y", "x">>, Id |-> <<"i", "j", "i">>,
     Asks |-> {"payment"}, Synced |-> {1, 3}, Tracked |-> {1, 2}, PerTick |-> 2, Active |-> TRUE, MaxFaults |-> 1]

EvaluationHere ==
    [Held |-> {"s1", "s2"}, Legit |-> {"l1", "l2"}, PerClass |-> 1, Model |-> {"m"}, Threshold |-> {1, 2},
     Confidence |-> 0..2]

RepliesHere ==
    [Thread |-> {"A", "B"}, Stories |-> {Talk, Invitation}, Strangers |-> {"B"}, Limit |-> 1, MaxRenumber |-> 1]

UnsubscribeHere ==
    [Letter |-> 1..2, Sender |-> {"x", "y"}, From |-> <<"x", "y">>, Https |-> {1, 2}, OneClickHeader |-> {1, 2},
     Signed |-> {1}, MailtoURI |-> {2}, Caller |-> {"c"}, Scopes |-> {"c"}, MaxDone |-> 1, MaxFaults |-> 1]

FilesHere ==
    [Proc |-> {"service", "rules"}, Server |-> {"service", "rules"}, Object |-> {"messages", "fts"}, MaxWrites |-> 1,
     MaxDeaths |-> 1]

IdentityHere ==
    [Address |-> {"x", "w"}, Login |-> "me", Entry |-> {"x", "@d"}, Covers |-> "x" :> {"x"} @@ "@d" :> {"w"},
     AlsoMe |-> {"@d"}, Mail |-> {1}, From |-> <<"w">>, To |-> <<"x">>, Kind |-> <<"plain">>,
     Hall |-> <<"vendor">>, NoReply |-> {}, Colleague |-> {}, RoleBatch |-> 1, PerTick |-> 1,
     Nobody |-> "nobody", MaxFaults |-> 1]

GraphHere ==
    [Mail |-> 1..3, Owner |-> "me", Own |-> {"me"}, From |-> <<"a", "me", "b">>,
     People |-> <<{"a", "me", "b"}, {"me", "a"}, {"b"}>>, Before |-> {<<"a", "b">>},
     Org |-> "me" :> "" @@ "a" :> "o" @@ "b" :> "", Talk |-> <<TRUE, TRUE, FALSE>>, Thread |-> <<"t", "t", "">>,
     Topics |-> <<{<<"works_on", "p">>}, {<<"discusses", "q">>}, {<<"discusses", "q">>}>>, Letters |-> 1..3,
     Text |-> {1, 3}, Stated |-> [m \in 1..3 |-> {<<"ann", "works_on", "p">>}], MaxCc |-> 8, TagBatch |-> 2,
     Reach |-> 3, PerTick |-> 1, StaleAfter |-> 1, MaxNow |-> 3, MaxFaults |-> 1]

StreamHere ==
    [Publisher |-> {"p", "q"}, Client |-> {"c", "d"}, Buffer |-> 1, MaxEvents |-> 2]

TokensHere ==
    [Process |-> {"service", "rules"}, Setup |-> "auth-setup", Rotates |-> TRUE, MaxTokens |-> 3, MaxDeaths |-> 1]

-----------------------------------------------------------------------------
(* Fairness.  A behaviour has one scene, so one condition serves a step of *)
(* each: that of the module's FairSpec.                                    *)

\* Loops tick for ever, and a pass or a Close that has begun goes on.
Goes ==
    \/ At("pool") /\ P!Running /\ P!Tick /\ UNCHANGED Beyond6
    \/ At("scan") /\ S!Scanner /\ UNCHANGED Beyond12
    \/ At("learning") /\ L!RunRules /\ UNCHANGED Beyond14
    \/ At("verdicts") /\ V!Tick /\ UNCHANGED Beyond10
    \/ At("identity") /\ I!Tick /\ UNCHANGED Beyond10
    \/ At("graph") /\ G!Tick /\ UNCHANGED Beyond11
    \/ At("stream") /\ B!Serve("p") /\ UNCHANGED Beyond7
GoesToo ==
    \/ At("pool") /\ P!CloseStep /\ UNCHANGED Beyond6
    \/ At("learning") /\ L!Forget /\ UNCHANGED Beyond14
    \/ At("identity") /\ I!ConfirmApplies /\ UNCHANGED Beyond10
    \/ At("stream") /\ B!Serve("q") /\ UNCHANGED Beyond7
Sees == At("learning") /\ (\E m \in {"a", "c"} : L!See(m)) /\ UNCHANGED Beyond14

\* A lock asked for again and again is got, and a model asked again and again
\* answers.
Judges == At("verdicts") /\ (\E m \in 1..3, a \in V!Answers : V!Judge(m, a)) /\ UNCHANGED Beyond10
Keeps  == At("pool") /\ P!KeepaliveStep /\ UNCHANGED Beyond6
Calls  == At("pool") /\ P!CallerStep("watcher") /\ UNCHANGED Beyond6

Begins == Init \/ JudgingInit \/ IndexInit
Moves  == Next \/ JudgingNext \/ IndexNext

FairSpec ==
    /\ Begins /\ [][Moves]_services
    /\ WF_services(Goes) /\ WF_services(GoesToo) /\ WF_services(Sees)
    /\ SF_services(Keeps \/ Judges) /\ SF_services(Calls)

-----------------------------------------------------------------------------
\* Every module's variables keep their types.
TypesKept == TypeOK /\ JudgingTypeOK /\ IndexTypeOK

\* What waits: a call for its connection, a dropped connection for another,
\* Close for every lock (pool.go); a mail of an unknown sender for its verdict
\* (verdicts.go); a confirmed identity for its history (identity.go); a tagged
\* message for its relations (kg.go); a publisher for the clients (bus.go).
Waits ==
    \/ At("pool") /\ (P!Busy("watcher") \/ P!Closing \/ \E a \in {"a", "b"} : P!Lost(a))
    \/ At("verdicts") /\ \E m \in 1..3 : V!WaitsCached(m) \/ V!WaitsLive(m)
    \/ At("identity") /\ (I!Unapplied("x") \/ I!Unapplied("@d"))
    \/ At("graph") /\ \E m \in 1..3 : G!Untagged(m)
    \/ At("stream") /\ (B!Serving("p") \/ B!Serving("q"))

\* Nothing that waits does so for ever: again and again nothing waits at all.
Served == []<>~Waits

\* scanner.go, kg.go: the index ends up where the mail is, and a relation is
\* stale when the last that speaks for it is old.
Settles == <>[]((At("scan") => S!InStep) /\ (At("graph") => G!AgesRight))

\* learn.go: a sender who goes on qualifies is at last suggested or covered.
Learns == \A w \in {"x", "y"} :
    <>[](At("learning") /\ L!Qualifies(w)) => <>[](At("learning") /\ L!Answered(w))
=============================================================================
