----------------------------- MODULE HoldsProofs -----------------------------
(***************************************************************************)
(* Holds for any number of processes, senders, mails, days and bounded     *)
(* events: every table and every local has its type, a record is decided   *)
(* only as the owner asked, and a sender is trusted only by the owner's    *)
(* doing.                                                                  *)
(*                                                                         *)
(* Inv is inductive.  It says what an actor knows at its place: one that   *)
(* decides has been asked to, the mail it carries is from the sender it    *)
(* decides, and a good reply to a digest asks for what its number says.    *)
(*                                                                         *)
(* Trusting is inductive beside it as long as no mail has come twice and   *)
(* no two runs have met: a recorded mail in the inbox is released or its   *)
(* sender vouched for, one run at a time searches, the mail it found has   *)
(* not moved since, and what it moved comes back only by the owner.        *)
(***************************************************************************)
EXTENDS Holds, FiniteSetTheorems, TLAPS

\* The locals of an actor.
Target == Sender \cup {DomainOf[s] : s \in Sender} \cup {NoOne}
Local == [pc : PC, uids : UNION {[S -> Nat] : S \in SUBSET Msg}, todo : SUBSET Msg, from : Sender \cup {NoOne},
          freed : SUBSET (Sender \cup {NoOne}), keep : SUBSET Msg, list : SUBSET Msg, nums : Seq(Sender),
          mail : Nat, action : Action \cup {NoOne}, target : Target, reply : Nat, inbox : SUBSET Nat, row : Nat,
          spent : BOOLEAN]

Deciding == {"held", "carry", "decide", "vouch", "rule", "note"}

\* What an actor with locals l knows, where asks were asked for, mails sent
\* and answers received.
Works(l, asks, mails, answers) ==
    /\ l.pc \in Deciding => <<l.from, l.action>> \in asks
    /\ l.pc = "carry" => \A m \in l.keep : FromOf[m] = l.from
    /\ l.pc = "decide" => \A m \in l.todo : FromOf[m] = l.from
    /\ l.pc = "vouch" => l.action # "block"
    /\ l.pc = "trust" => l.from \in Sender
    /\ l.pc = "number" => l.list # {}
    /\ l.pc = "append" /\ l.nums # <<>> => l.list # {}
    /\ l.pc \in {"mark", "store"} /\ l.nums # <<>> => l.mail \in mails
    /\ l.pc = "store" => l.nums # <<>>
    /\ l.inbox \subseteq answers /\ l.reply \in answers \cup {0}
    /\ l.pc \in {"use", "answered"} => l.reply # 0

Actors == wk \in [Actor -> Local] /\ \A a \in Actor : Works(wk[a], asked, DOMAIN sent, DOMAIN replies)

Mailed == [list : SUBSET Msg, nums : Seq(Sender)]
Row == [mail : Nat, used : BOOLEAN]
Answered == [mail : Nat, number : Nat, action : Action, good : BOOLEAN]

Tables ==
    /\ place \in [Msg -> SUBSET Folder] /\ uid \in [Msg -> Nat]
    /\ DOMAIN held \subseteq Msg /\ held \in [DOMAIN held -> Record]
    /\ trusted \subseteq Sender /\ decided \subseteq Sender \X Action /\ asked \subseteq Sender \X Action
    /\ sent \in Seq(Mailed)
    /\ digests \in Seq(Row) /\ \A i \in DOMAIN digests : digests[i].mail \in DOMAIN sent
    /\ replies \in Seq(Answered) /\ handled \subseteq DOMAIN replies
    /\ day \in 1..MaxDay /\ log \in 0..day /\ used \in Nat

\* A good reply that names a number of its digest asks for what it says.
RepliesAsk ==
    \A r \in DOMAIN replies :
        /\ replies[r].mail \in DOMAIN sent
        /\ replies[r].good =>
              /\ replies[r].number \in DOMAIN sent[replies[r].mail].nums
              /\ <<sent[replies[r].mail].nums[replies[r].number], replies[r].action>> \in asked

Inv == Tables /\ Actors /\ RepliesAsk /\ DecidedAsAsked

\* Before an actor has done anything.
LEMMA IdleLocal == Idle \in Local
  <1>1. <<>> \in UNION {[S -> Nat] : S \in SUBSET Msg}
    <2>1. <<>> \in [{} -> Nat]
      OBVIOUS
    <2> QED BY <2>1
  <1> QED BY <1>1 DEF Idle, Local, PC, Target

\* An idle actor has no locals.
LEMMA StaysIdle == [Idle EXCEPT !.pc = "idle"] = Idle
  <1>1. Idle.pc = "idle"
    BY DEF Idle
  <1> QED BY <1>1, IdleLocal DEF Local

\* Nothing has been asked, sent or received.
LEMMA InitInv == ASSUME Init PROVE Inv
  <1>1. wk = [a \in Actor |-> Idle] /\ held = <<>> /\ sent = <<>> /\ replies = <<>> /\ digests = <<>>
    BY DEF Init
  <1>2. Actors
    BY <1>1, IdleLocal DEF Actors, Works, Idle, Deciding
  <1>3. Tables
    BY <1>1, HoldsAssumption DEF Init, Tables
  <1>4. RepliesAsk /\ DecidedAsAsked
    BY <1>1 DEF RepliesAsk, DecidedAsAsked
  <1> QED BY <1>2, <1>3, <1>4 DEF Inv

\* What has been asked for, sent and received only grows, and an actor that
\* goes on knows what its new place calls for.
LEMMA ActorsGo ==
    ASSUME Inv, NEW a \in Actor, NEW l \in Local, wk' = [wk EXCEPT ![a] = l],
           Works(l, asked', DOMAIN sent', DOMAIN replies'),
           asked \subseteq asked', DOMAIN sent \subseteq DOMAIN sent', DOMAIN replies \subseteq DOMAIN replies'
    PROVE  Actors'
  <1>1. wk' \in [Actor -> Local] /\ \A b \in Actor : wk'[b] = IF b = a THEN l ELSE wk[b]
    BY DEF Inv, Actors
  <1>2. ASSUME NEW b \in Actor PROVE Works(wk'[b], asked', DOMAIN sent', DOMAIN replies')
    <2>1. Works(wk[b], asked, DOMAIN sent, DOMAIN replies)
      BY DEF Inv, Actors
    <2>2. Works(wk[b], asked', DOMAIN sent', DOMAIN replies')
      BY <2>1 DEF Works
    <2> QED BY <1>1, <2>2
  <1> QED BY <1>1, <1>2 DEF Actors

\* An actor that goes on without changing a table.
LEMMA GoesOn ==
    ASSUME Inv, NEW a \in Actor, NEW l \in Local, wk' = [wk EXCEPT ![a] = l],
           Works(l, asked, DOMAIN sent, DOMAIN replies),
           UNCHANGED <<mailVars, rowVars, digestVars, asked>>, used' \in Nat
    PROVE  Inv'
  <1> USE DEF mailVars, rowVars, digestVars
  <1>1. Actors'
    BY ActorsGo
  <1>2. Tables' /\ RepliesAsk' /\ DecidedAsAsked'
    BY DEF Inv, Tables, RepliesAsk, DecidedAsAsked
  <1> QED BY <1>1, <1>2 DEF Inv

\* The mailbox and its owner.
LEMMA OwnerSteps == ASSUME Inv, Owner PROVE Inv'
  <1> USE DEF mailVars, rowVars, digestVars, pastVars, Spend
  <1>1. ASSUME UNCHANGED <<held, trusted, decided, digestVars, wk, asked>>, used' \in Nat,
               place' \in [Msg -> SUBSET Folder], uid' \in [Msg -> Nat]
        PROVE  Inv'
    BY <1>1 DEF Inv, Tables, Actors, RepliesAsk, DecidedAsAsked
  <1>2. ASSUME NEW m \in Msg, Deliver(m) \/ DeliverCopy(m) PROVE Inv'
    <2>1. place' \in [Msg -> SUBSET Folder] /\ uid' \in [Msg -> Nat] /\ used' \in Nat
      <3>1. place' \in [Msg -> SUBSET Folder]
        BY <1>2 DEF Deliver, DeliverCopy, Inv, Tables, Folder
      <3>2. Arrive({m})
        BY <1>2 DEF Deliver, DeliverCopy
      <3>3. uid' \in [Msg -> Nat]
        BY <3>2 DEF Arrive, Inv, Tables
      <3>4. used' \in Nat
        <4>1. used' = used \/ used' = used + 1
          BY <1>2 DEF Deliver, DeliverCopy
        <4> QED BY <4>1 DEF Inv, Tables
      <3> QED BY <3>1, <3>3, <3>4
    <2> QED BY <1>1, <1>2, <2>1 DEF Deliver, DeliverCopy
  <1>3. ASSUME NEW m \in Msg, NEW f \in Folder, MoveBack(m, f) PROVE Inv'
    <2>1. place' \in [Msg -> SUBSET Folder] /\ uid' \in [Msg -> Nat] /\ used' \in Nat
      BY <1>3 DEF MoveBack, Moved, Arrive, Inv, Tables, Folder
    <2> QED BY <1>1, <1>3, <2>1 DEF MoveBack
  <1>4. ASSUME NEW i \in DOMAIN sent, NEW n \in Nat, NEW action \in Action, NEW good \in BOOLEAN,
               good => n \in DOMAIN sent[i].nums, Reply(i, n, action, good)
        PROVE  Inv'
    <2> DEFINE r == [mail |-> i, number |-> n, action |-> action, good |-> good]
    <2>1. i \in Nat /\ r \in Answered
      BY DEF Inv, Tables, Answered
    <2>2. replies \in Seq(Answered) /\ replies' = Append(replies, r)
      BY <1>4 DEF Reply, Inv, Tables
    <2>3. /\ replies' \in Seq(Answered) /\ DOMAIN replies' = 1..Len(replies) + 1 /\ DOMAIN replies = 1..Len(replies)
          /\ Len(replies) \in Nat /\ replies'[Len(replies) + 1] = r
          /\ \A q \in DOMAIN replies : replies'[q] = replies[q]
      BY <2>1, <2>2
    <2>4. good => sent[i].nums[n] \in Sender
      <3>1. sent[i] \in Mailed
        BY DEF Inv, Tables
      <3>2. sent[i].nums \in Seq(Sender)
        BY <3>1 DEF Mailed
      <3> QED BY <1>4, <3>2
    <2>5. asked \subseteq asked' /\ asked' \subseteq Sender \X Action /\ (good => <<sent[i].nums[n], action>> \in asked')
      BY <1>4, <2>4 DEF Reply, Inv, Tables
    <2>6. UNCHANGED <<mailVars, rowVars, sent, digests, log, handled, day, wk>> /\ used' \in Nat
      BY <1>4 DEF Reply, Inv, Tables
    <2>7. Tables'
      BY <2>3, <2>5, <2>6 DEF Inv, Tables
    <2>8. Actors'
      <3>1. ASSUME NEW a \in Actor PROVE Works(wk[a], asked', DOMAIN sent, DOMAIN replies')
        <4>1. Works(wk[a], asked, DOMAIN sent, DOMAIN replies)
          BY DEF Inv, Actors
        <4> QED BY <2>3, <2>5, <4>1 DEF Works
      <3> QED BY <2>6, <3>1 DEF Inv, Actors
    <2>9. RepliesAsk' /\ DecidedAsAsked'
      <3>1. ASSUME NEW q \in DOMAIN replies'
            PROVE  /\ replies'[q].mail \in DOMAIN sent
                   /\ replies'[q].good => /\ replies'[q].number \in DOMAIN sent[replies'[q].mail].nums
                                          /\ <<sent[replies'[q].mail].nums[replies'[q].number], replies'[q].action>> \in asked'
        <4>1. CASE q \in DOMAIN replies
          BY <2>3, <2>5, <4>1 DEF Inv, RepliesAsk
        <4>2. CASE q = Len(replies) + 1
          BY <1>4, <2>3, <2>5, <4>2
        <4> QED BY <2>3, <4>1, <4>2
      <3> QED BY <2>5, <2>6, <3>1 DEF Inv, RepliesAsk, DecidedAsAsked
    <2> QED BY <2>7, <2>8, <2>9 DEF Inv
  <1>5. ASSUME NEW name \in names, DeleteRule(name) PROVE Inv'
    BY <1>1, <1>5 DEF DeleteRule, Inv, Tables
  <1>6. CASE NewDay
    <2>1. UNCHANGED <<mailVars, rowVars, sent, digests, log, replies, handled, wk, pastVars>> /\ day' = day + 1 /\ day < MaxDay
      BY <1>6 DEF NewDay
    <2>2. day' \in 1..MaxDay /\ log \in 0..day'
      BY <2>1, HoldsAssumption DEF Inv, Tables
    <2>3. Tables'
      BY <2>1, <2>2 DEF Inv, Tables
    <2>4. Actors' /\ RepliesAsk' /\ DecidedAsAsked'
      BY <2>1 DEF Inv, Actors, RepliesAsk, DecidedAsAsked
    <2> QED BY <2>3, <2>4 DEF Inv
  <1>7. ASSUME NEW i \in DOMAIN sent, NEW n \in DOMAIN sent[i].nums PROVE n \in Nat
    <2>1. sent[i] \in Mailed
      BY DEF Inv, Tables
    <2>2. sent[i].nums \in Seq(Sender)
      BY <2>1 DEF Mailed
    <2> QED BY <2>2
  <1> QED BY <1>2, <1>3, <1>4, <1>5, <1>6, <1>7 DEF Owner, Action

\* The rule run.
LEMMA RunSteps == ASSUME Inv, NEW a \in Actor, StartRun(a) \/ Run(a) \/ EndRun(a) PROVE Inv'
  <1> USE DEF mailVars, rowVars, digestVars, pastVars
  <1>1. wk[a] \in Local /\ Idle \in Local /\ Due \in Local /\ used \in Nat
    BY IdleLocal DEF Inv, Actors, Tables, Due, Local, PC, Idle
  <1>2. Works(wk[a], asked, DOMAIN sent, DOMAIN replies)
    BY DEF Inv, Actors
  <1>3. /\ Works(Idle, asked, DOMAIN sent, DOMAIN replies) /\ Works(Due, asked, DOMAIN sent, DOMAIN replies)
    BY DEF Works, Due, Idle, Deciding
  <1>4. CASE StartRun(a)
    <2> DEFINE found == {m \in Msg : "INBOX" \in place[m]}
               l == [Idle EXCEPT !.pc = "free", !.todo = found, !.uids = [m \in found |-> uid[m]]]
    <2>1. [m \in found |-> uid[m]] \in UNION {[S -> Nat] : S \in SUBSET Msg}
      <3>1. [m \in found |-> uid[m]] \in [found -> Nat]
        BY DEF Inv, Tables
      <3> QED BY <3>1
    <2>2. l \in Local
      BY <1>1, <2>1 DEF Local, PC
    <2>3. Works(l, asked, DOMAIN sent, DOMAIN replies)
      BY <1>1, <1>3 DEF Works, Local, Deciding, Idle
    <2>4. wk' = [wk EXCEPT ![a] = Due] \/ wk' = [wk EXCEPT ![a] = l]
      BY <1>4 DEF StartRun
    <2> HIDE DEF l
    <2>5. UNCHANGED <<mailVars, rowVars, digestVars, asked, used>>
      BY <1>4 DEF StartRun
    <2> QED BY <1>1, <1>3, <2>2, <2>3, <2>4, <2>5, GoesOn
  <1>5. ASSUME NEW m \in Msg, FreeOne(a, m) PROVE Inv'
    <2> DEFINE l == [wk[a] EXCEPT !.todo = @ \ {m}]
    <2>1. l \in Local /\ l.pc = "free" /\ FromOf[m] \in Sender
      BY <1>1, <1>5, HoldsAssumption DEF FreeOne, At, Local
    <2>2. AfterFree(l) \in Local /\ [l EXCEPT !.pc = "trust", !.from = FromOf[m]] \in Local
      <3>1. DOMAIN l.uids \subseteq Msg
        BY <2>1 DEF Local
      <3>2. /\ [l EXCEPT !.pc = "free"] \in Local /\ [l EXCEPT !.pc = "judge", !.todo = DOMAIN l.uids] \in Local
            /\ [l EXCEPT !.pc = "trust", !.from = FromOf[m]] \in Local
        <4> HIDE DEF l
        <4> QED BY <2>1, <3>1 DEF Local, PC
      <3> QED BY <3>2 DEF AfterFree
    <2>3. /\ Works(AfterFree(l), asked, DOMAIN sent, DOMAIN replies)
          /\ Works([l EXCEPT !.pc = "trust", !.from = FromOf[m]], asked, DOMAIN sent, DOMAIN replies)
      BY <1>1, <1>2, <2>1 DEF Works, AfterFree, Local, Deciding
    <2>4. CASE m \in DOMAIN held /\ ~held[m].released
      <3>1. held' = [held EXCEPT ![m].released = TRUE]
        BY <1>5, <2>4 DEF FreeOne
      <3>2. DOMAIN held' = DOMAIN held /\ held' \in [DOMAIN held -> Record] /\ \A n \in DOMAIN held : held'[n].decision = held[n].decision
        BY <3>1 DEF Inv, Tables, Record
      <3>3. wk' = [wk EXCEPT ![a] = [l EXCEPT !.pc = "trust", !.from = FromOf[m]]]
        BY <1>1, <1>5, <2>4 DEF FreeOne, Goto, Local
      <3>4. UNCHANGED <<mailVars, trusted, names, decided, digestVars, pastVars>>
        BY <1>5 DEF FreeOne
      <3>5. Actors'
        BY <2>2, <2>3, <3>3, <3>4, ActorsGo
      <3> QED BY <3>2, <3>4, <3>5 DEF Inv, Tables, RepliesAsk, DecidedAsAsked
    <2>5. CASE ~(m \in DOMAIN held /\ ~held[m].released)
      BY <1>1, <1>5, <2>2, <2>3, <2>5, GoesOn DEF FreeOne
    <2> QED BY <2>4, <2>5
  <1>6. ASSUME NEW m \in Msg, JudgeOne(a, m) PROVE Inv'
    <2>1. PICK hold \in BOOLEAN :
            wk' = [wk EXCEPT ![a] = AfterJudge([wk[a] EXCEPT !.todo = @ \ {m}, !.keep = IF hold THEN @ \cup {m} ELSE @])]
      BY <1>6 DEF JudgeOne
    <2> DEFINE l == [wk[a] EXCEPT !.todo = @ \ {m}, !.keep = IF hold THEN @ \cup {m} ELSE @]
    <2>2. l \in Local /\ l.pc = "judge"
      BY <1>1, <1>6 DEF JudgeOne, At, Local
    <2>3. Works(l, asked, DOMAIN sent, DOMAIN replies)
      BY <1>1, <1>2, <2>2 DEF Works, Local, Deciding
    <2> HIDE DEF l
    <2>4. AfterJudge(l) \in Local /\ Works(AfterJudge(l), asked, DOMAIN sent, DOMAIN replies)
      <3>1. CASE l.todo # {}
        BY <2>2, <2>3, <3>1 DEF AfterJudge
      <3>2. CASE l.todo = {} /\ l.keep = {}
        BY <1>1, <1>3, <3>2 DEF AfterJudge
      <3>3. CASE l.todo = {} /\ l.keep # {}
        <4>1. [l EXCEPT !.pc = "move"] \in Local
          BY <2>2 DEF Local, PC
        <4>2. Works([l EXCEPT !.pc = "move"], asked, DOMAIN sent, DOMAIN replies)
          BY <2>2, <2>3 DEF Works, Local, Deciding
        <4> QED BY <3>3, <4>1, <4>2 DEF AfterJudge
      <3> QED BY <3>1, <3>2, <3>3
    <2>5. wk' = [wk EXCEPT ![a] = AfterJudge(l)]
      BY <2>1 DEF l
    <2> QED BY <1>1, <1>6, <2>4, <2>5, GoesOn DEF JudgeOne
  <1>7. ASSUME NEW m \in Msg, RecordOne(a, m) PROVE Inv'
    <2> DEFINE l == [wk[a] EXCEPT !.todo = @ \ {m}]
    <2>1. l \in Local /\ l.pc = "record" /\ wk' = [wk EXCEPT ![a] = AfterRecord(l)]
      BY <1>1, <1>7 DEF RecordOne, At, Local
    <2>2. AfterRecord(l) \in Local /\ Works(AfterRecord(l), asked, DOMAIN sent, DOMAIN replies)
      <3>1. Works(l, asked, DOMAIN sent, DOMAIN replies)
        BY <1>1, <1>2, <2>1 DEF Works, Local, Deciding
      <3> QED BY <1>1, <1>3, <2>1, <3>1 DEF AfterRecord
    <2>3. UNCHANGED <<mailVars, trusted, names, decided, digestVars, pastVars>>
      BY <1>7 DEF RecordOne
    <2>4. Actors'
      BY <2>1, <2>2, <2>3, ActorsGo
    <2>5. held' = [n \in DOMAIN held \cup {m} |-> IF n = m THEN RecordRow(m) ELSE held[n]]
      BY <1>7 DEF RecordOne
    <2>6. RecordRow(m) \in Record /\ RecordRow(m).decision = IF m \in DOMAIN held THEN held[m].decision ELSE "none"
      BY DEF RecordRow, NewRecord, Record, Inv, Tables
    <2>7. DOMAIN held' = DOMAIN held \cup {m} /\ held' \in [DOMAIN held' -> Record]
      BY <2>5, <2>6 DEF Inv, Tables
    <2>8. DecidedAsAsked'
      BY <2>3, <2>5, <2>6 DEF Inv, DecidedAsAsked
    <2> QED BY <2>3, <2>4, <2>7, <2>8 DEF Inv, Tables, RepliesAsk
  <1>8. CASE Trust(a)
    <2> DEFINE l == [wk[a] EXCEPT !.from = NoOne, !.freed = @ \cup {wk[a].from}]
    <2>1. l \in Local /\ l.pc = "trust" /\ wk' = [wk EXCEPT ![a] = AfterFree(l)] /\ DOMAIN l.uids \subseteq Msg
      BY <1>1, <1>8 DEF Trust, At, Local
    <2>2. AfterFree(l) \in Local /\ Works(AfterFree(l), asked, DOMAIN sent, DOMAIN replies)
      <3>1. /\ [l EXCEPT !.pc = "free"] \in Local
            /\ [l EXCEPT !.pc = "judge", !.todo = DOMAIN l.uids] \in Local
        BY <2>1 DEF Local, PC
      <3>2. l.inbox \subseteq DOMAIN replies /\ l.reply \in DOMAIN replies \cup {0}
        BY <1>1, <1>2 DEF Works, Local
      <3>3. /\ Works([l EXCEPT !.pc = "free"], asked, DOMAIN sent, DOMAIN replies)
            /\ Works([l EXCEPT !.pc = "judge", !.todo = DOMAIN l.uids], asked, DOMAIN sent, DOMAIN replies)
        <4> HIDE DEF l
        <4> QED BY <2>1, <3>2 DEF Works, Local, Deciding
      <3> QED BY <3>1, <3>3 DEF AfterFree
    <2>3. UNCHANGED <<mailVars, held, names, decided, digestVars, pastVars>> /\ trusted' \subseteq Sender
      BY <1>2, <1>8 DEF Trust, At, Works, Inv, Tables
    <2>4. Actors'
      BY <2>1, <2>2, <2>3, ActorsGo
    <2> QED BY <2>3, <2>4 DEF Inv, Tables, RepliesAsk, DecidedAsAsked
  <1>9. CASE HoldMail(a)
    <2> DEFINE l == [wk[a] EXCEPT !.todo = wk[a].keep, !.pc = "record"]
    <2>1. l \in Local /\ wk' = [wk EXCEPT ![a] = l] /\ wk[a].pc = "move"
      BY <1>1, <1>9 DEF HoldMail, Goto, At, Local, PC
    <2>2. Works(l, asked, DOMAIN sent, DOMAIN replies)
      BY <1>1, <1>2, <2>1 DEF Works, Local, Deciding
    <2>3. UNCHANGED <<uid, rowVars, digestVars, pastVars>> /\ place' \in [Msg -> SUBSET Folder]
      BY <1>9 DEF HoldMail, Moved, Folder, Inv, Tables
    <2>4. Actors'
      BY <2>1, <2>2, <2>3, ActorsGo
    <2> QED BY <2>3, <2>4 DEF Inv, Tables, RepliesAsk, DecidedAsAsked
  <1>10. CASE EndRun(a)
    <2>1. wk' = [wk EXCEPT ![a] = Idle]
      BY <1>10, StaysIdle DEF EndRun, Goto
    <2> QED BY <1>1, <1>3, <1>10, <2>1, GoesOn DEF EndRun
  <1> QED BY <1>4, <1>5, <1>6, <1>7, <1>8, <1>9, <1>10 DEF Run
\* The senders that a digest numbers.
LEMMA SendersFinite == IsFiniteSet(HeldSenders) /\ HeldSenders \subseteq Sender
  <1> DEFINE M == {n \in Msg : Undecided(n)}
             f == [m \in M |-> FromOf[m]]
  <1>1. IsFiniteSet(M)
    BY HoldsAssumption, FS_Subset
  <1>2. f \in Surjection(M, HeldSenders)
    BY DEF Surjection, HeldSenders
  <1>3. IsFiniteSet(HeldSenders)
    <2> HIDE DEF M, f
    <2> QED BY <1>1, <1>2, FS_Surjection
  <1> QED BY <1>3, HoldsAssumption DEF HeldSenders

\* A numbering is the list of senders that a digest is stored with.
LEMMA NumberingsAreSeqs == Numberings(HeldSenders) \subseteq Seq(Sender)
  <1>1. Cardinality(HeldSenders) \in Nat
    BY SendersFinite, FS_CardinalityType
  <1>2. ASSUME NEW f \in Numberings(HeldSenders) PROVE f \in Seq(Sender)
    <2>1. f \in [1..Cardinality(HeldSenders) -> Sender]
      BY SendersFinite DEF Numberings
    <2> QED BY <1>1, <2>1
  <1> QED BY <1>2

\* The digest.
LEMMA DigestSteps == ASSUME Inv, NEW a \in Actor, Digest(a) PROVE Inv'
  <1> USE DEF mailVars, rowVars, digestVars, pastVars
  <1>1. wk[a] \in Local /\ Idle \in Local /\ used \in Nat
    BY IdleLocal DEF Inv, Actors, Tables
  <1>2. Works(wk[a], asked, DOMAIN sent, DOMAIN replies)
    BY DEF Inv, Actors
  <1>3. Works(Idle, asked, DOMAIN sent, DOMAIN replies)
    BY DEF Works, Idle, Deciding
  <1>4. CASE Collect(a)
    <2> DEFINE list == {m \in Msg : Undecided(m) /\ held[m].digested = 0}
               l == [Idle EXCEPT !.list = list, !.pc = IF list = {} THEN "append" ELSE "number"]
    <2>1. wk' = [wk EXCEPT ![a] = l]
      BY <1>1, <1>4 DEF Collect, Goto, Local
    <2>2. l \in Local
      <3>1. list \in SUBSET Msg
        OBVIOUS
      <3> HIDE DEF list
      <3>2. [Idle EXCEPT !.list = list, !.pc = "append"] \in Local
        BY <1>1, <3>1 DEF Local, PC
      <3>3. [Idle EXCEPT !.list = list, !.pc = "number"] \in Local
        BY <1>1, <3>1 DEF Local, PC
      <3> QED BY <3>2, <3>3
    <2>3. Works(l, asked, DOMAIN sent, DOMAIN replies)
      <3> HIDE DEF list
      <3> QED BY DEF Works, Idle, Deciding
    <2> HIDE DEF l
    <2> QED BY <1>1, <1>4, <2>1, <2>2, <2>3, GoesOn DEF Collect
  <1>5. CASE Number(a)
    <2>1. PICK nums \in Numberings(HeldSenders) : Goto(a, "append", [wk[a] EXCEPT !.nums = nums])
      BY <1>5 DEF Number
    <2> DEFINE l == [wk[a] EXCEPT !.nums = nums, !.pc = "append"]
    <2>2. l \in Local /\ wk' = [wk EXCEPT ![a] = l]
      BY <1>1, <2>1, NumberingsAreSeqs DEF Goto, Local, PC
    <2>3. Works(l, asked, DOMAIN sent, DOMAIN replies)
      BY <1>1, <1>2, <1>5 DEF Works, Local, Deciding, Number, At
    <2> HIDE DEF l
    <2> QED BY <1>1, <1>5, <2>2, <2>3, GoesOn DEF Number
  <1>6. CASE AppendDigest(a)
    <2> DEFINE d == [list |-> wk[a].list, nums |-> wk[a].nums]
               l == [wk[a] EXCEPT !.mail = Len(sent'), !.pc = "mark"]
    <2>1. d \in Mailed /\ sent \in Seq(Mailed)
      BY <1>1 DEF Local, Mailed, Inv, Tables
    <2>2. sent' = IF wk[a].list = {} THEN sent ELSE Append(sent, d)
      BY <1>6 DEF AppendDigest
    <2>3. /\ sent' \in Seq(Mailed) /\ DOMAIN sent \subseteq DOMAIN sent' /\ Len(sent') \in Nat
          /\ \A i \in DOMAIN sent : sent'[i] = sent[i]
          /\ wk[a].list # {} => Len(sent') \in DOMAIN sent'
      BY <2>1, <2>2
    <2>4. l \in Local /\ wk' = [wk EXCEPT ![a] = l]
      <3>1. l \in Local
        <4> DEFINE n == Len(sent')
        <4>1. n \in Nat
          BY <2>3
        <4> HIDE DEF n
        <4>2. [wk[a] EXCEPT !.mail = n, !.pc = "mark"] \in Local
          BY <1>1, <4>1 DEF Local, PC
        <4> QED BY <4>2 DEF n
      <3>2. Goto(a, "mark", [wk[a] EXCEPT !.mail = Len(sent')])
        BY <1>6 DEF AppendDigest
      <3>3. wk[a] \in [DOMAIN wk[a] -> {wk[a][k] : k \in DOMAIN wk[a]}]
        BY <1>1 DEF Local
      <3> QED BY <1>1, <3>1, <3>2 DEF Goto, Local
    <2>5. UNCHANGED <<mailVars, rowVars, digests, log, replies, handled, day, pastVars>>
      BY <1>6 DEF AppendDigest
    <2>6. Works(l, asked, DOMAIN sent', DOMAIN replies)
      BY <1>1, <1>2, <1>6, <2>3 DEF Works, Local, Deciding, AppendDigest, At
    <2>7. Actors'
      BY <2>3, <2>4, <2>5, <2>6, ActorsGo
    <2>8. RepliesAsk'
      BY <2>3, <2>5 DEF Inv, RepliesAsk
    <2>9. Tables'
      BY <2>3, <2>5 DEF Inv, Tables
    <2> QED BY <2>5, <2>7, <2>8, <2>9 DEF Inv, DecidedAsAsked
  <1>7. CASE MarkDigested(a)
    <2> DEFINE l == [wk[a] EXCEPT !.pc = IF wk[a].nums = <<>> THEN "log" ELSE "store"]
    <2>1. l \in Local /\ wk' = [wk EXCEPT ![a] = l]
      <3>1. [wk[a] EXCEPT !.pc = "log"] \in Local /\ [wk[a] EXCEPT !.pc = "store"] \in Local
        BY <1>1 DEF Local, PC
      <3> QED BY <1>7, <3>1 DEF MarkDigested, Goto
    <2>2. Works(l, asked, DOMAIN sent, DOMAIN replies)
      BY <1>1, <1>2, <1>7 DEF Works, Local, Deciding, MarkDigested, At
    <2>3. UNCHANGED <<mailVars, trusted, names, decided, digestVars, pastVars>>
      BY <1>7 DEF MarkDigested
    <2>4. Actors'
      BY <2>1, <2>2, <2>3, ActorsGo
    <2>5. held' = [m \in DOMAIN held |-> IF held[m].digested = 0 /\ ~held[m].released
                                         THEN [held[m] EXCEPT !.digested = day] ELSE held[m]]
      BY <1>7 DEF MarkDigested
    <2>6. day \in Nat
      BY HoldsAssumption DEF Inv, Tables
    <2>7. ASSUME NEW m \in DOMAIN held PROVE held'[m] \in Record /\ held'[m].decision = held[m].decision
      <3>1. held[m] \in Record
        BY DEF Inv, Tables
      <3> QED BY <2>5, <2>6, <3>1 DEF Record
    <2>8. DOMAIN held' = DOMAIN held /\ held' \in [DOMAIN held' -> Record]
      BY <2>5, <2>7
    <2> QED BY <2>3, <2>4, <2>7, <2>8 DEF Inv, Tables, RepliesAsk, DecidedAsAsked
  <1>8. CASE StoreDigest(a)
    <2> DEFINE l == [wk[a] EXCEPT !.pc = "log"]
               row == [mail |-> wk[a].mail, used |-> FALSE]
    <2>1. l \in Local /\ wk' = [wk EXCEPT ![a] = l]
      BY <1>1, <1>8 DEF StoreDigest, Goto, Local, PC
    <2>2. Works(l, asked, DOMAIN sent, DOMAIN replies)
      BY <1>1, <1>2, <1>8 DEF Works, Local, Deciding, StoreDigest, At
    <2>3. UNCHANGED <<mailVars, rowVars, sent, log, replies, handled, day, pastVars>>
      BY <1>8 DEF StoreDigest
    <2>4. Actors'
      BY <2>1, <2>2, <2>3, ActorsGo
    <2>5. row \in Row /\ row.mail \in DOMAIN sent
      BY <1>1, <1>2, <1>8 DEF Row, Works, Local, StoreDigest, At
    <2>6. digests \in Seq(Row) /\ digests' = Append(digests, row)
      BY <1>8 DEF StoreDigest, Inv, Tables
    <2>7. /\ digests' \in Seq(Row)
          /\ DOMAIN digests' = DOMAIN digests \cup {Len(digests) + 1}
          /\ digests'[Len(digests) + 1] = row /\ \A i \in DOMAIN digests : digests'[i] = digests[i]
      BY <2>5, <2>6
    <2>8. \A i \in DOMAIN digests' : digests'[i].mail \in DOMAIN sent
      BY <2>5, <2>7 DEF Inv, Tables
    <2> QED BY <2>3, <2>4, <2>7, <2>8 DEF Inv, Tables, RepliesAsk, DecidedAsAsked
  <1>9. CASE LogDigest(a)
    <2>1. wk' = [wk EXCEPT ![a] = Idle]
      BY <1>9, StaysIdle DEF LogDigest, Goto
    <2>2. UNCHANGED <<mailVars, rowVars, sent, digests, replies, handled, day, pastVars>> /\ log' = day
      BY <1>9 DEF LogDigest
    <2>3. Actors'
      BY <1>1, <1>3, <2>1, <2>2, ActorsGo
    <2>4. log' \in 0..day
      BY <2>2, HoldsAssumption DEF Inv, Tables
    <2> QED BY <2>2, <2>3, <2>4 DEF Inv, Tables, RepliesAsk, DecidedAsAsked
  <1> QED BY <1>4, <1>5, <1>6, <1>7, <1>8, <1>9 DEF Digest

\* Where a decision ends.
LEMMA OutcomeGoes ==
    ASSUME NEW l \in Local, NEW asks, NEW mails, NEW answers,
           l.inbox \subseteq answers, l.reply \in answers \cup {0}
    PROVE  Outcome(l) \in Local /\ Works(Outcome(l), asks, mails, answers)
  <1>1. Works(Idle, asks, mails, answers)
    BY DEF Works, Idle, Deciding
  <1>2. [l EXCEPT !.pc = "use"] \in Local
    BY DEF Local, PC
  <1>3. l.reply # 0 => Works([l EXCEPT !.pc = "use"], asks, mails, answers)
    BY DEF Works, Local, Deciding
  <1> QED BY <1>1, <1>2, <1>3, IdleLocal DEF Outcome

\* Screen, for one decision.
LEMMA DecideSteps ==
    ASSUME Inv, NEW a \in Actor,
           Decide(a) \/ \E s \in Sender, action \in Action : StartScreen(a, s, action)
    PROVE  Inv'
  <1> USE DEF mailVars, rowVars, digestVars, pastVars
  <1>1. wk[a] \in Local /\ Idle \in Local /\ used \in Nat
    BY IdleLocal DEF Inv, Actors, Tables
  <1>2. Works(wk[a], asked, DOMAIN sent, DOMAIN replies)
    BY DEF Inv, Actors
  <1>3. wk[a].inbox \subseteq DOMAIN replies /\ wk[a].reply \in DOMAIN replies \cup {0}
    BY <1>2 DEF Works
  <1>4. wk[a].pc \in Deciding => wk[a].from \in Sender /\ wk[a].action \in Action
    BY <1>2 DEF Works, Inv, Tables
  <1>5. /\ Outcome(wk[a]) \in Local
        /\ Works(Outcome(wk[a]), asked, DOMAIN sent, DOMAIN replies)
    BY <1>1, <1>3, OutcomeGoes
  <1>6. ASSUME NEW s \in Sender, NEW action \in Action, StartScreen(a, s, action) PROVE Inv'
    <2> DEFINE l == [Idle EXCEPT !.from = s, !.action = action, !.pc = "held"]
    <2>1. l \in Local
      BY <1>1 DEF Local, PC
    <2>2. wk' = [wk EXCEPT ![a] = l]
      BY <1>1, <1>6 DEF StartScreen, Goto, Local
    <2>3. asked' = asked \cup {<<s, action>>} /\ used' \in Nat
      <3>1. used' = used + 1
        BY <1>6 DEF StartScreen, Spend
      <3>2. used' \in Nat
        BY <1>1, <3>1
      <3> QED BY <1>6, <3>2 DEF StartScreen
    <2>4. UNCHANGED <<mailVars, rowVars, digestVars>>
      BY <1>6 DEF StartScreen
    <2>5. Works(l, asked', DOMAIN sent, DOMAIN replies)
      BY <2>3 DEF Works, Idle, Deciding
    <2>6. Actors'
      BY <2>1, <2>2, <2>3, <2>4, <2>5, ActorsGo
    <2>7. asked' \subseteq Sender \X Action
      BY <2>3 DEF Inv, Tables
    <2>8. RepliesAsk' /\ DecidedAsAsked'
      BY <2>3, <2>4 DEF Inv, RepliesAsk, DecidedAsAsked
    <2> QED BY <2>3, <2>4, <2>6, <2>7, <2>8 DEF Inv, Tables
  <1>7. CASE HeldOf(a)
    <2> DEFINE mine == {m \in Msg : Undecided(m) /\ FromOf[m] = wk[a].from}
               target == IF wk[a].action = "block" THEN BlockTarget(wk[a].from) ELSE wk[a].from
               l == [wk[a] EXCEPT !.keep = mine, !.target = target, !.pc = "carry"]
    <2>1. wk[a].pc = "held"
      BY <1>7 DEF HeldOf, At
    <2>2. mine \in SUBSET Msg /\ target \in Target /\ \A m \in mine : FromOf[m] = wk[a].from
      BY <1>4, <2>1 DEF BlockTarget, Target, Deciding
    <2>3. wk' = [wk EXCEPT ![a] = Outcome(wk[a])] \/ wk' = [wk EXCEPT ![a] = l]
      BY <1>1, <1>7 DEF HeldOf, Goto, Local
    <2> HIDE DEF mine, target
    <2>4. l \in Local
      BY <1>1, <2>2 DEF Local, PC
    <2>5. Works(l, asked, DOMAIN sent, DOMAIN replies)
      BY <1>1, <1>2, <2>1, <2>2 DEF Works, Local, Deciding
    <2> HIDE DEF l
    <2> QED BY <1>1, <1>5, <1>7, <2>3, <2>4, <2>5, GoesOn DEF HeldOf
  <1>8. CASE Carry(a) \/ CarryFails(a)
    <2> DEFINE l == [wk[a] EXCEPT !.todo = wk[a].keep, !.pc = "decide"]
    <2>1. l \in Local /\ wk' = [wk EXCEPT ![a] = l] /\ wk[a].pc = "carry"
      BY <1>1, <1>8 DEF Carry, CarryFails, Goto, At, Local, PC
    <2>2. Works(l, asked, DOMAIN sent, DOMAIN replies)
      BY <1>1, <1>2, <2>1 DEF Works, Local, Deciding
    <2>3. UNCHANGED <<rowVars, digestVars, asked>> /\ used' \in Nat
      <3>1. used' = used \/ used' = used + 1
        BY <1>8 DEF Carry, CarryFails, Spend
      <3> QED BY <1>1, <1>8, <3>1 DEF Carry, CarryFails
    <2>4. place' \in [Msg -> SUBSET Folder] /\ uid' \in [Msg -> Nat]
      <3>1. CASE CarryFails(a)
        BY <3>1 DEF CarryFails, Inv, Tables
      <3>2. CASE Carry(a)
        <4> DEFINE to == Destination(wk[a].action)
                   there == {m \in wk[a].keep : "Held" \in place[m]}
        <4>1. to \in Folder
          BY <1>4, <2>1 DEF Destination, Folder, Action, Deciding
        <4>2. Moved(there, "Held", to) /\ (Arrive(there) \/ UNCHANGED uid)
          BY <3>2 DEF Carry
        <4> HIDE DEF to, there
        <4>3. place' \in [Msg -> SUBSET Folder]
          BY <4>1, <4>2 DEF Moved, Inv, Tables
        <4>4. uid' \in [Msg -> Nat]
          <5>1. uid \in [Msg -> Nat]
            BY DEF Inv, Tables
          <5> QED BY <4>2, <5>1 DEF Arrive
        <4> QED BY <4>3, <4>4
      <3> QED BY <1>8, <3>1, <3>2
    <2>5. Actors'
      BY <2>1, <2>2, <2>3, ActorsGo
    <2> QED BY <2>3, <2>4, <2>5 DEF Inv, Tables, RepliesAsk, DecidedAsAsked
  <1>9. ASSUME NEW m \in Msg, DecideOne(a, m) PROVE Inv'
    <2> DEFINE l == [wk[a] EXCEPT !.todo = @ \ {m}]
    <2>1. l \in Local /\ l.pc = "decide" /\ wk' = [wk EXCEPT ![a] = AfterDecide(l)] /\ wk[a].pc = "decide" /\ m \in wk[a].todo
      BY <1>1, <1>9 DEF DecideOne, At, Local
    <2>2. Works(l, asked, DOMAIN sent, DOMAIN replies)
      BY <1>1, <1>2, <2>1 DEF Works, Local, Deciding
    <2> HIDE DEF l
    <2>3. AfterDecide(l) \in Local /\ Works(AfterDecide(l), asked, DOMAIN sent, DOMAIN replies)
      <3>1. [l EXCEPT !.pc = "rule"] \in Local /\ [l EXCEPT !.pc = "vouch"] \in Local
        BY <2>1 DEF Local, PC
      <3>2. Works([l EXCEPT !.pc = "rule"], asked, DOMAIN sent, DOMAIN replies)
        BY <2>1, <2>2 DEF Works, Local, Deciding
      <3>3. l.action # "block" => Works([l EXCEPT !.pc = "vouch"], asked, DOMAIN sent, DOMAIN replies)
        BY <2>1, <2>2 DEF Works, Local, Deciding
      <3> QED BY <2>1, <2>2, <3>1, <3>2, <3>3 DEF AfterDecide
    <2>4. UNCHANGED <<mailVars, trusted, names, decided, digestVars, pastVars>>
      BY <1>9 DEF DecideOne
    <2>5. Actors'
      BY <2>1, <2>3, <2>4, ActorsGo
    <2>6. FromOf[m] = wk[a].from /\ <<wk[a].from, wk[a].action>> \in asked /\ wk[a].action \in Action
      BY <1>2, <1>4, <2>1 DEF Works, Deciding
    <2>7. held' = [held EXCEPT ![m].decision = wk[a].action, ![m].released = @ \/ wk[a].action # "block"]
      BY <1>9 DEF DecideOne
    <2>8. ASSUME NEW n \in DOMAIN held
          PROVE  held'[n] \in Record /\ held'[n].decision = IF n = m THEN wk[a].action ELSE held[n].decision
      <3>1. held[n] \in Record
        BY DEF Inv, Tables
      <3>2. CASE n # m
        BY <2>7, <3>1, <3>2
      <3>3. CASE n = m
        <4>1. held'[m] = [held[m] EXCEPT !.decision = wk[a].action, !.released = held[m].released \/ wk[a].action # "block"]
          BY <2>7, <3>1, <3>3 DEF Record
        <4> QED BY <2>6, <3>1, <3>3, <4>1 DEF Record
      <3> QED BY <3>2, <3>3
    <2>9. DOMAIN held' = DOMAIN held /\ held' \in [DOMAIN held' -> Record]
      <3>1. DOMAIN held' = DOMAIN held
        BY <2>7
      <3>2. held' = [n \in DOMAIN held |-> held'[n]]
        BY <2>7
      <3> QED BY <2>8, <3>1, <3>2
    <2>10. DecidedAsAsked'
      BY <2>4, <2>6, <2>8, <2>9 DEF Inv, DecidedAsAsked
    <2> QED BY <2>4, <2>5, <2>9, <2>10 DEF Inv, Tables, RepliesAsk
  <1>10. CASE Vouch(a)
    <2> DEFINE l == [wk[a] EXCEPT !.pc = IF wk[a].action = "feed" THEN "rule" ELSE "note"]
    <2>1. l \in Local /\ wk' = [wk EXCEPT ![a] = l] /\ wk[a].pc = "vouch"
      <3>1. [wk[a] EXCEPT !.pc = "rule"] \in Local /\ [wk[a] EXCEPT !.pc = "note"] \in Local
        BY <1>1 DEF Local, PC
      <3> QED BY <1>10, <3>1 DEF Vouch, Goto, At
    <2>2. Works(l, asked, DOMAIN sent, DOMAIN replies)
      BY <1>1, <1>2, <2>1 DEF Works, Local, Deciding
    <2>3. UNCHANGED <<mailVars, held, names, decided, digestVars, pastVars>> /\ trusted' \subseteq Sender
      BY <1>4, <1>10, <2>1 DEF Vouch, Inv, Tables, Deciding
    <2>4. Actors'
      BY <2>1, <2>2, <2>3, ActorsGo
    <2> QED BY <2>3, <2>4 DEF Inv, Tables, RepliesAsk, DecidedAsAsked
  <1>11. CASE MakeRule(a)
    <2> DEFINE l == [wk[a] EXCEPT !.pc = "note"]
    <2>1. l \in Local /\ (wk' = [wk EXCEPT ![a] = l] \/ wk' = [wk EXCEPT ![a] = Outcome(wk[a])]) /\ wk[a].pc = "rule"
      BY <1>1, <1>11 DEF MakeRule, Goto, At, Local, PC
    <2>2. Works(l, asked, DOMAIN sent, DOMAIN replies)
      BY <1>1, <1>2, <2>1 DEF Works, Local, Deciding
    <2>3. UNCHANGED <<mailVars, held, trusted, decided, digestVars, pastVars>>
      BY <1>11 DEF MakeRule
    <2> HIDE DEF l
    <2>4. Actors'
      BY <1>5, <2>1, <2>2, <2>3, ActorsGo
    <2> QED BY <2>3, <2>4 DEF Inv, Tables, RepliesAsk, DecidedAsAsked
  <1>12. CASE Note(a)
    <2>1. wk' = [wk EXCEPT ![a] = Outcome(wk[a])] /\ wk[a].pc = "note"
      BY <1>12 DEF Note, At
    <2>2. UNCHANGED <<mailVars, held, trusted, names, digestVars, pastVars>> /\ decided' \subseteq Sender \X Action
      BY <1>4, <1>12, <2>1 DEF Note, Inv, Tables, Deciding
    <2>3. Actors'
      BY <1>5, <2>1, <2>2, ActorsGo
    <2> QED BY <2>2, <2>3 DEF Inv, Tables, RepliesAsk, DecidedAsAsked
  <1> QED BY <1>6, <1>7, <1>8, <1>9, <1>10, <1>11, <1>12 DEF Decide

\* On to the next reply.
LEMMA NextGoes ==
    ASSUME NEW l \in Local, NEW asks, NEW mails, NEW answers, l.inbox \subseteq answers
    PROVE  NextReply(l) \in Local /\ Works(NextReply(l), asks, mails, answers)
  <1> DEFINE n == [Idle EXCEPT !.pc = "reply", !.inbox = l.inbox, !.row = l.row, !.spent = l.spent]
  <1>1. Works(Idle, asks, mails, answers)
    BY DEF Works, Idle, Deciding
  <1>2. n \in Local
    BY IdleLocal DEF Local, PC
  <1>3. Works(n, asks, mails, answers)
    BY DEF Works, Idle, Deciding
  <1> QED BY <1>1, <1>2, <1>3, IdleLocal DEF NextReply

\* The replies to a digest.
LEMMA TickSteps == ASSUME Inv, NEW a \in Actor, StartTick(a) \/ Tick(a) PROVE Inv'
  <1> USE DEF mailVars, rowVars, digestVars, pastVars
  <1>1. wk[a] \in Local /\ Idle \in Local /\ used \in Nat
    BY IdleLocal DEF Inv, Actors, Tables
  <1>2. Works(wk[a], asked, DOMAIN sent, DOMAIN replies)
    BY DEF Inv, Actors
  <1>3. wk[a].inbox \subseteq DOMAIN replies /\ wk[a].reply \in DOMAIN replies \cup {0}
    BY <1>2 DEF Works
  <1>4. DOMAIN replies \subseteq Nat \ {0}
    BY DEF Inv, Tables
  <1>5. CASE StartTick(a)
    <2> DEFINE row == Len(digests)
               spent == digests[Len(digests)].used
               l == [Idle EXCEPT !.pc = "reply", !.row = row, !.spent = spent, !.inbox = DOMAIN replies]
    <2>1. row \in Nat /\ spent \in BOOLEAN
      <3>1. digests \in Seq(Row) /\ digests # <<>>
        BY <1>5 DEF StartTick, Inv, Tables
      <3>2. digests[Len(digests)] \in Row /\ Len(digests) \in Nat
        BY <3>1
      <3> QED BY <3>2 DEF Row
    <2>2. Goto(a, "reply", [Idle EXCEPT !.row = row, !.spent = spent, !.inbox = DOMAIN replies])
      BY <1>5 DEF StartTick
    <2> HIDE DEF row, spent
    <2>3. l \in Local
      BY <1>1, <1>4, <2>1 DEF Local, PC
    <2>4. wk' = [wk EXCEPT ![a] = l]
      BY <1>1, <2>2 DEF Goto, Local
    <2>5. Works(l, asked, DOMAIN sent, DOMAIN replies)
      BY DEF Works, Idle, Deciding
    <2> HIDE DEF l
    <2> QED BY <1>1, <1>5, <2>3, <2>4, <2>5, GoesOn DEF StartTick
  <1>6. ASSUME NEW r \in DOMAIN replies, TakeReply(a, r) PROVE Inv'
    <2> DEFINE l == [wk[a] EXCEPT !.inbox = @ \ {r}, !.reply = r]
               nums == sent[digests[wk[a].row].mail].nums
               n == nums[replies[r].number]
               h == [l EXCEPT !.from = n, !.action = replies[r].action, !.pc = "held"]
               q == [l EXCEPT !.pc = "answered"]
    <2>1. l \in Local /\ l.row = wk[a].row /\ l.inbox \subseteq DOMAIN replies /\ l.reply = r /\ r # 0
      BY <1>1, <1>3, <1>4 DEF Local
    <2>2. NextReply(l) \in Local /\ Works(NextReply(l), asked, DOMAIN sent, DOMAIN replies)
      BY <2>1, NextGoes
    <2>3. CASE r \in handled
      <3>1. wk' = [wk EXCEPT ![a] = NextReply(l)]
        BY <1>6, <2>3 DEF TakeReply
      <3> QED BY <1>1, <1>6, <2>2, <3>1, GoesOn DEF TakeReply
    <2>4. CASE r \notin handled /\ Accepted(l, r) /\ replies[r].number \in DOMAIN nums
      <3>1. Goto(a, "held", [l EXCEPT !.from = n, !.action = replies[r].action])
        BY <1>6, <2>1, <2>4 DEF TakeReply
      <3>2. replies[r].mail = digests[wk[a].row].mail /\ replies[r].good
        BY <2>1, <2>4 DEF Accepted
      <3>3. <<n, replies[r].action>> \in asked
        BY <3>2 DEF Inv, RepliesAsk
      <3>4. n \in Sender /\ replies[r].action \in Action
        BY <3>3 DEF Inv, Tables
      <3> HIDE DEF n, l
      <3>5. h \in Local /\ wk' = [wk EXCEPT ![a] = h]
        BY <2>1, <3>1, <3>4 DEF Goto, Local, PC
      <3>6. Works(h, asked, DOMAIN sent, DOMAIN replies)
        BY <2>1, <3>3 DEF Works, Local, Deciding
      <3> HIDE DEF h
      <3> QED BY <1>1, <1>6, <3>5, <3>6, GoesOn DEF TakeReply
    <2>5. CASE r \notin handled /\ ~(Accepted(l, r) /\ replies[r].number \in DOMAIN nums)
      <3>1. Goto(a, "answered", l)
        BY <1>6, <2>1, <2>5 DEF TakeReply
      <3> HIDE DEF l
      <3>2. q \in Local /\ wk' = [wk EXCEPT ![a] = q]
        BY <2>1, <3>1 DEF Goto, Local, PC
      <3>3. Works(q, asked, DOMAIN sent, DOMAIN replies)
        BY <2>1 DEF Works, Local, Deciding
      <3> HIDE DEF q
      <3> QED BY <1>1, <1>6, <3>2, <3>3, GoesOn DEF TakeReply
    <2> QED BY <2>3, <2>4, <2>5
  <1>7. CASE UseToken(a)
    <2> DEFINE l == [wk[a] EXCEPT !.pc = "answered"]
    <2>1. l \in Local /\ wk' = [wk EXCEPT ![a] = l] /\ wk[a].pc = "use"
      BY <1>1, <1>7 DEF UseToken, Goto, At, Local, PC
    <2>2. Works(l, asked, DOMAIN sent, DOMAIN replies)
      BY <1>1, <1>2, <2>1 DEF Works, Local, Deciding
    <2>3. UNCHANGED <<mailVars, rowVars, sent, log, replies, handled, day, pastVars>>
      BY <1>7 DEF UseToken
    <2>4. Actors'
      BY <2>1, <2>2, <2>3, ActorsGo
    <2>5. digests' = [digests EXCEPT ![wk[a].row].used = TRUE] /\ digests \in Seq(Row)
      BY <1>7 DEF UseToken, Inv, Tables
    <2>6. /\ DOMAIN digests' = DOMAIN digests /\ digests' \in Seq(Row)
          /\ \A i \in DOMAIN digests : digests'[i].mail = digests[i].mail
      <3>1. ASSUME NEW i \in DOMAIN digests PROVE digests'[i] \in Row /\ digests'[i].mail = digests[i].mail
        <4>1. digests[i] \in Row
          BY <2>5
        <4> QED BY <2>5, <4>1 DEF Row
      <3>2. DOMAIN digests' = 1..Len(digests) /\ Len(digests) \in Nat
        BY <2>5
      <3> DEFINE d == [digests[wk[a].row] EXCEPT !.used = TRUE]
      <3>3. digests' = [digests EXCEPT ![wk[a].row] = d]
        BY <2>5
      <3> HIDE DEF d
      <3>4. wk[a].row \in DOMAIN digests => d \in Row
        BY <3>1, <3>3
      <3>5. CASE wk[a].row \in DOMAIN digests
        <4>1. digests' \in Seq(Row)
          BY <2>5, <3>3, <3>4, <3>5
        <4> QED BY <3>1, <3>2, <4>1
      <3>6. CASE wk[a].row \notin DOMAIN digests
        <4>1. digests' = digests
          BY <2>5, <3>3, <3>6
        <4> QED BY <2>5, <4>1
      <3> QED BY <3>5, <3>6
    <2> QED BY <2>3, <2>4, <2>6 DEF Inv, Tables, RepliesAsk, DecidedAsAsked
  <1>8. CASE Answer(a)
    <2>1. wk' = [wk EXCEPT ![a] = NextReply(wk[a])] /\ wk[a].pc = "answered"
      BY <1>8 DEF Answer, At
    <2>2. NextReply(wk[a]) \in Local /\ Works(NextReply(wk[a]), asked, DOMAIN sent, DOMAIN replies)
      BY <1>1, <1>3, NextGoes
    <2>3. UNCHANGED <<mailVars, rowVars, sent, digests, log, replies, day, pastVars>>
      BY <1>8 DEF Answer
    <2>4. handled' \subseteq DOMAIN replies
      BY <1>2, <1>8, <2>1 DEF Answer, Works, Inv, Tables
    <2>5. Actors'
      BY <2>1, <2>2, <2>3, ActorsGo
    <2> QED BY <2>3, <2>4, <2>5 DEF Inv, Tables, RepliesAsk, DecidedAsAsked
  <1> QED BY <1>5, <1>6, <1>7, <1>8 DEF Tick

\* A process that dies, or a command or a statement that fails.
LEMMA StopSteps == ASSUME Inv, NEW a \in Actor, Stop(a) PROVE Inv'
  <1>1. wk[a] \in Local /\ Idle \in Local /\ Due \in Local /\ used \in Nat
    BY IdleLocal DEF Inv, Actors, Tables, Due, Local, PC
  <1>2. Works(wk[a], asked, DOMAIN sent, DOMAIN replies)
    BY DEF Inv, Actors
  <1>3. /\ Works(Idle, asked, DOMAIN sent, DOMAIN replies)
        /\ Works(Due, asked, DOMAIN sent, DOMAIN replies)
    BY DEF Works, Due, Idle, Deciding
  <1>4. wk[a].inbox \subseteq DOMAIN replies /\ wk[a].reply \in DOMAIN replies \cup {0}
    BY <1>2 DEF Works
  <1>5. Outcome(wk[a]) \in Local /\ Works(Outcome(wk[a]), asked, DOMAIN sent, DOMAIN replies)
    BY <1>1, <1>4, OutcomeGoes
  <1>6. NextReply(wk[a]) \in Local /\ Works(NextReply(wk[a]), asked, DOMAIN sent, DOMAIN replies)
    BY <1>1, <1>4, NextGoes
  <1>7. [wk[a] EXCEPT !.pc = "answered"] \in Local
    BY <1>1 DEF Local, PC
  <1>8. wk[a].reply # 0 => Works([wk[a] EXCEPT !.pc = "answered"], asked, DOMAIN sent, DOMAIN replies)
    BY <1>1, <1>4 DEF Works, Local, Deciding
  <1>9. AfterFailure(wk[a]) \in Local /\ Works(AfterFailure(wk[a]), asked, DOMAIN sent, DOMAIN replies)
    BY <1>1, <1>3, <1>5, <1>6, <1>7, <1>8 DEF AfterFailure
  <1>10. PICK l \in {Idle, AfterFailure(wk[a])} : wk' = [wk EXCEPT ![a] = l]
    BY DEF Stop
  <1>11. UNCHANGED <<mailVars, rowVars, digestVars, asked>> /\ used' \in Nat
    <2>1. used' = used + 1
      BY DEF Stop, Spend
    <2> QED BY <1>1, <2>1 DEF Stop
  <1> QED BY <1>1, <1>3, <1>9, <1>10, <1>11, GoesOn

\* Every step keeps the invariant.
LEMMA Step == ASSUME Inv, [Next]_vars PROVE Inv'
  <1>1. CASE UNCHANGED vars
    BY <1>1 DEF vars, mailVars, rowVars, digestVars, pastVars, Inv, Tables, Actors, RepliesAsk, DecidedAsAsked
  <1>2. CASE Next
    BY <1>2, OwnerSteps, RunSteps, DigestSteps, DecideSteps, TickSteps, StopSteps DEF Next
  <1> QED BY <1>1, <1>2

\* The invariant holds throughout.
LEMMA InvHolds == Spec => []Inv
  BY InitInv, Step, PTL DEF Spec

\* Mailbox, tables, log and every actor's locals keep their types, whichever
\* statements fail and wherever a process stops (applyRule, sendHoldDigest,
\* Screen, ScreenReplyTick).
THEOREM TypeCorrect == Spec => []TypeOK
  <1>1. Inv => TypeOK
    <2> SUFFICES ASSUME Inv PROVE TypeOK
      OBVIOUS
    <2>1. ASSUME NEW a \in Actor PROVE DOMAIN wk[a] = DOMAIN Idle /\ wk[a].pc \in PC /\ wk[a].keep \subseteq Msg
      BY DEF Inv, Actors, Local, Idle
    <2>2. ASSUME NEW i \in DOMAIN digests PROVE digests[i].mail \in DOMAIN sent /\ digests[i].used \in BOOLEAN
      <3>1. digests[i] \in Row
        BY DEF Inv, Tables
      <3> QED BY <3>1 DEF Row, Inv, Tables
    <2> QED BY <2>1, <2>2 DEF Inv, Tables, TypeOK
  <1> QED BY <1>1, InvHolds, PTL

\* A record is decided only as the owner asked: Screen decides what it was
\* called with, and a reply is read with the numbers of the digest it answers
\* (screenReplyStatus compares the Message-ID before anything is parsed).
THEOREM OnlyAsAsked == Spec => []DecidedAsAsked
  <1>1. Inv => DecidedAsAsked
    BY DEF Inv
  <1> QED BY <1>1, InvHolds, PTL

-----------------------------------------------------------------------------
\* The owner has vouched for the sender; nothing has come twice, no runs met.
Earned(s) == s \in back \/ <<s, "approve">> \in asked \/ <<s, "feed">> \in asked
Fair == marred \cap {"copy", "overlap"} = {}

Searching == {"free", "trust", "judge", "move"}
Running(l) == l.pc \in Searching \cup {"record"}

\* What a rule run with locals l relies on: the mail it found has stayed where
\* it was, and what it has moved has not come back but by the owner's doing.
Sound(l) ==
    /\ l.pc \in Searching =>
          /\ l.todo \cup l.keep \subseteq DOMAIN l.uids
          /\ \A m \in DOMAIN l.uids : "INBOX" \in place[m] /\ uid[m] = l.uids[m]
    /\ l.pc = "trust" => Earned(l.from)
    /\ l.pc = "record" => \A m \in l.todo : uid[m] # 0 /\ ("INBOX" \in place[m] => Earned(FromOf[m]))

Recorded == \A m \in DOMAIN held : /\ uid[m] # 0
                                   /\ "INBOX" \in place[m] => held[m].released \/ Earned(FromOf[m])
OneCopy == \A m \in Msg : /\ \A f, g \in place[m] : f = g
                          /\ uid[m] = 0 => place[m] = {}
Vouched == \A s \in trusted : Earned(s)
OneRun == \A a \in Actor : Running(wk[a]) =>
             /\ a \in Runner /\ Sound(wk[a])
             /\ \A b \in Actor : Running(wk[b]) => a = b

Trusting == Recorded /\ OneCopy /\ Vouched /\ OneRun

\* A step of one actor that leaves the mailbox alone.
LEMMA RunsOn ==
    ASSUME Inv, Trusting, NEW a \in Actor, NEW l, wk' = [wk EXCEPT ![a] = l],
           Running(l) => Running(wk[a]) /\ Sound(l),
           UNCHANGED <<place, uid, back>>, asked \subseteq asked', Vouched',
           \A m \in DOMAIN held' : /\ uid[m] # 0
                                   /\ "INBOX" \in place[m] => held'[m].released \/ Earned(FromOf[m])
    PROVE  Trusting'
  <1>1. \A s : Earned(s) => Earned(s)'
    BY DEF Earned
  <1>2. Recorded' /\ OneCopy'
    BY <1>1 DEF Trusting, Recorded, OneCopy
  <1>3. \A b \in Actor : wk'[b] = IF b = a THEN l ELSE wk[b]
    BY DEF Inv, Actors
  <1>4. ASSUME NEW b \in Actor, Running(wk'[b])
        PROVE  Running(wk[b]) /\ Sound(wk[b])'
    <2>1. Running(wk[b]) /\ Sound(wk'[b])
      BY <1>3, <1>4 DEF Trusting, OneRun
    <2> QED BY <1>1, <2>1 DEF Sound
  <1>5. OneRun'
    BY <1>4 DEF Trusting, OneRun, Running
  <1> QED BY <1>2, <1>5 DEF Trusting

\* Mail that comes into a folder from outside the inbox.
LEMMA MailComes ==
    ASSUME Inv, Trusting, NEW S \in SUBSET Msg, NEW to \in Folder,
           \A m \in Msg \ S : place'[m] = place[m] /\ uid'[m] = uid[m],
           \A m \in S : /\ "INBOX" \notin place[m] /\ place'[m] = {to} /\ uid'[m] # 0
                        /\ to = "INBOX" => uid[m] = 0 \/ Earned(FromOf[m])',
           UNCHANGED <<held, trusted>>, asked \subseteq asked', back \subseteq back',
           \A a \in Actor : Running(wk'[a]) => wk'[a] = wk[a]
    PROVE  Trusting'
  <1>1. \A s : Earned(s) => Earned(s)'
    BY DEF Earned
  <1>2. DOMAIN held \subseteq Msg
    BY DEF Inv, Tables
  <1>3. OneCopy' /\ Vouched'
    BY <1>1 DEF Trusting, OneCopy, Vouched
  <1>4. Recorded'
    BY <1>1, <1>2 DEF Trusting, Recorded
  <1>5. ASSUME NEW a \in Actor, Running(wk[a]), wk'[a] = wk[a] PROVE Sound(wk[a])'
    <2>1. Sound(wk[a]) /\ DOMAIN wk[a].uids \subseteq Msg /\ wk[a].todo \subseteq Msg
      BY <1>5 DEF Trusting, OneRun, Inv, Actors, Local
    <2>2. wk'[a].pc \in Searching =>
            \A m \in DOMAIN wk'[a].uids : "INBOX" \in place'[m] /\ uid'[m] = wk'[a].uids[m]
      BY <1>5, <2>1 DEF Sound
    <2>3. wk'[a].pc = "record" =>
            \A m \in wk'[a].todo : uid'[m] # 0 /\ ("INBOX" \in place'[m] => Earned(FromOf[m])')
      BY <1>1, <1>5, <2>1 DEF Sound
    <2> QED BY <1>1, <1>5, <2>1, <2>2, <2>3 DEF Sound
  <1>6. OneRun'
    BY <1>5 DEF Trusting, OneRun
  <1> QED BY <1>3, <1>4, <1>6 DEF Trusting

\* Nobody is trusted and nothing recorded.
LEMMA InitTrusts == ASSUME Init PROVE Trusting
  <1>1. held = <<>> /\ DOMAIN held = {} /\ trusted = {} /\ wk = [a \in Actor |-> Idle]
    BY DEF Init
  <1>2. ~Running(Idle)
    BY DEF Running, Searching, Idle
  <1>3. OneCopy
    BY DEF Init, OneCopy
  <1> QED BY <1>1, <1>2, <1>3 DEF Trusting, Recorded, Vouched, OneRun

\* The owner: mail comes for the first time, or by the owner's own doing.
LEMMA OwnerTrusts == ASSUME Inv, Trusting, Owner, Fair' PROVE Trusting'
  <1> USE DEF mailVars, rowVars, digestVars, pastVars
  <1>1. place \in [Msg -> SUBSET Folder] /\ uid \in [Msg -> Nat]
    BY DEF Inv, Tables
  <1>2. ASSUME NEW m \in Msg, Deliver(m) PROVE Trusting'
    <2>1. place[m] = {}
      BY <1>2 DEF Deliver, Trusting, OneCopy
    <2>2. place' = [place EXCEPT ![m] = {"INBOX"}] /\ uid' = [n \in Msg |-> IF n \in {m} THEN uid[n] + 1 ELSE uid[n]]
      BY <1>2 DEF Deliver, Arrive
    <2>3. /\ \A n \in Msg \ {m} : place'[n] = place[n] /\ uid'[n] = uid[n]
          /\ place'[m] = {"INBOX"} /\ uid[m] = 0 /\ uid'[m] # 0
      BY <1>1, <1>2, <2>2 DEF Deliver
    <2>4. UNCHANGED <<rowVars, digestVars, wk, pastVars>>
      BY <1>2 DEF Deliver
    <2> DEFINE S == {m}
    <2>5. S \in SUBSET Msg /\ "INBOX" \in Folder
      BY DEF Folder
    <2>6. /\ \A n \in Msg \ S : place'[n] = place[n] /\ uid'[n] = uid[n]
          /\ \A n \in S : /\ "INBOX" \notin place[n] /\ place'[n] = {"INBOX"} /\ uid'[n] # 0
                         /\ uid[n] = 0
      BY <2>1, <2>3
    <2> HIDE DEF S
    <2> QED BY <2>4, <2>5, <2>6, MailComes
  <1>3. ASSUME NEW m \in Msg, DeliverCopy(m) PROVE FALSE
    BY <1>3 DEF DeliverCopy, Fair
  <1>4. ASSUME NEW m \in Msg, NEW f \in Folder, MoveBack(m, f) PROVE Trusting'
    <2>1. f # "INBOX" /\ place[m] = {f}
      BY <1>1, <1>4 DEF MoveBack, Trusting, OneCopy
    <2>2. /\ place' = [n \in Msg |-> IF n \in {m} THEN (place[n] \ {f}) \cup {"INBOX"} ELSE place[n]]
          /\ uid' = [n \in Msg |-> IF n \in {m} THEN uid[n] + 1 ELSE uid[n]]
      BY <1>4 DEF MoveBack, Arrive, Moved
    <2>3. /\ \A n \in Msg \ {m} : place'[n] = place[n] /\ uid'[n] = uid[n]
          /\ place'[m] = {"INBOX"} /\ uid'[m] # 0
      BY <1>1, <2>1, <2>2
    <2>4. UNCHANGED <<rowVars, digestVars, wk, asked>> /\ back' = back \cup {FromOf[m]}
      BY <1>4 DEF MoveBack
    <2>5. Earned(FromOf[m])'
      BY <2>4 DEF Earned
    <2> DEFINE S == {m}
    <2>6. S \in SUBSET Msg /\ "INBOX" \in Folder
      BY DEF Folder
    <2>7. /\ \A n \in Msg \ S : place'[n] = place[n] /\ uid'[n] = uid[n]
          /\ \A n \in S : /\ "INBOX" \notin place[n] /\ place'[n] = {"INBOX"} /\ uid'[n] # 0
                         /\ Earned(FromOf[n])'
      BY <2>1, <2>3, <2>5
    <2> HIDE DEF S
    <2> QED BY <2>4, <2>6, <2>7, MailComes
  <1>5. ASSUME UNCHANGED <<mailVars, held, trusted, wk, back>>, asked \subseteq asked' PROVE Trusting'
    <2>1. {} \in SUBSET Msg /\ "INBOX" \in Folder
      BY DEF Folder
    <2> QED BY <1>5, <2>1, MailComes
  <1>6. ASSUME NEW i, NEW n, NEW action, NEW good, Reply(i, n, action, good) PROVE Trusting'
    BY <1>5, <1>6 DEF Reply
  <1>7. ASSUME NEW name, DeleteRule(name) PROVE Trusting'
    BY <1>5, <1>7 DEF DeleteRule
  <1>8. CASE NewDay
    BY <1>5, <1>8 DEF NewDay
  <1> QED BY <1>2, <1>3, <1>4, <1>6, <1>7, <1>8 DEF Owner

\* The rule run.
LEMMA RunTrusts == ASSUME Inv, Trusting, NEW a \in Actor, StartRun(a) \/ Run(a), Fair' PROVE Trusting'
  <1> USE DEF mailVars, rowVars, digestVars, pastVars
  <1>1. wk[a] \in Local /\ place \in [Msg -> SUBSET Folder] /\ uid \in [Msg -> Nat] /\ DOMAIN held \subseteq Msg
    BY DEF Inv, Actors, Tables
  <1>2. ~Running(Due)
    BY DEF Running, Searching, Due, Idle
  <1>3. Running(wk[a]) => Sound(wk[a])
    BY DEF Trusting, OneRun
  <1>4. CASE StartRun(a)
    <2> DEFINE found == {m \in Msg : "INBOX" \in place[m]}
               l == [Idle EXCEPT !.pc = "free", !.todo = found, !.uids = [m \in found |-> uid[m]]]
    <2>1. wk' = [wk EXCEPT ![a] = Due] \/ wk' = [wk EXCEPT ![a] = l]
      BY <1>4 DEF StartRun
    <2>2. UNCHANGED <<mailVars, rowVars, asked, back>>
      BY <1>4 DEF StartRun
    <2>3. CASE wk' = [wk EXCEPT ![a] = Due]
      BY <1>2, <2>2, <2>3, RunsOn DEF Trusting, Recorded, Vouched, Earned
    <2>4. CASE wk' = [wk EXCEPT ![a] = l]
      <3>1. \A b \in Runner : At(b, "idle")
        BY <1>4 DEF StartRun, Fair
      <3>2. \A b \in Actor : ~Running(wk[b])
        BY <3>1 DEF Trusting, OneRun, Running, Searching, At
      <3>3. l.pc = "free" /\ l.todo = found /\ l.keep = {} /\ l.uids = [m \in found |-> uid[m]]
        BY DEF Idle
      <3>4. Sound(l)
        BY <3>3 DEF Sound
      <3> HIDE DEF l
      <3>5. \A b \in Actor : wk'[b] = IF b = a THEN l ELSE wk[b]
        BY <2>4 DEF Inv, Actors
      <3>6. Sound(wk[a])'
        BY <2>2, <3>4, <3>5 DEF Sound, Earned
      <3>7. OneRun'
        BY <1>4, <3>2, <3>5, <3>6 DEF OneRun, StartRun
      <3> QED BY <2>2, <3>7 DEF Trusting, Recorded, OneCopy, Vouched, Earned
    <2> QED BY <2>1, <2>3, <2>4
  <1>5. ASSUME NEW m \in Msg, FreeOne(a, m) PROVE Trusting'
    <2> DEFINE l == [wk[a] EXCEPT !.todo = @ \ {m}]
               t == [l EXCEPT !.pc = "trust", !.from = FromOf[m]]
    <2>1. /\ wk[a].pc = "free" /\ m \in wk[a].todo /\ Sound(wk[a]) /\ Running(wk[a])
          /\ UNCHANGED <<mailVars, trusted, asked, back>>
      BY <1>3, <1>5 DEF FreeOne, At, Running, Searching
    <2>2. "INBOX" \in place[m] /\ wk[a].todo \cup wk[a].keep \subseteq DOMAIN wk[a].uids
      BY <2>1 DEF Sound, Searching
    <2>3. CASE m \in DOMAIN held /\ ~held[m].released
      <3>1. Earned(FromOf[m])
        BY <2>2, <2>3 DEF Trusting, Recorded
      <3>2. wk' = [wk EXCEPT ![a] = t]
        BY <1>1, <1>5, <2>3 DEF FreeOne, Goto, Local
      <3>3. Sound(t)
        BY <1>1, <2>1, <2>2, <3>1 DEF Sound, Searching, Local
      <3>4. \A n \in DOMAIN held' : n \in DOMAIN held /\ (held[n].released => held'[n].released)
        <4>1. held' = [held EXCEPT ![m].released = TRUE]
          BY <1>5, <2>3 DEF FreeOne
        <4>2. \A n \in DOMAIN held : held[n] \in Record
          BY DEF Inv, Tables
        <4> QED BY <4>1, <4>2 DEF Record
      <3>5. Vouched'
        BY <2>1 DEF Trusting, Vouched, Earned
      <3> HIDE DEF t
      <3> QED BY <2>1, <3>2, <3>3, <3>4, <3>5, RunsOn DEF Trusting, Recorded
    <2>4. CASE ~(m \in DOMAIN held /\ ~held[m].released)
      <3>1. wk' = [wk EXCEPT ![a] = AfterFree(l)] /\ UNCHANGED held
        BY <1>5, <2>4 DEF FreeOne
      <3>2. Sound(AfterFree(l))
        BY <1>1, <2>1, <2>2 DEF AfterFree, Sound, Searching, Local
      <3>3. Vouched'
        BY <2>1 DEF Trusting, Vouched, Earned
      <3> QED BY <2>1, <3>1, <3>2, <3>3, RunsOn DEF Trusting, Recorded
    <2> QED BY <2>3, <2>4
  <1>6. ASSUME NEW m \in Msg, JudgeOne(a, m) PROVE Trusting'
    <2>1. /\ wk[a].pc = "judge" /\ m \in wk[a].todo /\ Sound(wk[a]) /\ Running(wk[a])
          /\ UNCHANGED <<mailVars, rowVars, asked, back>>
      BY <1>3, <1>6 DEF JudgeOne, At, Running, Searching
    <2>2. wk[a].todo \cup wk[a].keep \subseteq DOMAIN wk[a].uids
      BY <2>1 DEF Sound, Searching
    <2>3. PICK hold \in BOOLEAN :
            wk' = [wk EXCEPT ![a] = AfterJudge([wk[a] EXCEPT !.todo = @ \ {m}, !.keep = IF hold THEN @ \cup {m} ELSE @])]
      BY <1>6 DEF JudgeOne
    <2> DEFINE l == [wk[a] EXCEPT !.todo = @ \ {m}, !.keep = IF hold THEN @ \cup {m} ELSE @]
    <2>4. /\ l \in Local /\ l.pc = "judge" /\ l.uids = wk[a].uids
          /\ l.todo \cup l.keep \subseteq DOMAIN l.uids
      BY <1>1, <2>1, <2>2 DEF Local
    <2> HIDE DEF l
    <2>5. AfterJudge(l) = l \/ AfterJudge(l) = [l EXCEPT !.pc = "move"] \/ AfterJudge(l) = Due
      BY DEF AfterJudge
    <2>6. Sound(l) /\ Sound([l EXCEPT !.pc = "move"])
      BY <2>1, <2>4 DEF Sound, Searching, Local
    <2>7. Running(AfterJudge(l)) => Sound(AfterJudge(l))
      BY <1>2, <2>5, <2>6
    <2>8. wk' = [wk EXCEPT ![a] = AfterJudge(l)]
      BY <2>3 DEF l
    <2>9. Vouched'
      BY <2>1 DEF Trusting, Vouched, Earned
    <2> QED BY <2>1, <2>7, <2>8, <2>9, RunsOn DEF Trusting, Recorded
  <1>7. ASSUME NEW m \in Msg, RecordOne(a, m) PROVE Trusting'
    <2> DEFINE l == [wk[a] EXCEPT !.todo = @ \ {m}]
    <2>1. /\ wk[a].pc = "record" /\ m \in wk[a].todo /\ Sound(wk[a]) /\ Running(wk[a])
          /\ UNCHANGED <<mailVars, trusted, asked, back>>
      BY <1>3, <1>7 DEF RecordOne, At, Running, Searching
    <2>2. Sound(l) /\ wk' = [wk EXCEPT ![a] = AfterRecord(l)]
      BY <1>1, <1>7, <2>1 DEF RecordOne, Sound, Local, Searching
    <2>3. Running(AfterRecord(l)) => Sound(AfterRecord(l))
      BY <1>2, <2>2 DEF AfterRecord
    <2>4. held' = [n \in DOMAIN held \cup {m} |-> IF n = m THEN RecordRow(m) ELSE held[n]]
      BY <1>7 DEF RecordOne
    <2>5. uid[m] # 0 /\ ("INBOX" \in place[m] => Earned(FromOf[m]))
      BY <2>1 DEF Sound
    <2>6. \A n \in DOMAIN held' : /\ uid[n] # 0
                                  /\ "INBOX" \in place[n] => held'[n].released \/ Earned(FromOf[n])
      BY <2>4, <2>5 DEF Trusting, Recorded
    <2>7. Vouched'
      BY <2>1 DEF Trusting, Vouched, Earned
    <2> HIDE DEF l
    <2> QED BY <2>1, <2>2, <2>3, <2>6, <2>7, RunsOn
  <1>8. CASE Trust(a)
    <2> DEFINE l == [wk[a] EXCEPT !.from = NoOne, !.freed = @ \cup {wk[a].from}]
    <2>1. /\ wk[a].pc = "trust" /\ Sound(wk[a]) /\ Running(wk[a])
          /\ UNCHANGED <<mailVars, held, asked, back>> /\ trusted' = trusted \cup {wk[a].from}
      BY <1>3, <1>8 DEF Trust, At, Running, Searching
    <2>2. /\ Earned(wk[a].from) /\ wk[a].todo \cup wk[a].keep \subseteq DOMAIN wk[a].uids
          /\ \A m \in DOMAIN wk[a].uids : "INBOX" \in place[m] /\ uid[m] = wk[a].uids[m]
      BY <2>1 DEF Sound, Searching
    <2>3. l \in Local /\ l.todo = wk[a].todo /\ l.keep = wk[a].keep /\ l.uids = wk[a].uids
      BY <1>1 DEF Local
    <2>4. wk' = [wk EXCEPT ![a] = AfterFree(l)]
      BY <1>8 DEF Trust
    <2> HIDE DEF l
    <2>5. Sound([l EXCEPT !.pc = "free"]) /\ Sound([l EXCEPT !.pc = "judge", !.todo = DOMAIN l.uids])
      BY <2>2, <2>3 DEF Sound, Searching, Local
    <2>6. Sound(AfterFree(l))
      BY <2>5 DEF AfterFree
    <2>7. Vouched'
      BY <2>1, <2>2 DEF Trusting, Vouched, Earned
    <2> QED BY <2>1, <2>4, <2>6, <2>7, RunsOn DEF Trusting, Recorded
  <1>9. CASE HoldMail(a)
    <2> DEFINE l == [wk[a] EXCEPT !.todo = wk[a].keep, !.pc = "record"]
               S == {m \in wk[a].keep : "INBOX" \in place[m] /\ uid[m] = wk[a].uids[m]}
    <2>1. /\ wk[a].pc = "move" /\ Sound(wk[a]) /\ Running(wk[a])
          /\ UNCHANGED <<uid, rowVars, asked, back>> /\ Moved(S, "INBOX", "Held")
      BY <1>3, <1>9 DEF HoldMail, At, Running, Searching
    <2>2. wk[a].keep = S /\ \A m \in S : "INBOX" \in place[m]
      BY <2>1 DEF Sound, Searching
    <2>3. S \subseteq Msg /\ l.pc = "record" /\ l.todo = S /\ wk' = [wk EXCEPT ![a] = l]
      BY <1>1, <1>9, <2>2 DEF Local, HoldMail, Goto
    <2> HIDE DEF S, l
    <2>4. /\ \A m \in S : place[m] = {"INBOX"} /\ uid[m] # 0 /\ place'[m] = {"Held"}
          /\ \A m \in Msg \ S : place'[m] = place[m]
      BY <1>1, <2>1, <2>2, <2>3 DEF Moved, Trusting, OneCopy
    <2>5. OneCopy'
      BY <2>1, <2>3, <2>4 DEF Trusting, OneCopy
    <2>6. Recorded'
      BY <1>1, <2>1, <2>3, <2>4 DEF Trusting, Recorded, Earned
    <2>7. Vouched'
      BY <2>1 DEF Trusting, Vouched, Earned
    <2>8. \A b \in Actor : wk'[b] = IF b = a THEN l ELSE wk[b]
      BY <2>3 DEF Inv, Actors
    <2>9. Sound(wk[a])'
      BY <2>1, <2>3, <2>4, <2>8 DEF Sound, Searching
    <2>10. \A b \in Actor : Running(wk[b]) => b = a
      BY <2>1 DEF Trusting, OneRun
    <2>11. OneRun'
      BY <2>1, <2>8, <2>9, <2>10 DEF Trusting, OneRun
    <2> QED BY <2>5, <2>6, <2>7, <2>11 DEF Trusting
  <1> QED BY <1>4, <1>5, <1>6, <1>7, <1>8, <1>9 DEF Run

\* An actor that is not in a rule run after its step.
LEMMA Elsewhere ==
    ASSUME Inv, NEW a \in Actor,
           \/ EndRun(a) \/ Digest(a) \/ StartTick(a) \/ Tick(a) \/ Decide(a) \/ Stop(a)
           \/ \E s \in Sender, action \in Action : StartScreen(a, s, action)
    PROVE  \E l : wk' = [wk EXCEPT ![a] = l] /\ ~Running(l)
  <1>1. wk[a] \in Local /\ Idle \in Local /\ Due \in Local
    BY IdleLocal DEF Inv, Actors, Due, Local, PC
  <1>2. ASSUME NEW pc, NEW more, Goto(a, pc, more), "pc" \in DOMAIN more, pc \notin Searching \cup {"record"}
        PROVE  \E l : wk' = [wk EXCEPT ![a] = l] /\ ~Running(l)
    <2> DEFINE l == [more EXCEPT !.pc = pc]
    <2>1. l.pc = pc
      BY <1>2
    <2>2. wk' = [wk EXCEPT ![a] = l]
      BY <1>2 DEF Goto
    <2> HIDE DEF l
    <2> QED BY <1>2, <2>1, <2>2 DEF Running
  <1>3. ~Running(Idle) /\ ~Running(Due) /\ ~Running(Outcome(wk[a])) /\ ~Running(NextReply(wk[a]))
    BY <1>1 DEF Running, Searching, Idle, Due, Outcome, NextReply, Local
  <1>4. "pc" \in DOMAIN Idle /\ "pc" \in DOMAIN wk[a]
    BY <1>1 DEF Local
  <1> USE DEF Searching
  <1>5. CASE EndRun(a) \/ LogDigest(a)
    BY <1>2, <1>4, <1>5 DEF EndRun, LogDigest
  <1>6. CASE Collect(a)
    <2>1. PICK pc \in {"append", "number"} : \E list : Goto(a, pc, [Idle EXCEPT !.list = list])
      BY <1>6 DEF Collect
    <2>2. PICK list : Goto(a, pc, [Idle EXCEPT !.list = list])
      BY <2>1
    <2>3. "pc" \in DOMAIN [Idle EXCEPT !.list = list]
      BY <1>4
    <2> QED BY <1>2, <2>1, <2>2, <2>3
  <1>7. CASE Number(a)
    <2>1. PICK nums : Goto(a, "append", [wk[a] EXCEPT !.nums = nums])
      BY <1>7 DEF Number
    <2>2. "pc" \in DOMAIN [wk[a] EXCEPT !.nums = nums]
      BY <1>4
    <2> QED BY <1>2, <2>1, <2>2
  <1>8. CASE AppendDigest(a)
    <2>1. PICK mail : Goto(a, "mark", [wk[a] EXCEPT !.mail = mail])
      BY <1>8 DEF AppendDigest
    <2>2. "pc" \in DOMAIN [wk[a] EXCEPT !.mail = mail]
      BY <1>4
    <2> QED BY <1>2, <2>1, <2>2
  <1>9. CASE MarkDigested(a) \/ StoreDigest(a) \/ Vouch(a) \/ UseToken(a)
    BY <1>2, <1>4, <1>9 DEF MarkDigested, StoreDigest, Vouch, UseToken
  <1>10. ASSUME NEW s \in Sender, NEW action \in Action, StartScreen(a, s, action)
         PROVE  \E l : wk' = [wk EXCEPT ![a] = l] /\ ~Running(l)
    <2>1. "pc" \in DOMAIN [Idle EXCEPT !.from = s, !.action = action]
      BY <1>4
    <2> QED BY <1>2, <1>10, <2>1 DEF StartScreen
  <1>11. CASE HeldOf(a)
    <2>1. \/ wk' = [wk EXCEPT ![a] = Outcome(wk[a])]
          \/ \E keep, target : Goto(a, "carry", [wk[a] EXCEPT !.keep = keep, !.target = target])
      BY <1>11 DEF HeldOf
    <2>2. ASSUME NEW keep, NEW target, Goto(a, "carry", [wk[a] EXCEPT !.keep = keep, !.target = target])
          PROVE  \E l : wk' = [wk EXCEPT ![a] = l] /\ ~Running(l)
      <3> DEFINE more == [wk[a] EXCEPT !.keep = keep, !.target = target]
      <3>1. Goto(a, "carry", more) /\ "pc" \in DOMAIN more
        BY <1>4, <2>2
      <3> HIDE DEF more
      <3> QED BY <1>2, <3>1
    <2> QED BY <1>3, <2>1, <2>2
  <1>12. CASE Carry(a) \/ CarryFails(a)
    <2>1. "pc" \in DOMAIN [wk[a] EXCEPT !.todo = wk[a].keep]
      BY <1>4
    <2> QED BY <1>2, <1>12, <2>1 DEF Carry, CarryFails
  <1>13. ASSUME NEW m, DecideOne(a, m) PROVE \E l : wk' = [wk EXCEPT ![a] = l] /\ ~Running(l)
    <2> DEFINE l == [wk[a] EXCEPT !.todo = @ \ {m}]
    <2>1. l.pc = "decide" /\ "pc" \in DOMAIN l /\ wk' = [wk EXCEPT ![a] = AfterDecide(l)]
      BY <1>1, <1>13 DEF DecideOne, At, Local
    <2> HIDE DEF l
    <2>2. ~Running(AfterDecide(l))
      BY <2>1 DEF AfterDecide, Running
    <2> QED BY <2>1, <2>2
  <1>14. CASE MakeRule(a)
    BY <1>2, <1>3, <1>4, <1>14 DEF MakeRule
  <1>15. CASE Note(a) \/ Answer(a)
    BY <1>3, <1>15 DEF Note, Answer
  <1>16. CASE StartTick(a)
    <2>1. PICK row, spent, inbox : Goto(a, "reply", [Idle EXCEPT !.row = row, !.spent = spent, !.inbox = inbox])
      BY <1>16 DEF StartTick
    <2> DEFINE more == [Idle EXCEPT !.row = row, !.spent = spent, !.inbox = inbox]
    <2>2. Goto(a, "reply", more) /\ "pc" \in DOMAIN more
      BY <1>4, <2>1
    <2> HIDE DEF more
    <2> QED BY <1>2, <2>2
  <1>17. ASSUME NEW r, TakeReply(a, r) PROVE \E l : wk' = [wk EXCEPT ![a] = l] /\ ~Running(l)
    <2> DEFINE l == [wk[a] EXCEPT !.inbox = @ \ {r}, !.reply = r]
    <2>1. /\ "pc" \in DOMAIN l
          /\ \A from, action : "pc" \in DOMAIN [l EXCEPT !.from = from, !.action = action]
      BY <1>4
    <2>2. \/ wk' = [wk EXCEPT ![a] = NextReply(l)] \/ Goto(a, "answered", l)
          \/ \E from, action : Goto(a, "held", [l EXCEPT !.from = from, !.action = action])
      BY <1>17 DEF TakeReply
    <2> HIDE DEF l
    <2>3. ~Running(NextReply(l))
      BY <1>1 DEF NextReply, Idle, Running
    <2> QED BY <1>2, <2>1, <2>2, <2>3
  <1>18. CASE Stop(a)
    <2>1. PICK l \in {Idle, AfterFailure(wk[a])} : wk' = [wk EXCEPT ![a] = l]
      BY <1>18 DEF Stop
    <2>2. ~Running([wk[a] EXCEPT !.pc = "answered"])
      BY <1>4 DEF Running
    <2>3. ~Running(AfterFailure(wk[a]))
      BY <1>3, <2>2 DEF AfterFailure
    <2> QED BY <1>3, <2>1, <2>3
  <1> QED BY <1>5, <1>6, <1>7, <1>8, <1>9, <1>10, <1>11, <1>12, <1>13, <1>14, <1>15, <1>16, <1>17, <1>18
          DEF Digest, Tick, Decide

\* Every other step: what it trusts has been asked for, and what it carries to
\* the inbox has been approved.
LEMMA OtherTrusts ==
    ASSUME Inv, Trusting, NEW a \in Actor,
           \/ EndRun(a) \/ Digest(a) \/ StartTick(a) \/ Tick(a) \/ Decide(a) \/ Stop(a)
           \/ \E s \in Sender, action \in Action : StartScreen(a, s, action)
    PROVE  Trusting'
  <1> USE DEF mailVars, rowVars, digestVars, pastVars
  <1>1. PICK l : wk' = [wk EXCEPT ![a] = l] /\ ~Running(l)
    BY Elsewhere
  <1>2. Works(wk[a], asked, DOMAIN sent, DOMAIN replies) /\ wk[a] \in Local
    BY DEF Inv, Actors
  <1>3. \A m \in DOMAIN held : held[m] \in Record
    BY DEF Inv, Tables
  <1>4. ASSUME UNCHANGED <<place, uid, back>>, asked \subseteq asked',
               trusted' = trusted \/ (trusted' = trusted \cup {wk[a].from} /\ Earned(wk[a].from)),
               \A m \in DOMAIN held' : m \in DOMAIN held /\ (held[m].released => held'[m].released)
        PROVE  Trusting'
    <2>1. Vouched'
      BY <1>4 DEF Trusting, Vouched, Earned
    <2> QED BY <1>1, <1>4, <2>1, RunsOn DEF Trusting, Recorded
  <1>5. ASSUME UNCHANGED <<place, uid, back, trusted, held>>, asked \subseteq asked' PROVE Trusting'
    BY <1>4, <1>5
  <1>6. CASE EndRun(a) \/ StartTick(a) \/ Stop(a)
    BY <1>5, <1>6 DEF EndRun, StartTick, Stop
  <1>7. CASE Collect(a) \/ Number(a) \/ AppendDigest(a) \/ StoreDigest(a) \/ LogDigest(a)
    BY <1>5, <1>7 DEF Collect, Number, AppendDigest, StoreDigest, LogDigest
  <1>8. CASE Tick(a)
    BY <1>5, <1>8 DEF Tick, TakeReply, UseToken, Answer
  <1>9. CASE HeldOf(a) \/ CarryFails(a) \/ MakeRule(a) \/ Note(a)
    BY <1>5, <1>9 DEF HeldOf, CarryFails, MakeRule, Note
  <1>10. ASSUME NEW s, NEW action, StartScreen(a, s, action) PROVE Trusting'
    BY <1>5, <1>10 DEF StartScreen
  <1>11. CASE MarkDigested(a)
    <2>1. \A m \in DOMAIN held' : m \in DOMAIN held /\ (held[m].released => held'[m].released)
      BY <1>3, <1>11 DEF MarkDigested, Record
    <2> QED BY <1>4, <1>11, <2>1 DEF MarkDigested
  <1>12. ASSUME NEW m \in Msg, DecideOne(a, m) PROVE Trusting'
    <2>1. held' = [held EXCEPT ![m].decision = wk[a].action, ![m].released = @ \/ wk[a].action # "block"]
      BY <1>12 DEF DecideOne
    <2>2. \A n \in DOMAIN held' : n \in DOMAIN held /\ (held[n].released => held'[n].released)
      BY <1>3, <2>1 DEF Record
    <2> QED BY <1>4, <1>12, <2>2 DEF DecideOne
  <1>13. CASE Vouch(a)
    <2>1. <<wk[a].from, wk[a].action>> \in asked /\ wk[a].action \in {"approve", "feed"}
      BY <1>2, <1>13 DEF Vouch, At, Works, Deciding, Inv, Tables, Action
    <2> QED BY <1>4, <1>13, <2>1 DEF Vouch, Earned
  <1>14. CASE Carry(a)
    <2> DEFINE to == Destination(wk[a].action)
               S == {m \in wk[a].keep : "Held" \in place[m]}
    <2>1. /\ wk[a].pc = "carry" /\ <<wk[a].from, wk[a].action>> \in asked
          /\ \A m \in wk[a].keep : FromOf[m] = wk[a].from
      BY <1>2, <1>14 DEF Carry, At, Works, Deciding
    <2>2. wk[a].action \in Action
      BY <2>1 DEF Inv, Tables
    <2>3. to \in Folder \ {"Held"} /\ (to = "INBOX" => wk[a].action = "approve") /\ S \in SUBSET Msg
      BY <1>2, <2>2 DEF Destination, Action, Folder, Local
    <2>4. Moved(S, "Held", to) /\ IF to = "INBOX" THEN Arrive(S) ELSE UNCHANGED uid
      BY <1>14 DEF Carry
    <2>5. /\ place \in [Msg -> SUBSET Folder] /\ uid \in [Msg -> Nat]
          /\ \A m \in S : place[m] = {"Held"} /\ uid[m] # 0
      BY <2>3 DEF Trusting, OneCopy, Inv, Tables
    <2>6. UNCHANGED <<held, trusted, asked, back>>
      BY <1>14 DEF Carry
    <2>7. \A m \in S : to = "INBOX" => Earned(FromOf[m])'
      BY <2>1, <2>3, <2>6 DEF Earned
    <2> HIDE DEF to, S
    <2>8. /\ \A m \in Msg \ S : place'[m] = place[m] /\ uid'[m] = uid[m]
          /\ \A m \in S : "INBOX" \notin place[m] /\ place'[m] = {to} /\ uid'[m] # 0
      BY <2>3, <2>4, <2>5 DEF Moved, Arrive
    <2>9. \A b \in Actor : Running(wk'[b]) => wk'[b] = wk[b]
      BY <1>1 DEF Inv, Actors
    <2> QED BY <2>3, <2>6, <2>7, <2>8, <2>9, MailComes
  <1> QED BY <1>6, <1>7, <1>8, <1>9, <1>10, <1>11, <1>12, <1>13, <1>14 DEF Digest, Decide

\* Every step keeps the trust earned.
LEMMA TrustStep == ASSUME Inv, Fair => Trusting, [Next]_vars PROVE (Fair => Trusting)'
  <1> SUFFICES ASSUME Fair' PROVE Trusting'
    OBVIOUS
  <1> USE DEF mailVars, rowVars, digestVars, pastVars
  <1>1. CASE UNCHANGED vars
    BY <1>1 DEF vars, Fair, Trusting, Recorded, OneCopy, Vouched, OneRun, Sound, Earned
  <1>2. CASE Owner
    <2>1. marred \subseteq marred'
      BY <1>2 DEF Owner, Deliver, DeliverCopy, MoveBack, Reply, DeleteRule, NewDay
    <2> QED BY <1>2, <2>1, OwnerTrusts DEF Fair
  <1>3. ASSUME NEW a \in Actor, StartRun(a) \/ Run(a) PROVE Trusting'
    <2>1. marred \subseteq marred'
      BY <1>3 DEF StartRun, Run, FreeOne, Trust, JudgeOne, HoldMail, RecordOne
    <2> QED BY <1>3, <2>1, RunTrusts DEF Fair
  <1>4. ASSUME NEW a \in Actor, EndRun(a) \/ Digest(a) \/ StartTick(a) \/ Tick(a) PROVE Trusting'
    <2>1. marred \subseteq marred'
      BY <1>4 DEF EndRun, Digest, Collect, Number, AppendDigest, MarkDigested, StoreDigest, LogDigest,
                  StartTick, Tick, TakeReply, UseToken, Answer
    <2> QED BY <1>4, <2>1, OtherTrusts DEF Fair
  <1>5. ASSUME NEW a \in Actor,
               Decide(a) \/ Stop(a) \/ \E s \in Sender, action \in Action : StartScreen(a, s, action)
        PROVE  Trusting'
    <2>1. marred \subseteq marred'
      BY <1>5 DEF Decide, HeldOf, Carry, CarryFails, DecideOne, Vouch, MakeRule, Note, Stop, StartScreen
    <2> QED BY <1>5, <2>1, OtherTrusts DEF Fair
  <1> QED BY <1>1, <1>2, <1>3, <1>4, <1>5 DEF Next

\* Unless a mail came twice or two runs met, only the owner makes a sender
\* trusted: what a rule run finds in the inbox with an unreleased record was
\* put there by the owner (released and Vouch write senders.trusted).
THEOREM EarnedTrust == Spec => []TrustIsEarned
  <1>1. Inv /\ (Fair => Trusting) => TrustIsEarned
    BY DEF Fair, Trusting, Vouched, Earned, TrustIsEarned
  <1>2. Init => Inv /\ (Fair => Trusting)
    BY InitInv, InitTrusts
  <1>3. Inv /\ (Fair => Trusting) /\ [Next]_vars => (Inv /\ (Fair => Trusting))'
    BY Step, TrustStep
  <1> QED BY <1>1, <1>2, <1>3, PTL DEF Spec

-----------------------------------------------------------------------------
(* Where a step of one actor leads. *)

RunPlace == Searching \cup {"record"}
DigestPlace == {"due", "number", "append", "mark", "store", "log"}
ScreenPlace == Deciding \cup {"reply", "use", "answered"}

Does(a) ==
    \/ StartRun(a) \/ Run(a) \/ EndRun(a) \/ Digest(a)
    \/ \E s \in Sender, action \in Action : StartScreen(a, s, action)
    \/ StartTick(a) \/ Decide(a) \/ Tick(a) \/ Stop(a)

\* A step to a place.
LEMMA GoesTo ==
    ASSUME Inv, NEW a \in Actor, NEW pc, NEW more, "pc" \in DOMAIN more, Goto(a, pc, more)
    PROVE  wk'[a].pc = pc /\ \A b \in Actor \ {a} : wk'[b] = wk[b]
  <1> DEFINE l == [more EXCEPT !.pc = pc]
  <1>1. l.pc = pc
    OBVIOUS
  <1>2. wk' = [wk EXCEPT ![a] = l]
    BY DEF Goto
  <1> HIDE DEF l
  <1> QED BY <1>1, <1>2 DEF Inv, Actors

\* The rule run: from one of its places to another, or to the digest.
LEMMA RunLeads ==
    ASSUME Inv, NEW a \in Actor, StartRun(a) \/ Run(a)
    PROVE  /\ \A b \in Actor \ {a} : wk'[b] = wk[b]
           /\ wk'[a].pc \in RunPlace \cup {"due"}
           /\ (StartRun(a) /\ wk[a].pc = "idle") \/ wk[a].pc \in RunPlace
  <1>1. wk[a] \in Local /\ Idle \in Local
    BY IdleLocal DEF Inv, Actors
  <1>2. Due.pc = "due" /\ "pc" \in DOMAIN wk[a]
    BY <1>1 DEF Due, Local
  <1>3. ASSUME NEW l, wk' = [wk EXCEPT ![a] = l] PROVE wk'[a] = l /\ \A b \in Actor \ {a} : wk'[b] = wk[b]
    BY <1>3 DEF Inv, Actors
  <1> USE DEF RunPlace, Searching
  <1>4. CASE StartRun(a)
    <2> DEFINE found == {m \in Msg : "INBOX" \in place[m]}
               l == [Idle EXCEPT !.pc = "free", !.todo = found, !.uids = [m \in found |-> uid[m]]]
    <2>1. l.pc = "free"
      BY DEF Idle
    <2>2. (wk' = [wk EXCEPT ![a] = l] \/ wk' = [wk EXCEPT ![a] = Due]) /\ wk[a].pc = "idle"
      BY <1>4 DEF StartRun, At
    <2> HIDE DEF l
    <2> QED BY <1>2, <1>3, <1>4, <2>1, <2>2
  <1>5. ASSUME NEW l, l.pc = "free", "pc" \in DOMAIN l, wk' = [wk EXCEPT ![a] = AfterFree(l)]
        PROVE  wk'[a].pc \in {"free", "judge"} /\ \A b \in Actor \ {a} : wk'[b] = wk[b]
    <2>1. [l EXCEPT !.pc = "free"].pc = "free" /\ [l EXCEPT !.pc = "judge", !.todo = DOMAIN l.uids].pc = "judge"
      BY <1>5
    <2>2. AfterFree(l).pc \in {"free", "judge"}
      BY <2>1 DEF AfterFree
    <2> QED BY <1>3, <1>5, <2>2
  <1>6. ASSUME NEW m \in Msg, FreeOne(a, m) PROVE wk[a].pc = "free" /\ wk'[a].pc \in {"free", "judge", "trust"} /\ \A b \in Actor \ {a} : wk'[b] = wk[b]
    <2> DEFINE l == [wk[a] EXCEPT !.todo = @ \ {m}]
    <2>1. l.pc = "free" /\ "pc" \in DOMAIN l /\ wk[a].pc = "free" /\ "pc" \in DOMAIN [l EXCEPT !.from = FromOf[m]]
      BY <1>1, <1>6 DEF FreeOne, At, Local
    <2>2. wk' = [wk EXCEPT ![a] = AfterFree(l)] \/ Goto(a, "trust", [l EXCEPT !.from = FromOf[m]])
      BY <1>6 DEF FreeOne
    <2> HIDE DEF l
    <2>3. CASE wk' = [wk EXCEPT ![a] = AfterFree(l)]
      BY <1>5, <2>1, <2>3
    <2>4. CASE Goto(a, "trust", [l EXCEPT !.from = FromOf[m]])
      BY <2>1, <2>4, GoesTo
    <2> QED BY <2>1, <2>2, <2>3, <2>4
  <1>7. CASE Trust(a)
    <2> DEFINE l == [wk[a] EXCEPT !.from = NoOne, !.freed = @ \cup {wk[a].from}]
    <2>1. wk[a].pc = "trust" /\ "pc" \in DOMAIN l /\ wk' = [wk EXCEPT ![a] = AfterFree(l)]
      BY <1>1, <1>7 DEF Trust, At, Local
    <2> HIDE DEF l
    <2>2. [l EXCEPT !.pc = "free"].pc = "free" /\ [l EXCEPT !.pc = "judge", !.todo = DOMAIN l.uids].pc = "judge"
      BY <2>1
    <2>3. AfterFree(l).pc \in {"free", "judge"}
      BY <2>2 DEF AfterFree
    <2> QED BY <1>3, <2>1, <2>3
  <1>8. ASSUME NEW m \in Msg, JudgeOne(a, m) PROVE wk[a].pc = "judge" /\ wk'[a].pc \in {"judge", "move", "due"} /\ \A b \in Actor \ {a} : wk'[b] = wk[b]
    <2>1. PICK hold \in BOOLEAN :
            wk' = [wk EXCEPT ![a] = AfterJudge([wk[a] EXCEPT !.todo = @ \ {m}, !.keep = IF hold THEN @ \cup {m} ELSE @])]
      BY <1>8 DEF JudgeOne
    <2> DEFINE l == [wk[a] EXCEPT !.todo = @ \ {m}, !.keep = IF hold THEN @ \cup {m} ELSE @]
    <2>2. l.pc = "judge" /\ "pc" \in DOMAIN l /\ wk[a].pc = "judge"
      BY <1>1, <1>8 DEF JudgeOne, At, Local
    <2>3. wk' = [wk EXCEPT ![a] = AfterJudge(l)]
      BY <2>1
    <2> HIDE DEF l
    <2>4. AfterJudge(l).pc \in {"judge", "move", "due"}
      BY <1>2, <2>2 DEF AfterJudge
    <2> QED BY <1>3, <2>2, <2>3, <2>4
  <1>9. CASE HoldMail(a)
    <2>1. "pc" \in DOMAIN [wk[a] EXCEPT !.todo = wk[a].keep]
      BY <1>2
    <2> QED BY <1>9, <2>1, GoesTo DEF HoldMail, At
  <1>10. ASSUME NEW m \in Msg, RecordOne(a, m) PROVE wk[a].pc = "record" /\ wk'[a].pc \in {"record", "due"} /\ \A b \in Actor \ {a} : wk'[b] = wk[b]
    <2> DEFINE l == [wk[a] EXCEPT !.todo = @ \ {m}]
    <2>1. l.pc = "record" /\ wk[a].pc = "record" /\ wk' = [wk EXCEPT ![a] = AfterRecord(l)]
      BY <1>1, <1>10 DEF RecordOne, At, Local
    <2> HIDE DEF l
    <2>2. AfterRecord(l).pc \in {"record", "due"}
      BY <1>2, <2>1 DEF AfterRecord
    <2> QED BY <1>3, <2>1, <2>2
  <1> QED BY <1>4, <1>6, <1>7, <1>8, <1>9, <1>10 DEF Run

\* The digest: from "due" to the end.
LEMMA DigestLeads ==
    ASSUME Inv, NEW a \in Actor, EndRun(a) \/ Digest(a)
    PROVE  /\ \A b \in Actor \ {a} : wk'[b] = wk[b]
           /\ wk[a].pc \in DigestPlace /\ wk'[a].pc \in (DigestPlace \ {"due"}) \cup {"idle"}
           /\ wk'[a].pc \in {"number", "append", "mark"} => Collect(a) \/ Number(a) \/ AppendDigest(a)
  <1>1. wk[a] \in Local /\ Idle \in Local
    BY IdleLocal DEF Inv, Actors
  <1>2. "pc" \in DOMAIN wk[a] /\ "pc" \in DOMAIN Idle
    BY <1>1 DEF Local
  <1> USE DEF DigestPlace
  <1>3. CASE EndRun(a) \/ LogDigest(a)
    BY <1>2, <1>3, GoesTo DEF EndRun, LogDigest, At
  <1>4. CASE Collect(a)
    <2>1. PICK pc \in {"append", "number"} : \E list : Goto(a, pc, [Idle EXCEPT !.list = list])
      BY <1>4 DEF Collect
    <2>2. PICK list : Goto(a, pc, [Idle EXCEPT !.list = list])
      BY <2>1
    <2>3. "pc" \in DOMAIN [Idle EXCEPT !.list = list]
      BY <1>2
    <2>4. wk'[a].pc = pc /\ \A b \in Actor \ {a} : wk'[b] = wk[b]
      BY <2>2, <2>3, GoesTo
    <2> QED BY <1>4, <2>4 DEF Collect, At
  <1>5. CASE Number(a)
    <2>1. PICK nums : Goto(a, "append", [wk[a] EXCEPT !.nums = nums])
      BY <1>5 DEF Number
    <2>2. "pc" \in DOMAIN [wk[a] EXCEPT !.nums = nums]
      BY <1>2
    <2>3. wk'[a].pc = "append" /\ \A b \in Actor \ {a} : wk'[b] = wk[b]
      BY <2>1, <2>2, GoesTo
    <2> QED BY <1>5, <2>3 DEF Number, At
  <1>6. CASE AppendDigest(a)
    <2>1. PICK mail : Goto(a, "mark", [wk[a] EXCEPT !.mail = mail])
      BY <1>6 DEF AppendDigest
    <2>2. "pc" \in DOMAIN [wk[a] EXCEPT !.mail = mail]
      BY <1>2
    <2>3. wk'[a].pc = "mark" /\ \A b \in Actor \ {a} : wk'[b] = wk[b]
      BY <2>1, <2>2, GoesTo
    <2> QED BY <1>6, <2>3 DEF AppendDigest, At
  <1>7. CASE MarkDigested(a)
    <2>1. Goto(a, IF wk[a].nums = <<>> THEN "log" ELSE "store", wk[a]) /\ wk[a].pc = "mark"
      BY <1>7 DEF MarkDigested, At
    <2>2. wk'[a].pc \in {"log", "store"} /\ \A b \in Actor \ {a} : wk'[b] = wk[b]
      BY <1>2, <2>1, GoesTo
    <2> QED BY <2>1, <2>2
  <1>8. CASE StoreDigest(a)
    BY <1>2, <1>8, GoesTo DEF StoreDigest, At
  <1> QED BY <1>3, <1>4, <1>5, <1>6, <1>7, <1>8 DEF Digest

\* Decisions and replies: a decider's own places, from "idle" to the end.
LEMMA ScreenLeads ==
    ASSUME Inv, NEW a \in Actor,
           StartTick(a) \/ Decide(a) \/ Tick(a) \/ \E s \in Sender, action \in Action : StartScreen(a, s, action)
    PROVE  /\ \A b \in Actor \ {a} : wk'[b] = wk[b]
           /\ (wk[a].pc = "idle" /\ a \in Decider) \/ wk[a].pc \in ScreenPlace
           /\ wk'[a].pc \in ScreenPlace \cup {"idle"}
           /\ wk'[a].pc \in {"carry", "decide"} =>
                 HeldOf(a) \/ Carry(a) \/ CarryFails(a) \/ \E m \in Msg : DecideOne(a, m)
  <1>1. wk[a] \in Local /\ Idle \in Local
    BY IdleLocal DEF Inv, Actors
  <1>2. "pc" \in DOMAIN wk[a] /\ "pc" \in DOMAIN Idle
    BY <1>1 DEF Local
  <1>3. ASSUME NEW l, wk' = [wk EXCEPT ![a] = l] PROVE wk'[a] = l /\ \A b \in Actor \ {a} : wk'[b] = wk[b]
    BY <1>3 DEF Inv, Actors
  <1>4. Outcome(wk[a]).pc \in {"idle", "use"} /\ \A l : NextReply(l).pc \in {"idle", "reply"}
    BY <1>1 DEF Outcome, NextReply, Idle, Local
  <1> USE DEF ScreenPlace, Deciding
  <1>5. ASSUME NEW s \in Sender, NEW action \in Action, StartScreen(a, s, action)
        PROVE  /\ \A b \in Actor \ {a} : wk'[b] = wk[b]
               /\ wk[a].pc = "idle" /\ a \in Decider /\ wk'[a].pc = "held"
    <2>1. "pc" \in DOMAIN [Idle EXCEPT !.from = s, !.action = action]
      BY <1>2
    <2> QED BY <1>5, <2>1, GoesTo DEF StartScreen, At
  <1>6. CASE HeldOf(a)
    <2>1. \/ wk' = [wk EXCEPT ![a] = Outcome(wk[a])]
          \/ \E keep, target : Goto(a, "carry", [wk[a] EXCEPT !.keep = keep, !.target = target])
      BY <1>6 DEF HeldOf
    <2>2. ASSUME NEW keep, NEW target, Goto(a, "carry", [wk[a] EXCEPT !.keep = keep, !.target = target])
          PROVE  wk'[a].pc = "carry" /\ \A b \in Actor \ {a} : wk'[b] = wk[b]
      <3> DEFINE more == [wk[a] EXCEPT !.keep = keep, !.target = target]
      <3>1. Goto(a, "carry", more) /\ "pc" \in DOMAIN more
        BY <1>2, <2>2
      <3> HIDE DEF more
      <3> QED BY <3>1, GoesTo
    <2>3. wk'[a].pc \in {"carry", "idle", "use"} /\ \A b \in Actor \ {a} : wk'[b] = wk[b]
      BY <1>3, <1>4, <2>1, <2>2
    <2> QED BY <1>6, <2>3 DEF HeldOf, At
  <1>7. CASE Carry(a) \/ CarryFails(a)
    <2>1. "pc" \in DOMAIN [wk[a] EXCEPT !.todo = wk[a].keep]
      BY <1>2
    <2> QED BY <1>7, <2>1, GoesTo DEF Carry, CarryFails, At
  <1>8. ASSUME NEW m \in Msg, DecideOne(a, m)
        PROVE  /\ \A b \in Actor \ {a} : wk'[b] = wk[b]
               /\ wk[a].pc = "decide" /\ wk'[a].pc \in {"decide", "rule", "vouch"}
    <2> DEFINE l == [wk[a] EXCEPT !.todo = @ \ {m}]
    <2>1. wk[a].pc = "decide" /\ l.pc = "decide" /\ "pc" \in DOMAIN l /\ wk' = [wk EXCEPT ![a] = AfterDecide(l)]
      BY <1>1, <1>8 DEF DecideOne, At, Local
    <2> HIDE DEF l
    <2>2. AfterDecide(l).pc \in {"decide", "rule", "vouch"}
      BY <2>1 DEF AfterDecide
    <2> QED BY <1>3, <2>1, <2>2
  <1>9. CASE Vouch(a)
    <2>1. Goto(a, IF wk[a].action = "feed" THEN "rule" ELSE "note", wk[a]) /\ wk[a].pc = "vouch"
      BY <1>9 DEF Vouch, At
    <2>2. wk'[a].pc \in {"rule", "note"} /\ \A b \in Actor \ {a} : wk'[b] = wk[b]
      BY <1>2, <2>1, GoesTo
    <2> QED BY <2>1, <2>2
  <1>10. CASE MakeRule(a)
    <2>1. wk' = [wk EXCEPT ![a] = Outcome(wk[a])] \/ Goto(a, "note", wk[a])
      BY <1>10 DEF MakeRule
    <2>2. wk'[a].pc \in {"note", "idle", "use"} /\ \A b \in Actor \ {a} : wk'[b] = wk[b]
      BY <1>2, <1>3, <1>4, <2>1, GoesTo
    <2> QED BY <1>10, <2>2 DEF MakeRule, At
  <1>11. CASE Note(a)
    BY <1>3, <1>4, <1>11 DEF Note, At
  <1>12. CASE StartTick(a)
    <2>1. PICK row, spent, inbox : Goto(a, "reply", [Idle EXCEPT !.row = row, !.spent = spent, !.inbox = inbox])
      BY <1>12 DEF StartTick
    <2> DEFINE more == [Idle EXCEPT !.row = row, !.spent = spent, !.inbox = inbox]
    <2>2. Goto(a, "reply", more) /\ "pc" \in DOMAIN more
      BY <1>2, <2>1
    <2> HIDE DEF more
    <2>3. wk'[a].pc = "reply" /\ \A b \in Actor \ {a} : wk'[b] = wk[b]
      BY <2>2, GoesTo
    <2> QED BY <1>12, <2>3 DEF StartTick, At
  <1>13. ASSUME NEW r, TakeReply(a, r)
         PROVE  /\ \A b \in Actor \ {a} : wk'[b] = wk[b]
                /\ wk[a].pc = "reply" /\ wk'[a].pc \in {"reply", "idle", "held", "answered"}
    <2> DEFINE l == [wk[a] EXCEPT !.inbox = @ \ {r}, !.reply = r]
    <2>1. /\ "pc" \in DOMAIN l
          /\ \A from, action : "pc" \in DOMAIN [l EXCEPT !.from = from, !.action = action]
      BY <1>2
    <2>2. \/ wk' = [wk EXCEPT ![a] = NextReply(l)] \/ Goto(a, "answered", l)
          \/ \E from, action : Goto(a, "held", [l EXCEPT !.from = from, !.action = action])
      BY <1>13 DEF TakeReply
    <2> HIDE DEF l
    <2>3. wk'[a].pc \in {"reply", "idle", "held", "answered"} /\ \A b \in Actor \ {a} : wk'[b] = wk[b]
      <3>1. CASE wk' = [wk EXCEPT ![a] = NextReply(l)]
        BY <1>3, <1>4, <3>1
      <3>2. CASE Goto(a, "answered", l)
        BY <2>1, <3>2, GoesTo
      <3>3. ASSUME NEW from, NEW action, Goto(a, "held", [l EXCEPT !.from = from, !.action = action])
            PROVE  wk'[a].pc = "held" /\ \A b \in Actor \ {a} : wk'[b] = wk[b]
        <4>1. "pc" \in DOMAIN [l EXCEPT !.from = from, !.action = action]
          BY <2>1
        <4> QED BY <3>3, <4>1, GoesTo
      <3> QED BY <2>2, <3>1, <3>2, <3>3
    <2> QED BY <1>13, <2>3 DEF TakeReply, At
  <1>14. CASE UseToken(a)
    BY <1>2, <1>14, GoesTo DEF UseToken, At
  <1>15. CASE Answer(a)
    BY <1>3, <1>4, <1>15 DEF Answer, At
  <1> QED BY <1>5, <1>6, <1>7, <1>8, <1>9, <1>10, <1>11, <1>12, <1>13, <1>14, <1>15 DEF Tick, Decide

\* An actor that fails or dies: the run goes on with the digest, a decision
\* with its reply.
LEMMA StopLeads ==
    ASSUME Inv, NEW a \in Actor, Stop(a)
    PROVE  /\ \A b \in Actor \ {a} : wk'[b] = wk[b]
           /\ wk[a].pc # "idle"
           /\ \/ wk'[a].pc = "idle"
              \/ wk'[a].pc = "due" /\ wk[a].pc \in RunPlace
              \/ wk'[a].pc \in {"use", "answered", "reply"} /\ wk[a].pc \in ScreenPlace
  <1>1. wk[a] \in Local /\ Idle \in Local
    BY IdleLocal DEF Inv, Actors
  <1>2. PICK l \in {Idle, AfterFailure(wk[a])} : wk' = [wk EXCEPT ![a] = l]
    BY DEF Stop
  <1>3. wk'[a] = l /\ \A b \in Actor \ {a} : wk'[b] = wk[b]
    BY <1>2 DEF Inv, Actors
  <1>4. /\ Idle.pc = "idle" /\ Due.pc = "due" /\ Outcome(wk[a]).pc \in {"idle", "use"}
        /\ NextReply(wk[a]).pc \in {"idle", "reply"} /\ [wk[a] EXCEPT !.pc = "answered"].pc = "answered"
    BY <1>1 DEF Outcome, NextReply, Idle, Due, Local
  <1>5. \/ AfterFailure(wk[a]).pc = "idle"
        \/ AfterFailure(wk[a]).pc = "due" /\ wk[a].pc \in RunPlace
        \/ AfterFailure(wk[a]).pc \in {"use", "answered", "reply"} /\ wk[a].pc \in ScreenPlace
    BY <1>4 DEF AfterFailure, RunPlace, Searching, ScreenPlace, Deciding
  <1> QED BY <1>2, <1>3, <1>4, <1>5 DEF Stop, At

\* Runs and decisions have places of their own: what a step of any kind does.
LEMMA Leads ==
    ASSUME Inv, NEW a \in Actor, Does(a)
    PROVE  /\ \A b \in Actor \ {a} : wk'[b] = wk[b]
           /\ \/ wk[a].pc = "idle" /\ StartRun(a) /\ a \in Runner /\ wk'[a].pc \in RunPlace \cup DigestPlace
              \/ wk[a].pc \in RunPlace \cup DigestPlace /\ wk'[a].pc \in RunPlace \cup DigestPlace \cup {"idle"}
              \/ wk[a].pc = "idle" /\ a \in Decider /\ wk'[a].pc \in ScreenPlace \cup {"idle"}
              \/ wk[a].pc \in ScreenPlace /\ wk'[a].pc \in ScreenPlace \cup {"idle"}
           /\ wk'[a].pc \in {"number", "append", "mark"} => Collect(a) \/ Number(a) \/ AppendDigest(a)
           /\ wk'[a].pc \in {"carry", "decide"} =>
                 HeldOf(a) \/ Carry(a) \/ CarryFails(a) \/ \E m \in Msg : DecideOne(a, m)
           /\ wk'[a].pc \in RunPlace => StartRun(a) \/ Run(a)
  <1>1. CASE StartRun(a) \/ Run(a)
    <2>1. StartRun(a) => a \in Runner
      BY DEF StartRun
    <2> QED BY <1>1, <2>1, RunLeads DEF RunPlace, Searching, DigestPlace
  <1>2. CASE EndRun(a) \/ Digest(a)
    BY <1>2, DigestLeads DEF RunPlace, Searching, DigestPlace
  <1>3. CASE StartTick(a) \/ Decide(a) \/ Tick(a) \/ \E s \in Sender, action \in Action : StartScreen(a, s, action)
    BY <1>3, ScreenLeads DEF RunPlace, Searching, ScreenPlace, Deciding
  <1>4. CASE Stop(a)
    <2>1. wk[a].pc \in PC
      BY DEF Inv, Actors, Local
    <2> QED BY <1>4, <2>1, StopLeads DEF PC, RunPlace, Searching, DigestPlace, ScreenPlace, Deciding
  <1> QED BY <1>1, <1>2, <1>3, <1>4 DEF Does

-----------------------------------------------------------------------------
(* A released record's sender is trusted, or about to be. *)

Settled == marred \cap {"trust", "decide", "vouch"} = {}

\* An actor that will trust sender s before it rests.
Vouching(l, s) == /\ l.from = s
                  /\ l.pc = "trust" \/ (l.pc \in {"decide", "vouch"} /\ l.action # "block")
Known(s) == s \in trusted \/ \E a \in Actor : Vouching(wk[a], s)
Releasing == \A m \in DOMAIN held : held[m].released => Known(FromOf[m])

\* No sender is lost by a step of one actor that keeps its own promise.
LEMMA KnownStays ==
    ASSUME NEW a \in Actor, \A b \in Actor \ {a} : wk'[b] = wk[b], trusted \subseteq trusted',
           \A s : Vouching(wk[a], s) => Vouching(wk'[a], s) \/ s \in trusted',
           NEW s, Known(s)
    PROVE  Known(s)'
  <1>1. CASE s \in trusted
    BY <1>1 DEF Known
  <1>2. ASSUME NEW b \in Actor, Vouching(wk[b], s) PROVE Known(s)'
    <2>1. CASE b = a
      <3>1. Vouching(wk'[a], s) \/ s \in trusted'
        BY <1>2, <2>1
      <3>2. Vouching(wk'[a], s) => Vouching(wk[a], s)'
        BY DEF Vouching
      <3> QED BY <3>1, <3>2 DEF Known
    <2>2. CASE b # a
      <3>1. wk'[b] = wk[b]
        BY <2>2
      <3>2. Vouching(wk[b], s)'
        BY <1>2, <3>1 DEF Vouching
      <3> QED BY <3>2 DEF Known
    <2> QED BY <2>1, <2>2
  <1> QED BY <1>1, <1>2 DEF Known

\* A step that releases no mail and keeps every sender known.
LEMMA NoneReleased ==
    ASSUME Inv, Releasing, \A m \in DOMAIN held' : held'[m].released => m \in DOMAIN held /\ held[m].released,
           \A s : Known(s) => Known(s)'
    PROVE  Releasing'
  BY DEF Releasing

\* The steps that release mail, or trust its sender.
LEMMA ReleaseSteps ==
    ASSUME Inv, Releasing, NEW a \in Actor,
           Trust(a) \/ Vouch(a) \/ \E m \in Msg : FreeOne(a, m) \/ DecideOne(a, m)
    PROVE  Releasing'
  <1> USE DEF rowVars
  <1>1. wk[a] \in Local /\ \A m \in DOMAIN held : held[m] \in Record
    BY DEF Inv, Actors, Tables
  <1>2. \A b \in Actor \ {a} : wk'[b] = wk[b]
    BY Leads DEF Does, Run, Decide
  <1>3. CASE Trust(a) \/ Vouch(a)
    <2>1. UNCHANGED held /\ trusted' = trusted \cup {wk[a].from}
      BY <1>3 DEF Trust, Vouch
    <2>2. \A s : Vouching(wk[a], s) => s \in trusted'
      BY <2>1 DEF Vouching
    <2>3. \A s : Known(s) => Known(s)'
      BY <1>2, <2>1, <2>2, KnownStays
    <2> QED BY <2>1, <2>3, NoneReleased
  <1>4. ASSUME NEW m \in Msg, FreeOne(a, m) PROVE Releasing'
    <2>1. wk[a].pc = "free" /\ UNCHANGED trusted
      BY <1>4 DEF FreeOne, At
    <2>2. \A s : ~Vouching(wk[a], s)
      BY <2>1 DEF Vouching
    <2>3. \A s : Known(s) => Known(s)'
      BY <1>2, <2>1, <2>2, KnownStays
    <2>4. CASE m \in DOMAIN held /\ ~held[m].released
      <3> DEFINE l == [wk[a] EXCEPT !.todo = @ \ {m}, !.from = FromOf[m], !.pc = "trust"]
      <3>1. held' = [held EXCEPT ![m].released = TRUE]
        BY <1>4, <2>4 DEF FreeOne
      <3>2. DOMAIN held' = DOMAIN held /\ \A n \in DOMAIN held : n # m => held'[n] = held[n]
        BY <3>1
      <3>3. wk' = [wk EXCEPT ![a] = l]
        BY <1>1, <1>4, <2>4 DEF FreeOne, Goto, Local
      <3>4. l.pc = "trust" /\ l.from = FromOf[m]
        BY <1>1 DEF Local
      <3> HIDE DEF l
      <3>5. wk'[a] = l
        BY <3>3 DEF Inv, Actors
      <3>6. Vouching(wk[a], FromOf[m])'
        BY <3>4, <3>5 DEF Vouching
      <3>7. Known(FromOf[m])'
        BY <3>6 DEF Known
      <3> QED BY <2>3, <3>2, <3>7 DEF Releasing
    <2>5. CASE ~(m \in DOMAIN held /\ ~held[m].released)
      BY <1>4, <2>3, <2>5, NoneReleased DEF FreeOne
    <2> QED BY <2>4, <2>5
  <1>5. ASSUME NEW m \in Msg, DecideOne(a, m) PROVE Releasing'
    <2> DEFINE l == [wk[a] EXCEPT !.todo = @ \ {m}]
    <2>1. /\ wk[a].pc = "decide" /\ l.from = wk[a].from /\ l.action = wk[a].action /\ l.pc = "decide" /\ "pc" \in DOMAIN l
          /\ m \in wk[a].todo /\ wk' = [wk EXCEPT ![a] = AfterDecide(l)] /\ UNCHANGED trusted
      BY <1>1, <1>5 DEF DecideOne, At, Local
    <2> HIDE DEF l
    <2>2. \A s : Vouching(wk[a], s) => Vouching(AfterDecide(l), s)
      BY <2>1 DEF Vouching, AfterDecide
    <2>3. wk'[a] = AfterDecide(l)
      BY <2>1 DEF Inv, Actors
    <2>4. \A s : Known(s) => Known(s)'
      BY <1>2, <2>1, <2>2, <2>3, KnownStays
    <2>5. FromOf[m] = wk[a].from
      BY <2>1 DEF Inv, Actors, Works
    <2>6. held' = [held EXCEPT ![m].decision = wk[a].action, ![m].released = @ \/ wk[a].action # "block"]
      BY <1>5 DEF DecideOne
    <2>7. /\ DOMAIN held' = DOMAIN held /\ \A n \in DOMAIN held : n # m => held'[n] = held[n]
          /\ m \in DOMAIN held => (held'[m].released => held[m].released \/ wk[a].action # "block")
      BY <1>1, <2>6 DEF Record
    <2>8. wk[a].action # "block" => Known(FromOf[m])
      BY <2>1, <2>5 DEF Known, Vouching
    <2> QED BY <2>4, <2>7, <2>8 DEF Releasing
  <1> QED BY <1>3, <1>4, <1>5

\* Every other step releases nothing; an actor that stops short is marked.
LEMMA ReleaseStep ==
    ASSUME Inv, Settled => Releasing, [Next]_vars
    PROVE  (Settled => Releasing)'
  <1> SUFFICES ASSUME Settled' PROVE Releasing'
    OBVIOUS
  <1> USE DEF mailVars, rowVars, digestVars, pastVars
  <1>0. \A m \in DOMAIN held : held[m] \in Record
    BY DEF Inv, Tables
  <1>1. ASSUME Settled, UNCHANGED <<held, trusted, wk>> PROVE Releasing'
    BY <1>1 DEF Releasing, Known, Vouching
  <1>2. CASE UNCHANGED vars
    BY <1>1, <1>2 DEF vars, Settled
  <1>3. CASE Owner
    <2>1. marred \subseteq marred' /\ UNCHANGED <<held, trusted, wk>>
      BY <1>3 DEF Owner, Deliver, DeliverCopy, MoveBack, Reply, DeleteRule, NewDay
    <2> QED BY <1>1, <2>1 DEF Settled
  <1>4. ASSUME NEW a \in Actor, Does(a) PROVE Releasing'
    <2>1. \A b \in Actor \ {a} : wk'[b] = wk[b]
      BY <1>4, Leads
    <2>2. ASSUME Settled, wk[a].pc \notin {"trust", "decide", "vouch"}, UNCHANGED trusted,
                 \A m \in DOMAIN held' : held'[m].released => m \in DOMAIN held /\ held[m].released
          PROVE  Releasing'
      <3>1. \A s : ~Vouching(wk[a], s)
        BY <2>2 DEF Vouching
      <3>2. \A s : Known(s) => Known(s)'
        BY <2>1, <2>2, <3>1, KnownStays
      <3> QED BY <2>2, <3>2, NoneReleased DEF Settled
    <2>3. ASSUME UNCHANGED <<held, trusted>>, marred \subseteq marred', wk[a].pc \notin {"trust", "decide", "vouch"}
          PROVE  Releasing'
      BY <2>2, <2>3 DEF Settled
    <2>4. CASE Trust(a) \/ Vouch(a) \/ \E m \in Msg : FreeOne(a, m) \/ DecideOne(a, m)
      <3>1. marred' = marred
        BY <2>4 DEF Trust, Vouch, FreeOne, DecideOne
      <3> QED BY <2>4, <3>1, ReleaseSteps DEF Settled
    <2>5. CASE StartRun(a) \/ HoldMail(a) \/ EndRun(a)
      BY <2>3, <2>5 DEF StartRun, HoldMail, EndRun, At
    <2>6. ASSUME NEW m \in Msg, JudgeOne(a, m) PROVE Releasing'
      BY <2>3, <2>6 DEF JudgeOne, At
    <2>7. ASSUME NEW m \in Msg, RecordOne(a, m) PROVE Releasing'
      <3>1. held' = [n \in DOMAIN held \cup {m} |-> IF n = m THEN RecordRow(m) ELSE held[n]]
        BY <2>7 DEF RecordOne
      <3>2. ~RecordRow(m).released
        BY <1>0 DEF RecordRow, NewRecord, Record
      <3>3. \A n \in DOMAIN held' : held'[n].released => n \in DOMAIN held /\ held[n].released
        BY <3>1, <3>2
      <3> QED BY <2>2, <2>7, <3>3 DEF RecordOne, At, Settled
    <2>8. CASE MarkDigested(a)
      <3>1. \A n \in DOMAIN held' : held'[n].released => n \in DOMAIN held /\ held[n].released
        BY <1>0, <2>8 DEF MarkDigested, Record
      <3> QED BY <2>2, <2>8, <3>1 DEF MarkDigested, At, Settled
    <2>9. CASE Collect(a) \/ Number(a) \/ AppendDigest(a) \/ StoreDigest(a) \/ LogDigest(a)
      BY <2>3, <2>9 DEF Collect, Number, AppendDigest, StoreDigest, LogDigest, At
    <2>10. CASE StartTick(a) \/ Tick(a)
      BY <2>3, <2>10 DEF StartTick, Tick, TakeReply, UseToken, Answer, At
    <2>11. CASE HeldOf(a) \/ Carry(a) \/ CarryFails(a) \/ MakeRule(a) \/ Note(a)
      BY <2>3, <2>11 DEF HeldOf, Carry, CarryFails, MakeRule, Note, At
    <2>12. ASSUME NEW s \in Sender, NEW action \in Action, StartScreen(a, s, action) PROVE Releasing'
      BY <2>3, <2>12 DEF StartScreen, At
    <2>13. CASE Stop(a)
      <3>1. UNCHANGED <<held, trusted>> /\ marred' = marred \cup ({wk[a].pc} \cap Exposed)
        BY <2>13 DEF Stop
      <3>2. wk[a].pc \notin {"trust", "decide", "vouch"}
        BY <3>1 DEF Settled, Exposed
      <3> QED BY <2>3, <3>1, <3>2
    <2> QED BY <1>4, <2>4, <2>5, <2>6, <2>7, <2>8, <2>9, <2>10, <2>11, <2>12, <2>13 DEF Does, Run, Digest, Decide
  <1>5. Next => Owner \/ \E a \in Actor : Does(a)
    BY DEF Next, Does
  <1> QED BY <1>2, <1>3, <1>4, <1>5

-----------------------------------------------------------------------------
(* A record is marked only after a digest has listed it. *)

\* Who can be where, and that no two runs have met.
Apart ==
    /\ \A a \in Actor : /\ wk[a].pc \in RunPlace \cup DigestPlace => a \in Runner
                        /\ wk[a].pc \in ScreenPlace => a \in Decider
    /\ "overlap" \notin marred =>
          \A a, b \in Runner : wk[a].pc # "idle" /\ wk[b].pc # "idle" => a = b

\* What a digest would list and MarkDigested would mark.
Open(m) == Undecided(m) /\ held[m].digested = 0
Listed(m) == \E i \in DOMAIN sent : m \in sent[i].list

\* A digest on its way has listed all of it.
Listing ==
    /\ \A a \in Actor, m \in Msg :
          /\ wk[a].pc \in {"number", "append"} /\ Open(m) => m \in wk[a].list
          /\ wk[a].pc = "mark" /\ Open(m) => Listed(m)
    /\ \A m \in DOMAIN held : held[m].digested > 0 /\ held[m].decision = "none" => Listed(m)

\* No step puts an actor where it does not belong, and a run that starts
\* beside another is marked.
LEMMA ApartStep == ASSUME Inv, Apart, [Next]_vars PROVE Apart'
  <1> USE DEF mailVars, rowVars, digestVars, pastVars
  <1>1. ASSUME UNCHANGED wk, marred \subseteq marred' PROVE Apart'
    BY <1>1 DEF Apart
  <1>2. CASE UNCHANGED vars
    BY <1>1, <1>2 DEF vars
  <1>3. CASE Owner
    BY <1>1, <1>3 DEF Owner, Deliver, DeliverCopy, MoveBack, Reply, DeleteRule, NewDay
  <1>4. ASSUME NEW a \in Actor, Does(a) PROVE Apart'
    <2>1. \A b \in Actor \ {a} : wk'[b] = wk[b]
      BY <1>4, Leads
    <2>2. \/ wk[a].pc = "idle" /\ StartRun(a) /\ a \in Runner /\ wk'[a].pc \in RunPlace \cup DigestPlace
          \/ wk[a].pc \in RunPlace \cup DigestPlace /\ wk'[a].pc \in RunPlace \cup DigestPlace \cup {"idle"}
          \/ wk[a].pc = "idle" /\ a \in Decider /\ wk'[a].pc \in ScreenPlace \cup {"idle"}
          \/ wk[a].pc \in ScreenPlace /\ wk'[a].pc \in ScreenPlace \cup {"idle"}
      BY <1>4, Leads
    <2>3. /\ "idle" \notin RunPlace \cup DigestPlace \cup ScreenPlace
          /\ (RunPlace \cup DigestPlace) \cap ScreenPlace = {}
      BY DEF RunPlace, Searching, DigestPlace, ScreenPlace, Deciding
    <2>4. /\ wk'[a].pc \in RunPlace \cup DigestPlace => a \in Runner
          /\ wk'[a].pc \in ScreenPlace => a \in Decider
      BY <2>2, <2>3 DEF Apart
    <2>5. marred \subseteq marred'
      <3>1. CASE StartRun(a) \/ Run(a) \/ EndRun(a)
        BY <3>1 DEF StartRun, Run, FreeOne, Trust, JudgeOne, HoldMail, RecordOne, EndRun
      <3>2. CASE Digest(a)
        BY <3>2 DEF Digest, Collect, Number, AppendDigest, MarkDigested, StoreDigest, LogDigest
      <3>3. CASE StartTick(a) \/ Tick(a) \/ \E s \in Sender, action \in Action : StartScreen(a, s, action)
        BY <3>3 DEF StartTick, Tick, TakeReply, UseToken, Answer, StartScreen
      <3>4. CASE Decide(a) \/ Stop(a)
        BY <3>4 DEF Decide, HeldOf, Carry, CarryFails, DecideOne, Vouch, MakeRule, Note, Stop
      <3> QED BY <1>4, <3>1, <3>2, <3>3, <3>4 DEF Does
    <2>6. ASSUME "overlap" \notin marred', NEW b \in Runner, NEW c \in Runner, wk'[b].pc # "idle", wk'[c].pc # "idle"
          PROVE  b = c
      <3>1. b \in Actor /\ c \in Actor /\ "overlap" \notin marred
        BY <2>5, <2>6 DEF Actor
      <3>2. CASE StartRun(a)
        <4>1. \A d \in Runner : wk[d].pc = "idle"
          BY <2>6, <3>2 DEF StartRun, At
        <4> QED BY <2>1, <2>6, <3>1, <4>1
      <3>3. CASE ~StartRun(a)
        <4>1. a \in Runner /\ wk'[a].pc # "idle" => wk[a].pc # "idle"
          BY <2>2, <2>3, <3>3, HoldsAssumption
        <4> QED BY <2>1, <2>6, <3>1, <4>1 DEF Apart
      <3> QED BY <3>2, <3>3
    <2> QED BY <2>1, <2>4, <2>6 DEF Apart
  <1>5. Next => Owner \/ \E a \in Actor : Does(a)
    BY DEF Next, Does
  <1> QED BY <1>2, <1>3, <1>4, <1>5

\* A step that opens and marks no record, and sends no digest.
LEMMA ListingStays ==
    ASSUME Inv, Listing, NEW a \in Actor, \A b \in Actor \ {a} : wk'[b] = wk[b], UNCHANGED sent,
           \A m \in Msg : Open(m)' => Open(m),
           \A m \in DOMAIN held' : held'[m].digested > 0 /\ held'[m].decision = "none" => Listed(m),
           wk'[a].pc \notin {"number", "append", "mark"}
    PROVE  Listing'
  BY DEF Listing, Listed

\* Every step keeps it: only a run opens a record, and no other actor is then
\* at its digest.
LEMMA ListingStep ==
    ASSUME Inv, Apart, "overlap" \notin marred => Listing, [Next]_vars
    PROVE  ("overlap" \notin marred => Listing)'
  <1> SUFFICES ASSUME "overlap" \notin marred' PROVE Listing'
    OBVIOUS
  <1> USE DEF mailVars, rowVars, digestVars, pastVars
  <1>0. /\ \A m \in DOMAIN held : held[m] \in Record
        /\ DOMAIN held \subseteq Msg
    BY DEF Inv, Tables
  <1>1. ASSUME Listing, UNCHANGED <<held, sent, wk>> PROVE Listing'
    BY <1>1 DEF Listing, Open, Undecided, Listed
  <1>2. CASE UNCHANGED vars
    BY <1>1, <1>2 DEF vars
  <1>3. CASE Owner
    <2>1. marred \subseteq marred' /\ UNCHANGED <<held, sent, wk>>
      BY <1>3 DEF Owner, Deliver, DeliverCopy, MoveBack, Reply, DeleteRule, NewDay
    <2> QED BY <1>1, <2>1
  <1>4. ASSUME NEW a \in Actor, Does(a) PROVE Listing'
    <2>1. \A b \in Actor \ {a} : wk'[b] = wk[b]
      BY <1>4, Leads
    <2>2. wk'[a].pc \in {"number", "append", "mark"} => Collect(a) \/ Number(a) \/ AppendDigest(a)
      BY <1>4, Leads
    <2>3. ASSUME ~(Collect(a) \/ Number(a) \/ AppendDigest(a)), Listing, UNCHANGED <<held, sent>> PROVE Listing'
      <3>1. \A m \in Msg : Open(m)' => Open(m)
        BY <2>3 DEF Open, Undecided
      <3> QED BY <2>1, <2>2, <2>3, <3>1, ListingStays DEF Listing
    <2>4. ASSUME UNCHANGED <<held, sent>>, marred \subseteq marred', ~(Collect(a) \/ Number(a) \/ AppendDigest(a)) PROVE Listing'
      BY <2>3, <2>4
    <2>5. wk[a] \in Local
      BY DEF Inv, Actors
    <2>6. CASE Collect(a)
      <3> DEFINE list == {m \in Msg : Undecided(m) /\ held[m].digested = 0}
                 l == [Idle EXCEPT !.list = list, !.pc = IF list = {} THEN "append" ELSE "number"]
      <3>1. wk' = [wk EXCEPT ![a] = l]
        BY <2>6, IdleLocal DEF Collect, Goto, Local
      <3>2. l.list = list /\ l.pc # "mark"
        BY DEF Idle
      <3> HIDE DEF l
      <3>3. wk'[a] = l
        BY <3>1 DEF Inv, Actors
      <3>4. Listing /\ UNCHANGED <<held, sent>>
        BY <2>6 DEF Collect
      <3>5. \A m \in Msg : Open(m) => m \in list
        BY DEF Open
      <3> HIDE DEF list
      <3>6. \A m \in Msg : (Open(m)' <=> Open(m)) /\ (Listed(m)' <=> Listed(m))
        BY <3>4 DEF Open, Undecided, Listed
      <3> QED BY <1>0, <2>1, <3>2, <3>3, <3>4, <3>5, <3>6 DEF Listing
    <2>7. CASE Number(a)
      <3>1. PICK nums : Goto(a, "append", [wk[a] EXCEPT !.nums = nums])
        BY <2>7 DEF Number
      <3> DEFINE l == [wk[a] EXCEPT !.nums = nums, !.pc = "append"]
      <3>2. wk' = [wk EXCEPT ![a] = l] /\ l.list = wk[a].list /\ l.pc = "append"
        BY <2>5, <3>1 DEF Goto, Local
      <3> HIDE DEF l
      <3>3. wk'[a] = l
        BY <3>2 DEF Inv, Actors
      <3>4. Listing /\ UNCHANGED <<held, sent>> /\ wk[a].pc = "number"
        BY <2>7 DEF Number, At
      <3>5. \A m \in Msg : (Open(m)' <=> Open(m)) /\ (Listed(m)' <=> Listed(m))
        BY <3>4 DEF Open, Undecided, Listed
      <3> QED BY <1>0, <2>1, <3>2, <3>3, <3>4, <3>5 DEF Listing
    <2>8. CASE AppendDigest(a)
      <3>1. Listing /\ UNCHANGED held /\ wk[a].pc = "append"
        BY <2>8 DEF AppendDigest, At
      <3>2. sent' = IF wk[a].list = {} THEN sent ELSE Append(sent, [list |-> wk[a].list, nums |-> wk[a].nums])
        BY <2>8 DEF AppendDigest
      <3>3. sent \in Seq(Mailed) /\ [list |-> wk[a].list, nums |-> wk[a].nums] \in Mailed
        BY <2>5 DEF Inv, Tables, Local, Mailed
      <3>4. /\ DOMAIN sent \subseteq DOMAIN sent' /\ \A i \in DOMAIN sent : sent'[i] = sent[i]
            /\ wk[a].list # {} => \E i \in DOMAIN sent' : sent'[i].list = wk[a].list
        BY <3>2, <3>3
      <3>5. \A m \in Msg : (Open(m)' <=> Open(m)) /\ (Listed(m) => Listed(m)') /\ (m \in wk[a].list => Listed(m)')
        BY <3>1, <3>4 DEF Open, Undecided, Listed
      <3>6. \A m \in Msg : Open(m)' => Listed(m)'
        BY <3>1, <3>5 DEF Listing
      <3>7. \A b \in Actor, m \in Msg : b # a /\ wk[b].pc \in {"number", "append"} /\ Open(m)' => m \in wk[b].list
        BY <3>1, <3>5 DEF Listing
      <3>8. wk'[a].pc = "mark"
        <4>1. PICK mail : Goto(a, "mark", [wk[a] EXCEPT !.mail = mail])
          BY <2>8 DEF AppendDigest
        <4>2. "pc" \in DOMAIN [wk[a] EXCEPT !.mail = mail]
          BY <2>5 DEF Local
        <4> QED BY <4>1, <4>2, GoesTo
      <3> QED BY <1>0, <2>1, <3>1, <3>5, <3>6, <3>7, <3>8 DEF Listing
    <2>9. ASSUME NEW m \in Msg, FreeOne(a, m) PROVE Listing'
      <3>1. Listing /\ UNCHANGED sent /\ (UNCHANGED held \/ (m \in DOMAIN held /\ held' = [held EXCEPT ![m].released = TRUE]))
        BY <2>9 DEF FreeOne
      <3>2. CASE held' = [held EXCEPT ![m].released = TRUE]
        <4>1. /\ DOMAIN held' = DOMAIN held /\ \A n \in DOMAIN held : /\ held'[n].digested = held[n].digested
                                                                      /\ held'[n].decision = held[n].decision
                                                                      /\ held[n].released => held'[n].released
          BY <1>0, <3>2 DEF Record
        <4>2. \A n \in Msg : Open(n)' => Open(n)
          BY <4>1 DEF Open, Undecided
        <4>3. ~(Collect(a) \/ Number(a) \/ AppendDigest(a))
          BY <2>9 DEF FreeOne, Collect, Number, AppendDigest, At
        <4>4. \A n \in DOMAIN held' : held'[n].digested > 0 /\ held'[n].decision = "none" => Listed(n)
          BY <3>1, <4>1 DEF Listing
        <4> QED BY <2>1, <2>2, <3>1, <4>2, <4>3, <4>4, ListingStays
      <3> QED BY <2>3, <2>9, <3>1, <3>2 DEF FreeOne, Collect, Number, AppendDigest, At
    <2>10. ASSUME NEW m \in Msg, RecordOne(a, m) PROVE Listing'
      <3>1. Listing /\ UNCHANGED sent /\ wk[a].pc = "record" /\ marred' = marred
        BY <2>10 DEF RecordOne, At
      <3>2. held' = [n \in DOMAIN held \cup {m} |-> IF n = m THEN RecordRow(m) ELSE held[n]]
        BY <2>10 DEF RecordOne
      <3>3. RecordRow(m).digested = 0
        BY <1>0 DEF RecordRow, NewRecord, Record
      <3>4. ASSUME NEW b \in Actor, b # a PROVE wk[b].pc \notin {"number", "append", "mark"}
        BY <3>1, <3>4 DEF Apart, RunPlace, DigestPlace
      <3>5. wk'[a].pc \notin {"number", "append", "mark"}
        BY <2>2, <3>1 DEF Collect, Number, AppendDigest, At
      <3>6. \A n \in DOMAIN held' : held'[n].digested > 0 /\ held'[n].decision = "none" => Listed(n)
        BY <3>1, <3>2, <3>3 DEF Listing
      <3> QED BY <2>1, <3>1, <3>4, <3>5, <3>6 DEF Listing, Listed
    <2>11. CASE MarkDigested(a)
      <3>1. Listing /\ UNCHANGED sent /\ wk[a].pc = "mark"
        BY <2>11 DEF MarkDigested, At
      <3>2. held' = [m \in DOMAIN held |-> IF held[m].digested = 0 /\ ~held[m].released
                                           THEN [held[m] EXCEPT !.digested = day] ELSE held[m]]
        BY <2>11 DEF MarkDigested
      <3>3. /\ DOMAIN held' = DOMAIN held
            /\ \A m \in DOMAIN held : /\ held'[m].decision = held[m].decision /\ held'[m].released = held[m].released
                                      /\ held'[m].digested = held[m].digested \/ (held[m].digested = 0 /\ ~held[m].released)
        BY <1>0, <3>2 DEF Record
      <3>4. \A m \in DOMAIN held : held'[m].digested > 0 /\ held'[m].decision = "none" => Listed(m)
        BY <1>0, <3>1, <3>3 DEF Listing, Open, Undecided
      <3>5. \A m \in Msg : Open(m)' => Open(m)
        <4>1. day > 0
          BY HoldsAssumption DEF Inv, Tables
        <4>2. \A m \in DOMAIN held : held'[m].digested = 0 => held[m].digested = 0
          BY <1>0, <3>2, <4>1 DEF Record
        <4> QED BY <3>3, <4>2 DEF Open, Undecided
      <3>6. wk'[a].pc \notin {"number", "append", "mark"}
        BY <2>2, <3>1 DEF Collect, Number, AppendDigest, At
      <3> QED BY <2>1, <3>1, <3>3, <3>4, <3>5, <3>6, ListingStays
    <2>12. ASSUME NEW m \in Msg, DecideOne(a, m) PROVE Listing'
      <3>1. Listing /\ UNCHANGED sent /\ wk[a].pc = "decide" /\ m \in wk[a].todo
        BY <2>12 DEF DecideOne, At
      <3>2. held' = [held EXCEPT ![m].decision = wk[a].action, ![m].released = @ \/ wk[a].action # "block"]
        BY <2>12 DEF DecideOne
      <3>3. wk[a].action # "none"
        BY <3>1 DEF Inv, Actors, Works, Deciding, Tables, Action
      <3>4. /\ DOMAIN held' = DOMAIN held
            /\ \A n \in DOMAIN held : /\ held'[n].digested = held[n].digested
                                      /\ n # m => held'[n] = held[n]
                                      /\ held'[m].decision = wk[a].action \/ m \notin DOMAIN held
        BY <1>0, <3>2 DEF Record
      <3>5. \A n \in DOMAIN held' : held'[n].digested > 0 /\ held'[n].decision = "none" => Listed(n)
        BY <3>1, <3>3, <3>4 DEF Listing
      <3>6. \A n \in Msg : Open(n)' => Open(n)
        BY <3>3, <3>4 DEF Open, Undecided
      <3>7. wk'[a].pc \notin {"number", "append", "mark"}
        BY <2>2, <3>1 DEF Collect, Number, AppendDigest, At
      <3> QED BY <2>1, <3>1, <3>5, <3>6, <3>7, ListingStays
    <2>13. ASSUME wk[a].pc \notin {"due", "number", "append"} PROVE ~(Collect(a) \/ Number(a) \/ AppendDigest(a))
      BY <2>13 DEF Collect, Number, AppendDigest, At
    <2>14. CASE StartRun(a) \/ Trust(a) \/ HoldMail(a) \/ \E m \in Msg : JudgeOne(a, m)
      BY <2>4, <2>13, <2>14 DEF StartRun, Trust, HoldMail, JudgeOne, At
    <2>15. CASE EndRun(a)
      <3>1. wk'[a].pc = "idle" /\ Listing /\ UNCHANGED <<held, sent>>
        BY <2>15, IdleLocal, GoesTo DEF EndRun, Local
      <3>2. \A m \in Msg : Open(m)' => Open(m)
        BY <3>1 DEF Open, Undecided
      <3> QED BY <2>1, <3>1, <3>2, ListingStays DEF Listing
    <2>16. CASE StoreDigest(a) \/ LogDigest(a)
      BY <2>4, <2>13, <2>16 DEF StoreDigest, LogDigest, At
    <2>17. CASE StartTick(a) \/ Tick(a) \/ \E s \in Sender, action \in Action : StartScreen(a, s, action)
      BY <2>4, <2>13, <2>17 DEF StartTick, Tick, TakeReply, UseToken, Answer, StartScreen, At
    <2>18. CASE HeldOf(a) \/ Carry(a) \/ CarryFails(a) \/ Vouch(a) \/ MakeRule(a) \/ Note(a)
      BY <2>4, <2>13, <2>18 DEF HeldOf, Carry, CarryFails, Vouch, MakeRule, Note, At
    <2>19. CASE Stop(a)
      <3>1. Listing /\ UNCHANGED <<held, sent>>
        BY <2>19 DEF Stop
      <3>2. wk'[a].pc \notin {"number", "append", "mark"}
        BY <2>19, StopLeads
      <3>3. \A m \in Msg : Open(m)' => Open(m)
        BY <3>1 DEF Open, Undecided
      <3> QED BY <2>1, <3>1, <3>2, <3>3, ListingStays DEF Listing
    <2> QED BY <1>4, <2>6, <2>7, <2>8, <2>9, <2>10, <2>11, <2>12, <2>14, <2>15, <2>16, <2>17, <2>18, <2>19
            DEF Does, Run, Digest, Decide
  <1>5. Next => Owner \/ \E a \in Actor : Does(a)
    BY DEF Next, Does
  <1> QED BY <1>2, <1>3, <1>4, <1>5

-----------------------------------------------------------------------------
(* Mail in the holding folder has an unreleased record. *)

OnHold(m) == m \in DOMAIN held /\ ~held[m].released

\* The mail that a run holds or will hold, and the mail it has looked up in
\* held_messages.
Moving(l) == CASE l.pc \in {"judge", "move"} -> l.keep
               [] l.pc = "record" -> l.todo
               [] OTHER -> {}
Passed(l) == CASE l.pc \in {"free", "trust"} -> DOMAIN l.uids \ l.todo
               [] l.pc \in {"judge", "move"} -> DOMAIN l.uids
               [] l.pc = "record" -> l.todo
               [] OTHER -> {}

\* Nothing came between: no run or decision was cut short where it matters,
\* no mail came twice, no two runs and no two decisions on one mail met.
Clear == marred \cap {"trust", "record", "carry", "copy", "overlap", "together"} = {}

InFolder == \A m \in Msg : "Held" \in place[m] =>
               OnHold(m) \/ \E a \in Actor : wk[a].pc = "record" /\ m \in wk[a].todo

\* What a run has looked up is not on hold (released finds each that is).
LookedUp == \A a \in Actor : /\ \A m \in Passed(wk[a]) : ~OnHold(m)
                             /\ wk[a].pc \in {"free", "trust"} => wk[a].keep = {}

Freeing(s) == \E a \in Actor : wk[a].pc = "trust" /\ wk[a].from = s

\* Mail taken up for a decision is not held again before it is decided.
TakenUp == \A d \in Actor : \A m \in Pending(wk[d]) :
              /\ FromOf[m] \in trusted \/ OnHold(m) \/ Freeing(FromOf[m])
              /\ \A a \in Actor : m \notin Moving(wk[a])
              /\ \A e \in Actor : m \in Pending(wk[e]) => e = d
              /\ wk[d].pc = "decide" /\ wk[d].action # "block" => "Held" \notin place[m]

Keeping == InFolder /\ LookedUp /\ TakenUp

\* What is moving has been looked up, and only the run looks anything up.
LEMMA MovingPassed ==
    ASSUME Inv, Trusting, Keeping, NEW a \in Actor
    PROVE  /\ Moving(wk[a]) \subseteq Passed(wk[a])
           /\ Passed(wk[a]) # {} => Running(wk[a])
           /\ \A b \in Actor : Running(wk[a]) /\ Running(wk[b]) => a = b
           /\ wk[a].pc \in Searching => /\ wk[a].todo \cup wk[a].keep \subseteq DOMAIN wk[a].uids
                                        /\ \A m \in DOMAIN wk[a].uids : place[m] = {"INBOX"}
  <1>1. Running(wk[a]) => Sound(wk[a])
    BY DEF Trusting, OneRun
  <1>2. wk[a].pc \in Searching => /\ wk[a].todo \cup wk[a].keep \subseteq DOMAIN wk[a].uids
                                  /\ \A m \in DOMAIN wk[a].uids : place[m] = {"INBOX"}
    <2>1. DOMAIN wk[a].uids \subseteq Msg
      BY DEF Inv, Actors, Local
    <2> QED BY <1>1, <2>1 DEF Running, Sound, Trusting, OneCopy
  <1>3. Moving(wk[a]) \subseteq Passed(wk[a])
    BY <1>2 DEF Moving, Passed, Searching
  <1>4. Passed(wk[a]) # {} => Running(wk[a])
    BY DEF Passed, Running, Searching
  <1>5. \A b \in Actor : Running(wk[a]) /\ Running(wk[b]) => a = b
    BY DEF Trusting, OneRun
  <1> QED BY <1>2, <1>3, <1>4, <1>5

\* A step of one actor that puts nothing on hold or into the folder, and takes
\* nothing up.
LEMMA KeepsOn ==
    ASSUME Inv, Keeping, NEW a \in Actor, \A b \in Actor \ {a} : wk'[b] = wk[b],
           \A m \in Msg : "Held" \in place'[m] => "Held" \in place[m],
           \A m \in Msg : OnHold(m)' <=> OnHold(m), trusted \subseteq trusted',
           Passed(wk'[a]) \subseteq Passed(wk[a]), Moving(wk'[a]) \subseteq Moving(wk[a]),
           wk'[a].pc \in {"free", "trust"} => wk'[a].keep = {},
           Pending(wk'[a]) \subseteq Pending(wk[a]),
           wk'[a].pc = "decide" => wk[a].pc = "decide" /\ wk'[a].action = wk[a].action,
           wk[a].pc = "trust" => wk[a].from \in trusted',
           wk[a].pc # "record"
    PROVE  Keeping'
  <1>1. \A b \in Actor : Passed(wk[b]) \subseteq Msg /\ Pending(wk[b]) \subseteq Msg
    BY DEF Inv, Actors, Local, Passed, Pending
  <1>2. /\ \A b \in Actor : Passed(wk'[b]) \subseteq Passed(wk[b])
        /\ \A b \in Actor : Moving(wk'[b]) \subseteq Moving(wk[b])
        /\ \A b \in Actor : Pending(wk'[b]) \subseteq Pending(wk[b])
    OBVIOUS
  <1>3. InFolder'
    BY DEF Keeping, InFolder
  <1>4. \A b \in Actor : (Passed(wk[b])' = Passed(wk'[b])) /\ (Moving(wk[b])' = Moving(wk'[b])) /\ (Pending(wk[b])' = Pending(wk'[b]))
    BY DEF Passed, Moving, Pending
  <1>5. LookedUp'
    BY <1>1, <1>2, <1>4 DEF Keeping, LookedUp
  <1>6. \A s : Freeing(s) => Freeing(s)' \/ s \in trusted'
    BY DEF Freeing
  <1>7. TakenUp'
    BY <1>1, <1>2, <1>4, <1>6 DEF Keeping, TakenUp
  <1> QED BY <1>3, <1>5, <1>7 DEF Keeping

\* The rule run: what is on hold it releases, and what it is to hold is
\* neither on hold nor from a trusted sender.
LEMMA RunKeeps ==
    ASSUME Inv, Trusting, Keeping, NEW a \in Actor, StartRun(a) \/ Run(a)
    PROVE  Keeping'
  <1> USE DEF mailVars, rowVars, digestVars, pastVars
  <1>1. wk[a] \in Local /\ Idle \in Local /\ \A m \in DOMAIN held : held[m] \in Record
    BY IdleLocal DEF Inv, Actors, Tables
  <1>2. \A b \in Actor \ {a} : wk'[b] = wk[b]
    BY RunLeads
  <1>3. \A l : wk' = [wk EXCEPT ![a] = l] => wk'[a] = l
    BY DEF Inv, Actors
  <1>4. Passed(Due) = {} /\ Moving(Due) = {} /\ Pending(Due) = {} /\ Due.pc = "due"
    BY DEF Passed, Moving, Pending, Due, Idle
  <1>5. ASSUME UNCHANGED held PROVE \A m \in Msg : OnHold(m)' <=> OnHold(m)
    BY <1>5 DEF OnHold
  <1>6. CASE StartRun(a)
    <2> DEFINE found == {m \in Msg : "INBOX" \in place[m]}
               l == [Idle EXCEPT !.pc = "free", !.todo = found, !.uids = [m \in found |-> uid[m]]]
    <2>1. l.pc = "free" /\ l.todo = found /\ l.keep = {} /\ DOMAIN l.uids = found
      BY DEF Idle
    <2>2. (wk' = [wk EXCEPT ![a] = l] \/ wk' = [wk EXCEPT ![a] = Due]) /\ wk[a].pc = "idle"
      BY <1>6 DEF StartRun, At
    <2> HIDE DEF l
    <2>3. Passed(l) = {} /\ Moving(l) = {} /\ Pending(l) = {}
      BY <2>1 DEF Passed, Moving, Pending
    <2>4. wk'[a] = l \/ wk'[a] = Due
      BY <1>3, <2>2
    <2>5. UNCHANGED <<mailVars, rowVars>>
      BY <1>6 DEF StartRun
    <2> QED BY <1>2, <1>4, <1>5, <2>1, <2>2, <2>3, <2>4, <2>5, KeepsOn
  <1>7. ASSUME NEW m \in Msg, FreeOne(a, m) PROVE Keeping'
    <2> DEFINE l == [wk[a] EXCEPT !.todo = @ \ {m}]
    <2>1. /\ wk[a].pc = "free" /\ m \in wk[a].todo /\ l.pc = "free" /\ l.todo = wk[a].todo \ {m} /\ l.uids = wk[a].uids
          /\ l.keep = wk[a].keep /\ "pc" \in DOMAIN l /\ "from" \in DOMAIN l /\ l \in Local
      BY <1>1, <1>7 DEF FreeOne, At, Local
    <2>2. m \in DOMAIN wk[a].uids /\ place[m] = {"INBOX"} /\ wk[a].keep = {}
      BY <2>1, MovingPassed DEF Searching, Keeping, LookedUp
    <2>3. UNCHANGED <<mailVars, trusted>>
      BY <1>7 DEF FreeOne
    <2>4. CASE OnHold(m)
      <3> DEFINE t == [l EXCEPT !.pc = "trust", !.from = FromOf[m]]
      <3>1. held' = [held EXCEPT ![m].released = TRUE] /\ wk' = [wk EXCEPT ![a] = t]
        BY <1>7, <2>1, <2>4 DEF FreeOne, OnHold, Goto, Local
      <3>2. t.pc = "trust" /\ t.from = FromOf[m] /\ t.todo = l.todo /\ t.uids = l.uids /\ t.keep = {}
        BY <2>1, <2>2 DEF Local
      <3> HIDE DEF l, t
      <3>3. wk'[a] = t
        BY <1>3, <3>1
      <3>4. \A n \in Msg : OnHold(n)' <=> OnHold(n) /\ n # m
        BY <1>1, <2>4, <3>1 DEF OnHold, Record
      <3>5. /\ \A n \in Passed(t) : n = m \/ n \in Passed(wk[a])
            /\ Moving(t) = {} /\ Pending(t) = {} /\ Pending(wk[a]) = {}
        BY <2>1, <3>2 DEF Passed, Moving, Pending
      <3>6. \A b \in Actor : /\ Passed(wk[b])' = Passed(wk'[b]) /\ Moving(wk[b])' = Moving(wk'[b])
                             /\ Pending(wk[b])' = Pending(wk'[b])
                             /\ Passed(wk[b]) \subseteq Msg /\ Pending(wk[b]) \subseteq Msg
        BY DEF Passed, Moving, Pending, Inv, Actors, Local
      <3>7. InFolder'
        <4>1. \A n \in Msg, b \in Actor : wk[b].pc = "record" /\ n \in wk[b].todo => wk'[b].pc = "record" /\ n \in wk'[b].todo
          BY <1>2, <2>1
        <4> QED BY <2>2, <2>3, <3>4, <4>1 DEF Keeping, InFolder
      <3>8. LookedUp'
        BY <1>2, <3>2, <3>3, <3>4, <3>5, <3>6 DEF Keeping, LookedUp
      <3>9. Freeing(FromOf[m])' /\ \A s : Freeing(s) => Freeing(s)'
        <4>1. wk'[a].pc = "trust" /\ wk'[a].from = FromOf[m] /\ wk[a].pc # "trust"
          BY <2>1, <3>2, <3>3
        <4>2. \A b \in Actor : wk[b].pc = "trust" => wk'[b] = wk[b]
          BY <1>2, <4>1
        <4> QED BY <4>1, <4>2 DEF Freeing
      <3>10. TakenUp'
        <4>1. \A b \in Actor : Pending(wk'[b]) = Pending(wk[b]) /\ Moving(wk'[b]) \subseteq Moving(wk[b])
          BY <1>2, <3>3, <3>5
        <4>2. \A b \in Actor : Pending(wk[b]) # {} => wk'[b] = wk[b]
          BY <1>2, <3>5
        <4> QED BY <2>3, <3>4, <3>6, <3>9, <4>1, <4>2 DEF Keeping, TakenUp
      <3> QED BY <3>7, <3>8, <3>10 DEF Keeping
    <2>5. CASE ~OnHold(m)
      <3>1. wk' = [wk EXCEPT ![a] = AfterFree(l)] /\ UNCHANGED held
        BY <1>7, <2>5 DEF FreeOne, OnHold
      <3>2. /\ AfterFree(l).pc \in {"free", "judge"} /\ AfterFree(l).keep = {} /\ AfterFree(l).uids = wk[a].uids
            /\ AfterFree(l).pc = "free" => AfterFree(l).todo = wk[a].todo \ {m}
        BY <2>1, <2>2 DEF AfterFree, Local
      <3> HIDE DEF l
      <3>3. wk'[a] = AfterFree(l)
        BY <1>3, <3>1
      <3>4. \A n \in Msg : OnHold(n)' <=> OnHold(n)
        BY <1>5, <3>1
      <3>5. /\ \A n \in Passed(wk'[a]) : n = m \/ n \in Passed(wk[a])
            /\ Moving(wk'[a]) = {} /\ Pending(wk'[a]) = {} /\ Pending(wk[a]) = {}
        <4>1. AfterFree(l).pc = "judge" => wk[a].todo \subseteq {m}
          BY <2>1 DEF AfterFree
        <4> QED BY <2>1, <3>2, <3>3, <4>1 DEF Passed, Moving, Pending
      <3>6. \A b \in Actor : /\ Passed(wk[b])' = Passed(wk'[b]) /\ Moving(wk[b])' = Moving(wk'[b])
                             /\ Pending(wk[b])' = Pending(wk'[b])
                             /\ Passed(wk[b]) \subseteq Msg /\ Pending(wk[b]) \subseteq Msg
        BY DEF Passed, Moving, Pending, Inv, Actors, Local
      <3>7. InFolder'
        <4>1. \A n \in Msg, b \in Actor : wk[b].pc = "record" /\ n \in wk[b].todo => wk'[b].pc = "record" /\ n \in wk'[b].todo
          BY <1>2, <2>1
        <4> QED BY <2>3, <3>4, <4>1 DEF Keeping, InFolder
      <3>8. LookedUp'
        BY <1>2, <2>5, <3>2, <3>3, <3>4, <3>5, <3>6 DEF Keeping, LookedUp
      <3>9. \A s : Freeing(s) => Freeing(s)'
        BY <1>2, <2>1 DEF Freeing
      <3>10. TakenUp'
        <4>1. \A b \in Actor : Pending(wk'[b]) = Pending(wk[b]) /\ Moving(wk'[b]) \subseteq Moving(wk[b])
          BY <1>2, <3>5
        <4>2. \A b \in Actor : Pending(wk[b]) # {} => wk'[b] = wk[b]
          BY <1>2, <3>5
        <4> QED BY <2>3, <3>4, <3>6, <3>9, <4>1, <4>2 DEF Keeping, TakenUp
      <3> QED BY <3>7, <3>8, <3>10 DEF Keeping
    <2> QED BY <2>4, <2>5
  <1>8. CASE Trust(a)
    <2> DEFINE l == [wk[a] EXCEPT !.from = NoOne, !.freed = @ \cup {wk[a].from}]
    <2>1. /\ wk[a].pc = "trust" /\ "pc" \in DOMAIN l /\ l.todo = wk[a].todo /\ l.uids = wk[a].uids /\ l.keep = wk[a].keep
          /\ l \in Local
      BY <1>1, <1>8 DEF Trust, At, Local
    <2>2. wk' = [wk EXCEPT ![a] = AfterFree(l)] /\ UNCHANGED <<mailVars, held>> /\ trusted' = trusted \cup {wk[a].from}
      BY <1>8 DEF Trust
    <2> HIDE DEF l
    <2>3. wk[a].keep = {}
      BY <2>1 DEF Keeping, LookedUp
    <2>4. wk'[a] = AfterFree(l)
      BY <1>3, <2>2
    <2>5. /\ AfterFree(l).pc \in {"free", "judge"} /\ AfterFree(l).keep = {} /\ AfterFree(l).uids = wk[a].uids
          /\ AfterFree(l).pc = "free" => AfterFree(l).todo = wk[a].todo
          /\ AfterFree(l).pc = "judge" => wk[a].todo = {}
      BY <2>1, <2>3 DEF AfterFree, Local
    <2>6. Passed(wk'[a]) \subseteq Passed(wk[a]) /\ Moving(wk'[a]) = {} /\ Pending(wk'[a]) = {}
      BY <2>1, <2>4, <2>5 DEF Passed, Moving, Pending
    <2> QED BY <1>2, <1>5, <2>1, <2>2, <2>4, <2>5, <2>6, KeepsOn
  <1>9. ASSUME NEW m \in Msg, JudgeOne(a, m) PROVE Keeping'
    <2>1. PICK hold \in BOOLEAN :
            /\ hold => FromOf[m] \notin wk[a].freed /\ IsNew(FromOf[m])
            /\ wk' = [wk EXCEPT ![a] = AfterJudge([wk[a] EXCEPT !.todo = @ \ {m}, !.keep = IF hold THEN @ \cup {m} ELSE @])]
      BY <1>9 DEF JudgeOne
    <2> DEFINE l == [wk[a] EXCEPT !.todo = @ \ {m}, !.keep = IF hold THEN @ \cup {m} ELSE @]
    <2>2. /\ wk[a].pc = "judge" /\ m \in wk[a].todo /\ l.pc = "judge" /\ "pc" \in DOMAIN l /\ l.uids = wk[a].uids
          /\ l.keep = (IF hold THEN wk[a].keep \cup {m} ELSE wk[a].keep) /\ l \in Local
      BY <1>1, <1>9 DEF JudgeOne, At, Local
    <2>3. wk' = [wk EXCEPT ![a] = AfterJudge(l)] /\ UNCHANGED <<mailVars, held, trusted>>
      BY <1>9, <2>1 DEF JudgeOne
    <2> HIDE DEF l
    <2>4. wk'[a] = AfterJudge(l)
      BY <1>3, <2>3
    <2>5. \/ AfterJudge(l).pc \in {"judge", "move"} /\ AfterJudge(l).keep = l.keep /\ AfterJudge(l).uids = wk[a].uids
          \/ AfterJudge(l) = Due
      BY <2>2 DEF AfterJudge, Local
    <2>6. /\ Passed(wk'[a]) \subseteq Passed(wk[a]) /\ Moving(wk'[a]) \subseteq l.keep /\ Pending(wk'[a]) = {}
          /\ wk'[a].pc \notin {"free", "trust", "decide"} /\ Moving(wk[a]) = wk[a].keep
      BY <1>4, <2>2, <2>4, <2>5 DEF Passed, Moving, Pending
    <2>7. CASE Moving(wk'[a]) \subseteq Moving(wk[a])
      BY <1>2, <1>5, <2>2, <2>3, <2>6, <2>7, KeepsOn
    <2>8. CASE hold
      <3>1. ~OnHold(m)
        <4>1. m \in Passed(wk[a])
          BY <2>2, MovingPassed DEF Searching, Passed
        <4> QED BY <4>1 DEF Keeping, LookedUp
      <3>2. FromOf[m] \notin trusted
        <4>1. FromOf[m] \in Sender
          BY HoldsAssumption
        <4>2. FromOf[m] \in Peers(FromOf[m])
          BY <4>1 DEF Peers
        <4> QED BY <2>1, <2>8, <4>2 DEF IsNew
      <3>3. \A s : ~Freeing(s)
        <4>1. ASSUME NEW b \in Actor, wk[b].pc = "trust" PROVE FALSE
          BY <2>2, <4>1, MovingPassed DEF Running, Searching
        <4> QED BY <4>1 DEF Freeing
      <3>4. \A d \in Actor : m \notin Pending(wk[d])
        BY <3>1, <3>2, <3>3 DEF Keeping, TakenUp
      <3>5. \A b \in Actor : /\ Passed(wk[b])' = Passed(wk'[b]) /\ Moving(wk[b])' = Moving(wk'[b])
                             /\ Pending(wk[b])' = Pending(wk'[b])
                             /\ Passed(wk[b]) \subseteq Msg /\ Pending(wk[b]) \subseteq Msg
        BY DEF Passed, Moving, Pending, Inv, Actors, Local
      <3>6. \A n \in Msg : OnHold(n)' <=> OnHold(n)
        BY <1>5, <2>3
      <3>7. InFolder'
        <4>1. \A n \in Msg, b \in Actor : wk[b].pc = "record" /\ n \in wk[b].todo => wk'[b].pc = "record" /\ n \in wk'[b].todo
          BY <1>2, <2>2
        <4> QED BY <2>3, <3>6, <4>1 DEF Keeping, InFolder
      <3>8. LookedUp'
        <4>1. \A b \in Actor : Passed(wk'[b]) \subseteq Passed(wk[b])
          BY <1>2, <2>6
        <4>2. \A b \in Actor : wk'[b].pc \in {"free", "trust"} => wk'[b] = wk[b]
          BY <1>2, <2>6
        <4> QED BY <3>5, <3>6, <4>1, <4>2 DEF Keeping, LookedUp
      <3>9. TakenUp'
        <4>1. \A b \in Actor : /\ Pending(wk'[b]) \subseteq Pending(wk[b])
                               /\ \A n \in Moving(wk'[b]) : n = m \/ n \in Moving(wk[b])
          BY <1>2, <2>2, <2>6
        <4>2. \A b \in Actor : Pending(wk'[b]) # {} => wk'[b] = wk[b]
          BY <1>2, <2>6
        <4> QED BY <2>3, <3>3, <3>4, <3>5, <3>6, <4>1, <4>2 DEF Keeping, TakenUp
      <3> QED BY <3>7, <3>8, <3>9 DEF Keeping
    <2>9. CASE ~hold
      BY <2>2, <2>6, <2>7, <2>9
    <2> QED BY <2>8, <2>9
  <1>10. CASE HoldMail(a)
    <2> DEFINE l == [wk[a] EXCEPT !.todo = wk[a].keep, !.pc = "record"]
               S == {m \in wk[a].keep : "INBOX" \in place[m] /\ uid[m] = wk[a].uids[m]}
    <2>1. /\ wk[a].pc = "move" /\ l.pc = "record" /\ l.todo = wk[a].keep /\ l.keep = wk[a].keep
          /\ wk' = [wk EXCEPT ![a] = l] /\ UNCHANGED <<uid, rowVars>> /\ Moved(S, "INBOX", "Held") /\ S \subseteq wk[a].keep
      BY <1>1, <1>10 DEF HoldMail, At, Goto, Local
    <2> HIDE DEF l, S
    <2>2. wk'[a] = l
      BY <1>3, <2>1
    <2>3. \A m \in Msg : "Held" \in place'[m] => "Held" \in place[m] \/ m \in wk[a].keep
      BY <2>1 DEF Moved
    <2>4. /\ Passed(l) = wk[a].keep /\ Moving(l) = wk[a].keep /\ Moving(wk[a]) = wk[a].keep /\ Pending(l) = {}
          /\ wk[a].keep \subseteq Passed(wk[a])
      BY <2>1, MovingPassed DEF Passed, Moving, Pending
    <2>5. \A b \in Actor : /\ Passed(wk[b])' = Passed(wk'[b]) /\ Moving(wk[b])' = Moving(wk'[b])
                           /\ Pending(wk[b])' = Pending(wk'[b])
                           /\ Passed(wk[b]) \subseteq Msg /\ Pending(wk[b]) \subseteq Msg
      BY DEF Passed, Moving, Pending, Inv, Actors, Local
    <2>6. \A n \in Msg : OnHold(n)' <=> OnHold(n)
      BY <1>5, <2>1
    <2>7. InFolder'
      <3>1. ASSUME NEW n \in Msg, "Held" \in place'[n], ~OnHold(n) PROVE \E b \in Actor : wk'[b].pc = "record" /\ n \in wk'[b].todo
        <4>1. CASE n \in wk[a].keep
          BY <2>1, <2>2, <4>1
        <4>2. CASE "Held" \in place[n]
          <5>1. PICK b \in Actor : wk[b].pc = "record" /\ n \in wk[b].todo
            BY <3>1, <4>2 DEF Keeping, InFolder
          <5>2. wk'[b] = wk[b]
            BY <1>2, <2>1, <5>1
          <5> QED BY <5>1, <5>2
        <4> QED BY <2>3, <3>1, <4>1, <4>2
      <3> QED BY <2>6, <3>1 DEF InFolder
    <2>8. LookedUp'
      <3>1. \A b \in Actor : Passed(wk'[b]) \subseteq Passed(wk[b])
        BY <1>2, <2>2, <2>4
      <3>2. \A b \in Actor : wk'[b].pc \in {"free", "trust"} => wk'[b] = wk[b]
        BY <1>2, <2>1, <2>2
      <3> QED BY <2>5, <2>6, <3>1, <3>2 DEF Keeping, LookedUp
    <2>9. TakenUp'
      <3>1. \A b \in Actor : Pending(wk'[b]) \subseteq Pending(wk[b]) /\ Moving(wk'[b]) \subseteq Moving(wk[b])
        BY <1>2, <2>2, <2>4
      <3>2. \A b \in Actor : Pending(wk'[b]) # {} => wk'[b] = wk[b]
        BY <1>2, <2>2, <2>4
      <3>3. \A s : Freeing(s) => Freeing(s)'
        BY <1>2, <2>1 DEF Freeing
      <3>4. \A d \in Actor : \A m \in Pending(wk[d]) : m \notin wk[a].keep
        BY <2>4 DEF Keeping, TakenUp
      <3>5. UNCHANGED trusted
        BY <2>1
      <3>6. ASSUME NEW d \in Actor, NEW m \in Pending(wk'[d])
            PROVE  /\ FromOf[m] \in trusted' \/ OnHold(m)' \/ Freeing(FromOf[m])'
                   /\ \A b \in Actor : m \notin Moving(wk'[b])
                   /\ \A e \in Actor : m \in Pending(wk'[e]) => e = d
                   /\ wk'[d].pc = "decide" /\ wk'[d].action # "block" => "Held" \notin place'[m]
        <4>1. m \in Pending(wk[d]) /\ m \in Msg /\ wk'[d] = wk[d]
          BY <2>5, <3>1, <3>2
        <4>2. "Held" \in place'[m] => "Held" \in place[m]
          BY <2>3, <3>4, <4>1
        <4> QED BY <2>6, <3>1, <3>3, <3>5, <4>1, <4>2 DEF Keeping, TakenUp
      <3> QED BY <2>5, <3>6 DEF TakenUp
    <2> QED BY <2>7, <2>8, <2>9 DEF Keeping
  <1>11. ASSUME NEW m \in Msg, RecordOne(a, m) PROVE Keeping'
    <2> DEFINE l == [wk[a] EXCEPT !.todo = @ \ {m}]
    <2>1. /\ wk[a].pc = "record" /\ m \in wk[a].todo /\ l.pc = "record" /\ l.todo = wk[a].todo \ {m}
          /\ wk' = [wk EXCEPT ![a] = AfterRecord(l)] /\ UNCHANGED <<mailVars, trusted>>
      BY <1>1, <1>11 DEF RecordOne, At, Local
    <2>2. held' = [n \in DOMAIN held \cup {m} |-> IF n = m THEN RecordRow(m) ELSE held[n]]
      BY <1>11 DEF RecordOne
    <2> HIDE DEF l
    <2>3. wk'[a] = AfterRecord(l)
      BY <1>3, <2>1
    <2>4. \A n \in Msg : OnHold(n)' <=> OnHold(n) \/ n = m
      <3>1. ~RecordRow(m).released
        BY <1>1 DEF RecordRow, NewRecord, Record
      <3> QED BY <2>2, <3>1 DEF OnHold
    <2>5. AfterRecord(l) = l \/ (AfterRecord(l) = Due /\ l.todo = {})
      BY DEF AfterRecord
    <2>6. /\ Passed(wk'[a]) \subseteq wk[a].todo \ {m} /\ Moving(wk'[a]) \subseteq wk[a].todo /\ Pending(wk'[a]) = {}
          /\ wk'[a].pc \in {"record", "due"} /\ Passed(wk[a]) = wk[a].todo /\ Moving(wk[a]) = wk[a].todo
          /\ \A n \in wk[a].todo : n = m \/ (wk'[a].pc = "record" /\ n \in wk'[a].todo)
      BY <1>4, <2>1, <2>3, <2>5 DEF Passed, Moving, Pending
    <2>7. \A b \in Actor : /\ Passed(wk[b])' = Passed(wk'[b]) /\ Moving(wk[b])' = Moving(wk'[b])
                           /\ Pending(wk[b])' = Pending(wk'[b])
                           /\ Passed(wk[b]) \subseteq Msg /\ Pending(wk[b]) \subseteq Msg
      BY DEF Passed, Moving, Pending, Inv, Actors, Local
    <2>8. InFolder'
      <3>1. ASSUME NEW n \in Msg, "Held" \in place'[n], ~OnHold(n), n # m
            PROVE  \E b \in Actor : wk'[b].pc = "record" /\ n \in wk'[b].todo
        <4>1. PICK b \in Actor : wk[b].pc = "record" /\ n \in wk[b].todo
          BY <2>1, <3>1 DEF Keeping, InFolder
        <4> QED BY <1>2, <2>6, <3>1, <4>1
      <3> QED BY <2>4, <3>1 DEF InFolder
    <2>9. LookedUp'
      <3>1. ASSUME NEW b \in Actor, b # a PROVE Passed(wk[b]) = {}
        BY <2>1, <3>1, MovingPassed DEF Running
      <3>2. \A b \in Actor : wk'[b].pc \in {"free", "trust"} => wk'[b] = wk[b]
        BY <1>2, <2>6
      <3>3. ASSUME NEW b \in Actor PROVE \A n \in Passed(wk'[b]) : ~OnHold(n)'
        BY <1>2, <2>4, <2>6, <2>7, <3>1 DEF Keeping, LookedUp
      <3> QED BY <2>7, <3>2, <3>3 DEF Keeping, LookedUp
    <2>10. TakenUp'
      <3>1. \A b \in Actor : Pending(wk'[b]) \subseteq Pending(wk[b]) /\ Moving(wk'[b]) \subseteq Moving(wk[b])
        BY <1>2, <2>6
      <3>2. \A b \in Actor : Pending(wk'[b]) # {} => wk'[b] = wk[b]
        BY <1>2, <2>6
      <3>3. \A s : Freeing(s) => Freeing(s)'
        BY <1>2, <2>1 DEF Freeing
      <3> QED BY <2>1, <2>4, <2>7, <3>1, <3>2, <3>3 DEF Keeping, TakenUp
    <2> QED BY <2>8, <2>9, <2>10 DEF Keeping
  <1> QED BY <1>6, <1>7, <1>8, <1>9, <1>10, <1>11 DEF Run

\* Screen, for one decision: what it takes up is on hold, and it leaves the
\* folder before it is released.
LEMMA DecideKeeps ==
    ASSUME Inv, Apart, Trusting, Keeping, NEW a \in Actor, Decide(a), Clear'
    PROVE  Keeping'
  <1> USE DEF mailVars, rowVars, digestVars, pastVars
  <1>1. wk[a] \in Local /\ \A m \in DOMAIN held : held[m] \in Record
    BY DEF Inv, Actors, Tables
  <1>2. \A b \in Actor \ {a} : wk'[b] = wk[b]
    BY ScreenLeads
  <1>3. \A l : wk' = [wk EXCEPT ![a] = l] => wk'[a] = l
    BY DEF Inv, Actors
  <1>4. ASSUME UNCHANGED held PROVE \A m \in Msg : OnHold(m)' <=> OnHold(m)
    BY <1>4 DEF OnHold
  <1>5. \A b \in Actor : /\ Passed(wk[b])' = Passed(wk'[b]) /\ Moving(wk[b])' = Moving(wk'[b])
                         /\ Pending(wk[b])' = Pending(wk'[b])
                         /\ Passed(wk[b]) \subseteq Msg /\ Pending(wk[b]) \subseteq Msg
    BY DEF Passed, Moving, Pending, Inv, Actors, Local
  <1>6. Outcome(wk[a]).pc \in {"idle", "use"}
    BY <1>1 DEF Outcome, Idle, Local
  \* A step that takes nothing up and decides nothing.
  <1>7. ASSUME wk[a].pc \in Deciding, wk'[a].pc \in {"idle", "use", "rule", "note"}, UNCHANGED <<place, held>>, trusted \subseteq trusted'
        PROVE  Keeping'
    <2>1. Passed(wk'[a]) = {} /\ Moving(wk'[a]) = {} /\ Pending(wk'[a]) = {} /\ wk[a].pc \notin {"trust", "record"}
      BY <1>7 DEF Passed, Moving, Pending, Deciding
    <2> QED BY <1>2, <1>4, <1>7, <2>1, KeepsOn
  <1>8. CASE HeldOf(a)
    <2> DEFINE mine == {m \in Msg : Undecided(m) /\ FromOf[m] = wk[a].from}
               target == IF wk[a].action = "block" THEN BlockTarget(wk[a].from) ELSE wk[a].from
               l == [wk[a] EXCEPT !.keep = mine, !.target = target, !.pc = "carry"]
    <2>1. wk[a].pc = "held" /\ UNCHANGED <<place, held, trusted>>
      BY <1>8 DEF HeldOf, At
    <2>2. wk' = [wk EXCEPT ![a] = Outcome(wk[a])] \/ wk' = [wk EXCEPT ![a] = l]
      BY <1>1, <1>8 DEF HeldOf, Goto, Local
    <2>3. \A b \in Decider : Pending(wk[b]) \cap mine = {}
      BY <1>8 DEF HeldOf, Clear
    <2>4. \A m \in mine : OnHold(m)
      BY DEF Undecided, OnHold
    <2> HIDE DEF mine, target
    <2>5. l.pc = "carry" /\ l.keep = mine
      BY <1>1 DEF Local
    <2> HIDE DEF l
    <2>6. CASE wk' = [wk EXCEPT ![a] = Outcome(wk[a])]
      BY <1>3, <1>6, <1>7, <2>1, <2>6 DEF Deciding
    <2>7. CASE wk' = [wk EXCEPT ![a] = l]
      <3>1. wk'[a] = l
        BY <1>3, <2>7
      <3>2. Pending(l) = mine /\ Passed(l) = {} /\ Moving(l) = {} /\ Pending(wk[a]) = {}
        BY <2>1, <2>5 DEF Pending, Passed, Moving
      <3>3. \A b \in Actor : Pending(wk[b]) \cap mine = {}
        <4>1. ASSUME NEW b \in Actor, b \notin Decider PROVE Pending(wk[b]) = {}
          BY <4>1 DEF Pending, Apart, ScreenPlace, Deciding
        <4> QED BY <2>3, <4>1
      <3>4. \A b \in Actor : Moving(wk[b]) \cap mine = {}
        BY <2>4, MovingPassed DEF Keeping, LookedUp
      <3>5. \A n \in Msg : OnHold(n)' <=> OnHold(n)
        BY <1>4, <2>1
      <3>6. InFolder'
        <4>1. \A n \in Msg, b \in Actor : wk[b].pc = "record" /\ n \in wk[b].todo => wk'[b].pc = "record" /\ n \in wk'[b].todo
          BY <1>2, <2>1
        <4> QED BY <2>1, <3>5, <4>1 DEF Keeping, InFolder
      <3>7. LookedUp'
        BY <1>2, <1>5, <2>5, <3>1, <3>2, <3>5 DEF Keeping, LookedUp
      <3>8. TakenUp'
        <4>1. \A s : Freeing(s) => Freeing(s)'
          BY <1>2, <2>1 DEF Freeing
        <4>2. \A b \in Actor : Moving(wk'[b]) \subseteq Moving(wk[b])
          BY <1>2, <3>1, <3>2
        <4>3. ASSUME NEW d \in Actor, NEW m \in Pending(wk'[d])
              PROVE  /\ FromOf[m] \in trusted' \/ OnHold(m)' \/ Freeing(FromOf[m])'
                     /\ \A b \in Actor : m \notin Moving(wk'[b])
                     /\ \A e \in Actor : m \in Pending(wk'[e]) => e = d
                     /\ wk'[d].pc = "decide" /\ wk'[d].action # "block" => "Held" \notin place'[m]
          <5>1. CASE d = a
            <6>1. m \in mine
              BY <3>1, <3>2, <5>1
            <6>2. m \in Msg /\ OnHold(m)
              BY <2>4, <6>1 DEF mine
            <6> QED BY <1>2, <2>5, <3>1, <3>3, <3>4, <3>5, <4>2, <5>1, <6>1, <6>2
          <5>2. CASE d # a
            <6>1. wk'[d] = wk[d] /\ m \in Pending(wk[d]) /\ m \in Msg /\ m \notin mine
              BY <1>2, <1>5, <3>3, <5>2
            <6>2. \A e \in Actor : m \in Pending(wk'[e]) => m \in Pending(wk[e])
              BY <1>2, <3>1, <3>2, <6>1
            <6> QED BY <2>1, <3>5, <4>1, <4>2, <6>1, <6>2 DEF Keeping, TakenUp
          <5> QED BY <5>1, <5>2
        <4> QED BY <1>5, <4>3 DEF TakenUp
      <3> QED BY <3>6, <3>7, <3>8 DEF Keeping
    <2> QED BY <2>2, <2>6, <2>7
  <1>9. CASE CarryFails(a)
    BY <1>9 DEF CarryFails, Clear
  <1>10. CASE Carry(a)
    <2> DEFINE to == Destination(wk[a].action)
               S == {m \in wk[a].keep : "Held" \in place[m]}
               l == [wk[a] EXCEPT !.todo = wk[a].keep, !.pc = "decide"]
    <2>1. /\ wk[a].pc = "carry" /\ wk' = [wk EXCEPT ![a] = l] /\ l.pc = "decide" /\ l.todo = wk[a].keep /\ l.action = wk[a].action
          /\ UNCHANGED rowVars /\ Moved(S, "Held", to) /\ wk[a].keep \subseteq Msg
      BY <1>1, <1>10 DEF Carry, At, Goto, Local
    <2>2. wk[a].action \in Action
      BY <2>1 DEF Inv, Actors, Works, Deciding, Tables
    <2>3. to # "Held"
      BY <2>2 DEF Destination, Action
    <2> HIDE DEF l, to
    <2>4. wk'[a] = l
      BY <1>3, <2>1
    <2>5. /\ \A m \in Msg : "Held" \in place'[m] => "Held" \in place[m]
          /\ \A m \in wk[a].keep : "Held" \notin place'[m]
      BY <2>1, <2>3 DEF Moved
    <2>6. Pending(l) = wk[a].keep /\ Pending(wk[a]) = wk[a].keep /\ Passed(l) = {} /\ Moving(l) = {}
      BY <2>1 DEF Pending, Passed, Moving
    <2>7. \A n \in Msg : OnHold(n)' <=> OnHold(n)
      BY <1>4, <2>1
    <2>8. InFolder'
      <3>1. \A n \in Msg, b \in Actor : wk[b].pc = "record" /\ n \in wk[b].todo => wk'[b].pc = "record" /\ n \in wk'[b].todo
        BY <1>2, <2>1
      <3> QED BY <2>5, <2>7, <3>1 DEF Keeping, InFolder
    <2>9. LookedUp'
      BY <1>2, <1>5, <2>1, <2>4, <2>6, <2>7 DEF Keeping, LookedUp
    <2>10. TakenUp'
      <3>1. \A s : Freeing(s) => Freeing(s)'
        BY <1>2, <2>1 DEF Freeing
      <3>2. \A b \in Actor : Moving(wk'[b]) \subseteq Moving(wk[b]) /\ Pending(wk'[b]) = Pending(wk[b])
        BY <1>2, <2>4, <2>6
      <3>3. ASSUME NEW d \in Actor, NEW m \in Pending(wk'[d])
            PROVE  /\ FromOf[m] \in trusted' \/ OnHold(m)' \/ Freeing(FromOf[m])'
                   /\ \A b \in Actor : m \notin Moving(wk'[b])
                   /\ \A e \in Actor : m \in Pending(wk'[e]) => e = d
                   /\ wk'[d].pc = "decide" /\ wk'[d].action # "block" => "Held" \notin place'[m]
        <4>1. m \in Pending(wk[d]) /\ m \in Msg
          BY <1>5, <3>2
        <4>2. wk'[d].pc = "decide" /\ wk'[d].action # "block" => "Held" \notin place'[m]
          BY <1>2, <2>4, <2>5, <2>6, <4>1 DEF Keeping, TakenUp
        <4>3. UNCHANGED trusted
          BY <2>1
        <4> QED BY <2>7, <3>1, <3>2, <4>1, <4>2, <4>3 DEF Keeping, TakenUp
      <3> QED BY <1>5, <3>3 DEF TakenUp
    <2> QED BY <2>8, <2>9, <2>10 DEF Keeping
  <1>11. ASSUME NEW m \in Msg, DecideOne(a, m) PROVE Keeping'
    <2> DEFINE l == [wk[a] EXCEPT !.todo = @ \ {m}]
    <2>1. /\ wk[a].pc = "decide" /\ m \in wk[a].todo /\ wk' = [wk EXCEPT ![a] = AfterDecide(l)] /\ UNCHANGED <<mailVars, trusted>>
          /\ l.pc = "decide" /\ "pc" \in DOMAIN l /\ l.todo = wk[a].todo \ {m} /\ l.action = wk[a].action /\ l.keep = wk[a].keep
      BY <1>1, <1>11 DEF DecideOne, At, Local
    <2>2. held' = [held EXCEPT ![m].decision = wk[a].action, ![m].released = @ \/ wk[a].action # "block"]
      BY <1>11 DEF DecideOne
    <2> HIDE DEF l
    <2>3. wk'[a] = AfterDecide(l)
      BY <1>3, <2>1
    <2>4. /\ AfterDecide(l).pc \in {"decide", "rule", "vouch"}
          /\ AfterDecide(l).pc = "decide" => AfterDecide(l) = l
      BY <2>1 DEF AfterDecide
    <2>5. /\ Pending(wk'[a]) \subseteq wk[a].todo \ {m} /\ Pending(wk[a]) = wk[a].todo
          /\ Passed(wk'[a]) = {} /\ Moving(wk'[a]) = {}
      BY <2>1, <2>3, <2>4 DEF Pending, Passed, Moving
    <2>6. \A n \in Msg : /\ OnHold(n)' => OnHold(n)
                         /\ OnHold(n) => OnHold(n)' \/ (n = m /\ wk[a].action # "block")
      BY <1>1, <2>2 DEF OnHold, Record
    <2>7. InFolder'
      <3>1. wk[a].action # "block" => "Held" \notin place[m]
        BY <2>1, <2>5 DEF Keeping, TakenUp
      <3>2. \A n \in Msg, b \in Actor : wk[b].pc = "record" /\ n \in wk[b].todo => wk'[b].pc = "record" /\ n \in wk'[b].todo
        BY <1>2, <2>1
      <3> QED BY <2>1, <2>6, <3>1, <3>2 DEF Keeping, InFolder
    <2>8. LookedUp'
      BY <1>2, <1>5, <2>3, <2>4, <2>5, <2>6 DEF Keeping, LookedUp
    <2>9. TakenUp'
      <3>1. \A s : Freeing(s) => Freeing(s)'
        BY <1>2, <2>1 DEF Freeing
      <3>2. \A b \in Actor : Moving(wk'[b]) \subseteq Moving(wk[b]) /\ Pending(wk'[b]) \subseteq Pending(wk[b])
        BY <1>2, <2>5
      <3>3. ASSUME NEW d \in Actor, NEW n \in Pending(wk'[d])
            PROVE  /\ FromOf[n] \in trusted' \/ OnHold(n)' \/ Freeing(FromOf[n])'
                   /\ \A b \in Actor : n \notin Moving(wk'[b])
                   /\ \A e \in Actor : n \in Pending(wk'[e]) => e = d
                   /\ wk'[d].pc = "decide" /\ wk'[d].action # "block" => "Held" \notin place'[n]
        <4>1. n \in Pending(wk[d]) /\ n \in Msg
          BY <1>5, <3>2
        <4>2. n # m
          <5>1. d = a => n # m
            BY <2>5
          <5>2. d # a => n # m
            BY <2>1, <2>5, <4>1 DEF Keeping, TakenUp
          <5> QED BY <5>1, <5>2
        <4>3. wk'[d].pc = "decide" /\ wk'[d].action # "block" => wk[d].pc = "decide" /\ wk[d].action # "block"
          BY <1>2, <2>1, <2>3, <2>4
        <4> QED BY <2>1, <2>6, <3>1, <3>2, <4>1, <4>2, <4>3 DEF Keeping, TakenUp
      <3> QED BY <1>5, <3>3 DEF TakenUp
    <2> QED BY <2>7, <2>8, <2>9 DEF Keeping
  <1>12. CASE Vouch(a)
    <2>1. Goto(a, IF wk[a].action = "feed" THEN "rule" ELSE "note", wk[a]) /\ wk[a].pc = "vouch"
      BY <1>12 DEF Vouch, At
    <2>2. wk'[a].pc \in {"rule", "note"}
      BY <1>1, <2>1, GoesTo DEF Local
    <2>3. UNCHANGED <<place, held>> /\ trusted \subseteq trusted'
      BY <1>12 DEF Vouch
    <2> QED BY <1>7, <2>1, <2>2, <2>3 DEF Deciding
  <1>13. CASE MakeRule(a)
    <2>1. wk' = [wk EXCEPT ![a] = Outcome(wk[a])] \/ Goto(a, "note", wk[a])
      BY <1>13 DEF MakeRule
    <2>2. wk'[a].pc \in {"idle", "use", "note"}
      <3>1. CASE wk' = [wk EXCEPT ![a] = Outcome(wk[a])]
        BY <1>3, <1>6, <3>1
      <3>2. CASE Goto(a, "note", wk[a])
        BY <1>1, <3>2, GoesTo DEF Local
      <3> QED BY <2>1, <3>1, <3>2
    <2> QED BY <1>7, <1>13, <2>2 DEF MakeRule, At, Deciding
  <1>14. CASE Note(a)
    <2>1. wk'[a].pc \in {"idle", "use"}
      BY <1>3, <1>6, <1>14 DEF Note
    <2> QED BY <1>7, <1>14, <2>1 DEF Note, At, Deciding
  <1> QED BY <1>8, <1>9, <1>10, <1>11, <1>12, <1>13, <1>14 DEF Decide

\* Digests, replies and actors that stop: nothing is taken up or held.
LEMMA OtherKeeps ==
    ASSUME Inv, Keeping, NEW a \in Actor, Clear',
           \/ EndRun(a) \/ Digest(a) \/ StartTick(a) \/ Tick(a) \/ Stop(a)
           \/ \E s \in Sender, action \in Action : StartScreen(a, s, action)
    PROVE  Keeping'
  <1> USE DEF mailVars, rowVars, digestVars, pastVars
  <1>1. /\ \A b \in Actor \ {a} : wk'[b] = wk[b]
        /\ wk'[a].pc \in {"carry", "decide"} => HeldOf(a) \/ Carry(a) \/ CarryFails(a) \/ \E m \in Msg : DecideOne(a, m)
        /\ wk'[a].pc \in RunPlace => StartRun(a) \/ Run(a)
    BY Leads DEF Does
  <1>2. UNCHANGED place /\ trusted \subseteq trusted' /\ \A m \in Msg : OnHold(m)' <=> OnHold(m)
    <2>1. CASE MarkDigested(a)
      <3>1. \A m \in DOMAIN held : held[m] \in Record
        BY DEF Inv, Tables
      <3> QED BY <2>1, <3>1 DEF MarkDigested, OnHold, Record
    <2>2. CASE ~MarkDigested(a)
      <3>1. UNCHANGED <<place, held, trusted>>
        <4>1. CASE EndRun(a) \/ Digest(a)
          BY <2>2, <4>1 DEF EndRun, Digest, Collect, Number, AppendDigest, StoreDigest, LogDigest
        <4>2. CASE StartTick(a) \/ Tick(a)
          BY <4>2 DEF StartTick, Tick, TakeReply, UseToken, Answer
        <4>3. CASE Stop(a) \/ \E s \in Sender, action \in Action : StartScreen(a, s, action)
          BY <4>3 DEF Stop, StartScreen
        <4> QED BY <4>1, <4>2, <4>3
      <3> QED BY <3>1 DEF OnHold
    <2> QED BY <2>1, <2>2
  <1>3. wk[a].pc \notin {"trust", "record"} /\ wk'[a].pc \notin RunPlace \cup {"carry", "decide"}
    <2>1. CASE Stop(a)
      <3>1. wk[a].pc \notin {"trust", "record"}
        BY <2>1 DEF Stop, Exposed, Clear
      <3>2. wk'[a].pc \in {"idle", "due", "use", "answered", "reply"}
        BY <2>1, StopLeads
      <3> QED BY <3>1, <3>2 DEF RunPlace, Searching
    <2>2. CASE EndRun(a) \/ Digest(a)
      BY <2>2, DigestLeads DEF DigestPlace, RunPlace, Searching
    <2>3. CASE StartTick(a) \/ Tick(a) \/ \E s \in Sender, action \in Action : StartScreen(a, s, action)
      <3>1. wk[a].pc \in {"idle", "reply", "use", "answered"}
        BY <2>3 DEF StartTick, Tick, TakeReply, UseToken, Answer, StartScreen, At
      <3>2. ~(HeldOf(a) \/ Carry(a) \/ CarryFails(a) \/ \E m \in Msg : DecideOne(a, m))
        BY <3>1 DEF HeldOf, Carry, CarryFails, DecideOne, At
      <3>3. wk'[a].pc \in ScreenPlace \cup {"idle"}
        BY <2>3, ScreenLeads
      <3> QED BY <1>1, <3>1, <3>2, <3>3 DEF ScreenPlace, Deciding, RunPlace, Searching
    <2> QED BY <2>1, <2>2, <2>3
  <1>4. Passed(wk'[a]) = {} /\ Moving(wk'[a]) = {} /\ Pending(wk'[a]) = {}
    BY <1>3 DEF Passed, Moving, Pending, RunPlace, Searching
  <1> QED BY <1>1, <1>2, <1>3, <1>4, KeepsOn DEF RunPlace, Searching

\* The owner puts no mail into the folder.
LEMMA OwnerKeeps == ASSUME Inv, Keeping, Owner PROVE Keeping'
  <1> USE DEF mailVars, rowVars, digestVars, pastVars
  <1>1. UNCHANGED <<held, trusted, wk>>
    BY DEF Owner, Deliver, DeliverCopy, MoveBack, Reply, DeleteRule, NewDay
  <1>2. \A m \in Msg : "Held" \in place'[m] => "Held" \in place[m]
    <2>1. place \in [Msg -> SUBSET Folder]
      BY DEF Inv, Tables
    <2>2. ASSUME NEW n \in Msg, Deliver(n) \/ DeliverCopy(n) PROVE \A m \in Msg : "Held" \in place'[m] => "Held" \in place[m]
      BY <2>1, <2>2 DEF Deliver, DeliverCopy
    <2>3. ASSUME NEW n \in Msg, NEW f \in Folder, MoveBack(n, f) PROVE \A m \in Msg : "Held" \in place'[m] => "Held" \in place[m]
      BY <2>1, <2>3 DEF MoveBack, Moved
    <2>4. ASSUME UNCHANGED place PROVE \A m \in Msg : "Held" \in place'[m] => "Held" \in place[m]
      BY <2>4
    <2>5. \/ \E n \in Msg : Deliver(n) \/ DeliverCopy(n)
          \/ \E n \in Msg, f \in Folder : MoveBack(n, f)
          \/ UNCHANGED place
      BY DEF Owner, Reply, DeleteRule, NewDay
    <2> QED BY <2>2, <2>3, <2>4, <2>5
  <1>3. \A m \in Msg : OnHold(m)' <=> OnHold(m)
    BY <1>1 DEF OnHold
  <1>4. \A b \in Actor : /\ Passed(wk[b])' = Passed(wk[b]) /\ Moving(wk[b])' = Moving(wk[b])
                         /\ Pending(wk[b])' = Pending(wk[b])
                         /\ Passed(wk[b]) \subseteq Msg /\ Pending(wk[b]) \subseteq Msg
    BY <1>1 DEF Passed, Moving, Pending, Inv, Actors, Local
  <1>5. \A s : Freeing(s) => Freeing(s)'
    BY <1>1 DEF Freeing
  <1>6. InFolder'
    BY <1>1, <1>2, <1>3 DEF Keeping, InFolder
  <1>7. LookedUp'
    BY <1>1, <1>3, <1>4 DEF Keeping, LookedUp
  <1>8. TakenUp'
    BY <1>1, <1>2, <1>3, <1>4, <1>5 DEF Keeping, TakenUp
  <1> QED BY <1>6, <1>7, <1>8 DEF Keeping

\* Every step keeps it.
LEMMA KeepStep ==
    ASSUME Inv, Apart, Fair => Trusting, Clear => Keeping, [Next]_vars
    PROVE  (Clear => Keeping)'
  <1> SUFFICES ASSUME Clear' PROVE Keeping'
    OBVIOUS
  <1> USE DEF mailVars, rowVars, digestVars, pastVars
  <1>1. CASE UNCHANGED vars
    <2>1. UNCHANGED <<marred, place, held, trusted, wk>>
      BY <1>1 DEF vars
    <2>2. Keeping
      BY <2>1 DEF Clear
    <2> QED BY <2>1, <2>2 DEF Keeping, InFolder, LookedUp, TakenUp, OnHold, Freeing, Passed, Moving, Pending
  <1>2. marred \subseteq marred' => Clear /\ Fair
    BY DEF Clear, Fair
  <1>3. CASE Owner
    <2>1. marred \subseteq marred'
      BY <1>3 DEF Owner, Deliver, DeliverCopy, MoveBack, Reply, DeleteRule, NewDay
    <2> QED BY <1>2, <1>3, <2>1, OwnerKeeps
  <1>4. ASSUME NEW a \in Actor, StartRun(a) \/ Run(a) PROVE Keeping'
    <2>1. marred \subseteq marred'
      BY <1>4 DEF StartRun, Run, FreeOne, Trust, JudgeOne, HoldMail, RecordOne
    <2> QED BY <1>2, <1>4, <2>1, RunKeeps
  <1>5. ASSUME NEW a \in Actor, Decide(a) PROVE Keeping'
    <2>1. marred \subseteq marred'
      BY <1>5 DEF Decide, HeldOf, Carry, CarryFails, DecideOne, Vouch, MakeRule, Note
    <2> QED BY <1>2, <1>5, <2>1, DecideKeeps
  <1>6. ASSUME NEW a \in Actor, EndRun(a) \/ Digest(a) PROVE Keeping'
    <2>1. marred \subseteq marred'
      BY <1>6 DEF EndRun, Digest, Collect, Number, AppendDigest, MarkDigested, StoreDigest, LogDigest
    <2> QED BY <1>2, <1>6, <2>1, OtherKeeps
  <1>7. ASSUME NEW a \in Actor, StartTick(a) \/ Tick(a) PROVE Keeping'
    <2>1. marred \subseteq marred'
      BY <1>7 DEF StartTick, Tick, TakeReply, UseToken, Answer
    <2> QED BY <1>2, <1>7, <2>1, OtherKeeps
  <1>8. ASSUME NEW a \in Actor, Stop(a) \/ \E s \in Sender, action \in Action : StartScreen(a, s, action) PROVE Keeping'
    <2>1. marred \subseteq marred'
      BY <1>8 DEF Stop, StartScreen
    <2> QED BY <1>2, <1>8, <2>1, OtherKeeps
  <1> QED BY <1>1, <1>3, <1>4, <1>5, <1>6, <1>7, <1>8 DEF Next

\* Everything that is inductive together.
Agreeing ==
    /\ Inv /\ Apart
    /\ Fair => Trusting
    /\ Settled => Releasing
    /\ "overlap" \notin marred => Listing
    /\ Clear => Keeping

\* Nobody is at work and nothing recorded.
LEMMA InitAgrees == ASSUME Init PROVE Agreeing
  <1>1. held = <<>> /\ DOMAIN held = {} /\ wk = [a \in Actor |-> Idle] /\ \A m \in Msg : place[m] = {}
    BY DEF Init
  <1>2. Idle.pc = "idle"
    BY DEF Idle
  <1>3. Apart
    BY <1>1, <1>2 DEF Apart, RunPlace, Searching, DigestPlace, ScreenPlace, Deciding, Actor
  <1>4. Releasing
    BY <1>1 DEF Releasing
  <1>5. Listing
    BY <1>1, <1>2 DEF Listing
  <1>6. InFolder
    BY <1>1 DEF InFolder
  <1>7. LookedUp /\ TakenUp
    <2>1. Passed(Idle) = {} /\ Pending(Idle) = {}
      BY <1>2 DEF Passed, Pending
    <2> QED BY <1>1, <1>2, <2>1 DEF LookedUp, TakenUp
  <1> QED BY <1>3, <1>4, <1>5, <1>6, <1>7, InitInv, InitTrusts DEF Agreeing, Keeping

\* The held mail, the records and the trusted senders agree: mail in the
\* holding folder has an unreleased record (HoldMail, RecordOne, Carry), a
\* released record's sender is trusted (released, applyScreen) and a record is
\* marked as digested only once a digest has listed it (sendHoldDigest), each
\* unless what its definition names has come between.
THEOREM RecordsAgreeAlways == Spec => []RecordsAgree
  <1>1. Agreeing /\ [Next]_vars => Agreeing'
    BY Step, ApartStep, TrustStep, ReleaseStep, ListingStep, KeepStep DEF Agreeing
  <1>2. Agreeing => HeldIsRecorded
    BY DEF Agreeing, Clear, Keeping, InFolder, OnHold, HeldIsRecorded, AtRest, At
  <1>3. Agreeing => ReleasedIsTrusted
    BY DEF Agreeing, Settled, Releasing, Known, Vouching, ReleasedIsTrusted, AtRest, At
  <1>4. Agreeing => MarkedIsListed
    BY DEF Agreeing, Listing, Listed, MarkedIsListed
  <1>5. Agreeing => RecordsAgree
    BY <1>2, <1>3, <1>4 DEF RecordsAgree
  <1> QED BY <1>1, <1>5, InitAgrees, PTL DEF Spec
=============================================================================
