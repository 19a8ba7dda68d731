-------------------------------- MODULE Holds --------------------------------
(***************************************************************************)
(* The new-sender hold of one account and everything that ends one:        *)
(* the rule run that parks mail and notices mail moved back                *)
(* (internal/service/rules.go, newsender.go), the daily digest             *)
(* (digest.go), the screener's decisions (screener.go) and the replies to  *)
(* a digest that carry them (screenmail.go, token mode).                   *)
(*                                                                         *)
(* A runner is a process executing RunActiveRules (the hourly run-rules    *)
(* job, or run_rules inside serve); a decider executes Screen, for a tool  *)
(* call, a terminal or a reply.  They share the mailbox and the state      *)
(* database and nothing orders them: every IMAP command and every SQL      *)
(* statement that changes something is a step of its own.                  *)
(*                                                                         *)
(* Data: mail is known by its Message-ID, what its headers score is a      *)
(* constant, a reply holds one command, and time is a day number.  Within  *)
(* the days modelled no record reaches its 90-day retention.               *)
(***************************************************************************)
EXTENDS Naturals, Sequences, FiniteSets

CONSTANTS
    Runner, Decider,  \* processes that run the rules, that decide senders
    Msg,              \* mail from first-time senders
    Sender, FromOf,   \* its senders: [Msg -> Sender]
    DomainOf,         \* [Sender -> a domain]
    Freemail,         \* the freemailDomains among them
    Bulk, Unsure,     \* mail that scores holdScore; mail the models decide
    MaxEvent,         \* bound on copies, the owner's moves, calls, replies
                      \* and deletions, and processes or statements that fail
    MaxDay            \* the last day

ASSUME HoldsAssumption ==
    /\ Runner \cap Decider = {}
    /\ FromOf \in [Msg -> Sender]
    /\ Sender \subseteq DOMAIN DomainOf
    /\ Bulk \cap Unsure = {}
    /\ IsFiniteSet(Msg)
    /\ MaxEvent \in Nat /\ MaxDay \in Nat \ {0}

Actor == Runner \cup Decider
Action == {"approve", "feed", "block"}
Folder == {"INBOX", "Held", "Feed", "Trash"}

VARIABLES
    place,    \* server: the folders in which a copy of the mail is
    uid,      \* server: how often the mail has come into INBOX
    held,     \* held_messages: Msg -> record, for the mail with one
    trusted,  \* senders.trusted
    names,    \* rules.name of the rules the screener has made
    decided,  \* screen_decisions: sender and action
    sent,     \* server: the digests APPENDed that list held mail, its numbers
    digests,  \* screen_digests, oldest first: the mail, and used_at
    log,      \* digest_log.sent_at: a day, 0 for never
    replies,  \* server: the replies in INBOX
    handled,  \* screen_replies: the replies dealt with
    day,      \* the clock
    wk,       \* each actor's locals
    asked,    \* history: decisions the owner asked for
    back,     \* history: senders of mail the owner moved back
    marred,   \* history: where an actor stopped between two writes,
              \* "overlap" if two runs met, "together" if two decisions
              \* took up the same mail, "copy" if mail came twice
    used      \* how many bounded events have happened

mailVars == <<place, uid>>
rowVars == <<held, trusted, names, decided>>
digestVars == <<sent, digests, log, replies, handled, day>>
pastVars == <<asked, back, marred, used>>
vars == <<mailVars, rowVars, digestVars, wk, pastVars>>

PC == {"idle", "free", "trust", "judge", "move", "record", "due", "number",
       "append", "mark", "store", "log", "held", "carry", "decide", "vouch",
       "rule", "note", "reply", "use", "answered"}

\* A held_messages row; digested_at is a day, 0 for NULL.
Record == [released : BOOLEAN, digested : Nat,
           decision : Action \cup {"none"}]
NewRecord == [released |-> FALSE, digested |-> 0, decision |-> "none"]

\* A row that held_senders lists and Screen decides.
Undecided(m) == /\ m \in DOMAIN held
                /\ ~held[m].released /\ held[m].decision = "none"
HeldSenders == {FromOf[m] : m \in {n \in Msg : Undecided(n)}}

\* The locals of applyRule, sendHoldDigest, Screen and ScreenReplyTick: the
\* UIDs found (of now and still to go through), the sender just seen moved
\* back, releasedBy, the mail to hold; the digest's numbering; a decision;
\* the reply, the unread replies and the digest of a tick.
NoOne == "none"
Idle == [pc |-> "idle", uids |-> <<>>, todo |-> {}, from |-> NoOne,
         freed |-> {}, keep |-> {}, list |-> {}, nums |-> <<>>, mail |-> 0,
         action |-> NoOne, target |-> NoOne, reply |-> 0, inbox |-> {},
         row |-> 0, spent |-> FALSE]

Init ==
    /\ place = [m \in Msg |-> {}]
    /\ uid = [m \in Msg |-> 0]
    /\ held = <<>>
    /\ trusted = {}
    /\ names = {}
    /\ decided = {}
    /\ sent = <<>>
    /\ digests = <<>>
    /\ log = 0
    /\ replies = <<>>
    /\ handled = {}
    /\ day = 1
    /\ wk = [a \in Actor |-> Idle]
    /\ asked = {}
    /\ back = {}
    /\ marred = {}
    /\ used = 0

Spend == used < MaxEvent /\ used' = used + 1

Goto(a, pc, more) == wk' = [wk EXCEPT ![a] = [more EXCEPT !.pc = pc]]
At(a, pc) == wk[a].pc = pc

\* Between two writes that belong together.
Exposed == {"trust", "record", "decide", "vouch", "rule", "note"}

-------------------------------------------------------------------------------
(* The mailbox and its owner (external). *)

\* Mail comes into INBOX by delivery or by a move: under a new UID.
Arrive(S) == uid' = [m \in Msg |-> IF m \in S THEN uid[m] + 1 ELSE uid[m]]
Moved(S, from, to) ==
    place' = [m \in Msg |-> IF m \in S THEN (place[m] \ {from}) \cup {to}
                            ELSE place[m]]

Deliver(m) ==
    /\ uid[m] = 0
    /\ place' = [place EXCEPT ![m] = {"INBOX"}]
    /\ Arrive({m})
    /\ UNCHANGED <<rowVars, digestVars, wk, pastVars>>

\* The same mail once more, by way of a list or a second address.
DeliverCopy(m) ==
    /\ uid[m] > 0 /\ "INBOX" \notin place[m]
    /\ Spend
    /\ place' = [place EXCEPT ![m] = @ \cup {"INBOX"}]
    /\ Arrive({m})
    /\ marred' = marred \cup {"copy"}
    /\ UNCHANGED <<rowVars, digestVars, wk, asked, back>>

\* The owner moves a mail back to the inbox.
MoveBack(m, folder) ==
    /\ folder \in place[m] \cap {"Held", "Trash"}
    /\ Spend
    /\ Moved({m}, folder, "INBOX")
    /\ Arrive({m})
    /\ back' = back \cup {FromOf[m]}
    /\ UNCHANGED <<rowVars, digestVars, wk, asked, marred>>

\* The owner answers the i-th digest: a command for one of its numbers.
\* good: sent by the owner, signed and with the digest's token.
Reply(i, n, action, good) ==
    /\ Spend
    /\ replies' = Append(replies, [mail |-> i, number |-> n,
                                   action |-> action, good |-> good])
    /\ asked' = IF good THEN asked \cup {<<sent[i].nums[n], action>>}
                ELSE asked
    /\ UNCHANGED <<mailVars, rowVars, sent, digests, log, handled, day, wk,
                   back, marred>>

DeleteRule(name) ==
    /\ Spend
    /\ names' = names \ {name}
    /\ UNCHANGED <<mailVars, held, trusted, decided, digestVars, wk, asked,
                   back, marred>>

NewDay ==
    /\ day < MaxDay
    /\ day' = day + 1
    /\ UNCHANGED <<mailVars, rowVars, sent, digests, log, replies, handled, wk,
                   pastVars>>

-------------------------------------------------------------------------------
(* applyRule on the new_sender rule: search, release, judge, move, record. *)

\* What follows a turn of the loops over the mail in todo.
Due == [Idle EXCEPT !.pc = "due"]
AfterFree(l) == IF l.todo # {} THEN [l EXCEPT !.pc = "free"]
                ELSE [l EXCEPT !.pc = "judge", !.todo = DOMAIN l.uids]
AfterJudge(l) == IF l.todo # {} THEN l
                 ELSE IF l.keep = {} THEN Due ELSE [l EXCEPT !.pc = "move"]
AfterRecord(l) == IF l.todo # {} THEN l ELSE Due
\* Faulty variant of AfterDecide: every decision vouches for the sender.
AfterDecideVouch(l) == IF l.todo # {} THEN l ELSE [l EXCEPT !.pc = "vouch"]
AfterDecide(l) ==
    IF l.todo # {} THEN l
    ELSE [l EXCEPT !.pc = IF l.action = "block" THEN "rule" ELSE "vouch"]

\* SELECT INBOX, UID SEARCH and the FETCH of the headers.
StartRun(a) ==
    /\ a \in Runner /\ At(a, "idle")
    /\ marred' = IF \A b \in Runner : At(b, "idle") THEN marred
                 ELSE marred \cup {"overlap"}
    /\ LET found == {m \in Msg : "INBOX" \in place[m]}
       IN wk' = [wk EXCEPT ![a] = IF found = {} THEN Due ELSE
                  [Idle EXCEPT !.pc = "free", !.todo = found,
                               !.uids = [m \in found |-> uid[m]]]]
    /\ UNCHANGED <<mailVars, rowVars, digestVars, asked, back, used>>

\* released: a mail on hold that is found here was moved back.
FreeOne(a, m) ==
    /\ At(a, "free") /\ m \in wk[a].todo
    /\ LET l == [wk[a] EXCEPT !.todo = @ \ {m}]
       IN IF m \in DOMAIN held /\ ~held[m].released
          THEN /\ held' = [held EXCEPT ![m].released = TRUE]
               /\ Goto(a, "trust", [l EXCEPT !.from = FromOf[m]])
          ELSE /\ wk' = [wk EXCEPT ![a] = AfterFree(l)]
               /\ UNCHANGED held
    /\ UNCHANGED <<mailVars, trusted, names, decided, digestVars, pastVars>>

\* Its sender is trusted, and skipped in this run.
Trust(a) ==
    /\ At(a, "trust")
    /\ trusted' = trusted \cup {wk[a].from}
    /\ wk' = [wk EXCEPT ![a] = AfterFree([wk[a] EXCEPT !.from = NoOne,
                                     !.freed = @ \cup {wk[a].from}])]
    /\ UNCHANGED <<mailVars, held, names, decided, digestVars, pastVars>>

\* isNew: no trusted sender at the address, or at its domain unless shared.
Peers(s) == IF DomainOf[s] \in Freemail THEN {s}
            ELSE {t \in Sender : DomainOf[t] = DomainOf[s]}
IsNew(s) == Peers(s) \cap trusted = {}

\* The second pass of filter: releasedBy, isNew and judge.
JudgeOne(a, m) ==
    /\ At(a, "judge") /\ m \in wk[a].todo
    /\ LET suspect == FromOf[m] \notin wk[a].freed /\ IsNew(FromOf[m])
       IN \E hold \in BOOLEAN :
            /\ hold => suspect /\ m \in Bulk \cup Unsure
            /\ suspect /\ m \in Bulk => hold
            /\ wk' = [wk EXCEPT ![a] = AfterJudge([wk[a] EXCEPT !.todo = @ \ {m},
                     !.keep = IF hold THEN @ \cup {m} ELSE @])]
    /\ UNCHANGED <<mailVars, rowVars, digestVars, pastVars>>

\* MOVE of the UIDs found: mail that has left INBOX since is not touched.
HoldMail(a) ==
    /\ At(a, "move")
    /\ Moved({m \in wk[a].keep : /\ "INBOX" \in place[m]
                                 /\ uid[m] = wk[a].uids[m]}, "INBOX", "Held")
    /\ Goto(a, "record", [wk[a] EXCEPT !.todo = wk[a].keep])
    /\ UNCHANGED <<uid, rowVars, digestVars, pastVars>>

\* Faulty variant of RecordRow: on conflict, do nothing.
RecordRowOnce(m) == IF m \in DOMAIN held THEN held[m] ELSE NewRecord

\* record: INSERT, or on conflict reset released_at and digested_at.
RecordRow(m) ==
    IF m \in DOMAIN held
    THEN [held[m] EXCEPT !.released = FALSE, !.digested = 0]
    ELSE NewRecord
RecordOne(a, m) ==
    /\ At(a, "record") /\ m \in wk[a].todo
    /\ held' = [n \in DOMAIN held \cup {m} |->
                  IF n = m THEN RecordRow(m) ELSE held[n]]
    /\ wk' = [wk EXCEPT ![a] = AfterRecord([wk[a] EXCEPT !.todo = @ \ {m}])]
    /\ UNCHANGED <<mailVars, trusted, names, decided, digestVars, pastVars>>

\* A run of all rules goes on to the digests; this is a run of one rule, or
\* a digest that is off or not due yet at this hour.
EndRun(a) ==
    /\ At(a, "due")
    /\ Goto(a, "idle", Idle)
    /\ UNCHANGED <<mailVars, rowVars, digestVars, pastVars>>

-------------------------------------------------------------------------------
(* sendHoldDigests and sendHoldDigest. *)

\* max(digested_at) and digest_log: the day of the last digest.
SentOn(d) == log = d \/ \E m \in DOMAIN held : held[m].digested = d

\* What is held since the last digest.  A digest is also sent when only
\* conversations, suggestions or findings are to be reported (other).
Collect(a) ==
    /\ At(a, "due") /\ ~SentOn(day)
    /\ LET list == {m \in Msg : Undecided(m) /\ held[m].digested = 0}
       IN \E other \in BOOLEAN :
            /\ list # {} \/ other
            /\ Goto(a, IF list = {} THEN "append" ELSE "number",
                    [Idle EXCEPT !.list = list])
    /\ UNCHANGED <<mailVars, rowVars, digestVars, pastVars>>

\* HeldSenders: every undecided sender has a number.  held_at has whole
\* seconds: senders of one second come in any order.
Numberings(S) ==
    {f \in [1..Cardinality(S) -> S] : \A i, j \in DOMAIN f : f[i] = f[j] => i = j}
Number(a) ==
    /\ At(a, "number")
    /\ \E nums \in Numberings(HeldSenders) :
         Goto(a, "append", [wk[a] EXCEPT !.nums = nums])
    /\ UNCHANGED <<mailVars, rowVars, digestVars, pastVars>>

\* Variant: the digest is stored under another Message-ID than it was sent with.
AppendOtherId(a) ==
    /\ At(a, "append")
    /\ sent' = Append(sent, [list |-> wk[a].list, nums |-> wk[a].nums])
    /\ Goto(a, "mark", [wk[a] EXCEPT !.mail = Len(sent') + 1])
    /\ UNCHANGED <<mailVars, rowVars, digests, log, replies, handled, day,
                   pastVars>>

\* APPEND of the summary to INBOX.
AppendDigest(a) ==
    /\ At(a, "append")
    /\ sent' = IF wk[a].list = {} THEN sent
               ELSE Append(sent, [list |-> wk[a].list, nums |-> wk[a].nums])
    /\ Goto(a, "mark", [wk[a] EXCEPT !.mail = Len(sent')])
    /\ UNCHANGED <<mailVars, rowVars, digests, log, replies, handled, day,
                   pastVars>>

\* UPDATE held_messages SET digested_at, for every row not digested yet.
MarkDigested(a) ==
    /\ At(a, "mark")
    /\ held' = [m \in DOMAIN held |->
                  IF held[m].digested = 0 /\ ~held[m].released
                  THEN [held[m] EXCEPT !.digested = day] ELSE held[m]]
    /\ Goto(a, IF wk[a].nums = <<>> THEN "log" ELSE "store", wk[a])
    /\ UNCHANGED <<mailVars, trusted, names, decided, digestVars, pastVars>>

StoreDigest(a) ==
    /\ At(a, "store")
    /\ digests' = Append(digests, [mail |-> wk[a].mail, used |-> FALSE])
    /\ Goto(a, "log", wk[a])
    /\ UNCHANGED <<mailVars, rowVars, sent, log, replies, handled, day,
                   pastVars>>

LogDigest(a) ==
    /\ At(a, "log")
    /\ log' = day
    /\ Goto(a, "idle", Idle)
    /\ UNCHANGED <<mailVars, rowVars, sent, digests, replies, handled, day,
                   pastVars>>

-------------------------------------------------------------------------------
(* Screen and applyScreen, for one decision. *)

Destination(action) == CASE action = "approve" -> "INBOX"
                         [] action = "feed" -> "Feed"
                         [] action = "block" -> "Trash"

\* blockTarget: the domain, unless it is shared or has a correspondent.
BlockTarget(s) ==
    IF DomainOf[s] \in Freemail \/ (Peers(s) \ {s}) \cap trusted # {}
    THEN s ELSE DomainOf[s]

\* A call (screen_senders with confirm, REST, the terminal).
StartScreen(a, s, action) ==
    /\ a \in Decider /\ At(a, "idle")
    /\ Spend
    /\ asked' = asked \cup {<<s, action>>}
    /\ Goto(a, "held", [Idle EXCEPT !.from = s, !.action = action])
    /\ UNCHANGED <<mailVars, rowVars, digestVars, back, marred>>

\* Where a decision ends: a reply is then accounted for.
Outcome(l) == IF l.reply = 0 THEN Idle ELSE [l EXCEPT !.pc = "use"]

\* The mail that is to be decided and has not been yet.
Pending(l) == CASE l.pc = "carry" -> l.keep
                [] l.pc = "decide" -> l.todo
                [] OTHER -> {}

\* heldOf, and the rule the decision will make.
HeldOf(a) ==
    /\ At(a, "held")
    /\ LET l == wk[a]
           mine == {m \in Msg : Undecided(m) /\ FromOf[m] = l.from}
       IN /\ IF mine = {} THEN wk' = [wk EXCEPT ![a] = Outcome(l)]
             ELSE Goto(a, "carry", [l EXCEPT !.keep = mine,
                 !.target = IF l.action = "block" THEN BlockTarget(l.from)
                            ELSE l.from])
          /\ marred' = IF \A b \in Decider : Pending(wk[b]) \cap mine = {}
                       THEN marred ELSE marred \cup {"together"}
    /\ UNCHANGED <<mailVars, rowVars, digestVars, asked, back, used>>

\* moveByMessageID, from the holding folder to the decision's.
Carry(a) ==
    /\ At(a, "carry")
    /\ LET to == Destination(wk[a].action)
           there == {m \in wk[a].keep : "Held" \in place[m]}
       IN /\ Moved(there, "Held", to)
          /\ IF to = "INBOX" THEN Arrive(there) ELSE UNCHANGED uid
    /\ Goto(a, "decide", [wk[a] EXCEPT !.todo = wk[a].keep])
    /\ UNCHANGED <<rowVars, digestVars, pastVars>>

\* A failing SELECT is taken for a folder that is gone: nothing is moved, and
\* the mail is decided.
CarryFails(a) ==
    /\ At(a, "carry")
    /\ Spend
    /\ marred' = marred \cup {"carry"}
    /\ Goto(a, "decide", [wk[a] EXCEPT !.todo = wk[a].keep])
    /\ UNCHANGED <<mailVars, rowVars, digestVars, asked, back>>

\* UPDATE held_messages SET decision, and released_at for an approval.
DecideOne(a, m) ==
    /\ At(a, "decide") /\ m \in wk[a].todo
    /\ held' = [held EXCEPT ![m].decision = wk[a].action,
                            ![m].released = @ \/ wk[a].action # "block"]
    /\ wk' = [wk EXCEPT ![a] = AfterDecide([wk[a] EXCEPT !.todo = @ \ {m}])]
    /\ UNCHANGED <<mailVars, trusted, names, decided, digestVars, pastVars>>

Vouch(a) ==
    /\ At(a, "vouch")
    /\ trusted' = trusted \cup {wk[a].from}
    /\ Goto(a, IF wk[a].action = "feed" THEN "rule" ELSE "note", wk[a])
    /\ UNCHANGED <<mailVars, held, names, decided, digestVars, pastVars>>

\* CreateRule: the name says the action and what it matches, and is UNIQUE.
MakeRule(a) ==
    /\ At(a, "rule")
    /\ LET name == <<wk[a].action, wk[a].target>>
       IN IF name \in names
          THEN /\ wk' = [wk EXCEPT ![a] = Outcome(wk[a])]
               /\ UNCHANGED names
          ELSE /\ names' = names \cup {name}
               /\ Goto(a, "note", wk[a])
    /\ UNCHANGED <<mailVars, held, trusted, decided, digestVars, pastVars>>

\* INSERT INTO screen_decisions.
Note(a) ==
    /\ At(a, "note")
    /\ decided' = decided \cup {<<wk[a].from, wk[a].action>>}
    /\ wk' = [wk EXCEPT ![a] = Outcome(wk[a])]
    /\ UNCHANGED <<mailVars, held, trusted, names, digestVars, pastVars>>

-------------------------------------------------------------------------------
(* ScreenReplyTick. *)

\* latestScreenDigest, read once, and the replies now in INBOX.
StartTick(a) ==
    /\ a \in Decider /\ At(a, "idle")
    /\ digests # <<>> /\ DOMAIN replies \ handled # {}
    /\ Goto(a, "reply", [Idle EXCEPT !.row = Len(digests),
                                     !.spent = digests[Len(digests)].used,
                                     !.inbox = DOMAIN replies])
    /\ UNCHANGED <<mailVars, rowVars, digestVars, pastVars>>

NextReply(l) ==
    IF l.inbox = {} THEN Idle
    ELSE [Idle EXCEPT !.pc = "reply", !.inbox = l.inbox, !.row = l.row,
                      !.spent = l.spent]

\* Faulty variant of Accepted: a reply to any digest counts.
AcceptedAnyDigest(l, r) == ~l.spent /\ replies[r].good

\* screenReplyStatus.
Accepted(l, r) ==
    /\ replies[r].mail = digests[l.row].mail
    /\ ~l.spent
    /\ replies[r].good

\* The next reply: done before, rejected, or parsed with the digest's
\* numbers and decided.
TakeReply(a, r) ==
    /\ At(a, "reply") /\ r \in wk[a].inbox /\ \A q \in wk[a].inbox : r <= q
    /\ LET l == [wk[a] EXCEPT !.inbox = @ \ {r}, !.reply = r]
           nums == sent[digests[l.row].mail].nums
       IN IF r \in handled THEN wk' = [wk EXCEPT ![a] = NextReply(l)]
          ELSE IF Accepted(l, r) /\ replies[r].number \in DOMAIN nums
          THEN Goto(a, "held", [l EXCEPT !.from = nums[replies[r].number],
                                         !.action = replies[r].action])
          ELSE Goto(a, "answered", l)
    /\ UNCHANGED <<mailVars, rowVars, digestVars, pastVars>>

\* UPDATE screen_digests SET used_at.
UseToken(a) ==
    /\ At(a, "use")
    /\ digests' = [digests EXCEPT ![wk[a].row].used = TRUE]
    /\ Goto(a, "answered", wk[a])
    /\ UNCHANGED <<mailVars, rowVars, sent, log, replies, handled, day,
                   pastVars>>

\* INSERT INTO screen_replies, and the reply is marked answered.
Answer(a) ==
    /\ At(a, "answered")
    /\ handled' = handled \cup {wk[a].reply}
    /\ wk' = [wk EXCEPT ![a] = NextReply(wk[a])]
    /\ UNCHANGED <<mailVars, rowVars, sent, digests, log, replies, day,
                   pastVars>>

-------------------------------------------------------------------------------
\* What a failing command or statement skips: the rest of the rule, of the
\* decision, of Screen, of the bookkeeping of a reply, or of the digest.
AfterFailure(l) ==
    CASE l.pc \in {"free", "trust", "judge", "move", "record"} -> Due
      [] l.pc \in {"carry", "decide", "vouch", "rule", "note"} -> Outcome(l)
      [] l.pc \in {"held", "use"} /\ l.reply # 0 -> [l EXCEPT !.pc = "answered"]
      [] l.pc = "answered" -> NextReply(l)
      [] OTHER -> Idle

\* The process dies, or a command or statement fails: what was done stays.
Stop(a) ==
    /\ ~At(a, "idle")
    /\ Spend
    /\ marred' = marred \cup ({wk[a].pc} \cap Exposed)
    /\ \E l \in {Idle, AfterFailure(wk[a])} : wk' = [wk EXCEPT ![a] = l]
    /\ UNCHANGED <<mailVars, rowVars, digestVars, asked, back>>

Run(a) ==
    \/ \E m \in Msg : FreeOne(a, m) \/ JudgeOne(a, m) \/ RecordOne(a, m)
    \/ Trust(a) \/ HoldMail(a)

Digest(a) ==
    \/ Collect(a) \/ Number(a) \/ AppendDigest(a) \/ MarkDigested(a)
    \/ StoreDigest(a) \/ LogDigest(a)

Decide(a) ==
    \/ HeldOf(a) \/ Carry(a) \/ CarryFails(a) \/ Vouch(a) \/ MakeRule(a) \/ Note(a)
    \/ \E m \in Msg : DecideOne(a, m)

Tick(a) ==
    \/ \E r \in DOMAIN replies : TakeReply(a, r)
    \/ UseToken(a) \/ Answer(a)

Owner ==
    \/ \E m \in Msg : Deliver(m) \/ DeliverCopy(m)
    \/ \E m \in Msg, f \in Folder : MoveBack(m, f)
    \/ \E i \in DOMAIN sent, action \in Action :
         \E n \in DOMAIN sent[i].nums : Reply(i, n, action, TRUE)
    \/ \E i \in DOMAIN sent : Reply(i, 1, "approve", FALSE)
    \/ \E name \in names : DeleteRule(name)
    \/ NewDay

Next ==
    \/ Owner
    \/ \E a \in Actor :
         \/ StartRun(a) \/ Run(a) \/ EndRun(a) \/ Digest(a)
         \/ \E s \in Sender, action \in Action : StartScreen(a, s, action)
         \/ StartTick(a) \/ Decide(a) \/ Tick(a)
         \/ Stop(a)

Spec == Init /\ [][Next]_vars

-------------------------------------------------------------------------------
(* Properties. *)

AtRest == \A a \in Actor : At(a, "idle")

\* The type invariant: mailbox, tables and every actor's locals.
TypeOK ==
    /\ place \in [Msg -> SUBSET Folder] /\ uid \in [Msg -> Nat]
    /\ DOMAIN held \subseteq Msg
    /\ \A m \in DOMAIN held : held[m] \in Record
    /\ trusted \subseteq Sender
    /\ decided \subseteq Sender \X Action
    /\ \A i \in DOMAIN digests : /\ digests[i].mail \in DOMAIN sent
                                 /\ digests[i].used \in BOOLEAN
    /\ handled \subseteq DOMAIN replies
    /\ day \in 1..MaxDay /\ log \in 0..day
    /\ \A a \in Actor : /\ DOMAIN wk[a] = DOMAIN Idle
                        /\ wk[a].pc \in PC
                        /\ wk[a].keep \subseteq Msg

\* A sender is trusted only by the owner's doing: a decision to approve it, or
\* a mail of its own moved back (released and Vouch write senders.trusted).
\* A second copy of a mail on hold is taken for one that was moved back, and so
\* is mail another run has put on hold since this one searched the inbox.
TrustIsEarned ==
    marred \cap {"copy", "overlap"} = {} => \A s \in trusted :
        s \in back \/ <<s, "approve">> \in asked \/ <<s, "feed">> \in asked

\* A record is decided as the owner asked, by a call or by a number of the
\* very digest that was answered (ScreenReplyTick's gates and numbering).
DecidedAsAsked ==
    \A m \in DOMAIN held :
        held[m].decision # "none" => <<FromOf[m], held[m].decision>> \in asked

\* Mail in the holding folder has an unreleased record, without which moving
\* it back would trust nobody: unless a run stopped before it could record
\* what it had moved or trust whom it had released, the folder could not be
\* selected for a decision, a second copy came, or two runs or two decisions
\* on the same mail met.
HeldIsRecorded ==
    (marred \cap {"trust", "record", "carry", "copy", "overlap", "together"} = {}
     /\ AtRest) =>
        \A m \in Msg : "Held" \in place[m] =>
            m \in DOMAIN held /\ ~held[m].released

\* A released record's sender is trusted, by a run that found the mail moved
\* back or by an approval, so that no later run holds the sender's mail again.
ReleasedIsTrusted ==
    (marred \cap {"trust", "decide", "vouch"} = {} /\ AtRest) =>
        \A m \in DOMAIN held : held[m].released => FromOf[m] \in trusted

\* A record is marked as digested only if a digest listed it, or a decision
\* was made first (sendHoldDigest's last UPDATE has no list of its own): two
\* runs at once may mark what neither has listed.
MarkedIsListed ==
    "overlap" \notin marred =>
        \A m \in DOMAIN held :
            held[m].digested > 0 /\ held[m].decision = "none" =>
                \E i \in DOMAIN sent : m \in sent[i].list

\* The held mail, the records and the trusted senders agree, whatever ran at
\* the same time or ended early.
RecordsAgree == HeldIsRecorded /\ ReleasedIsTrusted /\ MarkedIsListed

\* Each applied decision is recorded (docs/screener.md): a block that has
\* decided the held mail is in screen_decisions once Screen has returned.
AppliedIsRecorded ==
    (marred = {} /\ AtRest) =>
        \A m \in DOMAIN held :
            held[m].decision # "none" => <<FromOf[m], held[m].decision>> \in decided

===============================================================================
