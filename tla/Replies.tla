------------------------------ MODULE Replies -------------------------------
(***************************************************************************)
(* Reply tracking (internal/service/replies.go) in one account.  The       *)
(* header scan keeps the latest message of every conversation in           *)
(* reply_threads; needs_reply reads the rows, looks each message up on the *)
(* server in batches and records the answered ones, while mail arrives,    *)
(* the scan goes on, and the owner answers and dismisses.                  *)
(***************************************************************************)
EXTENDS Integers, FiniteSets, Sequences

CONSTANTS
    Thread,         \* conversations
    Stories,        \* what may come: the conversation of each mail, numbered by date (of), the mail each
                    \* outgoing one answers (answers), invitations and forwards without a note (machine)
    Strangers,      \* conversations with senders the owner never wrote to
    Limit,          \* items asked for
    MaxRenumber     \* bound: UIDs given to other mail

\* Mail is numbered from 1; a request asks for one item at least (replies.go:103-106).
ParamAssumption ==
    /\ \A s \in Stories : s.of \in Seq(Thread) /\ DOMAIN s.answers \subseteq DOMAIN s.of
    /\ Limit \in Nat \ {0} /\ MaxRenumber \in Nat

VARIABLES
    story,      \* what comes into this mailbox
    arrived,    \* mail 1 .. arrived is in the mailbox
    flag,       \* mail marked \Answered on the server
    seen,       \* mail in intel_messages
    discarded,  \* mail the scan saw in a discard or hold folder
    row,        \* reply_threads: [Thread -> row]
    at,         \* [Mails -> the mail its stored folder and UID now name; 0: none]
    renumbered,
    req,        \* a needs_reply request
    misread     \* mail looked up where its UID named other mail

mailbox == <<story, arrived, flag, seen, discarded>>
places  == <<at, renumbered>>
repliesVars == <<mailbox, row, places, req, misread>>

Mails == DOMAIN story.of
Of(m) == story.of[m]
Outgoing(m) == m \in DOMAIN story.answers
NoRow == [last |-> 0, answered |-> FALSE, dismissed |-> 0]
NoReq == [step |-> "rest", todo |-> {}, batch |-> {}, hits |-> {}, drop |-> {}, items |-> {}, from |-> {}]

Init ==
    /\ story \in Stories
    /\ arrived = 0 /\ flag = {} /\ seen = {} /\ discarded = {}
    /\ row = [t \in Thread |-> NoRow] /\ at = [m \in Mails |-> m] /\ renumbered = 0
    /\ req = NoReq /\ misread = {}

-----------------------------------------------------------------------------
(* Mail, the owner, and the scan.                                          *)

Arrive ==
    /\ arrived + 1 \in Mails /\ arrived' = arrived + 1
    /\ UNCHANGED <<story, flag, seen, discarded, row, places, req, misread>>

\* The owner's client marks what it answers.
Answer(m) ==
    /\ m <= arrived /\ ~Outgoing(m) /\ m \notin flag /\ flag' = flag \cup {m}
    /\ UNCHANGED <<story, arrived, seen, discarded, row, places, req, misread>>

Discard(m) ==
    /\ m \in seen \ discarded /\ Of(m) \in Strangers /\ discarded' = discarded \cup {m}
    /\ UNCHANGED <<story, arrived, flag, seen, row, places, req, misread>>

\* store.thread: the same message again, or one of a later date.
AnsweredNow(r, m) == m \in flag \/ (r.last = m /\ r.answered)

See(m) ==
    LET r == row[Of(m)] IN
    /\ m <= arrived /\ seen' = seen \cup {m} /\ at' = [at EXCEPT ![m] = m]
    /\ row' = IF m >= r.last THEN [row EXCEPT ![Of(m)].last = m, ![Of(m)].answered = AnsweredNow(r, m)] ELSE row
    /\ <<seen, at, row>>' # <<seen, at, row>>
    /\ UNCHANGED <<story, arrived, flag, discarded, renumbered, req, misread>>

\* The server gives the mail's UID to another one, or to none.
Renumber(m, x) ==
    /\ renumbered < MaxRenumber /\ renumbered' = renumbered + 1
    /\ m \in seen /\ x # m /\ x <= arrived /\ at' = [at EXCEPT ![m] = x]
    /\ UNCHANGED <<mailbox, row, req, misread>>

\* DismissReply: whatever message the row holds by now.
DismissReply(t) ==
    /\ row[t].last # row[t].dismissed /\ row' = [row EXCEPT ![t].dismissed = row[t].last]
    /\ UNCHANGED <<mailbox, places, req, misread>>

-----------------------------------------------------------------------------
(* needs_reply: the rows, ...                                              *)

IndexedReply(m) == \E o \in seen : Outgoing(o) /\ story.answers[o] = m
Open(t) ==
    /\ row[t].last # 0 /\ ~Outgoing(row[t].last)
    /\ row[t].dismissed # row[t].last /\ ~row[t].answered
    /\ ~IndexedReply(row[t].last) /\ row[t].last \notin discarded

StartList ==
    LET found == {row[t].last : t \in {u \in Thread : Open(u)}} IN
    /\ req.step = "rest"
    /\ req' = [NoReq EXCEPT !.step = "take", !.todo = found, !.from = found]
    /\ UNCHANGED <<mailbox, row, places, misread>>

\* ... batches, oldest first, of as many as are still wanted, or of all that
\* is left: but of the first contacts only those the checks of verdict,
\* anomalies and headers pass at this moment, ...
OldestOf(S)     == {P \in SUBSET S : \A m \in P, k \in S : k <= m => k \in P}
Fits(P, passed) == {m \in P : Of(m) \in Strangers => m \in passed}
Full(P, passed) == P = req.todo \/ Cardinality(req.items) + Cardinality(Fits(P, passed)) >= Limit

NextBatch ==
    /\ req.step = "take"
    /\ \E passed \in SUBSET {m \in req.todo : Of(m) \in Strangers}, P \in OldestOf(req.todo) :
          /\ Full(P, passed) /\ \A Q \in OldestOf(req.todo) : Full(Q, passed) => P \subseteq Q
          /\ req' = [req EXCEPT !.step = "check", !.todo = @ \ P, !.batch = Fits(P, passed),
                                !.drop = @ \cup (P \ Fits(P, passed))]
    /\ UNCHANGED <<mailbox, row, places, misread>>

\* An invitation or a bare forward.
NotForReply(m) == m \in story.machine

\* ... each looked up on the server, if that can be reached, ...
Fetch(reached) ==
    LET there == {m \in req.batch : reached /\ at[m] # 0}
        hits  == {m \in there : at[m] \in flag} IN
    /\ req.step = "check"
    /\ req' = [req EXCEPT !.step = "record", !.hits = hits,
          !.drop = @ \cup hits \cup {m \in there : NotForReply(at[m])}
                      \cup {m \in req.batch \ there : Of(m) \in Strangers}]
    /\ misread' = misread \cup {m \in there : at[m] # m}
    /\ UNCHANGED <<mailbox, row, places>>

\* ... and the answered ones recorded, where the row still holds the message.
\* Variant: one batch and no more.
EnoughAtOnce(items) == TRUE
Enough(items) == Cardinality(items) >= Limit \/ req.todo = {}

Items == req.items \cup (req.batch \ req.drop)

Record ==
    /\ req.step = "record"
    /\ row' = [t \in Thread |-> [row[t] EXCEPT !.answered = @ \/ \E m \in req.hits : row[t].last = m]]
    /\ req' = IF Enough(Items) THEN NoReq ELSE [req EXCEPT !.batch = {}, !.hits = {}, !.items = Items, !.step = "take"]
    /\ UNCHANGED <<mailbox, places, misread>>

NeedsReply == StartList \/ NextBatch \/ (\E reached \in BOOLEAN : Fetch(reached)) \/ Record

Next ==
    \/ Arrive \/ NeedsReply
    \/ \E m \in Mails : Answer(m) \/ Discard(m) \/ See(m) \/ (\E x \in Mails \cup {0} : Renumber(m, x))
    \/ \E t \in Thread : DismissReply(t)

Spec == Init /\ [][Next]_repliesVars

-----------------------------------------------------------------------------
\* The tables and the request keep their types.
TypeOK ==
    /\ story \in Stories /\ arrived \in Mails \cup {0} /\ flag \cup seen \cup discarded \cup misread \subseteq Mails
    /\ \A t \in Thread : row[t].last = 0 \/ Of(row[t].last) = t
    /\ at \in [Mails -> Mails \cup {0}] /\ renumbered \in 0 .. MaxRenumber
    /\ req.step \in {"rest", "take", "check", "record"} /\ Cardinality(req.items) <= Limit

\* A conversation whose last message nobody answered stays open, whatever was
\* said of its earlier messages and however the request and the scan overlap;
\* only a UID that names other mail by now can close it (replies.go:552-558,
\* store.go:150-161, D33).
StaysOpen ==
    \A t \in Thread :
        LET m == row[t].last IN
        m # row[t].dismissed /\ ~Outgoing(m) /\ m \notin flag \cup discarded \cup misread /\ ~IndexedReply(m) => Open(t)

\* A list is as long as asked for, or short only because every open
\* conversation it left out was checked and dropped; and of those that wait the
\* older ones were taken first (replies.go:212-263).
AnswersInFull ==
    req.step = "record" /\ req'.step = "rest" =>
        /\ IF req.todo = {} THEN Items \cup req.drop = req.from /\ Cardinality(Items) <= Limit
           ELSE Cardinality(Items) = Limit
        /\ \A i \in Items, m \in req.todo : i < m
        /\ Items \cap req.drop = {}
FullList == [][AnswersInFull]_repliesVars
=============================================================================
