---------------------------- MODULE Unsubscribe -----------------------------
(***************************************************************************)
(* Unsubscribing (internal/service/unsubscribe.go and the unsubscribe      *)
(* package) in one account.  A dry run says what would be done; a          *)
(* confirmed call within an hour of one does it: one POST or one mail,     *)
(* then the sender's mail may be archived and the outcome is logged.       *)
(* Senders who go on mailing after the grace period are told of once, in   *)
(* the daily digest.                                                       *)
(***************************************************************************)
EXTENDS Integers, FiniteSets

CONSTANTS
    Letter,         \* mail in the folder, numbers: a newer one is larger
    Sender, From,   \* [Letter -> Sender]
    Https, OneClickHeader, Signed, MailtoURI,   \* letters with each part of a List-Unsubscribe
    Caller,         \* requests in flight
    Scopes,         \* callers whose token may send mail
    MaxDone,        \* bound: unsubscribes per sender that take effect
    MaxFaults       \* bound: failed statements and deaths

\* Requests come one by one, and every letter has a sender.
ParamAssumption ==
    /\ IsFiniteSet(Caller) /\ From \in [Letter -> Sender] /\ "" \notin Sender
    /\ MaxDone \in Nat /\ MaxFaults \in Nat

VARIABLES
    inbox,      \* letters in the folder
    named,      \* [UID, a number of Letter -> the letter it names]
    fresh,      \* senders with a dry_run row of the last hour
    latest,     \* the latest done or sent row of each sender
    call,       \* [Caller -> its request]
    digest,     \* senders a digest lists, their rows not yet marked
    shown,      \* senders a dry run was ever made for
    done,       \* [Sender -> POSTs and mails that took effect]
    logged,     \* [Sender -> done and sent rows]
    taken,      \* pairs: the sender an archive was for, a letter it moved
    shuffled,   \* a UID names another letter by now
    told,       \* [Sender -> digests that listed its latest row]
    faults

folder == <<inbox, named, shuffled>>
past   == <<shown, done, logged, taken, told>>
unsubscribeVars == <<folder, fresh, latest, call, digest, past, faults>>

Resting == [step |-> "rest", confirm |-> FALSE, sender |-> "", uids |-> {}, plan |-> "none", archive |-> FALSE, status |-> ""]
NoRow   == [stored |-> FALSE, reported |-> FALSE, late |-> FALSE]

Init ==
    /\ inbox = {} /\ named = [u \in Letter |-> u] /\ shuffled = FALSE
    /\ fresh = {} /\ latest = [s \in Sender |-> NoRow] /\ call = [c \in Caller |-> Resting] /\ digest = {}
    /\ shown = {} /\ done = [s \in Sender |-> 0] /\ logged = [s \in Sender |-> 0] /\ taken = {}
    /\ told = [s \in Sender |-> 0] /\ faults = 0

-----------------------------------------------------------------------------
(* Mail and time.                                                          *)

Arrive(m) ==
    /\ m \notin inbox /\ \A p \in taken : p[2] # m
    /\ inbox' = inbox \cup {m}
    /\ UNCHANGED <<named, shuffled, fresh, latest, call, digest, past, faults>>

\* The folder is renumbered: two UIDs change places.
Renumber(u, v) ==
    /\ ~shuffled /\ shuffled' = TRUE /\ u < v
    /\ named' = [named EXCEPT ![u] = named[v], ![v] = named[u]]
    /\ UNCHANGED <<inbox, fresh, latest, call, digest, past, faults>>

\* An hour has gone by since the dry run.
Expire(s) ==
    /\ s \in fresh /\ fresh' = fresh \ {s}
    /\ UNCHANGED <<folder, latest, call, digest, past, faults>>

\* The scan indexes mail dated after the grace period of the latest row.
MailAfterGrace(s) ==
    /\ latest[s].stored /\ ~latest[s].late /\ latest' = [latest EXCEPT ![s].late = TRUE]
    /\ UNCHANGED <<folder, fresh, call, digest, past, faults>>

-----------------------------------------------------------------------------
(* Analyze: one-click needs the URI, the header and a signature on both.   *)

Plan(m) ==
    IF m \in Https \cap OneClickHeader \cap Signed THEN "one-click"
    ELSE IF m \in MailtoURI THEN "mailto" ELSE "none"

\* unsubFind: the UIDs of the sender's mail, and its newest letter.
\* Variant: the search alone, which matches other senders' names as well.
Matching(s) == {u \in Letter : named[u] \in inbox}
Theirs(s) == {u \in Letter : named[u] \in inbox /\ From[named[u]] = s}
Newest(U) == CHOOSE u \in U : \A v \in U : v <= u

Find(c, s, confirm, archive) ==
    /\ call[c].step = "rest" /\ Theirs(s) # {}
    /\ call' = [call EXCEPT ![c] = [Resting EXCEPT !.step = IF confirm THEN "check" ELSE "dry", !.confirm = confirm, !.sender = s,
                    !.uids = Theirs(s), !.plan = Plan(named[Newest(Theirs(s))]), !.archive = archive]]
    /\ UNCHANGED <<folder, fresh, latest, digest, past, faults>>

DryRun(c) ==
    /\ call[c].step = "dry" /\ call' = [call EXCEPT ![c] = Resting]
    /\ fresh' = fresh \cup {call[c].sender} /\ shown' = shown \cup {call[c].sender}
    /\ UNCHANGED <<folder, latest, digest, done, logged, taken, told, faults>>

\* A confirmed call: there is a dry run for this sender in the last hour.
Check(c) ==
    /\ call[c].step = "check"
    /\ call' = IF call[c].sender \in fresh THEN [call EXCEPT ![c].step = "act"] ELSE [call EXCEPT ![c] = Resting]
    /\ UNCHANGED <<folder, fresh, latest, digest, past, faults>>

\* The POST or the mail; each may fail.  A mail needs the send scope.
Act(c, ok) ==
    LET s == call[c].sender
        effect == ok /\ (call[c].plan = "one-click" \/ (call[c].plan = "mailto" /\ c \in Scopes)) IN
    /\ call[c].step = "act" /\ (effect => done[s] < MaxDone)
    /\ done' = IF effect THEN [done EXCEPT ![s] = @ + 1] ELSE done
    /\ call' = IF call[c].plan = "mailto" /\ c \notin Scopes THEN [call EXCEPT ![c] = Resting]
               ELSE [call EXCEPT ![c].status = IF effect THEN "done" ELSE "failed",
                                 ![c].step = IF effect /\ call[c].archive THEN "archive" ELSE "record"]
    /\ UNCHANGED <<folder, fresh, latest, digest, shown, logged, taken, told, faults>>

\* unsubArchive: the UIDs found before, in the folder selected anew.  The
\* outcome is recorded whether the move succeeds or not.
Archive(c, ok) ==
    LET letters == {named[u] : u \in call[c].uids} \cap inbox IN
    /\ call[c].step = "archive"
    /\ inbox' = IF ok THEN inbox \ letters ELSE inbox
    /\ taken' = IF ok THEN taken \cup {<<call[c].sender, m>> : m \in letters} ELSE taken
    /\ call' = [call EXCEPT ![c].step = "record"]
    /\ UNCHANGED <<named, shuffled, fresh, latest, digest, shown, done, logged, told, faults>>

Record(c) ==
    LET s == call[c].sender
        success == call[c].status = "done" IN
    /\ call[c].step = "record" /\ call' = [call EXCEPT ![c] = Resting]
    /\ latest' = IF success THEN [latest EXCEPT ![s] = [NoRow EXCEPT !.stored = TRUE]] ELSE latest
    /\ logged' = IF success THEN [logged EXCEPT ![s] = @ + 1] ELSE logged
    /\ told' = IF success THEN [told EXCEPT ![s] = 0] ELSE told
    /\ digest' = IF success THEN digest \ {s} ELSE digest
    /\ UNCHANGED <<folder, fresh, shown, done, taken, faults>>

\* A failed statement or the death of the process ends a call, or a digest.
Fault ==
    /\ faults < MaxFaults /\ faults' = faults + 1
    /\ \/ \E c \in Caller : call[c].step # "rest" /\ call' = [call EXCEPT ![c] = Resting] /\ UNCHANGED digest
       \/ digest # {} /\ digest' = {} /\ UNCHANGED call
    /\ UNCHANGED <<folder, fresh, latest, past>>

-----------------------------------------------------------------------------
(* ignoredUnsubscribes and the digest.                                     *)

Ignored == {s \in Sender : latest[s].late /\ ~latest[s].reported}

SendDigest ==
    /\ digest = {} /\ Ignored # {} /\ digest' = Ignored
    /\ told' = [s \in Sender |-> IF s \in Ignored /\ told[s] < 2 THEN told[s] + 1 ELSE told[s]]
    /\ UNCHANGED <<folder, fresh, latest, call, shown, done, logged, taken, faults>>

\* markIgnoredReported
MarkReported ==
    /\ digest # {} /\ digest' = {}
    /\ latest' = [s \in Sender |-> IF s \in digest THEN [latest[s] EXCEPT !.reported = TRUE] ELSE latest[s]]
    /\ UNCHANGED <<folder, fresh, call, past, faults>>

Next ==
    \/ Fault \/ SendDigest \/ MarkReported
    \/ \E s \in Sender : Expire(s) \/ MailAfterGrace(s)
    \/ \E m \in Letter : Arrive(m) \/ \E v \in Letter : Renumber(m, v)
    \/ \E c \in Caller : DryRun(c) \/ Check(c) \/ Record(c) \/ (\E ok \in BOOLEAN : Act(c, ok) \/ Archive(c, ok))
    \/ \E c \in Caller, s \in Sender, confirm, archive \in BOOLEAN : (archive => confirm) /\ Find(c, s, confirm, archive)

Spec == Init /\ [][Next]_unsubscribeVars

-----------------------------------------------------------------------------
\* The folder, the rows and the requests keep their types.
TypeOK ==
    /\ inbox \subseteq Letter /\ named \in [Letter -> Letter] /\ fresh \subseteq shown /\ digest \subseteq Sender
    /\ latest \in [Sender -> [stored : BOOLEAN, reported : BOOLEAN, late : BOOLEAN]]
    /\ \A c \in Caller : call[c].step \in {"rest", "dry", "check", "act", "archive", "record"} /\ call[c].uids \subseteq Letter
    /\ done \in [Sender -> 0 .. MaxDone] /\ faults \in 0 .. MaxFaults

\* Nothing is sent for a sender no dry run was made for, and an archive takes
\* the sender's mail and no other, as long as the folder keeps its numbering
\* (unsubscribe.go:122-129 and 194-197, D39, D57).
OnlyAsAsked ==
    /\ \A s \in Sender : done[s] > 0 => s \in shown
    /\ ~shuffled => \A p \in taken : From[p[2]] = p[1]

\* Every unsubscribe that took effect has its row once its call is over, also
\* when the archive failed, and a digest lists a row once: only a death or a
\* failed statement in between breaks either (unsubscribe.go:159-173, D56).
InHand(s) == Cardinality({c \in Caller : call[c].sender = s /\ call[c].step \in {"archive", "record"} /\ call[c].status = "done"})
Accounted == faults = 0 => \A s \in Sender : done[s] = logged[s] + InHand(s) /\ told[s] <= 1
=============================================================================
