----------------------------- MODULE IntelScan -----------------------------
(***************************************************************************)
(* The background header scan (internal/intel): a tick registers the       *)
(* folders of an account, reads new headers folder by folder in batches,   *)
(* indexes each message once, keeps the profiles of senders, the latest    *)
(* message of each conversation and the anomalies, then records where      *)
(* known messages lie in Junk, and pairs the owner's replies.              *)
(*                                                                         *)
(* One account.  The mailbox (other clients, the server) changes between   *)
(* any two steps; a batch is fetched under the connection's lock and       *)
(* stored after it, in one transaction.                                    *)
(***************************************************************************)
EXTENDS Integers, Sequences, FiniteSets, FiniteSetsExt, SequencesExt, Functions

CONSTANTS
    Folder,         \* names of folders
    Listing,        \* the folders in the order of the server's LIST
    Placed,         \* [Mail -> Folder or NoFolder]: where messages are at the start
    Attr,           \* [Folder -> [all, skip, excluded, kind, hold]]
    Mail,           \* messages; a copy in another folder is the same message
    Header,           \* [Mail -> header], see HeaderType
    Address,        \* senders and recipients
    Own,            \* the account's own addresses
    NoMail, NoFolder,
    BatchSize,      \* intelligence.batch_size
    MaxGap,         \* maxReplyGap
    MismatchAfter,  \* messages before a Reply-To mismatch counts (3 in the code)
    AuthMinPasses,  \* intelligence.anomaly_auth_min_passes
    MaxUID,         \* bound: UIDs a folder hands out
    MaxChanges      \* bound: changes of the mailbox, failures and restarts

HeaderType ==
    [id: BOOLEAN, from: Address, to: Seq(Address), answers: Mail \cup {NoMail}, thread: Mail,
     date: Nat, conversation: BOOLEAN, dmarc: {"pass", "fail", ""}, resembles: Address \cup {""},
     otherReplyTo: BOOLEAN]

ScanAssumption ==
    /\ NoMail \notin Mail /\ NoFolder \notin Folder /\ "" \notin Address /\ Own \subseteq Address
    /\ Listing \in Seq(Folder) /\ Range(Listing) = Folder
    /\ IsFiniteSet(Mail) /\ Header \in [Mail -> HeaderType] /\ Placed \in [Mail -> Folder \cup {NoFolder}]
    /\ BatchSize \in Nat \ {0} /\ {MaxGap, MismatchAfter, AuthMinPasses, MaxUID, MaxChanges} \subseteq Nat
    /\ \A f \in Folder : Cardinality({m \in Mail : Placed[m] = f}) <= MaxUID

VARIABLES
    box,        \* [Folder -> [valid, next, mail]]: mail maps a UID to a message
    listed,     \* folders that exist
    delivered,  \* messages that have come
    rescued,    \* [Mail -> where it went from Junk or a hold folder: "", "taken", "rescued"]
    changes,    \* changes made so far
    scan,       \* intel_scan: [Folder -> row]
    locscan,    \* intel_locscan: [Folder -> row]
    index,      \* intel_messages: [key -> [folder, paired]]
    senders,    \* [Address -> profile]
    anomalies,  \* open anomalies: [sender, type, ref]
    threads,    \* reply_threads: [thread -> its latest message]
    sc          \* the scanner's locals

mailbox == <<box, listed, delivered, rescued, changes>>
index_  == <<index, senders, anomalies, threads>>
store   == <<scan, locscan, index_>>
vars    == <<mailbox, store, sc>>

NoRow   == [present |-> FALSE, valid |-> 0, last |-> 0, complete |-> FALSE]
Filled(v, mails) == [valid |-> v, next |-> Cardinality(mails) + 1, mail |-> SetToSeq(mails)]
Idle    == [step |-> "idle", todo |-> {}, locate |-> {}, folder |-> NoFolder, valid |-> 0, after |-> 0,
            batch |-> <<>>, batchValid |-> 0, more |-> FALSE, active |-> FALSE, corr |-> {}]

Init ==
    /\ box = [f \in Folder |-> Filled(1, {m \in Mail : Placed[m] = f})]
    /\ listed = Folder /\ delivered = {m \in Mail : Placed[m] # NoFolder} /\ rescued = [m \in Mail |-> ""] /\ changes = 0
    /\ scan = [f \in Folder |-> NoRow] /\ locscan = [f \in Folder |-> NoRow]
    /\ index = [k \in {} |-> NoMail] /\ anomalies = {} /\ threads = [m \in {} |-> NoMail]
    /\ senders = [a \in Address |-> [received |-> 0, sent |-> 0, passed |-> 0, replies |-> 0, trusted |-> FALSE]]
    /\ sc = Idle

-----------------------------------------------------------------------------
(* The mailbox, changed by its owner, the server and the rules engine.     *)

Change == changes < MaxChanges /\ changes' = changes + 1

At(f)        == Range(box[f].mail)
Added(b, m)  == [b EXCEPT !.next = @ + 1, !.mail = [u \in DOMAIN b.mail \cup {b.next} |->
                                                    IF u = b.next THEN m ELSE b.mail[u]]]
Without(b, m) == [b EXCEPT !.mail = Restrict(@, {u \in DOMAIN @ : @[u] # m})]
Room(f)      == f \in listed /\ box[f].next <= MaxUID

Deliver(f, m) ==
    /\ Change /\ Room(f) /\ m \notin delivered /\ delivered' = delivered \cup {m}
    /\ box' = [box EXCEPT ![f] = Added(@, m)]
    /\ UNCHANGED <<listed, rescued, store, sc>>

Discarded(f) == Attr[f].kind # ""
RescueFrom(f) == Attr[f].kind = "junk" \/ Attr[f].hold

\* A message taken out of Junk or a hold folder is rescued when it comes, at
\* once or by way of the trash, to where mail is kept.
Freed(fate, f, g) ==
    IF RescueFrom(f) \/ fate # "" THEN IF Discarded(g) /\ fate # "rescued" THEN "taken" ELSE "rescued" ELSE ""

\* A message gets a new UID in the folder it is moved to.
Move(f, g, m) ==
    /\ Change /\ f # g /\ m \in At(f) /\ Room(g)
    /\ box' = [box EXCEPT ![f] = Without(@, m), ![g] = Added(@, m)]
    /\ rescued' = [rescued EXCEPT ![m] = Freed(@, f, g)]
    /\ UNCHANGED <<listed, delivered, store, sc>>

\* The server gives the folder a new UIDVALIDITY and its messages new UIDs.
Renumber(f) ==
    /\ Change /\ f \in listed /\ At(f) # {}
    /\ box' = [box EXCEPT ![f] = Filled(@.valid + 1, At(f))]
    /\ UNCHANGED <<listed, delivered, rescued, store, sc>>

\* A folder is deleted with what it holds, and may be made again.
Delete(f) ==
    /\ Change /\ f \in listed /\ listed' = listed \ {f}
    /\ box' = [box EXCEPT ![f] = Filled(@.valid + 1, {})]
    /\ UNCHANGED <<delivered, rescued, store, sc>>

Create(f) ==
    /\ Change /\ f \notin listed /\ listed' = listed \cup {f}
    /\ UNCHANGED <<box, delivered, rescued, store, sc>>

Environment ==
    \/ \E f \in Folder, m \in Mail : Deliver(f, m)
    \/ \E f, g \in Folder, m \in Mail : Move(f, g, m)
    \/ \E f \in Folder : Renumber(f) \/ Delete(f) \/ Create(f)

-----------------------------------------------------------------------------
(* A tick: the folders, and what the detector may report.                  *)

First(S) == Listing[Min({i \in DOMAIN Listing : Listing[i] \in S})]

\* The \All folder alone where there is one, else all but the skipped ones.
Scope(all) ==
    LET whole == {f \in all : Attr[f].all} IN
    IF whole # {} THEN {First(whole)}
    ELSE {f \in all : ~Attr[f].skip /\ ~Attr[f].excluded}

LocationScope(all) == {f \in all \ Scope(all) : Discarded(f) /\ ~Attr[f].excluded}

\* Rows of folders that left the scope are dropped; new folders start empty.
Register(rows, folders) ==
    [f \in Folder |-> IF f \notin folders THEN NoRow ELSE [rows[f] EXCEPT !.present = TRUE]]

HistoryComplete(rows) ==
    LET own == {f \in Folder : rows[f].present} IN own # {} /\ \A f \in own : rows[f].complete

StartTick ==
    /\ sc.step = "idle"
    /\ scan' = Register(scan, Scope(listed))
    /\ sc' = [sc EXCEPT !.step = "folders", !.todo = Scope(listed), !.locate = LocationScope(listed),
                        !.active = HistoryComplete(scan'), !.corr = {a \in Address : senders[a].sent > 0}]
    /\ UNCHANGED <<mailbox, locscan, index_>>

-----------------------------------------------------------------------------
(* One folder: headers above the last UID, in batches.                     *)

Open ==
  /\ sc.step = "folders" /\ sc.todo # {}
  /\ LET f == First(sc.todo) IN
     sc' = [sc EXCEPT !.step = "fetch", !.todo = @ \ {f}, !.folder = f,
                         !.valid = scan[f].valid, !.after = scan[f].last]
  /\ UNCHANGED <<mailbox, store>>

\* imapSource.Fetch: the lowest BatchSize UIDs above sc.after, in their order.
UIDsAbove == {u \in DOMAIN box[sc.folder].mail : u > sc.after}
Lowest == {u \in UIDsAbove : Cardinality({v \in UIDsAbove : v < u}) < BatchSize}
InOrder(S) == {f \in [1..Cardinality(S) -> S] : \A i, j \in 1..Cardinality(S) : i < j => f[i] < f[j]}
Fetched(step, uids) ==
    [sc EXCEPT !.step = step, !.batchValid = box[sc.folder].valid, !.more = Cardinality(UIDsAbove) > BatchSize,
               !.batch = [i \in DOMAIN uids |-> [uid |-> uids[i], mail |-> box[sc.folder].mail[uids[i]]]]]

Renumbered == sc.valid # 0 /\ box[sc.folder].valid # sc.valid

Fetch ==
    /\ sc.step = "fetch" /\ sc.folder \in listed /\ ~Renumbered
    /\ \E uids \in InOrder(Lowest) : sc' = Fetched("apply", uids)
    /\ UNCHANGED <<mailbox, store>>

\* resetFolder: the folder is read again from its first message.
Restarted(rows, f, v) == [rows EXCEPT ![f] = IF @.present THEN [@ EXCEPT !.valid = v, !.last = 0] ELSE @]

ResetFolder ==
    /\ sc.step = "fetch" /\ sc.folder \in listed /\ Renumbered
    /\ scan' = Restarted(scan, sc.folder, box[sc.folder].valid)
    /\ sc' = [sc EXCEPT !.valid = box[sc.folder].valid, !.after = 0]
    /\ UNCHANGED <<mailbox, locscan, index_>>

\* The folder cannot be examined: it is gone, or the connection fails.
Skipped == sc.step \in {"fetch", "locfetch"} /\ sc' = [sc EXCEPT !.step = IF @ = "fetch" THEN "folders" ELSE "locate"]

FolderGone == sc.folder \notin listed /\ Skipped /\ UNCHANGED <<mailbox, store>>
FetchFails == Change /\ Skipped /\ UNCHANGED <<box, listed, delivered, rescued, store>>

-----------------------------------------------------------------------------
(* What one header does to the index.                                      *)

\* The hash of the Message-ID, or of the folder and the UID where there is none.
Key(f, h) == IF Header[h.mail].id THEN <<h.mail>> ELSE <<h.mail, f, h.uid>>
Outgoing(m) == Header[m].from \in Own

\* The recipients whose profile counts the message: the loop returns at the
\* first address that is the owner's or repeated.
Counted(to) ==
    LET good(n) == \A i \in 1..n : to[i] \notin Own /\ \A j \in 1..(i - 1) : to[j] # to[i]
    IN  {to[i] : i \in 1..Max({n \in 0..Len(to) : good(n)})}

Profiled(s, m) ==
    IF Outgoing(m) THEN [a \in Address |-> IF a \in Counted(Header[m].to) THEN [s[a] EXCEPT !.sent = @ + 1] ELSE s[a]]
    ELSE [s EXCEPT ![Header[m].from].received = @ + 1,
                   ![Header[m].from].passed = IF Header[m].dmarc = "pass" THEN @ + 1 ELSE @]

\* The per-message checks, against the profile before the message is counted.
Suspicions(m, p) ==
    {t \in {"new_sender", "auth_failure", "lookalike_domain", "reply_to_mismatch"} :
        CASE t = "new_sender" -> Header[m].conversation /\ p.received = 0 /\ p.sent = 0
          [] t = "auth_failure" -> Header[m].dmarc = "fail" /\ p.passed >= AuthMinPasses
          [] t = "lookalike_domain" -> Header[m].from \notin sc.corr /\ Header[m].resembles \in sc.corr
          [] t = "reply_to_mismatch" -> Header[m].conversation /\ p.received >= MismatchAfter /\ Header[m].otherReplyTo}

Reported(f, h, p) ==
    IF ~sc.active \/ Outgoing(h.mail) THEN {}
    ELSE {[sender |-> Header[h.mail].from, type |-> t, ref |-> Key(f, h)] : t \in Suspicions(h.mail, p)}

\* thread: a message becomes its conversation's latest when it is newer, or
\* as old and the owner's own.
Newer(m, n) == \/ Header[m].date > Header[n].date
               \/ Header[m].date = Header[n].date /\ Outgoing(m) /\ ~Outgoing(n)
Threaded(t, m) ==
    IF ~(IF Outgoing(m) THEN \E i \in DOMAIN Header[m].to : Header[m].to[i] \notin Own ELSE Header[m].conversation) THEN t
    ELSE LET r == Header[m].thread IN
         IF r \in DOMAIN t /\ ~Newer(m, t[r]) THEN t
         ELSE [q \in DOMAIN t \cup {r} |-> IF q = r THEN m ELSE t[q]]

\* locate: where a known message was last seen; out of Junk or a hold folder
\* into one that is no discard folder, it rescues its sender.
Rescues(f, k, ix) == RescueFrom(ix[k].folder) /\ ~Discarded(f) /\ ~Outgoing(k[1])
Locate(st, f, k) ==
    IF k \notin DOMAIN st.index \/ st.index[k].folder = f THEN st
    ELSE [st EXCEPT !.index[k].folder = f,
                    !.senders = IF Rescues(f, k, st.index) THEN [@ EXCEPT ![Header[k[1]].from].trusted = TRUE] ELSE @,
                    !.anomalies = IF Rescues(f, k, st.index) THEN {a \in @ : a.sender # Header[k[1]].from} ELSE @]

Known(st, f, h) == Key(f, h) \in DOMAIN st.index
Indexed(st, f, h) ==
    [index     |-> [k \in DOMAIN st.index \cup {Key(f, h)} |->
                       IF k \in DOMAIN st.index THEN st.index[k] ELSE [folder |-> f, paired |-> FALSE]],
     anomalies |-> st.anomalies \cup Reported(f, h, st.senders[Header[h.mail].from]),
     senders   |-> Profiled(st.senders, h.mail),
     threads   |-> st.threads]

\* Variant: the profile is updated for a message already indexed, too.
ApplyOneAgain(st, f, h) ==
    LET seen == IF Known(st, f, h) THEN [Locate(st, f, Key(f, h)) EXCEPT !.senders = Profiled(@, h.mail)]
                ELSE Indexed(st, f, h)
    IN  [seen EXCEPT !.threads = Threaded(@, h.mail)]

ApplyOne(st, f, h) ==
    LET seen == IF Known(st, f, h) THEN Locate(st, f, Key(f, h)) ELSE Indexed(st, f, h)
    IN  [seen EXCEPT !.threads = Threaded(@, h.mail)]

Current == [index |-> index, senders |-> senders, anomalies |-> anomalies, threads |-> threads]
Stores(st) == /\ index' = st.index /\ senders' = st.senders
              /\ anomalies' = st.anomalies /\ threads' = st.threads

\* The batch and the folder's progress, in one transaction.
LastUID(batch) == Max({0} \cup {batch[i].uid : i \in DOMAIN batch})
\* Variant: positions are added up.
FinishedSum(row) == [present |-> TRUE, valid |-> sc.batchValid, last |-> row.last + LastUID(sc.batch),
                     complete |-> row.complete \/ ~sc.more]
Finished(row) == [present |-> TRUE, valid |-> sc.batchValid, last |-> Max({row.last, LastUID(sc.batch)}),
                  complete |-> row.complete \/ ~sc.more]

Apply ==
    /\ sc.step = "apply"
    /\ Stores(FoldLeft(LAMBDA st, h : ApplyOne(st, sc.folder, h), Current, sc.batch))
    /\ scan' = [scan EXCEPT ![sc.folder] = Finished(@)]
    /\ sc' = [sc EXCEPT !.step = IF sc.more THEN "fetch" ELSE "folders", !.valid = sc.batchValid,
                        !.after = Max({@, LastUID(sc.batch)}), !.batch = <<>>]
    /\ UNCHANGED <<mailbox, locscan>>

-----------------------------------------------------------------------------
(* The location pass over Junk and the other discard folders out of scope. *)

FoldersDone ==
    /\ sc.step = "folders" /\ sc.todo = {}
    /\ sc' = [sc EXCEPT !.step = "locate"]
    /\ UNCHANGED <<mailbox, store>>

OpenLocation ==
  /\ sc.step = "locate" /\ sc.locate # {}
  /\ LET f == First(sc.locate) IN
     sc' = [sc EXCEPT !.step = "locfetch", !.locate = @ \ {f}, !.folder = f,
                         !.valid = locscan[f].valid, !.after = locscan[f].last]
  /\ UNCHANGED <<mailbox, store>>

LocationFetch ==
    /\ sc.step = "locfetch" /\ sc.folder \in listed
    /\ IF Renumbered THEN sc' = [sc EXCEPT !.valid = box[sc.folder].valid, !.after = 0]
       ELSE \E uids \in InOrder(Lowest) : sc' = Fetched("locapply", uids)
    /\ UNCHANGED <<mailbox, store>>

LocateOne(st, f, h) == IF Header[h.mail].id THEN Locate(st, f, <<h.mail>>) ELSE st

LocationApply ==
    /\ sc.step = "locapply"
    /\ Stores(FoldLeft(LAMBDA st, h : LocateOne(st, sc.folder, h), Current, sc.batch))
    /\ locscan' = [locscan EXCEPT ![sc.folder] = [present |-> TRUE, valid |-> sc.batchValid, complete |-> FALSE,
                                                  last |-> Max({sc.after, LastUID(sc.batch)})]]
    /\ sc' = [sc EXCEPT !.step = IF sc.more THEN "locfetch" ELSE "locate", !.valid = sc.batchValid,
                        !.after = Max({@, LastUID(sc.batch)}), !.batch = <<>>]
    /\ UNCHANGED <<mailbox, scan>>

-----------------------------------------------------------------------------
(* Pairing: an outgoing answer, once, with the message it answers.         *)

Pairable == {k \in DOMAIN index : LET m == k[1] IN
    /\ Outgoing(m) /\ ~index[k].paired
    /\ <<Header[m].answers>> \in DOMAIN index /\ ~Outgoing(Header[m].answers)}
Gap(m)  == Header[m].date - Header[Header[m].answers].date
Timely(a) == {k \in Pairable : Header[Header[k[1]].answers].from = a /\ Gap(k[1]) \in 0..MaxGap}

PairReplies ==
    /\ sc.step = "locate" /\ sc.locate = {}
    /\ index' = [k \in DOMAIN index |-> IF k \in Pairable THEN [index[k] EXCEPT !.paired = TRUE] ELSE index[k]]
    /\ senders' = [a \in Address |-> [senders[a] EXCEPT !.replies = @ + Cardinality(Timely(a))]]
    /\ sc' = Idle
    /\ UNCHANGED <<mailbox, scan, locscan, anomalies, threads>>

\* The process dies; the next one starts a tick of its own.
Crash ==
    /\ Change /\ sc.step # "idle" /\ sc' = Idle
    /\ UNCHANGED <<box, listed, delivered, rescued, store>>

Scanner ==
    \/ StartTick \/ Open \/ Fetch \/ FolderGone \/ ResetFolder \/ Apply \/ FoldersDone
    \/ OpenLocation \/ LocationFetch \/ LocationApply \/ PairReplies

Next == Environment \/ Scanner \/ FetchFails \/ Crash

Spec == Init /\ [][Next]_vars

\* Scanner.Run ticks for ever and a tick goes on to its end.  What other clients
\* do, failures and restarts are never owed.
FairSpec == Spec /\ WF_vars(Scanner)

-----------------------------------------------------------------------------
Profile == [received: Nat, sent: Nat, passed: Nat, replies: Nat, trusted: BOOLEAN]

\* The tables, the mailbox and the scanner's locals keep their types.
TypeOK ==
    /\ DOMAIN box = Folder /\ \A f \in Folder : At(f) \subseteq Mail /\ DOMAIN box[f].mail \subseteq 1..MaxUID
    /\ listed \subseteq Folder /\ delivered \subseteq Mail /\ rescued \in [Mail -> {"", "taken", "rescued"}] /\ changes \in 0..MaxChanges
    /\ \A f \in Folder : \A r \in {scan[f], locscan[f]} : r.valid \in Nat /\ r.last \in 0..MaxUID
    /\ \A k \in DOMAIN index : k[1] \in Mail /\ index[k].folder \in Folder
    /\ senders \in [Address -> Profile] /\ \A t \in DOMAIN threads : threads[t] \in Mail
    /\ sc.step \in {"idle", "folders", "fetch", "apply", "locate", "locfetch", "locapply"}

\* A message with a Message-ID is counted once in its sender's profile, and an
\* answer with one once, whatever folder it is in, is moved to or is read again
\* from after a crash, a renumbering or a folder that came back (store.go:48-50).
CountedOnce ==
    \A a \in Address \ Own :
       LET mails == {m \in Mail : Header[m].from = a}
           replies == {m \in Mail : Outgoing(m) /\ Header[m].answers \in mails}
       IN  /\ (\A m \in mails : Header[m].id) =>
                   senders[a].received = Cardinality({m \in mails : <<m>> \in DOMAIN index})
           /\ (\A m \in replies : Header[m].id) => senders[a].replies <= Cardinality(replies)

\* A sender becomes trusted only because the owner took a message of theirs
\* out of Junk or a hold folder and kept it (locations.go:111-114).
TrustIsRescue ==
    \A a \in Address : senders[a].trusted => \E m \in Mail : Header[m].from = a /\ rescued[m] = "rescued"

\* The latest message kept of a conversation is the newest the scan has
\* indexed, in whatever order folders are read (store.go:142-145).
ThreadIsLatest ==
    \A k \in DOMAIN index :
       LET m == k[1] IN Threaded(threads, m) = threads

\* Once the mailbox is left alone, every message of a scanned folder is
\* indexed, and every one the index knows is recorded in the folder it is in.
InStep ==
    \A f \in listed : \A u \in DOMAIN box[f].mail :
        LET k == Key(f, [uid |-> u, mail |-> box[f].mail[u]]) IN
        /\ f \in Scope(listed) => k \in DOMAIN index
        /\ k \in DOMAIN index /\ f \in Scope(listed) \cup LocationScope(listed) => index[k].folder = f
IndexSettles == <>[]InStep
=============================================================================
