----------------------------- MODULE InboundProofs ----------------------------
(***************************************************************************)
(* The inbound command channel honours a command at most once, for any     *)
(* number of processes, mails and nonces.                                  *)
(*                                                                         *)
(* HonouredOnce is not inductive: a watcher that has recorded a nonce and  *)
(* not yet published must be the only one, and no mail with that nonce may *)
(* have been honoured.  NonceSpent says so of the nonces in the table.     *)
(***************************************************************************)
EXTENDS Inbound, TLAPS

\* A watcher works on mails it has found in the folder, and means to publish a
\* command only between the check of its nonce and the publication.
WatcherOK ==
    \A p \in Proc :
        /\ watcher[p].uids \subseteq delivered
        /\ watcher[p].pc \in {"publish", "mark"} => watcher[p].mail \in delivered
        /\ watcher[p].triggered => watcher[p].pc = "publish"

\* An honoured command's nonce is in the table, and so is that of a command
\* about to be honoured, which is in one watcher's hands and not honoured yet.
NonceSpent ==
    /\ \A m \in Mail : honoured[m] # 0 => NonceOf[m] \in nonces
    /\ \A p \in Proc : watcher[p].triggered =>
         /\ NonceOf[watcher[p].mail] \in nonces
         /\ \A m \in Mail : NonceOf[m] = NonceOf[watcher[p].mail] => honoured[m] = 0
    /\ \A p, q \in Proc :
         p # q /\ watcher[p].triggered /\ watcher[q].triggered
            => NonceOf[watcher[p].mail] # NonceOf[watcher[q].mail]

Inv == TypeOK /\ WatcherOK /\ NonceSpent /\ HonouredOnce

\* Nothing has been delivered, recorded or published at the start.
LEMMA InitInv == Init => Inv
  BY ParamAssumption
  DEF Init, Inv, TypeOK, WatcherOK, NonceSpent, HonouredOnce, Watcher, Idle

\* A count that starts at zero is one after the first event.
LEMMA CountOne == Count(0) = 1 /\ \A n \in 0..MaxEvent : Count(n) \in 0..MaxEvent
  BY ParamAssumption DEF Count

\* A mail that arrives, or is marked unread, leaves the watchers and the table
\* alone.
LEMMA MailStep == ASSUME Inv, NEW m \in Mail, Deliver(m) \/ MarkUnread(m) PROVE Inv'
  <1>1. CASE Deliver(m)
    BY <1>1 DEF Inv, TypeOK, WatcherOK, NonceSpent, HonouredOnce, Deliver
  <1>2. CASE MarkUnread(m)
    BY <1>2, ParamAssumption DEF Inv, TypeOK, WatcherOK, NonceSpent, HonouredOnce, MarkUnread, Upset
  <1> QED BY <1>1, <1>2

\* So does a window that passes.
LEMMA ExpireStep == ASSUME Inv, NEW n \in Nonce, Expire(n) PROVE Inv'
  BY DEF Inv, TypeOK, WatcherOK, NonceSpent, HonouredOnce, Expire

\* A watcher's step after which it means to publish no command, and which
\* changes neither table nor events, preserves the invariant.
LEMMA QuietStep ==
    ASSUME Inv, NEW p \in Proc, NEW w \in Watcher,
           watcher' = [watcher EXCEPT ![p] = w],
           w.uids \subseteq delivered,
           w.pc \in {"publish", "mark"} => w.mail \in delivered,
           ~w.triggered,
           UNCHANGED <<delivered, expired, nonces, honoured, rejected>>,
           seen' \subseteq delivered,
           upset' \in 0..MaxUpset
    PROVE  Inv'
  <1>1. watcher'[p] = w /\ \A q \in Proc \ {p} : watcher'[q] = watcher[q]
    BY DEF Inv, TypeOK
  <1>2. TypeOK'
    BY DEF Inv, TypeOK
  <1>3. WatcherOK'
    BY <1>1 DEF Inv, WatcherOK
  <1>4. NonceSpent'
    BY <1>1 DEF Inv, NonceSpent
  <1>5. HonouredOnce'
    BY DEF Inv, HonouredOnce
  <1> QED BY <1>2, <1>3, <1>4, <1>5 DEF Inv

\* A step that begins, gives up or ends a watcher's work publishes nothing.
LEMMA PollStep ==
    ASSUME Inv, NEW p \in Proc,
           Poll(p) \/ PollEnds(p) \/ Crash(p) \/ Mark(p) \/ MarkFails(p)
    PROVE  Inv'
  <1>1. CASE Poll(p)
    <2> DEFINE w == [Idle EXCEPT !.pc = "list", !.uids = delivered \ seen]
    <2>1. w \in Watcher /\ w.uids \subseteq delivered /\ w.pc = "list" /\ ~w.triggered
      BY DEF Inv, TypeOK, Idle, Watcher
    <2>2. watcher' = [watcher EXCEPT ![p] = w] /\ UNCHANGED <<delivered, seen, expired, nonces, honoured, rejected, upset>>
      BY <1>1 DEF Poll, Goto
    <2> HIDE DEF w
    <2> QED BY <2>1, <2>2, QuietStep DEF Inv, TypeOK
  <1>2. CASE PollEnds(p) \/ Crash(p)
    <2>1. Idle \in Watcher /\ Idle.uids = {} /\ Idle.pc = "idle" /\ ~Idle.triggered
      BY DEF Idle, Watcher
    <2>2. /\ watcher' = [watcher EXCEPT ![p] = Idle]
          /\ UNCHANGED <<delivered, seen, expired, nonces, honoured, rejected>>
          /\ upset' \in 0..MaxUpset
      BY <1>2, ParamAssumption DEF PollEnds, Crash, Goto, Upset, Inv, TypeOK
    <2> QED BY <2>1, <2>2, QuietStep DEF Inv, TypeOK
  <1>3. CASE Mark(p) \/ MarkFails(p)
    <2> DEFINE w == [watcher[p] EXCEPT !.pc = "list", !.mail = NoMail]
    <2>1. /\ watcher[p] \in Watcher /\ watcher[p].pc = "mark" /\ ~watcher[p].triggered
          /\ watcher[p].uids \subseteq delivered /\ watcher[p].mail \in delivered
      BY <1>3 DEF Mark, MarkFails, Inv, TypeOK, WatcherOK
    <2>2. w \in Watcher /\ w.uids \subseteq delivered /\ w.pc = "list" /\ ~w.triggered
      BY <2>1 DEF Watcher
    <2>3. /\ watcher' = [watcher EXCEPT ![p] = w]
          /\ UNCHANGED <<delivered, expired, nonces, honoured, rejected>>
          /\ seen' \subseteq delivered
          /\ upset' \in 0..MaxUpset
      BY <1>3, <2>1, ParamAssumption DEF Mark, MarkFails, Marked, Goto, Upset, Inv, TypeOK
    <2> HIDE DEF w
    <2> QED BY <2>2, <2>3, QuietStep
  <1> QED BY <1>1, <1>2, <1>3

\* A watcher that finds the nonce missing records it in the same step, so no
\* other watcher can hold a command with that nonce.
LEMMA EvaluateStep ==
    ASSUME Inv, NEW p \in Proc, NEW m \in Mail,
           Evaluate(p, m) \/ NonceStoreFails(p, m) \/ FetchFails(p, m)
    PROVE  Inv'
  <1>1. CASE Evaluate(p, m)
    <2>1. /\ m \in delivered
          /\ watcher[p] \in Watcher
          /\ watcher' = [watcher EXCEPT ![p] =
               [watcher[p] EXCEPT !.pc = "publish", !.uids = @ \ {m}, !.mail = m,
                                  !.triggered = Passes(m) /\ NonceOf[m] \notin nonces]]
          /\ nonces' = nonces \cup {NonceOf[m]}
          /\ UNCHANGED <<delivered, seen, expired, honoured, rejected, upset>>
      BY <1>1 DEF Evaluate, SeenOrRecord, NextMail, Evaluated, Goto, Inv, TypeOK, WatcherOK
    <2> DEFINE w == watcher'[p]
    <2>2. /\ w.pc = "publish" /\ w.mail = m /\ w.uids = watcher[p].uids \ {m}
          /\ w.triggered <=> (Passes(m) /\ NonceOf[m] \notin nonces)
          /\ w \in Watcher
      BY <2>1 DEF Inv, TypeOK, Watcher, Passes
    <2>3. \A q \in Proc \ {p} : watcher'[q] = watcher[q]
      BY <2>1 DEF Inv, TypeOK
    <2>4. TypeOK'
      BY <2>1, <2>2, <2>3, ParamAssumption DEF Inv, TypeOK
    <2>5. WatcherOK'
      BY <2>1, <2>2, <2>3 DEF Inv, WatcherOK
    <2>6. NonceSpent'
      BY <2>1, <2>2, <2>3 DEF Inv, NonceSpent
    <2>7. HonouredOnce'
      BY <2>1 DEF Inv, HonouredOnce
    <2> QED BY <2>4, <2>5, <2>6, <2>7 DEF Inv
  <1>2. CASE NonceStoreFails(p, m)
    <2> DEFINE w == [watcher[p] EXCEPT !.pc = "publish", !.uids = @ \ {m}, !.mail = m,
                                       !.triggered = FALSE]
    <2>1. watcher[p] \in Watcher /\ watcher[p].uids \subseteq delivered /\ m \in delivered
      BY <1>2 DEF NonceStoreFails, NextMail, Inv, TypeOK, WatcherOK
    <2>2. w \in Watcher /\ w.uids \subseteq delivered /\ w.mail = m /\ ~w.triggered
      BY <2>1 DEF Watcher
    <2>3. /\ watcher' = [watcher EXCEPT ![p] = w]
          /\ UNCHANGED <<delivered, seen, expired, nonces, honoured, rejected>>
          /\ upset' \in 0..MaxUpset
      BY <1>2, ParamAssumption DEF NonceStoreFails, Evaluated, Goto, Upset, Inv, TypeOK
    <2> HIDE DEF w
    <2> QED BY <2>1, <2>2, <2>3, QuietStep DEF Inv, TypeOK
  <1>3. CASE FetchFails(p, m)
    <2> DEFINE w == [watcher[p] EXCEPT !.uids = @ \ {m}]
    <2>1. /\ watcher[p] \in Watcher /\ watcher[p].uids \subseteq delivered
          /\ watcher[p].pc = "list" /\ ~watcher[p].triggered
      BY <1>3 DEF FetchFails, NextMail, Inv, TypeOK, WatcherOK
    <2>2. w \in Watcher /\ w.uids \subseteq delivered /\ w.pc = "list" /\ ~w.triggered
      BY <2>1 DEF Watcher
    <2>3. /\ watcher' = [watcher EXCEPT ![p] = w]
          /\ UNCHANGED <<delivered, seen, expired, nonces, honoured, rejected>>
          /\ upset' \in 0..MaxUpset
      BY <1>3, ParamAssumption DEF FetchFails, Goto, Upset, Inv, TypeOK
    <2> HIDE DEF w
    <2> QED BY <2>2, <2>3, QuietStep DEF Inv, TypeOK
  <1> QED BY <1>1, <1>2, <1>3

\* The command published is the only one with its nonce.
LEMMA PublishStep == ASSUME Inv, NEW p \in Proc, Publish(p) PROVE Inv'
  <1> DEFINE m == watcher[p].mail
  <1>1. /\ m \in Mail /\ m \in delivered
        /\ watcher[p] \in Watcher
        /\ watcher' = [watcher EXCEPT ![p] = [watcher[p] EXCEPT !.pc = "mark", !.triggered = FALSE]]
        /\ UNCHANGED <<delivered, seen, expired, nonces, upset>>
    BY DEF Publish, Goto, Inv, TypeOK, WatcherOK
  <1>2. /\ watcher'[p].pc = "mark" /\ ~watcher'[p].triggered /\ watcher'[p].mail = m
        /\ watcher'[p].uids = watcher[p].uids
        /\ watcher'[p] \in Watcher
    BY <1>1 DEF Inv, TypeOK, Watcher
  <1>3. \A q \in Proc \ {p} : watcher'[q] = watcher[q]
    BY <1>1 DEF Inv, TypeOK
  <1>4. WatcherOK'
    BY <1>1, <1>2, <1>3 DEF Inv, WatcherOK
  <1>5. CASE ~watcher[p].triggered
    <2>1. honoured' = honoured /\ rejected' = rejected \cup {m}
      BY <1>5 DEF Publish
    <2>2. TypeOK'
      BY <1>1, <1>2, <1>3, <2>1 DEF Inv, TypeOK
    <2>3. NonceSpent' /\ HonouredOnce'
      BY <1>1, <1>2, <1>3, <2>1 DEF Inv, NonceSpent, HonouredOnce
    <2> QED BY <1>4, <2>2, <2>3 DEF Inv
  <1>6. CASE watcher[p].triggered
    <2>1. /\ honoured[m] = 0
          /\ honoured' = [honoured EXCEPT ![m] = 1]
          /\ rejected' = rejected
      BY <1>1, <1>6, CountOne DEF Publish, Inv, NonceSpent
    <2>2. TypeOK'
      BY <1>1, <1>2, <1>3, <2>1, ParamAssumption DEF Inv, TypeOK
    <2>3. \A n \in Mail : n # m /\ NonceOf[n] = NonceOf[m] => honoured'[n] = 0
      BY <1>1, <1>6, <2>1 DEF Inv, TypeOK, NonceSpent
    <2>4. honoured'[m] = 1 /\ \A n \in Mail \ {m} : honoured'[n] = honoured[n]
      BY <1>1, <2>1 DEF Inv, TypeOK
    <2>5. HonouredOnce'
      BY <2>3, <2>4 DEF Inv, HonouredOnce
    <2>6. NonceSpent'
      BY <1>1, <1>2, <1>3, <1>6, <2>4 DEF Inv, NonceSpent
    <2> QED BY <1>4, <2>2, <2>5, <2>6 DEF Inv
  <1> QED BY <1>5, <1>6

\* Every step of the channel preserves the invariant.
LEMMA Step == Inv /\ [Next]_vars => Inv'
  <1> SUFFICES ASSUME Inv, [Next]_vars PROVE Inv'
    OBVIOUS
  <1>1. CASE UNCHANGED vars
    BY <1>1 DEF vars, Inv, TypeOK, WatcherOK, NonceSpent, HonouredOnce
  <1>2. CASE Next
    BY <1>2, MailStep, ExpireStep, PollStep, EvaluateStep, PublishStep DEF Next, Work
  <1> QED BY <1>1, <1>2

\* The mailbox, the tables and the watchers keep their types (TypeOK).
THEOREM TypeCorrect == Spec => []TypeOK
  <1>1. Inv => TypeOK
    BY DEF Inv
  <1> QED BY <1>1, InitInv, Step, PTL DEF Spec

\* A command is honoured at most once, whatever the number of processes,
\* copies, crashes and failures (HonouredOnce).
THEOREM CommandIsSingleUse == Spec => []HonouredOnce
  <1>1. Inv => HonouredOnce
    BY DEF Inv
  <1> QED BY <1>1, InitInv, Step, PTL DEF Spec
-------------------------------------------------------------------------------
(* PublishedBeforeMarked needs to know what a watcher about to mark a mail *)
(* has published.                                                          *)

HasOutcome(m) == honoured[m] > 0 \/ m \in rejected
MarksPublished == \A p \in Proc : watcher[p].pc = "mark" => HasOutcome(watcher[p].mail)

\* An outcome, once published, is not taken back.
LEMMA OutcomeStays ==
    ASSUME Inv, [Next]_vars, NEW m \in Mail, HasOutcome(m) PROVE HasOutcome(m)'
  <1>1. CASE UNCHANGED <<honoured, rejected>>
    BY <1>1 DEF HasOutcome
  <1>2. ASSUME NEW p \in Proc, Publish(p) PROVE HasOutcome(m)'
    <2>1. honoured[m] \in 0..MaxEvent /\ (honoured[m] > 0 => Count(honoured[m]) > 0)
      BY ParamAssumption DEF Inv, TypeOK, Count
    <2>2. rejected \subseteq rejected' /\ honoured'[m] \in {honoured[m], Count(honoured[m])}
      BY <1>2 DEF Publish, Inv, TypeOK
    <2> QED BY <2>1, <2>2 DEF HasOutcome
  <1> QED BY <1>1, <1>2 DEF Next, Work, vars, Deliver, MarkUnread, Expire, Poll, Mark, PollEnds,
              Evaluate, MarkFails, Crash, FetchFails, NonceStoreFails

\* A watcher comes to mark a mail by publishing its outcome.
LEMMA MarksStep ==
    ASSUME Inv, MarksPublished, [Next]_vars PROVE MarksPublished'
  <1> SUFFICES ASSUME NEW p \in Proc, watcher'[p].pc = "mark" PROVE HasOutcome(watcher[p].mail)'
    BY DEF MarksPublished
  <1>1. CASE watcher'[p] = watcher[p]
    <2>1. watcher[p].mail \in Mail /\ HasOutcome(watcher[p].mail)
      BY <1>1 DEF MarksPublished, Inv, TypeOK, WatcherOK
    <2>2. HasOutcome(watcher[p].mail)' <=> (honoured'[watcher[p].mail] > 0 \/ watcher[p].mail \in rejected')
      BY <1>1 DEF HasOutcome
    <2>3. honoured'[watcher[p].mail] > 0 \/ watcher[p].mail \in rejected'
      BY <2>1, OutcomeStays DEF HasOutcome
    <2> QED BY <2>2, <2>3
  <1>2. CASE watcher'[p] # watcher[p]
    <2>1. Publish(p)
      <3>1. watcher[p] \in Watcher
        BY DEF Inv, TypeOK
      <3>2. ASSUME NEW q \in Proc,
                   \/ Poll(q) \/ Mark(q) \/ PollEnds(q) \/ MarkFails(q) \/ Crash(q)
                   \/ \E m \in Mail : Evaluate(q, m) \/ FetchFails(q, m) \/ NonceStoreFails(q, m)
            PROVE  watcher'[p] = watcher[p] \/ watcher'[p].pc # "mark"
        <4>1. CASE q # p
          BY <3>2, <4>1 DEF Poll, Mark, PollEnds, MarkFails, Crash, Evaluate, FetchFails, NonceStoreFails,
                            Marked, Evaluated, Goto, Inv, TypeOK
        <4>2. CASE q = p /\ \E m \in Mail : FetchFails(p, m)
          <5>1. PICK m \in Mail : FetchFails(p, m)
            BY <4>2
          <5>2. watcher'[p] = [watcher[p] EXCEPT !.uids = @ \ {m}] /\ watcher[p].pc = "list"
            BY <5>1 DEF FetchFails, NextMail, Goto, Inv, TypeOK
          <5> QED BY <3>1, <5>2 DEF Watcher
        <4>3. CASE q = p /\ \E m \in Mail : Evaluate(p, m) \/ NonceStoreFails(p, m)
          <5>1. PICK m \in Mail : \E t : Evaluated(p, m, t)
            BY <4>3 DEF Evaluate, NonceStoreFails
          <5> QED BY <3>1, <5>1 DEF Evaluated, Goto, Watcher, Inv, TypeOK
        <4>4. CASE q = p /\ (Mark(p) \/ MarkFails(p))
          <5>1. watcher'[p] = [watcher[p] EXCEPT !.pc = "list", !.mail = NoMail]
            BY <4>4 DEF Mark, MarkFails, Marked, Goto, Inv, TypeOK
          <5> QED BY <3>1, <5>1 DEF Watcher
        <4>5. CASE q = p /\ (Poll(p) \/ PollEnds(p) \/ Crash(p))
          <5>1. watcher'[p] \in {Idle, [Idle EXCEPT !.pc = "list", !.uids = delivered \ seen]}
            BY <4>5 DEF Poll, PollEnds, Crash, Goto, Inv, TypeOK
          <5>2. Idle.pc = "idle" /\ [Idle EXCEPT !.pc = "list", !.uids = delivered \ seen].pc = "list"
            BY DEF Idle
          <5> QED BY <5>1, <5>2
        <4> QED BY <3>2, <4>1, <4>2, <4>3, <4>4, <4>5
      <3>3. ASSUME NEW q \in Proc, Publish(q), q # p PROVE FALSE
        BY <1>2, <3>3 DEF Publish, Goto, Inv, TypeOK
      <3>4. ASSUME \/ \E m \in Mail : Deliver(m) \/ MarkUnread(m)
                   \/ \E n \in Nonce : Expire(n)
                   \/ UNCHANGED vars
            PROVE  FALSE
        BY <1>2, <3>4 DEF Deliver, MarkUnread, Expire, vars
      <3> QED BY <1>2, <3>2, <3>3, <3>4 DEF Next, Work
    <2>2. watcher[p] \in Watcher /\ watcher[p].mail \in Mail /\ watcher'[p].mail = watcher[p].mail
      BY <2>1 DEF Publish, Goto, Inv, TypeOK, WatcherOK, Watcher
    <2>3. honoured[watcher[p].mail] \in 0..MaxEvent /\ Count(honoured[watcher[p].mail]) > 0
      BY <2>2, ParamAssumption DEF Inv, TypeOK, Count
    <2> QED BY <2>1, <2>2, <2>3 DEF Publish, HasOutcome, Inv, TypeOK
  <1> QED BY <1>1, <1>2

\* No watcher of any number of processes marks a command seen before an
\* outcome of it is published, so no crash hides a command nobody heard of
\* (PublishedBeforeMarked; pollAccount in watcher.go).
THEOREM NeverMarkedUnheard == Spec => PublishedBeforeMarked
  <1>1. Init => MarksPublished
    BY DEF Init, Idle, MarksPublished
  <1>2. Inv /\ MarksPublished /\ [Next]_vars => MarksPublished'
    BY MarksStep
  <1>3. Inv /\ MarksPublished /\ [Next]_vars => [\A m \in seen' \ seen : honoured[m] > 0 \/ m \in rejected]_vars
    <2> SUFFICES ASSUME Inv, MarksPublished, Next, NEW m \in seen' \ seen
                 PROVE  HasOutcome(m)
      BY DEF HasOutcome
    <2>1. \E p \in Proc : Mark(p)
      BY DEF Next, Work, Deliver, MarkUnread, Expire, Poll, Publish, PollEnds,
             Evaluate, MarkFails, Crash, FetchFails, NonceStoreFails
    <2> QED BY <2>1 DEF Mark, MarksPublished
  <1> QED BY <1>1, <1>2, <1>3, InitInv, Step, PTL DEF Spec, PublishedBeforeMarked
===============================================================================
