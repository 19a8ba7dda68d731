------------------------------ MODULE FolderSync ------------------------------
(***************************************************************************)
(* One mailbox folder and its cache rows, as internal/sync/syncer.go       *)
(* (syncFolder), internal/sync/source.go (the read-only view of the        *)
(* server) and internal/db/cache.go (messages, sync_state) keep them.      *)
(*                                                                         *)
(* A worker is a goroutine running syncFolder on this folder: the ticker's *)
(* syncAll, or a SyncAccount call from REST or MCP.  Nothing in the code   *)
(* serialises them, so every source call (one hold of the connection lock) *)
(* and every SQL statement (one use of the single database connection) is  *)
(* a step of its own, and another worker, the server or a sweep may come   *)
(* in between.                                                             *)
(*                                                                         *)
(* Data: a flag set is one BOOLEAN, a message body is its identity in Msg, *)
(* and a date is the BOOLEAN "inside the search window".                   *)
(***************************************************************************)
EXTENDS Naturals, FiniteSets

CONSTANTS
    Workers,      \* goroutines that may run syncFolder on this folder
    Msg,          \* messages the server may hold
    FetchBatch,   \* fetchBatch: new messages fetched per lock hold (25)
    EarlyRenumber,\* may a UIDVALIDITY change meet a folder without sync_state?
    MaxChange,    \* bound on the server's own deliveries, flag changes, ...
    MaxRenumber,  \* bound on UIDVALIDITY changes
    MaxFail,      \* bound on failed or interrupted cycles
    MaxSweep      \* bound on cache_sweep calls

ASSUME ParamAssumption ==
    /\ EarlyRenumber \in BOOLEAN
    /\ FetchBatch \in Nat \ {0}
    /\ MaxChange \in Nat
    /\ MaxRenumber \in Nat
    /\ MaxFail \in Nat
    /\ MaxSweep \in Nat

VARIABLES
    condstore, \* server: does it advertise CONDSTORE?
    validity,  \* server: UIDVALIDITY of the folder
    top,       \* server: HIGHESTMODSEQ
    uidNext,   \* server: the next UID to assign
    box,       \* server: UID -> mail, for the mail now in the folder
    rows,      \* cache.db messages: UID -> row of this folder
    state,     \* cache.db sync_state: the row of this folder (zero = none)
    wk,        \* each worker's local variables in syncFolder
    mark,      \* history: the UIDs cached when state was last put
    used       \* how many of each bounded event have happened

serverVars == <<condstore, validity, top, uidNext, box>>
cacheVars == <<rows, state, mark>>
vars == <<condstore, validity, top, uidNext, box, rows, state, wk, mark, used>>

Uid == Nat \ {0}
Mail == [msg : Msg, flag : BOOLEAN, seq : Nat, win : BOOLEAN]
Row == [msg : Msg, flag : BOOLEAN, lane : {"new", "backfill"}]
\* db.FolderSyncState: the zero value is a folder that was never synced.
SyncState == [validity : Nat, modseq : Nat]
NoState == [validity |-> 0, modseq |-> 0]

\* A table keyed by UID: a function from some of the UIDs to values in S.
IsTable(f, S) == DOMAIN f \subseteq Uid /\ f \in [DOMAIN f -> S]
Without(f, D) == [u \in DOMAIN f \ D |-> f[u]]
With(f, u, x) == [v \in DOMAIN f \cup {u} |-> IF v = u THEN x ELSE f[v]]

PC == {"idle", "get", "drop", "search", "cached", "gone", "flags", "apply",
       "fetch", "insert", "put"}

Empty == [u \in {} |-> FALSE]

\* syncFolder's locals: what Status and Sync.Get returned, the UIDs found by
\* the search and those found in the cache (prevMax is the highest of them),
\* the UIDs split three ways (the existing ones with their cached flags), the
\* flag updates not yet stored and the fetched messages not yet inserted.
Idle == [pc |-> "idle", st |-> NoState, prev |-> NoState, found |-> {},
         cached |-> {}, gone |-> {}, existing |-> Empty, fresh |-> {},
         updates |-> Empty, msgs |-> Empty]

Init ==
    /\ condstore \in BOOLEAN
    /\ validity = 1
    /\ top = 1
    /\ uidNext = 1
    /\ box = Empty
    /\ rows = Empty
    /\ state = NoState
    /\ wk = [w \in Workers |-> Idle]
    /\ mark = {}
    /\ used = [change |-> 0, renumber |-> 0, fail |-> 0, sweep |-> 0]

-------------------------------------------------------------------------------
(* The IMAP server (external): other clients and the passing of time. *)

Spend(what, bound) ==
    /\ used[what] < bound
    /\ used' = [used EXCEPT ![what] = @ + 1]

\* New mail.  A UID is never used twice under one UIDVALIDITY.
Deliver(m) ==
    /\ Spend("change", MaxChange)
    /\ \A u \in DOMAIN box : box[u].msg # m
    /\ box' = With(box, uidNext,
                   [msg |-> m, flag |-> FALSE, seq |-> top + 1, win |-> TRUE])
    /\ uidNext' = uidNext + 1
    /\ top' = top + 1
    /\ UNCHANGED <<condstore, validity, wk, cacheVars>>

\* Another client changes a message's flags: its modseq becomes the highest.
SetFlag(u) ==
    /\ Spend("change", MaxChange)
    /\ box' = With(box, u, [msg |-> box[u].msg, flag |-> ~box[u].flag,
                            seq |-> top + 1, win |-> box[u].win])
    /\ top' = top + 1
    /\ UNCHANGED <<condstore, validity, uidNext, wk, cacheVars>>

\* Expunged, or moved to another folder.
Expunge(u) ==
    /\ Spend("change", MaxChange)
    /\ box' = Without(box, {u})
    /\ UNCHANGED <<condstore, validity, top, uidNext, wk, cacheVars>>

\* The search window moves past the message, or it comes back (keep_flagged,
\* a longer window).
MoveWindow(u) ==
    /\ Spend("change", MaxChange)
    /\ box' = [box EXCEPT ![u].win = ~box[u].win]
    /\ UNCHANGED <<condstore, validity, top, uidNext, wk, cacheVars>>

\* The server rebuilds the folder: a new UIDVALIDITY, the same mail under
\* UIDs counted from 1 again in any order, mod-sequences restarted.
Renumber ==
    /\ EarlyRenumber \/ state.validity # 0
    /\ Spend("renumber", MaxRenumber)
    /\ LET n == Cardinality(DOMAIN box)
       IN \E p \in [1..n -> DOMAIN box] :
            /\ \A i, j \in 1..n : i # j => p[i] # p[j]
            /\ box' = [i \in 1..n |-> [box[p[i]] EXCEPT !.seq = 1]]
            /\ uidNext' = n + 1
    /\ validity' = validity + 1
    /\ top' = 1
    /\ UNCHANGED <<condstore, wk, cacheVars>>

-------------------------------------------------------------------------------
(* syncFolder, one action per source call or SQL statement. *)

Goto(w, pc, more) == wk' = [wk EXCEPT ![w] = [more EXCEPT !.pc = pc]]

\* src.Status: EXAMINE.  HIGHESTMODSEQ is 0 without CONDSTORE.
Status(w) ==
    /\ wk[w].pc = "idle"
    /\ Goto(w, "get", [Idle EXCEPT !.st =
            [validity |-> validity, modseq |-> IF condstore THEN top ELSE 0]])
    /\ UNCHANGED <<serverVars, cacheVars, used>>

\* (Faulty variant: the UIDVALIDITY is not compared with the stored one.)
GetStateBlind(w) ==
    /\ wk[w].pc = "get"
    /\ Goto(w, "search", [wk[w] EXCEPT !.prev = state])
    /\ UNCHANGED <<serverVars, cacheVars, used>>

\* db.Sync.Get, and the test for a changed UIDVALIDITY.
GetState(w) ==
    /\ wk[w].pc = "get"
    /\ LET changed == state.validity # 0 /\ state.validity # wk[w].st.validity
       IN Goto(w, IF changed THEN "drop" ELSE "search",
               [wk[w] EXCEPT !.prev = IF changed THEN NoState ELSE state])
    /\ UNCHANGED <<serverVars, cacheVars, used>>

\* db.Messages.DeleteFolder: the rows go, the sync_state row stays.
DropFolder(w) ==
    /\ wk[w].pc = "drop"
    /\ rows' = Empty
    /\ Goto(w, "search", wk[w])
    /\ UNCHANGED <<serverVars, state, mark, used>>

\* examineChecked: every later source call compares the UIDVALIDITY.
Checked(w) == wk[w].st.validity = validity

\* src.SearchSince.
SearchSince(w) ==
    /\ wk[w].pc = "search"
    /\ Checked(w)
    /\ Goto(w, "cached", [wk[w] EXCEPT !.found = {u \in DOMAIN box : box[u].win}])
    /\ UNCHANGED <<serverVars, cacheVars, used>>

\* (Faulty variant: the lane boundary is taken from the server's UIDs.)
SplitServerMax(w) ==
    /\ wk[w].pc = "cached"
    /\ LET have == DOMAIN rows
       IN Goto(w, "gone",
            [wk[w] EXCEPT !.cached = wk[w].found,
                          !.existing = [u \in wk[w].found \cap have |-> rows[u].flag],
                          !.fresh = wk[w].found \ have,
                          !.gone = have \ wk[w].found,
                          !.found = {}])
    /\ UNCHANGED <<serverVars, cacheVars, used>>

\* db.Messages.CachedUIDs, the lane boundary and the three-way split.
Split(w) ==
    /\ wk[w].pc = "cached"
    /\ LET have == DOMAIN rows
       IN Goto(w, "gone",
            [wk[w] EXCEPT !.cached = have,
                          !.existing = [u \in wk[w].found \cap have |-> rows[u].flag],
                          !.fresh = wk[w].found \ have,
                          !.gone = have \ wk[w].found,
                          !.found = {}])
    /\ UNCHANGED <<serverVars, cacheVars, used>>

\* (Faulty variant: mail gone from the window stays cached.)
DeleteGoneNothing(w) ==
    /\ wk[w].pc = "gone"
    /\ Goto(w, "flags", [wk[w] EXCEPT !.gone = {}])
    /\ UNCHANGED <<serverVars, cacheVars, used>>

\* db.Messages.DeleteUIDs: the cache only, never the mailbox.
DeleteGone(w) ==
    /\ wk[w].pc = "gone"
    /\ rows' = Without(rows, wk[w].gone)
    /\ Goto(w, "flags", [wk[w] EXCEPT !.gone = {}])
    /\ UNCHANGED <<serverVars, state, mark, used>>

\* src.Flags: FETCH FLAGS of the existing UIDs, CHANGEDSINCE the stored
\* mod-sequence where there is one.  Updates equal to the cached flags are
\* skipped (sameFlags), so only the differing ones are kept.
FetchFlags(w) ==
    /\ wk[w].pc = "flags"
    /\ DOMAIN wk[w].existing # {} => Checked(w)
    /\ LET since == IF condstore THEN wk[w].prev.modseq ELSE 0
           answer == {u \in DOMAIN wk[w].existing \cap DOMAIN box :
                        /\ since > 0 => box[u].seq > since
                        /\ box[u].flag # wk[w].existing[u]}
       IN Goto(w, "apply", [wk[w] EXCEPT !.existing = Empty,
                                !.updates = [u \in answer |-> box[u].flag]])
    /\ UNCHANGED <<serverVars, cacheVars, used>>

\* db.Messages.UpdateFlags, one statement per changed message; no row, no
\* effect.
UpdateFlags(w, u) ==
    /\ wk[w].pc = "apply"
    /\ rows' = IF u \in DOMAIN rows
               THEN [rows EXCEPT ![u].flag = wk[w].updates[u]] ELSE rows
    /\ Goto(w, "apply", [wk[w] EXCEPT !.updates = Without(@, {u})])
    /\ UNCHANGED <<serverVars, state, mark, used>>

FlagsDone(w) ==
    /\ wk[w].pc = "apply"
    /\ DOMAIN wk[w].updates = {}
    /\ Goto(w, IF wk[w].fresh = {} THEN "put" ELSE "fetch", wk[w])
    /\ UNCHANGED <<serverVars, cacheVars, used>>

\* The next batch: the highest UIDs first.
Batch(fresh) ==
    {u \in fresh : Cardinality({v \in fresh : v > u}) < FetchBatch}

\* src.Fetch of one batch: what is still there, with its flags of now.
FetchNew(w) ==
    /\ wk[w].pc = "fetch"
    /\ Checked(w)
    /\ LET batch == Batch(wk[w].fresh)
       IN Goto(w, "insert",
            [wk[w] EXCEPT !.fresh = @ \ batch,
                          !.msgs = [u \in batch \cap DOMAIN box |->
                                      [msg |-> box[u].msg, flag |-> box[u].flag]]])
    /\ UNCHANGED <<serverVars, cacheVars, used>>

\* (Faulty variant: a lane the table does not know.)
LaneOfUnknown(w, u) ==
    IF wk[w].prev.validity = 0 THEN "old" ELSE "new"

\* The lane of a new row (D11b).
LaneOf(w, u) ==
    IF wk[w].prev.validity = 0 \/ \E v \in wk[w].cached : u <= v THEN "backfill" ELSE "new"

\* db.Messages.Insert: an existing row of the UID is replaced.
Insert(w, u) ==
    /\ wk[w].pc = "insert"
    /\ rows' = With(rows, u, [msg |-> wk[w].msgs[u].msg, flag |-> wk[w].msgs[u].flag,
                              lane |-> LaneOf(w, u)])
    /\ Goto(w, "insert", [wk[w] EXCEPT !.msgs = Without(@, {u})])
    /\ UNCHANGED <<serverVars, state, mark, used>>

BatchDone(w) ==
    /\ wk[w].pc = "insert"
    /\ DOMAIN wk[w].msgs = {}
    /\ Goto(w, IF wk[w].fresh = {} THEN "put" ELSE "fetch", wk[w])
    /\ UNCHANGED <<serverVars, cacheVars, used>>

\* (Faulty variant: the mod-sequence of now is stored, not that of Status.)
PutStateLate(w) ==
    /\ wk[w].pc = "put"
    /\ state' = [wk[w].st EXCEPT !.modseq = top]
    /\ mark' = DOMAIN rows
    /\ Goto(w, "idle", Idle)
    /\ UNCHANGED <<serverVars, rows, used>>

\* db.Sync.Put, only at the end of a cycle that had no error.
PutState(w) ==
    /\ wk[w].pc = "put"
    /\ state' = wk[w].st
    /\ mark' = DOMAIN rows
    /\ Goto(w, "idle", Idle)
    /\ UNCHANGED <<serverVars, rows, used>>

\* ErrUIDValidityChanged ends the cycle.
Renumbered(w) ==
    /\ \/ wk[w].pc \in {"search", "fetch"}
       \/ wk[w].pc = "flags" /\ DOMAIN wk[w].existing # {}
    /\ ~Checked(w)
    /\ Goto(w, "idle", Idle)
    /\ UNCHANGED <<serverVars, cacheVars, used>>

\* Any other error return, a cancelled context or the death of the process:
\* the locals are lost, what was written stays.
Fail(w) ==
    /\ wk[w].pc # "idle"
    /\ Spend("fail", MaxFail)
    /\ Goto(w, "idle", Idle)
    /\ UNCHANGED <<serverVars, cacheVars>>

\* db.Messages.Sweep (cache_sweep): the selected rows go, and the folder's
\* sync_state with them when any row was selected.
Sweep(S) ==
    /\ S # {}
    /\ EarlyRenumber \/ state.validity \in {0, validity}
    /\ Spend("sweep", MaxSweep)
    /\ rows' = Without(rows, S)
    /\ state' = NoState
    /\ mark' = {}
    /\ UNCHANGED <<serverVars, wk>>

-------------------------------------------------------------------------------
Environment ==
    \/ \E m \in Msg : Deliver(m)
    \/ \E u \in DOMAIN box : SetFlag(u) \/ Expunge(u) \/ MoveWindow(u)
    \/ Renumber
    \/ \E S \in SUBSET DOMAIN rows : Sweep(S)

\* What a running cycle does without failing.
Step(w) ==
    \/ Status(w)
    \/ GetState(w)
    \/ DropFolder(w)
    \/ SearchSince(w)
    \/ Split(w)
    \/ DeleteGone(w)
    \/ FetchFlags(w)
    \/ \E u \in DOMAIN wk[w].updates : UpdateFlags(w, u)
    \/ FlagsDone(w)
    \/ FetchNew(w)
    \/ \E u \in DOMAIN wk[w].msgs : Insert(w, u)
    \/ BatchDone(w)
    \/ PutState(w)
    \/ Renumbered(w)

Next == Environment \/ \E w \in Workers : Step(w) \/ Fail(w)

Spec == Init /\ [][Next]_vars

\* The ticker starts a cycle for ever again and a started cycle goes on.
FairSpec == Spec /\ \A w \in Workers : WF_vars(Step(w))
-------------------------------------------------------------------------------
(* Properties. *)

LocalOK(l) ==
    /\ DOMAIN l = DOMAIN Idle
    /\ l.pc \in PC
    /\ l.st \in SyncState /\ l.prev \in SyncState
    /\ l.found \subseteq Uid /\ l.cached \subseteq Uid
    /\ l.gone \subseteq Uid /\ l.fresh \subseteq Uid
    /\ IsTable(l.existing, BOOLEAN)
    /\ IsTable(l.updates, BOOLEAN)
    /\ IsTable(l.msgs, [msg : Msg, flag : BOOLEAN])

\* The type invariant: server, cache tables and every worker's locals.
TypeOK ==
    /\ condstore \in BOOLEAN
    /\ validity \in Uid /\ top \in Uid /\ uidNext \in Uid
    /\ IsTable(box, Mail) /\ IsFiniteSet(DOMAIN box)
    /\ IsTable(rows, Row)
    /\ state \in SyncState
    /\ mark \subseteq Uid
    /\ used \in [{"change", "renumber", "fail", "sweep"} -> Nat]
    /\ DOMAIN wk = Workers
    /\ \A w \in Workers : LocalOK(wk[w])

\* While the stored UIDVALIDITY is the server's, a UID means the same mail in
\* the cache and in the mailbox: the rows of one numbering are never taken
\* for those of another (syncFolder's rebuild on a changed UIDVALIDITY).
MailIdentity ==
    state.validity = validity =>
        \A u \in DOMAIN rows \cap DOMAIN box : rows[u].msg = box[u].msg

\* A flag change the cache has missed is still ahead of the stored
\* mod-sequence, so the next FETCH CHANGEDSINCE reports it: Sync.Put never
\* moves highest_modseq past a change that was not stored.
NoLostFlagChange ==
    condstore = TRUE /\ state.validity = validity =>
        \A u \in DOMAIN rows \cap DOMAIN box :
            rows[u].flag # box[u].flag => box[u].seq > state.modseq

\* Mail above everything that was cached when the last cycle completed is
\* queued in the new-mail lane, which is never gated, and no other mail is
\* (syncFolder's D11b).  A cycle that failed may have stored the newest mail
\* alone, and left the rest of it below the highest cached UID.
LanesByArrival ==
    [][\A u \in DOMAIN rows' \ DOMAIN rows :
          state.validity = validity /\ used.fail = 0 =>
              (rows'[u].lane = "new" <=> \A v \in mark : u > v)]_vars

\* The cache holds the window as the server has it.
InSync ==
    /\ DOMAIN rows = {u \in DOMAIN box : box[u].win}
    /\ \A u \in DOMAIN rows : /\ rows[u].msg = box[u].msg
                              /\ rows[u].flag = box[u].flag

\* Once the server and the operator leave the folder alone, the cycles bring
\* the cache in line with the window and it stays so.
Converges == <>[]InSync

===============================================================================
