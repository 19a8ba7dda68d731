----------------------------- MODULE FolderProofs -----------------------------
(* Theorems about FolderSync, for every value of its constants. *)
EXTENDS FolderSync, FiniteSetTheorems, TLAPS

\* The empty table is a table over any set of keys.
LEMMA EmptyTable == ASSUME NEW S PROVE IsTable(Empty, S)
BY DEF IsTable, Empty

\* Removing rows from a table leaves a table.
LEMMA WithoutTable ==
    ASSUME NEW S, NEW f, IsTable(f, S), NEW D
    PROVE  IsTable(Without(f, D), S)
BY DEF IsTable, Without

\* Storing a row in a table leaves a table.
LEMMA WithTable ==
    ASSUME NEW S, NEW f, IsTable(f, S), NEW u \in Uid, NEW x \in S
    PROVE  IsTable(With(f, u, x), S)
BY DEF IsTable, With

\* A worker that has not begun has well-typed locals.
LEMMA IdleOK == LocalOK(Idle)
<1>1. IsTable(Empty, BOOLEAN) /\ IsTable(Empty, [msg : Msg, flag : BOOLEAN])
  BY EmptyTable
<1>2. NoState \in SyncState
  BY DEF NoState, SyncState
<1>3. QED
  BY <1>1, <1>2 DEF LocalOK, Idle, PC

\* Every initial state is well typed.
THEOREM InitTypeOK == Init => TypeOK
<1>1. IsTable(Empty, Mail) /\ IsTable(Empty, Row) /\ DOMAIN Empty = {}
  BY EmptyTable DEF Empty
<1>2. IsFiniteSet({})
  BY FS_EmptySet
<1>3. QED
  BY <1>1, <1>2, IdleOK DEF Init, TypeOK, NoState, SyncState, Uid

\* Every step of the server, a worker or a sweep keeps the types (TypeOK).
THEOREM StepTypeOK == TypeOK /\ [Next]_vars => TypeOK'
<1> SUFFICES ASSUME TypeOK, [Next]_vars PROVE TypeOK'
  OBVIOUS
<1> USE DEF TypeOK
<1>1. CASE UNCHANGED vars
  BY <1>1 DEF vars, LocalOK, IsTable
<1>2. ASSUME NEW m \in Msg, Deliver(m) PROVE TypeOK'
  <2>1. [msg |-> m, flag |-> FALSE, seq |-> top + 1, win |-> TRUE] \in Mail
    BY DEF Mail, Uid
  <2>2. IsTable(box', Mail)
    BY <1>2, <2>1, WithTable DEF Deliver
  <2>3. IsFiniteSet(DOMAIN box')
    BY <1>2, FS_AddElement DEF Deliver, With
  <2>4. QED
    BY <1>2, <2>2, <2>3 DEF Deliver, Spend, cacheVars, Uid
<1>3. ASSUME NEW u \in DOMAIN box, SetFlag(u) PROVE TypeOK'
  <2> DEFINE new == [msg |-> box[u].msg, flag |-> ~box[u].flag,
                     seq |-> top + 1, win |-> box[u].win]
  <2>a. box[u] \in Mail
    BY DEF IsTable
  <2>b. new \in Mail
    BY <2>a DEF Mail, Uid
  <2>c. box' = With(box, u, new)
    BY <1>3 DEF SetFlag
  <2>1. IsTable(box', Mail) /\ DOMAIN box' = DOMAIN box
    BY <2>b, <2>c DEF IsTable, With
  <2>2. QED
    BY <1>3, <2>1 DEF SetFlag, Spend, cacheVars, Uid
<1>4. ASSUME NEW u \in DOMAIN box, Expunge(u) PROVE TypeOK'
  <2>1. IsTable(box', Mail)
    BY <1>4, WithoutTable DEF Expunge
  <2>2. IsFiniteSet(DOMAIN box')
    BY <1>4, FS_RemoveElement DEF Expunge, Without
  <2>3. QED
    BY <1>4, <2>1, <2>2 DEF Expunge, Spend, cacheVars
<1>5. ASSUME NEW u \in DOMAIN box, MoveWindow(u) PROVE TypeOK'
  <2>1. IsTable(box', Mail) /\ DOMAIN box' = DOMAIN box
    BY <1>5 DEF MoveWindow, IsTable, Mail
  <2>2. QED
    BY <1>5, <2>1 DEF MoveWindow, Spend, cacheVars
<1>6. CASE Renumber
  <2> DEFINE n == Cardinality(DOMAIN box)
  <2>1. n \in Nat
    BY FS_CardinalityType
  <2>2. PICK p \in [1..n -> DOMAIN box] :
           /\ box' = [i \in 1..n |-> [box[p[i]] EXCEPT !.seq = 1]]
           /\ uidNext' = n + 1
    BY <1>6 DEF Renumber
  <2>a. ASSUME NEW i \in 1..n PROVE [box[p[i]] EXCEPT !.seq = 1] \in Mail
    <3>1. box[p[i]] \in Mail
      BY <2>2 DEF IsTable
    <3>2. QED
      BY <3>1 DEF Mail
  <2>3. IsTable(box', Mail) /\ DOMAIN box' = 1..n
    BY <2>1, <2>2, <2>a DEF IsTable, Uid
  <2>4. IsFiniteSet(DOMAIN box')
    BY <2>1, <2>3, FS_Interval
  <2>5. QED
    BY <1>6, <2>1, <2>2, <2>3, <2>4 DEF Renumber, Spend, cacheVars, Uid
<1>7. ASSUME NEW S \in SUBSET DOMAIN rows, Sweep(S) PROVE TypeOK'
  <2>1. IsTable(rows', Row)
    BY <1>7, WithoutTable DEF Sweep
  <2>2. QED
    BY <1>7, <2>1 DEF Sweep, Spend, serverVars, NoState, SyncState
<1>8. ASSUME NEW w \in Workers, Step(w) \/ Fail(w) PROVE TypeOK'
  <2> USE DEF Goto, serverVars, cacheVars, PC
  <2>0. LocalOK(wk[w])
    OBVIOUS
  <2>1. CASE Status(w)
    <3>1. LocalOK([[Idle EXCEPT !.st =
            [validity |-> validity, modseq |-> IF condstore THEN top ELSE 0]]
            EXCEPT !.pc = "get"])
      BY IdleOK DEF LocalOK, Idle, SyncState, Uid
    <3>2. QED
      BY <2>1, <3>1 DEF Status
  <2>2. CASE GetState(w)
    BY <2>0, <2>2 DEF GetState, LocalOK, Idle, NoState, SyncState
  <2>3. CASE DropFolder(w)
    BY <2>0, <2>3, EmptyTable DEF DropFolder, LocalOK, Idle
  <2>4. CASE SearchSince(w)
    BY <2>0, <2>4 DEF SearchSince, LocalOK, Idle, IsTable
  <2>5. CASE Split(w)
    BY <2>0, <2>5 DEF Split, LocalOK, Idle, IsTable, Row
  <2>6. CASE DeleteGone(w)
    BY <2>0, <2>6, WithoutTable DEF DeleteGone, LocalOK, Idle
  <2>7. CASE FetchFlags(w)
    BY <2>0, <2>7 DEF FetchFlags, LocalOK, Idle, IsTable, Mail, Empty
  <2>8. ASSUME NEW u \in DOMAIN wk[w].updates, UpdateFlags(w, u) PROVE TypeOK'
    BY <2>0, <2>8 DEF UpdateFlags, LocalOK, Idle, IsTable, Row, Without
  <2>9. CASE FlagsDone(w)
    BY <2>0, <2>9 DEF FlagsDone, LocalOK, Idle
  <2>10. CASE FetchNew(w)
    BY <2>0, <2>10 DEF FetchNew, Batch, LocalOK, Idle, IsTable, Mail
  <2>11. ASSUME NEW u \in DOMAIN wk[w].msgs, Insert(w, u) PROVE TypeOK'
    BY <2>0, <2>11 DEF Insert, LaneOf, LocalOK, Idle, IsTable, Row, With, Without
  <2>12. CASE BatchDone(w)
    BY <2>0, <2>12 DEF BatchDone, LocalOK, Idle
  <2>13. CASE PutState(w)
    BY <2>0, <2>13, IdleOK DEF PutState, LocalOK, Idle, IsTable
  <2>14. CASE Renumbered(w)
    BY <2>14, IdleOK DEF Renumbered, LocalOK, Idle
  <2>15. CASE Fail(w)
    <3>1. [Idle EXCEPT !.pc = "idle"] = Idle
      BY DEF Idle
    <3>2. used' \in [{"change", "renumber", "fail", "sweep"} -> Nat]
      BY <2>15 DEF Fail, Spend
    <3>3. QED
      BY <2>15, <3>1, <3>2, IdleOK DEF Fail
  <2>16. QED
    BY <1>8, <2>1, <2>2, <2>3, <2>4, <2>5, <2>6, <2>7, <2>8, <2>9, <2>10,
       <2>11, <2>12, <2>13, <2>14, <2>15 DEF Step
<1>9. QED
  BY <1>1, <1>2, <1>3, <1>4, <1>5, <1>6, <1>7, <1>8 DEF Next, Environment

\* The tables, the stored state and every worker's locals keep their types.
THEOREM TypeCorrect == Spec => []TypeOK
BY InitTypeOK, StepTypeOK, PTL DEF Spec
-------------------------------------------------------------------------------
(* NoLostFlagChange, for a folder only one worker syncs.  It is not        *)
(* inductive: the next Sync.Put stores a mod-sequence read at the start of *)
(* the cycle, so what the worker still holds has to be accounted for.      *)

\* Every cached flag that differs from the server's is ahead of m.
Ahead(m) ==
    \A u \in DOMAIN rows \cap DOMAIN box :
        rows[u].flag # box[u].flag => box[u].seq > m

\* The stored state is of this numbering or an older one.
StoredState ==
    /\ state.validity = 0 => state.modseq = 0
    /\ state.validity <= validity
    /\ state.validity = validity => state.modseq <= top /\ Ahead(state.modseq)

\* The mod-sequence a running cycle will store is not below the stored one
\* and not above the server's.
CycleState(l) ==
    l.pc # "idle" =>
        /\ l.st.validity # 0 /\ l.st.validity <= validity
        /\ l.st.validity = validity => l.st.modseq <= top
        /\ state.validity <= l.st.validity
        /\ state.validity = l.st.validity => state.modseq <= l.st.modseq
        /\ l.pc # "get" => l.prev.modseq <= l.st.modseq

\* Before the flags are fetched, CHANGEDSINCE reports every difference;
\* after that the worker holds the difference itself.
CycleFlags(l) ==
    l.st.validity = validity =>
        /\ l.pc \in {"search", "cached", "gone", "flags"} /\ l.prev.modseq > 0 =>
              Ahead(l.prev.modseq)
        /\ l.pc \in {"gone", "flags"} =>
              \A u \in DOMAIN rows \cap DOMAIN l.existing :
                  l.existing[u] = rows[u].flag
        /\ l.pc = "gone" => DOMAIN rows \subseteq l.gone \cup DOMAIN l.existing
        /\ l.pc = "flags" => DOMAIN rows \subseteq DOMAIN l.existing
        /\ l.pc = "apply" =>
              /\ \A u \in (DOMAIN rows \cap DOMAIN box) \ DOMAIN l.updates :
                    rows[u].flag # box[u].flag => box[u].seq > l.st.modseq
              /\ \A u \in DOMAIN l.updates \cap DOMAIN box :
                    l.updates[u] # box[u].flag => box[u].seq > l.st.modseq
        /\ l.pc \in {"fetch", "insert", "put"} => Ahead(l.st.modseq)
        /\ l.pc = "insert" =>
              \A u \in DOMAIN l.msgs \cap DOMAIN box :
                  l.msgs[u].flag # box[u].flag => box[u].seq > l.st.modseq

FlagInv ==
    /\ TypeOK
    /\ StoredState
    /\ \A w \in Workers : CycleState(wk[w]) /\ CycleFlags(wk[w])

\* Nothing is cached or in flight at the start.
LEMMA InitFlagInv == Init => FlagInv
<1> SUFFICES ASSUME Init PROVE FlagInv
  OBVIOUS
<1>1. TypeOK
  BY InitTypeOK
<1>2. StoredState
  BY DEF Init, StoredState, NoState
<1>3. ASSUME NEW w \in Workers PROVE CycleState(wk[w]) /\ CycleFlags(wk[w])
  BY DEF Init, Idle, CycleState, CycleFlags
<1>4. QED
  BY <1>1, <1>2, <1>3 DEF FlagInv

\* What the server changes on its own is ahead of every mod-sequence it has
\* given out before.
Newer ==
    \A u \in DOMAIN box' :
        \/ box'[u].seq > top
        \/ /\ u \in DOMAIN box
           /\ box'[u].flag = box[u].flag
           /\ box'[u].seq = box[u].seq

ServerOnly == UNCHANGED <<validity, wk, rows, state>> /\ top' >= top /\ Newer

\* A delivery gives the new mail a mod-sequence above all stored ones.
LEMMA DeliverNewer ==
    ASSUME TypeOK, NEW m \in Msg, Deliver(m) PROVE ServerOnly
<1>1. top + 1 > top /\ top' = top + 1 /\ top' >= top
  BY DEF Deliver, TypeOK, Uid
<1>2. UNCHANGED <<validity, wk, rows, state>>
  BY DEF Deliver, cacheVars
<1>3. ASSUME NEW u \in DOMAIN box'
      PROVE  IF u = uidNext THEN box'[u].seq = top + 1
             ELSE u \in DOMAIN box /\ box'[u] = box[u]
  BY DEF Deliver, With
<1>4. QED
  BY <1>1, <1>2, <1>3 DEF ServerOnly, Newer

\* So does a flag change to the mail it changes.
LEMMA SetFlagNewer ==
    ASSUME TypeOK, NEW v \in DOMAIN box, SetFlag(v) PROVE ServerOnly
<1>1. top + 1 > top /\ top' = top + 1 /\ top' >= top
  BY DEF SetFlag, TypeOK, Uid
<1>2. UNCHANGED <<validity, wk, rows, state>>
  BY DEF SetFlag, cacheVars
<1>3. ASSUME NEW u \in DOMAIN box'
      PROVE  IF u = v THEN box'[u].seq = top + 1
             ELSE u \in DOMAIN box /\ box'[u] = box[u]
  BY DEF SetFlag, With
<1>4. QED
  BY <1>1, <1>2, <1>3 DEF ServerOnly, Newer

\* An expunge changes the flags of no mail that stays.
LEMMA ExpungeNewer ==
    ASSUME TypeOK, NEW v \in DOMAIN box, Expunge(v) PROVE ServerOnly
BY DEF TypeOK, Uid, Expunge, Without, cacheVars, ServerOnly, Newer

\* The window moves without changing a mail.
LEMMA MoveWindowNewer ==
    ASSUME TypeOK, NEW v \in DOMAIN box, MoveWindow(v) PROVE ServerOnly
<1>1. top' >= top /\ UNCHANGED <<validity, wk, rows, state>>
  BY DEF MoveWindow, TypeOK, Uid, cacheVars
<1>2. Newer
  BY DEF MoveWindow, TypeOK, IsTable, Mail, Newer
<1>3. QED
  BY <1>1, <1>2 DEF ServerOnly

\* The server's own steps preserve the invariant.
LEMMA ServerFlagInv == ASSUME FlagInv, TypeOK', ServerOnly PROVE FlagInv'
<1>0. TypeOK /\ StoredState /\ UNCHANGED <<validity, wk, rows, state>>
  BY DEF FlagInv, ServerOnly
<1>1. top' >= top /\ top \in Nat /\ top' \in Nat
  BY <1>0 DEF ServerOnly, TypeOK, Uid
<1>2. Newer
  BY DEF ServerOnly
<1>3. ASSUME NEW m \in Nat, m <= top, Ahead(m) PROVE Ahead(m)'
  BY <1>0, <1>1, <1>2, <1>3 DEF Newer, Ahead, TypeOK, IsTable, Mail
<1>4. StoredState'
  BY <1>0, <1>1, <1>3 DEF StoredState, TypeOK, SyncState, Uid
<1>5. ASSUME NEW w \in Workers PROVE (CycleState(wk[w]) /\ CycleFlags(wk[w]))'
  <2>1. LocalOK(wk[w]) /\ CycleState(wk[w]) /\ CycleFlags(wk[w])
    BY DEF FlagInv, TypeOK
  <2>2. CycleState(wk[w])'
    BY <1>0, <1>1, <2>1 DEF CycleState, TypeOK, LocalOK, SyncState, Uid
  <2>3. CycleFlags(wk[w])'
    <3>1. SUFFICES ASSUME wk[w].st.validity = validity PROVE CycleFlags(wk[w])'
      BY <1>0 DEF CycleFlags
    <3>2. CASE wk[w].pc \in {"idle", "get", "drop"}
      BY <1>0, <3>2 DEF CycleFlags
    <3>3. CASE wk[w].pc \in {"search", "cached", "gone", "flags"}
      BY <1>0, <1>3, <2>1, <3>1, <3>3
         DEF CycleFlags, CycleState, LocalOK, SyncState, TypeOK, Uid
    <3>4. CASE wk[w].pc = "apply"
      BY <1>0, <1>1, <1>2, <2>1, <3>1, <3>4
         DEF Newer, CycleFlags, CycleState, LocalOK, SyncState, TypeOK, Uid, IsTable, Mail
    <3>5. CASE wk[w].pc \in {"fetch", "insert", "put"}
      <4>1. Ahead(wk[w].st.modseq)'
        BY <1>0, <1>3, <2>1, <3>1, <3>5 DEF CycleFlags, CycleState, LocalOK, SyncState
      <4>2. ASSUME wk[w].pc = "insert", NEW u \in DOMAIN wk[w].msgs \cap DOMAIN box',
                   wk[w].msgs[u].flag # box'[u].flag
            PROVE  box'[u].seq > wk[w].st.modseq
        <5>1. wk[w].st.modseq \in Nat /\ wk[w].st.modseq <= top
          BY <2>1, <3>1, <4>2 DEF CycleState, LocalOK, SyncState
        <5>2. box'[u].seq \in Nat
          BY <1>0 DEF TypeOK, IsTable, Mail
        <5>3. CASE box'[u].seq > top
          BY <1>1, <5>1, <5>2, <5>3
        <5>4. CASE /\ u \in DOMAIN box
                   /\ box'[u].flag = box[u].flag
                   /\ box'[u].seq = box[u].seq
          BY <2>1, <3>1, <4>2, <5>4 DEF CycleFlags
        <5>5. QED
          BY <1>2, <5>3, <5>4 DEF Newer
      <4>3. QED
        BY <1>0, <3>5, <4>1, <4>2 DEF CycleFlags
    <3>6. QED
      BY <2>1, <3>2, <3>3, <3>4, <3>5 DEF LocalOK, PC
  <2>4. QED
    BY <2>2, <2>3
<1>6. QED
  BY <1>0, <1>4, <1>5 DEF FlagInv, TypeOK

\* So does a renumbering, which the next cycle notices before it trusts a row.
LEMMA RenumberFlagInv == ASSUME FlagInv, TypeOK', Renumber PROVE FlagInv'
<1>0. /\ TypeOK /\ StoredState
      /\ UNCHANGED <<wk, rows, state>> /\ validity' = validity + 1
  BY DEF FlagInv, Renumber, cacheVars
<1>1. StoredState'
  BY <1>0 DEF StoredState, TypeOK, SyncState, Uid
<1>2. ASSUME NEW w \in Workers PROVE (CycleState(wk[w]) /\ CycleFlags(wk[w]))'
  <2>1. LocalOK(wk[w]) /\ CycleState(wk[w])
    BY DEF FlagInv, TypeOK
  <2>2. CASE wk[w].pc = "idle"
    BY <1>0, <2>2 DEF CycleState, CycleFlags
  <2>3. CASE wk[w].pc # "idle"
    BY <1>0, <2>1, <2>3 DEF CycleState, CycleFlags, LocalOK, SyncState, TypeOK, Uid
  <2>4. QED
    BY <2>2, <2>3
<1>3. QED
  BY <1>0, <1>1, <1>2 DEF FlagInv, TypeOK

\* A sweep forgets rows and the mod-sequence together (CleanSweep).
LEMMA SweepFlagInv ==
    ASSUME FlagInv, TypeOK', NEW S \in SUBSET DOMAIN rows, Sweep(S)
    PROVE  FlagInv'
<1>0. /\ TypeOK
      /\ UNCHANGED <<validity, top, box, wk>>
      /\ state' = NoState
      /\ DOMAIN rows' \subseteq DOMAIN rows
      /\ \A u \in DOMAIN rows' : rows'[u] = rows[u]
  BY DEF FlagInv, Sweep, serverVars, Without
<1>1. StoredState'
  BY <1>0 DEF StoredState, NoState, TypeOK, Uid
<1>2. ASSUME NEW w \in Workers PROVE (CycleState(wk[w]) /\ CycleFlags(wk[w]))'
  <2>1. LocalOK(wk[w]) /\ CycleState(wk[w]) /\ CycleFlags(wk[w])
    BY DEF FlagInv, TypeOK
  <2>2. CycleState(wk[w])'
    BY <1>0, <2>1 DEF CycleState, NoState, LocalOK, SyncState
  <2>3. CycleFlags(wk[w])'
    BY <1>0, <2>1 DEF CycleFlags, Ahead
  <2>4. QED
    BY <2>2, <2>3
<1>3. QED
  BY <1>0, <1>1, <1>2 DEF FlagInv, TypeOK

\* A step of the only worker.
LEMMA WorkerFlagInv ==
    ASSUME FlagInv, TypeOK', condstore = TRUE,
           NEW w \in Workers, \A v \in Workers : v = w, Step(w) \/ Fail(w)
    PROVE  FlagInv'
<1> DEFINE l == wk[w]
<1>0. /\ TypeOK /\ LocalOK(l) /\ StoredState /\ CycleState(l) /\ CycleFlags(l)
      /\ validity \in Nat /\ top \in Nat /\ validity # 0 /\ w \in DOMAIN wk
  BY DEF FlagInv, TypeOK, Uid
<1> SUFFICES StoredState' /\ CycleState(wk[w])' /\ CycleFlags(wk[w])'
  BY DEF FlagInv
<1> USE DEF Goto, serverVars, cacheVars
\* A step that leaves the tables and the server alone keeps StoredState.
<1>s. ASSUME UNCHANGED <<serverVars, rows, state>> PROVE StoredState'
  BY <1>0, <1>s DEF StoredState, Ahead
<1>1. CASE Status(w)
  <2>1. wk'[w] = [[Idle EXCEPT !.st = [validity |-> validity, modseq |-> top]]
                  EXCEPT !.pc = "get"]
    BY <1>0, <1>1 DEF Status
  <2>2. wk'[w].pc = "get" /\ wk'[w].st = [validity |-> validity, modseq |-> top]
    BY <2>1 DEF Idle
  <2>3. StoredState'
    BY <1>1, <1>s DEF Status
  <2>4. CycleState(wk[w])'
    BY <1>0, <1>1, <2>2 DEF Status, CycleState, StoredState, TypeOK, SyncState
  <2>5. QED
    BY <2>2, <2>3, <2>4 DEF CycleFlags
<1>2. CASE GetState(w)
  <2> DEFINE changed == state.validity # 0 /\ state.validity # l.st.validity
  <2>1. /\ wk'[w].pc = IF changed THEN "drop" ELSE "search"
        /\ wk'[w].prev = IF changed THEN NoState ELSE state
        /\ wk'[w].st = l.st /\ l.pc = "get"
    BY <1>0, <1>2 DEF GetState, LocalOK, Idle
  <2>2. StoredState'
    BY <1>2, <1>s DEF GetState
  <2>3. CycleState(wk[w])'
    BY <1>0, <1>2, <2>1
       DEF GetState, CycleState, StoredState, NoState, TypeOK, LocalOK, SyncState
  <2>4. CycleFlags(wk[w])'
    BY <1>0, <1>2, <2>1
       DEF GetState, CycleFlags, StoredState, NoState, Ahead, TypeOK, SyncState
  <2>5. QED
    BY <2>2, <2>3, <2>4
<1>3. CASE DropFolder(w)
  <2>1. wk'[w].pc = "search" /\ wk'[w].prev = l.prev /\ wk'[w].st = l.st /\ l.pc = "drop"
    BY <1>0, <1>3 DEF DropFolder, LocalOK, Idle
  <2>2. DOMAIN rows' = {} /\ UNCHANGED <<serverVars, state>>
    BY <1>3 DEF DropFolder, Empty
  <2>3. QED
    BY <1>0, <2>1, <2>2 DEF StoredState, CycleState, CycleFlags, Ahead
<1>4. CASE SearchSince(w)
  <2>1. wk'[w].pc = "cached" /\ wk'[w].prev = l.prev /\ wk'[w].st = l.st /\ l.pc = "search"
    BY <1>0, <1>4 DEF SearchSince, LocalOK, Idle
  <2>2. UNCHANGED <<serverVars, rows, state>>
    BY <1>4 DEF SearchSince
  <2>3. QED
    BY <1>0, <1>s, <2>1, <2>2 DEF CycleState, CycleFlags, Ahead
<1>5. CASE Split(w)
  <2>1. /\ wk'[w].pc = "gone" /\ wk'[w].prev = l.prev /\ wk'[w].st = l.st
        /\ wk'[w].existing = [u \in l.found \cap DOMAIN rows |-> rows[u].flag]
        /\ wk'[w].gone = DOMAIN rows \ l.found
        /\ l.pc = "cached"
    BY <1>0, <1>5 DEF Split, LocalOK, Idle
  <2>2. UNCHANGED <<serverVars, rows, state>>
    BY <1>5 DEF Split
  <2>3. QED
    BY <1>0, <1>s, <2>1, <2>2 DEF CycleState, CycleFlags, Ahead
<1>6. CASE DeleteGone(w)
  <2>1. /\ wk'[w].pc = "flags" /\ wk'[w].prev = l.prev /\ wk'[w].st = l.st
        /\ wk'[w].existing = l.existing /\ l.pc = "gone"
    BY <1>0, <1>6 DEF DeleteGone, LocalOK, Idle
  <2>2. /\ UNCHANGED <<serverVars, state>>
        /\ DOMAIN rows' = DOMAIN rows \ l.gone
        /\ \A u \in DOMAIN rows' : rows'[u] = rows[u]
    BY <1>6 DEF DeleteGone, Without
  <2>3. QED
    BY <1>0, <2>1, <2>2 DEF StoredState, CycleState, CycleFlags, Ahead
<1>7. CASE FetchFlags(w)
  <2> DEFINE answer == {u \in DOMAIN l.existing \cap DOMAIN box :
                          /\ l.prev.modseq > 0 => box[u].seq > l.prev.modseq
                          /\ box[u].flag # l.existing[u]}
  <2>1. /\ wk'[w].pc = "apply" /\ wk'[w].prev = l.prev /\ wk'[w].st = l.st
        /\ wk'[w].updates = [u \in answer |-> box[u].flag] /\ l.pc = "flags"
    BY <1>0, <1>7 DEF FetchFlags, LocalOK, Idle
  <2>2. UNCHANGED <<serverVars, rows, state>>
    BY <1>7 DEF FetchFlags
  <2>3. ASSUME l.st.validity = validity,
               NEW u \in DOMAIN rows \cap DOMAIN box, rows[u].flag # box[u].flag
        PROVE  u \in answer
    BY <1>0, <2>1, <2>3 DEF CycleFlags, Ahead
  <2>4. CycleFlags(wk[w])'
    BY <1>0, <2>1, <2>2, <2>3 DEF CycleFlags
  <2>5. QED
    BY <1>0, <1>s, <2>1, <2>2, <2>4 DEF CycleState
<1>8. ASSUME NEW u \in DOMAIN l.updates, UpdateFlags(w, u)
      PROVE  StoredState' /\ CycleState(wk[w])' /\ CycleFlags(wk[w])'
  <2>1. /\ wk'[w].pc = "apply" /\ wk'[w].prev = l.prev /\ wk'[w].st = l.st
        /\ wk'[w].updates = Without(l.updates, {u}) /\ l.pc = "apply"
    BY <1>0, <1>8 DEF UpdateFlags, LocalOK, Idle
  <2>2. /\ UNCHANGED <<serverVars, state>>
        /\ DOMAIN rows' = DOMAIN rows
        /\ \A v \in DOMAIN rows :
              rows'[v].flag = IF v = u THEN l.updates[u] ELSE rows[v].flag
    BY <1>0, <1>8 DEF UpdateFlags, TypeOK, IsTable, Row
  <2>3. ASSUME l.st.validity = validity, u \in DOMAIN box, l.updates[u] # box[u].flag
        PROVE  box[u].seq > l.st.modseq
    BY <1>0, <2>1, <2>3 DEF CycleFlags
  <2>4. CycleFlags(wk[w])'
    BY <1>0, <2>1, <2>2 DEF CycleFlags, Without
  <2>5. ASSUME state.validity = validity PROVE Ahead(state.modseq)'
    <3>1. l.st.validity = validity /\ state.modseq <= l.st.modseq
      BY <1>0, <2>1, <2>5 DEF CycleState, LocalOK, SyncState
    <3>2. Ahead(state.modseq)
      BY <1>0, <2>5 DEF StoredState
    <3>3. QED
      BY <1>0, <2>2, <2>3, <3>1, <3>2
         DEF Ahead, LocalOK, TypeOK, SyncState, IsTable, Mail
  <2>6. QED
    BY <1>0, <2>1, <2>2, <2>4, <2>5 DEF StoredState, CycleState
<1>9. CASE FlagsDone(w)
  <2>1. /\ wk'[w].pc \in {"put", "fetch"} /\ wk'[w].prev = l.prev /\ wk'[w].st = l.st
        /\ DOMAIN l.updates = {} /\ l.pc = "apply"
    BY <1>0, <1>9 DEF FlagsDone, LocalOK, Idle
  <2>2. UNCHANGED <<serverVars, rows, state>>
    BY <1>9 DEF FlagsDone
  <2>3. QED
    BY <1>0, <1>s, <2>1, <2>2 DEF CycleState, CycleFlags, Ahead
<1>10. CASE FetchNew(w)
  <2>1. /\ wk'[w].pc = "insert" /\ wk'[w].prev = l.prev /\ wk'[w].st = l.st
        /\ wk'[w].msgs = [u \in Batch(l.fresh) \cap DOMAIN box |->
                             [msg |-> box[u].msg, flag |-> box[u].flag]]
        /\ l.pc = "fetch"
    BY <1>0, <1>10 DEF FetchNew, LocalOK, Idle
  <2>2. UNCHANGED <<serverVars, rows, state>>
    BY <1>10 DEF FetchNew
  <2>3. QED
    BY <1>0, <1>s, <2>1, <2>2 DEF CycleState, CycleFlags, Ahead
<1>11. ASSUME NEW u \in DOMAIN l.msgs, Insert(w, u)
       PROVE  StoredState' /\ CycleState(wk[w])' /\ CycleFlags(wk[w])'
  <2>1. /\ wk'[w].pc = "insert" /\ wk'[w].prev = l.prev /\ wk'[w].st = l.st
        /\ wk'[w].msgs = Without(l.msgs, {u}) /\ l.pc = "insert"
    BY <1>0, <1>11 DEF Insert, LocalOK, Idle
  <2>2. /\ UNCHANGED <<serverVars, state>>
        /\ DOMAIN rows' = DOMAIN rows \cup {u}
        /\ rows'[u].flag = l.msgs[u].flag
        /\ \A v \in DOMAIN rows \ {u} : rows'[v] = rows[v]
    BY <1>11 DEF Insert, With
  <2>3. ASSUME l.st.validity = validity, u \in DOMAIN box, l.msgs[u].flag # box[u].flag
        PROVE  box[u].seq > l.st.modseq
    BY <1>0, <2>1, <2>3 DEF CycleFlags
  <2>4. CycleFlags(wk[w])'
    BY <1>0, <2>1, <2>2 DEF CycleFlags, Without, Ahead
  <2>5. ASSUME state.validity = validity PROVE Ahead(state.modseq)'
    <3>1. l.st.validity = validity /\ state.modseq <= l.st.modseq
      BY <1>0, <2>1, <2>5 DEF CycleState, LocalOK, SyncState
    <3>2. Ahead(state.modseq)
      BY <1>0, <2>5 DEF StoredState
    <3>3. QED
      BY <1>0, <2>2, <2>3, <3>1, <3>2
         DEF Ahead, LocalOK, TypeOK, SyncState, IsTable, Mail
  <2>6. QED
    BY <1>0, <2>1, <2>2, <2>4, <2>5 DEF StoredState, CycleState
<1>12. CASE BatchDone(w)
  <2>1. /\ wk'[w].pc \in {"put", "fetch"} /\ wk'[w].prev = l.prev /\ wk'[w].st = l.st
        /\ l.pc = "insert"
    BY <1>0, <1>12 DEF BatchDone, LocalOK, Idle
  <2>2. UNCHANGED <<serverVars, rows, state>>
    BY <1>12 DEF BatchDone
  <2>3. QED
    BY <1>0, <1>s, <2>1, <2>2 DEF CycleState, CycleFlags, Ahead
<1>13. CASE PutState(w)
  <2>1. wk'[w].pc = "idle" /\ l.pc = "put"
    BY <1>0, <1>13 DEF PutState, Idle
  <2>2. state' = l.st /\ UNCHANGED <<serverVars, rows>>
    BY <1>13 DEF PutState
  <2>3. l.st.validity # 0
    BY <1>0, <2>1 DEF CycleState
  <2>4. QED
    BY <1>0, <2>1, <2>2, <2>3 DEF StoredState, CycleState, CycleFlags, Ahead
<1>14. CASE Renumbered(w) \/ Fail(w)
  <2>1. wk'[w].pc = "idle" /\ UNCHANGED <<serverVars, rows, state>>
    BY <1>0, <1>14 DEF Renumbered, Fail, Idle
  <2>2. QED
    BY <1>s, <2>1 DEF CycleState, CycleFlags
<1>15. QED
  BY <1>1, <1>2, <1>3, <1>4, <1>5, <1>6, <1>7, <1>8, <1>9, <1>10, <1>11,
     <1>12, <1>13, <1>14 DEF Step
\* Every step preserves the invariant.
LEMMA FlagStep ==
    ASSUME FlagInv, TypeOK', condstore = TRUE,
           \A v, w \in Workers : v = w, [Next]_vars
    PROVE  FlagInv'
<1>1. CASE UNCHANGED vars
  BY <1>1 DEF vars, FlagInv, StoredState, Ahead, CycleState, CycleFlags
<1>2. CASE Environment
  <2>1. TypeOK
    BY DEF FlagInv
  <2>2. CASE \E m \in Msg : Deliver(m)
    BY <2>1, <2>2, DeliverNewer, ServerFlagInv
  <2>3. CASE \E u \in DOMAIN box : SetFlag(u) \/ Expunge(u) \/ MoveWindow(u)
    BY <2>1, <2>3, SetFlagNewer, ExpungeNewer, MoveWindowNewer, ServerFlagInv
  <2>4. QED
    BY <1>2, <2>2, <2>3, RenumberFlagInv, SweepFlagInv DEF Environment
<1>3. CASE \E w \in Workers : Step(w) \/ Fail(w)
  BY <1>3, WorkerFlagInv
<1>4. QED
  BY <1>1, <1>2, <1>3 DEF Next

\* A server keeps or lacks CONDSTORE for good.
LEMMA ServerKind == [Next]_vars => condstore' = condstore
BY DEF Next, vars, Environment, Deliver, SetFlag, Expunge, MoveWindow,
       Renumber, Sweep, Step, Fail, Status, GetState, DropFolder, SearchSince,
       Split, DeleteGone, FetchFlags, UpdateFlags, FlagsDone, FetchNew, Insert,
       BatchDone, PutState, Renumbered, serverVars

\* Where one worker at most syncs the folder, no failure, restart, sweep or
\* renumbering makes a cycle store a mod-sequence past a flag change it has
\* not stored.
THEOREM OneWorkerLosesNoFlagChange ==
    ASSUME \A v, w \in Workers : v = w
    PROVE  Spec => []NoLostFlagChange
<1>1. Init => (condstore = TRUE => FlagInv)
  BY InitFlagInv
<1>2. (condstore = TRUE => FlagInv) /\ TypeOK' /\ [Next]_vars
         => (condstore = TRUE => FlagInv)'
  <2> SUFFICES ASSUME condstore = TRUE => FlagInv, TypeOK', [Next]_vars,
                      condstore' = TRUE
               PROVE  FlagInv'
    OBVIOUS
  <2>1. condstore = TRUE
    BY ServerKind
  <2>2. QED
    BY <2>1, FlagStep
<1>3. (condstore = TRUE => FlagInv) => NoLostFlagChange
  BY DEF FlagInv, StoredState, Ahead, NoLostFlagChange
<1>4. QED
  BY <1>1, <1>2, <1>3, TypeCorrect, PTL DEF Spec

-------------------------------------------------------------------------------
(***************************************************************************)
(* A UID means the same mail in the cache and in the mailbox, where one    *)
(* worker syncs the folder and it is not renumbered before it has a        *)
(* sync_state.  (The runs folder_early_renumber and folder_two_workers     *)
(* show what happens without these two conditions.)                        *)
(*                                                                         *)
(* MailIdentity speaks of the stored state alone.  IdentityInv adds what a *)
(* cycle still holds: the mail it fetched, under a numbering that may have *)
(* changed since, and a folder whose state a sweep removed.                *)
(***************************************************************************)

\* The UIDs of a table were given out, and mean the mailbox's mail.
Right(t) ==
    \A u \in DOMAIN t : u < uidNext /\ (u \in DOMAIN box => t[u].msg = box[u].msg)

\* A folder without a sync_state has not been renumbered since its cycle
\* began; past GetState and DropFolder a cycle of this numbering has only
\* rows of this numbering, and so has it fetched only such mail.
CycleIds(l) ==
    l.pc # "idle" =>
        /\ l.st.validity # 0 /\ state.validity <= l.st.validity /\ l.st.validity <= validity
        /\ state.validity = 0 => l.st.validity = validity
        /\ l.st.validity = validity =>
              /\ l.pc \notin {"get", "drop"} => Right(rows)
              /\ l.pc = "insert" => Right(l.msgs)

IdentityInv ==
    /\ TypeOK
    /\ \A u \in DOMAIN box : u < uidNext
    /\ state.validity <= validity
    /\ state.validity \in {0, validity} => Right(rows)
    /\ \A w \in Workers : CycleIds(wk[w])

\* Nothing is cached or in flight at the start.
LEMMA InitIdentity == ASSUME Init PROVE IdentityInv
<1>1. TypeOK
  BY InitTypeOK
<1>2. QED
  BY <1>1 DEF Init, IdentityInv, Right, CycleIds, Idle, NoState, Empty

\* The mailbox changes, but a UID it gave out keeps its mail.
SameMail ==
    /\ UNCHANGED <<validity, wk, rows, state>>
    /\ uidNext' >= uidNext
    /\ \A u \in DOMAIN box' :
          /\ u < uidNext'
          /\ u < uidNext => u \in DOMAIN box /\ box'[u].msg = box[u].msg

\* New mail gets a UID of its own, and nothing else gives mail another UID.
LEMMA ServerSameMail ==
    ASSUME IdentityInv,
           \/ \E m \in Msg : Deliver(m)
           \/ \E u \in DOMAIN box : SetFlag(u) \/ Expunge(u) \/ MoveWindow(u)
    PROVE  SameMail
<1>0. TypeOK /\ uidNext \in Nat /\ DOMAIN box \subseteq Nat /\ \A u \in DOMAIN box : u < uidNext
  BY DEF IdentityInv, TypeOK, Uid, IsTable
<1>1. ASSUME NEW m \in Msg, Deliver(m) PROVE SameMail
  BY <1>0, <1>1 DEF Deliver, With, SameMail, cacheVars
<1>2. ASSUME NEW v \in DOMAIN box, SetFlag(v) PROVE SameMail
  BY <1>0, <1>2 DEF SetFlag, With, SameMail, cacheVars
<1>3. ASSUME NEW v \in DOMAIN box, Expunge(v) PROVE SameMail
  BY <1>0, <1>3 DEF Expunge, Without, SameMail, cacheVars
<1>4. ASSUME NEW v \in DOMAIN box, MoveWindow(v) PROVE SameMail
  BY <1>0, <1>4 DEF MoveWindow, SameMail, cacheVars, TypeOK, IsTable, Mail
<1>5. QED
  BY <1>1, <1>2, <1>3, <1>4

\* So a table that was right stays right.
LEMMA SameMailKeeps ==
    ASSUME IdentityInv, TypeOK', SameMail PROVE IdentityInv'
<1>0. /\ TypeOK /\ uidNext \in Nat /\ uidNext' \in Nat
      /\ DOMAIN rows \subseteq Nat /\ \A w \in Workers : DOMAIN wk[w].msgs \subseteq Nat
  BY DEF IdentityInv, TypeOK, LocalOK, Uid, IsTable
<1>1. ASSUME NEW t, DOMAIN t \subseteq Nat, Right(t)
      PROVE  \A u \in DOMAIN t : u < uidNext' /\ (u \in DOMAIN box' => t[u].msg = box'[u].msg)
  BY <1>0, <1>1 DEF Right, SameMail
<1>2. Right(rows) => Right(rows)'
  BY <1>0, <1>1 DEF Right, SameMail
<1>3. ASSUME NEW w \in Workers PROVE Right(wk[w].msgs) => Right(wk[w].msgs)'
  BY <1>0, <1>1 DEF Right, SameMail
<1>4. ASSUME NEW w \in Workers PROVE CycleIds(wk[w])'
  BY <1>2, <1>3 DEF CycleIds, SameMail, IdentityInv
<1>5. QED
  BY <1>2, <1>4 DEF IdentityInv, SameMail

\* After a renumbering what is stored and what a cycle holds are of an
\* earlier numbering: Renumber waits for a sync_state.
LEMMA RenumberKeeps ==
    ASSUME IdentityInv, TypeOK', ~EarlyRenumber, Renumber PROVE IdentityInv'
<1>1. /\ TypeOK /\ validity \in Nat /\ state.validity \in Nat /\ state.validity # 0
      /\ UNCHANGED <<wk, rows, state>> /\ validity' = validity + 1
      /\ \A w \in Workers : LocalOK(wk[w]) /\ wk[w].st.validity \in Nat
  BY DEF IdentityInv, Renumber, cacheVars, TypeOK, LocalOK, SyncState, Uid
<1>2. \A u \in DOMAIN box' : u < uidNext'
  <2>1. Cardinality(DOMAIN box) \in Nat
    BY <1>1, FS_CardinalityType DEF TypeOK
  <2>2. QED
    BY <2>1 DEF Renumber
<1>3. ASSUME NEW w \in Workers PROVE CycleIds(wk[w])'
  <2>1. CycleIds(wk[w]) /\ wk[w].st.validity \in Nat
    BY <1>1 DEF IdentityInv
  <2>2. QED
    BY <1>1, <2>1 DEF CycleIds
<1>4. QED
  BY <1>1, <1>2, <1>3 DEF IdentityInv

\* A sweep takes the state away only while it is the mailbox's.
LEMMA SweepKeeps ==
    ASSUME IdentityInv, TypeOK', ~EarlyRenumber, NEW S \in SUBSET DOMAIN rows, Sweep(S)
    PROVE  IdentityInv'
<1>1. /\ UNCHANGED <<validity, uidNext, box, wk>>
      /\ state'.validity = 0 /\ state.validity \in {0, validity}
      /\ DOMAIN rows' \subseteq DOMAIN rows /\ \A u \in DOMAIN rows' : rows'[u] = rows[u]
      /\ validity \in Nat /\ \A w \in Workers : wk[w].st.validity \in Nat
  BY DEF Sweep, serverVars, Without, NoState, IdentityInv, TypeOK, LocalOK, SyncState, Uid
<1>2. Right(rows)'
  BY <1>1 DEF IdentityInv, Right
<1>3. ASSUME NEW w \in Workers PROVE CycleIds(wk[w])'
  <2>1. CycleIds(wk[w]) /\ wk[w].st.validity \in Nat
    BY <1>1 DEF IdentityInv
  <2>2. Right(wk[w].msgs) => Right(wk[w].msgs)'
    BY <1>1 DEF Right
  <2>3. QED
    BY <1>1, <1>2, <2>1, <2>2 DEF CycleIds
<1>4. QED
  BY <1>1, <1>2, <1>3 DEF IdentityInv

\* A step of the only worker.
LEMMA WorkerKeeps ==
    ASSUME IdentityInv, TypeOK', NEW w \in Workers, \A v \in Workers : v = w, Step(w) \/ Fail(w)
    PROVE  IdentityInv'
<1> DEFINE l == wk[w]
<1>0. /\ TypeOK /\ LocalOK(l) /\ CycleIds(l) /\ w \in DOMAIN wk
      /\ validity \in Nat \ {0} /\ state.validity \in Nat /\ l.st.validity \in Nat
      /\ state.validity <= validity
      /\ state.validity \in {0, validity} => Right(rows)
      /\ \A u \in DOMAIN box : u < uidNext
  BY DEF IdentityInv, TypeOK, LocalOK, SyncState, Uid
<1> SUFFICES /\ UNCHANGED <<validity, uidNext, box>> /\ CycleIds(wk[w])'
             /\ state'.validity <= validity
             /\ state'.validity \in {0, validity} => Right(rows)'
  BY <1>0 DEF IdentityInv
<1> USE DEF Goto, serverVars, cacheVars
\* A step that changes neither the server nor the tables.
<1>s. ASSUME UNCHANGED <<serverVars, rows, state>> PROVE Right(rows)' = Right(rows)
  BY <1>s DEF Right
<1>1. CASE Status(w)
  <2>1. wk'[w].pc = "get" /\ wk'[w].st.validity = validity
    BY <1>0, <1>1 DEF Status, Idle
  <2>2. UNCHANGED <<serverVars, rows, state>>
    BY <1>1 DEF Status
  <2>3. QED
    BY <1>0, <1>s, <2>1, <2>2 DEF CycleIds
<1>2. CASE GetState(w)
  <2>1. /\ l.pc = "get" /\ wk'[w].st = l.st
        /\ wk'[w].pc = IF state.validity # 0 /\ state.validity # l.st.validity THEN "drop" ELSE "search"
    BY <1>0, <1>2 DEF GetState, LocalOK, Idle
  <2>2. UNCHANGED <<serverVars, rows, state>>
    BY <1>2 DEF GetState
  <2>3. QED
    BY <1>0, <1>s, <2>1, <2>2 DEF CycleIds
<1>3. CASE DropFolder(w)
  <2>1. wk'[w].pc = "search" /\ wk'[w].st = l.st /\ l.pc = "drop"
    BY <1>0, <1>3 DEF DropFolder, LocalOK, Idle
  <2>2. Right(rows)' /\ UNCHANGED <<serverVars, state>>
    BY <1>3 DEF DropFolder, Empty, Right
  <2>3. QED
    BY <1>0, <2>1, <2>2 DEF CycleIds
\* Steps that only go on, to anywhere but an insert.
<1>4. ASSUME UNCHANGED <<serverVars, rows, state>>, wk'[w].st = l.st, l.pc \notin {"get", "drop", "idle"},
             wk'[w].pc # "insert"
      PROVE  /\ UNCHANGED <<validity, uidNext, box>> /\ CycleIds(wk[w])'
             /\ state'.validity <= validity
             /\ state'.validity \in {0, validity} => Right(rows)'
  BY <1>0, <1>s, <1>4 DEF CycleIds
<1>5. CASE SearchSince(w)
  BY <1>0, <1>4, <1>5 DEF SearchSince, LocalOK, Idle
<1>6. CASE Split(w)
  BY <1>0, <1>4, <1>6 DEF Split, LocalOK, Idle
<1>7. CASE DeleteGone(w)
  <2>1. wk'[w].pc = "flags" /\ wk'[w].st = l.st /\ l.pc = "gone"
    BY <1>0, <1>7 DEF DeleteGone, LocalOK, Idle
  <2>2. UNCHANGED <<serverVars, state>> /\ (Right(rows) => Right(rows)')
    BY <1>7 DEF DeleteGone, Without, Right
  <2>3. QED
    BY <1>0, <2>1, <2>2 DEF CycleIds
<1>8. CASE FetchFlags(w)
  BY <1>0, <1>4, <1>8 DEF FetchFlags, LocalOK, Idle
<1>9. ASSUME NEW u \in DOMAIN l.updates, UpdateFlags(w, u)
      PROVE  /\ UNCHANGED <<validity, uidNext, box>> /\ CycleIds(wk[w])'
             /\ state'.validity <= validity
             /\ state'.validity \in {0, validity} => Right(rows)'
  <2>1. wk'[w].pc = "apply" /\ wk'[w].st = l.st /\ l.pc = "apply"
    BY <1>0, <1>9 DEF UpdateFlags, LocalOK, Idle
  <2>2. /\ UNCHANGED <<serverVars, state>>
        /\ DOMAIN rows' = DOMAIN rows /\ \A v \in DOMAIN rows : rows'[v].msg = rows[v].msg
    BY <1>0, <1>9 DEF UpdateFlags, TypeOK, IsTable, Row
  <2>3. Right(rows) => Right(rows)'
    BY <2>2 DEF Right
  <2>4. QED
    BY <1>0, <2>1, <2>2, <2>3 DEF CycleIds
<1>10. CASE FlagsDone(w)
  BY <1>0, <1>4, <1>10 DEF FlagsDone, LocalOK, Idle
\* Only mail of the numbering the cycle began with is fetched.
<1>11. CASE FetchNew(w)
  <2>1. /\ wk'[w].pc = "insert" /\ wk'[w].st = l.st /\ l.pc = "fetch" /\ l.st.validity = validity
        /\ wk'[w].msgs = [u \in Batch(l.fresh) \cap DOMAIN box |->
                             [msg |-> box[u].msg, flag |-> box[u].flag]]
    BY <1>0, <1>11 DEF FetchNew, Checked, LocalOK, Idle
  <2>2. UNCHANGED <<serverVars, rows, state>>
    BY <1>11 DEF FetchNew
  <2>3. Right(wk[w].msgs)'
    BY <1>0, <2>1, <2>2 DEF Right
  <2>4. QED
    BY <1>0, <1>s, <2>1, <2>2, <2>3 DEF CycleIds
<1>12. ASSUME NEW u \in DOMAIN l.msgs, Insert(w, u)
       PROVE  /\ UNCHANGED <<validity, uidNext, box>> /\ CycleIds(wk[w])'
              /\ state'.validity <= validity
              /\ state'.validity \in {0, validity} => Right(rows)'
  <2>1. /\ wk'[w].pc = "insert" /\ wk'[w].st = l.st /\ l.pc = "insert"
        /\ wk'[w].msgs = Without(l.msgs, {u})
    BY <1>0, <1>12 DEF Insert, LocalOK, Idle
  <2>2. /\ UNCHANGED <<serverVars, state>>
        /\ DOMAIN rows' = DOMAIN rows \cup {u} /\ rows'[u].msg = l.msgs[u].msg
        /\ \A v \in DOMAIN rows \ {u} : rows'[v] = rows[v]
    BY <1>12 DEF Insert, With
  <2>3. Right(l.msgs) /\ Right(rows) => Right(rows)'
    BY <2>2 DEF Right
  <2>4. Right(l.msgs) => Right(wk[w].msgs)'
    BY <2>1, <2>2 DEF Right, Without
  <2>5. QED
    BY <1>0, <2>1, <2>2, <2>3, <2>4 DEF CycleIds
<1>13. CASE BatchDone(w)
  BY <1>0, <1>4, <1>13 DEF BatchDone, LocalOK, Idle
\* The state of a cycle is stored with rows of its own numbering.
<1>14. CASE PutState(w)
  <2>1. wk'[w].pc = "idle" /\ l.pc = "put" /\ state' = l.st /\ UNCHANGED <<serverVars, rows>>
    BY <1>0, <1>14 DEF PutState, Idle
  <2>2. Right(rows) => Right(rows)'
    BY <2>1 DEF Right
  <2>3. QED
    BY <1>0, <2>1, <2>2 DEF CycleIds
<1>15. CASE Renumbered(w) \/ Fail(w)
  <2>1. wk'[w].pc = "idle" /\ UNCHANGED <<serverVars, rows, state>>
    BY <1>0, <1>15 DEF Renumbered, Fail, Idle
  <2>2. QED
    BY <1>0, <1>s, <2>1 DEF CycleIds
<1>16. QED
  BY <1>1, <1>2, <1>3, <1>5, <1>6, <1>7, <1>8, <1>9, <1>10, <1>11, <1>12, <1>13, <1>14, <1>15 DEF Step

\* Every step preserves the invariant.
LEMMA IdentityStep ==
    ASSUME IdentityInv, TypeOK', ~EarlyRenumber, \A v, w \in Workers : v = w, [Next]_vars
    PROVE  IdentityInv'
<1>1. CASE UNCHANGED vars
  BY <1>1 DEF vars, IdentityInv, Right, CycleIds
<1>2. CASE Environment
  BY <1>2, ServerSameMail, SameMailKeeps, RenumberKeeps, SweepKeeps DEF Environment
<1>3. CASE \E w \in Workers : Step(w) \/ Fail(w)
  BY <1>3, WorkerKeeps
<1>4. QED
  BY <1>1, <1>2, <1>3 DEF Next

\* Where one worker at most syncs the folder and no renumbering meets it
\* without a sync_state, a UID means the same mail in the cache and in the
\* mailbox while the stored UIDVALIDITY is the mailbox's, through failures,
\* sweeps and renumberings in the middle of a cycle (MailIdentity; syncFolder
\* in syncer.go).
THEOREM OneWorkerKeepsIdentity ==
    ASSUME ~EarlyRenumber, \A v, w \in Workers : v = w
    PROVE  Spec => []MailIdentity
<1>1. Init => IdentityInv
  BY InitIdentity
<1>2. IdentityInv /\ TypeOK' /\ [Next]_vars => IdentityInv'
  BY IdentityStep
<1>3. IdentityInv => MailIdentity
  BY DEF IdentityInv, Right, MailIdentity
<1>4. QED
  BY <1>1, <1>2, <1>3, TypeCorrect, PTL DEF Spec

-------------------------------------------------------------------------------
(***************************************************************************)
(* LanesByArrival, for a folder only one worker syncs.  The boundary of    *)
(* the lanes is what a cycle finds cached, and the property speaks of what *)
(* was cached when the last cycle completed.  LaneInv says that the two    *)
(* are the same, while no cycle has failed and the stored UIDVALIDITY is   *)
(* the mailbox's.                                                          *)
(***************************************************************************)

\* Until it splits the UIDs a cycle finds cached what the last one left; after
\* that it remembers it, and that the folder has a sync_state.
CycleLanes(l) ==
    /\ l.pc # "idle" => state.validity <= l.st.validity /\ l.st.validity <= validity
    /\ state.validity = validity /\ used.fail = 0 =>
          /\ l.pc # "drop"
          /\ l.pc \in {"idle", "get", "search", "cached"} => DOMAIN rows = mark
          /\ l.pc \in {"gone", "flags", "apply", "fetch", "insert", "put"} => l.cached = mark
          /\ l.pc \notin {"idle", "get"} => l.prev.validity # 0

LaneInv ==
    /\ TypeOK
    /\ state.validity <= validity
    /\ \A w \in Workers : CycleLanes(wk[w])

\* The numbers the invariant compares.
LEMMA LaneNumbers ==
    ASSUME TypeOK
    PROVE  /\ validity \in Nat /\ validity # 0 /\ state.validity \in Nat /\ used.fail \in Nat
           /\ \A w \in Workers : /\ wk[w].st.validity \in Nat /\ wk[w].prev.validity \in Nat
                                 /\ DOMAIN wk[w] = DOMAIN Idle /\ wk[w].pc \in PC
BY DEF TypeOK, LocalOK, SyncState, Uid

\* Nothing is cached at the start.
LEMMA InitLanes == ASSUME Init PROVE LaneInv
<1>1. TypeOK
  BY InitTypeOK
<1>2. QED
  BY <1>1 DEF Init, LaneInv, CycleLanes, Idle, NoState, Empty

\* The mailbox changes without the cache, and a new UIDVALIDITY is no longer
\* the stored one.
LEMMA MailboxLanes ==
    ASSUME LaneInv, TypeOK', UNCHANGED <<wk, rows, state, mark>>, used'.fail = used.fail,
           validity' = validity \/ validity' = validity + 1
    PROVE  LaneInv'
<1>1. state.validity <= validity /\ state'.validity <= validity'
  BY LaneNumbers DEF LaneInv
<1>2. ASSUME NEW w \in Workers PROVE CycleLanes(wk[w])'
  <2>1. CycleLanes(wk[w]) /\ wk[w].st.validity \in Nat
    BY LaneNumbers DEF LaneInv
  <2>2. CASE validity' = validity
    BY <2>1, <2>2 DEF CycleLanes
  <2>3. CASE validity' = validity + 1
    BY <1>1, <2>1, <2>3, LaneNumbers DEF CycleLanes, LaneInv
  <2>4. QED
    BY <2>2, <2>3
<1>3. QED
  BY <1>1, <1>2 DEF LaneInv

\* A sweep forgets the sync_state with the rows.
LEMMA SweepLanes ==
    ASSUME LaneInv, TypeOK', NEW S \in SUBSET DOMAIN rows, Sweep(S)
    PROVE  LaneInv'
<1>1. state'.validity = 0 /\ UNCHANGED <<wk, validity>>
  BY DEF Sweep, NoState, serverVars
<1>2. ASSUME NEW w \in Workers PROVE CycleLanes(wk[w])'
  BY <1>1, LaneNumbers DEF LaneInv, CycleLanes
<1>3. QED
  BY <1>1, <1>2, LaneNumbers DEF LaneInv

\* A step of the only worker.
LEMMA WorkerLanes ==
    ASSUME LaneInv, TypeOK', NEW w \in Workers, \A v \in Workers : v = w, Step(w) \/ Fail(w)
    PROVE  LaneInv'
<1> DEFINE l == wk[w]
<1>0. /\ CycleLanes(l) /\ state.validity <= validity /\ w \in DOMAIN wk
      /\ l.pc \in PC /\ DOMAIN l = DOMAIN Idle
      /\ validity \in Nat /\ validity # 0 /\ state.validity \in Nat /\ used.fail \in Nat
      /\ l.st.validity \in Nat /\ l.prev.validity \in Nat
  BY LaneNumbers DEF LaneInv, TypeOK
<1> SUFFICES state'.validity <= validity' /\ CycleLanes(wk[w])'
  BY DEF LaneInv
<1> USE DEF Goto, serverVars, cacheVars
<1>1. CASE Status(w)
  <2>1. wk'[w] = [[Idle EXCEPT !.st = [validity |-> validity, modseq |-> IF condstore THEN top ELSE 0]]
                  EXCEPT !.pc = "get"]
    BY <1>0, <1>1 DEF Status
  <2>2. wk'[w].pc = "get" /\ wk'[w].st.validity = validity
    BY <2>1 DEF Idle
  <2>3. QED
    BY <1>0, <1>1, <2>2 DEF Status, CycleLanes
<1>2. CASE GetState(w)
  <2> DEFINE changed == state.validity # 0 /\ state.validity # l.st.validity
  <2>1. /\ wk'[w].pc = IF changed THEN "drop" ELSE "search"
        /\ wk'[w].prev = IF changed THEN NoState ELSE state
        /\ wk'[w].st = l.st /\ l.pc = "get"
    BY <1>0, <1>2 DEF GetState, Idle
  <2>2. QED
    BY <1>0, <1>2, <2>1 DEF GetState, CycleLanes
<1>3. CASE DropFolder(w)
  <2>1. wk'[w].pc = "search" /\ wk'[w].st = l.st /\ l.pc = "drop"
    BY <1>0, <1>3 DEF DropFolder, Idle
  <2>2. QED
    BY <1>0, <1>3, <2>1 DEF DropFolder, CycleLanes
<1>4. CASE SearchSince(w)
  <2>1. wk'[w].pc = "cached" /\ wk'[w].st = l.st /\ wk'[w].prev = l.prev /\ l.pc = "search"
    BY <1>0, <1>4 DEF SearchSince, Idle
  <2>2. QED
    BY <1>0, <1>4, <2>1 DEF SearchSince, CycleLanes
<1>5. CASE Split(w)
  <2>1. /\ wk'[w].pc = "gone" /\ wk'[w].st = l.st /\ wk'[w].prev = l.prev /\ l.pc = "cached"
        /\ wk'[w].cached = DOMAIN rows
    BY <1>0, <1>5 DEF Split, Idle
  <2>2. QED
    BY <1>0, <1>5, <2>1 DEF Split, CycleLanes
\* A cycle that goes on writing keeps what it remembers.
<1>k. ASSUME UNCHANGED <<validity, state, mark, used>>,
             l.pc \in {"gone", "flags", "apply", "fetch", "insert", "put"},
             wk'[w].pc \in {"gone", "flags", "apply", "fetch", "insert", "put"},
             wk'[w].st = l.st, wk'[w].prev = l.prev, wk'[w].cached = l.cached
      PROVE  state'.validity <= validity' /\ CycleLanes(wk[w])'
  BY <1>0, <1>k DEF CycleLanes
<1>6. CASE DeleteGone(w)
  <2>1. /\ wk'[w].pc = "flags" /\ wk'[w].st = l.st /\ wk'[w].prev = l.prev /\ l.pc = "gone"
        /\ wk'[w].cached = l.cached
    BY <1>0, <1>6 DEF DeleteGone, Idle
  <2>2. QED
    BY <1>6, <1>k, <2>1 DEF DeleteGone
<1>7. CASE FetchFlags(w)
  <2>1. /\ wk'[w].pc = "apply" /\ wk'[w].st = l.st /\ wk'[w].prev = l.prev /\ l.pc = "flags"
        /\ wk'[w].cached = l.cached
    BY <1>0, <1>7 DEF FetchFlags, Idle
  <2>2. QED
    BY <1>7, <1>k, <2>1 DEF FetchFlags
<1>8. ASSUME NEW u \in DOMAIN l.updates, UpdateFlags(w, u)
      PROVE  state'.validity <= validity' /\ CycleLanes(wk[w])'
  <2>1. /\ wk'[w].pc = "apply" /\ wk'[w].st = l.st /\ wk'[w].prev = l.prev /\ l.pc = "apply"
        /\ wk'[w].cached = l.cached
    BY <1>0, <1>8 DEF UpdateFlags, Idle
  <2>2. QED
    BY <1>8, <1>k, <2>1 DEF UpdateFlags
<1>9. CASE FlagsDone(w)
  <2>1. /\ wk'[w].pc \in {"put", "fetch"} /\ wk'[w].st = l.st /\ wk'[w].prev = l.prev /\ l.pc = "apply"
        /\ wk'[w].cached = l.cached
    BY <1>0, <1>9 DEF FlagsDone, Idle
  <2>2. QED
    BY <1>9, <1>k, <2>1 DEF FlagsDone
<1>10. CASE FetchNew(w)
  <2>1. /\ wk'[w].pc = "insert" /\ wk'[w].st = l.st /\ wk'[w].prev = l.prev /\ l.pc = "fetch"
        /\ wk'[w].cached = l.cached
    BY <1>0, <1>10 DEF FetchNew, Idle
  <2>2. QED
    BY <1>10, <1>k, <2>1 DEF FetchNew
<1>11. ASSUME NEW u \in DOMAIN l.msgs, Insert(w, u)
       PROVE  state'.validity <= validity' /\ CycleLanes(wk[w])'
  <2>1. /\ wk'[w].pc = "insert" /\ wk'[w].st = l.st /\ wk'[w].prev = l.prev /\ l.pc = "insert"
        /\ wk'[w].cached = l.cached
    BY <1>0, <1>11 DEF Insert, Idle
  <2>2. QED
    BY <1>11, <1>k, <2>1 DEF Insert
<1>12. CASE BatchDone(w)
  <2>1. /\ wk'[w].pc \in {"put", "fetch"} /\ wk'[w].st = l.st /\ wk'[w].prev = l.prev /\ l.pc = "insert"
        /\ wk'[w].cached = l.cached
    BY <1>0, <1>12 DEF BatchDone, Idle
  <2>2. QED
    BY <1>12, <1>k, <2>1 DEF BatchDone
<1>13. CASE PutState(w)
  <2>1. wk'[w].pc = "idle" /\ state' = l.st /\ mark' = DOMAIN rows /\ l.pc = "put"
    BY <1>0, <1>13 DEF PutState, Idle
  <2>2. QED
    BY <1>0, <1>13, <2>1 DEF PutState, CycleLanes
<1>14. CASE Renumbered(w)
  <2>1. wk'[w].pc = "idle" /\ l.pc # "idle" /\ l.st.validity # validity
    BY <1>0, <1>14 DEF Renumbered, Checked, Idle
  <2>2. QED
    BY <1>0, <1>14, <2>1 DEF Renumbered, CycleLanes
<1>15. CASE Fail(w)
  <2>1. wk'[w].pc = "idle" /\ used'.fail = used.fail + 1
    BY <1>0, <1>15 DEF Fail, Spend, Idle, LaneInv, TypeOK
  <2>2. QED
    BY <1>0, <1>15, <2>1 DEF Fail, CycleLanes
<1>16. QED
  BY <1>1, <1>2, <1>3, <1>4, <1>5, <1>6, <1>7, <1>8, <1>9, <1>10, <1>11, <1>12, <1>13, <1>14, <1>15 DEF Step

\* Every step preserves the invariant.
LEMMA LaneStep ==
    ASSUME LaneInv, TypeOK', \A v, w \in Workers : v = w, [Next]_vars
    PROVE  LaneInv'
<1>0. used \in [{"change", "renumber", "fail", "sweep"} -> Nat]
  BY DEF LaneInv, TypeOK
<1>1. CASE UNCHANGED vars
  BY <1>1 DEF vars, LaneInv, CycleLanes
<1>2. ASSUME NEW m \in Msg, Deliver(m) PROVE LaneInv'
  BY <1>0, <1>2, MailboxLanes DEF Deliver, Spend, cacheVars
<1>3. ASSUME NEW u \in DOMAIN box, SetFlag(u) \/ Expunge(u) \/ MoveWindow(u) PROVE LaneInv'
  BY <1>0, <1>3, MailboxLanes DEF SetFlag, Expunge, MoveWindow, Spend, cacheVars
<1>4. CASE Renumber
  BY <1>0, <1>4, MailboxLanes DEF Renumber, Spend, cacheVars
<1>5. ASSUME NEW w \in Workers, Step(w) \/ Fail(w) PROVE LaneInv'
  BY <1>5, WorkerLanes
<1>6. QED
  BY <1>1, <1>2, <1>3, <1>4, <1>5, SweepLanes DEF Next, Environment

\* Only Insert adds a row.
Adds == \E w \in Workers : \E u \in DOMAIN wk[w].msgs : Insert(w, u)
LEMMA OnlyInsertAdds == ASSUME [Next]_vars, ~Adds PROVE DOMAIN rows' \subseteq DOMAIN rows
BY DEF Adds, Next, vars, Environment, Deliver, SetFlag, Expunge, MoveWindow, Renumber, Sweep, Step, Fail, Status,
       GetState, DropFolder, SearchSince, Split, DeleteGone, FetchFlags, UpdateFlags, FlagsDone, FetchNew,
       BatchDone, PutState, Renumbered, cacheVars, Without, Empty

\* What a row gets as its lane.
LEMMA InsertLane ==
    ASSUME LaneInv, NEW w \in Workers, NEW v \in DOMAIN wk[w].msgs, Insert(w, v),
           NEW u \in DOMAIN rows' \ DOMAIN rows, state.validity = validity, used.fail = 0
    PROVE  rows'[u].lane = "new" <=> \A x \in mark : u > x
<1>1. u = v /\ rows'[u].lane = LaneOf(w, u) /\ wk[w].pc = "insert"
  BY DEF Insert, With
<1>2. wk[w].cached = mark /\ wk[w].prev.validity # 0
  BY <1>1 DEF LaneInv, CycleLanes
<1>3. u \in Nat /\ \A x \in mark : x \in Nat
  BY <1>1, <1>2 DEF LaneInv, TypeOK, LocalOK, IsTable, Uid
<1>4. rows'[u].lane = "new" <=> ~(\E x \in mark : u <= x)
  BY <1>1, <1>2 DEF LaneOf
<1>5. QED
  BY <1>3, <1>4

\* Where one worker at most syncs the folder and no cycle has failed, mail is
\* queued in the new-mail lane exactly when it is above everything that was
\* cached as the last cycle completed, whatever sweeps and renumberings come
\* between (LanesByArrival; syncFolder's D11b in syncer.go).
THEOREM OneWorkerKeepsLanes ==
    ASSUME \A v, w \in Workers : v = w
    PROVE  Spec => LanesByArrival
<1> DEFINE Laned == \A u \in DOMAIN rows' \ DOMAIN rows :
                       state.validity = validity /\ used.fail = 0 =>
                           (rows'[u].lane = "new" <=> \A v \in mark : u > v)
<1>1. Init => LaneInv
  BY InitLanes
<1>2. LaneInv /\ TypeOK' /\ [Next]_vars => LaneInv'
  BY LaneStep
<1>3. LaneInv /\ [Next]_vars => Laned
  <2> SUFFICES ASSUME LaneInv, [Next]_vars, NEW u \in DOMAIN rows' \ DOMAIN rows,
                      state.validity = validity, used.fail = 0
               PROVE  rows'[u].lane = "new" <=> \A v \in mark : u > v
    OBVIOUS
  <2>1. PICK w \in Workers : \E x \in DOMAIN wk[w].msgs : Insert(w, x)
    BY OnlyInsertAdds DEF Adds
  <2>2. QED
    BY <2>1, InsertLane
<1>4. LanesByArrival <=> [][Laned]_vars
  BY DEF LanesByArrival
<1> HIDE DEF Laned
<1>5. Spec => [][Laned]_vars
  BY <1>1, <1>2, <1>3, TypeCorrect, PTL DEF Spec
<1>6. QED
  BY <1>4, <1>5
===============================================================================
