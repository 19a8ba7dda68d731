--------------------------- MODULE ServicesProofs ---------------------------
(***************************************************************************)
(* What Services promises of its scenes, for every value of the constants. *)
(* Each scene has an inductive invariant, named for its instance: PInv,    *)
(* TInv, UInv, BInv and DInv.  A step of the service is one of the scene's *)
(* module, or changes nothing, and the scene stays what it is.             *)
(***************************************************************************)
EXTENDS Services, FiniteSetTheorems, SequenceTheorems, TLAPS

\* No step changes the scene a behaviour is about.
LEMMA SceneStays == ASSUME [Next]_services PROVE scene' = scene
  BY DEF Next, services, Beyond6, Beyond7, Beyond11, Beyond13

-----------------------------------------------------------------------------
(* The connection pool.  The connection reconnectOnce has dialled and not  *)
(* yet put in the map is open or dropped, and in the keepalive's hands     *)
(* alone; what a goroutine waits for or uses is a connection, and the      *)
(* keepalive visits connected accounts.                                    *)

\* Connections are numbered without gaps.
PMade == P!Cardinality(DOMAIN x3)
PNumbered ==
    /\ PMade \in Nat /\ DOMAIN x3 = 1..PMade /\ PMade <= P!Cardinality(ForPool.Account) + ForPool.MaxDrop + 1
    /\ P!Cardinality(ForPool.Account) \in Nat

PGoesWhere ==
    /\ \A t \in P!Thread : x5[t].pc \in {"lock", "use"} => x5[t].conn \in DOMAIN x3
    /\ x5["keepalive"].acct \subseteq P!Connected /\ x5["keepalive"].todo \subseteq P!Connected
    /\ x5["main"].todo \subseteq P!Connected
    /\ \A t \in P!Thread \ {"keepalive"} : x5[t].pc \notin {"writer", "swap"}

PNewIsOurs ==
    x5["keepalive"].pc \in {"writer", "swap"} =>
        /\ x5["keepalive"].conn \in DOMAIN x3 /\ x3[x5["keepalive"].conn] # "closed"
        /\ \A a \in ForPool.Account : x1[a] # x5["keepalive"].conn

PInv == P!TypeOK /\ PNumbered /\ PGoesWhere /\ PNewIsOurs /\ P!MapIsCurrent

\* There are only so many accounts.
LEMMA PParts ==
    ASSUME P!ParamAssumption, NEW S \in SUBSET ForPool.Account
    PROVE  /\ P!Cardinality(S) \in Nat /\ P!Cardinality(ForPool.Account) \in Nat
           /\ P!Cardinality(S) <= P!Cardinality(ForPool.Account)
  <1>1. \A R : P!Cardinality(R) = Cardinality(R)
    BY Zenon DEF P!Cardinality, Cardinality
  <1>2. IsFiniteSet(ForPool.Account)
    BY DEF P!ParamAssumption, P!IsFiniteSet, IsFiniteSet
  <1> QED BY <1>1, <1>2, FS_Subset, FS_CardinalityType

\* Numbers are counted.
LEMMA PInterval == ASSUME NEW n \in Nat PROVE P!Cardinality(1..n) = n
  <1>1. P!Cardinality(1..n) = Cardinality(1..n)
    BY Zenon DEF P!Cardinality, Cardinality
  <1> QED BY <1>1, FS_Interval

\* Connect leaves each connection it made to one account.
LEMMA PInit == ASSUME P!ParamAssumption, P!Init PROVE PInv
  <1>1. PICK S \in SUBSET ForPool.Account : \E f \in [S -> 1..P!Cardinality(S)] :
          /\ \A a, b \in S : a # b => f[a] # f[b]
          /\ x1 = [a \in ForPool.Account |-> IF a \in S THEN f[a] ELSE 0]
          /\ x3 = [c \in 1..P!Cardinality(S) |-> "open"]
          /\ x4 = [c \in 1..P!Cardinality(S) |-> P!Free]
    BY DEF P!Init
  <1>2. PICK f \in [S -> 1..P!Cardinality(S)] :
          /\ \A a, b \in S : a # b => f[a] # f[b]
          /\ x1 = [a \in ForPool.Account |-> IF a \in S THEN f[a] ELSE 0]
          /\ x3 = [c \in 1..P!Cardinality(S) |-> "open"]
          /\ x4 = [c \in 1..P!Cardinality(S) |-> P!Free]
    BY <1>1
  <1>3. P!Cardinality(S) \in Nat /\ P!Cardinality(ForPool.Account) \in Nat /\ P!Cardinality(S) <= P!Cardinality(ForPool.Account)
    BY PParts
  <1>4. DOMAIN x3 = 1..P!Cardinality(S) /\ PMade = P!Cardinality(S)
    BY <1>2, <1>3, PInterval DEF PMade
  <1>5. PNumbered /\ DOMAIN x3 \subseteq P!Conn
    BY <1>3, <1>4 DEF PNumbered, P!Conn, P!ParamAssumption
  <1>6. x5 = [t \in P!Thread |-> P!Idle] /\ P!Idle \in P!Local /\ x2 = P!Free /\ x6 = 0
    BY DEF P!Init, P!Idle, P!Local, P!PC
  <1>7. P!TypeOK
    <2>1. x1 \in [ForPool.Account -> DOMAIN x3 \cup {0}]
      BY <1>2, <1>4
    <2>2. x3 \in [DOMAIN x3 -> {"open", "dropped", "closed"}] /\ x4 \in [DOMAIN x3 -> P!Thread \cup {P!Free}]
      BY <1>2, <1>4
    <2> QED BY <1>5, <1>6, <2>1, <2>2 DEF P!TypeOK, P!ParamAssumption
  <1>8. PGoesWhere /\ PNewIsOurs
    BY <1>6 DEF PGoesWhere, PNewIsOurs, P!Thread, P!Idle
  <1>9. P!MapIsCurrent
    <2>1. \A a \in P!Connected : a \in S /\ x1[a] = f[a] /\ x3[x1[a]] = "open"
      BY <1>2 DEF P!Connected
    <2> QED BY <1>2, <2>1 DEF P!MapIsCurrent
  <1> QED BY <1>5, <1>7, <1>8, <1>9 DEF PInv

\* A goroutine that only moves on, to where GoesWhere lets it be, changes
\* nothing others rely on.
LEMMA PMove ==
    ASSUME PInv, NEW t \in P!Thread, NEW l \in P!Local, P!Goto(t, l),
           UNCHANGED <<x1, x3>>, DOMAIN x4' = DOMAIN x4,
           x4' \in [DOMAIN x3 -> P!Thread \cup {P!Free}], x2' \in {P!Free, "keepalive", "main"}, x6' \in 0..ForPool.MaxDrop,
           l.pc \in {"lock", "use"} => l.conn \in DOMAIN x3,
           t = "keepalive" => l.acct \subseteq P!Connected /\ l.todo \subseteq P!Connected,
           t = "main" => l.todo \subseteq P!Connected /\ (l.pc = "idle" => x5["main"].pc = "idle"),
           l.pc \in {"writer", "swap"} =>
               t = "keepalive" /\ x5[t].pc \in {"writer", "swap"} /\ l.conn = x5[t].conn
    PROVE  PInv'
  <1>1. x5'[t] = l /\ \A s \in P!Thread \ {t} : x5'[s] = x5[s]
    BY DEF PInv, P!TypeOK, P!Goto
  <1>2. {"keepalive", "main"} \subseteq P!Thread /\ P!Connected' = P!Connected /\ PMade' = PMade
    BY DEF P!Thread, P!Connected, PMade
  <1>3. P!TypeOK'
    BY DEF PInv, P!TypeOK, P!Goto
  <1>4. PGoesWhere'
    BY <1>1, <1>2 DEF PInv, PGoesWhere
  <1>5. PNewIsOurs'
    BY <1>1, <1>2 DEF PInv, PNewIsOurs
  <1>6. P!MapIsCurrent'
    BY <1>1, <1>2 DEF PInv, P!MapIsCurrent
  <1>7. PNumbered'
    BY <1>2 DEF PInv, PNumbered
  <1> QED BY <1>3, <1>4, <1>5, <1>6, <1>7 DEF PInv

\* A caller gets a connection from the map, waits for it, uses it.
LEMMA PCalls ==
    ASSUME P!ParamAssumption, PInv, NEW t \in ForPool.Caller,
           (\E a \in ForPool.Account : P!Call(t, a)) \/ P!Resolve(t) \/ P!EndUse(t)
    PROVE  PInv'
  <1>1. t \in P!Thread /\ t \notin {"keepalive", "main"} /\ P!Idle \in P!Local
    BY DEF P!Thread, P!ParamAssumption, P!Idle, P!Local, P!PC
  <1>2. ASSUME NEW a \in ForPool.Account, P!Call(t, a) PROVE PInv'
    <2>1. [P!Idle EXCEPT !.pc = "resolve", !.acct = {a}] \in P!Local
      BY DEF P!Idle, P!Local, P!PC
    <2> QED BY <1>1, <1>2, <2>1, PMove DEF P!Call, P!Idle, PInv, P!TypeOK
  <1>3. CASE P!Resolve(t)
    <2>1. PICK b \in x5[t].acct :
            P!Goto(t, IF x1[b] = 0 THEN P!Idle ELSE [x5[t] EXCEPT !.pc = "lock", !.conn = x1[b]])
      BY <1>3 DEF P!Resolve
    <2>2. b \in ForPool.Account /\ x1[b] \in DOMAIN x3 \cup {0} /\ x1[b] \in P!Conn \cup {0} /\ x5[t] \in P!Local
      BY <1>1, <2>1 DEF PInv, P!TypeOK, P!Local
    <2>3. CASE x1[b] = 0
      BY <1>1, <1>3, <2>1, <2>3, PMove DEF P!Resolve, P!Idle, PInv, P!TypeOK
    <2>4. CASE x1[b] # 0
      <3>1. [x5[t] EXCEPT !.pc = "lock", !.conn = x1[b]] \in P!Local
        BY <2>2 DEF P!Local, P!PC
      <3> QED BY <1>1, <1>3, <2>1, <2>2, <2>4, <3>1, PMove DEF P!Resolve, P!Local, PInv, P!TypeOK
    <2> QED BY <2>3, <2>4
  <1>4. CASE P!EndUse(t)
    <2>1. x4' \in [DOMAIN x3 -> P!Thread \cup {P!Free}] /\ DOMAIN x4' = DOMAIN x4
      BY <1>4 DEF P!EndUse, PInv, P!TypeOK
    <2> QED BY <1>1, <1>4, <2>1, PMove DEF P!EndUse, P!Idle, PInv, P!TypeOK
  <1> QED BY <1>2, <1>3, <1>4

\* Conn.Lock, of a caller or of the keepalive's ping.
LEMMA PTakes ==
    ASSUME P!ParamAssumption, PInv, NEW t \in ForPool.Caller \cup {"keepalive"}, P!TakeConn(t) PROVE PInv'
  <1>1. t \in P!Thread /\ t # "main" /\ x5[t] \in P!Local /\ x5[t].conn \in DOMAIN x3
    BY DEF P!Thread, P!ParamAssumption, P!TakeConn, PInv, P!TypeOK, PGoesWhere
  <1>2. [x5[t] EXCEPT !.pc = "use"] \in P!Local
    BY <1>1 DEF P!Local, P!PC
  <1>3. x4' \in [DOMAIN x3 -> P!Thread \cup {P!Free}] /\ DOMAIN x4' = DOMAIN x4
    BY <1>1 DEF P!TakeConn, PInv, P!TypeOK
  <1> QED BY <1>1, <1>2, <1>3, PMove DEF P!TakeConn, P!Local, PInv, P!TypeOK, PGoesWhere

\* The keepalive goes from name to name, pings, gives up a dial, and takes
\* p.mu with the connection it dialled.
LEMMA PKeepalive ==
    ASSUME P!ParamAssumption, PInv,
           P!Tick \/ (\E a \in ForPool.Account : P!NextName(a)) \/ P!NoMoreNames \/ P!Ping \/ P!DialFails \/ P!TakePool
    PROVE  PInv'
  <1> DEFINE k == x5["keepalive"]
  <1>1. /\ "keepalive" \in P!Thread /\ k \in P!Local /\ P!Idle \in P!Local /\ k.acct \subseteq P!Connected /\ k.todo \subseteq P!Connected
        /\ P!Connected \subseteq ForPool.Account
    BY DEF P!Thread, PInv, P!TypeOK, PGoesWhere, P!Idle, P!Local, P!PC, P!Connected
  <1>2. CASE P!Tick
    <2>1. [P!Idle EXCEPT !.pc = "names", !.todo = P!Connected] \in P!Local
      BY <1>1 DEF P!Idle, P!Local, P!PC
    <2> QED BY <1>1, <1>2, <2>1, PMove DEF P!Tick, P!Idle, PInv, P!TypeOK
  <1>3. ASSUME NEW a \in ForPool.Account, P!NextName(a) PROVE PInv'
    <2> DEFINE l == [pc |-> "lock", acct |-> {a}, conn |-> x1[a], todo |-> k.todo \ {a}]
    <2>1. a \in P!Connected /\ x1[a] \in DOMAIN x3
      BY <1>1, <1>3 DEF P!NextName, P!Connected, PInv, P!TypeOK
    <2>2. l \in P!Local
      BY <1>1, <2>1 DEF P!Local, P!PC, PInv, P!TypeOK
    <2> QED BY <1>1, <1>3, <2>1, <2>2, PMove DEF P!NextName, PInv, P!TypeOK
  <1>4. CASE P!NoMoreNames
    BY <1>1, <1>4, PMove DEF P!NoMoreNames, P!Idle, PInv, P!TypeOK
  <1>5. CASE P!Ping
    <2>1. x4' \in [DOMAIN x3 -> P!Thread \cup {P!Free}] /\ DOMAIN x4' = DOMAIN x4
      BY <1>5 DEF P!Ping, PInv, P!TypeOK
    <2>2. PICK pc \in {"names", "connect"} : P!Goto("keepalive", [k EXCEPT !.pc = pc])
      BY <1>5 DEF P!Ping, P!KeepaliveAt
    <2>3. [k EXCEPT !.pc = pc] \in P!Local
      BY <1>1, <2>2 DEF P!Local, P!PC
    <2> QED BY <1>1, <1>5, <2>1, <2>2, <2>3, PMove DEF P!Ping, P!Local, PInv, P!TypeOK
  <1>6. CASE P!DialFails
    <2>1. [k EXCEPT !.pc = "names"] \in P!Local
      BY <1>1 DEF P!Local, P!PC
    <2>2. x6' \in 0..ForPool.MaxDrop
      BY <1>6 DEF P!DialFails, PInv, P!TypeOK, P!ParamAssumption
    <2> QED BY <1>1, <1>6, <2>1, <2>2, PMove DEF P!DialFails, P!KeepaliveAt, P!Local, PInv, P!TypeOK
  <1>7. CASE P!TakePool
    <2>1. [k EXCEPT !.pc = "swap"] \in P!Local
      BY <1>1 DEF P!Local, P!PC
    <2> QED BY <1>1, <1>7, <2>1, PMove DEF P!TakePool, P!KeepaliveAt, P!Local, PInv, P!TypeOK
  <1> QED BY <1>2, <1>3, <1>4, <1>5, <1>6, <1>7

\* A dialled connection has a number nobody has.
LEMMA PDials == ASSUME P!ParamAssumption, PInv, P!Dial PROVE PInv'
  <1> DEFINE k == x5["keepalive"]
             new == PMade + 1
  <1>1. /\ new \in P!Conn /\ new \in Nat /\ DOMAIN x3 = 1..PMade /\ new \notin DOMAIN x3 /\ PMade \in Nat
        /\ x3' = [c \in 1..new |-> IF c = new THEN "open" ELSE x3[c]]
        /\ x4' = [c \in 1..new |-> IF c = new THEN P!Free ELSE x4[c]]
        /\ x5' = [x5 EXCEPT !["keepalive"] = [k EXCEPT !.pc = "writer", !.conn = new]]
    BY DEF P!Dial, P!KeepaliveAt, P!Goto, PMade, PInv, PNumbered, P!Conn
  <1>2. DOMAIN x3' = 1..new /\ PMade' = new /\ DOMAIN x3 \subseteq DOMAIN x3'
    <2>1. DOMAIN x3' = 1..new /\ DOMAIN x3 \subseteq 1..new
      BY <1>1
    <2>2. P!Cardinality(1..new) = new
      BY <1>1, PInterval
    <2> QED BY <2>1, <2>2 DEF PMade
  <1>3. /\ "keepalive" \in P!Thread /\ "main" \in P!Thread /\ k \in P!Local /\ x5'["keepalive"] = [k EXCEPT !.pc = "writer", !.conn = new]
        /\ \A t \in P!Thread \ {"keepalive"} : x5'[t] = x5[t]
    BY <1>1 DEF P!Thread, PInv, P!TypeOK
  <1>4. [k EXCEPT !.pc = "writer", !.conn = new] \in P!Local
    BY <1>1, <1>3 DEF P!Local, P!PC
  <1>5. PNumbered'
    BY <1>1, <1>2 DEF PNumbered, P!Conn, PInv, P!ParamAssumption
  <1>6. P!TypeOK'
    <2>1. DOMAIN x3' \subseteq P!Conn
      BY <1>2, <1>5 DEF PNumbered, P!Conn, P!ParamAssumption
    <2>2. x3' \in [DOMAIN x3' -> {"open", "dropped", "closed"}]
      BY <1>1, <1>2 DEF PInv, P!TypeOK
    <2>3. x4' \in [DOMAIN x3' -> P!Thread \cup {P!Free}]
      BY <1>1, <1>2 DEF PInv, P!TypeOK
    <2>4. x1' \in [ForPool.Account -> DOMAIN x3' \cup {0}] /\ UNCHANGED <<x2, x6>>
      BY <1>2 DEF P!Dial, PInv, P!TypeOK
    <2> QED BY <1>1, <1>4, <2>1, <2>2, <2>3, <2>4 DEF PInv, P!TypeOK
  <1>7. P!Connected' = P!Connected /\ x1' = x1
    BY DEF P!Dial, P!Connected
  <1>8. PGoesWhere'
    BY <1>2, <1>3, <1>7 DEF PInv, PGoesWhere, P!Local
  <1>9. PNewIsOurs'
    <2>1. \A a \in ForPool.Account : x1[a] # new
      BY <1>1 DEF PInv, P!TypeOK
    <2>2. x5'["keepalive"].conn = new
      BY <1>3 DEF P!Local
    <2>3. x3'[new] = "open" /\ new \in DOMAIN x3'
      BY <1>1, <1>2
    <2> HIDE DEF new
    <2> QED BY <1>7, <2>1, <2>2, <2>3 DEF PNewIsOurs
  <1>10. P!MapIsCurrent'
    <2>1. \A a \in P!Connected : x1[a] \in DOMAIN x3 /\ x3'[x1[a]] = x3[x1[a]]
      BY <1>1 DEF P!Connected, PInv, P!TypeOK
    <2> QED BY <1>3, <1>7, <2>1 DEF PInv, P!MapIsCurrent
  <1> QED BY <1>5, <1>6, <1>8, <1>9, <1>10 DEF PInv

\* reconnectOnce closes the old connection and puts its own in the map.
LEMMA PSwaps == ASSUME P!ParamAssumption, PInv, NEW a \in ForPool.Account, P!Swap(a) PROVE PInv'
  <1> DEFINE k == x5["keepalive"]
             new == x5["keepalive"].conn
  <1>1. /\ a \in P!Connected /\ x1[a] \in DOMAIN x3 /\ new \in DOMAIN x3 /\ x3[new] # "closed"
        /\ \A b \in ForPool.Account : x1[b] # new
        /\ k \in P!Local /\ "keepalive" \in P!Thread /\ "main" \in P!Thread
    BY DEF P!Swap, PInv, P!TypeOK, PGoesWhere, PNewIsOurs, P!Connected, P!Thread
  <1>2. /\ x3' = [x3 EXCEPT ![x1[a]] = "closed"] /\ x1' = [x1 EXCEPT ![a] = new]
        /\ x5' = [x5 EXCEPT !["keepalive"] = [k EXCEPT !.pc = "names"]]
        /\ UNCHANGED <<x4, x6>> /\ x2' = P!Free
    BY DEF P!Swap, P!KeepaliveAt, P!Goto
  <1>3. /\ x5'["keepalive"] = [k EXCEPT !.pc = "names"] /\ \A t \in P!Thread \ {"keepalive"} : x5'[t] = x5[t]
        /\ [k EXCEPT !.pc = "names"] \in P!Local
    BY <1>1, <1>2 DEF PInv, P!TypeOK, P!Local, P!PC
  <1>4. DOMAIN x3' = DOMAIN x3 /\ PMade' = PMade
    BY <1>2 DEF PMade, PInv, P!TypeOK
  <1>5. x1'[a] = new /\ new # 0 /\ \A b \in ForPool.Account \ {a} : x1'[b] = x1[b]
    BY <1>1, <1>2 DEF PInv, P!TypeOK, PNumbered
  <1>6. P!Connected' = P!Connected
    BY <1>1, <1>2, <1>5 DEF P!Connected, PInv, P!TypeOK
  <1>7. P!TypeOK'
    BY <1>1, <1>2, <1>3, <1>4 DEF PInv, P!TypeOK
  <1>8. PGoesWhere' /\ PNewIsOurs'
    <2>1. /\ x5'["keepalive"].pc = "names" /\ x5'["keepalive"].acct = k.acct /\ x5'["keepalive"].todo = k.todo
      BY <1>1, <1>3 DEF P!Local
    <2>2. PNewIsOurs'
      BY <2>1 DEF PNewIsOurs
    <2>3. PGoesWhere'
      BY <1>1, <1>3, <1>4, <1>6, <2>1 DEF PInv, PGoesWhere
    <2> QED BY <2>2, <2>3
  <1>9. P!MapIsCurrent'
    <2>1. \A b \in P!Connected \ {a} : x1[b] # x1[a] /\ x3'[x1[b]] = x3[x1[b]]
      BY <1>1, <1>2 DEF PInv, P!MapIsCurrent, P!TypeOK, P!Connected
    <2>2. x3'[new] = x3[new]
      BY <1>1, <1>2 DEF PInv, P!TypeOK
    <2>3. x5'["main"] = x5["main"]
      BY <1>1, <1>3
    <2>4. \A b, c \in P!Connected : x1'[b] = x1'[c] => b = c
      BY <1>1, <1>5 DEF PInv, P!MapIsCurrent, P!Connected
    <2>5. x5["main"].pc = "idle" => \A b \in P!Connected : x3'[x1'[b]] # "closed"
      BY <1>1, <1>5, <2>1, <2>2 DEF PInv, P!MapIsCurrent, P!Connected
    <2> QED BY <1>6, <2>3, <2>4, <2>5 DEF P!MapIsCurrent
  <1>10. PNumbered'
    BY <1>4 DEF PInv, PNumbered
  <1> QED BY <1>7, <1>8, <1>9, <1>10 DEF PInv

\* Close, and connections the server ends.
LEMMA PCloses ==
    ASSUME P!ParamAssumption, PInv, P!Stop \/ (\E a \in ForPool.Account : P!CloseConn(a)) \/ P!Ended PROVE PInv'
  <1> DEFINE m == x5["main"]
  <1>1. /\ "keepalive" \in P!Thread /\ "main" \in P!Thread /\ m \in P!Local /\ m.todo \subseteq P!Connected
        /\ P!Connected \subseteq ForPool.Account
    BY DEF P!Thread, PInv, P!TypeOK, PGoesWhere, P!Connected
  <1>2. CASE P!Stop
    <2>1. [P!Idle EXCEPT !.pc = "close", !.todo = P!Connected] \in P!Local
      BY <1>1 DEF P!Idle, P!Local, P!PC
    <2> QED BY <1>1, <1>2, <2>1, PMove DEF P!Stop, P!Idle, PInv, P!TypeOK
  <1>3. CASE P!Ended
    <2>1. [m EXCEPT !.pc = "ended"] \in P!Local
      BY <1>1 DEF P!Local, P!PC
    <2> QED BY <1>1, <1>3, <2>1, PMove DEF P!Ended, P!Local, PInv, P!TypeOK
  <1>4. ASSUME NEW a \in ForPool.Account, P!CloseConn(a) PROVE PInv'
    <2>1. /\ x1[a] \in DOMAIN x3 /\ x3' = [x3 EXCEPT ![x1[a]] = "closed"]
          /\ x5' = [x5 EXCEPT !["main"] = [m EXCEPT !.todo = @ \ {a}]]
          /\ UNCHANGED <<x1, x2, x4, x6>> /\ m.pc = "close"
      BY <1>1, <1>4 DEF P!CloseConn, P!Goto, P!Connected, PInv, P!TypeOK
    <2>2. /\ [m EXCEPT !.todo = @ \ {a}] \in P!Local
          /\ x5'["main"] = [m EXCEPT !.todo = @ \ {a}] /\ \A t \in P!Thread \ {"main"} : x5'[t] = x5[t]
      BY <1>1, <2>1 DEF P!Local, PInv, P!TypeOK
    <2>3. DOMAIN x3' = DOMAIN x3 /\ PMade' = PMade /\ P!Connected' = P!Connected
      BY <2>1 DEF PMade, P!Connected, PInv, P!TypeOK
    <2>4. P!TypeOK'
      BY <2>1, <2>2, <2>3 DEF PInv, P!TypeOK
    <2>5. PGoesWhere' /\ PNumbered'
      BY <1>1, <2>1, <2>2, <2>3 DEF PInv, PGoesWhere, PNumbered, P!Local
    <2>6. PNewIsOurs'
      BY <1>1, <2>1, <2>2, <2>3 DEF PInv, PNewIsOurs, P!TypeOK
    <2>7. P!MapIsCurrent'
      BY <1>1, <2>1, <2>2, <2>3 DEF PInv, P!MapIsCurrent, P!Local
    <2> QED BY <2>4, <2>5, <2>6, <2>7 DEF PInv
  <1> QED BY <1>2, <1>3, <1>4

\* A dropped connection stays in the map, and is not a closed one.
LEMMA PDrops == ASSUME P!ParamAssumption, PInv, NEW c \in DOMAIN x3, P!Drop(c) PROVE PInv'
  <1>1. /\ x3' = [x3 EXCEPT ![c] = "dropped"] /\ UNCHANGED <<x1, x2, x4, x5>> /\ x6' \in 0..ForPool.MaxDrop
    BY DEF P!Drop, PInv, P!TypeOK, P!ParamAssumption
  <1>2. DOMAIN x3' = DOMAIN x3 /\ PMade' = PMade /\ P!Connected' = P!Connected
    BY <1>1 DEF PMade, P!Connected, PInv, P!TypeOK
  <1>3. \A d \in DOMAIN x3 : x3[d] # "closed" => x3'[d] # "closed"
    BY <1>1 DEF PInv, P!TypeOK
  <1>4. P!TypeOK'
    BY <1>1, <1>2 DEF PInv, P!TypeOK
  <1>5. PGoesWhere' /\ PNumbered' /\ PNewIsOurs'
    BY <1>1, <1>2, <1>3 DEF PInv, PGoesWhere, PNumbered, PNewIsOurs
  <1>6. P!MapIsCurrent'
    BY <1>1, <1>2, <1>3 DEF PInv, P!MapIsCurrent, P!Connected, P!TypeOK
  <1> QED BY <1>4, <1>5, <1>6 DEF PInv

\* Every step of the pool and its users preserves the invariant.
LEMMA PStep == ASSUME P!ParamAssumption, PInv, [P!Next]_P!vars PROVE PInv'
  <1>1. CASE UNCHANGED P!vars
    BY <1>1 DEF P!vars, PInv, P!TypeOK, PNumbered, PMade, PGoesWhere, PNewIsOurs, P!MapIsCurrent, P!Connected
  <1>2. ASSUME NEW t \in ForPool.Caller, P!CallerStep(t) \/ (\E a \in ForPool.Account : P!Call(t, a)) PROVE PInv'
    BY <1>2, PCalls, PTakes DEF P!CallerStep
  <1>3. CASE P!KeepaliveStep \/ P!Tick \/ P!DialFails
    BY <1>3, PKeepalive, PTakes, PDials, PSwaps DEF P!KeepaliveStep
  <1>4. CASE P!Stop \/ P!CloseStep
    BY <1>4, PCloses DEF P!CloseStep
  <1>5. ASSUME NEW c \in DOMAIN x3, P!Drop(c) PROVE PInv'
    BY <1>5, PDrops
  <1> QED BY <1>1, <1>2, <1>3, <1>4, <1>5 DEF P!Next

\* No step changes the scene a behaviour is about.
LEMMA PClosesUnused == ASSUME PInv, P!Next PROVE P!ClosesUnused
  <1>1. ASSUME NEW a \in ForPool.Account, P!Swap(a) \/ P!CloseConn(a) PROVE P!ClosesUnused
    BY <1>1 DEF P!Swap, P!CloseConn, P!ClosesUnused, PInv, P!TypeOK
  <1>2. CASE P!Dial
    BY <1>2 DEF P!Dial, P!ClosesUnused, PInv, PNumbered, PMade
  <1>3. ASSUME NEW c \in DOMAIN x3, P!Drop(c) PROVE P!ClosesUnused
    BY <1>3 DEF P!Drop, P!ClosesUnused, PInv, P!TypeOK
  <1>4. CASE UNCHANGED x3
    BY <1>4 DEF P!ClosesUnused
  <1> QED BY <1>1, <1>2, <1>3, <1>4 DEF P!Next, P!CallerStep, P!KeepaliveStep, P!CloseStep, P!Call, P!Resolve,
             P!TakeConn, P!EndUse, P!Tick, P!DialFails, P!NextName, P!NoMoreNames, P!Ping, P!TakePool, P!Stop, P!Ended

\* A pool scene begins as ConnPool does.
LEMMA PSceneInit == ASSUME At("pool"), Init PROVE PInv
  BY PInit, ServiceAssumption DEF Init, At

\* Every step of a pool scene keeps the invariant, and closes no client in use.
LEMMA PSceneStep == ASSUME At("pool"), PInv, [Next]_services PROVE PInv' /\ P!ClosesUnused
  <1>1. CASE UNCHANGED services
    <2>1. UNCHANGED P!vars /\ UNCHANGED x3
      BY <1>1 DEF services, P!vars
    <2> QED BY <2>1, PStep, ServiceAssumption DEF P!ClosesUnused
  <1>2. CASE Next
    <2>1. P!Next
      BY <1>2 DEF Next, At
    <2> QED BY <2>1, PStep, PClosesUnused, ServiceAssumption
  <1> QED BY <1>1, <1>2

\* A client of the pool is closed only under its connection's own lock, and a
\* caller never gets a connection that reconnectOnce has given up: two accounts
\* never share one, and the map holds none that is closed (pool.go:92-198).
THEOREM PoolIsSafe == Spec => PoolSafe
  <1> DEFINE Inv == At("pool") => PInv
  <1>1. Init => Inv
    BY PSceneInit
  <1>2. Inv /\ [Next]_services => Inv'
    BY PSceneStep, SceneStays DEF At
  <1>3. Inv /\ [Next]_services => [At("pool") => P!ClosesUnused /\ P!MapIsCurrent']_services
    BY PSceneStep, SceneStays DEF PInv, At
  <1> QED BY <1>1, <1>2, <1>3, PTL DEF Spec, PoolSafe

-----------------------------------------------------------------------------
(* The token file.  A process about to write holds a token nobody has used *)
(* up: a token becomes known to others through the file alone, and without *)
(* a spoilt write the file is empty while its only writer is at work.      *)

TSaves(p) == x5[p].step \in {"save", "write"}

\* A token not yet in the file is one the provider takes and nobody else has.
TNewToken ==
    \A q \in T!Everyone : TSaves(q) =>
        /\ x5[q].token \in x4 /\ x5[q].token # x1
        /\ \A p \in T!Everyone \ {q} : x5[p].token # x5[q].token

\* Unless a write was spoilt, one process writes at a time, into an empty file.
TOneWriter ==
    ~x6 => \A q \in T!Everyone : x5[q].step = "write" =>
        x1 = T!Torn /\ \A p \in T!Everyone : x5[p].step = "write" => p = q

TSteps == {"rest", "loaded", "login", "code", "save", "write"}

TInv == T!TypeOK /\ TNewToken /\ TOneWriter /\ T!FileStaysGood

\* There is no token at the start.
LEMMA TInit == ASSUME T!ParamAssumption, T!Init PROVE TInv
  <1>1. x5 = [p \in T!Everyone |-> [step |-> "rest", token |-> 0]] /\ x1 = 0 /\ x2 = 0
    BY DEF T!Init, T!Rest, T!None
  <1>2. T!TypeOK
    <2>1. x5 \in [T!Everyone -> [step : TSteps, token : 0..x2]]
      <3>1. [step |-> "rest", token |-> 0] \in [step : TSteps, token : 0..x2]
        BY <1>1 DEF TSteps
      <3> QED BY <1>1, <3>1
    <2>0. x6 \in BOOLEAN
      BY Zenon DEF T!Init
    <2>2. x2 \in 0..ForTokens.MaxTokens /\ x7 \in 0..ForTokens.MaxDeaths /\ x1 \in {T!None, T!Torn} \cup 1..x2
      BY <1>1 DEF T!Init, T!ParamAssumption, T!None
    <2>3. x3 \subseteq 1..x2 /\ x4 \subseteq 1..x2
      BY DEF T!Init
    <2> QED BY <2>1, <2>2, <2>3, <2>0 DEF T!TypeOK, TSteps
  <1>3. TNewToken /\ TOneWriter /\ T!FileStaysGood
    BY <1>1 DEF TNewToken, TOneWriter, T!FileStaysGood, TSaves
  <1> QED BY <1>2, <1>3 DEF TInv

\* A process that goes on without writing, or getting a token to write,
\* changes nothing others rely on.
LEMMA TQuiet ==
    ASSUME TInv, NEW p \in T!Everyone, NEW s \in TSteps \ {"save", "write"}, NEW t,
           t \in {T!None, x1, x5[p].token}, t # T!Torn, ~TSaves(p), T!Turns(p, s, t),
           UNCHANGED <<x1, x2, x4, x6>>, x3' \subseteq x3, x7' \in 0..ForTokens.MaxDeaths
    PROVE  TInv'
  <1>1. /\ x5'[p] = [step |-> s, token |-> t] /\ \A q \in T!Everyone \ {p} : x5'[q] = x5[q]
        /\ t \in 0..x2
    BY DEF TInv, T!TypeOK, T!Turns, T!None, T!Torn
  <1>2. T!TypeOK'
    BY <1>1 DEF TInv, T!TypeOK, T!Turns, TSteps
  <1>3. TNewToken'
    BY <1>1 DEF TInv, T!TypeOK, TNewToken, TSaves, T!None, TSteps
  <1>4. TOneWriter' /\ T!FileStaysGood'
    BY <1>1 DEF TInv, TOneWriter, T!FileStaysGood, TSaves, TSteps
  <1> QED BY <1>2, <1>3, <1>4 DEF TInv

\* A new token is nobody else's, and its refresh uses up only a token that no
\* writer holds.
LEMMA TGrant ==
    ASSUME T!ParamAssumption, TInv, NEW p \in T!Everyone, NEW ended, T!Grant(x2 + 1, ended), ~TSaves(p),
           T!Turns(p, "save", x2 + 1),
           \A q \in T!Everyone : TSaves(q) => x5[q].token \notin ended,
           UNCHANGED <<x1, x6, x7>>
    PROVE  TInv'
  <1>1. /\ x5'[p] = [step |-> "save", token |-> x2 + 1] /\ \A q \in T!Everyone \ {p} : x5'[q] = x5[q]
        /\ x2' = x2 + 1 /\ x2 + 1 \in 1..ForTokens.MaxTokens
        /\ x4' = (x4 \ ended) \cup {x2 + 1}
    BY DEF TInv, T!TypeOK, T!Turns, T!Grant, T!ParamAssumption
  <1>2. T!TypeOK'
    <2>1. 0..x2 \subseteq 0..x2' /\ 1..x2 \subseteq 1..x2' /\ x2 + 1 \in 0..x2'
      BY <1>1 DEF TInv, T!TypeOK
    <2>2. x5' \in [T!Everyone -> [step : TSteps, token : 0..x2']]
      BY <2>1 DEF TInv, T!TypeOK, T!Turns, TSteps
    <2>3. x3' \subseteq 1..x2' /\ x4' \subseteq 1..x2'
      <3>1. x3' = x3 \cup {x2'} /\ x4' \subseteq x4 \cup {x2'} /\ x2' \in 1..x2'
        BY <1>1 DEF T!Grant
      <3> QED BY <2>1, <3>1 DEF TInv, T!TypeOK
    <2>4. x2' \in 0..ForTokens.MaxTokens /\ x1' \in {T!None, T!Torn} \cup 1..x2'
      BY <1>1, <2>1 DEF TInv, T!TypeOK
    <2> QED BY <2>2, <2>3, <2>4 DEF TInv, T!TypeOK, TSteps
  <1>3. TNewToken'
    <2>1. \A q \in T!Everyone : x5[q].token # x2 + 1
      BY DEF TInv, T!TypeOK
    <2>2. x1 # x2 + 1
      BY DEF TInv, T!TypeOK, T!None, T!Torn
    <2> QED BY <1>1, <2>1, <2>2 DEF TInv, TNewToken, TSaves
  <1>4. TOneWriter'
    BY <1>1 DEF TInv, TOneWriter
  <1>5. T!FileStaysGood'
    BY <1>1 DEF T!FileStaysGood, TSaves
  <1> QED BY <1>2, <1>3, <1>4, <1>5 DEF TInv

\* A login reads the file, and keeps its token or has it refreshed.
LEMMA TLogsIn == ASSUME T!ParamAssumption, TInv, NEW p \in ForTokens.Process, T!LoadToken(p) \/ T!Token(p) PROVE TInv'
  <1>0. p \in T!Everyone
    BY DEF T!Everyone
  <1>1. CASE T!LoadToken(p)
    BY <1>0, <1>1, TQuiet DEF T!LoadToken, TSaves, TSteps, TInv, T!TypeOK
  <1>2. CASE T!Token(p)
    <2> DEFINE old == x5[p].token
    <2>1. ~TSaves(p) /\ old \in 0..x2 /\ UNCHANGED <<x1, x6, x7>>
      BY <1>0, <1>2 DEF T!Token, TSaves, TInv, T!TypeOK
    <2>2. CASE old \in x3 /\ T!Turns(p, "login", old) /\ UNCHANGED <<x2, x3, x4>>
      BY <1>0, <2>1, <2>2, TQuiet DEF TSteps, TInv, T!TypeOK, T!Torn
    <2>3. CASE /\ T!Grant(x2 + 1, IF ForTokens.Rotates THEN {old} ELSE {}) /\ T!Turns(p, "save", x2 + 1)
      <3>1. \A q \in T!Everyone : TSaves(q) => x5[q].token \notin (IF ForTokens.Rotates THEN {old} ELSE {})
        BY <1>0, <2>1 DEF TInv, TNewToken
      <3> QED BY <1>0, <2>1, <2>3, <3>1, TGrant
    <2>4. CASE x5' = [x5 EXCEPT ![p] = T!Rest] /\ UNCHANGED <<x2, x3, x4>>
      <3>1. T!Turns(p, "rest", T!None)
        BY <2>4 DEF T!Turns, T!Rest
      <3> QED BY <1>0, <2>1, <2>4, <3>1, TQuiet DEF TSteps, TInv, T!TypeOK, T!Torn, T!None
    <2>5. x2 + 1 # old
      BY <2>1 DEF TInv, T!TypeOK
    <2> QED BY <1>2, <2>2, <2>3, <2>4, <2>5 DEF T!Token, T!Changed
  <1> QED BY <1>1, <1>2

\* The owner's sign-in in the browser gets auth-setup a token of its own.
LEMMA TSetup == ASSUME T!ParamAssumption, TInv, T!Callback \/ T!Exchange PROVE TInv'
  <1>0. ForTokens.Setup \in T!Everyone
    BY DEF T!Everyone
  <1>1. CASE T!Callback
    BY <1>0, <1>1, TQuiet DEF T!Callback, TSaves, TSteps, TInv, T!TypeOK, T!None, T!Torn
  <1>2. CASE T!Exchange
    BY <1>0, <1>2, TGrant DEF T!Exchange, TSaves
  <1> QED BY <1>1, <1>2

\* A writer empties the file with its token in hand, and fills it with that.
LEMMA TWrites == ASSUME TInv, NEW p \in T!Everyone, T!Truncate(p) \/ T!Fill(p) PROVE TInv'
  <1>1. CASE T!Truncate(p)
    <2>1. /\ TSaves(p) /\ x5'[p] = [step |-> "write", token |-> x5[p].token]
          /\ \A q \in T!Everyone \ {p} : x5'[q] = x5[q]
          /\ x1' = T!Torn /\ UNCHANGED <<x2, x3, x4, x7>>
          /\ x5[p].token \in x4 /\ x5[p].token \in 0..x2
      BY <1>1 DEF T!Truncate, T!Turns, TSaves, TInv, T!TypeOK, TNewToken
    <2>2. T!TypeOK'
      BY <1>1, <2>1 DEF T!Truncate, T!Turns, TInv, T!TypeOK
    <2>3. TNewToken'
      BY <2>1 DEF TInv, T!TypeOK, TNewToken, TSaves, T!Torn
    <2>4. TOneWriter'
      BY <1>1, <2>1 DEF T!Truncate, T!Writing, TInv, TOneWriter
    <2>5. T!FileStaysGood'
      BY <2>1 DEF T!FileStaysGood, TSaves
    <2> QED BY <2>2, <2>3, <2>4, <2>5 DEF TInv
  <1>2. CASE T!Fill(p)
    <2>1. /\ TSaves(p) /\ x5'[p] = [step |-> "login", token |-> x5[p].token]
          /\ \A q \in T!Everyone \ {p} : x5'[q] = x5[q]
          /\ x1' \in {x5[p].token, T!Torn} /\ UNCHANGED <<x2, x3, x4, x6, x7>>
          /\ x5[p].token \in x4 /\ x5[p].token \in 1..x2
      BY <1>2 DEF T!Fill, T!Turns, TSaves, TInv, T!TypeOK, TNewToken
    <2>2. T!TypeOK'
      BY <1>2, <2>1 DEF T!Fill, T!Turns, TInv, T!TypeOK
    <2>3. TNewToken'
      BY <2>1 DEF TInv, T!TypeOK, TNewToken, TSaves, T!Torn
    <2>4. TOneWriter'
      BY <1>2, <2>1 DEF T!Fill, TInv, TOneWriter
    <2>5. T!FileStaysGood'
      BY <1>2, <2>1 DEF T!Fill, TInv, TOneWriter, T!FileStaysGood
    <2> QED BY <2>2, <2>3, <2>4, <2>5 DEF TInv
  <1> QED BY <1>1, <1>2

\* A death in the middle of a write spoils the file, another one nothing.
LEMMA TEnds == ASSUME T!ParamAssumption, TInv, NEW p \in T!Everyone, T!Login(p) \/ T!Death(p) PROVE TInv'
  <1>1. CASE T!Login(p)
    <2>1. ~TSaves(p) /\ T!Turns(p, "rest", T!None) /\ UNCHANGED <<x1, x2, x3, x4, x6, x7>>
      BY <1>1 DEF T!Login, TSaves, T!Rest, T!Turns
    <2> QED BY <2>1, TQuiet DEF TSteps, TInv, T!TypeOK, T!None, T!Torn
  <1>2. CASE T!Death(p)
    <2>0. x6' = (x6 \/ TSaves(p))
      BY <1>2, Zenon DEF T!Death, TSaves
    <2>1. /\ x5'[p] = T!Rest /\ \A q \in T!Everyone \ {p} : x5'[q] = x5[q]
          /\ x7' \in 0..ForTokens.MaxDeaths
          /\ UNCHANGED <<x1, x2, x3, x4>>
      BY <1>2 DEF T!Death, TInv, T!TypeOK, T!ParamAssumption
    <2>6. x6' \in BOOLEAN /\ (~x6' => ~x6 /\ ~TSaves(p))
      BY <2>0, Zenon
    <2>2. T!TypeOK'
      BY <1>2, <2>1, <2>6 DEF T!Death, TInv, T!TypeOK, T!Rest, T!None
    <2>3. TNewToken'
      BY <2>1 DEF TInv, T!TypeOK, TNewToken, TSaves, T!Rest, T!None
    <2>4. TOneWriter'
      BY <2>1, <2>6 DEF TInv, TOneWriter, TSaves, T!Rest
    <2>5. T!FileStaysGood'
      BY <2>1, <2>6 DEF TInv, T!FileStaysGood, TSaves, T!Rest
    <2> QED BY <2>2, <2>3, <2>4, <2>5 DEF TInv
  <1> QED BY <1>1, <1>2

\* An expired access token is no longer accepted; its refresh token still is.
LEMMA TExpires == ASSUME TInv, NEW t \in T!Tokens, T!Expire(t) PROVE TInv'
  BY DEF T!Expire, TInv, T!TypeOK, TNewToken, TOneWriter, T!FileStaysGood, TSaves

\* Every step of logins and auth-setup preserves the invariant.
LEMMA TStep == ASSUME T!ParamAssumption, TInv, [T!Next]_T!tokenVars PROVE TInv'
  <1>1. CASE UNCHANGED T!tokenVars
    BY <1>1 DEF T!tokenVars, TInv, T!TypeOK, TNewToken, TOneWriter, T!FileStaysGood, TSaves
  <1>2. CASE T!Next
    BY <1>2, TLogsIn, TSetup, TWrites, TEnds, TExpires DEF T!Next
  <1> QED BY <1>1, <1>2

\* No step changes the scene a behaviour is about.
LEMMA TSceneInit == ASSUME At("tokens"), Init PROVE TInv
  BY TInit, ServiceAssumption DEF Init, At

\* Every step of a tokens scene keeps the invariant.
LEMMA TSceneStep == ASSUME At("tokens"), TInv, [Next]_services PROVE TInv'
  <1>1. CASE UNCHANGED services
    <2>1. UNCHANGED T!tokenVars
      BY <1>1 DEF services, T!tokenVars
    <2> QED BY <2>1, TStep, ServiceAssumption
  <1>2. CASE Next
    <2>1. T!Next
      BY <1>2 DEF Next, At
    <2> QED BY <2>1, TStep, ServiceAssumption
  <1> QED BY <1>1, <1>2

\* Whatever the number of processes, of tokens and of deaths, no login makes
\* another browser sign-in necessary: the token file holds a token the provider
\* takes, or somebody is about to write one, unless a death or two writes at
\* once spoilt it (xoauth2.go:134-158).
THEOREM SignedInOnce == Spec => []FileStaysGood
  <1> DEFINE Inv == At("tokens") => TInv
  <1>1. Init => Inv
    BY TSceneInit
  <1>2. Inv /\ [Next]_services => Inv'
    BY TSceneStep, SceneStays DEF At
  <1>3. Inv => FileStaysGood
    BY DEF TInv, FileStaysGood
  <1> QED BY <1>1, <1>2, <1>3, PTL DEF Spec

-----------------------------------------------------------------------------
(* Unsubscribing.                                                          *)

UCaller == ForUnsubscribe.Caller
USender == ForUnsubscribe.Sender
ULetter == ForUnsubscribe.Letter

URequest ==
    [step : {"rest", "dry", "check", "act", "archive", "record"}, confirm : BOOLEAN, sender : USender \cup {""},
     uids : SUBSET ULetter, plan : {"one-click", "mailto", "none"}, archive : BOOLEAN, status : {"", "done", "failed"}]
URow == [stored : BOOLEAN, reported : BOOLEAN, late : BOOLEAN]

UTypes ==
    /\ x1 \subseteq ULetter /\ x2 \in [ULetter -> ULetter] /\ x11 \in BOOLEAN
    /\ x3 \subseteq x7 /\ x7 \subseteq USender /\ x6 \subseteq USender
    /\ x4 \in [USender -> URow] /\ x5 \in [UCaller -> URequest]
    /\ x8 \in [USender -> 0 .. ForUnsubscribe.MaxDone] /\ x9 \in [USender -> Nat] /\ x12 \in [USender -> 0 .. 2]
    /\ x13 \in 0 .. ForUnsubscribe.MaxFaults

\* A request in hand is one of a sender, who was shown to the owner if it is to
\* act, and whose mail its UIDs name until the folder is renumbered.
UAsked ==
    /\ \A c \in UCaller : x5[c].step # "rest" => x5[c].sender \in USender
    /\ \A c \in UCaller : x5[c].step = "act" => x5[c].sender \in x7
    /\ \A s \in USender : x8[s] > 0 => s \in x7
UNumbered ==
    ~x11 => /\ \A u \in ULetter : x2[u] = u
            /\ \A c \in UCaller : x5[c].step # "rest" => \A u \in x5[c].uids : ForUnsubscribe.From[u] = x5[c].sender
            /\ \A p \in x10 : ForUnsubscribe.From[p[2]] = p[1]

\* What took effect is logged, or its call is about to log it.
UHandles(r, s) == r.sender = s /\ r.step \in {"archive", "record"} /\ r.status = "done"
UHand(s) == {c \in UCaller : UHandles(x5[c], s)}
UCounted == x13 = 0 => \A s \in USender : x8[s] = x9[s] + Cardinality(UHand(s))

\* Without a fault, the digest that listed a row is still to mark it, or has.
UTold == x13 = 0 => \A s \in USender : x12[s] <= 1 /\ (x12[s] = 1 => s \in x6 \/ x4[s].reported)

UInv == UTypes /\ UAsked /\ UNumbered /\ UCounted /\ UTold

\* The instance's cardinality is the library's.
LEMMA USize == \A S : U!Cardinality(S) = Cardinality(S)
  BY Zenon DEF U!Cardinality, Cardinality

\* Only finitely many calls are under way.
LEMMA UFinite == IsFiniteSet(UCaller)
  BY ServiceAssumption DEF U!ParamAssumption, U!IsFiniteSet, IsFiniteSet, UCaller

\* The bounds count.
LEMMA UBounds == ForUnsubscribe.MaxDone \in Nat /\ ForUnsubscribe.MaxFaults \in Nat
  BY ServiceAssumption DEF U!ParamAssumption

\* Every letter has a sender.
LEMMA UFrom == ForUnsubscribe.From \in [ULetter -> USender] /\ "" \notin USender
  BY ServiceAssumption DEF U!ParamAssumption, ULetter, USender

\* At the start nobody was shown a sender, and nothing is done or logged.
LEMMA UInit == ASSUME At("unsubscribe"), Init PROVE UInv
  <1>1. U!Init
    BY DEF Init, At
  <1>2. UTypes
    <2>1. x5 \in [UCaller -> URequest]
      <3>1. U!Resting \in URequest
        BY DEF U!Resting, URequest
      <3> QED BY <1>1, <3>1 DEF U!Init, UCaller
    <2>2. x4 \in [USender -> URow]
      <3>1. U!NoRow \in URow
        BY DEF U!NoRow, URow
      <3> QED BY <1>1, <3>1 DEF U!Init, USender
    <2>3. x8 \in [USender -> 0 .. ForUnsubscribe.MaxDone] /\ x9 \in [USender -> Nat] /\ x12 \in [USender -> 0 .. 2]
      <3>1. x8 = [s \in USender |-> 0] /\ x9 = [s \in USender |-> 0] /\ x12 = [s \in USender |-> 0]
        BY <1>1 DEF U!Init, USender
      <3>2. 0 \in 0 .. ForUnsubscribe.MaxDone /\ 0 \in Nat /\ 0 \in 0 .. 2
        BY UBounds
      <3> QED BY <3>1, <3>2
    <2>4. /\ x1 \subseteq ULetter /\ x2 \in [ULetter -> ULetter] /\ x3 \subseteq x7 /\ x7 \subseteq USender
          /\ x6 \subseteq USender /\ x13 \in 0 .. ForUnsubscribe.MaxFaults
      <3>1. x1 = {} /\ x2 = [u \in ULetter |-> u] /\ x3 = {} /\ x7 = {} /\ x6 = {} /\ x13 = 0
        BY <1>1, Zenon DEF U!Init, ULetter
      <3> QED BY <3>1, UBounds
    <2>5. x11 \in BOOLEAN
      BY <1>1, Zenon DEF U!Init
    <2> QED BY <2>1, <2>2, <2>3, <2>4, <2>5 DEF UTypes
  <1>3. UAsked /\ UNumbered /\ UTold
    <2>1. \A c \in UCaller : x5[c].step = "rest"
      BY <1>1 DEF U!Init, U!Resting, UCaller
    <2>2. UAsked
      BY <1>1, <2>1 DEF U!Init, UAsked, USender
    <2>3. UNumbered
      BY <1>1, <2>1 DEF U!Init, UNumbered, ULetter
    <2>4. UTold
      BY <1>1 DEF U!Init, UTold, USender
    <2> QED BY <2>2, <2>3, <2>4
  <1>4. ASSUME NEW s \in USender PROVE x8[s] = x9[s] + Cardinality(UHand(s))
    <2>1. UHand(s) = {}
      BY <1>1 DEF U!Init, UHand, UHandles, U!Resting, UCaller
    <2> QED BY <1>1, <1>4, <2>1, FS_EmptySet DEF U!Init, USender
  <1> QED BY <1>2, <1>3, <1>4 DEF UInv, UCounted

\* A call that changes nothing it is counted for.
LEMMA UHandStays ==
    ASSUME UTypes, NEW c \in UCaller, NEW r \in URequest, x5' = [x5 EXCEPT ![c] = r], NEW s \in USender,
           UHandles(r, s) <=> UHandles(x5[c], s)
    PROVE  UHand(s)' = UHand(s)
  BY DEF UHand, UHandles, UTypes

\* A call whose unsubscribe takes effect is one more to be logged.
LEMMA UHandGrows ==
    ASSUME UTypes, NEW c \in UCaller, NEW r \in URequest, x5' = [x5 EXCEPT ![c] = r], NEW s \in USender,
           UHandles(r, s), ~UHandles(x5[c], s)
    PROVE  Cardinality(UHand(s)') = Cardinality(UHand(s)) + 1
  <1>1. UHand(s)' = UHand(s) \cup {c} /\ c \notin UHand(s)
    BY DEF UHand, UHandles, UTypes
  <1>2. IsFiniteSet(UHand(s))
    BY UFinite, FS_Subset DEF UHand
  <1> QED BY <1>1, <1>2, FS_AddElement

\* A call that has logged is one less.
LEMMA UHandShrinks ==
    ASSUME UTypes, NEW c \in UCaller, NEW r \in URequest, x5' = [x5 EXCEPT ![c] = r], NEW s \in USender,
           ~UHandles(r, s), UHandles(x5[c], s)
    PROVE  Cardinality(UHand(s)') = Cardinality(UHand(s)) - 1
  <1>1. UHand(s)' = UHand(s) \ {c} /\ c \in UHand(s)
    BY DEF UHand, UHandles, UTypes
  <1>2. IsFiniteSet(UHand(s))
    BY UFinite, FS_Subset DEF UHand
  <1> QED BY <1>1, <1>2, FS_RemoveElement

\* The calls to be logged can be counted.
LEMMA UHandNat == ASSUME NEW s PROVE Cardinality(UHand(s)) \in Nat
  BY UFinite, FS_Subset, FS_CardinalityType DEF UHand

\* Mail, time and the digest leave the requests alone.
LEMMA UQuiet ==
    ASSUME UInv, UNCHANGED <<x5, x7, x8, x9, x10, x13>>, UTypes', UTold',
           ~x11' => ~x11 /\ x2' = x2
    PROVE  UInv'
  <1>1. UAsked'
    BY DEF UInv, UAsked
  <1>2. UNumbered'
    BY DEF UInv, UNumbered
  <1>3. UCounted'
    <2>1. ASSUME NEW s \in USender PROVE UHand(s)' = UHand(s)
      BY DEF UHand, UHandles
    <2> QED BY <2>1 DEF UInv, UCounted
  <1> QED BY <1>1, <1>2, <1>3 DEF UInv

\* Mail arrives, is renumbered or comes late; what a sender was shown expires.
LEMMA UMail ==
    ASSUME UInv, \/ \E s \in USender : U!Expire(s) \/ U!MailAfterGrace(s)
                 \/ \E m \in ULetter : U!Arrive(m) \/ \E v \in ULetter : U!Renumber(m, v)
    PROVE  UInv'
  <1>1. ASSUME NEW s \in USender, U!Expire(s) PROVE UInv'
    <2>1. UTypes'
      BY <1>1 DEF UInv, UTypes, U!Expire, U!folder, U!past
    <2> QED BY <1>1, <2>1, UQuiet DEF UInv, UTold, U!Expire, U!folder, U!past
  <1>2. ASSUME NEW s \in USender, U!MailAfterGrace(s) PROVE UInv'
    <2>1. UNCHANGED <<x1, x2, x3, x5, x6, x7, x8, x9, x10, x11, x12, x13>> /\ x4' = [x4 EXCEPT ![s].late = TRUE]
      BY <1>2 DEF U!MailAfterGrace, U!folder, U!past
    <2>2. x4' \in [USender -> URow] /\ \A t \in USender : x4'[t].reported = x4[t].reported
      BY <2>1 DEF UInv, UTypes, URow
    <2>3. UTypes'
      BY <2>1, <2>2 DEF UInv, UTypes
    <2>4. UTold'
      BY <2>1, <2>2 DEF UInv, UTold
    <2> QED BY <2>1, <2>3, <2>4, UQuiet
  <1>3. ASSUME NEW m \in ULetter, U!Arrive(m) PROVE UInv'
    <2>1. UNCHANGED <<x2, x3, x4, x5, x6, x7, x8, x9, x10, x11, x12, x13>> /\ x1' = x1 \cup {m}
      BY <1>3 DEF U!Arrive, U!past
    <2>2. UTypes'
      BY <1>3, <2>1 DEF UInv, UTypes
    <2> QED BY <2>1, <2>2, UQuiet DEF UInv, UTold
  <1>4. ASSUME NEW u \in ULetter, NEW v \in ULetter, U!Renumber(u, v) PROVE UInv'
    <2>1. UNCHANGED <<x1, x3, x4, x5, x6, x7, x8, x9, x10, x12, x13>> /\ x11' = TRUE
      BY <1>4 DEF U!Renumber, U!past
    <2>2. x2' = [x2 EXCEPT ![u] = x2[v], ![v] = x2[u]]
      BY <1>4 DEF U!Renumber
    <2>3. UTypes'
      BY <2>1, <2>2 DEF UInv, UTypes
    <2> QED BY <2>1, <2>3, UQuiet DEF UInv, UTold
  <1> QED BY <1>1, <1>2, <1>3, <1>4

\* The digest tells of the rows that are late and unreported, then marks them.
LEMMA UDigest == ASSUME UInv, U!SendDigest \/ U!MarkReported PROVE UInv'
  <1>1. CASE U!SendDigest
    <2>1. UNCHANGED <<x1, x2, x3, x4, x5, x7, x8, x9, x10, x11, x13>> /\ x6 = {}
      BY <1>1 DEF U!SendDigest, U!folder
    <2>2. x6' = {s \in USender : x4[s].late /\ ~x4[s].reported}
      BY <1>1 DEF U!SendDigest, U!Ignored, USender
    <2>3. x12' = [s \in USender |-> IF s \in x6' /\ x12[s] < 2 THEN x12[s] + 1 ELSE x12[s]]
      BY <1>1 DEF U!SendDigest, USender
    <2>4. UTypes'
      BY <2>1, <2>2, <2>3 DEF UInv, UTypes
    <2>5. UTold'
      BY <2>1, <2>2, <2>3 DEF UInv, UTypes, UTold
    <2> QED BY <2>1, <2>4, <2>5, UQuiet
  <1>2. CASE U!MarkReported
    <2>1. UNCHANGED <<x1, x2, x3, x5, x7, x8, x9, x10, x11, x12, x13>> /\ x6' = {}
      BY <1>2 DEF U!MarkReported, U!folder, U!past
    <2>2. x4' = [s \in USender |-> IF s \in x6 THEN [x4[s] EXCEPT !.reported = TRUE] ELSE x4[s]]
      BY <1>2 DEF U!MarkReported, USender
    <2>3. ASSUME NEW s \in USender
          PROVE  x4'[s] \in URow /\ x4'[s].reported = (x4[s].reported \/ s \in x6)
      BY <2>2 DEF UInv, UTypes, URow
    <2>4. UTypes'
      BY <2>1, <2>2, <2>3 DEF UInv, UTypes
    <2>5. UTold'
      BY <2>1, <2>3 DEF UInv, UTold
    <2> QED BY <2>1, <2>4, <2>5, UQuiet
  <1> QED BY <1>1, <1>2

\* A request takes its step r.
LEMMA UCallMoves ==
    ASSUME UInv, NEW c \in UCaller, NEW r \in URequest, x5' = [x5 EXCEPT ![c] = r],
           UNCHANGED <<x2, x11>>, UTypes', UCounted', UTold',
           r.step # "rest" => r.sender \in USender /\ (~x11 => \A u \in r.uids : ForUnsubscribe.From[u] = r.sender),
           x7 \subseteq x7', r.step = "act" => r.sender \in x7', \A s \in USender : x8'[s] > 0 => s \in x7',
           ~x11 => \A p \in x10' : ForUnsubscribe.From[p[2]] = p[1]
    PROVE  UInv'
  <1>1. x5'[c] = r /\ \A d \in UCaller \ {c} : x5'[d] = x5[d]
    BY DEF UInv, UTypes
  <1>2. UAsked'
    BY <1>1 DEF UInv, UAsked
  <1>3. UNumbered'
    BY <1>1 DEF UInv, UNumbered
  <1> QED BY <1>2, <1>3 DEF UInv

\* A step that changes no count changes nothing the counts say.
LEMMA UCountStays ==
    ASSUME UInv, NEW c \in UCaller, NEW r \in URequest, x5' = [x5 EXCEPT ![c] = r],
           UNCHANGED <<x8, x9, x13>>, \A s \in USender : UHandles(r, s) <=> UHandles(x5[c], s)
    PROVE  UCounted'
  <1>1. ASSUME NEW s \in USender PROVE UHand(s)' = UHand(s)
    BY UHandStays DEF UInv
  <1> QED BY <1>1 DEF UInv, UCounted

\* A request starts with the mail its UIDs name now.
LEMMA UFinds ==
    ASSUME UInv, NEW c \in UCaller, NEW s \in USender, NEW confirm \in BOOLEAN, NEW archive \in BOOLEAN,
           U!Find(c, s, confirm, archive)
    PROVE  UInv'
  <1> DEFINE plan == U!Plan(x2[U!Newest(U!Theirs(s))])
             begin == IF confirm THEN "check" ELSE "dry"
             r == [U!Resting EXCEPT !.step = begin, !.confirm = confirm, !.sender = s, !.uids = U!Theirs(s),
                                    !.plan = plan, !.archive = archive]
  <1>1. x5' = [x5 EXCEPT ![c] = r] /\ x5[c].step = "rest"
    BY Zenon DEF U!Find
  <1>2. UNCHANGED <<x1, x2, x3, x4, x6, x7, x8, x9, x10, x11, x12, x13>>
    BY DEF U!Find, U!folder, U!past
  <1>3. U!Theirs(s) \in SUBSET ULetter /\ \A u \in U!Theirs(s) : ForUnsubscribe.From[x2[u]] = s
    BY DEF U!Theirs, ULetter
  <1>4. r \in URequest
    <2>1. plan \in {"one-click", "mailto", "none"}
      BY DEF U!Plan
    <2>2. begin \in {"check", "dry"}
      OBVIOUS
    <2> HIDE DEF plan, begin
    <2> QED BY <1>3, <2>1, <2>2 DEF URequest, U!Resting
  <1>5. r.step \in {"check", "dry"} /\ r.sender = s /\ r.uids = U!Theirs(s)
    <2>2. begin \in {"check", "dry"}
      OBVIOUS
    <2> HIDE DEF plan, begin
    <2> QED BY <2>2 DEF U!Resting
  <1> HIDE DEF r, plan, begin
  <1>6. UTypes'
    BY <1>1, <1>2, <1>4 DEF UInv, UTypes
  <1>7. UCounted'
    BY <1>1, <1>2, <1>4, <1>5, UCountStays DEF UHandles
  <1>8. ~x11 => \A u \in r.uids : ForUnsubscribe.From[u] = r.sender
    BY <1>3, <1>5 DEF UInv, UNumbered
  <1> QED BY <1>1, <1>2, <1>4, <1>5, <1>6, <1>7, <1>8, UCallMoves DEF UInv, UAsked, UNumbered, UTold

\* A dry run shows its sender.
LEMMA UShows == ASSUME UInv, NEW c \in UCaller, U!DryRun(c) PROVE UInv'
  <1> DEFINE r == U!Resting
  <1>1. x5' = [x5 EXCEPT ![c] = r] /\ x5[c].step = "dry" /\ x3' = x3 \cup {x5[c].sender} /\ x7' = x7 \cup {x5[c].sender}
    BY DEF U!DryRun
  <1>2. UNCHANGED <<x1, x2, x4, x6, x8, x9, x10, x11, x12, x13>>
    BY DEF U!DryRun, U!folder
  <1>3. r \in URequest /\ r.step = "rest" /\ x5[c].sender \in USender
    BY <1>1 DEF U!Resting, URequest, UInv, UAsked
  <1> HIDE DEF r
  <1>4. UTypes'
    BY <1>1, <1>2, <1>3 DEF UInv, UTypes
  <1>5. UCounted'
    BY <1>1, <1>2, <1>3, UCountStays DEF UHandles
  <1> QED BY <1>1, <1>2, <1>3, <1>4, <1>5, UCallMoves DEF UInv, UAsked, UNumbered, UTold

\* Only a sender that was shown is acted on.
LEMMA UChecks == ASSUME UInv, NEW c \in UCaller, U!Check(c) PROVE UInv'
  <1>1. UNCHANGED <<x1, x2, x3, x4, x6, x7, x8, x9, x10, x11, x12, x13>> /\ x5[c].step = "check"
    BY DEF U!Check, U!folder, U!past
  <1>2. PICK r \in URequest : /\ x5' = [x5 EXCEPT ![c] = r] /\ r.step \in {"act", "rest"}
                              /\ r.step = "act" => r.sender \in x3 /\ r.sender = x5[c].sender /\ r.uids = x5[c].uids
    <2>1. CASE x5[c].sender \in x3
      <3> DEFINE r == [x5[c] EXCEPT !.step = "act"]
      <3>1. x5' = [x5 EXCEPT ![c] = r]
        BY <2>1 DEF U!Check
      <3>2. r \in URequest /\ r.sender = x5[c].sender /\ r.uids = x5[c].uids /\ r.step = "act"
        BY DEF UInv, UTypes, URequest
      <3> HIDE DEF r
      <3> QED BY <2>1, <3>1, <3>2
    <2>2. CASE x5[c].sender \notin x3
      <3>1. x5' = [x5 EXCEPT ![c] = U!Resting]
        BY <2>2 DEF U!Check
      <3>2. U!Resting \in URequest /\ U!Resting.step = "rest"
        BY DEF U!Resting, URequest
      <3> QED BY <3>1, <3>2
    <2> QED BY <2>1, <2>2
  <1>3. UTypes'
    BY <1>1, <1>2 DEF UInv, UTypes
  <1>4. UCounted'
    BY <1>1, <1>2, UCountStays DEF UHandles
  <1>5. r.step # "rest" => r.sender \in USender /\ r.sender \in x7 /\ (~x11 => \A u \in r.uids : ForUnsubscribe.From[u] = r.sender)
    BY <1>1, <1>2 DEF UInv, UTypes, UNumbered
  <1> QED BY <1>1, <1>2, <1>3, <1>4, <1>5, UCallMoves DEF UInv, UAsked, UNumbered, UTold

\* What takes effect is in hand until it is logged.
LEMMA UActs == ASSUME UInv, NEW c \in UCaller, NEW ok \in BOOLEAN, U!Act(c, ok) PROVE UInv'
  <1> DEFINE effect == ok /\ (x5[c].plan = "one-click" \/ (x5[c].plan = "mailto" /\ c \in ForUnsubscribe.Scopes))
  <1>1. UNCHANGED <<x1, x2, x3, x4, x6, x7, x9, x10, x11, x12, x13>> /\ x5[c].step = "act"
    BY DEF U!Act, U!folder
  <1>2. x5[c] \in URequest
    BY DEF UInv, UTypes
  <1>0. PICK s \in USender : s = x5[c].sender /\ s \in x7
    BY <1>1 DEF UInv, UAsked
  <1>3. x8' = (IF effect THEN [x8 EXCEPT ![s] = x8[s] + 1] ELSE x8) /\ (effect => x8[s] < ForUnsubscribe.MaxDone)
    BY <1>0 DEF U!Act
  <1>4. PICK r \in URequest : /\ x5' = [x5 EXCEPT ![c] = r]
                              /\ effect => r.sender = s /\ r.uids = x5[c].uids /\ r.status = "done" /\ r.step \in {"archive", "record"}
                              /\ ~effect => \/ r.step = "rest"
                                            \/ r.sender = s /\ r.uids = x5[c].uids /\ r.status = "failed" /\ r.step = "record"
    <2>1. CASE x5[c].plan = "mailto" /\ c \notin ForUnsubscribe.Scopes
      <3>1. x5' = [x5 EXCEPT ![c] = U!Resting] /\ ~effect
        BY <2>1 DEF U!Act
      <3>2. U!Resting \in URequest /\ U!Resting.step = "rest"
        BY DEF U!Resting, URequest
      <3> HIDE DEF effect
      <3> QED BY <3>1, <3>2
    <2>2. CASE ~(x5[c].plan = "mailto" /\ c \notin ForUnsubscribe.Scopes)
      <3> DEFINE status == IF effect THEN "done" ELSE "failed"
                 step == IF effect /\ x5[c].archive THEN "archive" ELSE "record"
                 r == [x5[c] EXCEPT !.status = status, !.step = step]
      <3>1. x5' = [x5 EXCEPT ![c].status = status, ![c].step = step]
        BY <2>2 DEF U!Act
      <3>2. /\ effect => status = "done" /\ step \in {"archive", "record"}
            /\ ~effect => status = "failed" /\ step = "record"
        OBVIOUS
      <3> HIDE DEF effect, status, step
      <3>3. x5' = [x5 EXCEPT ![c] = r]
        BY <3>1 DEF UInv, UTypes
      <3>4. r \in URequest /\ r.sender = s /\ r.uids = x5[c].uids /\ r.status = status /\ r.step = step
        BY <1>0, <1>2, <3>2 DEF URequest
      <3> HIDE DEF r
      <3> QED BY <3>2, <3>3, <3>4
    <2> QED BY <2>1, <2>2
  <1> HIDE DEF effect
  <1>5. effect \in BOOLEAN
    BY Zenon DEF effect
  <1>6. UTypes'
    <2>1. x8' \in [USender -> 0 .. ForUnsubscribe.MaxDone]
      BY <1>0, <1>2, <1>3, UBounds DEF UInv, UTypes
    <2> QED BY <1>1, <1>4, <2>1 DEF UInv, UTypes
  <1>7. \A t \in USender : x8'[t] > 0 => t \in x7
    BY <1>0, <1>2, <1>3 DEF UInv, UTypes, UAsked
  <1>8. UCounted'
    <2>1. CASE effect
      <3>1. ASSUME NEW t \in USender, t # s PROVE UHand(t)' = UHand(t) /\ x8'[t] = x8[t]
        BY <1>0, <1>1, <1>2, <1>3, <1>4, <2>1, <3>1, UHandStays DEF UHandles, UInv, UTypes
      <3>2. Cardinality(UHand(s)') = Cardinality(UHand(s)) + 1
        BY <1>0, <1>1, <1>2, <1>4, <2>1, UHandGrows DEF UHandles, UInv
      <3>3. x8'[s] = x8[s] + 1 /\ x8[s] \in Nat /\ x9[s] \in Nat
        BY <1>0, <1>2, <1>3, <2>1, UBounds DEF UInv, UTypes
      <3> QED BY <1>0, <1>1, <1>2, <3>1, <3>2, <3>3, UHandNat DEF UInv, UCounted
    <2>2. CASE ~effect
      <3>1. \A t \in USender : UHandles(r, t) <=> UHandles(x5[c], t)
        BY <1>0, <1>1, <1>4, <2>2 DEF UHandles
      <3> QED BY <1>1, <1>3, <1>4, <2>2, <3>1, UCountStays
    <2> QED BY <2>1, <2>2
  <1>9. r.step # "rest" => r.sender \in USender /\ (~x11 => \A u \in r.uids : ForUnsubscribe.From[u] = r.sender)
    BY <1>0, <1>1, <1>2, <1>4 DEF UInv, UNumbered
  <1> QED BY <1>1, <1>4, <1>6, <1>7, <1>8, <1>9, UCallMoves DEF UInv, UAsked, UNumbered, UTold

\* The letters an archive moves are those its UIDs name.
LEMMA UArchives == ASSUME UInv, NEW c \in UCaller, NEW ok \in BOOLEAN, U!Archive(c, ok) PROVE UInv'
  <1> DEFINE letters == {x2[u] : u \in x5[c].uids} \cap x1
             r == [x5[c] EXCEPT !.step = "record"]
  <1>1. UNCHANGED <<x2, x3, x4, x6, x7, x8, x9, x11, x12, x13>> /\ x5[c].step = "archive"
    BY DEF U!Archive
  <1>2. x1' \subseteq x1 /\ x10' \subseteq x10 \cup {<<x5[c].sender, m>> : m \in letters}
    BY DEF U!Archive
  <1>3. x5' = [x5 EXCEPT ![c] = r]
    BY DEF U!Archive
  <1>4. r \in URequest /\ r.sender = x5[c].sender /\ r.uids = x5[c].uids /\ r.step = "record" /\ r.status = x5[c].status
    BY DEF UInv, UTypes, URequest
  <1> HIDE DEF r
  <1>5. UTypes'
    BY <1>1, <1>2, <1>3, <1>4 DEF UInv, UTypes
  <1>6. UCounted'
    BY <1>1, <1>3, <1>4, UCountStays DEF UHandles
  <1>7. ASSUME ~x11, NEW p \in x10' PROVE ForUnsubscribe.From[p[2]] = p[1]
    <2>1. CASE p \in x10
      BY <1>7, <2>1 DEF UInv, UNumbered
    <2>2. CASE p \notin x10
      <3>1. PICK m \in letters : p = <<x5[c].sender, m>>
        BY <1>2, <2>2
      <3>2. PICK u \in x5[c].uids : m = x2[u]
        OBVIOUS
      <3>3. u \in ULetter
        BY <3>2 DEF UInv, UTypes, URequest
      <3>4. m = u /\ ForUnsubscribe.From[u] = x5[c].sender
        BY <1>1, <1>7, <3>2, <3>3 DEF UInv, UNumbered
      <3> QED BY <3>1, <3>4
    <2> QED BY <2>1, <2>2
  <1>8. r.sender \in USender /\ (~x11 => \A u \in r.uids : ForUnsubscribe.From[u] = r.sender)
    BY <1>1, <1>4 DEF UInv, UAsked, UNumbered
  <1> QED BY <1>1, <1>3, <1>4, <1>5, <1>6, <1>7, <1>8, UCallMoves DEF UInv, UAsked, UTold

\* A request that is over.
LEMMA UIdle == U!Resting \in URequest /\ U!Resting.step = "rest"
  BY DEF U!Resting, URequest

\* Logging a call that took effect balances the two counts again.
LEMMA URecords == ASSUME UInv, NEW c \in UCaller, U!Record(c) PROVE UInv'
  <1>1. x5' = [x5 EXCEPT ![c] = U!Resting] /\ x5[c].step = "record" /\ UNCHANGED <<x1, x2, x3, x7, x8, x10, x11, x13>>
    BY DEF U!Record, U!folder
  <1>2. CASE x5[c].status # "done"
    <2>1. UNCHANGED <<x4, x6, x9, x12>>
      BY <1>2 DEF U!Record
    <2>2. UTypes'
      BY <1>1, <2>1, UIdle DEF UInv, UTypes
    <2>3. UCounted'
      BY <1>1, <1>2, <2>1, UIdle, UCountStays DEF UHandles
    <2> QED BY <1>1, <2>1, <2>2, <2>3, UIdle, UCallMoves DEF UInv, UAsked, UNumbered, UTold
  <1>3. CASE x5[c].status = "done"
    <2>0. PICK s \in USender : s = x5[c].sender
      BY <1>1 DEF UInv, UAsked
    <2> DEFINE row == [U!NoRow EXCEPT !.stored = TRUE]
    <2>1. /\ x4' = [x4 EXCEPT ![s] = row] /\ x9' = [x9 EXCEPT ![s] = x9[s] + 1]
          /\ x12' = [x12 EXCEPT ![s] = 0] /\ x6' = x6 \ {s}
      BY <1>3, <2>0 DEF U!Record
    <2>2. UTypes'
      <3>1. row \in URow
        BY DEF URow, U!NoRow
      <3> HIDE DEF row
      <3> QED BY <1>1, <2>1, <3>1, UIdle DEF UInv, UTypes
    <2> HIDE DEF row
    <2>3. UCounted'
      <3>1. ASSUME NEW t \in USender, t # s PROVE UHand(t)' = UHand(t) /\ x9'[t] = x9[t]
        BY <1>1, <2>0, <2>1, <3>1, UIdle, UHandStays DEF UHandles, UInv, UTypes
      <3>2. Cardinality(UHand(s)') = Cardinality(UHand(s)) - 1
        BY <1>1, <1>3, <2>0, UIdle, UHandShrinks DEF UHandles, UInv
      <3>3. x9'[s] = x9[s] + 1 /\ x9[s] \in Nat
        BY <2>1 DEF UInv, UTypes
      <3> QED BY <1>1, <3>1, <3>2, <3>3, UHandNat DEF UInv, UCounted
    <2>4. UTold'
      BY <1>1, <2>1 DEF UInv, UTypes, UTold
    <2> QED BY <1>1, <2>1, <2>2, <2>3, <2>4, UIdle, UCallMoves DEF UInv, UAsked, UNumbered
  <1> QED BY <1>2, <1>3

\* After a fault, nothing is promised about what was in hand.
LEMMA UFaults == ASSUME UInv, U!Fault PROVE UInv'
  <1>1. UNCHANGED <<x1, x2, x3, x4, x7, x8, x9, x10, x11, x12>> /\ x13' = x13 + 1 /\ x13 < ForUnsubscribe.MaxFaults
    BY DEF U!Fault, U!folder, U!past
  <1>2. x13' \in 0 .. ForUnsubscribe.MaxFaults /\ x13' # 0
    BY <1>1, UBounds DEF UInv, UTypes
  <1>3. UCounted' /\ UTold'
    BY <1>2 DEF UCounted, UTold
  <1>4. CASE \E c \in UCaller : x5' = [x5 EXCEPT ![c] = U!Resting] /\ x6' = x6
    <2>1. PICK c \in UCaller : x5' = [x5 EXCEPT ![c] = U!Resting] /\ x6' = x6
      BY <1>4
    <2>2. UTypes'
      BY <1>1, <1>2, <2>1, UIdle DEF UInv, UTypes
    <2> QED BY <1>1, <1>3, <2>1, <2>2, UIdle, UCallMoves DEF UInv, UAsked, UNumbered
  <1>5. CASE x6' = {} /\ x5' = x5
    BY <1>1, <1>2, <1>3, <1>5 DEF UInv, UTypes, UAsked, UNumbered
  <1> QED BY <1>4, <1>5 DEF U!Fault, UCaller

\* Every step of an unsubscribe scene keeps the invariant.
LEMMA UStep == ASSUME UInv, [Next]_services, At("unsubscribe") PROVE UInv'
  <1>1. CASE U!Next
    <2>1. CASE U!SendDigest \/ U!MarkReported
      BY <2>1, UDigest
    <2>2. CASE \/ \E s \in USender : U!Expire(s) \/ U!MailAfterGrace(s)
               \/ \E m \in ULetter : U!Arrive(m) \/ \E v \in ULetter : U!Renumber(m, v)
      BY <2>2, UMail
    <2>3. ASSUME NEW c \in UCaller,
                 U!DryRun(c) \/ U!Check(c) \/ U!Record(c) \/ (\E ok \in BOOLEAN : U!Act(c, ok) \/ U!Archive(c, ok))
          PROVE  UInv'
      BY <2>3, UShows, UChecks, URecords, UActs, UArchives
    <2>4. ASSUME NEW c \in UCaller, NEW s \in USender, NEW confirm \in BOOLEAN, NEW archive \in BOOLEAN,
                 U!Find(c, s, confirm, archive)
          PROVE  UInv'
      BY <2>4, UFinds
    <2> QED BY <1>1, <2>1, <2>2, <2>3, <2>4, UFaults DEF U!Next, UCaller, USender, ULetter
  <1>2. CASE UNCHANGED services
    BY <1>2 DEF services, UInv, UTypes, UAsked, UNumbered, UCounted, UTold, UHand
  <1> QED BY <1>1, <1>2 DEF Next, At

\* The invariant says what the property promises.
LEMMA UProperty == ASSUME UInv PROVE U!OnlyAsAsked /\ U!Accounted
  <1>1. U!OnlyAsAsked
    BY DEF UInv, UAsked, UNumbered, U!OnlyAsAsked, USender
  <1>2. ASSUME NEW s \in USender PROVE U!InHand(s) = Cardinality(UHand(s))
    <2>1. {c \in UCaller : x5[c].sender = s /\ x5[c].step \in {"archive", "record"} /\ x5[c].status = "done"} = UHand(s)
      BY DEF UHand, UHandles
    <2> QED BY <2>1, USize DEF U!InHand, UCaller
  <1> QED BY <1>1, <1>2 DEF UInv, UCounted, UTold, U!Accounted, USender

\* The invariant has the types.
LEMMA UTypeOK == ASSUME UInv PROVE U!TypeOK
  <1>1. \A c \in UCaller : x5[c] \in URequest
    BY DEF UInv, UTypes
  <1>2. \A c \in UCaller :
          /\ x5[c].step \in {"rest", "dry", "check", "act", "archive", "record"} /\ x5[c].uids \subseteq ULetter
    BY <1>1 DEF URequest
  <1> QED BY <1>2 DEF UInv, UTypes, U!TypeOK, URow, UCaller, ULetter, USender

\* Nothing happens to a sender the owner was not shown, mail that is moved is
\* that sender's, and every unsubscribe that took effect is logged or about to
\* be, unless the process failed; the digest tells of each row once
\* (unsubscribe.go:142-159, 291-312).
THEOREM UnsubscribesAsAsked == Spec => []UnsubscribeRight
  <1> DEFINE Inv == At("unsubscribe") => UInv
  <1>1. Init => Inv
    BY UInit
  <1>2. Inv /\ [Next]_services => Inv'
    BY UStep, SceneStays DEF At
  <1>3. Inv => UnsubscribeRight
    BY UProperty DEF UnsubscribeRight
  <1> QED BY <1>1, <1>2, <1>3, PTL DEF Spec

-----------------------------------------------------------------------------
(* The event stream.                                                       *)

BPublisher == ForStream.Publisher
BClient == ForStream.Client
BEvents == BPublisher \X (0 .. ForStream.MaxEvents)
BTurn == [event : 0 .. ForStream.MaxEvents, busy : BOOLEAN, clients : Seq(BClient), served : Nat]

BTypes ==
    /\ x1 \in Seq(BClient) /\ x2 \in [BClient -> Seq(BEvents)] /\ x3 \in [BClient -> Seq(BEvents)]
    /\ x4 \in [BClient -> {"new", "on", "gone"}] /\ x5 \in [BPublisher -> BTurn]
    /\ x6 \in [BClient -> SUBSET BEvents] /\ x7 \in [BClient -> SUBSET BEvents]
    /\ \A c \in BClient : Len(x2[c]) <= ForStream.Buffer

\* The clients that are there are in the list once, and a copy has each once.
BOnce(list) == \A i, j \in 1 .. Len(list) : list[i] = list[j] => i = j
BListed ==
    /\ BOnce(x1) /\ \A c \in BClient : x4[c] = "on" <=> \E i \in 1 .. Len(x1) : x1[i] = c
    /\ \A p \in BPublisher : BOnce(x5[p].clients) /\ x5[p].served <= Len(x5[p].clients)

\* What a client was offered: nothing that was not published, and the event
\* being published just when its turn has come.
BTaken(c) == x3[c] \o x2[c]
BOffered(c, e) == e \in x7[c] \/ \E i \in 1 .. Len(BTaken(c)) : BTaken(c)[i] = e
BServed(p, c) == \E i \in 1 .. x5[p].served : x5[p].clients[i] = c
BInTurn ==
    \A p \in BPublisher, c \in BClient :
       /\ \A n \in 0 .. ForStream.MaxEvents : BOffered(c, <<p, n>>) => n <= x5[p].event
       /\ x5[p].busy => (BOffered(c, <<p, x5[p].event>>) <=> BServed(p, c))

BOrdered(c) ==
    \A i, j \in 1 .. Len(BTaken(c)) :
        i < j /\ BTaken(c)[i][1] = BTaken(c)[j][1] => BTaken(c)[i][2] < BTaken(c)[j][2]
BKept ==
    \A c \in BClient :
       /\ \A e \in x6[c] : BOffered(c, e)
       /\ \A i \in 1 .. Len(BTaken(c)) : BTaken(c)[i] \notin x7[c]
       /\ BOrdered(c)

BInv == BTypes /\ BListed /\ BInTurn /\ BKept

\* The bounds count.
LEMMA BBounds == ForStream.Buffer \in Nat /\ ForStream.MaxEvents \in Nat
  BY ServiceAssumption DEF B!ParamAssumption

\* Nobody is connected, and nothing is published.
LEMMA BInit == ASSUME At("stream"), Init PROVE BInv
  <1>1. B!Init
    BY DEF Init, At
  <1>2. /\ x1 = <<>> /\ x2 = [c \in BClient |-> <<>>] /\ x3 = [c \in BClient |-> <<>>] /\ x4 = [c \in BClient |-> "new"]
        /\ x6 = [c \in BClient |-> {}] /\ x7 = [c \in BClient |-> {}]
    BY <1>1, Zenon DEF B!Init, BClient
  <1>3. x5 = [p \in BPublisher |-> [event |-> 0, busy |-> FALSE, clients |-> <<>>, served |-> 0]]
    BY <1>1, Zenon DEF B!Init, BPublisher
  <1>4. BTypes
    <2>1. <<>> \in Seq(BClient) /\ <<>> \in Seq(BEvents) /\ Len(<<>>) = 0
      BY EmptySeq
    <2>2. x5 \in [BPublisher -> BTurn]
      <3>1. [event |-> 0, busy |-> FALSE, clients |-> <<>>, served |-> 0] \in BTurn
        BY <2>1, BBounds DEF BTurn
      <3> QED BY <1>3, <3>1
    <2>3. \A c \in BClient : Len(x2[c]) <= ForStream.Buffer
      BY <1>2, <2>1, BBounds
    <2> QED BY <1>2, <2>1, <2>2, <2>3 DEF BTypes
  <1>5. BListed
    BY <1>2, <1>3 DEF BListed, BOnce
  <1>6. \A c \in BClient : BTaken(c) = <<>> /\ x6[c] = {} /\ x7[c] = {}
    BY <1>2 DEF BTaken
  <1>7. BInTurn
    <2>1. \A c \in BClient : \A e : ~BOffered(c, e)
      BY <1>6 DEF BOffered
    <2> QED BY <1>3, <2>1 DEF BInTurn
  <1>8. BKept
    BY <1>6 DEF BKept, BOrdered
  <1> QED BY <1>4, <1>5, <1>7, <1>8 DEF BInv

\* Writing moves an event from the channel to what was written.
LEMMA MovesHead ==
    ASSUME NEW S, NEW s \in Seq(S), NEW t \in Seq(S), t # <<>>
    PROVE  Append(s, Head(t)) \o Tail(t) = s \o t
  <1>1. Head(t) \in S /\ Tail(t) \in Seq(S) /\ t = <<Head(t)>> \o Tail(t)
    BY HeadTailProperties
  <1>2. Append(s, Head(t)) = s \o <<Head(t)>> /\ <<Head(t)>> \in Seq(S)
    BY <1>1, AppendIsConcat
  <1> QED BY <1>1, <1>2, ConcatAssociative

\* Appending to the end of the second is appending to the whole.
LEMMA AddsLast ==
    ASSUME NEW S, NEW s \in Seq(S), NEW t \in Seq(S), NEW e \in S
    PROVE  s \o Append(t, e) = Append(s \o t, e)
  <1>1. Append(t, e) = t \o <<e>> /\ <<e>> \in Seq(S) /\ s \o t \in Seq(S)
    BY AppendIsConcat, ConcatProperties
  <1>2. Append(s \o t, e) = (s \o t) \o <<e>>
    BY <1>1, AppendIsConcat
  <1> QED BY <1>1, <1>2, ConcatAssociative

\* A sequence with one more holds one more.
LEMMA AddsOne ==
    ASSUME NEW S, NEW s \in Seq(S), NEW e \in S, NEW f
    PROVE  (\E i \in 1 .. Len(Append(s, e)) : Append(s, e)[i] = f) <=> f = e \/ \E i \in 1 .. Len(s) : s[i] = f
  <1> DEFINE a == Append(s, e)
  <1>1. Len(s) \in Nat /\ Len(a) = Len(s) + 1 /\ a[Len(s) + 1] = e /\ \A i \in 1 .. Len(s) : a[i] = s[i]
    BY AppendProperties, LenProperties
  <1> HIDE DEF a
  <1>2. Len(s) + 1 \in 1 .. Len(a) /\ \A i \in 1 .. Len(a) : i \in 1 .. Len(s) \/ i = Len(s) + 1
    BY <1>1
  <1>3. (\E i \in 1 .. Len(a) : a[i] = f) <=> f = e \/ \E i \in 1 .. Len(s) : s[i] = f
    BY <1>1, <1>2
  <1> QED BY <1>3 DEF a

\* What a client took is a sequence of events.
LEMMA BTakenSeq == ASSUME BTypes, NEW c \in BClient PROVE BTaken(c) \in Seq(BEvents)
  BY ConcatProperties DEF BTypes, BTaken

\* A step that offers nothing and serves nobody.
LEMMA BSame ==
    ASSUME BInv, \A c \in BClient : BTaken(c)' = BTaken(c), UNCHANGED <<x5, x6, x7>>
    PROVE  BInTurn' /\ BKept'
  <1>1. ASSUME NEW c \in BClient, NEW e PROVE BOffered(c, e)' <=> BOffered(c, e)
    BY DEF BOffered
  <1>2. BInTurn'
    BY <1>1 DEF BInv, BInTurn, BServed
  <1>3. BKept'
    BY <1>1 DEF BInv, BKept, BOrdered
  <1> QED BY <1>2, <1>3

\* Writing an event to the client offers it to nobody else.
LEMMA BWrites == ASSUME BInv, NEW c \in BClient, B!Write(c) PROVE BInv'
  <1>1. UNCHANGED <<x1, x4, x5, x6, x7>> /\ x2[c] # <<>>
    BY DEF B!Write
  <1>2. /\ x3' = [x3 EXCEPT ![c] = Append(x3[c], Head(x2[c]))]
        /\ x2' = [x2 EXCEPT ![c] = Tail(x2[c])]
    BY DEF B!Write
  <1>3. /\ Head(x2[c]) \in BEvents /\ Tail(x2[c]) \in Seq(BEvents) /\ Len(Tail(x2[c])) = Len(x2[c]) - 1
        /\ Len(x2[c]) \in Nat /\ x3[c] \in Seq(BEvents) /\ x2[c] \in Seq(BEvents)
    BY <1>1, HeadTailProperties, LenProperties DEF BInv, BTypes
  <1>4. Append(x3[c], Head(x2[c])) \in Seq(BEvents)
    BY <1>3, AppendProperties
  <1>5. BTypes'
    BY <1>1, <1>2, <1>3, <1>4, BBounds DEF BInv, BTypes
  <1>6. ASSUME NEW d \in BClient PROVE BTaken(d)' = BTaken(d)
    <2>1. CASE d = c
      BY <1>1, <1>2, <1>3, <2>1, MovesHead DEF BTaken, BInv, BTypes
    <2>2. CASE d # c
      BY <1>2, <2>2 DEF BTaken, BInv, BTypes
    <2> QED BY <2>1, <2>2
  <1>7. BListed'
    BY <1>1 DEF BInv, BListed, BOnce
  <1> QED BY <1>1, <1>5, <1>6, <1>7, BSame DEF BInv

\* A client that connects was in no list.
LEMMA BConnects == ASSUME BInv, NEW c \in BClient, B!Connect(c) PROVE BInv'
  <1>1. UNCHANGED <<x2, x3, x5, x6, x7>> /\ x1' = Append(x1, c) /\ x4' = [x4 EXCEPT ![c] = "on"] /\ x4[c] = "new"
    BY DEF B!Connect
  <1>2. /\ Append(x1, c) \in Seq(BClient) /\ Len(Append(x1, c)) = Len(x1) + 1 /\ Len(x1) \in Nat
        /\ \A i \in 1 .. Len(x1) : Append(x1, c)[i] = x1[i]
        /\ Append(x1, c)[Len(x1) + 1] = c
    BY AppendProperties, LenProperties DEF BInv, BTypes
  <1>3. BTypes'
    BY <1>1, <1>2 DEF BInv, BTypes
  <1>4. BListed'
    <2>1. BOnce(x1')
      BY <1>1, <1>2 DEF BInv, BListed, BOnce
    <2>2. ASSUME NEW d \in BClient PROVE (x4[d] = "on")' <=> \E i \in 1 .. Len(x1') : x1'[i] = d
      BY <1>1, <1>2 DEF BInv, BTypes, BListed
    <2> QED BY <1>1, <2>1, <2>2 DEF BInv, BListed, BOnce
  <1> QED BY <1>1, <1>3, <1>4, BSame DEF BInv, BTaken

\* A client that leaves is taken out of the list, and nobody else is.
LEMMA BLeaves == ASSUME BInv, NEW c \in BClient, B!Leave(c) PROVE BInv'
  <1>1. UNCHANGED <<x2, x3, x5, x6, x7>> /\ x4' = [x4 EXCEPT ![c] = "gone"]
    BY DEF B!Leave
  <1>2. PICK k \in 1 .. Len(x1) : x1[k] = c /\ x1' = SubSeq(x1, 1, k - 1) \o SubSeq(x1, k + 1, Len(x1))
    BY LenProperties DEF B!Leave, B!RemoveAt, BInv, BTypes
  <1> DEFINE front == SubSeq(x1, 1, k - 1)
             back == SubSeq(x1, k + 1, Len(x1))
  <1>3. Len(x1) \in Nat /\ \A i \in 1 .. Len(x1) : x1[i] \in BClient
    BY ElementOfSeq, LenProperties DEF BInv, BTypes
  <1>4. front \in Seq(BClient) /\ Len(front) = k - 1 /\ \A i \in 1 .. k - 1 : front[i] = x1[i]
    <2>1. 1 \in Int /\ k - 1 \in Int /\ \A i \in 1 .. k - 1 : x1[i] \in BClient
      BY <1>3
    <2> QED BY <1>3, <2>1, SubSeqProperties
  <1>5. back \in Seq(BClient) /\ Len(back) = Len(x1) - k /\ \A i \in 1 .. Len(x1) - k : back[i] = x1[k + i]
    <2>1. k + 1 \in Int /\ Len(x1) \in Int /\ \A i \in k + 1 .. Len(x1) : x1[i] \in BClient
      BY <1>3
    <2> QED BY <1>3, <2>1, SubSeqProperties
  <1> HIDE DEF front, back
  <1>6. /\ x1' \in Seq(BClient) /\ Len(x1') = Len(x1) - 1
        /\ \A i \in 1 .. Len(x1) - 1 : x1'[i] = IF i < k THEN x1[i] ELSE x1[i + 1]
    <2>1. x1' = front \o back
      BY <1>2 DEF front, back
    <2>2. /\ x1' \in Seq(BClient) /\ Len(x1') = (k - 1) + (Len(x1) - k)
          /\ \A i \in 1 .. (k - 1) + (Len(x1) - k) : x1'[i] = IF i <= k - 1 THEN front[i] ELSE back[i - (k - 1)]
      <3>1. /\ front \o back \in Seq(BClient) /\ Len(front \o back) = Len(front) + Len(back)
            /\ \A i \in 1 .. Len(front) + Len(back) :
                  (front \o back)[i] = IF i <= Len(front) THEN front[i] ELSE back[i - Len(front)]
        BY <1>4, <1>5, ConcatProperties, Zenon
      <3> QED BY <1>4, <1>5, <2>1, <3>1
    <2>3. ASSUME NEW i \in 1 .. Len(x1) - 1 PROVE x1'[i] = IF i < k THEN x1[i] ELSE x1[i + 1]
      <3>1. CASE i < k
        <4>1. i \in 1 .. k - 1 /\ i \in 1 .. (k - 1) + (Len(x1) - k) /\ i <= k - 1
          BY <1>3, <3>1
        <4>2. x1'[i] = front[i]
          BY <2>2, <4>1
        <4> QED BY <1>4, <3>1, <4>1, <4>2
      <3>2. CASE i >= k
        <4>1. i - (k - 1) \in 1 .. Len(x1) - k /\ k + (i - (k - 1)) = i + 1
          BY <1>3, <3>2
        <4>2. x1'[i] = back[i - (k - 1)]
          BY <1>3, <2>2, <3>2
        <4> QED BY <1>5, <3>2, <4>1, <4>2
      <3> QED BY <1>3, <3>1, <3>2
    <2> QED BY <1>3, <2>2, <2>3
  <1>7. BTypes'
    BY <1>1, <1>6 DEF BInv, BTypes
  <1>8. BListed'
    <2> DEFINE old(i) == IF i < k THEN i ELSE i + 1
    <2>0. \A i \in 1 .. Len(x1') : old(i) \in 1 .. Len(x1) /\ old(i) # k /\ x1'[i] = x1[old(i)]
      BY <1>3, <1>6
    <2>1. BOnce(x1')
      <3>1. ASSUME NEW i \in 1 .. Len(x1'), NEW j \in 1 .. Len(x1'), x1'[i] = x1'[j] PROVE i = j
        <4>1. old(i) = old(j)
          <5>1. old(i) \in 1 .. Len(x1) /\ old(j) \in 1 .. Len(x1) /\ x1[old(i)] = x1[old(j)]
            BY <2>0, <3>1
          <5>2. BOnce(x1)
            BY DEF BInv, BListed
          <5> HIDE DEF old
          <5> QED BY <5>1, <5>2 DEF BOnce
        <4> QED BY <1>3, <1>6, <4>1
      <3> QED BY <3>1 DEF BOnce
    <2>2. ASSUME NEW d \in BClient PROVE (x4[d] = "on")' <=> \E i \in 1 .. Len(x1') : x1'[i] = d
      <3>1. ASSUME NEW i \in 1 .. Len(x1'), x1'[i] = d PROVE (x4[d] = "on")'
        <4> HIDE DEF old
        <4>1. x1[old(i)] = d /\ old(i) \in 1 .. Len(x1) /\ old(i) # k
          BY <2>0, <3>1
        <4>2. d # c /\ x4[d] = "on"
          BY <1>2, <4>1 DEF BInv, BListed, BOnce
        <4> QED BY <1>1, <4>2 DEF BInv, BTypes
      <3>2. ASSUME (x4[d] = "on")' PROVE \E i \in 1 .. Len(x1') : x1'[i] = d
        <4>1. d # c /\ x4[d] = "on"
          BY <1>1, <3>2 DEF BInv, BTypes
        <4>2. PICK j \in 1 .. Len(x1) : x1[j] = d
          BY <4>1 DEF BInv, BListed
        <4>3. CASE j < k
          <5>1. j \in 1 .. Len(x1') /\ x1'[j] = d
            BY <1>3, <1>6, <4>2, <4>3
          <5> QED BY <5>1
        <4>4. CASE j > k
          <5>1. j - 1 \in 1 .. Len(x1') /\ x1'[j - 1] = d
            BY <1>3, <1>6, <4>2, <4>4
          <5> QED BY <5>1
        <4>5. j # k
          BY <1>2, <4>1, <4>2
        <4> QED BY <1>3, <4>3, <4>4, <4>5
      <3> QED BY <3>1, <3>2
    <2> QED BY <1>1, <2>1, <2>2 DEF BInv, BListed, BOnce
  <1> QED BY <1>1, <1>7, <1>8, BSame DEF BInv, BTaken

\* An event that was not published was offered to nobody.
LEMMA BPublishes == ASSUME BInv, NEW p \in BPublisher, B!Publish(p) PROVE BInv'
  <1> DEFINE t == [event |-> x5[p].event + 1, busy |-> TRUE, clients |-> x1, served |-> 0]
  <1>1. UNCHANGED <<x1, x2, x3, x4, x6, x7>> /\ x5[p].event < ForStream.MaxEvents
    BY DEF B!Publish
  <1>2. x5[p] \in BTurn
    BY DEF BInv, BTypes
  <1>3. x5' = [x5 EXCEPT ![p] = t]
    <2>1. x5' = [x5 EXCEPT ![p] = [event |-> @.event + 1, busy |-> TRUE, clients |-> x1, served |-> 0]]
      BY DEF B!Publish
    <2> QED BY <2>1 DEF BInv, BTypes
  <1>4. t \in BTurn /\ t.event = x5[p].event + 1 /\ t.busy /\ t.clients = x1 /\ t.served = 0
    BY <1>1, <1>2, BBounds DEF BTurn, BInv, BTypes
  <1> HIDE DEF t
  <1>5. x5'[p] = t /\ \A q \in BPublisher \ {p} : x5'[q] = x5[q]
    BY <1>3 DEF BInv, BTypes
  <1>6. BTypes'
    BY <1>1, <1>3, <1>4 DEF BInv, BTypes
  <1>7. BListed'
    <2>0. Len(x1) \in Nat /\ BOnce(x1)
      BY LenProperties DEF BInv, BListed, BTypes
    <2>1. ASSUME NEW q \in BPublisher PROVE BOnce(x5'[q].clients) /\ x5'[q].served <= Len(x5'[q].clients)
      <3>1. CASE q = p
        BY <1>4, <1>5, <2>0, <3>1
      <3>2. CASE q # p
        BY <1>5, <3>2 DEF BInv, BListed
      <3> QED BY <3>1, <3>2
    <2> QED BY <1>1, <2>1 DEF BInv, BListed, BOnce
  <1>8. ASSUME NEW c \in BClient, NEW e PROVE BOffered(c, e)' <=> BOffered(c, e)
    BY <1>1 DEF BOffered, BTaken
  <1>9. BInTurn'
    <2>1. ASSUME NEW c \in BClient, NEW n \in 0 .. ForStream.MaxEvents, BOffered(c, <<p, n>>)
          PROVE  n < t.event
      <3>1. n <= x5[p].event
        BY <2>1 DEF BInv, BInTurn
      <3> QED BY <1>2, <1>4, <3>1, BBounds DEF BTurn
    <2>2. t.event \in 0 .. ForStream.MaxEvents
      BY <1>4 DEF BTurn
    <2>3. ASSUME NEW c \in BClient PROVE ~BServed(p, c)'
      BY <1>4, <1>5 DEF BServed
    <2>4. ASSUME NEW c \in BClient PROVE ~BOffered(c, <<p, t.event>>)
      BY <2>1, <2>2
    <2>5. ASSUME NEW c \in BClient, NEW n \in 0 .. ForStream.MaxEvents, BOffered(c, <<p, n>>)' PROVE n <= x5'[p].event
      BY <1>5, <1>8, <2>1, <2>2, <2>5
    <2>6. ASSUME NEW c \in BClient PROVE BOffered(c, <<p, x5[p].event>>)' <=> BServed(p, c)'
      BY <1>5, <1>8, <2>3, <2>4
    <2> QED BY <1>5, <1>8, <2>5, <2>6 DEF BInv, BInTurn, BServed
  <1>10. BKept'
    <2>1. \A c \in BClient : BTaken(c)' = BTaken(c)
      BY <1>1 DEF BTaken
    <2> QED BY <1>1, <1>8, <2>1 DEF BInv, BKept, BOrdered
  <1> QED BY <1>6, <1>7, <1>9, <1>10 DEF BInv

\* The client whose turn it is was not offered the event before, and is now:
\* its channel has room, or the event is dropped.
LEMMA BOffers == ASSUME BInv, NEW p \in BPublisher, B!Offer(p) PROVE BInv'
  <1> DEFINE t == x5[p]
  <1>1. UNCHANGED <<x1, x3, x4, x6>> /\ t.busy /\ x5' = [x5 EXCEPT ![p].served = x5[p].served + 1]
    BY DEF B!Offer, BInv, BTypes
  <1>2. t \in BTurn /\ t.served <= Len(t.clients) /\ Len(t.clients) \in Nat /\ t.served \in Nat
    BY LenProperties DEF BInv, BTypes, BListed, BTurn
  <1>3. t.served < Len(t.clients)
    <2>1. SubSeq(t.clients, t.served + 1, Len(t.clients)) # <<>>
      BY DEF B!Offer, B!ToServe
    <2> QED BY <1>2, <2>1, SubSeqEmpty
  <1>4. PICK c \in BClient : c = t.clients[t.served + 1]
    BY <1>2, <1>3, ElementOfSeq DEF BTurn
  <1>5. Head(SubSeq(t.clients, t.served + 1, Len(t.clients))) = c
    <2>1. t.clients \in Seq(BClient) /\ t.served + 1 \in 1 .. Len(t.clients) /\ Len(t.clients) \in t.served + 1 .. Len(t.clients)
      BY <1>2, <1>3 DEF BTurn
    <2> QED BY <1>4, <2>1, HeadTailOfSubSeq
  <1>6. PICK e \in BEvents : e = <<p, t.event>>
    BY <1>2 DEF BEvents, BTurn
  <1>7. /\ x2' = [x2 EXCEPT ![c] = IF Len(x2[c]) < ForStream.Buffer THEN Append(x2[c], e) ELSE x2[c]]
        /\ x7' = [x7 EXCEPT ![c] = IF Len(x2[c]) < ForStream.Buffer THEN x7[c] ELSE x7[c] \cup {e}]
    BY <1>5, <1>6 DEF B!Offer, B!Offered, B!Event, B!ToServe
  <1>8. /\ x5'[p] \in BTurn /\ x5'[p].event = t.event /\ x5'[p].busy /\ x5'[p].clients = t.clients
        /\ x5'[p].served = t.served + 1 /\ \A q \in BPublisher \ {p} : x5'[q] = x5[q]
    <2> DEFINE u == [x5[p] EXCEPT !.served = x5[p].served + 1]
    <2>1. u \in BTurn /\ u.event = t.event /\ u.busy = t.busy /\ u.clients = t.clients /\ u.served = t.served + 1
      BY <1>2 DEF BTurn
    <2>2. x5' = [x5 EXCEPT ![p] = u]
      BY <1>1
    <2> HIDE DEF u
    <2> QED BY <1>1, <2>1, <2>2 DEF BInv, BTypes
  <1>9. ~BServed(p, c)
    BY <1>2, <1>3, <1>4 DEF BInv, BListed, BServed, BOnce
  <1>10. ~BOffered(c, e)
    BY <1>1, <1>6, <1>9 DEF BInv, BInTurn
  <1>11. BTaken(c) \in Seq(BEvents) /\ Len(BTaken(c)) \in Nat /\ x2[c] \in Seq(BEvents) /\ x3[c] \in Seq(BEvents) /\ Len(x2[c]) \in Nat
    BY BTakenSeq, LenProperties DEF BInv, BTypes
  <1>12. \A d \in BClient \ {c} : BTaken(d)' = BTaken(d) /\ x7'[d] = x7[d]
    BY <1>1, <1>7 DEF BTaken, BInv, BTypes
  <1>13. \/ BTaken(c)' = Append(BTaken(c), e) /\ x7'[c] = x7[c]
         \/ BTaken(c)' = BTaken(c) /\ x7'[c] = x7[c] \cup {e}
    <2>1. CASE Len(x2[c]) < ForStream.Buffer
      BY <1>1, <1>7, <1>11, <2>1, AddsLast DEF BTaken, BInv, BTypes
    <2>2. CASE ~(Len(x2[c]) < ForStream.Buffer)
      BY <1>1, <1>7, <2>2 DEF BTaken, BInv, BTypes
    <2> QED BY <2>1, <2>2
  <1>14. /\ Append(BTaken(c), e) \in Seq(BEvents) /\ Len(Append(BTaken(c), e)) = Len(BTaken(c)) + 1
         /\ \A i \in 1 .. Len(BTaken(c)) : Append(BTaken(c), e)[i] = BTaken(c)[i]
         /\ Append(BTaken(c), e)[Len(BTaken(c)) + 1] = e
    BY <1>11, AppendProperties
  <1>15. ASSUME NEW f PROVE BOffered(c, f)' <=> BOffered(c, f) \/ f = e
    <2>1. CASE BTaken(c)' = Append(BTaken(c), e) /\ x7'[c] = x7[c]
      <3>1. (\E i \in 1 .. Len(BTaken(c)') : BTaken(c)'[i] = f) <=> f = e \/ \E i \in 1 .. Len(BTaken(c)) : BTaken(c)[i] = f
        BY <1>11, <2>1, AddsOne
      <3> QED BY <2>1, <3>1 DEF BOffered
    <2>2. CASE BTaken(c)' = BTaken(c) /\ x7'[c] = x7[c] \cup {e}
      BY <2>2 DEF BOffered
    <2> QED BY <1>13, <2>1, <2>2
  <1>16. ASSUME NEW d \in BClient, d # c, NEW f PROVE BOffered(d, f)' <=> BOffered(d, f)
    BY <1>12, <1>16 DEF BOffered
  <1>17. BTypes'
    <2>1. x5' \in [BPublisher -> BTurn]
      BY <1>1, <1>8 DEF BInv, BTypes
    <2>2. Append(x2[c], e) \in Seq(BEvents) /\ Len(Append(x2[c], e)) = Len(x2[c]) + 1
      BY <1>11, AppendProperties
    <2> QED BY <1>1, <1>7, <1>11, <2>1, <2>2, BBounds DEF BInv, BTypes
  <1>18. BListed'
    BY <1>1, <1>2, <1>3, <1>8 DEF BInv, BListed, BOnce
  <1>19. BInTurn'
    <2>1. ASSUME NEW d \in BClient PROVE BServed(p, d)' <=> BServed(p, d) \/ d = c
      BY <1>2, <1>3, <1>4, <1>8 DEF BServed
    <2>2. ASSUME NEW q \in BPublisher, NEW d \in BClient, NEW n \in 0 .. ForStream.MaxEvents, BOffered(d, <<q, n>>)'
          PROVE  n <= x5'[q].event
      <3>1. CASE BOffered(d, <<q, n>>)
        BY <1>8, <3>1 DEF BInv, BInTurn
      <3>2. CASE ~BOffered(d, <<q, n>>)
        <4>1. <<q, n>> = e
          BY <1>15, <1>16, <2>2, <3>2
        <4> QED BY <1>2, <1>6, <1>8, <4>1, BBounds DEF BTurn
      <3> QED BY <3>1, <3>2
    <2>3. ASSUME NEW d \in BClient PROVE BOffered(d, e)' <=> BServed(p, d)'
      BY <1>1, <1>6, <1>15, <1>16, <2>1 DEF BInv, BInTurn
    <2>4. ASSUME NEW q \in BPublisher, q # p, NEW d \in BClient, x5[q].busy
          PROVE  BOffered(d, <<q, x5[q].event>>)' <=> BServed(q, d)'
      <3>1. PICK f : f = <<q, x5[q].event>>
        OBVIOUS
      <3>2. f # e /\ f = <<q, x5'[q].event>>
        BY <1>6, <1>8, <2>4, <3>1
      <3>3. BOffered(d, f)' <=> BOffered(d, f)
        BY <1>15, <1>16, <3>2
      <3>4. BOffered(d, f) <=> BServed(q, d)
        BY <2>4, <3>1 DEF BInv, BInTurn
      <3>5. BServed(q, d)' <=> BServed(q, d)
        BY <1>8, <2>4 DEF BServed
      <3> QED BY <3>2, <3>3, <3>4, <3>5
    <2> QED BY <1>6, <1>8, <2>2, <2>3, <2>4 DEF BInTurn
  <1>20. BKept'
    <2>1. ASSUME NEW d \in BClient, d # c
          PROVE  /\ \A f \in x6'[d] : BOffered(d, f)'
                 /\ \A i \in 1 .. Len(BTaken(d)') : BTaken(d)'[i] \notin x7'[d]
                 /\ BOrdered(d)'
      BY <1>1, <1>12, <1>16, <2>1 DEF BInv, BKept, BOrdered
    <2>2. \A f \in x6'[c] : BOffered(c, f)'
      BY <1>1, <1>15 DEF BInv, BKept
    <2>3. \A i \in 1 .. Len(BTaken(c)') : BTaken(c)'[i] \notin x7'[c]
      <3>1. e \notin x7[c] /\ \A i \in 1 .. Len(BTaken(c)) : BTaken(c)[i] # e /\ BTaken(c)[i] \notin x7[c]
        BY <1>10 DEF BInv, BKept, BOffered
      <3>2. CASE BTaken(c)' = Append(BTaken(c), e) /\ x7'[c] = x7[c]
        <4>1. \A i \in 1 .. Len(BTaken(c)) + 1 : BTaken(c)'[i] = e \/ \E j \in 1 .. Len(BTaken(c)) : BTaken(c)'[i] = BTaken(c)[j]
          BY <1>11, <1>14, <3>2
        <4> QED BY <1>14, <3>1, <3>2, <4>1
      <3>3. CASE BTaken(c)' = BTaken(c) /\ x7'[c] = x7[c] \cup {e}
        BY <3>1, <3>3
      <3> QED BY <1>13, <3>2, <3>3
    <2>4. BOrdered(c)'
      <3>1. ASSUME NEW i \in 1 .. Len(BTaken(c)), BTaken(c)[i][1] = e[1] PROVE BTaken(c)[i][2] < e[2]
        <4>1. BTaken(c)[i] \in BEvents
          BY <1>11, ElementOfSeq
        <4>2. PICK n \in 0 .. ForStream.MaxEvents : BTaken(c)[i] = <<p, n>>
          BY <1>6, <3>1, <4>1 DEF BEvents
        <4>3. n <= t.event
          BY <4>2 DEF BInv, BInTurn, BOffered
        <4>4. n # t.event
          BY <1>6, <1>10, <4>2 DEF BOffered
        <4> QED BY <1>2, <1>6, <4>2, <4>3, <4>4, BBounds DEF BTurn
      <3>2. CASE BTaken(c)' = BTaken(c)
        BY <3>2 DEF BInv, BKept, BOrdered
      <3>3. CASE BTaken(c)' = Append(BTaken(c), e)
        <4> DEFINE L == Len(BTaken(c))
        <4>1. \A i, j \in 1 .. L : i < j /\ BTaken(c)[i][1] = BTaken(c)[j][1] => BTaken(c)[i][2] < BTaken(c)[j][2]
          BY DEF BInv, BKept, BOrdered
        <4>2. ASSUME NEW i \in 1 .. L + 1, NEW j \in 1 .. L + 1, i < j
              PROVE  i \in 1 .. L /\ BTaken(c)'[i] = BTaken(c)[i] /\ ((j \in 1 .. L /\ BTaken(c)'[j] = BTaken(c)[j]) \/ BTaken(c)'[j] = e)
          BY <1>11, <1>14, <3>3, <4>2
        <4>3. Len(BTaken(c)') = L + 1
          BY <1>14, <3>3
        <4> HIDE DEF L
        <4> QED BY <3>1, <4>1, <4>2, <4>3 DEF BOrdered, L
      <3> QED BY <1>13, <3>2, <3>3
    <2> QED BY <2>1, <2>2, <2>3, <2>4 DEF BKept
  <1> QED BY <1>17, <1>18, <1>19, <1>20 DEF BInv

\* When the turn ends, every client copied at its start was offered the event.
LEMMA BEnds == ASSUME BInv, NEW p \in BPublisher, B!Published(p) PROVE BInv'
  <1> DEFINE t == x5[p]
             u == [x5[p] EXCEPT !.busy = FALSE, !.clients = <<>>, !.served = 0]
  <1>1. UNCHANGED <<x1, x2, x3, x4, x7>> /\ t.busy
    BY DEF B!Published
  <1>2. t \in BTurn /\ t.served <= Len(t.clients) /\ Len(t.clients) \in Nat /\ t.served \in Nat
    BY LenProperties DEF BInv, BTypes, BListed, BTurn
  <1>3. t.served = Len(t.clients)
    <2>1. SubSeq(t.clients, t.served + 1, Len(t.clients)) = <<>>
      BY DEF B!Published, B!ToServe
    <2>2. \A i \in t.served + 1 .. Len(t.clients) : t.clients[i] \in BClient
      BY <1>2, ElementOfSeq DEF BTurn
    <2>3. Len(SubSeq(t.clients, t.served + 1, Len(t.clients))) =
             IF t.served + 1 <= Len(t.clients) THEN Len(t.clients) - (t.served + 1) + 1 ELSE 0
      BY <1>2, <2>2, SubSeqProperties
    <2>4. Len(SubSeq(t.clients, t.served + 1, Len(t.clients))) = 0
      <3>1. Len(<<>>) = 0
        OBVIOUS
      <3> QED BY <2>1, <3>1, Zenon
    <2> HIDE DEF t
    <2> QED BY <1>2, <2>3, <2>4
  <1>4. x5' = [x5 EXCEPT ![p] = u]
    BY DEF B!Published, BInv, BTypes
  <1>5. u \in BTurn /\ u.event = t.event /\ ~u.busy /\ u.clients = <<>> /\ u.served = 0
    BY <1>2, EmptySeq DEF BTurn
  <1> HIDE DEF u
  <1>6. x5'[p] = u /\ \A q \in BPublisher \ {p} : x5'[q] = x5[q]
    BY <1>4 DEF BInv, BTypes
  <1>7. PICK e \in BEvents : e = <<p, t.event>>
    BY <1>2 DEF BEvents, BTurn
  <1>8. ASSUME NEW c \in BClient
        PROVE  x6'[c] = x6[c] \/ (x6'[c] = x6[c] \cup {e} /\ BOffered(c, e))
    <2>1. x6'[c] = IF x4[c] = "on" /\ c \in B!Range(t.clients) THEN x6[c] \cup {e} ELSE x6[c]
      BY <1>7 DEF B!Published, B!Event, BClient
    <2>2. ASSUME c \in B!Range(t.clients) PROVE BOffered(c, e)
      <3>1. PICK i \in 1 .. Len(t.clients) : t.clients[i] = c
        BY <1>2, <2>2, LenProperties DEF B!Range, BTurn
      <3>2. BServed(p, c)
        BY <1>3, <3>1 DEF BServed
      <3> QED BY <1>1, <1>7, <3>2 DEF BInv, BInTurn
    <2> QED BY <2>1, <2>2
  <1>9. BTypes'
    <2>1. x6' \in [BClient -> SUBSET BEvents]
      <3>1. x6' = [c \in BClient |-> x6'[c]]
        BY DEF B!Published, BClient
      <3>2. \A c \in BClient : x6'[c] \in SUBSET BEvents
        BY <1>8 DEF BInv, BTypes
      <3> QED BY <3>1, <3>2
    <2> QED BY <1>1, <1>4, <1>5, <2>1 DEF BInv, BTypes
  <1>10. BListed'
    <2>1. ASSUME NEW q \in BPublisher PROVE BOnce(x5'[q].clients) /\ x5'[q].served <= Len(x5'[q].clients)
      <3>1. CASE q = p
        BY <1>5, <1>6, <3>1, EmptySeq DEF BOnce
      <3>2. CASE q # p
        BY <1>6, <3>2 DEF BInv, BListed
      <3> QED BY <3>1, <3>2
    <2> QED BY <1>1, <2>1 DEF BInv, BListed, BOnce
  <1>11. \A c \in BClient : BTaken(c)' = BTaken(c)
    BY <1>1 DEF BTaken
  <1>12. ASSUME NEW c \in BClient, NEW f PROVE BOffered(c, f)' <=> BOffered(c, f)
    BY <1>1, <1>11 DEF BOffered
  <1>13. BInTurn'
    BY <1>5, <1>6, <1>12 DEF BInv, BInTurn, BServed
  <1>14. BKept'
    BY <1>1, <1>8, <1>11, <1>12 DEF BInv, BKept, BOrdered
  <1> QED BY <1>9, <1>10, <1>13, <1>14 DEF BInv

\* Every step of a stream scene keeps the invariant.
LEMMA BStep == ASSUME BInv, [Next]_services, At("stream") PROVE BInv'
  <1>1. CASE B!Next
    BY <1>1, BPublishes, BOffers, BEnds, BConnects, BWrites, BLeaves DEF B!Next, B!Serve, BPublisher, BClient
  <1>2. CASE UNCHANGED services
    <2>1. BTypes' /\ BListed'
      BY <1>2 DEF services, BInv, BTypes, BListed
    <2> QED BY <1>2, <2>1, BSame DEF services, BTaken, BInv
  <1> QED BY <1>1, <1>2 DEF Next, At

\* The invariant says what the property promises.
LEMMA BProperty == ASSUME BInv PROVE B!TypeOK /\ B!NoneMissed
  <1>1. \A c \in BClient : BTaken(c) \in Seq(BEvents) /\ DOMAIN BTaken(c) = 1 .. Len(BTaken(c))
    BY BTakenSeq, LenProperties DEF BInv
  <1>2. ASSUME NEW c \in BClient
        PROVE  /\ x6[c] \subseteq B!Range(BTaken(c)) \cup x7[c]
               /\ x7[c] \cap B!Range(BTaken(c)) = {}
               /\ \A i, j \in DOMAIN BTaken(c) :
                     i < j /\ BTaken(c)[i][1] = BTaken(c)[j][1] => BTaken(c)[i][2] < BTaken(c)[j][2]
    BY <1>1 DEF BInv, BKept, BOffered, BOrdered, B!Range
  <1>3. B!NoneMissed
    BY <1>2 DEF B!NoneMissed, B!Taken, BTaken, BClient
  <1>4. B!Range(x1) = {c \in BClient : x4[c] = "on"}
    <2>1. DOMAIN x1 = 1 .. Len(x1) /\ \A i \in 1 .. Len(x1) : x1[i] \in BClient
      BY LenProperties, ElementOfSeq DEF BInv, BTypes
    <2> QED BY <2>1 DEF BInv, BListed, B!Range
  <1>5. B!TypeOK
    BY <1>4 DEF BInv, BTypes, BTurn, B!TypeOK, BClient, BPublisher
  <1> QED BY <1>3, <1>5

\* An event published while a client is there reaches its channel or is counted
\* as dropped, once, and in the order of its publisher (bus.go:28-44,
\* server.go:86-109).
THEOREM EventsReachClients == Spec => []NoneMissed
  <1> DEFINE Inv == At("stream") => BInv
  <1>1. Init => Inv
    BY BInit
  <1>2. Inv /\ [Next]_services => Inv'
    BY BStep, SceneStays DEF At
  <1>3. Inv => NoneMissed
    BY BProperty DEF NoneMissed
  <1> QED BY <1>1, <1>2, <1>3, PTL DEF Spec

-----------------------------------------------------------------------------
(* The database files.                                                     *)

DProc == ForFiles.Proc
DObject == ForFiles.Object
DRow == 0 .. ForFiles.MaxWrites

DFile == [kind : {"none", "plain", "cipher"}, layout : {"none", "empty", "legacy", "bare", "kgless", "current"}, rows : DRow]
DStepNames == {"closed", "migrate", "backup", "split", "open", "wait", "columns", "rescan", "cache", "drop", "create", "run"}
DLocal == [step : DStepNames, key : BOOLEAN, before : DRow, lost : BOOLEAN, todo : SUBSET DObject]
DContents == [objects : [DObject -> {"none", "old", "new"}], current : BOOLEAN]

DTypes ==
    /\ x1 \in BOOLEAN /\ x2 \in DFile /\ x3 \in DRow /\ x4 \in {"none", "built", "unbuilt", "restarted"}
    /\ x6 \in DContents /\ x7 \in [DProc -> DLocal]
    /\ x8 \in [step : {"idle", "copy", "swap", "sweep"}, rows : DRow]
    /\ x9 \in DRow /\ x10 \in BOOLEAN /\ x11 \in 0 .. ForFiles.MaxDeaths

DLocked == x8.step \in {"copy", "swap"}
DPast(r) == r.step \in {"rescan", "cache", "drop", "create", "run"}
DOpened(r) == r.step = "columns" \/ DPast(r)
DIsOpen(r) == r.step \in {"backup", "split"} \/ DOpened(r)

\* The rows: none is lost unless a process intruded.
DRows ==
    /\ x2.kind = "none" <=> x2.layout = "none"
    /\ x2.kind = "none" => x2.rows = 0 /\ x3 = 0
    /\ x2.kind = "plain" /\ x2.layout = "legacy" => x3 = 0
    /\ x2.layout = "bare" => x3 = 0 /\ x2.rows \in x5
    /\ x2.rows + x3 <= x9 /\ (~x10 => x2.rows + x3 = x9)
DEnc ==
    /\ DLocked => x2.kind = "plain" /\ x3 = 0
    /\ x8.step = "swap" => x8.rows = x2.rows
    /\ x8.step = "sweep" => x2.kind = "cipher" /\ (~x10 => x3 = 0)

\* What a process at its step may rely on.
DFits(r) ==
    /\ r.lost => x2.kind = "cipher" /\ x10
    /\ r.step = "split" => r.before \in x5
    /\ x2.kind = "none" => r.step \in {"closed", "migrate", "open"}
    /\ x2.kind = "plain" /\ x2.layout = "legacy" => r.step \in {"closed", "migrate", "backup", "split"}
    /\ x2.layout \in {"empty", "bare", "kgless"} /\ DPast(r) => r.lost
    /\ r.step = "wait" => ~r.key /\ x10
    /\ DOpened(r) /\ ~r.lost => (r.key <=> x2.kind = "cipher")
    /\ DIsOpen(r) => ~DLocked /\ (x8.step = "sweep" => x10)
DWorks == \A p \in DProc : DFits(x7[p])

DIndex == x4 = "unbuilt" => x2.layout = "kgless" \/ x10 \/ x11 > 0 \/ \E q \in DProc : x7[q].step = "rescan"

\* Nothing old is left once the cache is created, and what is missing then is
\* being dropped by another process.
DCreated(p) == p \in ForFiles.Server /\ x7[p].step \in {"create", "run"}
DMissing(o) == x11 > 0 \/ \E q \in ForFiles.Server : x7[q].step = "drop" /\ o \notin x7[q].todo
DCache ==
    /\ \A o \in DObject : x6.current => x6.objects[o] # "old"
    /\ \A p \in DProc, o \in DObject : x7[p].step = "drop" /\ o \notin x7[p].todo => x6.objects[o] # "old"
    /\ \A p \in DProc : x7[p].step \in {"cache", "drop", "create"} => p \in ForFiles.Server
    /\ \A p \in ForFiles.Server : x7[p].step = "run" => x6.current
    /\ \A p \in ForFiles.Server, o \in DObject : DCreated(p) => x6.objects[o] = "new" \/ (x6.objects[o] = "none" /\ DMissing(o))

DInv == DTypes /\ DRows /\ DEnc /\ DWorks /\ DIndex /\ DCache

\* The bounds count, and servers are processes.
LEMMA DBounds == ForFiles.MaxWrites \in Nat \ {0} /\ ForFiles.MaxDeaths \in Nat /\ ForFiles.Server \subseteq DProc
  BY ServiceAssumption DEF D!ParamAssumption, DProc

\* The start: an old file, a new one or none, and nobody has it open.
LEMMA DInit == ASSUME At("files"), Init PROVE DInv
  <1>1. D!Init
    BY DEF Init, At
  <1>2. /\ x3 = 0 /\ x5 = {} /\ x11 = 0 /\ x9 = x2.rows /\ x1 \in BOOLEAN /\ x7 = [p \in DProc |-> D!Closed] /\ x8 = D!Idle
    BY <1>1, Zenon DEF D!Init, DProc
  <1>3. x10 = FALSE
    BY <1>1, Zenon DEF D!Init
  <1>4. x2 \in DFile /\ x2.layout # "bare" /\ (x2.kind = "none" <=> x2.layout = "none") /\ (x2.kind = "none" => x2.rows = 0)
    BY <1>1, DBounds DEF D!Init, DFile, DRow
  <1>5. x4 \in {"none", "built", "unbuilt"} /\ (x4 = "unbuilt" => x2.layout = "kgless")
    BY <1>1, Zenon DEF D!Init
  <1>6. x6 \in DContents /\ (x6.current => \A o \in DObject : x6.objects[o] # "old")
    <2>1. PICK age \in {"none", "old", "new"} : x6 = [objects |-> [o \in DObject |-> age], current |-> age = "new"]
      BY <1>1 DEF D!Init, D!CacheOf, DObject
    <2> QED BY <2>1 DEF DContents
  <1>7. DTypes
    <2>1. D!Closed \in DLocal /\ D!Idle \in [step : {"idle", "copy", "swap", "sweep"}, rows : DRow] /\ 0 \in DRow
      BY DBounds DEF D!Closed, DLocal, DStepNames, D!Idle, DRow
    <2>2. x7 \in [DProc -> DLocal] /\ x8 \in [step : {"idle", "copy", "swap", "sweep"}, rows : DRow]
      BY <1>2, <2>1
    <2>3. x9 \in DRow /\ x3 \in DRow /\ x11 \in 0 .. ForFiles.MaxDeaths
      BY <1>2, <1>4, <2>1, DBounds DEF DFile
    <2>4. x10 \in BOOLEAN
      BY <1>3
    <2> QED BY <1>2, <1>4, <1>5, <1>6, <2>2, <2>3, <2>4 DEF DTypes
  <1>8. \A p \in DProc : x7[p].step = "closed" /\ ~x7[p].lost
    BY <1>2 DEF D!Closed
  <1>9. DRows
    BY <1>2, <1>4 DEF DRows, DFile, DRow
  <1>10. DEnc
    BY <1>2 DEF DEnc, DLocked, D!Idle
  <1>11. DWorks
    BY <1>8 DEF DWorks, DFits, DPast, DOpened, DIsOpen
  <1>12. DIndex /\ DCache
    BY <1>5, <1>6, <1>8, DBounds DEF DIndex, DCache, DCreated
  <1> QED BY <1>7, <1>9, <1>10, <1>11, <1>12 DEF DInv

-----------------------------------------------------------------------------
(* What one process's step leaves to the others.                           *)

\* What a process may rely on stays so while the file keeps its form.
LEMMA DFitsKept ==
    ASSUME NEW l, DFits(l), x2'.kind = x2.kind, x2'.layout = x2.layout, x5 \subseteq x5', x8' = x8, x10 => x10'
    PROVE  DFits(l)'
  BY DEF DFits, DLocked

\* So it does for all the others.
LEMMA DOthers ==
    ASSUME DInv, NEW p \in DProc, NEW r \in DLocal, x7' = [x7 EXCEPT ![p] = r], DFits(r)',
           x2'.kind = x2.kind, x2'.layout = x2.layout, x5 \subseteq x5', x8' = x8, x10 => x10'
    PROVE  DWorks'
  <1>1. \A q \in DProc : x7'[q] = IF q = p THEN r ELSE x7[q]
    BY DEF DInv, DTypes
  <1>2. ASSUME NEW q \in DProc PROVE DFits(x7[q])'
    <2>1. PICK l : l = x7'[q]
      OBVIOUS
    <2>2. CASE q = p
      BY <1>1, <2>1, <2>2
    <2>3. CASE q # p
      <3>1. DFits(l)
        BY <1>1, <2>1, <2>3 DEF DInv, DWorks
      <3>2. DFits(l)'
        BY <3>1, DFitsKept
      <3> QED BY <2>1, <3>2 DEF DFits, DLocked, DPast, DOpened, DIsOpen
    <2>4. q = p => DFits(x7[q])'
      BY <1>1, <2>1 DEF DFits, DLocked, DPast, DOpened, DIsOpen
    <2> QED BY <2>3, <2>4
  <1> QED BY <1>2 DEF DWorks

\* A step that leaves the cache's objects alone keeps what is known of them.
LEMMA DCacheKept ==
    ASSUME DInv, NEW p \in DProc, NEW r \in DLocal, x7' = [x7 EXCEPT ![p] = r], x6' = x6, x11' \in Nat, x11' >= x11,
           r.step \in {"cache", "drop"} => p \in ForFiles.Server,
           x7[p].step # "drop" \/ x11' > 0,
           r.step = "drop" => \A o \in DObject \ r.todo : x6.objects[o] # "old",
           r.step # "create", r.step = "run" => p \notin ForFiles.Server
    PROVE  DCache'
  <1>1. x7'[p] = r /\ \A q \in DProc \ {p} : x7'[q] = x7[q]
    BY DEF DInv, DTypes
  <1>2. ASSUME NEW o \in DObject, DMissing(o) PROVE DMissing(o)'
    BY <1>1, <1>2, DBounds DEF DMissing, DInv, DTypes
  <1>3. \A q \in DProc : DCreated(q)' => DCreated(q)
    BY <1>1 DEF DCreated
  <1>4. \A q \in DProc, o \in DObject : x7'[q].step = "drop" /\ o \notin x7'[q].todo => x6'.objects[o] # "old"
    BY <1>1 DEF DInv, DCache
  <1>5. /\ \A q \in DProc : x7'[q].step \in {"cache", "drop", "create"} => q \in ForFiles.Server
        /\ \A q \in ForFiles.Server : x7'[q].step = "run" => x6'.current
    BY <1>1, DBounds DEF DInv, DCache
  <1>6. \A q \in ForFiles.Server, o \in DObject :
           DCreated(q)' => x6'.objects[o] = "new" \/ (x6'.objects[o] = "none" /\ DMissing(o)')
    BY <1>2, <1>3, DBounds DEF DInv, DCache
  <1> QED BY <1>4, <1>5, <1>6 DEF DInv, DCache

\* A step that leaves the index alone keeps what is known of it.
LEMMA DIndexKept ==
    ASSUME DInv, NEW p \in DProc, NEW r \in DLocal, x7' = [x7 EXCEPT ![p] = r], x4' = x4, x10 => x10', x11' \in Nat, x11' >= x11,
           x2'.layout = x2.layout \/ x2.layout # "kgless", x7[p].step # "rescan" \/ x11' > 0 \/ x10'
    PROVE  DIndex'
  <1>1. x7'[p] = r /\ \A q \in DProc \ {p} : x7'[q] = x7[q]
    BY DEF DInv, DTypes
  <1>2. x11 \in Nat
    BY DBounds DEF DInv, DTypes
  <1> QED BY <1>1, <1>2 DEF DInv, DIndex

\* A process that goes on and leaves the rows alone.
LEMMA DReads ==
    ASSUME DInv, NEW p \in DProc, NEW r \in DLocal, x7' = [x7 EXCEPT ![p] = r], UNCHANGED <<x1, x2, x3, x4, x6, x8, x9>>,
           x5 \subseteq x5', x10' \in BOOLEAN, x10 => x10', x11' \in 0 .. ForFiles.MaxDeaths, x11' >= x11, DFits(r)',
           r.step \in {"cache", "drop"} => p \in ForFiles.Server,
           x7[p].step # "drop" \/ x11' > 0, x7[p].step # "rescan" \/ x11' > 0 \/ x10',
           r.step = "drop" => \A o \in DObject \ r.todo : x6.objects[o] # "old",
           r.step # "create", r.step = "run" => p \notin ForFiles.Server
    PROVE  DInv'
  <1>1. x11' \in Nat
    BY DBounds
  <1>2. DTypes'
    BY DEF DInv, DTypes
  <1>3. DRows' /\ DEnc'
    BY DEF DInv, DRows, DEnc, DLocked
  <1>4. DWorks'
    BY DOthers
  <1>5. x4' = x4 /\ x6' = x6 /\ x2'.layout = x2.layout
    OBVIOUS
  <1>6. DIndex'
    BY <1>1, <1>5, DIndexKept
  <1>7. DCache'
    BY <1>1, <1>5, DCacheKept
  <1> QED BY <1>2, <1>3, <1>4, <1>6, <1>7 DEF DInv

\* A process that has nothing open.
LEMMA DClosed == /\ D!Closed \in DLocal /\ D!Closed.step = "closed" /\ ~D!Closed.lost
                 /\ \A k \in BOOLEAN : LET r == [D!Closed EXCEPT !.step = "migrate", !.key = k] IN r \in DLocal /\ r.step = "migrate" /\ ~r.lost
  <1>1. 0 \in DRow
    BY DBounds DEF DRow
  <1>2. D!Closed \in DLocal
    BY <1>1 DEF DLocal, D!Closed, DStepNames
  <1>3. D!Closed.step = "closed" /\ D!Closed.lost = FALSE
    BY DEF D!Closed
  <1>4. ASSUME NEW k \in BOOLEAN, NEW r, r = [D!Closed EXCEPT !.step = "migrate", !.key = k] PROVE r \in DLocal /\ r.step = "migrate" /\ ~r.lost
    BY <1>2, <1>3, <1>4 DEF DLocal, DStepNames
  <1> QED BY <1>2, <1>3, <1>4

-----------------------------------------------------------------------------
(* Opening.                                                                *)

\* The configuration is read.
LEMMA DStart == ASSUME DInv, NEW p \in DProc, D!Start(p) PROVE DInv'
  <1>1. PICK r : r = [D!Closed EXCEPT !.step = "migrate", !.key = x1]
    OBVIOUS
  <1>2. r \in DLocal /\ r.step = "migrate" /\ ~r.lost
    BY <1>1, DClosed DEF DInv, DTypes
  <1>3. DFits(r)'
    BY <1>2 DEF DFits, DOpened, DIsOpen, DPast
  <1>4. /\ x7[p].step = "closed" /\ x7' = [x7 EXCEPT ![p] = r]
        /\ UNCHANGED <<x1, x2, x3, x4, x6, x8, x9>> /\ x5' = x5 /\ x10' = x10 /\ x11' = x11
    BY <1>1 DEF D!Start
  <1>5. x10 \in BOOLEAN /\ x11 \in 0 .. ForFiles.MaxDeaths /\ x11 >= x11
    BY DBounds DEF DInv, DTypes
  <1> QED BY <1>2, <1>3, <1>4, <1>5, DReads

\* Only an old plaintext file is backed up and split.
LEMMA DDetect == ASSUME DInv, NEW p \in DProc, D!Detect(p) PROVE DInv'
  <1> DEFINE to == IF x2.kind # "plain" THEN "open" ELSE IF D!Locked THEN "closed" ELSE IF x2.layout = "legacy" THEN "backup" ELSE "open"
  <1>1. PICK r : r = [x7[p] EXCEPT !.step = to]
    OBVIOUS
  <1>2. r \in DLocal /\ r.step = to /\ r.lost = x7[p].lost
    BY <1>1 DEF DInv, DTypes, DLocal, DStepNames
  <1>3. DFits(x7[p]) /\ DEnc
    BY DEF DInv, DWorks
  <1>4. /\ x7[p].step = "migrate" /\ x7' = [x7 EXCEPT ![p] = r]
        /\ UNCHANGED <<x1, x2, x3, x4, x6, x8, x9>> /\ x2' = x2 /\ x8' = x8 /\ x5' = x5 /\ x10' = x10 /\ x11' = x11
    BY <1>1 DEF D!Detect, D!Goto
  <1>5. DFits(r)'
    BY <1>2, <1>3, <1>4 DEF DFits, DOpened, DIsOpen, DPast, DEnc, DLocked, D!Locked
  <1>6. x10 \in BOOLEAN /\ x11 \in 0 .. ForFiles.MaxDeaths /\ x11 >= x11 /\ r.step \notin {"cache", "drop", "create", "run"}
    BY <1>2, DBounds DEF DInv, DTypes
  <1> QED BY <1>2, <1>4, <1>5, <1>6, DReads

\* Whoever waited for the lock may find the file replaced.
LEMMA DWait == ASSUME DInv, NEW p \in DProc, NEW late \in BOOLEAN, D!Wait(p, late) PROVE DInv'
  <1>1. PICK r : r = [x7[p] EXCEPT !.step = IF late THEN "closed" ELSE "columns", !.lost = ~late /\ x2.kind = "cipher"]
    OBVIOUS
  <1>2. /\ r \in DLocal /\ r.step = IF late THEN "closed" ELSE "columns"
        /\ r.lost = (~late /\ x2.kind = "cipher") /\ r.key = x7[p].key
    BY <1>1 DEF DInv, DTypes, DLocal, DStepNames
  <1>3. DFits(x7[p]) /\ DEnc
    BY DEF DInv, DWorks
  <1>4. /\ x7[p].step = "wait" /\ (late \/ ~D!Locked) /\ x7' = [x7 EXCEPT ![p] = r]
        /\ UNCHANGED <<x1, x2, x3, x4, x6, x8, x9>> /\ x2' = x2 /\ x8' = x8 /\ x5' = x5 /\ x10' = x10 /\ x11' = x11
    BY <1>1 DEF D!Wait
  <1>5. DFits(r)'
    BY <1>2, <1>3, <1>4 DEF DFits, DOpened, DIsOpen, DPast, DEnc, DLocked, D!Locked
  <1>6. x10 \in BOOLEAN /\ x11 \in 0 .. ForFiles.MaxDeaths /\ x11 >= x11 /\ r.step \notin {"cache", "drop", "create", "run"}
    BY <1>2, DBounds DEF DInv, DTypes
  <1> QED BY <1>2, <1>4, <1>5, <1>6, DReads

\* A cache whose version is current holds nothing old.
LEMMA DReadVersion == ASSUME DInv, NEW p \in DProc, D!ReadVersion(p) PROVE DInv'
  <1> DEFINE todo == IF x6.current THEN {} ELSE DObject
  <1>1. PICK r : r = [x7[p] EXCEPT !.step = "drop", !.todo = todo]
    OBVIOUS
  <1>2. /\ r \in DLocal /\ r.step = "drop" /\ r.todo = todo /\ r.lost = x7[p].lost /\ r.key = x7[p].key
    BY <1>1 DEF DInv, DTypes, DLocal, DStepNames
  <1>3. DFits(x7[p]) /\ DCache
    BY DEF DInv, DWorks
  <1>4. /\ x7[p].step = "cache" /\ x7' = [x7 EXCEPT ![p] = r]
        /\ UNCHANGED <<x1, x2, x3, x4, x6, x8, x9>> /\ x2' = x2 /\ x8' = x8 /\ x5' = x5 /\ x10' = x10 /\ x11' = x11
    BY <1>1 DEF D!ReadVersion, DObject
  <1>5. DFits(r)'
    BY <1>2, <1>3, <1>4 DEF DFits, DOpened, DIsOpen, DPast, DLocked
  <1>6. x10 \in BOOLEAN /\ x11 \in 0 .. ForFiles.MaxDeaths /\ x11 >= x11
    BY <1>2, DBounds DEF DInv, DTypes
  <1>7. p \in ForFiles.Server /\ \A o \in DObject \ r.todo : x6.objects[o] # "old"
    BY <1>2, <1>3, <1>4 DEF DCache
  <1> QED BY <1>2, <1>4, <1>5, <1>6, <1>7, DReads

\* The backup holds every row there is.
LEMMA DBackup == ASSUME DInv, NEW p \in DProc, D!Backup(p) PROVE DInv'
  <1>1. PICK r : r = [x7[p] EXCEPT !.step = "split", !.before = x2.rows + x3]
    OBVIOUS
  <1>2. x2.rows + x3 \in DRow
    BY DBounds DEF DInv, DTypes, DRows, DFile, DRow
  <1>3. r \in DLocal /\ r.step = "split" /\ r.before = x2.rows + x3 /\ r.lost = x7[p].lost
    BY <1>1, <1>2 DEF DInv, DTypes, DLocal, DStepNames
  <1>4. DFits(x7[p])
    BY DEF DInv, DWorks
  <1>5. /\ x7[p].step = "backup" /\ x2.kind = "plain" /\ x7' = [x7 EXCEPT ![p] = r] /\ x5' = x5 \cup {x2.rows + x3}
        /\ UNCHANGED <<x1, x2, x3, x4, x6, x8, x9>> /\ x2' = x2 /\ x8' = x8 /\ x10' = x10 /\ x11' = x11
    BY <1>1 DEF D!Backup, D!Readable
  <1>6. DFits(r)'
    BY <1>3, <1>4, <1>5 DEF DFits, DOpened, DIsOpen, DPast, DLocked
  <1>7. x10 \in BOOLEAN /\ x11 \in 0 .. ForFiles.MaxDeaths /\ x11 >= x11 /\ x5 \subseteq x5'
    BY <1>5, DBounds DEF DInv, DTypes
  <1> QED BY <1>3, <1>5, <1>6, <1>7, DReads

\* Only a file whose rows a backup holds is split, and nobody relies on the
\* old layout then.
LEMMA DSplit == ASSUME DInv, NEW p \in DProc, D!Split(p) PROVE DInv'
  <1> DEFINE done == x2.layout = "legacy" /\ x7[p].before = x2.rows + x3
             to   == IF done THEN "open" ELSE IF x2.layout = "legacy" THEN "closed" ELSE "open"
  <1>1. PICK r : r = [x7[p] EXCEPT !.step = to]
    OBVIOUS
  <1>2. r \in DLocal /\ r.step = to /\ r.lost = x7[p].lost /\ r.step \in {"closed", "open"}
    BY <1>1 DEF DInv, DTypes, DLocal, DStepNames
  <1>3. DFits(x7[p]) /\ DEnc /\ DRows
    BY DEF DInv, DWorks
  <1>4. /\ x7[p].step = "split" /\ x2.kind = "plain" /\ x7' = [x7 EXCEPT ![p] = r]
        /\ UNCHANGED <<x1, x3, x6, x8, x9>> /\ x8' = x8 /\ x3' = x3 /\ x5' = x5 /\ x10' = x10 /\ x11' = x11
        /\ IF done THEN x2' = [x2 EXCEPT !.layout = "bare"] /\ x4' = "none" ELSE UNCHANGED <<x2, x4>>
    BY <1>1 DEF D!Split, D!Readable, D!Goto
  <1>5. x10 \in BOOLEAN /\ x11 \in 0 .. ForFiles.MaxDeaths /\ x11 >= x11 /\ x5 \subseteq x5' /\ x11 \in Nat
    BY <1>4, DBounds DEF DInv, DTypes
  <1>6. CASE ~done
    <2>1. x2' = x2 /\ x4' = x4 /\ (x2.layout = "legacy" => r.step = "closed")
      BY <1>2, <1>4, <1>6
    <2>2. DFits(r)'
      BY <1>2, <1>3, <1>4, <2>1 DEF DFits, DOpened, DIsOpen, DPast, DLocked
    <2> QED BY <1>2, <1>4, <1>5, <2>1, <2>2, DReads
  <1>7. CASE done
    <2>1. x3 = 0 /\ x2.rows \in Nat /\ x2.rows \in x5 /\ x8.step = "idle"
      BY <1>3, <1>4, <1>7 DEF DRows, DFits, DIsOpen, DEnc, DLocked, DInv, DTypes, DFile, DRow
    <2>2. x2'.kind = "plain" /\ x2'.layout = "bare" /\ x2'.rows = x2.rows /\ x2' \in DFile
      BY <1>4, <1>7 DEF DInv, DTypes, DFile
    <2>3. DTypes'
      BY <1>2, <1>4, <1>5, <1>7, <2>2 DEF DInv, DTypes
    <2>4. DRows'
      BY <1>3, <1>4, <2>1, <2>2 DEF DRows
    <2>5. DEnc'
      BY <1>4, <2>1 DEF DEnc, DLocked
    <2>6. \A q \in DProc : x7[q].step \in {"closed", "migrate", "backup", "split"} /\ DFits(x7[q])
      BY <1>4, <1>7 DEF DInv, DWorks, DFits
    <2>7. ASSUME NEW q \in DProc PROVE x7'[q].step \in {"closed", "migrate", "backup", "split", "open"} /\ ~x7'[q].lost
                    /\ (x7'[q].step = "split" => x7'[q].before \in x5)
      BY <1>2, <1>3, <1>4, <1>7, <2>6 DEF DFits, DInv, DTypes
    <2>8. DWorks'
      BY <1>4, <2>1, <2>2, <2>7 DEF DWorks, DFits, DOpened, DIsOpen, DPast, DLocked
    <2>9. DIndex'
      BY <1>4, <1>7 DEF DIndex
    <2>10. DCache'
      BY <1>2, <1>4, <1>5, DCacheKept
    <2> QED BY <2>3, <2>4, <2>5, <2>8, <2>9, <2>10 DEF DInv
  <1> QED BY <1>6, <1>7

\* A file that is opened fits the key; a new one is created empty by one that
\* nobody can have open.
LEMMA DOpen == ASSUME DInv, NEW p \in DProc, D!Open(p) PROVE DInv'
  <1> DEFINE to == IF D!Refused(p) THEN "closed" ELSE IF D!Locked THEN "wait" ELSE "columns"
             kind == IF x7[p].key THEN "cipher" ELSE "plain"
  <1>1. PICK r : r = [x7[p] EXCEPT !.step = to]
    OBVIOUS
  <1>2. r \in DLocal /\ r.step = to /\ r.lost = x7[p].lost /\ r.key = x7[p].key /\ r.step \in {"closed", "wait", "columns"}
    BY <1>1 DEF DInv, DTypes, DLocal, DStepNames
  <1>3. DFits(x7[p]) /\ DEnc /\ DRows
    BY DEF DInv, DWorks
  <1>4. /\ x7[p].step = "open" /\ x7' = [x7 EXCEPT ![p] = r]
        /\ UNCHANGED <<x1, x3, x4, x6, x8, x9>> /\ x8' = x8 /\ x3' = x3 /\ x4' = x4 /\ x9' = x9 /\ x5' = x5 /\ x11' = x11
        /\ x2' = (IF x2.kind = "none" THEN [kind |-> kind, layout |-> "empty", rows |-> 0] ELSE x2)
        /\ x10' = (x10 \/ (x8.step # "idle" /\ ~D!Refused(p)))
    BY <1>1 DEF D!Open, D!Goto
  <1>5. x10' \in BOOLEAN /\ x11 \in 0 .. ForFiles.MaxDeaths /\ x11 >= x11 /\ x5 \subseteq x5' /\ x11 \in Nat /\ (x10 => x10')
    BY <1>4, DBounds DEF DInv, DTypes
  <1>6. CASE x2.kind # "none"
    <2>1. x2' = x2
      BY <1>4, <1>6
    <2>2. DFits(r)'
      BY <1>2, <1>3, <1>4, <1>6, <2>1 DEF DFits, DOpened, DIsOpen, DPast, DLocked, DEnc, D!Refused, D!Locked, DInv, DTypes, DFile, DLocal
    <2> QED BY <1>2, <1>4, <1>5, <2>1, <2>2, DReads
  <1>7. CASE x2.kind = "none"
    <2>1. x3 = 0 /\ x2.rows = 0 /\ x8.step = "idle" /\ x10' = x10 /\ x2.layout = "none"
      BY <1>3, <1>4, <1>7 DEF DRows, DEnc, DLocked, DInv, DTypes
    <2>2. kind \in {"cipher", "plain"} /\ (kind = "cipher" <=> x7[p].key)
      BY DEF DInv, DTypes, DLocal
    <2>3. x2'.kind = kind /\ x2'.layout = "empty" /\ x2'.rows = 0 /\ x2' \in DFile
      BY <1>4, <1>7, <2>2, DBounds DEF DFile, DRow
    <2> HIDE DEF kind
    <2>4. DTypes'
      BY <1>2, <1>4, <1>5, <1>7, <2>3 DEF DInv, DTypes
    <2>5. DRows'
      BY <1>3, <1>4, <2>1, <2>2, <2>3 DEF DRows
    <2>6. DEnc'
      BY <1>4, <2>1 DEF DEnc, DLocked
    <2>7. r.step = "columns"
      BY <1>2, <1>7, <2>1 DEF D!Refused, D!Locked
    <2>8. \A q \in DProc : x7[q].step \in {"closed", "migrate", "open"} /\ DFits(x7[q]) /\ ~x7[q].lost
      BY <1>4, <1>7 DEF DInv, DWorks, DFits
    <2>9. ASSUME NEW q \in DProc
          PROVE  /\ x7'[q].step \in {"closed", "migrate", "open", "columns"} /\ ~x7'[q].lost
                 /\ (x7'[q].step = "columns" => (x7'[q].key <=> kind = "cipher"))
      BY <1>2, <1>4, <1>7, <2>2, <2>7, <2>8 DEF DInv, DTypes
    <2>10. DWorks'
      BY <1>4, <2>1, <2>2, <2>3, <2>9 DEF DWorks, DFits, DOpened, DIsOpen, DPast, DLocked
    <2>11. DIndex'
      BY <1>2, <1>4, <1>5, <2>1, DIndexKept
    <2>12. DCache'
      BY <1>2, <1>4, <1>5, DCacheKept
    <2> QED BY <2>4, <2>5, <2>6, <2>10, <2>11, <2>12 DEF DInv
  <1> QED BY <1>6, <1>7

\* The columns are added to what is there, once.
LEMMA DAddColumns == ASSUME DInv, NEW p \in DProc, D!AddColumns(p) PROVE DInv'
  <1> DEFINE late == x2.layout = "kgless" /\ ~x7[p].lost
             to == IF late THEN "rescan" ELSE IF p \in ForFiles.Server THEN "cache" ELSE "run"
             grows == late \/ (x2.layout \in {"empty", "bare"} /\ ~x7[p].lost)
  <1>1. PICK r : r = [x7[p] EXCEPT !.step = to]
    OBVIOUS
  <1>2. /\ r \in DLocal /\ r.step = to /\ r.lost = x7[p].lost /\ r.key = x7[p].key /\ r.step \in {"rescan", "cache", "run"}
        /\ (r.step = "cache" => p \in ForFiles.Server) /\ (r.step = "run" => p \notin ForFiles.Server)
    BY <1>1 DEF DInv, DTypes, DLocal, DStepNames
  <1>3. DFits(x7[p]) /\ DEnc /\ DRows
    BY DEF DInv, DWorks
  <1>4. /\ x7[p].step = "columns" /\ x7' = [x7 EXCEPT ![p] = r]
        /\ UNCHANGED <<x1, x3, x4, x6, x8, x9>> /\ x8' = x8 /\ x3' = x3 /\ x4' = x4 /\ x9' = x9 /\ x5' = x5 /\ x10' = x10 /\ x11' = x11
        /\ x2' = IF grows THEN [x2 EXCEPT !.layout = "current"] ELSE x2
    BY <1>1 DEF D!AddColumns, D!Goto
  <1>5. x10' \in BOOLEAN /\ x11 \in 0 .. ForFiles.MaxDeaths /\ x11 >= x11 /\ x5 \subseteq x5' /\ x11 \in Nat /\ (x10 => x10')
    BY <1>4, DBounds DEF DInv, DTypes
  <1>6. CASE ~grows
    <2>1. x2' = x2
      BY <1>4, <1>6
    <2>2. DFits(r)'
      BY <1>2, <1>3, <1>4, <1>6, <2>1 DEF DFits, DOpened, DIsOpen, DPast, DLocked
    <2> QED BY <1>2, <1>4, <1>5, <2>1, <2>2, DReads
  <1>7. CASE grows
    <2>1. x2'.kind = x2.kind /\ x2'.layout = "current" /\ x2'.rows = x2.rows /\ x2' \in DFile /\ x2.layout # "none" /\ x2.kind # "none"
      BY <1>3, <1>4, <1>7 DEF DInv, DTypes, DFile, DRows
    <2>2. DTypes'
      BY <1>2, <1>4, <1>5, <1>7, <2>1 DEF DInv, DTypes
    <2>3. DRows' /\ DEnc'
      BY <1>3, <1>4, <2>1 DEF DRows, DEnc, DLocked
    <2>4. ASSUME NEW l, l.lost => x2.kind = "cipher" /\ x10, DFits(l) \/ (l.step # "split" /\ l.step # "wait"
                     /\ (~l.lost => (l.key <=> x2.kind = "cipher")) /\ ~DLocked /\ (x8.step = "sweep" => x10))
          PROVE DFits(l)'
      BY <1>4, <2>1, <2>4 DEF DFits, DLocked
    <2>5. /\ r.step # "split" /\ r.step # "wait" /\ (r.lost => x2.kind = "cipher" /\ x10)
          /\ (~r.lost => (r.key <=> x2.kind = "cipher")) /\ ~DLocked /\ (x8.step = "sweep" => x10)
      BY <1>2, <1>3, <1>4 DEF DFits, DIsOpen, DOpened
    <2>6. ASSUME NEW q \in DProc PROVE DFits(x7[q])'
      <3>1. PICK l : l = x7'[q]
        OBVIOUS
      <3>2. x7'[q] = IF q = p THEN r ELSE x7[q]
        BY <1>4 DEF DInv, DTypes
      <3>3. DFits(l)'
        <4>1. CASE q = p
          BY <2>4, <2>5, <3>1, <3>2, <4>1
        <4>2. CASE q # p
          <5>1. DFits(l)
            BY <3>1, <3>2, <4>2 DEF DInv, DWorks
          <5> QED BY <2>4, <5>1 DEF DFits
        <4> QED BY <4>1, <4>2
      <3> QED BY <3>1, <3>3 DEF DFits, DLocked, DPast, DOpened, DIsOpen
    <2>7. DWorks'
      BY <2>6 DEF DWorks
    <2>8. DIndex'
      <3>1. \A q \in DProc : x7'[q] = IF q = p THEN r ELSE x7[q]
        BY <1>4 DEF DInv, DTypes
      <3>2. x4 = "unbuilt" /\ ~late => x10 \/ x11 > 0 \/ \E q \in DProc : x7[q].step = "rescan"
        BY <1>7 DEF DInv, DIndex
      <3>3. late => r.step = "rescan"
        BY <1>2
      <3> QED BY <1>4, <3>1, <3>2, <3>3 DEF DIndex
    <2>9. DCache'
      BY <1>2, <1>4, <1>5, DCacheKept
    <2> QED BY <2>2, <2>3, <2>7, <2>8, <2>9 DEF DInv
  <1> QED BY <1>6, <1>7

\* An index scanned anew is not an unbuilt one.
LEMMA DRestartScan == ASSUME DInv, NEW p \in DProc, D!RestartScan(p) PROVE DInv'
  <1> DEFINE to == IF p \in ForFiles.Server THEN "cache" ELSE "run"
  <1>1. PICK r : r = [x7[p] EXCEPT !.step = to]
    OBVIOUS
  <1>2. /\ r \in DLocal /\ r.step = to /\ r.lost = x7[p].lost /\ r.key = x7[p].key /\ r.step \in {"cache", "run"}
        /\ (r.step = "cache" => p \in ForFiles.Server) /\ (r.step = "run" => p \notin ForFiles.Server)
    BY <1>1 DEF DInv, DTypes, DLocal, DStepNames
  <1>3. DFits(x7[p]) /\ DEnc /\ DRows
    BY DEF DInv, DWorks
  <1>4. /\ x7[p].step = "rescan" /\ x7' = [x7 EXCEPT ![p] = r]
        /\ UNCHANGED <<x1, x2, x3, x6, x8, x9>> /\ x2' = x2 /\ x8' = x8 /\ x3' = x3 /\ x6' = x6 /\ x9' = x9 /\ x5' = x5 /\ x10' = x10 /\ x11' = x11
        /\ x4' = IF x7[p].lost THEN x4 ELSE "restarted"
    BY <1>1 DEF D!RestartScan, D!Goto
  <1>5. x10' \in BOOLEAN /\ x11 \in 0 .. ForFiles.MaxDeaths /\ x11 >= x11 /\ x5 \subseteq x5' /\ x11 \in Nat /\ (x10 => x10')
    BY <1>4, DBounds DEF DInv, DTypes
  <1>6. DFits(r)'
    BY <1>2, <1>3, <1>4 DEF DFits, DOpened, DIsOpen, DPast, DLocked
  <1>7. DTypes'
    BY <1>2, <1>4, <1>5 DEF DInv, DTypes
  <1>8. DRows' /\ DEnc'
    BY <1>3, <1>4 DEF DRows, DEnc, DLocked
  <1>9. DWorks'
    BY <1>2, <1>4, <1>5, <1>6, DOthers
  <1>10. DIndex'
    BY <1>3, <1>4 DEF DIndex, DFits
  <1>11. DCache'
    BY <1>2, <1>4, <1>5, DCacheKept
  <1> QED BY <1>7, <1>8, <1>9, <1>10, <1>11 DEF DInv

-----------------------------------------------------------------------------
(* The cache.                                                              *)

\* What one process drops from under another is on the first one's list.
LEMMA DDropObject == ASSUME DInv, NEW p \in DProc, NEW o \in DObject, D!DropObject(p, o) PROVE DInv'
  <1>1. PICK r : r = [x7[p] EXCEPT !.todo = x7[p].todo \ {o}]
    OBVIOUS
  <1>2. r \in DLocal /\ r.step = x7[p].step /\ r.lost = x7[p].lost /\ r.key = x7[p].key /\ r.todo = x7[p].todo \ {o}
    BY <1>1 DEF DInv, DTypes, DLocal
  <1>3. DFits(x7[p]) /\ DCache /\ DRows /\ DEnc /\ DIndex
    BY DEF DInv, DWorks
  <1>4. /\ x7[p].step = "drop" /\ o \in x7[p].todo /\ x7' = [x7 EXCEPT ![p] = r] /\ x6' = [x6 EXCEPT !.objects[o] = "none"]
        /\ UNCHANGED <<x1, x2, x3, x4, x8, x9>> /\ x2' = x2 /\ x4' = x4 /\ x8' = x8 /\ x5' = x5 /\ x10' = x10 /\ x11' = x11
    BY <1>1 DEF D!DropObject
  <1>5. x10' \in BOOLEAN /\ x11 \in 0 .. ForFiles.MaxDeaths /\ x5 \subseteq x5' /\ x11 \in Nat /\ (x10 => x10')
    BY <1>4, DBounds DEF DInv, DTypes
  <1>6. DFits(r)'
    BY <1>2, <1>3, <1>4 DEF DFits, DOpened, DIsOpen, DPast, DLocked
  <1>7. x6' \in DContents /\ x6'.current = x6.current /\ \A a \in DObject : x6'.objects[a] = IF a = o THEN "none" ELSE x6.objects[a]
    BY <1>4 DEF DInv, DTypes, DContents
  <1>8. DTypes'
    BY <1>2, <1>4, <1>5, <1>7 DEF DInv, DTypes
  <1>9. DRows' /\ DEnc'
    BY <1>3, <1>4 DEF DRows, DEnc, DLocked
  <1>10. DWorks'
    BY <1>2, <1>4, <1>5, <1>6, DOthers
  <1>11. \A q \in DProc : x7'[q] = IF q = p THEN r ELSE x7[q]
    BY <1>4 DEF DInv, DTypes
  <1>12. DIndex'
    BY <1>2, <1>3, <1>4, <1>11 DEF DIndex
  <1>13. DCache'
    <2>1. p \in ForFiles.Server
      BY <1>3, <1>4 DEF DCache
    <2>2. \A q \in DProc : x7'[q].step = x7[q].step
      BY <1>2, <1>11
    <2>3. \A q \in DProc, a \in DObject : a # o /\ a \notin x7'[q].todo => a \notin x7[q].todo
      BY <1>2, <1>11
    <2>4. ASSUME NEW a \in DObject, DMissing(a) PROVE DMissing(a)'
      BY <1>2, <1>4, <1>11, <2>2, <2>4, DBounds DEF DMissing
    <2>5. DMissing(o)'
      BY <1>2, <1>4, <1>11, <2>1, DBounds DEF DMissing
    <2>6. ASSUME NEW a \in DObject, x6'.current PROVE x6'.objects[a] # "old"
      BY <1>3, <1>7, <2>6 DEF DCache
    <2>7. ASSUME NEW q \in DProc, NEW a \in DObject, x7'[q].step = "drop", a \notin x7'[q].todo PROVE x6'.objects[a] # "old"
      BY <1>3, <1>7, <2>2, <2>3, <2>7 DEF DCache
    <2>8. ASSUME NEW q \in ForFiles.Server, NEW a \in DObject, DCreated(q)'
          PROVE  x6'.objects[a] = "new" \/ (x6'.objects[a] = "none" /\ DMissing(a)')
      <3>1. DCreated(q)
        BY <2>2, <2>8, DBounds DEF DCreated
      <3> QED BY <1>3, <1>7, <2>4, <2>5, <3>1 DEF DCache
    <2> QED BY <1>3, <1>7, <2>2, <2>6, <2>7, <2>8, DBounds DEF DCache
  <1> QED BY <1>8, <1>9, <1>10, <1>12, <1>13 DEF DInv

\* Nothing old is left when the cache is created.
LEMMA DCreateCache == ASSUME DInv, NEW p \in DProc, D!CreateCache(p) PROVE DInv'
  <1>1. PICK r : r = [x7[p] EXCEPT !.step = "create", !.todo = {}]
    OBVIOUS
  <1>2. r \in DLocal /\ r.step = "create" /\ r.lost = x7[p].lost /\ r.key = x7[p].key
    BY <1>1 DEF DInv, DTypes, DLocal, DStepNames
  <1>3. DFits(x7[p]) /\ DCache /\ DRows /\ DEnc /\ DIndex
    BY DEF DInv, DWorks
  <1>4. /\ x7[p].step = "drop" /\ (x7[p].todo = {} \/ \A a \in DObject : x6.objects[a] = "none")
        /\ x7' = [x7 EXCEPT ![p] = r]
        /\ x6' = [x6 EXCEPT !.objects = [a \in DObject |-> IF x6.objects[a] = "none" THEN "new" ELSE x6.objects[a]]]
        /\ UNCHANGED <<x1, x2, x3, x4, x8, x9>> /\ x2' = x2 /\ x4' = x4 /\ x8' = x8 /\ x5' = x5 /\ x10' = x10 /\ x11' = x11
    BY <1>1 DEF D!CreateCache, D!Empty, DObject
  <1>5. x10' \in BOOLEAN /\ x11 \in 0 .. ForFiles.MaxDeaths /\ x5 \subseteq x5' /\ x11 \in Nat /\ (x10 => x10')
    BY <1>4, DBounds DEF DInv, DTypes
  <1>6. DFits(r)'
    BY <1>2, <1>3, <1>4 DEF DFits, DOpened, DIsOpen, DPast, DLocked
  <1>7. x6.objects \in [DObject -> {"none", "old", "new"}] /\ \A a \in DObject : x6.objects[a] # "old"
    BY <1>3, <1>4 DEF DInv, DTypes, DContents, DCache
  <1>8. x6' \in DContents /\ \A a \in DObject : x6'.objects[a] = "new"
    BY <1>4, <1>7 DEF DInv, DTypes, DContents
  <1>9. DTypes'
    BY <1>2, <1>4, <1>5, <1>8 DEF DInv, DTypes
  <1>10. DRows' /\ DEnc'
    BY <1>3, <1>4 DEF DRows, DEnc, DLocked
  <1>11. DWorks'
    BY <1>2, <1>4, <1>5, <1>6, DOthers
  <1>12. \A q \in DProc : x7'[q] = IF q = p THEN r ELSE x7[q]
    BY <1>4 DEF DInv, DTypes
  <1>13. DIndex'
    BY <1>2, <1>3, <1>4, <1>12 DEF DIndex
  <1>14. x6'.current = x6.current
    BY <1>4 DEF DInv, DTypes, DContents
  <1>15. DCache'
    BY <1>2, <1>3, <1>4, <1>8, <1>12, <1>14, DBounds DEF DCache
  <1> QED BY <1>9, <1>10, <1>11, <1>13, <1>15 DEF DInv

\* The version is stored last, over objects that are new.
LEMMA DSetVersion == ASSUME DInv, NEW p \in DProc, D!SetVersion(p) PROVE DInv'
  <1>1. PICK r : r = [x7[p] EXCEPT !.step = "run"]
    OBVIOUS
  <1>2. r \in DLocal /\ r.step = "run" /\ r.lost = x7[p].lost /\ r.key = x7[p].key
    BY <1>1 DEF DInv, DTypes, DLocal, DStepNames
  <1>3. DFits(x7[p]) /\ DCache /\ DRows /\ DEnc /\ DIndex
    BY DEF DInv, DWorks
  <1>4. /\ x7[p].step = "create" /\ x7' = [x7 EXCEPT ![p] = r] /\ x6' = [x6 EXCEPT !.current = TRUE]
        /\ UNCHANGED <<x1, x2, x3, x4, x8, x9>> /\ x2' = x2 /\ x4' = x4 /\ x8' = x8 /\ x5' = x5 /\ x10' = x10 /\ x11' = x11
    BY <1>1 DEF D!SetVersion, D!Goto
  <1>5. x10' \in BOOLEAN /\ x11 \in 0 .. ForFiles.MaxDeaths /\ x5 \subseteq x5' /\ x11 \in Nat /\ (x10 => x10')
    BY <1>4, DBounds DEF DInv, DTypes
  <1>6. DFits(r)'
    BY <1>2, <1>3, <1>4 DEF DFits, DOpened, DIsOpen, DPast, DLocked
  <1>7. x6' \in DContents /\ x6'.current /\ x6'.objects = x6.objects
    BY <1>4 DEF DInv, DTypes, DContents
  <1>8. DTypes'
    BY <1>2, <1>4, <1>5, <1>7 DEF DInv, DTypes
  <1>9. DRows' /\ DEnc'
    BY <1>3, <1>4 DEF DRows, DEnc, DLocked
  <1>10. DWorks'
    BY <1>2, <1>4, <1>5, <1>6, DOthers
  <1>11. \A q \in DProc : x7'[q] = IF q = p THEN r ELSE x7[q]
    BY <1>4 DEF DInv, DTypes
  <1>12. DIndex'
    BY <1>2, <1>3, <1>4, <1>11 DEF DIndex
  <1>13. DCache'
    <2>1. p \in ForFiles.Server
      BY <1>3, <1>4 DEF DCache
    <2>2. \A q \in ForFiles.Server : DCreated(q)' => DCreated(q)
      BY <1>2, <1>4, <1>11, <2>1, DBounds DEF DCreated
    <2>3. \A a \in DObject : DMissing(a) => DMissing(a)'
      BY <1>4, <1>11, DBounds DEF DMissing
    <2>4. DCreated(p)
      BY <1>4, <2>1 DEF DCreated
    <2>5. \A a \in DObject : x6'.objects[a] # "old"
      BY <1>3, <1>7, <2>1, <2>4 DEF DCache
    <2> QED BY <1>2, <1>3, <1>7, <1>11, <2>1, <2>2, <2>3, <2>5, DBounds DEF DCache
  <1> QED BY <1>8, <1>9, <1>10, <1>12, <1>13 DEF DInv

-----------------------------------------------------------------------------
(* At work.                                                                *)

\* A row stored in the log is readable; one stored after the file was replaced
\* is the price of intruding.
LEMMA DWrite == ASSUME DInv, NEW p \in DProc, D!Write(p) PROVE DInv'
  <1>1. /\ x7[p].step = "run" /\ x9 < ForFiles.MaxWrites /\ ~(D!Locked /\ ~x7[p].lost)
        /\ x9' = x9 + 1 /\ x3' = (IF x7[p].lost THEN x3 ELSE x3 + 1)
        /\ UNCHANGED <<x1, x2, x4, x5, x6, x7, x8, x10, x11>>
    BY DEF D!Write
  <1>2. DFits(x7[p]) /\ DRows /\ DEnc /\ DIndex /\ DCache
    BY DEF DInv, DWorks
  <1>3. /\ x9 \in Nat /\ x3 \in Nat /\ x2.rows \in Nat /\ x7[p].lost \in BOOLEAN /\ ForFiles.MaxWrites \in Nat
        /\ x2.rows + x3 <= x9
    BY <1>2, DBounds DEF DInv, DTypes, DRow, DFile, DLocal, DRows
  <1>4. x9' \in DRow /\ x3' \in DRow
    BY <1>1, <1>3 DEF DRow
  <1>5. DTypes'
    BY <1>1, <1>4 DEF DInv, DTypes
  <1>6. x2.kind # "none" /\ ~(x2.kind = "plain" /\ x2.layout = "legacy") /\ (x2.layout = "bare" => x7[p].lost) /\ (x7[p].lost => x10)
    BY <1>1, <1>2 DEF DFits, DPast
  <1>7. DRows'
    BY <1>1, <1>2, <1>3, <1>6 DEF DRows
  <1>8. ~DLocked /\ (x8.step = "sweep" => x10)
    BY <1>1, <1>2 DEF DFits, DIsOpen, DOpened, DPast
  <1>9. DEnc'
    BY <1>1, <1>2, <1>8 DEF DEnc, DLocked
  <1>10. DWorks'
    BY <1>1 DEF DInv, DWorks, DFits, DLocked, DIsOpen, DOpened, DPast
  <1>11. DIndex' /\ DCache'
    BY <1>1, <1>2 DEF DIndex, DCache, DCreated, DMissing
  <1> QED BY <1>5, <1>7, <1>9, <1>10, <1>11 DEF DInv

\* The last to close moves the log into the file; no row is lost.
LEMMA DClose == ASSUME DInv, NEW p \in DProc, D!Close(p) PROVE DInv'
  <1> DEFINE last == ~x7[p].lost /\ \A q \in DProc \ {p} : ~D!IsOpen(q) \/ x7[q].lost
  <1>1. /\ x7[p].step = "run" /\ x7' = [x7 EXCEPT ![p] = D!Closed]
        /\ x2' = (IF last THEN [x2 EXCEPT !.rows = x2.rows + x3] ELSE x2) /\ x3' = (IF last THEN 0 ELSE x3)
        /\ x1' = x1 /\ x4' = x4 /\ x5' = x5 /\ x6' = x6 /\ x8' = x8 /\ x9' = x9 /\ x10' = x10 /\ x11' = x11
    BY DEF D!Close, D!Readable, DProc
  <1>2. DFits(x7[p]) /\ DRows /\ DEnc
    BY DEF DInv, DWorks
  <1>3. /\ x9 \in Nat /\ x3 \in Nat /\ x2.rows \in Nat /\ ForFiles.MaxWrites \in Nat /\ x9 <= ForFiles.MaxWrites /\ x2.rows + x3 <= x9
        /\ x10 \in BOOLEAN /\ x11 \in 0 .. ForFiles.MaxDeaths /\ x11 >= x11 /\ x11 \in Nat
    BY <1>2, DBounds DEF DInv, DTypes, DRow, DFile, DRows
  <1> HIDE DEF last
  <1>4. /\ x2'.kind = x2.kind /\ x2'.layout = x2.layout /\ x2' \in DFile /\ x3' \in DRow /\ x2'.rows \in Nat
        /\ x2'.rows + x3' = x2.rows + x3 /\ (x3 = 0 => x3' = 0 /\ x2'.rows = x2.rows)
    BY <1>1, <1>3 DEF DInv, DTypes, DFile, DRow
  <1>5. DTypes'
    BY <1>1, <1>4, DClosed DEF DInv, DTypes
  <1>6. DRows'
    BY <1>1, <1>2, <1>3, <1>4 DEF DRows
  <1>7. DEnc'
    BY <1>1, <1>2, <1>4 DEF DEnc, DLocked
  <1>8. DFits(D!Closed)'
    BY DClosed DEF DFits, DOpened, DIsOpen, DPast
  <1>9. PICK r \in DLocal : r = D!Closed
    BY DClosed
  <1>10. x7' = [x7 EXCEPT ![p] = r] /\ DFits(r)' /\ r.step = "closed"
    <2>1. r.step = "closed" /\ ~r.lost
      BY <1>9, DClosed
    <2>2. DFits(r)'
      BY <2>1 DEF DFits, DOpened, DIsOpen, DPast
    <2> QED BY <1>1, <1>9, <2>1, <2>2
  <1>11. DWorks'
    BY <1>1, <1>3, <1>4, <1>10, DOthers
  <1>12. DIndex'
    BY <1>1, <1>3, <1>4, <1>10, DIndexKept
  <1>13. DCache'
    BY <1>1, <1>3, <1>10, DCacheKept
  <1> QED BY <1>5, <1>6, <1>7, <1>11, <1>12, <1>13 DEF DInv

\* A death closes everything.
LEMMA DDie == ASSUME DInv, NEW p \in DProc, D!Die(p) PROVE DInv'
  <1>1. PICK r \in DLocal : r = D!Closed
    BY DClosed
  <1>2. /\ x11 < ForFiles.MaxDeaths /\ x11' = x11 + 1 /\ x7' = [x7 EXCEPT ![p] = r]
        /\ UNCHANGED <<x1, x2, x3, x4, x6, x8, x9>> /\ x2' = x2 /\ x5' = x5 /\ x10' = x10
    BY <1>1 DEF D!Die
  <1>3. r.step = "closed" /\ ~r.lost
    BY <1>1, DClosed
  <1>4. DFits(r)'
    BY <1>3 DEF DFits, DOpened, DIsOpen, DPast
  <1>5. x10' \in BOOLEAN /\ x11' \in 0 .. ForFiles.MaxDeaths /\ x11' >= x11 /\ x11' > 0 /\ x5 \subseteq x5' /\ (x10 => x10')
    BY <1>2, DBounds DEF DInv, DTypes
  <1> QED BY <1>2, <1>3, <1>4, <1>5, DReads

-----------------------------------------------------------------------------
(* Encrypt.                                                                *)

\* A key in the configuration changes no file.
LEMMA DSetKey == ASSUME DInv, D!SetKey PROVE DInv'
  <1>1. x1' = TRUE /\ UNCHANGED <<x2, x3, x4, x5, x6, x7, x8, x9, x10, x11>>
    BY DEF D!SetKey
  <1>2. DTypes' /\ DRows' /\ DEnc'
    BY <1>1 DEF DInv, DTypes, DRows, DEnc, DLocked
  <1>3. DWorks'
    BY <1>1 DEF DInv, DWorks, DFits, DLocked, DIsOpen, DOpened, DPast
  <1>4. DIndex' /\ DCache'
    BY <1>1 DEF DInv, DIndex, DCache, DCreated, DMissing
  <1> QED BY <1>2, <1>3, <1>4 DEF DInv

\* The lock is taken only while nobody has the file open; the log is then empty.
LEMMA DLockExclusive == ASSUME DInv, D!LockExclusive PROVE DInv'
  <1>1. /\ x8.step = "idle" /\ x2.kind = "plain" /\ \A q \in DProc : ~D!IsOpen(q) \/ x7[q].lost
        /\ x8' = [D!Idle EXCEPT !.step = "copy"] /\ x2' = [x2 EXCEPT !.rows = x2.rows + x3] /\ x3' = 0
        /\ UNCHANGED <<x1, x4, x5, x6, x7, x9, x10, x11>>
    BY DEF D!LockExclusive, D!Lockable, D!Readable, DProc
  <1>2. /\ x9 \in Nat /\ x3 \in Nat /\ x2.rows \in Nat /\ ForFiles.MaxWrites \in Nat /\ x9 <= ForFiles.MaxWrites /\ x2.rows + x3 <= x9 /\ 0 \in DRow
    BY DBounds DEF DInv, DTypes, DRow, DFile, DRows
  <1>3. x2' \in DFile /\ x2'.kind = "plain" /\ x2'.layout = x2.layout /\ x2'.rows = x2.rows + x3
    BY <1>1, <1>2 DEF DInv, DTypes, DFile, DRow
  <1>4. x8'.step = "copy" /\ x8' \in [step : {"idle", "copy", "swap", "sweep"}, rows : DRow]
    BY <1>1, <1>2 DEF D!Idle
  <1>5. DTypes'
    BY <1>1, <1>2, <1>3, <1>4 DEF DInv, DTypes
  <1>6. DRows'
    BY <1>1, <1>2, <1>3 DEF DInv, DRows
  <1>7. DEnc'
    BY <1>1, <1>3, <1>4 DEF DEnc, DLocked
  <1>8. \A q \in DProc : DFits(x7[q]) /\ ~x7[q].lost /\ ~DIsOpen(x7[q])
    BY <1>1 DEF DInv, DWorks, DFits, DIsOpen, DOpened, DPast, D!IsOpen
  <1>9. DWorks'
    BY <1>1, <1>3, <1>8 DEF DWorks, DFits, DIsOpen, DOpened, DPast
  <1>10. DIndex' /\ DCache'
    BY <1>1, <1>3 DEF DInv, DIndex, DCache, DCreated, DMissing
  <1> QED BY <1>5, <1>6, <1>7, <1>9, <1>10 DEF DInv

\* The copy has every row of the file.
LEMMA DCopy == ASSUME DInv, D!Copy PROVE DInv'
  <1>1. /\ x8.step = "copy" /\ x8' \in {[step |-> "swap", rows |-> x2.rows], D!Idle}
        /\ UNCHANGED <<x1, x2, x3, x4, x5, x6, x7, x9, x10, x11>>
    BY DEF D!Copy
  <1>2. 0 \in DRow /\ x2.rows \in DRow
    BY DBounds DEF DInv, DTypes, DRow, DFile
  <1>3. /\ x8' \in [step : {"idle", "copy", "swap", "sweep"}, rows : DRow] /\ x8'.step \in {"swap", "idle"}
        /\ (x8'.step = "swap" => x8'.rows = x2.rows)
    BY <1>1, <1>2 DEF D!Idle
  <1>4. DTypes' /\ DRows'
    BY <1>1, <1>3 DEF DInv, DTypes, DRows
  <1>5. DEnc'
    BY <1>1, <1>3 DEF DInv, DEnc, DLocked
  <1>6. DWorks'
    BY <1>1, <1>3 DEF DInv, DWorks, DFits, DLocked, DIsOpen, DOpened, DPast
  <1>7. DIndex' /\ DCache'
    BY <1>1 DEF DInv, DIndex, DCache, DCreated, DMissing
  <1> QED BY <1>4, <1>5, <1>6, <1>7 DEF DInv

\* Whoever has the file open when it is replaced has lost it.
LEMMA DMarked ==
    ASSUME DInv, x7' = [q \in DProc |-> [x7[q] EXCEPT !.lost = x7[q].lost \/ D!IsOpen(q)]]
    PROVE  /\ x7' \in [DProc -> DLocal]
           /\ \A q \in DProc : /\ x7'[q].step = x7[q].step /\ x7'[q].key = x7[q].key /\ x7'[q].before = x7[q].before
                               /\ x7'[q].todo = x7[q].todo /\ x7'[q].lost = (x7[q].lost \/ DIsOpen(x7[q]))
  <1>1. \A q \in DProc : x7[q] \in DLocal
    BY DEF DInv, DTypes
  <1>2. \A q \in DProc : D!IsOpen(q) \in BOOLEAN /\ (D!IsOpen(q) <=> DIsOpen(x7[q])) /\ DIsOpen(x7[q]) \in BOOLEAN
    BY DEF D!IsOpen, DIsOpen, DOpened, DPast
  <1>3. ASSUME NEW q \in DProc, NEW r, r = [x7[q] EXCEPT !.lost = x7[q].lost \/ D!IsOpen(q)]
        PROVE  /\ r \in DLocal /\ r.step = x7[q].step /\ r.key = x7[q].key /\ r.before = x7[q].before
               /\ r.todo = x7[q].todo /\ r.lost = (x7[q].lost \/ DIsOpen(x7[q]))
    <2>1. PICK b \in BOOLEAN : b = (x7[q].lost \/ D!IsOpen(q))
      OBVIOUS
    <2>2. r = [x7[q] EXCEPT !.lost = b]
      BY <1>3, <2>1
    <2>3. r \in DLocal /\ r.step = x7[q].step /\ r.key = x7[q].key /\ r.before = x7[q].before /\ r.todo = x7[q].todo /\ r.lost = b
      BY <1>1, <2>2 DEF DLocal
    <2>4. b = (x7[q].lost \/ DIsOpen(x7[q]))
      BY <1>2, <2>1
    <2> QED BY <2>3, <2>4
  <1>4. \A q \in DProc : x7'[q] = [x7[q] EXCEPT !.lost = x7[q].lost \/ D!IsOpen(q)]
    OBVIOUS
  <1>5. DOMAIN x7' = DProc /\ x7' = [q \in DProc |-> x7'[q]]
    OBVIOUS
  <1>6. \A q \in DProc : /\ x7'[q] \in DLocal /\ x7'[q].step = x7[q].step /\ x7'[q].key = x7[q].key /\ x7'[q].before = x7[q].before
                         /\ x7'[q].todo = x7[q].todo /\ x7'[q].lost = (x7[q].lost \/ DIsOpen(x7[q]))
    BY <1>3, <1>4
  <1> QED BY <1>5, <1>6

\* Losing a file changes neither the index nor the cache.
LEMMA DMarkedRest ==
    ASSUME DInv, UNCHANGED <<x4, x6, x11>>, x10' = x10, x2'.layout = x2.layout,
           \A q \in DProc : x7'[q].step = x7[q].step /\ x7'[q].todo = x7[q].todo
    PROVE  DIndex' /\ DCache'
  <1>1. DIndex'
    BY DEF DInv, DIndex
  <1>2. DCache'
    <2>1. \A q \in ForFiles.Server : DCreated(q)' <=> DCreated(q)
      BY DBounds DEF DCreated
    <2>2. \A o \in DObject : DMissing(o)' <=> DMissing(o)
      BY DBounds DEF DMissing
    <2> QED BY <2>1, <2>2, DBounds DEF DInv, DCache
  <1> QED BY <1>1, <1>2

\* Nobody has the file open when it is replaced.
LEMMA DSwap == ASSUME DInv, D!Swap PROVE DInv'
  <1>1. /\ x8.step = "swap" /\ x8' = [x8 EXCEPT !.step = "sweep"] /\ x2' = [x2 EXCEPT !.kind = "cipher", !.rows = x8.rows]
        /\ x7' = [q \in DProc |-> [x7[q] EXCEPT !.lost = x7[q].lost \/ D!IsOpen(q)]]
        /\ UNCHANGED <<x1, x3, x4, x5, x6, x9, x10, x11>>
    BY DEF D!Swap, DProc
  <1>2. DRows /\ DEnc /\ x2.kind = "plain" /\ x3 = 0 /\ x8.rows = x2.rows /\ x2 \in DFile
    BY <1>1 DEF DInv, DEnc, DLocked, DTypes
  <1>3. x2' \in DFile /\ x2'.kind = "cipher" /\ x2'.layout = x2.layout /\ x2'.rows = x2.rows
    BY <1>1, <1>2 DEF DFile
  <1>4. x8'.step = "sweep" /\ x8' \in [step : {"idle", "copy", "swap", "sweep"}, rows : DRow]
    BY <1>1 DEF DInv, DTypes
  <1>5. /\ x7' \in [DProc -> DLocal]
        /\ \A q \in DProc : x7'[q].step = x7[q].step /\ x7'[q].key = x7[q].key /\ x7'[q].before = x7[q].before
                               /\ x7'[q].todo = x7[q].todo /\ x7'[q].lost = (x7[q].lost \/ DIsOpen(x7[q]))
    BY <1>1, DMarked
  <1>6. DTypes'
    BY <1>1, <1>3, <1>4, <1>5 DEF DInv, DTypes
  <1>7. DRows' /\ DEnc'
    BY <1>1, <1>2, <1>3, <1>4 DEF DRows, DEnc, DLocked
  <1>8. \A q \in DProc : DFits(x7[q]) /\ ~x7[q].lost /\ ~DIsOpen(x7[q])
    BY <1>1, <1>2 DEF DInv, DWorks, DFits, DLocked
  <1>9. ASSUME NEW q \in DProc PROVE ~x7'[q].lost /\ x7'[q].step \in {"closed", "migrate", "open", "wait"} /\ (x7'[q].step = "wait" => ~x7'[q].key /\ x10)
    BY <1>5, <1>8 DEF DFits, DIsOpen, DOpened, DPast, DInv, DTypes, DLocal, DStepNames
  <1>10. DWorks'
    BY <1>1, <1>3, <1>9 DEF DWorks, DFits, DIsOpen, DOpened, DPast
  <1>11. DIndex' /\ DCache'
    BY <1>1, <1>3, <1>5, DMarkedRest
  <1> QED BY <1>6, <1>7, <1>10, <1>11 DEF DInv

\* Only an intruder can have a log to lose.
LEMMA DSweep == ASSUME DInv, D!Sweep PROVE DInv'
  <1>1. /\ x8.step = "sweep" /\ x8' = D!Idle /\ x3' = 0
        /\ x7' = [q \in DProc |-> [x7[q] EXCEPT !.lost = x7[q].lost \/ D!IsOpen(q)]]
        /\ UNCHANGED <<x1, x2, x4, x5, x6, x9, x10, x11>>
    BY DEF D!Sweep, DProc
  <1>2. DRows /\ DEnc /\ x2.kind = "cipher" /\ (~x10 => x3 = 0)
    BY <1>1 DEF DInv, DEnc
  <1>3. 0 \in DRow /\ x2.rows \in Nat /\ x3 \in Nat /\ x9 \in Nat
    BY DBounds DEF DRow, DInv, DTypes, DFile
  <1>4. x8'.step = "idle" /\ x8' \in [step : {"idle", "copy", "swap", "sweep"}, rows : DRow]
    BY <1>1, <1>3 DEF D!Idle
  <1>5. /\ x7' \in [DProc -> DLocal]
        /\ \A q \in DProc : x7'[q].step = x7[q].step /\ x7'[q].key = x7[q].key /\ x7'[q].before = x7[q].before
                               /\ x7'[q].todo = x7[q].todo /\ x7'[q].lost = (x7[q].lost \/ DIsOpen(x7[q]))
    BY <1>1, DMarked
  <1>6. DTypes'
    BY <1>1, <1>3, <1>4, <1>5 DEF DInv, DTypes
  <1>7. DRows' /\ DEnc'
    BY <1>1, <1>2, <1>3, <1>4 DEF DRows, DEnc, DLocked
  <1>8. ASSUME NEW q \in DProc PROVE DFits(x7[q])'
    <2>1. DFits(x7[q]) /\ (DIsOpen(x7[q]) => x10) /\ (x7[q].lost => x10)
      BY <1>1 DEF DInv, DWorks, DFits
    <2>2. PICK l : l = x7'[q]
      OBVIOUS
    <2>3. /\ l.step = x7[q].step /\ l.key = x7[q].key /\ l.before = x7[q].before /\ l.lost = (x7[q].lost \/ DIsOpen(x7[q]))
      BY <1>5, <2>2
    <2>4. (DPast(l) <=> DPast(x7[q])) /\ (DOpened(l) <=> DOpened(x7[q])) /\ (DIsOpen(l) <=> DIsOpen(x7[q]))
      BY <2>3 DEF DIsOpen, DOpened, DPast
    <2>5. DFits(l)'
      BY <1>1, <1>2, <1>4, <2>1, <2>3, <2>4 DEF DFits, DLocked
    <2> QED BY <2>2, <2>5 DEF DFits, DLocked, DPast, DOpened, DIsOpen
  <1>9. DWorks'
    BY <1>8 DEF DWorks
  <1>10. DIndex' /\ DCache'
    BY <1>1, <1>5, DMarkedRest
  <1> QED BY <1>6, <1>7, <1>9, <1>10 DEF DInv

\* What encrypt had begun is left as it is.
LEMMA DEncryptDies == ASSUME DInv, D!EncryptDies PROVE DInv'
  <1>1. /\ x8' = D!Idle /\ x11 < ForFiles.MaxDeaths /\ x11' = x11 + 1 /\ UNCHANGED <<x1, x2, x3, x4, x5, x6, x7, x9, x10>>
    BY DEF D!EncryptDies
  <1>2. 0 \in DRow /\ x11 \in Nat
    BY DBounds DEF DRow, DInv, DTypes
  <1>3. x8'.step = "idle" /\ x8' \in [step : {"idle", "copy", "swap", "sweep"}, rows : DRow]
    BY <1>1, <1>2 DEF D!Idle
  <1>4. DTypes'
    BY <1>1, <1>2, <1>3, DBounds DEF DInv, DTypes
  <1>5. DRows' /\ DEnc'
    BY <1>1, <1>3 DEF DInv, DRows, DEnc, DLocked
  <1>6. DWorks'
    BY <1>1, <1>3 DEF DInv, DWorks, DFits, DLocked, DIsOpen, DOpened, DPast
  <1>7. DIndex' /\ DCache'
    BY <1>1, <1>2 DEF DInv, DIndex, DCache, DCreated, DMissing
  <1> QED BY <1>4, <1>5, <1>6, <1>7 DEF DInv

-----------------------------------------------------------------------------

\* Every step of a files scene keeps the invariant.
LEMMA DStep == ASSUME DInv, [Next]_services, At("files") PROVE DInv'
  <1>1. CASE D!SetKey \/ D!Encrypt
    BY <1>1, DSetKey, DLockExclusive, DCopy, DSwap, DSweep, DEncryptDies DEF D!Encrypt
  <1>2. ASSUME NEW p \in DProc,
               \/ D!Start(p) \/ D!Detect(p) \/ (\E late \in BOOLEAN : D!Wait(p, late)) \/ D!Backup(p) \/ D!Split(p) \/ D!Open(p)
               \/ D!AddColumns(p) \/ D!RestartScan(p) \/ D!ReadVersion(p) \/ D!CreateCache(p) \/ D!SetVersion(p) \/ D!Write(p)
               \/ D!Close(p) \/ D!Die(p) \/ \E o \in DObject : D!DropObject(p, o)
        PROVE  DInv'
    BY <1>2, DStart, DDetect, DWait, DBackup, DSplit, DOpen, DAddColumns, DRestartScan, DReadVersion, DCreateCache, DSetVersion,
       DWrite, DClose, DDie, DDropObject
  <1>3. CASE D!Next
    BY <1>1, <1>2, <1>3 DEF D!Next, DProc, DObject
  <1>4. CASE UNCHANGED services
    <2>1. UNCHANGED <<x1, x2, x3, x4, x5, x6, x7, x8, x9, x10, x11>>
      BY <1>4 DEF services
    <2>2. DTypes' /\ DRows' /\ DEnc'
      BY <2>1 DEF DInv, DTypes, DRows, DEnc, DLocked
    <2>3. DWorks'
      BY <2>1 DEF DInv, DWorks, DFits, DLocked, DIsOpen, DOpened, DPast
    <2>4. DIndex' /\ DCache'
      BY <2>1 DEF DInv, DIndex, DCache, DCreated, DMissing
    <2> QED BY <2>2, <2>3, <2>4 DEF DInv
  <1> QED BY <1>3, <1>4 DEF Next, At

\* The invariant says what the property promises.
LEMMA DProperty == ASSUME DInv PROVE D!TypeOK /\ D!NothingLost /\ D!FilesFit
  <1>1. D!TypeOK
    BY DBounds DEF DInv, DTypes, D!TypeOK, DFile, DRow, DContents, DLocal, DStepNames, DObject, DProc
  <1>2. D!NothingLost
    BY DEF DInv, DRows, D!NothingLost, D!Readable, DTypes, DFile, DRow
  <1>3. ASSUME NEW p \in DProc, D!AtWork(p)
        PROVE  /\ (x2.kind = "cipher") = x7[p].key /\ (x2.kind = "plain" => x2.layout = "current")
               /\ (x4 = "unbuilt" => x10 \/ x11 > 0 \/ \E q \in DProc : x7[q].step = "rescan")
    <2>1. x7[p].step = "run" /\ ~x7[p].lost /\ DFits(x7[p]) /\ x7[p].key \in BOOLEAN /\ x2 \in DFile
      BY <1>3 DEF D!AtWork, DInv, DWorks, DTypes, DLocal
    <2>2. (x2.kind = "cipher") = x7[p].key
      BY <2>1 DEF DFits, DOpened, DPast
    <2>3. x2.kind # "none" /\ x2.layout \notin {"empty", "bare", "kgless"} /\ ~(x2.kind = "plain" /\ x2.layout = "legacy")
      BY <2>1 DEF DFits, DPast
    <2>4. x2.kind = "plain" => x2.layout = "current"
      BY <2>1, <2>3 DEF DFile, DInv, DRows
    <2>5. x4 = "unbuilt" => x10 \/ x11 > 0 \/ \E q \in DProc : x7[q].step = "rescan"
      BY <2>3 DEF DInv, DIndex
    <2> QED BY <2>2, <2>4, <2>5
  <1>4. ASSUME NEW p \in ForFiles.Server, x7[p].step = "run"
        PROVE  /\ x6.current
               /\ x11 > 0 \/ (\E q \in ForFiles.Server : x7[q].step = "drop") \/ \A o \in DObject : x6.objects[o] = "new"
    BY <1>4 DEF DInv, DCache, DCreated, DMissing
  <1>5. x6.current => \A o \in DObject : x6.objects[o] # "old"
    BY DEF DInv, DCache
  <1>6. D!FilesFit
    BY <1>3, <1>4, <1>5 DEF D!FilesFit, DProc, DObject
  <1> QED BY <1>1, <1>2, <1>6

\* No row that was stored is lost to a split, an upgrade, an encryption or a
\* death, unless a process opened imap.db while encrypt had it; and whoever is
\* at work has files that fit its key and its version (migrate.go:51-55,
\* encrypt.go:37-41, db.go:84-104, 239-288).
THEOREM StoredRowsStay == Spec => []DbFilesRight
  <1> DEFINE Inv == At("files") => DInv
  <1>1. Init => Inv
    BY DInit
  <1>2. Inv /\ [Next]_services => Inv'
    BY DStep, SceneStays DEF At
  <1>3. Inv => DbFilesRight
    BY DProperty DEF DbFilesRight
  <1> QED BY <1>1, <1>2, <1>3, PTL DEF Spec

-----------------------------------------------------------------------------
(* Every scene.                                                            *)

\* The variables of every scene keep their types, whatever the numbers of its
\* actors and bounds (TypeOK).
THEOREM TypeCorrect == Spec => []TypeOK
  <1> DEFINE PI == At("pool") => PInv
             UI == At("unsubscribe") => UInv
             DI == At("files") => DInv
             BI == At("stream") => BInv
             TI == At("tokens") => TInv
  <1>1. Init => PI /\ UI /\ DI /\ BI /\ TI
    BY PSceneInit, UInit, DInit, BInit, TSceneInit
  <1>2. PI /\ [Next]_services => PI'
    BY PSceneStep, SceneStays DEF At
  <1>3. UI /\ [Next]_services => UI'
    BY UStep, SceneStays DEF At
  <1>4. DI /\ [Next]_services => DI'
    BY DStep, SceneStays DEF At
  <1>5. BI /\ [Next]_services => BI'
    BY BStep, SceneStays DEF At
  <1>6. TI /\ [Next]_services => TI'
    BY TSceneStep, SceneStays DEF At
  <1>7. PI /\ UI /\ DI /\ BI /\ TI => TypeOK
    BY UTypeOK, DProperty, BProperty DEF PInv, TInv, TypeOK
  <1> QED BY <1>1, <1>2, <1>3, <1>4, <1>5, <1>6, <1>7, PTL DEF Spec

=============================================================================
