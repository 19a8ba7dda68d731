------------------------- MODULE IntelligenceProofs -------------------------
(***************************************************************************)
(* What Intelligence promises of the scan's index and of the knowledge     *)
(* graph, for every value of the constants, and last what the whole run    *)
(* promises: a behaviour of MCServices is one of Services, of Judgements   *)
(* or of Intelligence.                                                     *)
(***************************************************************************)
EXTENDS MCServices, ServicesProofs, JudgementsProofs, FiniteSetTheorems, SequenceTheorems, WellFoundedInduction, TLAPS

-----------------------------------------------------------------------------
(* Numbers, and what a fold computes.  A proof by induction supposes the   *)
(* set of numbers where the claim fails, and looks at its least member.    *)

\* Some numbers have a least one: the order of the naturals is well-founded.
LEMMA LeastExists ==
    ASSUME NEW Q \in SUBSET Nat, Q # {}
    PROVE  \E x \in Q : \A y \in Q : x <= y
  <1> DEFINE Y == OpToRel(<, Nat)
  <1>1. IsWellFoundedOn(Y, Nat)
    BY NatLessThanWellFounded
  <1>2. \A x, y \in Nat : y < x => <<y, x>> \in Y
    BY DEF Y, OpToRel
  <1> HIDE DEF Y
  <1>3. PICK x \in Q : \A y \in Q : ~(<<y, x>> \in Y)
    BY <1>1, WFMin
  <1>4. \A y \in Q : ~(y < x)
    BY <1>2, <1>3
  <1>5. \A y \in Q : x <= y
    BY <1>4
  <1> QED BY <1>5

\* A claim about numbers that holds of 0 and passes from each to the next: its
\* counterexamples have no least member.
LEMMA NoCounterexample ==
    ASSUME NEW Bad \in SUBSET Nat, 0 \notin Bad, \A k \in Nat : k \notin Bad => k + 1 \notin Bad
    PROVE  Bad = {}
  <1> SUFFICES ASSUME Bad # {} PROVE FALSE
    OBVIOUS
  <1>1. PICK k \in Bad : \A j \in Bad : k <= j
    BY LeastExists
  <1>2. k - 1 \in Nat /\ k - 1 \notin Bad /\ (k - 1) + 1 = k
    BY <1>1
  <1> QED BY <1>2

\* Some numbers none of which passes n have a greatest one: the least bound is reached.
LEMMA GreatestExists ==
    ASSUME NEW Q \in SUBSET Nat, Q # {}, NEW n \in Nat, \A x \in Q : x <= n
    PROVE  \E x \in Q : \A y \in Q : x >= y
  <1> DEFINE Z == {b \in Nat : \A x \in Q : x <= b}
  <1>1. PICK b \in Z : \A c \in Z : b <= c
    BY LeastExists
  <1>2. b \in Q
    <2> SUFFICES ASSUME b \notin Q PROVE FALSE
      OBVIOUS
    <2>1. \A x \in Q : x <= b - 1
      BY <1>1
    <2>2. b - 1 \in Nat
      <3>1. PICK x \in Q : TRUE
        OBVIOUS
      <3> QED BY <2>1, <3>1
    <2>3. b - 1 \in Z
      BY <2>1, <2>2
    <2> QED BY <1>1, <2>3
  <1> QED BY <1>1, <1>2

\* Finitely many numbers have a bound.
LEMMA FiniteIsBounded ==
    ASSUME NEW S0 \in SUBSET Nat, IsFiniteSet(S0)
    PROVE  \E n \in Nat : \A x \in S0 : x <= n
  <1> DEFINE Bad == {k \in Nat : \E Q \in SUBSET Nat : IsFiniteSet(Q) /\ Cardinality(Q) = k /\ ~ \E n \in Nat : \A x \in Q : x <= n}
  <1>1. 0 \notin Bad
    <2> SUFFICES ASSUME NEW Q \in SUBSET Nat, IsFiniteSet(Q), Cardinality(Q) = 0 PROVE \E n \in Nat : \A x \in Q : x <= n
      OBVIOUS
    <2>1. Q = {}
      BY FS_EmptySet
    <2> QED BY <2>1
  <1>2. ASSUME NEW k \in Nat, k \notin Bad PROVE k + 1 \notin Bad
    <2> SUFFICES ASSUME NEW Q \in SUBSET Nat, IsFiniteSet(Q), Cardinality(Q) = k + 1 PROVE \E n \in Nat : \A x \in Q : x <= n
      OBVIOUS
    <2>1. PICK t : t \in Q
      BY FS_EmptySet
    <2>2. IsFiniteSet(Q \ {t}) /\ Cardinality(Q \ {t}) = k
      <3>1. Cardinality(Q \ {t}) = Cardinality(Q) - 1
        BY <2>1, FS_RemoveElement
      <3> QED BY <3>1, FS_RemoveElement
    <2>3. PICK n \in Nat : \A x \in Q \ {t} : x <= n
      BY <1>2, <2>2
    <2>4. \A x \in Q : x <= n + t
      BY <2>1, <2>3
    <2> QED BY <2>1, <2>4
  <1>3. Bad = {}
    <2>1. Bad \in SUBSET Nat
      OBVIOUS
    <2> HIDE DEF Bad
    <2> QED BY <1>1, <1>2, <2>1, NoCounterexample
  <1>4. Cardinality(S0) \in Nat
    BY FS_CardinalityType
  <1> QED BY <1>3, <1>4

\* What a step of each fold does, and which member of the set it takes: a scan
\* goes through its batch in order, the tags are read in any order.
FoldStep(kind, st, x) ==
    IF kind = "apply" THEN S!ApplyOne(st, x12.folder, x12.batch[x])
    ELSE IF kind = "locate" THEN S!LocateOne(st, x12.folder, x12.batch[x])
    ELSE G!Linked(st, G!TagEdges(x), x, TRUE)
Pick(kind, s) == IF kind = "tags" THEN CHOOSE x \in s : TRUE ELSE S!Max(s)

\* A fold is a recursive function over the subsets of what it folds.
IsFold(kind, base, K, iter) ==
    iter = [s \in SUBSET K |-> IF s = {} THEN base ELSE FoldStep(kind, iter[s \ {Pick(kind, s)}], Pick(kind, s))]

\* The recursion of a fold over a finite set has a solution: one is built for the
\* sets of k members after the other, which the library's theorems cannot do for
\* a step that is an operator.
LEMMA FoldExists ==
    ASSUME NEW kind, NEW base, NEW K, IsFiniteSet(K), \A s \in SUBSET K : s # {} => Pick(kind, s) \in s
    PROVE  \E iter : IsFold(kind, base, K, iter)
  <1> DEFINE Upto(k) == {s \in SUBSET K : Cardinality(s) <= k}
             Next1(g, s) == IF s = {} THEN base ELSE FoldStep(kind, g[s \ {Pick(kind, s)}], Pick(kind, s))
             Fits(g, k) == g = [s \in Upto(k) |-> Next1(g, s)]
             Bad == {k \in Nat : ~ \E g : Fits(g, k)}
  <1>1. \A s \in SUBSET K : Cardinality(s) \in Nat /\ IsFiniteSet(s)
    BY FS_Subset, FS_CardinalityType
  <1>2. \A s \in SUBSET K : s # {} => /\ s \ {Pick(kind, s)} \in SUBSET K
                                     /\ Cardinality(s \ {Pick(kind, s)}) = Cardinality(s) - 1
    BY <1>1, FS_RemoveElement
  <1>3. 0 \notin Bad
    <2>1. Upto(0) = {{}}
      BY <1>1, FS_EmptySet
    <2>2. Fits([s \in {{}} |-> base], 0)
      BY <2>1
    <2> QED BY <2>2
  <1>4. ASSUME NEW k \in Nat, k \notin Bad PROVE k + 1 \notin Bad
    <2>1. PICK g : Fits(g, k)
      BY <1>4
    <2> DEFINE gg == [s \in Upto(k + 1) |-> Next1(g, s)]
    <2>2. ASSUME NEW s \in Upto(k + 1) PROVE gg[s] = Next1(gg, s)
      <3>1. CASE s = {}
        BY <3>1
      <3>2. CASE s # {}
        <4> DEFINE r == s \ {Pick(kind, s)}
        <4>1. r \in Upto(k) /\ r \in Upto(k + 1)
          BY <1>1, <1>2, <3>2
        <4>2. g[r] = Next1(g, r)
          <5> HIDE DEF r, Next1
          <5> QED BY <2>1, <4>1
        <4>3. gg[r] = Next1(g, r)
          <5> HIDE DEF r, Next1
          <5> QED BY <4>1
        <4>4. gg[s] = FoldStep(kind, g[r], Pick(kind, s))
          BY <3>2
        <4>5. Next1(gg, s) = FoldStep(kind, gg[r], Pick(kind, s))
          <5> HIDE DEF gg
          <5> QED BY <3>2
        <4> HIDE DEF gg, r, Next1
        <4> QED BY <4>2, <4>3, <4>4, <4>5
      <3> QED BY <3>1, <3>2
    <2>3. Fits(gg, k + 1)
      <3> DEFINE hh == [s \in Upto(k + 1) |-> Next1(gg, s)]
      <3>1. \A s \in Upto(k + 1) : gg[s] = hh[s]
        <4> HIDE DEF Next1, Upto
        <4> QED BY <2>2
      <3>2. gg = [s \in Upto(k + 1) |-> gg[s]] /\ hh = [s \in Upto(k + 1) |-> hh[s]]
        <4> HIDE DEF Next1, Upto
        <4> QED BY Zenon
      <3>3. gg = hh
        <4> HIDE DEF gg, hh
        <4> QED BY <3>1, <3>2
      <3> QED BY <3>3
    <2> QED BY <2>3
  <1>5. Bad = {}
    <2>1. Bad \in SUBSET Nat
      OBVIOUS
    <2> HIDE DEF Bad
    <2> QED BY <1>3, <1>4, <2>1, NoCounterexample
  <1>6. Cardinality(K) \in Nat /\ Upto(Cardinality(K)) = SUBSET K
    BY <1>1, FS_Subset, FS_CardinalityType
  <1>7. PICK g : Fits(g, Cardinality(K))
    BY <1>5, <1>6
  <1> QED BY <1>6, <1>7 DEF IsFold

\* FoldLeft takes the highest index left, which is one of those left.
LEMMA IntervalMax == ASSUME NEW n \in Nat, NEW s \in SUBSET (1..n), s # {} PROVE S!Max(s) \in s
  <1>1. s \in SUBSET Nat /\ \A y \in s : y <= n
    OBVIOUS
  <1>2. PICK x \in s : \A y \in s : x >= y
    BY <1>1, GreatestExists
  <1> QED BY <1>2 DEF S!Max

\* Of the first k messages of a batch the highest index is k.
LEMMA PrefixMax == ASSUME NEW k \in Nat \ {0} PROVE S!Max(1..k) = k /\ (1..k) \ {k} = 1..(k - 1)
  BY DEF S!Max

\* A batch is stored message by message: f[k] is what its first k leave.
Stored(kind, f, n) ==
    /\ f[0] = S!Current
    /\ \A k \in 1..n : f[k] = FoldStep(kind, f[k - 1], k)

\* A fold over a batch goes through its prefixes.
LEMMA Prefixes ==
    ASSUME NEW kind \in {"apply", "locate"}, NEW n \in Nat, NEW iter, IsFold(kind, S!Current, 1..n, iter)
    PROVE  \E f : Stored(kind, f, n) /\ f[n] = iter[1..n]
  <1> DEFINE f == [k \in 0..n |-> iter[1..k]]
  <1>1. f[0] = S!Current
    <2>1. 1..0 = {} /\ {} \in SUBSET (1..n)
      OBVIOUS
    <2>2. iter[{}] = S!Current
      BY <2>1 DEF IsFold
    <2> QED BY <2>1, <2>2
  <1>2. ASSUME NEW k \in 1..n PROVE f[k] = FoldStep(kind, f[k - 1], k)
    <2>1. 1..k \in SUBSET (1..n) /\ 1..k # {} /\ S!Max(1..k) = k /\ (1..k) \ {k} = 1..(k - 1)
      BY PrefixMax
    <2>2. iter[1..k] = FoldStep(kind, iter[1..(k - 1)], k)
      BY <2>1 DEF IsFold, Pick
    <2> QED BY <2>2
  <1>3. f[n] = iter[1..n]
    OBVIOUS
  <1> HIDE DEF f
  <1> QED BY <1>1, <1>2, <1>3 DEF Stored

\* The transaction of a batch (store.go:55-119) stores its messages one after the other.
LEMMA ApplyFolds ==
    ASSUME NEW n \in Nat, DOMAIN x12.batch = 1..n
    PROVE  \E f : /\ Stored("apply", f, n)
                  /\ S!FoldLeft(LAMBDA st, h : S!ApplyOne(st, x12.folder, h), S!Current, x12.batch) = f[n]
  <1>1. /\ IsFiniteSet(1..n)
        /\ \A s \in SUBSET (1..n) : s # {} => Pick("apply", s) \in s
    <2>1. IsFiniteSet(1..n)
      BY FS_Interval
    <2> QED BY <2>1, IntervalMax DEF Pick
  <1>2. \E iter : IsFold("apply", S!Current, 1..n, iter)
    BY <1>1, FoldExists
  <1>3. \E iter : iter = [s \in SUBSET (1..n) |-> IF s = {} THEN S!Current ELSE
                             LET x == S!Max(s) IN S!ApplyOne(iter[s \ {x}], x12.folder, x12.batch[x])]
    BY <1>2 DEF IsFold, FoldStep, Pick
  <1> DEFINE chosen == CHOOSE iter : iter = [s \in SUBSET (1..n) |-> IF s = {} THEN S!Current ELSE
                             LET x == S!Max(s) IN S!ApplyOne(iter[s \ {x}], x12.folder, x12.batch[x])]
  <1>4. S!FoldLeft(LAMBDA st, h : S!ApplyOne(st, x12.folder, h), S!Current, x12.batch) = chosen[1..n]
    BY DEF S!FoldLeft, S!MapThenFoldSet
  <1>5. IsFold("apply", S!Current, 1..n, chosen)
    BY <1>3 DEF IsFold, FoldStep, Pick
  <1> HIDE DEF chosen
  <1>6. PICK f : Stored("apply", f, n) /\ f[n] = chosen[1..n]
    BY <1>5, Prefixes
  <1> QED BY <1>4, <1>6

\* So does the location pass (locations.go:171-179).
LEMMA LocateFolds ==
    ASSUME NEW n \in Nat, DOMAIN x12.batch = 1..n
    PROVE  \E f : /\ Stored("locate", f, n)
                  /\ S!FoldLeft(LAMBDA st, h : S!LocateOne(st, x12.folder, h), S!Current, x12.batch) = f[n]
  <1>1. /\ IsFiniteSet(1..n)
        /\ \A s \in SUBSET (1..n) : s # {} => Pick("locate", s) \in s
    <2>1. IsFiniteSet(1..n)
      BY FS_Interval
    <2> QED BY <2>1, IntervalMax DEF Pick
  <1>2. \E iter : IsFold("locate", S!Current, 1..n, iter)
    BY <1>1, FoldExists
  <1>3. \E iter : iter = [s \in SUBSET (1..n) |-> IF s = {} THEN S!Current ELSE
                             LET x == S!Max(s) IN S!LocateOne(iter[s \ {x}], x12.folder, x12.batch[x])]
    BY <1>2 DEF IsFold, FoldStep, Pick
  <1> DEFINE chosen == CHOOSE iter : iter = [s \in SUBSET (1..n) |-> IF s = {} THEN S!Current ELSE
                             LET x == S!Max(s) IN S!LocateOne(iter[s \ {x}], x12.folder, x12.batch[x])]
  <1>4. S!FoldLeft(LAMBDA st, h : S!LocateOne(st, x12.folder, h), S!Current, x12.batch) = chosen[1..n]
    BY DEF S!FoldLeft, S!MapThenFoldSet
  <1>5. IsFold("locate", S!Current, 1..n, chosen)
    BY <1>3 DEF IsFold, FoldStep, Pick
  <1> HIDE DEF chosen
  <1>6. PICK f : Stored("locate", f, n) /\ f[n] = chosen[1..n]
    BY <1>5, Prefixes
  <1> QED BY <1>4, <1>6

\* The tags of several messages, written one message after the other.
LEMMA TagsFold ==
    ASSUME IsFiniteSet(G!TagClaimed)
    PROVE  \E iter : /\ IsFold("tags", x7, G!TagClaimed, iter)
                     /\ G!FoldFunction(LAMBDA m, g : G!Linked(g, G!TagEdges(m), m, TRUE), x7,
                                       [m \in G!TagClaimed |-> m]) = iter[G!TagClaimed]
  <1> DEFINE K == G!TagClaimed
  <1> HIDE DEF K
  <1>1. \A s \in SUBSET K : s # {} => Pick("tags", s) \in s
    BY DEF Pick
  <1>2. \E iter : IsFold("tags", x7, K, iter)
    BY <1>1, FoldExists DEF K
  <1>3. \E iter : iter = [s \in SUBSET K |-> IF s = {} THEN x7 ELSE
                 LET x == CHOOSE y \in s : TRUE IN G!Linked(iter[s \ {x}], G!TagEdges(x), x, TRUE)]
    BY <1>2 DEF IsFold, FoldStep, Pick
  <1> DEFINE id == [m \in K |-> m]
             chosen == CHOOSE iter : iter = [s \in SUBSET K |-> IF s = {} THEN x7 ELSE
                 LET x == CHOOSE y \in s : TRUE IN G!Linked(iter[s \ {x}], G!TagEdges(id[x]), id[x], TRUE)]
  <1>4. G!FoldFunction(LAMBDA m, g : G!Linked(g, G!TagEdges(m), m, TRUE), x7, id) = chosen[K]
    BY DEF G!FoldFunction, G!FoldFunctionOnSet, G!MapThenFoldSet
  <1>5. \A s \in SUBSET K : s # {} => id[CHOOSE y \in s : TRUE] = CHOOSE y \in s : TRUE
    OBVIOUS
  <1>6. IsFold("tags", x7, K, chosen)
    <2> HIDE DEF id
    <2>1. \E iter : iter = [s \in SUBSET K |-> IF s = {} THEN x7 ELSE
                 LET x == CHOOSE y \in s : TRUE IN G!Linked(iter[s \ {x}], G!TagEdges(id[x]), id[x], TRUE)]
      <3>1. PICK iter : iter = [s \in SUBSET K |-> IF s = {} THEN x7 ELSE
                 LET x == CHOOSE y \in s : TRUE IN G!Linked(iter[s \ {x}], G!TagEdges(x), x, TRUE)]
        BY <1>3
      <3> DEFINE value(s) == IF s = {} THEN x7 ELSE
                 LET x == CHOOSE y \in s : TRUE IN G!Linked(iter[s \ {x}], G!TagEdges(id[x]), id[x], TRUE)
                 other == [s \in SUBSET K |-> value(s)]
      <3>2. \A s \in SUBSET K : iter[s] = other[s]
        BY <1>5, <3>1
      <3>3. /\ iter = [s \in SUBSET K |-> iter[s]]
            /\ other = [s \in SUBSET K |-> other[s]]
        <4>1. iter = [s \in SUBSET K |-> iter[s]]
          BY <3>1, Zenon
        <4>2. other = [s \in SUBSET K |-> other[s]]
          <5> HIDE DEF value
          <5> QED BY Zenon
        <4> QED BY <4>1, <4>2
      <3>4. iter = other
        <4> HIDE DEF other
        <4> QED BY <3>2, <3>3
      <3> QED BY <3>4
    <2> QED BY <1>5, <2>1 DEF IsFold, FoldStep, Pick
  <1> HIDE DEF chosen
  <1> QED BY <1>4, <1>6 DEF K

-----------------------------------------------------------------------------
(* The knowledge graph.  Of each relation the invariant says what its row  *)
(* is made of, and that a relation is there exactly when something speaks  *)
(* for it; of the body that is with the model, that it is not read yet.    *)

GRow == [weight: Nat, from: Nat, last: Nat, sure: BOOLEAN, stale: BOOLEAN]

\* What speaks for a relation once the messages of N are indexed, the tags of
\* Q and the bodies of Z read, with what was heard of them.
GFound(e, N, Q, Z, heard) ==
    {<<m, "header">> : m \in {n \in N : e \in G!HeaderEdges(n)}}
    \cup {<<m, "tag">> : m \in {n \in Q : e \in G!TagEdges(n)}}
    \cup {<<m, "body">> : m \in {n \in Z : e \in heard[n]}}

GFits(row, H) ==
    /\ row \in GRow /\ IsFiniteSet(H) /\ H # {} /\ (\A v \in H : v[1] \in Nat)
    /\ row.weight = Cardinality(H)
    /\ (\E v \in H : v[1] = row.from) /\ (\A v \in H : row.from <= v[1])
    /\ (\E v \in H : v[1] = row.last) /\ (\A v \in H : row.last >= v[1])
    /\ row.sure <=> \E v \in H : v[2] # "body"

GWeighs(g, N, Q, Z, heard) ==
    /\ \A e \in DOMAIN g : e[1] # e[3] /\ GFits(g[e], GFound(e, N, Q, Z, heard))
    /\ \A e : e[1] # e[3] /\ GFound(e, N, Q, Z, heard) # {} => e \in DOMAIN g

GTick == [step: {"rest", "index", "tagged", "read", "answered"}, todo: Seq(ForGraph.Mail), done: Nat]
GTypes ==
    /\ G!TypeOK /\ x8 \in GTick /\ DOMAIN x9 = ForGraph.Mail /\ x10 \in [ForGraph.Mail -> Nat]
    /\ x8.step = "answered" => x8.todo # <<>> /\ Head(x8.todo) \in x4 \ x6

\* A body has been given to the model once if it is read or being read, and
\* once more for every tick that broke off at most.
GAsked(m) == m \in x6 \/ (x8.step = "answered" /\ Head(x8.todo) = m)
GCalls == \A m \in ForGraph.Mail : x10[m] <= IF GAsked(m) THEN x11 + 1 ELSE x11

GInv == GTypes /\ GCalls /\ GWeighs(x7, x4, x5, x6, x9)

\* What the assumption says of the graph's constants.
LEMMA GMail ==
    ASSUME G!ParamAssumption
    PROVE  /\ IsFiniteSet(ForGraph.Mail) /\ ForGraph.Mail \subseteq Nat
           /\ ForGraph.MaxNow \in Nat /\ ForGraph.MaxFaults \in Nat
           /\ \A S0 : G!Cardinality(S0) = Cardinality(S0)
  <1>1. \A S0 : G!Cardinality(S0) = Cardinality(S0)
    BY Zenon DEF G!Cardinality, Cardinality
  <1>2. IsFiniteSet(ForGraph.Mail)
    BY DEF G!ParamAssumption, G!IsFiniteSet, IsFiniteSet
  <1> QED BY <1>1, <1>2 DEF G!ParamAssumption

\* A row that fits its evidence fits it with one more piece.
LEMMA GRowGrows ==
    ASSUME NEW row, NEW H, GFits(row, H), NEW m \in Nat, NEW kind, NEW sure \in BOOLEAN,
           <<m, kind>> \notin H, sure <=> kind # "body"
    PROVE  GFits(G!RowWith(row, m, sure), H \cup {<<m, kind>>})
  <1> DEFINE v0 == <<m, kind>>
             W == H \cup {v0}
             new == G!RowWith(row, m, sure)
  <1>1. IsFiniteSet(W) /\ Cardinality(W) = Cardinality(H) + 1 /\ Cardinality(H) \in Nat /\ Cardinality(H) # 0
    BY FS_AddElement, FS_CardinalityType, FS_EmptySet DEF GFits
  <1>2. v0[1] = m /\ v0[2] = kind
    OBVIOUS
  <1>3. row.from \in Nat /\ row.last \in Nat /\ row.weight \in Nat /\ row.sure \in BOOLEAN /\ row.stale \in BOOLEAN
    BY DEF GFits, GRow
  <1>4. G!Min({row.from, m}) = IF row.from <= m THEN row.from ELSE m
    BY <1>3 DEF G!Min
  <1>5. G!Max({row.last, m}) = IF row.last >= m THEN row.last ELSE m
    BY <1>3 DEF G!Max
  <1>6. new = [row EXCEPT !.weight = row.weight + 1, !.from = G!Min({row.from, m}),
                          !.last = G!Max({row.last, m}), !.sure = row.sure \/ sure]
    BY <1>1 DEF G!RowWith, GFits
  <1>7. new \in GRow /\ new.weight = row.weight + 1 /\ (new.sure <=> row.sure \/ sure)
        /\ new.from = (IF row.from <= m THEN row.from ELSE m) /\ new.last = (IF row.last >= m THEN row.last ELSE m)
    <2> DEFINE low == IF row.from <= m THEN row.from ELSE m
               high == IF row.last >= m THEN row.last ELSE m
               surely == row.sure \/ sure
    <2>1. low \in Nat /\ high \in Nat
      BY <1>3
    <2>2. surely \in BOOLEAN
      OBVIOUS
    <2>3. new = [row EXCEPT !.weight = row.weight + 1, !.from = low, !.last = high, !.sure = surely]
      BY <1>4, <1>5, <1>6
    <2>4. row \in GRow
      BY DEF GFits
    <2> HIDE DEF new, low, high, surely
    <2>5. new = [weight |-> row.weight + 1, from |-> low, last |-> high, sure |-> surely, stale |-> row.stale]
      BY <2>3, <2>4 DEF GRow
    <2>6. new \in GRow /\ new.weight = row.weight + 1 /\ new.sure = surely /\ new.from = low /\ new.last = high
      BY <1>3, <2>1, <2>2, <2>5 DEF GRow
    <2> QED BY <2>6 DEF low, high, surely
  <1> HIDE DEF new, v0
  <1>8. (\A v \in W : v[1] \in Nat) /\ (\E v \in W : v[1] = new.from) /\ (\A v \in W : new.from <= v[1])
    BY <1>2, <1>3, <1>7 DEF GFits
  <1>9. (\E v \in W : v[1] = new.last) /\ (\A v \in W : new.last >= v[1])
    BY <1>2, <1>3, <1>7 DEF GFits
  <1>10. new.sure <=> \E v \in W : v[2] # "body"
    BY <1>2, <1>7 DEF GFits
  <1>11. new.weight = Cardinality(W)
    BY <1>1, <1>7 DEF GFits
  <1>12. W # {}
    OBVIOUS
  <1> QED BY <1>1, <1>7, <1>8, <1>9, <1>10, <1>11, <1>12 DEF GFits, v0, new

\* The first evidence makes a row.
LEMMA GRowBegins ==
    ASSUME NEW m \in Nat, NEW kind, NEW sure \in BOOLEAN, sure <=> kind # "body"
    PROVE  GFits(G!RowWith(G!NoEdge, m, sure), {<<m, kind>>})
  <1> DEFINE v0 == <<m, kind>>
             new == G!RowWith(G!NoEdge, m, sure)
  <1>1. new = [weight |-> 1, from |-> m, last |-> m, sure |-> sure, stale |-> FALSE]
    BY DEF G!RowWith, G!NoEdge
  <1>2. IsFiniteSet({v0}) /\ Cardinality({v0}) = 1
    BY FS_Singleton
  <1>3. v0[1] = m /\ v0[2] = kind
    OBVIOUS
  <1> HIDE DEF new, v0
  <1> QED BY <1>1, <1>2, <1>3 DEF GFits, GRow, v0, new

\* Writing the edges of one message, by one of its sources, keeps the books.
LEMMA GLinks ==
    ASSUME NEW g, NEW N, NEW Q, NEW Z, NEW heard, GWeighs(g, N, Q, Z, heard),
           NEW I1, NEW T1, NEW B1,
           NEW m \in Nat, NEW kind, NEW edges, NEW sure \in BOOLEAN, sure <=> kind # "body",
           \A e : <<m, kind>> \notin GFound(e, N, Q, Z, heard),
           \A e : GFound(e, I1, T1, B1, heard) =
                  IF e \in edges THEN GFound(e, N, Q, Z, heard) \cup {<<m, kind>>} ELSE GFound(e, N, Q, Z, heard)
    PROVE  GWeighs(G!Linked(g, edges, m, sure), I1, T1, B1, heard)
  <1> DEFINE real == {e \in edges : e[1] # e[3]}
             new == G!Linked(g, edges, m, sure)
             H(e) == GFound(e, N, Q, Z, heard)
             W(e) == GFound(e, I1, T1, B1, heard)
  <1>1. DOMAIN new = DOMAIN g \cup real
    BY DEF G!Linked
  <1>2. \A e \in DOMAIN new : new[e] = IF e \in real THEN G!RowWith(G!RowOf(g, e), m, sure) ELSE g[e]
    BY DEF G!Linked
  <1>3. \A e : <<m, kind>> \notin H(e) /\ W(e) = IF e \in edges THEN H(e) \cup {<<m, kind>>} ELSE H(e)
    OBVIOUS
  <1>4. /\ \A e \in DOMAIN g : e[1] # e[3] /\ GFits(g[e], H(e))
        /\ \A e : e[1] # e[3] /\ H(e) # {} => e \in DOMAIN g
    BY DEF GWeighs
  <1> HIDE DEF new, H, W
  <1>5. ASSUME NEW e \in DOMAIN new PROVE e[1] # e[3] /\ GFits(new[e], W(e))
    <2>1. CASE e \in real /\ e \in DOMAIN g
      <3>1. G!RowOf(g, e) = g[e] /\ W(e) = H(e) \cup {<<m, kind>>}
        BY <1>3, <2>1 DEF G!RowOf
      <3> QED BY <1>2, <1>3, <1>4, <2>1, <3>1, GRowGrows
    <2>2. CASE e \in real /\ e \notin DOMAIN g
      <3>1. H(e) = {}
        BY <1>4, <2>2
      <3>2. G!RowOf(g, e) = G!NoEdge /\ W(e) = {<<m, kind>>}
        BY <1>3, <2>2, <3>1 DEF G!RowOf
      <3>3. new[e] = G!RowWith(G!NoEdge, m, sure)
        BY <1>2, <2>2, <3>2
      <3> QED BY <2>2, <3>2, <3>3, GRowBegins
    <2>3. CASE e \notin real
      <3>1. e \in DOMAIN g
        BY <1>1, <2>3
      <3>2. e \notin edges
        BY <1>4, <2>3, <3>1
      <3> QED BY <1>2, <1>3, <1>4, <2>3, <3>1, <3>2
    <2> QED BY <2>1, <2>2, <2>3
  <1>6. ASSUME NEW e, e[1] # e[3], W(e) # {} PROVE e \in DOMAIN new
    BY <1>1, <1>3, <1>4, <1>6
  <1> QED BY <1>5, <1>6 DEF GWeighs, W, new

\* Evidence of one message and source is there once that source is read.
LEMMA GHeard ==
    ASSUME NEW N, NEW Q, NEW Z, NEW heard, NEW m
    PROVE  /\ \A e : <<m, "header">> \in GFound(e, N, Q, Z, heard) <=> m \in N /\ e \in G!HeaderEdges(m)
           /\ \A e : <<m, "tag">> \in GFound(e, N, Q, Z, heard) <=> m \in Q /\ e \in G!TagEdges(m)
           /\ \A e : <<m, "body">> \in GFound(e, N, Q, Z, heard) <=> m \in Z /\ e \in heard[m]
  BY DEF GFound

\* Messages reach the index and the tags; header relations are written with them.
LEMMA GIndexes ==
    ASSUME G!ParamAssumption, GInv, NEW m \in ForGraph.Mail, G!Index(m) PROVE GInv'
  <1>1. m \notin x4 /\ x4' = x4 \cup {m} /\ x7' = G!Linked(x7, G!HeaderEdges(m), m, TRUE) /\ m \in Nat
    BY GMail DEF G!Index
  <1>2. UNCHANGED <<x1, x2, x3, x5, x6, x8, x9, x10, x11>>
    BY DEF G!Index, G!mailbox
  <1>3. \A e : <<m, "header">> \notin GFound(e, x4, x5, x6, x9)
    BY <1>1, GHeard
  <1>4. \A e : GFound(e, x4 \cup {m}, x5, x6, x9) =
               IF e \in G!HeaderEdges(m) THEN GFound(e, x4, x5, x6, x9) \cup {<<m, "header">>} ELSE GFound(e, x4, x5, x6, x9)
    BY DEF GFound
  <1>5. GWeighs(G!Linked(x7, G!HeaderEdges(m), m, TRUE), x4 \cup {m}, x5, x6, x9)
    <2>1. GWeighs(x7, x4, x5, x6, x9) /\ TRUE \in BOOLEAN /\ (TRUE <=> "header" # "body")
      BY DEF GInv
    <2> QED BY <1>1, <1>3, <1>4, <2>1, GLinks, Zenon
  <1>6. GTypes'
    BY <1>1, <1>2 DEF GInv, GTypes, G!TypeOK
  <1>7. GCalls'
    BY <1>2 DEF GInv, GCalls, GAsked
  <1> QED BY <1>1, <1>2, <1>5, <1>6, <1>7 DEF GInv

\* The tags of several messages, one after the other.
LEMMA GTagsWritten ==
    ASSUME G!ParamAssumption, GInv, NEW iter, IsFold("tags", x7, G!TagClaimed, iter), IsFiniteSet(G!TagClaimed)
    PROVE  GWeighs(iter[G!TagClaimed], x4, x5 \cup G!TagClaimed, x6, x9)
  <1> DEFINE K == G!TagClaimed
             Kept(s) == GWeighs(iter[s], x4, x5 \cup s, x6, x9)
             Bad == {k \in Nat : \E s \in SUBSET K : Cardinality(s) = k /\ ~Kept(s)}
  <1>1. K \cap x5 = {} /\ K \subseteq Nat
    BY GMail DEF G!TagClaimed, GInv, GTypes, G!TypeOK
  <1>2. \A s \in SUBSET K : iter[s] = IF s = {} THEN x7 ELSE FoldStep("tags", iter[s \ {Pick("tags", s)}], Pick("tags", s))
    BY DEF IsFold
  <1>3. \A s \in SUBSET K : IsFiniteSet(s) /\ Cardinality(s) \in Nat
    BY FS_Subset, FS_CardinalityType
  <1> HIDE DEF K
  <1>4. 0 \notin Bad
    <2>1. ASSUME NEW s \in SUBSET K, Cardinality(s) = 0 PROVE Kept(s)
      <3>1. s = {}
        BY <1>3, <2>1, FS_EmptySet
      <3>2. iter[s] = x7 /\ x5 \cup s = x5
        BY <1>2, <3>1
      <3> QED BY <3>2 DEF GInv
    <2> QED BY <2>1
  <1>5. ASSUME NEW k \in Nat, k \notin Bad PROVE k + 1 \notin Bad
    <2>1. ASSUME NEW s \in SUBSET K, Cardinality(s) = k + 1 PROVE Kept(s)
      <3> DEFINE m == Pick("tags", s)
                 r == s \ {m}
      <3>1. s # {} /\ m \in s
        BY <1>3, <2>1, FS_EmptySet DEF Pick
      <3>2. r \in SUBSET K /\ Cardinality(r) = k /\ m \in Nat /\ s = r \cup {m} /\ m \notin r /\ m \notin x5
        <4>1. Cardinality(r) = Cardinality(s) - 1
          BY <1>3, <3>1, FS_RemoveElement
        <4>2. m \in K
          BY <3>1
        <4> HIDE DEF m
        <4> QED BY <1>1, <2>1, <3>1, <4>1, <4>2
      <3>3. Kept(r)
        BY <1>5, <3>2
      <3>4. iter[s] = G!Linked(iter[r], G!TagEdges(m), m, TRUE)
        BY <1>2, <3>1 DEF FoldStep
      <3> HIDE DEF m, r
      <3>5. \A e : <<m, "tag">> \notin GFound(e, x4, x5 \cup r, x6, x9)
        <4>1. m \notin x5 \cup r
          BY <3>2
        <4> QED BY <4>1 DEF GFound
      <3>6. \A e : GFound(e, x4, x5 \cup s, x6, x9) =
                   IF e \in G!TagEdges(m) THEN GFound(e, x4, x5 \cup r, x6, x9) \cup {<<m, "tag">>}
                   ELSE GFound(e, x4, x5 \cup r, x6, x9)
        BY <3>2 DEF GFound
      <3>7. TRUE \in BOOLEAN /\ (TRUE <=> "tag" # "body")
        OBVIOUS
      <3>8. GWeighs(iter[r], x4, x5 \cup r, x6, x9)
        BY <3>3
      <3>9. GWeighs(G!Linked(iter[r], G!TagEdges(m), m, TRUE), x4, x5 \cup s, x6, x9)
        BY <3>2, <3>5, <3>6, <3>7, <3>8, GLinks, Zenon
      <3> QED BY <3>4, <3>9
    <2> QED BY <2>1
  <1>6. Bad = {}
    <2>1. Bad \in SUBSET Nat
      OBVIOUS
    <2> HIDE DEF Bad
    <2> QED BY <1>4, <1>5, <2>1, NoCounterexample
  <1>7. Kept(K)
    BY <1>3, <1>6
  <1> QED BY <1>7 DEF K

\* A tick reads the tags of several messages (kg.go:196-260).
LEMMA GReadsTags == ASSUME G!ParamAssumption, GInv, G!ReadTags PROVE GInv'
  <1>1. G!TagClaimed \subseteq x4 /\ x4 \subseteq ForGraph.Mail
    BY DEF G!TagClaimed, GInv, GTypes, G!TypeOK
  <1>2. IsFiniteSet(G!TagClaimed)
    BY <1>1, GMail, FS_Subset
  <1>3. PICK iter : IsFold("tags", x7, G!TagClaimed, iter) /\ x7' = iter[G!TagClaimed]
    BY <1>2, TagsFold DEF G!ReadTags
  <1>4. x5' = x5 \cup G!TagClaimed /\ UNCHANGED <<x1, x2, x3, x4, x6, x9, x10, x11>>
    BY DEF G!ReadTags, G!mailbox
  <1>5. x8' = [x8 EXCEPT !.step = "tagged"] /\ x8.step = "index"
    BY DEF G!ReadTags
  <1>6. GWeighs(x7', x4', x5', x6', x9')
    BY <1>2, <1>3, <1>4, GTagsWritten
  <1>7. GTypes'
    BY <1>1, <1>4, <1>5 DEF GInv, GTypes, G!TypeOK, GTick
  <1>8. GCalls'
    BY <1>4, <1>5 DEF GInv, GCalls, GAsked, GTypes, GTick
  <1> QED BY <1>6, <1>7, <1>8 DEF GInv

\* The body that is with the model has not been read.
LEMMA GStoresExtracted == ASSUME G!ParamAssumption, GInv, G!StoreExtracted PROVE GInv'
  <1> DEFINE m == Head(x8.todo)
  <1>1. x8.step = "answered" /\ x8.todo # <<>> /\ m \in x4 \ x6 /\ x8 \in GTick /\ m \in Nat
    BY GMail DEF GInv, GTypes, G!StoreExtracted, G!TypeOK
  <1>2. x6' = x6 \cup {m} /\ x7' = G!Linked(x7, x9[m], m, FALSE)
    BY <1>1 DEF G!StoreExtracted
  <1>3. UNCHANGED <<x1, x2, x3, x4, x5, x9, x10, x11>>
    BY DEF G!StoreExtracted, G!mailbox
  <1>4. x8' = [x8 EXCEPT !.step = "read", !.todo = Tail(@), !.done = @ + 1]
    BY DEF G!StoreExtracted
  <1>5. x8' \in GTick /\ x8'.step = "read"
    <2> DEFINE t == Tail(x8.todo)
    <2>1. t \in Seq(ForGraph.Mail)
      BY <1>1, HeadTailProperties DEF GTick
    <2>2. x8' = [x8 EXCEPT !.step = "read", !.todo = t, !.done = x8.done + 1] /\ x8.done + 1 \in Nat
      BY <1>1, <1>4 DEF GTick
    <2> HIDE DEF t
    <2> QED BY <1>1, <2>1, <2>2 DEF GTick
  <1> HIDE DEF m
  <1>6. \A e : <<m, "body">> \notin GFound(e, x4, x5, x6, x9)
    BY <1>1, GHeard, Zenon
  <1>7. \A e : GFound(e, x4, x5, x6 \cup {m}, x9) =
               IF e \in x9[m] THEN GFound(e, x4, x5, x6, x9) \cup {<<m, "body">>} ELSE GFound(e, x4, x5, x6, x9)
    BY DEF GFound
  <1>8. GWeighs(G!Linked(x7, x9[m], m, FALSE), x4, x5, x6 \cup {m}, x9)
    <2>1. GWeighs(x7, x4, x5, x6, x9) /\ FALSE \in BOOLEAN /\ (FALSE <=> "body" # "body")
      BY DEF GInv
    <2> QED BY <1>1, <1>6, <1>7, <2>1, GLinks, Zenon
  <1>9. GTypes'
    BY <1>1, <1>2, <1>3, <1>5 DEF GInv, GTypes, G!TypeOK
  <1>10. GCalls'
    BY <1>1, <1>2, <1>3, <1>5 DEF GInv, GCalls, GAsked, m
  <1> QED BY <1>2, <1>3, <1>8, <1>9, <1>10 DEF GInv

\* What the model says of a body that is not read is no evidence yet.
LEMMA GAnswers == ASSUME G!ParamAssumption, GInv, G!ModelAnswers PROVE GInv'
  <1> DEFINE m == Head(x8.todo)
  <1>1. x8.step = "read" /\ x8.todo # <<>> /\ m \in x4 \ x6 /\ x8 \in GTick /\ m \in ForGraph.Mail
    BY DEF GInv, GTypes, G!ModelAnswers, G!ReadsOn, G!Readable, G!TypeOK
  <1>2. PICK said : x9' = [x9 EXCEPT ![m] = said]
    BY DEF G!ModelAnswers
  <1>3. UNCHANGED <<x1, x2, x3, x4, x5, x6, x7, x11>> /\ x10' = [x10 EXCEPT ![m] = @ + 1]
    BY DEF G!ModelAnswers, G!Asked, G!mailbox, G!store
  <1>4. x8' = [x8 EXCEPT !.step = "answered"]
    BY DEF G!ModelAnswers
  <1>5. x8' \in GTick /\ x8'.step = "answered" /\ x8'.todo = x8.todo /\ Head(x8'.todo) = m
    BY <1>1, <1>4 DEF GTick
  <1> HIDE DEF m
  <1>6. DOMAIN x9' = ForGraph.Mail /\ \A n \in x6 : x9'[n] = x9[n]
    BY <1>1, <1>2 DEF GInv, GTypes, G!TypeOK
  <1>7. \A e : GFound(e, x4, x5, x6, x9') = GFound(e, x4, x5, x6, x9)
    BY <1>6 DEF GFound
  <1>8. GWeighs(x7, x4, x5, x6, x9')
    BY <1>7 DEF GInv, GWeighs
  <1>9. GTypes'
    BY <1>1, <1>3, <1>5, <1>6 DEF GInv, GTypes, G!TypeOK
  <1>10. GCalls'
    BY <1>1, <1>3, <1>5 DEF GInv, GCalls, GAsked, GTypes, G!TypeOK, m
  <1> QED BY <1>3, <1>8, <1>9, <1>10 DEF GInv

\* Age says nothing about evidence.
LEMMA GMarksStale == ASSUME G!ParamAssumption, GInv, G!MarkStale PROVE GInv'
  <1>1. x7' = [e \in DOMAIN x7 |-> [x7[e] EXCEPT !.stale = G!Stale(x7[e])]]
    BY DEF G!MarkStale
  <1>2. x8' = G!Rest /\ x8.step = "read" /\ UNCHANGED <<x1, x2, x3, x4, x5, x6, x9, x10, x11>>
    BY DEF G!MarkStale, G!mailbox
  <1>3. ASSUME NEW row, NEW H, GFits(row, H) PROVE GFits([row EXCEPT !.stale = G!Stale(row)], H)
    <2>1. G!Stale(row) \in BOOLEAN
      BY DEF G!Stale, G!Old
    <2>2. row \in GRow
      BY <1>3 DEF GFits
    <2> DEFINE s == G!Stale(row)
               new == [row EXCEPT !.stale = s]
    <2> HIDE DEF s
    <2>3. /\ new \in GRow /\ new.weight = row.weight /\ new.from = row.from /\ new.last = row.last
          /\ new.sure = row.sure
      BY <2>1, <2>2 DEF GRow, s
    <2> HIDE DEF new
    <2>4. GFits(new, H)
      BY <1>3, <2>3 DEF GFits
    <2> QED BY <2>4 DEF new, s
  <1>4. GWeighs(x7', x4, x5, x6, x9)
    <2>1. \A e \in DOMAIN x7 : GFits(x7'[e], GFound(e, x4, x5, x6, x9))
      BY <1>1, <1>3 DEF GInv, GWeighs
    <2>2. DOMAIN x7' = DOMAIN x7
      BY <1>1
    <2> QED BY <2>1, <2>2 DEF GInv, GWeighs
  <1>5. GTypes'
    BY <1>2 DEF GInv, GTypes, G!TypeOK, GTick, G!Rest
  <1>6. GCalls'
    BY <1>2 DEF GInv, GCalls, GAsked, G!Rest
  <1> QED BY <1>2, <1>4, <1>5, <1>6 DEF GInv

\* The steps that only move the pass on, or happen around it.
LEMMA GOthers ==
    ASSUME G!ParamAssumption, GInv,
           \/ G!StartTick \/ G!PickBodies \/ G!PassOver \/ G!Gated \/ G!Break \/ G!Pass
           \/ \E m \in ForGraph.Mail : G!Sync(m) \/ G!Enrich(m)
    PROVE  GInv'
  <1>1. UNCHANGED <<x4, x5, x6, x7, x9, x10>>
    BY DEF G!StartTick, G!PickBodies, G!PassOver, G!Gated, G!Break, G!Pass, G!Sync, G!Enrich, G!store
  <1>2. x1' \in 0..ForGraph.MaxNow /\ x3' \subseteq x2' /\ x2' \subseteq ForGraph.Mail /\ x11' \in 0..ForGraph.MaxFaults
    <2>1. CASE G!StartTick \/ G!PickBodies \/ G!PassOver \/ G!Gated
      BY <2>1 DEF GInv, GTypes, G!TypeOK, G!StartTick, G!PickBodies, G!PassOver, G!Gated, G!mailbox
    <2>2. CASE G!Break
      BY <2>2, GMail DEF GInv, GTypes, G!TypeOK, G!Break, G!mailbox
    <2>3. CASE G!Pass
      BY <2>3, GMail DEF GInv, GTypes, G!TypeOK, G!Pass
    <2>4. CASE \E m \in ForGraph.Mail : G!Sync(m) \/ G!Enrich(m)
      BY <2>4 DEF GInv, GTypes, G!TypeOK, G!Sync, G!Enrich
    <2> QED BY <2>1, <2>2, <2>3, <2>4
  <1>3. x8' \in GTick /\ (x8'.step = "answered" => x8' = x8 /\ x11' = x11)
    <2>0. x8 \in GTick
      BY DEF GInv, GTypes
    <2>1. CASE G!StartTick
      BY <2>0, <2>1 DEF G!StartTick, GTick
    <2>2. CASE G!PickBodies
      <3>1. PICK todo \in G!NewestFirst(G!Newest(x3 \cap ForGraph.Letters, ForGraph.Reach)) :
              x8' = [x8 EXCEPT !.step = "read", !.todo = todo]
        BY <2>2 DEF G!PickBodies
      <3>2. G!Newest(x3 \cap ForGraph.Letters, ForGraph.Reach) \subseteq ForGraph.Mail
        BY DEF G!Newest, GInv, GTypes, G!TypeOK
      <3>3. IsFiniteSet(G!Newest(x3 \cap ForGraph.Letters, ForGraph.Reach))
        BY <3>2, GMail, FS_Subset
      <3>4. G!Cardinality(G!Newest(x3 \cap ForGraph.Letters, ForGraph.Reach)) \in Nat
        BY <3>3, GMail, FS_CardinalityType
      <3>5. todo \in Seq(ForGraph.Mail)
        <4> DEFINE N == G!Newest(x3 \cap ForGraph.Letters, ForGraph.Reach)
        <4>1. todo \in [1..G!Cardinality(N) -> N]
          BY <3>1 DEF G!NewestFirst
        <4> HIDE DEF N
        <4>2. G!Cardinality(N) \in Nat /\ N \subseteq ForGraph.Mail
          BY <3>2, <3>4 DEF N
        <4>3. \E n \in Nat : todo \in [1..n -> N]
          BY <4>1, <4>2
        <4>4. todo \in Seq(N)
          BY <4>3, SeqDef, Zenon
        <4> QED BY <4>2, <4>4, SeqMonotonic
      <3> QED BY <2>0, <3>1, <3>5 DEF GTick
    <2>3. CASE G!PassOver
      <3>1. x8.todo # <<>> /\ x8.step = "read" /\ x8' = [x8 EXCEPT !.todo = Tail(@)]
        BY <2>3 DEF G!PassOver, G!ReadsOn
      <3>2. Tail(x8.todo) \in Seq(ForGraph.Mail)
        BY <2>0, <3>1, HeadTailProperties DEF GTick
      <3> QED BY <2>0, <3>1, <3>2 DEF GTick
    <2>4. CASE G!Gated
      <3>1. <<>> \in Seq(ForGraph.Mail)
        OBVIOUS
      <3> QED BY <2>0, <2>4, <3>1 DEF G!Gated, G!ReadsOn, GTick
    <2>5. CASE G!Break
      BY <2>5 DEF G!Break, G!Rest, GTick
    <2>6. CASE G!Pass \/ \E m \in ForGraph.Mail : G!Sync(m) \/ G!Enrich(m)
      BY <2>0, <2>6 DEF G!Pass, G!Sync, G!Enrich
    <2> QED BY <2>1, <2>2, <2>3, <2>4, <2>5, <2>6
  <1>4. GTypes'
    BY <1>1, <1>2, <1>3 DEF GInv, GTypes, G!TypeOK, GTick
  <1>5. GCalls'
    <2>1. CASE x8.step = "answered" /\ x8' # x8
      <3>1. G!Break
        BY <2>1 DEF G!StartTick, G!PickBodies, G!PassOver, G!Gated, G!Pass, G!Sync, G!Enrich, G!ReadsOn
      <3>2. x11' = x11 + 1 /\ x8'.step = "rest"
        BY <3>1 DEF G!Break, G!Rest
      <3> QED BY <1>1, <3>2 DEF GInv, GCalls, GAsked, GTypes, G!TypeOK
    <2>2. CASE x8.step # "answered" \/ x8' = x8
      <3>1. x11' \in {x11, x11 + 1}
        BY DEF G!StartTick, G!PickBodies, G!PassOver, G!Gated, G!Break, G!Pass, G!Sync, G!Enrich
      <3>2. \A m \in ForGraph.Mail : GAsked(m)' <=> GAsked(m)
        BY <1>1, <1>3, <2>2 DEF GAsked
      <3>3. x11 \in Nat /\ x10 \in [ForGraph.Mail -> Nat]
        BY DEF GInv, GTypes, G!TypeOK
      <3> QED BY <1>1, <3>1, <3>2, <3>3 DEF GInv, GCalls
    <2> QED BY <2>1, <2>2
  <1>6. GWeighs(x7', x4', x5', x6', x9')
    BY <1>1 DEF GInv
  <1> QED BY <1>4, <1>5, <1>6 DEF GInv

\* At the start nothing speaks for anything and the graph is empty.
LEMMA GInit == ASSUME G!ParamAssumption, G!Init PROVE GInv
  <1>1. GTypes
    BY GMail DEF G!Init, GTypes, G!TypeOK, GTick, G!Rest
  <1>2. GCalls
    BY GMail DEF G!Init, GCalls
  <1>3. \A e : GFound(e, x4, x5, x6, x9) = {}
    BY DEF G!Init, GFound
  <1>4. DOMAIN x7 = {}
    BY DEF G!Init
  <1> QED BY <1>1, <1>2, <1>3, <1>4 DEF GInv, GWeighs

\* Every step keeps the graph's books.
LEMMA GNext == ASSUME G!ParamAssumption, GInv, G!Next PROVE GInv'
  BY GIndexes, GReadsTags, GStoresExtracted, GAnswers, GMarksStale, GOthers DEF G!Next, G!Tick

\* The row of a relation says what its evidence says.
LEMMA GRowsRight == ASSUME G!ParamAssumption, GInv PROVE G!EvidenceOnce
  <1> SUFFICES ASSUME NEW e \in DOMAIN x7
               PROVE  /\ x7[e].weight = G!Cardinality(G!Evidence(e))
                      /\ x7[e].from = G!Min({v[1] : v \in G!Evidence(e)})
                      /\ x7[e].last = G!Max({v[1] : v \in G!Evidence(e)})
                      /\ x7[e].sure <=> \E v \in G!Evidence(e) : v[2] # "body"
    BY DEF G!EvidenceOnce
  <1>1. G!Evidence(e) = GFound(e, x4, x5, x6, x9)
    BY DEF G!Evidence, GFound
  <1>2. GFits(x7[e], G!Evidence(e))
    BY <1>1 DEF GInv, GWeighs
  <1> DEFINE dates == {v[1] : v \in G!Evidence(e)}
  <1>3. x7[e].from \in Nat /\ x7[e].last \in Nat /\ dates \subseteq Nat
    BY <1>2 DEF GFits, GRow
  <1>4. x7[e].from \in dates /\ (\A d \in dates : x7[e].from <= d)
    BY <1>2 DEF GFits
  <1>5. x7[e].last \in dates /\ (\A d \in dates : x7[e].last >= d)
    BY <1>2 DEF GFits
  <1> HIDE DEF dates
  <1>6. x7[e].from = G!Min(dates) /\ x7[e].last = G!Max(dates)
    <2>1. \A d \in dates : (\A c \in dates : d <= c) => d = x7[e].from
      BY <1>3, <1>4
    <2>2. \A d \in dates : (\A c \in dates : d >= c) => d = x7[e].last
      BY <1>3, <1>5
    <2> QED BY <1>4, <1>5, <2>1, <2>2 DEF G!Min, G!Max
  <1>7. x7[e].weight = G!Cardinality(G!Evidence(e)) /\ (x7[e].sure <=> \E v \in G!Evidence(e) : v[2] # "body")
    BY <1>2, GMail DEF GFits
  <1> QED BY <1>6, <1>7 DEF dates

\* A body is not with the model twice, a break-off aside.
LEMMA GReadOnce == ASSUME GInv PROVE G!ReadOnce
  BY DEF GInv, GTypes, GCalls, G!ReadOnce, G!TypeOK

-----------------------------------------------------------------------------
(* The scan.  The invariant ties three things together that the properties *)
(* do not mention: where a message lies now, what its owner did with it,   *)
(* and what the index and the batch under way still believe of it.         *)

SRow == [present: BOOLEAN, valid: Nat, last: 0..ForScan.MaxUID, complete: BOOLEAN]

SFolderFits(b) ==
    /\ DOMAIN b = {"valid", "next", "mail"}
    /\ b.valid \in Nat /\ b.next \in 1..(ForScan.MaxUID + 1)
    /\ DOMAIN b.mail \subseteq 1..(b.next - 1) /\ \A u \in DOMAIN b.mail : b.mail[u] \in ForScan.Mail
SBox == DOMAIN x1 = ForScan.Folder /\ \A f \in ForScan.Folder : SFolderFits(x1[f])

\* A message is in one folder at most, and one that was taken from Junk or a
\* hold folder and not kept is in a discard folder.
SMail ==
    /\ x2 \subseteq ForScan.Folder /\ x3 \subseteq ForScan.Mail
    /\ x4 \in [ForScan.Mail -> {"", "taken", "rescued"}] /\ x5 \in 0..ForScan.MaxChanges
    /\ \A f \in ForScan.Folder : \A m \in S!At(f) :
          /\ m \in x3 /\ \A g \in ForScan.Folder : m \in S!At(g) => f = g
          /\ x4[m] = "taken" => S!Discarded(f)
    /\ \A m \in ForScan.Mail : x4[m] # "" => m \in x3

\* A message is nowhere but in folder f.
SOnlyIn(m, f) == \A g \in ForScan.Folder : m \in S!At(g) => g = f

SRows == DOMAIN x6 = ForScan.Folder /\ DOMAIN x7 = ForScan.Folder /\ \A f \in ForScan.Folder : x6[f] \in SRow /\ x7[f] \in SRow

\* The index: of a message last seen in Junk or a hold folder, and not taken
\* from there, the index knows the only place it can be.
SIndex(ix) ==
    /\ IsFiniteSet(DOMAIN ix)
    /\ \A k \in DOMAIN ix :
          /\ k[1] \in x3 /\ (ForScan.Header[k[1]].id => k = <<k[1]>>)
          /\ ix[k] \in [folder: ForScan.Folder, paired: BOOLEAN]
          /\ S!RescueFrom(ix[k].folder) /\ x4[k[1]] = "" => SOnlyIn(k[1], ix[k].folder)

\* The profiles: counts, and where trust comes from.
SAnswers(a) == {m \in ForScan.Mail : S!Outgoing(m) /\ ForScan.Header[m].answers \in {n \in ForScan.Mail : ForScan.Header[n].from = a}}
SPaired(ix, a) == {k \in DOMAIN ix : k[1] \in SAnswers(a) /\ ix[k].paired}
SFrom(ix, a) == {m \in ForScan.Mail : ForScan.Header[m].from = a /\ <<m>> \in DOMAIN ix}
SSenders(ix, ps) ==
    /\ ps \in [ForScan.Address -> S!Profile]
    /\ \A a \in ForScan.Address :
          /\ ps[a].trusted => \E m \in ForScan.Mail : ForScan.Header[m].from = a /\ x4[m] = "rescued"
          /\ ps[a].replies <= Cardinality(SPaired(ix, a))
          /\ a \notin ForScan.Own /\ (\A m \in ForScan.Mail : ForScan.Header[m].from = a => ForScan.Header[m].id) =>
                 ps[a].received = Cardinality(SFrom(ix, a))

\* The conversations: the message kept is there and none that is indexed is newer.
SJoins(m) == IF S!Outgoing(m) THEN \E i \in DOMAIN ForScan.Header[m].to : ForScan.Header[m].to[i] \notin ForScan.Own
             ELSE ForScan.Header[m].conversation
SLatest(th, m) == SJoins(m) => ForScan.Header[m].thread \in DOMAIN th /\ ~S!Newer(m, th[ForScan.Header[m].thread])
SThreads(ix, th) ==
    /\ \A r \in DOMAIN th : th[r] \in ForScan.Mail
    /\ \A k \in DOMAIN ix : SLatest(th, k[1])

STables(ix, ps, th) == SIndex(ix) /\ SSenders(ix, ps) /\ SThreads(ix, th)

\* The scanner's locals, and what the batch under way still believes: its mail
\* is where it was fetched from, or its owner took it from there.
SBatchFits(b) ==
    /\ \E n \in Nat : DOMAIN b = 1..n
    /\ \A i \in DOMAIN b : DOMAIN b[i] = {"uid", "mail"} /\ b[i].uid \in 1..ForScan.MaxUID /\ b[i].mail \in x3
SBelieves(ix, f, m) ==
    /\ S!RescueFrom(f) /\ x4[m] = "" => SOnlyIn(m, f)
    /\ \A k \in DOMAIN ix : k[1] = m /\ S!RescueFrom(ix[k].folder) /\ ix[k].folder # f /\ ~S!Discarded(f) => x4[m] = "rescued"
SBatch(ix) ==
    x12.step \in {"apply", "locapply"} =>
        SBatchFits(x12.batch) /\ \A i \in DOMAIN x12.batch : SBelieves(ix, x12.folder, x12.batch[i].mail)
SLocals ==
    /\ DOMAIN x12 = {"step", "todo", "locate", "folder", "valid", "after", "batch", "batchValid", "more", "active", "corr"}
    /\ x12.step \in {"idle", "folders", "fetch", "apply", "locate", "locfetch", "locapply"}
    /\ x12.todo \subseteq ForScan.Folder /\ x12.locate \subseteq ForScan.Folder
    /\ x12.valid \in Nat /\ x12.batchValid \in Nat /\ x12.after \in 0..ForScan.MaxUID
    /\ x12.step \in {"fetch", "apply", "locfetch", "locapply"} => x12.folder \in ForScan.Folder

SInv == SBox /\ SMail /\ SRows /\ STables(x8, x9, x11) /\ SLocals /\ SBatch(x8)

\* What the assumption says of the constants, field by field.
LEMMA SConstants ==
    ASSUME S!ScanAssumption
    PROVE  /\ IsFiniteSet(ForScan.Mail) /\ ForScan.NoMail \notin ForScan.Mail /\ ForScan.Own \subseteq ForScan.Address
           /\ ForScan.Listing \in Seq(ForScan.Folder) /\ \A f \in ForScan.Folder : \E i \in DOMAIN ForScan.Listing : ForScan.Listing[i] = f
           /\ ForScan.MaxUID \in Nat /\ ForScan.MaxChanges \in Nat /\ ForScan.BatchSize \in Nat
           /\ \A m \in ForScan.Mail :
                 /\ ForScan.Header[m].from \in ForScan.Address /\ ForScan.Header[m].id \in BOOLEAN
                 /\ ForScan.Header[m].thread \in ForScan.Mail /\ ForScan.Header[m].date \in Nat
           /\ \A f \in ForScan.Folder : Cardinality({m \in ForScan.Mail : ForScan.Placed[m] = f}) <= ForScan.MaxUID
           /\ \A S0 : S!Cardinality(S0) = Cardinality(S0)
  <1>1. \A S0 : S!Cardinality(S0) = Cardinality(S0)
    BY Zenon DEF S!Cardinality, Cardinality
  <1>2. \A S0 : S!IsFiniteSet(S0) <=> IsFiniteSet(S0)
    BY Zenon DEF S!IsFiniteSet, IsFiniteSet
  <1>3. \A f \in ForScan.Folder : \E i \in DOMAIN ForScan.Listing : ForScan.Listing[i] = f
    BY DEF S!ScanAssumption, S!Range
  <1>4. \A m \in ForScan.Mail : ForScan.Header[m] \in S!HeaderType
    BY DEF S!ScanAssumption
  <1>5. \A m \in ForScan.Mail : /\ ForScan.Header[m].from \in ForScan.Address /\ ForScan.Header[m].id \in BOOLEAN
                               /\ ForScan.Header[m].thread \in ForScan.Mail /\ ForScan.Header[m].date \in Nat
    BY <1>4 DEF S!HeaderType
  <1>6. \A f \in ForScan.Folder : Cardinality({m \in ForScan.Mail : ForScan.Placed[m] = f}) <= ForScan.MaxUID
    BY <1>1 DEF S!ScanAssumption
  <1> QED BY <1>1, <1>2, <1>3, <1>5, <1>6 DEF S!ScanAssumption

\* The highest of some numbers up to n is one of them.
LEMMA SMaxIn == ASSUME NEW n \in Nat, NEW Q \in SUBSET (0..n), Q # {} PROVE S!Max(Q) \in Q
  <1>1. Q \in SUBSET Nat /\ \A y \in Q : y <= n
    OBVIOUS
  <1>2. PICK x \in Q : \A y \in Q : x >= y
    BY <1>1, GreatestExists
  <1> QED BY <1>2 DEF S!Max

\* The next folder of a tick is one of those left.
LEMMA SFirst == ASSUME S!ScanAssumption, NEW Q \in SUBSET ForScan.Folder, Q # {} PROVE S!First(Q) \in Q
  <1> DEFINE N == {i \in DOMAIN ForScan.Listing : ForScan.Listing[i] \in Q}
  <1>1. N \in SUBSET Nat /\ N # {}
    BY SConstants
  <1>2. PICK x \in N : \A y \in N : x <= y
    BY <1>1, LeastExists
  <1>3. S!Min(N) \in N
    BY <1>2 DEF S!Min
  <1> QED BY <1>3 DEF S!First

\* A folder numbered afresh holds nothing new.
LEMMA SFilled ==
    ASSUME S!ScanAssumption, NEW v \in Nat, NEW mails \in SUBSET ForScan.Mail, Cardinality(mails) <= ForScan.MaxUID
    PROVE  /\ SFolderFits(S!Filled(v, mails))
           /\ \A u \in DOMAIN S!Filled(v, mails).mail : S!Filled(v, mails).mail[u] \in mails
  <1> DEFINE n == Cardinality(mails)
  <1>1. IsFiniteSet(mails) /\ n \in Nat /\ ExistsBijection(1..n, mails)
    BY SConstants, FS_Subset, FS_CardinalityType
  <1>2. S!Cardinality(mails) = n
    BY SConstants
  <1>3. \E g \in [1..n -> mails] : S!IsInjective(g)
    <2>1. PICK g : g \in Bijection(1..n, mails)
      BY <1>1 DEF ExistsBijection
    <2>2. g \in [1..n -> mails] /\ \A a, b \in 1..n : g[a] = g[b] => a = b
      BY <2>1 DEF Bijection, Injection, Surjection, IsInjective
    <2> QED BY <2>2 DEF S!IsInjective
  <1>4. S!SetToSeq(mails) \in [1..n -> mails]
    BY <1>2, <1>3 DEF S!SetToSeq
  <1> DEFINE b == [valid |-> v, next |-> n + 1, mail |-> S!SetToSeq(mails)]
  <1>5. S!Filled(v, mails) = b
    BY <1>2 DEF S!Filled
  <1>6. DOMAIN b.mail = 1..n /\ \A u \in 1..n : b.mail[u] \in mails
    BY <1>4
  <1>7. SFolderFits(b)
    BY <1>1, <1>6, SConstants DEF SFolderFits
  <1> QED BY <1>5, <1>6, <1>7

\* A folder holds no more messages than it has handed out UIDs.
LEMMA SFewMails ==
    ASSUME S!ScanAssumption, SBox, NEW f \in ForScan.Folder
    PROVE  S!At(f) \in SUBSET ForScan.Mail /\ Cardinality(S!At(f)) <= ForScan.MaxUID
  <1> DEFINE K == DOMAIN x1[f].mail
             g == [u \in K |-> x1[f].mail[u]]
             n == x1[f].next - 1
  <1>1. n \in Nat /\ n <= ForScan.MaxUID /\ K \subseteq 1..n /\ \A u \in K : x1[f].mail[u] \in ForScan.Mail
    <2>1. SFolderFits(x1[f]) /\ ForScan.MaxUID \in Nat
      BY SConstants DEF SBox
    <2>2. x1[f].next \in 1..(ForScan.MaxUID + 1)
      BY <2>1 DEF SFolderFits
    <2>3. n \in Nat /\ n <= ForScan.MaxUID
      BY <2>1, <2>2
    <2>4. K \subseteq 1..n /\ \A u \in K : x1[f].mail[u] \in ForScan.Mail
      BY <2>1 DEF SFolderFits
    <2> QED BY <2>3, <2>4
  <1>2. IsFiniteSet(1..n) /\ Cardinality(1..n) = n
    <2> HIDE DEF n
    <2>1. n \in Nat
      BY <1>1
    <2>2. IsFiniteSet(1..n)
      BY <2>1, FS_Interval
    <2>3. Cardinality(1..n) = IF 1 > n THEN 0 ELSE n - 1 + 1
      BY <2>1, FS_Interval
    <2> QED BY <2>1, <2>2, <2>3
  <1>3. IsFiniteSet(K) /\ Cardinality(K) <= n
    BY <1>1, <1>2, FS_Subset
  <1>4. S!At(f) = {x1[f].mail[u] : u \in K}
    BY DEF S!At, S!Range
  <1>5. g \in Surjection(K, S!At(f))
    BY <1>4 DEF Surjection
  <1>6. IsFiniteSet(S!At(f)) /\ Cardinality(S!At(f)) <= Cardinality(K) /\ Cardinality(K) \in Nat
    BY <1>3, <1>5, FS_Surjection, FS_CardinalityType
  <1>7. Cardinality(S!At(f)) \in Nat
    BY <1>6, FS_CardinalityType
  <1>8. S!At(f) \in SUBSET ForScan.Mail
    BY <1>1, <1>4
  <1>9. ForScan.MaxUID \in Nat
    BY SConstants
  <1> HIDE DEF K, g, n
  <1> QED BY <1>1, <1>3, <1>6, <1>7, <1>8, <1>9

\* Every folder starts with what is placed in it.
LEMMA SBoxInit ==
    ASSUME S!ScanAssumption, x1 = [f \in ForScan.Folder |-> S!Filled(1, {m \in ForScan.Mail : ForScan.Placed[m] = f})]
    PROVE  SBox /\ \A f \in ForScan.Folder : S!At(f) \subseteq {m \in ForScan.Mail : ForScan.Placed[m] = f}
  <1>1. ASSUME NEW f \in ForScan.Folder
        PROVE  SFolderFits(x1[f]) /\ S!At(f) \subseteq {m \in ForScan.Mail : ForScan.Placed[m] = f}
    <2> DEFINE mails == {m \in ForScan.Mail : ForScan.Placed[m] = f}
    <2>1. Cardinality(mails) <= ForScan.MaxUID
      BY SConstants
    <2>2. x1[f] = S!Filled(1, mails)
      OBVIOUS
    <2>3. /\ SFolderFits(S!Filled(1, mails))
          /\ \A u \in DOMAIN S!Filled(1, mails).mail : S!Filled(1, mails).mail[u] \in mails
      <3> HIDE DEF mails
      <3>1. mails \in SUBSET ForScan.Mail
        BY DEF mails
      <3> QED BY <2>1, <3>1, SFilled
    <2> HIDE DEF mails
    <2>4. SFolderFits(x1[f]) /\ S!At(f) \subseteq mails
      BY <2>2, <2>3 DEF S!At, S!Range
    <2> QED BY <2>4 DEF mails
  <1> QED BY <1>1 DEF SBox

-----------------------------------------------------------------------------
(* What each change of the mailbox does to the folders.                    *)

\* A delivery adds one message to one folder.
LEMMA SBoxDeliver ==
    ASSUME S!ScanAssumption, SBox, x2 \subseteq ForScan.Folder, NEW f \in ForScan.Folder, NEW m \in ForScan.Mail, S!Deliver(f, m)
    PROVE  SBox' /\ \A h \in ForScan.Folder : S!At(h)' \subseteq IF h = f THEN S!At(h) \cup {m} ELSE S!At(h)
  <1> DEFINE b == x1[f]
             c == S!Added(b, m)
  <1>1. SFolderFits(b) /\ b.next <= ForScan.MaxUID
    BY DEF SBox, S!Deliver, S!Room
  <1>2. /\ DOMAIN c = {"valid", "next", "mail"} /\ c.valid = b.valid /\ c.next = b.next + 1
        /\ c.mail = [u \in DOMAIN b.mail \cup {b.next} |-> IF u = b.next THEN m ELSE b.mail[u]]
    BY <1>1 DEF SFolderFits, S!Added
  <1> HIDE DEF c
  <1>3. SFolderFits(c)
    BY <1>1, <1>2, SConstants DEF SFolderFits
  <1>4. S!Range(c.mail) \subseteq S!Range(b.mail) \cup {m}
    BY <1>2 DEF S!Range
  <1>5. x1' = [x1 EXCEPT ![f] = c]
    BY DEF S!Deliver, c
  <1>6. DOMAIN x1' = ForScan.Folder /\ x1'[f] = c /\ \A h \in ForScan.Folder : h # f => x1'[h] = x1[h]
    BY <1>5 DEF SBox
  <1> QED BY <1>3, <1>4, <1>6 DEF SBox, S!At

\* A move takes a message from one folder and adds it to another.
LEMMA SBoxMove ==
    ASSUME S!ScanAssumption, SBox, x2 \subseteq ForScan.Folder, NEW f \in ForScan.Folder, NEW g \in ForScan.Folder,
           NEW m \in ForScan.Mail, S!Move(f, g, m)
    PROVE  SBox' /\ \A h \in ForScan.Folder :
               S!At(h)' \subseteq IF h = f THEN S!At(h) \ {m} ELSE IF h = g THEN S!At(h) \cup {m} ELSE S!At(h)
  <1> DEFINE b == x1[g]
             c == S!Added(b, m)
             d == S!Without(x1[f], m)
  <1>1. SFolderFits(b) /\ b.next <= ForScan.MaxUID /\ SFolderFits(x1[f]) /\ f # g
    BY DEF SBox, S!Move, S!Room
  <1>2. /\ DOMAIN c = {"valid", "next", "mail"} /\ c.valid = b.valid /\ c.next = b.next + 1
        /\ c.mail = [u \in DOMAIN b.mail \cup {b.next} |-> IF u = b.next THEN m ELSE b.mail[u]]
    BY <1>1 DEF SFolderFits, S!Added
  <1>3. /\ DOMAIN d = {"valid", "next", "mail"} /\ d.valid = x1[f].valid /\ d.next = x1[f].next
        /\ d.mail = [u \in {v \in DOMAIN x1[f].mail : x1[f].mail[v] # m} |-> x1[f].mail[u]]
    BY <1>1 DEF SFolderFits, S!Without, S!Restrict
  <1> HIDE DEF c, d
  <1>4. SFolderFits(c)
    <2>1. SFolderFits(b) /\ b.next <= ForScan.MaxUID /\ ForScan.MaxUID \in Nat
      BY <1>1, SConstants
    <2> HIDE DEF b
    <2> QED BY <1>2, <2>1 DEF SFolderFits
  <1>5. S!Range(c.mail) \subseteq S!Range(b.mail) \cup {m}
    BY <1>2 DEF S!Range
  <1>6. SFolderFits(d)
    BY <1>1, <1>3 DEF SFolderFits
  <1>7. S!Range(d.mail) \subseteq S!Range(x1[f].mail) \ {m}
    BY <1>3 DEF S!Range
  <1>8. x1' = [x1 EXCEPT ![f] = d, ![g] = c]
    BY <1>1 DEF S!Move, c, d
  <1>9. /\ DOMAIN x1' = ForScan.Folder /\ x1'[g] = c /\ x1'[f] = d
        /\ \A h \in ForScan.Folder : h # f /\ h # g => x1'[h] = x1[h]
    BY <1>1, <1>8 DEF SBox
  <1> QED BY <1>1, <1>4, <1>5, <1>6, <1>7, <1>9 DEF SBox, S!At

\* Renumbering, deleting or making a folder adds no message to any.
LEMMA SBoxOthers ==
    ASSUME S!ScanAssumption, SBox, x2 \subseteq ForScan.Folder, NEW f \in ForScan.Folder,
           S!Renumber(f) \/ S!Delete(f) \/ S!Create(f)
    PROVE  SBox' /\ \A h \in ForScan.Folder : S!At(h)' \subseteq S!At(h)
  <1>1. ASSUME NEW mails \in SUBSET S!At(f), Cardinality(mails) <= ForScan.MaxUID,
               x1' = [x1 EXCEPT ![f] = S!Filled(@.valid + 1, mails)]
        PROVE  SBox' /\ \A h \in ForScan.Folder : S!At(h)' \subseteq S!At(h)
    <2> DEFINE c == S!Filled(x1[f].valid + 1, mails)
    <2>1. x1[f].valid + 1 \in Nat /\ mails \in SUBSET ForScan.Mail
      BY SFewMails DEF SBox, SFolderFits
    <2>2. SFolderFits(c) /\ \A u \in DOMAIN c.mail : c.mail[u] \in mails
      BY <1>1, <2>1, SFilled
    <2>3. x1' = [x1 EXCEPT ![f] = c]
      BY <1>1
    <2> HIDE DEF c
    <2>4. DOMAIN x1' = ForScan.Folder /\ x1'[f] = c /\ \A h \in ForScan.Folder : h # f => x1'[h] = x1[h]
      BY <2>3 DEF SBox
    <2> QED BY <2>2, <2>4 DEF SBox, S!At, S!Range
  <1>2. CASE S!Renumber(f)
    BY <1>1, <1>2, SFewMails DEF S!Renumber
  <1>3. CASE S!Delete(f)
    <2>1. Cardinality({}) = 0
      BY FS_EmptySet
    <2>2. {} \in SUBSET S!At(f) /\ x1' = [x1 EXCEPT ![f] = S!Filled(@.valid + 1, {})]
      BY <1>3 DEF S!Delete
    <2>3. Cardinality({}) <= ForScan.MaxUID
      BY <2>1, SConstants
    <2> QED BY <1>1, <2>2, <2>3
  <1>4. CASE S!Create(f)
    BY <1>4 DEF S!Create, SBox, S!At, SFolderFits
  <1> QED BY <1>2, <1>3, <1>4

-----------------------------------------------------------------------------
(* The mailbox changes under the scan.                                     *)

\* A change of the mailbox leaves what the index and the batch believe true:
\* of a mail that is still not taken from Junk or a hold folder, nothing moved.
LEMMA SSteady ==
    ASSUME SInv, UNCHANGED <<x6, x7, x8, x9, x10, x11, x12>>, x3 \subseteq x3', x3' \subseteq ForScan.Mail,
           \A m \in ForScan.Mail : x4[m] = "rescued" => x4'[m] = "rescued",
           \A m \in x3, f \in ForScan.Folder : S!RescueFrom(f) /\ x4'[m] = "" =>
               x4[m] = "" /\ (SOnlyIn(m, f) => SOnlyIn(m, f)')
    PROVE  SRows' /\ STables(x8, x9, x11)' /\ SLocals' /\ SBatch(x8)'
  <1>1. SRows' /\ SLocals'
    BY DEF SInv, SRows, SLocals
  <1>2. SIndex(x8)'
    BY DEF SInv, STables, SIndex
  <1>3. SSenders(x8, x9)'
    <2>1. x8' = x8 /\ x9' = x9 /\ SSenders(x8, x9)
      BY DEF SInv, STables
    <2>2. \A a : SFrom(x8, a)' = SFrom(x8, a) /\ SPaired(x8, a)' = SPaired(x8, a)
      BY <2>1 DEF SPaired, SFrom, SAnswers
    <2>3. \A a \in ForScan.Address : (\E m \in ForScan.Mail : ForScan.Header[m].from = a /\ x4[m] = "rescued")
                                       => \E m \in ForScan.Mail : ForScan.Header[m].from = a /\ x4'[m] = "rescued"
      OBVIOUS
    <2> QED BY <2>1, <2>2, <2>3 DEF SSenders
  <1>4. SThreads(x8, x11)'
    BY DEF SInv, STables, SThreads, SLatest
  <1>5. SBatch(x8)'
    <2> SUFFICES ASSUME x12.step \in {"apply", "locapply"} PROVE SBatch(x8)'
      BY DEF SBatch
    <2>1. SBatchFits(x12.batch) /\ \A i \in DOMAIN x12.batch : SBelieves(x8, x12.folder, x12.batch[i].mail)
      BY DEF SInv, SBatch
    <2>2. x12.folder \in ForScan.Folder
      BY DEF SInv, SLocals
    <2>3. SBatchFits(x12.batch)' /\ \A i \in DOMAIN x12.batch : x12.batch[i].mail \in x3
      BY <2>1 DEF SBatchFits
    <2>4. ASSUME NEW i \in DOMAIN x12.batch PROVE SBelieves(x8, x12.folder, x12.batch[i].mail)'
      <3>1. x12.batch[i].mail \in x3 /\ x12.batch[i].mail \in ForScan.Mail /\ SBelieves(x8, x12.folder, x12.batch[i].mail)
        BY <2>1, <2>3
      <3> QED BY <2>2, <3>1 DEF SBelieves
    <2> QED BY <2>3, <2>4 DEF SBatch
  <1> QED BY <1>1, <1>2, <1>3, <1>4, <1>5 DEF STables

\* A change of the mailbox is counted.
LEMMA SChange ==
    ASSUME S!ScanAssumption, SMail, S!Change
    PROVE  x5' \in 0..ForScan.MaxChanges
  <1>1. x5 < ForScan.MaxChanges /\ x5' = x5 + 1
    BY DEF S!Change
  <1>2. x5 \in 0..ForScan.MaxChanges /\ ForScan.MaxChanges \in Nat
    BY SConstants DEF SMail
  <1> QED BY <1>1, <1>2

\* The mailbox may change at any time, a batch being under way or not.
LEMMA SEnvironment ==
    ASSUME S!ScanAssumption, SInv, S!Environment
    PROVE  SInv'
  <1>1. SBox /\ SMail
    BY DEF SInv
  <1>2. \A h \in ForScan.Folder : S!At(h) \subseteq ForScan.Mail
    BY <1>1, SFewMails
  <1>3. ASSUME NEW f \in ForScan.Folder, NEW m \in ForScan.Mail, S!Deliver(f, m) PROVE SInv'
    <2>1. SBox' /\ \A h \in ForScan.Folder : S!At(h)' \subseteq IF h = f THEN S!At(h) \cup {m} ELSE S!At(h)
      BY <1>1, <1>3, SBoxDeliver DEF SMail
    <2>2. m \notin x3 /\ x3' = x3 \cup {m} /\ x2' = x2 /\ x4' = x4 /\ UNCHANGED <<x6, x7, x8, x9, x10, x11, x12>> /\ x5' \in 0..ForScan.MaxChanges
      <3>1. x5' \in 0..ForScan.MaxChanges
        BY <1>1, <1>3, SChange DEF S!Deliver, S!Move, S!Renumber, S!Delete, S!Create
      <3> QED BY <1>3, <3>1 DEF S!Deliver, S!store, S!index_
    <2>3. x4[m] = ""
      BY <1>1, <2>2 DEF SMail
    <2>4. SMail'
      <3>1. ASSUME NEW h \in ForScan.Folder, NEW n \in S!At(h)'
            PROVE  n \in x3' /\ (\A k \in ForScan.Folder : n \in S!At(k)' => h = k) /\ (x4'[n] = "taken" => S!Discarded(h))
        <4>1. CASE n = m
          <5>1. \A k \in ForScan.Folder : m \in S!At(k)' => k = f
            BY <1>1, <2>1, <2>2 DEF SMail
          <5> QED BY <2>2, <2>3, <3>1, <4>1, <5>1
        <4>2. CASE n # m
          <5>1. \A k \in ForScan.Folder : n \in S!At(k)' => n \in S!At(k)
            BY <2>1, <4>2
          <5> QED BY <1>1, <2>2, <3>1, <4>2, <5>1 DEF SMail
        <4> QED BY <4>1, <4>2
      <3>2. x3' \subseteq ForScan.Mail /\ \A n \in ForScan.Mail : x4'[n] # "" => n \in x3'
        BY <1>1, <2>2 DEF SMail
      <3> HIDE DEF S!At, S!Discarded
      <3> QED BY <1>1, <2>2, <3>1, <3>2 DEF SMail, S!Discarded
    <2>5. \A n \in x3, h \in ForScan.Folder : SOnlyIn(n, h) => SOnlyIn(n, h)'
      BY <2>1, <2>2 DEF SOnlyIn
    <2>6. SRows' /\ STables(x8, x9, x11)' /\ SLocals' /\ SBatch(x8)'
      BY <1>1, <2>2, <2>5, SSteady DEF SMail
    <2> QED BY <2>1, <2>4, <2>6 DEF SInv
  <1>4. ASSUME NEW f \in ForScan.Folder, NEW g \in ForScan.Folder, NEW m \in ForScan.Mail, S!Move(f, g, m) PROVE SInv'
    <2>1. SBox' /\ \A h \in ForScan.Folder :
               S!At(h)' \subseteq IF h = f THEN S!At(h) \ {m} ELSE IF h = g THEN S!At(h) \cup {m} ELSE S!At(h)
      BY <1>1, <1>4, SBoxMove DEF SMail
    <2>2. /\ m \in S!At(f) /\ x3' = x3 /\ x2' = x2 /\ UNCHANGED <<x6, x7, x8, x9, x10, x11, x12>> /\ x5' \in 0..ForScan.MaxChanges
          /\ x4' = [x4 EXCEPT ![m] = S!Freed(x4[m], f, g)] /\ f # g
      <3>1. x5' \in 0..ForScan.MaxChanges
        BY <1>1, <1>4, SChange DEF S!Deliver, S!Move, S!Renumber, S!Delete, S!Create
      <3> QED BY <1>4, <3>1 DEF S!Move, S!store, S!index_
    <2>3. /\ x4' \in [ForScan.Mail -> {"", "taken", "rescued"}] /\ \A n \in ForScan.Mail : n # m => x4'[n] = x4[n]
          /\ x4'[m] = S!Freed(x4[m], f, g)
      BY <1>1, <2>2 DEF SMail, S!Freed
    <2>4. m \in x3 /\ \A h \in ForScan.Folder : m \in S!At(h) => h = f
      BY <1>1, <2>2 DEF SMail
    <2>5. (x4'[m] = "taken" => S!Discarded(g)) /\ (x4[m] = "rescued" => x4'[m] = "rescued")
          /\ (x4'[m] = "" => x4[m] = "" /\ ~S!RescueFrom(f))
      BY <2>3 DEF S!Freed
    <2>6. ASSUME NEW h \in ForScan.Folder, NEW n \in S!At(h)'
          PROVE  n \in x3 /\ (\A k \in ForScan.Folder : n \in S!At(k)' => h = k) /\ (x4'[n] = "taken" => S!Discarded(h))
      <3>1. CASE n = m
        <4>1. \A k \in ForScan.Folder : m \in S!At(k)' => k = g
          BY <2>1, <2>4
        <4> QED BY <2>4, <2>5, <2>6, <3>1, <4>1
      <3>2. CASE n # m
        <4>1. \A k \in ForScan.Folder : n \in S!At(k)' => n \in S!At(k)
          BY <2>1, <3>2
        <4>2. n \in S!At(h) /\ n \in ForScan.Mail
          BY <1>2, <2>6, <4>1
        <4> QED BY <1>1, <2>3, <3>2, <4>1, <4>2 DEF SMail
      <3> QED BY <3>1, <3>2
    <2>7. SMail'
      <3>1. \A n \in ForScan.Mail : x4'[n] # "" => n \in x3
        BY <1>1, <2>3, <2>4 DEF SMail
      <3> HIDE DEF S!Discarded, S!At
      <3> QED BY <1>1, <2>2, <2>3, <2>6, <3>1 DEF SMail, S!Discarded
    <2>8. ASSUME NEW n \in x3, NEW h \in ForScan.Folder, S!RescueFrom(h), x4'[n] = ""
          PROVE  x4[n] = "" /\ (SOnlyIn(n, h) => SOnlyIn(n, h)')
      <3>1. CASE n = m
        <4>1. SOnlyIn(m, h) => f = h
          BY <2>2 DEF SOnlyIn
        <4> QED BY <2>5, <2>8, <3>1, <4>1
      <3>2. CASE n # m
        <4>1. n \in ForScan.Mail
          BY <1>1 DEF SMail
        <4> QED BY <2>1, <2>3, <2>8, <3>2, <4>1 DEF SOnlyIn
      <3> QED BY <3>1, <3>2
    <2>9. \A n \in ForScan.Mail : x4[n] = "rescued" => x4'[n] = "rescued"
      BY <2>3, <2>5
    <2>10. SRows' /\ STables(x8, x9, x11)' /\ SLocals' /\ SBatch(x8)'
      <3>1. x3 \subseteq x3' /\ x3' \subseteq ForScan.Mail
        BY <1>1, <2>2 DEF SMail
      <3> HIDE DEF S!RescueFrom
      <3> QED BY <2>2, <2>8, <2>9, <3>1, SSteady
    <2> QED BY <2>1, <2>7, <2>10 DEF SInv
  <1>5. ASSUME NEW f \in ForScan.Folder, S!Renumber(f) \/ S!Delete(f) \/ S!Create(f) PROVE SInv'
    <2>1. SBox' /\ \A h \in ForScan.Folder : S!At(h)' \subseteq S!At(h)
      BY <1>1, <1>5, SBoxOthers DEF SMail
    <2>2. /\ x3' = x3 /\ x4' = x4 /\ UNCHANGED <<x6, x7, x8, x9, x10, x11, x12>> /\ x5' \in 0..ForScan.MaxChanges /\ x2' \subseteq ForScan.Folder
      <3>1. x5' \in 0..ForScan.MaxChanges
        BY <1>1, <1>5, SChange DEF S!Deliver, S!Move, S!Renumber, S!Delete, S!Create
      <3>2. x3' = x3 /\ x4' = x4 /\ UNCHANGED <<x6, x7, x8, x9, x10, x11, x12>>
        BY <1>5 DEF S!Renumber, S!Delete, S!Create, S!store, S!index_
      <3>3. x2' \subseteq ForScan.Folder
        BY <1>1, <1>5 DEF S!Renumber, S!Delete, S!Create, SMail
      <3> QED BY <3>1, <3>2, <3>3
    <2>3. SMail'
      BY <1>1, <2>1, <2>2 DEF SMail, S!Discarded
    <2>4. \A n \in x3, h \in ForScan.Folder : SOnlyIn(n, h) => SOnlyIn(n, h)'
      BY <2>1 DEF SOnlyIn
    <2>5. SRows' /\ STables(x8, x9, x11)' /\ SLocals' /\ SBatch(x8)'
      <3>1. x3 \subseteq x3' /\ x3' \subseteq ForScan.Mail
        BY <1>1, <2>2 DEF SMail
      <3> QED BY <2>2, <2>4, <3>1, SSteady
    <2> QED BY <2>1, <2>3, <2>5 DEF SInv
  <1> QED BY <1>3, <1>4, <1>5 DEF S!Environment

\* A scanner at rest.
LEMMA SIdle ==
    ASSUME S!ScanAssumption
    PROVE  (x12 = S!Idle => SLocals /\ x12.step = "idle") /\ (x12' = S!Idle => SLocals' /\ x12'.step = "idle")
  <1>1. DOMAIN S!Idle = {"step", "todo", "locate", "folder", "valid", "after", "batch", "batchValid", "more", "active", "corr"}
    BY DEF S!Idle
  <1>2. /\ S!Idle.step = "idle" /\ S!Idle.todo = {} /\ S!Idle.locate = {} /\ S!Idle.valid = 0 /\ S!Idle.batchValid = 0
        /\ S!Idle.after = 0
    BY DEF S!Idle
  <1>3. 0 \in 0..ForScan.MaxUID
    BY SConstants
  <1> QED BY <1>1, <1>2, <1>3 DEF SLocals

\* At the start every message lies where it was placed, and nothing is indexed.
LEMMA SInit ==
    ASSUME S!ScanAssumption, S!Init
    PROVE  SInv
  <1>1. SBox /\ \A f \in ForScan.Folder : S!At(f) \subseteq {m \in ForScan.Mail : ForScan.Placed[m] = f}
    BY SBoxInit DEF S!Init
  <1>2. SMail
    <2>0. x3 = {m \in ForScan.Mail : ForScan.Placed[m] # ForScan.NoFolder} /\ x2 = ForScan.Folder /\ x4 = [m \in ForScan.Mail |-> ""] /\ x5 = 0
      BY DEF S!Init
    <2>1. ForScan.NoFolder \notin ForScan.Folder /\ ForScan.MaxChanges \in Nat
      BY DEF S!ScanAssumption
    <2>2. ASSUME NEW f \in ForScan.Folder, NEW m \in S!At(f)
          PROVE  m \in x3 /\ (\A g \in ForScan.Folder : m \in S!At(g) => f = g) /\ x4[m] = ""
      <3>1. m \in ForScan.Mail /\ \A g \in ForScan.Folder : m \in S!At(g) => ForScan.Placed[m] = g
        BY <1>1, <2>2
      <3> QED BY <2>0, <2>1, <2>2, <3>1
    <2>3. x2 \subseteq ForScan.Folder /\ x3 \subseteq ForScan.Mail /\ x5 \in 0..ForScan.MaxChanges
          /\ x4 \in [ForScan.Mail -> {"", "taken", "rescued"}] /\ \A m \in ForScan.Mail : x4[m] = ""
      <3>1. x2 \subseteq ForScan.Folder
        BY <2>0
      <3>2. x3 \subseteq ForScan.Mail
        BY <2>0, Zenon
      <3>3. x5 \in 0..ForScan.MaxChanges
        <4>1. x5 = 0
          BY <2>0
        <4> QED BY <2>1, <4>1
      <3>4. x4 \in [ForScan.Mail -> {"", "taken", "rescued"}] /\ \A m \in ForScan.Mail : x4[m] = ""
        BY <2>0
      <3> QED BY <3>1, <3>2, <3>3, <3>4
    <2> QED BY <2>2, <2>3 DEF SMail
  <1>3. SRows
    <2>1. x6 = [f \in ForScan.Folder |-> S!NoRow] /\ x7 = [f \in ForScan.Folder |-> S!NoRow]
      BY DEF S!Init
    <2>2. S!NoRow \in SRow
      BY SConstants DEF S!NoRow, SRow
    <2> QED BY <2>1, <2>2 DEF SRows
  <1>4. DOMAIN x8 = {} /\ DOMAIN x11 = {} /\ IsFiniteSet({}) /\ Cardinality({}) = 0
    BY FS_EmptySet DEF S!Init
  <1>5. SIndex(x8) /\ SThreads(x8, x11)
    BY <1>4 DEF SIndex, SThreads
  <1>6. SSenders(x8, x9)
    <2>1. x9 = [a \in ForScan.Address |-> [received |-> 0, sent |-> 0, passed |-> 0, replies |-> 0, trusted |-> FALSE]]
      BY DEF S!Init
    <2>2. x9 \in [ForScan.Address -> S!Profile]
      BY <2>1 DEF S!Profile
    <2>3. \A a : SFrom(x8, a) = {} /\ SPaired(x8, a) = {}
      BY <1>4 DEF SFrom, SPaired
    <2>4. \A a \in ForScan.Address : x9[a].received = 0 /\ x9[a].replies = 0 /\ ~x9[a].trusted
      BY <2>1
    <2>5. \A a : Cardinality(SFrom(x8, a)) = 0 /\ Cardinality(SPaired(x8, a)) = 0
      BY <1>4, <2>3
    <2> QED BY <2>2, <2>4, <2>5 DEF SSenders
  <1>7. SLocals /\ SBatch(x8)
    <2>1. x12 = S!Idle
      BY DEF S!Init
    <2> QED BY <2>1, SIdle DEF SBatch, S!Idle
  <1> QED BY <1>1, <1>2, <1>3, <1>5, <1>6, <1>7 DEF SInv, STables

-----------------------------------------------------------------------------
(* What one message of a batch does to the tables.                         *)

STab(st) == DOMAIN st = {"index", "senders", "anomalies", "threads"} /\ STables(st.index, st.senders, st.threads)

\* A profile is a count of messages and whether its sender is trusted: what
\* the scan's updates of one leave alone.
LEMMA SProfile ==
    ASSUME NEW p \in S!Profile, NEW n \in Nat
    PROVE  /\ LET q == [p EXCEPT !.trusted = TRUE] IN q \in S!Profile /\ q.received = p.received /\ q.replies = p.replies
           /\ LET q == [p EXCEPT !.sent = @ + 1] IN
                  q \in S!Profile /\ q.received = p.received /\ q.replies = p.replies /\ q.trusted = p.trusted
           /\ \A q : q = [p EXCEPT !.received = @ + 1, !.passed = @ + 1] \/ q = [p EXCEPT !.received = @ + 1, !.passed = @] =>
                  q \in S!Profile /\ q.received = p.received + 1 /\ q.replies = p.replies /\ q.trusted = p.trusted
           /\ LET q == [p EXCEPT !.replies = @ + n] IN
                  q \in S!Profile /\ q.received = p.received /\ q.replies = p.replies + n /\ q.trusted = p.trusted
  <1>1. /\ p = [received |-> p.received, sent |-> p.sent, passed |-> p.passed, replies |-> p.replies, trusted |-> p.trusted]
        /\ p.received \in Nat /\ p.sent \in Nat /\ p.passed \in Nat /\ p.replies \in Nat
    BY DEF S!Profile
  <1>2. p.trusted \in BOOLEAN
    BY DEF S!Profile
  <1>3. [p EXCEPT !.trusted = TRUE] =
            [received |-> p.received, sent |-> p.sent, passed |-> p.passed, replies |-> p.replies, trusted |-> TRUE]
    <2> DEFINE yes == TRUE
    <2> HIDE DEF yes
    <2>1. [p EXCEPT !.trusted = yes] =
            [received |-> p.received, sent |-> p.sent, passed |-> p.passed, replies |-> p.replies, trusted |-> yes]
      BY <1>1
    <2> QED BY <2>1 DEF yes
  <1>4. [p EXCEPT !.sent = @ + 1] =
            [received |-> p.received, sent |-> p.sent + 1, passed |-> p.passed, replies |-> p.replies, trusted |-> p.trusted]
    BY <1>1
  <1>5. ASSUME NEW s \in Nat
        PROVE  [p EXCEPT !.received = p.received + 1, !.passed = s] =
                   [received |-> p.received + 1, sent |-> p.sent, passed |-> s, replies |-> p.replies, trusted |-> p.trusted]
    <2> DEFINE r == p.received + 1
               q == [p EXCEPT !.received = r, !.passed = s]
    <2>1. q = [p EXCEPT !.received = r, !.passed = s] /\ p \in S!Profile
      OBVIOUS
    <2> HIDE DEF q, r
    <2>2. q = [received |-> r, sent |-> p.sent, passed |-> s, replies |-> p.replies, trusted |-> p.trusted]
      BY <2>1 DEF S!Profile
    <2> QED BY <2>2 DEF q, r
  <1>6. [p EXCEPT !.replies = @ + n] =
            [received |-> p.received, sent |-> p.sent, passed |-> p.passed, replies |-> p.replies + n, trusted |-> p.trusted]
    BY <1>1
  <1>7. p.passed + 1 \in Nat /\ p.sent + 1 \in Nat /\ p.received + 1 \in Nat /\ p.replies + n \in Nat
    BY <1>1
  <1>8. LET q == [p EXCEPT !.trusted = TRUE] IN q \in S!Profile /\ q.received = p.received /\ q.replies = p.replies
    BY <1>1, <1>3 DEF S!Profile
  <1>9. LET q == [p EXCEPT !.sent = @ + 1] IN
            q \in S!Profile /\ q.received = p.received /\ q.replies = p.replies /\ q.trusted = p.trusted
    BY <1>1, <1>2, <1>4, <1>7 DEF S!Profile
  <1>10. ASSUME NEW q, q = [p EXCEPT !.received = @ + 1, !.passed = @ + 1] \/ q = [p EXCEPT !.received = @ + 1, !.passed = @]
         PROVE  q \in S!Profile /\ q.received = p.received + 1 /\ q.replies = p.replies /\ q.trusted = p.trusted
    <2>1. PICK s \in Nat : q = [p EXCEPT !.received = p.received + 1, !.passed = s]
      BY <1>1, <1>7, <1>10
    <2>2. q = [received |-> p.received + 1, sent |-> p.sent, passed |-> s, replies |-> p.replies, trusted |-> p.trusted]
      BY <1>5, <2>1
    <2> QED BY <1>1, <1>2, <1>7, <2>2 DEF S!Profile
  <1>11. LET q == [p EXCEPT !.replies = @ + n] IN
            q \in S!Profile /\ q.received = p.received /\ q.replies = p.replies + n /\ q.trusted = p.trusted
    BY <1>1, <1>2, <1>6, <1>7 DEF S!Profile
  <1> QED BY <1>8, <1>9, <1>10, <1>11

\* A message found in another folder: its place changes, and its sender is
\* trusted if its owner rescued it, nothing else.
LEMMA SLocates ==
    ASSUME S!ScanAssumption, SMail, NEW st, STab(st), NEW f \in ForScan.Folder, NEW k \in DOMAIN st.index,
           SBelieves(st.index, f, k[1])
    PROVE  /\ STab(S!Locate(st, f, k))
           /\ DOMAIN S!Locate(st, f, k).index = DOMAIN st.index
           /\ \A m : SBelieves(st.index, f, m) => SBelieves(S!Locate(st, f, k).index, f, m)
  <1> DEFINE new == S!Locate(st, f, k)
  <1>1. CASE st.index[k].folder = f
    <2>1. new = st
      BY <1>1 DEF S!Locate
    <2> QED BY <2>1
  <1>2. CASE st.index[k].folder # f
    <2> DEFINE ix == [st.index EXCEPT ![k].folder = f]
               a0 == ForScan.Header[k[1]].from
               ps == IF S!Rescues(f, k, st.index) THEN [st.senders EXCEPT ![a0].trusted = TRUE] ELSE st.senders
    <2>1. DOMAIN new = DOMAIN st /\ new.index = ix /\ new.senders = ps /\ new.threads = st.threads
      BY <1>2 DEF S!Locate, STab
    <2>2. SIndex(st.index) /\ SSenders(st.index, st.senders) /\ SThreads(st.index, st.threads)
      BY DEF STab, STables
    <2>3. k[1] \in x3 /\ k[1] \in ForScan.Mail /\ a0 \in ForScan.Address
      BY <2>2, SConstants DEF SIndex, SMail
    <2>4. /\ DOMAIN ix = DOMAIN st.index /\ ix[k] = [folder |-> f, paired |-> st.index[k].paired]
          /\ \A j \in DOMAIN ix : j # k => ix[j] = st.index[j]
      <3>1. st.index[k] = [folder |-> st.index[k].folder, paired |-> st.index[k].paired]
        BY <2>2 DEF SIndex
      <3>2. [st.index[k] EXCEPT !.folder = f] = [folder |-> f, paired |-> st.index[k].paired]
        BY <3>1
      <3>3. ix[k] = [st.index[k] EXCEPT !.folder = f]
        OBVIOUS
      <3>4. DOMAIN ix = DOMAIN st.index /\ \A j \in DOMAIN ix : j # k => ix[j] = st.index[j]
        OBVIOUS
      <3> QED BY <3>2, <3>3, <3>4
    <2> HIDE DEF ix, ps, a0
    <2>5. SIndex(ix)
      <3>1. st.index[k].paired \in BOOLEAN
        BY <2>2 DEF SIndex
      <3>2. ix[k] \in [folder: ForScan.Folder, paired: BOOLEAN] /\ ix[k].folder = f
        BY <2>4, <3>1
      <3>3. S!RescueFrom(f) /\ x4[k[1]] = "" => SOnlyIn(k[1], f)
        BY DEF SBelieves
      <3> QED BY <2>2, <2>4, <3>2, <3>3 DEF SIndex
    <2>6. \A a : SFrom(ix, a) = SFrom(st.index, a) /\ SPaired(ix, a) = SPaired(st.index, a)
      <3>1. \A j \in DOMAIN ix : ix[j].paired = st.index[j].paired
        BY <2>4
      <3> QED BY <2>4, <3>1 DEF SFrom, SPaired
    <2>7. /\ ps \in [ForScan.Address -> S!Profile]
          /\ \A a \in ForScan.Address : /\ ps[a].received = st.senders[a].received /\ ps[a].replies = st.senders[a].replies
                                        /\ ps[a].trusted => st.senders[a].trusted \/ (S!Rescues(f, k, st.index) /\ a = a0)
      <3>1. st.senders \in [ForScan.Address -> S!Profile]
        BY <2>2 DEF SSenders
      <3>2. CASE S!Rescues(f, k, st.index)
        <4> DEFINE q == [st.senders[a0] EXCEPT !.trusted = TRUE]
        <4>1. q \in S!Profile /\ q.received = st.senders[a0].received /\ q.replies = st.senders[a0].replies
          BY <2>3, <3>1, SProfile
        <4>2. ps = [st.senders EXCEPT ![a0] = q]
          BY <3>2 DEF ps
        <4> HIDE DEF q
        <4> QED BY <2>3, <3>1, <3>2, <4>1, <4>2
      <3>3. CASE ~S!Rescues(f, k, st.index)
        BY <3>1, <3>3 DEF ps
      <3> QED BY <3>2, <3>3
    <2>8. S!Rescues(f, k, st.index) => x4[k[1]] = "rescued"
      BY <1>2 DEF S!Rescues, SBelieves
    <2>9. SSenders(ix, ps)
      <3>1. ASSUME NEW a \in ForScan.Address, ps[a].trusted
            PROVE  \E m \in ForScan.Mail : ForScan.Header[m].from = a /\ x4[m] = "rescued"
        <4>1. CASE st.senders[a].trusted
          BY <2>2, <4>1 DEF SSenders
        <4>2. CASE S!Rescues(f, k, st.index) /\ a = a0
          BY <2>3, <2>8, <4>2 DEF a0
        <4> QED BY <2>7, <3>1, <4>1, <4>2
      <3> QED BY <2>2, <2>6, <2>7, <3>1 DEF SSenders
    <2>10. SThreads(ix, st.threads)
      BY <2>2, <2>4 DEF SThreads
    <2>11. \A m : SBelieves(st.index, f, m) => SBelieves(ix, f, m)
      <3>1. ix[k].folder = f
        BY <2>4
      <3> QED BY <2>4, <3>1 DEF SBelieves
    <2> HIDE DEF new
    <2> QED BY <2>1, <2>4, <2>5, <2>9, <2>10, <2>11 DEF STab, STables, new
  <1> QED BY <1>1, <1>2

\* A message met by the location pass (locations.go:171-179).
LEMMA SLocateOne ==
    ASSUME S!ScanAssumption, SMail, NEW st, STab(st), NEW f \in ForScan.Folder, NEW h,
           SBelieves(st.index, f, h.mail)
    PROVE  /\ STab(S!LocateOne(st, f, h))
           /\ \A m : SBelieves(st.index, f, m) => SBelieves(S!LocateOne(st, f, h).index, f, m)
  <1>1. CASE ForScan.Header[h.mail].id /\ <<h.mail>> \in DOMAIN st.index
    <2> DEFINE k == <<h.mail>>
    <2>1. k[1] = h.mail /\ k \in DOMAIN st.index /\ S!LocateOne(st, f, h) = S!Locate(st, f, k)
      BY <1>1 DEF S!LocateOne
    <2> HIDE DEF k
    <2> QED BY <2>1, SLocates
  <1>2. CASE ~(ForScan.Header[h.mail].id /\ <<h.mail>> \in DOMAIN st.index)
    <2>1. S!LocateOne(st, f, h) = st
      BY <1>2 DEF S!LocateOne, S!Locate
    <2> QED BY <2>1
  <1> QED BY <1>1, <1>2

\* A conversation's message gives way only to a newer one.
LEMMA SThreaded ==
    ASSUME S!ScanAssumption, NEW th, \A r \in DOMAIN th : th[r] \in ForScan.Mail, NEW m \in ForScan.Mail
    PROVE  LET new == S!Threaded(th, m) IN
           /\ \A r \in DOMAIN new : new[r] \in ForScan.Mail
           /\ SLatest(new, m)
           /\ \A n \in ForScan.Mail : SLatest(th, n) => SLatest(new, n)
  <1> DEFINE new == S!Threaded(th, m)
             r0 == ForScan.Header[m].thread
             keep == ~SJoins(m) \/ (r0 \in DOMAIN th /\ ~S!Newer(m, th[r0]))
  <1>1. keep => new = th
    BY DEF S!Threaded, SJoins
  <1>2. ~keep => new = [q \in DOMAIN th \cup {r0} |-> IF q = r0 THEN m ELSE th[q]]
    BY DEF S!Threaded, SJoins
  <1>3. CASE keep
    BY <1>1, <1>3 DEF SLatest
  <1>4. CASE ~keep
    <2>1. DOMAIN new = DOMAIN th \cup {r0} /\ new[r0] = m /\ \A q \in DOMAIN th : q # r0 => new[q] = th[q]
      BY <1>2, <1>4
    <2>2. SJoins(m) /\ (r0 \in DOMAIN th => S!Newer(m, th[r0]))
      BY <1>4
    <2> HIDE DEF new, keep
    <2>3. \A n \in ForScan.Mail : ForScan.Header[n].date \in Nat
      BY SConstants
    <2>4. ~S!Newer(m, m)
      BY <2>3 DEF S!Newer
    <2>5. ASSUME NEW n \in ForScan.Mail, SLatest(th, n) PROVE SLatest(new, n)
      <3> SUFFICES ASSUME SJoins(n) PROVE ForScan.Header[n].thread \in DOMAIN new /\ ~S!Newer(n, new[ForScan.Header[n].thread])
        BY DEF SLatest
      <3>1. ForScan.Header[n].thread \in DOMAIN th /\ ~S!Newer(n, th[ForScan.Header[n].thread])
        BY <2>5 DEF SLatest
      <3>2. CASE ForScan.Header[n].thread = r0
        <4>1. S!Newer(m, th[r0]) /\ ~S!Newer(n, th[r0]) /\ th[r0] \in ForScan.Mail /\ r0 \in DOMAIN th
          BY <2>2, <3>1, <3>2
        <4>2. ~S!Newer(n, m)
          BY <2>3, <4>1 DEF S!Newer
        <4> QED BY <2>1, <3>2, <4>2
      <3>3. CASE ForScan.Header[n].thread # r0
        BY <2>1, <3>1, <3>3
      <3> QED BY <3>2, <3>3
    <2>6. \A r \in DOMAIN new : new[r] \in ForScan.Mail
      BY <2>1
    <2>7. SLatest(new, m)
      BY <2>1, <2>4 DEF SLatest
    <2> QED BY <2>5, <2>6, <2>7 DEF new
  <1> QED BY <1>3, <1>4

\* The profile of a sender counts a message received; no other count of what
\* the owner received or answered, and no trust, changes.
LEMMA SProfiled ==
    ASSUME S!ScanAssumption, NEW ps \in [ForScan.Address -> S!Profile], NEW m \in ForScan.Mail
    PROVE  /\ S!Profiled(ps, m) \in [ForScan.Address -> S!Profile]
           /\ \A a \in ForScan.Address :
                 /\ S!Profiled(ps, m)[a].replies = ps[a].replies /\ S!Profiled(ps, m)[a].trusted = ps[a].trusted
                 /\ S!Profiled(ps, m)[a].received =
                        IF ~S!Outgoing(m) /\ a = ForScan.Header[m].from THEN ps[a].received + 1 ELSE ps[a].received
  <1> DEFINE new == S!Profiled(ps, m)
             a0 == ForScan.Header[m].from
  <1>1. CASE S!Outgoing(m)
    <2>1. new = [a \in ForScan.Address |-> IF a \in S!Counted(ForScan.Header[m].to) THEN [ps[a] EXCEPT !.sent = @ + 1] ELSE ps[a]]
      BY <1>1 DEF S!Profiled
    <2>2. \A a \in ForScan.Address : LET q == [ps[a] EXCEPT !.sent = @ + 1] IN
            q \in S!Profile /\ q.received = ps[a].received /\ q.replies = ps[a].replies /\ q.trusted = ps[a].trusted
      BY SProfile
    <2>3. ASSUME NEW a \in ForScan.Address
          PROVE  /\ new[a] \in S!Profile /\ new[a].received = ps[a].received
                 /\ new[a].replies = ps[a].replies /\ new[a].trusted = ps[a].trusted
      <3>1. CASE a \in S!Counted(ForScan.Header[m].to)
        <4>1. new[a] = [ps[a] EXCEPT !.sent = @ + 1]
          BY <2>1, <3>1
        <4> HIDE DEF new
        <4> QED BY <2>2, <4>1
      <3>2. CASE a \notin S!Counted(ForScan.Header[m].to)
        <4>1. new[a] = ps[a]
          BY <2>1, <3>2
        <4> HIDE DEF new
        <4> QED BY <4>1
      <3> QED BY <3>1, <3>2
    <2>4. new \in [ForScan.Address -> S!Profile]
      <3>1. \A a \in ForScan.Address : (IF a \in S!Counted(ForScan.Header[m].to) THEN [ps[a] EXCEPT !.sent = @ + 1] ELSE ps[a]) \in S!Profile
        BY <2>2
      <3> HIDE DEF new
      <3> QED BY <2>1, <3>1
    <2> HIDE DEF new
    <2> QED BY <1>1, <2>3, <2>4 DEF new
  <1>2. CASE ~S!Outgoing(m)
    <2> DEFINE q == IF ForScan.Header[m].dmarc = "pass" THEN [ps[a0] EXCEPT !.received = @ + 1, !.passed = @ + 1]
                    ELSE [ps[a0] EXCEPT !.received = @ + 1, !.passed = @]
    <2>1. new = [ps EXCEPT ![a0] = q]
      <3>1. CASE ForScan.Header[m].dmarc = "pass"
        BY <1>2, <3>1 DEF S!Profiled
      <3>2. CASE ForScan.Header[m].dmarc # "pass"
        BY <1>2, <3>2 DEF S!Profiled
      <3> QED BY <3>1, <3>2
    <2>2. a0 \in ForScan.Address
      BY SConstants
    <2>3. q \in S!Profile /\ q.received = ps[a0].received + 1 /\ q.replies = ps[a0].replies /\ q.trusted = ps[a0].trusted
      <3>1. q = [ps[a0] EXCEPT !.received = @ + 1, !.passed = @ + 1] \/ q = [ps[a0] EXCEPT !.received = @ + 1, !.passed = @]
        OBVIOUS
      <3> HIDE DEF q
      <3> QED BY <2>2, <3>1, SProfile
    <2> HIDE DEF q, new
    <2>4. new \in [ForScan.Address -> S!Profile] /\ new[a0] = q /\ \A a \in ForScan.Address : a # a0 => new[a] = ps[a]
      BY <2>1, <2>2, <2>3
    <2> QED BY <1>2, <2>2, <2>3, <2>4 DEF new
  <1> QED BY <1>1, <1>2

\* A message that is not in the index yet: one row more, one message counted.
LEMMA SIndexed ==
    ASSUME S!ScanAssumption, SMail, NEW st, STab(st), NEW f \in ForScan.Folder, NEW h, h.mail \in x3,
           S!Key(f, h) \notin DOMAIN st.index, SBelieves(st.index, f, h.mail)
    PROVE  /\ DOMAIN S!Indexed(st, f, h) = {"index", "senders", "anomalies", "threads"}
           /\ SIndex(S!Indexed(st, f, h).index) /\ SSenders(S!Indexed(st, f, h).index, S!Indexed(st, f, h).senders)
           /\ DOMAIN S!Indexed(st, f, h).index = DOMAIN st.index \cup {S!Key(f, h)} /\ S!Key(f, h)[1] = h.mail
           /\ S!Indexed(st, f, h).threads = st.threads
           /\ \A m : SBelieves(st.index, f, m) => SBelieves(S!Indexed(st, f, h).index, f, m)
  <1> DEFINE m0 == h.mail
             k0 == S!Key(f, h)
             new == S!Indexed(st, f, h)
             row == [folder |-> f, paired |-> FALSE]
             ix == [k \in DOMAIN st.index \cup {k0} |-> IF k \in DOMAIN st.index THEN st.index[k] ELSE row]
             ps == S!Profiled(st.senders, m0)
             a0 == ForScan.Header[m0].from
  <1>1. DOMAIN new = {"index", "senders", "anomalies", "threads"} /\ new.index = ix /\ new.senders = ps /\ new.threads = st.threads
    BY DEF S!Indexed
  <1>2. SIndex(st.index) /\ SSenders(st.index, st.senders) /\ m0 \in ForScan.Mail
    BY DEF STab, STables, SMail
  <1>3. k0[1] = m0 /\ (ForScan.Header[m0].id => k0 = <<m0>>) /\ (~ForScan.Header[m0].id => \A m : k0 # <<m>>)
    <2>1. CASE ForScan.Header[m0].id
      BY <2>1 DEF S!Key
    <2>2. CASE ~ForScan.Header[m0].id
      <3>1. k0 = <<m0, f, h.uid>>
        BY <2>2 DEF S!Key
      <3>2. Len(k0) = 3 /\ \A m : Len(<<m>>) = 1
        BY <3>1
      <3>3. \A m : k0 # <<m>>
        BY <3>2
      <3> QED BY <2>2, <3>1, <3>3
    <2> QED BY <2>1, <2>2
  <1>4. row \in [folder: ForScan.Folder, paired: BOOLEAN] /\ row.folder = f /\ ~row.paired
    OBVIOUS
  <1>5. /\ DOMAIN ix = DOMAIN st.index \cup {k0} /\ ix[k0] = row /\ k0 \notin DOMAIN st.index
        /\ \A k \in DOMAIN st.index : ix[k] = st.index[k]
    OBVIOUS
  <1> HIDE DEF new, ix, ps, row, k0
  <1>6. SIndex(ix)
    <2>1. IsFiniteSet(DOMAIN ix)
      <3>1. IsFiniteSet(DOMAIN st.index)
        BY <1>2 DEF SIndex
      <3> QED BY <1>5, <3>1, FS_AddElement
    <2>2. S!RescueFrom(f) /\ x4[m0] = "" => SOnlyIn(m0, f)
      BY DEF SBelieves
    <2>3. ASSUME NEW k \in DOMAIN ix
          PROVE  /\ k[1] \in x3 /\ (ForScan.Header[k[1]].id => k = <<k[1]>>)
                 /\ ix[k] \in [folder: ForScan.Folder, paired: BOOLEAN]
                 /\ S!RescueFrom(ix[k].folder) /\ x4[k[1]] = "" => SOnlyIn(k[1], ix[k].folder)
      <3>1. CASE k = k0
        BY <1>3, <1>4, <1>5, <2>2, <3>1
      <3>2. CASE k # k0
        BY <1>2, <1>5, <3>2 DEF SIndex
      <3> QED BY <3>1, <3>2
    <2> QED BY <2>1, <2>3 DEF SIndex
  <1>7. \A a : SPaired(ix, a) = SPaired(st.index, a)
    BY <1>4, <1>5 DEF SPaired
  <1>8. /\ st.senders \in [ForScan.Address -> S!Profile] /\ ps \in [ForScan.Address -> S!Profile]
        /\ \A a \in ForScan.Address :
                 /\ ps[a].replies = st.senders[a].replies /\ ps[a].trusted = st.senders[a].trusted
                 /\ ps[a].received = IF ~S!Outgoing(m0) /\ a = a0 THEN st.senders[a].received + 1 ELSE st.senders[a].received
    <2>1. st.senders \in [ForScan.Address -> S!Profile]
      BY <1>2 DEF SSenders
    <2> QED BY <1>2, <2>1, SProfiled DEF ps
  <1>9. ASSUME NEW a \in ForScan.Address, a \notin ForScan.Own, \A m \in ForScan.Mail : ForScan.Header[m].from = a => ForScan.Header[m].id
        PROVE  ps[a].received = Cardinality(SFrom(ix, a))
    <2>1. st.senders[a].received = Cardinality(SFrom(st.index, a))
      BY <1>2, <1>9 DEF SSenders
    <2>2. CASE a = a0
      <3>1. ForScan.Header[m0].id /\ k0 = <<m0>> /\ ~S!Outgoing(m0)
        BY <1>2, <1>3, <1>9, <2>2 DEF S!Outgoing
      <3>2. m0 \notin SFrom(st.index, a) /\ SFrom(ix, a) = SFrom(st.index, a) \cup {m0}
        BY <1>2, <1>5, <2>2, <3>1 DEF SFrom
      <3>3. IsFiniteSet(SFrom(st.index, a))
        <4>1. SFrom(st.index, a) \in SUBSET ForScan.Mail
          BY DEF SFrom
        <4> QED BY <4>1, SConstants, FS_Subset
      <3>4. Cardinality(SFrom(ix, a)) = Cardinality(SFrom(st.index, a)) + 1
        BY <3>2, <3>3, FS_AddElement
      <3> QED BY <1>8, <2>1, <2>2, <3>1, <3>4
    <2>3. CASE a # a0
      <3>1. ASSUME NEW m \in ForScan.Mail, ForScan.Header[m].from = a PROVE <<m>> \in DOMAIN ix <=> <<m>> \in DOMAIN st.index
        <4>1. m # m0
          BY <2>3, <3>1
        <4>2. <<m>> # k0
          BY <1>3, <4>1
        <4> QED BY <1>5, <4>2
      <3>2. SFrom(ix, a) = SFrom(st.index, a)
        BY <3>1 DEF SFrom
      <3> QED BY <1>8, <2>1, <2>3, <3>2
    <2> QED BY <2>2, <2>3
  <1>10. SSenders(ix, ps)
    <2>1. ASSUME NEW a \in ForScan.Address
          PROVE  /\ ps[a].trusted => \E m \in ForScan.Mail : ForScan.Header[m].from = a /\ x4[m] = "rescued"
                 /\ ps[a].replies <= Cardinality(SPaired(ix, a))
      BY <1>2, <1>7, <1>8 DEF SSenders
    <2> QED BY <1>8, <1>9, <2>1 DEF SSenders
  <1>11. ASSUME NEW m, SBelieves(st.index, f, m) PROVE SBelieves(ix, f, m)
    BY <1>4, <1>5, <1>11 DEF SBelieves
  <1> QED BY <1>1, <1>3, <1>5, <1>6, <1>10, <1>11 DEF new, k0

\* A message of a scanned folder, known or not.
LEMMA SApplyOne ==
    ASSUME S!ScanAssumption, SMail, NEW st, STab(st), NEW f \in ForScan.Folder, NEW h, h.mail \in x3,
           SBelieves(st.index, f, h.mail)
    PROVE  /\ STab(S!ApplyOne(st, f, h))
           /\ \A m : SBelieves(st.index, f, m) => SBelieves(S!ApplyOne(st, f, h).index, f, m)
  <1> DEFINE seen == IF S!Known(st, f, h) THEN S!Locate(st, f, S!Key(f, h)) ELSE S!Indexed(st, f, h)
             k0 == S!Key(f, h)
             new == S!ApplyOne(st, f, h)
  <1>1. h.mail \in ForScan.Mail /\ k0[1] = h.mail
    BY DEF SMail, S!Key
  <1>2. /\ DOMAIN seen = {"index", "senders", "anomalies", "threads"}
        /\ SIndex(seen.index) /\ SSenders(seen.index, seen.senders)
        /\ (\A r \in DOMAIN seen.threads : seen.threads[r] \in ForScan.Mail)
        /\ \A k \in DOMAIN seen.index : k[1] \in ForScan.Mail /\ (SLatest(seen.threads, k[1]) \/ k[1] = h.mail)
        /\ \A m : SBelieves(st.index, f, m) => SBelieves(seen.index, f, m)
    <2>1. CASE S!Known(st, f, h)
      <3>1. seen = S!Locate(st, f, k0) /\ k0 \in DOMAIN st.index
        BY <2>1 DEF S!Known
      <3>2. STab(S!Locate(st, f, k0)) /\ \A m : SBelieves(st.index, f, m) => SBelieves(S!Locate(st, f, k0).index, f, m)
        <4> HIDE DEF k0
        <4> QED BY <1>1, <3>1, SLocates
      <3> HIDE DEF seen, k0
      <3>3. STab(seen)
        BY <3>1, <3>2
      <3>4. \A k \in DOMAIN seen.index : k[1] \in ForScan.Mail
        BY <3>3 DEF STab, STables, SIndex, SMail
      <3> QED BY <3>1, <3>2, <3>3, <3>4 DEF STab, STables, SThreads
    <2>2. CASE ~S!Known(st, f, h)
      <3>1. seen = S!Indexed(st, f, h) /\ k0 \notin DOMAIN st.index
        BY <2>2 DEF S!Known
      <3>2. /\ DOMAIN seen = {"index", "senders", "anomalies", "threads"}
            /\ SIndex(seen.index) /\ SSenders(seen.index, seen.senders)
            /\ DOMAIN seen.index = DOMAIN st.index \cup {k0}
            /\ seen.threads = st.threads
            /\ \A m : SBelieves(st.index, f, m) => SBelieves(seen.index, f, m)
        <4> HIDE DEF seen
        <4> QED BY <3>1, SIndexed
      <3>3. SThreads(st.index, st.threads)
        BY DEF STab, STables
      <3> HIDE DEF seen, k0
      <3>4. \A k \in DOMAIN seen.index : k[1] \in ForScan.Mail
        BY <3>2 DEF SIndex, SMail
      <3> QED BY <1>1, <3>2, <3>3, <3>4 DEF SThreads
    <2> QED BY <2>1, <2>2
  <1>3. new = [seen EXCEPT !.threads = S!Threaded(seen.threads, h.mail)]
    BY DEF S!ApplyOne
  <1> HIDE DEF seen, k0, new
  <1>4. /\ DOMAIN new = {"index", "senders", "anomalies", "threads"} /\ new.index = seen.index /\ new.senders = seen.senders
        /\ new.threads = S!Threaded(seen.threads, h.mail)
    BY <1>2, <1>3
  <1>5. SThreads(new.index, new.threads)
    <2> DEFINE th == seen.threads
               th2 == S!Threaded(th, h.mail)
    <2>1. (\A r \in DOMAIN th2 : th2[r] \in ForScan.Mail) /\ SLatest(th2, h.mail)
          /\ \A n \in ForScan.Mail : SLatest(th, n) => SLatest(th2, n)
      <3>1. \A r \in DOMAIN th : th[r] \in ForScan.Mail
        BY <1>2
      <3> HIDE DEF th
      <3> QED BY <1>1, <3>1, SThreaded
    <2> HIDE DEF th2
    <2>2. \A k \in DOMAIN seen.index : SLatest(th2, k[1])
      BY <1>2, <2>1
    <2> QED BY <1>4, <2>1, <2>2 DEF SThreads, th2
  <1> QED BY <1>2, <1>4, <1>5 DEF STab, STables, new

-----------------------------------------------------------------------------
(* The scanner's own steps.                                                *)

\* A batch, stored message by message, leaves the tables sound.
LEMMA SBatchStored ==
    ASSUME S!ScanAssumption, SInv, NEW kind \in {"apply", "locate"}, x12.step \in {"apply", "locapply"},
           NEW n \in Nat, DOMAIN x12.batch = 1..n, NEW f, Stored(kind, f, n)
    PROVE  STab(f[n])
  <1> DEFINE Good(k) == STab(f[k]) /\ \A i \in 1..n : SBelieves(f[k].index, x12.folder, x12.batch[i].mail)
             Bad == {k \in Nat : k <= n /\ ~Good(k)}
  <1>1. SMail /\ x12.folder \in ForScan.Folder /\ SBatchFits(x12.batch)
    BY DEF SInv, SLocals, SBatch
  <1>2. \A i \in 1..n : x12.batch[i].mail \in x3
    BY <1>1 DEF SBatchFits
  <1>3. Good(0)
    <2>1. f[0] = [index |-> x8, senders |-> x9, anomalies |-> x10, threads |-> x11]
      BY DEF Stored, S!Current
    <2>2. STab(f[0])
      BY <2>1 DEF STab, SInv
    <2>3. f[0].index = x8
      BY <2>1
    <2>4. \A i \in 1..n : SBelieves(x8, x12.folder, x12.batch[i].mail)
      BY DEF SInv, SBatch
    <2> QED BY <2>2, <2>3, <2>4
  <1>4. ASSUME NEW k \in Nat, k + 1 <= n, Good(k) PROVE Good(k + 1)
    <2> DEFINE h == x12.batch[k + 1]
    <2>1. k + 1 \in 1..n /\ (k + 1) - 1 = k
      BY <1>4
    <2>2. f[k + 1] = FoldStep(kind, f[k], k + 1)
      BY <2>1 DEF Stored
    <2>3. h.mail \in x3 /\ SBelieves(f[k].index, x12.folder, h.mail) /\ STab(f[k])
      BY <1>2, <1>4, <2>1
    <2>4. CASE kind = "apply"
      <3>1. f[k + 1] = S!ApplyOne(f[k], x12.folder, h)
        BY <2>2, <2>4 DEF FoldStep
      <3> HIDE DEF h
      <3>2. STab(f[k + 1]) /\ \A m : SBelieves(f[k].index, x12.folder, m) => SBelieves(f[k + 1].index, x12.folder, m)
        BY <1>1, <2>3, <3>1, SApplyOne
      <3> QED BY <1>4, <3>2
    <2>5. CASE kind = "locate"
      <3>1. f[k + 1] = S!LocateOne(f[k], x12.folder, h)
        BY <2>2, <2>5 DEF FoldStep
      <3> HIDE DEF h
      <3>2. STab(f[k + 1]) /\ \A m : SBelieves(f[k].index, x12.folder, m) => SBelieves(f[k + 1].index, x12.folder, m)
        BY <1>1, <2>3, <3>1, SLocateOne
      <3> QED BY <1>4, <3>2
    <2> QED BY <2>4, <2>5
  <1> HIDE DEF Good
  <1>5. Bad = {}
    <2>1. Bad \in SUBSET Nat /\ 0 \notin Bad
      BY <1>3
    <2>2. \A k \in Nat : k \notin Bad => k + 1 \notin Bad
      BY <1>4
    <2> HIDE DEF Bad
    <2> QED BY <2>1, <2>2, NoCounterexample
  <1>6. Good(n)
    BY <1>5
  <1> QED BY <1>6 DEF Good

\* The highest UID of a batch is one a folder hands out (store.go:233-236).
LEMMA SLastUID ==
    ASSUME S!ScanAssumption, NEW b, SBatchFits(b)
    PROVE  S!LastUID(b) \in 0..ForScan.MaxUID
  <1> DEFINE Q == {0} \cup {b[i].uid : i \in DOMAIN b}
  <1>1. Q \in SUBSET (0..ForScan.MaxUID) /\ Q # {} /\ ForScan.MaxUID \in Nat
    BY SConstants DEF SBatchFits
  <1> HIDE DEF Q
  <1>2. S!Max(Q) \in 0..ForScan.MaxUID
    BY <1>1, SMaxIn
  <1> QED BY <1>2 DEF S!LastUID, Q

\* The tables as a batch left them, with the mailbox as it was.
LEMMA STablesNext ==
    ASSUME NEW ix, NEW ps, NEW th, STables(ix, ps, th), UNCHANGED <<x1, x3, x4>>, x8' = ix, x9' = ps, x11' = th
    PROVE  STables(x8, x9, x11)'
  <1>1. SIndex(x8)'
    BY DEF STables, SIndex, SOnlyIn, S!At
  <1>2. SSenders(x8, x9)'
    <2>1. SSenders(ix, ps) /\ x4' = x4
      BY DEF STables
    <2>2. \A a : SFrom(x8, a)' = SFrom(ix, a) /\ SPaired(x8, a)' = SPaired(ix, a)
      BY DEF SPaired, SFrom, SAnswers
    <2> QED BY <2>1, <2>2 DEF SSenders
  <1>3. SThreads(x8, x11)'
    BY DEF STables, SThreads, SLatest
  <1> QED BY <1>1, <1>2, <1>3 DEF STables

\* A step of the scanner that leaves the mailbox alone.
LEMMA SQuiet ==
    ASSUME SInv, UNCHANGED <<x1, x2, x3, x4, x5>>, STables(x8, x9, x11)', SRows', SLocals', SBatch(x8)'
    PROVE  SInv'
  <1>1. SBox'
    BY DEF SInv, SBox, SFolderFits
  <1>2. SMail'
    BY DEF SInv, SMail, S!At
  <1> QED BY <1>1, <1>2 DEF SInv

\* A step of the scanner that leaves the tables alone, too, and ends without a batch.
LEMMA SQuieter ==
    ASSUME SInv, UNCHANGED <<x1, x2, x3, x4, x5, x8, x9, x11>>, SRows', SLocals', x12'.step \notin {"apply", "locapply"}
    PROVE  SInv'
  <1>1. STables(x8, x9, x11)
    BY DEF SInv
  <1>2. STables(x8, x9, x11)'
    BY <1>1, STablesNext
  <1>3. SBatch(x8)'
    BY DEF SBatch
  <1> QED BY <1>2, <1>3, SQuiet

\* A tick registers the folders (scanner.go).
LEMMA SStartTick == ASSUME S!ScanAssumption, SInv, S!StartTick PROVE SInv'
  <1>1. SRows /\ SLocals /\ x2 \subseteq ForScan.Folder
    BY DEF SInv, SMail
  <1>2. S!Scope(x2) \subseteq ForScan.Folder /\ S!LocationScope(x2) \subseteq ForScan.Folder
    <2> DEFINE whole == {f \in x2 : ForScan.Attr[f].all}
    <2>1. whole # {} => S!First(whole) \in whole
      BY <1>1, SFirst
    <2> QED BY <1>1, <2>1 DEF S!Scope, S!LocationScope
  <1> DEFINE todo == S!Scope(x2)
             locate == S!LocationScope(x2)
             active == S!HistoryComplete(x6')
             corr == {a \in ForScan.Address : x9[a].sent > 0}
  <1>3. /\ x6' = S!Register(x6, todo)
        /\ x12' = [x12 EXCEPT !.step = "folders", !.todo = todo, !.locate = locate, !.active = active, !.corr = corr]
        /\ UNCHANGED <<x1, x2, x3, x4, x5, x7, x8, x9, x11>>
    BY DEF S!StartTick, S!mailbox, S!index_
  <1> HIDE DEF todo, locate, active, corr
  <1>4. SLocals' /\ x12'.step = "folders"
    <2>1. /\ DOMAIN x12' = DOMAIN x12 /\ x12'.step = "folders" /\ x12'.todo = todo /\ x12'.locate = locate
          /\ x12'.valid = x12.valid /\ x12'.batchValid = x12.batchValid /\ x12'.after = x12.after
      BY <1>1, <1>3 DEF SLocals
    <2> QED BY <1>1, <1>2, <2>1 DEF SLocals, todo, locate
  <1>5. SRows'
    <2>1. ASSUME NEW f \in ForScan.Folder PROVE [x6[f] EXCEPT !.present = TRUE] \in SRow
      <3> DEFINE yes == TRUE
                 row == x6[f]
      <3>1. yes \in BOOLEAN /\ row \in SRow
        BY <1>1 DEF SRows
      <3> HIDE DEF yes, row
      <3>2. [row EXCEPT !.present = yes] \in SRow
        BY <3>1 DEF SRow
      <3> QED BY <3>2 DEF yes, row
    <2>2. S!NoRow \in SRow
      BY SConstants DEF S!NoRow, SRow
    <2>3. \A f \in ForScan.Folder : x6'[f] = IF f \notin todo THEN S!NoRow ELSE [x6[f] EXCEPT !.present = TRUE]
      BY <1>3 DEF S!Register
    <2>4. \A f \in ForScan.Folder : x6'[f] \in SRow
      BY <2>1, <2>2, <2>3
    <2>5. DOMAIN x6' = ForScan.Folder
      BY <1>3 DEF S!Register
    <2> QED BY <1>1, <1>3, <2>4, <2>5 DEF SRows
  <1> QED BY <1>3, <1>4, <1>5, SQuieter

\* The fields a step of the scanner sets.
LEMMA SOpen == ASSUME S!ScanAssumption, SInv, S!Open PROVE SInv'
  <1>1. SRows /\ SLocals
    BY DEF SInv
  <1> DEFINE f == S!First(x12.todo)
  <1>2. f \in x12.todo /\ f \in ForScan.Folder
    BY <1>1, SFirst DEF S!Open, SLocals
  <1>3. /\ x12' = [x12 EXCEPT !.step = "fetch", !.todo = x12.todo \ {f}, !.folder = f, !.valid = x6[f].valid, !.after = x6[f].last]
        /\ UNCHANGED <<x1, x2, x3, x4, x5, x6, x7, x8, x9, x11>>
    BY DEF S!Open, S!mailbox, S!store, S!index_
  <1> HIDE DEF f
  <1>4. x6[f].valid \in Nat /\ x6[f].last \in 0..ForScan.MaxUID
    BY <1>1, <1>2 DEF SRows, SRow
  <1>5. /\ DOMAIN x12' = DOMAIN x12 /\ x12'.step = "fetch" /\ x12'.todo = x12.todo \ {f} /\ x12'.locate = x12.locate
        /\ x12'.valid = x6[f].valid /\ x12'.batchValid = x12.batchValid /\ x12'.after = x6[f].last /\ x12'.folder = f
    BY <1>1, <1>3 DEF SLocals
  <1>6. SLocals'
    BY <1>1, <1>2, <1>4, <1>5 DEF SLocals
  <1>7. SRows'
    BY <1>1, <1>3 DEF SRows
  <1> QED BY <1>3, <1>5, <1>6, <1>7, SQuieter

\* The location pass takes its next folder.
LEMMA SOpenLocation == ASSUME S!ScanAssumption, SInv, S!OpenLocation PROVE SInv'
  <1>1. SRows /\ SLocals
    BY DEF SInv
  <1> DEFINE f == S!First(x12.locate)
  <1>2. f \in x12.locate /\ f \in ForScan.Folder
    BY <1>1, SFirst DEF S!OpenLocation, SLocals
  <1>3. /\ x12' = [x12 EXCEPT !.step = "locfetch", !.locate = x12.locate \ {f}, !.folder = f, !.valid = x7[f].valid, !.after = x7[f].last]
        /\ UNCHANGED <<x1, x2, x3, x4, x5, x6, x7, x8, x9, x11>>
    BY DEF S!OpenLocation, S!mailbox, S!store, S!index_
  <1> HIDE DEF f
  <1>4. x7[f].valid \in Nat /\ x7[f].last \in 0..ForScan.MaxUID
    BY <1>1, <1>2 DEF SRows, SRow
  <1>5. /\ DOMAIN x12' = DOMAIN x12 /\ x12'.step = "locfetch" /\ x12'.locate = x12.locate \ {f} /\ x12'.todo = x12.todo
        /\ x12'.valid = x7[f].valid /\ x12'.batchValid = x12.batchValid /\ x12'.after = x7[f].last /\ x12'.folder = f
    BY <1>1, <1>3 DEF SLocals
  <1>6. SLocals'
    BY <1>1, <1>2, <1>4, <1>5 DEF SLocals
  <1>7. SRows'
    BY <1>1, <1>3 DEF SRows
  <1> QED BY <1>3, <1>5, <1>6, <1>7, SQuieter

\* A batch is taken from the folder as it is; of each message in it the index
\* believes no more than the mailbox shows.
LEMMA SFetched ==
    ASSUME S!ScanAssumption, SInv, NEW step \in {"apply", "locapply"}, x12.folder \in ForScan.Folder,
           NEW uids \in S!InOrder(S!Lowest), x12' = S!Fetched(step, uids), UNCHANGED <<S!mailbox, S!store>>
    PROVE  SInv'
  <1>1. SBox /\ SMail /\ SRows /\ SLocals /\ SIndex(x8)
    BY DEF SInv, STables
  <1> DEFINE f == x12.folder
             b == x1[f]
             K == DOMAIN uids
             batch == [i \in K |-> [uid |-> uids[i], mail |-> b.mail[uids[i]]]]
             more == S!Cardinality(S!UIDsAbove) > ForScan.BatchSize
  <1>2. UNCHANGED <<x1, x2, x3, x4, x5, x6, x7, x8, x9, x11>>
    BY DEF S!mailbox, S!store, S!index_
  <1>3. SFolderFits(b)
    BY <1>1 DEF SBox
  <1>4. S!Lowest \subseteq DOMAIN b.mail
    BY DEF S!Lowest, S!UIDsAbove
  <1>5. \E n \in Nat : K = 1..n
    <2>1. S!Lowest \in SUBSET (1..ForScan.MaxUID) /\ ForScan.MaxUID \in Nat
      BY <1>3, <1>4, SConstants DEF SFolderFits
    <2>2. IsFiniteSet(S!Lowest)
      <3>1. IsFiniteSet(1..ForScan.MaxUID)
        BY <2>1, FS_Interval
      <3> QED BY <2>1, <3>1, FS_Subset
    <2>3. S!Cardinality(S!Lowest) \in Nat
      BY <2>2, SConstants, FS_CardinalityType
    <2>4. K = 1..S!Cardinality(S!Lowest)
      BY DEF S!InOrder
    <2> QED BY <2>3, <2>4
  <1>6. ASSUME NEW i \in K
        PROVE  uids[i] \in DOMAIN b.mail /\ uids[i] \in 1..ForScan.MaxUID /\ b.mail[uids[i]] \in S!At(f)
    <2>1. uids[i] \in S!Lowest
      BY DEF S!InOrder
    <2>2. uids[i] \in DOMAIN b.mail
      BY <1>4, <2>1
    <2>3. uids[i] \in 1..ForScan.MaxUID
      BY <1>3, <2>2, SConstants DEF SFolderFits
    <2> QED BY <2>2, <2>3 DEF S!At, S!Range
  <1>7. x12' = [x12 EXCEPT !.step = step, !.batchValid = b.valid, !.more = more, !.batch = batch]
    BY DEF S!Fetched
  <1>8. DOMAIN batch = K /\ \A i \in K : DOMAIN batch[i] = {"uid", "mail"} /\ batch[i].uid = uids[i] /\ batch[i].mail = b.mail[uids[i]]
    OBVIOUS
  <1> HIDE DEF batch, more
  <1>9. /\ DOMAIN x12' = DOMAIN x12 /\ x12'.step = step /\ x12'.batchValid = b.valid /\ x12'.batch = batch
        /\ x12'.todo = x12.todo /\ x12'.locate = x12.locate /\ x12'.valid = x12.valid /\ x12'.after = x12.after /\ x12'.folder = f
    BY <1>1, <1>7 DEF SLocals
  <1>10. SLocals'
    <2>1. b.valid \in Nat
      BY <1>3 DEF SFolderFits
    <2> HIDE DEF b
    <2> QED BY <1>1, <1>9, <2>1 DEF SLocals
  <1>11. ASSUME NEW i \in K PROVE batch[i].mail \in x3 /\ SBelieves(x8, f, batch[i].mail)
    <2> DEFINE m == batch[i].mail
    <2>1. m \in S!At(f) /\ m \in x3 /\ m \in ForScan.Mail
      BY <1>1, <1>6, <1>8 DEF SMail
    <2> HIDE DEF m
    <2>2. SOnlyIn(m, f) /\ (x4[m] = "taken" => S!Discarded(f))
      BY <1>1, <2>1 DEF SMail, SOnlyIn
    <2>3. ASSUME NEW k \in DOMAIN x8, k[1] = m, S!RescueFrom(x8[k].folder), x8[k].folder # f, ~S!Discarded(f)
          PROVE  x4[m] = "rescued"
      <3>1. x4[m] # ""
        BY <1>1, <2>1, <2>3 DEF SIndex, SOnlyIn
      <3>2. x4[m] \in {"", "taken", "rescued"}
        BY <1>1, <2>1 DEF SMail
      <3> QED BY <2>2, <2>3, <3>1, <3>2
    <2> QED BY <2>1, <2>2, <2>3 DEF SBelieves, m
  <1>12. SBatch(x8)'
    <2>1. x12'.batch = batch /\ x12'.folder = f /\ x12'.step = step /\ x3' = x3 /\ x8' = x8 /\ x1' = x1 /\ x4' = x4
      BY <1>2, <1>9
    <2>2. SBatchFits(x12.batch)'
      <3>1. \A i \in K : DOMAIN batch[i] = {"uid", "mail"} /\ batch[i].uid \in 1..ForScan.MaxUID /\ batch[i].mail \in x3
        BY <1>6, <1>8, <1>11
      <3> HIDE DEF K
      <3> QED BY <1>5, <1>8, <2>1, <3>1 DEF SBatchFits
    <2>3. ASSUME NEW i \in DOMAIN batch PROVE SBelieves(x8, x12.folder, x12.batch[i].mail)'
      <3>1. SBelieves(x8, f, batch[i].mail)
        BY <1>8, <1>11
      <3> HIDE DEF f
      <3> QED BY <2>1, <3>1 DEF SBelieves, SOnlyIn, S!At
    <2> QED BY <2>1, <2>2, <2>3 DEF SBatch
  <1>13. SRows'
    BY <1>1, <1>2 DEF SRows
  <1>14. STables(x8, x9, x11)'
    <2>1. STables(x8, x9, x11)
      BY DEF SInv
    <2> QED BY <1>2, <2>1, STablesNext
  <1> QED BY <1>2, <1>10, <1>12, <1>13, <1>14, SQuiet

\* The folder has other UIDs than the batch's before: read it again from its start.
LEMMA SFromStart ==
    ASSUME S!ScanAssumption, SInv, x12.folder \in ForScan.Folder, x12.step \in {"fetch", "locfetch"},
           x12' = [x12 EXCEPT !.valid = x1[x12.folder].valid, !.after = 0]
    PROVE  SLocals' /\ x12'.step \notin {"apply", "locapply"}
  <1>1. SLocals /\ x1[x12.folder].valid \in Nat /\ 0 \in 0..ForScan.MaxUID
    BY SConstants DEF SInv, SBox, SFolderFits
  <1> DEFINE v == x1[x12.folder].valid
  <1>2. /\ DOMAIN x12' = DOMAIN x12 /\ x12'.step = x12.step /\ x12'.batchValid = x12.batchValid
        /\ x12'.todo = x12.todo /\ x12'.locate = x12.locate /\ x12'.valid = v /\ x12'.after = 0 /\ x12'.folder = x12.folder
    BY <1>1 DEF SLocals
  <1> HIDE DEF v
  <1> QED BY <1>1, <1>2 DEF SLocals, v

\* A batch is fetched, by the scan or by the location pass.
LEMMA SFetch == ASSUME S!ScanAssumption, SInv, S!Fetch \/ S!LocationFetch PROVE SInv'
  <1>1. x12.step \in {"fetch", "locfetch"} /\ x12.folder \in ForScan.Folder /\ UNCHANGED <<S!mailbox, S!store>>
    BY DEF S!Fetch, S!LocationFetch, SInv, SLocals
  <1>2. CASE \E step \in {"apply", "locapply"} : \E uids \in S!InOrder(S!Lowest) : x12' = S!Fetched(step, uids)
    BY <1>1, <1>2, SFetched
  <1>3. CASE x12' = [x12 EXCEPT !.valid = x1[x12.folder].valid, !.after = 0]
    <2>1. SLocals' /\ x12'.step \notin {"apply", "locapply"}
      BY <1>1, <1>3, SFromStart
    <2>2. UNCHANGED <<x1, x2, x3, x4, x5, x6, x7, x8, x9, x11>>
      BY <1>1 DEF S!mailbox, S!store, S!index_
    <2>3. SRows'
      BY <2>2 DEF SInv, SRows
    <2> QED BY <2>1, <2>2, <2>3, SQuieter
  <1> QED BY <1>2, <1>3 DEF S!Fetch, S!LocationFetch

\* The folder's row goes back to its first message (store.go, resetFolder).
LEMMA SResetFolder == ASSUME S!ScanAssumption, SInv, S!ResetFolder PROVE SInv'
  <1> DEFINE f == x12.folder
             v == x1[f].valid
  <1>1. x12.step = "fetch" /\ f \in ForScan.Folder /\ v \in Nat /\ SRows
    BY DEF S!ResetFolder, SInv, SLocals, SBox, SFolderFits
  <1>2. UNCHANGED <<x1, x2, x3, x4, x5, x7, x8, x9, x11>> /\ x6' = S!Restarted(x6, f, v)
    BY DEF S!ResetFolder, S!mailbox, S!index_
  <1>3. SLocals' /\ x12'.step \notin {"apply", "locapply"}
    BY <1>1, SFromStart DEF S!ResetFolder
  <1> HIDE DEF f, v
  <1>4. [x6[f] EXCEPT !.valid = v, !.last = 0] \in SRow
    <2> DEFINE row == x6[f]
               q == [row EXCEPT !.valid = v, !.last = 0]
    <2>1. row \in SRow /\ 0 \in 0..ForScan.MaxUID /\ q = [row EXCEPT !.valid = v, !.last = 0]
      BY <1>1, SConstants DEF SRows
    <2> HIDE DEF row, q
    <2>2. q = [present |-> row.present, valid |-> v, last |-> 0, complete |-> row.complete]
      BY <2>1 DEF SRow
    <2>3. row.present \in BOOLEAN /\ row.complete \in BOOLEAN
      BY <2>1 DEF SRow
    <2>4. q \in SRow
      BY <1>1, <2>1, <2>2, <2>3 DEF SRow
    <2> QED BY <2>4 DEF row, q
  <1>5. SRows'
    <2>1. DOMAIN x6' = ForScan.Folder /\ \A g \in ForScan.Folder : x6'[g] \in SRow
      BY <1>1, <1>2, <1>4 DEF S!Restarted, SRows
    <2> QED BY <1>1, <1>2, <2>1 DEF SRows
  <1> QED BY <1>2, <1>3, <1>5, SQuieter

\* The scanner goes on to the next folder, or to the next part of the tick.
LEMMA SSkips ==
    ASSUME S!ScanAssumption, SInv, S!FolderGone \/ S!FetchFails \/ S!FoldersDone
    PROVE  SInv'
  <1>1. SLocals /\ SRows /\ SBox /\ SMail /\ STables(x8, x9, x11)
    BY DEF SInv
  <1>2. UNCHANGED <<x1, x2, x3, x4, x6, x7, x8, x9, x11>>
    BY DEF S!FolderGone, S!FetchFails, S!FoldersDone, S!mailbox, S!store, S!index_
  <1>3. PICK s \in {"folders", "locate"} : x12' = [x12 EXCEPT !.step = s]
    BY DEF S!FolderGone, S!FetchFails, S!FoldersDone, S!Skipped
  <1>4. /\ DOMAIN x12' = DOMAIN x12 /\ x12'.step = s /\ x12'.batchValid = x12.batchValid
        /\ x12'.todo = x12.todo /\ x12'.locate = x12.locate /\ x12'.valid = x12.valid /\ x12'.after = x12.after
    BY <1>1, <1>3 DEF SLocals
  <1>5. SLocals' /\ SBatch(x8)'
    BY <1>1, <1>4 DEF SLocals, SBatch
  <1>6. SRows' /\ SBox'
    BY <1>1, <1>2 DEF SRows, SBox, SFolderFits
  <1>7. x5' \in 0..ForScan.MaxChanges
    <2>1. CASE S!FetchFails
      BY <1>1, <2>1, SChange DEF S!FetchFails
    <2>2. CASE S!FolderGone \/ S!FoldersDone
      BY <1>1, <2>2 DEF S!FolderGone, S!FoldersDone, S!mailbox, SMail
    <2> QED BY <2>1, <2>2
  <1>8. SMail'
    BY <1>1, <1>2, <1>7 DEF SMail, S!At
  <1>9. STables(x8, x9, x11)'
    BY <1>1, <1>2, STablesNext
  <1> QED BY <1>5, <1>6, <1>8, <1>9 DEF SInv

\* The process dies; what it had of a batch is lost.
LEMMA SCrash == ASSUME S!ScanAssumption, SInv, S!Crash PROVE SInv'
  <1>1. SRows /\ SBox /\ SMail /\ STables(x8, x9, x11)
    BY DEF SInv
  <1>2. UNCHANGED <<x1, x2, x3, x4, x6, x7, x8, x9, x11>> /\ x12' = S!Idle
    BY DEF S!Crash, S!store, S!index_
  <1>3. SLocals' /\ SBatch(x8)'
    BY <1>2, SIdle DEF SBatch
  <1>4. SRows' /\ SBox'
    BY <1>1, <1>2 DEF SRows, SBox, SFolderFits
  <1>5. x5' \in 0..ForScan.MaxChanges
    BY <1>1, SChange DEF S!Crash
  <1>6. SMail'
    BY <1>1, <1>2, <1>5 DEF SMail, S!At
  <1>7. STables(x8, x9, x11)'
    BY <1>1, <1>2, STablesNext
  <1> QED BY <1>3, <1>4, <1>6, <1>7 DEF SInv

-----------------------------------------------------------------------------
(* The batch is stored, and the folder's progress with it.                 *)

\* The scan stores its batch.
LEMMA SApply == ASSUME S!ScanAssumption, SInv, S!Apply PROVE SInv'
  <1>1. SRows /\ SLocals /\ x12.step = "apply" /\ x12.folder \in ForScan.Folder /\ SBatchFits(x12.batch)
    BY DEF S!Apply, SInv, SLocals, SBatch
  <1>2. PICK n \in Nat : DOMAIN x12.batch = 1..n
    BY <1>1 DEF SBatchFits
  <1>3. PICK f : Stored("apply", f, n) /\ S!FoldLeft(LAMBDA st, h : S!ApplyOne(st, x12.folder, h), S!Current, x12.batch) = f[n]
    BY <1>2, ApplyFolds
  <1>4. STab(f[n])
    BY <1>1, <1>2, <1>3, SBatchStored
  <1>5. x8' = f[n].index /\ x9' = f[n].senders /\ x11' = f[n].threads /\ UNCHANGED <<x1, x2, x3, x4, x5, x7>>
    BY <1>3 DEF S!Apply, S!Stores, S!mailbox
  <1>6. STables(x8, x9, x11)'
    BY <1>4, <1>5, STablesNext DEF STab
  <1> DEFINE last == S!LastUID(x12.batch)
             after == S!Max({x12.after, last})
             row == x6[x12.folder]
             next == [present |-> TRUE, valid |-> x12.batchValid, last |-> S!Max({row.last, last}), complete |-> row.complete \/ ~x12.more]
             step == IF x12.more THEN "fetch" ELSE "folders"
  <1>7. last \in 0..ForScan.MaxUID
    BY <1>1, SLastUID
  <1>8. x6' = [x6 EXCEPT ![x12.folder] = next]
    BY DEF S!Apply, S!Finished
  <1>9. x12' = [x12 EXCEPT !.step = step, !.valid = x12.batchValid, !.after = after, !.batch = <<>>]
    BY DEF S!Apply
  <1>10. row \in SRow /\ ForScan.MaxUID \in Nat
    BY <1>1, SConstants DEF SRows
  <1>11. after \in 0..ForScan.MaxUID /\ S!Max({row.last, last}) \in 0..ForScan.MaxUID
    <2>1. x12.after \in 0..ForScan.MaxUID /\ row.last \in 0..ForScan.MaxUID
      BY <1>1, <1>10 DEF SLocals, SRow
    <2> HIDE DEF last, row
    <2> QED BY <1>7, <1>10, <2>1, SMaxIn
  <1>12. next \in SRow
    <2>1. (row.complete \/ ~x12.more) \in BOOLEAN /\ TRUE \in BOOLEAN /\ x12.batchValid \in Nat
      BY <1>1 DEF SLocals
    <2> HIDE DEF last, row
    <2> QED BY <1>11, <2>1 DEF SRow
  <1> HIDE DEF last, after, row, next, step
  <1>13. SRows'
    <2>1. DOMAIN x6' = ForScan.Folder /\ \A g \in ForScan.Folder : x6'[g] \in SRow
      BY <1>1, <1>8, <1>12 DEF SRows
    <2> QED BY <1>1, <1>5, <2>1 DEF SRows
  <1>14. /\ DOMAIN x12' = DOMAIN x12 /\ x12'.step = step /\ x12'.batchValid = x12.batchValid /\ x12'.folder = x12.folder
         /\ x12'.todo = x12.todo /\ x12'.locate = x12.locate /\ x12'.valid = x12.batchValid /\ x12'.after = after
    BY <1>1, <1>9 DEF SLocals
  <1>15. step \in {"fetch", "folders"}
    BY DEF step
  <1>16. SLocals' /\ SBatch(x8)'
    BY <1>1, <1>11, <1>14, <1>15 DEF SLocals, SBatch
  <1> QED BY <1>5, <1>6, <1>13, <1>16, SQuiet

\* The location pass stores its batch.
LEMMA SLocationApply == ASSUME S!ScanAssumption, SInv, S!LocationApply PROVE SInv'
  <1>1. SRows /\ SLocals /\ x12.step = "locapply" /\ x12.folder \in ForScan.Folder /\ SBatchFits(x12.batch)
    BY DEF S!LocationApply, SInv, SLocals, SBatch
  <1>2. PICK n \in Nat : DOMAIN x12.batch = 1..n
    BY <1>1 DEF SBatchFits
  <1>3. PICK f : Stored("locate", f, n) /\ S!FoldLeft(LAMBDA st, h : S!LocateOne(st, x12.folder, h), S!Current, x12.batch) = f[n]
    BY <1>2, LocateFolds
  <1>4. STab(f[n])
    BY <1>1, <1>2, <1>3, SBatchStored
  <1>5. x8' = f[n].index /\ x9' = f[n].senders /\ x11' = f[n].threads /\ UNCHANGED <<x1, x2, x3, x4, x5, x6>>
    BY <1>3 DEF S!LocationApply, S!Stores, S!mailbox
  <1>6. STables(x8, x9, x11)'
    BY <1>4, <1>5, STablesNext DEF STab
  <1> DEFINE last == S!LastUID(x12.batch)
             after == S!Max({x12.after, last})
             next == [present |-> TRUE, valid |-> x12.batchValid, complete |-> FALSE, last |-> after]
             step == IF x12.more THEN "locfetch" ELSE "locate"
  <1>7. last \in 0..ForScan.MaxUID
    BY <1>1, SLastUID
  <1>8. x7' = [x7 EXCEPT ![x12.folder] = next]
    BY DEF S!LocationApply
  <1>9. x12' = [x12 EXCEPT !.step = step, !.valid = x12.batchValid, !.after = after, !.batch = <<>>]
    BY DEF S!LocationApply
  <1>10. after \in 0..ForScan.MaxUID
    <2>1. x12.after \in 0..ForScan.MaxUID /\ ForScan.MaxUID \in Nat
      BY <1>1, SConstants DEF SLocals
    <2> HIDE DEF last
    <2> QED BY <1>7, <2>1, SMaxIn
  <1>11. next \in SRow
    <2>1. TRUE \in BOOLEAN /\ FALSE \in BOOLEAN /\ x12.batchValid \in Nat
      BY <1>1 DEF SLocals
    <2> HIDE DEF after
    <2> QED BY <1>10, <2>1 DEF SRow
  <1> HIDE DEF last, after, next, step
  <1>12. SRows'
    <2>1. DOMAIN x7' = ForScan.Folder /\ \A g \in ForScan.Folder : x7'[g] \in SRow
      BY <1>1, <1>8, <1>11 DEF SRows
    <2> QED BY <1>1, <1>5, <2>1 DEF SRows
  <1>13. /\ DOMAIN x12' = DOMAIN x12 /\ x12'.step = step /\ x12'.batchValid = x12.batchValid /\ x12'.folder = x12.folder
         /\ x12'.todo = x12.todo /\ x12'.locate = x12.locate /\ x12'.valid = x12.batchValid /\ x12'.after = after
    BY <1>1, <1>9 DEF SLocals
  <1>14. step \in {"locfetch", "locate"}
    BY DEF step
  <1>15. SLocals' /\ SBatch(x8)'
    BY <1>1, <1>10, <1>13, <1>14 DEF SLocals, SBatch
  <1> QED BY <1>5, <1>6, <1>12, <1>15, SQuiet

-----------------------------------------------------------------------------
(* An answer is paired once: what a profile counts are paired answers.     *)

\* The owner's new answers are paired with what they answer (store.go, pairReplies).
LEMMA SPairs == ASSUME S!ScanAssumption, SInv, S!PairReplies PROVE SInv'
  <1>1. SRows /\ SMail /\ SIndex(x8) /\ SSenders(x8, x9) /\ SThreads(x8, x11)
    BY DEF SInv, STables
  <1> DEFINE J == S!Pairable
             more(a) == S!Cardinality(S!Timely(a))
             row(k) == [x8[k] EXCEPT !.paired = TRUE]
             ix == [k \in DOMAIN x8 |-> IF k \in J THEN row(k) ELSE x8[k]]
             ps == [a \in ForScan.Address |-> [x9[a] EXCEPT !.replies = @ + more(a)]]
  <1>2. x8' = ix /\ x9' = ps /\ UNCHANGED <<x1, x2, x3, x4, x5, x6, x7, x11>> /\ x12' = S!Idle
    BY DEF S!PairReplies, S!mailbox
  <1>3. ASSUME NEW k \in DOMAIN x8
        PROVE  row(k) \in [folder: ForScan.Folder, paired: BOOLEAN] /\ row(k).folder = x8[k].folder /\ row(k).paired
    <2> DEFINE yes == TRUE
               old == x8[k]
               q == [old EXCEPT !.paired = yes]
    <2>1. old \in [folder: ForScan.Folder, paired: BOOLEAN] /\ q = [old EXCEPT !.paired = yes] /\ yes \in BOOLEAN
      BY <1>1 DEF SIndex
    <2> HIDE DEF old, yes, q
    <2>2. q = [folder |-> old.folder, paired |-> yes]
      BY <2>1
    <2>3. q \in [folder: ForScan.Folder, paired: BOOLEAN] /\ q.folder = old.folder /\ q.paired = yes
      BY <2>1, <2>2
    <2> QED BY <2>3 DEF old, yes, q
  <1>4. J \subseteq DOMAIN x8 /\ \A k \in J : S!Outgoing(k[1]) /\ ~x8[k].paired /\ ForScan.Header[k[1]].answers \in ForScan.Mail
    <2>1. ASSUME NEW k \in J PROVE ForScan.Header[k[1]].answers \in ForScan.Mail
      <3> DEFINE n == ForScan.Header[k[1]].answers
      <3>1. <<n>> \in DOMAIN x8 /\ <<n>>[1] = n
        BY DEF S!Pairable
      <3> HIDE DEF n
      <3>2. n \in x3
        BY <1>1, <3>1 DEF SIndex
      <3> QED BY <1>1, <3>2 DEF SMail, n
    <2> QED BY <2>1 DEF S!Pairable
  <1>5. /\ DOMAIN ix = DOMAIN x8
        /\ \A k \in DOMAIN x8 : ix[k] \in [folder: ForScan.Folder, paired: BOOLEAN] /\ ix[k].folder = x8[k].folder
        /\ \A k \in DOMAIN x8 : ix[k].paired <=> x8[k].paired \/ k \in J
    <2> HIDE DEF row, J
    <2>1. \A k \in DOMAIN x8 : x8[k] \in [folder: ForScan.Folder, paired: BOOLEAN]
      BY <1>1 DEF SIndex
    <2> QED BY <1>3, <2>1
  <1> HIDE DEF ix, J, row
  <1>6. SIndex(ix)
    BY <1>1, <1>5 DEF SIndex
  <1>7. ASSUME NEW a \in ForScan.Address
        PROVE  more(a) \in Nat /\ Cardinality(SPaired(x8, a)) + more(a) <= Cardinality(SPaired(ix, a))
               /\ Cardinality(SPaired(x8, a)) \in Nat /\ Cardinality(SPaired(ix, a)) \in Nat
    <2> DEFINE A == SPaired(x8, a)
               Z == S!Timely(a)
               C == SPaired(ix, a)
    <2>1. Z \subseteq J /\ \A k \in Z : ForScan.Header[ForScan.Header[k[1]].answers].from = a
      BY DEF S!Timely, J
    <2>2. \A k \in Z : k[1] \in SAnswers(a)
      <3>1. \A k \in Z : k[1] \in ForScan.Mail
        BY <1>1, <1>4, <2>1 DEF SIndex, SMail
      <3> QED BY <1>4, <2>1, <3>1 DEF SAnswers
    <2>3. A \subseteq C /\ Z \subseteq C /\ A \cap Z = {} /\ C \subseteq DOMAIN x8
      BY <1>4, <1>5, <2>1, <2>2 DEF SPaired
    <2>4. IsFiniteSet(DOMAIN x8)
      BY <1>1 DEF SIndex
    <2> HIDE DEF A, Z, C
    <2>5. IsFiniteSet(A) /\ IsFiniteSet(Z) /\ IsFiniteSet(C) /\ A \cup Z \subseteq C
      <3>1. A \subseteq DOMAIN x8 /\ Z \subseteq DOMAIN x8
        BY <2>3
      <3> QED BY <2>3, <2>4, <3>1, FS_Subset
    <2>6. Cardinality(A) \in Nat /\ Cardinality(Z) \in Nat /\ Cardinality(C) \in Nat
      BY <2>5, FS_CardinalityType
    <2>7. Cardinality(A \cup Z) = Cardinality(A) + Cardinality(Z) - Cardinality(A \cap Z)
      BY <2>5, FS_Union
    <2>8. Cardinality(A \cap Z) = 0
      BY <2>3, FS_EmptySet
    <2>9. Cardinality(A \cup Z) <= Cardinality(C)
      BY <2>5, FS_Subset
    <2>10. more(a) = Cardinality(Z)
      BY SConstants DEF Z
    <2> HIDE DEF more
    <2> QED BY <2>6, <2>7, <2>8, <2>9, <2>10 DEF A, C
  <1> HIDE DEF more
  <1>8. /\ ps \in [ForScan.Address -> S!Profile]
        /\ \A a \in ForScan.Address : ps[a].received = x9[a].received /\ ps[a].replies = x9[a].replies + more(a) /\ ps[a].trusted = x9[a].trusted
    <2>1. x9 \in [ForScan.Address -> S!Profile]
      BY <1>1 DEF SSenders
    <2>2. \A a \in ForScan.Address : LET q == [x9[a] EXCEPT !.replies = @ + more(a)] IN
            q \in S!Profile /\ q.received = x9[a].received /\ q.replies = x9[a].replies + more(a) /\ q.trusted = x9[a].trusted
      BY <1>7, <2>1, SProfile
    <2>3. \A a \in ForScan.Address : ps[a] = [x9[a] EXCEPT !.replies = @ + more(a)]
      OBVIOUS
    <2>4. ps \in [ForScan.Address -> S!Profile]
      BY <2>2
    <2> HIDE DEF ps
    <2> QED BY <2>2, <2>3, <2>4
  <1> HIDE DEF ps
  <1>9. SSenders(ix, ps)
    <2>1. \A a : SFrom(ix, a) = SFrom(x8, a)
      BY <1>5 DEF SFrom
    <2>2. ASSUME NEW a \in ForScan.Address
          PROVE  ps[a].replies <= Cardinality(SPaired(ix, a)) /\ (ps[a].trusted => \E m \in ForScan.Mail : ForScan.Header[m].from = a /\ x4[m] = "rescued")
      <3>1. x9[a].replies \in Nat /\ x9[a].replies <= Cardinality(SPaired(x8, a))
        BY <1>1 DEF SSenders, S!Profile
      <3>2. ps[a].replies <= Cardinality(SPaired(ix, a))
        BY <1>7, <1>8, <3>1
      <3> QED BY <1>1, <1>8, <3>2 DEF SSenders
    <2> QED BY <1>1, <1>8, <2>1, <2>2 DEF SSenders
  <1>10. SThreads(ix, x11)
    BY <1>1, <1>5 DEF SThreads
  <1>11. STables(x8, x9, x11)'
    <2>1. STables(ix, ps, x11)
      BY <1>6, <1>9, <1>10 DEF STables
    <2> QED BY <1>2, <2>1, STablesNext
  <1>12. SLocals' /\ SBatch(x8)'
    BY <1>2, SIdle DEF SBatch
  <1>13. SRows'
    BY <1>1, <1>2 DEF SRows
  <1> QED BY <1>2, <1>11, <1>12, <1>13, SQuiet

\* Every step of the scan keeps the invariant.
LEMMA SNext == ASSUME S!ScanAssumption, SInv, S!Next PROVE SInv'
  <1>1. CASE S!Environment
    BY <1>1, SEnvironment
  <1>2. CASE S!Fetch \/ S!LocationFetch
    BY <1>2, SFetch
  <1>3. CASE S!FolderGone \/ S!FetchFails \/ S!FoldersDone
    BY <1>3, SSkips
  <1>4. CASE S!StartTick
    BY <1>4, SStartTick
  <1>5. CASE S!Open
    BY <1>5, SOpen
  <1>6. CASE S!ResetFolder
    BY <1>6, SResetFolder
  <1>7. CASE S!Apply
    BY <1>7, SApply
  <1>8. CASE S!OpenLocation
    BY <1>8, SOpenLocation
  <1>9. CASE S!LocationApply
    BY <1>9, SLocationApply
  <1>10. CASE S!PairReplies
    BY <1>10, SPairs
  <1>11. CASE S!Crash
    BY <1>11, SCrash
  <1> QED BY <1>1, <1>2, <1>3, <1>4, <1>5, <1>6, <1>7, <1>8, <1>9, <1>10, <1>11 DEF S!Next, S!Scanner

\* The invariant gives the types.
LEMMA STypes == ASSUME S!ScanAssumption, SInv PROVE S!TypeOK
  <1>1. SBox /\ SMail /\ SRows /\ SIndex(x8) /\ SSenders(x8, x9) /\ SThreads(x8, x11) /\ SLocals
    BY DEF SInv, STables
  <1>2. \A f \in ForScan.Folder : S!At(f) \subseteq ForScan.Mail /\ DOMAIN x1[f].mail \subseteq 1..ForScan.MaxUID
    <2>1. \A f \in ForScan.Folder : S!At(f) \subseteq ForScan.Mail
      BY <1>1, SFewMails
    <2>2. \A f \in ForScan.Folder : DOMAIN x1[f].mail \subseteq 1..ForScan.MaxUID
      BY <1>1, SConstants DEF SBox, SFolderFits
    <2> QED BY <2>1, <2>2
  <1>3. \A f \in ForScan.Folder : \A r \in {x6[f], x7[f]} : r.valid \in Nat /\ r.last \in 0..ForScan.MaxUID
    BY <1>1 DEF SRows, SRow
  <1>4. \A k \in DOMAIN x8 : k[1] \in ForScan.Mail /\ x8[k].folder \in ForScan.Folder
    BY <1>1 DEF SIndex, SMail
  <1>5. x9 \in [ForScan.Address -> S!Profile] /\ \A r \in DOMAIN x11 : x11[r] \in ForScan.Mail
    BY <1>1 DEF SSenders, SThreads
  <1>6. x2 \subseteq ForScan.Folder /\ x3 \subseteq ForScan.Mail /\ x4 \in [ForScan.Mail -> {"", "taken", "rescued"}] /\ x5 \in 0..ForScan.MaxChanges
    BY <1>1 DEF SMail
  <1>7. DOMAIN x1 = ForScan.Folder /\ x12.step \in {"idle", "folders", "fetch", "apply", "locate", "locfetch", "locapply"}
    BY <1>1 DEF SBox, SLocals
  <1> QED BY <1>2, <1>3, <1>4, <1>5, <1>6, <1>7 DEF S!TypeOK

\* Answers with a Message-ID are indexed under it, so paired rows are as many answers.
LEMMA SPairedOnce ==
    ASSUME S!ScanAssumption, SMail, SIndex(x8), NEW a, \A m \in SAnswers(a) : ForScan.Header[m].id
    PROVE  Cardinality(SPaired(x8, a)) <= Cardinality(SAnswers(a))
  <1> DEFINE g == [k \in SPaired(x8, a) |-> k[1]]
  <1>1. IsFiniteSet(SAnswers(a))
    <2>1. SAnswers(a) \in SUBSET ForScan.Mail
      BY DEF SAnswers
    <2> QED BY <2>1, SConstants, FS_Subset
  <1>2. \A k \in SPaired(x8, a) : k[1] \in SAnswers(a) /\ k = <<k[1]>>
    BY DEF SPaired, SIndex
  <1>3. g \in Injection(SPaired(x8, a), SAnswers(a))
    BY <1>2 DEF Injection, IsInjective
  <1> QED BY <1>1, <1>3, FS_Injection

\* The invariant gives what the index promises.
LEMMA SRight == ASSUME S!ScanAssumption, SInv PROVE S!CountedOnce /\ S!TrustIsRescue /\ S!ThreadIsLatest
  <1>1. SMail /\ SIndex(x8) /\ SSenders(x8, x9) /\ SThreads(x8, x11)
    BY DEF SInv, STables
  <1>2. S!CountedOnce
    <2> SUFFICES ASSUME NEW a \in ForScan.Address \ ForScan.Own
        PROVE  LET mails == {m \in ForScan.Mail : ForScan.Header[m].from = a}
                   replies == {m \in ForScan.Mail : S!Outgoing(m) /\ ForScan.Header[m].answers \in mails}
               IN  /\ (\A m \in mails : ForScan.Header[m].id) =>
                           x9[a].received = S!Cardinality({m \in mails : <<m>> \in DOMAIN x8})
                   /\ (\A m \in replies : ForScan.Header[m].id) => x9[a].replies <= S!Cardinality(replies)
      BY DEF S!CountedOnce
    <2> DEFINE mails == {m \in ForScan.Mail : ForScan.Header[m].from = a}
    <2>1. {m \in mails : <<m>> \in DOMAIN x8} = SFrom(x8, a)
      BY DEF SFrom
    <2>2. {m \in ForScan.Mail : S!Outgoing(m) /\ ForScan.Header[m].answers \in mails} = SAnswers(a)
      BY DEF SAnswers
    <2>3. \A S0 : S!Cardinality(S0) = Cardinality(S0)
      BY SConstants
    <2>4. (\A m \in mails : ForScan.Header[m].id) => x9[a].received = Cardinality(SFrom(x8, a))
      BY <1>1 DEF SSenders
    <2>5. ASSUME \A m \in SAnswers(a) : ForScan.Header[m].id PROVE x9[a].replies <= Cardinality(SAnswers(a))
      <3>1. Cardinality(SPaired(x8, a)) <= Cardinality(SAnswers(a))
        BY <1>1, <2>5, SPairedOnce
      <3>2. x9[a].replies <= Cardinality(SPaired(x8, a)) /\ x9[a].replies \in Nat
        BY <1>1 DEF SSenders, S!Profile
      <3>3. Cardinality(SPaired(x8, a)) \in Nat /\ Cardinality(SAnswers(a)) \in Nat
        <4>1. SPaired(x8, a) \in SUBSET DOMAIN x8 /\ IsFiniteSet(DOMAIN x8) /\ SAnswers(a) \in SUBSET ForScan.Mail
          BY <1>1 DEF SPaired, SIndex, SAnswers
        <4>2. IsFiniteSet(SPaired(x8, a)) /\ IsFiniteSet(SAnswers(a))
          BY <4>1, SConstants, FS_Subset
        <4> QED BY <4>2, FS_CardinalityType
      <3> QED BY <3>1, <3>2, <3>3
    <2> HIDE DEF mails
    <2> QED BY <2>1, <2>2, <2>3, <2>4, <2>5 DEF mails
  <1>3. S!TrustIsRescue
    BY <1>1 DEF SSenders, S!TrustIsRescue
  <1>4. S!ThreadIsLatest
    <2> SUFFICES ASSUME NEW k \in DOMAIN x8 PROVE S!Threaded(x11, k[1]) = x11
      BY DEF S!ThreadIsLatest
    <2>1. SLatest(x11, k[1])
      BY <1>1 DEF SThreads
    <2> QED BY <2>1 DEF SLatest, SJoins, S!Threaded
  <1> QED BY <1>2, <1>3, <1>4

-----------------------------------------------------------------------------
(* The scenes.                                                             *)

\* A step of nothing keeps what holds of the scan.
LEMMA SStays == ASSUME SInv, UNCHANGED services PROVE SInv'
  <1>1. UNCHANGED <<x1, x2, x3, x4, x5, x6, x7, x8, x9, x11, x12>>
    BY DEF services
  <1>2. SRows /\ SLocals /\ SBatch(x8) /\ STables(x8, x9, x11)
    BY DEF SInv
  <1>3. SRows' /\ SLocals'
    BY <1>1, <1>2 DEF SRows, SLocals
  <1>4. SBatch(x8)'
    BY <1>1, <1>2 DEF SBatch, SBatchFits, SBelieves, SOnlyIn, S!At
  <1>5. STables(x8, x9, x11)'
    BY <1>1, <1>2, STablesNext
  <1> QED BY <1>1, <1>3, <1>4, <1>5, SQuiet

\* A step of nothing keeps what holds of the graph.
LEMMA GStays == ASSUME GInv, UNCHANGED services PROVE GInv'
  <1>1. UNCHANGED <<x1, x2, x3, x4, x5, x6, x7, x8, x9, x10, x11>>
    BY DEF services
  <1>2. GTypes'
    BY <1>1 DEF GInv, GTypes, G!TypeOK
  <1>3. GCalls'
    BY <1>1 DEF GInv, GCalls, GAsked
  <1>4. GWeighs(x7, x4, x5, x6, x9)'
    BY <1>1 DEF GInv
  <1> QED BY <1>2, <1>3, <1>4 DEF GInv

\* What holds of the index in every reachable state, whichever scene it is in.
IndexInv == (At("scan") => SInv) /\ (At("graph") => GInv)

\* Both invariants hold in every reachable state.
LEMMA IndexInvHolds == IndexSpec => []IndexInv
  <1>1. IndexInit => IndexInv
    <2> SUFFICES ASSUME IndexInit PROVE IndexInv
      OBVIOUS
    <2>1. At("scan") => S!Init
      BY DEF IndexInit, At
    <2>2. At("graph") => G!Init
      BY DEF IndexInit, At
    <2> QED BY <2>1, <2>2, SInit, GInit, IndexAssumption DEF IndexInv
  <1>2. IndexInv /\ [IndexNext]_services => IndexInv'
    <2> SUFFICES ASSUME IndexInv, [IndexNext]_services PROVE IndexInv'
      OBVIOUS
    <2>1. scene' = scene
      BY DEF IndexNext, services, Beyond12, Beyond11
    <2>2. CASE UNCHANGED services
      BY <2>1, <2>2, SStays, GStays DEF IndexInv, At
    <2>3. CASE At("scan") /\ S!Next
      BY <2>1, <2>3, SNext, IndexAssumption DEF IndexInv, At
    <2>4. CASE At("graph") /\ G!Next
      BY <2>1, <2>4, GNext, IndexAssumption DEF IndexInv, At
    <2> QED BY <2>2, <2>3, <2>4 DEF IndexNext
  <1> QED BY <1>1, <1>2, PTL DEF IndexSpec

\* Every table, row and local of the scan and of the graph keeps its type
\* (internal/intel/store.go, internal/intel/kg.go).
THEOREM IndexTypesCorrect == IndexSpec => []IndexTypeOK
  <1>1. IndexInv => IndexTypeOK
    BY STypes, IndexAssumption DEF IndexInv, IndexTypeOK, GInv, GTypes
  <1> QED BY <1>1, IndexInvHolds, PTL

\* Each message with a Message-ID is counted once and each answer paired once,
\* a sender is trusted only because its owner rescued a message of theirs, and a
\* conversation ends with its newest message, whatever the batches, moves,
\* renumberings and restarts between (internal/intel/store.go, locations.go).
THEOREM IndexIsRight == IndexSpec => []IndexRight
  <1>1. IndexInv => IndexRight
    BY SRight, IndexAssumption DEF IndexInv, IndexRight
  <1> QED BY <1>1, IndexInvHolds, PTL

\* A relation of the graph weighs exactly what speaks for it, from its first to
\* its last message, and a body is given to the model once but for the ticks
\* that broke off (internal/intel/kg.go).
THEOREM GraphWeighsEvidence == IndexSpec => []GraphIsEvidence
  <1>1. IndexInv => GraphIsEvidence
    BY GRowsRight, GReadOnce, IndexAssumption DEF IndexInv, GraphIsEvidence
  <1> QED BY <1>1, IndexInvHolds, PTL

-----------------------------------------------------------------------------
(* The whole run.  A behaviour of MCServices is one of Services, of        *)
(* Judgements or of Intelligence, by the scene it is about; of the other   *)
(* two nothing is asked.                                                   *)

OnService   == scene \in {"pool", "unsubscribe", "files", "stream", "tokens"}
OnJudgement == scene \in {"learning", "verdicts", "evaluation", "replies", "identity"}
OnIndex     == scene \in {"scan", "graph"}

\* A behaviour begins in one of the three groups of scenes.
LEMMA BeginsSomewhere ==
    ASSUME Begins
    PROVE  (OnService /\ Init) \/ (OnJudgement /\ JudgingInit) \/ (OnIndex /\ IndexInit)
  BY DEF Begins, Init, JudgingInit, IndexInit, OnService, OnJudgement, OnIndex, At

\* A step about the service's workings is theirs.
LEMMA ServiceMoves == ASSUME OnService, [Moves]_services PROVE [Next]_services /\ OnService'
  <1>1. ASSUME JudgingNext PROVE FALSE
    BY <1>1 DEF JudgingNext, OnService, At
  <1>2. ASSUME IndexNext PROVE FALSE
    BY <1>2 DEF IndexNext, OnService, At
  <1>3. [Next]_services
    BY <1>1, <1>2 DEF Moves
  <1>4. scene' = scene
    BY <1>3, SceneStays
  <1> QED BY <1>3, <1>4 DEF OnService

\* A step about a judgement is the judgements'.
LEMMA JudgementMoves == ASSUME OnJudgement, [Moves]_services PROVE [JudgingNext]_services /\ OnJudgement'
  <1>1. ASSUME Next PROVE FALSE
    BY <1>1 DEF Next, OnJudgement, At
  <1>2. ASSUME IndexNext PROVE FALSE
    BY <1>2 DEF IndexNext, OnJudgement, At
  <1>3. [JudgingNext]_services
    BY <1>1, <1>2 DEF Moves
  <1>4. scene' = scene
    BY <1>3, JudgingSceneStays
  <1> QED BY <1>3, <1>4 DEF OnJudgement

\* A step about the index is the index's.
LEMMA IndexMoves == ASSUME OnIndex, [Moves]_services PROVE [IndexNext]_services /\ OnIndex'
  <1>1. ASSUME Next PROVE FALSE
    BY <1>1 DEF Next, OnIndex, At
  <1>2. ASSUME JudgingNext PROVE FALSE
    BY <1>2 DEF JudgingNext, OnIndex, At
  <1>3. [IndexNext]_services
    BY <1>1, <1>2 DEF Moves
  <1>4. scene' = scene
    BY <1>3 DEF IndexNext, services, Beyond11, Beyond12
  <1> QED BY <1>3, <1>4 DEF OnIndex

\* So every behaviour of the run, fair or not, is one of the three modules'.
LEMMA OneGroupEach ==
    FairSpec => ([]OnService /\ Spec) \/ ([]OnJudgement /\ JudgingSpec) \/ ([]OnIndex /\ IndexSpec)
  <1>1. Begins => (OnService /\ Init) \/ (OnJudgement /\ JudgingInit) \/ (OnIndex /\ IndexInit)
    BY BeginsSomewhere
  <1>2. OnService /\ [Moves]_services => [Next]_services /\ OnService'
    BY ServiceMoves
  <1>3. OnJudgement /\ [Moves]_services => [JudgingNext]_services /\ OnJudgement'
    BY JudgementMoves
  <1>4. OnIndex /\ [Moves]_services => [IndexNext]_services /\ OnIndex'
    BY IndexMoves
  <1>5. Begins /\ [][Moves]_services =>
          ([]OnService /\ Spec) \/ ([]OnJudgement /\ JudgingSpec) \/ ([]OnIndex /\ IndexSpec)
    BY <1>1, <1>2, <1>3, <1>4, PTL DEF Spec, JudgingSpec, IndexSpec
  <1> QED BY <1>5, PTL DEF FairSpec

\* Every scene's variables keep their types, in a process whose parts all run.
THEOREM AllTypesCorrect == FairSpec => []TypesKept
  <1>1. OnService /\ TypeOK => TypesKept
    BY DEF OnService, TypesKept, JudgingTypeOK, IndexTypeOK, At
  <1>2. OnJudgement /\ JudgingTypeOK => TypesKept
    BY DEF OnJudgement, TypesKept, TypeOK, IndexTypeOK, At
  <1>3. OnIndex /\ IndexTypeOK => TypesKept
    BY DEF OnIndex, TypesKept, TypeOK, JudgingTypeOK, At
  <1> QED BY <1>1, <1>2, <1>3, OneGroupEach, TypeCorrect, JudgingTypesCorrect, IndexTypesCorrect, PTL

\* What Services promises holds of the whole run.
LEMMA ServicesPromises == FairSpec => PoolSafe /\ [](UnsubscribeRight /\ DbFilesRight /\ NoneMissed /\ FileStaysGood)
  <1> DEFINE Step  == At("pool") => P!ClosesUnused /\ P!MapIsCurrent'
             State == UnsubscribeRight /\ DbFilesRight /\ NoneMissed /\ FileStaysGood
  <1>1. OnJudgement \/ OnIndex => State
    BY DEF OnJudgement, OnIndex, UnsubscribeRight, DbFilesRight, NoneMissed, FileStaysGood, At
  <1>2. OnJudgement \/ OnIndex => Step
    BY DEF OnJudgement, OnIndex, At
  <1>3. PoolSafe <=> [][Step]_services
    BY DEF PoolSafe
  <1> HIDE DEF Step
  <1>4. Spec => [][Step]_services
    BY <1>3, PoolIsSafe
  <1>5. Spec => []State
    BY UnsubscribesAsAsked, StoredRowsStay, EventsReachClients, SignedInOnce, PTL
  <1> HIDE DEF State
  <1>6. FairSpec => [][Step]_services /\ []State
    BY <1>1, <1>2, <1>4, <1>5, OneGroupEach, PTL
  <1> QED BY <1>3, <1>6 DEF State

\* What Judgements promises holds of the whole run.
LEMMA JudgementsPromises == FairSpec => DecisionsStand /\ RepliesRight /\ [](LearnsFromOwner /\ AskIsRaised /\ OwnerIsKnown)
  <1> DEFINE Decided  == /\ At("learning") => L!KeepsDismissals
                         /\ At("verdicts") => V!KeepsVerdicts
                         /\ At("identity") => I!KeepsDecisions
             Replied  == At("replies") => R!StaysOpen' /\ R!AnswersInFull
             State    == LearnsFromOwner /\ AskIsRaised /\ OwnerIsKnown
  <1>1. OnService \/ OnIndex => State
    BY DEF OnService, OnIndex, LearnsFromOwner, AskIsRaised, OwnerIsKnown, At
  <1>2. OnService \/ OnIndex => Decided
    BY DEF OnService, OnIndex, At
  <1>3. OnService \/ OnIndex => Replied
    BY DEF OnService, OnIndex, At
  <1>4. DecisionsStand <=> [][Decided]_services
    BY DEF DecisionsStand
  <1>5. RepliesRight <=> [][Replied]_services
    BY DEF RepliesRight
  <1> HIDE DEF Decided, Replied
  <1>6. JudgingSpec => [][Decided]_services
    BY <1>4, WhatWasDecidedStands
  <1>7. JudgingSpec => [][Replied]_services
    BY <1>5, ConversationsStayOpen
  <1>8. JudgingSpec => []State
    BY OwnDiscardsTeach, AsksAreRaised, OwnersAreKnown, PTL
  <1> HIDE DEF State
  <1>9. FairSpec => [][Decided]_services /\ [][Replied]_services /\ []State
    BY <1>1, <1>2, <1>3, <1>6, <1>7, <1>8, OneGroupEach, PTL
  <1> QED BY <1>4, <1>5, <1>9 DEF State

\* What Intelligence promises holds of the whole run.
LEMMA IndexPromises == FairSpec => [](IndexRight /\ GraphIsEvidence)
  <1> DEFINE State == IndexRight /\ GraphIsEvidence
  <1>1. OnService \/ OnJudgement => State
    BY DEF OnService, OnJudgement, IndexRight, GraphIsEvidence, At
  <1>2. IndexSpec => []State
    BY IndexIsRight, GraphWeighsEvidence, PTL
  <1> HIDE DEF State
  <1>3. FairSpec => []State
    BY <1>1, <1>2, OneGroupEach, PTL
  <1> QED BY <1>3 DEF State

\* Whatever the run checks of safety holds of its specification for all values
\* of the constants: the promises of all three groups of scenes.
THEOREM EverySceneIsSafe ==
    FairSpec =>
      /\ [](IndexRight /\ LearnsFromOwner /\ AskIsRaised /\ UnsubscribeRight /\ DbFilesRight
            /\ OwnerIsKnown /\ GraphIsEvidence /\ NoneMissed /\ FileStaysGood)
      /\ PoolSafe /\ DecisionsStand /\ RepliesRight
  BY ServicesPromises, JudgementsPromises, IndexPromises, PTL
=============================================================================
