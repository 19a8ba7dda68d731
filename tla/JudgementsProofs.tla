-------------------------- MODULE JudgementsProofs --------------------------
(***************************************************************************)
(* What Judgements promises of its scenes, for every value of the          *)
(* constants.  Each scene has an inductive invariant, named for its        *)
(* instance: LInv, VInv, EInv, RInv and IInv.  A step of the service is    *)
(* one of the scene's module, or changes nothing, and the scene stays what *)
(* it is.                                                                  *)
(***************************************************************************)
EXTENDS Judgements, Sequences, FiniteSetTheorems, WellFoundedInduction, TLAPS

\* No step changes the scene a behaviour is about.
LEMMA JudgingSceneStays == ASSUME [JudgingNext]_services PROVE scene' = scene
  BY DEF JudgingNext, services, Beyond4, Beyond10, Beyond14

-----------------------------------------------------------------------------
(* Learning.                                                               *)

LLetter == ForLearning.Letter
LTarget == ForLearning.Writer \cup {ForLearning.Domain}
LFolders == ForLearning.Discard \cup {ForLearning.Inbox}
LSuggestion == [target : LTarget, to : LFolders]
LRun ==
    [step : {"rest", "rules", "note", "learn", "state"}, todo : SUBSET (LTarget \cup {ForLearning.ByHand}),
     at : LTarget \cup {ForLearning.ByHand, ForLearning.NoTarget}, carried : SUBSET LLetter,
     list : SUBSET LSuggestion, current : SUBSET LTarget]

LTypes ==
    /\ x1 \in ForLearning.Modes /\ x2 \in [LLetter -> LFolders] /\ x3 \in [LLetter -> LFolders \cup {ForLearning.NoTarget}]
    /\ x4 \subseteq ForLearning.Writer /\ x5 \subseteq ForLearning.Writer
    /\ x6 \subseteq LLetter /\ x12 \subseteq LLetter /\ x13 \subseteq LLetter
    /\ x7 \in [LTarget -> {"none", "inactive", "active"}] /\ x8 \in [LTarget -> LFolders]
    /\ x9 \in [LTarget -> {"none", "suggested", "created", "dismissed"}]
    /\ x11 \in LTarget \cup {ForLearning.NoTarget} /\ x10 \in LRun

\* Whatever lies, or was seen, in a discard folder was put there by the owner,
\* or by a rule whose run noted it, is about to, or ended before it could.
LAccounted ==
    /\ \A m \in LLetter : x2[m] \in ForLearning.Discard \/ x3[m] \in ForLearning.Discard =>
           m \in x12 \cup x13 \cup x6 \cup x10.carried
    /\ x10.carried # {} => x10.step = "note"

\* Every rule and suggestion, also one about to be recorded, has its evidence.
LFounded(t) == Cardinality(L!Evidence(t)) >= ForLearning.MinDiscards
LGrounded ==
    /\ \A t \in LTarget : x7[t] # "none" \/ x9[t] \in {"suggested", "created"} => LFounded(t)
    /\ \A g \in x10.list : LFounded(g.target)
    /\ x10.step = "state" => x10.at \in LTarget /\ LFounded(x10.at)

LInv == LTypes /\ LAccounted /\ LGrounded

\* The instance's cardinality is the library's.
LEMMA LSize == \A Set : L!Cardinality(Set) = Cardinality(Set)
  BY Zenon DEF L!Cardinality, Cardinality

\* What learning is configured with.
LEMMA LParams ==
    /\ IsFiniteSet(LLetter) /\ IsFiniteSet(ForLearning.Discard) /\ ForLearning.From \in [LLetter -> ForLearning.Writer]
    /\ ForLearning.Inbox \notin ForLearning.Discard /\ ForLearning.NoTarget \notin LFolders \cup LTarget
    /\ ForLearning.OwnDest \in LFolders /\ ForLearning.Modes \subseteq {"suggest", "inactive", "active"}
    /\ ForLearning.MinDiscards \in Nat \ {0}
  <1>1. IsFiniteSet(LLetter)
    BY JudgementAssumption DEF L!ParamAssumption, L!IsFiniteSet, IsFiniteSet, LLetter
  <1>2. IsFiniteSet(ForLearning.Discard)
    BY JudgementAssumption DEF L!ParamAssumption, L!IsFiniteSet, IsFiniteSet
  <1> QED BY <1>1, <1>2, JudgementAssumption DEF L!ParamAssumption, LLetter, LFolders, LTarget, L!Folders, L!Target

\* A step that only adds to what the owner did, and leaves the folders and the
\* pass alone, loses no evidence.
LEMMA LStays ==
    ASSUME LTypes, x12 \subseteq x12', x13 \subseteq x13', x12' \subseteq LLetter, x13' \subseteq LLetter,
           NEW t \in LTarget, LFounded(t)
    PROVE  Cardinality(L!Evidence(t)') >= ForLearning.MinDiscards
  <1> DEFINE old == L!Evidence(t)
             new == L!Evidence(t)'
  <1>1. old \subseteq new /\ new \subseteq LLetter
    BY DEF LTypes, L!Evidence, L!Matches
  <1>2. IsFiniteSet(new) /\ IsFiniteSet(old)
    BY <1>1, LParams, FS_Subset
  <1>3. Cardinality(old) <= Cardinality(new) /\ Cardinality(old) \in Nat /\ Cardinality(new) \in Nat
    BY <1>1, <1>2, FS_Subset, FS_CardinalityType
  <1>4. Cardinality(old) >= ForLearning.MinDiscards
    BY DEF LFounded
  <1> QED BY <1>3, <1>4, LParams

\* Nor does a step after which every target has at least the evidence it had.
LEMMA LKeeps ==
    ASSUME LInv, LTypes', LAccounted', x12 \subseteq x12', x13 \subseteq x13',
           \A t \in LTarget : x7'[t] # "none" \/ x9'[t] \in {"suggested", "created"} => LFounded(t),
           \A g \in x10'.list : LFounded(g.target),
           x10'.step = "state" => x10'.at \in LTarget /\ LFounded(x10'.at)
    PROVE  LInv'
  <1>1. \A t \in LTarget : LFounded(t) => LFounded(t)'
    <2>1. x12' \subseteq LLetter /\ x13' \subseteq LLetter /\ LTypes
      BY DEF LInv, LTypes
    <2> QED BY <2>1, LStays DEF LFounded
  <1>2. \A g \in x10'.list : g.target \in LTarget
    BY DEF LTypes, LRun, LSuggestion
  <1>3. LGrounded'
    BY <1>1, <1>2 DEF LGrounded
  <1> QED BY <1>3 DEF LInv

\* At the start nothing lies in a discard folder, and there is no rule.
LEMMA LInit == ASSUME At("learning"), JudgingInit PROVE LInv
  <1>1. L!Init
    BY DEF JudgingInit, At
  <1>2. x10 = [step |-> "rest", todo |-> {}, at |-> ForLearning.NoTarget, carried |-> {}, list |-> {}, current |-> {}]
    BY <1>1 DEF L!Init, L!Resting
  <1>3. x10 \in LRun
    BY <1>2 DEF LRun
  <1>4. LTypes
    BY <1>1, <1>3, LParams DEF L!Init, LTypes, LLetter, LTarget, LFolders, L!Target, L!Folders
  <1>5. LAccounted
    <2>1. \A m \in LLetter : x2[m] \notin ForLearning.Discard /\ x3[m] \notin ForLearning.Discard
      BY <1>1, LParams DEF L!Init, LLetter, LFolders
    <2> QED BY <1>2, <2>1 DEF LAccounted
  <1>6. LGrounded
    BY <1>1, <1>2 DEF L!Init, LGrounded, LTarget, L!Target
  <1> QED BY <1>4, <1>5, <1>6 DEF LInv

\* The pass is one of those the types allow.
LEMMA LRecords == ASSUME LInv PROVE x10 \in LRun
  BY DEF LInv, LTypes

\* The owner's moves, letters, dismissals and deletions only add evidence.
LEMMA LOwner == ASSUME LInv, L!Owner PROVE LInv'
  <1>1. ASSUME NEW m \in LLetter, NEW f \in LFolders, L!OwnerMoves(m, f) PROVE LInv'
    <2>1. /\ x2' = [x2 EXCEPT ![m] = f] /\ x12' = (IF f \in ForLearning.Discard THEN x12 \cup {m} ELSE x12)
          /\ UNCHANGED <<x1, x3, x4, x5, x6, x7, x8, x9, x10, x11, x13>>
      BY <1>1 DEF L!OwnerMoves, L!learned
    <2>2. LTypes'
      BY <2>1 DEF LInv, LTypes
    <2>3. LAccounted'
      BY <2>1 DEF LInv, LTypes, LAccounted
    <2> QED BY <2>1, <2>2, <2>3, LKeeps DEF LInv, LGrounded
  <1>2. ASSUME NEW w \in ForLearning.Writer, L!OwnerWrites(w) PROVE LInv'
    <2>1. x5' = x5 \cup {w} /\ UNCHANGED <<x1, x2, x3, x4, x6, x7, x8, x9, x10, x11, x12, x13>>
      BY <1>2 DEF L!OwnerWrites, L!learned
    <2>2. LTypes' /\ LAccounted'
      BY <2>1 DEF LInv, LTypes, LAccounted
    <2> QED BY <2>1, <2>2, LKeeps DEF LInv, LGrounded
  <1>3. ASSUME NEW t \in LTarget, L!Dismiss(t) PROVE LInv'
    <2>1. x9' = [x9 EXCEPT ![t] = "dismissed"] /\ UNCHANGED <<x1, x2, x3, x4, x5, x6, x7, x8, x10, x11, x12, x13>>
      BY <1>3 DEF L!Dismiss, L!mail
    <2>2. LTypes' /\ LAccounted'
      BY <2>1 DEF LInv, LTypes, LAccounted
    <2>3. \A u \in LTarget : x9'[u] \in {"suggested", "created"} => x9[u] \in {"suggested", "created"}
      BY <2>1 DEF LInv, LTypes
    <2> QED BY <2>1, <2>2, <2>3, LKeeps DEF LInv, LGrounded
  <1>4. ASSUME NEW t \in LTarget, L!DeleteRow(t) PROVE LInv'
    <2>1. /\ x7' = [x7 EXCEPT ![t] = "none"] /\ x11' = t
          /\ UNCHANGED <<x1, x2, x3, x4, x5, x6, x8, x9, x10, x12, x13>>
      BY <1>4 DEF L!DeleteRow, L!mail
    <2>2. LTypes' /\ LAccounted'
      BY <2>1 DEF LInv, LTypes, LAccounted
    <2>3. \A u \in LTarget : x7'[u] # "none" => x7[u] # "none"
      BY <2>1 DEF LInv, LTypes
    <2> QED BY <2>1, <2>2, <2>3, LKeeps DEF LInv, LGrounded
  <1> QED BY <1>1, <1>2, <1>3, <1>4 DEF L!Owner, LLetter, LFolders, LTarget, L!Folders, L!Target

\* A row of the owner's that is deleted takes its rule with it.
LEMMA LForgets == ASSUME LInv, L!Forget PROVE LInv'
  <1>1. /\ x9' = (IF x9[x11] = "created" THEN [x9 EXCEPT ![x11] = "dismissed"] ELSE x9) /\ x11' = ForLearning.NoTarget
        /\ UNCHANGED <<x1, x2, x3, x4, x5, x6, x7, x8, x10, x12, x13>>
    BY DEF L!Forget, L!mail, L!past
  <1>2. LTypes' /\ LAccounted'
    BY <1>1 DEF LInv, LTypes, LAccounted
  <1>3. \A u \in LTarget : x9'[u] \in {"suggested", "created"} => x9[u] \in {"suggested", "created"}
    BY <1>1 DEF LInv, LTypes
  <1> QED BY <1>1, <1>2, <1>3, LKeeps DEF LInv, LGrounded

\* The scan counts a mail for the place it is in.
LEMMA LSees == ASSUME LInv, NEW m \in LLetter, L!See(m) PROVE LInv'
  <1>1. /\ x3' = [x3 EXCEPT ![m] = x2[m]] /\ UNCHANGED <<x1, x2, x5, x6, x7, x8, x10, x11, x12, x13>>
        /\ x4' \in {x4, x4 \cup {ForLearning.From[m]}}
        /\ x9' \in {x9, [x9 EXCEPT ![ForLearning.From[m]] = "none"]}
    BY DEF L!See, L!past
  <1>2. ForLearning.From[m] \in ForLearning.Writer
    BY LParams
  <1>3. LTypes'
    BY <1>1, <1>2 DEF LInv, LTypes
  <1>4. LAccounted'
    BY <1>1 DEF LInv, LTypes, LAccounted
  <1>5. \A u \in LTarget : x9'[u] \in {"suggested", "created"} => x9[u] \in {"suggested", "created"}
    BY <1>1 DEF LInv, LTypes
  <1> QED BY <1>1, <1>3, <1>4, <1>5, LKeeps DEF LInv, LGrounded

\* What learn.go counts as thrown away is evidence: the owner put it there, or a
\* rule did whose run ended before it could be noted.
LEMMA LThrownCounts ==
    ASSUME LInv, x10.carried = {}, NEW w \in ForLearning.Writer, NEW t \in LTarget, L!Matches(t, w), L!Candidate(w)
    PROVE  LFounded(t)
  <1>1. L!Thrown(w) \subseteq L!Evidence(t)
    <2>1. \A m \in L!Thrown(w) : m \in LLetter /\ ForLearning.From[m] = w /\ x3[m] \in ForLearning.Discard /\ m \notin x6
      BY DEF L!Thrown, L!Received, LLetter
    <2>2. \A m \in L!Thrown(w) : m \in x12 \cup x13
      BY <2>1 DEF LInv, LAccounted
    <2> QED BY <2>1, <2>2 DEF L!Evidence
  <1>2. IsFiniteSet(L!Evidence(t))
    <2>1. L!Evidence(t) \subseteq LLetter
      BY DEF L!Evidence, LInv, LTypes
    <2> QED BY <2>1, LParams, FS_Subset
  <1>3. Cardinality(L!Thrown(w)) <= Cardinality(L!Evidence(t)) /\ Cardinality(L!Thrown(w)) \in Nat
        /\ Cardinality(L!Evidence(t)) \in Nat
    BY <1>1, <1>2, FS_Subset, FS_CardinalityType
  <1>4. Cardinality(L!Thrown(w)) >= ForLearning.MinDiscards
    BY LSize DEF L!Candidate
  <1> QED BY <1>3, <1>4, LParams DEF LFounded

\* The folder most of it went to is one of the discard folders.
LEMMA LMostly ==
    ASSUME LInv, NEW w \in ForLearning.Writer, L!Candidate(w), NEW t
    PROVE  L!Mostly(t) \in ForLearning.Discard
  <1> DEFINE from == UNION {L!Thrown(v) : v \in {u \in L!Candidates : L!Matches(t, u)}}
             n(f) == L!Cardinality({m \in from : x3[m] = f})
             D == ForLearning.Discard
             most == Cardinality(LLetter)
             lack == {most - n(f) : f \in D}
  <1>1. from \subseteq LLetter
    BY DEF L!Thrown, L!Received, LLetter
  <1>2. most \in Nat /\ \A f \in D : n(f) \in Nat /\ n(f) <= most
    <2>1. ASSUME NEW f \in D PROVE n(f) \in Nat /\ n(f) <= most
      <3>1. {m \in from : x3[m] = f} \subseteq LLetter
        BY <1>1
      <3> HIDE DEF from
      <3> QED BY <3>1, LSize, LParams, FS_Subset, FS_CardinalityType
    <2> QED BY <2>1, LParams, FS_CardinalityType
  <1>3. \E f \in D : TRUE
    <2>1. L!Thrown(w) # {}
      <3>1. Cardinality(L!Thrown(w)) >= ForLearning.MinDiscards
        BY LSize DEF L!Candidate
      <3> QED BY <3>1, LParams, FS_EmptySet
    <2> QED BY <2>1 DEF L!Thrown
  <1> HIDE DEF n, most, D
  <1>4. lack \subseteq Nat /\ lack # {}
    BY <1>2, <1>3
  <1>5. PICK least \in lack : \A k \in lack : <<k, least>> \notin OpToRel(<, Nat)
    BY <1>4, NatLessThanWellFounded, WFMin
  <1>6. PICK f \in D : least = most - n(f)
    BY <1>5
  <1>7. \A g \in D : n(g) <= n(f)
    <2>1. ASSUME NEW g \in D PROVE n(g) <= n(f)
      <3>1. most - n(g) \in lack /\ most - n(g) \in Nat /\ least \in Nat
        BY <1>2, <1>4, <1>5
      <3>2. ~(most - n(g) < least)
        BY <1>5, <3>1 DEF OpToRel
      <3> QED BY <1>2, <1>6, <3>2
    <2> QED BY <2>1
  <1> QED BY <1>7 DEF L!Mostly, n, D

\* A run of the rules notes what it carries before it forgets it.
LEMMA LRules == ASSUME LInv, L!StartRun \/ (\E t \in LTarget \cup {ForLearning.ByHand} : L!ApplyRule(t)) \/ L!RecordRuleMoves PROVE LInv'
  <1>0. x10 \in LRun
    BY LRecords
  <1>1. CASE L!StartRun
    <2>1. PICK todo \in SUBSET (LTarget \cup {ForLearning.ByHand}) : x10' = [x10 EXCEPT !.step = "rules", !.todo = todo]
      BY <1>1 DEF L!StartRun, LTarget, L!Target
    <2>2. UNCHANGED <<x1, x2, x3, x4, x5, x6, x7, x8, x9, x11, x12, x13>> /\ x10.step = "rest"
      BY <1>1 DEF L!StartRun, L!mail, L!learned, L!past
    <2>3. x10' \in LRun /\ x10'.carried = x10.carried /\ x10'.list = x10.list /\ x10'.step = "rules"
      BY <1>0, <2>1 DEF LRun
    <2>4. LTypes' /\ LAccounted'
      BY <2>2, <2>3 DEF LInv, LTypes, LAccounted
    <2> QED BY <2>2, <2>3, <2>4, LKeeps DEF LInv, LGrounded
  <1>2. ASSUME NEW t \in LTarget \cup {ForLearning.ByHand}, L!ApplyRule(t) PROVE LInv'
    <2> DEFINE found == {m \in ForLearning.Letter : x2[m] = ForLearning.Inbox /\ IF t = ForLearning.ByHand
                          THEN m \in ForLearning.Matched ELSE L!Matches(t, ForLearning.From[m])}
               goal == IF t = ForLearning.ByHand THEN ForLearning.OwnDest ELSE x8[t]
    <2>1. /\ x2' = [m \in ForLearning.Letter |-> IF m \notin found THEN x2[m] ELSE goal]
          /\ x10' = [x10 EXCEPT !.step = "note", !.todo = @ \ {t}, !.at = t, !.carried = found]
          /\ UNCHANGED <<x1, x3, x4, x5, x6, x7, x8, x9, x11, x12, x13>> /\ x10.step = "rules"
      BY <1>2 DEF L!ApplyRule, L!learned, L!past
    <2>2. goal \in LFolders /\ found \subseteq LLetter
      BY LParams DEF LInv, LTypes, LLetter
    <2> HIDE DEF found, goal
    <2>3. x10' \in LRun /\ x10'.carried = found /\ x10'.list = x10.list /\ x10'.step = "note"
      BY <1>0, <2>1, <2>2 DEF LRun
    <2>4. LTypes'
      BY <2>1, <2>2, <2>3 DEF LInv, LTypes, LLetter
    <2>5. x10.carried = {}
      BY <2>1 DEF LInv, LAccounted
    <2>6. LAccounted'
      BY <2>1, <2>3, <2>5 DEF LInv, LAccounted, LLetter
    <2> QED BY <2>1, <2>3, <2>4, <2>6, LKeeps DEF LInv, LGrounded
  <1>3. CASE L!RecordRuleMoves
    <2>1. /\ x6' = x6 \cup x10.carried /\ x10' = [x10 EXCEPT !.step = "rules", !.carried = {}]
          /\ UNCHANGED <<x1, x2, x3, x4, x5, x7, x8, x9, x11, x12, x13>>
      BY <1>3 DEF L!RecordRuleMoves, L!mail, L!learned, L!past
    <2>2. x10' \in LRun /\ x10'.carried = {} /\ x10'.list = x10.list /\ x10'.step = "rules" /\ x10.carried \subseteq LLetter
      BY <1>0, <2>1 DEF LRun
    <2>3. LTypes' /\ LAccounted'
      BY <2>1, <2>2 DEF LInv, LTypes, LAccounted
    <2> QED BY <2>1, <2>2, <2>3, LKeeps DEF LInv, LGrounded
  <1> QED BY <1>1, <1>2, <1>3

\* A pass suggests only what has its evidence.
LEMMA LSuggests == ASSUME LInv, L!Suggest PROVE LInv'
  <1>0. x10 \in LRun
    BY LRecords
  <1> DEFINE found == {s \in L!Suggestions : x9[s] = "none"}
             list == {[target |-> t, to |-> L!Mostly(t)] : t \in found}
  <1>1. /\ x10' = [x10 EXCEPT !.step = "learn", !.list = list, !.current = L!Suggestions]
        /\ UNCHANGED <<x1, x2, x3, x4, x5, x6, x7, x8, x9, x11, x12, x13>> /\ x10.step = "rules"
    BY DEF L!Suggest, L!mail, L!learned, L!past
  <1>2. x10.carried = {}
    BY <1>1 DEF LInv, LAccounted
  <1>3. ASSUME NEW t \in L!Suggestions PROVE t \in LTarget /\ LFounded(t) /\ L!Mostly(t) \in LFolders
    <2>1. CASE L!ForDomain
      <3>1. PICK w \in ForLearning.Writer : L!Candidate(w)
        BY <2>1 DEF L!ForDomain, L!Candidates
      <3>2. t = ForLearning.Domain /\ t \in LTarget /\ L!Matches(t, w)
        BY <1>3, <2>1 DEF L!Suggestions, LTarget, L!Matches
      <3> QED BY <1>2, <3>1, <3>2, LThrownCounts, LMostly DEF LFolders
    <2>2. CASE ~L!ForDomain
      <3>1. t \in ForLearning.Writer /\ L!Candidate(t)
        BY <1>3, <2>2 DEF L!Suggestions, L!Candidates
      <3>2. t \in LTarget /\ L!Matches(t, t)
        BY <3>1 DEF LTarget, L!Matches
      <3> QED BY <1>2, <3>1, <3>2, LThrownCounts, LMostly DEF LFolders
    <2> QED BY <2>1, <2>2
  <1>4. L!Suggestions \subseteq LTarget
    BY <1>3
  <1>5. list \subseteq LSuggestion /\ \A g \in list : LFounded(g.target)
    BY <1>3 DEF LSuggestion
  <1> HIDE DEF list, found
  <1>6. /\ x10' \in LRun /\ x10'.carried = x10.carried /\ x10'.list = list /\ x10'.step = "learn"
    BY <1>0, <1>1, <1>4, <1>5 DEF LRun
  <1>7. LTypes' /\ LAccounted'
    BY <1>1, <1>2, <1>6 DEF LInv, LTypes, LAccounted
  <1> QED BY <1>1, <1>5, <1>6, <1>7, LKeeps DEF LInv, LGrounded

\* A rule is made only from a suggestion, on the same evidence.
LEMMA LMakesRule == ASSUME LInv, NEW g \in x10.list, L!MakeRule(g) PROVE LInv'
  <1>0. x10 \in LRun /\ g \in LSuggestion /\ LFounded(g.target)
    BY LRecords DEF LRun, LInv, LGrounded
  <1>1. /\ x10' = [x10 EXCEPT !.step = "state", !.at = g.target, !.list = @ \ {g}]
        /\ x7' = (IF x1 = "suggest" THEN x7 ELSE [x7 EXCEPT ![g.target] = x1])
        /\ x8' = (IF x1 = "suggest" THEN x8 ELSE [x8 EXCEPT ![g.target] = g.to])
        /\ UNCHANGED <<x1, x2, x3, x4, x5, x6, x9, x11, x12, x13>> /\ x10.step = "learn"
    BY DEF L!MakeRule, L!mail, L!past
  <1>2. x10.carried = {} /\ g.target \in LTarget /\ g.to \in LFolders
    BY <1>0, <1>1 DEF LInv, LAccounted, LSuggestion
  <1>3. /\ x10' \in LRun /\ x10'.carried = {} /\ x10'.list \subseteq x10.list /\ x10'.step = "state" /\ x10'.at = g.target
    BY <1>0, <1>1, <1>2 DEF LRun
  <1>4. x7' \in [LTarget -> {"none", "inactive", "active"}] /\ x8' \in [LTarget -> LFolders]
        /\ \A t \in LTarget \ {g.target} : x7'[t] = x7[t]
    BY <1>1, <1>2, LParams DEF LInv, LTypes
  <1>5. LTypes' /\ LAccounted'
    BY <1>1, <1>2, <1>3, <1>4 DEF LInv, LTypes, LAccounted
  <1>6. \A t \in LTarget : x7'[t] # "none" \/ x9'[t] \in {"suggested", "created"} => LFounded(t)
    BY <1>0, <1>1, <1>4 DEF LInv, LGrounded
  <1> QED BY <1>0, <1>1, <1>2, <1>3, <1>5, <1>6, LKeeps DEF LInv, LGrounded

\* Recording the suggestion, and the end or failure of a run, keep the invariant.
LEMMA LEnds == ASSUME LInv, L!RecordSuggestion \/ L!EndRun \/ L!RunFails PROVE LInv'
  <1>0. x10 \in LRun
    BY LRecords
  <1>1. CASE L!RecordSuggestion
    <2>1. /\ x9' = [x9 EXCEPT ![x10.at] = L!Status] /\ x10' = [x10 EXCEPT !.step = "learn"]
          /\ UNCHANGED <<x1, x2, x3, x4, x5, x6, x7, x8, x11, x12, x13>> /\ x10.step = "state"
      BY <1>1 DEF L!RecordSuggestion, L!mail, L!past
    <2>2. x10.carried = {} /\ x10.at \in LTarget /\ LFounded(x10.at) /\ L!Status \in {"suggested", "created"}
      BY <2>1 DEF LInv, LAccounted, LGrounded, L!Status
    <2>3. x10' \in LRun /\ x10'.carried = {} /\ x10'.list = x10.list /\ x10'.step = "learn"
      BY <1>0, <2>1, <2>2 DEF LRun
    <2>4. LTypes' /\ LAccounted'
      BY <2>1, <2>2, <2>3 DEF LInv, LTypes, LAccounted
    <2>5. \A t \in LTarget : x7'[t] # "none" \/ x9'[t] \in {"suggested", "created"} => LFounded(t)
      BY <2>1, <2>2 DEF LInv, LTypes, LGrounded
    <2> QED BY <2>1, <2>3, <2>4, <2>5, LKeeps DEF LInv, LGrounded
  <1>2. L!Resting \in LRun /\ L!Resting.carried = {} /\ L!Resting.list = {} /\ L!Resting.step = "rest"
    BY DEF L!Resting, LRun
  <1>3. CASE L!EndRun
    <2>1. /\ x9' = [t \in L!Target |-> IF L!Stale(t) THEN "none" ELSE x9[t]] /\ x10' = L!Resting
          /\ UNCHANGED <<x1, x2, x3, x4, x5, x6, x7, x8, x11, x12, x13>> /\ x10.step = "learn"
      BY <1>3 DEF L!EndRun, L!mail, L!past
    <2>2. x10.carried = {}
      BY <2>1 DEF LInv, LAccounted
    <2>3. LTypes' /\ LAccounted'
      BY <1>2, <2>1, <2>2 DEF LInv, LTypes, LAccounted, LTarget, L!Target
    <2>4. \A t \in LTarget : x9'[t] \in {"suggested", "created"} => x9[t] \in {"suggested", "created"}
      BY <2>1 DEF LTarget, L!Target
    <2> QED BY <1>2, <2>1, <2>3, <2>4, LKeeps DEF LInv, LGrounded
  <1>4. CASE L!RunFails
    <2>1. /\ x13' = x13 \cup x10.carried /\ x10' = L!Resting
          /\ UNCHANGED <<x1, x2, x3, x4, x5, x6, x7, x8, x9, x11, x12>>
      BY <1>4 DEF L!RunFails, L!mail, L!learned
    <2>2. x10.carried \subseteq LLetter
      BY <1>0 DEF LRun
    <2>3. LTypes' /\ LAccounted'
      BY <1>2, <2>1, <2>2 DEF LInv, LTypes, LAccounted
    <2> QED BY <1>2, <2>1, <2>3, LKeeps DEF LInv, LGrounded
  <1> QED BY <1>1, <1>3, <1>4

\* Every step of a learning scene keeps the invariant.
LEMMA LStep == ASSUME At("learning"), LInv, [JudgingNext]_services PROVE LInv'
  <1>1. CASE UNCHANGED services
    BY <1>1 DEF services, LInv, LTypes, LAccounted, LGrounded, LFounded, L!Evidence, L!Matches
  <1>2. CASE JudgingNext
    <2>1. L!Next
      BY <1>2 DEF JudgingNext, At
    <2> QED BY <2>1, LOwner, LForgets, LSees, LRules, LSuggests, LMakesRule, LEnds
            DEF L!Next, L!RunRules, LLetter, LTarget, L!Target
  <1> QED BY <1>1, <1>2

\* The invariant says what the property promises.
LEMMA LProperty == ASSUME LInv PROVE L!TypeOK /\ L!LearnsFromOwner
  <1>1. L!LearnsFromOwner
    BY LSize DEF LInv, LGrounded, LFounded, L!LearnsFromOwner, LTarget, L!Target
  <1>2. x10.step \in {"rest", "rules", "note", "learn", "state"} /\ x10.current \subseteq LTarget
    BY LRecords DEF LRun
  <1> QED BY <1>1, <1>2 DEF LInv, LTypes, L!TypeOK, LLetter, LTarget, LFolders, L!Target, L!Folders

\* Only a rescue, a sender's new trust or a pass under way undoes a dismissal.
LEMMA LDismissals == ASSUME LInv, L!Next PROVE L!KeepsDismissals
  <1> SUFFICES ASSUME NEW t \in LTarget, x9[t] = "dismissed", x9'[t] # "dismissed"
               PROVE  \/ x4' # x4 \/ (\E m \in LLetter : L!Rescued(m) /\ ForLearning.From[m] = t)
                      \/ x10.step = "state" /\ x10.at = t
    BY DEF L!KeepsDismissals, LTarget, LLetter, L!Target
  <1>1. x9 \in [LTarget -> {"none", "suggested", "created", "dismissed"}]
    BY DEF LInv, LTypes
  <1>2. ASSUME NEW m \in LLetter, L!See(m) PROVE L!Rescued(m) /\ ForLearning.From[m] = t
    BY <1>1, <1>2 DEF L!See
  <1>3. ASSUME L!RecordSuggestion PROVE x10.step = "state" /\ x10.at = t
    BY <1>1, <1>3 DEF L!RecordSuggestion
  <1>4. ASSUME L!EndRun PROVE FALSE
    BY <1>1, <1>4 DEF L!EndRun, L!Stale, LTarget, L!Target
  <1>5. ASSUME L!Forget PROVE FALSE
    BY <1>1, <1>5 DEF L!Forget
  <1>6. ASSUME L!Owner PROVE FALSE
    BY <1>1, <1>6 DEF L!Owner, L!OwnerMoves, L!OwnerWrites, L!Dismiss, L!DeleteRow, L!learned
  <1>7. ASSUME UNCHANGED x9 PROVE FALSE
    BY <1>7
  <1>8. ASSUME L!RunFails PROVE UNCHANGED x9
    BY <1>8 DEF L!RunFails, L!learned
  <1>9. ASSUME L!RunRules PROVE L!RecordSuggestion \/ L!EndRun \/ UNCHANGED x9
    BY <1>9 DEF L!RunRules, L!StartRun, L!ApplyRule, L!RecordRuleMoves, L!Suggest, L!MakeRule, L!learned
  <1> QED BY <1>2, <1>3, <1>4, <1>5, <1>6, <1>7, <1>8, <1>9 DEF L!Next, LLetter

-----------------------------------------------------------------------------
(* Verdicts.                                                               *)

VLetter == ForVerdicts.Letter
VHeld == [mail : VLetter, live : BOOLEAN]

VTypes ==
    /\ x1 \subseteq VLetter /\ x2 \subseteq VLetter /\ x3 \subseteq VLetter /\ x9 \subseteq VLetter
    /\ x4 \subseteq ForVerdicts.Writer /\ x5 \in [VLetter -> V!Verdicts \cup {"unjudged"}]
    /\ x8 \in [step : {"rest", "judge", "raise"}, todo : Seq(VHeld)] /\ Len(x8.todo) <= ForVerdicts.PerTick
    /\ (x8.step = "rest") = (x8.todo = <<>>)
    /\ \A row \in x6 : row[1] \in {"credential_request", "payment_request"} /\ \E m \in VLetter : row[2] = ForVerdicts.Id[m]
    /\ x10 \in 0 .. ForVerdicts.MaxFaults

\* What the pass still holds has no verdict, and no letter is there twice; but
\* for the first, while its anomaly is raised.
VOpen(h) == x5[h.mail] = "unjudged"
VFresh ==
    /\ \A i, j \in 1 .. Len(x8.todo) : i < j => x8.todo[i].mail # x8.todo[j].mail
    /\ \A i \in 1 .. Len(x8.todo) : x8.step = "judge" \/ i > 1 => VOpen(x8.todo[i])
    /\ x8.step = "raise" => ForVerdicts.Active /\ x5[x8.todo[1].mail] \in ForVerdicts.Asks

VRow(m) == <<V!Type(x5[m]), ForVerdicts.Id[m]>>
VRaised ==
    /\ \A m \in VLetter \ x9 : ForVerdicts.Active /\ x5[m] \in ForVerdicts.Asks =>
           VRow(m) \in x6 \/ (x8.step = "raise" /\ x8.todo[1].mail = m)
    /\ IsFiniteSet(x6) /\ x7 = Cardinality(x6)

VInv == VTypes /\ VFresh /\ VRaised

\* The instance's cardinality is the library's.
LEMMA VSize == \A Set : V!Cardinality(Set) = Cardinality(Set)
  BY Zenon DEF V!Cardinality, Cardinality

\* What verdicts are configured with.
LEMMA VParams ==
    /\ IsFiniteSet(VLetter) /\ VLetter \subseteq Nat /\ ForVerdicts.From \in [VLetter -> ForVerdicts.Writer]
    /\ ForVerdicts.Asks \subseteq {"payment", "credentials", "gift_card", "bank_change"}
    /\ ForVerdicts.PerTick \in Nat \ {0} /\ ForVerdicts.MaxFaults \in Nat
  <1>1. IsFiniteSet(VLetter)
    BY JudgementAssumption DEF V!ParamAssumption, V!IsFiniteSet, IsFiniteSet, VLetter
  <1> QED BY <1>1, JudgementAssumption DEF V!ParamAssumption, VLetter

\* What is kept of an answer is a verdict, and asks for the same.
LEMMA VAnswers ==
    /\ V!Unjudged = "unjudged" /\ V!Verdicts = {"harmless"} \cup ForVerdicts.Asks /\ "unjudged" \notin V!Verdicts
    /\ \A a \in V!Answers : V!Kept(0, a) \in V!Verdicts /\ (V!Kept(0, a) \in ForVerdicts.Asks <=> a \in ForVerdicts.Asks)
    /\ \A m, a : V!Kept(m, a) = V!Kept(0, a)
  BY VParams DEF V!Unjudged, V!Verdicts, V!Answers, V!Kept

\* At the start nothing is judged and nothing raised.
LEMMA VInit == ASSUME At("verdicts"), JudgingInit PROVE VInv
  <1>1. V!Init
    BY DEF JudgingInit, At
  <1>2. x8 = [step |-> "rest", todo |-> <<>>] /\ x5 = [m \in VLetter |-> "unjudged"] /\ x6 = {} /\ x7 = 0
        /\ x1 = {} /\ x2 = {} /\ x3 = {} /\ x4 = {} /\ x9 = {} /\ x10 = 0
    BY <1>1 DEF V!Init, V!Idle, V!Unjudged, VLetter
  <1>3. VTypes
    BY <1>2, VParams DEF VTypes
  <1>4. VFresh
    BY <1>2 DEF VFresh
  <1>5. VRaised
    BY <1>2, VAnswers, FS_EmptySet DEF VRaised
  <1> QED BY <1>3, <1>4, <1>5 DEF VInv

\* A pass takes no letter twice, none that has a verdict, and no more than
\* allowed: what is cached first, then what is read live.
LEMMA VCandidates ==
    ASSUME VInv, NEW f \in V!NewestFirst(V!InCache), NEW g \in V!NewestFirst(V!InThread),
           V!InCache \cup V!InThread # {}
    PROVE  /\ V!Candidates(f, g) \in Seq(VHeld) /\ Len(V!Candidates(f, g)) \in 1 .. ForVerdicts.PerTick
           /\ \A i, j \in 1 .. Len(V!Candidates(f, g)) :
                  i < j => V!Candidates(f, g)[i].mail # V!Candidates(f, g)[j].mail
           /\ \A i \in 1 .. Len(V!Candidates(f, g)) : VOpen(V!Candidates(f, g)[i])
  <1> DEFINE c == Cardinality(V!InCache)
             d == Cardinality(V!InThread)
             n == IF c + d < ForVerdicts.PerTick THEN c + d ELSE ForVerdicts.PerTick
             pass == [i \in 1 .. n |-> IF i <= c THEN V!Held(f[i], FALSE) ELSE V!Held(g[i - c], TRUE)]
  <1>1. V!InCache \subseteq VLetter /\ V!InThread \subseteq VLetter /\ V!InCache \cap V!InThread = {}
        /\ \A m \in V!InCache \cup V!InThread : x5[m] = "unjudged"
    BY VAnswers DEF VInv, VTypes, V!InCache, V!InThread, V!Candidate
  <1>2. c \in Nat /\ d \in Nat /\ c + d > 0
    <2>1. IsFiniteSet(V!InCache) /\ IsFiniteSet(V!InThread)
      BY <1>1, VParams, FS_Subset
    <2> QED BY <2>1, FS_CardinalityType, FS_EmptySet
  <1>3. f \in [1 .. c -> V!InCache] /\ \A i, j \in 1 .. c : i < j => f[i] > f[j]
    BY VSize DEF V!NewestFirst
  <1>4. g \in [1 .. d -> V!InThread] /\ \A i, j \in 1 .. d : i < j => g[i] > g[j]
    BY VSize DEF V!NewestFirst
  <1> HIDE DEF c, d
  <1>5. Len(f) = c /\ Len(g) = d
    BY <1>2, <1>3, <1>4
  <1>6. V!Candidates(f, g) = pass
    BY <1>5 DEF V!Candidates
  <1>7. n \in 1 .. ForVerdicts.PerTick /\ n <= c + d
    BY <1>2, VParams
  <1> HIDE DEF n
  <1>8. \A i \in 1 .. n : i \in Nat /\ (i <= c => i \in 1 .. c) /\ (~(i <= c) => i - c \in 1 .. d)
    BY <1>2, <1>7, VParams
  <1>9. \A i \in 1 .. n : (i <= c => pass[i] = V!Held(f[i], FALSE)) /\ (~(i <= c) => pass[i] = V!Held(g[i - c], TRUE))
    OBVIOUS
  <1>10. \A i \in 1 .. c : f[i] \in V!InCache /\ f[i] \in Nat
    BY <1>1, <1>3, VParams
  <1>11. \A i \in 1 .. d : g[i] \in V!InThread /\ g[i] \in Nat
    BY <1>1, <1>4, VParams
  <1>12. \A u, b : V!Held(u, b).mail = u /\ (u \in VLetter /\ b \in BOOLEAN => V!Held(u, b) \in VHeld)
    BY DEF V!Held, VHeld
  <1>13. \A i \in 1 .. n : (i <= c => pass[i].mail = f[i]) /\ (~(i <= c) => pass[i].mail = g[i - c])
    BY <1>9, <1>12
  <1>14. \A i \in 1 .. n : pass[i] \in VHeld /\ VOpen(pass[i])
    <2>1. \A i \in 1 .. n : pass[i] \in VHeld
      BY <1>1, <1>8, <1>9, <1>10, <1>11, <1>12
    <2>2. \A i \in 1 .. n : VOpen(pass[i])
      BY <1>1, <1>8, <1>10, <1>11, <1>13 DEF VOpen
    <2> QED BY <2>1, <2>2
  <1>15. n \in Nat
    BY <1>7, VParams
  <1>16. pass \in Seq(VHeld) /\ Len(pass) = n
    <2>1. DOMAIN pass = 1 .. n /\ pass = [i \in 1 .. n |-> pass[i]]
      OBVIOUS
    <2> HIDE DEF pass
    <2>2. pass \in [1 .. n -> VHeld]
      BY <1>14, <2>1
    <2> QED BY <1>15, <2>1, <2>2
  <1> HIDE DEF pass
  <1>17. ASSUME NEW i \in 1 .. n, NEW j \in 1 .. n, i < j PROVE pass[i].mail # pass[j].mail
    <2>1. CASE j <= c
      <3>1. i <= c /\ i \in 1 .. c /\ j \in 1 .. c
        BY <1>2, <1>8, <1>15, <1>17, <2>1
      <3>2. f[i] > f[j] /\ f[i] \in Nat /\ f[j] \in Nat
        BY <1>3, <1>10, <1>17, <3>1
      <3> QED BY <1>13, <1>17, <2>1, <3>1, <3>2
    <2>2. CASE ~(j <= c) /\ i <= c
      BY <1>1, <1>8, <1>10, <1>11, <1>13, <1>17, <2>2
    <2>3. CASE ~(j <= c) /\ ~(i <= c)
      <3>1. i - c \in 1 .. d /\ j - c \in 1 .. d /\ i - c < j - c
        BY <1>2, <1>8, <1>15, <1>17, <2>3
      <3>2. g[i - c] > g[j - c] /\ g[i - c] \in Nat /\ g[j - c] \in Nat
        BY <1>4, <1>11, <3>1
      <3> QED BY <1>13, <1>17, <2>3, <3>2
    <2> QED BY <2>1, <2>2, <2>3
  <1> QED BY <1>6, <1>7, <1>14, <1>16, <1>17

\* A pass starts with the candidates.
LEMMA VStart == ASSUME VInv, V!StartTick PROVE VInv'
  <1>1. PICK f \in V!NewestFirst(V!InCache), g \in V!NewestFirst(V!InThread) :
            x8' = [step |-> "judge", todo |-> V!Candidates(f, g)]
    BY DEF V!StartTick
  <1>2. UNCHANGED <<x1, x2, x3, x4, x5, x6, x7, x9, x10>> /\ x8.step = "rest" /\ V!InCache \cup V!InThread # {}
    BY DEF V!StartTick, V!mailbox
  <1> DEFINE todo == V!Candidates(f, g)
  <1>3. /\ todo \in Seq(VHeld) /\ Len(todo) \in 1 .. ForVerdicts.PerTick
        /\ \A i, j \in 1 .. Len(todo) : i < j => todo[i].mail # todo[j].mail
        /\ \A i \in 1 .. Len(todo) : VOpen(todo[i])
    BY <1>2, VCandidates
  <1> HIDE DEF todo
  <1>4. x8'.step = "judge" /\ x8'.todo = todo /\ todo # <<>> /\ x8' = [step |-> "judge", todo |-> todo]
    BY <1>1, <1>3 DEF todo
  <1>5. VTypes'
    BY <1>2, <1>3, <1>4, VParams DEF VInv, VTypes
  <1>6. VFresh'
    BY <1>2, <1>3, <1>4 DEF VFresh, VOpen
  <1>7. VRaised'
    BY <1>2, <1>4 DEF VInv, VRaised, VRow, V!Type
  <1> QED BY <1>5, <1>6, <1>7 DEF VInv

\* A pass that is not over is at a letter.
LEMMA VHead ==
    ASSUME VInv, x8.step # "rest"
    PROVE  /\ x8.todo \in Seq(VHeld) /\ x8.todo # <<>> /\ Len(x8.todo) \in Nat \ {0} /\ Head(x8.todo) = x8.todo[1]
           /\ \A i \in 1 .. Len(x8.todo) : x8.todo[i].mail \in VLetter
           /\ x8.todo[1].mail \in VLetter
  <1>1. x8.todo \in Seq(VHeld) /\ x8.todo # <<>>
    BY DEF VInv, VTypes
  <1>2. Len(x8.todo) \in Nat \ {0} /\ Head(x8.todo) = x8.todo[1]
    BY <1>1
  <1>3. \A i \in 1 .. Len(x8.todo) : x8.todo[i] \in VHeld
    BY <1>1
  <1> QED BY <1>1, <1>2, <1>3 DEF VHeld

\* What is left of a pass, once its first letter is done, holds neither that
\* letter nor one with a verdict.
LEMMA VLater ==
    ASSUME VInv, x8.step # "rest"
    PROVE  LET l == V!Later IN
           /\ l \in [step : {"rest", "judge"}, todo : Seq(VHeld)] /\ Len(l.todo) <= ForVerdicts.PerTick
           /\ (l.step = "rest") = (l.todo = <<>>)
           /\ \A i, j \in 1 .. Len(l.todo) : i < j => l.todo[i].mail # l.todo[j].mail
           /\ \A i \in 1 .. Len(l.todo) : VOpen(l.todo[i]) /\ l.todo[i].mail # x8.todo[1].mail
  <1>1. x8.todo \in Seq(VHeld) /\ x8.todo # <<>> /\ Len(x8.todo) <= ForVerdicts.PerTick
    BY DEF VInv, VTypes
  <1>2. Len(x8.todo) \in Nat \ {0}
    BY <1>1
  <1>3. CASE Len(x8.todo) = 1
    <2>1. V!Later = [step |-> "rest", todo |-> <<>>]
      BY <1>3 DEF V!Later, V!Idle
    <2> QED BY <2>1, VParams
  <1>4. CASE Len(x8.todo) # 1
    <2> DEFINE t == Tail(x8.todo)
    <2>1. V!Later = [step |-> "judge", todo |-> t]
      BY <1>4 DEF V!Later
    <2>2. t \in Seq(VHeld) /\ Len(t) = Len(x8.todo) - 1 /\ \A i \in 1 .. Len(t) : t[i] = x8.todo[i + 1]
      BY <1>1, <1>2
    <2> HIDE DEF t
    <2>3. t # <<>> /\ Len(t) <= ForVerdicts.PerTick
      <3>1. Len(t) \in Nat /\ Len(t) # 0 /\ Len(t) <= ForVerdicts.PerTick
        BY <1>1, <1>2, <1>4, <2>2, VParams
      <3> QED BY <3>1
    <2>4. ASSUME NEW i \in 1 .. Len(t), NEW j \in 1 .. Len(t), i < j PROVE t[i].mail # t[j].mail
      <3>1. i + 1 \in 1 .. Len(x8.todo) /\ j + 1 \in 1 .. Len(x8.todo) /\ i + 1 < j + 1
        BY <1>2, <2>2, <2>4
      <3>2. x8.todo[i + 1].mail # x8.todo[j + 1].mail
        BY <3>1 DEF VInv, VFresh
      <3> QED BY <2>2, <3>2
    <2>5. \A i \in 1 .. Len(t) : VOpen(t[i]) /\ t[i].mail # x8.todo[1].mail
      BY <1>2, <2>2 DEF VInv, VFresh
    <2> QED BY <2>1, <2>2, <2>3, <2>4, <2>5
  <1> QED BY <1>3, <1>4

\* Mail that comes, is cached, moves or becomes known changes no verdict.
LEMMA VMail ==
    ASSUME VInv, UNCHANGED <<x5, x6, x7, x8, x9, x10>>,
           x1' \subseteq VLetter, x2' \subseteq VLetter, x3' \subseteq VLetter, x4' \subseteq ForVerdicts.Writer
    PROVE  VInv'
  BY DEF VInv, VTypes, VFresh, VRaised, VOpen, VRow, V!Type

\* A letter that is passed over keeps having no verdict.
LEMMA VPasses == ASSUME VInv, V!PassOver PROVE VInv'
  <1>1. x8' = V!Later /\ x8.step = "judge" /\ UNCHANGED <<x1, x2, x3, x4, x5, x6, x7, x9, x10>>
    BY DEF V!PassOver, V!mailbox
  <1>2. VTypes'
    BY <1>1, VLater DEF VInv, VTypes
  <1>3. x8'.step \in {"rest", "judge"}
    BY <1>1, VLater
  <1>4. VFresh'
    BY <1>1, <1>3, VLater DEF VFresh, VOpen
  <1>5. VRaised'
    BY <1>1, <1>3 DEF VInv, VRaised, VRow, V!Type
  <1> QED BY <1>2, <1>4, <1>5 DEF VInv

\* A verdict is stored for a letter that had none, and is raised next if it asks
\* for something.
LEMMA VJudges == ASSUME VInv, NEW m \in VLetter, NEW a \in V!Answers, V!Judge(m, a)
                 PROVE  VInv' /\ V!KeepsVerdicts
  <1>1. x5' = [x5 EXCEPT ![m] = V!Kept(m, a)] /\ x8.step = "judge" /\ UNCHANGED <<x1, x2, x3, x4, x6, x7, x9, x10>>
    BY DEF V!Judge, V!mailbox
  <1>2. x8' = IF ForVerdicts.Active /\ a \in ForVerdicts.Asks THEN [x8 EXCEPT !.step = "raise"] ELSE V!Later
    BY DEF V!Judge
  <1>3. x8.todo \in Seq(VHeld) /\ x8.todo # <<>> /\ Len(x8.todo) <= ForVerdicts.PerTick /\ Len(x8.todo) \in Nat \ {0}
        /\ x8 \in [step : {"rest", "judge", "raise"}, todo : Seq(VHeld)]
    BY <1>1 DEF VInv, VTypes
  <1>4. x8.todo[1].mail = m
    BY <1>3 DEF V!Judge
  <1>5. V!Kept(m, a) \in V!Verdicts /\ (V!Kept(m, a) \in ForVerdicts.Asks <=> a \in ForVerdicts.Asks)
    BY VAnswers
  <1>6. x5 \in [VLetter -> V!Verdicts \cup {"unjudged"}] /\ x5[m] = "unjudged"
    BY <1>1, <1>3, <1>4 DEF VInv, VTypes, VFresh, VOpen
  <1>7. V!KeepsVerdicts
    BY <1>1, <1>6, VAnswers DEF V!KeepsVerdicts, VLetter
  <1>8. \A n \in VLetter : n # m => x5'[n] = x5[n]
    BY <1>1, <1>6
  <1>9. x5'[m] = V!Kept(m, a)
    BY <1>1, <1>6
  <1>10. CASE ForVerdicts.Active /\ a \in ForVerdicts.Asks
    <2>1. x8' = [x8 EXCEPT !.step = "raise"]
      BY <1>2, <1>10
    <2>2. x8'.step = "raise" /\ x8'.todo = x8.todo /\ x8' \in [step : {"rest", "judge", "raise"}, todo : Seq(VHeld)]
      BY <1>3, <2>1
    <2>3. VTypes'
      BY <1>1, <1>3, <1>5, <1>6, <2>2 DEF VInv, VTypes
    <2>4. \A i \in 1 .. Len(x8.todo) : i > 1 => x8.todo[i].mail \in VLetter /\ x8.todo[i].mail # m /\ x5[x8.todo[i].mail] = "unjudged"
      <3>1. \A i \in 1 .. Len(x8.todo) : i > 1 => x8.todo[i].mail # x8.todo[1].mail /\ x5[x8.todo[i].mail] = "unjudged"
        BY <1>3 DEF VInv, VFresh, VOpen
      <3> QED BY <1>1, <1>4, <3>1, VHead
    <2>5. VFresh'
      BY <1>4, <1>5, <1>8, <1>9, <1>10, <2>2, <2>4 DEF VInv, VFresh, VOpen
    <2>6. VRaised'
      BY <1>1, <1>4, <1>8, <2>2 DEF VInv, VRaised, VRow, V!Type
    <2> QED BY <1>7, <2>3, <2>5, <2>6 DEF VInv
  <1>11. CASE ~(ForVerdicts.Active /\ a \in ForVerdicts.Asks)
    <2>1. x8' = V!Later
      BY <1>2, <1>11
    <2>2. x8'.step \in {"rest", "judge"} /\ x8'.todo \in Seq(VHeld)
      BY <1>1, <2>1, VLater
    <2>3. VTypes'
      BY <1>1, <1>5, <1>6, <2>1, VLater DEF VInv, VTypes
    <2>4. VFresh'
      <3>1. \A i \in 1 .. Len(x8'.todo) : x8'.todo[i] \in VHeld
        BY <2>2
      <3>2. \A i \in 1 .. Len(x8'.todo) : x8'.todo[i].mail # m /\ x5[x8'.todo[i].mail] = "unjudged"
        BY <1>1, <1>4, <2>1, VLater DEF VOpen
      <3> QED BY <1>1, <1>8, <2>1, <2>2, <3>1, <3>2, VLater DEF VFresh, VOpen, VHeld
    <2>5. VRaised'
      BY <1>1, <1>5, <1>8, <1>9, <1>11, <2>2 DEF VInv, VRaised, VRow, V!Type
    <2> QED BY <1>7, <2>3, <2>4, <2>5 DEF VInv
  <1> QED BY <1>10, <1>11

\* The owner is told of an anomaly when its row is new.
LEMMA VTells == ASSUME VInv, V!AskAnomaly PROVE VInv'
  <1> DEFINE m == Head(x8.todo).mail
             row == <<V!Type(x5[m]), ForVerdicts.Id[m]>>
  <1>1. x6' = x6 \cup {row} /\ x7' = (IF row \notin x6 THEN x7 + 1 ELSE x7) /\ x8' = V!Later /\ x8.step = "raise"
        /\ UNCHANGED <<x1, x2, x3, x4, x5, x9, x10>>
    BY DEF V!AskAnomaly, V!Tells, V!mailbox
  <1>2. x8.todo \in Seq(VHeld) /\ x8.todo # <<>> /\ m = x8.todo[1].mail /\ m \in VLetter
    BY <1>1, VHead
  <1>3. row = VRow(m) /\ row[2] = ForVerdicts.Id[m] /\ row[1] \in {"credential_request", "payment_request"}
    BY DEF VRow, V!Type
  <1> HIDE DEF m, row
  <1>4. VTypes'
    BY <1>1, <1>2, <1>3, VLater DEF VInv, VTypes
  <1>5. x8'.step \in {"rest", "judge"}
    BY <1>1, VLater
  <1>6. VFresh'
    BY <1>1, <1>5, VLater DEF VFresh, VOpen
  <1>7. IsFiniteSet(x6') /\ x7' = Cardinality(x6')
    BY <1>1, FS_AddElement, FS_CardinalityType DEF VInv, VRaised
  <1>8. \A n \in VLetter : VRow(n)' = VRow(n)
    BY <1>1 DEF VRow, V!Type
  <1>9. VRaised'
    BY <1>1, <1>2, <1>3, <1>7, <1>8 DEF VInv, VRaised
  <1> QED BY <1>4, <1>6, <1>9 DEF VInv

\* A model that fails, or the process that dies, leaves the verdicts; the one
\* whose anomaly was cut off is remembered.
LEMMA VEnds == ASSUME VInv, V!ModelFails \/ V!Fault PROVE VInv'
  <1>1. x8' = V!Idle /\ x8.step # "rest" /\ UNCHANGED <<x1, x2, x3, x4, x5, x6, x7>>
    BY DEF V!ModelFails, V!Fault, V!mailbox
  <1>2. x8' = [step |-> "rest", todo |-> <<>>]
    BY <1>1 DEF V!Idle
  <1>3. x8.todo \in Seq(VHeld) /\ x8.todo # <<>> /\ Head(x8.todo) = x8.todo[1] /\ x8.todo[1].mail \in VLetter
    BY <1>1, VHead
  <1>4. x9' = (IF x8.step = "raise" THEN x9 \cup {x8.todo[1].mail} ELSE x9) \/ (x8.step = "judge" /\ x9' = x9)
    BY <1>3 DEF V!ModelFails, V!Fault
  <1>5. VTypes'
    <2>1. x10' \in 0 .. ForVerdicts.MaxFaults
      <3>1. x10 \in 0 .. ForVerdicts.MaxFaults
        BY DEF VInv, VTypes
      <3>2. x10' = x10 \/ (x10 < ForVerdicts.MaxFaults /\ x10' = x10 + 1)
        BY DEF V!ModelFails, V!Fault
      <3> QED BY <3>1, <3>2, VParams
    <2>2. x9' \subseteq VLetter
      BY <1>3, <1>4 DEF VInv, VTypes
    <2>3. x8' \in [step : {"rest", "judge", "raise"}, todo : Seq(VHeld)] /\ Len(x8'.todo) <= ForVerdicts.PerTick
          /\ (x8'.step = "rest") = (x8'.todo = <<>>)
      BY <1>2, VParams
    <2> QED BY <1>1, <2>1, <2>2, <2>3 DEF VInv, VTypes
  <1>6. VFresh'
    BY <1>2 DEF VFresh
  <1>7. VRaised'
    BY <1>1, <1>2, <1>4 DEF VInv, VRaised, VRow, V!Type
  <1> QED BY <1>5, <1>6, <1>7 DEF VInv

\* Every step of Verdicts keeps the invariant and every verdict.
LEMMA VStep == ASSUME VInv, V!Next PROVE VInv' /\ V!KeepsVerdicts
  <1>1. ASSUME UNCHANGED x5 PROVE V!KeepsVerdicts
    BY <1>1 DEF V!KeepsVerdicts
  <1>2. ASSUME NEW m \in VLetter, V!ArriveInCache(m) \/ V!ArriveInThread(m) \/ V!OwnerMoves(m) PROVE VInv' /\ UNCHANGED x5
    <2>1. UNCHANGED <<x4, x5, x6, x7, x8, x9, x10>> /\ x1' \subseteq x1 \cup {m} /\ x2' \subseteq x2 \cup {m} /\ x3' \subseteq x3 \cup {m}
      BY <1>2 DEF V!ArriveInCache, V!ArriveInThread, V!OwnerMoves
    <2> QED BY <2>1, VMail DEF VInv, VTypes
  <1>3. ASSUME NEW w \in ForVerdicts.Writer, V!OwnerWrites(w) PROVE VInv' /\ UNCHANGED x5
    <2>1. UNCHANGED <<x1, x2, x3, x5, x6, x7, x8, x9, x10>> /\ x4' = x4 \cup {w}
      BY <1>3 DEF V!OwnerWrites
    <2> QED BY <2>1, VMail DEF VInv, VTypes
  <1>4. ASSUME V!StartTick \/ V!PassOver \/ V!AskAnomaly \/ V!ModelFails \/ V!Fault PROVE UNCHANGED x5
    BY <1>4 DEF V!StartTick, V!PassOver, V!AskAnomaly, V!ModelFails, V!Fault
  <1> QED BY <1>1, <1>2, <1>3, <1>4, VStart, VPasses, VTells, VEnds, VJudges DEF V!Next, V!Tick, VLetter

\* So does every step of a verdicts scene.
LEMMA VScene == ASSUME At("verdicts"), VInv, [JudgingNext]_services PROVE VInv' /\ V!KeepsVerdicts
  <1>1. CASE UNCHANGED services
    BY <1>1, VMail DEF services, VInv, VTypes, V!KeepsVerdicts
  <1>2. CASE JudgingNext
    BY <1>2, VStep DEF JudgingNext, At
  <1> QED BY <1>1, <1>2

\* The invariant says what the property promises.
LEMMA VProperty == ASSUME VInv PROVE V!TypeOK /\ V!AskIsRaised
  <1>1. x8.step = "raise" => Head(x8.todo) = x8.todo[1]
    BY DEF VInv, VTypes
  <1>2. V!AskIsRaised
    BY <1>1, VSize DEF VInv, VRaised, VRow, V!AskIsRaised, V!Pending, VLetter
  <1>3. x7 \in Nat
    BY FS_CardinalityType DEF VInv, VRaised
  <1> QED BY <1>2, <1>3, VAnswers DEF VInv, VTypes, V!TypeOK, VLetter

-----------------------------------------------------------------------------
(* Evaluation.                                                             *)

EMail == ForEvaluation.Held \cup ForEvaluation.Legit

\* What the counts of one model must say.
EAdds(r) ==
    /\ r.spam <= ForEvaluation.PerClass /\ r.legit <= ForEvaluation.PerClass
    /\ \A t \in ForEvaluation.Threshold :
         /\ \A u \in ForEvaluation.Threshold : t <= u => r.caught[u] <= r.caught[t] /\ r.vetted[u] <= r.vetted[t]
         /\ r.scamfp[t] <= r.falsepos[t]
         /\ r.caught[t] + r.falsepos[t] + r.vetted[t] + r.errors + r.unparsed <= r.spam + r.legit

EInv ==
    /\ x1 \in {"none", "running", "done", "failed"} /\ x2 \in BOOLEAN
    /\ x3.taken \in BOOLEAN /\ x3.mail \subseteq EMail
    /\ Cardinality(x3.mail \cap ForEvaluation.Held) <= ForEvaluation.PerClass
    /\ Cardinality(x3.mail \cap ForEvaluation.Legit) <= ForEvaluation.PerClass
    /\ DOMAIN x4 = ForEvaluation.Model
    /\ \A m \in ForEvaluation.Model : x4[m].done \in BOOLEAN /\ (x4[m].done => EAdds(x4[m]))
    /\ x1 = "done" => \A m \in ForEvaluation.Model : x4[m].done

\* The instance's cardinality is the library's.
LEMMA ESize == \A Set : E!Cardinality(Set) = Cardinality(Set)
  BY Zenon DEF E!Cardinality, Cardinality

\* What an evaluation is configured with.
LEMMA EParams ==
    /\ IsFiniteSet(ForEvaluation.Held) /\ IsFiniteSet(ForEvaluation.Legit)
    /\ ForEvaluation.PerClass \in Nat /\ ForEvaluation.Threshold \subseteq Int /\ ForEvaluation.Confidence \subseteq Int
  <1>1. IsFiniteSet(ForEvaluation.Held) /\ IsFiniteSet(ForEvaluation.Legit)
    BY JudgementAssumption DEF E!ParamAssumption, E!IsFiniteSet, IsFiniteSet
  <1> QED BY <1>1, JudgementAssumption DEF E!ParamAssumption

\* Sets with nothing in common add up.
LEMMA Apart == ASSUME NEW A, NEW B, IsFiniteSet(A), IsFiniteSet(B), A \cap B = {}
               PROVE  IsFiniteSet(A \cup B) /\ Cardinality(A \cup B) = Cardinality(A) + Cardinality(B)
  <1>1. IsFiniteSet(A \cup B) /\ Cardinality(A \cup B) = Cardinality(A) + Cardinality(B) - Cardinality(A \cap B)
    BY FS_Union
  <1>2. Cardinality(A \cap B) = 0 /\ Cardinality(A) \in Nat /\ Cardinality(B) \in Nat
    BY FS_EmptySet, FS_CardinalityType
  <1> QED BY <1>1, <1>2

\* Counting the answers of one model gives numbers that add up: a higher
\* threshold catches no more, and each mail is counted at most once.
LEMMA ECounts ==
    ASSUME EInv, NEW answers \in [x3.mail -> E!Answer]
    PROVE  EAdds(E!Counts(answers)) /\ E!Counts(answers).done = TRUE
  <1> DEFINE spam  == x3.mail \cap ForEvaluation.Held
             legit == x3.mail \ ForEvaluation.Held
             errors == {x \in x3.mail : answers[x].verdict = "error"}
             unparsed == {x \in x3.mail : answers[x].verdict = "unparsed"}
             caught(t) == {x \in spam : E!Flagged(answers[x], t)}
             falsepos(t) == {x \in legit : E!Flagged(answers[x], t)}
             scamfp(t) == {x \in legit : E!Flagged(answers[x], t) /\ answers[x].verdict = "scam"}
             vetted(t) == {x \in legit : ~E!Flagged(answers[x], t) /\ answers[x].verdict = "legitimate" /\ E!Sure(answers[x], t)}
             r == E!Counts(answers)
  <1>1. /\ r.done = TRUE /\ r.spam = Cardinality(spam) /\ r.legit = Cardinality(legit)
        /\ r.errors = Cardinality(errors) /\ r.unparsed = Cardinality(unparsed)
        /\ \A t \in ForEvaluation.Threshold :
             /\ r.caught[t] = Cardinality(caught(t)) /\ r.falsepos[t] = Cardinality(falsepos(t))
             /\ r.scamfp[t] = Cardinality(scamfp(t)) /\ r.vetted[t] = Cardinality(vetted(t))
    BY ESize DEF E!Counts, E!Count
  <1>2. IsFiniteSet(x3.mail)
    BY EParams, FS_Union, FS_Subset DEF EInv, EMail
  <1>3. \A x \in x3.mail : answers[x].verdict \in {"error", "unparsed", "scam", "bulk", "legitimate"} /\ answers[x].sure \in Int
    BY EParams DEF E!Answer
  <1>4. r.spam <= ForEvaluation.PerClass /\ r.legit <= ForEvaluation.PerClass
    <2>1. legit \subseteq x3.mail \cap ForEvaluation.Legit
      BY DEF EInv, EMail
    <2>2. IsFiniteSet(x3.mail \cap ForEvaluation.Legit)
      BY <1>2, FS_Subset
    <2>3. Cardinality(legit) <= Cardinality(x3.mail \cap ForEvaluation.Legit) /\ Cardinality(legit) \in Nat
          /\ Cardinality(x3.mail \cap ForEvaluation.Legit) \in Nat
      BY <2>1, <2>2, FS_Subset, FS_CardinalityType
    <2> HIDE DEF spam, legit, r
    <2> QED BY <1>1, <2>3, EParams DEF EInv, spam
  <1>5. ASSUME NEW t \in ForEvaluation.Threshold, NEW u \in ForEvaluation.Threshold, t <= u
        PROVE  r.caught[u] <= r.caught[t] /\ r.vetted[u] <= r.vetted[t]
    <2>1. \A x \in x3.mail : E!Flagged(answers[x], u) => E!Flagged(answers[x], t)
      BY <1>3, <1>5, EParams DEF E!Flagged, E!Sure
    <2>2. \A x \in x3.mail : answers[x].verdict = "legitimate" => ~E!Flagged(answers[x], t)
      BY DEF E!Flagged
    <2>3. \A x \in x3.mail : E!Sure(answers[x], u) => E!Sure(answers[x], t)
      BY <1>3, <1>5, EParams DEF E!Sure
    <2>4. caught(u) \subseteq caught(t) /\ vetted(u) \subseteq vetted(t)
      BY <2>1, <2>2, <2>3
    <2>5. IsFiniteSet(caught(t)) /\ IsFiniteSet(vetted(t))
      BY <1>2, FS_Subset
    <2> HIDE DEF r, caught, vetted
    <2>6. Cardinality(caught(u)) <= Cardinality(caught(t)) /\ Cardinality(vetted(u)) <= Cardinality(vetted(t))
      BY <2>4, <2>5, FS_Subset
    <2> QED BY <1>1, <2>6
  <1>6. ASSUME NEW t \in ForEvaluation.Threshold
        PROVE  /\ r.scamfp[t] <= r.falsepos[t]
               /\ r.caught[t] + r.falsepos[t] + r.vetted[t] + r.errors + r.unparsed <= r.spam + r.legit
    <2>1. scamfp(t) \subseteq falsepos(t) /\ IsFiniteSet(falsepos(t)) /\ IsFiniteSet(caught(t)) /\ IsFiniteSet(vetted(t))
          /\ IsFiniteSet(errors) /\ IsFiniteSet(unparsed) /\ IsFiniteSet(spam) /\ IsFiniteSet(legit)
      BY <1>2, FS_Subset
    <2>2. /\ caught(t) \cap falsepos(t) = {} /\ (caught(t) \cup falsepos(t)) \cap vetted(t) = {}
          /\ errors \cap unparsed = {} /\ spam \cap legit = {} /\ spam \cup legit = x3.mail
      OBVIOUS
    <2>3. (caught(t) \cup falsepos(t) \cup vetted(t)) \cap (errors \cup unparsed) = {}
      BY DEF E!Flagged
    <2>4. caught(t) \cup falsepos(t) \cup vetted(t) \cup (errors \cup unparsed) \subseteq x3.mail
      OBVIOUS
    <2> HIDE DEF r, caught, vetted, falsepos, errors, unparsed, spam, legit, scamfp
    <2>5. Cardinality(scamfp(t)) <= Cardinality(falsepos(t))
      BY <2>1, FS_Subset
    <2>6. IsFiniteSet(caught(t) \cup falsepos(t)) /\ Cardinality(caught(t) \cup falsepos(t)) = Cardinality(caught(t)) + Cardinality(falsepos(t))
      BY <2>1, <2>2, Apart
    <2>7. /\ IsFiniteSet(caught(t) \cup falsepos(t) \cup vetted(t))
          /\ Cardinality(caught(t) \cup falsepos(t) \cup vetted(t)) = Cardinality(caught(t) \cup falsepos(t)) + Cardinality(vetted(t))
      BY <2>1, <2>2, <2>6, Apart
    <2>8. IsFiniteSet(errors \cup unparsed) /\ Cardinality(errors \cup unparsed) = Cardinality(errors) + Cardinality(unparsed)
      BY <2>1, <2>2, Apart
    <2>9. Cardinality(caught(t) \cup falsepos(t) \cup vetted(t) \cup (errors \cup unparsed))
            = Cardinality(caught(t) \cup falsepos(t) \cup vetted(t)) + Cardinality(errors \cup unparsed)
      BY <2>3, <2>7, <2>8, Apart
    <2>10. Cardinality(caught(t) \cup falsepos(t) \cup vetted(t) \cup (errors \cup unparsed)) <= Cardinality(x3.mail)
      BY <1>2, <2>4, FS_Subset
    <2>11. Cardinality(x3.mail) = Cardinality(spam) + Cardinality(legit)
      BY <2>1, <2>2, Apart
    <2>12. /\ Cardinality(caught(t)) \in Nat /\ Cardinality(falsepos(t)) \in Nat /\ Cardinality(vetted(t)) \in Nat
           /\ Cardinality(errors) \in Nat /\ Cardinality(unparsed) \in Nat /\ Cardinality(spam) \in Nat /\ Cardinality(legit) \in Nat
      BY <2>1, FS_CardinalityType
    <2>13. Cardinality(caught(t)) + Cardinality(falsepos(t)) + Cardinality(vetted(t)) + Cardinality(errors) + Cardinality(unparsed)
             <= Cardinality(spam) + Cardinality(legit)
      BY <2>6, <2>7, <2>8, <2>9, <2>10, <2>11, <2>12
    <2> QED BY <1>1, <2>5, <2>13
  <1> HIDE DEF r
  <1>7. EAdds(r)
    BY <1>4, <1>5, <1>6 DEF EAdds
  <1> QED BY <1>1, <1>7 DEF r

\* At the start there are no results.
LEMMA EInit == ASSUME At("evaluation"), JudgingInit PROVE EInv
  <1>1. E!Init
    BY DEF JudgingInit, At
  <1>2. Cardinality({} \cap ForEvaluation.Held) <= ForEvaluation.PerClass /\ Cardinality({} \cap ForEvaluation.Legit) <= ForEvaluation.PerClass
    BY FS_EmptySet, EParams
  <1> QED BY <1>1, <1>2 DEF E!Init, E!NoSample, E!NoResult, EInv, EMail

\* Every step of Evaluation keeps the invariant.
LEMMA EStep == ASSUME EInv, E!Next PROVE EInv'
  <1>1. CASE E!Start
    BY <1>1 DEF E!Start, EInv
  <1>2. CASE E!Finish
    <2>1. UNCHANGED <<x3, x4>> /\ x2' = FALSE /\ x1' \in {x1, "done", "failed"}
          /\ (x1' = "done" => x1 = "done" \/ \A m \in ForEvaluation.Model : x4[m].done)
      BY <1>2 DEF E!Finish
    <2> QED BY <2>1 DEF EInv
  <1>3. ASSUME NEW S \in SUBSET EMail, E!TakeSample(S) PROVE EInv'
    <2>1. x3' = [taken |-> TRUE, mail |-> S] /\ UNCHANGED <<x1, x2, x4>>
          /\ Cardinality(S \cap ForEvaluation.Held) <= ForEvaluation.PerClass
          /\ Cardinality(S \cap ForEvaluation.Legit) <= ForEvaluation.PerClass
      BY <1>3, ESize DEF E!TakeSample, E!Balanced
    <2> QED BY <2>1 DEF EInv
  <1>4. ASSUME NEW m \in ForEvaluation.Model, NEW answers \in [x3.mail -> E!Answer], E!Evaluate(m, answers) PROVE EInv'
    <2>1. x4' = [x4 EXCEPT ![m] = E!Counts(answers)] /\ UNCHANGED <<x1, x2, x3>>
      BY <1>4 DEF E!Evaluate
    <2>2. EAdds(E!Counts(answers)) /\ E!Counts(answers).done = TRUE
      BY ECounts
    <2>3. DOMAIN x4' = ForEvaluation.Model /\ \A n \in ForEvaluation.Model : x4'[n] = IF n = m THEN E!Counts(answers) ELSE x4[n]
      BY <2>1 DEF EInv
    <2> QED BY <2>1, <2>2, <2>3 DEF EInv
  <1> QED BY <1>1, <1>2, <1>3, <1>4 DEF E!Next, EMail

\* So does every step of an evaluation scene.
LEMMA EScene == ASSUME At("evaluation"), EInv, [JudgingNext]_services PROVE EInv'
  <1>1. CASE UNCHANGED services
    BY <1>1 DEF services, EInv
  <1>2. CASE JudgingNext
    BY <1>2, EStep DEF JudgingNext, At
  <1> QED BY <1>1, <1>2

\* The invariant says what the property promises.
LEMMA EProperty == ASSUME EInv PROVE E!TypeOK /\ E!EvalAddsUp
  BY DEF EInv, EAdds, EMail, E!TypeOK, E!EvalAddsUp

-----------------------------------------------------------------------------
(* Replies.                                                                *)

RThread == ForReplies.Thread
RMail == DOMAIN x1.of
RRow == [last : RMail \cup {0}, answered : BOOLEAN, dismissed : RMail \cup {0}]
RReq == [step : {"rest", "take", "check", "record"}, todo : SUBSET RMail, batch : SUBSET RMail, hits : SUBSET RMail,
         drop : SUBSET RMail, items : SUBSET RMail, from : SUBSET RMail]

RTypes ==
    /\ x1 \in ForReplies.Stories /\ x2 \in RMail \cup {0}
    /\ x3 \subseteq RMail /\ x4 \subseteq RMail /\ x5 \subseteq RMail /\ x10 \subseteq RMail
    /\ x6 \in [RThread -> RRow] /\ x7 \in [RMail -> RMail \cup {0}] /\ x8 \in 0 .. ForReplies.MaxRenumber
    /\ x9 \in RReq

\* A row holds a message of its conversation, and is answered only for one that
\* was, or whose UID named one that was; so is what a request has found out.
RRows ==
    /\ \A t \in RThread : /\ x6[t].last = 0 => x6[t].dismissed = 0
                          /\ x6[t].last # 0 => x1.of[x6[t].last] = t
                          /\ x6[t].answered => x6[t].last \in x3 \cup x10
    /\ x9.hits \subseteq x3 \cup x10

\* Where each conversation of the list is by now.
RList ==
    /\ x9.from = x9.items \cup x9.batch \cup x9.todo \cup x9.drop
    /\ x9.todo \cap (x9.batch \cup x9.drop) = {} /\ x9.items \cap x9.drop = {}
    /\ \A i \in x9.items, m \in x9.batch \cup x9.todo : i < m
    /\ \A i \in x9.batch, m \in x9.todo : i < m
    /\ Cardinality(x9.items) + Cardinality(x9.batch) <= ForReplies.Limit
    /\ x9.step \in {"rest", "take"} => x9.batch = {}

RInv == RTypes /\ RRows /\ RList

\* The instance's cardinality is the library's.
LEMMA RSize == \A Set : R!Cardinality(Set) = Cardinality(Set)
  BY Zenon DEF R!Cardinality, Cardinality

\* What is asked for.
LEMMA RParams ==
    /\ \A s \in ForReplies.Stories : s.of \in Seq(RThread) /\ DOMAIN s.answers \subseteq DOMAIN s.of
    /\ ForReplies.Limit \in Nat \ {0} /\ ForReplies.MaxRenumber \in Nat
  BY JudgementAssumption DEF R!ParamAssumption, RThread

\* Mail is numbered from 1, and there is only so much of it.
LEMMA RCounts ==
    ASSUME RTypes
    PROVE  RMail \subseteq Nat /\ 0 \notin RMail /\ IsFiniteSet(RMail) /\ \A m \in RMail : x1.of[m] \in RThread
  <1>1. x1.of \in Seq(RThread)
    BY RParams DEF RTypes
  <1>2. Len(x1.of) \in Nat /\ RMail = 1 .. Len(x1.of) /\ \A m \in RMail : x1.of[m] \in RThread
    BY <1>1 DEF RMail
  <1>3. IsFiniteSet(1 .. Len(x1.of))
    <2> DEFINE n == Len(x1.of)
    <2>1. n \in Int /\ 1 \in Int
      BY <1>2
    <2> HIDE DEF n
    <2>2. IsFiniteSet(1 .. n)
      BY <2>1, FS_Interval
    <2> QED BY <2>2 DEF n
  <1> QED BY <1>2, <1>3

\* So every part of it can be counted.
LEMMA RFinite == ASSUME RTypes, NEW S \in SUBSET RMail PROVE IsFiniteSet(S) /\ Cardinality(S) \in Nat
  BY RCounts, FS_Subset, FS_CardinalityType

\* At the start there are no rows and no request.
LEMMA RInit == ASSUME At("replies"), JudgingInit PROVE RInv
  <1>1. R!Init
    BY DEF JudgingInit, At
  <1>2. /\ x1 \in ForReplies.Stories /\ x2 = 0 /\ x3 = {} /\ x4 = {} /\ x5 = {} /\ x8 = 0 /\ x10 = {}
        /\ x6 = [t \in RThread |-> [last |-> 0, answered |-> FALSE, dismissed |-> 0]] /\ x7 = [m \in RMail |-> m]
        /\ x9 = [step |-> "rest", todo |-> {}, batch |-> {}, hits |-> {}, drop |-> {}, items |-> {}, from |-> {}]
    BY <1>1 DEF R!Init, R!NoRow, R!NoReq, R!Mails, RThread, RMail
  <1>3. x9 \in RReq
    BY <1>2 DEF RReq
  <1>4. x6 \in [RThread -> RRow]
    BY <1>2 DEF RRow
  <1>5. RTypes
    BY <1>2, <1>3, <1>4, RParams DEF RTypes
  <1>6. RRows
    BY <1>2 DEF RRows
  <1>7. RList
    <2>1. Cardinality({}) = 0
      BY FS_EmptySet
    <2> QED BY <1>2, <2>1, RParams DEF RList
  <1> QED BY <1>5, <1>6, <1>7 DEF RInv

\* A step that leaves the request alone leaves its list right.
LEMMA RListStays == ASSUME RList, UNCHANGED x9 PROVE RList'
  BY DEF RList

\* Mail that comes, is answered, discarded or renumbered changes no row.
LEMMA ROwner ==
    ASSUME RInv, UNCHANGED <<x1, x6, x9, x10>>, x2' \in RMail \cup {0}, x3 \subseteq x3', x3' \subseteq RMail,
           x4' \subseteq RMail, x5' \subseteq RMail, x7' \in [RMail -> RMail \cup {0}], x8' \in 0 .. ForReplies.MaxRenumber
    PROVE  RInv'
  <1>1. RTypes'
    BY DEF RInv, RTypes, RMail, RRow, RReq
  <1>2. RRows'
    BY DEF RInv, RRows
  <1> QED BY <1>1, <1>2, RListStays DEF RInv

\* The scan keeps the latest message of a conversation, answered only if it was.
LEMMA RSees == ASSUME RInv, NEW m \in RMail, R!See(m) PROVE RInv'
  <1> DEFINE t == x1.of[m]
             r == x6[t]
             now == m \in x3 \/ (r.last = m /\ r.answered)
  <1>1. /\ x4' = x4 \cup {m} /\ x7' = [x7 EXCEPT ![m] = m] /\ UNCHANGED <<x1, x2, x3, x5, x8, x9, x10>>
        /\ x6' = IF m >= r.last THEN [x6 EXCEPT ![t].last = m, ![t].answered = now] ELSE x6
    BY DEF R!See, R!Of, R!AnsweredNow
  <1>2. t \in RThread /\ m \in Nat /\ m # 0
    BY RCounts DEF RInv
  <1>3. x6 \in [RThread -> RRow] /\ r \in RRow
    BY <1>2 DEF RInv, RTypes
  <1>4. CASE m >= r.last
    <2> DEFINE n == [r EXCEPT !.last = m, !.answered = now]
    <2>1. x6' = [x6 EXCEPT ![t] = n]
      BY <1>1, <1>4
    <2>2. n \in RRow /\ n.last = m /\ n.answered = now /\ n.dismissed = r.dismissed
      <3>1. now \in BOOLEAN
        BY <1>3 DEF RRow
      <3> HIDE DEF now
      <3> QED BY <1>3, <3>1 DEF RRow
    <2>3. now => m \in x3 \cup x10
      BY <1>2 DEF RInv, RRows
    <2> HIDE DEF n, now
    <2>4. x6' \in [RThread -> RRow] /\ \A u \in RThread : x6'[u] = IF u = t THEN n ELSE x6[u]
      BY <1>2, <1>3, <2>1, <2>2
    <2>5. RTypes'
      BY <1>1, <2>4 DEF RInv, RTypes, RMail, RRow, RReq
    <2>6. RRows'
      <3>1. ASSUME NEW u \in RThread
            PROVE  /\ x6'[u].last = 0 => x6'[u].dismissed = 0
                   /\ x6'[u].last # 0 => x1'.of[x6'[u].last] = u
                   /\ x6'[u].answered => x6'[u].last \in x3' \cup x10'
        <4>1. CASE u = t
          BY <1>1, <1>2, <2>2, <2>3, <2>4, <4>1
        <4>2. CASE u # t
          BY <1>1, <2>4, <4>2 DEF RInv, RRows
        <4> QED BY <4>1, <4>2
      <3> QED BY <1>1, <3>1 DEF RInv, RRows
    <2> QED BY <1>1, <2>5, <2>6, RListStays DEF RInv
  <1>5. CASE ~(m >= r.last)
    <2>1. x6' = x6
      BY <1>1, <1>5
    <2>2. x4' \subseteq RMail /\ x7' \in [RMail -> RMail \cup {0}]
      BY <1>1 DEF RInv, RTypes
    <2> QED BY <1>1, <2>1, <2>2, ROwner DEF RInv, RTypes
  <1> QED BY <1>4, <1>5

\* A dismissal names the message the row holds.
LEMMA RDismisses == ASSUME RInv, NEW t \in RThread, R!DismissReply(t) PROVE RInv'
  <1> DEFINE n == [x6[t] EXCEPT !.dismissed = x6[t].last]
  <1>1. x6' = [x6 EXCEPT ![t] = n] /\ UNCHANGED <<x1, x2, x3, x4, x5, x7, x8, x9, x10>>
    BY DEF R!DismissReply, R!mailbox, R!places
  <1>2. x6 \in [RThread -> RRow]
    BY DEF RInv, RTypes
  <1>3. n \in RRow /\ n.last = x6[t].last /\ n.dismissed = x6[t].last /\ n.answered = x6[t].answered
    BY <1>2 DEF RRow
  <1> HIDE DEF n
  <1>4. x6' \in [RThread -> RRow] /\ \A u \in RThread : x6'[u] = IF u = t THEN n ELSE x6[u]
    BY <1>1, <1>2, <1>3
  <1>5. RTypes'
    BY <1>1, <1>4 DEF RInv, RTypes, RMail, RRow, RReq
  <1>6. RRows'
    BY <1>1, <1>3, <1>4 DEF RInv, RRows
  <1> QED BY <1>1, <1>5, <1>6, RListStays DEF RInv

\* A request starts with the open conversations.
LEMMA RStarts == ASSUME RInv, R!StartList PROVE RInv'
  <1> DEFINE found == {x6[t].last : t \in {u \in RThread : R!Open(u)}}
  <1>1. x9' = [R!NoReq EXCEPT !.step = "take", !.todo = found, !.from = found] /\ UNCHANGED <<x1, x2, x3, x4, x5, x6, x7, x8, x10>>
    BY DEF R!StartList, R!mailbox, R!places, RThread
  <1>2. found \subseteq RMail
    BY DEF R!Open, RInv, RTypes, RRow
  <1> HIDE DEF found
  <1>3. x9' = [step |-> "take", todo |-> found, batch |-> {}, hits |-> {}, drop |-> {}, items |-> {}, from |-> found]
    BY <1>1 DEF R!NoReq
  <1>4. RTypes'
    BY <1>1, <1>2, <1>3 DEF RInv, RTypes, RMail, RRow, RReq
  <1>5. RRows'
    <2>1. x9'.hits = {}
      BY ONLY <1>3
    <2>2. UNCHANGED <<x1, x3, x6, x10>>
      BY <1>1
    <2> QED BY <2>1, <2>2 DEF RInv, RRows
  <1>6. RList'
    <2>1. Cardinality({}) = 0
      BY FS_EmptySet
    <2> QED BY <1>3, <2>1, RParams DEF RList
  <1> QED BY <1>4, <1>5, <1>6 DEF RInv

\* A set of numbers with a bound has a greatest.
LEMMA Greatest == ASSUME NEW n \in Nat, NEW S \in SUBSET (0 .. n), S # {} PROVE \E k \in S : \A m \in S : m <= k
  <1> DEFINE lack == {n - m : m \in S}
  <1>1. lack \subseteq Nat /\ lack # {}
    <2>1. ASSUME NEW m \in S PROVE n - m \in Nat
      <3>1. m \in 0 .. n
        OBVIOUS
      <3> QED BY <3>1
    <2> QED BY <2>1
  <1>2. PICK least \in lack : \A l \in lack : <<l, least>> \notin OpToRel(<, Nat)
    BY <1>1, NatLessThanWellFounded, WFMin
  <1>3. PICK k \in S : least = n - k
    BY <1>2
  <1>4. ASSUME NEW m \in S PROVE m <= k
    <2>1. n - m \in lack /\ n - m \in Nat /\ least \in Nat
      BY <1>1, <1>2
    <2>2. ~(n - m < least)
      BY <1>2, <2>1 DEF OpToRel
    <2> QED BY <1>3, <2>2
  <1> QED BY <1>4

\* So has every part of the mail.
LEMMA RLast == ASSUME RTypes, NEW S \in SUBSET RMail, S # {} PROVE \E k \in S : \A m \in S : m <= k
  <1>1. x1.of \in Seq(RThread)
    BY RParams DEF RTypes
  <1>2. Len(x1.of) \in Nat /\ RMail \subseteq 0 .. Len(x1.of)
    BY <1>1 DEF RMail
  <1> QED BY <1>2, Greatest

\* The least batch that fills the list fills it exactly: without its latest
\* conversation it would not have.
LEMMA RFits ==
    ASSUME RInv, NEW passed, NEW P \in R!OldestOf(x9.todo), R!Full(P, passed),
           \A Q \in R!OldestOf(x9.todo) : R!Full(Q, passed) => P \subseteq Q,
           x9.batch = {}
    PROVE  Cardinality(x9.items) + Cardinality(R!Fits(P, passed)) <= ForReplies.Limit
  <1>1. x9 \in RReq /\ RTypes
    BY DEF RInv, RTypes
  <1>2. P \subseteq RMail /\ P \subseteq x9.todo /\ RMail \subseteq Nat /\ x9.items \subseteq RMail
    BY <1>1, RCounts DEF R!OldestOf, RReq
  <1>3. Cardinality(x9.items) <= ForReplies.Limit /\ Cardinality(x9.items) \in Nat /\ ForReplies.Limit \in Nat
    <2>1. Cardinality({}) = 0 /\ Cardinality(x9.items) + Cardinality(x9.batch) <= ForReplies.Limit
      BY FS_EmptySet DEF RInv, RList
    <2>2. Cardinality(x9.items) \in Nat
      BY <1>1, <1>2, RFinite
    <2> QED BY <2>1, <2>2, RParams
  <1>4. R!Fits(P, passed) \subseteq P
    BY DEF R!Fits
  <1>5. CASE P = {}
    <2>1. Cardinality(R!Fits(P, passed)) = 0
      BY <1>4, <1>5, FS_EmptySet
    <2> QED BY <1>3, <2>1
  <1>6. CASE P # {}
    <2>1. PICK k \in P : \A m \in P : m <= k
      BY <1>1, <1>2, <1>6, RLast
    <2> DEFINE Q == P \ {k}
               fq == R!Fits(Q, passed)
               fp == R!Fits(P, passed)
    <2>2. Q \in R!OldestOf(x9.todo)
      <3>1. ASSUME NEW m \in Q, NEW j \in x9.todo, j <= m PROVE j \in Q
        <4>1. j \in P
          BY <3>1 DEF R!OldestOf
        <4>2. m \in Nat /\ k \in Nat /\ m <= k /\ m # k
          BY <1>2, <2>1
        <4> QED BY <3>1, <4>1, <4>2
      <3> QED BY <1>2, <3>1 DEF R!OldestOf
    <2>3. ~R!Full(Q, passed)
      BY <2>2
    <2>4. Cardinality(x9.items) + Cardinality(fq) < ForReplies.Limit
      <3>1. ~(R!Cardinality(x9.items) + R!Cardinality(fq) >= ForReplies.Limit)
        BY <2>3 DEF R!Full
      <3>2. Cardinality(fq) \in Nat
        <4>1. fq \in SUBSET RMail
          BY <1>2 DEF R!Fits
        <4> QED BY <1>1, <4>1, RFinite
      <3> HIDE DEF fq
      <3> QED BY <1>3, <3>1, <3>2, RSize
    <2>5. fp \subseteq fq \cup {k} /\ fq \subseteq RMail /\ fp \subseteq RMail
      BY <1>2 DEF R!Fits
    <2> HIDE DEF fp, fq, Q
    <2>6. IsFiniteSet(fq) /\ Cardinality(fq) \in Nat /\ Cardinality(fp) \in Nat
      BY <1>1, <2>5, RFinite
    <2>7. IsFiniteSet(fq \cup {k}) /\ Cardinality(fq \cup {k}) <= Cardinality(fq) + 1 /\ Cardinality(fq \cup {k}) \in Nat
      <3>1. IsFiniteSet(fq \cup {k}) /\ (Cardinality(fq \cup {k}) = Cardinality(fq) \/ Cardinality(fq \cup {k}) = Cardinality(fq) + 1)
        BY <2>6, FS_AddElement
      <3> QED BY <2>6, <3>1
    <2>8. Cardinality(fp) <= Cardinality(fq \cup {k})
      BY <2>5, <2>7, FS_Subset
    <2> QED BY <1>3, <2>4, <2>6, <2>7, <2>8 DEF fp
  <1> QED BY <1>5, <1>6

\* The batch comes before what is left, and is no longer than what is wanted.
LEMMA RTakes == ASSUME RInv, R!NextBatch PROVE RInv'
  <1>1. x9.step = "take" /\ UNCHANGED <<x1, x2, x3, x4, x5, x6, x7, x8, x10>>
    BY DEF R!NextBatch, R!mailbox, R!places
  <1>2. PICK passed \in SUBSET {m \in x9.todo : R!Of(m) \in ForReplies.Strangers}, P \in R!OldestOf(x9.todo) :
          /\ R!Full(P, passed) /\ \A Q \in R!OldestOf(x9.todo) : R!Full(Q, passed) => P \subseteq Q
          /\ x9' = [x9 EXCEPT !.step = "check", !.todo = x9.todo \ P, !.batch = R!Fits(P, passed),
                              !.drop = x9.drop \cup (P \ R!Fits(P, passed))]
    BY DEF R!NextBatch
  <1> DEFINE fits == R!Fits(P, passed)
  <1>3. P \subseteq x9.todo /\ fits \subseteq P /\ \A m \in P, k \in x9.todo : k <= m => k \in P
    BY DEF R!OldestOf, R!Fits
  <1>4. x9.batch = {} /\ x9 \in RReq
    BY <1>1 DEF RInv, RTypes, RList
  <1>5. Cardinality(x9.items) + Cardinality(fits) <= ForReplies.Limit
    BY <1>2, <1>4, RFits
  <1> HIDE DEF fits
  <1>6. x9' = [x9 EXCEPT !.step = "check", !.todo = x9.todo \ P, !.batch = fits, !.drop = x9.drop \cup (P \ fits)]
    BY <1>2 DEF fits
  <1>7. x9' \in RReq /\ x9'.step = "check" /\ x9'.todo = x9.todo \ P /\ x9'.batch = fits /\ x9'.drop = x9.drop \cup (P \ fits)
        /\ x9'.items = x9.items /\ x9'.from = x9.from /\ x9'.hits = x9.hits
    BY <1>3, <1>4, <1>6 DEF RReq
  <1>8. RTypes'
    BY <1>1, <1>7 DEF RInv, RTypes, RMail, RRow, RReq
  <1>9. RRows'
    BY <1>1, <1>7 DEF RInv, RRows
  <1>10. x9.todo \subseteq RMail /\ RMail \subseteq Nat /\ x9.items \subseteq RMail
    BY <1>4, RCounts DEF RReq, RInv
  <1>11. RList'
    <2>1. x9'.from = x9'.items \cup x9'.batch \cup x9'.todo \cup x9'.drop
      BY <1>3, <1>4, <1>7 DEF RInv, RList
    <2>2. x9'.todo \cap (x9'.batch \cup x9'.drop) = {}
      BY <1>3, <1>7 DEF RInv, RList
    <2>3. \A i \in x9.items, m \in x9.todo : i < m
      BY DEF RInv, RList
    <2>4. x9'.items \cap x9'.drop = {}
      <3>1. ASSUME NEW i \in x9.items, i \in P PROVE FALSE
        <4>1. i < i /\ i \in Nat
          BY <1>3, <1>10, <2>3, <3>1
        <4> QED BY <4>1
      <3>2. x9.items \cap x9.drop = {}
        BY DEF RInv, RList
      <3> QED BY <1>7, <3>1, <3>2
    <2>5. \A i \in x9'.items, m \in x9'.batch \cup x9'.todo : i < m
      BY <1>3, <1>7, <2>3
    <2>6. \A i \in x9'.batch, m \in x9'.todo : i < m
      <3>1. ASSUME NEW i \in fits, NEW m \in x9.todo \ P PROVE i < m
        <4>1. i \in Nat /\ m \in Nat /\ ~(m <= i)
          BY <1>3, <1>10, <3>1
        <4> QED BY <4>1
      <3> QED BY <1>7, <3>1
    <2> QED BY <1>5, <1>7, <2>1, <2>2, <2>4, <2>5, <2>6 DEF RList
  <1> QED BY <1>8, <1>9, <1>11 DEF RInv

\* A look-up drops only what is in the batch, and finds answered only mail that
\* was, or whose UID named mail that was.
LEMMA RFetches == ASSUME RInv, NEW reached \in BOOLEAN, R!Fetch(reached) PROVE RInv'
  <1> DEFINE there == {m \in x9.batch : reached /\ x7[m] # 0}
             hits == {m \in there : x7[m] \in x3}
             more == hits \cup {m \in there : R!NotForReply(x7[m])} \cup {m \in x9.batch \ there : R!Of(m) \in ForReplies.Strangers}
  <1>1. /\ x9.step = "check" /\ x10' = x10 \cup {m \in there : x7[m] # m} /\ UNCHANGED <<x1, x2, x3, x4, x5, x6, x7, x8>>
        /\ x9' = [x9 EXCEPT !.step = "record", !.hits = hits, !.drop = x9.drop \cup hits
                      \cup {m \in there : R!NotForReply(x7[m])} \cup {m \in x9.batch \ there : R!Of(m) \in ForReplies.Strangers}]
    BY DEF R!Fetch, R!mailbox, R!places
  <1>2. x9' = [x9 EXCEPT !.step = "record", !.hits = hits, !.drop = x9.drop \cup more]
    BY <1>1
  <1>3. there \subseteq x9.batch /\ hits \subseteq x9.batch /\ more \subseteq x9.batch
    OBVIOUS
  <1>4. hits \subseteq x3 \cup x10' /\ x10' \subseteq x10 \cup x9.batch /\ x10 \subseteq x10'
    BY <1>1
  <1> HIDE DEF there, hits, more
  <1>5. x9 \in RReq
    BY DEF RInv, RTypes
  <1>6. x9' \in RReq /\ x9'.step = "record" /\ x9'.todo = x9.todo /\ x9'.batch = x9.batch /\ x9'.hits = hits
        /\ x9'.drop = x9.drop \cup more /\ x9'.items = x9.items /\ x9'.from = x9.from
    BY <1>2, <1>3, <1>5 DEF RReq
  <1>7. x9.batch \subseteq RMail /\ x9.items \subseteq RMail /\ RMail \subseteq Nat
    BY <1>5, RCounts DEF RReq, RInv
  <1>8. RTypes'
    BY <1>1, <1>4, <1>6, <1>7 DEF RInv, RTypes, RMail, RRow, RReq
  <1>9. RRows'
    BY <1>1, <1>4, <1>6 DEF RInv, RRows
  <1>10. RList'
    <2>1. \A i \in x9.items, m \in x9.batch : i < m
      BY DEF RInv, RList
    <2>2. x9.items \cap x9.batch = {}
      <3>1. ASSUME NEW i \in x9.items, i \in x9.batch PROVE FALSE
        <4>1. i < i /\ i \in Nat
          BY <1>7, <2>1, <3>1
        <4> QED BY <4>1
      <3> QED BY <3>1
    <2>3. x9.todo \cap x9.batch = {}
      BY DEF RInv, RList
    <2> QED BY <1>3, <1>6, <2>2, <2>3 DEF RInv, RList
  <1> QED BY <1>8, <1>9, <1>10 DEF RInv

\* The list so far: no longer than asked for, older than what waits, and with
\* what was dropped and what waits all that was found.
LEMMA RItems ==
    ASSUME RInv
    PROVE  /\ R!Items = x9.items \cup (x9.batch \ x9.drop) /\ R!Items \subseteq RMail
           /\ Cardinality(R!Items) \in Nat /\ Cardinality(R!Items) <= ForReplies.Limit
           /\ R!Items \cap x9.drop = {} /\ \A i \in R!Items, m \in x9.todo : i < m
           /\ x9.from = R!Items \cup x9.todo \cup x9.drop
  <1>1. R!Items = x9.items \cup (x9.batch \ x9.drop)
    BY DEF R!Items
  <1>2. x9.items \subseteq RMail /\ x9.batch \subseteq RMail /\ RTypes
    BY DEF RInv, RTypes, RReq
  <1>3. Cardinality(x9.items) + Cardinality(x9.batch) <= ForReplies.Limit
    BY DEF RInv, RList
  <1>4. IsFiniteSet(x9.items) /\ IsFiniteSet(x9.batch) /\ IsFiniteSet(x9.items \cup x9.batch)
        /\ Cardinality(x9.items) \in Nat /\ Cardinality(x9.batch) \in Nat /\ Cardinality(x9.items \cup x9.batch) \in Nat
    BY <1>2, RFinite
  <1>5. Cardinality(x9.items \cup x9.batch) <= Cardinality(x9.items) + Cardinality(x9.batch)
    <2>1. Cardinality(x9.items \cup x9.batch) = Cardinality(x9.items) + Cardinality(x9.batch) - Cardinality(x9.items \cap x9.batch)
      BY <1>4, FS_Union
    <2>2. Cardinality(x9.items \cap x9.batch) \in Nat
      BY <1>2, RFinite
    <2> QED BY <1>4, <2>1, <2>2
  <1>6. Cardinality(R!Items) <= Cardinality(x9.items \cup x9.batch) /\ Cardinality(R!Items) \in Nat
    BY <1>1, <1>4, FS_Subset, FS_CardinalityType
  <1>7. Cardinality(R!Items) <= ForReplies.Limit
    BY <1>3, <1>4, <1>5, <1>6, RParams
  <1> QED BY <1>1, <1>2, <1>6, <1>7 DEF RInv, RList

\* Recording the answers closes only rows that still hold the message, and
\* a request that ends here has its list in full.
LEMMA RRecords == ASSUME RInv, R!Record PROVE RInv' /\ R!AnswersInFull
  <1>1. /\ x9.step = "record" /\ UNCHANGED <<x1, x2, x3, x4, x5, x7, x8, x10>>
        /\ x6' = [t \in RThread |-> [x6[t] EXCEPT !.answered = x6[t].answered \/ \E m \in x9.hits : x6[t].last = m]]
        /\ x9' = IF R!Enough(R!Items) THEN R!NoReq
                 ELSE [x9 EXCEPT !.batch = {}, !.hits = {}, !.items = R!Items, !.step = "take"]
    BY DEF R!Record, R!mailbox, R!places, RThread
  <1>2. x6 \in [RThread -> RRow] /\ x9 \in RReq
    BY DEF RInv, RTypes
  <1>3. ASSUME NEW t \in RThread
        PROVE  /\ x6'[t] \in RRow /\ x6'[t].last = x6[t].last /\ x6'[t].dismissed = x6[t].dismissed
               /\ x6'[t].answered => x6[t].answered \/ x6[t].last \in x9.hits
    <2> DEFINE b == x6[t].answered \/ \E m \in x9.hits : x6[t].last = m
    <2>1. b \in BOOLEAN /\ (b => x6[t].answered \/ x6[t].last \in x9.hits) /\ x6[t] \in RRow
      BY <1>2 DEF RRow
    <2>2. x6'[t] = [x6[t] EXCEPT !.answered = b]
      BY <1>1
    <2> HIDE DEF b
    <2> QED BY <2>1, <2>2 DEF RRow
  <1>4. x6' \in [RThread -> RRow]
    BY <1>1, <1>3
  <1>5. /\ x9' \in RReq /\ x9'.hits = {} /\ x9'.batch = {} /\ x9'.step \in {"rest", "take"}
        /\ (R!Enough(R!Items) <=> x9'.step = "rest")
        /\ \/ x9'.items = {} /\ x9'.todo = {} /\ x9'.drop = {} /\ x9'.from = {}
           \/ x9'.items = R!Items /\ x9'.todo = x9.todo /\ x9'.drop = x9.drop /\ x9'.from = x9.from
    <2>1. R!NoReq = [step |-> "rest", todo |-> {}, batch |-> {}, hits |-> {}, drop |-> {}, items |-> {}, from |-> {}]
      BY DEF R!NoReq
    <2>2. R!NoReq \in RReq
      BY <2>1 DEF RReq
    <2>3. CASE R!Enough(R!Items)
      BY <1>1, <2>1, <2>2, <2>3
    <2>4. CASE ~R!Enough(R!Items)
      <3>1. x9' = [x9 EXCEPT !.batch = {}, !.hits = {}, !.items = R!Items, !.step = "take"] /\ R!Items \subseteq RMail
        BY <1>1, <2>4, RItems
      <3> QED BY <1>2, <2>4, <3>1 DEF RReq
    <2> QED BY <2>3, <2>4
  <1>6. RTypes'
    BY <1>1, <1>4, <1>5 DEF RInv, RTypes, RMail, RRow, RReq
  <1>7. RRows'
    BY <1>1, <1>3, <1>5 DEF RInv, RRows
  <1>8. RList'
    <2>1. Cardinality({}) = 0
      BY FS_EmptySet
    <2>2. Cardinality(x9'.items) \in Nat /\ Cardinality(x9'.items) <= ForReplies.Limit
      <3>1. Cardinality(R!Items) \in Nat /\ Cardinality(R!Items) <= ForReplies.Limit /\ ForReplies.Limit \in Nat
        BY RItems, RParams
      <3>2. x9'.items = {} \/ x9'.items = R!Items
        BY <1>5
      <3>3. CASE x9'.items = {}
        BY <2>1, <3>1, <3>3
      <3>4. CASE x9'.items = R!Items
        BY <3>1, <3>4
      <3> QED BY <3>2, <3>3, <3>4
    <2>3. Cardinality(x9'.items) + Cardinality(x9'.batch) <= ForReplies.Limit
      <3>1. Cardinality(x9'.batch) = 0
        BY <1>5, <2>1
      <3> QED BY <2>2, <3>1, RParams
    <2> QED BY <1>5, <2>3, RItems DEF RInv, RList
  <1>9. R!AnswersInFull
    <2>1. R!Enough(R!Items) => Cardinality(R!Items) >= ForReplies.Limit \/ x9.todo = {}
      BY RSize DEF R!Enough
    <2> QED BY <1>5, <2>1, RItems, RSize, RParams DEF R!AnswersInFull
  <1> QED BY <1>6, <1>7, <1>8, <1>9 DEF RInv

\* Every step of Replies keeps the invariant and answers in full.
LEMMA RStep == ASSUME RInv, R!Next PROVE RInv' /\ R!AnswersInFull
  <1>1. ASSUME x9' = x9 \/ x9.step # "record" PROVE R!AnswersInFull
    BY <1>1 DEF R!AnswersInFull
  <1>2. CASE R!Arrive \/ (\E m \in R!Mails : R!Answer(m) \/ R!Discard(m) \/ (\E x \in R!Mails \cup {0} : R!Renumber(m, x)))
    <2>1. UNCHANGED <<x1, x6, x9, x10>>
      BY <1>2 DEF R!Arrive, R!Answer, R!Discard, R!Renumber, R!places, R!mailbox
    <2>2. x2' \in RMail \cup {0} /\ x3 \subseteq x3' /\ x3' \subseteq RMail /\ x4' \subseteq RMail /\ x5' \subseteq RMail
      BY <1>2 DEF R!Arrive, R!Answer, R!Discard, R!Renumber, R!mailbox, RInv, RTypes, RMail, R!Mails
    <2>3. x7' \in [RMail -> RMail \cup {0}]
      BY <1>2 DEF R!Arrive, R!Answer, R!Discard, R!Renumber, R!places, RInv, RTypes, RMail, R!Mails
    <2>4. x8' \in 0 .. ForReplies.MaxRenumber
      BY <1>2, RParams DEF R!Arrive, R!Answer, R!Discard, R!Renumber, R!places, RInv, RTypes
    <2> QED BY <1>1, <2>1, <2>2, <2>3, <2>4, ROwner
  <1>3. ASSUME NEW m \in R!Mails, R!See(m) PROVE RInv' /\ x9' = x9
    <2>1. x9' = x9
      BY <1>3 DEF R!See
    <2> QED BY <1>3, <2>1, RSees DEF R!Mails, RMail
  <1>4. ASSUME NEW t \in RThread, R!DismissReply(t) PROVE RInv' /\ x9' = x9
    <2>1. x9' = x9
      BY <1>4 DEF R!DismissReply
    <2> QED BY <1>4, <2>1, RDismisses
  <1>5. CASE R!NeedsReply
    <2>1. R!StartList \/ R!NextBatch \/ (\E reached \in BOOLEAN : R!Fetch(reached)) => x9.step # "record"
      BY DEF R!StartList, R!NextBatch, R!Fetch
    <2> QED BY <1>1, <1>5, <2>1, RStarts, RTakes, RFetches, RRecords DEF R!NeedsReply
  <1> QED BY <1>1, <1>2, <1>3, <1>4, <1>5 DEF R!Next, RThread

\* So does every step of a replies scene.
LEMMA RScene == ASSUME At("replies"), RInv, [JudgingNext]_services PROVE RInv' /\ R!AnswersInFull
  <1>1. CASE UNCHANGED services
    <2>1. UNCHANGED <<x1, x2, x3, x4, x5, x6, x7, x8, x9, x10>>
      BY <1>1 DEF services
    <2>2. R!AnswersInFull
      BY <2>1 DEF R!AnswersInFull
    <2> QED BY <2>1, <2>2, ROwner DEF RInv, RTypes
  <1>2. CASE JudgingNext
    BY <1>2, RStep DEF JudgingNext, At
  <1> QED BY <1>1, <1>2

\* The invariant says what the properties promise.
LEMMA RProperty == ASSUME RInv PROVE R!TypeOK /\ R!StaysOpen
  <1>1. R!StaysOpen
    BY DEF RInv, RTypes, RRow, RRows, R!StaysOpen, R!Open, RThread
  <1>2. R!Cardinality(x9.items) <= ForReplies.Limit
    <2>1. x9.items \in SUBSET RMail /\ x9.batch \in SUBSET RMail /\ RTypes
      BY DEF RInv, RTypes, RReq
    <2>2. Cardinality(x9.items) \in Nat /\ Cardinality(x9.batch) \in Nat
      BY <2>1, RFinite
    <2>3. Cardinality(x9.items) + Cardinality(x9.batch) <= ForReplies.Limit
      BY DEF RInv, RList
    <2> QED BY <2>2, <2>3, RSize, RParams
  <1>3. x9.step \in {"rest", "take", "check", "record"}
    BY DEF RInv, RTypes, RReq
  <1>4. \A t \in RThread : x6[t].last = 0 \/ R!Of(x6[t].last) = t
    BY DEF RInv, RRows, R!Of
  <1> QED BY <1>1, <1>2, <1>3, <1>4 DEF RInv, RTypes, R!TypeOK, RMail, R!Mails, RThread

-----------------------------------------------------------------------------
(* Identities.                                                             *)

IEntry == ForIdentity.Entry
ICovers == ForIdentity.Covers
INobody == ForIdentity.Nobody
IRow == [role : I!Roles, by : {"none", "identity", "signal", "hall", "llm", "llm:none", "llm:error"},
         dirty : BOOLEAN, asked : BOOLEAN]
IRows == UNION {[S -> IRow] : S \in SUBSET ForIdentity.Address}
ISteps == {"idle", "start", "apply", "scan", "roles", "write", "suggest", "cached", "ask", "wait"}
ITick ==
    [step : ISteps, own : SUBSET IEntry, todo : SUBSET (IEntry \cup ForIdentity.Address), batch : IRows, asks : Nat,
     asking : ForIdentity.Address \cup IEntry \cup {INobody}]

ITypes ==
    /\ x1 \in [IEntry -> {"unknown", "candidate", "confirmed", "rejected", "config"}] /\ x2 \subseteq IEntry
    /\ x3 \in IRows /\ x4 \in [ForIdentity.Mail -> {"unread", "received", "sent", "note"}]
    /\ x5 \subseteq ForIdentity.Mail /\ x6 \subseteq ForIdentity.Address /\ x7 \in IEntry \cup {INobody}
    /\ x8 \in ITick /\ x9 \subseteq IEntry /\ x10 \in 0 .. ForIdentity.MaxFaults

\* The entries whose history is the owner's throughout, and what that means.
ISettled(e) == x1[e] \in {"confirmed", "config"} /\ e \in x2 /\ e \notin x9
IOwner(a) ==
    /\ a \in DOMAIN x3 => x3[a].by = "identity"
    /\ a \notin x6
    /\ \A m \in ForIdentity.Mail : ForIdentity.From[m] = a /\ x4[m] = "received" => m \in x5
IKnown == \A e \in IEntry : ISettled(e) => \A a \in ICovers[e] : IOwner(a)

\* A tick under way knows the settled entries, and holds nothing that would
\* undo them: no row read before, nobody to ask the model about.
IRunning == x8.step \notin {"idle", "start"}
IHolds ==
    /\ IRunning => \A e \in IEntry : ISettled(e) => e \in x8.own
    /\ x8.step = "apply" => x8.own \ x2 \subseteq x8.todo /\ x8.todo \subseteq x8.own
    /\ IRunning /\ x8.step # "apply" => x8.own \subseteq x2
    /\ x8.step = "write" => \A e \in IEntry : ISettled(e) =>
           \A a \in ICovers[e] : a \in DOMAIN x8.batch => x8.batch[a].by = "identity"
    /\ x8.step \in {"ask", "wait"} => \A e \in IEntry : ISettled(e) => \A a \in ICovers[e] : a \notin x8.todo
    /\ x8.step = "wait" => \A e \in IEntry : ISettled(e) => x8.asking \notin ICovers[e]

\* A confirmation that is not applied yet was not undone, and whoever is the
\* owner by an identity has the owner's role.
IDecided ==
    /\ x7 # INobody => x1[x7] = "confirmed"
    /\ \A a \in DOMAIN x3 : x3[a].by = "identity" => x3[a].role = "self"

IInv == ITypes /\ IKnown /\ IHolds /\ IDecided

\* What identities are configured with.
LEMMA IParams ==
    /\ ICovers \in [IEntry -> SUBSET ForIdentity.Address] /\ ForIdentity.AlsoMe \subseteq IEntry
    /\ INobody \notin IEntry \cup ForIdentity.Address
    /\ ForIdentity.From \in [ForIdentity.Mail -> ForIdentity.Address \cup {ForIdentity.Login}]
    /\ ForIdentity.To \in [ForIdentity.Mail -> ForIdentity.Address \cup {ForIdentity.Login}]
    /\ ForIdentity.Hall \in [ForIdentity.Mail -> {"newsletter", "vendor", "bot", "personal", "unknown"}]
    /\ ForIdentity.MaxFaults \in Nat
  BY JudgementAssumption DEF I!ParamAssumption, IEntry, ICovers, INobody

\* A table of profiles is a function on some of the addresses.
LEMMA IRowsAre == \A r : r \in IRows <=> DOMAIN r \subseteq ForIdentity.Address /\ r = [a \in DOMAIN r |-> r[a]]
                                          /\ \A a \in DOMAIN r : r[a] \in IRow
  <1>1. ASSUME NEW r \in IRows
        PROVE  DOMAIN r \subseteq ForIdentity.Address /\ r = [a \in DOMAIN r |-> r[a]] /\ \A a \in DOMAIN r : r[a] \in IRow
    <2>1. PICK S \in SUBSET ForIdentity.Address : r \in [S -> IRow]
      BY DEF IRows
    <2> QED BY <2>1
  <1>2. ASSUME NEW r, DOMAIN r \subseteq ForIdentity.Address, r = [a \in DOMAIN r |-> r[a]], \A a \in DOMAIN r : r[a] \in IRow
        PROVE  r \in IRows
    <2>1. r \in [DOMAIN r -> IRow]
      BY <1>2
    <2> QED BY <1>2, <2>1 DEF IRows
  <1> QED BY <1>1, <1>2

\* A tick at rest.
LEMMA IIdle ==
    /\ I!Idle \in ITick /\ I!Idle.step = "idle"
  <1>1. <<>> \in IRows
    <2>1. <<>> \in [{} -> IRow]
      OBVIOUS
    <2>2. {} \in SUBSET ForIdentity.Address
      OBVIOUS
    <2> QED BY <2>1, <2>2 DEF IRows
  <1> QED BY <1>1 DEF I!Idle, ITick, ISteps, INobody

\* The owner's entries are those confirmed or configured.
LEMMA IOwns == ASSUME ITypes PROVE I!OwnEntries = {e \in IEntry : x1[e] \in {"confirmed", "config"}}
  BY DEF I!OwnEntries, IEntry

\* At the start nothing is known of anybody.
LEMMA IInit == ASSUME At("identity"), JudgingInit PROVE IInv
  <1>1. I!Init
    BY DEF JudgingInit, At
  <1>2. x1 = [e \in IEntry |-> "unknown"] /\ x2 = {} /\ x3 = [a \in {} |-> INobody] /\ x4 = [m \in ForIdentity.Mail |-> "unread"]
        /\ x5 = {} /\ x6 = {} /\ x7 = INobody /\ x8 = I!Idle /\ x9 = {} /\ x10 = 0
    BY <1>1 DEF I!Init, IEntry, INobody
  <1>3. x3 \in IRows
    BY <1>2, IRowsAre
  <1>4. ITypes
    BY <1>2, <1>3, IIdle, IParams DEF ITypes
  <1>5. IKnown /\ IDecided
    BY <1>2 DEF IKnown, ISettled, IDecided
  <1>6. IHolds
    BY <1>2, IIdle DEF IHolds, IRunning
  <1> QED BY <1>4, <1>5, <1>6 DEF IInv

\* Applying an identity makes the owner of all it covers.
LEMMA IApplied ==
    ASSUME IInv, NEW e \in IEntry, I!Applied(e)
    PROVE  /\ UNCHANGED <<x1, x4>> /\ x2' = x2 \cup {e}
           /\ x3' \in IRows /\ x5' \subseteq ForIdentity.Mail /\ x6' \subseteq ForIdentity.Address
           /\ \A a \in ForIdentity.Address : a \in ICovers[e] \/ IOwner(a) => IOwner(a)'
           /\ \A a \in DOMAIN x3' : x3'[a].by = "identity" => x3'[a].role = "self"
  <1>1. /\ x5' = x5 \cup {m \in ForIdentity.Mail : x4[m] = "received" /\ ForIdentity.From[m] \in ICovers[e]}
        /\ x6' = x6 \ ICovers[e] /\ x2' = x2 \cup {e} /\ UNCHANGED <<x1, x4>>
        /\ x3' = [a \in DOMAIN x3 |-> IF a \in ICovers[e]
                    THEN [x3[a] EXCEPT !.role = "self", !.by = "identity", !.dirty = FALSE] ELSE x3[a]]
    BY DEF I!Applied, ICovers
  <1>2. DOMAIN x3 \subseteq ForIdentity.Address /\ \A a \in DOMAIN x3 : x3[a] \in IRow
    BY IRowsAre DEF IInv, ITypes
  <1>3. DOMAIN x3' = DOMAIN x3 /\ \A a \in DOMAIN x3 :
          /\ x3'[a] \in IRow /\ (x3'[a] = x3[a] \/ (x3'[a].by = "identity" /\ x3'[a].role = "self"))
          /\ (a \in ICovers[e] => x3'[a].by = "identity")
    <2>1. DOMAIN x3' = DOMAIN x3 /\ \A a \in DOMAIN x3 : x3'[a] = IF a \in ICovers[e]
                    THEN [x3[a] EXCEPT !.role = "self", !.by = "identity", !.dirty = FALSE] ELSE x3[a]
      BY <1>1
    <2>2. ASSUME NEW r \in IRow
          PROVE  LET s == [r EXCEPT !.role = "self", !.by = "identity", !.dirty = FALSE] IN
                 s \in IRow /\ s.by = "identity" /\ s.role = "self"
      BY DEF IRow, I!Roles
    <2>3. ASSUME NEW a \in DOMAIN x3
          PROVE  /\ x3'[a] \in IRow /\ (x3'[a] = x3[a] \/ (x3'[a].by = "identity" /\ x3'[a].role = "self"))
                 /\ (a \in ICovers[e] => x3'[a].by = "identity")
      <3>1. CASE a \in ICovers[e]
        <4> DEFINE s == [x3[a] EXCEPT !.role = "self", !.by = "identity", !.dirty = FALSE]
        <4>1. x3'[a] = s
          BY <2>1, <3>1
        <4>2. s \in IRow /\ s.by = "identity" /\ s.role = "self"
          BY <1>2, <2>2
        <4> HIDE DEF s
        <4> QED BY <4>1, <4>2
      <3>2. CASE a \notin ICovers[e]
        <4>1. x3'[a] = x3[a]
          BY <2>1, <3>2
        <4>2. x3[a] \in IRow
          BY <1>2
        <4> QED BY <3>2, <4>1, <4>2, Zenon
      <3> QED BY <3>1, <3>2
    <2> QED BY <2>1, <2>3
  <1>4. x3' \in IRows
    BY <1>1, <1>2, <1>3, IRowsAre
  <1>5. \A a \in ForIdentity.Address : a \in ICovers[e] \/ IOwner(a) => IOwner(a)'
    BY <1>1, <1>3 DEF IOwner
  <1>6. \A a \in DOMAIN x3' : x3'[a].by = "identity" => x3'[a].role = "self"
    BY <1>3 DEF IInv, IDecided
  <1> QED BY <1>1, <1>4, <1>5, <1>6 DEF IInv, ITypes

\* An entry that is settled after a step that settles none was so before.
LEMMA IFewer ==
    ASSUME IInv, \A e \in IEntry : ISettled(e)' => ISettled(e), UNCHANGED <<x3, x4, x5, x6>>
    PROVE  IKnown'
  BY IParams DEF IInv, IKnown, IOwner

\* A confirmation settles nothing before it is applied.
LEMMA IConfirms == ASSUME IInv, NEW e \in IEntry, I!Confirm(e) PROVE IInv'
  <1>1. x7 = INobody /\ x7' = e /\ x1' = [x1 EXCEPT ![e] = "confirmed"] /\ x9' = x9 \cup ({e} \cap I!Restored)
        /\ UNCHANGED <<x2, x3, x4, x5, x6, x8, x10>>
    BY DEF I!Confirm, INobody
  <1>2. x1 \in [IEntry -> {"unknown", "candidate", "confirmed", "rejected", "config"}] /\ x2 \subseteq IEntry /\ x9 \subseteq IEntry
    BY DEF IInv, ITypes
  <1>3. \A d \in IEntry : ISettled(d)' => ISettled(d)
    BY <1>1, <1>2 DEF ISettled, I!Restored
  <1>4. ITypes'
    BY <1>1, <1>2 DEF IInv, ITypes
  <1>5. IHolds'
    BY <1>1, <1>3 DEF IInv, IHolds, IRunning
  <1>6. IDecided'
    BY <1>1, <1>2 DEF IInv, IDecided
  <1> QED BY <1>1, <1>3, <1>4, <1>5, <1>6, IFewer DEF IInv

\* Applying a confirmation settles it, or remembers who may have missed it.
LEMMA IApplies == ASSUME IInv, I!ConfirmApplies PROVE IInv'
  <1>1. x7 # INobody /\ I!Applied(x7) /\ x7' = INobody /\ UNCHANGED <<x8, x10>>
        /\ x9' = IF I!Ready THEN x9 \ {x7} ELSE IF x7 \in x8.own THEN x9 ELSE x9 \cup {x7}
    BY DEF I!ConfirmApplies, INobody
  <1>2. x7 \in IEntry /\ x9 \subseteq IEntry /\ x1[x7] = "confirmed"
    BY <1>1 DEF IInv, ITypes, IDecided
  <1>3. /\ UNCHANGED <<x1, x4>> /\ x2' = x2 \cup {x7}
        /\ x3' \in IRows /\ x5' \subseteq ForIdentity.Mail /\ x6' \subseteq ForIdentity.Address
        /\ \A a \in ForIdentity.Address : a \in ICovers[x7] \/ IOwner(a) => IOwner(a)'
        /\ \A a \in DOMAIN x3' : x3'[a].by = "identity" => x3'[a].role = "self"
    BY <1>1, <1>2, IApplied
  <1>4. I!Ready <=> ~IRunning
    BY DEF I!Ready, IRunning
  <1>5. ITypes'
    BY <1>1, <1>2, <1>3 DEF IInv, ITypes
  <1>6. \A e \in IEntry : ISettled(e)' => e = x7 \/ ISettled(e)
    BY <1>1, <1>3 DEF ISettled
  <1>7. IKnown'
    BY <1>2, <1>3, <1>6, IParams DEF IInv, IKnown
  <1>8. IDecided'
    BY <1>1, <1>3 DEF IDecided
  <1>9. IRunning => \A e \in IEntry : ISettled(e)' => e \in x8.own /\ (x8.step # "apply" => ISettled(e))
    <2> SUFFICES ASSUME IRunning, NEW e \in IEntry, ISettled(e)' PROVE e \in x8.own /\ (x8.step # "apply" => ISettled(e))
      OBVIOUS
    <2>1. CASE ISettled(e)
      BY <2>1 DEF IInv, IHolds
    <2>2. CASE e = x7
      <3>1. x7 \in x8.own /\ x9' = x9
        BY <1>1, <1>4, <2>2 DEF ISettled
      <3>2. x8.step # "apply" => x7 \in x2
        BY <3>1 DEF IInv, IHolds
      <3> QED BY <1>2, <2>2, <3>1, <3>2 DEF ISettled
    <2> QED BY <1>6, <2>1, <2>2
  <1>10. IHolds'
    <2>1. x8' = x8 /\ (x8.step \in {"write", "ask", "wait"} => IRunning /\ x8.step # "apply")
          /\ x2 \subseteq x2'
      BY <1>1, <1>3 DEF IRunning
    <2> QED BY <1>9, <2>1 DEF IInv, IHolds, IRunning
  <1> QED BY <1>5, <1>7, <1>8, <1>10 DEF IInv

\* A rejected entry is settled no more.
LEMMA IRejects == ASSUME IInv, NEW e \in IEntry, I!Reject(e) PROVE IInv'
  <1>1. x7 = INobody /\ x1' = [x1 EXCEPT ![e] = "rejected"] /\ UNCHANGED <<x2, x3, x4, x5, x6, x7, x8, x9, x10>>
    BY DEF I!Reject, INobody
  <1>2. x1 \in [IEntry -> {"unknown", "candidate", "confirmed", "rejected", "config"}]
    BY DEF IInv, ITypes
  <1>3. \A d \in IEntry : ISettled(d)' => ISettled(d)
    BY <1>1, <1>2 DEF ISettled
  <1>4. ITypes'
    BY <1>1, <1>2 DEF IInv, ITypes
  <1>5. IHolds'
    BY <1>1, <1>3 DEF IInv, IHolds, IRunning
  <1>6. IDecided'
    BY <1>1 DEF IInv, IDecided
  <1> QED BY <1>1, <1>3, <1>4, <1>5, <1>6, IFewer DEF IInv

\* A tick starts with nothing read.
LEMMA IStarts == ASSUME IInv, I!StartTick PROVE IInv'
  <1>1. /\ x8.step = "idle" /\ x8' = [x8 EXCEPT !.step = "start"]
        /\ x1' = [e \in IEntry |-> IF e \in ForIdentity.AlsoMe /\ x1[e] # "confirmed" THEN "config" ELSE x1[e]]
        /\ x9' = x9 \cup (ForIdentity.AlsoMe \cap I!Restored) /\ UNCHANGED <<x2, x3, x4, x5, x6, x7, x10>>
    BY DEF I!StartTick, I!Goes, IEntry
  <1>2. x1 \in [IEntry -> {"unknown", "candidate", "confirmed", "rejected", "config"}] /\ x8 \in ITick
        /\ x2 \subseteq IEntry /\ x9 \subseteq IEntry /\ x7 \in IEntry \cup {INobody}
    BY DEF IInv, ITypes
  <1>3. \A d \in IEntry : ISettled(d)' => ISettled(d)
    BY <1>1, <1>2 DEF ISettled, I!Restored
  <1>4. x8' \in ITick /\ x8'.step = "start"
    BY <1>1, <1>2 DEF ITick, ISteps
  <1>5. ITypes'
    BY <1>1, <1>2, <1>4, IParams DEF IInv, ITypes
  <1>6. IHolds'
    BY <1>4 DEF IHolds, IRunning
  <1>7. IDecided'
    BY <1>1, <1>2 DEF IInv, IDecided
  <1> QED BY <1>1, <1>3, <1>5, <1>6, <1>7, IFewer DEF IInv

\* A tick knows every settled entry from here on.
LEMMA IReads == ASSUME IInv, I!ReadIdentities PROVE IInv'
  <1>1. /\ x8.step = "start" /\ x8' = [x8 EXCEPT !.step = "apply", !.own = I!OwnEntries, !.todo = I!OwnEntries \ x2]
        /\ UNCHANGED <<x1, x2, x3, x4, x5, x6, x7, x9, x10>>
    BY DEF I!ReadIdentities, I!tables, I!Pending
  <1>2. x8 \in ITick /\ I!OwnEntries \subseteq IEntry
    BY IOwns DEF IInv, ITypes
  <1>3. x8' \in ITick /\ x8'.step = "apply" /\ x8'.own = I!OwnEntries /\ x8'.todo = I!OwnEntries \ x2
    BY <1>1, <1>2 DEF ITick, ISteps
  <1>4. ITypes'
    BY <1>1, <1>3 DEF IInv, ITypes
  <1>5. \A e \in IEntry : ISettled(e)' => ISettled(e) /\ e \in x8'.own
    BY <1>1, <1>3, IOwns DEF ISettled, IInv
  <1>6. IHolds'
    BY <1>1, <1>3, <1>5 DEF IHolds, IRunning
  <1>7. IDecided'
    BY <1>1 DEF IInv, IDecided
  <1> QED BY <1>1, <1>4, <1>5, <1>6, <1>7, IFewer DEF IInv

\* A tick applies what a confirmation left undone.
LEMMA IAppliesPending == ASSUME IInv, NEW e \in IEntry, I!ApplyPending(e) PROVE IInv'
  <1>1. x8.step = "apply" /\ e \in x8.todo /\ I!Applied(e) /\ x8' = [x8 EXCEPT !.todo = x8.todo \ {e}] /\ UNCHANGED <<x7, x9, x10>>
    BY DEF I!ApplyPending
  <1>2. /\ UNCHANGED <<x1, x4>> /\ x2' = x2 \cup {e}
        /\ x3' \in IRows /\ x5' \subseteq ForIdentity.Mail /\ x6' \subseteq ForIdentity.Address
        /\ \A a \in ForIdentity.Address : a \in ICovers[e] \/ IOwner(a) => IOwner(a)'
        /\ \A a \in DOMAIN x3' : x3'[a].by = "identity" => x3'[a].role = "self"
    BY <1>1, IApplied
  <1>3. x8 \in ITick
    BY DEF IInv, ITypes
  <1>4. x8' \in ITick /\ x8'.step = "apply" /\ x8'.own = x8.own /\ x8'.todo = x8.todo \ {e}
    BY <1>1, <1>3 DEF ITick
  <1>5. ITypes'
    BY <1>1, <1>2, <1>4 DEF IInv, ITypes
  <1>6. \A d \in IEntry : ISettled(d)' => d = e \/ ISettled(d)
    BY <1>1, <1>2 DEF ISettled
  <1>7. IKnown'
    BY <1>2, <1>6, IParams DEF IInv, IKnown
  <1>8. IDecided'
    BY <1>1, <1>2 DEF IInv, IDecided
  <1>9. x8.own \ x2 \subseteq x8.todo /\ x8.todo \subseteq x8.own /\ \A d \in IEntry : ISettled(d) => d \in x8.own
    BY <1>1 DEF IInv, IHolds, IRunning
  <1>10. IHolds'
    BY <1>1, <1>2, <1>4, <1>6, <1>9 DEF IHolds, IRunning
  <1> QED BY <1>5, <1>7, <1>8, <1>10 DEF IInv

\* What a tick's next step may hold, if it changes no table.
LEMMA IGoes ==
    ASSUME IInv, UNCHANGED <<x1, x2, x3, x4, x5, x6, x7, x9>>, x10' \in 0 .. ForIdentity.MaxFaults, x8' \in ITick,
           \/ x8'.step = "idle"
           \/ /\ IRunning /\ x8.own \subseteq x2 /\ x8'.own = x8.own /\ x8'.step \notin {"idle", "start", "apply"}
              /\ x8'.step = "write" => \A a \in DOMAIN x8'.batch : a \in DOMAIN x3 /\ x8'.batch[a] = x3[a]
              /\ x8'.step \in {"ask", "wait"} => \A a \in x8'.todo : ~IOwner(a)
              /\ x8'.step = "wait" => ~IOwner(x8'.asking)
    PROVE  IInv'
  <1>1. ITypes'
    BY DEF IInv, ITypes
  <1>2. \A e \in IEntry : ISettled(e)' <=> ISettled(e)
    BY DEF ISettled
  <1>3. IKnown'
    BY <1>2, IFewer
  <1>4. IDecided'
    BY DEF IInv, IDecided
  <1>5. CASE x8'.step = "idle"
    <2>1. IHolds'
      BY <1>5 DEF IHolds, IRunning
    <2> QED BY <1>1, <1>3, <1>4, <2>1 DEF IInv
  <1>6. CASE x8'.step # "idle"
    <2>1. x8'.own \subseteq x2' /\ \A e \in IEntry : ISettled(e)' => e \in x8'.own
      BY <1>2, <1>6 DEF IInv, IHolds
    <2>2. \A e \in IEntry : ISettled(e)' => \A a \in ICovers[e] : IOwner(a)
      BY <1>2 DEF IInv, IKnown
    <2>3. ASSUME x8'.step = "write", NEW e \in IEntry, ISettled(e)', NEW a \in ICovers[e], a \in DOMAIN x8'.batch
          PROVE  x8'.batch[a].by = "identity"
      BY <2>2, <2>3, <1>6 DEF IOwner
    <2>4. ASSUME x8'.step \in {"ask", "wait"}, NEW e \in IEntry, ISettled(e)', NEW a \in ICovers[e]
          PROVE  a \notin x8'.todo /\ (x8'.step = "wait" => x8'.asking # a)
      BY <2>2, <2>4, <1>6
    <2>5. IHolds'
      BY <1>6, <2>1, <2>3, <2>4 DEF IHolds, IRunning
    <2> QED BY <1>1, <1>3, <1>4, <2>5 DEF IInv
  <1> QED BY <1>5, <1>6

\* Past its first steps a tick has applied all it knows.
LEMMA IKnowing == ASSUME IInv, IRunning, x8.step # "apply" PROVE x8.own \subseteq x2 /\ x8 \in ITick
  BY DEF IInv, IHolds, ITypes

\* The scan and the choice of profiles keep the invariant.
LEMMA IWalks == ASSUME IInv, I!Scan \/ I!ScanEnds \/ I!ReadDirty \/ I!Detect PROVE IInv'
  <1>1. UNCHANGED <<x1, x2, x3, x4, x5, x6, x7, x9, x10>> /\ x8 \in ITick /\ x10 \in 0 .. ForIdentity.MaxFaults
    BY DEF I!Scan, I!ScanEnds, I!ReadDirty, I!Detect, I!tables, IInv, ITypes
  <1>2. CASE I!Scan
    <2>1. x8.step = "apply" /\ x8.todo = {} /\ x8' = [x8 EXCEPT !.step = "scan"]
      BY <1>2 DEF I!Scan, I!Goes
    <2>2. x8' \in ITick /\ x8'.step = "scan" /\ x8'.own = x8.own
      BY <1>1, <2>1 DEF ITick, ISteps
    <2>3. x8.own \subseteq x2 /\ IRunning
      BY <2>1 DEF IInv, IHolds, IRunning
    <2> QED BY <1>1, <2>2, <2>3, IGoes
  <1>3. CASE I!ScanEnds
    <2>1. x8.step = "scan" /\ x8' = [x8 EXCEPT !.step = "roles"]
      BY <1>3 DEF I!ScanEnds, I!Goes
    <2>2. x8' \in ITick /\ x8'.step = "roles" /\ x8'.own = x8.own
      BY <1>1, <2>1 DEF ITick, ISteps
    <2> QED BY <1>1, <2>1, <2>2, IGoes, IKnowing DEF IRunning
  <1>4. CASE I!ReadDirty
    <2>1. x8.step = "roles" /\ \E S \in SUBSET I!Dirty : x8' = [x8 EXCEPT !.step = "write", !.batch = I!Restrict(x3, S)]
      BY <1>4 DEF I!ReadDirty, I!kSubset
    <2>2. PICK S \in SUBSET I!Dirty : x8' = [x8 EXCEPT !.step = "write", !.batch = I!Restrict(x3, S)]
      BY <2>1
    <2> DEFINE b == [a \in S |-> x3[a]]
    <2>3. S \subseteq DOMAIN x3 /\ x8' = [x8 EXCEPT !.step = "write", !.batch = b]
      BY <2>2 DEF I!Dirty, I!Restrict
    <2>4. DOMAIN b = S /\ (\A a \in DOMAIN b : b[a] = x3[a]) /\ b = [a \in DOMAIN b |-> b[a]]
      OBVIOUS
    <2> HIDE DEF b
    <2>5. b \in IRows
      <3>1. x3 \in IRows
        BY DEF IInv, ITypes
      <3> QED BY <2>3, <2>4, <3>1, IRowsAre
    <2>6. x8' \in ITick /\ x8'.step = "write" /\ x8'.own = x8.own /\ x8'.batch = b
      BY <1>1, <2>3, <2>5 DEF ITick, ISteps
    <2> QED BY <1>1, <2>1, <2>3, <2>4, <2>6, IGoes, IKnowing DEF IRunning
  <1>5. CASE I!Detect
    <2>1. x8.step = "roles" /\ \E found \in SUBSET I!Suspects : x8' = [x8 EXCEPT !.step = "suggest", !.todo = found]
      BY <1>5 DEF I!Detect
    <2>2. PICK found \in SUBSET I!Suspects : x8' = [x8 EXCEPT !.step = "suggest", !.todo = found]
      BY <2>1
    <2>3. found \subseteq IEntry
      BY DEF I!Suspects, IEntry
    <2>4. x8' \in ITick /\ x8'.step = "suggest" /\ x8'.own = x8.own
      BY <1>1, <2>2, <2>3 DEF ITick, ISteps
    <2> QED BY <1>1, <2>1, <2>4, IGoes, IKnowing DEF IRunning
  <1> QED BY <1>2, <1>3, <1>4, <1>5

\* A tick that ends or gives up holds nothing.
LEMMA IEnds == ASSUME IInv, I!Gated \/ I!EndTick \/ I!Abort PROVE IInv'
  <1>1. UNCHANGED <<x1, x2, x3, x4, x5, x6, x7, x9>> /\ x8' = I!Idle
    BY DEF I!Gated, I!EndTick, I!Abort, I!tables
  <1>2. x10' \in 0 .. ForIdentity.MaxFaults
    <2>1. x10 \in 0 .. ForIdentity.MaxFaults
      BY DEF IInv, ITypes
    <2>2. x10' = x10 \/ (x10 < ForIdentity.MaxFaults /\ x10' = x10 + 1)
      BY DEF I!Gated, I!EndTick, I!Abort, I!Fault
    <2> QED BY <2>1, <2>2, IParams
  <1> QED BY <1>1, <1>2, IIdle, IGoes

\* A death ends the tick and the call; what they left is applied later.
LEMMA IDies == ASSUME IInv, I!Death PROVE IInv'
  <1>1. UNCHANGED <<x1, x2, x3, x4, x5, x6, x9>> /\ x8' = I!Idle /\ x7' = INobody /\ x10 < ForIdentity.MaxFaults /\ x10' = x10 + 1
    BY DEF I!Death, I!Fault, I!tables, INobody
  <1>2. ITypes'
    BY <1>1, IIdle, IParams DEF IInv, ITypes
  <1>3. IKnown'
    <2>1. \A e \in IEntry : ISettled(e)' => ISettled(e)
      BY <1>1 DEF ISettled
    <2> QED BY <1>1, <2>1, IFewer
  <1>4. IHolds' /\ IDecided'
    BY <1>1, IIdle DEF IInv, IHolds, IRunning, IDecided
  <1> QED BY <1>2, <1>3, <1>4 DEF IInv

\* Whoever has no role yet is nobody of the owner's.
LEMMA IUnplaced == ASSUME IInv PROVE \A a \in I!Unplaced : ~IOwner(a) /\ a \in ForIdentity.Address
  <1>1. \A a \in I!Unplaced : a \in DOMAIN x3 /\ x3[a].role = "unknown"
    BY DEF I!Unplaced
  <1>2. DOMAIN x3 \subseteq ForIdentity.Address
    BY IRowsAre DEF IInv, ITypes
  <1> QED BY <1>1, <1>2 DEF IInv, IDecided, IOwner

\* Only addresses without a role are put to the model.
LEMMA IChooses == ASSUME IInv, I!ReadUnplaced PROVE IInv'
  <1>1. UNCHANGED <<x1, x2, x3, x4, x5, x6, x7, x9, x10>> /\ x8 \in ITick /\ x10 \in 0 .. ForIdentity.MaxFaults /\ x8.step = "cached"
    BY DEF I!ReadUnplaced, I!tables, IInv, ITypes
  <1>2. PICK S \in SUBSET I!Unplaced : x8' = [x8 EXCEPT !.step = "ask", !.todo = S]
    BY DEF I!ReadUnplaced
  <1>3. \A a \in S : ~IOwner(a) /\ a \in ForIdentity.Address
    BY IUnplaced
  <1>4. x8' \in ITick /\ x8'.step = "ask" /\ x8'.own = x8.own /\ x8'.todo = S
    BY <1>1, <1>2, <1>3 DEF ITick, ISteps
  <1> QED BY <1>1, <1>3, <1>4, IGoes, IKnowing DEF IRunning

\* The one being asked about is nobody of the owner's.
LEMMA IAsks == ASSUME IInv, NEW a \in ForIdentity.Address, I!Ask(a) PROVE IInv'
  <1>1. UNCHANGED <<x1, x2, x3, x4, x5, x6, x7, x9, x10>> /\ x8 \in ITick /\ x8.step = "ask" /\ a \in x8.todo
    BY DEF I!Ask, I!tables, IInv, ITypes
  <1>2. \/ x8' = [x8 EXCEPT !.todo = x8.todo \ {a}]
        \/ x8' = [x8 EXCEPT !.step = "wait", !.todo = x8.todo \ {a}, !.asking = a]
    BY DEF I!Ask
  <1>3. x8' \in ITick /\ x8'.own = x8.own /\ x8'.todo \subseteq x8.todo /\ x8'.step \in {"ask", "wait"}
        /\ (x8'.step = "wait" => x8'.asking \in x8.todo)
    BY <1>1, <1>2 DEF ITick, ISteps
  <1>4. ITypes'
    BY <1>1, <1>3 DEF IInv, ITypes
  <1>5. \A e \in IEntry : ISettled(e)' => ISettled(e)
    BY <1>1 DEF ISettled
  <1>6. IHolds'
    BY <1>1, <1>3, <1>5 DEF IInv, IHolds, IRunning
  <1>7. IDecided'
    BY <1>1 DEF IInv, IDecided
  <1> QED BY <1>1, <1>4, <1>5, <1>6, <1>7, IFewer DEF IInv

\* Writing roles keeps the owner's, if none of the new ones contradicts it.
LEMMA IWrites ==
    ASSUME IInv, UNCHANGED <<x1, x2, x7, x9, x10>>, DOMAIN x3' \subseteq ForIdentity.Address, x3' = [a \in DOMAIN x3' |-> x3'[a]],
           \A a \in DOMAIN x3' : x3'[a] \in IRow /\ (x3'[a].by = "identity" => x3'[a].role = "self"),
           x4' \in [ForIdentity.Mail -> {"unread", "received", "sent", "note"}],
           x5' \subseteq ForIdentity.Mail, x6' \subseteq ForIdentity.Address, x8' \in ITick,
           \A e \in IEntry : ISettled(e) => \A a \in ICovers[e] : IOwner(a) => IOwner(a)',
           \/ x8' = x8
           \/ IRunning /\ x8.own \subseteq x2 /\ x8'.own = x8.own /\ x8'.step \in {"roles", "cached"}
           \/ x8.step = "wait" /\ x8'.step = "ask" /\ x8'.own = x8.own /\ x8'.todo = x8.todo
    PROVE  IInv'
  <1>1. \A e \in IEntry : ISettled(e)' <=> ISettled(e)
    BY DEF ISettled
  <1>2. x3' \in IRows
    BY IRowsAre
  <1>3. ITypes'
    BY <1>2 DEF IInv, ITypes
  <1>4. IKnown'
    BY <1>1 DEF IInv, IKnown
  <1>5. IDecided'
    BY DEF IInv, IDecided
  <1>6. IHolds'
    BY <1>1 DEF IInv, IHolds, IRunning
  <1> QED BY <1>3, <1>4, <1>5, <1>6 DEF IInv

\* A table with one more row is a table.
LEMMA IRowsNow ==
    ASSUME IInv
    PROVE  /\ x3 = [a \in DOMAIN x3 |-> x3[a]] /\ DOMAIN x3 \subseteq ForIdentity.Address
           /\ \A a \in DOMAIN x3 : x3[a] \in IRow /\ (x3[a].by = "identity" => x3[a].role = "self")
           /\ x4 \in [ForIdentity.Mail -> {"unread", "received", "sent", "note"}]
           /\ x5 \subseteq ForIdentity.Mail /\ x6 \subseteq ForIdentity.Address /\ x8 \in ITick
  BY IRowsAre DEF IInv, ITypes, IDecided

\* Profiling a sender keeps the role that is the owner's.
LEMMA IProfiled ==
    ASSUME IInv, NEW b \in ForIdentity.Address
    PROVE  /\ DOMAIN I!Profiled(b) = DOMAIN x3 \cup {b} /\ I!Profiled(b) = [a \in DOMAIN I!Profiled(b) |-> I!Profiled(b)[a]]
           /\ \A a \in DOMAIN I!Profiled(b) : /\ I!Profiled(b)[a] \in IRow
                                              /\ I!Profiled(b)[a].by = "identity" => I!Profiled(b)[a].role = "self"
                                              /\ a # b => I!Profiled(b)[a] = x3[a]
  <1> DEFINE p == I!Profiled(b)
             row(a) == IF a # b THEN x3[a] ELSE IF a \in DOMAIN x3 THEN [x3[a] EXCEPT !.dirty = TRUE] ELSE I!Fresh
  <1>1. p = [a \in DOMAIN x3 \cup {b} |-> row(a)]
    BY DEF I!Profiled
  <1>2. I!Fresh \in IRow /\ I!Fresh.by = "none"
    BY DEF I!Fresh, IRow, I!Roles
  <1>3. ASSUME NEW r \in IRow PROVE LET s == [r EXCEPT !.dirty = TRUE] IN s \in IRow /\ s.by = r.by /\ s.role = r.role
    BY DEF IRow
  <1>4. ASSUME NEW a \in DOMAIN x3 \cup {b}
        PROVE  row(a) \in IRow /\ (row(a).by = "identity" => row(a).role = "self") /\ (a # b => row(a) = x3[a])
    <2>1. CASE a # b
      <3>1. row(a) = x3[a] /\ a \in DOMAIN x3
        BY <2>1
      <3> HIDE DEF row
      <3> QED BY <3>1, IRowsNow
    <2>2. CASE a = b /\ a \in DOMAIN x3
      <3> DEFINE s == [x3[a] EXCEPT !.dirty = TRUE]
      <3>1. row(a) = s
        BY <2>2
      <3>2. s \in IRow /\ s.by = x3[a].by /\ s.role = x3[a].role
        BY <1>3, <2>2, IRowsNow
      <3> HIDE DEF row, s
      <3> QED BY <2>2, <3>1, <3>2, IRowsNow
    <2>3. CASE a = b /\ a \notin DOMAIN x3
      BY <1>2, <2>3
    <2> QED BY <2>1, <2>2, <2>3
  <1> HIDE DEF row
  <1> QED BY <1>1, <1>4

\* Indexing a mail marks it if it is the owner's.
LEMMA IIndexes == ASSUME IInv, NEW m \in ForIdentity.Mail, I!Index(m) PROVE IInv'
  <1> DEFINE from == ForIdentity.From[m]
             to == ForIdentity.To[m]
  <1>1. x8.step = "scan" /\ UNCHANGED <<x1, x2, x7, x8, x9, x10>> /\ IRunning
    BY DEF I!Index, IRunning
  <1>2. \A e \in IEntry : ISettled(e) => \A a \in ICovers[e] : I!IsOwn(a)
    <2>1. \A e \in IEntry : ISettled(e) => e \in x8.own
      BY <1>1 DEF IInv, IHolds
    <2> QED BY <2>1 DEF I!IsOwn, ICovers
  <1>3. \A a \in {from, to} : ~I!IsOwn(a) => a \in ForIdentity.Address
    BY IParams DEF I!IsOwn
  <1>4. CASE ~I!IsOwn(from) /\ x4' = [x4 EXCEPT ![m] = "received"] /\ x3' = I!Profiled(from) /\ x5' = x5
             /\ x6' = IF ForIdentity.Kind[m] = "plain" THEN x6 \cup {from} ELSE x6
    <2>1. from \in ForIdentity.Address
      BY <1>3, <1>4
    <2>2. x4' \in [ForIdentity.Mail -> {"unread", "received", "sent", "note"}] /\ x6' \subseteq ForIdentity.Address
      BY <1>4, <2>1, IRowsNow
    <2>3. \A n \in ForIdentity.Mail : n # m => x4'[n] = x4[n]
      BY <1>4, IRowsNow
    <2>4. DOMAIN x3' = DOMAIN x3 \cup {from} /\ \A a \in DOMAIN x3 : a # from => x3'[a] = x3[a]
      BY <1>4, <2>1, IProfiled
    <2>5. ASSUME NEW a \in ForIdentity.Address, I!IsOwn(a), IOwner(a) PROVE IOwner(a)'
      <3>1. a # from
        BY <1>4, <2>5
      <3> QED BY <1>4, <2>3, <2>4, <2>5, <3>1 DEF IOwner
    <2>6. \A e \in IEntry : ISettled(e) => \A a \in ICovers[e] : IOwner(a) => IOwner(a)'
      BY <1>2, <2>5, IParams
    <2>7. DOMAIN x3' \subseteq ForIdentity.Address /\ x3' = [a \in DOMAIN x3' |-> x3'[a]]
          /\ \A a \in DOMAIN x3' : x3'[a] \in IRow /\ (x3'[a].by = "identity" => x3'[a].role = "self")
      BY <1>4, <2>1, <2>4, IProfiled, IRowsNow
    <2>8. x5' \subseteq ForIdentity.Mail /\ x8' \in ITick
      BY <1>1, <1>4, IRowsNow
    <2> QED BY <1>1, <2>2, <2>6, <2>7, <2>8, IWrites
  <1>5. CASE I!IsOwn(from) /\ ~I!IsOwn(to) /\ x4' = [x4 EXCEPT ![m] = "sent"]
             /\ x3' = I!Profiled(to) /\ x6' = x6 \cup {to} /\ x5' = x5 \cup {m}
    <2>1. to \in ForIdentity.Address
      BY <1>3, <1>5
    <2>2. x4' \in [ForIdentity.Mail -> {"unread", "received", "sent", "note"}] /\ x6' \subseteq ForIdentity.Address
      BY <1>5, <2>1, IRowsNow
    <2>3. \A n \in ForIdentity.Mail : x4'[n] = "received" => x4[n] = "received"
      BY <1>5, IRowsNow
    <2>4. DOMAIN x3' = DOMAIN x3 \cup {to} /\ \A a \in DOMAIN x3 : a # to => x3'[a] = x3[a]
      BY <1>5, <2>1, IProfiled
    <2>5. ASSUME NEW a \in ForIdentity.Address, I!IsOwn(a), IOwner(a) PROVE IOwner(a)'
      <3>1. a # to
        BY <1>5, <2>5
      <3> QED BY <1>5, <2>3, <2>4, <2>5, <3>1 DEF IOwner
    <2>6. \A e \in IEntry : ISettled(e) => \A a \in ICovers[e] : IOwner(a) => IOwner(a)'
      BY <1>2, <2>5, IParams
    <2>7. DOMAIN x3' \subseteq ForIdentity.Address /\ x3' = [a \in DOMAIN x3' |-> x3'[a]]
          /\ \A a \in DOMAIN x3' : x3'[a] \in IRow /\ (x3'[a].by = "identity" => x3'[a].role = "self")
      BY <1>5, <2>1, <2>4, IProfiled, IRowsNow
    <2>8. x5' \subseteq ForIdentity.Mail /\ x8' \in ITick
      BY <1>1, <1>5, IRowsNow
    <2> QED BY <1>1, <2>2, <2>6, <2>7, <2>8, IWrites
  <1>6. CASE x4' = [x4 EXCEPT ![m] = "note"] /\ x5' = x5 \cup {m} /\ UNCHANGED <<x3, x6>>
    <2>1. x4' \in [ForIdentity.Mail -> {"unread", "received", "sent", "note"}] /\ x5' \subseteq ForIdentity.Mail
      BY <1>6, IRowsNow
    <2>2. \A n \in ForIdentity.Mail : x4'[n] = "received" => x4[n] = "received"
      BY <1>6, IRowsNow
    <2>3. \A a : IOwner(a) => IOwner(a)'
      BY <1>6, <2>2 DEF IOwner
    <2> QED BY <1>1, <1>6, <2>1, <2>3, IRowsNow, IWrites
  <1> QED BY <1>4, <1>5, <1>6 DEF I!Index

\* An answer of the model is written for one who is not the owner.
LEMMA IAnswers == ASSUME IInv, NEW r \in I!Answers, I!Answer(r) PROVE IInv'
  <1>1. x8.step = "wait" /\ x3' = [x3 EXCEPT ![x8.asking] = [x3[x8.asking] EXCEPT !.role = r[1], !.by = r[2], !.asked = TRUE]]
        /\ x8' = [x8 EXCEPT !.step = "ask", !.asks = x8.asks + 1, !.asking = INobody] /\ UNCHANGED <<x1, x2, x4, x5, x6, x7, x9, x10>>
    BY DEF I!Answer, INobody
  <1>2. x8' \in ITick /\ x8'.step = "ask" /\ x8'.own = x8.own /\ x8'.todo = x8.todo
    <2>1. x8 \in ITick
      BY IRowsNow
    <2> DEFINE n == x8.asks + 1
    <2>2. n \in Nat /\ x8' = [x8 EXCEPT !.step = "ask", !.asks = n, !.asking = INobody]
      BY <1>1, <2>1 DEF ITick
    <2> HIDE DEF n
    <2> QED BY <2>1, <2>2 DEF ITick, ISteps
  <1> DEFINE b == x8.asking
             s == [x3[b] EXCEPT !.role = r[1], !.by = r[2], !.asked = TRUE]
  <1>3. ASSUME NEW row \in IRow PROVE LET t == [row EXCEPT !.role = r[1], !.by = r[2], !.asked = TRUE] IN t \in IRow /\ t.by # "identity"
    <2> DEFINE role == r[1]
               by == r[2]
    <2>1. role \in {"vendor", "unknown"} /\ by \in {"llm", "llm:none", "llm:error"}
      BY DEF I!Answers
    <2> HIDE DEF role, by
    <2>2. [row EXCEPT !.role = role, !.by = by, !.asked = TRUE] \in IRow /\ [row EXCEPT !.role = role, !.by = by, !.asked = TRUE].by = by
      BY <2>1 DEF IRow, I!Roles
    <2> QED BY <2>1, <2>2 DEF role, by
  <1>4. b \in DOMAIN x3 => s \in IRow /\ s.by # "identity"
    BY <1>3, IRowsNow
  <1>5. x3' = [x3 EXCEPT ![b] = s]
    BY <1>1
  <1> HIDE DEF s, b
  <1>6. DOMAIN x3' = DOMAIN x3 /\ x3' = [a \in DOMAIN x3' |-> x3'[a]]
        /\ \A a \in DOMAIN x3 : x3'[a] = IF a = b THEN s ELSE x3[a]
    BY <1>5, IRowsNow
  <1>7. \A a \in DOMAIN x3' : x3'[a] \in IRow /\ (x3'[a].by = "identity" => x3'[a].role = "self")
    BY <1>4, <1>6, IRowsNow
  <1>8. \A e \in IEntry : ISettled(e) => b \notin ICovers[e]
    BY <1>1 DEF IInv, IHolds, b
  <1>9. \A a : a # b /\ IOwner(a) => IOwner(a)'
    BY <1>1, <1>6 DEF IOwner
  <1>10. \A e \in IEntry : ISettled(e) => \A a \in ICovers[e] : IOwner(a) => IOwner(a)'
    BY <1>8, <1>9
  <1> QED BY <1>1, <1>2, <1>6, <1>7, <1>10, IRowsNow, IWrites

\* Forgetting an address removes a row, never the owner's entry.
LEMMA IForgets == ASSUME IInv, NEW b \in ForIdentity.Address, I!Forget(b) PROVE IInv'
  <1> DEFINE s == [x3[b] EXCEPT !.asked = FALSE]
  <1>1. b \in DOMAIN x3 /\ x3' = [x3 EXCEPT ![b] = s] /\ UNCHANGED <<x1, x2, x4, x5, x6, x7, x8, x9, x10>>
    BY DEF I!Forget
  <1>2. ASSUME NEW row \in IRow PROVE LET t == [row EXCEPT !.asked = FALSE] IN t \in IRow /\ t.by = row.by /\ t.role = row.role
    BY DEF IRow
  <1>3. s \in IRow /\ s.by = x3[b].by /\ s.role = x3[b].role
    BY <1>1, <1>2, IRowsNow
  <1> HIDE DEF s
  <1>4. DOMAIN x3' = DOMAIN x3 /\ x3' = [a \in DOMAIN x3' |-> x3'[a]]
        /\ \A a \in DOMAIN x3 : x3'[a] = IF a = b THEN s ELSE x3[a]
    BY <1>1, IRowsNow
  <1>5. \A a \in DOMAIN x3' : x3'[a] \in IRow /\ (x3'[a].by = "identity" => x3'[a].role = "self")
    BY <1>1, <1>3, <1>4, IRowsNow
  <1>6. \A a : IOwner(a) => IOwner(a)'
    BY <1>1, <1>3, <1>4 DEF IOwner
  <1> QED BY <1>1, <1>4, <1>5, <1>6, IRowsNow, IWrites

\* The roles a hall gives away.
LEMMA IHallRoles == \A a : I!HallRoles(a) \subseteq {"newsletter", "vendor", "bot", "personal", "unknown"}
  BY IParams DEF I!HallRoles

\* A role decided by signals, or by a hall, is not the owner's; one that is the
\* owner's comes from an entry.
LEMMA IDecides ==
    ASSUME NEW read \in IRow, NEW a, NEW hall \in {"newsletter", "vendor", "bot", "personal", "unknown"}, NEW row \in IRow
    PROVE  LET d == I!Decided(read, a, hall)
               s == [row EXCEPT !.role = d[1], !.by = d[2], !.dirty = FALSE]
           IN  s \in IRow /\ s.by # "identity"
  <1>1. I!SignalRole(a) \in {"newsletter", "bot", "colleague", "personal", "unknown"}
    BY DEF I!SignalRole
  <1> DEFINE d == I!Decided(read, a, hall)
  <1>2. d[1] \in I!Roles /\ d[2] \in {"signal", "hall", "llm", "none"}
    BY <1>1 DEF I!Decided, IRow, I!Roles
  <1> HIDE DEF d
  <1>3. [row EXCEPT !.role = d[1], !.by = d[2], !.dirty = FALSE] \in IRow /\ [row EXCEPT !.role = d[1], !.by = d[2], !.dirty = FALSE].by = d[2]
    BY <1>2 DEF IRow
  <1> QED BY <1>2, <1>3 DEF d

\* The roles of a batch are written over rows that were read before.
LEMMA IWritesRoles == ASSUME IInv, I!WriteRoles PROVE IInv'
  <1>1. x8.step = "write" /\ x8' = [x8 EXCEPT !.step = "roles", !.batch = <<>>] /\ UNCHANGED <<x1, x2, x4, x5, x6, x7, x9, x10>>
    BY DEF I!WriteRoles
  <1>2. PICK hall \in [DOMAIN x8.batch -> UNION {I!HallRoles(a) : a \in DOMAIN x8.batch}] :
          x3' = [a \in DOMAIN x3 |->
                   IF a \notin DOMAIN x8.batch THEN x3[a]
                   ELSE IF x8.batch[a].by = "identity" THEN [x3[a] EXCEPT !.dirty = FALSE]
                   ELSE LET d == I!Decided(x8.batch[a], a, hall[a]) IN
                        [x3[a] EXCEPT !.role = d[1], !.by = d[2], !.dirty = FALSE]]
    BY DEF I!WriteRoles
  <1>3. \A a \in DOMAIN x8.batch : hall[a] \in {"newsletter", "vendor", "bot", "personal", "unknown"}
    <2>1. UNION {I!HallRoles(a) : a \in DOMAIN x8.batch} \subseteq {"newsletter", "vendor", "bot", "personal", "unknown"}
      BY IHallRoles
    <2> QED BY <2>1
  <1>4. \A a \in DOMAIN x8.batch : x8.batch[a] \in IRow
    <2>1. x8.batch \in IRows
      BY IRowsNow DEF ITick
    <2> QED BY <2>1, IRowsAre
  <1>5. ASSUME NEW row \in IRow PROVE LET t == [row EXCEPT !.dirty = FALSE] IN t \in IRow /\ t.by = row.by /\ t.role = row.role
    BY DEF IRow
  <1> DEFINE new(a) == IF a \notin DOMAIN x8.batch THEN x3[a]
                       ELSE IF x8.batch[a].by = "identity" THEN [x3[a] EXCEPT !.dirty = FALSE]
                       ELSE LET d == I!Decided(x8.batch[a], a, hall[a]) IN
                            [x3[a] EXCEPT !.role = d[1], !.by = d[2], !.dirty = FALSE]
  <1>6. DOMAIN x3' = DOMAIN x3 /\ x3' = [a \in DOMAIN x3' |-> x3'[a]] /\ \A a \in DOMAIN x3 : x3'[a] = new(a)
    BY <1>2
  <1>7. ASSUME NEW a \in DOMAIN x3
        PROVE  /\ new(a) \in IRow /\ (new(a).by = "identity" => new(a).role = "self")
               /\ (a \in DOMAIN x8.batch => x8.batch[a].by = "identity") /\ x3[a].by = "identity" => new(a).by = "identity"
    <2>1. CASE a \notin DOMAIN x8.batch
      <3>1. new(a) = x3[a]
        BY <2>1
      <3> HIDE DEF new
      <3> QED BY <3>1, IRowsNow
    <2>2. CASE a \in DOMAIN x8.batch /\ x8.batch[a].by = "identity"
      <3>1. new(a) = [x3[a] EXCEPT !.dirty = FALSE]
        BY <2>2
      <3> HIDE DEF new
      <3> QED BY <1>5, <3>1, IRowsNow
    <2>3. CASE a \in DOMAIN x8.batch /\ x8.batch[a].by # "identity"
      <3> DEFINE d == I!Decided(x8.batch[a], a, hall[a])
                 s == [x3[a] EXCEPT !.role = d[1], !.by = d[2], !.dirty = FALSE]
      <3>1. new(a) = s
        BY <2>3
      <3>2. x8.batch[a] \in IRow /\ hall[a] \in {"newsletter", "vendor", "bot", "personal", "unknown"} /\ x3[a] \in IRow
        BY <1>3, <1>4, <2>3, IRowsNow
      <3>3. s \in IRow /\ s.by # "identity"
        BY <3>2, IDecides
      <3> HIDE DEF new, s
      <3>4. new(a) \in IRow /\ new(a).by # "identity"
        BY <3>1, <3>3
      <3> HIDE DEF new
      <3> QED BY <2>3, <3>4
    <2> QED BY <2>1, <2>2, <2>3
  <1> HIDE DEF new
  <1>8. x8' \in ITick /\ x8'.step = "roles" /\ x8'.own = x8.own
    <2>1. <<>> \in IRows
      <3>1. <<>> \in [{} -> IRow] /\ {} \in SUBSET ForIdentity.Address
        OBVIOUS
      <3> QED BY <3>1 DEF IRows
    <2> QED BY <1>1, <2>1, IRowsNow DEF ITick, ISteps
  <1>9. ASSUME NEW e \in IEntry, ISettled(e), NEW a \in ICovers[e], IOwner(a) PROVE IOwner(a)'
    <2>1. a \in DOMAIN x8.batch => x8.batch[a].by = "identity"
      BY <1>1, <1>9 DEF IInv, IHolds
    <2>2. a \in DOMAIN x3 => x3[a].by = "identity"
      BY <1>9 DEF IOwner
    <2>3. a \in DOMAIN x3' => x3'[a].by = "identity"
      BY <1>6, <1>7, <2>1, <2>2
    <2> QED BY <1>1, <1>9, <2>3 DEF IOwner
  <1>10. IRunning /\ x8.own \subseteq x2
    BY <1>1, IKnowing DEF IRunning
  <1> QED BY <1>1, <1>6, <1>7, <1>8, <1>9, <1>10, IRowsNow, IWrites

\* A candidate is suggested only where nothing was decided.
LEMMA ISuggests == ASSUME IInv, I!Suggest PROVE IInv'
  <1>1. /\ x8.step = "suggest" /\ x8' = [x8 EXCEPT !.step = "cached", !.todo = {}]
        /\ x1' = [e \in IEntry |-> IF e \in x8.todo THEN I!Suggested(e) ELSE x1[e]]
        /\ UNCHANGED <<x2, x3, x4, x5, x6, x7, x9, x10>>
    BY DEF I!Suggest, IEntry
  <1>2. x1 \in [IEntry -> {"unknown", "candidate", "confirmed", "rejected", "config"}] /\ x8 \in ITick /\ x7 \in IEntry \cup {INobody}
    BY DEF IInv, ITypes
  <1>3. \A e \in IEntry : x1'[e] = x1[e] \/ (x1[e] = "unknown" /\ x1'[e] = "candidate")
    BY <1>1 DEF I!Suggested
  <1>4. x8' \in ITick /\ x8'.step = "cached" /\ x8'.own = x8.own
    BY <1>1, <1>2 DEF ITick, ISteps
  <1>5. x1' \in [IEntry -> {"unknown", "candidate", "confirmed", "rejected", "config"}]
    BY <1>1, <1>2, <1>3
  <1>6. ITypes'
    BY <1>1, <1>4, <1>5 DEF IInv, ITypes
  <1>7. \A e \in IEntry : ISettled(e)' => ISettled(e)
    BY <1>1, <1>3 DEF ISettled
  <1>8. IHolds'
    BY <1>1, <1>4, <1>7 DEF IInv, IHolds, IRunning
  <1>9. IDecided'
    BY <1>1, <1>2, <1>3 DEF IInv, IDecided
  <1> QED BY <1>1, <1>6, <1>7, <1>8, <1>9, IFewer DEF IInv

\* Every step of an identity scene keeps the invariant.
LEMMA IStep == ASSUME At("identity"), IInv, [JudgingNext]_services PROVE IInv'
  <1>1. CASE UNCHANGED services
    BY <1>1 DEF services, IInv, ITypes, IKnown, IOwner, ISettled, IHolds, IRunning, IDecided
  <1>2. CASE JudgingNext
    <2>1. I!Next
      BY <1>2 DEF JudgingNext, At
    <2>2. CASE I!Tick
      BY <2>2, IStarts, IReads, IAppliesPending, IWalks, IIndexes, IWritesRoles, ISuggests, IChooses, IAsks, IAnswers, IEnds
         DEF I!Tick, IEntry
    <2> QED BY <2>1, <2>2, IApplies, IEnds, IDies, IConfirms, IRejects, IForgets DEF I!Next, IEntry
  <1> QED BY <1>1, <1>2

\* A confirmed entry is only ever rejected, by the owner; a rejected one only
\* confirmed, or configured.
LEMMA IDecisions == ASSUME IInv, I!Next PROVE I!KeepsDecisions
  <1>0. x1 \in [IEntry -> {"unknown", "candidate", "confirmed", "rejected", "config"}]
    BY DEF IInv, ITypes
  <1>1. ASSUME UNCHANGED x1 PROVE I!KeepsDecisions
    BY <1>1 DEF I!KeepsDecisions
  <1>2. ASSUME NEW e \in IEntry, I!Confirm(e) PROVE I!KeepsDecisions
    BY <1>0, <1>2 DEF I!Confirm, I!KeepsDecisions, IEntry
  <1>3. ASSUME NEW e \in IEntry, I!Reject(e) PROVE I!KeepsDecisions
    BY <1>0, <1>3 DEF I!Reject, I!KeepsDecisions, IEntry
  <1>4. ASSUME I!StartTick PROVE I!KeepsDecisions
    BY <1>0, <1>4 DEF I!StartTick, I!KeepsDecisions, IEntry
  <1>5. ASSUME I!Suggest PROVE I!KeepsDecisions
    BY <1>0, <1>5 DEF I!Suggest, I!Suggested, I!KeepsDecisions, IEntry
  <1>6. ASSUME I!ConfirmApplies \/ I!Abort \/ I!Death \/ (\E a \in ForIdentity.Address : I!Forget(a)) PROVE UNCHANGED x1
    BY <1>6 DEF I!ConfirmApplies, I!Applied, I!Abort, I!Death, I!Forget, I!tables
  <1>7. ASSUME I!Tick PROVE I!StartTick \/ I!Suggest \/ UNCHANGED x1
    BY <1>7 DEF I!Tick, I!ReadIdentities, I!ApplyPending, I!Applied, I!Scan, I!Index, I!ScanEnds, I!ReadDirty, I!WriteRoles,
                I!Detect, I!ReadUnplaced, I!Ask, I!Answer, I!Gated, I!EndTick, I!tables
  <1> QED BY <1>1, <1>2, <1>3, <1>4, <1>5, <1>6, <1>7 DEF I!Next, IEntry

\* The invariant says what the property promises.
LEMMA IProperty == ASSUME IInv PROVE I!TypeOK /\ I!OwnerIsKnown
  <1>1. I!OwnerIsKnown
    BY IOwns DEF IInv, IKnown, IOwner, ISettled, I!OwnerIsKnown, IEntry, ICovers
  <1>2. x8 \in ITick
    BY IRowsNow
  <1>3. x8.own \subseteq IEntry
    BY <1>2 DEF ITick
  <1>4. \A a \in DOMAIN x3 : x3[a].role \in I!Roles
    BY IRowsNow DEF IRow
  <1> QED BY <1>1, <1>3, <1>4, IRowsNow DEF IInv, ITypes, I!TypeOK, IEntry, INobody

-----------------------------------------------------------------------------
(* What is promised of the scenes.                                         *)

\* Every rule and every suggestion rests on enough mail that the owner put in a
\* discard folder, whatever other rules moved meanwhile (learn.go:111-180).
THEOREM OwnDiscardsTeach == JudgingSpec => []LearnsFromOwner
  <1> DEFINE Inv == At("learning") => LInv
  <1>1. JudgingInit => Inv
    BY LInit
  <1>2. Inv /\ [JudgingNext]_services => Inv'
    BY LStep, JudgingSceneStays DEF At
  <1>3. Inv => LearnsFromOwner
    BY LProperty DEF LearnsFromOwner
  <1> QED BY <1>1, <1>2, <1>3, PTL DEF JudgingSpec

\* A verdict that asks for money or access has its anomaly, unless the process
\* failed in between, and each is told once; the counts of an evaluation add up
\* for every model and threshold (verdicts.go, evaluation.go).
THEOREM AsksAreRaised == JudgingSpec => []AskIsRaised
  <1> DEFINE Judged == At("verdicts") => VInv
             Counted == At("evaluation") => EInv
  <1>1. JudgingInit => Judged /\ Counted
    BY VInit, EInit
  <1>2. Judged /\ [JudgingNext]_services => Judged'
    BY VScene, JudgingSceneStays DEF At
  <1>3. Counted /\ [JudgingNext]_services => Counted'
    BY EScene, JudgingSceneStays DEF At
  <1>4. Judged /\ Counted => AskIsRaised
    BY VProperty, EProperty DEF AskIsRaised
  <1> QED BY <1>1, <1>2, <1>3, <1>4, PTL DEF JudgingSpec

\* What a confirmed and applied identity covers is the owner's in the profiles,
\* the tracked senders and the index, unless it was indexed in the meantime
\* (identity.go).
THEOREM OwnersAreKnown == JudgingSpec => []OwnerIsKnown
  <1> DEFINE Inv == At("identity") => IInv
  <1>1. JudgingInit => Inv
    BY IInit
  <1>2. Inv /\ [JudgingNext]_services => Inv'
    BY IStep, JudgingSceneStays DEF At
  <1>3. Inv => OwnerIsKnown
    BY IProperty DEF OwnerIsKnown
  <1> QED BY <1>1, <1>2, <1>3, PTL DEF JudgingSpec

\* No pass undoes a dismissal, a verdict or a decision about an identity, but in
\* the ways each property names (learn.go:422-424, verdicts.go, identity.go).
THEOREM WhatWasDecidedStands == JudgingSpec => DecisionsStand
  <1> DEFINE Learning == At("learning") => LInv
             Judging == At("verdicts") => VInv
             Knowing == At("identity") => IInv
             Stand == /\ At("learning") => L!KeepsDismissals
                      /\ At("verdicts") => V!KeepsVerdicts
                      /\ At("identity") => I!KeepsDecisions
  <1>1. JudgingInit => Learning /\ Judging /\ Knowing
    BY LInit, VInit, IInit
  <1>2. Learning /\ [JudgingNext]_services => Learning'
    BY LStep, JudgingSceneStays DEF At
  <1>3. Judging /\ [JudgingNext]_services => Judging'
    BY VScene, JudgingSceneStays DEF At
  <1>4. Knowing /\ [JudgingNext]_services => Knowing'
    BY IStep, JudgingSceneStays DEF At
  <1>5. Learning /\ Judging /\ Knowing /\ [JudgingNext]_services => [Stand]_services
    <2> SUFFICES ASSUME Learning, Judging, Knowing, JudgingNext PROVE Stand
      OBVIOUS
    <2>1. At("learning") => L!Next
      BY DEF JudgingNext, At
    <2>2. At("identity") => I!Next
      BY DEF JudgingNext, At
    <2> QED BY <2>1, <2>2, LDismissals, VScene, IDecisions
  <1> QED BY <1>1, <1>2, <1>3, <1>4, <1>5, PTL DEF JudgingSpec, DecisionsStand

\* An unanswered conversation stays open whatever request and scan do, and a
\* list shorter than asked for has left out nothing but what was checked
\* (replies.go:212-263, 552-558).
THEOREM ConversationsStayOpen == JudgingSpec => RepliesRight
  <1> DEFINE Inv == At("replies") => RInv
             Right == At("replies") => R!StaysOpen' /\ R!AnswersInFull
  <1>1. JudgingInit => Inv
    BY RInit
  <1>2. Inv /\ [JudgingNext]_services => Inv'
    BY RScene, JudgingSceneStays DEF At
  <1>3. Inv => (At("replies") => R!StaysOpen)
    BY RProperty
  <1>4. Inv /\ (At("replies") => R!StaysOpen)' /\ [JudgingNext]_services => [Right]_services
    BY RScene, JudgingSceneStays DEF At
  <1> QED BY <1>1, <1>2, <1>3, <1>4, PTL DEF JudgingSpec, RepliesRight

\* The variables of every scene keep their types, whatever the mail, the models
\* and the bounds (JudgingTypeOK).
THEOREM JudgingTypesCorrect == JudgingSpec => []JudgingTypeOK
  <1> DEFINE LI == At("learning") => LInv
             VI == At("verdicts") => VInv
             EI == At("evaluation") => EInv
             RI == At("replies") => RInv
             II == At("identity") => IInv
  <1>1. JudgingInit => LI /\ VI /\ EI /\ RI /\ II
    BY LInit, VInit, EInit, RInit, IInit
  <1>2. LI /\ [JudgingNext]_services => LI'
    BY LStep, JudgingSceneStays DEF At
  <1>3. VI /\ [JudgingNext]_services => VI'
    BY VScene, JudgingSceneStays DEF At
  <1>4. EI /\ [JudgingNext]_services => EI'
    BY EScene, JudgingSceneStays DEF At
  <1>5. RI /\ [JudgingNext]_services => RI'
    BY RScene, JudgingSceneStays DEF At
  <1>6. II /\ [JudgingNext]_services => II'
    BY IStep, JudgingSceneStays DEF At
  <1>7. LI /\ VI /\ EI /\ RI /\ II => JudgingTypeOK
    BY LProperty, VProperty, EProperty, RProperty, IProperty DEF JudgingTypeOK
  <1> QED BY <1>1, <1>2, <1>3, <1>4, <1>5, <1>6, <1>7, PTL DEF JudgingSpec
=============================================================================
