----------------------------- MODULE SatProofs -----------------------------
(* Proofs about module Sat: solutions and conflict analysis preserve the      *)
(* invariant of module SatInvariant, what follows from it, and that           *)
(* propagation misses nothing, so that the search implements Enumeration.     *)
EXTENDS SatInvariant

-----------------------------------------------------------------------------
(* Solutions. *)

LEMMA Shrunk ==
  ASSUME NEW t, NEW a, NEW R, NEW M, NEW rt, NEW rem, NEW W, NEW ls, StackTyped(t, a, R, M, rt),
         StackRight(t, a, R, M, rt, rem), StoreRight(M, W, ls, rt, rem), NEW rem1 \in SUBSET rem
  PROVE  StackRight(t, a, R, M, rt, rem1) /\ StoreRight(M, W, ls, rt, rem1)
  <1>1. ReasonsKept(t, t, R, M, rt, M, rt)
    BY DEF ReasonsKept
  <1> QED
    BY <1>1, StackMemory, StoreShrink

(* What is left to be found once a solution has been printed. *)
LEMMA Fewer ==
  ASSUME given' = given, found' = found \cup {Show(assigns)}
  PROVE  /\ Remaining' \in SUBSET Remaining
         /\ \A m \in Remaining' : m \in Models /\ Show(m) # Show(assigns)
  <1>1. Models' = Models
    BY Carried
  <1>2. \A m : Show(m)' = Show(m)
    BY Carried DEF Show
  <1> QED
    BY <1>1, <1>2 DEF Remaining

(* A model still to be found differs from a solution in some output, or in    *)
(* what the bounds say of an output that has a valLit.                       *)
LEMMA OutputsDiffer ==
  ASSUME SatInv, AllFixed, \A k \in Inference : Quiet(k), NEW m \in Remaining, Show(m) # Show(assigns)
  PROVE  \E q \in neg(OutputLits) : -q \in Deep /\ HoldsIn(trail, reason, m, q)
  <1>1. /\ given \in DOMAIN Runs /\ trail \in Seq(Seq(Lit)) /\ Len(trail) > 0 /\ assigns \in SUBSET Lit
        /\ m \in Models
    BY SatParts, TypedNow DEF StackTyped
  <1>2. /\ TrailRight(trail, assigns) /\ HiddenRight(trail, assigns, reason)
        /\ assigns \ DeepOf(trail) \subseteq m
    BY SatParts DEF StackRight, RootRight
  <1>3. OutputLits \subseteq assigns
    BY DEF OutputLits
  <1> SUFFICES ASSUME \A q \in neg(OutputLits) : -q \in Deep => ~ HoldsIn(trail, reason, m, q)
               PROVE  Show(m) = Show(assigns)
    BY <1>1
  <1>4. \A l \in OutputLits : -l \in neg(OutputLits) /\ l \in Lit /\ -l \in Lit /\ -(-l) = l /\ var(-l) = var(l)
    BY <1>1, <1>3, LitFacts DEF neg
  <1>5. \A l \in OutputLits : l \in DeepOf(trail) => ~ HoldsIn(trail, reason, m, -l)
    BY <1>4 DEF Deep
  <1>6. ASSUME NEW l \in OutputLits, var(l) \notin Hidden PROVE l \in m
    <2>1. CASE l \in DeepOf(trail)
      <3>1. -l \notin m
        BY <2>1, <1>4, <1>5, <1>6 DEF HoldsIn
      <3> QED
        BY <3>1, <1>1, <1>4, ModelFacts
    <2>2. CASE l \notin DeepOf(trail)
      BY <2>2, <1>2, <1>3
    <2> QED
      BY <2>1, <2>2
  <1>7. ASSUME NEW h \in OutputLits, var(h) \in Hidden
        PROVE  \E k \in Inference : h \in k.heads /\ k.body \subseteq assigns \cap m
    <2>1. PICK k \in Inference :
            /\ h \in k.heads /\ k.body \subseteq assigns
            /\ h \in DeepOf(trail) => reason[var(h)] = <<"lits", neg(k.body)>>
            /\ h \notin DeepOf(trail) => k.body \cap DeepOf(trail) = {}
      BY <1>2, <1>3, <1>7 DEF HiddenRight
    <2>2. CASE h \in DeepOf(trail)
      <3>1. m \cap reason[var(h)][2] = {}
        BY <2>2, <1>4, <1>5, <1>7 DEF HoldsIn
      <3>2. m \cap neg(k.body) = {}
        BY <3>1, <2>1, <2>2
      <3>3. ASSUME NEW l \in k.body PROVE l \in m
        <4>1. l \in Lit /\ -l \in neg(k.body)
          BY <1>1, RunFacts DEF neg
        <4>2. -l \notin m
          BY <4>1, <3>2
        <4> QED
          BY <4>1, <4>2, <1>1, ModelFacts
      <3> QED
        BY <3>3, <2>1
    <2>3. CASE h \notin DeepOf(trail)
      BY <2>1, <2>3, <1>2
    <2> QED
      BY <2>2, <2>3
  <1> QED
    BY <1>1, <1>2, <1>6, <1>7, ShownSame

LEMMA solutionKeeps ==
  ASSUME SatInv, solution, given' = given
  PROVE  SatInv'
  <1> DEFINE rem == Remaining
             rem1 == Remaining'
             M == clause
             n == Len(rtrail)
  <1>1. /\ Ready /\ AllFixed
        /\ found' = found \cup {Show(assigns)}
        /\ UNCHANGED <<loaded, learnts, watches, todo, seen, budget, an>>
        /\ solutions' = IF nof_solutions > 0 THEN solutions + 1 ELSE 0
        /\ \/ /\ pc' = "SAT"
              /\ UNCHANGED <<clause, rtrail, assigns, trail, qhead, reason, confl>>
           \/ /\ pc' = "propagate"
              /\ blockCurrentSol
    BY DEF solution
  <1>2. /\ Typed /\ Phases /\ SeenRight
        /\ StackRight(trail, assigns, reason, M, rtrail, rem)
        /\ StoreRight(M, watches, learnts, rtrail, rem)
    BY SatParts
  <1>3. /\ given \in DOMAIN Runs /\ StackTyped(trail, assigns, reason, M, rtrail)
        /\ DOMAIN M \subseteq 1..MaxClause /\ loaded \in 0 .. Len(Problem)
        /\ learnts \subseteq 1..MaxClause /\ watches \in [Lit -> SUBSET WatchElem]
        /\ qhead \in Seq(Nat) /\ Len(qhead) = Len(trail)
        /\ confl \in Reason /\ todo \subseteq WatchElem /\ seen \subseteq Var
        /\ solutions \in Nat /\ budget \in Int /\ found \subseteq SUBSET Lit /\ an \in Analysis
        /\ MaxClause \in Nat /\ rem \in SUBSET Models
    BY <1>2, TypedNow
  <1>4. /\ trail \in Seq(Seq(Lit)) /\ Len(trail) > 0 /\ Len(trail) \in Nat
        /\ assigns \in SUBSET Lit /\ reason \in [Var -> Reason]
        /\ rtrail \in Seq(SUBSET (1..MaxClause)) /\ Len(rtrail) = Len(trail)
        /\ M \in [DOMAIN M -> ClauseObject]
    BY <1>3, LastPlaces DEF StackTyped
  <1>5. /\ pc \in {"branch", "propagate"} /\ confl = NoReason /\ todo = {}
        /\ \A k \in Inference : Quiet(k)
    BY <1>1, ReadyFacts
  <1>6. rem1 \in SUBSET rem /\ \A m \in rem1 : m \in Models /\ Show(m) # Show(assigns)
    BY <1>1, Fewer
  <1>7. \A m \in rem1 : \E q \in neg(OutputLits) : -q \in Deep /\ HoldsIn(trail, reason, m, q)
    BY <1>1, <1>5, <1>6, OutputsDiffer
  <1>8. found' \subseteq SUBSET Lit /\ solutions' \in Nat
    <2>1. Show(assigns) \in SUBSET Lit
      BY <1>4 DEF Show
    <2>2. found' \subseteq SUBSET Lit
      BY <2>1, <1>1, <1>3
    <2>3. solutions' = solutions + 1 \/ solutions' = 0
      BY <1>1
    <2> QED
      BY <2>2, <2>3, <1>3
  <1>9. /\ StackRight(trail, assigns, reason, M, rtrail, rem1)
        /\ StoreRight(M, watches, learnts, rtrail, rem1)
    <2> HIDE DEF rem, rem1
    <2> QED
      BY <1>2, <1>3, <1>6, Shrunk
  <1>10. Remaining' = rem1
    OBVIOUS
  <1>11. OutputLits \subseteq assigns
    BY DEF OutputLits
  <1> HIDE DEF rem, rem1
  <1>12. CASE /\ pc' = "SAT"
              /\ UNCHANGED <<clause, rtrail, assigns, trail, qhead, reason, confl>>
    <2>1. pc' \in Phase
      BY <1>12 DEF Phase
    <2>2. Typed'
      BY <2>1, <1>1, <1>3, <1>8, <1>12, TypedNext
    <2>3. OffTrail(trail', assigns') = OffTrail(trail, assigns)
      BY <1>12
    <2>4. SeenRight' /\ ConflictRight'
      BY <2>3, <1>1, <1>2, <1>5, <1>12, SeenNext, NoConflict
    <2>5. /\ StackRight(trail', assigns', reason', clause', rtrail', rem1)
          /\ StoreRight(clause', watches', learnts', rtrail', rem1)
      BY <1>1, <1>9, <1>12
    <2> QED
      BY <2>2, <2>4, <2>5, <1>1, <1>5, <1>10, <1>12, Settled
  <1>13. CASE /\ pc' = "propagate" /\ Free # {} /\ confl' = <<"clause", Slot>>
              /\ rootFailure /\ btToLevel(0)
              /\ rtrail' = Keep(rtrail, 0)
              /\ clause' = Without(clause, Freed(0))
    <2>1. rem1 = {}
      <3> SUFFICES ASSUME NEW m \in rem1 PROVE FALSE
        OBVIOUS
      <3>1. PICK q \in neg(OutputLits) : -q \in Deep
        BY <1>7
      <3>2. PICK l \in OutputLits : q = -l
        BY DEF neg
      <3>3. l \in assigns /\ -(-l) = l
        BY <1>3, <1>4, <1>11, LitFacts
      <3>4. levelOf(var(l)) = 0
        BY <1>13 DEF rootFailure
      <3>5. TrailRight(trail, assigns)
        BY <1>2 DEF StackRight
      <3>6. l \notin Deep
        BY <3>3, <3>4, <3>5, <1>3, <1>4, Levels
      <3> QED
        BY <3>1, <3>2, <3>3, <3>6
    <2>2. /\ assigns' = assigns \ UndoneOf(trail, 0) /\ trail' = Keep(trail, 0)
          /\ qhead' = Keep(qhead, 0) /\ reason' = ForgetIn(reason, UndoneOf(trail, 0))
          /\ clause' = Without(M, FreedOf(rtrail, 0)) /\ rtrail' = Keep(rtrail, 0)
      BY <1>13, BackNow
    <2>3. /\ StackTyped(trail', assigns', reason', clause', rtrail')
          /\ StackRight(trail', assigns', reason', clause', rtrail', rem1)
          /\ StoreRight(clause', watches', learnts', rtrail', rem1)
          /\ OffTrail(trail', assigns') = OffTrail(trail, assigns)
      <3>1. watches' = watches /\ learnts' = learnts /\ 0 \in Nat /\ 0 < Len(trail)
        BY <1>1, <1>4
      <3> HIDE DEF M
      <3> QED
        BY <3>1, <2>2, <1>3, <1>9, StackBack
    <2>4. qhead' \in Seq(Nat) /\ Len(qhead') = 1 /\ Len(trail') = 1
      <3>1. Len(qhead) > 0 /\ 0 \in Nat
        BY <1>3, <1>4
      <3>2. Keep(qhead, 0) \in Seq(Nat) /\ Len(Keep(qhead, 0)) = 0 + 1
        BY <3>1, <1>3, KeptList
      <3>3. Len(Keep(trail, 0)) = 0 + 1
        BY <3>1, <1>4, KeptList
      <3> QED
        BY <3>2, <3>3, <2>2
    <2>5. DOMAIN clause' \subseteq 1..MaxClause
      BY <1>13, <1>3 DEF Without
    <2>6. Slot \in 1..MaxClause /\ confl' \in Reason /\ pc' \in Phase
      <3>1. Slot \in 1..MaxClause
        BY <1>3, <1>13, SlotFacts DEF Free, Slot
      <3> QED
        BY <3>1, <1>13 DEF Reason, Phase
    <2>7. Typed'
      BY <2>3, <2>4, <2>5, <2>6, <1>1, <1>3, <1>8, TypedNext
    <2>8. SeenRight'
      BY <2>3, <1>1, <1>2, <1>5, SeenNext
    <2>9. ConflictRight'
      <3>1. decisionLevel' = 0 /\ Remaining' = {} /\ pc' \notin {"resolve", "select"}
        BY <2>1, <2>4, <1>10, <1>13 DEF decisionLevel
      <3> QED
        BY <3>1 DEF ConflictRight
    <2> QED
      BY <2>3, <2>4, <2>7, <2>8, <2>9, <1>1, <1>5, <1>10, <1>13, Settled
  <1>14. CASE /\ pc' = "propagate" /\ Free # {} /\ confl' = <<"clause", Slot>>
              /\ ~ rootFailure
              /\ Reason_new(0, neg(OutputLits))
              /\ UNCHANGED <<assigns, trail, qhead, reason>>
    <2> DEFINE s == Slot
               N == neg(OutputLits)
               c == [c0 |-> 0, c1 |-> 0, rest |-> N, learnt |-> FALSE, temp |-> TRUE]
    <2>1. clause' = With(M, s, c) /\ rtrail' = [rtrail EXCEPT ![n] = @ \cup {s}]
      BY <1>14 DEF Reason_new
    <2>2. s \in 1..MaxClause /\ s \notin DOMAIN M
      BY <1>3, <1>14, SlotFacts DEF Free, Slot
    <2>3. N \subseteq Lit /\ 0 \notin N /\ \A l \in OutputLits : -l \in N /\ -(-l) = l
      BY <1>3, <1>4, <1>11, LitFacts, NegFacts DEF neg
    <2>4. c \in ClauseObject /\ c.temp /\ Lits(c) = N
      BY <2>3 DEF ClauseObject, Lits
    <2>5. /\ StackTyped(trail, assigns, reason, clause', rtrail')
          /\ StackRight(trail, assigns, reason, clause', rtrail', rem1)
          /\ StoreRight(clause', watches, learnts, rtrail', rem1)
          /\ DOMAIN clause' = DOMAIN M \cup {s} /\ clause'[s] = c
      <3> DEFINE M1 == With(M, s, c)
                 rt1 == [rtrail EXCEPT ![n] = @ \cup {s}]
      <3>1. n \in DOMAIN rtrail
        BY <1>4
      <3>2. DOMAIN M1 = DOMAIN M \cup {s} /\ M1[s] = c
        BY DEF With
      <3> HIDE DEF n, M, s, c
      <3>3. /\ StackTyped(trail, assigns, reason, M1, rt1)
            /\ StackRight(trail, assigns, reason, M1, rt1, rem1)
            /\ StoreRight(M1, watches, learnts, rt1, rem1)
        BY <3>1, <2>2, <2>4, <1>3, <1>9, TempMade
      <3> HIDE DEF M1, rt1
      <3>4. clause' = M1 /\ rtrail' = rt1
        BY <2>1 DEF M1, rt1
      <3> QED
        BY <3>2, <3>3, <3>4
    <2>6. confl' = <<"clause", s>> /\ confl' \in Reason /\ pc' \in Phase /\ confl' # NoReason
      BY <2>2, <1>14 DEF Reason, Phase, NoReason
    <2> HIDE DEF s, c
    <2>7. ConflictLits' = N
      BY <2>4, <2>5, <2>6 DEF ConflictLits
    <2>8. Typed'
      <3>1. DOMAIN clause' \subseteq 1..MaxClause
        BY <2>2, <2>5, <1>3
      <3> QED
        BY <3>1, <2>5, <2>6, <1>1, <1>3, <1>8, <1>14, TypedNext
    <2>9. SeenRight'
      <3>1. OffTrail(trail', assigns') = OffTrail(trail, assigns)
        BY <1>14
      <3> QED
        BY <3>1, <1>1, <1>2, <1>5, SeenNext
    <2>10. \E q \in N : -q \in Deep
      <3>1. PICK l \in OutputLits : levelOf(var(l)) # 0
        BY <1>14 DEF rootFailure
      <3>2. TrailRight(trail, assigns) /\ l \in assigns
        BY <1>2, <1>11 DEF StackRight
      <3>3. l \in Deep
        BY <3>1, <3>2, <1>3, <1>4, Levels
      <3> QED
        BY <3>3, <2>3
    <2>11. Len(trail) > 1
      <3>1. PICK l : l \in Deep
        BY <2>10
      <3>2. PICK k \in 2 .. Len(trail) : TRUE
        BY <3>1 DEF Deep, DeepOf
      <3> QED
        BY <3>2, <1>4
    <2>12. ConflictRight'
      <3>1. decisionLevel' = Len(trail) - 1 /\ Deep' = Deep
        BY <1>14 DEF decisionLevel, Deep
      <3>2. (ConflictLits \subseteq Lit /\ \A q \in ConflictLits : isFalse(q))'
        <4>1. \A q \in N : -q \in assigns
          BY <2>3, <1>11 DEF N, neg
        <4>2. Lit' = Lit
          BY Carried
        <4> QED
          BY <4>1, <4>2, <2>3, <2>7, <1>14 DEF isFalse
      <3>3. (\E q \in ConflictLits : -q \in Deep)'
        BY <2>7, <2>10, <3>1
      <3>4. Nogood(trail, reason, Remaining, ConflictLits)'
        <4>1. Hidden' = Hidden
          BY Carried
        <4>2. Nogood(trail, reason, rem1, N)
          BY <1>7 DEF Nogood
        <4> QED
          BY <4>1, <4>2, <2>7, <1>10, <1>14 DEF Nogood, HoldsIn
      <3>5. (confl[1] = "clause" => confl[2] \in DOMAIN clause /\ (clause[confl[2]].temp \/ Kept(clause, rtrail, confl[2])))'
        BY <2>4, <2>5, <2>6
      <3>6. decisionLevel' > 0 /\ decisionLevel' # 0
        <4>1. Len(trail) \in Nat
          BY <1>4
        <4>2. Len(trail) - 1 > 0 /\ Len(trail) - 1 \in Int
          BY <4>1, <2>11
        <4>3. decisionLevel' > 0 /\ decisionLevel' \in Int
          BY <4>2, <3>1
        <4> QED
          BY <4>3
      <3>7. pc' = "propagate"
        BY <1>14
      <3> QED
        BY <3>2, <3>3, <3>4, <3>5, <3>6, <3>7 DEF ConflictRight
    <2>13. /\ StackRight(trail', assigns', reason', clause', rtrail', rem1)
           /\ StoreRight(clause', watches', learnts', rtrail', rem1)
      BY <2>5, <1>1, <1>14
    <2> QED
      BY <2>6, <2>8, <2>9, <2>12, <2>13, <1>1, <1>5, <1>10, <1>14, Settled
  <1> QED
    BY <1>1, <1>12, <1>13, <1>14 DEF blockCurrentSol

-----------------------------------------------------------------------------
(* Going back. *)

LEMMA HighestFacts ==
  ASSUME NEW n \in Nat, NEW S \in SUBSET (0 .. n), S # {}
  PROVE  Highest(S) \in S /\ \A k \in S : k <= Highest(S)
  <1>1. PICK i \in S : \A j \in S : i >= j
    BY Greatest
  <1>2. \A j \in S : j \in Int
    OBVIOUS
  <1>3. \E l \in S : \A k \in S : k <= l
    BY <1>1, <1>2
  <1>4. Highest(S) = CHOOSE l \in S : \A k \in S : k <= l
    BY DEF Highest
  <1> QED
    BY <1>3, <1>4

(* What is of a lower level stays when the levels above are undone. *)
LEMMA LowerStays ==
  ASSUME given \in DOMAIN Runs, trail \in Seq(Seq(Lit)), Len(trail) > 0, assigns \in SUBSET Lit,
         TrailRight(trail, assigns), NEW lv \in Nat, lv < Len(trail), NEW p \in assigns, levelOf(var(p)) <= lv
  PROVE  p \notin UndoneOf(trail, lv)
  <1> SUFFICES ASSUME p \in UndoneOf(trail, lv) PROVE FALSE
    OBVIOUS
  <1>1. PICK l \in lv + 2 .. Len(trail) : p \in Elems(trail[l])
    BY DEF UndoneOf
  <1>2. Len(trail) \in Nat
    OBVIOUS
  <1> DEFINE k == l - 1
  <1>3. k \in 1 .. Len(trail) - 1 /\ k + 1 = l /\ k > lv /\ k \in Int
    BY <1>1, <1>2
  <1> HIDE DEF k
  <1>4. levelOf(var(p)) = k
    BY <1>1, <1>3, Levels
  <1> QED
    BY <1>3, <1>4

(* What a nogood says is kept when the trail is cut above its literals. *)
LEMMA HoldsCut ==
  ASSUME given \in DOMAIN Runs, NEW t \in Seq(Seq(Lit)), NEW a \in SUBSET Lit, Len(t) > 0, TrailRight(t, a),
         NEW t1, NEW a1, CutOf(t, a, t1, a1), NEW R, NEW R1, SameReasons(a1, R, R1),
         NEW q \in Lit, -q \in a1, NEW m, HoldsIn(t, R, m, q)
  PROVE  HoldsIn(t1, R1, m, q)
  <1>1. a1 \ DeepOf(t1) = a \ DeepOf(t) /\ DeepOf(t1) \subseteq DeepOf(t)
    BY CutShape
  <1>2. a1 \subseteq a
    BY DEF CutOf
  <1>3. -q \in DeepOf(t1) <=> -q \in DeepOf(t)
    BY <1>1, <1>2
  <1>4. R1[var(q)] = R[var(q)]
    <2>1. var(-q) = var(q)
      BY LitFacts
    <2> QED
      BY <2>1 DEF SameReasons
  <1> QED
    BY <1>3, <1>4 DEF HoldsIn

(* A nogood cut back to levels that make all of it false. *)
LEMMA NogoodCut ==
  ASSUME given \in DOMAIN Runs, NEW t \in Seq(Seq(Lit)), NEW a \in SUBSET Lit, Len(t) > 0, TrailRight(t, a),
         NEW t1, NEW a1, CutOf(t, a, t1, a1), NEW R, NEW R1, SameReasons(a1, R, R1),
         NEW C \in SUBSET Lit, \A q \in C : -q \in a1, NEW rem, Nogood(t, R, rem, C)
  PROVE  Nogood(t1, R1, rem, C)
  <1> SUFFICES ASSUME NEW m \in rem PROVE \E q \in C : HoldsIn(t1, R1, m, q)
    BY DEF Nogood
  <1>1. PICK q \in C : HoldsIn(t, R, m, q)
    BY DEF Nogood
  <1>2. q \in Lit /\ -q \in a1
    OBVIOUS
  <1> QED
    BY <1>1, <1>2, HoldsCut

(* The literals of the level above the root are true, and not of the root. *)
LEMMA LastTrue ==
  ASSUME given \in DOMAIN Runs, NEW t \in Seq(Seq(Lit)), NEW a \in SUBSET Lit, TrailRight(t, a), Len(t) > 1
  PROVE  /\ Elems(Last(t)) \subseteq a /\ Elems(Last(t)) \subseteq DeepOf(t) /\ DeepOf(t) \subseteq a
         /\ OffTrail(t, a) = a \ DeepOf(t)
  <1>1. Len(t) \in Nat /\ DOMAIN t = 1 .. Len(t) /\ Last(t) = t[Len(t)]
    BY DEF Last
  <1>2. \A l \in 1 .. Len(t) : Elems(t[l]) \subseteq a
    <2> SUFFICES ASSUME NEW l \in 1 .. Len(t), NEW q \in Elems(t[l]) PROVE q \in a
      OBVIOUS
    <2>1. PICK i \in DOMAIN t[l] : t[l][i] = q
      BY DEF Elems
    <2> QED
      BY <2>1, <1>1 DEF TrailRight
  <1>3. \A l \in 2 .. Len(t) : l \in 1 .. Len(t)
    BY <1>1
  <1>4. Len(t) \in 2 .. Len(t) /\ Len(t) \in 1 .. Len(t)
    BY <1>1
  <1>5. DeepOf(t) \subseteq a
    BY <1>2, <1>3 DEF DeepOf
  <1>6. Elems(Last(t)) \subseteq DeepOf(t)
    BY <1>1, <1>4 DEF DeepOf
  <1>7. Elems(t[1]) = {}
    BY DEF TrailRight, Elems
  <1>8. \A l \in 1 .. Len(t) : l = 1 \/ l \in 2 .. Len(t)
    BY <1>1
  <1>9. UNION {Elems(t[l]) : l \in DOMAIN t} = DeepOf(t)
    <2>1. ASSUME NEW l \in DOMAIN t, NEW q \in Elems(t[l]) PROVE q \in DeepOf(t)
      <3>1. l \in 2 .. Len(t)
        BY <1>1, <1>7, <1>8
      <3> QED
        BY <3>1 DEF DeepOf
    <2>2. ASSUME NEW q \in DeepOf(t) PROVE q \in UNION {Elems(t[l]) : l \in DOMAIN t}
      <3>1. PICK l \in 2 .. Len(t) : q \in Elems(t[l])
        BY DEF DeepOf
      <3> QED
        BY <3>1, <1>1, <1>3
    <2> QED
      BY <2>1, <2>2
  <1> QED
    BY <1>2, <1>4, <1>1, <1>5, <1>6, <1>9 DEF OffTrail

(* The conflict level: that of the latest literal of the conflict. *)
LEMMA ConflictLevel ==
  ASSUME given \in DOMAIN Runs, trail \in Seq(Seq(Lit)), Len(trail) > 0, assigns \in SUBSET Lit,
         TrailRight(trail, assigns), NEW C \in SUBSET Lit, \A q \in C : -q \in assigns,
         \E q \in C : -q \in Deep,
         NEW lv, lv = Highest({levelOf(var(l)) : l \in C})
  PROVE  /\ lv \in 1 .. Len(trail) - 1
         /\ \A q \in C : -q \notin UndoneOf(trail, lv)
         /\ \E q \in C : -q \in Elems(trail[lv + 1])
  <1> DEFINE S == {levelOf(var(l)) : l \in C}
             n == Len(trail) - 1
  <1>1. Len(trail) \in Nat /\ n \in Nat
    OBVIOUS
  <1>2. \A q \in C : -q \in assigns /\ var(-q) = var(q)
    BY LitFacts
  <1>3. \A p \in assigns : levelOf(var(p)) \in 0 .. n
    BY Levels
  <1>4. S \in SUBSET (0 .. n) /\ S # {}
    BY <1>2, <1>3
  <1>5. lv \in S /\ \A k \in S : k <= lv
    <2> HIDE DEF S, n
    <2>1. Highest(S) \in S /\ \A k \in S : k <= Highest(S)
      BY <1>1, <1>4, HighestFacts
    <2> QED
      BY <2>1 DEF S
  <1>6. PICK d \in C : -d \in Deep
    OBVIOUS
  <1>7. levelOf(var(d)) # 0
    <2>1. levelOf(var(-d)) # 0
      BY <1>2, <1>6, Levels
    <2> QED
      BY <2>1, <1>2
  <1>8. levelOf(var(d)) \in S
    OBVIOUS
  <1> HIDE DEF n
  <1>9. lv \in 0 .. n /\ levelOf(var(d)) \in 0 .. n /\ levelOf(var(d)) <= lv
    BY <1>4, <1>5, <1>8
  <1>10. lv \in 1 .. n
    BY <1>1, <1>7, <1>9
  <1>11. lv \in Nat /\ lv < Len(trail)
    BY <1>1, <1>10 DEF n
  <1>12. ASSUME NEW q \in C PROVE -q \notin UndoneOf(trail, lv)
    <2>1. levelOf(var(q)) <= lv
      BY <1>5
    <2>2. -q \in assigns /\ levelOf(var(-q)) <= lv
      BY <2>1, <1>2
    <2> QED
      BY <2>2, <1>11, LowerStays
  <1>13. PICK h \in C : levelOf(var(h)) = lv
    BY <1>5
  <1>14. -h \in Elems(trail[lv + 1])
    <2>1. -h \in assigns /\ levelOf(var(-h)) = lv
      BY <1>2, <1>13
    <2> QED
      BY <2>1, <1>10, Levels DEF n
  <1> QED
    BY <1>10, <1>12, <1>14 DEF n

(* The conflict clause is there after going back, or a copy of it. *)
LEMMA CopyMade ==
  ASSUME NEW t, NEW a, NEW R, NEW M, NEW rt, NEW rem, NEW W, NEW ls, StackTyped(t, a, R, M, rt),
         StackRight(t, a, R, M, rt, rem), StoreRight(M, W, ls, rt, rem), NEW F, NEW s \in 1..MaxClause,
         s \notin DOMAIN M, s \notin F, NEW c \in ClauseObject, c.temp, NEW N, DOMAIN N \ F = DOMAIN M, M = Without(N, F)
  PROVE  /\ StackTyped(t, a, R, Without(With(N, s, c), F), [rt EXCEPT ![Len(rt)] = @ \cup {s}])
         /\ StackRight(t, a, R, Without(With(N, s, c), F), [rt EXCEPT ![Len(rt)] = @ \cup {s}], rem)
         /\ StoreRight(Without(With(N, s, c), F), W, ls, [rt EXCEPT ![Len(rt)] = @ \cup {s}], rem)
  <1> DEFINE n == Len(rt)
  <1>1. n \in DOMAIN rt
    BY DEF StackTyped
  <1>2. Without(With(N, s, c), F) = With(M, s, c)
    BY DEF With, Without
  <1> HIDE DEF n
  <1>3. /\ StackTyped(t, a, R, With(M, s, c), [rt EXCEPT ![n] = @ \cup {s}])
        /\ StackRight(t, a, R, With(M, s, c), [rt EXCEPT ![n] = @ \cup {s}], rem)
        /\ StoreRight(With(M, s, c), W, ls, [rt EXCEPT ![n] = @ \cup {s}], rem)
    BY <1>1, TempMade
  <1> QED
    BY <1>2, <1>3 DEF n

LEMMA conflictKeeps ==
  ASSUME SatInv, conflict, given' = given
  PROVE  SatInv'
  <1> DEFINE rem == Remaining
             M == clause
             C == ConflictLits
             lv == Highest({levelOf(var(l)) : l \in C})
             copy == needsCopy(lv)
             kept == Keep(rtrail, lv)
  <1>1. /\ pc = "propagate" /\ confl # NoReason /\ todo = {}
        /\ budget' = IF restart_scale > 0 THEN budget - 1 ELSE budget
        /\ UNCHANGED <<loaded, learnts, watches, todo, seen, solutions, found>>
    BY DEF conflict
  <1>2. /\ Typed /\ Phases /\ SeenRight /\ ConflictRight
        /\ StackRight(trail, assigns, reason, M, rtrail, rem)
        /\ StoreRight(M, watches, learnts, rtrail, rem)
    BY SatParts
  <1>3. /\ given \in DOMAIN Runs /\ StackTyped(trail, assigns, reason, M, rtrail)
        /\ DOMAIN M \subseteq 1..MaxClause /\ loaded \in 0 .. Len(Problem)
        /\ learnts \subseteq 1..MaxClause /\ watches \in [Lit -> SUBSET WatchElem]
        /\ qhead \in Seq(Nat) /\ Len(qhead) = Len(trail)
        /\ confl \in Reason /\ todo \subseteq WatchElem /\ seen \subseteq Var
        /\ solutions \in Nat /\ budget \in Int /\ found \subseteq SUBSET Lit /\ an \in Analysis
        /\ MaxClause \in Nat /\ rem \in SUBSET Models
    BY <1>2, TypedNow
  <1>4. /\ trail \in Seq(Seq(Lit)) /\ Len(trail) > 0 /\ Len(trail) \in Nat
        /\ assigns \in SUBSET Lit /\ reason \in [Var -> Reason]
        /\ rtrail \in Seq(SUBSET (1..MaxClause)) /\ Len(rtrail) = Len(trail)
        /\ M \in [DOMAIN M -> ClauseObject]
    BY <1>3, LastPlaces DEF StackTyped
  <1>5. budget' \in Int
    <2>1. budget' = budget \/ budget' = budget - 1
      BY <1>1
    <2> QED
      BY <2>1, <1>3
  <1>6. Remaining' = rem
    BY <1>1, SameRemaining
  <1> HIDE DEF rem
  <1>7. CASE atRoot
    <2>1. pc' = "GUN" /\ UNCHANGED <<clause, confl, assigns, trail, qhead, rtrail, reason, an>>
      BY <1>7 DEF conflict, stack
    <2>2. rem = {}
      BY <1>1, <1>2, <1>7 DEF ConflictRight, atRoot, rem
    <2>3. Typed'
      <3>1. pc' \in Phase
        BY <2>1 DEF Phase
      <3> QED
        BY <3>1, <2>1, <1>1, <1>3, <1>5, TypedNext
    <2>4. SeenRight' /\ ConflictRight'
      <3>1. OffTrail(trail', assigns') = OffTrail(trail, assigns)
        BY <2>1
      <3>2. SeenRight'
        BY <3>1, <1>1, <1>2, SeenNext
      <3> QED
        BY <3>2, <2>1 DEF ConflictRight
    <2>5. /\ StackRight(trail', assigns', reason', clause', rtrail', rem)
          /\ StoreRight(clause', watches', learnts', rtrail', rem)
      BY <2>1, <1>1, <1>2
    <2> QED
      BY <2>1, <2>2, <2>3, <2>4, <2>5, <1>1, <1>6, Settled
  <1>8. CASE ~ atRoot
    <2>1. /\ btToLevel(lv) /\ (copy => FreeIn(M) # {})
          /\ clause' = Without(IF copy THEN With(M, Slot, M[confl[2]]) ELSE M, Freed(lv))
          /\ rtrail' = IF copy THEN [kept EXCEPT ![Len(kept)] = @ \cup {Slot}] ELSE kept
          /\ confl' = IF copy THEN <<"clause", Slot>> ELSE confl
          /\ an' = [Unset EXCEPT !.index = Len(trail[lv + 1]), !.expl = C]
          /\ pc' = "resolve"
      BY <1>8 DEF conflict, Free
    <2>2. Len(trail) > 1 /\ decisionLevel > 0
      BY <1>4, <1>8 DEF atRoot, decisionLevel
    <2>3. /\ confl[1] = "clause" => confl[2] \in DOMAIN M /\ (M[confl[2]].temp \/ Kept(M, rtrail, confl[2]))
          /\ C \in SUBSET Lit /\ \A q \in C : -q \in assigns
          /\ \E q \in C : -q \in Deep
          /\ Nogood(trail, reason, rem, C)
      BY <2>2, <1>1, <1>2 DEF ConflictRight, rem, isFalse
    <2>4. TrailRight(trail, assigns)
      BY <1>2 DEF StackRight
    <2> HIDE DEF C, M
    <2>5. /\ lv \in 1 .. Len(trail) - 1
          /\ \A q \in C : -q \notin UndoneOf(trail, lv)
          /\ \E q \in C : -q \in Elems(trail[lv + 1])
      <3> HIDE DEF lv
      <3>1. lv = Highest({levelOf(var(l)) : l \in C})
        BY DEF lv
      <3> QED
        BY <3>1, <2>3, <2>4, <1>3, <1>4, ConflictLevel
    <2> HIDE DEF lv, copy
    <2>6. lv \in Nat /\ lv < Len(trail) /\ lv > 0
      BY <2>5, <1>4
    <2> DEFINE F == FreedOf(rtrail, lv)
               t1 == Keep(trail, lv)
               a1 == assigns \ UndoneOf(trail, lv)
               R1 == ForgetIn(reason, UndoneOf(trail, lv))
               M0 == Without(M, F)
    <2>7. /\ assigns' = a1 /\ trail' = t1 /\ qhead' = Keep(qhead, lv) /\ reason' = R1
          /\ clause' = Without(IF copy THEN With(M, Slot, M[confl[2]]) ELSE M, F)
      <3>1. /\ assigns' = a1 /\ trail' = t1 /\ qhead' = Keep(qhead, lv) /\ reason' = R1 /\ Freed(lv) = F
        BY <2>1, BackNow
      <3> QED
        BY <3>1, <2>1
    <2>8. /\ StackTyped(t1, a1, R1, M0, kept)
          /\ StackRight(t1, a1, R1, M0, kept, rem)
          /\ StoreRight(M0, watches, learnts, kept, rem)
          /\ OffTrail(t1, a1) = OffTrail(trail, assigns)
      BY <2>6, <1>2, <1>3, StackBack DEF M
    <2>9. /\ CutOf(trail, assigns, t1, a1) /\ Len(t1) = lv + 1 /\ t1[lv + 1] = trail[lv + 1]
          /\ SameReasons(a1, reason, R1)
      <3>1. \A l \in 2 .. Len(trail) : trail[l] # <<>>
        BY <1>2 DEF StackRight, ReasonsRight
      <3>2. CutOf(trail, assigns, t1, a1) /\ Len(t1) = lv + 1 /\ \A l \in 1 .. lv + 1 : t1[l] = trail[l]
        BY <3>1, <2>6, <1>4, BackIsCut
      <3>3. lv + 1 \in 1 .. lv + 1
        BY <2>6
      <3>4. SameReasons(a1, reason, R1)
        BY <2>4, <2>6, <1>3, <1>4, BackSame
      <3> QED
        BY <3>2, <3>3, <3>4
    <2>10. DOMAIN M0 = DOMAIN M \ F /\ \A i \in DOMAIN M \ F : M0[i] = M[i]
      BY DEF Without
    <2> HIDE DEF F, t1, a1, R1, M0, kept
    <2>11. F \subseteq DOMAIN M
      <3> SUFFICES ASSUME NEW i \in F PROVE i \in DOMAIN M
        OBVIOUS
      <3>1. PICK l \in lv + 2 .. Len(rtrail) : i \in rtrail[l]
        BY DEF F, FreedOf
      <3>2. l \in DOMAIN rtrail
        BY <3>1, <2>6, <1>4
      <3> QED
        BY <3>1, <3>2, <1>2 DEF StoreRight, M
    <2>12. /\ StackTyped(t1, a1, R1, clause', rtrail')
           /\ StackRight(t1, a1, R1, clause', rtrail', rem)
           /\ StoreRight(clause', watches, learnts, rtrail', rem)
           /\ DOMAIN clause' \subseteq 1..MaxClause
           /\ confl' \in Reason /\ (confl'[1] = "clause" => confl'[2] \in DOMAIN clause')
      <3>1. CASE copy
        <4> DEFINE s == Slot
                   c == M[confl[2]]
        <4>1. confl[1] = "clause" /\ c.temp
          BY <3>1 DEF copy, needsCopy, M
        <4>2. c \in ClauseObject
          BY <4>1, <2>3, <1>4 DEF M
        <4>3. s \in 1..MaxClause /\ s \notin DOMAIN M
          <5>1. FreeIn(M) # {}
            BY <3>1, <2>1
          <5> QED
            BY <5>1, <1>3, SlotFacts DEF Slot, M
        <4>4. s \notin F /\ s \notin DOMAIN M0
          BY <4>3, <2>10, <2>11
        <4>5. clause' = Without(With(M, s, c), F) /\ rtrail' = [kept EXCEPT ![Len(kept)] = @ \cup {s}]
              /\ confl' = <<"clause", s>>
          BY <3>1, <2>1, <2>7
        <4> HIDE DEF s, c
        <4>6. /\ StackTyped(t1, a1, R1, Without(With(M, s, c), F), [kept EXCEPT ![Len(kept)] = @ \cup {s}])
              /\ StackRight(t1, a1, R1, Without(With(M, s, c), F), [kept EXCEPT ![Len(kept)] = @ \cup {s}], rem)
              /\ StoreRight(Without(With(M, s, c), F), watches, learnts, [kept EXCEPT ![Len(kept)] = @ \cup {s}], rem)
          <5>1. DOMAIN M \ F = DOMAIN M0 /\ M0 = Without(M, F)
            BY <2>10 DEF M0
          <5> QED
            BY <5>1, <4>1, <4>2, <4>3, <4>4, <2>8, CopyMade
        <4>7. DOMAIN Without(With(M, s, c), F) = (DOMAIN M \cup {s}) \ F
          BY DEF With, Without
        <4>8. confl' \in Reason /\ confl'[2] = s
          BY <4>3, <4>5 DEF Reason
        <4>9. s \in DOMAIN clause' /\ DOMAIN clause' \subseteq 1..MaxClause
          BY <4>3, <4>4, <4>5, <4>7, <1>3 DEF M
        <4> QED
          BY <4>5, <4>6, <4>8, <4>9
      <3>2. CASE ~ copy
        <4>1. clause' = M0 /\ rtrail' = kept /\ confl' = confl
          BY <3>2, <2>1, <2>7 DEF M0
        <4>2. ASSUME confl[1] = "clause" PROVE confl[2] \notin F
          <5> SUFFICES ASSUME confl[2] \in F PROVE FALSE
            OBVIOUS
          <5>1. PICK l \in lv + 2 .. Len(rtrail) : confl[2] \in rtrail[l]
            BY DEF F, FreedOf
          <5>2. l \in DOMAIN rtrail /\ lv < decisionLevel
            BY <5>1, <2>6, <1>4 DEF decisionLevel
          <5>3. ~ M[confl[2]].temp
            BY <5>2, <4>2, <3>2 DEF copy, needsCopy, M
          <5>4. Kept(M, rtrail, confl[2])
            BY <5>3, <4>2, <2>3
          <5> QED
            BY <5>1, <5>2, <5>4 DEF Kept
        <4>3. DOMAIN M0 \subseteq 1..MaxClause
          BY <2>10, <1>3 DEF M
        <4> QED
          BY <4>1, <4>2, <4>3, <2>3, <2>8, <2>10, <1>3
      <3> QED
        BY <3>1, <3>2
    <2>13. /\ qhead' \in Seq(Nat) /\ Len(qhead') = Len(trail') /\ Len(trail') > 1
           /\ Last(trail') = trail[lv + 1]
      <3>1. Keep(qhead, lv) \in Seq(Nat) /\ Len(Keep(qhead, lv)) = lv + 1
        BY <2>6, <1>3, KeptList
      <3>2. Last(t1) = trail[lv + 1]
        BY <2>9 DEF Last
      <3> QED
        BY <3>1, <3>2, <2>6, <2>7, <2>9
    <2>14. an' = [index |-> Len(trail[lv + 1]), pathC |-> 0, last |-> NoReason, expl |-> C, out |-> {}, p |-> 0,
                  removed |-> {}]
      BY <2>1 DEF Unset
    <2>15. Len(trail[lv + 1]) \in Nat /\ DOMAIN trail[lv + 1] = 1 .. Len(trail[lv + 1])
      <3>1. lv + 1 \in 1 .. Len(trail)
        BY <2>6, <1>4
      <3> QED
        BY <3>1, <1>4, Places
    <2>16. Typed'
      <3>1. an' \in Analysis
        <4>1. NoReason \in Reason
          BY DEF Reason
        <4> QED
          BY <4>1, <2>3, <2>14, <2>15 DEF Analysis
      <3>2. pc' \in Phase
        BY <2>1 DEF Phase
      <3>3. StackTyped(trail', assigns', reason', clause', rtrail')
        BY <2>7, <2>12
      <3> QED
        BY <3>1, <3>2, <3>3, <2>12, <2>13, <1>1, <1>3, <1>5, TypedNext
    <2>17. /\ StackRight(trail', assigns', reason', clause', rtrail', rem)
           /\ StoreRight(clause', watches', learnts', rtrail', rem)
      BY <2>7, <2>12, <1>1
    <2>18. /\ TrailRight(t1, a1) /\ t1 \in Seq(Seq(Lit)) /\ a1 \in SUBSET Lit /\ Len(t1) > 1
           /\ Last(t1) = trail[lv + 1]
      BY <2>7, <2>8, <2>13 DEF StackRight, StackTyped
    <2>19. /\ Elems(Last(t1)) \subseteq a1 /\ Elems(Last(t1)) \subseteq DeepOf(t1)
           /\ OffTrail(t1, a1) = a1 \ DeepOf(t1)
      BY <2>18, <1>3, LastTrue
    <2>20. Deep' = DeepOf(t1) /\ Root' = a1 \ DeepOf(t1)
      BY <2>7 DEF Deep, Root
    <2>21. Walked' = Elems(Last(t1))
      <3>1. Walked' = {Last(t1)[i] : i \in 1 .. Len(trail[lv + 1])}
        BY <2>7, <2>14 DEF Walked
      <3> QED
        BY <3>1, <2>15, <2>18 DEF Elems
    <2>22. seen' = vars_of(a1 \ DeepOf(t1))
      BY <2>8, <2>19, <1>1, <1>2 DEF SeenRight, OffTrail
    <2>23. Marked' = {}
      <3> SUFFICES ASSUME NEW p \in Walked', var(p) \in seen' PROVE FALSE
        BY DEF Marked
      <3>1. p \in a1 /\ p \in DeepOf(t1) /\ p \in Lit
        BY <2>18, <2>19, <2>21
      <3>2. a1 \ DeepOf(t1) \in SUBSET Lit
        BY <2>18
      <3>3. p \in a1 \ DeepOf(t1) \/ -p \in a1 \ DeepOf(t1)
        BY <3>1, <3>2, <2>22, <1>3, NegFacts
      <3> QED
        BY <3>1, <3>3, <2>18 DEF TrailRight
    <2>24. Analyzing'
      <3>1. an'.index = Len(trail[lv + 1]) /\ an'.out = {} /\ an'.removed = {}
        BY <2>14
      <3>2. vars_of({}) = {}
        BY DEF vars_of
      <3>3. Last(trail') = trail[lv + 1]
        BY <2>13
      <3>4. an'.index <= Len(Last(trail'))
        BY <3>1, <3>3, <2>15
      <3>5. seen' = vars_of(Root') \cup vars_of({}) \cup vars_of(Marked') \cup {}
        BY <3>2, <2>20, <2>22, <2>23
      <3> QED
        BY <3>1, <3>4, <3>5 DEF Analyzing
    <2>25. \A q \in C : -q \in a1
      BY <2>3, <2>5 DEF a1
    <2>26. Resolving'
      <3>1. an'.expl = C /\ an'.out = {} /\ an'.removed = {} /\ an'.pathC = 0 /\ an'.last = NoReason
        BY <2>14
      <3>2. an'.pathC = Cardinality(Marked')
        BY <3>1, <2>23, FS_EmptySet
      <3>3. Nogood(t1, R1, rem, C)
        BY <2>3, <2>4, <2>9, <2>25, <1>3, <1>4, NogoodCut
      <3>4. Nogood(trail, reason, Remaining, an.out \cup neg(Marked) \cup an.expl)'
        <4>1. neg(Marked') = {}
          BY <2>23 DEF neg
        <4>2. (an.out \cup neg(Marked) \cup an.expl)' = C
          BY <4>1, <3>1 DEF neg
        <4>3. Hidden' = Hidden
          BY Carried
        <4> QED
          BY <4>2, <4>3, <3>3, <2>7, <1>6 DEF Nogood, HoldsIn
      <3>5. \A q \in C : isFalse(q)' /\ (-q \in Elems(Last(trail')) => -q \in Walked')
        BY <2>7, <2>21, <2>25 DEF isFalse
      <3>6. \E q \in C : -q \in Walked'
        BY <2>5, <2>18, <2>21
      <3> QED
        BY <3>1, <3>2, <3>4, <3>5, <3>6 DEF Resolving
    <2>27. Selecting' /\ Learning'
      BY <2>1 DEF Selecting, Learning
    <2> QED
      BY <2>1, <2>12, <2>13, <2>16, <2>17, <2>24, <2>26, <2>27, <1>1, <1>6, Examined
  <1> QED
    BY <1>7, <1>8

-----------------------------------------------------------------------------
(* What conflict analysis has marked. *)

LEMMA LitFinite ==
  ASSUME given \in DOMAIN Runs, NEW S \in SUBSET Lit
  PROVE  IsFiniteSet(S)
  <1>1. Var \in SUBSET Lit /\ IsFiniteSet(Var)
    BY LitFacts
  <1>2. IsFiniteSet(neg(Var))
    BY <1>1, NegFacts
  <1>3. IsFiniteSet(Var \cup neg(Var))
    BY <1>1, <1>2, FS_Union
  <1>4. Lit = Var \cup neg(Var)
    BY DEF Lit, LitSets, LitOf, Var
  <1> QED
    BY <1>3, <1>4, FS_Subset

LEMMA NegCardinality ==
  ASSUME given \in DOMAIN Runs, NEW S \in SUBSET Lit
  PROVE  Cardinality(neg(S)) = Cardinality(S)
  <1> DEFINE f == [l \in S |-> -l]
  <1>1. \A l \in S : -(-l) = l
    BY LitFacts
  <1>2. f \in Bijection(S, neg(S))
    <2>1. f \in [S -> neg(S)]
      BY DEF neg
    <2>2. \A k, l \in S : f[k] = f[l] => k = l
      <3> TAKE k, l \in S
      <3>1. f[k] = -k /\ f[l] = -l
        OBVIOUS
      <3> QED
        BY <3>1, <1>1
    <2>3. \A q \in neg(S) : \E l \in S : f[l] = q
      BY DEF neg
    <2> QED
      BY <2>1, <2>2, <2>3 DEF Bijection, Injection, Surjection, IsInjective
  <1>3. IsFiniteSet(S)
    BY LitFinite
  <1> QED
    BY <1>2, <1>3, FS_Bijection DEF ExistsBijection

LEMMA AnalysisFacts ==
  ASSUME SatInv, pc \in {"resolve", "select", "learn"}
  PROVE  /\ given \in DOMAIN Runs /\ trail \in Seq(Seq(Lit)) /\ Len(trail) \in Nat /\ Len(trail) > 1
         /\ assigns \in SUBSET Lit /\ reason \in [Var -> Reason] /\ seen \subseteq Var
         /\ TrailRight(trail, assigns) /\ HiddenRight(trail, assigns, reason)
         /\ \A m \in Remaining : m \in Models /\ Root \subseteq m
         /\ Elems(Last(trail)) \subseteq Deep /\ Deep \subseteq assigns
         /\ Walked \subseteq Elems(Last(trail)) /\ Marked \subseteq Walked /\ Marked \in SUBSET Lit
         /\ an \in Analysis /\ an.out \in SUBSET Lit /\ an.expl \in SUBSET Lit /\ an.index \in Nat /\ an.pathC \in Int
         /\ an.index <= Len(Last(trail)) /\ Len(Last(trail)) \in Nat
         /\ DOMAIN Last(trail) = 1 .. Len(Last(trail))
         /\ \A q \in an.out : -q \in Deep \ Elems(Last(trail))
         /\ seen = vars_of(Root) \cup vars_of(an.out) \cup vars_of(Marked) \cup an.removed
  <1>1. /\ given \in DOMAIN Runs /\ StackTyped(trail, assigns, reason, clause, rtrail) /\ seen \subseteq Var
        /\ an \in Analysis /\ Remaining \in SUBSET Models
    BY SatParts, TypedNow
  <1>2. /\ trail \in Seq(Seq(Lit)) /\ Len(trail) > 0 /\ assigns \in SUBSET Lit /\ reason \in [Var -> Reason]
    BY <1>1 DEF StackTyped
  <1>3. /\ TrailRight(trail, assigns) /\ HiddenRight(trail, assigns, reason)
        /\ \A m \in Remaining : Root \subseteq m
    BY SatParts DEF StackRight, RootRight, Root, Deep
  <1>4. Len(trail) \in Nat /\ Len(trail) > 1
    <2>1. Len(trail) - 1 > 0
      BY SatParts DEF Phases, decisionLevel
    <2> QED
      BY <2>1, <1>2
  <1>5. Elems(Last(trail)) \subseteq Deep /\ Deep \subseteq assigns
    BY <1>1, <1>2, <1>3, <1>4, LastTrue DEF Deep
  <1>6. /\ an.index <= Len(Last(trail))
        /\ \A q \in an.out : -q \in Deep \ Elems(Last(trail))
        /\ seen = vars_of(Root) \cup vars_of(an.out) \cup vars_of(Marked) \cup an.removed
    BY SatParts DEF Analyzing
  <1>7. /\ an.out \in SUBSET Lit /\ an.expl \in SUBSET Lit /\ an.index \in Nat /\ an.pathC \in Int
    BY <1>1 DEF Analysis
  <1>8. DOMAIN Last(trail) = 1 .. Len(Last(trail)) /\ Len(Last(trail)) \in Nat
    BY <1>2, LastPlaces
  <1>9. Walked \subseteq Elems(Last(trail))
    <2> SUFFICES ASSUME NEW i \in 1 .. an.index PROVE Last(trail)[i] \in Elems(Last(trail))
      BY DEF Walked
    <2>1. i \in DOMAIN Last(trail)
      BY <1>6, <1>7, <1>8
    <2> QED
      BY <2>1 DEF Elems
  <1>10. Marked \subseteq Walked /\ Marked \in SUBSET Lit
    BY <1>2, <1>5, <1>9 DEF Marked
  <1> QED
    BY <1>1, <1>2, <1>3, <1>4, <1>5, <1>6, <1>7, <1>8, <1>9, <1>10

(* A false literal of a seen variable is one of the root, one to learn, one   *)
(* still to be explained, or one that has been explained away.               *)
LEMMA SeenSplit ==
  ASSUME SatInv, pc \in {"resolve", "select", "learn"}, NEW q \in Lit, -q \in assigns
  PROVE  var(q) \in seen <=> (-q \in Root \/ q \in an.out \/ -q \in Marked \/ var(q) \in an.removed)
  <1>1. /\ given \in DOMAIN Runs /\ assigns \in SUBSET Lit /\ TrailRight(trail, assigns)
        /\ Deep \subseteq assigns /\ Elems(Last(trail)) \subseteq Deep
        /\ Walked \subseteq Elems(Last(trail)) /\ Marked \subseteq Walked /\ Marked \in SUBSET Lit
        /\ an.out \in SUBSET Lit /\ \A l \in an.out : -l \in Deep \ Elems(Last(trail))
        /\ seen = vars_of(Root) \cup vars_of(an.out) \cup vars_of(Marked) \cup an.removed
    BY AnalysisFacts
  <1>2. Root \in SUBSET Lit /\ Root \subseteq assigns
    BY <1>1 DEF Root
  <1>3. q \notin assigns
    BY <1>1 DEF TrailRight
  <1>4. var(q) \in vars_of(Root) <=> -q \in Root
    <2>1. var(q) \in vars_of(Root) <=> (q \in Root \/ -q \in Root)
      BY <1>1, <1>2, NegFacts
    <2> QED
      BY <2>1, <1>2, <1>3
  <1>5. var(q) \in vars_of(Marked) <=> -q \in Marked
    <2>1. var(q) \in vars_of(Marked) <=> (q \in Marked \/ -q \in Marked)
      BY <1>1, NegFacts
    <2> QED
      BY <2>1, <1>1, <1>3
  <1>6. var(q) \in vars_of(an.out) <=> q \in an.out
    <2>1. var(q) \in vars_of(an.out) <=> (q \in an.out \/ -q \in an.out)
      BY <1>1, NegFacts
    <2>2. -q \notin an.out
      <3> SUFFICES ASSUME -q \in an.out PROVE FALSE
        OBVIOUS
      <3>1. -(-q) \in Deep
        BY <1>1
      <3>2. -(-q) = q
        BY <1>1, LitFacts
      <3> QED
        BY <3>1, <3>2, <1>1, <1>3
    <2> QED
      BY <2>1, <2>2
  <1> QED
    BY <1>1, <1>4, <1>5, <1>6

(* What is false of the root is no reason for a model to be missed. *)
LEMMA NotOfRoot ==
  ASSUME SatInv, pc \in {"resolve", "select", "learn"}, NEW m \in Remaining, NEW q \in Lit,
         HoldsIn(trail, reason, m, q)
  PROVE  -q \notin Root
  <1> SUFFICES ASSUME -q \in Root PROVE FALSE
    OBVIOUS
  <1>1. given \in DOMAIN Runs /\ m \in Models /\ Root \subseteq m
    BY AnalysisFacts
  <1>2. -q \notin DeepOf(trail)
    BY DEF Root, Deep
  <1>3. q \in m
    BY <1>2 DEF HoldsIn
  <1> QED
    BY <1>1, <1>3, ModelFacts

LEMMA resolveKeeps ==
  ASSUME SatInv, resolve, given' = given
  PROVE  SatInv'
  <1> DEFINE rem == Remaining
             new == {q \in an.expl : var(q) \notin seen}
             cur == {q \in new : isCurLevel(var(q))}
             t == trail
             a == assigns
             out1 == an.out \cup (new \ cur)
             Marked1 == Marked \cup neg(cur)
  <1>1. /\ pc = "resolve" /\ seen' = seen \cup vars_of(new)
        /\ an' = [an EXCEPT !.pathC = @ + Cardinality(cur), !.out = out1]
        /\ pc' = "select"
        /\ UNCHANGED <<loaded, clause, learnts, watches, assigns, trail, qhead, rtrail, reason, confl, todo, budget, solutions, found>>
    BY DEF resolve, db, stack
  <1>2. /\ Typed /\ Phases /\ Resolving
        /\ StackRight(trail, assigns, reason, clause, rtrail, rem)
        /\ StoreRight(clause, watches, learnts, rtrail, rem)
    BY SatParts
  <1>3. /\ StackTyped(trail, assigns, reason, clause, rtrail)
        /\ DOMAIN clause \subseteq 1..MaxClause /\ loaded \in 0 .. Len(Problem)
        /\ learnts \subseteq 1..MaxClause /\ watches \in [Lit -> SUBSET WatchElem]
        /\ qhead \in Seq(Nat) /\ Len(qhead) = Len(trail)
        /\ confl \in Reason /\ todo \subseteq WatchElem
        /\ solutions \in Nat /\ budget \in Int /\ found \subseteq SUBSET Lit
    BY <1>2, TypedNow
  <1>4. pc \in {"resolve", "select", "learn"}
    BY <1>1
  <1>5. /\ given \in DOMAIN Runs /\ trail \in Seq(Seq(Lit)) /\ Len(trail) \in Nat /\ Len(trail) > 1
        /\ assigns \in SUBSET Lit /\ seen \subseteq Var /\ TrailRight(trail, assigns)
        /\ Elems(Last(trail)) \subseteq Deep /\ Deep \subseteq assigns
        /\ Walked \subseteq Elems(Last(trail)) /\ Marked \subseteq Walked /\ Marked \in SUBSET Lit
        /\ an \in Analysis /\ an.out \in SUBSET Lit /\ an.expl \in SUBSET Lit /\ an.index \in Nat /\ an.pathC \in Int
        /\ an.index <= Len(Last(trail))
        /\ \A q \in an.out : -q \in Deep \ Elems(Last(trail))
        /\ seen = vars_of(Root) \cup vars_of(an.out) \cup vars_of(Marked) \cup an.removed
    BY <1>4, AnalysisFacts
  <1>6. /\ an.removed = {} /\ an.pathC = Cardinality(Marked)
        /\ \A q \in an.expl : -q \in assigns /\ (-q \in Elems(Last(trail)) => -q \in Walked)
        /\ Marked # {} \/ \E q \in an.expl : -q \in Walked
        /\ an.last # NoReason => an.expl = Explanation(an.last)
        /\ Nogood(trail, reason, rem, an.out \cup neg(Marked) \cup an.expl)
    BY <1>1, <1>2 DEF Resolving, isFalse
  <1>7. an' = [index |-> an.index, pathC |-> an.pathC + Cardinality(cur), last |-> an.last, expl |-> an.expl,
               out |-> out1, p |-> an.p, removed |-> an.removed]
    BY <1>1, <1>5 DEF Analysis
  <1>8. Remaining' = rem
    BY <1>1, SameRemaining
  <1>9. new \in SUBSET Lit /\ cur \in SUBSET Lit /\ cur \subseteq new
    BY <1>5
  <1>10. \A q \in new : -q \in Deep /\ (q \in cur <=> -q \in Elems(Last(trail)))
    <2> TAKE q \in new
    <2>1. q \in Lit /\ -q \in assigns /\ var(-q) = var(q) /\ var(q) \notin seen
      BY <1>5, <1>6, <1>9, LitFacts
    <2>2. -q \notin Root
      BY <2>1, <1>4, SeenSplit
    <2>3. -q \in Deep
      BY <2>1, <2>2 DEF Root
    <2> DEFINE n == Len(trail) - 1
    <2>4. n \in 1 .. Len(trail) - 1 /\ n + 1 = Len(trail) /\ Len(trail) > 0
      BY <1>5
    <2>5. decisionLevel = n /\ Last(trail) = trail[Len(trail)]
      BY DEF decisionLevel, Last
    <2> HIDE DEF n
    <2>6. levelOf(var(-q)) = n <=> -q \in Elems(trail[n + 1])
      BY <2>1, <2>4, <1>5, Levels
    <2>7. isCurLevel(var(q)) <=> levelOf(var(-q)) = n
      BY <2>1, <2>5 DEF isCurLevel
    <2> QED
      BY <2>3, <2>4, <2>5, <2>6, <2>7
  <1> HIDE DEF new, cur
  <1>11. \A q \in cur : q \in Lit /\ -q \in Walked /\ -(-q) = q /\ var(-q) = var(q)
    <2>1. new \subseteq an.expl
      BY DEF new
    <2> QED
      BY <2>1, <1>5, <1>6, <1>9, <1>10, LitFacts
  <1>12. neg(cur) \subseteq Walked /\ neg(cur) \in SUBSET Lit
    BY <1>5, <1>9, <1>11, NegFacts DEF neg
  <1>13. Walked' = Walked
    BY <1>1, <1>7 DEF Walked
  <1>14. Marked' = Marked1
    <2>1. ASSUME NEW p \in Walked PROVE var(p) \in seen' <=> p \in Marked \/ p \in neg(cur)
      <3>1. p \in Lit /\ -p \in Lit /\ -(-p) = p /\ var(-p) = var(p) /\ p \in assigns /\ p \in Elems(Last(trail))
        BY <2>1, <1>5, LitFacts
      <3>2. var(p) \in seen <=> p \in Marked
        BY <2>1 DEF Marked
      <3>3. var(p) \in vars_of(new) <=> p \in new \/ -p \in new
        BY <3>1, <1>5, <1>9, NegFacts
      <3>4. p \notin new
        <4> SUFFICES ASSUME p \in new PROVE FALSE
          OBVIOUS
        <4>1. -p \in assigns
          BY <1>5, <1>10
        <4> QED
          BY <4>1, <3>1, <1>5 DEF TrailRight
      <3>5. -p \in new <=> -p \in cur
        BY <3>1, <1>9, <1>10
      <3>6. -p \in cur <=> p \in neg(cur)
        BY <3>1, <1>5, <1>9, NegFacts
      <3> QED
        BY <3>2, <3>3, <3>4, <3>5, <3>6, <1>1
    <2>2. Marked' = {p \in Walked : var(p) \in seen'}
      BY <1>13 DEF Marked
    <2> QED
      BY <2>1, <2>2, <1>5, <1>12
  <1>15. Cardinality(Marked1) = an.pathC + Cardinality(cur)
    <2>1. IsFiniteSet(Marked) /\ IsFiniteSet(neg(cur)) /\ Cardinality(neg(cur)) = Cardinality(cur)
      BY <1>5, <1>9, <1>12, LitFinite, NegCardinality
    <2>2. Marked \cap neg(cur) = {}
      <3> SUFFICES ASSUME NEW q \in cur, -q \in Marked PROVE FALSE
        BY DEF neg
      <3>1. var(q) \in seen
        BY <1>11 DEF Marked
      <3> QED
        BY <3>1, <1>9 DEF new
    <2>3. Cardinality(Marked \cap neg(cur)) = 0
      BY <2>2, FS_EmptySet
    <2>4. Cardinality(Marked1) = Cardinality(Marked) + Cardinality(neg(cur)) - Cardinality(Marked \cap neg(cur))
      BY <2>1, FS_Union
    <2>5. Cardinality(Marked) \in Nat /\ Cardinality(neg(cur)) \in Nat
      BY <2>1, FS_CardinalityType
    <2> QED
      BY <2>1, <2>3, <2>4, <2>5, <1>6
  <1>16. seen' = vars_of(Root) \cup vars_of(out1) \cup vars_of(Marked1)
    <2>1. vars_of(neg(cur)) = vars_of(cur)
      <3>1. \A q \in cur : var(-q) = var(q) /\ -q \in neg(cur)
        BY <1>11 DEF neg
      <3> QED
        BY <3>1 DEF vars_of, neg
    <2>2. vars_of(Marked1) = vars_of(Marked) \cup vars_of(cur)
      BY <2>1 DEF vars_of
    <2>3. vars_of(out1) = vars_of(an.out) \cup vars_of(new \ cur)
      BY DEF vars_of
    <2>4. vars_of(new) = vars_of(new \ cur) \cup vars_of(cur)
      BY <1>9 DEF vars_of
    <2> QED
      BY <2>2, <2>3, <2>4, <1>1, <1>5, <1>6
  <1>17. ASSUME NEW q \in an.expl PROVE -q \in Root \/ q \in out1 \/ -q \in Marked1
    <2>1. q \in Lit /\ -q \in assigns
      BY <1>5, <1>6
    <2>2. CASE var(q) \in seen
      <3>1. -q \in Root \/ q \in an.out \/ -q \in Marked
        BY <2>1, <2>2, <1>4, <1>6, SeenSplit
      <3> QED
        BY <3>1
    <2>3. CASE var(q) \notin seen
      <3>1. q \in new
        BY <2>3 DEF new
      <3> QED
        BY <3>1 DEF neg
    <2> QED
      BY <2>2, <2>3
  <1>18. Deep' = Deep /\ Root' = Root
    BY <1>1 DEF Deep, Root
  <1>19. out1 \in SUBSET Lit /\ \A q \in out1 : -q \in Deep \ Elems(Last(trail))
    BY <1>5, <1>9, <1>10
  <1>20. Marked1 \in SUBSET Lit
    BY <1>5, <1>12
  <1>21. IsFiniteSet(cur) /\ Cardinality(cur) \in Nat
    BY <1>5, <1>9, LitFinite, FS_CardinalityType
  <1> HIDE DEF rem, out1, Marked1
  <1>22. Typed'
    <2>1. an' \in Analysis
      <3>1. an.pathC + Cardinality(cur) \in Int
        BY <1>5, <1>21
      <3> QED
        BY <3>1, <1>5, <1>7, <1>19 DEF Analysis
    <2>2. seen' \subseteq Var
      <3>1. vars_of(new) \subseteq Var
        BY <1>5, <1>9, NegFacts
      <3> QED
        BY <3>1, <1>1, <1>5
    <2>3. pc' \in Phase
      BY <1>1 DEF Phase
    <2> QED
      BY <2>1, <2>2, <2>3, <1>1, <1>3, TypedNext
  <1>23. /\ an'.index = an.index /\ an'.out = out1 /\ an'.removed = {} /\ an'.last = an.last
         /\ an'.pathC = Cardinality(Marked1)
    BY <1>6, <1>7, <1>15
  <1>24. Analyzing'
    <2>1. an'.index <= Len(Last(trail'))
      BY <1>1, <1>5, <1>23
    <2>2. \A q \in an'.out : -q \in Deep' \ Elems(Last(trail'))
      BY <1>1, <1>18, <1>19, <1>23
    <2>3. seen' = vars_of(Root') \cup vars_of(an'.out) \cup vars_of(Marked') \cup an'.removed
      BY <1>14, <1>16, <1>18, <1>23
    <2> QED
      BY <2>1, <2>2, <2>3 DEF Analyzing
  <1>25. Selecting'
    <2>1. Marked1 # {}
      <3>1. CASE Marked # {}
        BY <3>1 DEF Marked1
      <3>2. ASSUME NEW q \in an.expl, -q \in Walked PROVE Marked1 # {}
        <4>1. -q \notin Root
          BY <3>2, <1>5 DEF Root
        <4>2. q \notin out1
          BY <3>2, <1>5, <1>19
        <4> QED
          BY <4>1, <4>2, <1>17
      <3> QED
        BY <3>1, <3>2, <1>6
    <2>2. an.last # NoReason => \A q \in Explanation(an.last) : -q \in Root \/ q \in out1 \/ -q \in Marked1
      BY <1>6, <1>17
    <2>3. Explanation(an.last)' = Explanation(an.last)
      BY <1>1, <1>23 DEF Explanation
    <2>4. Nogood(trail, reason, rem, out1 \cup neg(Marked1))
      <3> SUFFICES ASSUME NEW m \in rem PROVE \E q \in out1 \cup neg(Marked1) : HoldsIn(trail, reason, m, q)
        BY DEF Nogood
      <3>1. PICK q \in an.out \cup neg(Marked) \cup an.expl : HoldsIn(trail, reason, m, q)
        BY <1>6 DEF Nogood
      <3>2. CASE q \in an.out \cup neg(Marked)
        <4>1. q \in out1 \cup neg(Marked1)
          BY <3>2 DEF out1, Marked1, neg
        <4> QED
          BY <4>1, <3>1
      <3>3. CASE q \in an.expl
        <4>1. q \in Lit
          BY <3>3, <1>5
        <4>2. -q \notin Root
          BY <4>1, <3>1, <1>4, NotOfRoot DEF rem
        <4>3. q \in out1 \/ -q \in Marked1
          BY <4>2, <3>3, <1>17
        <4>4. q \in out1 \cup neg(Marked1)
          BY <4>1, <4>3, <1>5, <1>20, NegFacts
        <4> QED
          BY <4>4, <3>1
      <3> QED
        BY <3>1, <3>2, <3>3
    <2>5. Nogood(trail, reason, Remaining, an.out \cup neg(Marked))'
      <3>1. (an.out \cup neg(Marked))' = out1 \cup neg(Marked1)
        BY <1>14, <1>23 DEF neg
      <3>2. Hidden' = Hidden
        BY Carried
      <3> QED
        BY <3>1, <3>2, <2>4, <1>1, <1>8 DEF Nogood, HoldsIn
    <2> QED
      BY <2>1, <2>2, <2>3, <2>5, <1>14, <1>18, <1>23 DEF Selecting
  <1>26. Resolving' /\ Learning'
    BY <1>1 DEF Resolving, Learning
  <1>27. /\ StackRight(trail', assigns', reason', clause', rtrail', rem)
         /\ StoreRight(clause', watches', learnts', rtrail', rem)
    BY <1>1, <1>2
  <1>28. todo' = {} /\ Len(trail') > 1 /\ pc' = "select"
    BY <1>1, <1>2, <1>5 DEF Phases
  <1>29. confl'[1] = "clause" => confl'[2] \in DOMAIN clause'
    BY <1>1, SatParts DEF ConflictRight
  <1> QED
    BY <1>8, <1>22, <1>24, <1>25, <1>26, <1>27, <1>28, <1>29, Examined

(* A literal to learn whose variable is not learnable is implied by others of *)
(* lower levels that are not hidden.                                         *)
LEMMA HiddenExplained ==
  ASSUME SatInv, pc \in {"resolve", "select", "learn"}, NEW q \in an.out, var(q) \in Hidden
  PROVE  /\ reason[var(q)][1] = "lits" /\ reason[var(q)][2] \in SUBSET Lit
         /\ Explanation(reason[var(q)]) = reason[var(q)][2]
         /\ \A x \in reason[var(q)][2] : -x \in assigns /\ var(x) \notin Hidden /\ -x \notin Elems(Last(trail))
  <1>1. /\ given \in DOMAIN Runs /\ trail \in Seq(Seq(Lit)) /\ Len(trail) \in Nat /\ Len(trail) > 1
        /\ assigns \in SUBSET Lit /\ HiddenRight(trail, assigns, reason) /\ Deep \subseteq assigns
        /\ an.out \in SUBSET Lit /\ -q \in Deep \ Elems(Last(trail))
    BY AnalysisFacts
  <1>2. ReasonsRight(trail, assigns, reason, clause, rtrail, Remaining)
    BY SatParts DEF StackRight
  <1>3. q \in Lit /\ -q \in Lit /\ var(-q) = var(q) /\ -q \in assigns /\ -q \in DeepOf(trail)
    BY <1>1, LitFacts DEF Deep
  <1>4. PICK k \in Inference : -q \in k.heads /\ k.body \subseteq assigns /\ reason[var(q)] = <<"lits", neg(k.body)>>
    BY <1>1, <1>3 DEF HiddenRight
  <1>5. /\ k.body \subseteq Lit /\ \A x \in k.body : var(x) \notin Hidden
    BY <1>1, <1>3, <1>4, RunFacts
  <1>6. neg(k.body) \in SUBSET Lit /\ \A x \in neg(k.body) : x \in Lit /\ -x \in k.body /\ var(-x) = var(x)
    <2>1. k.body \in SUBSET Lit
      BY <1>5
    <2>2. neg(k.body) \in SUBSET Lit /\ \A x \in Lit : x \in neg(k.body) <=> -x \in k.body
      BY <2>1, <1>1, NegFacts
    <2> QED
      BY <2>2, <1>1, LitFacts
  <1>7. reason[var(q)][1] = "lits" /\ reason[var(q)][2] = neg(k.body) /\ reason[var(q)] # NoReason
    BY <1>4 DEF NoReason
  <1>8. PICK l \in 2 .. Len(trail) : \E i \in 1 .. Len(trail[l]) : trail[l][i] = -q
    BY <1>1, <1>3, Places
  <1>9. PICK i \in 1 .. Len(trail[l]) : trail[l][i] = -q
    BY <1>8
  <1>10. /\ DOMAIN trail = 1 .. Len(trail) /\ l \in 1 .. Len(trail) /\ Len(trail[l]) \in Nat
         /\ DOMAIN trail[l] = 1 .. Len(trail[l]) /\ Last(trail) = trail[Len(trail)]
    BY <1>1, Places DEF Last
  <1>11. l # Len(trail) /\ ~ (Len(trail) < l)
    <2>1. l # Len(trail)
      BY <1>1, <1>9, <1>10 DEF Elems
    <2>2. ~ (Len(trail) < l)
      BY <1>1, <1>10
    <2> QED
      BY <2>1, <2>2
  <1>12. i \in 2 .. Len(trail[l])
    <2>1. i # 1
      BY <1>2, <1>3, <1>9 DEF ReasonsRight
    <2> QED
      BY <2>1, <1>10
  <1>13. Implied(trail, assigns, reason, clause, rtrail, Remaining, l, i)
    BY <1>2, <1>12 DEF ReasonsRight
  <1>14. ExplanationIn(clause, reason[var(q)]) = neg(k.body)
    BY <1>7 DEF ExplanationIn
  <1>15. Explanation(reason[var(q)]) = neg(k.body)
    BY <1>7 DEF Explanation
  <1>16. ASSUME NEW x \in neg(k.body) PROVE -x \notin Elems(Last(trail))
    <2> SUFFICES ASSUME NEW j \in DOMAIN trail[Len(trail)], trail[Len(trail)][j] = -x PROVE FALSE
      BY <1>10 DEF Elems
    <2>1. Precedes(trail, assigns, -x, l, i)
      BY <1>3, <1>9, <1>13, <1>14 DEF Implied
    <2>2. Len(trail) \in DOMAIN trail
      BY <1>1, <1>10
    <2>3. Len(trail) < l \/ Len(trail) = l
      BY <2>1, <2>2 DEF Precedes
    <2> QED
      BY <2>3, <1>11
  <1> QED
    BY <1>4, <1>5, <1>6, <1>7, <1>15, <1>16

LEMMA explainUnlearnableKeeps ==
  ASSUME SatInv, explainUnlearnable, given' = given
  PROVE  SatInv'
  <1> DEFINE rem == Remaining
  <1>1. PICK q \in Unlearnable :
          /\ an' = [an EXCEPT !.out = (@ \ {q}) \cup {l \in Explanation(reason[var(q)]) : var(l) \notin seen},
                              !.removed = @ \cup {var(q)}]
          /\ seen' = seen \cup vars_of({l \in Explanation(reason[var(q)]) : var(l) \notin seen})
    BY DEF explainUnlearnable
  <1> DEFINE why == reason[var(q)][2]
             new == {l \in why : var(l) \notin seen}
             out1 == (an.out \ {q}) \cup new
             removed1 == an.removed \cup {var(q)}
  <1>2. /\ pc = "learn" /\ pc \in {"resolve", "select", "learn"}
        /\ UNCHANGED <<pc, loaded, clause, learnts, watches, assigns, trail, qhead, rtrail, reason, confl, todo, budget, solutions, found>>
    BY DEF explainUnlearnable, db, stack
  <1>3. /\ Typed /\ Phases /\ Learning
        /\ StackRight(trail, assigns, reason, clause, rtrail, rem)
        /\ StoreRight(clause, watches, learnts, rtrail, rem)
    BY SatParts
  <1>4. /\ StackTyped(trail, assigns, reason, clause, rtrail)
        /\ DOMAIN clause \subseteq 1..MaxClause /\ loaded \in 0 .. Len(Problem) /\ pc \in Phase
        /\ learnts \subseteq 1..MaxClause /\ watches \in [Lit -> SUBSET WatchElem]
        /\ qhead \in Seq(Nat) /\ Len(qhead) = Len(trail)
        /\ confl \in Reason /\ todo \subseteq WatchElem
        /\ solutions \in Nat /\ budget \in Int /\ found \subseteq SUBSET Lit
    BY <1>3, TypedNow
  <1>5. /\ given \in DOMAIN Runs /\ trail \in Seq(Seq(Lit)) /\ Len(trail) \in Nat /\ Len(trail) > 1
        /\ assigns \in SUBSET Lit /\ seen \subseteq Var /\ TrailRight(trail, assigns)
        /\ HiddenRight(trail, assigns, reason)
        /\ \A m \in rem : m \in Models /\ Root \subseteq m
        /\ Elems(Last(trail)) \subseteq Deep /\ Deep \subseteq assigns
        /\ Walked \subseteq Elems(Last(trail)) /\ Marked \subseteq Walked /\ Marked \in SUBSET Lit
        /\ an \in Analysis /\ an.out \in SUBSET Lit
        /\ an.index <= Len(Last(trail))
        /\ \A l \in an.out : -l \in Deep \ Elems(Last(trail))
        /\ seen = vars_of(Root) \cup vars_of(an.out) \cup vars_of(Marked) \cup an.removed
    BY <1>2, AnalysisFacts
  <1>6. /\ Marked = {} /\ an.p \in Elems(Last(trail)) /\ var(an.p) \notin Hidden
        /\ an.removed \subseteq vars_of(Deep) /\ an.removed \subseteq Hidden
        /\ Nogood(trail, reason, rem, an.out \cup {-an.p})
    BY <1>2, <1>3 DEF Learning
  <1>7. q \in an.out /\ var(q) \in Hidden
    BY DEF Unlearnable
  <1>8. /\ why \in SUBSET Lit /\ Explanation(reason[var(q)]) = why
        /\ \A x \in why : -x \in assigns /\ var(x) \notin Hidden /\ -x \notin Elems(Last(trail))
    BY <1>2, <1>7, HiddenExplained
  <1>9. seen' = seen \cup vars_of(new)
    BY <1>1, <1>8
  <1>10. an' = [index |-> an.index, pathC |-> an.pathC, last |-> an.last, expl |-> an.expl,
                out |-> out1, p |-> an.p, removed |-> removed1]
    BY <1>1, <1>5, <1>8 DEF Analysis
  <1>11. Remaining' = rem
    BY <1>2, SameRemaining
  <1> HIDE DEF why
  <1>12. new \in SUBSET Lit /\ \A x \in new : x \in why /\ -x \in Deep \ Elems(Last(trail))
    <2> SUFFICES ASSUME NEW x \in new PROVE x \in Lit /\ -x \in Deep /\ -x \notin Elems(Last(trail))
      OBVIOUS
    <2>1. x \in Lit /\ -x \in assigns /\ var(x) \notin seen /\ -x \notin Elems(Last(trail))
      BY <1>8
    <2>2. -x \notin Root
      BY <2>1, <1>2, SeenSplit
    <2> QED
      BY <2>1, <2>2 DEF Root
  <1>13. ASSUME NEW x \in why, -x \notin Root PROVE x \in out1
    <2>1. x \in Lit /\ -x \in assigns /\ var(x) \notin Hidden
      BY <1>8
    <2>2. CASE var(x) \in seen
      <3>1. x \in an.out
        BY <2>1, <2>2, <1>2, <1>6, <1>13, SeenSplit
      <3> QED
        BY <3>1, <2>1, <1>7
    <2>3. CASE var(x) \notin seen
      BY <2>3
    <2> QED
      BY <2>2, <2>3
  <1>14. q \in Lit /\ var(q) \in Var /\ var(q) \in vars_of(Deep)
    <2>1. q \in Lit /\ -q \in Deep /\ var(-q) = var(q)
      BY <1>5, <1>7, LitFacts
    <2>2. var(-q) \in vars_of(Deep)
      BY <2>1 DEF vars_of
    <2> QED
      BY <2>1, <2>2, <1>5, LitFacts
  <1> HIDE DEF rem, new
  <1>15. Typed'
    <2>1. an' \in Analysis
      BY <1>5, <1>10, <1>12, <1>14 DEF Analysis
    <2>2. seen' \subseteq Var
      <3>1. vars_of(new) \subseteq Var
        BY <1>5, <1>12, NegFacts
      <3> QED
        BY <3>1, <1>5, <1>9
    <2> QED
      BY <2>1, <2>2, <1>2, <1>4, TypedNext
  <1>16. Deep' = Deep /\ Root' = Root /\ Walked' = Walked
    BY <1>2, <1>10 DEF Deep, Root, Walked
  <1>17. Marked' = {}
    <2> SUFFICES ASSUME NEW w \in Walked, var(w) \in seen' PROVE FALSE
      BY <1>16 DEF Marked
    <2>1. w \in Lit /\ -w \in Lit /\ -(-w) = w /\ w \in assigns /\ w \in Elems(Last(trail))
      BY <1>5, LitFacts
    <2>2. var(w) \in vars_of(new)
      BY <1>6, <1>9 DEF Marked
    <2>3. w \in new \/ -w \in new
      BY <2>1, <2>2, <1>5, <1>12, NegFacts
    <2>4. w \notin new
      <3> SUFFICES ASSUME w \in new PROVE FALSE
        OBVIOUS
      <3>1. -w \in assigns
        BY <1>5, <1>12
      <3> QED
        BY <3>1, <2>1, <1>5 DEF TrailRight
    <2>5. -w \notin new
      <3> SUFFICES ASSUME -w \in new PROVE FALSE
        OBVIOUS
      <3>1. -(-w) \notin Elems(Last(trail))
        BY <1>12
      <3> QED
        BY <3>1, <2>1
    <2> QED
      BY <2>3, <2>4, <2>5
  <1>18. seen' = vars_of(Root) \cup vars_of(out1) \cup removed1
    <2>1. vars_of(an.out) = vars_of(an.out \ {q}) \cup {var(q)}
      BY <1>7 DEF vars_of
    <2>2. vars_of(out1) = vars_of(an.out \ {q}) \cup vars_of(new)
      BY DEF vars_of
    <2>3. vars_of(Marked) = {}
      BY <1>6 DEF vars_of
    <2> QED
      BY <2>1, <2>2, <2>3, <1>5, <1>9
  <1>19. Nogood(trail, reason, rem, out1 \cup {-an.p})
    <2> SUFFICES ASSUME NEW m \in rem PROVE \E x \in out1 \cup {-an.p} : HoldsIn(trail, reason, m, x)
      BY DEF Nogood
    <2>1. PICK x \in an.out \cup {-an.p} : HoldsIn(trail, reason, m, x)
      BY <1>6 DEF Nogood
    <2>2. CASE x # q
      BY <2>1, <2>2
    <2>3. CASE x = q
      <3>1. -q \in DeepOf(trail)
        BY <1>5, <1>7 DEF Deep
      <3>2. m \cap why # {}
        BY <2>1, <2>3, <3>1, <1>7 DEF HoldsIn, why
      <3>3. PICK y \in why : y \in m
        BY <3>2
      <3>4. y \in Lit /\ -y \in assigns /\ m \in Models
        BY <1>5, <1>8
      <3>5. HoldsIn(trail, reason, m, y)
        BY <3>3, <3>4, <1>5, Plain
      <3>6. -y \notin Root
        BY <3>4, <3>5, <1>2, NotOfRoot DEF rem
      <3> QED
        BY <3>5, <3>6, <1>13
    <2> QED
      BY <2>2, <2>3
  <1>20. /\ an'.index = an.index /\ an'.out = out1 /\ an'.removed = removed1 /\ an'.p = an.p
    BY <1>10
  <1>21. out1 \subseteq an.out \cup new
    OBVIOUS
  <1> HIDE DEF out1, removed1
  <1>22. Analyzing'
    <2>1. an'.index <= Len(Last(trail'))
      BY <1>2, <1>5, <1>20
    <2>2. \A l \in an'.out : -l \in Deep' \ Elems(Last(trail'))
      BY <1>2, <1>5, <1>12, <1>16, <1>20, <1>21
    <2>3. seen' = vars_of(Root') \cup vars_of(an'.out) \cup vars_of(Marked') \cup an'.removed
      <3>1. vars_of({}) = {}
        BY DEF vars_of
      <3> QED
        BY <3>1, <1>16, <1>17, <1>18, <1>20
    <2> QED
      BY <2>1, <2>2, <2>3 DEF Analyzing
  <1>23. Learning'
    <2>1. Hidden' = Hidden
      BY Carried
    <2>2. Nogood(trail, reason, Remaining, an.out \cup {-an.p})'
      BY <2>1, <1>2, <1>11, <1>19, <1>20 DEF Nogood, HoldsIn
    <2>3. an'.removed \subseteq vars_of(Deep) /\ an'.removed \subseteq Hidden
      BY <1>6, <1>7, <1>14, <1>20 DEF removed1
    <2>4. vars_of(Deep)' = vars_of(Deep)
      BY <1>16 DEF vars_of
    <2> QED
      BY <2>1, <2>2, <2>3, <2>4, <1>2, <1>6, <1>17, <1>20 DEF Learning
  <1>24. Resolving' /\ Selecting'
    BY <1>2 DEF Resolving, Selecting
  <1>25. /\ StackRight(trail', assigns', reason', clause', rtrail', rem)
         /\ StoreRight(clause', watches', learnts', rtrail', rem)
    BY <1>2, <1>3
  <1>26. todo' = {} /\ Len(trail') > 1 /\ pc' = "learn"
    BY <1>2, <1>3, <1>5 DEF Phases
  <1> QED
    BY <1>11, <1>15, <1>22, <1>23, <1>24, <1>25, <1>26, Examined

-----------------------------------------------------------------------------
(* The literal that is explained next. *)

(* A level undone from some place on. *)
ShortenedTo(t, k) == [t EXCEPT ![Len(t)] = SubSeq(Last(t), 1, k)]
GoneFrom(t, k) == {Last(t)[i] : i \in k + 1 .. Len(Last(t))}

LEMMA LazyCut ==
  ASSUME given \in DOMAIN Runs, NEW t \in Seq(Seq(Lit)), Len(t) > 1, \A l \in 2 .. Len(t) : t[l] # <<>>,
         NEW a \in SUBSET Lit, NEW k \in Nat, k >= 1, k <= Len(Last(t))
  PROVE  /\ CutOf(t, a, ShortenedTo(t, k), a \ GoneFrom(t, k))
         /\ Last(ShortenedTo(t, k)) = SubSeq(Last(t), 1, k)
         /\ GoneFrom(t, k) \subseteq Elems(Last(t))
  <1> DEFINE n == Len(t)
             b == Last(t)
             t1 == ShortenedTo(t, k)
             G == GoneFrom(t, k)
  <1>1. /\ n \in Nat /\ n > 1 /\ DOMAIN t = 1 .. n /\ b = t[n] /\ b \in Seq(Lit) /\ Len(b) \in Nat
        /\ \A l \in 1 .. n : t[l] \in Seq(Lit) /\ Len(t[l]) \in Nat
    BY Places DEF Last
  <1> DEFINE c == SubSeq(b, 1, k)
  <1>2. /\ c \in Seq(Lit) /\ Len(c) = k /\ c # <<>>
        /\ \A i \in 1 .. k : c[i] = b[i]
    <2>1. k <= Len(b) /\ k \in Nat /\ k >= 1
      OBVIOUS
    <2> HIDE DEF b
    <2>2. c \in Seq(Lit) /\ Len(c) = k /\ \A i \in 1 .. k : c[i] = b[i]
      BY <2>1, <1>1
    <2> HIDE DEF c
    <2> QED
      BY <2>1, <2>2
  <1>3. /\ t1 \in Seq(Seq(Lit)) /\ Len(t1) = n /\ t1[n] = c
        /\ \A l \in 1 .. n - 1 : t1[l] = t[l]
    <2>1. t1 = [t EXCEPT ![n] = c]
      BY DEF ShortenedTo
    <2> HIDE DEF t1, c, n
    <2>2. n \in DOMAIN t /\ Len(t) = n
      BY <1>1 DEF n
    <2>3. t1 \in Seq(Seq(Lit)) /\ Len(t1) = n
      BY <2>1, <2>2, <1>1, <1>2
    <2>4. t1[n] = c /\ \A l \in 1 .. n - 1 : t1[l] = t[l]
      BY <2>1, <2>2, <1>1
    <2> QED
      BY <2>3, <2>4
  <1>4. G = {b[i] : i \in k + 1 .. Len(b)}
    BY DEF GoneFrom
  <1> HIDE DEF n, b, t1, G, c
  <1>5. \A l \in 1 .. n : l = n \/ l \in 1 .. n - 1
    BY <1>1
  <1>6. \A l \in 1 .. n : Len(t1[l]) <= Len(t[l]) /\ \A i \in 1 .. Len(t1[l]) : t1[l][i] = t[l][i]
    <2> TAKE l \in 1 .. n
    <2>1. CASE l = n
      <3>1. t1[l] = c /\ t[l] = b /\ Len(t1[l]) = k
        BY <2>1, <1>1, <1>2, <1>3
      <3>2. k <= Len(b)
        BY DEF b
      <3> QED
        BY <3>1, <3>2, <1>2
    <2>2. CASE l \in 1 .. n - 1
      <3>1. t1[l] = t[l] /\ Len(t[l]) \in Nat
        BY <2>2, <1>1, <1>3
      <3> QED
        BY <3>1
    <2> QED
      BY <2>1, <2>2, <1>5
  <1>7. \A l \in 2 .. n : t1[l] # <<>>
    <2> TAKE l \in 2 .. n
    <2>1. l = n \/ l \in 1 .. n - 1
      BY <1>1
    <2>2. t[l] # <<>>
      BY DEF n
    <2> QED
      BY <2>1, <2>2, <1>2, <1>3
  <1>8. ASSUME NEW q \in a PROVE q \in a \ G <=> ~ Gone(t, t1, q)
    <2>1. ASSUME q \in G PROVE Gone(t, t1, q)
      <3>1. PICK i \in k + 1 .. Len(b) : b[i] = q
        BY <2>1, <1>4
      <3>2. i \in 1 .. Len(b) /\ i > k /\ n \in 1 .. n
        BY <1>1
      <3>3. i > Len(t1[n])
        BY <3>2, <1>2, <1>3
      <3> QED
        BY <3>1, <3>2, <3>3, <1>1 DEF Gone, n
    <2>2. ASSUME Gone(t, t1, q) PROVE q \in G
      <3>1. PICK l \in 1 .. n : \E i \in 1 .. Len(t[l]) : t[l][i] = q /\ (l > n \/ i > Len(t1[l]))
        BY <2>2, <1>3 DEF Gone, n
      <3>2. PICK i \in 1 .. Len(t[l]) : t[l][i] = q /\ (l > n \/ i > Len(t1[l]))
        BY <3>1
      <3>3. ~ (l > n)
        BY <1>1
      <3>4. l = n
        <4> SUFFICES ASSUME l \in 1 .. n - 1 PROVE FALSE
          BY <1>5
        <4>1. i > Len(t[l]) /\ Len(t[l]) \in Nat
          BY <3>2, <3>3, <1>1, <1>3
        <4> QED
          BY <4>1
      <3>5. i > k /\ i \in 1 .. Len(b) /\ b[i] = q
        BY <3>2, <3>3, <3>4, <1>1, <1>2, <1>3
      <3>6. i \in k + 1 .. Len(b)
        BY <3>5, <1>1
      <3> QED
        BY <3>5, <3>6, <1>4
    <2> QED
      BY <2>1, <2>2
  <1>9. CutOf(t, a, t1, a \ G)
    <2>1. n \in 1 .. n /\ n # 1
      BY <1>1
    <2>2. Len(t1) \in 1 .. Len(t) /\ Len(t1) # 1
      BY <2>1, <1>3 DEF n
    <2> QED
      BY <2>2, <1>3, <1>6, <1>7, <1>8 DEF CutOf, n
  <1>10. G \subseteq Elems(b)
    <2>1. \A i \in k + 1 .. Len(b) : i \in DOMAIN b
      BY <1>1
    <2> QED
      BY <2>1, <1>4 DEF Elems
  <1>11. Last(t1) = c
    BY <1>3 DEF Last
  <1> QED
    BY <1>9, <1>10, <1>11 DEF t1, G, b, c


(* What is left of the level up to index, whether a lazy reason undid the     *)
(* rest of it or not.                                                        *)
Shortens(index, t1, a1, R1) ==
  /\ StackTyped(t1, a1, R1, clause, rtrail)
  /\ StackRight(t1, a1, R1, clause, rtrail, Remaining)
  /\ CutOf(trail, assigns, t1, a1) /\ SameReasons(a1, reason, R1)
  /\ Len(t1) = Len(trail) /\ index <= Len(Last(t1))
  /\ \A i \in 1 .. index : Last(t1)[i] = Last(trail)[i]
  /\ Elems(Last(t1)) \subseteq Elems(Last(trail))
  /\ \A w \in assigns :
       w \notin Elems(Last(trail)) \/ (\E i \in 1 .. index : w = Last(trail)[i]) => w \in a1

LEMMA NotShortened ==
  ASSUME SatInv, pc \in {"resolve", "select", "learn"}, NEW index \in Nat, index <= Len(Last(trail))
  PROVE  Shortens(index, trail, assigns, reason)
  <1>1. /\ StackTyped(trail, assigns, reason, clause, rtrail)
        /\ StackRight(trail, assigns, reason, clause, rtrail, Remaining)
    BY SatParts, TypedNow
  <1>2. trail \in Seq(Seq(Lit)) /\ Len(trail) > 0
    BY <1>1 DEF StackTyped
  <1>3. CutOf(trail, assigns, trail, assigns)
    BY <1>1, <1>2, CutSame
  <1> QED
    BY <1>1, <1>3 DEF Shortens, SameReasons

LEMMA LevelShortened ==
  ASSUME SatInv, pc \in {"resolve", "select", "learn"}, NEW index \in Nat, index >= 1, index <= Len(Last(trail))
  PROVE  Shortens(index, ShortenedTo(trail, index), assigns \ GoneFrom(trail, index),
                  ForgetIn(reason, GoneFrom(trail, index)))
  <1> DEFINE t1 == ShortenedTo(trail, index)
             G == GoneFrom(trail, index)
             a1 == assigns \ G
             R1 == ForgetIn(reason, G)
             b == Last(trail)
             M == clause
  <1>1. /\ StackTyped(trail, assigns, reason, M, rtrail)
        /\ StackRight(trail, assigns, reason, M, rtrail, Remaining)
    BY SatParts, TypedNow
  <1>2. /\ given \in DOMAIN Runs /\ trail \in Seq(Seq(Lit)) /\ Len(trail) \in Nat /\ Len(trail) > 1
        /\ assigns \in SUBSET Lit /\ reason \in [Var -> Reason] /\ TrailRight(trail, assigns)
        /\ Elems(b) \subseteq Deep /\ Deep \subseteq assigns /\ Len(b) \in Nat /\ DOMAIN b = 1 .. Len(b)
    BY AnalysisFacts
  <1>3. \A l \in 2 .. Len(trail) : trail[l] # <<>>
    BY <1>1 DEF StackRight, ReasonsRight
  <1>4. CutOf(trail, assigns, t1, a1) /\ Last(t1) = SubSeq(b, 1, index) /\ G \subseteq Elems(b)
    BY <1>2, <1>3, LazyCut
  <1>5. SameReasons(a1, reason, R1)
    <2>1. G \in SUBSET assigns /\ \A p \in assigns : -p \notin assigns
      BY <1>2, <1>4 DEF TrailRight
    <2> QED
      BY <2>1, <1>2, ForgetSame
  <1>6. ReasonsKept(trail, t1, reason, M, rtrail, M, rtrail)
    BY DEF ReasonsKept
  <1>7. Len(t1) = Len(trail) /\ t1 \in Seq(Seq(Lit))
    <2>1. Len(t1) = Len(trail)
      BY <1>2 DEF ShortenedTo
    <2> QED
      BY <2>1, <1>4 DEF CutOf
  <1>8. b \in Seq(Lit)
    BY <1>2, LastPlaces
  <1>9. /\ Len(Last(t1)) = index /\ \A i \in 1 .. index : Last(t1)[i] = b[i]
        /\ Last(t1) \in Seq(Lit)
    <2>1. /\ Len(SubSeq(b, 1, index)) = index /\ \A i \in 1 .. index : SubSeq(b, 1, index)[i] = b[i]
          /\ SubSeq(b, 1, index) \in Seq(Lit)
      <3>1. index <= Len(b)
        OBVIOUS
      <3> HIDE DEF b
      <3> QED
        BY <3>1, <1>2, <1>8
    <2> HIDE DEF t1, b
    <2> QED
      BY <2>1, <1>4
  <1> HIDE DEF t1, G, R1, b
  <1>10. R1 \in [Var -> Reason]
    BY <1>2 DEF R1, ForgetIn, Reason
  <1>11. StackTyped(t1, a1, R1, M, rtrail)
    BY <1>1, <1>2, <1>7, <1>10 DEF StackTyped
  <1>12. StackRight(t1, a1, R1, M, rtrail, Remaining)
    <2>1. Remaining \in SUBSET Remaining
      OBVIOUS
    <2> QED
      BY <2>1, <1>1, <1>4, <1>5, <1>6, StackCut
  <1>13. Elems(Last(t1)) \subseteq Elems(b)
    <2>1. \A i \in 1 .. index : i \in 1 .. Len(b)
      BY <1>2 DEF b
    <2>2. DOMAIN Last(t1) = 1 .. index
      BY <1>9
    <2> QED
      BY <2>1, <2>2, <1>2, <1>9 DEF Elems
  <1>14. ASSUME NEW w \in assigns, w \notin Elems(b) \/ \E i \in 1 .. index : w = b[i] PROVE w \in a1
    <2> SUFFICES ASSUME w \in G PROVE FALSE
      OBVIOUS
    <2>1. PICK i \in 1 .. index : w = b[i]
      BY <1>4, <1>14
    <2>2. PICK j \in index + 1 .. Len(b) : w = b[j]
      BY DEF G, GoneFrom, b
    <2>3. i \in DOMAIN b /\ j \in DOMAIN b /\ i # j
      BY <1>2 DEF b
    <2> DEFINE n == Len(trail)
    <2>4. n \in DOMAIN trail /\ b = trail[n]
      BY <1>2, LastPlaces DEF b
    <2> HIDE DEF n
    <2>5. \A k, l \in DOMAIN trail[n] : trail[n][k] = trail[n][l] => k = l
      BY <2>4, <1>2 DEF TrailRight
    <2> QED
      BY <2>1, <2>2, <2>3, <2>4, <2>5
  <1> QED
    BY <1>4, <1>5, <1>7, <1>9, <1>11, <1>12, <1>13, <1>14 DEF Shortens, t1, G, R1, b

(* p, at place index + 1 of the level, is the last seen literal there.        *)
ChosenAt(index, p) ==
  /\ index = Highest({i \in 1 .. an.index : var(Last(trail)[i]) \in seen}) - 1
  /\ p = Last(trail)[index + 1]

ChosenRight(index, p) ==
  /\ index \in Nat /\ index + 1 \in 1 .. Len(Last(trail)) /\ p \in Marked
  /\ p \in Elems(Last(trail)) /\ p \in assigns /\ p \in Lit
  /\ \A i \in 1 .. index : Last(trail)[i] # p
  /\ {w \in {Last(trail)[i] : i \in 1 .. index} : var(w) \in seen \ {var(p)}} = Marked \ {p}
  /\ an.pathC - 1 = Cardinality(Marked \ {p})
  /\ (an.pathC = 1 => Marked \ {p} = {})
  /\ (an.pathC > 1 => Marked \ {p} # {})
  /\ seen \ {var(p)} = vars_of(Root) \cup vars_of(an.out) \cup vars_of(Marked \ {p})

LEMMA Chosen ==
  ASSUME SatInv, pc = "select", NEW index, NEW p, ChosenAt(index, p)
  PROVE  ChosenRight(index, p)
  <1> DEFINE b == Last(trail)
             I == {i \in 1 .. an.index : var(b[i]) \in seen}
             h == Highest(I)
  <1>1. /\ given \in DOMAIN Runs /\ trail \in Seq(Seq(Lit)) /\ Len(trail) \in Nat /\ Len(trail) > 1
        /\ assigns \in SUBSET Lit /\ seen \subseteq Var /\ TrailRight(trail, assigns)
        /\ Elems(b) \subseteq Deep /\ Deep \subseteq assigns
        /\ Walked \subseteq Elems(b) /\ Marked \subseteq Walked /\ Marked \in SUBSET Lit
        /\ an.out \in SUBSET Lit /\ an.index \in Nat /\ an.pathC \in Int
        /\ an.index <= Len(b) /\ Len(b) \in Nat /\ DOMAIN b = 1 .. Len(b)
        /\ \A q \in an.out : -q \in Deep \ Elems(b)
        /\ seen = vars_of(Root) \cup vars_of(an.out) \cup vars_of(Marked) \cup an.removed
    BY AnalysisFacts
  <1>2. an.removed = {} /\ an.pathC = Cardinality(Marked) /\ Marked # {}
    BY SatParts DEF Selecting
  <1>3. Walked = {b[i] : i \in 1 .. an.index}
    BY DEF Walked
  <1>4. \A i, j \in DOMAIN b : b[i] = b[j] => i = j
    <2> DEFINE n == Len(trail)
    <2>1. n \in DOMAIN trail /\ b = trail[n]
      BY <1>1, LastPlaces
    <2> HIDE DEF n, b
    <2>2. \A i, j \in DOMAIN trail[n] : trail[n][i] = trail[n][j] => i = j
      BY <2>1, <1>1 DEF TrailRight
    <2> QED
      BY <2>1, <2>2
  <1> HIDE DEF b
  <1>5. I # {}
    <2>1. PICK w \in Walked : var(w) \in seen
      BY <1>2 DEF Marked
    <2>2. PICK i \in 1 .. an.index : w = b[i]
      BY <2>1, <1>3
    <2> QED
      BY <2>1, <2>2
  <1>6. I \in SUBSET (0 .. an.index)
    OBVIOUS
  <1>7. h \in I /\ \A i \in I : i <= h
    <2> HIDE DEF I
    <2> QED
      BY <1>1, <1>5, <1>6, HighestFacts
  <1>8. index = h - 1 /\ p = b[index + 1]
    BY DEF ChosenAt, b
  <1> HIDE DEF h
  <1>9. h \in 1 .. an.index /\ var(b[h]) \in seen /\ h \in 1 .. Len(b)
    BY <1>1, <1>7
  <1>10. index \in Nat /\ index + 1 = h
    BY <1>8, <1>9
  <1>11. p = b[h]
    BY <1>8, <1>10
  <1>12. p \in Marked /\ p \in Elems(b) /\ p \in assigns /\ p \in Lit /\ p \in Deep
    <2>1. p \in Walked
      BY <1>3, <1>9, <1>11
    <2> QED
      BY <2>1, <1>1, <1>9, <1>11 DEF Marked
  <1>13. \A i \in 1 .. index : i \in DOMAIN b /\ i \in 1 .. an.index /\ i # h /\ b[i] # p
    <2> TAKE i \in 1 .. index
    <2>1. i \in 1 .. an.index /\ i \in DOMAIN b /\ i # h /\ h \in DOMAIN b
      BY <1>1, <1>9, <1>10
    <2> QED
      BY <2>1, <1>4, <1>11
  <1>14. \A w \in assigns : var(w) = var(p) => w = p
    <2> TAKE w \in assigns
    <2>1. w \in Lit
      BY <1>1
    <2>2. -p \notin assigns
      BY <1>1, <1>12 DEF TrailRight
    <2> QED
      BY <2>1, <2>2, <1>1, <1>12, LitFacts
  <1>15. {w \in {b[i] : i \in 1 .. index} : var(w) \in seen \ {var(p)}} = Marked \ {p}
    <2>1. ASSUME NEW i \in 1 .. index, var(b[i]) \in seen \ {var(p)} PROVE b[i] \in Marked \ {p}
      <3>1. b[i] \in Walked /\ b[i] # p
        BY <1>3, <1>13
      <3> QED
        BY <3>1, <2>1 DEF Marked
    <2>2. ASSUME NEW w \in Marked, w # p PROVE w \in {b[i] : i \in 1 .. index} /\ var(w) \in seen \ {var(p)}
      <3>1. w \in Walked /\ var(w) \in seen /\ w \in assigns
        BY <1>1 DEF Marked
      <3>2. PICK i \in 1 .. an.index : w = b[i]
        BY <3>1, <1>3
      <3>3. i \in I /\ i # h
        BY <3>1, <3>2, <2>2, <1>11
      <3>4. i \in 1 .. index
        BY <3>3, <1>7, <1>9, <1>10
      <3>5. var(w) # var(p)
        BY <3>1, <2>2, <1>14
      <3> QED
        BY <3>1, <3>2, <3>4, <3>5
    <2> QED
      BY <2>1, <2>2
  <1>16. IsFiniteSet(Marked) /\ IsFiniteSet(Marked \ {p})
    BY <1>1, LitFinite
  <1>17. /\ Cardinality(Marked \ {p}) = an.pathC - 1
    BY <1>2, <1>12, <1>16, FS_RemoveElement
  <1>18. an.pathC = 1 => Marked \ {p} = {}
    <2>1. an.pathC = 1 => Cardinality(Marked \ {p}) = 0
      BY <1>17
    <2> QED
      BY <2>1, <1>16, FS_EmptySet
  <1>19. an.pathC > 1 => Marked \ {p} # {}
    <2> SUFFICES ASSUME an.pathC > 1, Marked \ {p} = {} PROVE FALSE
      OBVIOUS
    <2>1. Cardinality(Marked \ {p}) = 0
      BY <1>16, FS_EmptySet
    <2> QED
      BY <2>1, <1>1, <1>17
  <1>20. seen \ {var(p)} = vars_of(Root) \cup vars_of(an.out) \cup vars_of(Marked \ {p})
    <2>1. var(p) \notin vars_of(Root)
      <3> SUFFICES ASSUME NEW w \in Root, var(w) = var(p) PROVE FALSE
        BY DEF vars_of
      <3> QED
        BY <1>12, <1>14 DEF Root
    <2>2. var(p) \notin vars_of(an.out)
      <3> SUFFICES ASSUME NEW q \in an.out, var(q) = var(p) PROVE FALSE
        BY DEF vars_of
      <3>1. q \in Lit /\ var(-q) = var(q) /\ -q \in assigns /\ -q \notin Elems(b)
        BY <1>1, LitFacts
      <3> QED
        BY <3>1, <1>12, <1>14
    <2>3. vars_of(Marked) \ {var(p)} = vars_of(Marked \ {p})
      <3>1. \A w \in Marked : var(w) = var(p) => w = p
        BY <1>1, <1>14
      <3> QED
        BY <3>1 DEF vars_of
    <2> QED
      BY <2>1, <2>2, <2>3, <1>1, <1>2
  <1> QED
    BY <1>9, <1>10, <1>12, <1>13, <1>15, <1>17, <1>18, <1>19, <1>20 DEF b, ChosenRight


(* The literal p chosen last in the level, when it is not taken for the UIP:  *)
(* its explanation is false and before it, says what is lost with -p, and    *)
(* leaves something to explain when p is a valLit.                           *)
LEMMA ChosenImplied ==
  ASSUME SatInv, pc = "select", NEW index, NEW p, NEW r,
         ChosenAt(index, p), r = reason[var(p)],
         an.pathC > 1 \/ var(p) \in Hidden
  PROVE  /\ index >= 1 /\ r \in Reason /\ r # NoReason /\ Explanation(r) \in SUBSET Lit
         /\ \A x \in Explanation(r) :
              /\ -x \in assigns /\ -x # p
              /\ -x \in Elems(Last(trail)) => \E i \in 1 .. index : -x = Last(trail)[i]
         /\ \A m \in Remaining : HoldsIn(trail, reason, m, -p) =>
              \E x \in Explanation(r) : HoldsIn(trail, reason, m, x)
         /\ var(p) \in Hidden => \E x \in Explanation(r) : -x \in Elems(Last(trail))
  <1> DEFINE b == Last(trail)
             n == Len(trail)
             why == Explanation(r)
             rem == Remaining
  <1>1. /\ given \in DOMAIN Runs /\ trail \in Seq(Seq(Lit)) /\ n \in Nat /\ n > 1
        /\ assigns \in SUBSET Lit /\ reason \in [Var -> Reason]
        /\ TrailRight(trail, assigns) /\ HiddenRight(trail, assigns, reason)
        /\ \A m \in rem : m \in Models /\ Root \subseteq m
        /\ Elems(b) \subseteq Deep /\ Deep \subseteq assigns
        /\ Len(b) \in Nat /\ DOMAIN b = 1 .. Len(b) /\ an.pathC \in Int
    BY AnalysisFacts
  <1>2. /\ index \in Nat /\ index + 1 \in 1 .. Len(b) /\ p \in Marked
        /\ p \in Elems(b) /\ p \in assigns /\ p \in Lit
        /\ \A i \in 1 .. index : b[i] # p
        /\ {w \in {b[i] : i \in 1 .. index} : var(w) \in seen \ {var(p)}} = Marked \ {p}
        /\ (an.pathC > 1 => Marked \ {p} # {})
    <2>1. ChosenRight(index, p)
      BY Chosen
    <2> QED
      BY <2>1 DEF ChosenRight
  <1>3. /\ ReasonsRight(trail, assigns, reason, clause, rtrail, rem)
        /\ ShortClosed(trail, assigns) /\ StackTyped(trail, assigns, reason, clause, rtrail)
    BY SatParts, TypedNow DEF StackRight
  <1>4. n \in DOMAIN trail /\ b = trail[n] /\ n \in 2 .. n /\ n \in 1 .. n
    BY <1>1, LastPlaces
  <1> HIDE DEF b, n
  <1>5. p = trail[n][index + 1]
    BY <1>4 DEF b, ChosenAt
  <1>6. index >= 1
    <2>0. index \in Nat
      BY <1>2
    <2> SUFFICES ASSUME index = 0 PROVE FALSE
      BY <2>0
    <2>1. p = trail[n][1]
      BY <1>5
    <2>2. var(p) \notin Hidden
      BY <2>1, <1>3, <1>4 DEF ReasonsRight, n
    <2>3. {w \in {b[i] : i \in 1 .. index} : var(w) \in seen \ {var(p)}} = {}
      OBVIOUS
    <2> QED
      BY <2>2, <2>3, <1>2
  <1>7. Implied(trail, assigns, reason, clause, rtrail, rem, n, index + 1)
    <2>1. index + 1 \in 2 .. Len(trail[n])
      BY <1>2, <1>4, <1>6
    <2> QED
      BY <2>1, <1>3, <1>4 DEF ReasonsRight, n
  <1>8. var(p) \in Var /\ r \in Reason /\ var(-p) = var(p) /\ -p \in Lit /\ -(-p) = p
    BY <1>1, <1>2, LitFacts
  <1>9. /\ r # NoReason /\ Entails(rem, {p} \cup ExplanationIn(clause, r))
        /\ r[1] = "clause" => Lasts(clause, rtrail, r[2], n)
        /\ \A q \in ExplanationIn(clause, r) : Precedes(trail, assigns, -q, n, index + 1)
    BY <1>5, <1>7 DEF Implied
  <1>10. ExplanationIn(clause, r) = why
    BY DEF ExplanationIn, Explanation
  <1> HIDE DEF why
  <1>11. why \in SUBSET Lit
    <2>1. CASE r[1] = "clause"
      <3>1. why = Rest(clause[r[2]]) /\ r[2] \in DOMAIN clause
        BY <2>1, <1>8, <1>9, <1>10, Explanations DEF Lasts
      <3>2. clause[r[2]] \in ClauseObject
        BY <3>1, <1>3 DEF StackTyped
      <3> QED
        BY <3>1, <3>2 DEF ClauseObject, Rest
    <2>2. CASE r[1] = "lits"
      BY <2>2, <1>8, <1>10, Explanations
    <2>3. CASE r[1] = "lazy"
      <3>1. why = neg(r[2].body) /\ r[2] \in Inference
        BY <2>3, <1>8, <1>10, Explanations
      <3>2. r[2].body \in SUBSET Lit
        BY <3>1, <1>1, RunFacts
      <3> QED
        BY <3>1, <3>2, <1>1, NegFacts
    <2> QED
      BY <2>1, <2>2, <2>3, <1>8, <1>9, Explanations
  <1>12. ASSUME NEW x \in why
         PROVE  /\ -x \in assigns /\ -x # p
                /\ -x \in Elems(b) => \E i \in 1 .. index : -x = b[i]
    <2>1. -x \in assigns /\ \A j \in DOMAIN trail[n] : trail[n][j] = -x => n < n \/ (n = n /\ j < index + 1)
      BY <1>4, <1>9, <1>10 DEF Precedes
    <2>2. \A j \in DOMAIN b : b[j] = -x => j \in 1 .. index
      <3> TAKE j \in DOMAIN b
      <3>1. b[j] = -x => j < index + 1
        <4>1. ~ (n < n)
          BY <1>1
        <4> QED
          BY <4>1, <2>1, <1>4
      <3>2. j \in Nat /\ j >= 1 /\ index \in Nat
        BY <1>1, <1>2
      <3> QED
        BY <3>1, <3>2
    <2>3. \A j \in DOMAIN b : b[j] = p => j \notin 1 .. index
      BY <1>2
    <2>4. PICK j \in DOMAIN b : b[j] = p
      BY <1>2 DEF Elems
    <2> QED
      BY <2>1, <2>2, <2>3, <2>4 DEF Elems
  <1>13. ASSUME NEW m \in rem, HoldsIn(trail, reason, m, -p) PROVE \E x \in why : HoldsIn(trail, reason, m, x)
    <2>1. m \in Models
      BY <1>1
    <2>2. PICK x \in why : x \in m
      <3>1. CASE var(p) \in Hidden
        <4>1. PICK k \in Inference : reason[var(p)] = <<"lits", neg(k.body)>>
          BY <3>1, <1>1, <1>2 DEF HiddenRight, Deep
        <4>2. r[1] = "lits" /\ r[2] = neg(k.body)
          BY <4>1
        <4>3. why = r[2]
          BY <4>2, <1>8, <1>10, Explanations
        <4>4. m \cap reason[var(-p)][2] # {}
          BY <3>1, <1>1, <1>2, <1>8, <1>13 DEF HoldsIn, Deep
        <4> QED
          BY <4>3, <4>4, <1>8
      <3>2. CASE var(p) \notin Hidden
        <4>1. -p \in m
          BY <3>2, <1>8, <1>13 DEF HoldsIn
        <4>2. p \notin m
          BY <4>1, <2>1, <1>1, <1>2, ModelFacts
        <4>3. m \cap ({p} \cup why) # {}
          BY <1>9, <1>10 DEF Entails
        <4> QED
          BY <4>2, <4>3
      <3> QED
        BY <3>1, <3>2
    <2>3. x \in Lit /\ -x \in assigns
      BY <1>11, <1>12
    <2> QED
      BY <2>1, <2>2, <2>3, <1>1, Plain
  <1>14. ASSUME var(p) \in Hidden PROVE \E x \in why : -x \in Elems(b)
    <2>1. PICK k \in Inference :
            p \in k.heads /\ k.body \subseteq assigns /\ reason[var(p)] = <<"lits", neg(k.body)>>
      BY <1>1, <1>2, <1>14 DEF HiddenRight, Deep
    <2>2. why = neg(k.body)
      <3>1. r[1] = "lits" /\ r[2] = neg(k.body)
        BY <2>1
      <3> QED
        BY <3>1, <1>8, <1>10, Explanations
    <2>3. k.kind = "short" /\ k.body \in SUBSET Lit
      BY <2>1, <1>1, <1>14, RunFacts
    <2>4. p \notin BelowOf(trail, assigns, n)
      <3>1. index + 1 \in DOMAIN trail[n] /\ n \in n .. Len(trail)
        BY <1>1, <1>2, <1>4 DEF n
      <3> QED
        BY <3>1, <1>5, Below
    <2>5. ~ (k.body \subseteq BelowOf(trail, assigns, n))
      BY <2>1, <2>3, <2>4, <1>3, <1>4 DEF ShortClosed, n
    <2>6. PICK y \in k.body : y \notin BelowOf(trail, assigns, n)
      BY <2>5
    <2>7. y \in assigns /\ y \in Lit
      BY <2>1, <2>3, <2>6
    <2>8. PICK l \in n .. Len(trail) : \E i \in DOMAIN trail[l] : trail[l][i] = y
      BY <2>6, <2>7, Below
    <2>9. l = n
      BY <1>1 DEF n
    <2>10. y \in Elems(b)
      BY <2>8, <2>9, <1>4 DEF Elems
    <2>11. -y \in why /\ -(-y) = y
      BY <2>2, <2>3, <2>6, <2>7, <1>1, LitFacts, NegFacts
    <2> QED
      BY <2>10, <2>11
  <1> QED
    BY <1>6, <1>8, <1>9, <1>11, <1>12, <1>13, <1>14 DEF b, why, rem


(* What the explanation of p says, is said by literals already noted or by    *)
(* those of the explanation.                                                 *)
LEMMA NogoodWalked ==
  ASSUME NEW t, NEW R, NEW rem, NEW C, NEW p, NEW S, NEW why, Nogood(t, R, rem, C \cup S),
         \A m \in rem : HoldsIn(t, R, m, p) => \E x \in why : HoldsIn(t, R, m, x)
  PROVE  Nogood(t, R, rem, C \cup (S \ {p}) \cup why)
  <1> SUFFICES ASSUME NEW m \in rem PROVE \E q \in C \cup (S \ {p}) \cup why : HoldsIn(t, R, m, q)
    BY DEF Nogood
  <1>1. PICK q \in C \cup S : HoldsIn(t, R, m, q)
    BY DEF Nogood
  <1>2. CASE q = p
    BY <1>1, <1>2
  <1>3. CASE q # p
    BY <1>1, <1>3
  <1> QED
    BY <1>2, <1>3

LEMMA NegWithout ==
  ASSUME given \in DOMAIN Runs, NEW S \in SUBSET Lit, NEW p \in Lit
  PROVE  neg(S) \ {-p} = neg(S \ {p})
  <1>1. S \ {p} \in SUBSET Lit
    OBVIOUS
  <1>2. \A l \in Lit : (l \in neg(S) <=> -l \in S) /\ (l \in neg(S \ {p}) <=> -l \in S \ {p})
    BY <1>1, NegFacts
  <1>3. neg(S) \subseteq Lit /\ neg(S \ {p}) \subseteq Lit
    BY <1>1, NegFacts
  <1>4. \A l \in Lit : l = -p <=> -l = p
    BY LitFacts
  <1> QED
    BY <1>2, <1>3, <1>4

(* What the three outcomes of the selection have in common. *)
Walks(index, p) ==
  /\ seen' = seen \ {var(p)} /\ an'.index = index /\ an'.pathC = an.pathC - 1
  /\ an'.out = an.out /\ an'.removed = {} /\ an' \in Analysis
  /\ UNCHANGED <<given, loaded, clause, learnts, watches, qhead, rtrail, confl, todo, budget, solutions, found>>

LEMMA WalkedOn ==
  ASSUME SatInv, pc = "select", NEW index, NEW p, ChosenAt(index, p), Walks(index, p),
         pc' \in {"resolve", "select", "learn"}, Shortens(index, trail', assigns', reason')
  PROVE  /\ Typed' /\ Analyzing' /\ Remaining' = Remaining /\ Root' = Root
         /\ Walked' = {Last(trail)[i] : i \in 1 .. index}
         /\ Marked' = Marked \ {p} /\ todo' = {} /\ Len(trail') > 1
         /\ StackRight(trail', assigns', reason', clause', rtrail', Remaining)
         /\ StoreRight(clause', watches', learnts', rtrail', Remaining)
         /\ confl'[1] = "clause" => confl'[2] \in DOMAIN clause'
  <1> DEFINE b == Last(trail)
             rem == Remaining
  <1>1. /\ given \in DOMAIN Runs /\ trail \in Seq(Seq(Lit)) /\ Len(trail) \in Nat /\ Len(trail) > 1
        /\ assigns \in SUBSET Lit /\ seen \subseteq Var /\ TrailRight(trail, assigns)
        /\ \A q \in an.out : -q \in Deep \ Elems(b)
    BY AnalysisFacts
  <1>2. /\ index \in Nat
        /\ {w \in {b[i] : i \in 1 .. index} : var(w) \in seen \ {var(p)}} = Marked \ {p}
        /\ seen \ {var(p)} = vars_of(Root) \cup vars_of(an.out) \cup vars_of(Marked \ {p})
    BY Chosen DEF ChosenRight
  <1>3. /\ StackTyped(trail', assigns', reason', clause, rtrail)
        /\ StackRight(trail', assigns', reason', clause, rtrail, rem)
        /\ CutOf(trail, assigns, trail', assigns')
        /\ Len(trail') = Len(trail) /\ index <= Len(Last(trail'))
        /\ \A i \in 1 .. index : Last(trail')[i] = b[i]
        /\ Elems(Last(trail')) \subseteq Elems(b)
        /\ \A w \in assigns : w \notin Elems(b) \/ (\E i \in 1 .. index : w = b[i]) => w \in assigns'
    BY DEF Shortens
  <1>4. /\ seen' = seen \ {var(p)} /\ an'.index = index /\ an'.out = an.out /\ an'.removed = {} /\ an' \in Analysis
        /\ UNCHANGED <<given, loaded, clause, learnts, watches, qhead, rtrail, confl, todo, budget, solutions, found>>
    BY DEF Walks
  <1>5. /\ DOMAIN clause \subseteq 1..MaxClause /\ loaded \in 0 .. Len(Problem)
        /\ learnts \subseteq 1..MaxClause /\ watches \in [Lit -> SUBSET WatchElem]
        /\ qhead \in Seq(Nat) /\ Len(qhead) = Len(trail)
        /\ confl \in Reason /\ todo \subseteq WatchElem
        /\ solutions \in Nat /\ budget \in Int /\ found \subseteq SUBSET Lit
    BY SatParts, TypedNow
  <1>6. pc' \in Phase
    BY DEF Phase
  <1>7. Typed'
    <2>1. /\ StackTyped(trail', assigns', reason', clause', rtrail') /\ Len(qhead') = Len(trail')
          /\ DOMAIN clause' \subseteq 1..MaxClause /\ loaded' \in 0 .. Len(Problem)
          /\ learnts' \subseteq 1..MaxClause /\ watches' \in [Lit -> SUBSET WatchElem]
          /\ qhead' \in Seq(Nat) /\ confl' \in Reason /\ todo' \subseteq WatchElem
          /\ solutions' \in Nat /\ budget' \in Int /\ found' \subseteq SUBSET Lit
      BY <1>3, <1>4, <1>5
    <2>2. seen' \subseteq Var
      BY <1>1, <1>4
    <2> QED
      BY <2>1, <2>2, <1>4, <1>6, TypedNext
  <1>8. Remaining' = rem
    BY <1>4, SameRemaining
  <1>9. /\ TrailRight(trail', assigns') /\ assigns' \ DeepOf(trail') = assigns \ DeepOf(trail)
    <2>1. Len(trail) > 0
      BY <1>1
    <2> QED
      BY <2>1, <1>1, <1>3, CutShape
  <1>10. Root' = Root
    BY <1>9 DEF Root, Deep
  <1>11. Walked' = {b[i] : i \in 1 .. index}
    BY <1>3, <1>4 DEF Walked
  <1>12. Marked' = Marked \ {p}
    <2>1. Marked' = {w \in {b[i] : i \in 1 .. index} : var(w) \in seen \ {var(p)}}
      BY <1>4, <1>11 DEF Marked
    <2> QED
      BY <2>1, <1>2
  <1>13. ASSUME NEW q \in an.out PROVE -q \in Deep' \ Elems(Last(trail'))
    <2>1. -q \in Deep /\ -q \notin Elems(b) /\ -q \in assigns
      BY <1>1, LastTrue DEF Deep
    <2>2. -q \in assigns'
      BY <2>1, <1>3
    <2>3. -q \notin assigns' \ DeepOf(trail')
      BY <2>1, <1>9 DEF Deep
    <2> QED
      BY <2>1, <2>2, <2>3, <1>3 DEF Deep
  <1>14. Analyzing'
    <2>1. an'.index <= Len(Last(trail')) /\ \A q \in an'.out : -q \in Deep' \ Elems(Last(trail'))
      BY <1>3, <1>4, <1>13
    <2>2. seen' = vars_of(Root') \cup vars_of(an'.out) \cup vars_of(Marked') \cup an'.removed
      BY <1>2, <1>4, <1>10, <1>12
    <2> QED
      BY <2>1, <2>2 DEF Analyzing
  <1>15. confl'[1] = "clause" => confl'[2] \in DOMAIN clause'
    BY <1>4, SatParts DEF ConflictRight
  <1>16. todo' = {}
    BY <1>4, SatParts DEF Phases
  <1>17. /\ StackRight(trail', assigns', reason', clause', rtrail', rem)
         /\ StoreRight(clause', watches', learnts', rtrail', rem)
    BY <1>3, <1>4, SatParts
  <1>18. Len(trail') > 1
    BY <1>1, <1>3
  <1> QED
    BY <1>7, <1>8, <1>10, <1>11, <1>12, <1>14, <1>15, <1>16, <1>17, <1>18 DEF b, rem


LEMMA selectKeeps ==
  ASSUME SatInv, select, given' = given
  PROVE  SatInv'
  <1> DEFINE index == Highest({i \in 1 .. an.index : var(Last(trail)[i]) \in seen}) - 1
             p == Last(trail)[index + 1]
             r == reason[var(p)]
             rem == Remaining
             left1 == Marked \ {p}
             W == {Last(trail)[i] : i \in 1 .. index}
             why == Explanation(r)
  <1>1. /\ pc = "select" /\ seen' = seen \ {var(p)}
        /\ \/ /\ an.pathC = 1 /\ var(p) \notin Hidden
              /\ an' = [an EXCEPT !.index = index, !.pathC = @ - 1, !.p = p]
              /\ pc' = "learn"
              /\ UNCHANGED stack
           \/ /\ an.pathC > 1 \/ var(p) \in Hidden
              /\ an.last = r
              /\ an' = [an EXCEPT !.index = index, !.pathC = @ - 1]
              /\ UNCHANGED <<pc, stack>>
           \/ /\ an.pathC > 1 \/ var(p) \in Hidden
              /\ an' = [an EXCEPT !.index = index, !.pathC = @ - 1, !.last = r, !.expl = why]
              /\ pc' = "resolve"
              /\ IF r[1] = "lazy"
                 THEN /\ trail' = [trail EXCEPT ![Len(trail)] = SubSeq(Last(trail), 1, index)]
                      /\ assigns' = assigns \ {Last(trail)[i] : i \in index + 1 .. Len(Last(trail))}
                      /\ reason' = Forget({Last(trail)[i] : i \in index + 1 .. Len(Last(trail))})
                 ELSE UNCHANGED <<trail, assigns, reason>>
              /\ UNCHANGED <<qhead, rtrail>>
        /\ UNCHANGED <<db, confl, todo, budget, solutions, found>>
    BY DEF select, sameReason
  <1>2. ChosenAt(index, p)
    BY DEF ChosenAt
  <1> HIDE DEF index, p, why, r
  <1>3. ChosenRight(index, p)
    BY <1>1, <1>2, Chosen
  <1>4. /\ index \in Nat /\ index + 1 \in 1 .. Len(Last(trail)) /\ p \in Marked
        /\ p \in Elems(Last(trail)) /\ p \in assigns /\ p \in Lit
        /\ \A i \in 1 .. index : Last(trail)[i] # p
        /\ an.pathC - 1 = Cardinality(left1)
        /\ (an.pathC = 1 => left1 = {}) /\ (an.pathC > 1 => left1 # {})
    BY <1>3 DEF ChosenRight
  <1>5. /\ given \in DOMAIN Runs /\ trail \in Seq(Seq(Lit)) /\ Len(trail) \in Nat /\ Len(trail) > 1
        /\ assigns \in SUBSET Lit /\ TrailRight(trail, assigns)
        /\ Elems(Last(trail)) \subseteq Deep /\ Deep \subseteq assigns
        /\ Walked \subseteq Elems(Last(trail)) /\ Marked \subseteq Walked /\ Marked \in SUBSET Lit
        /\ an \in Analysis /\ an.out \in SUBSET Lit /\ an.expl \in SUBSET Lit /\ an.pathC \in Int
        /\ Len(Last(trail)) \in Nat
        /\ \A q \in an.out : -q \in Deep \ Elems(Last(trail))
    BY <1>1, AnalysisFacts
  <1>6. /\ an.removed = {}
        /\ an.last # NoReason => \A q \in Explanation(an.last) : -q \in Root \/ q \in an.out \/ -q \in Marked
        /\ Nogood(trail, reason, rem, an.out \cup neg(Marked))
    BY <1>1, SatParts DEF Selecting
  <1>7. index <= Len(Last(trail)) /\ an.pathC - 1 \in Int
    BY <1>4, <1>5
  <1>8. UNCHANGED <<given, loaded, clause, learnts, watches, confl, todo, budget, solutions, found>>
    BY <1>1 DEF db
  <1>9. neg(Marked) \ {-p} = neg(left1)
    BY <1>4, <1>5, NegWithout
  <1>10. ASSUME NEW l \in Reason, NEW e \in SUBSET Lit, NEW u \in Lit \cup {0},
                an' = [an EXCEPT !.index = index, !.pathC = @ - 1, !.last = l, !.expl = e, !.p = u],
                UNCHANGED <<qhead, rtrail>>
         PROVE  Walks(index, p) /\ an'.last = l /\ an'.expl = e /\ an'.p = u
    <2>1. an' = [index |-> index, pathC |-> an.pathC - 1, last |-> l, expl |-> e, out |-> an.out, p |-> u, removed |-> {}]
      BY <1>5, <1>6, <1>10 DEF Analysis
    <2>2. an' \in Analysis
      BY <2>1, <1>4, <1>5, <1>7, <1>10 DEF Analysis
    <2>3. /\ an'.index = index /\ an'.pathC = an.pathC - 1 /\ an'.out = an.out /\ an'.removed = {}
          /\ an'.last = l /\ an'.expl = e /\ an'.p = u
      BY <2>1
    <2> QED
      BY <2>2, <2>3, <1>1, <1>8, <1>10 DEF Walks
  <1>11. an.last \in Reason /\ an.p \in Lit \cup {0}
    BY <1>5 DEF Analysis
  <1>12. Hidden' = Hidden
    BY Carried
  <1>13. CASE /\ an.pathC = 1 /\ var(p) \notin Hidden
              /\ an' = [an EXCEPT !.index = index, !.pathC = @ - 1, !.p = p]
              /\ pc' = "learn" /\ UNCHANGED stack
    <2>1. UNCHANGED <<assigns, trail, qhead, rtrail, reason>>
      BY <1>13 DEF stack
    <2>2. Walks(index, p) /\ an'.p = p
      <3>1. an' = [an EXCEPT !.index = index, !.pathC = @ - 1, !.last = an.last, !.expl = an.expl, !.p = p]
        BY <1>5, <1>13 DEF Analysis
      <3> QED
        BY <3>1, <2>1, <1>4, <1>5, <1>10, <1>11
    <2>3. Shortens(index, trail', assigns', reason')
      BY <2>1, <1>1, <1>4, <1>7, NotShortened
    <2>4. /\ Typed' /\ Analyzing' /\ Remaining' = rem
          /\ Marked' = left1 /\ todo' = {} /\ Len(trail') > 1
          /\ StackRight(trail', assigns', reason', clause', rtrail', rem)
          /\ StoreRight(clause', watches', learnts', rtrail', rem)
      BY <2>2, <2>3, <1>1, <1>2, <1>13, WalkedOn
    <2>5. an'.out = an.out /\ an'.removed = {}
      BY <2>2 DEF Walks
    <2>6. Marked' = {} /\ neg(Marked) = {-p}
      <3>1. Marked = {p}
        BY <1>4, <1>13
      <3> QED
        BY <3>1, <2>4, <1>4, <1>13 DEF neg
    <2>7. Nogood(trail, reason, Remaining, an.out \cup {-an.p})'
      BY <2>1, <2>2, <2>4, <2>5, <2>6, <1>6, <1>12 DEF Nogood, HoldsIn
    <2>8. Learning'
      BY <2>1, <2>2, <2>5, <2>6, <2>7, <1>4, <1>12, <1>13 DEF Learning
    <2>9. Resolving' /\ Selecting'
      BY <1>13 DEF Resolving, Selecting
    <2> QED
      BY <2>4, <2>8, <2>9, <1>13, Examined
  <1>14. ASSUME an.pathC > 1 \/ var(p) \in Hidden
         PROVE  /\ index >= 1 /\ r \in Reason /\ r # NoReason /\ why \in SUBSET Lit
                /\ \A x \in why :
                     /\ -x \in assigns /\ -x # p
                     /\ -x \in Elems(Last(trail)) => -x \in W
                /\ \A m \in rem : HoldsIn(trail, reason, m, -p) => \E x \in why : HoldsIn(trail, reason, m, x)
                /\ var(p) \in Hidden => \E x \in why : -x \in Elems(Last(trail))
                /\ Nogood(trail, reason, rem, an.out \cup neg(left1) \cup why)
    <2>1. /\ index >= 1 /\ r \in Reason /\ r # NoReason /\ Explanation(r) \in SUBSET Lit
          /\ \A x \in Explanation(r) :
               /\ -x \in assigns /\ -x # p
               /\ -x \in Elems(Last(trail)) => \E i \in 1 .. index : -x = Last(trail)[i]
          /\ \A m \in rem : HoldsIn(trail, reason, m, -p) => \E x \in Explanation(r) : HoldsIn(trail, reason, m, x)
          /\ var(p) \in Hidden => \E x \in Explanation(r) : -x \in Elems(Last(trail))
      <3>1. r = reason[var(p)]
        BY DEF r
      <3> QED
        BY <3>1, <1>1, <1>2, <1>14, ChosenImplied
    <2>2. Explanation(r) = why
      BY DEF why
    <2>3. \A m \in rem : HoldsIn(trail, reason, m, -p) => \E x \in why : HoldsIn(trail, reason, m, x)
      BY <2>1, <2>2
    <2>4. Nogood(trail, reason, rem, an.out \cup (neg(Marked) \ {-p}) \cup why)
      <3> HIDE DEF rem
      <3> QED
        BY <2>3, <1>6, NogoodWalked
    <2>5. \A x \in why : -x \in Elems(Last(trail)) => -x \in W
      BY <2>1, <2>2
    <2> HIDE DEF W, rem, left1
    <2> QED
      BY <2>1, <2>2, <2>3, <2>4, <2>5, <1>9
  <1>15. CASE /\ an.pathC > 1 \/ var(p) \in Hidden
              /\ an.last = r
              /\ an' = [an EXCEPT !.index = index, !.pathC = @ - 1]
              /\ UNCHANGED <<pc, stack>>
    <2>1. UNCHANGED <<assigns, trail, qhead, rtrail, reason>> /\ pc' = "select"
      BY <1>1, <1>15 DEF stack
    <2>2. Walks(index, p) /\ an'.last = r
      <3>1. an' = [an EXCEPT !.index = index, !.pathC = @ - 1, !.last = an.last, !.expl = an.expl, !.p = an.p]
        BY <1>5, <1>15 DEF Analysis
      <3> QED
        BY <3>1, <2>1, <1>5, <1>10, <1>11, <1>15
    <2>3. Shortens(index, trail', assigns', reason')
      BY <2>1, <1>1, <1>4, <1>7, NotShortened
    <2>4. /\ Typed' /\ Analyzing' /\ Remaining' = rem /\ Root' = Root
          /\ Marked' = left1 /\ todo' = {} /\ Len(trail') > 1
          /\ StackRight(trail', assigns', reason', clause', rtrail', rem)
          /\ StoreRight(clause', watches', learnts', rtrail', rem)
          /\ (confl'[1] = "clause" => confl'[2] \in DOMAIN clause')
      <3>1. pc' \in {"resolve", "select", "learn"}
        BY <2>1
      <3> QED
        BY <3>1, <2>2, <2>3, <1>1, <1>2, WalkedOn
    <2>5. an'.out = an.out /\ an'.removed = {} /\ an'.pathC = an.pathC - 1
      BY <2>2 DEF Walks
    <2>6. \A x \in why : -x \in Root \/ x \in an.out \/ -x \in left1
      <3> TAKE x \in why
      <3>1. -x \in Root \/ x \in an.out \/ -x \in Marked
        BY <1>6, <1>14, <1>15 DEF why
      <3>2. -x # p
        BY <1>14, <1>15
      <3> QED
        BY <3>1, <3>2
    <2>7. left1 # {}
      <3>1. CASE an.pathC > 1
        BY <3>1, <1>4
      <3>2. CASE var(p) \in Hidden
        <4>1. PICK x \in why : -x \in Elems(Last(trail))
          BY <3>2, <1>14
        <4>2. -x \notin Root /\ x \notin an.out
          BY <4>1, <1>5 DEF Root
        <4> QED
          BY <4>2, <2>6
      <3> QED
        BY <3>1, <3>2, <1>15
    <2>8. Nogood(trail, reason, rem, an.out \cup neg(left1))
      <3> SUFFICES ASSUME NEW m \in rem PROVE \E q \in an.out \cup neg(left1) : HoldsIn(trail, reason, m, q)
        BY DEF Nogood
      <3>1. PICK q \in an.out \cup neg(left1) \cup why : HoldsIn(trail, reason, m, q)
        BY <1>14, <1>15 DEF Nogood
      <3>2. CASE q \in why
        <4>1. q \in Lit
          BY <3>2, <1>14, <1>15
        <4>2. -q \notin Root
          BY <4>1, <3>1, <1>1, NotOfRoot
        <4>3. q \in an.out \/ -q \in left1
          BY <4>2, <3>2, <2>6
        <4>4. left1 \in SUBSET Lit
          BY <1>5
        <4>5. q \in an.out \cup neg(left1)
          <5> HIDE DEF left1
          <5> QED
            BY <4>1, <4>3, <4>4, <1>5, NegFacts
        <4> QED
          BY <4>5, <3>1
      <3> QED
        BY <3>1, <3>2
    <2>9. Selecting'
      <3>1. Explanation(an.last)' = why
        BY <2>2, <1>8 DEF Explanation, why
      <3>2. (an.out \cup neg(Marked))' = an.out \cup neg(left1)
        BY <2>4, <2>5 DEF neg
      <3>3. Nogood(trail, reason, Remaining, an.out \cup neg(Marked))'
        BY <3>2, <2>1, <2>4, <2>8, <1>12 DEF Nogood, HoldsIn
      <3>4. Cardinality(Marked)' = Cardinality(left1)
        BY <2>4 DEF Cardinality
      <3> HIDE DEF left1
      <3> QED
        BY <3>1, <3>3, <3>4, <2>4, <2>5, <2>6, <2>7, <1>4 DEF Selecting
    <2>10. Resolving' /\ Learning'
      BY <2>1 DEF Resolving, Learning
    <2> QED
      BY <2>1, <2>4, <2>9, <2>10, Examined
  <1>16. CASE /\ an.pathC > 1 \/ var(p) \in Hidden
              /\ an' = [an EXCEPT !.index = index, !.pathC = @ - 1, !.last = r, !.expl = why]
              /\ pc' = "resolve"
              /\ IF r[1] = "lazy"
                 THEN /\ trail' = [trail EXCEPT ![Len(trail)] = SubSeq(Last(trail), 1, index)]
                      /\ assigns' = assigns \ {Last(trail)[i] : i \in index + 1 .. Len(Last(trail))}
                      /\ reason' = Forget({Last(trail)[i] : i \in index + 1 .. Len(Last(trail))})
                 ELSE UNCHANGED <<trail, assigns, reason>>
              /\ UNCHANGED <<qhead, rtrail>>
    <2>1. Walks(index, p) /\ an'.last = r /\ an'.expl = why
      <3>1. an' = [an EXCEPT !.index = index, !.pathC = @ - 1, !.last = r, !.expl = why, !.p = an.p]
        BY <1>5, <1>16 DEF Analysis
      <3> QED
        BY <3>1, <1>5, <1>10, <1>11, <1>14, <1>16
    <2>2. Shortens(index, trail', assigns', reason')
      <3>1. CASE r[1] = "lazy"
        <4> DEFINE G == GoneFrom(trail, index)
        <4>1. /\ trail' = ShortenedTo(trail, index) /\ assigns' = assigns \ G
              /\ reason' = ForgetIn(reason, G)
          BY <3>1, <1>16 DEF ShortenedTo, GoneFrom, Forget, ForgetIn
        <4> QED
          BY <4>1, <1>1, <1>4, <1>7, <1>14, <1>16, LevelShortened
      <3>2. CASE r[1] # "lazy"
        BY <3>2, <1>1, <1>4, <1>7, <1>16, NotShortened
      <3> QED
        BY <3>1, <3>2
    <2>3. /\ Typed' /\ Analyzing' /\ Remaining' = rem /\ Root' = Root
          /\ Walked' = W
          /\ Marked' = left1 /\ todo' = {} /\ Len(trail') > 1
          /\ StackRight(trail', assigns', reason', clause', rtrail', rem)
          /\ StoreRight(clause', watches', learnts', rtrail', rem)
          /\ (confl'[1] = "clause" => confl'[2] \in DOMAIN clause')
      BY <2>1, <2>2, <1>1, <1>2, <1>16, WalkedOn
    <2>4. an'.out = an.out /\ an'.removed = {} /\ an'.pathC = an.pathC - 1
      BY <2>1 DEF Walks
    <2>5. /\ CutOf(trail, assigns, trail', assigns') /\ SameReasons(assigns', reason, reason')
          /\ Elems(Last(trail')) \subseteq Elems(Last(trail))
          /\ \A w \in assigns : w \notin Elems(Last(trail)) \/ (\E i \in 1 .. index : w = Last(trail)[i]) => w \in assigns'
      BY <2>2 DEF Shortens
    <2>6. \A w \in assigns : w \notin Elems(Last(trail)) \/ w \in W => w \in assigns'
      BY <2>5
    <2>7. \A x \in why : -x \in assigns' /\ (-x \in Elems(Last(trail')) => -x \in W)
      BY <2>5, <2>6, <1>14, <1>16
    <2>8. \A x \in an.out \cup neg(left1) : x \in Lit /\ -x \in assigns'
      <3>1. ASSUME NEW x \in an.out PROVE x \in Lit /\ -x \in assigns'
        BY <2>6, <1>5
      <3>2. ASSUME NEW x \in neg(left1) PROVE x \in Lit /\ -x \in assigns'
        <4>1. left1 \in SUBSET Lit
          BY <1>5
        <4>2. x \in Lit /\ -x \in left1
          <5> HIDE DEF left1
          <5> QED
            BY <4>1, <1>5, NegFacts
        <4>3. -x \in W
          <5>1. -x \in {w \in W : var(w) \in seen \ {var(p)}}
            BY <4>2, <1>3 DEF ChosenRight
          <5> QED
            BY <5>1
        <4> QED
          BY <4>2, <4>3, <2>6, <1>5
      <3> QED
        BY <3>1, <3>2
    <2>9. Nogood(trail', reason', rem, an.out \cup neg(left1) \cup why)
      <3> DEFINE C == an.out \cup neg(left1) \cup why
      <3>1. C \in SUBSET Lit /\ \A q \in C : -q \in assigns'
        BY <2>7, <2>8, <1>14, <1>16
      <3>2. Nogood(trail, reason, rem, C) /\ Len(trail) > 0
        BY <1>5, <1>14, <1>16
      <3> HIDE DEF C, rem
      <3>3. Nogood(trail', reason', rem, C)
        BY <3>1, <3>2, <2>5, <1>5, NogoodCut
      <3> QED
        BY <3>3 DEF C
    <2>10. left1 # {} \/ \E x \in why : -x \in W
      <3>1. CASE an.pathC > 1
        BY <3>1, <1>4
      <3>2. CASE var(p) \in Hidden
        BY <3>2, <1>14
      <3> QED
        BY <3>1, <3>2, <1>16
    <2>11. Resolving'
      <3>1. Explanation(an.last)' = why
        BY <2>1, <1>8 DEF Explanation, why
      <3>2. (an.out \cup neg(Marked) \cup an.expl)' = an.out \cup neg(left1) \cup why
        BY <2>1, <2>3, <2>4 DEF neg
      <3>3. Nogood(trail, reason, Remaining, an.out \cup neg(Marked) \cup an.expl)'
        BY <3>2, <2>3, <2>9, <1>12 DEF Nogood, HoldsIn
      <3>4. Cardinality(Marked)' = Cardinality(left1)
        BY <2>3 DEF Cardinality
      <3>5. \A x \in an'.expl : (isFalse(x))' /\ (-x \in Elems(Last(trail))' => -x \in Walked')
        <4> SUFFICES ASSUME NEW x \in why PROVE -x \in assigns' /\ (-x \in Elems(Last(trail')) => -x \in W)
          BY <2>1, <2>3 DEF isFalse, Last, Elems
        <4> QED
          BY <2>7
      <3> HIDE DEF left1, W
      <3> QED
        BY <3>1, <3>3, <3>4, <3>5, <2>1, <2>3, <2>4, <2>10, <1>4 DEF Resolving
    <2>12. Selecting' /\ Learning'
      BY <1>16 DEF Selecting, Learning
    <2> QED
      BY <2>3, <2>11, <2>12, <1>16, Examined
  <1> QED
    BY <1>1, <1>13, <1>15, <1>16


-----------------------------------------------------------------------------
(* The clause that is learnt, and the level it goes back to. *)

LearnsAt(lv) ==
  /\ lv \in Nat /\ lv < Len(trail) - 1
  /\ -an.p \in Lit /\ -(-an.p) = an.p /\ var(-an.p) \notin Hidden
  /\ an.p \in assigns /\ an.p \in UndoneOf(trail, lv) /\ -an.p \notin assigns
  /\ \A q \in an.out : q \in Lit /\ -q \in assigns \ UndoneOf(trail, lv)
  /\ (an.out = {} => lv = 0)
  /\ (an.out # {} => lv > 0 /\ \E q \in an.out : levelOf(var(q)) = lv)
  /\ Learnable(an.out \cup {-an.p})
  /\ Entails(Remaining, an.out \cup {-an.p})
  /\ Cleared = vars_of(Root)

LEMMA VarsApart ==
  ASSUME SatInv, pc \in {"resolve", "select", "learn"}
  PROVE  vars_of(Root) \cap vars_of(Deep) = {}
  <1>1. given \in DOMAIN Runs /\ assigns \in SUBSET Lit /\ TrailRight(trail, assigns) /\ Deep \subseteq assigns
    BY AnalysisFacts
  <1> SUFFICES ASSUME NEW w \in Root, NEW d \in Deep, var(w) = var(d) PROVE FALSE
    BY DEF vars_of
  <1>2. w \in Lit /\ d \in Lit /\ w \in assigns /\ d \in assigns /\ w # d
    BY <1>1 DEF Root
  <1>3. w = -d
    BY <1>1, <1>2, LitFacts
  <1> QED
    BY <1>1, <1>2, <1>3 DEF TrailRight

LEMMA LearnFacts ==
  ASSUME SatInv, pc = "learn", Unlearnable = {}
  PROVE  LearnsAt(findBackTrackLevel)
  <1> DEFINE lv == findBackTrackLevel
             n == Len(trail)
             S == {levelOf(var(q)) : q \in an.out}
             rem == Remaining
             C == an.out \cup {-an.p}
  <1>1. /\ given \in DOMAIN Runs /\ trail \in Seq(Seq(Lit)) /\ n \in Nat /\ n > 1
        /\ assigns \in SUBSET Lit /\ TrailRight(trail, assigns)
        /\ Elems(Last(trail)) \subseteq Deep /\ Deep \subseteq assigns
        /\ an.out \in SUBSET Lit
        /\ \A q \in an.out : -q \in Deep \ Elems(Last(trail))
        /\ seen = vars_of(Root) \cup vars_of(an.out) \cup vars_of(Marked) \cup an.removed
    BY AnalysisFacts
  <1>2. /\ Marked = {} /\ an.p \in Elems(Last(trail)) /\ var(an.p) \notin Hidden
        /\ an.removed \subseteq vars_of(Deep) /\ Nogood(trail, reason, rem, C)
    BY SatParts DEF Learning
  <1>3. /\ an.p \in Lit /\ -an.p \in Lit /\ -(-an.p) = an.p /\ var(-an.p) = var(an.p)
        /\ an.p \in assigns /\ an.p \in Deep /\ -an.p \notin assigns
    <2>1. an.p \in Lit /\ an.p \in assigns /\ an.p \in Deep
      BY <1>1, <1>2
    <2> QED
      BY <2>1, <1>1, LitFacts DEF TrailRight
  <1>4. \A q \in an.out : q \in Lit /\ var(-q) = var(q) /\ -q \in assigns /\ -q \in Deep /\ var(q) \notin Hidden
    BY <1>1, LitFacts DEF Unlearnable
  <1>5. ASSUME NEW q \in an.out PROVE levelOf(var(q)) \in 1 .. n - 2
    <2>1. levelOf(var(-q)) \in 0 .. n - 1 /\ (levelOf(var(-q)) = n - 1 <=> -q \in Elems(trail[n - 1 + 1]))
          /\ (levelOf(var(-q)) = 0 <=> -q \notin Deep)
      <3>1. n - 1 \in 1 .. n - 1 /\ Len(trail) > 0
        BY <1>1
      <3> QED
        BY <3>1, <1>1, <1>4, Levels
    <2>2. n - 1 + 1 = n /\ Last(trail) = trail[n]
      BY <1>1 DEF Last
    <2>3. -q \notin Elems(trail[n])
      BY <2>2, <1>1
    <2> HIDE DEF n
    <2>4. levelOf(var(-q)) # n - 1
      BY <2>1, <2>2, <2>3
    <2>5. levelOf(var(-q)) # 0
      BY <2>1, <1>4
    <2>6. var(-q) = var(q)
      BY <1>4
    <2>7. levelOf(var(q)) \in 0 .. n - 1 /\ levelOf(var(q)) # n - 1 /\ levelOf(var(q)) # 0
      BY <2>1, <2>4, <2>5, <2>6
    <2> QED
      BY <2>7, <1>1
  <1>6. lv = Highest(S)
    BY DEF findBackTrackLevel
  <1> HIDE DEF lv, S, n
  <1>7. an.out = {} => lv = 0
    BY <1>6 DEF S, Highest
  <1>8. ASSUME an.out # {}
        PROVE  lv \in 1 .. n - 2 /\ (\E q \in an.out : levelOf(var(q)) = lv) /\ \A q \in an.out : levelOf(var(q)) <= lv
    <2>1. S \in SUBSET (0 .. n) /\ S # {} /\ n \in Nat
      BY <1>1, <1>5, <1>8 DEF S
    <2>2. lv \in S /\ \A k \in S : k <= lv
      BY <2>1, <1>6, HighestFacts
    <2> QED
      BY <2>2, <1>5 DEF S
  <1>9. lv \in Nat /\ lv < n - 1 /\ lv < n
    BY <1>1, <1>7, <1>8
  <1>10. an.p \in UndoneOf(trail, lv)
    <2>1. n \in lv + 2 .. Len(trail) /\ Last(trail) = trail[n]
      BY <1>1, <1>9 DEF n, Last
    <2> QED
      BY <2>1, <1>2 DEF UndoneOf
  <1>11. \A q \in an.out : -q \notin UndoneOf(trail, lv)
    <2> TAKE q \in an.out
    <2>1. levelOf(var(-q)) <= lv
      BY <1>4, <1>8
    <2>2. Len(trail) > 0 /\ lv < Len(trail)
      BY <1>1, <1>9 DEF n
    <2> QED
      BY <2>1, <2>2, <1>1, <1>4, <1>9, LowerStays
  <1>12. Learnable(C)
    BY <1>2, <1>3, <1>4 DEF Learnable, vars_of
  <1>13. Entails(rem, C)
    <2> SUFFICES ASSUME NEW m \in rem PROVE m \cap C # {}
      BY DEF Entails
    <2>1. PICK q \in C : HoldsIn(trail, reason, m, q)
      BY <1>2 DEF Nogood
    <2>2. var(q) \notin Hidden
      BY <1>2, <1>3, <1>4
    <2>3. q \in m
      BY <2>1, <2>2 DEF HoldsIn
    <2> QED
      BY <2>3
  <1>14. Cleared = vars_of(Root)
    <2>1. vars_of(Root) \cap vars_of(Deep) = {}
      BY VarsApart
    <2>2. \A q \in an.out : var(q) \in vars_of(Deep)
      BY <1>4 DEF vars_of
    <2>3. vars_of(an.out) \subseteq vars_of(Deep)
      BY <2>2 DEF vars_of
    <2>4. var(an.p) \in vars_of(Deep)
      BY <1>3 DEF vars_of
    <2>5. vars_of(Marked) = {}
      BY <1>2 DEF vars_of
    <2> QED
      BY <2>1, <2>3, <2>4, <2>5, <1>1, <1>2 DEF Cleared
  <1> QED
    BY <1>2, <1>3, <1>4, <1>7, <1>8, <1>9, <1>10, <1>11, <1>12, <1>13, <1>14 DEF LearnsAt, lv, n

(* Learnt clauses are dropped with their watches. *)
LEMMA StoreDropped ==
  ASSUME given \in DOMAIN Runs, NEW M, NEW W \in [Lit -> SUBSET WatchElem], NEW ls, NEW rt, NEW rem,
         StoreRight(M, W, ls, rt, rem), NEW D \in SUBSET ls
  PROVE  /\ StoreRight(Without(M, D), detach(W, D), ls \ D, rt, rem)
         /\ detach(W, D) \in [Lit -> SUBSET WatchElem]
  <1> DEFINE N == Without(M, D)
  <1>1. DOMAIN N = DOMAIN M \ D /\ \A i \in DOMAIN M \ D : N[i] = M[i]
    BY WithoutFacts
  <1> HIDE DEF N
  <1>2. \A i : Kept(M, rt, i) /\ i \notin D => Kept(N, rt, i)
    BY <1>1 DEF Kept
  <1>3. \A l \in Lit : detach(W, D)[l] = {e \in W[l] : ~ (e[1] = "clause" /\ e[2] \in D)}
    BY DEF detach
  <1>4. ASSUME NEW l \in Lit, NEW e \in detach(W, D)[l] PROVE WatchRight(N, rt, rem, l, e)
    <2>1. e \in W[l] /\ ~ (e[1] = "clause" /\ e[2] \in D)
      BY <1>3
    <2>2. WatchRight(M, rt, rem, l, e) /\ e \in WatchElem
      BY <2>1 DEF StoreRight
    <2>3. e[1] = "bin" \/ e[1] = "clause"
      BY <2>2 DEF WatchElem
    <2>4. CASE e[1] = "bin"
      BY <2>2, <2>4 DEF WatchRight
    <2>5. CASE e[1] = "clause"
      <3>1. Kept(M, rt, e[2]) /\ e[2] \notin D
        BY <2>1, <2>2, <2>5 DEF WatchRight
      <3>2. Kept(N, rt, e[2]) /\ N[e[2]] = M[e[2]]
        BY <3>1, <1>1, <1>2 DEF Kept
      <3> QED
        BY <3>2, <2>2, <2>5 DEF WatchRight
    <2> QED
      BY <2>3, <2>4, <2>5
  <1>5. \A k \in DOMAIN rt : rt[k] \subseteq DOMAIN N
    <2> SUFFICES ASSUME NEW k \in DOMAIN rt, NEW i \in rt[k] PROVE i \in DOMAIN M /\ i \notin D
      BY <1>1
    <2>1. i \in DOMAIN M
      BY DEF StoreRight
    <2>2. i \notin D
      BY DEF StoreRight, Kept
    <2> QED
      BY <2>1, <2>2
  <1>6. \A i \in DOMAIN N : N[i].temp \/ (Entails(rem, Lits(N[i])) /\ Learnable(Lits(N[i])))
    BY <1>1 DEF StoreRight
  <1>7. \A i \in ls \ D : Kept(N, rt, i)
    BY <1>2 DEF StoreRight
  <1>8. \A j, k \in DOMAIN rt : j # k => rt[j] \cap rt[k] = {}
    BY DEF StoreRight
  <1>9. StoreRight(N, detach(W, D), ls \ D, rt, rem)
    BY <1>4, <1>5, <1>6, <1>7, <1>8 DEF StoreRight
  <1>10. detach(W, D) \in [Lit -> SUBSET WatchElem]
    BY DEF detach
  <1> QED
    BY <1>9, <1>10 DEF N

(* The learnt clause is made, after the first level that goes back. *)
LEMMA LearntMade ==
  ASSUME given \in DOMAIN Runs, NEW out \in SUBSET Lit, NEW c0 \in Lit, c0 \notin out, NEW c1,
         (c1 = 0 /\ out = {}) \/ c1 \in out, NEW c,
         c = [c0 |-> c0, c1 |-> c1, rest |-> out \ {c1}, learnt |-> TRUE, temp |-> FALSE]
  PROVE  /\ c \in ClauseObject /\ Lits(c) = out \cup {c0} /\ Rest(c) = out
         /\ c.c0 = c0 /\ c.c1 = c1 /\ ~ c.temp
  <1>1. 0 \notin Lit
    BY LitFacts
  <1>2. c.c0 = c0 /\ c.c1 = c1 /\ c.rest = out \ {c1} /\ c.temp = FALSE
    OBVIOUS
  <1>3. c \in ClauseObject
    BY DEF ClauseObject
  <1>4. ({c1} \cup (out \ {c1})) \ {0} = out
    <2>1. CASE c1 = 0 /\ out = {}
      BY <2>1
    <2>2. CASE c1 \in out
      <3>1. {c1} \cup (out \ {c1}) = out
        BY <2>2
      <3> QED
        BY <3>1, <1>1
    <2> QED
      BY <2>1, <2>2
  <1> QED
    BY <1>1, <1>2, <1>3, <1>4 DEF Lits, Rest


(* The slots freed with a level: a temporary clause is added at the last.     *)
SlotsWith(rt, temporary, s) == IF temporary THEN [rt EXCEPT ![Len(rt)] = @ \cup {s}] ELSE rt

LEMMA SlotsFacts ==
  ASSUME NEW rt \in Seq(SUBSET (1..MaxClause)), Len(rt) > 0, NEW temporary \in BOOLEAN, NEW s \in 1..MaxClause
  PROVE  /\ SlotsWith(rt, temporary, s) \in Seq(SUBSET (1..MaxClause))
         /\ Len(SlotsWith(rt, temporary, s)) = Len(rt)
         /\ \A k \in DOMAIN rt : SlotsWith(rt, temporary, s)[k] \subseteq rt[k] \cup {s}
         /\ Len(rt) \in DOMAIN rt /\ DOMAIN rt = 1 .. Len(rt)
         /\ (~ temporary => SlotsWith(rt, temporary, s) = rt)
  <1>1. Len(rt) \in Nat /\ DOMAIN rt = 1 .. Len(rt) /\ Len(rt) \in DOMAIN rt
    OBVIOUS
  <1>2. rt[Len(rt)] \cup {s} \in SUBSET (1..MaxClause)
    BY <1>1
  <1>3. CASE temporary
    <2> DEFINE n == Len(rt)
               S == rt[n] \cup {s}
               r1 == [rt EXCEPT ![n] = S]
    <2>1. SlotsWith(rt, temporary, s) = r1
      BY <1>3 DEF SlotsWith
    <2>2. n \in DOMAIN rt /\ S \in SUBSET (1..MaxClause)
      BY <1>1, <1>2
    <2>3. S \subseteq rt[n] \cup {s}
      OBVIOUS
    <2>4. n = Len(rt)
      OBVIOUS
    <2> HIDE DEF S, n
    <2>5. r1 \in Seq(SUBSET (1..MaxClause)) /\ Len(r1) = Len(rt)
      BY <2>2
    <2>6. \A k \in DOMAIN rt : r1[k] \subseteq rt[k] \cup {s}
      BY <2>2, <2>3
    <2> HIDE DEF r1
    <2> QED
      BY <2>1, <2>5, <2>6, <1>1, <1>3
  <1>4. CASE ~ temporary
    <2>1. SlotsWith(rt, temporary, s) = rt
      BY <1>4 DEF SlotsWith
    <2> QED
      BY <2>1, <1>1
  <1> QED
    BY <1>3, <1>4

(* The clause is stored: kept and watched, absorbed in the watches, or freed  *)
(* with its level.                                                           *)
LEMMA LearntStored ==
  ASSUME NEW M, NEW W, NEW ls, NEW rem, NEW rt \in Seq(SUBSET (1..MaxClause)), Len(rt) > 0,
         StoreRight(M, W, ls, rt, rem),
         NEW s \in 1..MaxClause, s \notin DOMAIN M, NEW c, ~ c.temp, Entails(rem, Lits(c)), Learnable(Lits(c)),
         NEW temporary \in BOOLEAN, NEW stays \in BOOLEAN, stays => ~ temporary, NEW W1,
         \A l \in Lit : \A e \in W1[l] :
           e \in W[l] \/ WatchRight(With(M, s, c), SlotsWith(rt, temporary, s), rem, l, e)
  PROVE  StoreRight(With(M, s, c), W1, IF stays THEN ls \cup {s} ELSE ls, SlotsWith(rt, temporary, s), rem)
  <1> DEFINE N == With(M, s, c)
             r1 == SlotsWith(rt, temporary, s)
             ls1 == IF stays THEN ls \cup {s} ELSE ls
  <1>1. Len(rt) \in DOMAIN rt
    OBVIOUS
  <1>2. StoreRight(N, W, ls, r1, rem) /\ (~ temporary => Kept(N, r1, s))
    <2>1. CASE temporary
      <3>1. r1 = [rt EXCEPT ![Len(rt)] = @ \cup {s}]
        BY <2>1 DEF SlotsWith
      <3>2. StoreRight(With(M, s, c), W, ls, [rt EXCEPT ![Len(rt)] = @ \cup {s}], rem)
        BY <1>1, StoreTemp
      <3> QED
        BY <3>1, <3>2, <2>1
    <2>2. CASE ~ temporary
      <3>1. r1 = rt
        BY <2>2 DEF SlotsWith
      <3>2. StoreRight(With(M, s, c), W, ls, rt, rem) /\ Kept(With(M, s, c), rt, s)
        BY StoreAdd
      <3> QED
        BY <3>1, <3>2
    <2> QED
      BY <2>1, <2>2
  <1> HIDE DEF N, r1
  <1>3. StoreRight(N, W1, ls, r1, rem)
    BY <1>2, StoreWatch DEF N, r1
  <1>4. \A i \in ls1 : Kept(N, r1, i)
    BY <1>2 DEF StoreRight
  <1> HIDE DEF ls1
  <1>5. StoreRight(N, W1, ls1, r1, rem)
    BY <1>3, <1>4 DEF StoreRight
  <1> QED
    BY <1>5 DEF N, r1, ls1

(* What reduceDB drops is no reason of what is left of the trail. *)
LEMMA ReasonsStay ==
  ASSUME NEW t, NEW a, NEW R, NEW M, NEW rt, NEW rem, NEW W, NEW ls, StackTyped(t, a, R, M, rt),
         TrailRight(t, a), StoreRight(M, W, ls, rt, rem),
         NEW s \in 1..MaxClause, s \notin DOMAIN M, NEW c, NEW temporary \in BOOLEAN, NEW D \in SUBSET ls,
         \A i \in D : ~ (M[i].c0 \in a /\ R[var(M[i].c0)] = <<"clause", i>>)
  PROVE  ReasonsKept(t, t, R, M, rt, Without(With(M, s, c), D), SlotsWith(rt, temporary, s))
  <1> DEFINE N == Without(With(M, s, c), D)
             r1 == SlotsWith(rt, temporary, s)
  <1>1. DOMAIN N = (DOMAIN M \cup {s}) \ D /\ \A i \in DOMAIN M \ D : N[i] = M[i]
    <2> DEFINE X == With(M, s, c)
    <2>1. DOMAIN X = DOMAIN M \cup {s} /\ \A i \in DOMAIN M : i # s => X[i] = M[i]
      BY DEF With
    <2> HIDE DEF X
    <2>2. DOMAIN Without(X, D) = DOMAIN X \ D /\ \A i \in DOMAIN X \ D : Without(X, D)[i] = X[i]
      BY WithoutFacts
    <2>3. N = Without(X, D)
      BY DEF X
    <2> HIDE DEF N
    <2> QED
      BY <2>1, <2>2, <2>3
  <1>2. rt \in Seq(SUBSET (1..MaxClause)) /\ Len(rt) = Len(t) /\ t \in Seq(Seq(Lit)) /\ Len(t) > 0
    BY DEF StackTyped
  <1>3. /\ DOMAIN rt = 1 .. Len(rt) /\ Len(r1) = Len(rt) /\ \A k \in DOMAIN rt : r1[k] \subseteq rt[k] \cup {s}
    BY <1>2, SlotsFacts
  <1> HIDE DEF N, r1
  <1> SUFFICES ASSUME NEW l \in 2 .. Len(t), NEW i \in 2 .. Len(t[l]), NEW j,
                      R[var(t[l][i])] = <<"clause", j>>, Lasts(M, rt, j, l), M[j].temp \/ M[j].c0 = t[l][i]
               PROVE  Lasts(N, r1, j, l) /\ (N[j].temp \/ N[j].c0 = t[l][i]) /\ Rest(N[j]) = Rest(M[j])
    BY DEF ReasonsKept, N, r1
  <1>4. j \in DOMAIN M /\ j # s /\ \A k \in l + 1 .. Len(rt) : j \notin rt[k]
    BY DEF Lasts
  <1>5. t[l][i] \in a
    <2>1. l \in 1 .. Len(t) /\ DOMAIN t = 1 .. Len(t)
      BY <1>2, Places
    <2>2. i \in DOMAIN t[l]
      BY <2>1, <1>2, Places
    <2> QED
      BY <2>1, <2>2 DEF TrailRight
  <1>6. j \notin D
    <2> SUFFICES ASSUME j \in D PROVE FALSE
      OBVIOUS
    <2>1. ~ M[j].temp
      BY DEF StoreRight, Kept
    <2> QED
      BY <2>1, <1>5
  <1>7. \A k \in l + 1 .. Len(r1) : j \notin r1[k]
    <2> TAKE k \in l + 1 .. Len(r1)
    <2>1. k \in l + 1 .. Len(rt) /\ k \in DOMAIN rt
      BY <1>2, <1>3
    <2> QED
      BY <2>1, <1>3, <1>4
  <1> QED
    BY <1>1, <1>4, <1>6, <1>7 DEF Lasts


LEMMA OutSize ==
  ASSUME given \in DOMAIN Runs, NEW S \in SUBSET Lit
  PROVE  /\ Cardinality(S) \in Nat
         /\ Cardinality(S) + 1 = 1 <=> S = {}
         /\ \A x \in S : Cardinality(S) + 1 = 2 => S = {x}
  <1>1. IsFiniteSet(S)
    BY LitFinite
  <1>2. Cardinality(S) \in Nat
    BY <1>1, FS_CardinalityType
  <1>3. Cardinality(S) = 0 <=> S = {}
    BY <1>1, FS_EmptySet
  <1>4. ASSUME NEW x \in S, Cardinality(S) + 1 = 2 PROVE S = {x}
    <2>1. Cardinality(S) = 1
      BY <1>2, <1>4
    <2>2. \E y : S = {y}
      BY <2>1, <1>1, FS_Singleton
    <2> QED
      BY <2>2
  <1> QED
    BY <1>2, <1>3, <1>4

(* What reduceDB drops: learnt clauses that are no reasons. *)
LEMMA Droppable ==
  ASSUME NEW S, NEW droppable, NEW drop \in reduceDB(S, droppable)
  PROVE  drop \subseteq S /\ drop \subseteq droppable
  <1>1. CASE Cardinality(S) < nof_learnts
    <2>1. drop = {}
      BY <1>1 DEF reduceDB
    <2> QED
      BY <2>1
  <1>2. CASE ~ (Cardinality(S) < nof_learnts)
    <2>1. drop \in {half \cap droppable : half \in {T \in SUBSET S : Cardinality(T) = Cardinality(S) \div 2}}
      BY <1>2 DEF reduceDB
    <2>2. PICK half \in SUBSET S : drop = half \cap droppable
      BY <2>1
    <2> QED
      BY <2>2
  <1> QED
    BY <1>1, <1>2

(* The watches of the learnt clause, whichever way it is stored. *)
LearntHere(M, rt, rem, out, c0, c1, s, absorbed, stays) ==
  /\ out \in SUBSET Lit /\ c0 \in Lit /\ ((c1 = 0 /\ out = {}) \/ c1 \in out) /\ s \in 1..MaxClause
  /\ absorbed \in BOOLEAN /\ stays \in BOOLEAN
  /\ (absorbed => out = {c1}) /\ (stays => out # {})
  /\ Entails(rem, out \cup {c0}) /\ Learnable(out \cup {c0})
  /\ (stays => Kept(M, rt, s) /\ M[s].c0 = c0 /\ M[s].c1 = c1)

LearntWatches(W, c0, c1, s, absorbed, stays) ==
  IF absorbed THEN attach(W, c0, c1, ~ one_watch, <<"bin", c1>>, <<"bin", c0>>)
  ELSE IF stays THEN attach(W, c0, c1, ~ one_watch, <<"clause", s>>, <<"clause", s>>)
  ELSE W

WatchedRightly(W, W1, M, rt, rem) ==
  /\ W1 \in [Lit -> SUBSET WatchElem]
  /\ \A l \in Lit : \A e \in W1[l] : e \in W[l] \/ WatchRight(M, rt, rem, l, e)

LEMMA LearntWatched ==
  ASSUME given \in DOMAIN Runs, NEW W \in [Lit -> SUBSET WatchElem], NEW M, NEW rt, NEW rem,
         NEW out, NEW c0, NEW c1, NEW s, NEW absorbed, NEW stays,
         LearntHere(M, rt, rem, out, c0, c1, s, absorbed, stays)
  PROVE  WatchedRightly(W, LearntWatches(W, c0, c1, s, absorbed, stays), M, rt, rem)
  <1> DEFINE W1 == LearntWatches(W, c0, c1, s, absorbed, stays)
  <1>a. W1 = IF absorbed THEN attach(W, c0, c1, ~ one_watch, <<"bin", c1>>, <<"bin", c0>>)
             ELSE IF stays THEN attach(W, c0, c1, ~ one_watch, <<"clause", s>>, <<"clause", s>>)
             ELSE W
    BY DEF LearntWatches
  <1>b. /\ out \in SUBSET Lit /\ c0 \in Lit /\ ((c1 = 0 /\ out = {}) \/ c1 \in out) /\ s \in 1..MaxClause
        /\ absorbed \in BOOLEAN /\ stays \in BOOLEAN
        /\ (absorbed => out = {c1}) /\ (stays => out # {})
        /\ Entails(rem, out \cup {c0}) /\ Learnable(out \cup {c0})
        /\ (stays => Kept(M, rt, s) /\ M[s].c0 = c0 /\ M[s].c1 = c1)
    BY DEF LearntHere
  <1> HIDE DEF W1
  <1> SUFFICES /\ W1 \in [Lit -> SUBSET WatchElem]
               /\ \A l \in Lit : \A e \in W1[l] : e \in W[l] \/ WatchRight(M, rt, rem, l, e)
    BY DEF W1, WatchedRightly
  <1>1. /\ \A l \in Lit : l \in Int /\ l # 0 /\ -l \in Lit /\ -(-l) = l
    BY LitFacts
  <1>2. CASE absorbed
    <2>1. c1 \in Lit /\ out = {c1}
      BY <1>2, <1>b
    <2>2. c0 \in Int /\ c1 \in Int /\ <<"bin", c1>> \in WatchElem /\ <<"bin", c0>> \in WatchElem
      BY <2>1, <1>1, <1>b DEF WatchElem
    <2>3. /\ W1 \in [Lit -> SUBSET WatchElem]
          /\ \A l \in Lit : \A e \in W1[l] :
               e \in W[l] \/ (l = -c1 /\ e = <<"bin", c0>>) \/ (l = -c0 /\ e = <<"bin", c1>>)
      <3> DEFINE f == <<"bin", c1>>
                 g == <<"bin", c0>>
      <3>1. /\ W1 = attach(W, c0, c1, ~ one_watch, f, g) /\ f \in WatchElem /\ g \in WatchElem
            /\ c0 \in Int /\ c1 \in Int
        BY <1>2, <1>a, <2>2
      <3> HIDE DEF f, g
      <3>2. /\ W1 \in [Lit -> SUBSET WatchElem]
            /\ \A l \in Lit : \A e \in W1[l] : e \in W[l] \/ (l = -c1 /\ e = g) \/ (l = -c0 /\ e = f)
        BY <3>1, AttachLearnt
      <3> QED
        BY <3>2 DEF f, g
    <2>4. Entails(rem, {c1, c0}) /\ Entails(rem, {c0, c1}) /\ Learnable({c0}) /\ Learnable({c1})
      <3>1. out \cup {c0} = {c1, c0} /\ {c0, c1} = {c1, c0}
        BY <2>1
      <3> QED
        BY <3>1, <1>b DEF Learnable, vars_of
    <2>5. WatchRight(M, rt, rem, -c1, <<"bin", c0>>) /\ WatchRight(M, rt, rem, -c0, <<"bin", c1>>)
      <3>1. -(-c1) = c1 /\ -(-c0) = c0
        BY <2>1, <1>1, <1>b
      <3> QED
        BY <3>1, <2>4 DEF WatchRight
    <2> QED
      BY <2>3, <2>5
  <1>3. CASE ~ absorbed /\ stays
    <2>1. c1 \in Lit /\ c1 \in Int /\ c0 \in Int /\ <<"clause", s>> \in WatchElem
      BY <1>1, <1>3, <1>b DEF WatchElem
    <2>2. /\ W1 \in [Lit -> SUBSET WatchElem]
          /\ \A l \in Lit : \A e \in W1[l] :
               e \in W[l] \/ (l = -c1 /\ e = <<"clause", s>>) \/ (l = -c0 /\ e = <<"clause", s>>)
      <3> DEFINE f == <<"clause", s>>
      <3>1. W1 = attach(W, c0, c1, ~ one_watch, f, f) /\ f \in WatchElem
        BY <1>3, <1>a, <2>1
      <3> HIDE DEF f
      <3>2. /\ W1 \in [Lit -> SUBSET WatchElem]
            /\ \A l \in Lit : \A e \in W1[l] : e \in W[l] \/ (l = -c1 /\ e = f) \/ (l = -c0 /\ e = f)
        BY <2>1, <3>1, AttachLearnt
      <3> QED
        BY <3>2 DEF f
    <2>3. WatchRight(M, rt, rem, -c1, <<"clause", s>>) /\ WatchRight(M, rt, rem, -c0, <<"clause", s>>)
      <3>1. -(-c1) = c1 /\ -(-c0) = c0 /\ c0 # 0 /\ c1 # 0
        BY <2>1, <1>1, <1>b
      <3> QED
        BY <3>1, <1>3, <1>b DEF WatchRight
    <2> QED
      BY <2>2, <2>3
  <1>4. CASE ~ absorbed /\ ~ stays
    BY <1>4, <1>a
  <1> QED
    BY <1>2, <1>3, <1>4


LEMMA backjumpKeeps ==
  ASSUME SatInv, backjump, given' = given
  PROVE  SatInv'
  <1> DEFINE c0 == -an.p
             lv == findBackTrackLevel
             n == Cardinality(an.out) + 1
             absorbed == n = 2 /\ bin_clause_opt
             stays == n > 1 /\ ~ absorbed
             temporary == n <= 2 /\ bin_clause_opt
             kept == Keep(rtrail, lv)
             lower == Without(clause, Freed(lv))
             s == SlotIn(lower)
             rem == Remaining
             t1 == Keep(trail, lv)
             a1 == assigns \ UndoneOf(trail, lv)
             R1 == ForgetIn(reason, UndoneOf(trail, lv))
             ls1 == IF stays THEN learnts \cup {s} ELSE learnts
             rt1 == SlotsWith(kept, temporary, s)
             droppable == {i \in learnts : ~ locked(i) \/ clause[i].c0 \in Undone(lv)}
             cl(c1) == [c0 |-> c0, c1 |-> c1, rest |-> an.out \ {c1}, learnt |-> TRUE, temp |-> FALSE]
             r(c1) == IF absorbed THEN <<"lits", {c1}>> ELSE <<"clause", s>>
             added(c1) == IF absorbed THEN attach(watches, c0, c1, ~ one_watch, <<"bin", c1>>, <<"bin", c0>>)
                          ELSE IF stays THEN attach(watches, c0, c1, ~ one_watch, <<"clause", s>>, <<"clause", s>>)
                          ELSE watches
  <1>1. /\ pc = "learn" /\ Unlearnable = {} /\ FreeIn(lower) # {} /\ seen' = Cleared
        /\ \E c1 \in IF n = 1 THEN {0} ELSE latest : \E drop \in reduceDB(ls1, droppable) :
             /\ clause' = Without(With(lower, s, cl(c1)), drop)
             /\ learnts' = ls1 \ drop
             /\ watches' = detach(added(c1), drop)
             /\ reason' = [Forget(Undone(lv)) EXCEPT ![var(c0)] = r(c1)]
        /\ assigns' = (assigns \ Undone(lv)) \cup {c0}
        /\ trail' = [t1 EXCEPT ![lv + 1] = Append(@, c0)]
        /\ qhead' = Keep(qhead, lv)
        /\ rtrail' = IF temporary THEN [kept EXCEPT ![lv + 1] = @ \cup {s}] ELSE kept
        /\ confl' = NoReason /\ an' = Unset /\ pc' = "propagate"
        /\ UNCHANGED <<loaded, todo, budget, solutions, found>>
    BY DEF backjump
  <1>2. PICK c1 \in IF n = 1 THEN {0} ELSE latest : \E drop \in reduceDB(ls1, droppable) :
          /\ clause' = Without(With(lower, s, cl(c1)), drop)
          /\ learnts' = ls1 \ drop
          /\ watches' = detach(added(c1), drop)
          /\ reason' = [Forget(Undone(lv)) EXCEPT ![var(c0)] = r(c1)]
    BY <1>1
  <1>3. PICK drop \in reduceDB(ls1, droppable) :
          /\ clause' = Without(With(lower, s, cl(c1)), drop)
          /\ learnts' = ls1 \ drop
          /\ watches' = detach(added(c1), drop)
          /\ reason' = [Forget(Undone(lv)) EXCEPT ![var(c0)] = r(c1)]
    BY <1>2
  <1> DEFINE c == cl(c1)
             N == With(lower, s, c)
             W1 == added(c1)
             r1 == r(c1)
  <1>4. LearnsAt(lv)
    BY <1>1, LearnFacts
  <1> HIDE DEF lv
  <1>5. /\ lv \in Nat /\ lv < Len(trail) - 1
        /\ c0 \in Lit /\ -c0 = an.p /\ var(c0) \notin Hidden
        /\ an.p \in assigns /\ an.p \in UndoneOf(trail, lv) /\ c0 \notin assigns
        /\ \A q \in an.out : q \in Lit /\ -q \in a1
        /\ (an.out # {} => lv > 0)
        /\ Learnable(an.out \cup {c0})
        /\ Entails(rem, an.out \cup {c0})
        /\ Cleared = vars_of(Root)
    BY <1>4 DEF LearnsAt
  <1>6. /\ given \in DOMAIN Runs /\ StackTyped(trail, assigns, reason, clause, rtrail)
        /\ DOMAIN clause \subseteq 1..MaxClause /\ loaded \in 0 .. Len(Problem)
        /\ learnts \subseteq 1..MaxClause /\ watches \in [Lit -> SUBSET WatchElem]
        /\ qhead \in Seq(Nat) /\ Len(qhead) = Len(trail)
        /\ todo \subseteq WatchElem /\ seen \subseteq Var
        /\ solutions \in Nat /\ budget \in Int /\ found \subseteq SUBSET Lit
        /\ rem \in SUBSET Models /\ MaxClause \in Nat
    BY SatParts, TypedNow
  <1>7. /\ StackRight(trail, assigns, reason, clause, rtrail, rem)
        /\ StoreRight(clause, watches, learnts, rtrail, rem) /\ todo = {}
    BY <1>1, SatParts DEF Phases
  <1>8. /\ trail \in Seq(Seq(Lit)) /\ Len(trail) \in Nat /\ Len(trail) > 1
        /\ assigns \in SUBSET Lit /\ TrailRight(trail, assigns) /\ an.out \in SUBSET Lit
    BY <1>1, AnalysisFacts
  <1>9. Undone(lv) = UndoneOf(trail, lv) /\ Freed(lv) = FreedOf(rtrail, lv) /\ Forget(Undone(lv)) = R1
    BY DEF Undone, UndoneOf, Freed, FreedOf, Forget, ForgetIn
  <1>10. lv < Len(trail) /\ lv < Len(rtrail) /\ lv < Len(qhead)
    BY <1>5, <1>6, <1>8 DEF StackTyped
  <1>11. lower = Without(clause, FreedOf(rtrail, lv))
    BY <1>9
  <1> HIDE DEF rem, lower
  <1>12. /\ StackTyped(t1, a1, R1, lower, kept) /\ StackRight(t1, a1, R1, lower, kept, rem)
         /\ StoreRight(lower, watches, learnts, kept, rem)
         /\ OffTrail(t1, a1) = OffTrail(trail, assigns)
    BY <1>5, <1>6, <1>7, <1>10, <1>11, StackBack
  <1>13. /\ t1 \in Seq(Seq(Lit)) /\ Len(t1) = lv + 1 /\ kept \in Seq(SUBSET (1..MaxClause)) /\ Len(kept) = lv + 1
         /\ Keep(qhead, lv) \in Seq(Nat) /\ Len(Keep(qhead, lv)) = lv + 1
    <2>1. rtrail \in Seq(SUBSET (1..MaxClause))
      BY <1>6 DEF StackTyped
    <2> QED
      BY <2>1, <1>5, <1>6, <1>8, <1>10, KeptList
  <1>14. s \in 1..MaxClause /\ s \notin DOMAIN lower
    BY <1>1, <1>6, SlotFacts
  <1>15. /\ n \in Nat /\ (n = 1 <=> an.out = {}) /\ \A x \in an.out : n = 2 => an.out = {x}
    BY <1>6, <1>8, OutSize
  <1>16. (c1 = 0 /\ an.out = {}) \/ c1 \in an.out
    BY <1>15 DEF latest
  <1>17. /\ absorbed \in BOOLEAN /\ stays \in BOOLEAN /\ temporary \in BOOLEAN
         /\ (stays => ~ temporary /\ an.out # {}) /\ (absorbed => an.out = {c1})
    <2>1. n = 2 => an.out # {}
      BY <1>15
    <2>2. n > 1 => an.out # {}
      BY <1>15
    <2>3. n > 1 /\ n # 2 => ~ (n <= 2)
      BY <1>15
    <2>4. n = 2 => an.out = {c1}
      BY <2>1, <1>15, <1>16
    <2> HIDE DEF n
    <2> QED
      BY <2>1, <2>2, <2>3, <2>4
  <1> HIDE DEF n, s, absorbed, stays, temporary, kept, t1, a1, R1
  <1>18. /\ c \in ClauseObject /\ Lits(c) = an.out \cup {c0} /\ Rest(c) = an.out
         /\ c.c0 = c0 /\ c.c1 = c1 /\ ~ c.temp
    <2>1. c0 \notin an.out
      <3> SUFFICES ASSUME c0 \in an.out PROVE FALSE
        OBVIOUS
      <3>1. an.p \in a1
        BY <1>5
      <3> QED
        BY <3>1, <1>5 DEF a1
    <2>2. c = [c0 |-> c0, c1 |-> c1, rest |-> an.out \ {c1}, learnt |-> TRUE, temp |-> FALSE]
      OBVIOUS
    <2> HIDE DEF c0, c, cl
    <2>3. c0 \in Lit /\ an.out \in SUBSET Lit /\ given \in DOMAIN Runs
      BY <1>5, <1>6, <1>8
    <2> QED
      BY <2>1, <2>2, <2>3, <1>16, LearntMade
  <1>19. drop \subseteq ls1 /\ drop \subseteq droppable
    BY <1>3, Droppable
  <1> HIDE DEF c, c0
  <1>20. DOMAIN N = DOMAIN lower \cup {s} /\ N[s] = c
    BY DEF With
  <1>21. stays => Kept(N, rt1, s)
    <2> SUFFICES ASSUME stays PROVE Kept(N, rt1, s)
      OBVIOUS
    <2>1. rt1 = kept
      BY <1>17 DEF SlotsWith
    <2>2. Kept(With(lower, s, c), kept, s)
      BY <1>5, <1>12, <1>14, <1>18, StoreAdd
    <2> QED
      BY <2>1, <2>2
  <1> HIDE DEF N, rt1, ls1
  <1>22. /\ W1 \in [Lit -> SUBSET WatchElem]
         /\ \A l \in Lit : \A e \in W1[l] : e \in watches[l] \/ WatchRight(N, rt1, rem, l, e)
    <2>1. stays => Kept(N, rt1, s) /\ N[s].c0 = c0 /\ N[s].c1 = c1
      BY <1>18, <1>20, <1>21
    <2>2. absorbed \in BOOLEAN /\ stays \in BOOLEAN /\ (absorbed => an.out = {c1}) /\ (stays => an.out # {})
      BY <1>17
    <2>3. LearntHere(N, rt1, rem, an.out, c0, c1, s, absorbed, stays)
      BY <2>1, <2>2, <1>5, <1>8, <1>14, <1>16 DEF LearntHere
    <2>4. WatchedRightly(watches, LearntWatches(watches, c0, c1, s, absorbed, stays), N, rt1, rem)
      BY <2>3, <1>6, LearntWatched
    <2>5. W1 = LearntWatches(watches, c0, c1, s, absorbed, stays)
      BY DEF LearntWatches
    <2> HIDE DEF W1
    <2> QED
      BY <2>4, <2>5 DEF WatchedRightly
  <1> HIDE DEF W1
  <1>23. StoreRight(N, W1, ls1, rt1, rem)
    <2>1. Entails(rem, Lits(c)) /\ Learnable(Lits(c)) /\ Len(kept) > 0
      BY <1>5, <1>13, <1>18
    <2>2. \A l \in Lit : \A e \in W1[l] :
            e \in watches[l] \/ WatchRight(With(lower, s, c), SlotsWith(kept, temporary, s), rem, l, e)
      BY <1>22 DEF N, rt1
    <2>3. stays => ~ temporary
      BY <1>17
    <2>4. StoreRight(With(lower, s, c), W1, IF stays THEN learnts \cup {s} ELSE learnts, SlotsWith(kept, temporary, s), rem)
      BY <2>1, <2>2, <2>3, <1>12, <1>13, <1>14, <1>17, <1>18, LearntStored
    <2> QED
      BY <2>4 DEF N, rt1, ls1
  <1>24. /\ StoreRight(clause', watches', learnts', rt1, rem) /\ watches' \in [Lit -> SUBSET WatchElem]
    <2>1. drop \in SUBSET ls1
      BY <1>19
    <2>2. clause' = Without(N, drop) /\ watches' = detach(W1, drop) /\ learnts' = ls1 \ drop
      BY <1>3 DEF N, W1, c
    <2> QED
      BY <2>1, <2>2, <1>6, <1>22, <1>23, StoreDropped
  <1>25. drop \in SUBSET learnts /\ \A i \in drop : ~ (lower[i].c0 \in a1 /\ R1[var(lower[i].c0)] = <<"clause", i>>)
    <2>1. drop \in SUBSET learnts
      BY <1>19
    <2>2. ASSUME NEW i \in drop, lower[i].c0 \in a1, R1[var(lower[i].c0)] = <<"clause", i>> PROVE FALSE
      <3>1. i \in DOMAIN lower
        BY <2>1, <1>12 DEF StoreRight, Kept
      <3>2. lower[i] = clause[i]
        BY <3>1, <1>11 DEF Without
      <3>3. SameReasons(a1, reason, R1)
        BY <1>5, <1>6, <1>8, <1>10, BackSame DEF a1, R1
      <3>4. reason[var(clause[i].c0)] = <<"clause", i>> /\ clause[i].c0 \in a1
        BY <3>2, <3>3, <2>2 DEF SameReasons
      <3>5. isTrue(clause[i].c0) /\ clause[i].c0 \notin UndoneOf(trail, lv)
        BY <3>4 DEF a1, isTrue
      <3> QED
        BY <3>4, <3>5, <1>9, <1>19 DEF locked
    <2> QED
      BY <2>1, <2>2
  <1>26. /\ StackRight(t1, a1, R1, clause', rt1, rem) /\ StackTyped(t1, a1, R1, clause', rt1)
         /\ DOMAIN clause' \subseteq 1..MaxClause /\ Len(rt1) = Len(t1)
    <2>1. clause' = Without(With(lower, s, c), drop)
      BY <1>3 DEF c
    <2>2. TrailRight(t1, a1)
      BY <1>12 DEF StackRight
    <2>3. ReasonsKept(t1, t1, R1, lower, kept, Without(With(lower, s, c), drop), SlotsWith(kept, temporary, s))
      BY <2>2, <1>12, <1>14, <1>17, <1>25, ReasonsStay
    <2>4. rem \in SUBSET rem
      OBVIOUS
    <2>5. StackRight(t1, a1, R1, Without(With(lower, s, c), drop), SlotsWith(kept, temporary, s), rem)
      BY <2>3, <2>4, <1>12, StackMemory
    <2>6. rt1 \in Seq(SUBSET (1..MaxClause)) /\ Len(rt1) = lv + 1
      <3>1. Len(kept) > 0
        BY <1>5, <1>13
      <3> QED
        BY <3>1, <1>13, <1>14, <1>17, SlotsFacts DEF rt1
    <2>7. lower \in [DOMAIN lower -> ClauseObject]
      BY <1>12 DEF StackTyped
    <2>8. N \in [DOMAIN N -> ClauseObject]
      BY <2>7, <1>18, WithFacts DEF N
    <2>9. clause' = Without(N, drop)
      BY <2>1 DEF N
    <2>10. clause' \in [DOMAIN clause' -> ClauseObject] /\ DOMAIN clause' \subseteq DOMAIN N
      <3> DEFINE M1 == Without(N, drop)
      <3>1. M1 \in [DOMAIN M1 -> ClauseObject]
        BY <2>8, WithoutFacts
      <3>2. DOMAIN M1 \subseteq DOMAIN N
        BY DEF Without
      <3> HIDE DEF M1
      <3>3. clause' = M1
        BY <2>9 DEF M1
      <3> QED
        BY <3>1, <3>2, <3>3
    <2>11. DOMAIN lower \subseteq 1..MaxClause
      BY <1>6, <1>11 DEF Without
    <2>12. DOMAIN clause' \subseteq 1..MaxClause
      BY <2>10, <2>11, <1>14, <1>20
    <2>13. StackTyped(t1, a1, R1, clause', rt1)
      BY <2>6, <2>10, <1>12, <1>13 DEF StackTyped
    <2> QED
      BY <2>1, <2>5, <2>6, <2>12, <2>13, <1>13 DEF rt1
  <1>27. /\ c0 \notin a1 /\ -c0 \notin a1
    BY <1>5 DEF a1
  <1>28. r1 \in Reason /\ r1 # NoReason /\ ExplanationIn(clause', r1) = an.out
         /\ (r1[1] = "clause" => Lasts(clause', rt1, r1[2], Len(t1)) /\ clause'[r1[2]].c0 = c0)
    <2>1. CASE absorbed
      <3>1. r1 = <<"lits", {c1}>> /\ an.out = {c1}
        BY <2>1, <1>17
      <3>2. {c1} \in SUBSET Lit
        BY <3>1, <1>8
      <3> HIDE DEF r1
      <3>3. r1[1] = "lits" /\ r1[2] = {c1}
        BY <3>1
      <3>4. r1 \in Reason /\ r1 # NoReason
        BY <3>1, <3>2 DEF Reason, NoReason
      <3> QED
        BY <3>1, <3>3, <3>4, Explanations
    <2>2. CASE ~ absorbed
      <3>1. r1 = <<"clause", s>>
        BY <2>2
      <3>2. clause' = Without(N, drop)
        BY <1>3 DEF N, c
      <3>3. s \notin drop
        <4>1. s \notin learnts
          BY <1>12, <1>14 DEF StoreRight, Kept
        <4> QED
          BY <4>1, <1>25
      <3>4. s \in DOMAIN clause' /\ clause'[s] = c
        BY <3>2, <3>3, <1>20 DEF Without
      <3> HIDE DEF r1
      <3>5. r1[1] = "clause" /\ r1[2] = s /\ r1 \in Reason /\ r1 # NoReason
        BY <3>1, <1>14 DEF Reason, NoReason
      <3>6. Lasts(clause', rt1, s, Len(t1))
        <4>1. Len(t1) + 1 .. Len(rt1) = {}
          BY <1>13, <1>26
        <4> QED
          BY <4>1, <3>4 DEF Lasts
      <3> QED
        BY <3>4, <3>5, <3>6, <1>18, Explanations
    <2> QED
      BY <2>1, <2>2
  <1> HIDE DEF r1
  <1>29. StackRight(Pushed(t1, c0), a1 \cup {c0}, [R1 EXCEPT ![var(c0)] = r1], clause', rt1, rem)
    <2>1. Len(t1) = 1 => \A m \in rem : c0 \in m
      <3> SUFFICES ASSUME Len(t1) = 1, NEW m \in rem PROVE c0 \in m
        OBVIOUS
      <3>1. an.out = {}
        <4> DEFINE k == Len(t1)
        <4>1. lv = 0
          <5>1. k = 1 /\ k = lv + 1 /\ lv \in Nat
            BY <1>5, <1>13
          <5> HIDE DEF k
          <5> QED
            BY <5>1
        <4> QED
          BY <4>1, <1>5
      <3>2. m \cap (an.out \cup {c0}) # {}
        BY <1>5 DEF Entails
      <3> QED
        BY <3>1, <3>2
    <2>2. Entails(rem, {c0} \cup ExplanationIn(clause', r1))
      <3>1. {c0} \cup an.out = an.out \cup {c0}
        OBVIOUS
      <3> QED
        BY <3>1, <1>5, <1>28
    <2>3. \A q \in ExplanationIn(clause', r1) : -q \in a1
      BY <1>5, <1>28
    <2>4. rem \in SUBSET Models /\ c0 \in Lit /\ var(c0) \notin Hidden
      BY <1>5, <1>6
    <2> QED
      BY <2>1, <2>2, <2>3, <2>4, <1>26, <1>27, <1>28, StackPush
  <1>30. StackTyped(Pushed(t1, c0), a1 \cup {c0}, [R1 EXCEPT ![var(c0)] = r1], clause', rt1)
    BY <1>5, <1>26, <1>28, PushTyped
  <1>31. /\ trail' = Pushed(t1, c0) /\ assigns' = a1 \cup {c0} /\ reason' = [R1 EXCEPT ![var(c0)] = r1]
         /\ rtrail' = rt1
    <2>1. trail' = Pushed(t1, c0)
      BY <1>1, <1>13 DEF Pushed, c0, t1
    <2>2. assigns' = a1 \cup {c0}
      BY <1>1, <1>9 DEF a1, c0
    <2>3. reason' = [R1 EXCEPT ![var(c0)] = r1]
      BY <1>3, <1>9 DEF r1, c0
    <2>4. rtrail' = rt1
      BY <1>1, <1>13 DEF rt1, SlotsWith
    <2> QED
      BY <2>1, <2>2, <2>3, <2>4
  <1>32. Len(trail') = lv + 1
    <2>1. Len(t1) > 0 /\ c0 \in Lit
      BY <1>5, <1>13
    <2> QED
      BY <2>1, <1>13, <1>31, PushShape
  <1>33. Remaining' = rem
    BY <1>1, SameRemaining DEF rem
  <1>34. Typed'
    <2>1. an' \in Analysis
      <3>1. {} \in SUBSET Lit /\ {} \in SUBSET Var /\ NoReason \in Reason
        BY DEF Reason
      <3> QED
        BY <3>1, <1>1 DEF Unset, Analysis
    <2>2. learnts' \subseteq 1..MaxClause
      <3>1. ls1 \subseteq 1..MaxClause
        BY <1>6, <1>14 DEF ls1
      <3> QED
        BY <3>1, <1>3
    <2>3. StackTyped(trail', assigns', reason', clause', rtrail')
      BY <1>30, <1>31
    <2>4. pc' \in Phase /\ confl' \in Reason
      BY <1>1 DEF Phase, Reason
    <2>5. seen' \subseteq Var
      <3>1. Root \in SUBSET Lit
        BY <1>8 DEF Root
      <3> QED
        BY <3>1, <1>1, <1>5, <1>6, NegFacts
    <2>6. /\ loaded' \in 0 .. Len(Problem) /\ qhead' \in Seq(Nat) /\ Len(qhead') = Len(trail')
          /\ todo' \subseteq WatchElem /\ solutions' \in Nat /\ budget' \in Int /\ found' \subseteq SUBSET Lit
      BY <1>1, <1>6, <1>13, <1>32
    <2> QED
      BY <2>1, <2>2, <2>3, <2>4, <2>5, <2>6, <1>24, <1>26, TypedNext
  <1>35. SeenRight'
    <2>1. OffTrail(trail', assigns') = OffTrail(t1, a1)
      <3>1. Len(t1) > 0 /\ c0 \in Lit
        BY <1>5, <1>13
      <3> QED
        BY <3>1, <1>13, <1>27, <1>31, OffPush
    <2>2. OffTrail(trail, assigns) = Root
      BY <1>6, <1>8, LastTrue DEF Root, Deep
    <2>3. seen' = vars_of(OffTrail(trail', assigns'))
      BY <2>1, <2>2, <1>1, <1>5, <1>12
    <2>4. vars_of(assigns \ UNION {Elems(trail[l]) : l \in DOMAIN trail})' = vars_of(OffTrail(trail', assigns'))
      BY DEF vars_of, OffTrail, Elems
    <2> QED
      BY <2>3, <2>4 DEF SeenRight
  <1>36. ConflictRight'
    BY <1>1, NoConflict
  <1>37. /\ StackRight(trail', assigns', reason', clause', rtrail', rem)
         /\ StoreRight(clause', watches', learnts', rtrail', rem)
    BY <1>24, <1>29, <1>31
  <1>38. todo' = {} /\ pc' = "propagate"
    BY <1>1, <1>7
  <1> QED
    BY <1>33, <1>34, <1>35, <1>36, <1>37, <1>38, Settled

-----------------------------------------------------------------------------
(* The theorems. *)

LEMMA NextKeeps ==
  ASSUME SatInv, [Next]_vars
  PROVE  SatInv'
  <1>1. CASE UNCHANGED vars
    BY <1>1, NothingChanges
  <1>2. CASE Next
    <2>1. given' = given
      BY <1>2 DEF Next
    <2>2. CASE addClause \/ startSearch
      BY <2>1, <2>2, addClauseAdds, startSearchKeeps
    <2>3. CASE propagate
      BY <2>1, <2>3, nextLiteralKeeps, absorbedBinaryKeeps, watchedClauseKeeps, inferKeeps, rejectKeeps
         DEF propagate
    <2>4. CASE search
      BY <2>1, <2>4, restartKeeps, topLevelCleanUpKeeps, decideKeeps, solutionKeeps DEF search
    <2>5. CASE analyze
      BY <2>1, <2>5, conflictKeeps, resolveKeeps, selectKeeps, explainUnlearnableKeeps, backjumpKeeps DEF analyze
    <2>6. CASE returned
      BY <2>6, NothingChanges DEF returned
    <2> QED
      BY <1>2, <2>2, <2>3, <2>4, <2>5, <2>6 DEF Next
  <1> QED
    BY <1>1, <1>2

(* Loading, propagation, the turns of the search loop and every step of       *)
(* conflict analysis keep the solver's state right.                          *)
THEOREM SatInvariance == Spec => []SatInv
  <1>1. Init => SatInv
    BY InitRight
  <1>2. SatInv /\ [Next]_vars => SatInv'
    BY NextKeeps
  <1> QED
    BY <1>1, <1>2, PTL DEF Spec

(* No clause kept, no literal fixed at the root and no nogood derived by      *)
(* conflict analysis excludes a solution that is still to be printed.        *)
THEOREM LearningIsSound == Spec => []LearntEntailed
  <1>1. SatInv => LearntEntailed
    <2> SUFFICES ASSUME SatInv, NEW m \in Remaining
                 PROVE  /\ \A C \in Known : Satisfies(m, C)
                        /\ pc = "learn" /\ Unlearnable = {} => Satisfies(m, an.out \cup {-an.p})
      BY DEF LearntEntailed
    <2>1. /\ StackTyped(trail, assigns, reason, clause, rtrail)
          /\ StackRight(trail, assigns, reason, clause, rtrail, Remaining)
          /\ StoreRight(clause, watches, learnts, rtrail, Remaining)
      BY SatParts, TypedNow
    <2>2. ASSUME NEW i \in DOMAIN clause, ~ clause[i].temp PROVE m \cap Lits(clause[i]) # {}
      BY <2>1, <2>2 DEF StoreRight, Entails
    <2>3. ASSUME NEW l \in Lit, NEW e \in watches[l], e[1] = "bin" PROVE m \cap {-l, e[2]} # {}
      <3>1. WatchRight(clause, rtrail, Remaining, l, e)
        BY <2>1 DEF StoreRight
      <3> QED
        BY <2>3, <3>1 DEF WatchRight, Entails
    <2>4. ASSUME NEW q \in assigns, levelOf(var(q)) = 0 PROVE m \cap {q} # {}
      <3>1. q \notin Deep
        BY <2>1, <2>4, Levels DEF StackTyped, StackRight
      <3>2. assigns \ Deep \subseteq m
        BY <2>1 DEF StackRight, RootRight, Deep
      <3> QED
        BY <3>1, <3>2
    <2>5. ASSUME NEW C \in Known PROVE Satisfies(m, C)
      <3>1. \/ \E i \in DOMAIN clause : ~ clause[i].temp /\ C = Lits(clause[i])
            \/ \E l \in Lit : \E e \in watches[l] : e[1] = "bin" /\ C = {-l, e[2]}
            \/ \E q \in assigns : levelOf(var(q)) = 0 /\ C = {q}
        <4> DEFINE objects == {Lits(clause[i]) : i \in {j \in DOMAIN clause : ~ clause[j].temp}}
                   binaries == UNION {{{-l, e[2]} : e \in {f \in watches[l] : f[1] = "bin"}} : l \in Lit}
                   units == {{l} : l \in {q \in assigns : levelOf(var(q)) = 0}}
        <4>1. Known = objects \cup binaries \cup units
          BY DEF Known
        <4>2. CASE C \in objects
          BY <4>2
        <4>3. CASE C \in binaries
          <5>1. PICK l \in Lit : C \in {{-l, e[2]} : e \in {f \in watches[l] : f[1] = "bin"}}
            BY <4>3
          <5> QED
            BY <5>1
        <4>4. CASE C \in units
          BY <4>4
        <4> HIDE DEF objects, binaries, units
        <4>5. C \in objects \/ C \in binaries \/ C \in units
          BY <2>5, <4>1
        <4> QED
          BY <4>2, <4>3, <4>4, <4>5
      <3> QED
        BY <3>1, <2>2, <2>3, <2>4 DEF Satisfies
    <2>6. pc = "learn" /\ Unlearnable = {} => Satisfies(m, an.out \cup {-an.p})
      BY LearnFacts DEF LearnsAt, Entails, Satisfies
    <2> QED
      BY <2>5, <2>6
  <1> QED
    BY <1>1, SatInvariance, PTL

(* "UNSATISFIABLE", or the end of the list of solutions, is said only when    *)
(* nothing is left to print.                                                 *)
THEOREM NothingLeftOut == Spec => [](pc = "GUN" => Remaining = {})
  <1>1. SatInv => (pc = "GUN" => Remaining = {})
    BY SatParts DEF Phases
  <1> QED
    BY <1>1, SatInvariance, PTL

LEMMA ExplanationTyped ==
  ASSUME given \in DOMAIN Runs, NEW M, NEW r \in Reason, r # NoReason,
         r[1] = "clause" => r[2] \in DOMAIN M /\ M[r[2]] \in ClauseObject
  PROVE  ExplanationIn(M, r) \subseteq Lit
  <1>1. CASE r[1] = "clause"
    <2>1. ExplanationIn(M, r) = Rest(M[r[2]]) /\ M[r[2]] \in ClauseObject
      BY <1>1, Explanations
    <2>2. \A c \in ClauseObject : Rest(c) \subseteq Lit
      BY DEF ClauseObject, Rest
    <2> QED
      BY <2>1, <2>2
  <1>2. CASE r[1] = "lits"
    BY <1>2, Explanations
  <1>3. CASE r[1] = "lazy"
    <2>1. ExplanationIn(M, r) = neg(r[2].body) /\ r[2] \in Inference
      BY <1>3, Explanations
    <2>2. r[2].body \in SUBSET Lit
      BY <2>1, RunFacts
    <2> QED
      BY <2>1, <2>2, NegFacts
  <1> QED
    BY <1>1, <1>2, <1>3, Explanations

(* The reasons of the literals and the conflict are there whenever they are   *)
(* read: never a clause that reduceDB, simplifyDB or a backjump has freed.    *)
(* What explains a literal was false before it, so that explaining literal    *)
(* after literal comes to an end.                                            *)
THEOREM ReasonsStayGood == Spec => []ReasonsHold
  <1>1. ASSUME SatInv, NEW l \in 2 .. Len(trail), NEW i \in DOMAIN trail[l]
        PROVE  LET p == trail[l][i]
                   r == reason[var(p)]
               IN  /\ r[1] = "clause" => r[2] \in DOMAIN clause
                   /\ IF r = NoReason THEN i = 1
                      ELSE /\ \A q \in Explanation(r) : isFalse(q) /\ Before(q, l, i)
                           /\ r[1] = "clause" /\ ~ clause[r[2]].temp => clause[r[2]].c0 = p
    <2> DEFINE p == trail[l][i]
               r == reason[var(p)]
    <2>1. /\ StackTyped(trail, assigns, reason, clause, rtrail)
          /\ StackRight(trail, assigns, reason, clause, rtrail, Remaining)
      BY <1>1, SatParts, TypedNow
    <2>2. /\ given \in DOMAIN Runs /\ trail \in Seq(Seq(Lit)) /\ Len(trail) \in Nat /\ Len(trail) > 0
          /\ assigns \in SUBSET Lit /\ TrailRight(trail, assigns) /\ reason \in [Var -> Reason]
          /\ clause \in [DOMAIN clause -> ClauseObject]
          /\ ReasonsRight(trail, assigns, reason, clause, rtrail, Remaining)
      BY <2>1, Places DEF StackTyped, StackRight
    <2>3. l \in 1 .. Len(trail) /\ DOMAIN trail[l] = 1 .. Len(trail[l]) /\ Len(trail[l]) \in Nat /\ p \in Lit
      BY <2>2, Places
    <2>4. r \in Reason
      BY <2>2, <2>3, LitFacts
    <2>5. CASE i = 1
      <3>1. r = NoReason
        BY <2>2, <2>5 DEF ReasonsRight
      <3> QED
        BY <3>1, <2>5 DEF NoReason
    <2>6. CASE i # 1
      <3>1. Implied(trail, assigns, reason, clause, rtrail, Remaining, l, i)
        <4>1. i \in 2 .. Len(trail[l])
          BY <2>3, <2>6
        <4> QED
          BY <4>1, <2>2 DEF ReasonsRight
      <3> HIDE DEF r
      <3>2. /\ r # NoReason
            /\ (r[1] = "clause" => r[2] \in DOMAIN clause /\ (clause[r[2]].temp \/ clause[r[2]].c0 = p))
            /\ \A q \in ExplanationIn(clause, r) : Precedes(trail, assigns, -q, l, i)
        BY <3>1 DEF Implied, Lasts, r
      <3>3. Explanation(r) = ExplanationIn(clause, r)
        BY DEF Explanation, ExplanationIn
      <3>4. ExplanationIn(clause, r) \subseteq Lit
        BY <3>2, <2>2, <2>4, ExplanationTyped
      <3>5. ASSUME NEW q \in Explanation(r) PROVE isFalse(q) /\ Before(q, l, i)
        <4>1. /\ -q \in assigns
              /\ \A k \in DOMAIN trail : \A j \in DOMAIN trail[k] : trail[k][j] = -q => k < l \/ (k = l /\ j < i)
          BY <3>2, <3>3 DEF Precedes
        <4>2. q \in Lit /\ var(-q) = var(q)
          BY <3>3, <3>4, <2>2, LitFacts
        <4> DEFINE n == levelOf(var(-q))
        <4>3. n \in 0 .. Len(trail) - 1 /\ (n \in 1 .. Len(trail) - 1 => -q \in Elems(trail[n + 1]))
              /\ n = levelOf(var(q))
          BY <4>1, <4>2, <2>2, Levels
        <4> HIDE DEF n
        <4>4. n < l - 1 \/ \E j \in 1 .. i - 1 : trail[l][j] = -q
          <5>1. CASE n = 0
            BY <5>1
          <5>2. CASE n # 0
            <6>1. n \in 1 .. Len(trail) - 1 /\ n + 1 \in DOMAIN trail
              BY <5>2, <4>3, <2>2, Places
            <6>2. PICK j \in DOMAIN trail[n + 1] : trail[n + 1][j] = -q
              BY <6>1, <4>3 DEF Elems
            <6>3. n + 1 < l \/ (n + 1 = l /\ j < i)
              BY <6>1, <6>2, <4>1
            <6>4. n + 1 = l => j \in 1 .. Len(trail[l])
              BY <6>2, <2>3
            <6> QED
              BY <6>1, <6>2, <6>3, <6>4, <2>3
          <5> QED
            BY <5>1, <5>2
        <4> QED
          BY <4>1, <4>3, <4>4 DEF isFalse, Before
      <3> QED
        BY <3>2, <3>5 DEF r
    <2> QED
      BY <2>5, <2>6
  <1>2. SatInv => ReasonsLive
    BY <1>1 DEF ReasonsLive
  <1>3. SatInv => ReasonsPrecede
    BY <1>1 DEF ReasonsPrecede
  <1>4. SatInv => ConflictHolds
    <2> SUFFICES ASSUME SatInv PROVE ConflictHolds
      OBVIOUS
    <2>1. ConflictRight /\ StackTyped(trail, assigns, reason, clause, rtrail) /\ TrailRight(trail, assigns)
      BY SatParts, TypedNow DEF StackRight
    <2>2. pc = "resolve" => (confl[1] = "clause" => confl[2] \in DOMAIN clause)
      BY <2>1 DEF ConflictRight
    <2>3. ASSUME pc = "propagate", confl # NoReason, decisionLevel > 0
          PROVE  /\ confl[1] = "clause" => confl[2] \in DOMAIN clause
                 /\ \A q \in ConflictLits : isFalse(q)
                 /\ \E q \in ConflictLits : levelOf(var(q)) > 0
      <3>1. /\ (confl[1] = "clause" => confl[2] \in DOMAIN clause)
            /\ ConflictLits \subseteq Lit /\ \A q \in ConflictLits : isFalse(q)
            /\ \E q \in ConflictLits : -q \in Deep
        BY <2>1, <2>3 DEF ConflictRight
      <3>2. PICK q \in ConflictLits : -q \in Deep
        BY <3>1
      <3>3. -q \in assigns /\ q \in Lit
        BY <3>1 DEF isFalse
      <3>4. levelOf(var(-q)) \in 0 .. Len(trail) - 1 /\ levelOf(var(-q)) # 0
        BY <2>1, <3>2, <3>3, Levels DEF StackTyped
      <3>5. var(-q) = var(q)
        BY <2>1, <3>3, LitFacts DEF StackTyped
      <3>6. levelOf(var(q)) > 0
        BY <3>4, <3>5
      <3> QED
        BY <3>1, <3>6
    <2> QED
      BY <2>2, <2>3 DEF ConflictHolds
  <1>5. SatInv => ReasonsHold
    BY <1>2, <1>3, <1>4 DEF ReasonsHold
  <1> QED
    BY <1>5, SatInvariance, PTL

LEMMA CountIsMarked ==
  ASSUME SatInv, pc = "select"
  PROVE  an.pathC > 0 /\ an.pathC = Cardinality({i \in 1 .. an.index : var(Last(trail)[i]) \in seen})
  <1> DEFINE b == Last(trail)
             I == {i \in 1 .. an.index : var(b[i]) \in seen}
             f == [i \in I |-> b[i]]
  <1>1. /\ given \in DOMAIN Runs /\ trail \in Seq(Seq(Lit)) /\ Len(trail) \in Nat /\ Len(trail) > 1
        /\ TrailRight(trail, assigns) /\ Marked \in SUBSET Lit
        /\ an.index \in Nat /\ an.index <= Len(b) /\ Len(b) \in Nat /\ DOMAIN b = 1 .. Len(b)
    BY AnalysisFacts
  <1>2. an.pathC = Cardinality(Marked) /\ Marked # {}
    BY SatParts DEF Selecting
  <1>3. Marked = {b[i] : i \in I}
    BY DEF Marked, Walked
  <1>4. \A i, j \in I : b[i] = b[j] => i = j
    <2> DEFINE n == Len(trail)
    <2>1. n \in DOMAIN trail /\ b = trail[n]
      BY <1>1, LastPlaces
    <2> HIDE DEF n, b
    <2>2. \A i, j \in DOMAIN trail[n] : trail[n][i] = trail[n][j] => i = j
      BY <1>1, <2>1 DEF TrailRight
    <2>3. \A i \in I : i \in DOMAIN b
      BY <1>1
    <2> QED
      BY <2>1, <2>2, <2>3
  <1> HIDE DEF b
  <1>5. f \in Bijection(I, Marked)
    <2>1. f \in [I -> Marked] /\ \A m \in Marked : \E i \in I : f[i] = m
      BY <1>3
    <2>2. \A i, j \in I : f[i] = f[j] => i = j
      BY <1>4
    <2> QED
      BY <2>1, <2>2 DEF Bijection, Injection, Surjection, IsInjective
  <1>6. IsFiniteSet(I) /\ IsFiniteSet(Marked)
    <2> DEFINE k == an.index
    <2>1. IsFiniteSet(1 .. k)
      <3>1. k \in Int /\ 1 \in Int
        BY <1>1
      <3> HIDE DEF k
      <3> QED
        BY <3>1, FS_Interval
    <2>2. I \in SUBSET (1 .. an.index)
      OBVIOUS
    <2> QED
      BY <2>1, <2>2, <1>1, FS_Subset, LitFinite
  <1>7. Cardinality(Marked) = Cardinality(I)
    BY <1>5, <1>6, FS_Bijection DEF ExistsBijection
  <1>8. Cardinality(Marked) \in Nat /\ Cardinality(Marked) # 0
    BY <1>2, <1>6, FS_EmptySet, FS_CardinalityType
  <1> QED
    BY <1>2, <1>7, <1>8 DEF b

(* The marks and the counter of conflict analysis agree while it runs: it     *)
(* counts what is left to explain, never runs out before a UIP is found, and *)
(* leaves no mark behind for the next conflict.                              *)
THEOREM MarksAgree == Spec => []AnalysisMarks
  <1>1. SatInv => AnalysisCounts
    <2> SUFFICES ASSUME SatInv PROVE AnalysisCounts
      OBVIOUS
    <2>1. ASSUME pc \in {"select", "learn"}, NEW q \in an.out
          PROVE  isFalse(q) /\ levelOf(var(q)) \in 1 .. decisionLevel - 1
      <3>1. /\ given \in DOMAIN Runs /\ trail \in Seq(Seq(Lit)) /\ Len(trail) \in Nat /\ Len(trail) > 1
            /\ assigns \in SUBSET Lit /\ TrailRight(trail, assigns) /\ Deep \subseteq assigns
            /\ q \in Lit /\ -q \in Deep /\ -q \notin Elems(Last(trail))
        BY <2>1, AnalysisFacts
      <3> DEFINE n == levelOf(var(-q))
                 k == Len(trail)
      <3>2. /\ n \in 0 .. k - 1 /\ n # 0 /\ (n \in 1 .. k - 1 => -q \in Elems(trail[n + 1]))
        BY <3>1, Levels
      <3>3. var(-q) = var(q)
        BY <3>1, LitFacts
      <3>4. Last(trail) = trail[k]
        BY DEF Last
      <3>5. n + 1 # k
        BY <3>1, <3>2, <3>4
      <3>6. k \in Nat /\ decisionLevel = k - 1 /\ n = levelOf(var(q)) /\ isFalse(q)
        BY <3>1, <3>3 DEF decisionLevel, isFalse
      <3> HIDE DEF n, k
      <3>7. n \in 1 .. k - 1 - 1
        BY <3>2, <3>5, <3>6
      <3> QED
        BY <3>6, <3>7
    <2> QED
      BY <2>1, CountIsMarked DEF AnalysisCounts
  <1>2. SatInv => SeenCleared
    <2> SUFFICES ASSUME SatInv, pc \notin {"resolve", "select", "learn"} PROVE SeenCleared
      BY DEF SeenCleared
    <2> DEFINE off == OffTrail(trail, assigns)
               fixed == {x \in Var : ~ isUndef(x)} \ UNION {vars_of(Elems(trail[l])) : l \in DOMAIN trail}
    <2>1. /\ given \in DOMAIN Runs /\ trail \in Seq(Seq(Lit)) /\ assigns \in SUBSET Lit
          /\ TrailRight(trail, assigns) /\ seen = vars_of(off)
      BY SatParts, TypedNow DEF StackTyped, StackRight, SeenRight, OffTrail
    <2>2. \A l \in DOMAIN trail : Elems(trail[l]) \in SUBSET assigns
      BY <2>1 DEF TrailRight, Elems
    <2>3. ASSUME NEW p \in off PROVE var(p) \in fixed
      <3>1. p \in assigns /\ p \in Lit /\ var(p) \in Var /\ \A l \in DOMAIN trail : p \notin Elems(trail[l])
        BY <2>1, LitFacts DEF OffTrail
      <3>2. ~ isUndef(var(p))
        BY <3>1, <2>1, LitFacts DEF isUndef, isTrue, isFalse, var
      <3>3. ASSUME NEW l \in DOMAIN trail PROVE var(p) \notin vars_of(Elems(trail[l]))
        <4>1. Elems(trail[l]) \in SUBSET Lit /\ -p \notin assigns
          BY <2>1, <2>2, <3>1 DEF TrailRight
        <4> QED
          BY <4>1, <3>1, <2>1, <2>2, NegFacts
      <3> QED
        BY <3>1, <3>2, <3>3
    <2>4. ASSUME NEW x \in fixed PROVE x \in vars_of(off)
      <3>1. x \in Lit /\ x \in Var /\ var(x) = x /\ var(-x) = x
        BY <2>1, LitFacts DEF var
      <3>2. PICK p \in {x, -x} : p \in assigns
        BY DEF isUndef, isTrue, isFalse
      <3>3. var(p) = x
        BY <3>1, <3>2
      <3>4. \A l \in DOMAIN trail : p \notin Elems(trail[l])
        BY <3>3 DEF vars_of
      <3> QED
        BY <3>2, <3>3, <3>4 DEF OffTrail, vars_of
    <2>5. vars_of(off) = fixed
      <3>1. \A x \in vars_of(off) : x \in fixed
        BY <2>3 DEF vars_of
      <3> QED
        BY <3>1, <2>4
    <2> QED
      BY <2>1, <2>5 DEF SeenCleared
  <1>3. SatInv => AnalysisMarks
    BY <1>1, <1>2, SatParts DEF AnalysisMarks, Typed
  <1> QED
    BY <1>3, SatInvariance, PTL

(* A backjump goes to the one level where the clause it has learnt is unit,   *)
(* and enqueues there the literal the clause implies.                        *)
THEOREM BackjumpsAssert == Spec => BackjumpAsserts
  <1>1. ASSUME SatInv, Next, pc = "learn", pc' = "propagate"
        PROVE  /\ \A q \in an.out : -q \in assigns'
               /\ Last(Last(trail')) = -an.p /\ an.p \notin assigns'
               /\ Len(trail') > 1 => \E q \in an.out : levelOf(var(q)) = Len(trail') - 1
    <2> DEFINE lv == findBackTrackLevel
               t1 == Keep(trail, lv)
               c0 == -an.p
    <2>1. backjump
      BY <1>1 DEF Next, addClause, startSearch, propagate, nextLiteral, absorbedBinary, watchedClause, infer, reject,
                  Propagating, search, restart, topLevelCleanUp, decide, solution, Ready, PropagateTrue,
                  analyze, conflict, resolve, select, explainUnlearnable, returned, vars
    <2>2. /\ Unlearnable = {}
          /\ assigns' = (assigns \ Undone(lv)) \cup {c0}
          /\ trail' = [t1 EXCEPT ![lv + 1] = Append(@, c0)]
      BY <2>1 DEF backjump
    <2>3. LearnsAt(lv)
      BY <1>1, <2>2, LearnFacts
    <2>4. /\ lv \in Nat /\ lv < Len(trail) - 1 /\ c0 \in Lit /\ -c0 = an.p
          /\ an.p \in assigns /\ an.p \in UndoneOf(trail, lv) /\ c0 \notin assigns
          /\ \A q \in an.out : -q \in assigns \ UndoneOf(trail, lv)
          /\ (an.out = {} => lv = 0)
          /\ (an.out # {} => \E q \in an.out : levelOf(var(q)) = lv)
      BY <2>3 DEF LearnsAt
    <2>5. Undone(lv) = UndoneOf(trail, lv)
      BY DEF Undone, UndoneOf
    <2>6. trail \in Seq(Seq(Lit)) /\ Len(trail) \in Nat
      BY <1>1, AnalysisFacts
    <2> HIDE DEF lv, c0
    <2>7. t1 \in Seq(Seq(Lit)) /\ Len(t1) = lv + 1
      <3>1. lv < Len(trail)
        BY <2>4, <2>6
      <3> QED
        BY <3>1, <2>4, <2>6, KeptList
    <2> HIDE DEF t1
    <2>8. trail' = Pushed(t1, c0) /\ Len(t1) > 0
      BY <2>2, <2>4, <2>7 DEF Pushed
    <2> DEFINE t == Pushed(t1, c0)
               n == Len(t1)
    <2>9. /\ Len(t) = n /\ Len(t[n]) = Len(t1[n]) + 1 /\ t[n][Len(t1[n]) + 1] = c0
      BY <2>4, <2>7, <2>8, PushShape
    <2> HIDE DEF t, n
    <2>10. Last(Last(t)) = c0
      BY <2>9 DEF Last
    <2>11. trail' = t /\ Len(trail') = lv + 1
      BY <2>7, <2>8, <2>9 DEF t, n
    <2>12. Last(Last(trail')) = c0
      BY <2>10, <2>11
    <2>13. an.p \notin assigns' /\ \A q \in an.out : -q \in assigns'
      BY <2>2, <2>4, <2>5
    <2>14. Len(trail') > 1 => \E q \in an.out : levelOf(var(q)) = Len(trail') - 1
      BY <2>4, <2>11
    <2> QED
      BY <2>12, <2>13, <2>14 DEF c0
  <1>2. SatInv /\ [Next]_vars =>
          [pc = "learn" /\ pc' = "propagate" =>
             /\ \A q \in an.out : -q \in assigns'
             /\ Last(Last(trail')) = -an.p /\ an.p \notin assigns'
             /\ Len(trail') > 1 => \E q \in an.out : levelOf(var(q)) = Len(trail') - 1]_vars
    BY <1>1
  <1> QED
    BY <1>2, SatInvariance, PTL DEF Spec, BackjumpAsserts

-----------------------------------------------------------------------------
(* The invariant of completeness, on top of SatInv.                          *)

(* A watch element is attended to among the true literals u when what it      *)
(* watches for is settled there: its literal, or one of the two watched.      *)
Attended(M, u, e) == IF e[1] = "bin" THEN e[2] \in u ELSE {M[e[2]].c0, M[e[2]].c1} \cap u # {}

Watched(M, W, u) == \A l \in u : \A e \in W[l] : Attended(M, u, e)

(* Of the levels below the last one nothing is left to propagate. *)
LowerDone(t, a, Q, M, W) ==
  /\ \A k \in 1 .. Len(t) - 1 : Q[k] = Len(t[k])
  /\ \A k \in 2 .. Len(t) : Watched(M, W, BelowOf(t, a, k))

(* What is not attended to yet: the watches of the literals from qhead on, and *)
(* those in todo.  A conflict leaves the rest of its level out for good.       *)
Waits(l, e) ==
  \/ \E i \in Last(qhead) + 1 .. Len(Last(trail)) : Last(trail)[i] = l
  \/ todo # {} /\ l = current /\ e \in todo

Active == pc \in {"load", "propagate", "branch"} /\ confl = NoReason

LastDone ==
  Active => /\ Last(qhead) <= Len(Last(trail)) /\ (todo # {} => todo \subseteq watches[current])
            /\ \A l \in assigns : \A e \in watches[l] : Attended(clause, assigns, e) \/ Waits(l, e)

(* A clause that counts is watched on the two literals in front, a learnt one *)
(* perhaps on the second only.                                                *)
Counts(M, ls, i) == ~ M[i].temp /\ (M[i].learnt => i \in ls)
OnWatch(W, c, i) ==
  /\ {c.c0, c.c1} \subseteq Lit /\ c.c0 # c.c1 /\ {c.c0, c.c1} \cap c.rest = {}
  /\ <<"clause", i>> \in W[-c.c1]
  /\ (c.learnt /\ one_watch) \/ <<"clause", i>> \in W[-c.c0]
StoreComplete(M, W, ls) ==
  /\ \A i \in DOMAIN M : Counts(M, ls, i) => OnWatch(W, M[i], i)
  /\ \A i \in ls : M[i].learnt

(* Each clause that was added is true at the root, an object or a watch of    *)
(* either of its literals.                                                    *)
Held(root, M, W, C) ==
  \/ C \cap root # {}
  \/ \E l \in Lit : \E e \in W[l] : e[1] = "bin" /\ {-l, e[2]} \subseteq C
  \/ \E i \in DOMAIN M : ~ M[i].temp /\ ~ M[i].learnt /\ Lits(M[i]) \subseteq C
ProblemHeld(root, M, W, n) == \A j \in 1 .. n : Held(root, M, W, Elems(Problem[j]))

Complete ==
  /\ LowerDone(trail, assigns, qhead, clause, watches) /\ LastDone
  /\ StoreComplete(clause, watches, learnts)
  /\ pc # "GUN" => ProblemHeld(Root, clause, watches, loaded)
  /\ found \subseteq Solutions

-----------------------------------------------------------------------------
(* What is attended to stays so when watches only go and clauses keep what    *)
(* they watch.                                                                *)

SamePair(M, M1, i) == {M1[i].c0, M1[i].c1} = {M[i].c0, M[i].c1}

LEMMA WatchedStays ==
  ASSUME NEW M, NEW W, NEW M1, NEW W1, NEW u, Watched(M, W, u),
         \A l \in u : \A e \in W1[l] : e \in W[l] /\ (e[1] # "bin" => SamePair(M, M1, e[2]))
  PROVE  Watched(M1, W1, u)
  BY DEF Watched, Attended, SamePair

LEMMA LowerMemory ==
  ASSUME NEW t, NEW a, NEW Q, NEW M, NEW W, NEW M1, NEW W1, LowerDone(t, a, Q, M, W),
         \A u \in SUBSET a : Watched(M, W, u) => Watched(M1, W1, u)
  PROVE  LowerDone(t, a, Q, M1, W1)
  <1>1. \A k : BelowOf(t, a, k) \in SUBSET a
    BY DEF BelowOf
  <1> QED
    BY <1>1 DEF LowerDone

(* q is in one of the levels k to n of t. *)
SaidIn(t, k, n, q) == \E l \in k .. n : \E i \in 1 .. Len(t[l]) : t[l][i] = q

LEMMA BelowSpan ==
  ASSUME NEW t \in Seq(Seq(Lit)), NEW n, Len(t) = n, NEW k \in 1 .. n, NEW a, NEW q
  PROVE  q \in BelowOf(t, a, k) <=> q \in a /\ ~ SaidIn(t, k, n, q)
  <1>1. n \in Nat /\ \A l \in k .. n : l \in 1 .. n
    OBVIOUS
  <1>2. \A l \in k .. n : DOMAIN t[l] = 1 .. Len(t[l])
    BY <1>1
  <1>3. (\E l \in k .. n : \E i \in DOMAIN t[l] : t[l][i] = q) <=> SaidIn(t, k, n, q)
    BY <1>2 DEF SaidIn
  <1>4. q \in BelowOf(t, a, k) <=> q \in a /\ ~ \E l \in k .. n : \E i \in DOMAIN t[l] : t[l][i] = q
    BY Below
  <1> QED
    BY <1>3, <1>4

LEMMA LowerPush ==
  ASSUME NEW t \in Seq(Seq(Lit)), Len(t) > 0, NEW a, NEW Q, NEW M, NEW W, LowerDone(t, a, Q, M, W),
         NEW p \in Lit, p \notin a, NEW Q1, \A k \in 1 .. Len(t) - 1 : Q1[k] = Q[k]
  PROVE  LowerDone(Pushed(t, p), a \cup {p}, Q1, M, W)
  <1> DEFINE n == Len(t)
             t1 == Pushed(t, p)
             a1 == a \cup {p}
  <1>1. /\ n \in Nat /\ n > 0 /\ DOMAIN t = 1 .. n
        /\ \A k \in 1 .. n : Len(t[k]) \in Nat /\ DOMAIN t[k] = 1 .. Len(t[k])
    BY Places
  <1>2. /\ t1 \in Seq(Seq(Lit)) /\ Len(t1) = n
        /\ \A l \in 1 .. n - 1 : t1[l] = t[l]
        /\ Len(t1[n]) = Len(t[n]) + 1
        /\ \A i \in 1 .. Len(t[n]) : t1[n][i] = t[n][i]
        /\ t1[n][Len(t[n]) + 1] = p
    BY PushShape
  <1>3. \A k \in 1 .. n : DOMAIN t1[k] = 1 .. Len(t1[k])
    BY <1>2, Places
  <1>4. Len(t) = n /\ \A k \in 2 .. n : k \in 1 .. n
    BY <1>1
  <1> HIDE DEF n, t1, a1
  <1>5. ASSUME NEW k \in 2 .. n PROVE BelowOf(t1, a1, k) = BelowOf(t, a, k)
    <2>1. ASSUME NEW q PROVE q \in BelowOf(t1, a1, k) <=> q \in BelowOf(t, a, k)
      <3>1. q \in BelowOf(t1, a1, k) <=> q \in a1 /\ ~ SaidIn(t1, k, n, q)
        BY <1>2, <1>4, BelowSpan
      <3>2. q \in BelowOf(t, a, k) <=> q \in a /\ ~ SaidIn(t, k, n, q)
        BY <1>4, BelowSpan
      <3>3. \A l \in k .. n : l # n => l \in 1 .. n - 1
        BY <1>1
      <3>4. n \in k .. n
        BY <1>1
      <3>5. CASE q = p
        <4>1. Len(t[n]) + 1 \in 1 .. Len(t1[n])
          BY <1>1, <1>2
        <4> QED
          BY <4>1, <3>1, <3>2, <3>4, <3>5, <1>2 DEF SaidIn
      <3>6. CASE q # p
        <4>1. q \in a1 <=> q \in a
          BY <3>6 DEF a1
        <4>2. ASSUME NEW l \in k .. n
              PROVE  (\E i \in 1 .. Len(t1[l]) : t1[l][i] = q) <=> (\E i \in 1 .. Len(t[l]) : t[l][i] = q)
          <5>1. CASE l # n
            BY <5>1, <3>3, <1>2
          <5>2. CASE l = n
            <6> DEFINE m == Len(t[n])
            <6>1. m \in Nat
              BY <1>1
            <6>2. /\ Len(t1[n]) = m + 1 /\ t1[n][m + 1] = p
                  /\ \A i \in 1 .. m : t1[n][i] = t[n][i]
              BY <1>2
            <6> HIDE DEF m
            <6>3. \A i \in 1 .. m + 1 : i \in 1 .. m \/ i = m + 1
              BY <6>1
            <6>4. \A i \in 1 .. m : i \in 1 .. m + 1
              BY <6>1
            <6>5. (\E i \in 1 .. m + 1 : t1[n][i] = q) <=> (\E i \in 1 .. m : t[n][i] = q)
              BY <6>2, <6>3, <6>4, <3>6
            <6> QED
              BY <6>2, <6>5, <5>2 DEF m
          <5> QED
            BY <5>1, <5>2
        <4> QED
          BY <4>1, <4>2, <3>1, <3>2 DEF SaidIn
      <3> QED
        BY <3>5, <3>6
    <2> QED
      BY <2>1
  <1>6. \A k \in 1 .. n - 1 : Q1[k] = Len(t1[k])
    BY <1>2 DEF LowerDone, n
  <1>7. \A k \in 2 .. n : Watched(M, W, BelowOf(t1, a1, k))
    BY <1>5 DEF LowerDone, n
  <1> QED
    BY <1>2, <1>6, <1>7 DEF LowerDone, a1, t1

LEMMA LowerCut ==
  ASSUME NEW t \in Seq(Seq(Lit)), NEW a \in SUBSET Lit, NEW Q, NEW M, NEW W, LowerDone(t, a, Q, M, W),
         Len(t) > 0, TrailRight(t, a), NEW t1, NEW a1, CutOf(t, a, t1, a1),
         NEW Q1, \A k \in 1 .. Len(t1) - 1 : Q1[k] = Q[k]
  PROVE  LowerDone(t1, a1, Q1, M, W)
  <1>1. /\ Len(t1) \in 1 .. Len(t) /\ Len(t) \in Nat
        /\ \A l \in 1 .. Len(t1) - 1 : t1[l] = t[l]
    BY Places DEF CutOf
  <1>2. \A l \in 2 .. Len(t1) : BelowOf(t1, a1, l) = BelowOf(t, a, l)
    BY CutShape
  <1>3. \A k \in 1 .. Len(t1) - 1 : k \in 1 .. Len(t) - 1
    BY <1>1
  <1>4. \A k \in 2 .. Len(t1) : k \in 2 .. Len(t)
    BY <1>1
  <1> QED
    BY <1>1, <1>2, <1>3, <1>4 DEF LowerDone

LEMMA LowerOpen ==
  ASSUME NEW t \in Seq(Seq(Lit)), NEW a, NEW Q, NEW M, NEW W, LowerDone(t, a, Q, M, W),
         Q \in Seq(Nat), Len(Q) = Len(t), Q[Len(t)] = Len(t[Len(t)]), Len(t) > 0,
         Watched(M, W, a), NEW p \in Lit, p \notin a
  PROVE  LowerDone(Append(t, <<p>>), a \cup {p}, Append(Q, 0), M, W)
  <1> DEFINE n == Len(t)
             t1 == Append(t, <<p>>)
             Q1 == Append(Q, 0)
             a1 == a \cup {p}
  <1>1. /\ n \in Nat /\ DOMAIN t = 1 .. n
        /\ \A k \in 1 .. n : DOMAIN t[k] = 1 .. Len(t[k])
    BY Places
  <1>2. t1 \in Seq(Seq(Lit)) /\ Len(t1) = n + 1 /\ (\A l \in 1 .. n : t1[l] = t[l]) /\ t1[n + 1] = <<p>>
    BY OpenShape
  <1>3. \A l \in 1 .. n : Q1[l] = Q[l]
    BY AppendProperties
  <1>4. DOMAIN t1[n + 1] = {1} /\ t1[n + 1][1] = p
    BY <1>2
  <1> HIDE DEF n, t1, Q1, a1
  <1>5. ASSUME NEW k \in 2 .. n + 1 PROVE Watched(M, W, BelowOf(t1, a1, k))
    <2>1. n + 1 \in k .. n + 1
      BY <1>1
    <2>2. ASSUME NEW q, q \in BelowOf(t1, a1, k) PROVE q \in a /\ q # p
      <3>1. q # p
        <4>1. Len(t1) = n + 1 /\ k \in 1 .. n + 1 /\ Len(t1[n + 1]) = 1 /\ t1[n + 1][1] = p /\ 1 \in 1 .. 1
          BY <1>1, <1>2, <1>4
        <4>2. ~ SaidIn(t1, k, n + 1, q)
          BY <1>2, <2>2, <4>1, BelowSpan
        <4>3. SaidIn(t1, k, n + 1, p)
          BY <2>1, <4>1 DEF SaidIn
        <4> QED
          BY <4>2, <4>3
      <3> QED
        BY <3>1, <2>2 DEF BelowOf, a1
    <2>3. CASE k = n + 1
      <3>1. ASSUME NEW q \in a PROVE q \in BelowOf(t1, a1, k)
        <4>1. q # p /\ q \in a1
          BY DEF a1
        <4>2. \A l \in k .. n + 1 : l = n + 1
          BY <2>3, <1>1
        <4> QED
          BY <4>1, <4>2, <1>2, <1>4, Below
      <3>2. BelowOf(t1, a1, k) = a
        BY <2>2, <3>1
      <3> QED
        BY <3>2
    <2>4. CASE k # n + 1
      <3>1. k \in 2 .. n
        BY <2>4, <1>1
      <3>2. \A l \in k .. n : l \in 1 .. n /\ l \in k .. n + 1
        BY <1>1
      <3>3. \A l \in k .. n + 1 : l \in k .. n \/ l = n + 1
        BY <1>1
      <3>4. ASSUME NEW q PROVE q \in BelowOf(t1, a1, k) <=> q \in BelowOf(t, a, k)
        <4>0. Len(t1) = n + 1
          BY <1>2
        <4>a. q \in BelowOf(t1, a1, k) <=> q \in a1 /\ ~ \E l \in k .. Len(t1) : \E i \in DOMAIN t1[l] : t1[l][i] = q
          BY Below
        <4>1. q \in BelowOf(t1, a1, k) <=> q \in a1 /\ ~ \E l \in k .. n + 1 : \E i \in DOMAIN t1[l] : t1[l][i] = q
          BY <4>0, <4>a
        <4>2. q \in BelowOf(t, a, k) <=> q \in a /\ ~ \E l \in k .. n : \E i \in DOMAIN t[l] : t[l][i] = q
          BY Below DEF n
        <4>3. (\E l \in k .. n + 1 : \E i \in DOMAIN t1[l] : t1[l][i] = q)
                <=> q = p \/ \E l \in k .. n : \E i \in DOMAIN t[l] : t[l][i] = q
          BY <3>2, <3>3, <2>1, <1>2, <1>4
        <4> QED
          BY <4>1, <4>2, <4>3 DEF a1
      <3>5. BelowOf(t1, a1, k) = BelowOf(t, a, k)
        BY <3>4
      <3> QED
        BY <3>1, <3>5 DEF LowerDone, n
    <2> QED
      BY <2>3, <2>4
  <1>6. ASSUME NEW k \in 1 .. n PROVE Q1[k] = Len(t1[k])
    <2>1. CASE k = n
      BY <2>1, <1>2, <1>3 DEF n
    <2>2. CASE k # n
      <3>1. k \in 1 .. n - 1
        BY <2>2, <1>1
      <3> QED
        BY <3>1, <1>2, <1>3 DEF LowerDone, n
    <2> QED
      BY <2>1, <2>2
  <1>7. Len(t1) - 1 = n
    BY <1>1, <1>2
  <1> QED
    BY <1>2, <1>5, <1>6, <1>7 DEF LowerDone, a1, t1, Q1

-----------------------------------------------------------------------------
(* The store. *)

LEMMA HeldStays ==
  ASSUME NEW root, NEW M, NEW W, NEW n, ProblemHeld(root, M, W, n),
         NEW root1, NEW M1, NEW W1, root \subseteq root1,
         \A l \in Lit : \A e \in W[l] : e[1] = "bin" => e \in W1[l],
         \A i \in DOMAIN M : ~ M[i].temp /\ ~ M[i].learnt =>
           i \in DOMAIN M1 /\ ~ M1[i].temp /\ ~ M1[i].learnt /\ Lits(M1[i]) \subseteq Lits(M[i])
  PROVE  ProblemHeld(root1, M1, W1, n)
  <1> SUFFICES ASSUME NEW j \in 1 .. n PROVE Held(root1, M1, W1, Elems(Problem[j]))
    BY DEF ProblemHeld
  <1> DEFINE C == Elems(Problem[j])
  <1>1. Held(root, M, W, C)
    BY DEF ProblemHeld
  <1> HIDE DEF C
  <1>2. Held(root1, M1, W1, C)
    <2>1. CASE C \cap root # {}
      BY <2>1 DEF Held
    <2>2. CASE \E l \in Lit : \E e \in W[l] : e[1] = "bin" /\ {-l, e[2]} \subseteq C
      BY <2>2 DEF Held
    <2>3. CASE \E i \in DOMAIN M : ~ M[i].temp /\ ~ M[i].learnt /\ Lits(M[i]) \subseteq C
      BY <2>3 DEF Held
    <2> QED
      BY <1>1, <2>1, <2>2, <2>3 DEF Held
  <1> QED
    BY <1>2 DEF C

(* Objects that are temporary, or learnt and not kept, are on no watch. *)
LEMMA CompleteStays ==
  ASSUME given \in DOMAIN Runs, NEW M, NEW W, NEW ls, StoreComplete(M, W, ls), NEW M1, NEW W1, NEW ls1,
         \A i \in DOMAIN M1 : Counts(M1, ls1, i) =>
           /\ i \in DOMAIN M /\ Counts(M, ls, i)
           /\ M1[i].c0 = M[i].c0 /\ M1[i].c1 = M[i].c1 /\ M1[i].rest \subseteq M[i].rest /\ M1[i].learnt = M[i].learnt
           /\ \A l \in Lit : <<"clause", i>> \in W[l] => <<"clause", i>> \in W1[l],
         \A i \in ls1 : M1[i].learnt
  PROVE  StoreComplete(M1, W1, ls1)
  <1> SUFFICES ASSUME NEW i \in DOMAIN M1, Counts(M1, ls1, i) PROVE OnWatch(W1, M1[i], i)
    BY DEF StoreComplete
  <1>1. OnWatch(W, M[i], i)
    BY DEF StoreComplete
  <1>2. /\ M1[i].c0 = M[i].c0 /\ M1[i].c1 = M[i].c1 /\ M1[i].rest \subseteq M[i].rest /\ M1[i].learnt = M[i].learnt
        /\ \A l \in Lit : <<"clause", i>> \in W[l] => <<"clause", i>> \in W1[l]
    OBVIOUS
  <1>3. -M[i].c0 \in Lit /\ -M[i].c1 \in Lit
    BY <1>1, LitFacts DEF OnWatch
  <1> QED
    BY <1>1, <1>2, <1>3 DEF OnWatch

LEMMA RootPush ==
  ASSUME NEW t \in Seq(Seq(Lit)), Len(t) > 0, NEW a, NEW p \in Lit, p \notin a
  PROVE  a \ DeepOf(t) \subseteq (a \cup {p}) \ DeepOf(Pushed(t, p))
  <1> DEFINE n == Len(t)
             t1 == Pushed(t, p)
  <1>1. /\ t1 \in Seq(Seq(Lit)) /\ Len(t1) = n
        /\ \A l \in 1 .. n - 1 : t1[l] = t[l]
        /\ Len(t1[n]) = Len(t[n]) + 1
        /\ \A i \in 1 .. Len(t[n]) : t1[n][i] = t[n][i]
        /\ t1[n][Len(t[n]) + 1] = p
    BY PushShape
  <1>2. n \in Nat /\ \A l \in 1 .. n : Len(t[l]) \in Nat
    BY Places
  <1> SUFFICES ASSUME NEW q \in a, q \in DeepOf(t1) PROVE q \in DeepOf(t)
    OBVIOUS
  <1>3. PICK l \in 2 .. Len(t1) : \E i \in 1 .. Len(t1[l]) : t1[l][i] = q
    BY <1>1, Places
  <1>4. PICK i \in 1 .. Len(t1[l]) : t1[l][i] = q
    BY <1>3
  <1> HIDE DEF n, t1
  <1>5. l \in 2 .. n /\ l \in 1 .. n
    BY <1>1, <1>2
  <1>6. \E j \in 1 .. Len(t[l]) : t[l][j] = q
    <2>1. CASE l # n
      <3>1. l \in 1 .. n - 1
        BY <2>1, <1>2, <1>5
      <3> QED
        BY <3>1, <1>1, <1>4
    <2>2. CASE l = n
      <3> DEFINE m == Len(t[n])
      <3>1. m \in Nat
        BY <2>2, <1>2, <1>5
      <3>2. i \in 1 .. m + 1 /\ t1[n][m + 1] = p /\ q # p /\ \A j \in 1 .. m : t1[n][j] = t[n][j]
        BY <2>2, <1>1, <1>4
      <3> HIDE DEF m
      <3>3. i \in 1 .. m
        <4>1. i = m + 1 \/ i \in 1 .. m
          BY <3>1, <3>2
        <4> QED
          BY <4>1, <3>2, <2>2, <1>4
      <3> QED
        BY <3>2, <3>3, <2>2, <1>4 DEF m
    <2> QED
      BY <2>1, <2>2
  <1> QED
    BY <1>5, <1>6, Places DEF n

(* Putting the parts together. *)
LEMMA CompleteNow ==
  ASSUME Complete
  PROVE  /\ LowerDone(trail, assigns, qhead, clause, watches) /\ LastDone
         /\ StoreComplete(clause, watches, learnts)
         /\ (pc # "GUN" => ProblemHeld(assigns \ DeepOf(trail), clause, watches, loaded))
         /\ found \subseteq Solutions
  BY DEF Complete, Root, Deep

LEMMA SameRun ==
  ASSUME given' = given
  PROVE  one_watch' = one_watch /\ Solutions' = Solutions
  BY Carried DEF one_watch, Solutions, Show

LEMMA CompleteNext ==
  ASSUME given' = given,
         LowerDone(trail', assigns', qhead', clause', watches'),
         Active' => /\ Last(qhead') <= Len(Last(trail'))
                    /\ (todo' # {} => todo' \subseteq watches'[Last(trail')[Last(qhead')]])
                    /\ \A l \in assigns' : \A e \in watches'[l] : Attended(clause', assigns', e) \/ Waits(l, e)',
         StoreComplete(clause', watches', learnts'),
         pc' # "GUN" => ProblemHeld(assigns' \ DeepOf(trail'), clause', watches', loaded'),
         found' \subseteq Solutions
  PROVE  Complete'
  <1>1. one_watch' = one_watch /\ Solutions' = Solutions /\ Lit' = Lit /\ Problem' = Problem
    BY SameRun, Carried
  <1>2. LowerDone(trail, assigns, qhead, clause, watches)'
    BY DEF LowerDone, Watched, Attended, BelowOf
  <1>3. LastDone'
    BY DEF LastDone, Attended, Last, current
  <1>4. StoreComplete(clause, watches, learnts)'
    BY <1>1 DEF StoreComplete, OnWatch, Counts
  <1>5. (pc # "GUN" => ProblemHeld(Root, clause, watches, loaded))'
    <2> SUFFICES ASSUME pc' # "GUN" PROVE ProblemHeld(Root, clause, watches, loaded)'
      OBVIOUS
    <2>1. Root' = assigns' \ DeepOf(trail')
      BY DEF Root, Deep, DeepOf, Elems
    <2>2. ASSUME NEW j \in 1 .. loaded' PROVE Held(Root, clause, watches, Elems(Problem[j]))'
      <3>1. Held(assigns' \ DeepOf(trail'), clause', watches', Elems(Problem[j]))
        BY DEF ProblemHeld
      <3> DEFINE C == Elems(Problem[j])
      <3>2. C' = C
        BY <1>1 DEF Elems
      <3> HIDE DEF C
      <3>3. \/ C \cap (assigns' \ DeepOf(trail')) # {}
            \/ \E l \in Lit : \E e \in watches'[l] : e[1] = "bin" /\ {-l, e[2]} \subseteq C
            \/ \E i \in DOMAIN clause' : ~ clause'[i].temp /\ ~ clause'[i].learnt /\ Lits(clause'[i]) \subseteq C
        BY <3>1 DEF C, Held
      <3>4. Held(Root, clause, watches, C)'
        BY <3>2, <3>3, <2>1, <1>1 DEF Held, Lits
      <3> QED
        BY <3>4 DEF C
    <2> QED
      BY <2>2 DEF ProblemHeld
  <1> QED
    BY <1>1, <1>2, <1>3, <1>4, <1>5 DEF Complete

-----------------------------------------------------------------------------
(* What waits goes on waiting, while the last level only grows.              *)

LEMMA TopPlaces ==
  ASSUME SatInv
  PROVE  /\ trail \in Seq(Seq(Lit)) /\ Len(trail) \in Nat /\ Len(trail) > 0 /\ assigns \in SUBSET Lit
         /\ Last(trail) = trail[Len(trail)] /\ Last(trail) \in Seq(Lit) /\ Len(Last(trail)) \in Nat
         /\ qhead \in Seq(Nat) /\ Len(qhead) = Len(trail) /\ Last(qhead) = qhead[Len(qhead)] /\ Last(qhead) \in Nat
         /\ (todo # {} => Last(qhead) \in 1 .. Len(Last(trail)))
         /\ TrailRight(trail, assigns) /\ given \in DOMAIN Runs /\ watches \in [Lit -> SUBSET WatchElem]
  <1>1. Typed /\ Phases /\ StackRight(trail, assigns, reason, clause, rtrail, Remaining)
    BY SatParts
  <1>2. /\ given \in DOMAIN Runs /\ StackTyped(trail, assigns, reason, clause, rtrail)
        /\ watches \in [Lit -> SUBSET WatchElem] /\ qhead \in Seq(Nat) /\ Len(qhead) = Len(trail)
    BY <1>1, TypedNow
  <1>3. trail \in Seq(Seq(Lit)) /\ Len(trail) > 0 /\ assigns \in SUBSET Lit
    BY <1>2 DEF StackTyped
  <1>4. /\ Len(trail) \in Nat /\ Last(trail) = trail[Len(trail)] /\ Last(trail) \in Seq(Lit)
        /\ Len(Last(trail)) \in Nat /\ DOMAIN Last(trail) = 1 .. Len(Last(trail))
    BY <1>3, LastPlaces
  <1>5. Last(qhead) = qhead[Len(qhead)] /\ Last(qhead) \in Nat
    BY <1>2, <1>3, <1>4 DEF Last
  <1>6. todo # {} => Last(qhead) \in 1 .. Len(Last(trail))
    BY <1>1, <1>4 DEF Phases
  <1>7. TrailRight(trail, assigns)
    BY <1>1 DEF StackRight
  <1> QED
    BY <1>2, <1>3, <1>4, <1>5, <1>6, <1>7

(* The level stays as it is. *)
LEMMA StaysDone ==
  ASSUME SatInv, Active, LastDone, trail' = trail, assigns' = assigns, qhead' = qhead, todo' \subseteq todo,
         \A l \in assigns : \A e \in watches'[l] :
           e \in watches[l] /\ (Attended(clause, assigns, e) => Attended(clause', assigns, e)),
         \A e \in todo \ todo' : e \in watches'[current] => Attended(clause', assigns, e)
  PROVE  /\ Last(qhead') <= Len(Last(trail')) /\ (todo # {} => current' = current)
         /\ \A l \in assigns' : \A e \in watches'[l] : Attended(clause', assigns', e) \/ Waits(l, e)'
  <1>1. Last(qhead') = Last(qhead) /\ Last(trail') = Last(trail) /\ current' = current
    BY DEF Last, current
  <1>2. Last(qhead') <= Len(Last(trail'))
    BY <1>1 DEF LastDone
  <1>3. ASSUME NEW l \in assigns, NEW e \in watches'[l], ~ Attended(clause', assigns, e)
        PROVE  Waits(l, e)'
    <2>1. e \in watches[l] /\ ~ Attended(clause, assigns, e)
      BY <1>3
    <2>2. Waits(l, e)
      BY <2>1 DEF LastDone
    <2>3. CASE \E i \in Last(qhead) + 1 .. Len(Last(trail)) : Last(trail)[i] = l
      BY <2>3, <1>1 DEF Waits
    <2>4. CASE todo # {} /\ l = current /\ e \in todo
      <3>1. e \in todo'
        BY <2>4, <1>3
      <3> QED
        BY <3>1, <2>4, <1>1 DEF Waits
    <2> QED
      BY <2>2, <2>3, <2>4 DEF Waits
  <1> QED
    BY <1>1, <1>2, <1>3

(* A literal is enqueued: all its watches are waiting. *)
LEMMA PushDone ==
  ASSUME SatInv, Active, LastDone, NEW p \in Lit, p \notin assigns,
         trail' = Pushed(trail, p), assigns' = assigns \cup {p}, qhead' = qhead, todo' \subseteq todo,
         \A l \in assigns : \A e \in watches'[l] :
           e \in watches[l] /\ (Attended(clause, assigns, e) => Attended(clause', assigns', e)),
         \A e \in todo \ todo' : e \in watches'[current] => Attended(clause', assigns', e)
  PROVE  /\ Last(qhead') <= Len(Last(trail')) /\ (todo # {} => current' = current)
         /\ \A l \in assigns' : \A e \in watches'[l] : Attended(clause', assigns', e) \/ Waits(l, e)'
  <1> DEFINE m == Len(Last(trail))
             h == Last(qhead)
             t == Last(trail)
             t1 == Last(trail')
  <1>1. /\ trail \in Seq(Seq(Lit)) /\ Len(trail) > 0 /\ m \in Nat /\ h \in Nat /\ t = trail[Len(trail)]
        /\ (todo # {} => h \in 1 .. m)
    BY TopPlaces
  <1>2. Len(t1) = m + 1 /\ t1[m + 1] = p /\ \A i \in 1 .. m : t1[i] = t[i]
    <2> DEFINE n == Len(trail)
               s1 == Pushed(trail, p)
    <2>1. /\ Len(s1) = n /\ Len(s1[n]) = Len(trail[n]) + 1
          /\ \A i \in 1 .. Len(trail[n]) : s1[n][i] = trail[n][i]
          /\ s1[n][Len(trail[n]) + 1] = p
      BY <1>1, PushShape
    <2>2. t1 = s1[Len(s1)] /\ t = trail[n]
      BY DEF Last
    <2> HIDE DEF s1, n
    <2>3. t1 = s1[n]
      BY <2>1, <2>2
    <2> HIDE DEF t1, t
    <2> QED
      BY <2>1, <2>2, <2>3 DEF t
  <1>3. Last(qhead') = h /\ h <= m
    BY DEF Last, LastDone
  <1> HIDE DEF m, h, t, t1
  <1>4. h <= Len(t1)
    BY <1>1, <1>2, <1>3
  <1>5. todo # {} => current' = current
    <2>1. current' = t1[h]
      BY <1>3 DEF current, t1
    <2>2. current = t[h]
      BY DEF current, t, h
    <2> QED
      BY <2>1, <2>2, <1>1, <1>2
  <1>6. ASSUME NEW l \in assigns', NEW e \in watches'[l], ~ Attended(clause', assigns', e)
        PROVE  Waits(l, e)'
    <2>0. \A i \in h + 1 .. m + 1 : t1[i] = l => Waits(l, e)'
      BY <1>2, <1>3 DEF Waits, t1
    <2>1. CASE l = p
      <3>1. m + 1 \in h + 1 .. m + 1
        BY <1>1, <1>3
      <3> QED
        BY <3>1, <2>0, <2>1, <1>2
    <2>2. CASE l # p
      <3>1. l \in assigns
        BY <2>2
      <3>2. e \in watches[l] /\ ~ Attended(clause, assigns, e)
        BY <3>1, <1>6
      <3>3. Waits(l, e)
        BY <3>1, <3>2 DEF LastDone
      <3>4. CASE \E i \in h + 1 .. m : t[i] = l
        <4>1. PICK i \in h + 1 .. m : t[i] = l
          BY <3>4
        <4>2. i \in h + 1 .. m + 1 /\ i \in 1 .. m
          BY <1>1
        <4> QED
          BY <4>1, <4>2, <2>0, <1>2
      <3>5. CASE todo # {} /\ l = current /\ e \in todo
        <4>1. e \in todo'
          BY <3>5, <1>6
        <4> QED
          BY <4>1, <3>5, <1>5 DEF Waits
      <3> QED
        BY <3>3, <3>4, <3>5 DEF Waits, h, m, t
    <2> QED
      BY <2>1, <2>2
  <1> QED
    BY <1>3, <1>4, <1>5, <1>6 DEF t1

-----------------------------------------------------------------------------
(* Adding clauses. *)

LEMMA OnObjects ==
  ASSUME SatInv, NEW l \in Lit, NEW e \in watches[l], e[1] # "bin"
  PROVE  /\ e = <<"clause", e[2]>> /\ e[2] \in DOMAIN clause /\ e[2] \in 1..MaxClause
         /\ ~ clause[e[2]].temp /\ Kept(clause, rtrail, e[2])
         /\ clause[e[2]].c0 # 0 /\ clause[e[2]].c1 # 0 /\ -l \in {clause[e[2]].c0, clause[e[2]].c1}
  <1>1. StoreRight(clause, watches, learnts, rtrail, Remaining) /\ watches \in [Lit -> SUBSET WatchElem]
    BY SatParts, TopPlaces
  <1>2. e \in WatchElem /\ WatchRight(clause, rtrail, Remaining, l, e)
    BY <1>1 DEF StoreRight
  <1>3. e \in {"clause"} \X (1..MaxClause)
    BY <1>2 DEF WatchElem
  <1> QED
    BY <1>2, <1>3 DEF WatchRight, Kept

LEMMA AttachHas ==
  ASSUME NEW w, NEW c0, NEW c1, NEW both \in BOOLEAN, NEW e0, NEW e1, NEW W, W = attach(w, c0, c1, both, e0, e1)
  PROVE  /\ \A l \in Lit : w[l] \subseteq W[l]
         /\ (-c1 \in Lit => e1 \in W[-c1])
         /\ (both /\ -c0 \in Lit => e0 \in W[-c0])
         /\ \A l \in Lit : \A e \in W[l] : e \in w[l] \/ (l = -c1 /\ e = e1) \/ (l = -c0 /\ e = e0)
  BY DEF attach

(* Watches that are new are of literals that are not true. *)
LEMMA WatchesAdded ==
  ASSUME SatInv, NEW a, a \subseteq assigns, NEW M1, NEW W1,
         \A l \in Lit : \A e \in W1[l] : e \in watches[l] \/ l \notin assigns,
         \A i \in DOMAIN clause : ~ clause[i].temp => SamePair(clause, M1, i)
  PROVE  /\ \A l \in a : \A e \in W1[l] : e \in watches[l] /\ (e[1] # "bin" => SamePair(clause, M1, e[2]))
         /\ \A u \in SUBSET a : Watched(clause, watches, u) => Watched(M1, W1, u)
         /\ \A l \in a : \A e \in W1[l] : \A u :
              e \in watches[l] /\ (Attended(clause, u, e) => Attended(M1, u, e))
  <1>1. assigns \in SUBSET Lit
    BY TopPlaces
  <1>2. ASSUME NEW l \in a, NEW e \in W1[l]
        PROVE  e \in watches[l] /\ (e[1] # "bin" => SamePair(clause, M1, e[2]))
    <2>1. l \in Lit /\ e \in watches[l]
      BY <1>1
    <2> QED
      BY <2>1, OnObjects
  <1>3. \A u \in SUBSET a : Watched(clause, watches, u) => Watched(M1, W1, u)
    BY <1>2, WatchedStays
  <1>4. \A l \in a : \A e \in W1[l] : \A u :
          e \in watches[l] /\ (Attended(clause, u, e) => Attended(M1, u, e))
    BY <1>2 DEF Attended, SamePair
  <1> QED
    BY <1>2, <1>3, <1>4

LEMMA ProblemMore ==
  ASSUME NEW root, NEW M, NEW W, NEW n \in Nat, ProblemHeld(root, M, W, n), Held(root, M, W, Elems(Problem[n + 1]))
  PROVE  ProblemHeld(root, M, W, n + 1)
  <1>1. \A j \in 1 .. n + 1 : j \in 1 .. n \/ j = n + 1
    OBVIOUS
  <1> QED
    BY <1>1 DEF ProblemHeld

LEMMA addClauseCompletes ==
  ASSUME SatInv, Complete, addClause, given' = given
  PROVE  Complete'
  <1> DEFINE C == Problem[loaded + 1]
             open == {i \in DOMAIN C : isUndef(C[i])}
             firstTwo(i, j) == i < j /\ \A k \in open : k = i \/ k >= j
  <1>1. /\ trail \in Seq(Seq(Lit)) /\ Len(trail) \in Nat /\ Len(trail) > 0 /\ assigns \in SUBSET Lit
        /\ given \in DOMAIN Runs /\ watches \in [Lit -> SUBSET WatchElem]
    BY TopPlaces
  <1>2. loaded \in 0 .. Len(Problem) /\ learnts \subseteq 1..MaxClause /\ MaxClause \in Nat
    BY SatParts, TypedNow
  <1>3. /\ pc = "load" /\ loaded < Len(Problem) /\ loaded' = loaded + 1
        /\ UNCHANGED <<learnts, confl, todo, seen, an, budget, solutions, found>>
    BY DEF addClause
  <1>4. Len(trail) = 1 /\ confl = NoReason /\ todo = {} /\ Active
    BY <1>1, <1>3, SatParts DEF Phases, decisionLevel, Active
  <1>5. Problem \in Seq(Seq(Lit)) /\ loaded + 1 \in DOMAIN Problem /\ loaded \in Nat
    BY <1>1, <1>2, <1>3, RunFacts
  <1>6. C \in Seq(Lit)
    BY <1>5
  <1>7. \A i \in DOMAIN C : C[i] \in Lit /\ C[i] # 0 /\ -(-C[i]) = C[i] /\ -C[i] \in Lit
    <2>1. \A i \in DOMAIN C : C[i] \in Lit
      BY <1>6
    <2> QED
      BY <2>1, <1>1, LitFacts
  <1>8. \A i, j \in DOMAIN C : C[i] = C[j] => i = j
    <2>1. Runs[given] \in Elems(Runs)
      BY <1>1 DEF Elems
    <2> QED
      BY <2>1, <1>5, ProblemAssumption DEF Problem
  <1>9. DeepOf(trail) = {}
    BY <1>1, <1>4, Places
  <1>10. /\ LowerDone(trail, assigns, qhead, clause, watches) /\ LastDone
         /\ StoreComplete(clause, watches, learnts)
         /\ ProblemHeld(assigns, clause, watches, loaded)
         /\ found \subseteq Solutions
    BY <1>3, <1>9, CompleteNow
  (* The clause is held in what is made of it, and its new watches wait for *)
  (* literals that are not true yet.                                        *)
  <1>11. ASSUME stack' = stack, pc' = "load",
                \A l \in Lit : \A e \in watches'[l] : e \in watches[l] \/ l \notin assigns,
                \A l \in Lit : watches[l] \subseteq watches'[l],
                \A i \in DOMAIN clause : i \in DOMAIN clause' /\ clause'[i] = clause[i],
                StoreComplete(clause', watches', learnts),
                Held(assigns, clause', watches', Elems(C))
         PROVE  Complete'
    <2>1. UNCHANGED <<trail, assigns, qhead>>
      BY <1>11 DEF stack
    <2>2. \A i \in DOMAIN clause : ~ clause[i].temp => SamePair(clause, clause', i)
      BY <1>11 DEF SamePair
    <2>3. /\ \A u \in SUBSET assigns : Watched(clause, watches, u) => Watched(clause', watches', u)
          /\ \A l \in assigns : \A e \in watches'[l] : \A u :
               e \in watches[l] /\ (Attended(clause, u, e) => Attended(clause', u, e))
      BY <2>2, <1>11, WatchesAdded
    <2>4. LowerDone(trail', assigns', qhead', clause', watches')
      <3>1. LowerDone(trail, assigns, qhead, clause', watches')
        BY <2>3, <1>10, LowerMemory
      <3> QED
        BY <3>1, <2>1
    <2>5. /\ Last(qhead') <= Len(Last(trail'))
          /\ \A l \in assigns' : \A e \in watches'[l] : Attended(clause', assigns', e) \/ Waits(l, e)'
      BY <2>1, <2>3, <1>3, <1>4, <1>10, StaysDone
    <2>6. ProblemHeld(assigns, clause', watches', loaded)
      BY <1>10, <1>11, HeldStays
    <2>7. ProblemHeld(assigns' \ DeepOf(trail'), clause', watches', loaded')
      <3>1. ProblemHeld(assigns, clause', watches', loaded + 1)
        BY <2>6, <1>5, <1>11, ProblemMore
      <3>2. assigns' \ DeepOf(trail') = assigns
        BY <2>1, <1>9
      <3> QED
        BY <3>1, <3>2, <1>3
    <2> QED
      BY <2>4, <2>5, <2>7, <1>3, <1>4, <1>10, <1>11, CompleteNext
  <1> HIDE DEF C, open, firstTwo
  <1>12. CASE /\ \E l \in Elems(C) : isTrue(l)
              /\ UNCHANGED <<pc, clause, watches, stack>>
    <2>1. Held(assigns, clause', watches', Elems(C))
      BY <1>12 DEF Held, isTrue
    <2> QED
      BY <2>1, <1>3, <1>10, <1>11, <1>12
  <1>13. CASE open = {} /\ pc' = "GUN" /\ UNCHANGED stack /\ UNCHANGED <<clause, watches>>
    <2>1. UNCHANGED <<trail, assigns, qhead>>
      BY <1>13 DEF stack
    <2>2. ~ Active'
      BY <1>13 DEF Active
    <2> QED
      BY <2>1, <2>2, <1>3, <1>10, <1>13, CompleteNext
  <1>14. ASSUME NEW i \in open, enqueue(C[i], NoReason), UNCHANGED pc, UNCHANGED <<clause, watches>>
         PROVE  Complete'
    <2> DEFINE q == C[i]
    <2>1. q \in Lit /\ q \notin assigns /\ q \in Elems(C)
      BY <1>7 DEF open, isUndef, isTrue, Elems
    <2>2. trail' = Pushed(trail, q) /\ assigns' = assigns \cup {q} /\ qhead' = qhead
      BY <1>14, enqueueNow
    <2> HIDE DEF q
    <2>3. LowerDone(trail', assigns', qhead', clause', watches')
      BY <2>1, <2>2, <1>1, <1>10, <1>14, LowerPush
    <2>4. /\ Last(qhead') <= Len(Last(trail'))
          /\ \A l \in assigns' : \A e \in watches'[l] : Attended(clause', assigns', e) \/ Waits(l, e)'
      <3>1. \A l \in assigns : \A e \in watches'[l] :
              e \in watches[l] /\ (Attended(clause, assigns, e) => Attended(clause', assigns', e))
        BY <2>2, <1>14 DEF Attended
      <3> QED
        BY <3>1, <2>1, <2>2, <1>3, <1>4, <1>10, PushDone
    <2>5. ProblemHeld(assigns' \ DeepOf(trail'), clause', watches', loaded')
      <3>1. Len(Pushed(trail, q)) = 1 /\ Pushed(trail, q) \in Seq(Seq(Lit))
        BY <2>1, <1>1, <1>4, PushShape
      <3>2. DeepOf(trail') = {}
        BY <3>1, <2>2, Places
      <3>3. ProblemHeld(assigns', clause, watches, loaded)
        BY <2>2, <1>10, HeldStays
      <3>4. Held(assigns', clause, watches, Elems(C))
        BY <2>1, <2>2 DEF Held
      <3>5. ProblemHeld(assigns', clause, watches, loaded + 1)
        BY <3>3, <3>4, <1>5, ProblemMore DEF C
      <3> QED
        BY <3>2, <3>5, <1>3, <1>14
    <2> QED
      BY <2>3, <2>4, <2>5, <1>3, <1>4, <1>10, <1>14, CompleteNext
  <1>15. ASSUME NEW i \in open, NEW j \in open, firstTwo(i, j)
         PROVE  /\ i \in DOMAIN C /\ j \in DOMAIN C /\ C[i] # C[j]
                /\ C[i] \in Elems(C) /\ C[j] \in Elems(C) /\ -C[i] \notin assigns /\ -C[j] \notin assigns
    <2>1. i \in DOMAIN C /\ j \in DOMAIN C /\ -C[i] \notin assigns /\ -C[j] \notin assigns
      BY DEF open, isUndef, isFalse
    <2>2. i # j
      <3>1. i \in Int /\ i < j
        BY <2>1, <1>6, <1>15 DEF firstTwo
      <3> QED
        BY <3>1
    <2> QED
      BY <2>1, <2>2, <1>8 DEF Elems
  <1>16. ASSUME NEW i \in open, NEW j \in open, firstTwo(i, j),
                watches' = attach(watches, C[i], C[j], TRUE, <<"bin", C[j]>>, <<"bin", C[i]>>),
                UNCHANGED <<pc, clause, stack>>
         PROVE  Complete'
    <2> DEFINE f == <<"bin", C[j]>>
               g == <<"bin", C[i]>>
    <2>1. /\ C[i] \in Elems(C) /\ C[j] \in Elems(C) /\ -C[i] \notin assigns /\ -C[j] \notin assigns
          /\ -C[j] \in Lit /\ -(-C[j]) = C[j]
      BY <1>7, <1>15, <1>16
    <2>2. g[1] = "bin" /\ g[2] = C[i] /\ watches' = attach(watches, C[i], C[j], TRUE, f, g)
      BY <1>16
    <2> HIDE DEF f, g
    <2>3. /\ \A l \in Lit : watches[l] \subseteq watches'[l]
          /\ g \in watches'[-C[j]]
          /\ \A l \in Lit : \A e \in watches'[l] : e \in watches[l] \/ l = -C[j] \/ l = -C[i]
      <3>1. /\ \A l \in Lit : watches[l] \subseteq watches'[l]
            /\ (-C[j] \in Lit => g \in watches'[-C[j]])
            /\ \A l \in Lit : \A e \in watches'[l] : e \in watches[l] \/ (l = -C[j] /\ e = g) \/ (l = -C[i] /\ e = f)
        BY <2>2 DEF attach
      <3> QED
        BY <3>1, <2>1
    <2>4. Held(assigns, clause', watches', Elems(C))
      BY <2>1, <2>2, <2>3 DEF Held
    <2>5. StoreComplete(clause', watches', learnts)
      <3>1. \A k \in learnts : clause'[k].learnt
        BY <1>10, <1>16 DEF StoreComplete
      <3> QED
        BY <3>1, <2>3, <1>1, <1>10, <1>16, CompleteStays
    <2> QED
      BY <2>1, <2>3, <2>4, <2>5, <1>3, <1>11, <1>16
  <1>17. ASSUME NEW i \in open, NEW j \in open, firstTwo(i, j), Free # {},
                clause' = With(clause, Slot,
                           [c0 |-> C[i], c1 |-> C[j], rest |-> {C[k] : k \in open} \ {C[i], C[j]},
                            learnt |-> FALSE, temp |-> FALSE]),
                watches' = attach(watches, C[i], C[j], TRUE, <<"clause", Slot>>, <<"clause", Slot>>),
                UNCHANGED <<pc, stack>>
         PROVE  Complete'
    <2> DEFINE f == <<"clause", Slot>>
               c == [c0 |-> C[i], c1 |-> C[j], rest |-> {C[k] : k \in open} \ {C[i], C[j]},
                     learnt |-> FALSE, temp |-> FALSE]
    <2>1. /\ C[i] \in Elems(C) /\ C[j] \in Elems(C) /\ -C[i] \notin assigns /\ -C[j] \notin assigns
          /\ -C[j] \in Lit /\ -C[i] \in Lit /\ C[i] \in Lit /\ C[j] \in Lit /\ C[i] # C[j]
      BY <1>7, <1>15, <1>17
    <2>2. /\ c.c0 = C[i] /\ c.c1 = C[j] /\ c.rest = {C[k] : k \in open} \ {C[i], C[j]} /\ ~ c.learnt /\ ~ c.temp
          /\ clause' = With(clause, Slot, c)
      BY <1>17
    <2>3. watches' = attach(watches, C[i], C[j], TRUE, f, f)
      BY <1>17
    <2> HIDE DEF c
    <2>4. Slot \in 1..MaxClause /\ Slot \notin DOMAIN clause
      BY <1>2, <1>17, SlotFacts DEF Slot, Free
    <2>5. /\ DOMAIN clause' = DOMAIN clause \cup {Slot} /\ clause'[Slot] = c
          /\ \A k \in DOMAIN clause : clause'[k] = clause[k]
      <3>1. /\ DOMAIN clause' = DOMAIN clause \cup {Slot} /\ clause'[Slot] = c
            /\ \A k \in DOMAIN clause : k # Slot => clause'[k] = clause[k]
        BY <2>2 DEF With
      <3> QED
        BY <3>1, <2>4
    <2> HIDE DEF f
    <2>6. /\ \A l \in Lit : watches[l] \subseteq watches'[l]
          /\ f \in watches'[-C[j]] /\ f \in watches'[-C[i]]
          /\ \A l \in Lit : \A e \in watches'[l] : e \in watches[l] \/ l = -C[j] \/ l = -C[i]
      <3>1. /\ \A l \in Lit : watches[l] \subseteq watches'[l]
            /\ (-C[j] \in Lit => f \in watches'[-C[j]])
            /\ (TRUE /\ -C[i] \in Lit => f \in watches'[-C[i]])
            /\ \A l \in Lit : \A e \in watches'[l] : e \in watches[l] \/ (l = -C[j] /\ e = f) \/ (l = -C[i] /\ e = f)
        BY <2>3 DEF attach
      <3> QED
        BY <3>1, <2>1
    <2>7. Lits(c) \subseteq Elems(C)
      <3>1. {C[k] : k \in open} \subseteq Elems(C)
        BY DEF open, Elems
      <3> QED
        BY <3>1, <2>1, <2>2 DEF Lits
    <2>8. Held(assigns, clause', watches', Elems(C))
      BY <2>2, <2>5, <2>7 DEF Held
    <2>9. StoreComplete(clause', watches', learnts)
      <3>1. \A k \in learnts : k \in DOMAIN clause
        BY SatParts DEF StoreRight, Kept
      <3>2. \A k \in learnts : clause'[k].learnt
        BY <3>1, <2>5, <1>10 DEF StoreComplete
      <3>3. OnWatch(watches', clause'[Slot], Slot)
        BY <2>1, <2>2, <2>5, <2>6 DEF OnWatch, f
      <3>4. ASSUME NEW k \in DOMAIN clause, Counts(clause', learnts, k)
            PROVE  OnWatch(watches', clause'[k], k)
        <4>1. clause'[k] = clause[k] /\ Counts(clause, learnts, k)
          BY <3>4, <2>5 DEF Counts
        <4>2. OnWatch(watches, clause[k], k)
          BY <4>1, <1>10 DEF StoreComplete
        <4>3. -clause[k].c0 \in Lit /\ -clause[k].c1 \in Lit
          BY <4>2, <1>1, LitFacts DEF OnWatch
        <4> QED
          BY <4>1, <4>2, <4>3, <2>6 DEF OnWatch
      <3> QED
        BY <3>2, <3>3, <3>4, <2>5 DEF StoreComplete
    <2> QED
      BY <2>1, <2>5, <2>6, <2>8, <2>9, <1>3, <1>11, <1>17
  <1> QED
    <2>1. \/ /\ \E l \in Elems(C) : isTrue(l)
             /\ UNCHANGED <<pc, clause, watches, stack>>
          \/ /\ open = {} /\ pc' = "GUN" /\ UNCHANGED stack /\ UNCHANGED <<clause, watches>>
          \/ /\ \E i \in open : enqueue(C[i], NoReason)
             /\ UNCHANGED pc /\ UNCHANGED <<clause, watches>>
          \/ \E i, j \in open :
               /\ firstTwo(i, j)
               /\ watches' = attach(watches, C[i], C[j], TRUE, <<"bin", C[j]>>, <<"bin", C[i]>>)
               /\ UNCHANGED <<pc, clause, stack>>
          \/ \E i, j \in open :
               /\ firstTwo(i, j) /\ Free # {}
               /\ clause' = With(clause, Slot,
                           [c0 |-> C[i], c1 |-> C[j], rest |-> {C[k] : k \in open} \ {C[i], C[j]},
                            learnt |-> FALSE, temp |-> FALSE])
               /\ watches' = attach(watches, C[i], C[j], TRUE, <<"clause", Slot>>, <<"clause", Slot>>)
               /\ UNCHANGED <<pc, stack>>
      BY DEF addClause, C, open, firstTwo
    <2> QED
      BY <2>1, <1>12, <1>13, <1>14, <1>16, <1>17

-----------------------------------------------------------------------------
(* The store changes: clauses on the watches stay where they are. *)

LEMMA CountsKept ==
  ASSUME SatInv, StoreComplete(clause, watches, learnts), NEW i \in DOMAIN clause, Counts(clause, learnts, i)
  PROVE  Kept(clause, rtrail, i)
  <1> DEFINE e == <<"clause", i>>
             l == -clause[i].c1
  <1>1. OnWatch(watches, clause[i], i) /\ given \in DOMAIN Runs
    BY TopPlaces DEF StoreComplete
  <1>2. l \in Lit /\ e \in watches[l]
    BY <1>1, LitFacts DEF OnWatch
  <1>3. e[1] # "bin" /\ e[2] = i
    OBVIOUS
  <1> HIDE DEF e, l
  <1> QED
    BY <1>2, <1>3, OnObjects

(* The clause of slot i is where it was, perhaps with fewer literals. *)
SameFront(M, M1, i) ==
  /\ i \in DOMAIN M1 /\ M1[i].c0 = M[i].c0 /\ M1[i].c1 = M[i].c1 /\ M1[i].rest \subseteq M[i].rest
  /\ M1[i].learnt = M[i].learnt /\ M1[i].temp = M[i].temp

(* The learnt clauses S go, the others that are not freed with a level stay. *)
LEMMA StoreKept ==
  ASSUME SatInv, StoreComplete(clause, watches, learnts), NEW S \in SUBSET learnts, NEW M1, NEW W1, NEW ls1,
         \A i \in DOMAIN clause \ S : Kept(clause, rtrail, i) => SameFront(clause, M1, i),
         \A i \in DOMAIN M1 : Counts(M1, ls1, i) => i \in DOMAIN clause \ S /\ Counts(clause, learnts, i),
         DetachedOf(watches, W1, S), ls1 \subseteq learnts \ S
  PROVE  /\ StoreComplete(M1, W1, ls1)
         /\ \A u \in SUBSET assigns : Watched(clause, watches, u) => Watched(M1, W1, u)
         /\ \A root, root1, n : ProblemHeld(root, clause, watches, n) /\ root \subseteq root1
                                 => ProblemHeld(root1, M1, W1, n)
  <1>1. given \in DOMAIN Runs /\ assigns \in SUBSET Lit
    BY TopPlaces
  <1>2. ASSUME NEW i \in DOMAIN clause, Counts(clause, learnts, i), i \notin S PROVE SameFront(clause, M1, i)
    BY <1>2, CountsKept
  <1>3. ASSUME NEW l \in Lit, NEW i, i \notin S, <<"clause", i>> \in watches[l] PROVE <<"clause", i>> \in W1[l]
    BY <1>3 DEF DetachedOf
  <1>4. StoreComplete(M1, W1, ls1)
    <2>1. \A i \in ls1 : M1[i].learnt
      <3> SUFFICES ASSUME NEW i \in ls1 PROVE M1[i].learnt
        OBVIOUS
      <3>1. i \in learnts /\ i \notin S /\ clause[i].learnt
        BY DEF StoreComplete
      <3>2. Kept(clause, rtrail, i)
        BY <3>1, SatParts DEF StoreRight
      <3> QED
        BY <3>1, <3>2 DEF Kept, SameFront
    <2>2. ASSUME NEW i \in DOMAIN M1, Counts(M1, ls1, i)
          PROVE  /\ i \in DOMAIN clause /\ Counts(clause, learnts, i)
                 /\ M1[i].c0 = clause[i].c0 /\ M1[i].c1 = clause[i].c1
                 /\ M1[i].rest \subseteq clause[i].rest /\ M1[i].learnt = clause[i].learnt
                 /\ \A l \in Lit : <<"clause", i>> \in watches[l] => <<"clause", i>> \in W1[l]
      <3>1. i \in DOMAIN clause \ S /\ Counts(clause, learnts, i)
        BY <2>2
      <3>2. SameFront(clause, M1, i)
        BY <3>1, <1>2
      <3> QED
        BY <3>1, <3>2, <1>3 DEF SameFront
    <2> QED
      BY <2>1, <2>2, <1>1, CompleteStays
  <1>5. ASSUME NEW l \in Lit, NEW e \in W1[l]
        PROVE  e \in watches[l] /\ (e[1] # "bin" => SamePair(clause, M1, e[2]))
    <2>1. e \in watches[l] /\ ~ (e[1] = "clause" /\ e[2] \in S)
      BY DEF DetachedOf
    <2>2. ASSUME e[1] # "bin" PROVE SamePair(clause, M1, e[2])
      <3>1. e = <<"clause", e[2]>> /\ e[2] \in DOMAIN clause /\ Kept(clause, rtrail, e[2])
        BY <2>1, <2>2, OnObjects
      <3>2. e[2] \notin S
        BY <3>1, <2>1
      <3> QED
        BY <3>1, <3>2 DEF SameFront, SamePair
    <2> QED
      BY <2>1, <2>2
  <1>6. ASSUME NEW u \in SUBSET assigns, Watched(clause, watches, u) PROVE Watched(M1, W1, u)
    <2>1. \A l \in u : l \in Lit
      BY <1>1
    <2> QED
      BY <2>1, <1>5, <1>6, WatchedStays
  <1>7. ASSUME NEW root, NEW root1, NEW n, ProblemHeld(root, clause, watches, n), root \subseteq root1
        PROVE  ProblemHeld(root1, M1, W1, n)
    <2>1. \A l \in Lit : \A e \in watches[l] : e[1] = "bin" => e \in W1[l]
      BY DEF DetachedOf
    <2>2. ASSUME NEW i \in DOMAIN clause, ~ clause[i].temp, ~ clause[i].learnt
          PROVE  i \in DOMAIN M1 /\ ~ M1[i].temp /\ ~ M1[i].learnt /\ Lits(M1[i]) \subseteq Lits(clause[i])
      <3>1. Counts(clause, learnts, i) /\ i \notin S
        BY <2>2 DEF Counts, StoreComplete
      <3>2. SameFront(clause, M1, i)
        BY <3>1, <1>2
      <3> QED
        BY <3>2, <2>2 DEF SameFront, Lits
    <2> QED
      BY <2>1, <2>2, <1>7, HeldStays
  <1> QED
    BY <1>4, <1>6, <1>7

-----------------------------------------------------------------------------
(* Steps that leave the trail and the store as they are. *)

LEMMA SameCompletes ==
  ASSUME Complete, given' = given, UNCHANGED <<db, assigns, trail, qhead, found>>,
         Active' => Active /\ todo' = todo, pc' # "GUN" => pc # "GUN"
  PROVE  Complete'
  <1>1. UNCHANGED <<loaded, clause, learnts, watches>>
    BY DEF db
  <1>2. /\ LowerDone(trail, assigns, qhead, clause, watches) /\ LastDone
        /\ StoreComplete(clause, watches, learnts)
        /\ (pc # "GUN" => ProblemHeld(assigns \ DeepOf(trail), clause, watches, loaded))
        /\ found \subseteq Solutions
    BY CompleteNow
  <1>3. ASSUME Active'
        PROVE  /\ Last(qhead') <= Len(Last(trail'))
               /\ (todo' # {} => todo' \subseteq watches'[Last(trail')[Last(qhead')]])
               /\ \A l \in assigns' : \A e \in watches'[l] : Attended(clause', assigns', e) \/ Waits(l, e)'
    <2>1. Active /\ todo' = todo
      BY <1>3
    <2>2. \A l, e : Waits(l, e) => Waits(l, e)'
      BY <2>1 DEF Waits, Last, current
    <2> QED
      BY <2>1, <2>2, <1>1, <1>2 DEF LastDone, current, Last
  <1> QED
    BY <1>1, <1>2, <1>3, CompleteNext

LEMMA InitCompletes ==
  ASSUME Init
  PROVE  Complete
  <1>1. LowerDone(trail, assigns, qhead, clause, watches) /\ LastDone
    BY DEF Init, LowerDone, LastDone, Last
  <1>2. StoreComplete(clause, watches, learnts)
    BY DEF Init, StoreComplete
  <1>3. ProblemHeld(Root, clause, watches, loaded) /\ found \subseteq Solutions
    BY DEF Init, ProblemHeld
  <1> QED
    BY <1>1, <1>2, <1>3 DEF Complete

-----------------------------------------------------------------------------
(* Propagation.  What a step of it may do to the store: *)
Edited ==
  /\ StoreComplete(clause', watches', learnts')
  /\ \A l \in assigns : \A e \in watches'[l] :
       e \in watches[l] /\ \A u \in SUBSET assigns : Attended(clause, u, e) => Attended(clause', u, e)
  /\ \A root, root1, n : ProblemHeld(root, clause, watches, n) /\ root \subseteq root1
                          => ProblemHeld(root1, clause', watches', n)

LEMMA Unedited ==
  ASSUME Complete, UNCHANGED <<clause, watches, learnts>>
  PROVE  Edited
  <1>1. StoreComplete(clause, watches, learnts)
    BY CompleteNow
  <1>2. ASSUME NEW root, NEW root1, NEW n, ProblemHeld(root, clause, watches, n), root \subseteq root1
        PROVE  ProblemHeld(root1, clause, watches, n)
    BY <1>2, HeldStays
  <1> QED
    BY <1>1, <1>2 DEF Edited

LEMMA EditedLower ==
  ASSUME Complete, Edited
  PROVE  LowerDone(trail, assigns, qhead, clause', watches')
  <1>1. \A u \in SUBSET assigns : Watched(clause, watches, u) => Watched(clause', watches', u)
    BY DEF Edited, Watched
  <1> QED
    BY <1>1, CompleteNow, LowerMemory

(* A watch was looked at. *)
LEMMA EditStays ==
  ASSUME SatInv, Complete, given' = given, Propagating, UNCHANGED <<pc, stack, confl, loaded, found>>, Edited,
         todo' \subseteq todo, todo' \subseteq watches'[current],
         \A e \in todo \ todo' : e \in watches'[current] => Attended(clause', assigns, e)
  PROVE  Complete'
  <1>1. UNCHANGED <<trail, assigns, qhead>> /\ Active
    BY DEF stack, Propagating, Active
  <1>2. LowerDone(trail', assigns', qhead', clause', watches')
    BY <1>1, EditedLower
  <1>3. LastDone /\ found \subseteq Solutions /\ ProblemHeld(assigns \ DeepOf(trail), clause, watches, loaded)
    BY CompleteNow DEF Propagating
  <1>4. /\ Last(qhead') <= Len(Last(trail')) /\ (todo # {} => current' = current)
        /\ \A l \in assigns' : \A e \in watches'[l] : Attended(clause', assigns', e) \/ Waits(l, e)'
    <2>1. \A l \in assigns : \A e \in watches'[l] :
            e \in watches[l] /\ (Attended(clause, assigns, e) => Attended(clause', assigns, e))
      BY DEF Edited
    <2> QED
      BY <2>1, <1>1, <1>3, StaysDone
  <1>5. todo' # {} => todo' \subseteq watches'[Last(trail')[Last(qhead')]]
    BY <1>4 DEF current
  <1>6. ProblemHeld(assigns' \ DeepOf(trail'), clause', watches', loaded')
    BY <1>1, <1>3 DEF Edited
  <1> QED
    BY <1>2, <1>3, <1>4, <1>5, <1>6, CompleteNext DEF Edited

(* A watch implied a literal. *)
LEMMA EditPush ==
  ASSUME SatInv, Complete, given' = given, Propagating, UNCHANGED <<pc, confl, loaded, found>>, Edited,
         NEW p \in Lit, p \notin assigns, trail' = Pushed(trail, p), assigns' = assigns \cup {p}, qhead' = qhead,
         todo' \subseteq todo, todo' \subseteq watches'[current],
         \A e \in todo \ todo' : e \in watches'[current] => Attended(clause', assigns', e)
  PROVE  Complete'
  <1>1. /\ Active /\ trail \in Seq(Seq(Lit)) /\ Len(trail) > 0
    BY TopPlaces DEF Propagating, Active
  <1>2. LowerDone(trail', assigns', qhead', clause', watches')
    <2>1. LowerDone(trail, assigns, qhead, clause', watches')
      BY EditedLower
    <2> QED
      BY <2>1, <1>1, LowerPush
  <1>3. LastDone /\ found \subseteq Solutions /\ ProblemHeld(assigns \ DeepOf(trail), clause, watches, loaded)
    BY CompleteNow DEF Propagating
  <1>4. /\ Last(qhead') <= Len(Last(trail')) /\ (todo # {} => current' = current)
        /\ \A l \in assigns' : \A e \in watches'[l] : Attended(clause', assigns', e) \/ Waits(l, e)'
    <2>1. \A l \in assigns : \A e \in watches'[l] :
            e \in watches[l] /\ (Attended(clause, assigns, e) => Attended(clause', assigns', e))
      BY DEF Edited, Attended
    <2> QED
      BY <2>1, <1>1, <1>3, PushDone
  <1>5. todo' # {} => todo' \subseteq watches'[Last(trail')[Last(qhead')]]
    BY <1>4 DEF current
  <1>6. ProblemHeld(assigns' \ DeepOf(trail'), clause', watches', loaded')
    <2>1. assigns \ DeepOf(trail) \subseteq assigns' \ DeepOf(trail')
      BY <1>1, RootPush
    <2> QED
      BY <2>1, <1>3 DEF Edited
  <1> QED
    BY <1>2, <1>3, <1>4, <1>5, <1>6, CompleteNext DEF Edited

(* A conflict was found: nothing more is looked at. *)
LEMMA EditStops ==
  ASSUME SatInv, Complete, given' = given, Propagating, UNCHANGED <<pc, loaded, found, trail, assigns>>, Edited,
         confl' # NoReason, \A k \in 1 .. Len(trail) - 1 : qhead'[k] = qhead[k]
  PROVE  Complete'
  <1>1. ~ Active'
    BY DEF Active
  <1>2. LowerDone(trail', assigns', qhead', clause', watches')
    <2>1. LowerDone(trail, assigns, qhead, clause', watches')
      BY EditedLower
    <2> QED
      BY <2>1 DEF LowerDone
  <1>3. found \subseteq Solutions /\ ProblemHeld(assigns \ DeepOf(trail), clause, watches, loaded)
    BY CompleteNow DEF Propagating
  <1>4. ProblemHeld(assigns' \ DeepOf(trail'), clause', watches', loaded')
    BY <1>3 DEF Edited
  <1> QED
    BY <1>1, <1>2, <1>3, <1>4, CompleteNext DEF Edited

LEMMA EditClash ==
  ASSUME SatInv, Complete, given' = given, Propagating, UNCHANGED <<pc, loaded, found>>, Edited,
         NEW r, r[1] # "none", clash(r)
  PROVE  Complete'
  <1>1. UNCHANGED <<trail, assigns>> /\ confl' = r /\ qhead' = [qhead EXCEPT ![Len(qhead)] = Len(Last(trail))]
    BY DEF clash
  <1>2. qhead \in Seq(Nat) /\ Len(qhead) = Len(trail) /\ Len(trail) \in Nat
    BY TopPlaces
  <1>3. confl' # NoReason /\ \A k \in 1 .. Len(trail) - 1 : qhead'[k] = qhead[k]
    BY <1>1, <1>2 DEF NoReason
  <1> QED
    BY <1>1, <1>3, EditStops

LEMMA nextLiteralCompletes ==
  ASSUME SatInv, Complete, nextLiteral, given' = given
  PROVE  Complete'
  <1> DEFINE m == Len(Last(trail))
             h == Last(qhead)
             t == Last(trail)
  <1>1. /\ Active /\ todo = {} /\ h < m /\ qhead' = [qhead EXCEPT ![Len(qhead)] = @ + 1]
        /\ todo' = watches[t[h + 1]]
        /\ UNCHANGED <<pc, clause, watches, learnts, loaded, assigns, trail, confl, found>>
    BY DEF nextLiteral, Propagating, Active, db
  <1>2. /\ qhead \in Seq(Nat) /\ Len(qhead) = Len(trail) /\ Len(trail) \in Nat /\ Len(trail) > 0
        /\ h \in Nat /\ m \in Nat /\ h = qhead[Len(qhead)]
    BY TopPlaces
  <1>3. Last(qhead') = h + 1 /\ Last(trail') = t /\ \A k \in 1 .. Len(trail) - 1 : qhead'[k] = qhead[k]
    BY <1>1, <1>2 DEF Last
  <1>4. /\ LowerDone(trail, assigns, qhead, clause, watches) /\ LastDone /\ found \subseteq Solutions
        /\ StoreComplete(clause, watches, learnts)
        /\ (pc # "GUN" => ProblemHeld(assigns \ DeepOf(trail), clause, watches, loaded))
    BY CompleteNow
  <1>5. LowerDone(trail', assigns', qhead', clause', watches')
    BY <1>1, <1>3, <1>4 DEF LowerDone
  <1>6. current' = t[h + 1]
    BY <1>3 DEF current
  <1>7. ASSUME NEW l \in assigns, NEW e \in watches[l] PROVE Attended(clause, assigns, e) \/ Waits(l, e)'
    <2> SUFFICES ASSUME ~ Attended(clause, assigns, e) PROVE Waits(l, e)'
      OBVIOUS
    <2>1. Waits(l, e)
      BY <1>1, <1>4 DEF LastDone
    <2>2. PICK i \in h + 1 .. m : t[i] = l
      BY <2>1, <1>1 DEF Waits
    <2>3. CASE i = h + 1
      <3>1. l = current' /\ e \in todo'
        BY <2>2, <2>3, <1>1, <1>6
      <3> QED
        BY <3>1 DEF Waits
    <2>4. CASE i # h + 1
      <3>1. i \in (h + 1) + 1 .. m
        BY <2>4, <1>2
      <3> HIDE DEF h, m, t
      <3>2. i \in Last(qhead') + 1 .. Len(Last(trail')) /\ Last(trail')[i] = l
        BY <3>1, <2>2, <1>3 DEF m, t
      <3> QED
        BY <3>2 DEF Waits
    <2> QED
      BY <2>3, <2>4
  <1>8. Last(qhead') <= Len(Last(trail'))
    BY <1>1, <1>2, <1>3
  <1>9. todo' # {} => todo' \subseteq watches'[Last(trail')[Last(qhead')]]
    BY <1>1, <1>3
  <1>10. \A l \in assigns' : \A e \in watches'[l] : Attended(clause', assigns', e) \/ Waits(l, e)'
    BY <1>1, <1>7
  <1> HIDE DEF m, h, t
  <1> QED
    BY <1>1, <1>4, <1>5, <1>8, <1>9, <1>10, CompleteNext

LEMMA absorbedBinaryCompletes ==
  ASSUME SatInv, Complete, absorbedBinary, given' = given
  PROVE  Complete'
  <1>1. PICK e \in todo :
          /\ Propagating /\ e[1] = "bin"
          /\ \/ isTrue(e[2]) /\ todo' = todo \ {e} /\ UNCHANGED <<stack, confl>>
             \/ isUndef(e[2]) /\ enqueue(e[2], <<"lits", {-current}>>) /\ todo' = todo \ {e} /\ UNCHANGED confl
             \/ isFalse(e[2]) /\ clash(<<"lits", {e[2], -current}>>)
          /\ UNCHANGED <<pc, db, seen, an, budget, solutions, found>>
    BY DEF absorbedBinary
  <1>2. UNCHANGED <<pc, clause, watches, learnts, loaded, found>> /\ Edited
    <2>1. UNCHANGED <<pc, clause, watches, learnts, loaded, found>>
      BY <1>1 DEF db
    <2> QED
      BY <2>1, Unedited
  <1>3. todo \subseteq watches[current]
    BY <1>1, CompleteNow DEF LastDone, Propagating, Active
  <1>4. CASE isTrue(e[2]) /\ todo' = todo \ {e} /\ UNCHANGED <<stack, confl>>
    <2>1. Attended(clause', assigns, e)
      BY <1>1, <1>4 DEF Attended, isTrue
    <2> QED
      BY <2>1, <1>1, <1>2, <1>3, <1>4, EditStays
  <1>5. CASE isUndef(e[2]) /\ enqueue(e[2], <<"lits", {-current}>>) /\ todo' = todo \ {e} /\ UNCHANGED confl
    <2>1. e[2] \in Lit /\ e[2] \notin assigns
      <3>1. todo \subseteq WatchElem
        BY SatParts, TypedNow
      <3>2. e \in {"bin"} \X Lit
        BY <3>1, <1>1 DEF WatchElem
      <3> QED
        BY <3>2, <1>5 DEF isUndef, isTrue
    <2>2. trail' = Pushed(trail, e[2]) /\ assigns' = assigns \cup {e[2]} /\ qhead' = qhead
      BY <1>5, enqueueNow
    <2>3. Attended(clause', assigns', e)
      BY <2>2, <1>1 DEF Attended
    <2> QED
      BY <2>1, <2>2, <2>3, <1>1, <1>2, <1>3, <1>5, EditPush
  <1>6. CASE isFalse(e[2]) /\ clash(<<"lits", {e[2], -current}>>)
    <2> DEFINE r == <<"lits", {e[2], -current}>>
    <2>1. r[1] # "none" /\ clash(r)
      BY <1>6
    <2> HIDE DEF r
    <2> QED
      BY <2>1, <1>1, <1>2, EditClash
  <1> QED
    BY <1>1, <1>4, <1>5, <1>6

-----------------------------------------------------------------------------
(* A watched clause is rearranged: its two watched literals change places, or *)
(* a literal that is not false takes the place of the one that became false.  *)

LEMMA SwapOnWatch ==
  ASSUME given \in DOMAIN Runs, NEW W, NEW c \in ClauseObject, NEW i, OnWatch(W, c, i),
         -current \in {c.c0, c.c1}, c.c0 # 0, c.c1 # 0, -(-current) = current, <<"clause", i>> \in W[current]
  PROVE  OnWatch(W, Swapped(c), i)
  <1>1. /\ Swapped(c).c1 = -current /\ Swapped(c).rest = c.rest
        /\ {Swapped(c).c0, Swapped(c).c1} = {c.c0, c.c1}
    BY SwappedFacts
  <1>2. c.c0 # c.c1
    BY DEF OnWatch
  <1>3. CASE c.c0 = -current
    <2>1. Swapped(c).learnt = c.learnt /\ Swapped(c).c0 = c.c1
      BY <1>3 DEF Swapped, ClauseObject
    <2> QED
      BY <2>1, <1>1, <1>2 DEF OnWatch
  <1>4. CASE c.c0 # -current
    BY <1>4 DEF Swapped
  <1> QED
    BY <1>3, <1>4

LEMMA SwapEdited ==
  ASSUME SatInv, Complete, given' = given, todo # {}, NEW i \in DOMAIN clause,
         <<"clause", i>> \in watches[current],
         clause' = [clause EXCEPT ![i] = Swapped(clause[i])], UNCHANGED <<watches, learnts>>
  PROVE  Edited
  <1> DEFINE c == Swapped(clause[i])
             e == <<"clause", i>>
  <1>1. /\ given \in DOMAIN Runs /\ current \in Lit /\ -(-current) = current /\ clause[i] \in ClauseObject
        /\ assigns \in SUBSET Lit
    BY SatParts, CurrentTrue, TopPlaces DEF Typed
  <1>2. -current \in {clause[i].c0, clause[i].c1} /\ clause[i].c0 # 0 /\ clause[i].c1 # 0
    <2>1. e[1] # "bin" /\ e[2] = i /\ e \in watches[current]
      OBVIOUS
    <2> HIDE DEF e
    <2> QED
      BY <2>1, <1>1, OnObjects
  <1>3. /\ c.temp = clause[i].temp /\ c.learnt = clause[i].learnt
        /\ {c.c0, c.c1} = {clause[i].c0, clause[i].c1} /\ Lits(c) = Lits(clause[i])
    <2>1. c.learnt = clause[i].learnt
      BY <1>1 DEF Swapped, ClauseObject
    <2> QED
      BY <2>1, <1>1, <1>2, SwappedFacts
  <1>4. DOMAIN clause' = DOMAIN clause /\ clause'[i] = c /\ \A k \in DOMAIN clause : k # i => clause'[k] = clause[k]
    OBVIOUS
  <1>5. ASSUME OnWatch(watches, clause[i], i) PROVE OnWatch(watches, c, i)
    BY <1>1, <1>2, <1>5, SwapOnWatch
  <1> HIDE DEF c, e
  <1>6. StoreComplete(clause, watches, learnts)
    BY CompleteNow
  <1>7. StoreComplete(clause', watches', learnts')
    <2>1. ASSUME NEW k \in DOMAIN clause, Counts(clause', learnts, k) PROVE OnWatch(watches, clause'[k], k)
      <3>1. Counts(clause, learnts, k)
        BY <2>1, <1>3, <1>4 DEF Counts
      <3>2. OnWatch(watches, clause[k], k)
        BY <3>1, <1>6 DEF StoreComplete
      <3> QED
        BY <3>2, <1>4, <1>5
    <2>2. ASSUME NEW k \in learnts PROVE clause'[k].learnt
      <3>1. clause[k].learnt /\ k \in DOMAIN clause
        BY <1>6, SatParts DEF StoreComplete, StoreRight, Kept
      <3> QED
        BY <3>1, <1>3, <1>4
    <2> QED
      BY <2>1, <2>2, <1>4 DEF StoreComplete
  <1>8. \A k \in DOMAIN clause : SamePair(clause, clause', k)
    BY <1>3, <1>4 DEF SamePair
  <1>9. ASSUME NEW l \in assigns, NEW f \in watches'[l]
        PROVE  f \in watches[l] /\ \A u \in SUBSET assigns : Attended(clause, u, f) => Attended(clause', u, f)
    <2>1. l \in Lit /\ f \in watches[l]
      BY <1>1
    <2> QED
      BY <2>1, <1>8, OnObjects DEF Attended, SamePair
  <1>10. ASSUME NEW root, NEW root1, NEW n, ProblemHeld(root, clause, watches, n), root \subseteq root1
         PROVE  ProblemHeld(root1, clause', watches', n)
    <2>1. \A k \in DOMAIN clause : ~ clause[k].temp /\ ~ clause[k].learnt =>
            k \in DOMAIN clause' /\ ~ clause'[k].temp /\ ~ clause'[k].learnt /\ Lits(clause'[k]) \subseteq Lits(clause[k])
      BY <1>3, <1>4
    <2> QED
      BY <2>1, <1>10, HeldStays
  <1> QED
    BY <1>7, <1>9, <1>10 DEF Edited

LEMMA MoveEdited ==
  ASSUME SatInv, Complete, given' = given, todo # {}, NEW i \in DOMAIN clause, NEW c, c = Swapped(clause[i]),
         <<"clause", i>> \in watches[current], c.c0 \notin assigns, c.c1 \notin assigns,
         NEW l \in c.rest, -l \notin assigns,
         clause' = [clause EXCEPT ![i] = [c EXCEPT !.c1 = l, !.rest = (c.rest \ {l}) \cup {c.c1}]],
         watches' = [watches EXCEPT ![current] = @ \ {<<"clause", i>>}, ![-l] = @ \cup {<<"clause", i>>}],
         learnts' = learnts
  PROVE  Edited /\ <<"clause", i>> \notin watches'[current]
         /\ \A f \in watches[current] : f # <<"clause", i>> => f \in watches'[current]
  <1> DEFINE e == <<"clause", i>>
             d == [c EXCEPT !.c1 = l, !.rest = (c.rest \ {l}) \cup {c.c1}]
  <1>1. /\ given \in DOMAIN Runs /\ current \in Lit /\ current \in assigns /\ -(-current) = current
        /\ clause[i] \in ClauseObject /\ watches \in [Lit -> SUBSET WatchElem] /\ assigns \in SUBSET Lit
    BY SatParts, CurrentTrue, TopPlaces DEF Typed
  <1>2. -current \in {clause[i].c0, clause[i].c1} /\ clause[i].c0 # 0 /\ clause[i].c1 # 0
    <2>1. e[1] # "bin" /\ e[2] = i /\ e \in watches[current]
      OBVIOUS
    <2> HIDE DEF e
    <2> QED
      BY <2>1, <1>1, OnObjects
  <1>3. /\ c \in ClauseObject /\ c.c1 = -current /\ c.temp = clause[i].temp /\ c.learnt = clause[i].learnt
        /\ {c.c0, c.c1} = {clause[i].c0, clause[i].c1} /\ Lits(c) = Lits(clause[i])
        /\ c.rest \subseteq Lit /\ c.c0 \in Lit /\ c.c1 \in Lit
    <2>1. c.learnt = clause[i].learnt
      BY <1>1 DEF Swapped, ClauseObject
    <2> QED
      BY <2>1, <1>1, <1>2, SwappedFacts
  <1>4. /\ d.c0 = c.c0 /\ d.c1 = l /\ d.rest = (c.rest \ {l}) \cup {c.c1} /\ d.learnt = c.learnt /\ d.temp = c.temp
    BY <1>3 DEF ClauseObject
  <1>5. DOMAIN clause' = DOMAIN clause /\ clause'[i] = d /\ \A k \in DOMAIN clause : k # i => clause'[k] = clause[k]
    OBVIOUS
  <1>6. /\ l \in Lit /\ l # 0 /\ -l \in Lit /\ -l # current
        /\ -(-l) = l
    <2>1. l \in Lit /\ l # 0 /\ -l \in Lit /\ -(-l) = l
      BY <1>1, <1>3, LitFacts
    <2> QED
      BY <2>1, <1>1
  <1>7. \A k \in Lit : \/ k = -l /\ watches'[k] = watches[k] \cup {e}
                       \/ k = current /\ watches'[k] = watches[k] \ {e}
                       \/ k # -l /\ k # current /\ watches'[k] = watches[k]
    BY <1>1, <1>6
  <1>8. ASSUME OnWatch(watches, clause[i], i) PROVE OnWatch(watches, c, i)
    BY <1>1, <1>2, <1>8, SwapOnWatch
  <1>e. \A k : <<"clause", k>> = e <=> k = i
    OBVIOUS
  <1>f. e[1] # "bin" /\ e[2] = i /\ e \in watches[current]
    OBVIOUS
  <1>g. e = <<"clause", i>>
    OBVIOUS
  <1> HIDE DEF d, e
  <1>9. Lits(d) = Lits(c)
    BY <1>4, <1>6 DEF Lits
  <1>10. StoreComplete(clause, watches, learnts)
    BY CompleteNow
  <1>11. StoreComplete(clause', watches', learnts')
    <2>1. ASSUME Counts(clause', learnts, i) PROVE OnWatch(watches', clause'[i], i)
      <3>1. Counts(clause, learnts, i)
        BY <2>1, <1>3, <1>4, <1>5 DEF Counts
      <3>2. OnWatch(watches, c, i)
        BY <3>1, <1>8, <1>10 DEF StoreComplete
      <3>3. c.c0 # c.c1 /\ c.c0 \notin c.rest /\ c.c1 \notin c.rest
            /\ ((c.learnt /\ one_watch) \/ e \in watches[-c.c0])
        BY <3>2, <1>g DEF OnWatch
      <3>4. {d.c0, d.c1} \subseteq Lit /\ d.c0 # d.c1 /\ {d.c0, d.c1} \cap d.rest = {}
        BY <3>3, <1>3, <1>4
      <3>5. e \in watches'[-d.c1]
        BY <1>4, <1>6, <1>7
      <3>6. -c.c0 \in Lit /\ -c.c0 # current
        <4>1. -c.c0 \in Lit /\ -(-c.c0) = c.c0
          BY <1>1, <1>3, LitFacts
        <4> QED
          BY <4>1, <3>3, <1>3
      <3>7. (d.learnt /\ one_watch) \/ e \in watches'[-d.c0]
        BY <3>3, <3>6, <1>4, <1>7
      <3> QED
        BY <3>4, <3>5, <3>7, <1>5, <1>g DEF OnWatch
    <2>2. ASSUME NEW k \in DOMAIN clause, k # i, Counts(clause', learnts, k) PROVE OnWatch(watches', clause'[k], k)
      <3>1. clause'[k] = clause[k] /\ Counts(clause, learnts, k)
        BY <2>2, <1>5 DEF Counts
      <3>2. OnWatch(watches, clause[k], k)
        BY <3>1, <1>10 DEF StoreComplete
      <3>3. \A q \in Lit : <<"clause", k>> \in watches[q] => <<"clause", k>> \in watches'[q]
        BY <2>2, <1>7, <1>e
      <3>4. -clause[k].c0 \in Lit /\ -clause[k].c1 \in Lit
        BY <3>2, <1>1, LitFacts DEF OnWatch
      <3> QED
        BY <3>1, <3>2, <3>3, <3>4 DEF OnWatch
    <2>3. ASSUME NEW k \in learnts PROVE clause'[k].learnt
      <3>1. clause[k].learnt /\ k \in DOMAIN clause
        BY <1>10, SatParts DEF StoreComplete, StoreRight, Kept
      <3> QED
        BY <3>1, <1>3, <1>4, <1>5
    <2> QED
      BY <2>1, <2>2, <2>3, <1>5 DEF StoreComplete
  <1>12. ASSUME NEW k \in assigns, NEW f \in watches'[k]
         PROVE  f \in watches[k] /\ \A u \in SUBSET assigns : Attended(clause, u, f) => Attended(clause', u, f)
    <2>1. k \in Lit /\ f \in watches[k]
      BY <1>1, <1>7
    <2>2. ASSUME NEW u \in SUBSET assigns, Attended(clause, u, f), f[1] # "bin" PROVE Attended(clause', u, f)
      <3>1. f[2] \in DOMAIN clause
        BY <2>1, <2>2, OnObjects
      <3>2. f[2] # i
        <4>1. {clause[i].c0, clause[i].c1} \cap u = {}
          BY <1>3
        <4> QED
          BY <4>1, <2>2 DEF Attended
      <3> QED
        BY <3>1, <3>2, <2>2, <1>5 DEF Attended
    <2>3. ASSUME NEW u \in SUBSET assigns, Attended(clause, u, f), f[1] = "bin" PROVE Attended(clause', u, f)
      BY <2>3 DEF Attended
    <2> QED
      BY <2>1, <2>2, <2>3
  <1>13. ASSUME NEW root, NEW root1, NEW n, ProblemHeld(root, clause, watches, n), root \subseteq root1
         PROVE  ProblemHeld(root1, clause', watches', n)
    <2>1. \A k \in DOMAIN clause : ~ clause[k].temp /\ ~ clause[k].learnt =>
            k \in DOMAIN clause' /\ ~ clause'[k].temp /\ ~ clause'[k].learnt /\ Lits(clause'[k]) \subseteq Lits(clause[k])
      BY <1>3, <1>4, <1>5, <1>9
    <2>2. \A k \in Lit : \A f \in watches[k] : f[1] = "bin" => f \in watches'[k]
      BY <1>7, <1>f
    <2> QED
      BY <2>1, <2>2, <1>13, HeldStays
  <1> QED
    BY <1>1, <1>6, <1>7, <1>11, <1>12, <1>13, <1>g DEF Edited

LEMMA watchedClauseCompletes ==
  ASSUME SatInv, Complete, watchedClause, given' = given
  PROVE  Complete'
  <1>1. PICK e \in todo :
          LET i == e[2]
              c == Swapped(clause[i])
          IN /\ Propagating /\ e[1] = "clause"
             /\ \/ /\ isTrue(c.c0) \/ isTrue(c.c1)
                   /\ todo' = todo \ {e}
                   /\ UNCHANGED <<clause, watches, stack, confl>>
                \/ /\ ~ isTrue(c.c0) /\ ~ isTrue(c.c1)
                   /\ \E l \in c.rest :
                        /\ ~ isFalse(l)
                        /\ clause' = [clause EXCEPT ![i] =
                             [c EXCEPT !.c1 = l, !.rest = (c.rest \ {l}) \cup {c.c1}]]
                        /\ watches' = [watches EXCEPT ![current] = @ \ {e}, ![-l] = @ \cup {e}]
                   /\ todo' = todo \ {e}
                   /\ UNCHANGED <<stack, confl>>
                \/ /\ ~ isTrue(c.c0) /\ ~ isTrue(c.c1)
                   /\ \A l \in c.rest : isFalse(l)
                   /\ clause' = [clause EXCEPT ![i] = c]
                   /\ \/ isFalse(c.c0) /\ clash(<<"clause", i>>)
                      \/ ~ isFalse(c.c0) /\ enqueue(c.c0, <<"clause", i>>) /\ todo' = todo \ {e}
                         /\ UNCHANGED confl
                   /\ UNCHANGED watches
             /\ UNCHANGED <<pc, loaded, learnts, seen, an, budget, solutions, found>>
    BY DEF watchedClause
  <1> DEFINE i == e[2]
             c == Swapped(clause[i])
  <1>2. todo \subseteq watches[current]
    BY <1>1, CompleteNow DEF LastDone, Propagating, Active
  <1>3. current \in Lit /\ given \in DOMAIN Runs
    BY SatParts, CurrentTrue, TopPlaces
  <1>4. /\ e = <<"clause", i>> /\ i \in DOMAIN clause /\ -current \in {clause[i].c0, clause[i].c1}
        /\ clause[i].c0 # 0 /\ clause[i].c1 # 0
    BY <1>1, <1>2, <1>3, OnObjects
  <1>5. clause[i] \in ClauseObject
    BY <1>4, SatParts DEF Typed
  <1>6. c.c0 \in Lit /\ {c.c0, c.c1} = {clause[i].c0, clause[i].c1}
    BY <1>3, <1>4, <1>5, SwappedFacts
  <1>7. UNCHANGED <<pc, loaded, learnts, found>> /\ Propagating /\ todo # {}
    BY <1>1
  <1>8. CASE /\ isTrue(c.c0) \/ isTrue(c.c1)
             /\ todo' = todo \ {e}
             /\ UNCHANGED <<clause, watches, stack, confl>>
    <2>1. Attended(clause', assigns, e)
      BY <1>4, <1>6, <1>8 DEF Attended, isTrue
    <2>2. Edited
      BY <1>7, <1>8, Unedited
    <2> QED
      BY <2>1, <2>2, <1>2, <1>7, <1>8, EditStays
  <1>9. CASE /\ ~ isTrue(c.c0) /\ ~ isTrue(c.c1)
             /\ \E l \in c.rest :
                  /\ ~ isFalse(l)
                  /\ clause' = [clause EXCEPT ![i] =
                       [c EXCEPT !.c1 = l, !.rest = (c.rest \ {l}) \cup {c.c1}]]
                  /\ watches' = [watches EXCEPT ![current] = @ \ {e}, ![-l] = @ \cup {e}]
             /\ todo' = todo \ {e}
             /\ UNCHANGED <<stack, confl>>
    <2>1. PICK l \in c.rest :
            /\ ~ isFalse(l)
            /\ clause' = [clause EXCEPT ![i] = [c EXCEPT !.c1 = l, !.rest = (c.rest \ {l}) \cup {c.c1}]]
            /\ watches' = [watches EXCEPT ![current] = @ \ {e}, ![-l] = @ \cup {e}]
      BY <1>9
    <2>2. c.c0 \notin assigns /\ c.c1 \notin assigns /\ -l \notin assigns
      BY <2>1, <1>9 DEF isTrue, isFalse
    <2>3. c = Swapped(clause[i]) /\ e = <<"clause", i>> /\ i \in DOMAIN clause
      BY <1>4
    <2>4. /\ watches' = [watches EXCEPT ![current] = @ \ {<<"clause", i>>}, ![-l] = @ \cup {<<"clause", i>>}]
          /\ <<"clause", i>> \in watches[current] /\ learnts' = learnts
          /\ clause' = [clause EXCEPT ![i] = [c EXCEPT !.c1 = l, !.rest = (c.rest \ {l}) \cup {c.c1}]]
      BY <2>1, <2>3, <1>2, <1>7
    <2> HIDE DEF i, c
    <2>5. /\ Edited /\ <<"clause", i>> \notin watches'[current]
          /\ \A f \in watches[current] : f # <<"clause", i>> => f \in watches'[current]
      BY <2>2, <2>3, <2>4, <1>7, MoveEdited
    <2>6. todo' \subseteq watches'[current] /\ \A f \in todo \ todo' : f \notin watches'[current]
      BY <2>3, <2>5, <1>2, <1>9
    <2> QED
      BY <2>5, <2>6, <1>7, <1>9, EditStays
  <1>10. CASE /\ ~ isTrue(c.c0) /\ ~ isTrue(c.c1)
              /\ clause' = [clause EXCEPT ![i] = c]
              /\ \/ isFalse(c.c0) /\ clash(<<"clause", i>>)
                 \/ ~ isFalse(c.c0) /\ enqueue(c.c0, <<"clause", i>>) /\ todo' = todo \ {e}
                    /\ UNCHANGED confl
              /\ UNCHANGED watches
    <2>1. Edited
      BY <1>2, <1>4, <1>7, <1>10, SwapEdited
    <2>2. CASE clash(<<"clause", i>>)
      <3> DEFINE r == <<"clause", i>>
      <3>1. r[1] # "none" /\ clash(r)
        BY <2>2
      <3> HIDE DEF r
      <3> QED
        BY <3>1, <2>1, <1>7, EditClash
    <2>3. CASE /\ enqueue(c.c0, <<"clause", i>>) /\ todo' = todo \ {e} /\ UNCHANGED confl
      <3> DEFINE p == c.c0
      <3>1. trail' = Pushed(trail, p) /\ assigns' = assigns \cup {p} /\ qhead' = qhead
        BY <2>3, enqueueNow
      <3>2. p \in Lit /\ p \notin assigns
        BY <1>6, <1>10 DEF isTrue
      <3>3. Attended(clause', assigns', e)
        <4>1. clause'[i].c0 = p
          BY <1>4, <1>10
        <4> QED
          BY <4>1, <3>1, <1>1 DEF Attended
      <3>4. todo' \subseteq todo /\ todo' \subseteq watches'[current] /\ \A f \in todo \ todo' : f = e
        BY <2>3, <1>2, <1>10
      <3> HIDE DEF p
      <3> QED
        BY <3>1, <3>2, <3>3, <3>4, <2>1, <2>3, <1>7, EditPush
    <2> QED
      BY <2>2, <2>3, <1>10
  <1> QED
    BY <1>1, <1>8, <1>9, <1>10

-----------------------------------------------------------------------------
(* Propagators. *)

(* The conditions of StoreKept, when the watches stay as they are and objects *)
(* that are on them too.                                                     *)
LEMMA DetachNone == DetachedOf(watches, watches, {})
  BY DEF DetachedOf

LEMMA TempEdited ==
  ASSUME SatInv, Complete, UNCHANGED <<watches, learnts>>,
         \A i \in DOMAIN clause : ~ clause[i].temp => i \in DOMAIN clause' /\ clause'[i] = clause[i],
         \A i \in DOMAIN clause' : clause'[i].temp \/ (i \in DOMAIN clause /\ clause'[i] = clause[i])
  PROVE  Edited
  <1>1. StoreComplete(clause, watches, learnts) /\ assigns \in SUBSET Lit
    BY CompleteNow, TopPlaces
  <1>2. \A i \in DOMAIN clause \ {} : Kept(clause, rtrail, i) => SameFront(clause, clause', i)
    BY DEF Kept, SameFront
  <1>3. \A i \in DOMAIN clause' : Counts(clause', learnts, i) => i \in DOMAIN clause \ {} /\ Counts(clause, learnts, i)
    BY DEF Counts
  <1>4. /\ StoreComplete(clause', watches, learnts)
        /\ \A root, root1, n : ProblemHeld(root, clause, watches, n) /\ root \subseteq root1
                                => ProblemHeld(root1, clause', watches, n)
    <2>1. {} \in SUBSET learnts /\ learnts \subseteq learnts \ {} /\ DetachedOf(watches, watches, {})
      BY DetachNone
    <2> QED
      BY <2>1, <1>1, <1>2, <1>3, StoreKept
  <1>5. ASSUME NEW l \in assigns, NEW e \in watches[l], NEW u \in SUBSET assigns, Attended(clause, u, e)
        PROVE  Attended(clause', u, e)
    <2>1. CASE e[1] = "bin"
      BY <2>1, <1>5 DEF Attended
    <2>2. CASE e[1] # "bin"
      <3>1. e[2] \in DOMAIN clause /\ ~ clause[e[2]].temp
        BY <2>2, <1>1, OnObjects
      <3>2. clause'[e[2]] = clause[e[2]]
        BY <3>1
      <3> QED
        BY <3>2, <2>2, <1>5 DEF Attended
    <2> QED
      BY <2>1, <2>2
  <1> QED
    BY <1>4, <1>5 DEF Edited

LEMMA ReasonEdited ==
  ASSUME SatInv, Complete, UNCHANGED <<watches, learnts>>, NEW h, NEW b, Reason_new(h, b)
  PROVE  Edited
  <1> DEFINE c == [c0 |-> h, c1 |-> 0, rest |-> b, learnt |-> FALSE, temp |-> TRUE]
  <1>1. MaxClause \in Nat
    BY SatParts, TypedNow
  <1>2. clause' = With(clause, Slot, c) /\ Slot \notin DOMAIN clause /\ c.temp
    BY <1>1, SlotFacts DEF Reason_new, Free, Slot
  <1> HIDE DEF c
  <1>3. /\ DOMAIN clause' = DOMAIN clause \cup {Slot} /\ clause'[Slot] = c
        /\ \A i \in DOMAIN clause : clause'[i] = clause[i]
    BY <1>2 DEF With
  <1> QED
    BY <1>2, <1>3, TempEdited

LEMMA inferCompletes ==
  ASSUME SatInv, Complete, infer, given' = given
  PROVE  Complete'
  <1>1. PICK k \in Inference : \E h \in k.heads :
          /\ Propagating /\ todo = {}
          /\ isUndef(h)
          /\ assigns' = assigns \cup {h}
          /\ trail' = [trail EXCEPT ![Len(trail)] = Append(@, h)]
          /\ Reason_new(0, neg(k.body)) \/ UNCHANGED clause
          /\ UNCHANGED <<pc, loaded, learnts, watches, qhead, confl, todo, found>>
    BY DEF infer
  <1>2. PICK h \in k.heads :
          /\ Propagating /\ todo = {}
          /\ isUndef(h)
          /\ assigns' = assigns \cup {h}
          /\ trail' = Pushed(trail, h)
          /\ Reason_new(0, neg(k.body)) \/ UNCHANGED clause
          /\ UNCHANGED <<pc, loaded, learnts, watches, qhead, confl, todo, found>>
    BY <1>1 DEF Pushed
  <1>3. h \in Lit /\ h \notin assigns
    BY <1>2, TopPlaces, RunFacts DEF isUndef, isTrue
  <1>4. Edited
    BY <1>2, ReasonEdited, Unedited
  <1> QED
    BY <1>2, <1>3, <1>4, EditPush

LEMMA rejectCompletes ==
  ASSUME SatInv, Complete, reject, given' = given
  PROVE  Complete'
  <1>1. PICK k \in Inference : \E h :
          /\ Propagating
          /\ \/ Reason_new(h, neg(k.body)) /\ confl' = <<"clause", Slot>>
             \/ \E i \in Shared(k) : clause' = [clause EXCEPT ![i].c0 = h] /\ confl' = <<"clause", i>>
             \/ UNCHANGED clause /\ confl' = <<"lits", (neg(k.body) \cup {h}) \ {0}>>
          /\ UNCHANGED <<pc, loaded, learnts, watches, assigns, trail, qhead, found>>
    BY DEF reject
  <1>2. PICK h :
          /\ Propagating
          /\ \/ Reason_new(h, neg(k.body)) /\ confl' = <<"clause", Slot>>
             \/ \E i \in Shared(k) : clause' = [clause EXCEPT ![i].c0 = h] /\ confl' = <<"clause", i>>
             \/ UNCHANGED clause /\ confl' = <<"lits", (neg(k.body) \cup {h}) \ {0}>>
          /\ UNCHANGED <<pc, loaded, learnts, watches, assigns, trail, qhead, found>>
    BY <1>1
  <1>3. confl' # NoReason
    BY <1>2 DEF NoReason
  <1>4. Edited
    <2>1. CASE Reason_new(h, neg(k.body))
      BY <2>1, <1>2, ReasonEdited
    <2>2. ASSUME NEW i \in Shared(k), clause' = [clause EXCEPT ![i].c0 = h] PROVE Edited
      <3>1. clause[i].temp
        BY DEF Shared
      <3>2. \A j \in DOMAIN clause : j # i => clause'[j] = clause[j]
        BY <2>2
      <3>3. DOMAIN clause' = DOMAIN clause
        BY <2>2
      <3>4. \A j \in DOMAIN clause : ~ clause[j].temp => j \in DOMAIN clause' /\ clause'[j] = clause[j]
        BY <3>1, <3>2, <3>3
      <3>5. i \in DOMAIN clause => clause'[i].temp
        <4>1. i \in DOMAIN clause => clause[i] \in ClauseObject /\ clause'[i] = [clause[i] EXCEPT !.c0 = h]
          BY <2>2, SatParts DEF Typed
        <4> QED
          BY <4>1, <3>1 DEF ClauseObject
      <3>6. \A j \in DOMAIN clause' : clause'[j].temp \/ (j \in DOMAIN clause /\ clause'[j] = clause[j])
        BY <3>2, <3>3, <3>5
      <3> QED
        BY <3>4, <3>6, <1>2, TempEdited
    <2>3. CASE UNCHANGED clause
      BY <2>3, <1>2, Unedited
    <2> QED
      BY <2>1, <2>2, <2>3, <1>2
  <1> QED
    BY <1>2, <1>3, <1>4, EditStops

-----------------------------------------------------------------------------
(* Going back: of a level that is left nothing remains to propagate. *)

LEMMA BackDone ==
  ASSUME SatInv, Complete, NEW lv \in Nat, lv < Len(trail), NEW t1, NEW a1, NEW Q1,
         t1 = Keep(trail, lv), a1 = assigns \ UndoneOf(trail, lv), Q1 = Keep(qhead, lv)
  PROVE  /\ t1 \in Seq(Seq(Lit)) /\ Len(t1) = lv + 1 /\ a1 \in SUBSET assigns /\ TrailRight(t1, a1)
         /\ a1 \ DeepOf(t1) = Root
         /\ Q1 \in Seq(Nat) /\ Len(Q1) = lv + 1
         /\ LowerDone(t1, a1, Q1, clause, watches)
         /\ (lv + 1 < Len(trail) => Watched(clause, watches, a1) /\ Last(Q1) = Len(Last(t1)))
         /\ (lv + 1 = Len(trail) => t1 = trail /\ a1 = assigns /\ Q1 = qhead)
  <1> DEFINE n == Len(trail)
  <1>1. /\ trail \in Seq(Seq(Lit)) /\ n \in Nat /\ n > 0 /\ assigns \in SUBSET Lit
        /\ TrailRight(trail, assigns) /\ qhead \in Seq(Nat) /\ Len(qhead) = n
    BY TopPlaces
  <1>2. /\ CutOf(trail, assigns, t1, a1) /\ t1 \in Seq(Seq(Lit)) /\ Len(t1) = lv + 1
        /\ \A l \in 1 .. lv + 1 : t1[l] = trail[l]
        /\ \A q : q \in UndoneOf(trail, lv) <=> \E l \in lv + 2 .. n : \E i \in 1 .. Len(trail[l]) : trail[l][i] = q
    <2>1. \A l \in 2 .. Len(trail) : trail[l] # <<>>
      BY SatParts DEF StackRight, ReasonsRight
    <2> QED
      BY <2>1, <1>1, BackIsCut
  <1>3. TrailRight(t1, a1) /\ a1 \ DeepOf(t1) = Root
    <2>1. /\ trail \in Seq(Seq(Lit)) /\ assigns \in SUBSET Lit /\ Len(trail) > 0
          /\ TrailRight(trail, assigns) /\ CutOf(trail, assigns, t1, a1)
      BY <1>1, <1>2
    <2>2. TrailRight(t1, a1) /\ a1 \ DeepOf(t1) = assigns \ DeepOf(trail)
      BY <2>1, CutShape
    <2> QED
      BY <2>2 DEF Root, Deep
  <1>4. Q1 \in Seq(Nat) /\ Len(Q1) = lv + 1 /\ \A k \in 1 .. lv + 1 : Q1[k] = qhead[k]
    <2>1. lv + 1 <= Len(qhead)
      BY <1>1
    <2> QED
      BY <2>1, <1>1 DEF Keep
  <1>5. LowerDone(trail, assigns, qhead, clause, watches)
    BY CompleteNow
  <1>6. LowerDone(t1, a1, Q1, clause, watches)
    <2>1. \A k \in 1 .. Len(t1) - 1 : Q1[k] = qhead[k]
      BY <1>2, <1>4
    <2>2. /\ trail \in Seq(Seq(Lit)) /\ assigns \in SUBSET Lit /\ Len(trail) > 0
          /\ TrailRight(trail, assigns) /\ CutOf(trail, assigns, t1, a1)
      BY <1>1, <1>2
    <2> QED
      BY <2>1, <2>2, <1>5, LowerCut
  <1>7. ASSUME lv + 1 < n PROVE Watched(clause, watches, a1) /\ Last(Q1) = Len(Last(t1))
    <2>1. a1 = BelowOf(trail, assigns, lv + 2)
      BY DEF BelowOf, UndoneOf
    <2>2. lv + 2 \in 2 .. n /\ lv + 1 \in 1 .. n - 1 /\ lv + 1 \in 1 .. lv + 1
      BY <1>1, <1>7
    <2>3. Last(Q1) = qhead[lv + 1] /\ Last(t1) = trail[lv + 1]
      BY <2>2, <1>2, <1>4 DEF Last
    <2> QED
      BY <2>1, <2>2, <2>3, <1>5 DEF LowerDone
  <1>8. ASSUME lv + 1 = n PROVE t1 = trail /\ a1 = assigns /\ Q1 = qhead
    <2>1. \A l \in lv + 2 .. n : FALSE
      BY <1>1, <1>8
    <2>2. a1 = assigns
      BY <2>1, <1>2
    <2>3. t1 = trail /\ Q1 = qhead
      BY <1>1, <1>8 DEF Keep
    <2> QED
      BY <2>2, <2>3
  <1> QED
    BY <1>2, <1>3, <1>4, <1>6, <1>7, <1>8

(* All is propagated. *)
LEMMA AllWatched ==
  ASSUME SatInv, Complete, Active, todo = {}, Last(qhead) >= Len(Last(trail))
  PROVE  /\ Watched(clause, watches, assigns) /\ Last(qhead) = Len(Last(trail))
         /\ ProblemHeld(Root, clause, watches, loaded)
  <1>1. LastDone /\ Last(qhead) \in Nat /\ Len(Last(trail)) \in Nat
    BY CompleteNow, TopPlaces
  <1>2. Last(qhead) <= Len(Last(trail))
    BY <1>1 DEF LastDone
  <1>3. \A i \in Last(qhead) + 1 .. Len(Last(trail)) : FALSE
    BY <1>1
  <1>4. \A l, e : ~ Waits(l, e)
    BY <1>3 DEF Waits
  <1>5. ProblemHeld(Root, clause, watches, loaded)
    BY DEF Complete, Active
  <1> QED
    BY <1>1, <1>2, <1>4, <1>5 DEF LastDone, Watched

(* Clauses that were made for reasons are freed. *)
LEMMA FreedStore ==
  ASSUME SatInv, Complete, NEW lv \in Nat, NEW M1,
         \A i \in DOMAIN clause \ FreedOf(rtrail, lv) : i \in DOMAIN M1 /\ M1[i] = clause[i],
         \A i \in DOMAIN M1 : M1[i].temp \/ (i \in DOMAIN clause /\ M1[i] = clause[i])
  PROVE  /\ StoreComplete(M1, watches, learnts)
         /\ \A u \in SUBSET assigns : Watched(clause, watches, u) => Watched(M1, watches, u)
         /\ \A root, root1, n : ProblemHeld(root, clause, watches, n) /\ root \subseteq root1
                                 => ProblemHeld(root1, M1, watches, n)
  <1> DEFINE F == FreedOf(rtrail, lv)
  <1>1. \A i \in DOMAIN clause \ F : i \in DOMAIN M1 /\ M1[i] = clause[i]
    OBVIOUS
  <1>2. \A i : Kept(clause, rtrail, i) => i \in DOMAIN clause /\ i \notin F
    <2>1. rtrail \in Seq(SUBSET (1..MaxClause))
      BY SatParts, TypedNow DEF StackTyped
    <2>2. \A l \in lv + 2 .. Len(rtrail) : l \in DOMAIN rtrail
      BY <2>1
    <2> QED
      BY <2>2 DEF Kept, FreedOf
  <1> HIDE DEF F
  <1>3. \A i \in DOMAIN clause \ {} : Kept(clause, rtrail, i) => SameFront(clause, M1, i)
    BY <1>1, <1>2 DEF SameFront
  <1>4. \A i \in DOMAIN M1 : Counts(M1, learnts, i) => i \in DOMAIN clause \ {} /\ Counts(clause, learnts, i)
    BY DEF Counts
  <1>5. /\ {} \in SUBSET learnts /\ learnts \subseteq learnts \ {} /\ DetachedOf(watches, watches, {})
        /\ StoreComplete(clause, watches, learnts)
    BY DetachNone, CompleteNow
  <1> QED
    BY <1>3, <1>4, <1>5, StoreKept

(* Back to a level, with the search stopped there. *)
LEMMA BackStops ==
  ASSUME SatInv, Complete, given' = given, pc # "GUN", NEW lv \in Nat, lv < Len(trail),
         trail' = Keep(trail, lv), assigns' = assigns \ UndoneOf(trail, lv), qhead' = Keep(qhead, lv),
         UNCHANGED <<watches, learnts, loaded>>, ~ Active', found' \subseteq Solutions,
         \A i \in DOMAIN clause \ FreedOf(rtrail, lv) : i \in DOMAIN clause' /\ clause'[i] = clause[i],
         \A i \in DOMAIN clause' : clause'[i].temp \/ (i \in DOMAIN clause /\ clause'[i] = clause[i])
  PROVE  Complete'
  <1>1. /\ StoreComplete(clause', watches, learnts)
        /\ \A u \in SUBSET assigns : Watched(clause, watches, u) => Watched(clause', watches, u)
        /\ \A root, root1, n : ProblemHeld(root, clause, watches, n) /\ root \subseteq root1
                                => ProblemHeld(root1, clause', watches, n)
    BY FreedStore
  <1>2. /\ assigns' \in SUBSET assigns /\ assigns' \ DeepOf(trail') = Root
        /\ LowerDone(trail', assigns', qhead', clause, watches)
    BY BackDone
  <1>3. LowerDone(trail', assigns', qhead', clause', watches')
    <2>1. \A u \in SUBSET assigns' : Watched(clause, watches, u) => Watched(clause', watches, u)
      BY <1>1, <1>2
    <2> QED
      BY <2>1, <1>2, LowerMemory
  <1>4. ProblemHeld(Root, clause, watches, loaded)
    BY DEF Complete
  <1>5. ProblemHeld(assigns' \ DeepOf(trail'), clause', watches', loaded')
    BY <1>1, <1>2, <1>4
  <1> QED
    BY <1>1, <1>3, <1>5, CompleteNext

LEMMA restartCompletes ==
  ASSUME SatInv, Complete, restart, given' = given
  PROVE  Complete'
  <1>1. /\ pc = "propagate" /\ confl = NoReason /\ todo = {} /\ Last(qhead) = Len(Last(trail))
        /\ btToLevel(0) /\ clause' = Without(clause, Freed(0))
        /\ UNCHANGED <<pc, loaded, learnts, watches, confl, todo, found>>
    BY DEF restart, PropagateTrue, Propagating, Consistent
  <1>2. /\ assigns' = assigns \ UndoneOf(trail, 0) /\ trail' = Keep(trail, 0) /\ qhead' = Keep(qhead, 0)
        /\ clause' = Without(clause, FreedOf(rtrail, 0))
    BY <1>1, BackNow
  <1>3. Len(trail) \in Nat /\ Len(trail) > 0 /\ Last(qhead) \in Nat /\ Len(Last(trail)) \in Nat
        /\ trail \in Seq(Seq(Lit))
    BY TopPlaces
  <1>4. /\ StoreComplete(clause', watches, learnts)
        /\ \A u \in SUBSET assigns : Watched(clause, watches, u) => Watched(clause', watches, u)
        /\ \A root, root1, n : ProblemHeld(root, clause, watches, n) /\ root \subseteq root1
                                => ProblemHeld(root1, clause', watches, n)
    <2> DEFINE F == FreedOf(rtrail, 0)
    <2>1. DOMAIN clause' = DOMAIN clause \ F /\ \A i \in DOMAIN clause \ F : clause'[i] = clause[i]
      BY <1>2 DEF Without
    <2> QED
      BY <2>1, FreedStore
  <1>5. /\ assigns' \in SUBSET assigns /\ assigns' \ DeepOf(trail') = Root
        /\ LowerDone(trail', assigns', qhead', clause, watches)
        /\ (0 + 1 < Len(trail) => Watched(clause, watches, assigns') /\ Last(qhead') = Len(Last(trail')))
        /\ (0 + 1 = Len(trail) => trail' = trail /\ assigns' = assigns /\ qhead' = qhead)
        /\ trail' \in Seq(Seq(Lit)) /\ Len(trail') = 0 + 1
    <2> DEFINE lv == 0
    <2>1. /\ lv \in Nat /\ lv < Len(trail)
          /\ assigns' = assigns \ UndoneOf(trail, lv) /\ trail' = Keep(trail, lv) /\ qhead' = Keep(qhead, lv)
      BY <1>2, <1>3
    <2> HIDE DEF lv
    <2>2. /\ assigns' \in SUBSET assigns /\ assigns' \ DeepOf(trail') = Root
          /\ LowerDone(trail', assigns', qhead', clause, watches)
          /\ (lv + 1 < Len(trail) => Watched(clause, watches, assigns') /\ Last(qhead') = Len(Last(trail')))
          /\ (lv + 1 = Len(trail) => trail' = trail /\ assigns' = assigns /\ qhead' = qhead)
          /\ trail' \in Seq(Seq(Lit)) /\ Len(trail') = lv + 1
      BY <2>1, BackDone
    <2> QED
      BY <2>2 DEF lv
  <1>6. Watched(clause, watches, assigns) /\ ProblemHeld(Root, clause, watches, loaded)
    <2>1. Active /\ Last(qhead) >= Len(Last(trail))
      BY <1>1, <1>3 DEF Active
    <2> QED
      BY <2>1, <1>1, AllWatched
  <1>7. Watched(clause, watches, assigns') /\ Last(qhead') = Len(Last(trail'))
    <2>1. 0 + 1 < Len(trail) \/ 0 + 1 = Len(trail)
      <3> DEFINE n == Len(trail)
      <3>1. n \in Nat /\ n > 0
        BY <1>3
      <3> HIDE DEF n
      <3>2. 0 + 1 < n \/ 0 + 1 = n
        BY <3>1
      <3> QED
        BY <3>2 DEF n
    <2> QED
      BY <2>1, <1>1, <1>5, <1>6
  <1>8. Watched(clause', watches, assigns')
    BY <1>4, <1>5, <1>7
  <1>9. LowerDone(trail', assigns', qhead', clause', watches')
    <2>1. \A u \in SUBSET assigns' : Watched(clause, watches, u) => Watched(clause', watches, u)
      BY <1>4, <1>5
    <2> QED
      BY <2>1, <1>1, <1>5, LowerMemory
  <1>10. ProblemHeld(assigns' \ DeepOf(trail'), clause', watches', loaded')
    BY <1>1, <1>4, <1>5, <1>6
  <1>11. Last(qhead') <= Len(Last(trail'))
    <2>1. Len(Last(trail')) \in Nat
      BY <1>5, LastPlaces
    <2> QED
      BY <2>1, <1>7
  <1>12. \A l \in assigns' : \A e \in watches'[l] : Attended(clause', assigns', e)
    BY <1>1, <1>8 DEF Watched
  <1>13. found \subseteq Solutions
    BY CompleteNow
  <1> QED
    BY <1>1, <1>4, <1>9, <1>10, <1>11, <1>12, <1>13, CompleteNext

LEMMA topLevelCleanUpCompletes ==
  ASSUME SatInv, Complete, topLevelCleanUp, given' = given
  PROVE  Complete'
  <1>1. PICK due \in BOOLEAN :
          LET gone == IF due THEN {i \in learnts : simplified(clause[i])} ELSE {}
              mem == Without(clause, rtrail[1] \cup gone)
          IN /\ learnts' = learnts \ gone
             /\ watches' = detach(watches, gone)
             /\ clause' = [i \in DOMAIN mem |->
                             IF due /\ i \in learnts
                             THEN [mem[i] EXCEPT !.rest = left(@)] ELSE mem[i]]
    BY DEF topLevelCleanUp
  <1>2. /\ pc = "propagate" /\ confl = NoReason /\ todo = {} /\ decisionLevel = 0
        /\ Last(qhead) = Len(Last(trail))
        /\ pc' = "branch" /\ trail' = <<<<>>>> /\ qhead' = <<0>>
        /\ UNCHANGED <<loaded, assigns, confl, todo, found>>
    BY DEF topLevelCleanUp, PropagateTrue, Propagating, Consistent
  <1>3. /\ Len(trail) \in Nat /\ Len(trail) > 0 /\ Last(qhead) \in Nat /\ Len(Last(trail)) \in Nat
        /\ trail \in Seq(Seq(Lit)) /\ assigns \in SUBSET Lit
    BY TopPlaces
  <1>4. Len(trail) = 1
    BY <1>2, <1>3 DEF decisionLevel
  <1> DEFINE gone == IF due THEN {i \in learnts : simplified(clause[i])} ELSE {}
             mem == Without(clause, rtrail[1] \cup gone)
  <1>5. /\ learnts' = learnts \ gone /\ watches' = detach(watches, gone)
        /\ clause' = [i \in DOMAIN mem |->
                        IF due /\ i \in learnts THEN [mem[i] EXCEPT !.rest = left(@)] ELSE mem[i]]
    BY <1>1
  <1>6. /\ DOMAIN mem = DOMAIN clause \ (rtrail[1] \cup gone)
        /\ \A i \in DOMAIN mem : mem[i] = clause[i]
    BY DEF Without
  <1>7. gone \in SUBSET learnts
    OBVIOUS
  <1> HIDE DEF gone, mem
  <1>8. DetachedOf(watches, watches', gone)
    BY <1>5 DEF detach, DetachedOf
  <1>9. ASSUME NEW i \in DOMAIN clause' PROVE i \in DOMAIN clause \ gone /\ SameFront(clause, clause', i)
    <2>1. i \in DOMAIN clause \ gone /\ i \in DOMAIN mem /\ mem[i] = clause[i] /\ clause[i] \in ClauseObject
      BY <1>5, <1>6, SatParts DEF Typed
    <2>2. clause'[i] = clause[i] \/ clause'[i] = [clause[i] EXCEPT !.rest = left(@)]
      BY <2>1, <1>5
    <2>3. left(clause[i].rest) \subseteq clause[i].rest
      BY DEF left
    <2> QED
      BY <2>1, <2>2, <2>3 DEF SameFront, ClauseObject
  <1>10. ASSUME NEW i \in DOMAIN clause \ gone, Kept(clause, rtrail, i) PROVE SameFront(clause, clause', i)
    <2>1. 1 \in DOMAIN rtrail
      BY <1>3, SatParts, TypedNow DEF StackTyped
    <2>2. i \in DOMAIN clause'
      BY <2>1, <1>5, <1>6, <1>10 DEF Kept
    <2> QED
      BY <2>2, <1>9
  <1>11. \A i \in DOMAIN clause' : Counts(clause', learnts', i) => i \in DOMAIN clause \ gone /\ Counts(clause, learnts, i)
    BY <1>5, <1>9 DEF Counts, SameFront
  <1>12. /\ StoreComplete(clause', watches', learnts')
         /\ \A u \in SUBSET assigns : Watched(clause, watches, u) => Watched(clause', watches', u)
         /\ \A root, root1, n : ProblemHeld(root, clause, watches, n) /\ root \subseteq root1
                                 => ProblemHeld(root1, clause', watches', n)
    <2>1. StoreComplete(clause, watches, learnts) /\ learnts' \subseteq learnts \ gone
      BY <1>5, CompleteNow
    <2> QED
      BY <2>1, <1>7, <1>8, <1>10, <1>11, StoreKept
  <1>13. Watched(clause, watches, assigns) /\ ProblemHeld(Root, clause, watches, loaded)
    <2>1. Active /\ Last(qhead) >= Len(Last(trail))
      BY <1>2, <1>3 DEF Active
    <2> QED
      BY <2>1, <1>2, AllWatched
  <1>14. \A l \in assigns' : \A e \in watches'[l] : Attended(clause', assigns', e)
    BY <1>2, <1>12, <1>13 DEF Watched
  <1>15. Len(trail') = 1 /\ Last(qhead') = 0 /\ Len(Last(trail')) = 0
    BY <1>2 DEF Last
  <1>16. LowerDone(trail', assigns', qhead', clause', watches')
    BY <1>15 DEF LowerDone
  <1>17. ProblemHeld(assigns' \ DeepOf(trail'), clause', watches', loaded')
    <2>1. Root \subseteq assigns' \ DeepOf(trail')
      <3>1. \A l \in 2 .. 1 : FALSE
        OBVIOUS
      <3>2. DeepOf(trail') = {}
        BY <3>1, <1>15 DEF DeepOf
      <3> QED
        BY <3>2, <1>2 DEF Root
    <2> QED
      BY <2>1, <1>2, <1>12, <1>13
  <1>18. found \subseteq Solutions
    BY CompleteNow
  <1> QED
    BY <1>2, <1>12, <1>14, <1>15, <1>16, <1>17, <1>18, CompleteNext

(* All that is true is propagated when the search branches. *)
LEMMA ReadyWatched ==
  ASSUME SatInv, Complete, Ready
  PROVE  /\ Watched(clause, watches, assigns) /\ Last(qhead) = Len(Last(trail))
         /\ ProblemHeld(Root, clause, watches, loaded)
  <1>1. pc \in {"branch", "propagate"} /\ confl = NoReason /\ todo = {}
    BY ReadyFacts
  <1>2. Active
    BY <1>1 DEF Active
  <1>3. Last(qhead) \in Nat /\ Len(Last(trail)) \in Nat
    BY TopPlaces
  <1>4. Last(qhead) >= Len(Last(trail))
    <2>1. CASE pc = "branch"
      <3>1. trail = <<<<>>>>
        BY <2>1, SatParts DEF Phases
      <3>2. Len(Last(trail)) = 0
        BY <3>1 DEF Last
      <3> QED
        BY <3>2, <1>3
    <2>2. CASE PropagateTrue
      BY <2>2, <1>3 DEF PropagateTrue, Consistent
    <2> QED
      BY <2>1, <2>2 DEF Ready
  <1> QED
    BY <1>1, <1>2, <1>4, AllWatched

LEMMA decideCompletes ==
  ASSUME SatInv, Complete, decide, given' = given
  PROVE  Complete'
  <1>1. PICK p \in Lit : /\ Ready /\ isUndef(p)
                        /\ assigns' = assigns \cup {p} /\ trail' = Append(trail, <<p>>)
    BY DEF decide
  <1>2. /\ qhead' = Append(qhead, 0) /\ pc' = "propagate"
        /\ UNCHANGED <<loaded, clause, learnts, watches, confl, todo, found>>
    BY DEF decide, db
  <1>3. p \notin assigns /\ todo = {}
    BY <1>1, ReadyFacts DEF isUndef, isTrue
  <1>4. /\ trail \in Seq(Seq(Lit)) /\ Len(trail) \in Nat /\ Len(trail) > 0
        /\ qhead \in Seq(Nat) /\ Len(qhead) = Len(trail)
        /\ Last(qhead) = qhead[Len(qhead)] /\ Last(trail) = trail[Len(trail)]
    BY TopPlaces
  <1>5. /\ Watched(clause, watches, assigns) /\ Last(qhead) = Len(Last(trail))
        /\ ProblemHeld(Root, clause, watches, loaded)
    BY <1>1, ReadyWatched
  <1>6. /\ LowerDone(trail, assigns, qhead, clause, watches) /\ found \subseteq Solutions
        /\ StoreComplete(clause, watches, learnts)
    BY CompleteNow
  <1>7. LowerDone(trail', assigns', qhead', clause', watches')
    <2>1. qhead[Len(trail)] = Len(trail[Len(trail)])
      BY <1>4, <1>5
    <2> QED
      BY <2>1, <1>1, <1>2, <1>3, <1>4, <1>5, <1>6, LowerOpen
  <1>8. Last(trail') = <<p>> /\ Last(qhead') = 0 /\ Len(Last(trail')) = 1 /\ Last(trail')[1] = p
    BY <1>1, <1>2, <1>4 DEF Last
  <1>9. ASSUME NEW l \in assigns', NEW e \in watches'[l] PROVE Attended(clause', assigns', e) \/ Waits(l, e)'
    <2>1. CASE l = p
      <3>1. 1 \in Last(qhead') + 1 .. Len(Last(trail'))
        BY <1>8
      <3> QED
        BY <3>1, <2>1, <1>8 DEF Waits
    <2>2. CASE l # p
      <3>1. Attended(clause, assigns, e)
        BY <2>2, <1>1, <1>2, <1>5 DEF Watched
      <3> QED
        BY <3>1, <1>1, <1>2 DEF Attended
    <2> QED
      BY <2>1, <2>2
  <1>10. ProblemHeld(assigns' \ DeepOf(trail'), clause', watches', loaded')
    <2>1. Root \subseteq assigns' \ DeepOf(trail')
      <3>1. trail' \in Seq(Seq(Lit)) /\ Len(trail') = Len(trail) + 1 /\ \A l \in 1 .. Len(trail) : trail'[l] = trail[l]
        BY <1>1, <1>4, OpenShape
      <3>2. ASSUME NEW q \in assigns, q \in DeepOf(trail') PROVE q \in DeepOf(trail)
        <4>1. PICK l \in 2 .. Len(trail') : \E i \in DOMAIN trail'[l] : trail'[l][i] = q
          BY <3>2 DEF DeepOf, Elems
        <4>2. CASE l = Len(trail) + 1
          <5>1. trail'[l] = <<p>>
            BY <4>2, <1>1, <1>4
          <5> QED
            BY <5>1, <4>1, <3>2, <1>3
        <4>3. CASE l # Len(trail) + 1
          <5> DEFINE n == Len(trail)
          <5>1. n \in Nat /\ l \in 2 .. n + 1 /\ l # n + 1
            BY <4>3, <3>1, <1>4
          <5> HIDE DEF n
          <5>2. l \in 2 .. n /\ l \in 1 .. n
            BY <5>1
          <5>3. l \in 2 .. Len(trail) /\ trail'[l] = trail[l]
            BY <5>2, <3>1 DEF n
          <5>4. \E i \in DOMAIN trail[l] : trail[l][i] = q
            BY <5>3, <4>1
          <5> QED
            BY <5>3, <5>4 DEF DeepOf, Elems
        <4> QED
          BY <4>2, <4>3
      <3> QED
        BY <3>2, <1>1 DEF Root, Deep
    <2>2. ProblemHeld(assigns' \ DeepOf(trail'), clause, watches, loaded)
      BY <2>1, <1>5, HeldStays
    <2> QED
      BY <2>2, <1>2
  <1> QED
    BY <1>2, <1>3, <1>6, <1>7, <1>8, <1>9, <1>10, CompleteNext

-----------------------------------------------------------------------------
(* Conflict analysis undoes, and looks at nothing. *)

LEMMA conflictCompletes ==
  ASSUME SatInv, Complete, conflict, given' = given
  PROVE  Complete'
  <1>1. /\ pc = "propagate" /\ confl # NoReason
        /\ UNCHANGED <<loaded, learnts, watches, todo, found>>
    BY DEF conflict
  <1>2. /\ trail \in Seq(Seq(Lit)) /\ Len(trail) \in Nat /\ Len(trail) > 0 /\ assigns \in SUBSET Lit
        /\ TrailRight(trail, assigns) /\ given \in DOMAIN Runs
    BY TopPlaces
  <1>3. found \subseteq Solutions
    BY CompleteNow
  <1>4. CASE atRoot
    <2>1. pc' = "GUN" /\ UNCHANGED <<clause, confl, stack, an>>
      BY <1>4 DEF conflict
    <2>2. UNCHANGED <<db, assigns, trail, qhead, found>> /\ ~ Active'
      BY <2>1, <1>1 DEF db, stack, Active
    <2> QED
      BY <2>1, <2>2, SameCompletes
  <1>5. CASE ~ atRoot
    <2> DEFINE C == ConflictLits
               lv == Highest({levelOf(var(l)) : l \in C})
               copy == needsCopy(lv)
               mem == IF copy THEN With(clause, Slot, clause[confl[2]]) ELSE clause
    <2>1. /\ btToLevel(lv) /\ (copy => Free # {}) /\ clause' = Without(mem, Freed(lv)) /\ pc' = "resolve"
      BY <1>5 DEF conflict
    <2>2. decisionLevel > 0
      BY <1>2, <1>5 DEF atRoot, decisionLevel
    <2>3. C \in SUBSET Lit /\ (\A q \in C : -q \in assigns) /\ \E q \in C : -q \in Deep
      BY <2>2, <1>1, SatParts DEF ConflictRight, isFalse
    <2>4. \A i \in DOMAIN clause : i \in DOMAIN mem /\ mem[i] = clause[i]
      <3>1. CASE copy
        <4>1. Slot \notin DOMAIN clause
          BY <3>1, <2>1, SatParts, TypedNow, SlotFacts DEF Free, Slot
        <4> QED
          BY <3>1, <4>1 DEF With
      <3> QED
        BY <3>1
    <2>5. \A i \in DOMAIN mem : mem[i].temp \/ (i \in DOMAIN clause /\ mem[i] = clause[i])
      <3>1. CASE copy
        <4>1. clause[confl[2]].temp
          BY <3>1 DEF needsCopy
        <4>2. DOMAIN mem = DOMAIN clause \cup {Slot} /\ mem[Slot] = clause[confl[2]]
          BY <3>1 DEF With
        <4> QED
          BY <4>1, <4>2, <2>4
      <3> QED
        BY <3>1
    <2> HIDE DEF mem, copy
    <2>6. lv \in 1 .. Len(trail) - 1
      <3>1. lv = Highest({levelOf(var(l)) : l \in C})
        OBVIOUS
      <3> HIDE DEF lv, C
      <3> QED
        BY <3>1, <2>3, <1>2, ConflictLevel
    <2> HIDE DEF lv, C
    <2>7. lv \in Nat /\ lv < Len(trail)
      BY <2>6, <1>2
    <2>8. /\ assigns' = assigns \ UndoneOf(trail, lv) /\ trail' = Keep(trail, lv) /\ qhead' = Keep(qhead, lv)
          /\ Freed(lv) = FreedOf(rtrail, lv)
      BY <2>1, BackNow
    <2>9. /\ \A i \in DOMAIN clause \ FreedOf(rtrail, lv) : i \in DOMAIN clause' /\ clause'[i] = clause[i]
          /\ \A i \in DOMAIN clause' : clause'[i].temp \/ (i \in DOMAIN clause /\ clause'[i] = clause[i])
      BY <2>1, <2>4, <2>5, <2>8 DEF Without
    <2>10. ~ Active'
      BY <2>1 DEF Active
    <2> QED
      BY <2>7, <2>8, <2>9, <2>10, <1>1, <1>3, BackStops
  <1> QED
    BY <1>4, <1>5

LEMMA selectCompletes ==
  ASSUME SatInv, Complete, select, given' = given
  PROVE  Complete'
  <1> DEFINE index == Highest({i \in 1 .. an.index : var(Last(trail)[i]) \in seen}) - 1
             p == Last(trail)[index + 1]
             r == reason[var(p)]
  <1>1. /\ pc = "select" /\ pc' \in {"learn", "select", "resolve"}
        /\ \/ UNCHANGED stack
           \/ /\ an.pathC > 1 \/ var(p) \in Hidden
              /\ trail' = [trail EXCEPT ![Len(trail)] = SubSeq(Last(trail), 1, index)]
              /\ assigns' = assigns \ {Last(trail)[i] : i \in index + 1 .. Len(Last(trail))}
              /\ UNCHANGED qhead
        /\ UNCHANGED <<db, found>>
    BY DEF select, stack
  <1>2. ChosenAt(index, p) /\ r = reason[var(p)]
    BY DEF ChosenAt
  <1>3. ~ Active' /\ pc # "GUN"
    BY <1>1 DEF Active
  <1>4. CASE UNCHANGED stack
    <2>1. UNCHANGED <<db, assigns, trail, qhead, found>>
      BY <1>1, <1>4 DEF stack
    <2> QED
      BY <2>1, <1>3, SameCompletes
  <1>5. CASE /\ an.pathC > 1 \/ var(p) \in Hidden
             /\ trail' = [trail EXCEPT ![Len(trail)] = SubSeq(Last(trail), 1, index)]
             /\ assigns' = assigns \ {Last(trail)[i] : i \in index + 1 .. Len(Last(trail))}
             /\ UNCHANGED qhead
    <2>1. trail' = ShortenedTo(trail, index) /\ assigns' = assigns \ GoneFrom(trail, index)
      BY <1>5 DEF ShortenedTo, GoneFrom
    <2> HIDE DEF index, p, r
    <2>2. ChosenRight(index, p) /\ index >= 1
      <3>1. ChosenRight(index, p)
        BY <1>1, <1>2, Chosen
      <3>2. index >= 1
        BY <1>1, <1>2, <1>5, ChosenImplied
      <3> QED
        BY <3>1, <3>2
    <2>3. index \in Nat /\ index <= Len(Last(trail))
      <3>1. index \in Nat /\ index + 1 \in 1 .. Len(Last(trail)) /\ Len(Last(trail)) \in Nat
        BY <2>2, TopPlaces DEF ChosenRight
      <3> QED
        BY <3>1
    <2>4. CutOf(trail, assigns, trail', assigns')
      BY <2>1, <2>2, <2>3, <1>1, LevelShortened DEF Shortens
    <2>5. /\ trail \in Seq(Seq(Lit)) /\ Len(trail) \in Nat /\ Len(trail) > 0 /\ assigns \in SUBSET Lit
          /\ TrailRight(trail, assigns)
      BY TopPlaces
    <2>6. UNCHANGED <<loaded, clause, learnts, watches, found, qhead>>
      BY <1>1, <1>5 DEF db
    <2>7. /\ LowerDone(trail, assigns, qhead, clause, watches)
          /\ StoreComplete(clause, watches, learnts)
          /\ ProblemHeld(assigns \ DeepOf(trail), clause, watches, loaded)
          /\ found \subseteq Solutions
      BY <1>3, CompleteNow
    <2>8. LowerDone(trail', assigns', qhead, clause, watches)
      BY <2>4, <2>5, <2>7, LowerCut
    <2>9. assigns' \ DeepOf(trail') = assigns \ DeepOf(trail)
      BY <2>4, <2>5, CutShape
    <2> QED
      BY <2>6, <2>7, <2>8, <2>9, <1>3, CompleteNext
  <1> QED
    BY <1>1, <1>4, <1>5

-----------------------------------------------------------------------------
(* What is printed. *)

(* All of the problem is there before the search starts. *)
Loaded == pc \notin {"load", "GUN"} => loaded = Len(Problem)

(* A clause of the problem is true once all its literals are fixed. *)
LEMMA HeldTrue ==
  ASSUME SatInv, Complete, Ready, NEW C \in SUBSET Lit, Held(Root, clause, watches, C),
         \A l \in C : l \in assigns \/ -l \in assigns
  PROVE  C \cap assigns # {}
  <1>1. Watched(clause, watches, assigns) /\ given \in DOMAIN Runs /\ StoreComplete(clause, watches, learnts)
    BY ReadyWatched, TopPlaces, CompleteNow
  <1>2. CASE C \cap Root # {}
    BY <1>2 DEF Root
  <1>3. ASSUME NEW l \in Lit, NEW e \in watches[l], e[1] = "bin", {-l, e[2]} \subseteq C
        PROVE  C \cap assigns # {}
    <2>1. -(-l) = l
      BY <1>1, LitFacts
    <2>2. CASE l \in assigns
      BY <2>2, <1>1, <1>3 DEF Watched, Attended
    <2>3. CASE -l \in assigns
      BY <2>3, <1>3
    <2> QED
      BY <2>1, <2>2, <2>3, <1>3
  <1>4. ASSUME NEW i \in DOMAIN clause, ~ clause[i].temp, ~ clause[i].learnt, Lits(clause[i]) \subseteq C
        PROVE  C \cap assigns # {}
    <2> DEFINE c0 == clause[i].c0
               c1 == clause[i].c1
               e == <<"clause", i>>
    <2>1. OnWatch(watches, clause[i], i)
      BY <1>1, <1>4 DEF StoreComplete, Counts
    <2>2. {c0, c1} \subseteq Lit /\ e \in watches[-c1] /\ e[1] # "bin" /\ e[2] = i
      BY <2>1 DEF OnWatch
    <2>3. c0 \in C /\ c1 \in C
      BY <2>2, <1>1, <1>4, LitFacts DEF Lits
    <2>4. Attended(clause, assigns, e) => c0 \in assigns \/ c1 \in assigns
      BY <2>2 DEF Attended
    <2> HIDE DEF c0, c1, e
    <2>5. CASE -c1 \in assigns
      BY <2>2, <2>3, <2>4, <2>5, <1>1 DEF Watched
    <2> QED
      BY <2>3, <2>5
  <1> QED
    BY <1>2, <1>3, <1>4 DEF Held

LEMMA SolutionIsOne ==
  ASSUME SatInv, Complete, Loaded, Ready, AllFixed
  PROVE  Show(assigns) \in Solutions
  <1> DEFINE g == Runs[given]
             N == {x \in Hidden : x \notin assigns}
             m == assigns \cup neg(N)
  <1>1. /\ given \in DOMAIN Runs /\ assigns \in SUBSET Lit /\ TrailRight(trail, assigns)
        /\ (\A k \in Inference : Quiet(k)) /\ HiddenRight(trail, assigns, reason)
        /\ pc \in {"branch", "propagate"}
    BY TopPlaces, ReadyFacts, SatParts DEF StackRight
  <1>2. g \in Elems(Runs) /\ Lit = LitOf(g) /\ Var = g.Var /\ Problem = g.Problem /\ Inference = g.Inference
        /\ Hidden = g.Hidden
    BY <1>1 DEF Elems, Lit, LitSets, Var, Problem, Inference, Hidden
  <1>3. /\ Hidden \subseteq Var /\ Var \subseteq Nat \ {0}
        /\ \A x \in Var : x \in Lit /\ -x \in Lit /\ -(-x) = x /\ x # 0 /\ x \in Nat
        /\ \A l \in Lit : l \in Int /\ l # 0 /\ -l \in Lit /\ -l # l /\ -(-l) = l
    BY <1>1, LitFacts
  <1>4. \A p \in assigns : -p \notin assigns
    BY <1>1 DEF TrailRight
  <1>5. ASSUME NEW l \in m, l \notin assigns PROVE l \notin Nat /\ -l \in Hidden /\ -l \notin assigns /\ l \in Lit
    <2>1. PICK x \in N : l = -x
      BY <1>5 DEF neg
    <2>2. x \in Nat /\ x # 0 /\ -(-x) = x /\ x \in Hidden /\ x \notin assigns /\ -x \in Lit
      BY <1>3
    <2> QED
      BY <2>1, <2>2
  <1>6. \A l \in assigns : l \in m
    OBVIOUS
  <1>7. \A x \in Hidden : x \notin assigns => -x \in m
    BY DEF neg
  <1> HIDE DEF m, N, g
  <1>8. m \in SUBSET Lit
    BY <1>1, <1>5
  <1>9. ASSUME NEW x \in Var, x \notin Hidden PROVE x \in assigns \/ -x \in assigns
    BY <1>9 DEF AllFixed, Decidable, isUndef, isTrue, isFalse
  <1>10. \A p \in assigns : var(p) \in Hidden => p \in Hidden
    BY <1>1, RunFacts DEF HiddenRight
  <1>11. ASSUME NEW x \in Var PROVE (x \in m) # (-x \in m)
    <2>1. x \in Nat /\ x # 0 /\ -(-x) = x /\ x \in Lit /\ -x \in Lit /\ x \in Int
      BY <1>3
    <2>2. x \in m <=> x \in assigns
      BY <2>1, <1>5, <1>6
    <2>3. CASE x \in Hidden
      <3>1. -x \notin assigns
        <4>1. var(-x) = x
          BY <2>1 DEF var
        <4>2. -x \notin Hidden
          BY <2>1, <1>3
        <4> QED
          BY <4>1, <4>2, <2>3, <1>10
      <3>2. -x \in m <=> x \notin assigns
        BY <3>1, <2>1, <2>3, <1>5, <1>7
      <3> QED
        BY <3>2, <2>2
    <2>4. CASE x \notin Hidden
      <3>1. -x \in m <=> -x \in assigns
        BY <2>1, <2>4, <1>5, <1>6
      <3>2. x \in assigns => -x \notin assigns
        BY <1>4
      <3> QED
        BY <3>1, <3>2, <2>2, <2>4, <1>9
    <2> QED
      BY <2>3, <2>4
  <1>12. ASSUME NEW l \in Lit, var(l) \notin Hidden PROVE l \in assigns \/ -l \in assigns
    <2>1. var(l) \in Var /\ (var(l) = l \/ var(l) = -l) /\ -(-l) = l
      BY <1>1, <1>3, LitFacts DEF var
    <2> QED
      BY <2>1, <1>9, <1>12
  <1>13. ASSUME NEW i \in DOMAIN Problem PROVE Satisfies(m, Elems(Problem[i]))
    <2> DEFINE C == Elems(Problem[i])
    <2>1. Problem \in Seq(Seq(Lit)) /\ \A l \in C : var(l) \notin Hidden
      BY <1>1, RunFacts
    <2>2. C \in SUBSET Lit
      <3>1. Problem[i] \in Seq(Lit)
        BY <2>1
      <3> QED
        BY <3>1 DEF Elems
    <2>3. loaded = Len(Problem) /\ ProblemHeld(Root, clause, watches, loaded)
      BY <1>1, ReadyWatched DEF Loaded
    <2>4. Held(Root, clause, watches, C)
      BY <2>1, <2>3 DEF ProblemHeld
    <2> HIDE DEF C
    <2>5. C \cap assigns # {}
      BY <2>1, <2>2, <2>4, <1>12, HeldTrue
    <2> QED
      BY <2>5, <1>6 DEF Satisfies, C
  <1>14. ASSUME NEW k \in Inference, k.body \subseteq m PROVE k.heads # {} /\ k.heads \subseteq m /\ k.body \subseteq assigns
    <2>1. k.body \cap neg(Hidden) = {}
      BY <1>2, HiddenAssumption
    <2>2. ASSUME NEW l \in k.body, l \notin assigns PROVE FALSE
      <3>1. l \in m
        BY <1>14
      <3>2. -l \in Hidden /\ l \in Lit
        BY <3>1, <2>2, <1>5
      <3>3. -(-l) = l
        BY <3>2, <1>3
      <3>4. l \in neg(Hidden)
        BY <3>2, <3>3 DEF neg
      <3> QED
        BY <3>4, <2>1
    <2>3. k.body \subseteq assigns
      BY <2>2
    <2>4. k.heads # {} /\ (k.kind = "short" => k.heads \subseteq assigns) /\ \A h \in k.heads : -h \notin assigns
      BY <2>3, <1>1 DEF Quiet, isFalse
    <2>5. ASSUME NEW h \in k.heads PROVE h \in assigns
      <3>1. h \in Lit /\ (var(h) \in Hidden => k.kind = "short")
        BY <1>1, RunFacts
      <3> QED
        BY <3>1, <2>4, <1>12
    <2> QED
      BY <2>3, <2>4, <2>5, <1>6
  <1>15. ASSUME NEW h \in Hidden PROVE h \in m <=> \E k \in Inference : h \in k.heads /\ k.body \subseteq m
    <2>1. ASSUME h \in m PROVE \E k \in Inference : h \in k.heads /\ k.body \subseteq m
      <3>1. h \in Nat /\ h \in Var /\ h # 0
        BY <1>3
      <3>2. h \in assigns
        BY <3>1, <2>1, <1>5
      <3>3. var(h) = h
        BY <3>1 DEF var
      <3> QED
        BY <3>2, <3>3, <1>1, <1>6 DEF HiddenRight
    <2> QED
      BY <2>1, <1>14
  <1>16. m \in Models
    <2>1. m \in ModelsOf(g)
      BY <1>2, <1>8, <1>11, <1>13, <1>14, <1>15 DEF ModelsOf
    <2> QED
      BY <2>1, <1>1 DEF Models, ModelSets, g
  <1>17. \A x \in Shown : x \notin Hidden
    <2>1. Shown = ShownOf(g)
      BY <1>1 DEF Shown, ShownSets, g
    <2>2. \A k \in g.Inference : k.heads \cap g.Hidden # {} => vars_of(k.body) \cap g.Hidden = {}
      BY <1>2, HiddenAssumption
    <2> QED
      BY <2>1, <2>2, <1>2 DEF ShownOf
  <1>18. Show(m) = Show(assigns)
    <2>1. ASSUME NEW l \in m, var(l) \in Shown PROVE l \in assigns
      <3>1. SUFFICES ASSUME l \notin assigns PROVE FALSE
        OBVIOUS
      <3>2. -l \in Hidden /\ l \in Lit
        BY <3>1, <1>5
      <3>3. -l \in Nat /\ l \in Int /\ -(-l) = l /\ -l # 0
        BY <3>2, <1>3
      <3>4. var(l) = -l
        BY <3>3 DEF var
      <3> QED
        BY <3>2, <3>4, <2>1, <1>17
    <2> QED
      BY <2>1, <1>6 DEF Show
  <1> QED
    BY <1>16, <1>18 DEF Solutions

LEMMA solutionCompletes ==
  ASSUME SatInv, Complete, Loaded, solution, given' = given
  PROVE  Complete'
  <1>1. /\ Ready /\ AllFixed
        /\ found' = found \cup {Show(assigns)}
        /\ UNCHANGED <<loaded, learnts, watches, todo>>
        /\ \/ /\ pc' = "SAT"
              /\ UNCHANGED <<clause, rtrail, assigns, trail, qhead, reason, confl>>
           \/ /\ pc' = "propagate"
              /\ blockCurrentSol
    BY DEF solution
  <1>2. pc \in {"branch", "propagate"} /\ confl = NoReason /\ todo = {}
    BY <1>1, ReadyFacts
  <1>3. found' \subseteq Solutions
    <2>1. found \subseteq Solutions
      BY CompleteNow
    <2> QED
      BY <2>1, <1>1, SolutionIsOne
  <1>4. /\ LowerDone(trail, assigns, qhead, clause, watches)
        /\ StoreComplete(clause, watches, learnts)
        /\ ProblemHeld(assigns \ DeepOf(trail), clause, watches, loaded)
    BY <1>2, CompleteNow
  <1>5. CASE /\ pc' = "SAT"
             /\ UNCHANGED <<clause, rtrail, assigns, trail, qhead, reason, confl>>
    <2>1. ~ Active'
      BY <1>5 DEF Active
    <2> QED
      BY <2>1, <1>1, <1>3, <1>4, <1>5, CompleteNext
  <1>6. ASSUME confl' = <<"clause", Slot>> PROVE ~ Active'
    BY <1>6 DEF Active, NoReason
  <1>7. CASE /\ confl' = <<"clause", Slot>> /\ btToLevel(0) /\ clause' = Without(clause, Freed(0))
    <2> DEFINE lv == 0
    <2>1. /\ assigns' = assigns \ UndoneOf(trail, lv) /\ trail' = Keep(trail, lv) /\ qhead' = Keep(qhead, lv)
          /\ clause' = Without(clause, FreedOf(rtrail, lv))
      BY <1>7, BackNow
    <2>2. lv \in Nat /\ lv < Len(trail)
      BY TopPlaces
    <2> HIDE DEF lv
    <2>3. /\ \A i \in DOMAIN clause \ FreedOf(rtrail, lv) : i \in DOMAIN clause' /\ clause'[i] = clause[i]
          /\ \A i \in DOMAIN clause' : clause'[i].temp \/ (i \in DOMAIN clause /\ clause'[i] = clause[i])
      BY <2>1 DEF Without
    <2> QED
      BY <2>1, <2>2, <2>3, <1>1, <1>2, <1>3, <1>6, <1>7, BackStops
  <1>8. CASE /\ confl' = <<"clause", Slot>> /\ Reason_new(0, neg(OutputLits))
             /\ UNCHANGED <<assigns, trail, qhead, reason>>
    <2>1. Edited
      BY <1>1, <1>8, ReasonEdited
    <2>2. LowerDone(trail', assigns', qhead', clause', watches')
      <3>1. LowerDone(trail, assigns, qhead, clause', watches')
        BY <2>1, EditedLower
      <3> QED
        BY <3>1, <1>8
    <2>3. ProblemHeld(assigns' \ DeepOf(trail'), clause', watches', loaded')
      BY <2>1, <1>1, <1>4, <1>8 DEF Edited
    <2> QED
      BY <2>1, <2>2, <2>3, <1>3, <1>6, <1>8, CompleteNext DEF Edited
  <1> QED
    BY <1>1, <1>5, <1>7, <1>8 DEF blockCurrentSol


-----------------------------------------------------------------------------
(* A clause is learnt. *)

(* The object at s and its watches come to what is there. *)
LEMMA LearntAdds ==
  ASSUME given \in DOMAIN Runs, NEW M, NEW W, NEW ls, StoreComplete(M, W, ls),
         NEW s, s \notin DOMAIN M, NEW M1, DOMAIN M1 = DOMAIN M \cup {s}, \A i \in DOMAIN M : M1[i] = M[i],
         NEW W1, \A l \in Lit : W[l] \subseteq W1[l],
         NEW ls1, ls1 \subseteq ls \cup {s}, M1[s].learnt, s \in ls1 => OnWatch(W1, M1[s], s), ls \subseteq DOMAIN M
  PROVE  /\ StoreComplete(M1, W1, ls1)
         /\ \A root, n : ProblemHeld(root, M, W, n) => ProblemHeld(root, M1, W1, n)
  <1>1. ASSUME NEW i \in DOMAIN M1, Counts(M1, ls1, i) PROVE OnWatch(W1, M1[i], i)
    <2>1. CASE i = s
      BY <2>1, <1>1 DEF Counts
    <2>2. CASE i # s
      <3>1. i \in DOMAIN M /\ M1[i] = M[i] /\ Counts(M, ls, i)
        BY <2>2, <1>1 DEF Counts
      <3>2. OnWatch(W, M[i], i)
        BY <3>1 DEF StoreComplete
      <3>3. -M[i].c0 \in Lit /\ -M[i].c1 \in Lit
        BY <3>2, LitFacts DEF OnWatch
      <3> QED
        BY <3>1, <3>2, <3>3 DEF OnWatch
    <2> QED
      BY <2>1, <2>2
  <1>2. \A i \in ls1 : M1[i].learnt
    BY DEF StoreComplete
  <1>3. ASSUME NEW root, NEW n, ProblemHeld(root, M, W, n) PROVE ProblemHeld(root, M1, W1, n)
    <2>1. \A i \in DOMAIN M : ~ M[i].temp /\ ~ M[i].learnt =>
            i \in DOMAIN M1 /\ ~ M1[i].temp /\ ~ M1[i].learnt /\ Lits(M1[i]) \subseteq Lits(M[i])
      OBVIOUS
    <2>2. \A l \in Lit : \A e \in W[l] : e[1] = "bin" => e \in W1[l]
      OBVIOUS
    <2>3. root \subseteq root
      OBVIOUS
    <2> QED
      BY <1>3, <2>1, <2>2, <2>3, HeldStays
  <1> QED
    BY <1>1, <1>2, <1>3 DEF StoreComplete

(* The second literal of the learnt clause is of the level that stays on top. *)
LEMMA LatestOnTop ==
  ASSUME SatInv, pc = "learn", Unlearnable = {}, NEW c1 \in latest, NEW lv, lv = findBackTrackLevel,
         NEW t1, t1 = Keep(trail, lv), NEW a1
  PROVE  /\ c1 \in an.out /\ -c1 \in Elems(trail[lv + 1])
         /\ \A k \in 2 .. lv + 1 : -c1 \notin BelowOf(t1, a1, k)
  <1> DEFINE n == Len(trail)
  <1>1. /\ given \in DOMAIN Runs /\ trail \in Seq(Seq(Lit)) /\ n \in Nat /\ Len(trail) > 0 /\ assigns \in SUBSET Lit
        /\ TrailRight(trail, assigns)
    BY TopPlaces
  <1>2. /\ lv \in Nat /\ lv < n - 1 /\ c1 \in an.out /\ c1 \in Lit /\ -c1 \in assigns /\ lv > 0
    <2>1. LearnsAt(lv)
      BY LearnFacts
    <2>2. c1 \in an.out
      BY DEF latest
    <2> QED
      BY <2>1, <2>2 DEF LearnsAt
  <1>3. levelOf(var(-c1)) = lv
    <2>1. levelOf(var(c1)) = lv
      BY DEF latest, findBackTrackLevel
    <2> QED
      BY <2>1, <1>1, <1>2, LitFacts
  <1>4. \A k \in 1 .. Len(trail) - 1 : levelOf(var(-c1)) = k <=> -c1 \in Elems(trail[k + 1])
    BY <1>1, <1>2, Levels
  <1>5. lv \in 1 .. n - 1
    <2> HIDE DEF n
    <2> QED
      BY <1>1, <1>2
  <1>6. -c1 \in Elems(trail[lv + 1])
    BY <1>3, <1>4, <1>5
  <1>7. Len(t1) = lv + 1 /\ t1[lv + 1] = trail[lv + 1]
    <2>1. lv < Len(trail)
      <3>1. lv < n
        <4> HIDE DEF n
        <4> QED
          BY <1>1, <1>2
      <3> QED
        BY <3>1
    <2>2. \A l \in 2 .. Len(trail) : trail[l] # <<>>
      BY SatParts DEF StackRight, ReasonsRight
    <2>3. Len(Keep(trail, lv)) = lv + 1 /\ \A l \in 1 .. lv + 1 : Keep(trail, lv)[l] = trail[l]
      BY <2>1, <2>2, <1>1, <1>2, BackIsCut
    <2>4. lv + 1 \in 1 .. lv + 1
      BY <1>2
    <2> QED
      BY <2>3, <2>4
  <1>8. ASSUME NEW k \in 2 .. lv + 1 PROVE -c1 \notin BelowOf(t1, a1, k)
    <2>1. lv + 1 \in k .. Len(t1)
      BY <1>2, <1>7
    <2> QED
      BY <2>1, <1>6, <1>7 DEF BelowOf
  <1> QED
    BY <1>2, <1>6, <1>8

LearntSeen(W, W1, c0, c1, s, absorbed, stays) ==
  /\ \A l \in Lit : W[l] \subseteq W1[l]
  /\ \A l \in Lit : \A e \in W1[l] :
       \/ e \in W[l] \/ l = -c0
       \/ l = -c1 /\ (absorbed \/ stays) /\ e = IF absorbed THEN <<"bin", c0>> ELSE <<"clause", s>>
  /\ stays /\ ~ absorbed /\ -c1 \in Lit => <<"clause", s>> \in W1[-c1]
  /\ stays /\ ~ absorbed /\ ~ one_watch => <<"clause", s>> \in W1[-c0]

(* What watches the learnt clause comes to the watches that stay. *)
LEMMA LearntWatch ==
  ASSUME given \in DOMAIN Runs, NEW W, NEW c0 \in Lit, NEW c1, NEW s, NEW absorbed \in BOOLEAN, NEW stays \in BOOLEAN,
         NEW D, s \notin D, NEW W0, W0 = detach(W, D), NEW W1, W1 = LearntWatches(W, c0, c1, s, absorbed, stays),
         NEW W2, W2 = detach(W1, D)
  PROVE  LearntSeen(W0, W2, c0, c1, s, absorbed, stays)
  <1>1. /\ \A l \in Lit : W0[l] = {e \in W[l] : ~ (e[1] = "clause" /\ e[2] \in D)}
        /\ \A l \in Lit : W2[l] = {e \in W1[l] : ~ (e[1] = "clause" /\ e[2] \in D)}
    BY DEF detach
  <1>2. /\ \A l \in Lit : W[l] \subseteq W1[l]
        /\ \A l \in Lit : \A e \in W1[l] :
              \/ e \in W[l] \/ l = -c0
              \/ l = -c1 /\ (absorbed \/ stays) /\ e = IF absorbed THEN <<"bin", c0>> ELSE <<"clause", s>>
    <2>1. CASE absorbed
      BY <2>1 DEF LearntWatches, attach
    <2>2. CASE ~ absorbed /\ stays
      BY <2>2 DEF LearntWatches, attach
    <2>3. CASE ~ absorbed /\ ~ stays
      BY <2>3 DEF LearntWatches
    <2> QED
      BY <2>1, <2>2, <2>3
  <1>3. -c0 \in Lit
    BY LitFacts
  <1>4. ASSUME stays, ~ absorbed
        PROVE  /\ -c1 \in Lit => <<"clause", s>> \in W1[-c1]
               /\ ~ one_watch => <<"clause", s>> \in W1[-c0]
    BY <1>3, <1>4 DEF LearntWatches, attach
  <1> QED
    BY <1>1, <1>2, <1>3, <1>4 DEF LearntSeen

(* The trail is cut back, the learnt clause there and its first literal true. *)
LEMMA backjumpCompletes ==
  ASSUME SatInv, Complete, backjump, given' = given
  PROVE  Complete'
  <1> DEFINE c0 == -an.p
             lv == findBackTrackLevel
             n == Cardinality(an.out) + 1
             absorbed == n = 2 /\ bin_clause_opt
             stays == n > 1 /\ ~ absorbed
             lower == Without(clause, Freed(lv))
             s == SlotIn(lower)
             t1 == Keep(trail, lv)
             a1 == assigns \ UndoneOf(trail, lv)
             Q1 == Keep(qhead, lv)
             ls1 == IF stays THEN learnts \cup {s} ELSE learnts
             droppable == {i \in learnts : ~ locked(i) \/ clause[i].c0 \in Undone(lv)}
             cl(c1) == [c0 |-> c0, c1 |-> c1, rest |-> an.out \ {c1}, learnt |-> TRUE, temp |-> FALSE]
             added(c1) == IF absorbed THEN attach(watches, c0, c1, ~ one_watch, <<"bin", c1>>, <<"bin", c0>>)
                          ELSE IF stays THEN attach(watches, c0, c1, ~ one_watch, <<"clause", s>>, <<"clause", s>>)
                          ELSE watches
  <1>1. /\ pc = "learn" /\ Unlearnable = {} /\ FreeIn(lower) # {}
        /\ \E c1 \in IF n = 1 THEN {0} ELSE latest : \E drop \in reduceDB(ls1, droppable) :
             /\ clause' = Without(With(lower, s, cl(c1)), drop)
             /\ learnts' = ls1 \ drop
             /\ watches' = detach(added(c1), drop)
        /\ assigns' = (assigns \ Undone(lv)) \cup {c0}
        /\ trail' = [t1 EXCEPT ![lv + 1] = Append(@, c0)]
        /\ qhead' = Q1 /\ pc' = "propagate" /\ confl' = NoReason
        /\ UNCHANGED <<loaded, todo, found>>
    BY DEF backjump
  <1>2. PICK c1 \in IF n = 1 THEN {0} ELSE latest : \E drop \in reduceDB(ls1, droppable) :
          /\ clause' = Without(With(lower, s, cl(c1)), drop)
          /\ learnts' = ls1 \ drop
          /\ watches' = detach(added(c1), drop)
    BY <1>1
  <1>3. PICK drop \in reduceDB(ls1, droppable) :
          /\ clause' = Without(With(lower, s, cl(c1)), drop)
          /\ learnts' = ls1 \ drop
          /\ watches' = detach(added(c1), drop)
    BY <1>2
  <1> DEFINE c == cl(c1)
  <1>4. watches' = detach(LearntWatches(watches, c0, c1, s, absorbed, stays), drop)
    BY <1>3 DEF LearntWatches
  <1>5. LearnsAt(lv)
    BY <1>1, LearnFacts
  <1>6. n = 1 \/ (c1 \in latest /\ c1 \in an.out /\ \A k \in 2 .. lv + 1 : -c1 \notin BelowOf(t1, a1, k))
    <2>1. ASSUME n # 1 PROVE c1 \in latest
      BY <2>1
    <2> QED
      BY <2>1, <1>1, LatestOnTop
  <1> HIDE DEF lv
  <1>7. /\ lv \in Nat /\ lv < Len(trail) - 1
        /\ c0 \in Lit /\ -c0 = an.p /\ an.p \in UndoneOf(trail, lv) /\ c0 \notin assigns
        /\ \A q \in an.out : q \in Lit /\ -q \in a1
        /\ (an.out # {} => lv > 0) /\ (an.out = {} => lv = 0)
    BY <1>5 DEF LearnsAt
  <1>8. /\ given \in DOMAIN Runs /\ trail \in Seq(Seq(Lit)) /\ Len(trail) \in Nat /\ assigns \in SUBSET Lit
        /\ TrailRight(trail, assigns) /\ watches \in [Lit -> SUBSET WatchElem]
    BY TopPlaces
  <1>9. MaxClause \in Nat /\ StoreRight(clause, watches, learnts, rtrail, Remaining) /\ todo = {}
    BY <1>1, SatParts, TypedNow DEF Phases
  <1>10. Undone(lv) = UndoneOf(trail, lv) /\ Freed(lv) = FreedOf(rtrail, lv)
    BY DEF Undone, UndoneOf, Freed, FreedOf
  <1>11. lv < Len(trail) /\ lv + 1 < Len(trail)
    <2> DEFINE m == Len(trail)
    <2>1. m \in Nat /\ lv \in Nat /\ lv < m - 1
      BY <1>7, <1>8
    <2> HIDE DEF m
    <2>2. lv < m /\ lv + 1 < m
      BY <2>1
    <2> QED
      BY <2>2 DEF m
  <1>12. /\ s \in 1..MaxClause /\ s \notin DOMAIN lower
    BY <1>1, <1>9, SlotFacts
  <1>13. /\ (n = 1 => an.out = {}) /\ (c1 \in an.out \/ n = 1) /\ (stays => n # 1) /\ (absorbed => n # 1)
    <2>1. an.out \in SUBSET Lit
      BY <1>7
    <2>2. n \in Nat /\ (n = 1 <=> an.out = {})
      BY <2>1, <1>8, OutSize
    <2>3. stays => n # 1
      <3>1. stays => n > 1
        OBVIOUS
      <3> HIDE DEF n, stays
      <3> QED
        BY <3>1, <2>2
    <2> QED
      BY <2>2, <2>3, <1>6
  <1>14. drop \subseteq learnts
    BY <1>3, Droppable
  <1>15. DOMAIN lower = DOMAIN clause \ FreedOf(rtrail, lv) /\ \A i \in DOMAIN lower : lower[i] = clause[i]
    BY <1>10 DEF Without
  <1>16. absorbed \in BOOLEAN /\ stays \in BOOLEAN /\ (stays => ~ absorbed)
    OBVIOUS
  <1>17. c = [c0 |-> c0, c1 |-> c1, rest |-> an.out \ {c1}, learnt |-> TRUE, temp |-> FALSE]
    OBVIOUS
  <1> HIDE DEF n, absorbed, stays, lower, s, t1, a1, Q1, c0, cl, added, droppable
  <1>18. ASSUME NEW i, Kept(clause, rtrail, i) PROVE i \in DOMAIN lower
    <2>1. \A k \in lv + 2 .. Len(rtrail) : k \in DOMAIN rtrail
      <3>1. rtrail \in Seq(SUBSET (1..MaxClause))
        BY SatParts, TypedNow DEF StackTyped
      <3> QED
        BY <3>1, <1>7
    <2>2. i \notin FreedOf(rtrail, lv)
      BY <2>1, <1>18 DEF Kept, FreedOf
    <2> QED
      BY <2>2, <1>15, <1>18 DEF Kept
  <1>19. learnts \subseteq DOMAIN lower /\ s \notin learnts /\ s \notin drop
    BY <1>9, <1>12, <1>14, <1>18 DEF StoreRight
  <1> DEFINE M1 == Without(lower, drop)
             W0 == detach(watches, drop)
             ls0 == learnts \ drop
  <1>20. DOMAIN M1 = DOMAIN lower \ drop /\ \A i \in DOMAIN M1 : M1[i] = clause[i]
    BY <1>15 DEF Without
  <1>21. /\ StoreComplete(M1, W0, ls0)
         /\ \A u \in SUBSET assigns : Watched(clause, watches, u) => Watched(M1, W0, u)
         /\ \A root, root1, k : ProblemHeld(root, clause, watches, k) /\ root \subseteq root1
                                 => ProblemHeld(root1, M1, W0, k)
    <2>1. StoreComplete(clause, watches, learnts) /\ drop \in SUBSET learnts /\ ls0 \subseteq learnts \ drop
      BY <1>14, CompleteNow
    <2>2. DetachedOf(watches, W0, drop)
      BY DEF DetachedOf, detach
    <2>3. \A i \in DOMAIN clause \ drop : Kept(clause, rtrail, i) => SameFront(clause, M1, i)
      BY <1>18, <1>20 DEF SameFront
    <2>4. \A i \in DOMAIN M1 : Counts(M1, ls0, i) => i \in DOMAIN clause \ drop /\ Counts(clause, learnts, i)
      BY <1>15, <1>20 DEF Counts
    <2> HIDE DEF M1, W0, ls0
    <2> QED
      BY <2>1, <2>2, <2>3, <2>4, StoreKept
  <1>22. /\ DOMAIN clause' = DOMAIN M1 \cup {s} /\ clause'[s] = c /\ s \notin DOMAIN M1
         /\ \A i \in DOMAIN M1 : clause'[i] = M1[i]
    <2>1. clause' = Without(With(lower, s, c), drop)
      BY <1>3
    <2>2. /\ DOMAIN With(lower, s, c) = DOMAIN lower \cup {s} /\ With(lower, s, c)[s] = c
          /\ \A i \in DOMAIN lower : i # s => With(lower, s, c)[i] = lower[i]
      BY DEF With
    <2> QED
      BY <2>1, <2>2, <1>12, <1>15, <1>19, <1>20 DEF Without
  <1>23. LearntSeen(W0, watches', c0, c1, s, absorbed, stays)
    <2> DEFINE W1 == LearntWatches(watches, c0, c1, s, absorbed, stays)
    <2>1. W0 = detach(watches, drop) /\ W1 = LearntWatches(watches, c0, c1, s, absorbed, stays)
          /\ watches' = detach(W1, drop) /\ c0 \in Lit /\ absorbed \in BOOLEAN /\ stays \in BOOLEAN
          /\ s \notin drop /\ given \in DOMAIN Runs
      BY <1>4, <1>7, <1>8, <1>16, <1>19
    <2> HIDE DEF W0, W1
    <2> QED
      BY <2>1, LearntWatch
  <1>24. -c0 \notin a1 /\ -c0 # c0 /\ c0 \notin a1 /\ c0 \notin an.out
    <2>1. -c0 \notin a1 /\ -c0 # c0 /\ c0 \notin a1
      BY <1>7, <1>8, LitFacts DEF a1
    <2> QED
      BY <2>1, <1>7
  <1>25. s \in learnts' => OnWatch(watches', clause'[s], s)
    <2> SUFFICES ASSUME s \in learnts' PROVE OnWatch(watches', c, s)
      BY <1>22
    <2>1. stays
      BY <1>3, <1>19
    <2>2. c1 \in an.out /\ c1 \in Lit /\ -c1 \in Lit
      BY <2>1, <1>7, <1>8, <1>13, LitFacts
    <2>3. c.c0 = c0 /\ c.c1 = c1 /\ c.rest = an.out \ {c1} /\ c.learnt
      BY <1>17
    <2> HIDE DEF c
    <2> QED
      <3>1. <<"clause", s>> \in watches'[-c1] /\ (one_watch \/ <<"clause", s>> \in watches'[-c0])
        BY <2>1, <2>2, <1>16, <1>23 DEF LearntSeen
      <3>2. c1 # c0 /\ c0 \notin c.rest /\ c1 \notin c.rest
        BY <2>2, <2>3, <1>24
      <3> QED
        BY <3>1, <3>2, <2>2, <2>3, <1>7 DEF OnWatch
  <1>26. /\ StoreComplete(clause', watches', learnts')
         /\ \A root, k : ProblemHeld(root, M1, W0, k) => ProblemHeld(root, clause', watches', k)
    <2>1. learnts' \subseteq ls0 \cup {s} /\ ls0 \subseteq DOMAIN M1
      BY <1>3, <1>19, <1>20
    <2>2. clause'[s].learnt
      BY <1>17, <1>22
    <2>3. \A l \in Lit : W0[l] \subseteq watches'[l]
      BY <1>23 DEF LearntSeen
    <2>4. \A i \in DOMAIN M1 : clause'[i] = M1[i]
      BY <1>22
    <2>5. DOMAIN clause' = DOMAIN M1 \cup {s} /\ s \notin DOMAIN M1
      BY <1>22
    <2>6. StoreComplete(M1, W0, ls0) /\ given \in DOMAIN Runs
      BY <1>8, <1>21
    <2> HIDE DEF M1, W0, ls0, c
    <2> QED
      BY SMTT(30), <2>1, <2>2, <2>3, <2>4, <2>5, <2>6, <1>25, LearntAdds
  <1>27. /\ t1 \in Seq(Seq(Lit)) /\ Len(t1) = lv + 1 /\ a1 \in SUBSET assigns /\ a1 \ DeepOf(t1) = Root
         /\ Q1 \in Seq(Nat) /\ Len(Q1) = lv + 1
         /\ LowerDone(t1, a1, Q1, clause, watches)
         /\ Watched(clause, watches, a1) /\ Last(Q1) = Len(Last(t1))
    <2>1. t1 = Keep(trail, lv) /\ a1 = assigns \ UndoneOf(trail, lv) /\ Q1 = Keep(qhead, lv)
      BY DEF t1, a1, Q1
    <2>2. lv \in Nat /\ lv < Len(trail) /\ lv + 1 < Len(trail)
      BY <1>7, <1>11
    <2> HIDE DEF M1, W0, ls0, ls1, c
    <2>3. ASSUME NEW x, NEW y, NEW z, x = Keep(trail, lv), y = assigns \ UndoneOf(trail, lv), z = Keep(qhead, lv)
          PROVE
            /\ x \in Seq(Seq(Lit)) /\ Len(x) = lv + 1 /\ y \in SUBSET assigns /\ y \ DeepOf(x) = Root
            /\ z \in Seq(Nat) /\ Len(z) = lv + 1
            /\ LowerDone(x, y, z, clause, watches)
            /\ (lv + 1 < Len(trail) => Watched(clause, watches, y) /\ Last(z) = Len(Last(x)))
      <3>1. SatInv /\ Complete /\ lv \in Nat /\ lv < Len(trail)
        BY <2>2
      <3>2. x \in Seq(Seq(Lit)) /\ Len(x) = lv + 1 /\ y \in SUBSET assigns
        BY <3>1, <2>3, BackDone
      <3>3. y \ DeepOf(x) = Root
        BY <3>1, <2>3, BackDone
      <3>4. z \in Seq(Nat) /\ Len(z) = lv + 1
        BY <3>1, <2>3, BackDone
      <3>5. LowerDone(x, y, z, clause, watches)
        BY <3>1, <2>3, BackDone
      <3>6. (lv + 1 < Len(trail) => Watched(clause, watches, y) /\ Last(z) = Len(Last(x)))
        BY <3>1, <2>3, BackDone
      <3> QED
        BY <3>2, <3>3, <3>4, <3>5, <3>6
    <2> QED
      BY <2>1, <2>2, <2>3
  (* Who was attended to stays so, the new watches are where the new clause is settled. *)
  <1>28. ASSUME NEW l \in Lit, l # -c0, NEW e \in watches'[l]
         PROVE  \/ e \in W0[l] /\ \A u : Attended(M1, u, e) => Attended(clause', u, e)
                \/ l = -c1 /\ (absorbed \/ stays) /\ e = IF absorbed THEN <<"bin", c0>> ELSE <<"clause", s>>
    <2>1. CASE e \in W0[l]
      <3>1. e \in watches[l] /\ ~ (e[1] = "clause" /\ e[2] \in drop)
        BY <2>1 DEF detach
      <3>2. ASSUME e[1] # "bin" PROVE clause'[e[2]] = M1[e[2]]
        <4>1. e[1] = "clause" /\ Kept(clause, rtrail, e[2])
          <5>1. e = <<"clause", e[2]>> /\ Kept(clause, rtrail, e[2])
            BY <3>1, <3>2, OnObjects
          <5> QED
            BY <5>1
        <4>2. e[2] \in DOMAIN M1
          BY <4>1, <3>1, <1>18, <1>20
        <4> QED
          BY <4>2, <1>22
      <3> QED
        BY <3>2, <2>1 DEF Attended
    <2>2. CASE e \notin W0[l]
      BY <2>2, <1>23, <1>28 DEF LearntSeen
    <2> QED
      BY <2>1, <2>2
  <1>29. LowerDone(t1, a1, Q1, clause', watches')
    <2>1. LowerDone(t1, a1, Q1, M1, W0)
      <3>1. \A u \in SUBSET a1 : Watched(clause, watches, u) => Watched(M1, W0, u)
        BY <1>21, <1>27
      <3> HIDE DEF M1, W0
      <3> QED
        BY <3>1, <1>27, LowerMemory
    <2>2. ASSUME NEW k \in 2 .. Len(t1) PROVE Watched(clause', watches', BelowOf(t1, a1, k))
      <3> DEFINE u == BelowOf(t1, a1, k)
      <3>1. u \in SUBSET a1
        BY DEF BelowOf
      <3>2. Watched(M1, W0, u)
        BY <2>1 DEF LowerDone
      <3>3. absorbed \/ stays => -c1 \notin u
        <4>1. k \in 2 .. lv + 1
          BY <1>27
        <4> QED
          BY <4>1, <1>6, <1>13
      <3> HIDE DEF u, M1, W0
      <3>4. ASSUME NEW l \in u, NEW e \in watches'[l] PROVE Attended(clause', u, e)
        <4>1. l \in Lit /\ l # -c0 /\ e \in watches'[l]
          BY <3>1, <1>8, <1>24, <1>27
        <4>2. e \in W0[l] => Attended(M1, u, e)
          BY <3>2 DEF Watched
        <4> QED
          BY <4>1, <4>2, <3>3, <1>28
      <3>5. Watched(clause', watches', u)
        BY <3>4 DEF Watched
      <3> QED
        BY <3>5 DEF u
    <2> QED
      BY <2>1, <2>2 DEF LowerDone
  <1>30. trail' = Pushed(t1, c0) /\ assigns' = a1 \cup {c0} /\ qhead' = Q1
    <2>1. trail' = [t1 EXCEPT ![Len(t1)] = Append(@, c0)]
      BY <1>1, <1>27 DEF c0, t1
    <2> QED
      BY <2>1, <1>1, <1>10 DEF Pushed, a1, c0, Q1
  <1>31. LowerDone(trail', assigns', qhead', clause', watches')
    <2>1. Len(t1) > 0 /\ \A k \in 1 .. Len(t1) - 1 : Q1[k] = Q1[k]
      BY <1>7, <1>27
    <2>2. LowerDone(Pushed(t1, c0), a1 \cup {c0}, Q1, clause', watches')
      BY <2>1, <1>7, <1>24, <1>27, <1>29, LowerPush
    <2> QED
      BY <2>2, <1>30
  <1>32. /\ Last(trail') = Append(Last(t1), c0) /\ Len(Last(t1)) \in Nat /\ Last(t1) \in Seq(Lit)
         /\ Last(qhead') = Len(Last(t1))
         /\ Len(Last(trail')) = Len(Last(t1)) + 1 /\ Last(trail')[Len(Last(t1)) + 1] = c0
    <2>1. Len(t1) > 0
      BY <1>7, <1>27
    <2>2. /\ Len(Pushed(t1, c0)) = Len(t1) /\ Pushed(t1, c0)[Len(t1)] = Append(t1[Len(t1)], c0)
      BY <2>1, <1>7, <1>27, PushShape
    <2>3. Last(t1) = t1[Len(t1)] /\ Last(t1) \in Seq(Lit) /\ Len(Last(t1)) \in Nat
      BY <2>1, <1>27, LastPlaces
    <2>4. Last(trail') = Append(Last(t1), c0)
      BY <2>2, <2>3, <1>30 DEF Last
    <2> DEFINE top == Last(t1)
    <2> HIDE DEF top
    <2>5. top \in Seq(Lit) => Len(Append(top, c0)) = Len(top) + 1 /\ Append(top, c0)[Len(top) + 1] = c0
      BY <1>7
    <2> QED
      BY <2>3, <2>4, <2>5, <1>27, <1>30 DEF top
  <1>33. ASSUME NEW l \in assigns', NEW e \in watches'[l] PROVE Attended(clause', assigns', e) \/ Waits(l, e)'
    <2>1. CASE l = c0
      <3> DEFINE m == Len(Last(t1))
      <3>1. m \in Nat /\ Last(qhead') = m /\ Len(Last(trail')) = m + 1 /\ Last(trail')[m + 1] = c0
        BY <1>32
      <3> HIDE DEF m
      <3>2. m + 1 \in Last(qhead') + 1 .. Len(Last(trail'))
        BY <3>1
      <3> QED
        BY <2>1, <3>1, <3>2 DEF Waits
    <2>2. CASE l # c0
      <3>1. l \in a1 /\ l \in Lit /\ l # -c0
        BY <2>2, <1>8, <1>24, <1>27, <1>30
      <3>2. Watched(M1, W0, a1)
        BY <1>21, <1>27
      <3>3. e \in W0[l] => Attended(M1, a1, e)
        BY <3>1, <3>2 DEF Watched
      <3>4. CASE Attended(clause', a1, e)
        BY <3>4, <1>30 DEF Attended
      <3>5. CASE e = IF absorbed THEN <<"bin", c0>> ELSE <<"clause", s>>
        <4>1. clause'[s].c0 = c0 /\ c0 \in assigns'
          BY <1>17, <1>22, <1>30
        <4> HIDE DEF c
        <4> QED
          BY <4>1, <3>5 DEF Attended
      <3> QED
        BY <3>1, <3>3, <3>4, <3>5, <1>28
    <2> QED
      BY <2>1, <2>2
  <1>34. ProblemHeld(assigns' \ DeepOf(trail'), clause', watches', loaded')
    <2>1. ProblemHeld(Root, clause, watches, loaded)
      BY <1>1, CompleteNow DEF Root, Deep
    <2>2. ProblemHeld(Root, M1, W0, loaded)
      BY <2>1, <1>21
    <2>3. Root \subseteq assigns' \ DeepOf(trail')
      <3>1. Len(t1) > 0
        BY <1>7, <1>27
      <3>2. a1 \ DeepOf(t1) \subseteq (a1 \cup {c0}) \ DeepOf(Pushed(t1, c0))
        BY <3>1, <1>7, <1>24, <1>27, RootPush
      <3> QED
        BY <3>2, <1>27, <1>30
    <2>4. ProblemHeld(Root, clause', watches', loaded)
      BY <2>2, <1>26
    <2>5. \A l \in Lit : \A e \in watches'[l] : e[1] = "bin" => e \in watches'[l]
      OBVIOUS
    <2>6. \A i \in DOMAIN clause' : ~ clause'[i].temp /\ ~ clause'[i].learnt =>
            i \in DOMAIN clause' /\ ~ clause'[i].temp /\ ~ clause'[i].learnt /\ Lits(clause'[i]) \subseteq Lits(clause'[i])
      OBVIOUS
    <2>7. ProblemHeld(assigns' \ DeepOf(trail'), clause', watches', loaded)
      BY <2>3, <2>4, <2>5, <2>6, HeldStays
    <2> QED
      BY <2>7, <1>1
  <1>35. Last(qhead') <= Len(Last(trail')) /\ todo' = {} /\ found' \subseteq Solutions
    <2>1. Last(qhead') <= Len(Last(trail'))
      BY <1>32
    <2> QED
      BY <2>1, <1>1, <1>9, CompleteNow
  <1> QED
    BY <1>26, <1>31, <1>33, <1>34, <1>35, CompleteNext

-----------------------------------------------------------------------------
(* All steps. *)

LEMMA OthersComplete ==
  ASSUME SatInv, Complete, given' = given,
         startSearch \/ resolve \/ explainUnlearnable \/ UNCHANGED vars
  PROVE  Complete'
  <1>1. CASE startSearch
    <2>1. /\ pc = "load" /\ pc' = "propagate" /\ UNCHANGED <<db, assigns, trail, qhead, found>>
          /\ UNCHANGED <<confl, todo>>
      BY <1>1 DEF startSearch, stack
    <2> QED
      BY <2>1, SameCompletes DEF Active
  <1>2. CASE resolve
    <2>1. pc = "resolve" /\ pc' = "select" /\ UNCHANGED <<db, assigns, trail, qhead, found>>
      BY <1>2 DEF resolve, stack
    <2> QED
      BY <2>1, SameCompletes DEF Active
  <1>3. CASE explainUnlearnable
    <2>1. pc = "learn" /\ pc' = pc /\ UNCHANGED <<db, assigns, trail, qhead, found>>
      BY <1>3 DEF explainUnlearnable, stack
    <2> QED
      BY <2>1, SameCompletes DEF Active
  <1>4. CASE UNCHANGED vars
    <2>1. UNCHANGED <<pc, confl, todo>> /\ UNCHANGED <<db, assigns, trail, qhead, found>>
      BY <1>4 DEF vars, stack
    <2> QED
      BY <2>1, SameCompletes DEF Active
  <1> QED
    BY <1>1, <1>2, <1>3, <1>4

(* Only addClause counts, and only a problem that is there is searched. *)
LEMMA StaysLoaded ==
  ASSUME Loaded, [Next]_vars
  PROVE  Loaded'
  <1>1. given' = given
    BY DEF Next, vars
  <1>2. Problem' = Problem
    BY <1>1 DEF Problem
  <1>3. CASE addClause
    <2>1. pc = "load" /\ (pc' = pc \/ pc' = "GUN")
      BY <1>3 DEF addClause
    <2> QED
      BY <2>1 DEF Loaded
  <1>4. CASE startSearch
    <2>1. loaded = Len(Problem) /\ loaded' = loaded
      BY <1>4 DEF startSearch, db
    <2> QED
      BY <2>1, <1>2 DEF Loaded
  <1>5. CASE propagate \/ search \/ analyze \/ returned \/ UNCHANGED vars
    <2>1. loaded' = loaded
      <3>1. CASE propagate
        BY <3>1 DEF propagate, nextLiteral, absorbedBinary, watchedClause, infer, reject, db
      <3>2. CASE search
        BY <3>2 DEF search, restart, topLevelCleanUp, decide, solution, db
      <3>3. CASE analyze
        BY <3>3 DEF analyze, conflict, resolve, select, explainUnlearnable, backjump, db
      <3>4. CASE returned \/ UNCHANGED vars
        BY <3>4 DEF returned, vars, db
      <3> QED
        BY <1>5, <3>1, <3>2, <3>3, <3>4
    <2>2. pc' \notin {"load", "GUN"} => pc \notin {"load", "GUN"}
      <3>1. CASE propagate
        <4>1. Propagating
          BY <3>1 DEF propagate, nextLiteral, absorbedBinary, watchedClause, infer, reject
        <4> QED
          BY <4>1 DEF Propagating
      <3>2. CASE search
        <4>1. pc \in {"propagate", "branch"}
          BY <3>2 DEF search, restart, topLevelCleanUp, decide, solution, Ready, PropagateTrue, Propagating
        <4> QED
          BY <4>1
      <3>3. CASE analyze
        <4>1. pc \in {"propagate", "resolve", "select", "learn"}
          BY <3>3 DEF analyze, conflict, resolve, select, explainUnlearnable, backjump
        <4> QED
          BY <4>1
      <3>4. CASE returned \/ UNCHANGED vars
        BY <3>4 DEF returned, vars
      <3> QED
        BY <1>5, <3>1, <3>2, <3>3, <3>4
    <2> QED
      BY <2>1, <2>2, <1>2 DEF Loaded
  <1> QED
    BY <1>3, <1>4, <1>5 DEF Next

LEMMA NextCompletes ==
  ASSUME SatInv, Complete, Loaded, [Next]_vars
  PROVE  Complete'
  <1>1. CASE UNCHANGED vars
    <2>1. given' = given
      BY <1>1 DEF vars
    <2> QED
      BY <1>1, <2>1, OthersComplete
  <1>2. CASE Next
    <2>1. given' = given
      BY <1>2 DEF Next
    <2>2. CASE addClause \/ startSearch
      BY <2>1, <2>2, addClauseCompletes, OthersComplete
    <2>3. CASE propagate
      BY <2>1, <2>3, nextLiteralCompletes, absorbedBinaryCompletes, watchedClauseCompletes, inferCompletes,
         rejectCompletes DEF propagate
    <2>4. CASE search
      BY <2>1, <2>4, restartCompletes, topLevelCleanUpCompletes, decideCompletes, solutionCompletes DEF search
    <2>5. CASE analyze
      BY <2>1, <2>5, conflictCompletes, selectCompletes, backjumpCompletes, OthersComplete DEF analyze
    <2>6. CASE returned
      BY <2>1, <2>6, OthersComplete DEF returned
    <2> QED
      BY <1>2, <2>2, <2>3, <2>4, <2>5, <2>6 DEF Next
  <1> QED
    BY <1>1, <1>2

(* The store, the watches and the queue of propagation lose nothing that the  *)
(* search has to look at.                                                    *)
THEOREM CompleteInvariance == Spec => [](SatInv /\ Complete /\ Loaded)
  <1>1. Init => SatInv /\ Complete /\ Loaded
    <2>1. Init => Loaded
      BY DEF Init, Loaded
    <2> QED
      BY <2>1, InitRight, InitCompletes
  <1>2. SatInv /\ Complete /\ Loaded /\ [Next]_vars => (SatInv /\ Complete /\ Loaded)'
    BY NextKeeps, NextCompletes, StaysLoaded
  <1> QED
    BY <1>1, <1>2, PTL DEF Spec

-----------------------------------------------------------------------------
(* What follows. *)

LEMMA TwoOfMany ==
  ASSUME NEW S, IsFiniteSet(S), NEW x \in S
  PROVE  Cardinality(S) >= 1 /\ \A y \in S : x # y => Cardinality(S) >= 2
  <1>1. Cardinality({x}) = 1 /\ IsFiniteSet({x})
    BY FS_Singleton
  <1>2. Cardinality({x}) <= Cardinality(S) /\ Cardinality(S) \in Nat
    <2>1. {x} \subseteq S
      OBVIOUS
    <2> QED
      BY <2>1, FS_Subset, FS_CardinalityType
  <1>3. ASSUME NEW y \in S, x # y PROVE Cardinality(S) >= 2
    <2>1. Cardinality({x} \cup {y}) = 2 /\ IsFiniteSet({x} \cup {y})
      <3> DEFINE T == {x}
      <3>1. y \notin T /\ IsFiniteSet(T) /\ Cardinality(T) = 1
        BY <1>1, <1>3
      <3> HIDE DEF T
      <3>2. IsFiniteSet(T \cup {y}) /\ (Cardinality(T \cup {y}) = Cardinality(T) \/ Cardinality(T \cup {y}) = Cardinality(T) + 1)
            /\ (Cardinality(T \cup {y}) = Cardinality(T) <=> y \in T)
        BY <3>1, FS_AddElement
      <3> QED
        BY <3>1, <3>2 DEF T
    <2>2. {x} \cup {y} \subseteq S
      OBVIOUS
    <2>3. Cardinality({x} \cup {y}) <= Cardinality(S)
      BY <2>2, FS_Subset
    <2> QED
      BY <2>1, <2>3, <1>2
  <1> QED
    BY <1>1, <1>2, <1>3

(* When the search branches no clause of the problem is false or unit, no     *)
(* learnt clause is false (nor unit, with both its literals watched), and no  *)
(* absorbed binary clause still has something to imply.                      *)
THEOREM PropagationIsComplete == Spec => []NothingMissed
  <1>1. ASSUME SatInv, Complete, Loaded PROVE NothingMissed
    <2> SUFFICES ASSUME Ready PROVE NothingMissed
      BY DEF NothingMissed
    <2>1. Watched(clause, watches, assigns)
      BY <1>1, ReadyWatched
    <2>2. given \in DOMAIN Runs /\ assigns \in SUBSET Lit
      BY <1>1, TopPlaces
    <2>3. ASSUME NEW l \in assigns, NEW e \in watches[l], e[1] = "bin" PROVE isTrue(e[2])
      BY <2>1, <2>3 DEF Watched, Attended, isTrue
    <2>4. ASSUME NEW i \in DOMAIN clause, Counts(clause, learnts, i), ~ \E l \in Lits(clause[i]) : isTrue(l),
                 NEW open, open = {l \in Lits(clause[i]) : ~ isFalse(l)}
          PROVE  Cardinality(open) >= IF clause[i].learnt /\ one_watch THEN 1 ELSE 2
      <3> DEFINE c == clause[i]
      <3>1. OnWatch(watches, c, i)
        BY <1>1, <2>4, CompleteNow DEF StoreComplete
      <3>2. c.c0 \in Lit /\ c.c1 \in Lit /\ c.c0 \in Lits(c) /\ c.c1 \in Lits(c) /\ c.c0 # c.c1
        BY <3>1, <2>2, LitFacts DEF OnWatch, Lits
      <3>3. ASSUME NEW l \in assigns PROVE <<"clause", i>> \notin watches[l]
        <4> SUFFICES ASSUME <<"clause", i>> \in watches[l] PROVE FALSE
          OBVIOUS
        <4>1. Attended(clause, assigns, <<"clause", i>>)
          BY <2>1 DEF Watched
        <4>2. {c.c0, c.c1} \cap assigns # {}
          BY <4>1 DEF Attended
        <4> QED
          BY <4>2, <3>2, <2>4 DEF isTrue
      <3>4. c.c1 \in open /\ (~ (c.learnt /\ one_watch) => c.c0 \in open)
        BY <3>1, <3>2, <3>3, <2>4 DEF OnWatch, isFalse
      <3>5. IsFiniteSet(open)
        <4>1. clause[i] \in ClauseObject
          BY <1>1, SatParts DEF Typed
        <4>2. open \subseteq Lit
          BY <4>1, <2>4 DEF ClauseObject, Lits
        <4> QED
          BY <4>2, <2>2, LitFinite, FS_Subset
      <3>6. /\ Cardinality(open) >= 1
            /\ ~ (c.learnt /\ one_watch) => Cardinality(open) >= 2
        BY <3>2, <3>4, <3>5, TwoOfMany
      <3> QED
        BY <3>6
    <2> QED
      BY <2>3, <2>4 DEF NothingMissed, Counts
  <1> QED
    BY <1>1, CompleteInvariance, PTL

(* Whatever finds the problem unsatisfiable finds it when all is printed. *)
LEMMA Exhausts ==
  ASSUME SatInv, Complete, SatInv', given' = given, UNCHANGED <<found, solutions>>,
         pc \notin {"SAT", "GUN"}, pc' = "GUN"
  PROVE  E!ENext
  <1>1. Remaining' = {}
    BY SatParts DEF SatInv, Phases
  <1>2. Solutions' = Solutions /\ Models' = Models /\ Shown' = Shown /\ nof_solutions' = nof_solutions
    BY DEF Solutions, Models, Shown, Show, nof_solutions
  <1>3. Solutions \subseteq found
    <2>1. ASSUME NEW m \in Models PROVE Show(m) \in found
      <3>1. Show(m)' = Show(m)
        BY <1>2 DEF Show
      <3> QED
        BY <3>1, <1>1, <1>2 DEF Remaining
    <2> QED
      BY <2>1 DEF Solutions
  <1>4. found \subseteq Solutions
    BY CompleteNow
  <1>5. answer = "running" /\ answer' = "GUN"
    BY DEF answer
  <1> QED
    BY <1>2, <1>3, <1>4, <1>5 DEF E!ENext, E!Exhaust

LEMMA FindsOne ==
  ASSUME SatInv, Complete, Loaded, solution, given' = given
  PROVE  E!ENext
  <1>1. /\ Ready /\ AllFixed /\ found' = found \cup {Show(assigns)}
        /\ solutions' = IF nof_solutions > 0 THEN solutions + 1 ELSE 0
        /\ \/ nof_solutions > 0 /\ solutions' = nof_solutions /\ pc' = "SAT"
           \/ (nof_solutions > 0 => solutions' # nof_solutions) /\ pc' = "propagate"
    BY DEF solution
  <1>2. pc \in {"branch", "propagate"}
    BY <1>1, ReadyFacts
  <1>3. Show(assigns) \in Solutions
    BY <1>1, SolutionIsOne
  <1>4. Solutions' = Solutions /\ nof_solutions' = nof_solutions
    BY SameRun DEF nof_solutions
  <1>5. /\ answer = "running"
        /\ answer' = IF nof_solutions > 0 /\ solutions' = nof_solutions THEN "SAT" ELSE "running"
    BY <1>1, <1>2 DEF answer
  <1> QED
    BY <1>1, <1>3, <1>4, <1>5 DEF E!ENext, E!Find

LEMMA RunsOn ==
  ASSUME given' = given, UNCHANGED <<found, solutions>>, {pc, pc'} \cap {"SAT", "GUN"} = {}
  PROVE  UNCHANGED <<Solutions, nof_solutions, found, solutions, answer>>
  BY SameRun DEF nof_solutions, answer

LEMMA StepEnumerates ==
  ASSUME SatInv, Complete, Loaded, SatInv', [Next]_vars
  PROVE  [E!ENext]_<<Solutions, nof_solutions, found, solutions, answer>>
  <1>1. given' = given
    BY DEF Next, vars
  <1>2. CASE addClause
    <2>1. pc = "load" /\ (pc' = pc \/ pc' = "GUN") /\ UNCHANGED <<found, solutions>>
      BY <1>2 DEF addClause
    <2> QED
      BY <2>1, <1>1, Exhausts, RunsOn
  <1>3. CASE startSearch
    <2>1. pc = "load" /\ pc' = "propagate" /\ UNCHANGED <<found, solutions>>
      BY <1>3 DEF startSearch
    <2> QED
      BY <2>1, <1>1, RunsOn
  <1>4. CASE propagate
    <2>1. pc = "propagate" /\ pc' = pc /\ UNCHANGED <<found, solutions>>
      BY <1>4 DEF propagate, nextLiteral, absorbedBinary, watchedClause, infer, reject, Propagating
    <2> QED
      BY <2>1, <1>1, RunsOn
  <1>5. CASE solution
    BY <1>1, <1>5, FindsOne
  <1>6. CASE restart \/ topLevelCleanUp \/ decide
    <2>1. /\ pc \in {"propagate", "branch"} /\ pc' \in {"propagate", "branch"}
          /\ UNCHANGED <<found, solutions>>
      BY <1>6 DEF restart, topLevelCleanUp, decide, Ready, PropagateTrue, Propagating
    <2> QED
      BY <2>1, <1>1, RunsOn
  <1>7. CASE conflict
    <2>1. pc = "propagate" /\ pc' \in {"GUN", "resolve"} /\ UNCHANGED <<found, solutions>>
      BY <1>7 DEF conflict
    <2> QED
      BY <2>1, <1>1, Exhausts, RunsOn
  <1>8. CASE resolve \/ select \/ explainUnlearnable \/ backjump
    <2>1. /\ pc \in {"resolve", "select", "learn"} /\ pc' \in {"propagate", "resolve", "select", "learn"}
          /\ UNCHANGED <<found, solutions>>
      BY <1>8 DEF resolve, select, explainUnlearnable, backjump
    <2> QED
      BY <2>1, <1>1, RunsOn
  <1>9. CASE returned \/ UNCHANGED vars
    <2>1. UNCHANGED <<pc, found, solutions>>
      BY <1>9 DEF returned, vars
    <2> QED
      BY <2>1, <1>1, SameRun DEF nof_solutions, answer
  <1> QED
    BY <1>2, <1>3, <1>4, <1>5, <1>6, <1>7, <1>8, <1>9 DEF Next, search, analyze

(* All that is printed are solutions, and the search stops with as many as    *)
(* were asked for or when there is no other: it implements Enumeration.      *)
THEOREM SearchEnumerates == Spec => EnumeratesSolutions
  <1>1. Init => E!EInit
    BY DEF Init, E!EInit, answer
  <1>2. SatInv /\ Complete /\ Loaded /\ SatInv' /\ [Next]_vars
          => [E!ENext]_<<Solutions, nof_solutions, found, solutions, answer>>
    BY StepEnumerates
  <1> QED
    BY <1>1, <1>2, CompleteInvariance, PTL DEF Spec, EnumeratesSolutions, E!ESpec

=============================================================================
