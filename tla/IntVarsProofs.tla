---------------------------- MODULE IntVarsProofs ----------------------------
(* Proofs about the three representations of an integer variable: what each  *)
(* keeps, and that all of them keep the promises of class IntVar.             *)
EXTENDS IntVars, SequenceTheorems, NaturalFacts

EP == INSTANCE IntVarELProofs WITH lit_min <- lowest, lit_max <- highest
SP == INSTANCE IntVarELProofs WITH lit_min <- 0, lit_max <- Len(values) - 1
LP == INSTANCE IntVarLLProofs WITH min0 <- lowest, max0 <- highest

LEMMA EPBounds == EP!BoundsRight
  BY BoundsAssumption, LevelAssumption DEF EP!BoundsRight

LEMMA SPBounds == SP!BoundsRight
  BY ValuesAssumption, LevelAssumption DEF SP!BoundsRight

LEMMA LPBounds == LP!BoundsRight
  BY BoundsAssumption, LevelAssumption DEF LP!BoundsRight

-----------------------------------------------------------------------------
(* The sparse representation: places and values.                             *)

LEMMA Places ==
  /\ Len(values) \in Nat /\ Len(values) > 0 /\ SL!Place = 0 .. Len(values) - 1 /\ SP!Value = SL!Place
  /\ \A i \in SL!Place : i \in Int /\ SL!valueAt(i) \in Int /\ SL!valueAt(i) \in SL!Value /\ SL!valueAt(i) = values[i + 1]
  /\ \A i, j \in SL!Place : (i < j <=> SL!valueAt(i) < SL!valueAt(j)) /\ (i = j <=> SL!valueAt(i) = SL!valueAt(j))
  <1>1. Len(values) \in Nat /\ Len(values) > 0 /\ SL!Place = 0 .. Len(values) - 1 /\ SP!Value = SL!Place
    BY ValuesAssumption DEF SL!Place, SP!Value
  <1>2. \A i \in SL!Place : i \in Int /\ SL!valueAt(i) \in Int /\ SL!valueAt(i) \in SL!Value /\ SL!valueAt(i) = values[i + 1]
                            /\ i + 1 \in DOMAIN values
    BY <1>1, ValuesAssumption DEF SL!Value, SL!valueAt
  <1>3. ASSUME NEW i \in SL!Place, NEW j \in SL!Place, i < j PROVE SL!valueAt(i) < SL!valueAt(j)
    <2>1. i + 1 < j + 1
      BY <1>2, <1>3
    <2> QED
      BY <1>2, <2>1, ValuesAssumption
  <1>4. ASSUME NEW i \in SL!Place, NEW j \in SL!Place
        PROVE  (i < j <=> SL!valueAt(i) < SL!valueAt(j)) /\ (i = j <=> SL!valueAt(i) = SL!valueAt(j))
    BY <1>2, <1>3
  <1> QED
    BY <1>1, <1>2, <1>4

(* The place where a value is or would be. *)
LEMMA Below ==
  ASSUME NEW v \in Int
  PROVE  SL!below(v) \in 0 .. Len(values) /\ \A k \in SL!Place : SL!valueAt(k) < v <=> k < SL!below(v)
  <1> DEFINE n == Len(values)
             S == {k \in 0 .. n : k = n \/ (k \in SL!Place /\ SL!valueAt(k) >= v)}
  <1>1. n \in S /\ S \in SUBSET Nat
    BY Places
  <1>2. PICK i \in S : \A j \in S : i <= j
    <2> HIDE DEF S
    <2> QED
      BY <1>1, Least
  <1>3. ASSUME NEW k \in SL!Place PROVE SL!valueAt(k) < v <=> k < i
    <2>1. CASE k < i
      <3>1. k \notin S
        BY <1>2, <2>1, Places
      <3> QED
        BY <2>1, <3>1, Places
    <2>2. CASE ~ (k < i)
      <3>1. i \in SL!Place /\ SL!valueAt(i) >= v
        BY <1>2, <2>2, Places
      <3>2. SL!valueAt(i) <= SL!valueAt(k)
        BY <2>2, <3>1, Places
      <3> QED
        BY <2>2, <3>1, <3>2, Places
    <2> QED
      BY <2>1, <2>2
  <1>4. i \in 0 .. Len(values) /\ \A k \in SL!Place : SL!valueAt(k) < v <=> k < i
    BY <1>2, <1>3
  <1> QED
    BY <1>4, Zenon DEF SL!below

LEMMA Found ==
  ASSUME NEW v \in Int, NEW mode \in {"UP", "DOWN", "NONE"}
  PROVE  /\ v \in SL!Value => /\ SL!find_index(v, mode) = SL!below(v) /\ SL!below(v) \in SL!Place
                              /\ SL!valueAt(SL!below(v)) = v
         /\ v \notin SL!Value => SL!find_index(v, mode) = (CASE mode = "UP"   -> SL!below(v)
                                                             [] mode = "DOWN" -> SL!below(v) - 1
                                                             [] mode = "NONE" -> -1)
  <1>1. ASSUME v \in SL!Value PROVE SL!below(v) \in SL!Place /\ SL!valueAt(SL!below(v)) = v
    <2>1. PICK i \in SL!Place : v = SL!valueAt(i)
      BY <1>1 DEF SL!Value
    <2>2. ~ (i < SL!below(v)) /\ \A k \in SL!Place : k < i => k < SL!below(v)
      <3>1. \A k \in SL!Place : k < i => SL!valueAt(k) < v
        BY <2>1, Places
      <3> QED
        BY <2>1, <3>1, Below, Places
    <2>3. SL!below(v) = i
      <3>1. SL!below(v) \in 0 .. Len(values) /\ SL!below(v) <= i
        BY <2>2, Below, Places
      <3>2. SL!below(v) \in SL!Place
        BY <3>1, Places
      <3> QED
        BY <2>2, <3>1, <3>2, Places
    <2> QED
      BY <2>1, <2>3
  <1> QED
    BY <1>1 DEF SL!find_index

-----------------------------------------------------------------------------
(* The operators of the instances that the proofs are about are those of the *)
(* instances that the specification is made of.                              *)

LEMMA SameSparse ==
  /\ \A v : SL!el!Constant(v) = SP!Constant(v) /\ SL!el!NE(v) = SP!NE(v)
  /\ \A v, rel : SL!el!getLit(v, rel) = SP!getLit(v, rel)
  /\ \A l : (SL!el!isTrue(l) <=> SP!isTrue(l)) /\ (SL!el!isFalse(l) <=> SP!isFalse(l)) /\ (SL!el!fail(l) <=> SP!fail(l))
  /\ SL!el!dom = SP!dom /\ SL!el!Lit = SP!Lit
  /\ \A v : /\ (SL!el!setMin(v) <=> SP!setMin(v)) /\ (SL!el!setMax(v) <=> SP!setMax(v))
            /\ (SL!el!setVal(v) <=> SP!setVal(v)) /\ (SL!el!remVal(v) <=> SP!remVal(v))
            /\ (SL!el!channel(v) <=> SP!channel(v)) /\ (SL!el!btToLevel(v) <=> SP!btToLevel(v))
  /\ (SL!el!wakePropagators <=> SP!wakePropagators) /\ (SL!el!newDecisionLevel <=> SP!newDecisionLevel)
  /\ (SL!el!unsatisfiable <=> SP!unsatisfiable) /\ (SL!el!Init <=> SP!Init)
  /\ (SL!el!LiteralsAgree <=> SP!LiteralsAgree) /\ (SL!el!EnqueuedRightly <=> SP!EnqueuedRightly)
  <1> USE DEF SL!el!Value, SP!Value, SL!el!dom, SP!dom, SL!el!GE, SP!GE, SL!el!LE, SP!LE, SL!el!EQ, SP!EQ,
             SL!el!NE, SP!NE, SL!el!Constant, SP!Constant, SL!el!neg, SP!neg, SL!el!BoundLits, SP!BoundLits,
             SL!el!ValueLits, SP!ValueLits, SL!el!Lit, SP!Lit, SL!el!getLit, SP!getLit, SL!el!Given, SP!Given,
             SL!el!entry, SP!entry, SL!el!assigns, SP!assigns, SL!el!isTrue, SP!isTrue, SL!el!isFalse,
             SP!isFalse, SL!el!isUndef, SP!isUndef, SL!el!nextIn, SP!nextIn, SL!el!prevIn, SP!prevIn,
             SL!el!passed, SP!passed, SL!el!channelMin, SP!channelMin, SL!el!channelMax, SP!channelMax,
             SL!el!updateMin, SP!updateMin, SL!el!updateMax, SP!updateMax, SL!el!updateFixed, SP!updateFixed,
             SL!el!events, SP!events, SL!el!fail, SP!fail, SL!el!tell, SP!tell, SL!el!raiseMin, SP!raiseMin,
             SL!el!lowerMax, SP!lowerMax, SL!el!fix, SP!fix, SL!el!remove, SP!remove, SL!el!FlattenSeq,
             SP!FlattenSeq
  <1>1. /\ \A v : SL!el!Constant(v) = SP!Constant(v) /\ SL!el!NE(v) = SP!NE(v)
        /\ \A v, rel : SL!el!getLit(v, rel) = SP!getLit(v, rel)
        /\ \A l : (SL!el!isTrue(l) <=> SP!isTrue(l)) /\ (SL!el!isFalse(l) <=> SP!isFalse(l)) /\ (SL!el!fail(l) <=> SP!fail(l))
        /\ SL!el!dom = SP!dom /\ SL!el!Lit = SP!Lit
    OBVIOUS
  <1>2. \A v : (SL!el!setMin(v) <=> SP!setMin(v)) /\ (SL!el!setMax(v) <=> SP!setMax(v))
    BY DEF SL!el!setMin, SP!setMin, SL!el!setMax, SP!setMax
  <1>3. \A v : (SL!el!setVal(v) <=> SP!setVal(v)) /\ (SL!el!remVal(v) <=> SP!remVal(v))
    BY DEF SL!el!setVal, SP!setVal, SL!el!remVal, SP!remVal
  <1>4. \A v : (SL!el!channel(v) <=> SP!channel(v)) /\ (SL!el!btToLevel(v) <=> SP!btToLevel(v))
    BY DEF SL!el!channel, SP!channel, SL!el!btToLevel, SP!btToLevel
  <1>5. (SL!el!wakePropagators <=> SP!wakePropagators) /\ (SL!el!newDecisionLevel <=> SP!newDecisionLevel)
    BY DEF SL!el!wakePropagators, SP!wakePropagators, SL!el!newDecisionLevel, SP!newDecisionLevel
  <1>6. (SL!el!unsatisfiable <=> SP!unsatisfiable) /\ (SL!el!Init <=> SP!Init)
    BY DEF SL!el!unsatisfiable, SP!unsatisfiable, SL!el!vars, SP!vars, SL!el!Init, SP!Init
  <1>7. (SL!el!LiteralsAgree <=> SP!LiteralsAgree) /\ (SL!el!EnqueuedRightly <=> SP!EnqueuedRightly)
    BY DEF SL!el!LiteralsAgree, SP!LiteralsAgree, SL!el!TypeOK, SP!TypeOK, SL!el!Clause, SP!Clause, SL!el!Says, SP!Says,
           SL!el!EnqueuedRightly, SP!EnqueuedRightly
  <1> QED
    BY <1>1, <1>2, <1>3, <1>4, <1>5, <1>6, <1>7

LEMMA SameEager ==
  /\ EL!dom = EP!dom /\ (EL!Init <=> EP!Init) /\ (EL!Next <=> EP!Next)
  /\ (EL!LiteralsAgree <=> EP!LiteralsAgree) /\ (EL!EnqueuedRightly <=> EP!EnqueuedRightly)
  <1> USE DEF EL!Value, EP!Value, EL!dom, EP!dom, EL!GE, EP!GE, EL!LE, EP!LE, EL!EQ, EP!EQ, EL!NE, EP!NE,
             EL!Constant, EP!Constant, EL!neg, EP!neg, EL!BoundLits, EP!BoundLits, EL!ValueLits, EP!ValueLits,
             EL!Lit, EP!Lit, EL!getLit, EP!getLit, EL!Given, EP!Given, EL!entry, EP!entry, EL!assigns,
             EP!assigns, EL!isTrue, EP!isTrue, EL!isFalse, EP!isFalse, EL!isUndef, EP!isUndef, EL!nextIn,
             EP!nextIn, EL!prevIn, EP!prevIn, EL!passed, EP!passed, EL!channelMin, EP!channelMin,
             EL!channelMax, EP!channelMax, EL!updateMin, EP!updateMin, EL!updateMax, EP!updateMax,
             EL!updateFixed, EP!updateFixed, EL!events, EP!events, EL!fail, EP!fail, EL!tell, EP!tell,
             EL!raiseMin, EP!raiseMin, EL!lowerMax, EP!lowerMax, EL!fix, EP!fix, EL!remove, EP!remove,
             EL!FlattenSeq, EP!FlattenSeq
  <1>1. EL!dom = EP!dom /\ (EL!Init <=> EP!Init)
    BY DEF EL!Init, EP!Init
  <1>2. EL!Next <=> EP!Next
    BY DEF EL!Next, EP!Next, EL!setMin, EP!setMin, EL!setMax, EP!setMax, EL!setVal, EP!setVal, EL!remVal, EP!remVal,
           EL!channel, EP!channel, EL!wakePropagators, EP!wakePropagators, EL!newDecisionLevel, EP!newDecisionLevel,
           EL!btToLevel, EP!btToLevel, EL!unsatisfiable, EP!unsatisfiable, EL!vars, EP!vars
  <1>3. (EL!LiteralsAgree <=> EP!LiteralsAgree) /\ (EL!EnqueuedRightly <=> EP!EnqueuedRightly)
    BY DEF EL!LiteralsAgree, EP!LiteralsAgree, EL!TypeOK, EP!TypeOK, EL!Clause, EP!Clause, EL!Says, EP!Says,
           EL!EnqueuedRightly, EP!EnqueuedRightly
  <1> QED
    BY <1>1, <1>2, <1>3

-----------------------------------------------------------------------------
(* What a step may do to the domain, whatever the representation.            *)

StepFails == confl = {} /\ confl' # {} /\ UNCHANGED <<getMin, getMax, dom, earlier>>
StepCuts ==
  /\ confl = {} /\ confl' = {} /\ UNCHANGED earlier
  /\ \E A \in D!Conditions : dom' = dom \cap A
  /\ dom' # {}
  /\ "C" \in told' /\ in_queue'
  /\ getMin' # getMin => "L" \in told'
  /\ getMax' # getMax => "U" \in told'
  /\ getMin' = getMax' => "F" \in told'
StepRests == UNCHANGED <<getMin, getMax, dom, earlier, confl>>
StepOpens == confl = {} /\ UNCHANGED <<getMin, getMax, dom, confl>> /\ earlier' = Append(earlier, dom)
StepReturns ==
  /\ Len(past') < Len(past) /\ confl' = {}
  /\ \E l \in 0 .. Len(earlier) - 1 : dom' = earlier[l + 1] /\ earlier' = SubSeq(earlier, 1, l)

Promised == StepFails \/ StepCuts \/ StepRests \/ StepOpens \/ StepReturns

LEMMA PromisedTold ==
  ASSUME Promised, Len(past) \in Nat, Len(past') \in Nat, Len(past') >= Len(past)
  PROVE  /\ getMin' # getMin => "L" \in told'
         /\ getMax' # getMax => "U" \in told'
         /\ dom' # dom => "C" \in told' /\ in_queue'
         /\ getMin' = getMax' /\ getMin # getMax => "F" \in told'
  <1>1. ~ StepReturns
    BY DEF StepReturns
  <1> QED
    BY <1>1 DEF Promised, StepFails, StepCuts, StepRests, StepOpens

LEMMA PromisedNarrows ==
  ASSUME Promised
  PROVE  [D!DNext]_<<dom, earlier, confl # {}>>
  <1>1. ASSUME StepFails PROVE D!Impose
    <2>1. {} \in D!Conditions /\ dom \cap {} = {} /\ (confl' # {}) = TRUE
      BY <1>1 DEF D!Conditions, StepFails
    <2> QED
      BY <1>1, <2>1 DEF D!Impose, StepFails
  <1>2. ASSUME StepCuts PROVE D!Impose
    <2>1. PICK A \in D!Conditions : dom' = dom \cap A
      BY <1>2 DEF StepCuts
    <2>2. dom \cap A # {} /\ (confl' # {}) = (confl # {})
      BY <1>2, <2>1 DEF StepCuts
    <2> QED
      BY <1>2, <2>1, <2>2 DEF D!Impose, StepCuts
  <1>3. ASSUME StepRests PROVE UNCHANGED <<dom, earlier, confl # {}>>
    <2>1. (confl' # {}) = (confl # {})
      BY <1>3 DEF StepRests
    <2> QED
      BY <1>3, <2>1 DEF StepRests
  <1>4. ASSUME StepOpens PROVE D!OpenLevel
    <2>1. (confl' # {}) = (confl # {})
      BY <1>4 DEF StepOpens
    <2> QED
      BY <1>4, <2>1 DEF StepOpens, D!OpenLevel
  <1>5. ASSUME StepReturns PROVE \E l \in 0 .. Len(earlier) - 1 : D!GoBack(l)
    <2>1. (confl' # {}) = FALSE
      BY <1>5 DEF StepReturns
    <2> QED
      BY <1>5, <2>1 DEF StepReturns, D!GoBack
  <1> QED
    BY <1>1, <1>2, <1>3, <1>4, <1>5 DEF Promised, D!DNext

LEMMA FunctionSeq ==
  ASSUME NEW m \in Nat, NEW X, NEW g \in [1 .. m -> X]
  PROVE  g \in Seq(X)
  BY SeqDef, Zenon

(* The domains of the open levels, as a sequence. *)
OnFirst(e, n) == e = [k \in 1 .. n |-> e[k]]

LEMMA EarlierAppend ==
  ASSUME NEW e, NEW n \in Nat, OnFirst(e, n), NEW f, OnFirst(f, n + 1), \A k \in 1 .. n : f[k] = e[k]
  PROVE  f = Append(e, f[n + 1])
  <1> DEFINE X == {f[k] : k \in 1 .. n + 1}
             d == f[n + 1]
  <1>1. e \in [1 .. n -> X] /\ f \in [1 .. n + 1 -> X] /\ d \in X
    <2>1. \A k \in 1 .. n : k \in 1 .. n + 1
      OBVIOUS
    <2>2. DOMAIN e = 1 .. n /\ DOMAIN f = 1 .. n + 1
      BY Zenon DEF OnFirst
    <2>3. \A k \in 1 .. n : e[k] \in X
      BY <2>1
    <2>4. \A k \in 1 .. n + 1 : f[k] \in X
      OBVIOUS
    <2> HIDE DEF X
    <2>5. n + 1 \in 1 .. n + 1
      OBVIOUS
    <2> QED
      BY <2>2, <2>3, <2>4, <2>5 DEF OnFirst
  <1> HIDE DEF X
  <1>2. e \in Seq(X) /\ f \in Seq(X)
    <2>1. n \in Nat /\ n + 1 \in Nat
      OBVIOUS
    <2> QED
      BY <1>1, <2>1, FunctionSeq
  <1>3. Len(e) = n /\ Len(f) = n + 1
    BY <1>1, <1>2
  <1>4. Append(e, d) \in Seq(X) /\ Len(Append(e, d)) = n + 1 /\ Append(e, d)[n + 1] = d /\ \A k \in 1 .. n : Append(e, d)[k] = e[k]
    BY <1>1, <1>2, <1>3
  <1>5. \A k \in 1 .. n + 1 : f[k] = Append(e, d)[k]
    <2>1. \A k \in 1 .. n + 1 : k \in 1 .. n \/ k = n + 1
      OBVIOUS
    <2> HIDE DEF d
    <2>2. f[n + 1] = d
      BY DEF d
    <2> QED
      BY <1>4, <2>1, <2>2
  <1> HIDE DEF d
  <1>6. f = Append(e, d)
    BY <1>2, <1>3, <1>4, <1>5, SeqEqual
  <1> QED
    BY <1>6 DEF d

LEMMA EarlierPrefix ==
  ASSUME NEW e, NEW n \in Nat, OnFirst(e, n), NEW l \in 0 .. n, NEW f, OnFirst(f, l), \A k \in 1 .. l : f[k] = e[k]
  PROVE  f = SubSeq(e, 1, l) /\ Len(e) = n
  <1> DEFINE X == {e[k] : k \in 1 .. n}
  <1>1. e \in [1 .. n -> X] /\ f \in [1 .. l -> X]
    <2>1. \A k \in 1 .. l : k \in 1 .. n
      OBVIOUS
    <2>2. DOMAIN e = 1 .. n /\ DOMAIN f = 1 .. l
      BY Zenon DEF OnFirst
    <2>3. \A k \in 1 .. l : f[k] \in X
      BY <2>1
    <2>4. \A k \in 1 .. n : e[k] \in X
      OBVIOUS
    <2> HIDE DEF X
    <2> QED
      BY <2>2, <2>3, <2>4 DEF OnFirst
  <1> HIDE DEF X
  <1>2. e \in Seq(X) /\ f \in Seq(X)
    <2>1. n \in Nat /\ l \in Nat
      OBVIOUS
    <2> QED
      BY <1>1, <2>1, FunctionSeq
  <1>3. Len(e) = n /\ Len(f) = l
    BY <1>1, <1>2
  <1>4. SubSeq(e, 1, l) \in Seq(X) /\ Len(SubSeq(e, 1, l)) = l /\ \A k \in 1 .. l : SubSeq(e, 1, l)[k] = e[k]
    <2>1. \A k \in 1 .. l : e[k] \in X
      BY <1>1
    <2>2. l - 1 + 1 = l /\ l \in Int /\ 1 \in Int /\ (IF 1 <= l THEN l ELSE 0) = l /\ \A k \in 1 .. l : 1 + k - 1 = k
      OBVIOUS
    <2> DEFINE g == SubSeq(e, 1, l)
    <2>3. g \in Seq(X) /\ Len(g) = (IF 1 <= l THEN l - 1 + 1 ELSE 0) /\ \A k \in 1 .. l - 1 + 1 : g[k] = e[1 + k - 1]
      <3>1. ASSUME NEW S, NEW h, \A k \in 1 .. l : h[k] \in S
            PROVE  /\ SubSeq(h, 1, l) \in Seq(S) /\ Len(SubSeq(h, 1, l)) = IF 1 <= l THEN l - 1 + 1 ELSE 0
                   /\ \A k \in 1 .. l - 1 + 1 : SubSeq(h, 1, l)[k] = h[1 + k - 1]
        BY <2>2, <3>1, SubSeqProperties
      <3> QED
        BY <2>1, <3>1, Zenon
    <2> HIDE DEF g
    <2>4. g \in Seq(X) /\ Len(g) = l /\ \A k \in 1 .. l : g[k] = e[k]
      BY <2>2, <2>3
    <2> QED
      BY <2>4 DEF g
  <1> DEFINE g == SubSeq(e, 1, l)
  <1> HIDE DEF g
  <1>5. f = g
    <2>1. g \in Seq(X) /\ Len(g) = Len(f) /\ \A k \in 1 .. Len(f) : f[k] = g[k]
      BY <1>3, <1>4 DEF g
    <2> QED
      BY <1>2, <2>1, SeqEqual, Zenon
  <1> QED
    BY <1>3, <1>5 DEF g

(* All values of the three. *)
Any == lowest .. highest \cup {values[i] : i \in DOMAIN values}

LEMMA IsCondition ==
  ASSUME NEW v \in Any
  PROVE  /\ {d \in Any : d >= v} \in D!Conditions /\ {d \in Any : d <= v} \in D!Conditions
         /\ {v} \in D!Conditions /\ Any \ {v} \in D!Conditions
  BY DEF D!Conditions, Any

-----------------------------------------------------------------------------
(* The representation with eager literals.                                   *)

LEMMA EagerShows ==
  ASSUME kind = "EL"
  PROVE  /\ getMin = min /\ getMax = max /\ dom = EP!dom /\ told = changes
         /\ earlier = [l \in DOMAIN past |-> past[l].vals \cap past[l].min .. past[l].max]
  <1>1. "EL" # "LL" /\ "EL" # "SL"
    OBVIOUS
  <1>2. getMin = min /\ getMax = max /\ dom = EL!dom /\ told = changes
    BY <1>1, Zenon DEF getMin, getMax, dom, told
  <1>3. earlier = [l \in DOMAIN past |-> past[l].vals \cap past[l].min .. past[l].max]
    BY <1>1, Zenon DEF earlier
  <1> QED
    BY <1>2, <1>3, SameEager

LEMMA EagerShowsNext ==
  ASSUME kind' = "EL"
  PROVE  /\ getMin' = min' /\ getMax' = max' /\ dom' = EP!dom' /\ told' = changes'
         /\ earlier' = [l \in DOMAIN past' |-> past'[l].vals \cap past'[l].min .. past'[l].max]
  <1>1. "EL" # "LL" /\ "EL" # "SL"
    OBVIOUS
  <1>2. getMin' = min' /\ getMax' = max' /\ dom' = EL!dom' /\ told' = changes'
    BY <1>1, Zenon DEF getMin, getMax, dom, told
  <1>3. earlier' = [l \in DOMAIN past' |-> past'[l].vals \cap past'[l].min .. past'[l].max]
    BY <1>1, Zenon DEF earlier
  <1>4. EL!dom' = EP!dom'
    BY DEF EL!dom, EP!dom
  <1> QED
    BY <1>2, <1>3, <1>4

LEMMA EagerPast ==
  ASSUME EP!ELInv
  PROVE  /\ past \in Seq([min : EP!Value, max : EP!Value, vals : SUBSET EP!Value, len : Nat])
         /\ Len(past) \in Nat /\ DOMAIN past = 1 .. Len(past)
  <1>1. past \in Seq([min : EP!Value, max : EP!Value, vals : SUBSET EP!Value, len : Nat])
    BY DEF EP!ELInv, EP!PastRight
  <1> QED
    BY <1>1

LEMMA EagerStep ==
  ASSUME kind = "EL", kind' = "EL", EP!ELInv, EP!Next
  PROVE  Promised
  <1> DEFINE R == [min : EP!Value, max : EP!Value, vals : SUBSET EP!Value, len : Nat]
             n == Len(past)
             e == [l \in DOMAIN past |-> past[l].vals \cap past[l].min .. past[l].max]
             f == [l \in DOMAIN past' |-> past'[l].vals \cap past'[l].min .. past'[l].max]
  <1>1. /\ getMin = min /\ getMax = max /\ dom = EP!dom /\ earlier = e
        /\ getMin' = min' /\ getMax' = max' /\ dom' = EP!dom' /\ told' = changes' /\ earlier' = f
    BY EagerShows, EagerShowsNext
  <1>2. past \in Seq(R) /\ n \in Nat /\ DOMAIN past = 1 .. n
    BY EagerPast
  <1>3. EP!dom = vals \cap min .. max /\ EP!dom' = vals' \cap min' .. max'
    BY DEF EP!dom
  <1>4. EP!dom \subseteq EP!Value /\ EP!Value \subseteq Any
    BY EP!BoundFacts, EPBounds DEF EP!dom, EP!Value, Any
  <1>5. CASE EP!Fails
    BY <1>1, <1>3, <1>5 DEF EP!Fails, Promised, StepFails
  <1>6. CASE EP!Cuts
    <2>1. PICK v \in EP!Value : \/ EP!Cut(EP!From(v)) \/ EP!Cut(EP!Upto(v))
                                \/ EP!Cut({v}) \/ EP!Cut(EP!Value \ {v})
      BY <1>6 DEF EP!Cuts
    <2>2. confl = {} /\ past' = past /\ confl' = {} /\ EP!Told /\ EP!DomRight(min', max', vals')
      BY <1>6, <2>1 DEF EP!Cuts, EP!Cut, EP!Enqueued
    <2>3. \E A \in D!Conditions : dom' = dom \cap A
      <3>1. v \in Any
        BY <1>4
      <3>2. CASE EP!Cut(EP!From(v))
        <4>1. dom' = dom \cap {d \in Any : d >= v}
          BY <1>1, <1>3, <1>4, <3>2 DEF EP!Cut, EP!From
        <4> QED
          BY <3>1, <4>1, IsCondition
      <3>3. CASE EP!Cut(EP!Upto(v))
        <4>1. dom' = dom \cap {d \in Any : d <= v}
          BY <1>1, <1>3, <1>4, <3>3 DEF EP!Cut, EP!Upto
        <4> QED
          BY <3>1, <4>1, IsCondition
      <3>4. CASE EP!Cut({v})
        <4>1. dom' = dom \cap {v}
          BY <1>1, <1>3, <3>4 DEF EP!Cut
        <4> QED
          BY <3>1, <4>1, IsCondition
      <3>5. CASE EP!Cut(EP!Value \ {v})
        <4>1. dom' = dom \cap (Any \ {v})
          BY <1>1, <1>3, <1>4, <3>5 DEF EP!Cut
        <4> QED
          BY <3>1, <4>1, IsCondition
      <3> QED
        BY <2>1, <3>2, <3>3, <3>4, <3>5
    <2>4. dom' # {}
      <3>1. min' \in vals' /\ min' <= max' /\ min' \in Int
        BY <2>2, EPBounds DEF EP!DomRight, EP!BoundsRight, EP!Value
      <3>2. max' \in Int
        BY <2>2, EPBounds DEF EP!DomRight, EP!BoundsRight, EP!Value
      <3> QED
        BY <1>1, <1>3, <3>1, <3>2
    <2>5. StepCuts
      BY <1>1, <2>2, <2>3, <2>4 DEF StepCuts, EP!Told
    <2> QED
      BY <2>5 DEF Promised
  <1>7. CASE EP!Rests
    BY <1>1, <1>3, <1>7 DEF EP!Rests, Promised, StepRests
  <1>8. CASE EP!Opens
    <2> DEFINE p == [min |-> min, max |-> max, vals |-> vals, len |-> Len(trail)]
    <2>1. confl = {} /\ UNCHANGED <<min, max, vals, confl>> /\ past' = Append(past, p)
      BY <1>8 DEF EP!Opens
    <2>2. /\ DOMAIN past' = 1 .. n + 1 /\ past'[n + 1] = p /\ \A k \in 1 .. n : past'[k] = past[k] /\ k \in 1 .. n + 1
          /\ n + 1 \in 1 .. n + 1
      BY <1>2, <2>1
    <2>3. f[n + 1] = dom
      BY <1>1, <1>3, <2>2
    <2>4. OnFirst(e, n) /\ OnFirst(f, n + 1) /\ \A k \in 1 .. n : f[k] = e[k]
      BY <1>2, <2>2 DEF OnFirst
    <2> HIDE DEF e, f, p
    <2>5. f = Append(e, f[n + 1])
      BY <1>2, <2>4, EarlierAppend
    <2>6. StepOpens
      BY <1>1, <1>3, <2>1, <2>3, <2>5 DEF StepOpens
    <2> QED
      BY <2>6 DEF Promised
  <1>9. ASSUME NEW l \in 0 .. n - 1, EP!Returns(l) PROVE Promised
    <2>1. /\ min' = past[l + 1].min /\ max' = past[l + 1].max /\ vals' = past[l + 1].vals
          /\ past' = SubSeq(past, 1, l) /\ confl' = {}
      BY <1>9 DEF EP!Returns
    <2>2. l \in 0 .. Len(past) /\ l + 1 \in 1 .. n /\ l \in Nat
      BY <1>2
    <2>3. past' \in Seq(R) /\ Len(past') = l /\ \A k \in 1 .. l : past'[k] = past[k]
      <3> HIDE DEF R
      <3> QED
        BY <1>2, <2>1, <2>2, EP!PrefixType
    <2>4. DOMAIN past' = 1 .. l /\ \A k \in 1 .. l : k \in 1 .. n
      BY <1>2, <2>2, <2>3
    <2>5. dom' = e[l + 1]
      BY <1>1, <1>2, <1>3, <2>1, <2>2
    <2>6. OnFirst(e, n) /\ OnFirst(f, l) /\ \A k \in 1 .. l : f[k] = e[k]
      BY <1>2, <2>3, <2>4 DEF OnFirst
    <2> HIDE DEF e, f
    <2>7. f = SubSeq(e, 1, l) /\ Len(e) = n
      BY <1>2, <2>2, <2>6, EarlierPrefix
    <2>8. StepReturns
      BY <1>1, <1>2, <2>1, <2>3, <2>5, <2>7 DEF StepReturns
    <2> QED
      BY <2>8 DEF Promised
  <1> QED
    BY <1>5, <1>6, <1>7, <1>8, <1>9, EP!Moves, EPBounds

-----------------------------------------------------------------------------
(* The sparse representation.                                                *)

At(S) == {SL!valueAt(i) : i \in S}

(* The copy is the one of what el has, now and at every open level. *)
Copied(p, q) == q.min = SL!valueAt(p.min) /\ q.max = SL!valueAt(p.max) /\ q.vals = At(p.vals)

SLInv ==
  /\ SP!ELInv
  /\ smin = SL!valueAt(min) /\ smax = SL!valueAt(max) /\ svals = At(vals)
  /\ outer \in Seq([min : Int, max : Int, vals : SUBSET Int]) /\ Len(outer) = Len(past)
  /\ \A k \in 1 .. Len(past) : Copied(past[k], outer[k])

LEMMA AtBetween ==
  ASSUME NEW S \in SUBSET SL!Place, NEW lo \in SL!Place, NEW hi \in SL!Place
  PROVE  /\ At(S) \cap SL!valueAt(lo) .. SL!valueAt(hi) = At(S \cap lo .. hi)
         /\ At(S) \in SUBSET Int /\ At(S) \in SUBSET Any
  <1>1. \A i \in S : /\ i \in SL!Place /\ i \in Int /\ SL!valueAt(i) \in Int
                     /\ (i >= lo <=> SL!valueAt(i) >= SL!valueAt(lo)) /\ (i <= hi <=> SL!valueAt(i) <= SL!valueAt(hi))
    BY Places
  <1>2. SL!valueAt(lo) \in Int /\ SL!valueAt(hi) \in Int /\ lo \in Int /\ hi \in Int
    BY Places
  <1>3. \A i \in S : SL!valueAt(i) \in Any
    <2>1. \A i \in S : SL!valueAt(i) = values[i + 1] /\ i + 1 \in DOMAIN values
      BY Places, ValuesAssumption
    <2> QED
      BY <2>1 DEF Any
  <1> QED
    BY <1>1, <1>2, <1>3 DEF At

LEMMA SparseFacts ==
  ASSUME SP!ELInv
  PROVE  /\ min \in SL!Place /\ max \in SL!Place /\ min <= max /\ vals \in SUBSET SL!Place
         /\ min \in SP!dom /\ max \in SP!dom /\ SP!dom = vals \cap min .. max /\ SP!dom \in SUBSET SL!Place
  BY SPBounds, SP!BoundFacts, Places DEF SP!dom

LEMMA SparseDom ==
  ASSUME SLInv
  PROVE  SL!dom = At(SP!dom) /\ smin \in SL!dom /\ smax \in SL!dom
  <1>1. SP!ELInv /\ smin = SL!valueAt(min) /\ smax = SL!valueAt(max) /\ svals = At(vals)
    BY DEF SLInv
  <1>2. SL!dom = At(SP!dom)
    BY <1>1, SparseFacts, AtBetween DEF SL!dom
  <1> QED
    BY <1>1, <1>2, SparseFacts DEF At

(* A literal of el that says of places what is asked of values. *)
LEMMA Answered ==
  ASSUME SLInv, NEW v \in Int, NEW rel \in {"GE", "LE", "EQ", "NE"}, NEW l \in SP!Lit,
         \A i \in SL!Place : SP!Says(l, i) <=> SL!Says(SL!valueAt(i), v, rel)
  PROVE  /\ SP!isTrue(l) <=> \A d \in SL!dom : SL!Says(d, v, rel)
         /\ SP!isFalse(l) <=> \A d \in SL!dom : ~ SL!Says(d, v, rel)
  <1>1. SP!ELInv /\ SL!dom = At(SP!dom) /\ SP!dom \in SUBSET SL!Place
    BY SparseDom, SparseFacts DEF SLInv
  <1>2. SP!isTrue(l) <=> \A i \in SP!dom : SP!Says(l, i)
    BY <1>1, SPBounds, SP!TrueLits
  <1>3. SP!isFalse(l) <=> \A i \in SP!dom : ~ SP!Says(l, i)
    BY <1>1, SPBounds, SP!FalseLits
  <1> QED
    BY <1>1, <1>2, <1>3 DEF At

LEMMA SaysOf ==
  ASSUME NEW d \in Int, NEW v \in Int
  PROVE  /\ SL!Says(d, v, "GE") <=> d >= v
         /\ SL!Says(d, v, "LE") <=> d <= v
         /\ SL!Says(d, v, "EQ") <=> d = v
         /\ SL!Says(d, v, "NE") <=> d # v
  BY DEF SL!Says

(* What getLit gives, and what it means. *)
LEMMA LitMeans ==
  ASSUME NEW v \in Int, NEW rel \in {"GE", "LE", "EQ", "NE"}
  PROVE  \/ /\ SL!getLit(v, rel) \in SP!Lit
            /\ \A i \in SL!Place : SP!Says(SL!getLit(v, rel), i) <=> SL!Says(SL!valueAt(i), v, rel)
         \/ SL!getLit(v, rel) = SP!Constant(TRUE) /\ \A i \in SL!Place : SL!Says(SL!valueAt(i), v, rel)
         \/ SL!getLit(v, rel) = SP!Constant(FALSE) /\ \A i \in SL!Place : ~ SL!Says(SL!valueAt(i), v, rel)
  <1> DEFINE n == Len(values)
             b == SL!below(v)
  <1>1. b \in 0 .. n /\ n \in Nat /\ n > 0 /\ SL!Place = 0 .. n - 1 /\ SP!Value = SL!Place
        /\ \A k \in SL!Place : k \in Int /\ SL!valueAt(k) \in Int /\ (SL!valueAt(k) < v <=> k < b)
    BY Below, Places
  <1>2. ASSUME v \in SL!Value
        PROVE  b \in SL!Place /\ SL!valueAt(b) = v /\ \A k \in SL!Place : SL!valueAt(k) = v <=> k = b
    BY <1>2, Found, Places
  <1>3. ASSUME v \notin SL!Value PROVE \A k \in SL!Place : SL!valueAt(k) # v
    BY <1>3, Places
  <1>4. \A u \in Int : /\ u \in SP!Value => /\ SP!GE(u) \in SP!Lit /\ SP!LE(u) \in SP!Lit
                                            /\ SP!EQ(u) \in SP!Lit /\ SP!NE(u) \in SP!Lit
                       /\ \A k \in SL!Place : /\ SP!Says(SP!GE(u), k) <=> k >= u
                                              /\ SP!Says(SP!LE(u), k) <=> k <= u
                                              /\ SP!Says(SP!EQ(u), k) <=> k = u
                                              /\ SP!Says(SP!NE(u), k) <=> k # u
    <2>1. \A u \in SP!Value : SP!GE(u) \in SP!Lit /\ SP!LE(u) \in SP!Lit /\ SP!EQ(u) \in SP!Lit /\ SP!NE(u) \in SP!Lit
      <3>1. \A u \in SP!Value : u \in 0 .. n - 1 + 1 /\ u \in 0 - 1 .. n - 1
        BY <1>1
      <3> QED
        BY <3>1, SPBounds, SP!LitType
    <2> QED
      BY <2>1, <1>1, SP!LitSays
  <1>5. CASE rel = "GE"
    <2>1. SL!find_index(v, "UP") = b
      BY Found
    <2> HIDE DEF b
    <2>2. SL!getLit(v, "GE") = SP!getLit(b, "GE")
      BY <2>1, SameSparse DEF SL!getLit
    <2>3. \A k \in SL!Place : SL!Says(SL!valueAt(k), v, "GE") <=> k >= b
      BY <1>1, SaysOf
    <2>4. CASE b \in SL!Place
      <3>1. SP!getLit(b, "GE") = SP!GE(b)
        BY <2>4, <1>1, SPBounds, SP!GotLit
      <3>2. SP!GE(b) \in SP!Lit /\ \A k \in SL!Place : SP!Says(SP!GE(b), k) <=> k >= b
        BY <1>1, <1>4, <2>4
      <3> QED
        BY <1>5, <2>2, <2>3, <3>1, <3>2
    <2>5. CASE b = n
      <3>1. b \in Int /\ b > Len(values) - 1
        BY <2>5, <1>1
      <3>2. SP!getLit(b, "GE") = SP!Constant(FALSE)
        BY <3>1, SPBounds, SP!GotLit
      <3>3. \A k \in SL!Place : ~ (k >= b)
        BY <1>1, <2>5
      <3> QED
        BY <1>5, <2>2, <2>3, <3>2, <3>3
    <2>6. b \in SL!Place \/ b = n
      BY <1>1
    <2> QED
      BY <2>4, <2>5, <2>6
  <1>6. CASE rel = "LE"
    <2> DEFINE u == SL!find_index(v, "DOWN")
    <2>1. u \in Int /\ u >= -1 /\ u < n /\ \A k \in SL!Place : SL!Says(SL!valueAt(k), v, "LE") <=> k <= u
      <3>1. CASE v \in SL!Value
        <4>1. u = b
          BY <3>1, Found
        <4>2. \A k \in SL!Place : SL!valueAt(k) <= v <=> k <= b
          BY <1>1, <1>2, <3>1
        <4> QED
          BY <1>1, <1>2, <3>1, <4>1, <4>2, SaysOf
      <3>2. CASE v \notin SL!Value
        <4>1. u = b - 1
          BY <3>2, Found
        <4>2. \A k \in SL!Place : SL!valueAt(k) <= v <=> k <= b - 1
          BY <1>1, <1>3, <3>2
        <4> QED
          BY <1>1, <4>1, <4>2, SaysOf
      <3> QED
        BY <3>1, <3>2
    <2>2. SL!getLit(v, "LE") = SP!getLit(u, "LE")
      BY SameSparse DEF SL!getLit
    <2> HIDE DEF u
    <2>3. CASE u \in SL!Place
      <3>1. SP!getLit(u, "LE") = SP!LE(u)
        BY <2>1, <2>3, <1>1, SPBounds, SP!GotLit
      <3>2. SP!LE(u) \in SP!Lit /\ \A k \in SL!Place : SP!Says(SP!LE(u), k) <=> k <= u
        BY <1>1, <1>4, <2>1, <2>3
      <3> QED
        BY <1>6, <2>1, <2>2, <3>1, <3>2
    <2>4. CASE u = -1
      <3>1. u \in Int /\ u < 0
        BY <2>4, <2>1
      <3>2. SP!getLit(u, "LE") = SP!Constant(FALSE)
        BY <3>1, SPBounds, SP!GotLit
      <3>3. \A k \in SL!Place : ~ (k <= u)
        BY <1>1, <3>1
      <3> QED
        BY <1>6, <2>1, <2>2, <3>2, <3>3
    <2>5. u \in SL!Place \/ u = -1
      BY <1>1, <2>1
    <2> QED
      BY <2>3, <2>4, <2>5
  <1>7. CASE rel \in {"EQ", "NE"}
    <2>1. CASE v \in SL!Value
      <3>1. SL!find_index(v, "NONE") = b /\ b # -1
        BY <1>1, <2>1, Found
      <3>2. SL!getLit(v, rel) = SP!getLit(b, rel)
        BY <1>7, <3>1, SameSparse DEF SL!getLit
      <3>3. SP!getLit(b, "EQ") = SP!EQ(b) /\ SP!getLit(b, "NE") = SP!NE(b)
        BY <1>1, <1>2, <2>1, SPBounds, SP!GotLit
      <3>4. \A k \in SL!Place : (SL!Says(SL!valueAt(k), v, "EQ") <=> k = b) /\ (SL!Says(SL!valueAt(k), v, "NE") <=> k # b)
        BY <1>1, <1>2, <2>1, SaysOf
      <3>5. /\ SP!EQ(b) \in SP!Lit /\ SP!NE(b) \in SP!Lit
            /\ \A k \in SL!Place : (SP!Says(SP!EQ(b), k) <=> k = b) /\ (SP!Says(SP!NE(b), k) <=> k # b)
        BY <1>1, <1>2, <1>4, <2>1
      <3> HIDE DEF b
      <3> QED
        BY <1>7, <3>2, <3>3, <3>4, <3>5
    <2>2. CASE v \notin SL!Value
      <3>1. SL!find_index(v, "NONE") = -1
        BY <2>2, Found
      <3>2. SL!getLit(v, rel) = SP!Constant(rel = "NE")
        BY <1>7, <3>1, SameSparse DEF SL!getLit
      <3>3. \A k \in SL!Place : ~ SL!Says(SL!valueAt(k), v, "EQ") /\ SL!Says(SL!valueAt(k), v, "NE")
        BY <1>1, <1>3, <2>2, SaysOf
      <3>4. (rel = "NE" /\ (rel = "NE") = TRUE) \/ (rel = "EQ" /\ (rel = "NE") = FALSE)
        BY <1>7
      <3> QED
        BY <3>2, <3>3, <3>4, Zenon
    <2> HIDE DEF b
    <2> QED
      BY <2>1, <2>2
  <1> QED
    BY <1>5, <1>6, <1>7

LEMMA SparseLits ==
  ASSUME SLInv
  PROVE  SL!LiteralsAgree
  <1>1. SP!ELInv /\ SL!dom = At(SP!dom) /\ SP!dom \in SUBSET SL!Place /\ smin \in SL!dom /\ smax \in SL!dom
    BY SparseDom, SparseFacts DEF SLInv
  <1>2. ASSUME NEW v \in SL!Asked, NEW rel \in {"GE", "LE", "EQ", "NE"}
        PROVE  LET l == SL!getLit(v, rel)
                   true == SL!el!isTrue(l) \/ l = SL!el!Constant(TRUE)
                   false == SL!el!isFalse(l) \/ l = SL!el!Constant(FALSE)
               IN /\ true <=> \A d \in SL!dom : SL!Says(d, v, rel)
                  /\ false <=> \A d \in SL!dom : ~ SL!Says(d, v, rel)
    <2> DEFINE l == SL!getLit(v, rel)
    <2>1. v \in Int
      BY Places DEF SL!Asked
    <2>2. /\ SL!el!isTrue(l) <=> SP!isTrue(l)
          /\ SL!el!isFalse(l) <=> SP!isFalse(l)
          /\ SL!el!Constant(TRUE) = SP!Constant(TRUE) /\ SL!el!Constant(FALSE) = SP!Constant(FALSE)
      BY SameSparse
    <2>3. SP!Constant(TRUE) # SP!Constant(FALSE)
      BY DEF SP!Constant
    <2>4. /\ ~ SP!isTrue(SP!Constant(TRUE)) /\ ~ SP!isFalse(SP!Constant(TRUE))
          /\ ~ SP!isTrue(SP!Constant(FALSE)) /\ ~ SP!isFalse(SP!Constant(FALSE))
          /\ \A q \in SP!Lit : q # SP!Constant(TRUE) /\ q # SP!Constant(FALSE)
      BY <1>1, SPBounds, SP!ConstantsOff
    <2>5. CASE /\ l \in SP!Lit
               /\ \A i \in SL!Place : SP!Says(l, i) <=> SL!Says(SL!valueAt(i), v, rel)
      <3>1. /\ SP!isTrue(l) <=> \A d \in SL!dom : SL!Says(d, v, rel)
            /\ SP!isFalse(l) <=> \A d \in SL!dom : ~ SL!Says(d, v, rel)
        BY <2>1, <2>5, Answered
      <3> QED
        BY <2>2, <2>4, <2>5, <3>1
    <2>6. (\A d \in SL!dom : \E i \in SL!Place : d = SL!valueAt(i)) /\ smin \in SL!dom
      BY <1>1 DEF At
    <2>7. CASE l = SP!Constant(TRUE) /\ \A i \in SL!Place : SL!Says(SL!valueAt(i), v, rel)
      BY <2>2, <2>3, <2>4, <2>6, <2>7
    <2>8. CASE l = SP!Constant(FALSE) /\ \A i \in SL!Place : ~ SL!Says(SL!valueAt(i), v, rel)
      BY <2>2, <2>3, <2>4, <2>6, <2>8
    <2> HIDE DEF l
    <2>9. \/ /\ l \in SP!Lit
             /\ \A i \in SL!Place : SP!Says(l, i) <=> SL!Says(SL!valueAt(i), v, rel)
          \/ l = SP!Constant(TRUE) /\ \A i \in SL!Place : SL!Says(SL!valueAt(i), v, rel)
          \/ l = SP!Constant(FALSE) /\ \A i \in SL!Place : ~ SL!Says(SL!valueAt(i), v, rel)
      BY <2>1, LitMeans DEF l
    <2> QED
      BY <2>5, <2>7, <2>8, <2>9 DEF l
  <1>3. SL!el!LiteralsAgree /\ SL!dom = {SL!valueAt(i) : i \in SL!el!dom}
    BY <1>1, SPBounds, SP!LiteralsFollow, SameSparse DEF At
  <1> QED
    BY <1>1, <1>2, <1>3 DEF SL!LiteralsAgree

SparseFails == SP!Fails /\ UNCHANGED <<smin, smax, svals, outer>>
SparseCuts ==
  /\ confl = {} /\ UNCHANGED <<past, outer>>
  /\ \E u \in SL!Place : SP!Cut(SP!From(u)) \/ SP!Cut(SP!Upto(u)) \/ SP!Cut({u}) \/ SP!Cut(SL!Place \ {u})
  /\ smin' = SL!valueAt(min') /\ smax' = SL!valueAt(max') /\ svals' = At(vals')
SparseRests == UNCHANGED <<min, max, vals, trail, confl, past, smin, smax, svals, outer>>
SparseOpens ==
  /\ confl = {} /\ UNCHANGED <<min, max, vals, confl, smin, smax, svals>>
  /\ past' = Append(past, [min |-> min, max |-> max, vals |-> vals, len |-> Len(trail)])
  /\ outer' = Append(outer, [min |-> smin, max |-> smax, vals |-> svals])
SparseReturns(l) ==
  /\ confl' = {}
  /\ min' = past[l + 1].min /\ max' = past[l + 1].max /\ vals' = past[l + 1].vals /\ past' = SubSeq(past, 1, l)
  /\ smin' = outer[l + 1].min /\ smax' = outer[l + 1].max /\ svals' = outer[l + 1].vals /\ outer' = SubSeq(outer, 1, l)

LEMMA CopyNone ==
  ASSUME SLInv, confl' = {}, SL!copy({}), vals' = vals
  PROVE  smin' = SL!valueAt(min') /\ smax' = SL!valueAt(max') /\ svals' = At(vals')
  BY DEF SL!copy, SLInv, SL!valueAt

LEMMA CopyOne ==
  ASSUME SLInv, confl' = {}, NEW u \in SL!Place, SL!copy({SL!valueAt(u)}), vals' = vals \ {u}
  PROVE  smin' = SL!valueAt(min') /\ smax' = SL!valueAt(max') /\ svals' = At(vals')
  <1>1. smin' = SL!valueAt(min') /\ smax' = SL!valueAt(max') /\ svals' = At(vals) \ {SL!valueAt(u)}
    BY DEF SL!copy, SLInv, SL!valueAt
  <1>2. \A i \in vals : i \in SL!Place /\ (i = u <=> SL!valueAt(i) = SL!valueAt(u))
    BY SparseFacts, Places DEF SLInv
  <1>3. At(vals \ {u}) = At(vals) \ {SL!valueAt(u)}
    BY <1>2 DEF At
  <1> QED
    BY <1>1, <1>3

LEMMA CopyFailed ==
  ASSUME SP!Fails, NEW R, SL!copy(R), UNCHANGED outer
  PROVE  SparseFails
  BY DEF SL!copy, SP!Fails, SparseFails

LEMMA FindInt ==
  ASSUME NEW v \in Int, NEW mode \in {"UP", "DOWN", "NONE"}
  PROVE  SL!find_index(v, mode) \in Int
  <1>1. SL!below(v) \in Int
    BY Below, Places
  <1> QED
    BY <1>1, Found

LEMMA SparseCalls ==
  ASSUME SLInv, NEW v \in SL!Asked, SL!setMin(v) \/ SL!setMax(v) \/ SL!setVal(v) \/ SL!remVal(v)
  PROVE  SparseFails \/ SparseCuts
  <1>1. v \in Int /\ SP!ELInv /\ SP!BoundsRight /\ SP!Value = SL!Place
    BY Places, SPBounds DEF SL!Asked, SLInv
  <1>2. CASE SL!setMin(v)
    <2> DEFINE u == SL!find_index(v, "UP")
    <2>1. SP!setMin(u) /\ SL!copy({}) /\ UNCHANGED outer /\ u \in Int
      BY <1>1, <1>2, SameSparse, FindInt DEF SL!setMin
    <2> HIDE DEF u
    <2>2. confl = {} /\ UNCHANGED past /\ (SP!Fails \/ (u \in SL!Place /\ SP!Cut(SP!From(u)) /\ vals' = vals))
      BY <1>1, <2>1, SP!SetMinStep
    <2>3. ASSUME SP!Cut(SP!From(u)) PROVE confl' = {}
      BY <2>2, <2>3 DEF SP!Cut
    <2> QED
      BY <2>1, <2>2, <2>3, CopyNone, CopyFailed DEF SparseCuts
  <1>3. CASE SL!setMax(v)
    <2> DEFINE u == SL!find_index(v, "DOWN")
    <2>1. SP!setMax(u) /\ SL!copy({}) /\ UNCHANGED outer /\ u \in Int
      BY <1>1, <1>3, SameSparse, FindInt DEF SL!setMax
    <2> HIDE DEF u
    <2>2. confl = {} /\ UNCHANGED past /\ (SP!Fails \/ (u \in SL!Place /\ SP!Cut(SP!Upto(u)) /\ vals' = vals))
      BY <1>1, <2>1, SP!SetMaxStep
    <2>3. ASSUME SP!Cut(SP!Upto(u)) PROVE confl' = {}
      BY <2>2, <2>3 DEF SP!Cut
    <2> QED
      BY <2>1, <2>2, <2>3, CopyNone, CopyFailed DEF SparseCuts
  <1>4. CASE SL!setVal(v)
    <2> DEFINE u == SL!find_index(v, "NONE")
    <2>1. CASE u = -1
      <3>1. /\ confl = {} /\ UNCHANGED <<smin, smax, svals, past, outer>>
            /\ SP!fail(SP!Constant(FALSE)) /\ FALSE \in BOOLEAN
        BY <1>4, <2>1, SameSparse DEF SL!setVal
      <3>2. SP!Constant(FALSE) \in SP!Lit \cup {SP!Constant(b) : b \in BOOLEAN}
        BY <3>1, Zenon
      <3>3. SP!Fails
        BY <3>1, <3>2, SP!FailFails
      <3> QED
        BY <3>1, <3>3 DEF SparseFails
    <2>2. CASE u # -1
      <3>1. SP!setVal(u) /\ SL!copy({}) /\ UNCHANGED outer /\ u \in Int
        BY <1>1, <1>4, <2>2, SameSparse, FindInt DEF SL!setVal
      <3> HIDE DEF u
      <3>2. confl = {} /\ UNCHANGED past /\ (SP!Fails \/ (u \in SL!Place /\ SP!Cut({u}) /\ vals' = vals))
        BY <1>1, <3>1, SP!SetValStep
      <3>3. ASSUME SP!Cut({u}) PROVE confl' = {}
        BY <3>2, <3>3 DEF SP!Cut
      <3> QED
        BY <3>1, <3>2, <3>3, CopyNone, CopyFailed DEF SparseCuts
    <2> QED
      BY <2>1, <2>2
  <1>5. CASE SL!remVal(v)
    <2> DEFINE u == SL!find_index(v, "NONE")
    <2>1. SP!remVal(u) /\ SL!copy({v}) /\ UNCHANGED outer /\ u \in Int /\ v \in SL!dom
      BY <1>1, <1>5, SameSparse, FindInt DEF SL!remVal
    <2>2. u \in SL!Place /\ v = SL!valueAt(u)
      <3>1. v \in SL!Value
        <4>1. v \in At(SP!dom) /\ SP!dom \in SUBSET SL!Place
          BY <1>1, <2>1, SparseDom, SparseFacts
        <4> QED
          BY <4>1 DEF At, SL!Value
      <3> QED
        BY <1>1, <3>1, Found
    <2> HIDE DEF u
    <2>3. confl = {} /\ UNCHANGED past /\ (SP!Fails \/ (u \in SL!Place /\ SP!Cut(SL!Place \ {u}) /\ vals' = vals \ {u}))
      BY <1>1, <2>1, SP!RemValStep
    <2>4. ASSUME SP!Cut(SL!Place \ {u}) PROVE confl' = {}
      BY <2>3, <2>4 DEF SP!Cut
    <2>5. SL!copy({SL!valueAt(u)})
      BY <2>1, <2>2
    <2> QED
      BY <2>1, <2>2, <2>3, <2>4, <2>5, CopyOne, CopyFailed DEF SparseCuts
  <1> QED
    BY <1>2, <1>3, <1>4, <1>5

LEMMA SparseChannel ==
  ASSUME SLInv, NEW l \in SL!el!Lit, SL!channel(l)
  PROVE  SparseCuts
  <1> DEFINE R == {SL!valueAt(i) : i \in {k \in SL!Place : l = SP!NE(k)}}
  <1>1. SP!ELInv /\ SP!BoundsRight /\ SP!Value = SL!Place /\ \A k \in SL!Place : k \in Int
    BY Places, SPBounds DEF SLInv
  <1>2. l \in SP!Lit /\ SP!channel(l) /\ SL!copy(R) /\ UNCHANGED outer
    BY SameSparse DEF SL!channel
  <1>3. /\ confl = {} /\ UNCHANGED past
        /\ \E v \in SL!Place : \/ (SP!Cut(SP!From(v)) \/ SP!Cut(SP!Upto(v)) \/ SP!Cut({v})) /\ vals' = vals
                                  /\ \A w \in SL!Place : l # SP!NE(w)
                               \/ SP!Cut(SL!Place \ {v}) /\ vals' = vals \ {v} /\ l = SP!NE(v)
    BY <1>1, <1>2, SP!ChannelStep
  <1>4. \A A : SP!Cut(A) => confl' = {}
    BY <1>3 DEF SP!Cut
  <1>5. PICK v \in SL!Place : \/ (SP!Cut(SP!From(v)) \/ SP!Cut(SP!Upto(v)) \/ SP!Cut({v})) /\ vals' = vals
                                 /\ \A w \in SL!Place : l # SP!NE(w)
                              \/ SP!Cut(SL!Place \ {v}) /\ vals' = vals \ {v} /\ l = SP!NE(v)
    BY <1>3
  <1>6. CASE (SP!Cut(SP!From(v)) \/ SP!Cut(SP!Upto(v)) \/ SP!Cut({v})) /\ vals' = vals /\ \A w \in SL!Place : l # SP!NE(w)
    <2>1. R = {}
      BY <1>6
    <2>2. SL!copy({})
      BY <1>2, <2>1
    <2> HIDE DEF R
    <2> QED
      BY <1>2, <1>3, <1>4, <1>6, <2>2, CopyNone DEF SparseCuts
  <1>7. CASE SP!Cut(SL!Place \ {v}) /\ vals' = vals \ {v} /\ l = SP!NE(v)
    <2>1. \A k \in SL!Place : l = SP!NE(k) <=> k = v
      BY <1>1, <1>7, SP!LitShape
    <2>2. R = {SL!valueAt(v)}
      BY <2>1
    <2>3. SL!copy({SL!valueAt(v)})
      BY <1>2, <2>2
    <2> HIDE DEF R
    <2> QED
      BY <1>2, <1>3, <1>4, <1>7, <2>3, CopyOne DEF SparseCuts
  <1> QED
    BY <1>5, <1>6, <1>7

(* Every step of the sparse representation is one of el, copied. *)
LEMMA SparseMoves ==
  ASSUME SLInv, SL!Next
  PROVE  /\ SP!ELInv'
         /\ SparseFails \/ SparseCuts \/ SparseRests \/ SparseOpens \/ \E l \in 0 .. Len(past) - 1 : SparseReturns(l)
  <1>1. SP!ELInv /\ SP!BoundsRight
    BY SPBounds DEF SLInv
  <1>2. ASSUME SparseFails PROVE SP!ELInv'
    BY <1>1, <1>2, SP!FailsKeeps DEF SparseFails
  <1>3. ASSUME SparseCuts PROVE SP!ELInv'
    BY <1>1, <1>3, SP!CutKeeps DEF SparseCuts
  <1>4. ASSUME NEW v \in SL!Asked, SL!setMin(v) \/ SL!setMax(v) \/ SL!setVal(v) \/ SL!remVal(v)
        PROVE  SparseFails \/ SparseCuts
    BY <1>4, SparseCalls
  <1>5. ASSUME NEW l \in SL!el!Lit, SL!channel(l) PROVE SparseCuts
    BY <1>5, SparseChannel
  <1>6. ASSUME SL!wakePropagators PROVE SP!ELInv' /\ SparseRests
    <2>1. SP!wakePropagators /\ UNCHANGED <<smin, smax, svals, outer>>
      BY <1>6, SameSparse DEF SL!wakePropagators, SL!own
    <2>2. SparseRests
      BY <2>1 DEF SparseRests, SP!wakePropagators
    <2> QED
      BY <1>1, <2>1, <2>2, SP!WakeKeeps
  <1>7. ASSUME SL!newDecisionLevel PROVE SP!ELInv' /\ SparseOpens
    <2>1. /\ SP!newDecisionLevel /\ UNCHANGED <<smin, smax, svals>>
          /\ outer' = Append(outer, [min |-> smin, max |-> smax, vals |-> svals])
      BY <1>7, SameSparse DEF SL!newDecisionLevel
    <2>2. SparseOpens
      BY <2>1 DEF SparseOpens, SP!newDecisionLevel
    <2> QED
      BY <1>1, <2>1, <2>2, SP!LevelKeeps
  <1>8. ASSUME NEW l \in 0 .. Len(past) - 1, SL!btToLevel(l) PROVE SP!ELInv' /\ SparseReturns(l)
    <2>1. /\ SP!btToLevel(l)
          /\ smin' = outer[l + 1].min /\ smax' = outer[l + 1].max /\ svals' = outer[l + 1].vals /\ outer' = SubSeq(outer, 1, l)
      BY <1>8, SameSparse DEF SL!btToLevel
    <2>2. SparseReturns(l)
      BY <2>1 DEF SparseReturns, SP!btToLevel
    <2> QED
      BY <1>1, <2>1, <2>2, SP!BackKeeps
  <1>9. ASSUME SL!unsatisfiable PROVE SP!ELInv' /\ SparseRests
    <2>1. SP!unsatisfiable /\ UNCHANGED <<smin, smax, svals, outer>>
      BY <1>9, SameSparse DEF SL!unsatisfiable, SL!own
    <2>2. SparseRests /\ UNCHANGED SP!vars
      BY <2>1 DEF SparseRests, SP!unsatisfiable, SP!vars
    <2> QED
      BY <1>1, <2>2, SP!ELNext
  <1> QED
    BY <1>2, <1>3, <1>4, <1>5, <1>6, <1>7, <1>8, <1>9 DEF SL!Next

LEMMA SparsePast ==
  ASSUME SLInv
  PROVE  LET n == Len(past) IN
         /\ n \in Nat /\ Len(outer) = n /\ DOMAIN past = 1 .. n /\ DOMAIN outer = 1 .. n
         /\ past \in Seq([min : SL!Place, max : SL!Place, vals : SUBSET SL!Place, len : Nat])
         /\ outer \in Seq([min : Int, max : Int, vals : SUBSET Int])
         /\ \A k \in 1 .. n : Copied(past[k], outer[k])
  <1>1. past \in Seq([min : SL!Place, max : SL!Place, vals : SUBSET SL!Place, len : Nat])
    BY Places DEF SLInv, SP!ELInv, SP!PastRight
  <1>2. outer \in Seq([min : Int, max : Int, vals : SUBSET Int]) /\ Len(outer) = Len(past)
        /\ \A k \in 1 .. Len(past) : Copied(past[k], outer[k])
    BY DEF SLInv
  <1> QED
    BY <1>1, <1>2

LEMMA SparseKeeps ==
  ASSUME SLInv, SL!Next
  PROVE  SLInv'
  <1> DEFINE n == Len(past)
             R == [min : SL!Place, max : SL!Place, vals : SUBSET SL!Place, len : Nat]
             Q == [min : Int, max : Int, vals : SUBSET Int]
  <1>1. SP!ELInv' /\ smin = SL!valueAt(min) /\ smax = SL!valueAt(max) /\ svals = At(vals)
    BY SparseMoves DEF SLInv
  <1>2. /\ n \in Nat /\ Len(outer) = n /\ DOMAIN past = 1 .. n /\ DOMAIN outer = 1 .. n /\ past \in Seq(R) /\ outer \in Seq(Q)
        /\ \A k \in 1 .. n : Copied(past[k], outer[k])
    BY SparsePast
  <1>3. (\A i : SL!valueAt(i)' = SL!valueAt(i)) /\ At(vals)' = At(vals')
    BY DEF SL!valueAt, At
  <1>4. CASE SparseFails
    <2>1. UNCHANGED <<min, max, vals, past, smin, smax, svals, outer>>
      BY <1>4 DEF SparseFails, SP!Fails
    <2> QED
      BY <1>1, <1>2, <2>1 DEF SLInv, Copied, At, SL!valueAt
  <1>5. CASE SparseCuts
    BY <1>1, <1>2, <1>5 DEF SparseCuts, SLInv, Copied, At, SL!valueAt
  <1>6. CASE SparseRests
    BY <1>1, <1>2, <1>6 DEF SparseRests, SLInv, Copied, At, SL!valueAt
  <1>7. CASE SparseOpens
    <2> DEFINE p == [min |-> min, max |-> max, vals |-> vals, len |-> Len(trail)]
               q == [min |-> smin, max |-> smax, vals |-> svals]
    <2>1. /\ past' = Append(past, p) /\ outer' = Append(outer, q)
          /\ UNCHANGED <<min, max, vals, smin, smax, svals>>
      BY <1>7 DEF SparseOpens
    <2>2. q \in Q /\ Copied(p, q)
      <3>1. smin \in Int /\ smax \in Int /\ svals \in SUBSET Int
        <4>1. min \in SL!Place /\ max \in SL!Place /\ vals \in SUBSET SL!Place
          BY SparseFacts DEF SLInv
        <4>2. At(vals) \in SUBSET Int
          BY <4>1, AtBetween
        <4> QED
          BY <1>1, <4>1, <4>2, Places
      <3> QED
        BY <1>1, <3>1 DEF Copied
    <2> HIDE DEF p, q, Q, R
    <2>3. /\ Len(past') = n + 1 /\ past'[n + 1] = p /\ \A k \in 1 .. n : past'[k] = past[k]
          /\ Len(outer') = n + 1 /\ outer'[n + 1] = q /\ outer' \in Seq(Q) /\ \A k \in 1 .. n : outer'[k] = outer[k]
      BY <1>2, <2>1, <2>2
    <2>4. \A k \in 1 .. n + 1 : Copied(past'[k], outer'[k])
      <3>1. \A k \in 1 .. n + 1 : k \in 1 .. n \/ k = n + 1
        BY <1>2
      <3> QED
        BY <1>2, <2>2, <2>3, <3>1
    <2> QED
      BY <1>1, <2>1, <2>3, <2>4 DEF SLInv, At, SL!valueAt, Q, Copied
  <1>8. ASSUME NEW l \in 0 .. n - 1, SparseReturns(l) PROVE SLInv'
    <2>1. /\ min' = past[l + 1].min /\ max' = past[l + 1].max /\ vals' = past[l + 1].vals /\ past' = SubSeq(past, 1, l)
          /\ smin' = outer[l + 1].min /\ smax' = outer[l + 1].max /\ svals' = outer[l + 1].vals /\ outer' = SubSeq(outer, 1, l)
      BY <1>8 DEF SparseReturns
    <2>2. l \in 0 .. n /\ l + 1 \in 1 .. n
      BY <1>2
    <2>3. smin' = SL!valueAt(min') /\ smax' = SL!valueAt(max') /\ svals' = At(vals')
      BY <1>2, <2>1, <2>2 DEF Copied
    <2> HIDE DEF R, Q
    <2>4. /\ Len(past') = l /\ (\A k \in 1 .. l : past'[k] = past[k]) /\ outer' \in Seq(Q) /\ Len(outer') = l
          /\ \A k \in 1 .. l : outer'[k] = outer[k]
      BY <1>2, <2>1, <2>2, SP!PrefixType
    <2>5. \A k \in 1 .. l : Copied(past'[k], outer'[k])
      <3>1. \A k \in 1 .. l : k \in 1 .. n
        BY <1>2
      <3> QED
        BY <1>2, <2>4, <3>1
    <2> QED
      BY <1>1, <2>3, <2>4, <2>5 DEF SLInv, At, SL!valueAt, Q, Copied
  <1> QED
    BY <1>4, <1>5, <1>6, <1>7, <1>8, SparseMoves

LEMMA SparseStart ==
  ASSUME SL!Init
  PROVE  SLInv
  <1>1. SP!Init /\ vals = SL!Place /\ smin = SL!valueAt(0) /\ smax = SL!valueAt(Len(values) - 1) /\ svals = SL!Value
        /\ outer = <<>>
    BY SameSparse DEF SL!Init
  <1>2. SP!ELInv
    BY <1>1, SPBounds, SP!InitRight
  <1>3. min = 0 /\ max = Len(values) - 1 /\ past = <<>>
    BY <1>1 DEF SP!Init
  <1> QED
    BY <1>1, <1>2, <1>3 DEF SLInv, At, SL!Value

LEMMA SparseShows ==
  ASSUME kind = "SL"
  PROVE  /\ getMin = smin /\ getMax = smax /\ dom = SL!dom /\ told = changes
         /\ earlier = [l \in DOMAIN past |-> outer[l].vals \cap outer[l].min .. outer[l].max]
  <1>1. "SL" # "LL" /\ "EL" # "SL"
    OBVIOUS
  <1>2. getMin = smin /\ getMax = smax /\ dom = SL!dom /\ told = changes
    BY <1>1, Zenon DEF getMin, getMax, dom, told
  <1>3. earlier = [l \in DOMAIN past |-> outer[l].vals \cap outer[l].min .. outer[l].max]
    BY <1>1, Zenon DEF earlier
  <1> QED
    BY <1>2, <1>3

LEMMA SparseShowsNext ==
  ASSUME kind' = "SL"
  PROVE  /\ getMin' = smin' /\ getMax' = smax' /\ dom' = SL!dom' /\ told' = changes'
         /\ earlier' = [l \in DOMAIN past' |-> outer'[l].vals \cap outer'[l].min .. outer'[l].max]
  <1>1. "SL" # "LL" /\ "EL" # "SL"
    OBVIOUS
  <1>2. getMin' = smin' /\ getMax' = smax' /\ dom' = SL!dom' /\ told' = changes'
    BY <1>1, Zenon DEF getMin, getMax, dom, told
  <1>3. earlier' = [l \in DOMAIN past' |-> outer'[l].vals \cap outer'[l].min .. outer'[l].max]
    BY <1>1, Zenon DEF earlier
  <1> QED
    BY <1>2, <1>3

LEMMA SparseStep ==
  ASSUME kind = "SL", kind' = "SL", SLInv, SL!Next
  PROVE  Promised
  <1> DEFINE n == Len(past)
             R == [min : SL!Place, max : SL!Place, vals : SUBSET SL!Place, len : Nat]
             Q == [min : Int, max : Int, vals : SUBSET Int]
             e == [l \in DOMAIN past |-> outer[l].vals \cap outer[l].min .. outer[l].max]
             f == [l \in DOMAIN past' |-> outer'[l].vals \cap outer'[l].min .. outer'[l].max]
  <1>1. /\ getMin = smin /\ getMax = smax /\ dom = SL!dom /\ earlier = e
        /\ getMin' = smin' /\ getMax' = smax' /\ dom' = SL!dom' /\ told' = changes' /\ earlier' = f
    BY SparseShows, SparseShowsNext
  <1>2. /\ n \in Nat /\ Len(outer) = n /\ DOMAIN past = 1 .. n /\ DOMAIN outer = 1 .. n /\ past \in Seq(R) /\ outer \in Seq(Q)
        /\ \A k \in 1 .. n : Copied(past[k], outer[k])
    BY SparsePast
  <1>3. SL!dom = svals \cap smin .. smax /\ SL!dom' = svals' \cap smin' .. smax'
    BY DEF SL!dom
  <1>4. SP!ELInv /\ smin = SL!valueAt(min) /\ smax = SL!valueAt(max) /\ SL!dom = At(SP!dom) /\ SP!dom \in SUBSET SL!Place
    BY SparseDom, SparseFacts DEF SLInv
  <1>5. CASE SparseFails
    <2>1. confl = {} /\ confl' # {} /\ UNCHANGED <<smin, smax, svals, past, outer>>
      BY <1>5 DEF SparseFails, SP!Fails
    <2> QED
      BY <1>1, <1>3, <2>1 DEF Promised, StepFails
  <1>6. CASE SparseCuts
    <2>1. PICK u \in SL!Place : SP!Cut(SP!From(u)) \/ SP!Cut(SP!Upto(u)) \/ SP!Cut({u}) \/ SP!Cut(SL!Place \ {u})
      BY <1>6 DEF SparseCuts
    <2>2. /\ confl = {} /\ past' = past /\ outer' = outer /\ confl' = {} /\ SP!Told /\ SP!DomRight(min', max', vals')
          /\ smin' = SL!valueAt(min') /\ smax' = SL!valueAt(max') /\ svals' = At(vals')
      BY <1>6, <2>1 DEF SparseCuts, SP!Cut, SP!Enqueued
    <2>3. vals' \in SUBSET SL!Place /\ min' \in SL!Place /\ max' \in SL!Place /\ min' \in vals' /\ min' <= max'
      BY <2>2, Places DEF SP!DomRight
    <2>4. SL!dom' = At(vals' \cap min' .. max')
      BY <1>3, <2>2, <2>3, AtBetween
    <2>5. /\ SL!valueAt(u) \in Any
          /\ \A i \in SL!Place : /\ SL!valueAt(i) \in Any /\ i \in Int
                                 /\ (i >= u <=> SL!valueAt(i) >= SL!valueAt(u)) /\ (i <= u <=> SL!valueAt(i) <= SL!valueAt(u))
                                 /\ (i = u <=> SL!valueAt(i) = SL!valueAt(u))
      <3>1. \A i \in SL!Place : SL!valueAt(i) \in Any
        <4>1. \A i \in SL!Place : SL!valueAt(i) = values[i + 1] /\ i + 1 \in DOMAIN values
          BY Places, ValuesAssumption
        <4> QED
          BY <4>1 DEF Any
      <3> QED
        BY <3>1, Places
    <2>6. SP!Value = SL!Place
      BY Places
    <2>7. \E A \in D!Conditions : dom' = dom \cap A
      <3>1. CASE SP!Cut(SP!From(u))
        <4>1. vals' \cap min' .. max' = SP!dom \cap {i \in SL!Place : i >= u}
          BY <2>6, <3>1 DEF SP!Cut, SP!From
        <4>2. dom' = dom \cap {d \in Any : d >= SL!valueAt(u)}
          BY <1>1, <1>4, <2>4, <2>5, <4>1 DEF At
        <4> QED
          BY <2>5, <4>2, IsCondition
      <3>2. CASE SP!Cut(SP!Upto(u))
        <4>1. vals' \cap min' .. max' = SP!dom \cap {i \in SL!Place : i <= u}
          BY <2>6, <3>2 DEF SP!Cut, SP!Upto
        <4>2. dom' = dom \cap {d \in Any : d <= SL!valueAt(u)}
          BY <1>1, <1>4, <2>4, <2>5, <4>1 DEF At
        <4> QED
          BY <2>5, <4>2, IsCondition
      <3>3. CASE SP!Cut({u})
        <4>1. vals' \cap min' .. max' = SP!dom \cap {u}
          BY <3>3 DEF SP!Cut
        <4>2. dom' = dom \cap {SL!valueAt(u)}
          BY <1>1, <1>4, <2>4, <2>5, <4>1 DEF At
        <4> QED
          BY <2>5, <4>2, IsCondition
      <3>4. CASE SP!Cut(SL!Place \ {u})
        <4>1. vals' \cap min' .. max' = SP!dom \cap (SL!Place \ {u})
          BY <3>4 DEF SP!Cut
        <4>2. dom' = dom \cap (Any \ {SL!valueAt(u)})
          BY <1>1, <1>4, <2>4, <2>5, <4>1 DEF At
        <4> QED
          BY <2>5, <4>2, IsCondition
      <3> QED
        BY <2>1, <3>1, <3>2, <3>3, <3>4
    <2>8. dom' # {}
      <3>1. min' \in vals' \cap min' .. max'
        BY <2>3, Places
      <3> QED
        BY <1>1, <2>4, <3>1 DEF At
    <2>9. (min' = min => smin' = smin) /\ (max' = max => smax' = smax) /\ (smin' = smax' => min' = max')
      BY <1>4, <2>2, <2>3, Places
    <2>10. StepCuts
      BY <1>1, <2>2, <2>7, <2>8, <2>9 DEF StepCuts, SP!Told
    <2> QED
      BY <2>10 DEF Promised
  <1>7. CASE SparseRests
    BY <1>1, <1>3, <1>7 DEF SparseRests, Promised, StepRests
  <1>8. CASE SparseOpens
    <2> DEFINE p == [min |-> min, max |-> max, vals |-> vals, len |-> Len(trail)]
               q == [min |-> smin, max |-> smax, vals |-> svals]
    <2>1. confl = {} /\ UNCHANGED <<confl, smin, smax, svals>> /\ past' = Append(past, p) /\ outer' = Append(outer, q)
      BY <1>8 DEF SparseOpens
    <2>2. q.min = smin /\ q.max = smax /\ q.vals = svals
      OBVIOUS
    <2> HIDE DEF p, q, R, Q
    <2>3. /\ DOMAIN past' = 1 .. n + 1 /\ outer'[n + 1] = q /\ n + 1 \in 1 .. n + 1
          /\ \A k \in 1 .. n : outer'[k] = outer[k] /\ k \in 1 .. n + 1
      BY <1>2, <2>1
    <2>4. f[n + 1] = dom
      BY <1>1, <1>3, <2>2, <2>3
    <2>5. OnFirst(e, n) /\ OnFirst(f, n + 1) /\ \A k \in 1 .. n : f[k] = e[k]
      BY <1>2, <2>3 DEF OnFirst
    <2> HIDE DEF e, f
    <2>6. f = Append(e, f[n + 1])
      BY <1>2, <2>5, EarlierAppend
    <2>7. StepOpens
      BY <1>1, <1>3, <2>1, <2>4, <2>6 DEF StepOpens
    <2> QED
      BY <2>7 DEF Promised
  <1>9. ASSUME NEW l \in 0 .. n - 1, SparseReturns(l) PROVE Promised
    <2>1. /\ confl' = {} /\ past' = SubSeq(past, 1, l)
          /\ smin' = outer[l + 1].min /\ smax' = outer[l + 1].max /\ svals' = outer[l + 1].vals /\ outer' = SubSeq(outer, 1, l)
      BY <1>9 DEF SparseReturns
    <2>2. l \in 0 .. Len(past) /\ l \in 0 .. Len(outer) /\ l + 1 \in 1 .. n /\ l \in Nat
      BY <1>2
    <2>3. past' \in Seq(R) /\ Len(past') = l /\ Len(outer') = l /\ \A k \in 1 .. l : outer'[k] = outer[k]
      <3> HIDE DEF R, Q
      <3> QED
        BY <1>2, <2>1, <2>2, SP!PrefixType
    <2>4. DOMAIN past' = 1 .. l /\ \A k \in 1 .. l : k \in 1 .. n
      BY <1>2, <2>2, <2>3
    <2>5. dom' = e[l + 1]
      BY <1>1, <1>2, <1>3, <2>1, <2>2
    <2>6. OnFirst(e, n) /\ OnFirst(f, l) /\ \A k \in 1 .. l : f[k] = e[k]
      BY <1>2, <2>3, <2>4 DEF OnFirst
    <2> HIDE DEF e, f
    <2>7. f = SubSeq(e, 1, l) /\ Len(e) = n
      BY <1>2, <2>2, <2>6, EarlierPrefix
    <2>8. StepReturns
      BY <1>1, <1>2, <2>1, <2>3, <2>5, <2>7, SMTT(30) DEF StepReturns
    <2> QED
      BY <2>8 DEF Promised
  <1> QED
    BY <1>5, <1>6, <1>7, <1>8, <1>9, SparseMoves

-----------------------------------------------------------------------------
(* The representation with lazy literals.                                    *)

LEMMA SameLazy ==
  /\ LL!dom = LP!dom /\ (LL!Init <=> LP!Init) /\ (LL!Next <=> LP!Next)
  /\ (LL!LiteralsAgree <=> LP!LiteralsAgree) /\ (LL!EnqueuedRightly <=> LP!EnqueuedRightly)
  /\ (LL!ListMarksBounds <=> LP!ListMarksBounds)
  <1> USE DEF LL!Value, LP!Value, LL!dom, LP!dom, LL!ge, LP!ge, LL!le, LP!le, LL!valLit, LP!valLit,
            LL!Constant, LP!Constant, LL!neg, LP!neg, LL!Given, LP!Given, LL!entry, LP!entry,
            LL!assigns, LP!assigns, LL!isTrue, LP!isTrue, LL!isFalse, LP!isFalse, LL!isUndef,
            LP!isUndef
  <1>1. \A s, w : LL!reached(s, w) = LP!reached(s, w)
    BY DEF LL!reached, LP!reached
  <1>2. \A s, n, w : LL!inserted(s, n, w) = LP!inserted(s, n, w)
    BY DEF LL!inserted, LP!inserted
  <1>3. \A s, v : LL!withGE(s, v) = LP!withGE(s, v)
    BY <1>1, <1>2 DEF LL!withGE, LP!withGE
  <1>4. \A s, v : LL!getGELit(s, v) = LP!getGELit(s, v)
    BY <1>1, <1>3 DEF LL!getGELit, LP!getGELit
  <1>5. \A s, v : LL!withLE(s, v) = LP!withLE(s, v) /\ LL!getLELit(s, v) = LP!getLELit(s, v)
    BY <1>3, <1>4 DEF LL!withLE, LP!withLE, LL!getLELit, LP!getLELit
  <1>6. \A s, v, p : LL!channelMin(s, v, p) = LP!channelMin(s, v, p) /\ LL!channelMax(s, v, p) = LP!channelMax(s, v, p)
    BY DEF LL!channelMin, LP!channelMin, LL!channelMax, LP!channelMax
  <1>7. \A s : LL!updateFixed(s) = LP!updateFixed(s)
    BY DEF LL!updateFixed, LP!updateFixed
  <1>8. \A s, v : LL!raiseMin(s, v) = LP!raiseMin(s, v)
    BY <1>3, <1>4, <1>6, <1>7 DEF LL!raiseMin, LP!raiseMin
  <1>9. \A s, v : LL!lowerMax(s, v) = LP!lowerMax(s, v)
    BY <1>5, <1>6, <1>7 DEF LL!lowerMax, LP!lowerMax
  <1>10. \A s, v : LL!assigned(s, v) = LP!assigned(s, v)
    BY <1>8, <1>9 DEF LL!assigned, LP!assigned
  <1>11. \A s : LL!changed(s) <=> LP!changed(s)
    BY DEF LL!changed, LP!changed
  <1>12. \A l : LL!fail(l) <=> LP!fail(l)
    BY DEF LL!fail, LP!fail
  <1>13. \A v : LL!setMin(v) <=> LP!setMin(v)
    BY <1>4, <1>8, <1>11, <1>12 DEF LL!setMin, LP!setMin
  <1>14. \A v : LL!setMax(v) <=> LP!setMax(v)
    BY <1>5, <1>9, <1>11, <1>12 DEF LL!setMax, LP!setMax
  <1>15. \A v : LL!setVal(v) <=> LP!setVal(v)
    BY <1>4, <1>5, <1>10, <1>11, <1>12 DEF LL!setVal, LP!setVal
  <1>16. \A n : LL!channel(n) <=> LP!channel(n)
    BY <1>8, <1>9, <1>11 DEF LL!channel, LP!channel
  <1>17. \A v, rel : LL!getLit(v, rel) <=> LP!getLit(v, rel)
    BY <1>3, <1>5 DEF LL!getLit, LP!getLit
  <1>18. \A l : LL!btToLevel(l) <=> LP!btToLevel(l)
    BY DEF LL!btToLevel, LP!btToLevel, LL!restored, LP!restored
  <1>19. /\ LL!wakePropagators <=> LP!wakePropagators
         /\ LL!newDecisionLevel <=> LP!newDecisionLevel
         /\ LL!unsatisfiable <=> LP!unsatisfiable
    BY DEF LL!wakePropagators, LP!wakePropagators, LL!newDecisionLevel, LP!newDecisionLevel, LL!unsatisfiable, LP!unsatisfiable, LL!vars, LP!vars
  <1>20. LL!Next <=> LP!Next
    BY <1>13, <1>14, <1>15, <1>16, <1>17, <1>18, <1>19 DEF LL!Next, LP!Next
  <1>21. LL!dom = LP!dom /\ (LL!Init <=> LP!Init)
    BY DEF LL!Init, LP!Init
  <1>22. LL!LiteralsAgree <=> LP!LiteralsAgree
    BY DEF LL!LiteralsAgree, LP!LiteralsAgree, LL!Nodes, LP!Nodes
  <1>23. LL!EnqueuedRightly <=> LP!EnqueuedRightly
    BY DEF LL!EnqueuedRightly, LP!EnqueuedRightly, LL!Says, LP!Says, LL!Cardinality, LP!Cardinality, LL!IsFiniteSet, LP!IsFiniteSet
  <1>24. LL!ListMarksBounds <=> LP!ListMarksBounds
    BY DEF LL!ListMarksBounds, LP!ListMarksBounds, LL!TypeOK, LP!TypeOK, LL!ListSorted, LP!ListSorted, LL!PlacesMarkBounds, LP!PlacesMarkBounds, LL!Nodes, LP!Nodes, LL!Lit, LP!Lit
  <1> QED
    BY <1>20, <1>21, <1>22, <1>23, <1>24

LEMMA LazyShows ==
  ASSUME kind = "LL"
  PROVE  /\ getMin = x.min /\ getMax = x.max /\ dom = x.min .. x.max /\ told = x.changes
         /\ earlier = [l \in DOMAIN past |-> past[l].min .. past[l].max]
  <1>1. "LL" # "EL" /\ "LL" # "SL"
    OBVIOUS
  <1>2. getMin = x.min /\ getMax = x.max /\ dom = LL!dom /\ told = x.changes
    BY <1>1, Zenon DEF getMin, getMax, dom, told
  <1>3. earlier = [l \in DOMAIN past |-> past[l].min .. past[l].max]
    BY <1>1, Zenon DEF earlier
  <1> QED
    BY <1>2, <1>3 DEF LL!dom

LEMMA LazyShowsNext ==
  ASSUME kind' = "LL"
  PROVE  /\ getMin' = x'.min /\ getMax' = x'.max /\ dom' = x'.min .. x'.max /\ told' = x'.changes
         /\ earlier' = [l \in DOMAIN past' |-> past'[l].min .. past'[l].max]
  <1>1. "LL" # "EL" /\ "LL" # "SL"
    OBVIOUS
  <1>2. getMin' = x'.min /\ getMax' = x'.max /\ dom' = LL!dom' /\ told' = x'.changes
    BY <1>1, Zenon DEF getMin, getMax, dom, told
  <1>3. earlier' = [l \in DOMAIN past' |-> past'[l].min .. past'[l].max]
    BY <1>1, Zenon DEF earlier
  <1> QED
    BY <1>2, <1>3 DEF LL!dom

LEMMA LazyStep ==
  ASSUME kind = "LL", kind' = "LL", LP!LLInv, LP!Next
  PROVE  Promised
  <1> DEFINE n == Len(past)
             e == [l \in DOMAIN past |-> past[l].min .. past[l].max]
             f == [l \in DOMAIN past' |-> past'[l].min .. past'[l].max]
  <1>1. /\ getMin = x.min /\ getMax = x.max /\ dom = x.min .. x.max /\ earlier = e
        /\ getMin' = x'.min /\ getMax' = x'.max /\ dom' = x'.min .. x'.max /\ told' = x'.changes /\ earlier' = f
    BY LazyShows, LazyShowsNext
  <1>2. past \in Seq(LP!LevelType) /\ n \in Nat /\ DOMAIN past = 1 .. n
    <2>1. past \in Seq(LP!LevelType)
      BY DEF LP!LLInv, LP!PastRight
    <2> QED
      BY <2>1
  <1>3. LP!StateRight(x) /\ x.min \in Int /\ x.max \in Int /\ lowest <= x.min /\ x.max <= highest /\ lowest \in Int /\ highest \in Int
    <2>1. LP!StateRight(x)
      BY DEF LP!LLInv
    <2> QED
      BY <2>1, LPBounds, LP!StateFacts
  <1>4. dom \subseteq Any /\ \A d \in dom : d \in Int /\ x.min <= d /\ d <= x.max
    BY <1>1, <1>3 DEF Any
  <1>5. CASE LP!Fails
    <2>1. confl = {} /\ confl' # {} /\ x' = x /\ past' = past
      BY <1>5 DEF LP!Fails
    <2> QED
      BY <1>1, <2>1 DEF Promised, StepFails
  <1>6. CASE LP!Cuts
    <2>1. confl = {} /\ confl' = {} /\ past' = past /\ in_queue' = TRUE /\ LP!Narrowed(x, x')
      BY <1>6 DEF LP!Cuts
    <2>2. /\ "C" \in told' /\ (getMin' # getMin => "L" \in told') /\ (getMax' # getMax => "U" \in told')
          /\ (getMin' = getMax' => "F" \in told')
      BY <1>1, <2>1 DEF LP!Narrowed
    <2>3. x'.min \in Int /\ x'.max \in Int /\ x'.min <= x'.max
      <3>1. LP!StateRight(x')
        BY <2>1 DEF LP!Narrowed
      <3> QED
        BY <3>1, LPBounds, LP!StateFacts
    <2>4. PICK v \in LP!Value : /\ x.min <= v /\ v <= x.max
                                /\ \/ x'.min = v /\ x'.max = x.max
                                   \/ x'.min = x.min /\ x'.max = v
                                   \/ x'.min = v /\ x'.max = v
      BY <1>6 DEF LP!Cuts
    <2>5. v \in Int /\ v \in Any
      BY <1>3, <2>4 DEF LP!Value, Any
    <2>6. \E A \in D!Conditions : dom' = dom \cap A
      <3>1. CASE x'.min = v /\ x'.max = x.max
        <4>1. dom' = dom \cap {d \in Any : d >= v}
          BY <1>1, <1>3, <1>4, <2>4, <2>5, <3>1
        <4> QED
          BY <2>5, <4>1, IsCondition
      <3>2. CASE x'.min = x.min /\ x'.max = v
        <4>1. dom' = dom \cap {d \in Any : d <= v}
          BY <1>1, <1>3, <1>4, <2>4, <2>5, <3>2
        <4> QED
          BY <2>5, <4>1, IsCondition
      <3>3. CASE x'.min = v /\ x'.max = v
        <4>1. dom' = dom \cap {v}
          BY <1>1, <1>3, <2>4, <2>5, <3>3
        <4> QED
          BY <2>5, <4>1, IsCondition
      <3> QED
        BY <2>4, <3>1, <3>2, <3>3
    <2>7. dom' # {}
      BY <1>1, <2>3
    <2>8. earlier' = earlier
      BY <1>1, <2>1
    <2>9. StepCuts
      BY <2>1, <2>2, <2>6, <2>7, <2>8 DEF StepCuts
    <2> QED
      BY <2>9 DEF Promised
  <1>7. CASE LP!Asks
    <2>1. x'.min = x.min /\ x'.max = x.max /\ confl' = confl /\ past' = past
      BY <1>7 DEF LP!Asks, LP!Looked
    <2> QED
      BY <1>1, <2>1 DEF Promised, StepRests
  <1>8. CASE LP!Wakes
    <2>1. x'.min = x.min /\ x'.max = x.max /\ confl' = confl /\ past' = past
      BY <1>8, LPBounds, LP!WakeKeeps DEF LP!Wakes
    <2> QED
      BY <1>1, <2>1 DEF Promised, StepRests
  <1>9. CASE LP!Opens
    <2> DEFINE p == [li |-> x.li, hi |-> x.hi, min |-> x.min, max |-> x.max, len |-> Len(x.trail)]
    <2>1. confl = {} /\ UNCHANGED <<x, confl>> /\ past' = Append(past, p)
      BY <1>9 DEF LP!Opens
    <2>2. /\ DOMAIN past' = 1 .. n + 1 /\ past'[n + 1] = p /\ \A k \in 1 .. n : past'[k] = past[k] /\ k \in 1 .. n + 1
          /\ n + 1 \in 1 .. n + 1
      BY <1>2, <2>1
    <2>3. f[n + 1] = dom
      BY <1>1, <2>2
    <2>4. OnFirst(e, n) /\ OnFirst(f, n + 1) /\ \A k \in 1 .. n : f[k] = e[k]
      BY <1>2, <2>2 DEF OnFirst
    <2> HIDE DEF e, f, p
    <2>5. f = Append(e, f[n + 1])
      BY <1>2, <2>4, EarlierAppend
    <2>6. StepOpens
      BY <1>1, <2>1, <2>3, <2>5 DEF StepOpens
    <2> QED
      BY <2>6 DEF Promised
  <1>10. ASSUME NEW l \in 0 .. n - 1, LP!Returns(l) PROVE Promised
    <2>1. x'.min = past[l + 1].min /\ x'.max = past[l + 1].max /\ past' = SubSeq(past, 1, l) /\ confl' = {}
      <3>1. x'.min = past[l + 1].min /\ x'.max = past[l + 1].max
        BY <1>10, LPBounds, LP!BackKeeps
      <3> QED
        BY <1>10, <3>1 DEF LP!Returns
    <2>2. l \in 0 .. Len(past) /\ l + 1 \in 1 .. n /\ l \in Nat
      BY <1>2
    <2>3. past' \in Seq(LP!LevelType) /\ Len(past') = l /\ \A k \in 1 .. l : past'[k] = past[k]
      BY <1>2, <2>1, <2>2, LP!PrefixType
    <2>4. DOMAIN past' = 1 .. l /\ \A k \in 1 .. l : k \in 1 .. n
      BY <1>2, <2>2, <2>3
    <2>5. dom' = e[l + 1]
      BY <1>1, <1>2, <2>1, <2>2
    <2>6. OnFirst(e, n) /\ OnFirst(f, l) /\ \A k \in 1 .. l : f[k] = e[k]
      BY <1>2, <2>3, <2>4 DEF OnFirst
    <2> HIDE DEF e, f
    <2>7. f = SubSeq(e, 1, l) /\ Len(e) = n
      BY <1>2, <2>2, <2>6, EarlierPrefix
    <2>8. StepReturns
      BY <1>1, <1>2, <2>1, <2>3, <2>5, <2>7 DEF StepReturns
    <2> QED
      BY <2>8 DEF Promised
  <1>11. CASE UNCHANGED LP!vars
    <2>1. x' = x /\ confl' = confl /\ past' = past
      BY <1>11 DEF LP!vars
    <2> QED
      BY <1>1, <2>1 DEF Promised, StepRests
  <1> QED
    BY <1>5, <1>6, <1>7, <1>8, <1>9, <1>10, <1>11, LP!Moves, LPBounds

-----------------------------------------------------------------------------
(* All three.                                                                *)

(* One variable is one of the three, and keeps the invariant of that one.    *)
IVInv ==
  \/ kind = "EL" /\ EP!ELInv
  \/ kind = "LL" /\ LP!LLInv
  \/ kind = "SL" /\ SLInv

LEMMA VariableStarts ==
  ASSUME Init
  PROVE  IVInv
  <1>1. CASE kind = "EL" /\ EL!Init
    BY <1>1, SameEager, EPBounds, EP!InitRight DEF IVInv
  <1>2. CASE kind = "LL" /\ LL!Init
    BY <1>2, SameLazy, LPBounds, LP!InitRight DEF IVInv
  <1>3. CASE kind = "SL" /\ SL!Init
    BY <1>3, SparseStart DEF IVInv
  <1> QED
    BY <1>1, <1>2, <1>3 DEF Init

LEMMA VariableRests ==
  ASSUME IVInv, UNCHANGED vars
  PROVE  IVInv'
  <1>1. /\ kind' = kind /\ UNCHANGED <<confl, in_queue, past>> /\ UNCHANGED x
        /\ UNCHANGED <<min, max, vals, trail, changes>> /\ UNCHANGED <<smin, smax, svals, outer>>
    BY DEF vars, eager, sparse
  <1>2. CASE kind = "EL" /\ EP!ELInv
    <2>1. UNCHANGED EP!vars
      BY <1>1 DEF EP!vars
    <2>2. EP!ELInv'
      BY <1>2, <2>1, EPBounds, EP!ELNext
    <2> QED
      BY <1>1, <1>2, <2>2 DEF IVInv
  <1>3. CASE kind = "LL" /\ LP!LLInv
    <2>1. UNCHANGED LP!vars
      BY <1>1 DEF LP!vars
    <2>2. LP!LLInv'
      BY <1>3, <2>1, LPBounds, LP!LLNext
    <2> QED
      BY <1>1, <1>3, <2>2 DEF IVInv
  <1>4. CASE kind = "SL" /\ SLInv
    <2>1. UNCHANGED SP!vars
      BY <1>1 DEF SP!vars
    <2>2. SP!ELInv'
      BY <1>4, <2>1, SPBounds, SP!ELNext DEF SLInv
    <2>3. SLInv'
      BY <1>1, <1>4, <2>2 DEF SLInv, Copied, At
    <2> QED
      BY <1>1, <1>4, <2>3 DEF IVInv
  <1> QED
    BY <1>2, <1>3, <1>4 DEF IVInv

LEMMA VariableKeeps ==
  ASSUME IVInv, [Next]_vars
  PROVE  IVInv'
  <1>0. "EL" # "LL" /\ "EL" # "SL" /\ "LL" # "SL"
    OBVIOUS
  <1>1. CASE kind = "EL" /\ EL!Next /\ kind' = kind
    <2>1. EP!ELInv
      BY <1>0, <1>1 DEF IVInv
    <2>2. EP!ELInv'
      BY <1>1, <2>1, SameEager, EPBounds, EP!ELNext
    <2> QED
      BY <1>1, <2>2 DEF IVInv
  <1>2. CASE kind = "LL" /\ LL!Next /\ kind' = kind
    <2>1. LP!LLInv
      BY <1>0, <1>2 DEF IVInv
    <2>2. LP!LLInv'
      BY <1>2, <2>1, SameLazy, LPBounds, LP!LLNext
    <2> QED
      BY <1>2, <2>2 DEF IVInv
  <1>3. CASE kind = "SL" /\ SL!Next /\ kind' = kind
    <2>1. SLInv
      BY <1>0, <1>3 DEF IVInv
    <2>2. SLInv'
      BY <1>3, <2>1, SparseKeeps
    <2> QED
      BY <1>3, <2>2 DEF IVInv
  <1>4. CASE UNCHANGED vars
    BY <1>4, VariableRests
  <1> QED
    BY <1>1, <1>2, <1>3, <1>4 DEF Next

LEMMA VariableSteps ==
  ASSUME IVInv, Next
  PROVE  Promised
  <1>0. "EL" # "LL" /\ "EL" # "SL" /\ "LL" # "SL"
    OBVIOUS
  <1>1. CASE kind = "EL" /\ EL!Next /\ kind' = kind
    <2>1. EP!ELInv
      BY <1>0, <1>1 DEF IVInv
    <2>2. EP!Next /\ kind' = "EL"
      BY <1>1, SameEager
    <2> QED
      BY <1>1, <2>1, <2>2, EagerStep
  <1>2. CASE kind = "LL" /\ LL!Next /\ kind' = kind
    <2>1. LP!LLInv
      BY <1>0, <1>2 DEF IVInv
    <2>2. LP!Next /\ kind' = "LL"
      BY <1>2, SameLazy
    <2> QED
      BY <1>2, <2>1, <2>2, LazyStep
  <1>3. CASE kind = "SL" /\ SL!Next /\ kind' = kind
    <2>1. SLInv /\ kind' = "SL"
      BY <1>0, <1>3 DEF IVInv
    <2> QED
      BY <1>3, <2>1, SparseStep
  <1> QED
    BY <1>1, <1>2, <1>3 DEF Next

LEMMA PastIsFinite ==
  ASSUME IVInv
  PROVE  Len(past) \in Nat
  <1>1. CASE EP!ELInv
    BY <1>1, EagerPast
  <1>2. CASE LP!LLInv
    <2>1. past \in Seq(LP!LevelType)
      BY <1>2 DEF LP!LLInv, LP!PastRight
    <2> QED
      BY <2>1
  <1>3. CASE SLInv
    BY <1>3, SparsePast
  <1> QED
    BY <1>1, <1>2, <1>3 DEF IVInv

LEMMA NoLevel ==
  ASSUME NEW e, OnFirst(e, 0)
  PROVE  e = <<>>
  <1>1. e \in [1 .. 0 -> {}]
    BY DEF OnFirst
  <1>2. e \in Seq({}) /\ 0 \in Nat
    BY <1>1, FunctionSeq
  <1>3. Len(e) = 0
    BY <1>1, <1>2
  <1> QED
    BY <1>2, <1>3, EmptySeq

LEMMA DomainStarts ==
  ASSUME Init
  PROVE  D!DInit
  <1>1. confl = {} /\ past = <<>>
    BY DEF Init, EL!Init, LL!Init, SL!Init, SL!el!Init
  <1>2. earlier = <<>>
    <2>1. DOMAIN past = 1 .. 0
      BY <1>1
    <2>2. OnFirst(earlier, 0)
      BY <2>1 DEF OnFirst, earlier
    <2> QED
      BY <2>2, NoLevel
  <1>3. dom \in SUBSET Any /\ dom # {}
    <2>1. CASE kind = "EL" /\ EL!Init
      <3>1. dom = vals \cap min .. max /\ min = lowest /\ max = highest /\ lowest \in vals
        BY <2>1, EagerShows DEF EP!dom, EL!Init
      <3> QED
        BY <3>1, BoundsAssumption DEF Any
    <2>2. CASE kind = "LL" /\ LL!Init
      <3>1. dom = lowest .. highest
        BY <2>2, LazyShows DEF LL!Init
      <3> QED
        BY <3>1, BoundsAssumption DEF Any
    <2>3. CASE kind = "SL" /\ SL!Init
      <3>1. SLInv
        BY <2>3, SparseStart
      <3>2. SP!ELInv
        BY <3>1 DEF SLInv
      <3>3. min \in SL!Place /\ SP!dom \in SUBSET SL!Place
        BY <3>2, SparseFacts
      <3>4. dom = At(SP!dom) /\ smin \in dom
        BY <2>3, <3>1, SparseShows, SparseDom
      <3>5. At(SP!dom) \in SUBSET Any
        BY <3>3, AtBetween
      <3> QED
        BY <3>4, <3>5
    <2> QED
      BY <2>1, <2>2, <2>3 DEF Init
  <1>4. (confl # {}) = FALSE
    BY <1>1
  <1>5. dom \in (SUBSET (lowest .. highest \cup {values[i] : i \in DOMAIN values})) \ {{}}
    BY <1>3 DEF Any
  <1> QED
    BY <1>2, <1>4, <1>5, Zenon DEF D!DInit

(* The invariant of the representation holds throughout, for any bounds, any *)
(* list of values and any number of levels.                                  *)
THEOREM VariableInvariance == Spec => []IVInv
  <1>1. Init => IVInv
    BY VariableStarts
  <1>2. IVInv /\ [Next]_vars => IVInv'
    BY VariableKeeps
  <1> QED
    BY <1>1, <1>2, PTL DEF Spec

(* Domain and literals say the same in each representation, in whatever order *)
(* changes are called for, channelled from literals and taken back.           *)
THEOREM LiteralsSayTheDomain == Spec => []LiteralsAgree
  <1>1. IVInv => LiteralsAgree
    <2> SUFFICES ASSUME IVInv PROVE LiteralsAgree
      OBVIOUS
    <2>0. "EL" # "LL" /\ "EL" # "SL" /\ "LL" # "SL"
      OBVIOUS
    <2>1. CASE kind = "EL" /\ EP!ELInv
      <3>1. EL!LiteralsAgree
        BY <2>1, SameEager, EPBounds, EP!LiteralsFollow
      <3> QED
        BY <2>0, <2>1, <3>1, Zenon DEF LiteralsAgree
    <2>2. CASE kind = "LL" /\ LP!LLInv
      <3>1. LL!LiteralsAgree
        BY <2>2, SameLazy, LPBounds, LP!LiteralsFollow
      <3> QED
        BY <2>0, <2>2, <3>1, Zenon DEF LiteralsAgree
    <2>3. CASE kind = "SL" /\ SLInv
      <3>1. SL!LiteralsAgree
        BY <2>3, SparseLits
      <3> QED
        BY <2>0, <2>3, <3>1, Zenon DEF LiteralsAgree
    <2> QED
      BY <2>1, <2>2, <2>3 DEF IVInv
  <1> QED
    BY <1>1, VariableInvariance, PTL

(* What setMin, setMax, setVal, remVal and the channelling enqueue is open,   *)
(* and its reason is a law of integers that was false before.                 *)
THEOREM LiteralsEnqueuedInOrder == Spec => []EnqueuedRightly
  <1>1. IVInv => EnqueuedRightly
    <2> SUFFICES ASSUME IVInv PROVE EnqueuedRightly
      OBVIOUS
    <2>0. "EL" # "LL" /\ "EL" # "SL" /\ "LL" # "SL"
      OBVIOUS
    <2>1. CASE kind = "EL" /\ EP!ELInv
      <3>1. EL!EnqueuedRightly
        BY <2>1, SameEager, EPBounds, EP!EnqueuedInOrder
      <3> QED
        BY <2>0, <2>1, <3>1, Zenon DEF EnqueuedRightly
    <2>2. CASE kind = "LL" /\ LP!LLInv
      <3>1. LL!EnqueuedRightly
        BY <2>2, SameLazy, LPBounds, LP!EnqueuedInOrder
      <3> QED
        BY <2>0, <2>2, <3>1, Zenon DEF EnqueuedRightly
    <2>3. CASE kind = "SL" /\ SLInv
      <3>1. SP!ELInv
        BY <2>3 DEF SLInv
      <3>2. SL!el!EnqueuedRightly
        BY <3>1, SameSparse, SPBounds, SP!EnqueuedInOrder
      <3> QED
        BY <2>0, <2>3, <3>2, Zenon DEF EnqueuedRightly
    <2> QED
      BY <2>1, <2>2, <2>3 DEF IVInv
  <1> QED
    BY <1>1, VariableInvariance, PTL

(* The list of lazy literals stays sorted and linked both ways, and the places *)
(* that the trail brings back mark the bounds in the list as it is then.       *)
THEOREM ListKeepsItsPlaces == Spec => []ListMarksBounds
  <1>1. IVInv => ListMarksBounds
    <2> SUFFICES ASSUME IVInv, kind = "LL" PROVE LL!ListMarksBounds
      BY DEF ListMarksBounds
    <2>1. LP!LLInv
      <3>1. "EL" # "LL" /\ "LL" # "SL"
        OBVIOUS
      <3> QED
        BY <3>1 DEF IVInv
    <2> QED
      BY <2>1, SameLazy, LPBounds, LP!ListFollows
  <1> QED
    BY <1>1, VariableInvariance, PTL

(* No change of the domain goes untold: the events that wake propagators name *)
(* the bound that moved and the value that was fixed, and the variable waits  *)
(* in v_queue to tell them.                                                   *)
THEOREM EventsTold == Spec => ChangesTold
  <1>1. /\ IVInv /\ IVInv' /\ [Next]_vars
        => [Len(past') >= Len(past) =>
              /\ getMin' # getMin => "L" \in told'
              /\ getMax' # getMax => "U" \in told'
              /\ dom' # dom => "C" \in told' /\ in_queue'
              /\ getMin' = getMax' /\ getMin # getMax => "F" \in told']_vars
    <2> SUFFICES ASSUME IVInv, IVInv', Next, Len(past') >= Len(past)
                 PROVE  /\ getMin' # getMin => "L" \in told'
                        /\ getMax' # getMax => "U" \in told'
                        /\ dom' # dom => "C" \in told' /\ in_queue'
                        /\ getMin' = getMax' /\ getMin # getMax => "F" \in told'
      OBVIOUS
    <2>1. Promised
      BY VariableSteps
    <2>2. Len(past) \in Nat /\ Len(past)' \in Nat
      BY PastIsFinite
    <2> QED
      BY <2>1, <2>2, PromisedTold
  <1> QED
    BY <1>1, VariableInvariance, PTL DEF Spec, ChangesTold

(* Each representation implements the abstract domain: a call cuts it down to *)
(* what was asked for, exactly, and fails when nothing would be left; going   *)
(* back brings back the domain of the level.                                  *)
THEOREM VariableNarrows == Spec => NarrowsExactly
  <1>1. Init => D!DInit
    BY DomainStarts
  <1>2. IVInv /\ [Next]_vars => [D!DNext]_<<dom, earlier, confl # {}>>
    <2> SUFFICES ASSUME IVInv, [Next]_vars PROVE [D!DNext]_<<dom, earlier, confl # {}>>
      OBVIOUS
    <2>1. CASE Next
      BY <2>1, VariableSteps, PromisedNarrows
    <2>2. CASE UNCHANGED vars
      <3>1. Promised
        BY <2>2 DEF Promised, StepRests, vars, eager, sparse, getMin, getMax, dom, earlier, EL!dom, LL!dom, SL!dom
      <3> QED
        BY <3>1, PromisedNarrows
    <2> QED
      BY <2>1, <2>2
  <1> QED
    BY <1>1, <1>2, VariableInvariance, PTL DEF Spec, NarrowsExactly, D!DSpec

=============================================================================
