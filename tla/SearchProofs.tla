----------------------------- MODULE SearchProofs -----------------------------
(* Proofs about module Search, for any problem, any options and any sound    *)
(* propagation: the order of levels, and that the search answers rightly.    *)
EXTENDS Search, FiniteSetTheorems, SequenceTheorems, NaturalFacts

(* The inductive invariant.  Types first. *)
Stacked ==
  /\ dom \in Seq(SUBSET Point)
  /\ dec_info \in Seq([lit : SUBSET Point, dummy : BOOLEAN])
  /\ assumptions \in Seq(SUBSET Point)
  /\ best_sol \in Int

Running == pc # "returned" => status = "none"

Nested == \A j, k \in 1 .. Len(dom) : j <= k => dom[k] \subseteq dom[j]

Decided ==
  \A k \in 1 .. decisionLevel :
    /\ dom[k + 1] \subseteq dec_info[k].lit
    /\ k <= Len(assumptions) => dec_info[k].lit = assumptions[k]
    /\ dec_info[k].dummy => k <= Len(assumptions)

(* With learning, a level loses the solutions its decisions exclude, only.   *)
LearningKeeps ==
  so.lazy =>
    /\ Kept \cap excluded = {}
    /\ \A l \in 1 .. Len(dom) : \A s \in Kept :
         (\A k \in 1 .. l - 1 : s \in dec_info[k].lit) => s \in dom[l]

(* Without, what is still wanted is left at the last level or waits in the   *)
(* alternative of a decision.                                                *)
AlternativesKeep ==
  ~ so.lazy =>
    /\ excluded = {}
    /\ \A s \in Wanted :
         s \in left \/ \E k \in 1 .. decisionLevel : s \in dom[k] /\ s \notin dec_info[k].lit

FlippedEmpty == flipped => ~ so.lazy /\ left = {}

(* One assignment left, after propagation, is a solution. *)
FixedKept ==
  pc \in {"fixpoint", "assume"} /\ ~ flipped =>
    \A l \in 1 .. Len(dom) : Cardinality(dom[l]) = 1 => dom[l] \subseteq Kept

ConflictRight == pc = "conflict" => left \cap Kept = {}

(* best_sol is the best of what was printed. *)
Better(v, w) == IF so.goal = "max" THEN v > w ELSE v < w

BestRight ==
  IF so.goal = "all" THEN ~ solution_found
  ELSE /\ solution_found <=> printed # {}
       /\ \A t \in printed : ~ Better(t[opt_var], best_sol)
       /\ printed # {} => \E t \in printed : t[opt_var] = best_sol

(* The user's assumptions stay, and the objective's bound is the last one... *)
UserAssumed ==
  so.hooks = {} =>
    /\ \A i \in 1 .. Len(so.assume) : assumptions[i] = so.assume[i]
    /\ so.goal = "all" => Len(assumptions) = Len(so.assume)
    /\ so.goal # "all" =>
         /\ Len(assumptions) = Len(so.assume) + 1
         /\ assumptions[Len(assumptions)] =
              IF so.lazy /\ printed # {} THEN Bound(best_sol) ELSE lit_True

(* ... or the first one, when hooks add assumptions of their own. *)
HookAssumed ==
  so.hooks # {} /\ solution_found /\ pc # "returned" =>
    assumptions # <<>> /\ assumptions[1] = Bound(best_sol)

(* Without learning the bound holds at the root. *)
RootBounded == ~ so.lazy /\ so.goal # "all" /\ printed # {} => root \subseteq Bound(best_sol)

SInv ==
  /\ TypeOK /\ Stacked /\ Running /\ Nested /\ Decided /\ LearningKeeps /\ AlternativesKeep
  /\ FlippedEmpty /\ FixedKept /\ ConflictRight
  /\ BestRight /\ UserAssumed /\ HookAssumed /\ RootBounded

-----------------------------------------------------------------------------
LEMMA OptionFacts ==
  ASSUME NEW o \in Options
  PROVE  /\ o.goal \in {"all", "min", "max"} /\ o.hooks \subseteq Hook
         /\ o.lazy \in BOOLEAN /\ o.restarts \in BOOLEAN
         /\ o.assume \in Seq(SUBSET Point)
         /\ o.hooks # {} => o.assume = <<>> /\ o.lazy
  BY OptionAssumption

LEMMA WantedKept ==
  /\ Wanted \subseteq Kept /\ Kept \subseteq Solution /\ Solution \subseteq Point
  /\ Wanted \subseteq User
  <1>1. ASSUME NEW s \in Wanted PROVE s \in Kept
    <2>1. s \in Solution
      BY DEF Wanted, User
    <2>2. so.goal = "all" => s \notin printed
      BY DEF Wanted
    <2> QED
      BY <2>1, <2>2 DEF Kept
  <1> QED
    BY <1>1, PointAssumption DEF Kept, Wanted

LEMMA StackFacts ==
  ASSUME SInv
  PROVE  /\ decisionLevel \in Nat /\ Len(dom) = decisionLevel + 1
         /\ left = dom[decisionLevel + 1] /\ root = dom[1]
         /\ \A k \in 1 .. decisionLevel + 1 : dom[k] \subseteq Point
         /\ \A k \in 1 .. decisionLevel : dec_info[k] \in [lit : SUBSET Point, dummy : BOOLEAN]
         /\ left \subseteq Point /\ root \subseteq Point
         /\ \A k \in 1 .. decisionLevel + 1 : left \subseteq dom[k] /\ dom[k] \subseteq root
         /\ Len(assumptions) \in Nat
         /\ \A i \in 1 .. Len(assumptions) : assumptions[i] \subseteq Point
  <1>1. /\ decisionLevel \in Nat /\ Len(dom) = decisionLevel + 1
        /\ dom \in Seq(SUBSET Point)
        /\ dec_info \in Seq([lit : SUBSET Point, dummy : BOOLEAN])
        /\ assumptions \in Seq(SUBSET Point) /\ decisionLevel = Len(dec_info)
    BY DEF SInv, Stacked, TypeOK, decisionLevel
  <1>2. left = dom[decisionLevel + 1] /\ root = dom[1]
    BY <1>1 DEF left, root
  <1>3. \A k \in 1 .. decisionLevel + 1 : dom[k] \in SUBSET Point
    BY <1>1
  <1>4. \A k \in 1 .. decisionLevel : dec_info[k] \in [lit : SUBSET Point, dummy : BOOLEAN]
    BY <1>1, ElementOfSeq
  <1>5. Len(assumptions) \in Nat /\ \A i \in 1 .. Len(assumptions) : assumptions[i] \in SUBSET Point
    <2>1. assumptions \in Seq(SUBSET Point)
      BY <1>1
    <2> QED
      BY <2>1
  <1>6. 1 \in 1 .. decisionLevel + 1 /\ decisionLevel + 1 \in 1 .. decisionLevel + 1
    BY <1>1
  <1>7. \A k \in 1 .. decisionLevel + 1 : left \subseteq dom[k] /\ dom[k] \subseteq root
    BY <1>1, <1>2, <1>6 DEF SInv, Nested
  <1> QED
    BY <1>1, <1>2, <1>3, <1>4, <1>5, <1>6, <1>7

(* What depends on the options and on what was printed only. *)
LEMMA Same ==
  ASSUME UNCHANGED <<so, printed>>
  PROVE  /\ Wanted' = Wanted /\ Kept' = Kept /\ User' = User
         /\ \A b : Bound(b)' = Bound(b)
  BY DEF Wanted, Kept, User, Bound

LEMMA SingleFixed ==
  ASSUME NEW S \in SUBSET Point
  PROVE  /\ IsFiniteSet(S)
         /\ Cardinality(S) = 1 <=> \E s : S = {s}
  <1>1. IsFiniteSet(S)
    BY PointAssumption, FS_Subset
  <1> QED
    BY <1>1, FS_Singleton

-----------------------------------------------------------------------------
(* Steps that leave the levels alone. *)
LEMMA StackKept ==
  ASSUME SInv,
         UNCHANGED <<so, dom, dec_info, excluded, assumptions, printed, best_sol, flipped, solution_found>>,
         TypeOK', Running', FixedKept', ConflictRight', pc = "returned" => pc' = "returned"
  PROVE  SInv'
  <1>1. Wanted' = Wanted /\ Kept' = Kept /\ left' = left /\ root' = root
        /\ decisionLevel' = decisionLevel /\ Bound(best_sol)' = Bound(best_sol)
    BY Same DEF left, root, decisionLevel, Bound
  <1>2. Stacked' /\ Nested' /\ Decided'
    BY <1>1 DEF SInv, Stacked, Nested, Decided
  <1>3. LearningKeeps' /\ AlternativesKeep' /\ FlippedEmpty'
    BY <1>1 DEF SInv, LearningKeeps, AlternativesKeep, FlippedEmpty
  <1>4. BestRight' /\ RootBounded'
    BY <1>1 DEF SInv, BestRight, Better, RootBounded
  <1>5. UserAssumed' /\ HookAssumed'
    BY <1>1 DEF SInv, UserAssumed, HookAssumed, lit_True
  <1> QED
    BY <1>2, <1>3, <1>4, <1>5 DEF SInv

-----------------------------------------------------------------------------
(* Steps that go back to a level, and those that open one. *)
LEMMA CutFacts ==
  ASSUME SInv, NEW d \in 0 .. decisionLevel,
         dom' = SubSeq(dom, 1, d + 1), dec_info' = SubSeq(dec_info, 1, d)
  PROVE  /\ decisionLevel' = d /\ Len(dom') = d + 1
         /\ dom' \in Seq(SUBSET Point)
         /\ dec_info' \in Seq([lit : SUBSET Point, dummy : BOOLEAN])
         /\ \A k \in 1 .. d + 1 : dom'[k] = dom[k]
         /\ \A k \in 1 .. d : dec_info'[k] = dec_info[k]
         /\ left' = dom[d + 1] /\ root' = root
  <1>1. /\ decisionLevel \in Nat /\ Len(dom) = decisionLevel + 1
        /\ \A k \in 1 .. decisionLevel + 1 : dom[k] \in SUBSET Point
        /\ \A k \in 1 .. decisionLevel : dec_info[k] \in [lit : SUBSET Point, dummy : BOOLEAN]
    BY StackFacts
  <1>2. d + 1 \in Nat /\ d \in Nat /\ d <= decisionLevel
    BY <1>1
  <1>3. /\ dom' \in Seq(SUBSET Point) /\ Len(dom') = d + 1
        /\ \A k \in 1 .. d + 1 : dom'[k] = dom[k]
    <2>1. \A k \in 1 .. d + 1 : dom[k] \in SUBSET Point
      BY <1>1, <1>2
    <2> QED
      BY <1>2, <2>1, SubSeqProperties
  <1>4. /\ dec_info' \in Seq([lit : SUBSET Point, dummy : BOOLEAN]) /\ Len(dec_info') = d
        /\ \A k \in 1 .. d : dec_info'[k] = dec_info[k]
    <2>1. \A k \in 1 .. d : dec_info[k] \in [lit : SUBSET Point, dummy : BOOLEAN]
      BY <1>1, <1>2
    <2> QED
      BY <1>2, <2>1, SubSeqProperties
  <1>5. left' = dom[d + 1] /\ root' = root /\ decisionLevel' = d
    BY <1>2, <1>3, <1>4 DEF left, root, decisionLevel
  <1> QED
    BY <1>3, <1>4, <1>5

LEMMA CutStack ==
  ASSUME SInv, NEW d \in 0 .. decisionLevel,
         dom' = SubSeq(dom, 1, d + 1), dec_info' = SubSeq(dec_info, 1, d),
         UNCHANGED <<assumptions, best_sol>>
  PROVE  Stacked' /\ Nested' /\ Decided'
  <1>1. d \in Nat /\ d <= decisionLevel /\ decisionLevel \in Nat /\ Len(dom) = decisionLevel + 1
    BY StackFacts
  <1>2. Stacked'
    BY CutFacts DEF SInv, Stacked
  <1>3. Nested'
    BY <1>1, CutFacts DEF SInv, Nested
  <1>4. Decided'
    <2> SUFFICES ASSUME NEW k \in 1 .. d
                 PROVE  /\ dom'[k + 1] \subseteq dec_info'[k].lit
                        /\ k <= Len(assumptions') => dec_info'[k].lit = assumptions'[k]
                        /\ dec_info'[k].dummy => k <= Len(assumptions')
      BY CutFacts DEF Decided
    <2>1. dom'[k + 1] = dom[k + 1] /\ dec_info'[k] = dec_info[k] /\ k \in 1 .. decisionLevel
      BY <1>1, CutFacts
    <2> QED
      BY <2>1 DEF SInv, Decided
  <1> QED
    BY <1>2, <1>3, <1>4

LEMMA toRootFacts ==
  ASSUME SInv, toRoot
  PROVE  /\ decisionLevel' = 0 /\ Len(dom') = 1 /\ dom'[1] = root
         /\ dom' \in Seq(SUBSET Point)
         /\ dec_info' \in Seq([lit : SUBSET Point, dummy : BOOLEAN])
         /\ left' = root /\ root' = root
         /\ Nested' /\ Decided'
  <1>1. root \in SUBSET Point
    BY StackFacts
  <1>2. /\ decisionLevel' = 0 /\ Len(dom') = 1 /\ dom'[1] = root /\ dom' \in Seq(SUBSET Point)
        /\ dec_info' \in Seq([lit : SUBSET Point, dummy : BOOLEAN])
    BY <1>1 DEF toRoot, decisionLevel
  <1>3. left' = root /\ root' = root
    BY <1>2 DEF left, root
  <1> QED
    BY <1>2, <1>3 DEF Nested, Decided

LEMMA toRootKeeps ==
  ASSUME SInv, toRoot, UNCHANGED <<so, printed, excluded>>
  PROVE  LearningKeeps' /\ AlternativesKeep'
  <1>1. Wanted' = Wanted /\ Kept' = Kept
    BY Same
  <1>2. /\ decisionLevel' = 0 /\ Len(dom') = 1 /\ dom'[1] = root /\ left' = root
        /\ left \subseteq root /\ \A k \in 1 .. decisionLevel + 1 : dom[k] \subseteq root
        /\ decisionLevel \in Nat /\ Len(dom) = decisionLevel + 1 /\ root = dom[1]
    BY toRootFacts, StackFacts
  <1>3. LearningKeeps'
    <2> SUFFICES ASSUME so.lazy
                 PROVE  Kept \cap excluded = {} /\ \A s \in Kept : s \in root
      BY <1>1, <1>2 DEF LearningKeeps
    <2>1. 1 \in 1 .. Len(dom) /\ \A k \in 1 .. 1 - 1 : FALSE
      BY <1>2
    <2> QED
      BY <2>1, <1>2 DEF SInv, LearningKeeps
  <1>4. AlternativesKeep'
    <2> SUFFICES ASSUME ~ so.lazy
                 PROVE  excluded = {} /\ \A s \in Wanted : s \in root
      BY <1>1, <1>2 DEF AlternativesKeep
    <2>1. \A k \in 1 .. decisionLevel : k \in 1 .. decisionLevel + 1
      BY <1>2
    <2> QED
      BY <2>1, <1>2 DEF SInv, AlternativesKeep
  <1> QED
    BY <1>3, <1>4

(* A literal is decided, or an assumption that is true gets a level. *)
LEMMA OpenFacts ==
  ASSUME SInv, NEW lit \in SUBSET Point, NEW dummy \in BOOLEAN, open(lit, dummy)
  PROVE  /\ decisionLevel' = decisionLevel + 1 /\ Len(dom') = decisionLevel + 2
         /\ dom' \in Seq(SUBSET Point)
         /\ dec_info' \in Seq([lit : SUBSET Point, dummy : BOOLEAN])
         /\ \A k \in 1 .. decisionLevel + 1 : dom'[k] = dom[k]
         /\ dom'[decisionLevel + 2] = left \cap lit
         /\ \A k \in 1 .. decisionLevel : dec_info'[k] = dec_info[k]
         /\ dec_info'[decisionLevel + 1] = [lit |-> lit, dummy |-> dummy]
         /\ left' = left \cap lit /\ root' = root
  <1>1. decisionLevel \in Nat /\ Len(dom) = decisionLevel + 1 /\ left \subseteq Point
    BY StackFacts
  <1>2. dom \in Seq(SUBSET Point) /\ dec_info \in Seq([lit : SUBSET Point, dummy : BOOLEAN])
    BY DEF SInv, Stacked
  <1>3. /\ dom' \in Seq(SUBSET Point) /\ Len(dom') = decisionLevel + 2
        /\ \A k \in 1 .. decisionLevel + 1 : dom'[k] = dom[k]
        /\ dom'[decisionLevel + 2] = left \cap lit
    <2>1. dom' = Append(dom, left \cap lit) /\ left \cap lit \in SUBSET Point
      BY <1>1 DEF open
    <2> QED
      BY <2>1, <1>1, <1>2, AppendProperties
  <1>4. /\ dec_info' \in Seq([lit : SUBSET Point, dummy : BOOLEAN])
        /\ Len(dec_info') = decisionLevel + 1
        /\ \A k \in 1 .. decisionLevel : dec_info'[k] = dec_info[k]
        /\ dec_info'[decisionLevel + 1] = [lit |-> lit, dummy |-> dummy]
    <2> DEFINE di == [lit |-> lit, dummy |-> dummy]
    <2>1. dec_info' = Append(dec_info, di) /\ di \in [lit : SUBSET Point, dummy : BOOLEAN]
      BY DEF open
    <2>2. Len(dec_info) = decisionLevel
      BY DEF decisionLevel
    <2> HIDE DEF di
    <2>3. /\ dec_info' \in Seq([lit : SUBSET Point, dummy : BOOLEAN])
          /\ Len(dec_info') = decisionLevel + 1
          /\ \A k \in 1 .. decisionLevel : dec_info'[k] = dec_info[k]
          /\ dec_info'[decisionLevel + 1] = di
      BY <2>1, <2>2, <1>2, AppendProperties
    <2> QED
      BY <2>3 DEF di
  <1>5. left' = left \cap lit /\ root' = root /\ decisionLevel' = decisionLevel + 1
    BY <1>1, <1>3, <1>4 DEF left, root, decisionLevel
  <1> QED
    BY <1>3, <1>4, <1>5

LEMMA OpenStack ==
  ASSUME SInv, NEW lit \in SUBSET Point, NEW dummy \in BOOLEAN, open(lit, dummy),
         UNCHANGED <<assumptions, best_sol>>,
         decisionLevel + 1 <= Len(assumptions) => lit = assumptions[decisionLevel + 1],
         dummy => decisionLevel + 1 <= Len(assumptions)
  PROVE  Stacked' /\ Nested' /\ Decided'
  <1> DEFINE n == decisionLevel
  <1>1. n \in Nat /\ Len(dom) = n + 1 /\ left = dom[n + 1] /\ \A k \in 1 .. n + 1 : left \subseteq dom[k]
    BY StackFacts
  <1>2. /\ decisionLevel' = n + 1 /\ Len(dom') = n + 2
        /\ \A k \in 1 .. n + 1 : dom'[k] = dom[k]
        /\ dom'[n + 2] = left \cap lit
        /\ \A k \in 1 .. n : dec_info'[k] = dec_info[k]
        /\ dec_info'[n + 1] = [lit |-> lit, dummy |-> dummy]
    BY OpenFacts
  <1>3. Stacked'
    BY OpenFacts DEF SInv, Stacked
  <1>4. \A j, k \in 1 .. n + 1 : j <= k => dom[k] \subseteq dom[j]
    BY <1>1 DEF SInv, Nested
  <1>5. \A k \in 1 .. n : /\ dom[k + 1] \subseteq dec_info[k].lit
                          /\ k <= Len(assumptions) => dec_info[k].lit = assumptions[k]
                          /\ dec_info[k].dummy => k <= Len(assumptions)
    BY DEF SInv, Decided
  <1> HIDE DEF n
  <1>6. Nested'
    <2> SUFFICES ASSUME NEW j \in 1 .. n + 2, NEW k \in 1 .. n + 2, j <= k
                 PROVE  dom'[k] \subseteq dom'[j]
      BY <1>2 DEF Nested
    <2>1. CASE k = n + 2 /\ j = n + 2
      BY <2>1
    <2>2. CASE k = n + 2 /\ j # n + 2
      <3>1. j \in 1 .. n + 1
        BY <2>2, <1>1
      <3> QED
        BY <3>1, <2>2, <1>1, <1>2
    <2>3. CASE k # n + 2
      <3>1. j \in 1 .. n + 1 /\ k \in 1 .. n + 1
        BY <2>3, <1>1
      <3> QED
        BY <3>1, <1>2, <1>4
    <2> QED
      BY <2>1, <2>2, <2>3
  <1>7. Decided'
    <2> SUFFICES ASSUME NEW k \in 1 .. n + 1
                 PROVE  /\ dom'[k + 1] \subseteq dec_info'[k].lit
                        /\ k <= Len(assumptions) => dec_info'[k].lit = assumptions[k]
                        /\ dec_info'[k].dummy => k <= Len(assumptions)
      BY <1>2 DEF Decided
    <2>1. CASE k = n + 1
      BY <2>1, <1>1, <1>2 DEF n
    <2>2. CASE k # n + 1
      <3>1. k \in 1 .. n /\ k + 1 \in 1 .. n + 1
        BY <2>2, <1>1
      <3> QED
        BY <3>1, <1>2, <1>5
    <2> QED
      BY <2>1, <2>2
  <1> QED
    BY <1>3, <1>6, <1>7

LEMMA OpenKeeps ==
  ASSUME SInv, NEW lit \in SUBSET Point, NEW dummy \in BOOLEAN, open(lit, dummy),
         UNCHANGED <<so, printed, excluded>>
  PROVE  LearningKeeps' /\ AlternativesKeep'
  <1> DEFINE n == decisionLevel
  <1>1. /\ n \in Nat /\ Len(dom) = n + 1 /\ left = dom[n + 1]
        /\ Wanted' = Wanted /\ Kept' = Kept
    BY StackFacts, Same
  <1>2. /\ decisionLevel' = n + 1 /\ Len(dom') = n + 2
        /\ \A k \in 1 .. n + 1 : dom'[k] = dom[k]
        /\ dom'[n + 2] = left \cap lit
        /\ \A k \in 1 .. n : dec_info'[k] = dec_info[k]
        /\ dec_info'[n + 1].lit = lit
        /\ left' = left \cap lit
    <2>1. dec_info'[n + 1] = [lit |-> lit, dummy |-> dummy]
      BY OpenFacts
    <2> QED
      BY <2>1, OpenFacts
  <1>3. so.lazy => Kept \cap excluded = {} /\ \A l \in 1 .. n + 1 : \A s \in Kept :
          (\A k \in 1 .. l - 1 : s \in dec_info[k].lit) => s \in dom[l]
    BY <1>1 DEF SInv, LearningKeeps
  <1>4. ~ so.lazy => excluded = {} /\ \A s \in Wanted :
          s \in left \/ \E k \in 1 .. n : s \in dom[k] /\ s \notin dec_info[k].lit
    BY DEF SInv, AlternativesKeep
  <1> HIDE DEF n
  <1>5. LearningKeeps'
    <2> SUFFICES ASSUME so.lazy, NEW l \in 1 .. n + 2, NEW s \in Kept,
                        \A k \in 1 .. l - 1 : s \in dec_info'[k].lit
                 PROVE  s \in dom'[l]
      BY <1>1, <1>2, <1>3 DEF LearningKeeps
    <2>1. CASE l = n + 2
      <3>1. n + 1 \in 1 .. l - 1 /\ \A k \in 1 .. n : k \in 1 .. l - 1
        BY <2>1, <1>1
      <3>2. s \in lit /\ \A k \in 1 .. n : s \in dec_info[k].lit
        BY <3>1, <1>2
      <3>3. n + 1 \in 1 .. n + 1 /\ (n + 1) - 1 = n
        BY <1>1
      <3>4. s \in dom[n + 1]
        BY <3>2, <3>3, <1>3
      <3> QED
        BY <2>1, <3>2, <3>4, <1>1, <1>2
    <2>2. CASE l # n + 2
      <3>1. l \in 1 .. n + 1 /\ \A k \in 1 .. l - 1 : k \in 1 .. n
        BY <2>2, <1>1
      <3> QED
        BY <3>1, <1>2, <1>3
    <2> QED
      BY <2>1, <2>2
  <1>6. AlternativesKeep'
    <2> SUFFICES ASSUME ~ so.lazy, NEW s \in Wanted
                 PROVE  \/ s \in left'
                        \/ \E k \in 1 .. n + 1 : s \in dom'[k] /\ s \notin dec_info'[k].lit
      BY <1>1, <1>2, <1>4 DEF AlternativesKeep
    <2>1. n + 1 \in 1 .. n + 1 /\ \A k \in 1 .. n : k \in 1 .. n + 1
      BY <1>1
    <2>2. CASE s \in left
      BY <2>1, <2>2, <1>1, <1>2
    <2>3. CASE \E k \in 1 .. n : s \in dom[k] /\ s \notin dec_info[k].lit
      BY <2>1, <2>3, <1>2
    <2> QED
      BY <2>2, <2>3, <1>4
  <1> QED
    BY <1>5, <1>6

-----------------------------------------------------------------------------
(* Restarts, and what the hooks make of the assumptions. *)
LEMMA LiteralTypes ==
  /\ \A x, v : GE(x, v) \in SUBSET Point /\ LE(x, v) \in SUBSET Point /\ EQ(x, v) \in SUBSET Point
  /\ \A b : Bound(b) \in SUBSET Point
  /\ lit_True \in SUBSET Point
  BY DEF GE, LE, EQ, Bound, lit_True

LEMMA assume_int_valType == \A x, v : assume_int_val(x, v) \in Seq(SUBSET Point)
  <1> SUFFICES ASSUME NEW x, NEW v PROVE assume_int_val(x, v) \in Seq(SUBSET Point)
    OBVIOUS
  <1>1. GE(x, v) \in SUBSET Point /\ LE(x, v) \in SUBSET Point /\ EQ(x, v) \in SUBSET Point
    BY LiteralTypes
  <1> QED
    <2> DEFINE g == GE(x, v)
               l == LE(x, v)
               e == EQ(x, v)
    <2>1. assume_int_val(x, v) = IF x \in LL THEN <<g, l>> ELSE <<e>>
      BY DEF assume_int_val
    <2>2. g \in SUBSET Point /\ l \in SUBSET Point /\ e \in SUBSET Point
      BY <1>1
    <2> HIDE DEF g, l, e
    <2>3. <<g, l>> \in Seq(SUBSET Point) /\ <<e>> \in Seq(SUBSET Point)
      BY <2>2
    <2> QED
      BY <2>1, <2>3

LEMMA hookAssumptionsType ==
  \A found, new, stored, u : hookAssumptions(found, new, stored, u) \in Seq(SUBSET Point)
  <1> SUFFICES ASSUME NEW found, NEW new, NEW stored, NEW u
               PROVE  hookAssumptions(found, new, stored, u) \in Seq(SUBSET Point)
    OBVIOUS
  <1> DEFINE use(h, lits) == IF h \in so.hooks THEN lits ELSE <<>>
             first == IF "status" \in so.hooks /\ so.index > 0
                      THEN assume_int_val(StatusVar, statusValue(found, new)) ELSE <<>>
             second == use("last", assume_int_val(LastVar, last_val))
             third == use("uniform", assume_int_val(UniformVar, u))
             fourth == use("sol", assume_int_val(SolTo, stored))
  <1>1. /\ first \in Seq(SUBSET Point) /\ second \in Seq(SUBSET Point)
        /\ third \in Seq(SUBSET Point) /\ fourth \in Seq(SUBSET Point)
    BY assume_int_valType
  <1>2. hookAssumptions(found, new, stored, u) = first \o second \o third \o fourth
    BY DEF hookAssumptions
  <1> HIDE DEF first, second, third, fourth
  <1>3. first \o second \in Seq(SUBSET Point)
    BY <1>1, ConcatProperties
  <1>4. first \o second \o third \in Seq(SUBSET Point)
    BY <1>1, <1>3, ConcatProperties
  <1>5. first \o second \o third \o fourth \in Seq(SUBSET Point)
    BY <1>1, <1>4, ConcatProperties
  <1> QED
    BY <1>2, <1>5

LEMMA onRestartFacts ==
  ASSUME SInv, NEW asm \in Seq(SUBSET Point), NEW found \in BOOLEAN, NEW new \in BOOLEAN,
         NEW best, NEW stored, onRestart(asm, found, new, best, stored)
  PROVE  /\ assumptions' \in Seq(SUBSET Point) /\ new_solution' \in BOOLEAN
         /\ so.hooks = {} => assumptions' = asm
         /\ so.hooks # {} /\ found /\ asm # <<>> /\ (Len(asm) = 1 => asm[1] = Bound(best)) =>
              assumptions' # <<>> /\ assumptions'[1] = Bound(best)
  <1>1. CASE so.hooks = {}
    BY <1>1 DEF onRestart
  <1>2. CASE so.hooks # {}
    <2>1. PICK u : /\ assumptions' = resetAssumptions(asm, found, best)
                                     \o hookAssumptions(found, new, stored, u)
                   /\ new_solution' = FALSE
      BY <1>2 DEF onRestart
    <2> DEFINE h == hookAssumptions(found, new, stored, u)
               r == resetAssumptions(asm, found, best)
    <2>2. h \in Seq(SUBSET Point)
      BY hookAssumptionsType
    <2>3. /\ r \in Seq(SUBSET Point)
          /\ found /\ asm # <<>> /\ (Len(asm) = 1 => asm[1] = Bound(best)) =>
               r # <<>> /\ r[1] = Bound(best)
      <3> DEFINE b == Bound(best)
      <3>1. r = IF asm = <<>> THEN asm ELSE IF ~ found THEN <<>>
                ELSE IF Len(asm) > 1 THEN <<b>> ELSE asm
        BY DEF resetAssumptions
      <3>2. b \in SUBSET Point
        BY LiteralTypes
      <3> HIDE DEF b, r
      <3>3. <<b>> \in Seq(SUBSET Point) /\ <<>> \in Seq(SUBSET Point) /\ <<b>> # <<>> /\ <<b>>[1] = b
        BY <3>2
      <3>4. r \in Seq(SUBSET Point)
        BY <3>1, <3>3
      <3>5. found /\ asm # <<>> /\ (Len(asm) = 1 => asm[1] = b) => r # <<>> /\ r[1] = b
        <4>1. asm # <<>> => Len(asm) \in Nat /\ (Len(asm) > 1 \/ Len(asm) = 1)
          OBVIOUS
        <4> QED
          BY <4>1, <3>1, <3>3
      <3> QED
        BY <3>4, <3>5 DEF b
    <2>4. assumptions' = r \o h /\ new_solution' = FALSE
      BY <2>1
    <2> HIDE DEF h, r
    <2>5. r \o h \in Seq(SUBSET Point) /\ Len(r \o h) = Len(r) + Len(h)
          /\ \A i \in 1 .. Len(r) : (r \o h)[i] = r[i]
      BY <2>2, <2>3, ConcatProperties
    <2>6. r # <<>> => 1 \in 1 .. Len(r) /\ r \o h # <<>>
      BY <2>2, <2>3, <2>5
    <2> QED
      BY <1>2, <2>3, <2>4, <2>5, <2>6
  <1> QED
    BY <1>1, <1>2

LEMMA restartAtInv ==
  ASSUME SInv, pc # "returned", NEW next \in {"propagate", "assume"}, restartAt(next),
         next = "assume" => pc = "assume" /\ so.lazy,
         {due', vsids'} \subseteq BOOLEAN
  PROVE  SInv'
  <1>1. /\ toRoot
        /\ flipped' = (flipped /\ decisionLevel = 0)
        /\ UNCHANGED <<so, excluded, printed, best_sol, timedOut, solution_found, mark_complete>>
        /\ \/ pc' = "returned" /\ status' = "GUN" /\ UNCHANGED <<assumptions, new_solution>>
           \/ /\ onRestart(assumptions, solution_found, new_solution, best_sol, sol_val)
              /\ pc' = next /\ UNCHANGED status
    BY DEF restartAt, return
  <1>2. /\ assumptions \in Seq(SUBSET Point) /\ solution_found \in BOOLEAN
        /\ new_solution \in BOOLEAN /\ best_sol \in Int /\ status = "none"
    BY DEF SInv, Stacked, TypeOK, Running
  <1>3. /\ assumptions' \in Seq(SUBSET Point) /\ new_solution' \in BOOLEAN
        /\ so.hooks = {} => assumptions' = assumptions
        /\ so.hooks # {} /\ solution_found => assumptions' # <<>> /\ assumptions'[1] = Bound(best_sol)
    BY <1>1, <1>2, onRestartFacts DEF SInv, HookAssumed
  <1>4. /\ decisionLevel' = 0 /\ Len(dom') = 1 /\ dom'[1] = root /\ left' = root /\ root' = root
        /\ dom' \in Seq(SUBSET Point) /\ dec_info' \in Seq([lit : SUBSET Point, dummy : BOOLEAN])
        /\ root \subseteq Point
    BY <1>1, toRootFacts, StackFacts
  <1>5. Wanted' = Wanted /\ Kept' = Kept /\ Bound(best_sol)' = Bound(best_sol)
    BY <1>1, Same DEF Bound
  <1>6. TypeOK'
    <2>1. \A l \in DOMAIN dom' : dom'[l] \subseteq Point
      BY <1>4
    <2>2. Len(dom') = Len(dec_info') + 1
      BY <1>4 DEF decisionLevel
    <2>3. flipped' \in BOOLEAN
      BY <1>1
    <2>4. pc' \in {"propagate", "assume", "returned"} /\ status' \in {"none", "GUN"}
      BY <1>1, <1>2
    <2> QED
      BY <2>1, <2>2, <2>3, <2>4, <1>1, <1>3 DEF SInv, TypeOK
  <1>7. Stacked' /\ Running'
    BY <1>1, <1>2, <1>3, <1>4 DEF Stacked, Running
  <1>8. Nested' /\ Decided' /\ LearningKeeps' /\ AlternativesKeep'
    BY <1>1, toRootFacts, toRootKeeps
  <1>9. FlippedEmpty'
    <2>1. flipped' => flipped /\ decisionLevel = 0
      BY <1>1
    <2>2. decisionLevel = 0 => left = root
      BY StackFacts
    <2> QED
      BY <2>1, <2>2, <1>1, <1>4 DEF SInv, FlippedEmpty
  <1>10. FixedKept'
    <2> SUFFICES ASSUME pc' = "assume", Cardinality(root) = 1
                 PROVE  root \subseteq Kept
      BY <1>1, <1>4, <1>5 DEF FixedKept
    <2>1. pc = "assume" /\ ~ flipped
      BY <1>1 DEF SInv, FlippedEmpty
    <2>2. 1 \in 1 .. Len(dom) /\ root = dom[1]
      BY StackFacts
    <2> QED
      BY <2>1, <2>2 DEF SInv, FixedKept
  <1>11. ConflictRight'
    BY <1>1 DEF ConflictRight
  <1>12. BestRight' /\ RootBounded'
    BY <1>1, <1>4, <1>5 DEF SInv, BestRight, Better, RootBounded
  <1>13. UserAssumed' /\ HookAssumed'
    BY <1>1, <1>3, <1>5 DEF SInv, UserAssumed, HookAssumed, lit_True
  <1> QED
    BY <1>6, <1>7, <1>8, <1>9, <1>10, <1>11, <1>12, <1>13 DEF SInv

-----------------------------------------------------------------------------
(* Propagation and conflicts. *)
LEMMA propagateInv ==
  ASSUME SInv, propagate
  PROVE  SInv'
  <1> DEFINE n == decisionLevel
             rest == left \ excluded
  <1>1. /\ pc = "propagate"
        /\ UNCHANGED <<so, dec_info, flipped, excluded, assumptions, printed, best_sol, due, vsids,
                       timedOut, solution_found, new_solution, sol_val, status>>
    BY DEF propagate
  <1>2. PICK S \in {rest, rest \cap Kept} :
          LET fails == S = {} \/ (Cardinality(S) = 1 /\ S \cap Kept = {}) IN
          /\ dom' = [dom EXCEPT ![Len(dom)] = S]
          /\ pc' = IF fails THEN "conflict" ELSE "fixpoint"
          /\ mark_complete' \in Complete(S, fails)
    BY DEF propagate
  <1>3. /\ n \in Nat /\ Len(dom) = n + 1 /\ left = dom[n + 1] /\ left \subseteq Point
        /\ dom \in Seq(SUBSET Point) /\ S \subseteq left
        /\ Len(dec_info) = n /\ n' = n
    BY <1>1, StackFacts DEF SInv, Stacked, decisionLevel
  <1>4. /\ dom' \in Seq(SUBSET Point) /\ Len(dom') = n + 1 /\ dom'[n + 1] = S
        /\ \A k \in 1 .. n : dom'[k] = dom[k]
        /\ left' = S /\ (n > 0 => root' = root) /\ root' \subseteq root
    <2>1. dom' = [dom EXCEPT ![n + 1] = S] /\ S \in SUBSET Point
      BY <1>2, <1>3
    <2>2. /\ dom' \in Seq(SUBSET Point) /\ Len(dom') = n + 1 /\ dom'[n + 1] = S
          /\ \A k \in 1 .. n : dom'[k] = dom[k]
      BY <2>1, <1>3
    <2>3. left' = S /\ root' = dom'[1] /\ root = dom[1]
      BY <2>2, <1>3 DEF left, root
    <2>4. n > 0 => 1 \in 1 .. n
      BY <1>3
    <2>5. n = 0 => root' = S /\ root = left
      BY <2>2, <2>3, <1>3
    <2> QED
      BY <2>2, <2>3, <2>4, <2>5, <1>3
  <1>5. Wanted' = Wanted /\ Kept' = Kept /\ Bound(best_sol)' = Bound(best_sol)
    BY <1>1, Same DEF Bound
  <1>6. TypeOK'
    <2>1. pc' \in {"conflict", "fixpoint"}
      BY <1>2
    <2>2. mark_complete' \in BOOLEAN
      BY <1>2 DEF SInv, TypeOK, Complete
    <2>3. \A l \in DOMAIN dom' : dom'[l] \subseteq Point
      BY <1>4
    <2> QED
      BY <2>1, <2>2, <2>3, <1>1, <1>3, <1>4 DEF SInv, TypeOK
  <1>7. Stacked' /\ Running'
    BY <1>1, <1>4 DEF SInv, Stacked, Running
  <1>8. Nested'
    <2> SUFFICES ASSUME NEW j \in 1 .. n + 1, NEW k \in 1 .. n + 1, j <= k
                 PROVE  dom'[k] \subseteq dom'[j]
      BY <1>4 DEF Nested
    <2>1. dom[k] \subseteq dom[j] /\ left \subseteq dom[j]
      BY <1>3, StackFacts DEF SInv, Nested
    <2> HIDE DEF n
    <2>2. CASE k = n + 1 /\ j = n + 1
      BY <2>2
    <2>3. CASE k = n + 1 /\ j # n + 1
      BY <2>1, <2>3, <1>3, <1>4
    <2>4. CASE k # n + 1
      BY <2>1, <2>4, <1>3, <1>4
    <2> QED
      BY <2>2, <2>3, <2>4
  <1>9. Decided'
    <2> SUFFICES ASSUME NEW k \in 1 .. n
                 PROVE  /\ dom'[k + 1] \subseteq dec_info[k].lit
                        /\ k <= Len(assumptions) => dec_info[k].lit = assumptions[k]
                        /\ dec_info[k].dummy => k <= Len(assumptions)
      BY <1>1, <1>3 DEF Decided
    <2>1. /\ dom[k + 1] \subseteq dec_info[k].lit
          /\ k <= Len(assumptions) => dec_info[k].lit = assumptions[k]
          /\ dec_info[k].dummy => k <= Len(assumptions)
      BY DEF SInv, Decided
    <2> HIDE DEF n
    <2>2. dom'[k + 1] \subseteq dom[k + 1]
      <3>1. CASE k = n
        BY <3>1, <1>3, <1>4
      <3>2. CASE k # n
        BY <3>2, <1>3, <1>4
      <3> QED
        BY <3>1, <3>2
    <2> QED
      BY <2>1, <2>2
  <1>10. LearningKeeps'
    <2> SUFFICES ASSUME so.lazy, NEW l \in 1 .. n + 1, NEW s \in Kept,
                        \A k \in 1 .. l - 1 : s \in dec_info[k].lit
                 PROVE  s \in dom'[l]
      BY <1>1, <1>4, <1>5 DEF SInv, LearningKeeps
    <2>1. s \in dom[l] /\ s \notin excluded
      BY <1>3 DEF SInv, LearningKeeps
    <2> HIDE DEF n
    <2>2. CASE l = n + 1
      BY <2>1, <2>2, <1>2, <1>3, <1>4
    <2>3. CASE l # n + 1
      BY <2>1, <2>3, <1>3, <1>4
    <2> QED
      BY <2>2, <2>3
  <1>11. AlternativesKeep'
    <2> SUFFICES ASSUME ~ so.lazy, NEW s \in Wanted
                 PROVE  s \in S \/ \E k \in 1 .. n : s \in dom'[k] /\ s \notin dec_info[k].lit
      BY <1>1, <1>3, <1>4, <1>5 DEF SInv, AlternativesKeep
    <2>1. s \in Kept
      BY WantedKept
    <2>2. CASE s \in left
      BY <2>1, <2>2, <1>2 DEF SInv, AlternativesKeep
    <2>3. CASE s \notin left
      BY <2>3, <1>4 DEF SInv, AlternativesKeep
    <2> QED
      BY <2>2, <2>3
  <1>12. FlippedEmpty'
    BY <1>1, <1>3, <1>4 DEF SInv, FlippedEmpty
  <1>13. FixedKept'
    <2> SUFFICES ASSUME pc' = "fixpoint", NEW l \in 1 .. n + 1, Cardinality(dom'[l]) = 1
                 PROVE  dom'[l] \subseteq Kept
      BY <1>2, <1>4, <1>5 DEF FixedKept
    <2>1. S # {} /\ ~(Cardinality(S) = 1 /\ S \cap Kept = {})
      BY <1>2
    <2>2. S \subseteq dom'[l]
      <3>1. n + 1 \in 1 .. n + 1 /\ l <= n + 1
        BY <1>3
      <3> QED
        BY <3>1, <1>4, <1>8 DEF Nested
    <2>3. dom'[l] \in SUBSET Point
      BY <1>4, ElementOfSeq
    <2>4. PICK s : dom'[l] = {s}
      BY <2>3, SingleFixed
    <2>5. S = {s}
      BY <2>1, <2>2, <2>4
    <2>6. Cardinality(S) = 1
      BY <2>3, <2>4, <2>5, SingleFixed
    <2> QED
      BY <2>1, <2>4, <2>5, <2>6
  <1>14. ConflictRight'
    BY <1>2, <1>4, <1>5 DEF ConflictRight
  <1>15. BestRight' /\ RootBounded'
    BY <1>1, <1>4, <1>5 DEF SInv, BestRight, Better, RootBounded
  <1>16. UserAssumed' /\ HookAssumed'
    BY <1>1, <1>5 DEF SInv, UserAssumed, HookAssumed, lit_True
  <1> QED
    BY <1>6, <1>7, <1>8, <1>9, <1>10, <1>11, <1>12, <1>13, <1>14, <1>15, <1>16 DEF SInv

(* Steps that go on, and the passing of time. *)
LEMMA quietInv ==
  ASSUME SInv, propagateFlipped \/ keepOn \/ toAssumptions \/ tick \/ UNCHANGED vars
  PROVE  SInv'
  <1>1. UNCHANGED <<so, dom, dec_info, excluded, assumptions, printed, best_sol, flipped,
                    solution_found, status, new_solution, mark_complete, due, vsids>>
    BY DEF propagateFlipped, keepOn, toAssumptions, tick, vars, stack, hooked
  <1>2. /\ pc' \in {pc, "fixpoint", "propagate", "assume"}
        /\ pc' = "fixpoint" => flipped \/ pc = "fixpoint"
        /\ pc' = "assume" => pc \in {"fixpoint", "assume"}
        /\ pc = "returned" => pc' = "returned"
        /\ timedOut' \in BOOLEAN
    BY DEF propagateFlipped, keepOn, toAssumptions, tick, vars, SInv, TypeOK
  <1>3. TypeOK'
    BY <1>1, <1>2 DEF SInv, TypeOK
  <1>4. Running'
    BY <1>1, <1>2 DEF SInv, Running
  <1>5. Kept' = Kept /\ left' = left
    BY <1>1, Same DEF left
  <1>6. FixedKept' /\ ConflictRight'
    BY <1>1, <1>2, <1>5 DEF SInv, FixedKept, ConflictRight
  <1> QED
    BY <1>1, <1>2, <1>3, <1>4, <1>6, StackKept

LEMMA MaxOfLevels ==
  ASSUME NEW n \in Nat, NEW S \in SUBSET (1 .. n), S # {}
  PROVE  Max(S) \in S
  <1>1. S \in SUBSET (0 .. n)
    OBVIOUS
  <1>2. \E i \in S : \A j \in S : i >= j
    BY <1>1, Greatest
  <1> QED
    BY <1>2 DEF Max

(* Learning a clause only excludes what the conflict excludes. *)
LEMMA analyzeInv ==
  ASSUME SInv, pc = "conflict", pc' = "backjumped", so.lazy, decisionLevel > 0, analyze,
         due' \in BOOLEAN,
         UNCHANGED <<so, status, assumptions, printed, best_sol, vsids, timedOut,
                     solution_found, new_solution, mark_complete>>
  PROVE  SInv'
  <1>1. PICK K \in SUBSET {k \in 1 .. decisionLevel : learnable(k)} :
          LET nogood == {p \in Point : \A k \in K : p \in dec_info[k].lit}
              clevel == Max(K)
              level == IF K = {clevel} THEN 0 ELSE Max(K \ {clevel})
          IN /\ K # {} /\ nogood \cap Kept = {}
             /\ excluded' = excluded \cup nogood
             /\ dom' = SubSeq(dom, 1, level + 1)
             /\ dec_info' = SubSeq(dec_info, 1, level)
             /\ UNCHANGED flipped
    BY DEF analyze
  <1> DEFINE nogood == {p \in Point : \A k \in K : p \in dec_info[k].lit}
             level == IF K = {Max(K)} THEN 0 ELSE Max(K \ {Max(K)})
  <1>2. /\ nogood \cap Kept = {} /\ excluded' = excluded \cup nogood
        /\ dom' = SubSeq(dom, 1, level + 1) /\ dec_info' = SubSeq(dec_info, 1, level)
        /\ UNCHANGED flipped
    BY <1>1
  <1>3. level \in 0 .. decisionLevel
    <2>1. decisionLevel \in Nat /\ K \in SUBSET (1 .. decisionLevel)
      BY StackFacts
    <2>2. Max(K) \in K
      BY <1>1, <2>1, MaxOfLevels
    <2>3. CASE K = {Max(K)}
      BY <2>1, <2>3
    <2>4. CASE K # {Max(K)}
      <3>1. Max(K \ {Max(K)}) \in K
        <4>1. K \ {Max(K)} \in SUBSET (1 .. decisionLevel) /\ K \ {Max(K)} # {}
          BY <2>1, <2>2, <2>4
        <4> QED
          BY <2>1, <4>1, MaxOfLevels
      <3>2. level \in K
        BY <2>4, <3>1
      <3>3. \A m \in K : m \in 0 .. decisionLevel
        BY <2>1
      <3> HIDE DEF level
      <3> QED
        BY <3>2, <3>3
    <2> QED
      BY <2>3, <2>4
  <1> HIDE DEF level
  <1>4. /\ decisionLevel' = level /\ Len(dom') = level + 1 /\ root' = root
        /\ \A k \in 1 .. level + 1 : dom'[k] = dom[k]
        /\ \A k \in 1 .. level : dec_info'[k] = dec_info[k]
        /\ level \in Nat /\ level <= decisionLevel /\ Len(dom) = decisionLevel + 1
        /\ decisionLevel \in Nat
    BY <1>2, <1>3, CutFacts, StackFacts
  <1>5. Wanted' = Wanted /\ Kept' = Kept /\ Bound(best_sol)' = Bound(best_sol)
    BY Same DEF Bound
  <1>6. Stacked' /\ Nested' /\ Decided'
    BY <1>2, <1>3, CutStack
  <1>7. TypeOK'
    <2>1. \A l \in DOMAIN dom' : dom'[l] \subseteq Point
      BY <1>6 DEF Stacked
    <2>2. Len(dom') = Len(dec_info') + 1
      BY <1>4 DEF decisionLevel
    <2>3. excluded' \subseteq Point
      BY <1>2 DEF SInv, TypeOK
    <2> QED
      BY <2>1, <2>2, <2>3, <1>2 DEF SInv, TypeOK
  <1>8. LearningKeeps'
    <2>1. Kept \cap excluded' = {}
      BY <1>2 DEF SInv, LearningKeeps
    <2> SUFFICES ASSUME NEW l \in 1 .. level + 1, NEW s \in Kept,
                        \A k \in 1 .. l - 1 : s \in dec_info'[k].lit
                 PROVE  s \in dom'[l]
      BY <2>1, <1>4, <1>5 DEF LearningKeeps
    <2>2. l \in 1 .. Len(dom) /\ \A k \in 1 .. l - 1 : k \in 1 .. level
      BY <1>4
    <2>3. \A k \in 1 .. l - 1 : s \in dec_info[k].lit
      BY <2>2, <1>4
    <2> QED
      BY <2>2, <2>3, <1>4 DEF SInv, LearningKeeps
  <1>9. AlternativesKeep' /\ FlippedEmpty' /\ Running' /\ FixedKept' /\ ConflictRight'
    BY <1>2 DEF SInv, AlternativesKeep, FlippedEmpty, Running, FixedKept, ConflictRight
  <1>10. BestRight' /\ RootBounded'
    BY <1>4, <1>5 DEF SInv, BestRight, Better, RootBounded
  <1>11. UserAssumed' /\ HookAssumed'
    BY <1>5 DEF SInv, UserAssumed, HookAssumed, lit_True
  <1> QED
    BY <1>6, <1>7, <1>8, <1>9, <1>10, <1>11 DEF SInv

(* The other alternative of the last decision is what may still be wanted. *)
LEMMA alternativeInv ==
  ASSUME SInv, pc = "conflict", pc' = "backjumped", ~ so.lazy, decisionLevel > 0, alternative,
         due' \in BOOLEAN,
         UNCHANGED <<so, status, assumptions, printed, best_sol, vsids, timedOut,
                     solution_found, new_solution, mark_complete>>
  PROVE  SInv'
  <1> DEFINE n == decisionLevel
             other == dom[n] \ dec_info[n].lit
  <1>1. /\ dom' = [SubSeq(dom, 1, n) EXCEPT ![n] = other]
        /\ dec_info' = SubSeq(dec_info, 1, n - 1)
        /\ flipped' = (dom[n] \subseteq dec_info[n].lit)
        /\ UNCHANGED excluded
    BY DEF alternative
  <1>2. /\ n \in Nat /\ n > 0 /\ Len(dom) = n + 1 /\ root = dom[1]
        /\ \A k \in 1 .. n + 1 : dom[k] \in SUBSET Point
        /\ \A k \in 1 .. n : dec_info[k] \in [lit : SUBSET Point, dummy : BOOLEAN]
    BY StackFacts
  <1> HIDE DEF n
  <1>3. /\ dom' \in Seq(SUBSET Point) /\ Len(dom') = n /\ dom'[n] = other
        /\ \A k \in 1 .. n - 1 : dom'[k] = dom[k]
    <2> DEFINE cut == SubSeq(dom, 1, n)
    <2>1. cut \in Seq(SUBSET Point) /\ Len(cut) = n /\ \A k \in 1 .. n : cut[k] = dom[k]
      <3>1. \A k \in 1 .. n : dom[k] \in SUBSET Point
        BY <1>2
      <3> QED
        BY <3>1, <1>2, SubSeqProperties
    <2>2. other \in SUBSET Point /\ dom' = [cut EXCEPT ![n] = other]
      BY <1>1, <1>2
    <2> HIDE DEF cut, other
    <2> QED
      BY <2>1, <2>2, <1>2
  <1>4. /\ dec_info' \in Seq([lit : SUBSET Point, dummy : BOOLEAN]) /\ Len(dec_info') = n - 1
        /\ \A k \in 1 .. n - 1 : dec_info'[k] = dec_info[k]
    <2>1. n - 1 \in Nat /\ \A k \in 1 .. n - 1 : dec_info[k] \in [lit : SUBSET Point, dummy : BOOLEAN]
      BY <1>2
    <2> QED
      BY <1>1, <2>1, SubSeqProperties
  <1>5. /\ decisionLevel' = n - 1 /\ left' = other
        /\ root' \subseteq root
    <2>1. left' = dom'[n] /\ root' = dom'[1] /\ decisionLevel' = n - 1
      BY <1>3, <1>4 DEF left, root, decisionLevel
    <2>2. n = 1 => root' \subseteq dom[1]
      BY <2>1, <1>3
    <2>3. n # 1 => root' = dom[1]
      BY <2>1, <1>2, <1>3
    <2> QED
      BY <2>1, <2>2, <2>3, <1>2, <1>3
  <1>6. Wanted' = Wanted /\ Kept' = Kept /\ Bound(best_sol)' = Bound(best_sol)
    BY Same DEF Bound
  <1>7. \A k \in 1 .. n : dom'[k] \subseteq dom[k]
    BY <1>2, <1>3
  <1>8. TypeOK'
    <2>1. \A l \in DOMAIN dom' : dom'[l] \subseteq Point
      BY <1>3
    <2>2. Len(dom') = Len(dec_info') + 1
      BY <1>2, <1>3, <1>4
    <2>3. flipped' \in BOOLEAN
      BY <1>1
    <2> QED
      BY <2>1, <2>2, <2>3, <1>1 DEF SInv, TypeOK
  <1>9. Stacked' /\ Running'
    BY <1>3, <1>4 DEF SInv, Stacked, Running
  <1>10. Nested'
    <2> SUFFICES ASSUME NEW j \in 1 .. n, NEW k \in 1 .. n, j <= k
                 PROVE  dom'[k] \subseteq dom'[j]
      BY <1>3 DEF Nested
    <2>1. dom[k] \subseteq dom[j]
      BY <1>2 DEF SInv, Nested
    <2>2. CASE j = n
      BY <2>2, <1>2
    <2>3. CASE j # n
      BY <2>1, <2>3, <1>2, <1>3, <1>7
    <2> QED
      BY <2>2, <2>3
  <1>11. Decided'
    <2> SUFFICES ASSUME NEW k \in 1 .. n - 1
                 PROVE  /\ dom'[k + 1] \subseteq dec_info'[k].lit
                        /\ k <= Len(assumptions) => dec_info'[k].lit = assumptions[k]
                        /\ dec_info'[k].dummy => k <= Len(assumptions)
      BY <1>5 DEF Decided
    <2>1. k \in 1 .. n /\ k + 1 \in 1 .. n
      BY <1>2
    <2>2. /\ dom[k + 1] \subseteq dec_info[k].lit
          /\ k <= Len(assumptions) => dec_info[k].lit = assumptions[k]
          /\ dec_info[k].dummy => k <= Len(assumptions)
      BY <2>1 DEF SInv, Decided, n
    <2> QED
      BY <2>1, <2>2, <1>4, <1>7
  <1>12. LearningKeeps'
    BY DEF LearningKeeps
  <1>13. AlternativesKeep'
    <2> SUFFICES ASSUME NEW s \in Wanted
                 PROVE  s \in other \/ \E k \in 1 .. n - 1 : s \in dom'[k] /\ s \notin dec_info'[k].lit
      BY <1>1, <1>5, <1>6 DEF SInv, AlternativesKeep
    <2>1. s \notin left
      BY WantedKept DEF SInv, ConflictRight
    <2>2. PICK k \in 1 .. n : s \in dom[k] /\ s \notin dec_info[k].lit
      BY <2>1 DEF SInv, AlternativesKeep, n
    <2>3. CASE k = n
      BY <2>2, <2>3
    <2>4. CASE k # n
      <3>1. k \in 1 .. n - 1
        BY <2>4, <1>2
      <3> QED
        BY <3>1, <2>2, <1>3, <1>4
    <2> QED
      BY <2>3, <2>4
  <1>14. FlippedEmpty'
    BY <1>1, <1>5 DEF FlippedEmpty
  <1>15. FixedKept' /\ ConflictRight'
    BY DEF FixedKept, ConflictRight
  <1>16. BestRight' /\ RootBounded'
    BY <1>5, <1>6 DEF SInv, BestRight, Better, RootBounded
  <1>17. UserAssumed' /\ HookAssumed'
    BY <1>6 DEF SInv, UserAssumed, HookAssumed, lit_True
  <1> QED
    BY <1>8, <1>9, <1>10, <1>11, <1>12, <1>13, <1>14, <1>15, <1>16, <1>17 DEF SInv

LEMMA conflictInv ==
  ASSUME SInv, conflict
  PROVE  SInv'
  <1>1. /\ pc = "conflict" /\ due' \in BOOLEAN
        /\ UNCHANGED <<so, assumptions, printed, best_sol, vsids, timedOut,
                       solution_found, new_solution, mark_complete>>
    <2>1. so.restarts \in BOOLEAN
      BY OptionFacts DEF SInv, TypeOK
    <2> QED
      BY <2>1 DEF conflict, hooked, SInv, TypeOK
  <1>2. CASE /\ pc' = "returned" /\ status' \in {"UNK", "GUN"}
             /\ UNCHANGED <<dom, dec_info, excluded, flipped>>
    <2>1. TypeOK' /\ Running' /\ FixedKept' /\ ConflictRight'
      BY <1>1, <1>2 DEF SInv, TypeOK, Running, FixedKept, ConflictRight
    <2> QED
      BY <2>1, <1>1, <1>2, StackKept
  <1>3. CASE /\ decisionLevel > 0 /\ pc' = "backjumped" /\ UNCHANGED status
             /\ IF so.lazy THEN analyze ELSE alternative
    <2>1. CASE so.lazy
      BY <1>1, <1>3, <2>1, analyzeInv
    <2>2. CASE ~ so.lazy
      BY <1>1, <1>3, <2>2, alternativeInv
    <2> QED
      BY <2>1, <2>2
  <1> QED
    BY <1>2, <1>3 DEF conflict, return, stack

LEMMA restartInv ==
  ASSUME SInv, switchToVSIDS \/ restart
  PROVE  SInv'
  <1>1. pc # "returned" /\ restartAt("propagate") /\ {due', vsids'} \subseteq BOOLEAN
    BY DEF switchToVSIDS, restart, SInv, TypeOK
  <1> QED
    BY <1>1, restartAtInv

-----------------------------------------------------------------------------
(* Assumptions and decisions. *)

(* A level is opened for a literal that is not false. *)
LEMMA openInv ==
  ASSUME SInv, pc = "assume", ~ flipped,
         NEW lit \in SUBSET Point, NEW dummy \in BOOLEAN, open(lit, dummy),
         pc' \in {"assume", "propagate"}, pc' = "assume" => left \subseteq lit,
         decisionLevel + 1 <= Len(assumptions) => lit = assumptions[decisionLevel + 1],
         dummy => decisionLevel + 1 <= Len(assumptions),
         UNCHANGED <<so, excluded, assumptions, printed, best_sol, flipped, status, due, vsids, timedOut,
                     solution_found, new_solution, mark_complete>>
  PROVE  SInv'
  <1> DEFINE n == decisionLevel
  <1>1. /\ n \in Nat /\ Len(dom) = n + 1 /\ left = dom[n + 1] /\ left' = left \cap lit
        /\ decisionLevel' = n + 1 /\ Len(dom') = n + 2 /\ root' = root
        /\ dom' \in Seq(SUBSET Point)
        /\ \A k \in 1 .. n + 1 : dom'[k] = dom[k]
        /\ dom'[n + 2] = left \cap lit
    BY StackFacts, OpenFacts
  <1> HIDE DEF n
  <1>2. Wanted' = Wanted /\ Kept' = Kept /\ Bound(best_sol)' = Bound(best_sol)
    BY Same DEF Bound
  <1>3. TypeOK'
    <2>1. \A l \in DOMAIN dom' : dom'[l] \subseteq Point
      BY <1>1
    <2>2. Len(dom') = Len(dec_info') + 1
      BY <1>1 DEF decisionLevel
    <2> QED
      BY <2>1, <2>2 DEF SInv, TypeOK
  <1>4. Stacked' /\ Nested' /\ Decided' /\ LearningKeeps' /\ AlternativesKeep'
    BY OpenStack, OpenKeeps
  <1>5. Running' /\ FlippedEmpty' /\ ConflictRight'
    BY DEF SInv, Running, FlippedEmpty, ConflictRight
  <1>6. FixedKept'
    <2> SUFFICES ASSUME pc' = "assume", NEW l \in 1 .. n + 2, Cardinality(dom'[l]) = 1
                 PROVE  dom'[l] \subseteq Kept
      BY <1>1, <1>2 DEF FixedKept
    <2>1. \A k \in 1 .. n + 1 : Cardinality(dom[k]) = 1 => dom[k] \subseteq Kept
      BY <1>1 DEF SInv, FixedKept
    <2>2. CASE l = n + 2
      <3>1. dom'[l] = dom[n + 1] /\ n + 1 \in 1 .. n + 1
        BY <2>2, <1>1
      <3> QED
        BY <3>1, <2>1
    <2>3. CASE l # n + 2
      <3>1. l \in 1 .. n + 1
        BY <2>3, <1>1
      <3> QED
        BY <3>1, <2>1, <1>1
    <2> QED
      BY <2>2, <2>3
  <1>7. BestRight' /\ RootBounded'
    BY <1>1, <1>2 DEF SInv, BestRight, Better, RootBounded
  <1>8. UserAssumed' /\ HookAssumed'
    BY <1>2 DEF SInv, UserAssumed, HookAssumed, lit_True
  <1> QED
    BY <1>3, <1>4, <1>5, <1>6, <1>7, <1>8 DEF SInv

LEMMA assumeInv ==
  ASSUME SInv, assume
  PROVE  SInv'
  <1> DEFINE p == assumptions[decisionLevel + 1]
  <1>1. pc = "assume" /\ decisionLevel < Len(assumptions) /\ UNCHANGED <<due, vsids, timedOut>>
    <2>1. UNCHANGED timedOut
      BY DEF assume, restartAt
    <2> QED
      BY <2>1 DEF assume
  <1>2. /\ decisionLevel \in Nat /\ Len(assumptions) \in Nat /\ p \in SUBSET Point
        /\ decisionLevel + 1 <= Len(assumptions)
    <2>1. /\ decisionLevel \in Nat /\ Len(assumptions) \in Nat
          /\ \A i \in 1 .. Len(assumptions) : assumptions[i] \subseteq Point
      BY StackFacts
    <2>2. decisionLevel + 1 \in 1 .. Len(assumptions)
      BY <1>1, <2>1
    <2> QED
      BY <2>1, <2>2
  <1>3. CASE /\ isTrue(p) /\ ~ flipped /\ open(p, TRUE)
             /\ UNCHANGED <<so, pc, excluded, assumptions, printed, best_sol, flipped, hooked, status>>
    BY <1>1, <1>2, <1>3, openInv DEF hooked, isTrue
  <1>4. CASE /\ isFalse(p) /\ return("LUN")
             /\ UNCHANGED <<so, stack, excluded, assumptions, printed, best_sol, flipped, hooked, timedOut>>
    <2>1. TypeOK' /\ Running' /\ FixedKept' /\ ConflictRight'
      BY <1>1, <1>4 DEF SInv, TypeOK, Running, FixedKept, ConflictRight, return, stack, hooked
    <2> QED
      BY <2>1, <1>1, <1>4, StackKept DEF stack, hooked
  <1>5. CASE so.hooks # {} /\ restartAt("assume")
    <2>1. so.lazy
      BY <1>5, OptionFacts DEF SInv, TypeOK
    <2>2. {due', vsids'} \subseteq BOOLEAN
      BY <1>1 DEF SInv, TypeOK
    <2> QED
      BY <2>1, <2>2, <1>1, <1>5, restartAtInv
  <1>6. CASE /\ ~ isTrue(p) /\ ~ isFalse(p) /\ open(p, FALSE) /\ pc' = "propagate"
             /\ UNCHANGED <<so, excluded, assumptions, printed, best_sol, flipped, hooked, status>>
    <2>1. ~ flipped
      BY <1>6 DEF SInv, FlippedEmpty, isTrue
    <2> QED
      BY <2>1, <1>1, <1>2, <1>6, openInv DEF hooked
  <1> QED
    BY <1>3, <1>4, <1>5, <1>6 DEF assume

LEMMA decideInv ==
  ASSUME SInv, decide
  PROVE  SInv'
  <1>1. /\ pc = "assume" /\ decisionLevel >= Len(assumptions) /\ pc' = "propagate"
        /\ UNCHANGED <<so, excluded, assumptions, printed, best_sol, flipped, due, vsids, timedOut,
                       hooked, status>>
    BY DEF decide
  <1>2. PICK l \in SUBSET Point : ~ isTrue(l) /\ ~ isFalse(l) /\ open(l, FALSE)
    BY LiteralTypes DEF decide
  <1>3. ~ flipped
    BY <1>2 DEF SInv, FlippedEmpty, isTrue
  <1>4. decisionLevel \in Nat /\ Len(assumptions) \in Nat
    BY StackFacts
  <1>5. ~(decisionLevel + 1 <= Len(assumptions))
    BY <1>1, <1>4
  <1> QED
    BY <1>1, <1>2, <1>3, <1>5, openInv DEF hooked

-----------------------------------------------------------------------------
(* Solutions. *)

(* What is found is one assignment, which is still wanted: it satisfies the  *)
(* user's assumptions and is better than, or not among, those printed.       *)
LEMMA FoundWanted ==
  ASSUME SInv, Found
  PROVE  \E s : left = {s} /\ s \in Wanted /\ s \in Kept /\ ~ flipped
  <1>1. left \in SUBSET Point
    BY StackFacts
  <1>2. PICK s : left = {s}
    BY <1>1, SingleFixed DEF Found, AllFixed
  <1>3. ~ flipped
    BY <1>2 DEF SInv, FlippedEmpty
  <1>4. s \in Kept
    <2>1. decisionLevel + 1 \in 1 .. Len(dom) /\ left = dom[decisionLevel + 1]
      BY StackFacts
    <2>2. \A l \in 1 .. Len(dom) : Cardinality(dom[l]) = 1 => dom[l] \subseteq Kept
      BY <1>3 DEF SInv, FixedKept, Found
    <2>3. left \subseteq Kept
      BY <2>1, <2>2 DEF Found, AllFixed
    <2> QED
      BY <2>3, <1>2
  <1>5. \A i \in 1 .. Len(assumptions) : s \in assumptions[i]
    <2> SUFFICES ASSUME NEW i \in 1 .. Len(assumptions) PROVE s \in assumptions[i]
      OBVIOUS
    <2>1. decisionLevel \in Nat /\ Len(assumptions) \in Nat /\ decisionLevel >= Len(assumptions)
      BY StackFacts DEF Found
    <2>2. i \in 1 .. decisionLevel /\ i + 1 \in 1 .. decisionLevel + 1
      BY <2>1
    <2>3. left \subseteq dom[i + 1] /\ dom[i + 1] \subseteq dec_info[i].lit
      BY <2>2, StackFacts DEF SInv, Decided
    <2>4. dec_info[i].lit = assumptions[i]
      BY <2>2 DEF SInv, Decided
    <2> QED
      BY <2>3, <2>4, <1>2
  <1>6. so \in Options /\ so.goal \in {"all", "min", "max"} /\ so.assume \in Seq(SUBSET Point)
    BY OptionFacts DEF SInv, TypeOK
  <1>7. s \in User
    <2>1. s \in Solution
      BY <1>4, WantedKept
    <2>2. \A i \in DOMAIN so.assume : s \in so.assume[i]
      <3>1. CASE so.hooks = {}
        <4>1. \A i \in 1 .. Len(so.assume) : i \in 1 .. Len(assumptions) /\ assumptions[i] = so.assume[i]
          <5>1. Len(assumptions) \in Nat /\ Len(so.assume) \in Nat
            BY <1>6, StackFacts
          <5> QED
            BY <3>1, <5>1, <1>6 DEF SInv, UserAssumed
        <4>2. DOMAIN so.assume = 1 .. Len(so.assume)
          BY <1>6
        <4> QED
          BY <4>1, <4>2, <1>5
      <3>2. CASE so.hooks # {}
        <4>1. so.assume = <<>>
          BY <3>2, <1>6, OptionFacts
        <4> QED
          BY <4>1
      <3> QED
        BY <3>1, <3>2
    <2> QED
      BY <2>1, <2>2 DEF User
  <1>8. CASE so.goal = "all"
    <2>1. \A t \in printed : s # t
      BY <1>4, <1>8 DEF Kept
    <2> QED
      BY <2>1, <1>2, <1>3, <1>4, <1>7, <1>8 DEF Wanted
  <1>9. CASE so.goal # "all"
    <2>1. printed # {} => s \in Bound(best_sol)
      <3> SUFFICES ASSUME printed # {} PROVE s \in Bound(best_sol)
        OBVIOUS
      <3>1. CASE ~ so.lazy
        <4>1. root \subseteq Bound(best_sol) /\ left \subseteq root
          BY <3>1, <1>9, StackFacts DEF SInv, RootBounded
        <4> QED
          BY <4>1, <1>2
      <3>2. CASE so.lazy /\ so.hooks = {}
        <4>1. /\ assumptions[Len(assumptions)] = Bound(best_sol)
              /\ Len(assumptions) = Len(so.assume) + 1 /\ Len(so.assume) \in Nat
          BY <3>2, <1>6, <1>9 DEF SInv, UserAssumed
        <4>2. Len(assumptions) \in 1 .. Len(assumptions)
          BY <4>1
        <4> QED
          BY <4>1, <4>2, <1>5
      <3>3. CASE so.hooks # {}
        <4>1. solution_found /\ pc # "returned"
          BY <1>9 DEF SInv, BestRight, Found
        <4>2. assumptions # <<>> /\ assumptions[1] = Bound(best_sol) /\ assumptions \in Seq(SUBSET Point)
          BY <3>3, <4>1 DEF SInv, HookAssumed, Stacked
        <4>3. 1 \in 1 .. Len(assumptions)
          BY <4>2
        <4> QED
          BY <4>2, <4>3, <1>5
      <3> QED
        BY <3>1, <3>2, <3>3
    <2>2. /\ s[opt_var] \in Int /\ best_sol \in Int
          /\ \A t \in printed : t[opt_var] \in Int
      <3>1. opt_var \in X /\ \A t \in Point : t[opt_var] \in Int
        BY PointAssumption, VarAssumption
      <3>2. s \in Point /\ printed \subseteq Point
        BY <1>1, <1>2, PointAssumption DEF SInv, TypeOK
      <3> QED
        BY <3>1, <3>2 DEF SInv, Stacked
    <2>3. printed # {} => IF so.goal = "max" THEN s[opt_var] >= best_sol + 1
                                             ELSE s[opt_var] <= best_sol - 1
      BY <2>1 DEF Bound, GE, LE
    <2>4. \A t \in printed : IF so.goal = "max" THEN s[opt_var] > t[opt_var]
                                                ELSE s[opt_var] < t[opt_var]
      BY <2>2, <2>3, <1>9 DEF SInv, BestRight, Better
    <2>5. \A t \in printed : CASE so.goal = "all" -> s # t
                               [] so.goal = "min" -> s[opt_var] < t[opt_var]
                               [] so.goal = "max" -> s[opt_var] > t[opt_var]
      BY <2>4, <1>6, <1>9
    <2>6. s \in Wanted
      BY <2>5, <1>7 DEF Wanted
    <2> QED
      BY <2>6, <1>2, <1>3, <1>4
  <1> QED
    BY <1>8, <1>9

LEMMA WantedShrinks ==
  ASSUME UNCHANGED so, printed \subseteq printed'
  PROVE  Wanted' \subseteq Wanted /\ Kept' \subseteq Kept
  BY DEF Wanted, User, Kept

LEMMA solutionInv ==
  ASSUME SInv, solution
  PROVE  SInv'
  <1>1. /\ Found /\ so.goal = "all" /\ printed' = printed \cup left
        /\ UNCHANGED <<so, excluded, assumptions, best_sol, flipped, due, vsids, timedOut,
                       solution_found, new_solution, mark_complete>>
    BY DEF solution, hooked
  <1>2. PICK s : left = {s} /\ s \in Wanted /\ s \in Kept /\ ~ flipped
    BY <1>1, FoundWanted
  <1>3. /\ Wanted' \subseteq Wanted /\ Kept' \subseteq Kept /\ Kept' \cap left = {}
        /\ so'.goal = "all" /\ Bound(best_sol)' = Bound(best_sol)
    <2>1. Kept' = Solution \ printed'
      BY <1>1 DEF Kept
    <2> QED
      BY <2>1, <1>1, WantedShrinks DEF Bound
  <1>4. printed' \subseteq Solution
    BY <1>1, <1>2, WantedKept DEF SInv, TypeOK
  <1>5. BestRight' /\ RootBounded' /\ UserAssumed' /\ HookAssumed' /\ FlippedEmpty'
    <2>1. ~ solution_found
      BY <1>1 DEF SInv, BestRight
    <2> QED
      BY <2>1, <1>1, <1>2, <1>3 DEF SInv, BestRight, RootBounded, UserAssumed, HookAssumed, FlippedEmpty
  <1>6. CASE UNCHANGED <<dom, dec_info>> /\ pc' \in {"conflict", "returned"}
             /\ (pc' = "returned" => status' = "SAT") /\ (pc' = "conflict" => status' = status)
    <2>1. left' = left /\ root' = root /\ decisionLevel' = decisionLevel
      BY <1>6 DEF left, root, decisionLevel
    <2>2. TypeOK'
      <3>1. status' \in {"SAT", status}
        BY <1>6
      <3> QED
        BY <3>1, <1>1, <1>4, <1>6 DEF SInv, TypeOK
    <2>3. Stacked' /\ Nested' /\ Decided'
      BY <1>1, <1>6, <2>1 DEF SInv, Stacked, Nested, Decided
    <2>4. LearningKeeps' /\ AlternativesKeep'
      BY <1>1, <1>3, <1>6, <2>1 DEF SInv, LearningKeeps, AlternativesKeep
    <2>5. Running' /\ FixedKept' /\ ConflictRight'
      BY <1>1, <1>3, <1>6, <2>1 DEF SInv, Running, FixedKept, ConflictRight, Found
    <2> QED
      BY <2>2, <2>3, <2>4, <2>5, <1>5 DEF SInv
  <1>7. CASE toRoot /\ Cardinality(root) = 1 /\ pc' = "conflict" /\ UNCHANGED status
    <2>1. /\ Len(dom') = 1 /\ dom'[1] = root /\ left' = root /\ decisionLevel' = 0
          /\ dom' \in Seq(SUBSET Point) /\ dec_info' \in Seq([lit : SUBSET Point, dummy : BOOLEAN])
          /\ Nested' /\ Decided'
      BY <1>7, toRootFacts
    <2>2. root = left
      <3>1. root \in SUBSET Point /\ left \subseteq root
        BY StackFacts
      <3>2. PICK r : root = {r}
        BY <3>1, <1>7, SingleFixed
      <3> QED
        BY <3>1, <3>2, <1>2
    <2>3. TypeOK'
      <3>1. \A l \in DOMAIN dom' : dom'[l] \subseteq Point
        BY <2>1
      <3>2. Len(dom') = Len(dec_info') + 1
        BY <2>1 DEF decisionLevel
      <3> QED
        BY <3>1, <3>2, <1>1, <1>4, <1>7 DEF SInv, TypeOK
    <2>4. Stacked'
      BY <2>1, <1>1 DEF SInv, Stacked
    <2>5. LearningKeeps'
      <3>1. so.lazy => Kept \cap excluded = {} /\ \A k \in Kept : k \in root
        <4>1. 1 \in 1 .. Len(dom) /\ root = dom[1] /\ \A k \in 1 .. 1 - 1 : FALSE
          BY StackFacts
        <4> QED
          BY <4>1 DEF SInv, LearningKeeps
      <3> QED
        BY <3>1, <2>1, <1>1, <1>3 DEF LearningKeeps
    <2>6. AlternativesKeep'
      <3>1. ~ so.lazy => excluded = {} /\ \A w \in Wanted : w \in root
        <4>1. \A k \in 1 .. decisionLevel + 1 : dom[k] \subseteq root
          BY StackFacts
        <4>2. \A k \in 1 .. decisionLevel : k \in 1 .. decisionLevel + 1
          BY StackFacts
        <4> QED
          BY <4>1, <4>2, <2>2 DEF SInv, AlternativesKeep
      <3> QED
        BY <3>1, <2>1, <1>1, <1>3 DEF AlternativesKeep
    <2>7. Running' /\ FixedKept' /\ ConflictRight'
      BY <1>1, <1>3, <1>7, <2>1, <2>2 DEF SInv, Running, FixedKept, ConflictRight, Found
    <2> QED
      BY <2>1, <2>3, <2>4, <2>5, <2>6, <2>7, <1>5 DEF SInv
  <1> QED
    BY <1>6, <1>7 DEF solution, return, stack

(* A better solution: what is wanted from now on meets the new bound. *)
LEMMA NewBound ==
  ASSUME SInv, so.goal # "all", NEW p \in Solution,
         printed' = printed \cup {p}, UNCHANGED so
  PROVE  /\ Wanted' \subseteq Wanted \cap Bound(p[opt_var]) /\ p \notin Wanted'
         /\ Kept' = Kept
  <1>1. so.goal \in {"min", "max"}
    BY OptionFacts DEF SInv, TypeOK
  <1>2. opt_var \in X /\ \A t \in Point : t[opt_var] \in Int
    BY PointAssumption, VarAssumption
  <1>3. p[opt_var] \in Int
    BY <1>2, PointAssumption
  <1>4. ASSUME NEW s \in Wanted' PROVE s \in Bound(p[opt_var]) /\ s # p
    <2>1. s \in Point /\ s[opt_var] \in Int
      BY <1>2, PointAssumption DEF Wanted, User
    <2>2. IF so.goal = "max" THEN s[opt_var] > p[opt_var] ELSE s[opt_var] < p[opt_var]
      <3>1. (CASE so.goal = "all" -> s # p
               [] so.goal = "min" -> s[opt_var] < p[opt_var]
               [] so.goal = "max" -> s[opt_var] > p[opt_var])
        BY <1>1 DEF Wanted
      <3> QED
        BY <3>1, <1>1
    <2> QED
      BY <2>1, <2>2, <1>3 DEF Bound, GE, LE
  <1> QED
    BY <1>4, WantedShrinks DEF Kept

LEMMA constrainFacts ==
  ASSUME SInv, constrain
  PROVE  \E p \in left :
           LET b == p[opt_var]
               asm == IF ~ so.lazy THEN assumptions
                      ELSE IF assumptions = <<>> THEN <<Bound(b)>>
                      ELSE [assumptions EXCEPT ![Len(assumptions)] = Bound(b)]
               new == new_solution \/ "sol" \in so.hooks
               better == IF so.lazy THEN root ELSE root \cap Bound(b)
           IN /\ left = {p} /\ p \in Wanted /\ p \in Kept /\ ~ flipped
              /\ printed' = printed \cup {p} /\ best_sol' = b /\ solution_found' = TRUE
              /\ dom' = <<better>> /\ dec_info' = <<>>
              /\ \/ /\ better = {} \/ done
                    /\ pc' = "returned" /\ status' = "GUN"
                    /\ assumptions' = asm /\ new_solution' = new
                 \/ /\ pc' = "propagate" /\ UNCHANGED status
                    /\ \E stored : onRestart(asm, TRUE, new, b, stored)
              /\ so.goal # "all"
              /\ UNCHANGED <<so, excluded, flipped, due, vsids, timedOut, mark_complete>>
  <1>1. PICK s : left = {s} /\ s \in Wanted /\ s \in Kept /\ ~ flipped
    BY FoundWanted DEF constrain
  <1> QED
    BY <1>1 DEF constrain, return

(* The assumptions with the bound in the last place. *)
LEMMA boundAssumed ==
  ASSUME NEW asm, assumptions \in Seq(SUBSET Point), NEW b \in SUBSET Point,
         asm = IF ~ so.lazy THEN assumptions
               ELSE IF assumptions = <<>> THEN <<b>>
               ELSE [assumptions EXCEPT ![Len(assumptions)] = b]
  PROVE  /\ asm \in Seq(SUBSET Point)
         /\ so.lazy => asm # <<>> /\ asm[Len(asm)] = b
         /\ so.lazy /\ assumptions # <<>> => Len(asm) = Len(assumptions)
                         /\ \A i \in 1 .. Len(assumptions) - 1 : asm[i] = assumptions[i]
         /\ ~ so.lazy => asm = assumptions
  <1>1. CASE ~ so.lazy
    BY <1>1
  <1>2. CASE so.lazy /\ assumptions = <<>>
    <2>1. asm = <<b>>
      BY <1>2
    <2>2. <<b>> \in Seq(SUBSET Point) /\ <<b>> # <<>> /\ Len(<<b>>) = 1 /\ <<b>>[1] = b
      OBVIOUS
    <2> QED
      BY <2>1, <2>2, <1>2
  <1>3. CASE so.lazy /\ assumptions # <<>>
    <2> DEFINE n == Len(assumptions)
    <2>1. n \in Nat /\ n \in 1 .. n /\ asm = [assumptions EXCEPT ![n] = b]
      BY <1>3
    <2>2. assumptions \in Seq(SUBSET Point) /\ n = Len(assumptions)
      OBVIOUS
    <2> HIDE DEF n
    <2>3. asm \in Seq(SUBSET Point) /\ Len(asm) = n
      <3> DEFINE new == [assumptions EXCEPT ![n] = b]
      <3>1. new \in [1 .. n -> SUBSET Point]
        BY <2>1, <2>2
      <3>2. new \in Seq(SUBSET Point) /\ Len(new) = n
        BY <3>1, <2>1
      <3> QED
        BY <3>2, <2>1
    <2>4. asm[n] = b /\ \A i \in 1 .. n - 1 : asm[i] = assumptions[i]
      BY <2>1, <2>2
    <2>5. asm # <<>>
      BY <2>1, <2>3
    <2> QED
      BY <2>2, <2>3, <2>4, <2>5, <1>3
  <1> QED
    BY <1>1, <1>2, <1>3

LEMMA constrainInv ==
  ASSUME SInv, constrain
  PROVE  SInv'
  <1>1. PICK p \in left :
          LET b == p[opt_var]
              asm == IF ~ so.lazy THEN assumptions
                     ELSE IF assumptions = <<>> THEN <<Bound(b)>>
                     ELSE [assumptions EXCEPT ![Len(assumptions)] = Bound(b)]
              new == new_solution \/ "sol" \in so.hooks
              better == IF so.lazy THEN root ELSE root \cap Bound(b)
          IN /\ left = {p} /\ p \in Wanted /\ p \in Kept /\ ~ flipped
             /\ printed' = printed \cup {p} /\ best_sol' = b /\ solution_found' = TRUE
             /\ dom' = <<better>> /\ dec_info' = <<>>
             /\ \/ /\ better = {} \/ done
                   /\ pc' = "returned" /\ status' = "GUN"
                   /\ assumptions' = asm /\ new_solution' = new
                \/ /\ pc' = "propagate" /\ UNCHANGED status
                   /\ \E stored : onRestart(asm, TRUE, new, b, stored)
             /\ so.goal # "all"
             /\ UNCHANGED <<so, excluded, flipped, due, vsids, timedOut, mark_complete>>
    BY constrainFacts
  <1> DEFINE b == p[opt_var]
             B == Bound(b)
             asm == IF ~ so.lazy THEN assumptions
                    ELSE IF assumptions = <<>> THEN <<B>>
                    ELSE [assumptions EXCEPT ![Len(assumptions)] = B]
             new == new_solution \/ "sol" \in so.hooks
             better == IF so.lazy THEN root ELSE root \cap B
  <1>2. /\ left = {p} /\ p \in Wanted /\ p \in Kept /\ ~ flipped /\ so.goal # "all"
        /\ printed' = printed \cup {p} /\ best_sol' = b /\ solution_found' = TRUE
        /\ dom' = <<better>> /\ dec_info' = <<>>
        /\ UNCHANGED <<so, excluded, flipped, due, vsids, timedOut, mark_complete>>
    BY <1>1
  <1>3. \/ pc' = "returned" /\ status' = "GUN" /\ assumptions' = asm /\ new_solution' = new
        \/ pc' = "propagate" /\ UNCHANGED status /\ \E stored : onRestart(asm, TRUE, new, b, stored)
    BY <1>1
  <1>4. /\ p \in Solution /\ p \in Point /\ b \in Int /\ B \in SUBSET Point
        /\ pc = "assume" /\ status = "none" /\ so \in Options
        /\ assumptions \in Seq(SUBSET Point) /\ new \in BOOLEAN
    <2>1. p \in Solution /\ p \in Point
      BY <1>2, WantedKept
    <2>2. pc = "assume"
      BY DEF constrain, Found
    <2> QED
      BY <2>1, <2>2, PointAssumption, VarAssumption, LiteralTypes DEF SInv, TypeOK, Stacked, Running
  <1>5. /\ Wanted' \subseteq Wanted \cap B /\ Kept' = Kept /\ Bound(best_sol)' = B
    BY <1>2, <1>4, NewBound DEF Bound
  <1> HIDE DEF B, new
  <1>6. /\ asm \in Seq(SUBSET Point)
        /\ so.lazy => asm # <<>> /\ asm[Len(asm)] = B
        /\ so.lazy /\ assumptions # <<>> => Len(asm) = Len(assumptions)
                        /\ \A i \in 1 .. Len(assumptions) - 1 : asm[i] = assumptions[i]
        /\ ~ so.lazy => asm = assumptions
    BY <1>4, boundAssumed
  <1> HIDE DEF asm
  <1>7. /\ assumptions' \in Seq(SUBSET Point) /\ new_solution' \in BOOLEAN
        /\ so.hooks = {} => assumptions' = asm
        /\ so.hooks # {} /\ pc' # "returned" => assumptions' # <<>> /\ assumptions'[1] = B
    <2>1. CASE assumptions' = asm /\ new_solution' = new /\ pc' = "returned"
      BY <2>1, <1>4, <1>6
    <2>2. CASE pc' = "propagate" /\ \E stored : onRestart(asm, TRUE, new, b, stored)
      <3>1. PICK stored : onRestart(asm, TRUE, new, b, stored)
        BY <2>2
      <3>2. /\ assumptions' \in Seq(SUBSET Point) /\ new_solution' \in BOOLEAN
            /\ so.hooks = {} => assumptions' = asm
            /\ so.hooks # {} /\ asm # <<>> /\ (Len(asm) = 1 => asm[1] = Bound(b)) =>
                 assumptions' # <<>> /\ assumptions'[1] = Bound(b)
        BY <3>1, <1>4, <1>6, onRestartFacts
      <3>3. so.hooks # {} => so.lazy
        BY <1>4, OptionFacts
      <3>4. so.hooks # {} => asm # <<>> /\ (Len(asm) = 1 => asm[1] = B)
        BY <3>3, <1>6
      <3> QED
        BY <3>2, <3>4 DEF B
    <2> QED
      BY <2>1, <2>2, <1>3
  <1>8. /\ Len(dom') = 1 /\ dom'[1] = better /\ left' = better /\ root' = better /\ decisionLevel' = 0
        /\ dom' \in Seq(SUBSET Point) /\ dec_info' \in Seq([lit : SUBSET Point, dummy : BOOLEAN])
        /\ Len(dec_info') = 0
    <2>1. better \in SUBSET Point
      BY StackFacts
    <2>2. Len(dom') = 1 /\ dom'[1] = better /\ dom' \in Seq(SUBSET Point)
      BY <2>1, <1>2
    <2>3. dec_info' \in Seq([lit : SUBSET Point, dummy : BOOLEAN]) /\ Len(dec_info') = 0
      BY <1>2
    <2> QED
      BY <2>2, <2>3 DEF left, root, decisionLevel
  <1>9. TypeOK'
    <2>1. \A l \in DOMAIN dom' : dom'[l] \subseteq Point
      BY <1>8
    <2>2. printed' \subseteq Solution
      BY <1>2, <1>4 DEF SInv, TypeOK
    <2>3. pc' \in {"propagate", "returned"} /\ status' \in {"none", "GUN"}
      BY <1>3, <1>4
    <2> QED
      BY <2>1, <2>2, <2>3, <1>2, <1>7, <1>8 DEF SInv, TypeOK
  <1>10. Stacked' /\ Running' /\ Nested' /\ Decided'
    <2>1. Stacked' /\ Running'
      BY <1>2, <1>3, <1>4, <1>7, <1>8 DEF Stacked, Running
    <2>2. Nested' /\ Decided'
      BY <1>8 DEF Nested, Decided
    <2> QED
      BY <2>1, <2>2
  <1>11. LearningKeeps'
    <2>1. so.lazy => Kept \cap excluded = {} /\ \A s \in Kept : s \in root
      <3>1. 1 \in 1 .. Len(dom) /\ root = dom[1] /\ \A k \in 1 .. 1 - 1 : FALSE
        BY StackFacts
      <3> QED
        BY <3>1 DEF SInv, LearningKeeps
    <2> QED
      BY <2>1, <1>2, <1>5, <1>8 DEF LearningKeeps
  <1>12. AlternativesKeep'
    <2>1. ~ so.lazy => excluded = {} /\ \A s \in Wanted : s \in root
      <3>1. left \subseteq root /\ \A k \in 1 .. decisionLevel + 1 : dom[k] \subseteq root
        BY StackFacts
      <3>2. \A k \in 1 .. decisionLevel : k \in 1 .. decisionLevel + 1
        BY StackFacts
      <3> QED
        BY <3>1, <3>2 DEF SInv, AlternativesKeep
    <2> QED
      BY <2>1, <1>2, <1>5, <1>8 DEF AlternativesKeep
  <1>13. FlippedEmpty' /\ FixedKept' /\ ConflictRight'
    BY <1>2, <1>3 DEF FlippedEmpty, FixedKept, ConflictRight
  <1>14. BestRight'
    <2>1. \A t \in printed : t[opt_var] \in Int
      BY PointAssumption, VarAssumption DEF SInv, TypeOK
    <2>2. \A t \in printed : ~ Better(t[opt_var], b)
      <3> SUFFICES ASSUME NEW t \in printed PROVE ~ Better(t[opt_var], b)
        OBVIOUS
      <3>1. so.goal \in {"min", "max"}
        BY <1>2, <1>4, OptionFacts
      <3>2. (CASE so.goal = "all" -> p # t
               [] so.goal = "min" -> b < t[opt_var]
               [] so.goal = "max" -> b > t[opt_var])
        BY <1>2 DEF Wanted
      <3>3. CASE so.goal = "min"
        BY <3>2, <3>3, <2>1, <1>4 DEF Better
      <3>4. CASE so.goal = "max"
        BY <3>2, <3>4, <2>1, <1>4 DEF Better
      <3> QED
        BY <3>1, <3>3, <3>4
    <2>3. ~ Better(b, b)
      BY <1>4 DEF Better
    <2> HIDE DEF b
    <2>4. \A t \in printed' : ~ Better(t[opt_var], b)
      BY <2>2, <2>3, <1>2 DEF b
    <2> QED
      BY <2>4, <1>2 DEF BestRight, Better, b
  <1>15. RootBounded'
    BY <1>5, <1>8, <1>2 DEF RootBounded
  <1>16. UserAssumed'
    <2> SUFFICES ASSUME so.hooks = {}
                 PROVE  /\ \A i \in 1 .. Len(so.assume) : asm[i] = so.assume[i]
                        /\ Len(asm) = Len(so.assume) + 1
                        /\ asm[Len(asm)] = IF so.lazy THEN B ELSE lit_True
      BY <1>2, <1>5, <1>7 DEF UserAssumed, lit_True
    <2>1. Len(so.assume) \in Nat
      BY <1>4, OptionFacts
    <2>2. /\ \A i \in 1 .. Len(so.assume) : assumptions[i] = so.assume[i]
          /\ Len(assumptions) = Len(so.assume) + 1
          /\ ~ so.lazy => assumptions[Len(assumptions)] = lit_True
      BY <1>2 DEF SInv, UserAssumed
    <2>3. assumptions # <<>>
      BY <2>1, <2>2, <1>4
    <2> QED
      BY <2>1, <2>2, <2>3, <1>6
  <1>17. HookAssumed'
    BY <1>2, <1>5, <1>7 DEF HookAssumed
  <1> QED
    BY <1>9, <1>10, <1>11, <1>12, <1>13, <1>14, <1>15, <1>16, <1>17 DEF SInv

-----------------------------------------------------------------------------
LEMMA InitSInv == Init => SInv
  <1> SUFFICES ASSUME Init PROVE SInv
    OBVIOUS
  <1>1. /\ so \in Options /\ pc = "propagate" /\ status = "none"
        /\ dom = <<Point>> /\ dec_info = <<>> /\ excluded = {} /\ printed = {} /\ best_sol = 0
        /\ flipped = FALSE /\ due = FALSE /\ vsids = FALSE /\ timedOut = FALSE
        /\ solution_found = FALSE /\ new_solution = FALSE /\ mark_complete = FALSE
    BY DEF Init
  <1>2. so.assume \in Seq(SUBSET Point)
    BY <1>1, OptionFacts
  <1>3. /\ set_assumptions \in Seq(SUBSET Point)
        /\ \A i \in 1 .. Len(so.assume) : set_assumptions[i] = so.assume[i]
        /\ so.goal = "all" => Len(set_assumptions) = Len(so.assume)
        /\ so.goal # "all" => /\ Len(set_assumptions) = Len(so.assume) + 1
                              /\ set_assumptions[Len(set_assumptions)] = lit_True
    <2>1. lit_True \in SUBSET Point
      BY LiteralTypes
    <2> QED
      BY <2>1, <1>2, AppendProperties DEF set_assumptions
  <1>4. /\ assumptions \in Seq(SUBSET Point)
        /\ so.hooks = {} => assumptions = set_assumptions
    <2> DEFINE e == EQ(StatusVar, START)
               last == IF "status" \in so.hooks /\ so.index >= 0 THEN <<e>> ELSE <<>>
    <2>1. e \in SUBSET Point
      BY LiteralTypes
    <2> HIDE DEF e
    <2>2. <<e>> \in Seq(SUBSET Point) /\ <<>> \in Seq(SUBSET Point)
      BY <2>1
    <2>3. last \in Seq(SUBSET Point)
      BY <2>2
    <2>4. assumptions = set_assumptions \o last
      BY DEF Init, e
    <2>5. so.hooks = {} => last = <<>>
      OBVIOUS
    <2> HIDE DEF last
    <2>6. set_assumptions \o last \in Seq(SUBSET Point) /\ set_assumptions \o <<>> = set_assumptions
      BY <2>3, <1>3, ConcatProperties, ConcatEmptySeq
    <2> QED
      BY <2>4, <2>5, <2>6
  <1>5. /\ Len(dom) = 1 /\ dom[1] = Point /\ left = Point /\ root = Point /\ decisionLevel = 0
        /\ dom \in Seq(SUBSET Point) /\ dec_info \in Seq([lit : SUBSET Point, dummy : BOOLEAN])
        /\ Len(dec_info) = 0
    BY <1>1 DEF left, root, decisionLevel
  <1>6. TypeOK
    <2>1. \A l \in DOMAIN dom : dom[l] \subseteq Point
      BY <1>5
    <2> QED
      <3>1. {flipped, due, vsids, timedOut, solution_found, new_solution, mark_complete} \subseteq BOOLEAN
        BY <1>1
      <3>2. Len(dom) = Len(dec_info) + 1
        BY <1>5
      <3> QED
        BY <2>1, <3>1, <3>2, <1>1 DEF TypeOK
  <1>7. Stacked /\ Running /\ Nested /\ Decided
    BY <1>1, <1>4, <1>5 DEF Stacked, Running, Nested, Decided
  <1>8. LearningKeeps /\ AlternativesKeep
    BY <1>1, <1>5, WantedKept DEF LearningKeeps, AlternativesKeep
  <1>9. FlippedEmpty /\ FixedKept /\ ConflictRight /\ BestRight /\ HookAssumed /\ RootBounded
    BY <1>1 DEF FlippedEmpty, FixedKept, ConflictRight, BestRight, HookAssumed, RootBounded
  <1>10. UserAssumed
    BY <1>1, <1>3, <1>4 DEF UserAssumed
  <1> QED
    BY <1>6, <1>7, <1>8, <1>9, <1>10 DEF SInv

LEMMA NextSInv == SInv /\ [Next]_vars => SInv'
  <1> SUFFICES ASSUME SInv, [Next]_vars PROVE SInv'
    OBVIOUS
  <1>1. CASE propagateFlipped \/ keepOn \/ toAssumptions \/ tick \/ UNCHANGED vars
    BY <1>1, quietInv
  <1>2. CASE returned
    BY <1>2, quietInv DEF returned
  <1> QED
    BY <1>1, <1>2, propagateInv, conflictInv, restartInv, assumeInv, decideInv, solutionInv, constrainInv
       DEF Next, search

THEOREM SearchInvariance == Spec => []SInv
  BY InitSInv, NextSInv, PTL DEF Spec

(* The first levels are the assumptions', one each and in their order, also  *)
(* after the bound has replaced one, after restarts and alternatives; and no *)
(* clause that is learnt excludes a solution still to be found.              *)
THEOREM LevelsStayRight == Spec => []LevelsRight
  <1>1. SInv => LevelsRight
    <2> SUFFICES ASSUME SInv PROVE LevelsRight
      OBVIOUS
    <2>1. ASSUME NEW k \in 1 .. decisionLevel
          PROVE  dom[k + 1] \subseteq dom[k]
      <3>1. k \in 1 .. Len(dom) /\ k + 1 \in 1 .. Len(dom) /\ k <= k + 1
        BY StackFacts
      <3> QED
        BY <3>1 DEF SInv, Nested
    <2>2. so.lazy => Kept \cap excluded = {} /\ Kept \subseteq root
      <3>1. 1 \in 1 .. Len(dom) /\ root = dom[1] /\ \A k \in 1 .. 1 - 1 : FALSE
        BY StackFacts
      <3> QED
        BY <3>1 DEF SInv, LearningKeeps
    <2> QED
      BY <2>1, <2>2 DEF LevelsRight, SInv, Decided
  <1> QED
    BY <1>1, SearchInvariance, PTL

-----------------------------------------------------------------------------
(* The refinement of Answers: each step prints a wanted solution, or stops   *)
(* for a reason that holds, or cannot be seen.                               *)

LEMMA WithinBound ==
  ASSUME SInv, so.goal # "all", printed # {}
  PROVE  Wanted \subseteq Bound(best_sol)
  <1>1. PICK t \in printed : t[opt_var] = best_sol
    BY DEF SInv, BestRight
  <1>2. best_sol \in Int /\ so \in Options
    BY DEF SInv, Stacked, TypeOK
  <1>3. so.goal \in {"min", "max"}
    BY <1>2, OptionFacts
  <1> SUFFICES ASSUME NEW s \in Wanted PROVE s \in Bound(best_sol)
    OBVIOUS
  <1>4. s \in Point /\ s[opt_var] \in Int
    BY WantedKept, PointAssumption, VarAssumption
  <1>5. (CASE so.goal = "all" -> s # t
           [] so.goal = "min" -> s[opt_var] < t[opt_var]
           [] so.goal = "max" -> s[opt_var] > t[opt_var])
    BY DEF Wanted
  <1>6. CASE so.goal = "min"
    <2>1. s[opt_var] <= best_sol - 1
      BY <1>1, <1>2, <1>4, <1>5, <1>6
    <2> QED
      BY <2>1, <1>4, <1>6 DEF Bound, LE
  <1>7. CASE so.goal = "max"
    <2>1. s[opt_var] >= best_sol + 1
      BY <1>1, <1>2, <1>4, <1>5, <1>7
    <2> QED
      BY <2>1, <1>4, <1>7 DEF Bound, GE
  <1> QED
    BY <1>3, <1>6, <1>7

(* A conflict at the root: nothing wanted is left. *)
LEMMA RootConflict ==
  ASSUME SInv, pc = "conflict", decisionLevel = 0
  PROVE  Wanted = {}
  <1>1. Wanted \subseteq Kept /\ left \cap Kept = {} /\ left = dom[1] /\ Len(dom) = 1
    BY WantedKept, StackFacts DEF SInv, ConflictRight
  <1>2. so.lazy \in BOOLEAN
    BY OptionFacts DEF SInv, TypeOK
  <1>3. CASE so.lazy
    <2>1. 1 \in 1 .. Len(dom) /\ \A k \in 1 .. 1 - 1 : FALSE
      BY <1>1
    <2>2. \A s \in Kept : s \in left
      BY <2>1, <1>1, <1>3 DEF SInv, LearningKeeps
    <2> QED
      BY <2>2, <1>1
  <1>4. CASE ~ so.lazy
    <2>1. \A s \in Wanted : s \in left
      BY <1>4 DEF SInv, AlternativesKeep
    <2> QED
      BY <2>1, <1>1
  <1> QED
    BY <1>2, <1>3, <1>4

(* Without hooks, every assumption holds of what is wanted. *)
LEMMA WantedAssumed ==
  ASSUME SInv, so.hooks = {}, NEW s \in Wanted, NEW i \in 1 .. Len(assumptions)
  PROVE  s \in assumptions[i]
  <1>1. so \in Options /\ s \in User /\ s \in Point
    BY WantedKept DEF SInv, TypeOK
  <1>2. so.assume \in Seq(SUBSET Point) /\ Len(so.assume) \in Nat /\ Len(assumptions) \in Nat
    BY <1>1, OptionFacts, StackFacts
  <1>3. /\ \A j \in 1 .. Len(so.assume) : assumptions[j] = so.assume[j]
        /\ so.goal = "all" => Len(assumptions) = Len(so.assume)
        /\ so.goal # "all" =>
             /\ Len(assumptions) = Len(so.assume) + 1
             /\ assumptions[Len(assumptions)] =
                  IF so.lazy /\ printed # {} THEN Bound(best_sol) ELSE lit_True
    BY DEF SInv, UserAssumed
  <1>4. CASE i \in 1 .. Len(so.assume)
    <2>1. i \in DOMAIN so.assume
      BY <1>2, <1>4
    <2> QED
      BY <2>1, <1>1, <1>3, <1>4 DEF User
  <1>5. CASE i \notin 1 .. Len(so.assume)
    <2>1. so.goal # "all" /\ i = Len(assumptions)
      BY <1>2, <1>3, <1>5
    <2> QED
      BY <2>1, <1>1, <1>3, WithinBound DEF lit_True
  <1> QED
    BY <1>4, <1>5

(* An assumption that is false: nothing wanted satisfies it. *)
LEMMA FalseAssumption ==
  ASSUME SInv, pc = "assume", decisionLevel < Len(assumptions), isFalse(assumptions[decisionLevel + 1]),
         so.hooks = {} \/ (solution_found /\ decisionLevel = 0)
  PROVE  Wanted = {}
  <1> SUFFICES ASSUME NEW s \in Wanted PROVE FALSE
    OBVIOUS
  <1>1. /\ decisionLevel \in Nat /\ Len(dom) = decisionLevel + 1 /\ left = dom[decisionLevel + 1]
        /\ Len(assumptions) \in Nat /\ s \in Kept /\ so \in Options
        /\ decisionLevel + 1 \in 1 .. Len(dom) /\ decisionLevel + 1 \in 1 .. Len(assumptions)
    BY StackFacts, WantedKept DEF SInv, TypeOK
  <1>2. so.lazy \in BOOLEAN /\ (so.hooks # {} => so.lazy)
    BY <1>1, OptionFacts
  <1>3. left \cap assumptions[decisionLevel + 1] = {}
    BY DEF isFalse
  <1>4. CASE so.hooks = {}
    <2>1. \A k \in 1 .. decisionLevel : s \in dec_info[k].lit
      <3> SUFFICES ASSUME NEW k \in 1 .. decisionLevel PROVE s \in dec_info[k].lit
        OBVIOUS
      <3>1. k \in 1 .. Len(assumptions) /\ dec_info[k].lit = assumptions[k]
        BY <1>1 DEF SInv, Decided
      <3> QED
        BY <3>1, <1>4, WantedAssumed
    <2>2. CASE so.lazy
      <3>1. \A k \in 1 .. (decisionLevel + 1) - 1 : s \in dec_info[k].lit
        BY <2>1, <1>1
      <3>2. s \in left
        BY <3>1, <2>2, <1>1 DEF SInv, LearningKeeps
      <3> QED
        BY <3>2, <1>1, <1>3, <1>4, WantedAssumed
    <2>3. CASE ~ so.lazy
      <3>1. s \in left
        BY <2>1, <2>3 DEF SInv, AlternativesKeep
      <3> QED
        BY <3>1, <1>1, <1>3, <1>4, WantedAssumed
    <2> QED
      BY <1>2, <2>2, <2>3
  <1>5. CASE so.hooks # {}
    <2>1. decisionLevel = 0 /\ solution_found /\ so.lazy
      BY <1>2, <1>5
    <2>2. assumptions[1] = Bound(best_sol)
      BY <2>1, <1>5 DEF SInv, HookAssumed
    <2>3. so.goal # "all" /\ printed # {}
      BY <2>1 DEF SInv, BestRight
    <2>4. s \in left
      <3>1. \A k \in 1 .. 1 - 1 : FALSE
        OBVIOUS
      <3> QED
        BY <3>1, <2>1, <1>1 DEF SInv, LearningKeeps
    <2> QED
      BY <2>1, <2>2, <2>3, <2>4, <1>3, WithinBound
  <1> QED
    BY <1>4, <1>5

LEMMA Unsaid ==
  ASSUME UNCHANGED <<so, printed, status, mark_complete>>
  PROVE  UNCHANGED A!vars
  <1>1. Wanted' = Wanted
    BY Same
  <1> QED
    BY <1>1 DEF A!vars, answer

(* The search stops and says that it has seen everything. *)
LEMMA SaysAll ==
  ASSUME SInv, pc # "returned", Wanted = {} \/ mark_complete, status' \in {"GUN", "LUN"},
         UNCHANGED <<so, printed, mark_complete>>
  PROVE  A!ANext
  <1>1. Wanted' = Wanted
    BY Same
  <1>2. answer = "running" /\ answer' = IF printed = {} THEN "UNSATISFIABLE" ELSE "COMPLETE"
    BY DEF SInv, Running, answer
  <1> QED
    BY <1>1, <1>2 DEF A!ANext, A!Conclude

LEMMA restartAtAnswers ==
  ASSUME SInv, pc # "returned", NEW next, restartAt(next)
  PROVE  [A!ANext]_A!vars
  <1>1. UNCHANGED <<so, printed, mark_complete>>
    BY DEF restartAt
  <1>2. CASE done
    <2>1. mark_complete /\ status' = "GUN"
      BY <1>2 DEF restartAt, done, return
    <2> QED
      BY <2>1, <1>1, SaysAll
  <1>3. CASE ~ done
    BY <1>1, <1>3, Unsaid DEF restartAt
  <1> QED
    BY <1>2, <1>3

LEMMA propagateAnswers ==
  ASSUME SInv, propagate
  PROVE  [A!ANext]_A!vars
  <1>1. UNCHANGED <<so, printed, status>> /\ pc = "propagate"
    BY DEF propagate
  <1>2. mark_complete' = mark_complete \/ mark_complete'
    <2>1. mark_complete \in BOOLEAN /\ mark_complete' \in BOOLEAN
      BY propagateInv DEF SInv, TypeOK
    <2>2. mark_complete => mark_complete'
      BY DEF propagate, Complete
    <2> QED
      BY <2>1, <2>2
  <1>3. CASE mark_complete' = mark_complete
    BY <1>1, <1>3, Unsaid
  <1>4. CASE mark_complete'
    <2>1. Wanted' = Wanted /\ answer' = answer /\ answer = "running"
      BY <1>1, Same DEF SInv, Running, answer
    <2> QED
      BY <2>1, <1>1, <1>4 DEF A!ANext, A!Mark
  <1> QED
    BY <1>2, <1>3, <1>4

LEMMA conflictAnswers ==
  ASSUME SInv, conflict
  PROVE  [A!ANext]_A!vars
  <1>1. UNCHANGED <<so, printed, mark_complete>> /\ pc = "conflict"
    BY DEF conflict, hooked
  <1>2. CASE status' = "UNK"
    <2>1. Wanted' = Wanted /\ answer' = "UNK" /\ answer = "running"
      BY <1>1, <1>2, Same DEF SInv, Running, answer
    <2> QED
      BY <2>1, <1>1 DEF A!ANext, A!Stop
  <1>3. CASE decisionLevel = 0 /\ status' = "GUN"
    BY <1>1, <1>3, RootConflict, SaysAll
  <1>4. CASE UNCHANGED status
    BY <1>1, <1>4, Unsaid
  <1> QED
    BY <1>2, <1>3, <1>4 DEF conflict, return

LEMMA assumeAnswers ==
  ASSUME SInv, assume
  PROVE  [A!ANext]_A!vars
  <1> DEFINE p == assumptions[decisionLevel + 1]
  <1>1. pc = "assume" /\ decisionLevel < Len(assumptions)
    BY DEF assume
  <1>2. CASE UNCHANGED <<so, printed, hooked, status>>
    BY <1>2, Unsaid DEF hooked
  <1>3. CASE /\ isFalse(p) /\ (so.hooks = {} \/ (solution_found /\ decisionLevel = 0))
             /\ return("LUN") /\ UNCHANGED <<so, printed, hooked>>
    <2>1. isFalse(p) /\ (so.hooks = {} \/ (solution_found /\ decisionLevel = 0))
      BY <1>3
    <2>2. Wanted = {}
      BY <2>1, <1>1, FalseAssumption
    <2> QED
      BY <2>2, <1>1, <1>3, SaysAll DEF return, hooked
  <1>4. CASE restartAt("assume")
    BY <1>1, <1>4, restartAtAnswers
  <1> QED
    BY <1>2, <1>3, <1>4 DEF assume

LEMMA solutionAnswers ==
  ASSUME SInv, solution
  PROVE  [A!ANext]_A!vars
  <1>1. PICK s : left = {s} /\ s \in Wanted
    BY FoundWanted DEF solution
  <1>2. /\ UNCHANGED <<so, mark_complete>> /\ printed' = printed \cup {s} /\ pc = "assume"
        /\ so.goal = "all"
    BY <1>1 DEF solution, hooked, Found
  <1>3. Wanted' \subseteq Wanted /\ s \notin Wanted'
    BY <1>2, WantedShrinks DEF Wanted
  <1>4. answer = "running"
    BY <1>2 DEF SInv, Running, answer
  <1>5. CASE status' = "SAT"
    <2>1. answer' = "SAT"
      BY <1>5 DEF answer
    <2> QED
      BY <2>1, <1>1, <1>2, <1>3, <1>4 DEF A!ANext, A!FindLast
  <1>6. CASE UNCHANGED status
    <2>1. answer' = "running"
      BY <1>2, <1>6 DEF SInv, Running, answer
    <2> QED
      BY <2>1, <1>1, <1>2, <1>3, <1>4 DEF A!ANext, A!Find
  <1> QED
    BY <1>5, <1>6 DEF solution, return

LEMMA constrainAnswers ==
  ASSUME SInv, constrain
  PROVE  [A!ANext]_A!vars
  <1>1. PICK p \in left :
          LET b == p[opt_var]
              better == IF so.lazy THEN root ELSE root \cap Bound(b)
          IN /\ left = {p} /\ p \in Wanted /\ p \in Kept
             /\ printed' = printed \cup {p}
             /\ \/ (better = {} \/ done) /\ status' = "GUN"
                \/ UNCHANGED status
             /\ so.goal # "all"
             /\ UNCHANGED <<so, mark_complete>>
    BY constrainFacts
  <1>2. /\ left = {p} /\ p \in Wanted /\ p \in Kept /\ printed' = printed \cup {p}
        /\ so.goal # "all" /\ UNCHANGED <<so, mark_complete>>
    BY <1>1
  <1>3. /\ pc = "assume" /\ answer = "running" /\ so \in Options /\ so.lazy \in BOOLEAN
    BY OptionFacts DEF constrain, Found, SInv, TypeOK, Running, answer
  <1>4. /\ Wanted' \subseteq Wanted \cap Bound(p[opt_var]) /\ p \notin Wanted'
    BY <1>2, NewBound, WantedKept
  <1>5. CASE UNCHANGED status
    <2>1. answer' = "running"
      BY <1>3, <1>5 DEF SInv, Running, answer
    <2> QED
      BY <2>1, <1>2, <1>3, <1>4 DEF A!ANext, A!Find
  <1>6. CASE /\ (IF so.lazy THEN root ELSE root \cap Bound(p[opt_var])) = {} \/ done
             /\ status' = "GUN"
    <2>1. answer' = "COMPLETE"
      BY <1>2, <1>6 DEF answer
    <2>2. CASE done
      BY <2>1, <2>2, <1>2, <1>3, <1>4 DEF A!ANext, A!FindLast, done
    <2>3. CASE (IF so.lazy THEN root ELSE root \cap Bound(p[opt_var])) = {}
      <3>1. ~ so.lazy /\ root \cap Bound(p[opt_var]) = {}
        <4>1. p \in root /\ so.lazy \in BOOLEAN
          BY <1>2, <1>3, StackFacts
        <4> QED
          BY <4>1, <2>3
      <3>2. Wanted \subseteq root
        <4>1. left \subseteq root /\ \A k \in 1 .. decisionLevel + 1 : dom[k] \subseteq root
          BY StackFacts
        <4>2. \A k \in 1 .. decisionLevel : k \in 1 .. decisionLevel + 1
          BY StackFacts
        <4> QED
          BY <4>1, <4>2, <3>1 DEF SInv, AlternativesKeep
      <3>3. Wanted' = {}
        BY <3>1, <3>2, <1>4
      <3> QED
        BY <3>3, <2>1, <1>2, <1>3, <1>4 DEF A!ANext, A!FindLast
    <2> QED
      BY <2>2, <2>3, <1>6
  <1> QED
    BY <1>1, <1>5, <1>6

LEMMA StepAnswers == SInv /\ [Next]_vars => [A!ANext]_A!vars
  <1> SUFFICES ASSUME SInv, [Next]_vars PROVE [A!ANext]_A!vars
    OBVIOUS
  <1>1. CASE propagateFlipped \/ keepOn \/ toAssumptions \/ decide \/ tick \/ returned \/ UNCHANGED vars
    BY <1>1, Unsaid DEF propagateFlipped, keepOn, toAssumptions, decide, tick, returned, vars, hooked
  <1>2. CASE switchToVSIDS \/ restart
    BY <1>2, restartAtAnswers DEF switchToVSIDS, restart
  <1> QED
    BY <1>1, <1>2, propagateAnswers, conflictAnswers, assumeAnswers, solutionAnswers, constrainAnswers
       DEF Next, search

(* The search answers rightly, whatever the problem, the assumptions, the    *)
(* objective and the options: each solution printed satisfies the problem    *)
(* and the user's assumptions and is better than those before it, or new,    *)
(* and "UNSATISFIABLE" or "COMPLETE" is said only when nothing is wanted any *)
(* more, or the model's own complete() has said so.                          *)
THEOREM SearchAnswersRightly == Spec => AnswersRightly
  <1>1. Init => A!AInit
    BY DEF Init, A!AInit, answer
  <1> QED
    BY <1>1, StepAnswers, SearchInvariance, PTL DEF Spec, AnswersRightly, A!ASpec

=============================================================================
