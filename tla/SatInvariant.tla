---------------------------- MODULE SatInvariant ----------------------------
(* Proofs about module Sat, for any runs of the program: the inductive        *)
(* invariant - what conflict analysis learns holds in every solution still to *)
(* be printed, and every reason it reads is there, in order and false - and   *)
(* that the steps outside conflict analysis keep it: propagation of clauses,  *)
(* FD propagators, and one turn of the search loop.                           *)
EXTENDS Sat, FiniteSetTheorems, SequenceTheorems, NaturalFacts

-----------------------------------------------------------------------------
(* The inductive invariant.  Its parts are operators on the trail t, the true *)
(* literals a, the reasons R, the clause memory M, the slots rt freed with    *)
(* each level and the models rem still to be found, so that a step that goes  *)
(* back and then enqueues is two applications of what is proved of them.      *)

Entails(rem, C) == \A m \in rem : m \cap C # {}

DeepOf(t) == UNION {Elems(t[l]) : l \in 2 .. Len(t)}
BelowOf(t, a, l) == a \ UNION {Elems(t[k]) : k \in l .. Len(t)}

ExplanationIn(M, r) ==
  CASE r[1] = "clause" -> Rest(M[r[2]])
    [] r[1] = "lits"   -> r[2]
    [] r[1] = "lazy"   -> neg(r[2].body)

(* p is true, and was before place i of level l. *)
Precedes(t, a, p, l, i) ==
  /\ p \in a
  /\ \A k \in DOMAIN t : \A j \in DOMAIN t[k] : t[k][j] = p => k < l \/ (k = l /\ j < i)

TrailRight(t, a) ==
  /\ \A l \in DOMAIN t : \A i \in DOMAIN t[l] : t[l][i] \in a
  /\ \A k, l \in DOMAIN t : \A i \in DOMAIN t[k], j \in DOMAIN t[l] : t[k][i] = t[l][j] => k = l /\ i = j
  /\ \A p \in a : -p \notin a
  /\ Len(t) > 1 => t[1] = <<>>

(* A slot that is there as long as level l is. *)
Lasts(M, rt, i, l) == i \in DOMAIN M /\ \A k \in l + 1 .. Len(rt) : i \notin rt[k]

Implied(t, a, R, M, rt, rem, l, i) ==
  LET p == t[l][i]
      r == R[var(p)]
  IN /\ r # NoReason
     /\ r[1] = "clause" => Lasts(M, rt, r[2], l) /\ (M[r[2]].temp \/ M[r[2]].c0 = p)
     /\ Entails(rem, {p} \cup ExplanationIn(M, r))
     /\ \A q \in ExplanationIn(M, r) : Precedes(t, a, -q, l, i)

(* Above the root the first literal of a level is a decision, and the others  *)
(* are implied by literals before them.                                       *)
ReasonsRight(t, a, R, M, rt, rem) ==
  \A l \in 2 .. Len(t) :
    /\ t[l] # <<>> /\ R[var(t[l][1])] = NoReason /\ var(t[l][1]) \notin Hidden
    /\ \A i \in 2 .. Len(t[l]) : Implied(t, a, R, M, rt, rem, l, i)

(* A valLit is implied by bounds, and at the latest before the next decision. *)
HiddenRight(t, a, R) ==
  \A p \in a : var(p) \in Hidden =>
    \E k \in Inference :
      /\ p \in k.heads /\ k.body \subseteq a
      /\ p \in DeepOf(t) => R[var(p)] = <<"lits", neg(k.body)>>
      /\ p \notin DeepOf(t) => k.body \cap DeepOf(t) = {}

ShortClosed(t, a) ==
  \A l \in 2 .. Len(t) : \A k \in Inference :
    k.kind = "short" /\ k.body \subseteq BelowOf(t, a, l) => k.heads \subseteq BelowOf(t, a, l)

(* No propagator has anything to reject at the root when the search branches. *)
RootQuiet(t, a) ==
  Len(t) > 1 => \A k \in Inference :
    k.body \subseteq a \ DeepOf(t) => k.heads # {} /\ \A h \in k.heads : -h \notin a \ DeepOf(t)

RootRight(t, a, rem) == \A m \in rem : a \ DeepOf(t) \subseteq m

StackRight(t, a, R, M, rt, rem) ==
  /\ TrailRight(t, a) /\ ReasonsRight(t, a, R, M, rt, rem) /\ HiddenRight(t, a, R)
  /\ ShortClosed(t, a) /\ RootQuiet(t, a) /\ RootRight(t, a, rem)

(* The clauses the solver acts on hold in every model still to be found, and  *)
(* those that are watched or kept as learnt are not freed with a level.       *)
Kept(M, rt, i) == i \in DOMAIN M /\ ~ M[i].temp /\ \A k \in DOMAIN rt : i \notin rt[k]

Learnable(C) == vars_of(C) \cap Hidden = {}

WatchRight(M, rt, rem, l, e) ==
  IF e[1] = "bin" THEN Entails(rem, {-l, e[2]}) /\ Learnable({e[2]})
  ELSE /\ Kept(M, rt, e[2]) /\ M[e[2]].c0 # 0 /\ M[e[2]].c1 # 0
       /\ -l \in {M[e[2]].c0, M[e[2]].c1}

StoreRight(M, W, ls, rt, rem) ==
  /\ \A i \in DOMAIN M : M[i].temp \/ (Entails(rem, Lits(M[i])) /\ Learnable(Lits(M[i])))
  /\ \A l \in Lit : \A e \in W[l] : WatchRight(M, rt, rem, l, e)
  /\ \A i \in ls : Kept(M, rt, i)
  /\ \A k \in DOMAIN rt : rt[k] \subseteq DOMAIN M
  /\ \A j, k \in DOMAIN rt : j # k => rt[j] \cap rt[k] = {}

(* A false literal q of a nogood says what its explanation says when it is    *)
(* the negation of a valLit: those are explained before a clause is learnt.   *)
HoldsIn(t, R, m, q) ==
  IF var(q) \in Hidden /\ -q \in DeepOf(t) THEN m \cap R[var(q)][2] # {} ELSE q \in m
Nogood(t, R, rem, C) == \A m \in rem : \E q \in C : HoldsIn(t, R, m, q)

-----------------------------------------------------------------------------
Typed ==
  /\ TypeOK
  /\ clause \in [DOMAIN clause -> ClauseObject]
  /\ watches \in [Lit -> SUBSET WatchElem]
  /\ reason \in [Var -> Reason]
  /\ an \in [index : Nat, pathC : Int, last : Reason, expl : SUBSET Lit, out : SUBSET Lit,
             p : Lit \cup {0}, removed : SUBSET Var]

Deep == DeepOf(trail)
Root == assigns \ Deep

Phases ==
  /\ pc # "propagate" \/ confl # NoReason => todo = {}
  /\ todo # {} => Last(qhead) \in DOMAIN Last(trail)
  /\ \A e \in todo : WatchRight(clause, rtrail, Remaining, current, e)
  /\ pc \in {"load", "branch"} => decisionLevel = 0 /\ confl = NoReason
  /\ pc = "branch" => trail = <<<<>>>> /\ \A k \in Inference : Quiet(k)
  /\ pc \in {"resolve", "select", "learn"} => decisionLevel > 0
  /\ pc = "GUN" => Remaining = {}

(* What a conflict is made of; at the root it ends the search. *)
ConflictRight ==
  /\ pc = "propagate" /\ confl # NoReason /\ decisionLevel = 0 => Remaining = {}
  /\ pc = "propagate" /\ confl # NoReason /\ decisionLevel > 0 =>
       /\ confl[1] = "clause" => confl[2] \in DOMAIN clause /\ (clause[confl[2]].temp \/ Kept(clause, rtrail, confl[2]))
       /\ ConflictLits \subseteq Lit /\ \A q \in ConflictLits : isFalse(q)
       /\ \E q \in ConflictLits : -q \in Deep
       /\ Nogood(trail, reason, Remaining, ConflictLits)
  /\ pc \in {"resolve", "select"} /\ confl[1] = "clause" => confl[2] \in DOMAIN clause

(* The literals of the conflict level still to be explained. *)
Walked == {Last(trail)[i] : i \in 1 .. an.index}
Marked == {p \in Walked : var(p) \in seen}

Analyzing ==
  pc \in {"resolve", "select", "learn"} =>
    /\ an.index <= Len(Last(trail))
    /\ \A q \in an.out : -q \in Deep \ Elems(Last(trail))
    /\ seen = vars_of(Root) \cup vars_of(an.out) \cup vars_of(Marked) \cup an.removed

Resolving ==
  pc = "resolve" =>
    /\ an.removed = {} /\ an.pathC = Cardinality(Marked)
    /\ \A q \in an.expl : isFalse(q) /\ (-q \in Elems(Last(trail)) => -q \in Walked)
    /\ Marked # {} \/ \E q \in an.expl : -q \in Walked
    /\ an.last # NoReason => an.expl = Explanation(an.last)
    /\ Nogood(trail, reason, Remaining, an.out \cup neg(Marked) \cup an.expl)

Selecting ==
  pc = "select" =>
    /\ an.removed = {} /\ an.pathC = Cardinality(Marked) /\ Marked # {}
    /\ an.last # NoReason =>
         \A q \in Explanation(an.last) : -q \in Root \/ q \in an.out \/ -q \in Marked
    /\ Nogood(trail, reason, Remaining, an.out \cup neg(Marked))

Learning ==
  pc = "learn" =>
    /\ Marked = {} /\ an.p \in Elems(Last(trail)) /\ var(an.p) \notin Hidden
    /\ an.removed \subseteq vars_of(Deep) /\ an.removed \subseteq Hidden
    /\ Nogood(trail, reason, Remaining, an.out \cup {-an.p})

SeenRight ==
  pc \notin {"resolve", "select", "learn"} =>
    seen = vars_of(assigns \ UNION {Elems(trail[l]) : l \in DOMAIN trail})

SatInv ==
  /\ Typed /\ Phases
  /\ StackRight(trail, assigns, reason, clause, rtrail, Remaining)
  /\ StoreRight(clause, watches, learnts, rtrail, Remaining)
  /\ ConflictRight /\ SeenRight /\ Analyzing /\ Resolving /\ Selecting /\ Learning

-----------------------------------------------------------------------------
(* Literals and models. *)

LEMMA LitFacts ==
  ASSUME given \in DOMAIN Runs
  PROVE  /\ Var \subseteq Nat \ {0} /\ IsFiniteSet(Var)
         /\ Hidden \subseteq Var /\ Output \subseteq Var
         /\ \A x \in Var : x \in Lit
         /\ \A l \in Lit : l \in Int /\ l # 0 /\ -l \in Lit /\ -l # l /\ -(-l) = l
         /\ \A l \in Lit : var(l) \in Var /\ var(-l) = var(l)
         /\ \A k, l \in Lit : var(k) = var(l) => k = l \/ k = -l
         /\ 0 \notin Lit
  <1>1. Runs[given] \in Elems(Runs)
    BY DEF Elems
  <1>2. Var \subseteq Nat \ {0} /\ IsFiniteSet(Var) /\ Hidden \subseteq Var /\ Output \subseteq Var
    BY <1>1, ProblemAssumption, FlagAssumption DEF Var, Hidden, Output
  <1>3. Lit = Var \cup {-x : x \in Var}
    BY DEF Lit, LitSets, LitOf, neg, Var
  <1> QED
    BY <1>2, <1>3 DEF var

LEMMA NegFacts ==
  ASSUME given \in DOMAIN Runs, NEW S \in SUBSET Lit
  PROVE  /\ neg(S) \subseteq Lit
         /\ \A l \in Lit : l \in neg(S) <=> -l \in S
         /\ \A l \in S : -l \in neg(S)
         /\ \A l \in Lit : var(l) \in vars_of(S) <=> (l \in S \/ -l \in S)
         /\ vars_of(S) \subseteq Var
         /\ IsFiniteSet(S) => IsFiniteSet(neg(S))
  <1>1. \A l \in S : -l \in Lit
    BY LitFacts
  <1>2. neg(S) \subseteq Lit
    BY <1>1 DEF neg
  <1>3. \A l \in S : -l \in neg(S)
    BY DEF neg
  <1>4. ASSUME NEW l \in Lit PROVE l \in neg(S) <=> -l \in S
    <2>1. ASSUME l \in neg(S) PROVE -l \in S
      <3>1. PICK k \in S : l = -k
        BY <2>1 DEF neg
      <3> QED
        BY <3>1, LitFacts
    <2>2. ASSUME -l \in S PROVE l \in neg(S)
      <3>1. -(-l) = l
        BY LitFacts
      <3> QED
        BY <2>2, <3>1, <1>3
    <2> QED
      BY <2>1, <2>2
  <1>5. ASSUME NEW l \in Lit PROVE var(l) \in vars_of(S) <=> (l \in S \/ -l \in S)
    <2>1. ASSUME var(l) \in vars_of(S) PROVE l \in S \/ -l \in S
      <3>1. PICK k \in S : var(l) = var(k)
        BY <2>1 DEF vars_of
      <3>2. k = l \/ k = -l
        BY <3>1, LitFacts
      <3> QED
        BY <3>1, <3>2
    <2>2. ASSUME l \in S \/ -l \in S PROVE var(l) \in vars_of(S)
      <3>1. var(-l) = var(l)
        BY LitFacts
      <3> QED
        BY <2>2, <3>1 DEF vars_of
    <2> QED
      BY <2>1, <2>2
  <1>6. vars_of(S) \subseteq Var
    BY LitFacts DEF vars_of
  <1>7. ASSUME IsFiniteSet(S) PROVE IsFiniteSet(neg(S))
    <2> DEFINE f == [l \in S |-> -l]
    <2>1. f \in Surjection(S, neg(S))
      BY DEF neg, Surjection
    <2> QED
      BY <2>1, <1>7, FS_Surjection
  <1> QED
    BY <1>2, <1>3, <1>4, <1>5, <1>6, <1>7

LEMMA RunFacts ==
  ASSUME given \in DOMAIN Runs
  PROVE  /\ Problem \in Seq(Seq(Lit))
         /\ \A k \in Inference :
              /\ k.body \subseteq Lit /\ k.body # {} /\ k.heads \subseteq Lit
              /\ k.kind \in {"eager", "short", "lazy"}
              /\ \A h \in k.heads : var(h) \in Hidden =>
                   /\ k.kind = "short" /\ h \in Hidden
                   /\ \A l \in k.body : var(l) \notin Hidden
         /\ \A i \in DOMAIN Problem : \A l \in Elems(Problem[i]) : var(l) \notin Hidden
  <1>1. Runs[given] \in Elems(Runs)
    BY DEF Elems
  <1>2. Problem \in Seq(Seq(Lit))
    BY <1>1, ProblemAssumption DEF Problem, Lit, LitSets
  <1>3. ASSUME NEW k \in Inference
        PROVE  /\ k.body \subseteq Lit /\ k.body # {} /\ k.heads \subseteq Lit
               /\ k.kind \in {"eager", "short", "lazy"}
    BY <1>1, InferenceAssumption DEF Inference, Lit, LitSets
  <1>4. ASSUME NEW k \in Inference, NEW h \in k.heads, var(h) \in Hidden
        PROVE  k.kind = "short" /\ h \in Hidden /\ \A l \in k.body : var(l) \notin Hidden
    <2>1. vars_of(k.heads) \cap Hidden # {}
      BY <1>4 DEF vars_of
    <2>2. k.kind = "short"
      BY <1>1, <2>1, InferenceAssumption DEF Inference, Hidden
    <2>3. h \in Hidden
      <3>1. k.heads \cap neg(Hidden) = {}
        BY <1>1, HiddenAssumption DEF Inference, Hidden
      <3>2. h \in Lit
        BY <1>3
      <3>3. h = var(h) \/ h = -var(h)
        BY <3>2, LitFacts DEF var
      <3> QED
        BY <3>1, <3>3, <1>4 DEF neg
    <2>4. vars_of(k.body) \cap Hidden = {}
      BY <1>1, <2>3, HiddenAssumption DEF Inference, Hidden
    <2> QED
      BY <2>2, <2>3, <2>4 DEF vars_of
  <1>5. ASSUME NEW i \in DOMAIN Problem, NEW l \in Elems(Problem[i]) PROVE var(l) \notin Hidden
    BY <1>1, HiddenAssumption DEF Problem, Hidden, vars_of
  <1> QED
    BY <1>2, <1>3, <1>4, <1>5

LEMMA ModelFacts ==
  ASSUME given \in DOMAIN Runs, NEW m \in Models
  PROVE  /\ m \subseteq Lit
         /\ \A l \in Lit : l \in m <=> -l \notin m
         /\ \A i \in DOMAIN Problem : m \cap Elems(Problem[i]) # {}
         /\ \A k \in Inference : k.body \subseteq m => k.heads # {} /\ k.heads \subseteq m
         /\ \A h \in Hidden : h \in m => \E k \in Inference : h \in k.heads /\ k.body \subseteq m
  <1>1. m \in ModelsOf(Runs[given])
    BY DEF Models, ModelSets
  <1>2. m \subseteq Lit /\ \A x \in Var : (x \in m) # (-x \in m)
    BY <1>1 DEF ModelsOf, Lit, LitSets, Var
  <1>3. ASSUME NEW l \in Lit PROVE l \in m <=> -l \notin m
    <2>1. l \in Var \/ (-l \in Var /\ -(-l) = l)
      BY LitFacts DEF Lit, LitSets, LitOf, neg, Var
    <2>2. (l \in m) \in BOOLEAN /\ (-l \in m) \in BOOLEAN
      OBVIOUS
    <2> QED
      BY <1>2, <2>1, <2>2
  <1>4. \A i \in DOMAIN Problem : m \cap Elems(Problem[i]) # {}
    BY <1>1 DEF ModelsOf, Problem, Satisfies
  <1>5. \A k \in Inference : k.body \subseteq m => k.heads # {} /\ k.heads \subseteq m
    BY <1>1 DEF ModelsOf, Inference
  <1>6. \A h \in Hidden : h \in m => \E k \in Inference : h \in k.heads /\ k.body \subseteq m
    BY <1>1 DEF ModelsOf, Inference, Hidden
  <1> QED
    BY <1>2, <1>3, <1>4, <1>5, <1>6

LEMMA Carried ==
  ASSUME given' = given
  PROVE  /\ Var' = Var /\ Lit' = Lit /\ Problem' = Problem /\ Inference' = Inference
         /\ Hidden' = Hidden /\ Output' = Output /\ Models' = Models /\ Shown' = Shown
         /\ nof_solutions' = nof_solutions
         /\ Reason' = Reason /\ ClauseObject' = ClauseObject /\ WatchElem' = WatchElem
  <1>1. /\ Var' = Var /\ Lit' = Lit /\ Problem' = Problem /\ Inference' = Inference
        /\ Hidden' = Hidden /\ Output' = Output /\ Models' = Models /\ Shown' = Shown
        /\ nof_solutions' = nof_solutions
    BY DEF Var, Lit, Problem, Inference, Hidden, Output, Models, Shown, nof_solutions
  <1> QED
    BY <1>1 DEF Reason, ClauseObject, WatchElem

-----------------------------------------------------------------------------
(* The trail. *)

StackTyped(t, a, R, M, rt) ==
  /\ given \in DOMAIN Runs
  /\ t \in Seq(Seq(Lit)) /\ Len(t) > 0
  /\ a \in SUBSET Lit
  /\ R \in [Var -> Reason]
  /\ M \in [DOMAIN M -> ClauseObject]
  /\ rt \in Seq(SUBSET (1..MaxClause)) /\ Len(rt) = Len(t)

LEMMA Places ==
  ASSUME NEW t \in Seq(Seq(Lit))
  PROVE  /\ Len(t) \in Nat /\ DOMAIN t = 1 .. Len(t)
         /\ \A l \in 1 .. Len(t) :
              /\ t[l] \in Seq(Lit) /\ Len(t[l]) \in Nat /\ DOMAIN t[l] = 1 .. Len(t[l])
              /\ \A i \in 1 .. Len(t[l]) : t[l][i] \in Lit
         /\ \A p : p \in DeepOf(t) <=> \E l \in 2 .. Len(t) : \E i \in 1 .. Len(t[l]) : t[l][i] = p
  <1>1. Len(t) \in Nat /\ DOMAIN t = 1 .. Len(t) /\ \A l \in 1 .. Len(t) : t[l] \in Seq(Lit)
    OBVIOUS
  <1>2. ASSUME NEW l \in 1 .. Len(t)
        PROVE  /\ Len(t[l]) \in Nat /\ DOMAIN t[l] = 1 .. Len(t[l])
               /\ \A i \in 1 .. Len(t[l]) : t[l][i] \in Lit
    <2>1. t[l] \in Seq(Lit)
      BY <1>1
    <2> QED
      BY <2>1
  <1>3. \A l \in 2 .. Len(t) : l \in 1 .. Len(t)
    BY <1>1
  <1>4. \A p : p \in DeepOf(t) <=> \E l \in 2 .. Len(t) : \E i \in DOMAIN t[l] : t[l][i] = p
    BY DEF DeepOf, Elems
  <1>5. \A p : p \in DeepOf(t) <=> \E l \in 2 .. Len(t) : \E i \in 1 .. Len(t[l]) : t[l][i] = p
    BY <1>2, <1>3, <1>4
  <1> QED
    BY <1>1, <1>2, <1>5

LEMMA Below ==
  ASSUME NEW t, NEW a, NEW l, NEW p
  PROVE  p \in BelowOf(t, a, l) <=>
           p \in a /\ ~ \E k \in l .. Len(t) : \E i \in DOMAIN t[k] : t[k][i] = p
  BY DEF BelowOf, Elems

(* What is undone when the trail t becomes t1. *)
Gone(t, t1, q) ==
  \E l \in 1 .. Len(t) : \E i \in 1 .. Len(t[l]) :
    t[l][i] = q /\ (l > Len(t1) \/ i > Len(t1[l]))

CutOf(t, a, t1, a1) ==
  /\ t1 \in Seq(Seq(Lit)) /\ Len(t1) \in 1 .. Len(t)
  /\ \A l \in 1 .. Len(t1) :
       Len(t1[l]) <= Len(t[l]) /\ \A i \in 1 .. Len(t1[l]) : t1[l][i] = t[l][i]
  /\ \A l \in 1 .. Len(t1) - 1 : t1[l] = t[l]
  /\ \A l \in 2 .. Len(t1) : t1[l] # <<>>
  /\ Len(t1) = 1 => t1[1] = t[1]
  /\ a1 \subseteq a
  /\ \A q \in a : q \in a1 <=> ~ Gone(t, t1, q)

LEMMA CutShape ==
  ASSUME NEW t \in Seq(Seq(Lit)), NEW a \in SUBSET Lit, NEW t1, NEW a1,
         Len(t) > 0, TrailRight(t, a), CutOf(t, a, t1, a1)
  PROVE  /\ TrailRight(t1, a1)
         /\ a1 \ DeepOf(t1) = a \ DeepOf(t)
         /\ \A l \in 2 .. Len(t1) : BelowOf(t1, a1, l) = BelowOf(t, a, l)
         /\ DeepOf(t1) \subseteq DeepOf(t)
         /\ \A l \in 2 .. Len(t1) : \A i \in 1 .. Len(t1[l]) : \A q :
              Precedes(t, a, q, l, i) => Precedes(t1, a1, q, l, i)
  <1>1. Len(t) \in Nat /\ DOMAIN t = 1 .. Len(t)
    BY Places
  <1>2. \A l \in 1 .. Len(t) :
              /\ t[l] \in Seq(Lit) /\ Len(t[l]) \in Nat /\ DOMAIN t[l] = 1 .. Len(t[l])
    BY Places
  <1>3. Len(t1) \in Nat /\ DOMAIN t1 = 1 .. Len(t1)
    BY Places DEF CutOf
  <1>4. \A l \in 1 .. Len(t1) :
              /\ t1[l] \in Seq(Lit) /\ Len(t1[l]) \in Nat /\ DOMAIN t1[l] = 1 .. Len(t1[l])
    BY Places DEF CutOf
  <1>5. Len(t1) \in 1 .. Len(t) /\ \A l \in 1 .. Len(t1) : l \in 1 .. Len(t)
    BY <1>1, <1>3 DEF CutOf
  <1>6. \A l \in 1 .. Len(t1) : Len(t1[l]) <= Len(t[l]) /\ \A i \in 1 .. Len(t1[l]) : i \in 1 .. Len(t[l]) /\ t1[l][i] = t[l][i]
    BY <1>2, <1>4, <1>5 DEF CutOf
  <1>7. \A l \in 1 .. Len(t) : \A i \in 1 .. Len(t[l]) : t[l][i] \in a
    BY <1>1, <1>2 DEF TrailRight
  <1>8. ASSUME NEW k \in 1 .. Len(t), NEW l \in 1 .. Len(t),
               NEW i \in 1 .. Len(t[k]), NEW j \in 1 .. Len(t[l]), t[k][i] = t[l][j]
        PROVE  k = l /\ i = j
    <2>1. k \in DOMAIN t /\ l \in DOMAIN t /\ i \in DOMAIN t[k] /\ j \in DOMAIN t[l]
      BY <1>1, <1>2
    <2> QED
      BY <2>1, <1>8 DEF TrailRight
  <1>9. \A l \in 1 .. Len(t1) : \A i \in 1 .. Len(t1[l]) : t1[l][i] \in a1
    <2> SUFFICES ASSUME NEW l \in 1 .. Len(t1), NEW i \in 1 .. Len(t1[l]) PROVE t1[l][i] \in a1
      OBVIOUS
    <2>1. l \in 1 .. Len(t) /\ i \in 1 .. Len(t[l]) /\ t1[l][i] = t[l][i]
      BY <1>5, <1>6
    <2>2. ~ Gone(t, t1, t[l][i])
      <3> SUFFICES ASSUME NEW k \in 1 .. Len(t), NEW j \in 1 .. Len(t[k]), t[k][j] = t[l][i]
                   PROVE  ~ (k > Len(t1) \/ j > Len(t1[k]))
        BY DEF Gone
      <3>1. k = l /\ j = i
        BY <1>8, <2>1
      <3> QED
        BY <3>1, <1>3, <1>4
    <2> QED
      BY <2>1, <2>2, <1>7 DEF CutOf
  <1>10. TrailRight(t1, a1)
    <2>1. \A l \in DOMAIN t1 : \A i \in DOMAIN t1[l] : t1[l][i] \in a1
      BY <1>9, <1>3, <1>4
    <2>2. \A k, l \in DOMAIN t1 : \A i \in DOMAIN t1[k], j \in DOMAIN t1[l] : t1[k][i] = t1[l][j] => k = l /\ i = j
      <3> SUFFICES ASSUME NEW k \in DOMAIN t1, NEW l \in DOMAIN t1, NEW i \in DOMAIN t1[k],
                          NEW j \in DOMAIN t1[l], t1[k][i] = t1[l][j]
                   PROVE  k = l /\ i = j
        OBVIOUS
      <3>1. /\ k \in 1 .. Len(t1) /\ l \in 1 .. Len(t1) /\ i \in 1 .. Len(t1[k]) /\ j \in 1 .. Len(t1[l])
        BY <1>3, <1>4
      <3>2. /\ k \in 1 .. Len(t) /\ l \in 1 .. Len(t) /\ i \in 1 .. Len(t[k]) /\ j \in 1 .. Len(t[l])
            /\ t[k][i] = t[l][j]
        BY <3>1, <1>5, <1>6
      <3> QED
        BY <3>2, <1>8
    <2>3. \A p \in a1 : -p \notin a1
      BY DEF TrailRight, CutOf
    <2>4. Len(t1) > 1 => t1[1] = <<>>
      <3> SUFFICES ASSUME Len(t1) > 1 PROVE t1[1] = <<>>
        OBVIOUS
      <3>1. 1 \in 1 .. Len(t1) - 1 /\ Len(t) > 1
        BY <1>1, <1>3, <1>5
      <3>2. t1[1] = t[1]
        BY <3>1 DEF CutOf
      <3> QED
        BY <3>1, <3>2 DEF TrailRight
    <2> QED
      BY <2>1, <2>2, <2>3, <2>4 DEF TrailRight
  (* What is still true is below the cut, or where it was. *)
  <1>11. ASSUME NEW q \in a1, NEW k \in 1 .. Len(t), NEW j \in 1 .. Len(t[k]), t[k][j] = q
         PROVE  k \in 1 .. Len(t1) /\ j \in 1 .. Len(t1[k]) /\ t1[k][j] = q
    <2>1. ~ Gone(t, t1, q)
      BY DEF CutOf
    <2>2. ~ (k > Len(t1)) /\ ~ (j > Len(t1[k]))
      BY <2>1, <1>11 DEF Gone
    <2>3. k \in 1 .. Len(t1)
      BY <2>2, <1>3, <1>1
    <2>4. j \in 1 .. Len(t1[k])
      BY <2>2, <2>3, <1>4, <1>2
    <2> QED
      BY <2>3, <2>4, <1>6, <1>11
  <1>12. ASSUME NEW q \in a, NEW l \in 1 .. Len(t1), l # 1 \/ Len(t1) > 1,
                ~ \E k \in l .. Len(t) : \E i \in DOMAIN t[k] : t[k][i] = q
         PROVE  q \in a1
    <2> SUFFICES ASSUME NEW k \in 1 .. Len(t), NEW j \in 1 .. Len(t[k]), t[k][j] = q,
                        k > Len(t1) \/ j > Len(t1[k])
                 PROVE  FALSE
      BY DEF CutOf, Gone
    <2>1. ~ (k \in l .. Len(t))
      BY <1>12, <1>2
    <2>2. k \in 1 .. Len(t1) - 1
      BY <2>1, <1>1, <1>3, <1>5
    <2>3. t1[k] = t[k]
      BY <2>2 DEF CutOf
    <2> QED
      BY <2>2, <2>3, <1>1, <1>2, <1>3
  <1>13. ASSUME NEW l \in 2 .. Len(t1) PROVE BelowOf(t1, a1, l) = BelowOf(t, a, l)
    <2>0. l \in 1 .. Len(t1) /\ l # 1
      BY <1>3
    <2>1. ASSUME NEW q \in BelowOf(t1, a1, l) PROVE q \in BelowOf(t, a, l)
      <3>1. q \in a1 /\ ~ \E k \in l .. Len(t1) : \E i \in DOMAIN t1[k] : t1[k][i] = q
        BY Below
      <3>2. q \in a
        BY <3>1 DEF CutOf
      <3>3. ASSUME NEW k \in l .. Len(t), NEW i \in DOMAIN t[k], t[k][i] = q PROVE FALSE
        <4>1. k \in 1 .. Len(t) /\ i \in 1 .. Len(t[k])
          BY <1>1, <1>2, <2>0
        <4>2. k \in 1 .. Len(t1) /\ i \in 1 .. Len(t1[k]) /\ t1[k][i] = q
          BY <4>1, <3>1, <3>3, <1>11
        <4>3. k \in l .. Len(t1) /\ i \in DOMAIN t1[k]
          BY <4>2, <1>3, <1>4
        <4> QED
          BY <4>2, <4>3, <3>1
      <3> QED
        BY <3>2, <3>3, Below
    <2>2. ASSUME NEW q \in BelowOf(t, a, l) PROVE q \in BelowOf(t1, a1, l)
      <3>1. q \in a /\ ~ \E k \in l .. Len(t) : \E i \in DOMAIN t[k] : t[k][i] = q
        BY Below
      <3>2. q \in a1
        BY <3>1, <2>0, <1>12
      <3>3. ASSUME NEW k \in l .. Len(t1), NEW i \in DOMAIN t1[k], t1[k][i] = q PROVE FALSE
        <4>1. k \in 1 .. Len(t1) /\ i \in 1 .. Len(t1[k]) /\ k \in l .. Len(t)
          BY <1>3, <1>4, <1>5, <1>1, <2>0
        <4>2. t[k][i] = q /\ i \in DOMAIN t[k]
          BY <4>1, <3>3, <1>6, <1>5, <1>2
        <4> QED
          BY <4>1, <4>2, <3>1
      <3> QED
        BY <3>2, <3>3, Below
    <2> QED
      BY <2>1, <2>2
  <1>14. a1 \ DeepOf(t1) = a \ DeepOf(t)
    <2>1. CASE Len(t1) > 1
      <3>1. 2 \in 2 .. Len(t1)
        BY <2>1, <1>3
      <3>2. BelowOf(t1, a1, 2) = BelowOf(t, a, 2)
        BY <3>1, <1>13
      <3> QED
        BY <3>2 DEF BelowOf, DeepOf
    <2>2. CASE Len(t1) = 1
      <3>1. DeepOf(t1) = {}
        BY <2>2 DEF DeepOf
      <3>2. ASSUME NEW q \in a PROVE q \in a1 <=> q \notin DeepOf(t)
        <4>1. ASSUME q \in a1, q \in DeepOf(t) PROVE FALSE
          <5>1. PICK k \in 2 .. Len(t) : \E i \in 1 .. Len(t[k]) : t[k][i] = q
            BY <4>1, Places
          <5>2. k \in 1 .. Len(t) /\ k > 1
            BY <1>1
          <5>3. k \in 1 .. Len(t1)
            BY <5>1, <5>2, <4>1, <1>11
          <5> QED
            BY <5>2, <5>3, <2>2
        <4>2. ASSUME q \notin a1 PROVE q \in DeepOf(t)
          <5>1. Gone(t, t1, q)
            BY <4>2 DEF CutOf
          <5>2. PICK k \in 1 .. Len(t) : \E i \in 1 .. Len(t[k]) : t[k][i] = q /\ (k > 1 \/ i > Len(t1[k]))
            BY <5>1, <2>2 DEF Gone
          <5>3. t1[1] = t[1]
            BY <2>2 DEF CutOf
          <5>4. k > 1
            <6> SUFFICES ASSUME ~ (k > 1) PROVE FALSE
              OBVIOUS
            <6>1. k = 1
              BY <1>1
            <6> QED
              BY <6>1, <5>2, <5>3, <1>2
          <5>5. k \in 2 .. Len(t)
            BY <5>4, <1>1
          <5> QED
            BY <5>2, <5>5, Places
        <4> QED
          BY <4>1, <4>2
      <3> QED
        BY <3>1, <3>2 DEF CutOf
    <2> QED
      BY <2>1, <2>2, <1>3, <1>5
  <1>15. DeepOf(t1) \subseteq DeepOf(t)
    <2> SUFFICES ASSUME NEW q \in DeepOf(t1) PROVE q \in DeepOf(t)
      OBVIOUS
    <2>1. PICK k \in 2 .. Len(t1) : \E i \in 1 .. Len(t1[k]) : t1[k][i] = q
      BY Places DEF CutOf
    <2>2. k \in 1 .. Len(t1) /\ k \in 2 .. Len(t)
      BY <1>3, <1>5, <1>1
    <2>3. \E i \in 1 .. Len(t[k]) : t[k][i] = q
      BY <2>1, <2>2, <1>6
    <2> QED
      BY <2>2, <2>3, Places
  <1>16. ASSUME NEW l \in 2 .. Len(t1), NEW i \in 1 .. Len(t1[l]), NEW q, Precedes(t, a, q, l, i)
         PROVE  Precedes(t1, a1, q, l, i)
    <2>0. l \in 1 .. Len(t1)
      BY <1>3
    <2>1. q \in a1
      <3>0. q \in a /\ (~ Gone(t, t1, q) => q \in a1)
        BY <1>16 DEF Precedes, CutOf
      <3> SUFFICES ASSUME NEW k \in 1 .. Len(t), NEW j \in 1 .. Len(t[k]), t[k][j] = q,
                          k > Len(t1) \/ j > Len(t1[k])
                   PROVE  FALSE
        BY <3>0 DEF Gone
      <3>1. k < l \/ (k = l /\ j < i)
        BY <1>16, <1>1, <1>2 DEF Precedes
      <3>2. k \in 1 .. Len(t1) /\ ~ (k > Len(t1))
        BY <3>1, <2>0, <1>1, <1>3
      <3>3. k # l
        BY <3>1, <3>2, <1>4, <1>2
      <3>4. k \in 1 .. Len(t1) - 1
        BY <3>3, <3>1, <2>0, <1>3
      <3>5. t1[k] = t[k]
        BY <3>4 DEF CutOf
      <3> QED
        BY <3>2, <3>5, <1>2
    <2>2. ASSUME NEW k \in DOMAIN t1, NEW j \in DOMAIN t1[k], t1[k][j] = q PROVE k < l \/ (k = l /\ j < i)
      <3>1. k \in DOMAIN t /\ j \in DOMAIN t[k] /\ t[k][j] = q
        BY <2>2, <1>1, <1>2, <1>3, <1>4, <1>5, <1>6
      <3> QED
        BY <3>1, <1>16 DEF Precedes
    <2> QED
      BY <2>1, <2>2 DEF Precedes
  <1> QED
    BY <1>10, <1>13, <1>14, <1>15, <1>16

LEMMA Explanations ==
  ASSUME NEW M, NEW r \in Reason
  PROVE  /\ r[1] = "clause" => r = <<"clause", r[2]>> /\ ExplanationIn(M, r) = Rest(M[r[2]])
         /\ r[1] = "lits" => r[2] \in SUBSET Lit /\ ExplanationIn(M, r) = r[2]
         /\ r[1] = "lazy" => r[2] \in Inference /\ ExplanationIn(M, r) = neg(r[2].body)
         /\ r # NoReason => r[1] \in {"clause", "lits", "lazy"}
  <1>1. CASE r = NoReason
    BY <1>1 DEF NoReason
  <1>2. CASE r \in {"clause"} \X (1..MaxClause)
    <2>1. r[1] = "clause" /\ r = <<"clause", r[2]>>
      BY <1>2
    <2> QED
      BY <2>1 DEF ExplanationIn
  <1>3. CASE r \in {"lits"} \X (SUBSET Lit)
    <2>1. r[1] = "lits" /\ r[2] \in SUBSET Lit
      BY <1>3
    <2> QED
      BY <2>1 DEF ExplanationIn
  <1>4. CASE r \in {"lazy"} \X Inference
    <2>1. r[1] = "lazy" /\ r[2] \in Inference
      BY <1>4
    <2> QED
      BY <2>1 DEF ExplanationIn
  <1>5. \/ r = NoReason \/ r \in {"clause"} \X (1..MaxClause)
        \/ r \in {"lits"} \X (SUBSET Lit) \/ r \in {"lazy"} \X Inference
    BY DEF Reason
  <1> QED
    BY <1>1, <1>2, <1>3, <1>4, <1>5

LEMMA SameExplanation ==
  ASSUME NEW M, NEW M1, NEW r \in Reason, r # NoReason,
         r[1] = "clause" => Rest(M1[r[2]]) = Rest(M[r[2]])
  PROVE  ExplanationIn(M1, r) = ExplanationIn(M, r)
  BY Explanations

SameReasons(a, R, R1) == \A q \in a : R1[var(q)] = R[var(q)]

(* The clauses that are reasons on t1 are as they were with t. *)
ReasonsKept(t, t1, R, M, rt, M1, rt1) ==
  \A l \in 2 .. Len(t1) : \A i \in 2 .. Len(t1[l]) : \A s :
    /\ R[var(t[l][i])] = <<"clause", s>>
    /\ Lasts(M, rt, s, l) /\ (M[s].temp \/ M[s].c0 = t[l][i])
    => /\ Lasts(M1, rt1, s, l) /\ (M1[s].temp \/ M1[s].c0 = t[l][i])
       /\ Rest(M1[s]) = Rest(M[s])

LEMMA StackCut ==
  ASSUME NEW t, NEW a, NEW R, NEW M, NEW rt, NEW rem, StackTyped(t, a, R, M, rt),
         StackRight(t, a, R, M, rt, rem),
         NEW t1, NEW a1, NEW R1, NEW M1, NEW rt1, NEW rem1 \in SUBSET rem, CutOf(t, a, t1, a1),
         SameReasons(a1, R, R1), ReasonsKept(t, t1, R, M, rt, M1, rt1)
  PROVE  StackRight(t1, a1, R1, M1, rt1, rem1)
  <1>0. /\ TrailRight(t, a) /\ ReasonsRight(t, a, R, M, rt, rem) /\ HiddenRight(t, a, R)
        /\ ShortClosed(t, a) /\ RootQuiet(t, a) /\ RootRight(t, a, rem)
    BY DEF StackRight
  <1>r. \A q \in a1 : R1[var(q)] = R[var(q)]
    BY DEF SameReasons
  <1>1. /\ t \in Seq(Seq(Lit)) /\ Len(t) > 0 /\ a \in SUBSET Lit /\ t1 \in Seq(Seq(Lit))
        /\ Len(t1) \in 1 .. Len(t) /\ given \in DOMAIN Runs /\ R \in [Var -> Reason] /\ a1 \subseteq a
    BY DEF StackTyped, CutOf
  <1>2. /\ TrailRight(t1, a1)
        /\ a1 \ DeepOf(t1) = a \ DeepOf(t)
        /\ \A l \in 2 .. Len(t1) : BelowOf(t1, a1, l) = BelowOf(t, a, l)
        /\ DeepOf(t1) \subseteq DeepOf(t)
        /\ \A l \in 2 .. Len(t1) : \A i \in 1 .. Len(t1[l]) : \A q :
              Precedes(t, a, q, l, i) => Precedes(t1, a1, q, l, i)
    BY <1>0, <1>1, CutShape
  <1>3. Len(t) \in Nat /\ Len(t1) \in Nat /\ \A l \in 2 .. Len(t1) : l \in 2 .. Len(t) /\ l \in 1 .. Len(t1) /\ l \in 1 .. Len(t)
    BY <1>1
  <1>4. ASSUME NEW l \in 2 .. Len(t1)
        PROVE  /\ Len(t1[l]) \in Nat /\ Len(t[l]) \in Nat /\ Len(t1[l]) <= Len(t[l]) /\ Len(t1[l]) > 0
               /\ DOMAIN t1 = 1 .. Len(t1) /\ DOMAIN t1[l] = 1 .. Len(t1[l])
               /\ \A i \in 1 .. Len(t1[l]) : t1[l][i] = t[l][i] /\ t1[l][i] \in a1
    <2>1. Len(t1[l]) \in Nat /\ Len(t[l]) \in Nat /\ t1[l] \in Seq(Lit) /\ DOMAIN t1[l] = 1 .. Len(t1[l]) /\ DOMAIN t1 = 1 .. Len(t1)
      BY <1>1, <1>3, Places
    <2>2. t1[l] # <<>> /\ Len(t1[l]) <= Len(t[l]) /\ \A i \in 1 .. Len(t1[l]) : t1[l][i] = t[l][i]
      BY <1>3 DEF CutOf
    <2>3. \A i \in 1 .. Len(t1[l]) : t1[l][i] \in a1
      BY <2>1, <1>2, <1>3 DEF TrailRight
    <2>4. Len(t1[l]) # 0
      BY <2>1, <2>2
    <2> QED
      BY <2>1, <2>2, <2>3, <2>4
  <1>5. ReasonsRight(t1, a1, R1, M1, rt1, rem1)
    <2> SUFFICES ASSUME NEW l \in 2 .. Len(t1)
                 PROVE  /\ t1[l] # <<>> /\ R1[var(t1[l][1])] = NoReason /\ var(t1[l][1]) \notin Hidden
                        /\ \A i \in 2 .. Len(t1[l]) : Implied(t1, a1, R1, M1, rt1, rem1, l, i)
      BY DEF ReasonsRight
    <2>0. l \in 2 .. Len(t)
      BY <1>3
    <2>1. t1[l] # <<>>
      BY DEF CutOf
    <2>2. R1[var(t1[l][1])] = NoReason /\ var(t1[l][1]) \notin Hidden
      <3>1. 1 \in 1 .. Len(t1[l])
        BY <1>4
      <3>2. t1[l][1] = t[l][1] /\ t1[l][1] \in a1
        BY <3>1, <1>4
      <3> QED
        BY <3>2, <2>0, <1>0, <1>r DEF ReasonsRight
    <2>3. ASSUME NEW i \in 2 .. Len(t1[l]) PROVE Implied(t1, a1, R1, M1, rt1, rem1, l, i)
      <3> DEFINE p == t[l][i]
                 r == R[var(p)]
      <3>1. i \in 1 .. Len(t1[l]) /\ i \in 2 .. Len(t[l])
        BY <1>4
      <3>2. t1[l][i] = p /\ p \in a1 /\ R1[var(p)] = r
        BY <3>1, <1>4, <1>r
      <3>3. Implied(t, a, R, M, rt, rem, l, i)
        BY <3>1, <2>0, <1>0 DEF ReasonsRight
      <3>4. r # NoReason
        BY <3>3 DEF Implied
      <3>5. ASSUME r[1] = "clause"
            PROVE  /\ Lasts(M1, rt1, r[2], l) /\ (M1[r[2]].temp \/ M1[r[2]].c0 = p)
                   /\ Rest(M1[r[2]]) = Rest(M[r[2]])
        <4>1. Lasts(M, rt, r[2], l) /\ (M[r[2]].temp \/ M[r[2]].c0 = p)
          BY <3>3, <3>5 DEF Implied
        <4>2. r \in Reason
          BY <3>2, <1>1, LitFacts
        <4>3. r = <<"clause", r[2]>>
          BY <4>2, <3>5, Explanations
        <4> QED
          BY <4>1, <4>3 DEF ReasonsKept
      <3>6. ExplanationIn(M1, r) = ExplanationIn(M, r)
        <4>1. r \in Reason
          BY <3>2, <1>1, LitFacts
        <4> QED
          BY <3>4, <3>5, <4>1, SameExplanation
      <3>7. Entails(rem1, {p} \cup ExplanationIn(M1, r))
        BY <3>3, <3>6 DEF Implied, Entails
      <3>8. \A q \in ExplanationIn(M1, r) : Precedes(t1, a1, -q, l, i)
        BY <3>1, <3>3, <3>6, <1>2 DEF Implied
      <3> QED
        BY <3>2, <3>4, <3>5, <3>7, <3>8 DEF Implied
    <2> QED
      BY <2>1, <2>2, <2>3
  <1>6. HiddenRight(t1, a1, R1)
    <2> SUFFICES ASSUME NEW p \in a1, var(p) \in Hidden
                 PROVE  \E k \in Inference :
                          /\ p \in k.heads /\ k.body \subseteq a1
                          /\ p \in DeepOf(t1) => R1[var(p)] = <<"lits", neg(k.body)>>
                          /\ p \notin DeepOf(t1) => k.body \cap DeepOf(t1) = {}
      BY DEF HiddenRight
    <2>1. PICK k \in Inference :
            /\ p \in k.heads /\ k.body \subseteq a
            /\ p \in DeepOf(t) => R[var(p)] = <<"lits", neg(k.body)>>
            /\ p \notin DeepOf(t) => k.body \cap DeepOf(t) = {}
      BY <1>0, <1>1 DEF HiddenRight
    <2>2. CASE p \notin DeepOf(t1)
      <3>1. p \notin DeepOf(t)
        BY <2>2, <1>2
      <3>2. k.body \subseteq a \ DeepOf(t)
        BY <3>1, <2>1
      <3> QED
        BY <3>2, <2>1, <2>2, <1>2
    <2>3. CASE p \in DeepOf(t1)
      <3>1. R1[var(p)] = <<"lits", neg(k.body)>> /\ R[var(p)] = <<"lits", neg(k.body)>>
        BY <2>1, <2>3, <1>2, <1>r
      <3>2. PICK l \in 2 .. Len(t1) : \E i \in 1 .. Len(t1[l]) : t1[l][i] = p
        BY <2>3, <1>1, Places
      <3>3. PICK i \in 1 .. Len(t1[l]) : t1[l][i] = p
        BY <3>2
      <3>4. t[l][i] = p /\ l \in 2 .. Len(t) /\ i \in 1 .. Len(t[l]) /\ Len(t[l]) \in Nat
        BY <3>3, <1>3, <1>4
      <3>5. i # 1
        <4> SUFFICES ASSUME i = 1 PROVE FALSE
          OBVIOUS
        <4>1. R[var(p)] = NoReason
          BY <3>4, <1>0 DEF ReasonsRight
        <4> QED
          BY <4>1, <3>1 DEF NoReason
      <3>6. Implied(t, a, R, M, rt, rem, l, i)
        BY <3>4, <3>5, <1>0 DEF ReasonsRight
      <3>7. ASSUME NEW b \in k.body PROVE b \in a1
        <4>1. b \in Lit /\ -(-b) = b
          BY <1>1, RunFacts, LitFacts
        <4>2. -b \in ExplanationIn(M, R[var(p)])
          BY <3>1 DEF ExplanationIn, neg
        <4>3. Precedes(t, a, -(-b), l, i)
          BY <4>2, <3>4, <3>6 DEF Implied
        <4>4. Precedes(t1, a1, b, l, i)
          BY <4>1, <4>3, <1>2, <3>3
        <4> QED
          BY <4>4 DEF Precedes
      <3> QED
        BY <3>1, <3>7, <2>1, <2>3
    <2> QED
      BY <2>2, <2>3
  <1>7. ShortClosed(t1, a1)
    BY <1>0, <1>2, <1>3 DEF ShortClosed
  <1>8. RootQuiet(t1, a1)
    <2>1. Len(t1) > 1 => Len(t) > 1
      BY <1>1, <1>3
    <2> QED
      BY <1>0, <1>2, <2>1 DEF RootQuiet
  <1>9. RootRight(t1, a1, rem1)
    BY <1>0, <1>2 DEF RootRight
  <1> QED
    BY <1>2, <1>5, <1>6, <1>7, <1>8, <1>9 DEF StackRight

LEMMA CutSame ==
  ASSUME NEW t, NEW a, NEW R, NEW M, NEW rt, NEW rem, t \in Seq(Seq(Lit)), Len(t) > 0,
         StackRight(t, a, R, M, rt, rem)
  PROVE  CutOf(t, a, t, a)
  <1>1. Len(t) \in Nat /\ \A l \in 1 .. Len(t) : Len(t[l]) \in Nat
    BY Places
  <1>2. \A l \in 2 .. Len(t) : t[l] # <<>>
    BY DEF StackRight, ReasonsRight
  <1>3. \A q : ~ Gone(t, t, q)
    BY <1>1 DEF Gone
  <1> QED
    BY <1>1, <1>2, <1>3 DEF CutOf

(* The trail after p was put on it. *)
Pushed(t, p) == [t EXCEPT ![Len(t)] = Append(@, p)]

LEMMA PushShape ==
  ASSUME NEW t \in Seq(Seq(Lit)), Len(t) > 0, NEW p \in Lit
  PROVE  /\ Pushed(t, p) \in Seq(Seq(Lit)) /\ Len(Pushed(t, p)) = Len(t)
         /\ \A l \in 1 .. Len(t) - 1 : Pushed(t, p)[l] = t[l]
         /\ Pushed(t, p)[Len(t)] = Append(t[Len(t)], p)
         /\ Len(Pushed(t, p)[Len(t)]) = Len(t[Len(t)]) + 1 /\ Pushed(t, p)[Len(t)] # <<>>
         /\ \A i \in 1 .. Len(t[Len(t)]) : Pushed(t, p)[Len(t)][i] = t[Len(t)][i]
         /\ Pushed(t, p)[Len(t)][Len(t[Len(t)]) + 1] = p
  <1> DEFINE n == Len(t)
             t1 == Pushed(t, p)
  <1>1. n \in Nat /\ DOMAIN t = 1 .. n /\ n \in 1 .. n /\ t[n] \in Seq(Lit) /\ t \in [1 .. n -> Seq(Lit)]
    BY Places
  <1>2. /\ Append(t[n], p) \in Seq(Lit) /\ Len(Append(t[n], p)) = Len(t[n]) + 1
        /\ \A i \in 1 .. Len(t[n]) : Append(t[n], p)[i] = t[n][i]
        /\ Append(t[n], p)[Len(t[n]) + 1] = p
    BY <1>1, AppendProperties
  <1>3. t1 = [l \in 1 .. n |-> IF l = n THEN Append(t[n], p) ELSE t[l]]
    BY <1>1 DEF Pushed
  <1>4. t1 \in [1 .. n -> Seq(Lit)]
    BY <1>1, <1>2, <1>3
  <1>6. t1[n] = Append(t[n], p) /\ \A l \in 1 .. n - 1 : t1[l] = t[l]
    <2>1. n \in Nat
      BY <1>1
    <2> HIDE DEF n, t1
    <2>2. \A l \in 1 .. n - 1 : l \in 1 .. n /\ l # n
      BY <2>1
    <2> QED
      BY <1>1, <1>3, <2>2
  <1>5. t1 \in Seq(Seq(Lit)) /\ Len(t1) = n
    <2>1. n \in Nat
      BY <1>1
    <2> HIDE DEF t1, n
    <2> QED
      BY <1>4, <2>1
  <1> HIDE DEF t1
  <1>7. t1[n] # <<>>
    <2>1. Len(t1[n]) # 0
      BY <1>2, <1>6, <1>1
    <2> QED
      BY <2>1
  <1> QED
    BY <1>2, <1>5, <1>6, <1>7 DEF t1

LEMMA StackPush ==
  ASSUME NEW t, NEW a, NEW R, NEW M, NEW rt, NEW rem \in SUBSET Models, StackTyped(t, a, R, M, rt),
         StackRight(t, a, R, M, rt, rem), NEW p \in Lit, p \notin a, -p \notin a, NEW r \in Reason,
         Len(t) = 1 => \A m \in rem : p \in m,
         Len(t) > 1 =>
           /\ r # NoReason
           /\ r[1] = "clause" => Lasts(M, rt, r[2], Len(t)) /\ (M[r[2]].temp \/ M[r[2]].c0 = p)
           /\ Entails(rem, {p} \cup ExplanationIn(M, r))
           /\ \A q \in ExplanationIn(M, r) : -q \in a,
         var(p) \in Hidden => \E k \in Inference :
           p \in k.heads /\ k.body \subseteq a /\ r = <<"lits", neg(k.body)>>
  PROVE  StackRight(Pushed(t, p), a \cup {p}, [R EXCEPT ![var(p)] = r], M, rt, rem)
  <1> DEFINE n == Len(t)
             t1 == Pushed(t, p)
             a1 == a \cup {p}
             R1 == [R EXCEPT ![var(p)] = r]
  <1>0. /\ TrailRight(t, a) /\ ReasonsRight(t, a, R, M, rt, rem) /\ HiddenRight(t, a, R)
        /\ ShortClosed(t, a) /\ RootQuiet(t, a) /\ RootRight(t, a, rem)
    BY DEF StackRight
  <1>1. /\ t \in Seq(Seq(Lit)) /\ n > 0 /\ a \in SUBSET Lit
        /\ given \in DOMAIN Runs /\ R \in [Var -> Reason]
    BY DEF StackTyped
  <1>2. /\ n \in Nat /\ n \in 1 .. n /\ DOMAIN t = 1 .. n
        /\ \A l \in 1 .. n : Len(t[l]) \in Nat /\ DOMAIN t[l] = 1 .. Len(t[l])
    BY <1>1, Places
  <1>3. /\ t1 \in Seq(Seq(Lit)) /\ Len(t1) = n
        /\ \A l \in 1 .. n - 1 : t1[l] = t[l]
        /\ Len(t1[n]) = Len(t[n]) + 1 /\ t1[n] # <<>>
        /\ \A i \in 1 .. Len(t[n]) : t1[n][i] = t[n][i]
        /\ t1[n][Len(t[n]) + 1] = p
    <2>1. t \in Seq(Seq(Lit)) /\ Len(t) > 0
      BY <1>1
    <2> QED
      BY <2>1, PushShape, Zenon
  <1>4. /\ DOMAIN t1 = 1 .. n
        /\ \A l \in 1 .. n : Len(t1[l]) \in Nat /\ DOMAIN t1[l] = 1 .. Len(t1[l])
    BY <1>3, Places
  <1> HIDE DEF t1
  (* A place of t1 is one of t, or the last. *)
  <1>5. ASSUME NEW l \in 1 .. n, NEW i \in 1 .. Len(t1[l])
        PROVE  \/ i \in 1 .. Len(t[l]) /\ t1[l][i] = t[l][i] /\ t1[l][i] \in a
               \/ l = n /\ i = Len(t[n]) + 1 /\ t1[l][i] = p
    <2>1. CASE l # n
      <3>0. l \in 1 .. n - 1
        <4>1. n \in Nat
          BY <1>2
        <4> HIDE DEF n
        <4> QED
          BY <2>1, <4>1
      <3>1. t1[l] = t[l]
        BY <3>0, <1>3
      <3>2. i \in 1 .. Len(t[l]) /\ l \in DOMAIN t /\ i \in DOMAIN t[l]
        BY <3>1, <1>2
      <3> QED
        BY <3>1, <3>2, <1>0 DEF TrailRight
    <2>2. CASE l = n
      <3>1. CASE i = Len(t[n]) + 1
        BY <3>1, <2>2, <1>3
      <3>2. CASE i # Len(t[n]) + 1
        <4>1. i \in 1 .. Len(t[n])
          BY <2>2, <3>2, <1>2, <1>3
        <4> QED
          BY <4>1, <2>2, <1>0, <1>2, <1>3 DEF TrailRight
      <3> QED
        BY <3>1, <3>2
    <2> QED
      BY <2>1, <2>2
  <1>6. \A l \in 1 .. n : \A i \in 1 .. Len(t[l]) : i \in 1 .. Len(t1[l]) /\ t1[l][i] = t[l][i] /\ t[l][i] \in a
    <2> SUFFICES ASSUME NEW l \in 1 .. n, NEW i \in 1 .. Len(t[l])
                 PROVE  i \in 1 .. Len(t1[l]) /\ t1[l][i] = t[l][i] /\ t[l][i] \in a
      OBVIOUS
    <2>1. t[l][i] \in a
      BY <1>0, <1>2 DEF TrailRight
    <2>2. CASE l = n
      BY <2>1, <2>2, <1>2, <1>3
    <2>3. CASE l # n
      <3>0. l \in 1 .. n - 1
        <4>1. n \in Nat
          BY <1>2
        <4> HIDE DEF n
        <4> QED
          BY <2>3, <4>1
      <3>1. t1[l] = t[l]
        BY <3>0, <1>3
      <3> QED
        BY <3>1, <2>1
    <2> QED
      BY <2>2, <2>3
  <1>7. TrailRight(t1, a1)
    <2>1. \A l \in DOMAIN t1 : \A i \in DOMAIN t1[l] : t1[l][i] \in a1
      BY <1>4, <1>5
    <2>2. ASSUME NEW k \in DOMAIN t1, NEW l \in DOMAIN t1, NEW i \in DOMAIN t1[k],
                 NEW j \in DOMAIN t1[l], t1[k][i] = t1[l][j]
          PROVE  k = l /\ i = j
      <3>1. k \in 1 .. n /\ l \in 1 .. n /\ i \in 1 .. Len(t1[k]) /\ j \in 1 .. Len(t1[l])
        BY <1>4
      <3>2. CASE t1[k][i] = p
        <4>1. k = n /\ i = Len(t[n]) + 1
          BY <3>1, <3>2, <1>5
        <4>2. l = n /\ j = Len(t[n]) + 1
          BY <3>1, <3>2, <2>2, <1>5
        <4> QED
          BY <4>1, <4>2
      <3>3. CASE t1[k][i] # p
        <4>1. i \in 1 .. Len(t[k]) /\ t1[k][i] = t[k][i]
          BY <3>1, <3>3, <1>5
        <4>2. j \in 1 .. Len(t[l]) /\ t1[l][j] = t[l][j]
          BY <3>1, <3>3, <2>2, <1>5
        <4>3. k \in DOMAIN t /\ l \in DOMAIN t /\ i \in DOMAIN t[k] /\ j \in DOMAIN t[l] /\ t[k][i] = t[l][j]
          BY <4>1, <4>2, <3>1, <2>2, <1>2
        <4> QED
          BY <4>3, <1>0 DEF TrailRight
      <3> QED
        BY <3>2, <3>3
    <2>3. \A q \in a1 : -q \notin a1
      <3> SUFFICES ASSUME NEW q \in a1, -q \in a1 PROVE FALSE
        OBVIOUS
      <3>1. q \in Lit /\ -(-q) = q /\ -q # q /\ -(-p) = p
        BY <1>1, LitFacts
      <3>2. q # p /\ -q # p
        BY <3>1
      <3> QED
        BY <3>2, <1>0 DEF TrailRight
    <2>4. Len(t1) > 1 => t1[1] = <<>>
      <3> SUFFICES ASSUME n > 1 PROVE t1[1] = <<>>
        BY <1>3
      <3>1. 1 \in 1 .. n - 1
        BY <1>2
      <3> QED
        BY <3>1, <1>3, <1>0 DEF TrailRight
    <2> QED
      BY <2>1, <2>2, <2>3, <2>4 DEF TrailRight
  <1>8. ASSUME NEW l \in 2 .. n, NEW q \in a, NEW i, Precedes(t, a, q, l, i)
        PROVE  Precedes(t1, a1, q, l, i)
    <2> SUFFICES ASSUME NEW k \in DOMAIN t1, NEW j \in DOMAIN t1[k], t1[k][j] = q
                 PROVE  k < l \/ (k = l /\ j < i)
      BY DEF Precedes
    <2>1. k \in 1 .. n /\ j \in 1 .. Len(t1[k]) /\ q # p
      BY <1>4
    <2>2. k \in DOMAIN t /\ j \in DOMAIN t[k] /\ t[k][j] = q
      BY <2>1, <1>5, <1>2
    <2> QED
      BY <2>2, <1>8 DEF Precedes
  <1>9. \A q \in a : R1[var(q)] = R[var(q)]
    <2> SUFFICES ASSUME NEW q \in a PROVE R1[var(q)] = R[var(q)]
      OBVIOUS
    <2>1. var(q) # var(p)
      BY <1>1, LitFacts
    <2> QED
      BY <2>1, <1>1, LitFacts
  <1>10. R1[var(p)] = r
    BY <1>1, LitFacts
  <1> HIDE DEF R1
  <1>11. ReasonsRight(t1, a1, R1, M, rt, rem)
    <2> SUFFICES ASSUME NEW l \in 2 .. n
                 PROVE  /\ t1[l] # <<>> /\ R1[var(t1[l][1])] = NoReason /\ var(t1[l][1]) \notin Hidden
                        /\ \A i \in 2 .. Len(t1[l]) : Implied(t1, a1, R1, M, rt, rem, l, i)
      BY <1>3 DEF ReasonsRight
    <2>0. l \in 1 .. n /\ l \in 2 .. Len(t)
      BY <1>2
    <2>1. t[l] # <<>> /\ R[var(t[l][1])] = NoReason /\ var(t[l][1]) \notin Hidden
      BY <2>0, <1>0 DEF ReasonsRight
    <2>2. Len(t[l]) # 0
      BY <2>0, <2>1, <1>1, Places
    <2>3. 1 \in 1 .. Len(t[l])
      BY <2>0, <2>2, <1>2
    <2>4. t1[l][1] = t[l][1] /\ t[l][1] \in a /\ 1 \in 1 .. Len(t1[l])
      BY <2>0, <2>3, <1>6
    <2>5. t1[l] # <<>>
      BY <2>4
    <2>6. R1[var(t1[l][1])] = NoReason /\ var(t1[l][1]) \notin Hidden
      BY <2>1, <2>4, <1>9
    <2>7. ASSUME NEW i \in 2 .. Len(t1[l]) PROVE Implied(t1, a1, R1, M, rt, rem, l, i)
      <3>0. i \in 1 .. Len(t1[l])
        BY <2>0, <1>4
      <3>1. CASE i \in 1 .. Len(t[l]) /\ t1[l][i] = t[l][i] /\ t1[l][i] \in a
        <4> DEFINE x == t[l][i]
        <4>1. i \in 2 .. Len(t[l])
          BY <3>1, <2>0, <1>2, <1>4
        <4>2. Implied(t, a, R, M, rt, rem, l, i)
          BY <4>1, <2>0, <1>0 DEF ReasonsRight
        <4>3. t1[l][i] = x /\ R1[var(x)] = R[var(x)]
          BY <3>1, <1>9
        <4>4. \A q \in ExplanationIn(M, R[var(x)]) : Precedes(t1, a1, -q, l, i)
          BY <4>2, <1>8 DEF Implied, Precedes
        <4> QED
          BY <4>2, <4>3, <4>4 DEF Implied
      <3>2. CASE l = n /\ i = Len(t[n]) + 1 /\ t1[l][i] = p
        <4>1. n > 1
          BY <3>2, <1>2
        <4>2. \A q \in ExplanationIn(M, r) : Precedes(t1, a1, -q, l, i)
          <5> SUFFICES ASSUME NEW q \in ExplanationIn(M, r), NEW k \in DOMAIN t1, NEW j \in DOMAIN t1[k], t1[k][j] = -q
                       PROVE  k < l \/ (k = l /\ j < i)
            BY <4>1 DEF Precedes
          <5>1. k \in 1 .. n /\ j \in 1 .. Len(t1[k]) /\ t1[k][j] # p
            BY <4>1, <1>4
          <5>2. j \in 1 .. Len(t[k])
            BY <5>1, <1>5
          <5> QED
            BY <5>1, <5>2, <3>2, <1>2
        <4> QED
          BY <4>1, <4>2, <3>2, <1>10 DEF Implied
      <3> QED
        BY <3>0, <3>1, <3>2, <2>0, <1>5
    <2> QED
      BY <2>5, <2>6, <2>7
  <1>12. \A q : q \in DeepOf(t1) <=> q \in DeepOf(t) \/ (q = p /\ n > 1)
    <2> SUFFICES ASSUME NEW q PROVE q \in DeepOf(t1) <=> q \in DeepOf(t) \/ (q = p /\ n > 1)
      OBVIOUS
    <2>1. q \in DeepOf(t1) <=> \E l \in 2 .. n : \E i \in 1 .. Len(t1[l]) : t1[l][i] = q
      BY <1>3, Places
    <2>2. q \in DeepOf(t) <=> \E l \in 2 .. n : \E i \in 1 .. Len(t[l]) : t[l][i] = q
      BY <1>1, Places
    <2>3. ASSUME q \in DeepOf(t1) PROVE q \in DeepOf(t) \/ (q = p /\ n > 1)
      <3>1. PICK l \in 2 .. n : \E i \in 1 .. Len(t1[l]) : t1[l][i] = q
        BY <2>1, <2>3
      <3>2. PICK i \in 1 .. Len(t1[l]) : t1[l][i] = q
        BY <3>1
      <3>3. l \in 1 .. n /\ n > 1
        BY <1>2
      <3>4. (i \in 1 .. Len(t[l]) /\ t1[l][i] = t[l][i]) \/ t1[l][i] = p
        BY <3>3, <1>5
      <3> QED
        BY <3>2, <3>3, <3>4, <2>2
    <2>4. ASSUME q \in DeepOf(t) PROVE q \in DeepOf(t1)
      <3>1. PICK l \in 2 .. n : \E i \in 1 .. Len(t[l]) : t[l][i] = q
        BY <2>2, <2>4
      <3>2. l \in 1 .. n
        BY <1>2
      <3> QED
        BY <3>1, <3>2, <1>6, <2>1
    <2>5. ASSUME q = p, n > 1 PROVE q \in DeepOf(t1)
      <3>1. n \in 2 .. n /\ Len(t[n]) + 1 \in 1 .. Len(t1[n])
        BY <2>5, <1>2, <1>3
      <3> QED
        BY <3>1, <2>5, <2>1, <1>3
    <2> QED
      BY <2>3, <2>4, <2>5
  <1>13. n > 1 => a1 \ DeepOf(t1) = a \ DeepOf(t)
    BY <1>12
  <1>14. ASSUME NEW l \in 2 .. n PROVE BelowOf(t1, a1, l) = BelowOf(t, a, l)
    <2>1. l \in 1 .. n
      BY <1>2
    <2>2. ASSUME NEW q PROVE q \in BelowOf(t1, a1, l) <=> q \in BelowOf(t, a, l)
      <3>1. q \in BelowOf(t1, a1, l) <=> q \in a1 /\ ~ \E k \in l .. n : \E i \in DOMAIN t1[k] : t1[k][i] = q
        <4>1. q \in BelowOf(t1, a1, l) <=> q \in a1 /\ ~ \E k \in l .. Len(t1) : \E i \in DOMAIN t1[k] : t1[k][i] = q
          BY Below
        <4> HIDE DEF a1, n
        <4> QED
          BY <4>1, <1>3
      <3>2. q \in BelowOf(t, a, l) <=> q \in a /\ ~ \E k \in l .. n : \E i \in DOMAIN t[k] : t[k][i] = q
        BY Below
      <3>3. CASE q = p
        <4>1. n \in l .. n /\ Len(t[n]) + 1 \in DOMAIN t1[n]
          BY <1>2, <1>3, <1>4
        <4> QED
          BY <4>1, <3>1, <3>2, <3>3, <1>3
      <3>4. CASE q # p
        <4>1. \A k \in l .. n : k \in 1 .. n
          BY <2>1
        <4>2. (\E k \in l .. n : \E i \in DOMAIN t1[k] : t1[k][i] = q) <=> (\E k \in l .. n : \E i \in DOMAIN t[k] : t[k][i] = q)
          <5>1. ASSUME NEW k \in l .. n, NEW i \in DOMAIN t1[k], t1[k][i] = q PROVE i \in DOMAIN t[k] /\ t[k][i] = q
            <6>1. k \in 1 .. n /\ i \in 1 .. Len(t1[k])
              BY <4>1, <1>4
            <6>2. i \in 1 .. Len(t[k]) /\ t1[k][i] = t[k][i]
              BY <6>1, <5>1, <3>4, <1>5
            <6> QED
              BY <6>1, <6>2, <5>1, <1>2
          <5>2. ASSUME NEW k \in l .. n, NEW i \in DOMAIN t[k], t[k][i] = q PROVE i \in DOMAIN t1[k] /\ t1[k][i] = q
            BY <5>2, <4>1, <1>2, <1>4, <1>6
          <5> QED
            BY <5>1, <5>2
        <4> QED
          BY <4>2, <3>1, <3>2, <3>4
      <3> QED
        BY <3>3, <3>4
    <2> QED
      BY <2>2
  <1>15. HiddenRight(t1, a1, R1)
    <2> SUFFICES ASSUME NEW q \in a1, var(q) \in Hidden
                 PROVE  \E k \in Inference :
                          /\ q \in k.heads /\ k.body \subseteq a1
                          /\ q \in DeepOf(t1) => R1[var(q)] = <<"lits", neg(k.body)>>
                          /\ q \notin DeepOf(t1) => k.body \cap DeepOf(t1) = {}
      BY DEF HiddenRight
    <2>1. CASE q = p
      <3>1. PICK k \in Inference : p \in k.heads /\ k.body \subseteq a /\ r = <<"lits", neg(k.body)>>
        BY <2>1
      <3>2. ASSUME q \notin DeepOf(t1) PROVE k.body \cap DeepOf(t1) = {}
        <4>1. n = 1
          BY <3>2, <2>1, <1>12, <1>2
        <4>2. DeepOf(t1) = {}
          BY <4>1, <1>3 DEF DeepOf
        <4> QED
          BY <4>2
      <3> QED
        BY <3>1, <3>2, <2>1, <1>10
    <2>2. CASE q # p
      <3>1. q \in a
        BY <2>2
      <3>2. PICK k \in Inference :
              /\ q \in k.heads /\ k.body \subseteq a
              /\ q \in DeepOf(t) => R[var(q)] = <<"lits", neg(k.body)>>
              /\ q \notin DeepOf(t) => k.body \cap DeepOf(t) = {}
        BY <3>1, <1>0 DEF HiddenRight
      <3>3. q \in DeepOf(t1) <=> q \in DeepOf(t)
        BY <2>2, <1>12
      <3>4. k.body \cap DeepOf(t1) = k.body \cap DeepOf(t)
        BY <3>2, <1>12
      <3> QED
        BY <3>1, <3>2, <3>3, <3>4, <1>9
    <2> QED
      BY <2>1, <2>2
  <1>16. ShortClosed(t1, a1)
    BY <1>0, <1>3, <1>14 DEF ShortClosed
  <1>17. RootQuiet(t1, a1)
    BY <1>0, <1>3, <1>13 DEF RootQuiet
  <1>18. RootRight(t1, a1, rem)
    <2>1. CASE n > 1
      BY <2>1, <1>0, <1>13 DEF RootRight
    <2>2. CASE n = 1
      <3>1. DeepOf(t) = {}
        BY <2>2 DEF DeepOf
      <3> QED
        BY <3>1, <2>2, <1>0 DEF RootRight
    <2> QED
      BY <2>1, <2>2, <1>1, <1>2
  <1> QED
    BY <1>7, <1>11, <1>15, <1>16, <1>17, <1>18 DEF StackRight, t1, R1

LEMMA OpenShape ==
  ASSUME NEW t \in Seq(Seq(Lit)), NEW p \in Lit
  PROVE  /\ Append(t, <<p>>) \in Seq(Seq(Lit)) /\ Len(Append(t, <<p>>)) = Len(t) + 1
         /\ \A l \in 1 .. Len(t) : Append(t, <<p>>)[l] = t[l]
         /\ Append(t, <<p>>)[Len(t) + 1] = <<p>>
  <1>1. <<p>> \in Seq(Lit)
    OBVIOUS
  <1> QED
    BY <1>1, AppendProperties

LEMMA StackOpen ==
  ASSUME NEW t, NEW a, NEW R, NEW M, NEW rt, NEW rem, StackTyped(t, a, R, M, rt),
         StackRight(t, a, R, M, rt, rem), NEW p \in Lit, p \notin a, -p \notin a, var(p) \notin Hidden,
         t[1] = <<>>,
         \A k \in Inference : k.kind = "short" /\ k.body \subseteq a => k.heads \subseteq a,
         Len(t) = 1 => \A k \in Inference :
           k.body \subseteq a => k.heads # {} /\ \A h \in k.heads : -h \notin a
  PROVE  StackRight(Append(t, <<p>>), a \cup {p}, [R EXCEPT ![var(p)] = NoReason], M, Append(rt, {}), rem)
  <1> DEFINE n == Len(t)
             t1 == Append(t, <<p>>)
             a1 == a \cup {p}
             R1 == [R EXCEPT ![var(p)] = NoReason]
             rt1 == Append(rt, {})
  <1>0. /\ TrailRight(t, a) /\ ReasonsRight(t, a, R, M, rt, rem) /\ HiddenRight(t, a, R)
        /\ ShortClosed(t, a) /\ RootQuiet(t, a) /\ RootRight(t, a, rem)
    BY DEF StackRight
  <1>1. /\ t \in Seq(Seq(Lit)) /\ n > 0 /\ a \in SUBSET Lit
        /\ given \in DOMAIN Runs /\ R \in [Var -> Reason]
        /\ rt \in Seq(SUBSET (1..MaxClause)) /\ Len(rt) = n
    BY DEF StackTyped
  <1>2. /\ n \in Nat /\ DOMAIN t = 1 .. n
        /\ \A l \in 1 .. n : Len(t[l]) \in Nat /\ DOMAIN t[l] = 1 .. Len(t[l])
    BY <1>1, Places
  <1>3. /\ t1 \in Seq(Seq(Lit)) /\ Len(t1) = n + 1
        /\ \A l \in 1 .. n : t1[l] = t[l]
        /\ t1[n + 1] = <<p>>
    BY <1>1, OpenShape
  <1>3a. /\ Len(rt1) = n + 1 /\ \A k \in 1 .. n : rt1[k] = rt[k]
         /\ rt1[n + 1] = {}
    <2>1. {} \in SUBSET (1..MaxClause)
      OBVIOUS
    <2> QED
      BY <2>1, <1>1, AppendProperties
  <1>4. /\ DOMAIN t1 = 1 .. n + 1
        /\ \A l \in 1 .. n + 1 : Len(t1[l]) \in Nat /\ DOMAIN t1[l] = 1 .. Len(t1[l])
    BY <1>3, Places
  <1>4a. DOMAIN t1[n + 1] = {1} /\ t1[n + 1][1] = p /\ Len(t1[n + 1]) = 1
    BY <1>3
  <1>5. \A q \in a : R1[var(q)] = R[var(q)]
    <2> SUFFICES ASSUME NEW q \in a PROVE R1[var(q)] = R[var(q)]
      OBVIOUS
    <2>1. var(q) # var(p)
      BY <1>1, LitFacts
    <2> QED
      BY <2>1, <1>1, LitFacts
  <1>6. R1[var(p)] = NoReason
    BY <1>1, LitFacts
  <1> HIDE DEF n, t1, R1, rt1
  <1>7. \A l \in 1 .. n + 1 : l \in 1 .. n \/ l = n + 1
    BY <1>2
  <1>8. \A l \in 1 .. n : \A i \in DOMAIN t[l] : t[l][i] \in a /\ t[l][i] # p
    BY <1>0, <1>2 DEF TrailRight
  <1>9. TrailRight(t1, a1)
    <2>1. \A l \in DOMAIN t1 : \A i \in DOMAIN t1[l] : t1[l][i] \in a1
      BY <1>3, <1>4, <1>4a, <1>7, <1>8
    <2>2. ASSUME NEW k \in DOMAIN t1, NEW l \in DOMAIN t1, NEW i \in DOMAIN t1[k],
                 NEW j \in DOMAIN t1[l], t1[k][i] = t1[l][j]
          PROVE  k = l /\ i = j
      <3>1. k \in 1 .. n + 1 /\ l \in 1 .. n + 1
        BY <1>4
      <3>a. ASSUME NEW x \in 1 .. n + 1, NEW y \in DOMAIN t1[x], t1[x][y] = p PROVE x = n + 1 /\ y = 1
        <4>1. x # n + 1 => x \in 1 .. n
          BY <1>7
        <4>2. x # n + 1 => t1[x] = t[x]
          BY <4>1, <1>3
        <4>3. x = n + 1
          BY <4>1, <4>2, <3>a, <1>8
        <4> QED
          BY <4>3, <1>4a
      <3>2. CASE k = n + 1
        <4>1. t1[k][i] = p /\ i = 1
          BY <3>2, <1>4a
        <4> QED
          BY <4>1, <3>1, <3>2, <3>a, <2>2
      <3>3. CASE l = n + 1
        <4>1. t1[l][j] = p /\ j = 1
          BY <3>3, <1>4a
        <4> QED
          BY <4>1, <3>1, <3>3, <3>a, <2>2
      <3>4. CASE k \in 1 .. n /\ l \in 1 .. n
        <4>1. k \in DOMAIN t /\ l \in DOMAIN t /\ i \in DOMAIN t[k] /\ j \in DOMAIN t[l] /\ t[k][i] = t[l][j]
          BY <3>4, <2>2, <1>2, <1>3
        <4> QED
          BY <4>1, <1>0 DEF TrailRight
      <3> QED
        BY <3>1, <3>2, <3>3, <3>4, <1>7
    <2>3. \A q \in a1 : -q \notin a1
      <3> SUFFICES ASSUME NEW q \in a1, -q \in a1 PROVE FALSE
        OBVIOUS
      <3>1. q \in Lit /\ -(-q) = q /\ -q # q /\ -(-p) = p
        BY <1>1, LitFacts
      <3>2. q # p /\ -q # p
        BY <3>1
      <3> QED
        BY <3>2, <1>0 DEF TrailRight
    <2>4. t1[1] = <<>>
      <3>1. 1 \in 1 .. n
        BY <1>1, <1>2 DEF n
      <3> QED
        BY <3>1, <1>3
    <2> QED
      BY <2>1, <2>2, <2>3, <2>4 DEF TrailRight
  <1>10. ASSUME NEW l \in 2 .. n, NEW q \in a, NEW i, Precedes(t, a, q, l, i)
         PROVE  Precedes(t1, a1, q, l, i)
    <2> SUFFICES ASSUME NEW k \in DOMAIN t1, NEW j \in DOMAIN t1[k], t1[k][j] = q
                 PROVE  k < l \/ (k = l /\ j < i)
      BY DEF Precedes
    <2>1. k \in 1 .. n
      <3> SUFFICES ASSUME k = n + 1 PROVE FALSE
        BY <1>4, <1>7
      <3> QED
        BY <1>4a
    <2>2. k \in DOMAIN t /\ j \in DOMAIN t[k] /\ t[k][j] = q
      BY <2>1, <1>2, <1>3
    <2> QED
      BY <2>2, <1>10 DEF Precedes
  <1>11. ReasonsRight(t1, a1, R1, M, rt1, rem)
    <2> SUFFICES ASSUME NEW l \in 2 .. n + 1
                 PROVE  /\ t1[l] # <<>> /\ R1[var(t1[l][1])] = NoReason /\ var(t1[l][1]) \notin Hidden
                        /\ \A i \in 2 .. Len(t1[l]) : Implied(t1, a1, R1, M, rt1, rem, l, i)
      BY <1>3 DEF ReasonsRight
    <2>1. CASE l = n + 1
      BY <2>1, <1>3, <1>4a, <1>6
    <2>2. CASE l # n + 1
      <3>1. l \in 2 .. n /\ l \in 1 .. n /\ l \in 2 .. Len(t)
        BY <2>2, <1>2 DEF n
      <3>2. t[l] # <<>> /\ R[var(t[l][1])] = NoReason /\ var(t[l][1]) \notin Hidden /\ t1[l] = t[l]
        BY <3>1, <1>0, <1>3 DEF ReasonsRight
      <3>3. Len(t[l]) # 0
        BY <3>1, <3>2, <1>1, Places DEF n
      <3>4. t[l][1] \in a
        BY <3>1, <3>3, <1>2, <1>8
      <3>5. ASSUME NEW i \in 2 .. Len(t[l]) PROVE Implied(t1, a1, R1, M, rt1, rem, l, i)
        <4>1. Implied(t, a, R, M, rt, rem, l, i)
          BY <3>1, <1>0 DEF ReasonsRight
        <4>2. t[l][i] \in a /\ t1[l][i] = t[l][i]
          BY <3>1, <3>2, <1>2, <1>8
        <4>3. R1[var(t[l][i])] = R[var(t[l][i])]
          BY <4>2, <1>5
        <4>4. \A q \in ExplanationIn(M, R[var(t[l][i])]) : Precedes(t1, a1, -q, l, i)
          BY <4>1, <3>1, <1>10 DEF Implied, Precedes
        <4>5. ASSUME NEW s, Lasts(M, rt, s, l) PROVE Lasts(M, rt1, s, l)
          <5> SUFFICES ASSUME NEW k \in l + 1 .. n + 1 PROVE s \notin rt1[k]
            BY <4>5, <1>3a DEF Lasts
          <5>1. k = n + 1 \/ (k \in l + 1 .. n /\ k \in 1 .. n)
            BY <3>1, <1>2
          <5> QED
            BY <5>1, <4>5, <1>1, <1>3a DEF Lasts
        <4> QED
          BY <4>1, <4>2, <4>3, <4>4, <4>5 DEF Implied
      <3> QED
        BY <3>2, <3>4, <3>5, <1>5
    <2> QED
      BY <2>1, <2>2
  <1>12. \A q : q \in DeepOf(t1) <=> q \in DeepOf(t) \/ q = p
    <2> SUFFICES ASSUME NEW q PROVE q \in DeepOf(t1) <=> q \in DeepOf(t) \/ q = p
      OBVIOUS
    <2>1. q \in DeepOf(t1) <=> \E l \in 2 .. n + 1 : \E i \in DOMAIN t1[l] : t1[l][i] = q
      <3>1. q \in DeepOf(t1) <=> \E l \in 2 .. Len(t1) : \E i \in DOMAIN t1[l] : t1[l][i] = q
        BY DEF DeepOf, Elems
      <3> QED
        BY <3>1, <1>3
    <2>2. q \in DeepOf(t) <=> \E l \in 2 .. n : \E i \in DOMAIN t[l] : t[l][i] = q
      BY DEF DeepOf, Elems, n
    <2>3. n + 1 \in 2 .. n + 1
      BY <1>1, <1>2 DEF n
    <2>4. \A l \in 2 .. n + 1 : l = n + 1 \/ (l \in 2 .. n /\ l \in 1 .. n)
      BY <1>2
    <2>5. \A l \in 2 .. n : l \in 1 .. n /\ l \in 2 .. n + 1
      BY <1>2
    <2>6. ASSUME q \in DeepOf(t1) PROVE q \in DeepOf(t) \/ q = p
      <3>1. PICK l \in 2 .. n + 1 : \E i \in DOMAIN t1[l] : t1[l][i] = q
        BY <2>1, <2>6
      <3>2. CASE l = n + 1
        BY <3>1, <3>2, <1>4a
      <3>3. CASE l \in 2 .. n /\ l \in 1 .. n
        BY <3>1, <3>3, <2>2, <1>3
      <3> QED
        BY <3>2, <3>3, <2>4
    <2>7. ASSUME q \in DeepOf(t) PROVE q \in DeepOf(t1)
      <3>1. PICK l \in 2 .. n : \E i \in DOMAIN t[l] : t[l][i] = q
        BY <2>2, <2>7
      <3>2. t1[l] = t[l] /\ l \in 2 .. n + 1
        BY <2>5, <1>3
      <3> QED
        BY <3>1, <3>2, <2>1
    <2>8. ASSUME q = p PROVE q \in DeepOf(t1)
      BY <2>8, <2>1, <2>3, <1>4a
    <2> QED
      BY <2>6, <2>7, <2>8
  <1>13. ASSUME NEW l \in 2 .. n + 1
         PROVE  BelowOf(t1, a1, l) = IF l = n + 1 THEN a ELSE BelowOf(t, a, l)
    <2>1. ASSUME NEW q PROVE q \in BelowOf(t1, a1, l) <=> q \in a /\ ~ \E k \in l .. n : \E i \in DOMAIN t[k] : t[k][i] = q
      <3>1. q \in BelowOf(t1, a1, l) <=> q \in a1 /\ ~ \E k \in l .. n + 1 : \E i \in DOMAIN t1[k] : t1[k][i] = q
        <4>1. q \in BelowOf(t1, a1, l) <=> q \in a1 /\ ~ \E k \in l .. Len(t1) : \E i \in DOMAIN t1[k] : t1[k][i] = q
          BY Below
        <4> HIDE DEF a1
        <4> QED
          BY <4>1, <1>3
      <3>2. n + 1 \in l .. n + 1 /\ \A k \in l .. n + 1 : k = n + 1 \/ (k \in l .. n /\ k \in 1 .. n)
        BY <1>2
      <3>3. \A k \in l .. n : k \in l .. n + 1 /\ k \in 1 .. n
        BY <1>2
      <3>4. CASE q = p
        BY <3>1, <3>2, <3>4, <1>4a
      <3>5. CASE q # p
        BY <3>1, <3>2, <3>3, <3>5, <1>3, <1>4a
      <3> QED
        BY <3>4, <3>5
    <2>2. CASE l = n + 1
      <3>1. l .. n = {}
        BY <2>2, <1>2
      <3>2. \A q : q \in BelowOf(t1, a1, l) <=> q \in a
        BY <2>1, <3>1
      <3> QED
        BY <2>2, <3>2
    <2>3. CASE l # n + 1
      <3>1. \A q : q \in BelowOf(t, a, l) <=> q \in a /\ ~ \E k \in l .. n : \E i \in DOMAIN t[k] : t[k][i] = q
        BY Below DEF n
      <3> QED
        BY <2>1, <2>3, <3>1
    <2> QED
      BY <2>2, <2>3
  <1>14. HiddenRight(t1, a1, R1)
    <2> SUFFICES ASSUME NEW q \in a1, var(q) \in Hidden
                 PROVE  \E k \in Inference :
                          /\ q \in k.heads /\ k.body \subseteq a1
                          /\ q \in DeepOf(t1) => R1[var(q)] = <<"lits", neg(k.body)>>
                          /\ q \notin DeepOf(t1) => k.body \cap DeepOf(t1) = {}
      BY DEF HiddenRight
    <2>1. q \in a /\ q # p
      OBVIOUS
    <2>2. PICK k \in Inference :
            /\ q \in k.heads /\ k.body \subseteq a
            /\ q \in DeepOf(t) => R[var(q)] = <<"lits", neg(k.body)>>
            /\ q \notin DeepOf(t) => k.body \cap DeepOf(t) = {}
      BY <2>1, <1>0 DEF HiddenRight
    <2>3. q \in DeepOf(t1) <=> q \in DeepOf(t)
      BY <2>1, <1>12
    <2>4. k.body \cap DeepOf(t1) = k.body \cap DeepOf(t)
      BY <2>2, <1>12
    <2> QED
      BY <2>1, <2>2, <2>3, <2>4, <1>5
  <1>15. ShortClosed(t1, a1)
    <2> SUFFICES ASSUME NEW l \in 2 .. n + 1, NEW k \in Inference, k.kind = "short",
                        k.body \subseteq BelowOf(t1, a1, l)
                 PROVE  k.heads \subseteq BelowOf(t1, a1, l)
      BY <1>3 DEF ShortClosed
    <2>1. CASE l = n + 1
      BY <2>1, <1>13
    <2>2. CASE l # n + 1
      <3>1. l \in 2 .. Len(t)
        BY <2>2, <1>2 DEF n
      <3> QED
        BY <3>1, <2>2, <1>0, <1>13 DEF ShortClosed
    <2> QED
      BY <2>1, <2>2
  <1>16. a1 \ DeepOf(t1) = a \ DeepOf(t)
    BY <1>12
  <1>17. RootQuiet(t1, a1)
    <2>1. CASE Len(t) > 1
      BY <2>1, <1>0, <1>16 DEF RootQuiet
    <2>2. CASE Len(t) = 1
      <3>1. DeepOf(t) = {}
        BY <2>2 DEF DeepOf
      <3> QED
        BY <3>1, <2>2, <1>16 DEF RootQuiet
    <2> QED
      BY <2>1, <2>2, <1>1, <1>2 DEF n
  <1>18. RootRight(t1, a1, rem)
    BY <1>0, <1>16 DEF RootRight
  <1> QED
    BY <1>9, <1>11, <1>14, <1>15, <1>17, <1>18 DEF StackRight, t1, R1, rt1

LEMMA StackClean ==
  ASSUME NEW t, NEW a, NEW R, NEW M, NEW rt, NEW rem, NEW M1, NEW rt1,
         StackRight(t, a, R, M, rt, rem), Len(t) = 1
  PROVE  StackRight(<<<<>>>>, a, R, M1, rt1, rem)
  <1>0. /\ TrailRight(t, a) /\ HiddenRight(t, a, R) /\ RootRight(t, a, rem)
    BY DEF StackRight
  <1> DEFINE t1 == <<<<>>>>
  <1>1. Len(t1) = 1 /\ DOMAIN t1 = {1} /\ t1[1] = <<>> /\ DOMAIN t1[1] = {} /\ 2 .. 1 = {}
    OBVIOUS
  <1> HIDE DEF t1
  <1>2. DeepOf(t1) = {} /\ DeepOf(t) = {}
    BY <1>1 DEF DeepOf
  <1>3. TrailRight(t1, a)
    BY <1>0, <1>1 DEF TrailRight
  <1>4. ReasonsRight(t1, a, R, M1, rt1, rem) /\ ShortClosed(t1, a) /\ RootQuiet(t1, a)
    BY <1>1 DEF ReasonsRight, ShortClosed, RootQuiet
  <1>5. HiddenRight(t1, a, R) /\ RootRight(t1, a, rem)
    BY <1>0, <1>2 DEF HiddenRight, RootRight
  <1> QED
    BY <1>3, <1>4, <1>5 DEF StackRight, t1

-----------------------------------------------------------------------------
(* The run does not change: what is said of the next state is said with the  *)
(* variables, the propagators and the hidden variables of this one.          *)

LEMMA StackCarried ==
  ASSUME given' = given, NEW rem, Remaining' = rem,
         StackRight(trail', assigns', reason', clause', rtrail', rem)
  PROVE  StackRight(trail, assigns, reason, clause, rtrail, Remaining)'
  <1>1. Hidden' = Hidden /\ Inference' = Inference
    BY Carried
  <1>2. TrailRight(trail, assigns)'
    BY DEF StackRight, TrailRight
  <1>3. ReasonsRight(trail, assigns, reason, clause, rtrail, Remaining)'
    BY <1>1 DEF StackRight, ReasonsRight, Implied, ExplanationIn
  <1>4. HiddenRight(trail, assigns, reason)'
    BY <1>1 DEF StackRight, HiddenRight
  <1>5. ShortClosed(trail, assigns)' /\ RootQuiet(trail, assigns)' /\ RootRight(trail, assigns, Remaining)'
    BY <1>1 DEF StackRight, ShortClosed, RootQuiet, RootRight
  <1> QED
    BY <1>2, <1>3, <1>4, <1>5 DEF StackRight

LEMMA StoreCarried ==
  ASSUME given' = given, NEW rem, Remaining' = rem,
         StoreRight(clause', watches', learnts', rtrail', rem)
  PROVE  StoreRight(clause, watches, learnts, rtrail, Remaining)'
  <1>1. Hidden' = Hidden /\ Lit' = Lit
    BY Carried
  <1> QED
    BY <1>1 DEF StoreRight, WatchRight, Learnable

Analysis ==
  [index : Nat, pathC : Int, last : Reason, expl : SUBSET Lit, out : SUBSET Lit,
   p : Lit \cup {0}, removed : SUBSET Var]
Phase == {"load", "propagate", "branch", "resolve", "select", "learn", "SAT", "GUN"}

LEMMA TypedNow ==
  ASSUME Typed
  PROVE  /\ given \in DOMAIN Runs /\ StackTyped(trail, assigns, reason, clause, rtrail)
         /\ DOMAIN clause \subseteq 1..MaxClause /\ pc \in Phase /\ loaded \in 0 .. Len(Problem)
         /\ learnts \subseteq 1..MaxClause /\ watches \in [Lit -> SUBSET WatchElem]
         /\ qhead \in Seq(Nat) /\ Len(qhead) = Len(trail)
         /\ confl \in Reason /\ todo \subseteq WatchElem /\ seen \subseteq Var
         /\ solutions \in Nat /\ budget \in Int /\ found \subseteq SUBSET Lit /\ an \in Analysis
         /\ Remaining \in SUBSET Models /\ MaxClause \in Nat
  <1>1. MaxClause \in Nat
    <2>1. Runs[given] \in Elems(Runs)
      BY DEF Typed, TypeOK, Elems
    <2> QED
      BY <2>1, FlagAssumption
  <1>2. Remaining \in SUBSET Models
    BY DEF Remaining
  <1>3. StackTyped(trail, assigns, reason, clause, rtrail)
    BY DEF Typed, TypeOK, StackTyped
  <1> QED
    BY <1>1, <1>2, <1>3 DEF Typed, TypeOK, Analysis, Phase

LEMMA TypedNext ==
  ASSUME given' = given, StackTyped(trail', assigns', reason', clause', rtrail'),
         DOMAIN clause' \subseteq 1..MaxClause, pc' \in Phase, loaded' \in 0 .. Len(Problem),
         learnts' \subseteq 1..MaxClause, watches' \in [Lit -> SUBSET WatchElem],
         qhead' \in Seq(Nat), Len(qhead') = Len(trail'),
         confl' \in Reason, todo' \subseteq WatchElem, seen' \subseteq Var,
         solutions' \in Nat, budget' \in Int, found' \subseteq SUBSET Lit, an' \in Analysis
  PROVE  Typed'
  <1>1. /\ Lit' = Lit /\ Var' = Var /\ Reason' = Reason /\ ClauseObject' = ClauseObject
        /\ WatchElem' = WatchElem /\ Problem' = Problem
    BY Carried
  <1>2. given' \in DOMAIN Runs
    BY DEF StackTyped
  <1>3. \A i \in DOMAIN clause' : clause'[i] \in ClauseObject
    BY DEF StackTyped
  <1>4. \A l \in Lit : watches'[l] \subseteq WatchElem
    OBVIOUS
  <1>5. \A x \in Var : reason'[x] \in Reason
    BY DEF StackTyped
  <1>6. TypeOK'
    BY <1>1, <1>2, <1>3, <1>4, <1>5 DEF TypeOK, StackTyped, Phase
  <1> QED
    BY <1>1, <1>6 DEF Typed, StackTyped, Analysis

LEMMA SatParts ==
  ASSUME SatInv
  PROVE  /\ Typed /\ Phases
         /\ StackRight(trail, assigns, reason, clause, rtrail, Remaining)
         /\ StoreRight(clause, watches, learnts, rtrail, Remaining)
         /\ ConflictRight /\ SeenRight /\ Analyzing /\ Resolving /\ Selecting /\ Learning
  BY DEF SatInv

(* Outside conflict analysis. *)
LEMMA Settled ==
  ASSUME given' = given, NEW rem, Remaining' = rem, Typed',
         StackRight(trail', assigns', reason', clause', rtrail', rem),
         StoreRight(clause', watches', learnts', rtrail', rem),
         ConflictRight', SeenRight', pc' \notin {"resolve", "select", "learn"},
         pc' # "propagate" \/ confl' # NoReason => todo' = {},
         todo' # {} => Last(qhead') \in DOMAIN Last(trail'),
         \A e \in todo' : WatchRight(clause', rtrail', rem, Last(trail')[Last(qhead')], e),
         pc' \in {"load", "branch"} => Len(trail') = 1 /\ confl' = NoReason,
         pc' = "branch" => trail' = <<<<>>>> /\ \A k \in Inference : Quiet(k)',
         pc' = "GUN" => rem = {}
  PROVE  SatInv'
  <1>1. Hidden' = Hidden /\ Inference' = Inference
    BY Carried
  <1>2. \A e \in todo' : WatchRight(clause, rtrail, Remaining, current, e)'
    BY <1>1 DEF WatchRight, Learnable, current, Last
  <1>3. (\A k \in Inference : Quiet(k))' <=> \A k \in Inference : Quiet(k)'
    BY <1>1
  <1>3a. decisionLevel' = Len(trail') - 1
    BY DEF decisionLevel
  <1>3b. Len(trail') \in Nat
    BY DEF Typed, TypeOK
  <1>4. Phases'
    BY <1>2, <1>3, <1>3a, <1>3b DEF Phases, Last
  <1>5. StackRight(trail, assigns, reason, clause, rtrail, Remaining)'
    BY StackCarried
  <1>6. StoreRight(clause, watches, learnts, rtrail, Remaining)'
    BY StoreCarried
  <1>7. Analyzing' /\ Resolving' /\ Selecting' /\ Learning'
    BY DEF Analyzing, Resolving, Selecting, Learning
  <1> QED
    BY <1>4, <1>5, <1>6, <1>7 DEF SatInv

(* No conflict: nothing is asked of one. *)
LEMMA NoConflict ==
  ASSUME confl' = NoReason
  PROVE  ConflictRight'
  BY DEF ConflictRight, NoReason

(* The true literals that the root clean-up has taken off the trail. *)
OffTrail(t, a) == a \ UNION {Elems(t[l]) : l \in DOMAIN t}

LEMMA OffPlaces ==
  ASSUME NEW t \in Seq(Seq(Lit)), NEW a, NEW q
  PROVE  q \in OffTrail(t, a) <=> q \in a /\ ~ \E l \in 1 .. Len(t) : \E i \in 1 .. Len(t[l]) : t[l][i] = q
  <1>1. q \in OffTrail(t, a) <=> q \in a /\ ~ \E l \in DOMAIN t : \E i \in DOMAIN t[l] : t[l][i] = q
    BY DEF OffTrail, Elems
  <1> QED
    BY <1>1, Places

LEMMA OffCut ==
  ASSUME NEW t \in Seq(Seq(Lit)), NEW a, NEW t1, NEW a1, CutOf(t, a, t1, a1)
  PROVE  OffTrail(t1, a1) = OffTrail(t, a)
  <1>1. t1 \in Seq(Seq(Lit)) /\ Len(t) \in Nat /\ Len(t1) \in Nat /\ Len(t1) <= Len(t) /\ a1 \subseteq a
    BY Places DEF CutOf
  <1>2. ASSUME NEW q \in OffTrail(t1, a1) PROVE q \in OffTrail(t, a)
    <2>1. q \in a1 /\ ~ \E l \in 1 .. Len(t1) : \E i \in 1 .. Len(t1[l]) : t1[l][i] = q
      BY <1>1, OffPlaces
    <2>2. ASSUME NEW l \in 1 .. Len(t), NEW i \in 1 .. Len(t[l]), t[l][i] = q PROVE FALSE
      <3>1. ~ (l > Len(t1)) /\ ~ (i > Len(t1[l]))
        BY <2>1, <2>2 DEF CutOf, Gone
      <3>2. l \in 1 .. Len(t1)
        BY <3>1, <1>1
      <3>3. Len(t[l]) \in Nat /\ Len(t1[l]) \in Nat
        BY <3>2, <1>1, Places
      <3>4. i \in 1 .. Len(t1[l])
        BY <3>1, <3>3
      <3>5. t1[l][i] = t[l][i]
        BY <3>2, <3>4 DEF CutOf
      <3> QED
        BY <2>1, <2>2, <3>2, <3>4, <3>5
    <2>3. q \in a
      BY <2>1, <1>1
    <2> QED
      BY <2>2, <2>3, OffPlaces
  <1>3. ASSUME NEW q \in OffTrail(t, a) PROVE q \in OffTrail(t1, a1)
    <2>1. q \in a /\ ~ \E l \in 1 .. Len(t) : \E i \in 1 .. Len(t[l]) : t[l][i] = q
      BY OffPlaces
    <2>2. ~ Gone(t, t1, q)
      BY <2>1 DEF Gone
    <2>3. q \in a1
      BY <2>1, <2>2 DEF CutOf
    <2>4. ASSUME NEW l \in 1 .. Len(t1), NEW i \in 1 .. Len(t1[l]), t1[l][i] = q PROVE FALSE
      <3>1. l \in 1 .. Len(t) /\ Len(t1[l]) <= Len(t[l]) /\ t1[l][i] = t[l][i]
        BY <1>1 DEF CutOf
      <3>2. Len(t[l]) \in Nat /\ Len(t1[l]) \in Nat
        BY <3>1, <1>1, Places
      <3>3. i \in 1 .. Len(t[l])
        BY <3>1, <3>2
      <3> QED
        BY <2>1, <2>4, <3>1, <3>3
    <2> QED
      BY <1>1, <2>3, <2>4, OffPlaces
  <1> QED
    BY <1>2, <1>3

LEMMA OffPush ==
  ASSUME NEW t \in Seq(Seq(Lit)), Len(t) > 0, NEW a, NEW p \in Lit, p \notin a
  PROVE  OffTrail(Pushed(t, p), a \cup {p}) = OffTrail(t, a)
  <1> DEFINE n == Len(t)
             t1 == Pushed(t, p)
  <1>1. /\ t1 \in Seq(Seq(Lit)) /\ Len(t1) = n
        /\ \A l \in 1 .. n - 1 : t1[l] = t[l]
        /\ Len(t1[n]) = Len(t[n]) + 1
        /\ \A i \in 1 .. Len(t[n]) : t1[n][i] = t[n][i]
        /\ t1[n][Len(t[n]) + 1] = p
    BY PushShape, Zenon
  <1>2. n \in Nat /\ n \in 1 .. n /\ \A l \in 1 .. n : Len(t[l]) \in Nat
    BY Places
  <1> HIDE DEF n, t1
  <1>3. \A l \in 1 .. n : l = n \/ l \in 1 .. n - 1
    BY <1>2
  <1>4. \A i \in 1 .. Len(t[n]) + 1 : i \in 1 .. Len(t[n]) \/ i = Len(t[n]) + 1
    BY <1>2
  <1>5. \A i \in 1 .. Len(t[n]) : i \in 1 .. Len(t[n]) + 1
    BY <1>2
  <1>6. Len(t[n]) + 1 \in 1 .. Len(t[n]) + 1
    BY <1>2
  <1>7. ASSUME NEW q PROVE q \in OffTrail(t1, a \cup {p}) <=> q \in OffTrail(t, a)
    <2>1. q \in OffTrail(t1, a \cup {p}) <=> q \in a \cup {p} /\ ~ \E l \in 1 .. n : \E i \in 1 .. Len(t1[l]) : t1[l][i] = q
      <3>1. q \in OffTrail(t1, a \cup {p}) <=> q \in a \cup {p} /\ ~ \E l \in 1 .. Len(t1) : \E i \in 1 .. Len(t1[l]) : t1[l][i] = q
        <4>1. t1 \in Seq(Seq(Lit))
          BY <1>1
        <4> QED
          BY <4>1, OffPlaces
      <3> QED
        BY <3>1, <1>1
    <2>2. q \in OffTrail(t, a) <=> q \in a /\ ~ \E l \in 1 .. n : \E i \in 1 .. Len(t[l]) : t[l][i] = q
      BY OffPlaces DEF n
    <2>3. CASE q = p
      BY <2>1, <2>2, <2>3, <1>1, <1>2, <1>6
    <2>4. CASE q # p
      <3>1. ASSUME NEW l \in 1 .. n, NEW i \in 1 .. Len(t1[l]), t1[l][i] = q
            PROVE  i \in 1 .. Len(t[l]) /\ t[l][i] = q
        BY <3>1, <2>4, <1>1, <1>3, <1>4
      <3>2. ASSUME NEW l \in 1 .. n, NEW i \in 1 .. Len(t[l]), t[l][i] = q
            PROVE  i \in 1 .. Len(t1[l]) /\ t1[l][i] = q
        BY <3>2, <1>1, <1>3, <1>5
      <3> QED
        BY <2>1, <2>2, <2>4, <3>1, <3>2
    <2> QED
      BY <2>3, <2>4
  <1> QED
    BY <1>7 DEF t1

LEMMA OffOpen ==
  ASSUME NEW t \in Seq(Seq(Lit)), NEW a, NEW p \in Lit, p \notin a
  PROVE  OffTrail(Append(t, <<p>>), a \cup {p}) = OffTrail(t, a)
  <1> DEFINE n == Len(t)
             t1 == Append(t, <<p>>)
  <1>1. /\ t1 \in Seq(Seq(Lit)) /\ Len(t1) = n + 1
        /\ \A l \in 1 .. n : t1[l] = t[l]
        /\ t1[n + 1] = <<p>>
    BY OpenShape
  <1>2. n \in Nat /\ n + 1 \in 1 .. n + 1
    BY Places
  <1> HIDE DEF n, t1
  <1>3. Len(t1[n + 1]) = 1 /\ t1[n + 1][1] = p
    BY <1>1
  <1>4. \A l \in 1 .. n + 1 : l = n + 1 \/ l \in 1 .. n
    BY <1>2
  <1>5. \A l \in 1 .. n : l \in 1 .. n + 1
    BY <1>2
  <1>6. ASSUME NEW q PROVE q \in OffTrail(t1, a \cup {p}) <=> q \in OffTrail(t, a)
    <2>1. q \in OffTrail(t1, a \cup {p}) <=> q \in a \cup {p} /\ ~ \E l \in 1 .. n + 1 : \E i \in 1 .. Len(t1[l]) : t1[l][i] = q
      <3>1. q \in OffTrail(t1, a \cup {p}) <=> q \in a \cup {p} /\ ~ \E l \in 1 .. Len(t1) : \E i \in 1 .. Len(t1[l]) : t1[l][i] = q
        <4>1. t1 \in Seq(Seq(Lit))
          BY <1>1
        <4> QED
          BY <4>1, OffPlaces
      <3> QED
        BY <3>1, <1>1
    <2>2. q \in OffTrail(t, a) <=> q \in a /\ ~ \E l \in 1 .. n : \E i \in 1 .. Len(t[l]) : t[l][i] = q
      BY OffPlaces DEF n
    <2>3. CASE q = p
      BY <2>1, <2>2, <2>3, <1>2, <1>3
    <2>4. CASE q # p
      <3>1. ASSUME NEW l \in 1 .. n + 1, NEW i \in 1 .. Len(t1[l]), t1[l][i] = q
            PROVE  l \in 1 .. n /\ i \in 1 .. Len(t[l]) /\ t[l][i] = q
        <4>1. l # n + 1
          <5> SUFFICES ASSUME l = n + 1 PROVE FALSE
            OBVIOUS
          <5>1. i \in 1 .. 1
            BY <1>3
          <5> QED
            BY <5>1, <3>1, <2>4, <1>3
        <4>2. l \in 1 .. n
          BY <4>1, <1>4
        <4> QED
          BY <4>2, <3>1, <1>1
      <3>2. ASSUME NEW l \in 1 .. n, NEW i \in 1 .. Len(t[l]), t[l][i] = q
            PROVE  l \in 1 .. n + 1 /\ i \in 1 .. Len(t1[l]) /\ t1[l][i] = q
        BY <3>2, <1>1, <1>5
      <3> QED
        BY <2>1, <2>2, <2>4, <3>1, <3>2
    <2> QED
      BY <2>3, <2>4
  <1> QED
    BY <1>6 DEF t1

LEMMA SeenNext ==
  ASSUME SeenRight, pc \notin {"resolve", "select", "learn"}, seen' = seen,
         OffTrail(trail', assigns') = OffTrail(trail, assigns)
  PROVE  SeenRight'
  BY DEF SeenRight, OffTrail

-----------------------------------------------------------------------------
(* The clause memory. *)

LEMMA SlotFacts ==
  ASSUME MaxClause \in Nat, NEW mem, FreeIn(mem) # {}
  PROVE  SlotIn(mem) \in 1..MaxClause /\ SlotIn(mem) \notin DOMAIN mem
  <1>1. FreeIn(mem) \in SUBSET Nat
    BY DEF FreeIn
  <1>2. \E i \in FreeIn(mem) : \A j \in FreeIn(mem) : i <= j
    BY <1>1, Least
  <1>3. SlotIn(mem) \in FreeIn(mem)
    BY <1>2 DEF SlotIn
  <1> QED
    BY <1>3 DEF FreeIn

LEMMA WithFacts ==
  ASSUME NEW M, NEW s, NEW c
  PROVE  /\ DOMAIN With(M, s, c) = DOMAIN M \cup {s}
         /\ With(M, s, c)[s] = c
         /\ \A i \in DOMAIN M : i # s => With(M, s, c)[i] = M[i]
         /\ M \in [DOMAIN M -> ClauseObject] /\ c \in ClauseObject =>
              With(M, s, c) \in [DOMAIN With(M, s, c) -> ClauseObject]
  BY DEF With

LEMMA WithoutFacts ==
  ASSUME NEW M, NEW S
  PROVE  /\ DOMAIN Without(M, S) = DOMAIN M \ S
         /\ \A i \in DOMAIN M \ S : Without(M, S)[i] = M[i]
         /\ M \in [DOMAIN M -> ClauseObject] =>
              Without(M, S) \in [DOMAIN Without(M, S) -> ClauseObject]
  BY DEF Without

LEMMA AttachBoth ==
  ASSUME NEW w \in [Lit -> SUBSET WatchElem], NEW c0 \in Int, NEW c1 \in Int, NEW e0 \in WatchElem, NEW e1 \in WatchElem
  PROVE  /\ attach(w, c0, c1, TRUE, e0, e1) \in [Lit -> SUBSET WatchElem]
         /\ \A l \in Lit : \A e \in attach(w, c0, c1, TRUE, e0, e1)[l] :
              e \in w[l] \/ (l = -c1 /\ e = e1) \/ (l = -c0 /\ e = e0)
  <1> DEFINE W == attach(w, c0, c1, TRUE, e0, e1)
  <1>1. \A l \in Lit : W[l] = w[l] \cup (IF l = -c1 THEN {e1} ELSE {}) \cup (IF l = -c0 /\ TRUE THEN {e0} ELSE {})
    BY DEF attach
  <1>2. W = [l \in Lit |-> W[l]]
    BY DEF attach
  <1> HIDE DEF W
  <1>3. \A l \in Lit : W[l] \in SUBSET WatchElem
    BY <1>1
  <1> QED
    BY <1>1, <1>2, <1>3 DEF W

LEMMA AttachLearnt ==
  ASSUME NEW w \in [Lit -> SUBSET WatchElem], NEW c0 \in Int, NEW c1 \in Int, NEW e0 \in WatchElem, NEW e1 \in WatchElem,
         NEW W, W = attach(w, c0, c1, ~ one_watch, e0, e1)
  PROVE  /\ W \in [Lit -> SUBSET WatchElem]
         /\ \A l \in Lit : \A e \in W[l] : e \in w[l] \/ (l = -c1 /\ e = e1) \/ (l = -c0 /\ e = e0)
  <1>1. \A l \in Lit : W[l] = w[l] \cup (IF l = -c1 THEN {e1} ELSE {}) \cup (IF l = -c0 /\ ~ one_watch THEN {e0} ELSE {})
    BY DEF attach
  <1>2. W = [l \in Lit |-> W[l]]
    BY DEF attach
  <1>3. \A l \in Lit : W[l] \in SUBSET WatchElem
    BY <1>1
  <1> QED
    BY <1>1, <1>2, <1>3

(* A new clause object; nothing refers to it yet. *)
LEMMA StoreAdd ==
  ASSUME NEW M, NEW W, NEW ls, NEW rt, NEW rem, StoreRight(M, W, ls, rt, rem),
         NEW s, s \notin DOMAIN M, NEW c, c.temp \/ (Entails(rem, Lits(c)) /\ Learnable(Lits(c)))
  PROVE  /\ StoreRight(With(M, s, c), W, ls, rt, rem)
         /\ ~ c.temp => Kept(With(M, s, c), rt, s)
  <1> DEFINE M1 == With(M, s, c)
  <1>1. DOMAIN M1 = DOMAIN M \cup {s} /\ M1[s] = c /\ \A i \in DOMAIN M : M1[i] = M[i] /\ i # s
    BY DEF With
  <1> HIDE DEF M1
  <1>2. \A i : Kept(M, rt, i) => Kept(M1, rt, i) /\ M1[i] = M[i]
    BY <1>1 DEF Kept
  <1>3. \A i \in DOMAIN M1 : M1[i].temp \/ (Entails(rem, Lits(M1[i])) /\ Learnable(Lits(M1[i])))
    BY <1>1 DEF StoreRight
  <1>4. \A l \in Lit : \A e \in W[l] : WatchRight(M1, rt, rem, l, e)
    <2> SUFFICES ASSUME NEW l \in Lit, NEW e \in W[l] PROVE WatchRight(M1, rt, rem, l, e)
      OBVIOUS
    <2>1. WatchRight(M, rt, rem, l, e)
      BY DEF StoreRight
    <2> QED
      BY <2>1, <1>2 DEF WatchRight
  <1>5. \A i \in ls : Kept(M1, rt, i)
    BY <1>2 DEF StoreRight
  <1>6. \A k \in DOMAIN rt : rt[k] \subseteq DOMAIN M1
    BY <1>1 DEF StoreRight
  <1>7. ~ c.temp => Kept(M1, rt, s)
    BY <1>1 DEF Kept, StoreRight
  <1>8. StoreRight(M1, W, ls, rt, rem)
    BY <1>3, <1>4, <1>5, <1>6 DEF StoreRight
  <1> QED
    BY <1>7, <1>8 DEF M1

(* A new clause object that is freed with level k. *)
LEMMA StoreTemp ==
  ASSUME NEW M, NEW W, NEW ls, NEW rt, NEW rem, StoreRight(M, W, ls, rt, rem),
         NEW s, s \notin DOMAIN M, NEW c, c.temp \/ (Entails(rem, Lits(c)) /\ Learnable(Lits(c))),
         NEW k \in DOMAIN rt
  PROVE  StoreRight(With(M, s, c), W, ls, [rt EXCEPT ![k] = @ \cup {s}], rem)
  <1> DEFINE M1 == With(M, s, c)
             rt1 == [rt EXCEPT ![k] = @ \cup {s}]
  <1>1. DOMAIN M1 = DOMAIN M \cup {s} /\ M1[s] = c /\ \A i \in DOMAIN M : M1[i] = M[i] /\ i # s
    BY DEF With
  <1>2. DOMAIN rt1 = DOMAIN rt /\ \A j \in DOMAIN rt : rt1[j] = IF j = k THEN rt[k] \cup {s} ELSE rt[j]
    OBVIOUS
  <1> HIDE DEF M1, rt1
  <1>2a. \A j \in DOMAIN rt : s \notin rt[j]
    BY DEF StoreRight
  <1>3. \A i : Kept(M, rt, i) => Kept(M1, rt1, i) /\ M1[i] = M[i]
    BY <1>1, <1>2 DEF Kept
  <1>4. \A i \in DOMAIN M1 : M1[i].temp \/ (Entails(rem, Lits(M1[i])) /\ Learnable(Lits(M1[i])))
    BY <1>1 DEF StoreRight
  <1>5. \A l \in Lit : \A e \in W[l] : WatchRight(M1, rt1, rem, l, e)
    <2> SUFFICES ASSUME NEW l \in Lit, NEW e \in W[l] PROVE WatchRight(M1, rt1, rem, l, e)
      OBVIOUS
    <2>1. WatchRight(M, rt, rem, l, e)
      BY DEF StoreRight
    <2> QED
      BY <2>1, <1>3 DEF WatchRight
  <1>6. \A i \in ls : Kept(M1, rt1, i)
    BY <1>3 DEF StoreRight
  <1>7. \A j \in DOMAIN rt1 : rt1[j] \subseteq DOMAIN M1
    BY <1>1, <1>2 DEF StoreRight
  <1>8. \A i, j \in DOMAIN rt1 : i # j => rt1[i] \cap rt1[j] = {}
    BY <1>2, <1>2a DEF StoreRight
  <1>9. StoreRight(M1, W, ls, rt1, rem)
    BY <1>4, <1>5, <1>6, <1>7, <1>8 DEF StoreRight
  <1> QED
    BY <1>9 DEF M1, rt1

(* The clause objects of the levels from n + 1 on are freed. *)
LEMMA StoreBack ==
  ASSUME NEW M, NEW W, NEW ls, NEW rt, NEW rem, StoreRight(M, W, ls, rt, rem),
         NEW T, rt \in Seq(T), NEW n \in Nat, n <= Len(rt)
  PROVE  /\ StoreRight(Without(M, UNION {rt[l] : l \in n + 1 .. Len(rt)}), W, ls, SubSeq(rt, 1, n), rem)
         /\ \A i : Kept(M, rt, i) =>
              /\ Kept(Without(M, UNION {rt[l] : l \in n + 1 .. Len(rt)}), SubSeq(rt, 1, n), i)
              /\ i \in DOMAIN M \ UNION {rt[l] : l \in n + 1 .. Len(rt)}
  <1> DEFINE Fr == UNION {rt[l] : l \in n + 1 .. Len(rt)}
             M1 == Without(M, Fr)
             rt1 == SubSeq(rt, 1, n)
  <1>1. DOMAIN M1 = DOMAIN M \ Fr /\ \A i \in DOMAIN M1 : M1[i] = M[i]
    BY DEF Without
  <1>2. Len(rt) \in Nat /\ DOMAIN rt = 1 .. Len(rt)
    OBVIOUS
  <1>3. DOMAIN rt1 = 1 .. n /\ \A j \in 1 .. n : rt1[j] = rt[j] /\ j \in DOMAIN rt
    OBVIOUS
  <1>4. \A i : i \in Fr <=> \E l \in n + 1 .. Len(rt) : i \in rt[l]
    OBVIOUS
  <1>4a. \A l \in n + 1 .. Len(rt) : l \in DOMAIN rt
    BY <1>2
  <1>5. \A j \in 1 .. n : rt[j] \cap Fr = {}
    <2> SUFFICES ASSUME NEW j \in 1 .. n, NEW i \in rt[j], i \in Fr PROVE FALSE
      OBVIOUS
    <2>1. PICK l \in n + 1 .. Len(rt) : i \in rt[l]
      BY <1>4
    <2>2. l # j /\ l \in DOMAIN rt /\ j \in DOMAIN rt
      BY <1>3, <1>4a
    <2> QED
      BY <2>1, <2>2 DEF StoreRight
  <1> HIDE DEF M1, rt1, Fr
  <1>6. \A i : Kept(M, rt, i) => Kept(M1, rt1, i) /\ i \in DOMAIN M1 /\ M1[i] = M[i]
    BY <1>1, <1>3, <1>4, <1>4a DEF Kept
  <1>7. \A i \in DOMAIN M1 : M1[i].temp \/ (Entails(rem, Lits(M1[i])) /\ Learnable(Lits(M1[i])))
    BY <1>1 DEF StoreRight
  <1>8. \A l \in Lit : \A e \in W[l] : WatchRight(M1, rt1, rem, l, e)
    <2> SUFFICES ASSUME NEW l \in Lit, NEW e \in W[l] PROVE WatchRight(M1, rt1, rem, l, e)
      OBVIOUS
    <2>1. WatchRight(M, rt, rem, l, e)
      BY DEF StoreRight
    <2> QED
      BY <2>1, <1>6 DEF WatchRight
  <1>9. \A i \in ls : Kept(M1, rt1, i)
    BY <1>6 DEF StoreRight
  <1>10. \A j \in DOMAIN rt1 : rt1[j] \subseteq DOMAIN M1
    BY <1>1, <1>3, <1>5 DEF StoreRight
  <1>11. \A i, j \in DOMAIN rt1 : i # j => rt1[i] \cap rt1[j] = {}
    BY <1>3 DEF StoreRight
  <1>12. StoreRight(M1, W, ls, rt1, rem)
    BY <1>7, <1>8, <1>9, <1>10, <1>11 DEF StoreRight
  <1> QED
    BY <1>1, <1>6, <1>12 DEF M1, rt1, Fr

LEMMA StoreShrink ==
  ASSUME NEW M, NEW W, NEW ls, NEW rt, NEW rem, StoreRight(M, W, ls, rt, rem), NEW rem1 \in SUBSET rem
  PROVE  StoreRight(M, W, ls, rt, rem1)
  <1>1. \A C : Entails(rem, C) => Entails(rem1, C)
    BY DEF Entails
  <1> QED
    BY <1>1 DEF StoreRight, WatchRight

LEMMA StoreWatch ==
  ASSUME NEW M, NEW W, NEW ls, NEW rt, NEW rem, StoreRight(M, W, ls, rt, rem), NEW W1,
         \A l \in Lit : \A e \in W1[l] : e \in W[l] \/ WatchRight(M, rt, rem, l, e)
  PROVE  StoreRight(M, W1, ls, rt, rem)
  BY DEF StoreRight

LEMMA PushTyped ==
  ASSUME NEW t, NEW a, NEW R, NEW M, NEW rt, StackTyped(t, a, R, M, rt), NEW p \in Lit, NEW r \in Reason
  PROVE  StackTyped(Pushed(t, p), a \cup {p}, [R EXCEPT ![var(p)] = r], M, rt)
  <1>1. t \in Seq(Seq(Lit)) /\ Len(t) > 0 /\ a \in SUBSET Lit /\ R \in [Var -> Reason] /\ given \in DOMAIN Runs
    BY DEF StackTyped
  <1>2. Pushed(t, p) \in Seq(Seq(Lit)) /\ Len(Pushed(t, p)) = Len(t)
    BY <1>1, PushShape, Zenon
  <1>3. [R EXCEPT ![var(p)] = r] \in [Var -> Reason]
    BY <1>1
  <1> QED
    BY <1>1, <1>2, <1>3 DEF StackTyped

LEMMA enqueueNow ==
  ASSUME NEW p, NEW r, enqueue(p, r)
  PROVE  /\ trail' = Pushed(trail, p) /\ assigns' = assigns \cup {p}
         /\ reason' = [reason EXCEPT ![var(p)] = r] /\ qhead' = qhead /\ rtrail' = rtrail
  BY DEF enqueue, Pushed

-----------------------------------------------------------------------------
(* Loading the problem. *)

LEMMA SameRemaining ==
  ASSUME given' = given, found' = found
  PROVE  Remaining' = Remaining
  <1>1. Models' = Models
    BY Carried
  <1>2. \A m : Show(m)' = Show(m)
    BY Carried DEF Show
  <1> QED
    BY <1>1, <1>2 DEF Remaining

LEMMA OneLevel ==
  ASSUME NEW t, NEW a, NEW R, NEW M, NEW rt, NEW rem, StackRight(t, a, R, M, rt, rem), Len(t) = 1
  PROVE  \A m \in rem : a \subseteq m
  <1>1. DeepOf(t) = {}
    <2>1. 2 .. 1 = {}
      OBVIOUS
    <2> QED
      BY <2>1 DEF DeepOf
  <1> QED
    BY <1>1 DEF StackRight, RootRight

LEMMA StackMemory ==
  ASSUME NEW t, NEW a, NEW R, NEW M, NEW rt, NEW rem, StackTyped(t, a, R, M, rt),
         StackRight(t, a, R, M, rt, rem), NEW M1, NEW rt1, NEW rem1 \in SUBSET rem,
         ReasonsKept(t, t, R, M, rt, M1, rt1)
  PROVE  StackRight(t, a, R, M1, rt1, rem1)
  <1>1. CutOf(t, a, t, a)
    BY CutSame DEF StackTyped
  <1>2. SameReasons(a, R, R)
    BY DEF SameReasons
  <1> QED
    BY <1>1, <1>2, StackCut

LEMMA addClauseAdds ==
  ASSUME SatInv, addClause, given' = given
  PROVE  SatInv'
  <1> DEFINE rem == Remaining
             C == Problem[loaded + 1]
             open == {i \in DOMAIN C : isUndef(C[i])}
             firstTwo(i, j) == i < j /\ \A k \in open : k = i \/ k >= j
  <1>1. /\ Typed /\ Phases /\ SeenRight
        /\ StackRight(trail, assigns, reason, clause, rtrail, rem)
        /\ StoreRight(clause, watches, learnts, rtrail, rem)
    BY SatParts
  <1>2. /\ given \in DOMAIN Runs /\ StackTyped(trail, assigns, reason, clause, rtrail)
        /\ DOMAIN clause \subseteq 1..MaxClause /\ pc \in Phase /\ loaded \in 0 .. Len(Problem)
        /\ learnts \subseteq 1..MaxClause /\ watches \in [Lit -> SUBSET WatchElem]
        /\ qhead \in Seq(Nat) /\ Len(qhead) = Len(trail)
        /\ confl \in Reason /\ todo \subseteq WatchElem /\ seen \subseteq Var
        /\ solutions \in Nat /\ budget \in Int /\ found \subseteq SUBSET Lit /\ an \in Analysis
        /\ rem \in SUBSET Models /\ MaxClause \in Nat
    BY <1>1, TypedNow
  <1>3. /\ pc = "load" /\ loaded < Len(Problem) /\ loaded' = loaded + 1
        /\ UNCHANGED <<learnts, confl, todo, seen, an, budget, solutions, found>>
    BY DEF addClause
  <1>4. Len(trail) = 1 /\ confl = NoReason /\ todo = {}
    <2>1. trail \in Seq(Seq(Lit))
      BY <1>2 DEF StackTyped
    <2>2. Len(trail) \in Nat
      BY <2>1
    <2> QED
      BY <1>1, <1>3, <2>2 DEF Phases, decisionLevel
  <1>5. Remaining' = rem
    BY <1>3, SameRemaining
  <1>6. Problem \in Seq(Seq(Lit))
    BY <1>2, RunFacts
  <1>7. loaded' \in 0 .. Len(Problem) /\ loaded + 1 \in DOMAIN Problem
    BY <1>2, <1>3, <1>6
  <1>8. C \in Seq(Lit)
    BY <1>6, <1>7
  <1>9. \A i \in DOMAIN C : C[i] \in Lit /\ C[i] # 0 /\ var(C[i]) \notin Hidden /\ -(-C[i]) = C[i]
    <2> SUFFICES ASSUME NEW i \in DOMAIN C PROVE C[i] \in Lit /\ C[i] # 0 /\ var(C[i]) \notin Hidden /\ -(-C[i]) = C[i]
      OBVIOUS
    <2>1. C[i] \in Lit
      BY <1>8
    <2>2. C[i] \in Elems(C)
      BY DEF Elems
    <2> QED
      BY <2>1, <2>2, <1>2, <1>7, RunFacts, LitFacts
  (* What is left of the clause holds wherever the clause holds. *)
  <1>10. ASSUME ~ \E l \in Elems(C) : isTrue(l), NEW m \in rem
         PROVE  \E i \in open : C[i] \in m
    <2>1. m \in Models /\ assigns \subseteq m
      BY <1>1, <1>2, <1>4, OneLevel
    <2>2. PICK l \in m : l \in Elems(C)
      BY <2>1, <1>2, <1>7, ModelFacts
    <2>3. PICK i \in DOMAIN C : C[i] = l
      BY <2>2 DEF Elems
    <2>4. -l \notin m
      BY <2>1, <2>2, <2>3, <1>2, <1>9, ModelFacts
    <2>5. isUndef(C[i])
      BY <1>10, <2>1, <2>2, <2>3, <2>4 DEF isUndef, isTrue, isFalse
    <2> QED
      BY <2>2, <2>3, <2>5
  <1>11. qhead' = qhead /\ rtrail' = rtrail => SatInv'
    <2> SUFFICES ASSUME qhead' = qhead, rtrail' = rtrail PROVE SatInv'
      OBVIOUS
    <2> DEFINE Goal(t, a, R, M, W) ==
          /\ StackTyped(t, a, R, M, rtrail) /\ Len(t) = 1
          /\ DOMAIN M \subseteq 1..MaxClause /\ W \in [Lit -> SUBSET WatchElem]
          /\ StackRight(t, a, R, M, rtrail, rem) /\ StoreRight(M, W, learnts, rtrail, rem)
          /\ OffTrail(t, a) = OffTrail(trail, assigns)
    <2>1. ASSUME Goal(trail', assigns', reason', clause', watches'), pc' \in {"load", "GUN"},
                 pc' = "GUN" => rem = {}
          PROVE  SatInv'
      <3>1. Typed'
        BY <2>1, <1>2, <1>3, <1>4, <1>7, TypedNext DEF Phase
      <3>2. SeenRight' /\ ConflictRight'
        BY <2>1, <1>1, <1>3, <1>4, SeenNext, NoConflict
      <3> QED
        BY <2>1, <3>1, <3>2, <1>3, <1>4, <1>5, Settled
    <2>2. CASE \E l \in Elems(C) : isTrue(l)
      <3>1. UNCHANGED <<pc, clause, watches, stack>>
        BY <2>2 DEF addClause
      <3>2. Goal(trail', assigns', reason', clause', watches')
        BY <3>1, <1>1, <1>2, <1>4 DEF stack
      <3> QED
        BY <3>1, <3>2, <2>1, <1>3
    <2>3. CASE ~ \E l \in Elems(C) : isTrue(l)
      <3>1. \/ /\ \A i, j \in open : i = j
               /\ IF open = {} THEN pc' = "GUN" /\ UNCHANGED stack
                  ELSE (\E i \in open : enqueue(C[i], NoReason)) /\ UNCHANGED pc
               /\ UNCHANGED <<clause, watches>>
            \/ /\ \E i, j \in open :
                    /\ firstTwo(i, j) /\ open = {i, j}
                    /\ watches' = attach(watches, C[i], C[j], TRUE, <<"bin", C[j]>>, <<"bin", C[i]>>)
               /\ UNCHANGED <<pc, clause, stack>>
            \/ /\ Free # {}
               /\ \E i, j \in open :
                    /\ firstTwo(i, j) /\ open # {i, j}
                    /\ clause' = With(clause, Slot,
                          [c0 |-> C[i], c1 |-> C[j], rest |-> {C[k] : k \in open} \ {C[i], C[j]},
                           learnt |-> FALSE, temp |-> FALSE])
                    /\ watches' = attach(watches, C[i], C[j], TRUE, <<"clause", Slot>>, <<"clause", Slot>>)
               /\ UNCHANGED <<pc, stack>>
        BY <2>3 DEF addClause
      <3>2. ASSUME open = {}, pc' = "GUN", UNCHANGED stack, UNCHANGED <<clause, watches>>
            PROVE  SatInv'
        <4>1. rem = {}
          BY <3>2, <2>3, <1>10
        <4>2. Goal(trail', assigns', reason', clause', watches')
          BY <3>2, <1>1, <1>2, <1>4 DEF stack
        <4> QED
          BY <3>2, <4>1, <4>2, <2>1
      <3>3. ASSUME \A i, j \in open : i = j, NEW i \in open, enqueue(C[i], NoReason),
                   UNCHANGED pc, UNCHANGED <<clause, watches>>
            PROVE  SatInv'
        <4> DEFINE p == C[i]
        <4>1. /\ trail' = Pushed(trail, p) /\ assigns' = assigns \cup {p}
              /\ reason' = [reason EXCEPT ![var(p)] = NoReason]
          BY <3>3, enqueueNow
        <4>2. p \in Lit /\ p \notin assigns /\ -p \notin assigns /\ var(p) \notin Hidden /\ NoReason \in Reason
          BY <1>9 DEF isUndef, isTrue, isFalse, Reason
        <4>3. \A m \in rem : p \in m
          BY <3>3, <2>3, <1>10
        <4> HIDE DEF p
        <4>4. StackRight(trail', assigns', reason', clause, rtrail, rem)
          <5>1. Len(trail) = 1 /\ ~ (Len(trail) > 1)
            BY <1>4
          <5>2. StackRight(Pushed(trail, p), assigns \cup {p}, [reason EXCEPT ![var(p)] = NoReason], clause, rtrail, rem)
            BY <5>1, <4>2, <4>3, <1>1, <1>2, StackPush, Zenon
          <5> QED
            BY <5>2, <4>1
        <4>5. StackTyped(trail', assigns', reason', clause, rtrail)
          BY <4>1, <4>2, <1>2, PushTyped
        <4>6. OffTrail(trail', assigns') = OffTrail(trail, assigns) /\ Len(trail') = 1
          <5>1. trail \in Seq(Seq(Lit)) /\ Len(trail) > 0
            BY <1>2 DEF StackTyped
          <5>2. OffTrail(Pushed(trail, p), assigns \cup {p}) = OffTrail(trail, assigns)
            BY <5>1, <4>2, OffPush
          <5>3. Len(Pushed(trail, p)) = Len(trail)
            BY <5>1, <4>2, PushShape
          <5> QED
            BY <5>2, <5>3, <4>1, <1>4
        <4>7. Goal(trail', assigns', reason', clause', watches')
          BY <3>3, <4>4, <4>5, <4>6, <1>1, <1>2
        <4> QED
          BY <3>3, <4>7, <2>1, <1>3
      <3>4. ASSUME NEW i \in open, NEW j \in open, firstTwo(i, j), open = {i, j},
                   watches' = attach(watches, C[i], C[j], TRUE, <<"bin", C[j]>>, <<"bin", C[i]>>),
                   UNCHANGED <<pc, clause, stack>>
            PROVE  SatInv'
        <4>1. C[i] \in Lit /\ C[j] \in Lit /\ -(-C[i]) = C[i] /\ -(-C[j]) = C[j]
              /\ var(C[i]) \notin Hidden /\ var(C[j]) \notin Hidden
          BY <1>9
        <4>2. <<"bin", C[i]>> \in WatchElem /\ <<"bin", C[j]>> \in WatchElem
          BY <4>1 DEF WatchElem
        <4>3. Entails(rem, {C[i], C[j]})
          BY <3>4, <2>3, <1>10 DEF Entails
        <4>4. /\ WatchRight(clause, rtrail, rem, -C[i], <<"bin", C[j]>>)
              /\ WatchRight(clause, rtrail, rem, -C[j], <<"bin", C[i]>>)
          BY <4>1, <4>3 DEF WatchRight, Learnable, vars_of, Entails
        <4>5. /\ watches' \in [Lit -> SUBSET WatchElem]
              /\ \A l \in Lit : \A e \in watches'[l] :
                   e \in watches[l] \/ (l = -C[j] /\ e = <<"bin", C[i]>>) \/ (l = -C[i] /\ e = <<"bin", C[j]>>)
          <5> DEFINE e0 == <<"bin", C[j]>>
                     e1 == <<"bin", C[i]>>
                     x == C[i]
                     y == C[j]
                     W == attach(watches, x, y, TRUE, e0, e1)
          <5>1. e0 \in WatchElem /\ e1 \in WatchElem
            BY <4>2
          <5> HIDE DEF e0, e1, x, y
          <5>a. W \in [Lit -> SUBSET WatchElem]
            <6>1. watches \in [Lit -> SUBSET WatchElem] /\ x \in Int /\ y \in Int
              BY <1>2, <4>1, LitFacts DEF x, y
            <6> QED
              BY <5>1, <6>1, AttachBoth
          <5>2. /\ W \in [Lit -> SUBSET WatchElem]
                /\ \A l \in Lit : \A e \in W[l] : e \in watches[l] \/ (l = -y /\ e = e1) \/ (l = -x /\ e = e0)
            <6>1. watches \in [Lit -> SUBSET WatchElem] /\ x \in Int /\ y \in Int
              BY <1>2, <4>1, LitFacts DEF x, y
            <6> QED
              BY <5>a, <6>1 DEF attach
          <5> QED
            BY <5>2, <3>4 DEF e0, e1, x, y
        <4>6. StoreRight(clause, watches', learnts, rtrail, rem)
          BY <4>4, <4>5, <1>1, StoreWatch
        <4>7. Goal(trail', assigns', reason', clause', watches')
          BY <3>4, <4>5, <4>6, <1>1, <1>2, <1>4 DEF stack
        <4> QED
          BY <3>4, <4>7, <2>1, <1>3
      <3>5. ASSUME Free # {}, NEW i \in open, NEW j \in open, firstTwo(i, j), open # {i, j},
                   clause' = With(clause, Slot,
                          [c0 |-> C[i], c1 |-> C[j], rest |-> {C[k] : k \in open} \ {C[i], C[j]},
                           learnt |-> FALSE, temp |-> FALSE]),
                   watches' = attach(watches, C[i], C[j], TRUE, <<"clause", Slot>>, <<"clause", Slot>>),
                   UNCHANGED <<pc, stack>>
            PROVE  SatInv'
        <4> DEFINE s == Slot
                   c == [c0 |-> C[i], c1 |-> C[j], rest |-> {C[k] : k \in open} \ {C[i], C[j]},
                         learnt |-> FALSE, temp |-> FALSE]
        <4>1. C[i] \in Lit /\ C[j] \in Lit /\ -(-C[i]) = C[i] /\ -(-C[j]) = C[j] /\ C[i] # 0 /\ C[j] # 0
          BY <1>9
        <4>2. s \in 1..MaxClause /\ s \notin DOMAIN clause
          BY <3>5, <1>2, SlotFacts DEF Slot, Free
        <4>3. <<"clause", s>> \in WatchElem
          BY <4>2 DEF WatchElem
        <4>4. c \in ClauseObject
          BY <1>9 DEF ClauseObject
        <4>5. Lits(c) = {C[k] : k \in open}
          BY <1>9 DEF Lits
        <4>6. Entails(rem, Lits(c)) /\ Learnable(Lits(c))
          BY <4>5, <2>3, <1>9, <1>10 DEF Entails, Learnable, vars_of
        <4>6a. c.c0 = C[i] /\ c.c1 = C[j] /\ c.temp = FALSE
          OBVIOUS
        <4> HIDE DEF s, c
        <4>7. clause' = With(clause, s, c) /\ watches' = attach(watches, C[i], C[j], TRUE, <<"clause", s>>, <<"clause", s>>)
          BY <3>5 DEF s, c
        <4>8. StoreRight(clause', watches, learnts, rtrail, rem) /\ Kept(clause', rtrail, s)
          BY <4>2, <4>6, <4>6a, <4>7, <1>1, StoreAdd
        <4>9. /\ DOMAIN clause' = DOMAIN clause \cup {s} /\ clause'[s] = c
              /\ \A k \in DOMAIN clause : clause'[k] = clause[k]
              /\ clause' \in [DOMAIN clause' -> ClauseObject]
          <5>1. clause \in [DOMAIN clause -> ClauseObject]
            BY <1>2 DEF StackTyped
          <5>2. /\ DOMAIN With(clause, s, c) = DOMAIN clause \cup {s} /\ With(clause, s, c)[s] = c
                /\ \A k \in DOMAIN clause : k # s => With(clause, s, c)[k] = clause[k]
                /\ With(clause, s, c) \in [DOMAIN With(clause, s, c) -> ClauseObject]
            BY <5>1, <4>4 DEF With
          <5> QED
            BY <5>2, <4>2, <4>7
        <4>10. /\ WatchRight(clause', rtrail, rem, -C[i], <<"clause", s>>)
               /\ WatchRight(clause', rtrail, rem, -C[j], <<"clause", s>>)
          BY <4>1, <4>6a, <4>8, <4>9 DEF WatchRight
        <4>11. /\ watches' \in [Lit -> SUBSET WatchElem]
               /\ \A l \in Lit : \A e \in watches'[l] :
                   e \in watches[l] \/ (l = -C[j] /\ e = <<"clause", s>>) \/ (l = -C[i] /\ e = <<"clause", s>>)
          <5> DEFINE e0 == <<"clause", s>>
                     x == C[i]
                     y == C[j]
                     W == attach(watches, x, y, TRUE, e0, e0)
          <5>1. e0 \in WatchElem
            BY <4>3
          <5> HIDE DEF e0, x, y
          <5>a. W \in [Lit -> SUBSET WatchElem]
            <6>1. watches \in [Lit -> SUBSET WatchElem] /\ x \in Int /\ y \in Int
              BY <1>2, <4>1, LitFacts DEF x, y
            <6> QED
              BY <5>1, <6>1, AttachBoth
          <5>2. /\ W \in [Lit -> SUBSET WatchElem]
                /\ \A l \in Lit : \A e \in W[l] : e \in watches[l] \/ (l = -y /\ e = e0) \/ (l = -x /\ e = e0)
            <6>1. watches \in [Lit -> SUBSET WatchElem] /\ x \in Int /\ y \in Int
              BY <1>2, <4>1, LitFacts DEF x, y
            <6> QED
              BY <5>a, <6>1 DEF attach
          <5> QED
            BY <5>2, <4>7 DEF e0, x, y
        <4>12. StoreRight(clause', watches', learnts, rtrail, rem)
          BY <4>8, <4>10, <4>11, StoreWatch
        <4>13. StackRight(trail, assigns, reason, clause', rtrail, rem)
          <5>1. ReasonsKept(trail, trail, reason, clause, rtrail, clause', rtrail)
            BY <1>4 DEF ReasonsKept
          <5> QED
            BY <5>1, <1>1, <1>2, StackMemory
        <4>14. StackTyped(trail, assigns, reason, clause', rtrail)
          BY <4>9, <1>2 DEF StackTyped
        <4>15. DOMAIN clause' \subseteq 1..MaxClause
          BY <4>2, <4>9, <1>2
        <4>16. Goal(trail', assigns', reason', clause', watches')
          BY <3>5, <4>11, <4>12, <4>13, <4>14, <4>15, <1>4 DEF stack
        <4> QED
          BY <3>5, <4>16, <2>1, <1>3
      <3> QED
        BY <3>1, <3>2, <3>3, <3>4, <3>5
    <2> QED
      BY <2>2, <2>3
  <1>12. qhead' = qhead /\ rtrail' = rtrail
    BY enqueueNow DEF addClause, stack
  <1> QED
    BY <1>11, <1>12

-----------------------------------------------------------------------------
(* Unit propagation. *)

(* A false literal that a model makes true, also when it negates a valLit:   *)
(* the model then breaks its explanation.                                    *)
LEMMA Plain ==
  ASSUME given \in DOMAIN Runs, NEW t, NEW a, NEW R, HiddenRight(t, a, R), NEW m \in Models,
         NEW q \in Lit, q \in m, -q \in a
  PROVE  HoldsIn(t, R, m, q)
  <1> SUFFICES ASSUME var(q) \in Hidden, -q \in DeepOf(t) PROVE m \cap R[var(q)][2] # {}
    BY DEF HoldsIn
  <1>1. -q \in Lit /\ var(-q) = var(q) /\ -q \notin m
    BY LitFacts, ModelFacts
  <1>2. PICK k \in Inference : -q \in k.heads /\ R[var(-q)] = <<"lits", neg(k.body)>>
    BY <1>1 DEF HiddenRight
  <1>3. ~ (k.body \subseteq m)
    BY <1>1, <1>2, ModelFacts
  <1>4. PICK b \in k.body : b \notin m
    BY <1>3
  <1>5. b \in Lit
    BY RunFacts
  <1>6. -b \in m
    BY <1>4, <1>5, ModelFacts
  <1>7. -b \in neg(k.body)
    BY DEF neg
  <1>8. R[var(q)][2] = neg(k.body)
    BY <1>1, <1>2
  <1> QED
    BY <1>6, <1>7, <1>8

LEMMA PlainNogood ==
  ASSUME given \in DOMAIN Runs, NEW t, NEW a, NEW R, HiddenRight(t, a, R), NEW rem \in SUBSET Models,
         NEW C \in SUBSET Lit, Entails(rem, C), \A q \in C : -q \in a
  PROVE  Nogood(t, R, rem, C)
  <1> SUFFICES ASSUME NEW m \in rem PROVE \E q \in C : HoldsIn(t, R, m, q)
    BY DEF Nogood
  <1>1. PICK q \in C : q \in m
    BY DEF Entails
  <1>2. HoldsIn(t, R, m, q)
    BY <1>1, Plain
  <1> QED
    BY <1>2

(* At the root there is no model when a clause that holds is false. *)
LEMMA RootFalse ==
  ASSUME given \in DOMAIN Runs, NEW rem \in SUBSET Models, NEW a, \A m \in rem : a \subseteq m,
         NEW C \in SUBSET Lit, Entails(rem, C), \A q \in C : -q \in a
  PROVE  rem = {}
  <1> SUFFICES ASSUME NEW m \in rem PROVE FALSE
    OBVIOUS
  <1>1. PICK q \in C : q \in m
    BY DEF Entails
  <1>2. -q \in m
    OBVIOUS
  <1> QED
    BY <1>1, <1>2, ModelFacts

LEMMA LastPlaces ==
  ASSUME NEW t \in Seq(Seq(Lit)), Len(t) > 0
  PROVE  /\ Len(t) \in Nat /\ Len(t) \in DOMAIN t /\ Last(t) = t[Len(t)] /\ Last(t) \in Seq(Lit)
         /\ Len(Last(t)) \in Nat /\ DOMAIN Last(t) = 1 .. Len(Last(t))
         /\ \A i \in DOMAIN Last(t) : Last(t)[i] \in Lit
  BY DEF Last

LEMMA QheadSet ==
  ASSUME NEW qh \in Seq(Nat), Len(qh) > 0, NEW v \in Nat
  PROVE  /\ [qh EXCEPT ![Len(qh)] = v] \in Seq(Nat)
         /\ Len([qh EXCEPT ![Len(qh)] = v]) = Len(qh)
         /\ Last([qh EXCEPT ![Len(qh)] = v]) = v /\ Last(qh) \in Nat
  <1> DEFINE n == Len(qh)
             q1 == [qh EXCEPT ![n] = v]
  <1>1. n \in Nat /\ n \in 1 .. n /\ qh \in [1 .. n -> Nat]
    OBVIOUS
  <1>2. q1 \in [1 .. n -> Nat] /\ q1[n] = v /\ qh[n] \in Nat
    BY <1>1
  <1> HIDE DEF n, q1
  <1>3. q1 \in Seq(Nat) /\ Len(q1) = n
    BY <1>1, <1>2
  <1> QED
    BY <1>2, <1>3 DEF Last, n, q1

(* While a watch list is gone through, its literal is true. *)
LEMMA CurrentTrue ==
  ASSUME Typed, Phases, TrailRight(trail, assigns), todo # {}
  PROVE  /\ current \in assigns /\ current \in Lit /\ -current \in Lit /\ -(-current) = current
         /\ Last(qhead) \in DOMAIN Last(trail)
         /\ Len(trail) > 1 => current \in DeepOf(trail)
  <1>1. trail \in Seq(Seq(Lit)) /\ Len(trail) > 0 /\ given \in DOMAIN Runs
    BY TypedNow DEF StackTyped
  <1>2. Last(qhead) \in DOMAIN Last(trail)
    BY DEF Phases
  <1>3. current \in Lit /\ current \in assigns
    BY <1>1, <1>2, LastPlaces DEF current, TrailRight
  <1>4. ASSUME Len(trail) > 1 PROVE current \in DeepOf(trail)
    <2>1. Len(trail) \in 2 .. Len(trail)
      BY <1>1, <1>4, LastPlaces
    <2>2. current \in Elems(trail[Len(trail)])
      BY <1>1, <1>2, LastPlaces DEF current, Elems
    <2> QED
      BY <2>1, <2>2 DEF DeepOf
  <1> QED
    BY <1>1, <1>2, <1>3, <1>4, LitFacts

LEMMA nextLiteralKeeps ==
  ASSUME SatInv, nextLiteral, given' = given
  PROVE  SatInv'
  <1>1. /\ Typed /\ Phases /\ SeenRight
        /\ StackRight(trail, assigns, reason, clause, rtrail, Remaining)
        /\ StoreRight(clause, watches, learnts, rtrail, Remaining)
    BY SatParts
  <1>2. /\ given \in DOMAIN Runs /\ StackTyped(trail, assigns, reason, clause, rtrail)
        /\ DOMAIN clause \subseteq 1..MaxClause /\ pc \in Phase /\ loaded \in 0 .. Len(Problem)
        /\ learnts \subseteq 1..MaxClause /\ watches \in [Lit -> SUBSET WatchElem]
        /\ qhead \in Seq(Nat) /\ Len(qhead) = Len(trail)
        /\ confl \in Reason /\ seen \subseteq Var
        /\ solutions \in Nat /\ budget \in Int /\ found \subseteq SUBSET Lit /\ an \in Analysis
    BY <1>1, TypedNow
  <1>3. /\ pc = "propagate" /\ confl = NoReason
        /\ Last(qhead) < Len(Last(trail))
        /\ qhead' = [qhead EXCEPT ![Len(qhead)] = Last(qhead) + 1]
        /\ todo' = watches[Last(trail)[Last(qhead) + 1]]
        /\ UNCHANGED <<pc, clause, loaded, learnts, watches, assigns, trail, rtrail, reason, confl, seen, an, budget, solutions, found>>
    BY DEF nextLiteral, Propagating, db, Last
  <1>4. trail \in Seq(Seq(Lit)) /\ Len(trail) > 0
    BY <1>2 DEF StackTyped
  <1>5. Last(qhead) \in Nat
    BY <1>2, <1>4, QheadSet
  <1>6. qhead' \in Seq(Nat) /\ Len(qhead') = Len(trail) /\ Last(qhead') = Last(qhead) + 1
    <2>1. Last(qhead) + 1 \in Nat
      BY <1>5
    <2> QED
      BY <2>1, <1>2, <1>3, <1>4, QheadSet
  <1>7. Last(qhead) + 1 \in DOMAIN Last(trail)
    BY <1>3, <1>4, <1>5, LastPlaces
  <1> DEFINE l == Last(trail)[Last(qhead) + 1]
  <1>8. l \in Lit
    BY <1>4, <1>7, LastPlaces
  <1>9. todo' \subseteq WatchElem
    BY <1>2, <1>3, <1>8
  <1>10. Remaining' = Remaining
    BY <1>3, SameRemaining
  <1>11. Typed'
    BY <1>2, <1>3, <1>6, <1>9, TypedNext
  <1>12. SeenRight' /\ ConflictRight'
    <2>1. OffTrail(trail', assigns') = OffTrail(trail, assigns)
      BY <1>3
    <2> QED
      BY <2>1, <1>1, <1>3, SeenNext, NoConflict
  <1>13. \A e \in todo' : WatchRight(clause', rtrail', Remaining, Last(trail')[Last(qhead')], e)
    <2>1. Last(trail')[Last(qhead')] = l /\ todo' = watches[l]
      BY <1>3, <1>6 DEF Last
    <2> QED
      BY <2>1, <1>1, <1>3, <1>8 DEF StoreRight
  <1>14. Last(qhead') \in DOMAIN Last(trail')
    BY <1>3, <1>6, <1>7 DEF Last
  <1>15. /\ StackRight(trail', assigns', reason', clause', rtrail', Remaining)
         /\ StoreRight(clause', watches', learnts', rtrail', Remaining)
    BY <1>1, <1>3
  <1> QED
    BY <1>3, <1>10, <1>11, <1>12, <1>13, <1>14, <1>15, Settled

(* A literal is enqueued with a reason. *)
LEMMA EnqueueKeeps ==
  ASSUME SatInv, given' = given, Propagating,
         UNCHANGED <<pc, loaded, learnts, watches, qhead, confl, seen, an, budget, solutions, found>>,
         NEW p \in Lit, isUndef(p), NEW r \in Reason,
         trail' = Pushed(trail, p), assigns' = assigns \cup {p}, reason' = [reason EXCEPT ![var(p)] = r],
         StackTyped(trail, assigns, reason, clause', rtrail'), DOMAIN clause' \subseteq 1..MaxClause,
         StackRight(trail, assigns, reason, clause', rtrail', Remaining),
         StoreRight(clause', watches, learnts, rtrail', Remaining),
         todo' \subseteq todo, \A e \in todo' : WatchRight(clause', rtrail', Remaining, current, e),
         r # NoReason, ExplanationIn(clause', r) \subseteq Lit,
         r[1] = "clause" => Lasts(clause', rtrail', r[2], Len(trail)) /\ (clause'[r[2]].temp \/ clause'[r[2]].c0 = p),
         Entails(Remaining, {p} \cup ExplanationIn(clause', r)),
         \A q \in ExplanationIn(clause', r) : -q \in assigns,
         var(p) \in Hidden => \E k \in Inference :
           p \in k.heads /\ k.body \subseteq assigns /\ r = <<"lits", neg(k.body)>>
  PROVE  SatInv'
  <1> DEFINE rem == Remaining
  <1>1. Typed /\ Phases /\ SeenRight /\ StackRight(trail, assigns, reason, clause, rtrail, rem)
    BY SatParts
  <1>2. /\ given \in DOMAIN Runs
        /\ pc \in Phase /\ loaded \in 0 .. Len(Problem)
        /\ learnts \subseteq 1..MaxClause /\ watches \in [Lit -> SUBSET WatchElem]
        /\ qhead \in Seq(Nat) /\ Len(qhead) = Len(trail)
        /\ confl \in Reason /\ seen \subseteq Var /\ todo \subseteq WatchElem
        /\ solutions \in Nat /\ budget \in Int /\ found \subseteq SUBSET Lit /\ an \in Analysis
        /\ rem \in SUBSET Models
    BY <1>1, TypedNow
  <1>3. trail \in Seq(Seq(Lit)) /\ Len(trail) > 0
    BY DEF StackTyped
  <1>4. pc = "propagate" /\ confl = NoReason
    BY DEF Propagating
  <1>5. p \notin assigns /\ -p \notin assigns
    BY DEF isUndef, isTrue, isFalse
  <1>6. Remaining' = rem
    BY SameRemaining
  <1> HIDE DEF rem
  <1>7. Len(trail) = 1 => \A m \in rem : p \in m
    <2> SUFFICES ASSUME Len(trail) = 1, NEW m \in rem PROVE p \in m
      OBVIOUS
    <2>1. assigns \subseteq m /\ m \in Models
      BY <1>1, <1>2, OneLevel
    <2>2. ASSUME NEW q \in ExplanationIn(clause', r) PROVE q \notin m
      <3>1. q \in Lit /\ -q \in m
        BY <2>1
      <3> QED
        BY <3>1, <2>1, <1>2, ModelFacts
    <2> QED
      BY <2>2 DEF Entails, rem
  <1>8. StackRight(trail', assigns', reason', clause', rtrail', rem)
    <2>1. StackRight(Pushed(trail, p), assigns \cup {p}, [reason EXCEPT ![var(p)] = r], clause', rtrail', rem)
      BY <1>2, <1>5, <1>7, StackPush DEF rem
    <2> QED
      BY <2>1
  <1>9. StackTyped(trail', assigns', reason', clause', rtrail')
    BY PushTyped
  <1>10. /\ Len(trail') = Len(trail) /\ Len(Last(trail')) = Len(Last(trail)) + 1
         /\ \A i \in DOMAIN Last(trail) : i \in DOMAIN Last(trail') /\ Last(trail')[i] = Last(trail)[i]
    <2> DEFINE n == Len(trail)
    <2>1. /\ Pushed(trail, p) \in Seq(Seq(Lit)) /\ Len(Pushed(trail, p)) = n
          /\ Len(Pushed(trail, p)[n]) = Len(trail[n]) + 1
          /\ \A i \in 1 .. Len(trail[n]) : Pushed(trail, p)[n][i] = trail[n][i]
      BY <1>3, PushShape
    <2>2. /\ Last(trail) = trail[n] /\ Len(trail[n]) \in Nat /\ DOMAIN trail[n] = 1 .. Len(trail[n])
          /\ Last(trail') = Pushed(trail, p)[n] /\ DOMAIN Pushed(trail, p)[n] = 1 .. Len(Pushed(trail, p)[n])
      BY <2>1, <1>3, LastPlaces DEF Last
    <2> HIDE DEF n
    <2> QED
      BY <2>1, <2>2 DEF n
  <1>11. Typed'
    <2>1. todo' \subseteq WatchElem
      BY <1>2
    <2> QED
      BY <2>1, <1>2, <1>9, <1>10, TypedNext
  <1>12. SeenRight' /\ ConflictRight'
    <2>1. OffTrail(trail', assigns') = OffTrail(trail, assigns)
      BY <1>3, <1>5, OffPush
    <2> QED
      BY <2>1, <1>1, <1>4, SeenNext, NoConflict
  <1>13. todo' # {} => Last(qhead) \in DOMAIN Last(trail)
    BY <1>1 DEF Phases
  <1>14. todo' # {} => Last(qhead') \in DOMAIN Last(trail')
    BY <1>10, <1>13
  <1>15. \A e \in todo' : WatchRight(clause', rtrail', rem, Last(trail')[Last(qhead')], e)
    BY <1>10, <1>13 DEF current, rem
  <1>16. StoreRight(clause', watches', learnts', rtrail', rem)
    BY DEF rem
  <1> QED
    BY <1>4, <1>6, <1>8, <1>11, <1>12, <1>14, <1>15, <1>16, Settled

(* A clause that holds in all models to be found is false: the conflict. *)
LEMMA ConflictKeeps ==
  ASSUME SatInv, given' = given, Propagating,
         UNCHANGED <<pc, loaded, learnts, watches, assigns, trail, reason, seen, an, budget, solutions, found>>,
         todo' = {}, qhead' \in Seq(Nat), Len(qhead') = Len(qhead),
         StackTyped(trail, assigns, reason, clause', rtrail'), DOMAIN clause' \subseteq 1..MaxClause,
         StackRight(trail, assigns, reason, clause', rtrail', Remaining),
         StoreRight(clause', watches, learnts, rtrail', Remaining),
         confl' \in Reason, NEW C \in SUBSET Lit, ConflictLits' = C,
         confl'[1] = "clause" => confl'[2] \in DOMAIN clause' /\ (clause'[confl'[2]].temp \/ Kept(clause', rtrail', confl'[2])),
         Entails(Remaining, C), \A q \in C : -q \in assigns,
         Len(trail) > 1 => \E q \in C : -q \in DeepOf(trail)
  PROVE  SatInv'
  <1> DEFINE rem == Remaining
  <1>1. Typed /\ Phases /\ SeenRight /\ StackRight(trail, assigns, reason, clause, rtrail, rem)
    BY SatParts
  <1>2. /\ given \in DOMAIN Runs
        /\ pc \in Phase /\ loaded \in 0 .. Len(Problem)
        /\ learnts \subseteq 1..MaxClause /\ watches \in [Lit -> SUBSET WatchElem]
        /\ qhead \in Seq(Nat) /\ Len(qhead) = Len(trail)
        /\ seen \subseteq Var
        /\ solutions \in Nat /\ budget \in Int /\ found \subseteq SUBSET Lit /\ an \in Analysis
        /\ rem \in SUBSET Models
    BY <1>1, TypedNow
  <1>3. trail \in Seq(Seq(Lit)) /\ Len(trail) > 0 /\ Len(trail) \in Nat
    BY LastPlaces DEF StackTyped
  <1>4. pc = "propagate"
    BY DEF Propagating
  <1>6. Remaining' = rem
    BY SameRemaining
  <1> HIDE DEF rem
  <1>7. Typed'
    BY <1>2, TypedNext
  <1>8. SeenRight'
    <2>1. OffTrail(trail', assigns') = OffTrail(trail, assigns)
      OBVIOUS
    <2> QED
      BY <2>1, <1>1, <1>4, SeenNext
  <1>9. ConflictRight'
    <2>1. ASSUME Len(trail) = 1 PROVE rem = {}
      <3>1. \A m \in rem : assigns \subseteq m
        BY <1>1, <2>1, OneLevel
      <3> QED
        BY <3>1, <1>2, RootFalse DEF rem
    <2>2. Nogood(trail, reason, rem, C)
      BY <1>1, <1>2, PlainNogood DEF rem, StackRight
    <2>3. Nogood(trail, reason, Remaining, ConflictLits)'
      <3>1. Hidden' = Hidden
        BY Carried
      <3> QED
        BY <2>2, <3>1, <1>6 DEF Nogood, HoldsIn
    <2>4. decisionLevel' = Len(trail) - 1 /\ Deep' = DeepOf(trail)
      BY DEF decisionLevel, Deep
    <2>5. \A q \in ConflictLits' : (isFalse(q))'
      BY DEF isFalse
    <2>6. (ConflictLits \subseteq Lit /\ \A q \in ConflictLits : isFalse(q))'
      <3>1. Lit' = Lit
        BY Carried
      <3> QED
        BY <3>1, <2>5
    <2>7. decisionLevel' > 0 => (\E q \in ConflictLits : -q \in Deep)'
      BY <2>4, <1>3
    <2> QED
      BY <2>1, <2>3, <2>4, <2>6, <2>7, <1>3, <1>4, <1>6 DEF ConflictRight
  <1>10. /\ StackRight(trail', assigns', reason', clause', rtrail', rem)
         /\ StoreRight(clause', watches', learnts', rtrail', rem)
    BY DEF rem
  <1> QED
    BY <1>4, <1>6, <1>7, <1>8, <1>9, <1>10, Settled

LEMMA absorbedBinaryKeeps ==
  ASSUME SatInv, absorbedBinary, given' = given
  PROVE  SatInv'
  <1> DEFINE rem == Remaining
  <1>1. /\ Typed /\ Phases
        /\ StackRight(trail, assigns, reason, clause, rtrail, rem)
        /\ StoreRight(clause, watches, learnts, rtrail, rem)
    BY SatParts
  <1>2. /\ given \in DOMAIN Runs /\ StackTyped(trail, assigns, reason, clause, rtrail)
        /\ DOMAIN clause \subseteq 1..MaxClause /\ todo \subseteq WatchElem
        /\ qhead \in Seq(Nat) /\ Len(qhead) = Len(trail)
    BY <1>1, TypedNow
  <1>3. PICK e \in todo :
          /\ Propagating /\ e[1] = "bin"
          /\ \/ isTrue(e[2]) /\ todo' = todo \ {e} /\ UNCHANGED <<stack, confl>>
             \/ isUndef(e[2]) /\ enqueue(e[2], <<"lits", {-current}>>) /\ todo' = todo \ {e} /\ UNCHANGED confl
             \/ isFalse(e[2]) /\ clash(<<"lits", {e[2], -current}>>)
          /\ UNCHANGED <<pc, db, seen, an, budget, solutions, found>>
    BY DEF absorbedBinary
  <1> DEFINE q == e[2]
             x == -current
  <1>4. UNCHANGED <<pc, clause, loaded, learnts, watches, seen, an, budget, solutions, found>>
    BY <1>3 DEF db
  <1>5. e \in WatchElem /\ WatchRight(clause, rtrail, rem, current, e)
    BY <1>1, <1>2 DEF Phases
  <1>6. Entails(rem, {x, q}) /\ var(q) \notin Hidden
    BY <1>3, <1>5 DEF WatchRight, Learnable, vars_of
  <1>7. q \in Lit
    BY <1>3, <1>5 DEF WatchElem
  <1>8. x \in Lit /\ -x \in assigns /\ (Len(trail) > 1 => -x \in DeepOf(trail))
    BY <1>1, CurrentTrue DEF StackRight
  <1>9. trail \in Seq(Seq(Lit)) /\ Len(trail) > 0
    BY <1>2 DEF StackTyped
  <1> HIDE DEF q, x
  <1>10. CASE isTrue(q) /\ todo' = todo \ {e} /\ UNCHANGED <<stack, confl>>
    <2>1. UNCHANGED <<assigns, trail, qhead, rtrail, reason, confl>>
      BY <1>10 DEF stack
    <2>2. Remaining' = rem
      BY <1>4, SameRemaining
    <2>3. /\ pc \in Phase /\ loaded \in 0 .. Len(Problem)
          /\ learnts \subseteq 1..MaxClause /\ watches \in [Lit -> SUBSET WatchElem]
          /\ confl \in Reason /\ seen \subseteq Var
          /\ solutions \in Nat /\ budget \in Int /\ found \subseteq SUBSET Lit /\ an \in Analysis
      BY <1>1, TypedNow
    <2>4. pc = "propagate" /\ confl = NoReason
      BY <1>3 DEF Propagating
    <2>5. Typed'
      <3>1. todo' \subseteq WatchElem
        BY <1>2, <1>10
      <3> QED
        BY <3>1, <2>1, <2>3, <1>2, <1>4, TypedNext
    <2>6. SeenRight' /\ ConflictRight'
      <3>1. OffTrail(trail', assigns') = OffTrail(trail, assigns) /\ SeenRight
        BY <2>1, SatParts
      <3> QED
        BY <3>1, <2>1, <2>4, <1>4, SeenNext, NoConflict
    <2>7. todo' # {} => Last(qhead') \in DOMAIN Last(trail')
      BY <2>1, <1>1, <1>10 DEF Phases, Last
    <2>8. \A d \in todo' : WatchRight(clause', rtrail', rem, Last(trail')[Last(qhead')], d)
      BY <2>1, <1>1, <1>4, <1>10 DEF Phases, Last, current
    <2>9. /\ StackRight(trail', assigns', reason', clause', rtrail', rem)
          /\ StoreRight(clause', watches', learnts', rtrail', rem)
      BY <2>1, <1>1, <1>4
    <2> HIDE DEF rem
    <2> QED
      BY <2>1, <2>2, <2>4, <2>5, <2>6, <2>7, <2>8, <2>9, <1>4, Settled
  <1>11. CASE isUndef(q) /\ enqueue(q, <<"lits", {x}>>) /\ todo' = todo \ {e} /\ UNCHANGED confl
    <2> DEFINE r == <<"lits", {x}>>
    <2>1. /\ trail' = Pushed(trail, q) /\ assigns' = assigns \cup {q}
          /\ reason' = [reason EXCEPT ![var(q)] = r] /\ qhead' = qhead /\ rtrail' = rtrail
      BY <1>11, enqueueNow
    <2>2. r \in Reason /\ r # NoReason /\ r[1] # "clause" /\ ExplanationIn(clause, r) = {x}
      BY <1>8 DEF Reason, NoReason, ExplanationIn
    <2>3. {q} \cup ExplanationIn(clause, r) = {x, q}
      BY <2>2
    <2>4. \A d \in todo' : WatchRight(clause', rtrail', rem, current, d)
      BY <2>1, <1>1, <1>4, <1>11 DEF Phases
    <2>5. todo' \subseteq todo
      BY <1>11
    <2>6. UNCHANGED <<pc, loaded, learnts, watches, qhead, confl, seen, an, budget, solutions, found>>
      BY <2>1, <1>4, <1>11
    <2>7. Propagating /\ isUndef(q)
      BY <1>3, <1>11
    <2>8. /\ ExplanationIn(clause', r) \subseteq Lit /\ \A y \in ExplanationIn(clause', r) : -y \in assigns
          /\ Entails(rem, {q} \cup ExplanationIn(clause', r))
      BY <2>2, <2>3, <1>4, <1>6, <1>8
    <2>9. /\ StackTyped(trail, assigns, reason, clause', rtrail') /\ DOMAIN clause' \subseteq 1..MaxClause
          /\ StackRight(trail, assigns, reason, clause', rtrail', rem)
          /\ StoreRight(clause', watches, learnts, rtrail', rem)
      BY <2>1, <1>1, <1>2, <1>4
    <2> HIDE DEF r
    <2> QED
      BY <2>1, <2>2, <2>4, <2>5, <2>6, <2>7, <2>8, <2>9, <1>6, <1>7, EnqueueKeeps
  <1>12. CASE isFalse(q) /\ clash(<<"lits", {q, x}>>)
    <2> DEFINE r == <<"lits", {q, x}>>
    <2>1. /\ confl' = r /\ todo' = {}
          /\ qhead' = [qhead EXCEPT ![Len(qhead)] = Len(Last(trail))]
          /\ UNCHANGED <<assigns, trail, rtrail, reason>>
      BY <1>12 DEF clash
    <2>2. r \in Reason /\ r[1] # "clause" /\ ConflictLits' = {x, q}
      BY <2>1, <1>7, <1>8 DEF Reason, ConflictLits
    <2>3. qhead' \in Seq(Nat) /\ Len(qhead') = Len(qhead)
      BY <2>1, <1>2, <1>9, LastPlaces, QheadSet
    <2>4. {x, q} \in SUBSET Lit /\ \A y \in {x, q} : -y \in assigns
      BY <1>7, <1>8, <1>12 DEF isFalse
    <2>5. Len(trail) > 1 => \E y \in {x, q} : -y \in DeepOf(trail)
      BY <1>8
    <2>6. /\ StackTyped(trail, assigns, reason, clause', rtrail') /\ DOMAIN clause' \subseteq 1..MaxClause
          /\ StackRight(trail, assigns, reason, clause', rtrail', rem)
          /\ StoreRight(clause', watches, learnts, rtrail', rem)
      BY <2>1, <1>1, <1>2, <1>4
    <2>7. UNCHANGED <<pc, loaded, learnts, watches, assigns, trail, reason, seen, an, budget, solutions, found>>
      BY <2>1, <1>4
    <2> HIDE DEF r
    <2> QED
      BY <2>1, <2>2, <2>3, <2>4, <2>5, <2>6, <2>7, <1>3, <1>6, ConflictKeeps
  <1> QED
    BY <1>3, <1>10, <1>11, <1>12 DEF q, x

-----------------------------------------------------------------------------
(* Watched clauses. *)

(* A watch element is done with: nothing is enqueued. *)
LEMMA TodoKeeps ==
  ASSUME SatInv, given' = given, Propagating,
         UNCHANGED <<pc, loaded, learnts, stack, confl, seen, an, budget, solutions, found>>,
         DOMAIN clause' = DOMAIN clause, clause' \in [DOMAIN clause' -> ClauseObject],
         watches' \in [Lit -> SUBSET WatchElem],
         StackRight(trail, assigns, reason, clause', rtrail, Remaining),
         StoreRight(clause', watches', learnts, rtrail, Remaining),
         todo' \subseteq todo, \A e \in todo' : WatchRight(clause', rtrail, Remaining, current, e)
  PROVE  SatInv'
  <1> DEFINE rem == Remaining
  <1>1. Typed /\ Phases /\ SeenRight
    BY SatParts
  <1>2. /\ given \in DOMAIN Runs /\ StackTyped(trail, assigns, reason, clause, rtrail)
        /\ DOMAIN clause \subseteq 1..MaxClause /\ todo \subseteq WatchElem
        /\ qhead \in Seq(Nat) /\ Len(qhead) = Len(trail)
        /\ pc \in Phase /\ loaded \in 0 .. Len(Problem) /\ learnts \subseteq 1..MaxClause
        /\ confl \in Reason /\ seen \subseteq Var
        /\ solutions \in Nat /\ budget \in Int /\ found \subseteq SUBSET Lit /\ an \in Analysis
    BY <1>1, TypedNow
  <1>3. UNCHANGED <<assigns, trail, qhead, rtrail, reason>>
    BY DEF stack
  <1>4. Remaining' = rem
    BY SameRemaining
  <1>5. pc = "propagate" /\ confl = NoReason
    BY DEF Propagating
  <1>6. Typed'
    <2>1. todo' \subseteq WatchElem
      BY <1>2
    <2>2. StackTyped(trail', assigns', reason', clause', rtrail')
      BY <1>2, <1>3 DEF StackTyped
    <2> QED
      BY <2>1, <2>2, <1>2, <1>3, TypedNext
  <1>7. SeenRight' /\ ConflictRight'
    <2>1. OffTrail(trail', assigns') = OffTrail(trail, assigns)
      BY <1>3
    <2> QED
      BY <2>1, <1>1, <1>3, <1>5, SeenNext, NoConflict
  <1>8. todo' # {} => Last(qhead') \in DOMAIN Last(trail')
    BY <1>1, <1>3 DEF Phases, Last
  <1>9. \A e \in todo' : WatchRight(clause', rtrail', rem, Last(trail')[Last(qhead')], e)
    BY <1>3 DEF Last, current
  <1>10. /\ StackRight(trail', assigns', reason', clause', rtrail', rem)
         /\ StoreRight(clause', watches', learnts', rtrail', rem)
    BY <1>3
  <1> HIDE DEF rem
  <1> QED
    BY <1>4, <1>5, <1>6, <1>7, <1>8, <1>9, <1>10, Settled

(* The literals of a clause change places. *)
LEMMA StoreRearrange ==
  ASSUME NEW M, NEW W, NEW ls, NEW rt, NEW rem, StoreRight(M, W, ls, rt, rem),
         NEW i \in DOMAIN M, NEW c, c.temp = M[i].temp, Lits(c) = Lits(M[i]), NEW W1,
         \A l \in Lit : \A e \in W1[l] : WatchRight([M EXCEPT ![i] = c], rt, rem, l, e)
  PROVE  StoreRight([M EXCEPT ![i] = c], W1, ls, rt, rem)
  <1> DEFINE M1 == [M EXCEPT ![i] = c]
  <1>1. DOMAIN M1 = DOMAIN M /\ \A j \in DOMAIN M : M1[j].temp = M[j].temp /\ Lits(M1[j]) = Lits(M[j])
    OBVIOUS
  <1>2. \A l \in Lit : \A e \in W1[l] : WatchRight(M1, rt, rem, l, e)
    OBVIOUS
  <1> HIDE DEF M1
  <1>3. StoreRight(M1, W1, ls, rt, rem)
    BY <1>1, <1>2 DEF StoreRight, Kept
  <1> QED
    BY <1>3 DEF M1

(* A clause whose watches are not true is not a reason; it may be rearranged. *)
LEMMA StackRearrange ==
  ASSUME NEW t, NEW a, NEW R, NEW M, NEW rt, NEW rem, StackTyped(t, a, R, M, rt),
         StackRight(t, a, R, M, rt, rem),
         NEW i \in DOMAIN M, ~ M[i].temp, M[i].c0 \notin a, NEW c
  PROVE  StackRight(t, a, R, [M EXCEPT ![i] = c], rt, rem)
  <1> DEFINE M1 == [M EXCEPT ![i] = c]
  <1>1. DOMAIN M1 = DOMAIN M /\ \A j \in DOMAIN M : j # i => M1[j] = M[j]
    OBVIOUS
  <1> HIDE DEF M1
  <1>2. ReasonsKept(t, t, R, M, rt, M1, rt)
    <2> SUFFICES ASSUME NEW l \in 2 .. Len(t), NEW k \in 2 .. Len(t[l]), NEW s,
                        Lasts(M, rt, s, l), M[s].temp \/ M[s].c0 = t[l][k]
                 PROVE  /\ Lasts(M1, rt, s, l) /\ (M1[s].temp \/ M1[s].c0 = t[l][k])
                        /\ Rest(M1[s]) = Rest(M[s])
      BY DEF ReasonsKept
    <2>1. t[l][k] \in a
      <3>1. t \in Seq(Seq(Lit)) /\ TrailRight(t, a)
        BY DEF StackTyped, StackRight
      <3>2. l \in 1 .. Len(t) /\ DOMAIN t = 1 .. Len(t)
        BY <3>1, Places
      <3>3. k \in DOMAIN t[l]
        BY <3>1, <3>2, Places
      <3> QED
        BY <3>1, <3>2, <3>3 DEF TrailRight
    <2>2. s # i
      BY <2>1
    <2> QED
      BY <2>2, <1>1 DEF Lasts
  <1>3. StackRight(t, a, R, M1, rt, rem)
    BY <1>2, StackMemory
  <1> QED
    BY <1>3 DEF M1

LEMMA SwappedFacts ==
  ASSUME given \in DOMAIN Runs, NEW c \in ClauseObject, -current \in {c.c0, c.c1}, c.c0 # 0, c.c1 # 0
  PROVE  /\ Swapped(c) \in ClauseObject /\ Swapped(c).c1 = -current
         /\ Swapped(c).temp = c.temp /\ Swapped(c).rest = c.rest /\ c.rest \subseteq Lit
         /\ {Swapped(c).c0, Swapped(c).c1} = {c.c0, c.c1} /\ Lits(Swapped(c)) = Lits(c)
         /\ Swapped(c).c0 \in Lit /\ Swapped(c).c1 \in Lit
         /\ Lits(c) = {Swapped(c).c0} \cup Rest(Swapped(c))
         /\ Rest(Swapped(c)) = {Swapped(c).c1} \cup c.rest
  <1>1. /\ c.c0 \in Lit /\ c.c1 \in Lit /\ c.rest \subseteq Lit
        /\ c = [c0 |-> c.c0, c1 |-> c.c1, rest |-> c.rest, learnt |-> c.learnt, temp |-> c.temp]
        /\ c.learnt \in BOOLEAN /\ c.temp \in BOOLEAN
    BY DEF ClauseObject
  <1>2. 0 \notin Lit
    BY LitFacts
  <1>3. CASE c.c0 = -current
    <2>1. Swapped(c) = [c EXCEPT !.c0 = c.c1, !.c1 = c.c0]
      BY <1>3 DEF Swapped
    <2>2. /\ Swapped(c).c0 = c.c1 /\ Swapped(c).c1 = c.c0 /\ Swapped(c).rest = c.rest
          /\ Swapped(c).temp = c.temp /\ Swapped(c) \in ClauseObject
      BY <2>1, <1>1 DEF ClauseObject
    <2> QED
      BY <2>2, <1>1, <1>2, <1>3 DEF Lits, Rest
  <1>4. CASE c.c0 # -current
    <2>1. Swapped(c) = c
      BY <1>4 DEF Swapped
    <2> QED
      BY <2>1, <1>1, <1>2, <1>4 DEF Lits, Rest
  <1> QED
    BY <1>3, <1>4

LEMMA watchedClauseKeeps ==
  ASSUME SatInv, watchedClause, given' = given
  PROVE  SatInv'
  <1> DEFINE rem == Remaining
             M == clause
  <1>1. /\ Typed /\ Phases
        /\ StackRight(trail, assigns, reason, M, rtrail, rem)
        /\ StoreRight(M, watches, learnts, rtrail, rem)
    BY SatParts
  <1>2. /\ given \in DOMAIN Runs /\ StackTyped(trail, assigns, reason, M, rtrail)
        /\ DOMAIN M \subseteq 1..MaxClause /\ todo \subseteq WatchElem
        /\ qhead \in Seq(Nat) /\ Len(qhead) = Len(trail) /\ watches \in [Lit -> SUBSET WatchElem]
    BY <1>1, TypedNow
  <1>3. PICK e \in todo :
          /\ Propagating /\ e[1] = "clause"
          /\ LET i == e[2]
                 c == Swapped(clause[i])
             IN \/ /\ isTrue(c.c0) \/ isTrue(c.c1)
                   /\ todo' = todo \ {e}
                   /\ UNCHANGED <<clause, watches, stack, confl>>
                \/ /\ ~ isTrue(c.c0) /\ ~ isTrue(c.c1)
                   /\ \E l \in c.rest :
                        /\ ~ isFalse(l)
                        /\ clause' = [clause EXCEPT ![i] =
                             [c EXCEPT !.c1 = l, !.rest = (c.rest \ {l}) \cup {c.c1}]]
                        /\ watches' = [watches EXCEPT ![current] = @ \ {e}, ![-l] = @ \cup {e}]
                   /\ todo' = todo \ {e}
                   /\ UNCHANGED <<stack, confl>>
                \/ /\ ~ isTrue(c.c0) /\ ~ isTrue(c.c1)
                   /\ \A l \in c.rest : isFalse(l)
                   /\ clause' = [clause EXCEPT ![i] = c]
                   /\ \/ isFalse(c.c0) /\ clash(<<"clause", i>>)
                      \/ ~ isFalse(c.c0) /\ enqueue(c.c0, <<"clause", i>>) /\ todo' = todo \ {e}
                         /\ UNCHANGED confl
                   /\ UNCHANGED watches
          /\ UNCHANGED <<pc, loaded, learnts, seen, an, budget, solutions, found>>
    BY DEF watchedClause
  <1> DEFINE i == e[2]
             c == Swapped(M[i])
             x == -current
  <1>4. /\ e \in WatchElem /\ WatchRight(M, rtrail, rem, current, e) /\ e = <<"clause", i>>
        /\ i \in 1..MaxClause
    <2>1. e \in WatchElem /\ WatchRight(M, rtrail, rem, current, e)
      BY <1>1, <1>2 DEF Phases
    <2>2. e \in {"clause"} \X (1..MaxClause)
      BY <2>1, <1>3 DEF WatchElem
    <2> QED
      BY <2>1, <2>2
  <1>5. Kept(M, rtrail, i) /\ M[i].c0 # 0 /\ M[i].c1 # 0 /\ x \in {M[i].c0, M[i].c1}
    BY <1>3, <1>4 DEF WatchRight
  <1>6. i \in DOMAIN M /\ ~ M[i].temp /\ M[i] \in ClauseObject
    BY <1>5, <1>2 DEF Kept, StackTyped
  <1>7. current \in assigns /\ current \in Lit /\ x \in Lit /\ -x = current
        /\ (Len(trail) > 1 => current \in DeepOf(trail))
    BY <1>1, CurrentTrue DEF StackRight
  <1>8. /\ c \in ClauseObject /\ c.c1 = x
        /\ c.temp = M[i].temp /\ c.rest = M[i].rest /\ M[i].rest \subseteq Lit
        /\ {c.c0, c.c1} = {M[i].c0, M[i].c1} /\ Lits(c) = Lits(M[i])
        /\ c.c0 \in Lit /\ c.c1 \in Lit
        /\ Lits(M[i]) = {c.c0} \cup Rest(c)
        /\ Rest(c) = {c.c1} \cup M[i].rest
    BY <1>2, <1>5, <1>6, SwappedFacts
  <1>9. trail \in Seq(Seq(Lit)) /\ Len(trail) > 0 /\ Len(rtrail) = Len(trail)
        /\ M \in [DOMAIN M -> ClauseObject]
    BY <1>2 DEF StackTyped
  <1>10. Propagating /\ UNCHANGED <<pc, loaded, learnts, seen, an, budget, solutions, found>>
    BY <1>3
  <1>11. ASSUME NEW c2, c2.temp = c.temp, NEW l \in Lit, NEW d \in WatchElem, d # e, WatchRight(M, rtrail, rem, l, d)
         PROVE  WatchRight([M EXCEPT ![i] = c2], rtrail, rem, l, d)
    <2>1. CASE d[1] = "bin"
      BY <2>1, <1>11 DEF WatchRight
    <2>2. CASE d[1] # "bin"
      <3>1. d[1] = "clause" /\ d[2] # i
        BY <2>2, <1>4, <1>11 DEF WatchElem
      <3>2. [M EXCEPT ![i] = c2][d[2]] = M[d[2]] /\ DOMAIN [M EXCEPT ![i] = c2] = DOMAIN M
        BY <3>1, <1>11 DEF WatchRight, Kept
      <3> QED
        BY <3>1, <3>2, <1>11 DEF WatchRight, Kept
    <2> QED
      BY <2>1, <2>2
  <1>12. \A d \in todo : WatchRight(M, rtrail, rem, current, d)
    BY <1>1 DEF Phases
  <1>13. Entails(rem, Lits(M[i])) /\ Learnable(Lits(M[i]))
    BY <1>1, <1>6 DEF StoreRight
  <1> HIDE DEF i, c, x
  <1>14. CASE (isTrue(c.c0) \/ isTrue(c.c1)) /\ todo' = todo \ {e} /\ UNCHANGED <<clause, watches, stack, confl>>
    <2>1. UNCHANGED <<pc, loaded, learnts, stack, confl, seen, an, budget, solutions, found>>
      BY <1>10, <1>14
    <2>2. /\ DOMAIN clause' = DOMAIN clause /\ clause' \in [DOMAIN clause' -> ClauseObject]
          /\ watches' \in [Lit -> SUBSET WatchElem]
      BY <1>2, <1>9, <1>14
    <2>3. /\ StackRight(trail, assigns, reason, clause', rtrail, rem)
          /\ StoreRight(clause', watches', learnts, rtrail, rem)
          /\ todo' \subseteq todo /\ \A d \in todo' : WatchRight(clause', rtrail, rem, current, d)
      BY <1>1, <1>12, <1>14
    <2> QED
      BY <2>1, <2>2, <2>3, <1>10, TodoKeeps
  <1>15. ASSUME ~ isTrue(c.c0), ~ isTrue(c.c1)
         PROVE  \A c2 : StackRight(trail, assigns, reason, [M EXCEPT ![i] = c2], rtrail, rem)
    <2>1. M[i].c0 \notin assigns
      BY <1>8, <1>15 DEF isTrue
    <2> QED
      BY <2>1, <1>1, <1>2, <1>6, StackRearrange
  <1>16. ASSUME ~ isTrue(c.c0), ~ isTrue(c.c1), NEW l \in c.rest, ~ isFalse(l),
                clause' = [clause EXCEPT ![i] = [c EXCEPT !.c1 = l, !.rest = (c.rest \ {l}) \cup {c.c1}]],
                watches' = [watches EXCEPT ![current] = @ \ {e}, ![-l] = @ \cup {e}],
                todo' = todo \ {e}, UNCHANGED <<stack, confl>>
         PROVE  SatInv'
    <2> DEFINE c2 == [c EXCEPT !.c1 = l, !.rest = (c.rest \ {l}) \cup {c.c1}]
               M1 == [M EXCEPT ![i] = c2]
    <2>1. l \in Lit /\ l # 0 /\ -l \in Lit /\ -(-l) = l
      BY <1>2, <1>8, <1>16, LitFacts
    <2>2. /\ c2 \in ClauseObject /\ c2.c0 = c.c0 /\ c2.c1 = l /\ c2.temp = c.temp
          /\ c2.rest = (c.rest \ {l}) \cup {c.c1}
      <3>1. (c.rest \ {l}) \cup {c.c1} \subseteq Lit
        BY <1>8
      <3> QED
        BY <3>1, <2>1, <1>8 DEF ClauseObject
    <2>3. Lits(c2) = Lits(M[i])
      <3>1. Lits(c2) = ({c.c0, l} \cup ((c.rest \ {l}) \cup {c.c1})) \ {0}
        BY <2>2 DEF Lits
      <3>2. {c.c0, l} \cup ((c.rest \ {l}) \cup {c.c1}) = {c.c0, c.c1} \cup c.rest
        BY <1>16
      <3> QED
        BY <3>1, <3>2, <1>8 DEF Lits
    <2>4. -l # current
      BY <1>7, <1>16 DEF isFalse
    <2> HIDE DEF c2
    <2>5. M1 = [M EXCEPT ![i] = c2] /\ DOMAIN M1 = DOMAIN M /\ M1[i] = c2 /\ M1 \in [DOMAIN M1 -> ClauseObject]
      BY <2>2, <1>6, <1>9
    <2>6. \A k \in Lit : \A d \in watches'[k] : WatchRight(M1, rtrail, rem, k, d)
      <3> SUFFICES ASSUME NEW k \in Lit, NEW d \in watches'[k] PROVE WatchRight(M1, rtrail, rem, k, d)
        OBVIOUS
      <3>1. CASE d = e
        <4>1. k # current
          <5> SUFFICES ASSUME k = current PROVE FALSE
            OBVIOUS
          <5>1. watches'[current] = watches[current] \ {e}
            BY <2>1, <2>4, <1>2, <1>7, <1>16
          <5> QED
            BY <5>1, <3>1
        <4>2. k # -l => WatchRight(M, rtrail, rem, k, e)
          <5> SUFFICES ASSUME k # -l PROVE WatchRight(M, rtrail, rem, k, e)
            OBVIOUS
          <5>1. watches'[k] = watches[k]
            BY <4>1, <1>2, <1>16
          <5> QED
            BY <5>1, <3>1, <1>1 DEF StoreRight
        <4>3. -k = c2.c0 \/ -k = c2.c1
          <5>1. CASE k = -l
            BY <5>1, <2>1, <2>2
          <5>2. CASE k # -l
            <6>1. -k \in {M[i].c0, M[i].c1}
              BY <5>2, <4>2, <1>4 DEF WatchRight
            <6>2. -k # x
              <7>1. -(-k) = k
                BY <1>2, LitFacts
              <7> QED
                BY <7>1, <4>1, <1>7
            <6> QED
              BY <6>1, <6>2, <2>2, <1>8
          <5> QED
            BY <5>1, <5>2
        <4>4. c2.c0 # 0 /\ c2.c1 # 0
          BY <2>1, <2>2, <1>2, <1>8, LitFacts
        <4>5. Kept(M1, rtrail, i)
          BY <2>2, <2>5, <1>5, <1>8 DEF Kept
        <4> HIDE DEF M1
        <4> QED
          BY <4>3, <4>4, <4>5, <3>1, <2>5, <1>4 DEF WatchRight
      <3>2. CASE d # e
        <4>1. d \in watches[k]
          <5>1. CASE k = current
            BY <5>1, <2>1, <2>4, <1>2, <1>7, <1>16
          <5>2. CASE k # current /\ k = -l
            BY <5>2, <3>2, <2>1, <1>2, <1>7, <1>16
          <5>3. CASE k # current /\ k # -l
            BY <5>3, <2>1, <1>2, <1>7, <1>16
          <5> QED
            BY <5>1, <5>2, <5>3
        <4>2. WatchRight(M, rtrail, rem, k, d) /\ d \in WatchElem
          BY <4>1, <1>1, <1>2 DEF StoreRight
        <4> QED
          BY <4>2, <3>2, <2>2, <1>11 DEF i, c
      <3> QED
        BY <3>1, <3>2
    <2>7. StoreRight(M1, watches', learnts, rtrail, rem)
      BY <2>2, <2>3, <2>6, <1>1, <1>6, <1>8, StoreRearrange
    <2>8. StackRight(trail, assigns, reason, M1, rtrail, rem)
      BY <1>15, <1>16
    <2>9. clause' = M1
      BY <1>16 DEF c2
    <2>10. \A d \in todo' : WatchRight(M1, rtrail, rem, current, d)
      <3>1. \A d \in todo' : d # e /\ d \in WatchElem /\ WatchRight(M, rtrail, rem, current, d)
        BY <1>2, <1>12, <1>16
      <3> QED
        BY <3>1, <2>2, <1>7, <1>11 DEF i, c
    <2>11. watches' \in [Lit -> SUBSET WatchElem]
      BY <1>2, <1>4, <1>16
    <2>12. UNCHANGED <<pc, loaded, learnts, stack, confl, seen, an, budget, solutions, found>> /\ todo' \subseteq todo
      BY <1>10, <1>16
    <2> HIDE DEF M1
    <2> QED
      BY <2>5, <2>7, <2>8, <2>9, <2>10, <2>11, <2>12, <1>10, TodoKeeps
  <1>17. ASSUME ~ isTrue(c.c0), ~ isTrue(c.c1), \A l \in c.rest : isFalse(l), clause' = [clause EXCEPT ![i] = c],
                \/ isFalse(c.c0) /\ clash(<<"clause", i>>)
                \/ ~ isFalse(c.c0) /\ enqueue(c.c0, <<"clause", i>>) /\ todo' = todo \ {e} /\ UNCHANGED confl,
                UNCHANGED watches
         PROVE  SatInv'
    <2> DEFINE M1 == [M EXCEPT ![i] = c]
               r == <<"clause", i>>
    <2>1. /\ clause' = M1 /\ DOMAIN M1 = DOMAIN M /\ M1[i] = c /\ M1 \in [DOMAIN M1 -> ClauseObject]
          /\ DOMAIN M1 \subseteq 1..MaxClause
      BY <1>2, <1>6, <1>8, <1>9, <1>17
    <2>2. ASSUME NEW l \in Lit, NEW d \in WatchElem, WatchRight(M, rtrail, rem, l, d)
          PROVE  WatchRight(M1, rtrail, rem, l, d)
      <3>1. CASE d = e
        <4>1. -l \in {c.c0, c.c1} /\ c.c0 # 0 /\ c.c1 # 0
          BY <3>1, <2>2, <1>4, <1>5, <1>8 DEF WatchRight
        <4>2. Kept(M1, rtrail, i)
          BY <2>1, <1>5, <1>8 DEF Kept
        <4> HIDE DEF M1
        <4> QED
          BY <4>1, <4>2, <3>1, <2>1, <1>4 DEF WatchRight
      <3>2. CASE d # e
        BY <3>2, <2>2, <1>11 DEF i, c
      <3> QED
        BY <3>1, <3>2
    <2>3. StoreRight(M1, watches, learnts, rtrail, rem)
      <3>1. \A l \in Lit : \A d \in watches[l] : WatchRight(M1, rtrail, rem, l, d)
        BY <2>2, <1>1, <1>2 DEF StoreRight
      <3> QED
        BY <3>1, <1>1, <1>6, <1>8, StoreRearrange
    <2>4. StackRight(trail, assigns, reason, M1, rtrail, rem)
      BY <1>15, <1>17
    <2>5. StackTyped(trail, assigns, reason, M1, rtrail)
      BY <2>1, <1>2 DEF StackTyped
    <2>6. \A q \in Rest(c) : -q \in assigns
      <3>1. -c.c1 \in assigns
        BY <1>7, <1>8
      <3> QED
        BY <3>1, <1>8, <1>17 DEF isFalse
    <2>7. \A d \in todo : WatchRight(M1, rtrail, rem, current, d)
      BY <2>2, <1>2, <1>7, <1>12
    <2>8. r \in Reason /\ r # NoReason /\ r[1] = "clause" /\ r[2] = i
      BY <1>4 DEF Reason, NoReason
    <2>9. Kept(M1, rtrail, i)
      BY <2>1, <1>5, <1>8 DEF Kept
    <2> HIDE DEF M1, r
    <2>10. CASE isFalse(c.c0) /\ clash(<<"clause", i>>)
      <3>1. /\ confl' = r /\ todo' = {}
            /\ qhead' = [qhead EXCEPT ![Len(qhead)] = Len(Last(trail))]
            /\ UNCHANGED <<assigns, trail, rtrail, reason>>
        BY <2>10 DEF clash, r
      <3>2. qhead' \in Seq(Nat) /\ Len(qhead') = Len(qhead)
        BY <3>1, <1>2, <1>9, LastPlaces, QheadSet
      <3>3. ConflictLits' = Lits(c)
        BY <3>1, <2>1, <2>8 DEF ConflictLits
      <3>4. /\ Lits(c) \in SUBSET Lit /\ Entails(rem, Lits(c)) /\ \A q \in Lits(c) : -q \in assigns
        BY <2>6, <2>10, <1>8, <1>13 DEF isFalse
      <3>5. Len(trail) > 1 => \E q \in Lits(c) : -q \in DeepOf(trail)
        BY <1>7, <1>8
      <3>6. /\ UNCHANGED <<pc, loaded, learnts, watches, assigns, trail, reason, seen, an, budget, solutions, found>>
            /\ rtrail' = rtrail
        BY <3>1, <1>10, <1>17
      <3>7. /\ StackTyped(trail, assigns, reason, clause', rtrail') /\ DOMAIN clause' \subseteq 1..MaxClause
            /\ StackRight(trail, assigns, reason, clause', rtrail', rem)
            /\ StoreRight(clause', watches, learnts, rtrail', rem)
        BY <3>6, <2>1, <2>3, <2>4, <2>5
      <3>8. confl' \in Reason /\ confl'[2] \in DOMAIN clause' /\ Kept(clause', rtrail', confl'[2])
        BY <3>1, <3>6, <2>1, <2>8, <2>9, <1>6
      <3> QED
        BY <3>1, <3>2, <3>3, <3>4, <3>5, <3>6, <3>7, <3>8, <1>10, ConflictKeeps
    <2>11. CASE ~ isFalse(c.c0) /\ enqueue(c.c0, <<"clause", i>>) /\ todo' = todo \ {e} /\ UNCHANGED confl
      <3> DEFINE p == c.c0
      <3>1. /\ trail' = Pushed(trail, p) /\ assigns' = assigns \cup {p}
            /\ reason' = [reason EXCEPT ![var(p)] = r] /\ qhead' = qhead /\ rtrail' = rtrail
        BY <2>11, enqueueNow DEF r
      <3>2. p \in Lit /\ isUndef(p) /\ var(p) \notin Hidden
        <4>1. p \in Lits(M[i])
          BY <1>8
        <4> QED
          BY <4>1, <2>11, <1>8, <1>13, <1>17 DEF isUndef, Learnable, vars_of
      <3>3. ExplanationIn(clause', r) = Rest(c)
        BY <2>1, <2>8, Explanations
      <3>4. /\ ExplanationIn(clause', r) \subseteq Lit /\ \A y \in ExplanationIn(clause', r) : -y \in assigns
            /\ Entails(rem, {p} \cup ExplanationIn(clause', r))
        BY <3>3, <2>6, <1>8, <1>13
      <3>5. r[1] = "clause" => Lasts(clause', rtrail', r[2], Len(trail)) /\ (clause'[r[2]].temp \/ clause'[r[2]].c0 = p)
        <4>1. Lasts(M1, rtrail, i, Len(trail))
          <5>1. Len(trail) \in Nat /\ rtrail \in Seq(SUBSET (1..MaxClause)) /\ Len(rtrail) = Len(trail)
            BY <1>2, <1>9, LastPlaces DEF StackTyped
          <5> QED
            BY <5>1, <2>9 DEF Lasts, Kept
        <4> QED
          BY <4>1, <3>1, <2>1, <2>8
      <3>6. UNCHANGED <<pc, loaded, learnts, watches, qhead, confl, seen, an, budget, solutions, found>>
        BY <3>1, <2>11, <1>10, <1>17
      <3>7. todo' \subseteq todo /\ \A d \in todo' : WatchRight(clause', rtrail', rem, current, d)
        BY <3>1, <2>1, <2>7, <2>11
      <3>8. /\ StackTyped(trail, assigns, reason, clause', rtrail') /\ DOMAIN clause' \subseteq 1..MaxClause
            /\ StackRight(trail, assigns, reason, clause', rtrail', rem)
            /\ StoreRight(clause', watches, learnts, rtrail', rem)
        BY <3>1, <2>1, <2>3, <2>4, <2>5
      <3> HIDE DEF p
      <3> QED
        BY <3>1, <3>2, <3>4, <3>5, <3>6, <3>7, <3>8, <2>8, <1>10, EnqueueKeeps
    <2> QED
      BY <2>10, <2>11, <1>17
  <1> QED
    BY <1>3, <1>14, <1>16, <1>17 DEF i, c

-----------------------------------------------------------------------------
(* FD propagators. *)

(* A temporary clause made now: nothing refers to it yet. *)
LEMMA TempMade ==
  ASSUME NEW t, NEW a, NEW R, NEW M, NEW rt, NEW rem, NEW W, NEW ls, StackTyped(t, a, R, M, rt),
         StackRight(t, a, R, M, rt, rem), StoreRight(M, W, ls, rt, rem),
         NEW s \in 1..MaxClause, s \notin DOMAIN M, NEW c \in ClauseObject, c.temp, NEW n \in DOMAIN rt
  PROVE  /\ StackTyped(t, a, R, With(M, s, c), [rt EXCEPT ![n] = @ \cup {s}])
         /\ StackRight(t, a, R, With(M, s, c), [rt EXCEPT ![n] = @ \cup {s}], rem)
         /\ StoreRight(With(M, s, c), W, ls, [rt EXCEPT ![n] = @ \cup {s}], rem)
  <1> DEFINE M1 == With(M, s, c)
             rt1 == [rt EXCEPT ![n] = @ \cup {s}]
  <1>1. /\ DOMAIN M1 = DOMAIN M \cup {s} /\ M1[s] = c
        /\ \A i \in DOMAIN M : i # s => M1[i] = M[i]
        /\ M \in [DOMAIN M -> ClauseObject] => M1 \in [DOMAIN M1 -> ClauseObject]
    <2>1. M \in [DOMAIN M -> ClauseObject] /\ c \in ClauseObject => M1 \in [DOMAIN M1 -> ClauseObject]
      BY DEF With
    <2>2. /\ DOMAIN M1 = DOMAIN M \cup {s} /\ M1[s] = c
          /\ \A i \in DOMAIN M : i # s => M1[i] = M[i]
      BY DEF With
    <2> QED
      BY <2>1, <2>2
  <1>2. rt \in Seq(SUBSET (1..MaxClause)) /\ Len(rt) = Len(t) /\ M \in [DOMAIN M -> ClauseObject]
    BY DEF StackTyped
  <1>3. rt1 \in Seq(SUBSET (1..MaxClause)) /\ Len(rt1) = Len(rt) /\ DOMAIN rt1 = DOMAIN rt
        /\ \A k \in DOMAIN rt : rt1[k] \subseteq rt[k] \cup {s}
    <2>1. rt[n] \cup {s} \in SUBSET (1..MaxClause)
      BY <1>2
    <2> QED
      BY <2>1, <1>2
  <1>4. StoreRight(M1, W, ls, rt1, rem)
    BY StoreTemp
  <1> HIDE DEF M1, rt1
  <1>5. StackTyped(t, a, R, M1, rt1)
    BY <1>1, <1>2, <1>3 DEF StackTyped
  <1>6. ReasonsKept(t, t, R, M, rt, M1, rt1)
    <2> SUFFICES ASSUME NEW l \in 2 .. Len(t), NEW k \in 2 .. Len(t[l]), NEW i,
                        Lasts(M, rt, i, l), M[i].temp \/ M[i].c0 = t[l][k]
                 PROVE  /\ Lasts(M1, rt1, i, l) /\ (M1[i].temp \/ M1[i].c0 = t[l][k])
                        /\ Rest(M1[i]) = Rest(M[i])
      BY DEF ReasonsKept
    <2>1. i \in DOMAIN M /\ \A j \in l + 1 .. Len(rt) : i \notin rt[j]
      BY DEF Lasts
    <2>2. M1[i] = M[i] /\ i # s /\ i \in DOMAIN M1
      BY <2>1, <1>1
    <2>3. \A j \in l + 1 .. Len(rt1) : i \notin rt1[j]
      <3>1. \A j \in l + 1 .. Len(rt) : j \in DOMAIN rt
        BY <1>2
      <3> QED
        BY <3>1, <2>1, <2>2, <1>3
    <2> QED
      BY <2>2, <2>3 DEF Lasts
  <1>7. StackRight(t, a, R, M1, rt1, rem)
    BY <1>6, StackMemory
  <1> QED
    BY <1>1, <1>4, <1>5, <1>7 DEF M1, rt1

(* What a propagator that holds says as a clause: a head or not the body. *)
LEMMA InferenceHolds ==
  ASSUME given \in DOMAIN Runs, NEW rem \in SUBSET Models, NEW k \in Inference
  PROVE  /\ \A h \in k.heads : Entails(rem, {h} \cup neg(k.body))
         /\ k.heads = {} => Entails(rem, neg(k.body))
         /\ neg(k.body) \subseteq Lit /\ 0 \notin neg(k.body) /\ k.body \subseteq Lit /\ k.heads \subseteq Lit
         /\ \A S \in SUBSET Lit : k.body \subseteq S => \A q \in neg(k.body) : -q \in S
  <1>1. k.body \subseteq Lit /\ k.heads \subseteq Lit
    BY RunFacts
  <1>2. neg(k.body) \subseteq Lit /\ \A l \in k.body : -l \in neg(k.body)
    BY <1>1, NegFacts
  <1>3. ASSUME NEW m \in rem, ~ (k.body \subseteq m) PROVE m \cap neg(k.body) # {}
    <2>1. PICK l \in k.body : l \notin m
      BY <1>3
    <2>2. l \in Lit /\ -l \in Lit /\ -(-l) = l
      BY <1>1, LitFacts
    <2>3. -l \in m
      BY <2>1, <2>2, ModelFacts
    <2> QED
      BY <2>3, <1>2
  <1>4. ASSUME NEW m \in rem, k.body \subseteq m PROVE k.heads # {} /\ k.heads \subseteq m
    BY <1>4, ModelFacts
  <1>5. ASSUME NEW S \in SUBSET Lit, k.body \subseteq S, NEW q \in neg(k.body) PROVE -q \in S
    BY <1>1, <1>2, <1>5, NegFacts
  <1>6. 0 \notin neg(k.body)
    BY <1>2, LitFacts
  <1>7. \A h \in k.heads : Entails(rem, {h} \cup neg(k.body))
    BY <1>3, <1>4 DEF Entails
  <1>8. k.heads = {} => Entails(rem, neg(k.body))
    BY <1>3, <1>4 DEF Entails
  <1> QED
    BY <1>1, <1>2, <1>5, <1>6, <1>7, <1>8

LEMMA inferKeeps ==
  ASSUME SatInv, infer, given' = given
  PROVE  SatInv'
  <1> DEFINE rem == Remaining
             M == clause
  <1>1. /\ Typed /\ Phases
        /\ StackRight(trail, assigns, reason, M, rtrail, rem)
        /\ StoreRight(M, watches, learnts, rtrail, rem)
    BY SatParts
  <1>2. /\ given \in DOMAIN Runs /\ StackTyped(trail, assigns, reason, M, rtrail)
        /\ DOMAIN M \subseteq 1..MaxClause /\ MaxClause \in Nat /\ rem \in SUBSET Models
    BY <1>1, TypedNow
  <1>3. /\ trail \in Seq(Seq(Lit)) /\ Len(trail) > 0 /\ assigns \in SUBSET Lit
        /\ rtrail \in Seq(SUBSET (1..MaxClause)) /\ Len(rtrail) = Len(trail)
    BY <1>2 DEF StackTyped
  <1>4. PICK k \in Inference : \E h \in k.heads :
          /\ Propagating /\ todo = {}
          /\ k.body \subseteq assigns /\ isUndef(h)
          /\ assigns' = assigns \cup {h}
          /\ trail' = [trail EXCEPT ![Len(trail)] = Append(@, h)]
          /\ \/ /\ k.kind = "eager" /\ Shared(k) = {}
                /\ Reason_new(0, neg(k.body))
                /\ reason' = [reason EXCEPT ![var(h)] = <<"clause", Slot>>]
             \/ /\ k.kind = "eager"
                /\ \E i \in Shared(k) : reason' = [reason EXCEPT ![var(h)] = <<"clause", i>>]
                /\ UNCHANGED <<clause, rtrail>>
             \/ /\ k.kind = "short"
                /\ reason' = [reason EXCEPT ![var(h)] = <<"lits", neg(k.body)>>]
                /\ UNCHANGED <<clause, rtrail>>
             \/ /\ k.kind = "lazy"
                /\ reason' = [reason EXCEPT ![var(h)] = <<"lazy", k>>]
                /\ UNCHANGED <<clause, rtrail>>
          /\ UNCHANGED <<pc, loaded, learnts, watches, qhead, confl, todo, seen, an, budget, solutions, found>>
    BY DEF infer
  <1>5. PICK h \in k.heads :
          /\ Propagating /\ todo = {}
          /\ k.body \subseteq assigns /\ isUndef(h)
          /\ assigns' = assigns \cup {h}
          /\ trail' = [trail EXCEPT ![Len(trail)] = Append(@, h)]
          /\ \/ /\ k.kind = "eager" /\ Shared(k) = {}
                /\ Reason_new(0, neg(k.body))
                /\ reason' = [reason EXCEPT ![var(h)] = <<"clause", Slot>>]
             \/ /\ k.kind = "eager"
                /\ \E i \in Shared(k) : reason' = [reason EXCEPT ![var(h)] = <<"clause", i>>]
                /\ UNCHANGED <<clause, rtrail>>
             \/ /\ k.kind = "short"
                /\ reason' = [reason EXCEPT ![var(h)] = <<"lits", neg(k.body)>>]
                /\ UNCHANGED <<clause, rtrail>>
             \/ /\ k.kind = "lazy"
                /\ reason' = [reason EXCEPT ![var(h)] = <<"lazy", k>>]
                /\ UNCHANGED <<clause, rtrail>>
          /\ UNCHANGED <<pc, loaded, learnts, watches, qhead, confl, todo, seen, an, budget, solutions, found>>
    BY <1>4
  <1> DEFINE N == neg(k.body)
  <1>6. /\ Entails(rem, {h} \cup N) /\ N \subseteq Lit /\ 0 \notin N
        /\ \A q \in N : -q \in assigns
    BY <1>2, <1>3, <1>5, InferenceHolds
  <1>7. h \in Lit
    BY <1>2, RunFacts
  <1>8. var(h) \in Hidden => k.kind = "short"
    BY <1>2, RunFacts
  <1>9. trail' = Pushed(trail, h) /\ todo' = {}
    BY <1>5 DEF Pushed
  <1>10. ASSUME NEW r \in Reason, r # NoReason, reason' = [reason EXCEPT ![var(h)] = r],
                ExplanationIn(clause', r) = N,
                r[1] = "clause" => Lasts(clause', rtrail', r[2], Len(trail)) /\ clause'[r[2]].temp,
                StackTyped(trail, assigns, reason, clause', rtrail'), DOMAIN clause' \subseteq 1..MaxClause,
                StackRight(trail, assigns, reason, clause', rtrail', rem),
                StoreRight(clause', watches, learnts, rtrail', rem),
                var(h) \in Hidden => r = <<"lits", N>>
         PROVE  SatInv'
    <2>1. todo' \subseteq todo /\ \A e \in todo' : WatchRight(clause', rtrail', rem, current, e)
      BY <1>9
    <2>2. var(h) \in Hidden => \E i \in Inference :
            h \in i.heads /\ i.body \subseteq assigns /\ r = <<"lits", neg(i.body)>>
      BY <1>5, <1>10
    <2>3. ExplanationIn(clause', r) \subseteq Lit /\ Entails(rem, {h} \cup ExplanationIn(clause', r))
          /\ \A q \in ExplanationIn(clause', r) : -q \in assigns
      BY <1>6, <1>10
    <2> HIDE DEF N
    <2> QED
      BY <2>1, <2>2, <2>3, <1>5, <1>7, <1>9, <1>10, EnqueueKeeps
  <1>11. ASSUME UNCHANGED <<clause, rtrail>>
         PROVE  /\ StackTyped(trail, assigns, reason, clause', rtrail') /\ DOMAIN clause' \subseteq 1..MaxClause
                /\ StackRight(trail, assigns, reason, clause', rtrail', rem)
                /\ StoreRight(clause', watches, learnts, rtrail', rem)
    BY <1>1, <1>2, <1>11
  <1> HIDE DEF N
  <1>12. CASE /\ k.kind = "eager" /\ Shared(k) = {}
              /\ Reason_new(0, neg(k.body))
              /\ reason' = [reason EXCEPT ![var(h)] = <<"clause", Slot>>]
    <2> DEFINE s == Slot
               r == <<"clause", s>>
               c == [c0 |-> 0, c1 |-> 0, rest |-> N, learnt |-> FALSE, temp |-> TRUE]
    <2>1. clause' = With(M, s, c) /\ rtrail' = [rtrail EXCEPT ![Len(rtrail)] = @ \cup {s}] /\ FreeIn(M) # {}
      BY <1>12 DEF Reason_new, Free, N
    <2>2. s \in 1..MaxClause /\ s \notin DOMAIN M
      BY <2>1, <1>2, SlotFacts DEF Slot
    <2>3. c \in ClauseObject /\ c.temp /\ Rest(c) = N
      BY <1>6 DEF ClauseObject, Rest
    <2>4. Len(rtrail) \in DOMAIN rtrail
      BY <1>3
    <2> HIDE DEF s, c
    <2>5. /\ StackTyped(trail, assigns, reason, clause', rtrail')
          /\ StackRight(trail, assigns, reason, clause', rtrail', rem)
          /\ StoreRight(clause', watches, learnts, rtrail', rem)
          /\ DOMAIN clause' = DOMAIN M \cup {s} /\ clause'[s] = c
      <3> DEFINE M1 == With(M, s, c)
                 n == Len(rtrail)
                 rt1 == [rtrail EXCEPT ![n] = @ \cup {s}]
      <3>1. /\ StackTyped(trail, assigns, reason, M1, rt1)
            /\ StackRight(trail, assigns, reason, M1, rt1, rem)
            /\ StoreRight(M1, watches, learnts, rt1, rem)
        <4>1. n \in DOMAIN rtrail
          BY <2>4
        <4>2. StackTyped(trail, assigns, reason, M, rtrail) /\ StackRight(trail, assigns, reason, M, rtrail, rem)
              /\ StoreRight(M, watches, learnts, rtrail, rem)
          BY <1>1, <1>2
        <4>3. s \in 1..MaxClause /\ s \notin DOMAIN M /\ c \in ClauseObject /\ c.temp
          BY <2>2, <2>3
        <4> HIDE DEF n, rem
        <4> QED
          BY <4>1, <4>2, <4>3, TempMade
      <3>2. clause' = M1 /\ rtrail' = rt1
        BY <2>1
      <3>3. DOMAIN M1 = DOMAIN M \cup {s} /\ M1[s] = c
        BY DEF With
      <3> HIDE DEF M1, rt1
      <3> QED
        BY <3>1, <3>2, <3>3
    <2>6. Lasts(clause', rtrail', s, Len(trail))
      <3>1. Len(rtrail') = Len(trail) /\ Len(trail) \in Nat
        BY <2>5, <1>3, LastPlaces DEF StackTyped
      <3> QED
        BY <3>1, <2>5 DEF Lasts
    <2>7. r \in Reason /\ r # NoReason /\ r[1] = "clause" /\ r[2] = s
      BY <2>2 DEF Reason, NoReason
    <2>8. reason' = [reason EXCEPT ![var(h)] = r]
      BY <1>12 DEF s
    <2> HIDE DEF r
    <2>9. ExplanationIn(clause', r) = N
      BY <2>3, <2>5, <2>7, Explanations
    <2>10. DOMAIN clause' \subseteq 1..MaxClause
      BY <2>2, <2>5, <1>2
    <2>11. var(h) \notin Hidden
      BY <1>8, <1>12
    <2> QED
      BY <2>3, <2>5, <2>6, <2>7, <2>8, <2>9, <2>10, <2>11, <1>10
  <1>13. ASSUME k.kind = "eager", NEW s \in Shared(k), reason' = [reason EXCEPT ![var(h)] = <<"clause", s>>],
                UNCHANGED <<clause, rtrail>>
         PROVE  SatInv'
    <2> DEFINE r == <<"clause", s>>
    <2>1. s \in rtrail[Len(rtrail)] /\ M[s].temp /\ M[s].c1 = 0 /\ M[s].rest = N
      BY DEF Shared, Last, N
    <2>2. s \in DOMAIN M /\ s \in 1..MaxClause
      BY <2>1, <1>1, <1>2, <1>3 DEF StoreRight
    <2>3. Rest(M[s]) = N
      BY <2>1, <1>6 DEF Rest
    <2>4. Lasts(M, rtrail, s, Len(trail))
      <3>1. Len(trail) \in Nat
        BY <1>3
      <3> QED
        BY <3>1, <2>2, <1>3 DEF Lasts
    <2>5. r \in Reason /\ r # NoReason /\ r[1] = "clause" /\ r[2] = s
      BY <2>2 DEF Reason, NoReason
    <2>6. reason' = [reason EXCEPT ![var(h)] = r]
      BY <1>13
    <2> HIDE DEF r
    <2>7. ExplanationIn(clause', r) = N
      BY <2>3, <2>5, <1>13, Explanations
    <2>8. var(h) \notin Hidden
      BY <1>8, <1>13
    <2>9. Lasts(clause', rtrail', r[2], Len(trail)) /\ clause'[r[2]].temp
      BY <2>1, <2>4, <2>5, <1>13
    <2> QED
      BY <2>5, <2>6, <2>7, <2>8, <2>9, <1>10, <1>11, <1>13
  <1>14. ASSUME NEW r \in Reason, r # NoReason, r[1] # "clause", ExplanationIn(M, r) = N,
                var(h) \in Hidden => r = <<"lits", N>>,
                reason' = [reason EXCEPT ![var(h)] = r], UNCHANGED <<clause, rtrail>>
         PROVE  SatInv'
    BY <1>10, <1>11, <1>14
  <1>15. CASE /\ k.kind = "short"
              /\ reason' = [reason EXCEPT ![var(h)] = <<"lits", neg(k.body)>>]
              /\ UNCHANGED <<clause, rtrail>>
    <2> DEFINE r == <<"lits", N>>
    <2>1. r \in Reason /\ r # NoReason /\ r[1] # "clause" /\ ExplanationIn(M, r) = N
      BY <1>6 DEF Reason, NoReason, ExplanationIn
    <2>2. reason' = [reason EXCEPT ![var(h)] = r]
      BY <1>15 DEF N
    <2> QED
      BY <2>1, <2>2, <1>14, <1>15
  <1>16. CASE /\ k.kind = "lazy"
              /\ reason' = [reason EXCEPT ![var(h)] = <<"lazy", k>>]
              /\ UNCHANGED <<clause, rtrail>>
    <2> DEFINE r == <<"lazy", k>>
    <2>1. r \in Reason /\ r # NoReason /\ r[1] # "clause" /\ ExplanationIn(M, r) = N
      BY DEF Reason, NoReason, ExplanationIn, N
    <2>2. reason' = [reason EXCEPT ![var(h)] = r]
      BY <1>16
    <2>3. var(h) \notin Hidden
      BY <1>8, <1>16
    <2> QED
      BY <2>1, <2>2, <2>3, <1>14, <1>16
  <1> QED
    BY <1>5, <1>12, <1>13, <1>15, <1>16

(* The first place of a temporary clause is written again. *)
LEMMA TempRewritten ==
  ASSUME NEW t, NEW a, NEW R, NEW M, NEW rt, NEW rem, NEW W, NEW ls, StackTyped(t, a, R, M, rt),
         StackRight(t, a, R, M, rt, rem), StoreRight(M, W, ls, rt, rem),
         NEW s \in DOMAIN M, M[s].temp, NEW c \in ClauseObject, c.temp, Rest(c) = Rest(M[s])
  PROVE  /\ StackTyped(t, a, R, [M EXCEPT ![s] = c], rt)
         /\ StackRight(t, a, R, [M EXCEPT ![s] = c], rt, rem)
         /\ StoreRight([M EXCEPT ![s] = c], W, ls, rt, rem)
  <1> DEFINE M1 == [M EXCEPT ![s] = c]
  <1>1. M \in [DOMAIN M -> ClauseObject]
    BY DEF StackTyped
  <1>2. /\ DOMAIN M1 = DOMAIN M /\ M1[s] = c /\ M1 \in [DOMAIN M1 -> ClauseObject]
        /\ \A i \in DOMAIN M : i # s => M1[i] = M[i]
    BY <1>1
  <1> HIDE DEF M1
  <1>3. StackTyped(t, a, R, M1, rt)
    BY <1>2 DEF StackTyped
  <1>4. ReasonsKept(t, t, R, M, rt, M1, rt)
    <2> SUFFICES ASSUME NEW l \in 2 .. Len(t), NEW k \in 2 .. Len(t[l]), NEW i,
                        Lasts(M, rt, i, l), M[i].temp \/ M[i].c0 = t[l][k]
                 PROVE  /\ Lasts(M1, rt, i, l) /\ (M1[i].temp \/ M1[i].c0 = t[l][k])
                        /\ Rest(M1[i]) = Rest(M[i])
      BY DEF ReasonsKept
    <2>1. i \in DOMAIN M
      BY DEF Lasts
    <2> QED
      BY <2>1, <1>2 DEF Lasts
  <1>5. StackRight(t, a, R, M1, rt, rem)
    BY <1>4, StackMemory
  <1>6. \A i \in DOMAIN M : M1[i].temp \/ M1[i] = M[i]
    BY <1>2
  <1>7. \A i : Kept(M, rt, i) => Kept(M1, rt, i) /\ M1[i] = M[i]
    BY <1>2 DEF Kept
  <1>8. \A l \in Lit : \A e : WatchRight(M, rt, rem, l, e) => WatchRight(M1, rt, rem, l, e)
    BY <1>7 DEF WatchRight
  <1>9. StoreRight(M1, W, ls, rt, rem)
    BY <1>2, <1>6, <1>7, <1>8 DEF StoreRight
  <1> QED
    BY <1>3, <1>5, <1>9 DEF M1

LEMMA rejectKeeps ==
  ASSUME SatInv, reject, given' = given
  PROVE  SatInv'
  <1> DEFINE rem == Remaining
             M == clause
  <1>1. /\ Typed /\ Phases
        /\ StackRight(trail, assigns, reason, M, rtrail, rem)
        /\ StoreRight(M, watches, learnts, rtrail, rem)
    BY SatParts
  <1>2. /\ given \in DOMAIN Runs /\ StackTyped(trail, assigns, reason, M, rtrail)
        /\ DOMAIN M \subseteq 1..MaxClause /\ MaxClause \in Nat /\ rem \in SUBSET Models
        /\ qhead \in Seq(Nat)
    BY <1>1, TypedNow
  <1>3. /\ trail \in Seq(Seq(Lit)) /\ Len(trail) > 0 /\ assigns \in SUBSET Lit
        /\ rtrail \in Seq(SUBSET (1..MaxClause)) /\ Len(rtrail) = Len(trail)
        /\ M \in [DOMAIN M -> ClauseObject]
    BY <1>2 DEF StackTyped
  <1>4. PICK k \in Inference :
          /\ Propagating /\ todo = {}
          /\ k.body \subseteq assigns
          /\ \E h \in IF k.heads = {} THEN {0} ELSE {h \in k.heads : isFalse(h)} :
               \/ /\ k.kind # "short" /\ Shared(k) = {}
                  /\ Reason_new(h, neg(k.body))
                  /\ confl' = <<"clause", Slot>>
               \/ /\ k.kind # "short"
                  /\ \E i \in Shared(k) : /\ clause' = [clause EXCEPT ![i].c0 = h]
                                          /\ confl' = <<"clause", i>>
                  /\ UNCHANGED rtrail
               \/ /\ k.kind = "short"
                  /\ confl' = <<"lits", (neg(k.body) \cup {h}) \ {0}>>
                  /\ UNCHANGED <<clause, rtrail>>
          /\ UNCHANGED <<pc, loaded, learnts, watches, assigns, trail, qhead, reason, todo, seen, an, budget, solutions, found>>
    BY DEF reject
  <1>5. PICK h \in IF k.heads = {} THEN {0} ELSE {g \in k.heads : isFalse(g)} :
          \/ /\ k.kind # "short" /\ Shared(k) = {}
             /\ Reason_new(h, neg(k.body))
             /\ confl' = <<"clause", Slot>>
          \/ /\ k.kind # "short"
             /\ \E i \in Shared(k) : /\ clause' = [clause EXCEPT ![i].c0 = h]
                                     /\ confl' = <<"clause", i>>
             /\ UNCHANGED rtrail
          \/ /\ k.kind = "short"
             /\ confl' = <<"lits", (neg(k.body) \cup {h}) \ {0}>>
             /\ UNCHANGED <<clause, rtrail>>
    BY <1>4
  <1> DEFINE N == neg(k.body)
             C == (N \cup {h}) \ {0}
  <1>6. /\ \A g \in k.heads : Entails(rem, {g} \cup N)
        /\ k.heads = {} => Entails(rem, N)
        /\ N \subseteq Lit /\ 0 \notin N /\ k.body \subseteq Lit /\ k.heads \subseteq Lit
        /\ \A q \in N : -q \in assigns
    BY <1>2, <1>3, <1>4, InferenceHolds
  <1>7. (k.heads = {} /\ h = 0) \/ (h \in k.heads /\ -h \in assigns /\ h \in Lit /\ h # 0)
    BY <1>2, <1>5, <1>6, LitFacts DEF isFalse
  <1> HIDE DEF N
  <1>8. /\ C \in SUBSET Lit /\ Entails(rem, C) /\ \A q \in C : -q \in assigns
    <2>1. CASE k.heads = {} /\ h = 0
      <3>1. C = N
        BY <2>1, <1>6
      <3> QED
        BY <3>1, <2>1, <1>6
    <2>2. CASE h \in k.heads /\ -h \in assigns /\ h \in Lit /\ h # 0
      <3>1. C = {h} \cup N
        BY <2>2, <1>6
      <3> QED
        BY <3>1, <2>2, <1>6
    <2> QED
      BY <2>1, <2>2, <1>7
  <1>9. Len(trail) > 1 => \E q \in C : -q \in DeepOf(trail)
    <2> SUFFICES ASSUME Len(trail) > 1, \A q \in C : -q \notin DeepOf(trail) PROVE FALSE
      OBVIOUS
    <2>1. k.body \subseteq assigns \ DeepOf(trail)
      <3> SUFFICES ASSUME NEW l \in k.body PROVE l \notin DeepOf(trail)
        BY <1>4
      <3>1. -l \in N /\ l \in Lit
        BY <1>2, <1>6, NegFacts DEF N
      <3>2. -l \in C /\ -(-l) = l
        BY <3>1, <1>2, <1>6, LitFacts
      <3> QED
        BY <3>2
    <2>2. k.heads # {} /\ \A g \in k.heads : -g \notin assigns \ DeepOf(trail)
      BY <2>1, <1>1 DEF StackRight, RootQuiet
    <2>3. h \in C /\ h \in k.heads /\ -h \in assigns
      BY <2>2, <1>7
    <2> QED
      BY <2>2, <2>3
  <1>10. /\ Propagating /\ todo' = {}
         /\ UNCHANGED <<pc, loaded, learnts, watches, assigns, trail, reason, seen, an, budget, solutions, found>>
         /\ qhead' \in Seq(Nat) /\ Len(qhead') = Len(qhead)
    BY <1>2, <1>4
  <1>11. ASSUME StackTyped(trail, assigns, reason, clause', rtrail'), DOMAIN clause' \subseteq 1..MaxClause,
                StackRight(trail, assigns, reason, clause', rtrail', rem),
                StoreRight(clause', watches, learnts, rtrail', rem),
                confl' \in Reason, ConflictLits' = C,
                confl'[1] = "clause" => confl'[2] \in DOMAIN clause' /\ clause'[confl'[2]].temp
         PROVE  SatInv'
    <2> HIDE DEF C
    <2> QED
      BY <1>8, <1>9, <1>10, <1>11, ConflictKeeps
  <1>12. CASE /\ k.kind # "short" /\ Shared(k) = {}
              /\ Reason_new(h, neg(k.body))
              /\ confl' = <<"clause", Slot>>
    <2> DEFINE s == Slot
               c == [c0 |-> h, c1 |-> 0, rest |-> N, learnt |-> FALSE, temp |-> TRUE]
    <2>1. clause' = With(M, s, c) /\ rtrail' = [rtrail EXCEPT ![Len(rtrail)] = @ \cup {s}] /\ FreeIn(M) # {}
      BY <1>12 DEF Reason_new, Free, N
    <2>2. s \in 1..MaxClause /\ s \notin DOMAIN M
      BY <2>1, <1>2, SlotFacts DEF Slot
    <2>3. c \in ClauseObject /\ c.temp /\ Lits(c) = C
      BY <1>6, <1>7 DEF ClauseObject, Lits
    <2>4. Len(rtrail) \in DOMAIN rtrail
      BY <1>3
    <2>5. confl' = <<"clause", s>>
      BY <1>12
    <2> HIDE DEF s, c
    <2>6. /\ StackTyped(trail, assigns, reason, clause', rtrail')
          /\ StackRight(trail, assigns, reason, clause', rtrail', rem)
          /\ StoreRight(clause', watches, learnts, rtrail', rem)
          /\ DOMAIN clause' = DOMAIN M \cup {s} /\ clause'[s] = c
      <3> DEFINE M1 == With(M, s, c)
                 n == Len(rtrail)
                 rt1 == [rtrail EXCEPT ![n] = @ \cup {s}]
      <3>1. /\ StackTyped(trail, assigns, reason, M1, rt1)
            /\ StackRight(trail, assigns, reason, M1, rt1, rem)
            /\ StoreRight(M1, watches, learnts, rt1, rem)
        <4>1. n \in DOMAIN rtrail
          BY <2>4
        <4> HIDE DEF n, rem
        <4> QED
          BY <4>1, <2>2, <2>3, <1>1, <1>2, TempMade
      <3>2. clause' = M1 /\ rtrail' = rt1
        BY <2>1
      <3>3. DOMAIN M1 = DOMAIN M \cup {s} /\ M1[s] = c
        BY DEF With
      <3> HIDE DEF M1, rt1
      <3> QED
        BY <3>1, <3>2, <3>3
    <2>7. confl' \in Reason /\ confl'[1] = "clause" /\ confl'[2] = s
      BY <2>2, <2>5 DEF Reason
    <2>8. ConflictLits' = C /\ DOMAIN clause' \subseteq 1..MaxClause
      BY <2>2, <2>3, <2>6, <2>7, <1>2 DEF ConflictLits
    <2>9. confl'[2] \in DOMAIN clause' /\ clause'[confl'[2]].temp
      BY <2>3, <2>6, <2>7
    <2> QED
      BY <2>6, <2>7, <2>8, <2>9, <1>11
  <1>13. ASSUME NEW s \in Shared(k), clause' = [clause EXCEPT ![s].c0 = h], confl' = <<"clause", s>>, rtrail' = rtrail
         PROVE  SatInv'
    <2> DEFINE c == [M[s] EXCEPT !.c0 = h]
    <2>1. s \in rtrail[Len(rtrail)] /\ M[s].temp /\ M[s].c1 = 0 /\ M[s].rest = N
      BY DEF Shared, Last, N
    <2>2. s \in DOMAIN M /\ s \in 1..MaxClause
      BY <2>1, <1>1, <1>2, <1>3 DEF StoreRight
    <2>3. M[s] \in ClauseObject
      BY <2>2, <1>3
    <2>4. c \in ClauseObject /\ c.temp /\ Rest(c) = Rest(M[s]) /\ Lits(c) = C
      <3>1. c = [c0 |-> h, c1 |-> M[s].c1, rest |-> M[s].rest, learnt |-> M[s].learnt, temp |-> M[s].temp]
        BY <2>3 DEF ClauseObject
      <3> QED
        BY <3>1, <2>1, <2>3, <1>6, <1>7 DEF ClauseObject, Lits, Rest
    <2>5. clause' = [M EXCEPT ![s] = c]
      BY <1>13
    <2>6. clause'[s] = c /\ DOMAIN clause' = DOMAIN M
      BY <2>2, <2>5
    <2> HIDE DEF c
    <2>7. /\ StackTyped(trail, assigns, reason, clause', rtrail)
          /\ StackRight(trail, assigns, reason, clause', rtrail, rem)
          /\ StoreRight(clause', watches, learnts, rtrail, rem)
      BY <2>1, <2>2, <2>4, <2>5, <1>1, <1>2, TempRewritten
    <2>8. confl' \in Reason /\ confl'[1] = "clause" /\ confl'[2] = s
      BY <2>2, <1>13 DEF Reason
    <2>9. ConflictLits' = C /\ DOMAIN clause' \subseteq 1..MaxClause
      BY <2>4, <2>6, <2>8, <1>2 DEF ConflictLits
    <2>10. confl'[2] \in DOMAIN clause' /\ clause'[confl'[2]].temp
      BY <2>2, <2>4, <2>6, <2>8
    <2> QED
      BY <2>7, <2>8, <2>9, <2>10, <1>11, <1>13
  <1>14. CASE /\ k.kind = "short"
              /\ confl' = <<"lits", (neg(k.body) \cup {h}) \ {0}>>
              /\ UNCHANGED <<clause, rtrail>>
    <2>1. confl' = <<"lits", C>>
      BY <1>14 DEF N
    <2> HIDE DEF C
    <2>2. confl' \in Reason /\ confl'[1] # "clause" /\ ConflictLits' = C
      BY <2>1, <1>8 DEF Reason, ConflictLits
    <2> QED
      BY <2>2, <1>1, <1>2, <1>11, <1>14
  <1> QED
    BY <1>5, <1>12, <1>13, <1>14

-----------------------------------------------------------------------------
(* The start, and steps that change nothing. *)

(* During conflict analysis. *)
LEMMA Examined ==
  ASSUME given' = given, NEW rem, Remaining' = rem, Typed',
         StackRight(trail', assigns', reason', clause', rtrail', rem),
         StoreRight(clause', watches', learnts', rtrail', rem),
         pc' \in {"resolve", "select", "learn"}, todo' = {}, Len(trail') > 1,
         pc' \in {"resolve", "select"} /\ confl'[1] = "clause" => confl'[2] \in DOMAIN clause',
         Analyzing', Resolving', Selecting', Learning'
  PROVE  SatInv'
  <1>1. decisionLevel' = Len(trail') - 1 /\ Len(trail') \in Nat
    BY DEF decisionLevel, Typed, TypeOK
  <1>2. Phases'
    BY <1>1 DEF Phases
  <1>3. StackRight(trail, assigns, reason, clause, rtrail, Remaining)'
    BY StackCarried
  <1>4. StoreRight(clause, watches, learnts, rtrail, Remaining)'
    BY StoreCarried
  <1>5. ConflictRight' /\ SeenRight'
    BY DEF ConflictRight, SeenRight
  <1> QED
    BY <1>2, <1>3, <1>4, <1>5 DEF SatInv

LEMMA NothingChanges ==
  ASSUME SatInv, UNCHANGED vars
  PROVE  SatInv'
  <1>1. UNCHANGED <<given, pc, loaded, clause, learnts, watches, assigns, trail, qhead, rtrail, reason,
                    confl, todo, seen, an, budget, solutions, found>>
    BY DEF vars, db, stack
  <1>2. Remaining' = Remaining
    BY <1>1, SameRemaining
  <1>3. /\ Hidden' = Hidden /\ Inference' = Inference /\ Lit' = Lit
    BY <1>1, Carried
  <1>4. /\ Typed /\ Phases
        /\ StackRight(trail, assigns, reason, clause, rtrail, Remaining)
        /\ StoreRight(clause, watches, learnts, rtrail, Remaining)
        /\ ConflictRight /\ SeenRight /\ Analyzing /\ Resolving /\ Selecting /\ Learning
    BY SatParts
  <1>5. Typed'
    <2>1. /\ StackTyped(trail, assigns, reason, clause, rtrail)
          /\ DOMAIN clause \subseteq 1..MaxClause /\ pc \in Phase /\ loaded \in 0 .. Len(Problem)
          /\ learnts \subseteq 1..MaxClause /\ watches \in [Lit -> SUBSET WatchElem]
          /\ qhead \in Seq(Nat) /\ Len(qhead) = Len(trail)
          /\ confl \in Reason /\ todo \subseteq WatchElem /\ seen \subseteq Var
          /\ solutions \in Nat /\ budget \in Int /\ found \subseteq SUBSET Lit /\ an \in Analysis
      BY <1>4, TypedNow
    <2> QED
      BY <2>1, <1>1, TypedNext
  <1>6. /\ StackRight(trail', assigns', reason', clause', rtrail', Remaining)
        /\ StoreRight(clause', watches', learnts', rtrail', Remaining)
    BY <1>1, <1>4
  <1>7. \A C : Nogood(trail, reason, Remaining, C)' <=> Nogood(trail, reason, Remaining, C)
    BY <1>1, <1>2, <1>3 DEF Nogood, HoldsIn
  <1>8. ConflictLits' = ConflictLits /\ Deep' = Deep /\ Root' = Root /\ decisionLevel' = decisionLevel
        /\ Walked' = Walked /\ Marked' = Marked
    BY <1>1 DEF ConflictLits, Deep, Root, decisionLevel, Walked, Marked, Last
  <1>9. CASE pc \in {"resolve", "select", "learn"}
    <2>1. Analyzing'
      BY <1>1, <1>4, <1>8 DEF Analyzing, Last
    <2>2. Resolving'
      <3>1. \A r : Explanation(r)' = Explanation(r)
        BY <1>1 DEF Explanation
      <3>2. \A q : isFalse(q)' = isFalse(q)
        BY <1>1 DEF isFalse
      <3>3. Nogood(trail, reason, Remaining, an.out \cup neg(Marked) \cup an.expl)' <=>
            Nogood(trail, reason, Remaining, an.out \cup neg(Marked) \cup an.expl)
        BY <1>1, <1>2, <1>3, <1>8 DEF Nogood, HoldsIn, neg
      <3> QED
        BY <1>1, <1>4, <1>8, <3>1, <3>2, <3>3 DEF Resolving, Last
    <2>3. Selecting'
      <3>1. \A r : Explanation(r)' = Explanation(r)
        BY <1>1 DEF Explanation
      <3>2. Nogood(trail, reason, Remaining, an.out \cup neg(Marked))' <=>
            Nogood(trail, reason, Remaining, an.out \cup neg(Marked))
        BY <1>1, <1>2, <1>3, <1>8 DEF Nogood, HoldsIn, neg
      <3> QED
        BY <1>1, <1>4, <1>8, <3>1, <3>2 DEF Selecting
    <2>4. Learning'
      <3>1. Nogood(trail, reason, Remaining, an.out \cup {-an.p})' <=>
            Nogood(trail, reason, Remaining, an.out \cup {-an.p})
        BY <1>1, <1>2, <1>3 DEF Nogood, HoldsIn
      <3> QED
        BY <1>1, <1>3, <1>4, <1>8, <3>1 DEF Learning, Last
    <2>5. todo' = {} /\ Len(trail') > 1
      <3>1. Len(trail) \in Nat
        BY <1>4 DEF Typed, TypeOK
      <3> QED
        BY <3>1, <1>1, <1>4, <1>9 DEF Phases, decisionLevel
    <2>6. pc' \in {"resolve", "select"} /\ confl'[1] = "clause" => confl'[2] \in DOMAIN clause'
      BY <1>1, <1>4 DEF ConflictRight
    <2> QED
      BY <2>1, <2>2, <2>3, <2>4, <2>5, <2>6, <1>1, <1>2, <1>5, <1>6, <1>9, Examined
  <1>10. CASE pc \notin {"resolve", "select", "learn"}
    <2>1. SeenRight'
      BY <1>1, <1>4 DEF SeenRight
    <2>2. ConflictRight'
      <3>1. \A q : isFalse(q)' = isFalse(q)
        BY <1>1 DEF isFalse
      <3>2. Nogood(trail, reason, Remaining, ConflictLits)' <=> Nogood(trail, reason, Remaining, ConflictLits)
        BY <1>1, <1>2, <1>3, <1>8 DEF Nogood, HoldsIn
      <3>3. Lit' = Lit
        BY <1>1, Carried
      <3>4. (confl[1] = "clause" => confl[2] \in DOMAIN clause /\ (clause[confl[2]].temp \/ Kept(clause, rtrail, confl[2])))'
            <=> (confl[1] = "clause" => confl[2] \in DOMAIN clause /\ (clause[confl[2]].temp \/ Kept(clause, rtrail, confl[2])))
        BY <1>1 DEF Kept
      <3> QED
        BY <1>1, <1>2, <1>4, <1>8, <3>1, <3>2, <3>3, <3>4 DEF ConflictRight
    <2>3. \A k \in Inference : Quiet(k) => Quiet(k)'
      <3>1. AllFixed' = AllFixed
        <4>1. Decidable' = Decidable
          BY <1>1, Carried DEF Decidable
        <4> QED
          BY <4>1, <1>1 DEF AllFixed, isUndef, isTrue, isFalse
      <3> QED
        BY <3>1, <1>1, <1>8 DEF Quiet, isFalse
    <2>4. Len(trail) \in Nat
      BY <1>4 DEF Typed, TypeOK
    <2>5. /\ pc' \notin {"resolve", "select", "learn"}
          /\ pc' # "propagate" \/ confl' # NoReason => todo' = {}
          /\ todo' # {} => Last(qhead') \in DOMAIN Last(trail')
          /\ \A e \in todo' : WatchRight(clause', rtrail', Remaining, Last(trail')[Last(qhead')], e)
          /\ pc' = "GUN" => Remaining = {}
      BY <1>1, <1>4, <1>10 DEF Phases, Last, current
    <2>6. /\ pc' \in {"load", "branch"} => Len(trail') = 1 /\ confl' = NoReason
          /\ pc' = "branch" => trail' = <<<<>>>> /\ \A k \in Inference : Quiet(k)'
      BY <2>3, <2>4, <1>1, <1>4 DEF Phases, decisionLevel
    <2> QED
      BY <2>1, <2>2, <2>5, <2>6, <1>1, <1>2, <1>5, <1>6, Settled
  <1> QED
    BY <1>9, <1>10

LEMMA startSearchKeeps ==
  ASSUME SatInv, startSearch, given' = given
  PROVE  SatInv'
  <1>1. /\ pc = "load" /\ pc' = "propagate"
        /\ UNCHANGED <<loaded, clause, learnts, watches, assigns, trail, qhead, rtrail, reason,
                       confl, todo, seen, an, budget, solutions, found>>
    BY DEF startSearch, db, stack
  <1>2. Remaining' = Remaining
    BY <1>1, SameRemaining
  <1>3. /\ Typed /\ Phases /\ SeenRight
        /\ StackRight(trail, assigns, reason, clause, rtrail, Remaining)
        /\ StoreRight(clause, watches, learnts, rtrail, Remaining)
    BY SatParts
  <1>4. confl = NoReason /\ todo = {}
    BY <1>1, <1>3 DEF Phases
  <1>5. Typed'
    <2>1. /\ StackTyped(trail, assigns, reason, clause, rtrail)
          /\ DOMAIN clause \subseteq 1..MaxClause /\ loaded \in 0 .. Len(Problem)
          /\ learnts \subseteq 1..MaxClause /\ watches \in [Lit -> SUBSET WatchElem]
          /\ qhead \in Seq(Nat) /\ Len(qhead) = Len(trail)
          /\ confl \in Reason /\ todo \subseteq WatchElem /\ seen \subseteq Var
          /\ solutions \in Nat /\ budget \in Int /\ found \subseteq SUBSET Lit /\ an \in Analysis
      BY <1>3, TypedNow
    <2>2. pc' \in Phase
      BY <1>1 DEF Phase
    <2> QED
      BY <2>1, <2>2, <1>1, TypedNext
  <1>6. SeenRight' /\ ConflictRight'
    <2>1. OffTrail(trail', assigns') = OffTrail(trail, assigns)
      BY <1>1
    <2> QED
      BY <2>1, <1>1, <1>3, <1>4, SeenNext, NoConflict
  <1>7. /\ StackRight(trail', assigns', reason', clause', rtrail', Remaining)
        /\ StoreRight(clause', watches', learnts', rtrail', Remaining)
    BY <1>1, <1>3
  <1> QED
    BY <1>1, <1>2, <1>4, <1>5, <1>6, <1>7, Settled

LEMMA InitRight ==
  ASSUME Init
  PROVE  SatInv
  <1>1. /\ given \in DOMAIN Runs
        /\ pc = "load" /\ loaded = 0
        /\ clause = <<>> /\ learnts = {}
        /\ watches = [l \in Lit |-> {}]
        /\ assigns = {} /\ trail = <<<<>>>> /\ qhead = <<0>> /\ rtrail = <<{}>>
        /\ reason = [x \in Var |-> NoReason]
        /\ confl = NoReason /\ todo = {} /\ seen = {} /\ an = Unset
        /\ budget = restart_scale /\ solutions = 0 /\ found = {}
    BY DEF Init
  <1>2. Runs[given] \in Elems(Runs)
    BY <1>1 DEF Elems
  <1>3. trail \in Seq(Seq(Lit)) /\ Len(trail) = 1 /\ trail[1] = <<>> /\ DOMAIN trail = {1}
    BY <1>1
  <1>4. \A l \in DOMAIN trail : Elems(trail[l]) = {}
    BY <1>3 DEF Elems
  <1>5. Typed
    <2>1. Problem \in Seq(Seq(Lit))
      BY <1>1, RunFacts
    <2>2. restart_scale \in Int
      BY <1>2, FlagAssumption DEF restart_scale
    <2>3. NoReason \in Reason
      BY DEF Reason
    <2>4. Unset \in [index : Nat, pathC : Int, last : Reason, expl : SUBSET Lit, out : SUBSET Lit,
                     p : Lit \cup {0}, removed : SUBSET Var]
      BY <2>3 DEF Unset
    <2>5. qhead \in Seq(Nat) /\ Len(qhead) = 1 /\ rtrail \in Seq(SUBSET (1..MaxClause)) /\ Len(rtrail) = 1
      BY <1>1
    <2>6. DOMAIN clause = {} /\ clause \in [DOMAIN clause -> ClauseObject]
      BY <1>1
    <2>7. watches \in [Lit -> SUBSET WatchElem] /\ reason \in [Var -> Reason]
      BY <2>3, <1>1
    <2>8. loaded \in 0 .. Len(Problem)
      BY <2>1, <1>1
    <2>9. TypeOK
      BY <2>2, <2>3, <2>5, <2>6, <2>7, <2>8, <1>1, <1>3 DEF TypeOK
    <2> QED
      BY <2>4, <2>6, <2>7, <2>9, <1>1 DEF Typed
  <1>6. Phases /\ ConflictRight /\ Analyzing /\ Resolving /\ Selecting /\ Learning
    BY <1>1, <1>3 DEF Phases, ConflictRight, Analyzing, Resolving, Selecting, Learning, decisionLevel
  <1>7. SeenRight
    BY <1>1 DEF SeenRight, vars_of
  <1>8. StackRight(trail, assigns, reason, clause, rtrail, Remaining)
    <2>1. \A l \in 2 .. Len(trail) : FALSE
      BY <1>3
    <2> QED
      BY <2>1, <1>1, <1>3 DEF StackRight, TrailRight, ReasonsRight, HiddenRight, ShortClosed, RootQuiet, RootRight
  <1>9. StoreRight(clause, watches, learnts, rtrail, Remaining)
    <2>1. DOMAIN clause = {} /\ DOMAIN rtrail = {1} /\ rtrail[1] = {}
      BY <1>1
    <2>2. \A l \in Lit : watches[l] = {}
      BY <1>1
    <2> QED
      BY <2>1, <2>2, <1>1 DEF StoreRight
  <1> QED
    BY <1>5, <1>6, <1>7, <1>8, <1>9 DEF SatInv

-----------------------------------------------------------------------------
(* Going back to a level. *)

UndoneOf(t, lv) == UNION {Elems(t[l]) : l \in lv + 2 .. Len(t)}
FreedOf(rt, lv) == UNION {rt[l] : l \in lv + 2 .. Len(rt)}
ForgetIn(R, S) == [x \in Var |-> IF x \in vars_of(S) THEN NoReason ELSE R[x]]

LEMMA BackIsCut ==
  ASSUME NEW t \in Seq(Seq(Lit)), NEW a \in SUBSET Lit, NEW lv \in Nat, lv < Len(t),
         \A l \in 2 .. Len(t) : t[l] # <<>>
  PROVE  /\ CutOf(t, a, Keep(t, lv), a \ UndoneOf(t, lv))
         /\ Keep(t, lv) \in Seq(Seq(Lit)) /\ Len(Keep(t, lv)) = lv + 1
         /\ \A l \in 1 .. lv + 1 : Keep(t, lv)[l] = t[l]
         /\ \A q : q \in UndoneOf(t, lv) <=> \E l \in lv + 2 .. Len(t) : \E i \in 1 .. Len(t[l]) : t[l][i] = q
  <1> DEFINE t1 == Keep(t, lv)
             U == UndoneOf(t, lv)
             n == Len(t)
  <1>1. n \in Nat /\ DOMAIN t = 1 .. n /\ \A l \in 1 .. n : t[l] \in Seq(Lit) /\ DOMAIN t[l] = 1 .. Len(t[l]) /\ Len(t[l]) \in Nat
    BY Places
  <1>2. t1 \in Seq(Seq(Lit)) /\ Len(t1) = lv + 1 /\ \A l \in 1 .. lv + 1 : t1[l] = t[l]
    <2>1. lv + 1 <= n
      BY <1>1
    <2> QED
      BY <2>1, <1>1 DEF Keep
  <1>3. \A q : q \in U <=> \E l \in lv + 2 .. n : \E i \in 1 .. Len(t[l]) : t[l][i] = q
    <2>1. \A q : q \in U <=> \E l \in lv + 2 .. n : q \in Elems(t[l])
      BY DEF UndoneOf
    <2>2. \A l \in lv + 2 .. n : l \in 1 .. n
      BY <1>1
    <2>3. \A l \in lv + 2 .. n : \A q : q \in Elems(t[l]) <=> \E i \in 1 .. Len(t[l]) : t[l][i] = q
      BY <2>2, <1>1 DEF Elems
    <2> QED
      BY <2>1, <2>3
  <1> HIDE DEF t1, U
  <1>4. \A q : Gone(t, t1, q) <=> q \in U
    <2> TAKE q
    <2>1. ASSUME Gone(t, t1, q) PROVE q \in U
      <3>1. PICK l \in 1 .. n : \E i \in 1 .. Len(t[l]) : t[l][i] = q /\ (l > Len(t1) \/ i > Len(t1[l]))
        BY <2>1 DEF Gone
      <3>2. PICK i \in 1 .. Len(t[l]) : t[l][i] = q /\ (l > Len(t1) \/ i > Len(t1[l]))
        BY <3>1
      <3>3. l > lv + 1
        <4> SUFFICES ASSUME l <= lv + 1 PROVE FALSE
          BY <1>1
        <4>1. t1[l] = t[l] /\ ~ (l > lv + 1)
          BY <1>1, <1>2
        <4>2. i <= Len(t[l])
          BY <1>1
        <4>3. Len(t[l]) \in Nat
          BY <1>1
        <4> QED
          BY <4>1, <4>2, <4>3, <3>2, <1>2
      <3>4. l \in lv + 2 .. n
        BY <3>3, <1>1
      <3> QED
        BY <3>2, <3>4, <1>3
    <2>2. ASSUME q \in U PROVE Gone(t, t1, q)
      <3>1. PICK l \in lv + 2 .. n : \E i \in 1 .. Len(t[l]) : t[l][i] = q
        BY <2>2, <1>3
      <3>2. l \in 1 .. n /\ l > lv + 1
        BY <1>1
      <3> QED
        BY <3>1, <3>2, <1>2 DEF Gone
    <2> QED
      BY <2>1, <2>2
  <1>5. CutOf(t, a, t1, a \ U)
    <2>1. Len(t1) \in 1 .. n /\ \A l \in 1 .. Len(t1) : l \in 1 .. n /\ t1[l] = t[l] /\ Len(t1[l]) <= Len(t[l])
      BY <1>1, <1>2
    <2>2. \A l \in 1 .. Len(t1) - 1 : l \in 1 .. Len(t1)
      BY <1>2
    <2>3. \A l \in 2 .. Len(t1) : l \in 1 .. Len(t1) /\ l \in 2 .. n
      BY <1>1, <1>2
    <2>4. 1 \in 1 .. Len(t1)
      BY <1>2
    <2> QED
      BY <2>1, <2>2, <2>3, <2>4, <1>2, <1>4 DEF CutOf
  <1> QED
    BY <1>2, <1>3, <1>5 DEF t1, U

LEMMA ForgetSame ==
  ASSUME given \in DOMAIN Runs, NEW a \in SUBSET Lit, \A p \in a : -p \notin a, NEW R, NEW S \in SUBSET a
  PROVE  SameReasons(a \ S, R, ForgetIn(R, S))
  <1> DEFINE R1 == ForgetIn(R, S)
  <1>1. \A x \in Var : x \notin vars_of(S) => R1[x] = R[x]
    BY DEF ForgetIn
  <1> HIDE DEF R1
  <1> SUFFICES ASSUME NEW q \in a \ S PROVE R1[var(q)] = R[var(q)]
    BY DEF SameReasons, R1
  <1>2. q \in Lit /\ var(q) \in Var
    BY LitFacts
  <1>3. var(q) \notin vars_of(S)
    <2> SUFFICES ASSUME var(q) \in vars_of(S) PROVE FALSE
      OBVIOUS
    <2>1. PICK k \in S : var(k) = var(q)
      BY DEF vars_of
    <2>2. k = q \/ k = -q
      BY <2>1, <1>2, LitFacts
    <2> QED
      BY <2>2
  <1> QED
    BY <1>1, <1>2, <1>3

LEMMA BackSame ==
  ASSUME given \in DOMAIN Runs, NEW t \in Seq(Seq(Lit)), NEW a \in SUBSET Lit, TrailRight(t, a), NEW R,
         NEW lv \in Nat, lv < Len(t)
  PROVE  SameReasons(a \ UndoneOf(t, lv), R, ForgetIn(R, UndoneOf(t, lv)))
  <1> DEFINE U == UndoneOf(t, lv)
  <1>1. Len(t) \in Nat /\ DOMAIN t = 1 .. Len(t) /\ \A l \in 1 .. Len(t) : DOMAIN t[l] = 1 .. Len(t[l])
    BY Places
  <1>2. U \in SUBSET a
    <2> SUFFICES ASSUME NEW k \in U PROVE k \in a
      OBVIOUS
    <2>1. PICK l \in lv + 2 .. Len(t) : k \in Elems(t[l])
      BY DEF UndoneOf
    <2>2. PICK i \in DOMAIN t[l] : t[l][i] = k
      BY <2>1 DEF Elems
    <2>3. l \in DOMAIN t
      BY <1>1
    <2> QED
      BY <2>2, <2>3 DEF TrailRight
  <1>3. \A p \in a : -p \notin a
    BY DEF TrailRight
  <1> HIDE DEF U
  <1>4. SameReasons(a \ U, R, ForgetIn(R, U))
    BY <1>2, <1>3, ForgetSame
  <1> QED
    BY <1>4 DEF U

LEMMA StackBack ==
  ASSUME NEW t, NEW a, NEW R, NEW M, NEW rt, NEW rem, NEW W, NEW ls, StackTyped(t, a, R, M, rt),
         StackRight(t, a, R, M, rt, rem), StoreRight(M, W, ls, rt, rem), NEW lv \in Nat, lv < Len(t)
  PROVE  /\ StackTyped(Keep(t, lv), a \ UndoneOf(t, lv), ForgetIn(R, UndoneOf(t, lv)),
                       Without(M, FreedOf(rt, lv)), Keep(rt, lv))
         /\ StackRight(Keep(t, lv), a \ UndoneOf(t, lv), ForgetIn(R, UndoneOf(t, lv)),
                       Without(M, FreedOf(rt, lv)), Keep(rt, lv), rem)
         /\ StoreRight(Without(M, FreedOf(rt, lv)), W, ls, Keep(rt, lv), rem)
         /\ OffTrail(Keep(t, lv), a \ UndoneOf(t, lv)) = OffTrail(t, a)
  <1> DEFINE U == UndoneOf(t, lv)
             F == FreedOf(rt, lv)
             t1 == Keep(t, lv)
             a1 == a \ U
             R1 == ForgetIn(R, U)
             M1 == Without(M, F)
             rt1 == Keep(rt, lv)
  <1>1. /\ given \in DOMAIN Runs /\ t \in Seq(Seq(Lit)) /\ Len(t) > 0 /\ a \in SUBSET Lit
        /\ R \in [Var -> Reason] /\ M \in [DOMAIN M -> ClauseObject]
        /\ rt \in Seq(SUBSET (1..MaxClause)) /\ Len(rt) = Len(t)
    BY DEF StackTyped
  <1>2. /\ CutOf(t, a, t1, a1) /\ t1 \in Seq(Seq(Lit)) /\ Len(t1) = lv + 1
        /\ \A l \in 1 .. lv + 1 : t1[l] = t[l]
        /\ \A q : q \in U <=> \E l \in lv + 2 .. Len(t) : \E i \in 1 .. Len(t[l]) : t[l][i] = q
    <2>1. \A l \in 2 .. Len(t) : t[l] # <<>>
      BY DEF StackRight, ReasonsRight
    <2> QED
      BY <2>1, <1>1, BackIsCut
  <1>3. Len(t) \in Nat /\ DOMAIN t = 1 .. Len(t) /\ \A l \in 1 .. Len(t) : DOMAIN t[l] = 1 .. Len(t[l])
    BY <1>1, Places
  <1>4. OffTrail(t1, a1) = OffTrail(t, a)
    BY <1>1, <1>2, OffCut
  <1>5. /\ rt1 \in Seq(SUBSET (1..MaxClause)) /\ Len(rt1) = lv + 1
        /\ \A l \in 1 .. lv + 1 : rt1[l] = rt[l]
    <2>1. lv + 1 <= Len(rt)
      BY <1>1, <1>3
    <2> QED
      BY <2>1, <1>1, <1>3 DEF Keep
  <1>6. F = UNION {rt[l] : l \in (lv + 1) + 1 .. Len(rt)} /\ rt1 = SubSeq(rt, 1, lv + 1)
    <2>1. (lv + 1) + 1 = lv + 2
      OBVIOUS
    <2> QED
      BY <2>1 DEF FreedOf, Keep
  <1>7. StoreRight(M1, W, ls, rt1, rem)
    <2> DEFINE n == lv + 1
    <2>1. n \in Nat /\ n <= Len(rt)
      BY <1>1, <1>3
    <2>2. F = UNION {rt[l] : l \in n + 1 .. Len(rt)} /\ rt1 = SubSeq(rt, 1, n)
      BY <1>6
    <2> HIDE DEF n, F, rt1
    <2>3. StoreRight(Without(M, UNION {rt[l] : l \in n + 1 .. Len(rt)}), W, ls, SubSeq(rt, 1, n), rem)
      BY <2>1, <1>1, StoreBack
    <2> QED
      BY <2>2, <2>3
  <1>8. DOMAIN M1 = DOMAIN M \ F /\ (\A i \in DOMAIN M \ F : M1[i] = M[i])
        /\ M1 \in [DOMAIN M1 -> ClauseObject]
    BY <1>1 DEF Without
  <1>9. R1 \in [Var -> Reason] /\ \A x \in Var : R1[x] = IF x \in vars_of(U) THEN NoReason ELSE R[x]
    <2>1. NoReason \in Reason
      BY DEF Reason
    <2> QED
      BY <2>1, <1>1 DEF ForgetIn
  <1>10. F = UNION {rt[l] : l \in lv + 2 .. Len(rt)} /\ a1 \in SUBSET Lit /\ a1 \subseteq a
    BY <1>1 DEF FreedOf
  <1>11. \A q \in a1 : q \in a /\ q \notin U
    OBVIOUS
  <1> HIDE DEF U, F, t1, a1, R1, M1, rt1
  <1>12. StackTyped(t1, a1, R1, M1, rt1)
    BY <1>1, <1>2, <1>5, <1>8, <1>9, <1>10 DEF StackTyped
  <1>13. SameReasons(a1, R, R1)
    <2>1. TrailRight(t, a)
      BY DEF StackRight
    <2> QED
      BY <2>1, <1>1, BackSame DEF U, a1, R1
  <1>14. ReasonsKept(t, t1, R, M, rt, M1, rt1)
    <2> SUFFICES ASSUME NEW l \in 2 .. Len(t1), NEW k \in 2 .. Len(t1[l]), NEW s,
                        Lasts(M, rt, s, l), M[s].temp \/ M[s].c0 = t[l][k]
                 PROVE  /\ Lasts(M1, rt1, s, l) /\ (M1[s].temp \/ M1[s].c0 = t[l][k])
                        /\ Rest(M1[s]) = Rest(M[s])
      BY DEF ReasonsKept
    <2>1. s \in DOMAIN M /\ \A j \in l + 1 .. Len(rt) : s \notin rt[j]
      BY DEF Lasts
    <2>2. l \in 2 .. lv + 1
      BY <1>2
    <2>3. s \notin F
      <3>1. \A j \in lv + 2 .. Len(rt) : j \in l + 1 .. Len(rt)
        BY <2>2
      <3> QED
        BY <3>1, <2>1, <1>10
    <2>4. \A j \in l + 1 .. Len(rt1) : s \notin rt1[j]
      <3>1. l \in Nat /\ l >= 2 /\ lv + 1 <= Len(rt) /\ Len(rt) \in Nat
        BY <2>2, <1>1, <1>3
      <3>2. ASSUME NEW j \in l + 1 .. lv + 1 PROVE j \in 1 .. lv + 1 /\ j \in l + 1 .. Len(rt)
        BY <3>1
      <3> QED
        BY <3>2, <2>1, <1>5
    <2> QED
      BY <2>1, <2>3, <2>4, <1>8 DEF Lasts
  <1>15. StackRight(t1, a1, R1, M1, rt1, rem)
    <2>1. rem \in SUBSET rem
      OBVIOUS
    <2> QED
      BY <2>1, <1>2, <1>13, <1>14, StackCut
  <1> QED
    BY <1>4, <1>7, <1>12, <1>15 DEF U, F, t1, a1, R1, M1, rt1

LEMMA KeptList ==
  ASSUME NEW T, NEW s \in Seq(T), NEW lv \in Nat, lv < Len(s)
  PROVE  Keep(s, lv) \in Seq(T) /\ Len(Keep(s, lv)) = lv + 1
  <1>1. lv + 1 <= Len(s) /\ Len(s) \in Nat
    OBVIOUS
  <1> QED
    BY <1>1 DEF Keep

LEMMA BackNow ==
  ASSUME NEW lv, btToLevel(lv)
  PROVE  /\ assigns' = assigns \ UndoneOf(trail, lv) /\ trail' = Keep(trail, lv)
         /\ qhead' = Keep(qhead, lv) /\ reason' = ForgetIn(reason, UndoneOf(trail, lv))
         /\ Freed(lv) = FreedOf(rtrail, lv) /\ Undone(lv) = UndoneOf(trail, lv)
  BY DEF btToLevel, Forget, ForgetIn, Undone, UndoneOf, Freed, FreedOf

LEMMA restartKeeps ==
  ASSUME SatInv, restart, given' = given
  PROVE  SatInv'
  <1> DEFINE rem == Remaining
  <1>1. /\ pc = "propagate" /\ confl = NoReason /\ todo = {}
        /\ budget' = budget + restart_scale
        /\ btToLevel(0)
        /\ clause' = Without(clause, Freed(0))
        /\ rtrail' = Keep(rtrail, 0)
        /\ UNCHANGED <<pc, loaded, learnts, watches, confl, todo, seen, an, solutions, found>>
    BY DEF restart, PropagateTrue, Propagating, Consistent
  <1>2. /\ Typed /\ Phases /\ SeenRight
        /\ StackRight(trail, assigns, reason, clause, rtrail, rem)
        /\ StoreRight(clause, watches, learnts, rtrail, rem)
    BY SatParts
  <1>3. /\ StackTyped(trail, assigns, reason, clause, rtrail)
        /\ DOMAIN clause \subseteq 1..MaxClause /\ pc \in Phase /\ loaded \in 0 .. Len(Problem)
        /\ learnts \subseteq 1..MaxClause /\ watches \in [Lit -> SUBSET WatchElem]
        /\ qhead \in Seq(Nat) /\ Len(qhead) = Len(trail)
        /\ confl \in Reason /\ todo \subseteq WatchElem /\ seen \subseteq Var
        /\ solutions \in Nat /\ budget \in Int /\ found \subseteq SUBSET Lit /\ an \in Analysis
    BY <1>2, TypedNow
  <1>4. trail \in Seq(Seq(Lit)) /\ Len(trail) > 0 /\ 0 \in Nat /\ given \in DOMAIN Runs
    BY <1>3 DEF StackTyped
  <1>5. /\ assigns' = assigns \ UndoneOf(trail, 0) /\ trail' = Keep(trail, 0)
        /\ qhead' = Keep(qhead, 0) /\ reason' = ForgetIn(reason, UndoneOf(trail, 0))
        /\ clause' = Without(clause, FreedOf(rtrail, 0)) /\ rtrail' = Keep(rtrail, 0)
    BY <1>1, BackNow
  <1>6. Remaining' = rem
    BY <1>1, SameRemaining
  <1>7. /\ StackTyped(trail', assigns', reason', clause', rtrail')
        /\ StackRight(trail', assigns', reason', clause', rtrail', rem)
        /\ StoreRight(clause', watches', learnts', rtrail', rem)
        /\ OffTrail(trail', assigns') = OffTrail(trail, assigns)
    <2>1. watches' = watches /\ learnts' = learnts
      BY <1>1
    <2> HIDE DEF rem
    <2> QED
      BY <2>1, <1>2, <1>3, <1>4, <1>5, StackBack
  <1>8. qhead' \in Seq(Nat) /\ Len(qhead') = 1 /\ Len(trail') = 1
    <2>1. Len(qhead) > 0
      BY <1>3, <1>4
    <2>2. Keep(qhead, 0) \in Seq(Nat) /\ Len(Keep(qhead, 0)) = 0 + 1
      BY <2>1, <1>3, KeptList
    <2>3. Len(Keep(trail, 0)) = 0 + 1
      BY <1>4, KeptList
    <2> QED
      BY <2>2, <2>3, <1>5
  <1>9. DOMAIN clause' \subseteq 1..MaxClause
    BY <1>1, <1>3 DEF Without
  <1>10. budget' \in Int
    <2>1. Runs[given] \in Elems(Runs)
      BY <1>4 DEF Elems
    <2>2. restart_scale \in Int
      BY <2>1, FlagAssumption DEF restart_scale
    <2> QED
      BY <2>2, <1>1, <1>3
  <1>11. Typed'
    BY <1>1, <1>3, <1>7, <1>8, <1>9, <1>10, TypedNext
  <1>12. SeenRight' /\ ConflictRight'
    BY <1>1, <1>2, <1>7, SeenNext, NoConflict
  <1> HIDE DEF rem
  <1> QED
    BY <1>1, <1>6, <1>7, <1>11, <1>12, Settled

-----------------------------------------------------------------------------
(* The clean-up at the root. *)

(* The objects of M that M1 keeps: unchanged, or without their false literals. *)
CleanedOf(M, M1, a) ==
  \A i \in DOMAIN M1 :
    \/ M1[i] = M[i]
    \/ /\ \A l \in Lits(M[i]) : l \notin a
       /\ M1[i] = [M[i] EXCEPT !.rest = {l \in @ : l \notin a /\ -l \notin a}]
Objects(M) == \A i \in DOMAIN M : M[i] \in ClauseObject
DetachedOf(W, W1, S) == \A l \in Lit : W1[l] = {e \in W[l] : ~ (e[1] = "clause" /\ e[2] \in S)}

LEMMA StoreCleaned ==
  ASSUME given \in DOMAIN Runs, NEW a \in SUBSET Lit, NEW M, NEW W \in [Lit -> SUBSET WatchElem], NEW ls, NEW rt,
         NEW rem \in SUBSET Models, StoreRight(M, W, ls, rt, rem), M \in [DOMAIN M -> ClauseObject], Len(rt) = 1, DOMAIN rt = {1},
         \A m \in rem : a \subseteq m,
         NEW g \in SUBSET ls, NEW M1, DOMAIN M1 = DOMAIN M \ (rt[1] \cup g),
         CleanedOf(M, M1, a), NEW W1, DetachedOf(W, W1, g),
         NEW rt1, DOMAIN rt1 = {1}, rt1[1] = {}
  PROVE  StoreRight(M1, W1, ls \ g, rt1, rem)
  <1>1. ASSUME NEW i \in DOMAIN M1
        PROVE  /\ i \in DOMAIN M /\ M1[i] \in ClauseObject /\ M1[i].temp = M[i].temp
               /\ M1[i].c0 = M[i].c0 /\ M1[i].c1 = M[i].c1 /\ Lits(M1[i]) \subseteq Lits(M[i])
               /\ Entails(rem, Lits(M[i])) => Entails(rem, Lits(M1[i]))
    <2>1. i \in DOMAIN M /\ M[i] \in ClauseObject
      BY <1>1
    <2>2. CASE M1[i] = M[i]
      BY <2>1, <2>2
    <2>3. CASE /\ \A l \in Lits(M[i]) : l \notin a
               /\ M1[i] = [M[i] EXCEPT !.rest = {l \in @ : l \notin a /\ -l \notin a}]
      <3> DEFINE c == M[i]
                 L == {l \in c.rest : l \notin a /\ -l \notin a}
      <3>1. /\ M1[i] = [c0 |-> c.c0, c1 |-> c.c1, rest |-> L, learnt |-> c.learnt, temp |-> c.temp]
            /\ c.c0 \in Lit \cup {0} /\ c.c1 \in Lit \cup {0} /\ c.rest \subseteq Lit
            /\ c.learnt \in BOOLEAN /\ c.temp \in BOOLEAN
        BY <2>1, <2>3 DEF ClauseObject
      <3> HIDE DEF c
      <3>2. M1[i] \in ClauseObject /\ Lits(M1[i]) = ({c.c0, c.c1} \cup L) \ {0}
        BY <3>1 DEF ClauseObject, Lits
      <3>3. ASSUME Entails(rem, Lits(c)), NEW m \in rem PROVE m \cap Lits(M1[i]) # {}
        <4>1. PICK q \in Lits(c) : q \in m
          BY <3>3 DEF Entails
        <4>2. q \in Lit /\ m \in Models
          BY <3>1, <4>1 DEF Lits
        <4>3. -q \notin a
          BY <4>1, <4>2, ModelFacts
        <4>4. q \notin a
          BY <2>3, <4>1 DEF c
        <4>5. q \in Lits(M1[i])
          BY <3>2, <4>1, <4>3, <4>4 DEF Lits
        <4> QED
          BY <4>1, <4>5
      <3>4. Entails(rem, Lits(c)) => Entails(rem, Lits(M1[i]))
        BY <3>3 DEF Entails
      <3>5. Lits(M1[i]) \subseteq Lits(c)
        BY <3>2 DEF Lits
      <3> QED
        BY <2>1, <3>1, <3>2, <3>4, <3>5 DEF c
    <2> QED
      BY <2>2, <2>3 DEF CleanedOf
  <1>2. \A i \in DOMAIN M1 : M1[i].temp \/ (Entails(rem, Lits(M1[i])) /\ Learnable(Lits(M1[i])))
    BY <1>1 DEF StoreRight, Learnable, vars_of
  <1>3. ASSUME NEW i, Kept(M, rt, i), i \notin g
        PROVE  Kept(M1, rt1, i)
    <2>1. i \in DOMAIN M1
      BY <1>3 DEF Kept
    <2>2. \A k \in DOMAIN rt1 : i \notin rt1[k]
      OBVIOUS
    <2> QED
      BY <2>1, <2>2, <1>1, <1>3 DEF Kept
  <1>4. ASSUME NEW l \in Lit, NEW e \in W1[l] PROVE WatchRight(M1, rt1, rem, l, e)
    <2>1. WatchRight(M, rt, rem, l, e)
      BY DEF StoreRight, DetachedOf
    <2>2. CASE e[1] = "bin"
      BY <2>1, <2>2 DEF WatchRight
    <2>3. CASE e[1] # "bin"
      <3>1. Kept(M, rt, e[2])
        BY <2>1, <2>3 DEF WatchRight
      <3>2. e[2] \notin g
        <4>1. e \in WatchElem /\ ~ (e[1] = "clause" /\ e[2] \in g)
          BY DEF DetachedOf
        <4>2. e[1] = "clause"
          BY <4>1, <2>3 DEF WatchElem
        <4> QED
          BY <4>1, <4>2
      <3>3. Kept(M1, rt1, e[2])
        BY <3>1, <3>2, <1>3
      <3> QED
        BY <3>3, <2>1, <2>3, <1>1 DEF WatchRight, Kept
    <2> QED
      BY <2>2, <2>3
  <1>5. \A i \in ls \ g : Kept(M1, rt1, i)
    BY <1>3 DEF StoreRight
  <1>6. /\ \A k \in DOMAIN rt1 : rt1[k] \subseteq DOMAIN M1
        /\ \A j, k \in DOMAIN rt1 : j = k
    OBVIOUS
  <1> QED
    BY <1>2, <1>4, <1>5, <1>6 DEF StoreRight

LEMMA ObjectsCleaned ==
  ASSUME NEW M, Objects(M), NEW M1, DOMAIN M1 \subseteq DOMAIN M, NEW a, CleanedOf(M, M1, a)
  PROVE  Objects(M1)
  <1> SUFFICES ASSUME NEW i \in DOMAIN M1 PROVE M1[i] \in ClauseObject
    BY DEF Objects
  <1>1. M[i] \in ClauseObject
    BY DEF Objects
  <1>2. CASE M1[i] = M[i]
    BY <1>1, <1>2
  <1>3. CASE M1[i] = [M[i] EXCEPT !.rest = {l \in @ : l \notin a /\ -l \notin a}]
    <2>1. {l \in M[i].rest : l \notin a /\ -l \notin a} \subseteq Lit
      BY <1>1 DEF ClauseObject
    <2> QED
      BY <2>1, <1>1, <1>3 DEF ClauseObject
  <1> QED
    BY <1>2, <1>3 DEF CleanedOf

LEMMA topLevelCleanUpKeeps ==
  ASSUME SatInv, topLevelCleanUp, given' = given
  PROVE  SatInv'
  <1> DEFINE rem == Remaining
  <1>1. PICK due \in BOOLEAN :
          LET gone == IF due THEN {i \in learnts : simplified(clause[i])} ELSE {}
              mem == Without(clause, rtrail[1] \cup gone)
          IN /\ learnts' = learnts \ gone
             /\ watches' = detach(watches, gone)
             /\ clause' = [i \in DOMAIN mem |->
                             IF due /\ i \in learnts
                             THEN [mem[i] EXCEPT !.rest = left(@)] ELSE mem[i]]
    BY DEF topLevelCleanUp
  <1>2. /\ pc = "propagate" /\ confl = NoReason /\ todo = {} /\ decisionLevel = 0
        /\ \A k \in Inference : Quiet(k)
        /\ pc' = "branch" /\ rtrail' = <<{}>> /\ trail' = <<<<>>>> /\ qhead' = <<0>>
        /\ seen' = seen \cup vars_of(Elems(trail[1]))
        /\ UNCHANGED <<loaded, assigns, reason, confl, todo, an, budget, solutions, found>>
    BY DEF topLevelCleanUp, PropagateTrue, Propagating, Consistent
  <1>3. /\ Typed /\ Phases /\ SeenRight
        /\ StackRight(trail, assigns, reason, clause, rtrail, rem)
        /\ StoreRight(clause, watches, learnts, rtrail, rem)
    BY SatParts
  <1>4. /\ given \in DOMAIN Runs /\ StackTyped(trail, assigns, reason, clause, rtrail)
        /\ DOMAIN clause \subseteq 1..MaxClause /\ loaded \in 0 .. Len(Problem)
        /\ learnts \subseteq 1..MaxClause /\ watches \in [Lit -> SUBSET WatchElem]
        /\ confl \in Reason /\ todo \subseteq WatchElem /\ seen \subseteq Var
        /\ solutions \in Nat /\ budget \in Int /\ found \subseteq SUBSET Lit /\ an \in Analysis
        /\ rem \in SUBSET Models
    BY <1>3, TypedNow
  <1>5. /\ trail \in Seq(Seq(Lit)) /\ Len(trail) = 1 /\ assigns \in SUBSET Lit /\ reason \in [Var -> Reason]
        /\ clause \in [DOMAIN clause -> ClauseObject]
        /\ rtrail \in Seq(SUBSET (1..MaxClause)) /\ Len(rtrail) = 1 /\ DOMAIN rtrail = {1} /\ DOMAIN trail = {1}
    <2>1. Len(trail) \in Nat /\ Len(trail) = 1
      BY <1>2, <1>4 DEF StackTyped, decisionLevel
    <2> QED
      BY <2>1, <1>4 DEF StackTyped
  <1>6. Remaining' = rem
    BY <1>2, SameRemaining
  <1>7. \A m \in rem : assigns \subseteq m
    BY <1>3, <1>5, OneLevel
  <1> DEFINE gone == IF due THEN {i \in learnts : simplified(clause[i])} ELSE {}
             mem == Without(clause, rtrail[1] \cup gone)
  <1>8. /\ learnts' = learnts \ gone /\ watches' = detach(watches, gone)
        /\ clause' = [i \in DOMAIN mem |->
                        IF due /\ i \in learnts THEN [mem[i] EXCEPT !.rest = left(@)] ELSE mem[i]]
    BY <1>1
  <1>9. /\ DOMAIN mem = DOMAIN clause \ (rtrail[1] \cup gone)
        /\ \A i \in DOMAIN mem : mem[i] = clause[i]
    BY DEF Without
  <1>10. \A i \in learnts : i \notin gone => due = FALSE \/ ~ simplified(clause[i])
    OBVIOUS
  <1>11. gone \subseteq learnts
    OBVIOUS
  <1> HIDE DEF gone, mem
  <1>12. /\ DOMAIN clause' = DOMAIN clause \ (rtrail[1] \cup gone)
         /\ clause' = [i \in DOMAIN clause' |-> clause'[i]]
    BY <1>8, <1>9
  <1>13. CleanedOf(clause, clause', assigns)
    <2> SUFFICES ASSUME NEW i \in DOMAIN clause', clause'[i] # clause[i]
                 PROVE  /\ \A l \in Lits(clause[i]) : l \notin assigns
                        /\ clause'[i] = [clause[i] EXCEPT !.rest = {l \in @ : l \notin assigns /\ -l \notin assigns}]
      BY DEF CleanedOf
    <2>1. mem[i] = clause[i] /\ i \in DOMAIN mem /\ i \notin gone
      BY <1>8, <1>9
    <2>2. due /\ i \in learnts /\ clause'[i] = [clause[i] EXCEPT !.rest = left(@)]
      BY <2>1, <1>8
    <2>3. ~ simplified(clause[i])
      BY <2>1, <2>2, <1>10
    <2>4. left(clause[i].rest) = {l \in clause[i].rest : l \notin assigns /\ -l \notin assigns}
      BY DEF left, isUndef, isTrue, isFalse
    <2> QED
      BY <2>2, <2>3, <2>4 DEF simplified, isTrue
  <1>14. DetachedOf(watches, watches', gone)
    BY <1>8 DEF detach, DetachedOf
  <1>15. StoreRight(clause', watches', learnts', rtrail', rem) /\ clause' \in [DOMAIN clause' -> ClauseObject]
    <2>1. /\ StoreRight(clause', watches', learnts \ gone, rtrail', rem)
          /\ Objects(clause')
      <3>1. gone \in SUBSET learnts
        BY <1>11
      <3>2. DOMAIN rtrail' = {1} /\ rtrail'[1] = {}
        BY <1>2
      <3> HIDE DEF rem
      <3> QED
        <4>1. given \in DOMAIN Runs /\ assigns \in SUBSET Lit /\ watches \in [Lit -> SUBSET WatchElem] /\ rem \in SUBSET Models
          BY <1>4, <1>5
        <4>2. StoreRight(clause, watches, learnts, rtrail, rem) /\ clause \in [DOMAIN clause -> ClauseObject]
              /\ Len(rtrail) = 1 /\ DOMAIN rtrail = {1}
          BY <1>3, <1>5
        <4>3. DOMAIN clause' = DOMAIN clause \ (rtrail[1] \cup gone)
          BY <1>12
        <4>4. StoreRight(clause', watches', learnts \ gone, rtrail', rem)
          BY <3>1, <3>2, <4>1, <4>2, <4>3, <1>7, <1>13, <1>14, StoreCleaned
        <4>5. Objects(clause')
          <5>1. Objects(clause) /\ DOMAIN clause' \subseteq DOMAIN clause
            BY <4>2, <4>3 DEF Objects
          <5> QED
            BY <5>1, <1>13, ObjectsCleaned
        <4> QED
          BY <4>4, <4>5
    <2>2. clause' \in [DOMAIN clause' -> ClauseObject]
      BY <2>1, <1>12 DEF Objects
    <2> QED
      BY <2>1, <2>2, <1>2, <1>8
  <1>16. StackRight(trail', assigns', reason', clause', rtrail', rem)
    BY <1>2, <1>3, <1>5, StackClean
  <1>17. StackTyped(trail', assigns', reason', clause', rtrail')
    <2>1. <<<<>>>> \in Seq(Seq(Lit)) /\ Len(<<<<>>>>) = 1
      OBVIOUS
    <2>2. <<{}>> \in Seq(SUBSET (1..MaxClause)) /\ Len(<<{}>>) = 1
      OBVIOUS
    <2>3. given' \in DOMAIN Runs
      BY <1>4
    <2> QED
      BY <2>1, <2>2, <1>2, <1>4, <1>5, <1>15 DEF StackTyped
  <1>18. Typed'
    <2>1. qhead' \in Seq(Nat) /\ Len(qhead') = Len(trail')
      BY <1>2
    <2>2. watches' \in [Lit -> SUBSET WatchElem]
      BY <1>4, <1>8 DEF detach
    <2>3. seen' \subseteq Var
      <3>1. Elems(trail[1]) \in SUBSET Lit
        BY <1>5, Places DEF Elems
      <3> QED
        BY <3>1, <1>2, <1>4, NegFacts
    <2>4. learnts' \subseteq 1..MaxClause /\ DOMAIN clause' \subseteq 1..MaxClause /\ pc' \in Phase
      BY <1>2, <1>4, <1>8, <1>12 DEF Phase
    <2> QED
      BY <2>1, <2>2, <2>3, <2>4, <1>2, <1>4, <1>17, TypedNext
  <1>19. SeenRight'
    <2>1. Elems(trail[1]) \subseteq assigns
      <3>1. TrailRight(trail, assigns)
        BY <1>3 DEF StackRight
      <3> QED
        BY <3>1, <1>5 DEF TrailRight, Elems
    <2>2. UNION {Elems(trail[l]) : l \in DOMAIN trail} = Elems(trail[1])
      BY <1>5
    <2>3. UNION {Elems(trail'[l]) : l \in DOMAIN trail'} = {}
      <3>1. DOMAIN trail' = {1} /\ trail'[1] = <<>>
        BY <1>2
      <3> QED
        BY <3>1 DEF Elems
    <2>4. seen = vars_of(assigns \ Elems(trail[1]))
      BY <2>2, <1>2, <1>3 DEF SeenRight
    <2>5. seen' = vars_of(assigns)
      BY <2>1, <2>4, <1>2 DEF vars_of
    <2>6. assigns' \ UNION {Elems(trail'[l]) : l \in DOMAIN trail'} = assigns
      BY <2>3, <1>2
    <2>7. seen' = vars_of(assigns' \ UNION {Elems(trail'[l]) : l \in DOMAIN trail'})
      BY <2>5, <2>6
    <2> QED
      BY <2>7 DEF SeenRight, vars_of
  <1>20. \A k \in Inference : Quiet(k)'
    <2> SUFFICES ASSUME NEW k \in Inference PROVE Quiet(k)'
      OBVIOUS
    <2>1. Quiet(k)
      BY <1>2
    <2>2. decisionLevel' = 0
      BY <1>2 DEF decisionLevel
    <2> QED
      BY <2>1, <2>2, <1>2 DEF Quiet, isFalse
  <1>21. ConflictRight'
    BY <1>2, NoConflict
  <1>22. Len(trail') = 1
    BY <1>2
  <1> HIDE DEF rem
  <1> QED
    BY <1>2, <1>6, <1>15, <1>16, <1>18, <1>19, <1>20, <1>21, <1>22, Settled

-----------------------------------------------------------------------------
(* Decisions. *)

LEMMA StoreOpen ==
  ASSUME NEW M, NEW W, NEW ls, NEW rt, NEW rem, StoreRight(M, W, ls, rt, rem), rt \in Seq(SUBSET (1..MaxClause))
  PROVE  StoreRight(M, W, ls, Append(rt, {}), rem)
  <1> DEFINE rt1 == Append(rt, {})
             n == Len(rt)
  <1>1. /\ n \in Nat /\ DOMAIN rt = 1 .. n /\ DOMAIN rt1 = 1 .. n + 1 /\ rt1[n + 1] = {}
        /\ \A k \in 1 .. n : rt1[k] = rt[k]
    OBVIOUS
  <1> HIDE DEF rt1, n
  <1>2. \A k \in DOMAIN rt1 : rt1[k] = {} \/ (k \in DOMAIN rt /\ rt1[k] = rt[k])
    BY <1>1
  <1>3. \A i : Kept(M, rt, i) => Kept(M, rt1, i)
    BY <1>2 DEF Kept
  <1>4. \A l, e : WatchRight(M, rt, rem, l, e) => WatchRight(M, rt1, rem, l, e)
    BY <1>3 DEF WatchRight
  <1>5. \A k \in DOMAIN rt1 : rt1[k] \subseteq DOMAIN M
    BY <1>2 DEF StoreRight
  <1>6. \A j, k \in DOMAIN rt1 : j # k => rt1[j] \cap rt1[k] = {}
    BY <1>2 DEF StoreRight
  <1>7. StoreRight(M, W, ls, rt1, rem)
    BY <1>3, <1>4, <1>5, <1>6 DEF StoreRight
  <1> QED
    BY <1>7 DEF rt1

(* The search is at a point where it branches. *)
LEMMA ReadyFacts ==
  ASSUME SatInv, Ready
  PROVE  /\ pc \in {"branch", "propagate"} /\ confl = NoReason /\ todo = {}
         /\ trail[1] = <<>> /\ \A k \in Inference : Quiet(k)
  <1>1. Typed /\ Phases /\ TrailRight(trail, assigns)
    BY SatParts DEF StackRight
  <1>2. CASE pc = "branch"
    <2>1. trail = <<<<>>>> /\ confl = NoReason /\ todo = {} /\ \A k \in Inference : Quiet(k)
      BY <1>1, <1>2 DEF Phases
    <2> QED
      BY <2>1, <1>2
  <1>3. CASE PropagateTrue /\ ~ RestartDue /\ decisionLevel > 0
    <2>1. /\ pc = "propagate" /\ confl = NoReason /\ todo = {} /\ \A k \in Inference : Quiet(k)
          /\ Len(trail) - 1 > 0
      BY <1>3 DEF PropagateTrue, Propagating, Consistent, decisionLevel
    <2>2. Len(trail) \in Nat
      BY <1>1 DEF Typed, TypeOK
    <2> QED
      BY <2>1, <2>2, <1>1 DEF TrailRight
  <1> QED
    BY <1>2, <1>3 DEF Ready

LEMMA decideKeeps ==
  ASSUME SatInv, decide, given' = given
  PROVE  SatInv'
  <1> DEFINE rem == Remaining
  <1>1. PICK p \in Lit :
          /\ var(p) \in Decidable /\ isUndef(p)
          /\ assigns' = assigns \cup {p}
          /\ trail' = Append(trail, <<p>>)
          /\ reason' = [reason EXCEPT ![var(p)] = NoReason]
    BY DEF decide
  <1>2. /\ Ready /\ qhead' = Append(qhead, 0) /\ rtrail' = Append(rtrail, {}) /\ pc' = "propagate"
        /\ UNCHANGED <<loaded, clause, learnts, watches, confl, todo, seen, an, budget, solutions, found>>
    BY DEF decide, db
  <1>3. /\ Typed /\ Phases /\ SeenRight
        /\ StackRight(trail, assigns, reason, clause, rtrail, rem)
        /\ StoreRight(clause, watches, learnts, rtrail, rem)
    BY SatParts
  <1>4. /\ given \in DOMAIN Runs /\ StackTyped(trail, assigns, reason, clause, rtrail)
        /\ DOMAIN clause \subseteq 1..MaxClause /\ loaded \in 0 .. Len(Problem)
        /\ learnts \subseteq 1..MaxClause /\ watches \in [Lit -> SUBSET WatchElem]
        /\ qhead \in Seq(Nat) /\ Len(qhead) = Len(trail)
        /\ confl \in Reason /\ todo \subseteq WatchElem /\ seen \subseteq Var
        /\ solutions \in Nat /\ budget \in Int /\ found \subseteq SUBSET Lit /\ an \in Analysis
    BY <1>3, TypedNow
  <1>5. /\ trail \in Seq(Seq(Lit)) /\ Len(trail) > 0 /\ Len(trail) \in Nat
        /\ assigns \in SUBSET Lit /\ reason \in [Var -> Reason]
        /\ rtrail \in Seq(SUBSET (1..MaxClause)) /\ Len(rtrail) = Len(trail)
    BY <1>4, LastPlaces DEF StackTyped
  <1>6. /\ pc \in {"branch", "propagate"} /\ confl = NoReason /\ todo = {}
        /\ trail[1] = <<>> /\ \A k \in Inference : Quiet(k)
    BY <1>2, ReadyFacts
  <1>7. p \notin assigns /\ -p \notin assigns /\ var(p) \notin Hidden
    BY <1>1 DEF isUndef, isTrue, isFalse, Decidable
  <1>8. \A k \in Inference : k.kind = "short" /\ k.body \subseteq assigns => k.heads \subseteq assigns
    BY <1>6 DEF Quiet
  <1>9. Len(trail) = 1 => \A k \in Inference :
          k.body \subseteq assigns => k.heads # {} /\ \A h \in k.heads : -h \notin assigns
    BY <1>6 DEF Quiet, decisionLevel, isFalse
  <1>10. Remaining' = rem
    BY <1>2, SameRemaining
  <1> HIDE DEF rem
  <1>11. StackRight(trail', assigns', reason', clause', rtrail', rem)
    <2>1. StackRight(Append(trail, <<p>>), assigns \cup {p}, [reason EXCEPT ![var(p)] = NoReason],
                     clause, Append(rtrail, {}), rem)
      BY <1>3, <1>4, <1>6, <1>7, <1>8, <1>9, StackOpen
    <2> QED
      BY <2>1, <1>1, <1>2
  <1>12. StoreRight(clause', watches', learnts', rtrail', rem)
    <2>1. StoreRight(clause, watches, learnts, Append(rtrail, {}), rem)
      BY <1>3, <1>5, StoreOpen
    <2> QED
      BY <2>1, <1>2
  <1>13. trail' \in Seq(Seq(Lit)) /\ Len(trail') = Len(trail) + 1
    BY <1>1, <1>5, OpenShape
  <1>14. StackTyped(trail', assigns', reason', clause', rtrail')
    <2>1. reason' \in [Var -> Reason]
      <3>1. NoReason \in Reason
        BY DEF Reason
      <3> QED
        BY <3>1, <1>1, <1>5
    <2>2. rtrail' \in Seq(SUBSET (1..MaxClause)) /\ Len(rtrail') = Len(trail')
      BY <1>2, <1>5, <1>13
    <2>3. assigns' \in SUBSET Lit
      BY <1>1, <1>5
    <2>4. clause \in [DOMAIN clause -> ClauseObject]
      BY <1>4 DEF StackTyped
    <2> QED
      BY <2>1, <2>2, <2>3, <2>4, <1>2, <1>4, <1>5, <1>13 DEF StackTyped
  <1>15. Typed'
    <2>1. qhead' \in Seq(Nat) /\ Len(qhead') = Len(trail')
      BY <1>2, <1>4, <1>13
    <2>2. pc' \in Phase
      BY <1>2 DEF Phase
    <2> QED
      BY <2>1, <2>2, <1>2, <1>4, <1>14, TypedNext
  <1>16. SeenRight' /\ ConflictRight'
    <2>1. OffTrail(trail', assigns') = OffTrail(trail, assigns)
      BY <1>1, <1>5, <1>7, OffOpen
    <2> QED
      BY <2>1, <1>2, <1>3, <1>6, SeenNext, NoConflict
  <1> QED
    BY <1>2, <1>6, <1>10, <1>11, <1>12, <1>15, <1>16, Settled

-----------------------------------------------------------------------------
(* Levels of variables. *)

LEMMA Levels ==
  ASSUME given \in DOMAIN Runs, trail \in Seq(Seq(Lit)), Len(trail) > 0, assigns \in SUBSET Lit,
         TrailRight(trail, assigns), NEW p \in assigns
  PROVE  /\ levelOf(var(p)) \in 0 .. Len(trail) - 1
         /\ \A n \in 1 .. Len(trail) - 1 : levelOf(var(p)) = n <=> p \in Elems(trail[n + 1])
         /\ levelOf(var(p)) = 0 <=> p \notin Deep
  <1> DEFINE n == Len(trail)
             In(l) == p \in Elems(trail[l])
  <1>1. n \in Nat /\ n > 0 /\ DOMAIN trail = 1 .. n
        /\ \A l \in 1 .. n : DOMAIN trail[l] = 1 .. Len(trail[l])
    BY Places
  <1>2. p \in Lit
    OBVIOUS
  <1>3. \A l \in 1 .. n : var(p) \in vars_of(Elems(trail[l])) <=> In(l)
    <2> TAKE l \in 1 .. n
    <2>1. Elems(trail[l]) \in SUBSET assigns
      <3>1. l \in DOMAIN trail
        BY <1>1
      <3>2. \A i \in DOMAIN trail[l] : trail[l][i] \in assigns
        BY <3>1 DEF TrailRight
      <3> QED
        BY <3>2 DEF Elems
    <2>2. var(p) \in vars_of(Elems(trail[l])) <=> (p \in Elems(trail[l]) \/ -p \in Elems(trail[l]))
      BY <2>1, <1>2, NegFacts
    <2>3. -p \notin assigns
      BY DEF TrailRight
    <2> QED
      BY <2>1, <2>2, <2>3
  <1>4. \A k, l \in 1 .. n : In(k) /\ In(l) => k = l
    <2> SUFFICES ASSUME NEW k \in 1 .. n, NEW l \in 1 .. n, In(k), In(l) PROVE k = l
      OBVIOUS
    <2>1. PICK i \in DOMAIN trail[k] : trail[k][i] = p
      BY DEF Elems
    <2>2. PICK j \in DOMAIN trail[l] : trail[l][j] = p
      BY DEF Elems
    <2>3. k \in DOMAIN trail /\ l \in DOMAIN trail
      BY <1>1
    <2> QED
      BY <2>1, <2>2, <2>3 DEF TrailRight
  <1>5. Deep = UNION {Elems(trail[l]) : l \in 2 .. n}
    BY DEF Deep, DeepOf
  <1>6. p \in Deep <=> \E l \in 2 .. n : In(l)
    BY <1>5
  <1> DEFINE S == {l \in 1 .. n : In(l)}
  <1>7. levelOf(var(p)) = IF \E l \in 1 .. n : In(l) THEN (CHOOSE l \in 1 .. n : In(l)) - 1 ELSE 0
    <2>1. (CHOOSE l \in DOMAIN trail : var(p) \in vars_of(Elems(trail[l]))) = CHOOSE l \in 1 .. n : In(l)
      BY <1>1, <1>3
    <2>2. (\E l \in DOMAIN trail : var(p) \in vars_of(Elems(trail[l]))) <=> \E l \in 1 .. n : In(l)
      BY <1>1, <1>3
    <2> HIDE DEF In, n
    <2> QED
      BY <2>1, <2>2 DEF levelOf
  <1> HIDE DEF In, n, S
  <1>8. CASE \E l \in 1 .. n : In(l)
    <2>1. PICK k \in 1 .. n : In(k)
      BY <1>8
    <2>2. (CHOOSE l \in 1 .. n : In(l)) = k
      BY <2>1, <1>4
    <2>3. levelOf(var(p)) = k - 1
      BY <2>2, <1>7, <1>8
    <2>4. \A l \in 1 .. n : In(l) <=> l = k
      BY <2>1, <1>4
    <2>5. levelOf(var(p)) \in 0 .. n - 1
      BY <2>1, <2>3, <1>1
    <2>6. \A j \in 1 .. n - 1 : levelOf(var(p)) = j <=> In(j + 1)
      <3> TAKE j \in 1 .. n - 1
      <3>1. j + 1 \in 1 .. n
        BY <1>1
      <3>2. In(j + 1) <=> j + 1 = k
        BY <3>1, <2>4
      <3>3. j + 1 = k <=> k - 1 = j
        BY <2>1, <1>1
      <3> QED
        BY <3>2, <3>3, <2>3
    <2>7. levelOf(var(p)) = 0 <=> p \notin Deep
      <3>1. p \in Deep <=> k \in 2 .. n
        <4>1. \A l \in 2 .. n : l \in 1 .. n
          BY <1>1
        <4> QED
          BY <4>1, <2>4, <1>6
      <3> QED
        BY <3>1, <2>1, <2>3, <1>1
    <2> QED
      BY <2>5, <2>6, <2>7 DEF In, n
  <1>9. CASE ~ \E l \in 1 .. n : In(l)
    <2>1. levelOf(var(p)) = 0
      BY <1>7, <1>9
    <2>2. \A j \in 1 .. n - 1 : ~ In(j + 1)
      <3>1. \A j \in 1 .. n - 1 : j + 1 \in 1 .. n
        BY <1>1
      <3> QED
        BY <3>1, <1>9
    <2>3. p \notin Deep
      <3>1. \A l \in 2 .. n : l \in 1 .. n
        BY <1>1
      <3> QED
        BY <3>1, <1>6, <1>9
    <2>4. 0 \in 0 .. n - 1 /\ \A j \in 1 .. n - 1 : j # 0
      BY <1>1
    <2> QED
      BY <2>1, <2>2, <2>3, <2>4 DEF In, n
  <1> QED
    BY <1>8, <1>9

-----------------------------------------------------------------------------
(* Solutions. *)

(* When all is fixed and no propagator has anything to say, the literals that *)
(* are true are accepted by all of them; so is a model.                      *)
LEMMA AssignsAccepted ==
  ASSUME given \in DOMAIN Runs, assigns \in SUBSET Lit, TrailRight(trail, assigns), AllFixed,
         \A k \in Inference : Quiet(k)
  PROVE  assigns \in Accepted(Runs[given])
  <1> DEFINE g == Runs[given]
  <1>1. assigns \in SUBSET LitOf(g)
    BY DEF Lit, LitSets
  <1>2. ASSUME NEW x \in g.Var
        PROVE  ~ (x \in assigns /\ -x \in assigns) /\ (x \in g.Hidden \/ x \in assigns \/ -x \in assigns)
    BY <1>2 DEF TrailRight, AllFixed, Decidable, Var, Hidden, isUndef, isTrue, isFalse
  <1>3. ASSUME NEW k \in g.Inference, k.body \subseteq assigns
        PROVE  k.heads # {} /\ k.heads \subseteq assigns
    <2>1. k \in Inference
      BY DEF Inference
    <2>2. /\ k.kind = "short" => k.heads \subseteq assigns
          /\ k.heads # {} /\ \A h \in k.heads : -h \notin assigns
      BY <2>1, <1>3 DEF Quiet, isFalse
    <2>3. ASSUME NEW h \in k.heads, k.kind # "short" PROVE h \in assigns
      <3>1. h \in Lit /\ var(h) \notin Hidden
        BY <2>1, <2>3, RunFacts
      <3>2. var(h) \in Var /\ (h = var(h) \/ h = -var(h))
        BY <3>1, LitFacts DEF var
      <3>3. ~ isUndef(var(h))
        BY <3>1, <3>2 DEF AllFixed, Decidable
      <3>4. -(-var(h)) = var(h)
        BY <3>2, LitFacts
      <3> QED
        BY <3>2, <3>3, <3>4, <2>2 DEF isUndef, isTrue, isFalse
    <2> QED
      BY <2>2, <2>3
  <1> HIDE DEF g
  <1>4. assigns \in Accepted(g)
    BY <1>1, <1>2, <1>3 DEF Accepted
  <1> QED
    BY <1>4 DEF g

LEMMA ModelAccepted ==
  ASSUME given \in DOMAIN Runs, NEW m \in Models
  PROVE  m \in Accepted(Runs[given])
  <1> DEFINE g == Runs[given]
  <1>1. m \in ModelsOf(g)
    BY DEF Models, ModelSets
  <1>2. m \in SUBSET LitOf(g) /\ \A k \in g.Inference : k.body \subseteq m => k.heads # {} /\ k.heads \subseteq m
    BY <1>1 DEF ModelsOf
  <1>3. \A x \in g.Var : (x \in m) # (-x \in m)
    BY <1>1 DEF ModelsOf
  <1>4. \A x \in g.Var : ~ (x \in m /\ -x \in m) /\ (x \in g.Hidden \/ x \in m \/ -x \in m)
    <2> TAKE x \in g.Var
    <2>1. (x \in m) \in BOOLEAN /\ (-x \in m) \in BOOLEAN
      OBVIOUS
    <2> QED
      BY <2>1, <1>3
  <1> HIDE DEF g
  <1>5. m \in Accepted(g)
    BY <1>2, <1>4 DEF Accepted
  <1> QED
    BY <1>5 DEF g

(* A model that agrees with all outputs shows what is printed. *)
LEMMA ShownSame ==
  ASSUME given \in DOMAIN Runs, assigns \in SUBSET Lit, TrailRight(trail, assigns), AllFixed,
         \A k \in Inference : Quiet(k), NEW m \in Models,
         \A l \in OutputLits : var(l) \notin Hidden => l \in m,
         \A h \in OutputLits : var(h) \in Hidden =>
           \E k \in Inference : h \in k.heads /\ k.body \subseteq assigns \cap m
  PROVE  Show(m) = Show(assigns)
  <1> DEFINE g == Runs[given]
  <1>1. g \in Elems(Runs)
    BY DEF Elems
  <1>2. assigns \in Accepted(g) /\ m \in Accepted(g)
    BY AssignsAccepted, ModelAccepted
  <1>3. Shown = (Output \ Hidden)
          \cup UNION {vars_of(k.body) : k \in {i \in Inference : i.heads \cap Output \cap Hidden # {}}}
    BY DEF Shown, ShownSets, ShownOf, Output, Hidden, Inference
  <1>4. ASSUME NEW x \in Shown, x \notin Output \ Hidden
        PROVE  \E i \in Inference : \E h \in i.heads : h \in Output \cap Hidden /\ x \in vars_of(i.body)
    <2>1. PICK i \in {k \in Inference : k.heads \cap Output \cap Hidden # {}} : x \in vars_of(i.body)
      BY <1>3, <1>4
    <2> QED
      BY <2>1
  <1>5. \A x \in Shown : x \in Var /\ x \notin Hidden
    <2> SUFFICES ASSUME NEW x \in Shown, x \notin Output \ Hidden PROVE x \in Var /\ x \notin Hidden
      BY LitFacts
    <2>1. PICK i \in Inference : \E h \in i.heads : h \in Output \cap Hidden /\ x \in vars_of(i.body)
      BY <1>4
    <2>2. PICK h \in i.heads : h \in Output \cap Hidden /\ x \in vars_of(i.body)
      BY <2>1
    <2>3. h \in Nat
      BY <2>2, LitFacts
    <2>4. var(h) \in Hidden
      BY <2>2, <2>3 DEF var
    <2>5. \A l \in i.body : l \in Lit /\ var(l) \notin Hidden
      BY <2>4, RunFacts
    <2> QED
      BY <2>2, <2>5, LitFacts DEF vars_of
  <1>6. \A l \in assigns : var(l) \in Output => l \in OutputLits
    BY DEF OutputLits
  <1>7. ASSUME NEW l \in assigns, var(l) \in Shown PROVE l \in m
    <2>1. CASE var(l) \in Output \ Hidden
      BY <2>1, <1>6
    <2>2. CASE var(l) \notin Output \ Hidden
      <3>1. PICK i \in Inference : \E h \in i.heads : h \in Output \cap Hidden /\ var(l) \in vars_of(i.body)
        BY <2>2, <1>4, <1>7
      <3>2. PICK h \in i.heads : h \in Output \cap Hidden /\ var(l) \in vars_of(i.body)
        BY <3>1
      <3> DEFINE Fixing == {k \in g.Inference : h \in k.heads}
      <3>3. h \in g.Output \cap g.Hidden
        BY <3>2 DEF Output, Hidden
      <3>4. /\ \E k \in Fixing : k.body \subseteq assigns
            /\ \A b \in Accepted(g) : \A k \in Fixing : k.body \subseteq assigns \cap b =>
                 \A j \in Fixing : \A q \in assigns : var(q) \in vars_of(j.body) => q \in b
        BY <3>3, <1>1, <1>2, OutputAssumption
      <3>5. PICK k \in Fixing : k.body \subseteq assigns
        BY <3>4
      <3>6. h \in assigns
        BY <3>5, <1>2 DEF Accepted
      <3>7. var(h) = h
        <4>1. h \in Nat
          BY <3>2, LitFacts
        <4> QED
          BY <4>1 DEF var
      <3>8. PICK j \in Inference : h \in j.heads /\ j.body \subseteq assigns \cap m
        BY <3>2, <3>6, <3>7, <1>6
      <3>9. j \in Fixing /\ i \in Fixing
        BY <3>2, <3>8 DEF Inference
      <3> HIDE DEF Fixing
      <3>10. \A q \in assigns : var(q) \in vars_of(i.body) => q \in m
        BY <3>4, <3>8, <3>9, <1>2
      <3> QED
        BY <3>2, <3>10
    <2> QED
      BY <2>1, <2>2
  <1>8. ASSUME NEW l \in m, var(l) \in Shown PROVE l \in assigns
    <2>1. l \in Lit /\ -l \in Lit /\ var(-l) = var(l) /\ (l = var(l) \/ l = -var(l)) /\ -(-l) = l
      BY LitFacts, ModelFacts DEF var
    <2>2. ~ isUndef(var(l))
      BY <1>5, <1>8 DEF AllFixed, Decidable
    <2>3. -(-var(l)) = var(l)
      BY <1>5, <1>8, LitFacts
    <2>4. l \in assigns \/ -l \in assigns
      BY <2>1, <2>2, <2>3 DEF isUndef, isTrue, isFalse
    <2>5. -l \notin m
      BY <2>1, ModelFacts
    <2>6. -l \in assigns => -l \in m
      BY <2>1, <1>7, <1>8
    <2> QED
      BY <2>4, <2>5, <2>6
  <1> QED
    BY <1>7, <1>8 DEF Show

=============================================================================
