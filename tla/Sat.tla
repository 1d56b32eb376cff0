--------------------------------- MODULE Sat ---------------------------------
(* The conflict-driven solver: SAT (core/sat.cpp, core/conflict.cpp) inside  *)
(* the loop of Engine::search (core/engine.cpp), enumerating solutions.      *)
(*                                                                           *)
(* Clause objects live in a memory of slots and are referred to by slot, so  *)
(* that a use after free can be seen.  A clause keeps the places that matter *)
(* to the code: c[0], c[1] and the set of the others.  sat.trail is a list   *)
(* per decision level; the level of a variable is the list it is in, which   *)
(* is what tpToLevel(trailpos[x]) computes (module Trail, PositionsTellLevels). *)
(* FD propagators are reduced to the clauses they stand for (Inference):     *)
(* they may infer at any time, and must have rejected a conflict before the  *)
(* search goes on at level 0 or claims a solution.                           *)
EXTENDS Integers, Sequences, FiniteSets

CONSTANTS
  Runs,           \* the runs of the program that are looked at, a sequence of records of
                  \*   Var             the variables, positive integers; x and -x are the literals of x
                  \*   Problem         the clauses to add, in order, each a sequence of literals
                  \*   Inference       records [body, heads, kind]: the propagators enforce body => heads, or
                  \*                   forbid body when heads = {}; kind is how they explain it
                  \*   Hidden          variables not decidable, uipable or learnable (IntVarLL::valLit)
                  \*   Output          variables of engine.outputs
                  \*   one_watch, bin_clause_opt, nof_learnts  of so
                  \*   nof_solutions   so.nof_solutions, 0 for all
                  \*   restart_scale   conflicts between two restarts (so.restart_type constant), 0 for never
  MaxClause       \* bound: clause objects alive at once

neg(S) == {-l : l \in S}
var(l) == IF l < 0 THEN -l ELSE l
vars_of(S) == {var(l) : l \in S}
Elems(s) == {s[i] : i \in DOMAIN s}
LitOf(g) == g.Var \cup neg(g.Var)

(* No clause says a literal twice.  SAT::addClause would keep both, and two  *)
(* watch elements for them, where the sets of this module have one of each.  *)
ASSUME ProblemAssumption ==
  \A g \in Elems(Runs) :
    /\ g.Var \subseteq Nat \ {0} /\ IsFiniteSet(g.Var)
    /\ g.Problem \in Seq(Seq(LitOf(g)))
    /\ \A n \in DOMAIN g.Problem : \A i, j \in DOMAIN g.Problem[n] :
         g.Problem[n][i] = g.Problem[n][j] => i = j
ASSUME InferenceAssumption ==
  \A g \in Elems(Runs) : \A k \in g.Inference :
    /\ k.body \subseteq LitOf(g) /\ k.body # {} /\ k.heads \subseteq LitOf(g)
    /\ k.kind \in {"eager", "short", "lazy"}
    /\ vars_of(k.heads) \cap g.Hidden # {} => k.kind = "short"
ASSUME FlagAssumption ==
  \A g \in Elems(Runs) :
    /\ g.Hidden \subseteq g.Var /\ g.Output \subseteq g.Var
    /\ {g.one_watch, g.bin_clause_opt} \subseteq BOOLEAN
    /\ {g.nof_learnts, g.nof_solutions, g.restart_scale, MaxClause} \subseteq Nat

(* valLit (IntVarLL) becomes true by bounds alone and is in no clause posted. *)
(* Propagators explain by it only when it is true (getValLit), so that none   *)
(* reasons from its negation.                                                *)
ASSUME HiddenAssumption ==
  \A g \in Elems(Runs) :
    /\ \A i \in DOMAIN g.Problem : vars_of(Elems(g.Problem[i])) \cap g.Hidden = {}
    /\ \A k \in g.Inference :
         /\ (k.body \cup k.heads) \cap neg(g.Hidden) = {}
         /\ k.heads \cap g.Hidden # {} => vars_of(k.body) \cap g.Hidden = {}

(* The assignments that all propagators accept.  With all else fixed, bounds  *)
(* fix an output that has a valLit, and with it what is shown of it.          *)
Accepted(g) ==
  {a \in SUBSET LitOf(g) :
     /\ \A x \in g.Var : ~ (x \in a /\ -x \in a) /\ (x \in g.Hidden \/ x \in a \/ -x \in a)
     /\ \A k \in g.Inference : k.body \subseteq a => k.heads # {} /\ k.heads \subseteq a}
ASSUME OutputAssumption ==
  \A g \in Elems(Runs) : \A h \in g.Output \cap g.Hidden :
    LET Fixing == {k \in g.Inference : h \in k.heads} IN
    \A a \in Accepted(g) :
      /\ \E k \in Fixing : k.body \subseteq a
      /\ \A b \in Accepted(g) : \A k \in Fixing : k.body \subseteq a \cap b =>
           \A i \in Fixing : \A l \in a : var(l) \in vars_of(i.body) => l \in b

VARIABLES
  given,    \* which of the runs this is
  pc,       \* "load", "propagate", "branch", "resolve", "select", "learn", or the verdict
  loaded,   \* clauses of Problem added so far
  clause,   \* the clause objects: slot -> [c0, c1, rest, learnt, temp]
  learnts,  \* slots of sat.learnts
  watches,  \* literal -> watch elements, looked at when the literal becomes true
  assigns,  \* the literals that are true
  trail,    \* sat.trail, lists of literals by level (level l at l + 1)
  qhead,    \* sat.qhead, by level
  rtrail,   \* sat.rtrail, slots by level
  reason,   \* variable -> reason; NoReason when unassigned (stale in the code, never read)
  confl,    \* sat.confl
  todo,     \* watches of the literal being propagated that are still to be looked at
  seen,     \* the variables with seen[x] # 0
  an,       \* the locals of the conflict analysis
  budget,   \* nof_conflicts - conflictC; stays 0 when restart_scale = 0
  solutions,\* engine.solutions; stays 0 when nof_solutions = 0, nothing reads it then
  found     \* what has been printed, as sets of literals over Shown

db == <<loaded, clause, learnts, watches>>
stack == <<assigns, trail, qhead, rtrail, reason>>
vars == <<given, pc, db, stack, confl, todo, seen, an, budget, solutions, found>>

Var == Runs[given].Var
LitSets == [i \in DOMAIN Runs |-> LitOf(Runs[i])]
Lit == LitSets[given]
Problem == Runs[given].Problem
Inference == Runs[given].Inference
Hidden == Runs[given].Hidden
Output == Runs[given].Output
one_watch == Runs[given].one_watch
bin_clause_opt == Runs[given].bin_clause_opt
nof_learnts == Runs[given].nof_learnts
nof_solutions == Runs[given].nof_solutions
restart_scale == Runs[given].restart_scale

decisionLevel == Len(trail) - 1
Last(s) == s[Len(s)]
Keep(s, level) == SubSeq(s, 1, level + 1)

NoReason == <<"none", 0>>
Unset == [index |-> 0, pathC |-> 0, last |-> NoReason, expl |-> {}, out |-> {}, p |-> 0,
          removed |-> {}]

isTrue(l) == l \in assigns
isFalse(l) == -l \in assigns
isUndef(l) == ~ isTrue(l) /\ ~ isFalse(l)

(* Literals of a clause; those at places 1, 2, ...: its explanation of c[0]. *)
Lits(c) == ({c.c0, c.c1} \cup c.rest) \ {0}
Rest(c) == ({c.c1} \cup c.rest) \ {0}

(* Level of x: 0 also for the variables the root clean-up took off the trail. *)
levelOf(x) ==
  IF \E l \in DOMAIN trail : x \in vars_of(Elems(trail[l]))
  THEN (CHOOSE l \in DOMAIN trail : x \in vars_of(Elems(trail[l]))) - 1
  ELSE 0

isCurLevel(x) == levelOf(x) = decisionLevel

Highest(S) == IF S = {} THEN 0 ELSE CHOOSE l \in S : \A k \in S : k <= l

(* malloc: the first free slot. *)
FreeIn(mem) == 1..MaxClause \ DOMAIN mem
SlotIn(mem) == CHOOSE i \in FreeIn(mem) : \A j \in FreeIn(mem) : i <= j
Free == FreeIn(clause)
Slot == SlotIn(clause)
With(mem, i, c) == [j \in DOMAIN mem \cup {i} |-> IF j = i THEN c ELSE mem[j]]
Without(mem, S) == [j \in DOMAIN mem \ S |-> mem[j]]

(* What a reason says: the false literals of the clause that implied p. *)
Explanation(r) ==
  CASE r[1] = "clause" -> Rest(clause[r[2]])
    [] r[1] = "lits"   -> r[2]
    [] r[1] = "lazy"   -> neg(r[2].body)

ConflictLits == IF confl[1] = "clause" THEN Lits(clause[confl[2]]) ELSE confl[2]

locked(i) == reason[var(clause[i].c0)] = <<"clause", i>> /\ isTrue(clause[i].c0)

-----------------------------------------------------------------------------
(* Meaning.  A model is the set of literals it makes true. *)

Satisfies(m, C) == m \cap C # {}

(* valLit stands for "fixed": true exactly when some bound pair fixes the variable. *)
ModelsOf(g) ==
  {m \in SUBSET LitOf(g) :
     /\ \A x \in g.Var : (x \in m) # (-x \in m)
     /\ \A i \in DOMAIN g.Problem : Satisfies(m, Elems(g.Problem[i]))
     /\ \A k \in g.Inference : k.body \subseteq m => k.heads # {} /\ k.heads \subseteq m
     /\ \A h \in g.Hidden : h \in m <=> \E k \in g.Inference : h \in k.heads /\ k.body \subseteq m}
ModelSets == [i \in DOMAIN Runs |-> ModelsOf(Runs[i])]
Models == ModelSets[given]

(* What a solution shows of a model: the outputs, a valLit by its bounds. *)
ShownOf(g) ==
  (g.Output \ g.Hidden)
    \cup UNION {vars_of(k.body) : k \in {i \in g.Inference : i.heads \cap g.Output \cap g.Hidden # {}}}
ShownSets == [i \in DOMAIN Runs |-> ShownOf(Runs[i])]
Shown == ShownSets[given]
Show(m) == {l \in m : var(l) \in Shown}
Solutions == {Show(m) : m \in Models}
Remaining == {m \in Models : Show(m) \notin found}

-----------------------------------------------------------------------------
Init ==
  /\ given \in DOMAIN Runs
  /\ pc = "load" /\ loaded = 0
  /\ clause = <<>> /\ learnts = {}
  /\ watches = [l \in Lit |-> {}]
  /\ assigns = {} /\ trail = <<<<>>>> /\ qhead = <<0>> /\ rtrail = <<{}>>
  /\ reason = [x \in Var |-> NoReason]
  /\ confl = NoReason /\ todo = {} /\ seen = {} /\ an = Unset
  /\ budget = restart_scale /\ solutions = 0 /\ found = {}

(* SAT::enqueue, and SAT::cEnqueue of an unassigned literal. *)
enqueue(p, r) ==
  /\ assigns' = assigns \cup {p}
  /\ trail' = [trail EXCEPT ![Len(trail)] = Append(@, p)]
  /\ reason' = [reason EXCEPT ![var(p)] = r]
  /\ UNCHANGED <<qhead, rtrail>>

(* The watch elements of a clause for c[0] and c[1]: the slot, or the literal *)
(* to imply; a learnt clause may be watched on c[1] only.                     *)
attach(w, c0, c1, both, e0, e1) ==
  [l \in Lit |-> w[l] \cup (IF l = -c1 THEN {e1} ELSE {})
                      \cup (IF l = -c0 /\ both THEN {e0} ELSE {})]
detach(w, S) == [l \in Lit |-> {e \in w[l] : ~ (e[1] = "clause" /\ e[2] \in S)}]

(* addClause: true clauses are dropped, false literals too, then by size; the *)
(* first two literals left are c[0] and c[1].                                *)
addClause ==
  LET C == Problem[loaded + 1]
      open == {i \in DOMAIN C : isUndef(C[i])}
      firstTwo(i, j) == i < j /\ \A k \in open : k = i \/ k >= j
  IN /\ pc = "load" /\ loaded < Len(Problem)
     /\ loaded' = loaded + 1
     /\ IF \E l \in Elems(C) : isTrue(l)
        THEN UNCHANGED <<pc, clause, watches, stack>>
        ELSE \/ /\ \A i, j \in open : i = j
                /\ IF open = {} THEN pc' = "GUN" /\ UNCHANGED stack
                   ELSE (\E i \in open : enqueue(C[i], NoReason)) /\ UNCHANGED pc
                /\ UNCHANGED <<clause, watches>>
             \/ /\ \E i, j \in open :
                     /\ firstTwo(i, j) /\ open = {i, j}
                     /\ watches' = attach(watches, C[i], C[j], TRUE, <<"bin", C[j]>>, <<"bin", C[i]>>)
                /\ UNCHANGED <<pc, clause, stack>>
             \/ /\ Free # {}
                /\ \E i, j \in open :
                     /\ firstTwo(i, j) /\ open # {i, j}
                     /\ clause' = With(clause, Slot,
                           [c0 |-> C[i], c1 |-> C[j], rest |-> {C[k] : k \in open} \ {C[i], C[j]},
                            learnt |-> FALSE, temp |-> FALSE])
                     /\ watches' = attach(watches, C[i], C[j], TRUE, <<"clause", Slot>>, <<"clause", Slot>>)
                /\ UNCHANGED <<pc, stack>>
     /\ UNCHANGED <<learnts, confl, todo, seen, an, budget, solutions, found>>

startSearch ==
  /\ pc = "load" /\ loaded = Len(Problem)
  /\ pc' = "propagate"
  /\ UNCHANGED <<db, stack, confl, todo, seen, an, budget, solutions, found>>

-----------------------------------------------------------------------------
(* SAT::propagate, one watch element per step; the order of a watch list is  *)
(* left open. *)

(* Mutant: the literals enqueued last are not waited for. *)
ConsistentEarly == todo = {}

Propagating == pc = "propagate" /\ confl = NoReason
Consistent == todo = {} /\ Last(qhead) = Len(Last(trail))
current == Last(trail)[Last(qhead)]

nextLiteral ==
  /\ Propagating /\ todo = {}
  /\ Last(qhead) < Len(Last(trail))
  /\ qhead' = [qhead EXCEPT ![Len(qhead)] = @ + 1]
  /\ todo' = watches[Last(trail)[Last(qhead) + 1]]
  /\ UNCHANGED <<pc, db, assigns, trail, rtrail, reason, confl, seen, an, budget, solutions, found>>

(* A conflict ends the round: the rest of the watches and of the trail is skipped. *)
clash(r) ==
  /\ confl' = r
  /\ todo' = {}
  /\ qhead' = [qhead EXCEPT ![Len(qhead)] = Len(Last(trail))]
  /\ UNCHANGED <<assigns, trail, rtrail, reason>>

absorbedBinary ==
  \E e \in todo :
    LET q == e[2] IN
    /\ Propagating /\ e[1] = "bin"
    /\ \/ isTrue(q) /\ todo' = todo \ {e} /\ UNCHANGED <<stack, confl>>
       \/ isUndef(q) /\ enqueue(q, <<"lits", {-current}>>) /\ todo' = todo \ {e} /\ UNCHANGED confl
       \/ isFalse(q) /\ clash(<<"lits", {q, -current}>>)
    /\ UNCHANGED <<pc, db, seen, an, budget, solutions, found>>

(* The false literal goes to place 1, where a new watch replaces it if there  *)
(* is one; otherwise c[0] is implied or the clause is the conflict.           *)
Swapped(c) == IF c.c0 = -current THEN [c EXCEPT !.c0 = c.c1, !.c1 = c.c0] ELSE c

watchedClause ==
  \E e \in todo :
    LET i == e[2]
        c == Swapped(clause[i])
    IN /\ Propagating /\ e[1] = "clause"
       /\ \/ /\ isTrue(c.c0) \/ isTrue(c.c1)
             /\ todo' = todo \ {e}
             /\ UNCHANGED <<clause, watches, stack, confl>>
          \/ /\ ~ isTrue(c.c0) /\ ~ isTrue(c.c1)
             /\ \E l \in c.rest :
                  /\ ~ isFalse(l)
                  /\ clause' = [clause EXCEPT ![i] =
                       [c EXCEPT !.c1 = l, !.rest = (c.rest \ {l}) \cup {c.c1}]]
                  /\ watches' = [watches EXCEPT ![current] = @ \ {e}, ![-l] = @ \cup {e}]
             /\ todo' = todo \ {e}
             /\ UNCHANGED <<stack, confl>>
          \/ /\ ~ isTrue(c.c0) /\ ~ isTrue(c.c1)
             /\ \A l \in c.rest : isFalse(l)
             /\ clause' = [clause EXCEPT ![i] = c]
             /\ \/ isFalse(c.c0) /\ clash(<<"clause", i>>)
                \/ ~ isFalse(c.c0) /\ enqueue(c.c0, <<"clause", i>>) /\ todo' = todo \ {e}
                   /\ UNCHANGED confl
             /\ UNCHANGED watches
       /\ UNCHANGED <<pc, loaded, learnts, seen, an, budget, solutions, found>>

-----------------------------------------------------------------------------
(* FD propagators. *)

(* Reason_new: a temporary clause, freed with the level it was made at. *)
Reason_new(head, body) ==
  /\ Free # {}
  /\ clause' = With(clause, Slot,
                    [c0 |-> head, c1 |-> 0, rest |-> body, learnt |-> FALSE, temp |-> TRUE])
  /\ rtrail' = [rtrail EXCEPT ![Len(rtrail)] = @ \cup {Slot}]

(* The temporary clause a call shares between all the literals it infers. *)
Shared(k) == {i \in Last(rtrail) : clause[i].temp /\ clause[i].c1 = 0 /\ clause[i].rest = neg(k.body)}

(* SAT::cEnqueue on a literal that is not false. *)
infer ==
  \E k \in Inference : \E h \in k.heads :
    /\ Propagating /\ todo = {}
    /\ k.body \subseteq assigns /\ isUndef(h)
    /\ assigns' = assigns \cup {h}
    /\ trail' = [trail EXCEPT ![Len(trail)] = Append(@, h)]
    /\ \/ /\ k.kind = "eager" /\ Shared(k) = {}
          /\ Reason_new(0, neg(k.body))
          /\ reason' = [reason EXCEPT ![var(h)] = <<"clause", Slot>>]
       \/ /\ k.kind = "eager"
          /\ \E i \in Shared(k) : reason' = [reason EXCEPT ![var(h)] = <<"clause", i>>]
          /\ UNCHANGED <<clause, rtrail>>
       \/ /\ k.kind = "short"
          /\ reason' = [reason EXCEPT ![var(h)] = <<"lits", neg(k.body)>>]
          /\ UNCHANGED <<clause, rtrail>>
       \/ /\ k.kind = "lazy"
          /\ reason' = [reason EXCEPT ![var(h)] = <<"lazy", k>>]
          /\ UNCHANGED <<clause, rtrail>>
    /\ UNCHANGED <<pc, loaded, learnts, watches, qhead, confl, todo, seen, an, budget, solutions, found>>

(* SAT::cEnqueue on a false literal (getConfl or explain, then p in confl[0]), or a *)
(* propagator that fails with a clause of its own. *)
reject ==
  \E k \in Inference :
    LET heads == IF k.heads = {} THEN {0} ELSE {h \in k.heads : isFalse(h)} IN
    /\ Propagating /\ todo = {}
    /\ k.body \subseteq assigns
    /\ \E h \in heads :
         \/ /\ k.kind # "short" /\ Shared(k) = {}
            /\ Reason_new(h, neg(k.body))
            /\ confl' = <<"clause", Slot>>
         \/ /\ k.kind # "short"
            /\ \E i \in Shared(k) : /\ clause' = [clause EXCEPT ![i].c0 = h]
                                    /\ confl' = <<"clause", i>>
            /\ UNCHANGED rtrail
         \/ /\ k.kind = "short"
            /\ confl' = <<"lits", (neg(k.body) \cup {h}) \ {0}>>
            /\ UNCHANGED <<clause, rtrail>>
    /\ UNCHANGED <<pc, loaded, learnts, watches, assigns, trail, qhead, reason, todo, seen, an, budget, solutions, found>>

-----------------------------------------------------------------------------
(* SAT::btToLevel: what is undone, and the clause objects that are freed. *)
Undone(level) == UNION {Elems(trail[l]) : l \in level + 2 .. Len(trail)}
Freed(level) == UNION {rtrail[l] : l \in level + 2 .. Len(rtrail)}
Forget(S) == [x \in Var |-> IF x \in vars_of(S) THEN NoReason ELSE reason[x]]

btToLevel(level) ==
  /\ assigns' = assigns \ Undone(level)
  /\ trail' = Keep(trail, level)
  /\ qhead' = Keep(qhead, level)
  /\ reason' = Forget(Undone(level))

-----------------------------------------------------------------------------
(* One turn of Engine::search after Engine::propagate returned true. *)

Decidable == Var \ Hidden
AllFixed == \A x \in Decidable : ~ isUndef(x)

Quiet(k) ==
  k.body \subseteq assigns =>
    /\ k.kind = "short" => k.heads \subseteq assigns
    /\ decisionLevel = 0 \/ AllFixed => k.heads # {} /\ ~ \E h \in k.heads : isFalse(h)

PropagateTrue == Propagating /\ Consistent /\ \A k \in Inference : Quiet(k)

RestartDue == restart_scale > 0 /\ budget <= 0

restart ==
  /\ PropagateTrue /\ RestartDue
  /\ budget' = budget + restart_scale
  /\ btToLevel(0)
  /\ clause' = Without(clause, Freed(0))
  /\ rtrail' = Keep(rtrail, 0)
  /\ UNCHANGED <<pc, loaded, learnts, watches, confl, todo, seen, an, solutions, found>>

(* SAT::simplify: a true clause goes, else false literals beyond the watches. *)
simplified(c) == \E l \in Lits(c) : isTrue(l)

left(S) == {l \in S : isUndef(l)}

(* SAT::topLevelCleanUp; whether simplifyDB is due depends on counters left open. *)
topLevelCleanUp ==
  /\ PropagateTrue /\ ~ RestartDue /\ decisionLevel = 0
  /\ pc' = "branch"
  /\ \E due \in BOOLEAN :
       LET gone == IF due THEN {i \in learnts : simplified(clause[i])} ELSE {}
           mem == Without(clause, rtrail[1] \cup gone)
       IN /\ learnts' = learnts \ gone
          /\ watches' = detach(watches, gone)
          /\ clause' = [i \in DOMAIN mem |->
                          IF due /\ i \in learnts
                          THEN [mem[i] EXCEPT !.rest = left(@)] ELSE mem[i]]
  /\ rtrail' = <<{}>>
  /\ seen' = seen \cup vars_of(Elems(trail[1]))
  /\ trail' = <<<<>>>>
  /\ qhead' = <<0>>
  /\ UNCHANGED <<loaded, assigns, reason, confl, todo, an, budget, solutions, found>>

Ready == pc = "branch" \/ (PropagateTrue /\ ~ RestartDue /\ decisionLevel > 0)

(* branch, newDecisionLevel, makeDecision (the polarity is left open). *)
decide ==
  /\ Ready
  /\ \E l \in Lit :
       /\ var(l) \in Decidable /\ isUndef(l)
       /\ assigns' = assigns \cup {l}
       /\ trail' = Append(trail, <<l>>)
       /\ reason' = [reason EXCEPT ![var(l)] = NoReason]
  /\ qhead' = Append(qhead, 0)
  /\ rtrail' = Append(rtrail, {})
  /\ pc' = "propagate"
  /\ UNCHANGED <<db, confl, todo, seen, an, budget, solutions, found>>

OutputLits == {l \in assigns : var(l) \in Output}

(* Mutant: one output fixed at the root is taken for all of them. *)
someRootOutput == \E l \in OutputLits : levelOf(var(l)) = 0

rootFailure == \A l \in OutputLits : levelOf(var(l)) = 0

(* Mutant: the solution is not blocked. *)
blockNothing == UNCHANGED <<clause, rtrail, assigns, trail, qhead, reason, confl>>

(* The conflict clause is that the outputs differ; at the root there is none *)
(* to learn from, and the clause freed here is never read.                   *)
blockCurrentSol ==
  /\ Free # {}
  /\ confl' = <<"clause", Slot>>
  /\ \/ /\ rootFailure
        /\ btToLevel(0)
        /\ rtrail' = Keep(rtrail, 0)
        /\ clause' = Without(clause, Freed(0))
     \/ /\ ~ rootFailure
        /\ Reason_new(0, neg(OutputLits))
        /\ UNCHANGED <<assigns, trail, qhead, reason>>

(* Nothing to branch on: print; stop at nof_solutions, else look for another. *)
solution ==
  /\ Ready /\ AllFixed
  /\ found' = found \cup {Show(assigns)}
  /\ solutions' = IF nof_solutions > 0 THEN solutions + 1 ELSE 0
  /\ \/ /\ nof_solutions > 0 /\ solutions' = nof_solutions
        /\ pc' = "SAT"
        /\ UNCHANGED <<clause, rtrail, assigns, trail, qhead, reason, confl>>
     \/ /\ nof_solutions > 0 => solutions' # nof_solutions
        /\ pc' = "propagate"
        /\ blockCurrentSol
  /\ UNCHANGED <<loaded, learnts, watches, todo, seen, an, budget>>

-----------------------------------------------------------------------------
(* SAT::analyze, in the order of its loops. *)

atRoot == decisionLevel = 0

(* A temporary conflict clause would be freed with the levels above clevel. *)
needsCopy(clevel) ==
  clevel < decisionLevel /\ confl[1] = "clause" /\ clause[confl[2]].temp

(* Engine::search at label Conflict; findConflictLevel and the start of      *)
(* getLearntClause.                                                          *)
conflict ==
  /\ pc = "propagate" /\ confl # NoReason /\ todo = {}
  /\ budget' = IF restart_scale > 0 THEN budget - 1 ELSE budget
  /\ IF atRoot
     THEN /\ pc' = "GUN"
          /\ UNCHANGED <<clause, confl, stack, an>>
     ELSE LET clevel == Highest({levelOf(var(l)) : l \in ConflictLits})
              copy == needsCopy(clevel)
              kept == Keep(rtrail, clevel)
          IN /\ btToLevel(clevel)
             /\ copy => Free # {}
             /\ clause' = Without(IF copy THEN With(clause, Slot, clause[confl[2]]) ELSE clause,
                                  Freed(clevel))
             /\ rtrail' = IF copy THEN [kept EXCEPT ![Len(kept)] = @ \cup {Slot}] ELSE kept
             /\ confl' = IF copy THEN <<"clause", Slot>> ELSE confl
             /\ an' = [Unset EXCEPT !.index = Len(trail[clevel + 1]), !.expl = ConflictLits]
             /\ pc' = "resolve"
  /\ UNCHANGED <<loaded, learnts, watches, todo, seen, solutions, found>>

(* Every literal of the explanation not seen yet is counted when it is of the *)
(* current level and goes to out_learnt otherwise.                            *)
resolve ==
  LET new == {q \in an.expl : var(q) \notin seen}
      cur == {q \in new : isCurLevel(var(q))}
  IN /\ pc = "resolve"
     /\ seen' = seen \cup vars_of(new)
     /\ an' = [an EXCEPT !.pathC = @ + Cardinality(cur), !.out = @ \cup (new \ cur)]
     /\ pc' = "select"
     /\ UNCHANGED <<db, stack, confl, todo, budget, solutions, found>>

(* Mutant: reasons of the same kind are taken for the same reason. *)
sameKind(r) == an.last[1] = r[1]

(* p has the reason that was explained just before: nothing new in it. *)
sameReason(r) == an.last = r

(* FindNextExpl: the last seen literal p of the level; stop at a UIP, skip a  *)
(* reason just used, else explain p.  A lazy reason first undoes the level    *)
(* from p on (getExpl, btToPos).                                              *)
select ==
  LET ctrail == Last(trail)
      index == Highest({i \in 1 .. an.index : var(ctrail[i]) \in seen}) - 1
      p == ctrail[index + 1]
      r == reason[var(p)]
      gone == {ctrail[i] : i \in index + 1 .. Len(ctrail)}
      walked == [an EXCEPT !.index = index, !.pathC = @ - 1]
  IN /\ pc = "select"
     /\ seen' = seen \ {var(p)}
     /\ \/ /\ an.pathC = 1 /\ var(p) \notin Hidden
           /\ an' = [walked EXCEPT !.p = p]
           /\ pc' = "learn"
           /\ UNCHANGED stack
        \/ /\ an.pathC > 1 \/ var(p) \in Hidden
           /\ sameReason(r)
           /\ an' = walked
           /\ UNCHANGED <<pc, stack>>
        \/ /\ an.pathC > 1 \/ var(p) \in Hidden
           /\ ~ sameReason(r)
           /\ an' = [walked EXCEPT !.last = r, !.expl = Explanation(r)]
           /\ pc' = "resolve"
           /\ IF r[1] = "lazy"
              THEN /\ trail' = [trail EXCEPT ![Len(trail)] = SubSeq(ctrail, 1, index)]
                   /\ assigns' = assigns \ gone
                   /\ reason' = Forget(gone)
              ELSE UNCHANGED <<trail, assigns, reason>>
           /\ UNCHANGED <<qhead, rtrail>>
     /\ UNCHANGED <<db, confl, todo, budget, solutions, found>>

(* A literal of out_learnt that is not learnable gives way to its reason. *)
Unlearnable == {q \in an.out : var(q) \in Hidden}

explainUnlearnable ==
  /\ pc = "learn"
  /\ \E q \in Unlearnable :
       LET new == {l \in Explanation(reason[var(q)]) : var(l) \notin seen} IN
       /\ an' = [an EXCEPT !.out = (@ \ {q}) \cup new, !.removed = @ \cup {var(q)}]
       /\ seen' = seen \cup vars_of(new)
  /\ UNCHANGED <<pc, db, stack, confl, todo, budget, solutions, found>>

(* Mutant: the literals that were explained away stay seen. *)
ClearedKeepsRemoved == (seen \ vars_of(an.out)) \ {var(an.p)}

(* What explainUnlearnable and clearSeen leave. *)
Cleared == ((seen \ vars_of(an.out)) \ {var(an.p)}) \ an.removed

(* Mutant: chronological backtracking. *)
oneLevelBack == decisionLevel - 1

findBackTrackLevel == Highest({levelOf(var(q)) : q \in an.out})

(* Swapped to place 1: a literal enqueued last among those of out_learnt. *)
latest == {q \in an.out : levelOf(var(q)) = Highest({levelOf(var(l)) : l \in an.out})}

(* Mutant: reasons are dropped like the rest. *)
reduceDBUnlocked(S, droppable) ==
  IF Cardinality(S) < nof_learnts THEN {{}}
  ELSE {half \in SUBSET S : Cardinality(half) = Cardinality(S) \div 2}

(* The sorted lower half of learnts goes, except clauses that are reasons. *)
reduceDB(S, droppable) ==
  IF Cardinality(S) < nof_learnts THEN {{}}
  ELSE {half \cap droppable : half \in {T \in SUBSET S : Cardinality(T) = Cardinality(S) \div 2}}

(* clearSeen, findBackTrackLevel, btToLevel, addClause of the learnt clause,  *)
(* enqueue of its first literal, reduceDB.                                    *)
backjump ==
  LET c0 == -an.p
      n == Cardinality(an.out) + 1
      level == findBackTrackLevel
      absorbed == n = 2 /\ bin_clause_opt
      stays == n > 1 /\ ~ absorbed
      temporary == n <= 2 /\ bin_clause_opt
      kept == Keep(rtrail, level)
      lower == Without(clause, Freed(level))
      new == SlotIn(lower)
      r(c1) == IF absorbed THEN <<"lits", {c1}>> ELSE <<"clause", new>>
  IN /\ pc = "learn" /\ Unlearnable = {}
     /\ FreeIn(lower) # {}
     /\ seen' = Cleared
     /\ \E c1 \in IF n = 1 THEN {0} ELSE latest :
        \E drop \in reduceDB(IF stays THEN learnts \cup {new} ELSE learnts,
                             {i \in learnts : ~ locked(i) \/ clause[i].c0 \in Undone(level)}) :
          LET c == [c0 |-> c0, c1 |-> c1, rest |-> an.out \ {c1}, learnt |-> TRUE, temp |-> FALSE]
              mem == With(lower, new, c)
              added == IF absorbed THEN attach(watches, c0, c1, ~ one_watch, <<"bin", c1>>, <<"bin", c0>>)
                       ELSE IF stays THEN attach(watches, c0, c1, ~ one_watch,
                                                 <<"clause", new>>, <<"clause", new>>)
                       ELSE watches
          IN /\ clause' = Without(mem, drop)
             /\ learnts' = (IF stays THEN learnts \cup {new} ELSE learnts) \ drop
             /\ watches' = detach(added, drop)
             /\ reason' = [Forget(Undone(level)) EXCEPT ![var(c0)] = r(c1)]
     /\ assigns' = (assigns \ Undone(level)) \cup {c0}
     /\ trail' = [Keep(trail, level) EXCEPT ![level + 1] = Append(@, c0)]
     /\ qhead' = Keep(qhead, level)
     /\ rtrail' = IF temporary THEN [kept EXCEPT ![level + 1] = @ \cup {new}] ELSE kept
     /\ confl' = NoReason
     /\ an' = Unset
     /\ pc' = "propagate"
     /\ UNCHANGED <<loaded, todo, budget, solutions, found>>

-----------------------------------------------------------------------------
propagate == nextLiteral \/ absorbedBinary \/ watchedClause \/ infer \/ reject
search == restart \/ topLevelCleanUp \/ decide \/ solution
analyze == conflict \/ resolve \/ select \/ explainUnlearnable \/ backjump

(* search has returned. *)
returned == pc \in {"SAT", "GUN"} /\ UNCHANGED vars

Next == (addClause \/ startSearch \/ propagate \/ search \/ analyze \/ returned) /\ UNCHANGED given

Spec == Init /\ [][Next]_vars

(* One thread runs the loop: it takes a step whenever it can. *)
FairSpec == Spec /\ WF_vars(Next)

-----------------------------------------------------------------------------
ClauseObject == [c0 : Lit \cup {0}, c1 : Lit \cup {0}, rest : SUBSET Lit,
                 learnt : BOOLEAN, temp : BOOLEAN]
WatchElem == {"bin"} \X Lit \cup {"clause"} \X (1..MaxClause)
Reason == {NoReason} \cup {"clause"} \X (1..MaxClause)
          \cup {"lits"} \X (SUBSET Lit) \cup {"lazy"} \X Inference

(* Type invariant; the lists kept per level agree on the number of levels. *)
TypeOK ==
  /\ given \in DOMAIN Runs
  /\ pc \in {"load", "propagate", "branch", "resolve", "select", "learn", "SAT", "GUN"}
  /\ loaded \in 0 .. Len(Problem)
  /\ DOMAIN clause \subseteq 1..MaxClause
  /\ \A i \in DOMAIN clause : clause[i] \in ClauseObject
  /\ learnts \subseteq 1..MaxClause
  /\ \A l \in Lit : watches[l] \subseteq WatchElem
  /\ assigns \subseteq Lit
  /\ trail \in Seq(Seq(Lit)) /\ Len(trail) > 0
  /\ qhead \in Seq(Nat) /\ Len(qhead) = Len(trail)
  /\ rtrail \in Seq(SUBSET (1..MaxClause)) /\ Len(rtrail) = Len(trail)
  /\ \A x \in Var : reason[x] \in Reason
  /\ confl \in Reason
  /\ todo \subseteq WatchElem
  /\ seen \subseteq Var
  /\ solutions \in Nat /\ budget \in Int
  /\ found \subseteq SUBSET Lit

(* The clauses the solver acts on: objects, binary watches, root literals.   *)
Known ==
  {Lits(clause[i]) : i \in {j \in DOMAIN clause : ~ clause[j].temp}}
  \cup (UNION {{{-l, e[2]} : e \in {f \in watches[l] : f[1] = "bin"}} : l \in Lit})
  \cup {{l} : l \in {q \in assigns : levelOf(var(q)) = 0}}

(* Learning is sound: every clause kept, every literal fixed at the root and  *)
(* the nogood analysis has derived hold in each solution still to be printed. *)
LearntEntailed ==
  \A m \in Remaining :
    /\ \A C \in Known : Satisfies(m, C)
    /\ pc = "learn" /\ Unlearnable = {} => Satisfies(m, an.out \cup {-an.p})

(* When the search branches, propagation has missed nothing: no clause of the *)
(* problem is false or unit, and no learnt clause is false although one_watch *)
(* watches one literal of it only; with both watched it is not unit either.   *)
NothingMissed ==
  Ready =>
    /\ \A i \in DOMAIN clause :
         LET c == clause[i]
             open == {l \in Lits(c) : ~ isFalse(l)}
         IN c.temp \/ (c.learnt /\ i \notin learnts)
            \/ (\E l \in Lits(c) : isTrue(l))
            \/ Cardinality(open) >= IF c.learnt /\ one_watch THEN 1 ELSE 2
    /\ \A l \in assigns : \A e \in watches[l] : e[1] = "bin" => isTrue(e[2])

(* No reason of a literal above the root refers to a clause that was freed,  *)
(* by reduceDB, simplifyDB, or with the level it was made at.                *)
ReasonsLive ==
  \A l \in 2 .. Len(trail) : \A i \in DOMAIN trail[l] :
    LET r == reason[var(trail[l][i])] IN r[1] = "clause" => r[2] \in DOMAIN clause

(* The implication graph is acyclic and complete: above the root a literal is *)
(* a decision, the first of its level, or its explanation lists literals that *)
(* became false before it; a clause that implied it has it in first place.    *)
Before(q, l, i) ==
  \/ levelOf(var(q)) < l - 1
  \/ \E j \in 1 .. i - 1 : trail[l][j] = -q

ReasonsPrecede ==
  \A l \in 2 .. Len(trail) : \A i \in DOMAIN trail[l] :
    LET p == trail[l][i]
        r == reason[var(p)]
    IN IF r = NoReason THEN i = 1
       ELSE /\ \A q \in Explanation(r) : isFalse(q) /\ Before(q, l, i)
            /\ r[1] = "clause" /\ ~ clause[r[2]].temp => clause[r[2]].c0 = p

(* What analysis starts from is there and false (checkConflict), and it is    *)
(* above the root (the assertion of findConflictLevel).  It stays there after *)
(* the levels above it are gone, until analysis has read it.                  *)
ConflictHolds ==
  /\ \/ pc = "propagate" /\ confl # NoReason /\ decisionLevel > 0
     \/ pc = "resolve"
     => (confl[1] = "clause" => confl[2] \in DOMAIN clause)
  /\ pc = "propagate" /\ confl # NoReason /\ decisionLevel > 0 =>
       /\ \A q \in ConflictLits : isFalse(q)
       /\ \E q \in ConflictLits : levelOf(var(q)) > 0

(* All that the solver refers to when it explains: the reasons of literals    *)
(* and the conflict are there, in order and false.                           *)
ReasonsHold == ReasonsLive /\ ReasonsPrecede /\ ConflictHolds

(* pathC counts what is left to explain: the seen variables of the conflict   *)
(* level below index.  It never runs out before a UIP is found, and what went *)
(* to out_learnt is false below that level.                                   *)
AnalysisCounts ==
  /\ pc = "select" =>
       an.pathC > 0 /\ an.pathC = Cardinality({i \in 1 .. an.index : var(Last(trail)[i]) \in seen})
  /\ pc \in {"select", "learn"} =>
       \A q \in an.out : isFalse(q) /\ levelOf(var(q)) \in 1 .. decisionLevel - 1

(* After analysis only the variables fixed at the root stay seen. *)
SeenCleared ==
  pc \notin {"resolve", "select", "learn"} =>
    seen = {x \in Var : ~ isUndef(x)} \ UNION {vars_of(Elems(trail[l])) : l \in DOMAIN trail}

(* Types, and the marks and counters of conflict analysis: they agree while   *)
(* it runs and nothing of them is left for the next one.                     *)
AnalysisMarks == TypeOK /\ AnalysisCounts /\ SeenCleared

(* Each printed solution is a new one. *)
NoneTwice == nof_solutions > 0 => solutions = Cardinality(found)

(* A backjump goes to the one place where the learnt clause is unit: all of   *)
(* it is false but its first literal, which was unassigned, and one level     *)
(* lower another would be unassigned too.                                     *)
BackjumpAsserts ==
  [][pc = "learn" /\ pc' = "propagate" =>
       /\ \A q \in an.out : -q \in assigns'
       /\ Last(Last(trail')) = -an.p /\ an.p \notin assigns'
       /\ Len(trail') > 1 => \E q \in an.out : levelOf(var(q)) = Len(trail') - 1]_vars

(* The promise to the user, as a refinement. *)
answer == IF pc \in {"SAT", "GUN"} THEN pc ELSE "running"
E == INSTANCE Enumeration WITH
       solutions <- Solutions, wanted <- nof_solutions, printed <- solutions
EnumeratesSolutions == E!ESpec

(* The search ends. *)
Terminates == <>(pc \in {"SAT", "GUN"})
=============================================================================
