--------------------------------- MODULE Search --------------------------------
(* Engine::search (core/engine.cpp) with assumptions, branch and bound, the   *)
(* mode without learning, restarts, time-out, and the hooks that a model may  *)
(* hang on restarts (FlatZincSpace::onRestart, flatzinc/flatzinc.cpp).        *)
(*                                                                            *)
(* A literal is the set of assignments that satisfy it; the state of the      *)
(* propagation is the set of assignments left at each level.  Propagation is  *)
(* sound and may be weak, but fails when one assignment is left that is no    *)
(* solution; what it guarantees is shown in Sat and Propagation.              *)
EXTENDS Integers, Sequences, FiniteSets, SequencesExt

CONSTANTS
  X,              \* the integer variables
  Point,          \* the assignments X -> Int that the initial domains allow
  Solution,       \* those that satisfy the constraints
  LL,             \* variables of type INT_VAR_LL
  opt_var,        \* the objective
  StatusVar,      \* iv[restart_status]
  LastVar,        \* of int_last_val
  UniformVar,     \* of int_uniform
  SolFrom, SolTo, \* of int_sol: the stored variable, the assigned one
  CompleteVar,    \* of mark_complete, true when 1
  Options         \* the set of option records that are looked at:
                  \*   lazy        so.lazy
                  \*   goal        "all" (opt_var is null), "min" or "max"
                  \*   nof         so.nof_solutions, 0 for all
                  \*   assume      the user's assumptions (assume annotation), a sequence
                  \*   hooks       the on_restart functions used: subset of Hook
                  \*   index       the value of restart_status when "status" is among them
                  \*   restarts    restart limits are finite
                  \*   switches    so.switch_to_vsids_after is finite
                  \*   time_out    so.time_out is set

Hook == {"status", "last", "uniform", "sol", "complete"}

ASSUME PointAssumption ==
  /\ IsFiniteSet(Point) /\ Point \subseteq [X -> Int]
  /\ Solution \subseteq Point /\ LL \subseteq X
ASSUME VarAssumption ==
  {opt_var, StatusVar, LastVar, UniformVar, SolFrom, SolTo, CompleteVar} \subseteq X
ASSUME OptionAssumption ==
  \A o \in Options :
    /\ o.goal \in {"all", "min", "max"} /\ o.hooks \subseteq Hook
    /\ {o.lazy, o.restarts, o.switches, o.time_out} \subseteq BOOLEAN
    /\ o.assume \in Seq(SUBSET Point)
    /\ o.hooks # {} => o.assume = <<>> /\ o.lazy  \* the hooks drop assumptions and need getLit

VARIABLES
  so,             \* the options, never changed
  pc,             \* "propagate", "conflict", "fixpoint", "assume", "branch" or "returned"
  dom,            \* the assignments left, by level (level l at l + 1)
  dec_info,       \* the decisions, by level: [lit, dummy]
  excluded,       \* the assignments that learnt clauses exclude
  assumptions,    \* engine.assumptions
  printed,        \* the solutions printed
  best_sol,       \* engine.best_sol
  flipped,        \* the last alternative decision was already false
  due,            \* conflictC >= nof_conflicts
  vsids,          \* so.vsids
  timedOut,       \* the clock is past time_out
  solution_found, new_solution, mark_complete,  \* of FlatZincSpace
  last_val,       \* the value in int_last_val
  sol_val,        \* the value in int_sol
  status          \* RESULT of search

stack == <<dom, dec_info>>
hooked == <<solution_found, new_solution, mark_complete, last_val, sol_val>>
vars == <<so, pc, stack, excluded, assumptions, printed, best_sol, flipped, due, vsids,
          timedOut, hooked, status>>

decisionLevel == Len(dec_info)
left == dom[Len(dom)]
root == dom[1]

GE(x, v) == {p \in Point : p[x] >= v}
LE(x, v) == {p \in Point : p[x] <= v}
EQ(x, v) == {p \in Point : p[x] = v}
lit_True == Point
neg(l) == Point \ l
isTrue(l) == left \subseteq l
isFalse(l) == left \cap l = {}
Values(x) == {p[x] : p \in Point}

(* Solutions that learnt clauses must keep: those printed are blocked by clauses *)
(* when all solutions are looked for, those too bad by the assumption alone.    *)
Kept == IF so.goal = "all" THEN Solution \ printed ELSE Solution

(* Mutant: the bound is met by a solution that is as good. *)
BoundOfEquals(best) == IF so.goal = "max" THEN GE(opt_var, best) ELSE LE(opt_var, best)

(* The bound that the objective has to meet: better than best_sol. *)
Bound(best) ==
  IF so.goal = "max" THEN GE(opt_var, best + 1) ELSE LE(opt_var, best - 1)

-----------------------------------------------------------------------------
(* Mutant: no place is kept for the objective bound. *)
set_assumptionsNoPlace == so.assume

(* Engine::set_assumptions. *)
set_assumptions == IF so.goal = "all" THEN so.assume ELSE Append(so.assume, lit_True)

assume_int_val(x, v) == IF x \in LL THEN <<GE(x, v), LE(x, v)>> ELSE <<EQ(x, v)>>

START == 1
UNKNOWN == 2
SAT == 4

(* solve sets the assumptions, search adds START. *)
Init ==
  /\ so \in Options
  /\ pc = "propagate" /\ status = "none"
  /\ dom = <<Point>> /\ dec_info = <<>> /\ excluded = {}
  /\ assumptions = set_assumptions \o
       (IF "status" \in so.hooks /\ so.index >= 0 THEN <<EQ(StatusVar, START)>> ELSE <<>>)
  /\ printed = {} /\ best_sol = 0 /\ flipped = FALSE /\ due = FALSE /\ vsids = FALSE /\ timedOut = FALSE
  /\ solution_found = FALSE /\ new_solution = FALSE /\ mark_complete = FALSE
  /\ last_val = 0 /\ sol_val = 0

return(r) == pc' = "returned" /\ status' = r

(* FlatZincSpace::onRestart: what the hooks make of the assumptions, u being *)
(* the random value, found and new what storeSolution left.                   *)
resetAssumptions(asm, found, best) ==
  IF asm = <<>> THEN asm
  ELSE IF ~ found THEN <<>>
  ELSE IF Len(asm) > 1 THEN <<Bound(best)>> ELSE asm

statusValue(found, new) == IF new THEN SAT ELSE IF found THEN UNKNOWN ELSE START

hookAssumptions(found, new, stored, u) ==
  LET use(h, lits) == IF h \in so.hooks THEN lits ELSE <<>> IN
  (IF "status" \in so.hooks /\ so.index > 0
   THEN assume_int_val(StatusVar, statusValue(found, new)) ELSE <<>>)
  \o use("last", assume_int_val(LastVar, last_val))
  \o use("uniform", assume_int_val(UniformVar, u))
  \o use("sol", assume_int_val(SolTo, stored))

done == so.hooks # {} /\ mark_complete

onRestart(asm, found, new, best, stored) ==
  IF so.hooks = {} THEN assumptions' = asm /\ new_solution' = new
  ELSE /\ \E u \in IF "uniform" \in so.hooks THEN Values(UniformVar) ELSE {0} :
            assumptions' = resetAssumptions(asm, found, best)
                           \o hookAssumptions(found, new, stored, u)
       /\ new_solution' = FALSE

-----------------------------------------------------------------------------
(* The propagators LastVal and Complete: they store what they see when their  *)
(* variable is fixed, in a propagation that fails later, too.                 *)
fixedTo(x, S) == {v \in Values(x) : S # {} /\ \A p \in S : p[x] = v}

LastVal(S, fails) ==
  IF "last" \notin so.hooks THEN {last_val}
  ELSE IF fails THEN {last_val} \cup {p[LastVar] : p \in left}
  ELSE IF fixedTo(LastVar, S) = {} THEN {last_val} ELSE fixedTo(LastVar, S)

Complete(S, fails) ==
  IF "complete" \notin so.hooks THEN {mark_complete}
  ELSE {mark_complete \/ 1 \in fixedTo(CompleteVar, S)}
       \cup (IF fails THEN {mark_complete \/ \E p \in left : p[CompleteVar] = 1} ELSE {})

(* Engine::propagate: removes what learnt clauses exclude, and some or all of  *)
(* what constraints exclude.                                                   *)
propagate ==
  LET rest == left \ excluded IN
  /\ pc = "propagate"
  /\ \E S \in {rest, rest \cap Kept} :
       LET fails == S = {} \/ (Cardinality(S) = 1 /\ S \cap Kept = {}) IN
       /\ dom' = [dom EXCEPT ![Len(dom)] = S]
       /\ pc' = IF fails THEN "conflict" ELSE "fixpoint"
       /\ last_val' \in LastVal(S, fails)
       /\ mark_complete' \in Complete(S, fails)
  /\ UNCHANGED <<so, dec_info, flipped, excluded, assumptions, printed, best_sol, due, vsids, timedOut,
                 solution_found, new_solution, sol_val, status>>

(* After an alternative that was false already, propagation may notice or not. *)
propagateFlipped ==
  /\ pc = "propagate" /\ flipped
  /\ pc' = "fixpoint"
  /\ UNCHANGED <<so, stack, excluded, assumptions, printed, best_sol, flipped, due, vsids, timedOut,
                 hooked, status>>

-----------------------------------------------------------------------------
(* Conflict. *)

learnable(k) == ~ dec_info[k].dummy

(* SAT::analyze: some decisions exclude, together, no solution to be kept; the *)
(* clause that says so is unit at the level of the last but one.               *)
analyze ==
  \E K \in SUBSET {k \in 1 .. decisionLevel : learnable(k)} :
    LET nogood == {p \in Point : \A k \in K : p \in dec_info[k].lit}
        clevel == Max(K)
        level == IF K = {clevel} THEN 0 ELSE Max(K \ {clevel})
    IN /\ K # {} /\ nogood \cap Kept = {}
       /\ excluded' = excluded \cup nogood
       /\ dom' = SubSeq(dom, 1, level + 1)
       /\ dec_info' = SubSeq(dec_info, 1, level)
       /\ UNCHANGED flipped

(* Without learning: the other alternative of the last decision. *)
alternative ==
  LET di == dec_info[decisionLevel]
      below == dom[decisionLevel]
  IN /\ dom' = [SubSeq(dom, 1, decisionLevel) EXCEPT ![decisionLevel] = below \ di.lit]
     /\ dec_info' = SubSeq(dec_info, 1, decisionLevel - 1)
     /\ flipped' = (below \subseteq di.lit)
     /\ UNCHANGED excluded

(* At label Conflict; the conflict itself may make the next restart due. *)
conflict ==
  /\ pc = "conflict"
  /\ due' \in {due, so.restarts}
  /\ \/ /\ timedOut
        /\ return("UNK")
        /\ UNCHANGED <<stack, excluded, flipped>>
     \/ /\ ~ timedOut /\ decisionLevel = 0
        /\ return("GUN")
        /\ UNCHANGED <<stack, excluded, flipped>>
     \/ /\ ~ timedOut /\ decisionLevel > 0
        /\ IF so.lazy THEN analyze ELSE alternative
        /\ pc' = "backjumped"
        /\ UNCHANGED status
  /\ UNCHANGED <<so, assumptions, printed, best_sol, vsids, timedOut, hooked>>

(* Mutant: the levels stay. *)
stayHere == UNCHANGED stack

(* sat.btToLevel(0). *)
toRoot == dom' = <<root>> /\ dec_info' = <<>>

(* A restart that is not one of constrain; the search goes on at next. *)
restartAt(next) ==
  /\ toRoot
  /\ flipped' = (flipped /\ decisionLevel = 0)
  /\ IF done THEN return("GUN") /\ UNCHANGED <<assumptions, new_solution>>
     ELSE /\ onRestart(assumptions, solution_found, new_solution, best_sol, sol_val)
          /\ pc' = next /\ UNCHANGED status
  /\ UNCHANGED <<so, excluded, printed, best_sol, timedOut, solution_found, mark_complete,
                 last_val, sol_val>>

keepOn ==
  /\ pc = "backjumped"
  /\ pc' = "propagate"
  /\ UNCHANGED <<so, stack, excluded, assumptions, printed, best_sol, flipped, due, vsids, timedOut,
                 hooked, status>>

switchToVSIDS ==
  /\ pc = "backjumped" /\ so.switches /\ ~ vsids
  /\ restartAt("propagate")
  /\ vsids' = TRUE
  /\ UNCHANGED due

-----------------------------------------------------------------------------
(* Engine::propagate returned true. *)

restart ==
  /\ pc = "fixpoint" /\ due
  /\ due' = FALSE
  /\ restartAt("propagate")
  /\ UNCHANGED vsids

toAssumptions ==
  /\ pc = "fixpoint" /\ ~ due
  /\ pc' = "assume"
  /\ UNCHANGED <<so, stack, excluded, assumptions, printed, best_sol, flipped, due, vsids, timedOut,
                 hooked, status>>

(* newDecisionLevel and what makeDecision leaves. *)
open(lit, dummy) ==
  /\ dom' = Append(dom, left \cap lit)
  /\ dec_info' = Append(dec_info, [lit |-> lit, dummy |-> dummy])

(* One turn of the loop over the assumptions.  After a restart it goes on with *)
(* the new ones, at the root, without propagation.                             *)
assume ==
  LET p == assumptions[decisionLevel + 1] IN
  /\ pc = "assume" /\ decisionLevel < Len(assumptions)
  /\ \/ /\ isTrue(p) /\ ~ flipped
        /\ open(p, TRUE)
        /\ UNCHANGED <<so, pc, excluded, assumptions, printed, best_sol, flipped, hooked, status>>
     \/ /\ isFalse(p)
        /\ so.hooks = {} \/ (solution_found /\ decisionLevel = 0)
        /\ return("LUN")
        /\ UNCHANGED <<so, stack, excluded, assumptions, printed, best_sol, flipped, hooked, timedOut>>
     \/ /\ isFalse(p)
        /\ so.hooks # {} /\ (~ solution_found \/ decisionLevel # 0)
        /\ restartAt("assume")
     \/ /\ ~ isTrue(p) /\ ~ isFalse(p)
        /\ open(p, FALSE)
        /\ pc' = "propagate"
        /\ UNCHANGED <<so, excluded, assumptions, printed, best_sol, flipped, hooked, status>>
  /\ UNCHANGED <<due, vsids, timedOut>>

(* branching->branch(): some literal that is open, null when all is fixed. *)
decide ==
  /\ pc = "assume" /\ decisionLevel >= Len(assumptions)
  /\ \E x \in X : \E v \in Values(x) : \E l \in {EQ(x, v), GE(x, v), LE(x, v)} :
       ~ isTrue(l) /\ ~ isFalse(l) /\ open(l, FALSE)
  /\ pc' = "propagate"
  /\ UNCHANGED <<so, excluded, assumptions, printed, best_sol, flipped, due, vsids, timedOut,
                 hooked, status>>

AllFixed == Cardinality(left) = 1
Found == pc = "assume" /\ decisionLevel >= Len(assumptions) /\ AllFixed

(* A solution with no objective: stop at nof, else it is the next conflict, at *)
(* the root when it is fixed there (blockCurrentSol).                          *)
solution ==
  /\ Found /\ so.goal = "all"
  /\ printed' = printed \cup left
  /\ IF Cardinality(printed') = so.nof
     THEN return("SAT") /\ UNCHANGED stack
     ELSE /\ pc' = "conflict" /\ UNCHANGED status
          /\ IF so.lazy /\ Cardinality(root) = 1
             THEN toRoot ELSE UNCHANGED stack
  /\ UNCHANGED <<so, excluded, assumptions, best_sol, flipped, due, vsids, timedOut, hooked>>

(* Engine::constrain. *)
constrain ==
  /\ Found /\ so.goal # "all"
  /\ \E p \in left :
       LET asm == IF ~ so.lazy THEN assumptions
                  ELSE IF assumptions = <<>> THEN <<Bound(p[opt_var])>>
                  ELSE [assumptions EXCEPT ![Len(assumptions)] = Bound(p[opt_var])]
           new == new_solution \/ "sol" \in so.hooks
           stored == IF "sol" \in so.hooks THEN p[SolFrom] ELSE sol_val
           better == IF so.lazy THEN root ELSE root \cap Bound(p[opt_var])
       IN /\ printed' = printed \cup {p}
          /\ best_sol' = p[opt_var]
          /\ solution_found' = TRUE
          /\ sol_val' = stored
          /\ dom' = <<better>> /\ dec_info' = <<>>
          /\ IF better = {} \/ done
             THEN return("GUN") /\ assumptions' = asm /\ new_solution' = new
             ELSE /\ pc' = "propagate" /\ UNCHANGED status
                  /\ onRestart(asm, TRUE, new, p[opt_var], stored)
  /\ UNCHANGED <<so, excluded, flipped, due, vsids, timedOut, mark_complete, last_val>>

(* time_out passes. *)
tick ==
  /\ so.time_out /\ ~ timedOut
  /\ timedOut' = TRUE
  /\ UNCHANGED <<so, pc, stack, excluded, assumptions, printed, best_sol, flipped, due, vsids,
                 hooked, status>>

returned == pc = "returned" /\ UNCHANGED vars

search == propagate \/ propagateFlipped \/ conflict \/ keepOn \/ switchToVSIDS \/ restart
          \/ toAssumptions \/ assume \/ decide \/ solution \/ constrain

Next == search \/ tick \/ returned

Spec == Init /\ [][Next]_vars

(* One thread runs the search, and time passes. *)
FairSpec == Spec /\ WF_vars(search) /\ WF_vars(tick)

-----------------------------------------------------------------------------
(* What the user asked for: solutions of the problem that satisfy the user's   *)
(* assumptions and are better than what was printed, or not printed yet.       *)
User == {p \in Solution : \A i \in DOMAIN so.assume : p \in so.assume[i]}
Wanted ==
  {s \in User :
     \A t \in printed : CASE so.goal = "all" -> s # t
                          [] so.goal = "min" -> s[opt_var] < t[opt_var]
                          [] so.goal = "max" -> s[opt_var] > t[opt_var]}

(* Engine::solve. *)
answer ==
  CASE status = "none" -> "running"
    [] status \in {"GUN", "LUN"} -> IF printed = {} THEN "UNSATISFIABLE" ELSE "COMPLETE"
    [] OTHER -> status

(* The search answers rightly: it prints solutions that satisfy the user's     *)
(* assumptions, each better than the last one (or new), and claims that there   *)
(* is none or no better one only when that is so, whatever was assumed, bounded, *)
(* restarted or learnt on the way.                                             *)
A == INSTANCE Answers WITH wanted <- Wanted, marked <- mark_complete
AnswersRightly == A!ASpec

(* Type invariant, and the order of levels: the first decisions are those for   *)
(* the assumptions, one level each and in their order, also after the bound has *)
(* replaced one and after alternatives; what is left at a level is within its   *)
(* decision, and no solution was lost but those that the decisions exclude.     *)
TypeOK ==
  /\ so \in Options /\ status \in {"none", "SAT", "GUN", "LUN", "UNK"}
  /\ pc \in {"propagate", "conflict", "backjumped", "fixpoint", "assume", "returned"}
  /\ \A l \in DOMAIN dom : dom[l] \subseteq Point
  /\ Len(dom) = Len(dec_info) + 1
  /\ excluded \subseteq Point /\ printed \subseteq Solution
  /\ {flipped, due, vsids, timedOut, solution_found, new_solution, mark_complete} \subseteq BOOLEAN

LevelsRight ==
  /\ TypeOK
  /\ \A k \in 1 .. decisionLevel :
       /\ k <= Len(assumptions) => dec_info[k].lit = assumptions[k]
       /\ dom[k + 1] \subseteq dom[k] \cap dec_info[k].lit
       /\ dec_info[k].dummy => k <= Len(assumptions)
  /\ so.lazy => Kept \cap excluded = {} /\ Kept \subseteq root

(* Unless the model's hooks ask for restarts, the search ends. *)
SearchEnds == so.hooks = {} => <>(pc = "returned")
================================================================================
