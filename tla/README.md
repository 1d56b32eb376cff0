# Chuffed: a verification development in TLA+

Chuffed is a lazy clause generation constraint solver: a finite-domain
propagation engine (`src/chuffed/core/engine.cpp`) and a conflict-driven
clause-learning SAT solver (`src/chuffed/core/sat.cpp`, `conflict.cpp`) that
share one search, with some forty propagators behind the constraints of
FlatZinc.  The modules in this directory model the core of the solver, its search
and its propagators.  TLC checks them on small instances.  TLAPS proves for every
instance that backtracking restores, that what conflict analysis learns follows
and that the search answers rightly.

## 1. Inventory

| part | state it keeps | operations | hard behaviour | what makes it correct |
|---|---|---|---|---|
| Trail (`core/engine.{h,cpp}`, `core/sat.*`) | `trail` of undo records, `trail_lim`, `sat.trail`, `sat.trailpos` | write a trailed datum, `newDecisionLevel`, `btToLevel`, `btToPos`, `topLevelCleanUp`, `tpToLevel` | two stacks cut at the same places through one integer per literal; levels with no write; the clean-up drops the undo records; lazy explanations travel back in time | backtracking restores exactly; a literal's position tells its level; an explanation is computed in the state its literal was enqueued in |
| SAT solver (`core/sat.*`, `core/conflict.cpp`) | clauses, learnts, watches, reasons, `qhead`, `confl`, `seen`, `out_learnt` | `propagate`, `enqueue`, `analyze`, `findConflictLevel`, `addClause`, `reduceDB`, `simplifyDB`, `topLevelCleanUp` | watches mutated while iterated; one-watch learnt clauses; binary clauses that live in watch lists only; reasons freed by `reduceDB`; conflicts below the current level | learnt clauses follow from the problem; backjumps assert; no unit or false clause is missed at a fixpoint; no freed clause is read; verdicts are right |
| Integer variables (`vars/int-var*.{h,cpp}`, `vars/bool-view.*`) | bounds and holes, literals, `changes`, lists of watching propagators | `setMin/Max/Val`, `remVal`, `channel`, `getLit`, lazy literal lists | three literal encodings (eager, lazy, sparse), literals created during search and not removed on backtrack | domain and literals agree; explanations are valid clauses |
| Propagation queue (`core/engine.cpp: propagate, clearPropState`, `core/propagator.h`) | `v_queue`, `p_queue[6]`, `in_queue` | wake up, run by priority, clear after failure | events raised while queues are drained; failure in the middle | fixpoint reached; nothing lost, nothing queued twice, nothing left behind |
| Search (`core/engine.cpp: search, constrain, solve`, `flatzinc.cpp: onRestart, storeSolution`) | decisions, assumptions, `best_sol`, `solutions`, restart counters | decide, conflict, restart, branch and bound, assumptions, VSIDS switch, time-out | orders of restart, conflict, new bound and solution; scripted restarts | answers SAT, UNSAT and optimal are right; progress |
| Assumption nogoods (`core/assume.h`, `core/engine.cpp: retrieve_assumption_nogood`) | marks, the literals still to be explained | `pushback_reason_lazy` | lazy explanations while levels are undone | the nogood follows from the problem and speaks of assumptions only |
| Branching (`branching/*`, `vars/int-var.cpp: branch`, `core/sat.cpp: branch`) | groups with trailed cursors, warm-start lists, the heap | `finished`, `branch`, `getScore`, `toggleVSIDS` | trailed cursor against restarts and VSIDS switches | every variable gets fixed; a decision is always on an unfixed one |
| Propagators (`primitives/*`, `globals/*`, `mdd/*`) | per-constraint trailed and untrailed state | `wakeup`, `propagate`, `explain`, `clearPropState`, `checkSatisfied` | several changes in a run, each explained by what held before it; state that a conflict leaves | sound, explained by clauses that hold, complete where they are to be |
| Registry (`flatzinc/registry.cpp`) | - | one poster per constraint | reified and degenerate cases, arguments that are fixed | what is posted means what FlatZinc says |
| Symmetry breaking (`ldsb/*`) | symmetries, trailed information on what they still allow | `processDec`, `processImpl` | learnt symmetric clauses during conflict analysis | only symmetric solutions are lost |
| Data structures (`support/*`) | binary heap, sparse set, union-find, trailed lists, vectors | insert, remove, percolate | index maps, lazily updated keys | heap order, inverse maps |
| LP relaxation (`mip/*`) | simplex tableau | dual simplex | floating-point arithmetic | - |
| FlatZinc front end (`flatzinc/*`) | model, annotations, restart hooks | parse, post, `onRestart` | scripted restarts that add assumptions | - |

The parts share memory and call each other: `enqueue` calls `IntVar::channel`,
which pushes on `v_queue`; `Engine::propagate` drains `v_queue` into
`p_queue` and runs propagators, which call `setMin` and so `cEnqueue`, which
calls back `explain` on a conflict; `analyze` calls `explain` for lazy
reasons after moving the trail back; `search` owns the loop.  One thread runs
all of it, so the difficulty is not in interleavings but in the order of
calls and in state that is read after something else has moved.

The hazards of each part, with the line where each one bites and the
properties that guard against it, are in `PROJECT.json` under `hazards`.

## 2. Modules

| module | models | extends / instantiates |
|---|---|---|
| `BacktrackStore` | abstract: a store with snapshots per decision level | - |
| `Trail` | the undo trail, the literal stack and the integers that tie them | refines `BacktrackStore` |
| `TrailProofs` | theorems about `Trail`: positions, restoring, explanations in time | `Trail`, `NaturalFacts` |
| `Enumeration` | abstract: print solutions, stop with enough or with all | - |
| `Sat` | clauses, propagation, analysis, deletion, restarts and solutions, in the loop of `Engine::search` | refines `Enumeration` |
| `SatInvariant` | the inductive invariant of `Sat`, facts about the solver's stacks and clauses; propagation, inferences, restarts, the clean-up and decisions keep it | `Sat`, `NaturalFacts` |
| `SatProofs` | solutions and the steps of conflict analysis keep it; propagation misses nothing, what is printed is a solution; theorems about `Sat` | `SatInvariant` |
| `Answers` | abstract: what a search may print and claim, with an objective or without | - |
| `Search` | the loop of `Engine::search` around an abstract analysis: assumptions, objective, hooks, restarts, time-out, the mode without learning | refines `Answers` |
| `SearchProofs` | theorems about `Search`, the refinement of `Answers` among them | `Search`, `NaturalFacts` |
| `NaturalFacts` | least and greatest elements of sets of naturals, and induction over such sets | `TLAPS` |
| `AssumptionNogood` | the nogood drawn from a false assumption | - |
| `Branching` | decisions: annotations, groups, warm starts, VSIDS and the switch between them | - |
| `Domain` | abstract: a set of values cut down, failing, restored | - |
| `IntVarEL`, `IntVarLL`, `IntVarSL` | an integer variable with eager, lazily made and sparse literals | `IntVarSL` has an `IntVarEL` over its places inside |
| `IntVars` | class `IntVar` above the three | instantiates the three, refines `Domain` |
| `IntVarELProofs`, `IntVarLLProofs` | the inductive invariants of eager and of lazy literals, for any bounds | `IntVarEL`, `IntVarLL`, `NaturalFacts` |
| `IntVarsProofs` | the sparse representation; theorems about `IntVars` | `IntVars`; instantiates the former two, the first one twice |
| `Propagation` | queues, events, wake-ups and clearing, with four propagators | - |
| `Views` | stores, literals and views `a * x + b` with their sets, gets and events | - |
| `Arithmetic`, `Booleans`, `Linear`, `Element`, `AllDiff`, `Extrema`, `Chains`, `Disjunctive`, `Circuit`, `Cumulative` | the propagators of a family: posting, wake-up, run, explanation, redundancy | `Views` and each other |
| `Propagators` | the propagators of one constraint at work, while everything else narrows the same variables | `Views`; its CONSTANTS are the operators of the next two |
| `Registry`, `Globals` | what each constraint posts, and which operator serves each propagator | the families |
| `FlatZinc` | the reference: what each constraint means | - |
| `MC...` | the instances TLC checks | |

Each module takes from another what the other one establishes, instead of
its state: `Sat` reads the level of a variable off the list it is in, because
`PositionsTellLevels` says that `tpToLevel` answers the same; `Propagation` and
`Propagators` treat a literal as a set of values, because `LiteralsAgree` says
that literals and domain tell the same; `Sat` lets propagators infer any
literal their clauses imply, because `EnqueuedRightly` and `ExplanationsHold` say that
explanations are clauses that hold for good and were false but for their
head; `Search` lets a fixpoint remove what it likes except solutions, and
analysis exclude any set of decisions without a solution, because `LearntEntailed`
and `BackjumpAsserts` say so.

### Trail

`mem` is all data behind `Tint`, `Tchar` and `trailChange`; `trail` the vector
of `TrailElem`; `trail_lim` the vector of that name; `size` and `slot` are
`sat.trail` seen from its literals (which list, which place); `trailpos` is
`sat.trailpos`.  `Assign`, `Enqueue`, `newDecisionLevel`, `btToLevel`,
`explain` (`SAT::getExpl` of a lazy reason: `SAT::btToPos` and the call of the
propagator) and `topLevelCleanUp` are the operations; `undoLast` and `undoDone`
are the loop of `Engine::btToPos` turn by turn.  `born` and `asked` are history:
the state in which each literal was enqueued, and that of the literal whose
explanation was asked for last.

### Sat

Clause objects are slots of a memory, so that a reason that refers to a freed
clause is visible.  A clause keeps its first two places and the set of the
others, which is what the code tells apart.  One action is one turn of a loop
of the code: `nextLiteral`, `absorbedBinary` and `watchedClause` are
`SAT::propagate`, watch by watch in any order; `infer` and `reject` are
`cEnqueue` on behalf of a propagator, with the three kinds of reason (eager
clause shared by the inferences of a call, short, lazy); `conflict`, `resolve`,
`select`, `explainUnlearnable` and `backjump` are `analyze` with
`findConflictLevel`, `getLearntClause`, `findBackTrackLevel` and `reduceDB`;
`restart`, `topLevelCleanUp` (with `simplifyDB`), `decide` and `solution` (with
`blockCurrentSol` and `rootFailure`) are the branches of `Engine::search`.
Which decision is taken, which of the clauses that are not locked `reduceDB`
drops (in the code, by activity) and which of several literals of the
highest level becomes the second watch are left open.

### Search

A literal is the set of points it allows; `dom` is, level by level, what is
left; `dec_info` the decisions with their dummy levels; `excluded` what learnt
clauses exclude.  `propagate` removes what is excluded and some or all of what
constraints exclude, `analyze` learns any nogood that excludes no solution to be
kept.  The options, `so`, are chosen at the start: with or without learning,
all solutions or an objective, assumptions, each hook of `on_restart`, the switch
to VSIDS, a time-out.  The hooks are `FlatZincSpace::onRestart` and
`storeSolution`, with `LastVal` and `Complete`, which store what they see.

### AssumptionNogood, Branching

`AssumptionNogood` takes the trail of literals and their reasons and walks it down
as `pushback_reason_lazy` does, one literal an action, undoing levels for lazy
explanations.  `Branching` has the groups an annotation stands for
(`parseSolveAnn`), the trailed cursor of each, the warm start, `IntVar::branch`
and `SAT::branch` with its heap as a set, under arbitrary propagation, backjumps
and restarts.

### IntVarEL, IntVarLL, IntVarSL

One variable and the calls that reach it in any legal order: `setMin`, `setMax`,
`setVal`, `remVal`, a literal of it enqueued by the solver (`channel`), the
wake-up that empties `changes`, and the levels.  `trail` is the part of
`sat.trail` that concerns the variable, with the explanation of each
literal, `Given` when the caller supplied it.  In `IntVarLL` the list of literals
(`ld`) only grows and is not trailed, while the places `li` and `hi` in it are:
`getGELit` may insert at a level that is undone later.  There `remVal` is a
no-op, as in the code.

### Propagation

The state `s` is a record so that a run of a propagator, a sequence of calls each
of which may fail, composes as operators: `narrow` for the calls on a variable,
`propagateGE`, `propagateNE`, `propagateMinimum`, `propagateAllDiff` for the
four bodies.  `wakeUp` empties `v_queue`, variable after variable; `run` one propagator
off the first queue that is not empty; `fixPoint` leaves the loop; `unitClause`,
`conflictClause` and `wakeReified` are `SAT::propagate` on the clauses of the
instance.  `analyze` leaves open the level it goes back to and the
literal it asserts there, `decide` the decision, so what is shown does not depend on them; `left`, a
history variable, keeps the solutions that these choices still allow.  `analyze`
has a second outcome, the restart that switches to VSIDS.

### Propagators, and the families of them

A behaviour of `Propagators` is about one constraint.  Its store is a record: the
domains, the propagators posted (`kind`, arguments, the views and events each
one listens to), the clauses posted, what each propagator remembers (`kept`), who is
satisfied, who is queued, whether there is a conflict, and the log of changes with
their explanations.  A propagator's run is an operator on stores, `propagate<Name>`, made of
the calls `setMin`, `setMax`, `setVal`, `remVal` and `setLit` of `Views`, each of
which notes its explanation, whether it held, and fails or narrows as the class of
the variable does.  `Clauses`, `Run`, `Open`, `Narrow`, `Simplify` and `Backtrack` are
the steps: unit propagation, a run by priority, the first level, a value taken away by a
decision or another constraint, `checkSatisfied` at the root, and the way back, which
restores what is trailed and nothing else (`untrailed`).

`Registry` and `Globals` say what is posted; `FlatZinc` says,
independently of the code, which assignments a constraint allows, from the predicates
that `mznlib` defines by them.

| module | propagators |
|---|---|
| `Arithmetic` | absolute values, products, quotients, powers, minimum and maximum of two, `range_size` |
| `Booleans` | Boolean comparisons and their reified forms, clauses, sums of Booleans |
| `Linear` | `LinearLE`, `LinearNE`, `BinGE`, `BinNE`, reified and not, with `checkSatisfied` |
| `Element` | constant arrays, Boolean and integer arrays of variables, bounds and domain, half reified |
| `AllDiff` | by values, bounds, domain, half reified bounds, inverse |
| `Extrema` | minimum and maximum of arrays, arg max of Booleans |
| `Chains` | `value_precede`, `seq_precede_chain`, lexicographic orders; tables and automata, by clauses |
| `Disjunctive` | edge-finding and not-first for unary resources |
| `Cumulative` | time table, its filtering, energy checks and edge-finding |
| `Circuit` | cycles, paths and strongly connected components |

## 3. Runs

| run | question | instance and bounds |
|---|---|---|
| `trail` | do positions tell levels, and does going back restore? | 2 data of 2 values, 2 variables, 3 levels, at most 4 undo records; symmetric in the data, values and variables |
| `sat` | are analysis, propagation, deletion and enumeration right, and do they end? | 4 programs of 3 to 5 variables: propagators with three kinds of reasons; restarts and binary learnts as objects; all solutions counted; two watches |
| `intvars` | do domain and literals tell the same? | 4 values (with gaps for the sparse one), 3 levels, every order of calls, each representation |
| `propagation` | is a fixpoint reached, is nothing lost, does it end? | 2 problems over 3 variables of 3 values and a Boolean, 3 levels; `AllDiffValue` without the restart that switches to VSIDS |
| `search` | is what is printed and claimed right? | 47 combinations of options over 6 assignments |
| `branching` | is every decision one that the annotation asks for? | 5 annotations, 3 variables, 3 starts, 2 conflicts |
| `nogood` | does the nogood of assumptions follow? | 9 lists of assumptions over 9 variables and 7 rules |
| `propagators` | is each propagator sound, explained and awake? | 322 constraints of 1 to 5 variables |
| `globals` | the same for schedules and graphs | see `MCGlobals` |
| `branching_lone`, `value_precede`, `switching` | see "Disagreements" | violated |

Why these bounds suffice for the cases that matter: three levels are the fewest
with a level below, at and above the one a backjump goes to; four undo records
allow two levels opened without a write in between, a datum written twice in
one level, and writes after a clean-up; four values are the fewest where a
bound can move over a hole, and a lazy literal can be put between two
others; two learnt clauses are the fewest that `reduceDB` halves; two conflicts and three starts let
the search switch away and back.  The domains of `propagators` and `globals` are chosen for the cases of
each propagator: signs of products, gaps, values outside the array, tasks that may have no length, windows that are
too full and windows that leave no room, parts of a graph that nothing leads to or from, and constants in each place.
Of the 832 alternatives of IF and CASE in the modules of the propagators the two runs take all but 22.  Most of
these say that a conflict came first (`propagateValuePrecede`, the updates of edge-finding, `scheduleStep`), or stand for what
`Registry` does not post (a disequality behind a literal that is true already) and what another propagator does before
(`AllDiffValue` before `AllDiffDomain`, with one value).  Those that matter and are not met are
the failure of the upper filter of `AllDiffBoundsImp` (`globals/alldiff.cpp:913`, see "Observations");
`b` set false by the bounds of `IntElemBoundsImp` (`newMin`, `newMax`); for `disjunctive`, a schedule that goes back
further than its explanation, and a finished task between unfinished ones, which takes four tasks; and for
`cumulative`, an optional task between two parts of the profile.  Also out of the instances are
tasks of no length for `disjunctive_strict` and variables of `circuit` that are fixed when it is posted, which the
code does not treat as its constraint says, and rounding errors of floating point in `int_pow`, whose roots and
logarithms are exact in the model.  No bound removes a step silently: where one
binds, the guard that names it is in the module (`MaxLevel`, `MaxConflicts`, `MaxStarts`,
`MaxSolutions`, the lengths in `Trail`).  `MaxClause` never binds: a step that it
stopped would be a deadlock, and deadlock is checked in every run but the two of
`Branching`, whose search really stops at its bounds.

Every property has a mutant, a definition of the module changed the way a
slip in the code would change it (a dropped reset, a wrong literal order, a level
too low); under the run's own configuration TLC finds the property violated by
it.  They are the definitions whose comment begins with "Mutant".

What the runs show, by property:

- `LevelOfPosition`, `ExplainedInItsTime`, `RestoresSnapshots`: positions tell levels, going back
  restores what was there, and an explanation is computed in the state its literal was enqueued in.
- `LearntEntailed`: whatever is learnt, kept, or fixed at the root holds in every
  solution that is still to be printed.  `AnalysisMarks`, `BackjumpAsserts`: analysis counts the
  open literals rightly, leaves no mark behind, ends at a UIP, and goes to the level where its
  clause is unit.
- `NothingMissed` (of `Sat`): at a decision no clause is false; none is unit, except that a
  learnt clause watched on one literal may be.
- `ReasonsHold`: the clauses that analysis reads exist, list what came before, and a conflict
  is one.  `NoneTwice`: with all variables as outputs no solution is printed twice.
- `EnumeratesSolutions`: the loop implements `Enumeration`, that is, it prints
  solutions only and claims exhaustion with all of them printed.
- `LiteralsAgree`, `EnqueuedRightly`, `ChangesTold`, `NarrowsExactly`, `ListMarksBounds`: the
  variable is the abstract domain, and its literals, events and explanations follow it.
- `FixPointReached`, `SolutionsKept`, `KeptStateTrue`, `FlagsMatchQueues`:
  what a conflict, a restart or a mark of redundancy leaves in the queues never hides work,
  nothing is pruned wrongly, and what propagators keep is true.
- `LevelsRight`, `AnswersRightly`: every level belongs to the assumption or decision at its
  place, and the search refines `Answers`: solutions that are printed are solutions, each
  better than the last with an objective, and SAT, UNSAT and OPTIMAL are claimed rightly.
- `DecisionsRight`, `NothingMissed` (of `Branching`): each decision in force is one the annotation asks for
  at its place, and no decision is left only when all is fixed.
- `NogoodRight`: the nogood follows from the problem and consists of negated assumptions.
- `NothingLost`, `ExplanationsHold`, `FixedSatisfied`, `Pruned`: of each constraint, no
  solution is lost by posting or at the root; each change has an explanation that held and implies the change in
  all solutions; what is fixed and at rest is a solution; and those that are to be consistent
  are, in every state at rest.
- `Terminates`, `PropagationEnds`, `SearchEnds`: see section 4.

### Disagreements

1. `branching_lone`.  With a warm start as the only annotation and `-f`, the first switch
   of search (`core/engine.cpp:567-596`) drops the warm start and leaves the SAT solver
   without VSIDS, which then has no decision to offer; the search takes that for a solution.
2. `value_precede`.  The constructor of `value_precede_int` does not ask whether there
   is a variable that may be `t` (`globals/value-precede.cpp:162`), and fixes the only
   candidate for `s`.
3. `switching`.  The restart that switches to VSIDS (`core/engine.cpp:874`, with `--switch-to-vsids-after`) backtracks right after
   `analyze` has enqueued the learnt literal.  Its variable stays queued with `EVENT_F`, and `AllDiffValue`
   is woken for a variable that is not fixed, against the assertion of `globals/alldiff.cpp:57`.  Without assertions it
   takes the lower bound of that variable from the others, at the root, and solutions are lost.  BinGE,
   BinNE and Minimum do not mind: in `propagation` the problem that has the switch has these.

### Observations

The following were met while modelling.  They have no run of their own: they need an
option, an argument or a build that the runs do not cover, or nothing in the
repository says otherwise.

Core and search:

- A propagator that asks to be queued while it runs is not: `in_queue` is still set
  (`core/propagator.h:51`).  `AllDiffBounds` does so after making a hole; its own event brings it back.
- `IntVarLL::getLit` above the root answers a request outside the current bounds with a
  constant, true of this level only (`vars/int-var-ll.cpp:172`); `globals/cumulative.cpp:722` goes around it.
- When the outputs are fewer than the variables, an output assignment may be printed more than
  once: the learnt clause that blocks it may be deleted.  `NoneTwice` has all variables as outputs.
- Without learning the false alternative of a dummy level is enqueued again (`core/engine.cpp:864`,
  against `sat.cpp:419`).  With learning off, restarts print solutions again.
- The time-out is looked at after a conflict only (`core/engine.cpp:733`); a hook that assumes what the objective
  bound excludes restarts for ever without one.
- Of the values of `status()`, only the hook itself can tell UNKNOWN (`flatzinc.cpp:696`), and `restart_status`
  is asked for with `> 0` in one place and `>= 0` in another.
- `onRestart` drops the assumptions of the user together with those of the hooks.
- The assumption marks are set again under the comment "Finally, clear the marked assumptions" (`core/engine.cpp:625-627`).
- A lazy reason of the false assumption is asked for before `index` is set for its level (`assume.h:96`, `131`): the
  nogood may then lack assumptions, and `assert(pending == 0)` of `assume.h:209` fails.
- The search switches every second restart only (`core/engine.cpp:919`), and limits come in pairs.
- Bools get their polarity from searches only; `--vsids` with an annotation that is in error loses the SAT solver.

Propagators:

- `AllDiffBoundsImp`: the upper filter tests `x[maxsorted[i]]` where it means `x[minsorted[i]]` (`globals/alldiff.cpp:913`).
  With domains {3}, 1..3, 5..6, 0..7 and 0..7 it finds `r` false though the five can differ.  It reads `(*r)[2]`
  although `r` is null without learning.  The order of ties of `AllDiffBounds` depends on earlier runs.
- `circuit`: variables that are fixed when the constraint is posted do not count as newly fixed
  (`globals/circuit.cpp:92-104`, `859-897`), so a small cycle of such variables alone is accepted.  The instances of `globals` fix none.
- `disjunctive_strict`: a task of no length may lie inside another one (`globals/disjunctive.cpp:329`), which
  `fzn_disjunctive_strict.mzn` excludes.  The instances have tasks of length one and more.
- `cumulative`: a task that may have no length or use nothing is tested against one part of the profile only.
- `IntElemBoundsImp`: `while (i <= a.size())` may read `a[n]`; a `b` that becomes true after `x` is fixed
  does not queue it; `r` is null without learning.  An `x` fixed at posting never sets `fixed_index`.
- `regular` over a single variable reads the first place of an empty vector; `p_cost_regular` calls `w.last()`
  before any `w.push()`; `p_mst_new` reads the weights into `to`; `p_dtree_new` does not subtract 1 from the root.
- `int_linear_dom` has a sign the wrong way round, and is not posted any more; `int_mod` is refused.
- `int_pow` sets on `x` the bound that it has computed for `y` (`primitives/arithmetic.cpp:237`): with `x` in 2..5, `y` in 1..4 and
  `z` in 0..5 the solution 5, 1, 5 is lost.  In the instance of `propagators`, with `x` at most 2, it does no harm.
- `int_div` floors (`primitives/arithmetic.cpp:664`) where FlatZinc truncates.  The instances with operands of different signs have
  domains on which both agree.
- `getFMinLit` of scaled views rounds down; nothing uses it.
- `min_fixed` of `Minimum` and `max_def` of `seq_precede` are written and never read.
- `lex` that is not strict leaves the last auxiliary literal open; the arg max of Booleans relies on the `true`
  that `mznlib` appends.
- The tags of `value_precede` have 15 and 16 bits for places.

## 4. Fairness

One thread runs the solver, so the only fairness assumed is that it goes on.
`Sat` and `Search` use `WF_vars(Next)`; `Next` has no action by an environment.
`Propagation` assumes that the thread does not stop inside
`Engine::propagate`: weak fairness of the steps of `propagate`, written with
the two modes in which they are enabled instead of ENABLED, which TLC evaluates
slowly.  `Terminates` of `Sat` includes a program with restarts every two conflicts; the code's default
sequence of limits grows without bound, and restarts that come more rarely only help.  `SearchEnds` leaves the hooks of restarts
out: a model may ask to be restarted for ever.  `Propagators` and `Branching` state no liveness.

## 5. Proofs

The theorems hold for all values of the constants that satisfy the assumptions named.
"As TLC checks" below means that a run checks the same formula on its instance.

| theorem | states |
|---|---|
| `TypeCorrect` | `Trail`: the types, as TLC checks |
| `PositionsTellLevels` | `Trail`: `LevelOfPosition`, as TLC checks |
| `TrailRestores` | `Trail` implements `BacktrackStore`: a level that is left is as it was when it was entered, as TLC checks |
| `ExplanationsInTime` | `Trail`: `ExplainedInItsTime`, as TLC checks |
| `SatInvariance` | `Sat`: the inductive invariant |
| `LearningIsSound` | `Sat`: `LearntEntailed`, as TLC checks |
| `NothingLeftOut` | `Sat`: it gives up only when no solution is left to print |
| `ReasonsStayGood` | `Sat`: `ReasonsHold`, as TLC checks |
| `MarksAgree` | `Sat`: `AnalysisMarks`, as TLC checks |
| `BackjumpsAssert` | `Sat`: the action property `BackjumpAsserts`, as TLC checks |
| `CompleteInvariance` | `Sat`: the inductive invariant of completeness |
| `PropagationIsComplete` | `Sat`: `NothingMissed`, as TLC checks |
| `SearchEnumerates` | `Sat` implements `Enumeration` (`EnumeratesSolutions`), as TLC checks |
| `VariableInvariance` | `IntVars`: the inductive invariant of each representation |
| `LiteralsSayTheDomain` | `IntVars`: `LiteralsAgree`, as TLC checks |
| `LiteralsEnqueuedInOrder` | `IntVars`: `EnqueuedRightly`, as TLC checks |
| `ListKeepsItsPlaces` | `IntVars`: `ListMarksBounds`, as TLC checks |
| `EventsTold` | `IntVars`: the action property `ChangesTold`, as TLC checks |
| `VariableNarrows` | each representation implements `Domain` (`NarrowsExactly`), as TLC checks |
| `SearchInvariance` | `Search`: the inductive invariant |
| `LevelsStayRight` | `Search`: `LevelsRight`, as TLC checks |
| `SearchAnswersRightly` | `Search` implements `Answers`, as TLC checks |

### Trail

Assumptions: `TrailIncAssumption` (the datum that `newDecisionLevel`
increments is not written by anyone else) and `BoundAssumption` (the bounds are
naturals; the proofs use no other property of them, so they bound nothing).

`LevelOfPosition` is not inductive.  The invariant `Inv` adds to the types:

- `LimitsOrdered`: the starts of levels are strictly increasing and within the
  trail.  This is what the increment of `trail_inc` is for; without it two levels
  may start at one position.
- `PositionsInLevel`: a literal's position is not before the start of its level
  and before the start of the next.
- `PositionsInOrder`: within a level positions follow the order of enqueuing, and
  -1 stands for what a clean-up took off the trail.  It is what makes `explain`
  preserve the former: cutting the trail at the position of `p` leaves in it the
  positions of all literals before `p`, because those are not greater.

During a backtrack they speak of the position and the levels that will remain
(`top`, `liveLevels`).  Each action has a lemma; `LevelUnique` then shows that
strictly increasing starts leave one level for `tpToLevel` to answer.

`TrailRestores` reads a past state off the trail: `StoreOf` gives each datum the old value in
its first undo record after a position, or the present value if there is none.
Writing a datum, and undoing the last record, leave the past of every position as it
was (`WriteKeepsStoreOf`, `UndoKeepsStoreOf`), so every step of `Trail` is a step of
`BacktrackStore` or none.  `ExplanationsInTime` adds that `born`, the state a literal
was enqueued in, is what `StoreOf` gives for the literal's position.

### Sat

Assumptions, all about each program of `Runs`:

- `ProblemAssumption`, `FlagAssumption`: variables are positive numbers, finitely many; clauses
  are lists of their literals; flags and limits have their types.  No clause says a literal twice:
  `addClause` does not look for that, and one that does is watched on one literal in two places, so that a
  conflict or an implication of it may be missed.  Only completeness needs it.
- `InferenceAssumption`: a propagator's inference has literals before it and is of one of the three
  kinds of reasons; one that sets a `valLit` of `IntVarLL` gives a short reason, as `channel` does.
- `HiddenAssumption`: a `valLit`, the literal that a variable is fixed, is in no clause that is posted, becomes true by
  bounds only, never by another `valLit`, and no propagator infers its negation or from its negation; `vars/int-var-ll.cpp` makes these literals
  for itself and marks them as not learnable.
- `OutputAssumption`: if a `valLit` is an output, every solution has the bounds that set it, and
  two solutions that set it by the same inference agree on the bounds: a value is fixed by its
  two bounds.  Blocking a solution by the negated bounds then blocks no other.

Nothing is assumed of how strong propagators are.  `SatInv` consists of

- `StackRight`: no literal is on the trail twice or with its negation; each list above the root begins with a
  decision; every other literal has a reason whose clause still exists, holds in all solutions to come and
  lists literals before it (`ReasonsRight`, `HiddenRight`); inferences by bounds below the current level have been
  made (`ShortClosed`); the root holds in all solutions to come (`RootRight`), and once the search has
  branched no propagator has anything to reject there (`RootQuiet`).
- `StoreRight`: all clauses hold in the solutions to come, watches lead to clauses that are
  there, what they lead to and what was learnt is not temporary, and no clause is to be freed at two levels.
- `ConflictRight`: a conflict is false, with a literal above the root.
- `SeenRight`, `Analyzing`, `Resolving`, `Selecting`, `Learning`: what `seen`, `pathC`, `index` and
  `out_learnt` hold at each stage of `analyze`, and that the literals collected, those
  marked and those of the explanation in hand together are a nogood.

`LearntEntailed` needs all of it: a clause is learnt from reasons, a reason is used if its clause was not
freed, and that depends on levels, locks and watches.  The nogood has one twist.  A
`valLit` in it is not learnable, and is replaced by its bounds before learning; `HoldsIn`
counts its negation as what its explanation says.  Replacing it must not take the clause to another level,
which is why `ShortClosed` says that a `valLit` is set at the level of the last of its bounds.  "The solutions to come" shrinks when a
solution is printed, so that the blocking clause holds by definition and `OutputsDiffer` has
to show that it excludes the printed one only.  `reduceDB` keeps the locked clauses
(`Droppable`, `ReasonsStay`), and `findConflictLevel` may cut the stack before analysis
(`ConflictLevel`, `CutSame`).

`SatInvariant` has the definitions, the facts about stacks that
are cut, pushed and opened, the steps of propagation and those
between conflicts; `SatProofs` the steps of analysis and the theorems.

Completeness is a second invariant, `Complete`, on top of `SatInv`:

- `LowerDone`: of the levels below the last one every literal has been propagated, and each watch of a
  literal there is attended to: what it watches for is true there already.  It is what a backjump falls back
  on, and the reason why a conflict may leave the rest of its level out.
- `LastDone`: in the last level a watch may also wait, because its literal is not yet popped or because the loop over
  its list has not come to it (`Waits`).  It is claimed while there is no conflict only.
- `StoreComplete`: each clause that is not temporary or deleted is on the lists of its two first literals (a learnt
  one perhaps on that of the second only), which are two, and not among the rest.
- `ProblemHeld`: each clause added so far is true at the root, is a watch of one of its literals, or is an object of
  which at most literals false at the root are gone.  Without it, `simplifyDB` could
  drop what makes a solution a solution.
- every set that was printed is a solution.

When nothing waits, a true literal's watches are all attended to, so a clause that is not true has both
watched literals open (`NothingMissed`); when moreover every variable is fixed, clauses and
propagators hold, and what `blockCurrentSol` prints is a solution.  Together with `NothingLeftOut` this gives
each step of `Enumeration` (`SearchEnumerates`).

### IntVars

Assumptions: `BoundsAssumption` (the initial bounds are integers in order; they may be equal, constants are variables
too), `ValuesAssumption` (the values of a sparse variable are a list of integers that increases and is not
empty) and `LevelAssumption` (the bound on levels is a natural).

The invariant `IVInv` says of the one representation that there is:

- eager literals (`ELInv`): the trail was enqueued from nothing, each literal open when it was enqueued and
  explained by literals before it (`Enqueues`), and the set of what is true is exactly `Truths`, the literals that
  a domain with these bounds and holes makes true (`Agreed`).  The same holds of the prefix
  of the trail that each open level started from and the domain it had then
  (`Level`), which is what makes backtracking a step that needs no argument.  `LiteralsAgree` alone is not inductive: it does
  not say what a prefix of the trail makes true.
- lazy literals (`LLInv`): the same, with `Truths` read off the list as it is
  now, because a literal stays when the level it was made at is undone.  `ListRight` says that the list
  is sorted, linked both ways and has a node once for a value.  A node is
  put strictly between the bounds (`Grows`), hence also between those of every open
  level, which are wider; so the literal is open at all of them, and none of them changes in what it makes true.
- a sparse domain (`SLInv`): the eager invariant over places, and what is copied, now and at each open level,
  is the image of it under the list of values (`Copied`).

A call is described by how it changes `Truths`: raising the lower bound makes the literals between the old bound and the
new one true, in the order in which the code walks over them, and each is explained by the new bound's literal.  In
`IntVarEL` the bound may fall into a hole and move on, in `IntVarLL` the walk
goes along the list.  These walks are recursive functions; what they return is proved by
descent on a number (how far it is to the end of the range or of the list) with `NaturalFacts`.

`VariableNarrows` and `EventsTold` follow from one description of a step, `Promised`, that does not mention
the representation: a step fails, cuts the domain down to one of the conditions of `Domain` and tells so, leaves
the domain alone, opens a level or returns to one.

### Search

Assumptions: `PointAssumption` (finitely many assignments of integers; solutions are among them),
`VarAssumption` and `OptionAssumption` (the options have their types; hooks exclude assumptions of the user,
which they would drop, and need learning).

The invariant `SInv` ties the domains, level by level, to the decisions and
assumptions of these levels.  With learning (`LearningKeeps`), a level has lost only those solutions that
its decisions exclude, and learnt clauses exclude none that is to be kept: with an
objective all solutions, since the bound is an assumption; without, those not printed.  Without learning (`AlternativesKeep`) every
solution that is wanted is still in the last level, or in the alternative of some decision.
`BestRight`, `UserAssumed`, `HookAssumed` and `RootBounded` say which assumptions are in
force, the bound of the objective among them.  All of it is needed because UNSATISFIABLE and OPTIMAL are
claimed at the root or at the levels of assumptions, from what the domains and nogoods of
all earlier levels and restarts have become.

### How, and what stays with TLC

Induction is used in one form: a set of naturals that is not empty has a least
element, and one that is bounded a greatest (`NaturalFacts`, proved from the library's
`WFMin`).  The induction theorems
of the library take an operator as a parameter, which the provers cannot instantiate.

Only model-checked:

- `NoneTwice` of `Sat`: nothing in the code keeps the clause that blocks a solution.  It is learnt, and `reduceDB` may delete
  it when it is not locked; after a restart nothing else keeps the search from the same assignment.  Without
  restarts one would have to show that conflict analysis never returns to a part of the tree that it has left.  On the
  instance the property holds; `SearchEnumerates` speaks of the set of what is printed.
- `Propagation` and the families of `Propagators`: their loops are folds over
  arrays and queues, again induction over data.
- `Branching` and `Circuit` declare RECURSIVE operators, which tlapm does not take.
- `NogoodRight` of `AssumptionNogood`: a lazy reason of the false assumption is asked for with the index of
  an earlier conflict (section 3, observations).  The instances have none; a theorem would have to assume it.
- `Terminates`, `PropagationEnds` and `SearchEnds`: liveness under fairness.

## 6. Not modelled

- Creation and removal of lazy literals in the SAT solver, `aEnqueue` and
  `async_fail` (symmetry breaking), `explainToExhaustion`.
- Symmetry breaking, and the conflict analysis that serves it.
- Sequences of restart limits (Luby, geometric; `core/engine.cpp:535-565`): `Sat`
  restarts after a constant number of conflicts, `Search` at any.
- Activities as numbers, phases, impacts, scores from the MIP solver, values of the last solution: they
  pick a decision, which is left open.
- `last_prop`: only the LP relaxation sets it, and it is not modelled, being
  floating-point arithmetic.
- The decomposition of `cumulative` by time points, `--cumu-global off`.
- Rounding errors of `pow` and `log` in `int_pow`: the model has exact roots and logarithms.
- The propagators of section 1 that the table of section 2 does not list: each is an algorithm of its own; what
  the core needs of them, that explanations are clauses that hold, is assumed of `Inference` in `Sat`.
- Generated code (parser, lexer), options, statistics, the profiler connection, examples.
- A conflict at the root found by a propagator with a lazy explanation is
  rejected before analysis, as the assertion in `findConflictLevel` demands.

## 7. Plan

1. Further propagators in `Globals`, each with its meaning in `FlatZinc` and instances in `MCGlobals`.
2. Symmetry breaking, which composes with `Sat` through `aEnqueue`.
3. Proofs: that the queues of `Propagation` keep their flags (`FlagsMatchQueues`) and reach a fixed point, whose
   folds over arrays would have to be written as walks like those of `IntVarLL`; the families of
   `Propagators` one by one; `NoneTwice` for searches without restarts.
