------------------------------ MODULE Branching ------------------------------
(* Which decision comes next: the groups of branching/branching.cpp, the warm   *)
(* start, IntVar::branch and SAT::branch, set up from a search annotation as    *)
(* flatzinc.cpp does, with the search that backtracks and switches to VSIDS.    *)
EXTENDS Integers, Sequences, FiniteSets, TLC, SequencesExt, FiniteSetsExt

CONSTANTS
  Dom0,         \* the domain of every variable at the start, sets of numbers
  BoolVars,     \* those that are Boolean, with domain {0, 1}
  Configs,      \* records [ann, vsids, toggle]: an annotation and two options
  Activity,     \* the SAT variables <<v, k>> ([v = k]), the most active first
  MaxConflicts, MaxStarts, MaxSolutions  \* bounds on the search

Vars == DOMAIN Dom0

(* Annotations are sequences of records with the fields call, x (variables or   *)
(* literals), vb, pv and ann (the annotations inside).                          *)
ASSUME DomAssumption == \A v \in Vars : Dom0[v] \subseteq Int /\ IsFiniteSet(Dom0[v]) /\ Dom0[v] # {}
ASSUME BoolAssumption == BoolVars \subseteq Vars /\ \A v \in BoolVars : Dom0[v] = {0, 1}
ASSUME BoundAssumption == MaxConflicts \in Nat /\ MaxStarts \in Nat /\ MaxSolutions \in Nat

VARIABLES
  config,       \* the element of Configs
  x,            \* engine.branching->x, the children of the outermost group
  vsids,        \* so.vsids
  D,            \* the domains
  fin, cur,     \* of every group: whether it finished, and its place; trailed
  pos, init_conflicts,   \* of the warm start
  heap,         \* sat.order_heap
  stack,        \* one record for each decision level
  conflicts, starts, solutions,
  found         \* branch() returned no decision

vars == <<config, x, vsids, D, fin, cur, pos, init_conflicts, heap, stack, conflicts, starts, solutions, found>>

INT_MAX == MaxConflicts + 1
Root == <<>>
NoDec == [var |-> "none", val |-> 0, type |-> "none"]

fixedIn(d, v) == Cardinality(d[v]) = 1
SATVars == UNION {IF v \in BoolVars THEN {<<v, 1>>} ELSE {<<v, k>> : k \in Dom0[v]} : v \in Vars}
assigned(d, l) == d[l[1]] = {l[2]} \/ l[2] \notin d[l[1]]

-----------------------------------------------------------------------------
(* The tree of groups that an annotation stands for.                            *)
Node(type, id, xs, inner, vb, terminal) ==
  [type |-> type, id |-> id, x |-> xs, annotations |-> inner, vb |-> vb, terminal |-> terminal]
Leaf(v) == Node("var", Root, <<v>>, <<>>, "INORDER", TRUE)
satNode == Node("sat", Root, <<>>, <<>>, "INORDER", TRUE)
Leaves(xs) == [i \in DOMAIN xs |-> Leaf(xs[i])]

RECURSIVE parseSolveAnn(_, _)
parseSolveAnn(ann, id) ==
  [i \in DOMAIN ann |->
    LET a == ann[i]
        me == Append(id, i)
    IN CASE a.call = "int_search" ->
              Node("group", me, Leaves(SelectSeq(a.x, LAMBDA v : ~ fixedIn(Dom0, v))), <<>>, a.vb, TRUE)
         [] a.call = "bool_search" -> Node("group", me, Leaves(a.x), <<>>, a.vb, TRUE)
         [] a.call = "seq_search" -> Node("group", me, parseSolveAnn(a.ann, me), <<>>, "INORDER", FALSE)
         [] a.call = "priority_search" -> Node("priority", me, Leaves(a.x), parseSolveAnn(a.ann, me), a.vb, FALSE)
         [] a.call = "warm_start" -> Node("warm", me, a.x, <<>>, "INORDER", TRUE)]

(* How many searches there are; a warm start is none. *)
RECURSIVE nbNonEmptySearchAnnotations(_)
nbNonEmptySearchAnnotations(ann) ==
  FoldLeft(LAMBDA n, a : n + CASE a.call \in {"int_search", "bool_search", "priority_search"} -> 1
                               [] a.call = "seq_search" -> IF nbNonEmptySearchAnnotations(a.ann) > 0 THEN 1 ELSE 0
                               [] a.call = "warm_start" -> 0, 0, ann)

fixAllSearch ==
  Node("group", <<0>>, Leaves(SelectSeq(SetToSeq(Vars), LAMBDA v : v \in BoolVars \/ ~ fixedIn(Dom0, v))), <<>>, "INORDER", TRUE)

RECURSIVE GroupsOf(_)
GroupsOf(n) ==
  IF n.type \notin {"group", "priority"} THEN {}
  ELSE {n.id} \cup (UNION {GroupsOf(n.x[i]) : i \in DOMAIN n.x}) \cup UNION {GroupsOf(n.annotations[i]) : i \in DOMAIN n.annotations}

(* The value a variable prefers is what the last search of it says; they are    *)
(* looked for in the order in which they are parsed.                            *)
RECURSIVE searches(_)
searches(ann) ==
  FlattenSeq([i \in DOMAIN ann |-> IF ann[i].call \in {"int_search", "bool_search"} THEN <<ann[i]>> ELSE searches(ann[i].ann)])
preferred_val(v) ==
  FoldLeft(LAMBDA p, a : IF v \in Range(a.x) /\ a.pv # "DEFAULT" THEN a.pv ELSE p, "MIN", searches(config.ann))

Init ==
  /\ config \in Configs
  /\ LET ann == config.ann
         none == nbNonEmptySearchAnnotations(ann) = 0
     IN /\ vsids = (config.vsids \/ none)
        /\ x = (IF config.vsids THEN <<satNode>> ELSE <<>>) \o parseSolveAnn(ann, Root)
                 \o (IF none /\ ~ config.vsids THEN <<satNode>> ELSE <<>>) \o <<fixAllSearch>>
  /\ D = Dom0
  /\ fin = {} /\ cur = [g \in {Root} \cup UNION {GroupsOf(x[i]) : i \in DOMAIN x} |-> 0]
  /\ pos = 1 /\ init_conflicts = INT_MAX
  /\ heap = SATVars
  /\ stack = <<>> /\ conflicts = 0 /\ starts = 1 /\ solutions = 0 /\ found = FALSE

-----------------------------------------------------------------------------
(* What branch() and finished() change on their way: s holds fin, cur, heap,    *)
(* pos, init_conflicts and the old pos when it was put on the trail.            *)
R(is, s) == [is |-> is, s |-> s]
Undef(l) == ~ assigned(D, l)
Children(n) == IF n.type = "priority" THEN n.annotations ELSE n.x
root == Node("group", Root, x, <<>>, "INORDER", FALSE)

warmFinished(n, s) ==
  LET decs == n.x
      open == {i \in s.pos .. Len(decs) : Undef(decs[i])}
      next == IF open = {} THEN Len(decs) + 1 ELSE Min(open)
  IN IF conflicts > s.init_conflicts THEN R(TRUE, s)
     ELSE IF next = s.pos \/ s.pos > Len(decs) THEN R(s.pos > Len(decs), s)
     ELSE R(open = {}, [s EXCEPT !.pos = next,
                                 !.saved = IF conflicts < s.init_conflicts THEN Append(@, s.pos) ELSE @])

(* SAT::finished drops what is assigned from the top of the heap. *)
satFinished(s) ==
  LET left == SelectSeq(Activity, LAMBDA l : l \in s.heap)
      open == {i \in DOMAIN left : ~ assigned(D, left[i])}
  IN IF open = {} THEN R(TRUE, [s EXCEPT !.heap = {}])
     ELSE R(FALSE, [s EXCEPT !.heap = {left[i] : i \in Min(open) .. Len(left)}])

RECURSIVE finished(_, _), firstUnfinished(_, _, _)
(* The place of the first child from i on that has not finished, or 0. *)
firstUnfinished(c, i, s) ==
  IF i > Len(c) THEN R(0, s)
  ELSE LET r == finished(c[i], s) IN IF r.is THEN firstUnfinished(c, i + 1, r.s) ELSE R(i, r.s)
finished(n, s) ==
  CASE n.type = "var" -> R(fixedIn(D, n.x[1]), s)
    [] n.type = "warm" -> warmFinished(n, s)
    [] n.type = "sat" -> satFinished(s)
    [] n.type \in {"group", "priority"} ->
         IF n.id \in s.fin THEN R(TRUE, s)
         ELSE LET r == firstUnfinished(Children(n), 1, s)
              IN IF r.is = 0 THEN R(TRUE, [r.s EXCEPT !.fin = @ \cup {n.id}]) ELSE R(FALSE, r.s)

-----------------------------------------------------------------------------
size(v) == Max(D[v]) - Min(D[v])
varScore(v, vb) ==
  CASE vb = "MIN_MIN" -> -Min(D[v])
    [] vb = "MIN_MAX" -> Min(D[v])
    [] vb = "MAX_MIN" -> -Max(D[v])
    [] vb = "MAX_MAX" -> Max(D[v])
    [] vb = "SIZE_MIN" -> -size(v)
    [] vb = "SIZE_MAX" -> size(v)
    [] vb = "REGRET_MIN_MAX" -> IF fixedIn(D, v) THEN 0 ELSE Min(D[v] \ {Min(D[v])}) - Min(D[v])

(* The score of a group is the average of its children's, as <<sum, count>>. *)
RECURSIVE getScore(_, _)
getScore(n, vb) ==
  IF n.type = "var" THEN <<varScore(n.x[1], vb), 1>>
  ELSE LET scores == [i \in DOMAIN n.x |-> getScore(n.x[i], vb)]
           den == FoldLeft(LAMBDA a, q : a * q[2], 1, scores)
       IN <<FoldLeft(LAMBDA a, q : a + q[1] * (den \div q[2]), 0, scores), den * Len(n.x)>>
atMost(p, q) == p[1] * q[2] <= q[1] * p[2]

(* IntVar::branch, without the values of the last solution. *)
intBranch(v) ==
  LET lo == Min(D[v])
      hi == Max(D[v])
      pv == preferred_val(v)
      dec(val, type) == [var |-> v, val |-> val, type |-> type]
  IN CASE pv = "MIN" -> dec(lo, "EQ")
       [] pv = "MAX" -> dec(hi, "EQ")
       [] pv = "SPLIT_MIN" -> dec(lo + ((hi - lo - 1) \div 2), "LE")
       [] pv = "SPLIT_MAX" -> dec(lo + ((hi - lo) \div 2), "GE")
       [] pv = "MEDIAN" -> dec(SetToSortSeq(D[v], <)[((Cardinality(D[v]) - 1) \div 2) + 1], "EQ")
litBranch(l, sign) == [var |-> l[1], val |-> l[2], type |-> IF sign THEN "EQ" ELSE "NE"]

(* The polarity of a Boolean is set by a search of it and by nothing else here. *)
boolBranch(v) == litBranch(<<v, 1>>, preferred_val(v) \in {"MAX", "SPLIT_MAX"})

(* Without VSIDS the SAT solver has no decision to offer. *)
satBranch(s) ==
  LET next == SelectSeq(Activity, LAMBDA l : l \in s.heap)[1]
  IN IF ~ vsids THEN {[di |-> NoDec, s |-> s]}
     ELSE {[di |-> litBranch(next, sign), s |-> [s EXCEPT !.heap = @ \ {next}]] : sign \in BOOLEAN}

warmBranch(n, s) ==
  LET init == IF conflicts < s.init_conflicts THEN conflicts ELSE s.init_conflicts
      open == {i \in s.pos .. Len(n.x) : Undef(n.x[i])}
      t == [s EXCEPT !.init_conflicts = init]
  IN IF conflicts # init \/ s.pos > Len(n.x) THEN {[di |-> NoDec, s |-> t]}
     ELSE IF open = {} THEN {[di |-> NoDec, s |-> [t EXCEPT !.pos = Len(n.x) + 1]]}
     ELSE {[di |-> [var |-> n.x[Min(open)][1], val |-> n.x[Min(open)][2], type |-> "EQ"],
            s |-> [t EXCEPT !.pos = Min(open)]]}

(* The unfinished children, all of them looked at, and those that score best.   *)
Unfinished(c, s) ==
  FoldLeft(LAMBDA r, i : LET q == finished(c[i], r.s) IN R(IF q.is THEN r.is ELSE r.is \cup {i}, q.s),
           R({}, s), [i \in DOMAIN c |-> i])
Best(n, U) ==
  CASE n.vb = "RANDOM" -> U
    [] n.vb # "RANDOM" -> {Min({i \in U : \A j \in U : atMost(getScore(n.x[j], n.vb), getScore(n.x[i], n.vb))})}

RECURSIVE branch(_, _)
enter(n, i, s) == branch(Children(n)[i], IF n.terminal THEN s ELSE [s EXCEPT !.cur[n.id] = i])
select(n, s) ==
  LET f == firstUnfinished(Children(n), 1, s)
      u == Unfinished(Children(n), s)
  IN IF n.vb = "INORDER"
     THEN IF f.is = 0 THEN {[di |-> NoDec, s |-> f.s]} ELSE enter(n, f.is, f.s)
     ELSE IF u.is = {} THEN {[di |-> NoDec, s |-> u.s]} ELSE UNION {enter(n, i, u.s) : i \in Best(n, u.is)}
branch(n, s) ==
  CASE n.type = "var" -> {[di |-> IF n.x[1] \in BoolVars THEN boolBranch(n.x[1]) ELSE intBranch(n.x[1]), s |-> s]}
    [] n.type = "warm" -> warmBranch(n, s)
    [] n.type = "sat" -> satBranch(s)
    [] n.type \in {"group", "priority"} ->
         LET k == s.cur[n.id]
             r == IF k > 0 THEN finished(Children(n)[k], s) ELSE R(TRUE, s)
         IN IF ~ r.is THEN branch(Children(n)[k], r.s) ELSE select(n, r.s)

-----------------------------------------------------------------------------
Narrowed(d, di) ==
  CASE di.type = "EQ" -> {k \in d : k = di.val}
    [] di.type = "NE" -> {k \in d : k # di.val}
    [] di.type = "GE" -> {k \in d : k > di.val}
    [] di.type = "LE" -> {k \in d : k <= di.val}

(* A decision, or none: then what there is is taken for a solution. *)
decide ==
  /\ ~ found
  /\ \E r \in branch(root, [fin |-> fin, cur |-> cur, heap |-> heap, pos |-> pos,
                            init_conflicts |-> init_conflicts, saved |-> <<>>]) :
       LET here == IF stack = <<>> THEN <<>> ELSE [stack EXCEPT ![Len(stack)].saved = @ \o r.s.saved]
       IN /\ fin' = r.s.fin /\ cur' = r.s.cur /\ heap' = r.s.heap
          /\ pos' = r.s.pos /\ init_conflicts' = r.s.init_conflicts
          /\ IF r.di = NoDec
             THEN found' = TRUE /\ stack' = here /\ UNCHANGED D
             ELSE /\ stack' = Append(here, [D |-> D, fin |-> r.s.fin, cur |-> r.s.cur, saved |-> <<>>, di |-> r.di])
                  /\ D' = [D EXCEPT ![r.di.var] = Narrowed(@, r.di)]
                  /\ UNCHANGED found
  /\ UNCHANGED <<config, x, vsids, conflicts, starts, solutions>>

(* Propagation at the current level. *)
propagate ==
  /\ ~ found
  /\ \E v \in Vars : \E k \in D[v] : ~ fixedIn(D, v) /\ D' = [D EXCEPT ![v] = @ \ {k}]
  /\ UNCHANGED <<config, x, vsids, fin, cur, pos, init_conflicts, heap, stack, conflicts, starts, solutions, found>>

(* Mutant: the place in a group is not trailed. *)
btToLevelCur(k) ==
  IF k = Len(stack) THEN UNCHANGED <<D, fin, cur, pos, heap, stack>>
  ELSE LET saved == FlattenSeq([i \in 1 .. Len(stack) - k |-> stack[k + i].saved])
       IN /\ D' = stack[k + 1].D
          /\ fin' = stack[k + 1].fin /\ cur' = cur
          /\ pos' = IF saved = <<>> THEN pos ELSE saved[1]
          /\ heap' = heap \cup {l \in SATVars : assigned(D, l) /\ ~ assigned(D', l)}
          /\ stack' = SubSeq(stack, 1, k)

(* Back to level k: what is trailed is restored, what is unassigned is inserted. *)
btToLevel(k) ==
  IF k = Len(stack) THEN UNCHANGED <<D, fin, cur, pos, heap, stack>>
  ELSE LET saved == FlattenSeq([i \in 1 .. Len(stack) - k |-> stack[k + i].saved])
       IN /\ D' = stack[k + 1].D
          /\ fin' = stack[k + 1].fin /\ cur' = stack[k + 1].cur
          /\ pos' = IF saved = <<>> THEN pos ELSE saved[1]
          /\ heap' = heap \cup {l \in SATVars : assigned(D, l) /\ ~ assigned(D', l)}
          /\ stack' = SubSeq(stack, 1, k)

conflict ==
  /\ ~ found /\ stack # <<>> /\ conflicts < MaxConflicts
  /\ conflicts' = conflicts + 1
  /\ \E k \in 0 .. Len(stack) - 1 : btToLevel(k)
  /\ UNCHANGED <<config, x, vsids, init_conflicts, starts, solutions, found>>

(* A solution is followed by a better one, from the root, or counts as conflict. *)
solution ==
  /\ found /\ solutions < MaxSolutions
  /\ solutions' = solutions + 1
  /\ found' = FALSE
  /\ conflicts' \in {conflicts, conflicts + 1} /\ conflicts' <= MaxConflicts
  /\ btToLevel(0)
  /\ UNCHANGED <<config, x, vsids, init_conflicts, starts>>

(* Mutant: the SAT solver is taken from the other end. *)
toggleVSIDSLast(f, c) ==
  /\ x' = IF vsids THEN Front(x) ELSE Append(x, satNode)
  /\ vsids' = ~ vsids
  /\ fin' = f \ {Root}
  /\ cur' = [c EXCEPT ![Root] = 0]

(* Engine::toggleVSIDS, at the root: the SAT solver comes first or goes. *)
toggleVSIDS(f, c) ==
  /\ x' = IF vsids THEN Tail(x) ELSE <<satNode>> \o x
  /\ vsids' = ~ vsids
  /\ fin' = f \ {Root}
  /\ cur' = [c EXCEPT ![Root] = 0]

restart ==
  /\ ~ found /\ conflicts > 0 /\ starts < MaxStarts
  /\ starts' = starts + 1
  /\ LET bottom == IF stack = <<>> THEN [D |-> D, fin |-> fin, cur |-> cur] ELSE stack[1]
         saved == FlattenSeq([i \in DOMAIN stack |-> stack[i].saved])
     IN /\ D' = bottom.D
        /\ IF config.toggle /\ starts' % 2 = 1
           THEN toggleVSIDS(bottom.fin, bottom.cur)
           ELSE fin' = bottom.fin /\ cur' = bottom.cur /\ UNCHANGED <<x, vsids>>
        /\ pos' = IF saved = <<>> THEN pos ELSE saved[1]
        /\ heap' = heap \cup {l \in SATVars : assigned(D, l) /\ ~ assigned(D', l)}
        /\ stack' = <<>>
  /\ UNCHANGED <<config, init_conflicts, conflicts, solutions, found>>

Next == decide \/ propagate \/ conflict \/ solution \/ restart

Spec == Init /\ [][Next]_vars

-----------------------------------------------------------------------------
(* The searches in the order in which they are asked for; those of a priority   *)
(* search have no order among themselves, and what is left comes last.          *)
RECURSIVE units(_)
units(ann) == FlattenSeq([i \in DOMAIN ann |-> IF ann[i].call = "seq_search" THEN units(ann[i].ann) ELSE <<ann[i]>>])
RECURSIVE VarsOf(_)
VarsOf(a) ==
  IF a.call = "priority_search" THEN UNION {VarsOf(a.ann[i]) : i \in DOMAIN a.ann} ELSE IF a.call = "warm_start" THEN {} ELSE Range(a.x)

Decision(l) == stack[l].di
OpenAt(l, S) == \E v \in S : ~ fixedIn(stack[l].D, v)

(* Without VSIDS, a decision is of the first search that has a variable left,   *)
(* of the first such variable when they are taken in input order, or it is one  *)
(* of the warm start whose turn it is.                                          *)
InOrder(l) ==
  LET di == Decision(l)
      us == Append(units(config.ann), [call |-> "int_search", x |-> <<>>, vb |-> "RANDOM", pv |-> "DEFAULT", ann |-> <<>>])
      open(i) == us[i].call # "warm_start" /\ i < Len(us) /\ OpenAt(l, VarsOf(us[i]))
  IN \E i \in DOMAIN us :
       /\ \A j \in 1 .. i - 1 : ~ open(j)
       /\ \/ i = Len(us)
          \/ us[i].call = "warm_start" /\ di.type = "EQ" /\ <<di.var, di.val>> \in Range(us[i].x)
          \/ di.var \in VarsOf(us[i]) /\ us[i].vb # "INORDER"
          \/ di.var \in VarsOf(us[i]) /\ us[i].call = "priority_search"
          \/ \E k \in DOMAIN us[i].x : us[i].x[k] = di.var /\ us[i].call # "priority_search"
                                       /\ ~ OpenAt(l, Range(SubSeq(us[i].x, 1, k - 1)))

(* A priority search stays with the search it has chosen until that is done.    *)
Stays(l) ==
  LET us == units(config.ann) IN
  \A i \in DOMAIN us : us[i].call = "priority_search" =>
    \A j \in DOMAIN us[i].ann :
      LET S == VarsOf(us[i].ann[j])
      IN Decision(l).var \in S /\ OpenAt(l + 1, S) => Decision(l + 1).var \in S

(* Both a decision and its alternative leave something and exclude something.   *)
Splits(l) ==
  LET d == stack[l].D[Decision(l).var] IN Narrowed(d, Decision(l)) \notin {{}, d}

(* Every decision that is in force is one the annotation asks for, wherever     *)
(* backtracking has left the cursors of the groups, and gets the search on.     *)
DecisionsRight ==
  /\ \A g \in DOMAIN cur : cur[g] >= 0
  /\ \A l \in DOMAIN stack : Splits(l) /\ (vsids \/ InOrder(l))
  /\ \A l \in DOMAIN stack : vsids \/ l = Len(stack) \/ Stays(l)

(* No decision is left only when every variable is fixed: a solution is printed *)
(* with getVal, "assert(isFixed());" (vars/int-var.h:161).                      *)
SolutionsFixed == found => \A v \in Vars : fixedIn(D, v)

(* Nothing is missed: solutions are complete, and the heap of the SAT solver    *)
(* holds whatever is not assigned, also while it is not asked.                  *)
NothingMissed ==
  /\ SolutionsFixed
  /\ \A l \in SATVars : ~ assigned(D, l) => l \in heap
================================================================================
