---------------------------- MODULE Propagation ----------------------------
(* The propagation loop of the engine: Engine::propagate and clearPropState   *)
(* (core/engine.cpp), the queue of changed variables and their wake-ups       *)
(* (vars/int-var.cpp), the queues of propagators (core/propagator.h), and     *)
(* four propagators that keep different kinds of state between a wake-up and  *)
(* a run: BinGE and BinNE, half reified (primitives/binary.cpp), Minimum      *)
(* (globals/minimum.cpp) and AllDiffValue (globals/alldiff.cpp).              *)
(*                                                                            *)
(* Domains and literals agree (IntVarEL), so a literal is the set of values   *)
(* it allows a variable.  What the search asserts is left open.  The state    *)
(* of the loop is one record, for a run of a propagator is a sequence of      *)
(* calls each of which may fail.                                              *)
EXTENDS Integers, Sequences, FiniteSets, SequencesExt, FiniteSetsExt

CONSTANTS
  Var,        \* the integer variables, each [0..MaxValue -> ...] in Domains
  Bool,       \* the Boolean variables that reify
  Domains,    \* initial domain of each of them
  Problems,   \* what is posted, a sequence of records of
              \*   Props      the propagators, in order of creation
              \*   Clauses    sets of literals <<variable, values>>
              \*   MaySwitch  whether switch_to_vsids_after is set
  MaxLevel    \* bound: deepest decision level

AllVars == Var \cup Bool
Queues == 0 .. 5
Always == "bv_true"
MaxValue == Max(UNION {Domains[v] : v \in AllVars})

ASSUME DomainsAssumption ==
  \A v \in AllVars : Domains[v] \subseteq Nat /\ IsFiniteSet(Domains[v]) /\ Domains[v] # {}
ASSUME PropsAssumption ==
  \A n \in DOMAIN Problems : \A p \in Range(Problems[n].Props) :
    /\ p.kind \in {"GE", "NE", "MIN", "ALLDIFF"}
    /\ \A i, j \in DOMAIN p.xs : p.xs[i] \in Var /\ (p.xs[i] = p.xs[j] => i = j)
    /\ p.r \in Bool \cup {Always}

VARIABLES
  posted, \* which of the problems this is
  s,      \* the loop's state, see Created
  mode,   \* where the engine is: "sat" and "run" in propagate, "search" after it
  past,   \* what each open level started from
  left,   \* history: the solutions that what the search asserted allows
  vsids   \* so.vsids

vars == <<posted, s, mode, past, left, vsids>>

Props == Problems[posted].Props
Clauses == Problems[posted].Clauses
Ids == DOMAIN Props

min(t, v) == Min(t.dom[v])
max(t, v) == Max(t.dom[v])
isFixed(t, v) == Cardinality(t.dom[v]) = 1
isTrue(t, r) == r = Always \/ t.dom[r] = {1}
isFalse(t, r) == r # Always /\ t.dom[r] = {0}

(* The constraints, and the assignments that satisfy all of them. *)
Holds(a, p) ==
  LET xs == p.xs
      y == Last(xs)
      others == {a[x] : x \in Range(Front(xs))}
  IN \/ p.r # Always /\ a[p.r] = 0
     \/ p.kind = "GE" /\ a[xs[1]] >= a[xs[2]] + p.c
     \/ p.kind = "NE" /\ a[xs[1]] # a[xs[2]] + p.c
     \/ p.kind = "MIN" /\ a[y] = Min(others)
     \/ p.kind = "ALLDIFF" /\ Cardinality(others \cup {a[y]}) = Len(xs)

Assignments == {a \in [AllVars -> 0 .. MaxValue] : \A v \in AllVars : a[v] \in Domains[v]}
SolutionsOf ==
  [n \in DOMAIN Problems |->
     {a \in Assignments : /\ \A p \in Range(Problems[n].Props) : Holds(a, p)
                          /\ \A c \in Problems[n].Clauses : \E l \in c : a[l[1]] \in l[2]}]
Solutions == SolutionsOf[posted]

-----------------------------------------------------------------------------
(* The queues. *)

pushInQueue(t, p) ==
  IF p \in t.in_queue THEN t
  ELSE [t EXCEPT !.in_queue = @ \cup {p}, !.p_queue[Props[p].priority] = Append(@, p)]

pushVar(t, v) ==
  IF v \in t.var_in_queue THEN t
  ELSE [t EXCEPT !.var_in_queue = @ \cup {v}, !.v_queue = Append(@, v)]

(* Mutant: BinGE listens to the wrong ends. *)
eflagsSwapped(p, v) ==
  LET xs == Props[p].xs IN
  CASE v \notin Range(xs) -> {}
    [] Props[p].kind = "GE" -> IF v = xs[1] THEN {"L"} ELSE {"U"}
    [] Props[p].kind \in {"NE", "ALLDIFF"} -> {"F"}
    [] Props[p].kind = "MIN" -> IF v = xs[Len(xs)] THEN {"L"} ELSE {"L", "U"}

(* The events p has asked for of v. *)
eflags(p, v) ==
  LET xs == Props[p].xs IN
  CASE v \notin Range(xs) -> {}
    [] Props[p].kind = "GE" -> IF v = xs[1] THEN {"U"} ELSE {"L"}
    [] Props[p].kind \in {"NE", "ALLDIFF"} -> {"F"}
    [] Props[p].kind = "MIN" -> IF v = xs[Len(xs)] THEN {"L"} ELSE {"L", "U"}

(* Minimum::wakeup: only a new least upper bound, or a lower bound, counts. *)
wakeupMinimum(t, p, v, c) ==
  LET y == Props[p].xs[Len(Props[p].xs)]
      less == v # y /\ max(t, v) < t.min_max[p]
      u == IF less THEN pushInQueue([t EXCEPT !.min_max[p] = max(t, v)], p) ELSE t
  IN IF "L" \in c THEN pushInQueue([u EXCEPT !.lower_change = @ \cup {p}], p) ELSE u

wakeup(t, p, v, c) ==
  CASE Props[p].kind \in {"GE", "NE"} -> IF isFalse(t, Props[p].r) THEN t ELSE pushInQueue(t, p)
    [] Props[p].kind = "MIN" -> wakeupMinimum(t, p, v, c)
    [] Props[p].kind = "ALLDIFF" -> pushInQueue([t EXCEPT !.new_fixed[p] = Append(@, v)], p)

(* IntVar::wakePropagators, then its clearPropState. *)
wakePropagators(t, v) ==
  LET woken == SetToSortSeq({p \in Ids : eflags(p, v) \cap t.changes[v] # {} /\ p \notin t.satisfied},
                            LAMBDA p, q : p > q)
      wake(u, p) == wakeup(u, p, v, t.changes[v])
  IN [FoldLeft(wake, t, woken) EXCEPT !.changes[v] = {}, !.var_in_queue = @ \ {v}]

(* clearPropState of a propagator. *)
cleared(t, p) ==
  [t EXCEPT !.in_queue = @ \ {p}, !.lower_change = @ \ {p}, !.new_fixed[p] = <<>>]

(* Mutant: the queues are emptied, what is in them still thinks it is there. *)
queuesEmptied(t) == [t EXCEPT !.v_queue = <<>>, !.p_queue = [i \in Queues |-> <<>>]]

(* Engine::clearPropState. *)
clearPropState(t) ==
  LET waiting == {p \in Ids : \E i \in Queues : p \in Range(t.p_queue[i])}
      changed == Range(t.v_queue)
      clear(u, p) == cleared(u, p)
  IN [FoldLeft(clear, t, SetToSeq(waiting)) EXCEPT
        !.changes = [v \in Var |-> IF v \in changed THEN {} ELSE @[v]],
        !.var_in_queue = @ \ changed, !.v_queue = <<>>, !.p_queue = [i \in Queues |-> <<>>]]

-----------------------------------------------------------------------------
(* The domains. *)

(* Mutant: calls that change nothing are not left out. *)
narrowAgain(t, v, keep) ==
  LET new == t.dom[v] \cap keep
      told == {"C"} \cup (IF Min(new) # min(t, v) THEN {"L"} ELSE {})
                    \cup (IF Max(new) # max(t, v) THEN {"U"} ELSE {})
                    \cup (IF Cardinality(new) = 1 THEN {"F"} ELSE {})
      u == [t EXCEPT !.dom[v] = new]
  IN CASE ~ t.ok -> t
       [] t.ok /\ new = {} -> [t EXCEPT !.ok = FALSE]
       [] t.ok /\ new # {} ->
            IF v \in Bool THEN [u EXCEPT !.trail = Append(@, v)]
            ELSE pushVar([u EXCEPT !.changes[v] = @ \cup told], v)

(* setMin, setMax, setVal, remVal and the enqueuing of a literal: what is not *)
(* in keep goes; the events are those of IntVarEL.                            *)
narrow(t, v, keep) ==
  LET new == t.dom[v] \cap keep
      told == {"C"} \cup (IF Min(new) # min(t, v) THEN {"L"} ELSE {})
                    \cup (IF Max(new) # max(t, v) THEN {"U"} ELSE {})
                    \cup (IF Cardinality(new) = 1 THEN {"F"} ELSE {})
      u == [t EXCEPT !.dom[v] = new]
  IN CASE ~ t.ok \/ new = t.dom[v] -> t
       [] t.ok /\ new = {} -> [t EXCEPT !.ok = FALSE]
       [] t.ok /\ new # {} /\ new # t.dom[v] ->
            IF v \in Bool THEN [u EXCEPT !.trail = Append(@, v)]
            ELSE pushVar([u EXCEPT !.changes[v] = @ \cup told], v)

AtLeast(k) == {d \in 0 .. MaxValue : d >= k}
AtMost(k) == {d \in 0 .. MaxValue : d <= k}
Not(k) == 0 .. MaxValue \ {k}

setFalse(t, r) == IF r = Always THEN [t EXCEPT !.ok = FALSE] ELSE narrow(t, r, {0})

-----------------------------------------------------------------------------
(* The propagators. *)

propagateGE(t, p) ==
  LET x == Props[p].xs[1]
      y == Props[p].xs[2]
      c == Props[p].c
      r == Props[p].r
      u == IF max(t, x) < min(t, y) + c /\ r # Always THEN setFalse(t, r) ELSE t
      w == narrow(narrow(u, x, AtLeast(min(t, y) + c)), y, AtMost(max(t, x) - c))
  IN IF isFalse(t, r) THEN t
     ELSE IF ~ u.ok \/ ~ isTrue(u, r) THEN u
     ELSE IF w.ok /\ min(w, x) >= max(w, y) + c THEN [w EXCEPT !.satisfied = @ \cup {p}] ELSE w

propagateNE(t, p) ==
  LET x == Props[p].xs[1]
      y == Props[p].xs[2]
      c == Props[p].c
      r == Props[p].r
      u == IF isFixed(t, x) /\ isFixed(t, y) /\ min(t, x) = min(t, y) + c THEN setFalse(t, r) ELSE t
      w == IF isFixed(u, x) THEN narrow(u, y, Not(min(u, x) - c)) ELSE u
  IN IF isFalse(t, r) THEN t
     ELSE IF ~ u.ok \/ ~ isTrue(u, r) THEN u
     ELSE IF w.ok /\ isFixed(w, y) THEN narrow(w, x, Not(min(w, y) + c)) ELSE w

propagateMinimum(t, p) ==
  LET xs == Props[p].xs
      y == xs[Len(xs)]
      args == Front(xs)
      u == narrow(t, y, AtMost(t.min_max[p]))
      w == narrow(u, y, AtLeast(Min({min(u, x) : x \in Range(args)})))
      raise(k, x) == narrow(k, x, AtLeast(min(w, y)))
      done == IF p \in t.lower_change THEN FoldLeft(raise, w, args) ELSE u
  IN IF done.ok /\ min(done, y) = done.min_max[p] THEN [done EXCEPT !.satisfied = @ \cup {p}]
     ELSE done

(* getVal is the lower bound, of a variable that is taken to be fixed. *)
propagateAllDiff(t, p) ==
  LET others(a) == SelectSeq(Props[p].xs, LAMBDA x : x # a)
      from(u, a) == FoldLeft(LAMBDA w, x : narrow(w, x, Not(min(u, a))), u, others(a))
  IN FoldLeft(from, t, t.new_fixed[p])

propagate(t, p) ==
  CASE Props[p].kind = "GE" -> propagateGE(t, p)
    [] Props[p].kind = "NE" -> propagateNE(t, p)
    [] Props[p].kind = "MIN" -> propagateMinimum(t, p)
    [] Props[p].kind = "ALLDIFF" -> propagateAllDiff(t, p)

(* Propagators' checkSatisfied, at the root. *)
checkSatisfied(t, p) ==
  LET x == Props[p].xs[1]
      y == Props[p].xs[Len(Props[p].xs)]
      c == Props[p].c
  IN \/ p \in t.satisfied \/ isFalse(t, Props[p].r)
     \/ Props[p].kind = "GE" /\ min(t, x) >= max(t, y) + c
     \/ Props[p].kind = "NE" /\ (min(t, x) > max(t, y) + c \/ max(t, x) < min(t, y) + c)
     \/ Props[p].kind = "MIN" /\ min(t, y) = t.min_max[p]
-----------------------------------------------------------------------------
(* Constructors: a propagator attached to a fixed variable is woken at once,  *)
(* and never by it again.  Engine::init queues every variable that wakes some *)
(* propagator; the others are marked as queued, so as never to be.            *)
Created ==
  [dom |-> Domains, trail |-> <<>>, ok |-> TRUE,
   changes |-> [v \in Var |-> {"C", "L", "U"} \cup IF Cardinality(Domains[v]) = 1 THEN {"F"} ELSE {}],
   v_queue |-> <<>>, var_in_queue |-> {}, p_queue |-> [i \in Queues |-> <<>>], in_queue |-> {},
   satisfied |-> {}, min_max |-> [p \in Ids |-> MaxValue + 1],
   lower_change |-> {}, new_fixed |-> [p \in Ids |-> <<>>]]

attach(t, p) ==
  LET one(u, x) == IF isFixed(u, x) THEN wakeup(u, p, x, eflags(p, x)) ELSE u
  IN FoldLeft(one, t, Props[p].xs)

wakesNothing(v) == Cardinality(Domains[v]) = 1 \/ \A p \in Ids : eflags(p, v) = {}

init ==
  LET ready(t, v) == IF wakesNothing(v) THEN [t EXCEPT !.var_in_queue = @ \cup {v}] ELSE pushVar(t, v)
      attached == FoldLeft(attach, Created, [p \in Ids |-> p])
  IN FoldLeft(ready, attached, SetToSeq(Var))

Init ==
  /\ posted \in DOMAIN Problems
  /\ s = init /\ mode = "sat" /\ past = <<>> /\ left = Solutions /\ vsids = FALSE

-----------------------------------------------------------------------------
(* Engine::propagate. *)

falseLit(l) == s.dom[l[1]] \cap l[2] = {}
trueLit(l) == s.dom[l[1]] \subseteq l[2]
isUnit(c) == \E l \in c : ~ falseLit(l) /\ ~ trueLit(l) /\ \A k \in c \ {l} : falseLit(k)
isConflict(c) == \A l \in c : falseLit(l)

(* SAT::propagate, in any order of the watches: a clause that has become unit, *)
unitClause(c) ==
  /\ mode = "sat" /\ isUnit(c)
  /\ \E l \in c : ~ falseLit(l) /\ s' = narrow(s, l[1], l[2])
  /\ UNCHANGED <<mode, past, left, vsids>>

(* one that has become false, *)
conflictClause(c) ==
  /\ mode = "sat" /\ isConflict(c)
  /\ s' = [s EXCEPT !.ok = FALSE] /\ mode' = "conflict"
  /\ UNCHANGED <<past, left, vsids>>

(* and a literal whose watches hold the propagators that it reifies. *)
wakeReified ==
  LET r == Head(s.trail)
      woken == SelectSeq([p \in Ids |-> p], LAMBDA p : Props[p].r = r /\ isTrue(s, r))
      wake(t, p) == wakeup(t, p, r, {})
  IN /\ mode = "sat" /\ s.trail # <<>>
     /\ s' = [FoldLeft(wake, s, woken) EXCEPT !.trail = Tail(@)]
     /\ UNCHANGED <<mode, past, left, vsids>>

wakeUp ==
  /\ mode = "sat" /\ s.trail = <<>> /\ \A c \in Clauses : ~ isUnit(c) /\ ~ isConflict(c)
  /\ s' = [FoldLeft(wakePropagators, s, s.v_queue) EXCEPT !.v_queue = <<>>]
  /\ mode' = "run"
  /\ UNCHANGED <<past, left, vsids>>

run ==
  LET nonempty == {i \in Queues : s.p_queue[i] # <<>>}
      first == Min(nonempty)
      p == Last(s.p_queue[first])
      done == cleared(propagate([s EXCEPT !.p_queue[first] = Front(@)], p), p)
  IN /\ mode = "run" /\ nonempty # {}
     /\ s' = done
     /\ mode' = IF done.ok THEN "sat" ELSE "conflict"
     /\ UNCHANGED <<past, left, vsids>>

fixPoint ==
  /\ mode = "run" /\ \A i \in Queues : s.p_queue[i] = <<>>
  /\ mode' = "search"
  /\ UNCHANGED <<s, past, left, vsids>>

-----------------------------------------------------------------------------
(* The search. *)

Literals == {AtLeast(k) : k \in 0 .. MaxValue} \cup {AtMost(k) : k \in 0 .. MaxValue}
            \cup {{k} : k \in 0 .. MaxValue} \cup {Not(k) : k \in 0 .. MaxValue}
open(t, v) == {keep \in Literals : t.dom[v] \cap keep \notin {{}, t.dom[v]}}
with(sols, v, keep) == {a \in sols : a[v] \in keep}

(* Mutant: the least upper bound is an ordinary int. *)
restoredButMinMax(t, then) ==
  [t EXCEPT !.dom = then.dom, !.satisfied = then.satisfied, !.trail = <<>>, !.ok = TRUE]

(* SAT::btToLevel: what is trailed comes back, the queues stay as they are. *)
restored(t, then) ==
  [t EXCEPT !.dom = then.dom, !.satisfied = then.satisfied, !.min_max = then.min_max,
            !.trail = <<>>, !.ok = TRUE]

decide(v, keep) ==
  /\ mode = "search" /\ Len(past) < MaxLevel /\ keep \in open(s, v)
  /\ past' = Append(past, [dom |-> s.dom, satisfied |-> s.satisfied, min_max |-> s.min_max, left |-> left])
  /\ s' = narrow(s, v, keep) /\ left' = with(left, v, keep)
  /\ mode' = "sat"
  /\ UNCHANGED vsids

(* A conflict at the root ends the search. *)
rootFailure ==
  /\ mode = "conflict" /\ past = <<>>
  /\ s' = clearPropState(s) /\ mode' = "unsat"
  /\ UNCHANGED <<past, left, vsids>>

(* SAT::analyze goes back and asserts a literal; with --switch-to-vsids-after *)
(* the search may then restart.                                               *)
analyze(l, v, keep) ==
  LET then == past[l + 1]
      back == restored(clearPropState(s), then)
  IN /\ mode = "conflict" /\ l < Len(past) /\ keep \in open(back, v)
     /\ \/ /\ s' = narrow(back, v, keep)
           /\ past' = SubSeq(past, 1, l) /\ left' = with(then.left, v, keep)
           /\ UNCHANGED vsids
        \/ /\ Problems[posted].MaySwitch /\ ~ vsids /\ l > 0
           /\ s' = restored(narrow(back, v, keep), past[1])
           /\ past' = <<>> /\ left' = past[1].left /\ vsids' = TRUE
     /\ mode' = "sat"

(* After enough conflicts, from a fixpoint. *)
restart ==
  /\ mode = "search" /\ past # <<>>
  /\ s' = restored(s, past[1]) /\ past' = <<>> /\ left' = past[1].left
  /\ mode' = "sat"
  /\ UNCHANGED vsids

(* Engine::simplifyDB; that it drops the watches of what is satisfied for     *)
(* good changes nothing, wakePropagators passes over them anyway.             *)
simplifyDB ==
  /\ mode = "search" /\ past = <<>>
  /\ s' = [s EXCEPT !.satisfied = {p \in Ids : checkSatisfied(s, p)}]
  /\ UNCHANGED <<mode, past, left, vsids>>

allFixed == \A v \in AllVars : isFixed(s, v)
found == [v \in AllVars |-> min(s, v)]

blockCurrentSol ==
  /\ mode = "search" /\ allFixed
  /\ s' = [s EXCEPT !.ok = FALSE] /\ left' = left \ {found}
  /\ mode' = "conflict"
  /\ UNCHANGED <<past, vsids>>

unsatisfiable == mode = "unsat" /\ UNCHANGED vars

Propagate ==
  \/ \E c \in Clauses : unitClause(c) \/ conflictClause(c)
  \/ wakeReified \/ wakeUp \/ run \/ fixPoint

Search ==
  \/ \E v \in AllVars, keep \in Literals : decide(v, keep)
  \/ rootFailure
  \/ \E l \in 0 .. Len(past) - 1, v \in AllVars, keep \in Literals : analyze(l, v, keep)
  \/ restart \/ simplifyDB \/ blockCurrentSol \/ unsatisfiable

Next == (Propagate \/ Search) /\ UNCHANGED posted

Spec == Init /\ [][Next]_vars

(* The one thread does not stop inside Engine::propagate: WF_vars(Propagate), *)
(* with the two modes it is enabled in for ENABLED, which TLC is slow at.     *)
propagating == mode \in {"sat", "run"}
FairSpec == Spec /\ ([]<> ~ propagating \/ []<><<propagating>>_vars)

-----------------------------------------------------------------------------
TypeOK ==
  /\ posted \in DOMAIN Problems
  /\ \A v \in AllVars : s.dom[v] # {} /\ s.dom[v] \subseteq Domains[v]
  /\ s.in_queue \subseteq Ids /\ s.satisfied \subseteq Ids /\ s.lower_change \subseteq Ids
  /\ s.var_in_queue \subseteq Var /\ Range(s.trail) \subseteq Bool
  /\ mode \in {"sat", "run", "search", "conflict", "unsat"}
  /\ s.ok = (mode \notin {"conflict"}) \/ mode = "unsat"
  /\ Len(past) <= MaxLevel /\ left \subseteq Solutions

(* Flags and queues tell the same: in_queue means queued, once, and changes   *)
(* that nobody was told of yet are those of queued variables.                 *)
FlagsMatchQueues ==
  /\ TypeOK
  /\ \A p \in Ids : /\ p \in s.in_queue <=> \E i \in Queues : p \in Range(s.p_queue[i])
                    /\ \A i \in Queues : Cardinality({j \in DOMAIN s.p_queue[i] : s.p_queue[i][j] = p}) <= 1
  /\ \A v \in Var : ~ wakesNothing(v) =>
       /\ v \in s.var_in_queue <=> v \in Range(s.v_queue)
       /\ Cardinality({j \in DOMAIN s.v_queue : s.v_queue[j] = v}) <= 1
       /\ s.changes[v] # {} => v \in s.var_in_queue
  /\ \A p \in Ids : (p \in s.lower_change \/ s.new_fixed[p] # <<>>) => p \in s.in_queue

(* p has nothing left to say. *)
atFixPoint(p) ==
  LET xs == Props[p].xs
      y == xs[Len(xs)]
      c == Props[p].c
      r == Props[p].r
  IN \/ isFalse(s, r)
     \/ /\ Props[p].kind = "GE" /\ max(s, xs[1]) >= min(s, y) + c
        /\ isTrue(s, r) => (min(s, xs[1]) >= min(s, y) + c /\ max(s, xs[1]) >= max(s, y) + c)
     \/ /\ Props[p].kind = "NE"
        /\ isTrue(s, r) => /\ (isFixed(s, xs[1]) => min(s, xs[1]) - c \notin s.dom[y])
                            /\ (isFixed(s, y) => min(s, y) + c \notin s.dom[xs[1]])
        /\ ~ (isFixed(s, xs[1]) /\ isFixed(s, y) /\ min(s, xs[1]) = min(s, y) + c)
     \/ /\ Props[p].kind = "MIN"
        /\ max(s, y) <= Min({max(s, x) : x \in Range(Front(xs))})
        /\ min(s, y) >= Min({min(s, x) : x \in Range(Front(xs))})
        /\ \A x \in Range(Front(xs)) : min(s, x) >= min(s, y)
     \/ /\ Props[p].kind = "ALLDIFF"
        /\ \A x, z \in Range(xs) : (x # z /\ isFixed(s, x)) => min(s, x) \notin s.dom[z]

(* When propagate returns true, every propagator and clause is at its         *)
(* fixpoint, whatever was woken, satisfied, undone, or lost in a conflict on  *)
(* the way; so that what is printed is a solution (core/propagator.h:5, "must *)
(* return false if all vars are fixed and constraint is unsatisfied").        *)
FixPointReached ==
  mode = "search" => /\ \A p \in Ids : atFixPoint(p)
                     /\ \A c \in Clauses : ~ isUnit(c) /\ ~ isConflict(c)
                     /\ allFixed => found \in Solutions

(* Nothing is pruned but what the constraints and the search exclude, and a   *)
(* failure means that nothing is left.                                        *)
SolutionsKept ==
  /\ \A a \in left, v \in AllVars : a[v] \in s.dom[v]
  /\ mode \in {"conflict", "unsat"} => left = {}

(* The checklist of core/propagator.h:6, "only go redundant if known bounds on vars prove        *)
(* constraint is satisfied".                                                  *)
SatisfiedIsEntailed ==
  \A p \in s.satisfied :
    \A a \in Assignments :
      ((\A v \in Var : a[v] \in min(s, v) .. max(s, v)) /\ \A b \in Bool : a[b] \in s.dom[b])
      => Holds(a, Props[p])

(* Minimum's trailed least upper bound is that of the variables, but for      *)
(* changes it has not been told of yet.                                       *)
MinMaxIsKept ==
  \A p \in Ids : LET args == Range(Front(Props[p].xs)) IN
    Props[p].kind = "MIN" /\ p \notin s.satisfied =>
    /\ \A x \in args : s.min_max[p] <= max(s, x) \/ x \in Range(s.v_queue)
    /\ mode # "sat" => s.min_max[p] >= Min({max(s, x) : x \in args})

(* What propagators keep between their runs, and over backtracking, is true. *)
KeptStateTrue == SatisfiedIsEntailed /\ MinMaxIsKept

(* The assertion of AllDiffValue::wakeup, "assert(x[i].isFixed())"            *)
(* (globals/alldiff.cpp:57), of the variables that it has been woken for.     *)
(* Violated when the restart that switches to VSIDS takes back what analyze   *)
(* has just enqueued: see the run of Switching.                               *)
WokenFixed ==
  mode = "run" => \A p \in Ids : \A x \in Range(s.new_fixed[p]) : isFixed(s, x)

(* Propagation ends: with a fixpoint or a conflict. *)
PropagationEnds == propagating ~> mode \in {"search", "conflict"}
=============================================================================
