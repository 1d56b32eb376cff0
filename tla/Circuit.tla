------------------------------ MODULE Circuit ------------------------------
(***************************************************************************)
(* Each node i of 1 .. n goes on to the node p.x[i], and all form one      *)
(* circuit.  The propagator looks for small cycles and for paths that must *)
(* not be closed, and explores the graph of the values that are left from  *)
(* a root: its subtrees have to lead back, each to the one before it.      *)
(*                                                                         *)
(* The options of the code are those it always has: all three algorithms,  *)
(* explanations "inside can't reach out" for cycles and by equalities for  *)
(* paths, pruning at the root and within, the first variable that is not   *)
(* fixed as the root.  Of several small cycles the first one is reported.  *)
(***************************************************************************)
EXTENDS Linear, AllDiff

wakeupCircuit(s, p, i, events) ==
  pushInQueue(IF "F" \in events THEN [s EXCEPT !.kept[p.id].new_fixed = Append(@, i)] ELSE s, p.id)

clearCircuit(k) == [k EXCEPT !.new_fixed = <<>>]

nodes(p) == DOMAIN p.x
inOrderOf(S) == SetToSortSeq(S, <)
goesTo(s, p, i, j) == indomain(s, p.x[i], j)

\* No node of A goes to one of B, but for one arc
explainAcantreachB(s, p, A, B, but) == {NE(s, p.x[q[1]], q[2]) : q \in (A \X B) \ but}

\* The same for all arcs from A to B, from which it follows that one must be used
explainArc(s, p, A, B, i, j) == setVal(s, p.x[i], j, explainAcantreachB(s, p, A, B, {<<i, j>>}))

(***************************************************************************)
(* Paths of fixed variables: the nodes from start on that are fixed, and   *)
(* the node that ends the path, start itself if it is a cycle.             *)
(***************************************************************************)
pathFrom(s, p, start) ==
  LET next(a, n) == IF a.end # {} \/ ~ isFixed(s, p.x[a.at])
                    THEN [a EXCEPT !.end = {a.at}]
                    ELSE [path |-> Append(a.path, a.at), at |-> getVal(s, p.x[a.at]),
                          end |-> {start} \cap {getVal(s, p.x[a.at])}]
  IN  FoldLeft(next, [path |-> <<>>, at |-> start, end |-> {}], [n \in 1 .. Len(p.x) + 1 |-> n])

testSmallCycle(s, p) ==
  LET path(i) == pathFrom(s, p, i).path
      small == SelectSeq(s.kept[p.id].new_fixed,
                         LAMBDA i : getVal(s, p.x[Last(path(i))]) = i /\ Len(path(i)) < Len(p.x))
      cycle == Range(path(small[1]))
  IN  IF small = <<>>
      THEN s
      ELSE explainArc(s, p, cycle, nodes(p) \ cycle, small[1], Min(nodes(p) \ cycle))

\* The last node of a path does not go to its first one
cyclePrevent(s, p) ==
  LET unfixed == {i \in nodes(p) : ~ isFixed(s, p.x[i])}
      starts == {j \in nodes(p) \ unfixed : \E i \in unfixed : goesTo(s, p, i, j)}
      path(j) == pathFrom(s, p, j)
      prevent(t, j) == remVal(t, p.x[path(j).at], j, {EQ(t, p.x[i], getVal(s, p.x[i])) : i \in Range(path(j).path)})
  IN  FoldLeft(prevent, s, inOrderOf(starts))

(***************************************************************************)
(* The exploration.  index numbers the nodes as they are met, low is the   *)
(* least index that a node's subtree leads to.  Of the subtrees of the     *)
(* root, numbers start .. end are those of the one explored before the     *)
(* present one, prev its nodes, earlier those of the ones before it, later *)
(* the ones not met when it was done.  back are the arcs from the present  *)
(* subtree to the previous one, todo the changes to be made at the end.    *)
(***************************************************************************)
change(fix, i, j, why) == <<[fix |-> fix, i |-> i, j |-> j, why |-> why]>>
numbered(a, from) == {i \in DOMAIN a.index : a.index[i] >= from}
unseen(a) == {i \in DOMAIN a.index : a.index[i] = -1}
others(a, S) == DOMAIN a.index \ S

enter(a, v) == [a EXCEPT !.index[v] = a.seen, !.low[v] = a.seen, !.seen = @ + 1]

\* The circuit leaves the subtree of the first child through v alone, so that v
\* is entered neither on the way to the child nor from elsewhere.
within(a, p, v, c) ==
  LET inside == numbered(a, a.index[c])
      outside == others(a, inside \cup {v})
      why == explainAcantreachB(a.s, p, inside, outside, {})
      into == SelectSeq(inOrderOf(outside), LAMBDA i : goesTo(a.s, p, i, v))
  IN  change(FALSE, v, c, why) \o FlattenSeq([n \in DOMAIN into |-> change(FALSE, into[n], v, why)])

afterChild(a, p, v, c, first) ==
  IF a.s.failed
  THEN a
  ELSE [a EXCEPT !.low[v] = Min({@, a.low[c]}),
                 !.todo = IF first /\ a.low[c] = a.index[v] THEN @ \o within(a, p, v, c) ELSE @]

\* An arc to a node that was met: back to the previous subtree, or past it
oldChild(a, p, v, c) ==
  LET k == a.index[c]
      why == explainAcantreachB(a.s, p, a.prev, a.later, {})
             \cup explainAcantreachB(a.s, p, a.earlier, a.prev \cup a.later, {})
  IN  [a EXCEPT !.low[v] = Min({@, k}),
                !.back = IF k \in a.start .. a.end THEN Append(@, <<v, c>>) ELSE @,
                !.todo = IF k < a.start THEN @ \o change(FALSE, v, c, why) ELSE @]

\* Nothing leads out of the subtree of v: a conflict
closed(a, p, v) ==
  LET inside == numbered(a, a.index[v])
      outside == others(a, inside)
  IN  IF a.s.failed \/ a.low[v] # a.index[v]
      THEN a
      ELSE [a EXCEPT !.s = explainArc(@, p, inside, outside, Min(inside), Min(outside))]

RECURSIVE exploreSubtree(_, _, _)
exploreSubtree(a, p, v) ==
  LET visit(b, c) ==
        CASE b.a.s.failed -> b
          [] ~ b.a.s.failed /\ b.a.index[c] = -1 ->
               [a |-> afterChild(exploreSubtree(b.a, p, c), p, v, c, b.first), first |-> FALSE]
          [] OTHER -> [b EXCEPT !.a = oldChild(@, p, v, c)]
      all == FoldLeft(visit, [a |-> enter(a, v), first |-> TRUE], inOrderOf(values(a.s, p.x[v])))
  IN  closed(all.a, p, v)

\* Why the subtree just explored, this, must go back to the one before it: nothing
\* else leads from it, or from those before, to where the circuit has yet to go.
\* The root is where it goes back to from the first subtree.
explainBack(a, p, root, this, later, but) ==
  LET reach(A, B, except) == explainAcantreachB(a.s, p, A, B, except)
  IN  IF a.prev = {}
      THEN reach(this, later \cup {root}, but)
      ELSE reach(a.earlier, a.prev \cup later \cup this, {}) \cup reach(a.prev, this \cup later, {})
           \cup reach(this, a.prev \cup later, but)

subtreeDone(a, p, root) ==
  LET this == numbered(a, a.end + 1)
      later == unseen(a)
      goal == IF a.prev # {} THEN Min(a.prev) ELSE IF later # {} THEN Min(later) ELSE root
      arc == IF a.back = <<>> THEN <<Min(this), goal>> ELSE Last(a.back)
      why == explainBack(a, p, root, this, later, {arc})
      done(todo) == [a EXCEPT !.earlier = @ \cup a.prev, !.prev = this, !.later = later, !.todo = todo,
                              !.start = a.end + 1, !.end = a.seen - 1]
  IN  IF a.s.failed
      THEN a
      ELSE IF a.back = <<>>
           THEN [a EXCEPT !.s = setVal(@, p.x[arc[1]], arc[2], why)]
           ELSE done(IF Len(a.back) = 1 THEN a.todo \o change(TRUE, arc[1], arc[2], why) ELSE a.todo)

\* With several subtrees the root leads to the last one
pruneRoot(a, p, root) ==
  LET last == numbered(a, a.start)
      why == explainAcantreachB(a.s, p, numbered(a, 1) \ last, last, {})
      arcs == SelectSeq(inOrderOf(values(a.s, p.x[root])), LAMBDA j : a.index[j] < a.start)
  IN  IF a.start > 1
      THEN a.todo \o FlattenSeq([n \in DOMAIN arcs |-> change(FALSE, root, arcs[n], why)])
      ELSE a.todo

circuitSCC(s, p, root) ==
  LET none == [i \in nodes(p) |-> -1]
      start == [s |-> s, index |-> none, low |-> none, seen |-> 0, start |-> 0, end |-> 0, prev |-> {},
                earlier |-> {}, later |-> {}, back |-> <<>>, todo |-> <<>>]
      child(a, c) == IF a.s.failed \/ a.index[c] # -1
                     THEN a
                     ELSE subtreeDone(exploreSubtree([a EXCEPT !.back = <<>>], p, c), p, root)
      make(t, e) == IF e.fix THEN setVal(t, p.x[e.i], e.j, e.why) ELSE remVal(t, p.x[e.i], e.j, e.why)
      then(a) ==
        CASE a.s.failed -> a.s
          [] ~ a.s.failed /\ unseen(a) # {} ->
               explainArc(a.s, p, numbered(a, 0), unseen(a), Min(numbered(a, 0)), Min(unseen(a)))
          [] OTHER -> FoldLeft(make, a.s, pruneRoot(a, p, root))
  IN  then(FoldLeft(child, enter(start, root), inOrderOf(values(s, p.x[root]))))

propagateCircuit(s, p) ==
  LET unfixed(t) == {i \in nodes(p) : ~ isFixed(t, p.x[i])}
      scc(t) == IF t.failed \/ unfixed(t) = {} THEN t ELSE circuitSCC(t, p, Min(unfixed(t)))
      prevent(t) == IF t.failed THEN t ELSE cyclePrevent(t, p)
  IN  scc(prevent(testSmallCycle(s, p)))

circuit(s, xs, offset) ==
  LET loopless == FoldLeft(LAMBDA t, i : int_rel_const(t, xs[i], "NE", i - 1 + offset),
                        all_different(s, xs, "domain"), [i \in DOMAIN xs |-> i])
  IN  post(loopless, [kind |-> "Circuit", x |-> [i \in DOMAIN xs |-> plus(xs[i], 1 - offset)],
                   on |-> [i \in DOMAIN xs |-> On(plus(xs[i], 1 - offset), {"C"})]],
           [new_fixed |-> <<>>])

=============================================================================
