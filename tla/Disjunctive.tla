---------------------------- MODULE Disjunctive ----------------------------
(***************************************************************************)
(* Tasks that start at the views p.x and last p.dur do not overlap.  The   *)
(* Boolean p.pred[i][j] says that task i ends before task j starts.  Each  *)
(* run builds a pre-emptive schedule that favours early deadlines, derives *)
(* precedences from it, and bounds from precedences.  Of tasks with equal  *)
(* keys the first in the array is the first sorted.                        *)
(***************************************************************************)
EXTENDS Linear, AllDiff

est(s, p, i) == getMin(s, p.x[i])
\* Mutant: the last moment of a task is taken for its end.
lastMoment(s, p, i) == getMax(s, p.x[i]) + p.dur[i] - 1
let(s, p, i) == getMax(s, p.x[i]) + p.dur[i]

\* Mutant: only the earliest starts are named.
windowFrom(s, p, in) == {getMinLit(s, p.x[i]) : i \in in}
window(s, p, in) == UNION {bounds(s, p.x[i]) : i \in in}

(***************************************************************************)
(* A schedule is a sequence of steps, each of what was done, a task or 0,  *)
(* from which time.  The tasks in, and those that kept them waiting: going *)
(* back from time now while that is after the earliest start.              *)
(***************************************************************************)
waitedFor(s, p, schedule, now, in) ==
  LET back(a, step) ==
        IF a.until > a.from
        THEN [in |-> a.in \cup {step.task}, until |-> step.at,
              from |-> Min({a.from, est(s, p, step.task)})]
        ELSE a
      from == Min({now} \cup {est(s, p, i) : i \in in})
  IN  FoldRight(LAMBDA step, a : back(a, step), schedule, [in |-> in, until |-> now, from |-> from]).in

\* All tasks due by a time, and those they wait for, keep task i from coming first
explain(a, p, by, i) ==
  LET due == {j \in DOMAIN p.x : let(a.s, p, j) <= by /\ a.left[j] > 0}
  IN  {getMinLit(a.s, p.x[i])} \cup window(a.s, p, waitedFor(a.s, p, a.schedule, a.time, due))

\* Task i cannot be done in the time that is left to it
explainFailure(a, p, i) == window(a.s, p, waitedFor(a.s, p, a.schedule, a.time, {i}))

\* Tasks with a deadline before the one of task i, which becomes available, that
\* cannot be done in time if i is done first, come before i.
inferPrecedences(a, p, lets, i) ==
  LET s == a.s
      before == {k \in 1 .. a.comp : let(s, p, lets[k]) < let(s, p, i)}
      load(k) == MapThenSumSet(LAMBDA m : a.left[lets[m]], k .. a.comp)
      late == {k \in before : a.time + p.dur[i] + load(k) > let(s, p, lets[k])}
      infer(t, k) ==
        IF a.left[lets[k]] = 0
        THEN t
        ELSE setLit(t, p.pred[lets[k]][i], explain(a, p, let(s, p, lets[Max(late)]), i))
  IN  IF s.failed \/ p.dur[i] = 0 \/ late = {}
      THEN a
      ELSE [a EXCEPT !.s = FoldLeft(infer, s, [n \in 1 .. a.comp + 1 - Max(late) |-> Max(late) + n - 1])]

\* Until the next task becomes available, or it is done, the available task with
\* the earliest deadline is worked on; comp counts the tasks up to the last, by
\* deadline from the latest, that is not done.
work(a, p, lets, ests) ==
  LET s == a.s
      top == CHOOSE i \in a.queue : \A j \in a.queue : let(s, p, i) < let(s, p, j)
                                                    \/ (let(s, p, i) = let(s, p, j) /\ i <= j)
      last == a.next > Len(ests)
      upTo == IF last THEN a.time ELSE est(s, p, ests[a.next])
      step(i) == [a EXCEPT !.schedule = Append(@, [task |-> i, at |-> a.time])]
      unfinished(left) == Max({0} \cup {k \in 1 .. a.comp : left[lets[k]] > 0})
  IN  IF a.queue = {}
      THEN [step(0) EXCEPT !.time = upTo]
      ELSE IF last \/ a.time + a.left[top] <= upTo
           THEN [step(top) EXCEPT !.time = @ + a.left[top], !.left[top] = 0, !.queue = @ \ {top},
                                  !.comp = unfinished([a.left EXCEPT ![top] = 0])]
           ELSE [step(top) EXCEPT !.time = upTo, !.left[top] = @ - (upTo - a.time)]

scheduleStep(a, p, lets, ests) ==
  LET task == lets[a.comp]
      new == SelectSeq(SubSeq(ests, a.next, Len(ests)), LAMBDA i : est(a.s, p, i) <= a.time)
      ready == [a EXCEPT !.queue = @ \cup Range(new), !.next = @ + Len(new)]
      then(b) == IF b.s.failed THEN b ELSE work(b, p, lets, ests)
  IN  IF a.s.failed \/ a.comp = 0
      THEN a
      ELSE IF let(a.s, p, task) <= a.time
           THEN [a EXCEPT !.s = setLit(@, bv_false, explainFailure(a, p, task))]
           ELSE then(FoldLeft(LAMBDA b, i : inferPrecedences(b, p, lets, i), ready, new))

doEdgeFinding(s, p, ests, lets) ==
  LET n == Len(p.x)
      start == [s |-> s, time |-> est(s, p, ests[1]), left |-> p.dur, next |-> 1, queue |-> {},
                comp |-> n, schedule |-> <<>>]
  IN  FoldLeft(LAMBDA a, k : scheduleStep(a, p, lets, ests), start, [k \in 1 .. 4 * n |-> k]).s

(***************************************************************************)
(* The start of task i is after those that are known to precede it, in the *)
(* order of their earliest starts, old: from the last of them that starts  *)
(* a block of work without a gap.                                          *)
(***************************************************************************)
propagateBounds(s, p, ests) ==
  LET old == [j \in DOMAIN p.x |-> est(s, p, j)]
      preceding(t, i) == SelectSeq(ests, LAMBDA j : isTrue(t, p.pred[j][i]))
      pass(b, j) == IF b.from = {} \/ old[j] >= b.end
                    THEN [from |-> {old[j]}, end |-> old[j] + p.dur[j]]
                    ELSE [b EXCEPT !.end = @ + p.dur[j]]
      block(t, i) == FoldLeft(pass, [from |-> {}, end |-> 0], preceding(t, i))
      why(t, i, b) == UNION {{p.pred[j][i], getMinLit(t, p.x[j])}
                             : j \in {k \in Range(preceding(t, i)) : old[k] >= Min(b.from)}}
      after(t, i, b) == IF b.from = {} THEN t ELSE setMin(t, p.x[i], b.end, why(t, i, b))
  IN  FoldLeft(LAMBDA t, i : after(t, i, block(t, i)), s, [i \in DOMAIN p.x |-> i])

propagateDisjunctive(s, p) ==
  LET ests == sortedBy([i \in DOMAIN p.x |-> est(s, p, i)])
      lets == sortedBy([i \in DOMAIN p.x |-> -let(s, p, i)])
      then(t) == IF t.failed THEN t ELSE propagateBounds(t, p, ests)
  IN  then(doEdgeFinding(s, p, ests, lets))

\* rs are the new Booleans, one for each pair of tasks in order
disjunctive(s, x, dur, rs) ==
  LET n == Len(x)
      pairs == SelectSeq([k \in 1 .. n * n |-> <<((k - 1) \div n) + 1, ((k - 1) % n) + 1>>], LAMBDA q : q[1] < q[2])
      place(i, j) == CHOOSE k \in DOMAIN pairs : pairs[k] = <<i, j>>
      pred(i, j) == CASE i < j -> rs[place(i, j)] [] i > j -> Not(rs[place(j, i)]) [] i = j -> bv_false
      ordered(t, q) == int_rel_half_reif(int_rel_half_reif(t, x[q[2]], "GE", x[q[1]], pred(q[1], q[2]), dur[q[1]]),
                                         x[q[1]], "GE", x[q[2]], pred(q[2], q[1]), dur[q[2]])
  IN  post(FoldLeft(ordered, s, pairs),
           [kind |-> "Disjunctive", x |-> x, dur |-> dur, pred |-> [i \in 1 .. n |-> [j \in 1 .. n |-> pred(i, j)]],
            on |-> [i \in 1 .. n |-> On(x[i], LU)]], <<>>)

=============================================================================
