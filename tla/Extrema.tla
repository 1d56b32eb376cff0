------------------------------ MODULE Extrema ------------------------------
(***************************************************************************)
(* The least of an array of integers, the greatest being the same with the *)
(* signs changed, and the place of the first true Boolean.                 *)
(***************************************************************************)
EXTENDS Element

(***************************************************************************)
(* y = min(x).  The least maximum so far and its place are trailed, that a *)
(* minimum has changed is not.                                             *)
(***************************************************************************)
wakeupMinimum(s, p, i, events) ==
  LET k == s.kept[p.id]
      better == i <= Len(p.x) /\ getMax(s, p.x[i]) < k.min_max
      k1 == IF better THEN [k EXCEPT !.min_max_var = i, !.min_max = getMax(s, p.x[i])] ELSE k
      lower == "L" \in events
      s1 == [s EXCEPT !.kept[p.id] = [k1 EXCEPT !.lower_change = @ \/ lower]]
  IN  IF better \/ lower THEN pushInQueue(s1, p.id) ELSE s1

propagateMinimum(s, p) ==
  LET k == s.kept[p.id]
      above == IF k.min_max < Beyond
               THEN setMax(s, p.y, k.min_max, {getMaxLit(s, p.x[k.min_max_var])}) ELSE s
      below(t, m) == setMin(t, p.y, m, {getFMinLit(t, u, m) : u \in Range(p.x)})
      raised(t, why) == FoldLeft(LAMBDA u, x : setMin(u, x, getMin(t, p.y), why), t, p.x)
      onX(t) == raised(t, {getMinLit(t, p.y)})
      then(t) == IF t.failed \/ ~ k.lower_change
                 THEN t
                 ELSE onX(below(t, Min({getMin(t, u) : u \in Range(p.x)})))
      done(t) == IF ~ t.failed /\ getMin(t, p.y) = k.min_max
                 THEN [t EXCEPT !.satisfied = @ \cup {p.id}]
                 ELSE t
  IN  done(then(above))

clearMinimum(k) == [k EXCEPT !.lower_change = FALSE]

\* checkSatisfied, at the root
knownMinimum(s, p) == getMin(s, p.y) = s.kept[p.id].min_max

postMinimum(s, x, y) ==
  post(s, [kind |-> "Minimum", x |-> x, y |-> y,
           on |-> [i \in DOMAIN x |-> On(x[i], LU)] \o <<On(y, {"L"})>>],
       [min_max_var |-> -1, min_max |-> Beyond, lower_change |-> FALSE])

minimum(s, x, y) == postMinimum(s, x, y)
maximum(s, x, y) == postMinimum(s, [i \in DOMAIN x |-> minus(x[i])], minus(y))

(***************************************************************************)
(* y - offset is the place of the first true literal of x.                 *)
(***************************************************************************)
fixPlace(s, p) == IF isFixed(s, p.y) THEN setLit(s, at(p.x, getVal(s, p.y)), {getValLit(s, p.y)}) ELSE s

noneBelow(s, p, from, to) ==
  FoldLeft(LAMBDA t, i : setLit(t, Not(at(p.x, i)), {getFMinLit(t, p.y, to)}), s,
           [n \in 1 .. to - from |-> from + n - 1])

propagateBoolArgMax(s, p) ==
  LET ol == getMin(s, p.y)
      drop(t, i) == remVal(t, p.y, i, {Not(at(p.x, i))})
      raised(t, l) == setMin(t, p.y, l, {Not(at(p.x, i)) : i \in 0 .. l - 1})
      lowered(t, u) == setMax(t, p.y, u, {at(p.x, u)})
      last(t) == noneBelow(t, p, ol, getMin(t, p.y))
      narrowed(t, l, u) == IF t.failed THEN t ELSE last(fixPlace(lowered(raised(t, l), u), p))
      first(t, no, u) == \* no: the places of y that are false
        narrowed(FoldLeft(drop, t, SelectSeq([i \in DOMAIN p.x |-> i - 1], LAMBDA i : i \in no /\ i <= u)),
                 Min({Len(p.x)} \cup {i \in values(t, p.y) \ no : i <= u}), u)
      ends(t, no, yes) == first(t, no, IF yes = {} THEN Max(values(t, p.y)) ELSE Min(yes))
      then(t) == ends(t, {i \in values(t, p.y) : isFalse(t, at(p.x, i))},
                         {i \in values(t, p.y) : isTrue(t, at(p.x, i))})
      from(t) == IF t.failed THEN t ELSE then(t)
  IN  from(fixPlace(noneBelow(s, p, 0, ol), p))

bool_arg_max(s, x, offset, y) ==
  post(s, [kind |-> "BoolArgMax", x |-> x, y |-> shifted(y, offset),
           on |-> [i \in DOMAIN x |-> On(x[i], LU)] \o <<On(y, {"C"})>>], <<>>)

=============================================================================
