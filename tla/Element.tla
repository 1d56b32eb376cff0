------------------------------ MODULE Element ------------------------------
(***************************************************************************)
(* y = a[x - offset]: by clauses where a is constant or Boolean, and by    *)
(* propagators for bounds, for bounds behind a Boolean, and for domains.   *)
(* An array is a sequence, its place i of the code is at i + 1.            *)
(***************************************************************************)
EXTENDS Views

places(a) == 0 .. Len(a) - 1
at(a, i) == a[i + 1]
shifted(x, offset) == plus(x, -offset)

(***************************************************************************)
(* Arrays of constants and of Booleans                                     *)
(***************************************************************************)
array_bool_element(s, x0, a, y, offset) ==
  LET x == shifted(x0, offset)
      sign(b) == IF b = 1 THEN y ELSE Not(y)
      atPlace(i) == {sign(at(a, i)), NE(s, x, i)}
      some(b) == {sign(1 - b)} \cup {EQ(s, x, i) : i \in {j \in places(a) : at(a, j) = b}}
  IN  [s EXCEPT !.clauses = @ \cup {atPlace(i) : i \in places(a)} \cup {some(0), some(1)}]

array_int_element(s, x0, a, y, offset) ==
  LET s1 == setAtRoot(setAtRoot(s, GE(s, x0, offset)), LE(s, x0, Len(a) - 1 + offset))
      x == shifted(x0, offset)
      reached == {at(a, i) : i \in {j \in places(a) : indomain(s1, x, j)}}
      s2 == setAtRoot(s1, Where(s1, y, LAMBDA w : w \in reached))
      atPlace(i) == {EQ(s, y, at(a, i)), NE(s, x, i)}
      support(w) == {NE(s, y, w)} \cup {EQ(s, x, i) : i \in {j \in places(a) : at(a, j) = w /\ indomain(s2, x, j)}}
  IN  [s2 EXCEPT !.clauses = @ \cup {atPlace(i) : i \in places(a)}
                               \cup {support(w) : w \in {u \in Range(a) : indomain(s2, y, u)}}]

\* cs and ds are the new Booleans [x = i and a[i]] and [x = i and not a[i]]
array_var_bool_element(s, x0, a, y, offset, cs, ds) ==
  LET x == shifted(x0, offset)
      ofPlace(i) == {{Not(at(cs, i)), EQ(s, x, i)}, {Not(at(cs, i)), at(a, i)},
                     {Not(at(ds, i)), EQ(s, x, i)}, {Not(at(ds, i)), Not(at(a, i))},
                     {y, Not(at(a, i)), NE(s, x, i)}, {Not(y), at(a, i), NE(s, x, i)}}
  IN  [s EXCEPT !.clauses = @ \cup UNION {ofPlace(i) : i \in places(a)}
                              \cup {{Not(y)} \cup Range(cs), {y} \cup Range(ds)}]

(***************************************************************************)
(* Bounds.  Each bound of y is supported by a place of a, which is         *)
(* trailed; a flag that is not trailed says that the support was lost.     *)
(* With R the constraint holds if b, else b is bv_true.                    *)
(***************************************************************************)
posY(p) == Len(p.a) + 1
posX(p) == Len(p.a) + 2

\* What is left to do when x or an element changed and x is not fixed
lost(s, p, i) ==
  LET k == s.kept[p.id]
      moved(sup, worse) == i - 1 = sup /\ worse
  IN  IF i <= Len(p.a)
      THEN [k EXCEPT !.no_min = @ \/ moved(k.min_support, getMin(s, p.a[i]) > getMin(s, p.y)),
                     !.no_max = @ \/ moved(k.max_support, getMax(s, p.a[i]) < getMax(s, p.y))]
      ELSE IF i = posX(p)
           THEN [k EXCEPT !.no_min = @ \/ ~ indomain(s, p.x, k.min_support),
                          !.no_max = @ \/ ~ indomain(s, p.x, k.max_support)]
           ELSE k

wakeupIntElem(s, p, i, events) ==
  LET k == s.kept[p.id]
      fixes == i = posX(p) /\ "F" \in events
      k1 == IF fixes
            THEN [k EXCEPT !.is_fixed = TRUE, !.fixed_index = getVal(s, p.x),
                           !.no_min = FALSE, !.no_max = FALSE]
            ELSE IF k.is_fixed THEN k ELSE lost(s, p, i)
      push == \/ fixes
              \/ k.is_fixed /\ (i = posY(p) \/ i - 1 = k.fixed_index)
              \/ ~ k.is_fixed /\ i # posX(p)
              \/ ~ k.is_fixed /\ (~ indomain(s, p.x, k.min_support) \/ ~ indomain(s, p.x, k.max_support))
      s1 == [s EXCEPT !.kept[p.id] = k1]
  IN  IF push THEN pushInQueue(s1, p.id) ELSE s1

behindB(s, p) == IF p.R THEN {valLit(s, p.b)} ELSE {}

\* x is fixed: y and the element have the same bounds
equalBounds(s, p, f) ==
  LET raise(t, u, w) == setMin(t, u, getMin(t, w), behindB(t, p) \cup {getMinLit(t, w), getValLit(t, p.x)})
      lower(t, u, w) == setMax(t, u, getMax(t, w), behindB(t, p) \cup {getMaxLit(t, w), getValLit(t, p.x)})
      done(t) == IF ~ t.failed /\ isFixed(t, p.y) /\ isFixed(t, f)
                 THEN [t EXCEPT !.satisfied = @ \cup {p.id}]
                 ELSE t
  IN  done(lower(lower(raise(raise(s, p.y, f), f, p.y), p.y, f), f, p.y))

\* The places whose element cannot be y are taken from x
removePlaces(s, p) ==
  LET remove(t, i) ==
        LET e == at(p.a, i)
            above == IF getMax(t, p.y) < getMin(t, e)
                     THEN remVal(t, p.x, i, behindB(t, p) \cup {getMinLit(t, e), getMaxLit(t, p.y)})
                     ELSE t
            below(u) == IF ~ u.failed /\ getMin(u, p.y) > getMax(u, e)
                        THEN remVal(u, p.x, i, behindB(u, p) \cup {getMaxLit(u, e), getMinLit(u, p.y)})
                        ELSE u
        IN  below(above)
  IN  FoldLeft(LAMBDA t, j : IF ~ t.failed /\ indomain(t, p.x, j - 1) THEN remove(t, j - 1) ELSE t,
               s, [j \in 1 .. Len(p.a) |-> j])

\* The first place in the domain of x with the best bound, and that bound:
\* the search ends at one as good as the bound that y has, and starts from
\* what no element reaches.
Beyond == 1000 \* INT64_MAX

bestPlace(s, p, worst, better(_, _), bound(_), enough(_)) ==
  LET next(acc, i) ==
        IF acc.stop \/ ~ indomain(s, p.x, i) \/ ~ better(bound(i), acc.m)
        THEN acc
        ELSE [best |-> i, m |-> bound(i), stop |-> enough(bound(i))]
  IN  FoldLeft(next, [best |-> -1, m |-> worst, stop |-> FALSE], [i \in 1 .. Len(p.a) |-> i - 1])

\* Why no place has an element on the other side of the bound
noPlace(s, p, onSide(_)) ==
  {IF indomain(s, p.x, i) THEN onSide(at(p.a, i)) ELSE NE(s, p.x, i) : i \in places(p.a)}

\* A new bound of y: set if b is true, against b if y cannot have it
newMin(s, p) ==
  LET old == getMin(s, p.y)
      b == bestPlace(s, p, Beyond, LAMBDA m, n : m < n, LAMBDA i : getMin(s, at(p.a, i)),
                     LAMBDA m : m <= old)
      why == noPlace(s, p, LAMBDA e : getFMinLit(s, e, b.m))
      s1 == [s EXCEPT !.kept[p.id].min_support = b.best]
  IN  IF b.m <= old
      THEN s1
      ELSE IF ~ p.R \/ isSet(s, p.b)
           THEN setMin(s1, p.y, b.m, why \cup behindB(s, p))
           ELSE IF getMax(s, p.y) < b.m THEN setLit(s1, Not(p.b), why \cup {getMaxLit(s, p.y)}) ELSE s1

newMax(s, p) ==
  LET old == getMax(s, p.y)
      b == bestPlace(s, p, -Beyond, LAMBDA m, n : m > n, LAMBDA i : getMax(s, at(p.a, i)),
                     LAMBDA m : m >= old)
      why == noPlace(s, p, LAMBDA e : getFMaxLit(s, e, b.m))
      s1 == [s EXCEPT !.kept[p.id].max_support = b.best]
  IN  IF b.m >= old
      THEN s1
      ELSE IF ~ p.R \/ isSet(s, p.b)
           THEN setMax(s1, p.y, b.m, why \cup behindB(s, p))
           ELSE IF getMin(s, p.y) > b.m THEN setLit(s1, Not(p.b), why \cup {getMinLit(s, p.y)}) ELSE s1

moveSupports(s, p) ==
  LET returned(t) == t.failed \/ (p.R /\ isSet(t, p.b) # isSet(s, p.b))
      then(t) == IF ~ returned(t) /\ s.kept[p.id].no_max THEN newMax(t, p) ELSE t
  IN  then(IF s.kept[p.id].no_min THEN newMin(s, p) ELSE s)

propagateIntElemBounds(s, p) ==
  LET k == s.kept[p.id]
      then(t) == IF t.failed THEN t ELSE moveSupports(t, p)
  IN  IF k.is_fixed THEN equalBounds(s, p, at(p.a, k.fixed_index)) ELSE then(removePlaces(s, p))

\* b is open: it is false if no place up to the last of x fits.  The search
\* goes one place too far, which x must not have.
firstFitting(s, p) ==
  LET fits(i) == /\ indomain(s, p.x, i)
                 /\ getMax(s, p.y) >= getMin(s, at(p.a, i))
                 /\ getMin(s, p.y) <= getMax(s, at(p.a, i))
  IN  Min({Len(p.a) + 1} \cup {i \in places(p.a) : fits(i)})

misfits(s, p, n) ==
  LET why(i) == IF i = Len(p.a) \/ ~ indomain(s, p.x, i)
                THEN {NE(s, p.x, i)}
                ELSE IF getMax(s, p.y) < getMin(s, at(p.a, i))
                     THEN {getMaxLit(s, p.y), getMinLit(s, at(p.a, i))}
                     ELSE {getMinLit(s, p.y), getMaxLit(s, at(p.a, i))}
  IN  UNION {why(i) : i \in 0 .. n - 1}

apart(s, u, w) == getMin(s, u) > getMax(s, w)

propagateIntElemBoundsImp(s, p) ==
  LET k == s.kept[p.id]
      f == at(p.a, k.fixed_index)
      refuted(n) == IF n > getMax(s, p.x) THEN setLit(s, Not(p.b), misfits(s, p, n)) ELSE s
      then(t) == IF t.failed \/ isSet(t, p.b) # isSet(s, p.b) THEN t ELSE moveSupports(t, p)
      off(why) == setLit(s, Not(p.b), {getValLit(s, p.x)} \cup why)
  IN  IF isFalse(s, p.b)
      THEN [s EXCEPT !.satisfied = @ \cup {p.id}]
      ELSE IF k.is_fixed
           THEN IF k.fixed_index \notin places(p.a)
                THEN off({})
                ELSE IF isTrue(s, p.b)
                     THEN equalBounds(s, p, f)
                     ELSE IF apart(s, f, p.y)
                          THEN off({getMinLit(s, f), getMaxLit(s, p.y)})
                          ELSE IF apart(s, p.y, f)
                               THEN off({getMaxLit(s, f), getMinLit(s, p.y)})
                               ELSE s
           ELSE then(IF isSet(s, p.b) THEN removePlaces(s, p) ELSE refuted(firstFitting(s, p)))

\* Done after each run and when a conflict empties the queues
clearIntElem(k) == [k EXCEPT !.no_min = FALSE, !.no_max = FALSE]

\* checkSatisfied, at the root
knownElem(s, p) ==
  \/ p.R /\ isFalse(s, p.b)
  \/ /\ ~ p.R \/ isTrue(s, p.b)
     /\ \A u \in {p.x, p.y} : isFixed(s, u)
     /\ isFixed(s, at(p.a, getVal(s, p.x)))

postIntElem(s, kind, b, x, a, y) ==
  LET R == kind = "IntElemBoundsImp"
  IN  post(s, [kind |-> kind, b |-> b, R |-> R, x |-> x, a |-> a, y |-> y,
               on |-> [i \in 1 .. Len(a) |-> On(a[i], LU)] \o <<On(y, LU), On(x, {"C"})>>
                        \o IF R THEN <<On(b, {"F"})>> ELSE <<>>],
           [min_support |-> -1, max_support |-> -1, is_fixed |-> FALSE, fixed_index |-> -1,
            no_min |-> FALSE, no_max |-> FALSE])

array_var_int_element_bound(s, x, a, y, offset) ==
  postIntElem(s, "IntElemBounds", bv_true, shifted(x, offset), a, y)

array_var_int_element_bound_imp(s, b, x, a, y, offset) ==
  postIntElem(s, "IntElemBoundsImp", b, shifted(x, offset), a, y)

(***************************************************************************)
(* Domains.  For each value of y the places that may hold it; those found  *)
(* to have lost it go behind the first num_support, which is trailed, the  *)
(* order is not.                                                           *)
(***************************************************************************)
hasSupport(s, p, w, i) == indomain(s, p.x, i) /\ indomain(s, at(p.a, i), w)

noSupport(s, p, w) ==
  bounds(s, p.x) \cup {IF indomain(s, p.x, i) THEN NE(s, at(p.a, i), w) ELSE NE(s, p.x, i)
                         : i \in getMin(s, p.x) .. getMax(s, p.x)}

checkValue(s, p, w) ==
  LET k == s.kept[p.id]
      n == k.num_support[w]
      order == k.support[w]
      f == Min({n} \cup {j \in 0 .. n - 1 : hasSupport(s, p, w, order[j + 1])})
      rotated == SubSeq(order, f + 1, n) \o SubSeq(order, 1, f) \o SubSeq(order, n + 1, Len(order))
  IN  IF s.failed \/ ~ indomain(s, p.y, w) \/ (n > 0 /\ f = 0)
      THEN s
      ELSE IF f = n
           THEN remVal(s, p.y, w, noSupport(s, p, w))
           ELSE [s EXCEPT !.kept[p.id].num_support[w] = n - f,
                          !.kept[p.id].support[w] = rotated]

propagateIntElemDomain(s, p) ==
  LET upTo(m, n) == [j \in 1 .. n - m + 1 |-> m + j - 1]
      ys == upTo(getMin(s, p.y), getMax(s, p.y))
      drop(t, f, w) == IF ~ t.failed /\ indomain(t, f, w) /\ ~ indomain(t, p.y, w)
                       THEN remVal(t, f, w, {NE(t, p.y, w), EQ(t, p.x, getVal(t, p.x))})
                       ELSE t
      equal(t, f) == [FoldLeft(LAMBDA u, w : drop(u, f, w), t, upTo(getMin(t, f), getMax(t, f)))
                        EXCEPT !.satisfied = s.satisfied]
      then(t, f) == equal(equalBounds(t, p, f), f)
      from(t) == IF t.failed \/ ~ isFixed(t, p.x) THEN t ELSE then(t, at(p.a, getVal(t, p.x)))
  IN  from(FoldLeft(LAMBDA t, w : checkValue(t, p, w), s, ys))

array_var_int_element_dom(s, x0, a, y, offset) ==
  LET x == shifted(x0, offset)
      range == getMin(s, y) .. getMax(s, y)
      places0(w) == {i \in values(s, x) : indomain(s, y, w) /\ indomain(s, at(a, i), w)}
  IN  post(s, [kind |-> "IntElemDomain", x |-> x, a |-> a, y |-> y, R |-> FALSE,
               on |-> [i \in 1 .. Len(a) |-> On(a[i], {"C"})] \o <<On(y, {"C"}), On(x, {"C"})>>],
           [num_support |-> [w \in range |-> Cardinality(places0(w))],
            support |-> [w \in range |-> SetToSortSeq(places0(w), <)]])

=============================================================================
