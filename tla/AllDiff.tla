------------------------------ MODULE AllDiff ------------------------------
(***************************************************************************)
(* All views of an array p.x are different: propagators for values, for    *)
(* bounds, also behind a Boolean p.b, and for domains.  The values that    *)
(* the views show are 0 .. p.range - 1.                                    *)
(***************************************************************************)
EXTENDS Element

(***************************************************************************)
(* Values.  Those fixed since the last run are noted; the value of each is *)
(* taken from all others.                                                  *)
(***************************************************************************)
wakeupAllDiffValue(s, p, i) == pushInQueue([s EXCEPT !.kept[p.id].new_fixed = Append(@, i)], p.id)

propagateAllDiffValue(s, p) ==
  LET others(a) == SelectSeq([j \in DOMAIN p.x |-> j], LAMBDA j : j # a)
      remove(t, a) ==
        LET b == getVal(s, p.x[a])
        IN  FoldLeft(LAMBDA u, j : remVal(u, p.x[j], b, {EQ(s, p.x[a], b)}), t, others(a))
  IN  FoldLeft(remove, s, s.kept[p.id].new_fixed)

clearAllDiffValue(k) == [k EXCEPT !.new_fixed = <<>>]

\* As many variables as values: each value is taken
postAllDiffValue(s, x, range) ==
  LET s1 == post(s, [kind |-> "AllDiffValue", x |-> x, range |-> range,
                     on |-> [i \in DOMAIN x |-> On(x[i], {"F"})]], [new_fixed |-> <<>>])
      taken(i) == {EQ(s, x[j], i) : j \in DOMAIN x}
  IN  IF range < Len(x)
      THEN [s1 EXCEPT !.failed = TRUE]
      ELSE IF range = Len(x)
           THEN [s1 EXCEPT !.clauses = @ \cup {taken(i) : i \in 0 .. range - 1}]
           ELSE s1

(***************************************************************************)
(* Bounds.  The bounds of all intervals [min, max) are numbered 1 .. nb,   *)
(* with one more on either side.  t points to the next critical capacity,  *)
(* d is the capacity left, h points out of Hall intervals, bucket holds    *)
(* the intervals that used a capacity.  Paths are not compressed, and of   *)
(* equals the first in the array is the first sorted.                      *)
(***************************************************************************)
pathmax(t, i) == LET end[j \in DOMAIN t] == IF t[j] > j THEN end[t[j]] ELSE j IN end[i]
pathmin(t, i) == LET end[j \in DOMAIN t] == IF t[j] < j THEN end[t[j]] ELSE j IN end[i]

pathset(t, start, end, to) ==
  LET on[k \in DOMAIN t] == IF k = end THEN {} ELSE {k} \cup on[t[k]]
  IN  [k \in DOMAIN t |-> IF k \in on[start] THEN to ELSE t[k]]

sortedBy(key) == SortSeq([i \in DOMAIN key |-> i], LAMBDA i, j : key[i] < key[j] \/ (key[i] = key[j] /\ i < j))

sortit(s, p) ==
  LET iv == [min |-> [i \in DOMAIN p.x |-> getMin(s, p.x[i])],
             max |-> [i \in DOMAIN p.x |-> getMax(s, p.x[i]) + 1]]
      inner == SetToSortSeq(Range(iv.min) \cup Range(iv.max), <)
      nb == Len(inner)
      rank(k) == CHOOSE n \in DOMAIN inner : inner[n] = k
  IN  [min |-> iv.min, max |-> iv.max, nb |-> nb,
       bounds |-> [n \in 0 .. nb + 1 |-> IF n = 0 THEN inner[1] - 2
                                         ELSE IF n > nb THEN inner[nb] + 2 ELSE inner[n]],
       minrank |-> [i \in DOMAIN p.x |-> rank(iv.min[i])],
       maxrank |-> [i \in DOMAIN p.x |-> rank(iv.max[i])],
       minsorted |-> sortedBy(iv.min), maxsorted |-> sortedBy(iv.max)]

\* Mutant: the end of the Hall interval is taken for its last value.
inHallOrNext(s, p, l, hall_min, hall_max) ==
  {GE(s, p.x[i], hall_min) : i \in l} \cup {LE(s, p.x[i], hall_max) : i \in l}

\* The variables of a set l are all within [hall_min, hall_max)
inHall(s, p, l, hall_min, hall_max) ==
  {GE(s, p.x[i], hall_min) : i \in l} \cup {LE(s, p.x[i], hall_max - 1) : i \in l}

\* The variables of the Hall interval that ends at number w, and its start,
\* which is no later than from.  For its end, reversed.
hallBelow(a, w, from) ==
  LET next(hm, k) == IF a.iv.bounds[k] > hm THEN Min({hm} \cup {a.min[i] : i \in a.bucket[k]}) ELSE hm
      hall_min == FoldLeft(next, from, [n \in 1 .. w |-> w + 1 - n])
  IN  <<hall_min, UNION {a.bucket[k] : k \in {n \in 1 .. w : a.iv.bounds[n] > hall_min}}>>

hallAbove(a, w, from) ==
  LET next(hm, k) == IF a.iv.bounds[k] < hm THEN Max({hm} \cup {a.max[i] : i \in a.bucket[k]}) ELSE hm
      hall_max == FoldLeft(next, from, [n \in 1 .. a.iv.nb + 1 - w |-> w - 1 + n])
  IN  <<hall_max, UNION {a.bucket[k] : k \in {n \in w .. a.iv.nb : a.iv.bounds[n] < hall_max}}>>

open(s, p) == p.R /\ ~ isSet(s, p.b)

\* b is false: v, within the Hall interval too, has no value
refute(s, p, why) == setLit(s, Not(p.b), why)

\* Variable v uses a capacity at z; when none is left there, the next one follows.
useLower(a, v, z) ==
  LET linked(t) == [t EXCEPT ![pathmax(t, z + 1)] = a.t[z]]
  IN  [a EXCEPT !.d[z] = @ - 1, !.bucket[z] = @ \cup {v},
                !.t = IF a.d[z] = 1 THEN linked([@ EXCEPT ![z] = z + 1]) ELSE @]

lowerStep(p, a, v) ==
  LET bs == a.iv.bounds
      minrank == a.iv.minrank[v]
      maxrank == a.iv.maxrank[v]
      moved(b, hall_max, why) ==
        [b EXCEPT !.s = setMin(@, p.x[v], hall_max, why \cup behindB(@, p)), !.min[v] = hall_max]
      stopped(b, hall_max, why) ==
        [b EXCEPT !.s = refute(@, p, why \cup {LE(@, p.x[v], hall_max - 1)}), !.stop = TRUE]
      pruned(b, hall_max, why) ==
        IF ~ open(b.s, p)
        THEN moved(b, hall_max, why)
        ELSE IF getMax(b.s, p.x[v]) < hall_max THEN stopped(b, hall_max, why) ELSE b
      why(b, hall, hall_max) == {GE(b.s, p.x[v], hall[1])} \cup inHall(b.s, p, hall[2], hall[1], hall_max)
      narrowed(b, w) ==
        IF b.h[minrank] <= minrank
        THEN b
        ELSE pruned(b, bs[w], why(b, hallBelow(b, w, bs[minrank]), bs[w]))
      widened(b, z, j) ==
        IF b.d[z] = bs[z] - bs[maxrank]
        THEN [b EXCEPT !.h = [pathset(@, @[maxrank], j - 1, maxrank) EXCEPT ![maxrank] = j - 1]]
        ELSE b
      then(b, z0) == widened(narrowed(b, pathmax(b.h, b.h[minrank])), pathmax(b.t, z0), a.t[z0])
      from(z0) == then(useLower(a, v, z0), z0)
  IN  IF a.s.failed \/ a.stop THEN a ELSE from(pathmax(a.t, minrank + 1))

filterlower(s, p, iv) ==
  LET inner == 1 .. iv.nb + 1
      start == [s |-> s, iv |-> iv, min |-> iv.min, max |-> iv.max, stop |-> FALSE,
                t |-> [i \in inner |-> i - 1] @@ (0 :> 0),
                h |-> [i \in inner |-> i - 1] @@ (0 :> 0),
                d |-> [i \in inner |-> iv.bounds[i] - iv.bounds[i - 1]],
                bucket |-> [i \in inner |-> {}]]
  IN  FoldLeft(LAMBDA a, v : lowerStep(p, a, v), start, iv.maxsorted)

useUpper(a, v, z) ==
  LET linked(t) == [t EXCEPT ![pathmin(t, z - 1)] = a.t[z]]
  IN  [a EXCEPT !.d[z] = @ - 1, !.bucket[z] = @ \cup {v},
                !.t = IF a.d[z] = 1 THEN linked([@ EXCEPT ![z] = z - 1]) ELSE @]

upperStep(p, a, i) ==
  LET v == a.iv.minsorted[i]
      u == a.iv.maxsorted[i] \* not v
      bs == a.iv.bounds
      minrank == a.iv.minrank[v]
      maxrank == a.iv.maxrank[v]
      moved(b, hall_min, why) ==
        [b EXCEPT !.s = setMax(@, p.x[v], hall_min - 1, why \cup behindB(@, p)), !.max[v] = hall_min]
      stopped(b, hall_min, why) ==
        [b EXCEPT !.s = refute(@, p, why \cup {GE(@, p.x[u], hall_min + 2)}), !.stop = TRUE]
      pruned(b, hall_min, why) ==
        IF ~ open(b.s, p)
        THEN moved(b, hall_min, why)
        ELSE IF getMin(b.s, p.x[u]) > hall_min + 1 THEN stopped(b, hall_min, why) ELSE b
      why(b, hall, hall_min) == {LE(b.s, p.x[v], hall[1] - 1)} \cup inHall(b.s, p, hall[2], hall_min, hall[1])
      narrowed(b, w) ==
        IF b.h[maxrank] >= maxrank
        THEN b
        ELSE pruned(b, bs[w], why(b, hallAbove(b, w, bs[maxrank]), bs[w]))
      widened(b, z, j) ==
        IF b.d[z] = bs[minrank] - bs[z]
        THEN [b EXCEPT !.h = [pathset(@, @[minrank], j + 1, minrank) EXCEPT ![minrank] = j + 1]]
        ELSE b
      then(b, z0) == widened(narrowed(b, pathmin(b.h, b.h[maxrank])), pathmin(b.t, z0), a.t[z0])
      from(z0) == then(useUpper(a, v, z0), z0)
  IN  IF a.s.failed \/ a.stop THEN a ELSE from(pathmin(a.t, maxrank - 1))

filterupper(s, p, iv) ==
  LET inner == 0 .. iv.nb
      start == [s |-> s, iv |-> iv, min |-> iv.min, max |-> iv.max, stop |-> FALSE,
                t |-> [i \in inner |-> i + 1] @@ (iv.nb + 1 :> iv.nb + 1),
                h |-> [i \in inner |-> i + 1] @@ (iv.nb + 1 :> iv.nb + 1),
                d |-> [i \in inner |-> iv.bounds[i + 1] - iv.bounds[i]],
                bucket |-> [i \in inner |-> {}]]
      sz == Len(p.x)
  IN  FoldLeft(LAMBDA a, i : upperStep(p, a, i), start, [n \in 1 .. sz |-> sz + 1 - n])

propagateAllDiffBounds(s, p) ==
  LET then(t, iv) == IF t.failed \/ (p.R /\ isFalse(t, p.b)) THEN t ELSE filterupper(t, p, iv).s
      from(iv) == then(filterlower(s, p, iv).s, iv)
  IN  IF p.R /\ isFalse(s, p.b) THEN s ELSE from(sortit(s, p))

\* With R the constraint holds if b, else b is bv_true.
postAllDiffBounds(s, b, R, x, range) ==
  post(s, [kind |-> "AllDiffBounds", b |-> b, R |-> R, x |-> x, range |-> range,
           on |-> [i \in DOMAIN x |-> On(x[i], LU)] \o IF R THEN <<On(b, LU)>> ELSE <<>>], <<>>)

(***************************************************************************)
(* Domains.  match is the value that each variable is matched with, or -1. *)
(* It is trailed, and survives what takes other values.                    *)
(***************************************************************************)
wakeupAllDiffDomain(s, p, i) ==
  LET j == s.kept[p.id].match[i]
      s1 == IF j >= 0 /\ ~ indomain(s, p.x[i], j) THEN [s EXCEPT !.kept[p.id].match[i] = -1] ELSE s
  IN  pushInQueue(s1, p.id)

ascending(s, x) == SelectSeq([k \in 1 .. getMax(s, x) + 1 |-> k - 1], LAMBDA k : indomain(s, x, k))

\* One layer of the search for an augmenting path: from the variables of the
\* queue to values not yet reached, and on to the variables that have them.
layer(s, p, match, acc) ==
  LET reach(a, e) == \* e is a variable and a value of it
        LET owners == {i \in DOMAIN p.x : match[i] = e[2]}
        IN  IF a.found # <<>> \/ e[2] \in DOMAIN a.from
            THEN a
            ELSE IF owners = {}
                 THEN [a EXCEPT !.found = e]
                 ELSE [a EXCEPT !.from = (e[2] :> e[1]) @@ @, !.queue = @ \o SetToSeq(owners)]
      visit(a, i) == FoldLeft(LAMBDA b, k : reach(b, <<i, k>>), a, ascending(s, p.x[i]))
  IN  IF acc.found # <<>> THEN acc ELSE FoldLeft(visit, [acc EXCEPT !.queue = <<>>], acc.queue)

\* Each variable of the path found takes the value from which the next came
augmented(match, acc) ==
  LET take[i \in DOMAIN match] == \* the changes from variable i back
        IF match[i] < 0 THEN {} ELSE {<<acc.from[match[i]], match[i]>>} \cup take[acc.from[match[i]]]
      path == {acc.found} \cup take[acc.found[1]]
  IN  [i \in DOMAIN match |-> IF \E e \in path : e[1] = i
                              THEN (CHOOSE e \in path : e[1] = i)[2] ELSE match[i]]

matched(s, p) ==
  LET sz == Len(p.x)
      start(match) == [queue |-> SelectSeq([i \in 1 .. sz |-> i], LAMBDA i : match[i] < 0),
                       from |-> <<>>, found |-> <<>>]
      search(match) == FoldLeft(LAMBDA acc, n : layer(s, p, match, acc), start(match), [n \in 1 .. sz |-> n])
      improved(match, acc) == IF acc.found = <<>> THEN match ELSE augmented(match, acc)
      once(match, n) == IF \A i \in 1 .. sz : match[i] >= 0 THEN match ELSE improved(match, search(match))
  IN  FoldLeft(once, s.kept[p.id].match, [n \in 1 .. sz |-> n])

(***************************************************************************)
(* The graph from variables to their values and from values to the         *)
(* variables matched with them.  A component that is closed, because no    *)
(* value without a variable can be reached from it, has as many values as  *)
(* variables: its values are taken from all other variables.  Tarjan's     *)
(* algorithm finds a component after those that it leads to.               *)
(***************************************************************************)
reached(s, p, match) ==
  LET next(i) == {j \in DOMAIN p.x : match[j] \in values(s, p.x[i])}
      grow(S) == S \cup UNION {next(i) : i \in S}
  IN  [i \in DOMAIN p.x |-> FoldLeft(LAMBDA S, n : grow(S), {i}, p.x)]

\* Value k is taken from variable i: the variables of S have the values vals
prune(s, p, i, k, S, vals) ==
  LET within(j) == {GE(s, p.x[j], Min(vals)), LE(s, p.x[j], Max(vals))}
                     \cup {NE(s, p.x[j], v) : v \in (Min(vals) .. Max(vals)) \ vals}
      why == IF Cardinality(vals) = 1
             THEN {getValLit(s, p.x[CHOOSE j \in S : TRUE])}
             ELSE UNION {within(j) : j \in S}
  IN  remVal(s, p.x[i], k, why)

tarjan(s, p, match) ==
  LET reach == reached(s, p, match)
      scc(j) == {m \in reach[j] : j \in reach[m]}
      leak(j) == ~ (UNION {values(s, p.x[m]) : m \in reach[j]} \subseteq Range(match))
      visit(t, e) ==
        LET j == CHOOSE m \in DOMAIN match : match[m] = e[2]
        IN  IF t.failed \/ e[2] \notin Range(match) \/ e[1] \in scc(j) \/ leak(j)
            THEN t
            ELSE prune(t, p, e[1], e[2], scc(j), {match[m] : m \in scc(j)})
      visitVar(t, i) == FoldLeft(LAMBDA u, k : visit(u, <<i, k>>), t, ascending(s, p.x[i]))
  IN  FoldLeft(visitVar, s, sortedBy([i \in DOMAIN p.x |-> Cardinality(reach[i])]))

propagateAllDiffDomain(s, p) ==
  LET match == matched(s, p)
  IN  tarjan([s EXCEPT !.kept[p.id].match = match], p, match)

postAllDiffDomain(s, x, range) ==
  post(s, [kind |-> "AllDiffDomain", x |-> x, range |-> range,
           on |-> [i \in DOMAIN x |-> On(x[i], {"C"})]], [match |-> [i \in DOMAIN x |-> -1]])

(***************************************************************************)
(* What is posted                                                          *)
(***************************************************************************)
lowest(s, x) == Min({getMin(s, x[i]) : i \in DOMAIN x})
fromZero(s, x) == [i \in DOMAIN x |-> plus(x[i], -lowest(s, x))]
\* Mutant: the greatest value is not counted.
rangeBelow(s, x) == Max({getMax(s, x[i]) : i \in DOMAIN x}) - lowest(s, x)
rangeOf(s, x) == Max({getMax(s, x[i]) : i \in DOMAIN x}) + 1 - lowest(s, x)

all_different_imp(s, b, x) == postAllDiffBounds(s, b, TRUE, fromZero(s, x), rangeOf(s, x))

all_different(s, x, cl) ==
  LET u == fromZero(s, x)
      range == rangeOf(s, x)
      s1 == IF cl = "domain" THEN postAllDiffDomain(s, u, range)
                             ELSE postAllDiffBounds(s, bv_true, FALSE, u, range)
  IN  postAllDiffValue(s1, u, range)

\* x[i] = j exactly if y[j] = i, with numbers from o1 and o2
inverse(s, x, y, o1, o2, cl) ==
  LET within(t, v, o) == setAtRoot(setAtRoot(t, GE(t, v, o)), LE(t, v, o + Len(x) - 1))
      s1 == FoldLeft(LAMBDA t, i : within(within(t, x[i], o1), y[i], o2), s, [i \in DOMAIN x |-> i])
      u == [i \in DOMAIN x |-> plus(x[i], -o1)]
      s2 == CASE cl = "bounds" -> postAllDiffBounds(s1, bv_true, FALSE, u, Len(x))
              [] cl = "domain" -> postAllDiffDomain(s1, u, Len(x))
              [] OTHER -> s1
      both(i, j) == LET p == EQ(s2, x[i], o1 + j - 1)
                        q == EQ(s2, y[j], o2 + i - 1)
                    IN  {{Not(p), q}, {p, Not(q)}}
  IN  [s2 EXCEPT !.clauses = @ \cup UNION {both(i, j) : i \in DOMAIN x, j \in DOMAIN y}]

=============================================================================
