------------------------------- MODULE Chains -------------------------------
(***************************************************************************)
(* Constraints on the sequence in an array: the order of two arrays, that  *)
(* of the first occurrences of two values or of all of 1, 2, ..., and      *)
(* the rows that tables and automata allow, where an automaton is tables   *)
(* of its transitions over variables for the states.                       *)
(***************************************************************************)
EXTENDS Linear

(***************************************************************************)
(* x is below y in lexicographic order.  The new Booleans b[i], for i from *)
(* 2, and r[i] say that the rests from i are in order, that x[i] < y[i].   *)
(***************************************************************************)
lex(s, x, y, strict, new) ==
  LET n == Len(x)
      b(i) == IF i = 1 THEN bv_true ELSE IF i > n THEN bv_false ELSE new[i - 1]
      r(i) == new[n - 1 + i]
      either(t, i) == newBinGE(bool_rel3(t, r(i), BRT_OR, b(i + 1), b(i)), y[i], plus(x[i], 1), r(i))
      ordered(t, i) == newBinGE(t, y[i], x[i], b(i))
  IN  FoldLeft(ordered, FoldLeft(either, s, [i \in 1 .. IF strict THEN n ELSE n - 1 |-> i]),
               [i \in 1 .. n |-> i])

(***************************************************************************)
(* The value S comes before T: first_s and second_s are the first places   *)
(* of p.x that may have S, first_t is the first that has T.                *)
(***************************************************************************)
wakeupValuePrecede(s, p, i) ==
  LET a == p.on[i]
      earlier == a.place < s.kept[p.id].first_t /\ getVal(s, a.x) = p.T
  IN  IF ~ a.ofT
      THEN pushInQueue(s, p.id)
      ELSE IF earlier
           THEN pushInQueue([s EXCEPT !.kept[p.id].first_t = a.place], p.id)
           ELSE s

\* No place before n, but for those of the set but, has S
noneOfS(s, p, n, but) == {NE(s, p.x[i], p.S) : i \in (1 .. n - 1) \ but}

propagateValuePrecede(s, p) ==
  LET k == s.kept[p.id]
      sz == Len(p.x)
      mayBeS(t, from) == {i \in from .. k.first_t - 1 : indomain(t, p.x[i], p.S)}
      si == Min({k.first_t} \cup mayBeS(s, k.first_s))
      noT(t, i) == remVal(t, p.x[i], p.T, noneOfS(t, p, i, {}))
      s1 == FoldLeft(noT, s, [n \in 1 .. Min({si + 1, k.first_t}) - k.first_s |-> k.first_s + n - 1])
      done == [s1 EXCEPT !.satisfied = @ \cup {p.id}]
      s2 == [s1 EXCEPT !.kept[p.id].first_s = si]
      second == mayBeS(s1, Max({si + 1, k.second_s}))
      alone == {EQ(s1, p.x[k.first_t], p.T)} \cup noneOfS(s1, p, k.first_t, {si})
  IN  IF s1.failed
      THEN s1
      ELSE IF si > sz
           THEN done
           ELSE IF si >= k.first_t
                THEN setLit(s1, NE(s1, p.x[k.first_t], p.T), noneOfS(s1, p, k.first_t, {}))
                ELSE IF k.first_t > sz
                     THEN s2
                     ELSE IF second # {}
                          THEN [s2 EXCEPT !.kept[p.id].second_s = Min(second)]
                          ELSE LET s3 == setVal(s2, p.x[si], p.S, alone)
                               IN  IF s3.failed THEN s3 ELSE [s3 EXCEPT !.satisfied = @ \cup {p.id}]

postValuePrecede(s, S, T, xs, first_t) ==
  LET second_s == Min({Len(xs) + 1} \cup {i \in 2 .. Len(xs) : indomain(s, xs[i], S)})
      attached(i) == SelectSeq(<<[place |-> i, ofT |-> FALSE] @@ On(xs[i], {"C"}),
                                 [place |-> i, ofT |-> TRUE] @@ On(xs[i], {"F"})>>,
                               LAMBDA a : indomain(s, a.x, IF a.ofT THEN T ELSE S))
      posted == post(s, [kind |-> "ValuePrecede", x |-> xs, S |-> S, T |-> T,
                         on |-> FlattenSeq([i \in DOMAIN xs |-> attached(i)])],
                     [first_s |-> 1, second_s |-> second_s, first_t |-> first_t])
      settled(t) == [setAtRoot(t, EQ(t, xs[1], S)) EXCEPT !.satisfied = @ \cup {Len(t.props)}]
  IN  IF first_t <= second_s THEN settled(posted) ELSE posted

\* Of the array from its first place for S on, what the propagator watches: up to
\* the first that has T, if none before it has S, and only what may have either
watched(s, S, T, rest) ==
  LET is(x, v) == values(s, x) = {v}
      sure == Min({Len(rest) + 1} \cup {i \in DOMAIN rest : is(rest[i], S) \/ is(rest[i], T)})
      ends == sure <= Len(rest) /\ is(rest[sure], T)
      xs == SelectSeq(SubSeq(rest, 1, IF ends THEN sure ELSE sure - 1),
                      LAMBDA x : indomain(s, x, S) \/ indomain(s, x, T))
  IN  [xs |-> xs, first_t |-> IF ends THEN Len(xs) ELSE Len(xs) + 1]

value_precede_int(s, S, T, vs) ==
  LET n == Min({Len(vs)} \cup {i \in DOMAIN vs : indomain(s, vs[i], S)})
      drop(t, x) == IF indomain(t, x, T) THEN int_rel_const(t, x, "NE", T) ELSE t
      rest == IF indomain(s, vs[n], S) THEN SubSeq(vs, n, Len(vs)) ELSE <<>>
      over(t, w) == IF Len(w.xs) <= 1 THEN t ELSE postValuePrecede(t, S, T, w.xs, w.first_t)
      from(t) == over(t, watched(t, S, T, rest))
  IN  from(FoldLeft(drop, s, SubSeq(vs, 1, n)))

(***************************************************************************)
(* Every value k > 1 comes after the value k - 1: first[k] is the first    *)
(* place of p.x that may have k, limit[k] the last by which k must have    *)
(* come.  A place of either notes its value in first_val and limit_val.    *)
(* Values that have to be looked at again, *_change, are not trailed.      *)
(***************************************************************************)
wakeupSeqPrecede(s, p, i) ==
  LET k == s.kept[p.id]
      x == p.x[i]
      m == getMin(s, x)
      first == k.first[k.first_val[i]] = i /\ getMax(s, x) < k.first_val[i]
      earlier == m > 0 /\ i < k.limit[m]
      k1 == IF first THEN [k EXCEPT !.first_change = Append(@, k.first_val[i])] ELSE k
      k2 == IF earlier THEN [k1 EXCEPT !.limit_change = Append(@, m), !.limit[m] = i, !.limit_val[i] = m] ELSE k1
      limit == k2.limit[k2.limit_val[i]] = i /\ ~ indomain(s, x, k2.limit_val[i])
      k3 == IF limit THEN [k2 EXCEPT !.limit_change = Append(@, k2.limit_val[i])] ELSE k2
      s1 == [s EXCEPT !.kept[p.id] = k3]
  IN  IF first \/ earlier \/ limit THEN pushInQueue(s1, p.id) ELSE s1

below(s, p, n, k) == {LE(s, p.x[i], k - 1) : i \in 1 .. n - 1}

\* Starting with the value l at place from, not all values can come in time
frontier(s, p, from, l) ==
  LET pass(a, i) ==
        CASE a.end -> a
          [] ~ a.end /\ getMin(s, p.x[i]) > a.l ->
               [a EXCEPT !.end = TRUE, !.why = @ \cup {GE(s, p.x[i], a.l + 1)}]
          [] ~ a.end /\ indomain(s, p.x[i], a.l) -> [a EXCEPT !.l = @ + 1]
          [] OTHER -> [a EXCEPT !.why = @ \cup {NE(s, p.x[i], a.l)}]
  IN  FoldLeft(pass, [l |-> l, why |-> {}, end |-> FALSE], [n \in 1 .. Len(p.x) + 1 - from |-> from + n - 1]).why

\* Finds the first place of value k again, and those of the values after it
repair_upper(s, p, k) ==
  LET kept == s.kept[p.id]
      pass(a, i) ==
        LET s1 == setMax(a.s, p.x[i], a.k, below(a.s, p, i, a.k))
            enough == a.k + 1 = kept.max_val \/ i < kept.first[a.k + 1]
        IN  IF a.s.failed \/ a.enough \/ i >= kept.limit[a.k + 1]
            THEN a
            ELSE IF s1.failed \/ ~ indomain(s1, p.x[i], a.k)
                 THEN [a EXCEPT !.s = s1, !.i = i + 1]
                 ELSE [a EXCEPT !.s = [s1 EXCEPT !.kept[p.id].first[a.k] = i, !.kept[p.id].first_val[i] = a.k],
                                !.k = @ + 1, !.i = i + 1, !.enough = enough]
      places == [n \in 1 .. Len(p.x) + 1 - kept.first[k] |-> kept.first[k] + n - 1]
      b == FoldLeft(pass, [s |-> s, k |-> k, i |-> kept.first[k], enough |-> FALSE], places)
  IN  IF s.failed \/ k >= kept.max_val
      THEN s
      ELSE IF b.s.failed \/ b.enough
           THEN b.s
           ELSE IF b.i <= Len(p.x)
                THEN setLit(b.s, bv_false, below(b.s, p, b.i, b.k) \cup frontier(b.s, p, b.i, b.k))
                ELSE [b.s EXCEPT !.kept[p.id].max_val = b.k]

\* The same for the last place by which k must have come, and the values before
repair_limit(s, p, k) ==
  LET first == s.kept[p.id].first
      pass(a, i) ==
        LET why == below(a.s, p, i, a.k) \cup frontier(a.s, p, i + 1, a.k)
            s1 == [a.s EXCEPT !.kept[p.id].limit[a.k] = i, !.kept[p.id].limit_val[i] = a.k]
        IN  IF a.s.failed \/ a.k < 1 \/ a.s.kept[p.id].limit[a.k] < i
            THEN [a EXCEPT !.k = 0]
            ELSE IF ~ indomain(a.s, p.x[i], a.k)
                 THEN a
                 ELSE [s |-> IF i = first[a.k] THEN setMin(s1, p.x[i], a.k, why) ELSE s1, k |-> a.k - 1]
      places == [n \in 1 .. s.kept[p.id].limit[k] |-> s.kept[p.id].limit[k] + 1 - n]
  IN  FoldLeft(pass, [s |-> s, k |-> k], places).s

propagateSeqPrecede(s, p) ==
  LET repaired == FoldLeft(LAMBDA t, k : repair_upper(t, p, k), s, s.kept[p.id].first_change)
  IN  IF repaired.failed
      THEN repaired
      ELSE FoldLeft(LAMBDA t, k : repair_limit(t, p, k), repaired, s.kept[p.id].limit_change)

clearSeqPrecede(k) == [k EXCEPT !.first_change = <<>>, !.limit_change = <<>>]

value_precede_seq(s, vs) ==
  LET before(i) == {vs[j] : j \in 1 .. i - 1}
      which == SelectSeq([i \in DOMAIN vs |-> i], LAMBDA i : vs[i] \notin before(i) /\ getMax(s, vs[i]) >= 1)
      xs == [n \in DOMAIN which |-> vs[which[n]]]
      sz == Len(xs)
      firstOf(a, i) ==
        LET s1 == setAtRoot(a.s, LE(a.s, xs[i], a.M))
        IN  IF indomain(s1, xs[i], a.M)
            THEN [a EXCEPT !.s = s1, !.first[a.M] = i, !.first_val[i] = a.M, !.M = @ + 1]
            ELSE [a EXCEPT !.s = s1]
      firsts == FoldLeft(firstOf, [s |-> s, M |-> 1, first |-> [k \in 0 .. sz |-> IF k = 0 THEN 0 ELSE 1],
                                   first_val |-> [i \in 1 .. sz |-> 0]], [i \in 1 .. sz |-> i])
      limitOf(a, i) ==
        LET k == Max({a.k, getMin(a.s, xs[i])})
        IN  IF k = 0 \/ ~ indomain(a.s, xs[i], k)
            THEN [a EXCEPT !.k = k]
            ELSE [s |-> IF firsts.first[k] = i THEN setAtRoot(a.s, GE(a.s, xs[i], k)) ELSE a.s,
                  k |-> k - 1, limit |-> [a.limit EXCEPT ![k] = i], limit_val |-> [a.limit_val EXCEPT ![i] = k]]
      limits == FoldLeft(limitOf, [s |-> firsts.s, k |-> 0,
                                   limit |-> [k \in 0 .. sz |-> IF k = 0 THEN sz + 2 ELSE sz + 1],
                                   limit_val |-> [i \in 1 .. sz |-> sz]],
                         [n \in 1 .. sz |-> sz + 1 - n])
  IN  CASE xs = <<>> -> s
        [] xs # <<>> /\ firsts.s.failed -> firsts.s
        [] OTHER ->
             post(limits.s, [kind |-> "SeqPrecede", x |-> xs, on |-> [i \in 1 .. sz |-> On(xs[i], {"C"})]],
                  [first |-> firsts.first, limit |-> limits.limit, first_val |-> firsts.first_val,
                   limit_val |-> limits.limit_val, max_val |-> firsts.M - 1,
                   first_change |-> <<>>, limit_change |-> <<>>])

-----------------------------------------------------------------------------

(***************************************************************************)
(* The views of the sequence x form a row of the sequence t.  With two     *)
(* columns the values of each imply one of the other, otherwise the new    *)
(* Boolean bs[i] says that row i is the one.                               *)
(***************************************************************************)
table(s, x, t, bs) ==
  LET two == Len(x) = 2
      cells == {{Not(bs[i]), EQ(s, x[j], t[i][j])} : i \in DOMAIN bs, j \in DOMAIN x}
      support(u, w, v) == {IF two THEN EQ(u, x[3 - w], t[i][3 - w]) ELSE bs[i]
                             : i \in {n \in DOMAIN t : t[n][w] = v}}
      value(u, w, v) == IF support(u, w, v) = {}
                        THEN int_rel_const(u, x[w], "NE", v)
                        ELSE addClause(u, {NE(u, x[w], v)} \cup support(u, w, v))
      column(u, w) == FoldSet(LAMBDA v, r : value(r, w, v), u, getMin(u, x[w]) .. getMax(u, x[w]))
      s1 == IF two THEN s ELSE [s EXCEPT !.clauses = @ \cup cells]
  IN  FoldLeft(column, s1, [j \in DOMAIN x |-> j])

(***************************************************************************)
(* x is a word of the automaton with states 1 .. q and letters 1 .. S,     *)
(* where d[i][j] is the state after letter j in state i, 0 for none, q0 is *)
(* the first state and f the set of final ones.  y are new variables for   *)
(* the states between letters, bs[i] the new Booleans of the table at i.   *)
(***************************************************************************)
transitions(q, S, d) ==
  LET all == [n \in 1 .. q * S |-> <<((n - 1) \div S) + 1, ((n - 1) % S) + 1>>]
  IN  SelectSeq([n \in DOMAIN all |-> all[n] \o <<d[all[n][1]][all[n][2]]>>], LAMBDA r : r[3] # 0)

regular(s, x, q, S, d, q0, f, y, bs) ==
  LET n == Len(x)
      middle == transitions(q, S, d)
      columns(rows, js) == [i \in DOMAIN rows |-> [j \in DOMAIN js |-> rows[i][js[j]]]]
      start == columns(SelectSeq(middle, LAMBDA r : r[1] = q0), <<2, 3>>)
      end == columns(SelectSeq(middle, LAMBDA r : r[3] \in f), <<1, 2>>)
      first == [x |-> <<x[1], y[1]>>, t |-> start, bs |-> <<>>]
      inner(i) == [x |-> <<y[i - 1], x[i], y[i]>>, t |-> middle, bs |-> bs[i]]
      last == [x |-> <<y[n - 1], x[n]>>, t |-> end, bs |-> <<>>]
  IN  FoldLeft(LAMBDA t, e : table(t, e.x, e.t, e.bs), s,
               <<first>> \o [i \in 1 .. n - 2 |-> inner(i + 1)] \o <<last>>)

=============================================================================
