------------------------------ MODULE FlatZinc ------------------------------
(***************************************************************************)
(* What the constraints of FlatZinc mean, for an assignment d of values to *)
(* their variables, as the libraries of MiniZinc define them: the          *)
(* reference for what the solver posts.                                    *)
(***************************************************************************)
EXTENDS Integers, Sequences, FiniteSets, FiniteSetsExt, SequencesExt

compared(op, m, n) ==
  CASE op = "eq" -> m = n [] op = "ne" -> m # n [] op = "le" -> m <= n
    [] op = "lt" -> m < n [] op = "ge" -> m >= n [] op = "gt" -> m > n
    [] op = "not" -> m # n

\* The connectives of the reified relations of Booleans
connected(op, m, n) ==
  CASE op = "and" -> m = 1 /\ n = 1
    [] op = "or" -> m = 1 \/ n = 1
    [] op = "xor" -> m # n
    [] op = "left_imp" -> n = 1 => m = 1
    [] op = "right_imp" -> m = 1 => n = 1
    [] OTHER -> compared(op, m, n)

total(ns) == FoldLeft(LAMBDA m, n : m + n, 0, ns)
scalar(as, ns) == total([j \in DOMAIN as |-> as[j] * ns[j]])
absolute(n) == IF n < 0 THEN -n ELSE n

\* Rounded towards zero
quotient(m, n) ==
  LET q == absolute(m) \div absolute(n)
  IN  IF (m < 0) = (n < 0) THEN q ELSE -q

\* The values of the arguments
of(a, d) == IF "var" \in DOMAIN a THEN d[a.var] ELSE a.val

different(ns) == IsInjective(ns)
inOrder(m, n, strict) ==
  \/ \E i \in DOMAIN m : m[i] < n[i] /\ \A j \in 1 .. i - 1 : m[j] = n[j]
  \/ ~ strict /\ m = n
precedes(s, t, ns) == \A i \in DOMAIN ns : ns[i] = t => \E j \in 1 .. i - 1 : ns[j] = s

\* The states of an automaton after each letter of the word ns, 0 when it has
\* stopped, and its transitions that go on, in order
statesOf(ce, ns) ==
  LET next[j \in 0 .. Len(ns)] ==
        IF j = 0 THEN ce[5]
        ELSE IF next[j - 1] = 0 \/ ns[j] \notin 1 .. ce[3] THEN 0 ELSE ce[4][next[j - 1]][ns[j]]
  IN  [j \in 1 .. Len(ns) |-> next[j]]

rowsOf(ce) ==
  LET rows == {r \in (1 .. ce[2]) \X (1 .. ce[3]) \X (1 .. ce[2]) : ce[4][r[1]][r[2]] = r[3]}
  IN  SetToSortSeq(rows, LAMBDA q, r : q[1] < r[1] \/ (q[1] = r[1] /\ q[2] < r[2]))

meaningBasic(i, d) ==
  LET ce == i.args
      n(j) == of(ce[j], d)
      true(j) == n(j) = 1
      ns(j) == [k \in DOMAIN ce[j] |-> of(ce[j][k], d)]
      holds == compared(i.op, n(1), n(2))
      some(j) == 1 \in Range(ns(j))
      every(j) == Range(ns(j)) \subseteq {1}
      clause == some(1) \/ ~ every(2)
      lin == compared(i.op, scalar(ce[1], ns(2)), n(3))
      element == n(1) \in DOMAIN ce[2] /\ n(3) = of(ce[2][n(1)], d)
  IN  CASE i.con = "int_CMP" -> holds
        [] i.con = "int_CMP_imp" -> true(3) => holds
        [] i.con = "int_CMP_reif" -> true(3) <=> holds
        [] i.con = "int_lin_CMP" -> lin
        [] i.con = "int_lin_CMP_reif" -> true(4) <=> lin
        [] i.con = "int_plus" -> n(3) = n(1) + n(2)
        [] i.con = "int_minus" -> n(3) = n(1) - n(2)
        [] i.con = "int_pow" -> n(3) = n(1) ^ n(2)
        [] i.con = "int_times" -> n(3) = n(1) * n(2)
        [] i.con = "int_div" -> n(2) # 0 /\ n(3) = quotient(n(1), n(2))
        [] i.con = "int_min" -> n(3) = Min({n(1), n(2)})
        [] i.con = "int_max" -> n(3) = Max({n(1), n(2)})
        [] i.con = "int_abs" -> n(2) = absolute(n(1))
        [] i.con = "int_negate" -> n(2) = -n(1)
        [] i.con = "range_size_fzn" -> n(2) = 1
        [] i.con = "bool_CMP" -> holds
        [] i.con = "bool_CMP_reif" -> true(3) <=> connected(i.op, n(1), n(2))
        [] i.con = "bool_eq_imp" -> true(3) => n(1) = n(2)
        [] i.con = "bool_sum_CMP" -> compared(i.op, total(ns(1)), n(2))
        [] i.con = "array_bool_and" -> true(2) <=> every(1)
        [] i.con = "array_bool_or" -> true(2) <=> some(1)
        [] i.con = "bool_clause" -> clause
        [] i.con = "bool_clause_reif" -> true(3) <=> clause
        [] i.con = "bool2int" -> n(2) = n(1)
        [] i.con = "array_int_element" -> n(1) \in DOMAIN ce[2] /\ n(3) = ce[2][n(1)]
        [] i.con = "array_bool_element" -> n(1) \in DOMAIN ce[2] /\ n(3) = ce[2][n(1)]
        [] i.con \in {"array_var_bool_element", "array_var_int_element"} -> element
        [] i.con = "array_var_int_element_imp" -> true(4) => element
        [] i.con = "set_in" -> n(1) \in ce[2]
        [] i.con = "set_in_reif" -> true(3) <=> n(1) \in ce[2]
        [] i.con = "fzn_all_different_int" -> different(ns(1))
        [] i.con = "fzn_all_different_int_imp" -> true(2) => different(ns(1))
        [] i.con = "inverse_offsets" ->
             \A j, k \in DOMAIN ce[1] : ns(1)[j] = ce[2] + k - 1 <=> ns(3)[k] = ce[4] + j - 1
        [] i.con = "chuffed_table_int" -> ns(1) \in Range(ce[2])
        [] i.con = "chuffed_regular" -> Last(statesOf(ce, ns(1))) \in ce[6]
        [] i.con = "array_int_minimum" -> n(1) = Min(Range(ns(2)))
        [] i.con = "array_int_maximum" -> n(1) = Max(Range(ns(2)))
        [] i.con = "chuffed_maximum_arg_bool" ->
             some(1) /\ n(3) = ce[2] + Min({j \in DOMAIN ce[1] : ns(1)[j] = 1}) - 1
        [] i.con = "lex_less_int" -> inOrder(ns(1), ns(2), TRUE)
        [] i.con = "lex_lesseq_int" -> inOrder(ns(1), ns(2), FALSE)
        [] i.con = "chuffed_value_precede" -> precedes(ce[1], ce[2], ns(3))
        [] i.con = "chuffed_seq_precede" ->
             \A t \in {u \in Range(ns(1)) : u > 1} : precedes(t - 1, t, ns(1))

(***************************************************************************)
(* What the variables that posting makes stand for: the sequences of       *)
(* values they may have, in their order, for an assignment d.              *)
(***************************************************************************)
bit01(phi) == IF phi THEN 1 ELSE 0

\* In a table of the rows ts, one Boolean for each
rowsHeld(ts, row) ==
  {bs \in [DOMAIN ts -> 0 .. 1] : (\A i \in DOMAIN ts : bs[i] = 1 => ts[i] = row) /\ 1 \in Range(bs)}

\* In a lexicographic order of m and n: b[i], for i from 2, if the rests from i
\* are in order, and r[i] if m[i] < n[i] decides
orderHeld(m, n, strict) ==
  LET len == Len(m)
      b(a, i) == IF i = 1 THEN 1 ELSE IF i > len THEN 0 ELSE a[i - 1]
      r(a, i) == a[len - 1 + i]
  IN  {a \in [1 .. 2 * len - 1 -> 0 .. 1] :
         /\ \A i \in 1 .. len : b(a, i) = 1 => m[i] <= n[i]
         /\ \A i \in 1 .. IF strict THEN len ELSE len - 1 :
              /\ r(a, i) = 1 => m[i] < n[i]
              /\ b(a, i) = Max({r(a, i), b(a, i + 1)})}

auxiliaryBasic(i, d) ==
  LET ce == i.args
      n(j) == of(ce[j], d)
      ns(j) == [k \in DOMAIN ce[j] |-> of(ce[j][k], d)]
      S == ce[2]
      states == statesOf(ce, ns(1))
      inner == [j \in 1 .. Len(ce[1]) - 2 |-> [k \in 1 .. Len(rowsOf(ce)) |->
                  bit01(rowsOf(ce)[k] = <<states[j], ns(1)[j + 1], states[j + 1]>>)]]
  IN  CASE i.con = "set_in_reif" /\ Len(i.new) = 2 ->
             {<<bit01(n(1) >= Min(S)), bit01(n(1) <= Max(S))>>}
        [] i.con = "set_in_reif" /\ Len(i.new) # 2 ->
             {[j \in DOMAIN i.new |-> bit01(n(1) = SetToSortSeq(S, <)[j])]}
        [] i.con = "array_var_bool_element" ->
             {[j \in DOMAIN i.new |->
                 IF j <= Len(S) THEN bit01(n(1) = j /\ of(S[j], d) = 1)
                                ELSE bit01(n(1) = j - Len(S) /\ of(S[j - Len(S)], d) = 0)]}
        [] i.con = "chuffed_table_int" /\ i.new # <<>> -> rowsHeld(S, ns(1))
        [] i.con = "chuffed_regular" -> {SubSeq(states, 1, Len(states) - 1) \o FlattenSeq(inner)}
        [] i.con = "lex_less_int" -> orderHeld(ns(1), ns(2), TRUE)
        [] i.con = "lex_lesseq_int" -> orderHeld(ns(1), ns(2), FALSE)
        [] OTHER -> {<<>>}

-----------------------------------------------------------------------------

\* The constraints of Globals

\* The nodes that are met going on from node i along next
metFrom(S, next, i) ==
  LET met[n \in Nat] == IF n = 0 THEN {i} ELSE met[n - 1] \cup {next[j] : j \in met[n - 1]}
  IN  met[Cardinality(S)]
oneCircuit(S, next) == Range(next) = S /\ \A i \in S : metFrom(S, next, i) = S
\* At no time do the tasks that run use more than there is
withinLimit(starts, ds, rs, limit) ==
  /\ \A j \in DOMAIN starts : ds[j] >= 0 /\ rs[j] >= 0
  /\ \A t \in Range(starts) :
       total([j \in DOMAIN starts |-> IF starts[j] <= t /\ t < starts[j] + ds[j] THEN rs[j] ELSE 0]) <= limit
endsBefore(starts, ds, j, k) == starts[j] + ds[j] <= starts[k]

meaningGlobal(i, d) ==
  LET ce == i.args
      n(j) == of(ce[j], d)
      ns(j) == [k \in DOMAIN ce[j] |-> of(ce[j][k], d)]
  IN  CASE i.con = "chuffed_circuit" -> oneCircuit(DOMAIN ce[1], [j \in DOMAIN ce[1] |-> ns(1)[j] - ce[2] + 1])
        [] i.con = "chuffed_cumulative" -> withinLimit(ns(1), ce[2], ce[3], ce[4])
        [] i.con = "chuffed_cumulative_vars" -> withinLimit(ns(1), ns(2), ns(3), n(4))
        [] i.con = "chuffed_disjunctive_strict" ->
             \A j, k \in DOMAIN ce[1] : j # k => endsBefore(ns(1), ce[2], j, k) \/ endsBefore(ns(1), ce[2], k, j)

\* In a disjunctive constraint, for each pair of tasks: which of the two is first
precedencesHeld(starts, ds) ==
  LET n == Len(starts)
      pairs == SelectSeq([k \in 1 .. n * n |-> <<((k - 1) \div n) + 1, ((k - 1) % n) + 1>>], LAMBDA q : q[1] < q[2])
  IN  {bs \in [DOMAIN pairs -> 0 .. 1] :
         \A k \in DOMAIN pairs : IF bs[k] = 1 THEN endsBefore(starts, ds, pairs[k][1], pairs[k][2])
                                             ELSE endsBefore(starts, ds, pairs[k][2], pairs[k][1])}

auxiliaryGlobal(i, d) ==
  LET ns(j) == [k \in DOMAIN i.args[j] |-> of(i.args[j][k], d)]
  IN  IF i.con = "chuffed_disjunctive_strict" THEN precedencesHeld(ns(1), i.args[2]) ELSE {<<>>}

=============================================================================
