------------------------------ MODULE Booleans ------------------------------
(***************************************************************************)
(* The constraints over Booleans: relations of two or three, disjunctions, *)
(* and a sum of Booleans below an integer.  A Boolean view is a literal.   *)
(***************************************************************************)
EXTENDS Views

(***************************************************************************)
(* bool_rel posts the clauses that follow from a relation, given by the    *)
(* numbers k of the rows that it allows, bit m of k being the value of     *)
(* argument m: first single literals, then clauses of two, then of three,  *)
(* each only when it excludes a row that those before it do not.           *)
(***************************************************************************)
bit(k, m) == (k \div 2^m) % 2 = 1
BRT_AND == {0, 1, 2, 7}
BRT_OR == {0, 5, 6, 7}
BRT_XOR == {0, 3, 5, 6}       \* BRT_NE_REIF is the same
BRT_EQ == {0, 3, 4, 7}
BRT_NE == {1, 2, 5, 6}        \* BRT_NOT is the same
BRT_LE == {0, 2, 3, 4, 6, 7}
BRT_LT == {2, 6}
BRT_GE == {0, 1, 3, 4, 5, 7}
BRT_GT == {1, 5}
BRT_EQ_REIF == {1, 2, 4, 7}
BRT_LE_REIF == {1, 4, 6, 7}   \* BRT_R_IMPL is the same
BRT_LT_REIF == {0, 1, 3, 6}
BRT_GE_REIF == {2, 4, 5, 7}   \* BRT_L_IMPL is the same
BRT_GT_REIF == {0, 2, 3, 5}

\* The clauses over the three arguments: of the arguments in i, those in j
\* stand as they are, the others negated.
clausesByLength ==
  LET args(k) == {m \in 0 .. 2 : bit(k, m)}
      \* number n of all (length, i, j) in their order
      triple(n) == <<n \div 64 + 1, (n \div 8) % 8, n % 8>>
      isClause(c) == Cardinality(args(c[2])) = c[1] /\ args(c[3]) \subseteq args(c[2])
      clauses == SelectSeq([n \in 1 .. 192 |-> triple(n - 1)], isClause)
  IN  [n \in DOMAIN clauses |-> Tail(clauses[n])]

rowsExcluded(c) == {k \in 0 .. 7 : \A m \in 0 .. 2 : bit(c[1], m) => bit(k, m) # bit(c[2], m)}

bool_rel3(s, x, t, y, z) ==
  LET v == <<x, y, z>>
      lits(c) == {IF bit(c[2], m) THEN v[m + 1] ELSE Not(v[m + 1]) : m \in {n \in 0 .. 2 : bit(c[1], n)}}
      add(acc, c) ==
        IF t \cap rowsExcluded(c) # {} \/ rowsExcluded(c) \subseteq acc.u
        THEN acc
        ELSE [s |-> IF c[1] \in {1, 2, 4}
                    THEN setAtRoot(acc.s, CHOOSE p \in lits(c) : TRUE)
                    ELSE addClause(acc.s, lits(c)),
              u |-> acc.u \cup rowsExcluded(c)]
  IN  FoldLeft(add, [s |-> s, u |-> {}], clausesByLength).s

bool_rel(s, x, t, y) == bool_rel3(s, x, t, y, bv_true)

(***************************************************************************)
(* Disjunctions: of the literals of the set xs and the negations of those  *)
(* of ys.                                                                  *)
(***************************************************************************)
bool_clause(s, xs, ys) == addClause(s, xs \cup {Not(p) : p \in ys})

array_bool_or(s, xs, ys, z) ==
  LET implied == {{Not(p), z} : p \in xs} \cup {{p, z} : p \in ys}
  IN  [s EXCEPT !.clauses = @ \cup implied \cup {{Not(z)} \cup xs \cup {Not(p) : p \in ys}}]

array_bool_and(s, xs, ys, z) == array_bool_or(s, ys, xs, Not(z))

(***************************************************************************)
(* The sum of the literals of the sequence x is at most y.  The number of  *)
(* true ones is counted as they come.                                      *)
(***************************************************************************)
wakeupBoolLinearLE(s, p, i) ==
  pushInQueue(IF i <= Len(p.x) THEN [s EXCEPT !.kept[p.id].ones = @ + 1] ELSE s, p.id)

firstTrue(s, x, n) == \* the first n true literals of x
  LET true == SelectSeq(x, LAMBDA q : isTrue(s, q))
  IN  {true[i] : i \in 1 .. n}

propagateBoolLinearLE(s, p) ==
  LET ymax == getMax(s, p.y)
      ones == Min({s.kept[p.id].ones, ymax + 1})
      why(t) == firstTrue(t, p.x, ones)
      s1 == [s EXCEPT !.kept[p.id].ones = ones]
      s2 == setMin(s1, p.y, ones, why(s1))
      none(t, q) == IF isSet(t, q) THEN t
                    ELSE setLit(t, Not(q), why(t) \cup {getMaxLit(t, p.y)})
  IN  IF s2.failed \/ ones # ymax THEN s2 ELSE FoldLeft(none, s2, p.x)

postBoolLinearLE(s, x, y) ==
  post(s, [kind |-> "BoolLinearLE", x |-> x, y |-> y,
           on |-> [i \in 1 .. Len(x) |-> On(x[i], {"L"})] \o <<On(y, {"U"})>>],
       [ones |-> 0])

\* sum of x rel y, the sum of the negations being the size less the sum
bool_linear(s, x, t, y) ==
  LET x2 == [i \in 1 .. Len(x) |-> Not(x[i])]
      n == Len(x)
  IN  CASE t = "EQ" -> postBoolLinearLE(postBoolLinearLE(s, x, y), x2, plus(minus(y), n))
        [] t = "LE" -> postBoolLinearLE(s, x, y)
        [] t = "LT" -> postBoolLinearLE(s, x, plus(y, -1))
        [] t = "GE" -> postBoolLinearLE(s, x2, plus(minus(y), n))
        [] t = "GT" -> postBoolLinearLE(s, x2, plus(minus(y), n - 1))

=============================================================================
