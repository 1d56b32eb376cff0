------------------------------ MODULE Registry ------------------------------
(***************************************************************************)
(* What is posted for a constraint of a FlatZinc model: con is its name,   *)
(* with CMP for the comparison op.  An argument is a variable,             *)
(* [var |-> name], a constant, [val |-> number], a sequence of such, a     *)
(* sequence of numbers, or a set; new is the sequence of the names of the  *)
(* variables that posting makes.                                           *)
(***************************************************************************)
EXTENDS Arithmetic, AllDiff, Extrema, Chains

isVar(a) == "var" \in DOMAIN a
getIntVar(a) == IF isVar(a) THEN View(a.var, 1, 0) ELSE getConstant(a.val)
getBoolVar(a) == IF isVar(a) THEN Bool(a.var) ELSE IF a.val = 1 THEN bv_true ELSE bv_false
arg2intvarargs(as) == [j \in DOMAIN as |-> getIntVar(as[j])]
arg2BoolVarArgs(as) == [j \in DOMAIN as |-> getBoolVar(as[j])]
newBools(new) == [j \in DOMAIN new |-> Bool(new[j])]

(***************************************************************************)
(* Comparisons of integers                                                 *)
(***************************************************************************)
IRT == [eq |-> "EQ", ne |-> "NE", ge |-> "GE", gt |-> "GT", le |-> "LE", lt |-> "LT"]

\* The relation that holds when t does not
negation(t) == CASE t = "EQ" -> "NE" [] t = "NE" -> "EQ" [] t = "LE" -> "GT"
                 [] t = "LT" -> "GE" [] t = "GE" -> "LT" [] t = "GT" -> "LE"

\* Of two variables, or of a variable on the left and a constant
compare(t, ce, Two(_, _, _), One(_, _, _)) ==
  IF isVar(ce[1])
  THEN IF isVar(ce[2])
       THEN Two(getIntVar(ce[1]), t, getIntVar(ce[2]))
       ELSE One(getIntVar(ce[1]), t, ce[2].val)
  ELSE One(getIntVar(ce[2]), opposite(t), ce[1].val)

p_int_CMP(s, t, ce) ==
  compare(t, ce, LAMBDA x, u, y : int_rel(s, x, u, y, 0),
                 LAMBDA x, u, k : int_rel_const(s, x, u, k))

p_int_CMP_imp(s, t, ce) ==
  IF ~ isVar(ce[3])
  THEN IF ce[3].val = 1 THEN p_int_CMP(s, t, ce) ELSE s
  ELSE LET r == getBoolVar(ce[3])
       IN  compare(t, ce, LAMBDA x, u, y : int_rel_half_reif(s, x, u, y, r, 0),
                          LAMBDA x, u, k : int_rel_half_reif_real(s, x, u, k, r))

p_int_CMP_reif(s, t, ce) ==
  IF ~ isVar(ce[3])
  THEN p_int_CMP(s, IF ce[3].val = 1 THEN t ELSE negation(t), ce)
  ELSE LET r == getBoolVar(ce[3])
       IN  compare(t, ce, LAMBDA x, u, y : int_rel_reif(s, x, u, y, r, 0),
                          LAMBDA x, u, k : int_rel_reif_real(s, x, u, k, r))

(***************************************************************************)
(* Linear constraints: coefficients, variables, right-hand side            *)
(***************************************************************************)
p_int_lin_CMP(s, t, ce) == int_linear(s, ce[1], arg2intvarargs(ce[2]), t, ce[3].val, bv_true)

p_int_lin_CMP_reif(s, t, ce) ==
  LET known == ~ isVar(ce[4])
      u == IF known /\ ce[4].val = 0 THEN negation(t) ELSE t
  IN  int_linear(s, ce[1], arg2intvarargs(ce[2]), u, ce[3].val, IF known THEN bv_true ELSE getBoolVar(ce[4]))

(***************************************************************************)
(* Relations of two and of three Booleans.  A relation is the set of its   *)
(* rows; a constant argument is taken out of it.                           *)
(***************************************************************************)
BRT == [not |-> BRT_NE, eq |-> BRT_EQ, ne |-> BRT_NE, le |-> BRT_LE, lt |-> BRT_LT, ge |-> BRT_GE, gt |-> BRT_GT]

BRT_REIF == [and |-> BRT_AND, or |-> BRT_OR, xor |-> BRT_XOR, left_imp |-> BRT_GE_REIF, right_imp |-> BRT_LE_REIF,
             eq |-> BRT_EQ_REIF, ne |-> BRT_XOR, le |-> BRT_LE_REIF, lt |-> BRT_LT_REIF,
             ge |-> BRT_GE_REIF, gt |-> BRT_GT_REIF]

p_bool_CMP(s, rows, ce) ==
  LET withBit(k, m, v) == k - (IF bit(k, m) THEN 2^m ELSE 0) + v * 2^m
      known(t, j) == IF isVar(ce[j]) THEN t ELSE {k \in 0 .. 7 : withBit(k, j - 1, ce[j].val) \in t}
      view(j) == IF j <= Len(ce) /\ isVar(ce[j]) THEN Bool(ce[j].var) ELSE bv_true
  IN  bool_rel3(s, view(1), FoldLeft(known, rows, [j \in DOMAIN ce |-> j]), view(2), view(3))

p_bool_eq_imp(s, ce) ==
  LET r == getBoolVar(ce[3])
      literal(q, on) == IF on THEN q ELSE Not(q)
  IN  IF ~ isVar(ce[3])
      THEN IF ce[3].val = 1 THEN p_bool_CMP(s, BRT_EQ, SubSeq(ce, 1, 2)) ELSE s
      ELSE IF isVar(ce[1]) /\ isVar(ce[2])
           THEN LET x == getBoolVar(ce[1])
                    y == getBoolVar(ce[2])
                IN  addClause(addClause(s, {Not(r), y, Not(x)}), {Not(r), Not(y), x})
           ELSE IF isVar(ce[1])
                THEN addClause(s, {Not(r), literal(getBoolVar(ce[1]), ce[2].val = 1)})
                ELSE addClause(s, {Not(r), literal(getBoolVar(ce[2]), ce[1].val = 1)})

p_bool_sum_CMP(s, t, ce) == bool_linear(s, arg2BoolVarArgs(ce[1]), t, getIntVar(ce[2]))

(***************************************************************************)
(* Element constraints, with places from 1                                 *)
(***************************************************************************)
inPlaces(s, sel, n) == int_rel_const(int_rel_const(s, sel, "GE", 1), sel, "LE", n)

p_element(s, con, ce, ann, new) ==
  LET sel == getIntVar(ce[1])
      n == Len(ce[2])
      s1 == inPlaces(s, sel, n)
  IN  CASE con = "array_int_element" -> array_int_element(s1, sel, ce[2], getIntVar(ce[3]), 1)
        [] con = "array_bool_element" -> array_bool_element(s1, sel, ce[2], getBoolVar(ce[3]), 1)
        [] con = "array_var_bool_element" ->
             LET bs == newBools(new)
             IN  array_var_bool_element(s1, sel, arg2BoolVarArgs(ce[2]), getBoolVar(ce[3]), 1,
                                        SubSeq(bs, 1, n), SubSeq(bs, n + 1, 2 * n))
        [] con = "array_var_int_element" /\ ann = "domain" ->
             array_var_int_element_dom(s1, sel, arg2intvarargs(ce[2]), getIntVar(ce[3]), 1)
        [] con = "array_var_int_element" /\ ann # "domain" ->
             array_var_int_element_bound(s1, sel, arg2intvarargs(ce[2]), getIntVar(ce[3]), 1)
        [] con = "array_var_int_element_imp" ->
             array_var_int_element_bound_imp(s, getBoolVar(ce[4]), sel, arg2intvarargs(ce[2]), getIntVar(ce[3]), 1)

(***************************************************************************)
(* Sets: an interval, or the set of its members                            *)
(***************************************************************************)
isInterval(S) == S = Min(S) .. Max(S)

p_set_in(s, ce) ==
  LET v == getIntVar(ce[1])
  IN  IF isInterval(ce[2])
      THEN int_rel_const(int_rel_const(s, v, "GE", Min(ce[2])), v, "LE", Max(ce[2]))
      ELSE setAtRoot(s, Where(s, v, LAMBDA w : w \in ce[2]))

p_set_in_reif(s, ce, new) ==
  LET v == getIntVar(ce[1])
      r == getBoolVar(ce[3])
      rs == newBools(new)
      each(t, j) == int_rel_reif_real(t, v, "EQ", SetToSortSeq(ce[2], <)[j], rs[j])
  IN  IF isInterval(ce[2])
      THEN bool_rel3(int_rel_reif_real(int_rel_reif_real(s, v, "GE", Min(ce[2]), rs[1]),
                                       v, "LE", Max(ce[2]), rs[2]), rs[1], BRT_AND, rs[2], r)
      ELSE array_bool_or(FoldLeft(each, s, [j \in DOMAIN rs |-> j]), Range(rs), {}, r)

(***************************************************************************)
(* Constraints on arrays; ann is the annotation for consistency            *)
(***************************************************************************)
p_all_different_int(s, ce, ann) == all_different(s, arg2intvarargs(ce[1]), ann)
p_all_different_int_imp(s, ce) == all_different_imp(s, getBoolVar(ce[2]), arg2intvarargs(ce[1]))
p_inverse_offsets(s, ce, ann) == inverse(s, arg2intvarargs(ce[1]), arg2intvarargs(ce[3]), ce[2], ce[4], ann)
p_table_int(s, ce, new) == table(s, arg2intvarargs(ce[1]), ce[2], newBools(new))

\* Variables for the states first, then the Booleans of each table in turn
p_regular(s, ce, new) ==
  LET states == Len(ce[1]) - 1
      middle == Len(transitions(ce[2], ce[3], ce[4]))
      inner(i) == SubSeq(newBools(new), states + (i - 2) * middle + 1, states + (i - 1) * middle)
  IN  regular(s, arg2intvarargs(ce[1]), ce[2], ce[3], ce[4], ce[5], ce[6],
              [j \in 1 .. states |-> View(new[j], 1, 0)], [i \in 2 .. states |-> inner(i)])

p_minimum(s, ce) == minimum(s, arg2intvarargs(ce[2]), getIntVar(ce[1]))
p_maximum(s, ce) == maximum(s, arg2intvarargs(ce[2]), getIntVar(ce[1]))
p_bool_arg_max(s, ce) == bool_arg_max(s, arg2BoolVarArgs(ce[1]), ce[2], getIntVar(ce[3]))
p_lex(s, ce, strict, new) == lex(s, arg2intvarargs(ce[1]), arg2intvarargs(ce[2]), strict, newBools(new))

val_prec(s, ce) == value_precede_int(s, ce[1], ce[2], arg2intvarargs(ce[3]))
val_prec_seq(s, ce) == value_precede_seq(s, arg2intvarargs(ce[1]))

(***************************************************************************)
(* What is posted for the constraint i by its name                         *)
(***************************************************************************)
postArithmetic(s, con, ce) ==
  LET x == getIntVar(ce[1])
      y == getIntVar(ce[2])
      z == getIntVar(ce[3])
  IN  CASE con = "int_plus" -> int_plus(s, x, y, z)
        [] con = "int_minus" -> int_minus(s, x, y, z)
        [] con = "int_pow" -> int_pow(s, x, y, z)
        [] con = "int_times" -> int_times(s, x, y, z)
        [] con = "int_div" -> int_div(s, x, y, z)
        [] con = "int_min" -> int_min(s, x, y, z)
        [] con = "int_max" -> int_max(s, x, y, z)
        [] con = "int_abs" -> int_abs(s, x, y)
        [] con = "int_negate" -> int_negate(s, x, y)
        [] con = "range_size_fzn" -> range_size(s, x, y)

postBooleans(s, con, ce) ==
  LET all(j) == Range(arg2BoolVarArgs(ce[j]))
  IN  CASE con = "array_bool_and" -> array_bool_and(s, all(1), {}, getBoolVar(ce[2]))
        [] con = "array_bool_or" -> array_bool_or(s, all(1), {}, getBoolVar(ce[2]))
        [] con = "bool_clause" -> bool_clause(s, all(1), all(2))
        [] con = "bool_clause_reif" -> array_bool_or(s, all(1), all(2), getBoolVar(ce[3]))
        [] con = "bool2int" -> bool2int(s, getBoolVar(ce[1]), getIntVar(ce[2]))

Arithmetics == {"int_plus", "int_minus", "int_pow", "int_times", "int_div", "int_min", "int_max",
                "int_abs", "int_negate", "range_size_fzn"}
Clausal == {"array_bool_and", "array_bool_or", "bool_clause", "bool_clause_reif", "bool2int"}
Elements == {"array_int_element", "array_bool_element", "array_var_bool_element",
             "array_var_int_element", "array_var_int_element_imp"}

postArrays(s, con, ce, ann, new) ==
  CASE con = "fzn_all_different_int" -> p_all_different_int(s, ce, ann)
    [] con = "fzn_all_different_int_imp" -> p_all_different_int_imp(s, ce)
    [] con = "inverse_offsets" -> p_inverse_offsets(s, ce, ann)
    [] con = "chuffed_table_int" -> p_table_int(s, ce, new)
    [] con = "chuffed_regular" -> p_regular(s, ce, new)
    [] con = "array_int_minimum" -> p_minimum(s, ce)
    [] con = "array_int_maximum" -> p_maximum(s, ce)
    [] con = "chuffed_maximum_arg_bool" -> p_bool_arg_max(s, ce)
    [] con = "lex_less_int" -> p_lex(s, ce, TRUE, new)
    [] con = "lex_lesseq_int" -> p_lex(s, ce, FALSE, new)
    [] con = "chuffed_value_precede" -> val_prec(s, ce)
    [] con = "chuffed_seq_precede" -> val_prec_seq(s, ce)

postBasic(s, i) ==
  LET con == i.con
      ce == i.args
  IN  CASE con = "int_CMP" -> p_int_CMP(s, IRT[i.op], ce)
        [] con = "int_CMP_imp" -> p_int_CMP_imp(s, IRT[i.op], ce)
        [] con = "int_CMP_reif" -> p_int_CMP_reif(s, IRT[i.op], ce)
        [] con = "int_lin_CMP" -> p_int_lin_CMP(s, IRT[i.op], ce)
        [] con = "int_lin_CMP_reif" -> p_int_lin_CMP_reif(s, IRT[i.op], ce)
        [] con \in Arithmetics -> postArithmetic(s, con, ce)
        [] con = "bool_CMP" -> p_bool_CMP(s, BRT[i.op], ce)
        [] con = "bool_CMP_reif" -> p_bool_CMP(s, BRT_REIF[i.op], ce)
        [] con = "bool_eq_imp" -> p_bool_eq_imp(s, ce)
        [] con = "bool_sum_CMP" -> p_bool_sum_CMP(s, IRT[i.op], ce)
        [] con \in Clausal -> postBooleans(s, con, ce)
        [] con \in Elements -> p_element(s, con, ce, i.ann, i.new)
        [] con = "set_in" -> p_set_in(s, ce)
        [] con = "set_in_reif" -> p_set_in_reif(s, ce, i.new)
        [] OTHER -> postArrays(s, con, ce, i.ann, i.new)

(***************************************************************************)
(* Their propagators at work                                               *)
(***************************************************************************)
wakeupBasic(s, p, i, events) ==
  CASE p.kind \in {"BinGE", "BinNE", "LinearGE"} -> wakeupUnlessOff(s, p)
    [] p.kind = "LinearNE" -> wakeupLinearNE(s, p, i)
    [] p.kind = "BoolLinearLE" -> wakeupBoolLinearLE(s, p, i)
    [] p.kind \in {"IntElemBounds", "IntElemBoundsImp"} -> wakeupIntElem(s, p, i, events)
    [] p.kind = "AllDiffValue" -> wakeupAllDiffValue(s, p, i)
    [] p.kind = "AllDiffDomain" -> wakeupAllDiffDomain(s, p, i)
    [] p.kind = "Minimum" -> wakeupMinimum(s, p, i, events)
    [] p.kind = "ValuePrecede" -> wakeupValuePrecede(s, p, i)
    [] p.kind = "SeqPrecede" -> wakeupSeqPrecede(s, p, i)
    [] OTHER -> pushInQueue(s, p.id)

propagateBasic(s, p) ==
  CASE p.kind = "Abs" -> propagateAbs(s, p)
    [] p.kind = "PowerPos" -> propagatePowerPos(s, p)
    [] p.kind = "TimesAll" -> propagateTimesAll(s, p)
    [] p.kind = "Times" -> propagateTimes(s, p)
    [] p.kind = "Divide" -> propagateDivide(s, p)
    [] p.kind = "Min2" -> propagateMin2(s, p)
    [] p.kind = "RangeSize" -> propagateRangeSize(s, p)
    [] p.kind = "BinGE" -> propagateBinGE(s, p)
    [] p.kind = "BinNE" -> propagateBinNE(s, p)
    [] p.kind = "LinearGE" -> propagateLinearGE(s, p)
    [] p.kind = "LinearNE" -> propagateLinearNE(s, p)
    [] p.kind = "BoolLinearLE" -> propagateBoolLinearLE(s, p)
    [] p.kind = "IntElemBounds" -> propagateIntElemBounds(s, p)
    [] p.kind = "IntElemBoundsImp" -> propagateIntElemBoundsImp(s, p)
    [] p.kind = "IntElemDomain" -> propagateIntElemDomain(s, p)
    [] p.kind = "AllDiffValue" -> propagateAllDiffValue(s, p)
    [] p.kind = "AllDiffBounds" -> propagateAllDiffBounds(s, p)
    [] p.kind = "AllDiffDomain" -> propagateAllDiffDomain(s, p)
    [] p.kind = "Minimum" -> propagateMinimum(s, p)
    [] p.kind = "BoolArgMax" -> propagateBoolArgMax(s, p)
    [] p.kind = "ValuePrecede" -> propagateValuePrecede(s, p)
    [] p.kind = "SeqPrecede" -> propagateSeqPrecede(s, p)

\* Propagators with a lower number run first
priorityBasic(p) ==
  CASE p.kind \in {"Abs", "PowerPos", "TimesAll", "Times", "Divide", "Min2", "RangeSize", "Minimum", "BoolArgMax"} -> 1
    [] p.kind \in {"LinearGE", "AllDiffValue"} -> 2
    [] p.kind \in {"SeqPrecede"} -> 3
    [] p.kind = "AllDiffBounds" -> 4
    [] p.kind \in {"AllDiffDomain"} -> 5
    [] OTHER -> 0

clearPropStateBasic(p, k) ==
  CASE p.kind \in {"IntElemBounds", "IntElemBoundsImp"} -> clearIntElem(k)
    [] p.kind = "AllDiffValue" -> clearAllDiffValue(k)
    [] p.kind = "Minimum" -> clearMinimum(k)
    [] p.kind = "SeqPrecede" -> clearSeqPrecede(k)
    [] OTHER -> k

checkSatisfiedBasic(s, p) ==
  CASE p.kind = "Min2" -> minKnown(s, p)
    [] p.kind = "BinGE" -> knownGE(s, p)
    [] p.kind = "BinNE" -> knownNE(s, p)
    [] p.kind \in {"IntElemBounds", "IntElemBoundsImp"} -> knownElem(s, p)
    [] p.kind = "Minimum" -> knownMinimum(s, p)
    [] OTHER -> FALSE

\* Back to the root, what is trailed is as it was before
untrailedBasic(p, before, now) ==
  IF p.kind = "IntElemDomain" THEN [before EXCEPT !.support = now.support] ELSE before

=============================================================================
