------------------------------- MODULE Linear -------------------------------
(***************************************************************************)
(* Comparisons of two variables and linear (in)equalities, plain, implied  *)
(* by a Boolean r (half reified) or equivalent to it (reified).  The       *)
(* relations are "EQ", "NE", "LE", "LT", "GE" and "GT".                    *)
(***************************************************************************)
EXTENDS Booleans

\* The change of the relation with both sides negated
opposite(t) == CASE t = "LE" -> "GE" [] t = "LT" -> "GT" [] t = "GE" -> "LE"
                 [] t = "GT" -> "LT" [] OTHER -> t

\* The premises of a change that r stands behind
behind(s, p) == IF p.R THEN {valLit(s, p.r)} ELSE {}

\* A propagator behind r is not woken, and does nothing, once r is false
wakeupUnlessOff(s, p) == IF p.R /\ isFalse(s, p.r) THEN s ELSE pushInQueue(s, p.id)

attachedTo(r, R) == IF R THEN <<On(r, {"L"})>> ELSE <<>>

(***************************************************************************)
(* x >= y if r                                                             *)
(***************************************************************************)
propagateBinGE(s, p) ==
  LET x == p.x
      y == p.y
      xmax == getMax(s, x)
      ymin == getMin(s, y)
      refuted == IF p.R /\ xmax < ymin
                 THEN setLit(s, Not(p.r), {getMaxLit(s, x), getMinLit(s, y)})
                 ELSE s
      onX(t) == setMin(t, x, ymin, {getMinLit(t, y)} \cup behind(t, p))
      onY(t) == setMax(t, y, xmax, {getMaxLit(t, x)} \cup behind(t, p))
      done(t) == IF ~ t.failed /\ getMin(t, x) >= getMax(t, y)
                 THEN [t EXCEPT !.satisfied = @ \cup {p.id}]
                 ELSE t
      then(t) == IF t.failed \/ (p.R /\ ~ isTrue(t, p.r)) THEN t ELSE done(onY(onX(t)))
  IN  IF p.R /\ isFalse(s, p.r) THEN s ELSE then(refuted)

(***************************************************************************)
(* x # y if r                                                              *)
(***************************************************************************)
propagateBinNE(s, p) ==
  LET x == p.x
      y == p.y
      both == isFixed(s, x) /\ isFixed(s, y) /\ getVal(s, x) = getVal(s, y)
      s1 == IF both THEN setLit(s, Not(p.r), valuesHeld(s, {x, y})) ELSE s
      differ(t, u, w) ==
        IF ~ t.failed /\ isFixed(t, u)
        THEN remVal(t, w, getVal(t, u), {getValLit(t, u)} \cup behind(t, p))
        ELSE t
  IN  IF p.R /\ isFalse(s, p.r)
      THEN s
      ELSE IF s1.failed \/ (p.R /\ ~ isTrue(s1, p.r))
           THEN s1
           ELSE differ(differ(s1, x, y), y, x)

postBin(s, kind, x, y, r, flags) ==
  LET R == ~ isTrue(s, r)
  IN  post(s, [kind |-> kind, x |-> x, y |-> y, r |-> r, R |-> R,
               on |-> <<On(x, flags[1]), On(y, flags[2])>> \o attachedTo(r, R)], <<>>)

\* Mutant: the bounds that do not matter wake it.
newBinGEAsleep(s, x, y, r) == postBin(s, "BinGE", x, y, r, <<{"L"}, {"U"}>>)
newBinGE(s, x, y, r) == postBin(s, "BinGE", x, y, r, <<{"U"}, {"L"}>>)
newBinNE(s, x, y, r) == postBin(s, "BinNE", x, y, r, <<{"F"}, {"F"}>>)

\* Mutant: the bounds may touch.
knownTouching(s, p) == isFalse(s, p.r) \/ getMin(s, p.x) >= getMax(s, p.y) \/ getMax(s, p.x) <= getMin(s, p.y)

\* checkSatisfied, at the root
knownGE(s, p) == isFalse(s, p.r) \/ getMin(s, p.x) >= getMax(s, p.y)
knownNE(s, p) == isFalse(s, p.r) \/ getMin(s, p.x) > getMax(s, p.y) \/ getMax(s, p.x) < getMin(s, p.y)

(***************************************************************************)
(* x + y rel c                                                             *)
(***************************************************************************)
bin_linear(s, x, y, t, c) ==
  LET atMost(u, k) == newBinGE(u, plus(minus(x), k), y, bv_true)
      atLeast(u, k) == newBinGE(u, x, plus(minus(y), k), bv_true)
  IN  CASE t = "EQ" -> atLeast(atMost(s, c), c)
        [] t = "LE" -> atMost(s, c)
        [] t = "LT" -> atMost(s, c - 1)
        [] t = "GE" -> atLeast(s, c)
        [] t = "GT" -> atLeast(s, c + 1)

(***************************************************************************)
(* x rel y + c, and the same if r.  For r = bv_true both are one.          *)
(***************************************************************************)
int_rel_half_reif(s, x, t, y, r, c) ==
  CASE t = "EQ" -> newBinGE(newBinGE(s, x, plus(y, c), r), y, plus(x, -c), r)
    [] t = "NE" -> newBinNE(s, x, plus(y, c), r)
    [] t = "LE" -> newBinGE(s, y, plus(x, -c), r)
    [] t = "LT" -> newBinGE(s, y, plus(x, 1 - c), r)
    [] t = "GE" -> newBinGE(s, x, plus(y, c), r)
    [] t = "GT" -> newBinGE(s, x, plus(y, 1 + c), r)

int_rel(s, x, t, y, c) == int_rel_half_reif(s, x, t, y, bv_true, c)

(***************************************************************************)
(* x rel y + c exactly if r                                                *)
(***************************************************************************)
int_rel_reif(s, x, t, y, r, c) ==
  LET equal(q) == newBinNE(newBinGE(newBinGE(s, x, plus(y, c), q), y, plus(x, -c), q),
                           x, plus(y, c), Not(q))
      atMost(q) == newBinGE(newBinGE(s, y, plus(x, -c), q), x, plus(y, 1 + c), Not(q))
      below(q) == newBinGE(newBinGE(s, y, plus(x, 1 - c), q), x, plus(y, c), Not(q))
  IN  CASE t = "EQ" -> equal(r)
        [] t = "NE" -> equal(Not(r))
        [] t = "LE" -> atMost(r)
        [] t = "LT" -> below(r)
        [] t = "GE" -> below(Not(r))
        [] t = "GT" -> atMost(Not(r))

(***************************************************************************)
(* x rel c at the root, exactly if r, and if r.                            *)
(***************************************************************************)
int_rel_reif_real(s, x, t, c, r) ==
  LET b1 == GE(s, x, c)
      b2 == LE(s, x, c)
      q == IF t \in {"EQ", "LE", "GE"} THEN r ELSE Not(r)
  IN  IF t = "NE" /\ isTrue(s, r)
      THEN setAtRoot(s, NE(s, x, c))
      ELSE IF t \in {"EQ", "NE"}
           THEN bool_rel3(s, b1, BRT_AND, b2, q)
           ELSE bool_rel(s, IF t \in {"LE", "GT"} THEN b2 ELSE b1, BRT_EQ, q)

int_rel_const(s, x, t, c) ==
  CASE t = "EQ" -> setAtRoot(s, EQ(s, x, c))
    [] t = "NE" -> setAtRoot(s, NE(s, x, c))
    [] t = "LE" -> setAtRoot(s, LE(s, x, c))
    [] t = "LT" -> setAtRoot(s, LE(s, x, c - 1))
    [] t = "GE" -> setAtRoot(s, GE(s, x, c))
    [] t = "GT" -> setAtRoot(s, GE(s, x, c + 1))

int_rel_half_reif_real(s, x, t, c, r) ==
  LET b1 == GE(s, x, c)
      b2 == LE(s, x, c)
      or(u, b) == bool_rel(u, b, BRT_OR, Not(r))
  IN  CASE t = "EQ" -> or(or(s, b2), b1)
        [] t = "NE" -> IF isTrue(s, r) THEN setAtRoot(s, NE(s, x, c)) ELSE addClause(addClause(s, {Not(b1), Not(b2), Not(r)}), {b1, b2, Not(r)})
        [] t = "LE" -> or(s, b2)
        [] t = "LT" -> or(s, Not(b1))
        [] t = "GE" -> or(s, b1)
        [] t = "GT" -> or(s, Not(b2))

(***************************************************************************)
(* The sum of the views of p.x is at least c, if r.                        *)
(***************************************************************************)
sumOf(F(_), x) == FoldLeft(LAMBDA n, u : n + F(u), 0, x)

propagateLinearGE(s, p) ==
  LET max_sum == sumOf(LAMBDA u : getMax(s, u), p.x) - p.c
      maxLits(t, us) == {getMaxLit(t, u) : u \in us}
      s1 == IF p.R /\ max_sum < 0 THEN setLit(s, Not(p.r), maxLits(s, Range(p.x))) ELSE s
      raise(t, u) == setMin(t, u, getMax(t, u) - max_sum,
                            maxLits(t, Range(p.x) \ {u}) \cup behind(t, p))
  IN  IF p.R /\ isFalse(s, p.r)
      THEN s
      ELSE IF s1.failed \/ (p.R /\ ~ isTrue(s1, p.r)) THEN s1 ELSE FoldLeft(raise, s1, p.x)

(***************************************************************************)
(* The sum is not c, if r.  What is fixed is counted and summed as it is   *)
(* told of, and trailed.                                                   *)
(***************************************************************************)
wakeupLinearNE(s, p, i) ==
  LET s1 == IF i <= Len(p.x)
            THEN [s EXCEPT !.kept[p.id] = [unfixed |-> @.unfixed - 1,
                                           sum |-> @.sum + getVal(s, p.x[i])]]
            ELSE s
      unfixed == s1.kept[p.id].unfixed
  IN  IF unfixed <= 1 /\ (~ p.R \/ isTrue(s, p.r) \/ (~ isSet(s, p.r) /\ unfixed = 0))
      THEN pushInQueue(s1, p.id)
      ELSE s1

propagateLinearNE(s, p) ==
  LET k == s.kept[p.id]
      open == CHOOSE u \in Range(p.x) : ~ isFixed(s, u)
  IN  IF p.R /\ isFalse(s, p.r)
      THEN s
      ELSE IF k.unfixed = 0
           THEN IF k.sum = 0 THEN setLit(s, Not(p.r), valuesHeld(s, Range(p.x))) ELSE s
           ELSE IF p.R /\ ~ isTrue(s, p.r)
                THEN s
                ELSE remVal(s, open, -k.sum,
                            valuesHeld(s, Range(p.x) \ {open}) \cup behind(s, p))

(***************************************************************************)
(* sum of a[i] * x[i] rel c, exactly if r.                                 *)
(***************************************************************************)
scaled(a, x) == [i \in 1 .. Len(x) |-> times(x[i], a[i])]
negated(a) == [i \in 1 .. Len(a) |-> -a[i]]

postLinearGE(s, a, x, c, r, R) ==
  LET u == scaled(a, x)
  IN  post(s, [kind |-> "LinearGE", x |-> u, c |-> c, r |-> r, R |-> R,
               on |-> [i \in 1 .. Len(u) |-> On(u[i], {"U"})] \o attachedTo(r, R)], <<>>)

postLinearNE(s, a, x, c, r, R) ==
  LET u == scaled(a, x)
      sorted == SelectSeq(u, LAMBDA w : w.a > 0) \o SelectSeq(u, LAMBDA w : w.a < 0)
  IN  post(s, [kind |-> "LinearNE", x |-> sorted, r |-> r, R |-> R,
               on |-> [i \in 1 .. Len(u) |-> On(sorted[i], {"F"})] \o attachedTo(r, R)],
           [unfixed |-> Len(u), sum |-> -c])

linear(s, a, x, t, c) ==
  LET ge(u, b, k) == postLinearGE(u, b, x, k, bv_true, FALSE)
  IN  CASE t = "EQ" -> ge(ge(s, a, c), negated(a), -c)
        [] t = "NE" -> postLinearNE(s, a, x, c, bv_true, FALSE)
        [] t = "LE" -> ge(s, negated(a), -c)
        [] t = "LT" -> ge(s, negated(a), -c + 1)
        [] t = "GE" -> ge(s, a, c)
        [] t = "GT" -> ge(s, a, c + 1)

int_linear_reif(s, a, x, t, c, r) ==
  LET ge(u, b, k, q) == postLinearGE(u, b, x, k, q, TRUE)
      equal(q) == postLinearNE(ge(ge(s, a, c, q), negated(a), -c, q), a, x, c, Not(q), TRUE)
      atLeast(b, k) == ge(ge(s, b, k, r), negated(b), -k + 1, Not(r))
  IN  CASE t = "EQ" -> equal(r)
        [] t = "NE" -> equal(Not(r))
        [] t = "LE" -> atLeast(negated(a), -c)
        [] t = "LT" -> atLeast(negated(a), -c + 1)
        [] t = "GE" -> atLeast(a, c)
        [] t = "GT" -> atLeast(a, c + 1)

int_linear(s, a, x, t, c, r) ==
  LET on == isTrue(s, r)
      unit == Range(a) \subseteq {-1, 1}
      one == unit /\ Len(x) = 1
      sum == unit /\ Len(x) = 2 /\ a[1] = a[2] /\ on /\ t # "NE"
      difference == unit /\ Len(x) = 2 /\ a[1] # a[2]
      u == IF a[1] = 1 THEN t ELSE opposite(t)
      first == IF a[1] = 1 THEN x[1] ELSE x[2]
      second == IF a[1] = 1 THEN x[2] ELSE x[1]
  IN  CASE one /\ on -> int_rel_const(s, x[1], u, a[1] * c)
        [] one /\ ~ on -> int_rel_reif_real(s, x[1], u, a[1] * c, r)
        [] sum -> bin_linear(s, x[1], x[2], u, a[1] * c)
        [] difference /\ on -> int_rel(s, first, t, second, c)
        [] difference /\ ~ on -> int_rel_reif(s, first, t, second, r, c)
        [] OTHER -> IF on THEN linear(s, a, x, t, c) ELSE int_linear_reif(s, a, x, t, c, r)

(***************************************************************************)
(* z = x + y, z = x - y, y = -x, and y the integer of the Boolean r.       *)
(***************************************************************************)
int_plus(s, x, y, z) == int_linear(s, <<1, 1, -1>>, <<x, y, z>>, "EQ", 0, bv_true)
int_minus(s, x, y, z) == int_plus(s, y, z, x)
int_negate(s, x, y) == bin_linear(s, x, y, "EQ", 0)

bool2int(s, r, y) ==
  LET s1 == int_rel_const(int_rel_const(s, y, "GE", 0), y, "LE", 1)
  IN  bool_rel(s1, r, BRT_EQ, GE(s1, y, 1))

=============================================================================
