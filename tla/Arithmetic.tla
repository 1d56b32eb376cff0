----------------------------- MODULE Arithmetic -----------------------------
(***************************************************************************)
(* The propagators of the arithmetic constraints and what is posted for    *)
(* them.  propagateC(s, p) is what propagate() of class C makes of the     *)
(* store s, p being the propagator with its views.                         *)
(***************************************************************************)
EXTENDS Views

least(S) == Min(S)
greatest(S) == Max(S)

(***************************************************************************)
(* y = |x|                                                                 *)
(***************************************************************************)
propagateAbs(s, p) ==
  LET x == p.x
      y == p.y
      l == getMin(s, x)
      u == getMax(s, x)
      onY == IF l >= 0
             THEN setMax(setMin(s, y, l, {getMinLit(s, x)}), y, u, bounds(s, x))
             ELSE IF u <= 0
                  THEN setMax(setMin(s, y, -u, {getMaxLit(s, x)}), y, -l, bounds(s, x))
                  ELSE setMax(s, y, greatest({-l, u}), bounds(s, x))
      above(t) == setMax(t, x, getMax(t, y), {getMaxLit(t, y)})
      below(t, m) == setMin(t, x, -m, {getMaxLit(t, y)})
      onX(t) == below(above(t), getMax(t, y))
  IN  onX(onY)

int_abs(s, x, y) ==
  LET s1 == setAtRoot(s, GE(s, y, 0))
  IN  post(s1, [kind |-> "Abs", x |-> x, y |-> y,
                on |-> <<On(x, LU), On(y, {"U"})>>], <<>>)

(***************************************************************************)
(* z = x ^ y for x >= 0 and y > 0.  The code computes roots and logarithms *)
(* in floating point and puts them right by one; here they are exact, as   *)
(* the logarithms of base 2 in the instances are.  Rounding of other       *)
(* numbers is left out: a bound may come out one weaker than here, and     *)
(* that of powerOnY for z = x ^ y one tighter.                             *)
(***************************************************************************)
my_pow(base, exponent) == base ^ exponent

caseZero(s, x, z) ==
  LET zero(t, u, w) == IF getMax(t, u) = 0 THEN setMax(t, w, 0, {getMaxLit(t, u)}) ELSE t
  IN  zero(zero(s, x, z), z, x)

caseOne(s, x, z) ==
  LET one(t, u, w) ==
        IF getMin(t, u) = 1 /\ getMax(t, u) = 1
        THEN LET why == {getMinLit(t, u), getMaxLit(t, u)}
             IN  setMin(setMax(t, w, 1, why), w, 1, why)
        ELSE t
  IN  one(one(s, x, z), z, x)

powerOnZ(s, x, y, z) ==
  LET atLeast(t) == setMin(t, z, my_pow(getMin(t, x), getMin(t, y)), {getMinLit(t, x), getMinLit(t, y)})
      atMost(t) == setMax(t, z, my_pow(getMax(t, x), getMax(t, y)), {getMaxLit(t, x), getMaxLit(t, y)})
  IN  atMost(atLeast(s))

powerOnX(s, x, y, z) ==
  LET low == least({n \in 0 .. getMin(s, z) : my_pow(n, getMax(s, y)) >= getMin(s, z)})
      raised == IF low > getMin(s, x) THEN setMin(s, x, low, {getMinLit(s, z), getMaxLit(s, y)}) ELSE s
      high(t) == greatest({n \in 0 .. getMax(t, z) : my_pow(n, getMin(t, y)) <= getMax(t, z)})
      lowered(t, n) == IF n < getMax(t, x) THEN setMax(t, x, n, {getMaxLit(t, z), getMinLit(t, y)}) ELSE t
      then(t) == lowered(t, high(t))
  IN  then(raised)

powerOnY(s, x, y, z) ==
  LET low == least({n \in 0 .. getMin(s, z) : my_pow(getMax(s, x), n) >= getMin(s, z)})
      raised == IF getMin(s, z) > 0 /\ getMax(s, x) > 1 /\ low > getMin(s, y)
                THEN setMin(s, y, low, {getMinLit(s, z), getMaxLit(s, x)})
                ELSE s
      high(t) == greatest({n \in 0 .. getMax(t, z) : my_pow(getMin(t, x), n) <= getMax(t, z)})
      then(t) ==
        IF getMin(t, x) > 1 /\ high(t) < getMax(t, y)
        THEN \* the bound is found for y, one too high, and set on x
             setMax(t, x, high(t) + 1, {getMaxLit(t, z), getMinLit(t, x)})
        ELSE t
  IN  then(raised)

propagatePowerPos(s, p) ==
  LET Then(t, Step(_)) == IF t.failed THEN t ELSE Step(t)
  IN  Then(Then(Then(Then(caseZero(s, p.x, p.z),
                          LAMBDA t : caseOne(t, p.x, p.z)),
                     LAMBDA t : powerOnZ(t, p.x, p.y, p.z)),
                LAMBDA t : powerOnX(t, p.x, p.y, p.z)),
           LAMBDA t : powerOnY(t, p.x, p.y, p.z))

int_pow(s, x, y, z) ==
  LET s1 == setAtRoot(s, GE(s, z, 0))
  IN  post(s1, [kind |-> "PowerPos", x |-> x, y |-> y, z |-> z,
                on |-> <<On(x, LU), On(y, LU), On(z, LU)>>], <<>>)

(***************************************************************************)
(* x * y = z with any signs.                                               *)
(***************************************************************************)
productOnZ(s, x, y, z) ==
  LET ends(w) == {getMin(s, w), getMax(s, w)}
      products == {m * n : m \in ends(x), n \in ends(y)}
      why == bounds(s, x) \cup bounds(s, y)
  IN  setMax(setMin(s, z, least(products), why), z, greatest(products), why)

\* Read before any change: the bounds of v, read here, may be older than
\* those that the explanation names.
productOnFactor(s, u, v, z, vmin, vmax, zmin, zmax) ==
  LET why == bounds(s, v) \cup bounds(s, z)
      spread == {zmin, -zmin, zmax, -zmax}
      lowest == IF vmax < 0
                THEN IF zmin > 0
                     THEN quot(zmax - vmax - 1, vmax)
                     ELSE quot(-zmax - vmin - 1, -vmin)
                ELSE IF vmin > 0
                     THEN IF zmin > 0
                          THEN quot(zmin + vmax - 1, vmax)
                          ELSE quot(-zmin + vmin - 1, -vmin)
                     ELSE least(spread)
      highest == IF vmin < 0 /\ vmax > 0
                 THEN greatest(spread)
                 ELSE quot(IF vmax < 0 THEN zmin ELSE zmax, IF zmin > 0 THEN vmin ELSE vmax)
      off(k, other) == IF k = 0 THEN other ELSE k
      raised == IF lowest > getMin(s, u) THEN setMin(s, u, off(lowest, 1), why) ELSE s
      lowered(t) == IF t.failed \/ highest >= getMax(t, u)
                    THEN t
                    ELSE setMax(t, u, off(highest, -1), bounds(t, v) \cup bounds(t, z))
  IN  lowered(raised)

onFactor(s, u, v, z, vmin, vmax, zmin, zmax) ==
  LET nonZero(far) == IF vmin = 0
                      THEN setMin(s, v, 1, {far, getMinLit(s, v)})
                      ELSE IF vmax = 0
                           THEN setMax(s, v, -1, {far, getMaxLit(s, v)})
                           ELSE productOnFactor(s, u, v, z, vmin, vmax, zmin, zmax)
  IN  IF s.failed
      THEN s
      ELSE IF zmin = 0 /\ zmax = 0
           THEN IF vmin > 0 \/ vmax < 0
                THEN LET why == bounds(s, v) \cup bounds(s, z)
                     IN  setMax(setMin(s, u, 0, why), u, 0, why)
                ELSE s
           ELSE IF zmin > 0 \/ zmax < 0
                THEN nonZero(IF zmin > 0 THEN getMinLit(s, z) ELSE getMaxLit(s, z))
                ELSE s

propagateTimesAll(s, p) ==
  LET x == p.x
      y == p.y
      z == p.z
      onFactors(t, zmin, zmax) ==
        onFactor(onFactor(t, x, y, z, getMin(s, y), getMax(s, y), zmin, zmax),
                 y, x, z, getMin(s, x), getMax(s, x), zmin, zmax)
      then(t) == onFactors(t, getMin(t, z), getMax(t, z))
  IN  then(productOnZ(s, x, y, z))

(***************************************************************************)
(* x * y = z for x, y, z >= 0.                                             *)
(***************************************************************************)
propagateTimes(s, p) ==
  LET x == p.x
      y == p.y
      z == p.z
      xmin == getMin(s, x)  xmax == getMax(s, x)
      ymin == getMin(s, y)  ymax == getMax(s, y)
      zmin == getMin(s, z)  zmax == getMax(s, z)
      onZ(t) == setMax(t, z, xmax * ymax, {getMaxLit(t, x), getMaxLit(t, y)})
      atLeast(t, u, v, vmax) ==
        IF vmax >= 1
        THEN setMin(t, u, (zmin + vmax - 1) \div vmax, {getMaxLit(t, v), getMinLit(t, z)})
        ELSE t
      atMost(t, u, v, vmin) ==
        IF vmin >= 1
        THEN setMax(t, u, zmax \div vmin, {getMinLit(t, v), getMaxLit(t, z)})
        ELSE t
      s1 == onZ(setMin(s, z, xmin * ymin, {getMinLit(s, x), getMinLit(s, y)}))
      s2 == atMost(atLeast(s1, x, y, ymax), x, y, ymin)
  IN  atMost(atLeast(s2, y, x, xmax), y, x, xmin)

get_sign(s, x) ==
  IF getMin(s, x) >= 0 THEN 1 ELSE IF getMax(s, x) <= 0 THEN -1 ELSE 0

\* The views that make what has sign g non-negative
flipped(x, g) == IF g = -1 THEN minus(x) ELSE x

int_times(s, x, y, z) ==
  LET gx == get_sign(s, x)
      gy == get_sign(s, y)
      gz == get_sign(s, z)
      one == gx # 0 /\ gy # 0 /\ gx * gy = gz
      u == IF one THEN flipped(x, gx) ELSE x
      v == IF one THEN flipped(y, gy) ELSE y
      w == IF one THEN flipped(z, gz) ELSE z
  IN  post(s, [kind |-> IF one THEN "Times" ELSE "TimesAll", x |-> u, y |-> v, z |-> w,
               on |-> <<On(u, LU), On(v, LU), On(w, LU)>>], <<>>)

(***************************************************************************)
(* ceil(x / y) = z for x, z >= 0 and y >= 1.                               *)
(***************************************************************************)
propagateDivide(s, p) ==
  LET x == p.x
      y == p.y
      z == p.z
      xmin == getMin(s, x)  xmax == getMax(s, x)
      ymin == getMin(s, y)  ymax == getMax(s, y)
      zmin == getMin(s, z)  zmax == getMax(s, z)
      zAbove(t) == setMin(t, z, quot(xmin + ymax - 1, ymax), {getMinLit(t, x), getMaxLit(t, y)})
      zBelow(t) == setMax(t, z, quot(xmax + ymin - 1, ymin), {getMaxLit(t, x), getMinLit(t, y)})
      xAbove(t) == setMin(t, x, ymin * (zmin - 1) + 1, {getMinLit(t, y), getMinLit(t, z)})
      xBelow(t) == setMax(t, x, ymax * zmax, {getMaxLit(t, y), getMaxLit(t, z)})
      yAbove(t) == IF zmax < 1 THEN t
                   ELSE setMin(t, y, quot(xmin + zmax - 1, zmax), {getMinLit(t, x), getMaxLit(t, z)})
      yBelow(t) == IF zmin < 2 THEN t
                   ELSE setMax(t, y, quot(xmax + zmin - 2, zmin - 1) - 1, {getMaxLit(t, x), getMinLit(t, z)})
  IN  yBelow(yAbove(xBelow(xAbove(zBelow(zAbove(s))))))

\* z = floor(x / y) for x, y, z of a known sign:
\*   ceil((x + 1) / y) = z + 1       for x, y, z >= 0,
\*   ceil(x / -y) = -z               for y, z <= 0,
\*   ceil(-x / y) = -z               for x, z <= 0,
\*   ceil((-x + 1) / -y) = z + 1     for x, y <= 0.
int_div(s, x, y, z) ==
  LET gx == get_sign(s, x)
      gy == get_sign(s, y)
      same == gx = gy
      u == plus(times(x, gx), IF same THEN 1 ELSE 0)
      v == times(y, gy)
      w == IF same THEN plus(z, 1) ELSE minus(z)
  IN  post(s, [kind |-> "Divide", x |-> u, y |-> v, z |-> w,
               on |-> <<On(u, LU), On(v, LU), On(w, LU)>>], <<>>)

(***************************************************************************)
(* z = min(x, y), and with minus views z = max(x, y).                      *)
(***************************************************************************)
minKnown(s, p) == getMin(s, p.z) \in {getMax(s, p.x), getMax(s, p.y)}

propagateMin2(s, p) ==
  LET x == p.x
      y == p.y
      z == p.z
      below(t, u, v) == setMax(t, u, getMax(t, v), {getMaxLit(t, v)})
      above(t, u, v) == setMin(t, u, getMin(t, v), {getMinLit(t, v)})
      aboveBoth(t, m) == setMin(t, z, m, {getFMinLit(t, x, m), getFMinLit(t, y, m)})
      onZ(t) == aboveBoth(t, least({getMin(t, x), getMin(t, y)}))
      done(t) == IF ~ t.failed /\ minKnown(t, p) THEN [t EXCEPT !.satisfied = @ \cup {p.id}] ELSE t
  IN  done(above(above(onZ(below(below(s, z, x), z, y)), x, z), y, z))

postMin2(s, x, y, z) ==
  post(s, [kind |-> "Min2", x |-> x, y |-> y, z |-> z,
           on |-> <<On(x, LU), On(y, LU), On(z, {"L"})>>], <<>>)

int_min(s, x, y, z) == postMin2(s, x, y, z)
int_max(s, x, y, z) == postMin2(s, minus(x), minus(y), minus(z))

(***************************************************************************)
(* y lies between 1 and the number of values from the least to the         *)
(* greatest of x.                                                          *)
(***************************************************************************)
propagateRangeSize(s, p) ==
  LET upTo(t) == setMax(t, p.y, getMax(t, p.x) - getMin(t, p.x) + 1, bounds(t, p.x))
  IN  upTo(setMin(s, p.y, 1, {getMinLit(s, p.y)}))

range_size(s, x, y) ==
  post(s, [kind |-> "RangeSize", x |-> x, y |-> y, on |-> <<On(x, LU)>>], <<>>)

=============================================================================
