------------------------------- MODULE Views -------------------------------
(***************************************************************************)
(* What a propagator is given to work with: views of integer variables,    *)
(* literals, and changes of domains that carry an explanation.             *)
(*                                                                         *)
(* A store s is a record of                                                *)
(*   init      the domains the variables start with,                       *)
(*   dom       the domains now,                                            *)
(*   props     the propagators that were posted, a sequence of records,    *)
(*   clauses   the clauses that were posted, a set of sets of literals,    *)
(*   kept      what each propagator remembers, a sequence of records,      *)
(*   satisfied the propagators that found themselves redundant,            *)
(*   queued    the propagators that wait to run,                           *)
(*   failed    whether the last change emptied a domain,                   *)
(*   log       the changes of the last step, each with its explanation.    *)
(* Eager integer variables have any set of values, lazy ones intervals:    *)
(* what follows covers both.  Booleans are variables with values 0 and 1.  *)
(***************************************************************************)
EXTENDS Integers, Sequences, FiniteSets, FiniteSetsExt, SequencesExt

(***************************************************************************)
(* A view shows the value a * d + b of variable v.  The template argument  *)
(* of IntView (minus, scale, offset) is the sign of a, a and b.            *)
(***************************************************************************)
View(v, a, b) == [v |-> v, a |-> a, b |-> b]
times(x, k) == View(x.v, k * x.a, k * x.b)
plus(x, k) == View(x.v, x.a, x.b + k)
minus(x) == times(x, -1)

val(x, d) == x.a * d + x.b

getMin(s, x) == val(x, IF x.a > 0 THEN Min(s.dom[x.v]) ELSE Max(s.dom[x.v]))
getMax(s, x) == val(x, IF x.a > 0 THEN Max(s.dom[x.v]) ELSE Min(s.dom[x.v]))
isFixed(s, x) == Cardinality(s.dom[x.v]) = 1
getVal(s, x) == getMin(s, x)
indomain(s, x, k) == \E d \in s.dom[x.v] : val(x, d) = k
values(s, x) == {val(x, d) : d \in s.dom[x.v]}

(***************************************************************************)
(* A literal says which of its values a variable may have.                 *)
(***************************************************************************)
Literal(v, in, all) == [v |-> v, in |-> in, out |-> all \ in]
Not(p) == [p EXCEPT !.in = p.out, !.out = p.in]

Where(s, x, Says(_)) ==
  Literal(x.v, {d \in s.init[x.v] : Says(val(x, d))}, s.init[x.v])

GE(s, x, k) == Where(s, x, LAMBDA w : w >= k)
LE(s, x, k) == Where(s, x, LAMBDA w : w <= k)
EQ(s, x, k) == Where(s, x, LAMBDA w : w = k)
NE(s, x, k) == Where(s, x, LAMBDA w : w # k)

isTrue(s, p) == s.dom[p.v] \subseteq p.in
isFalse(s, p) == s.dom[p.v] \cap p.in = {}
isSet(s, p) == isTrue(s, p) \/ isFalse(s, p)

Bool(v) == [v |-> v, in |-> {1}, out |-> {0}]
bv_true == [v |-> "T", in |-> {1}, out |-> {}]
bv_false == Not(bv_true)
getConstant(k) == View("T", 1, k - 1) \* T has the value 1

(***************************************************************************)
(* The premises of an explanation.  The code writes the literals that are  *)
(* false, here stand their negations, which are true.                      *)
(***************************************************************************)
getMinLit(s, x) == GE(s, x, getMin(s, x))
getMaxLit(s, x) == LE(s, x, getMax(s, x))
getValLit(s, x) == EQ(s, x, getVal(s, x))
getFMinLit(s, x, k) == GE(s, x, k)
getFMaxLit(s, x, k) == LE(s, x, k)
valLit(s, p) == IF isTrue(s, p) THEN p ELSE Not(p)

(***************************************************************************)
(* A change of a domain, explained by the premises why.  A change that     *)
(* says nothing new is not made, one that empties the domain is a conflict *)
(* and ends the propagation: nothing after it is done.                     *)
(***************************************************************************)
setLit(s, p, why) ==
  IF s.failed \/ isTrue(s, p)
  THEN s
  ELSE [s EXCEPT
          !.log = @ \cup {[head |-> p, why |-> why,
                           held |-> \A q \in why : isTrue(s, q)]},
          !.failed = isFalse(s, p),
          !.dom[p.v] = IF isFalse(s, p) THEN @ ELSE @ \cap p.in]

setMin(s, x, k, why) == setLit(s, GE(s, x, k), why)
setMax(s, x, k, why) == setLit(s, LE(s, x, k), why)
setVal(s, x, k, why) == setLit(s, EQ(s, x, k), why)
remVal(s, x, k, why) == setLit(s, NE(s, x, k), why)

(***************************************************************************)
(* Posting.  A change at the root needs no explanation.  A propagator is a *)
(* record with its kind, its arguments and the list on of what it is       *)
(* attached to: [x, flags] for a view, [p, flags] for a literal.           *)
(***************************************************************************)
setAtRoot(s, p) ==
  IF isFalse(s, p) THEN [s EXCEPT !.failed = TRUE] ELSE [s EXCEPT !.dom[p.v] = @ \cap p.in]

addClause(s, ps) == [s EXCEPT !.clauses = @ \cup {ps}]

On(x, flags) == [x |-> x, flags |-> flags]
post(s, prop, kept) ==
  [s EXCEPT !.props = Append(@, [id |-> Len(@) + 1] @@ prop), !.kept = Append(@, kept)]

\* Mutant: a propagator is queued by the number of the next one.
pushNext(s, i) == [s EXCEPT !.queued = @ \cup {i + 1}]

pushInQueue(s, i) == [s EXCEPT !.queued = @ \cup {i}]

LU == {"L", "U"}

\* The premises that name the bounds of x, and the values of a set of views
bounds(s, x) == {getMinLit(s, x), getMaxLit(s, x)}
valuesHeld(s, xs) == {getValLit(s, x) : x \in xs}

(***************************************************************************)
(* The events of a change of a domain from old to new, as a view or a      *)
(* literal sees them (a view with a minus swaps L and U).                  *)
(***************************************************************************)
isLiteral(x) == "in" \in DOMAIN x

eventsOf(x, old, new) ==
  IF isLiteral(x)
  THEN {e \in {"L", "U", "F"} :
          \/ e # "U" /\ new \subseteq x.in /\ ~ (old \subseteq x.in)
          \/ e # "L" /\ new \cap x.in = {} /\ old \cap x.in # {}}
  ELSE LET up == Min(new) > Min(old)
           down == Max(new) < Max(old)
       IN  {e \in {"C", "L", "U", "F"} :
              \/ e = "C" /\ new # old
              \/ e = "L" /\ IF x.a > 0 THEN up ELSE down
              \/ e = "U" /\ IF x.a > 0 THEN down ELSE up
              \/ e = "F" /\ Cardinality(new) = 1 /\ Cardinality(old) > 1}

(***************************************************************************)
(* Division of C, which rounds towards zero.                               *)
(***************************************************************************)
quot(m, n) ==
  LET abs(k) == IF k < 0 THEN -k ELSE k
      q == abs(m) \div abs(n)
  IN  IF (m < 0) = (n < 0) THEN q ELSE -q

=============================================================================
