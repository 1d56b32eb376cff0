------------------------------ MODULE IntVarLL ------------------------------
(* An integer variable with lazy literals (vars/int-var-ll.cpp): bounds only, *)
(* and a sorted doubly linked list of the bound literals that someone asked   *)
(* for.  The list is not trailed, a literal once made stays; the two places   *)
(* in it where the bounds are, li and hi, are.                                *)
(*                                                                            *)
(* A call is one action.  What it does is written as functions of a record of *)
(* the variables it changes, because setVal is setMin followed by setMax.     *)
EXTENDS Integers, Sequences, FiniteSets

CONSTANTS
  min0, max0,  \* initial bounds
  MaxLevel     \* bound: deepest decision level

VARIABLES
  x,         \* the variable: [ld, li, hi, min, max, trail, changes]
  confl,     \* sat.confl: {} or a clause
  in_queue,  \* whether v_queue has the variable
  past       \* what each open level started from

vars == <<x, confl, in_queue, past>>

Value == min0 .. max0
dom == x.min .. x.max

(* Literals: of node n, [x >= val + 1] and [x <= val]; of no node, "fixed". *)
ge(n) == <<n, TRUE>>
le(n) == <<n, FALSE>>
valLit == <<0, TRUE>>
Constant(b) == <<-1, b>>
neg(l) == <<l[1], ~ l[2]>>

Given == {Constant(FALSE)}
entry(l, r) == [lit |-> l, reason |-> r]

assigns == {x.trail[i].lit : i \in DOMAIN x.trail}
isTrue(l) == l \in assigns
isFalse(l) == neg(l) \in assigns
isUndef(l) == ~ isTrue(l) /\ ~ isFalse(l)

(* The constructor; the literals of the two ends are constants of the solver. *)
Init ==
  /\ x = [ld |-> <<[val |-> min0 - 1, prev |-> -1, next |-> 2],
                   [val |-> max0, prev |-> 1, next |-> -1]>>,
          li |-> 1, hi |-> 2, min |-> min0, max |-> max0,
          trail |-> <<entry(ge(1), {}), entry(le(2), {})>>
                    \o IF min0 = max0 THEN <<entry(valLit, {})>> ELSE <<>>,
          changes |-> {"C", "L", "U"} \cup IF min0 = max0 THEN {"F"} ELSE {}]
  /\ confl = {} /\ in_queue = TRUE /\ past = <<>>

-----------------------------------------------------------------------------
(* The walk of getGELit: from li up to the first node not below prev. *)
reached(s, prev) ==
  LET up[n \in DOMAIN s.ld] == IF s.ld[n].val < prev THEN up[s.ld[n].next] ELSE n
  IN up[s.li]

inserted(s, ni, prev) ==
  LET mi == Len(s.ld) + 1
      before == s.ld[ni].prev
      more == Append(s.ld, [val |-> prev, prev |-> before, next |-> ni])
  IN [s EXCEPT !.ld = [more EXCEPT ![ni].prev = mi, ![before].next = mi]]

(* getGELit: with the node of [x >= v], made when there was none. *)
withGE(s, v) ==
  IF v > s.max \/ s.ld[reached(s, v - 1)].val = v - 1 THEN s
  ELSE inserted(s, reached(s, v - 1), v - 1)

getGELit(s, v) == IF v > s.max THEN ge(s.hi) ELSE ge(reached(withGE(s, v), v - 1))

withLE(s, v) == IF v < s.min THEN s ELSE withGE(s, v + 1)
getLELit(s, v) == IF v < s.min THEN le(s.li) ELSE neg(getGELit(s, v + 1))

(* The literals [x >= .] below the new bound, by p; li moves to it. *)
channelMin(s, v, p) ==
  LET up[n \in DOMAIN s.ld] ==
        IF s.ld[n].val < v - 1 THEN <<entry(ge(n), {neg(p)})>> \o up[s.ld[n].next] ELSE <<>>
  IN up[s.ld[s.li].next]

channelMax(s, v, p) ==
  LET down[n \in DOMAIN s.ld] ==
        IF s.ld[n].val > v THEN <<entry(le(n), {neg(p)})>> \o down[s.ld[n].prev] ELSE <<>>
  IN down[s.ld[s.hi].prev]

updateFixed(s) ==
  IF s.min # s.max THEN s
  ELSE [s EXCEPT !.trail = Append(@, entry(valLit, {le(s.li), ge(s.hi)})), !.changes = @ \cup {"F"}]

(* setMin(v) and setMax(v) that succeed, the literal of the bound included. *)
raiseMin(s, v) ==
  LET t == withGE(s, v)
      p == getGELit(s, v)
  IN updateFixed([t EXCEPT !.trail = @ \o <<entry(p, Given)>> \o channelMin(t, v, p),
                           !.li = p[1], !.min = v, !.changes = @ \cup {"C", "L"}])

lowerMax(s, v) ==
  LET t == withLE(s, v)
      p == getLELit(s, v)
  IN updateFixed([t EXCEPT !.trail = @ \o <<entry(p, Given)>> \o channelMax(t, v, p),
                           !.hi = p[1], !.max = v, !.changes = @ \cup {"C", "U"}])

(* setVal(v) for a v in the domain: setMin, then setMax. *)
assigned(s, v) ==
  LET t == IF v > s.min THEN raiseMin(s, v) ELSE s
  IN IF v < t.max THEN lowerMax(t, v) ELSE t

-----------------------------------------------------------------------------
changed(s) == x' = s /\ in_queue' = TRUE /\ UNCHANGED confl
fail(l) == confl' = {l} \cup Given /\ UNCHANGED <<x, in_queue>>

(* Calls of propagators and of decisions; the guards are setMinNotR etc. *)
setMin(v) ==
  /\ confl = {} /\ v > x.min
  /\ IF v > x.max THEN fail(getGELit(x, v)) ELSE changed(raiseMin(x, v))
  /\ UNCHANGED past

setMax(v) ==
  /\ confl = {} /\ v < x.max
  /\ IF v < x.min THEN fail(getLELit(x, v)) ELSE changed(lowerMax(x, v))
  /\ UNCHANGED past

setVal(v) ==
  /\ confl = {} /\ (v # x.min \/ v # x.max)
  /\ \/ v > x.max /\ fail(getGELit(x, v))
     \/ v < x.min /\ fail(getLELit(x, v))
     \/ v \in dom /\ changed(assigned(x, v))
  /\ UNCHANGED past

(* SAT::enqueue of the open literal of node n, then IntVar::channel. *)
channel(n) ==
  /\ confl = {} /\ isUndef(ge(n))
  /\ \/ changed(raiseMin(x, x.ld[n].val + 1))
     \/ changed(lowerMax(x, x.ld[n].val))
  /\ UNCHANGED past

(* A propagator wants a literal for an explanation; for a value beyond the     *)
(* bounds it gets a constant and none is made.                                *)
getLit(v, rel) ==
  /\ v \in dom
  /\ x' = IF rel = "GE" THEN withGE(x, v) ELSE withLE(x, v)
  /\ UNCHANGED <<confl, in_queue, past>>

wakePropagators ==
  /\ confl = {} /\ in_queue
  /\ x' = [x EXCEPT !.changes = {}] /\ in_queue' = FALSE
  /\ UNCHANGED <<confl, past>>

newDecisionLevel ==
  /\ confl = {} /\ ~ in_queue /\ Len(past) < MaxLevel
  /\ past' = Append(past, [li |-> x.li, hi |-> x.hi, min |-> x.min, max |-> x.max,
                           len |-> Len(x.trail)])
  /\ UNCHANGED <<x, confl, in_queue>>

(* Mutant: li is an ordinary int. *)
restoredButLi(then) ==
  [x EXCEPT !.hi = then.hi, !.min = then.min, !.max = then.max,
            !.trail = SubSeq(@, 1, then.len), !.changes = {}]

(* The trail brings back all but the list. *)
restored(then) ==
  [x EXCEPT !.li = then.li, !.hi = then.hi, !.min = then.min, !.max = then.max,
            !.trail = SubSeq(@, 1, then.len), !.changes = {}]

btToLevel(l) ==
  /\ l < Len(past)
  /\ x' = restored(past[l + 1])
  /\ past' = SubSeq(past, 1, l)
  /\ confl' = {} /\ in_queue' = FALSE

unsatisfiable == confl # {} /\ past = <<>> /\ UNCHANGED vars

Next ==
  \/ \E v \in min0 - 1 .. max0 + 1 : setMin(v) \/ setMax(v) \/ setVal(v)
  \/ \E n \in DOMAIN x.ld : channel(n)
  \/ \E v \in Value, rel \in {"GE", "LE"} : getLit(v, rel)
  \/ wakePropagators
  \/ newDecisionLevel
  \/ \E l \in 0 .. Len(past) - 1 : btToLevel(l)
  \/ unsatisfiable

Spec == Init /\ [][Next]_vars

-----------------------------------------------------------------------------
Nodes == DOMAIN x.ld
Lit == ({0} \cup Nodes) \X BOOLEAN

TypeOK ==
  /\ x.min \in Value /\ x.max \in Value /\ x.min <= x.max
  /\ \A n \in Nodes : x.ld[n].val \in min0 - 1 .. max0
  /\ x.li \in Nodes /\ x.hi \in Nodes
  /\ \A i \in DOMAIN x.trail :
       x.trail[i].lit \in Lit /\ x.trail[i].reason \subseteq Lit \cup Given
  /\ x.changes \subseteq {"C", "L", "U", "F"} /\ in_queue \in BOOLEAN
  /\ confl \subseteq Lit \cup {Constant(b) : b \in BOOLEAN}
  /\ Len(past) <= MaxLevel

(* The list runs from the lower to the upper end in increasing order, both    *)
(* ways, and a value has one node only: one literal per meaning.              *)
ListSorted ==
  /\ \A n \in Nodes \ {2} : x.ld[n].next \in Nodes /\ x.ld[n].val < x.ld[x.ld[n].next].val
                            /\ x.ld[x.ld[n].next].prev = n
  /\ \A n \in Nodes \ {1} : x.ld[n].prev \in Nodes /\ x.ld[x.ld[n].prev].next = n
  /\ \A m, n \in Nodes : x.ld[m].val = x.ld[n].val => m = n

(* The trailed places mark the bounds, whatever was put in the list since the *)
(* level they come back from: getMinLit and getMaxLit, the explanations of    *)
(* the bounds, are read there.                                                *)
PlacesMarkBounds == x.ld[x.li].val = x.min - 1 /\ x.ld[x.hi].val = x.max

(* Types, the list, and the places kept in it. *)
ListMarksBounds == TypeOK /\ ListSorted /\ PlacesMarkBounds

(* Domain and literals agree, for literals made at any level: those beyond    *)
(* the bounds are set, the others open, and "fixed" is set with one value.    *)
LiteralsAgree ==
  /\ \A n \in Nodes : /\ isTrue(ge(n)) <=> x.ld[n].val < x.min
                      /\ isFalse(ge(n)) <=> x.ld[n].val >= x.max
  /\ isTrue(valLit) <=> x.min = x.max

Says(l, d) == IF l[1] > 0 THEN (d > x.ld[l[1]].val) = l[2] ELSE l[2]

(* What cEnqueue is given: a literal that is neither true nor false (its       *)
(* assertion), for a reason that is a law of integers made of literals false   *)
(* before; the one of "fixed" leaves a single value.  And what a failing call  *)
(* reports is false (checkConflict).                                          *)
EnqueuedRightly ==
  /\ \A i \in DOMAIN x.trail :
       LET e == x.trail[i]
           before == {x.trail[j].lit : j \in 1 .. i - 1}
       IN /\ e.lit \notin before /\ neg(e.lit) \notin before
          /\ e.reason # {} /\ e.reason # Given =>
               /\ \A l \in e.reason : neg(l) \in before
               /\ IF e.lit = valLit
                  THEN Cardinality({d \in Value : ~ \E l \in e.reason : Says(l, d)}) = 1
                  ELSE \A d \in Value : \E l \in e.reason \cup {e.lit} : Says(l, d)
  /\ \A l \in confl \ Given : isFalse(l)
=============================================================================
