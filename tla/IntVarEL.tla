------------------------------ MODULE IntVarEL ------------------------------
(* An integer variable with eager literals (vars/int-var-el.cpp): bounds,    *)
(* holes, one literal [x = v] and one [x >= v] per value, and the channelling *)
(* between them that explains each literal by others.                        *)
(*                                                                           *)
(* A propagator changes the domain and the literals follow (cEnqueue); the   *)
(* SAT solver makes a literal true and the domain follows (channel).  Either *)
(* way one call leaves both in step, so a call is one action; the order in   *)
(* which it enqueues is kept, conflict analysis depends on it.               *)
EXTENDS Integers, Sequences, SequencesExt

CONSTANTS
  lit_min, lit_max,  \* values that have literals
  MaxLevel           \* bound: deepest decision level

VARIABLES
  min, max, vals,    \* bounds; values not removed singly: in the domain when between the bounds
  trail,             \* the variable's literals on sat.trail, with their reasons
  confl,             \* sat.confl: {} or a clause
  changes, in_queue, \* events to tell the propagators, and whether v_queue has the variable
  past               \* what each open level started from

vars == <<min, max, vals, trail, confl, changes, in_queue, past>>

Value == lit_min .. lit_max
dom == vals \cap min .. max

(* Literals; lit_True and lit_False stand in beyond the ends. *)
GE(v) == <<"ge", v, TRUE>>
LE(v) == <<"ge", v + 1, FALSE>>
EQ(v) == <<"eq", v, TRUE>>
NE(v) == <<"eq", v, FALSE>>
Constant(b) == <<"true", 0, b>>
neg(l) == <<l[1], l[2], ~ l[3]>>
BoundLits == {GE(v) : v \in lit_min .. lit_max + 1} \cup {LE(v) : v \in lit_min - 1 .. lit_max}
ValueLits == {EQ(v) : v \in Value} \cup {NE(v) : v \in Value}
Lit == BoundLits \cup ValueLits

getLit(v, rel) ==
  CASE v < lit_min -> Constant(rel \in {"NE", "GE"})
    [] v > lit_max -> Constant(rel \in {"NE", "LE"})
    [] v \in Value -> CASE rel = "GE" -> GE(v) [] rel = "LE" -> LE(v)
                        [] rel = "EQ" -> EQ(v) [] rel = "NE" -> NE(v)

(* The reason a caller gives, and the clause (false literals) channelling gives. *)
Given == {Constant(FALSE)}
entry(l, r) == [lit |-> l, reason |-> r]

assigns == {trail[i].lit : i \in DOMAIN trail}
isTrue(l) == l \in assigns
isFalse(l) == neg(l) \in assigns
isUndef(l) == ~ isTrue(l) /\ ~ isFalse(l)

nextIn(S, v) == CHOOSE d \in S : d >= v /\ \A e \in S : e >= v => d <= e
prevIn(S, v) == CHOOSE d \in S : d <= v /\ \A e \in S : e <= v => d >= e

-----------------------------------------------------------------------------
(* initVLits and initBLits on a domain that may have holes. *)
Init ==
  \E D \in SUBSET Value :
    /\ {lit_min, lit_max} \subseteq D
    /\ min = lit_min /\ max = lit_max /\ vals = D
    /\ LET hole(v) == IF v \in D THEN <<>> ELSE <<entry(NE(v), {})>>
       IN trail = FlattenSeq([k \in 1 .. lit_max - lit_min + 1 |-> hole(lit_min + k - 1)])
                  \o (IF lit_min = lit_max THEN <<entry(EQ(lit_min), {})>> ELSE <<>>)
                  \o <<entry(GE(lit_min), {}), entry(LE(lit_max), {})>>
    /\ confl = {} /\ past = <<>> /\ in_queue = TRUE
    /\ changes = {"C", "L", "U"} \cup IF lit_min = lit_max THEN {"F"} ELSE {}

(* The next four give what a call enqueues, in order. *)

(* The literals l and, unless i is a hole, [x # i], both by p. *)
passed(l, i, p) ==
  <<entry(l, {neg(p)})>> \o (IF i \in vals THEN <<entry(NE(i), {neg(p)})>> ELSE <<>>)

(* Mutant: the old minimum is left out. *)
channelMinShort(v) == FlattenSeq([k \in 1 .. v - 1 - min |-> passed(GE(v - k), v - k, GE(v))])

(* [x >= i] and [x # i] for i = v - 1 down to min, by [x >= v]. *)
channelMin(v) ==
  Append(FlattenSeq([k \in 1 .. v - 1 - min |-> passed(GE(v - k), v - k, GE(v))]),
         entry(NE(min), {neg(GE(v))}))

channelMax(v) ==
  Append(FlattenSeq([k \in 1 .. max - v - 1 |-> passed(LE(v + k), v + k, LE(v))]),
         entry(NE(max), {neg(LE(v))}))

(* Holes at the bound lo are skipped, each by [x >= v + 1] \/ [x <= v - 1] \/ [x = v]. *)
updateMin(S, lo) ==
  [k \in 1 .. nextIn(S, lo) - lo |-> entry(GE(lo + k), {LE(lo + k - 2), EQ(lo + k - 1)})]
updateMax(S, hi) ==
  [k \in 1 .. hi - prevIn(S, hi) |-> entry(LE(hi - k), {GE(hi - k + 2), EQ(hi - k + 1)})]

(* Mutant: the explanation of [x = lo] leaves the upper bound out. *)
updateFixedHalf(lo, hi) == IF lo = hi THEN <<entry(EQ(lo), {LE(lo - 1)})>> ELSE <<>>

updateFixed(lo, hi) == IF lo = hi THEN <<entry(EQ(lo), {LE(lo - 1), GE(lo + 1)})>> ELSE <<>>

(* Mutant: a bound that moved over a hole is not told. *)
eventsNoSkip(lo, hi, S, told) == told \cup (IF lo = hi THEN {"F"} ELSE {})

(* What changes gets from the bounds that updateMin, updateMax and updateFixed moved. *)
events(lo, hi, S, told) ==
  told \cup (IF nextIn(S, lo) > lo THEN {"L"} ELSE {})
       \cup (IF prevIn(S, hi) < hi THEN {"U"} ELSE {})
       \cup (IF nextIn(S, lo) = prevIn(S, hi) THEN {"F"} ELSE {})

fail(l) ==
  /\ confl' = {l} \cup Given
  /\ UNCHANGED <<min, max, vals, trail, changes, in_queue>>

tell(new, ev) ==
  /\ trail' = trail \o new
  /\ changes' = changes \cup ev
  /\ in_queue' = TRUE
  /\ UNCHANGED confl

-----------------------------------------------------------------------------
(* The domain operations, once the call is known to succeed. *)

(* Mutant: the bound may be left on a hole. *)
raiseMinToHole(v) ==
  /\ tell(<<entry(GE(v), Given)>> \o channelMin(v), {"C", "L"})
  /\ min' = v
  /\ UNCHANGED <<max, vals>>

raiseMin(v) ==
  LET lo == nextIn(vals, v) IN
  /\ tell(<<entry(GE(v), Given)>> \o channelMin(v) \o updateMin(vals, v) \o updateFixed(lo, max),
          events(v, max, vals, {"C", "L"}))
  /\ min' = lo
  /\ UNCHANGED <<max, vals>>

lowerMax(v) ==
  LET hi == prevIn(vals, v) IN
  /\ tell(<<entry(LE(v), Given)>> \o channelMax(v) \o updateMax(vals, v) \o updateFixed(min, hi),
          events(min, v, vals, {"C", "U"}))
  /\ max' = hi
  /\ UNCHANGED <<min, vals>>

(* channelFix: [x >= v] and [x <= v] by [x = v], then what follows from them. *)
fix(v) ==
  LET up == IF min < v THEN <<entry(GE(v), {NE(v)})>> \o channelMin(v) ELSE <<>>
      down == IF max > v THEN <<entry(LE(v), {NE(v)})>> \o channelMax(v) ELSE <<>>
  IN /\ tell(<<entry(EQ(v), Given)>> \o up \o down,
             {"C", "F"} \cup (IF min < v THEN {"L"} ELSE {}) \cup (IF max > v THEN {"U"} ELSE {}))
     /\ min' = v /\ max' = v
     /\ UNCHANGED vals

remove(v) ==
  LET S == vals \ {v}
      least == nextIn(S, min)
      most == prevIn(S, max)
  IN /\ tell(<<entry(NE(v), Given)>> \o updateMin(S, min) \o updateMax(S, max) \o updateFixed(least, most),
             events(min, max, S, {"C"}))
     /\ vals' = S /\ min' = least /\ max' = most

(* Calls of propagators and of decisions; the guards are setMinNotR etc. *)
setMin(v) ==
  /\ confl = {} /\ v > min
  /\ IF v > max THEN fail(getLit(v, "GE")) ELSE raiseMin(v)
  /\ UNCHANGED past

setMax(v) ==
  /\ confl = {} /\ v < max
  /\ IF v < min THEN fail(getLit(v, "LE")) ELSE lowerMax(v)
  /\ UNCHANGED past

setVal(v) ==
  /\ confl = {} /\ (v # min \/ v # max)
  /\ IF v \notin dom THEN fail(getLit(v, "EQ")) ELSE fix(v)
  /\ UNCHANGED past

remVal(v) ==
  /\ confl = {} /\ v \in dom
  /\ IF min = max THEN fail(getLit(v, "NE")) ELSE remove(v)
  /\ UNCHANGED past

(* SAT::enqueue of an open literal of the variable, then IntVar::channel. *)
channel(l) ==
  /\ confl = {} /\ isUndef(l)
  /\ \E v \in lit_min - 1 .. lit_max + 1 : \/ l = GE(v) /\ raiseMin(v)
                                           \/ l = LE(v) /\ lowerMax(v)
                                           \/ l = EQ(v) /\ fix(v)
                                           \/ l = NE(v) /\ remove(v)
  /\ UNCHANGED past

(* Engine::propagate reaches the variable in v_queue. *)
wakePropagators ==
  /\ confl = {} /\ in_queue
  /\ changes' = {} /\ in_queue' = FALSE
  /\ UNCHANGED <<min, max, vals, trail, confl, past>>

newDecisionLevel ==
  /\ confl = {} /\ ~ in_queue /\ Len(past) < MaxLevel
  /\ past' = Append(past, [min |-> min, max |-> max, vals |-> vals, len |-> Len(trail)])
  /\ UNCHANGED <<min, max, vals, trail, confl, changes, in_queue>>

(* A conflict, here or elsewhere, or a restart: clearPropState, then the trail *)
(* brings the domain and the literals back.  The restart that switches to      *)
(* VSIDS follows a backjump and leaves the queue as it is.                     *)
btToLevel(l) ==
  /\ l < Len(past)
  /\ LET then == past[l + 1] IN
     /\ min' = then.min /\ max' = then.max /\ vals' = then.vals
     /\ trail' = SubSeq(trail, 1, then.len)
  /\ past' = SubSeq(past, 1, l)
  /\ confl' = {}
  /\ \/ changes' = {} /\ in_queue' = FALSE
     \/ confl = {} /\ l = 0 /\ UNCHANGED <<changes, in_queue>>

(* Without a level to go back to the problem has no solution: the search ends. *)
unsatisfiable == confl # {} /\ past = <<>> /\ UNCHANGED vars

Next ==
  \/ \E v \in lit_min - 1 .. lit_max + 1 : setMin(v) \/ setMax(v) \/ setVal(v) \/ remVal(v)
  \/ \E l \in Lit : channel(l)
  \/ wakePropagators
  \/ newDecisionLevel
  \/ \E l \in 0 .. Len(past) - 1 : btToLevel(l)
  \/ unsatisfiable

Spec == Init /\ [][Next]_vars

-----------------------------------------------------------------------------
Clause == SUBSET (Lit \cup {Constant(b) : b \in BOOLEAN})

(* Type invariant (part of LiteralsAgree); the bounds are always values left. *)
TypeOK ==
  /\ vals \subseteq Value /\ min \in vals /\ max \in vals /\ min <= max
  /\ \A i \in DOMAIN trail : trail[i].lit \in Lit /\ trail[i].reason \in Clause
  /\ confl \in Clause
  /\ changes \subseteq {"C", "L", "U", "F"} /\ in_queue \in BOOLEAN
  /\ Len(past) <= MaxLevel

(* What a literal says of the value d. *)
Says(l, d) ==
  CASE l[1] = "ge"   -> (d >= l[2]) = l[3]
    [] l[1] = "eq"   -> (d = l[2]) = l[3]
    [] l[1] = "true" -> l[3]

(* Domain and literals are two views of one fact: a literal is true when all  *)
(* values left satisfy it, false when none does, open otherwise.  It is what  *)
(* getMinLit, getMaxLit and getValLit rely on in every explanation.           *)
LiteralsAgree == TypeOK /\ \A l \in Lit : isTrue(l) <=> \A d \in dom : Says(l, d)

(* What cEnqueue is given: a literal that is neither true nor false (its       *)
(* assertion: channelling makes no conflict of its own), for a reason that is  *)
(* a law of integers, so that clauses learnt from it hold whatever the state   *)
(* was, and whose other literals are false before.                            *)
EnqueuedRightly ==
  \A i \in DOMAIN trail :
    LET before == {trail[j].lit : j \in 1 .. i - 1}
        r == trail[i].reason
    IN /\ trail[i].lit \notin before /\ neg(trail[i].lit) \notin before
       /\ r # {} /\ r # Given =>
            /\ \A l \in r : neg(l) \in before
            /\ \A d \in Value : \E l \in r \cup {trail[i].lit} : Says(l, d)
=============================================================================
