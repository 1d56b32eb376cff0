------------------------------ MODULE IntVarSL ------------------------------
(* An integer variable with a sparse domain (vars/int-var-sl.cpp): a variable *)
(* with eager literals over the places 0 .. n - 1 of a sorted list of values, *)
(* and a copy of its bounds and holes in terms of the values, which is what   *)
(* propagators read.                                                          *)
EXTENDS Integers, Sequences

CONSTANTS
  values,    \* the values, increasing; the first is at place 0
  MaxLevel

VARIABLES
  min, max, vals,   \* the copy
  emin, emax, evals, trail, confl, changes, in_queue, past,  \* of el
  outer             \* the copy as each open level started from it

own == <<min, max, vals, outer>>
vars == <<own, emin, emax, evals, trail, confl, changes, in_queue, past>>

el == INSTANCE IntVarEL WITH
  lit_min <- 0, lit_max <- Len(values) - 1, min <- emin, max <- emax, vals <- evals

Place == 0 .. Len(values) - 1
valueAt(i) == values[i + 1]
Value == {valueAt(i) : i \in Place}
Asked == valueAt(0) - 1 .. valueAt(Len(values) - 1) + 1
dom == vals \cap min .. max

(* find_index: how many values are below v is where it would be. *)
below(v) == CHOOSE i \in 0 .. Len(values) : \A k \in Place : valueAt(k) < v <=> k < i
find_index(v, mode) ==
  IF v \in Value THEN below(v)
  ELSE CASE mode = "UP" -> below(v) [] mode = "DOWN" -> below(v) - 1 [] mode = "NONE" -> -1

getLit(v, rel) ==
  LET u == find_index(v, CASE rel = "GE" -> "UP" [] rel = "LE" -> "DOWN" [] OTHER -> "NONE")
  IN IF u = -1 /\ rel \in {"EQ", "NE"} THEN el!Constant(rel = "NE") ELSE el!getLit(u, rel)

(* The constructor, all of the values in the domain. *)
Init ==
  /\ el!Init /\ evals = Place
  /\ min = valueAt(0) /\ max = valueAt(Len(values) - 1) /\ vals = Value
  /\ outer = <<>>

(* Mutant: the copy of the other bound is not looked at. *)
copyLess(removed) ==
  IF confl' # {} THEN UNCHANGED <<min, max, vals>>
  ELSE min' = valueAt(emin') /\ vals' = vals \ removed /\ UNCHANGED max

(* What is left of el, after a call that did not fail. *)
copy(removed) ==
  IF confl' # {} THEN UNCHANGED <<min, max, vals>>
  ELSE min' = valueAt(emin') /\ max' = valueAt(emax') /\ vals' = vals \ removed

(* Calls of propagators and of decisions. *)
setMin(v) == v > min /\ el!setMin(find_index(v, "UP")) /\ copy({}) /\ UNCHANGED outer
setMax(v) == v < max /\ el!setMax(find_index(v, "DOWN")) /\ copy({}) /\ UNCHANGED outer

(* A value that is not in the list is lit_False. *)
setVal(v) ==
  /\ confl = {} /\ (v # min \/ v # max)
  /\ IF find_index(v, "NONE") = -1
     THEN el!fail(el!Constant(FALSE)) /\ UNCHANGED <<min, max, vals, past>>
     ELSE el!setVal(find_index(v, "NONE")) /\ copy({})
  /\ UNCHANGED outer

remVal(v) == v \in dom /\ el!remVal(find_index(v, "NONE")) /\ copy({v}) /\ UNCHANGED outer

(* A literal of el becomes true and is channelled here, then to el. *)
channel(l) ==
  /\ el!channel(l)
  /\ copy({valueAt(i) : i \in {k \in Place : l = el!NE(k)}})
  /\ UNCHANGED outer

wakePropagators == el!wakePropagators /\ UNCHANGED own

newDecisionLevel ==
  /\ el!newDecisionLevel
  /\ outer' = Append(outer, [min |-> min, max |-> max, vals |-> vals])
  /\ UNCHANGED <<min, max, vals>>

btToLevel(l) ==
  /\ el!btToLevel(l)
  /\ min' = outer[l + 1].min /\ max' = outer[l + 1].max /\ vals' = outer[l + 1].vals
  /\ outer' = SubSeq(outer, 1, l)

unsatisfiable == el!unsatisfiable /\ UNCHANGED own

Next ==
  \/ \E v \in Asked : setMin(v) \/ setMax(v) \/ setVal(v) \/ remVal(v)
  \/ \E l \in el!Lit : channel(l)
  \/ wakePropagators
  \/ newDecisionLevel
  \/ \E l \in 0 .. Len(past) - 1 : btToLevel(l)
  \/ unsatisfiable

Spec == Init /\ [][Next]_vars

-----------------------------------------------------------------------------
Says(d, v, rel) ==
  CASE rel = "GE" -> d >= v [] rel = "LE" -> d <= v [] rel = "EQ" -> d = v [] rel = "NE" -> d # v

(* The literals that propagators get for values mean those values, also for   *)
(* values between and beyond those of the list, and the copy of the domain is *)
(* the domain of el.                                                          *)
LiteralsAgree ==
  /\ el!LiteralsAgree
  /\ dom = {valueAt(i) : i \in el!dom} /\ min \in dom /\ max \in dom
  /\ \A v \in Asked, rel \in {"GE", "LE", "EQ", "NE"} :
       LET l == getLit(v, rel)
           true == el!isTrue(l) \/ l = el!Constant(TRUE)
           false == el!isFalse(l) \/ l = el!Constant(FALSE)
       IN /\ true <=> \A d \in dom : Says(d, v, rel)
          /\ false <=> \A d \in dom : ~ Says(d, v, rel)
=============================================================================
