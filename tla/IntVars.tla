------------------------------- MODULE IntVars -------------------------------
(* The three representations of an integer variable.  The rest of the solver  *)
(* calls setMin, setMax, setVal, remVal and getLit of class IntVar and does    *)
(* not know which one it talks to: each of them keeps the same promises.       *)
EXTENDS Integers, Sequences

CONSTANTS
  lowest, highest,    \* the initial bounds of the variable with eager or lazy literals
  values,    \* the values of the sparse one, increasing
  MaxLevel   \* bound: deepest decision level

ASSUME BoundsAssumption == lowest \in Int /\ highest \in Int /\ lowest <= highest
ASSUME ValuesAssumption ==
  /\ values \in Seq(Int) /\ values # <<>>
  /\ \A i, j \in DOMAIN values : i < j => values[i] < values[j]
ASSUME LevelAssumption == MaxLevel \in Nat

VARIABLES
  kind,                                \* which representation this is
  confl, in_queue, past,               \* of all
  min, max, vals, trail, changes,      \* with eager literals, and inside the sparse one
  x,                                   \* with lazy literals
  smin, smax, svals, outer             \* sparse

eager == <<min, max, vals, trail, changes>>
sparse == <<smin, smax, svals, outer>>
vars == <<kind, confl, in_queue, past, eager, x, sparse>>

EL == INSTANCE IntVarEL WITH lit_min <- lowest, lit_max <- highest
LL == INSTANCE IntVarLL WITH min0 <- lowest, max0 <- highest
SL == INSTANCE IntVarSL WITH
  min <- smin, max <- smax, vals <- svals, emin <- min, emax <- max, evals <- vals

Unused == "unused"

Init ==
  \/ /\ kind = "EL" /\ EL!Init
     /\ x = Unused /\ smin = Unused /\ smax = Unused /\ svals = Unused /\ outer = Unused
  \/ /\ kind = "LL" /\ LL!Init
     /\ min = Unused /\ max = Unused /\ vals = Unused /\ trail = Unused /\ changes = Unused
     /\ smin = Unused /\ smax = Unused /\ svals = Unused /\ outer = Unused
  \/ /\ kind = "SL" /\ SL!Init
     /\ x = Unused

Next ==
  \/ kind = "EL" /\ EL!Next /\ UNCHANGED <<kind, x, sparse>>
  \/ kind = "LL" /\ LL!Next /\ UNCHANGED <<kind, eager, sparse>>
  \/ kind = "SL" /\ SL!Next /\ UNCHANGED <<kind, x>>

Spec == Init /\ [][Next]_vars

-----------------------------------------------------------------------------
(* What class IntVar shows of each: getMin, getMax, the domain, changes.       *)
getMin == CASE kind = "EL" -> min [] kind = "LL" -> x.min [] kind = "SL" -> smin
getMax == CASE kind = "EL" -> max [] kind = "LL" -> x.max [] kind = "SL" -> smax
dom == CASE kind = "EL" -> EL!dom [] kind = "LL" -> LL!dom [] kind = "SL" -> SL!dom
told == IF kind = "LL" THEN x.changes ELSE changes
earlier ==
  [l \in DOMAIN past |->
     CASE kind = "EL" -> past[l].vals \cap past[l].min .. past[l].max
       [] kind = "LL" -> past[l].min .. past[l].max
       [] kind = "SL" -> outer[l].vals \cap outer[l].min .. outer[l].max]

(* Domain and literals say the same, whatever was called or channelled, at     *)
(* any level and after going back: every explanation relies on it.             *)
LiteralsAgree ==
  CASE kind = "EL" -> EL!LiteralsAgree
    [] kind = "LL" -> LL!LiteralsAgree
    [] kind = "SL" -> SL!LiteralsAgree

(* Literals are enqueued when they are open, for reasons that are laws of       *)
(* integers and were false before.                                             *)
EnqueuedRightly ==
  CASE kind = "EL" -> EL!EnqueuedRightly
    [] kind = "LL" -> LL!EnqueuedRightly
    [] kind = "SL" -> SL!el!EnqueuedRightly

(* The list of lazy literals, which is not trailed, and the places in it,       *)
(* which are, mark the bounds.                                                 *)
ListMarksBounds == kind = "LL" => LL!ListMarksBounds

(* Every change is told: the events say which bound moved, that the variable    *)
(* got fixed, and the variable is queued to tell them.                          *)
ChangesTold ==
  [][Len(past') >= Len(past) =>
       /\ getMin' # getMin => "L" \in told'
       /\ getMax' # getMax => "U" \in told'
       /\ dom' # dom => "C" \in told' /\ in_queue'
       /\ getMin' = getMax' /\ getMin # getMax => "F" \in told']_vars

(* Each call cuts the domain down to exactly what was asked for, fails when    *)
(* and only when nothing is left, and backtracking restores it.                *)
D == INSTANCE Domain WITH
  Value <- lowest .. highest \cup {values[i] : i \in DOMAIN values},
  past <- earlier, failed <- confl # {}
NarrowsExactly == D!DSpec
=============================================================================
