-------------------------------- MODULE Trail --------------------------------
(* The trail of the engine and the assignment stack of the SAT solver.       *)
(*                                                                           *)
(* engine.trail holds one undo record per write of a trailed datum (Tint,    *)
(* Tchar, trailChange); engine.trail_lim its length at each decision level.  *)
(* sat.trail holds, per level, the literals in the order they were enqueued; *)
(* sat.trailpos[x] is the length of engine.trail at that moment, the only    *)
(* link between the two stacks: conflict analysis reads a literal's level    *)
(* off it (tpToLevel) and lazy explanations go back to it (getExpl).         *)
(*                                                                           *)
(* Backtracking is modelled one undo record at a time.  Literals are their   *)
(* variables here: nothing below depends on the sign.  sat.trail is seen     *)
(* from its literals: each knows the list it is in and its place there.      *)
EXTENDS Integers, Sequences

CONSTANTS
  Cell,        \* trailed data
  Val,         \* their values
  Var,         \* Boolean variables of the SAT solver
  trail_inc,   \* the Tint that newDecisionLevel increments; nothing reads it
  Pad,         \* the value recorded for it, abstracted to one
  MaxTrail,    \* bound: longest trail
  MaxLevel     \* bound: deepest decision level

ASSUME TrailIncAssumption == trail_inc \notin Cell
ASSUME BoundAssumption == MaxTrail \in Nat /\ MaxLevel \in Nat

VARIABLES
  mem,         \* the trailed data
  trail,       \* engine.trail: undo records [pt |-> datum, x |-> old value]
  trail_lim,   \* engine.trail_lim
  size,        \* size[l + 1]: sat.trail[l].size()
  slot,        \* where x is in sat.trail: the list of level slot[x].level, place slot[x].nth
  assigns,     \* the variables with a value
  trailpos,    \* sat.trailpos
  mode,        \* "search", "undo" (in btToPos) or "explain" (analysis went back in time)
  undo,        \* the backtrack under way: to position pos, lim levels stay, then mode then
  born,        \* history: the present in which each assigned variable was enqueued
  asked        \* history: born of the literal whose explanation was last asked for

vars == <<mem, trail, trail_lim, size, slot, assigns, trailpos, mode, undo, born, asked>>

decisionLevel == Len(trail_lim)

Present == [store |-> mem, assigned |-> assigns]
Presents == [store : [Cell -> Val], assigned : SUBSET Var]
Never == [store |-> <<>>, assigned |-> {}]

Record == [pt : Cell, x : Val] \cup {[pt |-> trail_inc, x |-> Pad]}

Nowhere == [level |-> 0, nth |-> 0]
NoUndo == [pos |-> 0, lim |-> 0, then |-> "search"]

Init ==
  /\ mem \in [Cell -> Val]
  /\ trail = <<>>
  /\ trail_lim = <<>>
  /\ size = <<0>>
  /\ slot = [x \in Var |-> Nowhere]
  /\ assigns = {}
  /\ trailpos = [x \in Var |-> -1]
  /\ mode = "search"
  /\ undo = NoUndo
  /\ born = [x \in Var |-> Never]
  /\ asked = Never

(* Tint::operator=, trailChange: record the old value, then write. *)
Assign(c, v) ==
  /\ mode = "search"
  /\ Len(trail) < MaxTrail
  /\ trail' = Append(trail, [pt |-> c, x |-> mem[c]])
  /\ mem' = [mem EXCEPT ![c] = v]
  /\ UNCHANGED <<trail_lim, size, slot, assigns, trailpos, mode, undo, born, asked>>

(* SAT::enqueue, SAT::cEnqueue of an unassigned literal. *)
Enqueue(x) ==
  /\ mode = "search"
  /\ x \notin assigns
  /\ assigns' = assigns \cup {x}
  /\ trailpos' = [trailpos EXCEPT ![x] = Len(trail)]
  /\ size' = [size EXCEPT ![decisionLevel + 1] = @ + 1]
  /\ slot' = [slot EXCEPT ![x] = [level |-> decisionLevel, nth |-> size[decisionLevel + 1] + 1]]
  /\ born' = [born EXCEPT ![x] = Present]
  /\ UNCHANGED <<mem, trail, trail_lim, mode, undo, asked>>

(* Mutant: a level is opened without the increment of trail_inc. *)
newDecisionLevelNoInc ==
  /\ mode = "search"
  /\ decisionLevel < MaxLevel
  /\ trail_lim' = Append(trail_lim, Len(trail))
  /\ size' = Append(size, 0)
  /\ UNCHANGED <<mem, trail, slot, assigns, trailpos, mode, undo, born, asked>>

(* The increment of trail_inc comes first: its record belongs to the level   *)
(* that is being left, and keeps the positions of two levels apart.          *)
newDecisionLevel ==
  /\ mode = "search"
  /\ Len(trail) < MaxTrail
  /\ decisionLevel < MaxLevel
  /\ trail' = Append(trail, [pt |-> trail_inc, x |-> Pad])
  /\ trail_lim' = Append(trail_lim, Len(trail'))
  /\ size' = Append(size, 0)
  /\ UNCHANGED <<mem, slot, assigns, trailpos, mode, undo, born, asked>>

(* untrailToPos: the literals of gone become unassigned. *)
Untrail(gone) ==
  /\ assigns' = assigns \ gone
  /\ slot' = [x \in Var |-> IF x \in gone THEN Nowhere ELSE slot[x]]
  /\ born' = [x \in Var |-> IF x \in gone THEN Never ELSE born[x]]

(* SAT::btToLevel, which ends in Engine::btToLevel. *)
btToLevel(level) ==
  /\ mode \in {"search", "explain"}
  /\ level < decisionLevel
  /\ Untrail({x \in assigns : slot[x].level > level})
  /\ size' = SubSeq(size, 1, level + 1)
  /\ undo' = [pos |-> trail_lim[level + 1], lim |-> level, then |-> "search"]
  /\ asked' = Never
  /\ mode' = "undo"
  /\ UNCHANGED <<mem, trail, trail_lim, trailpos>>

(* Mutant: index is not moved down to p before the literals are undone. *)
explainKeepsLiteral(p) ==
  /\ mode \in {"search", "explain"}
  /\ decisionLevel > 0
  /\ p \in assigns /\ slot[p].level = decisionLevel
  /\ Untrail({x \in assigns : slot[x].level = decisionLevel /\ slot[x].nth > slot[p].nth})
  /\ size' = [size EXCEPT ![decisionLevel + 1] = slot[p].nth]
  /\ undo' = [pos |-> trailpos[p], lim |-> decisionLevel, then |-> "explain"]
  /\ asked' = born[p]
  /\ mode' = "undo"
  /\ UNCHANGED <<mem, trail, trail_lim, trailpos>>

(* SAT::getExpl of p, a literal of the last level, when its reason is lazy:  *)
(* SAT::btToPos(index, trailpos), then the propagator's explain     *)
(* reads the trailed data as they were.  Analysis walks index downwards.     *)
explain(p) ==
  /\ mode \in {"search", "explain"}
  /\ decisionLevel > 0
  /\ p \in assigns /\ slot[p].level = decisionLevel
  /\ Untrail({x \in assigns : slot[x].level = decisionLevel /\ slot[x].nth >= slot[p].nth})
  /\ size' = [size EXCEPT ![decisionLevel + 1] = slot[p].nth - 1]
  /\ undo' = [pos |-> trailpos[p], lim |-> decisionLevel, then |-> "explain"]
  /\ asked' = born[p]
  /\ mode' = "undo"
  /\ UNCHANGED <<mem, trail, trail_lim, trailpos>>

Undone(m, e) == [c \in Cell |-> IF c = e.pt THEN e.x ELSE m[c]]

(* Mutant: the loop runs forwards, from the oldest record to undo. *)
undoFirst ==
  /\ mode = "undo"
  /\ Len(trail) > undo.pos
  /\ mem' = Undone(mem, trail[undo.pos + 1])
  /\ trail' = SubSeq(trail, 1, undo.pos) \o SubSeq(trail, undo.pos + 2, Len(trail))
  /\ UNCHANGED <<trail_lim, size, slot, assigns, trailpos, mode, undo, born, asked>>

(* Engine::btToPos, one turn of its loop. *)
undoLast ==
  /\ mode = "undo"
  /\ Len(trail) > undo.pos
  /\ mem' = Undone(mem, trail[Len(trail)])
  /\ trail' = SubSeq(trail, 1, Len(trail) - 1)
  /\ UNCHANGED <<trail_lim, size, slot, assigns, trailpos, mode, undo, born, asked>>

(* Mutant: trail_lim.resize(level) is missing. *)
undoDoneKeepsLimits ==
  /\ mode = "undo"
  /\ Len(trail) <= undo.pos
  /\ mode' = undo.then
  /\ undo' = NoUndo
  /\ UNCHANGED <<mem, trail, trail_lim, size, slot, assigns, trailpos, born, asked>>

(* The end of btToPos and, after btToLevel, trail_lim.resize(level). *)
undoDone ==
  /\ mode = "undo"
  /\ Len(trail) <= undo.pos
  /\ trail_lim' = SubSeq(trail_lim, 1, undo.lim)
  /\ mode' = undo.then
  /\ undo' = NoUndo
  /\ UNCHANGED <<mem, trail, size, slot, assigns, trailpos, born, asked>>

(* The literals in sat.trail: all but those a clean-up took out of it. *)
Listed(x) == x \in assigns /\ slot[x].nth > 0

(* Engine::topLevelCleanUp and SAT::topLevelCleanUp: what holds at the root  *)
(* is there to stay, so the records go, and the positions with them.         *)
topLevelCleanUp ==
  /\ mode = "search"
  /\ decisionLevel = 0
  /\ trail' = <<>>
  /\ trailpos' = [x \in Var |-> IF Listed(x) THEN -1 ELSE trailpos[x]]
  /\ slot' = [x \in Var |-> IF Listed(x) THEN Nowhere ELSE slot[x]]
  /\ size' = <<0>>
  /\ UNCHANGED <<mem, trail_lim, assigns, mode, undo, born, asked>>

Next ==
  \/ \E c \in Cell, v \in Val : Assign(c, v)
  \/ \E x \in Var : Enqueue(x)
  \/ newDecisionLevel
  \/ \E level \in 0 .. decisionLevel - 1 : btToLevel(level)
  \/ \E p \in Var : explain(p)
  \/ undoLast
  \/ undoDone
  \/ topLevelCleanUp

Spec == Init /\ [][Next]_vars

-----------------------------------------------------------------------------
(* Engine::tpToLevel: the last level whose start is not after position tp. *)
tpToLevel(tp) ==
  LET started == {l \in 1 .. decisionLevel : tp >= trail_lim[l]}
  IN  IF started = {} THEN 0 ELSE CHOOSE l \in started : \A k \in started : k <= l

(* What undoing every record after position pos would leave in the data: the *)
(* oldest of the records of a datum wins.                                    *)
StoreAt(pos) ==
  LET writes(c) == {i \in pos + 1 .. Len(trail) : trail[i].pt = c}
      first(c) == CHOOSE i \in writes(c) : \A j \in writes(c) : i <= j
  IN  [c \in Cell |-> IF writes(c) = {} THEN mem[c] ELSE trail[first(c)].x]

(* Levels that remain once the backtrack under way is over. *)
liveLevels == IF mode = "undo" THEN undo.lim ELSE decisionLevel

TypeOK ==
  /\ mem \in [Cell -> Val]
  /\ trail \in Seq(Record)
  /\ trail_lim \in Seq(Nat)
  /\ size \in Seq(Nat) /\ Len(size) = liveLevels + 1
  /\ slot \in [Var -> [level : Nat, nth : Nat]]
  /\ assigns \in SUBSET Var
  /\ trailpos \in [Var -> Nat \cup {-1}]
  /\ mode \in {"search", "undo", "explain"}
  /\ undo \in [pos : Nat, lim : Nat, then : {"search", "explain"}]
  /\ liveLevels <= decisionLevel
  /\ born \in [Var -> Presents \cup {Never}]
  /\ asked \in Presents \cup {Never}

(* The strengthening of the properties below that every step preserves. *)
top == IF mode = "undo" THEN undo.pos ELSE Len(trail)

LimitsOrdered ==
  /\ top <= Len(trail)
  /\ \A l \in 1 .. liveLevels : trail_lim[l] \in 1 .. top
  /\ \A k, l \in 1 .. liveLevels : k < l => trail_lim[k] < trail_lim[l]

(* The two stacks are cut at the same places. *)
PositionsInLevel ==
  \A x \in assigns :
    LET l == slot[x].level IN
    /\ l <= liveLevels
    /\ trailpos[x] <= top
    /\ l > 0 => trail_lim[l] <= trailpos[x]
    /\ l < liveLevels => trailpos[x] < trail_lim[l + 1]

(* Within a level, positions follow the order of enqueuing. *)
PositionsInOrder ==
  /\ \A x \in assigns :
       /\ slot[x].nth <= size[slot[x].level + 1]
       /\ slot[x].nth = 0 <=> trailpos[x] = -1
       /\ slot[x].nth = 0 => slot[x].level = 0
  /\ \A x, y \in assigns :
       slot[x].level = slot[y].level /\ slot[x].nth <= slot[y].nth => trailpos[x] <= trailpos[y]

(* The level that conflict analysis reads off a literal's position is the    *)
(* level the literal was enqueued at (findConflictLevel, getLearntClause's   *)
(* isCurLevel and findBackTrackLevel all take one for the other), even when  *)
(* a level starts without a single write, after clean-ups and backjumps.     *)
LevelOfPosition ==
  mode # "undo" => \A x \in assigns : tpToLevel(trailpos[x]) = slot[x].level

(* A lazy explanation is computed in exactly the state in which its literal  *)
(* was enqueued: same trailed data, same assigned literals (SAT::getExpl).   *)
ExplainedInItsTime == mode = "explain" => Present = asked

(* Backtracking to a level brings back exactly what was there when the next  *)
(* level was opened: the trail implements the store with snapshots.          *)
LevelState(l) ==
  [store |-> StoreAt(trail_lim[l]), assigned |-> {x \in assigns : slot[x].level < l}]

Snapshots ==
  INSTANCE BacktrackStore WITH
    State <- Presents,
    now <- [store |-> IF mode = "undo" THEN StoreAt(undo.pos) ELSE mem,
            assigned |-> assigns],
    past <- [l \in 1 .. liveLevels |-> LevelState(l)]

RestoresSnapshots == Snapshots!BSSpec

=============================================================================
