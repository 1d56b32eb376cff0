--------------------------- MODULE AssumptionNogood ---------------------------
(* What a search tells of an assumption that turned out false: the nogood of   *)
(* assumptions (Engine::retrieve_assumption_nogood, core/engine.cpp, and       *)
(* pushback_reason_lazy, core/assume.h), after the assumptions were decided    *)
(* and propagated level by level without any conflict.                         *)
EXTENDS Integers, Sequences, FiniteSets, SequencesExt, FiniteSetsExt

CONSTANTS
  Var,          \* positive integers; x and -x are the literals of x
  Facts,        \* literals true at the root
  AssumptionSeqs, \* what engine.assumptions may be: sequences of literals
  Rule          \* propagators, as records [body, heads, lazy]: body => each of heads,
                \* explained when it is asked for when lazy, else by a clause

var(l) == IF l < 0 THEN -l ELSE l
Lit == Var \cup {-x : x \in Var}

ASSUME VarAssumption == Var \subseteq Nat \ {0} /\ IsFiniteSet(Var) /\ Facts \subseteq Lit
ASSUME AssumptionAssumption == AssumptionSeqs \subseteq Seq(Lit)
ASSUME RuleAssumption ==
  \A k \in Rule : k.body \subseteq Lit /\ k.heads \subseteq Lit /\ k.lazy \in BOOLEAN

VARIABLES
  assumptions, \* engine.assumptions
  pc,       \* "propagate", then "mark", "start", "walk", "finish", "done"; "conflict"
  trail,    \* sat.trail, lists of literals by level (level l at l + 1)
  atRoot,   \* the literals with trailpos < 0
  reason,   \* the rule that implied a literal of trail; NoRule for decisions
  seen,     \* sat.seen: the bits that are set
  index,    \* sat.index; 0 before any conflict was analysed
  assump_sz,\* the number of assumptions that were true, once one is false
  nogood,   \* out_nogood, without its order
  removed, pending, last_reason  \* locals of pushback_reason_lazy

locals == <<assump_sz, nogood, removed, pending, last_reason>>
vars == <<assumptions, pc, trail, atRoot, reason, seen, index, locals>>

NoRule == [body |-> {}, heads |-> {}, lazy |-> FALSE]

onTrail == UNION {Range(trail[l]) : l \in DOMAIN trail}
isTrue(l) == l \in onTrail \cup atRoot
isFalse(l) == isTrue(-l)
decisionLevel == Len(trail) - 1
current == Last(trail)
marked(x, bit) == bit \in seen[x]

(* The places 1, 2, ... of the explanation: variables of false literals. *)
Antecedents(r) == {var(l) : l \in r.body}
rootVar(x) == {x, -x} \cap atRoot # {}

Init ==
  /\ assumptions \in AssumptionSeqs
  /\ pc = "propagate"
  /\ trail = <<<<>>>> /\ atRoot = Facts
  /\ reason = [x \in Var |-> NoRule]
  /\ seen = [x \in Var |-> IF rootVar(x) THEN {1} ELSE {}]
  /\ index = 0 /\ assump_sz = 0
  /\ nogood = {} /\ removed = {} /\ pending = 0 /\ last_reason = NoRule

(* Propagation, one literal at a time; a conflict would start an analysis. *)
imply ==
  /\ pc = "propagate"
  /\ \E k \in Rule : \E h \in k.heads :
       /\ \A l \in k.body : isTrue(l)
       /\ ~ isTrue(h)
       /\ IF isFalse(h) THEN pc' = "conflict" /\ UNCHANGED <<trail, reason>>
          ELSE /\ trail' = [trail EXCEPT ![Len(trail)] = Append(@, h)]
               /\ reason' = [reason EXCEPT ![var(h)] = k]
               /\ UNCHANGED pc
  /\ UNCHANGED <<atRoot, seen, index, locals>>

AtFixPoint ==
  pc = "propagate" /\ \A k \in Rule : (\A l \in k.body : isTrue(l)) => \A h \in k.heads : isTrue(h)

(* SAT::topLevelCleanUp: what is true at the root leaves the trail, marked. *)
topLevelCleanUp ==
  /\ AtFixPoint /\ decisionLevel = 0 /\ current # <<>>
  /\ atRoot' = atRoot \cup Range(current)
  /\ seen' = [x \in Var |-> seen[x] \cup (IF x \in {var(l) : l \in Range(current)} THEN {1} ELSE {})]
  /\ trail' = <<<<>>>>
  /\ UNCHANGED <<pc, reason, index, locals>>

(* The next assumption: a dummy level, a decision, or the end of the search. *)
assume ==
  LET p == assumptions[decisionLevel + 1] IN
  /\ AtFixPoint /\ (decisionLevel = 0 => current = <<>>)
  /\ decisionLevel < Len(assumptions)
  /\ \/ isTrue(p) /\ trail' = Append(trail, <<>>) /\ UNCHANGED <<pc, reason, assump_sz>>
     \/ ~ isTrue(p) /\ ~ isFalse(p)
        /\ trail' = Append(trail, <<p>>)
        /\ reason' = [reason EXCEPT ![var(p)] = NoRule]
        /\ UNCHANGED <<pc, assump_sz>>
     \/ isFalse(p) /\ pc' = "mark" /\ assump_sz' = decisionLevel /\ UNCHANGED <<trail, reason>>
  /\ UNCHANGED <<atRoot, seen, index, nogood, removed, pending, last_reason>>

-----------------------------------------------------------------------------
Failed == -assumptions[assump_sz + 1]
Earlier == {assumptions[i] : i \in 1 .. assump_sz}

(* Sets the mark of the assumptions before the false one, whatever it was. *)
markAssumptions ==
  /\ pc = "mark"
  /\ seen' = [x \in Var |-> IF x \in {var(l) : l \in Earlier} THEN {2} ELSE seen[x]]
  /\ nogood' = {Failed}
  /\ pc' = "start"
  /\ UNCHANGED <<trail, atRoot, reason, index, assump_sz, removed, pending, last_reason>>

(* SAT::getExpl of a lazy reason undoes the current level from index on. *)
undone(t, i) == IF i < Len(t) THEN SubSeq(t, 1, i) ELSE t
explain(r) ==
  trail' = IF r.lazy THEN [trail EXCEPT ![Len(trail)] = undone(@, index')] ELSE trail

mark(S) == [x \in Var |-> IF x \in S THEN seen[x] \cup {1} ELSE seen[x]]

(* The reason of the false assumption; index is what the last analysis left. *)
start ==
  LET x == var(Failed)
      r == reason[x]
  IN /\ pc = "start"
     /\ UNCHANGED index
     /\ \/ /\ rootVar(x)
           /\ pc' = "unmark"
           /\ UNCHANGED <<trail, seen, locals>>
        \/ /\ ~ rootVar(x) /\ r = NoRule
           /\ nogood' = nogood \cup {-Failed}
           /\ pc' = "unmark"
           /\ UNCHANGED <<trail, seen, assump_sz, removed, pending, last_reason>>
        \/ /\ ~ rootVar(x) /\ r # NoRule
           /\ explain(r)
           /\ seen' = mark(Antecedents(r))
           /\ removed' = {y \in Antecedents(r) : rootVar(y)}
           /\ pending' = Cardinality({y \in Antecedents(r) : ~ rootVar(y)})
           /\ last_reason' = r
           /\ pc' = "enter"
           /\ UNCHANGED <<assump_sz, nogood>>
     /\ UNCHANGED <<atRoot, reason>>

(* A level is entered from its end; those above are undone. *)
enter ==
  /\ pc = "enter" /\ decisionLevel > 0
  /\ index' = Len(current)
  /\ pc' = "walk"
  /\ UNCHANGED <<trail, atRoot, reason, seen, locals>>

leave ==
  /\ pc = "walk" /\ (\A i \in 1 .. index : ~ marked(var(current[i]), 1))
  /\ trail' = Front(trail)
  /\ pc' = IF decisionLevel = 1 THEN "finish" ELSE "enter"
  /\ index' = 0
  /\ UNCHANGED <<atRoot, reason, seen, locals>>

(* Mutant: one antecedent that was seen is enough. *)
redundantSome(r) == r # NoRule /\ \E y \in Antecedents(r) : marked(y, 1)

(* An assumption that is implied by what was seen already is left out. *)
redundant(r) == r # NoRule /\ \A y \in Antecedents(r) : marked(y, 1)

(* The next literal that was seen: an assumption, or one to be explained. *)
walk ==
  LET places == {i \in 1 .. index : marked(var(current[i]), 1)}
      p == current[Max(places)]
      r == reason[var(p)]
      new == {y \in Antecedents(r) : ~ marked(y, 1)}
  IN /\ pc = "walk" /\ places # {}
     /\ index' = Max(places) - 1
     /\ \/ /\ marked(var(p), 2)
           /\ explain(r)
           /\ pending' = pending - 1
           /\ IF redundant(r)
              THEN removed' = removed \cup {var(p)} /\ UNCHANGED nogood
              ELSE nogood' = nogood \cup {-p} /\ UNCHANGED removed
           /\ pc' = IF pending' = 0 THEN "finish" ELSE "walk"
           /\ UNCHANGED <<seen, last_reason>>
        \/ /\ ~ marked(var(p), 2) /\ last_reason = r
           /\ pending' = pending - 1
           /\ removed' = removed \cup {var(p)}
           /\ UNCHANGED <<pc, trail, seen, nogood, last_reason>>
        \/ /\ ~ marked(var(p), 2) /\ last_reason # r
           /\ explain(r)
           /\ last_reason' = r
           /\ seen' = mark(new)
           /\ removed' = removed \cup {var(p)} \cup {y \in new : rootVar(y)}
           /\ pending' = pending - 1 + Cardinality({y \in new : ~ rootVar(y)})
           /\ UNCHANGED <<pc, nogood>>
     /\ UNCHANGED <<atRoot, reason, assump_sz>>

(* pushback_finished. *)
finish ==
  /\ pc = "finish"
  /\ seen' = [x \in Var |-> IF x \in removed \cup {var(l) : l \in nogood} THEN seen[x] \ {1} ELSE seen[x]]
  /\ pc' = "unmark"
  /\ UNCHANGED <<trail, atRoot, reason, index, locals>>

(* "Finally, clear the marked assumptions". *)
unmark ==
  /\ pc = "unmark"
  /\ seen' = [x \in Var |-> IF x \in {var(l) : l \in Earlier} THEN {2} ELSE seen[x]]
  /\ pc' = "done"
  /\ UNCHANGED <<trail, atRoot, reason, index, locals>>

(* A conflict, all assumptions true, or the nogood is there. *)
ended ==
  /\ pc \in {"conflict", "done"} \/ (AtFixPoint /\ decisionLevel = Len(assumptions))
  /\ UNCHANGED vars

Next ==
  \/ /\ imply \/ topLevelCleanUp \/ assume \/ markAssumptions \/ start \/ enter \/ leave \/ walk
        \/ finish \/ unmark
     /\ UNCHANGED assumptions
  \/ ended

Spec == Init /\ [][Next]_vars

-----------------------------------------------------------------------------
Total == {m \in SUBSET Lit : \A x \in Var : (x \in m) # (-x \in m)}
Models == {m \in Total : Facts \subseteq m /\ \A k \in Rule : k.body \subseteq m => k.heads \subseteq m}

TypeOK ==
  /\ pc \in {"propagate", "conflict", "mark", "start", "enter", "walk", "finish", "unmark", "done"}
  /\ assumptions \in AssumptionSeqs /\ trail \in Seq(Seq(Lit)) /\ atRoot \subseteq Lit
  /\ \A x \in Var : reason[x] \in Rule \cup {NoRule} /\ seen[x] \subseteq {1, 2}
  /\ index \in Nat /\ pending \in Int /\ removed \subseteq Var

(* What is counted is what is left to be looked at, so that the walk stops when *)
(* and only when all is explained.                                              *)
PendingCounts ==
  pc \in {"walk", "finish"} =>
    pending = Cardinality({y \in {var(l) : l \in onTrail} :
                             /\ marked(y, 1) /\ ~ rootVar(y)
                             /\ pc = "walk" /\ \A i \in index + 1 .. Len(current) : var(current[i]) # y})

(* The nogood is right: it speaks of the assumptions alone (it says that they   *)
(* are not all true, or is a tautology when they contradict each other), and    *)
(* every model of the problem satisfies it; everything was explained            *)
(* ("assert(pending == 0)"), and no mark of the walk stays but at the root.     *)
NogoodRight ==
  /\ TypeOK /\ PendingCounts
  /\ pc \in {"unmark", "done"} =>
       /\ nogood \subseteq {Failed, -Failed} \cup {-l : l \in Earlier}
       /\ \A m \in Models : m \cap nogood # {}
       /\ pending = 0
       /\ \A x \in Var : marked(x, 1) => rootVar(x)
================================================================================
