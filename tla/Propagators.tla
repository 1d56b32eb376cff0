---------------------------- MODULE Propagators ----------------------------
(***************************************************************************)
(* The propagators of a constraint at work: what is posted for it, what    *)
(* wakes its propagators, what they do and how they explain it, while the  *)
(* rest of the solver narrows the same variables at will.                  *)
(*                                                                         *)
(* One behaviour is about one constraint, inst, an element of Instances:   *)
(* a record of its name con, the operator op in the name, its arguments    *)
(* args and annotation ann, as Registry posts them, with                   *)
(*   dom    the domains of its variables,                                  *)
(*   lazy   if the rest of the solver is to narrow no more than bounds,    *)
(*          which is all that there is to narrow in lazy variables,        *)
(*   new    the names in dom of the variables that posting makes,          *)
(*   prunes "domain" if its propagators are to remove every value that no  *)
(*          solution has, "bounds" if every such bound, or "less".         *)
(***************************************************************************)
EXTENDS Views, TLC

CONSTANTS Instances,
          Post(_, _),            \* posts a constraint in a store
          Meaning(_, _),         \* whether an assignment is one that it allows
          Auxiliary(_, _),       \* the values of the variables made by posting
          wakeup(_, _, _, _),    \* what a propagator does when it is woken,
          propagate(_, _),       \* when it runs,
          clearPropState(_, _),  \* and when it has run or has been taken off the queue
          checkSatisfied(_, _),  \* whether it is redundant
          priority(_),           \* those with a lower number run first
          untrailed(_, _, _)     \* its memory when the solver has gone back to the root

VARIABLES inst,      \* the constraint
          posted,    \* the store once it is posted
          dom,       \* the domains
          kept,      \* what the propagators remember
          satisfied, \* those that found themselves redundant
          queued,    \* those that wait to run
          failed,    \* a conflict, from which the solver has not yet gone back
          wrong,     \* the changes that were made with a wrong explanation
          root       \* the state at the fixpoint of the root, once there

vars == <<inst, posted, dom, kept, satisfied, queued, failed, wrong, root>>

(***************************************************************************)
(* What is posted                                                          *)
(***************************************************************************)
emptyStore(i) ==
  [init |-> i.dom @@ ("T" :> {1}), dom |-> i.dom @@ ("T" :> {1}), props |-> <<>>, clauses |-> {},
   kept |-> <<>>, satisfied |-> {}, queued |-> {}, failed |-> FALSE, log |-> {}]

(***************************************************************************)
(* The assignments that the constraint allows, of values from the domains  *)
(* all, with the values that these give to the variables made by posting   *)
(***************************************************************************)
Assignments(i, all) ==
  LET own == DOMAIN i.dom \ Range(i.new)
      values0 == UNION {all[v] : v \in own}
      allowed == {f \in [own -> values0] : (\A v \in own : f[v] \in all[v]) /\ Meaning(i, f)}
      place(v) == CHOOSE j \in DOMAIN i.new : i.new[j] = v
      full(f) == {f @@ [v \in Range(i.new) |-> new[place(v)]] @@ ("T" :> 1) : new \in Auxiliary(i, f)}
  IN  {d : d \in UNION {full(f) : f \in allowed}}

Solutions == [i \in Instances |-> Assignments(i, i.dom)]

\* The same where variables may have all values between their bounds
hulls(f) == [v \in DOMAIN f |-> Min(f[v]) .. Max(f[v])]
Relaxed == [i \in {j \in Instances : j.prunes = "bounds"} |-> Assignments(i, hulls(i.dom))]

\* An explanation was true and implies the change in every solution
Explained(e) ==
  /\ e.held
  /\ \A d \in Solutions[inst] : (\A q \in e.why : d[q.v] \in q.in) => d[e.head.v] \in e.head.in

(***************************************************************************)
(* The parts of the state as a store, and back                             *)
(***************************************************************************)
Store == [posted EXCEPT !.dom = dom, !.kept = kept, !.satisfied = satisfied,
                        !.queued = queued, !.failed = failed, !.log = {}]

Become(s) ==
  /\ dom' = s.dom
  /\ kept' = s.kept
  /\ satisfied' = s.satisfied
  /\ queued' = s.queued
  /\ failed' = s.failed
  /\ wrong' = wrong \cup {e \in s.log : ~ Explained(e)}
  /\ UNCHANGED <<inst, posted>>

(***************************************************************************)
(* Waking and running                                                      *)
(***************************************************************************)
\* Propagators hear of the changes since the domains were old: happened says
\* of what, and told what they are told, which for a literal is nothing. Those
\* that are satisfied are passed over, but not by literals.
Woken(s, happened(_, _)) ==
  LET all == UNION {{<<p.id, i>> : i \in DOMAIN p.on} : p \in Range(s.props)}
      view(h) == s.props[h[1]].on[h[2]].x
      events(h) == happened(view(h), s.props[h[1]].on[h[2]].flags)
      hit(h) == /\ isLiteral(view(h)) \/ h[1] \notin s.satisfied
                /\ events(h) \cap s.props[h[1]].on[h[2]].flags # {}
      told(h) == IF isLiteral(view(h)) THEN {} ELSE events(h)
  IN  FoldSet(LAMBDA h, t : wakeup(t, s.props[h[1]], h[2], told(h)), s, {h \in all : hit(h)})

WokenBy(s, old) == IF s.failed THEN s ELSE Woken(s, LAMBDA x, flags : eventsOf(x, old[x.v], s.dom[x.v]))

\* At the start a fixed variable wakes what is attached as if all it asks for
\* had happened, any other one as if both bounds had moved, and literals are
\* propagated.
WokenAtStart(s) ==
  Woken(s, LAMBDA x, flags : IF isLiteral(x)
                             THEN eventsOf(x, x.in \cup x.out \cup {2}, s.dom[x.v])
                             ELSE IF isFixed(s, x) THEN flags ELSE {"C", "L", "U"})

(***************************************************************************)
(* The SAT solver propagates the clauses before any propagator runs.       *)
(***************************************************************************)
Units(s) ==
  {ps \in s.clauses : /\ \A q \in ps : ~ isTrue(s, q)
                      /\ Cardinality({q \in ps : ~ isFalse(s, q)}) <= 1}

propagateClause(ps, s) ==
  LET left == {q \in ps : ~ isFalse(s, q)}
      p == CHOOSE q \in ps : left \subseteq {q}
  IN  IF \E q \in ps : isTrue(s, q) THEN s ELSE setLit(s, p, {Not(q) : q \in ps \ {p}})

AtFixPoint == ~ failed /\ queued = {} /\ Units(Store) = {}

(***************************************************************************)
(* The steps                                                               *)
(***************************************************************************)
Init ==
  /\ inst \in Instances
  /\ posted = Post(emptyStore(inst), inst)
  /\ LET starts(s) == /\ dom = s.dom
                      /\ kept = s.kept
                      /\ satisfied = s.satisfied
                      /\ queued = s.queued
                      /\ failed = s.failed
     IN  starts(WokenAtStart(posted))
  /\ wrong = {}
  /\ root = <<>>

Clauses ==
  /\ ~ failed
  /\ Units(Store) # {}
  /\ Become(WokenBy(FoldSet(propagateClause, Store, Units(Store)), dom))
  /\ UNCHANGED root

Run(i) ==
  /\ ~ failed
  /\ Units(Store) = {}
  /\ i \in queued
  /\ \A j \in queued : priority(Store.props[i]) <= priority(Store.props[j])
  /\ LET p == Store.props[i]
         cleared(s) == [s EXCEPT !.kept[i] = clearPropState(p, @)]
     IN  Become(WokenBy(cleared(propagate([Store EXCEPT !.queued = @ \ {i}], p)), dom))
  /\ UNCHANGED root

\* The first level is opened
Open ==
  /\ root = <<>>
  /\ AtFixPoint
  /\ root' = <<dom, kept, satisfied>>
  /\ UNCHANGED <<inst, posted, dom, kept, satisfied, queued, failed, wrong>>

\* A decision or another constraint takes a value from a variable
Narrow(v, d) ==
  /\ root # <<>>
  /\ ~ failed
  /\ Units(Store) = {}
  /\ d \in dom[v]
  /\ dom[v] # {d}
  /\ inst.lazy => d \in {Min(dom[v]), Max(dom[v])}
  /\ Become(WokenBy([Store EXCEPT !.dom[v] = @ \ {d}], dom))
  /\ UNCHANGED root

\* Done at the root, where all that was narrowed may have been narrowed too
Simplify(i) ==
  /\ AtFixPoint
  /\ i \notin satisfied
  /\ checkSatisfied(Store, Store.props[i])
  /\ satisfied' = satisfied \cup {i}
  /\ UNCHANGED <<inst, posted, dom, kept, queued, failed, wrong, root>>

\* Back to the root: what is trailed is restored, nothing is queued
Backtrack ==
  /\ root # <<>>
  /\ failed \/ AtFixPoint
  /\ dom' = root[1]
  /\ kept' = [i \in DOMAIN kept |-> untrailed(Store.props[i], root[2][i], kept[i])]
  /\ satisfied' = root[3]
  /\ queued' = {}
  /\ failed' = FALSE
  /\ UNCHANGED <<inst, posted, wrong, root>>

\* A conflict at the root: the constraint cannot hold
Unsatisfiable ==
  /\ failed
  /\ root = <<>>
  /\ UNCHANGED vars

Next ==
  \/ Clauses
  \/ \E i \in queued : Run(i)
  \/ Open
  \/ \E v \in DOMAIN inst.dom : \E d \in dom[v] : Narrow(v, d)
  \/ \E i \in DOMAIN kept : Simplify(i)
  \/ Backtrack
  \/ Unsatisfiable

Spec == Init /\ [][Next]_vars

-----------------------------------------------------------------------------
(***************************************************************************)
(* Properties                                                              *)
(***************************************************************************)
TypeOK ==
  /\ inst \in Instances
  /\ \A v \in DOMAIN Store.init : dom[v] # {} /\ dom[v] \subseteq Store.init[v]
  /\ satisfied \subseteq DOMAIN kept
  /\ queued \subseteq DOMAIN kept

\* Every change of a domain, by whatever propagator or clause, has an explanation
\* that was true when the change was made, and that implies the change in every
\* solution of the constraint: all that conflict analysis relies on.
ExplanationsHold == wrong = {}

\* While no level is open, no solution of the constraint is lost: it can be extended
\* to the variables made by posting within the domains, in accord with the clauses.
\* What is removed at posting or for good is not asked for an explanation.
accords(d) ==
  /\ \A v \in DOMAIN dom : d[v] \in dom[v]
  /\ \A ps \in posted.clauses : \E q \in ps : d[q.v] \in q.in

NothingLost ==
  LET own == DOMAIN inst.dom \ Range(inst.new)
  IN  root = <<>> => \A d \in Solutions[inst] :
                       ~ failed /\ \E e \in Solutions[inst] : (\A v \in own : e[v] = d[v]) /\ accords(e)

\* When nothing is left to do and all variables are fixed, the constraint holds:
\* what was posted is the whole constraint, propagators check what the others leave
\* to them, are woken to do so, and are redundant when they say so.
FixedSatisfied ==
  AtFixPoint /\ (\A v \in DOMAIN dom : Cardinality(dom[v]) = 1)
    => [v \in DOMAIN dom |-> CHOOSE d \in dom[v] : TRUE] \in Solutions[inst]

\* When nothing is left to do, a constraint that is to be kept consistent in all of
\* its values, or in its bounds, is: every value left, or every bound if variables
\* had all values between their bounds, belongs to a solution that is left.  So
\* propagators are woken by all that matters to them and miss nothing.
Supported(v, d, solutions, left) ==
  \E e \in solutions : e[v] = d /\ \A w \in DOMAIN left : e[w] \in left[w]

Pruned ==
  AtFixPoint =>
    CASE inst.prunes = "domain" ->
           \A v \in DOMAIN dom : \A d \in dom[v] : Supported(v, d, Solutions[inst], dom)
      [] inst.prunes = "bounds" ->
           \A v \in DOMAIN dom : \A d \in {Min(dom[v]), Max(dom[v])} :
             Supported(v, d, Relaxed[inst], hulls(dom))
      [] inst.prunes = "less" -> TRUE

=============================================================================
