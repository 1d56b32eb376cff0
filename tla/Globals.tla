------------------------------ MODULE Globals ------------------------------
(***************************************************************************)
(* The constraints on schedules and graphs: what is posted for them, as in *)
(* Registry, and their propagators at work.                                *)
(***************************************************************************)
EXTENDS Registry, Disjunctive, Circuit, Cumulative

p_circuit(s, ce) == circuit(s, arg2intvarargs(ce[1]), ce[2])
p_disjunctive(s, ce, new) == disjunctive(s, arg2intvarargs(ce[1]), ce[2], newBools(new))

\* The time table filters unless it is told not to, edge-finding if it is told to
getCumulativeOptions(ann) ==
  [tt_filt |-> ann # "tt_filt_off", ttef_check |-> ann = "ttef_check_on", ttef_filt |-> ann = "ttef_filt_on"]

p_cumulative(s, ce, ann) ==
  cumulative(s, arg2intvarargs(ce[1]), ce[2], ce[3], ce[4], getCumulativeOptions(ann))
p_cumulative2(s, ce, ann) ==
  cumulative2(s, arg2intvarargs(ce[1]), arg2intvarargs(ce[2]), arg2intvarargs(ce[3]), getIntVar(ce[4]),
              getCumulativeOptions(ann))

postGlobal(s, i) ==
  LET ce == i.args
  IN  CASE i.con = "chuffed_circuit" -> p_circuit(s, ce)
        [] i.con = "chuffed_disjunctive_strict" -> p_disjunctive(s, ce, i.new)
        [] i.con = "chuffed_cumulative" -> p_cumulative(s, ce, i.ann)
        [] i.con = "chuffed_cumulative_vars" -> p_cumulative2(s, ce, i.ann)

wakeupGlobal(s, p, i, events) ==
  CASE p.kind = "BinGE" -> wakeupUnlessOff(s, p)
    [] p.kind = "AllDiffDomain" -> wakeupAllDiffDomain(s, p, i)
    [] p.kind = "AllDiffValue" -> wakeupAllDiffValue(s, p, i)
    [] p.kind = "Circuit" -> wakeupCircuit(s, p, i, events)
    [] OTHER -> pushInQueue(s, p.id)

propagateGlobal(s, p) ==
  CASE p.kind = "BinGE" -> propagateBinGE(s, p)
    [] p.kind = "AllDiffDomain" -> propagateAllDiffDomain(s, p)
    [] p.kind = "AllDiffValue" -> propagateAllDiffValue(s, p)
    [] p.kind = "Disjunctive" -> propagateDisjunctive(s, p)
    [] p.kind = "Cumulative" -> propagateCumulative(s, p)
    [] p.kind = "Circuit" -> propagateCircuit(s, p)

\* Propagators with a lower number run first
priorityGlobal(p) ==
  CASE p.kind = "BinGE" -> 0
    [] p.kind = "AllDiffValue" -> 2
    [] p.kind \in {"Disjunctive", "Cumulative"} -> 3
    [] p.kind \in {"AllDiffDomain", "Circuit"} -> 5

clearGlobal(p, k) ==
  CASE p.kind = "AllDiffValue" -> clearAllDiffValue(k)
    [] p.kind = "Circuit" -> clearCircuit(k)
    [] OTHER -> k
satisfiedGlobal(s, p) == p.kind = "BinGE" /\ knownGE(s, p)
untrailedGlobal(p, before, now) ==
  IF p.kind = "Cumulative" THEN [before EXCEPT !.task_id = now.task_id] ELSE before

=============================================================================
