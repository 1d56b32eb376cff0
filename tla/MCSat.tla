-------------------------------- MODULE MCSat --------------------------------
(* Instances of Sat. *)
EXTENDS Sat

(* With propagators: an integer variable in 0..1 whose bound literal is 1 and *)
(* whose valLit is 2, Booleans 3 and 4; one propagator that explains eagerly  *)
(* and infers two literals in a call, one that explains lazily.  Literal 5 is *)
(* posted first: one clause is true and one is shortened when they are added. *)
MixedProblem == << <<5>>, <<1, 5>>, <<1, -5, 3, 4>>, <<-1, -3, 4>> >>
MixedInference ==
  { [body |-> {-1}, heads |-> {2}, kind |-> "short"],
    [body |-> {1}, heads |-> {2}, kind |-> "short"],
    [body |-> {3}, heads |-> {1, 4}, kind |-> "eager"],
    [body |-> {4}, heads |-> {-1}, kind |-> "lazy"],
    [body |-> {-1, 3}, heads |-> {4}, kind |-> "short"] }

(* Clauses only: 1 and 2 make a conflict, 1 and 4 imply 2 and 3 and then one. *)
CrossProblem == << <<-1, -2, 3>>, <<-1, -2, -3>>, <<-1, -4, 2>>, <<-1, -4, 3>> >>

(* Clauses only, with four solutions over three variables. *)
PairProblem == << <<1, 2>>, <<1, 3>>, <<2, 3>> >>

(* All that analysis meets, with a database that is halved at two.  *)
Mixed == [Var |-> 1..5, Problem |-> MixedProblem, Inference |-> MixedInference, Hidden |-> {2}, Output |-> {2, 3},
          one_watch |-> TRUE, bin_clause_opt |-> TRUE, nof_learnts |-> 2, nof_solutions |-> 0, restart_scale |-> 0]
Clauses(problem, out) ==
  [Mixed EXCEPT !.Var = 1..4, !.Problem = problem, !.Inference = {}, !.Hidden = {}, !.Output = out]

(* Restarts every two conflicts, learnt binary clauses kept as objects. *)
Restarting == [Clauses(CrossProblem, {1}) EXCEPT !.bin_clause_opt = FALSE, !.restart_scale = 2]

(* As many solutions are asked for as there are. *)
Counted == [Clauses(PairProblem, 1..3) EXCEPT !.Var = 1..3, !.nof_learnts = 100, !.nof_solutions = 4]

(* Learnt clauses watched on two literals. *)
TwoWatched == [Clauses(CrossProblem, {1}) EXCEPT !.one_watch = FALSE]

AllRuns == <<Mixed, Restarting, Counted, TwoWatched>>
=============================================================================
