-------------------------------- MODULE MCSearch --------------------------------
(* Instances of Search: the objective o, a status variable s and y, which the  *)
(* other hooks read and assign.                                               *)
EXTENDS Search

Names == {"o", "s", "y"}
Dom == [o |-> 1..3, s |-> {1, 2, 4}, y |-> 0..1]
Box(S, Y) == {p \in [Names -> 0..4] : p["o"] \in 1..3 /\ p["s"] \in S /\ p["y"] \in Y}

(* o = 1 has no solution, but no single propagation needs to see it. *)
SmallPoint == Box({1}, 0..1)
SmallSolution == {p \in SmallPoint : p["o"] = 3 \/ (p["o"] = 2 /\ p["y"] = 1)}

is(x, v) == {p \in SmallPoint : p[x] = v}

Plain == [lazy |-> TRUE, goal |-> "min", nof |-> 0, assume |-> <<>>, hooks |-> {}, index |-> -1,
          restarts |-> TRUE, switches |-> FALSE, time_out |-> FALSE]

Assumed == {<<>>, <<is("y", 1)>>, <<is("y", 0), is("o", 2)>>, <<is("y", 0), is("o", 1)>>}

Learning ==
  {[Plain EXCEPT !.goal = g, !.assume = a, !.switches = w, !.time_out = w] :
     g \in {"all", "min", "max"}, a \in Assumed, w \in BOOLEAN}
  \cup {[Plain EXCEPT !.goal = "all", !.nof = 2]}
Plainly ==
  {[Plain EXCEPT !.lazy = FALSE, !.goal = g, !.assume = a, !.restarts = FALSE] :
     g \in {"all", "min", "max"}, a \in Assumed}
Hooked ==
  {[Plain EXCEPT !.goal = g, !.hooks = h] :
     g \in {"all", "min"}, h \in {{"last"}, {"uniform"}, {"sol"}, {"complete"}}}
  \cup {[Plain EXCEPT !.hooks = {"status"}, !.index = i] : i \in 0..1}

All == Learning \cup Plainly \cup Hooked
================================================================================
