------------------------------- MODULE MCTrail -------------------------------
(* Small instance of Trail for TLC: two data with two values, two variables, *)
(* three levels.  The bounds let a level be opened with no write in it,      *)
(* written in twice, and undone through a clean-up.                          *)
EXTENDS Trail, TLC

Symmetry == Permutations(Cell) \cup Permutations(Val) \cup Permutations(Var)

=============================================================================
