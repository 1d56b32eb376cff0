-------------------------- MODULE MCAssumptionNogood --------------------------
(* Instances of AssumptionNogood. *)
EXTENDS AssumptionNogood

Nine == 1..9

(* A false assumption of several others, a conflict, one that is false at the  *)
(* root, two that contradict each other, and some that can all be true.         *)
Several == {<<1, 2, 3, 9, 4>>, <<2, 1, 4>>, <<4, 1, 2>>, <<1, -7, 2>>, <<2, -9>>, <<1, -1>>, <<1, 5, 2>>, <<3, 1, 8, 6, 4>>, <<2, 4, 1, 3>>}

(* 7 is a fact and 3 becomes true by the others, 9 is true at the root.  The    *)
(* false assumption is explained by a clause, what leads to it in every way.    *)
Layered ==
  { [body |-> {1, 7}, heads |-> {5, 8}, lazy |-> FALSE],
    [body |-> {7}, heads |-> {9}, lazy |-> FALSE],
    [body |-> {2, 5}, heads |-> {3}, lazy |-> TRUE],
    [body |-> {3, 8}, heads |-> {6}, lazy |-> TRUE],
    [body |-> {5, 6, 9}, heads |-> {-4}, lazy |-> FALSE],
    [body |-> {2, 8}, heads |-> {6}, lazy |-> FALSE],
    [body |-> {2, 3, 5}, heads |-> {-4}, lazy |-> FALSE] }
================================================================================
