------------------------------ MODULE MCIntVars ------------------------------
(* A variable with four values. *)
EXTENDS IntVars

Gaps == <<1, 3, 4, 7>>
=============================================================================
