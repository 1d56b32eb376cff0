------------------------------- MODULE Domain -------------------------------
(* What an integer variable promises (vars/int-var.h): a set of values that  *)
(* is cut down to those a condition allows, exactly, that fails when none is *)
(* left, and that comes back when the search backtracks.                     *)
EXTENDS Integers, Sequences

CONSTANT Value

VARIABLES
  dom,     \* the values left
  past,    \* dom when each open level was left for the next
  failed   \* a condition was imposed that no value left satisfies

Conditions ==
  LET from(v) == {d \in Value : d >= v}
      upto(v) == {d \in Value : d <= v}
  IN {from(v) : v \in Value} \cup {upto(v) : v \in Value}
     \cup {{v} : v \in Value} \cup {Value \ {v} : v \in Value} \cup {{}}

DInit == dom \in (SUBSET Value) \ {{}} /\ past = <<>> /\ failed = FALSE

Impose ==
  /\ ~ failed
  /\ \E allowed \in Conditions :
       IF dom \cap allowed = {} THEN failed' = TRUE /\ UNCHANGED dom
       ELSE dom' = dom \cap allowed /\ UNCHANGED failed
  /\ UNCHANGED past

OpenLevel == ~ failed /\ past' = Append(past, dom) /\ UNCHANGED <<dom, failed>>

GoBack(l) == dom' = past[l + 1] /\ past' = SubSeq(past, 1, l) /\ failed' = FALSE

DNext == Impose \/ OpenLevel \/ \E l \in 0 .. Len(past) - 1 : GoBack(l)

DSpec == DInit /\ [][DNext]_<<dom, past, failed>>
=============================================================================
