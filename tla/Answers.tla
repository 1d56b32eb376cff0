-------------------------------- MODULE Answers --------------------------------
(* What a run of chuffed tells its user: solutions, each one wanted at that   *)
(* time, and then why it stops (Engine::solve).                               *)
EXTENDS Integers, FiniteSets

VARIABLES
  wanted,   \* the solutions that would still be news: not printed, better than the last one
  printed,  \* the solutions printed
  marked,   \* the model's own complete() has told the search to stop
  answer    \* "running", or the last line of the output

vars == <<wanted, printed, marked, answer>>

AInit == printed = {} /\ answer = "running" /\ marked = FALSE

Find ==
  /\ answer = "running"
  /\ \E s \in wanted : printed' = printed \cup {s} /\ s \notin wanted'
  /\ wanted' \subseteq wanted

(* That no solution, or no other or better one, exists is a claim about all    *)
(* that is left.                                                              *)
Conclude ==
  /\ answer = "running"
  /\ wanted = {} \/ marked
  /\ answer' = IF printed = {} THEN "UNSATISFIABLE" ELSE "COMPLETE"
  /\ UNCHANGED <<wanted, printed>>

(* As many solutions as were asked for, or the time is up. *)
Stop == answer = "running" /\ answer' \in {"SAT", "UNK"} /\ UNCHANGED <<wanted, printed>>

Mark == answer = "running" /\ marked' /\ UNCHANGED <<wanted, printed, answer>>

(* The last solution may be printed by the step that also ends the search. *)
FindLast ==
  /\ answer = "running"
  /\ \E s \in wanted :
       /\ printed' = printed \cup {s} /\ s \notin wanted'
       /\ wanted' \subseteq wanted
       /\ \/ answer' = "COMPLETE" /\ (wanted' = {} \/ marked)
          \/ answer' = "SAT"

ANext == ((Find \/ Conclude \/ Stop \/ FindLast) /\ marked' = marked) \/ Mark

ASpec == AInit /\ [][ANext]_vars
================================================================================
