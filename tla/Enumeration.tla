----------------------------- MODULE Enumeration -----------------------------
(* What the search promises for a satisfaction problem: it prints solutions, *)
(* and stops either with as many as were asked for or when no other is left. *)
EXTENDS Naturals, FiniteSets

VARIABLES
  solutions,   \* what can be printed
  wanted,      \* how many are asked for, 0 for all
  found,       \* printed so far
  printed,     \* how many times something was printed, 0 when all are asked for
  answer       \* "running", "SAT" (enough were found) or "GUN" (there are no more)

EInit == found = {} /\ printed = 0 /\ answer = "running"

Find ==
  /\ answer = "running"
  /\ \E s \in solutions : found' = found \cup {s}
  /\ printed' = IF wanted > 0 THEN printed + 1 ELSE 0
  /\ answer' = IF wanted > 0 /\ printed' = wanted THEN "SAT" ELSE "running"

Exhaust ==
  /\ answer = "running"
  /\ found = solutions
  /\ answer' = "GUN"
  /\ UNCHANGED <<found, printed>>

ENext == (Find \/ Exhaust) /\ UNCHANGED <<solutions, wanted>>

ESpec == EInit /\ [][ENext]_<<solutions, wanted, found, printed, answer>>
=============================================================================
