--------------------------- MODULE BacktrackStore ---------------------------
(* What the trail of the solver promises to everything built on top of it    *)
(* (src/chuffed/core/engine.h, "Trail methods"): a store that can be written *)
(* freely, a stack of decision levels, and a way back.  Opening a level      *)
(* remembers the whole present; going back to a level restores, exactly, the *)
(* present that was remembered when the next level was opened.  How the      *)
(* program does it (undo records, positions) is left to module Trail.        *)
EXTENDS Naturals, Sequences

CONSTANT State     \* everything that is backtracked: trailed data, assigned literals

VARIABLES now,     \* the present
          past     \* past[l + 1]: the present when level l was left for level l + 1

bsVars == <<now, past>>

(* Any change of trailed data or of the assignment at the current level. *)
Change == now' \in State /\ UNCHANGED past

Open == past' = Append(past, now) /\ UNCHANGED now

GoBack(l) ==
  /\ now' = past[l + 1]
  /\ past' = SubSeq(past, 1, l)

BSInit == now \in State /\ past = <<>>

BSNext == Change \/ Open \/ \E l \in 0 .. Len(past) - 1 : GoBack(l)

BSSpec == BSInit /\ [][BSNext]_bsVars

=============================================================================
