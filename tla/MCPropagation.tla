--------------------------- MODULE MCPropagation ---------------------------
(* Small problems for Propagation. *)
EXTENDS Propagation

CONSTANTS vx, vy, vz, vr

Three == [v \in {vx, vy, vz} |-> 0 .. 2]
ge(a, b, c, reif) == [kind |-> "GE", xs |-> <<a, b>>, c |-> c, r |-> reif, priority |-> 0]
ne(a, b, c, reif) == [kind |-> "NE", xs |-> <<a, b>>, c |-> c, r |-> reif, priority |-> 0]
minimum(a, b, m) == [kind |-> "MIN", xs |-> <<a, b, m>>, c |-> 0, r |-> Always, priority |-> 1]
alldiff(xs) == [kind |-> "ALLDIFF", xs |-> xs, c |-> 0, r |-> Always, priority |-> 2]

(* vz = min(vx, vy), vy < vx or vr is false, vy is not vz; one of vx > 0 and vr. *)
MixedDomains == Three @@ (vr :> {0, 1})
MixedProps == <<minimum(vx, vy, vz), ge(vx, vy, 1, vr), ne(vy, vz, 0, vr)>>
MixedClauses == {{<<vx, 1 .. 2>>, <<vr, {1}>>}, {<<vy, 0 .. 1>>, <<vz, 0 .. 1>>}}

(* vx, vy and vz all different, and vz not below vy; one of them is 1. *)
DiffProps == <<alldiff(<<vx, vy, vz>>), ge(vz, vy, 0, Always)>>
DiffClauses == {{<<vx, {1}>>, <<vy, {1}>>, <<vz, {1}>>}}

Problem(props, clauses, switch) == [Props |-> props, Clauses |-> clauses, MaySwitch |-> switch]

(* AllDiffValue only without the switch, under which it does not keep what is *)
(* checked here: that is the run of Switching.                                *)
Both == <<Problem(MixedProps, MixedClauses, TRUE), Problem(DiffProps, DiffClauses, FALSE)>>
Switching == <<Problem(DiffProps, DiffClauses, TRUE)>>
=============================================================================
