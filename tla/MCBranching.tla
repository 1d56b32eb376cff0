----------------------------- MODULE MCBranching -----------------------------
(* Instances of Branching. *)
EXTENDS Branching

Search(call, xs, vb, pv) == [call |-> call, x |-> xs, vb |-> vb, pv |-> pv, ann |-> <<>>]
Seq1(ann) == [call |-> "seq_search", x |-> <<>>, vb |-> "INORDER", pv |-> "DEFAULT", ann |-> ann]
Priority(xs, vb, ann) == [call |-> "priority_search", x |-> xs, vb |-> vb, pv |-> "DEFAULT", ann |-> ann]
Warm(lits) == [call |-> "warm_start", x |-> lits, vb |-> "INORDER", pv |-> "DEFAULT", ann |-> <<>>]
Config(ann, v, t) == [ann |-> ann, vsids |-> v, toggle |-> t]

Three == ("x" :> 0..2) @@ ("y" :> {0, 1, 3}) @@ ("b" :> {0, 1})
Busy == <<<<"y", 3>>, <<"x", 1>>, <<"b", 1>>, <<"x", 0>>, <<"x", 2>>, <<"y", 0>>, <<"y", 1>>>>

Warmed == <<Warm(<<<<"b", 1>>, <<"x", 1>>, <<"y", 0>>>>), Search("int_search", <<"x", "y">>, "REGRET_MIN_MAX", "MEDIAN")>>
Nested == <<Seq1(<<Search("bool_search", <<"b">>, "INORDER", "MAX"), Search("int_search", <<"x", "y">>, "SIZE_MIN", "SPLIT_MIN")>>)>>
Prior == <<Priority(<<"y", "x">>, "MAX_MAX", <<Search("int_search", <<"x">>, "INORDER", "SPLIT_MAX"), Search("int_search", <<"b", "y">>, "RANDOM", "MIN")>>)>>
Plain == <<Search("int_search", <<"y", "x">>, "MAX_MIN", "MAX")>>

All == {Config(Warmed, FALSE, TRUE), Config(Nested, FALSE, TRUE), Config(Prior, FALSE, FALSE), Config(Plain, TRUE, TRUE), Config(<<>>, FALSE, TRUE)}

(* Only a warm start, and the search that alternates with VSIDS ("-f").         *)
Lone == {Config(<<Warm(<<<<"b", 1>>>>)>>, FALSE, TRUE)}
================================================================================
