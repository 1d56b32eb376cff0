--------------------------- MODULE MCPropagators ---------------------------
(***************************************************************************)
(* Instances of Propagators: each constraint over a few variables, with    *)
(* domains for the cases of its propagators.  Left out are those that the  *)
(* README gives under "Observations", for which the code does not keep its *)
(* constraint: the failure of the upper filter of AllDiffBoundsImp among   *)
(* them, which takes wider domains than 0 .. 2.                            *)
(***************************************************************************)
EXTENDS Propagators, Registry, FlatZinc

Con(con, op, args, domains) ==
  [con |-> con, op |-> op, args |-> args, ann |-> "", new |-> <<>>, lazy |-> FALSE,
   dom |-> domains, prunes |-> "less"]
Lazy(i) == [i EXCEPT !.lazy = TRUE]
Lazily(S) == {Lazy(i) : i \in S}
Pruning(how, S) == {[i EXCEPT !.prunes = how] : i \in S}

B == 0 .. 1
V(v) == [var |-> v]
K(k) == [val |-> k]
X == V("x")
Y == V("y")
Z == V("z")
R == V("r")
XY(dx, dy) == ("x" :> dx) @@ ("y" :> dy)
XYZ(dx, dy, dz) == XY(dx, dy) @@ ("z" :> dz)
WithR == "r" :> B
Vs(names) == [j \in DOMAIN names |-> V(names[j])]
All(names, d) == [v \in Range(names) |-> d]
S2 == <<"x1", "x2">>
S3 == <<"x1", "x2", "x3">>
Ops == {"eq", "ne", "le", "lt", "ge", "gt"}

Unary(con, dx, dy) == Con(con, "", <<X, Y>>, XY(dx, dy))
Binary(con, dx, dy, dz) == Con(con, "", <<X, Y, Z>>, XYZ(dx, dy, dz))

MCArithmetic ==
  Lazily({Unary("int_abs", -2 .. 3, 0 .. 2), Unary("int_abs", -3 .. -1, 0 .. 4),
          Unary("int_abs", {-4, -1, 2, 4}, -1 .. 5), Unary("range_size_fzn", 1 .. 4, 0 .. 4),
          Binary("int_pow", 0 .. 2, 1 .. 3, {-1, 0, 1, 2, 4, 8, 9}),
          Binary("int_times", -2 .. 2, -1 .. 2, {-4, -2, -1, 0, 1, 3, 4}),
          Binary("int_times", {-3, -2, 0, 1}, {-3, -1, 2}, {-6, -2, 3, 9}),
          Binary("int_times", 0 .. 3, 0 .. 2, {0, 1, 3, 4, 6, 7}),
          Binary("int_times", {-3, -1, 0}, {-2, -1}, {0, 2, 3, 6}),
          Binary("int_times", {1, 2, 3}, {-2, 0}, {-6, -4, -1, 0}),
          Binary("int_min", 0 .. 2, {0, 1, 3}, -1 .. 3), Binary("int_max", 0 .. 2, {0, 1, 3}, -1 .. 3)}
         \cup Pruning("bounds", {Binary("int_div", {0, 3, 4, 7}, 1 .. 3, 0 .. 4),
                                 Binary("int_div", {6, 8, 12}, {-4, -2, -1}, {-8, -6, -4, -3, 0}),
                                 Binary("int_div", {-8, -6, 0}, {1, 2, 4}, {-8, -6, -4, -3, 0}),
                                 Binary("int_div", {-5, -4, -1}, {-3, -2}, 0 .. 3)}))

Comparison(con, op, args, domains) ==
  IF "var" \in DOMAIN args[1] /\ "var" \in DOMAIN args[2]
  THEN Pruning("bounds", {Con(con, op, args, domains)})
  ELSE Pruning(IF con = "int_CMP" THEN "domain" ELSE "bounds", {Con(con, op, args, domains)})

\* Implied and equivalent, with r open, and with a constant for it
Behind(op, args, domains) ==
  UNION {Comparison(con, op, args \o <<R>>, domains @@ WithR) : con \in {"int_CMP_imp", "int_CMP_reif"}}
Given(op, args, domains) ==
  UNION {Comparison(con, op, args \o <<K(k)>>, domains) : con \in {"int_CMP_imp", "int_CMP_reif"}, k \in B}

MCBinary ==
  UNION {Comparison("int_CMP", op, <<X, Y>>, XY(0 .. 3, {-1, 0, 2, 3}))
         \cup Comparison("int_CMP", op, <<X, K(2)>>, "x" :> 0 .. 4)
         \cup Comparison("int_CMP", op, <<K(1), X>>, "x" :> 0 .. 4)
         \cup Behind(op, <<X, Y>>, XY(0 .. 2, {-1, 1, 2}))
         \cup Behind(op, <<X, K(2)>>, "x" :> 0 .. 4)
         \cup Behind(op, <<K(2), X>>, "x" :> 0 .. 4) : op \in Ops}
  \cup UNION {Pruning("less", Given(op, <<X, Y>>, XY(0 .. 2, 1 .. 3)))
                \cup Given(op, <<X, K(1)>>, "x" :> 0 .. 2) \cup Given(op, <<K(1), X>>, "x" :> 0 .. 2) : op \in Ops}
  \cup {Con("set_in", "", <<X, d>>, "x" :> 0 .. 4) : d \in {1 .. 3, {0, 2, 5}, {7}}}
  \cup {[Con("set_in_reif", "", <<X, 1 .. 3, R>>, ("x" :> 0 .. 4) @@ WithR @@ All(S2, B)) EXCEPT !.new = S2],
         [Con("set_in_reif", "", <<X, {0, 2, 3}, R>>, ("x" :> 0 .. 4) @@ WithR @@ All(S3, B)) EXCEPT !.new = S3]}
  \cup Pruning("bounds", {Unary("int_negate", -1 .. 2, -2 .. 2), Binary("int_plus", 0 .. 2, -1 .. 1, 0 .. 2),
                          Binary("int_minus", 0 .. 2, -1 .. 1, 0 .. 2)})

Linear(op, c, ks, d) == Con("int_lin_CMP", op, <<ks, Vs(SubSeq(S3, 1, Len(ks))), K(c)>>, All(SubSeq(S3, 1, Len(ks)), d))
Reified(op, c, ks, d) ==
  Con("int_lin_CMP_reif", op, <<ks, Vs(SubSeq(S3, 1, Len(ks))), K(c), R>>, All(SubSeq(S3, 1, Len(ks)), d) @@ WithR)

Signs == {<<1, -1>>, <<-1, 1>>, <<1, 1>>, <<-1, -1>>}

MCLinear ==
  {[Linear(op, 2, <<2, -1, 1>>, 0 .. 2) EXCEPT !.lazy = op # "ne"] : op \in Ops}
  \cup {Linear("ne", 3, <<2, 3>>, -1 .. 2), Linear("eq", -2, <<1, 1, 1>>, B),
        [Reified("lt", 1, <<1, -1>>, 0 .. 3) EXCEPT !.args[4] = K(0), !.dom = All(S2, 0 .. 3)]}
  \cup {Reified(op, 1, <<1, 1, -2>>, B) : op \in Ops}
  \cup {Reified(op, 1, ks, -1 .. 1) : op \in Ops, ks \in Signs}
  \cup Pruning("bounds", {Linear(op, -1, ks, -2 .. 1) : op \in Ops, ks \in Signs})
  \cup UNION {Pruning("bounds", {Linear(op, 2, ks, -3 .. 3), Reified(op, 2, ks, -3 .. 3)})
                : op \in Ops, ks \in {<<1>>, <<-1>>}}

X3 == Vs(S3)
Some(con, op, args, domains) == Con(con, op, args, All(S3, B) @@ domains)
None == "r" :> {0}

MCBooleans ==
  Pruning("domain",
    {Con("bool_CMP", op, Vs(S2), All(S2, B)) : op \in Ops \cup {"not"}}
    \cup {Con("bool_CMP", op, <<V("x1"), K(k)>>, All(<<"x1">>, B)) : op \in {"eq", "le"}, k \in B}
    \cup {Con("bool_CMP_reif", op, X3, All(S3, B)) : op \in Ops \cup {"and", "or", "xor", "left_imp", "right_imp"}}
    \cup {Con("bool_CMP_reif", op, <<K(k), V("x2"), V("x3")>>, All(<<"x2", "x3">>, B)) : op \in {"and", "gt"}, k \in B}
    \cup {Con("bool_eq_imp", "", args, All(S3, B))
            : args \in {X3, <<V("x1"), K(0), V("x3")>>, <<K(1), V("x2"), V("x3")>>, <<V("x1"), V("x2"), K(0)>>, <<V("x1"), V("x2"), K(1)>>}}
    \cup {Some("bool_clause", "", <<Vs(S2), <<V("x3")>>>>, <<>>), Some("bool_clause", "", <<<<K(0)>>, X3>>, <<>>),
          Some("bool_clause_reif", "", <<Vs(S2), <<V("x3")>>, R>>, WithR),
          Some("array_bool_or", "", <<X3, R>>, WithR), Some("array_bool_and", "", <<X3, R>>, WithR),
          Con("bool2int", "", <<R, Y>>, ("y" :> -1 .. 3) @@ WithR)}
    \cup {Some("bool_sum_CMP", op, <<X3, Y>>, "y" :> -1 .. 4) : op \in Ops \ {"ne"}}
    \cup {Some("bool_sum_CMP", "eq", <<<<K(1), V("x2"), V("x3")>>, Y>>, "y" :> {0, 2})})

A2 == <<"a1", "a2">>
A3 == <<"a1", "a2", "a3">>
Element(con, args, domains) == Con(con, "", args, domains)

Searching(ds) == [Element("array_var_int_element", <<X, Vs(A3), Y>>, ds) EXCEPT !.ann = "domain"]

MCElement ==
  Pruning("domain", {Element("array_bool_element", <<X, <<1, 0, 1>>, R>>, ("x" :> 0 .. 4) @@ WithR),
                     Element("array_int_element", <<X, <<4, 2, 4, 7>>, Y>>, XY({0, 1, 3, 4, 5}, 2 .. 7))})
  \cup {[Element("array_var_bool_element", <<X, Vs(A2), R>>,
                 ("x" :> 1 .. 2) @@ WithR @@ All(A2 \o <<"c1", "c2", "d1", "d2">>, B))
          EXCEPT !.new = <<"c1", "c2", "d1", "d2">>],
        Element("array_var_int_element", <<X, Vs(A3), Y>>,
                XY(0 .. 3, {0, 1, 3}) @@ ("a1" :> {0, 2}) @@ ("a2" :> 1 .. 2) @@ ("a3" :> {1, 3})),
        Element("array_var_int_element", <<K(1), Vs(A2), Y>>, ("y" :> 0 .. 2) @@ All(A2, 0 .. 2)),
        Element("array_var_int_element_imp", <<X, Vs(A2), Y, R>>,
                XY(0 .. 2, 0 .. 2) @@ ("a1" :> {0, 2}) @@ ("a2" :> 1 .. 2) @@ WithR),
        Searching(XY(1 .. 3, 0 .. 2) @@ ("a1" :> {0, 2}) @@ ("a2" :> {1}) @@ ("a3" :> {0, 1})),
        Searching(XY(1 .. 3, {0, 2}) @@ ("a1" :> 0 .. 2) @@ ("a2" :> 1 .. 3) @@ ("a3" :> {3}))}

X4 == <<"x1", "x2", "x3", "x4">>
Y2 == <<"y1", "y2">>
Y3 == <<"y1", "y2", "y3">>
Bs(n) == SubSeq(<<"b1", "b2", "b3", "b4">>, 1, n)
Each(names, ds) == [v \in Range(names) |-> ds[CHOOSE j \in DOMAIN names : names[j] = v]]
AnArray(con, args, domains) == Con(con, "", args, domains)
With(ann, i) == [i EXCEPT !.ann = ann]
Making(new, i) == [i EXCEPT !.new = new]
Different(names, ds) == AnArray("fzn_all_different_int", <<Vs(names)>>, Each(names, ds))
Inverses(dx, dy) == AnArray("inverse_offsets", <<X3, 1, Vs(Y3), 0>>, All(S3, dx) @@ All(Y3, dy))

MCDifferent ==
  Pruning("domain", {With("domain", Different(X4, <<0 .. 2, {0, 2}, {0, 1, 3}, {1, 3}>>)),
                     With("domain", Different(S3, <<{0, 2}, {0, 2}, 0 .. 3>>)), With("domain", Inverses(0 .. 3, 0 .. 2))})
  \cup Pruning("bounds", {Different(X4, <<0 .. 2, {0, 2}, {0, 1, 3}, 1 .. 3>>),
                          Different(S3, <<-1 .. 1, {-1, 1, 2}, 0 .. 2>>),
                          Different(S3, <<B, B, B>>), With("value", Different(S3, <<B, B, B>>))})
  \cup {AnArray("fzn_all_different_int_imp", <<X3, R>>, Each(S3, <<0 .. 2, {0, 2}, 0 .. 2>>) @@ WithR),
        With("bounds", Inverses(1 .. 3, 0 .. 2)), Inverses(1 .. 3, 0 .. 2), Inverses(1 .. 3, B)}

XsYs(d1, d2, e1, e2) == Each(S2, <<d1, d2>>) @@ Each(Y2, <<e1, e2>>)
Order(con) ==
  Making(<<"b1", "b2", "b3">>,
         AnArray(con, <<Vs(S2), Vs(Y2)>>, XsYs(0 .. 2, B, B, B) @@ All(Bs(3), B)))

Precedes(names, ds) == AnArray("chuffed_value_precede", <<1, 2, Vs(names)>>, Each(names, ds))
InSequence(names, ds) == AnArray("chuffed_seq_precede", <<Vs(names)>>, Each(names, ds))

\* The second letter comes in pairs
Automaton == <<<<1, 2>>, <<0, 1>>>>

MCArrays ==
  Pruning("domain",
    {AnArray("chuffed_table_int", <<Vs(S2), <<<<0, 1>>, <<1, 1>>, <<1, 3>>, <<2, 0>>>>>>, All(S2, 0 .. 3)),
     Making(Bs(4), AnArray("chuffed_table_int", <<X3, <<<<0, 1, 1>>, <<0, 2, 0>>, <<1, 1, 2>>, <<2, 3, 0>>>>>>,
                           All(S3, 0 .. 2) @@ All(Bs(4), B))),
     Making(<<"y1">>, AnArray("chuffed_regular", <<Vs(S2), 2, 2, Automaton, 1, 1 .. 2>>,
                              All(S2, 0 .. 3) @@ All(<<"y1">>, 1 .. 2))),
     Making(Y2 \o Bs(3), AnArray("chuffed_regular", <<X3, 2, 2, Automaton, 1, {1}>>,
                                 All(S3, 0 .. 2) @@ All(Y2, 1 .. 2) @@ All(Bs(3), B))),
     Precedes(S3, <<0 .. 2, 0 .. 2, 0 .. 2>>), Precedes(X4, <<1 .. 2, 0 .. 2, 0 .. 2, {0, 2}>>),
     Precedes(S2, <<{0, 2}, {0, 2}>>), Precedes(S3, <<{1, 3}, {0, 2}, {2}>>), Precedes(S3, <<{1, 3}, 1 .. 3, {2}>>),
     Precedes(X4, <<1 .. 2, {0, 3}, 0 .. 2, {2}>>), Precedes(X4, <<B, {0, 3}, 0 .. 2, 0 .. 2>>),
     Precedes(X4, <<{0, 2}, B, {0, 2}, 0 .. 2>>)})
  \cup {AnArray(con, <<Y, X3>>, ("y" :> -1 .. 3) @@ Each(S3, <<0 .. 2, {0, 2, 3}, 1 .. 3>>))
          : con \in {"array_int_minimum", "array_int_maximum"}}
  \cup {AnArray("chuffed_maximum_arg_bool", <<X3 \o <<K(1)>>, 1, Y>>, ("y" :> 1 .. 4) @@ All(S3, B)),
        AnArray("chuffed_seq_precede", <<X3 \o <<V("x2")>>>>, All(S3, 0 .. 3)),
        InSequence(X4, <<1 .. 4, 1 .. 4, 1 .. 4, 1 .. 4>>), InSequence(S2, <<-1 .. 0, -2 .. 0>>),
        InSequence(S2, <<2 .. 3, 0 .. 2>>), InSequence(S3, <<{0, 2}, 0 .. 2, {1, 3}>>),
        InSequence(X4, <<B, {0, 2}, 1 .. 2, {0, 3}>>)}
  \cup {Order(con) : con \in {"lex_less_int", "lex_lesseq_int"}}

MCInstances ==
  MCArithmetic \cup MCBinary \cup MCLinear \cup MCBooleans \cup MCElement \cup MCDifferent \cup MCArrays

(***************************************************************************)
(* A constraint that the code does not keep: see the run of its name.      *)
(***************************************************************************)
MCValuePrecede == {Precedes(S2, <<{1, 3}, {2, 3}>>)}

=============================================================================
