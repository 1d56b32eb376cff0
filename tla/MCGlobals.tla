----------------------------- MODULE MCGlobals -----------------------------
(***************************************************************************)
(* Instances of Propagators for the constraints of Globals.                *)
(***************************************************************************)
EXTENDS MCPropagators, Globals

Tasks(ds, starts) ==
  Lazy(Making(Bs(3), AnArray("chuffed_disjunctive_strict", <<X3, ds>>, Each(S3, starts) @@ All(Bs(3), B))))

\* Tasks whose durations and usages are numbers, or variables
Sharing(ann, ds, rs, limit, starts) ==
  With(ann, AnArray("chuffed_cumulative", <<Vs(SubSeq(X4, 1, Len(ds))), ds, rs, limit>>, Each(SubSeq(X4, 1, Len(ds)), starts)))
Spending(ann, starts, ds, rs, limits) ==
  LET names(a) == SubSeq(a, 1, Len(starts))
  IN  With(ann, AnArray("chuffed_cumulative_vars", <<Vs(names(S3)), Vs(names(A3)), Vs(names(Y3)), V("z")>>,
                        Each(names(S3), starts) @@ Each(names(A3), ds) @@ Each(names(Y3), rs) @@ ("z" :> limits)))

\* Tasks that wait for others, that are put aside for more urgent ones, or that
\* start after a time without work
MCDisjunctive ==
  {Tasks(<<1, 1, 1>>, <<0 .. 2, 0 .. 2, 0 .. 1>>), Tasks(<<1, 3, 1>>, <<0 .. 3, 1 .. 2, 0 .. 2>>),
   Tasks(<<2, 1, 1>>, <<0 .. 2, {1, 2}, {4, 5}>>), Tasks(<<1, 2, 2>>, <<{0, 5}, 2 .. 3, 2 .. 4>>),
   Tasks(<<1, 1, 1>>, <<{0, 4}, 0 .. 1, 3 .. 4>>)}

\* Windows that are too full, that leave no room for another task, or that tasks
\* are partly in; a limit that varies; fixed tasks, times before 0
MCSharing ==
  {Sharing("", <<2, 2, 1>>, <<1, 2, 1>>, 2, <<0 .. 2, 0 .. 2, 0 .. 3>>),
   Sharing("", <<1, 1, 1>>, <<1, 2, 1>>, 2, <<{1}, 0 .. 2, B>>),
   Sharing("", <<1, 1, 1>>, <<1, 1, 1>>, 3, <<{1}, 0 .. 2, B>>),
   Spending("", <<B, B>>, <<B, {1}>>, <<{1}, 0 .. 2>>, 1 .. 2)}
  \cup Lazily({Sharing("ttef_check_on", <<2, 2, 2>>, <<1, 1, 1>>, 1, <<0 .. 3, 0 .. 3, 1 .. 3>>),
               Sharing("ttef_check_on", <<1, 1, 1>>, <<1, 1, 1>>, 1, <<0 .. 2, B, B>>),
               Sharing("ttef_check_on", <<1, 1, 1, 1>>, <<1, 2, 1, 2>>, 2, <<{0, 1, 3}, B, B, {0, 1, 3}>>),
               Spending("ttef_check_on", <<B, B>>, <<{1}, 1 .. 2>>, <<{1}, {1}>>, 1 .. 2),
               Spending("ttef_check_on", <<B, B, B>>, <<{1}, {1}, {1}>>, <<{1}, {1}, {1}>>, 1 .. 2),
               Sharing("ttef_filt_on", <<3, 2, 2>>, <<1, 1, 1>>, 2, <<0 .. 3, 0 .. 3, 0 .. 2>>),
               Sharing("ttef_filt_on", <<1, 1, 1>>, <<1, 1, 1>>, 1, <<0 .. 2, B, 0 .. 2>>),
               Sharing("ttef_filt_on", <<1, 1, 1, 1>>, <<1, 1, 1, 1>>, 1, <<0 .. 2, B, {0, 1, 3}, {0, 3}>>),
               Sharing("ttef_filt_on", <<1, 1, 1, 1>>, <<1, 1, 1, 1>>, 1, <<{1, 3}, 2 .. 3, {0, 2, 3}, {0, 3}>>),
               Sharing("ttef_filt_on", <<2, 1, 1>>, <<1, 2, 1>>, 2, <<0 .. 2, 1 .. 2, 0 .. 2>>),
               Sharing("ttef_filt_on", <<2, 1, 1>>, <<1, 1, 2>>, 2, <<-2 .. 0, -1 .. 0, -1 .. 0>>),
               Sharing("ttef_filt_on", <<2, 1, 1, 1>>, <<1, 2, 2, 2>>, 2, <<0 .. 3, {0, 2}, 0 .. 2, 0 .. 2>>),
               Sharing("ttef_filt_on", <<2, 1, 1, 1>>, <<1, 2, 2, 2>>, 2, <<0 .. 3, {2, 4}, {2, 4}, 2 .. 4>>)})

Circuit(names, offset, ds) == AnArray("chuffed_circuit", <<Vs(names), offset>>, Each(names, ds))
X5 == X4 \o <<"x5">>
X6 == X5 \o <<"x6">>

\* With five and six nodes, nodes that are left by one arc or not at all
MCGraphs ==
  {Circuit(X4, 1, <<1 .. 3, {1, 3, 4}, 1 .. 4, {1, 2, 4}>>),
   Circuit(X5, 1, <<{2, 3, 5}, {1, 3, 4}, {2, 4}, {1, 5}, {1, 3, 4}>>),
   Circuit(X5, 1, <<{2, 4, 5}, {1, 3}, {1, 2}, {2, 5}, {3, 4}>>),
   Circuit(X6, 1, <<2 .. 4, {1, 3}, 1 .. 2, {1, 5, 6}, {4, 6}, 4 .. 5>>),
   Lazy(Circuit(X6, 1, <<2 .. 3, {1, 3}, {1, 2, 4, 5}, 5 .. 6, {4, 6}, {1, 2, 4, 5}>>))}

MCGlobalInstances == MCDisjunctive \cup MCSharing \cup MCGraphs

=============================================================================
