------------------------ MODULE MCMaterializedViews ------------------------
(* Instances of MaterializedViews. *)
EXTENDS MaterializedViews

MCKeys == {1, 2}
MCRow == {<<1, 1>>, <<1, 2>>, <<2, 0>>}
MCPinned == {<<1, 1>>}
Def(aggs, shape, filter) == [aggs |-> aggs, shape |-> shape, filter |-> filter]

\* One definition for each outcome of the analysis.
MCDefinitions ==
    {Def({"COUNT_STAR", "COUNT", "SUM", "AVG"}, "single", FALSE),
     Def({"COUNT_STAR", "COUNT", "SUM", "MAX"}, "single", FALSE),
     Def({"COUNT_STAR", "SUM"}, "single", FALSE),
     Def({"COUNT_STAR", "MAX"}, "join", FALSE),
     Def({"COUNT_STAR"}, "single", TRUE),
     Def({"SUM"}, "other", FALSE)}

============================================================================
