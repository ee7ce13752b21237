------------------------ MODULE MCGraphOrchestrator ------------------------
(* Small plans for GraphOrchestrator: one step, a chain, independent steps, *)
(* destructive steps, a cycle, a repeated id and an unknown reference.      *)
EXTENDS GraphOrchestrator

S(id, refs, tool) == [id |-> id, refs |-> refs, tool |-> tool]

MCTool == {"read_file", "sql_delete"}
MCDestructive == {"sql_delete"}

MCStepId == {"a", "b", "c"}

MCPlans == {
    <<S("a", {}, "read_file")>>,
    <<S("a", {}, "read_file"), S("b", {"a"}, "sql_delete"), S("c", {"a"}, "sql_delete")>>,
    <<S("b", {"a"}, "read_file"), S("a", {}, "sql_delete")>>,
    <<S("a", {}, "read_file"), S("b", {}, "read_file"), S("c", {}, "read_file")>>,
    <<S("a", {"b"}, "read_file"), S("b", {"a"}, "read_file"), S("b", {}, "read_file")>>,
    <<S("a", {}, "read_file"), S("a", {}, "sql_delete"), S("b", {"a"}, "read_file")>>,
    <<S("a", {"c"}, "read_file")>> }

\* Plans with distinct ids only.
MCPlainPlans == {
    <<S("a", {}, "read_file")>>,
    <<S("a", {}, "read_file"), S("b", {"a"}, "read_file")>>,
    <<S("a", {"c"}, "read_file")>> }

=============================================================================
