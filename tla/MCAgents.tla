------------------------------ MODULE MCAgents ------------------------------
(***************************************************************************)
(* Instances for TLC of the modules about the agents' work: Crew with the  *)
(* orchestrator runs of MCGraphOrchestrator, Optimizer and Knowledge.  The *)
(* three share no state: each behaviour follows one of them.               *)
(***************************************************************************)
EXTENDS Crew, MCGraphOrchestrator, Optimizer, Knowledge

-----------------------------------------------------------------------------
(* Crews over the plans of MCGraphOrchestrator.                             *)

MCRolePatterns == [analyst |-> {"read"}, db_agent |-> {"sql"}, orchestrator |-> {}, guest |-> {}]
MCMatches == {<<"read", "read_file">>, <<"sql", "sql_delete">>}

A(role, patterns) == [role |-> role, patterns |-> patterns]

\* No agent; scopes that differ; one that is overridden with nothing.
MCCrews == {
    <<>>,
    <<A("analyst", Nil), A("db_agent", Nil)>>,
    <<A("orchestrator", Nil), A("guest", {"read"})>>,
    <<A("analyst", {}), A("orchestrator", {"sql"})>> }

-----------------------------------------------------------------------------
(* Traces of two pairs; the default prompt of one addresses a theme.        *)

CONSTANTS p1, p2

T(p, themes) == [pair |-> p, themes |-> themes]

MCTrace == {T(p1, {"word"}), T(p1, {"field", "other"}), T(p1, {})}
MCSynthetic == <<T(p1, {"other"}), T(p2, {"term"})>>
MCDemos == {"word"}
MCBase == [p \in Pair |-> IF p = p1 THEN {"field"} ELSE {}]

-----------------------------------------------------------------------------
(* Blank texts, paragraphs that fit, that are merged, and that are cut.     *)

D(id, len) == [id |-> id, len |-> len]

MCDocument ==
    {<<>>}
    \cup {[k \in 1..n |-> <<D(k, lens[k])>>] : n \in {2, 4}, lens \in [1..4 -> {1, 3}]}
    \cup {<<<<D(1, a), D(2, b)>>, <<D(3, c), D(4, 1)>>>> : a \in {1, 3}, b \in {2, 5}, c \in {1, 3}}

-----------------------------------------------------------------------------
VARIABLE side    \* "agents", "optimizer" or "knowledge"

allAgentsVars == <<allVars, optimizerVars, knowledgeVars, side>>

MCInit ==
    /\ CrewInit /\ OptimizerInit /\ KnowledgeInit
    /\ side \in {"agents", "optimizer", "knowledge"}
    \* The state of the other sides is the same throughout.
    /\ side # "agents" => kick = "direct" /\ ~PLAN_PARALLEL_ENABLED
    /\ side # "knowledge" => backend = "memory"

Agents(Move) == side = "agents" /\ Move /\ UNCHANGED <<optimizerVars, knowledgeVars, side>>

MCNext ==
    \/ Agents(CrewNext)
    \/ side = "optimizer" /\ OptimizerNext /\ UNCHANGED <<allVars, knowledgeVars, side>>
    \/ side = "knowledge" /\ KnowledgeNext /\ UNCHANGED <<allVars, optimizerVars, side>>

\* The fairness of CrewSpec.
MCSpec ==
    /\ MCInit /\ [][MCNext]_allAgentsVars
    /\ WF_allAgentsVars(Agents(CrewStep))
    /\ WF_allAgentsVars(Agents(kick = "direct" /\ NodeStep /\ UNCHANGED crewVars))

\* EveryRunEnds of Crew, for the behaviours that are runs of agents
\* (graph_orchestrator.py:342, crew.py:447).
EveryAgentRunEnds == side = "agents" => EveryRunEnds

=============================================================================
