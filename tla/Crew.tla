-------------------------------- MODULE Crew --------------------------------
(***************************************************************************)
(* MCPCrew.kickoff (crew.py): agents with scoped tools that work on a task *)
(* one after the other.  CrewAI runs them where it is installed; an        *)
(* ImportError, wherever it is raised, falls back to a GraphOrchestrator   *)
(* run per agent or to one LLM call per agent.                             *)
(*                                                                         *)
(* The graph runs of a crew are those of module GraphOrchestrator, with    *)
(* two differences: a tool outside the agent's scope raises, and nobody    *)
(* resumes a run that stops at an interrupt.  A run without a crew         *)
(* (kick = "direct") is the orchestrator by itself.                        *)
(*                                                                         *)
(* A text is <<0>> when it is the task, <<k>> when agent k wrote it, and   *)
(* <<>> when it is empty.                                                  *)
(***************************************************************************)
EXTENDS GraphOrchestrator, FiniteSetsExt

CONSTANTS
    Crews,          \* the sequences of agents a crew is built with
    RolePatterns,   \* ROLE_TOOL_PATTERNS
    Matches        \* <<pattern, tool>>: the pattern occurs in the tool's name

Agent == [role : DOMAIN RolePatterns, patterns : {Nil} \cup SUBSET {pair[1] : pair \in Matches}]

ASSUME CrewAssumption ==
    /\ Crews \subseteq Seq(Agent)
    /\ \A pair \in Matches : pair[2] \in Tool

VARIABLES
    crew,          \* self.agents
    kick,          \* where kickoff is: a backend, "evaluating", "returned", "raised"
    context,       \* the text handed to the next agent
    agentResults,
    verdict,       \* passed_validation, and whether an evaluator decided it
    reached        \* history: <<backend, agent, tool>> of calls of call_tool_fn

crewVars == <<crew, kick, context, agentResults, verdict, reached>>
allVars == <<vars, crewVars>>

task == <<0>>
at == Len(agentResults) + 1      \* the agent at work

-----------------------------------------------------------------------------
scope_tools(a) ==
    LET patterns == IF a.patterns = Nil THEN RolePatterns[a.role] ELSE a.patterns IN
    IF a.role = "orchestrator" THEN Tool
    ELSE {t \in Tool : \E p \in patterns : <<p, t>> \in Matches}

\* (mutant) The wrapper passes every call on.
UnscopedCall(backend, k, t) == reached' = reached \cup {<<backend, k, t>>}

\* build_scoped_call_fn: base_call_fn is reached for the agent's own tools only.
scoped_call(backend, k, t) ==
    reached' = IF t \in scope_tools(crew[k]) THEN reached \cup {<<backend, k, t>>} ELSE reached

-----------------------------------------------------------------------------
(* kickoff and the CrewAI backend.                                          *)

\* The except clause for ImportError: the runner of use_langgraph, from the start.
FallBack ==
    /\ kick' \in IF crew = <<>> THEN {"evaluating"} ELSE {"langgraph", "native"}
    /\ context' = task
    /\ agentResults' = <<>>
    /\ UNCHANGED <<crew, verdict>>

\* An import of crewai fails, before anything ran or while it runs.
CrewAIMissing ==
    /\ kick = "crewai"
    /\ FallBack
    /\ UNCHANGED <<reached, vars>>

\* An agent calls one of the tools it was given (none when wrapping failed).
CrewAICalls(k, t) ==
    /\ kick = "crewai"
    /\ t \in scope_tools(crew[k])
    /\ scoped_call("crewai", k, t)
    /\ UNCHANGED <<crew, kick, context, agentResults, verdict, vars>>

CrewAIRaises ==
    /\ kick = "crewai"
    /\ kick' = "raised"
    /\ UNCHANGED <<crew, context, agentResults, verdict, reached, vars>>

\* One result for each agent, all of them successful.
CrewAIReturns(blank) ==
    /\ kick = "crewai"
    /\ agentResults' = [k \in DOMAIN crew |->
           [task |-> task, output |-> IF k \in blank THEN <<>> ELSE <<k>>, success |-> TRUE]]
    /\ kick' = "evaluating"
    /\ UNCHANGED <<crew, context, verdict, reached, vars>>

-----------------------------------------------------------------------------
(* The sequential runners.                                                  *)

\* (mutant) The output of a failed agent, "", becomes the next one's task.
AddResultLosingTask(success, out) ==
    /\ agentResults' = Append(agentResults, [task |-> context, output |-> out, success |-> success])
    /\ context' = out
    /\ kick' = IF at = Len(crew) THEN "evaluating" ELSE kick
    /\ UNCHANGED <<crew, verdict>>

AddResult(success, out) ==
    /\ agentResults' = Append(agentResults, [task |-> context, output |-> out, success |-> success])
    /\ context' = IF success THEN out ELSE context
    /\ kick' = IF at = Len(crew) THEN "evaluating" ELSE kick
    /\ UNCHANGED <<crew, verdict>>

\* A node of the graph, with the tool calls of its steps scoped.
GraphStep ==
    /\ kick = "langgraph" /\ mode = "up"
    /\ \/ /\ \/ validate_node(context # <<>> /\ scope_tools(crew[at]) # {})
             \/ \E p \in Plans \cup {Nil} : plan_node(p)
             \/ RejectReferences \/ AskApproval \/ StartPlan \/ EndPlan
             \/ \E i \in batch : SkipStep(i)
             \/ \E v \in Verdict : evaluate_node(v)
          /\ UNCHANGED reached
       \/ \E i \in batch : CallTool(i) /\ scoped_call("langgraph", at, plan[i].tool)
       \/ \E i \in flying, out \in {"ok", "error"} :
             /\ out = "ok" => plan[i].tool \in scope_tools(crew[at])
             /\ StepEnds(i, out)
             /\ UNCHANGED reached
    /\ UNCHANGED <<crew, kick, context, agentResults, verdict>>

\* (mutant) A graph that stopped at an interrupt is resumed as if approved.
GraphReturnsApproving ==
    /\ kick = "langgraph"
    /\ node = "end" \/ mode # "up"
    /\ IF mode = "paused"
       THEN Resume("approve") /\ UNCHANGED crewVars
       ELSE /\ IF phase = "done"
               THEN \E out \in {<<at>>, <<>>} : AddResult(TRUE, out)
               ELSE AddResult(FALSE, <<>>)
            /\ StartRun /\ crashes' = 0
            /\ UNCHANGED <<runs, reached>>

\* graph.run returned its state, stopped at an interrupt or raised: anything but
\* "done" is a failure.  The next agent has a graph of its own.
GraphReturns ==
    /\ kick = "langgraph"
    /\ node = "end" \/ mode # "up"
    /\ IF phase = "done"
       THEN \E out \in {<<at>>, <<>>} : AddResult(TRUE, out)
       ELSE AddResult(FALSE, <<>>)
    /\ StartRun /\ crashes' = 0
    /\ UNCHANGED <<runs, reached>>

\* One LLM call, whatever the scope and the task are; it calls no tool.
NativeAgent(success, out) ==
    /\ kick = "native"
    /\ ~success => out = <<>>
    /\ AddResult(success, out)
    /\ UNCHANGED <<reached, vars>>

\* passed_validation: that every agent succeeded, or what the evaluator says of it.
Evaluate ==
    /\ kick = "evaluating"
    /\ verdict' \in {[by |-> "results", passed |-> \A k \in DOMAIN agentResults : agentResults[k].success]}
                      \cup [by : {"evaluator"}, passed : BOOLEAN]
    /\ kick' = "returned"
    /\ UNCHANGED <<crew, context, agentResults, reached, vars>>

EvaluatorRaises ==
    /\ kick = "evaluating"
    /\ kick' = "raised"
    /\ UNCHANGED <<crew, context, agentResults, verdict, reached, vars>>

-----------------------------------------------------------------------------
CrewInit ==
    /\ Init
    /\ \/ kick = "direct" /\ crew = <<>>
       \/ kick = "crewai" /\ crew \in Crews
    /\ context = task
    /\ agentResults = <<>>
    /\ verdict = Nil
    /\ reached = {}

CrewStep ==
    \/ CrewAIMissing \/ CrewAIRaises
    \/ \E blank \in SUBSET DOMAIN crew : CrewAIReturns(blank)
    \/ GraphStep \/ GraphReturns
    \/ \E success \in BOOLEAN, out \in {<<at>>, <<>>} : NativeAgent(success, out)
    \/ Evaluate \/ EvaluatorRaises

CrewNext ==
    \/ CrewStep
    \/ \E k \in DOMAIN crew, t \in Tool : CrewAICalls(k, t)
    \/ kick = "direct" /\ Next /\ UNCHANGED crewVars

\* LLMs, tools and CrewAI answer or raise.  Nothing is assumed of those who may answer an
\* interrupt or start a stopped run again.
CrewSpec ==
    /\ CrewInit /\ [][CrewNext]_allVars
    /\ WF_allVars(CrewStep)
    /\ WF_allVars(kick = "direct" /\ NodeStep /\ UNCHANGED crewVars)

-----------------------------------------------------------------------------
\* No agent reaches a tool outside its scope, although a plan may name any tool; and
\* no agent's graph run reaches one that needs an approval: nobody is there to give
\* it (crew.py:118 with graph_orchestrator.py:337).
ToolsWithinScope ==
    \A call \in reached :
        /\ call[3] \in scope_tools(crew[call[2]])
        /\ call[1] = "langgraph" => call[3] \notin DESTRUCTIVE_TOOLS

\* The last text a successful agent handed on before agent k, the task if there is none.
HandedOn(k) ==
    LET done == {j \in 1..k - 1 : agentResults[j].success} IN
    IF done = {} THEN task ELSE agentResults[Max(done)].output

\* What a crew reports is what happened.  Every agent has one result; an agent of a
\* runner worked on the last successful output, one that failed or that waits for an
\* approval passing nothing on; and a success of the graph runner was not had from an
\* empty text or without a tool (crew.py:447, graph_orchestrator.py:238).
CrewHonest ==
    /\ kick \in {"langgraph", "native"} =>
          /\ context = HandedOn(at)
          /\ \A k \in DOMAIN agentResults :
                /\ agentResults[k].task = HandedOn(k)
                /\ kick = "langgraph" /\ agentResults[k].success =>
                       HandedOn(k) # <<>> /\ scope_tools(crew[k]) # {}
    /\ kick = "returned" =>
          /\ Len(agentResults) = Len(crew)
          /\ verdict.by = "results" /\ verdict.passed =>
                \A k \in DOMAIN agentResults : agentResults[k].success

\* Every run comes to rest for good: it ends, waits for an answer or is dead, and no plan,
\* cyclic or with failing steps, blocks the graph; approvals, retries and replays, however
\* many an operator allows, do not go on for ever; and a crew comes back although nobody
\* answers its agents' interrupts (graph_orchestrator.py:342, :399, crew.py:447).
EveryRunEnds ==
    <>[](IF kick = "direct" THEN node = "end" \/ mode # "up"
         ELSE kick \in {"returned", "raised"})

=============================================================================
