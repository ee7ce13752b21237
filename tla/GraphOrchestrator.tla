-------------------------- MODULE GraphOrchestrator --------------------------
(***************************************************************************)
(* GraphOrchestrator.run (graph_orchestrator.py): the LangGraph machine    *)
(* validate -> plan -> execute -> evaluate -> (end | plan).                *)
(*                                                                         *)
(* The graph state is checkpointed between nodes.  What a node computes    *)
(* before it returns is local and is lost when the node is interrupted for *)
(* human approval or when the process dies; LangGraph then runs the node   *)
(* again from its beginning, and the i-th interrupt() of the node returns  *)
(* at once when i answers have been given.                                 *)
(*                                                                         *)
(* A plan is a sequence of steps; a step has an id, the ids its arguments  *)
(* refer to, and the name of its tool.  The LLM may repeat an id, refer to *)
(* an unknown one or build a cycle.                                        *)
(***************************************************************************)
EXTENDS Integers, Sequences, FiniteSets

CONSTANTS
    StepId,
    Tool, DESTRUCTIVE_TOOLS,   \* tool names, those matching a destructive pattern
    Plans,                  \* the plans the LLM may produce
    MAX_ITERATIONS,
    PLAN_MAX_PARALLEL,
    MaxCrashes,             \* bound on process exits and escaped exceptions
    MaxRuns,                \* bound on calls of run() for the thread
    Nil

Step == [id : StepId, refs : SUBSET StepId, tool : Tool]

ASSUME GraphAssumption ==
    /\ DESTRUCTIVE_TOOLS \subseteq Tool
    /\ Plans \subseteq Seq(Step) \ {<<>>}
    /\ MAX_ITERATIONS \in Nat \ {0}
    /\ PLAN_MAX_PARALLEL \in Nat \ {0}
    /\ MaxCrashes \in Nat /\ MaxRuns \in Nat \ {0}
    /\ Nil \notin Plans

VARIABLES
    PLAN_PARALLEL_ENABLED,  \* read from the environment once
    node, phase, iteration, plan, execResult, completed,  \* the checkpoint
    answers,   \* answers given to the interrupts of the current node
    mode,      \* "up", "paused" at an interrupt, or "down"
    running,   \* execute_node has passed its checks and runs the plan
    batch, flying, finished, outputs, completedIds, results,  \* its locals
    calls, answered, refused, crashes, runs    \* history: see Init

checkpoint == <<PLAN_PARALLEL_ENABLED, node, phase, iteration, plan, execResult, completed>>
locals == <<running, batch, flying, finished, outputs, completedIds, results>>
history == <<calls, answered, refused, crashes, runs>>
vars == <<checkpoint, answers, mode, locals, history>>

Verdict == {"passed", "retry", "critical"}  \* critical: not passed, score 0.0

-----------------------------------------------------------------------------
(* Static structure of a plan.                                              *)

Ids(p) == {p[i].id : i \in DOMAIN p}

_validate_step_references(p) == \A i \in DOMAIN p : p[i].refs \subseteq Ids(p)

\* deps[x]: the references of every step that carries the id x.
_build_dag(p) == [x \in Ids(p) |-> UNION {p[i].refs : i \in {k \in DOMAIN p : p[k].id = x}}]

\* graphlib raises CycleError: some set of ids only depends on itself.
Cyclic(p) ==
    \E X \in SUBSET Ids(p) \ {{}} : \A x \in X : _build_dag(p)[x] \cap X # {}

\* step_map keeps the last step of an id.
step_map(p, x) == CHOOSE i \in DOMAIN p : p[i].id = x /\ \A k \in DOMAIN p : p[k].id = x => k <= i

\* The positions that will be run: every step of a cyclic plan in turn, otherwise
\* one step for each id.
Work(p) == IF Cyclic(p) THEN DOMAIN p ELSE {step_map(p, x) : x \in Ids(p)}

\* (mutant) Every step is run as soon as there is a free slot.
GetReadyUnordered(p, done) == Work(p) \ done

\* sorter.get_ready(), or the next step of the sequential fallback.
get_ready(p, done) ==
    {i \in Work(p) \ done :
        IF Cyclic(p) THEN \A k \in Work(p) : k < i => k \in done
        ELSE \A x \in _build_dag(p)[p[i].id] : step_map(p, x) \in done}

DestructiveSteps(p) == {i \in DOMAIN p : p[i].tool \in DESTRUCTIVE_TOOLS}

\* (mutant) One interrupt, however many destructive steps there are.
InterruptOnce(p) == IF DestructiveSteps(p) = {} THEN 0 ELSE 1

\* The interrupt() calls of execute_node's scan.
Interrupts(p) == Cardinality(DestructiveSteps(p))

-----------------------------------------------------------------------------
ClearLocals ==
    /\ running' = FALSE
    /\ batch' = {} /\ flying' = {} /\ finished' = {}
    /\ outputs' = {} /\ completedIds' = {} /\ results' = {}

\* The node returns: a new checkpoint, and no answers for the node to come.
Return(next, ph) ==
    /\ node' = next
    /\ phase' = ph
    /\ answers' = 0
    /\ mode' = "up"
    /\ ClearLocals
    /\ UNCHANGED PLAN_PARALLEL_ENABLED

validate_node(valid) ==
    /\ mode = "up" /\ node = "validate"
    /\ IF valid THEN Return("plan", "plan") ELSE Return("end", "failed")
    /\ UNCHANGED <<iteration, plan, execResult, completed, history>>

\* A plan from structured output or from the JSON fallback; Nil when both fail.
plan_node(p) ==
    /\ mode = "up" /\ node = "plan"
    /\ IF p = Nil
       THEN /\ Return("end", "failed")
            /\ UNCHANGED <<plan, calls, answered, refused>>
       ELSE /\ Return("execute", "execute")
            /\ plan' = p
            /\ calls' = [i \in DOMAIN p |-> 0]
            /\ answered' = 0 /\ refused' = FALSE
    /\ UNCHANGED <<iteration, execResult, completed, crashes, runs>>

\* A reference to an unknown step: the node returns FAILED, and the edge leads to
\* evaluate all the same.
RejectReferences ==
    /\ mode = "up" /\ node = "execute" /\ ~running
    /\ ~_validate_step_references(plan)
    /\ Return("evaluate", "failed")
    /\ UNCHANGED <<iteration, plan, execResult, completed, history>>

\* interrupt() in the scan for destructive tools, one per destructive step.
AskApproval ==
    /\ mode = "up" /\ node = "execute" /\ ~running
    /\ _validate_step_references(plan)
    /\ answers < Interrupts(plan)
    /\ mode' = "paused"
    /\ UNCHANGED <<checkpoint, answers, locals, history>>

StartPlan ==
    /\ mode = "up" /\ node = "execute" /\ ~running
    /\ _validate_step_references(plan)
    /\ answers >= Interrupts(plan)
    /\ running' = TRUE
    /\ completedIds' = completed
    /\ batch' = get_ready(plan, {})
    /\ UNCHANGED <<checkpoint, answers, mode, flying, finished, outputs, results, history>>

\* Step i is over; when the whole batch is, the next one is fetched.
Finish(i, rest, aloft) ==
    /\ finished' = finished \cup {i}
    /\ flying' = aloft
    /\ batch' = IF rest \cup aloft = {} THEN get_ready(plan, finished \cup {i}) ELSE rest

Limit == IF PLAN_PARALLEL_ENABLED /\ ~Cyclic(plan) THEN PLAN_MAX_PARALLEL ELSE 1

\* _run_step up to the tool call, or past it when the id counts as completed.
SkipStep(i) ==
    /\ mode = "up" /\ i \in batch
    /\ plan[i].id \in completedIds
    /\ PLAN_PARALLEL_ENABLED \/ flying = {}
    /\ results' = results \cup {[pos |-> i, out |-> "skipped"]}
    /\ Finish(i, batch \ {i}, flying)
    /\ UNCHANGED <<checkpoint, answers, mode, running, outputs, completedIds, history>>

\* (mutant) A second interrupt, right before a destructive tool.
CallToolAsking(i) ==
    /\ mode = "up" /\ i \in batch
    /\ plan[i].id \notin completedIds
    /\ Cardinality(flying) < Limit
    /\ IF plan[i].tool \in DESTRUCTIVE_TOOLS /\ answers <= Interrupts(plan)
       THEN /\ mode' = "paused"
            /\ ClearLocals
            /\ UNCHANGED calls
       ELSE /\ flying' = flying \cup {i}
            /\ batch' = batch \ {i}
            /\ calls' = [calls EXCEPT ![i] = @ + 1]
            /\ UNCHANGED <<mode, running, finished, outputs, completedIds, results>>
    /\ UNCHANGED <<checkpoint, answers, answered, refused, crashes, runs>>

CallTool(i) ==
    /\ mode = "up" /\ i \in batch
    /\ plan[i].id \notin completedIds
    /\ Cardinality(flying) < Limit
    /\ flying' = flying \cup {i}
    /\ batch' = batch \ {i}
    /\ calls' = [calls EXCEPT ![i] = @ + 1]
    /\ UNCHANGED <<checkpoint, answers, mode, running, finished, outputs, completedIds,
                   results, answered, refused, crashes, runs>>

\* (mutant) A failed step leaves no result.
StepEndsSilently(i, out) ==
    /\ mode = "up" /\ i \in flying
    /\ IF out = "ok"
       THEN /\ outputs' = outputs \cup {plan[i].id}
            /\ completedIds' = completedIds \cup {plan[i].id}
            /\ results' = results \cup {[pos |-> i, out |-> out]}
       ELSE UNCHANGED <<outputs, completedIds, results>>
    /\ Finish(i, batch, flying \ {i})
    /\ UNCHANGED <<checkpoint, answers, mode, running, history>>

\* (mutant) A failed step is never reported to the sorter as done.
StepEndsStuck(i, out) ==
    /\ mode = "up" /\ i \in flying
    /\ results' = results \cup {[pos |-> i, out |-> out]}
    /\ IF out = "ok"
       THEN /\ outputs' = outputs \cup {plan[i].id}
            /\ completedIds' = completedIds \cup {plan[i].id}
            /\ Finish(i, batch, flying \ {i})
       ELSE /\ flying' = flying \ {i}
            /\ UNCHANGED <<outputs, completedIds, finished, batch>>
    /\ UNCHANGED <<checkpoint, answers, mode, running, history>>

\* The call returned ("ok"), raised or timed out ("error").
StepEnds(i, out) ==
    /\ mode = "up" /\ i \in flying
    /\ results' = results \cup {[pos |-> i, out |-> out]}
    /\ IF out = "ok"
       THEN /\ outputs' = outputs \cup {plan[i].id}
            /\ completedIds' = completedIds \cup {plan[i].id}
       ELSE UNCHANGED <<outputs, completedIds>>
    /\ Finish(i, batch, flying \ {i})
    /\ UNCHANGED <<checkpoint, answers, mode, running, history>>

EndPlan ==
    /\ mode = "up" /\ running
    /\ finished = Work(plan)
    /\ execResult' = results
    /\ completed' = completedIds
    /\ Return("evaluate", "evaluate")
    /\ UNCHANGED <<iteration, plan, history>>

Crash ==
    /\ mode = "up" /\ node # "end"
    /\ crashes < MaxCrashes
    /\ crashes' = crashes + 1
    /\ mode' = "down"
    /\ ClearLocals
    /\ UNCHANGED <<checkpoint, answers, calls, answered, refused, runs>>

\* A passed verdict on an execution_result that is None raises AttributeError.
EvaluatePassed ==
    /\ mode = "up" /\ node = "evaluate"
    /\ IF execResult = Nil
       THEN Crash
       ELSE /\ iteration' = iteration + 1
            /\ Return("end", "done")
            /\ UNCHANGED <<plan, execResult, completed, history>>

\* Score 0.0: the first pass through the node stops at the interrupt.
AskReview ==
    /\ mode = "up" /\ node = "evaluate"
    /\ answers = 0
    /\ mode' = "paused"
    /\ UNCHANGED <<checkpoint, answers, locals, history>>

EvaluateNotPassed(v) ==
    /\ mode = "up" /\ node = "evaluate"
    /\ v = "critical" => answers > 0
    /\ iteration' = iteration + 1
    /\ IF iteration + 1 >= MAX_ITERATIONS
       THEN Return("end", "failed") ELSE Return("plan", "plan")
    /\ UNCHANGED <<plan, execResult, completed, history>>

evaluate_node(v) ==
    \/ v = "passed" /\ EvaluatePassed
    \/ v = "critical" /\ AskReview
    \/ v # "passed" /\ EvaluateNotPassed(v)

-----------------------------------------------------------------------------
(* Around the graph: run() is called again for the thread; or a caller uses *)
(* LangGraph to answer an interrupt or to go on from the checkpoint.        *)

\* The interrupt() returns the answer, and execute_node does not look at it.
Resume(answer) ==
    /\ mode = "paused"
    /\ mode' = "up"
    /\ answers' = answers + 1
    /\ IF node = "execute"
       THEN answered' = answered + 1 /\ refused' = (refused \/ answer = "refuse")
       ELSE UNCHANGED <<answered, refused>>
    /\ UNCHANGED <<checkpoint, locals, calls, crashes, runs>>

Restart ==
    /\ mode = "down"
    /\ mode' = "up"
    /\ UNCHANGED <<checkpoint, answers, locals, history>>

\* ainvoke(initial_state): nothing of an earlier run of the thread is left.
StartRun ==
    /\ node' = "validate" /\ phase' = "validate" /\ mode' = "up"
    /\ plan' = Nil /\ execResult' = Nil
    /\ iteration' = 0 /\ answers' = 0 /\ completed' = {}
    /\ ClearLocals
    /\ calls' = <<>> /\ answered' = 0 /\ refused' = FALSE
    /\ UNCHANGED PLAN_PARALLEL_ENABLED

\* run() once more, after a run that ended, stopped at an interrupt or died.
Rerun ==
    /\ mode # "up" \/ node = "end"
    /\ runs < MaxRuns
    /\ runs' = runs + 1
    /\ StartRun
    /\ UNCHANGED crashes

-----------------------------------------------------------------------------
Init ==
    /\ PLAN_PARALLEL_ENABLED \in BOOLEAN
    /\ node = "validate" /\ phase = "validate"
    /\ iteration = 0
    /\ plan = Nil /\ execResult = Nil
    /\ completed = {}
    /\ answers = 0
    /\ mode = "up"
    /\ running = FALSE
    /\ batch = {} /\ flying = {} /\ finished = {}
    /\ outputs = {} /\ completedIds = {} /\ results = {}
    /\ calls = <<>>     \* tool calls made for each step of the current plan
    /\ answered = 0     \* answers given to its interrupts in execute_node
    /\ refused = FALSE  \* one of them was a refusal
    /\ crashes = 0
    /\ runs = 1

ExecuteStep ==
    \/ RejectReferences \/ AskApproval \/ StartPlan \/ EndPlan
    \/ \E i \in batch : SkipStep(i) \/ CallTool(i)
    \/ \E i \in flying, out \in {"ok", "error"} : StepEnds(i, out)

NodeStep ==
    \/ \E valid \in BOOLEAN : validate_node(valid)
    \/ \E p \in Plans \cup {Nil} : plan_node(p)
    \/ ExecuteStep
    \/ \E v \in Verdict : evaluate_node(v)

Next ==
    \/ NodeStep
    \/ Crash \/ Restart \/ Rerun
    \/ \E answer \in {"approve", "refuse"} : Resume(answer)

Spec == Init /\ [][Next]_vars

-----------------------------------------------------------------------------
\* Types of the checkpoint, of execute_node's locals and of the history.
TypeOK ==
    /\ PLAN_PARALLEL_ENABLED \in BOOLEAN
    /\ node \in {"validate", "plan", "execute", "evaluate", "end"}
    /\ phase \in {"validate", "plan", "execute", "evaluate", "done", "failed"}
    /\ iteration \in 0..MAX_ITERATIONS
    /\ plan \in Plans \cup {Nil}
    /\ completed \subseteq StepId /\ completedIds \subseteq StepId /\ outputs \subseteq StepId
    /\ mode \in {"up", "paused", "down"}
    /\ running \in BOOLEAN
    /\ plan = Nil => batch \cup flying \cup finished = {}
    /\ plan # Nil => batch \cup flying \cup finished \subseteq DOMAIN plan
    /\ answers \in Nat
    /\ answered \in Nat /\ refused \in BOOLEAN
    /\ crashes \in 0..MaxCrashes /\ runs \in 1..MaxRuns

\* No tool of a plan runs, the harmless ones included, before an operator was asked
\* about every destructive step of this very plan and answered: neither an answer given
\* for an earlier plan nor a crash and replay lets one through (graph_orchestrator.py:337).
AnsweredBeforeEffects ==
    (\E i \in DOMAIN calls : calls[i] > 0) => answered >= Cardinality(DestructiveSteps(plan))

\* graph_orchestrator.py:49: "Tool names that require human approval before execution": the
\* answers a plan's tools waited for were approvals.
ApprovedBeforeEffects == (\E i \in DOMAIN calls : calls[i] > 0) => ~refused

\* Replaying execute_node after an approval repeats no tool call: a step of a plan
\* is called again only when the process died during an earlier attempt of this thread.
EffectsNotRepeated == \A i \in DOMAIN calls : calls[i] <= 1 + crashes

\* In a plan without a cycle a tool starts when every step it refers to is over:
\* its reference is resolved unless that step failed or was skipped.
DependenciesFirst ==
    \A i \in flying : ~Cyclic(plan) => \A x \in plan[i].refs :
        x \in outputs \/ \E r \in results : plan[r.pos].id = x /\ r.out # "ok"

\* What the critic is given covers the plan: one outcome for every step id, and an
\* outcome other than "skipped" comes from a call made for this plan.
ResultsCoverPlan ==
    node = "evaluate" /\ phase = "evaluate" =>
        /\ {plan[r.pos].id : r \in execResult} = Ids(plan)
        /\ \A r \in execResult : r.out # "skipped" => calls[r.pos] > 0
        /\ \A r \in execResult : r.out # "error" => plan[r.pos].id \in completed

\* The same of a well-typed state, in which the iterations are within their bound.
PlanInv == TypeOK /\ ResultsCoverPlan

\* graph_orchestrator.py:71: "Step IDs that completed before a HITL interrupt -
\* skipped on replay": a skipped step has been executed for this plan.
SkippedOnlyOnReplay ==
    \A r \in results : r.out = "skipped" => calls[r.pos] > 0

=============================================================================
