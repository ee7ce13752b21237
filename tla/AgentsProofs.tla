----------------------------- MODULE AgentsProofs -----------------------------
(***************************************************************************)
(* Proofs about GraphOrchestrator: answers precede effects, replay         *)
(* repeats none, dependencies come first, and the critic sees an outcome   *)
(* for every step; for every set of plans, limits, tools and crashes.  And *)
(* about Crew: the graphs of its agents are such graphs, and no agent      *)
(* leaves its scope.                                                       *)
(***************************************************************************)
EXTENDS Crew, Optimizer, FiniteSetTheorems, SequenceTheorems, WellFoundedInduction, TLAPS

-----------------------------------------------------------------------------
(* The inductive invariant.                                                 *)

\* Nodes that have a plan have one; execute_node's locals live while it runs.
Placed ==
    /\ node \in {"execute", "evaluate"} => plan # Nil
    /\ node # "end" => iteration < MAX_ITERATIONS
    /\ running => node = "execute" /\ _validate_step_references(plan)
    /\ ~running => batch = {} /\ flying = {} /\ finished = {} /\ results = {}
    /\ IF plan = Nil THEN calls = <<>> ELSE calls \in [DOMAIN plan -> Nat]

\* The answers that execute_node counts were given for the plan it runs.
Approvals ==
    /\ node = "execute" => answers <= answered
    /\ running => answered >= Interrupts(plan)
    /\ AnsweredBeforeEffects

\* What this attempt has not begun was called by crashed attempts only.
Attempts ==
    /\ batch \cap (flying \cup finished) = {}
    /\ node = "execute" => \A i \in DOMAIN calls \ (flying \cup finished) : calls[i] <= crashes
    /\ EffectsNotRepeated

\* What was fetched has its dependencies behind it.
Fetched ==
    \A i \in batch \cup flying : ~Cyclic(plan) =>
        \A x \in plan[i].refs : step_map(plan, x) \in finished

\* The outcomes of the steps that are over, and the completed ids.
Outcome == [pos : Nat, out : {"ok", "error", "skipped"}]

Outcomes ==
    /\ results \subseteq Outcome
    /\ \A i \in flying : calls[i] > 0
    /\ \A e \in results : e.pos \in finished
    /\ \A i \in finished : \E e \in results : e.pos = i
    /\ \A e \in results :
          /\ e.out = "ok" => plan[e.pos].id \in outputs
          /\ e.out # "skipped" => calls[e.pos] > 0
          /\ e.out # "error" => plan[e.pos].id \in completedIds

GraphInv == PlanInv /\ Placed /\ Approvals /\ Attempts /\ Fetched /\ Outcomes

-----------------------------------------------------------------------------
(* Plans.                                                                   *)

\* A non-empty set of natural numbers has a least element.
LEMMA LeastOf ==
    ASSUME NEW S, S \subseteq Nat, S # {}
    PROVE  \E m \in S : \A k \in S : m <= k
<1>1. PICK m \in S : \A k \in S : ~ (<<k, m>> \in OpToRel(<, Nat))
  BY NatLessThanWellFounded, WFMin, Zenon
<1>2. \A k \in S : ~ (k < m)
  BY <1>1 DEF OpToRel
<1>. QED
  BY <1>2

\* A non-empty set of positions has a last one.
LEMMA LastOf ==
    ASSUME NEW n \in Nat, NEW S, S \subseteq 1..n, S # {}
    PROVE  \E i \in S : \A k \in S : k <= i
<1>. DEFINE T == {n - i : i \in S}
<1>1. T \subseteq Nat /\ T # {}
  <2>1. \A i \in S : n - i \in Nat
    OBVIOUS
  <2>2. PICK i \in S : TRUE
    OBVIOUS
  <2>3. n - i \in T
    OBVIOUS
  <2>. QED
    BY <2>1, <2>3
<1>2. PICK t \in T : \A u \in T : t <= u
  BY <1>1, LeastOf
<1>3. PICK i \in S : t = n - i
  OBVIOUS
<1>4. ASSUME NEW k \in S PROVE k <= i
  <2>1. n - i <= n - k
    BY <1>2, <1>3
  <2>2. k \in Int /\ i \in Int
    OBVIOUS
  <2>. QED
    BY ONLY <2>1, <2>2, n \in Nat
<1>. QED
  BY <1>3, <1>4

\* The ids of a plan map to steps that carry them.
LEMMA StepMapIs ==
    ASSUME NEW p \in Plans, NEW x \in Ids(p)
    PROVE  step_map(p, x) \in DOMAIN p /\ p[step_map(p, x)].id = x
<1>. DEFINE S == {i \in DOMAIN p : p[i].id = x}
<1>1. Len(p) \in Nat /\ DOMAIN p = 1..Len(p)
  BY GraphAssumption
<1>2. S \subseteq 1..Len(p) /\ S # {}
  BY <1>1 DEF Ids
<1>3. PICK i \in S : \A k \in S : k <= i
  BY <1>1, <1>2, LastOf
<1>. QED
  BY <1>3 DEF step_map

\* What is to be run are steps of the plan, and every id is among them.
LEMMA WorkIs ==
    ASSUME NEW p \in Plans
    PROVE  Work(p) \subseteq DOMAIN p /\ {p[i].id : i \in Work(p)} = Ids(p)
<1>1. CASE Cyclic(p)
  BY <1>1 DEF Work, Ids
<1>2. CASE ~Cyclic(p)
  <2>1. Work(p) = {step_map(p, x) : x \in Ids(p)}
    BY <1>2 DEF Work
  <2>2. Work(p) \subseteq DOMAIN p
    BY <2>1, StepMapIs
  <2>3. \A x \in Ids(p) : step_map(p, x) \in Work(p) /\ p[step_map(p, x)].id = x
    BY <2>1, StepMapIs
  <2>. QED
    BY <2>2, <2>3 DEF Ids
<1>. QED
  BY <1>1, <1>2

\* A step that is ready is not over, and what its id depends on is.
LEMMA ReadyIs ==
    ASSUME NEW p \in Plans, NEW done
    PROVE  /\ get_ready(p, done) \subseteq DOMAIN p \ done
           /\ \A i \in get_ready(p, done) : ~Cyclic(p) =>
                  \A x \in p[i].refs : step_map(p, x) \in done
<1>1. get_ready(p, done) \subseteq DOMAIN p \ done
  BY WorkIs DEF get_ready
<1>2. ASSUME NEW i \in get_ready(p, done), ~Cyclic(p), NEW x \in p[i].refs
      PROVE  step_map(p, x) \in done
  <2>1. i \in DOMAIN p /\ p[i].id \in Ids(p)
    BY <1>1 DEF Ids
  <2>2. x \in _build_dag(p)[p[i].id]
    BY <2>1 DEF _build_dag
  <2>. QED
    BY <1>2, <2>2 DEF get_ready
<1>. QED
  BY <1>1, <1>2

\* There are finitely many answers to ask for.
LEMMA InterruptsType ==
    ASSUME NEW p \in Plans
    PROVE  Interrupts(p) \in Nat
<1>1. IsFiniteSet(DOMAIN p)
  BY GraphAssumption, FS_Interval
<1>2. IsFiniteSet(DestructiveSteps(p))
  BY <1>1, FS_Subset DEF DestructiveSteps
<1>. QED
  BY <1>2, FS_CardinalityType DEF Interrupts

-----------------------------------------------------------------------------
(* Steps of the graph.                                                      *)

Node  == {"validate", "plan", "execute", "evaluate", "end"}
Phase == {"validate", "plan", "execute", "evaluate", "done", "failed"}

\* What the invariant says of the type of a plan and of a count of calls.
LEMMA PlanType ==
    ASSUME GraphInv, plan # Nil
    PROVE  /\ plan \in Plans /\ plan \in Seq(Step) /\ calls \in [DOMAIN plan -> Nat]
           /\ \A i \in DOMAIN plan : i \in Nat /\ plan[i].id \in StepId /\ plan[i].id \in Ids(plan)
<1>1. plan \in Plans /\ plan \in Seq(Step) /\ calls \in [DOMAIN plan -> Nat]
  BY GraphAssumption DEF GraphInv, PlanInv, TypeOK, Placed
<1>2. \A i \in DOMAIN plan : i \in Nat /\ plan[i] \in Step
  BY <1>1
<1>. QED
  BY <1>1, <1>2 DEF Step, Ids

\* A node that returns, and a process that dies, lose the locals and keep the plan.
LEMMA LeaveNode ==
    ASSUME GraphInv, ClearLocals, UNCHANGED <<PLAN_PARALLEL_ENABLED, plan, calls>>,
           UNCHANGED <<answered, refused, runs>>,
           node' \in Node, phase' \in Phase, mode' \in {"up", "paused", "down"},
           iteration' \in 0..MAX_ITERATIONS, node' # "end" => iteration' < MAX_ITERATIONS,
           answers' \in Nat, completed' \subseteq StepId,
           crashes' \in 0..MaxCrashes, crashes' >= crashes,
           node' = "execute" => node = "execute" /\ answers' = answers /\ crashes' = crashes + 1,
           node' = "evaluate" => plan # Nil,
           ResultsCoverPlan'
    PROVE  GraphInv'
<1>1. TypeOK'
  BY DEF GraphInv, PlanInv, TypeOK, ClearLocals, Node, Phase
<1>2. Placed'
  BY DEF GraphInv, PlanInv, Placed, ClearLocals
<1>3. Approvals'
  BY DEF GraphInv, Approvals, AnsweredBeforeEffects, ClearLocals
<1>4. \A i \in DOMAIN calls : calls[i] \in Nat
  BY PlanType DEF GraphInv, Placed
<1>5. crashes \in Nat /\ crashes' \in Nat
  BY GraphAssumption DEF GraphInv, PlanInv, TypeOK
<1>6. Attempts'
  BY <1>4, <1>5 DEF GraphInv, Attempts, EffectsNotRepeated, ClearLocals
<1>7. Fetched' /\ Outcomes'
  BY DEF Fetched, Outcomes, ClearLocals
<1>. QED
  BY <1>1, <1>2, <1>3, <1>6, <1>7 DEF GraphInv, PlanInv

\* An interrupt, the answer to it and a restart change nothing of a node's work.
LEMMA Waiting ==
    ASSUME GraphInv, UNCHANGED <<checkpoint, locals, calls, crashes, runs>>,
           mode' \in {"up", "paused", "down"}, answers' \in Nat, answered' \in Nat, refused' \in BOOLEAN,
           answered' >= answered, node = "execute" => answers' <= answered'
    PROVE  GraphInv'
<1>0. /\ UNCHANGED <<PLAN_PARALLEL_ENABLED, node, phase, iteration, plan, execResult, completed>>
      /\ UNCHANGED <<running, batch, flying, finished, outputs, completedIds, results>>
  BY DEF checkpoint, locals
<1>1. TypeOK' /\ ResultsCoverPlan'
  BY <1>0 DEF GraphInv, PlanInv, TypeOK, ResultsCoverPlan
<1>2. Placed' /\ Attempts' /\ Fetched' /\ Outcomes'
  BY <1>0 DEF GraphInv, Placed, Attempts, EffectsNotRepeated, Fetched, Outcomes
<1>3. plan # Nil => Interrupts(plan) \in Nat
  BY PlanType, InterruptsType
<1>4. calls = <<>> \/ plan # Nil
  BY DEF GraphInv, Placed
<1>5. running => plan # Nil
  BY DEF GraphInv, Placed
<1>6. answered \in Nat
  BY DEF GraphInv, PlanInv, TypeOK
<1>7. Approvals'
  BY <1>0, <1>3, <1>4, <1>5, <1>6 DEF GraphInv, Approvals, AnsweredBeforeEffects, Interrupts
<1>. QED
  BY <1>1, <1>2, <1>7 DEF GraphInv, PlanInv

\* A node that returns to another one than execute and has made no results.
LEMMA ReturnInv ==
    ASSUME GraphInv, NEW n \in Node \ {"execute"}, NEW ph \in Phase, Return(n, ph),
           UNCHANGED <<plan, calls, answered, refused, crashes, runs>>,
           iteration' \in 0..MAX_ITERATIONS, n # "end" => iteration' < MAX_ITERATIONS,
           completed' \subseteq StepId, n = "evaluate" => plan # Nil, ResultsCoverPlan'
    PROVE  GraphInv'
<1>1. crashes \in 0..MaxCrashes /\ crashes \in Nat
  BY GraphAssumption DEF GraphInv, PlanInv, TypeOK
<1>. QED
  BY <1>1, LeaveNode DEF Return, Node

\* validate_node.
LEMMA ValidateInv ==
    ASSUME GraphInv, NEW valid \in BOOLEAN, validate_node(valid)
    PROVE  GraphInv'
<1>1. PICK n \in {"plan", "end"}, ph \in {"plan", "failed"} : Return(n, ph)
  BY DEF validate_node
<1>2. UNCHANGED <<iteration, plan, execResult, completed, calls, answered, refused, crashes, runs>>
  BY DEF validate_node, history
<1>3. node = "validate" /\ n \in Node \ {"execute"} /\ ph \in Phase /\ n # "evaluate"
  BY DEF validate_node, Node, Phase
<1>4. ResultsCoverPlan'
  BY <1>1, <1>3 DEF ResultsCoverPlan, Return
<1>5. /\ iteration' \in 0..MAX_ITERATIONS /\ iteration' < MAX_ITERATIONS
      /\ completed' \subseteq StepId
  BY <1>2, <1>3 DEF GraphInv, PlanInv, TypeOK, Placed
<1>. QED
  BY <1>1, <1>2, <1>3, <1>4, <1>5, ReturnInv

\* plan_node: a new plan begins without calls and without answers.
LEMMA PlanNodeInv ==
    ASSUME GraphInv, NEW p \in Plans \cup {Nil}, plan_node(p)
    PROVE  GraphInv'
<1>1. CASE p = Nil
  <2>1. Return("end", "failed") /\ UNCHANGED <<plan, calls, answered, refused, runs>>
    BY <1>1 DEF plan_node
  <2>2. UNCHANGED <<iteration, execResult, completed, crashes>>
    BY DEF plan_node
  <2>3. ResultsCoverPlan'
    BY <2>1 DEF ResultsCoverPlan, Return
  <2>4. iteration' \in 0..MAX_ITERATIONS /\ completed' \subseteq StepId
    BY <2>2 DEF GraphInv, PlanInv, TypeOK
  <2>5. "end" \in Node \ {"execute"} /\ "failed" \in Phase
    BY DEF Node, Phase
  <2>. QED
    BY <2>1, <2>2, <2>3, <2>4, <2>5, ReturnInv
<1>2. CASE p # Nil
  <2>1. /\ node' = "execute" /\ phase' = "execute" /\ answers' = 0 /\ mode' = "up"
        /\ ClearLocals /\ UNCHANGED PLAN_PARALLEL_ENABLED
        /\ plan' = p /\ answered' = 0 /\ refused' = FALSE
        /\ calls' = [i \in DOMAIN p |-> 0]
        /\ UNCHANGED <<iteration, execResult, completed, crashes, runs>>
    BY <1>2 DEF plan_node, Return
  <2>2. node = "plan"
    BY DEF plan_node
  <2>3. crashes \in Nat
    BY GraphAssumption DEF GraphInv, PlanInv, TypeOK
  <2>4. TypeOK'
    <3>1. TypeOK
      BY DEF GraphInv, PlanInv
    <3>2. answers' \in Nat /\ answered' \in Nat
      BY <2>1, <3>1 DEF TypeOK
    <3>5. refused' \in BOOLEAN
      BY <2>1
    <3>3. batch' = {} /\ flying' = {} /\ finished' = {} /\ outputs' = {} /\ completedIds' = {}
      BY <2>1 DEF ClearLocals
    <3>4. running' \in BOOLEAN /\ PLAN_PARALLEL_ENABLED' \in BOOLEAN
      BY <2>1, <3>1 DEF TypeOK, ClearLocals
    <3>. QED
      BY <1>2, <2>1, <3>1, <3>2, <3>3, <3>4, <3>5 DEF TypeOK
  <2>5. ResultsCoverPlan'
    BY <2>1 DEF ResultsCoverPlan
  <2>6. Placed'
    BY <1>2, <2>1, <2>2 DEF GraphInv, Placed, ClearLocals
  <2>7. \A i \in DOMAIN calls' : calls'[i] = 0
    BY <2>1
  <2>8. Approvals'
    BY <2>1, <2>7 DEF Approvals, AnsweredBeforeEffects, ClearLocals
  <2>9. Attempts'
    BY <2>1, <2>3, <2>7 DEF Attempts, EffectsNotRepeated, ClearLocals
  <2>10. Fetched' /\ Outcomes'
    BY <2>1 DEF Fetched, Outcomes, ClearLocals
  <2>. QED
    BY <2>4, <2>5, <2>6, <2>8, <2>9, <2>10 DEF GraphInv, PlanInv
<1>. QED
  BY <1>1, <1>2

\* A plan with a reference to an unknown step is not run.
LEMMA RejectInv == GraphInv /\ RejectReferences => GraphInv'
<1>. SUFFICES ASSUME GraphInv, RejectReferences PROVE GraphInv'
  OBVIOUS
<1>1. Return("evaluate", "failed") /\ node = "execute"
  BY DEF RejectReferences
<1>2. UNCHANGED <<iteration, plan, execResult, completed, calls, answered, refused, crashes, runs>>
  BY DEF RejectReferences, history
<1>3. ResultsCoverPlan'
  BY <1>1 DEF ResultsCoverPlan, Return
<1>4. /\ iteration' \in 0..MAX_ITERATIONS /\ iteration' < MAX_ITERATIONS
      /\ completed' \subseteq StepId /\ plan # Nil
  BY <1>1, <1>2 DEF GraphInv, PlanInv, TypeOK, Placed
<1>5. "evaluate" \in Node \ {"execute"} /\ "failed" \in Phase
  BY DEF Node, Phase
<1>. QED
  BY <1>1, <1>2, <1>3, <1>4, <1>5, ReturnInv

\* Interrupts, answers and restarts.
LEMMA WaitingInv ==
    ASSUME GraphInv,
           AskApproval \/ AskReview \/ Restart \/ \E answer \in {"approve", "refuse"} : Resume(answer)
    PROVE  GraphInv'
<1>1. UNCHANGED <<checkpoint, locals, calls, crashes, runs>>
  BY DEF AskApproval, AskReview, Resume, Restart, history
<1>2. mode' \in {"up", "paused", "down"}
  BY DEF AskApproval, AskReview, Resume, Restart
<1>3. answers \in Nat /\ answered \in Nat /\ refused \in BOOLEAN
  BY DEF GraphInv, PlanInv, TypeOK
<1>4. \/ answers' = answers /\ answered' = answered
      \/ answers' = answers + 1 /\ answered' = answered + 1
      \/ answers' = answers + 1 /\ answered' = answered /\ node # "execute"
  BY DEF AskApproval, AskReview, Resume, Restart, history
<1>5. refused' \in BOOLEAN
  BY <1>3 DEF AskApproval, AskReview, Resume, Restart, history
<1>6. node = "execute" => answers <= answered
  BY DEF GraphInv, Approvals
<1>. QED
  BY <1>1, <1>2, <1>3, <1>4, <1>5, <1>6, Waiting

\* The checks of execute_node are passed: every interrupt has been answered.
LEMMA StartPlanInv == GraphInv /\ StartPlan => GraphInv'
<1>. SUFFICES ASSUME GraphInv, StartPlan PROVE GraphInv'
  OBVIOUS
<1>1. /\ node = "execute" /\ ~running /\ _validate_step_references(plan)
      /\ answers >= Interrupts(plan) /\ running' = TRUE /\ completedIds' = completed
      /\ batch' = get_ready(plan, {})
      /\ UNCHANGED <<PLAN_PARALLEL_ENABLED, node, phase, iteration, plan, execResult, completed>>
      /\ UNCHANGED <<answers, mode, flying, finished, outputs, results>>
      /\ UNCHANGED <<calls, answered, refused, crashes, runs>>
  BY DEF StartPlan, checkpoint, history
<1>2. plan # Nil
  BY <1>1 DEF GraphInv, Placed
<1>3. plan \in Plans
  BY <1>2, PlanType
<1>4. flying = {} /\ finished = {} /\ results = {}
  BY <1>1 DEF GraphInv, Placed
<1>5. /\ batch' \subseteq DOMAIN plan
      /\ \A i \in batch' : ~Cyclic(plan) => \A x \in plan[i].refs : step_map(plan, x) \in {}
  BY <1>1, <1>3, ReadyIs
<1>6. TypeOK'
  <2>1. TypeOK
    BY DEF GraphInv, PlanInv
  <2>2. running' \in BOOLEAN /\ PLAN_PARALLEL_ENABLED' \in BOOLEAN
    BY <1>1, <2>1 DEF TypeOK
  <2>. QED
    BY <1>1, <1>2, <1>4, <1>5, <2>1, <2>2 DEF TypeOK
<1>7. ResultsCoverPlan' /\ Placed'
  BY <1>1 DEF GraphInv, ResultsCoverPlan, Placed
<1>8. Interrupts(plan) \in Nat /\ answers \in Nat /\ answered \in Nat
  BY <1>3, InterruptsType DEF GraphInv, PlanInv, TypeOK
<1>9. Approvals'
  BY <1>1, <1>8 DEF GraphInv, Approvals, AnsweredBeforeEffects
<1>10. Attempts'
  BY <1>1, <1>4 DEF GraphInv, Attempts, EffectsNotRepeated
<1>11. Fetched'
  BY <1>1, <1>4, <1>5 DEF Fetched
<1>12. Outcomes'
  BY <1>1, <1>4 DEF Outcomes
<1>. QED
  BY <1>6, <1>7, <1>9, <1>10, <1>11, <1>12 DEF GraphInv, PlanInv

\* What a step of a running plan may rely on.
LEMMA RunFacts ==
    ASSUME GraphInv, NEW i, i \in batch \cup flying
    PROVE  /\ running /\ node = "execute" /\ plan # Nil /\ i \in DOMAIN plan
           /\ _validate_step_references(plan) /\ answered >= Interrupts(plan)
           /\ answered \in Nat /\ Interrupts(plan) \in Nat /\ crashes \in Nat
<1>1. running
  BY DEF GraphInv, Placed
<1>2. node = "execute" /\ plan # Nil /\ _validate_step_references(plan)
  BY <1>1 DEF GraphInv, Placed
<1>3. i \in DOMAIN plan /\ answered \in Nat /\ crashes \in Nat
  BY <1>2, GraphAssumption DEF GraphInv, PlanInv, TypeOK
<1>. QED
  BY <1>1, <1>2, <1>3, PlanType, InterruptsType DEF GraphInv, Approvals

\* A step that is over leaves the batch, and the next one is fetched after it.
LEMMA FinishStep ==
    ASSUME GraphInv, NEW i \in batch \cup flying, NEW rest, NEW aloft,
           rest \subseteq batch \ {i}, aloft \subseteq flying \ {i},
           flying \subseteq aloft \cup {i}, Finish(i, rest, aloft), plan' = plan
    PROVE  /\ batch' \cup flying' \cup finished' \subseteq DOMAIN plan
           /\ batch' \cap (flying' \cup finished') = {}
           /\ Fetched'
           /\ finished' = finished \cup {i} /\ flying' = aloft
<1>1. finished' = finished \cup {i} /\ flying' = aloft
  BY DEF Finish
<1>2. plan \in Plans /\ i \in DOMAIN plan
  BY RunFacts, PlanType
<1>3. batch \cup flying \cup finished \subseteq DOMAIN plan
  BY RunFacts DEF GraphInv, PlanInv, TypeOK
<1>4. batch \cap (flying \cup finished) = {} /\ Fetched
  BY DEF GraphInv, Attempts
<1>5. CASE rest \cup aloft = {}
  <2>1. batch' = get_ready(plan, finished \cup {i}) /\ aloft = {}
    BY <1>5 DEF Finish
  <2>2. /\ batch' \subseteq DOMAIN plan \ (finished \cup {i})
        /\ \A k \in batch' : ~Cyclic(plan) =>
               \A x \in plan[k].refs : step_map(plan, x) \in finished \cup {i}
    BY <1>2, <2>1, ReadyIs
  <2>. QED
    BY <1>1, <1>2, <1>3, <2>1, <2>2 DEF Fetched
<1>6. CASE rest \cup aloft # {}
  <2>1. batch' = rest
    BY <1>6 DEF Finish
  <2>2. Fetched'
    BY <1>1, <1>4, <2>1 DEF Fetched
  <2>. QED
    BY <1>1, <1>2, <1>3, <1>4, <2>1, <2>2
<1>. QED
  BY <1>5, <1>6

\* A step is over with an outcome.
LEMMA Settle ==
    ASSUME GraphInv, NEW i \in batch \cup flying, NEW rest, NEW aloft,
           NEW out \in {"ok", "error", "skipped"},
           rest \subseteq batch \ {i}, aloft \subseteq flying \ {i},
           flying \subseteq aloft \cup {i}, Finish(i, rest, aloft),
           results' = results \cup {[pos |-> i, out |-> out]},
           outputs \subseteq outputs', outputs' \subseteq StepId,
           completedIds \subseteq completedIds', completedIds' \subseteq StepId,
           out = "ok" => plan[i].id \in outputs',
           out # "skipped" => i \in flying,
           out # "error" => plan[i].id \in completedIds',
           UNCHANGED <<checkpoint, answers, mode, running, history>>
    PROVE  GraphInv'
<1>1. /\ UNCHANGED <<PLAN_PARALLEL_ENABLED, node, phase, iteration, plan, execResult, completed>>
      /\ UNCHANGED <<answers, mode, running, calls, answered, refused, crashes, runs>>
  BY DEF checkpoint, history
<1>2. /\ batch' \cup flying' \cup finished' \subseteq DOMAIN plan
      /\ batch' \cap (flying' \cup finished') = {}
      /\ Fetched'
      /\ finished' = finished \cup {i} /\ flying' = aloft
  BY <1>1, FinishStep
<1>3. running /\ plan # Nil /\ i \in DOMAIN plan /\ i \in Nat
  BY RunFacts, PlanType
<1>4. TypeOK'
  <2>1. TypeOK
    BY DEF GraphInv, PlanInv
  <2>2. running' \in BOOLEAN /\ PLAN_PARALLEL_ENABLED' \in BOOLEAN
    BY <1>1, <2>1 DEF TypeOK
  <2>. QED
    BY <1>1, <1>2, <1>3, <2>1, <2>2 DEF TypeOK
<1>5. ResultsCoverPlan' /\ Placed'
  BY <1>1, <1>3 DEF GraphInv, PlanInv, ResultsCoverPlan, Placed
<1>6. Approvals'
  BY <1>1 DEF GraphInv, Approvals, AnsweredBeforeEffects
<1>7. Attempts'
  <2>1. flying \cup finished \subseteq flying' \cup finished'
    BY <1>2
  <2>. QED
    BY <1>1, <1>2, <2>1 DEF GraphInv, Attempts, EffectsNotRepeated
<1>8. Outcomes'
  <2>. DEFINE o == [pos |-> i, out |-> out]
  <2>1. o \in Outcome /\ o.pos = i /\ o.out = out
    BY <1>3 DEF Outcome
  <2>2. results' \subseteq Outcome
    BY <2>1 DEF GraphInv, Outcomes
  <2>3. \A k \in flying' : calls'[k] > 0
    BY <1>1, <1>2 DEF GraphInv, Outcomes
  <2>4. \A e \in results' : e.pos \in finished'
    BY <1>2, <2>1 DEF GraphInv, Outcomes
  <2>5. \A k \in finished' : \E e \in results' : e.pos = k
    BY <1>2, <2>1 DEF GraphInv, Outcomes
  <2>6. ASSUME NEW e \in results'
        PROVE  /\ e.out = "ok" => plan'[e.pos].id \in outputs'
               /\ e.out # "skipped" => calls'[e.pos] > 0
               /\ e.out # "error" => plan'[e.pos].id \in completedIds'
    <3>1. CASE e \in results
      BY <1>1, <3>1 DEF GraphInv, Outcomes
    <3>2. CASE e = o
      BY <1>1, <2>1, <3>2 DEF GraphInv, Outcomes
    <3>. QED
      BY <3>1, <3>2
  <2>. QED
    BY <2>2, <2>3, <2>4, <2>5, <2>6 DEF Outcomes
<1>. QED
  BY <1>2, <1>4, <1>5, <1>6, <1>7, <1>8 DEF GraphInv, PlanInv

\* A step whose id is completed is skipped.
LEMMA SkipStepInv ==
    ASSUME GraphInv, NEW i \in batch, SkipStep(i)
    PROVE  GraphInv'
<1>1. /\ plan[i].id \in completedIds /\ Finish(i, batch \ {i}, flying)
      /\ results' = results \cup {[pos |-> i, out |-> "skipped"]}
      /\ UNCHANGED <<outputs, completedIds>>
      /\ UNCHANGED <<checkpoint, answers, mode, running, history>>
  BY DEF SkipStep
<1>2. i \notin flying
  BY DEF GraphInv, Attempts
<1>3. outputs \subseteq StepId /\ completedIds \subseteq StepId
  BY DEF GraphInv, PlanInv, TypeOK
<1>. QED
  BY <1>1, <1>2, <1>3, Settle

\* A tool call ends, well or badly.
LEMMA StepEndsInv ==
    ASSUME GraphInv, NEW i \in flying, NEW out \in {"ok", "error"}, StepEnds(i, out)
    PROVE  GraphInv'
<1>1. /\ Finish(i, batch, flying \ {i})
      /\ results' = results \cup {[pos |-> i, out |-> out]}
      /\ UNCHANGED <<checkpoint, answers, mode, running, history>>
  BY DEF StepEnds
<1>2. i \notin batch
  BY DEF GraphInv, Attempts
<1>3. outputs \subseteq StepId /\ completedIds \subseteq StepId /\ plan[i].id \in StepId
  BY RunFacts, PlanType DEF GraphInv, PlanInv, TypeOK
<1>4. \/ /\ out = "ok" /\ outputs' = outputs \cup {plan[i].id}
         /\ completedIds' = completedIds \cup {plan[i].id}
      \/ out = "error" /\ outputs' = outputs /\ completedIds' = completedIds
  BY DEF StepEnds
<1>. QED
  BY <1>1, <1>2, <1>3, <1>4, Settle

\* A tool is called: every answer has been given, and this attempt has not yet called it.
LEMMA CallToolInv ==
    ASSUME GraphInv, NEW i \in batch, CallTool(i)
    PROVE  GraphInv'
<1>1. /\ flying' = flying \cup {i} /\ batch' = batch \ {i}
      /\ calls' = [calls EXCEPT ![i] = @ + 1]
      /\ UNCHANGED <<PLAN_PARALLEL_ENABLED, node, phase, iteration, plan, execResult, completed>>
      /\ UNCHANGED <<answers, mode, running, finished, outputs, completedIds, results>>
      /\ UNCHANGED <<answered, refused, crashes, runs>>
  BY DEF CallTool, checkpoint
<1>2. /\ running /\ node = "execute" /\ plan # Nil /\ i \in DOMAIN plan
      /\ answered >= Interrupts(plan) /\ crashes \in Nat
  BY RunFacts
<1>3. calls \in [DOMAIN plan -> Nat]
  BY <1>2, PlanType
<1>4. /\ calls' \in [DOMAIN plan -> Nat]
      /\ \A k \in DOMAIN plan : calls'[k] = IF k = i THEN calls[k] + 1 ELSE calls[k]
  BY <1>1, <1>2, <1>3
<1>5. TypeOK'
  <2>1. TypeOK
    BY DEF GraphInv, PlanInv
  <2>2. running' \in BOOLEAN /\ PLAN_PARALLEL_ENABLED' \in BOOLEAN
    BY <1>1, <2>1 DEF TypeOK
  <2>. QED
    BY <1>1, <1>2, <2>1, <2>2 DEF TypeOK
<1>6. ResultsCoverPlan' /\ Placed'
  BY <1>1, <1>2, <1>4 DEF GraphInv, ResultsCoverPlan, Placed
<1>7. Approvals'
  BY <1>1, <1>2 DEF GraphInv, Approvals, AnsweredBeforeEffects, Interrupts
<1>8. Attempts'
  <2>1. i \notin flying \cup finished
    BY DEF GraphInv, Attempts
  <2>2. calls[i] <= crashes
    BY <1>2, <1>3, <2>1 DEF GraphInv, Attempts
  <2>3. \A k \in DOMAIN plan : calls'[k] <= 1 + crashes
    BY <1>2, <1>3, <1>4, <2>2 DEF GraphInv, Attempts, EffectsNotRepeated
  <2>4. \A k \in DOMAIN plan \ (flying' \cup finished') : calls'[k] <= crashes
    BY <1>1, <1>2, <1>3, <1>4 DEF GraphInv, Attempts
  <2>5. batch' \cap (flying' \cup finished') = {}
    BY <1>1, <2>1 DEF GraphInv, Attempts
  <2>6. DOMAIN calls' = DOMAIN plan
    BY <1>4
  <2>. QED
    BY <1>1, <2>3, <2>4, <2>5, <2>6 DEF Attempts, EffectsNotRepeated
<1>9. Fetched'
  BY <1>1 DEF GraphInv, Fetched
<1>10. Outcomes'
  <2>1. \A k \in DOMAIN plan : calls[k] > 0 => calls'[k] > 0
    BY <1>3, <1>4
  <2>2. flying \subseteq DOMAIN plan /\ finished \subseteq DOMAIN plan
    BY <1>2 DEF GraphInv, PlanInv, TypeOK
  <2>3. calls'[i] > 0
    BY <1>2, <1>3, <1>4
  <2>4. \A k \in flying' : calls'[k] > 0
    BY <1>1, <2>1, <2>2, <2>3 DEF GraphInv, Outcomes
  <2>5. \A e \in results : e.pos \in DOMAIN plan
    BY <2>2 DEF GraphInv, Outcomes
  <2>6. \A e \in results : e.out # "skipped" => calls'[e.pos] > 0
    BY <2>1, <2>5 DEF GraphInv, Outcomes
  <2>. QED
    BY <1>1, <2>4, <2>6 DEF GraphInv, Outcomes
<1>. QED
  BY <1>5, <1>6, <1>7, <1>8, <1>9, <1>10 DEF GraphInv, PlanInv

\* Every step of the plan is over: the critic gets an outcome for each.
LEMMA EndPlanInv == GraphInv /\ EndPlan => GraphInv'
<1>. SUFFICES ASSUME GraphInv, EndPlan PROVE GraphInv'
  OBVIOUS
<1>1. /\ running /\ finished = Work(plan) /\ execResult' = results /\ completed' = completedIds
      /\ Return("evaluate", "evaluate")
      /\ UNCHANGED <<iteration, plan, calls, answered, refused, crashes, runs>>
  BY DEF EndPlan, history
<1>2. node = "execute" /\ plan # Nil /\ iteration < MAX_ITERATIONS
  BY <1>1 DEF GraphInv, Placed
<1>3. plan \in Plans
  BY <1>2, PlanType
<1>4. {plan[e.pos].id : e \in results} = {plan[i].id : i \in finished}
  BY DEF GraphInv, Outcomes
<1>5. {plan[e.pos].id : e \in results} = Ids(plan)
  BY <1>1, <1>3, <1>4, WorkIs
<1>6. ResultsCoverPlan'
  BY <1>1, <1>5 DEF GraphInv, Outcomes, ResultsCoverPlan
<1>7. iteration' \in 0..MAX_ITERATIONS /\ iteration' < MAX_ITERATIONS /\ completed' \subseteq StepId
  BY <1>1, <1>2 DEF GraphInv, PlanInv, TypeOK
<1>8. "evaluate" \in Node \ {"execute"} /\ "evaluate" \in Phase
  BY DEF Node, Phase
<1>. QED
  BY <1>1, <1>2, <1>6, <1>7, <1>8, ReturnInv

\* The process dies: a call made in this attempt counts as one of an earlier one.
LEMMA CrashInv == GraphInv /\ Crash => GraphInv'
<1>. SUFFICES ASSUME GraphInv, Crash PROVE GraphInv'
  OBVIOUS
<1>1. /\ node # "end" /\ crashes < MaxCrashes /\ crashes' = crashes + 1 /\ mode' = "down"
      /\ ClearLocals
      /\ UNCHANGED <<PLAN_PARALLEL_ENABLED, node, phase, iteration, plan, execResult, completed>>
      /\ UNCHANGED <<answers, calls, answered, refused, runs>>
  BY DEF Crash, checkpoint
<1>2. /\ node \in Node /\ phase \in Phase /\ iteration \in 0..MAX_ITERATIONS /\ answers \in Nat
      /\ completed \subseteq StepId /\ crashes \in 0..MaxCrashes /\ MaxCrashes \in Nat
  BY GraphAssumption DEF GraphInv, PlanInv, TypeOK, Node, Phase
<1>3. iteration < MAX_ITERATIONS /\ (node = "evaluate" => plan # Nil)
  BY <1>1 DEF GraphInv, Placed
<1>4. crashes' \in 0..MaxCrashes /\ crashes' >= crashes
  BY <1>1, <1>2
<1>5. ResultsCoverPlan'
  BY <1>1 DEF GraphInv, PlanInv, ResultsCoverPlan
<1>. QED
  BY <1>1, <1>2, <1>3, <1>4, <1>5, LeaveNode

\* evaluate_node: an end, another iteration, or an interrupt.
LEMMA EvaluateInv ==
    ASSUME GraphInv, NEW v \in Verdict, evaluate_node(v)
    PROVE  GraphInv'
<1>1. CASE AskReview
  BY <1>1, WaitingInv
<1>2. CASE Crash
  BY <1>2, CrashInv
<1>3. ASSUME EvaluatePassed \/ EvaluateNotPassed(v), ~Crash
      PROVE  GraphInv'
  <2>1. /\ node = "evaluate" /\ iteration' = iteration + 1
        /\ UNCHANGED <<plan, completed, calls, answered, refused, crashes, runs>>
    BY <1>3 DEF EvaluatePassed, EvaluateNotPassed, history
  <2>2. /\ iteration \in 0..MAX_ITERATIONS /\ MAX_ITERATIONS \in Nat /\ iteration < MAX_ITERATIONS
        /\ completed \subseteq StepId
    BY <2>1, GraphAssumption DEF GraphInv, PlanInv, TypeOK, Placed
  <2>3. \/ Return("end", "done") \/ Return("end", "failed")
        \/ iteration + 1 < MAX_ITERATIONS /\ Return("plan", "plan")
    BY <1>3, <2>2 DEF EvaluatePassed, EvaluateNotPassed
  <2>4. PICK n \in {"end", "plan"}, ph \in {"done", "failed", "plan"} :
            Return(n, ph) /\ (n = "plan" => iteration + 1 < MAX_ITERATIONS)
    BY <2>3
  <2>5. n \in Node \ {"execute"} /\ ph \in Phase /\ n # "evaluate"
    BY DEF Node, Phase
  <2>6. ResultsCoverPlan'
    BY <2>4, <2>5 DEF ResultsCoverPlan, Return
  <2>7. iteration' \in 0..MAX_ITERATIONS /\ (n # "end" => iteration' < MAX_ITERATIONS)
    BY <2>1, <2>2, <2>4
  <2>. QED
    BY <2>1, <2>2, <2>4, <2>5, <2>6, <2>7, ReturnInv
<1>. QED
  BY <1>1, <1>2, <1>3 DEF evaluate_node

-----------------------------------------------------------------------------
(* The theorems.                                                            *)

\* The thread at the start of a call of run(), the first or a later one.
Begun ==
    /\ PLAN_PARALLEL_ENABLED \in BOOLEAN
    /\ node = "validate" /\ phase = "validate" /\ mode = "up" /\ ~running
    /\ iteration = 0 /\ answers = 0 /\ answered = 0
    /\ plan = Nil /\ calls = <<>> /\ refused = FALSE
    /\ completed = {} /\ completedIds = {} /\ outputs = {} /\ results = {}
    /\ batch = {} /\ flying = {} /\ finished = {}
    /\ crashes \in 0..MaxCrashes /\ runs \in 1..MaxRuns

\* A run that begins satisfies the invariant.
LEMMA BegunGraphInv == Begun => GraphInv
<1>. SUFFICES ASSUME Begun PROVE GraphInv
  OBVIOUS
<1>1. MAX_ITERATIONS \in Nat \ {0} /\ MaxCrashes \in Nat
  BY GraphAssumption
<1>2. TypeOK
  <2>1. PLAN_PARALLEL_ENABLED \in BOOLEAN /\ running = FALSE
    BY DEF Begun
  <2>2. /\ node = "validate" /\ phase = "validate" /\ mode = "up"
        /\ plan = Nil /\ completed = {} /\ completedIds = {} /\ outputs = {}
        /\ batch = {} /\ flying = {} /\ finished = {}
    BY DEF Begun
  <2>3. iteration \in 0..MAX_ITERATIONS /\ crashes \in 0..MaxCrashes /\ runs \in 1..MaxRuns
    BY <1>1 DEF Begun
  <2>4. answers \in Nat /\ answered \in Nat /\ refused \in BOOLEAN
    BY DEF Begun
  <2>. QED
    BY <2>1, <2>2, <2>3, <2>4 DEF TypeOK
<1>3. DOMAIN calls = {}
  BY DEF Begun
<1>4. ResultsCoverPlan /\ Placed
  BY <1>1 DEF Begun, ResultsCoverPlan, Placed
<1>5. Approvals /\ Attempts
  BY <1>3 DEF Begun, Approvals, AnsweredBeforeEffects, Attempts, EffectsNotRepeated
<1>6. Fetched /\ Outcomes
  BY DEF Begun, Fetched, Outcomes
<1>. QED
  BY <1>2, <1>4, <1>5, <1>6 DEF GraphInv, PlanInv

\* The initial states satisfy the invariant.
LEMMA InitGraphInv == Init => GraphInv
<1>1. Init => Begun
  BY GraphAssumption DEF Init, Begun
<1>. QED
  BY <1>1, BegunGraphInv

\* A run that starts from initial_state begins anew.
LEMMA StartRunInv ==
    ASSUME GraphInv, StartRun, crashes' \in 0..MaxCrashes, runs' \in 1..MaxRuns
    PROVE  GraphInv'
<1>1. PLAN_PARALLEL_ENABLED \in BOOLEAN
  BY DEF GraphInv, PlanInv, TypeOK
<1>2. Begun'
  BY <1>1 DEF StartRun, ClearLocals, Begun
<1>3. (Begun => GraphInv)'
  BY BegunGraphInv, PTL
<1>. QED
  BY <1>2, <1>3

\* Every step keeps it.
LEMMA StepGraphInv == GraphInv /\ [Next]_vars => GraphInv'
<1>. SUFFICES ASSUME GraphInv, [Next]_vars PROVE GraphInv'
  OBVIOUS
<1>1. ASSUME NEW valid \in BOOLEAN, validate_node(valid) PROVE GraphInv'
  BY <1>1, ValidateInv
<1>2. ASSUME NEW p \in Plans \cup {Nil}, plan_node(p) PROVE GraphInv'
  BY <1>2, PlanNodeInv
<1>3. CASE RejectReferences \/ StartPlan \/ EndPlan
  BY <1>3, RejectInv, StartPlanInv, EndPlanInv
<1>4. CASE AskApproval \/ Restart \/ \E answer \in {"approve", "refuse"} : Resume(answer)
  BY <1>4, WaitingInv
<1>5. ASSUME NEW i \in batch, SkipStep(i) \/ CallTool(i) PROVE GraphInv'
  BY <1>5, SkipStepInv, CallToolInv
<1>6. ASSUME NEW i \in flying, NEW out \in {"ok", "error"}, StepEnds(i, out) PROVE GraphInv'
  BY <1>6, StepEndsInv
<1>7. ASSUME NEW v \in Verdict, evaluate_node(v) PROVE GraphInv'
  BY <1>7, EvaluateInv
<1>8. CASE Crash
  BY <1>8, CrashInv
<1>10. CASE Rerun
  <2>1. StartRun /\ crashes' = crashes /\ runs' = runs + 1 /\ runs < MaxRuns
    BY <1>10 DEF Rerun
  <2>2. crashes \in 0..MaxCrashes /\ runs \in 1..MaxRuns
    BY DEF GraphInv, PlanInv, TypeOK
  <2>. QED
    BY <2>1, <2>2, GraphAssumption, StartRunInv
<1>9. CASE UNCHANGED vars
  <2>1. UNCHANGED <<checkpoint, answers, mode, locals, history>>
    BY <1>9 DEF vars
  <2>2. UNCHANGED <<calls, answered, refused, crashes, runs>>
    BY <2>1 DEF history
  <2>3. mode \in {"up", "paused", "down"} /\ answers \in Nat /\ answered \in Nat
        /\ refused \in BOOLEAN
    BY DEF GraphInv, PlanInv, TypeOK
  <2>4. node = "execute" => answers <= answered
    BY DEF GraphInv, Approvals
  <2>. QED
    BY <2>1, <2>2, <2>3, <2>4, Waiting
<1>. QED
  BY <1>1, <1>2, <1>3, <1>4, <1>5, <1>6, <1>7, <1>8, <1>9, <1>10 DEF Next, NodeStep, ExecuteStep

\* The invariant holds in every reachable state.
THEOREM GraphInvariant == Spec => []GraphInv
BY InitGraphInv, StepGraphInv, PTL DEF Spec

\* No tool of a plan runs before an operator has answered for every destructive step of that
\* plan, whatever was answered for earlier plans or runs and however often the process dies
\* (the interrupts of execute_node); what the answer is plays no part.
THEOREM AnswersComeFirst == Spec => []AnsweredBeforeEffects
<1>1. GraphInv => AnsweredBeforeEffects
  BY DEF GraphInv, Approvals
<1>. QED
  BY <1>1, GraphInvariant, PTL

\* A step of a plan is called once, and once more for each death of the process at most:
\* answers replay execute_node without repeating a call.
THEOREM ReplayRepeatsNothing == Spec => []EffectsNotRepeated
<1>1. GraphInv => EffectsNotRepeated
  BY DEF GraphInv, Attempts
<1>. QED
  BY <1>1, GraphInvariant, PTL

\* In a plan without a cycle a tool starts when the steps it refers to are over, in
\* parallel or not (_build_dag and the sorter's get_ready).
THEOREM DependenciesAreOver == Spec => []DependenciesFirst
<1>1. GraphInv => DependenciesFirst
  <2>. SUFFICES ASSUME GraphInv, NEW i \in flying, ~Cyclic(plan), NEW x \in plan[i].refs
                PROVE  x \in outputs \/ \E e \in results : plan[e.pos].id = x /\ e.out # "ok"
    BY DEF DependenciesFirst
  <2>1. plan # Nil /\ i \in DOMAIN plan /\ _validate_step_references(plan)
    BY RunFacts
  <2>2. plan \in Plans /\ x \in Ids(plan)
    BY <2>1, PlanType DEF _validate_step_references
  <2>3. step_map(plan, x) \in finished /\ plan[step_map(plan, x)].id = x
    BY <2>2, StepMapIs DEF GraphInv, Fetched
  <2>4. PICK e \in results : e.pos = step_map(plan, x)
    BY <2>3 DEF GraphInv, Outcomes
  <2>. QED
    BY <2>3, <2>4 DEF GraphInv, Outcomes
<1>. QED
  BY <1>1, GraphInvariant, PTL

\* The critic is given an outcome for every step id of the plan and the iterations stay
\* within their bound, in a well-typed state (execute_node and evaluate_node).
THEOREM CriticSeesThePlan == Spec => []PlanInv
<1>1. GraphInv => PlanInv
  BY DEF GraphInv
<1>. QED
  BY <1>1, GraphInvariant, PTL

-----------------------------------------------------------------------------
(* Runs of a crew.                                                          *)

\* Nobody answers the interrupts of an agent's graph.
CrewInv == GraphInv /\ (kick # "direct" => answered = 0) /\ ToolsWithinScope

\* What is known of the calls made so far stays true when one within the scope is made.
LEMMA ScopeKept ==
    ASSUME ToolsWithinScope, NEW backend, NEW k, NEW t, crew' = crew,
           reached' = reached \/ scoped_call(backend, k, t),
           backend = "langgraph" => t \notin DESTRUCTIVE_TOOLS
    PROVE  ToolsWithinScope'
<1>1. ASSUME NEW call \in reached', call \notin reached
      PROVE  call = <<backend, k, t>> /\ t \in scope_tools(crew[k])
  BY <1>1 DEF scoped_call
<1>2. ASSUME NEW call \in reached'
      PROVE  /\ call[3] \in scope_tools(crew[call[2]])
             /\ call[1] = "langgraph" => call[3] \notin DESTRUCTIVE_TOOLS
  BY <1>1, <1>2 DEF ToolsWithinScope
<1>3. \A call \in reached' : scope_tools(crew[call[2]])' = scope_tools(crew[call[2]])
  BY DEF scope_tools
<1>. QED
  BY <1>2, <1>3 DEF ToolsWithinScope

\* A graph that runs without an answer has no destructive step.
LEMMA NothingDestructive ==
    ASSUME GraphInv, answered = 0, NEW i \in batch
    PROVE  plan[i].tool \notin DESTRUCTIVE_TOOLS
<1>1. plan # Nil /\ i \in DOMAIN plan /\ answered >= Interrupts(plan) /\ Interrupts(plan) \in Nat
  BY RunFacts
<1>2. plan \in Plans
  BY <1>1, PlanType
<1>3. IsFiniteSet(DestructiveSteps(plan))
  BY <1>2, GraphAssumption, FS_Interval, FS_Subset DEF DestructiveSteps
<1>4. DestructiveSteps(plan) = {}
  BY <1>1, <1>3, FS_EmptySet DEF Interrupts
<1>. QED
  BY <1>1, <1>4 DEF DestructiveSteps

\* A graph that has returned makes room for that of the next agent.
LEMMA NextAgent ==
    ASSUME GraphInv, GraphReturns
    PROVE  GraphInv' /\ answered' = 0
<1>1. StartRun /\ crashes' = 0 /\ runs' = runs
  BY DEF GraphReturns
<1>2. crashes' \in 0..MaxCrashes /\ runs' \in 1..MaxRuns
  BY <1>1, GraphAssumption DEF GraphInv, PlanInv, TypeOK
<1>3. answered' = 0
  BY <1>1 DEF StartRun
<1>. QED
  BY <1>1, <1>2, <1>3, StartRunInv

\* A step of an agent's graph is one of the graph; its calls are within the scope.
LEMMA GraphStepInv ==
    ASSUME CrewInv, GraphStep
    PROVE  CrewInv'
<1>1. kick = "langgraph" /\ UNCHANGED <<crew, kick>> /\ answered = 0 /\ GraphInv /\ ToolsWithinScope
  BY DEF GraphStep, CrewInv
<1>2. ASSUME NEW v \in BOOLEAN, validate_node(v), reached' = reached PROVE CrewInv'
  <2>1. GraphInv' /\ answered' = 0
    BY <1>1, <1>2, ValidateInv DEF validate_node, history
  <2>. QED
    BY <1>1, <1>2, <2>1, ScopeKept DEF CrewInv
<1>3. ASSUME NEW p \in Plans \cup {Nil}, plan_node(p), reached' = reached PROVE CrewInv'
  <2>1. GraphInv' /\ answered' = 0
    BY <1>1, <1>3, PlanNodeInv DEF plan_node
  <2>. QED
    BY <1>1, <1>3, <2>1, ScopeKept DEF CrewInv
<1>4. ASSUME RejectReferences \/ AskApproval \/ StartPlan \/ EndPlan, reached' = reached
      PROVE  CrewInv'
  <2>1. GraphInv'
    BY <1>1, <1>4, RejectInv, WaitingInv, StartPlanInv, EndPlanInv
  <2>2. answered' = 0
    BY <1>1, <1>4 DEF RejectReferences, AskApproval, StartPlan, EndPlan, history
  <2>. QED
    BY <1>1, <1>4, <2>1, <2>2, ScopeKept DEF CrewInv
<1>5. ASSUME NEW i \in batch, SkipStep(i), reached' = reached PROVE CrewInv'
  <2>1. GraphInv' /\ answered' = 0
    BY <1>1, <1>5, SkipStepInv DEF SkipStep, history
  <2>. QED
    BY <1>1, <1>5, <2>1, ScopeKept DEF CrewInv
<1>6. ASSUME NEW v \in Verdict, evaluate_node(v), reached' = reached PROVE CrewInv'
  <2>1. GraphInv'
    BY <1>1, <1>6, EvaluateInv
  <2>2. answered' = 0
    BY <1>1, <1>6 DEF evaluate_node, EvaluatePassed, EvaluateNotPassed, AskReview, Crash, history
  <2>. QED
    BY <1>1, <1>6, <2>1, <2>2, ScopeKept DEF CrewInv
<1>7. ASSUME NEW i \in batch, CallTool(i), scoped_call("langgraph", at, plan[i].tool)
      PROVE  CrewInv'
  <2>1. GraphInv' /\ answered' = 0
    BY <1>1, <1>7, CallToolInv DEF CallTool
  <2>2. ToolsWithinScope'
    BY <1>1, <1>7, NothingDestructive, ScopeKept
  <2>. QED
    BY <1>1, <2>1, <2>2 DEF CrewInv
<1>8. ASSUME NEW i \in flying, NEW out \in {"ok", "error"}, StepEnds(i, out), reached' = reached
      PROVE  CrewInv'
  <2>1. GraphInv' /\ answered' = 0
    BY <1>1, <1>8, StepEndsInv DEF StepEnds, history
  <2>. QED
    BY <1>1, <1>8, <2>1, ScopeKept DEF CrewInv
<1>9. validate_node(context # <<>> /\ scope_tools(crew[at]) # {}) =>
          \E v \in BOOLEAN : validate_node(v)
  BY DEF validate_node
<1>. QED
  BY <1>2, <1>3, <1>4, <1>5, <1>6, <1>7, <1>8, <1>9 DEF GraphStep

\* A step that leaves the graph alone keeps what is known of it.
LEMMA BesideGraph ==
    ASSUME CrewInv, UNCHANGED <<vars, crew>>, kick = "direct" => kick' = "direct",
           ToolsWithinScope'
    PROVE  CrewInv'
<1>1. GraphInv'
  BY StepGraphInv DEF CrewInv
<1>2. answered' = answered
  BY DEF vars, history
<1>. QED
  BY <1>1, <1>2 DEF CrewInv

\* Every step of a crew keeps its invariant.
LEMMA StepCrewInv == CrewInv /\ [CrewNext]_allVars => CrewInv'
<1>. SUFFICES ASSUME CrewInv, [CrewNext]_allVars PROVE CrewInv'
  OBVIOUS
<1>1. ASSUME UNCHANGED <<vars, crew, reached>>, kick = "direct" => kick' = "direct"
      PROVE  CrewInv'
  BY <1>1, BesideGraph, ScopeKept DEF CrewInv
<1>2. CASE CrewAIMissing \/ CrewAIRaises \/ Evaluate \/ EvaluatorRaises
  BY <1>1, <1>2 DEF CrewAIMissing, FallBack, CrewAIRaises, Evaluate, EvaluatorRaises
<1>3. ASSUME NEW blank, CrewAIReturns(blank) PROVE CrewInv'
  BY <1>1, <1>3 DEF CrewAIReturns
<1>4. ASSUME NEW success \in BOOLEAN, NEW out, NativeAgent(success, out) PROVE CrewInv'
  BY <1>1, <1>4 DEF NativeAgent, AddResult
<1>5. CASE GraphStep
  BY <1>5, GraphStepInv
<1>6. CASE GraphReturns
  <2>1. GraphInv' /\ answered' = 0
    BY <1>6, NextAgent DEF CrewInv
  <2>2. UNCHANGED <<crew, reached>>
    BY <1>6 DEF GraphReturns, AddResult
  <2>. QED
    BY <2>1, <2>2, ScopeKept DEF CrewInv
<1>7. ASSUME NEW k, NEW t, CrewAICalls(k, t) PROVE CrewInv'
  <2>1. ToolsWithinScope'
    BY <1>7, ScopeKept DEF CrewAICalls, CrewInv
  <2>. QED
    BY <1>7, <2>1, BesideGraph DEF CrewAICalls
<1>8. CASE kick = "direct" /\ Next /\ UNCHANGED crewVars
  <2>1. GraphInv' /\ UNCHANGED <<crew, kick, reached>>
    BY <1>8, StepGraphInv DEF CrewInv, crewVars
  <2>. QED
    BY <1>8, <2>1, ScopeKept DEF CrewInv
<1>9. CASE UNCHANGED allVars
  BY <1>1, <1>9 DEF allVars, crewVars
<1>. QED
  BY <1>2, <1>3, <1>4, <1>5, <1>6, <1>7, <1>8, <1>9 DEF CrewNext, CrewStep

\* No agent reaches a tool outside its scope whatever its plans name, and no agent's graph
\* one that needs an approval, for every crew (build_scoped_call_fn and MCPCrew.kickoff).
THEOREM AgentsKeepScope == CrewSpec => []ToolsWithinScope
<1>1. CrewInit => CrewInv
  BY InitGraphInv DEF CrewInit, CrewInv, Init, ToolsWithinScope
<1>2. CrewInv => ToolsWithinScope
  BY DEF CrewInv
<1>. QED
  BY <1>1, <1>2, StepCrewInv, PTL DEF CrewSpec

\* The graphs that a crew runs, one for each agent, keep what a single one keeps:
\* answers before effects, no effect repeated, every outcome reported.
THEOREM CrewsKeepTheGraph ==
    CrewSpec => [](AnsweredBeforeEffects /\ EffectsNotRepeated /\ PlanInv)
<1>1. CrewInit => CrewInv
  BY InitGraphInv DEF CrewInit, CrewInv, Init, ToolsWithinScope
<1>2. CrewInv => AnsweredBeforeEffects /\ EffectsNotRepeated /\ PlanInv
  BY DEF CrewInv, GraphInv, Approvals, Attempts
<1>. QED
  BY <1>1, <1>2, StepCrewInv, PTL DEF CrewSpec

-----------------------------------------------------------------------------
(* What a crew reports.                                                     *)

Text == Seq(Nat)
Result == [task : Text, output : Text, success : BOOLEAN]

\* The agent at work has a task and a tool: validate_node let its graph begin.
Admitted == context # <<>> /\ scope_tools(crew[at]) # {}

\* The results so far, and that an agent's graph succeeds only when it was admitted.
ReportInv ==
    /\ crew \in Seq(Agent) /\ context \in Text /\ agentResults \in Seq(Result)
    /\ kick = "crewai" => node = "validate" /\ phase = "validate"
    /\ kick = "langgraph" => \/ node = "validate" /\ phase = "validate"
                             \/ node = "end" /\ phase = "failed"
                             \/ Admitted
    /\ kick \in {"langgraph", "native"} => Len(agentResults) < Len(crew)
    /\ kick \in {"evaluating", "returned"} => Len(agentResults) = Len(crew)
    /\ CrewHonest

\* The text handed on by the results R, as a function of them.
Handed(R, k) ==
    LET done == {j \in 1..k - 1 : R[j].success} IN
    IF done = {} THEN task ELSE R[Max(done)].output

LEMMA HandedIs == \A k : HandedOn(k) = Handed(agentResults, k) /\ HandedOn(k)' = Handed(agentResults', k)
BY DEF HandedOn, Handed

LEMMA MaxIs ==
    ASSUME NEW n \in Nat, NEW S, S \subseteq 1..n, S # {}
    PROVE  Max(S) \in S /\ \A k \in S : k <= Max(S)
<1>1. PICK i \in S : \A k \in S : k <= i
  BY LastOf
<1>2. \E m \in S : \A k \in S : m >= k
  BY <1>1
<1>. QED
  BY <1>2 DEF Max

\* What was handed on to an agent depends on the results before its own.
LEMMA HandedSame ==
    ASSUME NEW n \in Nat, NEW Q, NEW R, \A j \in 1..n : Q[j] = R[j], NEW k \in 1..(n + 1)
    PROVE  Handed(Q, k) = Handed(R, k)
<1>. DEFINE done(P) == {j \in 1..k - 1 : P[j].success}
<1>1. done(Q) = done(R)
  OBVIOUS
<1>2. CASE done(R) = {}
  BY <1>1, <1>2 DEF Handed
<1>3. CASE done(R) # {}
  <2>1. done(R) \subseteq 1..n
    OBVIOUS
  <2>. HIDE DEF done
  <2>2. Max(done(R)) \in 1..n
    BY <1>3, <2>1, MaxIs
  <2>3. Handed(Q, k) = Q[Max(done(Q))].output /\ Handed(R, k) = R[Max(done(R))].output
    BY <1>1, <1>3 DEF Handed, done
  <2>. QED
    BY <1>1, <2>2, <2>3
<1>. QED
  BY <1>2, <1>3

\* A success hands its output on, a failure what was handed to it.
LEMMA HandedLast ==
    ASSUME NEW n \in Nat \ {0}, NEW R
    PROVE  Handed(R, n + 1) = IF R[n].success THEN R[n].output ELSE Handed(R, n)
<1>. DEFINE done(k) == {j \in 1..k - 1 : R[j].success}
<1>1. done(n + 1) = {j \in 1..n : R[j].success} /\ done(n + 1) \subseteq 1..n
  OBVIOUS
<1>2. CASE R[n].success
  <2>1. n \in done(n + 1)
    BY <1>1, <1>2
  <2>. HIDE DEF done
  <2>2. Max(done(n + 1)) \in 1..n /\ n <= Max(done(n + 1))
    BY <1>1, <2>1, MaxIs
  <2>3. Max(done(n + 1)) = n
    BY <2>2
  <2>4. Handed(R, n + 1) = R[Max(done(n + 1))].output
    BY <2>1 DEF Handed, done
  <2>. QED
    BY <1>2, <2>3, <2>4
<1>3. CASE ~R[n].success
  <2>1. done(n + 1) = done(n)
    BY <1>3
  <2>. QED
    BY <1>3, <2>1 DEF Handed
<1>. QED
  BY <1>2, <1>3

\* What is known of a sequential runner when its next agent has a result.
LEMMA AgentEnds ==
    ASSUME ReportInv, kick \in {"langgraph", "native"}, NEW success \in BOOLEAN, NEW out \in Text,
           AddResult(success, out), kick = "langgraph" /\ success => Admitted
    PROVE  /\ crew' = crew /\ crew \in Seq(Agent) /\ context' \in Text /\ agentResults' \in Seq(Result)
           /\ kick' \in {kick, "evaluating"}
           /\ kick' = kick => Len(agentResults') < Len(crew')
           /\ kick' = "evaluating" => Len(agentResults') = Len(crew')
           /\ CrewHonest'
<1>. DEFINE r == [task |-> context, output |-> out, success |-> success]
<1>0. PICK n : n = Len(agentResults)
  OBVIOUS
<1>1. /\ agentResults' = Append(agentResults, r) /\ context' = (IF success THEN out ELSE context)
      /\ kick' = (IF n + 1 = Len(crew) THEN "evaluating" ELSE kick) /\ crew' = crew
  BY <1>0 DEF AddResult, at
<1>2. /\ crew \in Seq(Agent) /\ context \in Text /\ agentResults \in Seq(Result)
      /\ n < Len(crew) /\ n \in Nat /\ Len(crew) \in Nat
  BY <1>0, LenProperties DEF ReportInv
<1>3. r \in Result /\ r.task = context /\ r.output = out /\ r.success = success
  BY <1>2 DEF Result
<1>. HIDE DEF r
<1>4. /\ agentResults' \in Seq(Result) /\ Len(agentResults') = n + 1
      /\ DOMAIN agentResults = 1..n /\ DOMAIN agentResults' = 1..(n + 1)
      /\ \A j \in 1..n : agentResults'[j] = agentResults[j]
      /\ agentResults'[n + 1] = r
  BY <1>0, <1>1, <1>2, <1>3, AppendProperties, LenProperties
<1>5. \A k \in 1..(n + 1) : HandedOn(k)' = HandedOn(k)
  BY <1>2, <1>4, HandedSame, HandedIs
<1>6. context = HandedOn(n + 1)
  BY <1>0 DEF ReportInv, CrewHonest, at
<1>7. HandedOn(n + 2)' = context'
  <2>1. n + 1 \in Nat \ {0} /\ (n + 1) + 1 = n + 2
    BY <1>2
  <2>2. Handed(agentResults', n + 2) = IF r.success THEN r.output ELSE Handed(agentResults', n + 1)
    BY <1>4, <2>1, HandedLast
  <2>3. Handed(agentResults', n + 1) = context
    BY <1>2, <1>5, <1>6, HandedIs
  <2>4. HandedOn(n + 2)' = Handed(agentResults', n + 2)
    BY HandedIs
  <2>5. CASE success
    BY <1>1, <1>3, <2>2, <2>4, <2>5
  <2>6. CASE ~success
    BY <1>1, <1>3, <2>2, <2>3, <2>4, <2>6
  <2>. QED
    BY <2>5, <2>6
<1>8. ASSUME NEW k \in 1..(n + 1)
      PROVE  /\ agentResults'[k].task = HandedOn(k)
             /\ kick = "langgraph" /\ agentResults'[k].success => HandedOn(k) # <<>> /\ scope_tools(crew[k]) # {}
  <2>1. CASE k = n + 1
    BY <1>0, <1>3, <1>4, <1>6, <2>1 DEF Admitted, at
  <2>2. CASE k # n + 1
    <3>1. k \in 1..n
      BY <1>2, <2>2
    <3>. QED
      BY <1>4, <3>1 DEF ReportInv, CrewHonest
  <2>. QED
    BY <2>1, <2>2
<1>9. \A k : scope_tools(crew[k])' = scope_tools(crew[k])
  BY <1>1 DEF scope_tools
<1>10. CrewHonest'
  <2>1. at' = n + 2
    BY <1>2, <1>4 DEF at
  <2>2. kick' # "returned" /\ (kick' \in {"langgraph", "native"} => kick' = kick)
    BY <1>1
  <2>3. \A k \in DOMAIN agentResults' :
          /\ agentResults'[k].task = HandedOn(k)'
          /\ kick' = "langgraph" /\ agentResults'[k].success =>
                 HandedOn(k)' # <<>> /\ scope_tools(crew[k])' # {}
    BY <1>4, <1>5, <1>8, <1>9, <2>2
  <2>4. context' = HandedOn(at)'
    <3>1. HandedOn(at)' = Handed(agentResults', at')
      BY DEF HandedOn, Handed
    <3>. QED
      BY <1>7, <2>1, <3>1, HandedIs
  <2>. QED
    BY <2>2, <2>3, <2>4 DEF CrewHonest
<1>11. context' \in Text
  BY <1>1, <1>2
<1>. QED
  BY <1>1, <1>2, <1>4, <1>10, <1>11

\* The results stay what they are when only the graph moves on.
LEMMA ResultsKept ==
    ASSUME ReportInv, UNCHANGED <<crew, kick, context, agentResults, verdict>>
    PROVE  /\ CrewHonest' /\ (Admitted => Admitted')
           /\ crew' \in Seq(Agent) /\ context' \in Text /\ agentResults' \in Seq(Result)
           /\ kick' \in {"langgraph", "native"} => Len(agentResults') < Len(crew')
           /\ kick' \in {"evaluating", "returned"} => Len(agentResults') = Len(crew')
<1>1. \A k : HandedOn(k)' = HandedOn(k)
  BY HandedIs
<1>2. \A k : scope_tools(crew[k])' = scope_tools(crew[k])
  BY DEF scope_tools
<1>3. at' = at
  BY DEF at
<1>4. CrewHonest'
  BY <1>1, <1>2, <1>3 DEF ReportInv, CrewHonest
<1>5. Admitted => Admitted'
  BY <1>2, <1>3 DEF Admitted
<1>. QED
  BY <1>4, <1>5 DEF ReportInv

\* An agent's graph goes on only when validate_node let it begin.
LEMMA GraphStepReport ==
    ASSUME CrewInv, ReportInv, GraphStep
    PROVE  ReportInv'
<1>1. kick = "langgraph" /\ UNCHANGED <<crew, kick, context, agentResults, verdict>>
  BY DEF GraphStep
<1>2. running => node = "execute"
  BY DEF CrewInv, GraphInv, Placed
<1>3. batch \cup flying # {} => running
  BY DEF CrewInv, GraphInv, Placed
<1>4. \/ node' = "end" /\ phase' = "failed"
      \/ Admitted'
  <2>1. ASSUME NEW i \in batch, SkipStep(i) \/ CallTool(i) PROVE node \notin {"validate", "end"}
    BY <1>2, <1>3
  <2>2. ASSUME NEW i \in flying PROVE node \notin {"validate", "end"}
    BY <1>2, <1>3
  <2>3. ASSUME NEW p \in Plans \cup {Nil}, plan_node(p) PROVE node \notin {"validate", "end"}
    BY <2>3 DEF plan_node
  <2>4. ASSUME RejectReferences \/ AskApproval \/ StartPlan \/ EndPlan
        PROVE  node \notin {"validate", "end"}
    BY <1>2, <2>4 DEF RejectReferences, AskApproval, StartPlan, EndPlan
  <2>5. ASSUME NEW v \in Verdict, evaluate_node(v) PROVE node \notin {"validate", "end"}
    BY <2>5 DEF evaluate_node, EvaluatePassed, AskReview, EvaluateNotPassed
  <2>6. CASE validate_node(Admitted)
    BY <1>1, <2>6, ResultsKept DEF validate_node, Return
  <2>7. CASE node \notin {"validate", "end"}
    BY <1>1, <2>7, ResultsKept DEF ReportInv
  <2>8. Admitted <=> context # <<>> /\ scope_tools(crew[at]) # {}
    BY DEF Admitted
  <2>. QED
    BY <2>1, <2>2, <2>3, <2>4, <2>5, <2>6, <2>7, <2>8 DEF GraphStep
<1>. QED
  BY <1>1, <1>4, ResultsKept DEF ReportInv

\* The runners start with the task and without results.
LEMMA FallBackReport ==
    ASSUME ReportInv, kick = "crewai", FallBack, UNCHANGED vars
    PROVE  ReportInv'
<1>1. /\ kick' \in (IF crew = <<>> THEN {"evaluating"} ELSE {"langgraph", "native"})
      /\ context' = task /\ agentResults' = <<>> /\ UNCHANGED <<crew, node, phase>>
  BY DEF FallBack, vars, checkpoint
<1>2. crew \in Seq(Agent) /\ node' = "validate" /\ phase' = "validate"
  BY <1>1 DEF ReportInv
<1>3. Len(crew) \in Nat /\ (Len(crew) = 0 <=> crew = <<>>)
  BY <1>2, LenProperties, EmptySeq
<1>4. task \in Text /\ <<>> \in Seq(Result) /\ Len(<<>>) = 0 /\ DOMAIN <<>> = {}
  BY DEF task, Text
<1>5. context' = HandedOn(at)'
  <2>1. at' = 1
    BY <1>1, <1>4 DEF at
  <2>2. HandedOn(at)' = Handed(agentResults', 1)
    BY <2>1 DEF HandedOn, Handed
  <2>3. {j \in 1..1 - 1 : agentResults'[j].success} = {}
    OBVIOUS
  <2>. QED
    BY <1>1, <2>2, <2>3 DEF Handed, task
<1>6. CrewHonest'
  BY <1>1, <1>4, <1>5 DEF CrewHonest
<1>. QED
  BY <1>1, <1>2, <1>3, <1>4, <1>6 DEF ReportInv

\* CrewAI returns one result for each agent.
LEMMA CrewAIReport ==
    ASSUME ReportInv, NEW blank, CrewAIReturns(blank)
    PROVE  ReportInv'
<1>. DEFINE out(k) == IF k \in blank THEN <<>> ELSE <<k>>
            R == [k \in DOMAIN crew |-> [task |-> task, output |-> out(k), success |-> TRUE]]
<1>1. agentResults' = R /\ kick' = "evaluating" /\ UNCHANGED <<crew, context>>
  BY DEF CrewAIReturns
<1>2. crew \in Seq(Agent) /\ context \in Text
  BY DEF ReportInv
<1>3. Len(crew) \in Nat /\ DOMAIN crew = 1..Len(crew)
  BY <1>2, LenProperties
<1>4. \A k \in 1..Len(crew) : out(k) \in Text /\ task \in Text
  BY DEF Text, task
<1>5. \A k \in 1..Len(crew) : [task |-> task, output |-> out(k), success |-> TRUE] \in Result
  BY <1>4 DEF Result
<1>6. R \in Seq(Result) /\ Len(R) = Len(crew)
  BY <1>3, <1>5
<1>. QED
  BY <1>1, <1>2, <1>6 DEF ReportInv, CrewHonest

\* The steps of a crew keep what is known of its results.
LEMMA StepReportInv == CrewInv /\ ReportInv /\ [CrewNext]_allVars => ReportInv'
<1>. SUFFICES ASSUME CrewInv, ReportInv, [CrewNext]_allVars PROVE ReportInv'
  OBVIOUS
<1>1. CASE GraphStep
  BY <1>1, GraphStepReport
<1>2. CASE GraphReturns
  <2>1. PICK success \in BOOLEAN, out \in Text : AddResult(success, out) /\ (success => phase = "done")
    <3>1. <<at>> \in Text /\ <<>> \in Text
      BY LenProperties DEF ReportInv, Text, at
    <3>. QED
      BY <1>2, <3>1 DEF GraphReturns
  <2>2. kick = "langgraph" /\ node' = "validate" /\ phase' = "validate"
    BY <1>2 DEF GraphReturns, StartRun
  <2>3. success => Admitted
    BY <2>1, <2>2 DEF ReportInv
  <2>. QED
    BY <2>1, <2>2, <2>3, AgentEnds DEF ReportInv
<1>3. ASSUME NEW success \in BOOLEAN, NEW out \in {<<at>>, <<>>}, NativeAgent(success, out)
      PROVE  ReportInv'
  <2>1. out \in Text
    <3>1. <<at>> \in Text /\ <<>> \in Text
      BY LenProperties DEF ReportInv, Text, at
    <3>. QED
      BY <3>1
  <2>2. kick = "native" /\ AddResult(success, out)
    BY <1>3 DEF NativeAgent
  <2>. QED
    BY <2>1, <2>2, AgentEnds DEF ReportInv
<1>4. CASE CrewAIMissing
  BY <1>4, FallBackReport DEF CrewAIMissing
<1>5. ASSUME NEW blank, CrewAIReturns(blank) PROVE ReportInv'
  BY <1>5, CrewAIReport
<1>6. CASE CrewAIRaises \/ EvaluatorRaises
  BY <1>6 DEF CrewAIRaises, EvaluatorRaises, ReportInv, CrewHonest
<1>7. CASE Evaluate
  <2>1. /\ kick = "evaluating" /\ kick' = "returned" /\ UNCHANGED <<crew, context, agentResults>>
        /\ verdict'.by = "results" /\ verdict'.passed =>
               \A k \in DOMAIN agentResults : agentResults[k].success
    BY <1>7 DEF Evaluate
  <2>. QED
    BY <2>1 DEF ReportInv, CrewHonest
<1>8. ASSUME UNCHANGED <<crew, kick, context, agentResults, verdict>>,
             kick = "direct" \/ UNCHANGED <<node, phase>>
      PROVE  ReportInv'
  BY <1>8, ResultsKept DEF ReportInv
<1>9. ASSUME NEW k, NEW t, CrewAICalls(k, t) PROVE ReportInv'
  BY <1>8, <1>9 DEF CrewAICalls, vars, checkpoint
<1>10. CASE kick = "direct" /\ Next /\ UNCHANGED crewVars
  BY <1>8, <1>10 DEF crewVars
<1>11. CASE UNCHANGED allVars
  BY <1>8, <1>11 DEF allVars, crewVars, vars, checkpoint
<1>. QED
  BY <1>1, <1>2, <1>3, <1>4, <1>5, <1>6, <1>7, <1>9, <1>10, <1>11 DEF CrewNext, CrewStep

\* A crew reports what happened: each agent of a runner worked on the last successful
\* output before it, a graph succeeded only from a task and with a tool, and a verdict
\* drawn from the results alone passes only when every agent did (MCPCrew.kickoff).
THEOREM CrewsAreHonest == CrewSpec => []CrewHonest
<1>1. CrewInit => CrewInv
  BY InitGraphInv DEF CrewInit, CrewInv, Init, ToolsWithinScope
<1>2. CrewInit => ReportInv
  <2>. SUFFICES ASSUME CrewInit PROVE ReportInv
    OBVIOUS
  <2>1. crew \in Seq(Agent)
    <3>1. <<>> \in Seq(Agent) /\ Crews \subseteq Seq(Agent)
      BY CrewAssumption
    <3>. QED
      BY <3>1 DEF CrewInit
  <2>2. kick \in {"direct", "crewai"} /\ node = "validate" /\ phase = "validate"
    BY DEF CrewInit, Init
  <2>3. context \in Text /\ agentResults \in Seq(Result)
    BY DEF CrewInit, task, Text
  <2>. QED
    BY <2>1, <2>2, <2>3 DEF ReportInv, CrewHonest
<1>3. CrewInv /\ ReportInv => CrewHonest
  BY DEF ReportInv
<1>. QED
  BY <1>1, <1>2, <1>3, StepCrewInv, StepReportInv, PTL DEF CrewSpec

-----------------------------------------------------------------------------
(* What the optimizer learns from.                                          *)

Sharing == job = "consuming" /\ shared

IngestType ==
    /\ topic \in Seq(Trace \cup {Torn}) /\ Len(topic) <= MaxTraces
    /\ committed \in 0..Len(topic)
    /\ faults \in Nat /\ handed \in [1..MaxTraces -> Nat]
    /\ job = "consuming" =>
          /\ position \in 0..Len(topic) /\ records \in Seq(Nat)
          /\ \A o \in ToSet(records) : o \in 1..position
    /\ Sharing => committed <= position

\* Each failed commit, and only that, lets a trace be handed over once more.
NotTwice ==
    /\ \A o \in 1..MaxTraces :
          /\ handed[o] <= 1 + faults
          /\ o > committed => handed[o] <= faults
    /\ Sharing => \A o \in ToSet(records) : handed[o] <= faults

\* What the shared group has passed is handed over, dropped, or about to be handed over.
NotLost ==
    \A o \in 1..Len(topic) :
        topic[o] # Torn /\ o <= (IF Sharing THEN position ELSE committed) =>
            handed[o] > 0 \/ o \in wasted \/ (Sharing /\ o \in ToSet(records))

IngestInv == IngestType /\ NotTwice /\ NotLost

\* Of a sequence that grows, the elements so far and the one that is added.
LEMMA Appended ==
    ASSUME NEW S, NEW Q \in Seq(S), NEW x \in S
    PROVE  /\ Append(Q, x) \in Seq(S) /\ Len(Append(Q, x)) = Len(Q) + 1 /\ Len(Q) \in Nat
           /\ \A i \in 1..Len(Q) : Append(Q, x)[i] = Q[i]
           /\ ToSet(Append(Q, x)) = ToSet(Q) \cup {x}
<1>1. /\ Append(Q, x) \in Seq(S) /\ Len(Append(Q, x)) = Len(Q) + 1
      /\ \A i \in 1..Len(Q) : Append(Q, x)[i] = Q[i]
      /\ Append(Q, x)[Len(Q) + 1] = x
  BY AppendProperties
<1>2. Len(Q) \in Nat /\ DOMAIN Q = 1..Len(Q) /\ DOMAIN Append(Q, x) = 1..(Len(Q) + 1)
  BY <1>1, LenProperties
<1>3. ToSet(Append(Q, x)) = ToSet(Q) \cup {x}
  BY <1>1, <1>2 DEF ToSet
<1>. QED
  BY <1>1, <1>2, <1>3

\* A trace is emitted.
LEMMA EmitInv ==
    ASSUME IngestInv, NEW t \in Trace \cup {Torn}, Emit(t)
    PROVE  IngestInv'
<1>1. /\ Len(topic) < MaxTraces /\ topic' = Append(topic, t)
      /\ UNCHANGED <<committed, shared, position, records, job, faults, handed, wasted>>
  BY DEF Emit, countVars
<1>2. /\ topic' \in Seq(Trace \cup {Torn}) /\ Len(topic') = Len(topic) + 1 /\ Len(topic) \in Nat
      /\ \A i \in 1..Len(topic) : topic'[i] = topic[i]
  BY <1>1, Appended DEF IngestInv, IngestType
<1>3. IngestType'
  BY <1>1, <1>2, OptimizerAssumption DEF IngestInv, IngestType, Sharing
<1>4. NotTwice'
  BY <1>1 DEF IngestInv, NotTwice, Sharing
<1>5. NotLost'
  BY <1>1, <1>2 DEF IngestInv, IngestType, NotLost, Sharing
<1>. QED
  BY <1>3, <1>4, <1>5 DEF IngestInv

\* A consumer starts where its group has committed, or at the beginning.
LEMMA StartInv ==
    ASSUME IngestInv, NEW inGroup \in BOOLEAN, StartConsumer(inGroup)
    PROVE  IngestInv'
<1>1. /\ job = "off" /\ job' = "consuming" /\ shared' = inGroup
      /\ position' = (IF inGroup THEN committed ELSE 0) /\ records' = <<>>
      /\ UNCHANGED <<topic, committed, faults, handed, wasted>>
  BY DEF StartConsumer, StartJob
<1>2. ToSet(records') = {} /\ records' \in Seq(Nat) /\ Len(topic) \in Nat
  BY <1>1, LenProperties DEF ToSet, IngestInv, IngestType
<1>3. IngestType'
  BY <1>1, <1>2 DEF IngestInv, IngestType, Sharing
<1>4. NotTwice'
  BY <1>1, <1>2 DEF IngestInv, NotTwice, Sharing
<1>5. NotLost'
  BY <1>1, <1>2 DEF IngestInv, NotLost, Sharing
<1>. QED
  BY <1>3, <1>4, <1>5 DEF IngestInv

\* A message is read: nobody has handed it over, unless its commit failed.
LEMMA ConsumeInv ==
    ASSUME IngestInv, Consume
    PROVE  IngestInv'
<1>1. /\ job = "consuming" /\ position < Len(topic) /\ position' = position + 1
      /\ records' = (IF topic[position + 1] = Torn THEN records ELSE Append(records, position + 1))
      /\ UNCHANGED <<topic, committed, shared, job, faults, handed, wasted>>
  BY DEF Consume, countVars
<1>2. /\ position \in Nat /\ Len(topic) \in Nat /\ Len(topic) <= MaxTraces /\ MaxTraces \in Nat
      /\ records \in Seq(Nat) /\ \A o \in ToSet(records) : o \in 1..position
      /\ handed \in [1..MaxTraces -> Nat] /\ faults \in Nat
  BY <1>1, LenProperties, OptimizerAssumption DEF IngestInv, IngestType
<1>3. /\ records' \in Seq(Nat)
      /\ ToSet(records') = (IF topic[position + 1] = Torn
                            THEN ToSet(records) ELSE ToSet(records) \cup {position + 1})
  <2>1. CASE topic[position + 1] = Torn
    BY <1>1, <1>2, <2>1
  <2>2. CASE topic[position + 1] # Torn
    <3>1. records' = Append(records, position + 1) /\ position + 1 \in Nat
      BY <1>1, <1>2, <2>2
    <3>2. /\ Append(records, position + 1) \in Seq(Nat)
          /\ ToSet(Append(records, position + 1)) = ToSet(records) \cup {position + 1}
      BY <1>2, <3>1, Appended
    <3>. QED
      BY <2>2, <3>1, <3>2
  <2>. QED
    BY <2>1, <2>2
<1>4. IngestType'
  <2>1. position' \in 0..Len(topic) /\ \A o \in ToSet(records') : o \in 1..position'
    BY <1>1, <1>2, <1>3
  <2>2. Sharing' => committed <= position'
    <3>1. Sharing' => committed <= position /\ committed \in Nat
      BY <1>1, <1>2 DEF IngestInv, IngestType, Sharing
    <3>. QED
      BY <1>1, <1>2, <3>1
  <2>. QED
    BY <1>1, <1>3, <2>1, <2>2 DEF IngestInv, IngestType
<1>5. NotTwice'
  <2>1. Sharing => handed[position + 1] <= faults
    <3>1. Sharing => position + 1 > committed
      BY <1>2 DEF IngestInv, IngestType
    <3>2. position + 1 \in 1..MaxTraces
      BY <1>1, <1>2
    <3>. QED
      BY <3>1, <3>2 DEF IngestInv, NotTwice
  <2>2. Sharing' <=> Sharing
    BY <1>1 DEF Sharing
  <2>. QED
    BY <1>1, <1>3, <2>1, <2>2 DEF IngestInv, NotTwice
<1>6. NotLost'
  <2>1. Sharing' <=> Sharing
    BY <1>1 DEF Sharing
  <2>2. ASSUME NEW o \in 1..Len(topic), topic[o] # Torn,
               o <= (IF Sharing THEN position + 1 ELSE committed)
        PROVE  handed[o] > 0 \/ o \in wasted \/ (Sharing /\ o \in ToSet(records'))
    <3>1. CASE Sharing /\ o = position + 1
      BY <1>3, <2>2, <3>1
    <3>2. CASE ~(Sharing /\ o = position + 1)
      <4>1. o <= (IF Sharing THEN position ELSE committed)
        BY <1>2, <2>2, <3>2
      <4>. QED
        BY <1>3, <2>2, <4>1 DEF IngestInv, NotLost
    <3>. QED
      BY <3>1, <3>2
  <2>. QED
    BY <1>1, <2>1, <2>2 DEF NotLost
<1>. QED
  BY <1>4, <1>5, <1>6 DEF IngestInv

\* The position is committed while the consumer goes on.
LEMMA AutoCommitInv ==
    ASSUME IngestInv, AutoCommit
    PROVE  IngestInv'
<1>1. /\ job = "consuming" /\ committed' = (IF shared THEN position ELSE committed)
      /\ UNCHANGED <<topic, shared, position, records, job, faults, handed, wasted>>
  BY DEF AutoCommit, Commit, countVars
<1>2. Len(topic) \in Nat
  BY LenProperties DEF IngestInv, IngestType
<1>3. IngestType'
  BY <1>1, <1>2 DEF IngestInv, IngestType, Sharing
<1>4. NotTwice'
  BY <1>1, <1>2 DEF IngestInv, IngestType, NotTwice, Sharing
<1>5. NotLost'
  BY <1>1 DEF IngestInv, NotLost, Sharing
<1>. QED
  BY <1>3, <1>4, <1>5 DEF IngestInv

\* The consumer is stopped; what it has read is handed over or dropped.
LEMMA StopInv ==
    ASSUME IngestInv, job = "consuming", job' # "consuming", StopConsumer,
           UNCHANGED <<topic, shared, position, records>>,
           \/ /\ handed' = (IF shared
                            THEN [o \in 1..MaxTraces |-> IF Contains(records, o) THEN handed[o] + 1 ELSE handed[o]]
                            ELSE handed)
              /\ UNCHANGED wasted
           \/ /\ wasted' = (IF shared THEN wasted \cup ToSet(records) ELSE wasted)
              /\ UNCHANGED handed
    PROVE  IngestInv'
<1>1. /\ Len(topic) \in Nat /\ position \in Nat /\ committed \in Nat /\ faults \in Nat /\ MaxTraces \in Nat
      /\ \A o \in 1..MaxTraces : handed[o] \in Nat
  BY LenProperties, OptimizerAssumption DEF IngestInv, IngestType
<1>2. \A o : Contains(records, o) <=> o \in ToSet(records)
  <2>1. DOMAIN records = 1..Len(records)
    BY LenProperties DEF IngestInv, IngestType
  <2>. QED
    BY <2>1 DEF Contains, ToSet
<1>3. /\ handed' \in [1..MaxTraces -> Nat]
      /\ \A o \in 1..MaxTraces :
            /\ handed'[o] >= handed[o] /\ handed'[o] <= handed[o] + 1
            /\ ~(Sharing /\ o \in ToSet(records)) => handed'[o] = handed[o]
  <2>1. handed \in [1..MaxTraces -> Nat]
    BY DEF IngestInv, IngestType
  <2>2. CASE UNCHANGED handed
    BY <1>1, <2>1, <2>2
  <2>3. CASE handed' = [o \in 1..MaxTraces |-> IF Contains(records, o) THEN handed[o] + 1 ELSE handed[o]]
                 /\ Sharing
    <3>1. \A o \in 1..MaxTraces : handed'[o] = IF o \in ToSet(records) THEN handed[o] + 1 ELSE handed[o]
      BY <1>2, <2>3
    <3>. QED
      BY <1>1, <2>3, <3>1
  <2>. QED
    BY <2>2, <2>3 DEF Sharing
<1>4. \/ committed' = (IF Sharing THEN position ELSE committed) /\ faults' = faults
      \/ committed' = committed /\ faults' = faults + 1
  BY DEF StopConsumer, Commit, Sharing
<1>5. IngestType'
  BY <1>1, <1>3, <1>4 DEF IngestInv, IngestType, Sharing
<1>6. NotTwice'
  <2>1. ~Sharing'
    BY DEF Sharing
  <2>2. ASSUME NEW o \in 1..MaxTraces
        PROVE  /\ handed'[o] <= 1 + faults' /\ (o > committed' => handed'[o] <= faults')
    <3>1. /\ handed[o] <= 1 + faults /\ (o > committed => handed[o] <= faults)
          /\ Sharing /\ o \in ToSet(records) => handed[o] <= faults /\ o <= position
      BY DEF IngestInv, IngestType, NotTwice, Sharing
    <3>2. Sharing => committed <= position
      BY DEF IngestInv, IngestType
    <3>. QED
      BY <1>1, <1>3, <1>4, <3>1, <3>2
  <2>. QED
    BY <2>1, <2>2 DEF NotTwice
<1>7. NotLost'
  <2>1. ASSUME NEW o \in 1..Len(topic), topic[o] # Torn, o <= committed'
        PROVE  handed'[o] > 0 \/ o \in wasted'
    <3>1. o <= (IF Sharing THEN position ELSE committed)
      BY <1>1, <1>4, <2>1 DEF IngestInv, IngestType
    <3>2. handed[o] > 0 \/ o \in wasted \/ (Sharing /\ o \in ToSet(records))
      BY <2>1, <3>1 DEF IngestInv, NotLost
    <3>3. o \in 1..MaxTraces
      BY <1>1 DEF IngestInv, IngestType
    <3>4. Sharing /\ o \in ToSet(records) => handed'[o] = handed[o] + 1 \/ o \in wasted'
      BY <1>2, <3>3 DEF Sharing
    <3>5. wasted \subseteq wasted'
      OBVIOUS
    <3>. QED
      BY <1>1, <1>3, <3>2, <3>3, <3>4, <3>5
  <2>. QED
    BY <2>1 DEF NotLost, Sharing
<1>. QED
  BY <1>5, <1>6, <1>7 DEF IngestInv

\* The rest of a job reads nothing; a job that is killed drops what it has read.
LEMMA BesideIngest ==
    ASSUME IngestInv, UNCHANGED <<ingestVars, handed>>, faults' \in {faults, faults + 1},
           \/ UNCHANGED <<job, wasted>>
           \/ job # "consuming" /\ job' # "consuming" /\ UNCHANGED wasted
           \/ job = "consuming" /\ job' # "consuming"
              /\ wasted' = (IF shared THEN wasted \cup ToSet(records) ELSE wasted)
    PROVE  IngestInv'
<1>1. UNCHANGED <<topic, committed, shared, position, records, handed>>
  BY DEF ingestVars
<1>2. faults \in Nat /\ \A o \in 1..MaxTraces : handed[o] \in Nat
  BY DEF IngestInv, IngestType
<1>3. IngestType'
  BY <1>1, <1>2 DEF IngestInv, IngestType, Sharing
<1>4. NotTwice'
  <2>1. \A o \in ToSet(records) : Sharing => o \in 1..MaxTraces
    BY LenProperties, OptimizerAssumption DEF IngestInv, IngestType, Sharing
  <2>. QED
    BY <1>1, <1>2, <2>1 DEF IngestInv, NotTwice, Sharing
<1>5. NotLost'
  <2>1. Sharing => committed <= position /\ committed \in Nat /\ position \in Nat
    BY LenProperties DEF IngestInv, IngestType, Sharing
  <2>. QED
    BY <1>1, <2>1 DEF IngestInv, IngestType, NotLost, Sharing
<1>. QED
  BY <1>3, <1>4, <1>5 DEF IngestInv

\* Every step of the optimizer keeps the invariant.
LEMMA StepIngestInv == IngestInv /\ [OptimizerNext]_optimizerVars => IngestInv'
<1>. SUFFICES ASSUME IngestInv, [OptimizerNext]_optimizerVars PROVE IngestInv'
  OBVIOUS
<1>1. ASSUME NEW t \in Trace \cup {Torn}, Emit(t) PROVE IngestInv'
  BY <1>1, EmitInv
<1>2. ASSUME NEW inGroup \in BOOLEAN, StartConsumer(inGroup) PROVE IngestInv'
  BY <1>2, StartInv
<1>3. CASE Consume \/ AutoCommit
  BY <1>3, ConsumeInv, AutoCommitInv
<1>4. CASE IngestEnds \/ IngestTimesOut
  BY <1>4, StopInv DEF IngestEnds, IngestTimesOut, HandOver
<1>5. CASE IngestSynthetic
  BY <1>5, BesideIngest DEF IngestSynthetic, StartJob, HandOver
<1>6. CASE Compile \/ OpenAsset \/ _write_asset \/ OpenIndex \/ _write_index
  BY <1>6, BesideIngest DEF Compile, OpenAsset, _write_asset, OpenIndex, _write_index, countVars
<1>7. CASE Kill
  BY <1>7, BesideIngest DEF Kill
<1>8. CASE UNCHANGED optimizerVars
  BY <1>8, BesideIngest DEF optimizerVars, countVars
<1>. QED
  BY <1>1, <1>2, <1>3, <1>4, <1>5, <1>6, <1>7, <1>8 DEF OptimizerNext

LEMMA InitIngestInv == OptimizerInit => IngestInv
<1>. SUFFICES ASSUME OptimizerInit PROVE IngestInv
  OBVIOUS
<1>1. topic \in Seq(Trace \cup {Torn}) /\ Len(topic) = 0 /\ 0 <= MaxTraces
  BY OptimizerAssumption DEF OptimizerInit
<1>. QED
  BY <1>1 DEF OptimizerInit, IngestInv, IngestType, NotTwice, NotLost, Sharing

\* However jobs end, and whatever is malformed, late or killed: a trace the shared group has
\* passed was handed to compile or its run was cut short, and each time too many that one
\* was handed over is owed to a commit that failed or a kill (PromptOptimizer.ingest_traces).
THEOREM TracesAreUsedOnce == OptimizerSpec => []TracesUsedOnce
<1>1. OptimizerInit => IngestInv
  BY InitIngestInv
<1>2. IngestInv => TracesUsedOnce
  <2>. SUFFICES ASSUME IngestInv, NEW o \in DOMAIN topic
                PROVE  /\ handed[o] <= 1 + faults
                       /\ o <= committed /\ topic[o] # Torn /\ ~(job = "consuming" /\ shared) =>
                              handed[o] > 0 \/ o \in wasted
    BY DEF TracesUsedOnce
  <2>1. o \in 1..Len(topic) /\ o \in 1..MaxTraces
    BY LenProperties, OptimizerAssumption DEF IngestInv, IngestType
  <2>. QED
    BY <2>1 DEF IngestInv, NotTwice, NotLost, Sharing
<1>. QED
  BY <1>1, <1>2, StepIngestInv, PTL DEF OptimizerSpec

-----------------------------------------------------------------------------
(* What the optimizer compiles.                                             *)

\* The number of elements before one grows strictly, so each of them has its own place.
LEMMA InOrderIs ==
    ASSUME NEW n \in Nat, NEW S, S \subseteq 1..n
    PROVE  /\ IsFiniteSet(S) /\ Cardinality(S) \in Nat
           /\ DOMAIN InOrder(S) = 1..Cardinality(S)
           /\ \A k \in 1..Cardinality(S) : InOrder(S)[k] \in S
           /\ \A k, m \in 1..Cardinality(S) : InOrder(S)[k] = InOrder(S)[m] => k = m
<1>. DEFINE below(i) == {j \in S : j < i}
            size == Cardinality(S)
<1>1. IsFiniteSet(S) /\ size \in Nat
  <2>1. IsFiniteSet(1..n)
    BY FS_Interval
  <2>. QED
    BY <2>1, FS_Subset, FS_CardinalityType
<1>2. \A i \in S : IsFiniteSet(below(i)) /\ Cardinality(below(i)) \in Nat
  BY <1>1, FS_Subset, FS_CardinalityType
<1>3. ASSUME NEW T \in SUBSET S, NEW Q \in SUBSET T, NEW i \in T, i \notin Q
      PROVE  Cardinality(Q) < Cardinality(T)
  <2>1. IsFiniteSet(T) /\ IsFiniteSet(Q) /\ Cardinality(T) \in Nat /\ Cardinality(Q) \in Nat
    BY <1>1, FS_Subset, FS_CardinalityType
  <2>2. Cardinality(Q) <= Cardinality(T) /\ Cardinality(T) # Cardinality(Q)
    BY <1>3, <2>1, FS_Subset
  <2>. QED
    BY <2>1, <2>2
<1>4. \A i \in S : i \notin below(i) /\ below(i) \in SUBSET S
  <2>1. \A i \in S : i \in Nat
    OBVIOUS
  <2>. QED
    BY <2>1
<1>5. \A i \in S : Cardinality(below(i)) < size
  BY <1>3, <1>4
<1>6. ASSUME NEW i \in S, NEW k \in S, i < k
      PROVE  Cardinality(below(i)) < Cardinality(below(k))
  <2>1. below(i) \subseteq below(k) /\ i \in below(k) /\ i \notin below(i)
    <3>1. \A j \in S : j \in Nat
      OBVIOUS
    <3>2. \A j \in S : j < i => j < k
      BY <1>6, <3>1
    <3>. QED
      BY <1>4, <1>6, <3>2
  <2>. QED
    BY <1>3, <1>4, <2>1
<1>. DEFINE f == [i \in S |-> Cardinality(below(i)) + 1]
<1>7. f \in Injection(S, 1..size)
  <2>1. \A i \in S : f[i] \in 1..size
    BY <1>1, <1>2, <1>5
  <2>2. ASSUME NEW i \in S, NEW k \in S, f[i] = f[k] PROVE i = k
    <3>1. Cardinality(below(i)) = Cardinality(below(k)) /\ Cardinality(below(k)) \in Nat
      BY <1>2, <2>2
    <3>2. ~(i < k) /\ ~(k < i)
      BY <1>6, <3>1
    <3>3. i \in Nat /\ k \in Nat
      OBVIOUS
    <3>. QED
      BY ONLY <3>2, <3>3
  <2>. HIDE DEF below
  <2>. QED
    BY <2>1, <2>2 DEF Injection, IsInjective
<1>8. IsFiniteSet(1..size) /\ Cardinality(1..size) = size
  BY <1>1, FS_Interval
<1>9. f \in Surjection(S, 1..size)
  BY <1>7, <1>8, FS_Injection
<1>10. ASSUME NEW k \in 1..size PROVE \E i \in S : Cardinality(below(i)) = k - 1
  <2>1. PICK i \in S : f[i] = k
    BY <1>9 DEF Surjection
  <2>2. Cardinality(below(i)) + 1 = k /\ Cardinality(below(i)) \in Nat
    BY <1>2, <2>1
  <2>3. Cardinality(below(i)) = k - 1
    BY ONLY <2>2, <1>1, k \in 1..size
  <2>. QED
    BY <2>3
<1>11. ASSUME NEW k \in 1..size
       PROVE  InOrder(S)[k] \in S /\ Cardinality(below(InOrder(S)[k])) = k - 1
  BY <1>10 DEF InOrder
<1>12. ASSUME NEW k \in 1..size, NEW m \in 1..size, InOrder(S)[k] = InOrder(S)[m] PROVE k = m
  <2>1. k - 1 = m - 1
    BY <1>11, <1>12
  <2>. QED
    BY <1>1, <2>1
<1>. QED
  BY <1>1, <1>11, <1>12 DEF InOrder

\* What is selected from a sequence is a sequence of its elements.
LEMMA AtIs ==
    ASSUME NEW E, NEW s \in Seq(E), NEW S, S \subseteq DOMAIN s
    PROVE  At(s, S) \in Seq(E)
<1>1. Len(s) \in Nat /\ S \subseteq 1..Len(s)
  BY LenProperties
<1>2. Cardinality(S) \in Nat /\ \A k \in 1..Cardinality(S) : InOrder(S)[k] \in S
  BY <1>1, InOrderIs
<1>3. \A k \in 1..Cardinality(S) : s[InOrder(S)[k]] \in E
  BY <1>1, <1>2, ElementOfSeq
<1>. QED
  BY <1>2, <1>3, IsASeq DEF At

\* A prompt that addresses more themes scores no worse.
LEMMA ScoreIs ==
    ASSUME NEW ts \in Seq(Record), NEW prompt, NEW base, base \subseteq prompt
    PROVE  /\ _score_candidate(prompt, ts) \in Nat
           /\ _score_candidate(prompt, ts) <= Len(ts)
           /\ _score_candidate(base, ts) <= _score_candidate(prompt, ts)
<1>. DEFINE addressed(p) == {i \in DOMAIN ts : ts[i].themes \cap p # {}}
<1>1. Len(ts) \in Nat /\ DOMAIN ts = 1..Len(ts)
  BY LenProperties
<1>2. IsFiniteSet(DOMAIN ts) /\ Cardinality(DOMAIN ts) = Len(ts)
  BY <1>1, FS_Interval
<1>3. addressed(prompt) \in SUBSET DOMAIN ts /\ addressed(base) \in SUBSET addressed(prompt)
  OBVIOUS
<1>. HIDE DEF addressed
<1>4. IsFiniteSet(addressed(prompt)) /\ Cardinality(addressed(prompt)) <= Len(ts)
  BY <1>2, <1>3, FS_Subset
<1>5. /\ Cardinality(addressed(prompt)) \in Nat
      /\ Cardinality(addressed(base)) <= Cardinality(addressed(prompt))
  BY <1>3, <1>4, FS_Subset, FS_CardinalityType
<1>. QED
  BY <1>4, <1>5 DEF _score_candidate, addressed

\* Candidates are prompts.
LEMMA CandidatesAre ==
    ASSUME NEW ts, NEW prompt \in SUBSET Theme
    PROVE  _generate_candidates(prompt, ts) \in Seq(SUBSET Theme)
<1>. DEFINE constraint == <<"word", "field", "term">>
            S == {c \in 1..3 : \E i \in DOMAIN ts : constraint[c] \in ts[i].themes}
            found == At(constraint, S)
            clauses == IF found = <<>> THEN <<prompt>> ELSE [i \in DOMAIN found |-> prompt \cup {found[i]}]
            m == Min({population_size, Len(clauses)})
<1>1. found \in Seq(Theme)
  <2>1. constraint \in Seq(Theme) /\ S \subseteq DOMAIN constraint
    BY DEF Theme
  <2>. HIDE DEF constraint, S
  <2>. QED
    BY <2>1, AtIs
<1>. HIDE DEF found
<1>2. clauses \in Seq(SUBSET Theme)
  <2>1. <<prompt>> \in Seq(SUBSET Theme)
    OBVIOUS
  <2>2. Len(found) \in Nat /\ DOMAIN found = 1..Len(found) /\ \A i \in 1..Len(found) : found[i] \in Theme
    BY <1>1, LenProperties, ElementOfSeq
  <2>3. [i \in DOMAIN found |-> prompt \cup {found[i]}] \in Seq(SUBSET Theme)
    BY <2>2
  <2>. QED
    BY <2>1, <2>3
<1>. HIDE DEF clauses
<1>3. Len(clauses) \in Nat /\ population_size \in Nat
  BY <1>2, LenProperties, OptimizerAssumption
<1>4. m \in Nat /\ m <= Len(clauses)
  <2>1. \E x \in {population_size, Len(clauses)} : \A y \in {population_size, Len(clauses)} : x =< y
    BY <1>3
  <2>. QED
    BY <1>3, <2>1 DEF Min
<1>. HIDE DEF m
<1>5. \A i \in 1..m : clauses[i] \in SUBSET Theme
  <2>1. \A i \in 1..m : i \in 1..Len(clauses)
    BY <1>3, <1>4
  <2>. QED
    BY <1>2, <2>1, ElementOfSeq
<1>6. SubSeq(clauses, 1, m) \in Seq(SUBSET Theme)
  BY <1>4, <1>5, SubSeqProperties
<1>. QED
  BY <1>6 DEF _generate_candidates, constraint, S, found, clauses, m

\* Of finitely many bounded scores one is the best, and the first to be.
LEMMA BestOf ==
    ASSUME NEW n \in Nat \ {0}, NEW bound \in Nat, NEW scored \in [1..n -> Nat],
           \A i \in 1..n : scored[i] <= bound
    PROVE  \E i \in DOMAIN scored : \A k \in DOMAIN scored :
               scored[k] < scored[i] \/ (scored[k] = scored[i] /\ i <= k)
<1>. DEFINE gaps == {bound - scored[i] : i \in 1..n}
<1>1. \A i \in 1..n : scored[i] \in Nat /\ bound - scored[i] \in Nat
  OBVIOUS
<1>2. gaps \subseteq Nat /\ gaps # {}
  <2>1. bound - scored[1] \in gaps
    OBVIOUS
  <2>. QED
    BY <1>1, <2>1
<1>3. PICK g \in gaps : \A k \in gaps : g <= k
  BY <1>2, LeastOf
<1>. DEFINE best == {i \in 1..n : bound - scored[i] = g}
<1>4. best \subseteq Nat /\ best # {}
  <2>1. PICK i \in 1..n : bound - scored[i] = g
    OBVIOUS
  <2>2. i \in best
    BY <2>1
  <2>3. best \subseteq 1..n
    OBVIOUS
  <2>. HIDE DEF best
  <2>. QED
    BY <2>2, <2>3
<1>5. PICK i \in best : \A k \in best : i <= k
  BY <1>4, LeastOf
<1>6. ASSUME NEW k \in 1..n
      PROVE  scored[k] < scored[i] \/ (scored[k] = scored[i] /\ i <= k)
  <2>1. bound - scored[i] = g /\ i \in 1..n
    OBVIOUS
  <2>2. g <= bound - scored[k]
    BY <1>3
  <2>3. bound - scored[k] = g => i <= k
    BY <1>5
  <2>4. scored[k] \in Nat /\ scored[i] \in Nat
    BY <2>1
  <2>. QED
    BY ONLY <2>1, <2>2, <2>3, <2>4, bound \in Nat
<1>. QED
  BY <1>6

\* What is evolved scores no worse than the prompt it is evolved from.
LEMMA EvolveIs ==
    ASSUME NEW ts \in Seq(Record), NEW prompt \in SUBSET Theme
    PROVE  evolve(prompt, ts) \in Skill /\ evolve(prompt, ts).score >= _score_candidate(prompt, ts)
<1>. DEFINE candidates == <<prompt>> \o _generate_candidates(prompt, ts)
            scored == [i \in DOMAIN candidates |-> _score_candidate(candidates[i], ts)]
            IsBest(i) == \A k \in DOMAIN scored :
                             scored[k] < scored[i] \/ (scored[k] = scored[i] /\ i <= k)
            best == CHOOSE i \in DOMAIN scored : IsBest(i)
            n == Len(candidates)
<1>1. <<prompt>> \in Seq(SUBSET Theme) /\ Len(<<prompt>>) = 1 /\ <<prompt>>[1] = prompt
  OBVIOUS
<1>2. candidates \in Seq(SUBSET Theme) /\ n \in Nat \ {0} /\ candidates[1] = prompt
  <2>1. _generate_candidates(prompt, ts) \in Seq(SUBSET Theme)
    BY CandidatesAre
  <2>2. Len(_generate_candidates(prompt, ts)) \in Nat
    BY <2>1, LenProperties
  <2>. QED
    BY <1>1, <2>1, <2>2, ConcatProperties
<1>. HIDE DEF candidates
<1>3. DOMAIN candidates = 1..n /\ \A i \in 1..n : candidates[i] \in SUBSET Theme
  BY <1>2, LenProperties, ElementOfSeq
<1>4. \A i \in 1..n : _score_candidate(candidates[i], ts) \in Nat /\ _score_candidate(candidates[i], ts) <= Len(ts)
  BY ScoreIs
<1>5. scored \in [1..n -> Nat] /\ (\A i \in 1..n : scored[i] <= Len(ts)) /\ DOMAIN scored = 1..n
  BY <1>3, <1>4
<1>6. scored[1] = _score_candidate(prompt, ts) /\ 1 \in 1..n
  BY <1>2, <1>3
<1>. HIDE DEF scored
<1>7. \E i \in DOMAIN scored : IsBest(i)
  <2>1. Len(ts) \in Nat
    BY LenProperties
  <2>. QED
    BY <1>2, <1>5, <2>1, BestOf
<1>8. best \in 1..n /\ IsBest(best)
  BY <1>5, <1>7
<1>. HIDE DEF best
<1>9. scored[best] \in Nat /\ scored[1] \in Nat /\ scored[best] >= scored[1]
  BY <1>5, <1>6, <1>8
<1>10. evolve(prompt, ts) = [prompt |-> candidates[best], score |-> scored[best]]
  BY DEF evolve, candidates, scored, best
<1>. QED
  BY <1>3, <1>6, <1>8, <1>9, <1>10 DEF Skill

Asset == [pair : Pair, skill : Skill]

\* The asset of a pair: whole, and no worse than the default prompt on its failures.
Improves(a, ts) ==
    LET fs == FailuresOf(a.pair, ts) IN
    fs # <<>> /\ a.skill.score >= _score_candidate(Base[a.pair], fs)

\* Each pair gets one asset.
LEMMA CompileIs ==
    ASSUME NEW ts \in Seq(Record), NEW prompt \in [Pair -> SUBSET Theme],
           \A p \in Pair : Base[p] \subseteq prompt[p]
    PROVE  /\ compile(ts, prompt) \in Seq(Asset)
           /\ \A k, m \in DOMAIN compile(ts, prompt) :
                 compile(ts, prompt)[k].pair = compile(ts, prompt)[m].pair => k = m
           /\ \A k \in DOMAIN compile(ts, prompt) : Improves(compile(ts, prompt)[k], ts)
<1>. DEFINE S == {i \in DOMAIN ts : /\ \A j \in 1..i - 1 : ts[j].pair # ts[i].pair
                                    /\ FailuresOf(ts[i].pair, ts) # <<>>}
            firsts == InOrder(S)
            asset(pair) == [pair |-> pair, skill |-> evolve(prompt[pair], FailuresOf(pair, ts))]
            assetsOf == [k \in DOMAIN firsts |-> asset(ts[firsts[k]].pair)]
            n == Cardinality(S)
<1>1. Len(ts) \in Nat /\ DOMAIN ts = 1..Len(ts) /\ \A i \in 1..Len(ts) : ts[i] \in Record
  BY LenProperties, ElementOfSeq
<1>2. \A i, j \in S : ts[i].pair = ts[j].pair => i = j
  <2>1. \A i, j \in S : i \in Nat /\ j \in Nat /\ (j < i => j \in 1..i - 1)
    BY <1>1
  <2>2. \A i, j \in S : ts[i].pair = ts[j].pair => ~(j < i)
    BY <2>1
  <2>3. \A i, j \in S : ~(j < i) /\ ~(i < j) => i = j
    BY <2>1
  <2>. QED
    BY <2>2, <2>3
<1>3. S \subseteq 1..Len(ts) /\ \A i \in S : FailuresOf(ts[i].pair, ts) # <<>> /\ ts[i].pair \in Pair
  BY <1>1 DEF Record
<1>. HIDE DEF S
<1>4. /\ n \in Nat /\ DOMAIN firsts = 1..n /\ \A k \in 1..n : firsts[k] \in S
      /\ \A k, m \in 1..n : firsts[k] = firsts[m] => k = m
  BY <1>1, <1>3, InOrderIs
<1>. HIDE DEF firsts, n
<1>5. ASSUME NEW p \in Pair, FailuresOf(p, ts) # <<>>
      PROVE  asset(p) \in Asset /\ asset(p).pair = p /\ Improves(asset(p), ts)
  <2>1. FailuresOf(p, ts) \in Seq(Record)
    <3>1. {i \in DOMAIN ts : ts[i].pair = p /\ is_failure(ts[i])} \subseteq DOMAIN ts
      OBVIOUS
    <3>. QED
      BY <3>1, AtIs DEF FailuresOf
  <2>2. /\ evolve(prompt[p], FailuresOf(p, ts)) \in Skill
        /\ evolve(prompt[p], FailuresOf(p, ts)).score >= _score_candidate(prompt[p], FailuresOf(p, ts))
    BY <2>1, EvolveIs
  <2>3. /\ _score_candidate(prompt[p], FailuresOf(p, ts)) \in Nat
        /\ _score_candidate(Base[p], FailuresOf(p, ts)) \in Nat
        /\ _score_candidate(Base[p], FailuresOf(p, ts)) <= _score_candidate(prompt[p], FailuresOf(p, ts))
    BY <2>1, ScoreIs
  <2>4. evolve(prompt[p], FailuresOf(p, ts)).score \in Nat
    BY <2>2 DEF Skill
  <2>5. evolve(prompt[p], FailuresOf(p, ts)).score >= _score_candidate(Base[p], FailuresOf(p, ts))
    BY <2>2, <2>3, <2>4
  <2>. QED
    BY <1>5, <2>2, <2>5 DEF Improves, Asset
<1>. HIDE DEF asset
<1>6. \A k \in 1..n : /\ assetsOf[k] = asset(ts[firsts[k]].pair)
                      /\ assetsOf[k] \in Asset /\ assetsOf[k].pair = ts[firsts[k]].pair
                      /\ Improves(assetsOf[k], ts)
  BY <1>3, <1>4, <1>5
<1>7. assetsOf \in Seq(Asset) /\ DOMAIN assetsOf = 1..n
  BY <1>4, <1>6
<1>8. ASSUME NEW k \in 1..n, NEW m \in 1..n, assetsOf[k].pair = assetsOf[m].pair PROVE k = m
  BY <1>2, <1>4, <1>6, <1>8
<1>9. compile(ts, prompt) = assetsOf
  BY DEF compile, assetsOf, firsts, asset, S
<1>. HIDE DEF assetsOf
<1>. QED
  BY <1>6, <1>7, <1>8, <1>9

-----------------------------------------------------------------------------
(* What the optimizer leaves on disk.                                       *)

\* What a consumer holds, and what compile is given, are traces.
TracesInv ==
    /\ job = "consuming" => \A o \in ToSet(records) : o \in 1..Len(topic) /\ topic[o] \in Record
    /\ job \in {"compiling", "writing", "indexing"} => traces \in Seq(Record)

\* The assets of the run, the files written of them, and the manifest.
DiskInv ==
    /\ files \in [Pair -> {Absent, Torn} \cup Skill]
    /\ opened => job = "writing" /\ dirty
    /\ job \in {"writing", "indexing"} =>
          /\ assets \in Seq(Asset) /\ written \in 0..Len(assets)
          /\ \A k, m \in DOMAIN assets : assets[k].pair = assets[m].pair => k = m
          /\ \A k \in DOMAIN assets : Improves(assets[k], traces)
          /\ \A k \in 1..written : files[assets[k].pair] = assets[k].skill
          /\ opened => written < Len(assets)
    /\ job = "indexing" => written = Len(assets)
    /\ index # Torn => \A e \in index :
          /\ e.pair \in Pair /\ files[e.pair] # Absent
          /\ ~dirty => files[e.pair] # Torn /\ files[e.pair].score = e.score

\* What is consumed is a trace of the topic.
LEMMA StepTracesInv == IngestInv /\ TracesInv /\ [OptimizerNext]_optimizerVars => TracesInv'
<1>. SUFFICES ASSUME IngestInv, TracesInv, [OptimizerNext]_optimizerVars PROVE TracesInv'
  OBVIOUS
<1>1. ASSUME NEW t \in Trace \cup {Torn}, Emit(t) PROVE TracesInv'
  <2>1. topic' = Append(topic, t) /\ UNCHANGED <<records, job, traces>>
    BY <1>1 DEF Emit
  <2>2. Len(topic) \in Nat /\ Len(topic') = Len(topic) + 1 /\ \A o \in 1..Len(topic) : topic'[o] = topic[o]
    BY <2>1, Appended DEF IngestInv, IngestType
  <2>. QED
    BY <2>1, <2>2 DEF TracesInv
<1>2. ASSUME NEW inGroup \in BOOLEAN, StartConsumer(inGroup) PROVE TracesInv'
  BY <1>2 DEF StartConsumer, TracesInv, ToSet
<1>3. CASE Consume
  <2>1. /\ job = "consuming" /\ position < Len(topic) /\ UNCHANGED <<topic, job, traces>>
        /\ records' = (IF topic[position + 1] = Torn THEN records ELSE Append(records, position + 1))
    BY <1>3 DEF Consume
  <2>2. /\ position \in Nat /\ Len(topic) \in Nat /\ topic \in Seq(Trace \cup {Torn})
        /\ records \in Seq(Nat)
    BY <2>1, LenProperties DEF IngestInv, IngestType
  <2>3. CASE topic[position + 1] = Torn
    BY <2>1, <2>3 DEF TracesInv
  <2>4. CASE topic[position + 1] # Torn
    <3>1. position + 1 \in 1..Len(topic) /\ position + 1 \in Nat
      BY <2>1, <2>2
    <3>2. topic[position + 1] \in Record
      BY <2>2, <2>4, <3>1, ElementOfSeq, OptimizerAssumption
    <3>3. ToSet(Append(records, position + 1)) = ToSet(records) \cup {position + 1}
      BY <2>2, <3>1, Appended
    <3>. QED
      BY <2>1, <2>4, <3>1, <3>2, <3>3 DEF TracesInv
  <2>. QED
    BY <2>3, <2>4
<1>4. CASE IngestEnds
  <2>1. /\ job = "consuming" /\ job' = "compiling"
        /\ traces' = [k \in DOMAIN records |-> topic[records[k]]]
    BY <1>4 DEF IngestEnds, HandOver
  <2>2. Len(records) \in Nat /\ DOMAIN records = 1..Len(records)
    BY <2>1, LenProperties DEF IngestInv, IngestType
  <2>3. \A k \in 1..Len(records) : topic[records[k]] \in Record
    BY <2>1, <2>2 DEF TracesInv, ToSet
  <2>4. traces' \in Seq(Record)
    BY <2>1, <2>2, <2>3
  <2>. QED
    BY <2>1, <2>4 DEF TracesInv
<1>5. CASE IngestSynthetic \/ IngestTimesOut
  BY <1>5, OptimizerAssumption DEF IngestSynthetic, IngestTimesOut, HandOver, TracesInv
<1>6. CASE AutoCommit
  BY <1>6 DEF AutoCommit, TracesInv
<1>7. CASE Compile \/ OpenAsset \/ _write_asset \/ OpenIndex \/ _write_index \/ Kill
  BY <1>7 DEF Compile, OpenAsset, _write_asset, OpenIndex, _write_index, Kill, TracesInv
<1>8. CASE UNCHANGED optimizerVars
  BY <1>8 DEF optimizerVars, ingestVars, TracesInv
<1>. QED
  BY <1>1, <1>2, <1>3, <1>4, <1>5, <1>6, <1>7, <1>8 DEF OptimizerNext

\* The steps that write nothing.
LEMMA BesideDisk ==
    ASSUME DiskInv, UNCHANGED <<assets, written, files, index, dirty>>,
           \/ UNCHANGED <<job, traces, opened>>
           \/ job # "writing" /\ UNCHANGED opened /\ job' \notin {"writing", "indexing"}
           \/ opened' = FALSE /\ job' = "off"
    PROVE  DiskInv'
BY DEF DiskInv, Improves

\* The assets of a run: one for each pair, better than the default.
LEMMA CompileInv ==
    ASSUME DiskInv, TracesInv, Compile
    PROVE  DiskInv'
<1>1. PICK prompt : /\ \A p \in Pair : prompt[p] \in _compile_with_dspy(p, traces)
                    /\ prompt \in [Pair -> UNION {_compile_with_dspy(p, traces) : p \in Pair}]
                    /\ assets' = compile(traces, prompt)
  BY DEF Compile
<1>2. /\ job = "compiling" /\ written' = 0 /\ job' = "writing"
      /\ UNCHANGED <<traces, opened, files, index, dirty>>
  BY DEF Compile
<1>3. \A p \in Pair : prompt[p] \in SUBSET Theme /\ Base[p] \subseteq prompt[p]
  BY <1>1, OptimizerAssumption DEF _compile_with_dspy
<1>4. prompt \in [Pair -> SUBSET Theme]
  BY <1>1, <1>3
<1>5. traces \in Seq(Record)
  BY <1>2 DEF TracesInv
<1>6. /\ assets' \in Seq(Asset)
      /\ \A k, m \in DOMAIN assets' : assets'[k].pair = assets'[m].pair => k = m
      /\ \A k \in DOMAIN assets' : Improves(assets'[k], traces)
  BY <1>1, <1>3, <1>4, <1>5, CompileIs
<1>7. Len(assets') \in Nat /\ 0 \in 0..Len(assets') /\ 1..0 = {}
  BY <1>6, LenProperties
<1>8. ~opened
  BY <1>2 DEF DiskInv
<1>. QED
  BY <1>2, <1>6, <1>7, <1>8 DEF DiskInv, Improves

\* The asset that is written next: its file is not one of those already written.
LEMMA NextAsset ==
    ASSUME DiskInv, job = "writing", written < Len(assets)
    PROVE  /\ written \in Nat /\ Len(assets) \in Nat /\ written + 1 \in DOMAIN assets
           /\ DOMAIN assets = 1..Len(assets)
           /\ assets[written + 1].pair \in Pair /\ assets[written + 1].skill \in Skill
           /\ \A k \in 1..written : assets[k].pair \in Pair /\ assets[k].pair # assets[written + 1].pair
<1>1. assets \in Seq(Asset) /\ written \in 0..Len(assets)
  BY DEF DiskInv
<1>2. Len(assets) \in Nat /\ DOMAIN assets = 1..Len(assets) /\ \A k \in DOMAIN assets : assets[k] \in Asset
  BY <1>1, LenProperties, ElementOfSeq
<1>3. written \in Nat /\ written + 1 \in 1..Len(assets)
  BY <1>1, <1>2
<1>4. \A k \in 1..written : k \in 1..Len(assets) /\ k # written + 1
  BY <1>2, <1>3
<1>5. \A k \in DOMAIN assets : assets[k].pair \in Pair /\ assets[k].skill \in Skill
  BY <1>2 DEF Asset
<1>6. \A k, m \in DOMAIN assets : assets[k].pair = assets[m].pair => k = m
  BY DEF DiskInv
<1>. QED
  BY <1>2, <1>3, <1>4, <1>5, <1>6

\* A file is emptied.
LEMMA OpenAssetInv ==
    ASSUME DiskInv, OpenAsset
    PROVE  DiskInv'
<1>1. /\ job = "writing" /\ written < Len(assets) /\ opened' = TRUE /\ dirty' = TRUE
      /\ files' = [files EXCEPT ![assets[written + 1].pair] = Torn]
      /\ UNCHANGED <<job, traces, assets, written, index>>
  BY DEF OpenAsset
<1>2. /\ assets[written + 1].pair \in Pair
      /\ \A k \in 1..written : assets[k].pair \in Pair /\ assets[k].pair # assets[written + 1].pair
  BY <1>1, NextAsset
<1>3. files \in [Pair -> {Absent, Torn} \cup Skill]
  BY DEF DiskInv
<1>4. /\ files' \in [Pair -> {Absent, Torn} \cup Skill]
      /\ \A p \in Pair : files'[p] = IF p = assets[written + 1].pair THEN Torn ELSE files[p]
  BY <1>1, <1>2, <1>3
<1>5. index # Torn => \A e \in index : e.pair \in Pair /\ files'[e.pair] # Absent
  BY <1>4, OptimizerAssumption DEF DiskInv
<1>6. \A k \in 1..written : files'[assets[k].pair] = assets[k].skill
  BY <1>1, <1>2, <1>4 DEF DiskInv
<1>. QED
  BY <1>1, <1>4, <1>5, <1>6 DEF DiskInv, Improves

\* A file is filled.
LEMMA WriteAssetInv ==
    ASSUME DiskInv, _write_asset
    PROVE  DiskInv'
<1>1. /\ job = "writing" /\ opened /\ opened' = FALSE /\ written' = written + 1
      /\ files' = [files EXCEPT ![assets[written + 1].pair] = assets[written + 1].skill]
      /\ UNCHANGED <<job, traces, assets, index, dirty>>
  BY DEF _write_asset
<1>2. written < Len(assets) /\ dirty
  BY <1>1 DEF DiskInv
<1>3. /\ written \in Nat /\ Len(assets) \in Nat /\ DOMAIN assets = 1..Len(assets)
      /\ assets[written + 1].pair \in Pair /\ assets[written + 1].skill \in Skill
      /\ \A k \in 1..written : assets[k].pair \in Pair /\ assets[k].pair # assets[written + 1].pair
  BY <1>1, <1>2, NextAsset
<1>4. files \in [Pair -> {Absent, Torn} \cup Skill]
  BY DEF DiskInv
<1>5. /\ files' \in [Pair -> {Absent, Torn} \cup Skill]
      /\ \A p \in Pair : files'[p] = IF p = assets[written + 1].pair
                                     THEN assets[written + 1].skill ELSE files[p]
  BY <1>1, <1>3, <1>4
<1>6. index # Torn => \A e \in index : e.pair \in Pair /\ files'[e.pair] # Absent
  <2>1. assets[written + 1].skill # Absent
    BY <1>3, OptimizerAssumption
  <2>. QED
    BY <1>5, <2>1 DEF DiskInv
<1>7. \A k \in 1..written' : files'[assets[k].pair] = assets[k].skill
  <2>1. \A k \in 1..written : files'[assets[k].pair] = assets[k].skill
    BY <1>1, <1>3, <1>5 DEF DiskInv
  <2>2. files'[assets[written + 1].pair] = assets[written + 1].skill
    BY <1>3, <1>5
  <2>3. \A k \in 1..written' : k \in 1..written \/ k = written + 1
    BY <1>1, <1>3
  <2>. QED
    BY <2>1, <2>2, <2>3
<1>8. written' \in 0..Len(assets)
  BY <1>1, <1>2, <1>3
<1>. QED
  BY <1>1, <1>2, <1>5, <1>6, <1>7, <1>8 DEF DiskInv, Improves

\* The manifest is finished: every file it lists is whole.
LEMMA WriteIndexInv ==
    ASSUME DiskInv, _write_index
    PROVE  DiskInv'
<1>1. /\ job = "indexing" /\ job' = "off" /\ UNCHANGED <<traces, assets, written, opened, files>>
      /\ index' = {[pair |-> assets[k].pair, score |-> assets[k].skill.score] : k \in DOMAIN assets}
  BY DEF _write_index
<1>2. /\ assets \in Seq(Asset) /\ written = Len(assets) /\ ~opened
      /\ \A k \in 1..written : files[assets[k].pair] = assets[k].skill
      /\ files \in [Pair -> {Absent, Torn} \cup Skill]
  BY <1>1 DEF DiskInv
<1>3. DOMAIN assets = 1..Len(assets) /\ \A k \in DOMAIN assets : assets[k] \in Asset
  BY <1>2, LenProperties, ElementOfSeq
<1>4. ASSUME NEW e \in index'
      PROVE  /\ e.pair \in Pair /\ files[e.pair] # Absent
             /\ files[e.pair] # Torn /\ files[e.pair].score = e.score
  <2>1. PICK k \in DOMAIN assets : e = [pair |-> assets[k].pair, score |-> assets[k].skill.score]
    BY <1>1, <1>4
  <2>2. assets[k].pair \in Pair /\ assets[k].skill \in Skill /\ files[assets[k].pair] = assets[k].skill
    BY <1>2, <1>3 DEF Asset
  <2>3. e.pair = assets[k].pair /\ e.score = assets[k].skill.score
    BY <2>1
  <2>4. Absent \notin Skill /\ Torn \notin Skill
    BY OptimizerAssumption
  <2>. QED
    BY <2>2, <2>3, <2>4
<1>. QED
  BY <1>1, <1>2, <1>4 DEF DiskInv

\* Every step keeps the disk as it should be.
LEMMA StepDiskInv == TracesInv /\ DiskInv /\ [OptimizerNext]_optimizerVars => DiskInv'
<1>. SUFFICES ASSUME TracesInv, DiskInv, [OptimizerNext]_optimizerVars PROVE DiskInv'
  OBVIOUS
<1>1. ASSUME NEW t, Emit(t) PROVE DiskInv'
  BY <1>1, BesideDisk DEF Emit, diskVars
<1>2. ASSUME NEW inGroup, StartConsumer(inGroup) PROVE DiskInv'
  BY <1>2, BesideDisk DEF StartConsumer, StartJob, diskVars
<1>3. CASE IngestSynthetic \/ IngestEnds \/ IngestTimesOut
  BY <1>3, BesideDisk DEF IngestSynthetic, IngestEnds, IngestTimesOut, StartJob, HandOver, diskVars
<1>4. CASE Consume \/ AutoCommit
  BY <1>4, BesideDisk DEF Consume, AutoCommit, diskVars
<1>5. CASE Compile
  BY <1>5, CompileInv
<1>6. CASE OpenAsset \/ _write_asset
  BY <1>6, OpenAssetInv, WriteAssetInv
<1>7. CASE OpenIndex
  <2>1. /\ job = "writing" /\ ~opened /\ written = Len(assets) /\ index' = Torn /\ job' = "indexing"
        /\ UNCHANGED <<traces, assets, written, opened, files>>
    BY <1>7 DEF OpenIndex
  <2>. QED
    BY <2>1 DEF DiskInv, Improves
<1>8. CASE _write_index
  BY <1>8, WriteIndexInv
<1>9. CASE Kill
  BY <1>9, BesideDisk DEF Kill
<1>10. CASE UNCHANGED optimizerVars
  BY <1>10, BesideDisk DEF optimizerVars, diskVars
<1>. QED
  BY <1>1, <1>2, <1>3, <1>4, <1>5, <1>6, <1>7, <1>8, <1>9, <1>10 DEF OptimizerNext

\* However often jobs are killed between and within writes, a manifest lists files that are
\* there, and a finished one whole files with their scores; and a skill is no worse than the
\* default prompt, for every set of traces (SkillCompiler and PromptOptimizer.compile).
THEOREM ManifestsResolve == OptimizerSpec => []ManifestResolves
<1>1. OptimizerInit => IngestInv
  BY InitIngestInv
<1>2. OptimizerInit => TracesInv /\ DiskInv
  BY DEF OptimizerInit, TracesInv, DiskInv
<1>3. DiskInv => ManifestResolves
  BY DEF DiskInv, ManifestResolves, Improves
<1>. QED
  BY <1>1, <1>2, <1>3, StepIngestInv, StepTracesInv, StepDiskInv, PTL DEF OptimizerSpec

=============================================================================
