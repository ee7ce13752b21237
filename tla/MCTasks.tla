------------------------------ MODULE MCTasks ------------------------------
(***************************************************************************)
(* Instances of Scheduler, Workers and Auction for TLC.  The three handle  *)
(* tasks in separate ways and share nothing: each behaviour follows one.   *)
(***************************************************************************)
EXTENDS Scheduler, Workers, Auction, TLC

CONSTANTS t1, t2, t3, j1, j2, j3

\* Two tasks of equal priority and one more urgent; one task is never retried.
MCPriority == [t \in Task |-> IF t = t3 THEN 2 ELSE 1]
MCMaxRetries == [t \in Task |-> IF t = t1 THEN 0 ELSE 1]

\* Profiles that tie, that lose by cost, that a boost lifts over the others or over
\* the limit, whose score is negative, and a second profile of one agent.
MCProfiles == {
    [agent_id |-> 1, capabilities |-> {"analysis", "knowledge_retrieval"}, expertise_score |-> 9, cost_per_unit |-> 12],
    [agent_id |-> 1, capabilities |-> {}, expertise_score |-> 5, cost_per_unit |-> 10],
    [agent_id |-> 2, capabilities |-> {"analysis"}, expertise_score |-> 10, cost_per_unit |-> 8],
    [agent_id |-> 3, capabilities |-> {"knowledge_retrieval"}, expertise_score |-> 3, cost_per_unit |-> 20],
    [agent_id |-> 3, capabilities |-> {"analysis", "knowledge_retrieval"}, expertise_score |-> 10, cost_per_unit |-> 0] }
MCAuctionTasks == [complexity : {0, 6}, required_capability : {"analysis", "general"}]

VARIABLE side    \* "scheduler", "workers" or "auction"

allTasksVars == <<vars, workersVars, auctionVars, side>>

MCInit == Init /\ WorkersInit /\ AuctionInit /\ side \in {"scheduler", "workers", "auction"}

On(s, A) == side = s /\ A /\ UNCHANGED side

SchedulerSide(A) == On("scheduler", A) /\ UNCHANGED <<workersVars, auctionVars>>
WorkersSide(A) == On("workers", A) /\ UNCHANGED <<vars, auctionVars>>

\* Tasks are published in one order, and two things go wrong: keys and results that
\* expire, calls that fail, consumers that die.  Two keys expire only where j1 is the
\* only task; where three are published nothing expires, and no consumer dies.
WorkersBound ==
    /\ \A i \in DOMAIN stream : stream[i] \in {j1, IF i = 2 THEN j2 ELSE j3}
    /\ lapses = MaxLapses => \A i \in DOMAIN stream : stream[i] = j1
    /\ errors + lapses + Cardinality(expired) <= 2
    /\ (\E w \in Worker : value[w] = "fallback") => Len(stream) = 1
    /\ Len(stream) = MaxPublished =>
          stream = <<j1, j2, j3>> /\ lapses = 0 /\ expired = {} /\ \A w \in Worker : ~At(w, "dead")

MCNext ==
    \/ SchedulerSide(Next)
    \/ WorkersSide(WorkersNext) /\ WorkersBound'
    \/ On("auction", AuctionNext) /\ UNCHANGED <<vars, workersVars>>

\* The fairness of FairSpec and of WorkersFairness.
MCFairSpec ==
    /\ MCInit /\ [][MCNext]_allTasksVars
    /\ WF_allTasksVars(SchedulerSide(Loop))
    /\ \A w \in Worker :
          /\ WF_allTasksVars(WorkersSide(WorkerStep(w)))
          /\ WF_allTasksVars(WorkersSide(recover(w)))
          /\ SF_allTasksVars(WorkersSide(ClaimPending(w, TRUE)))

=============================================================================
