# A TLA+ verification of mcp-agent-factory

This directory holds TLA+ models of the parts of `src/src/mcp_agent_factory/`
in which several things happen at once or can fail half-way, the TLC runs that
check them on small instances, and proofs, checked by TLAPS, that hold for every
instance. Paths below are relative to `src/src/mcp_agent_factory/`.

Run a check with `tlc -config <cfg> <MC module>`, and a proof with
`tlapm <module>.tla` for the modules named `...Proofs`.
`PROJECT.json` lists the runs, the source lines every definition stands for, and
the hazards the properties are for.

## 1. The system

| part | state it keeps | operations | what is hard |
|---|---|---|---|
| **Fleet runtime** `gateway/fleet.py`, `streams/fleet_worker.py` | job records, batch records and a stream with a consumer group in Redis; a semaphore and a worker task per process | submit one or a batch, claim, process, acknowledge, poll | coroutines and processes interleave at every Redis call; calls fail; processes exit; records are evicted |
| **Scheduler** `scheduler.py` | inbox, priority heap, status and retry count of tasks | add, run, dispatch, retry, stop | producers act while a handler runs; stop, cancellation in a handler, and run again |
| **Stream worker, guard, lock, outbox** `streams/worker.py`, `streams/idempotency.py` | a stream with pending entries; guard, lock and result keys with a TTL each; a queue | claim, recover, acknowledge, lock, flush | a message taken over from a slow consumer; keys that expire in any order |
| **Circuit breaker** `streams/circuit_breaker.py` | three attributes shared by threads, without a lock | call | threads run between any two reads and writes of the attributes |
| **Auction** `economics/*` | none | score, bid, choose | clamping, ties, negative scores |
| **Redlock** `streams/redlock.py` | one key with an expiry per node; per client, a dictionary of tokens | acquire over all nodes, undo, retry, release | lost requests and replies, expiry during the tour of the nodes or before a DELETE, sessions of one client |
| **Graph orchestrator** `graph_orchestrator.py` | the checkpointed graph state | validate, plan, execute, evaluate, interrupts | a node is replayed from its start after every answer and crash; steps run in parallel |
| **Crew** `crew.py` | the texts handed from agent to agent | kickoff over three backends, scoped tools | a backend that is missing half-way, agents that fail or stop at an interrupt |
| **Optimizer** `optimizer.py` | trace topic and offset of a consumer group; skill files and their manifest | ingest, compile, write | killed between and within writes; time-outs that drop what was read |
| **Knowledge base** `knowledge/*` | rows of a vector store, the subscription of the ingestion worker | chunk, upsert, search, ingest | rows that share a key; a worker that dies of a message |
| **Authorization server** `auth/server.py`, `auth/session.py` | clients and codes in Redis | register, authorize, token | replicas race for one code |
| **Bridge** `bridge/*`, **resource server** `auth/resource.py` | one cached token | get a token, call the gateway | concurrent fetches, slow answers, expiry |
| **Gateway dispatch** `gateway/app.py`, `gateway/service_layer.py` | sessions, prompt cache, event log | JSON-RPC over HTTP and over SSE | requests finish in any order; clients go |
| **LLM router** `gateway/router.py` | none | try providers in order, emit usage | failures of different kinds |
| **MessageBus and SSE routers** `messaging/*` | subscriber queues | subscribe, publish, stream, disconnect | a publication or a disconnect before the generator runs |
| **STDIO tool client and server** `orchestrator.py`, `server.py`, `react_loop.py` | a process, its pipes, one queue of responses | connect, call with a timeout, execute a plan, run a task, close | three processes; late answers, end of file, a pipe nobody reads |
| Agent pipeline `agents/*`, KV and session store | results handed over under fixed keys | get, set | one await after the other |
| Evaluator, structured agent, stand-alone HTTP servers | none | checks of an output, loops around a library, handlers | nothing that interleaves |
| PII gate, validation, pruner, telemetry, launchers | none | filters, counters | nothing that interleaves |

How they interact: a client posts jobs or JSON-RPC to the gateway, directly or
through the bridge, which takes its token from the authorization server. The
gateway's dispatcher calls the service layer, which calls the router, the cache,
the event log and the bus. The SSE routers stream the bus, and the ingestion worker
of the knowledge base subscribes to it. A crew runs one graph orchestrator per agent
with the agent's scope of tools. Fleet jobs run `agents/*` pipelines, which the model
of the fleet sees as an execution that succeeds or fails. The optimizer reads
the traces the runtime emits and writes the skills it uses. The scheduler, Redlock,
and the classes of `streams/` that the repository's integration test puts together
share no state with the rest.

## 2. Modules

| module | models | instance and proof |
|---|---|---|
| `JobLife` | abstract: the life of a job as a client sees it | implemented by `Fleet` |
| `Fleet` | submission, worker loop, job tasks, crash and restart | `MCFleet`, `FleetProofs` |
| `FleetPoll` | extends `Fleet` with the polling client | `MCFleetPoll`, `FleetProofs` |
| `Scheduler` | the scheduler | `MCTasks`, `TasksProofs` |
| `Workers` | stream worker, guard, lock, result cache and outbox put together | `MCTasks`, `TasksProofs` |
| `CircuitBreaker` | calls of several threads on one breaker | `MCShared`, `TasksProofs` |
| `Auction` | scores, bids and the winner | `MCTasks`, `TasksProofs` |
| `Redlock` | acquire, undo, retry and release of several sessions and clients | `MCShared`, `MCRedlock`, `RedlockProofs` |
| `GraphOrchestrator` | the four nodes, interrupts, replay, crash, a further run | `MCGraphOrchestrator`, `AgentsProofs` |
| `Crew` | extends it with `kickoff`, its backends and the scopes | `MCAgents`, `AgentsProofs` |
| `Optimizer` | ingestion, evolution of prompts, the skills directory | `MCAgents`, `AgentsProofs` |
| `Knowledge` | chunker, vector stores, ingestion worker | `MCAgents`, `KnowledgeProofs` |
| `AuthServer` | the authorization server | through `Bridge` |
| `Bridge` | extends `AuthServer` with the token cache and the check of the token | `MCShared`, `BridgeProofs` |
| `EventStreams` | bus and streams | through `Gateway` |
| `LLMRouter` | handler order and outcomes of a call | through `Gateway` |
| `Gateway` | extends both with the life of a request | `MCGateway`, `GatewayProofs` |
| `RemoteCall` | abstract: what a caller of `_rpc` may rely on | implemented by `StdioRpc` |
| `StdioRpc` | caller, reader thread and tool server with their pipes | `MCStdioRpc`, `StdioProofs` |

Definitions keep the names of the functions they model. A definition marked
`(mutant)` is a plausible bug, never used by the model: putting it in the place
of the definition after it must break a property.

**Steps.** In asyncio code an action runs from one await to the next, because
only there another coroutine may run. Where several processes share Redis an
action contains at most one Redis call. A Redis call in `Fleet` succeeds, is lost
before it is applied, or is applied and its reply is lost; each of the last two
uses up one of `MaxFaults`.

- `Fleet`: `Submit`, `SubmitWrite`, `SubmitPublish`, `SubmitSave` are `_submit_one`
  and `submit_batch`; `Claim` is one turn of `_run_workers`; the task steps from
  `Acquire` to the acknowledgement are `_process_job`; `Crash` and
  `start_fleet_workers` are the life of a process. Every exception path is one
  of the outcomes of its step.
- `JobLife`: a job is unborn, queued, running, computed, settled or lost. The
  refinement mapping (`lifeOf` in `Fleet`) reads the phase off the
  stream, the tasks, the record and the history. A job is lost only by a failed
  call, a process exit or the eviction of its record.
- `FleetPoll`: `get_batch` reads the batch and then one record after the other.
- `Scheduler`: `Iterate` is one pass of the loop body of `run` up to its next
  await, with the drain of the inbox and the choice by priority in it. `Cancel` is a
  `CancelledError` at one of the two awaits, as `wait_for` raises it: `run` ends, and a
  handler that was under way leaves its task `running` for ever (`cut`).
- `Workers`: a consumer is `claim_one` or `recover` followed by the steps of
  `tests/test_m006_integration.py` for every message: guard, lock, breaker around the work,
  result, outbox, acknowledgement, release. `XPENDING` and each `XCLAIM` of
  `recover` are apart, as are `GET` and `DELETE` of the lock's release. Guard, lock and
  result expire each at any time, so nothing rests on the default lifetimes. The breaker
  shares nothing with the rest: here it admits or refuses a call as it likes.
- `CircuitBreaker`: the attributes of one object in one process; threads may switch
  between any two operations on them. A step is one read or one write, so admission is
  `ReadState`, `ReadTime`, `HalfOpen`, and `_failures += 1` is `FnRaises` (the read) and
  `WriteFailures`.
- `Auction`: floats are integers in tenths, bids in thousandths, so no rounding is
  modelled. One auction is one step.
- `Redlock`: `SetNode`, `Decide`, `Remember`, `GetNode`, `DeleteNode`, `Undone`. The clock
  ticks between any two steps, those between a GET and its DELETE included. A key with PX
  expires by itself. `via` says which client a session goes through, and `tokens` is the
  one token a client remembers for the key: `release` pops whatever is there. `robbed` and
  `taken` are history: whose live key another's DELETE removed, and whose token another
  session of the client overwrote or popped.
- `GraphOrchestrator`: what a node computes before it returns is in local
  variables that an interrupt or a crash clears; the checkpoint changes when the
  node returns. `CallTool` is the effect of a step. `Resume(answer)` and `Restart` are what
  a caller may do with LangGraph's checkpoint, with an answer of either kind; nothing in
  the repository does. `Rerun` is `run` once more for the thread, which begins at the
  initial state.
- `Crew`: the CrewAI backend returns, raises or turns out to be missing at any
  time; the graph backend runs the actions of `GraphOrchestrator` for one agent
  after the other, the native one is a call per agent. `GraphReturns` ends the run of
  an agent at its end node, at an interrupt (nobody answers it), or when it raised.
- `Optimizer`: a prompt is the set of themes it addresses, a trace the themes of
  its findings. Kafka's consumer commits its position when it likes and when it is
  stopped; `write_text` is the opening, which empties the file, and the writing.
- `Knowledge`: `chunk_text`, `upsert` and the search's selection of rows are
  operators; the worker processes a message between two awaits. A document is a
  sequence of paragraphs and a paragraph a sequence of sentences with their lengths, so
  that a chunk is a run of them; the loops over them are recursive functions, because
  the proofs need their equations. `CutOf` says what a cut of a text is without saying how
  it is made.
- `AuthServer` and `Bridge`: `/token` is split at its two Redis calls; the bridge
  at the sending and the arrival of its two HTTP exchanges.
- `Gateway`: `Arrive` is everything up to the first await of a request,
  the authentication and the publications on the bus included; then one action
  per await; `Reply` writes the answer. A provider's text is named by the
  request it was written for and the provider that wrote it.
- `EventStreams`: a stream is `opened` (registered, generator not run yet), then
  in `handshake` (its first event is being sent), then `streaming`, and `gone`
  when the client disconnects. Its finally block runs only if its try was
  entered.
- `StdioRpc`: the caller interleaves with the reader thread and the server at
  every operation on a pipe or on the queue. A job (`connect`, the loop of
  `execute`, `ReActAgent.run`) is a series of `_rpc` calls, each a `Send` and a
  `_recv` or a `RecvTimeout`; `Continue` is what the job does with an answer. The
  server logs to a pipe of `ErrCap` lines. `connect` may be called again without
  `close`, as a test does; the old connection then stays. The pipe to the server has no
  bound: a `write` that blocks on it, which has no timeout, is not modelled.
- `RemoteCall`: one call waits at a time; an answer that is owed is returned or lost. The
  refinement mapping reads off `StdioRpc` which call waits (`Waiting`), the ids of the answers
  to be given or on their way (`Owed(Held)`) and what was returned (`Returned`). An answer
  is lost only with its server.

## 3. Runs

| run | instance | what it shows |
|---|---|---|
| `fleet_safety` | 2 processes, 1 permit each, a batch of 2, 1 fault, 1 crash, eviction | permits are conserved; acknowledged entries have a stored outcome; no job runs twice; replies are backed by records; without faults nothing is stranded; **every step is one of `JobLife`** |
| `fleet_poll` | 1 process, a batch of 2, 1 fault, eviction | a poll, which is no snapshot, reports only final outcomes and never retracts one; without faults the batch completes |
| `fleet_at_least_once` | 1 job, 1 crash | **violated**: a claimed job is never delivered again |
| `tasks` | scheduler: 3 tasks with different priorities and budgets, 2 calls of `run`, each of which may be stopped or cancelled; workers: 2 consumers, 3 messages, 2 mishaps; auctions of up to 3 of 5 profiles | tasks are conserved, but for the one in hand at a cancellation, and finish unless the scheduler is stopped or cancelled; a task runs once per mark of its guard, and twice at once only after both its keys expired; what is acknowledged was handled; every message settles; the winner is outbid by nobody |
| `redlock_delete` | 1 node, TTL 1 | **violated**: another session's key is deleted |
| `agents` | graph: 7 plans (chain, independent, destructive, cyclic, repeated id, unknown reference), parallel or not, 2 iterations, 2 runs, 1 crash, alone or in a crew of up to 2 agents; optimizer: 2 jobs, 3 traces, 1 kill or failed commit; knowledge: 2 texts of 2 owners, both stores | answers come before effects; replays repeat no effect; dependencies first; no agent leaves its scope; a crew reports what happened; the manifest lists whole files; traces are used once; ingested texts are found by their owner, all of them; every run ends |
| `graph_skip` | 3 plans with distinct ids | **violated**: a step of a revised plan is skipped |
| `graph_refusal` | the plans of `agents`, 1 run | **violated**: a tool runs although its step was refused |
| `shared` | tokens: one code, 2 racing `/token` requests, 2 concurrent bridge calls, clock up to 6, tokens of 4, margin 2, timeout 1; lock: 2 sessions of 1 or 2 clients, 3 nodes, TTL 2, 1 fault, 1 retry; breaker: 3 threads, 2 failures open it, 3 counted failures and those under way | codes are used once; tokens are backed by their authorization; refusals are justified; no call is rejected as expired; one valid holder of a lock, unless its live key was deleted by another; nothing left behind without faults, unless the client gave the token to another session; the breaker opens after enough counted failures only, never stays half-open by itself, and stays closed over the threshold only while a call is about to open it or after a success that came in meanwhile |
| `stdio` | 2 connections, plans of 2 steps, 3 tools of which one ends the server, `ErrCap` 8, no job begun after the third id | each answer is returned at most once, to a call that was made; as long as none was given up, reports of plans and tasks are true; a closed connection leaves no process and no thread; **every step is one of `RemoteCall`** |
| `stdio_match` | 1 connection | **violated**: a call returns the answer to an earlier one |
| `gateway` | 2 requests of 19 kinds, 2 streams, 2 prompts, 1 fault, 1 posted message | every request is answered, once and on its own stream; usage is accounted; cached texts belong to their prompt; subscribers get every message in order |

**Sides.** Components that share nothing, or meet only in data both sides have, share a
run: the variable `side` of `MCTasks`, `MCShared`, `MCAgents` and `MCGateway` says from the
initial state on which of them a behaviour follows, so the states add up and do not
multiply.

**Bounds.** Each property relates at most two of a kind (two jobs, two clients,
two requests, two streams, two consumers), so two of each, or three nodes so that a quorum is
neither one nor all, let the interesting interleavings happen. One fault and one
crash can hit any step; two would mostly repeat what one does. Where two are needed
there are two: a task is worked on twice at once only when both of its keys have
expired, so `tasks` allows two mishaps (keys and results that expire, failures, deaths:
`WorkersBound`). Two threads suffice for a lost count and a third acts on what they left. `recover` looks at a window
of ten entries; the window is one entry here and up to three messages wait behind it.
With three messages published no key expires and no consumer dies: a long backlog
needs only failed calls. Slow entries and lost races cost nothing. Bounds of
unbounded things (`MaxFaults`, `MaxCrashes`, `MaxClock`, `MaxTime`, `MaxRuns`,
`MaxEvents`, `MaxSession`, `MaxId`, `MaxPublished`, `MaxLapses`, `MaxErrors`, `MaxTraces`,
`MaxJobs`, `MaxMessages`, `MaxProfiles`, `MaxFailures`) are guards of the actions that count them; `MAX_ITERATIONS` and
`PLAN_MAX_PARALLEL` are settings of the code. `ErrCap` stands for 64 KB of log: eight lines let one
connection serve four messages and block on the next. Chunks of 4 characters with an
overlap of 2 over sentences of 1, 2, 3 and 5 give paragraphs that fit, that are merged, that
are cut and that are longer than a chunk. Symmetry is used in `fleet_safety`, `redlock_delete` and
`shared` (the sessions and clients of the lock), which check no liveness.

**Deadlock** is not checked: each of these systems comes to rest, the fleet when
all is settled, the graph at its end node, the others when their inputs are
spent. That they do not rest too early is what the liveness properties say.

**Fairness.** Only of what the event loop, a supervisor or the caller's loop
drives. A coroutine that can go on is resumed (`SubmitStep`, `LoopStep`,
`TaskStep`, each with the outcome in which
Redis answers, `PollStep`, `Loop`, `NodeStep`, `CrewStep`, `ReqStep`, the steps of a stream
whose client reads), and each process of `StdioRpc` runs, the caller once it
has started a job or a `close` (`wait` has a timeout). A call to a provider ends, because every
HTTP handler sets a timeout and Bedrock's client library has one. That a call to Redis ends is an assumption about the network: the
clients of the gateway and of the fleet set no socket timeout (`gateway/app.py:104`), so they
wait as long as the connection stands, and a request waits with them. A gateway process is started again by its
supervisor, and a stopped loop ends with its process. A graph that waits for an answer or
whose process died may stay so, and `EveryAgentRunEnds` counts it as ended: nothing is
assumed of operators. A living stream
consumer goes on with its message and calls `recover` again and again: `streams/worker.py`
only offers the call, the loop is the caller's. The one strong fairness is that of a
won `XCLAIM`: an entry that stays pending is idle for `min_idle_ms` in the end, and
then one of the attempts to claim it succeeds. Nothing is
assumed of clients: submitting, polling, publishing, opening streams, arrivals and
disconnects have no fairness, and faults and crashes have none.

### Findings

1. `fleet_at_least_once`. `claim_job` reads only new entries and nothing re-reads
   pending ones, so a job claimed by a process that exits never runs again. The
   README promises at-least-once delivery (`src/README.md:46-47`). What does hold
   is proved: at most once.
2. `redlock_delete`. GET and DELETE are two calls; the key may expire and change hands in
   between (`streams/redlock.py:99` against its comment at line 90). The nodes are then free
   while the robbed session holds the lock, so a third session can take it too; that it
   takes such a deletion is what `MutualExclusion` says.
3. `graph_skip`. `completed_step_ids` survives a rejected plan, so a step of the
   next plan with the same id is reported as done without being run
   (`graph_orchestrator.py:353` against line 71).
4. `stdio_match`. `_rpc` takes the next item of the queue and compares no id, so
   the late answer of a call that timed out becomes the next call's
   (`orchestrator.py:258` against line 255). `ImplementsRemoteCall` and the
   theorem `AnswersAreAccounted` say how far this can go: to one answer for each call given up.
5. `graph_refusal`. The answer `lg_interrupt` returns is discarded, so a refusal lets the
   destructive tools run like an approval (`graph_orchestrator.py:342` against lines 49
   and 340). What holds, and is proved, is that somebody was asked and answered first
   (`AnsweredBeforeEffects`).

Smaller differences between text and code that have no run:

- a Bedrock failure does not fall back to Ollama (`gateway/router.py:445-447` against
  352-354 and `README.md:308`);
- a cache hit and a failing call append no tool-call event
  (`gateway/service_layer.py:127` against `docs/milestones.md:14`);
- a message posted to a session gets its 202 after the dispatch, not immediately
  (`gateway/app.py:489` against 451);
- `analyse_and_report` builds an `AgentTask` without its required name, so it always
  answers with an error;
- the scope a client sends with client_credentials is ignored in favour of the
  registered one;
- a client that leaves before its generator has entered the try keeps its queue
  subscribed (`messaging/sse_v1_router.py:67`, reachable in `EventStreams`);
- `run` ends as soon as `stop()` was called, with the inbox and the heap as they are
  (`scheduler.py:110` against lines 106-107); what is queued waits for the next `run`, as
  `TaskConserved` says;
- the queue of `StdioRpc` outlives a connection, so the first call of the next one may take
  the end-of-file mark of the one before and be told that its server, which runs, closed
  its output (`orchestrator.py:249` against the message in line 250); to `RemoteCall`
  this is one more call given up;
- a task whose handler is cancelled, as by the `wait_for` of the documented usage
  (`scheduler.py:17`), stays `running` for ever, in neither the inbox nor the heap, and
  `_running` stays true (`TaskConserved` says that it is the only one lost);
- the event log's append is awaited, against the comment at `gateway/app.py:381`;
- `OutboxRelay.flush` says that all state functions come before the dispatch
  functions; it runs both for one entry after the other, and a dispatch that raises
  leaves the whole queue, entries already dispatched included
  (`streams/idempotency.py:74-79`);
- the optimizer's `min_failure_rate` is not used; its fall-back to a local
  `traces.jsonl` returns synthetic traces; a time-out of the ingestion commits what
  was read and drops it (`TracesUsedOnce` says when); the manifest lists the skills of the
  last run only, although files of earlier runs stay;
- the native backend of a crew scopes tools and then makes a call without any.

## 4. Proofs

All proofs are from the named assumptions on the constants, and from what a theorem
states before PROVE; there are no axioms and no steps left out.

**`FleetProofs`**: for every number of jobs, requests, processes, permits, faults
and crashes. The safety properties are not inductive: that a job runs once
depends on no second task being made for it, hence on the stream carrying it once,
hence on the uuid having been drawn by one coroutine. `FleetInv` is the strengthening:

- `StreamInv`: the stream carries a created job at most once, and a job about to
  be published belongs to one coroutine;
- `SubmitInv`: a coroutine's position agrees with the ids it has collected;
- `TaskInv`: an active task belongs to a live process and its entry is pending;
- `RecordInv`: record, outcome and run count at each position of a task;
- with `TypeOK`, `PermitsConserved`, `AckedIsFinal` and `NothingStranded`.

One lemma per part shows it preserved by every action; `FleetInvariant` combines
them, and `TypeCorrect`, `ConcurrencyIsBounded`, `AckAfterOutcome`,
`AtMostOnceExecution`, `ResultsAreComputed`, `RepliesBacked`, `NoStranding` and
`StatusMonotone` follow. `PermitsStep` is the cardinality argument for permits:
an action adds one task to the holders of one process, removes one, or leaves them.

Every behaviour of `Fleet` is one of `JobLife`, from `FleetInv` alone: each action is one
abstract step of one job, a mishap of a set of jobs, or a stutter
(`FleetImplementsJobLife`). The polling client adds its own steps to those of the
fleet. A final status never changes while its record is kept, and a stored batch never
changes (`FinalStays`), so what a poll has read stays true although it is no snapshot
(`PollInv`). `PollsAreTruthful`.

**`BridgeProofs`**: for every number of clients, codes, replicas, callers and
every lifetime, assuming `2 * Timeout <= Margin` and `2 * Timeout <= TokenTTL`
(with the default timeouts of httpx, a few seconds, a margin of 60 s and tokens of an hour). `IInv` is
preserved because a token is asked for before it is issued, so the expiry the
bridge computes is late by at most one exchange (`ExpiryEstimate`), and a token
put on a call outlasts that call (`InFlight`); `CodesSpent` says that whoever saw a
code left it spent. `BridgeInvariant`, `MarginSuffices`, `OneTimeCodes`,
`TokensAreBacked`. Why a code was refused is a second invariant beside `IInv`, carried
from step to step (`RefusalsAreExplained`): a refusal is never taken back, and a code
that was seen or has expired stays so.

**`TasksProofs`**, the scheduler: for every set of tasks, priorities and budgets.
`SchedulerInv` says that a pending task is once in the inbox or once on the heap
(`Queued`), that heap counters differ and are used up, and that the running tasks are the
one being handled and those that cancellations cut short, of which each call of `run`
leaves one at most (by cardinality). Every step of the loop is made of the same moves, each with a lemma:
drain, iterate, add, receive, settle; a cancellation adds to `cut`. `TasksAreConserved`.

The stream worker and its companions: for any number of consumers, tasks and messages, any
window, and whatever expires, in whatever order, fails or dies. `WorkersInv` relates a task's
keys to the consumers that have passed its guard:

- `PassInv`: they have found no mark and left one, so as long as no guard key has
  expired there is one of them;
- `LockInv`: a consumer that works without the lock it believes in has had the
  lock expire, besides the expiries of the guard; this survives a `release` that
  deletes another's lock, because that one is itself late;
- `StartsInv`: executions begun, consumers that may still begin one, and a key that
  may be set are covered by the marks (a cardinality argument, as for permits);
- `OutboxInv`, `HandledInv`: from the guard to the end of the flush somebody is in
  charge of the task or it is lost; the last entry of the outbox is its own.

`WorkersInvariant`, `ExecutionsAreMarked`, `AcknowledgedWasHandled`.

The breaker: for any number of threads, threshold and failures. `BreakerInv` adds to
`BreakerSound` the types, that a count a thread has read or written is covered by the
failures counted, and that who acts on an open breaker, or is about to open it, finds a
threshold of them; each step moves one thread, so the call that is to settle the state is
still there, or has just settled it. `BreakerIsSound`.

The auction: for every set of tasks and profiles and any number of bidders. Nothing is
kept between auctions, so the proof is about the operators: the winner, which the model
chooses, exists because the gaps to the highest possible bid have a least member (`LeastOf`, by
well-foundedness), nobody outbids it, and it is the first of the best. As many
ids as profiles means that no two profiles share one (`DistinctIds`, by cardinality), so
a listing in another order has the same winner. `WinnersAreBest`.

**`RedlockProofs`**: for every number of sessions, clients, nodes, retries and faults, every
lifetime, and however long a call takes. `RedlockTypes`; `LockIsExclusive`: a valid holder
that was not robbed is backed by the unexpired keys of a quorum, because a DELETE that
removes a live key records whose it was, and two quorums share a node; `NothingIsLeft`:
without faults the nodes that store a token are those its session knows of, or the token
was taken by another session of its client. That no session is ever robbed is not claimed:
`redlock_delete` shows how a live key comes to be deleted.

**`GatewayProofs`**: for every number of requests, prompts, streams and swallowed faults,
assuming that `None` is no text, answer or stream (an unknown name of a provider is served
by Anthropic, and no key is asked for). The proof has three layers.

- `ReqInv` is about requests and the cache. For each request it says where it is
  (`OnItsWay`), what it has tried (`InOrder`), what has been paid for its text (`Paid`) and
  who wrote that text (`Backed`, `CacheBacked`). A step of one request keeps the texts of
  the others backed, because a writer is past its writing and its input never changes
  again (`OneRequest`); each action then only has to be sound for its own request.
- `GatewayInv` adds the streams. Each `Reply` makes one more request answered and
  puts one more message at the end of its stream; a delivery moves a message from the
  queue to the delivered ones, which leaves their concatenation alone; nothing else
  touches the stream of a session (`SessionsBalanced`, by cardinality).

- `FanOutInv` adds, for each subscriber, that what it was sent, what waits for it included, is what was
  published on its topic since its GET, the n-th message in the n-th place. A publication
  lengthens both by one (`Due`, by cardinality) and a delivery neither.

`RequestsInvariant`, `CachedTextIsSound`, `GatewayInvariant`, `SessionsAnswerOnce`,
`CostIsAccounted`, `FanOutIsComplete`.

**`AgentsProofs`**, the graph: for every set of plans (of any length and shape, with cycles, repeated
ids and unknown references), every number of iterations, runs and crashes, parallel or not.
`GraphInv` strengthens the properties:

- `Approvals`: while `execute_node` is at work, the answers it counts, approvals or
  refusals, were given for the plan it runs, because both counts start when the plan is made;
- `Attempts`: a step this attempt has not begun was called by attempts that ended in a
  crash, at most once each;
- `Fetched`: what the sorter handed out has its dependencies among the finished steps; the
  last step of an id exists because a set of positions has a greatest member (`LastOf`,
  by well-foundedness);
- `Outcomes`: the finished steps are those with an outcome.

The graphs of a crew take the same steps, except that nobody answers: with no answers
given, a plan that starts has no destructive step (`NothingDestructive`), hence
`AgentsKeepScope`. `GraphInvariant`, `AnswersComeFirst`, `ReplayRepeatsNothing`,
`DependenciesAreOver`, `CriticSeesThePlan`, `AgentsKeepScope`, `CrewsKeepTheGraph`.

What a crew reports: for every crew and every plan and failure of its agents. `ReportInv`
says which agents have a result, what the one at work was handed, and that its graph
succeeds only when it was admitted (it had a task and a tool in its scope). The text handed
on is the output of the last success before an agent; a new result either becomes that
or leaves it alone (`HandedLast`). `CrewsAreHonest`.

The optimizer: for every set of traces, limit and population, any number of jobs, and
any commits, kills and time-outs.

- `IngestInv`: a trace is handed over once more only for a failure that left the
  committed offset behind it (`NotTwice`), and what the shared group has passed was handed
  over, dropped with a cut run, or is held by the consumer (`NotLost`);
- `DiskInv`: the assets of a run are for different pairs, those written so far are
  whole, and a manifest lists files that are there, torn ones only while files were touched
  and no manifest finished since (`dirty`): during a run, and after one that was killed.
  That the pairs differ rests on the order they are listed in: the number of elements before
  one grows strictly, so each has its own place (`InOrderIs`). That an asset scores no worse than its base prompt rests on the choice among candidates of which the
  base is one.

`TracesAreUsedOnce`, `ManifestsResolve`.

**`StdioProofs`**: for any number of connections and ids, any plans and tasks, any size of
the log pipe and whatever the tools do. An item that is owed an answer is
in one of four kinds of places: the pipe to the server, the server's hands, the pipe back,
the queue. `IInv` says:

- `ConnectionTypes`, `JobInv`: where the caller is in its job agrees with the ids it has
  used;
- `SlotsInv`: what a place holds has the id of a call that was made, and as long as none was
  given up, it is about the call that waits and carries that call's outcome;
- `ServerInv`: the server answers requests only, and never one whose tool ended it;
- `Backlog`: each answer on its way is in one place, and there are no more of them than calls
  given up and the one that waits (defined in `StdioProofs`; no run checks it, because
  `ImplementsRemoteCall` bounds what is owed as well);
- `ReportIsTrue` itself.

Each step of the three processes takes an item out, adds one, moves one, or touches none;
a lemma for each (`Taken`, `Added`, `Moved`) says what becomes of the set of ids
that are owed, and the bound follows by cardinality. `StdioInvariant`,
`AnswersAreAccounted`, `ReportsAreTrue`.

The same lemmas say which abstract step each action is (`StdioImplementsRemoteCall`): a
`Send` adds its id to the ids that are owed, `_recv` takes one away and returns it, which is the id of
the call that waits while nothing was given up (`SlotsInv`), a server that is killed loses
at most one (`Loses`), and whatever moves an item on is a stutter.

**`KnowledgeProofs`**: for every set of texts, every chunk size, overlap and key length, any
owners and any number of messages. `chunk_text` and `upsert` are loops over data,
written as recursive functions. The library's induction and recursion theorems take an
operator, so the module has its own, which take sets and functions: a property is the
set of the numbers that have it, and a set without a least counterexample is all of them
(`Induction`, from well-foundedness); a function defined by a step exists because its
finite beginnings do (`RecursionExists`). From these:

- what is flattened in two parts is the two flattened (`FlattenConcat`), and the units of a text are
  the text (`UnitsAre`);
- what `carry` keeps is the longest tail that fits the overlap (`CarryIs`); after each unit,
  the chunks closed so far and the open one cut the units read so far (`FirstUnitCut`,
  `NextUnitCut`), hence `Covered`;
- a row that is written is held, and what was held stays held, by itself or by a row with its
  key and its owner (`UpsertIs`, by induction on the chunks of a message, `StoredIs`);
- `IngestInv`: what is stored was cut from what was published for its owner, and
  every chunk of what was ingested is held.

`IngestedTextsAreFound`.

**Only model-checked**: every liveness property (the prover has no rule for
fairness or ENABLED here): `PollCompletes`, `EveryTaskFinishes`, `MessagesSettle`,
`EveryAgentRunEnds`, `EveryRequestAnswered`, `AnswerArrives`, `ClosedConnectionEnds`. Every other
property of a passing run is a theorem. `AtLeastOnceDelivery` and the properties of the other
findings are false, so there is nothing to prove of them.

## 5. Not modelled

- Wording, payloads, prices, spans and metrics; the JWT signature and key
  handling; the cryptography of PKCE, which is taken as injective.
- `stream_events` of the bridge and its pre-issued `GATEWAY_TOKEN`; the
  `orchestrate` tool, which starts a subprocess or a graph; `GET /mcp`, which only
  pings.
- Rounding of the auction's floats; embeddings, similarity, rank fusion, the
  reranker and the PDF reader of the knowledge base.
- The GEPA library, which may stand in for the built-in evolution of the optimizer,
  and `_ingest_from_file`, which nothing calls. DSPy and CrewAI are external: modelled
  by what they may return.
- What the tool server answers to a line that is not JSON or to an unknown method:
  this client sends neither.
- `evaluator.py` checks one output without state; its verdict is the choice in
  `Crew`'s `Evaluate`. `structured_agent.py` and `adapters.py` loop around a third-party
  agent library. The agent pipeline hands results over under fixed keys, one await
  after the other; its last step, the publication of the report, begins `Knowledge`.
- The stand-alone HTTP servers (`server_http.py`, `server_http_secured.py`) handle
  requests without state; the check of the token is `verify_token`, modelled in
  `Bridge`.
- Small steps that no property depends on. `SubmitPublish` of `Fleet` takes `ensure_group` and
  the XADD together; a cancellation inside XREADGROUP, which can leave an entry delivered
  to nobody, is not a step of `stop_fleet_workers`. With a `call_tool_fn` that is a
  coroutine function the scope wrapper of a crew returns a coroutine that nobody awaits
  (`crew.py:124`), which the graph records as a success. `reset_offset` names a fresh
  group by `id(self)` (`optimizer.py:453`), which may recur. Without a reachable Redis the
  authorization server silently uses a store of its own process
  (`auth/server.py:86-96`), where replicas share neither codes nor clients; the model has
  the shared store. On Python 3.11 and before, `wait_for` may swallow a cancellation that
  arrives with the item (`scheduler.py:122`), which is then no `Cancel`.
- The gateway of `gateway/app.py:185` is built without a prompt cache; `Gateway` has both cases
  (`hasCache`).
- Stateless filters (validation, sampling, pruner, privacy), telemetry, the evaluation
  scripts under `evals/`, and launchers.

## 6. What is left

In order of importance:

1. The agent pipeline as a composition of the session store, the auction and the bus.
2. `stream_events` of the bridge with reconnects against `EventStreams`.
3. A lock with a lease as an abstract specification of `Redlock`; it would say little more
   than `LockIsExclusive` does.
