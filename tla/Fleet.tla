------------------------------- MODULE Fleet -------------------------------
(***************************************************************************)
(* The asynchronous job runtime of the gateway (gateway/fleet.py) together *)
(* with the Redis stream consumer it drives (streams/fleet_worker.py).     *)
(*                                                                         *)
(* Every step ends at an await on Redis (or on the semaphore, or on the    *)
(* job itself), because that is where the event loop may switch to another *)
(* coroutine, to another gateway process, or where the process may die.    *)
(* One job is published at most once (_submit_one draws a fresh uuid and   *)
(* calls XADD once), so a stream entry is named by the job it carries.     *)
(***************************************************************************)
EXTENDS Integers, Sequences, FiniteSets

CONSTANTS
    Job,                \* the uuids the job ids are drawn from
    Request,            \* HTTP requests that submit jobs
    Batch,              \* the requests posted to /mcp/jobs/batch
    Size,               \* number of tasks in each request's body
    Gateway,            \* gateway processes (worker replicas)
    FLEET_CONCURRENCY,  \* permits of one process's semaphore
    Evictable,          \* jobs whose record Redis may drop (eviction, failover)
    MaxFaults,          \* bound on failing Redis calls
    MaxCrashes,         \* bound on process exits
    Nil                 \* no value: an absent batch key, an unset local

ASSUME FleetAssumption ==
    /\ Batch \subseteq Request
    /\ Size \in [Request -> Nat]
    /\ \A r \in Request \ Batch : Size[r] = 1
    /\ FLEET_CONCURRENCY \in Nat \ {0}
    /\ IsFiniteSet(Job)
    /\ Evictable \subseteq Job
    /\ MaxFaults \in Nat
    /\ MaxCrashes \in Nat

VARIABLES
    record,   \* mcp:job:<id>, by its status field ("none" = key absent)
    batch,    \* mcp:batch:<id>
    stream,   \* mcp:fleet:jobs, in XADD order
    cursor,   \* last-delivered-id of the group fleet-workers
    pel,      \* the group's pending entries: delivered, not acknowledged
    evicted,  \* jobs whose record Redis has dropped at least once
    created,  \* uuids drawn so far
    reqPc, reqHome, ids, cur,           \* submit_job / submit_batch coroutines
    alive, loop, permits,               \* process, _run_workers task, semaphore
    taskPc, home, outcome,              \* _process_job tasks
    runs,     \* how often each job's pipeline was started
    faults, crashes

redisVars == <<record, batch, stream, cursor, pel, evicted>>
reqVars == <<created, reqPc, reqHome, ids, cur>>
procVars == <<alive, loop>>
taskVars == <<taskPc, home, outcome, runs>>
vars == <<redisVars, reqVars, procVars, permits, taskVars, faults, crashes>>

Status == {"none", "pending", "running", "done", "failed"}
Terminal == {"done", "failed"}
ReqActive == {"write", "publish", "save"}
Holding == {"read", "mark", "execute", "result", "ack"}
TaskActive == {"waiting"} \cup Holding

-----------------------------------------------------------------------------
(* A call to Redis returns, or raises without having been applied, or       *)
(* raises although the server applied it (the reply was lost).              *)
Reply == {"ok", "lostRequest", "lostReply"}
Applied(o) == o # "lostRequest"
Raised(o) == o # "ok"

RedisCall(o) ==
    IF Raised(o)
    THEN faults < MaxFaults /\ faults' = faults + 1
    ELSE faults' = faults

write_job(j, s, o) ==
    record' = IF Applied(o) THEN [record EXCEPT ![j] = s] ELSE record

-----------------------------------------------------------------------------
(* Submission: submit_job and submit_batch around _submit_one.              *)

Proceed(r, n) ==
    IF n < Size[r] THEN "write" ELSE IF r \in Batch THEN "save" ELSE "replied"

Submit(r, g) ==
    /\ reqPc[r] = "idle"
    /\ alive[g]
    /\ reqPc' = [reqPc EXCEPT ![r] = Proceed(r, 0)]
    /\ reqHome' = [reqHome EXCEPT ![r] = g]
    /\ UNCHANGED <<redisVars, created, ids, cur, procVars, permits, taskVars,
                   faults, crashes>>

\* (mutant) An error of the first write is swallowed.
SubmitWriteCareless(r, j, o) ==
    /\ reqPc[r] = "write"
    /\ j \notin created
    /\ RedisCall(o)
    /\ created' = created \cup {j}
    /\ cur' = [cur EXCEPT ![r] = j]
    /\ write_job(j, "pending", o)
    /\ reqPc' = [reqPc EXCEPT ![r] = "publish"]
    /\ UNCHANGED <<batch, stream, cursor, pel, evicted, reqHome, ids, procVars,
                   permits, taskVars, crashes>>

SubmitWrite(r, j, o) ==
    /\ reqPc[r] = "write"
    /\ j \notin created
    /\ RedisCall(o)
    /\ created' = created \cup {j}
    /\ cur' = [cur EXCEPT ![r] = j]
    /\ write_job(j, "pending", o)
    /\ reqPc' = [reqPc EXCEPT ![r] = IF Raised(o) THEN "error" ELSE "publish"]
    /\ UNCHANGED <<batch, stream, cursor, pel, evicted, reqHome, ids, procVars,
                   permits, taskVars, crashes>>

\* A publish error is logged and swallowed: the job id is returned all the same.
SubmitPublish(r, o) ==
    /\ reqPc[r] = "publish"
    /\ RedisCall(o)
    /\ stream' = IF Applied(o) THEN Append(stream, cur[r]) ELSE stream
    /\ ids' = [ids EXCEPT ![r] = Append(@, cur[r])]
    /\ reqPc' = [reqPc EXCEPT ![r] = Proceed(r, Len(ids[r]) + 1)]
    /\ UNCHANGED <<record, batch, cursor, pel, evicted, created, reqHome, cur,
                   procVars, permits, taskVars, crashes>>

SubmitSave(r, o) ==
    /\ reqPc[r] = "save"
    /\ RedisCall(o)
    /\ batch' = IF Applied(o) THEN [batch EXCEPT ![r] = ids[r]] ELSE batch
    /\ reqPc' = [reqPc EXCEPT ![r] = IF Raised(o) THEN "error" ELSE "replied"]
    /\ UNCHANGED <<record, stream, cursor, pel, evicted, created, reqHome, ids,
                   cur, procVars, permits, taskVars, crashes>>

-----------------------------------------------------------------------------
(* The worker loop of one gateway process.                                  *)

start_fleet_workers(g) ==
    /\ ~alive[g]
    /\ alive' = [alive EXCEPT ![g] = TRUE]
    /\ loop' = [loop EXCEPT ![g] = "starting"]
    /\ permits' = [permits EXCEPT ![g] = FLEET_CONCURRENCY]
    /\ UNCHANGED <<redisVars, reqVars, taskVars, faults, crashes>>

\* ensure_group runs outside the loop's try: an error there ends the task.
EnsureGroup(g, o) ==
    /\ loop[g] = "starting"
    /\ RedisCall(o)
    /\ loop' = [loop EXCEPT ![g] = IF Raised(o) THEN "dead" ELSE "polling"]
    /\ UNCHANGED <<redisVars, reqVars, alive, permits, taskVars, crashes>>

\* (mutant) Pending entries of the group are handed out again.
ClaimPending(g, o) ==
    /\ loop[g] = "polling"
    /\ RedisCall(o)
    /\ \E i \in 1..Len(stream) :
          /\ i = cursor + 1 \/ (i <= cursor /\ stream[i] \in pel)
          /\ IF Applied(o)
             THEN /\ cursor' = IF i > cursor THEN i ELSE cursor
                  /\ pel' = pel \cup {stream[i]}
             ELSE UNCHANGED <<cursor, pel>>
          /\ IF Raised(o)
             THEN UNCHANGED <<taskPc, home>>
             ELSE /\ taskPc' = [taskPc EXCEPT ![stream[i]] = "waiting"]
                  /\ home' = [home EXCEPT ![stream[i]] = g]
    /\ UNCHANGED <<record, batch, stream, evicted, reqVars, procVars, permits,
                   outcome, runs, crashes>>

\* (mutant) Only the newest entry is taken.
ClaimNewest(g, o) ==
    /\ loop[g] = "polling"
    /\ cursor < Len(stream)
    /\ RedisCall(o)
    /\ IF Applied(o)
       THEN /\ cursor' = Len(stream)
            /\ pel' = pel \cup {stream[Len(stream)]}
       ELSE UNCHANGED <<cursor, pel>>
    /\ IF Raised(o)
       THEN UNCHANGED <<taskPc, home>>
       ELSE /\ taskPc' = [taskPc EXCEPT ![stream[Len(stream)]] = "waiting"]
            /\ home' = [home EXCEPT ![stream[Len(stream)]] = g]
    /\ UNCHANGED <<record, batch, stream, evicted, reqVars, procVars, permits,
                   outcome, runs, crashes>>

\* XREADGROUP ">" hands out the next undelivered entry and never an old one.
Claim(g, o) ==
    /\ loop[g] = "polling"
    /\ cursor < Len(stream)
    /\ RedisCall(o)
    /\ IF Applied(o)
       THEN /\ cursor' = cursor + 1
            /\ pel' = pel \cup {stream[cursor + 1]}
       ELSE UNCHANGED <<cursor, pel>>
    /\ IF Raised(o)
       THEN UNCHANGED <<taskPc, home>>
       ELSE /\ taskPc' = [taskPc EXCEPT ![stream[cursor + 1]] = "waiting"]
            /\ home' = [home EXCEPT ![stream[cursor + 1]] = g]
    /\ UNCHANGED <<record, batch, stream, evicted, reqVars, procVars, permits,
                   outcome, runs, crashes>>

\* Only the loop is cancelled; tasks in flight go on until the process exits.
stop_fleet_workers(g) ==
    /\ loop[g] \in {"starting", "polling", "dead"}
    /\ crashes < MaxCrashes
    /\ loop' = [loop EXCEPT ![g] = "stopped"]
    /\ UNCHANGED <<redisVars, reqVars, alive, permits, taskVars, faults, crashes>>

-----------------------------------------------------------------------------
(* _process_job: one asyncio task per claimed message.                      *)

Acquire(j) ==
    /\ taskPc[j] = "waiting"
    /\ permits[home[j]] > 0
    /\ permits' = [permits EXCEPT ![home[j]] = @ - 1]
    /\ taskPc' = [taskPc EXCEPT ![j] = "read"]
    /\ UNCHANGED <<redisVars, reqVars, procVars, home, outcome, runs, faults, crashes>>

\* (mutant) The permit is not given back.
LeaveLeaking(j, pc) ==
    /\ taskPc' = [taskPc EXCEPT ![j] = pc]
    /\ UNCHANGED permits

\* Leave "async with semaphore", by return or by exception.
Leave(j, pc) ==
    /\ taskPc' = [taskPc EXCEPT ![j] = pc]
    /\ permits' = [permits EXCEPT ![home[j]] = @ + 1]

Goto(j, pc) ==
    /\ taskPc' = [taskPc EXCEPT ![j] = pc]
    /\ UNCHANGED permits

read_job(j, o) ==
    /\ taskPc[j] = "read"
    /\ RedisCall(o)
    /\ IF Raised(o) THEN Leave(j, "died")
       ELSE Goto(j, IF record[j] = "none" THEN "ack" ELSE "mark")
    /\ UNCHANGED <<redisVars, reqVars, procVars, home, outcome, runs, crashes>>

MarkRunning(j, o) ==
    /\ taskPc[j] = "mark"
    /\ RedisCall(o)
    /\ write_job(j, "running", o)
    /\ IF Raised(o) THEN Leave(j, "died") ELSE Goto(j, "execute")
    /\ runs' = [runs EXCEPT ![j] = IF Raised(o) THEN @ ELSE @ + 1]
    /\ UNCHANGED <<batch, stream, cursor, pel, evicted, reqVars, procVars, home,
                   outcome, crashes>>

\* wait_for: a result, an error response, an exception or the timeout.
execute_job(j, s) ==
    /\ taskPc[j] = "execute"
    /\ outcome' = [outcome EXCEPT ![j] = s]
    /\ Goto(j, "result")
    /\ UNCHANGED <<redisVars, reqVars, procVars, home, runs, faults, crashes>>

\* (mutant) An error of the last write is swallowed and the entry acknowledged.
WriteResultCareless(j, o) ==
    /\ taskPc[j] = "result"
    /\ RedisCall(o)
    /\ write_job(j, outcome[j], o)
    /\ Goto(j, "ack")
    /\ UNCHANGED <<batch, stream, cursor, pel, evicted, reqVars, procVars, home,
                   outcome, runs, crashes>>

\* (mutant) A failed execution is recorded as done.
WriteResultAlwaysDone(j, o) ==
    /\ taskPc[j] = "result"
    /\ RedisCall(o)
    /\ write_job(j, "done", o)
    /\ IF Raised(o) THEN Leave(j, "died") ELSE Goto(j, "ack")
    /\ UNCHANGED <<batch, stream, cursor, pel, evicted, reqVars, procVars, home,
                   outcome, runs, crashes>>

WriteResult(j, o) ==
    /\ taskPc[j] = "result"
    /\ RedisCall(o)
    /\ write_job(j, outcome[j], o)
    /\ IF Raised(o) THEN Leave(j, "died") ELSE Goto(j, "ack")
    /\ UNCHANGED <<batch, stream, cursor, pel, evicted, reqVars, procVars, home,
                   outcome, runs, crashes>>

Ack(j, o) ==
    /\ taskPc[j] = "ack"
    /\ RedisCall(o)
    /\ pel' = IF Applied(o) THEN pel \ {j} ELSE pel
    /\ Leave(j, IF Raised(o) THEN "died" ELSE "end")
    /\ UNCHANGED <<record, batch, stream, cursor, evicted, reqVars, procVars, home,
                   outcome, runs, crashes>>

-----------------------------------------------------------------------------
(* The environment: process exit and loss of a record inside Redis.         *)

Crash(g) ==
    /\ alive[g]
    /\ crashes < MaxCrashes
    /\ crashes' = crashes + 1
    /\ alive' = [alive EXCEPT ![g] = FALSE]
    /\ loop' = [loop EXCEPT ![g] = "off"]
    /\ permits' = [permits EXCEPT ![g] = FLEET_CONCURRENCY]
    /\ taskPc' = [j \in Job |->
                    IF home[j] = g /\ taskPc[j] \in TaskActive
                    THEN "died" ELSE taskPc[j]]
    /\ reqPc' = [r \in Request |->
                    IF reqHome[r] = g /\ reqPc[r] \in ReqActive
                    THEN "error" ELSE reqPc[r]]
    /\ UNCHANGED <<redisVars, created, reqHome, ids, cur, home, outcome, runs, faults>>

Evict(j) ==
    /\ j \in Evictable
    /\ record[j] # "none"
    /\ record' = [record EXCEPT ![j] = "none"]
    /\ evicted' = evicted \cup {j}
    /\ UNCHANGED <<batch, stream, cursor, pel, reqVars, procVars, permits, taskVars,
                   faults, crashes>>

-----------------------------------------------------------------------------
Init ==
    /\ record = [j \in Job |-> "none"]
    /\ batch = [b \in Batch |-> Nil]
    /\ stream = <<>>
    /\ cursor = 0
    /\ pel = {}
    /\ evicted = {}
    /\ created = {}
    /\ reqPc = [r \in Request |-> "idle"]
    /\ reqHome = [r \in Request |-> Nil]
    /\ ids = [r \in Request |-> <<>>]
    /\ cur = [r \in Request |-> Nil]
    /\ alive = [g \in Gateway |-> FALSE]
    /\ loop = [g \in Gateway |-> "off"]
    /\ permits = [g \in Gateway |-> FLEET_CONCURRENCY]
    /\ taskPc = [j \in Job |-> "none"]
    /\ home = [j \in Job |-> Nil]
    /\ outcome = [j \in Job |-> "failed"]
    /\ runs = [j \in Job |-> 0]
    /\ faults = 0
    /\ crashes = 0

SubmitStep(r, o) ==
    \/ \E j \in Job : SubmitWrite(r, j, o)
    \/ SubmitPublish(r, o)
    \/ r \in Batch /\ SubmitSave(r, o)

LoopStep(g, o) == EnsureGroup(g, o) \/ Claim(g, o)

TaskStep(j, o) ==
    \/ o = "ok" /\ Acquire(j)
    \/ read_job(j, o)
    \/ MarkRunning(j, o)
    \/ o = "ok" /\ \E s \in Terminal : execute_job(j, s)
    \/ WriteResult(j, o)
    \/ Ack(j, o)

Next ==
    \/ \E r \in Request, g \in Gateway : Submit(r, g)
    \/ \E r \in Request, o \in Reply : SubmitStep(r, o)
    \/ \E g \in Gateway : start_fleet_workers(g) \/ stop_fleet_workers(g) \/ Crash(g)
    \/ \E g \in Gateway, o \in Reply : LoopStep(g, o)
    \/ \E j \in Job, o \in Reply : TaskStep(j, o)
    \/ \E j \in Job : Evict(j)

Spec == Init /\ [][Next]_vars

\* asyncio runs every ready coroutine, wait_for bounds a job's execution, and
\* the deployment restarts an exited gateway; a gateway whose workers were stopped
\* is shutting down and exits.  Clients need not submit.
Fairness ==
    /\ \A r \in Request : WF_vars(SubmitStep(r, "ok"))
    /\ \A g \in Gateway :
          /\ WF_vars(start_fleet_workers(g))
          /\ WF_vars(LoopStep(g, "ok"))
          /\ WF_vars(loop[g] = "stopped" /\ Crash(g))
    /\ \A j \in Job : WF_vars(TaskStep(j, "ok"))

FairSpec == Spec /\ Fairness

-----------------------------------------------------------------------------
(* Properties.                                                              *)

\* The state keeps its types: Redis keys, coroutine positions and counters.
TypeOK ==
    /\ record \in [Job -> Status]
    /\ batch \in [Batch -> Seq(Job) \cup {Nil}]
    /\ stream \in Seq(Job)
    /\ cursor \in 0..Len(stream)
    /\ pel \subseteq Job
    /\ evicted \subseteq Job
    /\ created \subseteq Job
    /\ reqPc \in [Request -> {"idle", "replied", "error"} \cup ReqActive]
    /\ reqHome \in [Request -> Gateway \cup {Nil}]
    /\ ids \in [Request -> Seq(Job)]
    /\ cur \in [Request -> Job \cup {Nil}]
    /\ \A r \in Request : reqPc[r] = "publish" => cur[r] \in Job
    /\ alive \in [Gateway -> BOOLEAN]
    /\ loop \in [Gateway -> {"off", "starting", "polling", "dead", "stopped"}]
    /\ permits \in [Gateway -> Nat]
    /\ taskPc \in [Job -> {"none", "end", "died"} \cup TaskActive]
    /\ home \in [Job -> Gateway \cup {Nil}]
    /\ outcome \in [Job -> Terminal]
    /\ runs \in [Job -> Nat]
    /\ faults \in 0..MaxFaults
    /\ crashes \in 0..MaxCrashes

\* The jobs whose task holds a permit of process g's semaphore.
Holders(g) == {j \in Job : home[j] = g /\ taskPc[j] \in Holding}

\* The semaphore of a process accounts for exactly the tasks inside
\* "async with semaphore": no error path leaks or returns a permit twice, so at
\* most FLEET_CONCURRENCY jobs of a process are in progress (fleet.py:167).
PermitsConserved ==
    \A g \in Gateway : permits[g] + Cardinality(Holders(g)) = FLEET_CONCURRENCY

\* XACK comes after the outcome is durable: an entry that was delivered and is no
\* longer pending has a final record, unless Redis itself dropped the record.
AckedIsFinal ==
    \A i \in 1..cursor :
        stream[i] \in pel \cup evicted \/ record[stream[i]] \in Terminal

\* However processes crash, restart and fail, no job's pipeline is started twice.
ExecutedAtMostOnce == \A j \in Job : runs[j] <= 1

\* A final record is the outcome of an execution that really ran, of a job that
\* was published and delivered.
ResultWasComputed ==
    \A j \in Job : record[j] \in Terminal =>
        /\ runs[j] = 1
        /\ record[j] = outcome[j]
        /\ \E i \in 1..cursor : stream[i] = j

\* What a client was told exists: a stored batch lists Size distinct jobs, and
\* every job id handed out in a reply or a batch has a record.
RepliesAreBacked ==
    /\ \A b \in Batch : batch[b] # Nil =>
          /\ Len(batch[b]) = Size[b]
          /\ \A i, k \in 1..Len(batch[b]) :
                batch[b][i] = batch[b][k] => i = k
    /\ \A r \in Request : \A i \in 1..Len(ids[r]) :
          ids[r][i] \in evicted \/ record[ids[r][i]] # "none"

\* While no Redis call has failed and no process has exited, every unfinished job
\* is still on its way: being published, queued, or in the hands of a task.
NothingStranded ==
    faults = 0 /\ crashes = 0 =>
        \A j \in created : 
            \/ record[j] \in Terminal
            \/ j \in evicted
            \/ \E r \in Request : reqPc[r] = "publish" /\ cur[r] = j
            \/ \E i \in cursor + 1..Len(stream) : stream[i] = j
            \/ taskPc[j] \in TaskActive

\* Something will go on with the job: a task, the worker loops, or the coroutine that
\* submits it.
Ahead(j) == \E i \in cursor + 1..Len(stream) : stream[i] = j
Publishing(j) == \E r \in Request : reqPc[r] = "publish" /\ cur[r] = j
OnItsWay(j) == taskPc[j] \in {"waiting", "read", "mark"} \/ Ahead(j) \/ Publishing(j)

\* How far each job is in its life.
life ==
    [j \in Job |-> IF j \notin created THEN "unborn"
                   ELSE IF record[j] \in Terminal THEN "settled"
                   ELSE IF taskPc[j] = "execute" THEN "running"
                   ELSE IF taskPc[j] = "result" THEN "computed"
                   ELSE IF OnItsWay(j) THEN "queued" ELSE "lost"]

Promise == INSTANCE JobLife WITH dropped <- evicted, mishaps <- faults + crashes

\* To its clients the fleet is JobLife: across replicas, retries of the loop, lost replies
\* and restarts each job's status moves forward only, is the outcome of its one execution
\* in the end, and a job is lost only by a fault or a dropped record (fleet.py:159).
ImplementsJobLife == Promise!Spec

\* README.md: "FleetWorker processes jobs off a Redis stream with at-least-once
\* delivery": every published job is eventually executed.
AtLeastOnceDelivery ==
    \A j \in Job : (\E i \in 1..Len(stream) : stream[i] = j) ~> runs[j] >= 1

-----------------------------------------------------------------------------
(* The inductive strengthening of the safety properties above.             *)

Delivered(j) == \E i \in 1..cursor : stream[i] = j
Streamed(j) == \E i \in 1..Len(stream) : stream[i] = j

\* The stream carries each created job at most once; a job between its record
\* and its XADD belongs to one coroutine only.
StreamInv ==
    /\ \A i, k \in 1..Len(stream) : stream[i] = stream[k] => i = k
    /\ \A i \in 1..Len(stream) : stream[i] \in created
    /\ \A r \in Request : reqPc[r] = "publish" =>
          /\ cur[r] \in created
          /\ ~Streamed(cur[r])
          /\ cur[r] \in evicted \/ record[cur[r]] # "none"
          /\ \A q \in Request : reqPc[q] = "publish" /\ cur[q] = cur[r] => q = r

\* A coroutine's position agrees with the job ids it has collected.
SubmitInv ==
    \A r \in Request :
        /\ reqPc[r] = "idle" => Len(ids[r]) = 0
        /\ reqPc[r] \in {"write", "publish"} => Len(ids[r]) < Size[r]
        /\ reqPc[r] = "save" => r \in Batch /\ Len(ids[r]) = Size[r]
        /\ \A i, k \in 1..Len(ids[r]) : ids[r][i] = ids[r][k] => i = k
        /\ \A i \in 1..Len(ids[r]) :
              /\ ids[r][i] \in created
              /\ ids[r][i] \in evicted \/ record[ids[r][i]] # "none"
              /\ reqPc[r] = "publish" => ids[r][i] # cur[r]
        /\ r \in Batch /\ batch[r] # Nil =>
              /\ batch[r] = ids[r]
              /\ Len(ids[r]) = Size[r]
              /\ reqPc[r] \in {"replied", "error"}

\* A task exists only for a delivered entry of a live process, and while it is
\* active its entry is pending.
TaskInv ==
    /\ \A g \in Gateway : loop[g] # "off" => alive[g]
    /\ \A j \in Job :
          /\ taskPc[j] # "none" => Delivered(j)
          /\ taskPc[j] \in TaskActive =>
                j \in pel /\ home[j] \in Gateway /\ alive[home[j]]

\* What record, outcome and the run counter say at each position of a task.
RecordInv ==
    \A j \in Job :
        /\ j \notin created => record[j] = "none"
        /\ runs[j] \in {0, 1}
        /\ taskPc[j] \in {"none", "waiting", "read", "mark"} =>
              runs[j] = 0 /\ record[j] \notin Terminal
        /\ taskPc[j] \in {"execute", "result"} =>
              runs[j] = 1 /\ record[j] \notin Terminal
        /\ taskPc[j] \in {"ack", "end"} => j \in evicted \/ record[j] \in Terminal
        /\ record[j] \in Terminal => runs[j] = 1 /\ record[j] = outcome[j]
        /\ taskPc[j] = "none" /\ j \notin evicted => record[j] \in {"none", "pending"}
        /\ Streamed(j) => j \in evicted \/ record[j] # "none"

FleetInv ==
    /\ TypeOK
    /\ StreamInv
    /\ SubmitInv
    /\ TaskInv
    /\ RecordInv
    /\ PermitsConserved
    /\ AckedIsFinal
    /\ NothingStranded

=============================================================================
