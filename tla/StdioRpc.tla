------------------------------ MODULE StdioRpc ------------------------------
(***************************************************************************)
(* MCPOrchestrator (orchestrator.py), the tool server it spawns (server.py) *)
(* and the two callers that drive it: DeterministicOrchestrator.execute and *)
(* ReActAgent.run (react_loop.py).                                         *)
(*                                                                         *)
(* Three processes per connection: the calling thread, the daemon thread   *)
(* that moves the server's lines to one queue, and the server.  They share *)
(* the pipes of the connection and the queue, which outlives connections.  *)
(* The pipe of stderr is opened and nobody reads it.                       *)
(***************************************************************************)
EXTENDS Integers, Sequences, FiniteSets

CONSTANTS
    Call,         \* a tool name with its arguments
    Effect,       \* what _call_tool does with it: "ok", "error" or "raise"
    RawPlan,      \* step lists an LLM may propose: sequences of Call
    Task,         \* the Call a ReAct task selects, or None: no suitable tool
    ErrCap,       \* log lines the pipe of stderr holds before a write blocks
    MaxSession,   \* bound on connect()
    MaxId,        \* bound on the ids after which the caller starts nothing new
    None

ASSUME StdioAssumption ==
    /\ Effect \in [Call -> {"ok", "error", "raise"}]
    /\ RawPlan \subseteq Seq(Call)
    /\ Task \subseteq Call \cup {None} /\ None \notin Call
    /\ ErrCap \in Nat /\ MaxSession \in Nat /\ MaxId \in Nat

VARIABLES
    session, proc,        \* connections made so far; _proc: one of them, or 0
    stdin, stdinOpen,     \* per connection: requests in the pipe, and its writing end
    stdout, stderr,       \* responses in the pipe; number of lines in the other
    server, request,      \* per connection: position of serve(), and what it serves
    reader,               \* per connection: the thread of _read_loop
    recv_q, next_id,
    job, pc, sending,     \* what the caller runs, its position, its pending request
    answers, report,      \* what _rpc returned to this job; how the job ended
    abandoned             \* history: calls sent whose answer _rpc did not wait for

pipeVars   == <<stdin, stdinOpen, stdout, stderr>>
serverVars == <<server, request>>
jobVars    == <<job, answers, report>>
vars == <<session, proc, pipeVars, serverVars, reader, recv_q, next_id, jobVars, pc,
          sending, abandoned>>

Session == 1..MaxSession

\* The sentinel the reader thread puts last; no answer has its id.
EOF == [id |-> 0, method |-> "eof", isError |-> FALSE]

\* The last message of connect(), which has no id.
Notification == [id |-> 0, method |-> "initialized", call |-> None]

Init ==
    /\ session = 0 /\ proc = 0
    /\ stdin = [s \in Session |-> <<>>] /\ stdinOpen = [s \in Session |-> TRUE]
    /\ stdout = [s \in Session |-> <<>>] /\ stderr = [s \in Session |-> 0]
    /\ server = [s \in Session |-> "off"] /\ request = [s \in Session |-> None]
    /\ reader = [s \in Session |-> "off"]
    /\ recv_q = <<>> /\ next_id = 1
    /\ job = [kind |-> "none"] /\ pc = "idle" /\ sending = None
    /\ answers = <<>> /\ report = "none" /\ abandoned = 0

-----------------------------------------------------------------------------
(* The server: serve() of server.py.                                        *)

\* A log line goes to stderr, which blocks once its pipe is full.
_log(s) == stderr[s] < ErrCap /\ stderr' = [stderr EXCEPT ![s] = @ + 1]

At(s, here, there) == server[s] = here /\ server' = [server EXCEPT ![s] = there]

\* (mutant) The notification is answered as well.
DispatchAnswersAll(m) ==
    [id |-> m.id, method |-> m.method,
     isError |-> m.method = "tools/call" /\ Effect[m.call] = "error"]

\* The answer to a request, None to the notification.
_dispatch(m) ==
    IF m.method = "initialized" THEN None
    ELSE [id |-> m.id, method |-> m.method,
          isError |-> m.method = "tools/call" /\ Effect[m.call] = "error"]

ServerStart(s) ==
    /\ At(s, "start", "read") /\ _log(s)
    /\ UNCHANGED <<request, stdin, stdinOpen, stdout>>

\* readline: the next message, or the end of the input.
ServerRead(s) ==
    /\ \/ /\ stdin[s] # <<>>
          /\ At(s, "read", "recv")
          /\ request' = [request EXCEPT ![s] = Head(stdin[s])]
          /\ stdin' = [stdin EXCEPT ![s] = Tail(@)]
          /\ UNCHANGED stderr
       \/ /\ stdin[s] = <<>> /\ ~stdinOpen[s]
          /\ At(s, "read", "exited") /\ _log(s)
          /\ UNCHANGED <<request, stdin>>
    /\ UNCHANGED <<stdinOpen, stdout>>

\* An exception _dispatch does not catch (OverflowError of int()) ends the process.
ServerDispatch(s) ==
    LET m == request[s]
        raises == m.method = "tools/call" /\ Effect[m.call] = "raise"
    IN  /\ At(s, "recv", IF raises THEN "exited"
                         ELSE IF _dispatch(m) = None THEN "read" ELSE "send")
        /\ _log(s)
        /\ UNCHANGED <<request, stdin, stdinOpen, stdout>>

ServerLogSend(s) ==
    /\ At(s, "send", "write") /\ _log(s)
    /\ UNCHANGED <<request, stdin, stdinOpen, stdout>>

ServerWrite(s) ==
    /\ At(s, "write", "read")
    /\ stdout' = [stdout EXCEPT ![s] = Append(@, _dispatch(request[s]))]
    /\ UNCHANGED <<request, stdin, stdinOpen, stderr>>

serve(s) ==
    /\ ServerStart(s) \/ ServerRead(s) \/ ServerDispatch(s) \/ ServerLogSend(s) \/ ServerWrite(s)
    /\ UNCHANGED <<session, proc, reader, recv_q, next_id, jobVars, pc, sending, abandoned>>

-----------------------------------------------------------------------------
(* The reader thread of a connection.                                       *)

_read_loop(s) ==
    /\ reader[s] = "reading"
    /\ \/ /\ stdout[s] # <<>>
          /\ recv_q' = Append(recv_q, Head(stdout[s]))
          /\ stdout' = [stdout EXCEPT ![s] = Tail(@)]
          /\ UNCHANGED reader
       \/ /\ stdout[s] = <<>> /\ server[s] = "exited"
          /\ recv_q' = Append(recv_q, EOF)
          /\ reader' = [reader EXCEPT ![s] = "done"]
          /\ UNCHANGED stdout
    /\ UNCHANGED <<session, proc, stdin, stdinOpen, stderr, serverVars, next_id, jobVars, pc,
                   sending, abandoned>>

-----------------------------------------------------------------------------
(* The caller.  A job is a series of _rpc calls; an answer decides whether  *)
(* the next one is made.                                                    *)

callerRest == <<stdout, stderr, serverVars, reader>>

Ask(method, c) == [method |-> method, call |-> c]

Begin(kind, asks) ==
    /\ pc = "idle" /\ next_id <= MaxId
    /\ job' = [kind |-> kind, asks |-> asks, first |-> next_id]
    /\ pc' = "send" /\ sending' = asks[1]
    /\ answers' = <<>> /\ report' = "running"

Finish(r) == pc' = "idle" /\ sending' = None /\ report' = r

\* Popen, the reader thread, and the call of initialize.
connect ==
    /\ session < MaxSession
    /\ Begin("connect", <<Ask("initialize", None)>>)
    /\ session' = session + 1 /\ proc' = session + 1
    /\ server' = [server EXCEPT ![session + 1] = "start"]
    /\ reader' = [reader EXCEPT ![session + 1] = "reading"]
    /\ UNCHANGED <<pipeVars, request, recv_q, next_id, abandoned>>

\* OrchestratorPlan: at least one step, and no step twice in a row.
Valid(raw) == raw # <<>> /\ \A i \in 2..Len(raw) : raw[i] # raw[i - 1]

StartExecute ==
    /\ \E raw \in RawPlan : Valid(raw) /\ Begin("execute", [i \in DOMAIN raw |-> Ask("tools/call", raw[i])])
    /\ UNCHANGED <<session, proc, pipeVars, serverVars, reader, recv_q, next_id, abandoned>>

StartReact ==
    /\ \E t \in Task : Begin("react", <<Ask("tools/list", None), Ask("tools/call", t)>>)
    /\ UNCHANGED <<session, proc, pipeVars, serverVars, reader, recv_q, next_id, abandoned>>

\* An exception leaves _rpc: execute turns it into a result, the others pass it on.
Raise == Finish(IF job.kind = "execute" THEN "failure" ELSE "raised")

\* "Not connected", or the pipe of a process that has exited.
Broken == proc = 0 \/ server[proc] = "exited"

Send ==
    /\ pc = "send"
    /\ next_id' = next_id + 1
    /\ IF Broken
       THEN Raise /\ UNCHANGED stdin
       ELSE /\ stdin' = [stdin EXCEPT ![proc] =
                             Append(@, [id |-> next_id, method |-> sending.method, call |-> sending.call])]
            /\ pc' = "wait"
            /\ UNCHANGED <<sending, report>>
    /\ UNCHANGED <<session, proc, stdinOpen, callerRest, recv_q, job, answers, abandoned>>

\* (mutant) The observation of a ReAct task is taken for a success.
ContinueCareless(k, response) ==
    LET more == pc' = "send" /\ sending' = job.asks[k + 1] /\ UNCHANGED report
    IN  CASE job.kind = "connect" ->
               pc' = "notify" /\ UNCHANGED <<sending, report>>
          [] OTHER -> IF k < Len(job.asks) /\ job.asks[k + 1].call # None
                      THEN more ELSE Finish("success")

\* What the caller does with the k-th answer.
Continue(k, response) ==
    LET more == pc' = "send" /\ sending' = job.asks[k + 1] /\ UNCHANGED report
    IN  CASE job.kind = "connect" ->
               pc' = "notify" /\ UNCHANGED <<sending, report>>
          [] job.kind = "execute" ->
               IF k < Len(job.asks) THEN more ELSE Finish("success")
          [] job.kind = "react" /\ k = 1 ->
               IF response.method = "tools/list" /\ job.asks[2].call # None
               THEN more ELSE Finish("no_tool")
          [] job.kind = "react" /\ k = 2 ->
               Finish(IF response.isError THEN "failure" ELSE "success")

_recv ==
    /\ pc = "wait" /\ recv_q # <<>>
    /\ recv_q' = Tail(recv_q)
    /\ IF Head(recv_q) = EOF
       THEN Raise /\ abandoned' = abandoned + 1 /\ UNCHANGED answers
       ELSE /\ answers' = Append(answers, [want |-> next_id - 1, got |-> Head(recv_q)])
            /\ Continue(Len(answers) + 1, Head(recv_q))
            /\ UNCHANGED abandoned
    /\ UNCHANGED <<session, proc, stdin, stdinOpen, callerRest, next_id, job>>

\* Nothing came within five seconds.
RecvTimeout ==
    /\ pc = "wait" /\ recv_q = <<>>
    /\ Raise
    /\ abandoned' = abandoned + 1
    /\ UNCHANGED <<session, proc, stdin, stdinOpen, callerRest, recv_q, next_id, job, answers>>

\* The initialized notification that ends connect().
Notify ==
    /\ pc = "notify"
    /\ IF Broken
       THEN Raise /\ UNCHANGED stdin
       ELSE /\ stdin' = [stdin EXCEPT ![proc] = Append(@, Notification)]
            /\ Finish("success")
    /\ UNCHANGED <<session, proc, stdinOpen, callerRest, recv_q, next_id, job, answers, abandoned>>

close ==
    /\ pc = "idle" /\ proc # 0
    /\ stdinOpen' = [stdinOpen EXCEPT ![proc] = FALSE]
    /\ pc' = "closing"
    /\ UNCHANGED <<session, proc, stdin, callerRest, recv_q, next_id, jobVars, sending, abandoned>>

\* (mutant) wait() without a timeout.
CloseWaitForever ==
    /\ pc = "closing" /\ server[proc] = "exited"
    /\ proc' = 0 /\ pc' = "idle"
    /\ UNCHANGED <<session, pipeVars, serverVars, reader, recv_q, next_id, jobVars, sending, abandoned>>

\* wait(timeout=5) returns, or raises and the process is killed.
CloseWait ==
    /\ pc = "closing"
    /\ server' = [server EXCEPT ![proc] = "exited"]
    /\ proc' = 0 /\ pc' = "idle"
    /\ UNCHANGED <<session, pipeVars, request, reader, recv_q, next_id, jobVars, sending, abandoned>>

CallerStep == Send \/ _recv \/ RecvTimeout \/ Notify \/ CloseWait

Next ==
    \/ connect \/ StartExecute \/ StartReact \/ close \/ CallerStep
    \/ \E s \in Session : serve(s) \/ _read_loop(s)

\* The operating system runs each process; the caller alone decides what to start.
Fairness ==
    /\ WF_vars(CallerStep)
    /\ \A s \in Session : WF_vars(serve(s)) /\ WF_vars(_read_loop(s))

Spec == Init /\ [][Next]_vars /\ Fairness

-----------------------------------------------------------------------------
(* Properties.                                                              *)

Serving == {"recv", "send", "write"}

\* Where a request or its answer can be, and what is there.
Place == ({"stdin", "server", "stdout"} \X Session) \cup {<<"queue", 0>>}

Held == [p \in Place |->
    CASE p[1] = "stdin"  -> stdin[p[2]]
      [] p[1] = "server" -> IF server[p[2]] \in Serving THEN <<request[p[2]]>> ELSE <<>>
      [] p[1] = "stdout" -> stdout[p[2]]
      [] p[1] = "queue"  -> recv_q]

Owing(m) == m \notin {Notification, EOF}

\* The ids of the answers to be given by the server or on their way to the queue.
Owed(held) == UNION {{held[p][i].id : i \in {j \in DOMAIN held[p] : Owing(held[p][j])}} : p \in Place}

\* As long as no call was given up, a job's report is true: every answer is the
\* one to its own request, a plan succeeds only with an answer to each step in
\* order, a failed one stops at the failure, and a ReAct task succeeds only when
\* its own tool call did.  (execute's loop and its except; ReActAgent.run.)
ReportIsTrue ==
    abandoned = 0 /\ job.kind # "none" =>
        /\ \A k \in DOMAIN answers :
              /\ answers[k].want = job.first + k - 1
              /\ answers[k].got.id = answers[k].want
              /\ answers[k].got.method = job.asks[k].method
        /\ report = "success" => Len(answers) = Len(job.asks)
        /\ report = "success" /\ job.kind = "react" => Effect[job.asks[2].call] = "ok"
        /\ report \in {"failure", "raised"} /\ job.kind = "execute" =>
              Len(answers) < Len(job.asks) /\ next_id = job.first + Len(answers) + 1

\* The call that waits, and what this job's calls returned, as their callers see them.
Waiting  == IF pc = "wait" THEN next_id - 1 ELSE 0
Returned == [k \in DOMAIN answers |-> [want |-> answers[k].want, got |-> answers[k].got.id]]

Remote == INSTANCE RemoteCall WITH
    waiting <- Waiting, outstanding <- Owed(Held), answers <- Returned, givenUp <- abandoned

\* To its callers MCPOrchestrator is RemoteCall: over pipes, reader threads and connections
\* that outlive their server, an answer is returned at most once, only for a call that was
\* made, and to another call than its own only after a call was given up (_recv and _rpc,
\* orchestrator.py:247 and :254).
ImplementsRemoteCall == Remote!Spec

\* "Send a request and wait for the matching response."
MatchingResponse == \A k \in DOMAIN answers : answers[k].got.id = answers[k].want

\* A connection that close() has closed leaves neither process nor thread behind,
\* even when the server is blocked on a full stderr pipe or still owes answers.
ClosedConnectionEnds ==
    \A s \in Session : ~stdinOpen[s] ~> server[s] = "exited" /\ reader[s] = "done"

=============================================================================
