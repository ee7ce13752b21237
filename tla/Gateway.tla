------------------------------ MODULE Gateway ------------------------------
(***************************************************************************)
(* The life of a JSON-RPC request in the gateway: the dispatcher of        *)
(* gateway/app.py, the tools of gateway/service_layer.py with the prompt   *)
(* cache (streams/async_idempotency.py), UnifiedRouter.route               *)
(* (gateway/router.py), the event log, and the way of the answer: over     *)
(* HTTP or through the session stream it was posted for.  Requests run     *)
(* concurrently on one event loop and interleave at their awaits.          *)
(*                                                                         *)
(* A text an LLM wrote is named by the request it was written for and the  *)
(* provider that wrote it.  The other results carry no content.            *)
(***************************************************************************)
EXTENDS EventStreams, LLMRouter, FiniteSets

CONSTANTS
    Req,
    Input,         \* requests clients may send
    Prompt,
    MaxFaults      \* bound on failures of the event log and of Redis

Method == {"discovery", "unknown", "agents/analyze", "agents/other", "tools/call"}
\* echo stands for echo and add; invalid for a PII violation, bad arguments, an
\* unknown tool, and analyse_and_report, whose AgentTask never validates; broken
\* for arguments on which a tool raises anything else.
Tool == {"echo", "invalid", "broken", "kv", "query_knowledge_base", "sampling_demo"}
\* The parameters of agents/analyze: fine, without pdf_path, max_pages no number.
Params == {"fine", "no_path", "no_number"}

\* A text an LLM wrote, and how a request may be answered.
Text == [req : Req, by : Provider]
Answer == {"ok", "isError", "404", "500", "-32001", "-32601", "-32602", "-32603"}

ASSUME GatewayAssumption ==
    /\ Input \subseteq [via : Conn \cup {None}, method : Method, tool : Tool, params : Params,
                        prompt : Prompt, sub : {"user", None}, provider : Name \cup {None}]
    /\ None \notin Text \cup Answer /\ MaxFaults \in Nat

VARIABLES
    r,             \* per request: position, input, handler, text, answer, history
    cache,         \* prompt_cache:*
    hasCache,      \* was a prompt cache configured?
    usage,         \* per request: providers of its token.usage events
    toolLog,       \* per request: its gateway.tool_calls events
    faults

reqVars == <<r, cache, hasCache, usage, toolLog, faults>>
vars == <<conn, queue, delivered, published, posts, r, cache, hasCache, usage, toolLog, faults>>

Init ==
    /\ StreamInit
    /\ r = [q \in Req |-> [pc |-> "new", in |-> None, h |-> 1, text |-> None, resp |-> None,
                           tried |-> <<>>, lost |-> FALSE]]
    /\ cache = [p \in Prompt |-> None]
    /\ hasCache \in BOOLEAN
    /\ usage = [q \in Req |-> <<>>]
    /\ toolLog = [q \in Req |-> 0]
    /\ faults = 0

-----------------------------------------------------------------------------
(* Steps of a request.  "reply" stands for the return through the callers,  *)
(* none of which changes state before the answer is written.                *)

Goto(q, pc) == r' = [r EXCEPT ![q].pc = pc]
Respond(q, resp) == r' = [r EXCEPT ![q].pc = "reply", ![q].resp = resp]

\* An append or a Redis call that fails is logged and swallowed.
Fault == faults < MaxFaults /\ faults' = faults + 1
NoFault == UNCHANGED faults

Authorized(i) == i.sub # None \/ DEV_MODE

Started(i, pc, resp) ==
    [pc |-> pc, in |-> i, h |-> 1, text |-> None, resp |-> resp, tried |-> <<>>, lost |-> FALSE]

\* _agents_dispatch up to its first await.
AgentsDispatch(i) ==
    IF i.method # "agents/analyze" THEN Started(i, "reply", "-32601")
    ELSE CASE i.params = "no_number"          -> Started(i, "reply", "500")
           [] i.params = "no_path"            -> Started(i, "reply", "-32602")
           [] DEV_MODE                        -> Started(i, "reply", "ok")
           [] ~_validate_provider(i.provider) -> Started(i, "reply", "-32602")
           [] OTHER                           -> Started(i, "extract", None)

\* _handle_inner up to its first await.
HandleInner(i) ==
    CASE i.tool = "invalid"       -> Started(i, "reply", "isError")
      [] i.tool = "broken"        -> Started(i, "reply", "-32603")
      [] i.tool = "kv"            -> Started(i, "kv", None)
      [] i.tool = "sampling_demo" -> Started(i, IF hasCache THEN "cache" ELSE "route", None)
      [] OTHER                    -> Started(i, "log", None)

\* Messages a tools/call leaves on the bus before its first await.
Publications(q, i) ==
    IF i.tool = "query_knowledge_base"
    THEN <<[topic |-> "gateway.tool_calls", msg |-> <<"call", q>>],
           [topic |-> "knowledge.retrieved", msg |-> <<"knowledge", q>>]>>
    ELSE <<[topic |-> "gateway.tool_calls", msg |-> <<"call", q>>]>>

\* Both messages of a knowledge query go out in one step of the event loop; they
\* have different topics, so that no subscriber gets more than one.
PublishAll(es) ==
    LET Mine(c) == {k \in DOMAIN es : Subscribed(c, es[k].topic)} IN
    /\ published' = published \o es
    /\ queue' = [c \in Conn |-> IF Mine(c) = {} THEN queue[c]
                                ELSE Append(queue[c], es[CHOOSE k \in Mine(c) : TRUE].msg)]

\* A session id names a stream that has told its client so.
Posted(i) == i.via # None =>
    conn[i.via].kind = "rpc" /\ conn[i.via].phase \in {"handshake", "streaming", "gone"}
UnknownSession(i) == i.via # None /\ ~conn[i.via].registered

\* A request arrives at /mcp, or at /sse/messages for the session i.via:
\* mcp_sse_post and _mcp_dispatch_inner up to the first await.
Arrive(q, i) ==
    /\ r[q].pc = "new" /\ Posted(i)
    /\ \/ /\ UnknownSession(i)
          /\ r' = [r EXCEPT ![q] = Started(i, "done", "404")]
          /\ UNCHANGED <<published, queue>>
       \/ /\ ~UnknownSession(i)
          /\ \/ /\ i.method \in {"discovery", "unknown"}
                /\ r' = [r EXCEPT ![q] =
                       Started(i, "reply", IF i.method = "discovery" THEN "ok" ELSE "-32601")]
                /\ UNCHANGED <<published, queue>>
             \/ /\ i.method \notin {"discovery", "unknown"} /\ ~Authorized(i)
                /\ r' = [r EXCEPT ![q] = Started(i, "reply", "-32001")]
                /\ UNCHANGED <<published, queue>>
             \/ /\ i.method \in {"agents/analyze", "agents/other"} /\ Authorized(i)
                /\ r' = [r EXCEPT ![q] = AgentsDispatch(i)]
                /\ UNCHANGED <<published, queue>>
             \/ /\ i.method = "tools/call" /\ Authorized(i)
                /\ r' = [r EXCEPT ![q] = HandleInner(i)]
                /\ PublishAll(Publications(q, i))
    /\ UNCHANGED <<conn, delivered, posts, cache, hasCache, usage, toolLog, faults>>

\* AsyncIdempotencyGuard.get: a hit returns at once, without an event; an error
\* is a miss.
CacheGet(q) ==
    LET hit == cache[r[q].in.prompt]
    IN  /\ r[q].pc = "cache"
        /\ \/ /\ hit # None
              /\ r' = [r EXCEPT ![q].pc = "reply", ![q].resp = "ok", ![q].text = hit]
              /\ NoFault
           \/ Goto(q, "route") /\ IF hit = None THEN NoFault ELSE Fault
        /\ UNCHANGED <<streamVars, cache, hasCache, usage, toolLog>>

\* The handlers of this request: the gateway's own router, or the analyst's.
Handlers(i) ==
    IF i.method = "tools/call" THEN <<"anthropic", "ollama">> ELSE provider_factory(i.provider)

Tried(q, o) == Append(r[q].tried, <<Handlers(r[q].in)[r[q].h], o>>)

\* How an exception of the router is answered: tools/call reports a ValueError
\* as a result with isError, agents/analyze knows only -32603.
Raised(q, o) == IF o = "ValueError" /\ r[q].in.method = "tools/call" THEN "isError" ELSE "-32603"

\* (mutant) Any exception of a handler makes the router try the next one.
RouteOnward(q) ==
    LET hs == Handlers(r[q].in)
        p == hs[r[q].h]
    IN  /\ r[q].pc = "route"
        /\ \E o \in CallOutcome(p) :
              r' = [r EXCEPT
                     ![q].tried = Tried(q, o),
                     ![q].text = IF o = "ok" THEN [req |-> q, by |-> p] ELSE @,
                     ![q].h = IF o # "ok" /\ @ < Len(hs) THEN @ + 1 ELSE @,
                     ![q].pc = IF o = "ok" THEN IF r[q].in.method = "tools/call" THEN "usage" ELSE "alog"
                               ELSE IF r[q].h < Len(hs) THEN "route" ELSE "reply",
                     ![q].resp = IF o # "ok" /\ r[q].h = Len(hs) THEN "-32603" ELSE @]
        /\ UNCHANGED <<streamVars, cache, hasCache, usage, toolLog, faults>>

\* UnifiedRouter.route: one handler's call.  Only ProviderError moves on to the
\* next handler; the last one is raised.  The analyst's router has no event log.
Route(q) ==
    LET hs == Handlers(r[q].in)
        p == hs[r[q].h]
        o_ok == IF r[q].in.method = "tools/call" THEN "usage" ELSE "alog"
    IN  /\ r[q].pc = "route"
        /\ \E o \in CallOutcome(p) :
              \/ /\ o = "ok"
                 /\ r' = [r EXCEPT ![q].tried = Tried(q, o), ![q].pc = o_ok,
                                   ![q].text = [req |-> q, by |-> p]]
              \/ /\ o = "ProviderError" /\ r[q].h < Len(hs)
                 /\ r' = [r EXCEPT ![q].tried = Tried(q, o), ![q].h = @ + 1]
              \/ /\ o \in {"ValueError", "raises"} \/ r[q].h = Len(hs)
                 /\ o # "ok"
                 /\ r' = [r EXCEPT ![q].tried = Tried(q, o), ![q].pc = "reply", ![q].resp = Raised(q, o)]
        /\ UNCHANGED <<streamVars, cache, hasCache, usage, toolLog, faults>>

\* (mutant) The event is appended although the append was given up.
EmitTwice(q) ==
    /\ r[q].pc = "usage"
    /\ usage' = [usage EXCEPT ![q] = @ \o <<r[q].text.by, r[q].text.by>>]
    /\ Goto(q, IF hasCache THEN "store" ELSE "log") /\ NoFault
    /\ UNCHANGED <<streamVars, cache, hasCache, toolLog>>

\* _emit_token_usage.
EmitTokenUsage(q) ==
    LET next == IF hasCache THEN "store" ELSE "log"
    IN  /\ r[q].pc = "usage"
        /\ \/ usage' = [usage EXCEPT ![q] = Append(@, r[q].text.by)] /\ Goto(q, next) /\ NoFault
           \/ /\ Fault /\ UNCHANGED usage
              /\ r' = [r EXCEPT ![q].pc = next, ![q].lost = TRUE]
        /\ UNCHANGED <<streamVars, cache, hasCache, toolLog>>

\* (mutant) The text is stored under one key for all prompts.
CacheSetAny(q) ==
    /\ r[q].pc = "store"
    /\ cache' = [p \in Prompt |-> r[q].text]
    /\ Goto(q, "log") /\ NoFault
    /\ UNCHANGED <<streamVars, hasCache, usage, toolLog>>

\* AsyncIdempotencyGuard.set.
CacheSet(q) ==
    /\ r[q].pc = "store"
    /\ \/ cache' = [cache EXCEPT ![r[q].in.prompt] = r[q].text] /\ NoFault
       \/ Fault /\ UNCHANGED cache
    /\ Goto(q, "log")
    /\ UNCHANGED <<streamVars, hasCache, usage, toolLog>>

\* A cached answer expires.
Expire(p) ==
    /\ cache[p] # None
    /\ cache' = [cache EXCEPT ![p] = None]
    /\ UNCHANGED <<streamVars, r, hasCache, usage, toolLog, faults>>

\* kv/add_phrase and kv/check_affinity: one Redis call, which may raise.
Kv(q) ==
    /\ r[q].pc = "kv"
    /\ \/ Goto(q, "log") /\ NoFault
       \/ Respond(q, "-32603") /\ Fault
    /\ UNCHANGED <<streamVars, cache, hasCache, usage, toolLog>>

\* (mutant) The append waits for a log that has failed before.
AppendWaits(q) ==
    /\ r[q].pc = "log" /\ faults < MaxFaults
    /\ toolLog' = [toolLog EXCEPT ![q] = @ + 1]
    /\ Respond(q, "ok") /\ NoFault
    /\ UNCHANGED <<streamVars, cache, hasCache, usage>>

\* The event every tool appends before it returns.
AppendToolCall(q) ==
    /\ r[q].pc = "log"
    /\ \/ /\ toolLog' = [toolLog EXCEPT ![q] = @ + 1]
          /\ Respond(q, "ok") /\ NoFault
       \/ /\ Fault /\ UNCHANGED toolLog
          /\ r' = [r EXCEPT ![q].pc = "reply", ![q].resp = "ok", ![q].lost = TRUE]
    /\ UNCHANGED <<streamVars, cache, hasCache, usage>>

\* analyze_document up to the router: the PDF is read in a thread.
Extract(q) ==
    /\ r[q].pc = "extract"
    /\ \/ Goto(q, "route")
       \/ Respond(q, "-32603")
    /\ UNCHANGED <<streamVars, cache, hasCache, usage, toolLog, faults>>

\* The two appends of agents/analyze share one try: when the first fails the
\* second is not made.
AnalyzeEvent(q) ==
    /\ r[q].pc = "alog"
    /\ \/ Goto(q, "ausage") /\ NoFault
       \/ /\ Fault
          /\ r' = [r EXCEPT ![q].pc = "reply", ![q].resp = "ok", ![q].lost = TRUE]
    /\ UNCHANGED <<streamVars, cache, hasCache, usage, toolLog>>

AnalyzeUsage(q) ==
    /\ r[q].pc = "ausage"
    /\ \/ usage' = [usage EXCEPT ![q] = Append(@, r[q].text.by)] /\ Respond(q, "ok") /\ NoFault
       \/ /\ Fault /\ UNCHANGED usage
          /\ r' = [r EXCEPT ![q].pc = "reply", ![q].resp = "ok", ![q].lost = TRUE]
    /\ UNCHANGED <<streamVars, cache, hasCache, toolLog>>

\* (mutant) The answer is put into the queue of every session.
ReplyToAll(q) ==
    /\ r[q].pc = "reply"
    /\ queue' = [c \in Conn |-> IF conn[c].kind = "rpc" THEN Append(queue[c], <<q, r[q].resp>>)
                                ELSE queue[c]]
    /\ Goto(q, "done")
    /\ UNCHANGED <<conn, delivered, published, posts, cache, hasCache, usage, toolLog, faults>>

\* The HTTP answer, or queue.put on the queue looked up on arrival and 202.  An
\* exception of the dispatcher is a 500 and puts nothing.
Reply(q) ==
    /\ r[q].pc = "reply"
    /\ queue' = IF r[q].in.via # None /\ r[q].resp # "500"
                THEN [queue EXCEPT ![r[q].in.via] = Append(@, <<q, r[q].resp>>)] ELSE queue
    /\ Goto(q, "done")
    /\ UNCHANGED <<conn, delivered, published, posts, cache, hasCache, usage, toolLog, faults>>

ReqStep(q) ==
    \/ CacheGet(q) \/ Route(q) \/ EmitTokenUsage(q) \/ CacheSet(q) \/ Kv(q)
    \/ AppendToolCall(q) \/ Extract(q) \/ AnalyzeEvent(q) \/ AnalyzeUsage(q) \/ Reply(q)

Next ==
    \/ StreamStep /\ UNCHANGED reqVars
    \/ \E q \in Req : \/ \E i \in Input : Arrive(q, i)
                      \/ ReqStep(q)
    \/ \E p \in Prompt : Expire(p)

Spec == Init /\ [][Next]_vars

\* The event loop runs every request and every stream that can go on; calls of
\* providers end, by their timeouts if by nothing else.
Fairness ==
    /\ \A q \in Req : WF_vars(ReqStep(q))
    /\ \A c \in Conn : WF_vars((Start(c) \/ EnterLoop(c) \/ Deliver(c)) /\ UNCHANGED reqVars)

FairSpec == Spec /\ Fairness

-----------------------------------------------------------------------------
(* Properties.                                                             *)

\* Every variable has its type.
TypeOK ==
    /\ \A q \in Req :
          /\ r[q].pc \in {"new", "cache", "route", "usage", "store", "kv", "log", "extract",
                          "alog", "ausage", "reply", "done"}
          /\ r[q].in \in Input \cup {None}
          /\ r[q].text \in Text \cup {None}
          /\ r[q].resp \in Answer \cup {None}
          /\ r[q].pc \in {"reply", "done"} <=> r[q].resp # None
          /\ toolLog[q] \in {0, 1}
    /\ cache \in [Prompt -> Text \cup {None}]
    /\ faults \in 0..MaxFaults
    /\ \A c \in Conn : conn[c].phase \in Live \cup {"closed", "gone"}

AnsweredOn(c) ==
    {q \in Req : /\ r[q].pc = "done" /\ r[q].in.via = c
                 /\ r[q].resp \notin {"404", "500"}}

\* The stream of a session carries the answers to the requests posted for that
\* session and accepted with 202, each exactly once, and nothing else, although
\* the requests finish in any order and the client may have gone meanwhile.
SseAnswersOnce ==
    \A c \in Conn : conn[c].kind = "rpc" =>
        LET sent == delivered[c] \o queue[c]
        IN  /\ Len(sent) = Cardinality(AnsweredOn(c))
            /\ \A q \in AnsweredOn(c) : \E k \in DOMAIN sent : sent[k] = <<q, r[q].resp>>

\* One token.usage event for each answer of a provider and none without one,
\* naming the provider that answered; one tool-call event for each tool that
\* ran to its end.  Only a failing log loses one.
Accounted ==
    \A q \in Req :
        /\ usage[q] # <<>> => r[q].text # None /\ r[q].text.req = q /\ usage[q] = <<r[q].text.by>>
        /\ r[q].pc = "done" /\ ~r[q].lost /\ r[q].text # None =>
               (usage[q] # <<>> <=> r[q].text.req = q)
        /\ r[q].pc = "done" /\ ~r[q].lost /\ r[q].resp = "ok" /\ r[q].in.method = "tools/call" =>
               (toolLog[q] = 1 <=> r[q].text = None \/ r[q].text.req = q)

\* Handlers are tried in order and only after a ProviderError of every one
\* before; an answer is that of the last one tried; a request whose handlers
\* all failed that way has tried every one.
FallbackOrder ==
    \A q \in Req : r[q].tried # <<>> =>
        LET t == r[q].tried
            hs == Handlers(r[q].in)
        IN  /\ Len(t) <= Len(hs)
            /\ \A k \in DOMAIN t : t[k][1] = hs[k]
            /\ \A k \in 1..(Len(t) - 1) : t[k][2] = "ProviderError"
            /\ r[q].text # None => t[Len(t)] = <<r[q].text.by, "ok">>
            /\ r[q].resp = "-32603" /\ t[Len(t)][2] = "ProviderError" => Len(t) = Len(hs)

\* What a request cost is accounted for, whichever of several providers was reached and
\* whatever failed after it answered: both of the above, in a well-typed state
\* (router.py:497 and :522).
AccountInv == TypeOK /\ Accounted /\ FallbackOrder

\* A text out of the prompt cache was written for a request of the same method and prompt,
\* whichever of several concurrent misses stored it (service_layer.py:122-135).
CacheSound ==
    \A q \in Req : r[q].text # None =>
        LET w == r[r[q].text.req]
        IN  w.in.method = r[q].in.method /\ w.in.prompt = r[q].in.prompt

\* Every request is answered.
EveryRequestAnswered == \A q \in Req : r[q].pc # "new" ~> r[q].pc = "done"

\* An answer accepted with 202 arrives on the stream, unless the client goes.
AnswerArrives ==
    \A q \in Req, c \in Conn :
        q \in AnsweredOn(c) ~>
            \/ conn[c].phase = "gone"
            \/ \E k \in DOMAIN delivered[c] : delivered[c][k][1] = q
=============================================================================
