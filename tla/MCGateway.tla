----------------------------- MODULE MCGateway -----------------------------
(***************************************************************************)
(* An instance of Gateway for TLC.  A behaviour follows either requests of *)
(* every kind over HTTP, without streams, or a few requests together with  *)
(* the streams: the two meet only in the messages and answers a request    *)
(* puts into queues, which the second side has.  There, requests arrive in *)
(* the order of their names, which are interchangeable, and nothing fails. *)
(***************************************************************************)
EXTENDS Gateway

CONSTANTS c1, c2, p1, p2, q1

VARIABLE side      \* "requests" or "streams"

\* A sampling call of a user over HTTP, and what is varied of it.
Sampling == [via |-> None, method |-> "tools/call", tool |-> "sampling_demo", params |-> "fine",
             prompt |-> p1, sub |-> "user", provider |-> None]
Analyze == [Sampling EXCEPT !.method = "agents/analyze", !.tool = "echo"]

OverHttp ==
    {Sampling, [Sampling EXCEPT !.prompt = p2], [Sampling EXCEPT !.sub = None],
     [Sampling EXCEPT !.tool = "echo"], [Sampling EXCEPT !.tool = "invalid"],
     [Sampling EXCEPT !.tool = "broken"], [Sampling EXCEPT !.tool = "kv"],
     [Sampling EXCEPT !.method = "discovery"], [Sampling EXCEPT !.method = "unknown"],
     [Sampling EXCEPT !.method = "agents/other"],
     Analyze, [Analyze EXCEPT !.provider = "bedrock"], [Analyze EXCEPT !.provider = "openai"],
     [Analyze EXCEPT !.provider = "other"],
     [Analyze EXCEPT !.params = "no_path"]}

WithStreams ==
    {[Sampling EXCEPT !.tool = "query_knowledge_base"],
     [Sampling EXCEPT !.via = c1, !.tool = "echo"],
     [Analyze EXCEPT !.via = c2, !.params = "no_number"],
     [Sampling EXCEPT !.via = c2, !.method = "discovery"]}

MCInput == OverHttp \cup WithStreams

\* c1 and c2 are session streams, or subscribers of different routers.
MCOpens ==
    [c \in Conn |->
        {[kind |-> "rpc", topic |-> None],
         IF c = c1 THEN [kind |-> "legacy", topic |-> "gateway.tool_calls"]
                   ELSE [kind |-> "v1", topic |-> "knowledge.retrieved"]}]

MCInit ==
    /\ Init /\ side \in {"requests", "streams"}
    /\ side = "streams" => ~hasCache

MCNext ==
    /\ UNCHANGED side
    /\ side = "streams" => UNCHANGED faults
    /\ \/ side = "streams" /\ StreamStep /\ UNCHANGED reqVars
       \/ /\ side = "streams"
          /\ \E q \in Req, i \in WithStreams : (q = q1 \/ r[q1].in # None) /\ Arrive(q, i)
       \/ side = "requests" /\ \E q \in Req, i \in OverHttp : Arrive(q, i)
       \/ \E q \in Req : ReqStep(q)
       \/ \E p \in Prompt : Expire(p)

MCSpec == MCInit /\ [][MCNext]_<<vars, side>>
MCFairSpec == MCSpec /\ Fairness
=============================================================================
