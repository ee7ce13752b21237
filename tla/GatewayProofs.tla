--------------------------- MODULE GatewayProofs ---------------------------
(***************************************************************************)
(* Proofs about Gateway: what a request cost is accounted for, a cached    *)
(* text belongs to its prompt, and the stream of a session carries each    *)
(* answer once; for every number of requests, prompts, streams and faults. *)
(***************************************************************************)
EXTENDS Gateway, FiniteSetTheorems, SequenceTheorems, TLAPS

-----------------------------------------------------------------------------
(* The inductive invariant of requests.                                     *)

Pc == {"new", "cache", "route", "usage", "store", "kv", "log", "extract",
       "alog", "ausage", "reply", "done"}

Request ==
    [pc : Pc, in : Input \cup {None}, h : Nat, text : Text \cup {None},
     resp : Answer \cup {None}, tried : Seq(Provider \X HttpOutcome), lost : BOOLEAN]

ReqTypes ==
    /\ r \in [Req -> Request]
    /\ cache \in [Prompt -> Text \cup {None}]
    /\ hasCache \in BOOLEAN
    /\ usage \in [Req -> Seq(Provider)]
    /\ toolLog \in [Req -> {0, 1}]
    /\ faults \in 0..MaxFaults

Ended  == {"reply", "done"}
Stored == {"store", "log"} \cup Ended
Wrote  == {"usage", "alog", "ausage"} \cup Stored

\* Which way a request takes, and that it has an answer when it has ended.
OnItsWay(x) ==
    /\ x.pc # "new" => x.in \in Input
    /\ x.pc \in Ended <=> x.resp # None
    /\ x.pc \in {"cache", "usage", "store", "kv", "log"} => x.in.method = "tools/call"
    /\ x.pc \in {"extract", "alog", "ausage"} => x.in.method = "agents/analyze"
    /\ x.pc = "route" => x.in.method \in {"tools/call", "agents/analyze"}
    /\ x.pc = "reply" => x.resp # "404"

\* What has been tried: nothing yet, every handler so far in vain, or as FallbackOrder says.
InOrder(x) ==
    LET t == x.tried
        hs == Handlers(x.in)
    IN  /\ x.pc \in {"new", "cache", "kv", "extract"} => t = <<>> /\ x.h = 1
        /\ x.pc = "route" =>
              x.h = Len(t) + 1 /\ x.h <= Len(hs) /\ \A k \in 1..Len(t) : t[k][2] = "ProviderError"
        /\ t # <<>> =>
              /\ Len(t) <= Len(hs)
              /\ \A k \in DOMAIN t : t[k][1] = hs[k]
              /\ \A k \in 1..(Len(t) - 1) : t[k][2] = "ProviderError"
              /\ x.text # None => t[Len(t)] = <<x.text.by, "ok">>
              /\ x.resp = "-32603" /\ t[Len(t)][2] = "ProviderError" => Len(t) = Len(hs)

\* What is paid: u are the usage events of request q and n its tool-call events.
Paid(q, x, u, n) ==
    /\ u # <<>> => x.text # None /\ x.text.req = q /\ u = <<x.text.by>>
    /\ x.pc \in {"new", "cache", "route", "kv", "extract"} => x.text = None
    /\ x.pc \in {"usage", "alog", "ausage"} => x.text # None /\ x.text.req = q /\ u = <<>>
    /\ x.pc = "store" => x.text # None
    /\ x.pc \in {"store", "log"} /\ x.text # None => x.text.req = q /\ (x.lost \/ u # <<>>)
    /\ x.pc \notin Ended => n = 0
    /\ x.pc \in Ended /\ ~x.lost /\ x.text # None => (u # <<>> <=> x.text.req = q)
    /\ x.pc \in Ended /\ ~x.lost /\ x.resp = "ok" /\ x.in.method = "tools/call" =>
          (n = 1 <=> x.text = None \/ x.text.req = q)

\* The text of a request was written for its method and prompt, by whoever wrote it.
Backed(x) ==
    x.text # None =>
        LET w == r[x.text.req]
        IN  w.pc \in Wrote /\ w.in.method = x.in.method /\ w.in.prompt = x.in.prompt

\* A cached text was written for its prompt, by a request that is past the cache.
CacheBacked ==
    \A p \in Prompt : cache[p] # None =>
        LET w == r[cache[p].req]
        IN  w.pc \in Stored /\ w.in.method = "tools/call" /\ w.in.prompt = p

Sound(q) ==
    OnItsWay(r[q]) /\ InOrder(r[q]) /\ Paid(q, r[q], usage[q], toolLog[q]) /\ Backed(r[q])

ReqInv == ReqTypes /\ (\A q \in Req : Sound(q)) /\ CacheBacked

-----------------------------------------------------------------------------
(* Requests                                                                 *)

\* A request has one handler or two.
LEMMA HandlersType ==
    ASSUME NEW i \in Input
    PROVE  Handlers(i) \in Seq(Provider) /\ Len(Handlers(i)) \in 1..2
<1>1. i.provider \in Name \cup {None} /\ LLM_PROVIDER \in Name
  BY GatewayAssumption, LLMRouterAssumption
<1>2. Resolved(i.provider) \in Name
  BY <1>1 DEF Resolved
<1>3. "anthropic" \in Provider /\ "ollama" \in Provider
  BY DEF Provider
<1>4. provider_factory(i.provider) \in Seq(Provider) /\ Len(provider_factory(i.provider)) \in 1..2
  BY <1>2, <1>3 DEF provider_factory, Name
<1>. QED
  BY <1>3, <1>4 DEF Handlers

\* A step of one request that leaves the others and the cache, but for an expiry.
Alone(q, y) ==
    /\ r' = [r EXCEPT ![q] = y]
    /\ \A p \in Req \ {q} : usage'[p] = usage[p] /\ toolLog'[p] = toolLog[p]

\* A request that goes on keeps every text backed, its own and those of others.
LEMMA OneRequest ==
    ASSUME ReqInv, ReqTypes', NEW q \in Req, NEW y \in Request, Alone(q, y),
           y.in = r[q].in \/ r[q].pc = "new",
           r[q].pc \in Wrote => y.pc \in Wrote,
           r[q].pc \in Stored => y.pc \in Stored,
           OnItsWay(y), InOrder(y), Paid(q, y, usage'[q], toolLog'[q]), Backed(y)',
           \A p \in Prompt : cache'[p] # None =>
               cache'[p] = cache[p] \/ ( /\ cache'[p].req = q /\ y.pc \in Stored
                                         /\ y.in.method = "tools/call" /\ y.in.prompt = p)
    PROVE  ReqInv'
<1>1. \A p \in Req : r'[p] = IF p = q THEN y ELSE r[p]
  BY DEF Alone, ReqInv, ReqTypes
<1>2. \A p \in Req : /\ r'[p].in = r[p].in \/ r[p].pc = "new"
                     /\ r[p].pc \in Wrote => r'[p].pc \in Wrote
                     /\ r[p].pc \in Stored => r'[p].pc \in Stored
  BY <1>1
<1>3. "new" \notin Wrote /\ "new" \notin Stored
  BY DEF Wrote, Stored, Ended
<1>4. ASSUME NEW p \in Req PROVE Sound(p)'
  <2>1. CASE p = q
    BY <1>1, <2>1 DEF Sound
  <2>2. CASE p # q
    <3>1. r'[p] = r[p] /\ usage'[p] = usage[p] /\ toolLog'[p] = toolLog[p]
      BY <1>1, <2>2 DEF Alone
    <3>2. Sound(p)
      BY DEF ReqInv
    <3>3. OnItsWay(r'[p]) /\ InOrder(r'[p]) /\ Paid(p, r'[p], usage'[p], toolLog'[p])
      BY <3>1, <3>2 DEF Sound
    <3>4. ASSUME r[p].text # None PROVE r[p].text.req \in Req
      BY <3>4 DEF ReqInv, ReqTypes, Request, Text
    <3>5. Backed(r[p])'
      BY <1>2, <1>3, <3>1, <3>2, <3>4 DEF Sound, Backed
    <3>. QED
      BY <3>1, <3>3, <3>5 DEF Sound
  <2>. QED
    BY <2>1, <2>2
<1>5. CacheBacked'
  <2>. SUFFICES ASSUME NEW p \in Prompt, cache'[p] # None
                PROVE  LET w == r'[cache'[p].req]
                       IN  w.pc \in Stored /\ w.in.method = "tools/call" /\ w.in.prompt = p
    BY DEF CacheBacked
  <2>1. ASSUME cache'[p] = cache[p] PROVE cache[p].req \in Req
    BY <2>1 DEF ReqInv, ReqTypes, Text
  <2>2. CASE cache'[p] = cache[p]
    BY <1>2, <1>3, <2>1, <2>2 DEF ReqInv, CacheBacked
  <2>3. CASE cache'[p] # cache[p]
    BY <1>1, <2>3
  <2>. QED
    BY <2>2, <2>3
<1>. QED
  BY <1>4, <1>5 DEF ReqInv

\* Request q with another position and answer; lost when an event of its was.
After(q, z, a, l) == [r[q] EXCEPT !.pc = z, !.resp = a, !.lost = l]

\* Where a step that tries nobody may take request q, and with which answer.
GoesOn(q, z, a) ==
    /\ z \in Pc \ {"new", "cache", "kv", "extract", "route"} /\ a \in Answer \cup {None}
    /\ z \in Ended <=> a # None
    /\ z = "reply" => a # "404"
    /\ r[q].pc # "new"
    /\ r[q].pc \in Stored => z \in Stored
    /\ a = "-32603" => r[q].tried = <<>> \/ r[q].resp = a
    /\ z \in {"usage", "store", "log"} => r[q].in.method = "tools/call"
    /\ z \in {"alog", "ausage"} => r[q].in.method = "agents/analyze"

\* What it leaves of the rest: a text enters the cache only from q, once q has stored it.
Leaves(q, z) ==
    /\ cache' \in [Prompt -> Text \cup {None}]
    /\ \A p \in Prompt : cache'[p] # None =>
           cache'[p] = cache[p] \/ ( /\ cache'[p].req = q /\ z \in Stored
                                     /\ r[q].in.method = "tools/call" /\ r[q].in.prompt = p)
    /\ hasCache' = hasCache /\ faults' \in 0..MaxFaults
    /\ usage' \in [Req -> Seq(Provider)] /\ toolLog' \in [Req -> {0, 1}]

\* A step that tries nobody: the request keeps its input, handler, text and history.
LEMMA NoCall ==
    ASSUME ReqInv, NEW q \in Req, NEW z, NEW a, NEW l \in BOOLEAN,
           Alone(q, After(q, z, a, l)), GoesOn(q, z, a), Leaves(q, z),
           Paid(q, After(q, z, a, l), usage'[q], toolLog'[q])
    PROVE  ReqInv'
<1>1. PICK x \in Request : x = r[q]
  BY DEF ReqInv, ReqTypes
<1>2. PICK y \in Request : y = [x EXCEPT !.pc = z, !.resp = a, !.lost = l]
  BY <1>1 DEF Request, GoesOn
<1>3. /\ y.pc = z /\ y.resp = a /\ y.in = x.in /\ y.text = x.text /\ y.h = x.h
      /\ y.tried = x.tried
  BY <1>2 DEF Request
<1>4. Sound(q) /\ Alone(q, y) /\ Paid(q, y, usage'[q], toolLog'[q])
  BY <1>1, <1>2 DEF ReqInv, After
<1>5. ReqTypes'
  <2>1. r \in [Req -> Request] /\ r' = [r EXCEPT ![q] = y] /\ hasCache \in BOOLEAN
    BY <1>4 DEF ReqInv, ReqTypes, Alone
  <2>2. r' \in [Req -> Request]
    BY ONLY <1>2, <2>1
  <2>. QED
    BY ONLY <2>1, <2>2, Leaves(q, z) DEF ReqTypes, Leaves
<1>6. OnItsWay(y)
  BY <1>1, <1>3, <1>4 DEF Sound, OnItsWay, GoesOn
<1>7. InOrder(y)
  BY <1>1, <1>3, <1>4 DEF Sound, InOrder, Ended, GoesOn
<1>8. Backed(y)'
  <2>. SUFFICES ASSUME y.text # None
                PROVE  LET w == r'[y.text.req]
                       IN  w.pc \in Wrote /\ w.in.method = y.in.method /\ w.in.prompt = y.in.prompt
    BY DEF Backed
  <2>1. x.text.req \in Req
    BY <1>3 DEF Request, Text
  <2>2. z \in Wrote /\ r' = [r EXCEPT ![q] = y]
    BY <1>4 DEF Pc, Wrote, Stored, Ended, Alone, GoesOn
  <2>3. r'[x.text.req].pc \in Wrote /\ r'[x.text.req].in = r[x.text.req].in
    BY <1>1, <1>3, <1>4, <2>1, <2>2 DEF Sound, Backed, ReqInv, ReqTypes
  <2>. QED
    BY <1>1, <1>3, <1>4, <2>3 DEF Sound, Backed
<1>9. y.pc \in Wrote /\ y.in = r[q].in /\ (r[q].pc \in Stored => y.pc \in Stored)
  BY <1>1, <1>3 DEF Pc, Wrote, Stored, Ended, GoesOn
<1>10. \A p \in Prompt : cache'[p] # None =>
          cache'[p] = cache[p] \/ ( /\ cache'[p].req = q /\ y.pc \in Stored
                                    /\ y.in.method = "tools/call" /\ y.in.prompt = p)
  BY <1>1, <1>3 DEF Leaves
<1>. QED
  BY <1>4, <1>5, <1>6, <1>7, <1>8, <1>9, <1>10, OneRequest

\* What a swallowed or a missing failure leaves of the count.
LEMMA FaultType ==
    ASSUME faults \in 0..MaxFaults, Fault \/ NoFault
    PROVE  faults' \in 0..MaxFaults
BY GatewayAssumption DEF Fault, NoFault

\* What the steps below have in common.
LEMMA StepFacts ==
    ASSUME ReqInv, NEW q \in Req
    PROVE  /\ r[q] \in Request /\ Sound(q)
           /\ r[q].resp \in Answer \cup {None} /\ r[q].lost \in BOOLEAN
           /\ r[q].pc \notin Ended => r[q].resp = None /\ toolLog[q] = 0
BY DEF ReqInv, ReqTypes, Request, Sound, OnItsWay, Paid

\* What a request looks like after such a step.
LEMMA AfterIs ==
    ASSUME ReqInv, NEW q \in Req, NEW z, NEW a, NEW l
    PROVE  /\ After(q, z, a, l).pc = z /\ After(q, z, a, l).resp = a
           /\ After(q, z, a, l).lost = l /\ After(q, z, a, l).in = r[q].in
           /\ After(q, z, a, l).text = r[q].text
BY StepFacts DEF Request, After

\* A usage event names the provider that wrote the text.
LEMMA OneEvent ==
    ASSUME ReqTypes, NEW q \in Req, NEW x \in Text, usage[q] = <<>>,
           usage' = [usage EXCEPT ![q] = Append(@, x.by)]
    PROVE  usage' \in [Req -> Seq(Provider)] /\ usage'[q] = <<x.by>>
<1>1. x.by \in Provider
  BY DEF Text
<1>2. Append(usage[q], x.by) = <<x.by>> /\ <<x.by>> \in Seq(Provider)
  BY <1>1
<1>. QED
  BY <1>2 DEF ReqTypes

\* The event of an answer is appended, or lost.
LEMMA EmitTokenUsageInv ==
    ASSUME ReqInv, NEW q \in Req, EmitTokenUsage(q)
    PROVE  ReqInv'
<1>1. r[q].pc = "usage" /\ UNCHANGED <<cache, hasCache, toolLog>>
  BY DEF EmitTokenUsage
<1>2. ReqTypes /\ r[q].text \in Text /\ usage[q] = <<>>
  BY <1>1, StepFacts DEF ReqInv, Sound, Paid, Request
<1>3. faults' \in 0..MaxFaults
  BY <1>2, FaultType DEF EmitTokenUsage, ReqTypes
<1>4. PICK z \in {"store", "log"} : z = IF hasCache THEN "store" ELSE "log"
  OBVIOUS
<1>5. ASSUME usage' = [usage EXCEPT ![q] = Append(@, r[q].text.by)],
             Alone(q, After(q, z, None, r[q].lost))
      PROVE  ReqInv'
  <2>1. usage' \in [Req -> Seq(Provider)] /\ usage'[q] = <<r[q].text.by>>
    BY <1>2, <1>5, OneEvent
  <2>2. Paid(q, After(q, z, None, r[q].lost), usage'[q], toolLog'[q])
    BY <1>1, <1>4, <2>1, StepFacts, AfterIs DEF Sound, Paid, Ended
  <2>3. GoesOn(q, z, None)
    BY <1>1, <1>2, <1>4, StepFacts, GatewayAssumption
       DEF GoesOn, Sound, OnItsWay, Pc, Stored, Ended, Answer
  <2>4. Leaves(q, z)
    BY <1>1, <1>2, <1>3, <1>4, <1>5, <2>1, <2>2 DEF Leaves, ReqTypes, Stored, Ended
  <2>. QED
    BY <1>1, <1>2, <1>3, <1>4, <1>5, <2>1, <2>2, <2>3, <2>4, StepFacts, NoCall
<1>6. ASSUME usage' = usage, Alone(q, After(q, z, None, TRUE))
      PROVE  ReqInv'
  <2>1. usage' \in [Req -> Seq(Provider)] /\ usage'[q] = <<>>
    BY <1>2, <1>6 DEF ReqTypes
  <2>2. Paid(q, After(q, z, None, TRUE), usage'[q], toolLog'[q])
    BY <1>1, <1>4, <2>1, StepFacts, AfterIs DEF Sound, Paid, Ended, After, Request
  <2>3. GoesOn(q, z, None)
    BY <1>1, <1>2, <1>4, StepFacts, GatewayAssumption
       DEF GoesOn, Sound, OnItsWay, Pc, Stored, Ended, Answer
  <2>4. Leaves(q, z)
    BY <1>1, <1>2, <1>3, <1>4, <1>6, <2>1, <2>2 DEF Leaves, ReqTypes, Stored, Ended
  <2>. QED
    BY <1>1, <1>2, <1>3, <1>4, <1>6, <2>1, <2>2, <2>3, <2>4, StepFacts, NoCall
<1>7. \/ /\ usage' = [usage EXCEPT ![q] = Append(@, r[q].text.by)]
         /\ Alone(q, After(q, z, None, r[q].lost))
      \/ usage' = usage /\ Alone(q, After(q, z, None, TRUE))
  <2>1. /\ r[q].resp = None /\ r[q] \in Request
        /\ \A p \in Req \ {q} : toolLog'[p] = toolLog[p]
    BY <1>1, StepFacts DEF Ended
  <2>2. \/ usage' = [usage EXCEPT ![q] = Append(@, r[q].text.by)] /\ r' = [r EXCEPT ![q].pc = z]
        \/ usage' = usage /\ r' = [r EXCEPT ![q].pc = z, ![q].lost = TRUE]
    BY <1>4 DEF EmitTokenUsage, Goto
  <2>3. \A p \in Req \ {q} : usage'[p] = usage[p]
    BY ONLY <1>2, <2>2 DEF ReqTypes
  <2>4. r' = [r EXCEPT ![q].pc = z] => r' = [r EXCEPT ![q] = After(q, z, None, r[q].lost)]
    BY ONLY <1>2, <2>1 DEF ReqTypes, Request, After
  <2>5. r' = [r EXCEPT ![q].pc = z, ![q].lost = TRUE] => r' = [r EXCEPT ![q] = After(q, z, None, TRUE)]
    BY ONLY <1>2, <2>1 DEF ReqTypes, Request, After
  <2>. QED
    BY <2>1, <2>2, <2>3, <2>4, <2>5, Zenon DEF Alone
<1>. QED
  BY <1>5, <1>6, <1>7

\* The event of a tool is appended, or lost.
LEMMA AppendToolCallInv ==
    ASSUME ReqInv, NEW q \in Req, AppendToolCall(q)
    PROVE  ReqInv'
<1>1. r[q].pc = "log" /\ UNCHANGED <<cache, hasCache, usage>>
  BY DEF AppendToolCall
<1>2. ReqTypes /\ toolLog[q] = 0
  BY <1>1, StepFacts DEF ReqInv, Ended
<1>3. faults' \in 0..MaxFaults
  BY <1>2, FaultType DEF AppendToolCall, ReqTypes
<1>4. ASSUME toolLog' = [toolLog EXCEPT ![q] = @ + 1], Alone(q, After(q, "reply", "ok", r[q].lost))
      PROVE  ReqInv'
  <2>1. toolLog' \in [Req -> {0, 1}] /\ toolLog'[q] = 1
    BY <1>2, <1>4 DEF ReqTypes
  <2>2. Paid(q, After(q, "reply", "ok", r[q].lost), usage'[q], toolLog'[q])
    BY <1>1, <2>1, StepFacts, AfterIs DEF Sound, Paid, Ended
  <2>3. GoesOn(q, "reply", "ok")
    BY <1>1, <1>2, StepFacts, GatewayAssumption
       DEF GoesOn, Sound, OnItsWay, Pc, Stored, Ended, Answer
  <2>4. Leaves(q, "reply")
    BY <1>1, <1>2, <1>3, <1>4, <2>1, <2>2 DEF Leaves, ReqTypes, Stored, Ended
  <2>. QED
    BY <1>1, <1>2, <1>3, <1>4, <2>1, <2>2, <2>3, <2>4, StepFacts, NoCall
<1>5. ASSUME toolLog' = toolLog, Alone(q, After(q, "reply", "ok", TRUE))
      PROVE  ReqInv'
  <2>1. Paid(q, After(q, "reply", "ok", TRUE), usage'[q], toolLog'[q])
    BY <1>1, <1>2, <1>5, StepFacts, AfterIs DEF Sound, Paid, Ended, After, Request
  <2>2. GoesOn(q, "reply", "ok")
    BY <1>1, <1>2, StepFacts, GatewayAssumption
       DEF GoesOn, Sound, OnItsWay, Pc, Stored, Ended, Answer
  <2>3. Leaves(q, "reply")
    BY <1>1, <1>2, <1>3, <1>5, <2>1 DEF Leaves, ReqTypes, Stored, Ended
  <2>. QED
    BY <1>1, <1>2, <1>3, <1>5, <2>1, <2>2, <2>3, StepFacts, NoCall
<1>6. \/ toolLog' = [toolLog EXCEPT ![q] = @ + 1] /\ Alone(q, After(q, "reply", "ok", r[q].lost))
      \/ toolLog' = toolLog /\ Alone(q, After(q, "reply", "ok", TRUE))
  BY <1>1, <1>2 DEF AppendToolCall, Respond, ReqTypes, Request, After, Alone
<1>. QED
  BY <1>4, <1>5, <1>6

\* A Redis call is answered, or its failure ends the request.
LEMMA KvInv ==
    ASSUME ReqInv, NEW q \in Req, Kv(q)
    PROVE  ReqInv'
<1>1. r[q].pc = "kv" /\ UNCHANGED <<cache, hasCache, usage, toolLog>>
  BY DEF Kv
<1>2. ReqTypes /\ r[q].tried = <<>> /\ r[q].resp = None
  BY <1>1, StepFacts DEF ReqInv, Sound, InOrder, Ended
<1>3. faults' \in 0..MaxFaults
  BY <1>2, FaultType DEF Kv, ReqTypes
<1>4. ASSUME Alone(q, After(q, "log", None, r[q].lost)) PROVE ReqInv'
  <2>1. Paid(q, After(q, "log", None, r[q].lost), usage'[q], toolLog'[q])
    BY <1>1, StepFacts, AfterIs DEF Sound, Paid, Ended
  <2>2. GoesOn(q, "log", None)
    BY <1>1, <1>2, StepFacts, GatewayAssumption
       DEF GoesOn, Sound, OnItsWay, Pc, Stored, Ended, Answer
  <2>3. Leaves(q, "log")
    BY <1>1, <1>2, <1>3, <1>4, <2>1 DEF Leaves, ReqTypes, Stored, Ended
  <2>. QED
    BY <1>1, <1>2, <1>3, <1>4, <2>1, <2>2, <2>3, StepFacts, NoCall
<1>5. ASSUME Alone(q, After(q, "reply", "-32603", r[q].lost)) PROVE ReqInv'
  <2>1. Paid(q, After(q, "reply", "-32603", r[q].lost), usage'[q], toolLog'[q])
    BY <1>1, StepFacts, AfterIs DEF Sound, Paid, Ended
  <2>2. GoesOn(q, "reply", "-32603")
    BY <1>1, <1>2, StepFacts, GatewayAssumption
       DEF GoesOn, Sound, OnItsWay, Pc, Stored, Ended, Answer
  <2>3. Leaves(q, "reply")
    BY <1>1, <1>2, <1>3, <1>5, <2>1 DEF Leaves, ReqTypes, Stored, Ended
  <2>. QED
    BY <1>1, <1>2, <1>3, <1>5, <2>1, <2>2, <2>3, StepFacts, NoCall
<1>6. Alone(q, After(q, "log", None, r[q].lost)) \/ Alone(q, After(q, "reply", "-32603", r[q].lost))
  BY <1>1, <1>2 DEF Kv, Goto, Respond, ReqTypes, Request, After, Alone
<1>. QED
  BY <1>4, <1>5, <1>6

\* The answer is given back.
LEMMA ReplyInv ==
    ASSUME ReqInv, NEW q \in Req, Reply(q)
    PROVE  ReqInv'
<1>1. r[q].pc = "reply" /\ UNCHANGED <<cache, hasCache, usage, toolLog, faults>>
  BY DEF Reply
<1>2. ReqTypes /\ r[q].resp # None
  BY <1>1, StepFacts DEF ReqInv, Sound, OnItsWay, Ended
<1>3. Alone(q, After(q, "done", r[q].resp, r[q].lost))
  BY <1>1, <1>2 DEF Reply, Goto, ReqTypes, Request, After, Alone
<1>4. Paid(q, After(q, "done", r[q].resp, r[q].lost), usage'[q], toolLog'[q])
  BY <1>1, StepFacts, AfterIs DEF Sound, Paid, Ended
<1>5. GoesOn(q, "done", r[q].resp)
  BY <1>1, <1>2, StepFacts, GatewayAssumption
     DEF GoesOn, Sound, OnItsWay, Pc, Stored, Ended, Answer
<1>6. Leaves(q, "done")
  BY <1>1, <1>2, <1>3, <1>4 DEF Leaves, ReqTypes, Stored, Ended
<1>. QED
  BY <1>1, <1>2, <1>3, <1>4, <1>5, <1>6, StepFacts, NoCall

\* The first event of an analysis is appended; when it is lost the second is not made.
LEMMA AnalyzeEventInv ==
    ASSUME ReqInv, NEW q \in Req, AnalyzeEvent(q)
    PROVE  ReqInv'
<1>1. r[q].pc = "alog" /\ UNCHANGED <<cache, hasCache, usage, toolLog>>
  BY DEF AnalyzeEvent
<1>2. ReqTypes /\ r[q].resp = None /\ r[q].in.method = "agents/analyze"
  BY <1>1, StepFacts DEF ReqInv, Sound, OnItsWay, Ended
<1>3. faults' \in 0..MaxFaults
  BY <1>2, FaultType DEF AnalyzeEvent, ReqTypes
<1>4. ASSUME Alone(q, After(q, "ausage", None, r[q].lost)) PROVE ReqInv'
  <2>1. Paid(q, After(q, "ausage", None, r[q].lost), usage'[q], toolLog'[q])
    BY <1>1, StepFacts, AfterIs DEF Sound, Paid, Ended
  <2>2. GoesOn(q, "ausage", None)
    BY <1>1, <1>2, StepFacts, GatewayAssumption
       DEF GoesOn, Sound, OnItsWay, Pc, Stored, Ended, Answer
  <2>3. Leaves(q, "ausage")
    BY <1>1, <1>2, <1>3, <1>4, <2>1 DEF Leaves, ReqTypes, Stored, Ended
  <2>. QED
    BY <1>1, <1>2, <1>3, <1>4, <2>1, <2>2, <2>3, StepFacts, NoCall
<1>5. ASSUME Alone(q, After(q, "reply", "ok", TRUE)) PROVE ReqInv'
  <2>1. Paid(q, After(q, "reply", "ok", TRUE), usage'[q], toolLog'[q])
    BY <1>1, <1>2, StepFacts, AfterIs DEF Sound, Paid, Ended, After, Request
  <2>2. GoesOn(q, "reply", "ok")
    BY <1>1, <1>2, StepFacts, GatewayAssumption
       DEF GoesOn, Sound, OnItsWay, Pc, Stored, Ended, Answer
  <2>3. Leaves(q, "reply")
    BY <1>1, <1>2, <1>3, <1>5, <2>1 DEF Leaves, ReqTypes, Stored, Ended
  <2>. QED
    BY <1>1, <1>2, <1>3, <1>5, <2>1, <2>2, <2>3, StepFacts, NoCall
<1>6. Alone(q, After(q, "ausage", None, r[q].lost)) \/ Alone(q, After(q, "reply", "ok", TRUE))
  BY <1>1, <1>2 DEF AnalyzeEvent, Goto, ReqTypes, Request, After, Alone
<1>. QED
  BY <1>4, <1>5, <1>6

\* The second one is appended, or lost.
LEMMA AnalyzeUsageInv ==
    ASSUME ReqInv, NEW q \in Req, AnalyzeUsage(q)
    PROVE  ReqInv'
<1>1. r[q].pc = "ausage" /\ UNCHANGED <<cache, hasCache, toolLog>>
  BY DEF AnalyzeUsage
<1>2. /\ ReqTypes /\ r[q].text \in Text /\ usage[q] = <<>>
      /\ r[q].resp = None /\ r[q].in.method = "agents/analyze"
  BY <1>1, StepFacts DEF ReqInv, Sound, OnItsWay, Paid, Ended, Request
<1>3. faults' \in 0..MaxFaults
  BY <1>2, FaultType DEF AnalyzeUsage, ReqTypes
<1>4. ASSUME usage' = [usage EXCEPT ![q] = Append(@, r[q].text.by)],
             Alone(q, After(q, "reply", "ok", r[q].lost))
      PROVE  ReqInv'
  <2>1. usage' \in [Req -> Seq(Provider)] /\ usage'[q] = <<r[q].text.by>>
    BY <1>2, <1>4, OneEvent
  <2>2. Paid(q, After(q, "reply", "ok", r[q].lost), usage'[q], toolLog'[q])
    BY <1>1, <1>2, <2>1, StepFacts, AfterIs DEF Sound, Paid, Ended
  <2>3. GoesOn(q, "reply", "ok")
    BY <1>1, <1>2, StepFacts, GatewayAssumption
       DEF GoesOn, Sound, OnItsWay, Pc, Stored, Ended, Answer
  <2>4. Leaves(q, "reply")
    BY <1>1, <1>2, <1>3, <1>4, <2>1, <2>2 DEF Leaves, ReqTypes, Stored, Ended
  <2>. QED
    BY <1>1, <1>2, <1>3, <1>4, <2>1, <2>2, <2>3, <2>4, StepFacts, NoCall
<1>5. ASSUME usage' = usage, Alone(q, After(q, "reply", "ok", TRUE)) PROVE ReqInv'
  <2>1. usage' \in [Req -> Seq(Provider)] /\ usage'[q] = <<>>
    BY <1>2, <1>5 DEF ReqTypes
  <2>2. Paid(q, After(q, "reply", "ok", TRUE), usage'[q], toolLog'[q])
    BY <1>1, <1>2, <2>1, StepFacts, AfterIs DEF Sound, Paid, Ended, After, Request
  <2>3. GoesOn(q, "reply", "ok")
    BY <1>1, <1>2, StepFacts, GatewayAssumption
       DEF GoesOn, Sound, OnItsWay, Pc, Stored, Ended, Answer
  <2>4. Leaves(q, "reply")
    BY <1>1, <1>2, <1>3, <1>5, <2>1, <2>2 DEF Leaves, ReqTypes, Stored, Ended
  <2>. QED
    BY <1>1, <1>2, <1>3, <1>5, <2>1, <2>2, <2>3, <2>4, StepFacts, NoCall
<1>6. \/ /\ usage' = [usage EXCEPT ![q] = Append(@, r[q].text.by)]
         /\ Alone(q, After(q, "reply", "ok", r[q].lost))
      \/ usage' = usage /\ Alone(q, After(q, "reply", "ok", TRUE))
  BY <1>1, <1>2 DEF AnalyzeUsage, Respond, ReqTypes, Request, After, Alone
<1>. QED
  BY <1>4, <1>5, <1>6

\* The text of the request is stored for its prompt, or the failure is swallowed.
LEMMA CacheSetInv ==
    ASSUME ReqInv, NEW q \in Req, CacheSet(q)
    PROVE  ReqInv'
<1>1. r[q].pc = "store" /\ UNCHANGED <<hasCache, usage, toolLog>>
  BY DEF CacheSet
<1>2. /\ ReqTypes /\ r[q].resp = None /\ r[q].in.method = "tools/call"
      /\ r[q].text \in Text /\ r[q].text.req = q
  BY <1>1, StepFacts DEF ReqInv, Sound, OnItsWay, Paid, Ended, Request
<1>3. faults' \in 0..MaxFaults
  BY <1>2, FaultType DEF CacheSet, ReqTypes
<1>4. Alone(q, After(q, "log", None, r[q].lost))
  BY <1>1, <1>2 DEF CacheSet, Goto, ReqTypes, Request, After, Alone
<1>5. Paid(q, After(q, "log", None, r[q].lost), usage'[q], toolLog'[q])
  BY <1>1, StepFacts, AfterIs DEF Sound, Paid, Ended
<1>6. cache' = [cache EXCEPT ![r[q].in.prompt] = r[q].text] \/ cache' = cache
  BY DEF CacheSet
<1>7. /\ cache' \in [Prompt -> Text \cup {None}]
      /\ \A p \in Prompt : cache'[p] = cache[p] \/ (cache'[p].req = q /\ r[q].in.prompt = p)
  BY <1>2, <1>6 DEF ReqTypes
<1>8. GoesOn(q, "log", None)
  BY <1>1, <1>2, StepFacts, GatewayAssumption
     DEF GoesOn, Sound, OnItsWay, Pc, Stored, Ended, Answer
<1>9. Leaves(q, "log")
  BY <1>1, <1>2, <1>3, <1>4, <1>5, <1>7 DEF Leaves, ReqTypes, Stored, Ended
<1>. QED
  BY <1>1, <1>2, <1>3, <1>4, <1>5, <1>7, <1>8, <1>9, StepFacts, NoCall

\* A request that has neither a text nor a call behind it goes to its first handler.
LEMMA ToRoute ==
    ASSUME ReqInv, NEW q \in Req, r[q].pc \in {"cache", "extract"},
           Alone(q, After(q, "route", None, r[q].lost)), faults' \in 0..MaxFaults,
           UNCHANGED <<cache, hasCache, usage, toolLog>>
    PROVE  ReqInv'
<1>1. PICK y \in Request : y = After(q, "route", None, r[q].lost)
  BY StepFacts DEF Request, After, Pc
<1>2. /\ y.pc = "route" /\ y.resp = None /\ y.in = r[q].in /\ y.text = r[q].text
      /\ y.h = r[q].h /\ y.tried = r[q].tried
  BY <1>1, StepFacts DEF Request, After
<1>3. /\ r[q].in \in Input /\ r[q].tried = <<>> /\ r[q].h = 1 /\ r[q].text = None
      /\ r[q].in.method \in {"tools/call", "agents/analyze"}
  BY StepFacts DEF Sound, OnItsWay, InOrder, Paid
<1>4. OnItsWay(y) /\ Backed(y)'
  BY <1>2, <1>3 DEF OnItsWay, Backed, Ended
<1>5. InOrder(y)
  <2>1. Len(Handlers(y.in)) \in 1..2 /\ y.tried = <<>> /\ y.h = 1 /\ y.pc = "route"
    BY <1>2, <1>3, HandlersType
  <2>2. Len(y.tried) = 0 /\ 1..Len(y.tried) = {} /\ y.h = Len(y.tried) + 1
    BY <2>1
  <2>3. y.h <= Len(Handlers(y.in))
    <3>1. PICK n \in 1..2 : n = Len(Handlers(y.in))
      BY <2>1
    <3>2. 1 <= n
      OBVIOUS
    <3>. QED
      BY <2>1, <3>1, <3>2, Zenon
  <2>4. \A k \in 1..Len(y.tried) : y.tried[k][2] = "ProviderError"
    BY <2>2, Zenon
  <2>. QED
    BY <2>1, <2>2, <2>3, <2>4 DEF InOrder
<1>6. Paid(q, y, usage'[q], toolLog'[q])
  BY <1>2, <1>3, StepFacts DEF Sound, Paid, Ended
<1>7. ReqTypes'
  BY <1>1 DEF ReqInv, ReqTypes, Alone
<1>8. r[q].pc \notin Wrote /\ r[q].pc \notin Stored
  BY DEF Wrote, Stored, Ended
<1>. QED
  BY <1>1, <1>2, <1>4, <1>5, <1>6, <1>7, <1>8, OneRequest

\* The document is read, or not.
LEMMA ExtractInv ==
    ASSUME ReqInv, NEW q \in Req, Extract(q)
    PROVE  ReqInv'
<1>1. r[q].pc = "extract" /\ UNCHANGED <<cache, hasCache, usage, toolLog, faults>>
  BY DEF Extract
<1>2. ReqTypes /\ r[q].tried = <<>> /\ r[q].resp = None
  BY <1>1, StepFacts DEF ReqInv, Sound, InOrder, Ended
<1>3. ASSUME Alone(q, After(q, "reply", "-32603", r[q].lost)) PROVE ReqInv'
  <2>1. Paid(q, After(q, "reply", "-32603", r[q].lost), usage'[q], toolLog'[q])
    BY <1>1, StepFacts, AfterIs DEF Sound, Paid, Ended
  <2>2. GoesOn(q, "reply", "-32603")
    BY <1>1, <1>2, StepFacts, GatewayAssumption
       DEF GoesOn, Sound, OnItsWay, Pc, Stored, Ended, Answer
  <2>3. Leaves(q, "reply")
    BY <1>1, <1>2, <1>3, <2>1 DEF Leaves, ReqTypes, Stored, Ended
  <2>. QED
    BY <1>1, <1>2, <1>3, <2>1, <2>2, <2>3, StepFacts, NoCall
<1>4. Alone(q, After(q, "route", None, r[q].lost)) \/ Alone(q, After(q, "reply", "-32603", r[q].lost))
  BY <1>1, <1>2 DEF Extract, Goto, Respond, ReqTypes, Request, After, Alone
<1>. QED
  BY <1>1, <1>2, <1>3, <1>4, ToRoute DEF ReqTypes

\* A hit takes over the text of another request, a miss goes to the router.
LEMMA CacheGetInv ==
    ASSUME ReqInv, NEW q \in Req, CacheGet(q)
    PROVE  ReqInv'
<1>1. r[q].pc = "cache" /\ UNCHANGED <<cache, hasCache, usage, toolLog>>
  BY DEF CacheGet
<1>2. /\ ReqTypes /\ r[q].tried = <<>> /\ r[q].resp = None /\ r[q].in \in Input
      /\ r[q].in.method = "tools/call" /\ usage[q] = <<>> /\ toolLog[q] = 0 /\ r[q].text = None
  BY <1>1, StepFacts DEF ReqInv, Sound, OnItsWay, InOrder, Paid, Ended
<1>3. faults' \in 0..MaxFaults
  BY <1>2, FaultType DEF CacheGet, ReqTypes
<1>4. r[q].in.prompt \in Prompt
  BY <1>2, GatewayAssumption
<1>5. PICK hit : hit = cache[r[q].in.prompt]
  OBVIOUS
<1>6. ASSUME hit # None, r' = [r EXCEPT ![q] = [r[q] EXCEPT !.pc = "reply", !.resp = "ok", !.text = hit]]
      PROVE  ReqInv'
  <2>1. hit \in Text /\ hit.req \in Req
    BY <1>2, <1>4, <1>5, <1>6 DEF ReqTypes, Text
  <2>2. /\ r[hit.req].pc \in Stored /\ r[hit.req].in.method = "tools/call"
        /\ r[hit.req].in.prompt = r[q].in.prompt
    BY <1>4, <1>5, <1>6 DEF ReqInv, CacheBacked
  <2>3. hit.req # q
    BY <1>1, <2>2 DEF Stored, Ended
  <2>4. PICK y \in Request : y = [r[q] EXCEPT !.pc = "reply", !.resp = "ok", !.text = hit]
    <3>1. r[q] \in Request
      BY StepFacts
    <3>2. [r[q] EXCEPT !.pc = "reply", !.resp = "ok", !.text = hit] \in Request
      BY ONLY <2>1, <3>1 DEF Request, Pc, Answer
    <3>. QED
      BY ONLY <3>2
  <2>5. /\ y.pc = "reply" /\ y.resp = "ok" /\ y.in = r[q].in /\ y.text = hit
        /\ y.tried = <<>>
    BY <1>2, <2>4, StepFacts DEF Request
  <2>6. OnItsWay(y) /\ InOrder(y)
    BY <1>2, <2>5, GatewayAssumption DEF OnItsWay, InOrder, Ended, Answer
  <2>7. Paid(q, y, usage'[q], toolLog'[q])
    BY <1>1, <1>2, <1>6, <2>3, <2>5 DEF Paid, Ended
  <2>8. r'[hit.req] = r[hit.req]
    BY <1>2, <1>6, <2>1, <2>3 DEF ReqTypes
  <2>9. Backed(y)'
    BY <1>2, <2>2, <2>5, <2>8 DEF Backed, Wrote
  <2>10. Alone(q, y) /\ ReqTypes'
    BY <1>1, <1>2, <1>3, <1>6, <2>4 DEF Alone, ReqTypes
  <2>11. r[q].pc \notin Wrote /\ r[q].pc \notin Stored
    BY <1>1 DEF Wrote, Stored, Ended
  <2>12. y.in = r[q].in /\ \A p \in Prompt : cache'[p] = cache[p]
    BY <1>1, <2>5
  <2>. QED
    BY <2>6, <2>7, <2>9, <2>10, <2>11, <2>12, OneRequest
<1>7. \/ hit # None /\ r' = [r EXCEPT ![q] = [r[q] EXCEPT !.pc = "reply", !.resp = "ok", !.text = hit]]
      \/ Alone(q, After(q, "route", None, r[q].lost))
  <2>1. ASSUME Goto(q, "route") PROVE Alone(q, After(q, "route", None, r[q].lost))
    BY <1>1, <1>2, <2>1 DEF Goto, ReqTypes, Request, After, Alone
  <2>. QED
    BY <1>5, <2>1 DEF CacheGet
<1>. QED
  BY <1>1, <1>3, <1>6, <1>7, ToRoute

\* One more call in the history of a request that is at its next handler.
LEMMA OneMoreCall ==
    ASSUME NEW hs \in Seq(Provider), NEW t \in Seq(Provider \X HttpOutcome),
           NEW o \in HttpOutcome, Len(t) + 1 <= Len(hs),
           \A k \in DOMAIN t : t[k][1] = hs[k],
           \A k \in 1..Len(t) : t[k][2] = "ProviderError"
    PROVE  LET t2 == Append(t, <<hs[Len(t) + 1], o>>)
           IN  /\ t2 \in Seq(Provider \X HttpOutcome) /\ t2 # <<>>
               /\ Len(t2) = Len(t) + 1 /\ Len(t2) \in Nat
               /\ \A k \in DOMAIN t2 : t2[k][1] = hs[k]
               /\ \A k \in 1..(Len(t2) - 1) : t2[k][2] = "ProviderError"
               /\ t2[Len(t2)] = <<hs[Len(t) + 1], o>> /\ t2[Len(t2)][2] = o
<1>. DEFINE e == <<hs[Len(t) + 1], o>>
            t2 == Append(t, e)
<1>1. e \in Provider \X HttpOutcome /\ e[1] = hs[Len(t) + 1] /\ e[2] = o
  BY ElementOfSeq, LenProperties
<1>. HIDE DEF e
<1>2. /\ t2 \in Seq(Provider \X HttpOutcome) /\ t2 # <<>> /\ Len(t2) = Len(t) + 1
      /\ \A k \in 1..Len(t) : t2[k] = t[k]
      /\ t2[Len(t) + 1] = e
  BY <1>1, AppendProperties
<1>. HIDE DEF t2
<1>3. /\ Len(t) \in Nat /\ Len(t2) \in Nat /\ DOMAIN t2 = 1..Len(t2) /\ DOMAIN t = 1..Len(t)
  BY <1>2, LenProperties
<1>4. \A k \in DOMAIN t2 : t2[k][1] = hs[k]
  <2>1. ASSUME NEW k \in DOMAIN t2, k # Len(t) + 1 PROVE t2[k][1] = hs[k]
    <3>1. k \in 1..Len(t) /\ k \in DOMAIN t
      BY <1>2, <1>3, <2>1
    <3>. QED
      BY <1>2, <3>1
  <2>2. t2[Len(t) + 1][1] = hs[Len(t) + 1]
    BY <1>1, <1>2
  <2>. QED
    BY <2>1, <2>2
<1>5. \A k \in 1..(Len(t2) - 1) : t2[k][2] = "ProviderError"
  <2>1. Len(t2) - 1 = Len(t)
    BY ONLY <1>2, <1>3
  <2>. QED
    BY <1>2, <2>1
<1>6. t2[Len(t2)] = e /\ t2[Len(t2)][2] = o
  BY <1>1, <1>2
<1>. QED
  BY ONLY <1>2, <1>3, <1>4, <1>5, <1>6, Zenon DEF t2, e

\* A call of a handler: it answers, passes on to the next one, or ends the request.
LEMMA RouteInv ==
    ASSUME ReqInv, NEW q \in Req, Route(q)
    PROVE  ReqInv'
<1>1. r[q].pc = "route" /\ UNCHANGED <<cache, hasCache, usage, toolLog, faults>>
  BY DEF Route
<1>2. PICK x \in Request : x = r[q]
  BY StepFacts
<1>3. /\ ReqTypes /\ x.pc = "route" /\ x.in \in Input /\ x.resp = None /\ x.text = None
      /\ usage[q] = <<>> /\ toolLog[q] = 0 /\ OnItsWay(x) /\ InOrder(x)
  BY <1>1, <1>2, StepFacts DEF ReqInv, Sound, OnItsWay, Paid, Ended
<1>4. PICK hs \in Seq(Provider) : hs = Handlers(x.in)
  BY <1>3, HandlersType
<1>5. PICK t \in Seq(Provider \X HttpOutcome) : t = x.tried
  BY DEF Request
<1>6. /\ x.h = Len(t) + 1 /\ x.h <= Len(hs)
      /\ \A k \in 1..Len(t) : t[k][2] = "ProviderError"
  BY <1>3, <1>4, <1>5 DEF InOrder
<1>7. \A k \in DOMAIN t : t[k][1] = hs[k]
  <2>1. CASE t = <<>>
    BY <2>1
  <2>2. CASE t # <<>>
    BY <1>3, <1>4, <1>5, <2>2 DEF InOrder
  <2>. QED
    BY <2>1, <2>2
<1>8. PICK o \in HttpOutcome :
        \/ /\ o = "ok"
           /\ r' = [r EXCEPT ![q].tried = Tried(q, o),
                             ![q].pc = IF x.in.method = "tools/call" THEN "usage" ELSE "alog",
                             ![q].text = [req |-> q, by |-> hs[x.h]]]
        \/ /\ o = "ProviderError" /\ x.h < Len(hs)
           /\ r' = [r EXCEPT ![q].tried = Tried(q, o), ![q].h = @ + 1]
        \/ /\ o # "ok" /\ (o \in {"ValueError", "raises"} \/ x.h = Len(hs))
           /\ r' = [r EXCEPT ![q].tried = Tried(q, o), ![q].pc = "reply", ![q].resp = Raised(q, o)]
  <2>1. PICK o \in CallOutcome(hs[x.h]) :
          \/ /\ o = "ok"
             /\ r' = [r EXCEPT ![q].tried = Tried(q, o),
                               ![q].pc = IF x.in.method = "tools/call" THEN "usage" ELSE "alog",
                               ![q].text = [req |-> q, by |-> hs[x.h]]]
          \/ /\ o = "ProviderError" /\ x.h < Len(hs)
             /\ r' = [r EXCEPT ![q].tried = Tried(q, o), ![q].h = @ + 1]
          \/ /\ o # "ok" /\ (o \in {"ValueError", "raises"} \/ x.h = Len(hs))
             /\ r' = [r EXCEPT ![q].tried = Tried(q, o), ![q].pc = "reply", ![q].resp = Raised(q, o)]
    BY <1>2, <1>4, Zenon DEF Route
  <2>2. o \in HttpOutcome
    BY DEF CallOutcome, HttpOutcome
  <2>. QED
    BY <2>1, <2>2
<1>9. PICK t2 : t2 = Append(t, <<hs[Len(t) + 1], o>>)
  OBVIOUS
<1>10. Tried(q, o) = t2
  BY <1>2, <1>4, <1>5, <1>6, <1>9 DEF Tried
<1>11. /\ t2 \in Seq(Provider \X HttpOutcome) /\ t2 # <<>>
       /\ Len(t2) = Len(t) + 1 /\ Len(t2) \in Nat /\ Len(t2) <= Len(hs)
       /\ \A k \in DOMAIN t2 : t2[k][1] = hs[k]
       /\ \A k \in 1..(Len(t2) - 1) : t2[k][2] = "ProviderError"
       /\ t2[Len(t2)] = <<hs[x.h], o>> /\ t2[Len(t2)][2] = o
  BY <1>6, <1>7, <1>9, OneMoreCall
<1>12. hs[x.h] \in Provider
  BY <1>6, <1>11, ElementOfSeq
<1>13. r[q].pc \notin Wrote /\ r[q].pc \notin Stored
  BY <1>1 DEF Wrote, Stored, Ended
<1>14. ASSUME NEW y \in Request, r' = [r EXCEPT ![q] = y], y.in = x.in, y.tried = t2,
              OnItsWay(y), InOrder(y), Paid(q, y, <<>>, 0), Backed(y)'
       PROVE  ReqInv'
  <2>1. ReqTypes' /\ Alone(q, y)
    BY <1>1, <1>3, <1>14 DEF ReqTypes, Alone
  <2>. QED
    BY <1>1, <1>2, <1>3, <1>13, <1>14, <2>1, OneRequest
<1>15. CASE /\ o = "ok"
            /\ r' = [r EXCEPT ![q].tried = Tried(q, o),
                              ![q].pc = IF x.in.method = "tools/call" THEN "usage" ELSE "alog",
                              ![q].text = [req |-> q, by |-> hs[x.h]]]
  <2>1. PICK z \in {"usage", "alog"} : z = IF x.in.method = "tools/call" THEN "usage" ELSE "alog"
    OBVIOUS
  <2>2. PICK w \in Text : w = [req |-> q, by |-> hs[x.h]]
    BY <1>12 DEF Text
  <2>3. PICK y \in Request : y = [x EXCEPT !.tried = t2, !.pc = z, !.text = w]
    BY <1>11 DEF Request, Pc
  <2>4. y.pc = z /\ y.in = x.in /\ y.text = w /\ y.tried = t2 /\ y.resp = None
    BY <1>3, <2>3 DEF Request
  <2>5. r' = [r EXCEPT ![q] = y]
    <3>1. r' = [r EXCEPT ![q].tried = t2, ![q].pc = z, ![q].text = w]
      BY <1>10, <1>15, <2>1, <2>2, Zenon
    <3>. QED
      BY <1>2, <1>3, <2>3, <3>1 DEF ReqTypes, Request
  <2>6. OnItsWay(y)
    BY <1>3, <2>1, <2>4 DEF OnItsWay, Ended
  <2>7. InOrder(y)
    BY <1>4, <1>11, <1>15, <2>2, <2>4, GatewayAssumption DEF InOrder, Answer
  <2>8. w # None /\ w.req = q
    BY <2>2, GatewayAssumption
  <2>9. Paid(q, y, <<>>, 0)
    BY <2>4, <2>8 DEF Paid, Ended
  <2>10. r'[q] = y
    BY <1>3, <2>5 DEF ReqTypes
  <2>11. Backed(y)'
    BY <2>4, <2>8, <2>10 DEF Backed, Wrote
  <2>. QED
    BY <1>14, <2>4, <2>5, <2>6, <2>7, <2>9, <2>11
<1>16. CASE /\ o = "ProviderError" /\ x.h < Len(hs)
            /\ r' = [r EXCEPT ![q].tried = Tried(q, o), ![q].h = @ + 1]
  <2>1. PICK y \in Request : y = [x EXCEPT !.tried = t2, !.h = x.h + 1]
    <3>1. x.h + 1 \in Nat
      BY <1>6, <1>11
    <3>. QED
      BY <1>11, <3>1 DEF Request
  <2>2. /\ y.pc = "route" /\ y.in = x.in /\ y.text = None /\ y.tried = t2 /\ y.resp = None
        /\ y.h = x.h + 1
    BY <1>3, <2>1 DEF Request
  <2>3. r' = [r EXCEPT ![q] = y]
    BY <1>2, <1>3, <1>10, <1>16, <2>1 DEF ReqTypes
  <2>4. OnItsWay(y) /\ Backed(y)'
    BY <1>3, <2>2 DEF OnItsWay, Backed, Ended
  <2>5. /\ y.h = Len(t2) + 1 /\ y.h <= Len(hs)
        /\ \A k \in 1..Len(t2) : t2[k][2] = "ProviderError"
    BY <1>6, <1>11, <1>16, <2>2
  <2>6. InOrder(y)
    BY <1>4, <1>11, <2>2, <2>5, GatewayAssumption DEF InOrder, Answer
  <2>7. Paid(q, y, <<>>, 0)
    BY <2>2 DEF Paid, Ended
  <2>. QED
    BY <1>14, <2>2, <2>3, <2>4, <2>6, <2>7
<1>17. CASE /\ o # "ok" /\ (o \in {"ValueError", "raises"} \/ x.h = Len(hs))
            /\ r' = [r EXCEPT ![q].tried = Tried(q, o), ![q].pc = "reply", ![q].resp = Raised(q, o)]
  <2>1. PICK a \in {"isError", "-32603"} : a = Raised(q, o)
    BY DEF Raised
  <2>2. a \in Answer /\ a # None
    BY GatewayAssumption DEF Answer
  <2>3. PICK y \in Request : y = [x EXCEPT !.tried = t2, !.pc = "reply", !.resp = a]
    BY <1>11, <2>2 DEF Request, Pc
  <2>4. y.pc = "reply" /\ y.in = x.in /\ y.text = None /\ y.tried = t2 /\ y.resp = a
    BY <1>3, <2>3 DEF Request
  <2>5. r' = [r EXCEPT ![q] = y]
    BY <1>2, <1>3, <1>10, <1>17, <2>1, <2>3 DEF ReqTypes
  <2>6. OnItsWay(y) /\ Backed(y)'
    BY <1>3, <2>2, <2>4 DEF OnItsWay, Backed, Ended
  <2>7. o = "ProviderError" => Len(t2) = Len(hs)
    BY <1>6, <1>11, <1>17
  <2>8. InOrder(y)
    BY <1>4, <1>11, <2>4, <2>7 DEF InOrder
  <2>9. Paid(q, y, <<>>, 0)
    BY <2>1, <2>4 DEF Paid, Ended
  <2>. QED
    BY <1>14, <2>4, <2>5, <2>6, <2>8, <2>9
<1>. QED
  BY <1>8, <1>15, <1>16, <1>17

\* A request that arrives is refused, answered, or sent on its way.
LEMMA Starts ==
    ASSUME ReqInv, NEW q \in Req, r[q].pc = "new", NEW i \in Input, NEW z \in Pc,
           NEW a \in Answer \cup {None}, r' = [r EXCEPT ![q] = Started(i, z, a)],
           UNCHANGED <<cache, hasCache, usage, toolLog, faults>>,
           z \in {"reply", "done", "cache", "route", "kv", "log", "extract"},
           z \in Ended <=> a # None, z = "reply" => a # "404",
           z \in {"cache", "kv", "log"} => i.method = "tools/call",
           z = "extract" => i.method = "agents/analyze",
           z = "route" => i.method \in {"tools/call", "agents/analyze"},
           a = "ok" => i.method # "tools/call"
    PROVE  ReqInv'
<1>1. PICK y : y = Started(i, z, a)
  OBVIOUS
<1>2. y \in Request
  BY <1>1 DEF Request, Started
<1>3. /\ y.pc = z /\ y.in = i /\ y.h = 1 /\ y.text = None /\ y.resp = a /\ y.tried = <<>>
  BY <1>1 DEF Started
<1>4. usage'[q] = <<>> /\ toolLog'[q] = 0 /\ Paid(q, y, <<>>, 0)
  <2>1. r[q].text = None /\ toolLog[q] = 0 /\ usage[q] = <<>>
    BY StepFacts DEF Sound, Paid, Ended
  <2>. QED
    BY <1>3, <2>1 DEF Paid
<1>5. OnItsWay(y) /\ Backed(y)'
  BY <1>3 DEF OnItsWay, Backed
<1>6. InOrder(y)
  <2>1. PICK n \in 1..2 : n = Len(Handlers(y.in))
    BY <1>3, HandlersType
  <2>2. 1 <= n
    OBVIOUS
  <2>3. y.h <= Len(Handlers(y.in))
    BY <1>3, <2>1, <2>2, Zenon
  <2>4. Len(y.tried) = 0 /\ 1..Len(y.tried) = {} /\ y.h = Len(y.tried) + 1
    BY <1>3
  <2>5. \A k \in 1..Len(y.tried) : y.tried[k][2] = "ProviderError"
    BY <2>4, Zenon
  <2>. QED
    BY <1>3, <2>3, <2>4, <2>5 DEF InOrder
<1>7. ReqTypes' /\ Alone(q, y)
  BY <1>1, <1>2 DEF ReqInv, ReqTypes, Alone
<1>8. r[q].pc \notin Wrote /\ r[q].pc \notin Stored
  BY DEF Wrote, Stored, Ended
<1>. QED
  BY <1>2, <1>4, <1>5, <1>6, <1>7, <1>8, OneRequest

\* Whatever a request asks for.
LEMMA ArriveInv ==
    ASSUME ReqInv, NEW q \in Req, NEW i \in Input, Arrive(q, i)
    PROVE  ReqInv'
<1>1. r[q].pc = "new" /\ UNCHANGED <<cache, hasCache, usage, toolLog, faults>>
  BY DEF Arrive
<1>2. ASSUME NEW a \in Answer, a # "404", a = "ok" => i.method # "tools/call",
             r' = [r EXCEPT ![q] = Started(i, "reply", a)]
      PROVE  ReqInv'
  BY <1>1, <1>2, Starts, GatewayAssumption DEF Pc, Ended
<1>3. ASSUME NEW z \in {"cache", "route", "kv", "log"}, i.method = "tools/call",
             r' = [r EXCEPT ![q] = Started(i, z, None)]
      PROVE  ReqInv'
  BY <1>1, <1>3, Starts, GatewayAssumption DEF Pc, Ended, Answer
<1>4. ASSUME r' = [r EXCEPT ![q] = Started(i, "done", "404")] PROVE ReqInv'
  BY <1>1, <1>4, Starts, GatewayAssumption DEF Pc, Ended, Answer
<1>5. ASSUME i.method = "agents/analyze", r' = [r EXCEPT ![q] = Started(i, "extract", None)]
      PROVE  ReqInv'
  BY <1>1, <1>5, Starts, GatewayAssumption DEF Pc, Ended, Answer
<1>6. {"ok", "-32601", "-32602", "-32603", "-32001", "500", "isError"} \subseteq Answer
  BY DEF Answer
<1>7. CASE r' = [r EXCEPT ![q] = Started(i, "done", "404")]
  BY <1>4, <1>7
<1>8. CASE /\ i.method \in {"discovery", "unknown"}
           /\ r' = [r EXCEPT ![q] =
                  Started(i, "reply", IF i.method = "discovery" THEN "ok" ELSE "-32601")]
  BY <1>2, <1>6, <1>8
<1>9. CASE r' = [r EXCEPT ![q] = Started(i, "reply", "-32001")]
  BY <1>2, <1>6, <1>9
<1>10. CASE /\ i.method \in {"agents/analyze", "agents/other"}
            /\ r' = [r EXCEPT ![q] = AgentsDispatch(i)]
  <2>1. \/ \E a \in {"ok", "-32601", "-32602", "500"} : AgentsDispatch(i) = Started(i, "reply", a)
        \/ i.method = "agents/analyze" /\ AgentsDispatch(i) = Started(i, "extract", None)
    BY DEF AgentsDispatch
  <2>. QED
    BY <1>2, <1>5, <1>6, <1>10, <2>1
<1>11. CASE i.method = "tools/call" /\ r' = [r EXCEPT ![q] = HandleInner(i)]
  <2>1. \/ \E a \in {"isError", "-32603"} : HandleInner(i) = Started(i, "reply", a)
        \/ \E z \in {"cache", "route", "kv", "log"} : HandleInner(i) = Started(i, z, None)
    BY DEF HandleInner
  <2>. QED
    BY <1>2, <1>3, <1>6, <1>11, <2>1
<1>. QED
  BY <1>7, <1>8, <1>9, <1>10, <1>11 DEF Arrive

\* Init establishes the invariant.
LEMMA InitReqInv == Init => ReqInv
<1>. SUFFICES ASSUME Init PROVE ReqInv
  OBVIOUS
<1>1. ReqTypes
  BY GatewayAssumption DEF Init, ReqTypes, Request, Pc
<1>2. ASSUME NEW q \in Req PROVE Sound(q)
  BY GatewayAssumption DEF Init, Sound, OnItsWay, InOrder, Paid, Backed, Ended
<1>3. CacheBacked
  BY DEF Init, CacheBacked
<1>. QED
  BY <1>1, <1>2, <1>3 DEF ReqInv

\* An expiry, or a step of the streams.
LEMMA OtherReqInv ==
    ASSUME ReqInv, (\E p \in Prompt : Expire(p)) \/ UNCHANGED reqVars
    PROVE  ReqInv'
<1>1. UNCHANGED <<r, hasCache, usage, toolLog, faults>>
  BY DEF Expire, reqVars
<1>2. /\ cache' \in [Prompt -> Text \cup {None}]
      /\ \A p \in Prompt : cache'[p] \in {cache[p], None}
  <2>1. CASE UNCHANGED reqVars
    BY <2>1 DEF reqVars, ReqInv, ReqTypes
  <2>2. CASE \E p \in Prompt : Expire(p)
    BY <2>2 DEF Expire, ReqInv, ReqTypes
  <2>. QED
    BY <2>1, <2>2
<1>3. ReqTypes'
  BY <1>1, <1>2 DEF ReqInv, ReqTypes
<1>4. \A q \in Req : Sound(q)'
  BY <1>1 DEF ReqInv, Sound, Backed
<1>5. CacheBacked'
  BY <1>1, <1>2 DEF ReqInv, CacheBacked
<1>. QED
  BY <1>3, <1>4, <1>5 DEF ReqInv

\* Every step keeps the invariant of requests.
LEMMA StepReqInv == ReqInv /\ [Next]_vars => ReqInv'
<1>. SUFFICES ASSUME ReqInv, [Next]_vars PROVE ReqInv'
  OBVIOUS
<1>1. ASSUME NEW q \in Req, ReqStep(q) PROVE ReqInv'
  BY <1>1, CacheGetInv, RouteInv, EmitTokenUsageInv, CacheSetInv, KvInv, AppendToolCallInv,
     ExtractInv, AnalyzeEventInv, AnalyzeUsageInv, ReplyInv DEF ReqStep
<1>2. ASSUME NEW q \in Req, NEW i \in Input, Arrive(q, i) PROVE ReqInv'
  BY <1>2, ArriveInv
<1>3. CASE UNCHANGED reqVars \/ \E p \in Prompt : Expire(p)
  BY <1>3, OtherReqInv
<1>4. UNCHANGED vars => UNCHANGED reqVars
  BY DEF vars, reqVars
<1>. QED
  BY <1>1, <1>2, <1>3, <1>4 DEF Next

\* Every request and the cache are sound in every reachable state.
THEOREM RequestsInvariant == Spec => []ReqInv
BY InitReqInv, StepReqInv, PTL DEF Spec

\* A text out of the prompt cache was written for the same tool and prompt, whichever of
\* several concurrent misses stored it.
THEOREM CachedTextIsSound == Spec => []CacheSound
<1>1. ReqInv => CacheSound
  BY DEF ReqInv, Sound, Backed, CacheSound
<1>. QED
  BY <1>1, RequestsInvariant, PTL

-----------------------------------------------------------------------------
(* Streams                                                                  *)

Message == (Req \X Answer) \cup ({"post"} \X Nat) \cup ({"call", "knowledge"} \X Req)
BusTopic == Topic \cup {"gateway.tool_calls", "knowledge.retrieved"}
Phase == Live \cup {"closed", "gone"}

Event == [topic : BusTopic, msg : Message]

Connection ==
    [kind : Kind \cup {None}, topic : Topic \cup {None}, phase : Phase, registered : BOOLEAN,
     since : Nat]

StreamTypes ==
    /\ conn \in [Conn -> Connection]
    /\ queue \in [Conn -> Seq(Message)]
    /\ delivered \in [Conn -> Seq(Message)]
    /\ published \in Seq(Event)
    /\ posts \in Nat

\* A stream nobody has opened is empty; a session a request was posted for is open or was.
SessionInv ==
    /\ \A c \in Conn : conn[c].phase = "closed" =>
           ~conn[c].registered /\ queue[c] = <<>> /\ delivered[c] = <<>>
    /\ \A q \in Req : r[q].pc # "new" /\ r[q].in.via # None =>
           conn[r[q].in.via].kind = "rpc" /\ conn[r[q].in.via].phase # "closed"

\* What a session has been sent, in order; the answers it has been sent are the ones due.
Sent(c) == delivered[c] \o queue[c]

Balanced(c) ==
    /\ IsFiniteSet(AnsweredOn(c))
    /\ Len(Sent(c)) = Cardinality(AnsweredOn(c))
    /\ \A q \in AnsweredOn(c) : \E k \in DOMAIN Sent(c) : Sent(c)[k] = <<q, r[q].resp>>

SessionsBalanced ==
    \A c \in Conn : conn[c].kind = "rpc" \/ conn[c].phase = "closed" => Balanced(c)

GatewayInv == ReqInv /\ StreamTypes /\ SessionInv /\ SessionsBalanced

\* What a stream has been sent is a sequence of messages.
LEMMA SentType ==
    ASSUME StreamTypes, NEW c \in Conn
    PROVE  Sent(c) \in Seq(Message) /\ DOMAIN Sent(c) = 1..Len(Sent(c))
BY ConcatProperties, LenProperties DEF StreamTypes, Sent

\* ConcatAssociative for what streams carry.
LEMMA MessagesAssociate ==
    \A a, b, d \in Seq(Message) : (a \o b) \o d = a \o (b \o d)
<1>. TAKE a \in Seq(Message), b \in Seq(Message), d \in Seq(Message)
<1>. QED
  BY ConcatAssociative

\* Putting a message into the queue puts it at the end of what is sent.
LEMMA SentMore ==
    ASSUME StreamTypes, NEW c \in Conn, NEW m \in Message
    PROVE  delivered[c] \o Append(queue[c], m) = Append(Sent(c), m)
<1>1. delivered[c] \in Seq(Message) /\ queue[c] \in Seq(Message) /\ <<m>> \in Seq(Message)
  BY DEF StreamTypes
<1>2. Append(queue[c], m) = queue[c] \o <<m>>
  BY <1>1, AppendIsConcat
<1>3. Append(Sent(c), m) = Sent(c) \o <<m>>
  <2>1. PICK s \in Seq(Message) : s = Sent(c)
    BY SentType
  <2>2. Append(s, m) = s \o <<m>>
    BY AppendIsConcat
  <2>. QED
    BY <2>1, <2>2
<1>4. (delivered[c] \o queue[c]) \o <<m>> = delivered[c] \o (queue[c] \o <<m>>)
  BY <1>1, MessagesAssociate, Zenon
<1>. QED
  BY <1>2, <1>3, <1>4, Zenon DEF Sent

\* Delivering the head of the queue changes nothing of what is sent.
LEMMA SentSame ==
    ASSUME StreamTypes, NEW c \in Conn, queue[c] # <<>>
    PROVE  Append(delivered[c], Head(queue[c])) \o Tail(queue[c]) = Sent(c)
<1>1. delivered[c] \in Seq(Message) /\ queue[c] \in Seq(Message)
  BY DEF StreamTypes
<1>2. PICK m \in Message, s \in Seq(Message) : m = Head(queue[c]) /\ s = Tail(queue[c])
  BY <1>1, HeadTailProperties
<1>3. <<m>> \in Seq(Message)
  OBVIOUS
<1>4. queue[c] = <<m>> \o s
  <2>1. <<m>> \o s \in Seq(Message) /\ Len(<<m>> \o s) = Len(queue[c])
    BY <1>1, <1>2, <1>3, ConcatProperties, HeadTailProperties
  <2>2. ASSUME NEW i \in 1..Len(queue[c]) PROVE (<<m>> \o s)[i] = queue[c][i]
    <3>1. Len(s) = Len(queue[c]) - 1 /\ \A k \in 1..Len(s) : s[k] = queue[c][k + 1]
      BY <1>1, <1>2, HeadTailProperties
    <3>2. Len(queue[c]) \in Nat /\ m = queue[c][1]
      BY <1>1, <1>2, LenProperties
    <3>3. Len(<<m>>) = 1 /\ <<m>>[1] = m
      OBVIOUS
    <3>4. i <= Len(<<m>>) + Len(s) /\ i \in 1..(Len(<<m>>) + Len(s))
      BY ONLY <3>1, <3>2, <3>3, i \in 1..Len(queue[c])
    <3>5. (<<m>> \o s)[i] = IF i <= Len(<<m>>) THEN <<m>>[i] ELSE s[i - Len(<<m>>)]
      BY <1>2, <1>3, <3>4, ConcatProperties
    <3>6. CASE i = 1
      BY <3>2, <3>3, <3>5, <3>6
    <3>7. CASE i # 1
      <4>1. i - 1 \in 1..Len(s) /\ (i - 1) + 1 = i /\ ~(i <= 1)
        BY <3>1, <3>2, <3>7
      <4>. QED
        BY <3>1, <3>3, <3>5, <4>1
    <3>. QED
      BY <3>6, <3>7
  <2>. QED
    BY <1>1, <2>1, <2>2, SeqEqual
<1>5. Append(delivered[c], m) = delivered[c] \o <<m>>
  BY <1>1, AppendIsConcat
<1>6. (delivered[c] \o <<m>>) \o s = delivered[c] \o (<<m>> \o s)
  <2>1. \A a, b, d \in Seq(Message) : (a \o b) \o d = a \o (b \o d)
    BY MessagesAssociate, Zenon
  <2>2. PICK a \in Seq(Message) : a = delivered[c]
    BY <1>1
  <2>3. (a \o <<m>>) \o s = a \o (<<m>> \o s)
    BY ONLY <1>3, <2>1, s \in Seq(Message), a \in Seq(Message), Zenon
  <2>. QED
    BY ONLY <2>2, <2>3, Zenon
<1>. QED
  <2>1. Append(delivered[c], Head(queue[c])) \o Tail(queue[c]) = (delivered[c] \o <<m>>) \o s
    BY <1>2, <1>5
  <2>2. Sent(c) = delivered[c] \o (<<m>> \o s)
    BY <1>4 DEF Sent
  <2>. QED
    BY <1>6, <2>1, <2>2

\* A session stays balanced when neither its answers nor what it was sent change.
LEMMA BalancedSame ==
    ASSUME NEW c \in Conn, Balanced(c), AnsweredOn(c)' = AnsweredOn(c),
           \A q \in AnsweredOn(c) : r'[q].resp = r[q].resp, Sent(c)' = Sent(c)
    PROVE  Balanced(c)'
BY DEF Balanced

\* A step of the streams that gives no message to a session and takes none back.
LEMMA StreamOnly ==
    ASSUME GatewayInv, UNCHANGED reqVars, StreamTypes',
           \A c \in Conn :
               /\ conn'[c].kind = conn[c].kind \/ conn[c].phase = "closed"
               /\ conn[c].phase # "closed" => conn'[c].phase # "closed"
               /\ conn[c].kind = "rpc" \/ conn[c].phase = "closed" => Sent(c)' = Sent(c)
               /\ conn'[c].phase = "closed" =>
                      ~conn'[c].registered /\ queue'[c] = <<>> /\ delivered'[c] = <<>>
    PROVE  GatewayInv'
<1>1. ReqInv'
  BY OtherReqInv DEF GatewayInv
<1>2. UNCHANGED r
  BY DEF reqVars
<1>3. SessionInv'
  <2>1. ASSUME NEW q \in Req, r[q].pc # "new", r[q].in.via # None
        PROVE  conn'[r[q].in.via].kind = "rpc" /\ conn'[r[q].in.via].phase # "closed"
    <3>1. r[q].in \in Input
      BY <2>1, StepFacts DEF GatewayInv, Sound, OnItsWay
    <3>2. PICK c \in Conn : c = r[q].in.via
      BY <2>1, <3>1, GatewayAssumption
    <3>3. conn[c].kind = "rpc" /\ conn[c].phase # "closed"
      BY <2>1, <3>2 DEF GatewayInv, SessionInv
    <3>. QED
      BY <3>2, <3>3
  <2>. QED
    BY <1>2, <2>1 DEF SessionInv
<1>4. ASSUME NEW c \in Conn, conn'[c].kind = "rpc" \/ conn'[c].phase = "closed"
      PROVE  Balanced(c)'
  <2>1. conn[c].kind = "rpc" \/ conn[c].phase = "closed"
    BY <1>4
  <2>2. Balanced(c) /\ Sent(c)' = Sent(c)
    BY <2>1 DEF GatewayInv, SessionsBalanced
  <2>3. AnsweredOn(c)' = AnsweredOn(c)
    BY <1>2 DEF AnsweredOn
  <2>. QED
    BY <1>2, <2>2, <2>3, BalancedSame
<1>. QED
  BY <1>1, <1>3, <1>4 DEF GatewayInv, SessionsBalanced

\* Opening, starting and leaving a stream.
LEMMA ConnStep ==
    ASSUME GatewayInv, UNCHANGED reqVars, NEW c \in Conn,
           \/ \E o \in Opens[c] : Open(c, o.kind, o.topic)
           \/ Start(c) \/ EnterLoop(c) \/ Disconnect(c)
    PROVE  GatewayInv'
<1>1. UNCHANGED <<queue, delivered, published, posts>>
  BY DEF Open, Start, EnterLoop, Disconnect
<1>2. StreamTypes /\ SessionInv
  BY DEF GatewayInv
<1>3. PICK y : /\ conn' = [conn EXCEPT ![c] = y]
               /\ y \in Connection
               /\ y.phase # "closed" /\ (y.kind = conn[c].kind \/ conn[c].phase = "closed")
  <2>1. CASE \E o \in Opens[c] : Open(c, o.kind, o.topic)
    <3>1. PICK o \in Opens[c] : Open(c, o.kind, o.topic)
      BY <2>1
    <3>2. o.kind \in Kind /\ o.topic \in Topic \cup {None}
      BY StreamAssumption DEF Kind
    <3>3. Len(published) \in Nat
      BY <1>2, LenProperties DEF StreamTypes
    <3>4. PICK y : y = [kind |-> o.kind, topic |-> o.topic, phase |-> "opened",
                        registered |-> TRUE, since |-> Len(published)]
      OBVIOUS
    <3>5. y \in Connection /\ y.phase # "closed"
      BY <3>2, <3>3, <3>4 DEF Connection, Phase, Live
    <3>6. conn' = [conn EXCEPT ![c] = y] /\ conn[c].phase = "closed"
      BY <3>1, <3>4 DEF Open
    <3>. QED
      BY <3>5, <3>6
  <2>2. ASSUME NEW ph \in Live \cup {"gone"}, NEW b \in BOOLEAN,
               conn' = [conn EXCEPT ![c] = [conn[c] EXCEPT !.phase = ph, !.registered = b]]
        PROVE  \E y : /\ conn' = [conn EXCEPT ![c] = y] /\ y \in Connection
                      /\ y.phase # "closed"
                      /\ (y.kind = conn[c].kind \/ conn[c].phase = "closed")
    <3>1. PICK x \in Connection : x = conn[c]
      BY <1>2 DEF StreamTypes
    <3>2. PICK y : y = [x EXCEPT !.phase = ph, !.registered = b]
      OBVIOUS
    <3>3. y \in Connection /\ y.phase = ph /\ y.kind = x.kind
      BY <3>2 DEF Connection, Phase
    <3>4. conn' = [conn EXCEPT ![c] = y]
      BY <2>2, <3>1, <3>2
    <3>5. ph # "closed"
      BY DEF Live
    <3>. QED
      BY <3>1, <3>3, <3>4, <3>5
  <2>3. ASSUME NEW ph \in Live, conn' = [conn EXCEPT ![c].phase = ph]
        PROVE  \E y : /\ conn' = [conn EXCEPT ![c] = y] /\ y \in Connection
                      /\ y.phase # "closed"
                      /\ (y.kind = conn[c].kind \/ conn[c].phase = "closed")
    <3>1. PICK b \in BOOLEAN : b = conn[c].registered
      BY <1>2 DEF StreamTypes, Connection
    <3>2. conn' = [conn EXCEPT ![c] = [conn[c] EXCEPT !.phase = ph, !.registered = b]]
      BY <1>2, <2>3, <3>1 DEF StreamTypes, Connection
    <3>. QED
      BY <2>2, <3>2
  <2>4. CASE Start(c)
    <3>1. PICK ph \in Live : conn' = [conn EXCEPT ![c].phase = ph]
      BY <2>4, Zenon DEF Start, Live
    <3>. QED
      BY <2>3, <3>1
  <2>5. CASE EnterLoop(c)
    BY <2>3, <2>5 DEF EnterLoop, Live
  <2>6. CASE Disconnect(c)
    <3>1. PICK b \in BOOLEAN : b = (conn[c].phase \notin Guarded(conn[c].kind))
      OBVIOUS
    <3>2. conn' = [conn EXCEPT ![c].phase = "gone", ![c].registered = b]
      BY <2>6, <3>1, Zenon DEF Disconnect
    <3>3. conn' = [conn EXCEPT ![c] = [conn[c] EXCEPT !.phase = "gone", !.registered = b]]
      BY <1>2, <3>2 DEF StreamTypes
    <3>. QED
      BY <2>2, <3>3
  <2>. QED
    BY <2>1, <2>4, <2>5, <2>6
<1>4. StreamTypes'
  BY <1>1, <1>2, <1>3 DEF StreamTypes
<1>5. \A d \in Conn : conn'[d] = IF d = c THEN y ELSE conn[d]
  BY <1>2, <1>3 DEF StreamTypes
<1>6. \A d \in Conn : Sent(d)' = Sent(d)
  BY <1>1 DEF Sent
<1>7. ASSUME NEW d \in Conn
      PROVE  /\ conn'[d].kind = conn[d].kind \/ conn[d].phase = "closed"
             /\ conn[d].phase # "closed" => conn'[d].phase # "closed"
             /\ conn'[d].phase = "closed" =>
                    ~conn'[d].registered /\ queue'[d] = <<>> /\ delivered'[d] = <<>>
  BY <1>1, <1>2, <1>3, <1>5 DEF SessionInv
<1>. QED
  BY <1>4, <1>6, <1>7, StreamOnly

\* A message goes from the queue to the client.
LEMMA DeliverStep ==
    ASSUME GatewayInv, UNCHANGED reqVars, NEW c \in Conn, Deliver(c)
    PROVE  GatewayInv'
<1>1. StreamTypes /\ SessionInv /\ queue[c] # <<>> /\ conn[c].phase = "streaming"
  BY DEF GatewayInv, Deliver
<1>2. Head(queue[c]) \in Message /\ Tail(queue[c]) \in Seq(Message)
  BY <1>1, HeadTailProperties DEF StreamTypes
<1>3. Append(delivered[c], Head(queue[c])) \in Seq(Message)
  BY <1>1, <1>2, AppendProperties DEF StreamTypes
<1>4. /\ delivered' = [delivered EXCEPT ![c] = Append(delivered[c], Head(queue[c]))]
      /\ queue' = [queue EXCEPT ![c] = Tail(queue[c])]
      /\ UNCHANGED <<conn, published, posts>>
  BY DEF Deliver
<1>5. StreamTypes'
  BY <1>1, <1>2, <1>3, <1>4 DEF StreamTypes
<1>6. \A d \in Conn : d # c => delivered'[d] = delivered[d] /\ queue'[d] = queue[d]
  BY <1>1, <1>4 DEF StreamTypes
<1>7. Sent(c)' = Sent(c)
  <2>1. delivered'[c] = Append(delivered[c], Head(queue[c])) /\ queue'[c] = Tail(queue[c])
    BY <1>1, <1>4 DEF StreamTypes
  <2>. QED
    BY <1>1, <2>1, SentSame DEF Sent
<1>8. \A d \in Conn : Sent(d)' = Sent(d)
  BY <1>6, <1>7 DEF Sent
<1>9. ASSUME NEW d \in Conn, conn'[d].phase = "closed"
      PROVE  ~conn'[d].registered /\ queue'[d] = <<>> /\ delivered'[d] = <<>>
  BY <1>1, <1>4, <1>6, <1>9 DEF SessionInv
<1>. QED
  BY <1>4, <1>5, <1>8, <1>9, StreamOnly

\* A message on the bus is none for a session.
LEMMA PublishStep ==
    ASSUME GatewayInv, UNCHANGED reqVars, NEW topic \in Topic, publish_message(topic)
    PROVE  GatewayInv'
<1>1. StreamTypes /\ SessionInv /\ UNCHANGED <<conn, delivered>> /\ posts' = posts + 1
  BY DEF GatewayInv, publish_message
<1>2. PICK m \in Message : m = <<"post", posts'>>
  <2>1. PICK n \in Nat : n = posts'
    BY <1>1 DEF StreamTypes
  <2>2. <<"post", n>> \in Message
    BY DEF Message
  <2>. QED
    BY <2>1, <2>2
<1>3. /\ published' = Append(published, [topic |-> topic, msg |-> m])
      /\ queue' = [c \in Conn |-> IF Subscribed(c, topic) THEN Append(queue[c], m) ELSE queue[c]]
  BY <1>2 DEF publish_message, publish
<1>4. published' \in Seq(Event)
  <2>1. PICK e \in Event : e = [topic |-> topic, msg |-> m]
    BY DEF Event, BusTopic
  <2>. QED
    BY <1>1, <1>3, <2>1, AppendProperties DEF StreamTypes
<1>5. \A c \in Conn : Append(queue[c], m) \in Seq(Message)
  BY <1>1, <1>2, AppendProperties DEF StreamTypes
<1>6. StreamTypes'
  BY <1>1, <1>3, <1>4, <1>5 DEF StreamTypes
<1>7. \A c \in Conn : conn[c].kind = "rpc" \/ conn[c].phase = "closed" => queue'[c] = queue[c]
  BY <1>1, <1>3 DEF Subscribed, SessionInv
<1>8. \A c \in Conn : conn[c].kind = "rpc" \/ conn[c].phase = "closed" => Sent(c)' = Sent(c)
  BY <1>1, <1>7 DEF Sent
<1>. QED
  BY <1>1, <1>6, <1>7, <1>8, StreamOnly DEF SessionInv

\* A step of one request that is no answer on a session leaves what is due.
LEMMA AnsweredSame ==
    ASSUME ReqInv, NEW q \in Req, NEW c \in Conn, r[q].pc # "done",
           \A p \in Req \ {q} : r'[p] = r[p],
           r'[q].pc # "done" \/ r'[q].resp \in {"404", "500"} \/ r'[q].in.via # c
    PROVE  /\ AnsweredOn(c)' = AnsweredOn(c)
           /\ \A p \in AnsweredOn(c) : r'[p].resp = r[p].resp
BY DEF AnsweredOn

\* Between its arrival and its answer a request does nothing to the streams.
LEMMA QuietStep ==
    ASSUME GatewayInv, NEW q \in Req, ReqStep(q), ~Reply(q)
    PROVE  GatewayInv'
<1>1. ReqInv /\ ReqTypes /\ SessionInv /\ SessionsBalanced
  BY DEF GatewayInv, ReqInv
<1>2. UNCHANGED streamVars
  BY DEF ReqStep, CacheGet, Route, EmitTokenUsage, CacheSet, Kv, AppendToolCall, Extract,
         AnalyzeEvent, AnalyzeUsage, streamVars
<1>3. /\ r[q].pc \notin {"new", "done"} /\ r'[q].pc # "done" /\ r'[q].in = r[q].in
      /\ \A p \in Req \ {q} : r'[p] = r[p]
  <2>1. r \in [Req -> Request]
    BY <1>1 DEF ReqTypes
  <2>2. CASE CacheGet(q)
    BY <2>1, <2>2 DEF CacheGet, Goto, Request
  <2>3. CASE Route(q)
    BY <2>1, <2>3 DEF Route, Request
  <2>4. CASE EmitTokenUsage(q)
    BY <2>1, <2>4 DEF EmitTokenUsage, Goto, Request
  <2>5. CASE CacheSet(q)
    BY <2>1, <2>5 DEF CacheSet, Goto, Request
  <2>6. CASE Kv(q)
    BY <2>1, <2>6 DEF Kv, Goto, Respond, Request
  <2>7. CASE AppendToolCall(q)
    BY <2>1, <2>7 DEF AppendToolCall, Respond, Request
  <2>8. CASE Extract(q)
    BY <2>1, <2>8 DEF Extract, Goto, Respond, Request
  <2>9. CASE AnalyzeEvent(q)
    BY <2>1, <2>9 DEF AnalyzeEvent, Goto, Request
  <2>10. CASE AnalyzeUsage(q)
    BY <2>1, <2>10 DEF AnalyzeUsage, Respond, Request
  <2>. QED
    BY <2>2, <2>3, <2>4, <2>5, <2>6, <2>7, <2>8, <2>9, <2>10 DEF ReqStep
<1>4. ReqInv'
  BY <1>1, StepReqInv DEF Next
<1>5. StreamTypes'
  BY <1>2 DEF GatewayInv, StreamTypes, streamVars
<1>6. SessionInv'
  BY <1>1, <1>2, <1>3 DEF SessionInv, streamVars
<1>7. ASSUME NEW c \in Conn, conn'[c].kind = "rpc" \/ conn'[c].phase = "closed"
      PROVE  Balanced(c)'
  <2>1. Balanced(c) /\ Sent(c)' = Sent(c)
    BY <1>1, <1>2, <1>7 DEF SessionsBalanced, Sent, streamVars
  <2>2. /\ AnsweredOn(c)' = AnsweredOn(c)
        /\ \A p \in AnsweredOn(c) : r'[p].resp = r[p].resp
    BY <1>1, <1>3, AnsweredSame
  <2>. QED
    BY <2>1, <2>2, BalancedSame
<1>. QED
  BY <1>4, <1>5, <1>6, <1>7 DEF GatewayInv, SessionsBalanced

\* A request that arrives leaves messages to subscribers, and none to sessions.
LEMMA ArriveStep ==
    ASSUME GatewayInv, NEW q \in Req, NEW i \in Input, Arrive(q, i)
    PROVE  GatewayInv'
<1>1. ReqInv /\ ReqTypes /\ StreamTypes /\ SessionInv /\ SessionsBalanced
  BY DEF GatewayInv, ReqInv
<1>2. UNCHANGED <<conn, delivered, posts>> /\ r[q].pc = "new" /\ Posted(i)
  BY DEF Arrive
<1>3. /\ \A p \in Req \ {q} : r'[p] = r[p]
      /\ r'[q].in = i /\ (r'[q].pc # "done" \/ r'[q].resp = "404")
  <2>1. \E z \in Pc, a \in Answer \cup {None} :
            r' = [r EXCEPT ![q] = Started(i, z, a)] /\ (z # "done" \/ a = "404")
    <3>1. {"reply", "done", "extract", "kv", "cache", "route", "log"} \subseteq Pc
      BY DEF Pc
    <3>2. {"404", "ok", "500", "isError", "-32001", "-32601", "-32602", "-32603"} \subseteq Answer
      BY DEF Answer
    <3>3. \E z \in Pc, a \in Answer \cup {None} : AgentsDispatch(i) = Started(i, z, a) /\ z # "done"
      BY <3>1, <3>2 DEF AgentsDispatch
    <3>4. \E z \in Pc, a \in Answer \cup {None} : HandleInner(i) = Started(i, z, a) /\ z # "done"
      BY <3>1, <3>2 DEF HandleInner
    <3>5. \/ r' = [r EXCEPT ![q] = Started(i, "done", "404")]
          \/ r' = [r EXCEPT ![q] = Started(i, "reply", "ok")]
          \/ r' = [r EXCEPT ![q] = Started(i, "reply", "-32601")]
          \/ r' = [r EXCEPT ![q] = Started(i, "reply", "-32001")]
          \/ r' = [r EXCEPT ![q] = AgentsDispatch(i)]
          \/ r' = [r EXCEPT ![q] = HandleInner(i)]
      BY DEF Arrive
    <3>6. ASSUME NEW z \in Pc, NEW a \in Answer, r' = [r EXCEPT ![q] = Started(i, z, a)],
                 z # "done" \/ a = "404"
          PROVE  \E y \in Pc, b \in Answer \cup {None} :
                     r' = [r EXCEPT ![q] = Started(i, y, b)] /\ (y # "done" \/ b = "404")
      BY <3>6
    <3>7. CASE r' = [r EXCEPT ![q] = AgentsDispatch(i)]
      BY <3>3, <3>7
    <3>8. CASE r' = [r EXCEPT ![q] = HandleInner(i)]
      BY <3>4, <3>8
    <3>9. CASE r' = [r EXCEPT ![q] = Started(i, "done", "404")]
      BY <3>1, <3>2, <3>6, <3>9
    <3>10. CASE r' = [r EXCEPT ![q] = Started(i, "reply", "ok")]
      BY <3>1, <3>2, <3>6, <3>10
    <3>11. CASE r' = [r EXCEPT ![q] = Started(i, "reply", "-32601")]
      BY <3>1, <3>2, <3>6, <3>11
    <3>12. CASE r' = [r EXCEPT ![q] = Started(i, "reply", "-32001")]
      BY <3>1, <3>2, <3>6, <3>12
    <3>. QED
      BY <3>5, <3>7, <3>8, <3>9, <3>10, <3>11, <3>12
  <2>. QED
    BY <1>1, <2>1 DEF ReqTypes, Started
<1>4. (UNCHANGED <<published, queue>>) \/ PublishAll(Publications(q, i))
  BY DEF Arrive
<1>5. PICK es \in Seq(Event) : es = Publications(q, i)
  <2>1. <<"call", q>> \in Message /\ <<"knowledge", q>> \in Message
    BY DEF Message
  <2>2. PICK e \in Event, f \in Event :
          /\ e = [topic |-> "gateway.tool_calls", msg |-> <<"call", q>>]
          /\ f = [topic |-> "knowledge.retrieved", msg |-> <<"knowledge", q>>]
    BY <2>1 DEF Event, BusTopic
  <2>3. Publications(q, i) = <<e, f>> \/ Publications(q, i) = <<e>>
    BY <2>2 DEF Publications
  <2>4. <<e, f>> \in Seq(Event) /\ <<e>> \in Seq(Event)
    OBVIOUS
  <2>. QED
    BY <2>3, <2>4
<1>6. /\ published' \in Seq(Event)
      /\ queue' \in [Conn -> Seq(Message)]
      /\ \A c \in Conn : ~conn[c].registered \/ conn[c].kind = "rpc" => queue'[c] = queue[c]
  <2>1. CASE UNCHANGED <<published, queue>>
    BY <1>1, <2>1 DEF StreamTypes
  <2>2. CASE PublishAll(Publications(q, i))
    <3>. DEFINE Mine(c) == {k \in DOMAIN es : Subscribed(c, es[k].topic)}
                More(c) == IF Mine(c) = {} THEN queue[c]
                           ELSE Append(queue[c], es[CHOOSE k \in Mine(c) : TRUE].msg)
    <3>1. published' = published \o es /\ queue' = [c \in Conn |-> More(c)]
      BY <1>5, <2>2 DEF PublishAll
    <3>2. published' \in Seq(Event)
      BY <1>1, <3>1, ConcatProperties DEF StreamTypes
    <3>3. ASSUME NEW c \in Conn PROVE More(c) \in Seq(Message)
      <4>1. queue[c] \in Seq(Message)
        BY <1>1 DEF StreamTypes
      <4>2. CASE Mine(c) = {}
        BY <4>1, <4>2
      <4>3. CASE Mine(c) # {}
        <5>1. PICK k \in Mine(c) : k = CHOOSE j \in Mine(c) : TRUE
          <6>. HIDE DEF Mine
          <6>. QED
            BY <4>3, Zenon
        <5>2. k \in 1..Len(es)
          BY LenProperties
        <5>3. es[k].msg \in Message
          <6>1. PICK e \in Event : e = es[k]
            BY <5>2, ElementOfSeq
          <6>. QED
            BY <6>1 DEF Event
        <5>. QED
          BY <4>1, <4>3, <5>1, <5>3, AppendProperties
      <4>. QED
        BY <4>2, <4>3
    <3>4. ASSUME NEW c \in Conn, ~conn[c].registered \/ conn[c].kind = "rpc"
          PROVE  More(c) = queue[c]
      <4>1. Mine(c) = {}
        BY <3>4 DEF Subscribed
      <4>. QED
        BY <4>1
    <3>. HIDE DEF More
    <3>. QED
      BY <3>1, <3>2, <3>3, <3>4
  <2>. QED
    BY <1>4, <2>1, <2>2
<1>7. ReqInv'
  BY <1>1, ArriveInv
<1>8. StreamTypes'
  BY <1>1, <1>2, <1>6 DEF StreamTypes
<1>9. SessionInv'
  BY <1>1, <1>2, <1>3, <1>6 DEF SessionInv, Posted
<1>10. ASSUME NEW c \in Conn, conn'[c].kind = "rpc" \/ conn'[c].phase = "closed"
       PROVE  Balanced(c)'
  <2>1. Balanced(c) /\ Sent(c)' = Sent(c)
    BY <1>1, <1>2, <1>6, <1>10 DEF SessionsBalanced, SessionInv, Sent
  <2>2. /\ AnsweredOn(c)' = AnsweredOn(c)
        /\ \A p \in AnsweredOn(c) : r'[p].resp = r[p].resp
    BY <1>1, <1>2, <1>3, AnsweredSame
  <2>. QED
    BY <2>1, <2>2, BalancedSame
<1>. QED
  BY <1>7, <1>8, <1>9, <1>10 DEF GatewayInv, SessionsBalanced

\* An answer goes to the session its request was posted for, and to no other.
LEMMA ReplyStep ==
    ASSUME GatewayInv, NEW q \in Req, Reply(q)
    PROVE  GatewayInv'
<1>1. /\ ReqInv /\ ReqTypes /\ StreamTypes /\ SessionInv /\ SessionsBalanced
      /\ r[q].pc = "reply" /\ UNCHANGED <<conn, delivered, published, posts>>
  BY DEF GatewayInv, ReqInv, Reply
<1>2. /\ r[q].resp \in Answer /\ r[q].resp # "404" /\ r[q].in \in Input
  BY <1>1, StepFacts DEF Sound, OnItsWay, Ended
<1>3. PICK m \in Message : m = <<q, r[q].resp>>
  BY <1>2 DEF Message
<1>4. /\ \A p \in Req \ {q} : r'[p] = r[p]
      /\ r'[q].pc = "done" /\ r'[q].in = r[q].in /\ r'[q].resp = r[q].resp
  BY <1>1 DEF Reply, Goto, ReqTypes, Request
<1>5. ReqInv'
  BY <1>1, ReplyInv
<1>6. PICK v \in Conn \cup {None} : v = r[q].in.via
  BY <1>2, GatewayAssumption
<1>7. CASE v # None /\ r[q].resp # "500"
  <2>1. /\ v \in Conn /\ conn[v].kind = "rpc" /\ conn[v].phase # "closed"
        /\ queue' = [queue EXCEPT ![v] = Append(queue[v], m)]
    BY <1>1, <1>3, <1>6, <1>7 DEF SessionInv, Reply
  <2>2. Append(queue[v], m) \in Seq(Message)
    BY <1>1, <2>1, AppendProperties DEF StreamTypes
  <2>3. queue' \in [Conn -> Seq(Message)] /\ queue'[v] = Append(queue[v], m)
    BY <1>1, <2>1, <2>2 DEF StreamTypes
  <2>4. \A c \in Conn \ {v} : queue'[c] = queue[c]
    BY <1>1, <2>1 DEF StreamTypes
  <2>5. StreamTypes'
    BY <1>1, <2>3 DEF StreamTypes
  <2>6. SessionInv'
    BY <1>1, <1>4, <2>1, <2>4 DEF SessionInv
  <2>7. ASSUME NEW c \in Conn \ {v}, conn'[c].kind = "rpc" \/ conn'[c].phase = "closed"
        PROVE  Balanced(c)'
    <3>1. Balanced(c) /\ Sent(c)' = Sent(c)
      BY <1>1, <2>4, <2>7 DEF SessionsBalanced, Sent
    <3>2. /\ AnsweredOn(c)' = AnsweredOn(c)
          /\ \A p \in AnsweredOn(c) : r'[p].resp = r[p].resp
      BY <1>1, <1>4, <1>6, AnsweredSame
    <3>. QED
      BY <3>1, <3>2, BalancedSame
  <2>8. Balanced(v)'
    <3>1. PICK s \in Seq(Message) : s = Sent(v)
      BY <1>1, <2>1, SentType
    <3>2. Sent(v)' = Append(s, m)
      BY <1>1, <2>1, <2>3, <3>1, SentMore DEF Sent
    <3>3. /\ Len(Append(s, m)) = Len(s) + 1 /\ DOMAIN Append(s, m) = 1..Len(s) + 1
          /\ DOMAIN s = 1..Len(s) /\ Len(s) \in Nat
          /\ \A k \in 1..Len(s) : Append(s, m)[k] = s[k]
          /\ Append(s, m)[Len(s) + 1] = m
      BY AppendProperties, LenProperties
    <3>4. AnsweredOn(v)' = AnsweredOn(v) \cup {q} /\ q \notin AnsweredOn(v)
      BY <1>1, <1>2, <1>4, <1>6, <1>7 DEF AnsweredOn
    <3>5. Balanced(v)
      BY <1>1, <2>1 DEF SessionsBalanced
    <3>6. IsFiniteSet(AnsweredOn(v)') /\ Cardinality(AnsweredOn(v)') = Cardinality(AnsweredOn(v)) + 1
      BY <3>4, <3>5, FS_AddElement DEF Balanced
    <3>7. Len(Append(s, m)) = Cardinality(AnsweredOn(v)')
      BY <3>1, <3>3, <3>5, <3>6 DEF Balanced
    <3>8. ASSUME NEW p \in AnsweredOn(v)'
          PROVE  \E k \in DOMAIN Append(s, m) : Append(s, m)[k] = <<p, r'[p].resp>>
      <4>1. CASE p = q
        <5>1. Append(s, m)[Len(s) + 1] = <<p, r'[p].resp>> /\ Len(s) + 1 \in DOMAIN Append(s, m)
          BY <1>3, <1>4, <3>3, <4>1
        <5>. QED
          BY <5>1
      <4>2. CASE p # q
        <5>1. p \in AnsweredOn(v) /\ r'[p] = r[p]
          BY <1>4, <3>4, <4>2 DEF AnsweredOn
        <5>2. PICK k \in DOMAIN s : s[k] = <<p, r[p].resp>>
          BY <3>1, <3>5, <5>1 DEF Balanced
        <5>3. k \in DOMAIN Append(s, m) /\ Append(s, m)[k] = <<p, r'[p].resp>>
          BY <3>3, <5>1, <5>2
        <5>. QED
          BY <5>3
      <4>. QED
        BY <4>1, <4>2
    <3>. QED
      BY <3>2, <3>6, <3>7, <3>8 DEF Balanced
  <2>9. SessionsBalanced'
    BY <2>7, <2>8 DEF SessionsBalanced
  <2>. QED
    BY <1>5, <2>5, <2>6, <2>9 DEF GatewayInv
<1>8. CASE v = None \/ r[q].resp = "500"
  <2>1. queue' = queue
    BY <1>6, <1>8 DEF Reply
  <2>2. StreamTypes' /\ SessionInv'
    <3>1. StreamTypes'
      BY <1>1, <2>1 DEF StreamTypes
    <3>2. ASSUME NEW p \in Req, r'[p].pc # "new", r'[p].in.via # None
          PROVE  conn[r'[p].in.via].kind = "rpc" /\ conn[r'[p].in.via].phase # "closed"
      <4>1. r[p].pc # "new" /\ r'[p].in = r[p].in
        BY <1>1, <1>4, <3>2
      <4>. QED
        BY <1>1, <3>2, <4>1 DEF SessionInv
    <3>. QED
      BY <1>1, <2>1, <3>1, <3>2 DEF SessionInv
  <2>3. ASSUME NEW c \in Conn, conn'[c].kind = "rpc" \/ conn'[c].phase = "closed"
        PROVE  Balanced(c)'
    <3>1. Balanced(c) /\ Sent(c)' = Sent(c)
      BY <1>1, <2>1, <2>3 DEF SessionsBalanced, Sent
    <3>2. v # c \/ r[q].resp = "500"
      BY <1>8, StreamAssumption
    <3>3. /\ AnsweredOn(c)' = AnsweredOn(c)
          /\ \A p \in AnsweredOn(c) : r'[p].resp = r[p].resp
      BY <1>1, <1>4, <1>6, <3>2, AnsweredSame
    <3>. QED
      BY <3>1, <3>3, BalancedSame
  <2>. QED
    BY <1>5, <2>2, <2>3 DEF GatewayInv, SessionsBalanced
<1>. QED
  BY <1>7, <1>8

\* Init establishes the invariant.
LEMMA InitGatewayInv == Init => GatewayInv
<1>. SUFFICES ASSUME Init PROVE GatewayInv
  OBVIOUS
<1>1. /\ \A c \in Conn : /\ queue[c] = <<>> /\ delivered[c] = <<>> /\ conn[c].phase = "closed"
                         /\ ~conn[c].registered
      /\ \A q \in Req : r[q].pc = "new"
  BY DEF Init, StreamInit
<1>2. StreamTypes
  <2>1. <<>> \in Seq(Message) /\ <<>> \in Seq(Event)
    OBVIOUS
  <2>2. [kind |-> None, topic |-> None, phase |-> "closed", registered |-> FALSE, since |-> 0]
           \in Connection
    BY DEF Connection, Phase
  <2>. QED
    BY <2>1, <2>2 DEF Init, StreamInit, StreamTypes
<1>3. SessionInv
  BY <1>1 DEF SessionInv
<1>4. ASSUME NEW c \in Conn PROVE Balanced(c)
  <2>1. AnsweredOn(c) = {}
    BY <1>1 DEF AnsweredOn
  <2>2. Sent(c) = <<>> /\ Len(Sent(c)) = 0
    <3>1. <<>> \in Seq(Message) /\ Len(<<>>) = 0
      BY EmptySeq
    <3>2. <<>> \o <<>> = <<>>
      BY <3>1, ConcatEmptySeq
    <3>. QED
      BY <1>1, <3>1, <3>2, Zenon DEF Sent
  <2>. QED
    BY <2>1, <2>2, FS_EmptySet DEF Balanced
<1>. QED
  BY <1>2, <1>3, <1>4, InitReqInv DEF GatewayInv, SessionsBalanced

\* Every step keeps it.
LEMMA StepGatewayInv == GatewayInv /\ [Next]_vars => GatewayInv'
<1>. SUFFICES ASSUME GatewayInv, [Next]_vars PROVE GatewayInv'
  OBVIOUS
<1>1. CASE StreamStep /\ UNCHANGED reqVars
  BY <1>1, ConnStep, DeliverStep, PublishStep DEF StreamStep
<1>2. ASSUME NEW q \in Req, NEW i \in Input, Arrive(q, i) PROVE GatewayInv'
  BY <1>2, ArriveStep
<1>3. ASSUME NEW q \in Req, ReqStep(q) PROVE GatewayInv'
  BY <1>3, QuietStep, ReplyStep
<1>4. ASSUME UNCHANGED streamVars, UNCHANGED r, ReqInv' PROVE GatewayInv'
  <2>1. StreamTypes' /\ SessionInv'
    BY <1>4 DEF GatewayInv, StreamTypes, SessionInv, streamVars
  <2>2. ASSUME NEW c \in Conn, Balanced(c) PROVE Balanced(c)'
    BY <1>4, <2>2 DEF Balanced, AnsweredOn, Sent, streamVars
  <2>. QED
    BY <1>4, <2>1, <2>2 DEF GatewayInv, SessionsBalanced, streamVars
<1>5. CASE UNCHANGED vars \/ \E p \in Prompt : Expire(p)
  <2>1. ReqInv'
    BY <1>5, OtherReqInv DEF GatewayInv, vars, reqVars
  <2>2. UNCHANGED streamVars /\ UNCHANGED r
    BY <1>5 DEF vars, Expire, streamVars
  <2>. QED
    BY <1>4, <2>1, <2>2
<1>. QED
  BY <1>1, <1>2, <1>3, <1>5 DEF Next

\* Requests, streams and sessions are sound in every reachable state.
THEOREM GatewayInvariant == Spec => []GatewayInv
BY InitGatewayInv, StepGatewayInv, PTL DEF Spec

\* The stream of a session carries the answers to its requests, each exactly once, in
\* whatever order they finish and whenever the client goes (mcp_sse_post).
THEOREM SessionsAnswerOnce == Spec => []SseAnswersOnce
<1>1. GatewayInv => SseAnswersOnce
  BY DEF GatewayInv, SessionsBalanced, Balanced, Sent, SseAnswersOnce
<1>. QED
  BY <1>1, GatewayInvariant, PTL

\* What a request cost is accounted for, whichever of several providers was reached and
\* whatever failed after it answered (UnifiedRouter.route and _emit_token_usage).
THEOREM CostIsAccounted == Spec => []AccountInv
<1>1. ASSUME GatewayInv PROVE AccountInv
  <2>1. ReqInv /\ ReqTypes /\ StreamTypes
    BY <1>1 DEF GatewayInv, ReqInv
  <2>2. TypeOK
    <3>1. ASSUME NEW q \in Req
          PROVE  /\ r[q].pc \in Pc /\ r[q].in \in Input \cup {None}
                 /\ r[q].text \in Text \cup {None} /\ r[q].resp \in Answer \cup {None}
                 /\ r[q].pc \in Ended <=> r[q].resp # None
                 /\ toolLog[q] \in {0, 1}
      BY <2>1, StepFacts DEF ReqTypes, Request, Sound, OnItsWay
    <3>2. \A c \in Conn : conn[c].phase \in Live \cup {"closed", "gone"}
      BY <2>1 DEF StreamTypes, Connection, Phase
    <3>. QED
      BY <2>1, <3>1, <3>2 DEF TypeOK, ReqTypes, Pc, Ended
  <2>3. Accounted
    BY <2>1, StepFacts DEF Accounted, Sound, Paid, Ended
  <2>4. FallbackOrder
    BY <2>1, StepFacts DEF FallbackOrder, Sound, InOrder
  <2>. QED
    BY <2>2, <2>3, <2>4 DEF AccountInv
<1>. QED
  BY <1>1, GatewayInvariant, PTL

-----------------------------------------------------------------------------
(* Fan-out: what a subscriber has been sent is what was published for it.   *)

Subscriber(c) == conn[c].kind \in {"legacy", "v1"} /\ conn[c].phase \in Live

FannedOut(c) ==
    Subscriber(c) => /\ conn[c].registered
                     /\ conn[c].since <= Len(published)
                     /\ Carries(Sent(c), published, conn[c].since, conn[c].topic)

FanOutInv == \A c \in Conn : FannedOut(c)

\* The messages of a topic in a part of a history are finitely many.
LEMMA DueIsFinite ==
    ASSUME NEW h \in Seq(Event), NEW n \in Nat, NEW topic
    PROVE  /\ IsFiniteSet(Due(h, n, topic)) /\ Cardinality(Due(h, n, topic)) \in Nat
           /\ Due(h, n, topic) \subseteq n + 1..Len(h)
<1>1. Len(h) \in Nat
  BY LenProperties
<1>2. ASSUME NEW a \in Int, NEW b \in Int PROVE IsFiniteSet(a..b)
  BY FS_Interval
<1>3. IsFiniteSet(n + 1..Len(h))
  BY <1>1, <1>2
<1>4. Due(h, n, topic) \subseteq n + 1..Len(h)
  BY DEF Due
<1>. QED
  BY <1>3, <1>4, FS_Subset, FS_CardinalityType

\* One more message in the history and, if it is on the topic, for the subscriber.
LEMMA CarriesMore ==
    ASSUME NEW h \in Seq(Event), NEW e \in Event, NEW n \in Nat, n <= Len(h), NEW topic,
           NEW got \in Seq(Message), Carries(got, h, n, topic)
    PROVE  Carries(IF e.topic = topic THEN Append(got, e.msg) ELSE got, Append(h, e), n, topic)
<1>. DEFINE D == Due(h, n, topic)
            E == Due(Append(h, e), n, topic)
            last == Len(h) + 1
<1>1. /\ Len(h) \in Nat /\ Len(Append(h, e)) = last /\ Append(h, e)[last] = e
      /\ \A i \in 1..Len(h) : Append(h, e)[i] = h[i]
  BY AppendProperties, LenProperties
<1>2. IsFiniteSet(D) /\ Cardinality(D) \in Nat /\ D \subseteq n + 1..Len(h)
  BY DueIsFinite
<1>3. E = IF e.topic = topic THEN D \cup {last} ELSE D
  <2>1. \A i \in n + 1..last : i = last \/ i \in n + 1..Len(h)
    BY <1>1
  <2>2. \A i \in n + 1..Len(h) : i \in 1..Len(h) /\ i # last
    BY <1>1
  <2>3. last \in n + 1..last /\ n + 1..Len(h) \subseteq n + 1..last
    BY <1>1
  <2>. QED
    BY <1>1, <2>1, <2>2, <2>3 DEF Due
<1>4. Len(got) = Cardinality(D) /\ \A i \in D : got[Cardinality({k \in D : k <= i})] = h[i].msg
  BY DEF Carries
<1>5. ASSUME NEW i \in D
      PROVE  /\ {k \in E : k <= i} = {k \in D : k <= i}
             /\ Cardinality({k \in D : k <= i}) \in 1..Len(got)
             /\ Append(h, e)[i] = h[i]
  <2>. DEFINE B == {k \in D : k <= i}
  <2>1. i \in n + 1..Len(h) /\ ~(last <= i)
    BY <1>1, <1>2
  <2>2. {k \in E : k <= i} = B
    BY <1>3, <2>1
  <2>3. B \subseteq D /\ i \in B
    BY <1>2
  <2>. HIDE DEF B
  <2>4. IsFiniteSet(B) /\ Cardinality(B) <= Cardinality(D) /\ Cardinality(B) \in Nat
    BY <1>2, <2>3, FS_Subset, FS_CardinalityType
  <2>5. Cardinality(B) # 0
    BY <2>3, <2>4, FS_EmptySet
  <2>6. Cardinality(B) \in 1..Len(got)
    BY <1>2, <1>4, <2>4, <2>5
  <2>7. Append(h, e)[i] = h[i]
    BY <1>1, <2>1
  <2>. QED
    BY <2>2, <2>6, <2>7 DEF B
<1>6. CASE e.topic # topic
  <2>. HIDE DEF D, E
  <2>1. E = D
    BY <1>3, <1>6
  <2>2. \A i \in E : got[Cardinality({k \in E : k <= i})] = Append(h, e)[i].msg
    BY <1>4, <1>5, <2>1
  <2>3. Carries(got, Append(h, e), n, topic)
    BY <1>4, <2>1, <2>2 DEF Carries, E
  <2>. QED
    BY <1>6, <2>3
<1>7. CASE e.topic = topic
  <2>1. E = D \cup {last} /\ last \notin D
    BY <1>1, <1>2, <1>3, <1>7
  <2>2. e.msg \in Message
    BY DEF Event
  <2>3. /\ Len(Append(got, e.msg)) = Len(got) + 1
        /\ \A i \in 1..Len(got) : Append(got, e.msg)[i] = got[i]
        /\ Append(got, e.msg)[Len(got) + 1] = e.msg
    BY <2>2, AppendProperties
  <2>. HIDE DEF D, E
  <2>4. Cardinality(E) = Cardinality(D) + 1
    BY <1>2, <2>1, FS_AddElement
  <2>5. ASSUME NEW i \in D
        PROVE  Append(got, e.msg)[Cardinality({k \in E : k <= i})] = Append(h, e)[i].msg
    BY <1>4, <1>5, <2>3
  <2>6. {k \in E : k <= last} = E
    <3>1. \A k \in D : k <= last
      BY <1>1, <1>2
    <3>. QED
      BY <1>1, <2>1, <3>1
  <2>7. Append(got, e.msg)[Cardinality({k \in E : k <= last})] = Append(h, e)[last].msg
    BY <1>1, <1>4, <2>3, <2>4, <2>6
  <2>8. \A i \in E : Append(got, e.msg)[Cardinality({k \in E : k <= i})] = Append(h, e)[i].msg
    BY <2>1, <2>5, <2>7
  <2>9. Carries(Append(got, e.msg), Append(h, e), n, topic)
    BY <1>4, <2>3, <2>4, <2>8 DEF Carries, E
  <2>. QED
    BY <1>7, <2>9
<1>. QED
  BY <1>6, <1>7

\* A stream is fanned out to as before when neither it nor the history changes.
LEMMA FannedOutSame ==
    ASSUME NEW c \in Conn, FannedOut(c), Sent(c)' = Sent(c), published' = published,
           Subscriber(c)' => /\ Subscriber(c) /\ conn'[c].registered = conn[c].registered
                             /\ conn'[c].since = conn[c].since /\ conn'[c].topic = conn[c].topic
    PROVE  FannedOut(c)'
<1>. SUFFICES ASSUME Subscriber(c)' PROVE FannedOut(c)'
  BY DEF FannedOut
<1>1. Carries(Sent(c), published, conn[c].since, conn[c].topic)
  BY DEF FannedOut
<1>2. Carries(Sent(c)', published', conn'[c].since, conn'[c].topic)
  BY <1>1
<1>3. conn'[c].registered /\ conn'[c].since <= Len(published')
  BY DEF FannedOut
<1>. QED
  BY <1>2, <1>3 DEF FannedOut

\* One message on the bus reaches exactly the subscribers of its topic.
LEMMA OneMessageOut ==
    ASSUME StreamTypes, NEW c \in Conn, FannedOut(c), Subscriber(c), NEW e \in Event
    PROVE  LET got == IF Subscribed(c, e.topic) THEN Append(Sent(c), e.msg) ELSE Sent(c)
           IN  /\ Carries(got, Append(published, e), conn[c].since, conn[c].topic)
               /\ conn[c].since <= Len(Append(published, e))
               /\ Subscribed(c, e.topic) <=> e.topic = conn[c].topic
<1>1. /\ conn[c].registered /\ conn[c].since <= Len(published)
      /\ Carries(Sent(c), published, conn[c].since, conn[c].topic)
  BY DEF FannedOut
<1>2. Subscribed(c, e.topic) <=> e.topic = conn[c].topic
  BY <1>1 DEF Subscribed, Subscriber
<1>3. conn[c].since \in Nat /\ published \in Seq(Event) /\ Sent(c) \in Seq(Message)
  BY SentType DEF StreamTypes, Connection
<1>4. Carries(IF e.topic = conn[c].topic THEN Append(Sent(c), e.msg) ELSE Sent(c),
              Append(published, e), conn[c].since, conn[c].topic)
  BY <1>1, <1>3, CarriesMore
<1>5. conn[c].since <= Len(Append(published, e))
  <2>1. Len(Append(published, e)) = Len(published) + 1 /\ Len(published) \in Nat
    BY <1>3, AppendProperties, LenProperties
  <2>. QED
    BY <1>1, <1>3, <2>1
<1>. QED
  BY <1>2, <1>4, <1>5


\* Opening and closing streams, and delivering to them, keeps the fan-out.
LEMMA ConnFanOut ==
    ASSUME GatewayInv, FanOutInv, NEW c \in Conn,
           \/ \E o \in Opens[c] : Open(c, o.kind, o.topic)
           \/ Start(c) \/ EnterLoop(c) \/ Disconnect(c)
    PROVE  FanOutInv'
<1>1. StreamTypes /\ SessionInv /\ UNCHANGED <<queue, delivered, published>>
  BY DEF GatewayInv, Open, Start, EnterLoop, Disconnect
<1>2. \A d \in Conn : Sent(d)' = Sent(d)
  BY <1>1 DEF Sent
<1>3. ASSUME NEW d \in Conn, d # c PROVE FannedOut(d)'
  <2>1. conn'[d] = conn[d]
    BY <1>1, <1>3 DEF Open, Start, EnterLoop, Disconnect, StreamTypes
  <2>. QED
    BY <1>1, <1>2, <2>1, FannedOutSame DEF FanOutInv, Subscriber
<1>4. ASSUME NEW o \in Opens[c], Open(c, o.kind, o.topic) PROVE FannedOut(c)'
  <2>1. /\ conn[c].phase = "closed" /\ conn \in [Conn -> Connection]
        /\ conn' = [conn EXCEPT ![c] = [kind |-> o.kind, topic |-> o.topic, phase |-> "opened",
                                        registered |-> TRUE, since |-> Len(published)]]
    BY <1>1, <1>4 DEF Open, StreamTypes
  <2>2. conn'[c].registered /\ conn'[c].since = Len(published)
    BY <2>1
  <2>3. Sent(c)' = <<>>
    <3>1. <<>> \o <<>> = <<>>
      BY EmptySeq, ConcatEmptySeq
    <3>2. queue[c] = <<>> /\ delivered[c] = <<>>
      BY <1>1, <2>1 DEF SessionInv
    <3>. QED
      BY <1>1, <3>1, <3>2, Zenon DEF Sent
  <2>4. Len(published) \in Nat
    BY <1>1, LenProperties DEF StreamTypes
  <2>5. Due(published, Len(published), conn'[c].topic) = {}
    BY <2>4 DEF Due
  <2>6. Carries(<<>>, published, Len(published), conn'[c].topic)
    <3>1. Len(<<>>) = 0 /\ Cardinality({}) = 0
      BY FS_EmptySet
    <3>. QED
      BY <2>5, <3>1 DEF Carries
  <2>. QED
    BY <1>1, <2>2, <2>3, <2>4, <2>6 DEF FannedOut
<1>5. ASSUME Start(c) \/ EnterLoop(c) \/ Disconnect(c) PROVE FannedOut(c)'
  <2>1. Subscriber(c)' => /\ Subscriber(c) /\ conn'[c].registered = conn[c].registered
                          /\ conn'[c].since = conn[c].since /\ conn'[c].topic = conn[c].topic
    <3>1. PICK x \in Connection : x = conn[c]
      BY <1>1 DEF StreamTypes
    <3>2. CASE Start(c) \/ EnterLoop(c)
      <4>1. PICK ph \in Live : conn' = [conn EXCEPT ![c].phase = ph]
        BY <3>2, Zenon DEF Start, EnterLoop, Live
      <4>2. conn'[c] = [x EXCEPT !.phase = ph]
        BY <1>1, <3>1, <4>1 DEF StreamTypes
      <4>3. /\ conn'[c].kind = x.kind /\ conn'[c].registered = x.registered
            /\ conn'[c].since = x.since /\ conn'[c].topic = x.topic
        BY <3>1, <4>2 DEF Connection
      <4>4. x.phase \in Live
        BY <3>1, <3>2 DEF Start, EnterLoop, Live
      <4>. QED
        BY <3>1, <4>3, <4>4 DEF Subscriber
    <3>3. CASE Disconnect(c)
      <4>1. conn'[c].phase = "gone"
        BY <1>1, <3>3 DEF Disconnect, StreamTypes, Connection
      <4>. QED
        BY <4>1 DEF Subscriber, Live
    <3>. QED
      BY <1>5, <3>2, <3>3
  <2>. QED
    BY <1>1, <1>2, <2>1, FannedOutSame DEF FanOutInv
<1>. QED
  BY <1>3, <1>4, <1>5 DEF FanOutInv

\* A step that leaves streams and history alone, but for answers to sessions and
\* deliveries, keeps the fan-out.
LEMMA SameFanOut ==
    ASSUME FanOutInv, UNCHANGED <<conn, published>>,
           \A c \in Conn : Subscriber(c) => Sent(c)' = Sent(c)
    PROVE  FanOutInv'
<1>. SUFFICES ASSUME NEW c \in Conn PROVE FannedOut(c)'
  BY DEF FanOutInv
<1>1. CASE Subscriber(c)
  BY <1>1, FannedOutSame DEF FanOutInv, Subscriber
<1>2. CASE ~Subscriber(c)
  <2>1. ~Subscriber(c)'
    BY <1>2 DEF Subscriber
  <2>. QED
    BY <2>1 DEF FannedOut
<1>. QED
  BY <1>1, <1>2

\* The messages of a request: one for every subscriber of their topics.
LEMMA ArriveFanOut ==
    ASSUME GatewayInv, FanOutInv, NEW q \in Req, NEW i \in Input, Arrive(q, i)
    PROVE  FanOutInv'
<1>1. StreamTypes /\ UNCHANGED <<conn, delivered>>
  BY DEF GatewayInv, Arrive
<1>2. CASE UNCHANGED <<published, queue>>
  <2>1. \A c \in Conn : Sent(c)' = Sent(c)
    BY <1>1, <1>2 DEF Sent
  <2>. QED
    BY <1>1, <1>2, <2>1, SameFanOut
<1>3. CASE PublishAll(Publications(q, i))
  <2>1. PICK e \in Event, f \in Event :
          /\ e = [topic |-> "gateway.tool_calls", msg |-> <<"call", q>>]
          /\ f = [topic |-> "knowledge.retrieved", msg |-> <<"knowledge", q>>]
    <3>1. <<"call", q>> \in Message /\ <<"knowledge", q>> \in Message
      BY DEF Message
    <3>. QED
      BY <3>1 DEF Event, BusTopic
  <2>2. PICK es : es = Publications(q, i) /\ (es = <<e, f>> \/ es = <<e>>)
    BY <2>1 DEF Publications
  <2>. DEFINE Mine(c) == {k \in DOMAIN es : Subscribed(c, es[k].topic)}
  <2>3. /\ published' = published \o es
        /\ queue' = [c \in Conn |-> IF Mine(c) = {} THEN queue[c]
                                    ELSE Append(queue[c], es[CHOOSE k \in Mine(c) : TRUE].msg)]
    BY <1>3, <2>2 DEF PublishAll
  <2>4. e.topic # f.topic /\ e.msg \in Message /\ f.msg \in Message
    BY <2>1 DEF Event
  <2>5. ASSUME NEW c \in Conn, Subscriber(c) PROVE FannedOut(c)'
    <3>1. FannedOut(c)
      BY DEF FanOutInv
    <3>. DEFINE g1 == IF Subscribed(c, e.topic) THEN Append(Sent(c), e.msg) ELSE Sent(c)
                h1 == Append(published, e)
    <3>2. /\ Carries(g1, h1, conn[c].since, conn[c].topic)
          /\ conn[c].since <= Len(h1)
          /\ Subscribed(c, e.topic) <=> e.topic = conn[c].topic
      BY <1>1, <2>5, <3>1, OneMessageOut
    <3>3. /\ published \in Seq(Event) /\ Sent(c) \in Seq(Message) /\ conn[c].since \in Nat
          /\ conn[c].registered
      BY <1>1, <2>5, <3>1, SentType DEF StreamTypes, Connection, FannedOut
    <3>4. g1 \in Seq(Message) /\ h1 \in Seq(Event)
      BY <2>4, <3>3, AppendProperties
    <3>5. CASE es = <<e>>
      <4>1. published' = h1
        BY <2>3, <3>3, <3>5, AppendIsConcat
      <4>2. Sent(c)' = g1
        <5>1. CASE Subscribed(c, e.topic)
          <6>1. Mine(c) = {1}
            BY <3>5, <5>1
          <6>2. queue'[c] = Append(queue[c], e.msg)
            <7>1. queue'[c] = Append(queue[c], es[CHOOSE k \in {1} : TRUE].msg)
              BY <2>3, <6>1
            <7>2. (CHOOSE k \in {1} : TRUE) = 1
              OBVIOUS
            <7>. QED
              BY <3>5, <7>1, <7>2
          <6>3. delivered[c] \o Append(queue[c], e.msg) = Append(Sent(c), e.msg)
            BY <1>1, <2>4, SentMore
          <6>. QED
            BY <1>1, <5>1, <6>2, <6>3 DEF Sent
        <5>2. CASE ~Subscribed(c, e.topic)
          <6>1. Mine(c) = {}
            BY <3>5, <5>2
          <6>2. queue'[c] = queue[c]
            BY <2>3, <6>1
          <6>. QED
            BY <1>1, <5>2, <6>2 DEF Sent
        <5>. QED
          BY <5>1, <5>2
      <4>. HIDE DEF g1, h1
      <4>. QED
        BY <1>1, <3>2, <3>3, <4>1, <4>2 DEF FannedOut
    <3>6. CASE es = <<e, f>>
      <4>. DEFINE g2 == IF f.topic = conn[c].topic THEN Append(g1, f.msg) ELSE g1
                  h2 == Append(h1, f)
      <4>. HIDE DEF g1, h1
      <4>1. Carries(g2, h2, conn[c].since, conn[c].topic)
        BY <3>2, <3>3, <3>4, CarriesMore
      <4>2. Len(h2) = Len(h1) + 1 /\ Len(h1) \in Nat
        BY <3>4, AppendProperties, LenProperties
      <4>3. conn[c].since <= Len(h2)
        BY <3>2, <3>3, <4>2
      <4>4. published' = h2
        <5>1. <<e>> \in Seq(Event) /\ <<f>> \in Seq(Event) /\ <<e, f>> = <<e>> \o <<f>>
          <6>1. <<e>> \in Seq(Event) /\ <<f>> \in Seq(Event)
            OBVIOUS
          <6>2. <<e, f>> = Append(<<e>>, f)
            OBVIOUS
          <6>3. Append(<<e>>, f) = <<e>> \o <<f>>
            BY <6>1, AppendIsConcat
          <6>. QED
            BY <6>1, <6>2, <6>3
        <5>2. h1 = published \o <<e>>
          BY <3>3, AppendIsConcat DEF h1
        <5>3. h2 = h1 \o <<f>>
          BY <3>4, AppendIsConcat
        <5>4. (published \o <<e>>) \o <<f>> = published \o (<<e>> \o <<f>>)
          BY <3>3, <5>1, ConcatAssociative
        <5>. QED
          BY <2>3, <3>6, <5>1, <5>2, <5>3, <5>4
      <4>5. Subscribed(c, f.topic) <=> f.topic = conn[c].topic
        BY <2>5, <3>3 DEF Subscribed, Subscriber
      <4>6. Sent(c)' = g2
        <5>1. ASSUME NEW k \in {1, 2}, Mine(c) = {k}
              PROVE  Sent(c)' = Append(Sent(c), es[k].msg)
          <6>1. es[k].msg \in Message
            BY <2>4, <3>6, <5>1
          <6>2. queue'[c] = Append(queue[c], es[CHOOSE j \in {k} : TRUE].msg)
            BY <2>3, <5>1
          <6>3. (CHOOSE j \in {k} : TRUE) = k
            OBVIOUS
          <6>4. delivered[c] \o Append(queue[c], es[k].msg) = Append(Sent(c), es[k].msg)
            BY <1>1, <6>1, SentMore
          <6>. QED
            BY <1>1, <6>2, <6>3, <6>4 DEF Sent
        <5>2. CASE e.topic = conn[c].topic
          <6>1. Mine(c) = {1} /\ f.topic # conn[c].topic
            BY <2>4, <3>2, <3>6, <4>5, <5>2
          <6>. QED
            BY <3>2, <3>6, <5>1, <5>2, <6>1 DEF g1
        <5>3. CASE f.topic = conn[c].topic
          <6>1. Mine(c) = {2} /\ e.topic # conn[c].topic
            BY <2>4, <3>2, <3>6, <4>5, <5>3
          <6>. QED
            BY <3>2, <3>6, <5>1, <5>3, <6>1 DEF g1
        <5>4. CASE e.topic # conn[c].topic /\ f.topic # conn[c].topic
          <6>1. Mine(c) = {}
            BY <3>2, <3>6, <4>5, <5>4
          <6>2. queue'[c] = queue[c]
            BY <2>3, <6>1
          <6>. QED
            BY <1>1, <3>2, <5>4, <6>2 DEF Sent, g1
        <5>. QED
          BY <5>2, <5>3, <5>4
      <4>. HIDE DEF g2, h2
      <4>. QED
        BY <1>1, <3>3, <4>1, <4>3, <4>4, <4>6 DEF FannedOut
    <3>. QED
      BY <2>2, <3>5, <3>6
  <2>6. ASSUME NEW c \in Conn, ~Subscriber(c) PROVE FannedOut(c)'
    BY <1>1, <2>6 DEF FannedOut, Subscriber
  <2>. QED
    BY <2>5, <2>6 DEF FanOutInv
<1>. QED
  BY <1>2, <1>3 DEF Arrive

\* A message of a client: the same.
LEMMA PublishFanOut ==
    ASSUME GatewayInv, FanOutInv, NEW topic \in Topic, publish_message(topic)
    PROVE  FanOutInv'
<1>1. StreamTypes /\ UNCHANGED <<conn, delivered>> /\ posts' = posts + 1
  BY DEF GatewayInv, publish_message
<1>2. PICK e \in Event : e.topic = topic /\ e.msg = <<"post", posts'>> /\ e.msg \in Message
                         /\ e = [topic |-> topic, msg |-> <<"post", posts'>>]
  <2>1. PICK n \in Nat : n = posts'
    BY <1>1 DEF StreamTypes
  <2>2. <<"post", n>> \in Message
    BY DEF Message
  <2>3. [topic |-> topic, msg |-> <<"post", n>>] \in Event
    BY <2>2 DEF Event, BusTopic
  <2>. QED
    BY <2>1, <2>2, <2>3
<1>3. /\ published' = Append(published, e)
      /\ queue' = [c \in Conn |-> IF Subscribed(c, e.topic) THEN Append(queue[c], e.msg)
                                  ELSE queue[c]]
  BY <1>2 DEF publish_message, publish
<1>4. ASSUME NEW c \in Conn, Subscriber(c) PROVE FannedOut(c)'
  <2>1. Sent(c)' = IF Subscribed(c, e.topic) THEN Append(Sent(c), e.msg) ELSE Sent(c)
    <3>1. delivered[c] \o Append(queue[c], e.msg) = Append(Sent(c), e.msg)
      BY <1>1, <1>2, SentMore
    <3>2. Sent(c)' = delivered[c] \o (IF Subscribed(c, e.topic) THEN Append(queue[c], e.msg)
                                      ELSE queue[c])
      BY <1>1, <1>3 DEF Sent
    <3>. QED
      BY <3>1, <3>2 DEF Sent
  <2>2. /\ Carries(Sent(c)', published', conn[c].since, conn[c].topic)
        /\ conn[c].since <= Len(published')
    BY <1>1, <1>3, <1>4, <2>1, OneMessageOut DEF FanOutInv
  <2>3. conn'[c].registered
    BY <1>1, <1>4 DEF FanOutInv, FannedOut
  <2>. QED
    BY <1>1, <2>2, <2>3 DEF FannedOut
<1>5. ASSUME NEW c \in Conn, ~Subscriber(c) PROVE FannedOut(c)'
  BY <1>1, <1>5 DEF FannedOut, Subscriber
<1>. QED
  BY <1>4, <1>5 DEF FanOutInv

\* A subscriber gets what is published on its topic from its GET on, each message
\* once and in order (MessageBus.publish and the two routers), for every number
\* of streams, topics, messages and requests, and whenever its generator starts.
THEOREM FanOutIsComplete == Spec => []FanOutInOrder
<1>1. Init => FanOutInv
  BY DEF Init, StreamInit, FanOutInv, FannedOut, Subscriber, Live
<1>2. GatewayInv /\ FanOutInv /\ [Next]_vars => FanOutInv'
  <2>. SUFFICES ASSUME GatewayInv, FanOutInv, [Next]_vars PROVE FanOutInv'
    OBVIOUS
  <2>1. StreamTypes
    BY DEF GatewayInv
  <2>2. ASSUME NEW c \in Conn, Deliver(c) PROVE FanOutInv'
    <3>1. /\ queue[c] # <<>> /\ UNCHANGED <<conn, published>>
          /\ delivered' = [delivered EXCEPT ![c] = Append(delivered[c], Head(queue[c]))]
          /\ queue' = [queue EXCEPT ![c] = Tail(queue[c])]
      BY <2>2 DEF Deliver
    <3>2. Sent(c)' = Sent(c)
      <4>1. delivered'[c] = Append(delivered[c], Head(queue[c])) /\ queue'[c] = Tail(queue[c])
        BY <2>1, <3>1 DEF StreamTypes
      <4>. QED
        BY <2>1, <3>1, <4>1, SentSame DEF Sent
    <3>3. \A d \in Conn : d # c => Sent(d)' = Sent(d)
      BY <2>1, <3>1 DEF StreamTypes, Sent
    <3>. QED
      BY <3>1, <3>2, <3>3, SameFanOut
  <2>3. CASE StreamStep
    BY <2>2, <2>3, ConnFanOut, PublishFanOut DEF StreamStep
  <2>4. ASSUME NEW q \in Req, NEW i \in Input, Arrive(q, i) PROVE FanOutInv'
    BY <2>4, ArriveFanOut
  <2>5. ASSUME UNCHANGED streamVars PROVE FanOutInv'
    <3>1. \A c \in Conn : Sent(c)' = Sent(c)
      BY <2>5 DEF Sent, streamVars
    <3>. QED
      BY <2>5, <3>1, SameFanOut DEF streamVars
  <2>6. ASSUME NEW q \in Req, ReqStep(q), ~Reply(q) PROVE FanOutInv'
    <3>1. UNCHANGED streamVars
      BY <2>6 DEF ReqStep, CacheGet, Route, EmitTokenUsage, CacheSet, Kv, AppendToolCall, Extract,
                  AnalyzeEvent, AnalyzeUsage
    <3>. QED
      BY <2>5, <3>1
  <2>7. ASSUME NEW q \in Req, Reply(q) PROVE FanOutInv'
    <3>1. UNCHANGED <<conn, published, delivered>> /\ SessionInv /\ r[q].pc = "reply"
      BY <2>7 DEF Reply, GatewayInv
    <3>2. ASSUME NEW c \in Conn, Subscriber(c) PROVE Sent(c)' = Sent(c)
      <4>1. CASE r[q].in.via # None /\ r[q].resp # "500"
        <5>1. conn[r[q].in.via].kind = "rpc"
          BY <3>1, <4>1 DEF SessionInv
        <5>2. r[q].in.via # c
          BY <3>2, <5>1 DEF Subscriber
        <5>3. queue' = [queue EXCEPT ![r[q].in.via] = Append(@, <<q, r[q].resp>>)]
          BY <2>7, <4>1 DEF Reply
        <5>4. queue'[c] = queue[c]
          BY <2>1, <5>2, <5>3 DEF StreamTypes
        <5>. QED
          BY <3>1, <5>4 DEF Sent
      <4>2. CASE ~(r[q].in.via # None /\ r[q].resp # "500")
        BY <2>7, <3>1, <4>2 DEF Reply, Sent
      <4>. QED
        BY <4>1, <4>2
    <3>. QED
      BY <3>1, <3>2, SameFanOut
  <2>8. CASE UNCHANGED vars \/ \E p \in Prompt : Expire(p)
    <3>1. UNCHANGED streamVars
      BY <2>8 DEF vars, Expire, streamVars
    <3>. QED
      BY <2>5, <3>1
  <2>. QED
    BY <2>3, <2>4, <2>6, <2>7, <2>8 DEF Next
<1>3. FanOutInv => FanOutInOrder
  BY DEF FanOutInv, FannedOut, Subscriber, Sent, FanOutInOrder
<1>. QED
  BY <1>1, <1>2, <1>3, GatewayInvariant, PTL DEF Spec

=============================================================================
