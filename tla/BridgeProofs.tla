---------------------------- MODULE BridgeProofs ----------------------------
(***************************************************************************)
(* Proofs about Bridge: the types, the bridge's margin (no call is turned  *)
(* away with an expired token) and the one-time use of codes.              *)
(***************************************************************************)
EXTENDS Bridge, TLAPS

\* A token issued now, for a subject with a session and scope words the server
\* knows, is a Token that lasts TokenTTL.
LEMMA IssuedToken ==
    ASSUME NEW scope \in Scope \cup {{"tools:call"}}, NEW sub \in User \cup Client, now \in Nat
    PROVE  /\ _issue_token(scope, sub) \in Token
           /\ _issue_token(scope, sub).exp = now + TokenTTL
           /\ _issue_token(scope, sub).iat = now
           /\ _issue_token(scope, sub).sub = sub
           /\ _issue_token(scope, sub).scope = expand_scope(scope)
<1>1. expand_scope(scope) \in SUBSET ScopeWord
  BY DEF ScopeWord
<1>2. now + TokenTTL \in Nat
  BY AuthAssumption
<1>. QED
  BY <1>1, <1>2 DEF _issue_token, Token

\* A code that was consumed is the same code, without its key.
LEMMA ConsumedCode ==
    ASSUME NEW d \in CodeRecord
    PROVE  /\ [d EXCEPT !.stored = FALSE] \in CodeRecord
           /\ ~[d EXCEPT !.stored = FALSE].stored
           /\ [d EXCEPT !.stored = FALSE].client_id = d.client_id
           /\ [d EXCEPT !.stored = FALSE].code_challenge = d.code_challenge
           /\ [d EXCEPT !.stored = FALSE].user_id = d.user_id
           /\ [d EXCEPT !.stored = FALSE].scope = d.scope
           /\ [d EXCEPT !.stored = FALSE].at = d.at
BY ZenonT(60) DEF CodeRecord

\* Init establishes every type.
LEMMA InitTypeOK == BridgeInit => TypeOK
<1>. SUFFICES ASSUME BridgeInit PROVE TypeOK
  OBVIOUS
<1>1. req \in [Request -> ReqRecord]
  BY DEF BridgeInit, Init, Blank, ReqRecord
<1>2. call \in [Call -> CallRecord]
  BY DEF BridgeInit, Idle, CallRecord, CallState, Outcome
<1>3. cache \in [token : Token \cup {None}, expires_at : Nat]
  BY DEF BridgeInit
<1>. QED
  BY <1>1, <1>2, <1>3 DEF BridgeInit, Init, TypeOK

\* An answer that is a string of the protocol and a token, or none, keeps the
\* type of the requests.
LEMMA AnswerType ==
    ASSUME TypeOK, NEW r \in Request, NEW what \in SawCode \cup NoCode,
           NEW tok \in Token \cup {None}, Answer(r, what, tok)
    PROVE  req' \in [Request -> ReqRecord]
BY DEF TypeOK, Answer, ReqRecord

\* A step of the server keeps its types, given what is known of the requests
\* under way.
LEMMA AuthStepType ==
    ASSUME TypeOK, CodesSpent, AuthStep
    PROVE  /\ now' \in Nat
           /\ clients' \in [Client -> ClientRecord \cup {None}]
           /\ codes' \in [Code -> CodeRecord \cup {None}]
           /\ req' \in [Request -> ReqRecord]
<1>. USE DEF TypeOK
<1>1. ASSUME NEW g \in Registration, register_client(g)
      PROVE  /\ now' \in Nat
             /\ clients' \in [Client -> ClientRecord \cup {None}]
             /\ codes' \in [Code -> CodeRecord \cup {None}]
             /\ req' \in [Request -> ReqRecord]
  <2>1. [secret |-> g.client_secret, scope |-> g.scope] \in ClientRecord
    BY AuthAssumption DEF ClientRecord
  <2>. QED
    BY <1>1, <2>1 DEF register_client
<1>2. ASSUME NEW k \in Code, NEW a \in Authorization, authorize(k, a)
      PROVE  /\ now' \in Nat
             /\ clients' \in [Client -> ClientRecord \cup {None}]
             /\ codes' \in [Code -> CodeRecord \cup {None}]
             /\ req' \in [Request -> ReqRecord]
  <2>1. [stored |-> TRUE, client_id |-> a.client_id,
         code_challenge |-> _compute_s256(a.code_verifier),
         user_id |-> a.user_id, scope |-> a.scope, at |-> now] \in CodeRecord
    BY AuthAssumption DEF CodeRecord, _compute_s256
  <2>. QED
    BY <1>2, <2>1 DEF authorize
<1>3. ASSUME NEW r \in Request, NEW form \in Form, Post(r, form)
      PROVE  /\ now' \in Nat
             /\ clients' \in [Client -> ClientRecord \cup {None}]
             /\ codes' \in [Code -> CodeRecord \cup {None}]
             /\ req' \in [Request -> ReqRecord]
  BY <1>3, ZenonT(60) DEF Post, ReqRecord
<1>4. ASSUME NEW r \in Request, LoadClient(r)
      PROVE  /\ now' \in Nat
             /\ clients' \in [Client -> ClientRecord \cup {None}]
             /\ codes' \in [Code -> CodeRecord \cup {None}]
             /\ req' \in [Request -> ReqRecord]
  <2>. DEFINE f == req[r].form
              c == clients[f.client]
  <2>1. f \in Form /\ f.client \in Client
    BY <1>4, AuthAssumption DEF LoadClient, CodesSpent
  <2>2. CASE Answer(r, "invalid_client", None) \/ Answer(r, "m2m_server_error", None)
             \/ Answer(r, "unsupported", None) \/ Answer(r, "missing_fields", None)
    <3>1. req' \in [Request -> ReqRecord]
      BY <2>2, AnswerType DEF NoCode
    <3>. QED
      BY <1>4, <3>1 DEF LoadClient
  <2>3. CASE Authentic(c, f.secret) /\ Answer(r, "m2m_token", _issue_token(c.scope, f.client))
    <3>1. c.scope \in Scope
      BY <2>1, <2>3 DEF Authentic, ClientRecord
    <3>2. _issue_token(c.scope, f.client) \in Token
      BY <2>1, <3>1, IssuedToken
    <3>3. req' \in [Request -> ReqRecord]
      BY <2>3, <3>2, AnswerType DEF NoCode
    <3>. QED
      BY <1>4, <3>3 DEF LoadClient
  <2>4. CASE req' = [req EXCEPT ![r].pc = "exchange"]
    BY <1>4, <2>4 DEF LoadClient, ReqRecord
  <2>. QED
    BY <1>4, <2>2, <2>3, <2>4 DEF LoadClient
<1>5. ASSUME NEW r \in Request, Exchange(r)
      PROVE  /\ now' \in Nat
             /\ clients' \in [Client -> ClientRecord \cup {None}]
             /\ codes' \in [Code -> CodeRecord \cup {None}]
             /\ req' \in [Request -> ReqRecord]
  <2>. DEFINE f == req[r].form
              d == codes[f.code]
              v == Verdict(f, d)
              t == IF v = "token" THEN _issue_token(d.scope, d.user_id) ELSE None
  <2>1. f \in Form /\ f.code \in Code
    BY <1>5, AuthAssumption DEF Exchange, CodesSpent
  <2>2. CASE Answer(r, "invalid_code", None) /\ UNCHANGED codes
    <3>1. req' \in [Request -> ReqRecord]
      BY <2>2, AnswerType DEF NoCode
    <3>. QED
      BY <1>5, <2>2, <3>1 DEF Exchange
  <2>3. CASE /\ Stored(f.code) /\ _load_and_delete_code(f.code)
             /\ Answer(r, v, t) \/ Answer(r, "crashed", None)
    <3>1. d \in CodeRecord
      BY <2>1, <2>3 DEF Stored
    <3>2. codes' \in [Code -> CodeRecord \cup {None}]
      BY <2>1, <2>3, <3>1 DEF _load_and_delete_code, CodeRecord
    <3>3. v \in SawCode
      BY DEF Verdict, SawCode
    <3>4. v = "token" => d.user_id \in User
      BY <3>1 DEF Verdict, HasSession, CodeRecord
    <3>5. t \in Token \cup {None}
      BY <3>1, <3>4, IssuedToken DEF CodeRecord
    <3>6. req' \in [Request -> ReqRecord]
      BY <2>3, <3>3, <3>5, AnswerType DEF SawCode
    <3>. QED
      BY <1>5, <3>2, <3>6 DEF Exchange
  <2>. QED
    BY <1>5, <2>2, <2>3 DEF Exchange
<1>6. ASSUME NEW r \in Request, Drop(r)
      PROVE  /\ now' \in Nat
             /\ clients' \in [Client -> ClientRecord \cup {None}]
             /\ codes' \in [Code -> CodeRecord \cup {None}]
             /\ req' \in [Request -> ReqRecord]
  <2>1. req' \in [Request -> ReqRecord]
    BY <1>6, AnswerType DEF Drop, NoCode
  <2>. QED
    BY <1>6, <2>1 DEF Drop
<1>. QED
  BY <1>1, <1>2, <1>3, <1>4, <1>5, <1>6 DEF AuthStep

\* A step of a call keeps the types of the bridge.
LEMMA BridgeStepType ==
    ASSUME TypeOK, InFlight, NEW b \in Call, BridgeStep(b)
    PROVE  TypeOK'
<1>. USE DEF TypeOK
<1>0. /\ now' = now /\ clients' = clients /\ codes' = codes /\ req' = req /\ factory' = factory
  BY DEF BridgeStep, CacheHit, StartFetch, SelfSign, AnswerFetch, Fetched, GiveUp, Verify, authVars
<1>. DEFINE C == [token : Token \cup {None}, expires_at : Nat]
<1>1. ASSUME NEW t \in Token, call' = Sending(b, t)
      PROVE  call' \in [Call -> CallRecord]
  BY <1>1 DEF Sending, CallRecord, CallState
<1>2. ASSUME NEW o \in Outcome, call' = [call EXCEPT ![b] = Idle(o)]
      PROVE  call' \in [Call -> CallRecord]
  BY <1>2 DEF Idle, CallRecord, CallState
<1>3. CASE CacheHit(b)
  BY <1>0, <1>1, <1>3 DEF CacheHit, _is_valid
<1>4. CASE StartFetch(b)
  <2>1. call' \in [Call -> CallRecord]
    BY <1>4 DEF StartFetch, Idle, CallRecord, CallState, Outcome
  <2>. QED
    BY <1>0, <1>4, <2>1 DEF StartFetch
<1>5. CASE SelfSign(b)
  <2>. DEFINE t == _issue_token({"tools:call"}, BridgeClient)
  <2>1. t \in Token
    BY IssuedToken, BridgeAssumption
  <2>2. now + TokenTTL \in Nat
    BY AuthAssumption
  <2>3. call' \in [Call -> CallRecord]
    BY <1>5, <1>1, <2>1 DEF SelfSign
  <2>. QED
    BY <1>0, <1>5, <2>1, <2>2, <2>3 DEF SelfSign
<1>6. CASE AnswerFetch(b)
  <2>. DEFINE c == clients[BridgeClient]
              t == IF Authentic(c, BridgeSecret) /\ HasSession(BridgeClient)
                   THEN _issue_token(c.scope, BridgeClient) ELSE None
  <2>1. Authentic(c, BridgeSecret) => c.scope \in Scope
    BY BridgeAssumption DEF Authentic, ClientRecord
  <2>2. t \in Token \cup {None}
    BY <2>1, IssuedToken, BridgeAssumption
  <2>3. call' = [call EXCEPT ![b].pc = "reply", ![b].token = t]
    BY <1>6 DEF AnswerFetch
  <2>4. call' \in [Call -> CallRecord]
    <3>1. PICK u \in Token \cup {None} : u = t
      BY <2>2
    <3>2. call' = [call EXCEPT ![b].pc = "reply", ![b].token = u] /\ call \in [Call -> CallRecord]
      BY <1>0, <2>3, <3>1
    <3>3. \A r \in CallRecord : [r EXCEPT !.pc = "reply", !.token = u] \in CallRecord
      BY ONLY <3>1 DEF CallRecord, CallState
    <3>. QED
      BY ONLY <3>2, <3>3
  <2>. QED
    BY <1>0, <1>6, <2>4 DEF AnswerFetch
<1>7. CASE Fetched(b)
  <2>1. CASE call[b].token = None
    BY <1>0, <1>2, <1>7, <2>1 DEF Fetched, Outcome
  <2>2. CASE call[b].token # None
    <3>1. call[b].token \in Token
      BY <2>2 DEF CallRecord
    <3>2. now + TokenTTL \in Nat
      BY AuthAssumption
    <3>3. call' \in [Call -> CallRecord]
      BY <1>1, <1>7, <2>2, <3>1 DEF Fetched
    <3>. QED
      BY <1>0, <1>7, <2>2, <3>1, <3>2, <3>3 DEF Fetched
  <2>. QED
    BY <2>1, <2>2
<1>8. CASE GiveUp(b)
  BY <1>0, <1>2, <1>8 DEF GiveUp, Outcome
<1>9. CASE Verify(b)
  <2>1. verify_token(call[b].token) \in Outcome
    BY DEF verify_token, Outcome
  <2>. QED
    BY <1>0, <1>2, <1>9, <2>1 DEF Verify
<1>. QED
  BY <1>3, <1>4, <1>5, <1>6, <1>7, <1>8, <1>9 DEF BridgeStep

-----------------------------------------------------------------------------
(* The margin of the bridge.                                               *)

\* A step of a call keeps the estimate of the expiry and the life of every
\* token under way, and its outcome is not "expired".
LEMMA BridgeStepMargin ==
    ASSUME BridgeInv, NEW b \in Call, BridgeStep(b)
    PROVE  ExpiryEstimate' /\ InFlight' /\ NeverRejectedAsExpired'
<1>. USE DEF BridgeInv
<1>0. /\ now \in Nat /\ now' = now /\ call \in [Call -> CallRecord]
      /\ cache \in [token : Token \cup {None}, expires_at : Nat]
      /\ TokenTTL \in Nat /\ Timeout \in Nat /\ Margin \in Nat
  BY AuthAssumption, BridgeAssumption
     DEF TypeOK, BridgeStep, CacheHit, StartFetch, SelfSign, AnswerFetch, Fetched, GiveUp,
         Verify, authVars
<1>1. \A t \in Token : t.exp \in Nat
  BY DEF Token
<1>2. ASSUME NEW t \in Token, call' = Sending(b, t), t.exp >= now + Timeout
      PROVE  InFlight' /\ NeverRejectedAsExpired'
  <2>1. \A a \in Call : a # b => call'[a] = call[a]
    BY <1>0, <1>2 DEF Sending
  <2>2. call'[b] = [call[b] EXCEPT !.pc = "send", !.since = now, !.token = t]
    BY <1>0, <1>2 DEF Sending
  <2>3. /\ call'[b].pc = "send" /\ call'[b].since = now /\ call'[b].token = t
        /\ call'[b].outcome = call[b].outcome
    BY <1>0, <2>2 DEF CallRecord
  <2>4. t # None
    BY <1>2, NoneAssumption
  <2>5. NeverRejectedAsExpired'
    BY <2>1, <2>3 DEF NeverRejectedAsExpired
  <2>. QED
    BY <1>0, <1>2, <2>1, <2>3, <2>4, <2>5 DEF InFlight
<1>3. ASSUME NEW o \in Outcome \ {"expired"}, call' = [call EXCEPT ![b] = Idle(o)]
      PROVE  InFlight' /\ NeverRejectedAsExpired'
  BY <1>0, <1>3 DEF Idle, InFlight, NeverRejectedAsExpired
<1>4. CASE CacheHit(b)
  <2>1. cache.token \in Token /\ call' = Sending(b, cache.token) /\ cache' = cache
    BY <1>0, <1>4 DEF CacheHit, _is_valid
  <2>2. now < cache.expires_at - Margin /\ cache.expires_at <= cache.token.exp + Timeout
    BY <1>4 DEF CacheHit, _is_valid, ExpiryEstimate
  <2>3. cache.token.exp \in Nat /\ cache.expires_at \in Nat
    BY <1>0, <1>1, <2>1
  <2>4. cache.token.exp >= now + Timeout
    BY <1>0, <2>2, <2>3, BridgeAssumption
  <2>. QED
    BY <1>2, <2>1, <2>4 DEF ExpiryEstimate
<1>5. CASE StartFetch(b)
  <2>1. call' = [call EXCEPT ![b] = [Idle(None) EXCEPT !.pc = "fetch", !.since = now]]
    BY <1>5 DEF StartFetch
  <2>2. \A a \in Call : a # b => call'[a] = call[a]
    BY <1>0, <2>1
  <2>3. call'[b].pc = "fetch" /\ call'[b].since = now /\ call'[b].outcome = None
    BY <1>0, <2>1 DEF Idle
  <2>4. None # "expired"
    BY <1>5, NoneAssumption
  <2>. QED
    BY <1>0, <1>5, <2>2, <2>3, <2>4
       DEF StartFetch, ExpiryEstimate, InFlight, NeverRejectedAsExpired
<1>6. CASE SelfSign(b)
  <2>. DEFINE t == _issue_token({"tools:call"}, BridgeClient)
  <2>1. t \in Token /\ t.exp = now + TokenTTL
    BY <1>0, IssuedToken, BridgeAssumption
  <2>2. call' = Sending(b, t) /\ cache' = [token |-> t, expires_at |-> now + TokenTTL]
    BY <1>6 DEF SelfSign
  <2>3. t.exp >= now + Timeout
    BY <1>0, <2>1, BridgeAssumption
  <2>4. ExpiryEstimate'
    BY <1>0, <2>1, <2>2 DEF ExpiryEstimate
  <2>. QED
    BY <1>2, <2>1, <2>2, <2>3, <2>4
<1>7. CASE AnswerFetch(b)
  <2>. DEFINE c == clients[BridgeClient]
              t == IF Authentic(c, BridgeSecret) /\ HasSession(BridgeClient)
                   THEN _issue_token(c.scope, BridgeClient) ELSE None
  <2>1. call' = [call EXCEPT ![b].pc = "reply", ![b].token = t] /\ cache' = cache
    BY <1>7 DEF AnswerFetch
  <2>2. Authentic(c, BridgeSecret) => c.scope \in Scope
    BY BridgeAssumption DEF TypeOK, Authentic, ClientRecord
  <2>3. t # None => t.exp = now + TokenTTL
    BY <1>0, <2>2, IssuedToken, BridgeAssumption
  <2>4. \A a \in Call : a # b => call'[a] = call[a]
    BY <1>0, <2>1
  <2>5. /\ call'[b].pc = "reply" /\ call'[b].since = call[b].since /\ call'[b].token = t
        /\ call'[b].outcome = call[b].outcome
    BY <1>0, <2>1 DEF CallRecord
  <2>6. call[b].since <= now /\ call[b].since \in Nat
    BY <1>0, <1>7 DEF AnswerFetch, InFlight, CallRecord
  <2>7. InFlight'
    BY <1>0, <2>3, <2>4, <2>5, <2>6 DEF InFlight
  <2>. QED
    BY <2>1, <2>4, <2>5, <2>7 DEF ExpiryEstimate, NeverRejectedAsExpired
<1>8. CASE Fetched(b)
  <2>1. CASE call[b].token = None
    BY <1>0, <1>3, <1>8, <2>1 DEF Fetched, Outcome, ExpiryEstimate
  <2>2. CASE call[b].token # None
    <3>. DEFINE t == call[b].token
    <3>1. t \in Token /\ t.exp \in Nat /\ call[b].since \in Nat
      BY <1>0, <1>1, <2>2 DEF CallRecord
    <3>2. /\ now <= call[b].since + Timeout
          /\ cache' = [token |-> t, expires_at |-> now + TokenTTL] /\ call' = Sending(b, t)
      BY <1>8, <2>2 DEF Fetched
    <3>3. t.exp >= call[b].since + TokenTTL /\ t.exp <= now + TokenTTL
      BY <1>8, <2>2 DEF Fetched, InFlight
    <3>4. t.exp >= now + Timeout
      BY <1>0, <3>1, <3>2, <3>3, BridgeAssumption
    <3>5. ExpiryEstimate'
      BY <1>0, <3>1, <3>2, <3>3 DEF ExpiryEstimate
    <3>. QED
      BY <1>2, <3>1, <3>2, <3>4, <3>5
  <2>. QED
    BY <2>1, <2>2
<1>9. CASE GiveUp(b)
  BY <1>0, <1>3, <1>9 DEF GiveUp, Outcome, ExpiryEstimate
<1>10. CASE Verify(b)
  <2>1. call[b].token \in Token /\ call[b].token.exp \in Nat /\ call[b].since \in Nat
    BY <1>0, <1>1, <1>10 DEF Verify, InFlight, CallRecord
  <2>2. now <= call[b].since + Timeout /\ call[b].token.exp >= call[b].since + Timeout
    BY <1>10 DEF Verify, InFlight
  <2>3. verify_token(call[b].token) \in Outcome \ {"expired"}
    BY <1>0, <2>1, <2>2 DEF verify_token, Outcome
  <2>. QED
    BY <1>3, <1>10, <2>3 DEF Verify, ExpiryEstimate
<1>. QED
  BY <1>4, <1>5, <1>6, <1>7, <1>8, <1>9, <1>10 DEF BridgeStep

-----------------------------------------------------------------------------
(* Codes are used once, and tokens say what was authorized.                *)

\* What the invariants on codes say of one request.
RequestOK(r) ==
    /\ req[r].pc # "new" => req[r].form \in Form
    /\ req[r].pc = "exchange" => /\ req[r].form.code # None
                                 /\ req[r].form.code_verifier # None
    /\ req[r].pc # "answered" => req[r].reply = None
    /\ req[r].reply \in SawCode => /\ req[r].form.code \in Code
                                   /\ codes[req[r].form.code] # None
                                   /\ ~codes[req[r].form.code].stored
    /\ req[r].reply = "token" =>
           LET f == req[r].form
               d == codes[f.code]
               t == req[r].token
           IN  /\ d # None /\ d.client_id = f.client
               /\ d.code_challenge = _compute_s256(f.code_verifier)
               /\ t.sub = d.user_id /\ t.scope = expand_scope(d.scope)
               /\ d.at <= t.iat /\ t.iat < d.at + CodeTTL

\* The invariants on codes, request by request.
LEMMA ByRequest ==
    (CodesSpent /\ TokenBacked) <=>
        /\ \A k \in Code : codes[k] # None => codes[k].at <= now
        /\ \A r \in Request : RequestOK(r)
BY DEF CodesSpent, TokenBacked, RequestOK

\* The same in the next state.
LEMMA ByRequestNext ==
    (CodesSpent' /\ TokenBacked') <=>
        /\ \A k \in Code : codes'[k] # None => codes'[k].at <= now'
        /\ \A r \in Request : RequestOK(r)'
BY DEF CodesSpent, TokenBacked, RequestOK

\* A request that does not change is as sound after the step as before, when no
\* stored code changes but in being spent.
LEMMA RequestKept ==
    ASSUME NEW r \in Request, RequestOK(r), req'[r] = req[r],
           \A k \in Code : codes[k] # None =>
               /\ codes'[k] # None
               /\ codes'[k].stored => codes[k].stored
               /\ codes'[k].client_id = codes[k].client_id
               /\ codes'[k].code_challenge = codes[k].code_challenge
               /\ codes'[k].user_id = codes[k].user_id
               /\ codes'[k].scope = codes[k].scope
               /\ codes'[k].at = codes[k].at
    PROVE  RequestOK(r)'
<1>. DEFINE f == req[r].form
<1>1. CASE req[r].reply \in SawCode
  <2>1. f.code \in Code /\ codes[f.code] # None
    BY <1>1 DEF RequestOK
  <2>2. /\ codes'[f.code] # None /\ codes'[f.code].client_id = codes[f.code].client_id
        /\ codes'[f.code].code_challenge = codes[f.code].code_challenge
        /\ codes'[f.code].user_id = codes[f.code].user_id
        /\ codes'[f.code].scope = codes[f.code].scope
        /\ codes'[f.code].at = codes[f.code].at
        /\ ~codes[f.code].stored => ~codes'[f.code].stored
    BY <2>1
  <2>. QED
    BY <2>1, <2>2 DEF RequestOK
<1>2. CASE req[r].reply \notin SawCode
  <2>1. req[r].reply # "token"
    BY <1>2 DEF SawCode
  <2>. QED
    BY <1>2, <2>1 DEF RequestOK
<1>. QED
  BY <1>1, <1>2

\* An answer that is none of those a spent code gives is sound.
LEMMA AnswerWithoutCode ==
    ASSUME req \in [Request -> ReqRecord], NEW r \in Request, RequestOK(r), req[r].pc # "new",
           NEW what \in NoCode, NEW tok, Answer(r, what, tok)
    PROVE  /\ \A q \in Request : q # r => req'[q] = req[q]
           /\ RequestOK(r)'
           /\ req'[r].reply \notin SawCode
<1>1. /\ \A q \in Request : q # r => req'[q] = req[q]
      /\ req'[r].pc = "answered" /\ req'[r].form = req[r].form /\ req'[r].reply = what
  BY DEF Answer
<1>2. what \notin SawCode /\ what # "token"
  BY DEF NoCode, SawCode
<1>. QED
  BY <1>1, <1>2 DEF RequestOK

\* No step of the server makes two requests see one code, or a token that was
\* not authorized.
LEMMA AuthStepCodes ==
    ASSUME AuthInv, AuthStep
    PROVE  CodesSpent' /\ TokenBacked' /\ CodeConsumedOnce'
<1>. USE DEF AuthInv
<1>0. /\ now \in Nat /\ req \in [Request -> ReqRecord]
      /\ codes \in [Code -> CodeRecord \cup {None}]
      /\ \A k \in Code : codes[k] # None => codes[k].at <= now
      /\ \A r \in Request : RequestOK(r)
      /\ CodeTTL \in Nat /\ now' = now
  BY ByRequest, AuthAssumption
     DEF TypeOK, AuthStep, register_client, authorize, Post, LoadClient, Exchange, Drop
<1>. DEFINE Kept(k) == /\ codes'[k] # None
                       /\ codes'[k].stored => codes[k].stored
                       /\ codes'[k].client_id = codes[k].client_id
                       /\ codes'[k].code_challenge = codes[k].code_challenge
                       /\ codes'[k].user_id = codes[k].user_id
                       /\ codes'[k].scope = codes[k].scope
                       /\ codes'[k].at = codes[k].at
<1>1. ASSUME NEW g \in Registration, register_client(g)
      PROVE  CodesSpent' /\ TokenBacked' /\ CodeConsumedOnce'
  <2>1. codes' = codes /\ req' = req
    BY <1>1 DEF register_client
  <2>2. \A r \in Request : RequestOK(r)'
    BY <1>0, <2>1 DEF RequestOK
  <2>. QED
    BY <1>0, <2>1, <2>2, ByRequestNext DEF CodeConsumedOnce
<1>2. ASSUME NEW k \in Code, NEW a \in Authorization, authorize(k, a)
      PROVE  CodesSpent' /\ TokenBacked' /\ CodeConsumedOnce'
  <2>1. req' = req /\ codes[k] = None /\ codes'[k].at = now
        /\ \A j \in Code : j # k => codes'[j] = codes[j]
    BY <1>0, <1>2 DEF authorize
  <2>2. \A j \in Code : codes[j] # None => Kept(j)
    BY <2>1
  <2>3. \A r \in Request : RequestOK(r)'
    BY <1>0, <2>1, <2>2, RequestKept
  <2>4. \A j \in Code : codes'[j] # None => codes'[j].at <= now'
    BY <1>0, <2>1
  <2>. QED
    BY <2>1, <2>3, <2>4, ByRequestNext DEF CodeConsumedOnce
<1>3. ASSUME NEW r \in Request, codes' = codes, \A q \in Request : q # r => req'[q] = req[q],
             RequestOK(r)', req'[r].reply \notin SawCode
      PROVE  CodesSpent' /\ TokenBacked' /\ CodeConsumedOnce'
  <2>1. \A q \in Request : RequestOK(q)'
    <3>. SUFFICES ASSUME NEW q \in Request PROVE RequestOK(q)'
      OBVIOUS
    <3>. QED
      BY <1>0, <1>3, RequestKept
  <2>2. CodeConsumedOnce'
    BY <1>3 DEF CodeConsumedOnce
  <2>. QED
    BY <1>0, <1>3, <2>1, <2>2, ByRequestNext
<1>4. ASSUME NEW r \in Request, NEW form \in Form, Post(r, form)
      PROVE  CodesSpent' /\ TokenBacked' /\ CodeConsumedOnce'
  <2>1. /\ req[r].pc = "new" /\ codes' = codes
        /\ req' = [req EXCEPT ![r].pc = "posted", ![r].form = form]
    BY <1>4 DEF Post
  <2>2. /\ \A q \in Request : q # r => req'[q] = req[q]
        /\ req'[r].pc = "posted" /\ req'[r].form = form /\ req'[r].reply = req[r].reply
    BY <1>0, <2>1 DEF ReqRecord
  <2>3. req[r].reply = None
    BY <1>0, <2>1 DEF RequestOK
  <2>4. req'[r].reply \notin SawCode /\ req'[r].reply # "token"
    BY <2>2, <2>3, NoneAssumption DEF SawCode
  <2>5. RequestOK(r)'
    BY <2>2, <2>3, <2>4 DEF RequestOK
  <2>. QED
    BY <1>3, <2>1, <2>2, <2>4, <2>5
<1>5. ASSUME NEW r \in Request, LoadClient(r)
      PROVE  CodesSpent' /\ TokenBacked' /\ CodeConsumedOnce'
  <2>. DEFINE f == req[r].form
              c == clients[f.client]
  <2>1. req[r].pc = "posted" /\ codes' = codes /\ f \in Form
    BY <1>0, <1>5 DEF LoadClient, RequestOK
  <2>2. CASE \E what \in NoCode, tok \in {None, _issue_token(c.scope, f.client)} :
                 Answer(r, what, tok)
    <3>1. PICK what \in NoCode, tok \in {None, _issue_token(c.scope, f.client)} :
              Answer(r, what, tok)
      BY <2>2
    <3>2. /\ \A q \in Request : q # r => req'[q] = req[q]
          /\ RequestOK(r)' /\ req'[r].reply \notin SawCode
      BY <1>0, <2>1, <3>1, AnswerWithoutCode
    <3>. QED
      BY <1>3, <2>1, <3>2
  <2>3. CASE /\ f.code # None /\ f.code_verifier # None
             /\ req' = [req EXCEPT ![r].pc = "exchange"]
    <3>1. /\ \A q \in Request : q # r => req'[q] = req[q]
          /\ req'[r].pc = "exchange" /\ req'[r].form = f /\ req'[r].reply = req[r].reply
      BY <1>0, <2>3 DEF ReqRecord
    <3>2. req[r].reply = None
      BY <1>0, <2>1 DEF RequestOK
    <3>3. req'[r].reply \notin SawCode /\ req'[r].reply # "token"
      BY <3>1, <3>2, NoneAssumption DEF SawCode
    <3>4. RequestOK(r)'
      BY <2>1, <2>3, <3>1, <3>2, <3>3 DEF RequestOK
    <3>. QED
      BY <1>3, <2>1, <3>1, <3>3, <3>4
  <2>. QED
    BY <1>5, <2>2, <2>3 DEF LoadClient, NoCode
<1>6. ASSUME NEW r \in Request, Drop(r)
      PROVE  CodesSpent' /\ TokenBacked' /\ CodeConsumedOnce'
  <2>1. req[r].pc # "new" /\ codes' = codes /\ Answer(r, "dropped", None) /\ "dropped" \in NoCode
    BY <1>6 DEF Drop, NoCode
  <2>2. /\ \A q \in Request : q # r => req'[q] = req[q]
        /\ RequestOK(r)' /\ req'[r].reply \notin SawCode
    BY <1>0, <2>1, AnswerWithoutCode
  <2>. QED
    BY <1>3, <2>1, <2>2
<1>7. ASSUME NEW r \in Request, Exchange(r)
      PROVE  CodesSpent' /\ TokenBacked' /\ CodeConsumedOnce'
  <2>. DEFINE f == req[r].form
              k == f.code
              d == codes[k]
              v == Verdict(f, d)
              t == IF v = "token" THEN _issue_token(d.scope, d.user_id) ELSE None
  <2>1. req[r].pc = "exchange" /\ f \in Form /\ k \in Code
    BY <1>0, <1>7, AuthAssumption DEF Exchange, RequestOK
  <2>2. CASE codes' = codes /\ Answer(r, "invalid_code", None)
    <3>1. /\ \A q \in Request : q # r => req'[q] = req[q]
          /\ RequestOK(r)' /\ req'[r].reply \notin SawCode
      BY <1>0, <2>1, <2>2, AnswerWithoutCode DEF NoCode
    <3>. QED
      BY <1>3, <2>2, <3>1
  <2>3. CASE /\ Stored(k) /\ _load_and_delete_code(k)
             /\ Answer(r, v, t) \/ Answer(r, "crashed", None)
    <3>1. d \in CodeRecord /\ d # None /\ d.stored /\ now < d.at + CodeTTL /\ d.at <= now
      BY <1>0, <2>1, <2>3 DEF Stored
    <3>2. /\ codes'[k] = [d EXCEPT !.stored = FALSE]
          /\ \A j \in Code : j # k => codes'[j] = codes[j]
      BY <1>0, <2>1, <2>3 DEF _load_and_delete_code
    <3>3. /\ codes'[k] \in CodeRecord /\ ~codes'[k].stored
          /\ codes'[k].client_id = d.client_id
          /\ codes'[k].code_challenge = d.code_challenge
          /\ codes'[k].user_id = d.user_id
          /\ codes'[k].scope = d.scope
          /\ codes'[k].at = d.at
      <4>1. d \in CodeRecord /\ codes'[k] = [d EXCEPT !.stored = FALSE]
        BY <3>1, <3>2
      <4>. QED
        BY ONLY <4>1, ConsumedCode
    <3>4. codes'[k] # None
      BY <2>3, <3>3, NoneAssumption
    <3>5. \A j \in Code : codes[j] # None => Kept(j)
      BY <3>2, <3>3, <3>4
    <3>6. PICK w \in {v, "crashed"}, u \in {t, None} :
              Answer(r, w, u) /\ (w = "token" => w = v /\ u = t)
      BY <2>3
    <3>7. /\ \A q \in Request : q # r => req'[q] = req[q]
          /\ req'[r].pc = "answered" /\ req'[r].form = f /\ req'[r].reply = w /\ req'[r].token = u
      BY <1>0, <3>6 DEF Answer
    <3>8. w = "token" => /\ d.client_id = f.client
                         /\ d.code_challenge = _compute_s256(f.code_verifier)
                         /\ d.user_id \in User
                         /\ u = _issue_token(d.scope, d.user_id)
      BY <3>1, <3>6 DEF Verdict, HasSession, CodeRecord
    <3>9. w = "token" => u.sub = d.user_id /\ u.scope = expand_scope(d.scope) /\ u.iat = now
      <4>. SUFFICES ASSUME w = "token"
                    PROVE  u.sub = d.user_id /\ u.scope = expand_scope(d.scope) /\ u.iat = now
        OBVIOUS
      <4>1. d.user_id \in User /\ u = _issue_token(d.scope, d.user_id)
        BY <3>8
      <4>2. d.scope \in Scope /\ now \in Nat
        BY <1>0, <3>1 DEF CodeRecord
      <4>3. d.scope \in Scope \cup {{"tools:call"}} /\ d.user_id \in User \cup Client
        BY <4>1, <4>2
      <4>. HIDE DEF d
      <4>. QED
        BY ONLY <4>1, <4>2, <4>3, IssuedToken
    <3>10. RequestOK(r)'
      <4>1. codes'[f.code] # None /\ ~codes'[f.code].stored /\ f.code \in Code
        BY <2>1, <3>3, <3>4
      <4>2. w = "token" => /\ codes'[f.code].client_id = f.client
                           /\ codes'[f.code].code_challenge = _compute_s256(f.code_verifier)
                           /\ u.sub = codes'[f.code].user_id
                           /\ u.scope = expand_scope(codes'[f.code].scope)
                           /\ codes'[f.code].at <= u.iat /\ u.iat < codes'[f.code].at + CodeTTL
        BY <3>1, <3>3, <3>8, <3>9
      <4>. HIDE DEF f, v, t, d, k
      <4>3. (req'[r].form).code = f.code /\ (req'[r].form).code_verifier = f.code_verifier
        BY <3>7
      <4>4. /\ req'[r].pc = "answered" /\ req'[r].form = f /\ req'[r].reply = w
            /\ req'[r].token = u /\ f \in Form
        BY <2>1, <3>7
      <4>. QED
        BY ONLY <4>1, <4>2, <4>3, <4>4 DEF RequestOK, _compute_s256
    <3>11. \A q \in Request : RequestOK(q)'
      <4>. SUFFICES ASSUME NEW q \in Request, q # r PROVE RequestOK(q)'
        BY <3>10
      <4>. QED
        BY <1>0, <3>5, <3>7, RequestKept
    <3>12. CodeConsumedOnce'
      <4>1. \A q \in Request : q # r /\ req[q].reply \in SawCode => req[q].form.code # k
        BY <1>0, <3>1 DEF RequestOK
      <4>. QED
        BY <3>7, <4>1 DEF CodeConsumedOnce
    <3>13. \A j \in Code : codes'[j] # None => codes'[j].at <= now'
      BY <1>0, <3>1, <3>2, <3>3
    <3>. QED
      BY <3>11, <3>12, <3>13, ByRequestNext
  <2>. QED
    BY <1>7, <2>2, <2>3 DEF Exchange
<1>. QED
  BY <1>1, <1>2, <1>4, <1>5, <1>6, <1>7 DEF AuthStep

-----------------------------------------------------------------------------
(* A refused code was not there, had expired or was seen by another.       *)

\* What a step of the server does to codes and requests: a code never loses its
\* date, a spent one was seen by the request that spent it, an answered request
\* never changes, and a refusal is given on a code that is not stored.
LEMMA AuthStepEffect ==
    ASSUME AuthInv, AuthStep
    PROVE  /\ \A k \in Code : codes[k] # None => codes'[k] # None /\ codes'[k].at = codes[k].at
           /\ \A k \in Code : codes[k] = None /\ codes'[k] # None => codes'[k].at = now /\ codes'[k].stored
           /\ \A k \in Code : codes[k] # None /\ codes[k].stored /\ ~codes'[k].stored =>
                  \E q \in Request : req'[q].reply \in SawCode /\ req'[q].form.code = k
           /\ \A r \in Request : req[r].pc = "answered" => req'[r] = req[r]
           /\ \A r \in Request : req'[r].reply = "invalid_code" /\ req'[r] # req[r] =>
                  /\ req'[r].form.code \in Code /\ req'[r].at = now
                  /\ ~Stored(req'[r].form.code) /\ codes' = codes
<1>. DEFINE Kept == \A k \in Code : codes[k] # None => codes'[k] # None /\ codes'[k].at = codes[k].at
            Fresh == \A k \in Code : codes[k] = None /\ codes'[k] # None =>
                         codes'[k].at = now /\ codes'[k].stored
            Seen == \A k \in Code : codes[k] # None /\ codes[k].stored /\ ~codes'[k].stored =>
                        \E q \in Request : req'[q].reply \in SawCode /\ req'[q].form.code = k
            Final == \A r \in Request : req[r].pc = "answered" => req'[r] = req[r]
            Refused == \A r \in Request : req'[r].reply = "invalid_code" /\ req'[r] # req[r] =>
                           /\ req'[r].form.code \in Code /\ req'[r].at = now
                           /\ ~Stored(req'[r].form.code) /\ codes' = codes
<1>0. /\ req \in [Request -> ReqRecord] /\ codes \in [Code -> CodeRecord \cup {None}]
      /\ \A r \in Request : RequestOK(r)
  BY ByRequest DEF AuthInv, TypeOK
<1>1. ASSUME codes' = codes PROVE Kept /\ Fresh /\ Seen
  BY <1>1
<1>2. ASSUME NEW r \in Request, req[r].pc # "answered",
             \A q \in Request : q # r => req'[q] = req[q],
             req'[r].reply # "invalid_code"
      PROVE  Final /\ Refused
  BY <1>2
<1>3. ASSUME NEW g \in Registration, register_client(g)
      PROVE  Kept /\ Fresh /\ Seen /\ Final /\ Refused
  BY <1>1, <1>3 DEF register_client
<1>4. ASSUME NEW k \in Code, NEW a \in Authorization, authorize(k, a)
      PROVE  Kept /\ Fresh /\ Seen /\ Final /\ Refused
  <2>1. /\ req' = req /\ codes[k] = None /\ codes'[k].at = now /\ codes'[k].stored
        /\ \A j \in Code : j # k => codes'[j] = codes[j]
    BY <1>0, <1>4 DEF authorize
  <2>. QED
    BY <2>1
<1>5. ASSUME NEW r \in Request, NEW form \in Form, Post(r, form)
      PROVE  Kept /\ Fresh /\ Seen /\ Final /\ Refused
  <2>1. /\ req[r].pc = "new" /\ codes' = codes
        /\ req' = [req EXCEPT ![r].pc = "posted", ![r].form = form]
    BY <1>5 DEF Post
  <2>2. req[r].reply = None
    BY <1>0, <2>1 DEF RequestOK
  <2>3. req'[r].reply = None /\ \A q \in Request : q # r => req'[q] = req[q]
    BY <1>0, <2>1, <2>2 DEF ReqRecord
  <2>4. None # "invalid_code"
    BY NoneAssumption DEF NoCode
  <2>. QED
    BY <1>1, <1>2, <2>1, <2>3, <2>4
<1>6. ASSUME NEW r \in Request, LoadClient(r)
      PROVE  Kept /\ Fresh /\ Seen /\ Final /\ Refused
  <2>1. req[r].pc = "posted" /\ codes' = codes /\ req[r].reply = None
    BY <1>0, <1>6 DEF LoadClient, RequestOK
  <2>2. None # "invalid_code"
    BY NoneAssumption DEF NoCode
  <2>3. CASE \E what \in NoCode \ {"invalid_code"}, tok \in {None, _issue_token(clients[req[r].form.client].scope, req[r].form.client)} :
                 Answer(r, what, tok)
    <3>1. req'[r].reply # "invalid_code" /\ \A q \in Request : q # r => req'[q] = req[q]
      BY <1>0, <2>3 DEF Answer
    <3>. QED
      BY <1>1, <1>2, <2>1, <3>1
  <2>4. CASE req' = [req EXCEPT ![r].pc = "exchange"]
    <3>1. req'[r].reply = None /\ \A q \in Request : q # r => req'[q] = req[q]
      BY <1>0, <2>1, <2>4 DEF ReqRecord
    <3>. QED
      BY <1>1, <1>2, <2>1, <2>2, <3>1
  <2>. QED
    BY <1>6, <2>3, <2>4 DEF LoadClient, NoCode
<1>7. ASSUME NEW r \in Request, Drop(r)
      PROVE  Kept /\ Fresh /\ Seen /\ Final /\ Refused
  <2>1. /\ req[r].pc # "answered" /\ codes' = codes /\ req'[r].reply = "dropped"
        /\ \A q \in Request : q # r => req'[q] = req[q]
    BY <1>0, <1>7 DEF Drop, Answer
  <2>. QED
    BY <1>1, <1>2, <2>1
<1>8. ASSUME NEW r \in Request, Exchange(r)
      PROVE  Kept /\ Fresh /\ Seen /\ Final /\ Refused
  <2>. DEFINE k == req[r].form.code
              d == codes[k]
              v == Verdict(req[r].form, d)
              t == IF v = "token" THEN _issue_token(d.scope, d.user_id) ELSE None
  <2>1. req[r].pc = "exchange" /\ k \in Code
    BY <1>0, <1>8, AuthAssumption DEF Exchange, RequestOK
  <2>2. CASE ~Stored(k) /\ codes' = codes /\ Answer(r, "invalid_code", None)
    <3>1. /\ req'[r].form = req[r].form /\ req'[r].at = now
          /\ \A q \in Request : q # r => req'[q] = req[q]
      BY <1>0, <2>2 DEF Answer
    <3>2. Final /\ Refused
      BY <2>1, <2>2, <3>1
    <3>. QED
      BY <1>1, <2>2, <3>2
  <2>3. CASE /\ Stored(k) /\ _load_and_delete_code(k)
             /\ Answer(r, v, t) \/ Answer(r, "crashed", None)
    <3>1. d \in CodeRecord
      BY <1>0, <2>1, <2>3 DEF Stored
    <3>2. /\ codes'[k] = [d EXCEPT !.stored = FALSE]
          /\ \A j \in Code : j # k => codes'[j] = codes[j]
      BY <1>0, <2>1, <2>3 DEF _load_and_delete_code
    <3>3. codes'[k] \in CodeRecord /\ ~codes'[k].stored /\ codes'[k].at = d.at
      <4>. HIDE DEF d
      <4>. QED
        BY <3>1, <3>2, ConsumedCode
    <3>4. codes'[k] # None
      BY <3>3, NoneAssumption
    <3>5. PICK w \in SawCode, u \in {t, None} : Answer(r, w, u)
      BY <2>3 DEF Verdict, SawCode
    <3>6. /\ \A q \in Request : q # r => req'[q] = req[q]
          /\ req'[r].form = req[r].form /\ req'[r].reply = w
      BY <1>0, <3>5 DEF Answer
    <3>7. Kept /\ Fresh
      BY <3>2, <3>3, <3>4, <2>3 DEF Stored
    <3>8. Seen
      BY <3>2, <3>5, <3>6
    <3>9. w # "invalid_code"
      BY <3>5 DEF SawCode
    <3>. QED
      BY <1>2, <2>1, <3>6, <3>7, <3>8, <3>9
  <2>. QED
    BY <1>8, <2>2, <2>3 DEF Exchange
<1>. QED
  BY <1>3, <1>4, <1>5, <1>6, <1>7, <1>8 DEF AuthStep

\* A refusal stays explained when the server takes a step.
LEMMA AuthStepRefusal ==
    ASSUME AuthInv, RefusalInv, AuthStep
    PROVE  RefusalInv'
<1>0. /\ now \in Nat /\ now' = now
      /\ \A k \in Code : codes[k] # None => codes[k].at <= now
      /\ \A r \in Request : req[r].reply # None => req[r].pc = "answered"
      /\ codes \in [Code -> CodeRecord \cup {None}] /\ codes' \in [Code -> CodeRecord \cup {None}]
  <2>1. now' = now
    BY DEF AuthStep, register_client, authorize, Post, LoadClient, Exchange, Drop
  <2>. QED
    BY <2>1, AuthStepType DEF AuthInv, TypeOK, CodesSpent
<1>1. \A q \in Request : req[q].reply \in SawCode \cup {"invalid_code"} => req'[q] = req[q]
  BY <1>0, AuthStepEffect, NoneAssumption DEF NoCode
<1>2. \A k \in Code : codes'[k] # None /\ ~codes'[k].stored =>
          \E q \in Request : req'[q].reply \in SawCode /\ req'[q].form.code = k
  <2>. SUFFICES ASSUME NEW k \in Code, codes'[k] # None, ~codes'[k].stored
                PROVE  \E q \in Request : req'[q].reply \in SawCode /\ req'[q].form.code = k
    OBVIOUS
  <2>1. codes[k] # None
    BY AuthStepEffect
  <2>2. CASE codes[k].stored
    BY <2>1, <2>2, AuthStepEffect
  <2>3. CASE ~codes[k].stored
    <3>1. PICK q \in Request : req[q].reply \in SawCode /\ req[q].form.code = k
      BY <2>1, <2>3 DEF RefusalInv
    <3>2. req'[q] = req[q]
      BY <1>1, <3>1
    <3>. QED
      BY <3>1, <3>2
  <2>. QED
    BY <2>2, <2>3
<1>3. ASSUME NEW r \in Request, req'[r].reply = "invalid_code"
      PROVE  LET d == codes'[req'[r].form.code]
             IN  /\ req'[r].form.code \in Code /\ req'[r].at <= now
                 /\ \/ d = None
                    \/ d.at >= req'[r].at
                    \/ req'[r].at >= d.at + CodeTTL
                    \/ \E q \in Request : /\ req'[q].reply \in SawCode
                                          /\ req'[q].form.code = req'[r].form.code
  <2>. DEFINE k == req'[r].form.code
  <2>1. CASE req'[r] # req[r]
    <3>1. k \in Code /\ req'[r].at = now /\ ~Stored(k) /\ codes' = codes
      BY <1>3, <2>1, AuthStepEffect
    <3>2. CASE codes'[k] = None
      BY <1>0, <3>1, <3>2
    <3>3. CASE codes'[k] # None /\ ~codes'[k].stored
      BY <1>0, <1>2, <3>1, <3>3
    <3>4. CASE codes'[k] # None /\ ~(now < codes[k].at + CodeTTL)
      <4>1. codes[k].at \in Nat
        BY <1>0, <3>1, <3>4 DEF CodeRecord
      <4>. QED
        BY <1>0, <3>1, <3>4, <4>1, AuthAssumption
    <3>. QED
      BY <3>1, <3>2, <3>3, <3>4 DEF Stored
  <2>2. CASE req'[r] = req[r]
    <3>1. k \in Code /\ req[r].at <= now /\ req[r].reply = "invalid_code"
      BY <1>3, <2>2 DEF RefusalInv
    <3>2. CASE codes[k] = None
      BY <1>0, <2>2, <3>1, <3>2, AuthStepEffect
    <3>3. CASE codes[k] # None
      <4>1. codes'[k].at = codes[k].at
        BY <3>1, <3>3, AuthStepEffect
      <4>2. \/ codes[k].at >= req[r].at
            \/ req[r].at >= codes[k].at + CodeTTL
            \/ \E q \in Request : req[q].reply \in SawCode /\ req[q].form.code = k
        BY <2>2, <3>1, <3>3 DEF RefusalInv, RefusalExplained
      <4>3. (\E q \in Request : req[q].reply \in SawCode /\ req[q].form.code = k) =>
                \E q \in Request : req'[q].reply \in SawCode /\ req'[q].form.code = k
        BY <1>1
      <4>. QED
        BY <1>0, <2>2, <3>1, <4>1, <4>2, <4>3
    <3>. QED
      BY <3>2, <3>3
  <2>. QED
    BY <2>1, <2>2
<1>. QED
  BY <1>0, <1>2, <1>3 DEF RefusalInv, RefusalExplained

-----------------------------------------------------------------------------
(* The theorems.                                                           *)

\* The invariants hold at the start.
LEMMA InitInv == BridgeInit => IInv
<1>. SUFFICES ASSUME BridgeInit PROVE IInv
  OBVIOUS
<1>1. TypeOK
  BY InitTypeOK
<1>2. ExpiryEstimate
  BY DEF BridgeInit, ExpiryEstimate
<1>3. InFlight /\ NeverRejectedAsExpired
  BY NoneAssumption DEF BridgeInit, InFlight, NeverRejectedAsExpired, Idle
<1>4. \A r \in Request : req[r].pc = "new" /\ req[r].reply = None
  BY DEF BridgeInit, Init, Blank
<1>5. \A r \in Request : req[r].reply \notin SawCode /\ req[r].reply # "token"
  BY <1>4, NoneAssumption DEF SawCode
<1>6. \A k \in Code : codes[k] = None
  BY DEF BridgeInit, Init
<1>7. CodesSpent /\ CodeConsumedOnce /\ TokenBacked
  BY <1>4, <1>5, <1>6 DEF CodesSpent, CodeConsumedOnce, TokenBacked
<1>. QED
  BY <1>1, <1>2, <1>3, <1>7 DEF IInv, BridgeInv, AuthInv

\* Every step keeps the invariants.
LEMMA StepInv == IInv /\ [Next]_vars => IInv'
<1>. SUFFICES ASSUME IInv, [Next]_vars PROVE IInv'
  OBVIOUS
<1>. USE DEF IInv, BridgeInv, AuthInv
<1>1. CASE Tick /\ UNCHANGED bridgeVars
  <2>1. /\ now \in Nat /\ now' = now + 1 /\ UNCHANGED <<clients, codes, req>>
        /\ UNCHANGED <<factory, cache, call>>
    BY <1>1 DEF Tick, bridgeVars, TypeOK
  <2>2. TypeOK'
    BY <2>1 DEF TypeOK
  <2>3. ExpiryEstimate' /\ NeverRejectedAsExpired'
    BY <2>1 DEF ExpiryEstimate, NeverRejectedAsExpired
  <2>4. InFlight'
    <3>1. \A b \in Call : call[b].since \in Nat
      BY DEF TypeOK, CallRecord
    <3>2. \A b \in Call : call[b].token # None => call[b].token.exp \in Nat
      BY DEF TypeOK, CallRecord, Token
    <3>. QED
      BY <2>1, <3>1, <3>2, AuthAssumption DEF InFlight
  <2>5. \A k \in Code : codes[k] # None => codes[k].at \in Nat
    BY DEF TypeOK, CodeRecord
  <2>6. CodesSpent'
    BY <2>1, <2>5 DEF CodesSpent
  <2>7. CodeConsumedOnce' /\ TokenBacked'
    BY <2>1 DEF CodeConsumedOnce, TokenBacked, _compute_s256
  <2>. QED
    BY <2>2, <2>3, <2>4, <2>6, <2>7
<1>2. CASE AuthStep /\ UNCHANGED bridgeVars
  <2>1. UNCHANGED <<factory, cache, call>>
    BY <1>2 DEF bridgeVars
  <2>2. TypeOK'
    BY <1>2, <2>1, AuthStepType DEF TypeOK
  <2>3. CodesSpent' /\ TokenBacked' /\ CodeConsumedOnce'
    BY <1>2, AuthStepCodes
  <2>4. now' = now
    BY <1>2 DEF AuthStep, register_client, authorize, Post, LoadClient, Exchange, Drop
  <2>5. ExpiryEstimate' /\ InFlight' /\ NeverRejectedAsExpired'
    BY <2>1, <2>4 DEF ExpiryEstimate, InFlight, NeverRejectedAsExpired
  <2>. QED
    BY <2>2, <2>3, <2>5
<1>3. ASSUME NEW b \in Call, BridgeStep(b)
      PROVE  IInv'
  <2>1. TypeOK'
    BY <1>3, BridgeStepType
  <2>2. ExpiryEstimate' /\ InFlight' /\ NeverRejectedAsExpired'
    BY <1>3, BridgeStepMargin
  <2>3. now' = now /\ codes' = codes /\ req' = req
    BY <1>3 DEF BridgeStep, CacheHit, StartFetch, SelfSign, AnswerFetch, Fetched, GiveUp,
                Verify, authVars
  <2>4. CodesSpent' /\ CodeConsumedOnce' /\ TokenBacked'
    BY <2>3 DEF CodesSpent, CodeConsumedOnce, TokenBacked, _compute_s256
  <2>. QED
    BY <2>1, <2>2, <2>4
<1>4. CASE UNCHANGED vars
  <2>1. UNCHANGED <<now, clients, codes, req, factory, cache, call>>
    BY <1>4 DEF vars
  <2>2. TypeOK'
    BY <2>1 DEF TypeOK
  <2>3. ExpiryEstimate' /\ InFlight' /\ NeverRejectedAsExpired'
    BY <2>1 DEF ExpiryEstimate, InFlight, NeverRejectedAsExpired
  <2>4. CodesSpent' /\ CodeConsumedOnce' /\ TokenBacked'
    BY <2>1 DEF CodesSpent, CodeConsumedOnce, TokenBacked, _compute_s256
  <2>. QED
    BY <2>2, <2>3, <2>4
<1>. QED
  BY <1>1, <1>2, <1>3, <1>4 DEF Next

\* Every reachable state satisfies the inductive invariant.
THEOREM BridgeInvariant == Spec => []IInv
<1>. QED
  BY InitInv, StepInv, PTL DEF Spec

\* No call is turned away because its token has expired, whatever the number of
\* calls, the lifetime of tokens and the order of answers, as long as twice the
\* time an exchange may take is within the margin and the lifetime.
THEOREM MarginSuffices == Spec => []NeverRejectedAsExpired
<1>1. IInv => NeverRejectedAsExpired
  BY DEF IInv, BridgeInv
<1>. QED
  BY <1>1, BridgeInvariant, PTL

\* A code is seen by one request at most, for every number of replicas, codes
\* and requests.
THEOREM OneTimeCodes == Spec => []CodeConsumedOnce
<1>1. IInv => CodeConsumedOnce
  BY DEF IInv, AuthInv
<1>. QED
  BY <1>1, BridgeInvariant, PTL

\* Every token of the code grant is backed by the authorization it was given for.
THEOREM TokensAreBacked == Spec => []TokenBacked
<1>1. IInv => TokenBacked
  BY DEF IInv, AuthInv
<1>. QED
  BY <1>1, BridgeInvariant, PTL

\* Whatever the order of requests, replicas' deaths and the clock, a code is
\* refused as invalid or expired only for one of the reasons of the code.
THEOREM RefusalsAreExplained == Spec => []RefusalExplained
<1>1. BridgeInit => RefusalInv
  <2>1. BridgeInit => \A k \in Code : codes[k] = None
    BY DEF BridgeInit, Init
  <2>2. BridgeInit => \A r \in Request : req[r].reply = None
    BY DEF BridgeInit, Init, Blank
  <2>3. None # "invalid_code"
    BY NoneAssumption DEF NoCode
  <2>. QED
    BY <2>1, <2>2, <2>3 DEF RefusalInv, RefusalExplained
<1>2. IInv /\ RefusalInv /\ [Next]_vars => RefusalInv'
  <2>. SUFFICES ASSUME IInv, RefusalInv, [Next]_vars PROVE RefusalInv'
    OBVIOUS
  <2>1. CASE AuthStep
    BY <2>1, AuthStepRefusal DEF IInv
  <2>2. CASE codes' = codes /\ req' = req /\ now' \in Nat /\ now' >= now
    <3>1. \A r \in Request : req[r].at \in Nat
      BY DEF IInv, AuthInv, TypeOK, ReqRecord
    <3>2. now \in Nat
      BY DEF IInv, AuthInv, TypeOK
    <3>. QED
      BY <2>2, <3>1, <3>2 DEF RefusalInv, RefusalExplained
  <2>3. now \in Nat
    BY DEF IInv, AuthInv, TypeOK
  <2>4. CASE Tick
    BY <2>2, <2>3, <2>4 DEF Tick
  <2>5. CASE \E b \in Call : BridgeStep(b)
    <3>1. codes' = codes /\ req' = req /\ now' = now
      BY <2>5 DEF BridgeStep, CacheHit, StartFetch, SelfSign, AnswerFetch, Fetched, GiveUp,
                  Verify, authVars
    <3>. QED
      BY <2>2, <2>3, <3>1
  <2>6. CASE UNCHANGED vars
    BY <2>2, <2>3, <2>6 DEF vars
  <2>. QED
    BY <2>1, <2>4, <2>5, <2>6 DEF Next
<1>3. RefusalInv => RefusalExplained
  BY DEF RefusalInv
<1>. QED
  BY <1>1, <1>2, <1>3, BridgeInvariant, PTL DEF Spec
=============================================================================
