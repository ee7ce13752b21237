------------------------------- MODULE Bridge -------------------------------
(***************************************************************************)
(* The bridge to the gateway (bridge/oauth_middleware.py,                  *)
(* bridge/gateway_client.py, the factories of bridge/__main__.py), the     *)
(* authorization server it takes its tokens from, and the gateway's check  *)
(* of the token (auth/resource.py).  Concurrent calls share one cached     *)
(* token and may each fetch a new one.                                     *)
(*                                                                         *)
(* A call is one call_tool(): get_token(), which may POST /token, then     *)
(* POST /mcp.  HTTP exchanges take time; httpx gives up after Timeout.     *)
(***************************************************************************)
EXTENDS AuthServer

CONSTANTS
    Call,          \* concurrent callers of call_tool()
    BridgeClient,  \* BRIDGE_CLIENT_ID
    BridgeSecret,  \* BRIDGE_CLIENT_SECRET
    Margin,        \* the 60 s of _is_valid
    Timeout        \* the longest httpx waits for an answer

ASSUME BridgeAssumption ==
    /\ BridgeClient \in Client /\ BridgeSecret \in Secret
    /\ Margin \in Nat /\ Timeout \in Nat
    /\ 2 * Timeout <= Margin
    /\ 2 * Timeout <= TokenTTL

VARIABLES
    factory,       \* which token factory _build_middleware chose
    cache,         \* _token and _expires_at of the middleware
    call           \* the calls in flight

bridgeVars == <<factory, cache, call>>
vars == <<now, clients, codes, req, factory, cache, call>>

CallState == {"idle", "fetch", "reply", "send"}
Outcome == {None, "accepted", "failed", "forbidden", "expired"}
Idle(outcome) == [pc |-> "idle", since |-> 0, token |-> None, outcome |-> outcome]

BridgeInit ==
    /\ Init
    /\ factory \in {"client_credentials", "self_signed"}
    /\ cache = [token |-> None, expires_at |-> 0]
    /\ call = [b \in Call |-> Idle(None)]

-----------------------------------------------------------------------------
\* (mutant) The cached token is used to its last moment.
IsValidWithoutMargin == cache.token # None /\ now < cache.expires_at

_is_valid == cache.token # None /\ now < cache.expires_at - Margin

Sending(b, token) == [call EXCEPT ![b] = [@ EXCEPT !.pc = "send", !.since = now, !.token = token]]

\* get_token() on a hit: inject, then POST /mcp with the cached token.
CacheHit(b) ==
    /\ call[b].pc = "idle" /\ _is_valid
    /\ call' = Sending(b, cache.token)
    /\ UNCHANGED <<authVars, factory, cache>>

\* get_token() on a miss with the async factory: POST /token, and wait.
StartFetch(b) ==
    /\ call[b].pc = "idle" /\ ~_is_valid
    /\ factory = "client_credentials"
    /\ call' = [call EXCEPT ![b] = [Idle(None) EXCEPT !.pc = "fetch", !.since = now]]
    /\ UNCHANGED <<authVars, factory, cache>>

\* get_token() on a miss with the synchronous factory of __main__.
SelfSign(b) ==
    LET t == _issue_token({"tools:call"}, BridgeClient)
    IN  /\ call[b].pc = "idle" /\ ~_is_valid
        /\ factory = "self_signed"
        /\ HasSession(BridgeClient)
        /\ cache' = [token |-> t, expires_at |-> now + TokenTTL]
        /\ call' = Sending(b, t)
        /\ UNCHANGED <<authVars, factory>>

\* The server's side of the bridge's POST /token: the client_credentials
\* grant of token(), atomic as in LoadClient.
AnswerFetch(b) ==
    LET c == clients[BridgeClient]
    IN  /\ call[b].pc = "fetch"
        /\ call' = [call EXCEPT ![b].pc = "reply",
                                ![b].token = IF Authentic(c, BridgeSecret) /\ HasSession(BridgeClient)
                                             THEN _issue_token(c.scope, BridgeClient) ELSE None]
        /\ UNCHANGED <<authVars, factory, cache>>

\* The factory returns: raise_for_status, or cache the token with an expiry
\* counted from now, and POST /mcp with it.
Fetched(b) ==
    /\ call[b].pc = "reply" /\ now <= call[b].since + Timeout
    /\ IF call[b].token = None
       THEN /\ call' = [call EXCEPT ![b] = Idle("failed")]
            /\ UNCHANGED cache
       ELSE /\ cache' = [token |-> call[b].token, expires_at |-> now + TokenTTL]
            /\ call' = Sending(b, call[b].token)
    /\ UNCHANGED <<authVars, factory>>

\* httpx gives up on either exchange; the call raises, the cache stays.
GiveUp(b) ==
    /\ call[b].pc # "idle" /\ now >= call[b].since + Timeout
    /\ call' = [call EXCEPT ![b] = Idle("failed")]
    /\ UNCHANGED <<authVars, factory, cache>>

\* verify_token("tools:call", optional) and tools/call on the gateway: an
\* expired token counts as none, a token without the scope is forbidden.
verify_token(token) ==
    IF token.exp < now THEN "expired"
    ELSE IF "tools:call" \notin token.scope THEN "forbidden"
    ELSE "accepted"

Verify(b) ==
    /\ call[b].pc = "send" /\ now <= call[b].since + Timeout
    /\ call' = [call EXCEPT ![b] = Idle(verify_token(call[b].token))]
    /\ UNCHANGED <<authVars, factory, cache>>

BridgeStep(b) ==
    \/ CacheHit(b) \/ StartFetch(b) \/ SelfSign(b) \/ AnswerFetch(b)
    \/ Fetched(b) \/ GiveUp(b) \/ Verify(b)

Next ==
    \/ Tick /\ UNCHANGED bridgeVars
    \/ AuthStep /\ UNCHANGED bridgeVars
    \/ \E b \in Call : BridgeStep(b)

Spec == BridgeInit /\ [][Next]_vars

-----------------------------------------------------------------------------
(* Properties.                                                             *)

ReqRecord == [pc : {"new", "posted", "exchange", "answered"}, form : Form \cup {None},
              reply : SawCode \cup NoCode \cup {None}, token : Token \cup {None}, at : Nat]
CallRecord == [pc : CallState, since : Nat, token : Token \cup {None}, outcome : Outcome]

\* Every variable has its type; tokens carry expanded scope words only.
TypeOK ==
    /\ now \in Nat
    /\ clients \in [Client -> ClientRecord \cup {None}]
    /\ codes \in [Code -> CodeRecord \cup {None}]
    /\ req \in [Request -> ReqRecord]
    /\ factory \in {"client_credentials", "self_signed"}
    /\ cache \in [token : Token \cup {None}, expires_at : Nat]
    /\ call \in [Call -> CallRecord]

\* One-time use under concurrent requests (server.py:355): of all requests
\* that present a code, at most one ever sees what was stored under it,
\* whatever it is told then; a code spent on a wrong verifier stays spent.
CodeConsumedOnce ==
    \A r, q \in Request :
        /\ req[r].reply \in SawCode /\ req[q].reply \in SawCode
        /\ req[r].form.code = req[q].form.code
        => r = q

\* A token of the code grant says what the /authorize request asked for: the
\* same client, its challenge met by the verifier, the user as subject, the
\* scope expanded, issued within the life of the code.
TokenBacked ==
    \A r \in Request : req[r].reply = "token" =>
        LET f == req[r].form
            d == codes[f.code]
            t == req[r].token
        IN  /\ d # None /\ d.client_id = f.client
            /\ d.code_challenge = _compute_s256(f.code_verifier)
            /\ t.sub = d.user_id /\ t.scope = expand_scope(d.scope)
            /\ d.at <= t.iat /\ t.iat < d.at + CodeTTL

\* A code is refused as invalid or expired only if it was not issued before,
\* had expired, or another request consumed it.
RefusalExplained ==
    \A r \in Request : req[r].reply = "invalid_code" =>
        LET d == codes[req[r].form.code]
        IN  \/ d = None
            \/ d.at >= req[r].at
            \/ req[r].at >= d.at + CodeTTL
            \/ \E q \in Request : /\ req[q].reply \in SawCode
                                  /\ req[q].form.code = req[r].form.code

\* No call is turned away because the token it carries has expired: neither
\* with a token cached by an overlapping fetch, nor when both exchanges take
\* as long as httpx allows.
NeverRejectedAsExpired == \A b \in Call : call[b].outcome # "expired"

\* The expiry the bridge assumes is never before the real one, and after it
\* by at most the time the answer of /token may take.
ExpiryEstimate ==
    cache.token # None =>
        /\ cache.token.exp <= cache.expires_at
        /\ cache.expires_at <= cache.token.exp + Timeout

\* Why the margin is enough: a token on its way to the bridge was issued after
\* it was asked for, and one on its way to the gateway lasts the exchange.
InFlight ==
    \A b \in Call :
        /\ call[b].pc # "idle" => call[b].since <= now
        /\ call[b].pc = "reply" /\ call[b].token # None =>
               /\ call[b].token.exp >= call[b].since + TokenTTL
               /\ call[b].token.exp <= now + TokenTTL
        /\ call[b].pc = "send" => /\ call[b].token # None
                                  /\ call[b].token.exp >= call[b].since + Timeout

BridgeInv == TypeOK /\ ExpiryEstimate /\ InFlight /\ NeverRejectedAsExpired

\* A request that saw the data of a code left the code spent; one that is about
\* to ask for it names a code and a verifier; codes are not from the future.
CodesSpent ==
    /\ \A k \in Code : codes[k] # None => codes[k].at <= now
    /\ \A r \in Request :
           /\ req[r].pc # "new" => req[r].form \in Form
           /\ req[r].pc = "exchange" => /\ req[r].form.code # None
                                        /\ req[r].form.code_verifier # None
           /\ req[r].pc # "answered" => req[r].reply = None
           /\ req[r].reply \in SawCode =>
                  /\ req[r].form.code \in Code
                  /\ codes[req[r].form.code] # None
                  /\ ~codes[req[r].form.code].stored

AuthInv == TypeOK /\ CodesSpent /\ CodeConsumedOnce /\ TokenBacked

\* The two together are preserved by every step, and imply each safety property
\* but RefusalExplained.
IInv == BridgeInv /\ AuthInv

\* Why a refusal stays explained: a code that is spent was seen by a request,
\* and a code authorized after a refusal is younger than it.
RefusalInv ==
    /\ \A k \in Code : codes[k] # None /\ ~codes[k].stored =>
           \E q \in Request : req[q].reply \in SawCode /\ req[q].form.code = k
    /\ \A r \in Request : req[r].reply = "invalid_code" =>
           /\ req[r].form.code \in Code
           /\ req[r].at <= now
    /\ RefusalExplained
=============================================================================
