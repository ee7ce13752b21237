----------------------------- MODULE AuthServer -----------------------------
(***************************************************************************)
(* The OAuth 2.1 authorization server (auth/server.py, auth/session.py):   *)
(* clients and one-time authorization codes in Redis, and the /token       *)
(* exchange.  Several replicas may share the Redis (AUTH_REDIS_URL), so a  *)
(* /token request is split at its two Redis calls: _load_client, then the  *)
(* GETDEL of the code with everything after it, which is synchronous.      *)
(*                                                                         *)
(* A code is a random 256-bit string: it is drawn at most once.  The hash  *)
(* of PKCE is injective.  A token is the record of its claims; the         *)
(* signature and the fixed audience are left out.                          *)
(***************************************************************************)
EXTENDS Integers, FiniteSets

CONSTANTS
    Client,
    Secret,
    User,         \* user ids that name a session
    BadUser,      \* user ids generate_session_id refuses: empty or with a colon
    Verifier,
    Code,
    Scope,        \* the scope parameters used: sets of scope words
    Request,      \* POST /token requests of users
    Registration, \* the clients that are registered: ClientRegistrationRequest
    Authorization,\* what /authorize is asked for
    Form,         \* the forms posted to /token: TokenRequest
    CodeTTL,      \* _CODE_TTL_SECONDS
    TokenTTL,     \* lifetime of a JWT
    MaxTime,      \* bound on the clock
    None

ASSUME AuthAssumption ==
    /\ CodeTTL \in Nat \ {0} /\ TokenTTL \in Nat \ {0} /\ MaxTime \in Nat
    /\ User \cap BadUser = {}
    /\ None \notin Client \cup Code \cup Verifier
    /\ Registration \subseteq [client_id : Client, client_secret : Secret, scope : Scope]
    /\ Authorization \subseteq [client_id : Client, code_verifier : Verifier,
                                 scope : Scope, user_id : User \cup BadUser]
    /\ Form \subseteq [grant : {"authorization_code", "client_credentials", "other"},
                        client : Client, secret : Secret,
                        code : Code \cup {None}, code_verifier : Verifier \cup {None}]

VARIABLES
    now,          \* time.time(), and the clock of Redis
    clients,      \* auth:client:*
    codes,        \* auth:code:*, and what was stored once it is gone
    req           \* the /token requests in flight and answered

authVars == <<now, clients, codes, req>>

-----------------------------------------------------------------------------
(* Scopes, sessions and tokens.                                            *)

SCOPE_EXPANSION(s) == IF s = "tools:all" THEN {"tools:list", "tools:call"} ELSE {s}

expand_scope(scope) == UNION {SCOPE_EXPANSION(s) : s \in scope}

\* generate_session_id raises on a user id it cannot put in front of a colon.
HasSession(sub) == sub \notin BadUser

_compute_s256(verifier) == <<"S256", verifier>>

\* _issue_token: the claims of the JWT.
_issue_token(scope, sub) ==
    [sub |-> sub, scope |-> expand_scope(scope), iat |-> now, exp |-> now + TokenTTL]

\* The words a token may carry; the bridge signs "tools:call" itself.
ScopeWord == UNION {expand_scope(s) : s \in Scope \cup {{"tools:call"}}}
Token == [sub : User \cup Client, scope : SUBSET ScopeWord, iat : Nat, exp : Nat]

-----------------------------------------------------------------------------
(* The requests of users.                                                  *)

\* What a request that read the code's data may be told.
SawCode == {"token", "client_mismatch", "pkce_failed", "server_error", "crashed"}
\* What a request that did not may be told.
NoCode == {"invalid_client", "missing_fields", "invalid_code", "unsupported",
           "dropped", "m2m_token", "m2m_server_error"}

ClientRecord == [secret : Secret, scope : Scope]
CodeRecord == [stored : BOOLEAN, client_id : Client, code_challenge : {"S256"} \X Verifier,
               user_id : User \cup BadUser, scope : Scope, at : Nat]

\* None is none of the values it stands in for.
ASSUME NoneAssumption ==
    None \notin Token \cup CodeRecord \cup Form \cup SawCode \cup NoCode \cup {"expired"}

Answer(r, what, tok) ==
    req' = [req EXCEPT ![r] = [pc |-> "answered", form |-> req[r].form,
                               reply |-> what, token |-> tok, at |-> now]]

Blank == [pc |-> "new", form |-> None, reply |-> None, token |-> None, at |-> 0]

\* (mutant) A code is gone one tick before its time.
StoredShorter(k) == codes[k] # None /\ codes[k].stored /\ now + 1 < codes[k].at + CodeTTL

\* GET of the code's key (external: Redis forgets it after CodeTTL).
Stored(k) == codes[k] # None /\ codes[k].stored /\ now < codes[k].at + CodeTTL

Init ==
    /\ now = 0
    /\ clients = [c \in Client |-> None]
    /\ codes = [k \in Code |-> None]
    /\ req = [r \in Request |-> Blank]

Tick ==
    /\ now < MaxTime
    /\ now' = now + 1
    /\ UNCHANGED <<clients, codes, req>>

\* POST /register: stores the client, or overwrites it.
register_client(g) ==
    /\ clients' = [clients EXCEPT ![g.client_id] = [secret |-> g.client_secret, scope |-> g.scope]]
    /\ UNCHANGED <<now, codes, req>>

\* GET /authorize with S256: a fresh code for a known client.  Any other
\* method and an unknown client are refused and change nothing.
authorize(k, a) ==
    /\ clients[a.client_id] # None
    /\ codes[k] = None
    /\ codes' = [codes EXCEPT ![k] =
           [stored |-> TRUE, client_id |-> a.client_id,
            code_challenge |-> _compute_s256(a.code_verifier),
            user_id |-> a.user_id, scope |-> a.scope, at |-> now]]
    /\ UNCHANGED <<now, clients, req>>

\* A user posts a /token form; a retry after a lost answer is a new request.
Post(r, form) ==
    /\ req[r].pc = "new"
    /\ req' = [req EXCEPT ![r].pc = "posted", ![r].form = form]
    /\ UNCHANGED <<now, clients, codes>>

Authentic(c, secret) == c # None /\ c.secret = secret

\* token() up to the GETDEL: credentials, grant type, required fields, and
\* the whole of the client_credentials grant.
LoadClient(r) ==
    LET f == req[r].form
        c == clients[f.client]
    IN  /\ req[r].pc = "posted"
        /\ \/ /\ ~Authentic(c, f.secret)
              /\ Answer(r, "invalid_client", None)
           \/ /\ Authentic(c, f.secret)
              /\ \/ /\ f.grant = "client_credentials"
                    /\ IF HasSession(f.client)
                       THEN Answer(r, "m2m_token", _issue_token(c.scope, f.client))
                       ELSE Answer(r, "m2m_server_error", None)
                 \/ /\ f.grant = "other"
                    /\ Answer(r, "unsupported", None)
                 \/ /\ f.grant = "authorization_code"
                    /\ IF f.code = None \/ f.code_verifier = None
                       THEN Answer(r, "missing_fields", None)
                       ELSE req' = [req EXCEPT ![r].pc = "exchange"]
        /\ UNCHANGED <<now, clients, codes>>

\* (mutant) The verifier is not compared with the challenge.
VerdictUnverified(f, d) ==
    IF d.client_id # f.client THEN "client_mismatch"
    ELSE IF ~HasSession(d.user_id) THEN "server_error"
    ELSE "token"

\* What token() answers once it has the data d of the code.
Verdict(f, d) ==
    IF d.client_id # f.client THEN "client_mismatch"
    ELSE IF _compute_s256(f.code_verifier) # d.code_challenge THEN "pkce_failed"
    ELSE IF ~HasSession(d.user_id) THEN "server_error"
    ELSE "token"

\* (mutant) GET instead of GETDEL.
LoadKeepingCode(k) == UNCHANGED codes

_load_and_delete_code(k) == codes' = [codes EXCEPT ![k].stored = FALSE]

\* token() from the GETDEL on.  The replica may die after the GETDEL.
Exchange(r) ==
    LET f == req[r].form
        d == codes[f.code]
        v == Verdict(f, d)
    IN  /\ req[r].pc = "exchange"
        /\ \/ /\ ~Stored(f.code)
              /\ Answer(r, "invalid_code", None)
              /\ UNCHANGED codes
           \/ /\ Stored(f.code)
              /\ _load_and_delete_code(f.code)
              /\ \/ Answer(r, v, IF v = "token" THEN _issue_token(d.scope, d.user_id) ELSE None)
                 \/ Answer(r, "crashed", None)
        /\ UNCHANGED <<now, clients>>

\* The replica dies, or the request is lost, before the GETDEL.
Drop(r) ==
    /\ req[r].pc \in {"posted", "exchange"}
    /\ Answer(r, "dropped", None)
    /\ UNCHANGED <<now, clients, codes>>

AuthStep ==
    \/ \E g \in Registration : register_client(g)
    \/ \E k \in Code, a \in Authorization : authorize(k, a)
    \/ \E r \in Request : \/ \E form \in Form : Post(r, form)
                          \/ LoadClient(r) \/ Exchange(r) \/ Drop(r)
=============================================================================
