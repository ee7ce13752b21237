------------------------------ MODULE MCShared ------------------------------
(***************************************************************************)
(* Instances for TLC of what several processes or threads share: the       *)
(* authorization codes and tokens (Bridge), the Redis nodes of a lock      *)
(* (Redlock) and the attributes of a breaker (CircuitBreaker).  They have  *)
(* no step in common: each behaviour follows one.                          *)
(***************************************************************************)
EXTENDS Bridge, MCRedlock, CircuitBreaker

CONSTANTS c1, c2, s1, s2, k1, v1, v2, user, UserTime

MCScope == {{"tools:all"}, {"tools:list"}}

\* c1 registers twice; c2 shares the secret, and its name cannot be a subject.
MCRegistration ==
    {[client_id |-> c1, client_secret |-> s1, scope |-> {"tools:all"}],
     [client_id |-> c1, client_secret |-> s2, scope |-> {"tools:list"}],
     [client_id |-> c2, client_secret |-> s1, scope |-> {"tools:all"}]}

MCAuthorization ==
    {[client_id |-> c1, code_verifier |-> v1, scope |-> {"tools:all"}, user_id |-> user],
     [client_id |-> c1, code_verifier |-> v1, scope |-> {"tools:list"}, user_id |-> c2]}

\* The right form, one with each field wrong, a machine client, an unknown grant.
Right == [grant |-> "authorization_code", client |-> c1, secret |-> s1,
          code |-> k1, code_verifier |-> v1]
MCForm == {Right,
           [Right EXCEPT !.client = c2],
           [Right EXCEPT !.secret = s2],
           [Right EXCEPT !.code_verifier = v2],
           [Right EXCEPT !.code = None],
           [Right EXCEPT !.grant = "client_credentials"],
           [Right EXCEPT !.grant = "other"]}

\* The users of /authorize and /token and the callers of the bridge share only
\* the registry, which both only read: they are two sides as well.
VARIABLE side    \* "users", "bridge", "lock" or "breaker"

allSharedVars == <<vars, redlockVars, breakerVars, side>>

\* Where a choice of the initial state is of no account to a side, it is made.
MCInit ==
    /\ BridgeInit /\ RedlockInit /\ BreakerInit
    /\ side \in {"users", "bridge", "lock", "breaker"}
    /\ side # "bridge" => factory = "client_credentials"
    /\ side # "lock" => \A s, t \in Session : via[s] = via[t]
    /\ side # "breaker" => ~timedOut

UsersNext == Next /\ UNCHANGED bridgeVars /\ now' <= UserTime
CallersNext == Next /\ UNCHANGED <<codes, req>>

MCNext ==
    /\ \/ side = "users" /\ UsersNext /\ UNCHANGED <<redlockVars, breakerVars>>
       \/ side = "bridge" /\ CallersNext /\ UNCHANGED <<redlockVars, breakerVars>>
       \/ side = "lock" /\ RedlockNext /\ UNCHANGED <<vars, breakerVars>>
       \/ side = "breaker" /\ BreakerNext /\ UNCHANGED <<vars, redlockVars>>
    /\ UNCHANGED side

MCSpec == MCInit /\ [][MCNext]_allSharedVars

=============================================================================
