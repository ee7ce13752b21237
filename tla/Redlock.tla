------------------------------ MODULE Redlock ------------------------------
(***************************************************************************)
(* RedlockClient (streams/redlock.py): a quorum lock on one key over       *)
(* several independent Redis nodes.                                        *)
(*                                                                         *)
(* A session is one acquire() call and the release() that follows it; the  *)
(* token it draws is fresh, so the session names its token.  Sessions that *)
(* go through the same RedlockClient share its _tokens dict, which knows   *)
(* one token per key.  Nodes are visited in list order.  Time is a         *)
(* discrete clock that may pass between any two calls; a key set with PX   *)
(* expires by itself.                                                      *)
(***************************************************************************)
EXTENDS Integers, FiniteSets

CONSTANTS
    Session,
    LockClient,   \* RedlockClient objects
    N,            \* number of nodes, visited as 1..N
    TTL,          \* ttl_ms, in clock ticks
    RetryCount,   \* retry_count
    MaxFaults,    \* bound on node calls that raise
    MaxClock,     \* bound on the clock
    Nil

ASSUME RedlockAssumption ==
    /\ N \in Nat \ {0}
    /\ TTL \in Nat \ {0}
    /\ RetryCount \in Nat \ {0}
    /\ MaxFaults \in Nat /\ MaxClock \in Nat
    /\ Nil \notin Session

VARIABLES
    clock,
    owner, expiry,        \* per node: the stored token and when it expires
    pc, at,               \* per session: position, and the node it visits next
    got, start, tries,    \* acquired_nodes, start_ms, loop counter of acquire()
    via,                  \* per session: the client object it calls
    tokens,               \* per client: its _tokens entry for the key
    using,                \* per session: the token _release_partial compares with
    faults,
    robbed,               \* sessions whose live key another session's DELETE removed
    taken                 \* sessions whose _tokens entry another session overwrote or popped

nodes == <<owner, expiry>>
dicts == <<via, tokens, using, taken>>
redlockVars == <<clock, nodes, pc, at, got, start, tries, dicts, faults, robbed>>

Node == 1..N

\* (mutant) Half of the nodes without the one that makes a majority.
HalfQuorum == N \div 2

quorum == N \div 2 + 1

-----------------------------------------------------------------------------
(* The key on node n at this moment (external: Redis).                      *)
KeyAt(n) == IF owner[n] # Nil /\ clock < expiry[n] THEN owner[n] ELSE Nil

Reply == {"ok", "lostRequest", "lostReply"}
NodeCall(o) ==
    IF o = "ok" THEN UNCHANGED faults ELSE faults < MaxFaults /\ faults' = faults + 1

ClockTicks ==
    /\ clock < MaxClock
    /\ clock' = clock + 1
    /\ UNCHANGED <<nodes, pc, at, got, start, tries, dicts, faults, robbed>>

-----------------------------------------------------------------------------
\* Start of an attempt of acquire(): the first, or a retry after the sleep.
Begin(s) ==
    /\ pc[s] \in {"idle", "retry"}
    /\ pc' = [pc EXCEPT ![s] = "set"]
    /\ at' = [at EXCEPT ![s] = 1]
    /\ got' = [got EXCEPT ![s] = {}]
    /\ start' = [start EXCEPT ![s] = clock]
    /\ tries' = [tries EXCEPT ![s] = @ + 1]
    /\ robbed' = robbed \ {s}
    /\ UNCHANGED <<clock, nodes, dicts, faults>>

\* SET key token NX PX on the next node; an exception counts as "not acquired".
SetNode(s, o) ==
    LET n == at[s]
        done == o # "lostRequest" /\ KeyAt(n) = Nil
    IN
    /\ pc[s] = "set"
    /\ n <= N
    /\ NodeCall(o)
    /\ owner' = IF done THEN [owner EXCEPT ![n] = s] ELSE owner
    /\ expiry' = IF done THEN [expiry EXCEPT ![n] = clock + TTL] ELSE expiry
    /\ got' = IF done /\ o = "ok" THEN [got EXCEPT ![s] = @ \cup {n}] ELSE got
    /\ at' = [at EXCEPT ![s] = n + 1]
    /\ UNCHANGED <<clock, pc, start, tries, dicts, robbed>>

\* (mutant) The node index is not reset before the keys are given back.
DecideUnreset(s) ==
    /\ pc[s] = "set"
    /\ at[s] = N + 1
    /\ pc' = [pc EXCEPT ![s] = IF Cardinality(got[s]) >= quorum /\ clock < start[s] + TTL
                               THEN "won" ELSE "undo"]
    /\ using' = [using EXCEPT ![s] = s]
    /\ UNCHANGED <<clock, nodes, at, got, start, tries, via, tokens, taken, faults, robbed>>

\* All nodes visited: quorum within the validity time, or give the keys back.
Decide(s) ==
    LET validity == TTL - (clock - start[s]) IN
    /\ pc[s] = "set"
    /\ at[s] = N + 1
    /\ pc' = [pc EXCEPT ![s] = IF Cardinality(got[s]) >= quorum /\ validity > 0
                               THEN "won" ELSE "undo"]
    /\ at' = [at EXCEPT ![s] = 1]
    /\ using' = [using EXCEPT ![s] = s]
    /\ UNCHANGED <<clock, nodes, got, start, tries, via, tokens, taken, faults, robbed>>

\* The client remembers the token, in the place of any other it knew: acquire() = True.
Remember(s) ==
    /\ pc[s] = "won"
    /\ pc' = [pc EXCEPT ![s] = "held"]
    /\ tokens' = [tokens EXCEPT ![via[s]] = s]
    /\ taken' = taken \cup ({tokens[via[s]]} \ {Nil})
    /\ UNCHANGED <<clock, nodes, at, got, start, tries, via, using, faults, robbed>>

\* release() pops the token its client remembers, whoever it is of, and visits every node
\* with it; it returns at once when there is none.
release(s) ==
    LET u == tokens[via[s]] IN
    /\ pc[s] = "held"
    /\ pc' = [pc EXCEPT ![s] = IF u = Nil THEN "released" ELSE "undo"]
    /\ using' = [using EXCEPT ![s] = IF u = Nil THEN s ELSE u]
    /\ tokens' = [tokens EXCEPT ![via[s]] = Nil]
    /\ taken' = taken \cup ({u} \ {Nil, s})
    /\ got' = [got EXCEPT ![s] = Node]
    /\ tries' = [tries EXCEPT ![s] = RetryCount + 1]
    /\ UNCHANGED <<clock, nodes, at, start, via, faults, robbed>>

\* _release_partial: GET on the next node of the list; the DELETE is a second call.
GetNode(s, o) ==
    LET n == at[s] IN
    /\ pc[s] = "undo"
    /\ n <= N
    /\ IF n \notin got[s] THEN o = "ok" /\ UNCHANGED faults ELSE NodeCall(o)
    /\ IF n \in got[s] /\ o = "ok" /\ KeyAt(n) = using[s]
       THEN pc' = [pc EXCEPT ![s] = "delete"] /\ UNCHANGED at
       ELSE at' = [at EXCEPT ![s] = n + 1] /\ UNCHANGED pc
    /\ UNCHANGED <<clock, nodes, got, start, tries, dicts, robbed>>

\* DELETE takes the key as it is by now.
DeleteNode(s, o) ==
    LET n == at[s]
        done == o # "lostRequest"
    IN
    /\ pc[s] = "delete"
    /\ NodeCall(o)
    /\ owner' = IF done THEN [owner EXCEPT ![n] = Nil] ELSE owner
    /\ robbed' = IF done THEN robbed \cup ({KeyAt(n)} \ {Nil, s}) ELSE robbed
    /\ pc' = [pc EXCEPT ![s] = "undo"]
    /\ at' = [at EXCEPT ![s] = n + 1]
    /\ UNCHANGED <<clock, expiry, got, start, tries, dicts>>

\* All nodes undone: a released lock, a further attempt, or acquire() = False.
Undone(s) ==
    /\ pc[s] = "undo"
    /\ at[s] = N + 1
    /\ pc' = [pc EXCEPT ![s] = IF tries[s] > RetryCount THEN "released"
                               ELSE IF tries[s] < RetryCount THEN "retry" ELSE "failed"]
    /\ UNCHANGED <<clock, nodes, at, got, start, tries, dicts, faults, robbed>>

-----------------------------------------------------------------------------
RedlockInit ==
    /\ clock = 0
    /\ owner = [n \in Node |-> Nil]
    /\ expiry = [n \in Node |-> 0]
    /\ pc = [s \in Session |-> "idle"]
    /\ at = [s \in Session |-> 1]
    /\ got = [s \in Session |-> {}]
    /\ start = [s \in Session |-> 0]
    /\ tries = [s \in Session |-> 0]
    /\ via \in [Session -> LockClient]
    /\ tokens = [c \in LockClient |-> Nil]
    /\ using = [s \in Session |-> s]
    /\ faults = 0
    /\ robbed = {}
    /\ taken = {}

RedlockNext ==
    \/ ClockTicks
    \/ \E s \in Session : Begin(s) \/ Decide(s) \/ Remember(s) \/ release(s) \/ Undone(s)
    \/ \E s \in Session, o \in Reply : SetNode(s, o) \/ GetNode(s, o) \/ DeleteNode(s, o)

RedlockSpec == RedlockInit /\ [][RedlockNext]_redlockVars

-----------------------------------------------------------------------------
\* Types of the clients' dicts, and of the two history variables.
TokensOK ==
    /\ via \in [Session -> LockClient]
    /\ tokens \in [LockClient -> Session \cup {Nil}]
    /\ using \in [Session -> Session]
    /\ robbed \subseteq Session
    /\ taken \subseteq Session

\* Types of the nodes' keys and of the sessions' local variables.
RedlockTypeOK ==
    /\ clock \in 0..MaxClock
    /\ owner \in [Node -> Session \cup {Nil}]
    /\ expiry \in [Node -> 0..MaxClock + TTL]
    /\ pc \in [Session -> {"idle", "set", "won", "held", "undo", "delete", "retry",
                           "failed", "released"}]
    /\ at \in [Session -> 1..N + 1]
    /\ got \in [Session -> SUBSET Node]
    /\ start \in [Session -> 0..MaxClock]
    /\ tries \in [Session -> 0..RetryCount + 1]
    /\ faults \in 0..MaxFaults
    /\ TokensOK

\* A session holds the lock from acquire() = True for the validity time.
Valid(s) == pc[s] = "held" /\ clock < start[s] + TTL

\* The purpose of the lock, with lost requests and replies, expiry, retries and a clock that
\* passes between any two calls: two sessions hold it at the same time only when another
\* session's release deleted a live key of one of them in this attempt, after a GET that
\* saw an older key or with the token of the shared _tokens entry (redlock.py:61, :80, :99).
MutualExclusion ==
    \A s, t \in Session : Valid(s) /\ Valid(t) /\ s # t => s \in robbed \/ t \in robbed

\* While every node call succeeds, a session that gave up, released or waits for a retry
\* keeps no key on any node (the next client need not wait for the expiry), unless another
\* session of the same client took its _tokens entry away (redlock.py:62, :66, :80).
NothingLeftBehind ==
    faults = 0 =>
        \A s \in Session \ taken : pc[s] \in {"failed", "released", "retry"} =>
            \A n \in Node : KeyAt(n) # s

\* redlock.py:90: "DEL key on each node only if it still holds our token."
DeletesOnlyOwnToken ==
    [][\A n \in Node, s \in Session :
         (\E o \in Reply : DeleteNode(s, o)) /\ at[s] = n /\ owner'[n] # owner[n]
             => KeyAt(n) \in {using[s], Nil}]_redlockVars

=============================================================================
