------------------------------ MODULE Workers ------------------------------
(***************************************************************************)
(* Consumers of a Redis stream built from the classes of streams/: a       *)
(* StreamWorker each, an IdempotencyGuard, a DistributedLock each, an      *)
(* OutboxRelay each and a CircuitBreaker, wired in the order of            *)
(* tests/test_m006_integration.py.  The consumers are threads or processes *)
(* that interleave at every Redis call and during the guarded call.  The   *)
(* breaker shares nothing with the rest: it has a module of its own, and   *)
(* here it may admit or refuse any call.                                   *)
(*                                                                         *)
(* A message is a position of the stream.  A message of a task that was    *)
(* already seen is answered from the result cache and acknowledged; an     *)
(* exception leaves the message pending and the lock to its expiry.        *)
(***************************************************************************)
EXTENDS Integers, Sequences, FiniteSets

CONSTANTS
    Worker, Job,
    Window,        \* entries one recover() looks at (count=10)
    MaxPublished, MaxLapses, MaxErrors,   \* bounds
    Nobody

ASSUME WorkersAssumption ==
    /\ Window \in Nat \ {0}
    /\ MaxPublished \in Nat /\ MaxLapses \in Nat /\ MaxErrors \in Nat
    /\ IsFiniteSet(Worker) /\ Nobody \notin Worker

VARIABLES
    stream,     \* the published task ids
    delivered,  \* the group's last delivered position
    holder,     \* consumer of each pending message, Nobody when not pending
    acked,
    seen, cached, lockKey,    \* Redis keys: guard, result, lock holder
    wpc, todo, outbox, relayAt,   \* per consumer: position, messages, relay
    listing,    \* per consumer: entries recover() still has to claim
    value,      \* per consumer: what the breaker's call returned
    runs, lapses, remarks, expired, lost, dispatched, errors   \* history: see WorkersInit

redisVars == <<stream, delivered, holder, acked, seen, cached, lockKey>>
workVars == <<wpc, todo, outbox, relayAt, listing, value>>
workersHistory == <<runs, lapses, remarks, expired, lost, dispatched, errors>>
workersVars == <<redisVars, workVars, workersHistory>>

Message == 1..MaxPublished
Pending == {m \in Message : holder[m] # Nobody}
jobOf(w) == stream[Head(todo[w])]
At(w, p) == wpc[w] = p
Goto(w, p) == wpc' = [wpc EXCEPT ![w] = p]

\* The consumer is done with the message at hand: the next one, or back to claiming.
NextMessage(w) ==
    /\ todo' = [todo EXCEPT ![w] = Tail(@)]
    /\ Goto(w, IF Len(todo[w]) = 1 THEN "idle" ELSE "guard")

-----------------------------------------------------------------------------
(* StreamWorker                                                             *)

publish(t) ==
    /\ Len(stream) < MaxPublished
    /\ stream' = Append(stream, t)
    /\ UNCHANGED <<delivered, holder, acked, seen, cached, lockKey, workVars,
                   workersHistory>>

\* XREADGROUP ">" COUNT 1: the next entry nobody has been given.
claim_one(w) ==
    /\ At(w, "idle")
    /\ delivered < Len(stream)
    /\ delivered' = delivered + 1
    /\ holder' = [holder EXCEPT ![delivered + 1] = w]
    /\ todo' = [todo EXCEPT ![w] = <<delivered + 1>>]
    /\ Goto(w, "guard")
    /\ UNCHANGED <<stream, acked, seen, cached, lockKey, outbox, relayAt, listing,
                   value, workersHistory>>

\* (mutant) Only the entries of the own consumer name are listed.
RecoverOwn(w) ==
    /\ At(w, "idle")
    /\ \E m \in Pending : holder[m] = w
    /\ listing' = [listing EXCEPT ![w] = {m \in Pending : holder[m] = w}]
    /\ Goto(w, "claiming")
    /\ UNCHANGED <<redisVars, todo, outbox, relayAt, value, workersHistory>>

\* XPENDING - + COUNT: the oldest pending entries, whoever holds them.
recover(w) ==
    /\ At(w, "idle")
    /\ Pending # {}
    /\ listing' = [listing EXCEPT ![w] =
                      {m \in Pending : Cardinality({k \in Pending : k < m}) < Window}]
    /\ Goto(w, "claiming")
    /\ UNCHANGED <<redisVars, todo, outbox, relayAt, value, workersHistory>>

\* XCLAIM of the next listed entry: won when the entry is still pending and was not
\* touched for min_idle_ms.  recover() returns when all are done.
ClaimPending(w, won) ==
    /\ At(w, "claiming")
    /\ \E m \in listing[w] :
          /\ \A k \in listing[w] : m <= k
          /\ won => holder[m] # Nobody
          /\ holder' = IF won THEN [holder EXCEPT ![m] = w] ELSE holder
          /\ listing' = [listing EXCEPT ![w] = @ \ {m}]
          /\ todo' = IF won THEN [todo EXCEPT ![w] = Append(@, m)] ELSE todo
    /\ Goto(w, IF listing'[w] # {} THEN "claiming" ELSE IF todo'[w] = <<>> THEN "idle" ELSE "guard")
    /\ UNCHANGED <<stream, delivered, acked, seen, cached, lockKey, outbox, relayAt, value,
                   workersHistory>>

\* XACK.  A duplicate is left at that, an executed message releases its lock.
ack(w) ==
    /\ wpc[w] \in {"duplicate", "ack"}
    /\ acked' = acked \cup {Head(todo[w])}
    /\ holder' = [holder EXCEPT ![Head(todo[w])] = Nobody]
    /\ IF At(w, "duplicate") THEN NextMessage(w) ELSE Goto(w, "release") /\ UNCHANGED todo
    /\ UNCHANGED <<stream, delivered, seen, cached, lockKey, outbox, relayAt, listing, value,
                   workersHistory>>

-----------------------------------------------------------------------------
(* IdempotencyGuard and DistributedLock                                     *)

\* (mutant) GET, and SET only when the work is done.
AlreadySeenLate(w) ==
    /\ At(w, "guard")
    /\ Goto(w, IF cached[jobOf(w)] # "none" THEN "duplicate" ELSE "acquire")
    /\ seen' = seen \cup {jobOf(w)}
    /\ UNCHANGED <<stream, delivered, holder, acked, cached, lockKey, todo,
                   outbox, relayAt, listing, value, workersHistory>>

\* SET NX EX: one call decides and marks.
already_seen(w) ==
    /\ At(w, "guard")
    /\ Goto(w, IF jobOf(w) \in seen THEN "duplicate" ELSE "acquire")
    /\ seen' = seen \cup {jobOf(w)}
    /\ UNCHANGED <<stream, delivered, holder, acked, cached, lockKey, todo,
                   outbox, relayAt, listing, value, workersHistory>>

\* SET NX EX.  A message whose lock is refused stays pending.
acquire(w) ==
    /\ At(w, "acquire")
    /\ IF lockKey[jobOf(w)] = Nobody
       THEN /\ lockKey' = [lockKey EXCEPT ![jobOf(w)] = w]
            /\ Goto(w, "call")
            /\ UNCHANGED <<todo, lost>>
       ELSE /\ NextMessage(w)
            /\ lost' = lost \cup {jobOf(w)}
            /\ UNCHANGED lockKey
    /\ UNCHANGED <<stream, delivered, holder, acked, seen, cached, outbox, relayAt, listing,
                   value, runs, lapses, remarks, expired, dispatched, errors>>

\* release, first call: GET and the comparison with the own token.
release(w) ==
    /\ At(w, "release")
    /\ IF lockKey[jobOf(w)] = w
       THEN Goto(w, "delete") /\ UNCHANGED todo
       ELSE NextMessage(w)
    /\ UNCHANGED <<redisVars, outbox, relayAt, listing, value, workersHistory>>

\* Second call: DELETE, whatever the key holds by now.
ReleaseDelete(w) ==
    /\ At(w, "delete")
    /\ lockKey' = [lockKey EXCEPT ![jobOf(w)] = Nobody]
    /\ NextMessage(w)
    /\ UNCHANGED <<stream, delivered, holder, acked, seen, cached, outbox, relayAt, listing,
                   value, workersHistory>>

\* (mutant) The result is stored, and no entry is added to the outbox.
CacheUnqueued(w) ==
    /\ At(w, "cache")
    /\ cached' = [cached EXCEPT ![jobOf(w)] = value[w]]
    /\ Goto(w, "ack")
    /\ UNCHANGED <<stream, delivered, holder, acked, seen, lockKey, todo, outbox, relayAt,
                   listing, value, workersHistory>>

\* The result, or the fallback of an open breaker, is stored for the task.
cache_result(w) ==
    /\ At(w, "cache")
    /\ cached' = [cached EXCEPT ![jobOf(w)] = value[w]]
    /\ outbox' = [outbox EXCEPT ![w] = Append(@, jobOf(w))]
    /\ relayAt' = [relayAt EXCEPT ![w] = 1]
    /\ Goto(w, "dispatch")
    /\ UNCHANGED <<stream, delivered, holder, acked, seen, lockKey, todo,
                   listing, value, workersHistory>>

-----------------------------------------------------------------------------
(* CircuitBreaker.call: admission, the call itself, and its outcome.  When  *)
(* the breaker admits, and what it counts, is CircuitBreaker's business.    *)

CallAdmitted(w) ==
    /\ At(w, "call")
    /\ runs' = [runs EXCEPT ![jobOf(w)] = @ + 1]
    /\ Goto(w, "running")
    /\ UNCHANGED <<redisVars, todo, outbox, relayAt, listing, value, lapses, remarks,
                   expired, lost, dispatched, errors>>

CallRefused(w) ==
    /\ At(w, "call")
    /\ value' = [value EXCEPT ![w] = "fallback"]
    /\ Goto(w, "cache")
    /\ UNCHANGED <<redisVars, todo, outbox, relayAt, listing, workersHistory>>

CallSucceeds(w) ==
    /\ At(w, "running")
    /\ value' = [value EXCEPT ![w] = "result"]
    /\ Goto(w, "cache")
    /\ UNCHANGED <<redisVars, todo, outbox, relayAt, listing, workersHistory>>

\* The exception leaves the message pending and the lock held.
CallFails(w) ==
    /\ At(w, "running")
    /\ errors < MaxErrors
    /\ errors' = errors + 1
    /\ lost' = lost \cup {jobOf(w)}
    /\ NextMessage(w)
    /\ UNCHANGED <<redisVars, outbox, relayAt, listing, value, runs, lapses, remarks,
                   expired, dispatched>>

-----------------------------------------------------------------------------
(* OutboxRelay.flush: state_fn, which touches nothing modelled here, and     *)
(* dispatch_fn of each entry in turn.                                       *)

flush(w) ==
    /\ At(w, "dispatch")
    /\ dispatched' = dispatched \cup {outbox[w][relayAt[w]]}
    /\ IF relayAt[w] < Len(outbox[w])
       THEN /\ relayAt' = [relayAt EXCEPT ![w] = @ + 1]
            /\ UNCHANGED <<outbox, wpc>>
       ELSE /\ outbox' = [outbox EXCEPT ![w] = <<>>]
            /\ Goto(w, "ack")
            /\ UNCHANGED relayAt
    /\ UNCHANGED <<redisVars, todo, listing, value, runs, lapses, remarks, expired, lost,
                   errors>>

\* A dispatch that raises ends the flush; the queue keeps every entry.
DispatchRaises(w) ==
    /\ At(w, "dispatch")
    /\ errors < MaxErrors
    /\ errors' = errors + 1
    /\ lost' = lost \cup {jobOf(w)}
    /\ NextMessage(w)
    /\ UNCHANGED <<redisVars, outbox, relayAt, listing, value, runs,
                   lapses, remarks, expired, dispatched>>

-----------------------------------------------------------------------------
(* Time, and consumers that die.                                            *)

\* Every key has a TTL, which its guard or lock was built with.
LockExpires(t) ==
    /\ lockKey[t] # Nobody
    /\ lapses < MaxLapses
    /\ lapses' = lapses + 1
    /\ lockKey' = [lockKey EXCEPT ![t] = Nobody]
    /\ UNCHANGED <<stream, delivered, holder, acked, seen, cached, workVars, runs, remarks,
                   expired, lost, dispatched, errors>>

GuardExpires(t) ==
    /\ t \in seen
    /\ lapses < MaxLapses
    /\ lapses' = lapses + 1
    /\ remarks' = [remarks EXCEPT ![t] = @ + 1]
    /\ seen' = seen \ {t}
    /\ UNCHANGED <<stream, delivered, holder, acked, cached, lockKey, workVars, runs, expired,
                   lost, dispatched, errors>>

ResultExpires(t) ==
    /\ cached[t] # "none"
    /\ cached' = [cached EXCEPT ![t] = "none"]
    /\ expired' = expired \cup {t}
    /\ UNCHANGED <<stream, delivered, holder, acked, seen, lockKey, workVars, runs, lapses,
                   remarks, lost, dispatched, errors>>

\* Where a consumer has marked its task and not yet stored what came of it.
InCharge == {"acquire", "call", "running", "cache", "dispatch"}

\* Where it believes to hold the lock.
Locked == (InCharge \ {"acquire"}) \cup {"ack", "release", "delete"}

Die(w) ==
    /\ wpc[w] # "dead"
    /\ errors < MaxErrors
    /\ errors' = errors + 1
    /\ Goto(w, "dead")
    /\ lost' = IF wpc[w] \in InCharge THEN lost \cup {jobOf(w)} ELSE lost
    /\ UNCHANGED <<redisVars, todo, outbox, relayAt, listing, value, runs, lapses, remarks, expired, dispatched>>

-----------------------------------------------------------------------------
WorkersInit ==
    /\ stream = <<>> /\ delivered = 0
    /\ holder = [m \in Message |-> Nobody]
    /\ acked = {} /\ seen = {}
    /\ cached = [t \in Job |-> "none"]
    /\ lockKey = [t \in Job |-> Nobody]
    /\ wpc = [w \in Worker |-> "idle"]
    /\ todo = [w \in Worker |-> <<>>] /\ listing = [w \in Worker |-> {}]
    /\ outbox = [w \in Worker |-> <<>>] /\ relayAt = [w \in Worker |-> 1]
    /\ value = [w \in Worker |-> "none"]
    /\ runs = [t \in Job |-> 0]       \* calls of the guarded function
    /\ lapses = 0                     \* keys that expired
    /\ remarks = [t \in Job |-> 0]    \* ... of them, the task's guard key
    /\ expired = {}                   \* tasks whose stored result expired
    /\ lost = {}                      \* tasks whose processing was cut short
    /\ dispatched = {} \* tasks whose outbox entry was flushed
    /\ errors = 0

WorkerStep(w) ==
    \/ claim_one(w) \/ ClaimPending(w, FALSE) \/ already_seen(w) \/ acquire(w)
    \/ CallAdmitted(w) \/ CallRefused(w) \/ CallSucceeds(w)
    \/ cache_result(w) \/ flush(w)
    \/ ack(w) \/ release(w) \/ ReleaseDelete(w)

WorkersNext ==
    \/ \E t \in Job : publish(t) \/ LockExpires(t) \/ GuardExpires(t) \/ ResultExpires(t)
    \/ \E w \in Worker :
          WorkerStep(w) \/ recover(w) \/ ClaimPending(w, TRUE) \/ CallFails(w)
          \/ DispatchRaises(w) \/ Die(w)

\* Consumers go on claiming, and each calls recover() again and again (the caller's
\* loop; streams/worker.py only offers the call); an entry that stays pending is idle
\* for long enough in the end.
WorkersFairness ==
    \A w \in Worker :
        /\ WF_workersVars(WorkerStep(w))
        /\ WF_workersVars(recover(w))
        /\ SF_workersVars(ClaimPending(w, TRUE))

WorkersSpec == WorkersInit /\ [][WorkersNext]_workersVars

-----------------------------------------------------------------------------
\* However messages are duplicated, taken over from a slow consumer or left by a dead
\* one, a task is executed once for each time its guard key was set; and two consumers
\* work on it at once only after both of its keys expired, although release may
\* delete a lock that is not its own any more (idempotency.py:15 and :49).
ExecutedOncePerMark ==
    /\ \A t \in Job : runs[t] <= 1 + remarks[t]
    /\ \A v, w \in Worker :
          v # w /\ wpc[v] \in Locked /\ wpc[w] \in Locked /\ jobOf(v) = jobOf(w) => lapses >= 2

\* An acknowledged message was dealt with: its task's result was stored, and is there
\* unless it expired, and its outbox entry dispatched, or another consumer is about to, or
\* its processing was cut short by an exception, a refused lock or a death (worker.py:79
\* and idempotency.py:15, :22).
AckedWasHandled ==
    \A m \in acked :
        LET t == stream[m] IN
            \/ t \in lost
            \/ (cached[t] # "none" \/ t \in expired) /\ t \in dispatched
            \/ \E w \in Worker : wpc[w] \in InCharge /\ jobOf(w) = t

\* A message of a dead, slow or failed consumer does not stay pending behind the ones
\* recover() looks at: every message is acknowledged while a consumer lives.
MessagesSettle ==
    \A m \in Message :
        m <= Len(stream) ~> m \in acked \/ \A w \in Worker : wpc[w] = "dead"

=============================================================================
