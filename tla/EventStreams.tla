---------------------------- MODULE EventStreams ----------------------------
(***************************************************************************)
(* Server-sent event streams of the gateway: the in-process MessageBus     *)
(* (messaging/bus.py), the two routers that stream a topic                 *)
(* (messaging/sse_router.py at /sse/legacy, messaging/sse_v1_router.py),   *)
(* and the session streams of GET /sse (gateway/app.py), which carry the   *)
(* answers to POST /sse/messages.                                          *)
(*                                                                         *)
(* A stream is registered by its endpoint, before the response starts.     *)
(* The generator that would deregister it in its finally block runs later; *)
(* a client may disconnect at any point in between.                        *)
(***************************************************************************)
EXTENDS Integers, Sequences, FiniteSets

CONSTANTS
    Conn,          \* streams clients may open
    Topic,         \* bus topics
    Opens,         \* per stream: the kinds and topics clients open it with
    MaxEvents,     \* bound on POST /sse/v1/messages
    None

VARIABLES
    conn,          \* per stream: kind, topic, phase, registered, and the bus's
                   \* history when it subscribed
    queue,         \* its asyncio.Queue
    delivered,     \* what it has sent to the client
    published,     \* history of the bus
    posts          \* messages posted by clients so far

streamVars == <<conn, queue, delivered, published, posts>>

Kind == {"rpc", "legacy", "v1"}

ASSUME StreamAssumption ==
    /\ Opens \in [Conn -> SUBSET ([kind : {"rpc"}, topic : {None}]
                                  \cup [kind : Kind \ {"rpc"}, topic : Topic])]
    /\ None \notin Conn

Live == {"opened", "handshake", "streaming"}

StreamInit ==
    /\ conn = [c \in Conn |-> [kind |-> None, topic |-> None, phase |-> "closed",
                               registered |-> FALSE, since |-> 0]]
    /\ queue = [c \in Conn |-> <<>>]
    /\ delivered = [c \in Conn |-> <<>>]
    /\ published = <<>>
    /\ posts = 0

Subscribed(c, topic) == conn[c].registered /\ conn[c].kind # "rpc" /\ conn[c].topic = topic

\* (mutant) Only the subscribers that are already streaming get a message.
PublishToStreaming(topic, m) ==
    /\ published' = Append(published, [topic |-> topic, msg |-> m])
    /\ queue' = [c \in Conn |-> IF Subscribed(c, topic) /\ conn[c].phase = "streaming"
                                THEN Append(queue[c], m) ELSE queue[c]]

\* MessageBus.publish: put_nowait on the queue of every subscriber.
publish(topic, m) ==
    /\ published' = Append(published, [topic |-> topic, msg |-> m])
    /\ queue' = [c \in Conn |-> IF Subscribed(c, topic) THEN Append(queue[c], m) ELSE queue[c]]

\* The endpoints: bus.subscribe, or a new entry of _sse_sessions.
Open(c, kind, topic) ==
    /\ conn[c].phase = "closed"
    /\ conn' = [conn EXCEPT ![c] = [kind |-> kind, topic |-> topic, phase |-> "opened",
                                    registered |-> TRUE, since |-> Len(published)]]
    /\ UNCHANGED <<queue, delivered, published, posts>>

\* The generator starts: "connected" and "endpoint" are sent first; the legacy
\* router has no such event.
Start(c) ==
    /\ conn[c].phase = "opened"
    /\ conn' = [conn EXCEPT ![c].phase =
           IF conn[c].kind = "legacy" THEN "streaming" ELSE "handshake"]
    /\ UNCHANGED <<queue, delivered, published, posts>>

\* The client took the first event; the generator waits on its queue.
EnterLoop(c) ==
    /\ conn[c].phase = "handshake"
    /\ conn' = [conn EXCEPT ![c].phase = "streaming"]
    /\ UNCHANGED <<queue, delivered, published, posts>>

\* (mutant) An event is yielded again when the wait after it times out.
DeliverAgain(c) ==
    /\ conn[c].phase = "streaming" /\ queue[c] # <<>>
    /\ delivered' = [delivered EXCEPT ![c] = Append(@, Head(queue[c]))]
    /\ UNCHANGED <<conn, queue, published, posts>>

\* (mutant) The generator ends after the first event it yields.
DeliverFirst(c) ==
    /\ conn[c].phase = "streaming" /\ queue[c] # <<>> /\ delivered[c] = <<>>
    /\ delivered' = [delivered EXCEPT ![c] = Append(@, Head(queue[c]))]
    /\ queue' = [queue EXCEPT ![c] = Tail(@)]
    /\ UNCHANGED <<conn, published, posts>>

\* queue.get() returns in time and the event is yielded.  A timeout yields a
\* keepalive and changes nothing.
Deliver(c) ==
    /\ conn[c].phase = "streaming" /\ queue[c] # <<>>
    /\ delivered' = [delivered EXCEPT ![c] = Append(@, Head(queue[c]))]
    /\ queue' = [queue EXCEPT ![c] = Tail(@)]
    /\ UNCHANGED <<conn, published, posts>>

\* Phases in which the generator has entered the try whose finally deregisters.
Guarded(kind) == IF kind = "rpc" THEN {"handshake", "streaming"} ELSE {"streaming"}

\* The client goes: the generator is closed where it stands.  One that never
\* started runs no finally, and the v1 router sends its first event before try.
Disconnect(c) ==
    /\ conn[c].phase \in Live
    /\ conn' = [conn EXCEPT ![c].phase = "gone",
                            ![c].registered = conn[c].phase \notin Guarded(conn[c].kind)]
    /\ UNCHANGED <<queue, delivered, published, posts>>

\* POST /sse/v1/messages.
publish_message(topic) ==
    /\ posts < MaxEvents
    /\ posts' = posts + 1
    /\ publish(topic, <<"post", posts'>>)
    /\ UNCHANGED <<conn, delivered>>

StreamStep ==
    \/ \E c \in Conn : \/ \E o \in Opens[c] : Open(c, o.kind, o.topic)
                       \/ Start(c) \/ EnterLoop(c) \/ Deliver(c) \/ Disconnect(c)
    \/ \E t \in Topic : publish_message(t)

-----------------------------------------------------------------------------
(* Properties.                                                             *)

\* Where a history has messages on a topic, after its first n.
Due(history, n, topic) == {i \in n + 1..Len(history) : history[i].topic = topic}

\* What was got is those messages, each once, in their order.
Carries(got, history, n, topic) ==
    LET due == Due(history, n, topic)
    IN  /\ Len(got) = Cardinality(due)
        /\ \A i \in due : got[Cardinality({k \in due : k <= i})] = history[i].msg

\* Fan-out: a subscriber gets every message published on its topic since the
\* GET, in the order of publication, none lost, none twice, whether or not its
\* generator had started.
FanOutInOrder ==
    \A c \in Conn :
        conn[c].kind \in {"legacy", "v1"} /\ conn[c].phase \in Live =>
            Carries(delivered[c] \o queue[c], published, conn[c].since, conn[c].topic)
=============================================================================
