----------------------------- MODULE Scheduler -----------------------------
(***************************************************************************)
(* TaskScheduler (scheduler.py): an asyncio loop that drains an inbox into *)
(* a priority heap and dispatches one task at a time, with retries.  Its   *)
(* caller may cancel run(), which asyncio.wait_for does at its timeout.    *)
(*                                                                         *)
(* The loop yields to other coroutines only while a handler runs and while *)
(* it waits for the inbox, so one action is what the loop does from one of *)
(* these awaits to the next.                                               *)
(***************************************************************************)
EXTENDS Integers, Sequences, FiniteSets

CONSTANTS
    Task,        \* TaskItem ids
    Priority,    \* item.priority
    MaxRetries,  \* item.max_retries
    MaxRuns,     \* bound on calls of run()
    Nil

ASSUME SchedulerAssumption ==
    /\ Priority \in [Task -> Int]
    /\ MaxRetries \in [Task -> Nat]
    /\ MaxRuns \in Nat
    /\ Nil \notin Task

VARIABLES
    inbox,    \* asyncio.Queue of tasks
    heap,     \* heap entries: priority, tie-breaker, task
    counter,  \* next tie-breaker
    running,  \* self._running
    loopPc,   \* where run() is: "off", "handling", "waiting", "exited", "cancelled"
    current,  \* the task being handled
    state,    \* item.state ("new" before the item is produced)
    retry,    \* item.retry_count
    calls,    \* handler invocations per task
    runCalls, \* calls of run() so far
    cut       \* history: tasks whose handler was cancelled

vars == <<inbox, heap, counter, running, loopPc, current, state, retry, calls, runCalls, cut>>

Entry == [prio : Int, seq : Nat, task : Task]

-----------------------------------------------------------------------------
\* Order of the heap tuples (-priority, counter, item).
Before(e, f) == e.prio > f.prio \/ (e.prio = f.prio /\ e.seq < f.seq)

add_task(h, c, t) == h \cup {[prio |-> Priority[t], seq |-> c, task |-> t]}

\* The inner while of run(): every queued item is added, in queue order.
Drain(h, c, box) ==
    h \cup {[prio |-> Priority[box[i]], seq |-> c + i - 1, task |-> box[i]]
              : i \in DOMAIN box}

\* The entry that heappop takes.
get_next_task(h, e) == e \in h /\ \A f \in h \ {e} : Before(e, f)

\* One iteration of run(), from the loop condition to the next await, with the
\* queue, heap, counter, flag and task states as the previous step left them.
Iterate(box, h, c, flag, st) ==
    IF ~flag
    THEN /\ loopPc' = "exited"
         /\ inbox' = box /\ heap' = h /\ counter' = c
         /\ current' = Nil /\ state' = st
         /\ UNCHANGED calls
    ELSE LET all == Drain(h, c, box) IN
         /\ inbox' = <<>>
         /\ counter' = c + Len(box)
         /\ IF all = {}
            THEN /\ loopPc' = "waiting" /\ heap' = {}
                 /\ current' = Nil /\ state' = st
                 /\ UNCHANGED calls
            ELSE \E e \in all :
                 /\ get_next_task(all, e)
                 /\ heap' = all \ {e}
                 /\ loopPc' = "handling"
                 /\ current' = e.task
                 /\ state' = [st EXCEPT ![e.task] = "running"]
                 /\ calls' = [calls EXCEPT ![e.task] = @ + 1]

-----------------------------------------------------------------------------
\* A producer puts a new item into the inbox.
Produce(t) ==
    /\ state[t] = "new"
    /\ state' = [state EXCEPT ![t] = "pending"]
    /\ inbox' = Append(inbox, t)
    /\ UNCHANGED <<heap, counter, running, loopPc, current, retry, calls, runCalls, cut>>

\* A caller pushes a new item onto the heap itself.
AddDirect(t) ==
    /\ state[t] = "new"
    /\ state' = [state EXCEPT ![t] = "pending"]
    /\ heap' = add_task(heap, counter, t)
    /\ counter' = counter + 1
    /\ UNCHANGED <<inbox, running, loopPc, current, retry, calls, runCalls, cut>>

run ==
    /\ loopPc \in {"off", "exited", "cancelled"}
    /\ runCalls < MaxRuns
    /\ runCalls' = runCalls + 1
    /\ running' = TRUE
    /\ Iterate(inbox, heap, counter, TRUE, state)
    /\ UNCHANGED <<retry, cut>>

\* wait_for(inbox.get()) returned an item.
Receive ==
    /\ loopPc = "waiting"
    /\ inbox # <<>>
    /\ Iterate(Tail(inbox), add_task(heap, counter, Head(inbox)), counter + 1, running, state)
    /\ UNCHANGED <<running, retry, runCalls, cut>>

\* wait_for timed out after 50 ms.
WaitTimeout ==
    /\ loopPc = "waiting"
    /\ inbox = <<>>
    /\ Iterate(inbox, heap, counter, running, state)
    /\ UNCHANGED <<running, retry, runCalls, cut>>

DispatchSucceeds ==
    /\ loopPc = "handling"
    /\ Iterate(inbox, heap, counter, running, [state EXCEPT ![current] = "completed"])
    /\ UNCHANGED <<running, retry, runCalls, cut>>

\* (mutant) A failed task is not put back.
DispatchFailsLosing ==
    /\ loopPc = "handling"
    /\ LET again == retry[current] + 1 <= MaxRetries[current] IN
       /\ retry' = [retry EXCEPT ![current] = @ + 1]
       /\ Iterate(inbox, heap, counter, running,
                  [state EXCEPT ![current] = IF again THEN "pending" ELSE "failed"])
    /\ UNCHANGED <<running, runCalls, cut>>

DispatchFails ==
    /\ loopPc = "handling"
    /\ LET again == retry[current] + 1 <= MaxRetries[current] IN
       /\ retry' = [retry EXCEPT ![current] = @ + 1]
       /\ Iterate(IF again THEN Append(inbox, current) ELSE inbox, heap, counter, running,
                  [state EXCEPT ![current] = IF again THEN "pending" ELSE "failed"])
    /\ UNCHANGED <<running, runCalls, cut>>

stop ==
    /\ running
    /\ running' = FALSE
    /\ UNCHANGED <<inbox, heap, counter, loopPc, current, state, retry, calls, runCalls, cut>>

\* CancelledError leaves run() from the await it is at: it is no Exception, so the
\* handled task keeps its state and nothing puts it back; _running stays as it was.
Cancel ==
    /\ loopPc \in {"handling", "waiting"}
    /\ loopPc' = "cancelled"
    /\ cut' = cut \cup ({current} \ {Nil})
    /\ current' = Nil
    /\ UNCHANGED <<inbox, heap, counter, running, state, retry, calls, runCalls>>

-----------------------------------------------------------------------------
Init ==
    /\ inbox = <<>>
    /\ heap = {}
    /\ counter = 0
    /\ running = FALSE
    /\ loopPc = "off"
    /\ current = Nil
    /\ state = [t \in Task |-> "new"]
    /\ retry = [t \in Task |-> 0]
    /\ calls = [t \in Task |-> 0]
    /\ runCalls = 0
    /\ cut = {}

Loop == Receive \/ WaitTimeout \/ DispatchSucceeds \/ DispatchFails

Next ==
    \/ \E t \in Task : Produce(t) \/ AddDirect(t)
    \/ run
    \/ Loop
    \/ stop \/ Cancel

Spec == Init /\ [][Next]_vars

\* The event loop resumes run() when its handler finishes, an item arrives or the
\* timeout fires, and a handler ends.  Nobody need call run() or stop(), or cancel.
FairSpec == Spec /\ WF_vars(Loop)

-----------------------------------------------------------------------------
\* No task is lost or doubled by draining, retrying, stopping or running again: an
\* unfinished task is in the inbox, on the heap, in the handler or cut short by a
\* cancellation, in exactly one of them and once; a finished one is in none.  A call of
\* run() that is cancelled costs the task it was handling and no other.  And no two heap
\* entries have the same counter, or heapq would compare two TaskItems, which raises
\* (scheduler.py:85, :122, :149).
TaskConserved ==
    LET queued == {inbox[i] : i \in DOMAIN inbox}
        onHeap == {e.task : e \in heap}
        handled == {current} \ {Nil}
    IN /\ \A i, k \in DOMAIN inbox : inbox[i] = inbox[k] => i = k
       /\ \A e, f \in heap : e.task = f.task \/ e.seq = f.seq => e = f
       /\ queued \cap onHeap = {} /\ handled \cap (queued \cup onHeap) = {}
       /\ cut \cap (queued \cup onHeap \cup handled) = {}
       /\ {t \in Task : state[t] = "pending"} = queued \cup onHeap
       /\ {t \in Task : state[t] = "running"} = handled \cup cut
       /\ Cardinality(cut \cup handled) <= runCalls

\* A task that waits in a running scheduler completes or fails, retries included,
\* unless the scheduler is stopped or cancelled first.
EveryTaskFinishes ==
    \A t \in Task : state[t] = "pending" ~>
        state[t] \in {"completed", "failed"} \/ loopPc \notin {"handling", "waiting"}

=============================================================================
