----------------------------- MODULE TasksProofs -----------------------------
(***************************************************************************)
(* Proofs about the ways the factory runs tasks, which share nothing: the  *)
(* scheduler, the stream consumers with their guard and lock, the circuit  *)
(* breaker and the auction.                                                *)
(***************************************************************************)
EXTENDS Scheduler, Workers, CircuitBreaker, Auction, FiniteSetTheorems, WellFoundedInduction, TLAPS

-----------------------------------------------------------------------------
(* The scheduler neither loses nor doubles a task, for any set of tasks,   *)
(* priorities, retry budgets and calls of run() and stop().                *)

Phase == {"new", "pending", "running", "completed", "failed"}

Boxed(box, t) == \E i \in DOMAIN box : box[i] = t
Heaped(h, t) == \E e \in h : e.task = t

\* Every pending task is once in the inbox or once on the heap, whose counters are
\* different and used up.
Queued(box, h, c, st) ==
    /\ box \in Seq(Task) /\ h \in SUBSET Entry /\ c \in Nat /\ st \in [Task -> Phase]
    /\ \A i, k \in DOMAIN box : box[i] = box[k] => i = k
    /\ \A e, f \in h : e.task = f.task \/ e.seq = f.seq => e = f
    /\ \A e \in h : e.seq < c
    /\ \A t \in Task : ~(Boxed(box, t) /\ Heaped(h, t))
    /\ \A t \in Task : st[t] = "pending" <=> Boxed(box, t) \/ Heaped(h, t)

\* The tasks that are running are the one being handled and those a cancellation cut
\* short, each of which ended a call of run().
SchedulerInv ==
    /\ Queued(inbox, heap, counter, state)
    /\ retry \in [Task -> Nat]
    /\ loopPc \in {"off", "handling", "waiting", "exited", "cancelled"}
    /\ current \in Task \cup {Nil}
    /\ loopPc = "handling" <=> current # Nil
    /\ \A t \in Task : state[t] = "running" <=> t = current \/ t \in cut
    /\ cut \in SUBSET Task /\ current \notin cut
    /\ runCalls \in Nat /\ IsFiniteSet(cut)
    /\ Cardinality(cut) + (IF loopPc \in {"handling", "waiting"} THEN 1 ELSE 0) <= runCalls

\* Only tasks that were cut short run, and each ended a call of run() but the last.
CutShort(st, cutTasks, n) ==
    /\ \A t \in Task : st[t] = "running" <=> t \in cutTasks
    /\ cutTasks \in SUBSET Task /\ IsFiniteSet(cutTasks) /\ n \in Nat
    /\ Cardinality(cutTasks) + 1 <= n

-----------------------------------------------------------------------------
\* An entry more on the heap is its task more there.
LEMMA HeapedMore ==
    ASSUME NEW h, NEW e, NEW t, e.task = t
    PROVE  \A u \in Task : Heaped(h \cup {e}, u) <=> Heaped(h, u) \/ u = t
BY DEF Heaped

\* Draining the inbox moves every task of it onto the heap, each with a fresh counter.
LEMMA DrainQueued ==
    ASSUME NEW box, NEW h, NEW c, NEW st, Queued(box, h, c, st)
    PROVE  Queued(<<>>, Drain(h, c, box), c + Len(box), st)
<1>. DEFINE all == Drain(h, c, box)
            moved(i) == [prio |-> Priority[box[i]], seq |-> c + i - 1, task |-> box[i]]
<1>. USE DEF Queued
<1>1. /\ Len(box) \in Nat /\ DOMAIN box = 1..Len(box)
      /\ \A i \in DOMAIN box : box[i] \in Task
  OBVIOUS
<1>2. all = h \cup {moved(i) : i \in DOMAIN box}
  BY DEF Drain
<1>3. \A i \in DOMAIN box :
         /\ moved(i) \in Entry /\ moved(i).task = box[i]
         /\ moved(i).seq >= c /\ moved(i).seq < c + Len(box)
  BY <1>1, SchedulerAssumption DEF Entry
<1>4. \A i, k \in DOMAIN box : moved(i).seq = moved(k).seq => i = k
  BY <1>1
<1>5. all \in SUBSET Entry /\ c + Len(box) \in Nat /\ <<>> \in Seq(Task)
  BY <1>1, <1>2, <1>3
<1>6. \A e \in all : e.seq < c + Len(box)
  <2>1. \A e \in h : e.seq \in Nat /\ e.seq < c + Len(box)
    BY <1>1 DEF Entry
  <2>. QED
    BY <1>2, <1>3, <2>1
<1>7. \A e \in all : (e \in h /\ e.seq < c) \/ \E i \in DOMAIN box : e = moved(i)
  BY <1>2
<1>8. ASSUME NEW e \in all, NEW f \in all, e.task = f.task \/ e.seq = f.seq
      PROVE  e = f
  <2>1. CASE e \in h /\ f \in h
    BY <1>8, <2>1
  <2>2. ASSUME NEW i \in DOMAIN box, NEW g \in h
        PROVE  moved(i).task # g.task /\ moved(i).seq # g.seq
    <3>1. moved(i).seq >= c /\ g.seq < c /\ g.seq \in Nat /\ c \in Nat
      BY <1>3 DEF Entry
    <3>2. box[i] \in Task /\ Boxed(box, box[i])
      BY <1>1 DEF Boxed
    <3>3. ~Heaped(h, box[i])
      BY <3>2
    <3>4. moved(i).seq \in Int
      BY <1>1
    <3>. QED
      BY <3>1, <3>3, <3>4 DEF Heaped
  <2>3. CASE e \notin h /\ f \notin h
    <3>1. PICK i \in DOMAIN box : e = moved(i)
      BY <1>7, <2>3
    <3>2. PICK k \in DOMAIN box : f = moved(k)
      BY <1>7, <2>3
    <3>. QED
      BY <1>3, <1>4, <1>8, <3>1, <3>2
  <2>. QED
    BY <1>7, <1>8, <2>1, <2>2, <2>3
<1>9. ASSUME NEW t \in Task PROVE Heaped(all, t) <=> Boxed(box, t) \/ Heaped(h, t)
  <2>1. ASSUME NEW i \in DOMAIN box, box[i] = t PROVE Heaped(all, t)
    BY <1>2, <1>3, <2>1 DEF Heaped
  <2>2. Heaped(h, t) => Heaped(all, t)
    BY <1>2 DEF Heaped
  <2>3. Heaped(all, t) => Boxed(box, t) \/ Heaped(h, t)
    BY <1>3, <1>7 DEF Heaped, Boxed
  <2>. QED
    BY <2>1, <2>2, <2>3 DEF Boxed
<1>10. \A t \in Task : ~Boxed(<<>>, t)
  BY DEF Boxed
<1>. QED
  BY <1>5, <1>6, <1>8, <1>9, <1>10

\* From a state in which nothing runs but what was cut short, an iteration of the loop
\* leaves everything queued but the task it takes.
LEMMA IterateQueued ==
    ASSUME NEW box, NEW h, NEW c, NEW flag, NEW st, Queued(box, h, c, st),
           CutShort(st, cut', runCalls'), retry' \in [Task -> Nat],
           Iterate(box, h, c, flag, st)
    PROVE  SchedulerInv'
<1>0. /\ \A t \in Task : st[t] = "running" <=> t \in cut'
      /\ cut' \in SUBSET Task /\ IsFiniteSet(cut') /\ runCalls' \in Nat
      /\ Cardinality(cut') \in Nat /\ Cardinality(cut') + 1 <= runCalls'
  BY FS_CardinalityType DEF CutShort
<1>1. CASE ~flag
  <2>1. /\ loopPc' = "exited" /\ inbox' = box /\ heap' = h /\ counter' = c
        /\ current' = Nil /\ state' = st
    BY <1>1 DEF Iterate
  <2>2. Cardinality(cut') + 0 <= runCalls'
    BY <1>0
  <2>. QED
    BY <1>0, <2>1, <2>2, SchedulerAssumption DEF SchedulerInv
<1>2. CASE flag
  <2>. DEFINE all == Drain(h, c, box)
  <2>1. Queued(<<>>, all, c + Len(box), st)
    BY DrainQueued
  <2>2. inbox' = <<>> /\ counter' = c + Len(box)
    BY <1>2 DEF Iterate
  <2>3. CASE all = {}
    <3>1. loopPc' = "waiting" /\ heap' = all /\ current' = Nil /\ state' = st
      BY <1>2, <2>3 DEF Iterate
    <3>. QED
      BY <1>0, <2>1, <2>2, <3>1, SchedulerAssumption DEF SchedulerInv
  <2>4. CASE all # {}
    <3>1. PICK e \in all : /\ heap' = all \ {e}
                           /\ loopPc' = "handling"
                           /\ current' = e.task
                           /\ state' = [st EXCEPT ![e.task] = "running"]
      BY <1>2, <2>4 DEF Iterate
    <3>2. e.task \in Task /\ e.task # Nil
      BY <2>1, SchedulerAssumption DEF Queued, Entry
    <3>3. \A t \in Task : Heaped(all \ {e}, t) <=> Heaped(all, t) /\ t # e.task
      BY <2>1 DEF Queued, Heaped
    <3>4. \A t \in Task : ~Boxed(<<>>, t)
      BY DEF Boxed
    <3>5. state' \in [Task -> Phase]
      BY <2>1, <3>1, <3>2 DEF Queued, Phase
    <3>6. \A t \in Task : state'[t] = "pending" <=> Heaped(all \ {e}, t)
      BY <2>1, <3>1, <3>2, <3>3, <3>4 DEF Queued
    <3>7. Queued(<<>>, all \ {e}, c + Len(box), state')
      BY <2>1, <3>4, <3>5, <3>6 DEF Queued
    <3>8. \A t \in Task : state'[t] = "running" <=> t = current' \/ t \in cut'
      BY <1>0, <2>1, <3>1, <3>2 DEF Queued
    <3>9. current' \notin cut'
      <4>1. st[e.task] = "pending"
        BY <2>1, <3>2, <3>4 DEF Queued, Heaped
      <4>. QED
        BY <1>0, <3>1, <3>2, <4>1
    <3>. QED
      BY <1>0, <2>2, <3>1, <3>2, <3>7, <3>8, <3>9 DEF SchedulerInv
  <2>. QED
    BY <2>3, <2>4
<1>. QED
  BY <1>1, <1>2

-----------------------------------------------------------------------------
\* A new task that becomes pending and is put into the inbox or on the heap is queued.
LEMMA AddQueued ==
    ASSUME NEW box, NEW h, NEW c, NEW st, Queued(box, h, c, st),
           NEW t \in Task, st[t] # "pending"
    PROVE  /\ Queued(Append(box, t), h, c, [st EXCEPT ![t] = "pending"])
           /\ Queued(box, add_task(h, c, t), c + 1, [st EXCEPT ![t] = "pending"])
<1>. DEFINE st2 == [st EXCEPT ![t] = "pending"]
            e == [prio |-> Priority[t], seq |-> c, task |-> t]
            app == Append(box, t)
<1>. USE DEF Queued
<1>1. st2 \in [Task -> Phase] /\ \A u \in Task : st2[u] = IF u = t THEN "pending" ELSE st[u]
  BY DEF Phase
<1>2. ~Boxed(box, t) /\ ~Heaped(h, t)
  OBVIOUS
<1>3. Queued(app, h, c, st2)
  <2>1. /\ app \in Seq(Task) /\ Len(app) = Len(box) + 1
        /\ \A i \in DOMAIN app : app[i] = IF i = Len(box) + 1 THEN t ELSE box[i]
        /\ DOMAIN box = 1..Len(box) /\ DOMAIN app = 1..Len(box) + 1 /\ Len(box) \in Nat
    OBVIOUS
  <2>2. \A u \in Task : Boxed(app, u) <=> Boxed(box, u) \/ u = t
    BY <2>1 DEF Boxed
  <2>3. \A i, k \in DOMAIN app : app[i] = app[k] => i = k
    BY <1>2, <2>1 DEF Boxed
  <2>4. \A u \in Task : ~(Boxed(app, u) /\ Heaped(h, u))
    BY <1>2, <2>2
  <2>5. \A u \in Task : st2[u] = "pending" <=> Boxed(app, u) \/ Heaped(h, u)
    BY <1>1, <2>2
  <2>. QED
    BY <1>1, <2>1, <2>3, <2>4, <2>5
<1>4. Queued(box, h \cup {e}, c + 1, st2)
  <2>1. e \in Entry /\ c + 1 \in Nat
    BY SchedulerAssumption DEF Entry
  <2>2. \A u \in Task : Heaped(h \cup {e}, u) <=> Heaped(h, u) \/ u = t
    <3>1. e.task = t
      OBVIOUS
    <3>. HIDE DEF e
    <3>. QED
      BY <3>1, HeapedMore
  <2>3. \A f \in h : f.seq \in Nat /\ f.seq < c /\ f.seq # c /\ f.seq < c + 1 /\ f.task # t
    BY <1>2 DEF Heaped, Entry
  <2>4. \A f, g \in h \cup {e} : f.task = g.task \/ f.seq = g.seq => f = g
    BY <2>3
  <2>5. \A f \in h \cup {e} : f.seq < c + 1
    BY <2>3
  <2>6. \A u \in Task : ~(Boxed(box, u) /\ Heaped(h \cup {e}, u))
    BY <1>2, <2>2
  <2>7. \A u \in Task : st2[u] = "pending" <=> Boxed(box, u) \/ Heaped(h \cup {e}, u)
    BY <1>1, <2>2
  <2>. QED
    BY <1>1, <2>1, <2>4, <2>5, <2>6, <2>7
<1>. QED
  BY <1>3, <1>4 DEF add_task

\* A task taken out of the inbox and pushed onto the heap stays queued.
LEMMA ReceiveQueued ==
    ASSUME NEW box, NEW h, NEW c, NEW st, Queued(box, h, c, st), box # <<>>
    PROVE  Queued(Tail(box), add_task(h, c, Head(box)), c + 1, st)
<1>. DEFINE t == Head(box)
            rest == Tail(box)
            e == [prio |-> Priority[t], seq |-> c, task |-> t]
<1>. USE DEF Queued
<1>1. /\ rest \in Seq(Task) /\ Len(box) \in Nat /\ Len(box) >= 1
      /\ DOMAIN box = 1..Len(box) /\ DOMAIN rest = 1..Len(box) - 1
      /\ \A i \in DOMAIN rest : rest[i] = box[i + 1]
      /\ t = box[1] /\ t \in Task
  OBVIOUS
<1>2. \A i, k \in DOMAIN rest : rest[i] = rest[k] => i = k
  BY <1>1
<1>3. Boxed(box, t) /\ ~Heaped(h, t)
  BY <1>1 DEF Boxed
<1>4. \A u \in Task : Boxed(rest, u) <=> Boxed(box, u) /\ u # t
  <2>. SUFFICES ASSUME NEW u \in Task PROVE Boxed(rest, u) <=> Boxed(box, u) /\ u # t
    OBVIOUS
  <2>1. ASSUME NEW i \in DOMAIN rest, rest[i] = u PROVE Boxed(box, u) /\ u # t
    <3>1. i + 1 \in DOMAIN box /\ box[i + 1] = u /\ 1 \in DOMAIN box /\ i + 1 # 1
      BY <1>1, <2>1
    <3>. QED
      BY <3>1, <1>1 DEF Boxed
  <2>2. ASSUME NEW i \in DOMAIN box, box[i] = u, u # t PROVE Boxed(rest, u)
    <3>1. i - 1 \in DOMAIN rest /\ rest[i - 1] = u
      BY <1>1, <2>2
    <3>. QED
      BY <3>1 DEF Boxed
  <2>. QED
    BY <2>1, <2>2 DEF Boxed
<1>5. \A u \in Task : Heaped(h \cup {e}, u) <=> Heaped(h, u) \/ u = t
  <2>1. e.task = t
    OBVIOUS
  <2>. HIDE DEF e
  <2>. QED
    BY <2>1, HeapedMore
<1>6. e \in Entry /\ c + 1 \in Nat
  BY <1>1, SchedulerAssumption DEF Entry
<1>7. \A f \in h : f.seq \in Nat /\ f.seq < c /\ f.seq # c /\ f.seq < c + 1 /\ f.task # t
  BY <1>3 DEF Heaped, Entry
<1>8. /\ \A f, g \in h \cup {e} : f.task = g.task \/ f.seq = g.seq => f = g
      /\ \A f \in h \cup {e} : f.seq < c + 1
  BY <1>7
<1>9. \A u \in Task : ~(Boxed(rest, u) /\ Heaped(h \cup {e}, u))
  BY <1>4, <1>5
<1>10. \A u \in Task : st[u] = "pending" <=> Boxed(rest, u) \/ Heaped(h \cup {e}, u)
  BY <1>3, <1>4, <1>5
<1>. QED
  BY <1>1, <1>2, <1>6, <1>8, <1>9, <1>10 DEF add_task

\* The handled task gets a final state: nothing runs any more but what was cut short.
LEMMA SettleQueued ==
    ASSUME SchedulerInv, loopPc = "handling", NEW p \in {"completed", "failed"}
    PROVE  /\ current \in Task /\ state[current] = "running"
           /\ Queued(inbox, heap, counter, [state EXCEPT ![current] = p])
           /\ CutShort([state EXCEPT ![current] = p], cut, runCalls)
<1>1. current \in Task /\ state[current] = "running" /\ state \in [Task -> Phase]
  BY DEF SchedulerInv, Queued
<1>2. [state EXCEPT ![current] = p] \in [Task -> Phase]
  BY <1>1 DEF Phase
<1>3. \A t \in Task : [state EXCEPT ![current] = p][t] = "pending" <=> state[t] = "pending"
  BY <1>1
<1>4. Queued(inbox, heap, counter, [state EXCEPT ![current] = p])
  BY <1>1, <1>2, <1>3 DEF SchedulerInv, Queued
<1>5. \A t \in Task : [state EXCEPT ![current] = p][t] = "running" <=> t \in cut
  BY <1>1 DEF SchedulerInv
<1>. QED
  BY <1>1, <1>4, <1>5 DEF SchedulerInv, CutShort

-----------------------------------------------------------------------------
\* Every step keeps the invariant.
LEMMA StepSchedulerInv == SchedulerInv /\ [Next]_vars => SchedulerInv'
<1>. SUFFICES ASSUME SchedulerInv, [Next]_vars PROVE SchedulerInv'
  OBVIOUS
<1>0. /\ Queued(inbox, heap, counter, state) /\ retry \in [Task -> Nat]
      /\ current \in Task \cup {Nil} /\ state \in [Task -> Phase]
  BY DEF SchedulerInv, Queued
<1>1. ASSUME NEW t \in Task, Produce(t) PROVE SchedulerInv'
  <2>1. Queued(inbox', heap', counter', state')
    BY <1>0, <1>1, AddQueued DEF Produce
  <2>. QED
    BY <1>0, <1>1, <2>1 DEF Produce, SchedulerInv
<1>2. ASSUME NEW t \in Task, AddDirect(t) PROVE SchedulerInv'
  <2>1. Queued(inbox', heap', counter', state')
    BY <1>0, <1>2, AddQueued DEF AddDirect
  <2>. QED
    BY <1>0, <1>2, <2>1 DEF AddDirect, SchedulerInv
<1>3. CASE run
  <2>1. CutShort(state, cut', runCalls')
    <3>1. loopPc \notin {"handling", "waiting"} /\ current \notin Task
      BY <1>3, SchedulerAssumption DEF run, SchedulerInv
    <3>2. cut' = cut /\ runCalls' = runCalls + 1
      BY <1>3 DEF run
    <3>3. Cardinality(cut) + 0 <= runCalls /\ runCalls \in Nat /\ Cardinality(cut) \in Nat
      BY <3>1, FS_CardinalityType DEF SchedulerInv
    <3>4. Cardinality(cut) + 1 <= runCalls + 1
      BY <3>3
    <3>. QED
      BY <3>1, <3>2, <3>3, <3>4 DEF CutShort, SchedulerInv
  <2>. QED
    BY <1>0, <1>3, <2>1, IterateQueued DEF run
<1>4. CASE Receive
  <2>1. CutShort(state, cut', runCalls')
    BY <1>4, SchedulerAssumption DEF Receive, SchedulerInv, CutShort
  <2>2. Queued(Tail(inbox), add_task(heap, counter, Head(inbox)), counter + 1, state)
    BY <1>0, <1>4, ReceiveQueued DEF Receive
  <2>. QED
    BY <1>0, <1>4, <2>1, <2>2, IterateQueued DEF Receive
<1>5. CASE WaitTimeout
  <2>1. CutShort(state, cut', runCalls')
    BY <1>5, SchedulerAssumption DEF WaitTimeout, SchedulerInv, CutShort
  <2>. QED
    BY <1>0, <1>5, <2>1, IterateQueued DEF WaitTimeout
<1>6. CASE DispatchSucceeds
  BY <1>0, <1>6, SettleQueued, IterateQueued DEF DispatchSucceeds
<1>7. CASE DispatchFails
  <2>. DEFINE again == retry[current] + 1 <= MaxRetries[current]
  <2>1. loopPc = "handling" /\ current \in Task /\ state[current] = "running"
    BY <1>7, SettleQueued DEF DispatchFails
  <2>2. retry' \in [Task -> Nat]
    <3>1. retry' = [retry EXCEPT ![current] = retry[current] + 1]
      BY <1>7 DEF DispatchFails
    <3>. QED
      BY <1>0, <2>1, <3>1
  <2>3. CASE again
    <3>1. Iterate(Append(inbox, current), heap, counter, running,
                  [state EXCEPT ![current] = "pending"])
      BY <1>7, <2>3 DEF DispatchFails
    <3>2. Queued(Append(inbox, current), heap, counter, [state EXCEPT ![current] = "pending"])
      BY <1>0, <2>1, AddQueued
    <3>3. CutShort([state EXCEPT ![current] = "pending"], cut', runCalls')
      BY <1>0, <1>7, <2>1 DEF SchedulerInv, CutShort, DispatchFails
    <3>. QED
      BY <2>2, <3>1, <3>2, <3>3, IterateQueued
  <2>4. CASE ~again
    <3>1. Iterate(inbox, heap, counter, running, [state EXCEPT ![current] = "failed"])
      BY <1>7, <2>4 DEF DispatchFails
    <3>2. UNCHANGED <<cut, runCalls>>
      BY <1>7 DEF DispatchFails
    <3>. QED
      BY <2>1, <2>2, <3>1, <3>2, SettleQueued, IterateQueued
  <2>. QED
    BY <2>3, <2>4
<1>8. CASE stop
  BY <1>8 DEF stop, SchedulerInv
<1>9. CASE Cancel
  <2>1. /\ loopPc \in {"handling", "waiting"} /\ loopPc' = "cancelled" /\ current' = Nil
        /\ cut' = cut \cup ({current} \ {Nil})
        /\ UNCHANGED <<inbox, heap, counter, state, retry, runCalls>>
    BY <1>9 DEF Cancel
  <2>2. /\ cut \in SUBSET Task /\ IsFiniteSet(cut) /\ Cardinality(cut) \in Nat /\ runCalls \in Nat
        /\ Cardinality(cut) + 1 <= runCalls /\ current \notin cut
        /\ \A t \in Task : state[t] = "running" <=> t = current \/ t \in cut
    BY <2>1, FS_CardinalityType DEF SchedulerInv
  <2>3. CASE current = Nil
    BY <1>0, <2>1, <2>2, <2>3, SchedulerAssumption DEF SchedulerInv
  <2>4. CASE current # Nil
    <3>1. cut' = cut \cup {current} /\ current \in Task
      BY <1>0, <2>1, <2>4
    <3>2. IsFiniteSet(cut') /\ Cardinality(cut') = Cardinality(cut) + 1
      BY <2>2, <3>1, FS_AddElement
    <3>3. Cardinality(cut') + 0 <= runCalls'
      BY <2>1, <2>2, <3>2
    <3>4. \A t \in Task : state'[t] = "running" <=> t = current' \/ t \in cut'
      BY <2>1, <2>2, <3>1, SchedulerAssumption
    <3>5. current' \notin cut' /\ cut' \in SUBSET Task
      BY <2>1, <2>2, <3>1, SchedulerAssumption
    <3>. QED
      BY <1>0, <2>1, <2>2, <3>2, <3>3, <3>4, <3>5 DEF SchedulerInv
  <2>. QED
    BY <2>3, <2>4
<1>10. CASE UNCHANGED vars
  BY <1>10 DEF vars, SchedulerInv
<1>. QED
  BY <1>1, <1>2, <1>3, <1>4, <1>5, <1>6, <1>7, <1>8, <1>9, <1>10 DEF Next, Loop

\* The invariant says of the pending tasks and the running one what TaskConserved says
\* of the sets of tasks in the three places.
LEMMA InvConserves == SchedulerInv => TaskConserved
<1>. SUFFICES ASSUME SchedulerInv PROVE TaskConserved
  OBVIOUS
<1>. DEFINE queued == {inbox[i] : i \in DOMAIN inbox}
            onHeap == {e.task : e \in heap}
            handled == {current} \ {Nil}
<1>1. queued \subseteq Task /\ onHeap \subseteq Task /\ handled \subseteq Task
  BY DEF SchedulerInv, Queued, Entry
<1>2. /\ \A t : t \in queued <=> Boxed(inbox, t)
      /\ \A t : t \in onHeap <=> Heaped(heap, t)
      /\ \A t \in Task : t \in handled <=> t = current
  BY SchedulerAssumption DEF Boxed, Heaped, SchedulerInv
<1>3. queued \cap onHeap = {} /\ handled \cap (queued \cup onHeap) = {}
  BY <1>1, <1>2 DEF SchedulerInv, Queued
<1>4. cut \cap (queued \cup onHeap \cup handled) = {}
  <2>1. \A t \in cut : t \in Task /\ state[t] = "running" /\ t \notin handled
    BY DEF SchedulerInv
  <2>. QED
    BY <1>1, <1>2, <2>1 DEF SchedulerInv, Queued
<1>5. /\ {t \in Task : state[t] = "pending"} = queued \cup onHeap
      /\ {t \in Task : state[t] = "running"} = handled \cup cut
  BY <1>1, <1>2, SchedulerAssumption DEF SchedulerInv, Queued
<1>6. Cardinality(cut \cup handled) <= runCalls
  <2>0. IsFiniteSet(cut) /\ Cardinality(cut) \in Nat /\ runCalls \in Nat
    BY FS_CardinalityType DEF SchedulerInv
  <2>1. CASE handled = {}
    <3>1. cut \cup handled = cut
      BY <2>1
    <3>. QED
      BY <2>0, <3>1 DEF SchedulerInv
  <2>2. CASE handled # {}
    <3>1. cut \cup handled = cut \cup {current} /\ loopPc = "handling" /\ current \notin cut
      BY <2>2 DEF SchedulerInv
    <3>2. Cardinality(cut \cup {current}) = Cardinality(cut) + 1
      BY <2>0, <3>1, FS_AddElement
    <3>. QED
      BY <2>0, <3>1, <3>2 DEF SchedulerInv
  <2>. QED
    BY <2>1, <2>2
<1>. QED
  BY <1>3, <1>4, <1>5, <1>6 DEF TaskConserved, SchedulerInv, Queued

\* No task is lost or doubled by draining, retrying, stopping and running again; a call
\* of run() that is cancelled costs the one task it was handling; and heapq never
\* compares two items (scheduler.py:85, :122, :149).
THEOREM TasksAreConserved == Spec => []TaskConserved
<1>1. Init => SchedulerInv
  BY SchedulerAssumption, FS_EmptySet DEF Init, SchedulerInv, Queued, Boxed, Heaped, Phase
<1>. QED
  BY <1>1, StepSchedulerInv, InvConserves, PTL DEF Spec

-----------------------------------------------------------------------------
(* The stream consumers, for any number of consumers, tasks and messages,  *)
(* any window, and whatever expires, fails or dies: a task runs once per   *)
(* mark of its guard, and an acknowledged message was handled.             *)

Place == {"idle", "claiming", "guard", "duplicate", "acquire", "call", "running", "cache",
          "dispatch", "ack", "release", "delete", "dead"}
Result == {"none", "result", "fallback"}

\* Where a consumer has passed the guard with its task.
Charged == InCharge \cup Locked

\* Keys, messages and consumers.
KeysTyped ==
    /\ seen \in SUBSET Job
    /\ cached \in [Job -> Result]
    /\ lockKey \in [Job -> Worker \cup {Nobody}]
    /\ value \in [Worker -> Result]
    /\ runs \in [Job -> Nat] /\ remarks \in [Job -> Nat]
    /\ lapses \in Nat /\ errors \in Nat /\ expired \in SUBSET Job

StreamTyped ==
    /\ stream \in Seq(Job) /\ Len(stream) <= MaxPublished
    /\ delivered \in 0..Len(stream)
    /\ holder \in [Message -> Worker \cup {Nobody}]
    /\ \A m \in Message : holder[m] # Nobody => m <= delivered
    /\ acked \in SUBSET (1..delivered)

WorkTyped ==
    /\ wpc \in [Worker -> Place]
    /\ todo \in [Worker -> Seq(Message)]
    /\ listing \in [Worker -> SUBSET Message]
    /\ \A w \in Worker : \A i \in 1..Len(todo[w]) : todo[w][i] <= delivered
    /\ \A w \in Worker : wpc[w] \notin {"idle", "claiming", "dead"} => todo[w] # <<>>

TypeInv == KeysTyped /\ StreamTyped /\ WorkTyped

-----------------------------------------------------------------------------
\* The actions a step may be.
LEMMA StepOf ==
    ASSUME [WorkersNext]_workersVars
    PROVE  \/ \E t \in Job : publish(t) \/ LockExpires(t) \/ GuardExpires(t) \/ ResultExpires(t)
           \/ \E w \in Worker : \/ claim_one(w) \/ recover(w) \/ Die(w) \/ already_seen(w)
                              \/ cache_result(w) \/ flush(w) \/ CallAdmitted(w) \/ CallRefused(w)
                              \/ CallSucceeds(w) \/ CallFails(w) \/ acquire(w) \/ ack(w) \/ release(w)
                              \/ ReleaseDelete(w) \/ DispatchRaises(w)
           \/ \E w \in Worker, won \in BOOLEAN : ClaimPending(w, won)
           \/ UNCHANGED workersVars
BY DEF WorkersNext, WorkerStep

\* A message a consumer has before it is a published one, and its task a task.
LEMMA JobAtHand ==
    ASSUME TypeInv, NEW w \in Worker, todo[w] # <<>>
    PROVE  /\ Head(todo[w]) \in 1..delivered /\ Head(todo[w]) \in Message
           /\ jobOf(w) \in Job
<1>1. todo[w] \in Seq(Message) /\ Len(todo[w]) \in Nat /\ Len(todo[w]) >= 1
  BY DEF TypeInv, WorkTyped
<1>2. Head(todo[w]) = todo[w][1] /\ todo[w][1] \in Message /\ todo[w][1] <= delivered
  BY <1>1 DEF TypeInv, WorkTyped
<1>. QED
  BY <1>2 DEF TypeInv, StreamTyped, jobOf, Message

\* To the next message: what is before the consumer stays well typed.
LEMMA NextTyped ==
    ASSUME TypeInv, NEW w \in Worker, todo[w] # <<>>, NextMessage(w),
           UNCHANGED <<delivered, listing>>
    PROVE  WorkTyped' /\ wpc'[w] \in {"idle", "guard"}
<1>1. /\ todo[w] \in Seq(Message) /\ Len(todo[w]) \in Nat /\ Len(todo[w]) >= 1
      /\ \A i \in 1..Len(todo[w]) : todo[w][i] <= delivered
      /\ wpc \in [Worker -> Place] /\ todo \in [Worker -> Seq(Message)]
  BY DEF TypeInv, WorkTyped
<1>2. /\ Tail(todo[w]) \in Seq(Message)
      /\ Len(Tail(todo[w])) = Len(todo[w]) - 1
      /\ \A i \in 1..Len(todo[w]) - 1 : Tail(todo[w])[i] = todo[w][i + 1]
  BY <1>1
<1>3. \A i \in 1..Len(Tail(todo[w])) : Tail(todo[w])[i] <= delivered
  BY <1>1, <1>2
<1>4. /\ todo' \in [Worker -> Seq(Message)] /\ todo'[w] = Tail(todo[w])
      /\ \A v \in Worker \ {w} : todo'[v] = todo[v]
  BY <1>1, <1>2 DEF NextMessage
<1>5. /\ wpc' \in [Worker -> Place]
      /\ wpc'[w] = IF Len(todo[w]) = 1 THEN "idle" ELSE "guard"
      /\ \A v \in Worker \ {w} : wpc'[v] = wpc[v]
  BY <1>1 DEF NextMessage, Goto, Place
<1>6. \A v \in Worker : \A i \in 1..Len(todo'[v]) : todo'[v][i] <= delivered
  BY <1>3, <1>4 DEF TypeInv, WorkTyped
<1>7. \A v \in Worker : wpc'[v] \notin {"idle", "claiming", "dead"} => todo'[v] # <<>>
  BY <1>1, <1>2, <1>4, <1>5 DEF TypeInv, WorkTyped
<1>. QED
  BY <1>4, <1>5, <1>6, <1>7 DEF TypeInv, WorkTyped

\* Otherwise a consumer that has a message only goes to another place.
LEMMA GotoTyped ==
    ASSUME TypeInv, NEW w \in Worker, NEW p \in Place, Goto(w, p),
           p \in {"idle", "claiming", "dead"} \/ todo[w] # <<>>,
           UNCHANGED <<todo, delivered>>, listing' \in [Worker -> SUBSET Message]
    PROVE  WorkTyped'
BY DEF TypeInv, WorkTyped, Goto

-----------------------------------------------------------------------------
\* The keys, counters and results stay well typed.
LEMMA KeysStep == TypeInv /\ [WorkersNext]_workersVars => KeysTyped'
<1>. SUFFICES ASSUME TypeInv, [WorkersNext]_workersVars PROVE KeysTyped'
  OBVIOUS
<1>. USE DEF workersVars, redisVars, workVars, workersHistory, Result
<1>0. KeysTyped /\ wpc \in [Worker -> Place]
  BY DEF TypeInv, WorkTyped
<1>1. ASSUME NEW w \in Worker, At(w, "guard") \/ At(w, "acquire") \/ At(w, "call") \/ At(w, "cache")
                               \/ At(w, "delete")
      PROVE  jobOf(w) \in Job
  BY <1>1, JobAtHand DEF TypeInv, WorkTyped, At
<1>2. ASSUME NEW t \in Job, publish(t) \/ LockExpires(t) \/ GuardExpires(t) \/ ResultExpires(t) PROVE KeysTyped'
  <2>1. CASE publish(t)
    BY <1>0, <2>1 DEF KeysTyped, publish
  <2>2. CASE LockExpires(t)
    BY <1>0, <2>2 DEF KeysTyped, LockExpires
  <2>3. CASE GuardExpires(t)
    BY <1>0, <2>3 DEF KeysTyped, GuardExpires
  <2>4. CASE ResultExpires(t)
    BY <1>0, <2>4 DEF KeysTyped, ResultExpires
  <2>. QED
    BY <1>2, <2>1, <2>2, <2>3, <2>4
<1>3. ASSUME NEW w \in Worker, claim_one(w) \/ recover(w) \/ ack(w) \/ release(w) \/ flush(w)
      PROVE  KeysTyped'
  BY <1>0, <1>3 DEF KeysTyped, claim_one, recover, ack, release, flush
<1>4. ASSUME NEW w \in Worker, CallFails(w) \/ DispatchRaises(w) \/ Die(w) \/ CallRefused(w) \/ CallSucceeds(w)
      PROVE  KeysTyped'
  BY <1>0, <1>4 DEF KeysTyped, CallFails, DispatchRaises, Die, CallRefused, CallSucceeds
<1>5. ASSUME NEW w \in Worker, already_seen(w) \/ acquire(w) \/ cache_result(w) \/ ReleaseDelete(w)
      PROVE  KeysTyped'
  BY <1>0, <1>1, <1>5 DEF KeysTyped, already_seen, acquire, cache_result, ReleaseDelete
<1>6. ASSUME NEW w \in Worker, CallAdmitted(w) PROVE KeysTyped'
  BY <1>0, <1>1, <1>6 DEF KeysTyped, CallAdmitted
<1>7. ASSUME NEW w \in Worker, NEW won \in BOOLEAN, ClaimPending(w, won) PROVE KeysTyped'
  BY <1>0, <1>7 DEF KeysTyped, ClaimPending
<1>8. CASE UNCHANGED workersVars
  BY <1>0, <1>8 DEF KeysTyped
<1>9. ASSUME NEW w \in Worker, WorkerStep(w) PROVE KeysTyped'
  BY <1>3, <1>4, <1>5, <1>6, <1>7, <1>9 DEF WorkerStep
<1>. HIDE DEF workersVars
<1>. QED
  BY <1>2, <1>3, <1>4, <1>7, <1>8, <1>9 DEF WorkersNext

\* Only delivered messages are pending or acknowledged.
LEMMA StreamStep == TypeInv /\ [WorkersNext]_workersVars => StreamTyped'
<1>. SUFFICES ASSUME TypeInv, [WorkersNext]_workersVars PROVE StreamTyped'
  OBVIOUS
<1>. USE DEF workersVars, redisVars, workVars, workersHistory
<1>0. StreamTyped /\ WorkTyped
  BY DEF TypeInv
<1>1. ASSUME NEW t \in Job, publish(t) PROVE StreamTyped'
  BY <1>0, <1>1, WorkersAssumption DEF StreamTyped, publish, Message
<1>2. ASSUME NEW w \in Worker, claim_one(w) PROVE StreamTyped'
  BY <1>0, <1>2, WorkersAssumption DEF StreamTyped, claim_one, Message
<1>3. ASSUME NEW w \in Worker, NEW won \in BOOLEAN, ClaimPending(w, won) PROVE StreamTyped'
  <2>1. PICK m \in listing[w] : /\ won => holder[m] # Nobody
                               /\ holder' = IF won THEN [holder EXCEPT ![m] = w] ELSE holder
    BY <1>3 DEF ClaimPending
  <2>2. m \in Message
    BY <1>0, <2>1 DEF WorkTyped
  <2>3. UNCHANGED <<stream, delivered, acked>>
    BY <1>3 DEF ClaimPending
  <2>. QED
    BY <1>0, <2>1, <2>2, <2>3 DEF StreamTyped
<1>4. ASSUME NEW w \in Worker, ack(w) PROVE StreamTyped'
  <2>1. Head(todo[w]) \in 1..delivered
    BY <1>0, <1>4, JobAtHand DEF WorkTyped, ack
  <2>. QED
    BY <1>0, <1>4, <2>1 DEF StreamTyped, ack
<1>5. ASSUME NEW t \in Job, LockExpires(t) \/ GuardExpires(t) \/ ResultExpires(t) PROVE StreamTyped'
  BY <1>0, <1>5 DEF StreamTyped, LockExpires, GuardExpires, ResultExpires
<1>6. ASSUME NEW w \in Worker, already_seen(w) \/ acquire(w) \/ CallAdmitted(w) \/ CallRefused(w) \/ CallSucceeds(w)
      PROVE  StreamTyped'
  BY <1>0, <1>6 DEF StreamTyped, already_seen, acquire, CallAdmitted, CallRefused, CallSucceeds
<1>7. ASSUME NEW w \in Worker, cache_result(w) \/ flush(w) \/ release(w) \/ ReleaseDelete(w)
      PROVE  StreamTyped'
  BY <1>0, <1>7 DEF StreamTyped, cache_result, flush, release, ReleaseDelete
<1>8. ASSUME NEW w \in Worker, recover(w) \/ CallFails(w) \/ DispatchRaises(w) \/ Die(w) PROVE StreamTyped'
  BY <1>0, <1>8 DEF StreamTyped, recover, CallFails, DispatchRaises, Die
<1>9. CASE UNCHANGED workersVars
  BY <1>0, <1>9 DEF StreamTyped
<1>. QED
  BY <1>1, <1>2, <1>3, <1>4, <1>5, <1>6, <1>7, <1>8, <1>9 DEF WorkersNext, WorkerStep

\* A consumer between claiming and the next claim has a message.
LEMMA WorkStep == TypeInv /\ [WorkersNext]_workersVars => WorkTyped'
<1>. SUFFICES ASSUME TypeInv, [WorkersNext]_workersVars PROVE WorkTyped'
  OBVIOUS
<1>. USE DEF workersVars, redisVars, workVars, workersHistory, At
<1>0. WorkTyped /\ StreamTyped
  BY DEF TypeInv
<1>1. ASSUME NEW w \in Worker, wpc[w] \notin {"idle", "claiming", "dead"} PROVE todo[w] # <<>>
  BY <1>0, <1>1 DEF WorkTyped
<1>2. ASSUME NEW w \in Worker, claim_one(w) PROVE WorkTyped'
  <2>1. delivered + 1 \in Message /\ delivered' = delivered + 1 /\ delivered \in Nat
    BY <1>0, <1>2, WorkersAssumption DEF StreamTyped, claim_one, Message
  <2>2. todo' = [todo EXCEPT ![w] = <<delivered + 1>>] /\ <<delivered + 1>> \in Seq(Message)
    BY <1>2, <2>1 DEF claim_one
  <2>3. \A v \in Worker : \A i \in 1..Len(todo'[v]) : todo'[v][i] <= delivered'
    <3>1. \A v \in Worker : todo[v] \in Seq(Message)
      BY <1>0 DEF WorkTyped
    <3>2. ASSUME NEW v \in Worker, NEW i \in 1..Len(todo[v])
          PROVE  todo[v][i] \in Nat /\ todo[v][i] <= delivered + 1
      <4>0. todo[v][i] \in Message
        BY <3>1
      <4>1. todo[v][i] \in 1..MaxPublished
        BY <4>0 DEF Message
      <4>2. todo[v][i] <= delivered
        BY <1>0 DEF WorkTyped
      <4>. QED
        BY <2>1, <4>1, <4>2, WorkersAssumption
    <3>3. todo'[w] = <<delivered + 1>> /\ \A v \in Worker \ {w} : todo'[v] = todo[v]
      BY <1>0, <2>2 DEF WorkTyped
    <3>4. \A i \in 1..Len(todo'[w]) : todo'[w][i] <= delivered'
      BY <2>1, <3>3
    <3>. QED
      BY <2>1, <3>2, <3>3, <3>4
  <2>4. listing' = listing /\ wpc' = [wpc EXCEPT ![w] = "guard"]
    BY <1>2 DEF claim_one, Goto
  <2>5. todo' \in [Worker -> Seq(Message)] /\ wpc' \in [Worker -> Place] /\ listing' \in [Worker -> SUBSET Message]
    BY <1>0, <2>2, <2>4 DEF WorkTyped, Place
  <2>6. \A v \in Worker : wpc'[v] \notin {"idle", "claiming", "dead"} => todo'[v] # <<>>
    BY <1>0, <2>2, <2>4 DEF WorkTyped
  <2>. QED
    BY <2>3, <2>5, <2>6 DEF WorkTyped
<1>3. ASSUME NEW w \in Worker, NEW won \in BOOLEAN, ClaimPending(w, won) PROVE WorkTyped'
  <2>1. PICK m \in listing[w] :
            /\ won => holder[m] # Nobody
            /\ listing' = [listing EXCEPT ![w] = @ \ {m}]
            /\ todo' = IF won THEN [todo EXCEPT ![w] = Append(@, m)] ELSE todo
    BY <1>3 DEF ClaimPending
  <2>2. m \in Message /\ (won => m <= delivered) /\ delivered' = delivered
    BY <1>0, <1>3, <2>1 DEF WorkTyped, StreamTyped, ClaimPending
  <2>3. todo[w] \in Seq(Message) /\ \A i \in 1..Len(todo[w]) : todo[w][i] <= delivered
    BY <1>0 DEF WorkTyped
  <2>4. /\ Append(todo[w], m) \in Seq(Message)
        /\ won => \A i \in 1..Len(Append(todo[w], m)) : Append(todo[w], m)[i] <= delivered
    BY <2>2, <2>3
  <2>5. todo' \in [Worker -> Seq(Message)] /\ listing' \in [Worker -> SUBSET Message]
    BY <1>0, <2>1, <2>2, <2>4 DEF WorkTyped
  <2>6. /\ todo'[w] = IF won THEN Append(todo[w], m) ELSE todo[w]
        /\ \A v \in Worker \ {w} : todo'[v] = todo[v]
    BY <1>0, <2>1 DEF WorkTyped
  <2>7. \A v \in Worker : \A i \in 1..Len(todo'[v]) : todo'[v][i] <= delivered
    BY <1>0, <2>4, <2>6 DEF WorkTyped
  <2>8. wpc' = [wpc EXCEPT ![w] = IF listing'[w] # {} THEN "claiming"
                                  ELSE IF todo'[w] = <<>> THEN "idle" ELSE "guard"]
    BY <1>3 DEF ClaimPending, Goto
  <2>9. wpc' \in [Worker -> Place]
    BY <1>0, <2>8 DEF WorkTyped, Place
  <2>10. \A v \in Worker : wpc'[v] \notin {"idle", "claiming", "dead"} => todo'[v] # <<>>
    BY <1>0, <2>6, <2>8 DEF WorkTyped
  <2>. QED
    BY <2>2, <2>5, <2>7, <2>9, <2>10 DEF WorkTyped
<1>4. ASSUME NEW w \in Worker, recover(w) PROVE WorkTyped'
  <2>1. listing' \in [Worker -> SUBSET Message]
    BY <1>0, <1>4 DEF recover, WorkTyped, Pending
  <2>. QED
    BY <1>4, <2>1, GotoTyped DEF recover, Place
<1>5. ASSUME NEW w \in Worker, already_seen(w) \/ CallAdmitted(w) \/ CallRefused(w) \/ CallSucceeds(w)
      PROVE  WorkTyped'
  <2>1. todo[w] # <<>> /\ listing' \in [Worker -> SUBSET Message]
    BY <1>0, <1>1, <1>5 DEF already_seen, CallAdmitted, CallRefused, CallSucceeds, WorkTyped
  <2>2. \E p \in Place : Goto(w, p)
    BY <1>5 DEF already_seen, CallAdmitted, CallRefused, CallSucceeds, Place
  <2>. QED
    BY <1>5, <2>1, <2>2, GotoTyped DEF already_seen, CallAdmitted, CallRefused, CallSucceeds
<1>6. ASSUME NEW w \in Worker, cache_result(w) \/ flush(w) \/ Die(w) PROVE WorkTyped'
  <2>1. (wpc[w] \notin {"idle", "claiming", "dead"} => todo[w] # <<>>) /\ listing' \in [Worker -> SUBSET Message]
    BY <1>0, <1>6 DEF cache_result, flush, Die, WorkTyped
  <2>2. CASE \E p \in {"dispatch", "ack", "dead"} : Goto(w, p)
    BY <1>6, <2>1, <2>2, GotoTyped DEF cache_result, flush, Die, Place
  <2>3. CASE UNCHANGED wpc
    BY <1>0, <1>6, <2>3 DEF cache_result, flush, Die, WorkTyped
  <2>. QED
    BY <1>6, <2>2, <2>3 DEF cache_result, flush, Die
<1>7. ASSUME NEW w \in Worker, acquire(w) \/ release(w) \/ ack(w) PROVE WorkTyped'
  <2>1. todo[w] # <<>> /\ listing' \in [Worker -> SUBSET Message]
    BY <1>0, <1>1, <1>7 DEF acquire, release, ack, WorkTyped
  <2>2. UNCHANGED <<delivered, listing>>
    BY <1>7 DEF acquire, release, ack
  <2>3. NextMessage(w) \/ (UNCHANGED todo /\ \E p \in {"call", "delete", "release"} : Goto(w, p))
    BY <1>7 DEF acquire, release, ack
  <2>. QED
    BY <2>1, <2>2, <2>3, NextTyped, GotoTyped DEF Place
<1>8. ASSUME NEW w \in Worker, CallFails(w) \/ DispatchRaises(w) \/ ReleaseDelete(w) PROVE WorkTyped'
  <2>1. todo[w] # <<>> /\ UNCHANGED <<delivered, listing>> /\ NextMessage(w)
    BY <1>0, <1>1, <1>8 DEF CallFails, DispatchRaises, ReleaseDelete
  <2>. QED
    BY <2>1, NextTyped
<1>9. CASE UNCHANGED workersVars
  BY <1>0, <1>9 DEF WorkTyped
<1>10. ASSUME NEW t \in Job, publish(t) \/ LockExpires(t) \/ GuardExpires(t) \/ ResultExpires(t) PROVE WorkTyped'
  BY <1>0, <1>10 DEF publish, LockExpires, GuardExpires, ResultExpires, WorkTyped
<1>. QED
  BY <1>2, <1>3, <1>4, <1>5, <1>6, <1>7, <1>8, <1>9, <1>10 DEF WorkersNext, WorkerStep

-----------------------------------------------------------------------------
(* What a step does to the consumers beside the one that takes it.           *)

\* A consumer that has passed the guard keeps its task until it is done with it, and
\* it has come from the guard with it.
LEMMA TaskStays ==
    ASSUME TypeInv, [WorkersNext]_workersVars, NEW w \in Worker,
           wpc'[w] \in Charged \cup {"duplicate"}
    PROVE  /\ wpc[w] \in Charged \cup {"duplicate"} \/ (wpc[w] = "guard" /\ already_seen(w))
           /\ wpc[w] = "duplicate" => wpc'[w] = "duplicate"
           /\ jobOf(w)' = jobOf(w) /\ jobOf(w) \in Job
<1>. USE DEF workersVars, redisVars, workVars, workersHistory, At, Goto, InCharge, Locked, Charged
<1>0. WorkTyped /\ StreamTyped
  BY DEF TypeInv
<1>1. /\ todo'[w] = todo[w]
      /\ wpc[w] \in Charged \cup {"duplicate"} \/ (wpc[w] = "guard" /\ already_seen(w))
      /\ wpc[w] = "duplicate" => wpc'[w] = "duplicate"
  <2>. USE DEF WorkTyped
  <2>1. CASE \E t \in Job : publish(t) \/ LockExpires(t) \/ GuardExpires(t) \/ ResultExpires(t)
    BY <1>0, <2>1 DEF publish, LockExpires, GuardExpires, ResultExpires
  <2>2. CASE \E v \in Worker : claim_one(v) \/ recover(v) \/ already_seen(v) \/ Die(v)
    BY <1>0, <2>2 DEF claim_one, recover, already_seen, Die
  <2>3. CASE \E v \in Worker : cache_result(v) \/ flush(v) \/ CallAdmitted(v) \/ CallRefused(v)
                                    \/ CallSucceeds(v) \/ CallFails(v)
    BY <1>0, <2>3 DEF cache_result, flush, CallAdmitted, CallRefused, CallSucceeds, CallFails, NextMessage
  <2>4. CASE \E v \in Worker : acquire(v) \/ ack(v) \/ release(v) \/ ReleaseDelete(v)
    BY <1>0, <2>4 DEF acquire, ack, release, ReleaseDelete, NextMessage
  <2>5. CASE \E v \in Worker : DispatchRaises(v)
    BY <1>0, <2>5 DEF DispatchRaises, NextMessage
  <2>6. CASE \E v \in Worker, won \in BOOLEAN : ClaimPending(v, won)
    <3>1. PICK v \in Worker, won \in BOOLEAN : ClaimPending(v, won)
      BY <2>6
    <3>2. v # w
      BY <1>0, <3>1 DEF ClaimPending
    <3>. QED
      BY <1>0, <3>1, <3>2 DEF ClaimPending
  <2>7. CASE UNCHANGED workersVars
    BY <1>0, <2>7
  <2>8. ASSUME NEW v \in Worker, WorkerStep(v)
        PROVE  \/ claim_one(v) \/ already_seen(v) \/ cache_result(v) \/ flush(v) \/ CallAdmitted(v)
               \/ CallRefused(v) \/ CallSucceeds(v) \/ acquire(v) \/ ack(v) \/ release(v)
               \/ ReleaseDelete(v) \/ \E won \in BOOLEAN : ClaimPending(v, won)
    BY <2>8 DEF WorkerStep
  <2>. HIDE DEF workersVars, WorkTyped, At, Goto, InCharge, Locked, Charged
  <2>. QED
    BY <2>1, <2>2, <2>3, <2>4, <2>5, <2>6, <2>7, <2>8 DEF WorkersNext
<1>2. todo[w] # <<>>
  BY <1>0, <1>1 DEF WorkTyped
<1>3. Head(todo[w]) \in 1..delivered /\ jobOf(w) \in Job
  BY <1>2, JobAtHand
<1>4. stream' = stream \/ \E t \in Job : stream' = Append(stream, t)
  BY DEF WorkersNext, WorkerStep, publish, LockExpires, GuardExpires, ResultExpires, claim_one, recover,
         already_seen, Die,
         cache_result, flush, CallAdmitted, CallRefused, CallSucceeds, CallFails, acquire, ack, release,
         ReleaseDelete, DispatchRaises, ClaimPending
<1>5. stream'[Head(todo[w])] = stream[Head(todo[w])]
  BY <1>0, <1>3, <1>4 DEF StreamTyped
<1>. QED
  BY <1>1, <1>3, <1>5 DEF jobOf

-----------------------------------------------------------------------------
(* The guard.                                                                *)

\* The guard key of the task was set at least once.
Passed(t) == t \in seen \/ remarks[t] > 0

Holds(w, t) == wpc[w] \in Charged /\ jobOf(w) = t

\* Consumers are past the guard, and messages are acknowledged, of such tasks only; and
\* as long as a guard key has not expired, of one consumer only.
PassInv ==
    /\ \A w \in Worker : wpc[w] \in Charged \cup {"duplicate"} => Passed(jobOf(w))
    /\ \A m \in acked : Passed(stream[m])
    /\ \A t \in Job : remarks[t] = 0 =>
           \A v, w \in Worker : Holds(v, t) /\ Holds(w, t) => v = w

\* The effect of a step on the guard keys.
LEMMA GuardStep ==
    ASSUME TypeInv, [WorkersNext]_workersVars
    PROVE  \/ UNCHANGED <<seen, remarks>> /\ \A w \in Worker : ~already_seen(w)
           \/ \E w \in Worker : already_seen(w)
           \/ \E t \in Job : GuardExpires(t)
<1>. USE DEF workersVars, redisVars, workVars, workersHistory
<1>1. ASSUME \A w \in Worker : ~already_seen(w), \A t \in Job : ~GuardExpires(t)
      PROVE  UNCHANGED <<seen, remarks>>
  BY <1>1 DEF WorkersNext, WorkerStep, publish, LockExpires, ResultExpires, claim_one, recover, Die,
         cache_result, flush, CallAdmitted, CallRefused, CallSucceeds, CallFails, acquire, ack, release,
         ReleaseDelete, DispatchRaises, ClaimPending
<1>. QED
  BY <1>1

\* What was passed stays so, and what is seen now was passed or is marked by this step.
LEMMA PassedStays ==
    ASSUME TypeInv, [WorkersNext]_workersVars, NEW t \in Job
    PROVE  /\ Passed(t) => Passed(t)'
           /\ remarks[t] \in Nat /\ remarks'[t] \in Nat /\ remarks'[t] >= remarks[t]
           /\ Passed(t)' => Passed(t) \/ \E w \in Worker : already_seen(w) /\ jobOf(w) = t
<1>. USE DEF Passed
<1>0. KeysTyped
  BY DEF TypeInv
<1>1. CASE UNCHANGED <<seen, remarks>>
  BY <1>0, <1>1 DEF KeysTyped
<1>2. ASSUME NEW w \in Worker, already_seen(w) PROVE seen' = seen \cup {jobOf(w)} /\ remarks' = remarks
  BY <1>2 DEF already_seen, workersHistory
<1>3. ASSUME NEW u \in Job, GuardExpires(u)
      PROVE  seen' = seen \ {u} /\ remarks' = [remarks EXCEPT ![u] = @ + 1] /\ u \in seen
  BY <1>3 DEF GuardExpires
<1>4. CASE \E w \in Worker : already_seen(w)
  BY <1>0, <1>2, <1>4 DEF KeysTyped
<1>5. CASE \E u \in Job : GuardExpires(u)
  <2>1. PICK u \in Job : GuardExpires(u)
    BY <1>5
  <2>2. seen' = seen \ {u} /\ remarks' = [remarks EXCEPT ![u] = @ + 1] /\ u \in seen
    BY <1>3, <2>1
  <2>. QED
    BY <1>0, <2>2 DEF KeysTyped
<1>. QED
  BY <1>1, <1>4, <1>5, GuardStep

\* A consumer that passes the guard finds no mark, and leaves one.
LEMMA PassStep == TypeInv /\ PassInv /\ [WorkersNext]_workersVars => PassInv'
<1>. SUFFICES ASSUME TypeInv, PassInv, [WorkersNext]_workersVars PROVE PassInv'
  OBVIOUS
<1>1. ASSUME NEW w \in Worker, wpc'[w] \in Charged \cup {"duplicate"} PROVE Passed(jobOf(w))'
  <2>1. jobOf(w)' = jobOf(w) /\ jobOf(w) \in Job
    BY <1>1, TaskStays
  <2>2. CASE wpc[w] \in Charged \cup {"duplicate"}
    BY <2>1, <2>2, PassedStays DEF PassInv, Passed
  <2>3. CASE already_seen(w)
    BY <2>1, <2>3 DEF already_seen, Passed
  <2>. QED
    BY <1>1, <2>2, <2>3, TaskStays
<1>2. ASSUME NEW m \in acked' PROVE Passed(stream[m])'
  <2>1. CASE m \in acked
    <3>0. delivered \in 0..Len(stream) /\ acked \in SUBSET (1..delivered) /\ stream \in Seq(Job)
      BY DEF TypeInv, StreamTyped
    <3>1. m \in 1..Len(stream) /\ stream[m] \in Job /\ Passed(stream[m])
      <4>1. m \in 1..Len(stream)
        BY <2>1, <3>0
      <4>2. stream[m] \in Job
        BY <3>0, <4>1
      <4>3. Passed(stream[m])
        BY <2>1 DEF PassInv
      <4>. QED
        BY <4>1, <4>2, <4>3
    <3>2. stream' = stream \/ \E t \in Job : stream' = Append(stream, t)
      BY DEF WorkersNext, WorkerStep, publish, LockExpires, GuardExpires, ResultExpires, claim_one, recover,
         already_seen, Die,
             cache_result, flush, CallAdmitted, CallRefused, CallSucceeds, CallFails, acquire, ack,
             release, ReleaseDelete, DispatchRaises, ClaimPending,
             workersVars, redisVars, workVars, workersHistory
    <3>3. stream'[m] = stream[m]
      BY <3>0, <3>1, <3>2
    <3>. QED
      BY <3>1, <3>3, PassedStays DEF Passed
  <2>2. CASE m \notin acked
    <3>1. PICK w \in Worker : ack(w)
      BY <1>2, <2>2 DEF WorkersNext, WorkerStep, publish, LockExpires, GuardExpires, ResultExpires, claim_one, recover,
             already_seen, Die, cache_result, flush, CallAdmitted, CallRefused, CallSucceeds, CallFails,
             acquire, release, ReleaseDelete, DispatchRaises, ClaimPending,
             workersVars, redisVars, workVars, workersHistory
    <3>2. m = Head(todo[w]) /\ stream' = stream /\ wpc[w] \in Charged \cup {"duplicate"}
      BY <1>2, <2>2, <3>1 DEF ack, Charged, Locked
    <3>3. todo[w] # <<>>
      BY <3>2 DEF TypeInv, WorkTyped, Charged, InCharge, Locked
    <3>4. jobOf(w) \in Job /\ stream'[m] = jobOf(w) /\ Passed(jobOf(w))
      BY <3>2, <3>3, JobAtHand DEF jobOf, PassInv
    <3>. QED
      BY <3>4, PassedStays DEF Passed
  <2>. QED
    BY <2>1, <2>2
<1>3. ASSUME NEW t \in Job, remarks'[t] = 0, NEW v \in Worker, NEW w \in Worker, Holds(v, t)', Holds(w, t)'
      PROVE  v = w
  <2>1. remarks[t] = 0 /\ jobOf(v) = t /\ jobOf(w) = t
    BY <1>3, TaskStays, PassedStays DEF Holds
  <2>2. ASSUME NEW x \in Worker, already_seen(x), NEW y \in Worker, jobOf(x) = t, wpc'[x] \in Charged,
               Holds(y, t), y # x
        PROVE  FALSE
    <3>1. t \notin seen
      BY <2>2 DEF already_seen, TypeInv, WorkTyped, Charged, InCharge, Locked, Goto
    <3>2. Passed(t)
      BY <2>2 DEF PassInv, Holds
    <3>. QED
      BY <2>1, <3>1, <3>2 DEF Passed
  <2>3. ASSUME NEW x \in Worker, Holds(x, t)', jobOf(x) = t
        PROVE  Holds(x, t) \/ (already_seen(x) /\ wpc'[x] \in Charged)
    <3>1. wpc'[x] \in Charged /\ wpc'[x] # "duplicate"
      BY <2>3 DEF Holds, Charged, InCharge, Locked
    <3>. QED
      BY <2>3, <3>1, TaskStays DEF Holds
  <2>4. ASSUME already_seen(v), already_seen(w), wpc'[w] \in Charged PROVE v = w
    BY <2>4 DEF already_seen, At, Goto, Charged, InCharge, Locked, TypeInv, WorkTyped
  <2>5. CASE Holds(v, t) /\ Holds(w, t)
    BY <2>1, <2>5 DEF PassInv
  <2>. QED
    BY <1>3, <2>1, <2>2, <2>3, <2>4, <2>5
<1>. QED
  BY <1>1, <1>2, <1>3 DEF PassInv

-----------------------------------------------------------------------------
(* The lock.                                                                 *)

\* A consumer that has lost its lock has seen it expire, after which, or before which,
\* the guard's key expired as often as it was set again.
LockInv ==
    \A t \in Job :
        /\ remarks[t] <= lapses
        /\ \A w \in Worker : wpc[w] \in Locked /\ jobOf(w) = t /\ lockKey[t] # w => lapses > remarks[t]

\* The steps that touch the lock keys or the count of keys that expired.
LEMMA LockKeyStep ==
    ASSUME [WorkersNext]_workersVars
    PROVE  \/ UNCHANGED <<lockKey, lapses, remarks>> /\ \A w \in Worker : ~acquire(w)
           \/ \E w \in Worker : acquire(w) \/ ReleaseDelete(w)
           \/ \E t \in Job : LockExpires(t) \/ GuardExpires(t)
<1>. USE DEF workersVars, redisVars, workVars, workersHistory
<1>1. ASSUME \A w \in Worker : ~acquire(w) /\ ~ReleaseDelete(w),
             \A t \in Job : ~LockExpires(t) /\ ~GuardExpires(t)
      PROVE  UNCHANGED <<lockKey, lapses, remarks>>
  BY <1>1 DEF WorkersNext, WorkerStep, publish, ResultExpires, claim_one, recover, already_seen, Die,
         cache_result, flush,
         CallAdmitted, CallRefused, CallSucceeds, CallFails, ack, release, DispatchRaises,
         ClaimPending
<1>. QED
  BY <1>1

\* A consumer comes to believe that it holds the lock by acquire only.
LEMMA LockedBefore ==
    ASSUME TypeInv, [WorkersNext]_workersVars, NEW w \in Worker, wpc'[w] \in Locked
    PROVE  wpc[w] \in Locked \/ (acquire(w) /\ lockKey[jobOf(w)] = Nobody)
<1>. USE DEF workersVars, redisVars, workVars, workersHistory, At, Goto, InCharge, Locked
<1>0. wpc \in [Worker -> Place]
  BY DEF TypeInv, WorkTyped
<1>1. CASE \E t \in Job : publish(t) \/ LockExpires(t) \/ GuardExpires(t) \/ ResultExpires(t)
  BY <1>0, <1>1 DEF publish, LockExpires, GuardExpires, ResultExpires
<1>2. CASE \E v \in Worker : claim_one(v) \/ recover(v) \/ already_seen(v) \/ Die(v)
  BY <1>0, <1>2 DEF claim_one, recover, already_seen, Die
<1>3. CASE \E v \in Worker : cache_result(v) \/ flush(v) \/ CallAdmitted(v) \/ CallRefused(v)
                                  \/ CallSucceeds(v) \/ CallFails(v)
  BY <1>0, <1>3 DEF cache_result, flush, CallAdmitted, CallRefused, CallSucceeds, CallFails, NextMessage
<1>4. CASE \E v \in Worker : acquire(v) \/ ack(v) \/ release(v) \/ ReleaseDelete(v)
  BY <1>0, <1>4 DEF acquire, ack, release, ReleaseDelete, NextMessage
<1>5. CASE \E v \in Worker : DispatchRaises(v)
  BY <1>0, <1>5 DEF DispatchRaises, NextMessage
<1>6. CASE \E v \in Worker, won \in BOOLEAN : ClaimPending(v, won)
  BY <1>0, <1>6 DEF ClaimPending
<1>7. CASE UNCHANGED workersVars
  BY <1>0, <1>7
<1>. HIDE DEF workersVars, At, Goto, InCharge, Locked
<1>. QED
  BY <1>1, <1>2, <1>3, <1>4, <1>5, <1>6, <1>7, StepOf

\* Whoever is without the lock it believes in has had a key expire for it.
LEMMA LockStep == TypeInv /\ LockInv /\ [WorkersNext]_workersVars => LockInv'
<1>. SUFFICES ASSUME TypeInv, LockInv, [WorkersNext]_workersVars, NEW t \in Job
              PROVE  /\ remarks'[t] <= lapses'
                     /\ \A w \in Worker : wpc'[w] \in Locked /\ jobOf(w)' = t /\ lockKey'[t] # w
                                             => lapses' > remarks'[t]
  BY DEF LockInv
<1>0. /\ remarks \in [Job -> Nat] /\ lapses \in Nat /\ remarks[t] \in Nat /\ remarks[t] <= lapses
      /\ lockKey \in [Job -> Worker \cup {Nobody}] /\ Nobody \notin Worker
  BY WorkersAssumption DEF TypeInv, KeysTyped, LockInv
<1>1. ASSUME NEW w \in Worker, wpc'[w] \in Locked, jobOf(w)' = t
      PROVE  jobOf(w) = t /\ (wpc[w] \in Locked \/ (acquire(w) /\ lockKey[t] = Nobody))
  BY <1>1, TaskStays, LockedBefore DEF Charged
<1>2. CASE UNCHANGED <<lockKey, lapses, remarks>> /\ \A w \in Worker : ~acquire(w)
  BY <1>0, <1>1, <1>2 DEF LockInv
<1>3. ASSUME NEW v \in Worker, acquire(v)
      PROVE  /\ UNCHANGED <<lapses, remarks>>
             /\ \A w \in Worker : wpc'[w] \in Locked /\ jobOf(w)' = t /\ lockKey'[t] # w => lapses > remarks[t]
  <2>1. UNCHANGED <<lapses, remarks>>
    BY <1>3 DEF acquire
  <2>2. ASSUME NEW w \in Worker, wpc'[w] \in Locked, jobOf(w)' = t, lockKey'[t] # w PROVE lapses > remarks[t]
    <3>1. CASE wpc[w] \in Locked /\ lockKey[t] # w
      BY <1>1, <2>2, <3>1 DEF LockInv
    <3>2. CASE lockKey[t] = w
      BY <1>0, <1>3, <2>2, <3>2 DEF acquire
    <3>3. CASE acquire(w) /\ lockKey[t] = Nobody
      BY <1>0, <1>1, <2>2, <3>3 DEF acquire
    <3>. QED
      BY <1>1, <2>2, <3>1, <3>2, <3>3
  <2>. QED
    BY <2>1, <2>2
<1>4. ASSUME NEW v \in Worker, ReleaseDelete(v)
      PROVE  /\ UNCHANGED <<lapses, remarks>>
             /\ \A w \in Worker : wpc'[w] \in Locked /\ jobOf(w)' = t /\ lockKey'[t] # w => lapses > remarks[t]
  <2>1. /\ UNCHANGED <<lapses, remarks>> /\ wpc[v] = "delete" /\ wpc'[v] \notin Locked
        /\ lockKey' = [lockKey EXCEPT ![jobOf(v)] = Nobody]
    BY <1>4 DEF ReleaseDelete, workersVars, redisVars, workVars, workersHistory, At, NextMessage, Goto, TypeInv, WorkTyped, Locked, InCharge
  <2>2. ASSUME NEW w \in Worker, wpc'[w] \in Locked, jobOf(w)' = t, lockKey'[t] # w PROVE lapses > remarks[t]
    <3>1. w # v /\ jobOf(w) = t /\ wpc[w] \in Locked
      <4>1. ~acquire(w)
        BY <1>4, <2>1, <2>2 DEF acquire, At, ReleaseDelete, NextMessage, Goto, TypeInv, WorkTyped, Locked, InCharge
      <4>. QED
        BY <1>1, <2>1, <2>2, <4>1
    <3>2. CASE lockKey[t] # w
      BY <3>1, <3>2 DEF LockInv
    <3>3. CASE lockKey[t] = w
      <4>1. jobOf(v) = t
        BY <1>0, <2>1, <2>2, <3>3
      <4>2. wpc[v] \in Locked /\ lockKey[t] # v
        BY <2>1, <3>1, <3>3 DEF Locked
      <4>. QED
        BY <4>1, <4>2 DEF LockInv
    <3>. QED
      BY <3>2, <3>3
  <2>. QED
    BY <2>1, <2>2
<1>5. ASSUME NEW u \in Job, LockExpires(u) PROVE lapses' = lapses + 1 /\ remarks' = remarks
  BY <1>5 DEF LockExpires
<1>6. ASSUME NEW u \in Job, GuardExpires(u)
      PROVE  /\ lapses' = lapses + 1 /\ lockKey' = lockKey /\ \A w \in Worker : wpc'[w] = wpc[w]
             /\ remarks'[t] = IF t = u THEN remarks[t] + 1 ELSE remarks[t]
  BY <1>0, <1>6 DEF GuardExpires, workVars
<1>7. ASSUME NEW u \in Job, GuardExpires(u), NEW w \in Worker, wpc'[w] \in Locked, jobOf(w)' = t, lockKey'[t] # w
      PROVE  lapses > remarks[t]
  BY <1>1, <1>6, <1>7 DEF GuardExpires, acquire, workVars, LockInv, At, Locked, InCharge
<1>. QED
  BY <1>0, <1>2, <1>3, <1>4, <1>5, <1>6, <1>7, LockKeyStep

-----------------------------------------------------------------------------
(* Executions.                                                               *)

\* Consumers that have passed the guard with t and may still execute it.
Starting(t) == {w \in Worker : wpc[w] \in {"acquire", "call"} /\ jobOf(w) = t}

\* Executions, begun or to be begun, and a key that may be set, are covered by the marks.
StartsInv ==
    \A t \in Job : Cardinality(Starting(t)) + runs[t] + (IF t \in seen THEN 0 ELSE 1) <= 1 + remarks[t]

\* Only the guard adds to those who may execute a task, and an execution takes one away.
LEMMA StartingStep ==
    ASSUME TypeInv, [WorkersNext]_workersVars, NEW w \in Worker, wpc'[w] \in {"acquire", "call"}
    PROVE  (wpc[w] \in {"acquire", "call"} /\ ~CallAdmitted(w)) \/ (already_seen(w) /\ jobOf(w) \notin seen)
<1>. USE DEF workersVars, redisVars, workVars, workersHistory, At, Goto
<1>0. wpc \in [Worker -> Place]
  BY DEF TypeInv, WorkTyped
<1>1. CASE \E t \in Job : publish(t) \/ LockExpires(t) \/ GuardExpires(t) \/ ResultExpires(t)
  BY <1>0, <1>1 DEF publish, LockExpires, GuardExpires, ResultExpires, CallAdmitted
<1>2. CASE \E v \in Worker : claim_one(v) \/ recover(v) \/ Die(v)
  BY <1>0, <1>2 DEF claim_one, recover, Die, CallAdmitted
<1>3. CASE \E v \in Worker : already_seen(v)
  BY <1>0, <1>3 DEF already_seen, CallAdmitted
<1>4. CASE \E v \in Worker : cache_result(v) \/ flush(v) \/ CallAdmitted(v) \/ CallRefused(v)
                                  \/ CallSucceeds(v) \/ CallFails(v)
  BY <1>0, <1>4 DEF cache_result, flush, CallAdmitted, CallRefused, CallSucceeds, CallFails, NextMessage
<1>5. CASE \E v \in Worker : acquire(v) \/ ack(v) \/ release(v) \/ ReleaseDelete(v)
                                  \/ DispatchRaises(v)
  BY <1>0, <1>5 DEF acquire, ack, release, ReleaseDelete, DispatchRaises, NextMessage,
                    CallAdmitted
<1>6. CASE \E v \in Worker, won \in BOOLEAN : ClaimPending(v, won)
  BY <1>0, <1>6 DEF ClaimPending, CallAdmitted
<1>7. CASE UNCHANGED workersVars
  BY <1>0, <1>7 DEF CallAdmitted
<1>. HIDE DEF workersVars, At, Goto
<1>. QED
  BY <1>1, <1>2, <1>3, <1>4, <1>5, <1>6, <1>7, StepOf

\* The executions of a task.
LEMMA RunsStep ==
    ASSUME TypeInv, [WorkersNext]_workersVars
    PROVE  runs' = runs \/ \E w \in Worker : CallAdmitted(w) /\ runs' = [runs EXCEPT ![jobOf(w)] = @ + 1]
BY DEF WorkersNext, WorkerStep, publish, LockExpires, GuardExpires, ResultExpires, claim_one, recover,
         already_seen, Die,
       cache_result, flush, CallAdmitted, CallRefused, CallSucceeds, CallFails, acquire, ack, release,
       ReleaseDelete, DispatchRaises, ClaimPending,
       workersVars, redisVars, workVars, workersHistory

\* A set with at most one element more than another is larger by one at most.
LEMMA AtMostOneMore ==
    ASSUME NEW S, IsFiniteSet(S), NEW x, NEW T \in SUBSET (S \cup {x})
    PROVE  Cardinality(T) <= Cardinality(S) + 1
<1>1. IsFiniteSet(S \cup {x})
  BY FS_AddElement
<1>2. Cardinality(S) \in Nat /\ Cardinality(S \cup {x}) \in Nat /\ Cardinality(T) \in Nat
  <2>1. IsFiniteSet(T)
    BY <1>1, FS_Subset
  <2>. QED
    BY <1>1, <2>1, FS_CardinalityType
<1>3. Cardinality(S \cup {x}) = Cardinality(S) \/ Cardinality(S \cup {x}) = Cardinality(S) + 1
  BY FS_AddElement
<1>4. Cardinality(T) <= Cardinality(S \cup {x})
  BY <1>1, FS_Subset
<1>. QED
  BY ONLY <1>2, <1>3, <1>4

\* The marks of a task cover its executions.
LEMMA StartsStep == TypeInv /\ StartsInv /\ [WorkersNext]_workersVars => StartsInv'
<1>. SUFFICES ASSUME TypeInv, StartsInv, [WorkersNext]_workersVars, NEW t \in Job
              PROVE  Cardinality(Starting(t)') + runs'[t] + (IF t \in seen' THEN 0 ELSE 1) <= 1 + remarks'[t]
  BY DEF StartsInv
<1>. DEFINE before == Starting(t)
            after == Starting(t)'
<1>0. /\ runs \in [Job -> Nat] /\ runs[t] \in Nat /\ remarks[t] \in Nat
      /\ Cardinality(before) + runs[t] + (IF t \in seen THEN 0 ELSE 1) <= 1 + remarks[t]
  BY DEF TypeInv, KeysTyped, StartsInv
<1>1. /\ IsFiniteSet(before) /\ IsFiniteSet(after)
      /\ Cardinality(before) \in Nat /\ Cardinality(after) \in Nat
  <2>1. before \in SUBSET Worker /\ after \in SUBSET Worker
    BY DEF Starting
  <2>2. IsFiniteSet(before) /\ IsFiniteSet(after)
    BY <2>1, FS_Subset, WorkersAssumption
  <2>. QED
    BY <2>2, FS_CardinalityType
<1>2. ASSUME NEW w \in after
      PROVE  (w \in before /\ ~CallAdmitted(w)) \/ (already_seen(w) /\ jobOf(w) = t /\ t \notin seen)
  <2>1. w \in Worker /\ wpc'[w] \in {"acquire", "call"} /\ jobOf(w)' = t
    BY DEF Starting
  <2>2. jobOf(w) = t
    BY <2>1, TaskStays DEF Charged, InCharge, Locked
  <2>. QED
    BY <2>1, <2>2, StartingStep DEF Starting
<1>3. CASE \A w \in Worker : ~already_seen(w)
  <2>1. after \in SUBSET before
    BY <1>2, <1>3 DEF Starting
  <2>2. Cardinality(after) <= Cardinality(before)
    BY <1>1, <2>1, FS_Subset
  <2>3. /\ remarks'[t] \in Nat
        /\ remarks'[t] + (IF t \in seen' THEN 1 ELSE 0) >= remarks[t] + (IF t \in seen THEN 1 ELSE 0)
    <3>1. CASE UNCHANGED <<seen, remarks>>
      BY <1>0, <3>1
    <3>2. ASSUME NEW u \in Job, GuardExpires(u)
          PROVE  /\ seen' = seen \ {u} /\ remarks'[t] = IF t = u THEN remarks[t] + 1 ELSE remarks[t]
                 /\ u \in seen
      BY <3>2 DEF GuardExpires, TypeInv, KeysTyped
    <3>. QED
      BY <1>0, <1>3, <3>1, <3>2, GuardStep
  <2>4. ASSUME NEW w \in Worker, CallAdmitted(w), runs' = [runs EXCEPT ![jobOf(w)] = @ + 1]
        PROVE  Cardinality(after) + runs'[t] <= Cardinality(before) + runs[t]
    <3>1. CASE jobOf(w) # t
      BY <1>0, <1>1, <2>2, <2>4, <3>1
    <3>2. CASE jobOf(w) = t
      <4>1. w \in before /\ after \in SUBSET (before \ {w})
        BY <1>2, <1>3, <2>1, <2>4, <3>2 DEF Starting, CallAdmitted, At
      <4>2. IsFiniteSet(before \ {w}) /\ Cardinality(before \ {w}) = Cardinality(before) - 1
        BY <1>1, <4>1, FS_RemoveElement
      <4>3. Cardinality(after) <= Cardinality(before) - 1
        BY <4>1, <4>2, FS_Subset
      <4>4. runs'[t] = runs[t] + 1
        BY <1>0, <2>4, <3>2
      <4>. QED
        BY <1>0, <1>1, <4>3, <4>4
    <3>. QED
      BY <3>1, <3>2
  <2>5. runs'[t] \in Nat /\ Cardinality(after) + runs'[t] <= Cardinality(before) + runs[t]
    <3>1. runs'[t] \in Nat
      BY <1>0, RunsStep
    <3>. QED
      BY <1>0, <1>1, <2>2, <2>4, <3>1, RunsStep
  <2>. HIDE DEF before, after
  <2>6. Cardinality(after) + runs'[t] + (IF t \in seen' THEN 0 ELSE 1) <= 1 + remarks'[t]
    BY <1>0, <1>1, <2>3, <2>5
  <2>. QED
    BY <2>6 DEF after
<1>4. ASSUME NEW v \in Worker, already_seen(v)
      PROVE  Cardinality(after) + runs'[t] + (IF t \in seen' THEN 0 ELSE 1) <= 1 + remarks'[t]
  <2>1. /\ runs' = runs /\ remarks' = remarks /\ seen' = seen \cup {jobOf(v)}
        /\ \A w \in Worker : already_seen(w) => wpc'[w] = "guard" \/ w = v
    BY <1>4 DEF already_seen, workersHistory, At, Goto, TypeInv, WorkTyped
  <2>2. \A w \in Worker \ {v} : w \in after => w \in before
    BY <1>2, <2>1 DEF Starting
  <2>3. CASE jobOf(v) = t /\ t \notin seen
    <3>1. after \in SUBSET (before \cup {v})
      BY <2>2 DEF Starting
    <3>3. Cardinality(after) <= Cardinality(before) + 1
      BY ONLY <1>1, <3>1, AtMostOneMore
    <3>4. /\ runs'[t] = runs[t] /\ remarks'[t] = remarks[t]
          /\ t \notin seen /\ t \in seen'
      BY <2>1, <2>3
    <3>. HIDE DEF before, after
    <3>5. Cardinality(after) + runs'[t] <= 1 + remarks'[t]
      BY <1>0, <1>1, <3>3, <3>4
    <3>6. (IF t \in seen' THEN 0 ELSE 1) = 0
      BY <3>4
    <3>7. Cardinality(after) + runs'[t] \in Int
      BY <1>0, <1>1, <3>4
    <3>. QED
      BY <3>5, <3>6, <3>7 DEF after
  <2>4. CASE ~(jobOf(v) = t /\ t \notin seen)
    <3>1. after \in SUBSET before
      BY <1>2, <2>2, <2>4 DEF Starting
    <3>2. Cardinality(after) <= Cardinality(before)
      BY <1>1, <3>1, FS_Subset
    <3>3. t \in seen' <=> t \in seen
      BY <2>1, <2>4
    <3>. QED
      BY <1>0, <1>1, <2>1, <3>2, <3>3
  <2>. QED
    BY <2>3, <2>4
<1>. QED
  BY <1>3, <1>4

-----------------------------------------------------------------------------
(* Results and the outbox.                                                   *)

\* A consumer stores something, and the last entry of its outbox is of its task.
OutboxInv ==
    /\ outbox \in [Worker -> Seq(Job)] /\ relayAt \in [Worker -> Nat]
    /\ \A w \in Worker : wpc[w] = "cache" => value[w] # "none"
    /\ \A w \in Worker : wpc[w] = "dispatch" =>
           /\ relayAt[w] <= Len(outbox[w]) /\ Len(outbox[w]) > 0
           /\ outbox[w][Len(outbox[w])] = jobOf(w)
           /\ cached[jobOf(w)] # "none" \/ jobOf(w) \in expired

\* The steps into, and between, the positions where a result is stored and flushed.
LEMMA OutboxMoves ==
    ASSUME TypeInv, OutboxInv, [WorkersNext]_workersVars, NEW w \in Worker
    PROVE  /\ wpc'[w] = "cache" /\ wpc[w] = "cache" => value'[w] = value[w]
           /\ wpc'[w] = "cache" /\ wpc[w] # "cache" => value'[w] \in {"result", "fallback"}
           /\ wpc'[w] = "dispatch" /\ wpc[w] = "dispatch" =>
                  /\ outbox'[w] = outbox[w]
                  /\ relayAt'[w] = relayAt[w] \/ (relayAt'[w] = relayAt[w] + 1 /\ relayAt[w] < Len(outbox[w]))
           /\ wpc'[w] = "dispatch" /\ wpc[w] # "dispatch" => cache_result(w)
<1>. USE DEF workersVars, redisVars, workVars, workersHistory, At, Goto
<1>0. /\ wpc \in [Worker -> Place]
      /\ value \in [Worker -> Result]
      /\ outbox \in [Worker -> Seq(Job)] /\ relayAt \in [Worker -> Nat]
  BY DEF TypeInv, WorkTyped, KeysTyped, OutboxInv
<1>1. CASE \E t \in Job : publish(t) \/ LockExpires(t) \/ GuardExpires(t) \/ ResultExpires(t)
  BY <1>0, <1>1 DEF publish, LockExpires, GuardExpires, ResultExpires
<1>2. CASE \E v \in Worker : claim_one(v) \/ recover(v) \/ already_seen(v) \/ Die(v)
  BY <1>0, <1>2 DEF claim_one, recover, already_seen, Die
<1>3. CASE \E v \in Worker : CallAdmitted(v) \/ CallRefused(v) \/ CallSucceeds(v) \/ CallFails(v)
  BY <1>0, <1>3 DEF CallAdmitted, CallRefused, CallSucceeds, CallFails, NextMessage
<1>4. CASE \E v \in Worker : acquire(v) \/ ack(v) \/ release(v) \/ ReleaseDelete(v)
                                  \/ DispatchRaises(v)
  BY <1>0, <1>4 DEF acquire, ack, release, ReleaseDelete, DispatchRaises, NextMessage
<1>5. CASE \E v \in Worker : cache_result(v)
  <2>1. PICK v \in Worker : cache_result(v)
    BY <1>5
  <2>2. /\ wpc[v] = "cache" /\ wpc' = [wpc EXCEPT ![v] = "dispatch"] /\ value' = value
        /\ outbox' = [outbox EXCEPT ![v] = Append(@, jobOf(v))] /\ relayAt' = [relayAt EXCEPT ![v] = 1]
    BY <2>1 DEF cache_result
  <2>. QED
    BY <1>0, <2>1, <2>2
<1>6. CASE \E v \in Worker : flush(v)
  BY <1>0, <1>6 DEF flush
<1>7. CASE UNCHANGED workersVars \/ \E v \in Worker, won \in BOOLEAN : ClaimPending(v, won)
  BY <1>0, <1>7 DEF ClaimPending
<1>. HIDE DEF workersVars, At, Goto
<1>. QED
  BY <1>1, <1>2, <1>3, <1>4, <1>5, <1>6, <1>7, StepOf

\* Only cache_result writes a result, and it writes one, which stays until it expires.
LEMMA CachedStays ==
    ASSUME TypeInv, OutboxInv, [WorkersNext]_workersVars, NEW t \in Job, cached[t] # "none" \/ t \in expired
    PROVE  cached'[t] # "none" \/ t \in expired'
<1>1. UNCHANGED <<cached, expired>> \/ (\E w \in Worker : cache_result(w)) \/ \E u \in Job : ResultExpires(u)
  BY DEF WorkersNext, WorkerStep, publish, LockExpires, GuardExpires, claim_one, recover, already_seen, Die,
         flush, CallAdmitted, CallRefused, CallSucceeds, CallFails, acquire, ack, release,
         ReleaseDelete, DispatchRaises, ClaimPending, workersVars, redisVars, workVars, workersHistory
<1>2. ASSUME NEW w \in Worker, cache_result(w)
      PROVE  cached' = [cached EXCEPT ![jobOf(w)] = value[w]] /\ value[w] # "none" /\ expired' = expired
  BY <1>2 DEF cache_result, At, OutboxInv, workersHistory
<1>3. ASSUME NEW u \in Job, ResultExpires(u)
      PROVE  cached' = [cached EXCEPT ![u] = "none"] /\ expired' = expired \cup {u}
  BY <1>3 DEF ResultExpires
<1>. QED
  BY <1>1, <1>2, <1>3 DEF TypeInv, KeysTyped

\* From cache_result to the end of the flush the entry of the task stays the last one.
LEMMA OutboxStep == TypeInv /\ OutboxInv /\ [WorkersNext]_workersVars => OutboxInv'
<1>. SUFFICES ASSUME TypeInv, OutboxInv, [WorkersNext]_workersVars PROVE OutboxInv'
  OBVIOUS
<1>0. /\ outbox \in [Worker -> Seq(Job)] /\ relayAt \in [Worker -> Nat]
      /\ cached \in [Job -> Result] /\ wpc \in [Worker -> Place]
  BY DEF OutboxInv, TypeInv, KeysTyped, WorkTyped
<1>1. ASSUME NEW w \in Worker, cache_result(w)
      PROVE  /\ outbox' = [outbox EXCEPT ![w] = Append(@, jobOf(w))] /\ relayAt' = [relayAt EXCEPT ![w] = 1]
             /\ cached' = [cached EXCEPT ![jobOf(w)] = value[w]] /\ value[w] # "none" /\ jobOf(w) \in Job
  <2>1. todo[w] # <<>> /\ value[w] # "none"
    BY <1>1 DEF cache_result, At, TypeInv, WorkTyped, OutboxInv
  <2>. QED
    BY <1>1, <2>1, JobAtHand DEF cache_result
<1>2. outbox' \in [Worker -> Seq(Job)] /\ relayAt' \in [Worker -> Nat]
  <2>1. ASSUME NEW w \in Worker, flush(w)
        PROVE  /\ outbox' = outbox \/ outbox' = [outbox EXCEPT ![w] = <<>>]
               /\ relayAt' = relayAt \/ relayAt' = [relayAt EXCEPT ![w] = @ + 1]
    BY <2>1 DEF flush
  <2>2. UNCHANGED <<outbox, relayAt>> \/ \E w \in Worker : flush(w) \/ cache_result(w)
    BY DEF WorkersNext, WorkerStep, publish, LockExpires, GuardExpires, ResultExpires, claim_one, recover,
         already_seen, Die,
           CallAdmitted, CallRefused, CallSucceeds, CallFails, acquire, ack, release,
           ReleaseDelete, DispatchRaises, ClaimPending,
           workersVars, redisVars, workVars, workersHistory
  <2>3. ASSUME NEW w \in Worker, cache_result(w)
        PROVE  outbox' \in [Worker -> Seq(Job)] /\ relayAt' \in [Worker -> Nat]
    <3>1. Append(outbox[w], jobOf(w)) \in Seq(Job)
      BY <1>0, <1>1, <2>3
    <3>2. outbox' = [outbox EXCEPT ![w] = Append(outbox[w], jobOf(w))] /\ relayAt' = [relayAt EXCEPT ![w] = 1]
      BY <1>1, <2>3
    <3>3. outbox' \in [Worker -> Seq(Job)]
      BY <1>0, <3>1, <3>2
    <3>4. relayAt' \in [Worker -> Nat]
      BY <1>0, <3>2
    <3>. QED
      BY <3>3, <3>4
  <2>4. ASSUME NEW w \in Worker, flush(w)
        PROVE  outbox' \in [Worker -> Seq(Job)] /\ relayAt' \in [Worker -> Nat]
    <3>1. <<>> \in Seq(Job) /\ relayAt[w] + 1 \in Nat
      BY <1>0
    <3>. QED
      BY <1>0, <2>1, <2>4, <3>1
  <2>. QED
    BY <1>0, <2>2, <2>3, <2>4
<1>3. ASSUME NEW w \in Worker, wpc'[w] = "cache" PROVE value'[w] # "none"
  BY <1>3, OutboxMoves DEF OutboxInv
<1>4. ASSUME NEW w \in Worker, wpc'[w] = "dispatch"
      PROVE  /\ relayAt'[w] <= Len(outbox'[w]) /\ Len(outbox'[w]) > 0
             /\ outbox'[w][Len(outbox'[w])] = jobOf(w)'
             /\ cached'[jobOf(w)'] # "none" \/ jobOf(w)' \in expired'
  <2>1. jobOf(w)' = jobOf(w) /\ jobOf(w) \in Job
    BY <1>4, TaskStays DEF Charged, InCharge
  <2>2. CASE wpc[w] = "dispatch"
    <3>1. /\ relayAt[w] <= Len(outbox[w]) /\ Len(outbox[w]) > 0
          /\ outbox[w][Len(outbox[w])] = jobOf(w)
          /\ cached[jobOf(w)] # "none" \/ jobOf(w) \in expired
      BY <2>2 DEF OutboxInv
    <3>2. /\ outbox'[w] = outbox[w]
          /\ relayAt'[w] = relayAt[w] \/ (relayAt'[w] = relayAt[w] + 1 /\ relayAt[w] < Len(outbox[w]))
      BY <1>4, <2>2, OutboxMoves
    <3>3. relayAt[w] \in Nat /\ Len(outbox[w]) \in Nat
      BY <1>0
    <3>. QED
      BY <2>1, <3>1, <3>2, <3>3, CachedStays
  <2>3. CASE wpc[w] # "dispatch"
    <3>1. cache_result(w)
      BY <1>4, <2>3, OutboxMoves
    <3>2. outbox'[w] = Append(outbox[w], jobOf(w)) /\ relayAt'[w] = 1 /\ cached'[jobOf(w)] # "none"
      BY <1>0, <1>1, <3>1
    <3>3. outbox[w] \in Seq(Job)
      BY <1>0
    <3>. QED
      BY <2>1, <3>2, <3>3
  <2>. QED
    BY <2>2, <2>3
<1>. QED
  BY <1>2, <1>3, <1>4 DEF OutboxInv

-----------------------------------------------------------------------------
(* What is acknowledged was handled.                                         *)

Handled(t) ==
    \/ t \in lost
    \/ (cached[t] # "none" \/ t \in expired) /\ t \in dispatched
    \/ \E w \in Worker : wpc[w] \in InCharge /\ jobOf(w) = t

\* A task whose guard key was set is handled.
HandledInv == \A t \in Job : Passed(t) => Handled(t)

\* A consumer gives up the charge of a task with a dispatched result, or leaves it lost.
LEMMA ChargeEnds ==
    ASSUME TypeInv, [WorkersNext]_workersVars, NEW w \in Worker, wpc[w] \in InCharge, wpc'[w] \notin InCharge
    PROVE  jobOf(w) \in lost' \/ (flush(w) /\ ~(relayAt[w] < Len(outbox[w])))
<1>. USE DEF workersVars, redisVars, workVars, workersHistory, At, Goto, InCharge
<1>0. wpc \in [Worker -> Place]
  BY DEF TypeInv, WorkTyped
<1>1. CASE \E t \in Job : publish(t) \/ LockExpires(t) \/ GuardExpires(t) \/ ResultExpires(t)
  BY <1>0, <1>1 DEF publish, LockExpires, GuardExpires, ResultExpires
<1>2. CASE \E v \in Worker : claim_one(v) \/ recover(v) \/ already_seen(v) \/ Die(v)
  BY <1>0, <1>2 DEF claim_one, recover, already_seen, Die
<1>3. CASE \E v \in Worker : cache_result(v) \/ CallAdmitted(v) \/ CallRefused(v) \/ CallSucceeds(v) \/ CallFails(v)
  BY <1>0, <1>3 DEF cache_result, CallAdmitted, CallRefused, CallSucceeds, CallFails, NextMessage
<1>4. CASE \E v \in Worker : acquire(v) \/ DispatchRaises(v) \/ flush(v)
  BY <1>0, <1>4 DEF acquire, DispatchRaises, flush, NextMessage
<1>5. CASE \E v \in Worker : ack(v) \/ release(v) \/ ReleaseDelete(v)
  BY <1>0, <1>5 DEF ack, release, ReleaseDelete, NextMessage
<1>6. CASE \E v \in Worker, won \in BOOLEAN : ClaimPending(v, won)
  BY <1>0, <1>6 DEF ClaimPending
<1>7. CASE UNCHANGED workersVars
  BY <1>0, <1>7
<1>. HIDE DEF workersVars, At, Goto, InCharge
<1>. QED
  BY <1>1, <1>2, <1>3, <1>4, <1>5, <1>6, <1>7, StepOf

\* A task stays handled, and whoever marks one is in charge of it.
LEMMA HandledStep == TypeInv /\ OutboxInv /\ HandledInv /\ [WorkersNext]_workersVars => HandledInv'
<1>. SUFFICES ASSUME TypeInv, OutboxInv, HandledInv, [WorkersNext]_workersVars, NEW t \in Job, Passed(t)'
              PROVE  Handled(t)'
  BY DEF HandledInv
<1>1. lost \subseteq lost' /\ dispatched \subseteq dispatched'
  BY DEF WorkersNext, WorkerStep, publish, LockExpires, GuardExpires, ResultExpires, claim_one, recover,
         already_seen, Die,
         cache_result, flush, CallAdmitted, CallRefused, CallSucceeds, CallFails, acquire, ack, release,
         ReleaseDelete, DispatchRaises, ClaimPending,
         workersVars, redisVars, workVars, workersHistory
<1>2. ASSUME NEW w \in Worker, already_seen(w), jobOf(w) = t, ~Passed(t) PROVE Handled(t)'
  <2>1. wpc'[w] = "acquire" /\ UNCHANGED <<stream, todo>>
    BY <1>2 DEF already_seen, Passed, Goto, TypeInv, WorkTyped
  <2>2. jobOf(w)' = t /\ wpc'[w] \in InCharge
    BY <1>2, <2>1 DEF jobOf, InCharge
  <2>. QED
    BY <2>2 DEF Handled
<1>3. CASE Passed(t)
  <2>1. CASE t \in lost
    BY <1>1, <2>1 DEF Handled
  <2>2. CASE (cached[t] # "none" \/ t \in expired) /\ t \in dispatched
    BY <1>1, <2>2, CachedStays DEF Handled
  <2>3. ASSUME NEW w \in Worker, wpc[w] \in InCharge, jobOf(w) = t PROVE Handled(t)'
    <3>1. CASE wpc'[w] \in InCharge
      <4>1. jobOf(w)' = t
        BY <2>3, <3>1, TaskStays DEF Charged
      <4>. QED
        BY <3>1, <4>1 DEF Handled
    <3>2. CASE jobOf(w) \in lost'
      BY <2>3, <3>2 DEF Handled
    <3>3. CASE flush(w) /\ ~(relayAt[w] < Len(outbox[w]))
      <4>1. /\ relayAt[w] = Len(outbox[w]) /\ outbox[w][Len(outbox[w])] = t
            /\ cached[t] # "none" \/ t \in expired
        <5>1. relayAt[w] \in Nat /\ Len(outbox[w]) \in Nat
          BY DEF OutboxInv
        <5>. QED
          BY <2>3, <3>3, <5>1 DEF OutboxInv, flush, At
      <4>2. t \in dispatched' /\ UNCHANGED <<cached, expired>>
        BY <3>3, <4>1 DEF flush, redisVars, workersHistory
      <4>. QED
        BY <4>1, <4>2 DEF Handled
    <3>. QED
      BY <2>3, <3>1, <3>2, <3>3, ChargeEnds
  <2>. QED
    BY <1>3, <2>1, <2>2, <2>3 DEF HandledInv, Handled
<1>. QED
  BY <1>2, <1>3, PassedStays

-----------------------------------------------------------------------------
(* The theorems.                                                             *)

WorkersInv ==
    TypeInv /\ PassInv /\ LockInv /\ StartsInv /\ OutboxInv /\ HandledInv

\* The inductive invariant of the consumers holds in every reachable state.
THEOREM WorkersInvariant == WorkersSpec => []WorkersInv
<1>1. WorkersInit => WorkersInv
  <2>. SUFFICES ASSUME WorkersInit PROVE WorkersInv
    OBVIOUS
  <2>. USE WorkersAssumption DEF WorkersInit
  <2>1. TypeInv
    <3>1. KeysTyped
      BY DEF KeysTyped, Result
    <3>2. StreamTyped
      BY DEF StreamTyped, Message
    <3>3. WorkTyped
      BY DEF WorkTyped, Place
    <3>. QED
      BY <3>1, <3>2, <3>3 DEF TypeInv
  <2>6. PassInv
    BY DEF PassInv, Passed, Holds, Charged, InCharge, Locked
  <2>7. LockInv
    BY DEF LockInv, Passed, Holds, Charged, InCharge, Locked
  <2>8. HandledInv
    BY DEF HandledInv, Passed, Holds, Charged, InCharge, Locked
  <2>3. OutboxInv
    BY DEF OutboxInv
  <2>4. \A t \in Job : Starting(t) = {}
    BY DEF Starting
  <2>5. StartsInv
    <3>1. Cardinality({}) = 0
      BY FS_EmptySet
    <3>2. \A t \in Job : runs[t] = 0 /\ remarks[t] = 0
      OBVIOUS
    <3>. QED
      BY ONLY <2>4, <3>1, <3>2 DEF StartsInv
  <2>. QED
    BY <2>1, <2>3, <2>5, <2>6, <2>7, <2>8 DEF WorkersInv
<1>2. WorkersInv /\ [WorkersNext]_workersVars => WorkersInv'
  BY KeysStep, StreamStep, WorkStep, PassStep, LockStep, StartsStep, OutboxStep, HandledStep
     DEF WorkersInv, TypeInv
<1>. QED
  BY <1>1, <1>2, PTL DEF WorkersSpec

\* A task is executed at most once per mark of its guard, whoever takes its messages over
\* and whatever expires; and two consumers work on it at once only after two of its keys
\* expired (idempotency.py:15 and :49).
THEOREM ExecutionsAreMarked == WorkersSpec => []ExecutedOncePerMark
<1>1. WorkersInv => ExecutedOncePerMark
  <2>. SUFFICES ASSUME WorkersInv PROVE ExecutedOncePerMark
    OBVIOUS
  <2>1. ASSUME NEW t \in Job PROVE runs[t] <= 1 + remarks[t]
    <3>1. IsFiniteSet(Starting(t))
      BY FS_Subset, WorkersAssumption DEF Starting
    <3>2. Cardinality(Starting(t)) \in Nat
      BY <3>1, FS_CardinalityType
    <3>. QED
      BY <3>2 DEF WorkersInv, StartsInv, TypeInv, KeysTyped
  <2>2. ASSUME NEW v \in Worker, NEW w \in Worker, v # w, wpc[v] \in Locked, wpc[w] \in Locked,
               jobOf(v) = jobOf(w)
        PROVE  lapses >= 2
    <3>. DEFINE t == jobOf(v)
    <3>1. t \in Job /\ remarks[t] \in Nat /\ lapses \in Nat
      BY <2>2, JobAtHand DEF WorkersInv, TypeInv, KeysTyped, WorkTyped, Locked, InCharge
    <3>2. remarks[t] # 0
      BY <2>2, <3>1 DEF WorkersInv, PassInv, Holds, Charged
    <3>3. lapses > remarks[t]
      BY <2>2, <3>1 DEF WorkersInv, LockInv
    <3>. QED
      BY <3>1, <3>2, <3>3
  <2>. QED
    BY <2>1, <2>2 DEF ExecutedOncePerMark
<1>. QED
  BY <1>1, WorkersInvariant, PTL

\* A message that is acknowledged, a duplicate included, is of a task whose result was
\* stored, and is there unless it expired, and dispatched, that a consumer is in charge
\* of, or whose processing was cut short (worker.py:79 and idempotency.py:15, :22).
THEOREM AcknowledgedWasHandled == WorkersSpec => []AckedWasHandled
<1>1. WorkersInv => AckedWasHandled
  <2>. SUFFICES ASSUME WorkersInv, NEW m \in acked
                PROVE  LET t == stream[m] IN
                         \/ t \in lost
                         \/ (cached[t] # "none" \/ t \in expired) /\ t \in dispatched
                         \/ \E w \in Worker : wpc[w] \in InCharge /\ jobOf(w) = t
    BY DEF AckedWasHandled
  <2>1. stream[m] \in Job /\ Passed(stream[m])
    BY DEF WorkersInv, TypeInv, StreamTyped, PassInv
  <2>. QED
    BY <2>1 DEF WorkersInv, HandledInv, Handled
<1>. QED
  BY <1>1, WorkersInvariant, PTL

-----------------------------------------------------------------------------
(* The circuit breaker, for any number of threads and any threshold, with  *)
(* every read and write of an attribute a step of its own.                 *)

CallPlace == OnTrial \cup {"idle", "refusing", "trying", "comparing", "stamping"}

\* A count that was read or written is covered by the failures counted so far.
BreakerInv ==
    /\ breaker \in {"CLOSED", "OPEN", "HALF_OPEN"} /\ failures \in Nat /\ counted \in Nat
    /\ callPc \in [Caller -> CallPlace] /\ snapshot \in [Caller -> Nat]
    /\ failures <= counted
    /\ \A c \in Caller : snapshot[c] <= counted
    \* Who acts on an open breaker, or is about to open it, finds the threshold counted.
    /\ \A c \in Caller : callPc[c] \in {"refusing", "trying", "opening", "stamping"} => counted >= Threshold
    /\ BreakerSound

\* Every step of every thread keeps the invariant.
LEMMA BreakerStep == BreakerInv /\ [BreakerNext]_breakerVars => BreakerInv'
<1>. SUFFICES ASSUME BreakerInv, [BreakerNext]_breakerVars PROVE BreakerInv'
  OBVIOUS
<1>. USE BreakerAssumption DEF BreakerInv, BreakerSound, Moves, CallPlace, OnTrial, Deciding
<1>1. ASSUME NEW c \in Caller, ReadState(c) PROVE BreakerInv'
  BY <1>1 DEF ReadState
<1>2. ASSUME NEW c \in Caller, ReadTime(c) PROVE BreakerInv'
  BY <1>2 DEF ReadTime
<1>3. ASSUME NEW c \in Caller, HalfOpen(c) PROVE BreakerInv'
  BY <1>3 DEF HalfOpen
<1>4. ASSUME NEW c \in Caller, FnReturns(c) PROVE BreakerInv'
  BY <1>4 DEF FnReturns
<1>5. ASSUME NEW c \in Caller, FnRaises(c) PROVE BreakerInv'
  BY <1>5 DEF FnRaises
<1>6. ASSUME NEW c \in Caller, FnAborts(c) PROVE BreakerInv'
  BY <1>6 DEF FnAborts
<1>7. ASSUME NEW c \in Caller, Clear(c) PROVE BreakerInv'
  BY <1>7 DEF Clear
<1>8. ASSUME NEW c \in Caller, Close(c) PROVE BreakerInv'
  BY <1>8 DEF Close
<1>9. ASSUME NEW c \in Caller, WriteFailures(c) PROVE BreakerInv'
  BY <1>9 DEF WriteFailures
<1>10. ASSUME NEW c \in Caller, JudgeState(c) PROVE BreakerInv'
  BY <1>10 DEF JudgeState
<1>11. ASSUME NEW c \in Caller, JudgeCount(c) PROVE BreakerInv'
  BY <1>11 DEF JudgeCount
<1>12. ASSUME NEW c \in Caller, Open(c) PROVE BreakerInv'
  BY <1>12 DEF Open
<1>13. ASSUME NEW c \in Caller, Stamp(c) PROVE BreakerInv'
  BY <1>13 DEF Stamp
<1>14. CASE RecoveryTimeout
  BY <1>14 DEF RecoveryTimeout
<1>15. CASE UNCHANGED breakerVars
  BY <1>15 DEF breakerVars
<1>. HIDE DEF BreakerInv
<1>. QED
  BY <1>1, <1>2, <1>3, <1>4, <1>5, <1>6, <1>7, <1>8, <1>9, <1>10, <1>11, <1>12, <1>13, <1>14, <1>15
     DEF BreakerNext

\* However many threads overlap their calls, overwrite each other's counts and act on a
\* state that has changed: the breaker opens only after a threshold of counted failures,
\* is half-open only with a call that will settle it, and stays closed over a threshold
\* only where a call is about to open it or a success came in meanwhile
\* (circuit_breaker.py:30-32, :39-42, :46-47).
THEOREM BreakerIsSound == BreakerSpec => []BreakerSound
<1>1. BreakerInit => BreakerInv
  BY BreakerAssumption DEF BreakerInit, BreakerInv, BreakerSound, CallPlace, OnTrial, Deciding
<1>2. BreakerInv => BreakerSound
  BY DEF BreakerInv
<1>. QED
  BY <1>1, <1>2, BreakerStep, PTL DEF BreakerSpec

-----------------------------------------------------------------------------
(* The auction: a winner exists, is unique, and is the best bidder.         *)

\* A non-empty set of natural numbers has a least element.
LEMMA LeastOf ==
    ASSUME NEW S, S \subseteq Nat, S # {}
    PROVE  \E m \in S : \A k \in S : m <= k
<1>1. PICK m \in S : \A k \in S : ~ (<<k, m>> \in OpToRel(<, Nat))
  BY NatLessThanWellFounded, WFMin, Zenon
<1>2. \A k \in S : ~ (k < m)
  BY <1>1 DEF OpToRel
<1>. QED
  BY <1>2

Bid == 0..1000

\* Bids are clamped, and a boost costs nobody anything.
LEMMA ScoreIs ==
    ASSUME NEW t \in AuctionTasks, NEW p \in Profiles, NEW boost \in BOOLEAN
    PROVE  score(t, p, boost) \in Bid /\ score(t, p, FALSE) <= score(t, p, TRUE)
<1>. DEFINE match == IF t.required_capability \in p.capabilities THEN 10 ELSE 3
            base == match * p.expertise_score - 2 * t.complexity - p.cost_per_unit
            clamp(raw) == IF raw < 0 THEN 0 ELSE IF raw > 1000 THEN 1000 ELSE raw
<1>1. base \in Int
  BY AuctionAssumption
<1>. HIDE DEF base
<1>2. \A b \in BOOLEAN :
         score(t, p, b) = clamp(base * (IF b /\ "knowledge_retrieval" \in p.capabilities THEN 12 ELSE 10))
  BY DEF score, base
<1>. HIDE DEF clamp
<1>3. \A b \in BOOLEAN : score(t, p, b) \in {clamp(base * 10), clamp(base * 12)}
  <2>1. ASSUME NEW b \in BOOLEAN PROVE score(t, p, b) \in {clamp(base * 10), clamp(base * 12)}
    <3>1. CASE b /\ "knowledge_retrieval" \in p.capabilities
      BY <1>2, <3>1
    <3>2. CASE ~(b /\ "knowledge_retrieval" \in p.capabilities)
      BY <1>2, <3>2
    <3>. QED
      BY <3>1, <3>2
  <2>. QED
    BY <2>1
<1>4. score(t, p, FALSE) = clamp(base * 10)
  BY <1>2
<1>5. clamp(base * 10) <= clamp(base * 12) /\ clamp(base * 10) \in Bid /\ clamp(base * 12) \in Bid
  BY <1>1 DEF clamp, Bid
<1>6. score(t, p, TRUE) \in {clamp(base * 10), clamp(base * 12)}
  BY <1>3
<1>7. score(t, p, FALSE) <= score(t, p, TRUE)
  <2>1. clamp(base * 10) <= clamp(base * 10)
    BY <1>5 DEF Bid
  <2>2. CASE score(t, p, TRUE) = clamp(base * 10)
    BY <1>4, <2>1, <2>2, Zenon
  <2>3. CASE score(t, p, TRUE) = clamp(base * 12)
    BY <1>4, <1>5, <2>3, Zenon
  <2>. QED
    BY <1>6, <2>2, <2>3
<1>8. score(t, p, boost) \in Bid
  BY <1>3, <1>5
<1>. QED
  BY <1>7, <1>8

AgentIds(ps) == {ps[i].agent_id : i \in DOMAIN ps}

\* The dict of bids has an entry for each agent, the score of one of its profiles.
LEMMA BidsType ==
    ASSUME NEW n \in Nat, NEW ps \in [1..n -> Profiles], NEW t \in AuctionTasks, NEW boost \in BOOLEAN
    PROVE  /\ DOMAIN bidsOf(t, ps, boost) = AgentIds(ps)
           /\ \A id \in AgentIds(ps) : \E i \in 1..n :
                 ps[i].agent_id = id /\ bidsOf(t, ps, boost)[id] = score(t, ps[i], boost)
<1>1. DOMAIN bidsOf(t, ps, boost) = AgentIds(ps)
  BY DEF bidsOf, AgentIds
<1>2. ASSUME NEW id \in AgentIds(ps)
      PROVE  \E i \in 1..n : ps[i].agent_id = id /\ bidsOf(t, ps, boost)[id] = score(t, ps[i], boost)
  <2>. DEFINE Last(i) == /\ ps[i].agent_id = id
                         /\ \A j \in DOMAIN ps : ps[j].agent_id = id => j <= i
              gaps == {n - i : i \in {i \in 1..n : ps[i].agent_id = id}}
  <2>1. gaps \subseteq Nat /\ gaps # {}
    BY <1>2 DEF AgentIds
  <2>. HIDE DEF gaps
  <2>2. PICK g \in gaps : \A k \in gaps : g <= k
    BY <2>1, LeastOf
  <2>3. PICK i \in 1..n : ps[i].agent_id = id /\ g = n - i
    BY <2>2 DEF gaps
  <2>4. ASSUME NEW j \in DOMAIN ps, ps[j].agent_id = id PROVE j <= i
    <3>1. n - j \in gaps
      BY <2>4 DEF gaps
    <3>2. n - i <= n - j
      BY <2>2, <2>3, <3>1
    <3>. QED
      BY <2>3, <3>2
  <2>5. \E k \in DOMAIN ps : Last(k)
    BY <2>3, <2>4
  <2>. DEFINE c == CHOOSE k \in DOMAIN ps : Last(k)
  <2>6. c \in 1..n /\ ps[c].agent_id = id
    BY <2>5
  <2>7. bidsOf(t, ps, boost)[id] = score(t, ps[c], boost)
    BY <1>2 DEF bidsOf, AgentIds
  <2>. QED
    BY <2>6, <2>7
<1>. QED
  BY <1>1, <1>2

\* Who beats all others is there and is the only one.
Beats(bids, id) ==
    \A other \in DOMAIN bids \ {id} :
        bids[other] < bids[id] \/ (bids[other] = bids[id] /\ id < other)

\* Bids are numbers, and what a bid lacks of the highest possible one orders them in reverse.
LEMMA Gap ==
    ASSUME NEW x \in Bid, NEW y \in Bid
    PROVE  /\ 1000 - x \in Nat /\ (1000 - x <= 1000 - y => y < x \/ y = x)
           /\ x <= x /\ (y < x => y <= x /\ x # y)
BY DEF Bid

LEMMA WinnerIs ==
    ASSUME NEW ids, ids \subseteq Nat, ids # {}, NEW bids \in [ids -> Bid]
    PROVE  winnerOf(bids) \in ids /\ Beats(bids, winnerOf(bids))
<1>. DEFINE gaps == {1000 - bids[id] : id \in ids}
<1>0. \A id \in ids : bids[id] \in Bid
  OBVIOUS
<1>1. gaps \subseteq Nat /\ gaps # {}
  <2>1. \A id \in ids : 1000 - bids[id] \in Nat
    BY <1>0, Gap
  <2>2. PICK id \in ids : TRUE
    OBVIOUS
  <2>3. 1000 - bids[id] \in gaps
    OBVIOUS
  <2>. QED
    BY <2>1, <2>3
<1>. HIDE DEF gaps
<1>2. PICK g \in gaps : \A k \in gaps : g <= k
  BY <1>1, LeastOf
<1>. DEFINE best == {id \in ids : 1000 - bids[id] = g}
<1>3. best \subseteq Nat /\ best # {}
  <2>1. PICK id \in ids : 1000 - bids[id] = g
    BY <1>2 DEF gaps
  <2>2. id \in best
    BY <2>1
  <2>3. best \subseteq ids
    OBVIOUS
  <2>. HIDE DEF best
  <2>. QED
    BY <2>2, <2>3
<1>. HIDE DEF best
<1>4. PICK w \in best : \A k \in best : w <= k
  BY <1>3, LeastOf
<1>5. w \in ids /\ 1000 - bids[w] = g
  BY <1>4 DEF best
<1>6. ASSUME NEW other \in ids \ {w}
      PROVE  bids[other] < bids[w] \/ (bids[other] = bids[w] /\ w < other)
  <2>1. g <= 1000 - bids[other]
    BY <1>2 DEF gaps
  <2>2. bids[other] = bids[w] => w <= other
    BY <1>4, <1>5 DEF best
  <2>3. bids[other] \in Bid /\ bids[w] \in Bid
    BY <1>0, <1>5
  <2>4. 1000 - bids[w] <= 1000 - bids[other]
    BY <1>5, <2>1
  <2>5. bids[other] < bids[w] \/ bids[other] = bids[w]
    BY <2>3, <2>4, Gap
  <2>6. w \in Nat /\ other \in Nat /\ other # w
    BY <1>5
  <2>7. w <= other => w < other
    BY ONLY <2>6
  <2>. QED
    BY <2>2, <2>5, <2>7
<1>7. \E id \in DOMAIN bids : Beats(bids, id)
  BY <1>5, <1>6 DEF Beats
<1>. QED
  BY <1>7 DEF winnerOf, Beats

\* When the profiles have different ids, each bids its own score, wherever it is listed.
LEMMA DistinctBids ==
    ASSUME NEW n \in Nat, NEW ps \in [1..n -> Profiles], NEW t \in AuctionTasks, NEW boost \in BOOLEAN,
           \A i, j \in 1..n : ps[i].agent_id = ps[j].agent_id => i = j
    PROVE  bidsOf(t, [i \in 1..n |-> ps[n + 1 - i]], boost) = bidsOf(t, ps, boost)
<1>. DEFINE turned == [i \in 1..n |-> ps[n + 1 - i]]
            there == bidsOf(t, ps, boost)
            back == bidsOf(t, turned, boost)
<1>1. turned \in [1..n -> Profiles] /\ \A i \in 1..n : n + 1 - i \in 1..n /\ n + 1 - (n + 1 - i) = i
  OBVIOUS
<1>2. \A i \in 1..n : turned[i] = ps[n + 1 - i] /\ turned[n + 1 - i] = ps[i]
  BY <1>1
<1>. HIDE DEF turned
<1>3. AgentIds(turned) = AgentIds(ps)
  BY <1>1, <1>2 DEF AgentIds
<1>4. ASSUME NEW id \in AgentIds(ps) PROVE back[id] = there[id]
  <2>1. PICK i \in 1..n : ps[i].agent_id = id /\ there[id] = score(t, ps[i], boost)
    BY BidsType
  <2>2. PICK k \in 1..n : turned[k].agent_id = id /\ back[id] = score(t, turned[k], boost)
    <3>1. id \in AgentIds(turned)
      BY <1>3
    <3>. QED
      BY <1>1, <3>1, BidsType
  <2>3. turned[k] = ps[i]
    <3>1. turned[k] = ps[n + 1 - k] /\ n + 1 - k \in 1..n
      BY <1>1, <1>2
    <3>2. n + 1 - k = i
      BY <2>1, <2>2, <3>1
    <3>. QED
      BY <3>1, <3>2
  <2>. QED
    BY <2>1, <2>2, <2>3
<1>5. DOMAIN back = AgentIds(ps) /\ DOMAIN there = AgentIds(ps)
  BY <1>1, <1>3, BidsType
<1>6. back = [id \in DOMAIN back |-> back[id]] /\ there = [id \in DOMAIN there |-> there[id]]
  BY DEF bidsOf
<1>7. back = there
  BY <1>4, <1>5, <1>6
<1>. QED
  BY <1>7 DEF turned

\* As many ids as profiles: no two profiles share one.
LEMMA DistinctIds ==
    ASSUME NEW n \in Nat, NEW ps \in [1..n -> Profiles], Cardinality(AgentIds(ps)) = n
    PROVE  \A i, j \in 1..n : ps[i].agent_id = ps[j].agent_id => i = j
<1>. DEFINE f == [i \in 1..n |-> ps[i].agent_id]
<1>1. f \in Surjection(1..n, AgentIds(ps))
  BY DEF Surjection, AgentIds
<1>2. IsFiniteSet(1..n) /\ Cardinality(1..n) = n
  BY FS_Interval
<1>3. f \in Injection(1..n, AgentIds(ps))
  BY <1>1, <1>2, FS_Surjection
<1>. QED
  BY <1>3 DEF Injection, IsInjective

\* That the auction a is what the opportunity o calls for.
BestOf(o, a) ==
    LET ps == o.profiles IN ps # <<>> =>
        LET turned == [i \in DOMAIN ps |-> ps[Len(ps) + 1 - i]]
        IN /\ a.winner \in AgentIds(ps) /\ DOMAIN a.bids = AgentIds(ps)
           /\ \A id \in AgentIds(ps) :
                 /\ a.bids[id] \in Bid
                 /\ a.bids[id] <= a.bids[a.winner]
                 /\ a.bids[id] = a.bids[a.winner] => a.winner <= id
           /\ Cardinality(AgentIds(ps)) = Len(ps) =>
                 winnerOf(bidsOf(o.task, turned, o.boost)) = a.winner
           /\ \A i \in DOMAIN ps : score(o.task, ps[i], FALSE) <= score(o.task, ps[i], TRUE)

LEMMA BestOfIs ==
    /\ WinnerIsBest <=> BestOf(opportunity, allocation)
    /\ WinnerIsBest' <=> BestOf(opportunity', allocation')
BY DEF WinnerIsBest, BestOf, AgentIds, Bid

\* The task goes to an agent nobody outbids, the first of them; the order of the profiles
\* does not matter when their ids differ, nor does a boost cost anybody anything, for every
\* number of profiles (MultiAgentAuction._run_inner and UtilityFunction.score).
THEOREM WinnersAreBest == AuctionSpec => []WinnerIsBest
<1>1. AuctionInit => WinnerIsBest
  BY DEF AuctionInit, WinnerIsBest
<1>2. WinnerIsBest /\ UNCHANGED auctionVars => WinnerIsBest'
  BY BestOfIs DEF auctionVars
<1>3. AuctionNext => WinnerIsBest'
  <2>. SUFFICES ASSUME NEW n \in 1..MaxProfiles, NEW ps \in [1..n -> Profiles],
                       NEW t \in AuctionTasks, NEW boost \in BOOLEAN, run_auction(t, ps, boost)
                PROVE  WinnerIsBest'
    BY DEF AuctionNext
  <2>. DEFINE bids == bidsOf(t, ps, boost)
              w == winnerOf(bids)
              turned == [i \in DOMAIN ps |-> ps[Len(ps) + 1 - i]]
  <2>1. n \in Nat \ {0} /\ Len(ps) = n /\ DOMAIN ps = 1..n /\ \A i \in 1..n : ps[i] \in Profiles
    BY AuctionAssumption
  <2>2. AgentIds(ps) \subseteq Nat /\ AgentIds(ps) # {}
    BY <2>1, AuctionAssumption DEF AgentIds
  <2>3. bids \in [AgentIds(ps) -> Bid]
    <3>1. bids = [id \in AgentIds(ps) |-> bids[id]]
      BY DEF bidsOf, AgentIds
    <3>2. ASSUME NEW id \in AgentIds(ps) PROVE bids[id] \in Bid
      <4>1. PICK i \in 1..n : bids[id] = score(t, ps[i], boost)
        BY <2>1, BidsType
      <4>2. bids[id] \in Bid
        <5>1. ps[i] \in Profiles
          BY <2>1
        <5>2. score(t, ps[i], boost) \in Bid
          BY <5>1, ScoreIs
        <5>. QED
          BY <4>1, <5>2
      <4>. QED
        BY <4>2
    <3>. QED
      BY <3>1, <3>2
  <2>4. w \in AgentIds(ps) /\ Beats(bids, w)
    BY <2>2, <2>3, WinnerIs
  <2>5. ASSUME NEW id \in AgentIds(ps)
        PROVE  bids[id] \in Bid /\ bids[id] <= bids[w] /\ (bids[id] = bids[w] => w <= id)
    <3>1. bids[id] \in Bid /\ bids[w] \in Bid
      BY <2>3, <2>4
    <3>2. id # w => bids[id] < bids[w] \/ (bids[id] = bids[w] /\ w < id)
      BY <2>3, <2>4 DEF Beats
    <3>3. w < id => w <= id
      BY <2>2, <2>4
    <3>4. w <= w
      BY <2>2, <2>4
    <3>. HIDE DEF bids, w
    <3>5. CASE id = w
      BY <3>1, <3>4, <3>5, Gap
    <3>6. CASE id # w
      BY <3>1, <3>2, <3>3, <3>6, Gap
    <3>. QED
      BY <3>1, <3>5, <3>6
  <2>6. Cardinality(AgentIds(ps)) = Len(ps) => winnerOf(bidsOf(t, turned, boost)) = w
    BY <2>1, DistinctIds, DistinctBids
  <2>7. \A i \in DOMAIN ps : score(t, ps[i], FALSE) <= score(t, ps[i], TRUE)
    <3>1. \A p \in Profiles : score(t, p, FALSE) <= score(t, p, TRUE)
      BY ScoreIs
    <3>. QED
      BY <2>1, <3>1
  <2>8. /\ opportunity' = [task |-> t, profiles |-> ps, boost |-> boost]
        /\ allocation' = [bids |-> bids, winner |-> w]
    BY DEF run_auction
  <2>. QED
    <3>1. DOMAIN bids = AgentIds(ps)
      BY <2>3
    <3>2. WinnerIsBest' <=> BestOf([task |-> t, profiles |-> ps, boost |-> boost], [bids |-> bids, winner |-> w])
      BY <2>8, BestOfIs
    <3>. HIDE DEF bids, w
    <3>. QED
      BY <2>4, <2>5, <2>6, <2>7, <3>1, <3>2 DEF BestOf
<1>. QED
  BY <1>1, <1>2, <1>3, PTL DEF AuctionSpec

=============================================================================
