---------------------------- MODULE FleetProofs ----------------------------
(***************************************************************************)
(* Machine-checked proofs about Fleet, for every set of jobs, requests and *)
(* gateway processes and every value of the bounds.                        *)
(***************************************************************************)
EXTENDS FleetPoll, FiniteSetTheorems, TLAPS

\* A semaphore operation on one process keeps the type of the permit counters.
LEMMA PermitUpdate ==
    ASSUME NEW f \in [Gateway -> Nat], NEW h, NEW n, h \in Gateway => n \in Nat
    PROVE  [f EXCEPT ![h] = n] \in [Gateway -> Nat]
<1>1. CASE h \in Gateway
  BY <1>1
<1>2. CASE h \notin Gateway
  <2>1. [f EXCEPT ![h] = n] = f
    BY <1>2
  <2> QED
    BY <2>1
<1> QED
  BY <1>1, <1>2

\* Moving a task on, inside or out of the semaphore, keeps the types of its state.
LEMMA TaskMove ==
    ASSUME TypeOK, NEW j \in Job, NEW pc \in {"none", "end", "died"} \cup TaskActive,
           Leave(j, pc) \/ Goto(j, pc)
    PROVE  /\ taskPc' \in [Job -> {"none", "end", "died"} \cup TaskActive]
           /\ permits' \in [Gateway -> Nat]
<1>1. taskPc' \in [Job -> {"none", "end", "died"} \cup TaskActive]
  BY DEF TypeOK, Leave, Goto
<1>2. CASE Leave(j, pc)
  <2>1. permits' = [permits EXCEPT ![home[j]] = permits[home[j]] + 1]
    BY <1>2 DEF Leave
  <2>2. permits \in [Gateway -> Nat]
    BY DEF TypeOK
  <2>3. home[j] \in Gateway => permits[home[j]] + 1 \in Nat
    BY <2>2
  <2>4. permits' \in [Gateway -> Nat]
    BY <2>1, <2>2, <2>3, PermitUpdate
  <2> QED
    BY <1>1, <2>4
<1>3. CASE Goto(j, pc)
  BY <1>1, <1>3 DEF TypeOK, Goto
<1> QED
  BY <1>2, <1>3

\* Every step of a coroutine, of Redis or of the processes keeps the types.
LEMMA TypeStep == TypeOK /\ [Next]_vars => TypeOK'
<1> USE FleetAssumption DEF Reply, Applied, Raised, RedisCall, write_job, Proceed,
        Leave, Goto, Status, Terminal, ReqActive, Holding, TaskActive,
        redisVars, reqVars, procVars, taskVars
<1> SUFFICES ASSUME TypeOK, [Next]_vars PROVE TypeOK'
  OBVIOUS
<1>1. ASSUME NEW r \in Request, NEW g \in Gateway, Submit(r, g) PROVE TypeOK'
  BY <1>1 DEF Submit, TypeOK
<1>2. ASSUME NEW r \in Request, NEW j \in Job, NEW o \in Reply, SubmitWrite(r, j, o)
      PROVE TypeOK'
  BY <1>2 DEF SubmitWrite, TypeOK
<1>3. ASSUME NEW r \in Request, NEW o \in Reply, SubmitPublish(r, o) PROVE TypeOK'
  BY <1>3, SMTT(60) DEF SubmitPublish, TypeOK
<1>4. ASSUME NEW r \in Batch, NEW o \in Reply, SubmitSave(r, o) PROVE TypeOK'
  BY <1>4 DEF SubmitSave, TypeOK
<1>5. ASSUME NEW g \in Gateway, start_fleet_workers(g) PROVE TypeOK'
  BY <1>5 DEF start_fleet_workers, TypeOK
<1>6. ASSUME NEW g \in Gateway, stop_fleet_workers(g) PROVE TypeOK'
  BY <1>6 DEF stop_fleet_workers, TypeOK
<1>7. ASSUME NEW g \in Gateway, Crash(g) PROVE TypeOK'
  BY <1>7 DEF Crash, TypeOK
<1>8. ASSUME NEW g \in Gateway, NEW o \in Reply, EnsureGroup(g, o) PROVE TypeOK'
  BY <1>8 DEF EnsureGroup, TypeOK
<1>9. ASSUME NEW g \in Gateway, NEW o \in Reply, Claim(g, o) PROVE TypeOK'
  <2>1. stream[cursor + 1] \in Job /\ cursor + 1 \in 0..Len(stream)
    BY <1>9 DEF Claim, TypeOK
  <2>2. cursor' \in 0..Len(stream') /\ pel' \subseteq Job
    BY <1>9, <2>1 DEF Claim, TypeOK
  <2>3. /\ taskPc' \in [Job -> {"none", "end", "died"} \cup TaskActive]
        /\ home' \in [Job -> Gateway \cup {Nil}]
    BY <1>9, <2>1, ZenonT(60) DEF Claim, TypeOK
  <2>4. faults' \in 0..MaxFaults
    BY <1>9 DEF Claim, TypeOK
  <2> QED
    BY <1>9, <2>2, <2>3, <2>4 DEF Claim, TypeOK
<1>10. ASSUME NEW j \in Job, Acquire(j) PROVE TypeOK'
  <2>1. permits' = [permits EXCEPT ![home[j]] = permits[home[j]] - 1]
    BY <1>10 DEF Acquire
  <2>2. permits \in [Gateway -> Nat]
    BY DEF TypeOK
  <2>3. home[j] \in Gateway => permits[home[j]] - 1 \in Nat
    BY <1>10, <2>2 DEF Acquire
  <2>4. permits' \in [Gateway -> Nat]
    BY <2>1, <2>2, <2>3, PermitUpdate
  <2> QED
    BY <1>10, <2>4 DEF Acquire, TypeOK
<1>11. ASSUME NEW j \in Job, NEW o \in Reply, read_job(j, o) PROVE TypeOK'
  <2>1. \E pc \in {"none", "end", "died"} \cup TaskActive : Leave(j, pc) \/ Goto(j, pc)
    BY <1>11 DEF read_job
  <2>2. /\ taskPc' \in [Job -> {"none", "end", "died"} \cup TaskActive]
        /\ permits' \in [Gateway -> Nat]
    BY <2>1, TaskMove
  <2> QED
    BY <1>11, <2>2 DEF read_job, TypeOK
<1>12. ASSUME NEW j \in Job, NEW o \in Reply, MarkRunning(j, o) PROVE TypeOK'
  <2>1. \E pc \in {"none", "end", "died"} \cup TaskActive : Leave(j, pc) \/ Goto(j, pc)
    BY <1>12 DEF MarkRunning
  <2>2. /\ taskPc' \in [Job -> {"none", "end", "died"} \cup TaskActive]
        /\ permits' \in [Gateway -> Nat]
    BY <2>1, TaskMove
  <2> QED
    BY <1>12, <2>2 DEF MarkRunning, TypeOK
<1>13. ASSUME NEW j \in Job, NEW s \in Terminal, execute_job(j, s) PROVE TypeOK'
  BY <1>13 DEF execute_job, TypeOK
<1>14. ASSUME NEW j \in Job, NEW o \in Reply, WriteResult(j, o) PROVE TypeOK'
  <2>1. \E pc \in {"none", "end", "died"} \cup TaskActive : Leave(j, pc) \/ Goto(j, pc)
    BY <1>14 DEF WriteResult
  <2>2. /\ taskPc' \in [Job -> {"none", "end", "died"} \cup TaskActive]
        /\ permits' \in [Gateway -> Nat]
    BY <2>1, TaskMove
  <2> QED
    BY <1>14, <2>2 DEF WriteResult, TypeOK
<1>15. ASSUME NEW j \in Job, NEW o \in Reply, Ack(j, o) PROVE TypeOK'
  <2>1. \E pc \in {"none", "end", "died"} \cup TaskActive : Leave(j, pc) \/ Goto(j, pc)
    BY <1>15 DEF Ack
  <2>2. /\ taskPc' \in [Job -> {"none", "end", "died"} \cup TaskActive]
        /\ permits' \in [Gateway -> Nat]
    BY <2>1, TaskMove
  <2> QED
    BY <1>15, <2>2 DEF Ack, TypeOK
<1>16. ASSUME NEW j \in Job, Evict(j) PROVE TypeOK'
  BY <1>16 DEF Evict, TypeOK
<1>17. CASE UNCHANGED vars
  BY <1>17 DEF vars, TypeOK
<1> QED
  BY <1>1, <1>2, <1>3, <1>4, <1>5, <1>6, <1>7, <1>8, <1>9, <1>10, <1>11, <1>12,
     <1>13, <1>14, <1>15, <1>16, <1>17
  DEF Next, SubmitStep, LoopStep, TaskStep

-----------------------------------------------------------------------------
(* Each part of FleetInv is preserved, given the whole of FleetInv.         *)

\* A record that exists stays, except when Redis drops it.
LEMMA RecordStays ==
    ASSUME TypeOK, NEW j \in Job, NEW o \in Reply, MarkRunning(j, o) \/ WriteResult(j, o)
    PROVE  /\ \A x \in Job : record[x] # "none" => record'[x] # "none"
           /\ UNCHANGED <<stream, cursor, pel, batch, created, reqPc, cur, ids, evicted>>
<1>1. \A x \in Job : record[x] # "none" => record'[x] # "none"
  BY DEF MarkRunning, WriteResult, write_job, TypeOK, Terminal
<1>2. UNCHANGED <<stream, cursor, pel, batch, created, reqPc, cur, ids, evicted>>
  BY DEF MarkRunning, WriteResult, reqVars
<1> QED
  BY <1>1, <1>2

\* Only these steps touch the stream, the submitting coroutines or a record.
LEMMA StreamStep == FleetInv /\ [Next]_vars => StreamInv'
<1> USE DEF redisVars, reqVars, procVars, taskVars, Reply, Applied, Raised, RedisCall,
            Streamed
<1> SUFFICES ASSUME FleetInv, [Next]_vars PROVE StreamInv'
  OBVIOUS
<1>0. TypeOK /\ StreamInv /\ RecordInv
  BY DEF FleetInv
<1>1. ASSUME NEW r \in Request, NEW g \in Gateway, Submit(r, g) PROVE StreamInv'
  BY <1>0, <1>1 DEF Submit, StreamInv, Proceed, TypeOK
<1>2. ASSUME NEW r \in Request, NEW j \in Job, NEW o \in Reply, SubmitWrite(r, j, o)
      PROVE StreamInv'
  BY <1>0, <1>2 DEF SubmitWrite, StreamInv, write_job, TypeOK, Status
<1>3. ASSUME NEW r \in Request, NEW o \in Reply, SubmitPublish(r, o) PROVE StreamInv'
  <2>1. cur[r] \in Job /\ stream \in Seq(Job) /\ ~Streamed(cur[r]) /\ cur[r] \in created
    BY <1>0, <1>3 DEF SubmitPublish, StreamInv, TypeOK
  <2>2. reqPc'[r] # "publish" /\ \A q \in Request \ {r} : reqPc'[q] = reqPc[q]
    BY <1>0, <1>3 DEF SubmitPublish, Proceed, TypeOK
  <2>3. \A q \in Request \ {r} : reqPc[q] = "publish" => cur[q] # cur[r]
    BY <1>0, <1>3 DEF SubmitPublish, StreamInv
  <2>4. CASE stream' = stream
    BY <1>0, <1>3, <2>2, <2>4 DEF SubmitPublish, StreamInv
  <2>5. CASE stream' = Append(stream, cur[r])
    <3>1. /\ Len(stream') = Len(stream) + 1
          /\ \A i \in 1..Len(stream) : stream'[i] = stream[i]
          /\ stream'[Len(stream) + 1] = cur[r]
      BY <2>1, <2>5
    <3>2. Len(stream) \in Nat
      BY <2>1
    <3>3. \A i, k \in 1..Len(stream') : stream'[i] = stream'[k] => i = k
      BY <1>0, <2>1, <3>1, <3>2 DEF StreamInv
    <3>4. \A i \in 1..Len(stream') : stream'[i] \in created'
      BY <1>0, <1>3, <2>1, <3>1, <3>2 DEF StreamInv, SubmitPublish
    <3>5. \A q \in Request : reqPc'[q] = "publish" =>
             \A i \in 1..Len(stream') : stream'[i] # cur'[q]
      BY <1>0, <1>3, <2>2, <2>3, <3>1, <3>2 DEF StreamInv, SubmitPublish
    <3> QED
      BY <1>0, <1>3, <2>2, <3>3, <3>4, <3>5 DEF StreamInv, SubmitPublish
  <2> QED
    BY <1>3, <2>4, <2>5 DEF SubmitPublish
<1>4. ASSUME NEW r \in Batch, NEW o \in Reply, SubmitSave(r, o) PROVE StreamInv'
  BY <1>0, <1>4, FleetAssumption DEF SubmitSave, StreamInv, TypeOK
<1>5. ASSUME NEW g \in Gateway, Crash(g) PROVE StreamInv'
  BY <1>0, <1>5 DEF Crash, StreamInv, TypeOK, ReqActive
<1>6. ASSUME NEW j \in Job, NEW o \in Reply, MarkRunning(j, o) \/ WriteResult(j, o)
      PROVE StreamInv'
  <2>1. /\ \A x \in Job : record[x] # "none" => record'[x] # "none"
        /\ UNCHANGED <<stream, created, reqPc, cur, evicted>>
    BY <1>0, <1>6, RecordStays
  <2>2. \A r \in Request : reqPc[r] = "publish" => cur[r] \in Job
    BY <1>0 DEF StreamInv, TypeOK
  <2> QED
    BY <1>0, <2>1, <2>2, SMTT(30) DEF StreamInv
<1>7. ASSUME NEW j \in Job, Evict(j) PROVE StreamInv'
  BY <1>0, <1>7 DEF Evict, StreamInv, TypeOK
<1>8. CASE UNCHANGED <<stream, created, reqPc, cur, evicted, record>>
  BY <1>0, <1>8 DEF StreamInv
<1> QED
  BY <1>1, <1>2, <1>3, <1>4, <1>5, <1>6, <1>7, <1>8
  DEF Next, vars, SubmitStep, LoopStep, TaskStep, start_fleet_workers,
      stop_fleet_workers, EnsureGroup, Claim, Acquire, read_job, execute_job, Ack

\* SubmitInv is preserved: only a coroutine's own steps move it, and the records
\* of the ids it has collected stay.
LEMMA SubmitInvStep == FleetInv /\ [Next]_vars => SubmitInv'
<1> USE DEF redisVars, reqVars, procVars, taskVars, Reply, Applied, Raised, RedisCall
<1> SUFFICES ASSUME FleetInv, [Next]_vars PROVE SubmitInv'
  OBVIOUS
<1>0. TypeOK /\ StreamInv /\ SubmitInv
  BY DEF FleetInv
<1>01. Len(<<>>) = 0 /\ \A r \in Request : Len(ids[r]) \in Nat /\ Size[r] \in Nat
  BY <1>0, FleetAssumption DEF TypeOK
<1>1. ASSUME NEW r \in Request, NEW g \in Gateway, Submit(r, g) PROVE SubmitInv'
  BY <1>0, <1>01, <1>1, SMTT(60) DEF Submit, SubmitInv, Proceed, TypeOK
<1>2. ASSUME NEW r \in Request, NEW j \in Job, NEW o \in Reply, SubmitWrite(r, j, o)
      PROVE SubmitInv'
  <2>1. \A x \in Job : record[x] # "none" => record'[x] # "none"
    BY <1>0, <1>2 DEF SubmitWrite, write_job, TypeOK
  <2> QED
    BY <1>0, <1>01, <1>2, <2>1 DEF SubmitWrite, SubmitInv, TypeOK
<1>3. ASSUME NEW r \in Request, NEW o \in Reply, SubmitPublish(r, o) PROVE SubmitInv'
  <2>1. /\ cur[r] \in Job /\ cur[r] \in created
        /\ cur[r] \in evicted \/ record[cur[r]] # "none"
        /\ Len(ids[r]) < Size[r]
        /\ \A i \in 1..Len(ids[r]) : ids[r][i] # cur[r]
    BY <1>0, <1>3 DEF SubmitPublish, StreamInv, SubmitInv, TypeOK
  <2>2. /\ Len(ids'[r]) = Len(ids[r]) + 1
        /\ \A i \in 1..Len(ids[r]) : ids'[r][i] = ids[r][i]
        /\ ids'[r][Len(ids[r]) + 1] = cur[r]
        /\ \A q \in Request \ {r} : ids'[q] = ids[q]
    BY <1>0, <1>3, <2>1 DEF SubmitPublish, TypeOK
  <2>3. /\ reqPc'[r] = Proceed(r, Len(ids[r]) + 1)
        /\ \A q \in Request \ {r} : reqPc'[q] = reqPc[q]
    BY <1>0, <1>3 DEF SubmitPublish, TypeOK
  <2>4. r \in Batch => batch[r] = Nil
    BY <1>0, <1>3 DEF SubmitInv, SubmitPublish
  <2>5. UNCHANGED <<record, created, evicted, cur, batch>>
    BY <1>3 DEF SubmitPublish
  <2> DEFINE P(q) ==
        /\ reqPc'[q] = "idle" => Len(ids'[q]) = 0
        /\ reqPc'[q] \in {"write", "publish"} => Len(ids'[q]) < Size[q]
        /\ reqPc'[q] = "save" => q \in Batch /\ Len(ids'[q]) = Size[q]
        /\ \A i, k \in 1..Len(ids'[q]) : ids'[q][i] = ids'[q][k] => i = k
        /\ \A i \in 1..Len(ids'[q]) :
              /\ ids'[q][i] \in created'
              /\ ids'[q][i] \in evicted' \/ record'[ids'[q][i]] # "none"
              /\ reqPc'[q] = "publish" => ids'[q][i] # cur'[q]
        /\ q \in Batch /\ batch'[q] # Nil =>
              /\ batch'[q] = ids'[q]
              /\ Len(ids'[q]) = Size[q]
              /\ reqPc'[q] \in {"replied", "error"}
  <2>6. P(r)
    <3>1. reqPc'[r] # "idle" /\ (reqPc'[r] \in {"write", "publish"} => Len(ids'[r]) < Size[r])
      BY <1>01, <2>2, <2>3 DEF Proceed
    <3>2. reqPc'[r] = "save" => r \in Batch /\ Len(ids'[r]) = Size[r]
      BY <1>01, <2>1, <2>2, <2>3 DEF Proceed
    <3>3. \A i, k \in 1..Len(ids'[r]) : ids'[r][i] = ids'[r][k] => i = k
      BY <1>0, <1>01, <2>1, <2>2, SMTT(30) DEF SubmitInv
    <3>4. \A i \in 1..Len(ids'[r]) :
              /\ ids'[r][i] \in created'
              /\ ids'[r][i] \in evicted' \/ record'[ids'[r][i]] # "none"
      BY <1>0, <1>01, <2>1, <2>2, <2>5 DEF SubmitInv
    <3>5. reqPc'[r] # "publish"
      BY <2>3 DEF Proceed
    <3> QED
      BY <3>1, <3>2, <3>3, <3>4, <3>5, <2>4, <2>5
  <2>7. ASSUME NEW q \in Request \ {r} PROVE P(q)
    BY <1>0, <2>2, <2>3, <2>5 DEF SubmitInv
  <2> QED
    BY <2>6, <2>7 DEF SubmitInv
<1>4. ASSUME NEW r \in Batch, NEW o \in Reply, SubmitSave(r, o) PROVE SubmitInv'
  <2>1. /\ r \in Request /\ reqPc[r] = "save" /\ reqPc'[r] \in {"replied", "error"}
        /\ \A q \in Request \ {r} : reqPc'[q] = reqPc[q]
    BY <1>0, <1>4, FleetAssumption DEF SubmitSave, TypeOK
  <2>2. /\ batch'[r] = ids[r] \/ batch'[r] = batch[r]
        /\ \A q \in Batch \ {r} : batch'[q] = batch[q]
    BY <1>0, <1>4 DEF SubmitSave, TypeOK
  <2>3. UNCHANGED <<record, created, evicted, cur, ids>>
    BY <1>4 DEF SubmitSave
  <2> QED
    BY <1>0, <2>1, <2>2, <2>3 DEF SubmitInv
<1>5. ASSUME NEW g \in Gateway, Crash(g) PROVE SubmitInv'
  BY <1>0, <1>01, <1>5 DEF Crash, SubmitInv, TypeOK, ReqActive
<1>6. ASSUME NEW j \in Job, NEW o \in Reply, MarkRunning(j, o) \/ WriteResult(j, o)
      PROVE SubmitInv'
  BY <1>0, <1>01, <1>6, RecordStays, SMTT(60) DEF SubmitInv, TypeOK
<1>7. ASSUME NEW j \in Job, Evict(j) PROVE SubmitInv'
  BY <1>0, <1>01, <1>7 DEF Evict, SubmitInv, TypeOK
<1>8. CASE UNCHANGED <<batch, ids, created, reqPc, cur, evicted, record>>
  BY <1>0, <1>8 DEF SubmitInv
<1> QED
  BY <1>1, <1>2, <1>3, <1>4, <1>5, <1>6, <1>7, <1>8
  DEF Next, vars, SubmitStep, LoopStep, TaskStep, start_fleet_workers,
      stop_fleet_workers, EnsureGroup, Claim, Acquire, read_job, execute_job, Ack

\* The stream only grows at its end and the group's cursor only moves forward.
LEMMA StreamGrows ==
    ASSUME TypeOK, [Next]_vars
    PROVE  /\ Len(stream) <= Len(stream')
           /\ \A i \in 1..Len(stream) : stream'[i] = stream[i]
           /\ cursor <= cursor' /\ cursor' <= Len(stream)
<1> USE DEF redisVars, reqVars, procVars, taskVars, Reply, Applied, Raised, RedisCall
<1>0. stream \in Seq(Job) /\ Len(stream) \in Nat /\ cursor \in Nat /\ cursor <= Len(stream)
  BY DEF TypeOK
<1>1. ASSUME NEW r \in Request, NEW o \in Reply, SubmitPublish(r, o)
      PROVE  /\ Len(stream) <= Len(stream')
             /\ \A i \in 1..Len(stream) : stream'[i] = stream[i]
             /\ cursor' = cursor
  BY <1>0, <1>1 DEF SubmitPublish, TypeOK
<1>2. ASSUME NEW g \in Gateway, NEW o \in Reply, Claim(g, o)
      PROVE  stream' = stream /\ cursor <= cursor' /\ cursor' <= Len(stream)
  BY <1>0, <1>2 DEF Claim
<1>3. CASE UNCHANGED <<stream, cursor>>
  BY <1>0, <1>3
<1> QED
  BY <1>0, <1>1, <1>2, <1>3
  DEF Next, vars, SubmitStep, LoopStep, TaskStep, Submit, SubmitWrite, SubmitSave,
      start_fleet_workers, stop_fleet_workers, Crash, EnsureGroup, Acquire, read_job,
      MarkRunning, execute_job, WriteResult, Ack, Evict

\* An entry once delivered by XREADGROUP stays delivered.
LEMMA DeliveredStays ==
    ASSUME TypeOK, [Next]_vars, NEW j, Delivered(j)
    PROVE  Delivered(j)'
<1>1. PICK i \in 1..cursor : stream[i] = j
  BY DEF Delivered
<1>2. cursor \in Nat /\ Len(stream) \in Nat /\ cursor <= Len(stream) /\ cursor' \in Nat
  BY TypeStep DEF TypeOK
<1>3. i \in 1..cursor' /\ stream'[i] = j
  BY <1>1, <1>2, StreamGrows
<1> QED
  BY <1>3 DEF Delivered

\* TaskInv is preserved: a task is created by a claim and ends with its process.
LEMMA TaskInvStep == FleetInv /\ [Next]_vars => TaskInv'
<1> USE DEF redisVars, reqVars, procVars, taskVars, Reply, Applied, Raised, RedisCall
<1> SUFFICES ASSUME FleetInv, [Next]_vars PROVE TaskInv'
  OBVIOUS
<1>0. TypeOK /\ TaskInv
  BY DEF FleetInv
<1>01. \A j \in Job : Delivered(j) => Delivered(j)'
  BY <1>0, DeliveredStays
<1>1. ASSUME NEW g \in Gateway, start_fleet_workers(g) PROVE TaskInv'
  BY <1>0, <1>01, <1>1 DEF start_fleet_workers, TaskInv, TypeOK
<1>2. ASSUME NEW g \in Gateway, stop_fleet_workers(g) PROVE TaskInv'
  BY <1>0, <1>01, <1>2 DEF stop_fleet_workers, TaskInv, TypeOK
<1>3. ASSUME NEW g \in Gateway, Crash(g) PROVE TaskInv'
  BY <1>0, <1>01, <1>3 DEF Crash, TaskInv, TypeOK, TaskActive, Holding
<1>4. ASSUME NEW g \in Gateway, NEW o \in Reply, EnsureGroup(g, o) PROVE TaskInv'
  BY <1>0, <1>01, <1>4 DEF EnsureGroup, TaskInv, TypeOK
<1>5. ASSUME NEW g \in Gateway, NEW o \in Reply, Claim(g, o) PROVE TaskInv'
  <2>1. cursor + 1 \in 1..Len(stream) /\ stream[cursor + 1] \in Job /\ alive[g]
    BY <1>0, <1>5 DEF Claim, TypeOK, TaskInv
  <2>2. CASE Raised(o)
    BY <1>0, <1>01, <1>5, <2>1, <2>2 DEF Claim, TaskInv, TypeOK
  <2>3. CASE ~Raised(o)
    <3>0. PICK m \in Job : m = stream[cursor + 1]
      BY <2>1
    <3>1. /\ cursor' = cursor + 1 /\ stream' = stream
          /\ pel' = pel \cup {m}
          /\ taskPc' = [taskPc EXCEPT ![m] = "waiting"]
          /\ home' = [home EXCEPT ![m] = g]
          /\ alive' = alive /\ loop' = loop
      BY <1>5, <2>3, <3>0 DEF Claim
    <3>2. Delivered(m)'
      BY <2>1, <3>0, <3>1, <1>0 DEF Delivered, TypeOK
    <3>3. /\ taskPc'[m] = "waiting" /\ home'[m] = g
          /\ \A j \in Job \ {m} : taskPc'[j] = taskPc[j] /\ home'[j] = home[j]
      BY <1>0, <3>1 DEF TypeOK
    <3>4. \A x \in Gateway : loop'[x] # "off" => alive'[x]
      BY <1>0, <3>1 DEF TaskInv
    <3>5. \A j \in Job : taskPc'[j] # "none" => Delivered(j)'
      BY <1>0, <1>01, <3>2, <3>3 DEF TaskInv
    <3>6. \A j \in Job : taskPc'[j] \in TaskActive =>
             j \in pel' /\ home'[j] \in Gateway /\ alive'[home'[j]]
      BY <1>0, <2>1, <3>1, <3>3 DEF TaskInv
    <3> QED
      BY <3>4, <3>5, <3>6 DEF TaskInv, TaskActive, Holding
  <2> QED
    BY <2>2, <2>3
<1>7. ASSUME NEW j \in Job, NEW o \in Reply, TaskStep(j, o) PROVE TaskInv'
  <2>1. UNCHANGED <<home, procVars>>
    BY <1>7 DEF TaskStep, Acquire, read_job, MarkRunning, execute_job, WriteResult, Ack
  <2>2. taskPc[j] \in TaskActive /\ taskPc' = [taskPc EXCEPT ![j] = taskPc'[j]]
    BY <1>0, <1>7 DEF TaskStep, Acquire, read_job, MarkRunning, execute_job, WriteResult,
       Ack, Leave, Goto, TypeOK, TaskActive, Holding
  <2>3. pel' = pel \/ (pel' = pel \ {j} /\ taskPc'[j] \notin TaskActive)
    BY <1>0, <1>7 DEF TaskStep, Acquire, read_job, MarkRunning, execute_job, WriteResult,
       Ack, Leave, TypeOK, TaskActive, Holding
  <2>4. \A x \in Job \ {j} : taskPc'[x] = taskPc[x]
    BY <1>0, <2>2 DEF TypeOK
  <2>5. \A x \in Job : taskPc'[x] # "none" => taskPc[x] # "none"
    BY <1>0, <2>2, <2>4 DEF TaskActive, Holding
  <2>6. \A x \in Job : taskPc'[x] \in TaskActive => taskPc[x] \in TaskActive /\ (x \in pel => x \in pel')
    BY <2>2, <2>3, <2>4
  <2> QED
    BY <1>0, <1>01, <2>1, <2>5, <2>6 DEF TaskInv, TaskActive, Holding
<1>8. CASE UNCHANGED <<taskPc, home, pel, procVars>>
  BY <1>0, <1>01, <1>8 DEF TaskInv
<1> QED
  BY <1>1, <1>2, <1>3, <1>4, <1>5, <1>7, <1>8
  DEF Next, vars, SubmitStep, LoopStep, Submit, SubmitWrite, SubmitPublish, SubmitSave, Evict

\* The entry XREADGROUP is about to hand out has never had a task.
LEMMA NextEntryIsFresh ==
    ASSUME TypeOK, StreamInv, TaskInv, cursor < Len(stream)
    PROVE  /\ stream[cursor + 1] \in Job
           /\ ~Delivered(stream[cursor + 1])
           /\ taskPc[stream[cursor + 1]] = "none"
<1>1. cursor + 1 \in 1..Len(stream) /\ cursor \in Nat /\ stream[cursor + 1] \in Job
  BY DEF TypeOK
<1>2. ~Delivered(stream[cursor + 1])
  BY <1>1 DEF Delivered, StreamInv
<1> QED
  BY <1>1, <1>2 DEF TaskInv

\* A delivered entry is on the stream.
LEMMA DeliveredIsStreamed ==
    ASSUME TypeOK, NEW j, Delivered(j)
    PROVE  Streamed(j)
BY DEF TypeOK, Delivered, Streamed

\* RecordInv is preserved: the record of a job is written by its submitter once
\* and then by its only task, in the order running, outcome.
LEMMA RecordInvStep == FleetInv /\ [Next]_vars => RecordInv'
<1> USE DEF redisVars, reqVars, procVars, taskVars, Reply, Applied, Raised, RedisCall
<1> SUFFICES ASSUME FleetInv, [Next]_vars PROVE RecordInv'
  OBVIOUS
<1>0. TypeOK /\ StreamInv /\ TaskInv /\ RecordInv
  BY DEF FleetInv
<1>1. ASSUME NEW r \in Request, NEW j \in Job, NEW o \in Reply, SubmitWrite(r, j, o)
      PROVE RecordInv'
  <2>1. ~Streamed(j)
    BY <1>0, <1>1 DEF SubmitWrite, StreamInv, Streamed
  <2>2. taskPc[j] = "none"
    BY <1>0, <2>1, DeliveredIsStreamed DEF TaskInv
  <2>3. UNCHANGED <<stream, taskVars, evicted>> /\ created' = created \cup {j}
    BY <1>1 DEF SubmitWrite
  <2>4. \A x \in Job : Streamed(x)' <=> Streamed(x)
    BY <2>3 DEF Streamed
  <2>5. /\ record'[j] \in {record[j], "pending"}
        /\ \A x \in Job \ {j} : record'[x] = record[x]
    BY <1>0, <1>1 DEF SubmitWrite, write_job, TypeOK
  <2>6. runs[j] = 0 /\ record[j] = "none"
    BY <1>0, <1>1, <2>2 DEF SubmitWrite, RecordInv
  <2> QED
    BY <1>0, <2>1, <2>2, <2>3, <2>4, <2>5, <2>6 DEF RecordInv, Terminal
<1>2. ASSUME NEW r \in Request, NEW o \in Reply, SubmitPublish(r, o) PROVE RecordInv'
  <2>1. UNCHANGED <<record, taskVars, evicted, created>>
    BY <1>2 DEF SubmitPublish
  <2>2. PICK c \in Job : c = cur[r] /\ (c \in evicted \/ record[c] # "none")
    BY <1>0, <1>2 DEF SubmitPublish, StreamInv, TypeOK
  <2>3. \A x \in Job : Streamed(x)' => Streamed(x) \/ x = c
    BY <1>0, <1>2, <2>2 DEF Streamed, SubmitPublish, TypeOK
  <2> QED
    BY <1>0, <2>1, <2>2, <2>3 DEF RecordInv
<1>3. ASSUME NEW g \in Gateway, Crash(g) PROVE RecordInv'
  <2>1. UNCHANGED <<record, runs, outcome, evicted, created, stream>>
    BY <1>3 DEF Crash
  <2>2. \A x \in Job : taskPc'[x] \in {taskPc[x], "died"}
    BY <1>3 DEF Crash
  <2>3. \A x \in Job : Streamed(x)' <=> Streamed(x)
    BY <2>1 DEF Streamed
  <2> QED
    BY <1>0, <2>1, <2>2, <2>3 DEF RecordInv
<1>4. ASSUME NEW g \in Gateway, NEW o \in Reply, Claim(g, o) PROVE RecordInv'
  <2>1. UNCHANGED <<record, runs, outcome, evicted, created, stream>>
    BY <1>4 DEF Claim
  <2>2. PICK m \in Job : m = stream[cursor + 1] /\ taskPc[m] = "none"
    BY <1>0, <1>4, NextEntryIsFresh DEF Claim
  <2>3. \A x \in Job : taskPc'[x] = taskPc[x] \/ (x = m /\ taskPc'[x] = "waiting")
    BY <1>0, <1>4, <2>2 DEF Claim, TypeOK
  <2>4. \A x \in Job : Streamed(x)' <=> Streamed(x)
    BY <2>1 DEF Streamed
  <2> QED
    BY <1>0, <2>1, <2>2, <2>3, <2>4 DEF RecordInv
<1>5. ASSUME NEW j \in Job, NEW o \in Reply, TaskStep(j, o) PROVE RecordInv'
  <2>1. UNCHANGED <<evicted, created, stream>>
    BY <1>5 DEF TaskStep, Acquire, read_job, MarkRunning, execute_job, WriteResult, Ack
  <2>2. \A x \in Job : Streamed(x)' <=> Streamed(x)
    BY <2>1 DEF Streamed
  <2>3. \A x \in Job \ {j} : /\ taskPc'[x] = taskPc[x] /\ record'[x] = record[x]
                            /\ runs'[x] = runs[x] /\ outcome'[x] = outcome[x]
    BY <1>0, <1>5 DEF TaskStep, Acquire, read_job, MarkRunning, execute_job, WriteResult,
       Ack, Leave, Goto, write_job, TypeOK
  <2>4. taskPc[j] # "none" => Streamed(j) /\ j \in created
    BY <1>0, DeliveredIsStreamed DEF TaskInv, StreamInv, Streamed
  <2>5. CASE Acquire(j)
    BY <1>0, <2>1, <2>2, <2>3, <2>5 DEF Acquire, RecordInv, TypeOK
  <2>6. CASE read_job(j, o)
    <3>1. UNCHANGED <<record, runs, outcome>>
      BY <2>6 DEF read_job
    <3>2. \/ taskPc'[j] \in {"died", "mark"}
          \/ taskPc'[j] = "ack" /\ record[j] = "none"
      BY <1>0, <2>6 DEF read_job, Leave, Goto, TypeOK
    <3> QED
      BY <1>0, <2>1, <2>2, <2>3, <2>4, <2>6, <3>1, <3>2 DEF RecordInv, read_job
  <2>7. CASE MarkRunning(j, o)
    <3>1. /\ outcome' = outcome /\ record'[j] \in {record[j], "running"}
          /\ \/ taskPc'[j] = "died" /\ runs'[j] = runs[j]
             \/ taskPc'[j] = "execute" /\ runs'[j] = runs[j] + 1
      BY <1>0, <2>7 DEF MarkRunning, Leave, Goto, write_job, TypeOK
    <3>2. runs[j] = 0 /\ record[j] \notin Terminal
      BY <1>0, <2>7 DEF RecordInv, MarkRunning
    <3>3. taskPc[j] = "mark"
      BY <2>7 DEF MarkRunning
    <3> QED
      BY <1>0, <2>1, <2>2, <2>3, <2>4, <3>1, <3>2, <3>3 DEF RecordInv, Terminal
  <2>8. CASE \E s \in Terminal : execute_job(j, s)
    <3>1. taskPc[j] = "execute" /\ taskPc'[j] = "result" /\ UNCHANGED <<record, runs>>
      BY <1>0, <2>8 DEF execute_job, Goto, TypeOK
    <3> QED
      BY <1>0, <2>1, <2>2, <2>3, <3>1 DEF RecordInv
  <2>9. CASE WriteResult(j, o)
    <3>1. /\ taskPc[j] = "result" /\ UNCHANGED <<outcome, runs>>
          /\ \/ taskPc'[j] = "died" /\ record'[j] \in {record[j], outcome[j]}
             \/ taskPc'[j] = "ack" /\ record'[j] = outcome[j]
      BY <1>0, <2>9 DEF WriteResult, Leave, Goto, write_job, TypeOK
    <3>2. outcome[j] \in Terminal
      BY <1>0 DEF TypeOK
    <3> QED
      BY <1>0, <2>1, <2>2, <2>3, <2>4, <3>1, <3>2 DEF RecordInv, Terminal
  <2>10. CASE Ack(j, o)
    <3>1. /\ taskPc[j] = "ack" /\ taskPc'[j] \in {"died", "end"}
          /\ UNCHANGED <<record, outcome, runs>>
      BY <1>0, <2>10 DEF Ack, Leave, TypeOK
    <3> QED
      BY <1>0, <2>1, <2>2, <2>3, <3>1 DEF RecordInv
  <2> QED
    BY <1>5, <2>5, <2>6, <2>7, <2>8, <2>9, <2>10 DEF TaskStep
<1>6. ASSUME NEW j \in Job, Evict(j) PROVE RecordInv'
  <2>1. /\ UNCHANGED <<taskVars, created, stream>> /\ evicted' = evicted \cup {j}
        /\ record'[j] = "none" /\ \A x \in Job \ {j} : record'[x] = record[x]
    BY <1>0, <1>6 DEF Evict, TypeOK
  <2>2. \A x \in Job : Streamed(x)' <=> Streamed(x)
    BY <2>1 DEF Streamed
  <2> QED
    BY <1>0, <2>1, <2>2 DEF RecordInv, Terminal
<1>7. CASE UNCHANGED <<record, taskVars, evicted, created, stream>>
  BY <1>0, <1>7 DEF RecordInv, Streamed
<1> QED
  BY <1>1, <1>2, <1>3, <1>4, <1>5, <1>6, <1>7
  DEF Next, vars, SubmitStep, LoopStep, Submit, SubmitSave, start_fleet_workers,
      stop_fleet_workers, EnsureGroup

\* Entering the semaphore takes the permit that leaving gives back; a process
\* that exits takes its tasks with it.
LEMMA PermitsStep == FleetInv /\ [Next]_vars => PermitsConserved'
<1> USE DEF redisVars, reqVars, procVars, taskVars, Reply, Applied, Raised, RedisCall
<1> SUFFICES ASSUME FleetInv, [Next]_vars PROVE PermitsConserved'
  OBVIOUS
<1>0. TypeOK /\ StreamInv /\ TaskInv /\ PermitsConserved
  BY DEF FleetInv
<1>01. \A g \in Gateway : /\ IsFiniteSet(Holders(g)) /\ Cardinality(Holders(g)) \in Nat
                          /\ permits[g] \in Nat
                          /\ permits[g] + Cardinality(Holders(g)) = FLEET_CONCURRENCY
  <2>1. \A g \in Gateway : IsFiniteSet(Holders(g))
    BY FleetAssumption, FS_Subset DEF Holders
  <2> QED
    BY <1>0, <2>1, FS_CardinalityType DEF TypeOK, PermitsConserved
<1>02. FLEET_CONCURRENCY \in Nat
  BY FleetAssumption
<1>1. ASSUME NEW g \in Gateway, start_fleet_workers(g) PROVE PermitsConserved'
  <2>1. Holders(g) = {}
    BY <1>0, <1>1 DEF start_fleet_workers, Holders, TaskInv, TaskActive
  <2>2. \A x \in Gateway : Holders(x)' = Holders(x)
    BY <1>1 DEF start_fleet_workers, Holders
  <2>3. permits'[g] = FLEET_CONCURRENCY /\ \A x \in Gateway \ {g} : permits'[x] = permits[x]
    BY <1>0, <1>1 DEF start_fleet_workers, TypeOK
  <2> QED
    BY <1>01, <1>02, <2>1, <2>2, <2>3, FS_EmptySet DEF PermitsConserved
<1>2. ASSUME NEW g \in Gateway, Crash(g) PROVE PermitsConserved'
  <2>1. Holders(g)' = {}
    BY <1>0, <1>2 DEF Crash, Holders, TaskActive, Holding
  <2>2. \A x \in Gateway \ {g} : Holders(x)' = Holders(x)
    BY <1>0, <1>2 DEF Crash, Holders, TaskActive, Holding
  <2>3. permits'[g] = FLEET_CONCURRENCY /\ \A x \in Gateway \ {g} : permits'[x] = permits[x]
    BY <1>0, <1>2 DEF Crash, TypeOK
  <2>4. Cardinality(Holders(g)') = 0
    BY <2>1, FS_EmptySet
  <2>5. ASSUME NEW x \in Gateway
        PROVE permits'[x] + Cardinality(Holders(x)') = FLEET_CONCURRENCY
    BY <1>01, <1>02, <2>2, <2>3, <2>4
  <2> QED
    BY <2>5 DEF PermitsConserved
<1>3. ASSUME NEW g \in Gateway, NEW o \in Reply, Claim(g, o) PROVE PermitsConserved'
  <2>1. PICK m \in Job : m = stream[cursor + 1] /\ taskPc[m] = "none"
    BY <1>0, <1>3, NextEntryIsFresh DEF Claim
  <2>2. /\ \A x \in Job \ {m} : taskPc'[x] = taskPc[x] /\ home'[x] = home[x]
        /\ taskPc'[m] \in {"none", "waiting"}
    BY <1>0, <1>3, <2>1 DEF Claim, TypeOK
  <2>3. \A x \in Gateway : Holders(x)' = Holders(x)
    BY <2>1, <2>2 DEF Holders, Holding
  <2> QED
    BY <1>01, <1>3, <2>3 DEF PermitsConserved, Claim
<1>4. ASSUME NEW j \in Job, Acquire(j) PROVE PermitsConserved'
  <2>1. PICK h \in Gateway : h = home[j]
    BY <1>0, <1>4 DEF Acquire, TaskInv, TaskActive
  <2>2. /\ permits'[h] = permits[h] - 1
        /\ \A x \in Gateway \ {h} : permits'[x] = permits[x]
    BY <1>0, <1>4, <2>1 DEF Acquire, TypeOK
  <2>3. j \notin Holders(h) /\ Holders(h)' = Holders(h) \cup {j}
    BY <1>0, <1>4, <2>1 DEF Acquire, Holders, Holding, TypeOK
  <2>4. \A x \in Gateway \ {h} : Holders(x)' = Holders(x)
    BY <1>0, <1>4, <2>1 DEF Acquire, Holders, TypeOK
  <2>5. Cardinality(Holders(h) \cup {j}) = Cardinality(Holders(h)) + 1
    BY <1>01, <2>1, <2>3, FS_AddElement
  <2>6. Cardinality(Holders(h)') = Cardinality(Holders(h) \cup {j})
    BY <2>3
  <2>7. permits'[h] + Cardinality(Holders(h)') = FLEET_CONCURRENCY
    BY <1>01, <2>2, <2>5, <2>6
  <2>8. \A x \in Gateway \ {h} : permits'[x] + Cardinality(Holders(x)') = FLEET_CONCURRENCY
    BY <1>01, <2>2, <2>4
  <2> QED
    BY <2>7, <2>8 DEF PermitsConserved
<1>5. ASSUME NEW j \in Job, taskPc[j] \in Holding, NEW pc \in {"end", "died"}, Leave(j, pc),
             UNCHANGED home
      PROVE PermitsConserved'
  <2>1. PICK h \in Gateway : h = home[j]
    BY <1>0, <1>5 DEF TaskInv, TaskActive
  <2>2. /\ permits'[h] = permits[h] + 1
        /\ \A x \in Gateway \ {h} : permits'[x] = permits[x]
    BY <1>0, <1>5, <2>1 DEF Leave, TypeOK
  <2>3. j \in Holders(h) /\ Holders(h)' = Holders(h) \ {j}
    BY <1>0, <1>5, <2>1 DEF Leave, Holders, Holding, TypeOK
  <2>4. \A x \in Gateway \ {h} : Holders(x)' = Holders(x)
    BY <1>0, <1>5, <2>1 DEF Leave, Holders, TypeOK
  <2>5. Cardinality(Holders(h) \ {j}) = Cardinality(Holders(h)) - 1
    BY <1>01, <2>1, <2>3, FS_RemoveElement
  <2>6. Cardinality(Holders(h)') = Cardinality(Holders(h) \ {j})
    BY <2>3
  <2>7. permits'[h] + Cardinality(Holders(h)') = FLEET_CONCURRENCY
    BY <1>01, <2>2, <2>5, <2>6
  <2>8. \A x \in Gateway \ {h} : permits'[x] + Cardinality(Holders(x)') = FLEET_CONCURRENCY
    BY <1>01, <2>2, <2>4
  <2> QED
    BY <2>7, <2>8 DEF PermitsConserved
<1>6. ASSUME NEW j \in Job, taskPc[j] \in Holding, NEW pc \in Holding, Goto(j, pc),
             UNCHANGED home
      PROVE PermitsConserved'
  <2>1. \A x \in Gateway : Holders(x)' = Holders(x)
    BY <1>0, <1>6 DEF Goto, Holders, TypeOK
  <2> QED
    BY <1>01, <1>6, <2>1 DEF PermitsConserved, Goto
<1>7. ASSUME NEW j \in Job, NEW o \in Reply, TaskStep(j, o) PROVE PermitsConserved'
  <2>1. \/ Acquire(j)
        \/ /\ taskPc[j] \in Holding /\ UNCHANGED home
           /\ \/ \E pc \in {"end", "died"} : Leave(j, pc)
              \/ \E pc \in Holding : Goto(j, pc)
    BY <1>7 DEF TaskStep, read_job, MarkRunning, execute_job, WriteResult, Ack, Holding
  <2> QED
    BY <2>1, <1>4, <1>5, <1>6
<1>8. CASE UNCHANGED <<taskPc, home, permits>>
  BY <1>0, <1>8 DEF PermitsConserved, Holders
<1> QED
  BY <1>1, <1>2, <1>3, <1>7, <1>8
  DEF Next, vars, SubmitStep, LoopStep, Submit, SubmitWrite, SubmitPublish, SubmitSave,
      stop_fleet_workers, EnsureGroup, Evict

\* An entry leaves the pending list only by the XACK of its own task, which has
\* by then seen the final record written (or the record missing).
LEMMA AckedStep == FleetInv /\ [Next]_vars => AckedIsFinal'
<1> USE DEF redisVars, reqVars, procVars, taskVars, Reply, Applied, Raised, RedisCall
<1> SUFFICES ASSUME FleetInv, [Next]_vars, NEW i \in 1..cursor'
             PROVE  stream'[i] \in pel' \cup evicted' \/ record'[stream'[i]] \in Terminal
  BY DEF AckedIsFinal
<1>0. TypeOK /\ StreamInv /\ TaskInv /\ RecordInv /\ AckedIsFinal
  BY DEF FleetInv
<1>01. /\ stream \in Seq(Job) /\ cursor \in Nat /\ cursor <= Len(stream)
       /\ cursor' \in Nat /\ Len(stream) \in Nat
  BY <1>0, TypeStep DEF TypeOK
<1>02. i \in 1..Len(stream) /\ stream'[i] = stream[i]
  BY <1>0, <1>01, StreamGrows
<1>03. PICK m \in Job : m = stream[i] /\ m \in created
  BY <1>0, <1>01, <1>02 DEF StreamInv
<1> SUFFICES m \in pel' \cup evicted' \/ record'[m] \in Terminal
  BY <1>02, <1>03
<1>1. ASSUME NEW g \in Gateway, NEW o \in Reply, Claim(g, o)
      PROVE  m \in pel' \cup evicted' \/ record'[m] \in Terminal
  <2>1. UNCHANGED <<record, evicted>> /\ pel \subseteq pel'
    BY <1>1 DEF Claim
  <2>2. CASE i \in 1..cursor
    BY <1>0, <1>03, <2>1, <2>2 DEF AckedIsFinal
  <2>3. CASE i \notin 1..cursor
    <3>1. i = cursor + 1 /\ cursor' = cursor + 1 /\ pel' = pel \cup {stream[cursor + 1]}
      BY <1>01, <1>1, <2>3 DEF Claim
    <3> QED
      BY <1>03, <3>1
  <2> QED
    BY <2>2, <2>3
<1>2. ASSUME cursor' = cursor
      PROVE  m \in pel \cup evicted \/ record[m] \in Terminal
  BY <1>0, <1>03, <1>2 DEF AckedIsFinal
<1>3. ASSUME NEW r \in Request, NEW j \in Job, NEW o \in Reply, SubmitWrite(r, j, o)
      PROVE  m \in pel' \cup evicted' \/ record'[m] \in Terminal
  <2>1. UNCHANGED <<cursor, pel, evicted>> /\ record'[m] = record[m]
    BY <1>0, <1>03, <1>3 DEF SubmitWrite, write_job, TypeOK
  <2> QED
    BY <1>2, <2>1
<1>4. ASSUME NEW j \in Job, NEW o \in Reply, TaskStep(j, o)
      PROVE  m \in pel' \cup evicted' \/ record'[m] \in Terminal
  <2>1. UNCHANGED <<cursor, evicted>>
    BY <1>4 DEF TaskStep, Acquire, read_job, MarkRunning, execute_job, WriteResult, Ack
  <2>2. CASE m # j
    <3>1. record'[m] = record[m] /\ (m \in pel => m \in pel')
      BY <1>0, <1>4, <2>2 DEF TaskStep, Acquire, read_job, MarkRunning, execute_job,
         WriteResult, Ack, write_job, TypeOK
    <3> QED
      BY <1>2, <2>1, <3>1
  <2>3. CASE m = j /\ Ack(j, o)
    <3>1. UNCHANGED record /\ taskPc[j] = "ack"
      BY <2>3 DEF Ack
    <3> QED
      BY <1>0, <2>1, <2>3, <3>1 DEF RecordInv
  <2>4. CASE m = j /\ ~Ack(j, o)
    <3>1. UNCHANGED pel /\ taskPc[j] \in TaskActive
      BY <1>4, <2>4 DEF TaskStep, Acquire, read_job, MarkRunning, execute_job, WriteResult,
         TaskActive, Holding
    <3> QED
      BY <1>0, <2>4, <3>1 DEF TaskInv
  <2> QED
    BY <2>2, <2>3, <2>4
<1>5. ASSUME NEW j \in Job, Evict(j)
      PROVE  m \in pel' \cup evicted' \/ record'[m] \in Terminal
  <2>1. UNCHANGED <<cursor, pel>> /\ evicted' = evicted \cup {j} /\ (m # j => record'[m] = record[m])
    BY <1>0, <1>5 DEF Evict, TypeOK
  <2> QED
    BY <1>2, <2>1
<1>6. CASE UNCHANGED <<cursor, pel, evicted, record>>
  BY <1>2, <1>6
<1> QED
  BY <1>1, <1>3, <1>4, <1>5, <1>6
  DEF Next, vars, SubmitStep, LoopStep, Submit, SubmitPublish, SubmitSave,
      start_fleet_workers, stop_fleet_workers, Crash, EnsureGroup

\* Without faults a job moves from coroutine to stream to task to final record.
LEMMA StrandedStep == FleetInv /\ [Next]_vars => NothingStranded'
<1> USE DEF redisVars, reqVars, procVars, taskVars, Reply, Applied, Raised, RedisCall
<1> SUFFICES ASSUME FleetInv, [Next]_vars, faults' = 0, crashes' = 0, NEW j \in created'
             PROVE  \/ record'[j] \in Terminal
                    \/ j \in evicted'
                    \/ \E r \in Request : reqPc'[r] = "publish" /\ cur'[r] = j
                    \/ \E i \in cursor' + 1..Len(stream') : stream'[i] = j
                    \/ taskPc'[j] \in TaskActive
  BY DEF NothingStranded
<1> DEFINE Goal == \/ record'[j] \in Terminal
                   \/ j \in evicted'
                   \/ \E r \in Request : reqPc'[r] = "publish" /\ cur'[r] = j
                   \/ \E i \in cursor' + 1..Len(stream') : stream'[i] = j
                   \/ taskPc'[j] \in TaskActive
<1>0. TypeOK /\ StreamInv /\ TaskInv /\ RecordInv /\ NothingStranded
  BY DEF FleetInv
<1>01. /\ stream \in Seq(Job) /\ cursor \in Nat /\ Len(stream) \in Nat /\ cursor <= Len(stream)
       /\ j \in Job /\ faults \in Nat /\ crashes \in Nat
  BY <1>0, TypeStep, FleetAssumption DEF TypeOK
<1>02. ASSUME faults = 0, crashes = 0, j \in created
       PROVE  \/ record[j] \in Terminal
              \/ j \in evicted
              \/ \E r \in Request : reqPc[r] = "publish" /\ cur[r] = j
              \/ \E i \in cursor + 1..Len(stream) : stream[i] = j
              \/ taskPc[j] \in TaskActive
  BY <1>0, <1>02 DEF NothingStranded
<1>1. ASSUME NEW r \in Request, NEW g \in Gateway, Submit(r, g) PROVE Goal
  <2>1. UNCHANGED <<redisVars, created, cur, taskVars, faults, crashes>>
    BY <1>1 DEF Submit
  <2>2. \A q \in Request : reqPc[q] = "publish" => reqPc'[q] = "publish"
    BY <1>0, <1>1 DEF Submit, TypeOK
  <2> QED
    BY <1>02, <2>1, <2>2
<1>2. ASSUME NEW r \in Request, NEW k \in Job, NEW o \in Reply, SubmitWrite(r, k, o) PROVE Goal
  <2>1. /\ o = "ok" /\ faults = 0 /\ crashes = 0
        /\ UNCHANGED <<stream, cursor, pel, evicted, taskVars>>
        /\ created' = created \cup {k}
    BY <1>01, <1>2 DEF SubmitWrite
  <2>2. reqPc'[r] = "publish" /\ cur'[r] = k
    BY <1>0, <1>2, <2>1 DEF SubmitWrite, TypeOK
  <2>3. \A q \in Request : reqPc[q] = "publish" => reqPc'[q] = "publish" /\ cur'[q] = cur[q]
    BY <1>0, <1>2, <2>1 DEF SubmitWrite, TypeOK
  <2>4. j # k => record'[j] = record[j] /\ j \in created
    BY <1>0, <1>01, <1>2, <2>1 DEF SubmitWrite, write_job, TypeOK
  <2> QED
    BY <1>02, <2>1, <2>2, <2>3, <2>4
<1>3. ASSUME NEW r \in Request, NEW o \in Reply, SubmitPublish(r, o) PROVE Goal
  <2>1. /\ o = "ok" /\ faults = 0 /\ crashes = 0
        /\ UNCHANGED <<record, cursor, pel, evicted, cur, created, taskVars>>
        /\ stream' = Append(stream, cur[r]) /\ cur[r] \in Job
    BY <1>0, <1>01, <1>3 DEF SubmitPublish, TypeOK
  <2>2. /\ Len(stream') = Len(stream) + 1 /\ stream'[Len(stream) + 1] = cur[r]
        /\ \A i \in 1..Len(stream) : stream'[i] = stream[i]
    BY <1>01, <2>1
  <2>3. \A q \in Request \ {r} : reqPc'[q] = reqPc[q]
    BY <1>0, <1>3 DEF SubmitPublish, TypeOK
  <2>4. CASE j = cur[r]
    BY <1>01, <2>1, <2>2, <2>4
  <2>5. CASE j # cur[r]
    BY <1>01, <1>02, <2>1, <2>2, <2>3, <2>5
  <2> QED
    BY <2>4, <2>5
<1>4. ASSUME NEW r \in Batch, NEW o \in Reply, SubmitSave(r, o) PROVE Goal
  <2>1. /\ faults = 0 /\ crashes = 0
        /\ UNCHANGED <<record, stream, cursor, pel, evicted, cur, created, taskVars>>
    BY <1>01, <1>4 DEF SubmitSave
  <2>2. \A q \in Request : reqPc[q] = "publish" => reqPc'[q] = "publish"
    BY <1>0, <1>4, FleetAssumption DEF SubmitSave, TypeOK
  <2> QED
    BY <1>02, <2>1, <2>2
<1>5. ASSUME NEW g \in Gateway, NEW o \in Reply, Claim(g, o) PROVE Goal
  <2>1. /\ o = "ok" /\ faults = 0 /\ crashes = 0 /\ cursor' = cursor + 1
        /\ UNCHANGED <<record, stream, evicted, reqPc, cur, created>>
        /\ taskPc' = [taskPc EXCEPT ![stream[cursor + 1]] = "waiting"]
        /\ cursor < Len(stream)
    BY <1>01, <1>5 DEF Claim
  <2>2. CASE j = stream[cursor + 1]
    BY <1>0, <1>01, <2>1, <2>2 DEF TypeOK, TaskActive
  <2>3. CASE j # stream[cursor + 1]
    <3>1. taskPc'[j] = taskPc[j]
      BY <1>0, <1>01, <2>1, <2>3 DEF TypeOK
    <3>2. \A i \in cursor + 1..Len(stream) : stream[i] = j => i \in cursor' + 1..Len(stream')
      BY <1>01, <2>1, <2>3
    <3> QED
      BY <1>02, <2>1, <3>1, <3>2
  <2> QED
    BY <2>2, <2>3
<1>6. ASSUME NEW k \in Job, NEW o \in Reply, TaskStep(k, o) PROVE Goal
  <2>1. /\ faults = 0 /\ crashes = 0 /\ o = "ok"
        /\ UNCHANGED <<stream, cursor, evicted, reqPc, cur, created>>
    BY <1>01, <1>6 DEF TaskStep, Acquire, read_job, MarkRunning, execute_job, WriteResult, Ack
  <2>2. CASE j # k
    <3>1. record'[j] = record[j] /\ taskPc'[j] = taskPc[j]
      BY <1>0, <1>01, <1>6, <2>2 DEF TaskStep, Acquire, read_job, MarkRunning, execute_job,
         WriteResult, Ack, Leave, Goto, write_job, TypeOK
    <3> QED
      BY <1>02, <2>1, <3>1
  <2>3. CASE j = k /\ taskPc[j] = "ack"
    <3>1. Ack(j, o) /\ UNCHANGED record
      BY <1>6, <2>3 DEF TaskStep, Acquire, read_job, MarkRunning, execute_job, WriteResult, Ack
    <3> QED
      BY <1>0, <1>01, <2>1, <2>3, <3>1 DEF RecordInv
  <2>4. CASE j = k /\ taskPc[j] # "ack"
    <3>1. taskPc'[j] \in TaskActive
      BY <1>0, <1>01, <1>6, <2>1, <2>4 DEF TaskStep, Acquire, read_job, MarkRunning,
         execute_job, WriteResult, Ack, Goto, TypeOK, TaskActive, Holding
    <3> QED
      BY <3>1
  <2> QED
    BY <2>2, <2>3, <2>4
<1>7. ASSUME NEW k \in Job, Evict(k) PROVE Goal
  <2>1. /\ UNCHANGED <<stream, cursor, reqPc, cur, created, taskVars, faults, crashes>>
        /\ evicted' = evicted \cup {k}
        /\ j # k => record'[j] = record[j]
    BY <1>0, <1>01, <1>7 DEF Evict, TypeOK
  <2> QED
    BY <1>02, <2>1
<1>8. ASSUME NEW g \in Gateway, Crash(g) PROVE Goal
  BY <1>01, <1>8 DEF Crash
<1>9. CASE /\ UNCHANGED <<record, stream, cursor, evicted, reqPc, cur, created, taskPc, crashes>>
           /\ faults' = 0 => faults = 0
  BY <1>02, <1>9
<1> QED
  <2>1. ASSUME NEW g \in Gateway, NEW o \in Reply, EnsureGroup(g, o) PROVE Goal
    BY <1>01, <1>9, <2>1 DEF EnsureGroup
  <2>2. CASE UNCHANGED vars
    BY <1>9, <2>2 DEF vars
  <2>3. ASSUME NEW g \in Gateway, start_fleet_workers(g) \/ stop_fleet_workers(g) PROVE Goal
    BY <1>9, <2>3 DEF start_fleet_workers, stop_fleet_workers
  <2> QED
    BY <1>1, <1>2, <1>3, <1>4, <1>5, <1>6, <1>7, <1>8, <2>1, <2>2, <2>3
    DEF Next, SubmitStep, LoopStep

-----------------------------------------------------------------------------
\* The empty Redis and the stopped processes satisfy the invariant.
LEMMA FleetInit == Init => FleetInv
<1> SUFFICES ASSUME Init PROVE FleetInv
  OBVIOUS
<1> USE FleetAssumption DEF Init
<1>0. Len(<<>>) = 0 /\ 1..0 = {}
  OBVIOUS
<1>1. TypeOK
  BY DEF TypeOK, Status, Terminal, ReqActive, TaskActive, Holding
<1>2. StreamInv /\ SubmitInv
  BY <1>0 DEF StreamInv, SubmitInv
<1>3. TaskInv
  BY DEF TaskInv, TaskActive, Holding
<1>4. RecordInv
  BY <1>0 DEF RecordInv, Terminal, Streamed
<1>5. PermitsConserved
  <2>1. \A g \in Gateway : Holders(g) = {}
    BY DEF Holders, Holding
  <2>2. Cardinality({}) = 0 /\ \A g \in Gateway : permits[g] = FLEET_CONCURRENCY
    BY FS_EmptySet
  <2>3. ASSUME NEW g \in Gateway
        PROVE permits[g] + Cardinality(Holders(g)) = FLEET_CONCURRENCY
    <3>1. Cardinality(Holders(g)) = 0
      BY <2>1, <2>2
    <3>2. permits[g] = FLEET_CONCURRENCY /\ FLEET_CONCURRENCY \in Nat
      BY <2>2
    <3> HIDE DEF Init
    <3> QED
      BY <3>1, <3>2
  <2> QED
    BY <2>3 DEF PermitsConserved
<1>6. AckedIsFinal /\ NothingStranded
  BY <1>0 DEF AckedIsFinal, NothingStranded
<1> QED
  BY <1>1, <1>2, <1>3, <1>4, <1>5, <1>6 DEF FleetInv

\* FleetInv is an invariant of the fleet runtime: it holds initially and every
\* step of a coroutine, a worker loop, a crash or an eviction preserves it.
THEOREM FleetInvariant == Spec => []FleetInv
<1>1. FleetInv /\ [Next]_vars => FleetInv'
  BY TypeStep, StreamStep, SubmitInvStep, TaskInvStep, RecordInvStep, PermitsStep,
     AckedStep, StrandedStep DEF FleetInv
<1> QED
  BY FleetInit, <1>1, PTL DEF Spec

\* Every reachable state is well typed, for every instance of the constants.
THEOREM TypeCorrect == Spec => []TypeOK
<1>1. FleetInv => TypeOK
  BY DEF FleetInv
<1> QED
  BY FleetInvariant, <1>1, PTL

\* No sequence of claims, Redis errors and crashes leaks a semaphore permit or
\* lets more than FLEET_CONCURRENCY jobs of one process run (fleet.py:167).
THEOREM ConcurrencyIsBounded == Spec => []PermitsConserved
<1>1. FleetInv => PermitsConserved
  BY DEF FleetInv
<1> QED
  BY FleetInvariant, <1>1, PTL

\* The worker acknowledges a message only once its outcome is stored
\* (fleet.py:202-203), whatever fails or crashes in between.
THEOREM AckAfterOutcome == Spec => []AckedIsFinal
<1>1. FleetInv => AckedIsFinal
  BY DEF FleetInv
<1> QED
  BY FleetInvariant, <1>1, PTL

\* No job's pipeline is started twice, by any number of replicas and restarts.
THEOREM AtMostOnceExecution == Spec => []ExecutedAtMostOnce
<1>1. FleetInv => ExecutedAtMostOnce
  BY DEF FleetInv, RecordInv, ExecutedAtMostOnce
<1> QED
  BY FleetInvariant, <1>1, PTL

\* A status of done or failed is the outcome of the one execution of the job.
THEOREM ResultsAreComputed == Spec => []ResultWasComputed
<1>1. FleetInv => ResultWasComputed
  BY DEF FleetInv, RecordInv, TaskInv, Delivered, ResultWasComputed
<1> QED
  BY FleetInvariant, <1>1, PTL

\* Job ids handed to clients, alone or in a stored batch, name recorded jobs.
THEOREM RepliesBacked == Spec => []RepliesAreBacked
<1>1. FleetInv => RepliesAreBacked
  <2> SUFFICES ASSUME FleetInv PROVE RepliesAreBacked
    OBVIOUS
  <2>1. SubmitInv /\ Batch \subseteq Request
    BY FleetAssumption DEF FleetInv
  <2> QED
    <3>1. ASSUME NEW b \in Batch, batch[b] # Nil
          PROVE  /\ Len(batch[b]) = Size[b]
                 /\ \A i, k \in 1..Len(batch[b]) : batch[b][i] = batch[b][k] => i = k
      BY <2>1, <3>1 DEF SubmitInv
    <3>2. \A r \in Request : \A i \in 1..Len(ids[r]) :
             ids[r][i] \in evicted \/ record[ids[r][i]] # "none"
      BY <2>1 DEF SubmitInv
    <3> QED
      BY <3>1, <3>2 DEF RepliesAreBacked
<1> QED
  BY FleetInvariant, <1>1, PTL

\* Without Redis errors and process exits no accepted job is ever lost track of.
THEOREM NoStranding == Spec => []NothingStranded
<1>1. FleetInv => NothingStranded
  BY DEF FleetInv
<1> QED
  BY FleetInvariant, <1>1, PTL

-----------------------------------------------------------------------------
(* The fleet runtime implements JobLife: every step of a coroutine, of a   *)
(* worker loop, of a task or of the environment is a step of a job's life, *)
(* a failure that leads jobs astray, or no step at all.                    *)

\* What is left of a step for a client to see.
LifeStep == [Promise!Next]_(Promise!vars)

\* A failed call or a process exit that leads the jobs of a set astray.
LEMMA FailIsAStep ==
    ASSUME NEW astray \in SUBSET Job, NEW marked \in SUBSET astray,
           Promise!Fail(astray, marked)
    PROVE  LifeStep
BY DEF LifeStep, Promise!Next

\* A failed call that leads no job astray.
LEMMA FailedForNobody ==
    ASSUME life' = life, UNCHANGED <<record, outcome, evicted>>,
           faults' + crashes' = faults + crashes + 1, TypeOK
    PROVE  LifeStep
<1>1. life = [j \in Job |-> life[j]] /\ record = [j \in Job |-> record[j]]
  BY DEF life, TypeOK
<1>2. Promise!Fail({}, {})
  BY <1>1 DEF Promise!Fail
<1> QED
  BY <1>2, FailIsAStep

\* A delivered job is neither ahead of the group's cursor nor about to be published.
LEMMA DeliveredIsBehind ==
    ASSUME TypeOK, StreamInv, NEW j, Delivered(j)
    PROVE  ~Ahead(j) /\ ~Publishing(j) /\ j \in created
<1>1. PICK i \in 1..cursor : stream[i] = j
  BY DEF Delivered
<1>2. i \in 1..Len(stream) /\ cursor \in Nat /\ Len(stream) \in Nat /\ i <= cursor
  BY <1>1 DEF TypeOK
<1>3. ~Ahead(j)
  <2> SUFFICES ASSUME NEW k \in cursor + 1..Len(stream), stream[k] = j PROVE FALSE
    BY DEF Ahead
  <2>1. k \in 1..Len(stream) /\ k # i
    BY <1>2
  <2> QED
    BY <2>1, <1>1, <1>2 DEF StreamInv
<1>4. Streamed(j) /\ j \in created
  BY <1>1, <1>2 DEF Streamed, StreamInv
<1> QED
  BY <1>3, <1>4 DEF Publishing, StreamInv

\* Where the life of a job is once its task is at pc and its record says s.
After(s, pc) ==
    IF s \in Terminal THEN "settled"
    ELSE IF pc = "execute" THEN "running"
    ELSE IF pc = "result" THEN "computed"
    ELSE IF pc \in {"waiting", "read", "mark"} THEN "queued" ELSE "lost"

\* The life of a job that has a task depends on the task and the record only.
LEMMA TaskLife ==
    ASSUME TypeOK, StreamInv, TaskInv, NEW j \in Job, taskPc[j] # "none"
    PROVE  j \in created /\ life[j] = After(record[j], taskPc[j])
<1>1. ~Ahead(j) /\ ~Publishing(j) /\ j \in created
  BY DeliveredIsBehind DEF TaskInv
<1> QED
  BY <1>1 DEF life, After, OnItsWay

\* A step of one task moves the life of its own job only.
LEMMA TaskMoves ==
    ASSUME TypeOK, StreamInv, TaskInv, NEW j \in Job, taskPc[j] # "none",
           NEW pc \in TaskActive \cup {"end", "died"},
           taskPc' = [taskPc EXCEPT ![j] = pc],
           NEW s, record' = [record EXCEPT ![j] = s],
           UNCHANGED <<created, stream, cursor, reqPc, cur>>
    PROVE  life' = [life EXCEPT ![j] = After(s, pc)]
<1>1. ~Ahead(j) /\ ~Publishing(j) /\ j \in created
  BY DeliveredIsBehind DEF TaskInv
<1>2. taskPc'[j] = pc /\ record'[j] = s
  BY DEF TypeOK
<1>3. ASSUME NEW k \in Job, k # j PROVE taskPc'[k] = taskPc[k] /\ record'[k] = record[k]
  BY <1>3 DEF TypeOK
<1>4. \A k \in Job : Ahead(k)' = Ahead(k) /\ Publishing(k)' = Publishing(k)
  BY DEF Ahead, Publishing
<1>5. life'[j] = After(s, pc)
  BY <1>1, <1>2, <1>4 DEF life, OnItsWay, After
<1>6. ASSUME NEW k \in Job, k # j PROVE life'[k] = life[k]
  BY <1>3, <1>4, <1>6 DEF life, OnItsWay
<1> QED
  BY <1>5, <1>6 DEF life

-----------------------------------------------------------------------------
(* Submission.                                                              *)

\* Nothing is lost from view while a coroutine moves between positions that are not
\* "publish".
LEMMA SameLife ==
    ASSUME UNCHANGED <<created, record, taskPc, stream, cursor, cur>>,
           \A r \in Request : reqPc'[r] = "publish" <=> reqPc[r] = "publish"
    PROVE  life' = life
<1>1. \A k : Ahead(k)' = Ahead(k) /\ Publishing(k)' = Publishing(k)
  BY DEF Ahead, Publishing
<1> QED
  BY <1>1 DEF life, OnItsWay

\* A request that arrives, and one whose batch is stored, change no job.
LEMMA SubmitLife ==
    ASSUME FleetInv, NEW r \in Request,
           \/ \E g \in Gateway : Submit(r, g)
           \/ \E o \in Reply : SubmitSave(r, o)
    PROVE  LifeStep
<1>0. TypeOK
  BY DEF FleetInv
<1>1. ASSUME NEW g \in Gateway, Submit(r, g) PROVE LifeStep
  <2>1. \A q \in Request : reqPc'[q] = "publish" <=> reqPc[q] = "publish"
    BY <1>0, <1>1 DEF Submit, Proceed, TypeOK
  <2>2. life' = life
    BY <1>1, <2>1, SameLife DEF Submit, redisVars, taskVars
  <2> QED
    BY <1>1, <2>2 DEF LifeStep, Promise!vars, Submit, redisVars, taskVars
<1>2. ASSUME NEW o \in Reply, SubmitSave(r, o) PROVE LifeStep
  <2>1. \A q \in Request : reqPc'[q] = "publish" <=> reqPc[q] = "publish"
    BY <1>0, <1>2 DEF SubmitSave, TypeOK
  <2>2. life' = life
    BY <1>2, <2>1, SameLife DEF SubmitSave, taskVars
  <2>3. CASE ~Raised(o)
    BY <1>2, <2>2, <2>3 DEF LifeStep, Promise!vars, SubmitSave, taskVars, RedisCall
  <2>4. CASE Raised(o)
    <3>1. faults' + crashes' = faults + crashes + 1
      BY <1>0, <1>2, <2>4 DEF SubmitSave, RedisCall, TypeOK
    <3> QED
      BY <1>0, <1>2, <2>2, <3>1, FailedForNobody DEF SubmitSave, taskVars
  <2> QED
    BY <2>3, <2>4
<1> QED
  BY <1>1, <1>2

\* Writing the first record accepts the job, or loses it with the call.
LEMMA WriteLife ==
    ASSUME FleetInv, NEW r \in Request, NEW j \in Job, NEW o \in Reply, SubmitWrite(r, j, o)
    PROVE  LifeStep
<1>0. TypeOK /\ StreamInv /\ TaskInv /\ RecordInv
  BY DEF FleetInv
<1>1. ~Ahead(j) /\ ~Publishing(j) /\ taskPc[j] = "none" /\ record[j] = "none" /\ j \notin created
  <2>1. j \notin created
    BY DEF SubmitWrite
  <2>2. ~Ahead(j)
    BY <1>0, <2>1 DEF Ahead, StreamInv, TypeOK
  <2>3. ~Delivered(j)
    BY <1>0, <2>1, DeliveredIsBehind
  <2> QED
    BY <1>0, <2>1, <2>2, <2>3 DEF Publishing, StreamInv, TaskInv, RecordInv
<1>2. /\ created' = created \cup {j} /\ cur' = [cur EXCEPT ![r] = j] /\ reqPc[r] = "write"
      /\ reqPc' = [reqPc EXCEPT ![r] = IF Raised(o) THEN "error" ELSE "publish"]
      /\ UNCHANGED <<taskPc, stream, cursor, outcome, evicted, crashes>>
  BY DEF SubmitWrite, taskVars
<1>3. \A k : Ahead(k)' = Ahead(k)
  BY <1>2 DEF Ahead
<1>4. ASSUME NEW k \in Job, k # j PROVE life'[k] = life[k]
  <2>1. Publishing(k)' = Publishing(k)
    BY <1>0, <1>2, <1>4 DEF Publishing, TypeOK
  <2>2. record'[k] = record[k]
    BY <1>0, <1>4 DEF SubmitWrite, write_job, TypeOK
  <2> QED
    BY <1>2, <1>3, <1>4, <2>1, <2>2 DEF life, OnItsWay
<1>5. life[j] = "unborn"
  BY <1>1 DEF life
<1>6. CASE ~Raised(o)
  <2>1. record' = [record EXCEPT ![j] = "pending"] /\ faults' = faults
    BY <1>6 DEF SubmitWrite, write_job, RedisCall, Applied, Raised
  <2>2. Publishing(j)'
    BY <1>0, <1>2, <1>6 DEF Publishing, TypeOK
  <2>3. life'[j] = "queued"
    BY <1>0, <1>1, <1>2, <2>1, <2>2 DEF life, OnItsWay, TypeOK, Terminal
  <2>4. life' = [life EXCEPT ![j] = "queued"]
    BY <1>4, <2>3 DEF life
  <2>5. Promise!Accept(j)
    BY <1>2, <1>5, <2>1, <2>4 DEF Promise!Accept, Promise!Becomes
  <2> QED
    BY <2>5 DEF LifeStep, Promise!Next
<1>7. CASE Raised(o)
  <2> DEFINE marked == IF Applied(o) THEN {j} ELSE {}
  <2>1. record' = IF Applied(o) THEN [record EXCEPT ![j] = "pending"] ELSE record
    BY DEF SubmitWrite, write_job
  <2>2. faults' + crashes' = faults + crashes + 1
    BY <1>0, <1>2, <1>7 DEF SubmitWrite, RedisCall, TypeOK
  <2>3. ~Publishing(j)'
    <3> SUFFICES ASSUME NEW q \in Request, reqPc'[q] = "publish", cur'[q] = j PROVE FALSE
      BY DEF Publishing
    <3>1. q # r /\ reqPc[q] = "publish" /\ cur[q] = j
      BY <1>0, <1>2, <1>7 DEF TypeOK
    <3> QED
      BY <1>1, <3>1 DEF Publishing
  <2>4. record'[j] \in {"none", "pending"}
    BY <1>0, <1>1, <2>1 DEF TypeOK
  <2>5. life'[j] = "lost"
    BY <1>1, <1>2, <1>3, <2>3, <2>4 DEF life, OnItsWay, Terminal
  <2>6. life' = [k \in Job |-> IF k \in {j} THEN "lost" ELSE life[k]]
    BY <1>4, <2>5 DEF life
  <2>7. record' = [k \in Job |-> IF k \notin marked THEN record[k]
                                 ELSE IF life[k] = "unborn" THEN "pending" ELSE "running"]
    BY <1>0, <1>5, <2>1 DEF TypeOK
  <2>8. Promise!Fail({j}, marked)
    BY <1>2, <1>5, <2>2, <2>6, <2>7 DEF Promise!Fail
  <2> QED
    BY <2>8, FailIsAStep
<1> QED
  BY <1>6, <1>7

\* A job that is published stays queued; one whose request is lost goes astray.
LEMMA PublishLife ==
    ASSUME FleetInv, NEW r \in Request, NEW o \in Reply, SubmitPublish(r, o)
    PROVE  LifeStep
<1> DEFINE j == cur[r]
<1>0. TypeOK /\ StreamInv /\ TaskInv /\ RecordInv
  BY DEF FleetInv
<1>1. /\ reqPc[r] = "publish" /\ reqPc' = [reqPc EXCEPT ![r] = Proceed(r, Len(ids[r]) + 1)]
      /\ UNCHANGED <<created, record, cur, taskPc, cursor, outcome, evicted, crashes>>
      /\ stream' = IF Applied(o) THEN Append(stream, j) ELSE stream
  BY DEF SubmitPublish, taskVars
<1>2. j \in Job /\ j \in created /\ ~Streamed(j) /\ Publishing(j)
  BY <1>0, <1>1 DEF TypeOK, StreamInv, Publishing
<1>3. taskPc[j] = "none" /\ ~Ahead(j)
  <2>1. ~Delivered(j)
    BY <1>0, <1>2 DEF Delivered, Streamed, TypeOK
  <2>2. ~Ahead(j)
    BY <1>0, <1>2 DEF Ahead, Streamed, TypeOK
  <2> QED
    BY <1>0, <1>2, <2>1, <2>2 DEF TaskInv
<1>4. life[j] = "queued"
  BY <1>0, <1>2, <1>3 DEF life, OnItsWay, RecordInv
<1>5. reqPc'[r] # "publish"
  BY <1>0, <1>1 DEF TypeOK, Proceed
<1>6. ASSUME NEW k \in Job, k # j PROVE Publishing(k)' = Publishing(k)
  BY <1>0, <1>1, <1>5, <1>6 DEF Publishing, TypeOK
<1>7. CASE Applied(o)
  <2>1. /\ Len(stream') = Len(stream) + 1 /\ stream'[Len(stream) + 1] = j
        /\ \A i \in 1..Len(stream) : stream'[i] = stream[i]
    BY <1>0, <1>1, <1>2, <1>7 DEF TypeOK
  <2>2. cursor \in 0..Len(stream) /\ Len(stream) \in Nat
    BY <1>0 DEF TypeOK
  <2>3. Ahead(j)'
    BY <1>1, <2>1, <2>2 DEF Ahead
  <2>4. ASSUME NEW k \in Job, k # j PROVE Ahead(k)' = Ahead(k)
    <3>1. ASSUME Ahead(k) PROVE Ahead(k)'
      BY <1>1, <2>1, <2>2, <3>1 DEF Ahead
    <3>2. ASSUME Ahead(k)' PROVE Ahead(k)
      BY <1>1, <2>1, <2>2, <2>4, <3>2 DEF Ahead
    <3> QED
      BY <3>1, <3>2 DEF Ahead
  <2>5. life'[j] = life[j]
    BY <1>1, <1>2, <1>3, <2>3 DEF life, OnItsWay
  <2>6. ASSUME NEW k \in Job, k # j PROVE life'[k] = life[k]
    BY <1>1, <1>6, <2>4, <2>6 DEF life, OnItsWay
  <2>7. life' = life
    BY <2>5, <2>6 DEF life
  <2>8. CASE ~Raised(o)
    BY <1>1, <2>7, <2>8 DEF LifeStep, Promise!vars, SubmitPublish, RedisCall
  <2>9. CASE Raised(o)
    <3>1. faults' + crashes' = faults + crashes + 1
      BY <1>0, <1>1, <2>9 DEF SubmitPublish, RedisCall, TypeOK
    <3> QED
      BY <1>0, <1>1, <2>7, <3>1, FailedForNobody
  <2> QED
    BY <2>8, <2>9
<1>8. CASE ~Applied(o)
  <2>1. faults' + crashes' = faults + crashes + 1
    BY <1>0, <1>1, <1>8 DEF SubmitPublish, RedisCall, TypeOK, Applied, Raised
  <2>2. \A k : Ahead(k)' = Ahead(k)
    BY <1>1, <1>8 DEF Ahead
  <2>3. ~Publishing(j)'
    <3> SUFFICES ASSUME NEW q \in Request, reqPc'[q] = "publish", cur'[q] = j PROVE FALSE
      BY <1>1 DEF Publishing
    <3>1. q # r /\ reqPc[q] = "publish" /\ cur[q] = j
      BY <1>0, <1>1, <1>5 DEF TypeOK
    <3> QED
      BY <1>0, <1>1, <3>1 DEF StreamInv
  <2>4. life'[j] = "lost"
    BY <1>0, <1>1, <1>2, <1>3, <2>2, <2>3 DEF life, OnItsWay, RecordInv
  <2>5. ASSUME NEW k \in Job, k # j PROVE life'[k] = life[k]
    BY <1>1, <1>6, <2>2, <2>5 DEF life, OnItsWay
  <2>6. life' = [k \in Job |-> IF k \in {j} THEN "lost" ELSE life[k]]
    BY <2>4, <2>5 DEF life
  <2>7. record = [k \in Job |-> record[k]]
    BY <1>0 DEF TypeOK
  <2>8. Promise!Fail({j}, {})
    BY <1>1, <1>4, <2>1, <2>6, <2>7 DEF Promise!Fail
  <2> QED
    BY <1>2, <2>8, FailIsAStep
<1> QED
  BY <1>7, <1>8

-----------------------------------------------------------------------------
(* The worker loops.                                                        *)

\* Starting, stopping and a call of ensure_group change no job.
LEMMA LoopLife ==
    ASSUME FleetInv, NEW g \in Gateway,
           \/ start_fleet_workers(g) \/ stop_fleet_workers(g)
           \/ \E o \in Reply : EnsureGroup(g, o)
    PROVE  LifeStep
<1>0. TypeOK
  BY DEF FleetInv
<1>1. UNCHANGED <<redisVars, reqVars, taskVars>>
  BY DEF start_fleet_workers, stop_fleet_workers, EnsureGroup
<1>2. life' = life
  BY <1>1, SameLife DEF redisVars, reqVars, taskVars
<1>3. CASE faults' = faults /\ crashes' = crashes
  BY <1>1, <1>2, <1>3 DEF LifeStep, Promise!vars, redisVars, taskVars
<1>4. ASSUME NEW o \in Reply, EnsureGroup(g, o), Raised(o) PROVE LifeStep
  <2>1. faults' + crashes' = faults + crashes + 1
    BY <1>0, <1>4 DEF EnsureGroup, RedisCall, TypeOK
  <2> QED
    BY <1>0, <1>1, <1>2, <2>1, FailedForNobody DEF redisVars, taskVars
<1> QED
  BY <1>3, <1>4 DEF start_fleet_workers, stop_fleet_workers, EnsureGroup, RedisCall

\* A claimed job stays queued; one whose claim is answered to nobody goes astray.
LEMMA ClaimLife ==
    ASSUME FleetInv, NEW g \in Gateway, NEW o \in Reply, Claim(g, o)
    PROVE  LifeStep
<1>0. TypeOK /\ StreamInv /\ TaskInv /\ RecordInv
  BY DEF FleetInv
<1>a. PICK j \in Job : j = stream[cursor + 1]
  BY <1>0 DEF Claim, TypeOK
<1>1. /\ cursor < Len(stream) /\ cursor \in Nat /\ Len(stream) \in Nat
      /\ UNCHANGED <<created, record, cur, reqPc, stream, outcome, evicted, crashes>>
      /\ cursor' = IF Applied(o) THEN cursor + 1 ELSE cursor
      /\ taskPc' = IF Raised(o) THEN taskPc ELSE [taskPc EXCEPT ![j] = "waiting"]
  BY <1>0, <1>a DEF Claim, TypeOK, reqVars
<1>2. j \in Job /\ Streamed(j) /\ j \in created /\ Ahead(j) /\ ~Publishing(j)
  <2>1. cursor + 1 \in 1..Len(stream) /\ cursor + 1 \in cursor + 1..Len(stream)
    BY <1>1
  <2>2. Streamed(j) /\ Ahead(j) /\ j \in Job /\ j \in created
    BY <1>0, <1>a, <2>1 DEF Streamed, Ahead, StreamInv, TypeOK
  <2> QED
    BY <1>0, <2>2 DEF StreamInv, Publishing
<1>3. taskPc[j] = "none"
  <2>1. ~Delivered(j)
    BY <1>0, <1>2, DeliveredIsBehind
  <2> QED
    BY <1>0, <1>2, <2>1 DEF TaskInv
<1>4. life[j] = "queued"
  BY <1>0, <1>2, <1>3 DEF life, OnItsWay, RecordInv
<1>5. \A k : Publishing(k)' = Publishing(k)
  BY <1>1 DEF Publishing
<1>6. ASSUME NEW k \in Job, k # j PROVE life'[k] = life[k]
  <2>1. Ahead(k)' = Ahead(k)
    <3>1. ASSUME Ahead(k) PROVE Ahead(k)'
      BY <1>1, <1>a, <1>6, <3>1 DEF Ahead
    <3>2. ASSUME Ahead(k)' PROVE Ahead(k)
      BY <1>1, <3>2 DEF Ahead
    <3> QED
      BY <3>1, <3>2 DEF Ahead
  <2>2. taskPc'[k] = taskPc[k]
    BY <1>0, <1>1, <1>6 DEF TypeOK
  <2> QED
    BY <1>1, <1>5, <1>6, <2>1, <2>2 DEF life, OnItsWay
<1>7. CASE ~Raised(o)
  <2>1. taskPc'[j] = "waiting"
    BY <1>0, <1>1, <1>2, <1>7 DEF TypeOK
  <2>2. life'[j] = life[j]
    BY <1>0, <1>1, <1>2, <1>3, <1>4, <2>1 DEF life, OnItsWay, RecordInv
  <2>3. life' = life
    BY <1>6, <2>2 DEF life
  <2> QED
    BY <1>1, <1>7, <2>3 DEF LifeStep, Promise!vars, Claim, RedisCall
<1>8. CASE Raised(o)
  <2>0. faults' + crashes' = faults + crashes + 1
    BY <1>0, <1>1, <1>8 DEF Claim, RedisCall, TypeOK
  <2>1. CASE ~Applied(o)
    <3>1. \A k : Ahead(k)' = Ahead(k)
      BY <1>1, <2>1 DEF Ahead
    <3>2. life' = life
      BY <1>1, <1>5, <1>8, <3>1 DEF life, OnItsWay
    <3> QED
      BY <1>0, <1>1, <2>0, <3>2, FailedForNobody
  <2>2. CASE Applied(o)
    <3>1. ~Ahead(j)'
      <4> SUFFICES ASSUME NEW i \in cursor' + 1..Len(stream'), stream'[i] = j PROVE FALSE
        BY <1>1 DEF Ahead
      <4>1. i \in 1..Len(stream) /\ i # cursor + 1 /\ stream[i] = j
        BY <1>1, <2>2
      <4> QED
        BY <1>0, <1>a, <1>1, <4>1 DEF StreamInv
    <3>2. life'[j] = "lost"
      BY <1>0, <1>1, <1>2, <1>3, <1>5, <1>8, <3>1 DEF life, OnItsWay, RecordInv
    <3>3. life' = [k \in Job |-> IF k \in {j} THEN "lost" ELSE life[k]]
      BY <1>6, <3>2 DEF life
    <3>4. record = [k \in Job |-> record[k]]
      BY <1>0 DEF TypeOK
    <3>5. Promise!Fail({j}, {})
      BY <1>1, <1>4, <2>0, <3>3, <3>4 DEF Promise!Fail
    <3> QED
      BY <1>2, <3>5, FailIsAStep
  <2> QED
    BY <2>1, <2>2
<1> QED
  BY <1>7, <1>8

-----------------------------------------------------------------------------
(* The tasks of _process_job.                                               *)

\* A step of one task that fails, and loses its job unless it was settled.
LEMMA TaskFails ==
    ASSUME TypeOK, NEW j \in Job, life[j] # "settled",
           NEW marked \in SUBSET {j}, marked # {} => life[j] \in {"unborn", "queued"},
           life' = [life EXCEPT ![j] = "lost"],
           record' = IF marked = {} THEN record ELSE
                     [record EXCEPT ![j] = IF life[j] = "unborn" THEN "pending" ELSE "running"],
           faults' + crashes' = faults + crashes + 1, UNCHANGED <<outcome, evicted>>
    PROVE  LifeStep
<1>1. life' = [k \in Job |-> IF k \in {j} THEN "lost" ELSE life[k]]
  BY DEF life
<1>2. record' = [k \in Job |-> IF k \notin marked THEN record[k]
                               ELSE IF life[k] = "unborn" THEN "pending" ELSE "running"]
  BY DEF TypeOK
<1>3. /\ \A k \in {j} : life[k] # "settled"
      /\ \A k \in marked : life[k] \in {"unborn", "queued"}
  OBVIOUS
<1>4. Promise!Fail({j}, marked)
  BY <1>1, <1>2, <1>3, Zenon DEF Promise!Fail
<1> QED
  BY <1>4, FailIsAStep

\* Taking a permit leaves the job queued.
LEMMA AcquireLife ==
    ASSUME FleetInv, NEW j \in Job, Acquire(j)
    PROVE  LifeStep
<1>0. TypeOK /\ StreamInv /\ TaskInv /\ RecordInv
  BY DEF FleetInv
<1>1. /\ taskPc[j] = "waiting" /\ taskPc' = [taskPc EXCEPT ![j] = "read"]
      /\ UNCHANGED <<redisVars, reqVars, outcome, faults, crashes>>
  BY DEF Acquire
<1>2. record' = [record EXCEPT ![j] = record[j]] /\ UNCHANGED <<created, stream, cursor, reqPc, cur>>
  BY <1>0, <1>1 DEF redisVars, reqVars, TypeOK
<1>3. life' = [life EXCEPT ![j] = After(record[j], "read")]
  <2>1. taskPc[j] # "none" /\ "read" \in TaskActive \cup {"end", "died"}
    BY <1>1 DEF TaskActive, Holding
  <2>2. PICK x, y : x = record[j] /\ y = "read"
    OBVIOUS
  <2>3. /\ y \in TaskActive \cup {"end", "died"} /\ taskPc[j] # "none"
        /\ taskPc' = [taskPc EXCEPT ![j] = y] /\ record' = [record EXCEPT ![j] = x]
    BY <1>1, <1>2, <2>1, <2>2
  <2>4. life' = [life EXCEPT ![j] = After(x, y)]
    BY ONLY j \in Job, <1>0, <1>2, <2>3, TaskMoves
  <2> QED
    BY <2>2, <2>4
<1>4. After(record[j], "read") = life[j]
  BY <1>0, <1>1, TaskLife DEF After
<1>5. life' = life
  BY <1>3, <1>4 DEF life
<1> QED
  BY <1>1, <1>5 DEF LifeStep, Promise!vars, redisVars

\* A job whose record is gone is forgotten; a failed read loses it.
LEMMA ReadLife ==
    ASSUME FleetInv, NEW j \in Job, NEW o \in Reply, read_job(j, o)
    PROVE  LifeStep
<1>0. TypeOK /\ StreamInv /\ TaskInv /\ RecordInv
  BY DEF FleetInv
<1> DEFINE pc == IF Raised(o) THEN "died" ELSE IF record[j] = "none" THEN "ack" ELSE "mark"
<1>1. /\ taskPc[j] = "read" /\ taskPc' = [taskPc EXCEPT ![j] = pc]
      /\ UNCHANGED <<redisVars, reqVars, outcome, crashes>>
  BY DEF read_job, Leave, Goto
<1>2. record' = [record EXCEPT ![j] = record[j]] /\ UNCHANGED <<created, stream, cursor, reqPc, cur>>
  BY <1>0, <1>1 DEF redisVars, reqVars, TypeOK
<1>3. life' = [life EXCEPT ![j] = After(record[j], pc)]
  <2>1. taskPc[j] # "none" /\ pc \in TaskActive \cup {"end", "died"}
    BY <1>1 DEF TaskActive, Holding
  <2> HIDE DEF pc
  <2>2. PICK x, y : x = record[j] /\ y = pc
    OBVIOUS
  <2>3. /\ y \in TaskActive \cup {"end", "died"} /\ taskPc[j] # "none"
        /\ taskPc' = [taskPc EXCEPT ![j] = y] /\ record' = [record EXCEPT ![j] = x]
    BY <1>1, <1>2, <2>1, <2>2
  <2>4. life' = [life EXCEPT ![j] = After(x, y)]
    BY ONLY j \in Job, <1>0, <1>2, <2>3, TaskMoves
  <2> QED
    BY <2>2, <2>4
<1>4. record[j] \notin Terminal /\ life[j] = "queued"
  BY <1>0, <1>1, TaskLife DEF After, RecordInv
<1>5. CASE Raised(o)
  <2>1. life' = [life EXCEPT ![j] = "lost"]
    BY <1>3, <1>4, <1>5 DEF After
  <2>2. faults' + crashes' = faults + crashes + 1
    BY <1>0, <1>1, <1>5 DEF read_job, RedisCall, TypeOK
  <2>3. record' = record /\ UNCHANGED <<outcome, evicted>>
    BY <1>1 DEF redisVars
  <2> QED
    BY <1>0, <1>4, <2>1, <2>2, <2>3, TaskFails
<1>6. CASE ~Raised(o) /\ record[j] = "none"
  <2>1. life' = [life EXCEPT ![j] = "lost"]
    BY <1>3, <1>6 DEF After, Terminal
  <2>2. j \in evicted
    <3>1. Delivered(j)
      BY <1>0, <1>1 DEF TaskInv
    <3>2. Streamed(j)
      BY <1>0, <3>1 DEF Delivered, Streamed, TypeOK
    <3> QED
      BY <1>0, <1>6, <3>2 DEF RecordInv
  <2>3. Promise!Forget(j)
    BY <1>1, <1>4, <1>6, <2>1, <2>2
    DEF Promise!Forget, Promise!Becomes, redisVars, read_job, RedisCall
  <2> QED
    BY <2>3 DEF LifeStep, Promise!Next
<1>7. CASE ~Raised(o) /\ record[j] # "none"
  <2>1. After(record[j], "mark") = "queued"
    BY <1>4 DEF After
  <2>2. life' = life
    BY <1>3, <1>4, <1>7, <2>1 DEF life
  <2> QED
    BY <1>1, <1>7, <2>2 DEF LifeStep, Promise!vars, redisVars, read_job, RedisCall
<1> QED
  BY <1>5, <1>6, <1>7

\* Marking a job as running begins it, or loses it, whether or not the status is seen.
LEMMA MarkLife ==
    ASSUME FleetInv, NEW j \in Job, NEW o \in Reply, MarkRunning(j, o)
    PROVE  LifeStep
<1>0. TypeOK /\ StreamInv /\ TaskInv /\ RecordInv
  BY DEF FleetInv
<1> DEFINE pc == IF Raised(o) THEN "died" ELSE "execute"
           s == IF Applied(o) THEN "running" ELSE record[j]
<1>1. /\ taskPc[j] = "mark" /\ taskPc' = [taskPc EXCEPT ![j] = pc]
      /\ record' = IF Applied(o) THEN [record EXCEPT ![j] = "running"] ELSE record
      /\ UNCHANGED <<stream, cursor, evicted, reqVars, outcome, crashes>>
  BY DEF MarkRunning, Leave, Goto, write_job
<1>2. record' = [record EXCEPT ![j] = s] /\ UNCHANGED <<created, stream, cursor, reqPc, cur>>
  BY <1>0, <1>1 DEF reqVars, TypeOK
<1>3. life' = [life EXCEPT ![j] = After(s, pc)]
  <2>1. taskPc[j] # "none" /\ pc \in TaskActive \cup {"end", "died"}
    BY <1>1 DEF TaskActive, Holding
  <2> HIDE DEF pc, s
  <2>2. PICK x, y : x = s /\ y = pc
    OBVIOUS
  <2>3. /\ y \in TaskActive \cup {"end", "died"} /\ taskPc[j] # "none"
        /\ taskPc' = [taskPc EXCEPT ![j] = y] /\ record' = [record EXCEPT ![j] = x]
    BY <1>1, <1>2, <2>1, <2>2
  <2>4. life' = [life EXCEPT ![j] = After(x, y)]
    BY ONLY j \in Job, <1>0, <1>2, <2>3, TaskMoves
  <2> QED
    BY <2>2, <2>4
<1>4. record[j] \notin Terminal /\ life[j] = "queued"
  BY <1>0, <1>1, TaskLife DEF After, RecordInv
<1>5. s \notin Terminal
  BY <1>4 DEF Terminal
<1>6. CASE Raised(o)
  <2>1. life' = [life EXCEPT ![j] = "lost"]
    BY <1>3, <1>5, <1>6 DEF After
  <2>2. faults' + crashes' = faults + crashes + 1
    BY <1>0, <1>1, <1>6 DEF MarkRunning, RedisCall, TypeOK
  <2>3. CASE Applied(o)
    <3>1. record' = [record EXCEPT ![j] = IF life[j] = "unborn" THEN "pending" ELSE "running"]
      BY <1>1, <1>4, <2>3
    <3> QED
      BY <1>0, <1>1, <1>4, <2>1, <2>2, <3>1, TaskFails
  <2>4. CASE ~Applied(o)
    <3>1. record' = record /\ {} \in SUBSET {j}
      BY <1>1, <2>4
    <3> QED
      BY <1>0, <1>1, <1>4, <2>1, <2>2, <3>1, TaskFails
  <2> QED
    BY <2>3, <2>4
<1>7. CASE ~Raised(o)
  <2>1. record' = [record EXCEPT ![j] = "running"] /\ faults' = faults
    BY <1>1, <1>7 DEF Applied, Raised, MarkRunning, RedisCall
  <2>2. life' = [life EXCEPT ![j] = "running"]
    BY <1>3, <1>5, <1>7 DEF After
  <2>3. Promise!Begin(j)
    BY <1>1, <1>4, <2>1, <2>2 DEF Promise!Begin, Promise!Becomes
  <2> QED
    BY <2>3 DEF LifeStep, Promise!Next
<1> QED
  BY <1>6, <1>7

\* The pipeline's end computes the outcome.
LEMMA ExecuteLife ==
    ASSUME FleetInv, NEW j \in Job, NEW s \in Terminal, execute_job(j, s)
    PROVE  LifeStep
<1>0. TypeOK /\ StreamInv /\ TaskInv /\ RecordInv
  BY DEF FleetInv
<1>1. /\ taskPc[j] = "execute" /\ taskPc' = [taskPc EXCEPT ![j] = "result"]
      /\ outcome' = [outcome EXCEPT ![j] = s]
      /\ UNCHANGED <<redisVars, reqVars, faults, crashes>>
  BY DEF execute_job, Goto
<1>2. record' = [record EXCEPT ![j] = record[j]] /\ UNCHANGED <<created, stream, cursor, reqPc, cur>>
  BY <1>0, <1>1 DEF redisVars, reqVars, TypeOK
<1>3. life' = [life EXCEPT ![j] = After(record[j], "result")]
  <2>1. taskPc[j] # "none" /\ "result" \in TaskActive \cup {"end", "died"}
    BY <1>1 DEF TaskActive, Holding
  <2>2. PICK x, y : x = record[j] /\ y = "result"
    OBVIOUS
  <2>3. /\ y \in TaskActive \cup {"end", "died"} /\ taskPc[j] # "none"
        /\ taskPc' = [taskPc EXCEPT ![j] = y] /\ record' = [record EXCEPT ![j] = x]
    BY <1>1, <1>2, <2>1, <2>2
  <2>4. life' = [life EXCEPT ![j] = After(x, y)]
    BY ONLY j \in Job, <1>0, <1>2, <2>3, TaskMoves
  <2> QED
    BY <2>2, <2>4
<1>4. record[j] \notin Terminal /\ life[j] = "running"
  BY <1>0, <1>1, TaskLife DEF After, RecordInv
<1>5. Promise!Compute(j, s)
  BY <1>1, <1>3, <1>4 DEF Promise!Compute, Promise!Becomes, After, redisVars
<1> QED
  BY <1>5 DEF LifeStep, Promise!Next, Terminal

\* The write of the outcome settles the job, if only its reply is lost; otherwise the
\* job is lost.
LEMMA ResultLife ==
    ASSUME FleetInv, NEW j \in Job, NEW o \in Reply, WriteResult(j, o)
    PROVE  LifeStep
<1>0. TypeOK /\ StreamInv /\ TaskInv /\ RecordInv
  BY DEF FleetInv
<1> DEFINE pc == IF Raised(o) THEN "died" ELSE "ack"
           s == IF Applied(o) THEN outcome[j] ELSE record[j]
<1>1. /\ taskPc[j] = "result" /\ taskPc' = [taskPc EXCEPT ![j] = pc]
      /\ record' = IF Applied(o) THEN [record EXCEPT ![j] = outcome[j]] ELSE record
      /\ UNCHANGED <<stream, cursor, evicted, reqVars, outcome, crashes>>
  BY DEF WriteResult, Leave, Goto, write_job
<1>2. record' = [record EXCEPT ![j] = s] /\ UNCHANGED <<created, stream, cursor, reqPc, cur>>
  BY <1>0, <1>1 DEF reqVars, TypeOK
<1>3. life' = [life EXCEPT ![j] = After(s, pc)]
  <2>1. taskPc[j] # "none" /\ pc \in TaskActive \cup {"end", "died"}
    BY <1>1 DEF TaskActive, Holding
  <2> HIDE DEF pc, s
  <2>2. PICK x, y : x = s /\ y = pc
    OBVIOUS
  <2>3. /\ y \in TaskActive \cup {"end", "died"} /\ taskPc[j] # "none"
        /\ taskPc' = [taskPc EXCEPT ![j] = y] /\ record' = [record EXCEPT ![j] = x]
    BY <1>1, <1>2, <2>1, <2>2
  <2>4. life' = [life EXCEPT ![j] = After(x, y)]
    BY ONLY j \in Job, <1>0, <1>2, <2>3, TaskMoves
  <2> QED
    BY <2>2, <2>4
<1>4. record[j] \notin Terminal /\ life[j] = "computed" /\ outcome[j] \in Terminal
  BY <1>0, <1>1, TaskLife DEF After, RecordInv, TypeOK
<1>5. CASE Applied(o)
  <2>1. life' = [life EXCEPT ![j] = "settled"]
    BY <1>3, <1>4, <1>5 DEF After
  <2>2. faults' + crashes' \in {faults + crashes, faults + crashes + 1}
    BY <1>0, <1>1 DEF WriteResult, RedisCall, TypeOK
  <2>3. Promise!Settle(j)
    BY <1>1, <1>4, <1>5, <2>1, <2>2 DEF Promise!Settle, Promise!Becomes
  <2> QED
    BY <2>3 DEF LifeStep, Promise!Next
<1>6. CASE ~Applied(o)
  <2>1. Raised(o)
    BY <1>6 DEF Applied, Raised
  <2>2. life' = [life EXCEPT ![j] = "lost"]
    BY <1>3, <1>4, <1>6, <2>1 DEF After
  <2>3. faults' + crashes' = faults + crashes + 1
    BY <1>0, <1>1, <2>1 DEF WriteResult, RedisCall, TypeOK
  <2> QED
    BY <1>0, <1>1, <1>4, <1>6, <2>2, <2>3, TaskFails
<1> QED
  BY <1>5, <1>6

\* An acknowledgement, answered or not, changes no job.
LEMMA AckLife ==
    ASSUME FleetInv, NEW j \in Job, NEW o \in Reply, Ack(j, o)
    PROVE  LifeStep
<1>0. TypeOK /\ StreamInv /\ TaskInv /\ RecordInv
  BY DEF FleetInv
<1> DEFINE pc == IF Raised(o) THEN "died" ELSE "end"
<1>1. /\ taskPc[j] = "ack" /\ taskPc' = [taskPc EXCEPT ![j] = pc]
      /\ UNCHANGED <<record, stream, cursor, evicted, reqVars, outcome, crashes>>
  BY DEF Ack, Leave
<1>2. record' = [record EXCEPT ![j] = record[j]] /\ UNCHANGED <<created, stream, cursor, reqPc, cur>>
  BY <1>0, <1>1 DEF reqVars, TypeOK
<1>3. life' = [life EXCEPT ![j] = After(record[j], pc)]
  <2>1. taskPc[j] # "none" /\ pc \in TaskActive \cup {"end", "died"}
    BY <1>1 DEF TaskActive, Holding
  <2> HIDE DEF pc
  <2>2. PICK x, y : x = record[j] /\ y = pc
    OBVIOUS
  <2>3. /\ y \in TaskActive \cup {"end", "died"} /\ taskPc[j] # "none"
        /\ taskPc' = [taskPc EXCEPT ![j] = y] /\ record' = [record EXCEPT ![j] = x]
    BY <1>1, <1>2, <2>1, <2>2
  <2>4. life' = [life EXCEPT ![j] = After(x, y)]
    BY ONLY j \in Job, <1>0, <1>2, <2>3, TaskMoves
  <2> QED
    BY <2>2, <2>4
<1>4. After(record[j], pc) = life[j]
  BY <1>0, <1>1, TaskLife DEF After
<1>5. life' = life
  BY <1>3, <1>4 DEF life
<1>6. CASE ~Raised(o)
  BY <1>1, <1>5, <1>6 DEF LifeStep, Promise!vars, Ack, RedisCall
<1>7. CASE Raised(o)
  <2>1. faults' + crashes' = faults + crashes + 1
    BY <1>0, <1>1, <1>7 DEF Ack, RedisCall, TypeOK
  <2> QED
    BY <1>0, <1>1, <1>5, <2>1, FailedForNobody
<1> QED
  BY <1>6, <1>7

-----------------------------------------------------------------------------
(* The environment, and the refinement.                                     *)

\* A process that exits leads astray what it was publishing and its tasks' jobs that
\* are not settled, and no other job.
LEMMA CrashLife ==
    ASSUME FleetInv, NEW g \in Gateway, Crash(g)
    PROVE  LifeStep
<1>0. TypeOK /\ StreamInv /\ TaskInv /\ RecordInv
  BY DEF FleetInv
<1>1. UNCHANGED <<created, record, stream, cursor, cur, evicted, outcome, faults>>
  BY DEF Crash, redisVars
<1>2. \A k \in Job : taskPc'[k] = taskPc[k] \/ (taskPc[k] \in TaskActive /\ taskPc'[k] = "died")
  BY <1>0 DEF Crash
<1>3. \A k : Ahead(k)' = Ahead(k) /\ (Publishing(k)' => Publishing(k))
  BY <1>0, <1>1 DEF Crash, Ahead, Publishing, ReqActive
<1>4. ASSUME NEW k \in Job
      PROVE  life'[k] = life[k] \/ (life'[k] = "lost" /\ life[k] # "settled")
  <2>1. CASE k \notin created \/ record[k] \in Terminal
    BY <1>1, <2>1 DEF life
  <2>2. CASE k \in created /\ record[k] \notin Terminal /\ taskPc'[k] = taskPc[k]
    BY <1>1, <1>3, <2>2 DEF life, OnItsWay
  <2>3. CASE k \in created /\ record[k] \notin Terminal /\ taskPc'[k] # taskPc[k]
    <3>1. taskPc[k] # "none" /\ taskPc'[k] = "died"
      BY <1>2, <2>3 DEF TaskActive, Holding
    <3>2. ~Ahead(k) /\ ~Publishing(k)
      BY <1>0, <3>1, DeliveredIsBehind DEF TaskInv
    <3> QED
      BY <1>1, <1>3, <2>3, <3>1, <3>2 DEF life, OnItsWay
  <2> QED
    BY <2>1, <2>2, <2>3
<1> DEFINE astray == {k \in Job : life'[k] # life[k]}
<1>5. life' = [k \in Job |-> IF k \in astray THEN "lost" ELSE life[k]]
  BY <1>4 DEF life
<1>6. record = [k \in Job |-> record[k]] /\ faults + crashes' = faults + crashes + 1
  BY <1>0 DEF Crash, TypeOK
<1>7. Promise!Fail(astray, {})
  BY <1>1, <1>4, <1>5, <1>6 DEF Promise!Fail
<1> QED
  BY <1>7, FailIsAStep

\* A dropped record takes a settled job with it; one that is on its way goes on.
LEMMA EvictLife ==
    ASSUME FleetInv, NEW j \in Job, Evict(j)
    PROVE  LifeStep
<1>0. TypeOK /\ StreamInv /\ TaskInv /\ RecordInv
  BY DEF FleetInv
<1>1. /\ j \in Evictable /\ record[j] # "none" /\ j \in created
      /\ record' = [record EXCEPT ![j] = "none"] /\ evicted' = evicted \cup {j}
      /\ UNCHANGED <<created, taskPc, stream, cursor, reqPc, cur, outcome, faults, crashes>>
  BY <1>0 DEF Evict, RecordInv, reqVars, taskVars
<1>2. \A k : Ahead(k)' = Ahead(k) /\ Publishing(k)' = Publishing(k)
  BY <1>1 DEF Ahead, Publishing
<1>3. ASSUME NEW k \in Job, k # j PROVE life'[k] = life[k]
  BY <1>0, <1>1, <1>2, <1>3 DEF life, OnItsWay, TypeOK
<1>4. record'[j] = "none"
  BY <1>0, <1>1 DEF TypeOK
<1>5. CASE record[j] \in Terminal
  <2>1. life[j] = "settled" /\ taskPc[j] \notin {"none", "waiting", "read", "mark", "execute", "result"}
    BY <1>0, <1>1, <1>5 DEF life, RecordInv
  <2>2. ~Ahead(j) /\ ~Publishing(j)
    BY <1>0, <2>1, DeliveredIsBehind DEF TaskInv
  <2>3. life'[j] = "lost"
    BY <1>1, <1>2, <1>4, <2>1, <2>2 DEF life, OnItsWay, Terminal
  <2>4. life' = [life EXCEPT ![j] = "lost"]
    BY <1>3, <2>3 DEF life
  <2>5. Promise!Drop(j)
    BY <1>1, <2>1, <2>4 DEF Promise!Drop
  <2> QED
    BY <2>5 DEF LifeStep, Promise!Next
<1>6. CASE record[j] \notin Terminal
  <2>1. life'[j] = life[j] /\ life[j] # "settled"
    BY <1>1, <1>2, <1>4, <1>6 DEF life, OnItsWay, Terminal
  <2>2. life' = life
    BY <1>3, <2>1 DEF life
  <2>3. Promise!Drop(j)
    BY <1>1, <2>1, <2>2 DEF Promise!Drop
  <2> QED
    BY <2>3 DEF LifeStep, Promise!Next
<1> QED
  BY <1>5, <1>6

\* The fleet runtime implements JobLife, for every number of replicas, requests, jobs,
\* faults and exits: what its clients see of a job is the life promised (fleet.py:159).
THEOREM FleetImplementsJobLife == Spec => ImplementsJobLife
<1>1. Init => Promise!Init
  <2> SUFFICES ASSUME Init PROVE Promise!Init
    OBVIOUS
  <2>1. life = [j \in Job |-> "unborn"] /\ faults + crashes = 0
    BY DEF Init, life
  <2> QED
    BY <2>1 DEF Init, Promise!Init
<1>2. FleetInv /\ [Next]_vars => [Promise!Next]_(Promise!vars)
  <2> SUFFICES ASSUME FleetInv, [Next]_vars PROVE LifeStep
    BY DEF LifeStep
  <2>1. ASSUME UNCHANGED vars PROVE LifeStep
    <3>1. UNCHANGED <<redisVars, reqVars, taskVars, faults, crashes>>
      BY <2>1 DEF vars
    <3>2. life' = life
      BY <3>1, SameLife DEF redisVars, reqVars, taskVars
    <3> QED
      BY <3>1, <3>2 DEF LifeStep, Promise!vars, redisVars, taskVars
  <2>2. ASSUME NEW r \in Request, NEW o \in Reply, SubmitStep(r, o) PROVE LifeStep
    BY <2>2, SubmitLife, WriteLife, PublishLife DEF SubmitStep
  <2>3. ASSUME NEW g \in Gateway, NEW o \in Reply, LoopStep(g, o) PROVE LifeStep
    BY <2>3, LoopLife, ClaimLife DEF LoopStep
  <2>4. ASSUME NEW j \in Job, NEW o \in Reply, TaskStep(j, o) PROVE LifeStep
    BY <2>4, AcquireLife, ReadLife, MarkLife, ExecuteLife, ResultLife, AckLife DEF TaskStep
  <2> QED
    BY <2>1, <2>2, <2>3, <2>4, SubmitLife, LoopLife, CrashLife, EvictLife DEF Next
<1> QED
  BY <1>1, <1>2, FleetInvariant, PTL DEF Spec, ImplementsJobLife, Promise!Spec

-----------------------------------------------------------------------------
(* Polling while the fleet works: a reply that is no snapshot is truthful. *)

\* A step of the fleet never takes back a final status, nor changes a batch that
\* was stored.
LEMMA FinalStays ==
    ASSUME FleetInv, [Next]_vars
    PROVE  /\ \A j \in Job, s \in Status : Backed(j, s) => Backed(j, s)'
           /\ \A b \in Batch : batch[b] # Nil => batch'[b] = batch[b]
<1>0. TypeOK /\ SubmitInv /\ RecordInv
  BY DEF FleetInv
<1> DEFINE Goal == /\ \A j \in Job, s \in Status : Backed(j, s) => Backed(j, s)'
                   /\ \A b \in Batch : batch[b] # Nil => batch'[b] = batch[b]
<1>1. ASSUME UNCHANGED <<record, batch, evicted>> PROVE Goal
  BY <1>1 DEF Backed
<1>2. ASSUME NEW j \in Job, record[j] \notin Terminal, UNCHANGED <<batch, evicted>>,
             \A k \in Job : k # j => record'[k] = record[k]
      PROVE  Goal
  BY <1>2 DEF Backed
<1>3. ASSUME NEW r \in Request, NEW g \in Gateway, Submit(r, g) PROVE Goal
  BY <1>1, <1>3 DEF Submit, redisVars
<1>4. ASSUME NEW r \in Request, NEW j \in Job, NEW o \in Reply, SubmitWrite(r, j, o) PROVE Goal
  <2>1. record[j] = "none"
    BY <1>0, <1>4 DEF SubmitWrite, RecordInv
  <2>2. \A k \in Job : k # j => record'[k] = record[k]
    BY <1>0, <1>4 DEF SubmitWrite, write_job, TypeOK
  <2> QED
    BY <1>2, <1>4, <2>1, <2>2 DEF SubmitWrite, Terminal
<1>5. ASSUME NEW r \in Request, NEW o \in Reply, SubmitPublish(r, o) PROVE Goal
  BY <1>1, <1>5 DEF SubmitPublish
<1>6. ASSUME NEW r \in Batch, NEW o \in Reply, SubmitSave(r, o) PROVE Goal
  <2>1. batch[r] = Nil
    BY <1>0, <1>6, FleetAssumption DEF SubmitSave, SubmitInv
  <2>2. \A b \in Batch : b # r => batch'[b] = batch[b]
    BY <1>0, <1>6 DEF SubmitSave, TypeOK
  <2> QED
    BY <1>6, <2>1, <2>2 DEF SubmitSave, Backed
<1>7. ASSUME NEW g \in Gateway, start_fleet_workers(g) \/ stop_fleet_workers(g) \/ Crash(g)
      PROVE  Goal
  BY <1>1, <1>7 DEF start_fleet_workers, stop_fleet_workers, Crash, redisVars
<1>8. ASSUME NEW g \in Gateway, NEW o \in Reply, LoopStep(g, o) PROVE Goal
  BY <1>1, <1>8 DEF LoopStep, EnsureGroup, Claim, redisVars
<1>9. ASSUME NEW j \in Job, NEW o \in Reply, TaskStep(j, o) PROVE Goal
  <2>1. CASE Acquire(j) \/ read_job(j, o) \/ \E s \in Terminal : execute_job(j, s)
    BY <1>1, <2>1 DEF Acquire, read_job, execute_job, redisVars
  <2>2. CASE MarkRunning(j, o)
    <3>1. record[j] \notin Terminal
      BY <1>0, <2>2 DEF MarkRunning, RecordInv
    <3>2. \A k \in Job : k # j => record'[k] = record[k]
      BY <1>0, <2>2 DEF MarkRunning, write_job, TypeOK
    <3> QED
      BY <1>2, <2>2, <3>1, <3>2 DEF MarkRunning
  <2>3. CASE WriteResult(j, o)
    <3>1. record[j] \notin Terminal
      BY <1>0, <2>3 DEF WriteResult, RecordInv
    <3>2. \A k \in Job : k # j => record'[k] = record[k]
      BY <1>0, <2>3 DEF WriteResult, write_job, TypeOK
    <3> QED
      BY <1>2, <2>3, <3>1, <3>2 DEF WriteResult
  <2>4. CASE Ack(j, o)
    BY <1>1, <2>4 DEF Ack
  <2> QED
    BY <1>9, <2>1, <2>2, <2>3, <2>4 DEF TaskStep
<1>10. ASSUME NEW j \in Job, Evict(j) PROVE Goal
  <2>1. /\ evicted' = evicted \cup {j} /\ batch' = batch
        /\ \A k \in Job : k # j => record'[k] = record[k]
    BY <1>0, <1>10 DEF Evict, TypeOK
  <2> QED
    BY <2>1 DEF Backed
<1>11. CASE UNCHANGED vars
  BY <1>1, <1>11 DEF vars, redisVars
<1> QED
  BY <1>3, <1>4, <1>5, <1>6, <1>7, <1>8, <1>9, <1>10, <1>11 DEF Next, SubmitStep

\* The two counts of a reply are of different jobs of the batch.
LEMMA CountsFit ==
    ASSUME NEW seq \in Seq(Status)
    PROVE  /\ Count("done", seq) \in Nat /\ Count("failed", seq) \in Nat
           /\ Count("done", seq) + Count("failed", seq) <= Len(seq)
<1> DEFINE D == {i \in DOMAIN seq : seq[i] = "done"}
           F == {i \in DOMAIN seq : seq[i] = "failed"}
<1>1. Len(seq) \in Nat /\ DOMAIN seq = 1..Len(seq)
  OBVIOUS
<1>2. IsFiniteSet(1..Len(seq)) /\ Cardinality(1..Len(seq)) = Len(seq)
  <2>1. ASSUME NEW n \in Nat PROVE IsFiniteSet(1..n) /\ Cardinality(1..n) = n
    <3>1. 0 \in Int /\ 1 \in Int /\ n \in Int
      BY <2>1
    <3> QED
      BY <3>1, FS_Interval
  <2> QED
    BY <1>1, <2>1
<1>3. D \subseteq 1..Len(seq) /\ F \subseteq 1..Len(seq) /\ D \cup F \subseteq 1..Len(seq)
  BY <1>1
<1>4. D \cap F = {}
  OBVIOUS
<1>5. Count("done", seq) = Cardinality(D) /\ Count("failed", seq) = Cardinality(F)
  BY DEF Count
<1> HIDE DEF D, F
<1>6. IsFiniteSet(D) /\ IsFiniteSet(F) /\ IsFiniteSet(D \cup F)
      /\ Cardinality(D \cup F) <= Len(seq)
  BY <1>2, <1>3, FS_Subset
<1>7. Cardinality(D) \in Nat /\ Cardinality(F) \in Nat
  BY <1>6, FS_CardinalityType
<1>8. Cardinality(D \cup F) = Cardinality(D) + Cardinality(F) - Cardinality(D \cap F)
  BY <1>6, FS_Union
<1>9. Cardinality(D \cap F) = 0
  BY <1>4, FS_EmptySet
<1> QED
  BY <1>1, <1>5, <1>6, <1>7, <1>8, <1>9

\* A poll of one batch leaves the others alone.
LEMMA OtherPolls ==
    ASSUME NEW c \in Batch, ReadingWell(c), RepliedWell(c), UNCHANGED <<record, batch, evicted>>,
           pollPc'[c] = pollPc[c], pollIds'[c] = pollIds[c],
           results'[c] = results[c], reply'[c] = reply[c]
    PROVE  ReadingWell(c)' /\ RepliedWell(c)'
<1>1. ReadingWell(c)'
  BY DEF ReadingWell, Backed
<1>2. RepliedWell(c)'
  BY DEF RepliedWell, Backed
<1> QED
  BY <1>1, <1>2

\* A step of a poll keeps what is known of polls.
LEMMA PollStepInv ==
    ASSUME FleetInv, PollInv, NEW b \in Batch, PollStep(b)
    PROVE  PollInv'
<1>0. TypeOK /\ SubmitInv /\ UNCHANGED <<record, batch, evicted>>
  BY DEF FleetInv, PollStep, PollStart, PollRead, PollReply, vars, redisVars
<1>1. PollTypes /\ \A c \in Batch : ReadingWell(c) /\ RepliedWell(c)
  BY DEF PollInv
<1>2. \A c \in Batch : c # b => ReadingWell(c)' /\ RepliedWell(c)'
  <2>1. \A c \in Batch : c # b => /\ pollPc'[c] = pollPc[c] /\ pollIds'[c] = pollIds[c]
                                  /\ results'[c] = results[c] /\ reply'[c] = reply[c]
    BY <1>1 DEF PollStep, PollStart, PollRead, PollReply, PollTypes
  <2> QED
    BY <1>0, <1>1, <2>1, OtherPolls
<1>3. CASE PollStart(b)
  <2>1. /\ batch[b] # Nil
        /\ pollPc' = [pollPc EXCEPT ![b] = "reading"] /\ pollIds' = [pollIds EXCEPT ![b] = batch[b]]
        /\ results' = [results EXCEPT ![b] = <<>>] /\ reply' = reply
    BY <1>3 DEF PollStart
  <2>2. batch[b] \in Seq(Job) /\ <<>> \in Seq(Status)
    BY <1>0, <2>1 DEF TypeOK
  <2>3. PollTypes'
    BY <1>1, <2>1, <2>2 DEF PollTypes
  <2>4. pollIds'[b] = batch[b] /\ results'[b] = <<>>
    BY <1>1, <2>1 DEF PollTypes
  <2>5. Len(<<>>) = 0 /\ Len(batch[b]) \in Nat
    BY <2>2
  <2>6. ReadingWell(b)'
    BY <1>0, <2>1, <2>4, <2>5 DEF ReadingWell
  <2>7. RepliedWell(b)'
    BY <1>0, <1>1, <2>1 DEF RepliedWell, Backed
  <2> QED
    BY <1>2, <2>3, <2>6, <2>7 DEF PollInv
<1>4. CASE PollRead(b)
  <2> DEFINE n == Len(results[b]) + 1
             s == ReportedStatus(pollIds[b][n])
  <2>1. /\ pollPc[b] = "reading" /\ Len(results[b]) < Len(pollIds[b])
        /\ results' = [results EXCEPT ![b] = Append(results[b], s)]
        /\ UNCHANGED <<pollPc, pollIds, reply>>
    BY <1>4 DEF PollRead
  <2>2. /\ batch[b] # Nil /\ pollIds[b] = batch[b] /\ results[b] \in Seq(Status)
        /\ \A i \in 1..Len(results[b]) : Backed(batch[b][i], results[b][i])
    BY <1>1, <2>1 DEF PollTypes, ReadingWell
  <2>3. batch[b] \in Seq(Job) /\ n \in 1..Len(batch[b]) /\ batch[b][n] \in Job
    BY <1>0, <2>1, <2>2 DEF TypeOK
  <2>4. s \in Status
    BY <1>0, <2>2, <2>3 DEF ReportedStatus, Status, TypeOK
  <2>5. Backed(batch[b][n], s)
    <3>1. batch[b] = ids[b] /\ n \in 1..Len(ids[b]) /\ b \in Request
      BY <1>0, <2>2, <2>3, FleetAssumption DEF SubmitInv
    <3>2. batch[b][n] \in evicted \/ record[batch[b][n]] # "none"
      BY <1>0, <3>1 DEF SubmitInv
    <3> QED
      BY <2>2, <3>2 DEF Backed, ReportedStatus
  <2> HIDE DEF s
  <2>6. Append(results[b], s) \in Seq(Status) /\ results'[b] = Append(results[b], s)
    BY <1>1, <2>1, <2>2, <2>4 DEF PollTypes
  <2>7. PollTypes'
    BY <1>1, <2>1, <2>6 DEF PollTypes
  <2>8. Len(results'[b]) = n
    BY <2>2, <2>4, <2>6
  <2>9. \A i \in 1..n : Backed(batch[b][i], results'[b][i])
    <3>1. ASSUME NEW i \in 1..n PROVE Backed(batch[b][i], results'[b][i])
      <4>1. CASE i = n
        BY <2>2, <2>4, <2>5, <2>6, <4>1
      <4>2. CASE i # n
        <5>1. i \in 1..Len(results[b]) /\ results'[b][i] = results[b][i]
          BY <2>2, <2>4, <2>6, <4>2
        <5> QED
          BY <2>2, <5>1
      <4> QED
        BY <4>1, <4>2
    <3> QED
      BY <3>1
  <2>10. ReadingWell(b)'
    BY <1>0, <2>1, <2>2, <2>3, <2>8, <2>9 DEF ReadingWell, Backed
  <2>11. RepliedWell(b)'
    BY <1>0, <1>1, <2>1 DEF RepliedWell, Backed
  <2> QED
    BY <1>2, <2>7, <2>10, <2>11 DEF PollInv
<1>5. CASE PollReply(b)
  <2> DEFINE answer == [total   |-> Len(pollIds[b]),
                        done    |-> Count("done", results[b]),
                        failed  |-> Count("failed", results[b]),
                        results |-> results[b]]
  <2>1. /\ pollPc[b] = "reading" /\ Len(results[b]) = Len(pollIds[b])
        /\ reply' = [reply EXCEPT ![b] = answer]
        /\ pollPc' = [pollPc EXCEPT ![b] = "idle"]
        /\ UNCHANGED <<pollIds, results>>
    BY <1>5 DEF PollReply
  <2>2. /\ batch[b] # Nil /\ pollIds[b] = batch[b] /\ results[b] \in Seq(Status)
        /\ \A i \in 1..Len(results[b]) : Backed(batch[b][i], results[b][i])
    BY <1>1, <2>1 DEF PollTypes, ReadingWell
  <2>3. Len(batch[b]) = Size[b] /\ Len(batch[b]) \in Nat
    BY <1>0, <2>2, FleetAssumption DEF SubmitInv, TypeOK
  <2>4. answer \in BatchStatus /\ answer.done + answer.failed <= answer.total
    BY <2>1, <2>2, <2>3, CountsFit DEF BatchStatus
  <2>5. answer.total = Len(batch[b]) /\ answer.results = results[b]
    BY <2>2
  <2> HIDE DEF answer
  <2>6. PollTypes'
    BY <1>1, <2>1, <2>4 DEF PollTypes
  <2>7. reply'[b] = answer /\ pollPc'[b] = "idle"
    BY <1>1, <2>1 DEF PollTypes
  <2>8. ReadingWell(b)'
    BY <2>7 DEF ReadingWell
  <2>9. RepliedWell(b)'
    BY <1>0, <2>1, <2>2, <2>3, <2>4, <2>5, <2>7 DEF RepliedWell, Backed
  <2> QED
    BY <1>2, <2>6, <2>8, <2>9 DEF PollInv
<1> QED
  BY <1>3, <1>4, <1>5 DEF PollStep

\* A step of the fleet during polls keeps what is known of them.
LEMMA FleetStepPoll ==
    ASSUME FleetInv, PollInv, [Next]_vars, UNCHANGED pollVars
    PROVE  PollInv'
<1>1. UNCHANGED <<pollPc, pollIds, results, reply>> /\ TypeOK /\ SubmitInv /\ PollTypes
  BY DEF pollVars, FleetInv, PollInv
<1>2. \A j \in Job, s \in Status : Backed(j, s) => Backed(j, s)'
  BY FinalStays
<1>3. ASSUME NEW b \in Batch PROVE ReadingWell(b)'
  <2> SUFFICES ASSUME pollPc[b] = "reading" PROVE ReadingWell(b)'
    BY <1>1 DEF ReadingWell
  <2>1. /\ batch[b] # Nil /\ pollIds[b] = batch[b] /\ Len(results[b]) <= Len(batch[b])
        /\ \A i \in 1..Len(results[b]) : Backed(batch[b][i], results[b][i])
    BY DEF PollInv, ReadingWell
  <2>2. batch'[b] = batch[b] /\ batch[b] \in Seq(Job) /\ results[b] \in Seq(Status)
    BY <1>1, <2>1, FinalStays DEF TypeOK, PollTypes
  <2>3. \A i \in 1..Len(results[b]) : batch[b][i] \in Job /\ results[b][i] \in Status
    BY <2>1, <2>2
  <2>4. \A i \in 1..Len(results[b]) :
            results[b][i] \in Terminal => batch[b][i] \in evicted' \/ record'[batch[b][i]] = results[b][i]
    BY <1>2, <2>1, <2>3 DEF Backed
  <2> QED
    BY <1>1, <2>1, <2>2, <2>4 DEF ReadingWell, Backed
<1>4. ASSUME NEW b \in Batch PROVE RepliedWell(b)'
  <2> SUFFICES ASSUME reply[b] # Nil PROVE RepliedWell(b)'
    BY <1>1 DEF RepliedWell
  <2>1. /\ batch[b] # Nil /\ reply[b].total = Size[b]
        /\ reply[b].done + reply[b].failed <= reply[b].total
        /\ \A i \in 1..reply[b].total : Backed(batch[b][i], reply[b].results[i])
    BY DEF PollInv, RepliedWell
  <2>2. batch'[b] = batch[b] /\ batch[b] \in Seq(Job) /\ Len(batch[b]) = Size[b]
    BY <1>1, <2>1, FinalStays, FleetAssumption DEF TypeOK, SubmitInv
  <2>3. \A i \in 1..reply[b].total : batch[b][i] \in Job
    BY <2>1, <2>2
  <2>4. \A i \in 1..reply[b].total : reply[b].results[i] \in Terminal =>
            batch[b][i] \in evicted' \/ record'[batch[b][i]] = reply[b].results[i]
    BY <1>2, <2>1, <2>3 DEF Backed, Terminal, Status
  <2> QED
    BY <1>1, <2>1, <2>2, <2>4 DEF RepliedWell, Backed
<1> QED
  BY <1>1, <1>3, <1>4 DEF PollInv, PollTypes

\* A poll reads one record after the other while workers, failures and crashes
\* go on (get_batch, fleet.py:262); for any number of batches, jobs and processes
\* what it reports as finished is, and its counts fit the batch.
THEOREM PollsAreTruthful == PollSpec => []PollIsTruthful
<1>1. PollInit => FleetInv /\ PollInv
  <2> SUFFICES ASSUME PollInit PROVE FleetInv /\ PollInv
    OBVIOUS
  <2>1. /\ pollPc = [b \in Batch |-> "idle"] /\ pollIds = [b \in Batch |-> <<>>]
        /\ results = [b \in Batch |-> <<>>] /\ reply = [b \in Batch |-> Nil] /\ FleetInv
    BY FleetInit DEF PollInit
  <2>2. <<>> \in Seq(Job) /\ <<>> \in Seq(Status)
    OBVIOUS
  <2> QED
    BY <2>1, <2>2 DEF PollInv, PollTypes, ReadingWell, RepliedWell
<1>2. FleetInv /\ PollInv /\ [PollNext]_allVars => FleetInv' /\ PollInv'
  <2> SUFFICES ASSUME FleetInv, PollInv, [PollNext]_allVars PROVE FleetInv' /\ PollInv'
    OBVIOUS
  <2>1. ASSUME [Next]_vars PROVE FleetInv'
    BY <2>1, TypeStep, StreamStep, SubmitInvStep, TaskInvStep, RecordInvStep, PermitsStep,
       AckedStep, StrandedStep DEF FleetInv
  <2>2. CASE Next /\ UNCHANGED pollVars
    BY <2>1, <2>2, FleetStepPoll
  <2>3. ASSUME NEW b \in Batch, PollStep(b) PROVE FleetInv' /\ PollInv'
    <3>1. UNCHANGED vars
      BY <2>3 DEF PollStep, PollStart, PollRead, PollReply
    <3> QED
      BY <2>1, <2>3, <3>1, PollStepInv
  <2>4. CASE UNCHANGED allVars
    <3>1. UNCHANGED vars /\ UNCHANGED pollVars
      BY <2>4 DEF allVars
    <3> QED
      BY <2>1, <3>1, FleetStepPoll
  <2> QED
    BY <2>2, <2>3, <2>4 DEF PollNext
<1>3. PollInv => PollIsTruthful
  BY DEF PollInv, RepliedWell, PollIsTruthful, Backed
<1> QED
  BY <1>1, <1>2, <1>3, PTL DEF PollSpec

=============================================================================
