------------------------------ MODULE JobLife ------------------------------
(***************************************************************************)
(* What the fleet promises its clients about a job, without streams,       *)
(* workers, semaphores or processes: a job is accepted, begun once,        *)
(* computed and settled, in this order, and its record says how far it is. *)
(* It goes astray only when a Redis call fails, a process exits, or Redis  *)
(* drops its record.  Module Fleet implements this.                        *)
(***************************************************************************)
EXTENDS Integers

CONSTANTS
    Job,
    Evictable      \* jobs whose record may be dropped

VARIABLES
    life,      \* "unborn", "queued", "running", "computed", "settled" or "lost"
    record,    \* what a client reads: a status, "none" without a record
    outcome,   \* of the last computation
    dropped,   \* jobs whose record was dropped
    mishaps    \* failed calls and process exits so far

vars == <<life, record, outcome, dropped, mishaps>>

-----------------------------------------------------------------------------
Becomes(j, phase) == life' = [life EXCEPT ![j] = phase]

Accept(j) ==
    /\ life[j] = "unborn"
    /\ Becomes(j, "queued")
    /\ record' = [record EXCEPT ![j] = "pending"]
    /\ UNCHANGED <<outcome, dropped, mishaps>>

Begin(j) ==
    /\ life[j] = "queued"
    /\ Becomes(j, "running")
    /\ record' = [record EXCEPT ![j] = "running"]
    /\ UNCHANGED <<outcome, dropped, mishaps>>

Compute(j, s) ==
    /\ life[j] = "running"
    /\ Becomes(j, "computed")
    /\ outcome' = [outcome EXCEPT ![j] = s]
    /\ UNCHANGED <<record, dropped, mishaps>>

\* The reply to the write may be lost.
Settle(j) ==
    /\ life[j] = "computed"
    /\ Becomes(j, "settled")
    /\ record' = [record EXCEPT ![j] = outcome[j]]
    /\ mishaps' \in {mishaps, mishaps + 1}
    /\ UNCHANGED <<outcome, dropped>>

\* Unsettled jobs go astray, some of them while their next status is written.
Fail(astray, marked) ==
    /\ \A j \in astray : life[j] # "settled"
    /\ \A j \in marked : life[j] \in {"unborn", "queued"}
    /\ mishaps' = mishaps + 1
    /\ life' = [j \in Job |-> IF j \in astray THEN "lost" ELSE life[j]]
    /\ record' = [j \in Job |-> IF j \notin marked THEN record[j]
                                ELSE IF life[j] = "unborn" THEN "pending" ELSE "running"]
    /\ UNCHANGED <<outcome, dropped>>

\* A job that is being worked on settles all the same.
Drop(j) ==
    /\ j \in Evictable
    /\ record[j] # "none"
    /\ record' = [record EXCEPT ![j] = "none"]
    /\ dropped' = dropped \cup {j}
    /\ life' = IF life[j] = "settled" THEN [life EXCEPT ![j] = "lost"] ELSE life
    /\ UNCHANGED <<outcome, mishaps>>

\* A queued job without a record is not begun.
Forget(j) ==
    /\ life[j] = "queued" /\ j \in dropped
    /\ Becomes(j, "lost")
    /\ UNCHANGED <<record, outcome, dropped, mishaps>>

Init ==
    /\ life = [j \in Job |-> "unborn"]
    /\ record = [j \in Job |-> "none"]
    /\ outcome = [j \in Job |-> "failed"]
    /\ dropped = {}
    /\ mishaps = 0

Next ==
    \/ \E j \in Job : Accept(j) \/ Begin(j) \/ Settle(j) \/ Drop(j) \/ Forget(j)
    \/ \E j \in Job, s \in {"done", "failed"} : Compute(j, s)
    \/ \E astray \in SUBSET Job : \E marked \in SUBSET astray : Fail(astray, marked)

Spec == Init /\ [][Next]_vars

=============================================================================
