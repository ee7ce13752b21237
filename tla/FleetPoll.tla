----------------------------- MODULE FleetPoll -----------------------------
(***************************************************************************)
(* Clients polling GET /mcp/jobs/batch/{id} (get_batch in gateway/fleet.py)*)
(* while the fleet works.  A poll reads the batch key and then one job     *)
(* record after the other, with workers running between the reads, so a    *)
(* reply is no snapshot of Redis.                                          *)
(***************************************************************************)
EXTENDS Fleet

VARIABLES
    pollPc,   \* "idle" or "reading", per batch
    pollIds,  \* job_ids of the poll in progress
    results,  \* the statuses collected so far
    reply     \* the last BatchStatus the client received, Nil before the first

pollVars == <<pollPc, pollIds, results, reply>>

\* (mutant) A job that is not running yet is reported as failed.
ReportedTooSoon(j) == IF record[j] \in {"none", "pending"} THEN "failed" ELSE record[j]

\* A missing record is reported as failed.
ReportedStatus(j) == IF record[j] = "none" THEN "failed" ELSE record[j]

Count(s, seq) == Cardinality({i \in DOMAIN seq : seq[i] = s})

\* The client knows the batch id from submit_batch's reply.
PollStart(b) ==
    /\ reqPc[b] = "replied"
    /\ batch[b] # Nil
    /\ pollPc[b] = "idle"
    /\ pollPc' = [pollPc EXCEPT ![b] = "reading"]
    /\ pollIds' = [pollIds EXCEPT ![b] = batch[b]]
    /\ results' = [results EXCEPT ![b] = <<>>]
    /\ UNCHANGED <<vars, reply>>

PollRead(b) ==
    /\ pollPc[b] = "reading"
    /\ Len(results[b]) < Len(pollIds[b])
    /\ results' = [results EXCEPT ![b] =
                     Append(@, ReportedStatus(pollIds[b][Len(@) + 1]))]
    /\ UNCHANGED <<vars, pollPc, pollIds, reply>>

\* (mutant) Failed jobs are not counted.
PollReplyUncounted(b) ==
    /\ pollPc[b] = "reading"
    /\ Len(results[b]) = Len(pollIds[b])
    /\ reply' = [reply EXCEPT ![b] =
                   [total   |-> Len(pollIds[b]),
                    done    |-> Count("done", results[b]),
                    failed  |-> 0,
                    results |-> results[b]]]
    /\ pollPc' = [pollPc EXCEPT ![b] = "idle"]
    /\ UNCHANGED <<vars, pollIds, results>>

PollReply(b) ==
    /\ pollPc[b] = "reading"
    /\ Len(results[b]) = Len(pollIds[b])
    /\ reply' = [reply EXCEPT ![b] =
                   [total   |-> Len(pollIds[b]),
                    done    |-> Count("done", results[b]),
                    failed  |-> Count("failed", results[b]),
                    results |-> results[b]]]
    /\ pollPc' = [pollPc EXCEPT ![b] = "idle"]
    /\ UNCHANGED <<vars, pollIds, results>>

PollInit ==
    /\ Init
    /\ pollPc = [b \in Batch |-> "idle"]
    /\ pollIds = [b \in Batch |-> <<>>]
    /\ results = [b \in Batch |-> <<>>]
    /\ reply = [b \in Batch |-> Nil]

PollStep(b) == PollStart(b) \/ PollRead(b) \/ PollReply(b)

PollNext ==
    \/ Next /\ UNCHANGED pollVars
    \/ \E b \in Batch : PollStep(b)

allVars == <<vars, pollVars>>

PollSpec == PollInit /\ [][PollNext]_allVars

\* Fleet's fairness, and a client that keeps polling.
FairPollSpec ==
    /\ PollSpec
    /\ \A r \in Request : WF_allVars(SubmitStep(r, "ok") /\ UNCHANGED pollVars)
    /\ \A g \in Gateway :
          /\ WF_allVars(start_fleet_workers(g) /\ UNCHANGED pollVars)
          /\ WF_allVars(LoopStep(g, "ok") /\ UNCHANGED pollVars)
    /\ \A j \in Job : WF_allVars(TaskStep(j, "ok") /\ UNCHANGED pollVars)
    /\ \A b \in Batch : WF_allVars(PollStep(b))

-----------------------------------------------------------------------------
\* Although a poll interleaves with the workers, what it reports as finished is
\* finished with that outcome, and its counts add up to at most the batch
\* (jobs whose record Redis dropped excepted: they are reported as failed).
PollIsTruthful ==
    \A b \in Batch : reply[b] # Nil =>
        /\ reply[b].total = Size[b]
        /\ reply[b].done + reply[b].failed <= reply[b].total
        /\ \A i \in 1..reply[b].total :
              reply[b].results[i] \in Terminal =>
                  batch[b][i] \in evicted \/ record[batch[b][i]] = reply[b].results[i]

\* A client that submitted a batch and keeps polling eventually sees every job
\* of it counted as done or failed, unless a Redis call fails.
PollCompletes ==
    \A b \in Batch :
        reqPc[b] = "replied" ~>
            \/ faults > 0
            \/ reply[b] # Nil /\ reply[b].done + reply[b].failed = Size[b]

-----------------------------------------------------------------------------
(* The inductive strengthening of PollIsTruthful.                          *)

BatchStatus == [total : Nat, done : Nat, failed : Nat, results : Seq(Status)]

\* What was read as final is final, or Redis dropped the record.
Backed(j, s) == s \in Terminal => j \in evicted \/ record[j] = s

\* A poll under way reads the batch it started with, in order.
ReadingWell(b) ==
    pollPc[b] = "reading" =>
        /\ batch[b] # Nil /\ pollIds[b] = batch[b]
        /\ Len(results[b]) <= Len(batch[b])
        /\ \A i \in 1..Len(results[b]) : Backed(batch[b][i], results[b][i])

\* A reply is of a whole stored batch.
RepliedWell(b) ==
    reply[b] # Nil =>
        /\ batch[b] # Nil
        /\ reply[b].total = Size[b]
        /\ reply[b].done + reply[b].failed <= reply[b].total
        /\ \A i \in 1..reply[b].total : Backed(batch[b][i], reply[b].results[i])

PollTypes ==
    /\ pollPc \in [Batch -> {"idle", "reading"}]
    /\ pollIds \in [Batch -> Seq(Job)]
    /\ results \in [Batch -> Seq(Status)]
    /\ reply \in [Batch -> BatchStatus \cup {Nil}]

PollInv == PollTypes /\ \A b \in Batch : ReadingWell(b) /\ RepliedWell(b)

=============================================================================
