----------------------------- MODULE RemoteCall -----------------------------
(***************************************************************************)
(* What a caller of _rpc may rely on, without pipes, threads or servers:   *)
(* one call waits at a time, an answer is returned at most once and only   *)
(* to a call that was made, and it is the one to the call that waits       *)
(* unless a call was given up before.  An answer may also get lost.        *)
(* Module StdioRpc implements this.                                        *)
(***************************************************************************)
EXTENDS Integers, Sequences

VARIABLES
    next_id,
    waiting,       \* the id of the call that waits, or 0
    outstanding,   \* ids of the calls whose answer was neither returned nor lost
    answers,       \* what this job's calls returned: the id asked and the id got
    givenUp        \* number of calls given up

vars == <<next_id, waiting, outstanding, answers, givenUp>>

-----------------------------------------------------------------------------
Begin ==
    /\ waiting = 0
    /\ answers' = <<>>
    /\ UNCHANGED <<next_id, waiting, outstanding, givenUp>>

Request ==
    /\ waiting = 0 /\ waiting' = next_id
    /\ next_id' = next_id + 1
    /\ outstanding' = outstanding \cup {next_id}
    /\ UNCHANGED <<answers, givenUp>>

\* The request could not be sent; its id is not used again.
Refuse ==
    /\ waiting = 0
    /\ next_id' = next_id + 1
    /\ UNCHANGED <<waiting, outstanding, answers, givenUp>>

Return(x) ==
    /\ waiting # 0 /\ waiting' = 0
    /\ x = waiting \/ givenUp > 0
    /\ outstanding' = outstanding \ {x}
    /\ answers' = Append(answers, [want |-> waiting, got |-> x])
    /\ UNCHANGED <<next_id, givenUp>>

GiveUp ==
    /\ waiting # 0 /\ waiting' = 0
    /\ givenUp' = givenUp + 1
    /\ UNCHANGED <<next_id, outstanding, answers>>

Lose(x) ==
    /\ outstanding' = outstanding \ {x}
    /\ UNCHANGED <<next_id, waiting, answers, givenUp>>

Init == next_id = 1 /\ waiting = 0 /\ outstanding = {} /\ answers = <<>> /\ givenUp = 0

Next ==
    \/ Begin \/ Request \/ Refuse \/ GiveUp
    \/ \E x \in outstanding : Return(x) \/ Lose(x)

Spec == Init /\ [][Next]_vars

=============================================================================
