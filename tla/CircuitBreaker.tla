--------------------------- MODULE CircuitBreaker ---------------------------
(***************************************************************************)
(* CircuitBreaker.call (streams/circuit_breaker.py), run by threads that   *)
(* share one breaker and no lock.  A step reads or writes one attribute of *)
(* the breaker, so that other threads may run between any two of them:     *)
(* between the look at the state and what is done about it, and within     *)
(* "self._failures += 1".                                                  *)
(***************************************************************************)
EXTENDS Integers, FiniteSets

CONSTANTS
    Caller,       \* threads
    Threshold,    \* failures that open the breaker
    MaxFailures   \* bound on the calls of fn that raise

ASSUME BreakerAssumption ==
    /\ Threshold \in Nat \ {0}
    /\ MaxFailures \in Nat

VARIABLES
    breaker,     \* self._state
    failures,    \* self._failures
    timedOut,    \* self._opened_at is recovery_timeout or more ago
    callPc,      \* per caller: the line it is at
    snapshot,    \* per caller: self._failures as its += read it
    counted,     \* history: how many calls counted their failure
    abandoned,   \* history: a call left the half-open breaker by no Exception
    overruled    \* history: the last success closed over a threshold of failures

breakerVars == <<breaker, failures, timedOut, callPc, snapshot, counted, abandoned, overruled>>

Moves(c, from, to) == callPc[c] = from /\ callPc' = [callPc EXCEPT ![c] = to]

-----------------------------------------------------------------------------
(* Admission (:30-34).                                                      *)

\* The look at the state: a breaker that is not open lets the call through.
ReadState(c) ==
    /\ Moves(c, "idle", IF breaker = "OPEN" THEN "refusing" ELSE "calling")
    /\ UNCHANGED <<breaker, failures, timedOut, snapshot, counted, abandoned, overruled>>

\* The look at the clock; a refused call returns the fallback.
ReadTime(c) ==
    /\ Moves(c, "refusing", IF timedOut THEN "trying" ELSE "idle")
    /\ UNCHANGED <<breaker, failures, timedOut, snapshot, counted, abandoned, overruled>>

HalfOpen(c) ==
    /\ Moves(c, "trying", "calling")
    /\ breaker' = "HALF_OPEN"
    /\ abandoned' = FALSE
    /\ UNCHANGED <<failures, timedOut, snapshot, counted, overruled>>

-----------------------------------------------------------------------------
(* The call of fn and what comes of it.                                     *)

FnReturns(c) ==
    /\ Moves(c, "calling", "clearing")
    /\ UNCHANGED <<breaker, failures, timedOut, snapshot, counted, abandoned, overruled>>

\* An exception; "self._failures += 1" has read the count (:39).
FnRaises(c) ==
    /\ Moves(c, "calling", "counting")
    /\ counted < MaxFailures
    /\ snapshot' = [snapshot EXCEPT ![c] = failures]
    /\ UNCHANGED <<breaker, failures, timedOut, counted, abandoned, overruled>>

\* What is no Exception, a KeyboardInterrupt say, passes the handler (:38).
FnAborts(c) ==
    /\ Moves(c, "calling", "idle")
    /\ abandoned' = (abandoned \/ breaker = "HALF_OPEN")
    /\ UNCHANGED <<breaker, failures, timedOut, snapshot, counted, overruled>>

Clear(c) ==
    /\ Moves(c, "clearing", "closing")
    /\ failures' = 0
    /\ overruled' = FALSE
    /\ UNCHANGED <<breaker, timedOut, snapshot, counted, abandoned>>

Close(c) ==
    /\ Moves(c, "closing", "idle")
    /\ breaker' = "CLOSED"
    /\ overruled' = (failures >= Threshold)
    /\ UNCHANGED <<failures, timedOut, snapshot, counted, abandoned>>

WriteFailures(c) ==
    /\ Moves(c, "counting", "judging")
    /\ failures' = snapshot[c] + 1
    /\ counted' = counted + 1
    /\ UNCHANGED <<breaker, timedOut, snapshot, abandoned, overruled>>

\* The two looks of the condition (:40): at the state, then at the count.
JudgeState(c) ==
    /\ Moves(c, "judging", IF breaker = "HALF_OPEN" THEN "opening" ELSE "comparing")
    /\ UNCHANGED <<breaker, failures, timedOut, snapshot, counted, abandoned, overruled>>

\* (mutant) Opened by one failure too many.
JudgeCountLate(c) ==
    /\ Moves(c, "comparing", IF failures > Threshold THEN "opening" ELSE "idle")
    /\ UNCHANGED <<breaker, failures, timedOut, snapshot, counted, abandoned, overruled>>

JudgeCount(c) ==
    /\ Moves(c, "comparing", IF failures >= Threshold THEN "opening" ELSE "idle")
    /\ UNCHANGED <<breaker, failures, timedOut, snapshot, counted, abandoned, overruled>>

Open(c) ==
    /\ Moves(c, "opening", "stamping")
    /\ breaker' = "OPEN"
    /\ overruled' = FALSE
    /\ UNCHANGED <<failures, timedOut, snapshot, counted, abandoned>>

Stamp(c) ==
    /\ Moves(c, "stamping", "idle")
    /\ timedOut' = FALSE
    /\ UNCHANGED <<breaker, failures, snapshot, counted, abandoned, overruled>>

RecoveryTimeout ==
    /\ ~timedOut
    /\ timedOut' = TRUE
    /\ UNCHANGED <<breaker, failures, callPc, snapshot, counted, abandoned, overruled>>

-----------------------------------------------------------------------------
\* _opened_at starts at 0.0, which may or may not be long ago by the monotonic clock.
BreakerInit ==
    /\ breaker = "CLOSED" /\ failures = 0 /\ timedOut \in BOOLEAN
    /\ callPc = [c \in Caller |-> "idle"]
    /\ snapshot = [c \in Caller |-> 0]
    /\ counted = 0
    /\ abandoned = FALSE /\ overruled = FALSE

BreakerNext ==
    \/ \E c \in Caller :
          \/ ReadState(c) \/ ReadTime(c) \/ HalfOpen(c)
          \/ FnReturns(c) \/ FnRaises(c) \/ FnAborts(c)
          \/ Clear(c) \/ Close(c)
          \/ WriteFailures(c) \/ JudgeState(c) \/ JudgeCount(c) \/ Open(c) \/ Stamp(c)
    \/ RecoveryTimeout

BreakerSpec == BreakerInit /\ [][BreakerNext]_breakerVars

-----------------------------------------------------------------------------
\* A call that was admitted and has not yet had its say about the state.
OnTrial == {"calling", "clearing", "closing", "counting", "judging", "opening"}

\* A call that has counted its failure and will still look whether to open.
Deciding == {"judging", "comparing", "opening"}

\* However the calls of several threads overlap, overwrite each other's counts and act
\* on a state that has changed since they looked (circuit_breaker.py:30-32, :39-42,
\* :46-47): the breaker never opens before a threshold of failures was counted; it is
\* never left half-open with no call to settle it, unless one ended by no Exception; and
\* it stays closed over a threshold of failures only while a call is about to open it,
\* or after a success that closed it over failures counted meanwhile.
BreakerSound ==
    /\ breaker # "CLOSED" => counted >= Threshold
    /\ breaker = "HALF_OPEN" => abandoned \/ \E c \in Caller : callPc[c] \in OnTrial
    /\ breaker = "CLOSED" /\ failures >= Threshold =>
          overruled \/ \E c \in Caller : callPc[c] \in Deciding

=============================================================================
