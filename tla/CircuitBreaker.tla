---------------------------- MODULE CircuitBreaker ----------------------------
(***************************************************************************)
(* The retry handler with a circuit breaker (state/circuit_breaker.py) and *)
(* the callers that share it.  A caller is admitted once, before its first *)
(* attempt: its retries never look at the breaker again before they go out *)
(* but only after they have failed.                                        *)
(***************************************************************************)
EXTENDS Naturals, FiniteSets

CONSTANTS
    Callers,
    FailureThreshold, RecoveryTimeout, WindowSeconds, Retries,  \* of __init__, in ticks
    MaxTime,        \* bound of the clock
    MaxFailures     \* bound of the failures in a row

ASSUME BreakerAssumption ==
    /\ FailureThreshold \in Nat \ {0} /\ RecoveryTimeout \in Nat \ {0}
    /\ WindowSeconds \in Nat /\ Retries \in Nat
    /\ MaxTime \in Nat /\ MaxFailures \in Nat

VARIABLES
    time,
    breaker,    \* state
    changed,    \* last_state_change_time
    failures,   \* failure_timestamps: [nth, at], the place in the row and the time
    consecutive,
    attempt,    \* attempt[c]: the attempt c is in; NoAttempt between calls
    sinceOpen   \* attempts c has sent since the breaker last opened (for the properties)

breakerVars == <<time, breaker, changed, failures, consecutive, attempt, sinceOpen>>

NoAttempt == Retries + 1
Attempts == 0..Retries

BreakerInit ==
    /\ time = 0
    /\ breaker = "CLOSED"
    /\ changed = 0
    /\ failures = {}
    /\ consecutive = 0
    /\ attempt = [c \in Callers |-> NoAttempt]
    /\ sinceOpen = [c \in Callers |-> 0]

-----------------------------------------------------------------------------
\* _check_state_transition: what the breaker is once the time is looked at.
Recovered == breaker = "OPEN" /\ time >= changed + RecoveryTimeout
Seen == IF Recovered THEN "HALF_OPEN" ELSE breaker
SeenSince == IF Recovered THEN time ELSE changed

\* _clean_old_failures: success clears the list and the row together, so that no two
\* failures of the list have the same place.
Recent(f) == f.at + WindowSeconds >= time
RecentFailures == {f \in failures : Recent(f)}

RecordSuccess_KeepsCount ==
    /\ breaker' = IF Seen = "HALF_OPEN" THEN "CLOSED" ELSE Seen
    /\ changed' = IF Seen = "HALF_OPEN" THEN time ELSE SeenSince
    /\ UNCHANGED <<consecutive, failures>>
RecordSuccess ==
    CASE Seen = "HALF_OPEN" -> /\ breaker' = "CLOSED" /\ changed' = time
                               /\ consecutive' = 0 /\ failures' = {}
      [] Seen = "CLOSED" -> /\ consecutive' = 0 /\ failures' = {}
                            /\ UNCHANGED <<breaker, changed>>
      [] Seen = "OPEN" -> UNCHANGED <<breaker, changed, consecutive, failures>>

RecordFailure ==
    /\ consecutive' = consecutive + 1
    /\ failures' = RecentFailures \cup {[nth |-> consecutive + 1, at |-> time]}
    /\ IF \/ Seen = "HALF_OPEN"
          \/ /\ Seen = "CLOSED"
             /\ Cardinality(failures') >= FailureThreshold \/ consecutive' >= FailureThreshold
       THEN breaker' = "OPEN" /\ changed' = time
       ELSE breaker' = Seen /\ changed' = SeenSince

\* Attempts are counted while the breaker stays open.
CountAttempt(c) ==
    sinceOpen' = [d \in Callers |->
        IF breaker # "OPEN" \/ breaker' # "OPEN" THEN 0
        ELSE IF d = c THEN sinceOpen[d] + 1 ELSE sinceOpen[d]]

-----------------------------------------------------------------------------
(* call_async                                                              *)

\* The look under the lock: an open breaker turns the call away.
Admit(c) ==
    /\ attempt[c] = NoAttempt
    /\ breaker' = Seen /\ changed' = SeenSince
    /\ attempt' = IF Seen = "OPEN" THEN attempt ELSE [attempt EXCEPT ![c] = 0]
    /\ UNCHANGED <<time, failures, consecutive, sinceOpen>>

Succeed(c) ==
    /\ attempt[c] \in Attempts
    /\ RecordSuccess
    /\ attempt' = [attempt EXCEPT ![c] = NoAttempt]
    /\ CountAttempt(c)
    /\ UNCHANGED time

\* After a failure the caller gives up when the error is not worth a retry on
\* the first attempt, when no retry is left, or when the breaker is open now.
GivesUp_IgnoresBreaker(c, transient) ==
    (~transient /\ attempt[c] = 0) \/ attempt[c] >= Retries
GivesUp(c, transient) ==
    \/ ~transient /\ attempt[c] = 0
    \/ attempt[c] >= Retries
    \/ breaker' = "OPEN"

FailAttempt(c, transient) ==
    /\ attempt[c] \in Attempts /\ consecutive < MaxFailures
    /\ RecordFailure
    /\ attempt' = [attempt EXCEPT ![c] = IF GivesUp(c, transient) THEN NoAttempt ELSE @ + 1]
    /\ CountAttempt(c)
    /\ UNCHANGED time

BreakerTick ==
    /\ time < MaxTime
    /\ time' = time + 1
    /\ UNCHANGED <<breaker, changed, failures, consecutive, attempt, sinceOpen>>

BreakerNext ==
    \/ \E c \in Callers : Admit(c) \/ Succeed(c)
    \/ \E c \in Callers, transient \in BOOLEAN : FailAttempt(c, transient)
    \/ BreakerTick

BreakerSpec == BreakerInit /\ [][BreakerNext]_breakerVars

-----------------------------------------------------------------------------
(* Properties                                                              *)

\* A closed breaker has seen fewer failures than its threshold, in a row and
\* within its window, whatever was recorded while it was open or probing
\* (circuit_breaker.py:59-87).
ClosedBelowThreshold ==
    breaker = "CLOSED" =>
        /\ consecutive < FailureThreshold
        /\ Cardinality(RecentFailures) < FailureThreshold

\* An open breaker stays open for its recovery timeout: neither the late success
\* of a caller admitted before it opened nor a late failure shortens it, and no
\* failure starts it again (circuit_breaker.py:53-69).
OpenForTheTimeout ==
    [][breaker = "OPEN" =>
         /\ breaker' # "OPEN" => time >= changed + RecoveryTimeout
         /\ breaker' = "OPEN" /\ changed' # changed => time >= changed + RecoveryTimeout
      ]_breakerVars

\* Callers admitted before the breaker opened do go on, but each of them sends at
\* most one more attempt until it is half open (circuit_breaker.py:132-140).
OneAttemptPastOpening ==
    breaker = "OPEN" /\ ~Recovered => \A c \in Callers : sinceOpen[c] <= 1
=============================================================================
