----------------------------- MODULE MCServices ------------------------------
(* What an audit calls: the three services in front of a model, and the        *)
(* posting of its review by the only worker.  They share no state: subject is  *)
(* the one that a behaviour is about, the others stay as they are.             *)
EXTENDS ModelQuota, CircuitBreaker, DepletedModels, ReviewSubmission

CONSTANTS c1, c2, p1, p2, w1

VARIABLE subject

vars == <<subject, quotaVars, breakerVars, depletionVars, subVars>>

\* One worker has no tier in its environment.
MCEnvTier == [p \in Procs |-> IF p = p1 THEN Unset ELSE "paid"]

\* A daily and a per-minute quota in one message with a short delay, and an error
\* that says no more than how long to wait.
MCErrors == {[words |-> {"day", "request"}, details |-> 1, message |-> 0, headers |-> 0],
             [words |-> {}, details |-> 0, message |-> 0, headers |-> 1]}

QuietDepletion == metaTier = Unset /\ confTier = "free"
QuietSubmission == online[w1]

MCInit ==
    /\ subject \in {"quota", "breaker", "depletion", "submission"}
    /\ QuotaInit /\ BreakerInit /\ DepletionInit /\ SubInit
    /\ subject # "depletion" => QuietDepletion
    /\ subject # "submission" => QuietSubmission

NotQuota == UNCHANGED <<subject, breakerVars, depletionVars, subVars>>
NotBreaker == UNCHANGED <<subject, quotaVars, depletionVars, subVars>>
NotDepletion == UNCHANGED <<subject, quotaVars, breakerVars, subVars>>
NotSubmission == UNCHANGED <<subject, quotaVars, breakerVars, depletionVars>>

MCNext ==
    \/ subject = "quota" /\ QuotaNext /\ NotQuota
    \/ subject = "breaker" /\ BreakerNext /\ NotBreaker
    \/ subject = "depletion" /\ DepletionNext /\ NotDepletion
    \/ subject = "submission" /\ SubNext /\ NotSubmission

MCSpec == MCInit /\ [][MCNext]_vars
=============================================================================
