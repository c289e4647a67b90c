------------------------------ MODULE ModelQuota ------------------------------
(***************************************************************************)
(* The sliding-window limiter of one model (models/rate_limiter.py,        *)
(* RPMWaiter).  Calls ask for a slot before they go to the model: a call   *)
(* that must wait reserves its slot at the time its wait ends, so the two  *)
(* histories are in the order of the reservations and not of their times.  *)
(* The answers book the tokens they cost on the oldest open reservation,   *)
(* whoever made it.  The histories are sets here: a slot is the number of  *)
(* the call that reserved it, an entry of tokens has a number of its own.  *)
(*                                                                         *)
(* A tick is the smallest wait the code asks for (0.1 s).                  *)
(***************************************************************************)
EXTENDS Integers, Sequences, FiniteSets
Sets == INSTANCE FiniteSetsExt

CONSTANTS
    RPM, TPM,       \* the limits of the model on the active tier (gemini_models.json)
    Window,         \* window (60 s) in ticks
    DedupTicks,     \* 5 s in ticks
    Estimates,      \* token counts a call may be estimated at
    Actuals,        \* token counts an answer may report
    MaxWaits,       \* values of max_wait; NoLimit when the caller gives none
    NoLimit,
    MaxRequests,    \* bound of the number of calls
    MaxNow          \* bound of the clock

ASSUME QuotaAssumption ==
    /\ RPM \in Nat \ {0} /\ TPM \in Nat /\ Window \in Nat \ {0}
    /\ DedupTicks \in Nat /\ NoLimit \in Nat
    /\ MaxRequests \in Nat /\ MaxNow \in Nat
    /\ Estimates \subseteq Nat /\ Actuals \subseteq Nat \ {0} /\ MaxWaits \subseteq Nat

VARIABLES
    now,
    history,    \* histories[model]: the calls whose slots it holds
    tokens,     \* token_histories[model]
    calls,      \* the calls so far, in the order they asked
    orderly     \* no call failed or was answered late, twice or out of turn (for the properties)

quotaVars == <<now, history, tokens, calls, orderly>>

-----------------------------------------------------------------------------
(* A call is [phase, start, used]: granted until it is answered (once or     *)
(* twice) or fails, or refused.  An entry of tokens is [nth, at, tok, fin];  *)
(* its call is there for the properties: who reserved it (0: nobody).        *)

QuotaInit ==
    /\ now = 0
    /\ history = {}
    /\ tokens = {}
    /\ calls = <<>>
    /\ orderly = TRUE

-----------------------------------------------------------------------------
(* check_and_wait                                                          *)

InWindow(t) == now <= t + Window
LiveHistory == {c \in history : InWindow(calls[c].start)}
LiveTokens == {e \in tokens : InWindow(e.at)}

\* Until t leaves the window, and never less than a tick.
WaitFor(t) == IF t + Window > now + 1 THEN t + Window - now ELSE 1

\* history[len(history) - rpm_limit]: the RPM-th from the end.
RequestWait_First(h) == IF Cardinality(h) < RPM THEN 0 ELSE WaitFor(calls[Sets!Min(h)].start)
FromEnd(h, k) == CHOOSE c \in h : Cardinality({d \in h : d >= c}) = k
RequestWait(h) == IF Cardinality(h) < RPM THEN 0 ELSE WaitFor(calls[FromEnd(h, RPM)].start)

Sum(t) == Sets!MapThenSumSet(LAMBDA e : e.tok, t)
UpTo(t, e) == {d \in t : d.nth <= e.nth}
First(t) == CHOOSE e \in t : \A d \in t : e.nth <= d.nth
Last(t) == CHOOSE e \in t : \A d \in t : d.nth <= e.nth

\* The first entry whose expiry, with that of the entries before it, makes
\* room; the last entry when none does.
ExpiryNeeded(t, missing) ==
    First({e \in t : Sum(UpTo(t, e)) >= missing} \cup {Last(t)}).at

ExpiryWait(t, est) ==
    IF Sum(t) + est <= TPM THEN 0
    ELSE IF t = {} THEN WaitFor(now)
    ELSE WaitFor(ExpiryNeeded(t, Sum(t) + est - TPM))

\* Nine tenths of the limit answered for: wait for the oldest answer.
Finalized(t) == {e \in t : e.fin}
OldestAt(t) == IF t = {} THEN now ELSE Sets!Min({e.at : e \in t})
CeilingWait(t) ==
    IF Sum(Finalized(t)) < (TPM * 9) \div 10 THEN 0 ELSE WaitFor(OldestAt(Finalized(t)))

Longer(a, b) == IF a >= b THEN a ELSE b
TokenWait(t, est) ==
    IF TPM = 0 \/ est = 0 THEN 0 ELSE Longer(ExpiryWait(t, est), CeilingWait(t))

Refuse == calls' = Append(calls, [phase |-> "refused", start |-> now, used |-> 0])

\* A call that can never fit is refused before the lock is taken.
TooLarge(est) ==
    /\ TPM > 0 /\ est > TPM
    /\ Refuse
    /\ UNCHANGED <<history, tokens>>

NextEntry(t) == IF t = {} THEN 1 ELSE Last(t).nth + 1

Reserve(est, wait) ==
    /\ calls' = Append(calls, [phase |-> "granted", start |-> now + wait, used |-> 0])
    /\ history' = LiveHistory \cup {Len(calls) + 1}
    /\ tokens' = IF est = 0 THEN LiveTokens
                 ELSE LiveTokens \cup {[nth |-> NextEntry(LiveTokens), at |-> now + wait,
                                       tok |-> est, fin |-> FALSE, call |-> Len(calls) + 1]}

CheckAndWait(est, maxWait) ==
    LET wait == Longer(RequestWait(LiveHistory), TokenWait(LiveTokens, est))
    IN /\ Len(calls) < MaxRequests
       /\ \/ TooLarge(est)
          \/ /\ TPM = 0 \/ est <= TPM
             /\ IF maxWait # NoLimit /\ wait > maxWait
                THEN Refuse /\ history' = LiveHistory /\ tokens' = LiveTokens
                ELSE Reserve(est, wait)
       /\ UNCHANGED <<now, orderly>>

-----------------------------------------------------------------------------
(* record_actual_tokens, called by after_model_callback                    *)

Open(t) == {e \in t : ~e.fin}
Oldest_Newest(t) == Last(t)
Oldest(t) == First(t)

RecentlyBooked(e, actual) ==
    e.fin /\ now <= e.at + DedupTicks /\ e.at <= now + DedupTicks /\ e.tok = actual

RecordTokens(actual) ==
    LET t == LiveTokens
        oldest == Oldest(Open(t))
    IN tokens' =
         IF Open(t) # {}
         THEN (t \ {oldest}) \cup {[oldest EXCEPT !.tok = actual, !.fin = TRUE]}
         ELSE IF t # {} /\ RecentlyBooked(Last(t), actual) THEN t
         ELSE t \cup {[nth |-> NextEntry(t), at |-> now, tok |-> actual, fin |-> TRUE,
                       call |-> 0]}

InTurn(c) ==
    /\ \A d \in 1..(c - 1) : calls[d].phase # "granted"
    /\ InWindow(calls[c].start)

\* The sleep is over and the model has been called.
Called(c) == calls[c].phase = "granted" /\ calls[c].start <= now

Answer(c, actual) ==
    /\ Called(c)
    /\ calls' = [calls EXCEPT ![c] = [@ EXCEPT !.phase = "answered", !.used = actual]]
    /\ RecordTokens(actual)
    /\ orderly' = (orderly /\ InTurn(c))
    /\ UNCHANGED <<now, history>>

\* The callback runs again for an answer it has recorded.
AnswerAgain(c) ==
    /\ calls[c].phase = "answered"
    /\ calls' = [calls EXCEPT ![c] = [@ EXCEPT !.phase = "repeated"]]
    /\ RecordTokens(calls[c].used)
    /\ orderly' = FALSE
    /\ UNCHANGED <<now, history>>

\* The model refuses or the connection breaks: nothing is recorded.
Fail(c) ==
    /\ Called(c)
    /\ calls' = [calls EXCEPT ![c] = [@ EXCEPT !.phase = "failed"]]
    /\ orderly' = FALSE
    /\ UNCHANGED <<now, history, tokens>>

QuotaTick ==
    /\ now < MaxNow
    /\ now' = now + 1
    /\ UNCHANGED <<history, tokens, calls, orderly>>

QuotaNext ==
    \/ \E est \in Estimates, mw \in MaxWaits : CheckAndWait(est, mw)
    \/ \E c \in 1..Len(calls) : Fail(c) \/ AnswerAgain(c)
    \/ \E c \in 1..Len(calls), actual \in Actuals : Answer(c, actual)
    \/ QuotaTick

QuotaSpec == QuotaInit /\ [][QuotaNext]_quotaVars

-----------------------------------------------------------------------------
(* Properties                                                              *)

Granted == {c \in 1..Len(calls) : calls[c].phase # "refused"}

\* No window holds more slots than the model's requests per minute, although
\* slots are reserved ahead of time and out of order (rate_limiter.py:349
\* counts back from the end of a history that nothing sorts).
RequestsWithinQuota ==
    \A c \in Granted :
        Cardinality({d \in Granted : /\ calls[c].start <= calls[d].start
                                     /\ calls[d].start < calls[c].start + Window}) <= RPM

\* While every call is answered once, in turn and within a window of its slot,
\* the tokens of an answer are booked on the reservation of its own call
\* (rate_limiter.py:439 takes the oldest open reservation, whoever made it).
BookedOnItsOwnCall ==
    orderly => \A e \in tokens : e.fin => e.call # 0 /\ e.tok = calls[e.call].used
=============================================================================
