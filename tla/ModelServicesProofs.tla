------------------------- MODULE ModelServicesProofs --------------------------
(***************************************************************************)
(* The three services in front of a model, which share no state: the       *)
(* circuit breaker, the memory of the models that are depleted, and the    *)
(* limiter of a model's requests and tokens.                               *)
(***************************************************************************)
EXTENDS CircuitBreaker, DepletedModels, ModelQuota, NumberFacts, SequenceTheorems

(***************************************************************************)
(* The breaker for any number of callers, any threshold, window, timeout   *)
(* and number of retries.  A caller that was admitted is not asked again,  *)
(* so what bounds its attempts past the opening is the look at the breaker *)
(* after a failure: an attempt that is counted is the caller's last.  The  *)
(* list of failures is never longer than the row (InRow): success clears   *)
(* both, time shortens only the list.                                      *)
(***************************************************************************)

\* An attempt sent while the breaker stayed open ended its call.
CountedWasLast ==
    breaker = "OPEN" =>
        \A c \in Callers : sinceOpen[c] = 0 \/ (sinceOpen[c] = 1 /\ attempt[c] = NoAttempt)

\* Every failure on the list has a place of its own in the row of failures.
InRow ==
    /\ failures \subseteq [nth : 1..consecutive, at : Nat]
    /\ IsFiniteSet(failures) /\ Cardinality(failures) <= consecutive

BreakerInv ==
    /\ time \in Nat /\ changed \in Nat
    /\ breaker \in {"CLOSED", "OPEN", "HALF_OPEN"}
    /\ consecutive \in Nat
    /\ InRow
    /\ attempt \in [Callers -> 0..NoAttempt]
    /\ breaker = "CLOSED" => consecutive < FailureThreshold
    /\ CountedWasLast

-----------------------------------------------------------------------------
LEMMA IdleIsNoAttempt == NoAttempt \in Nat /\ NoAttempt \notin Attempts /\ Attempts \subseteq 0..NoAttempt
BY BreakerAssumption DEF NoAttempt, Attempts

LEMMA SeenIs ==
    ASSUME BreakerInv
    PROVE  /\ Seen \in {"CLOSED", "OPEN", "HALF_OPEN"} /\ SeenSince \in Nat
           /\ Seen = "OPEN" => breaker = "OPEN"
           /\ Seen = "CLOSED" => breaker = "CLOSED"
BY DEF BreakerInv, Seen, SeenSince, Recovered

LEMMA EmptyRow == ASSUME failures' = {}, consecutive' \in Nat PROVE InRow'
<1>1. IsFiniteSet({}) /\ Cardinality({}) = 0
  BY FS_EmptySet
<1> QED
  BY <1>1 DEF InRow

LEMMA SameRow ==
    ASSUME InRow, UNCHANGED <<failures, consecutive>>
    PROVE  InRow'
BY DEF InRow

\* One more failure, after those that are too old have gone.
LEMMA LongerRow ==
    ASSUME InRow, consecutive \in Nat, time \in Nat, RecordFailure
    PROVE  InRow'
<1>1. PICK new : new = [nth |-> consecutive + 1, at |-> time]
  OBVIOUS
<1>2. failures' = RecentFailures \cup {new} /\ consecutive' = consecutive + 1
  BY <1>1 DEF RecordFailure
<1>3. RecentFailures \subseteq failures
  BY DEF RecentFailures
<1>4. IsFiniteSet(RecentFailures) /\ Cardinality(RecentFailures) <= Cardinality(failures)
  BY <1>3, FS_Subset DEF InRow
<1>5. Cardinality(RecentFailures) \in Nat /\ Cardinality(failures) \in Nat
  BY <1>4, FS_CardinalityType DEF InRow
<1>6. /\ IsFiniteSet(failures')
      /\ Cardinality(failures') \in {Cardinality(RecentFailures), Cardinality(RecentFailures) + 1}
  BY <1>2, <1>4, FS_AddElement
<1>7. failures' \subseteq [nth : 1..consecutive', at : Nat]
  <2>1. new \in [nth : 1..consecutive', at : Nat]
    BY <1>1, <1>2
  <2>2. \A f \in failures : f \in [nth : 1..consecutive', at : Nat]
    BY <1>2 DEF InRow
  <2> QED
    BY <1>2, <1>3, <2>1, <2>2
<1>8. Cardinality(failures') <= consecutive'
  BY <1>2, <1>4, <1>5, <1>6 DEF InRow
<1> QED
  BY <1>6, <1>7, <1>8 DEF InRow

\* What an answer does to the breaker.
LEMMA SuccessIs ==
    ASSUME BreakerInv, RecordSuccess, time' = time
    PROVE  /\ changed' \in Nat /\ consecutive' \in Nat /\ InRow'
           /\ breaker' \in {"CLOSED", "OPEN", "HALF_OPEN"}
           /\ breaker' = "CLOSED" => consecutive' < FailureThreshold
           /\ breaker' = "OPEN" => breaker = "OPEN"
<1>1. FailureThreshold \in Nat /\ 0 < FailureThreshold
  BY BreakerAssumption
<1>2. CASE Seen = "HALF_OPEN"
  BY <1>1, <1>2, EmptyRow DEF RecordSuccess, BreakerInv
<1>3. CASE Seen = "CLOSED"
  BY <1>1, <1>3, SeenIs, EmptyRow DEF RecordSuccess, BreakerInv
<1>4. CASE Seen = "OPEN"
  BY <1>4, SeenIs, SameRow DEF RecordSuccess, BreakerInv
<1> QED
  BY <1>2, <1>3, <1>4, SeenIs

\* What a failure does to it: it opens or it stays below the threshold.
LEMMA FailureIs ==
    ASSUME BreakerInv, RecordFailure, time' = time
    PROVE  /\ changed' \in Nat /\ consecutive' \in Nat /\ InRow'
           /\ breaker' \in {"CLOSED", "OPEN", "HALF_OPEN"}
           /\ breaker' = "CLOSED" => consecutive' < FailureThreshold
<1>1. FailureThreshold \in Nat /\ consecutive \in Nat /\ consecutive' = consecutive + 1
  BY BreakerAssumption DEF BreakerInv, RecordFailure
<1>0. InRow'
  BY LongerRow DEF BreakerInv
<1>2. CASE breaker' = "OPEN" /\ changed' = time
  BY <1>0, <1>1, <1>2 DEF BreakerInv
<1>3. CASE /\ breaker' = Seen /\ changed' = SeenSince
           /\ Seen = "CLOSED" => ~(consecutive' >= FailureThreshold)
  BY <1>0, <1>1, <1>3, SeenIs
<1> QED
  BY <1>2, <1>3 DEF RecordFailure

\* An attempt of c that leaves the breaker open, as it was, is counted, and it was c's
\* last: c gave up or had its answer.
LEMMA CountKeepsInv ==
    ASSUME BreakerInv, NEW c \in Callers, attempt[c] \in Attempts, CountAttempt(c),
           NEW a \in 0..NoAttempt, attempt' = [attempt EXCEPT ![c] = a],
           breaker' = "OPEN" => a = NoAttempt
    PROVE  CountedWasLast'
<1> SUFFICES ASSUME breaker' = "OPEN", NEW d \in Callers
             PROVE  sinceOpen'[d] = 0 \/ (sinceOpen'[d] = 1 /\ attempt'[d] = NoAttempt)
  BY DEF CountedWasLast, NoAttempt
<1>1. attempt[c] # NoAttempt
  BY IdleIsNoAttempt
<1>2. CASE breaker # "OPEN"
  BY <1>2 DEF CountAttempt
<1>3. CASE breaker = "OPEN"
  <2>1. sinceOpen[d] = 0 \/ (sinceOpen[d] = 1 /\ attempt[d] = NoAttempt)
    BY <1>3 DEF BreakerInv, CountedWasLast
  <2>2. sinceOpen'[d] = IF d = c THEN sinceOpen[d] + 1 ELSE sinceOpen[d]
    BY <1>3 DEF CountAttempt
  <2>3. attempt'[d] = IF d = c THEN NoAttempt ELSE attempt[d]
    BY DEF BreakerInv
  <2> QED
    BY <1>1, <2>1, <2>2, <2>3
<1> QED
  BY <1>2, <1>3

LEMMA AdmitKeepsInv ==
    ASSUME BreakerInv, NEW c \in Callers, Admit(c)
    PROVE  BreakerInv'
<1>1. /\ breaker' = Seen /\ changed' = SeenSince
      /\ UNCHANGED <<time, consecutive, sinceOpen>> /\ InRow'
  BY SameRow DEF Admit, BreakerInv
<1>2. CASE Seen = "OPEN"
  <2>1. attempt' = attempt /\ breaker = "OPEN"
    BY <1>2, SeenIs DEF Admit
  <2> QED
    BY <1>1, <1>2, <2>1, SeenIs DEF BreakerInv, CountedWasLast, NoAttempt
<1>3. CASE Seen # "OPEN"
  <2>1. attempt' = [attempt EXCEPT ![c] = 0]
    BY <1>3 DEF Admit
  <2>2. attempt' \in [Callers -> 0..NoAttempt]
    BY <2>1, IdleIsNoAttempt DEF BreakerInv
  <2>3. NoAttempt' = NoAttempt
    BY DEF NoAttempt
  <2>4. CountedWasLast'
    BY <1>1, <1>3 DEF CountedWasLast
  <2> QED
    BY <1>1, <2>2, <2>3, <2>4, SeenIs DEF BreakerInv
<1> QED
  BY <1>2, <1>3

LEMMA SucceedKeepsInv ==
    ASSUME BreakerInv, NEW c \in Callers, Succeed(c)
    PROVE  BreakerInv'
<1>1. /\ attempt[c] \in Attempts /\ RecordSuccess /\ CountAttempt(c) /\ time' = time
      /\ attempt' = [attempt EXCEPT ![c] = NoAttempt]
  BY DEF Succeed
<1>2. NoAttempt \in 0..NoAttempt /\ NoAttempt' = NoAttempt
  BY IdleIsNoAttempt DEF NoAttempt
<1>3. attempt' \in [Callers -> 0..NoAttempt]
  BY <1>1, <1>2 DEF BreakerInv
<1>4. CountedWasLast'
  BY <1>1, <1>2, CountKeepsInv
<1>5. time' \in Nat
  BY <1>1 DEF BreakerInv
<1> QED
  BY <1>1, <1>2, <1>3, <1>4, <1>5, SuccessIs DEF BreakerInv

LEMMA FailKeepsInv ==
    ASSUME BreakerInv, NEW c \in Callers, NEW transient \in BOOLEAN, FailAttempt(c, transient)
    PROVE  BreakerInv'
<1> DEFINE a == IF GivesUp(c, transient) THEN NoAttempt ELSE attempt[c] + 1
<1>1. /\ attempt[c] \in Attempts /\ RecordFailure /\ CountAttempt(c) /\ time' = time
      /\ attempt' = [attempt EXCEPT ![c] = a]
  BY DEF FailAttempt
<1>2. NoAttempt' = NoAttempt
  BY DEF NoAttempt
<1>3. a \in 0..NoAttempt
  BY <1>1, BreakerAssumption DEF Attempts, NoAttempt
<1>4. breaker' = "OPEN" => a = NoAttempt
  BY DEF GivesUp
<1> HIDE DEF a
<1>5. attempt' \in [Callers -> 0..NoAttempt]
  BY <1>1, <1>3 DEF BreakerInv
<1>6. CountedWasLast'
  BY <1>1, <1>3, <1>4, CountKeepsInv
<1>7. time' \in Nat
  BY <1>1 DEF BreakerInv
<1> QED
  BY <1>1, <1>2, <1>5, <1>6, <1>7, FailureIs DEF BreakerInv

\* The inductive invariant of the breaker, for every number of callers and retries.
THEOREM BreakerInvariant == BreakerSpec => []BreakerInv
<1>1. BreakerInit => BreakerInv
  <2> SUFFICES ASSUME BreakerInit PROVE BreakerInv
    OBVIOUS
  <2>1. attempt \in [Callers -> 0..NoAttempt]
    BY IdleIsNoAttempt DEF BreakerInit
  <2>2. 0 < FailureThreshold
    BY BreakerAssumption
  <2>3. InRow
    BY FS_EmptySet DEF BreakerInit, InRow
  <2> QED
    BY <2>1, <2>2, <2>3 DEF BreakerInit, BreakerInv, CountedWasLast
<1>2. BreakerInv /\ [BreakerNext]_breakerVars => BreakerInv'
  <2>1. ASSUME BreakerInv, BreakerTick PROVE BreakerInv'
    <3>1. time' \in Nat /\ InRow'
      BY <2>1, SameRow DEF BreakerInv, BreakerTick
    <3> QED
      BY <2>1, <3>1 DEF BreakerTick, BreakerInv, CountedWasLast, NoAttempt
  <2>2. ASSUME BreakerInv, UNCHANGED breakerVars PROVE BreakerInv'
    <3>1. InRow'
      BY <2>2, SameRow DEF breakerVars, BreakerInv
    <3> QED
      BY <2>2, <3>1 DEF breakerVars, BreakerInv, CountedWasLast, NoAttempt
  <2> QED
    BY <2>1, <2>2, AdmitKeepsInv, SucceedKeepsInv, FailKeepsInv DEF BreakerNext
<1> QED
  BY <1>1, <1>2, PTL DEF BreakerSpec

-----------------------------------------------------------------------------
\* A caller sends at most one attempt into a breaker that has opened
\* (circuit_breaker.py:132-140), whatever the number of retries and of callers.
THEOREM OneAttemptEach == BreakerSpec => []OneAttemptPastOpening
<1>1. BreakerInv => OneAttemptPastOpening
  BY DEF BreakerInv, CountedWasLast, OneAttemptPastOpening
<1> QED
  BY <1>1, BreakerInvariant, PTL

\* A closed breaker has seen fewer failures than its threshold, in a row and within its
\* window (circuit_breaker.py:59-87), for any threshold and window.
THEOREM ClosedMeansFewFailures == BreakerSpec => []ClosedBelowThreshold
<1>1. BreakerInv => ClosedBelowThreshold
  <2> SUFFICES ASSUME BreakerInv, breaker = "CLOSED" PROVE ClosedBelowThreshold
    BY DEF ClosedBelowThreshold
  <2>1. /\ consecutive \in Nat /\ consecutive < FailureThreshold /\ FailureThreshold \in Nat
        /\ IsFiniteSet(failures) /\ Cardinality(failures) <= consecutive
    BY BreakerAssumption DEF BreakerInv, InRow
  <2>2. RecentFailures \subseteq failures
    BY DEF RecentFailures
  <2>3. IsFiniteSet(RecentFailures) /\ Cardinality(RecentFailures) <= Cardinality(failures)
    BY <2>1, <2>2, FS_Subset
  <2>4. Cardinality(RecentFailures) \in Nat /\ Cardinality(failures) \in Nat
    BY <2>1, <2>3, FS_CardinalityType
  <2> QED
    BY <2>1, <2>3, <2>4 DEF ClosedBelowThreshold
<1> QED
  BY <1>1, BreakerInvariant, PTL

\* The list of failures never holds more than the row: the window (circuit_breaker.py:81)
\* never opens a breaker that the count in a row leaves closed.
THEOREM WindowNeverDecides == BreakerSpec => [](Cardinality(failures) <= consecutive)
<1>1. BreakerInv => Cardinality(failures) <= consecutive
  BY DEF BreakerInv, InRow
<1> QED
  BY <1>1, BreakerInvariant, PTL

\* Nothing shortens the time a breaker stays open, and nothing restarts it
\* (circuit_breaker.py:53-69), for any timeout and any number of late answers.
THEOREM OpenLastsForTheTimeout == BreakerSpec => OpenForTheTimeout
<1> DEFINE Step == breaker = "OPEN" =>
         /\ breaker' # "OPEN" => time >= changed + RecoveryTimeout
         /\ breaker' = "OPEN" /\ changed' # changed => time >= changed + RecoveryTimeout
<1>1. BreakerNext => Step
  <2> SUFFICES ASSUME BreakerNext, breaker = "OPEN", ~Recovered
               PROVE  breaker' = "OPEN" /\ changed' = changed
    BY DEF Recovered
  <2>1. Seen = "OPEN" /\ SeenSince = changed
    BY DEF Seen, SeenSince
  <2>2. ASSUME NEW c \in Callers, Admit(c) PROVE breaker' = "OPEN" /\ changed' = changed
    BY <2>1, <2>2 DEF Admit
  <2>3. ASSUME NEW c \in Callers, Succeed(c) PROVE breaker' = "OPEN" /\ changed' = changed
    BY <2>1, <2>3 DEF Succeed, RecordSuccess
  <2>4. ASSUME NEW c \in Callers, NEW t \in BOOLEAN, FailAttempt(c, t)
        PROVE  breaker' = "OPEN" /\ changed' = changed
    BY <2>1, <2>4 DEF FailAttempt, RecordFailure
  <2>5. ASSUME BreakerTick PROVE breaker' = "OPEN" /\ changed' = changed
    BY <2>5 DEF BreakerTick
  <2> QED
    BY <2>2, <2>3, <2>4, <2>5 DEF BreakerNext
<1>2. UNCHANGED breakerVars => Step
  BY DEF breakerVars
<1>3. [BreakerNext]_breakerVars => [Step]_breakerVars
  BY <1>1
<1> QED
  BY <1>3, PTL DEF BreakerSpec, OpenForTheTimeout

-----------------------------------------------------------------------------
(***************************************************************************)
(* The registry of depleted models, for any number of workers, marks,      *)
(* cooldowns and errors, whatever tier each worker takes itself to be on.  *)
(* What is in a table or in Firestore comes from a mark: no record of a    *)
(* tier runs longer than some mark of that tier (Backed), and the document *)
(* is the end of the last daily exhaustion unless another mark came since  *)
(* (DayKept).                                                              *)
(***************************************************************************)

Record == [at : Nat, cooldown : Nat]
Mark == [tier : Tiers, at : Nat, until : Nat, daily : BOOLEAN, stored : BOOLEAN]
Cache == [at : Nat, tier : Tiers \cup {Unset}]

DepletionTypeOK ==
    /\ tick \in Nat /\ tick > 0
    /\ table \in [Procs -> [Tiers -> Record]]
    /\ document \in [Tiers -> Nat]
    /\ metaTier \in Tiers \cup {Unset}
    /\ confTier \in Tiers \cup {Unset}
    /\ metaCache \in [Procs -> Cache]
    /\ confCache \in [Procs -> Cache]
    /\ \A p \in Procs : confCache[p].tier \in Tiers
    /\ marks \subseteq Mark
    /\ verdict \in [tier : Tiers \cup {Unset}, depleted : BOOLEAN, read : BOOLEAN]

\* What says that a model is out of quota comes from a mark of the same tier.
Backed ==
    /\ \A p \in Procs, t \in Tiers : table[p][t] # NoRecord =>
          \E k \in MarksOf(t) : table[p][t].at + table[p][t].cooldown <= k.until
    /\ \A t \in Tiers : document[t] # 0 => \E k \in MarksOf(t) : document[t] <= k.until

\* The end of a daily quota stays in Firestore until another error of the tier.
DayKept ==
    /\ \A k \in marks : /\ k.at <= tick
                        /\ k.daily => k.until = k.at + DayCooldown
    /\ \A k \in marks : k.daily /\ k.stored =>
          document[k.tier] = k.until \/ \E other \in MarksOf(k.tier) \ {k} : other.at >= k.at

DepletionInv ==
    /\ DepletionTypeOK
    /\ Backed
    /\ DayKept
    /\ NoPhantomDepletion
    /\ DailyExhaustionLasts

-----------------------------------------------------------------------------
(* What the operators give                                                 *)

LEMMA CooldownIs ==
    ASSUME NEW err \in Errors
    PROVE  /\ CooldownOf(err) \in Nat
           /\ "day" \in err.words => CooldownOf(err) = DayCooldown
<1>1. /\ err.details \in Nat /\ err.message \in Nat /\ err.headers \in Nat
      /\ DayCooldown \in Nat /\ MinuteCooldown \in Nat /\ BusyCooldown \in Nat
      /\ DefaultCooldown \in Nat
  BY DepletionAssumption
<1>2. RetryAfter(err) \in Nat
  BY <1>1 DEF RetryAfter
<1>3. CASE "day" \in err.words
  <2>1. QuotaType(err) = "RPD"
    BY <1>3 DEF QuotaType
  <2> QED BY <1>1, <2>1 DEF CooldownOf
<1>4. CASE "day" \notin err.words
  <2>1. QuotaType(err) \in {"TPM", "RPM", "none"}
    BY <1>4 DEF QuotaType
  <2>2. CASE QuotaType(err) \in {"TPM", "RPM"}
    <3>1. QuotaType(err) # "RPD" /\ QuotaType(err) # "none"
      BY <2>2
    <3>2. CooldownOf(err) = Or(RetryAfter(err), MinuteCooldown)
      BY <2>2, <3>1 DEF CooldownOf
    <3> QED BY <1>1, <1>2, <1>4, <3>2 DEF Or
  <2>3. CASE QuotaType(err) = "none" /\ "unavailable" \in err.words
    BY <1>1, <1>4, <2>3 DEF CooldownOf
  <2>4. CASE QuotaType(err) = "none" /\ "unavailable" \notin err.words
    <3>1. CooldownOf(err) = IF RetryAfter(err) > BusyCooldown THEN RetryAfter(err)
                            ELSE IF RetryAfter(err) > 0 THEN BusyCooldown ELSE DefaultCooldown
      BY <2>4 DEF CooldownOf
    <3> QED BY <1>1, <1>2, <1>4, <3>1
  <2> QED BY <2>1, <2>2, <2>3, <2>4
<1> QED BY <1>3, <1>4

LEMMA SeenType ==
    ASSUME DepletionTypeOK, NEW p \in Procs, NEW up
    PROVE  /\ MetaSeen(p, up.meta) \in Cache
           /\ ConfSeen(p, up.conf) \in Cache /\ ConfSeen(p, up.conf).tier \in Tiers
<1>1. metaCache[p] \in Cache /\ confCache[p] \in Cache /\ confCache[p].tier \in Tiers
  BY DEF DepletionTypeOK
<1>2. Unset \in Tiers \cup {Unset}
  OBVIOUS
<1>3. MetaSeen(p, up.meta) \in Cache
  BY <1>1, <1>2 DEF MetaSeen, Cache, DepletionTypeOK
<1>4. ConfSeen(p, up.conf) \in Cache /\ ConfSeen(p, up.conf).tier \in Tiers
  BY <1>1 DEF ConfSeen, Cache, DepletionTypeOK
<1> QED BY <1>3, <1>4

LEMMA TierType ==
    ASSUME DepletionTypeOK, NEW p \in Procs, NEW up
    PROVE  TierOf(p, up) \in Tiers
<1>1. ConfTierSeen(p, up.conf) \in Tiers
  BY SeenType DEF ConfTierSeen, Tiers
<1> QED BY <1>1, SeenType, DepletionAssumption DEF TierOf, Cache

LEMMA ResolveType ==
    ASSUME DepletionTypeOK, NEW p \in Procs, NEW up, ResolveTier(p, up)
    PROVE  /\ metaCache' \in [Procs -> Cache] /\ confCache' \in [Procs -> Cache]
           /\ \A q \in Procs : confCache'[q].tier \in Tiers
BY SeenType DEF ResolveTier, DepletionTypeOK

LEMMA NoRecordType == NoRecord \in Record
BY DEF NoRecord, Record

LEMMA NoVerdictType == NoVerdict \in [tier : Tiers \cup {Unset}, depleted : BOOLEAN, read : BOOLEAN]
BY DEF NoVerdict

-----------------------------------------------------------------------------
(* The steps                                                               *)

\* A step that gives no verdict and marks nothing, and forgets at most.
LEMMA QuietInv ==
    ASSUME DepletionInv, verdict' = NoVerdict, UNCHANGED <<document, marks>>,
           tick' \in Nat, tick <= tick', DepletionTypeOK',
           \A p \in Procs, t \in Tiers : table'[p][t] # NoRecord => table'[p][t] = table[p][t]
    PROVE  DepletionInv'
<1>1. \A t \in Tiers : MarksOf(t)' = MarksOf(t)
  BY DEF MarksOf
<1>2. Backed'
  BY <1>1 DEF DepletionInv, Backed
<1>3. DayKept'
  <2>1. \A k \in marks : k.at \in Nat /\ k.tier \in Tiers
    BY DEF DepletionInv, DepletionTypeOK, Mark
  <2>2. tick \in Nat
    BY DEF DepletionInv, DepletionTypeOK
  <2>3. \A k \in marks' : k.at <= tick' /\ (k.daily => k.until = k.at + DayCooldown)
    BY <2>1, <2>2 DEF DepletionInv, DayKept
  <2> QED BY <1>1, <2>1, <2>3 DEF DepletionInv, DayKept
<1> QED BY <1>2, <1>3 DEF DepletionInv, NoPhantomDepletion, DailyExhaustionLasts

LEMMA MarkInv ==
    ASSUME DepletionInv, NEW p \in Procs, NEW err \in Errors, NEW up, NEW written \in BOOLEAN,
           MarkDepleted(p, err, up, written)
    PROVE  DepletionInv'
<1>1. PICK t \in Tiers : t = TierOf(p, up)
  BY TierType DEF DepletionInv
<1>2. PICK c \in Nat : c = CooldownOf(err) /\ ("day" \in err.words => c = DayCooldown)
  BY CooldownIs
<1>3. /\ verdict' = NoVerdict /\ UNCHANGED <<tick, metaTier, confTier>>
      /\ metaCache' \in [Procs -> Cache] /\ confCache' \in [Procs -> Cache]
      /\ \A q \in Procs : confCache'[q].tier \in Tiers
  BY ResolveType DEF MarkDepleted, DepletionInv
<1>4. CASE UNCHANGED <<table, document, marks>>
  <2>1. DepletionTypeOK'
    BY <1>3, <1>4, NoVerdictType DEF DepletionInv, DepletionTypeOK
  <2> QED BY <1>3, <1>4, <2>1, QuietInv DEF DepletionInv, DepletionTypeOK
<1>5. PICK k : k = [tier |-> t, at |-> tick, until |-> tick + c,
                    daily |-> "day" \in err.words, stored |-> written]
  OBVIOUS
<1>6. CASE /\ table' = [table EXCEPT ![p][t] = [at |-> tick, cooldown |-> c]]
           /\ document' = IF written THEN [document EXCEPT ![t] = tick + c] ELSE document
           /\ marks' = marks \cup {k}
  <2>0. tick \in Nat /\ tick + c \in Nat /\ DayCooldown \in Nat /\ DepletionTypeOK
    BY DepletionAssumption DEF DepletionInv, DepletionTypeOK
  <2>1. /\ k \in Mark /\ k.tier = t /\ k.at = tick /\ k.until = tick + c
        /\ k.stored = written /\ (k.daily => c = DayCooldown)
    <3>1. PICK day \in BOOLEAN : day = ("day" \in err.words)
      <4>1. ("day" \in err.words) \in BOOLEAN
        OBVIOUS
      <4> QED BY <4>1, Zenon
    <3>2. k = [tier |-> t, at |-> tick, until |-> tick + c, daily |-> day, stored |-> written]
      BY <1>5, <3>1
    <3>3. k \in Mark
      <4>1. PICK u \in Nat : u = tick + c
        BY <2>0
      <4>2. k = [tier |-> t, at |-> tick, until |-> u, daily |-> day, stored |-> written]
        BY <3>2, <4>1
      <4> QED BY <2>0, <4>2, Zenon DEF Mark
    <3>4. k.tier = t /\ k.at = tick /\ k.until = tick + c
      BY <3>2
    <3>5. k.daily = day /\ k.stored = written
      BY <3>2, Zenon
    <3> QED BY <1>2, <3>1, <3>3, <3>4, <3>5, Zenon
  <2>2. table' \in [Procs -> [Tiers -> Record]] /\ document' \in [Tiers -> Nat]
    <3>1. PICK r : r = [at |-> tick, cooldown |-> c]
      OBVIOUS
    <3>2. r \in Record
      BY <2>0, <3>1 DEF Record
    <3>3. table' \in [Procs -> [Tiers -> Record]]
      BY <1>6, <2>0, <3>1, <3>2 DEF DepletionTypeOK
    <3>4. document' \in [Tiers -> Nat]
      BY <1>6, <2>0 DEF DepletionTypeOK
    <3> QED BY <3>3, <3>4
  <2>3. DepletionTypeOK'
    BY <1>3, <1>6, <2>0, <2>1, <2>2, NoVerdictType DEF DepletionTypeOK
  <2>4. \A u \in Tiers : MarksOf(u) \subseteq MarksOf(u)'
    BY <1>6 DEF MarksOf
  <2>5. k \in MarksOf(t)'
    BY <1>6, <2>1 DEF MarksOf
  <2>6. Backed'
    <3>1. ASSUME NEW q \in Procs, NEW u \in Tiers, table'[q][u] # NoRecord
          PROVE  \E m \in MarksOf(u)' : table'[q][u].at + table'[q][u].cooldown <= m.until
      <4>1. CASE q = p /\ u = t
        <5>1. table'[q][u] = [at |-> tick, cooldown |-> c]
          BY <1>6, <2>0, <4>1 DEF DepletionTypeOK
        <5>2. table'[q][u].at + table'[q][u].cooldown <= k.until
          BY <2>0, <2>1, <5>1
        <5> QED BY <2>5, <4>1, <5>2
      <4>2. CASE ~(q = p /\ u = t)
        <5>1. table'[q][u] = table[q][u]
          BY <1>6, <2>0, <4>2 DEF DepletionTypeOK
        <5> QED BY <2>4, <3>1, <5>1 DEF DepletionInv, Backed
      <4> QED BY <4>1, <4>2
    <3>2. ASSUME NEW u \in Tiers, document'[u] # 0
          PROVE  \E m \in MarksOf(u)' : document'[u] <= m.until
      <4>1. CASE written /\ u = t
        <5>1. document'[u] = k.until
          BY <1>6, <2>0, <2>1, <4>1 DEF DepletionTypeOK
        <5> QED BY <2>0, <2>1, <2>5, <4>1, <5>1
      <4>2. CASE ~(written /\ u = t)
        <5>1. document'[u] = document[u]
          BY <1>6, <2>0, <4>2 DEF DepletionTypeOK
        <5> QED BY <2>4, <3>2, <5>1 DEF DepletionInv, Backed
      <4> QED BY <4>1, <4>2
    <3> QED BY <3>1, <3>2 DEF Backed
  <2>7. \A m \in marks' : m.at <= tick' /\ (m.daily => m.until = m.at + DayCooldown)
    BY <1>3, <1>6, <2>0, <2>1 DEF DepletionInv, DayKept
  <2>8. ASSUME NEW m \in marks', m.daily, m.stored
        PROVE  \/ document'[m.tier] = m.until
               \/ \E other \in MarksOf(m.tier)' \ {m} : other.at >= m.at
    <3>1. CASE m = k
      <4>1. document'[t] = tick + c
        BY <1>6, <2>0, <2>1, <2>8, <3>1 DEF DepletionTypeOK
      <4> QED BY <2>1, <3>1, <4>1
    <3>2. CASE m # k /\ m.tier = t
      <4>1. m \in marks /\ m.at \in Nat /\ m.at <= tick
        BY <1>6, <2>0, <3>2 DEF DepletionInv, DayKept, DepletionTypeOK, Mark
      <4>2. k.at >= m.at
        BY <2>0, <2>1, <4>1
      <4> QED BY <2>5, <3>2, <4>2
    <3>3. CASE m # k /\ m.tier # t
      <4>1. m \in marks /\ m.tier \in Tiers
        BY <1>6, <2>0, <3>3 DEF DepletionTypeOK, Mark
      <4>2. document'[m.tier] = document[m.tier]
        BY <1>6, <2>0, <3>3, <4>1 DEF DepletionTypeOK
      <4> QED BY <2>4, <2>8, <4>1, <4>2 DEF DepletionInv, DayKept
    <3> QED BY <3>1, <3>2, <3>3
  <2>9. DayKept'
    BY <2>7, <2>8 DEF DayKept
  <2> QED BY <1>3, <2>3, <2>6, <2>9 DEF DepletionInv, NoPhantomDepletion, DailyExhaustionLasts
<1> QED BY <1>1, <1>2, <1>4, <1>5, <1>6 DEF MarkDepleted, DocTier

LEMMA AskInv ==
    ASSUME DepletionInv, NEW p \in Procs, NEW up, NEW readable \in BOOLEAN,
           IsDepleted(p, up, readable)
    PROVE  DepletionInv'
<1>1. PICK t \in Tiers : t = TierOf(p, up)
  BY TierType DEF DepletionInv
<1>2. PICK remote : remote = (readable /\ Asks(table[p][t]) /\ document[t] > tick)
  OBVIOUS
<1>3. /\ table' = IF ~Asks(table[p][t]) THEN table
                  ELSE [table EXCEPT ![p][t] = IF remote THEN Cached(t) ELSE NoRecord]
      /\ verdict' = [tier |-> t, read |-> readable,
                     depleted |-> Running(table[p][t]) \/ remote]
      /\ UNCHANGED <<tick, document, metaTier, confTier, marks>>
      /\ metaCache' \in [Procs -> Cache] /\ confCache' \in [Procs -> Cache]
      /\ \A q \in Procs : confCache'[q].tier \in Tiers
  BY <1>1, <1>2, ResolveType DEF IsDepleted, DocTier, DepletionInv
<1>0. DepletionTypeOK /\ tick \in Nat /\ document[t] \in Nat /\ table[p][t] \in Record
  BY DEF DepletionInv, DepletionTypeOK
<1>4. remote => /\ Cached(t) \in Record /\ Cached(t).at + Cached(t).cooldown = document[t]
                /\ document[t] # 0 /\ tick < document[t]
  <2>1. document[t] > tick => /\ Cached(t) \in Record /\ document[t] # 0 /\ tick < document[t]
                              /\ Cached(t).at + Cached(t).cooldown = document[t]
    BY <1>0 DEF Cached, Record
  <2>2. remote => document[t] > tick
    BY <1>2, Zenon
  <2> QED BY <2>1, <2>2, Zenon
<1>5. table' \in [Procs -> [Tiers -> Record]]
  BY <1>0, <1>3, <1>4, NoRecordType DEF DepletionTypeOK
<1>6. verdict' \in [tier : Tiers \cup {Unset}, depleted : BOOLEAN, read : BOOLEAN]
  <2>1. (Running(table[p][t]) \/ remote) \in BOOLEAN
    BY <1>2
  <2> QED BY <1>3, <2>1
<1>7. DepletionTypeOK'
  BY <1>0, <1>3, <1>5, <1>6 DEF DepletionTypeOK
<1>8. \A u \in Tiers : MarksOf(u)' = MarksOf(u)
  BY <1>3 DEF MarksOf
<1>9. Backed'
  <2>1. ASSUME NEW q \in Procs, NEW u \in Tiers, table'[q][u] # NoRecord
        PROVE  \E m \in MarksOf(u) : table'[q][u].at + table'[q][u].cooldown <= m.until
    <3>1. CASE table'[q][u] = table[q][u]
      BY <2>1, <3>1 DEF DepletionInv, Backed
    <3>2. CASE table'[q][u] # table[q][u]
      <4>1. q = p /\ u = t /\ remote /\ table'[q][u] = Cached(t)
        BY <1>0, <1>3, <2>1, <3>2 DEF DepletionTypeOK
      <4> QED BY <1>4, <4>1 DEF DepletionInv, Backed
    <3> QED BY <3>1, <3>2
  <2> QED BY <1>3, <1>8, <2>1 DEF DepletionInv, Backed
<1>10. DayKept'
  <2>1. DayKept /\ marks' = marks /\ tick' = tick /\ document' = document
    BY <1>3 DEF DepletionInv
  <2>2. \A k \in marks : k.tier \in Tiers
    BY <1>0 DEF DepletionTypeOK, Mark
  <2> QED BY <1>8, <2>1, <2>2 DEF DayKept
<1>11. NoPhantomDepletion'
  <2> SUFFICES ASSUME Running(table[p][t]) \/ remote
               PROVE  \E k \in MarksOf(t) : tick <= k.until
    BY <1>3, <1>8 DEF NoPhantomDepletion
  <2>1. \A k \in MarksOf(t) : k.until \in Nat
    BY <1>0 DEF MarksOf, DepletionTypeOK, Mark
  <2>2. CASE Running(table[p][t])
    <3>1. /\ table[p][t] # NoRecord /\ tick <= table[p][t].at + table[p][t].cooldown
          /\ table[p][t].at + table[p][t].cooldown \in Nat
      BY <1>0, <2>2 DEF Running, Record
    <3>2. PICK k \in MarksOf(t) : table[p][t].at + table[p][t].cooldown <= k.until
      BY <3>1 DEF DepletionInv, Backed
    <3> QED BY <1>0, <2>1, <3>1, <3>2
  <2>3. CASE remote
    <3>1. PICK k \in MarksOf(t) : document[t] <= k.until
      BY <1>4, <2>3 DEF DepletionInv, Backed
    <3>2. tick < document[t]
      BY <1>4, <2>3
    <3> QED BY <1>0, <2>1, <3>1, <3>2
  <2> QED BY <2>2, <2>3
<1>12. DailyExhaustionLasts'
  <2> SUFFICES ASSUME readable, ~Running(table[p][t]), ~remote, NEW k \in MarksOf(t),
                      k.daily, k.stored, tick < k.at + DayCooldown
               PROVE  \E other \in MarksOf(t) \ {k} : other.at >= k.at
    BY <1>3, <1>8 DEF DailyExhaustionLasts
  <2>1. ~(document[t] > tick)
    BY <1>2 DEF Asks
  <2>2. k \in marks /\ k.tier = t
    BY DEF MarksOf
  <2>3. k.until = k.at + DayCooldown /\ k.until \in Nat
    BY <1>0, <2>2 DEF DepletionInv, DayKept, DepletionTypeOK, Mark
  <2>4. document[t] # k.until
    BY <1>0, <2>1, <2>3
  <2> QED BY <2>2, <2>4 DEF DepletionInv, DayKept
<1> QED BY <1>7, <1>9, <1>10, <1>11, <1>12 DEF DepletionInv

LEMMA RestartInv == ASSUME DepletionInv, NEW p \in Procs, RestartProcess(p) PROVE DepletionInv'
<1>1. PICK none : none = [t \in Tiers |-> NoRecord]
  OBVIOUS
<1>2. table' = [table EXCEPT ![p] = none] /\ none \in [Tiers -> Record]
  BY <1>1, NoRecordType DEF RestartProcess
<1>3. \A q \in Procs, t \in Tiers : table'[q][t] # NoRecord => table'[q][t] = table[q][t]
  BY <1>1, <1>2 DEF DepletionInv, DepletionTypeOK
<1>4. [at |-> 0, tier |-> Unset] \in Cache /\ [at |-> 0, tier |-> "free"] \in Cache
  BY DEF Cache, Tiers
<1>5. /\ metaCache' \in [Procs -> Cache] /\ confCache' \in [Procs -> Cache]
      /\ \A q \in Procs : confCache'[q].tier \in Tiers
  BY <1>4 DEF RestartProcess, DepletionInv, DepletionTypeOK, Tiers
<1>6. DepletionTypeOK'
  <2>1. table' \in [Procs -> [Tiers -> Record]]
    BY <1>2 DEF DepletionInv, DepletionTypeOK
  <2>2. verdict' = NoVerdict /\ UNCHANGED <<tick, document, metaTier, confTier, marks>>
    BY DEF RestartProcess
  <2> QED BY <1>5, <2>1, <2>2, NoVerdictType DEF DepletionInv, DepletionTypeOK
<1> QED BY <1>3, <1>6, QuietInv DEF RestartProcess, DepletionInv, DepletionTypeOK

LEMMA ClockInv == ASSUME DepletionInv, SwitchTier \/ DepletionTick PROVE DepletionInv'
<1>1. tick \in Nat /\ tick' \in {tick, tick + 1}
  BY DEF SwitchTier, DepletionTick, DepletionInv, DepletionTypeOK
<1>2. tick' \in Nat /\ tick <= tick' /\ tick' > 0
  BY <1>1 DEF DepletionInv, DepletionTypeOK
<1>3. /\ UNCHANGED <<table, document, metaTier, metaCache, confCache, marks>>
      /\ verdict' = NoVerdict /\ confTier' \in Tiers \cup {Unset}
  BY DEF SwitchTier, DepletionTick, DepletionInv, DepletionTypeOK, Tiers
<1>4. DepletionTypeOK'
  BY <1>2, <1>3, NoVerdictType DEF DepletionInv, DepletionTypeOK
<1> QED BY <1>2, <1>3, <1>4, QuietInv

LEMMA DepletionInvInit == DepletionInit => DepletionInv
<1> SUFFICES ASSUME DepletionInit PROVE DepletionInv
  OBVIOUS
<1>1. [at |-> 0, tier |-> Unset] \in Cache /\ [at |-> 0, tier |-> "free"] \in Cache
  BY DEF Cache, Tiers
<1>2. /\ table \in [Procs -> [Tiers -> Record]] /\ document \in [Tiers -> Nat]
      /\ metaCache \in [Procs -> Cache] /\ confCache \in [Procs -> Cache]
      /\ \A p \in Procs : confCache[p].tier \in Tiers
  BY <1>1, NoRecordType DEF DepletionInit, Tiers
<1>3. tick \in Nat /\ tick > 0
  BY DepletionAssumption DEF DepletionInit, FirstTick
<1>4. DepletionTypeOK
  BY <1>2, <1>3, NoVerdictType, DepletionAssumption DEF DepletionInit, DepletionTypeOK, Tiers
<1>5. Backed /\ DayKept
  BY DEF DepletionInit, Backed, DayKept
<1> QED BY <1>4, <1>5
        DEF DepletionInit, DepletionInv, NoPhantomDepletion, DailyExhaustionLasts

\* Whatever the workers mark, read, copy and forget, every record comes from a mark of
\* its tier.
THEOREM DepletionInvariant == DepletionSpec => []DepletionInv
<1>1. DepletionInv /\ [DepletionNext]_depletionVars => DepletionInv'
  <2> SUFFICES ASSUME DepletionInv, [DepletionNext]_depletionVars PROVE DepletionInv'
    OBVIOUS
  <2>1. CASE UNCHANGED depletionVars
    BY <2>1 DEF depletionVars, DepletionInv, DepletionTypeOK, Backed, DayKept, MarksOf,
                NoPhantomDepletion, DailyExhaustionLasts
  <2> QED BY <2>1, MarkInv, AskInv, RestartInv, ClockInv DEF DepletionNext
<1> QED BY <1>1, DepletionInvInit, PTL DEF DepletionSpec

\* A model is reported out of quota on a tier only while a mark of that tier runs
\* (depleted_registry.py:39 and :223), for any number of workers and whatever copies
\* they keep.
THEOREM DepletionIsReal == DepletionSpec => []NoPhantomDepletion
<1>1. DepletionInv => NoPhantomDepletion
  BY DEF DepletionInv
<1> QED BY <1>1, DepletionInvariant, PTL

\* Once the end of a daily quota is in Firestore, a worker that reads it leaves the model
\* alone for the day, unless another error of the tier came since
\* (depleted_registry.py:106).
THEOREM DailyExhaustionIsKept == DepletionSpec => []DailyExhaustionLasts
<1>1. DepletionInv => DailyExhaustionLasts
  BY DEF DepletionInv
<1> QED BY <1>1, DepletionInvariant, PTL

-----------------------------------------------------------------------------
(***************************************************************************)
(* The sliding-window limiter, for any limits, any window and any number   *)
(* of calls.                                                               *)
(*                                                                         *)
(* Slots are reserved out of the order of their times, so that the RPM-th  *)
(* slot from the end of the history is not the one whose window ends       *)
(* first, and the slots between two of them may have been dropped.  What   *)
(* holds is that the slots fall into as many chains as the limit has       *)
(* requests, each with a window between any two of its slots (Spaced): a   *)
(* call continues the chain of the slot it waits for where that one is the *)
(* last of its chain, and else a chain whose last slot has left the        *)
(* window.  There is one, since the last slots of the chains that are      *)
(* still in the window are among the last RPM of the history.              *)
(***************************************************************************)

CallType == [phase : {"granted", "refused", "answered", "repeated", "failed"},
             start : Nat, used : Nat]
Entry == [nth : Nat, at : Nat, tok : Nat, fin : BOOLEAN, call : Nat]

QuotaTypeOK ==
    /\ now \in Nat
    /\ calls \in Seq(CallType)
    /\ history \subseteq Granted
    /\ tokens \subseteq Entry /\ IsFiniteSet(tokens)
    /\ orderly \in BOOLEAN

\* Every slot in the window is in the history.
SlotsKept == \A c \in Granted : InWindow(calls[c].start) => c \in history

\* The last of its chain among the slots that were granted.
EndsChain(chain, c) == \A d \in Granted : chain[d] = chain[c] => d <= c

Spaced ==
    \E chain \in [Granted -> 1..RPM] :
        /\ \A c, d \in Granted : c < d /\ chain[c] = chain[d]
                                   => calls[c].start + Window <= calls[d].start
        /\ \A c \in LiveHistory : EndsChain(chain, c)
                                   => Cardinality({d \in LiveHistory : d > c}) < RPM

Numbered == \A e, d \in tokens : e.nth = d.nth => e = d

\* While the answers come in turn, an entry belongs to the call that reserved
\* it, is open as long as that call is, and stands in the order of the calls.
Booked ==
    orderly =>
        /\ \A e \in tokens :
              /\ e.call \in Granted /\ e.at = calls[e.call].start
              /\ e.fin => calls[e.call].phase = "answered" /\ e.tok = calls[e.call].used
              /\ ~e.fin => calls[e.call].phase = "granted"
        /\ \A e, d \in tokens : e.nth < d.nth <=> e.call < d.call
        /\ \A c \in Granted : calls[c].phase = "granted" /\ InWindow(calls[c].start)
              => \E e \in tokens : e.call = c

QuotaInv ==
    /\ QuotaTypeOK
    /\ SlotsKept
    /\ Spaced
    /\ Numbered

-----------------------------------------------------------------------------
(* Sets of entries and of calls                                            *)

LEMMA FirstIs ==
    ASSUME NEW t \in SUBSET Entry, t # {}
    PROVE  First(t) \in t /\ \A d \in t : First(t).nth <= d.nth
<1>1. PICK T : T = {e.nth : e \in t}
  OBVIOUS
<1>2. T \in SUBSET Nat /\ T # {}
  BY <1>1 DEF Entry
<1>3. PICK n \in T : \A m \in T : n <= m
  BY <1>2, NatMin
<1>4. PICK e \in t : n = e.nth
  BY <1>1, <1>3
<1>5. \A d \in t : e.nth <= d.nth
  BY <1>1, <1>3, <1>4
<1> QED BY <1>5 DEF First

LEMMA LastIs ==
    ASSUME NEW t \in SUBSET Entry, t # {}, IsFiniteSet(t), \A e, d \in t : e.nth = d.nth => e = d
    PROVE  Last(t) \in t /\ \A d \in t : d.nth <= Last(t).nth
<1>1. PICK R : R = {p \in t \X t : p[1].nth <= p[2].nth}
  OBVIOUS
<1>2. \A e, d \in t : <<e, d>> \in R <=> e.nth <= d.nth
  BY <1>1
<1>3. \A e \in t : e.nth \in Nat
  BY DEF Entry
<1>4. Orders(R, t)
  BY <1>2, <1>3 DEF Orders
<1>5. PICK N \in Nat : N = Cardinality(t) /\ N # 0
  BY FS_CardinalityType, FS_EmptySet
<1>6. N \in 1..Cardinality(t)
  BY <1>5
<1>7. PICK e \in t : Cardinality({d \in t : <<d, e>> \in R}) = N
  BY <1>4, <1>6, KthMember
<1>8. {d \in t : <<d, e>> \in R} \in SUBSET t
  OBVIOUS
<1>9. {d \in t : <<d, e>> \in R} = t
  BY <1>5, <1>7, <1>8, FS_Subset
<1>10. \A d \in t : d.nth <= e.nth
  BY <1>2, <1>9
<1> QED BY <1>10 DEF Last

\* Counting from the end: each call of a history has a place of its own, the
\* k-th from the end is the call with place k.
LEMMA PlacesAre ==
    ASSUME NEW h \in SUBSET Nat, IsFiniteSet(h)
    PROVE  /\ \A c \in h : Cardinality({d \in h : d >= c}) \in 1..Cardinality(h)
           /\ \A c, d \in h : Cardinality({e \in h : e >= c}) = Cardinality({e \in h : e >= d})
                               => c = d
           /\ \A k \in 1..Cardinality(h) :
                 FromEnd(h, k) \in h /\ Cardinality({d \in h : d >= FromEnd(h, k)}) = k
           /\ \A c \in h : /\ Cardinality({d \in h : d > c}) \in Nat
                            /\ Cardinality({d \in h : d >= c}) = Cardinality({d \in h : d > c}) + 1
<1>1. PICK R : R = {p \in h \X h : p[1] >= p[2]}
  OBVIOUS
<1>2. \A c, d \in h : <<d, c>> \in R <=> d >= c
  BY <1>1
<1>3. IsFiniteSet(h) /\ Orders(R, h)
  BY <1>2 DEF Orders
<1>4. \A c \in h : {d \in h : <<d, c>> \in R} = {d \in h : d >= c}
  BY <1>2
<1>5. /\ \A c \in h : Cardinality({d \in h : d >= c}) \in 1..Cardinality(h)
      /\ \A c, d \in h : Cardinality({e \in h : e >= c}) = Cardinality({e \in h : e >= d})
                          => c = d
  BY <1>3, <1>4, KthMember
<1>6. \A k \in 1..Cardinality(h) : \E c \in h : Cardinality({d \in h : d >= c}) = k
  <2>1. PICK T : T = h
    OBVIOUS
  <2>2. IsFiniteSet(T) /\ Orders(R, T)
    BY <1>3, <2>1
  <2>3. \A k \in 1..Cardinality(T) : \E c \in T : Cardinality({d \in T : <<d, c>> \in R}) = k
    BY <2>2, KthMember
  <2>4. \A c \in h : Cardinality({d \in h : <<d, c>> \in R}) = Cardinality({d \in h : d >= c})
    BY <1>4
  <2>5. \A k \in 1..Cardinality(h) : \E c \in h : Cardinality({d \in h : <<d, c>> \in R}) = k
    BY <2>1, <2>3, Zenon
  <2> QED BY <2>4, <2>5
<1>7. \A k \in 1..Cardinality(h) :
         FromEnd(h, k) \in h /\ Cardinality({d \in h : d >= FromEnd(h, k)}) = k
  BY <1>6 DEF FromEnd
<1>8. ASSUME NEW c \in h
      PROVE  /\ Cardinality({d \in h : d > c}) \in Nat
             /\ Cardinality({d \in h : d >= c}) = Cardinality({d \in h : d > c}) + 1
  <2>1. PICK S : S = {d \in h : d > c}
    OBVIOUS
  <2>2. \A d \in h : d \in Nat /\ c \in Nat /\ (d >= c <=> d > c \/ d = c) /\ ~(c > c)
    OBVIOUS
  <2>3. S \in SUBSET h /\ c \notin S
    BY <2>1, <2>2
  <2>4. {d \in h : d >= c} = S \cup {c}
    BY <2>1, <2>2, Zenon
  <2>5. IsFiniteSet(S) /\ Cardinality(S) \in Nat
    BY <2>3, FS_Subset, FS_CardinalityType
  <2> QED BY <2>1, <2>3, <2>4, <2>5, FS_AddElement
<1> QED BY <1>5, <1>7, <1>8

-----------------------------------------------------------------------------
(* The waits                                                               *)

LEMMA WaitForIs ==
    ASSUME now \in Nat, NEW t \in Nat
    PROVE  WaitFor(t) \in Nat /\ now + WaitFor(t) >= t + Window
BY QuotaAssumption DEF WaitFor

LEMMA LongerIs ==
    ASSUME NEW a \in Nat, NEW b \in Nat
    PROVE  Longer(a, b) \in Nat /\ Longer(a, b) >= a
BY DEF Longer

LEMMA TypesAre ==
    ASSUME QuotaInv
    PROVE  /\ now \in Nat /\ Len(calls) \in Nat /\ Granted \subseteq 1..Len(calls)
           /\ \A c \in 1..Len(calls) : calls[c] \in CallType /\ calls[c].start \in Nat
           /\ history \subseteq Granted /\ LiveHistory \subseteq history
           /\ IsFiniteSet(Granted) /\ IsFiniteSet(LiveHistory)
           /\ LiveTokens \subseteq tokens /\ LiveTokens \in SUBSET Entry
           /\ IsFiniteSet(LiveTokens)
<1>1. /\ now \in Nat /\ calls \in Seq(CallType) /\ history \subseteq Granted
      /\ tokens \subseteq Entry /\ IsFiniteSet(tokens)
  BY DEF QuotaInv, QuotaTypeOK
<1>2. Len(calls) \in Nat /\ \A c \in 1..Len(calls) : calls[c] \in CallType
  BY <1>1
<1>3. \A x \in CallType : x.start \in Nat
  BY DEF CallType
<1>4. Granted \in SUBSET (1..Len(calls)) /\ LiveHistory \subseteq history
  BY DEF Granted, LiveHistory
<1>5. IsFiniteSet(1..Len(calls))
  BY <1>2, FS_Interval
<1>6. IsFiniteSet(Granted)
  BY <1>4, <1>5, FS_Subset
<1>7. LiveHistory \in SUBSET Granted /\ LiveTokens \in SUBSET tokens
  BY <1>1, <1>4 DEF LiveTokens
<1>8. IsFiniteSet(LiveHistory) /\ IsFiniteSet(LiveTokens)
  BY <1>1, <1>6, <1>7, FS_Subset
<1> QED BY <1>1, <1>2, <1>3, <1>4, <1>6, <1>7, <1>8

LEMMA RequestWaitIs ==
    ASSUME QuotaInv
    PROVE  /\ RequestWait(LiveHistory) \in Nat
           /\ Cardinality(LiveHistory) \in Nat
           /\ Cardinality(LiveHistory) >= RPM =>
                 /\ FromEnd(LiveHistory, RPM) \in LiveHistory
                 /\ Cardinality({d \in LiveHistory : d >= FromEnd(LiveHistory, RPM)}) = RPM
                 /\ now + RequestWait(LiveHistory)
                       >= calls[FromEnd(LiveHistory, RPM)].start + Window
<1>1. PICK L : L = LiveHistory
  OBVIOUS
<1>2. L \in SUBSET Nat /\ IsFiniteSet(L) /\ \A c \in L : calls[c].start \in Nat
  BY <1>1, TypesAre
<1>3. Cardinality(L) \in Nat /\ RPM \in Nat \ {0}
  BY <1>2, FS_CardinalityType, QuotaAssumption
<1>4. CASE Cardinality(L) < RPM
  <2>1. RequestWait(L) = 0
    BY <1>4 DEF RequestWait
  <2> QED BY <1>1, <1>3, <1>4, <2>1
<1>5. CASE ~(Cardinality(L) < RPM)
  <2>1. RPM \in 1..Cardinality(L)
    BY <1>3, <1>5
  <2>2. PICK e \in L : e = FromEnd(L, RPM) /\ Cardinality({d \in L : d >= FromEnd(L, RPM)}) = RPM
    BY <1>2, <2>1, PlacesAre
  <2>3. RequestWait(L) = WaitFor(calls[e].start)
    BY <1>5, <2>2 DEF RequestWait
  <2>4. now \in Nat /\ calls[e].start \in Nat
    BY <1>2, TypesAre
  <2> QED BY <1>1, <1>3, <2>2, <2>3, <2>4, WaitForIs
<1> QED BY <1>4, <1>5

LEMMA TokenWaitIs ==
    ASSUME QuotaInv, NEW est
    PROVE  TokenWait(LiveTokens, est) \in Nat
<1>1. PICK t : t = LiveTokens
  OBVIOUS
<1>2. /\ t \in SUBSET Entry /\ IsFiniteSet(t) /\ now \in Nat
      /\ \A e, d \in t : e.nth = d.nth => e = d
  BY <1>1, TypesAre DEF QuotaInv, Numbered
<1>3. \A e \in Entry : e.at \in Nat
  BY DEF Entry
<1>4. ExpiryWait(t, est) \in Nat
  <2>1. ASSUME t # {}, NEW missing
        PROVE  ExpiryNeeded(t, missing) \in Nat
    <3>1. Last(t) \in t
      BY <1>2, <2>1, LastIs
    <3>2. PICK U : U = {e \in t : Sum(UpTo(t, e)) >= missing} \cup {Last(t)}
      OBVIOUS
    <3>3. U \in SUBSET Entry /\ U # {}
      BY <1>2, <3>1, <3>2
    <3>4. First(U) \in Entry
      BY <3>3, FirstIs
    <3> QED BY <1>3, <3>2, <3>4 DEF ExpiryNeeded
  <2> QED BY <1>2, <2>1, WaitForIs DEF ExpiryWait
<1>5. CeilingWait(t) \in Nat
  <2>1. PICK f : f = Finalized(t)
    OBVIOUS
  <2>2. f \in SUBSET Entry
    BY <1>2, <2>1 DEF Finalized
  <2>3. OldestAt(f) \in Nat
    <3>1. CASE f = {}
      BY <1>2, <3>1 DEF OldestAt
    <3>2. CASE f # {}
      <4>1. PICK T : T = {e.at : e \in f}
        OBVIOUS
      <4>2. T \in SUBSET Nat /\ T # {}
        BY <1>3, <2>2, <3>2, <4>1
      <4>3. Sets!Min(T) \in T
        BY <4>2, NatMin DEF Sets!Min
      <4>4. Sets!Min(T) \in Nat
        BY <4>2, <4>3
      <4> QED BY <3>2, <4>1, <4>4 DEF OldestAt
    <3> QED BY <3>1, <3>2
  <2> QED BY <1>2, <2>1, <2>3, WaitForIs DEF CeilingWait
<1> QED BY <1>1, <1>4, <1>5, LongerIs DEF TokenWait

LEMMA NextEntryIs ==
    ASSUME QuotaInv
    PROVE  /\ NextEntry(LiveTokens) \in Nat
           /\ \A e \in LiveTokens : e.nth \in Nat /\ e.nth < NextEntry(LiveTokens)
<1>1. PICK t : t = LiveTokens
  OBVIOUS
<1>2. t \in SUBSET Entry /\ IsFiniteSet(t) /\ \A e, d \in t : e.nth = d.nth => e = d
  BY <1>1, TypesAre DEF QuotaInv, Numbered
<1>3. \A e \in t : e.nth \in Nat
  BY <1>2 DEF Entry
<1>4. t # {} => Last(t) \in t /\ \A e \in t : e.nth <= Last(t).nth
  BY <1>2, LastIs
<1> QED BY <1>1, <1>3, <1>4 DEF NextEntry

-----------------------------------------------------------------------------
(* The chain a new slot continues                                          *)

\* There is a chain whose last slot has left the window or is the one the
\* request waits for, while the last slots of the other chains leave room for
\* one more behind them.
LEMMA FreeChain ==
    ASSUME QuotaInv, NEW chain \in [Granted -> 1..RPM],
           \A c \in LiveHistory : EndsChain(chain, c)
                => Cardinality({d \in LiveHistory : d > c}) < RPM
    PROVE  \E k \in 1..RPM :
             /\ \A c \in Granted : chain[c] = k /\ EndsChain(chain, c)
                   => \/ c \notin LiveHistory
                      \/ Cardinality(LiveHistory) >= RPM /\ c = FromEnd(LiveHistory, RPM)
             /\ \A c \in LiveHistory : EndsChain(chain, c) /\ chain[c] # k
                   => Cardinality({d \in LiveHistory : d > c}) < RPM - 1
<1>1. PICK L, f, E : /\ L = LiveHistory /\ f = FromEnd(L, RPM)
                     /\ E = {c \in Granted : EndsChain(chain, c)}
  OBVIOUS
<1>2. PICK place, behind : /\ place = [c \in L |-> Cardinality({d \in L : d >= c})]
                           /\ behind = [c \in L |-> Cardinality({d \in L : d > c})]
  OBVIOUS
<1>3. /\ L \in SUBSET Nat /\ IsFiniteSet(L) /\ L \subseteq Granted /\ Granted \subseteq Nat
      /\ RPM \in Nat \ {0} /\ Cardinality(L) \in Nat
  BY <1>1, TypesAre, QuotaAssumption, FS_CardinalityType
<1>4. \A c \in L : /\ behind[c] \in Nat /\ place[c] = behind[c] + 1
                   /\ place[c] <= Cardinality(L)
  BY <1>2, <1>3, PlacesAre
<1>5. \A c, d \in L : place[c] = place[d] => c = d
  BY <1>2, <1>3, PlacesAre
<1>6. Cardinality(L) >= RPM => f \in L /\ place[f] = RPM
  <2> SUFFICES ASSUME Cardinality(L) >= RPM PROVE f \in L /\ place[f] = RPM
    OBVIOUS
  <2>1. RPM \in 1..Cardinality(L)
    BY <1>3
  <2>2. FromEnd(L, RPM) \in L /\ Cardinality({d \in L : d >= FromEnd(L, RPM)}) = RPM
    BY <1>3, <2>1, PlacesAre
  <2> QED BY <1>1, <1>2, <2>2
<1>7. \A c \in L : c \in E => behind[c] < RPM
  BY <1>1, <1>2
<1>8. \A c, d \in E : chain[c] = chain[d] => c = d
  <2>1. \A c, d \in E : c \in Nat /\ d \in Nat /\ (chain[c] = chain[d] => c <= d /\ d <= c)
    BY <1>1, <1>3 DEF EndsChain
  <2> QED BY <2>1
<1>9. \E k \in 1..RPM :
         /\ \A c \in E : chain[c] = k => c \notin L \/ (Cardinality(L) >= RPM /\ c = f)
         /\ \A c \in L : c \in E /\ chain[c] # k => behind[c] < RPM - 1
  <2>1. CASE Cardinality(L) >= RPM /\ f \in E
    <3>1. chain[f] \in 1..RPM
      BY <1>3, <1>6, <2>1
    <3>2. \A c \in E : chain[c] = chain[f] => c = f
      BY <1>8, <2>1
    <3>3. ASSUME NEW c \in L, c \in E, chain[c] # chain[f] PROVE behind[c] < RPM - 1
      <4>1. place[c] # RPM
        BY <1>5, <1>6, <2>1, <3>3
      <4> QED BY <1>3, <1>4, <1>7, <3>3, <4>1
    <3> QED BY <2>1, <3>1, <3>2, <3>3
  <2>2. CASE ~(Cardinality(L) >= RPM /\ f \in E)
    <3>1. ASSUME NEW c \in L, c \in E PROVE behind[c] < RPM - 1
      <4>1. place[c] # RPM
        BY <1>3, <1>4, <1>5, <1>6, <2>2, <3>1
      <4> QED BY <1>3, <1>4, <1>7, <3>1, <4>1
    <3>2. \E k \in 1..RPM : \A c \in E : chain[c] = k => c \notin L
      <4> SUFFICES ASSUME \A k \in 1..RPM : \E c \in E : chain[c] = k /\ c \in L
                   PROVE  FALSE
        OBVIOUS
      <4>1. PICK last : last = [k \in 1..RPM |-> CHOOSE c \in E : chain[c] = k /\ c \in L]
        OBVIOUS
      <4>2. \A k \in 1..RPM : last[k] \in E /\ chain[last[k]] = k /\ last[k] \in L
        BY <4>1
      <4>3. PICK g : g = [k \in 1..RPM |-> place[last[k]]]
        OBVIOUS
      <4>4. \A k \in 1..RPM : place[last[k]] \in 1..(RPM - 1)
        <5> TAKE k \in 1..RPM
        <5>1. behind[last[k]] < RPM - 1 /\ last[k] \in L
          BY <3>1, <4>2
        <5>2. behind[last[k]] \in Nat /\ place[last[k]] = behind[last[k]] + 1 /\ RPM \in Nat
          BY <1>3, <1>4, <5>1
        <5> QED BY <5>1, <5>2
      <4>5. PICK A, B : A = 1..RPM /\ B = 1..(RPM - 1)
        OBVIOUS
      <4>6. g \in [A -> B]
        BY <4>3, <4>4, <4>5
      <4>7. IsFiniteSet(A) /\ Cardinality(A) = RPM
        BY <1>3, <4>5, FS_Interval
      <4>8. IsFiniteSet(B) /\ Cardinality(B) = RPM - 1
        <5>1. RPM - 1 \in Int /\ 1 \in Int /\ (1 > RPM - 1 => RPM - 1 = 0)
              /\ RPM - 1 - 1 + 1 = RPM - 1
          BY <1>3
        <5> QED BY <4>5, <5>1, FS_Interval
      <4>9. Cardinality(B) < Cardinality(A)
        BY <1>3, <4>7, <4>8
      <4>10. PICK k, j \in A : k # j /\ g[k] = g[j]
        BY <4>6, <4>7, <4>8, <4>9, FS_PigeonHole
      <4>11. last[k] = last[j]
        BY <1>5, <4>2, <4>3, <4>5, <4>10
      <4> QED BY <4>2, <4>5, <4>10, <4>11
    <3> QED BY <3>1, <3>2
  <2> QED BY <2>1, <2>2
<1>10. PICK k \in 1..RPM :
         /\ \A c \in E : chain[c] = k => c \notin L \/ (Cardinality(L) >= RPM /\ c = f)
         /\ \A c \in L : c \in E /\ chain[c] # k => behind[c] < RPM - 1
  BY <1>9
<1>11. \A c \in Granted : EndsChain(chain, c) <=> c \in E
  BY <1>1
<1>12. \A c \in L : behind[c] = Cardinality({d \in L : d > c})
  BY <1>2
<1>13. \A c \in Granted : chain[c] = k /\ EndsChain(chain, c)
          => c \notin L \/ (Cardinality(L) >= RPM /\ c = FromEnd(L, RPM))
  BY <1>1, <1>10, <1>11
<1>14. \A c \in L : EndsChain(chain, c) /\ chain[c] # k
          => Cardinality({d \in L : d > c}) < RPM - 1
  BY <1>3, <1>10, <1>11, <1>12
<1> QED BY <1>1, <1>13, <1>14

\* Steps that grant no slot.
LEMMA NoNewSlot ==
    ASSUME QuotaInv, calls' \in Seq(CallType), now' \in Nat, now' >= now,
           Granted' = Granted, \A c \in Granted : calls'[c].start = calls[c].start,
           history' = history \/ history' = LiveHistory
    PROVE  SlotsKept' /\ Spaced' /\ history' \subseteq Granted'
<1>1. PICK L : L = LiveHistory
  OBVIOUS
<1>2. /\ L \in SUBSET Nat /\ IsFiniteSet(L) /\ L \subseteq Granted /\ now \in Nat
      /\ \A c \in Granted : calls[c].start \in Nat /\ c \in Nat
      /\ L \subseteq history /\ history \subseteq Granted /\ RPM \in Nat /\ Window \in Nat
  BY <1>1, TypesAre, QuotaAssumption
<1>3. \A c \in Granted : now' <= calls'[c].start + Window => now <= calls[c].start + Window
  BY <1>2
<1>4. history' \subseteq Granted'
  BY <1>1, <1>2
<1>5. SlotsKept'
  <2>1. \A c \in Granted : now' <= calls'[c].start + Window => c \in L
    BY <1>1, <1>3 DEF QuotaInv, SlotsKept, InWindow, LiveHistory
  <2> QED BY <1>1, <1>2, <2>1 DEF SlotsKept, InWindow
<1>6. PICK M : M = LiveHistory'
  OBVIOUS
<1>7. M \in SUBSET L
  <2>1. ASSUME NEW c \in M PROVE c \in L
    <3>1. c \in history' /\ now' <= calls'[c].start + Window
      BY <1>6, <2>1 DEF LiveHistory, InWindow
    <3>2. c \in history /\ c \in Granted
      BY <1>1, <1>2, <3>1
    <3> QED BY <1>1, <1>3, <3>1, <3>2 DEF LiveHistory, InWindow
  <2> QED BY <2>1
<1>8. PICK chain \in [Granted -> 1..RPM] :
        /\ \A c, d \in Granted : c < d /\ chain[c] = chain[d]
                                   => calls[c].start + Window <= calls[d].start
        /\ \A c \in LiveHistory : EndsChain(chain, c)
                                   => Cardinality({d \in LiveHistory : d > c}) < RPM
  BY DEF QuotaInv, Spaced
<1>9. \A c \in M : EndsChain(chain, c)' => Cardinality({d \in M : d > c}) < RPM
  <2> SUFFICES ASSUME NEW c \in M, EndsChain(chain, c)'
               PROVE  Cardinality({d \in M : d > c}) < RPM
    OBVIOUS
  <2>1. EndsChain(chain, c) /\ c \in L
    BY <1>7 DEF EndsChain
  <2>2. PICK S, T : S = {d \in M : d > c} /\ T = {d \in L : d > c}
    OBVIOUS
  <2>3. S \in SUBSET T /\ T \in SUBSET L /\ S \in SUBSET L
    BY <1>7, <2>2
  <2>4. IsFiniteSet(T) /\ IsFiniteSet(S)
    BY <1>2, <2>3, FS_Subset
  <2>5. Cardinality(S) <= Cardinality(T) /\ Cardinality(S) \in Nat /\ Cardinality(T) \in Nat
    BY <2>3, <2>4, FS_Subset, FS_CardinalityType
  <2>6. Cardinality(T) < RPM
    BY <1>1, <1>8, <2>1, <2>2
  <2> QED BY <1>2, <2>2, <2>5, <2>6
<1>10. \A c, d \in Granted' : c < d /\ chain[c] = chain[d]
          => calls'[c].start + Window <= calls'[d].start
  BY <1>8
<1>11. Spaced'
  BY <1>6, <1>8, <1>9, <1>10 DEF Spaced
<1> QED BY <1>4, <1>5, <1>11

\* Steps that reserve one.
LEMMA NewSlot ==
    ASSUME QuotaInv, NEW est, NEW wait \in Nat, wait >= RequestWait(LiveHistory),
           Reserve(est, wait), now' = now
    PROVE  /\ calls' \in Seq(CallType) /\ Granted' = Granted \cup {Len(calls) + 1}
           /\ \A c \in Granted : calls'[c] = calls[c]
           /\ calls'[Len(calls) + 1]
                 = [phase |-> "granted", start |-> now + wait, used |-> 0]
           /\ SlotsKept' /\ Spaced' /\ history' \subseteq Granted'
<1>1. PICK L, n, G : L = LiveHistory /\ n = Len(calls) + 1 /\ G = Granted
  OBVIOUS
<1>2. /\ L \in SUBSET Nat /\ IsFiniteSet(L) /\ L \subseteq G /\ now \in Nat
      /\ G \subseteq 1..Len(calls) /\ Len(calls) \in Nat /\ calls \in Seq(CallType)
      /\ \A c \in G : calls[c].start \in Nat /\ c \in Nat /\ c < n
      /\ n \in Nat /\ history \subseteq G /\ RPM \in Nat \ {0} /\ Window \in Nat
  BY <1>1, TypesAre, QuotaAssumption DEF QuotaInv, QuotaTypeOK
<1>3. PICK call : call = [phase |-> "granted", start |-> now + wait, used |-> 0]
  OBVIOUS
<1>4. call \in CallType /\ call.start = now + wait /\ call.phase = "granted"
  BY <1>2, <1>3 DEF CallType
<1>5. calls' = Append(calls, call) /\ history' = L \cup {n}
  BY <1>1, <1>3 DEF Reserve
<1>6. /\ calls' \in Seq(CallType) /\ Len(calls') = n /\ calls'[n] = call
      /\ \A c \in 1..Len(calls) : calls'[c] = calls[c]
  BY <1>1, <1>2, <1>4, <1>5, AppendProperties
<1>7. Granted' = G \cup {n}
  <2>1. 1..n = (1..Len(calls)) \cup {n} /\ n \notin 1..Len(calls)
    BY <1>1, <1>2
  <2>2. Granted' = {c \in 1..n : calls'[c].phase # "refused"}
    BY <1>6 DEF Granted
  <2>3. \A c \in 1..Len(calls) : c \in G <=> calls'[c].phase # "refused"
    BY <1>1, <1>6 DEF Granted
  <2> QED BY <1>2, <1>4, <1>6, <2>1, <2>2, <2>3
<1>8. \A c \in G : calls'[c] = calls[c]
  BY <1>2, <1>6
<1>9. history' \subseteq Granted'
  BY <1>2, <1>5, <1>7
<1>10. SlotsKept'
  <2>1. \A c \in G : now <= calls[c].start + Window => c \in L
    BY <1>1 DEF QuotaInv, SlotsKept, InWindow, LiveHistory
  <2> QED BY <1>5, <1>7, <1>8, <2>1 DEF SlotsKept, InWindow
<1>11. PICK M : M = LiveHistory'
  OBVIOUS
<1>12. M = L \cup {n}
  <2>1. \A c \in L : c \in G /\ now <= calls[c].start + Window
    BY <1>1, <1>2 DEF LiveHistory, InWindow
  <2>2. now <= calls'[n].start + Window
    BY <1>2, <1>4, <1>6
  <2>3. M = {c \in history' : now <= calls'[c].start + Window}
    BY <1>11 DEF LiveHistory, InWindow
  <2> QED BY <1>5, <1>8, <2>1, <2>2, <2>3
<1>13. PICK chain \in [G -> 1..RPM] :
        /\ \A c, d \in G : c < d /\ chain[c] = chain[d]
                                   => calls[c].start + Window <= calls[d].start
        /\ \A c \in L : EndsChain(chain, c) => Cardinality({d \in L : d > c}) < RPM
  BY <1>1 DEF QuotaInv, Spaced
<1>14. PICK k \in 1..RPM :
         /\ \A c \in G : chain[c] = k /\ EndsChain(chain, c)
               => \/ c \notin L
                  \/ Cardinality(L) >= RPM /\ c = FromEnd(L, RPM)
         /\ \A c \in L : EndsChain(chain, c) /\ chain[c] # k
               => Cardinality({d \in L : d > c}) < RPM - 1
  BY <1>1, <1>13, FreeChain
<1>15. PICK longer : longer = [c \in G \cup {n} |-> IF c = n THEN k ELSE chain[c]]
  OBVIOUS
<1>16. /\ longer \in [G \cup {n} -> 1..RPM] /\ longer[n] = k
       /\ \A c \in G : longer[c] = chain[c]
  BY <1>2, <1>13, <1>14, <1>15
<1>17. ASSUME NEW c \in G, chain[c] = k PROVE calls[c].start + Window <= now + wait
  <2>1. PICK T : T = {d \in G : chain[d] = k}
    OBVIOUS
  <2>0. \A d \in T : d \in G /\ d \in Nat /\ d <= n
    BY <1>2, <2>1
  <2>2. T \in SUBSET Nat /\ T # {} /\ \A d \in T : d <= n
    BY <1>17, <2>0, <2>1
  <2>3. PICK t \in T : \A d \in T : t >= d
    BY <1>2, <2>2, NatMax
  <2>4. t \in G /\ chain[t] = k /\ EndsChain(chain, t) /\ c <= t
    BY <1>1, <1>2, <1>17, <2>1, <2>3 DEF EndsChain
  <2>5. calls[t].start + Window <= now + wait
    <3>1. CASE t \notin L
      <4>1. ~(now <= calls[t].start + Window)
        BY <1>1, <2>4, <3>1 DEF QuotaInv, SlotsKept, InWindow, LiveHistory
      <4> QED BY <1>2, <2>4, <4>1
    <3>2. CASE t \in L
      <4>1. Cardinality(L) >= RPM /\ t = FromEnd(L, RPM)
        BY <1>14, <2>4, <3>2
      <4>2. now + RequestWait(L) >= calls[t].start + Window /\ RequestWait(L) \in Nat
        BY <1>1, <4>1, RequestWaitIs
      <4>3. wait >= RequestWait(L)
        BY <1>1
      <4>4. PICK s, r : s = calls[t].start /\ r = RequestWait(L)
        OBVIOUS
      <4>5. s \in Nat /\ r \in Nat /\ wait >= r /\ now + r >= s + Window
        BY <1>2, <2>4, <4>2, <4>3, <4>4
      <4>6. now \in Nat /\ Window \in Nat
        BY <1>2
      <4> QED BY <4>4, <4>5, <4>6
    <3> QED BY <3>1, <3>2
  <2>6. c = t \/ (c < t /\ calls[c].start + Window <= calls[t].start)
    BY <1>2, <1>13, <1>17, <2>4
  <2> QED BY <1>2, <2>4, <2>5, <2>6
<1>18. ASSUME NEW c \in G \cup {n}, NEW d \in G \cup {n}, c < d, longer[c] = longer[d]
       PROVE  calls'[c].start + Window <= calls'[d].start
  <2>1. c \in G
    BY <1>2, <1>18
  <2>2. CASE d \in G
    BY <1>8, <1>13, <1>16, <1>18, <2>1, <2>2
  <2>3. CASE d = n
    BY <1>4, <1>6, <1>8, <1>16, <1>17, <1>18, <2>1, <2>3
  <2> QED BY <2>2, <2>3
<1>19. ASSUME NEW c \in M, EndsChain(longer, c)'
       PROVE  Cardinality({d \in M : d > c}) < RPM
  <2>1. \A d \in G \cup {n} : longer[d] = longer[c] => d <= c
    BY <1>7, <1>19 DEF EndsChain
  <2>2. CASE c = n
    <3>1. \A d \in M : ~(d > c)
      <4>1. \A d \in L : d \in G /\ d \in Nat /\ d < n
        BY <1>2
      <4> QED BY <1>2, <1>12, <2>2, <4>1
    <3>2. PICK S : S = {d \in M : d > c}
      OBVIOUS
    <3>3. S = {}
      BY <3>1, <3>2
    <3>4. Cardinality(S) = 0
      BY <3>3, FS_EmptySet
    <3> QED BY <1>2, <3>2, <3>4
  <2>3. CASE c \in L
    <3>1. c \in G /\ c < n
      BY <1>2, <2>3
    <3>2. chain[c] # k
      <4>1. longer[c] = chain[c] /\ longer[n] = k /\ (longer[n] = longer[c] => n <= c)
        BY <1>16, <2>1, <3>1
      <4>2. c \in Nat /\ n \in Nat /\ ~(n <= c)
        BY <1>2, <3>1
      <4> QED BY <4>1, <4>2
    <3>3. EndsChain(chain, c)
      <4>1. \A d \in G : longer[d] = chain[d] /\ longer[c] = chain[c]
        BY <1>16, <3>1
      <4>2. \A d \in G : chain[d] = chain[c] => d <= c
        BY <2>1, <4>1
      <4> QED BY <1>1, <4>2 DEF EndsChain
    <3>4. PICK S : S = {d \in L : d > c}
      OBVIOUS
    <3>5. Cardinality(S) < RPM - 1
      BY <1>14, <2>3, <3>2, <3>3, <3>4
    <3>6. {d \in M : d > c} = S \cup {n} /\ n \notin S /\ S \in SUBSET L
      BY <1>2, <1>12, <3>1, <3>4
    <3>7. IsFiniteSet(S) /\ Cardinality(S) \in Nat
      BY <1>2, <3>6, FS_Subset, FS_CardinalityType
    <3>8. Cardinality(S \cup {n}) = Cardinality(S) + 1
      BY <3>6, <3>7, FS_AddElement
    <3>9. Cardinality(S) + 1 < RPM
      BY <1>2, <3>5, <3>7
    <3> QED BY <3>6, <3>8, <3>9
  <2> QED BY <1>12, <2>2, <2>3
<1>20. Spaced'
  BY <1>7, <1>11, <1>16, <1>18, <1>19 DEF Spaced
<1> QED BY <1>1, <1>3, <1>6, <1>7, <1>8, <1>9, <1>10, <1>20

-----------------------------------------------------------------------------
(* What the answers book                                                   *)

LEMMA Recorded ==
    ASSUME QuotaInv, NEW actual \in Nat, RecordTokens(actual)
    PROVE  /\ tokens' \subseteq Entry /\ IsFiniteSet(tokens') /\ Numbered'
           /\ Open(LiveTokens) # {} =>
                \E o \in Open(LiveTokens) :
                  /\ \A d \in Open(LiveTokens) : o.nth <= d.nth
                  /\ \E b \in Entry : /\ tokens' = (LiveTokens \ {o}) \cup {b}
                                     /\ b.nth = o.nth /\ b.at = o.at /\ b.call = o.call
                                     /\ b.tok = actual /\ b.fin
<1>1. PICK t, O : t = LiveTokens /\ O = Open(LiveTokens)
  OBVIOUS
<1>2. /\ t \in SUBSET Entry /\ IsFiniteSet(t) /\ now \in Nat
      /\ \A e, d \in t : e.nth = d.nth => e = d
  BY <1>1, TypesAre DEF QuotaInv, Numbered
<1>3. O \in SUBSET t /\ O \in SUBSET Entry
  BY <1>1, <1>2 DEF Open
<1>4. NextEntry(t) \in Nat /\ \A e \in t : e.nth \in Nat /\ e.nth < NextEntry(t)
  BY <1>1, NextEntryIs
<1>5. CASE O # {}
  <2>1. PICK o \in O : o = First(O) /\ \A d \in O : o.nth <= d.nth
    BY <1>3, <1>5, FirstIs
  <2>2. o \in Entry /\ o \in t
    BY <1>3
  <2>3. PICK b : b = [o EXCEPT !.tok = actual, !.fin = TRUE]
    OBVIOUS
  <2>4. b \in Entry /\ b.nth = o.nth /\ b.at = o.at /\ b.call = o.call /\ b.tok = actual
    BY <2>2, <2>3 DEF Entry
  <2>5. b.fin
    BY <2>2, <2>3 DEF Entry
  <2>6. tokens' = (t \ {o}) \cup {b}
    BY <1>1, <1>5, <2>1, <2>3 DEF RecordTokens, Oldest
  <2>7. tokens' \subseteq Entry
    BY <1>2, <2>4, <2>6
  <2>8. IsFiniteSet(t \ {o})
    BY <1>2, FS_RemoveElement
  <2>9. IsFiniteSet(tokens')
    BY <2>6, <2>8, FS_AddElement
  <2>10. \A e \in t \ {o} : e.nth # b.nth
    BY <1>2, <2>2, <2>4
  <2>11. Numbered'
    BY <1>2, <2>6, <2>10 DEF Numbered
  <2> QED BY <1>1, <2>1, <2>4, <2>5, <2>6, <2>7, <2>9, <2>11
<1>6. CASE O = {}
  <2>1. tokens' = t \/ tokens' = t \cup {[nth |-> NextEntry(t), at |-> now, tok |-> actual,
                                          fin |-> TRUE, call |-> 0]}
    BY <1>1, <1>6 DEF RecordTokens
  <2>2. CASE tokens' = t
    BY <1>1, <1>2, <1>6, <2>2 DEF Numbered
  <2>3. CASE tokens' # t
    <3>1. PICK b : b = [nth |-> NextEntry(t), at |-> now, tok |-> actual, fin |-> TRUE,
                        call |-> 0]
      OBVIOUS
    <3>2. b \in Entry /\ b.nth = NextEntry(t)
      BY <1>2, <1>4, <3>1 DEF Entry
    <3>3. tokens' = t \cup {b}
      BY <2>1, <2>3, <3>1
    <3>4. IsFiniteSet(tokens') /\ tokens' \subseteq Entry
      BY <1>2, <3>2, <3>3, FS_AddElement
    <3>5. \A e \in t : e.nth # b.nth
      BY <1>4, <3>2
    <3>6. Numbered'
      BY <1>2, <3>3, <3>5 DEF Numbered
    <3> QED BY <1>1, <1>6, <3>4, <3>6
  <2> QED BY <2>2, <2>3
<1> QED BY <1>5, <1>6

\* A reservation is the last entry, and belongs to the call that made it.
LEMMA Reserved ==
    ASSUME QuotaInv, NEW est \in Nat, NEW wait \in Nat, Reserve(est, wait)
    PROVE  /\ tokens' \subseteq Entry /\ IsFiniteSet(tokens') /\ Numbered'
           /\ est # 0 =>
                \E b \in Entry :
                  /\ tokens' = LiveTokens \cup {b}
                  /\ b.call = Len(calls) + 1 /\ b.at = now + wait /\ ~b.fin
                  /\ \A e \in LiveTokens : e.nth < b.nth
<1>1. PICK t : t = LiveTokens
  OBVIOUS
<1>2. /\ t \in SUBSET Entry /\ IsFiniteSet(t) /\ now \in Nat /\ Len(calls) \in Nat
      /\ \A e, d \in t : e.nth = d.nth => e = d
  BY <1>1, TypesAre DEF QuotaInv, Numbered
<1>3. NextEntry(t) \in Nat /\ \A e \in t : e.nth \in Nat /\ e.nth < NextEntry(t)
  BY <1>1, NextEntryIs
<1>4. CASE est = 0
  <2>1. tokens' = t
    BY <1>1, <1>4 DEF Reserve
  <2> QED BY <1>2, <1>4, <2>1 DEF Numbered
<1>5. CASE est # 0
  <2>1. PICK b : b = [nth |-> NextEntry(t), at |-> now + wait, tok |-> est, fin |-> FALSE,
                      call |-> Len(calls) + 1]
    OBVIOUS
  <2>2. now + wait \in Nat /\ Len(calls) + 1 \in Nat
    BY <1>2
  <2>3. b \in Entry
    BY <1>3, <2>1, <2>2 DEF Entry
  <2>4. b.nth = NextEntry(t) /\ b.call = Len(calls) + 1 /\ b.at = now + wait /\ ~b.fin
    BY <2>1
  <2>5. tokens' = t \cup {b}
    BY <1>1, <1>5, <2>1 DEF Reserve
  <2>6. IsFiniteSet(tokens') /\ tokens' \subseteq Entry
    BY <1>2, <2>3, <2>5, FS_AddElement
  <2>7. \A e \in t : e.nth < b.nth /\ e.nth # b.nth
    BY <1>3, <2>4
  <2>8. Numbered'
    BY <1>2, <2>5, <2>7 DEF Numbered
  <2> QED BY <1>1, <2>3, <2>4, <2>5, <2>6, <2>7, <2>8
<1> QED BY <1>4, <1>5

-----------------------------------------------------------------------------
(* The operations                                                          *)

\* A call that is refused, answered or has failed is granted as before.
LEMMA RefusedCall ==
    ASSUME QuotaInv, Refuse
    PROVE  /\ calls' \in Seq(CallType) /\ Granted' = Granted
           /\ \A c \in Granted : calls'[c] = calls[c]
<1>1. PICK call : call = [phase |-> "refused", start |-> now, used |-> 0]
  OBVIOUS
<1>2. now \in Nat /\ Len(calls) \in Nat /\ calls \in Seq(CallType)
  BY TypesAre DEF QuotaInv, QuotaTypeOK
<1>3. call \in CallType /\ call.phase = "refused" /\ calls' = Append(calls, call)
  BY <1>1, <1>2 DEF CallType, Refuse
<1>4. PICK n : n = Len(calls) + 1
  OBVIOUS
<1>5. /\ calls' \in Seq(CallType) /\ Len(calls') = n /\ calls'[n] = call
      /\ \A c \in 1..Len(calls) : calls'[c] = calls[c]
  BY <1>2, <1>3, <1>4, AppendProperties
<1>6. 1..n = (1..Len(calls)) \cup {n}
  BY <1>2, <1>4
<1>7. Granted' = {c \in 1..n : calls'[c].phase # "refused"}
  BY <1>5 DEF Granted
<1>8. \A c \in 1..Len(calls) : c \in Granted <=> calls'[c].phase # "refused"
  BY <1>5 DEF Granted
<1>9. Granted \subseteq 1..Len(calls)
  BY DEF Granted
<1>10. Granted' = Granted
  BY <1>3, <1>5, <1>6, <1>7, <1>8, <1>9
<1> QED BY <1>5, <1>9, <1>10

LEMMA ChangedCall ==
    ASSUME QuotaInv, NEW c \in 1..Len(calls), calls[c].phase # "refused",
           NEW call \in CallType, call.phase # "refused", call.start = calls[c].start,
           calls' = [calls EXCEPT ![c] = call]
    PROVE  /\ calls' \in Seq(CallType) /\ Granted' = Granted
           /\ \A d \in Granted : calls'[d].start = calls[d].start
           /\ calls'[c] = call /\ \A d \in 1..Len(calls) : d # c => calls'[d] = calls[d]
<1>1. calls \in Seq(CallType)
  BY DEF QuotaInv, QuotaTypeOK
<1>2. /\ calls' \in Seq(CallType) /\ Len(calls') = Len(calls) /\ calls'[c] = call
      /\ \A d \in 1..Len(calls) : d # c => calls'[d] = calls[d]
  BY <1>1, ExceptSeq
<1>3. \A d \in 1..Len(calls) : calls'[d].phase # "refused" <=> calls[d].phase # "refused"
  BY <1>2
<1>4. Granted' = Granted
  BY <1>2, <1>3 DEF Granted
<1>5. \A d \in 1..Len(calls) : calls'[d].start = calls[d].start
  BY <1>2
<1> QED BY <1>2, <1>4, <1>5 DEF Granted

\* The calls after an answer, an answer that is recorded again, a failure.
LEMMA CallsAre ==
    ASSUME NEW call \in CallType, NEW p \in {"answered", "repeated", "failed"}, NEW u \in Nat
    PROVE  /\ [call EXCEPT !.phase = p, !.used = u] \in CallType
           /\ [call EXCEPT !.phase = p, !.used = u].phase = p
           /\ [call EXCEPT !.phase = p, !.used = u].used = u
           /\ [call EXCEPT !.phase = p, !.used = u].start = call.start
           /\ [call EXCEPT !.phase = p] \in CallType
           /\ [call EXCEPT !.phase = p].phase = p
           /\ [call EXCEPT !.phase = p].start = call.start
           /\ call.used \in Nat
BY DEF CallType

LEMMA QuotaStarts == QuotaInit => QuotaInv
<1> SUFFICES ASSUME QuotaInit PROVE QuotaInv
  OBVIOUS
<1>1. calls = <<>> /\ Len(calls) = 0 /\ now = 0 /\ history = {} /\ tokens = {} /\ orderly = TRUE
  BY DEF QuotaInit
<1>2. Granted = {} /\ LiveHistory = {}
  BY <1>1 DEF Granted, LiveHistory
<1>3. QuotaTypeOK
  BY <1>1, <1>2, FS_EmptySet DEF QuotaTypeOK
<1>4. SlotsKept /\ Numbered
  BY <1>1, <1>2 DEF SlotsKept, Numbered
<1>5. PICK chain \in [Granted -> 1..RPM] : TRUE
  <2>1. [c \in Granted |-> 1] \in [Granted -> 1..RPM]
    BY <1>2
  <2> QED BY <2>1
<1>6. Spaced
  BY <1>2, <1>5 DEF Spaced
<1> QED BY <1>3, <1>4, <1>6 DEF QuotaInv

LEMMA QuotaRequest ==
    ASSUME QuotaInv, NEW est \in Estimates, NEW mw \in MaxWaits, CheckAndWait(est, mw)
    PROVE  QuotaInv'
<1>1. PICK L, t, wait : L = LiveHistory /\ t = LiveTokens
        /\ wait = Longer(RequestWait(LiveHistory), TokenWait(LiveTokens, est))
  OBVIOUS
<1>2. /\ now' = now /\ orderly' = orderly /\ now \in Nat /\ est \in Nat
      /\ orderly \in BOOLEAN /\ tokens \subseteq Entry /\ IsFiniteSet(tokens)
  BY TypesAre, QuotaAssumption DEF CheckAndWait, QuotaInv, QuotaTypeOK
<1>3. wait \in Nat /\ wait >= RequestWait(LiveHistory)
  BY <1>1, RequestWaitIs, TokenWaitIs, LongerIs
<1>4. \/ Refuse /\ history' = history /\ tokens' = tokens
      \/ Refuse /\ history' = L /\ tokens' = t
      \/ Reserve(est, wait)
  BY <1>1 DEF CheckAndWait, TooLarge
<1>5. CASE Refuse /\ (history' = history \/ history' = L) /\ (tokens' = tokens \/ tokens' = t)
  <2>1. /\ calls' \in Seq(CallType) /\ Granted' = Granted
        /\ \A c \in Granted : calls'[c] = calls[c]
    BY <1>5, RefusedCall
  <2>2. SlotsKept' /\ Spaced' /\ history' \subseteq Granted'
    BY <1>1, <1>2, <1>5, <2>1, NoNewSlot
  <2>3. t \in SUBSET tokens /\ IsFiniteSet(t)
    BY <1>1, TypesAre
  <2>4. Numbered' /\ tokens' \subseteq Entry /\ IsFiniteSet(tokens')
    BY <1>2, <1>5, <2>3 DEF QuotaInv, Numbered
  <2> QED BY <1>2, <2>1, <2>2, <2>4 DEF QuotaInv, QuotaTypeOK
<1>6. CASE Reserve(est, wait)
  <2>1. /\ calls' \in Seq(CallType) /\ SlotsKept' /\ Spaced' /\ history' \subseteq Granted'
    BY <1>2, <1>3, <1>6, NewSlot
  <2>2. tokens' \subseteq Entry /\ IsFiniteSet(tokens') /\ Numbered'
    BY <1>2, <1>3, <1>6, Reserved
  <2> QED BY <1>2, <2>1, <2>2 DEF QuotaInv, QuotaTypeOK
<1> QED BY <1>4, <1>5, <1>6

LEMMA QuotaAnswer ==
    ASSUME QuotaInv, NEW c \in 1..Len(calls), NEW actual \in Actuals, Answer(c, actual)
    PROVE  QuotaInv'
<1>1. /\ now' = now /\ history' = history /\ actual \in Nat /\ now \in Nat
      /\ calls[c].phase = "granted" /\ RecordTokens(actual)
      /\ calls' = [calls EXCEPT ![c] = [@ EXCEPT !.phase = "answered", !.used = actual]]
      /\ calls[c] \in CallType
  BY TypesAre, QuotaAssumption DEF Answer, Called
<1>2. PICK call : call = [calls[c] EXCEPT !.phase = "answered", !.used = actual]
  OBVIOUS
<1>3. call \in CallType /\ call.phase = "answered" /\ call.start = calls[c].start
  BY <1>1, <1>2 DEF CallType
<1>4. calls' = [calls EXCEPT ![c] = call]
  BY <1>1, <1>2
<1>5. /\ calls' \in Seq(CallType) /\ Granted' = Granted
      /\ \A d \in Granted : calls'[d].start = calls[d].start
  BY <1>1, <1>3, <1>4, ChangedCall
<1>6. SlotsKept' /\ Spaced' /\ history' \subseteq Granted'
  BY <1>1, <1>5, NoNewSlot
<1>7. tokens' \subseteq Entry /\ IsFiniteSet(tokens') /\ Numbered'
  BY <1>1, Recorded
<1>8. orderly' \in BOOLEAN
  BY DEF Answer
<1> QED BY <1>1, <1>5, <1>6, <1>7, <1>8 DEF QuotaInv, QuotaTypeOK

LEMMA QuotaAnswerAgain ==
    ASSUME QuotaInv, NEW c \in 1..Len(calls), AnswerAgain(c)
    PROVE  QuotaInv'
<1>1. /\ now' = now /\ history' = history /\ now \in Nat /\ calls[c].used \in Nat
      /\ calls[c].phase = "answered" /\ RecordTokens(calls[c].used)
      /\ calls' = [calls EXCEPT ![c] = [@ EXCEPT !.phase = "repeated"]] /\ orderly' = FALSE
      /\ calls[c] \in CallType
  BY TypesAre, CallsAre DEF AnswerAgain
<1>2. PICK call : call = [calls[c] EXCEPT !.phase = "repeated"]
  OBVIOUS
<1>3. call \in CallType /\ call.phase = "repeated" /\ call.start = calls[c].start
  BY <1>1, <1>2, CallsAre
<1>4. calls' = [calls EXCEPT ![c] = call]
  BY <1>1, <1>2
<1>5. /\ calls' \in Seq(CallType) /\ Granted' = Granted
      /\ \A d \in Granted : calls'[d].start = calls[d].start
  BY <1>1, <1>3, <1>4, ChangedCall
<1>6. SlotsKept' /\ Spaced' /\ history' \subseteq Granted'
  BY <1>1, <1>5, NoNewSlot
<1>7. tokens' \subseteq Entry /\ IsFiniteSet(tokens') /\ Numbered'
  BY <1>1, Recorded
<1> QED BY <1>1, <1>5, <1>6, <1>7 DEF QuotaInv, QuotaTypeOK

LEMMA QuotaFail ==
    ASSUME QuotaInv, NEW c \in 1..Len(calls), Fail(c)
    PROVE  QuotaInv'
<1>1. /\ now' = now /\ history' = history /\ now \in Nat /\ calls[c] \in CallType
      /\ calls[c].phase = "granted" /\ tokens' = tokens
      /\ calls' = [calls EXCEPT ![c] = [@ EXCEPT !.phase = "failed"]] /\ orderly' = FALSE
  BY TypesAre DEF Fail, Called
<1>2. PICK call : call = [calls[c] EXCEPT !.phase = "failed"]
  OBVIOUS
<1>3. call \in CallType /\ call.phase = "failed" /\ call.start = calls[c].start
  BY <1>1, <1>2, CallsAre
<1>4. calls' = [calls EXCEPT ![c] = call]
  BY <1>1, <1>2
<1>5. /\ calls' \in Seq(CallType) /\ Granted' = Granted
      /\ \A d \in Granted : calls'[d].start = calls[d].start
  BY <1>1, <1>3, <1>4, ChangedCall
<1>6. SlotsKept' /\ Spaced' /\ history' \subseteq Granted'
  BY <1>1, <1>5, NoNewSlot
<1>7. tokens' \subseteq Entry /\ IsFiniteSet(tokens') /\ Numbered'
  BY <1>1 DEF QuotaInv, QuotaTypeOK, Numbered
<1> QED BY <1>1, <1>5, <1>6, <1>7 DEF QuotaInv, QuotaTypeOK

LEMMA QuotaTicks ==
    ASSUME QuotaInv, QuotaTick
    PROVE  QuotaInv'
<1>1. /\ now' = now + 1 /\ now \in Nat /\ history' = history /\ tokens' = tokens
      /\ calls' = calls /\ orderly' = orderly
  BY TypesAre DEF QuotaTick
<1>2. Granted' = Granted /\ calls' \in Seq(CallType) /\ now' \in Nat /\ now' >= now
  BY <1>1 DEF Granted, QuotaInv, QuotaTypeOK
<1>3. SlotsKept' /\ Spaced' /\ history' \subseteq Granted'
  BY <1>1, <1>2, NoNewSlot
<1> QED BY <1>1, <1>2, <1>3 DEF QuotaInv, QuotaTypeOK, Numbered

LEMMA QuotaStays ==
    ASSUME QuotaInv, UNCHANGED quotaVars
    PROVE  QuotaInv'
<1>1. /\ now' = now /\ now \in Nat /\ history' = history /\ tokens' = tokens
      /\ calls' = calls /\ orderly' = orderly
  BY TypesAre DEF quotaVars
<1>2. Granted' = Granted /\ calls' \in Seq(CallType) /\ now' >= now
  BY <1>1 DEF Granted, QuotaInv, QuotaTypeOK
<1>3. SlotsKept' /\ Spaced' /\ history' \subseteq Granted'
  BY <1>1, <1>2, NoNewSlot
<1> QED BY <1>1, <1>2, <1>3 DEF QuotaInv, QuotaTypeOK, Numbered

LEMMA QuotaStep ==
    ASSUME QuotaInv, [QuotaNext]_quotaVars
    PROVE  QuotaInv'
<1>1. CASE \E est \in Estimates, mw \in MaxWaits : CheckAndWait(est, mw)
  BY <1>1, QuotaRequest
<1>2. CASE \E c \in 1..Len(calls) : Fail(c) \/ AnswerAgain(c)
  BY <1>2, QuotaFail, QuotaAnswerAgain
<1>3. CASE \E c \in 1..Len(calls), actual \in Actuals : Answer(c, actual)
  BY <1>3, QuotaAnswer
<1>4. CASE QuotaTick
  BY <1>4, QuotaTicks
<1>5. CASE UNCHANGED quotaVars
  BY <1>5, QuotaStays
<1> QED BY <1>1, <1>2, <1>3, <1>4, <1>5 DEF QuotaNext

\* The histories of a model hold what its calls reserved, and the slots of its
\* calls fall into as many chains as it is allowed requests, a window apart
\* within each.
THEOREM QuotaInvariant == QuotaSpec => []QuotaInv
<1>1. QuotaInit => QuotaInv
  BY QuotaStarts
<1>2. QuotaInv /\ [QuotaNext]_quotaVars => QuotaInv'
  BY QuotaStep
<1> QED BY <1>1, <1>2, PTL DEF QuotaSpec

\* RequestsWithinQuota for any limit, any window and any number of calls: no
\* window holds more of a model's slots than its requests per minute.
THEOREM RequestsStayWithinQuota == QuotaSpec => []RequestsWithinQuota
<1>1. QuotaInv => RequestsWithinQuota
  <2> SUFFICES ASSUME QuotaInv, NEW c \in Granted
               PROVE  Cardinality({d \in Granted :
                                     /\ calls[c].start <= calls[d].start
                                     /\ calls[d].start < calls[c].start + Window}) <= RPM
    BY DEF RequestsWithinQuota
  <2>1. PICK W, K : /\ W = {d \in Granted : /\ calls[c].start <= calls[d].start
                                             /\ calls[d].start < calls[c].start + Window}
                    /\ K = 1..RPM
    OBVIOUS
  <2>2. /\ RPM \in Nat /\ Window \in Nat /\ W \in SUBSET Granted /\ IsFiniteSet(Granted)
        /\ \A d \in Granted : d \in Nat /\ calls[d].start \in Nat
    BY <2>1, TypesAre, QuotaAssumption
  <2>3. IsFiniteSet(W) /\ Cardinality(W) \in Nat
    BY <2>2, FS_Subset, FS_CardinalityType
  <2>4. IsFiniteSet(K) /\ Cardinality(K) = RPM
    BY <2>1, <2>2, FS_Interval
  <2>5. PICK chain \in [Granted -> K] :
          \A d, e \in Granted : d < e /\ chain[d] = chain[e]
                                   => calls[d].start + Window <= calls[e].start
    BY <2>1 DEF QuotaInv, Spaced
  <2>6. PICK f : f = [d \in W |-> chain[d]]
    OBVIOUS
  <2>7. f \in [W -> K]
    BY <2>2, <2>5, <2>6
  <2>8. ASSUME NEW d \in W, NEW e \in W, d < e PROVE f[d] # f[e]
    <3>1. /\ d \in Granted /\ e \in Granted /\ calls[c].start <= calls[d].start
          /\ calls[e].start < calls[c].start + Window
      BY <2>1
    <3>2. ~(calls[d].start + Window <= calls[e].start)
      BY <2>2, <3>1
    <3> QED BY <2>5, <2>6, <2>8, <3>1, <3>2
  <2>9. \A d, e \in W : d # e => f[d] # f[e]
    <3>1. \A d, e \in W : d # e => d < e \/ e < d
      BY <2>2
    <3> QED BY <2>8, <3>1
  <2>10. ~(Cardinality(K) < Cardinality(W))
    BY <2>3, <2>4, <2>7, <2>9, FS_PigeonHole
  <2> QED BY <2>1, <2>2, <2>3, <2>4, <2>10
<1> QED BY <1>1, QuotaInvariant, PTL

-----------------------------------------------------------------------------
(* What is booked, while the answers come in turn                          *)

LEMMA BookedByRequest ==
    ASSUME QuotaInv, Booked, 0 \notin Estimates,
           NEW est \in Estimates, NEW mw \in MaxWaits, CheckAndWait(est, mw)
    PROVE  Booked'
<1> SUFFICES ASSUME orderly'
             PROVE  /\ \A e \in tokens' :
                          /\ e.call \in Granted' /\ e.at = calls'[e.call].start
                          /\ e.fin => calls'[e.call].phase = "answered"
                                      /\ e.tok = calls'[e.call].used
                          /\ ~e.fin => calls'[e.call].phase = "granted"
                    /\ \A e, d \in tokens' : e.nth < d.nth <=> e.call < d.call
                    /\ \A c \in Granted' :
                          calls'[c].phase = "granted" /\ now' <= calls'[c].start + Window
                          => \E e \in tokens' : e.call = c
  BY DEF Booked, InWindow
<1>1. PICK t, wait, G : t = LiveTokens /\ G = Granted
        /\ wait = Longer(RequestWait(LiveHistory), TokenWait(LiveTokens, est))
  OBVIOUS
<1>2. /\ now' = now /\ orderly' = orderly /\ now \in Nat /\ est \in Nat /\ est # 0
      /\ t \subseteq tokens /\ Len(calls) \in Nat /\ G \subseteq 1..Len(calls)
      /\ \A e \in t : e \in Entry
  BY <1>1, TypesAre, QuotaAssumption DEF CheckAndWait, QuotaInv, QuotaTypeOK
<1>3. /\ \A e \in tokens :
              /\ e.call \in G /\ e.at = calls[e.call].start
              /\ e.fin => calls[e.call].phase = "answered" /\ e.tok = calls[e.call].used
              /\ ~e.fin => calls[e.call].phase = "granted"
      /\ \A e, d \in tokens : e.nth < d.nth <=> e.call < d.call
      /\ \A c \in G : calls[c].phase = "granted" /\ now <= calls[c].start + Window
              => \E e \in tokens : e.call = c
  BY <1>1, <1>2 DEF Booked, InWindow
<1>4. \A c \in G : calls[c].phase = "granted" /\ now <= calls[c].start + Window
              => \E e \in t : e.call = c
  <2> SUFFICES ASSUME NEW c \in G, calls[c].phase = "granted", now <= calls[c].start + Window
               PROVE  \E e \in t : e.call = c
    OBVIOUS
  <2>1. PICK e \in tokens : e.call = c
    BY <1>3
  <2>2. e.at = calls[c].start
    BY <1>3, <2>1
  <2> QED BY <1>1, <2>1, <2>2 DEF LiveTokens, InWindow
<1>5. wait \in Nat /\ wait >= RequestWait(LiveHistory)
  BY <1>1, RequestWaitIs, TokenWaitIs, LongerIs
<1>6. \/ Refuse /\ (tokens' = tokens \/ tokens' = t)
      \/ Reserve(est, wait)
  BY <1>1 DEF CheckAndWait, TooLarge
<1>7. CASE Refuse /\ (tokens' = tokens \/ tokens' = t)
  <2>1. Granted' = G /\ \A c \in G : calls'[c] = calls[c]
    BY <1>1, <1>7, RefusedCall
  <2>2. tokens' \subseteq tokens /\ t \subseteq tokens'
    BY <1>2, <1>7
  <2> QED BY <1>2, <1>3, <1>4, <2>1, <2>2
<1>8. CASE Reserve(est, wait)
  <2>1. PICK n : n = Len(calls) + 1
    OBVIOUS
  <2>2. PICK call : call = [phase |-> "granted", start |-> now + wait, used |-> 0]
    OBVIOUS
  <2>3. Granted' = G \cup {n} /\ calls'[n] = call /\ \A c \in G : calls'[c] = calls[c]
    BY <1>1, <1>2, <1>5, <1>8, <2>1, <2>2, NewSlot
  <2>4. PICK b \in Entry : /\ tokens' = t \cup {b}
                           /\ b.call = n /\ b.at = now + wait /\ ~b.fin
                           /\ \A e \in t : e.nth < b.nth
    BY <1>1, <1>2, <1>5, <1>8, <2>1, Reserved
  <2>5. call.phase = "granted" /\ call.start = now + wait
    BY <2>2
  <2>6. \A e \in tokens' :
          /\ e.call \in Granted' /\ e.at = calls'[e.call].start
          /\ e.fin => calls'[e.call].phase = "answered" /\ e.tok = calls'[e.call].used
          /\ ~e.fin => calls'[e.call].phase = "granted"
    <3>1. \A e \in t : e \in tokens
      BY <1>2
    <3>2. ASSUME NEW e \in t
          PROVE  /\ e.call \in Granted' /\ e.at = calls'[e.call].start
                 /\ e.fin => calls'[e.call].phase = "answered" /\ e.tok = calls'[e.call].used
                 /\ ~e.fin => calls'[e.call].phase = "granted"
      <4>1. e.call \in G /\ calls'[e.call] = calls[e.call]
        BY <1>3, <2>3, <3>1
      <4> QED BY <1>3, <2>3, <3>1, <4>1
    <3>3. b.call \in Granted' /\ b.at = calls'[b.call].start /\ ~b.fin
          /\ calls'[b.call].phase = "granted"
      BY <2>3, <2>4, <2>5
    <3> QED BY <2>4, <3>2, <3>3
  <2>7. \A e, d \in tokens' : e.nth < d.nth <=> e.call < d.call
    <3>1. \A e \in t : e.call \in Nat /\ e.call < n /\ e.nth \in Nat
      BY <1>2, <1>3, <2>1 DEF Entry
    <3>2. b.nth \in Nat /\ b.call \in Nat
      BY DEF Entry
    <3>3. \A e, d \in t : e.nth < d.nth <=> e.call < d.call
      BY <1>2, <1>3
    <3>4. /\ \A e \in t : (e.nth < b.nth <=> e.call < b.call)
                          /\ (b.nth < e.nth <=> b.call < e.call)
          /\ b.nth < b.nth <=> b.call < b.call
      BY <2>4, <3>1, <3>2
    <3> QED BY <2>4, <3>3, <3>4
  <2>8. \A c \in Granted' :
           calls'[c].phase = "granted" /\ now' <= calls'[c].start + Window
              => \E e \in tokens' : e.call = c
    BY <1>2, <1>4, <2>3, <2>4
  <2> QED BY <2>6, <2>7, <2>8
<1> QED BY <1>6, <1>7, <1>8

LEMMA BookedByAnswer ==
    ASSUME QuotaInv, Booked, NEW c \in 1..Len(calls), NEW actual \in Actuals, Answer(c, actual)
    PROVE  Booked'
<1> SUFFICES ASSUME orderly'
             PROVE  /\ \A e \in tokens' :
                          /\ e.call \in Granted' /\ e.at = calls'[e.call].start
                          /\ e.fin => calls'[e.call].phase = "answered"
                                      /\ e.tok = calls'[e.call].used
                          /\ ~e.fin => calls'[e.call].phase = "granted"
                    /\ \A e, d \in tokens' : e.nth < d.nth <=> e.call < d.call
                    /\ \A d \in Granted' :
                          calls'[d].phase = "granted" /\ now' <= calls'[d].start + Window
                          => \E e \in tokens' : e.call = d
  BY DEF Booked, InWindow
<1>1. PICK t, G : t = LiveTokens /\ G = Granted
  OBVIOUS
<1>2. /\ now' = now /\ now \in Nat /\ actual \in Nat /\ orderly
      /\ calls[c].phase = "granted" /\ RecordTokens(actual)
      /\ calls' = [calls EXCEPT ![c] = [@ EXCEPT !.phase = "answered", !.used = actual]]
      /\ calls[c] \in CallType /\ now <= calls[c].start + Window
      /\ \A d \in 1..(c - 1) : calls[d].phase # "granted"
  BY TypesAre, QuotaAssumption DEF Answer, Called, InTurn, InWindow
<1>3. /\ t \subseteq tokens /\ Len(calls) \in Nat /\ G \subseteq 1..Len(calls)
      /\ \A e \in t : e \in Entry
      /\ \A e, d \in tokens : e.nth = d.nth => e = d
  BY <1>1, TypesAre DEF QuotaInv, Numbered
<1>4. /\ \A e \in tokens :
              /\ e.call \in G /\ e.at = calls[e.call].start
              /\ e.fin => calls[e.call].phase = "answered" /\ e.tok = calls[e.call].used
              /\ ~e.fin => calls[e.call].phase = "granted"
      /\ \A e, d \in tokens : e.nth < d.nth <=> e.call < d.call
      /\ \A d \in G : calls[d].phase = "granted" /\ now <= calls[d].start + Window
              => \E e \in tokens : e.call = d
  BY <1>1, <1>2 DEF Booked, InWindow
<1>5. \A d \in G : calls[d].phase = "granted" /\ now <= calls[d].start + Window
              => \E e \in t : e.call = d
  <2> SUFFICES ASSUME NEW d \in G, calls[d].phase = "granted", now <= calls[d].start + Window
               PROVE  \E e \in t : e.call = d
    OBVIOUS
  <2>1. PICK e \in tokens : e.call = d
    BY <1>4
  <2>2. e.at = calls[d].start
    BY <1>4, <2>1
  <2> QED BY <1>1, <2>1, <2>2 DEF LiveTokens, InWindow
<1>6. PICK call : call = [calls[c] EXCEPT !.phase = "answered", !.used = actual]
  OBVIOUS
<1>7. /\ call \in CallType /\ call.phase = "answered" /\ call.start = calls[c].start
      /\ call.used = actual
  BY <1>2, <1>6 DEF CallType
<1>8. calls' = [calls EXCEPT ![c] = call]
  BY <1>2, <1>6
<1>9. /\ Granted' = G /\ calls'[c] = call
      /\ \A d \in 1..Len(calls) : d # c => calls'[d] = calls[d]
  BY <1>1, <1>2, <1>7, <1>8, ChangedCall
<1>10. c \in G
  BY <1>1, <1>2 DEF Granted
\* The answer finds its own reservation, the oldest that is open.
<1>11. PICK own \in t : own.call = c
  BY <1>2, <1>5, <1>10
<1>12. own \in Open(LiveTokens)
  BY <1>1, <1>2, <1>3, <1>4, <1>11 DEF Open
<1>13. PICK o \in Open(LiveTokens) :
         /\ \A d \in Open(LiveTokens) : o.nth <= d.nth
         /\ \E b \in Entry : /\ tokens' = (LiveTokens \ {o}) \cup {b}
                            /\ b.nth = o.nth /\ b.at = o.at /\ b.call = o.call
                            /\ b.tok = actual /\ b.fin
  BY <1>2, <1>12, Recorded
<1>14. o \in t /\ ~o.fin /\ o.nth <= own.nth
  BY <1>1, <1>12, <1>13 DEF Open
<1>15. o = own
  <2>1. o.call \in G /\ calls[o.call].phase = "granted"
    BY <1>3, <1>4, <1>14
  <2>2. /\ o.call \in Nat /\ c \in Nat /\ o.nth \in Nat /\ own.nth \in Nat /\ o.call >= 1
    BY <1>3, <1>11, <1>14, <2>1 DEF Entry
  <2>3. ~(o.call < c)
    BY <1>2, <2>1, <2>2
  <2>4. ~(own.nth < o.nth)
    BY <1>14, <2>2
  <2>5. ~(c < o.call)
    BY <1>3, <1>4, <1>11, <1>14, <2>4
  <2>6. o.call = own.call
    BY <1>11, <2>2, <2>3, <2>5
  <2>7. ~(o.nth < own.nth)
    BY <1>3, <1>4, <1>11, <1>14, <2>2, <2>6
  <2>8. o.nth = own.nth
    BY <2>2, <2>4, <2>7
  <2> QED BY <1>3, <1>14, <2>8
<1>16. PICK b \in Entry : /\ tokens' = (t \ {own}) \cup {b}
                          /\ b.nth = own.nth /\ b.at = own.at /\ b.call = c
                          /\ b.tok = actual /\ b.fin
  BY <1>1, <1>11, <1>13, <1>15
<1>17. ASSUME NEW e \in t \ {own}
       PROVE  e.call # c
  <2>1. e.nth \in Nat /\ own.nth \in Nat /\ c \in Nat /\ e \in tokens /\ own \in tokens
    BY <1>3, <1>11 DEF Entry
  <2>2. e.call = c => ~(e.nth < own.nth) /\ ~(own.nth < e.nth)
    BY <1>4, <1>11, <2>1
  <2> QED BY <1>3, <2>1, <2>2
<1>18. \A e \in tokens' :
          /\ e.call \in Granted' /\ e.at = calls'[e.call].start
          /\ e.fin => calls'[e.call].phase = "answered" /\ e.tok = calls'[e.call].used
          /\ ~e.fin => calls'[e.call].phase = "granted"
  <2>1. ASSUME NEW e \in t \ {own}
        PROVE  /\ e.call \in Granted' /\ e.at = calls'[e.call].start
               /\ e.fin => calls'[e.call].phase = "answered" /\ e.tok = calls'[e.call].used
               /\ ~e.fin => calls'[e.call].phase = "granted"
    <3>1. e \in tokens /\ e.call # c /\ e.call \in G /\ e.call \in 1..Len(calls)
      BY <1>3, <1>4, <1>17
    <3>2. calls'[e.call] = calls[e.call]
      BY <1>9, <3>1
    <3> QED BY <1>4, <1>9, <3>1, <3>2
  <2>2. /\ b.call \in Granted' /\ b.at = calls'[b.call].start
        /\ calls'[b.call].phase = "answered" /\ b.tok = calls'[b.call].used /\ b.fin
    BY <1>3, <1>4, <1>7, <1>9, <1>10, <1>11, <1>16
  <2> QED BY <1>16, <2>1, <2>2
<1>19. \A e, d \in tokens' : e.nth < d.nth <=> e.call < d.call
  <2>1. \A e, d \in t : e.nth < d.nth <=> e.call < d.call
    BY <1>3, <1>4
  <2> QED BY <1>11, <1>16, <2>1
<1>20. \A d \in Granted' :
          calls'[d].phase = "granted" /\ now' <= calls'[d].start + Window
             => \E e \in tokens' : e.call = d
  <2> SUFFICES ASSUME NEW d \in Granted', calls'[d].phase = "granted",
                      now' <= calls'[d].start + Window
               PROVE  \E e \in tokens' : e.call = d
    OBVIOUS
  <2>1. d \in G /\ d # c /\ calls'[d] = calls[d]
    BY <1>3, <1>7, <1>9
  <2>2. PICK e \in t : e.call = d
    BY <1>2, <1>5, <2>1
  <2> QED BY <1>11, <1>16, <2>1, <2>2
<1> QED BY <1>18, <1>19, <1>20

LEMMA BookedStep ==
    ASSUME 0 \notin Estimates, QuotaInv, Booked, [QuotaNext]_quotaVars
    PROVE  Booked'
<1>1. CASE \E est \in Estimates, mw \in MaxWaits : CheckAndWait(est, mw)
  BY <1>1, BookedByRequest
<1>2. CASE \E c \in 1..Len(calls) : Fail(c) \/ AnswerAgain(c)
  <2>1. orderly' = FALSE
    BY <1>2 DEF Fail, AnswerAgain
  <2> QED BY <2>1 DEF Booked
<1>3. CASE \E c \in 1..Len(calls), actual \in Actuals : Answer(c, actual)
  BY <1>3, BookedByAnswer
<1>4. CASE QuotaTick
  <2>1. /\ now \in Nat /\ Window \in Nat /\ \A c \in Granted : calls[c].start \in Nat
    BY TypesAre, QuotaAssumption
  <2>2. \A c \in Granted : now + 1 <= calls[c].start + Window => now <= calls[c].start + Window
    BY <2>1
  <2>3. Granted' = Granted
    BY <1>4 DEF QuotaTick, Granted
  <2> QED BY <1>4, <2>2, <2>3 DEF QuotaTick, Booked, InWindow
<1>5. CASE UNCHANGED quotaVars
  BY <1>5 DEF quotaVars, Booked, InWindow, Granted
<1> QED BY <1>1, <1>2, <1>3, <1>4, <1>5 DEF QuotaNext

\* BookedOnItsOwnCall for any limits and any number of calls, where every call
\* is estimated at a token at least (model_factory.py:60 and callbacks.py:172
\* see to it): what an answer used is booked on the reservation of its call.
THEOREM TokensBookedOnTheirCall ==
    ASSUME 0 \notin Estimates
    PROVE  QuotaSpec => []BookedOnItsOwnCall
<1>1. QuotaInit => Booked
  <2> SUFFICES ASSUME QuotaInit PROVE Booked
    OBVIOUS
  <2>1. tokens = {} /\ calls = <<>>
    BY DEF QuotaInit
  <2>2. Granted = {}
    BY <2>1 DEF Granted
  <2> QED BY <2>1, <2>2 DEF Booked
<1>2. QuotaInv /\ Booked /\ [QuotaNext]_quotaVars => Booked'
  BY BookedStep
<1>3. QuotaInv /\ Booked => BookedOnItsOwnCall
  <2>1. QuotaInv => Granted \subseteq Nat \ {0}
    BY TypesAre
  <2> QED BY <2>1 DEF Booked, BookedOnItsOwnCall
<1> QED BY <1>1, <1>2, <1>3, QuotaInvariant, PTL DEF QuotaSpec

=============================================================================
