---------------------------- MODULE DepletedModels ----------------------------
(***************************************************************************)
(* Which models are out of quota: the registry of                          *)
(* models/depleted_registry.py, a table in the memory of each worker over  *)
(* one document per tier and model in Firestore, and the tier itself       *)
(* (models/rate_limiter.py, _resolve_tier), which each worker reads from   *)
(* its environment, from the metadata server and from Firestore, and may   *)
(* see change between two calls.                                           *)
(*                                                                         *)
(* One model is modelled: models do not share documents.                   *)
(***************************************************************************)
EXTENDS Naturals, FiniteSets

CONSTANTS
    Procs,          \* worker processes
    EnvTier,        \* WEBHOOK_TIER in the environment of each; Unset when absent
    CacheTicks,     \* 30 s: how long a tier read from outside is kept
    Debounce,       \* 5 s
    DefaultCooldown, DayCooldown, MinuteCooldown, BusyCooldown,  \* 3600, 86400, 60 and 120 s
    Errors,         \* errors a model may raise: [words, details, message, headers]
    MetaTiers,      \* tiers the metadata server may be set to, Unset among them
    LastTick,       \* bound of the clock
    MaxMarks        \* bound of the number of marks

Tiers == {"free", "paid"}
Unset == "unset"

ASSUME DepletionAssumption ==
    /\ EnvTier \in [Procs -> Tiers \cup {Unset}]
    /\ MetaTiers \subseteq Tiers \cup {Unset}
    /\ {CacheTicks, Debounce, DefaultCooldown, DayCooldown, MinuteCooldown,
        BusyCooldown, LastTick, MaxMarks} \subseteq Nat
    /\ Errors \subseteq [words : SUBSET STRING, details : Nat, message : Nat, headers : Nat]

VARIABLES
    tick,
    table,      \* table[p][t]: [at, cooldown] or NoRecord
    document,   \* document[t]: expire_at in Firestore; 0 when there is none
    metaTier,   \* WEBHOOK_TIER on the metadata server
    confTier,   \* WEBHOOK_TIER in system_config/runtime
    metaCache, confCache,   \* per worker: [at, tier], at 0 when never filled
    marks,      \* every mark made: [tier, at, until, daily, stored] (for the properties)
    verdict     \* the last answer of is_depleted: [tier, depleted, read], or none

depletionVars == <<tick, table, document, metaTier, confTier, metaCache, confCache, marks, verdict>>

NoRecord == [at |-> 0, cooldown |-> 0]
NoVerdict == [tier |-> Unset, depleted |-> FALSE, read |-> FALSE]

\* The clock starts past every cache's age: time.time() is not near zero.
FirstTick == CacheTicks + 1

DepletionInit ==
    /\ tick = FirstTick
    /\ table = [p \in Procs |-> [t \in Tiers |-> NoRecord]]
    /\ document = [t \in Tiers |-> 0]
    /\ metaTier \in MetaTiers
    /\ confTier \in {"free", Unset}
    /\ metaCache = [p \in Procs |-> [at |-> 0, tier |-> Unset]]
    /\ confCache = [p \in Procs |-> [at |-> 0, tier |-> "free"]]
    /\ marks = {}
    /\ verdict = NoVerdict

-----------------------------------------------------------------------------
(* _resolve_tier: environment, metadata server, Firestore, "free".         *)

Fresh(entry) == tick < entry.at + CacheTicks

\* A failed read of the metadata server is cached as no tier.
MetaSeen(p, up) ==
    IF Fresh(metaCache[p]) THEN metaCache[p]
    ELSE [at |-> tick, tier |-> IF up THEN metaTier ELSE Unset]

\* A failed or empty read of the configuration is "free" and is not cached.
ConfSeen(p, up) ==
    IF Fresh(confCache[p]) \/ ~up \/ confTier = Unset THEN confCache[p]
    ELSE [at |-> tick, tier |-> confTier]
ConfTierSeen(p, up) == IF Fresh(ConfSeen(p, up)) THEN ConfSeen(p, up).tier ELSE "free"

\* The tier p works with, given which of the two sources answer.
TierOf(p, up) ==
    IF EnvTier[p] # Unset THEN EnvTier[p]
    ELSE IF MetaSeen(p, up.meta).tier # Unset THEN MetaSeen(p, up.meta).tier
    ELSE ConfTierSeen(p, up.conf)

ResolveTier(p, up) ==
    /\ metaCache' = IF EnvTier[p] # Unset THEN metaCache
                    ELSE [metaCache EXCEPT ![p] = MetaSeen(p, up.meta)]
    /\ confCache' = IF EnvTier[p] # Unset \/ MetaSeen(p, up.meta).tier # Unset THEN confCache
                    ELSE [confCache EXCEPT ![p] = ConfSeen(p, up.conf)]

-----------------------------------------------------------------------------
(* What an error says of the quota: extract_rate_limit_details and the       *)
(* choice of the cooldown.  An error names kinds of quota (words) and may    *)
(* carry a delay in its details, in its message or in a header; 0 is none.   *)

RetryAfter(err) ==
    IF err.details # 0 THEN err.details
    ELSE IF err.message # 0 THEN err.message
    ELSE err.headers

QuotaType_ShortFirst(err) ==
    IF "request" \in err.words THEN "RPM"
    ELSE IF "day" \in err.words THEN "RPD" ELSE "none"

\* An error may name several kinds: the longest period comes first.
QuotaType(err) ==
    IF "day" \in err.words THEN "RPD"
    ELSE IF "token" \in err.words THEN "TPM"
    ELSE IF "request" \in err.words THEN "RPM" ELSE "none"

Or(delay, otherwise) == IF delay > 0 THEN delay ELSE otherwise

CooldownOf(err) ==
    CASE QuotaType(err) = "RPD" -> DayCooldown
      [] QuotaType(err) \in {"TPM", "RPM"} -> Or(RetryAfter(err), MinuteCooldown)
      [] QuotaType(err) = "none" /\ "unavailable" \in err.words -> BusyCooldown
      [] QuotaType(err) = "none" /\ "unavailable" \notin err.words ->
            IF RetryAfter(err) > BusyCooldown THEN RetryAfter(err)
            ELSE IF RetryAfter(err) > 0 THEN BusyCooldown ELSE DefaultCooldown

-----------------------------------------------------------------------------
(* mark_depleted, is_depleted                                              *)

Running(r) == r # NoRecord /\ tick <= r.at + r.cooldown

\* A repeated mark that asks for no more than the last one is dropped.
Debounced(p, t, cooldown) ==
    /\ table[p][t] # NoRecord
    /\ tick < table[p][t].at + Debounce
    /\ cooldown <= table[p][t].cooldown

DocTier(t) == t

MarkDepleted(p, err, up, written) ==
    LET t == DocTier(TierOf(p, up))
        c == CooldownOf(err)
    IN /\ Cardinality(marks) < MaxMarks
       /\ ResolveTier(p, up)
       /\ verdict' = NoVerdict
       /\ IF Debounced(p, t, c)
          THEN UNCHANGED <<table, document, marks>>
          ELSE /\ table' = [table EXCEPT ![p][t] = [at |-> tick, cooldown |-> c]]
               /\ document' = IF written THEN [document EXCEPT ![t] = tick + c] ELSE document
               /\ marks' = marks \cup {[tier |-> TierOf(p, up), at |-> tick, until |-> tick + c,
                                        daily |-> "day" \in err.words, stored |-> written]}
       /\ UNCHANGED <<tick, metaTier, confTier>>

Cached_Anew(t) == [at |-> tick, cooldown |-> DefaultCooldown]
Cached(t) == [at |-> tick, cooldown |-> document[t] - tick]

Asks(r) == ~Running(r)

\* Local memory first; a record that is over is dropped and Firestore is asked.
IsDepleted(p, up, readable) ==
    LET tier == TierOf(p, up)
        t == DocTier(tier)
        remote == readable /\ Asks(table[p][t]) /\ document[t] > tick
    IN /\ ResolveTier(p, up)
       /\ table' = IF ~Asks(table[p][t]) THEN table
                   ELSE [table EXCEPT ![p][t] = IF remote THEN Cached(t) ELSE NoRecord]
       /\ verdict' = [tier |-> tier, read |-> readable,
                      depleted |-> Running(table[p][t]) \/ remote]
       /\ UNCHANGED <<tick, document, metaTier, confTier, marks>>

\* The worker restarts: its table and its caches are gone.
RestartProcess(p) ==
    /\ table' = [table EXCEPT ![p] = [t \in Tiers |-> NoRecord]]
    /\ metaCache' = [metaCache EXCEPT ![p] = [at |-> 0, tier |-> Unset]]
    /\ confCache' = [confCache EXCEPT ![p] = [at |-> 0, tier |-> "free"]]
    /\ verdict' = NoVerdict
    /\ UNCHANGED <<tick, document, metaTier, confTier, marks>>

\* An operator moves the deployment to the paid tier, once.
SwitchTier ==
    /\ confTier # "paid" /\ confTier' = "paid"
    /\ verdict' = NoVerdict
    /\ UNCHANGED <<tick, table, document, metaTier, metaCache, confCache, marks>>

DepletionTick ==
    /\ tick < LastTick
    /\ tick' = tick + 1
    /\ verdict' = NoVerdict
    /\ UNCHANGED <<table, document, metaTier, confTier, metaCache, confCache, marks>>

\* Which of the two sources of the tier answer, where it makes a difference.
Sources == [meta : IF metaTier = Unset THEN {TRUE} ELSE BOOLEAN,
            conf : IF confTier = Unset THEN {TRUE} ELSE BOOLEAN]

DepletionNext ==
    \/ \E p \in Procs, err \in Errors, up \in Sources, ok \in BOOLEAN : MarkDepleted(p, err, up, ok)
    \/ \E p \in Procs, up \in Sources, ok \in BOOLEAN : IsDepleted(p, up, ok)
    \/ \E p \in Procs : RestartProcess(p)
    \/ SwitchTier \/ DepletionTick

DepletionSpec == DepletionInit /\ [][DepletionNext]_depletionVars

-----------------------------------------------------------------------------
(* Properties                                                              *)

MarksOf(t) == {k \in marks : k.tier = t}

\* A model is only reported out of quota on a tier while a mark made for that
\* tier still runs: a record copied from Firestore does not outlive it, and the
\* other tier's quota says nothing (depleted_registry.py:39 and :223).
NoPhantomDepletion ==
    verdict # NoVerdict /\ verdict.depleted =>
        \E k \in MarksOf(verdict.tier) : tick <= k.until

\* "Daily quota exhaustion takes priority" (depleted_registry.py:106): once the
\* end of a daily quota is in Firestore, no worker that reads it takes the model
\* up again within the day, unless another error of that tier was recorded since.
DailyExhaustionLasts ==
    verdict # NoVerdict /\ verdict.read /\ ~verdict.depleted =>
        \A k \in MarksOf(verdict.tier) :
            k.daily /\ k.stored /\ tick < k.at + DayCooldown =>
                \E other \in MarksOf(verdict.tier) \ {k} : other.at >= k.at
=============================================================================
