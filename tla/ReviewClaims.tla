---------------------------- MODULE ReviewClaims ----------------------------
(***************************************************************************)
(* The review claim registry (state/review_idempotency.py): before a       *)
(* worker posts a formal review of a commit it claims that commit, in a    *)
(* Firestore document shared by all workers or, when Firestore is off or   *)
(* has failed once, in the memory of its own process.                      *)
(*                                                                         *)
(* One pull request is modelled; a registry key is then a head commit.     *)
(* Every caller passes github_review_exists=False                          *)
(* (review_enforcer.py:1070), so the branches on that argument are dead    *)
(* and are left out.  The clocks of the workers are assumed equal.         *)
(***************************************************************************)
EXTENDS Naturals, FiniteSets

CONSTANTS
    Workers,          \* worker processes that share the Firestore project
    Heads,            \* commits of the pull request that may be reviewed
    LeaseTicks,       \* lease_seconds (300) in clock ticks
    DurableEnabled,   \* ENABLE_REVIEW_IDEMPOTENCY
    MaxClock,         \* bound of the clock
    MaxClaims         \* bound of the number of claims ever granted

ASSUME ClaimsAssumption ==
    /\ LeaseTicks \in Nat \ {0}
    /\ DurableEnabled \in BOOLEAN
    /\ MaxClock \in Nat
    /\ MaxClaims \in Nat

VARIABLES
    durable,   \* durable[h]: the Firestore document of head h
    local,     \* local[w][h]: _local_claims of worker w
    online,    \* online[w]: the registry of w still has a client (_db)
    held,      \* the ReviewClaims callers have and have not ended yet
    issued,    \* number of claim tokens stored so far (uuid4: never reused)
    clock

registryVars == <<durable, local, online, held, issued>>
claimVars == <<durable, local, online, held, issued, clock>>

-----------------------------------------------------------------------------
Tokens == 1..MaxClaims
NoToken == 0

\* What a claim document or a _local_claims entry holds.
Entry == [status : {"none", "processing", "submitted"},
          token  : Tokens \cup {NoToken},
          lease  : Nat]

NoEntry == [status |-> "none", token |-> NoToken, lease |-> 0]

\* A ReviewClaim in the hands of a worker.  The code keeps key and token; the
\* lease and the store that granted the claim are there for the properties.
HeldClaim == [worker : Workers, head : Heads, token : Tokens,
              lease : Nat, store : {"durable", "local"}]

ClaimsTypeOK ==
    /\ durable \in [Heads -> Entry]
    /\ local \in [Workers -> [Heads -> Entry]]
    /\ online \in [Workers -> BOOLEAN]
    /\ held \subseteq HeldClaim
    /\ issued \in 0..MaxClaims
    /\ clock \in 0..MaxClock

\* _get_db(): the client is built once, and only when enabled; building it may
\* fail, and then the process stays on local memory.
BootModes == IF DurableEnabled THEN BOOLEAN ELSE {FALSE}

ClaimsInit ==
    /\ durable = [h \in Heads |-> NoEntry]
    /\ local = [w \in Workers |-> [h \in Heads |-> NoEntry]]
    /\ online \in [Workers -> BootModes]
    /\ held = {}
    /\ issued = 0
    /\ clock = 0

-----------------------------------------------------------------------------
(* Helpers of claim()                                                      *)

\* A lease still runs: an active lease blocks even a forced claim.
LeaseRuns_OffByOne(e) == e.status = "processing" /\ e.lease > clock + 1
LeaseRuns(e) == e.status = "processing" /\ e.lease > clock

Blocks_IgnoresSubmitted(e, force) == LeaseRuns(e)
Blocks(e, force) == (~force /\ e.status = "submitted") \/ LeaseRuns(e)

NextToken == issued + 1

Processing == [status |-> "processing", token |-> NextToken,
               lease |-> clock + LeaseTicks]

\* The token of the entry is the token of the claim: the guard of
\* mark_submitted and release.
Owns_Unchecked(e, c) == e.status = "processing"
Owns(e, c) == e.token = c.token

HandOut(w, h, store) ==
    /\ held' = held \cup {[worker |-> w, head |-> h, token |-> NextToken,
                           lease |-> clock + LeaseTicks, store |-> store]}
    /\ issued' = NextToken

-----------------------------------------------------------------------------
(* claim(): one transaction, or the local table under _local_lock          *)

ClaimDurable(w, h, force) ==
    /\ online[w]
    /\ IF Blocks(durable[h], force)
       THEN UNCHANGED <<durable, held, issued>>
       ELSE /\ issued < MaxClaims
            /\ durable' = [durable EXCEPT ![h] = Processing]
            /\ HandOut(w, h, "durable")
    /\ UNCHANGED <<local, online>>

\* _claim_local with the flag it is given.
TakeLocal(w, h, force) ==
    IF Blocks(local[w][h], force)
    THEN UNCHANGED <<local, held, issued>>
    ELSE /\ issued < MaxClaims
         /\ local' = [local EXCEPT ![w][h] = Processing]
         /\ HandOut(w, h, "local")

ClaimLocal(w, h, force) ==
    /\ ~online[w]
    /\ TakeLocal(w, h, force)
    /\ UNCHANGED <<durable, online>>

\* The transaction raises: the client is dropped for the rest of the process
\* and the claim is taken locally, without passing force on.  The server may
\* have committed the transaction before the error reached the worker.
FallbackForce(force) == FALSE

ClaimFallback(w, h, force) ==
    /\ online[w]
    /\ issued < MaxClaims
    /\ online' = [online EXCEPT ![w] = FALSE]
    /\ \/ UNCHANGED durable
       \/ /\ ~Blocks(durable[h], force)
          /\ durable' = [durable EXCEPT ![h] = Processing]
    /\ TakeLocal(w, h, FallbackForce(force))

Claim(w, h, force) ==
    ClaimDurable(w, h, force) \/ ClaimFallback(w, h, force) \/ ClaimLocal(w, h, force)

-----------------------------------------------------------------------------
(* mark_submitted() and release(): only the entry that carries the token   *)

Submitted(e) == [e EXCEPT !.status = "submitted"]

MarkEffect(h, c) ==
    durable' = [durable EXCEPT ![h] = IF Owns(@, c) THEN Submitted(@) ELSE @]

ReleaseEffect(h, c) ==
    durable' = [durable EXCEPT ![h] =
                    IF Owns(@, c) /\ @.status = "processing" THEN NoEntry ELSE @]

MarkSubmitted(w, c) ==
    /\ IF online[w]
       THEN MarkEffect(c.head, c) /\ UNCHANGED local
       ELSE /\ local' = [local EXCEPT ![w][c.head] =
                            IF Owns(@, c)
                            THEN [status |-> "submitted", token |-> c.token, lease |-> 0]
                            ELSE @]
            /\ UNCHANGED durable
    /\ held' = held \ {c}
    /\ UNCHANGED <<online, issued>>

Release(w, c) ==
    /\ IF online[w]
       THEN ReleaseEffect(c.head, c) /\ UNCHANGED local
       ELSE /\ local' = [local EXCEPT ![w][c.head] = IF Owns(@, c) THEN NoEntry ELSE @]
            /\ UNCHANGED durable
    /\ held' = held \ {c}
    /\ UNCHANGED <<online, issued>>

\* Neither call catches the errors of its transaction: the caller loses the
\* claim, whether or not the server committed.
MarkRaises(w, c) ==
    /\ online[w]
    /\ UNCHANGED durable \/ MarkEffect(c.head, c)
    /\ held' = held \ {c}
    /\ UNCHANGED <<local, online, issued>>

ReleaseRaises(w, c) ==
    /\ online[w]
    /\ UNCHANGED durable \/ ReleaseEffect(c.head, c)
    /\ held' = held \ {c}
    /\ UNCHANGED <<local, online, issued>>

\* An exception between claim and submission: no call ends the claim.
Abandon(w, c) ==
    /\ held' = held \ {c}
    /\ UNCHANGED <<durable, local, online, issued>>

-----------------------------------------------------------------------------
(* The process and its environment                                         *)

\* The process dies and is restarted by systemd: its memory is gone.
Crash(w) ==
    /\ local' = [local EXCEPT ![w] = [h \in Heads |-> NoEntry]]
    /\ \E mode \in BootModes : online' = [online EXCEPT ![w] = mode]
    /\ held' = {c \in held : c.worker # w}
    /\ UNCHANGED <<durable, issued>>

Tick ==
    /\ clock < MaxClock
    /\ clock' = clock + 1

\* _review_lock: a process works on one review of the pull request at a time.
LockFree(w) == \A c \in held : c.worker # w

HeldBy(w) == {c \in held : c.worker = w}

RegistryCall(w) ==
    \/ /\ LockFree(w)
       /\ \E h \in Heads, force \in BOOLEAN : Claim(w, h, force)
    \/ \E c \in HeldBy(w) :
          \/ MarkSubmitted(w, c)
          \/ MarkRaises(w, c)
          \/ Release(w, c)
          \/ ReleaseRaises(w, c)
          \/ Abandon(w, c)
    \/ Crash(w)

ClaimsNext ==
    \/ \E w \in Workers : RegistryCall(w) /\ UNCHANGED clock
    \/ Tick /\ UNCHANGED registryVars

ClaimsSpec == ClaimsInit /\ [][ClaimsNext]_claimVars

-----------------------------------------------------------------------------
(* Properties                                                              *)

Live(c) == c.lease > clock

\* Two workers never hold an unexpired claim of the same commit from Firestore:
\* the transaction of claim() and the token checks of mark_submitted() and
\* release() make the shared document a lock with a lease.
SingleDurableHolder ==
    \A c, d \in held :
        (/\ c.store = "durable" /\ Live(c)
         /\ d.store = "durable" /\ Live(d)
         /\ c.head = d.head) => c = d

\* While a process still has its Firestore client its local table is empty, so
\* the local claim taken when a transaction fails can meet no entry of its own
\* process: dropping force on that path (review_idempotency.py:159) changes
\* nothing.
OnlineMeansNoLocalMemory ==
    \A w \in Workers : online[w] => local[w] = [h \in Heads |-> NoEntry]

\* An unexpired claim document changes only by the call with which its own
\* holder ends it: a worker that comes back late, with a claim that expired and
\* was taken over, neither releases nor completes the claim of its successor.
LiveClaimEndedByHolderOnly ==
    [][\A h \in Heads :
          (LeaseRuns(durable[h]) /\ durable'[h] # durable[h])
             => \E c \in held \ held' : c.head = h /\ c.token = durable[h].token
      ]_claimVars

=============================================================================
