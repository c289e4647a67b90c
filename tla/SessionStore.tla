----------------------------- MODULE SessionStore -----------------------------
(***************************************************************************)
(* BoundedSessionService (core/session_service.py) under the deliveries    *)
(* that use it one after the other (core/execution.py): the sessions in    *)
(* memory, the order of their last use, and the state ADK keeps per user,  *)
(* which here is a pull request.                                           *)
(***************************************************************************)
EXTENDS Naturals, Sequences, FiniteSets
Seqs == INSTANCE SequencesExt

CONSTANTS
    Sessions,    \* keys: [app, user]; a user has one session in an app
    MaxSessions  \* max_sessions, at least 1

ASSUME SessionAssumption == MaxSessions \in Nat \ {0}

VARIABLES
    stored,  \* self.sessions
    lru,     \* self._lru_order
    users,   \* self.user_state
    held,    \* the session of the delivery in hand
    stage    \* where it is

storeVars == <<stored, lru, users, held, stage>>

StoreInit ==
    /\ stored = {} /\ lru = <<>> /\ users = {}
    /\ held \in Sessions
    /\ stage = "idle"

-----------------------------------------------------------------------------

Positions(order, k) == {i \in 1..Len(order) : order[i] = k}

\* _touch: to the end of the order, from wherever it was.
Touched(order, k) ==
    IF Positions(order, k) = {} THEN Append(order, k)
    ELSE Append(Seqs!RemoveAt(order, CHOOSE i \in Positions(order, k) : TRUE), k)

\* _evict_if_needed: the least recently used go first.
Kept_Oldest(order) ==
    IF Len(order) > MaxSessions THEN SubSeq(order, 1, MaxSessions) ELSE order
Kept(order) ==
    IF Len(order) > MaxSessions THEN SubSeq(order, Len(order) - MaxSessions + 1, Len(order)) ELSE order

Evicted(order) == Seqs!ToSet(order) \ Seqs!ToSet(Kept(order))

\* A user without a session left in an app loses its state there.
UsersLeft(order) == users \ Evicted(order)

-----------------------------------------------------------------------------
(* A delivery                                                              *)

\* The first get_session of an attempt.
Take(k) ==
    /\ stage = "idle"
    /\ held' = k
    /\ stage' = IF k \in stored THEN "used" ELSE "missing"
    /\ lru' = IF k \in stored THEN Touched(lru, k) ELSE lru
    /\ UNCHANGED <<stored, users>>

\* _create_session_impl.
CreateSession ==
    /\ stage = "missing"
    /\ LET order == Touched(lru, held)
       IN /\ stored' = (stored \cup {held}) \ Evicted(order)
          /\ lru' = Kept(order)
          /\ users' = UsersLeft(order)
    /\ stage' = "used"
    /\ UNCHANGED held

\* append_event and the later get_session; the delivery writes its user's state.
Use ==
    /\ stage = "used"
    /\ lru' = Touched(lru, held)
    /\ users' = users \cup {held}
    /\ UNCHANGED <<stored, held, stage>>

Leave ==
    /\ stage = "used"
    /\ stage' = "idle"
    /\ UNCHANGED <<stored, lru, users, held>>

StoreNext ==
    \/ \E k \in Sessions : Take(k)
    \/ CreateSession \/ Use \/ Leave

StoreSpec == StoreInit /\ [][StoreNext]_storeVars

-----------------------------------------------------------------------------
(* Properties                                                              *)

\* The session of the delivery in hand is never the one that is evicted, also when
\* it is the only one that fits: the review is read from it at the end.
HeldSessionStays == stage = "used" => held \in stored

\* "Prevents unbounded memory growth" (session_service.py:23): neither the sessions nor
\* the states of their users outgrow the limit, in any order of use.
MemoryBounded == Cardinality(stored) <= MaxSessions /\ Cardinality(users) <= MaxSessions
=============================================================================
