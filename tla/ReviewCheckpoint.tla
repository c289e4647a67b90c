--------------------------- MODULE ReviewCheckpoint ---------------------------
(***************************************************************************)
(* ReviewCheckpointManager (state/review_checkpoint.py) and the formal     *)
(* audits that use it (core/execution.py), for one commit of one pull      *)
(* request: a document in Firestore and a copy of it in the memory of each *)
(* worker.  Every call to Firestore may fail, and is then answered from    *)
(* memory; other workers act between any two calls.                        *)
(***************************************************************************)
EXTENDS Naturals

CONSTANTS
    Workers,       \* worker processes
    FailingCalls,  \* the calls to Firestore that may fail
    Backoff,       \* seconds until resume_after, scaled down
    Lifetime,      \* sliding_ttl_days, scaled down
    MaxClock       \* bound of the clock

Calls == {"get", "query", "read", "set"}

ASSUME CheckpointAssumption ==
    /\ FailingCalls \subseteq Calls
    /\ Backoff \in Nat \ {0} /\ Lifetime \in Nat \ {0} /\ MaxClock \in Nat \ {0}

VARIABLES
    remote,   \* the document
    cache,    \* cache[w]: the entry of _local_cache of worker w
    task,     \* task[w]: the call worker w is in, and what it has decided
    clock,
    configured, \* ENABLE_REVIEW_CHECKPOINT=1 and the client was created
    failed      \* the kinds of call that have failed so far

vars == <<remote, cache, task, clock, configured, failed>>

-----------------------------------------------------------------------------
Sticky == {"rate_limited", "completed"}
Statuses == {"pending"} \cup Sticky
Times == 0..(MaxClock + Backoff + Lifetime)

\* A document; a time of 0 is a missing field.
Checkpoint == [status : Statuses \cup {"absent"}, resume : Times, expires : Times]
Absent == [status |-> "absent", resume |-> 0, expires |-> 0]

\* status: the payload of save_checkpoint; at: `now` when the call began.
Task == [pc : {"idle", "gate", "read", "set", "run", "pause", "complete"},
         resumed : BOOLEAN, status : Statuses, at : 0..MaxClock]
Idle == [pc |-> "idle", resumed |-> FALSE, status |-> "pending", at |-> 0]

CheckpointTypeOK ==
    /\ remote \in Checkpoint
    /\ cache \in [Workers -> Checkpoint]
    /\ task \in [Workers -> Task]
    /\ clock \in 0..MaxClock
    /\ configured \in BOOLEAN
    /\ failed \subseteq FailingCalls

CheckpointInit ==
    /\ remote = Absent
    /\ cache = [w \in Workers |-> Absent]
    /\ task = [w \in Workers |-> Idle]
    /\ clock = 0
    /\ configured \in BOOLEAN
    /\ failed = {}

-----------------------------------------------------------------------------
(* Reading                                                                 *)

\* The call is answered; it fails, or no client was ever created.
Answered(call) == configured /\ UNCHANGED failed
Unanswered(call) ==
    IF configured THEN call \in FailingCalls /\ failed' = failed \cup {call} ELSE UNCHANGED failed

RemoteExpired == remote.expires # 0 /\ remote.expires < clock
FreshCopy(w) == IF cache[w].expires > clock THEN cache[w] ELSE Absent

\* What get_checkpoint returns: an expired document counts as none; a call that
\* fails, or finds no document, sends the reader to its memory.
Stored(w) == IF remote = Absent THEN FreshCopy(w) ELSE IF RemoteExpired THEN Absent ELSE remote
Answer(w, fails) == IF fails THEN FreshCopy(w) ELSE Stored(w)

Due_Early(c) == c.status = "rate_limited" /\ clock + 1 >= c.resume
Due(c) == c.status = "rate_limited" /\ clock >= c.resume

\* list_resumable lists the checkpoint: memory is only asked when the query fails.
Listed(w) ==
    \/ Answered("query") /\ Due(remote) /\ ~RemoteExpired
    \/ Unanswered("query") /\ Due(FreshCopy(w))

-----------------------------------------------------------------------------
(* An audit of the commit                                                  *)

At(w, pc) == task[w].pc = pc
Goto(w, pc) == task' = [task EXCEPT ![w].pc = pc]

\* An event, or the sweep with a resumable checkpoint in the payload.
Begin(w) ==
    /\ At(w, "idle")
    /\ \/ /\ task' = [task EXCEPT ![w] = [Idle EXCEPT !.pc = "gate"]]
          /\ UNCHANGED failed
       \/ /\ Listed(w)
          /\ task' = [task EXCEPT ![w] = [Idle EXCEPT !.pc = "gate", !.resumed = TRUE]]
    /\ UNCHANGED <<remote, cache, clock>>

Keeps_CompletedOnly(c) == c.status = "completed"
Keeps(c) == c.status \in Sticky

\* The first half of save_checkpoint: the status of the copy in memory is kept
\* unless it is pending, whatever its age.
Save(w) ==
    LET status == IF Keeps(cache[w]) THEN cache[w].status ELSE "pending"
    IN /\ cache' = [cache EXCEPT ![w] = [status |-> status, resume |-> @.resume,
                                         expires |-> clock + Lifetime]]
       /\ task' = [task EXCEPT ![w].pc = IF configured THEN "read" ELSE "run",
                               ![w].status = status, ![w].at = clock]

\* The checkpoint gate of execute_agent_event, which asks for the checkpoint a
\* second time when the first answer is a pause, then the first save of the run.
Gate(w) ==
    /\ At(w, "gate")
    /\ \E fails \in SUBSET {"first", "second"} :
          LET first == Answer(w, "first" \in fails)
              second == Answer(w, "second" \in fails)
              stopped == \/ first.status = "completed"
                         \/ first.status = "rate_limited" /\ ~task[w].resumed /\ ~Due(second)
          IN /\ IF fails = {} THEN UNCHANGED failed ELSE configured /\ Unanswered("get")
             /\ \/ stopped /\ task' = [task EXCEPT ![w] = Idle] /\ UNCHANGED cache
                \/ ~stopped /\ Save(w)
    /\ UNCHANGED <<remote, clock>>

\* The second half of save_checkpoint: the status in the store is read, then the
\* document is merged; resume_after is not part of the payload.
ReadStatus(w) ==
    /\ At(w, "read")
    /\ \/ /\ Answered("read")
          /\ task' = [task EXCEPT ![w].pc = "set",
                 ![w].status = IF @ = "pending" /\ Keeps(remote) THEN remote.status ELSE @]
       \/ Unanswered("read") /\ Goto(w, "set")
    /\ UNCHANGED <<remote, cache, clock>>

SetDocument(w) ==
    /\ At(w, "set")
    /\ \/ /\ remote' = [status |-> task[w].status, resume |-> remote.resume,
                        expires |-> task[w].at + Lifetime]
          /\ Answered("set")
       \/ Unanswered("set") /\ UNCHANGED remote
    /\ Goto(w, "run")
    /\ UNCHANGED <<cache, clock>>

\* Another attempt of the retry loop saves again.
Retry(w) ==
    /\ At(w, "run")
    /\ Save(w)
    /\ UNCHANGED <<remote, clock, failed>>

\* mark_rate_limited touches the copy in memory, if there is one, then the document.
Exhausted(w) ==
    /\ At(w, "run")
    /\ cache' = IF cache[w] = Absent THEN cache
                ELSE [cache EXCEPT ![w] = [status |-> "rate_limited", resume |-> clock + Backoff,
                                           expires |-> clock + Lifetime]]
    /\ task' = [task EXCEPT ![w].pc = IF configured THEN "pause" ELSE "idle", ![w].at = clock]
    /\ UNCHANGED <<remote, clock, failed>>

Pause(w) ==
    /\ At(w, "pause")
    /\ \/ /\ remote' = [status |-> "rate_limited", resume |-> task[w].at + Backoff,
                        expires |-> task[w].at + Lifetime]
          /\ Answered("set")
       \/ Unanswered("set") /\ UNCHANGED remote
    /\ task' = [task EXCEPT ![w] = Idle]
    /\ UNCHANGED <<cache, clock>>

\* mark_completed, after a deterministic review was posted; it renews no expiry.
Posted(w) ==
    /\ At(w, "run")
    /\ cache' = IF cache[w] = Absent THEN cache
                ELSE [cache EXCEPT ![w].status = "completed"]
    /\ task' = [task EXCEPT ![w].pc = IF configured THEN "complete" ELSE "idle"]
    /\ UNCHANGED <<remote, clock, failed>>

Complete(w) ==
    /\ At(w, "complete")
    /\ \/ remote' = [remote EXCEPT !.status = "completed"] /\ Answered("set")
       \/ Unanswered("set") /\ UNCHANGED remote
    /\ task' = [task EXCEPT ![w] = Idle]
    /\ UNCHANGED <<cache, clock>>

\* The run ends any other way: the checkpoint stays as it is.
End(w) ==
    /\ At(w, "run")
    /\ task' = [task EXCEPT ![w] = Idle]
    /\ UNCHANGED <<remote, cache, clock, failed>>

Crash(w) ==
    /\ cache' = [cache EXCEPT ![w] = Absent]
    /\ task' = [task EXCEPT ![w] = Idle]
    /\ UNCHANGED <<remote, clock, failed>>

\* The time to live is over: Firestore deletes the document.
Delete ==
    /\ RemoteExpired
    /\ remote' = Absent
    /\ UNCHANGED <<cache, task, clock, failed>>

Tick ==
    /\ clock < MaxClock
    /\ clock' = clock + 1
    /\ UNCHANGED <<remote, cache, task, failed>>

-----------------------------------------------------------------------------
Step(w) ==
    \/ Begin(w) \/ Gate(w) \/ ReadStatus(w) \/ SetDocument(w) \/ Retry(w)
    \/ Exhausted(w) \/ Pause(w) \/ Posted(w) \/ Complete(w) \/ End(w)
    \/ Crash(w)

CheckpointNext == ((\E w \in Workers : Step(w)) \/ Delete \/ Tick) /\ UNCHANGED configured

CheckpointSpec == CheckpointInit /\ [][CheckpointNext]_vars

-----------------------------------------------------------------------------
(* Properties                                                              *)

\* The document implements the life cycle the documentation promises: save_checkpoint
\* reads a status and writes it back in two calls, with a copy in memory that a
\* restart empties, and yet no save reopens a paused or completed review, up to the
\* first failure of the call that reads the status to keep.
Lifecycle == INSTANCE CheckpointLifecycle
                 WITH status <- IF "read" \in failed THEN "absent" ELSE remote.status
ImplementsLifecycle == Lifecycle!LifecycleSpec

\* Where a pause is recorded: in the document, or in memory without Firestore.
Recorded(w) ==
    IF ~configured THEN FreshCopy(w) ELSE IF RemoteExpired THEN Absent ELSE remote

\* No run of a review starts while a pause is recorded whose backoff has not passed,
\* neither from a webhook nor from a sweep that listed the checkpoint before, as long
\* as get_checkpoint has not failed.
BackoffRespected ==
    [][\A w \in Workers :
          (At(w, "gate") /\ task'[w].pc \in {"read", "run"} /\ "get" \notin failed')
          => Recorded(w).status # "rate_limited" \/ Recorded(w).resume <= clock]_vars
=============================================================================
