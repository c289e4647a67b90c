------------------------- MODULE PausedReviewsProofs --------------------------
(***************************************************************************)
(* Reviews that wait: the checkpoint that stores them and the loop of the  *)
(* worker that resumes them and handles messages.                          *)
(***************************************************************************)
EXTENDS ReviewCheckpoint, WorkerQueue, TLAPS

(***************************************************************************)
(* What the checkpoint manager keeps, proved for any backoff, any time to  *)
(* live and any set of failing calls: types for any number of workers, and *)
(* for the one worker of production the refinement of CheckpointLifecycle  *)
(* and the respect of the backoff.  Two workers break both, by acting      *)
(* between the two calls of a save and between a sweep's list and its run. *)
(*                                                                         *)
(* Neither property is inductive.  That a save keeps a settled status is   *)
(* decided at its read and takes effect at its write, so PendingUnsettled  *)
(* says what the read found; that a resumed run may start is decided when  *)
(* the checkpoint is listed, from a copy that CopyNotEarlier compares with *)
(* the document.                                                           *)
(***************************************************************************)

\* Production runs one worker.
OneWorker == \A v, w \in Workers : v = w

\* Without a client nothing is stored and no call to the store is under way.
StoreNeedsClient ==
    ~configured => /\ remote = Absent
                   /\ \A w \in Workers : task[w].pc \in {"idle", "gate", "run"}

\* A save about to write "pending" has read that there is nothing to keep.
PendingUnsettled ==
    \A w \in Workers :
        (At(w, "set") /\ task[w].status = "pending" /\ "read" \notin failed)
        => remote.status \notin Sticky

\* A pause in memory ends no earlier than the one in the document.
CopyNotEarlier ==
    \A w \in Workers :
        cache[w].status = "rate_limited" => remote.resume <= cache[w].resume

PauseBounded == remote.resume <= clock + Backoff

\* mark_rate_limited between its copy and its document.
PauseInHand ==
    \A w \in Workers :
        At(w, "pause") => /\ task[w].at <= clock
                          /\ cache[w].status = "rate_limited"
                             => cache[w].resume = task[w].at + Backoff

\* A run begun from a listed checkpoint finds no pause that is still running.
ResumedIsDue ==
    \A w \in Workers :
        (At(w, "gate") /\ task[w].resumed)
        => LET c == IF configured THEN remote ELSE cache[w]
           IN c.status = "rate_limited" => c.resume <= clock

CheckpointInv ==
    /\ CheckpointTypeOK
    /\ StoreNeedsClient
    /\ PendingUnsettled
    /\ CopyNotEarlier
    /\ PauseBounded
    /\ PauseInHand
    /\ ResumedIsDue

-----------------------------------------------------------------------------
(* Types, for any number of workers                                        *)

LEMMA AbsentType == Absent \in Checkpoint
BY CheckpointAssumption DEF Absent, Checkpoint, Times

LEMMA IdleType == Idle \in Task
BY CheckpointAssumption DEF Idle, Task, Statuses

\* The sums a checkpoint's times are made of stay within the type.
LEMMA TimesType ==
    ASSUME NEW t \in 0..MaxClock
    PROVE  t + Lifetime \in Times /\ t + Backoff \in Times
BY CheckpointAssumption DEF Times

\* Every way a call to the store may end leaves a type-correct record of failures.
LEMMA CallType ==
    ASSUME CheckpointTypeOK, NEW call \in Calls, Answered(call) \/ Unanswered(call)
    PROVE  failed' \subseteq FailingCalls
BY DEF CheckpointTypeOK, Answered, Unanswered

\* save_checkpoint stores a checkpoint in memory and goes on with a task.
LEMMA SaveType ==
    ASSUME CheckpointTypeOK, NEW w \in Workers, Save(w)
    PROVE  cache' \in [Workers -> Checkpoint] /\ task' \in [Workers -> Task]
<1> DEFINE status == IF Keeps(cache[w]) THEN cache[w].status ELSE "pending"
           copy == [status |-> status, resume |-> cache[w].resume, expires |-> clock + Lifetime]
           next == [task[w] EXCEPT !.pc = IF configured THEN "read" ELSE "run",
                                   !.status = status, !.at = clock]
<1>1. status \in Statuses
  BY DEF Keeps, Sticky, Statuses
<1>2. copy \in Checkpoint
  BY <1>1, TimesType DEF CheckpointTypeOK, Checkpoint
<1>3. next \in Task
  BY <1>1 DEF CheckpointTypeOK, Task
<1>4. cache' = [cache EXCEPT ![w] = copy] /\ task' = [task EXCEPT ![w] = next]
  BY DEF Save, CheckpointTypeOK
<1> HIDE DEF copy, next
<1> QED BY <1>2, <1>3, <1>4 DEF CheckpointTypeOK

LEMMA StepType ==
    ASSUME CheckpointTypeOK, NEW w \in Workers, Step(w), UNCHANGED configured
    PROVE  CheckpointTypeOK'
<1> USE CheckpointAssumption DEF CheckpointTypeOK
<1>1. CASE Begin(w)
  <2>1. failed' \subseteq FailingCalls
    BY <1>1, CallType DEF Begin, Listed, Calls
  <2>2. \A b \in BOOLEAN : [Idle EXCEPT !.pc = "gate", !.resumed = b] \in Task
    BY IdleType DEF Task
  <2>3. [Idle EXCEPT !.pc = "gate"] \in Task
    BY IdleType DEF Task
  <2> QED BY <1>1, <2>1, <2>2, <2>3 DEF Begin
<1>2. CASE Gate(w)
  <2>1. failed' \subseteq FailingCalls
    BY <1>2, CallType DEF Gate, Calls
  <2>2. cache' \in [Workers -> Checkpoint] /\ task' \in [Workers -> Task]
    BY <1>2, SaveType, IdleType DEF Gate
  <2> QED BY <1>2, <2>1, <2>2 DEF Gate
<1>3. CASE ReadStatus(w)
  <2>1. failed' \subseteq FailingCalls
    BY <1>3, CallType DEF ReadStatus, Calls
  <2>2. task' \in [Workers -> Task]
    BY <1>3 DEF ReadStatus, Goto, Task, Keeps, Sticky, Statuses
  <2> QED BY <1>3, <2>1, <2>2 DEF ReadStatus
<1>4. CASE SetDocument(w)
  <2>1. failed' \subseteq FailingCalls
    BY <1>4, CallType DEF SetDocument, Calls
  <2>2. task' \in [Workers -> Task]
    BY <1>4 DEF SetDocument, Goto, Task
  <2>3. remote' \in Checkpoint
    <3>1. task[w].at + Lifetime \in Times /\ task[w].status \in Statuses
      BY TimesType DEF Task
    <3> QED BY <1>4, <3>1 DEF SetDocument, Checkpoint
  <2> QED BY <1>4, <2>1, <2>2, <2>3 DEF SetDocument
<1>5. CASE Retry(w)
  BY <1>5, SaveType DEF Retry
<1>6. CASE Exhausted(w)
  <2>1. cache' \in [Workers -> Checkpoint]
    BY <1>6, TimesType DEF Exhausted, Checkpoint, Statuses, Sticky
  <2>2. task' \in [Workers -> Task]
    <3> DEFINE next == [task[w] EXCEPT !.pc = IF configured THEN "pause" ELSE "idle", !.at = clock]
    <3>1. next \in Task
      BY DEF Task
    <3>2. task' = [task EXCEPT ![w] = next]
      BY <1>6 DEF Exhausted
    <3> HIDE DEF next
    <3> QED BY <3>1, <3>2
  <2> QED BY <1>6, <2>1, <2>2 DEF Exhausted
<1>7. CASE Pause(w)
  <2>1. failed' \subseteq FailingCalls
    BY <1>7, CallType DEF Pause, Calls
  <2>2. task[w].at + Backoff \in Times /\ task[w].at + Lifetime \in Times
    BY TimesType DEF Task
  <2>3. remote' \in Checkpoint
    BY <1>7, <2>2 DEF Pause, Checkpoint, Statuses, Sticky
  <2> QED BY <1>7, <2>1, <2>3, IdleType DEF Pause
<1>8. CASE Posted(w)
  <2>1. cache' \in [Workers -> Checkpoint]
    BY <1>8 DEF Posted, Checkpoint, Statuses, Sticky
  <2>2. task' \in [Workers -> Task]
    BY <1>8 DEF Posted, Task
  <2> QED BY <1>8, <2>1, <2>2 DEF Posted
<1>9. CASE Complete(w)
  <2>1. failed' \subseteq FailingCalls
    BY <1>9, CallType DEF Complete, Calls
  <2>2. remote' \in Checkpoint
    BY <1>9 DEF Complete, Checkpoint, Statuses, Sticky
  <2> QED BY <1>9, <2>1, <2>2, IdleType DEF Complete
<1>10. CASE End(w)
  BY <1>10, IdleType DEF End
<1>11. CASE Crash(w)
  BY <1>11, IdleType, AbsentType DEF Crash
<1> QED
  BY <1>1, <1>2, <1>3, <1>4, <1>5, <1>6, <1>7, <1>8, <1>9, <1>10, <1>11 DEF Step

LEMMA InitType == CheckpointInit => CheckpointTypeOK
BY CheckpointAssumption, AbsentType, IdleType DEF CheckpointInit, CheckpointTypeOK

LEMMA NextType == CheckpointTypeOK /\ [CheckpointNext]_vars => CheckpointTypeOK'
<1> SUFFICES ASSUME CheckpointTypeOK, [CheckpointNext]_vars
             PROVE  CheckpointTypeOK'
  OBVIOUS
<1>1. CASE UNCHANGED vars
  BY <1>1 DEF vars, CheckpointTypeOK
<1>2. CASE \E w \in Workers : Step(w) /\ UNCHANGED configured
  BY <1>2, StepType
<1>3. CASE Delete /\ UNCHANGED configured
  BY <1>3, AbsentType DEF Delete, CheckpointTypeOK
<1>4. CASE Tick /\ UNCHANGED configured
  BY <1>4, CheckpointAssumption DEF Tick, CheckpointTypeOK
<1> QED BY <1>1, <1>2, <1>3, <1>4 DEF CheckpointNext

\* The document, the copies and the tasks keep their types.
THEOREM CheckpointTypeCorrect == CheckpointSpec => []CheckpointTypeOK
<1> QED BY InitType, NextType, PTL DEF CheckpointSpec

-----------------------------------------------------------------------------
(* The inductive invariant, for one worker                                 *)

LEMMA InvInit == CheckpointInit => CheckpointInv
<1> SUFFICES ASSUME CheckpointInit PROVE CheckpointInv
  OBVIOUS
<1>1. CheckpointTypeOK
  BY InitType
<1>2. StoreNeedsClient
  BY DEF CheckpointInit, StoreNeedsClient, Idle
<1>3. PendingUnsettled /\ PauseInHand /\ ResumedIsDue
  BY DEF CheckpointInit, PendingUnsettled, PauseInHand, ResumedIsDue, At, Idle
<1>4. CopyNotEarlier
  BY DEF CheckpointInit, CopyNotEarlier, Absent
<1>5. PauseBounded
  BY CheckpointAssumption DEF CheckpointInit, PauseBounded, Absent
<1> QED BY <1>1, <1>2, <1>3, <1>4, <1>5 DEF CheckpointInv

\* The numbers the comparisons are about.
LEMMA TimesAreNumbers ==
    ASSUME CheckpointTypeOK
    PROVE  /\ clock \in Nat /\ Backoff \in Nat /\ remote.resume \in Nat
           /\ \A w \in Workers : cache[w].resume \in Nat /\ task[w].at \in Nat
BY CheckpointAssumption DEF CheckpointTypeOK, Checkpoint, Task, Times

\* What list_resumable lists is due, in the document or, without one, in memory.
LEMMA ListedIsDue ==
    ASSUME CheckpointInv, NEW w \in Workers, Listed(w)
    PROVE  LET c == IF configured THEN remote ELSE cache[w]
           IN c.status = "rate_limited" => c.resume <= clock
<1>1. CASE configured /\ Due(remote)
  BY <1>1 DEF Due
<1>2. CASE Due(FreshCopy(w))
  <2>1. cache[w].status = "rate_limited" /\ cache[w].resume <= clock
    BY <1>2, TimesAreNumbers DEF Due, FreshCopy, Absent, CheckpointInv
  <2>2. remote.resume <= cache[w].resume
    BY <2>1 DEF CheckpointInv, CopyNotEarlier
  <2> QED BY <2>1, <2>2, TimesAreNumbers DEF CheckpointInv
<1> QED BY <1>1, <1>2 DEF Listed, Answered

\* What save_checkpoint does to the copy and the task, and that this disturbs nothing.
LEMMA SaveInv ==
    ASSUME OneWorker, CheckpointInv, NEW w \in Workers, Save(w),
           UNCHANGED <<remote, clock, configured>>
    PROVE  /\ StoreNeedsClient' /\ PendingUnsettled' /\ CopyNotEarlier'
           /\ PauseBounded' /\ PauseInHand' /\ ResumedIsDue'
<1>1. \A u \in Workers : u = w
  BY DEF OneWorker
<1>2. task'[w].pc = IF configured THEN "read" ELSE "run"
  BY DEF Save, CheckpointInv, CheckpointTypeOK, Task
<1>3. /\ cache'[w].resume = cache[w].resume
      /\ cache'[w].status = "rate_limited" => cache[w].status = "rate_limited"
  BY DEF Save, CheckpointInv, CheckpointTypeOK
<1>4. StoreNeedsClient' /\ PendingUnsettled' /\ PauseInHand' /\ ResumedIsDue'
  BY <1>1, <1>2 DEF StoreNeedsClient, PendingUnsettled, PauseInHand, ResumedIsDue, At, CheckpointInv
<1>5. CopyNotEarlier' /\ PauseBounded'
  BY <1>1, <1>3 DEF CopyNotEarlier, PauseBounded, CheckpointInv
<1> QED BY <1>4, <1>5

LEMMA StepInv ==
    ASSUME OneWorker, CheckpointInv, NEW w \in Workers, Step(w), UNCHANGED configured
    PROVE  CheckpointInv'
<1> USE DEF CheckpointInv
<1>1. CheckpointTypeOK'
  BY StepType
<1>2. \A u \in Workers : u = w
  BY DEF OneWorker
<1>3. task \in [Workers -> Task] /\ cache \in [Workers -> Checkpoint] /\ remote \in Checkpoint
  BY DEF CheckpointTypeOK
\* A step that leaves the task idle and the pauses alone.
<1>4. ASSUME task'[w] = Idle, UNCHANGED <<remote, clock>>, cache'[w] \in {cache[w], Absent}
      PROVE  CheckpointInv'
  BY <1>1, <1>2, <1>4 DEF StoreNeedsClient, PendingUnsettled, CopyNotEarlier, PauseBounded,
                          PauseInHand, ResumedIsDue, At, Idle, Absent
<1>5. CASE Begin(w)
  <2>1. UNCHANGED <<remote, cache, clock>> /\ task'[w].pc = "gate"
    BY <1>3, <1>5 DEF Begin, Idle
  <2>2. ResumedIsDue'
    <3>1. task'[w].resumed => Listed(w)
      BY <1>3, <1>5 DEF Begin, Idle
    <3> QED BY <1>2, <2>1, <3>1, ListedIsDue DEF ResumedIsDue
  <2> QED BY <1>1, <1>2, <2>1, <2>2 DEF StoreNeedsClient, PendingUnsettled, CopyNotEarlier,
                                        PauseBounded, PauseInHand, At
<1>6. CASE Gate(w)
  <2>1. CASE Save(w)
    BY <1>1, <1>6, <2>1, SaveInv DEF Gate
  <2>2. CASE task' = [task EXCEPT ![w] = Idle] /\ UNCHANGED cache
    <3>1. task'[w] = Idle
      BY <1>3, <2>2
    <3> QED BY <1>4, <1>6, <2>2, <3>1 DEF Gate
  <2> QED BY <1>6, <2>1, <2>2 DEF Gate
<1>7. CASE ReadStatus(w)
  <2>1. UNCHANGED <<remote, cache, clock>> /\ task'[w].pc = "set"
    BY <1>3, <1>7 DEF ReadStatus, Goto, Task
  <2>2. configured
    BY <1>7 DEF ReadStatus, At, StoreNeedsClient
  <2>3. PendingUnsettled'
    <3> DEFINE kept == IF task[w].status = "pending" /\ Keeps(remote)
                       THEN remote.status ELSE task[w].status
    <3>1. CASE Answered("read") /\ task' = [task EXCEPT ![w].pc = "set", ![w].status = kept]
      <4>1. task'[w].status = kept
        BY <1>3, <3>1 DEF Task
      <4> QED BY <1>2, <2>1, <4>1 DEF PendingUnsettled, Keeps, Sticky
    <3>2. CASE Unanswered("read")
      BY <2>2, <3>2 DEF Unanswered, PendingUnsettled
    <3> QED BY <1>7, <3>1, <3>2 DEF ReadStatus
  <2> QED BY <1>1, <1>2, <2>1, <2>2, <2>3 DEF StoreNeedsClient, CopyNotEarlier,
                                              PauseBounded, PauseInHand, ResumedIsDue, At
<1>8. CASE SetDocument(w)
  <2>1. UNCHANGED <<cache, clock>> /\ task'[w].pc = "run" /\ remote'.resume = remote.resume
    BY <1>3, <1>8 DEF SetDocument, Goto, Task
  <2>2. configured
    BY <1>8 DEF SetDocument, At, StoreNeedsClient
  <2> QED BY <1>1, <1>2, <2>1, <2>2 DEF StoreNeedsClient, PendingUnsettled, CopyNotEarlier,
                                        PauseBounded, PauseInHand, ResumedIsDue, At
<1>9. CASE Retry(w)
  BY <1>1, <1>9, SaveInv DEF Retry
<1>10. CASE Exhausted(w)
  <2>1. UNCHANGED <<remote, clock>>
    BY <1>10 DEF Exhausted
  <2>2. task'[w].pc = (IF configured THEN "pause" ELSE "idle") /\ task'[w].at = clock
    BY <1>3, <1>10 DEF Exhausted, Task
  <2>3. cache'[w].status = "rate_limited" => cache'[w].resume = clock + Backoff
    BY <1>3, <1>10 DEF Exhausted, Absent
  <2>4. CopyNotEarlier' /\ PauseBounded'
    BY <1>2, <2>1, <2>3 DEF CopyNotEarlier, PauseBounded
  <2>5. PauseInHand'
    BY <1>2, <2>1, <2>2, <2>3, TimesAreNumbers DEF PauseInHand
  <2> QED BY <1>1, <1>2, <2>1, <2>2, <2>4, <2>5 DEF StoreNeedsClient, PendingUnsettled,
                                                    ResumedIsDue, At
<1>11. CASE Pause(w)
  <2>1. UNCHANGED <<cache, clock>> /\ task'[w] = Idle
    BY <1>3, <1>11 DEF Pause
  <2>2. configured
    BY <1>11 DEF Pause, At, StoreNeedsClient
  <2>3. remote'.resume \in {remote.resume, task[w].at + Backoff}
    BY <1>11 DEF Pause
  <2>4. CopyNotEarlier'
    BY <1>2, <1>11, <2>1, <2>3, TimesAreNumbers DEF Pause, CopyNotEarlier, PauseInHand
  <2>5. PauseBounded'
    BY <1>11, <2>1, <2>3, TimesAreNumbers DEF Pause, PauseBounded, PauseInHand
  <2> QED BY <1>1, <1>2, <2>1, <2>2, <2>4, <2>5 DEF StoreNeedsClient, PendingUnsettled,
                                                    PauseInHand, ResumedIsDue, At, Idle
<1>12. CASE Posted(w)
  <2>1. UNCHANGED <<remote, clock>> /\ task'[w].pc = IF configured THEN "complete" ELSE "idle"
    BY <1>3, <1>12 DEF Posted, Task
  <2>2. cache'[w].status # "rate_limited"
    BY <1>3, <1>12 DEF Posted, Absent, Checkpoint
  <2> QED BY <1>1, <1>2, <2>1, <2>2 DEF StoreNeedsClient, PendingUnsettled, CopyNotEarlier,
                                        PauseBounded, PauseInHand, ResumedIsDue, At
<1>13. CASE Complete(w)
  <2>1. UNCHANGED <<cache, clock>> /\ task'[w] = Idle
    BY <1>3, <1>13 DEF Complete
  <2>2. configured
    BY <1>13 DEF Complete, At, StoreNeedsClient
  <2>3. remote'.resume = remote.resume
    BY <1>3, <1>13 DEF Complete, Checkpoint
  <2> QED BY <1>1, <1>2, <2>1, <2>2, <2>3 DEF StoreNeedsClient, PendingUnsettled, CopyNotEarlier,
                                              PauseBounded, PauseInHand, ResumedIsDue, At, Idle
<1>14. CASE End(w) \/ Crash(w)
  <2>1. task'[w] = Idle /\ cache'[w] \in {cache[w], Absent} /\ UNCHANGED <<remote, clock>>
    BY <1>3, <1>14 DEF End, Crash
  <2> QED BY <1>4, <2>1
<1> QED
  BY <1>5, <1>6, <1>7, <1>8, <1>9, <1>10, <1>11, <1>12, <1>13, <1>14 DEF Step

LEMMA NextInv ==
    ASSUME OneWorker
    PROVE  CheckpointInv /\ [CheckpointNext]_vars => CheckpointInv'
<1> SUFFICES ASSUME CheckpointInv, [CheckpointNext]_vars
             PROVE  CheckpointInv'
  OBVIOUS
<1>1. CheckpointTypeOK'
  BY NextType DEF CheckpointInv
<1>2. CASE UNCHANGED vars
  BY <1>1, <1>2 DEF vars, CheckpointInv, StoreNeedsClient, PendingUnsettled, CopyNotEarlier,
                    PauseBounded, PauseInHand, ResumedIsDue, At
<1>3. CASE \E w \in Workers : Step(w) /\ UNCHANGED configured
  BY <1>3, StepInv
<1>4. CASE Delete /\ UNCHANGED configured
  <2>1. UNCHANGED <<cache, task, clock, failed, configured>>
        /\ remote'.status = "absent" /\ remote'.resume = 0 /\ remote' = Absent
    BY <1>4 DEF Delete, Absent
  <2> QED BY <1>1, <2>1, TimesAreNumbers DEF CheckpointInv, StoreNeedsClient, PendingUnsettled,
                CopyNotEarlier, PauseBounded, PauseInHand, ResumedIsDue, At, Sticky
<1>5. CASE Tick /\ UNCHANGED configured
  <2>1. UNCHANGED <<remote, cache, task, failed, configured>> /\ clock' = clock + 1
    BY <1>5 DEF Tick
  <2> QED BY <1>1, <2>1, TimesAreNumbers DEF CheckpointInv, StoreNeedsClient, PendingUnsettled,
                CopyNotEarlier, PauseBounded, PauseInHand, ResumedIsDue, At
<1> QED BY <1>2, <1>3, <1>4, <1>5 DEF CheckpointNext

\* With one worker, every reachable state satisfies the strengthened invariant.
THEOREM CheckpointInvariant == OneWorker => (CheckpointSpec => []CheckpointInv)
<1> SUFFICES ASSUME OneWorker PROVE CheckpointSpec => []CheckpointInv
  OBVIOUS
<1>1. CheckpointInv /\ [CheckpointNext]_vars => CheckpointInv'
  BY NextInv
<1> QED BY <1>1, InvInit, PTL DEF CheckpointSpec

-----------------------------------------------------------------------------
(* The properties                                                          *)

\* Each step changes the stored status as the abstract life cycle may, or not at all.
LEMMA StepRefines ==
    ASSUME CheckpointInv, CheckpointNext
    PROVE  [Lifecycle!LifecycleNext]_(IF "read" \in failed THEN "absent" ELSE remote.status)
<1> DEFINE shown == IF "read" \in failed THEN "absent" ELSE remote.status
           Moves(s, t) == \/ t = s
                          \/ s = "absent" /\ t = "pending"
                          \/ t \in {"rate_limited", "completed", "absent"}
<1>1. failed \subseteq failed'
  BY DEF CheckpointNext, Step, Begin, Listed, Gate, ReadStatus, SetDocument, Retry, Exhausted,
         Pause, Posted, Complete, End, Crash, Delete, Tick, Answered, Unanswered
<1>2. "read" \notin failed' => Moves(remote.status, remote'.status)
  <2> SUFFICES ASSUME "read" \notin failed', remote'.status # remote.status
               PROVE  Moves(remote.status, remote'.status)
    OBVIOUS
  <2>1. CASE Delete
    BY <2>1 DEF Delete, Absent
  <2>2. ASSUME NEW w \in Workers, SetDocument(w)
        PROVE  Moves(remote.status, remote'.status)
    <3>1. remote'.status = task[w].status /\ At(w, "set")
      BY <2>2 DEF SetDocument
    <3>2. task[w].status \in Statuses /\ remote.status \in Statuses \cup {"absent"}
      BY DEF CheckpointInv, CheckpointTypeOK, Task, Checkpoint
    <3>3. task[w].status = "pending" => remote.status \notin Sticky
      BY <1>1, <3>1 DEF CheckpointInv, PendingUnsettled
    <3> QED BY <3>1, <3>2, <3>3 DEF Statuses, Sticky
  <2>3. ASSUME NEW w \in Workers, Pause(w) \/ Complete(w)
        PROVE  remote'.status \in {"rate_limited", "completed"}
    BY <2>3 DEF Pause, Complete, CheckpointInv, CheckpointTypeOK, Checkpoint
  <2> QED
    BY <2>1, <2>2, <2>3 DEF CheckpointNext, Step, Begin, Gate, ReadStatus, Retry, Exhausted,
                            Posted, End, Crash, Tick
<1>3. Moves(shown, shown')
  BY <1>1, <1>2
<1> QED BY <1>3 DEF Lifecycle!LifecycleNext, Lifecycle!Saved, Lifecycle!Paused,
                    Lifecycle!Completed, Lifecycle!Dropped

\* One worker, its restarts and a store that may fail in every other call implement
\* the life cycle docs/CHECKPOINT_RESUME.md promises.
THEOREM CheckpointRefinesLifecycle ==
    OneWorker => (CheckpointSpec => ImplementsLifecycle)
<1> SUFFICES ASSUME OneWorker PROVE CheckpointSpec => ImplementsLifecycle
  OBVIOUS
<1>1. CheckpointInit => Lifecycle!LifecycleInit
  BY DEF CheckpointInit, Lifecycle!LifecycleInit, Absent
<1>2. CheckpointInv /\ [CheckpointNext]_vars
      => [Lifecycle!LifecycleNext]_(IF "read" \in failed THEN "absent" ELSE remote.status)
  BY StepRefines DEF vars
<1> QED
  BY <1>1, <1>2, CheckpointInvariant, PTL
  DEF CheckpointSpec, ImplementsLifecycle, Lifecycle!LifecycleSpec

\* With one worker no run of a review starts before its recorded pause is over.
THEOREM CheckpointRespectsBackoff ==
    OneWorker => (CheckpointSpec => BackoffRespected)
<1> SUFFICES ASSUME OneWorker PROVE CheckpointSpec => BackoffRespected
  OBVIOUS
<1> DEFINE Respected ==
        \A w \in Workers :
          (At(w, "gate") /\ task'[w].pc \in {"read", "run"} /\ "get" \notin failed')
          => Recorded(w).status # "rate_limited" \/ Recorded(w).resume <= clock
<1>1. CheckpointInv /\ [CheckpointNext]_vars => [Respected]_vars
  <2> SUFFICES ASSUME CheckpointInv, CheckpointNext, NEW w \in Workers,
                      At(w, "gate"), task'[w].pc \in {"read", "run"}, "get" \notin failed',
                      Recorded(w).status = "rate_limited"
               PROVE  Recorded(w).resume <= clock
    BY DEF vars
  <2>1. task \in [Workers -> Task]
    BY DEF CheckpointInv, CheckpointTypeOK
  <2>2. Gate(w)
    <3>1. PICK u \in Workers : Step(u)
      BY DEF CheckpointNext, Delete, Tick, At
    <3>2. u = w
      BY DEF OneWorker
    <3> QED BY <2>1, <3>1, <3>2 DEF Step, Begin, ReadStatus, SetDocument, Retry, Exhausted,
                                    Pause, Posted, Complete, End, Crash, At, Idle
  <2>3. /\ Stored(w).status # "completed"
        /\ Stored(w).status = "rate_limited" => task[w].resumed \/ Due(Stored(w))
    BY <2>1, <2>2 DEF Gate, Answer, Unanswered, Idle
  <2>4. Recorded(w) = Stored(w)
    BY DEF Recorded, Stored, CheckpointInv, StoreNeedsClient, Absent, RemoteExpired
  <2>5. CASE Due(Stored(w))
    BY <2>4, <2>5 DEF Due
  <2>6. CASE task[w].resumed
    BY <2>4, <2>6 DEF CheckpointInv, ResumedIsDue, Recorded, Absent, FreshCopy
  <2> QED BY <2>3, <2>4, <2>5, <2>6
<1> QED BY <1>1, CheckpointInvariant, PTL DEF CheckpointSpec, BackoffRespected

-----------------------------------------------------------------------------
(***************************************************************************)
(* No message is lost by the loop of the worker, for any number of         *)
(* messages, paused reviews, retries and faults.  The argument is in the   *)
(* ids the process remembers: a message whose id is known was handled to   *)
(* its end, so acknowledging it as a duplicate loses nothing.  That fails  *)
(* as soon as an id outlives the failure of its event.                     *)
(***************************************************************************)

\* The message in hand, and why it may be acknowledged.
HandInv ==
    /\ pc \in {"process", "ack", "letter"} => hand \in Messages
    /\ pc = "ack" => hand \in done

\* What is known was handled, what left the queue was handled or is a dead letter.
QueueInv ==
    /\ HandInv
    /\ Messages \cap ids \subseteq done
    /\ NoMessageLost

-----------------------------------------------------------------------------
LEMMA QueueInitInv == QueueInit => QueueInv
BY DEF QueueInit, QueueInv, HandInv, NoMessageLost

\* The sweep touches the ids of reviews alone, which are no messages.
LEMMA SweepKeepsInv ==
    ASSUME QueueInv
    PROVE  /\ StartSweep => QueueInv'
           /\ \A r \in Reviews : Resume(r) => QueueInv'
<1>1. StartSweep => QueueInv'
  BY DEF StartSweep, QueueInv, HandInv, NoMessageLost
<1>2. ASSUME NEW r \in Reviews, Resume(r) PROVE QueueInv'
  <2>1. r \notin Messages
    BY QueueAssumption
  <2>2. ids' \subseteq ids \cup {r}
    BY <1>2 DEF Resume, Remembered, Released
  <2>3. UNCHANGED <<sub, unsent, dead, done, pc, hand>>
    BY <1>2 DEF Resume
  <2> QED
    BY <2>1, <2>2, <2>3 DEF QueueInv, HandInv, NoMessageLost
<1> QED
  BY <1>1, <1>2

\* A message leaves its id behind only when its handling returned.
LEMMA MessageKeepsInv ==
    ASSUME QueueInv
    PROVE  /\ \A m \in Messages : Pull(m) => QueueInv'
           /\ PullNothing => QueueInv'
           /\ Process => QueueInv'
           /\ Acknowledge => QueueInv'
           /\ DeadLetter => QueueInv'
<1>1. ASSUME NEW m \in Messages, Pull(m) PROVE QueueInv'
  BY <1>1 DEF Pull, QueueInv, HandInv, NoMessageLost
<1>2. PullNothing => QueueInv'
  BY DEF PullNothing, QueueInv, HandInv, NoMessageLost
<1>3. ASSUME Process PROVE QueueInv'
  <2>1. /\ hand \in Messages /\ hand' = hand
        /\ UNCHANGED <<sub, unsent, dead>>
    BY <1>3 DEF Process, QueueInv, HandInv
  <2>2. CASE hand \in ids /\ pc' = "ack" /\ UNCHANGED <<done, ids>>
    BY <2>1, <2>2 DEF QueueInv, HandInv, NoMessageLost
  <2>3. CASE pc' = "ack" /\ done' = done \cup {hand} /\ ids' \in {ids \cup {hand}, ids \ {hand}}
    BY <2>1, <2>3 DEF QueueInv, HandInv, NoMessageLost
  <2>4. CASE pc' \in {"process", "letter"} /\ ids' = ids \ {hand} /\ UNCHANGED done
    BY <2>1, <2>4 DEF QueueInv, HandInv, NoMessageLost
  <2> QED
    BY <1>3, <2>2, <2>3, <2>4 DEF Process, Remembered, Released
<1>4. Acknowledge => QueueInv'
  BY DEF Acknowledge, QueueInv, HandInv, NoMessageLost
<1>5. DeadLetter => QueueInv'
  BY DEF DeadLetter, Dropped, QueueInv, HandInv, NoMessageLost
<1> QED
  BY <1>1, <1>2, <1>3, <1>4, <1>5

\* A process that stops forgets all ids; the queue and the topic stay.
LEMMA ProcessKeepsInv ==
    ASSUME QueueInv
    PROVE  /\ Signal => QueueInv'
           /\ Restart => QueueInv'
           /\ CrashWorker => QueueInv'
<1>1. Signal => QueueInv'
  BY DEF Signal, Trouble, QueueInv, HandInv, NoMessageLost
<1>2. Restart => QueueInv'
  BY DEF Restart, Fresh, QueueInv, HandInv, NoMessageLost
<1>3. ASSUME CrashWorker PROVE QueueInv'
  <2>1. dead \subseteq dead' /\ pc' = "top" /\ ids' = {} /\ UNCHANGED <<sub, unsent, done>>
    BY <1>3 DEF CrashWorker, Fresh
  <2> QED
    BY <2>1 DEF QueueInv, HandInv, NoMessageLost
<1> QED
  BY <1>1, <1>2, <1>3

LEMMA EnvironmentKeepsInv ==
    ASSUME QueueInv
    PROVE  /\ \A m \in Messages : Publish(m) \/ Redeliver(m) => QueueInv'
           /\ \A r \in Reviews : BackoffEnds(r) => QueueInv'
           /\ UNCHANGED queueVars => QueueInv'
BY DEF Publish, Redeliver, BackoffEnds, queueVars, QueueInv, HandInv, NoMessageLost

\* The inductive invariant of the loop, for every list of messages and reviews.
THEOREM QueueInvariant == QueueSpec => []QueueInv
<1>1. QueueInit => QueueInv
  BY QueueInitInv
<1>2. QueueInv /\ [QueueNext]_queueVars => QueueInv'
  BY SweepKeepsInv, MessageKeepsInv, ProcessKeepsInv, EnvironmentKeepsInv
     DEF QueueNext, WorkerStep
<1> QED
  BY <1>1, <1>2, PTL DEF QueueSpec

\* No message leaves the subscription unhandled (worker.py:341-393,
\* processor.py:523-527), for any number of messages, attempts, failures,
\* redeliveries and restarts.
THEOREM MessagesAreKept == QueueSpec => []NoMessageLost
<1>1. QueueInv => NoMessageLost
  BY DEF QueueInv
<1> QED
  BY <1>1, QueueInvariant, PTL

=============================================================================
