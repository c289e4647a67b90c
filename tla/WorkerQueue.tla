----------------------------- MODULE WorkerQueue -----------------------------
(***************************************************************************)
(* The loop of one worker process (worker.py, main) over a subscription    *)
(* with several messages and a list of several paused reviews: a sweep of  *)
(* the paused reviews that are due, then one message, with the retries,    *)
(* the acknowledgement and the dead letters.  What handling a message or a *)
(* review does is in AuditDispatch; here it returns or raises.             *)
(***************************************************************************)
EXTENDS Naturals, Sequences
LOCAL INSTANCE SequencesExt

CONSTANTS
    Messages,
    PausedReviews,  \* the paused reviews, in the order Firestore streams them
    Failing,        \* those whose handling always raises (the repository is gone, say)
    MaxAttempts,    \* len(_RETRY_DELAYS) + 1
    MaxTrouble      \* bound of the faults, crashes, signals and duplicate deliveries

Reviews == ToSet(PausedReviews)

ASSUME QueueAssumption ==
    /\ Failing \subseteq Reviews
    /\ Messages \cap Reviews = {}  \* a resume id is no delivery id
    /\ MaxAttempts \in Nat \ {0} /\ MaxTrouble \in Nat

VARIABLES
    sub,      \* messages Pub/Sub has not seen acknowledged
    unsent,   \* messages still to come
    dead,     \* the dead-letter topic
    done,     \* messages handled to the end (for the properties)
    ids,      \* _processed_deliveries: messages, and reviews under their resume id
    review,   \* status of each paused review in Firestore
    mine,     \* paused reviews in the memory of the process
    reached,  \* the review handed to the processor in the last step (for the properties)
    pc, hand, attempt, list,
    stop,     \* keep_running is FALSE
    trouble

queueVars == <<sub, unsent, dead, done, ids, review, mine, reached, pc, hand, attempt, list, stop, trouble>>

Nobody == "nobody"

QueueInit ==
    /\ sub = {} /\ unsent = Messages
    /\ dead = {} /\ done = {} /\ ids = {}
    /\ review \in [Reviews -> {"due", "waiting"}]
    /\ mine = {} /\ reached = Nobody
    /\ pc = "top" /\ hand = Nobody /\ attempt = 0 /\ list = <<>>
    /\ stop = FALSE /\ trouble = 0

Trouble == trouble < MaxTrouble /\ trouble' = trouble + 1

-----------------------------------------------------------------------------
(* process_event: an id that is known is skipped; one whose handling raises *)
(* or returns a failed result is forgotten.                                *)

Released_Kept(id) == ids \cup {id}
Released(id) == ids \ {id}
Remembered(id) == ids \cup {id}

-----------------------------------------------------------------------------
(* The sweep                                                               *)

DueAmong(S) == SelectSeq(PausedReviews, LAMBDA r : r \in S /\ review[r] = "due")

\* list_resumable: when the query fails, what this process paused itself.
StartSweep ==
    /\ pc = "top" /\ ~stop
    /\ \/ list' = DueAmong(Reviews) /\ UNCHANGED trouble
       \/ list' = DueAmong(mine) /\ Trouble
    /\ pc' = "sweep" /\ reached' = Nobody
    /\ UNCHANGED <<sub, unsent, dead, done, ids, review, mine, hand, attempt, stop>>

\* An exception ends the sweep: the reviews behind are left for the next one.
Rest_OneOnly(raised) == <<>>
Rest(raised) == IF raised THEN <<>> ELSE Tail(list)

\* The review is settled; or paused again, under another resume id; or left as it is,
\* because a tier ends the event or the run fails; or its handling raises.
Resume(r) ==
    /\ pc = "sweep" /\ list # <<>> /\ r = Head(list)
    /\ reached' = r
    /\ \/ /\ r \in ids
          /\ list' = Rest(FALSE)
          /\ UNCHANGED <<ids, review, mine, trouble>>
       \/ /\ r \notin ids \cup Failing
          /\ \/ /\ review' = [review EXCEPT ![r] = "settled"]
                /\ ids' = Remembered(r)
                /\ UNCHANGED mine
             \/ /\ review' = [review EXCEPT ![r] = "waiting"]
                /\ ids' = Released(r)
                /\ mine' = mine \cup {r}
             \/ /\ ids' \in {Remembered(r), Released(r)}
                /\ UNCHANGED <<review, mine>>
          /\ list' = Rest(FALSE)
          /\ UNCHANGED trouble
       \/ /\ r \notin ids
          /\ IF r \in Failing THEN UNCHANGED trouble ELSE Trouble
          /\ ids' = Released(r)
          /\ list' = Rest(TRUE)
          /\ UNCHANGED <<review, mine>>
    /\ UNCHANGED <<sub, unsent, dead, done, pc, hand, attempt, stop>>

-----------------------------------------------------------------------------
(* One message                                                             *)

\* A signal that comes during the pull leaves the message to Pub/Sub.
Pull(m) ==
    /\ pc = "top" \/ (pc = "sweep" /\ list = <<>>)
    /\ m \in sub
    /\ reached' = Nobody
    /\ IF stop THEN pc' = "top" /\ UNCHANGED <<hand, attempt>>
       ELSE pc' = "process" /\ hand' = m /\ attempt' = 1
    /\ UNCHANGED <<sub, unsent, dead, done, ids, review, mine, list, stop, trouble>>

\* Nothing to pull, or the pull fails.
PullNothing ==
    /\ pc = "sweep" /\ list = <<>>
    /\ pc' = "top" /\ reached' = Nobody
    /\ UNCHANGED <<sub, unsent, dead, done, ids, review, mine, hand, attempt, list, stop, trouble>>

Process ==
    /\ pc = "process"
    /\ \/ /\ hand \in ids
          /\ pc' = "ack"
          /\ UNCHANGED <<done, ids, attempt>>
       \/ /\ hand \notin ids
          /\ pc' = "ack"
          /\ done' = done \cup {hand}
          /\ ids' \in {Remembered(hand), Released(hand)}
          /\ UNCHANGED attempt
       \/ \E transient \in BOOLEAN :
             /\ hand \notin ids
             /\ ids' = Released(hand)
             /\ IF transient /\ attempt < MaxAttempts
                THEN attempt' = attempt + 1 /\ UNCHANGED pc
                ELSE pc' = "letter" /\ UNCHANGED attempt
             /\ UNCHANGED done
    /\ UNCHANGED <<sub, unsent, dead, review, mine, reached, hand, list, stop, trouble>>

\* An acknowledgement that fails is handled like a message that failed.
Acknowledge ==
    /\ pc = "ack"
    /\ \/ sub' = sub \ {hand} /\ pc' = "top" /\ UNCHANGED trouble
       \/ pc' = "letter" /\ Trouble /\ UNCHANGED sub
    /\ UNCHANGED <<unsent, dead, done, ids, review, mine, reached, hand, attempt, list, stop>>

\* publish_dead_letter, then the acknowledgement; a message that could not be
\* published is left to Pub/Sub.
Dropped_Unacknowledged(published) == sub
Dropped(published) == IF published THEN sub \ {hand} ELSE sub

DeadLetter ==
    /\ pc = "letter"
    /\ pc' = "top"
    /\ \/ dead' = dead \cup {hand} /\ sub' = Dropped(TRUE) /\ UNCHANGED trouble
       \/ sub' = Dropped(FALSE) /\ Trouble /\ UNCHANGED dead
    /\ UNCHANGED <<unsent, done, ids, review, mine, reached, hand, attempt, list, stop>>

-----------------------------------------------------------------------------
(* The process                                                             *)

Fresh ==
    /\ ids' = {} /\ mine' = {} /\ list' = <<>>
    /\ hand' = Nobody /\ attempt' = 0 /\ reached' = Nobody

Signal ==
    /\ ~stop /\ stop' = TRUE
    /\ Trouble
    /\ UNCHANGED <<sub, unsent, dead, done, ids, review, mine, reached, pc, hand, attempt, list>>

\* The loop ends, and the service manager starts the process again.
Restart ==
    /\ stop /\ pc = "top"
    /\ stop' = FALSE
    /\ Fresh
    /\ UNCHANGED <<sub, unsent, dead, done, review, pc, trouble>>

\* Also the acknowledgement after a dead letter that raises: nothing catches it.
CrashWorker ==
    /\ Trouble
    /\ pc' = "top" /\ stop' = FALSE
    /\ Fresh
    /\ dead' \in IF pc = "letter" THEN {dead, dead \cup {hand}} ELSE {dead}
    /\ UNCHANGED <<sub, unsent, done, review>>

Publish(m) ==
    /\ m \in unsent
    /\ unsent' = unsent \ {m} /\ sub' = sub \cup {m}
    /\ UNCHANGED <<dead, done, ids, review, mine, reached, pc, hand, attempt, list, stop, trouble>>

\* Pub/Sub delivers at least once.
Redeliver(m) ==
    /\ m \notin unsent \cup sub
    /\ sub' = sub \cup {m}
    /\ Trouble
    /\ UNCHANGED <<unsent, dead, done, ids, review, mine, reached, pc, hand, attempt, list, stop>>

BackoffEnds(r) ==
    /\ review[r] = "waiting"
    /\ review' = [review EXCEPT ![r] = "due"]
    /\ UNCHANGED <<sub, unsent, dead, done, ids, mine, reached, pc, hand, attempt, list, stop, trouble>>

WorkerStep ==
    \/ \E r \in Reviews : Resume(r)
    \/ PullNothing \/ Process \/ Acknowledge \/ DeadLetter \/ Restart

QueueNext ==
    \/ StartSweep \/ WorkerStep \/ Signal \/ CrashWorker
    \/ \E m \in Messages : Pull(m) \/ Publish(m) \/ Redeliver(m)
    \/ \E r \in Reviews : BackoffEnds(r)

\* The process runs; the sweep comes up again and again, since its interval ends;
\* Pub/Sub offers a message it keeps again and again.
QueueFairness ==
    /\ WF_queueVars(WorkerStep)
    /\ SF_queueVars(StartSweep)
    /\ \A m \in Messages : SF_queueVars(Pull(m))

QueueSpec == QueueInit /\ [][QueueNext]_queueVars /\ QueueFairness

-----------------------------------------------------------------------------
(* Properties                                                              *)

\* A message leaves the subscription only once it was handled to its end or is
\* in the dead-letter topic: a retry is not taken for a duplicate
\* (processor.py:523-527, worker.py:350-377).
NoMessageLost == \A m \in Messages \ (unsent \cup sub) : m \in done \cup dead

\* No message is redelivered forever, although its handling always raises.
EveryMessageSettled == \A m \in Messages : (m \in sub) ~> (m \notin sub)

Ahead(r) == {s \in Reviews : \E i, j \in 1..Len(PausedReviews) : i < j /\ PausedReviews[i] = s /\ PausedReviews[j] = r}

\* A paused review that is due is handed to the processor again, whatever becomes
\* of those before it in the list, unless one of these always raises
\* (worker.py:294-299).
SweepReachesAll ==
    \A r \in Reviews :
        Ahead(r) \cap Failing = {} => (review[r] = "due") ~> (reached = r \/ review[r] # "due")
=============================================================================
