--------------------------- MODULE MCPausedReviews ---------------------------
(* The checkpoint of one commit, call by call, and the loop of the worker that *)
(* resumes several of them as well as handling messages.  subject is the one   *)
(* that a behaviour is about, the other stays as it is.                        *)
EXTENDS ReviewCheckpoint, WorkerQueue

CONSTANT w1

VARIABLE subject

allVars == <<subject, vars, queueVars>>

MCPaused == <<"r1", "r2">>

QuietCheckpoint == configured
QuietQueue == review = [r \in Reviews |-> "waiting"]

MCInit ==
    /\ subject \in {"checkpoint", "queue"}
    /\ CheckpointInit /\ QueueInit
    /\ subject # "checkpoint" => QuietCheckpoint
    /\ subject # "queue" => QuietQueue

NotCheckpoint == UNCHANGED <<subject, queueVars>>
NotQueue == UNCHANGED <<subject, vars>>

MCNext ==
    \/ subject = "checkpoint" /\ CheckpointNext /\ NotCheckpoint
    \/ subject = "queue" /\ QueueNext /\ NotQueue

\* The fairness of QueueSpec.
MCFairness ==
    /\ WF_allVars(subject = "queue" /\ WorkerStep /\ NotQueue)
    /\ SF_allVars(subject = "queue" /\ StartSweep /\ NotQueue)
    /\ \A m \in Messages : SF_allVars(subject = "queue" /\ Pull(m) /\ NotQueue)

MCSpec == MCInit /\ [][MCNext]_allVars /\ MCFairness
=============================================================================
