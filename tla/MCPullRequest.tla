---------------------------- MODULE MCPullRequest -----------------------------
(* A pull request: whether its last head is reviewed in the end, and what its  *)
(* reviews say round after round.  They share no state as modelled: part is    *)
(* the one that a behaviour is about, the other stays as it is.                *)
EXTENDS MCAuditDispatch, MCReviewPipeline

VARIABLE part

QuietPipeline == subject = "comments" /\ diff = SmallDiff

MCInit ==
    /\ part \in {"events", "reviews"}
    /\ DispatchInit /\ PipelineInit
    /\ part # "reviews" => QuietPipeline

NotEvents == UNCHANGED <<part, pipelineVars>>
NotReviews == UNCHANGED <<part, vars>>

MCNext ==
    \/ part = "events" /\ DispatchNext /\ NotEvents
    \/ part = "reviews" /\ PipelineNext /\ NotReviews

\* The fairness of FairSpec.
MCFairness ==
    /\ WF_<<part, vars>>(part = "events" /\ Worker /\ NotEvents)
    /\ \A h \in Heads : WF_<<part, vars>>(part = "events" /\ BackoffEnds(h) /\ NotEvents)

MCSpec == MCInit /\ [][MCNext]_<<part, vars, pipelineVars>> /\ MCFairness
=============================================================================
