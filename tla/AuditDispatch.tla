---------------------------- MODULE AuditDispatch ----------------------------
(***************************************************************************)
(* How a webhook becomes an audit: the sequential loop of worker.py, the   *)
(* tiers of processor.py and events/tier1_router.py, the CI gate           *)
(* (review/ci_gate.py) and the in-memory registries they consult, for the  *)
(* automatic reviews of one pull request.                                  *)
(*                                                                         *)
(* GitHub changes between any two calls of the worker.  Messages are       *)
(* delivered at least once and in any order; the process may die at any    *)
(* time.  The run of the agent is abstracted to its outcomes, and the      *)
(* submission to the checks that decide whether it posts (ReviewSubmission *)
(* has the rest).  Commits are numbered in the order they are pushed.      *)
(***************************************************************************)
EXTENDS Naturals, Sequences

CONSTANTS
    Heads,          \* commits that may be pushed: 1..n
    BaseMerges,     \* those that only merge the base branch into the commit before
    Signals,        \* what CI reports on a commit: two check suites, a legacy status
    MaxAttempts,    \* len(_RETRY_DELAYS) + 1
    MaxMessages,    \* bound of the number of webhooks delivered
    MaxFaults,      \* bound of the number of failures
    AllowedFaults,  \* the kinds of failure that may happen
    AuthorActions   \* what else happens to the pull request: "rerun", "close", "reopen"

\* apiError: a call to GitHub fails; tokenError: the GitHub client or AgentCore
\* cannot be built for Tier 2; raised: agent.run raises; quota: every model of the
\* chain is rate limited; failed: the run ends with a failed result; silent: it ends
\* well without a review; ackFailed, dlqFailed: the Pub/Sub call fails; duplicate: a
\* message is delivered again after its ack; crash: the process dies.
FaultKinds == {"apiError", "tokenError", "raised", "quota", "failed", "silent",
               "ackFailed", "dlqFailed", "duplicate", "crash"}

ASSUME DispatchAssumption ==
    /\ Heads \subseteq Nat /\ 1 \in Heads /\ BaseMerges \subseteq Heads
    /\ Signals \subseteq {"checks", "scan", "status"}
    /\ MaxAttempts \in Nat \ {0}
    /\ MaxMessages \in Nat \ {0}
    /\ MaxFaults \in Nat
    /\ AllowedFaults \subseteq FaultKinds
    /\ AuthorActions \subseteq {"rerun", "close", "reopen"}

VARIABLES
    head,        \* live head of the pull request
    open,        \* its state on GitHub
    ci,          \* ci[h][s]: state of signal s on commit h
    reviews,     \* commits with an automatic review
    sent,        \* the webhooks, in the order GitHub sent them; the index is the id
    queue,       \* ids Pub/Sub has not seen acknowledged
    processed,   \* _processed_deliveries
    claimed,     \* _RECONCILED_PR_CACHE: commits with an audit claim
    closedMark,  \* pr_closed_registry holds the pull request
    swept,       \* commits whose "resume-..." delivery id is in _processed_deliveries
    checkpoint,  \* checkpoint[h]: status in review_checkpoints, see Statuses
    job,         \* what the worker is doing
    audited,     \* commits whose claimed audit ended well or goes on (history)
    green,       \* green[h]: signals that have passed on h at some time (history)
    budget,      \* failures that may still happen
    happened     \* kinds of failure and of author action so far (history)

github == <<head, open, ci, reviews, green>>
pubsub == <<queue, sent>>
memory == <<processed, claimed, closedMark, swept>>
history == <<audited, budget, happened>>
vars == <<github, pubsub, memory, checkpoint, job, history>>

-----------------------------------------------------------------------------
NoHead == 0

\* absent: GitHub has not been told of the signal yet.
CIStates == {"absent", "pending", "passed", "failed"}

\* "paused" and "due" are rate_limited before and after resume_after.
Statuses == {"none", "pending", "paused", "due", "completed"}

PullRequestKinds == {"opened", "synchronize", "reopened"}
MessageKinds == PullRequestKinds \cup {"closed", "suitePassed", "suiteFailed"}
Message == [kind : MessageKinds, head : Heads]
Ids == 1..MaxMessages

\* kind "resume": a checkpoint the sweep found; nested: the event that
\* review_if_ci_green synthesizes inside a check_suite event; checks: what
\* get_check_runs said; diff: the commit diff_sha names; files: the commit the
\* files were read from.
Job == [pc : {"idle", "tier0", "suite", "checks", "status", "live", "prep", "files", "run",
              "turn", "submit", "after", "ack", "deadLetter"},
        id : Ids \cup {0}, kind : MessageKinds \cup {"none", "resume"},
        head : Heads \cup {NoHead}, nested : BOOLEAN, attempt : 0..MaxAttempts,
        checks : CIStates, diff : Heads \cup {NoHead}, files : Heads \cup {NoHead}]

Idle == [pc |-> "idle", id |-> 0, kind |-> "none", head |-> NoHead, nested |-> FALSE,
         attempt |-> 0, checks |-> "passed", diff |-> NoHead, files |-> NoHead]

DispatchTypeOK ==
    /\ head \in Heads /\ open \in BOOLEAN
    /\ ci \in [Heads -> [Signals -> CIStates]]
    /\ reviews \subseteq Heads
    /\ sent \in Seq(Message) /\ Len(sent) <= MaxMessages
    /\ queue \subseteq DOMAIN sent
    /\ processed \subseteq DOMAIN sent
    /\ claimed \subseteq Heads /\ swept \subseteq Heads /\ closedMark \in BOOLEAN
    /\ checkpoint \in [Heads -> Statuses]
    /\ job \in Job
    /\ audited \subseteq Heads
    /\ green \in [Heads -> SUBSET Signals]
    /\ budget \in 0..MaxFaults
    /\ happened \subseteq FaultKinds \cup AuthorActions

DispatchInit ==
    /\ head = 1 /\ open = TRUE
    /\ ci = [h \in Heads |-> [s \in Signals |-> "absent"]]
    /\ reviews = {}
    /\ sent = <<[kind |-> "opened", head |-> 1]>> /\ queue = {1}
    /\ processed = {} /\ claimed = {} /\ swept = {} /\ closedMark = FALSE
    /\ checkpoint = [h \in Heads |-> "none"]
    /\ job = Idle
    /\ audited = {} /\ green = [h \in Heads |-> {}]
    /\ budget = MaxFaults /\ happened = {}

-----------------------------------------------------------------------------
(* How a step of the worker ends                                           *)

At(pc) == job.pc = pc
Goto(pc) == job' = [job EXCEPT !.pc = pc]

Fault(kind) ==
    /\ kind \in AllowedFaults /\ budget > 0
    /\ budget' = budget - 1
    /\ happened' = happened \cup {kind}
Fine == UNCHANGED <<budget, happened>>

\* process_event returns: the message is acknowledged next; the sweep goes on.
Return == job' = IF job.kind = "resume" THEN Idle ELSE [job EXCEPT !.pc = "ack"]

\* The delivery id leaves _processed_deliveries; a nested event has an id of its
\* own, which nothing carries again.
Forget ==
    /\ processed' = IF job.nested THEN processed ELSE processed \ {job.id}
    /\ swept' = IF job.kind = "resume" THEN swept \ {job.head} ELSE swept
    /\ UNCHANGED closedMark

ReleaseClaim_Kept == UNCHANGED claimed
ReleaseClaim == claimed' = claimed \ {job.head}

\* A run with a failed result: released and forgotten, yet acknowledged.
EndFailed ==
    /\ Forget /\ ReleaseClaim /\ Return
    /\ audited' = audited \ {job.head}

Retry ==
    /\ job.attempt < MaxAttempts
    /\ job' = [job EXCEPT !.pc = "tier0", !.attempt = @ + 1]

\* An exception leaves process_event.  The sweep and handle_ci_completed swallow
\* it; the loop tries the same payload again if it is transient, at most
\* MaxAttempts times, and dead-letters the message otherwise.
Raise ==
    /\ Forget
    /\ \/ job.kind = "resume" /\ job' = Idle
       \/ job.nested /\ Goto("ack")
       \/ job.kind # "resume" /\ ~job.nested /\ Retry
       \/ job.kind # "resume" /\ ~job.nested /\ Goto("deadLetter")

-----------------------------------------------------------------------------
(* The loop of worker.py                                                   *)

Pull(i) ==
    /\ At("idle")
    /\ job' = [Idle EXCEPT !.pc = "tier0", !.id = i, !.kind = sent[i].kind,
                           !.head = sent[i].head, !.attempt = 1]
    /\ UNCHANGED <<github, pubsub, memory, checkpoint, history>>

\* The sweep hands a due checkpoint to process_event; a resume delivery that was
\* already processed is dropped there as a duplicate.
Sweep(h) ==
    /\ At("idle")
    /\ checkpoint[h] = "due" /\ h \notin swept
    /\ job' = [Idle EXCEPT !.pc = "tier0", !.kind = "resume", !.head = h, !.attempt = 1]
    /\ UNCHANGED <<github, pubsub, memory, checkpoint, history>>

\* The ack is inside the try of the loop: when it fails the message is
\* dead-lettered although it was processed.
Ack ==
    /\ At("ack")
    /\ \/ queue' = queue \ {job.id} /\ job' = Idle /\ Fine
       \/ UNCHANGED queue /\ Goto("deadLetter") /\ Fault("ackFailed")
    /\ UNCHANGED <<github, sent, memory, checkpoint, audited>>

\* publish_dead_letter, then the ack; without it the message stays unacknowledged.
DeadLetter ==
    /\ At("deadLetter")
    /\ \/ queue' = queue \ {job.id} /\ Fine
       \/ UNCHANGED queue /\ Fault("dlqFailed")
    /\ job' = Idle
    /\ UNCHANGED <<github, sent, memory, checkpoint, audited>>

-----------------------------------------------------------------------------
(* Tier 0 and Tier 1                                                       *)

DuplicateDelivery == job.id \in processed

Record_ClaimsEarly ==
    /\ processed' = IF job.kind = "resume" THEN processed ELSE processed \cup {job.id}
    /\ swept' = IF job.kind = "resume" THEN swept \cup {job.head} ELSE swept
    /\ claimed' = IF job.kind \in PullRequestKinds THEN claimed \cup {job.head} ELSE claimed
    /\ UNCHANGED closedMark
Record ==
    /\ processed' = IF job.kind = "resume" THEN processed ELSE processed \cup {job.id}
    /\ swept' = IF job.kind = "resume" THEN swept \cup {job.head} ELSE swept
    /\ UNCHANGED <<claimed, closedMark>>

\* filter_tier_0, and the part of Tier 1 that asks nobody: a closed event only
\* registers the pull request, a failed suite is ignored.  is_base_branch_merge_sync
\* ends the synchronize event of a merge of the base branch, unless a call of it fails;
\* the payload of a resumed event names no base branch.
Tier0 ==
    /\ At("tier0")
    /\ \/ DuplicateDelivery /\ Return /\ UNCHANGED memory
       \/ /\ ~DuplicateDelivery /\ job.kind = "closed"
          /\ closedMark' = TRUE
          /\ Return /\ UNCHANGED <<processed, claimed, swept>>
       \/ /\ ~DuplicateDelivery /\ job.kind \in {"suitePassed", "suiteFailed"}
          /\ Record
          /\ IF job.kind = "suitePassed" THEN Goto("suite") ELSE Return
       \/ /\ ~DuplicateDelivery /\ job.kind \in PullRequestKinds \cup {"resume"}
          /\ Record
          /\ IF closedMark THEN Return ELSE Goto("checks")
       \/ /\ ~DuplicateDelivery /\ job.kind = "synchronize" /\ job.head \in BaseMerges
          /\ Record /\ Return
    /\ UNCHANGED <<github, pubsub, checkpoint, history>>

\* review_if_ci_green asks for the pull request; its exceptions are swallowed.
Suite ==
    /\ At("suite")
    /\ \/ IF open /\ head = job.head
          THEN job' = [job EXCEPT !.pc = "checks", !.nested = TRUE] /\ Fine
          ELSE Return /\ Fine
       \/ Return /\ Fault("apiError")
    /\ UNCHANGED <<github, pubsub, memory, checkpoint, audited>>

\* What a set of signals says together: a failure wins over pending, pending over
\* pass, and what is absent does not count.
Summary_IgnoresPending(states) == IF "failed" \in states THEN "failed" ELSE "passed"
Summary(states) ==
    IF "failed" \in states THEN "failed"
    ELSE IF "pending" \in states THEN "pending"
    ELSE IF "passed" \in states THEN "passed" ELSE "absent"

CheckRuns == Summary({ci[job.head][s] : s \in Signals \ {"status"}})
CombinedStatus == Summary({ci[job.head][s] : s \in Signals \cap {"status"}})

\* evaluate_ci, first the check runs, then the combined status.
EvaluateChecks ==
    /\ At("checks")
    /\ \/ job' = [job EXCEPT !.pc = "status", !.checks = CheckRuns] /\ Fine
       \/ Return /\ Fault("apiError")
    /\ UNCHANGED <<github, pubsub, memory, checkpoint, audited>>

\* Only a green commit passes the gate; the repository has workflows, so that nothing
\* reported yet counts as pending.  The deferred path then looks for a review of the
\* bot and starts the nested event, which meets the registry, and
\* is_base_branch_merge_sync if the commit before is the one reviewed.
EvaluateStatus ==
    /\ At("status")
    /\ \/ IF /\ Summary({job.checks, CombinedStatus}) = "passed"
             /\ job.nested => job.head \notin reviews /\ ~closedMark
          THEN Goto("live") /\ Fine
          ELSE Return /\ Fine
       \/ /\ job.nested /\ job.head \in BaseMerges /\ job.head - 1 \in reviews
          /\ Return /\ Fine
       \/ Return /\ Fault("apiError")
    /\ UNCHANGED <<github, pubsub, memory, checkpoint, audited>>

Stale == ~open \/ head # job.head \/ job.head \in reviews

ClaimTaken_Unchecked == FALSE
ClaimTaken == job.kind # "resume" /\ job.head \in claimed

\* The live check and the in-flight claim, which a resumed event bypasses.
Live ==
    /\ At("live")
    /\ \/ /\ IF Stale \/ ClaimTaken
             THEN Return /\ UNCHANGED claimed
             ELSE /\ Goto("prep")
                  /\ claimed' = IF job.kind = "resume" THEN claimed ELSE claimed \cup {job.head}
          /\ Fine
       \/ Return /\ UNCHANGED claimed /\ Fault("apiError")
    /\ UNCHANGED <<github, pubsub, processed, closedMark, swept, checkpoint, audited>>

-----------------------------------------------------------------------------
(* Tier 2                                                                  *)

\* The client and the agent are built outside the try that releases the claim.  A
\* due checkpoint brings its own diff, a retried payload still has the one it
\* fetched; otherwise the head is read first and the files after it.  A pull
\* request found closed is registered and the claim is kept.
Prep ==
    /\ At("prep")
    /\ \/ /\ job.files # NoHead \/ checkpoint[job.head] = "due"
          /\ job' = [job EXCEPT !.pc = "run",
                         !.diff = IF job.files = NoHead THEN job.head ELSE @,
                         !.files = IF @ = NoHead THEN job.head ELSE @]
          /\ UNCHANGED <<memory>> /\ Fine
       \/ /\ job.files = NoHead /\ checkpoint[job.head] # "due"
          /\ \/ open /\ job' = [job EXCEPT !.pc = "files", !.diff = head] /\ UNCHANGED memory
             \/ /\ ~open /\ Return
                /\ closedMark' = TRUE /\ UNCHANGED <<processed, claimed, swept>>
          /\ Fine
       \/ Goto("run") /\ UNCHANGED memory /\ Fault("apiError")
       \/ Raise /\ UNCHANGED claimed /\ Fault("tokenError")
    /\ UNCHANGED <<github, pubsub, checkpoint, audited>>

ReadFiles ==
    /\ At("files")
    /\ \/ job' = [job EXCEPT !.pc = "run", !.files = head] /\ Fine
       \/ Goto("run") /\ Fault("apiError")
    /\ UNCHANGED <<github, pubsub, memory, checkpoint, audited>>

MixedSnapshot == job.diff # NoHead /\ job.diff # job.head

\* The checkpoint gate: a completed review, and one whose backoff has not passed.
Settled == checkpoint[job.head] \in {"completed", "paused"}

\* execute_agent_event: the snapshot guard, the checkpoint gate, and the save of
\* the pending checkpoint, which carries the delivery id of this event and never
\* downgrades a status.
Run ==
    /\ At("run")
    /\ \/ MixedSnapshot /\ EndFailed /\ UNCHANGED checkpoint
       \/ /\ ~MixedSnapshot /\ Settled
          /\ Return /\ UNCHANGED <<memory, checkpoint, audited>>
       \/ /\ ~MixedSnapshot /\ ~Settled
          /\ Goto("turn")
          /\ checkpoint' = [checkpoint EXCEPT ![job.head] = IF @ = "none" THEN "pending" ELSE @]
          /\ swept' = swept \ {job.head}
          /\ audited' = IF job.kind = "resume" THEN audited ELSE audited \cup {job.head}
          /\ UNCHANGED <<processed, claimed, closedMark>>
    /\ Fine /\ UNCHANGED <<github, pubsub>>

\* The retry loop gives up, with a failed result, or agent.run raises.
RunFails ==
    \/ EndFailed /\ UNCHANGED checkpoint /\ Fault("failed")
    \/ /\ EndFailed /\ Fault("quota")
       /\ checkpoint' = [checkpoint EXCEPT ![job.head] = "paused"]
    \/ /\ Raise /\ ReleaseClaim /\ Fault("raised")
       /\ audited' = audited \ {job.head}
       /\ UNCHANGED checkpoint

\* The model run, up to a review.
Turn ==
    /\ At("turn")
    /\ \/ Goto("submit") /\ UNCHANGED <<memory, checkpoint, audited>> /\ Fine
       \/ Return /\ UNCHANGED <<memory, checkpoint, audited>> /\ Fault("silent")
       \/ RunFails
    /\ UNCHANGED <<github, pubsub>>

Refused_Unchecked == job.head \in reviews
Refused == job.head # head \/ job.head \in reviews

\* The submission, by the tool in the middle of the run or by the deterministic path
\* after it.  A refusal is a successful tool call, and a failed result of the
\* deterministic path; only that path completes the checkpoint.
Submit ==
    /\ At("submit")
    /\ reviews' = IF Refused THEN reviews ELSE reviews \cup {job.head}
    /\ \/ Goto("after") /\ UNCHANGED <<memory, checkpoint, audited>>
       \/ Refused /\ EndFailed /\ UNCHANGED checkpoint
       \/ /\ ~Refused
          /\ checkpoint' = [checkpoint EXCEPT ![job.head] = "completed"]
          /\ Return /\ UNCHANGED <<memory, audited>>
    /\ Fine /\ UNCHANGED <<head, open, ci, green, pubsub>>

\* The run after the tool call.
Finish ==
    /\ At("after")
    /\ \/ Return /\ UNCHANGED <<memory, checkpoint, audited>> /\ Fine
       \/ RunFails
    /\ UNCHANGED <<github, pubsub>>

-----------------------------------------------------------------------------
(* GitHub, Pub/Sub, time and the process                                   *)

Send(kind, h) ==
    /\ Len(sent) < MaxMessages
    /\ sent' = Append(sent, [kind |-> kind, head |-> h])
    /\ queue' = queue \cup {Len(sent')}

Author(kind) == kind \in AuthorActions /\ happened' = happened \cup {kind} /\ UNCHANGED budget

Push ==
    /\ open /\ head + 1 \in Heads
    /\ head' = head + 1
    /\ Send("synchronize", head + 1)
    /\ UNCHANGED <<open, ci, reviews, green, memory, checkpoint, job, history>>

\* CI is slow: a signal appears some time after the push.
Start(h, s) ==
    /\ h <= head /\ ci[h][s] = "absent"
    /\ ci' = [ci EXCEPT ![h][s] = "pending"]
    /\ UNCHANGED <<head, open, reviews, green, pubsub, memory, checkpoint, job, history>>

\* A signal settles.  A finished suite sends a webhook the worker subscribes to,
\* a commit status none ("status" is in SUPPRESSED_EVENT_NAMES).
Settle(h, s, result) ==
    /\ h <= head /\ ci[h][s] \in {"absent", "pending"}
    /\ ci' = [ci EXCEPT ![h][s] = result]
    /\ green' = [green EXCEPT ![h] = IF result = "passed" THEN @ \cup {s} ELSE @]
    /\ IF s # "status"
       THEN Send(IF result = "passed" THEN "suitePassed" ELSE "suiteFailed", h)
       ELSE UNCHANGED pubsub
    /\ UNCHANGED <<head, open, reviews, memory, checkpoint, job, history>>

Rerun(h) ==
    /\ \E s \in Signals : ci[h][s] \in {"passed", "failed"} /\ ci' = [ci EXCEPT ![h][s] = "pending"]
    /\ "rerun" \notin happened /\ Author("rerun")
    /\ UNCHANGED <<head, open, reviews, green, pubsub, memory, checkpoint, job, audited>>

Close ==
    /\ open /\ "close" \notin happened /\ Author("close")
    /\ open' = FALSE
    /\ Send("closed", head)
    /\ UNCHANGED <<head, ci, reviews, green, memory, checkpoint, job, audited>>

Reopen ==
    /\ ~open /\ Author("reopen")
    /\ open' = TRUE
    /\ Send("reopened", head)
    /\ UNCHANGED <<head, ci, reviews, green, memory, checkpoint, job, audited>>

\* At-least-once delivery: an acknowledged webhook comes again.
Redeliver(i) ==
    /\ i \notin queue /\ job.id # i
    /\ queue' = queue \cup {i}
    /\ Fault("duplicate")
    /\ UNCHANGED <<github, sent, memory, checkpoint, job, audited>>

\* resume_after passes.
BackoffEnds(h) ==
    /\ checkpoint[h] = "paused"
    /\ checkpoint' = [checkpoint EXCEPT ![h] = "due"]
    /\ UNCHANGED <<github, pubsub, memory, job, history>>

\* The registries keep an entry for an hour, longer than any event takes.
Forgotten ==
    /\ At("idle")
    /\ \/ \E h \in claimed : claimed' = claimed \ {h} /\ audited' = audited \ {h}
                             /\ UNCHANGED closedMark
       \/ closedMark /\ closedMark' = FALSE /\ UNCHANGED <<claimed, audited>>
    /\ UNCHANGED <<github, pubsub, processed, swept, checkpoint, job, budget, happened>>

Crash ==
    /\ Fault("crash")
    /\ processed' = {} /\ claimed' = {} /\ swept' = {} /\ closedMark' = FALSE
    /\ job' = Idle
    /\ audited' = {}
    /\ UNCHANGED <<github, pubsub, checkpoint>>

-----------------------------------------------------------------------------
Handle ==
    \/ Tier0 \/ Suite \/ EvaluateChecks \/ EvaluateStatus \/ Live
    \/ Prep \/ ReadFiles \/ Run \/ Turn \/ Submit \/ Finish
    \/ Ack \/ DeadLetter

Worker == (\E i \in queue : Pull(i)) \/ (\E h \in Heads : Sweep(h)) \/ Handle

Environment ==
    \/ Push \/ Close \/ Reopen
    \/ \E h \in Heads, s \in Signals, result \in {"passed", "failed"} : Settle(h, s, result)
    \/ \E h \in Heads, s \in Signals : Start(h, s)
    \/ \E h \in Heads : Rerun(h)
    \/ \E i \in DOMAIN sent : Redeliver(i)
    \/ Forgotten \/ Crash

DispatchNext == Worker \/ Environment \/ \E h \in Heads : BackoffEnds(h)

DispatchSpec == DispatchInit /\ [][DispatchNext]_vars

\* The loop never blocks for ever: every call of it has a timeout, and systemd
\* restarts the process.  A backoff ends after a bounded time.  Nothing is
\* assumed of authors, CI or failures.
FairSpec ==
    DispatchSpec /\ WF_vars(Worker) /\ \A h \in Heads : WF_vars(BackoffEnds(h))

-----------------------------------------------------------------------------
(* Properties                                                              *)

Green(h) == \A s \in Signals : ci[h][s] = "passed"

\* An automatic review is only ever posted on a commit all of whose CI signals
\* have passed, whichever event started it and whatever a re-run, a lost answer
\* of GitHub, a crash or a resumed checkpoint did in between (the CI gate is read
\* in several calls and consulted long before the review is posted).
ReviewedOnlyAfterGreen == \A h \in reviews : green[h] = Signals

\* A posted review is about the files the model was shown: a push between the
\* reads of the head, of the files and the submission never lets a review of one
\* commit stand on another.
ReviewMatchesFiles ==
    [][\A h \in reviews' \ reviews : job.files \in {NoHead, h}]_vars

\* Duplicate webhooks, and a check suite that ends while the pull request event
\* waits, do not pay for a second model run of a commit: an event never starts one
\* while an earlier event's run of the commit ended without failure.
NoSecondAudit ==
    [][(At("run") /\ job'.pc = "turn" /\ job.kind # "resume") => job.head \notin audited]_vars

\* "Release a previously claimed reconciliation key, e.g. on execution failure"
\* (reconciliation.py:38): when the worker is idle, only commits whose audit ended
\* well are still claimed, unless the pull request was closed, the review paused, or Tier 2
\* could not get its client or its agent, which nothing gives the claim back for.
ClaimEarned ==
    (At("idle") /\ happened \cap {"close", "quota", "tokenError"} = {}) => claimed \subseteq audited

\* "CI green -> review" (ci_gate.py:8) and "a worker restart cannot lose a deferred
\* review" (ci_gate.py:13): the commit on which the pull request comes to rest, open
\* and green, is reviewed, unless it only merges the base branch.
FinalHeadReviewed ==
    \A h \in Heads \ BaseMerges : <>[](open /\ head = h /\ Green(h)) => <>(h \in reviews)

\* The same, unless the quota ran out and CI was run again: the event that resumes the
\* review may then find CI running or be remembered by its id.
FinalHeadReviewedAfterPause ==
    \A h \in Heads \ BaseMerges :
        <>[](open /\ head = h /\ Green(h) /\ ~({"quota", "rerun"} \subseteq happened))
            => <>(h \in reviews)

=============================================================================
