-------------------------- MODULE ReviewSubmission --------------------------
(***************************************************************************)
(* _submit_formal_review (review/review_enforcer.py): how one audit        *)
(* becomes one review on GitHub.  Each worker runs one submission at a     *)
(* time (_review_lock); submissions of several workers, pushes to the pull *)
(* request, lost responses and crashes interleave between its calls.       *)
(*                                                                         *)
(* Heads are numbered in the order they are pushed.  The text of a review  *)
(* is abstracted to its verdict.                                           *)
(***************************************************************************)
EXTENDS ReviewClaims, Sequences

CONSTANTS
    MaxSessions,       \* bound of the number of submissions started
    InlineComments,    \* values "the review has inline comments" may take
    NativeDismissal,   \* is_repo_with_native_stale_review_dismissal
    AllowedFaults      \* the kinds of failure that may happen

\* split: a claim from memory where the durable registry is enabled; late: a
\* lease runs out under a submission that relies on it; lostResponse: GitHub accepts a review and the worker
\* sees an error; erased: a failed forced submission deletes the claim document of
\* a commit that has a review.  The others are named after the step that raises.
FaultKinds == {"split", "late", "lostResponse", "erased", "markRaised", "releaseRaised",
               "enforceRaised", "dismissFailed", "crash"}

ASSUME SubmissionAssumption ==
    /\ IsFiniteSet(Workers)
    /\ MaxSessions \in Nat
    /\ Heads \subseteq Nat
    /\ 1 \in Heads
    /\ InlineComments \subseteq BOOLEAN
    /\ NativeDismissal \in BOOLEAN
    /\ AllowedFaults \subseteq FaultKinds

VARIABLES
    live,      \* head commit of the pull request on GitHub
    reviews,   \* the bot's formal reviews on GitHub, in the order accepted
    session,   \* session[w]: the submission worker w is in
    started,   \* number of submissions started
    faults     \* kinds of failure that have happened so far (history)

prVars == <<live, reviews>>
subVars == <<claimVars, live, reviews, session, started, faults>>

Verdicts == {"CHANGES_REQUESTED", "APPROVED"}
NoHead == 0

Review == [sha : Heads, state : Verdicts \cup {"DISMISSED"}, forced : BOOLEAN]

\* pr: head of the fetched PullRequest object; sha: commit the caller analysed;
\* seen: how many reviews get_reviews returned.
Session == [pc : {"idle", "fetched", "listed", "claimed", "rendered", "inlineFailed",
                  "accepted", "marked"},
            pr : Heads \cup {NoHead}, sha : Heads \cup {NoHead},
            force : BOOLEAN, inline : BOOLEAN, seen : Nat]

Idle == [pc |-> "idle", pr |-> NoHead, sha |-> NoHead, force |-> FALSE, inline |-> FALSE,
         seen |-> 0]

SubTypeOK ==
    /\ ClaimsTypeOK
    /\ live \in Heads
    /\ reviews \in Seq(Review)
    /\ session \in [Workers -> Session]
    /\ started \in 0..MaxSessions
    /\ faults \subseteq FaultKinds

SubInit ==
    /\ ClaimsInit
    /\ live = 1
    /\ reviews = <<>>
    /\ session = [w \in Workers |-> Idle]
    /\ started = 0
    /\ faults = {}

-----------------------------------------------------------------------------
(* Steps of a submission                                                   *)

At(w, pc) == session[w].pc = pc
Goto(w, pc) == session' = [session EXCEPT ![w].pc = pc]
Return(w) == session' = [session EXCEPT ![w] = Idle]
Fault(kinds) == kinds \subseteq AllowedFaults /\ faults' = faults \cup kinds

\* repo.get_pull(): the caller fetches the pull request, having analysed sha, a
\* commit that is or was its head.
Fetch(w) ==
    /\ At(w, "idle")
    /\ started < MaxSessions
    /\ started' = started + 1
    /\ \E sha \in {h \in Heads : h <= live}, force \in BOOLEAN, inline \in InlineComments :
          session' = [session EXCEPT ![w] =
              [Idle EXCEPT !.pc = "fetched", !.pr = live, !.sha = sha,
                                       !.force = force, !.inline = inline]]
    /\ UNCHANGED <<claimVars, prVars, faults>>

Existing(sha) == {i \in DOMAIN reviews : reviews[i].sha = sha}

\* A review of the commit exists, whatever its state: an unforced submission
\* stops.
Duplicate_Unchecked(w) == FALSE
Duplicate(w) == ~session[w].force /\ Existing(session[w].sha) # {}

Moved(w) == session[w].sha # session[w].pr

\* The head check and get_reviews().
List(w) ==
    /\ At(w, "fetched")
    /\ IF Moved(w) \/ Duplicate(w)
       THEN Return(w)
       ELSE session' = [session EXCEPT ![w].pc = "listed", ![w].seen = Len(reviews)]
    /\ UNCHANGED <<claimVars, prVars, started, faults>>

\* The claim; a claim granted from memory in a deployment that has the durable
\* registry is a split.
ClaimStep(w) ==
    /\ At(w, "listed")
    /\ Claim(w, session[w].sha, session[w].force)
    /\ IF held' = held THEN Return(w) ELSE Goto(w, "claimed")
    /\ Fault(IF DurableEnabled /\ \E c \in held' \ held : c.store = "local"
             THEN {"split"} ELSE {})
    /\ UNCHANGED <<clock, prVars, started>>

\* The claim of the running submission.
ClaimOf(w) == CHOOSE c \in HeldBy(w) : TRUE

\* A forced claim overwrites the "submitted" mark of an earlier review; its
\* release then deletes the document.
Erasing(w) == IF Existing(session[w].sha) # {} THEN {"erased"} ELSE {}

\* An exit that releases the claim; release() itself may raise.
ExitReleasing_KeepsClaim(w, kinds) ==
    /\ Abandon(w, ClaimOf(w)) /\ Return(w) /\ Fault(kinds)
    /\ UNCHANGED clock

ExitReleasing(w, kinds) ==
    /\ \/ Release(w, ClaimOf(w)) /\ Return(w) /\ Fault(kinds \cup Erasing(w))
       \/ /\ ReleaseRaises(w, ClaimOf(w))
          /\ Return(w)
          /\ Fault(kinds \cup Erasing(w) \cup {"releaseRaised"})
    /\ UNCHANGED clock

\* _enforce_verdict raises ValueError: unusable payload.
RejectPayload(w) ==
    /\ At(w, "claimed")
    /\ ExitReleasing(w, {})
    /\ UNCHANGED <<prVars, started>>

\* Any other exception of _enforce_verdict, citation repair or stamping leaves
\* the claim behind.
EnforceRaises(w) ==
    /\ At(w, "claimed")
    /\ Abandon(w, ClaimOf(w)) /\ Return(w) /\ Fault({"enforceRaised"})
    /\ UNCHANGED <<clock, prVars, started>>

Render(w) ==
    /\ At(w, "claimed")
    /\ Goto(w, "rendered")
    /\ UNCHANGED <<claimVars, prVars, started, faults>>

-----------------------------------------------------------------------------
(* create_review: with inline comments first when there are any, then with *)
(* the body only; an error may hide a review GitHub did accept             *)

Attempting(w) == At(w, "rendered") \/ At(w, "inlineFailed")
LastAttempt(w) == At(w, "inlineFailed") \/ ~session[w].inline

\* GitHub stores a review of the commit the submission names.
Accept(w) ==
    \E v \in Verdicts :
        reviews' = Append(reviews, [sha |-> session[w].sha, state |-> v,
                                    forced |-> session[w].force])

Create(w) ==
    /\ Attempting(w)
    /\ Accept(w)
    /\ Goto(w, "accepted")
    /\ UNCHANGED <<claimVars, live, started, faults>>

\* The call raises: the first attempt falls back to the body alone, the last one
\* releases the claim and re-raises.
AttemptRaises(w, kinds) ==
    IF LastAttempt(w)
    THEN ExitReleasing(w, kinds)
    ELSE Goto(w, "inlineFailed") /\ Fault(kinds) /\ UNCHANGED claimVars

CreateRejected(w) ==
    /\ Attempting(w)
    /\ AttemptRaises(w, {})
    /\ UNCHANGED <<prVars, started>>

CreateResponseLost(w) ==
    /\ Attempting(w)
    /\ Accept(w)
    /\ AttemptRaises(w, {"lostResponse"})
    /\ UNCHANGED <<live, started>>

-----------------------------------------------------------------------------
(* After acceptance: complete the claim, then dismiss what is superseded   *)

\* mark_submitted() is outside every try: when it raises, the caller is told of
\* an error and the dismissals are skipped.
Mark(w) ==
    /\ At(w, "accepted")
    /\ \/ MarkSubmitted(w, ClaimOf(w)) /\ Goto(w, "marked") /\ Fault({})
       \/ MarkRaises(w, ClaimOf(w)) /\ Return(w) /\ Fault({"markRaised"})
    /\ UNCHANGED <<clock, prVars, started>>

\* Of the reviews it listed, a change request is always superseded, an approval
\* only when it is of another commit.
Superseded_StaleOnly(w) ==
    {i \in 1..session[w].seen : reviews[i].state \in Verdicts /\ reviews[i].sha # session[w].sha}

Superseded(w) ==
    {i \in 1..session[w].seen :
        \/ reviews[i].state = "CHANGES_REQUESTED"
        \/ reviews[i].state = "APPROVED" /\ reviews[i].sha # session[w].sha}

\* Each dismissal may fail; failures are logged and the submission succeeds.
Dismiss(w) ==
    /\ At(w, "marked")
    /\ \E failed \in SUBSET Superseded(w) :
          /\ reviews' = [i \in DOMAIN reviews |->
                           IF ~NativeDismissal /\ i \in Superseded(w) \ failed
                           THEN [reviews[i] EXCEPT !.state = "DISMISSED"] ELSE reviews[i]]
          /\ Fault(IF failed = {} THEN {} ELSE {"dismissFailed"})
    /\ Return(w)
    /\ UNCHANGED <<claimVars, live, started>>

-----------------------------------------------------------------------------
(* Environment                                                             *)

Restart(w) ==
    /\ Crash(w)
    /\ Return(w)
    /\ Fault({"crash"})
    /\ UNCHANGED <<clock, prVars, started>>

Push ==
    /\ live + 1 \in Heads
    /\ live' = live + 1
    /\ UNCHANGED <<claimVars, reviews, session, started, faults>>

\* A lease ends while a submission is between get_reviews() and the end of its
\* claim: it outlived its own lease, or the list it read is older than a lease.
LeaseEnds == \E h \in Heads : durable[h].status = "processing" /\ durable[h].lease = clock + 1
Midway(w) == session[w].pc \in {"listed", "claimed", "rendered", "inlineFailed", "accepted"}

PassTime ==
    /\ Tick
    /\ Fault(IF LeaseEnds /\ \E w \in Workers : Midway(w) THEN {"late"} ELSE {})
    /\ UNCHANGED <<registryVars, prVars, session, started>>

Step(w) ==
    \/ Fetch(w) \/ List(w) \/ ClaimStep(w) \/ RejectPayload(w) \/ EnforceRaises(w)
    \/ Render(w) \/ Create(w) \/ CreateRejected(w) \/ CreateResponseLost(w)
    \/ Mark(w) \/ Dismiss(w)

SubNext ==
    \/ \E w \in Workers : Step(w) \/ Restart(w)
    \/ Push
    \/ PassTime

SubSpec == SubInit /\ [][SubNext]_subVars

-----------------------------------------------------------------------------
(* Properties                                                              *)

AtMostOnce ==
    \A i, j \in DOMAIN reviews :
        (i < j /\ reviews[i].sha = reviews[j].sha) => reviews[j].forced

\* Several workers never post a second review of a commit nobody asked again
\* for, however their submissions interleave and crash, unless a worker lost
\* its registry, outlived its lease, a response of GitHub was lost, or a failed
\* forced submission erased the claim of a reviewed commit.
NoUnforcedDuplicate ==
    faults \cap {"split", "late", "lostResponse", "erased"} = {} => AtMostOnce

\* With a single worker the process lock and get_reviews() are enough: neither a
\* split nor an expired lease can then produce a duplicate.
SingleWorkerNoDuplicate ==
    (Cardinality(Workers) = 1 /\ "lostResponse" \notin faults) => AtMostOnce

\* A claim that runs with no submission behind it blocks the commit until its
\* lease ends.  No path of the submission leaves one, except those where the
\* registry fails, the process dies or the rendering raises.
Orphaned(e, h) == LeaseRuns(e) /\ ~\E c \in held : c.head = h /\ c.token = e.token

NoOrphanClaim ==
    faults \cap {"split", "markRaised", "releaseRaised", "enforceRaised", "crash"} = {} =>
        \A h \in Heads :
            /\ ~Orphaned(durable[h], h)
            /\ \A w \in Workers : ~Orphaned(local[w][h], h)

\* "CHANGES_REQUESTED must always be dismissed once a newer review is accepted
\* to unblock PR mergeability" (review_enforcer.py:1169): when no submission
\* runs, only the last review may still request changes.
OldObjectionsCleared ==
    (/\ \A w \in Workers : At(w, "idle")
     /\ ~NativeDismissal
     /\ faults \cap {"lostResponse", "markRaised", "dismissFailed", "crash"} = {})
        => \A i \in DOMAIN reviews :
              reviews[i].state = "CHANGES_REQUESTED" => i = Len(reviews)

=============================================================================
