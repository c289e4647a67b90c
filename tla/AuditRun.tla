------------------------------- MODULE AuditRun -------------------------------
(***************************************************************************)
(* execute_agent_event (core/execution.py): the runs of the agent on one   *)
(* pull request, one after the other in one worker.  A run passes the      *)
(* checkpoint gate, tries the models of the chain until one of them gets   *)
(* through its turns, and ends in a formal review, posted by the review    *)
(* tool in the middle of a turn or by _submit_deterministic_review at the  *)
(* end, or in a reply.  What outlives a run: the session of the pull       *)
(* request, the record of depleted models and the checkpoints.             *)
(***************************************************************************)
EXTENDS Naturals, FiniteSets

CONSTANTS
    Models,      \* every model a run may meet
    Chain,       \* the fallback chain of the prompt; an event may ask for another model,
                 \* and start with a small one (Gemma) that a large prompt rules out
    MaxRetries,  \* _MAX_RETRIES
    MaxTurns,    \* max_investigation_turns
    MaxHead,     \* bound of the number of commits
    MaxRuns,     \* bound of the number of runs
    MaxPosts     \* bound of the reviews the tool posts in one run

\* The longest chain of the code has eight models; one more may be asked for.
ASSUME RunAssumption ==
    /\ Chain \subseteq Models /\ Chain # {}
    /\ IsFiniteSet(Models)
    /\ MaxRetries \in Nat /\ Cardinality(Models) < MaxRetries
    /\ MaxTurns \in Nat \ {0} /\ MaxHead \in Nat \ {0}
    /\ MaxRuns \in Nat /\ MaxPosts \in Nat

VARIABLES
    head,        \* live head of the pull request
    closed,      \* the pull request is closed or merged
    reviews,     \* formal reviews: their commit and the commit the text is about
    replied,     \* the run whose answer was posted as the last reply
    checkpoint,  \* checkpoint[h]: status in review_checkpoints
    analysis,    \* the commit whose "code_review_analysis" the session keeps
    reply,       \* the run whose "conversational_reply" the session keeps
    depleted,    \* models in the depletion registry
    run,         \* the run in hand, or the last one
    runs         \* how many runs began

session == <<analysis, reply>>
github == <<head, closed, reviews, replied>>
vars == <<github, checkpoint, session, depleted, run, runs>>

-----------------------------------------------------------------------------
Heads == 1..MaxHead
None == 0

\* "paused" and "due" are rate_limited before and after resume_after.
Statuses == {"none", "pending", "paused", "due", "completed"}

\* tried: _attempted_model_names; explored: the tools of the invocation satisfy the
\* review tool's gate; investigated, reviewed, rejected: what `results` hold (an
\* investigative tool, a successful review, a failed review last); text:
\* emitted_texts holds an answer to post as a comment; prior: the reply kept when the attempt began; ended: how the
\* retry loop ended; ending: the tool set end_invocation; posts: reviews posted by the
\* run; broken: the review tool answered a failure of its own as text (posts, broken:
\* history).
Run == [pc : {"turn", "final", "done"}, mode : {"audit", "talk"}, head : Heads,
        explicit : BOOLEAN, code : BOOLEAN,
        model : Models, tried : SUBSET Models, attempt : 0..MaxRetries, turn : 1..MaxTurns,
        explored : BOOLEAN, investigated : BOOLEAN, reviewed : BOOLEAN, rejected : BOOLEAN,
        text : BOOLEAN, prior : 0..MaxRuns,
        ended : {"no", "skipped", "well", "unavailable", "error", "aborted"},
        ending : BOOLEAN, posts : Nat, broken : BOOLEAN]

NewRun(mode, explicit, code, model) ==
    [pc |-> "turn", mode |-> mode, head |-> head, explicit |-> explicit, code |-> code,
     model |-> model, tried |-> {model}, attempt |-> 0, turn |-> 1,
     explored |-> FALSE, investigated |-> FALSE, reviewed |-> FALSE, rejected |-> FALSE,
     text |-> FALSE, prior |-> reply, ended |-> "no",
     ending |-> FALSE, posts |-> 0, broken |-> FALSE]

AnyModel == CHOOSE m \in Models : TRUE

\* A run's locals end with it; what is left here are its results and its history.
Over(r) == [NewRun("talk", FALSE, FALSE, AnyModel) EXCEPT
               !.pc = "done", !.head = r.head, !.prior = 0,
               !.reviewed = r.reviewed, !.posts = r.posts, !.broken = r.broken]

RunTypeOK ==
    /\ head \in Heads /\ closed \in BOOLEAN
    /\ reviews \subseteq [commit : Heads, about : Heads]
    /\ replied \in 0..MaxRuns
    /\ checkpoint \in [Heads -> Statuses]
    /\ analysis \in Heads \cup {None} /\ reply \in 0..MaxRuns
    /\ depleted \subseteq Models
    /\ run \in Run
    /\ runs \in 0..MaxRuns

RunInit ==
    /\ head = 1 /\ closed = FALSE /\ reviews = {} /\ replied = 0
    /\ checkpoint = [h \in Heads |-> "none"]
    /\ analysis = None /\ reply = 0 /\ depleted = {} /\ runs = 0
    /\ run = Over([head |-> head, reviewed |-> FALSE, posts |-> 0, broken |-> FALSE])

-----------------------------------------------------------------------------
(* Models                                                                  *)

\* get_model_chain: the models that are not depleted, or all of them.  Its order
\* depends on the tier and the prompt and is left open.
ChainNow_NoFallback(out) == Chain \ out
ChainNow(out) == IF Chain \subseteq out THEN Chain ELSE Chain \ out

\* _select_model_for_event.
Selected(target) == IF target \in depleted /\ ChainNow(depleted) # {}
                    THEN ChainNow(depleted) ELSE {target}

\* _advance_model_chain, once the model that failed is recorded as depleted.
Untried == ChainNow(depleted \cup {run.model}) \ run.tried

-----------------------------------------------------------------------------
(* The start of a run                                                      *)

\* The checkpoint gate.
Settled == checkpoint[head] \in {"completed", "paused"}

\* An event that passed the tiers, on the live head.  The audit saves its
\* checkpoint, which never downgrades a status, and a settled one ends it with a
\* successful "review" result.
Start(mode, explicit, code, model) ==
    /\ run.pc = "done" /\ ~closed /\ runs < MaxRuns
    /\ mode = "talk" => ~explicit /\ ~code
    /\ runs' = runs + 1
    /\ LET new == NewRun(mode, explicit, code, model)
       IN IF mode = "audit" /\ Settled
          THEN /\ run' = [Over([new EXCEPT !.reviewed = TRUE])
                             EXCEPT !.explicit = explicit, !.ended = "skipped"]
               /\ UNCHANGED checkpoint
          ELSE /\ run' = new
               /\ checkpoint' = IF mode = "audit" /\ checkpoint[head] = "none"
                                THEN [checkpoint EXCEPT ![head] = "pending"] ELSE checkpoint
    /\ UNCHANGED <<github, session, depleted>>

-----------------------------------------------------------------------------
(* A turn of the model                                                     *)

At(pc) == run.pc = pc

\* _execute_adk_runner asks once more for an investigation or a corrected review.
AnotherTurn(r) ==
    /\ r.code /\ (~r.investigated \/ r.rejected) /\ ~r.reviewed
    /\ r.turn < MaxTurns

EndTurn(r) ==
    run' = IF AnotherTurn(r)
           THEN [r EXCEPT !.turn = @ + 1, !.explored = FALSE]
           ELSE [r EXCEPT !.pc = "final", !.ended = "well"]

Auditing == At("turn") /\ run.mode = "audit"

\* A tool looks into the checkout (which matters to audits of code only); list_dir
\* does not open the review tool.
Investigate(deep) ==
    /\ Auditing /\ run.code
    /\ run' = [run EXCEPT !.investigated = TRUE, !.explored = @ \/ deep, !.rejected = FALSE]
    /\ UNCHANGED <<github, checkpoint, session, depleted, runs>>

\* What _submit_formal_review asks of the pull request.  It reads it and posts in steps
\* of its own, which ReviewSubmission takes apart.
Postable == head = run.head /\ (run.explicit \/ \A r \in reviews : r.commit # run.head)
Posted(about) == reviews' = reviews \cup {[commit |-> run.head, about |-> about]}

Admitted == Auditing /\ (run.code => run.explored)

\* The gate of the tool, or its validation, answers with an error.
RejectReview_AsText ==
    /\ Auditing
    /\ run' = [run EXCEPT !.reviewed = TRUE]
    /\ UNCHANGED <<github, checkpoint, session, depleted, runs>>
RejectReview ==
    /\ Auditing
    /\ run' = [run EXCEPT !.rejected = TRUE]
    /\ UNCHANGED <<github, checkpoint, session, depleted, runs>>

\* A submission ends the invocation: the model is not asked again, but the other calls
\* of its answer still run, a second `review` with them.
PostReview_GoesOn ==
    /\ Admitted /\ ~closed /\ Postable /\ run.posts < MaxPosts
    /\ Posted(run.head)
    /\ run' = [run EXCEPT !.reviewed = TRUE, !.rejected = FALSE, !.posts = @ + 1]
    /\ UNCHANGED <<head, closed, replied, checkpoint, session, depleted, runs>>
PostReview ==
    /\ Admitted /\ ~closed /\ Postable /\ run.posts < MaxPosts
    /\ Posted(run.head)
    /\ run' = [run EXCEPT !.reviewed = TRUE, !.rejected = FALSE, !.ending = TRUE, !.posts = @ + 1]
    /\ UNCHANGED <<head, closed, replied, checkpoint, session, depleted, runs>>

\* "Skipped: ..." and "Deferred: ..." count as a successful call.
RefuseReview ==
    /\ Admitted /\ ~closed /\ ~Postable
    /\ run' = [run EXCEPT !.reviewed = TRUE, !.rejected = FALSE]
    /\ UNCHANGED <<github, checkpoint, session, depleted, runs>>

\* So does "Error submitting review: ...", sent or not, or "Failed: ...".
BreakReview ==
    /\ Admitted /\ run.posts < MaxPosts
    /\ \/ UNCHANGED reviews /\ run' = [run EXCEPT !.reviewed = TRUE, !.rejected = FALSE, !.broken = TRUE]
       \/ /\ ~closed /\ Postable /\ Posted(run.head)
          /\ run' = [run EXCEPT !.reviewed = TRUE, !.rejected = FALSE, !.broken = TRUE, !.posts = @ + 1]
    /\ UNCHANGED <<head, closed, replied, checkpoint, session, depleted, runs>>

\* The turn's final answer, which output_key also writes to the session.
Answer ==
    /\ At("turn") /\ ~run.ending
    /\ IF run.mode = "audit" THEN analysis' = run.head /\ UNCHANGED reply
                             ELSE reply' = runs /\ UNCHANGED analysis
    /\ EndTurn([run EXCEPT !.text = run.mode = "talk"])
    /\ UNCHANGED <<github, checkpoint, depleted, runs>>

\* The turn ends without an answer, as it does after a submission; the limit of model
\* calls ends the run.
Silence ==
    /\ At("turn")
    /\ \/ EndTurn(run)
       \/ ~run.ending /\ run' = [run EXCEPT !.pc = "final", !.ended = "well"]
    /\ UNCHANGED <<github, checkpoint, session, depleted, runs>>

-----------------------------------------------------------------------------
(* Errors                                                                  *)

GivesUp(how) == run' = [run EXCEPT !.pc = "final", !.ended = how]

RetriesLeft_OneLess == run.attempt + 2 < MaxRetries
RetriesLeft == run.attempt + 1 < MaxRetries

\* A model is unavailable or out of quota: the next untried one starts over with the
\* same results and texts; without one the review is paused.  The last attempt
\* is not followed by another, nor by a pause.
Transient ==
    /\ At("turn") /\ ~run.ending
    /\ IF ~RetriesLeft THEN GivesUp("unavailable") /\ UNCHANGED <<depleted, checkpoint>>
       ELSE /\ depleted' = depleted \cup {run.model}
            /\ IF Untried = {}
               THEN /\ GivesUp("unavailable")
                    /\ checkpoint' = [checkpoint EXCEPT ![run.head] = "paused"]
               ELSE /\ \E m \in Untried :
                          run' = [run EXCEPT !.model = m, !.tried = @ \cup {m},
                                             !.attempt = @ + 1, !.turn = 1, !.explored = FALSE,
                                             !.prior = reply]
                    /\ UNCHANGED checkpoint
    /\ UNCHANGED <<github, session, runs>>

Fatal ==
    /\ At("turn")
    /\ GivesUp("error")
    /\ UNCHANGED <<github, checkpoint, session, depleted, runs>>

\* The review tool finds the pull request closed, records it and ends the run.
Abort ==
    /\ Admitted /\ closed
    /\ run' = [run EXCEPT !.pc = "final", !.ended = "aborted"]
    /\ UNCHANGED <<github, checkpoint, session, depleted, runs>>

-----------------------------------------------------------------------------
(* The end of a run                                                        *)

\* The session is read after a run that ended well; a run that gave up has none, and
\* its texts alone do not get past the verdict.
Payload == IF run.ended = "well" THEN analysis ELSE None

Suppressed_Ungrounded == run.code /\ ~run.investigated
Suppressed == run.reviewed \/ (run.code /\ ~run.investigated)

\* _finalize_results and _submit_deterministic_review; an exception of the submission
\* is swallowed.
FinishAudit ==
    /\ At("final") /\ run.mode = "audit"
    /\ \/ /\ ~Suppressed /\ Payload # None /\ Postable
          /\ Posted(Payload)
          /\ run' = Over([run EXCEPT !.reviewed = TRUE, !.posts = @ + 1])
          /\ checkpoint' = [checkpoint EXCEPT ![run.head] = "completed"]
       \/ run' = Over(run) /\ UNCHANGED <<reviews, checkpoint>>
    /\ UNCHANGED <<head, closed, replied, session, depleted, runs>>

\* _fresh_session_reply: the session's answer, unless it was there before the run.
FreshReply_AnyRun == IF run.ended = "well" THEN reply ELSE 0
FreshReply == IF run.ended = "well" /\ reply # run.prior THEN reply ELSE 0

\* _post_conversational_reply; the comment limiter or GitHub may refuse.
FinishTalk ==
    /\ At("final") /\ run.mode = "talk"
    /\ \/ UNCHANGED replied
       \/ FreshReply # 0 /\ replied' = FreshReply
       \/ FreshReply = 0 /\ run.text /\ replied' = runs
    /\ run' = Over(run)
    /\ UNCHANGED <<head, closed, reviews, checkpoint, session, depleted, runs>>

-----------------------------------------------------------------------------
(* Everything else                                                         *)

Push ==
    /\ head < MaxHead
    /\ head' = head + 1
    /\ UNCHANGED <<closed, reviews, replied, checkpoint, session, depleted, run, runs>>

Close ==
    /\ ~closed /\ closed' = TRUE
    /\ UNCHANGED <<head, reviews, replied, checkpoint, session, depleted, run, runs>>

\* A cooldown ends.
Recover(m) ==
    /\ m \in depleted
    /\ depleted' = depleted \ {m}
    /\ UNCHANGED <<github, checkpoint, session, run, runs>>

BackoffEnds(h) ==
    /\ checkpoint[h] = "paused"
    /\ checkpoint' = [checkpoint EXCEPT ![h] = "due"]
    /\ UNCHANGED <<github, session, depleted, run, runs>>

\* Sessions of other pull requests push this one out.
Evict ==
    /\ At("done")
    /\ analysis' = None /\ reply' = 0
    /\ UNCHANGED <<github, checkpoint, depleted, run, runs>>

\* The process restarts; the run is over without a result.
Restart ==
    /\ analysis' = None /\ reply' = 0 /\ depleted' = {}
    /\ run' = Over([run EXCEPT !.reviewed = FALSE])
    /\ UNCHANGED <<github, checkpoint, runs>>

-----------------------------------------------------------------------------
Begin ==
    \E mode \in {"audit", "talk"}, explicit, code \in BOOLEAN, target \in Models :
        \E model \in Selected(target) : Start(mode, explicit, code, model)

Turn ==
    \/ \E deep \in BOOLEAN : Investigate(deep)
    \/ RejectReview \/ PostReview \/ RefuseReview \/ BreakReview
    \/ Answer \/ Silence \/ Transient \/ Fatal \/ Abort

Environment ==
    \/ Push \/ Close \/ Evict \/ Restart
    \/ \E m \in Models : Recover(m)
    \/ \E h \in Heads : BackoffEnds(h)

RunNext == Begin \/ Turn \/ FinishAudit \/ FinishTalk \/ Environment

RunSpec == RunInit /\ [][RunNext]_vars

-----------------------------------------------------------------------------
(* Properties                                                              *)

\* "A single agent run must never select a model that already failed"
\* (tests/unit/test_agent_core.py:266), although cooldowns end during the run and the chain
\* falls back to its depleted models when it has no other.
NoModelRecycled ==
    [][At("turn") /\ run'.attempt > run.attempt => run'.model \notin run.tried]_vars

\* "Rate-limited checkpoints are marked only when all retry attempts and dynamic model
\* fallback chains are completely exhausted" (docs/CHECKPOINT_RESUME.md:50): the run tried
\* every model of the chain, unless a tried one has recovered; then it may have left
\* out those that still cool down from other runs.
PausedOnlyWhenExhausted ==
    [][\A h \in Heads : (checkpoint[h] # "paused" /\ checkpoint'[h] = "paused")
           => \/ Chain \subseteq run.tried
              \/ /\ Chain \subseteq run.tried \cup depleted'
                 /\ \E m \in Chain \cap run.tried : m \notin depleted']_vars

\* And whenever: a run that ends on a model that is unavailable leaves its commit to the
\* resume sweep; it never runs out of attempts before it runs out of models.
UnavailableIsPaused ==
    [][(At("turn") /\ run'.ended = "unavailable") => checkpoint'[run.head] = "paused"]_vars

\* A run that was given up, after any number of turns, models and texts, posts nothing
\* at its end, although the session still holds an analysis.
NoReviewFromFailedRun ==
    [][(At("final") /\ reviews' # reviews) => run.ended = "well"]_vars

\* A run posts a second review only when an explicit request is forced past the
\* suppression of duplicates, and then only in the model answer that posted the first
\* (github_tools.py:962 ends the invocation, not the answer) or after the tool's
\* submission failed once it had posted; never in a later turn, on another model or
\* at the end.
OneReviewPerAnswer ==
    [][(run.posts >= 1 /\ run'.posts > run.posts)
          => run.explicit /\ (run.ending \/ run.broken)]_vars

\* When a run reports a successful review its commit has one, or is no longer the
\* head, or waits for the sweep, unless the tool reported its own failure as text.
ReportedReviewExists ==
    (At("done") /\ run.reviewed /\ ~run.broken)
    => \/ \E r \in reviews : r.commit = run.head
       \/ head # run.head
       \/ checkpoint[run.head] \in {"paused", "due"}

\* A checkpoint is only completed once GitHub has the review.
CompletedMeansReviewed ==
    \A h \in Heads : checkpoint[h] = "completed" => \E r \in reviews : r.commit = h

\* A posted reply is the answer of the run that posts it: "a reply written by an earlier
\* webhook would otherwise be reposted" (core/execution.py:461).
ReplyIsFresh == [][replied' # replied => replied' = runs]_vars

\* The same of reviews: the text of a review is about the commit it stands on.
ReviewIsAboutItsCommit == \A r \in reviews : r.about = r.commit
=============================================================================
