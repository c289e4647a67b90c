# A verification project for hannibal-hub-agents

TLA+ models of the webhook worker in `src/src/webhook_agent`: what it may never do to a
pull request, and what it must do in the end. Every definition that models code names its
lines in `PROJECT.json` ("map"). Paths below are relative to `src/src/webhook_agent` unless
they start with `docs/`, `router/` or `tests/`.

## The system

GitHub webhooks reach `router/main.py`, which puts them on a Pub/Sub subscription. One
process (`worker.py`) pulls one message at a time and hands it to
`WebhookProcessor.process_event`:

* **Tier 0** (`events/event_filter.py`) drops duplicates, bots and events nobody reads;
* **Tier 1** (`events/tier1_router.py`) answers without a model: it evaluates CI, drops
  stale and closed pull requests, and takes the *reconciliation claim* of the head;
* **Tier 2** (`processor.py`) fetches the files and runs the agent
  (`core/agent_definition.py`, `core/execution.py`), which ends in a formal review, posted by
  the `review` tool or by `_submit_deterministic_review`; both call `_submit_formal_review`
  (`review/review_enforcer.py`), which guards the post with a *review claim*.

A review whose models are all out of quota leaves a *checkpoint* (`state/review_checkpoint.py`)
and the worker's periodic sweep feeds it to `process_event` again. Production runs one worker
on a VM that systemd restarts; the registries are written for several.

| Component | State | Operations | Hard behaviour | What makes it correct |
|---|---|---|---|---|
| Review claims (`state/review_idempotency.py`) | Firestore document per head, fallback dict per worker | claim, mark_submitted, release | leases that end under their holder, loss of Firestore in the middle, restarts | one holder of a running claim; only its holder ends it |
| Submission (`review/review_enforcer.py`) | reviews on GitHub, the claim | list, claim, render, post with retries, record, dismiss | list and post are minutes apart, lost answers, two workers | no second review nobody asked for; no claim left behind; old objections dismissed |
| Checkpoints (`state/review_checkpoint.py`) | Firestore document, copy in memory | get, list, save, mark_rate_limited, mark_completed | each call is two or three calls to Firestore, each of which may fail and fall back | a settled status is never downgraded; the backoff is respected; a pause is not lost |
| Worker (`worker.py`) | the message in hand, its attempts | pull, retry, ack, dead letter, sweep | at-least-once delivery, crashes, retries in process | every deferred or paused audit is taken up again |
| Processor and tiers (`processor.py`, `events/`) | ids of processed deliveries, reconciliation claims, closed pull requests | filter, evaluate CI, claim, dispatch, release | messages of several commits in any order | no review before CI is green; one audit per head; the last head is reviewed |
| CI gate (`review/ci_gate.py`) | none ("stateless on purpose") | evaluate_ci | reads CI in several calls while it changes | ditto |
| Audit run (`core/execution.py`) | session, results, the checkpoint, models tried | snapshot guard, checkpoint gate, retry loop, investigation turns, submission | a failure at any turn, a session that outlives the run | a review is about the files the model was shown |
| Depleted models (`models/depleted_registry.py`) | a record per tier and model, per worker and in Firestore; the caches of the tier | mark depleted, is depleted, resolve the tier | records copied between processes, caches, a tier that changes between two calls | no depletion nobody recorded; a recorded one is seen; a daily one lasts |
| Quota of a model (`models/rate_limiter.py`, `RPMWaiter`) | slots and tokens reserved, in the order of reservation | wait and reserve, book the tokens of an answer | slots reserved ahead of time, answers in another order or never | the quota of every window is kept; tokens are booked on their own call |
| Circuit breaker (`state/circuit_breaker.py`) | state, failures in a window and in a row | admit, record a success or a failure | callers admitted before the state changed | it stays open for its timeout; a caller sends at most one more attempt |
| Verdict (`review/review_enforcer.py`, `normalizer.py`, `formatter.py`, `metadata.py`, `critic.py`, `grounding/resolutions.py`) | the reviews posted so far, with their metadata | extract, normalize, filter, floor, decide, render, read back | ten stages that each may change the verdict, over text of any quality, and a round that reads back what the last one wrote | what must block is never approved; findings outlive the round |
| Comments of a review (`review/comment_poster.py`, `duplicate_detector.py`, `review_budget.py`, `tools/diff_tools.py`, `analysis/diff_filter.py`) | the bot's comments on GitHub | filter the diff, count the allowance, anchor, drop repetitions, post | code that moves between rounds, comments attributed to other lines and heads | a lifetime cap; nothing said again in similar words; no comment on code that disagrees with what it quotes |
| Agent loop (`core/callbacks.py`, `guardrails.py`, `policy.py`, `writeback_policy.py`) | the state of a session, the budgets of an invocation | the callbacks around the agent, a model call, a tool call | a session that serves several deliveries; a model that goes on after it was stopped | permissions of the delivery in hand; no review without a look; a halt is final |
| Context of a call (`core/plugins.py`) | the contents of a conversation | cut by count, empty old outputs | cuts in the middle of a call and its output | no orphaned output; recent outputs kept |
| Sessions (`core/session_service.py`) | sessions, the order of use, the state of users | get, create, evict, append | the memory is full while a run holds a session | the held session stays; memory is bounded |
| The other grounding checks, static analyses, search tools, checkouts | none across calls | transformations of text and checkouts | none that interleaves | functional; reached better by tests |
| Router (`router/main.py`) | none | verify, filter, publish | publish failures | nothing it accepted is lost |

## Modules

| Module | Models | Composition |
|---|---|---|
| `ReviewClaims` | `ReviewClaimRegistry`, any number of workers and heads | |
| `ReviewSubmission` | `_submit_formal_review` | EXTENDS `ReviewClaims`: its steps call the registry's operations |
| `CheckpointLifecycle` | what `docs/CHECKPOINT_RESUME.md` promises of a checkpoint's status | abstract |
| `ReviewCheckpoint` | `ReviewCheckpointManager` and the audits that call it, one commit | implements `CheckpointLifecycle` with `status <- remote.status` |
| `WorkerQueue` | the loop of `worker.py` over several messages and several paused reviews | what handling one of them does is `AuditDispatch`'s subject |
| `AuditDispatch` | worker loop, tiers, CI gate, registries, one audit from webhook to review, one pull request | the checkpoint at the grain of its status |
| `AuditRun` | `execute_agent_event`: gate, chain of models, turns, both ways of posting, the session | the submission, the checkpoint and the depletion registry at the grain the run sees |
| `AgentLoop` | one invocation of the agent, call by call, and what the session hands from delivery to delivery | a turn of `AuditRun` taken apart |
| `ContextPruning` | the plugins that cut the contents of a model call | |
| `SessionStore` | `BoundedSessionService` | |
| `ModelQuota` | `RPMWaiter` of one model | |
| `CircuitBreaker` | `CircuitBreaker` and its callers | |
| `DepletedModels` | `DepletedModelRegistry` and `_resolve_tier` | |
| `ReviewVerdict` | `_enforce_verdict` and what the next round reads back | what `ReviewSubmission` posts |
| `ReviewComments` | the inline comments of a pull request | what `ReviewSubmission` posts with it |
| `*Proofs` | theorems: `ReviewSubmissionProofs` (`ReviewClaims`, `ReviewSubmission`), `AuditDispatchProofs`, `AuditRunProofs`, `PausedReviewsProofs` (`ReviewCheckpoint`, `WorkerQueue`), `ModelServicesProofs` (`CircuitBreaker`, `DepletedModels`, `ModelQuota`), `ReviewPipelineProofs` (`ReviewVerdict`, `ReviewComments`), `AgentRuntimeProofs` (`AgentLoop`, `ContextPruning`, `SessionStore`) | EXTEND what they are about |
| `NumberFacts` | lemmas on sets of numbers and finite orders | extended by the proofs |
| `MC*` | the instances TLC checks | several components in one run, see below |

Four MC modules check independent components in one run: `MCPausedReviews` (`ReviewCheckpoint`,
`WorkerQueue`), `MCServices` (`ModelQuota`, `CircuitBreaker`, `DepletedModels`, and `ReviewSubmission` with one
worker), `MCPullRequest` (`AuditDispatch`, `ReviewVerdict`, `ReviewComments`; it extends `MCAuditDispatch` and `MCReviewPipeline`, whose
specifications the runs of one of them use), `MCAgentRuntime` (`AgentLoop`,
`ContextPruning`, `SessionStore`). Their variable `subject` or `part` picks the component a behaviour is about
when it begins; the others stay at one fixed initial value. This is the disjoint union of the
components' behaviours: nothing is composed that the code does not compose, and every behaviour of
each instance is there.

### ReviewClaims

`durable[h]` is the Firestore document of head `h`, `local[w][h]` an entry of
`_local_claims`, `mode[w]` whether worker `w` uses its client, never had one, or lost it in a
failed transaction (`self._db = None`). Tokens (uuid4 in the code) are numbered in the order of
issue. A transaction is one action: Firestore serialises them. `held` holds the claims handed
out to submissions that run. `Crash` empties what the process keeps. Time is a tick; a lease is
`LeaseTicks` ticks. `mark_submitted` and `release` may raise; `claim` falls back.

### ReviewSubmission

One session per worker walks the function: `Fetch` (the head the review is for), `List`
(`get_reviews`, the stale and duplicate checks under the process lock), `ClaimStep`,
`Render`/`RejectPayload`/`EnforceRaises`, `Create` and its retries (422 on inline comments,
a rejection, an answer that is lost), `Mark`, `Dismiss`. `faults` records which kinds of
trouble the behaviour has met, so that a property can name the ones it does not survive;
`AllowedFaults` limits them per run. The text of the review is abstracted to the state it ends
in.

### ReviewCheckpoint

`remote` is the document and `cache[w]` the copy in a worker's memory; `configured` says whether
the deployment has Firestore. `save_checkpoint` is `Save` within `Gate` (memory), `ReadStatus`,
`SetDocument`; `mark_rate_limited` and `mark_completed` are two steps each. `FailingCalls` names
the calls to Firestore that may fail in a run, and the ghost `failed` those that did, so that a
property can say up to which failure it holds. A field that a merge does not write keeps its
value. `Delete` is Firestore's own expiry.

### AuditDispatch

`sent`/`queue` are the webhooks and what Pub/Sub still has; `job` is the event in hand with its
program counter; `processed`, `claimed`, `closedMark` and `swept` are the worker's memory,
`checkpoint[h]` the status in Firestore, `ci[h][s]` the state of each CI signal, `open`, `head`
and `reviews` the pull request. Two "signals" differ: a check run (whose suite sends
`check_suite.completed`) and `"status"`, the combined commit status (whose event is filtered
out). Every read of GitHub is a step of its own; the author, CI, Pub/Sub and crashes act between
any two. `BaseMerges` are the heads whose synchronize event is a merge of the base branch, which is
skipped (`is_base_branch_merge_sync`), also when the event is nested in one of CI; a resumed event carries no base and is never
taken for one. `happened` records faults and authors' actions, as `faults` does above. Ghosts used by
properties only: `green`, `audited`.

Modelled only as far as `AuditDispatch` needs them: the agent's run (it ends with an answer,
without one, with an error or out of quota) and the review's submission (its guards on the head
and on earlier reviews; the claim is `ReviewSubmission`'s subject).

### AuditRun

`run` is the run in hand (or the last): its mode, the locals of `execute_agent_event` (`tried` is
`_attempted_model_names`; `investigated`, `reviewed` and `rejected` are what the loop reads off
`results`) and where it stands: in a `turn` of the model, at its `final` steps, or `done`. One
action per event of the agent's stream: a tool that investigates, the `review` tool in its four
outcomes (rejected, posted, refused, broken), the final answer, silence, and the errors
(`Transient`, `Fatal`, `Abort`). A posted review sets `end_invocation` (`ending`), which ADK looks at before the next
step: the other calls of the same answer of the model still run, a second `review` among them. What outlives a run is a variable of its own: `analysis` and
`reply` (the session's `output_key` values, as the commit or the run they came from),
`depleted`, `checkpoint[h]`. The text of an answer is the commit it is about. `posts` and
`broken` are history.

Abstracted: the order of the chain (any untried model may be next), which prompt rules out
Gemma (a model outside `Chain` may start a run), how long cooldowns last, the steps inside a
submission, and whether an event is dispatched at all (`AuditDispatch`). Runs follow one
another, as in the one worker.

### WorkerQueue

`sub`, `unsent`, `dead` are the subscription and the dead-letter topic; `ids` is
`_processed_deliveries`; `review[r]` the status of a paused review in Firestore and `mine` those of
which the process has a copy of its own; `pc`, `hand`, `attempt`, `list` are the locals of `main`.
A sweep takes the list of the reviews that are due and hands them to the processor one after the
other; the first that raises ends the sweep. A message is tried `MaxAttempts` times, then
published to the dead-letter topic, which may fail. A handling that returns a failed result forgets its id as
one that raises does. A resumed review ends settled, paused again (under the new id `save_checkpoint` gives it), unchanged, or it raises.
`done` and `reached` are ghosts.

### AgentLoop, ContextPruning, SessionStore

`event` is the delivery in hand, `session[app]` what the sessions of the pull request keep of the
last one, `loop` the invocation: turns, calls, failures in a row, signatures of the last calls, the
halt, and whether a posted review has asked for the end (`ending`; the batch in hand is still run). The model may ask for any batch of tool calls at any time, also after a halt. The callbacks
run in the order ADK calls them: plugins first, then the agent's own. `contents` is a conversation
as a sequence of roles and sizes. `stored`, `lru` and `users` are the fields of the service.

### ModelQuota, CircuitBreaker, DepletedModels

Time is a tick. A call to the model asks for a slot (`CheckAndWait`), which is reserved at the time
its wait ends, goes out then, and is answered later, twice, in any order or never. Each caller of
the breaker is admitted once and retries on its own. A worker has its `table` of depletions, its
caches of the metadata server and of `system_config/runtime`; the two may change at any time.
`marks` and `verdict` remember what was recorded and what was answered.

### ReviewVerdict, ReviewComments

A finding is a member of `Items`; what its text is like, as far as the pipeline looks, is its trait
(void, costly, a nit, tagged, an echo, sound). A text is a sequence of JSON blocks of a quality
(an object, a list, repaired, garbled) and what is written around them. One action, `SubmitVerdict`,
is the whole of `_enforce_verdict` and of the posting (`Unparseable` a text without an object): `Chosen`, `Normalized`, `CriticKeeps`, the floor,
`NormResolutions`, the verdict, `Rendered`, the stamp. `last` keeps what went in and what came out.
A diff is a sequence of files with noise, bytes, added lines and the text of the lines shown. A finding of the second
module has a file, a line, perhaps a first line of its range, the rows of code it quotes (`window`), a description (`says`, and its `words`), a fix
(`code`, its `codeWords`, whether it is `valid`). `Anchor` is `_anchor_line` with `find_window_offset`: every quoted row that falls on a
shown line must agree with it, at the offsets 0, 1, -1, 2, ...; two texts agree when they are equal once
normalised or when one begins the other and is at least six characters long (`Begins`, a set of pairs: the model does not
spell texts out). The words of a comment are those the code compares: description, group note where it stays,
fix and the name of its fence; `Similar` is the ratio of common words to all, at 55 % for comments of earlier reviews and at 60 % for
the grouping within one. Fixes that repeat the diff (`Echoes`), a remark that has nothing but such a fix, and minor findings
that `Reported` drops for it are left out.
Between rounds code moves, files come and go.

## Runs

Passing runs:

| Run | Instance | Shows |
|---|---|---|
| `MCReviewSubmission` | 2 workers, 1 head, 3 sessions | `SingleDurableHolder`, `LiveClaimEndedByHolderOnly`, `NoUnforcedDuplicate`, `NoOrphanClaim` |
| `MCPausedReviews` | 1 worker with or without Firestore, each of its four calls failing at any time, backoff 1, lifetime 2; 2 messages, 2 paused reviews of which the second always raises, 2 attempts, 2 troubles | `ImplementsLifecycle` (refinement), `BackoffRespected`, `NoMessageLost`, `EveryMessageSettled` and `SweepReachesAll` (liveness) |
| `MCAuditDispatch` | 2 heads, of which the second merges the base branch, 3 messages, 3 faults of any kind in one behaviour, CI rerun, close, reopen | `ReviewedOnlyAfterGreen`, `ReviewMatchesFiles`, `NoSecondAudit`, `ClaimEarned` |
| `MCPullRequest` | events: 2 heads, 4 messages, one crash, duplicate delivery or exhausted quota, a CI rerun; verdicts: 2 rounds, 2 findings, a text unusual in one way at a time, 3 kinds of history; comments: 3 reviews, 3 diffs, 6 lists of findings | `FinalHeadReviewedAfterPause` (liveness); `FailBlocks`, `CriticalBlocks`, `StandingCriticalBlocks`, `UnprovenFixBlocks`; `LifetimeCapHolds`, `NotRaisedAgain`, `CommentsFaithful` |
| `MCAuditRun` | 2 runs, 2 heads, a chain of two models and one outside it, 2 turns, 2 posts of one answer | `PausedOnlyWhenExhausted`, `UnavailableIsPaused`, `OneReviewPerAnswer`, `ReportedReviewExists`, `ReplyIsFresh` |
| `MCServices` | 4 requests against 2 slots and 4 tokens in a window of 2; 2 callers with 2 retries, threshold 3, timeout 2; 2 processes, 2 tiers, 2 marks, 4 ticks; the only worker, 2 heads, 3 sessions | `RequestsWithinQuota`, `BookedOnItsOwnCall`; `ClosedBelowThreshold`, `OneAttemptPastOpening`; `NoPhantomDepletion`, `DailyExhaustionLasts`; `SingleWorkerNoDuplicate`, `OldObjectionsCleared` |
| `MCAgentRuntime` | 2 deliveries out of 4 kinds of event, 4 tools, 3 model calls, batches of 2; a window of 4 contents out of 9; 4 sessions, 2 of them in memory | `PermissionOfTheDelivery`, `ReviewAfterLooking`, `HaltIsFinal`, `DeliveryEnds` (liveness); `NoOrphanedOutput`; `HeldSessionStays` |

The runs leave out what a proof settles and what is plainer than the rest: the types and
`OnlineMeansNoLocalMemory`, `NoModelRecycled`, `CompletedMeansReviewed`, `NoReviewFromFailedRun`,
`NeverUpgraded`, `OpenForTheTimeout` and `MemoryBounded` are stated by theorems (see Proofs).
Every invariant and every action property of the runs is stated by a theorem as well; the liveness
properties are not.

The bounds: two heads are a head and its successor, and no code compares more than two; three
sessions let a submission overlap another and a third come after both; a lease of one or two
ticks may end at any step of a submission; three or four messages carry a push, its CI and one
more for either; a message has one retry (`MaxAttempts = 2`; the code makes three attempts, and
the second retry finds what the first left); two runs are the one that leaves something in the
session and the one that finds it; two turns are one and one more, the code's limit of three
adds another of the same; three models are one that fails, one that takes over and one from
outside the chain. Two paused reviews are one and one behind it. Four requests against two slots fill a window, wait for
the next and push one reservation behind another; the windows, timeouts
and cooldowns are one or two ticks, so that they begin and end within a behaviour. Two rounds
are the one that writes metadata and the one that reads them; three reviews of comments reach the
decay of the allowance and the lifetime cap of six. Two sessions in memory are full with one held.
The counters `MaxClock`, `MaxTime`, `MaxNow`, `LastTick`, `MaxClaims`, `MaxSessions` (of `ReviewSubmission`; in `SessionStore` it is the code's own limit), `MaxMessages`, `MaxFaults`,
`MaxRuns`, `MaxHead`, `MaxTrouble`, `MaxRequests`, `MaxFailures`, `MaxMarks`, `MaxRounds`,
`MaxReviews`, `MaxDeliveries`, `MaxContents`, `MaxPosts` (reviews of one run's answer) are bounds of the model alone. Deadlock is not checked where these bounds end every behaviour.

Runs whose violation is expected, each a disagreement between the code and a sentence beside it
(PROJECT.json "findings" quotes it):

| Run | What TLC finds |
|---|---|
| `MCAuditDispatchStatus` | a commit status that settles last wakes nobody: the review is deferred for ever |
| `MCAuditRunStale` | an audit without an answer posts the analysis the session kept of an earlier commit |
| `MCReviewPipelineStamp` | a finding whose text holds `-->` makes the metadata unreadable; the stamp replaces them and the next round does not know the findings |
| `MCReviewPipelineRange` | the last line of a range moves to where the quoted code is, the first stays (`review/comment_poster.py:280`): the change offered replaces other lines |
| `MCReviewPipelineRepeat` | a finding posted without its fix, since that was no valid code, and raised again with a good one on code that moved is posted twice: the words of the fix take the bodies below 55 % |

The passing properties name their exceptions instead of hiding them. Each was a counterexample
first:

* `NoUnforcedDuplicate` excludes a split registry (one worker lost its client in a failed
  transaction and claims from memory), a worker that outlived its lease, a post whose answer was lost, and a forced submission that failed and erased
  the record of a review;
* `ClaimEarned` excludes the failure to build the client or the agent (`processor.py:559`),
  which is outside the block that gives the reconciliation claim back;
* `ImplementsLifecycle` holds up to the first failure of the read that protects a settled
  status: after it `save_checkpoint` writes "pending" (`state/review_checkpoint.py:316`);
* `BackoffRespected` holds up to the first failed read by the gate: a pause whose write or read
  failed is known in memory only, where neither the sweep nor another process looks;
* `FinalHeadReviewedAfterPause` excludes an exhausted quota together with a CI rerun: a resumed event whose review
  ends before its run (a closed pull request, CI not green) stays remembered under its id (`state/review_checkpoint.py:454`) and is skipped as a duplicate
  until the process restarts; one that runs and pauses again gets a new id. Its run has neither close and reopen, since a
  pull request reopened within the hour is still known as closed (`core/cancellation.py:38`), nor
  an API error on the last `check_suite` event (`events/tier1_router.py:104`), which is acknowledged
  without the promised retry;
* `OneReviewPerAnswer` allows a second post to an explicit request, in the answer of the model that posted the first: a forced request
  skips the duplicate check and takes the claim of a review that was submitted (`review/review_enforcer.py:1056`), and `end_invocation` stops the next step, not
  the answer's other calls (`tools/github_tools.py:962`). It and `ReportedReviewExists` exclude a review tool whose own failure came back as
  text: "Error submitting review: ...", unlike "Error: ...", counts as success
  (`core/execution.py:162`). `ReportedReviewExists` allows a review that waits for the sweep,
  because an explicit request on a paused or completed commit is skipped as well
  (`core/execution.py:724`; `docs/slash_commands_catalog.md:20` promises a review);
* `SweepReachesAll` is about reviews with none ahead of them that always raises
  (`worker.py:297`): those behind such a one starve;
* `BookedOnItsOwnCall` is about calls that are answered once, in turn and within a window; others book
  the tokens on another call's reservation (`models/rate_limiter.py:439`);
* `ReviewedOnlyAfterGreen` is checked for check runs alone. A signal GitHub has not been told of yet is not waited for, so with a combined status as well
  it is not meant to hold; what does, for any signals, is the theorem `ReviewedAfterSomeSignal`;
* `LifetimeCapHolds` and `NotRaisedAgain` hold while GitHub's lists can be read to their end. `NotRaisedAgain` is about the
  words of comments, as the code compares them: a finding whose fix has changed may be told twice (`MCReviewPipelineRepeat`);
* `CommentsFaithful` lets a comment stand where the quoted text agrees with the diff as the code takes it: what quotes
  `return None` may land on a bare `return`. That the range of a comment moves with it is not so (`MCReviewPipelineRange`).

Met while modelling, true to the code and part of the models, without a sentence of the
repository that says otherwise:

* Worker: an acknowledgement that fails after the handling makes a dead letter of a handled
  message, and the one after a dead letter (`worker.py:388`) is unguarded: its failure ends the process.
* Verdict: findings salvaged from a bare list have no summary, so such a text is always rejected;
  candidates that survive are dropped when the object lists issues of its own; an unresolved finding without
  evidence is dropped; when the earlier reviews cannot be read the resolutions are cleared, and
  an unresolved critical finding can be approved; an explicit APPROVE with an unknown floor
  approves; the parser of old reviews misses the rows marked with a cross; the confidence and severity
  of an issue are lost before the filter that looks at them (`review/critic.py:139`).
* Quota: `RateLimitedGemini` swallows the refusal of a slot and calls the model anyway
  (`models/model_factory.py:62`); the test for a duplicate booking (`models/rate_limiter.py:446`)
  compares with the time of the slot, not with that of the booking.
* The circuit breaker is built by no production code yet, and `delete_session` is called by none.
* Runs: a tool that lists a directory counts as a look for the run (`core/execution.py:142`) and not
  for the gate of the review tool (`core/callbacks.py:622`); the window of `core/plugins.py:48`
  keeps the first content of a session, which may be of an older delivery.

## Fairness

`FairSpec` of `AuditDispatch` assumes `WF(Worker)`: the loop is sequential, every call in it
has a timeout (`pull` 30 s, the agent 600 s) and systemd restarts it, so an enabled step is
taken; and `WF(BackoffEnds(h))`: a backoff is a fixed time. Nothing is assumed of authors, CI
or failures: these may stop at any point, and `FinalHeadReviewed` says nothing about a pull
request that never comes to rest open and green.

`QueueSpec` assumes `WF(WorkerStep)` for the same reason, `SF(StartSweep)` (the sweep is due again
every 60 s at the top of the loop, with `ENABLE_REVIEW_RESUME=1`) and `SF(Pull(m))` (Pub/Sub delivers
an unacknowledged message again and again, so that it is pulled if it keeps being there). `Redeliver`, `Signal`,
failures and crashes are not fair, and the latter are bounded by `MaxTrouble`: with crashes for
ever nothing is settled.

`AgentSpec` assumes `WF(AgentStep)`: the calls of an invocation follow one another under the
agent's timeout. The other specifications are safety only.

## Proofs

Each module proves that an inductive invariant holds and draws the properties from it. One lemma
per action, or group of actions, says that it keeps the invariant. Nothing depends on the bounds of a run:
they are constants like the others. Each part of the newer invariants (`AuditDispatch`, `ReviewSubmission`, `ModelQuota`,
`DepletedModels`, `ReviewComments`, `AgentLoop`) was run through TLC before it was proved.

What is assumed beyond the ASSUMEs of the modules, which TLC evaluates in the runs:

| Theorem | Assumes | Why the code is like that, and what happens otherwise |
|---|---|---|
| `SubmissionAtMostOnce` | `DurableEnabled` | production runs with Firestore; without it two workers do not see each other's claims |
| `ObjectionsCleared` | one worker | one worker runs in production; with two, a review posted after another has listed the reviews is not dismissed |
| `CheckpointInvariant`, `CheckpointRefinesLifecycle`, `CheckpointRespectsBackoff` | one worker | as above: a second one may act between two calls |
| `OneSignalReviewedOnlyAfterGreen` | one CI signal | with several, a signal GitHub has not been told of yet is not waited for; the run checks the property for the signals it names, `ReviewedAfterSomeSignal` is what holds for any |
| `TokensBookedOnTheirCall` | no call is estimated at 0 tokens | `model_factory.py:60` takes at least 1 and `callbacks.py:172` adds 500 |

**Claims and submissions** (`ReviewSubmissionProofs`), for every set of workers and heads and every lease.
Of the registry: `ClaimsTypeCorrect`, `ClaimsMutualExclusion`, `ClaimsFallbackFindsNothing`, `ClaimsEndedByHolder`. Mutual
exclusion is not inductive: of two holders of a running claim it says nothing about the
document, and the next claim is decided by the document. `ClaimsInv` adds what ties them
together: `Registered` (a durable claim whose lease runs is the one its head's document
records), `UniqueTokens` (no two held claims have the same token, so two holders cannot both be
the one recorded) and `TokensIssued` (no held token is newer than the last one issued, so the
next is fresh). It relies on the uniqueness of uuid4 tokens and on Firestore's serialised
transactions, which the model states as such.

`SubmissionUsesRegistry` is a refinement: every step of a submission is one the registry allows its callers. It needs
`Linked` (a worker holds a claim exactly between its claim and the end of its submission, and it
is a claim of the session's head), and with it the two theorems about claims hold of the whole
(`SubmissionMutualExclusion`, `SubmissionEndsOwnClaim`). `SubmissionLeavesNoClaim`: what is in progress
in a document or a table is the claim of a submission that is under way (`Guarded`).
`SubmissionAtMostOnce`: while no fault of its list happens, a lease does not end before the submission does (`InForce`), so
that the one that is about to post has seen every review of its head when it listed them or has been refused
(`Fresh`): whoever posted in between held the claim first and has completed it. `SingleWorkerAtMostOnce` is the
same for one worker, through a loss of Firestore (`Alone`).
`ObjectionsCleared`: no review is added between a worker's listing and its post (`SeenAll`), so that what it dismisses is all
that came before, and only the last review may object (`LastObjects`).

**From event to audit** (`AuditDispatchProofs`), for any number of commits, messages, attempts and
failures: `DispatchTypeCorrect`, `ReviewedAfterSomeSignal`, `OneSignalReviewedOnlyAfterGreen`,
`EveryClaimEarned`, `EveryReviewMatchesFiles`, `NeverASecondAudit`. The properties speak of the review, the decisions were made
many calls of GitHub earlier, so `DispatchInv` says of each point in between what may still be relied on: CI was
green once past the gate (`Gate`), the files are of the commit or of a later one (`Known`), the claim
is there and no audit of the commit has ended well since (`Claims`), and what is claimed was audited or is
under way (`Earned`, up to the failures `ClaimEarned` names).

**The audit** (`AuditRunProofs`), for every chain of models, every registry of depleted ones and all bounds:
`RunTypeCorrect`, `FailoverIsFresh`, `UnavailablePauses` and `PauseNeedsExhaustion`. The loop has
a way out that pauses nothing: the last of `_MAX_RETRIES` attempts. It is never
taken, because `AttemptsAreModels` (in its turns a run has tried exactly one model for each
attempt) makes attempts and models run out together, and `RunAssumption` says there
are more retries than models. The code's longest chain is eight models (five default ones, two
Gemma, a configured primary), one more may be asked for, and it makes ten attempts; both
numbers are settings, and lowering `PRIMARY_MODEL_MAX_RETRIES` to the length of the chain
breaks the assumption.
Of what a run leaves behind: `OnePost`, `ReportsAreTrue`, `CompletedIsReviewed`,
`FailedRunIsSilent` and `ReplyIsOfItsRun`. `ResultInv` adds to the properties what makes them
last: `PostsCounted` (a review of the tool ends the turns after its answer and suppresses the one at the end),
`ReviewedTold` (a review reported in a turn is there, or its commit is behind the head, where it stays)
and `ReplyKnown` (while a run goes on, the session's reply is of this run or was there when its
attempt began; a failover makes the run's own reply look old, never an old one new).

**Paused reviews and the queue** (`PausedReviewsProofs`): `CheckpointTypeCorrect` for any number of workers and, for one
worker (`OneWorker`), any backoff, lifetime and set of failing
calls, `CheckpointRefinesLifecycle` (initial states map to initial states; every step maps to a
save, a pause, a completion, a deletion or a stutter) and `CheckpointRespectsBackoff`.
Neither is inductive: a save writes what it read one call earlier, so what it read must still
be so. `CheckpointInv` says it of each point between two calls: `PendingUnsettled` (a save about
to write "pending" has read that there is nothing to keep), `CopyNotEarlier` (a pause in memory
ends no earlier than the one in the document), `PauseBounded`, `PauseInHand` (a pause between its
copy and its document is a whole backoff), `ResumedIsDue` (a run begun from a listed checkpoint
finds no pause still running) and `StoreNeedsClient`. With a second worker `PendingUnsettled` and
`ResumedIsDue` fail: it may act between the two calls.
`MessagesAreKept`, for any messages, reviews and attempts. `QueueInv`: the
id of a message stays remembered only when its handling ended well, and the sweep remembers ids of
reviews, which by `QueueAssumption` are no ids of messages (the code puts `resume-` before the id of the delivery that was paused).

**The services in front of a model** (`ModelServicesProofs`).
The breaker, for any number of callers and retries and any thresholds: `OneAttemptEach`, `OpenLastsForTheTimeout`,
`ClosedMeansFewFailures` and `WindowNeverDecides`. `CountedWasLast`: an attempt counted while the breaker is open has ended
its call. `InRow`: the list of failures is part of the row of failures, since a success clears both; so the list
never reaches the threshold before the row does, and the window of the breaker decides nothing in the code as it stands.

The depletion of models, for any workers, errors, cooldowns and debounce: `DepletionIsReal` and `DailyExhaustionIsKept`.
`Backed`: no record in memory or in Firestore outlasts the marks of its tier. `DayKept`: the end of a daily
quota stays in Firestore until another error of the tier is recorded.

The limiter, for any limits, window and number of calls: `RequestsStayWithinQuota` and `TokensBookedOnTheirCall`.
Slots are reserved ahead and out of order, so the RPM-th from the end of the history need not be the one whose
window ends first, and counting slots says nothing that lasts. What does is `Spaced`: the slots that were granted
can be put into RPM chains with a window between any two slots of a chain. A new slot continues the chain of the slot it waited for,
when that is the last of its chain; otherwise (`FreeChain`) some chain's last slot has left the window, because the
last slots of the chains that are still in it are among the last RPM of the history and that one place is
taken by a slot that ends no chain: a pigeonhole. A window then holds at most one slot of each chain. For
the tokens, `Booked`: in turn, the entries stand in the order of their calls and an entry is open as long as its call is, so that
the oldest open one is that of the call that answers.

**Verdict and comments** (`ReviewPipelineProofs`). For every set of texts, settings and histories of their types:
`DeterministicFailBlocks`, `IntentNeverUpgraded`, `CriticalIssueBlocks`, `StandingFindingBlocks` and
`UnprovenResolutionBlocks`. The argument follows the pipeline: a sound critical issue is still there in
each stage up to the object; an object with one, or with a floor of FAIL, has the verdict that
blocks; no later stage takes it back. Between rounds the invariant says that a finding known
from before comes from a posted review. `VerdictAssumption` says what a text may be: blocks of the listed
qualities, and issues listed only by an object that lists issues.
For every diff and every list of findings: `CapOfALifetime`, `RaisedOnce`, `CommentsStandOnTheirCode`. The budget
of a round is bounded by what the lifetime leaves (`LifetimeCap` is assumed to be at least the five comments of a first
review, which is not checked against it: the code's is 25); every comment posted in the loop over the findings says
nothing an existing comment says in similar words and stands where its finding is anchored (`RoundPosts` and `CommentsPost`, by the least number of the
loop that fails). `RaisedOnce` turns this round: similarity is symmetric (`SimilarBothWays`), and what a review posts was compared with all comments
before it when these could be read. `CommentsStandOnTheirCode` rests on `AnchorIsFaithful`: the chosen offset is one of those where all telling rows agree, the snapped line is
the place of one of the rows there, and it is a line the diff adds and so shows.

**The agent** (`AgentRuntimeProofs`), for any events, tools, limits and deliveries: `AgentTypeCorrect`, `OnlyWithPermission`,
`LooksBeforeReviewing`, `NothingAfterTheHalt`. `OwnState`: the state of the session is what the delivery in hand wrote, although
the session outlives it. `Looked`: an investigative tool the session remembers ran in this invocation.
Of the contents, for any window and sizes: `OutputsKeepTheirCalls`; the cut by count never begins with an output, and the
pruning replaces contents without moving them.
Of the sessions, for any number and any limit of at least one: `HeldSessionIsKept` and
`MemoryIsBounded`. `StoreInv`: the order of use lists the stored sessions and nothing else, and only stored sessions have
a state of their user. That a touch loses nothing and that the held session is last, which is what
protects it, are lemmas about the sequences.

`NumberFacts` has what several of these rest on: least and greatest members of sets of numbers, which stand in for induction
over numbers, and the k-th member of a finite set in a total order.

Two models keep their data as sets where the code keeps lists, so that the provers can follow: the breaker's failures are [nth, at],
the limiter's slots are numbers of calls and its token entries [nth, at, tok, fin, call]. The number is
the place in the list: the code only appends to these lists and drops what has left the window, so place and order
of appending are the same thing.

Only model-checked: the liveness properties (`FinalHeadReviewedAfterPause`, `EveryMessageSettled`, `SweepReachesAll`,
`DeliveryEnds`), which need fairness and ENABLED. The five runs that end in a violation have no theorem.

## Not modelled

* The parsing of slash commands, and comments, issues, reactions and labels on their way through the tiers (`AgentLoop`
  and `AuditRun` begin where such a delivery reaches the agent).
* The limiter of conversational comments, the comment reconciliation of `_finalize_results` and the
  resolution of threads (calls to GitHub without state of their own).
* The wording of reviews, notices and prompts; the sanitiser; `loop_helpers.py`; the repair of citations,
  the fast path and the checks of `grounding/` other than `resolutions.py`: regular expressions and
  syntax trees over source text, whose errors are in their data.
* The static analyses (`symbol_graph.py`, `test_impact.py`, `security_scanner.py` and the others):
  sequential functions of a checkout; `ReviewVerdict` takes their result as an input.
* The checkouts (`environment/`), the credentials, the router and its signature check: pure I/O.
* The order within the chain of models, and the expiry of a reconciliation claim by its age.
* In `AgentLoop`: the fallbacks under "user:" keys, which nothing writes, dry runs, and arguments of tools beyond
  whether two calls are the same. In `ReviewComments`: comments of people, fences and
  empty lines within a fix, descriptions over several lines.

The lease extender of the worker is taken to work: an unacknowledged message is not delivered to
the one worker while it is in hand.

## Plan

Done: all the modules above, their runs and eight modules of proofs. What is left, in this order:

1. An abstract specification of an audit (asked for, paused, reviewed) that `AuditDispatch`
   implements, and `AuditRun` with `AuditDispatch` composed over the results they share.
2. The event policy's slash commands and the tiers for comments, so that `AgentLoop`'s deliveries come
   from `AuditDispatch`; the router as the producer.
3. Deduplication across folders and the reachability of the symbol graph against reference
   definitions, over small inputs.
4. Proofs: that `AuditDispatch` implements the abstract audit of 1; that `AuditRun` keeps to what
   `AuditDispatch` assumes of a model run; `ReviewedOnlyAfterGreen` for several signals once none is unknown at the gate.

