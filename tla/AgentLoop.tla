------------------------------- MODULE AgentLoop -------------------------------
(***************************************************************************)
(* What the agent may do in answer to a delivery: the policy of the event  *)
(* (core/policy.py, review/writeback_policy.py), and the callbacks and     *)
(* plugins that ADK calls around every step of an invocation               *)
(* (core/callbacks.py, core/guardrails.py), with the turns the driver      *)
(* (core/execution.py) asks for.  The deliveries of one pull request reuse *)
(* the sessions of its two apps.                                           *)
(***************************************************************************)
EXTENDS Naturals, Sequences, FiniteSets

CONSTANTS
    Events,           \* events delivered: [kind, sender, pr, command, aimed]
    Requests,         \* tool calls a model may ask for: [tool, args]
    MaxTurns,         \* max_turns, 10
    TalkTurns,        \* 7
    AuditCalls,       \* max_tool_calls, 25
    TriageCalls,      \* 8
    TalkCalls,        \* 10
    FailureThreshold, \* 3
    NoProgressWindow, \* 4
    MaxModelCalls,    \* max_llm_calls of an invocation, 15
    MaxInvocations,   \* max_investigation_turns, 3
    MaxBatch,         \* bound of the calls in one answer
    MaxDeliveries     \* bound of the deliveries

ASSUME AgentAssumption ==
    /\ MaxTurns \in Nat /\ TalkTurns \in Nat
    /\ AuditCalls \in Nat /\ TriageCalls \in Nat /\ TalkCalls \in Nat
    /\ FailureThreshold \in Nat \ {0} /\ NoProgressWindow \in Nat \ {0}
    /\ MaxModelCalls \in Nat /\ MaxInvocations \in Nat \ {0}
    /\ MaxBatch \in Nat \ {0} /\ MaxDeliveries \in Nat

VARIABLES
    closed,     \* pr_closed_registry has the pull request
    event,      \* the delivery in hand
    session,    \* session[app]: the state of the last delivery, and tools_executed
    loop,       \* the invocation in hand
    deliveries

agentVars == <<closed, event, session, loop, deliveries>>

Apps == {"audit", "talk"}
Investigative == {"read_file", "search_files"}
Reconnaissance == Investigative \cup {"list_dir"}

-----------------------------------------------------------------------------
(* resolve_event_policy                                                    *)

\* _is_bot_event, whatever signal tells it.
OwnEvent(e) == e.sender \in {"own", "suppressed"}

Formal(e) == e.pr /\ (e.kind = "lifecycle" \/ e.command)
Unprompted(e) == e.sender \in {"bot", "partner"} /\ ~(e.sender = "partner" /\ e.kind = "issues")

ModeOf(e) ==
    CASE OwnEvent(e) \/ e.aimed -> "ignore"
      [] OTHER ->
           IF Formal(e) THEN "audit"
           ELSE IF Unprompted(e) THEN "ignore"
           ELSE IF e.kind = "inline" THEN "collab"
           ELSE IF e.kind = "issues" THEN "triage"
           ELSE IF e.kind = "comment" THEN "pair"
           ELSE "ignore"

MayCreateIssue(e) == ModeOf(e) \in {"triage", "pair"}

\* evaluate_writeback_policy, with mutations allowed and no dry run.
Admits(e) == ~closed /\ ~OwnEvent(e)

App(e) == IF ModeOf(e) = "audit" THEN "audit" ELSE "talk"
S == session[App(event)]

-----------------------------------------------------------------------------
(* An invocation.  guardrail_run is the part from turns to failures.       *)

Tools == {c.tool : c \in Requests}

\* results of the delivery: looked, reviewed, rejected (the last one is a failed review).
\* left: calls of the model's answer still to come.  ending: end_invocation.  ran, seen:
\* the tool that just ran, and whether an investigative one ran in the invocation (history).
NewLoop == [pc |-> "agent", inv |-> 1, models |-> 0, left |-> 0,
            turns |-> 0, calls |-> 0, halt |-> "no", last |-> <<>>,
            failures |-> [t \in Tools |-> 0],
            looked |-> FALSE, reviewed |-> FALSE, rejected |-> FALSE,
            ending |-> FALSE, ran |-> "none", seen |-> FALSE]
Idle == [NewLoop EXCEPT !.pc = "idle"]

\* A halt stays; what was counted until then is not needed any more.
Forget(l) == IF l.halt = "no" THEN l
             ELSE [l EXCEPT !.turns = 0, !.calls = 0, !.last = <<>>, !.failures = NewLoop.failures]

AgentInit ==
    /\ closed = FALSE
    /\ event \in Events
    /\ session = [a \in Apps |-> [mode |-> "none", code |-> FALSE, issues |-> FALSE, executed |-> {}]]
    /\ loop = Idle
    /\ deliveries = 0

\* deterministic_state, written to the session before the run.
Scoped_OnCreation(e, code, s) ==
    IF s.mode # "none" THEN s
    ELSE [s EXCEPT !.mode = ModeOf(e), !.code = code, !.issues = MayCreateIssue(e)]
Scoped(e, code, s) == [s EXCEPT !.mode = ModeOf(e), !.code = code, !.issues = MayCreateIssue(e)]

Deliver(e, code) ==
    /\ loop.pc = "idle"
    /\ deliveries < MaxDeliveries
    /\ code => ModeOf(e) = "audit"
    /\ deliveries' = deliveries + 1
    /\ event' = e
    /\ IF ~Admits(e) \/ ModeOf(e) = "ignore" THEN UNCHANGED <<session, loop>>
       ELSE /\ session' = [session EXCEPT ![App(e)] = Scoped(e, code, @)]
            /\ loop' = NewLoop
    /\ UNCHANGED closed

\* before_agent_callback.
BeforeAgent_KeepsTools(s) == s
BeforeAgent(s) == [s EXCEPT !.executed = {}]

BeginAgent ==
    /\ loop.pc = "agent"
    /\ IF closed THEN loop' = Idle /\ UNCHANGED session
       ELSE /\ session' = [session EXCEPT ![App(event)] = BeforeAgent(@)]
            /\ loop' = [NewLoop EXCEPT !.pc = "model", !.inv = loop.inv,
                                       !.looked = loop.looked, !.reviewed = loop.reviewed,
                                       !.rejected = loop.rejected]
    /\ UNCHANGED <<closed, event, deliveries>>

\* _execute_adk_runner: another invocation for an audit of code that looked at
\* nothing, or whose review was refused last.
Ended(l) ==
    IF S.code /\ (~l.looked \/ l.rejected) /\ ~l.reviewed /\ l.inv < MaxInvocations
    THEN [l EXCEPT !.pc = "agent", !.inv = @ + 1] ELSE [Idle EXCEPT !.ran = l.ran]

-----------------------------------------------------------------------------
(* A model call                                                            *)

TurnLimit == IF S.mode = "audit" THEN MaxTurns
             ELSE IF TalkTurns < MaxTurns THEN TalkTurns ELSE MaxTurns

\* IterationBudgetPlugin.before_model_callback.
BeforeModel(l) ==
    [l EXCEPT !.turns = IF @ <= TurnLimit THEN @ + 1 ELSE @,
              !.halt = IF l.turns + 1 > TurnLimit /\ @ = "no" THEN "turn_budget" ELSE @]

\* ADK counts the call after the callbacks; past the limit the run is over.
MayCallModel_Always(l) == TRUE
MayCallModel(l) == l.models < MaxModelCalls

\* The model fails, gives its final answer, or asks for tools.  A halted run is offered
\* none; those it asks for nevertheless are refused.
CallModel ==
    /\ loop.pc = "model"
    /\ LET l == [BeforeModel(loop) EXCEPT !.ran = "none", !.models = IF @ < MaxModelCalls THEN @ + 1 ELSE @]
       IN IF closed \/ ~MayCallModel(loop) THEN loop' = Idle
          ELSE \/ loop' = Idle
               \/ loop' = Ended(l)
               \/ \E n \in 1..MaxBatch : loop' = [Forget(l) EXCEPT !.pc = "tools", !.left = n]
    /\ UNCHANGED <<closed, event, session, deliveries>>

-----------------------------------------------------------------------------
(* A tool call                                                             *)

CallLimit ==
    LET least(n) == IF n < AuditCalls THEN n ELSE AuditCalls
    IN CASE S.mode = "triage" -> least(TriageCalls)
         [] S.mode \in {"pair", "collab"} -> least(TalkCalls)
         [] OTHER -> AuditCalls

\* IterationBudgetPlugin.before_tool_callback.
Budgeted(l) ==
    [l EXCEPT !.calls = IF @ <= CallLimit THEN @ + 1 ELSE @,
              !.halt = IF l.calls >= CallLimit THEN "tool_budget" ELSE @]

\* GuardrailsPlugin.before_tool_callback: the last calls, with their arguments.
LastOf(s) == IF Len(s) > NoProgressWindow THEN Tail(s) ELSE s
Stuck(s) == Len(s) = NoProgressWindow /\ \A i \in 1..Len(s) : s[i] = s[1]
Watched(l, c) ==
    LET s == LastOf(Append(l.last, c))
    IN [l EXCEPT !.last = s, !.halt = IF Stuck(s) THEN "no_progress" ELSE @]

\* The first plugin that objects answers for the tool.
Checked_HaltForgotten(l, c) ==
    LET b == Budgeted(l)
        w == Watched(b, c)
    IN IF l.calls >= CallLimit THEN [l |-> b, refused |-> TRUE]
       ELSE [l |-> w, refused |-> Stuck(w.last)]
Checked(l, c) ==
    LET b == Budgeted(l)
        w == Watched(b, c)
    IN IF b.halt # "no" THEN [l |-> b, refused |-> TRUE]
       ELSE [l |-> w, refused |-> w.halt # "no"]

\* before_tool_callback: the gates of the mode and of the investigation.
Gate(c) ==
    /\ c.tool = "review" => S.mode = "audit" /\ (S.code => S.executed \cap Investigative # {})
    /\ c.tool = "resolve_review_thread" => S.mode = "collab"
    /\ c.tool = "create_issue" => S.issues

\* GuardrailsPlugin.after_tool_callback, also for an answer given by a callback.
After(l, c, ok) ==
    LET n == IF ok THEN 0 ELSE l.failures[c.tool] + 1
    IN [l EXCEPT !.failures[c.tool] = IF n > FailureThreshold THEN FailureThreshold ELSE n,
                 !.halt = IF n >= FailureThreshold THEN "repeated_failure" ELSE @]

\* The result of a call, as the driver records it.
Recorded(l, c, ok) ==
    [l EXCEPT !.looked = @ \/ c.tool \in Reconnaissance,
              !.reviewed = @ \/ (c.tool = "review" /\ ok),
              !.rejected = c.tool = "review" /\ ~ok]

\* The calls of an answer come one after the other; then the model is asked again,
\* unless one of them ended the invocation.
Onward(k) ==
    LET l == [Forget(k) EXCEPT !.left = @ - 1]
    IN IF l.left # 0 THEN l
       ELSE IF l.ending THEN Ended(l)
       ELSE [l EXCEPT !.pc = "model"]

Answered(l, c, ok) == Onward(Recorded(After(l, c, ok), c, ok))

\* Refused by a plugin, by a gate or by the validation of the arguments.
RefuseCall(c) ==
    /\ loop.pc = "tools"
    /\ loop' = IF closed THEN Idle
               ELSE [Answered(Checked(loop, c).l, c, FALSE) EXCEPT !.ran = "none"]
    /\ UNCHANGED <<closed, event, session, deliveries>>

Ran(l, c) == [l EXCEPT !.ran = c.tool, !.seen = @ \/ c.tool \in Investigative]

\* The call returns, or raises what on_tool_error_callback makes an answer.  A review
\* that is posted ends the invocation, once the answer's other calls have run.
RunCall(c) ==
    LET k == Checked(loop, c)
        l == Ran(k.l, c)
    IN /\ loop.pc = "tools" /\ ~closed
       /\ ~k.refused /\ Gate(c)
       /\ session' = [session EXCEPT ![App(event)].executed = @ \cup {c.tool}]
       /\ \/ \E ok \in BOOLEAN : loop' = Answered(l, c, ok)
          \/ c.tool = "review" /\ loop' = Answered([l EXCEPT !.ending = TRUE], c, TRUE)
       /\ UNCHANGED <<closed, event, deliveries>>

\* _check_pr_closed_short_circuit.
Closes ==
    /\ ~closed
    /\ closed' = TRUE
    /\ UNCHANGED <<event, session, loop, deliveries>>

AgentStep == BeginAgent \/ CallModel \/ \E c \in Requests : RefuseCall(c) \/ RunCall(c)

AgentNext ==
    \/ \E e \in Events, code \in BOOLEAN : Deliver(e, code)
    \/ AgentStep
    \/ Closes

AgentSpec == AgentInit /\ [][AgentNext]_agentVars /\ WF_agentVars(AgentStep)

-----------------------------------------------------------------------------
(* Properties                                                              *)

\* The tool that runs in a step.
Running == IF loop' # loop THEN loop'.ran ELSE "none"

\* A tool runs only with the permission of the delivery in hand, although the session
\* has the state of other deliveries of the pull request (callbacks.py:106).
PermissionOfTheDelivery ==
    [][/\ Running = "create_issue" => MayCreateIssue(event)
       /\ Running = "review" => ModeOf(event) = "audit"]_agentVars

\* In an audit of code the review tool runs only after an investigative tool was let
\* through in the same invocation, whatever earlier ones did (callbacks.py:617-630).
ReviewAfterLooking == [][Running = "review" /\ S.code => loop.seen]_agentVars

\* A run that was halted, by a budget, a loop or repeated failures, runs no other
\* tool, also none of the calls that the same answer asked for.
HaltIsFinal == [][Running # "none" => loop.halt = "no"]_agentVars

\* A delivery comes to its end, however the model goes on asking for tools after
\* the halt.
DeliveryEnds == (loop.pc # "idle") ~> (loop.pc = "idle")
=============================================================================
