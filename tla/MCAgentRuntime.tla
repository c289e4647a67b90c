---------------------------- MODULE MCAgentRuntime ----------------------------
(* The loop of the agent, what the model is shown of the conversation and      *)
(* where the sessions are kept.  They share no state as modelled: subject is   *)
(* the one that a behaviour is about, the others stay as they are.             *)
EXTENDS AgentLoop, ContextPruning, SessionStore

VARIABLE subject

vars == <<subject, agentVars, contextVars, storeVars>>

Ev(kind, sender, pr, command) ==
    [kind |-> kind, sender |-> sender, pr |-> pr, command |-> command, aimed |-> FALSE]
MCEvents ==
    {Ev("comment", "bot", TRUE, TRUE), Ev("comment", "own", TRUE, TRUE),
     Ev("inline", "person", TRUE, FALSE), Ev("issues", "partner", FALSE, FALSE)}

MCRequests ==
    {[tool |-> t, args |-> 1] : t \in {"read_file", "list_dir", "review", "create_issue"}}

MCSessions == [app : {"audit", "talk"}, user : {"u1", "u2"}]

QuietEvent == event = Ev("comment", "own", TRUE, TRUE)
QuietStore == held = [app |-> "audit", user |-> "u1"]

MCInit ==
    /\ subject \in {"agent", "context", "store"}
    /\ AgentInit /\ ContextInit /\ StoreInit
    /\ subject # "agent" => QuietEvent
    /\ subject # "store" => QuietStore

NotAgent == UNCHANGED <<subject, contextVars, storeVars>>
NotContext == UNCHANGED <<subject, agentVars, storeVars>>
NotStore == UNCHANGED <<subject, agentVars, contextVars>>

MCNext ==
    \/ subject = "agent" /\ AgentNext /\ NotAgent
    \/ subject = "context" /\ ContextNext /\ NotContext
    \/ subject = "store" /\ StoreNext /\ NotStore

\* The fairness of AgentSpec.
MCSpec == MCInit /\ [][MCNext]_vars /\ WF_vars(subject = "agent" /\ AgentStep /\ NotAgent)
=============================================================================
