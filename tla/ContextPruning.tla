---------------------------- MODULE ContextPruning ----------------------------
(***************************************************************************)
(* What the plugins of core/plugins.py leave of a conversation before each *)
(* call of the model: WebhookHistoryPruningPlugin keeps a window of its    *)
(* contents, ToolOutputPruningPlugin empties old outputs of tools for good.*)
(***************************************************************************)
EXTENDS Naturals, Sequences, FiniteSets

Sets == INSTANCE FiniteSetsExt

CONSTANTS
    MaxEvents,     \* max_events, 12
    ProtectTurns,  \* protect_recent_turns, 3
    MinPart,       \* min_part_tokens
    MinReclaim,    \* min_reclaim_tokens
    Sizes,         \* tokens of an output
    MaxContents    \* bound of the conversation

ASSUME ContextAssumption ==
    /\ MaxEvents \in Nat \ {0, 1} /\ ProtectTurns \in Nat \ {0}
    /\ Sizes \subseteq Nat /\ {MinPart, MinReclaim, MaxContents} \subseteq Nat

VARIABLES
    contents,  \* the session: [role, size, pruned]
    view       \* the contents the last model call was given

contextVars == <<contents, view>>

ContextInit == contents = <<>> /\ view = <<>>

Entry(role, size) == [role |-> role, size |-> size, pruned |-> FALSE]
LastRole == IF contents = <<>> THEN "none" ELSE contents[Len(contents)].role

-----------------------------------------------------------------------------
(* WebhookHistoryPruningPlugin                                             *)

\* The first content of the window: the last MaxEvents - 1, and what comes before an
\* output that would be first, but never the very first content.
Start_AsCounted(c) == Len(c) - (MaxEvents - 1) + 1
Start(c) ==
    Sets!Max({2} \cup {i \in 3..(Len(c) - (MaxEvents - 1) + 1) : c[i].role # "tool"})

Window(c) == IF Len(c) <= MaxEvents THEN c ELSE <<c[1]>> \o SubSeq(c, Start(c), Len(c))

-----------------------------------------------------------------------------
(* ToolOutputPruningPlugin                                                 *)

\* Turns from i on: outputs of tools, and texts of the user and of the model alike.
TurnsFrom(c, i) == Cardinality({j \in i..Len(c) : c[j].role # "call"})

OldOutputs(c) ==
    {i \in 1..Len(c) : /\ c[i].role = "tool" /\ ~c[i].pruned /\ c[i].size >= MinPart
                       /\ TurnsFrom(c, i) > ProtectTurns}

Reclaimed(c) == Sets!MapThenSumSet(LAMBDA i : c[i].size, OldOutputs(c))

Pruned(c) ==
    IF Reclaimed(c) < MinReclaim THEN c
    ELSE [i \in 1..Len(c) |-> IF i \in OldOutputs(c) THEN [c[i] EXCEPT !.pruned = TRUE] ELSE c[i]]

-----------------------------------------------------------------------------
(* The conversation                                                        *)

\* The message of a delivery, also after one that failed in the middle.
Ask ==
    /\ Len(contents) < MaxContents
    /\ contents' = Append(contents, Entry("user", 0))
    /\ UNCHANGED view

\* The model answers a message or an output, with an answer or with calls.
Reply(role) ==
    /\ LastRole \in {"user", "tool"}
    /\ Len(contents) < MaxContents
    /\ view' = Window(contents)
    /\ contents' = Append(Pruned(contents), Entry(role, 0))

\* The outputs of the calls, in one content.
Output(size) ==
    /\ LastRole = "call"
    /\ Len(contents) < MaxContents
    /\ contents' = Append(contents, Entry("tool", size))
    /\ UNCHANGED view

ContextNext ==
    \/ Ask
    \/ \E role \in {"model", "call"} : Reply(role)
    \/ \E size \in Sizes : Output(size)

ContextSpec == ContextInit /\ [][ContextNext]_contextVars

-----------------------------------------------------------------------------
(* Properties                                                              *)

\* "never orphan a tool response (function_response) without its preceding function
\* call turn" (plugins.py:38): every output the model is shown follows its calls.
NoOrphanedOutput ==
    \A i \in 1..Len(view) : view[i].role = "tool" => i > 1 /\ view[i - 1].role = "call"
=============================================================================
