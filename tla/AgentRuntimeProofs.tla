-------------------------- MODULE AgentRuntimeProofs --------------------------
(***************************************************************************)
(* What runs around the agent: the gates in front of its tools, what is    *)
(* left of a conversation before each call of the model, and the memory of *)
(* its sessions.                                                           *)
(***************************************************************************)
EXTENDS AgentLoop, ContextPruning, SessionStore, NumberFacts, SequenceTheorems

(***************************************************************************)
(* What the agent may do, proved for any events, tools, limits and         *)
(* deliveries.  The gates read the state of a session that the deliveries  *)
(* of a pull request share, so the invariant says whose state that is      *)
(* while a delivery is in hand (OwnState), and that what it says of the    *)
(* investigation was seen in this very invocation (Looked).                *)
(***************************************************************************)

Modes == {"ignore", "audit", "collab", "triage", "pair"}
Halts == {"no", "turn_budget", "tool_budget", "no_progress", "repeated_failure"}

SessionState == [mode : Modes \cup {"none"}, code : BOOLEAN, issues : BOOLEAN,
                 executed : SUBSET Tools]

Loop == [pc : {"idle", "agent", "model", "tools"}, inv : 1..MaxInvocations,
         models : 0..MaxModelCalls, left : 0..MaxBatch,
         turns : 0..(MaxTurns + 1), calls : 0..(AuditCalls + 1), halt : Halts,
         last : Seq(Requests), failures : [Tools -> 0..FailureThreshold],
         looked : BOOLEAN, reviewed : BOOLEAN, rejected : BOOLEAN,
         ending : BOOLEAN, ran : Tools \cup {"none"}, seen : BOOLEAN]

\* No counter of an invocation passes its limit by more than the step that finds out.
AgentTypeOK ==
    /\ closed \in BOOLEAN
    /\ event \in Events
    /\ session \in [Apps -> SessionState]
    /\ loop \in Loop /\ Len(loop.last) <= NoProgressWindow
    /\ deliveries \in 0..MaxDeliveries

\* The session's state is the one the delivery in hand has written.
OwnState ==
    loop.pc # "idle" => S.mode = ModeOf(event) /\ S.issues = MayCreateIssue(event)

\* An investigative tool the session remembers ran in this invocation.
Looked ==
    loop.pc \in {"model", "tools"} => (S.executed \cap Investigative # {} => loop.seen)

AgentInv ==
    /\ AgentTypeOK
    /\ OwnState
    /\ Looked
    /\ loop.pc = "tools" => loop.left # 0

-----------------------------------------------------------------------------
(* The policy of the event                                                 *)

LEMMA ModeType == ASSUME NEW e PROVE ModeOf(e) \in Modes /\ MayCreateIssue(e) \in BOOLEAN
BY DEF ModeOf, Modes, MayCreateIssue

LEMMA AppType == ASSUME NEW e PROVE App(e) \in Apps
BY DEF App, Apps

LEMMA LimitType == TurnLimit \in 0..MaxTurns /\ CallLimit \in 0..AuditCalls
BY AgentAssumption DEF TurnLimit, CallLimit

-----------------------------------------------------------------------------
(* What the operators keep of an invocation                                *)

\* An invocation with its list of calls no longer than the window.
Sound(l) == l \in Loop /\ Len(l.last) <= NoProgressWindow

LEMMA NewLoopType ==
    /\ Sound(NewLoop) /\ NewLoop.pc = "agent" /\ NewLoop.ran = "none"
    /\ NewLoop.failures = [t \in Tools |-> 0] /\ NewLoop.last = <<>> /\ ~NewLoop.seen
<1>1. NewLoop.failures \in [Tools -> 0..FailureThreshold]
  BY AgentAssumption DEF NewLoop
<1>2. <<>> \in Seq(Requests) /\ Len(<<>>) = 0
  OBVIOUS
<1> QED BY <1>1, <1>2, AgentAssumption DEF NewLoop, Loop, Halts, Sound

LEMMA IdleType ==
    /\ Sound(Idle) /\ Idle.pc = "idle" /\ Idle.ran = "none"
    /\ \A t \in Tools \cup {"none"} :
          /\ Sound([Idle EXCEPT !.ran = t])
          /\ [Idle EXCEPT !.ran = t].pc = "idle" /\ [Idle EXCEPT !.ran = t].ran = t
BY NewLoopType DEF Idle, Loop, Sound

\* What no operator of the plugins changes.
SameRun(k, l) == k.pc = l.pc /\ k.left = l.left /\ k.ran = l.ran /\ k.seen = l.seen

LEMMA ForgetType ==
    ASSUME NEW l, Sound(l)
    PROVE  Sound(Forget(l)) /\ SameRun(Forget(l), l)
<1>0. PICK q : q = <<>>
  OBVIOUS
<1>1. /\ q \in Seq(Requests) /\ Len(q) <= NoProgressWindow
      /\ 0 \in 0..(MaxTurns + 1) /\ 0 \in 0..(AuditCalls + 1)
  BY <1>0, AgentAssumption
<1>2. NewLoop.failures \in [Tools -> 0..FailureThreshold]
  BY NewLoopType, AgentAssumption
<1>3. PICK f : f = NewLoop.failures
  OBVIOUS
<1>4. f \in [Tools -> 0..FailureThreshold]
  BY <1>2, <1>3
<1>5. CASE Forget(l) = l
  BY <1>5 DEF SameRun
<1>6. CASE Forget(l) = [l EXCEPT !.turns = 0, !.calls = 0, !.last = q, !.failures = f]
  BY <1>1, <1>4, <1>6 DEF Loop, Sound, SameRun
<1> QED BY <1>0, <1>3, <1>5, <1>6 DEF Forget

LEMMA BeforeModelType ==
    ASSUME NEW l, Sound(l)
    PROVE  Sound(BeforeModel(l)) /\ SameRun(BeforeModel(l), l)
<1>1. (IF l.turns <= TurnLimit THEN l.turns + 1 ELSE l.turns) \in 0..(MaxTurns + 1)
  BY LimitType, AgentAssumption DEF Loop, Sound
<1> QED BY <1>1 DEF BeforeModel, Loop, Sound, SameRun, Halts

LEMMA EndedType ==
    ASSUME NEW l, Sound(l)
    PROVE  Sound(Ended(l)) /\ Ended(l).pc \in {"idle", "agent"} /\ Ended(l).ran = l.ran
<1>1. CASE Ended(l) = [Idle EXCEPT !.ran = l.ran]
  <2>1. PICK t \in Tools \cup {"none"} : t = l.ran
    BY DEF Loop, Sound
  <2>2. Ended(l) = [Idle EXCEPT !.ran = t]
    BY <1>1, <2>1
  <2> QED BY <2>1, <2>2, IdleType
<1>2. CASE l.inv < MaxInvocations /\ Ended(l) = [l EXCEPT !.pc = "agent", !.inv = l.inv + 1]
  <2>1. l.inv \in 1..MaxInvocations
    BY DEF Loop, Sound
  <2>2. l.inv + 1 \in 1..MaxInvocations
    BY <1>2, <2>1, AgentAssumption
  <2> QED BY <1>2, <2>2 DEF Loop, Sound
<1> QED BY <1>1, <1>2 DEF Ended, Loop, Sound

LEMMA BudgetedType ==
    ASSUME NEW l, Sound(l)
    PROVE  /\ Sound(Budgeted(l)) /\ SameRun(Budgeted(l), l)
           /\ Budgeted(l).halt = "no" => l.halt = "no"
<1>1. (IF l.calls <= CallLimit THEN l.calls + 1 ELSE l.calls) \in 0..(AuditCalls + 1)
  BY LimitType, AgentAssumption DEF Loop, Sound
<1> QED BY <1>1 DEF Budgeted, Loop, Sound, SameRun, Halts

LEMMA WatchedType ==
    ASSUME NEW l, Sound(l), NEW c \in Requests
    PROVE  Sound(Watched(l, c)) /\ SameRun(Watched(l, c), l)
<1>1. PICK a : a = Append(l.last, c)
  OBVIOUS
<1>2. a \in Seq(Requests) /\ Len(a) = Len(l.last) + 1 /\ Len(l.last) \in Nat
  BY <1>1 DEF Loop, Sound
<1>3. LastOf(a) \in Seq(Requests) /\ Len(LastOf(a)) <= NoProgressWindow
  BY <1>2, AgentAssumption DEF LastOf, Sound
<1>4. PICK s : s = LastOf(a)
  OBVIOUS
<1>5. Watched(l, c) = [l EXCEPT !.last = s,
                                !.halt = IF Stuck(s) THEN "no_progress" ELSE l.halt]
  BY <1>1, <1>4 DEF Watched, Loop, Sound
<1> QED BY <1>3, <1>4, <1>5 DEF Loop, Sound, SameRun, Halts

LEMMA CheckedType ==
    ASSUME NEW l, Sound(l), NEW c \in Requests
    PROVE  /\ Sound(Checked(l, c).l) /\ SameRun(Checked(l, c).l, l)
           /\ ~Checked(l, c).refused => l.halt = "no"
<1>1. PICK b : b = Budgeted(l)
  OBVIOUS
<1>2. PICK w : w = Watched(b, c)
  OBVIOUS
<1>3. Checked(l, c) = IF b.halt # "no" THEN [l |-> b, refused |-> TRUE]
                      ELSE [l |-> w, refused |-> w.halt # "no"]
  BY <1>1, <1>2 DEF Checked
<1>4. Sound(b) /\ SameRun(b, l) /\ (b.halt = "no" => l.halt = "no")
  BY <1>1, BudgetedType
<1>5. Sound(w) /\ SameRun(w, l)
  BY <1>2, <1>4, WatchedType DEF SameRun
<1> QED BY <1>3, <1>4, <1>5

LEMMA AfterType ==
    ASSUME NEW l, Sound(l), NEW c \in Requests, NEW ok \in BOOLEAN
    PROVE  Sound(After(l, c, ok)) /\ SameRun(After(l, c, ok), l)
<1>1. PICK n : n = IF ok THEN 0 ELSE l.failures[c.tool] + 1
  OBVIOUS
<1>2. PICK m : m = IF n > FailureThreshold THEN FailureThreshold ELSE n
  OBVIOUS
<1>3. c.tool \in Tools
  BY DEF Tools
<1>4. m \in 0..FailureThreshold
  <2>1. l.failures[c.tool] \in 0..FailureThreshold
    BY <1>3 DEF Loop, Sound
  <2>2. n \in Nat
    BY <1>1, <2>1, AgentAssumption
  <2> QED BY <1>2, <2>2, AgentAssumption
<1>5. PICK f : f = [l.failures EXCEPT ![c.tool] = m]
  OBVIOUS
<1>6. f \in [Tools -> 0..FailureThreshold]
  BY <1>4, <1>5 DEF Loop, Sound
<1>7. After(l, c, ok) = [l EXCEPT !.failures = f,
                            !.halt = IF n >= FailureThreshold THEN "repeated_failure" ELSE l.halt]
  BY <1>1, <1>2, <1>5 DEF After, Loop, Sound
<1> QED BY <1>6, <1>7 DEF Loop, Sound, SameRun, Halts

LEMMA RecordedType ==
    ASSUME NEW l, Sound(l), NEW c \in Requests, NEW ok \in BOOLEAN
    PROVE  Sound(Recorded(l, c, ok)) /\ SameRun(Recorded(l, c, ok), l)
BY DEF Recorded, Loop, Sound, SameRun

LEMMA AnsweredType ==
    ASSUME NEW l, Sound(l), l.pc = "tools", l.left # 0, NEW c \in Requests, NEW ok \in BOOLEAN
    PROVE  /\ Sound(Answered(l, c, ok))
           /\ Answered(l, c, ok).pc \in {"model", "tools"} => Answered(l, c, ok).seen = l.seen
           /\ Answered(l, c, ok).pc = "tools" => Answered(l, c, ok).left # 0
           /\ Answered(l, c, ok).ran = l.ran
<1>1. PICK a : a = After(l, c, ok)
  OBVIOUS
<1>2. PICK r : r = Recorded(a, c, ok)
  OBVIOUS
<1>3. PICK k : k = Forget(r)
  OBVIOUS
<1>4. Sound(k) /\ SameRun(k, l)
  BY <1>1, <1>2, <1>3, AfterType, RecordedType, ForgetType DEF SameRun
<1>5. PICK g : g = [k EXCEPT !.left = k.left - 1]
  OBVIOUS
<1>6. /\ Sound(g) /\ g.pc = "tools" /\ g.ran = l.ran /\ g.seen = l.seen
  <2>1. k.left \in 0..MaxBatch /\ k.left # 0
    BY <1>4 DEF SameRun, Loop, Sound
  <2>2. k.left - 1 \in 0..MaxBatch
    BY <2>1, AgentAssumption
  <2> QED BY <1>4, <1>5, <2>2 DEF Loop, Sound, SameRun
<1>7. Answered(l, c, ok) = IF g.left # 0 THEN g ELSE IF g.ending THEN Ended(g)
                           ELSE [g EXCEPT !.pc = "model"]
  BY <1>1, <1>2, <1>3, <1>4, <1>5 DEF Answered, Onward, Loop, Sound
<1>8. CASE Answered(l, c, ok) = Ended(g)
  BY <1>6, <1>8, EndedType
<1>9. CASE Answered(l, c, ok) = [g EXCEPT !.pc = "model"]
  BY <1>6, <1>9 DEF Loop, Sound
<1> QED BY <1>6, <1>7, <1>8, <1>9

LEMMA RanType ==
    ASSUME NEW l, Sound(l), NEW c \in Requests
    PROVE  /\ Sound(Ran(l, c)) /\ Ran(l, c).pc = l.pc /\ Ran(l, c).left = l.left
           /\ Ran(l, c).ran = c.tool
           /\ Ran(l, c).seen = (l.seen \/ c.tool \in Investigative)
<1>1. c.tool \in Tools
  BY DEF Tools
<1> QED BY <1>1 DEF Ran, Loop, Sound

-----------------------------------------------------------------------------
(* The steps                                                               *)

LEMMA AgentInvInit == AgentInit => AgentInv
<1> SUFFICES ASSUME AgentInit PROVE AgentInv
  OBVIOUS
<1>1. session \in [Apps -> SessionState]
  BY DEF AgentInit, SessionState
<1>2. loop = Idle /\ Sound(loop) /\ loop.pc = "idle"
  BY IdleType DEF AgentInit
<1>3. deliveries \in 0..MaxDeliveries /\ event \in Events
  BY AgentAssumption DEF AgentInit
<1>4. AgentTypeOK
  BY <1>1, <1>2, <1>3 DEF AgentInit, AgentTypeOK, Sound
<1> QED BY <1>2, <1>4 DEF AgentInv, OwnState, Looked

\* A step that goes on in the state of the session it found.
LEMMA SameSessionInv ==
    ASSUME AgentInv, UNCHANGED <<event, session, deliveries>>, closed' \in BOOLEAN,
           Sound(loop'), loop'.pc # "idle" => loop.pc # "idle",
           loop'.pc \in {"model", "tools"} =>
              loop.pc \in {"model", "tools"} /\ loop'.seen = loop.seen,
           loop'.pc = "tools" => loop'.left # 0
    PROVE  AgentInv'
BY DEF AgentInv, AgentTypeOK, OwnState, Looked, Sound, S

LEMMA DeliverInv ==
    ASSUME AgentInv, NEW e \in Events, NEW code \in BOOLEAN, Deliver(e, code)
    PROVE  AgentInv'
<1>1. deliveries' \in 0..MaxDeliveries
  BY AgentAssumption DEF Deliver, AgentInv, AgentTypeOK
<1>2. CASE UNCHANGED <<session, loop>>
  BY <1>1, <1>2 DEF Deliver, AgentInv, AgentTypeOK, OwnState, Looked
<1>3. CASE /\ session' = [session EXCEPT ![App(e)] = Scoped(e, code, @)]
           /\ loop' = NewLoop
  <2>1. PICK a \in Apps : a = App(e)
    BY AppType
  <2>2. session[a] \in SessionState
    BY <2>1 DEF AgentInv, AgentTypeOK
  <2>3. PICK s : s = Scoped(e, code, session[a])
    OBVIOUS
  <2>4. s \in SessionState /\ s.mode = ModeOf(e) /\ s.issues = MayCreateIssue(e)
    BY <2>2, <2>3, ModeType DEF Scoped, SessionState
  <2>5. session' = [session EXCEPT ![a] = s]
    BY <1>3, <2>1, <2>3
  <2>6. session' \in [Apps -> SessionState] /\ session'[a] = s
    BY <2>1, <2>4, <2>5 DEF AgentInv, AgentTypeOK
  <2>7. event' = e /\ App(e)' = App(e) /\ UNCHANGED closed
    BY DEF Deliver, App
  <2>8. S' = s
    BY <2>1, <2>6, <2>7 DEF S
  <2> QED BY <1>1, <1>3, <2>4, <2>6, <2>7, <2>8, NewLoopType
          DEF AgentInv, AgentTypeOK, OwnState, Looked, Sound, ModeOf, MayCreateIssue
<1> QED BY <1>2, <1>3 DEF Deliver

LEMMA BeginAgentInv == ASSUME AgentInv, BeginAgent PROVE AgentInv'
<1>0. Sound(loop) /\ loop.pc = "agent" /\ UNCHANGED <<closed, event, deliveries>>
  BY DEF BeginAgent, AgentInv, AgentTypeOK, Sound
<1>1. CASE loop' = Idle /\ UNCHANGED session
  BY <1>0, <1>1, IdleType, SameSessionInv DEF AgentInv, AgentTypeOK
<1>2. CASE /\ session' = [session EXCEPT ![App(event)] = BeforeAgent(@)]
           /\ loop' = [NewLoop EXCEPT !.pc = "model", !.inv = loop.inv,
                                      !.looked = loop.looked, !.reviewed = loop.reviewed,
                                      !.rejected = loop.rejected]
  <2>1. PICK a \in Apps : a = App(event)
    BY AppType
  <2>2. session[a] \in SessionState /\ session[a] = S
    BY <2>1 DEF AgentInv, AgentTypeOK, S
  <2>3. PICK s : s = [session[a] EXCEPT !.executed = {}]
    OBVIOUS
  <2>4. s \in SessionState /\ s.mode = S.mode /\ s.issues = S.issues /\ s.executed = {}
    BY <2>2, <2>3 DEF SessionState
  <2>5. session' = [session EXCEPT ![a] = s]
    BY <1>2, <2>1, <2>3 DEF BeforeAgent
  <2>6. session' \in [Apps -> SessionState] /\ session'[a] = s
    BY <2>1, <2>4, <2>5 DEF AgentInv, AgentTypeOK
  <2>7. Sound(loop') /\ loop'.pc = "model"
    BY <1>0, <1>2, NewLoopType DEF Sound, Loop
  <2>8. S' = s
    BY <1>0, <2>1, <2>6 DEF S
  <2> QED BY <1>0, <2>4, <2>6, <2>7, <2>8
          DEF AgentInv, AgentTypeOK, OwnState, Looked, Sound
<1> QED BY <1>1, <1>2 DEF BeginAgent

LEMMA CallModelInv == ASSUME AgentInv, CallModel PROVE AgentInv'
<1>0. /\ Sound(loop) /\ loop.pc = "model"
      /\ UNCHANGED <<closed, event, session, deliveries>>
  BY DEF CallModel, AgentInv, AgentTypeOK, Sound
<1>1. PICK b : b = BeforeModel(loop)
  OBVIOUS
<1>2. PICK l : l = [b EXCEPT !.ran = "none",
                             !.models = IF @ < MaxModelCalls THEN @ + 1 ELSE @]
  OBVIOUS
<1>3. Sound(b) /\ SameRun(b, loop)
  BY <1>0, <1>1, BeforeModelType
<1>4. Sound(l) /\ l.pc = "model" /\ l.seen = loop.seen
  <2>1. b.models \in 0..MaxModelCalls
    BY <1>3 DEF Sound, Loop
  <2>2. (IF b.models < MaxModelCalls THEN b.models + 1 ELSE b.models) \in 0..MaxModelCalls
    BY <2>1, AgentAssumption
  <2> QED BY <1>0, <1>2, <1>3, <2>2 DEF Sound, Loop, SameRun
<1>5. \/ loop' = Idle
      \/ loop' = Ended(l)
      \/ \E n \in 1..MaxBatch : loop' = [Forget(l) EXCEPT !.pc = "tools", !.left = n]
  BY <1>1, <1>2 DEF CallModel
<1>6. CASE loop' = Idle \/ loop' = Ended(l)
  BY <1>0, <1>4, <1>6, IdleType, EndedType, SameSessionInv DEF AgentInv, AgentTypeOK
<1>7. CASE \E n \in 1..MaxBatch : loop' = [Forget(l) EXCEPT !.pc = "tools", !.left = n]
  <2>1. PICK n \in 1..MaxBatch : loop' = [Forget(l) EXCEPT !.pc = "tools", !.left = n]
    BY <1>7
  <2>2. PICK k : k = Forget(l)
    OBVIOUS
  <2>3. Sound(k) /\ k.seen = loop.seen
    BY <1>4, <2>2, ForgetType DEF SameRun
  <2>4. n \in 0..MaxBatch /\ n # 0
    BY AgentAssumption
  <2>5. Sound(loop') /\ loop'.pc = "tools" /\ loop'.left # 0 /\ loop'.seen = loop.seen
    BY <2>1, <2>2, <2>3, <2>4 DEF Sound, Loop
  <2> QED BY <1>0, <2>5, SameSessionInv DEF AgentInv, AgentTypeOK
<1> QED BY <1>5, <1>6, <1>7

LEMMA RefuseCallInv == ASSUME AgentInv, NEW c \in Requests, RefuseCall(c) PROVE AgentInv'
<1>0. /\ Sound(loop) /\ loop.pc = "tools" /\ loop.left # 0
      /\ UNCHANGED <<closed, event, session, deliveries>>
  BY DEF RefuseCall, AgentInv, AgentTypeOK, Sound
<1>1. CASE loop' = Idle
  BY <1>0, <1>1, IdleType, SameSessionInv DEF AgentInv, AgentTypeOK
<1>2. CASE loop' = [Answered(Checked(loop, c).l, c, FALSE) EXCEPT !.ran = "none"]
  <2>1. PICK k : k = Checked(loop, c).l
    OBVIOUS
  <2>2. PICK a : a = Answered(k, c, FALSE)
    OBVIOUS
  <2>3. Sound(k) /\ SameRun(k, loop)
    BY <1>0, <2>1, CheckedType
  <2>4. /\ Sound(a) /\ (a.pc = "tools" => a.left # 0)
        /\ a.pc \in {"model", "tools"} => a.seen = loop.seen
    BY <1>0, <2>2, <2>3, AnsweredType DEF SameRun
  <2>5. /\ Sound(loop') /\ loop'.pc = a.pc /\ loop'.left = a.left /\ loop'.seen = a.seen
    BY <1>2, <2>1, <2>2, <2>4 DEF Sound, Loop
  <2> QED BY <1>0, <2>4, <2>5, SameSessionInv DEF AgentInv, AgentTypeOK
<1> QED BY <1>1, <1>2 DEF RefuseCall

LEMMA RunCallInv == ASSUME AgentInv, NEW c \in Requests, RunCall(c) PROVE AgentInv'
<1>0. /\ Sound(loop) /\ loop.pc = "tools" /\ loop.left # 0
      /\ UNCHANGED <<closed, event, deliveries>>
  BY DEF RunCall, AgentInv, AgentTypeOK, Sound
<1>1. PICK k : k = Checked(loop, c).l
  OBVIOUS
<1>2. PICK l : l = Ran(k, c)
  OBVIOUS
<1>3. /\ Sound(l) /\ l.pc = "tools" /\ l.left # 0
      /\ l.seen = (loop.seen \/ c.tool \in Investigative)
  BY <1>0, <1>1, <1>2, CheckedType, RanType DEF SameRun
<1>4. /\ Sound(loop')
      /\ loop'.pc \in {"model", "tools"} => loop'.seen = l.seen
      /\ loop'.pc = "tools" => loop'.left # 0
  <2>1. CASE \E ok \in BOOLEAN : loop' = Answered(l, c, ok)
    BY <1>3, <2>1, AnsweredType
  <2>2. CASE loop' = Answered([l EXCEPT !.ending = TRUE], c, TRUE)
    <3>1. PICK e : e = [l EXCEPT !.ending = TRUE]
      OBVIOUS
    <3>2. Sound(e) /\ e.pc = "tools" /\ e.left # 0 /\ e.seen = l.seen
      BY <1>3, <3>1 DEF Loop, Sound
    <3> QED BY <2>2, <3>1, <3>2, AnsweredType
  <2> QED BY <1>1, <1>2, <2>1, <2>2 DEF RunCall
<1>5. PICK a \in Apps : a = App(event)
  BY AppType
<1>6. session[a] \in SessionState /\ session[a] = S /\ c.tool \in Tools
  BY <1>5 DEF AgentInv, AgentTypeOK, S, Tools
<1>7. PICK s : s = [session[a] EXCEPT !.executed = session[a].executed \cup {c.tool}]
  OBVIOUS
<1>8. /\ s \in SessionState /\ s.mode = S.mode /\ s.issues = S.issues
      /\ s.executed = S.executed \cup {c.tool}
  BY <1>6, <1>7 DEF SessionState
<1>9. session' = [session EXCEPT ![a] = s]
  <2>1. session' = [session EXCEPT ![a].executed = session[a].executed \cup {c.tool}]
    BY <1>5 DEF RunCall
  <2> QED BY <1>5, <1>7, <2>1 DEF AgentInv, AgentTypeOK
<1>10. session' \in [Apps -> SessionState] /\ session'[a] = s
  BY <1>5, <1>8, <1>9 DEF AgentInv, AgentTypeOK
<1>11. S' = s
  BY <1>0, <1>5, <1>10 DEF S
<1>12. Looked'
  BY <1>0, <1>3, <1>4, <1>8, <1>11 DEF AgentInv, Looked
<1> QED BY <1>0, <1>4, <1>8, <1>10, <1>11, <1>12 DEF AgentInv, AgentTypeOK, OwnState, Sound

LEMMA AgentInvNext == AgentInv /\ [AgentNext]_agentVars => AgentInv'
<1> SUFFICES ASSUME AgentInv, [AgentNext]_agentVars PROVE AgentInv'
  OBVIOUS
<1>1. CASE \E e \in Events, code \in BOOLEAN : Deliver(e, code)
  BY <1>1, DeliverInv
<1>2. CASE AgentStep
  BY <1>2, BeginAgentInv, CallModelInv, RefuseCallInv, RunCallInv DEF AgentStep
<1>3. CASE Closes \/ UNCHANGED agentVars
  BY <1>3 DEF Closes, agentVars, AgentInv, AgentTypeOK, OwnState, Looked, S
<1> QED BY <1>1, <1>2, <1>3 DEF AgentNext

\* Whatever events meet in the sessions of a pull request, the invocation in hand reads
\* the state of its own delivery and its own investigation.
THEOREM AgentInvariant == AgentSpec => []AgentInv
BY AgentInvInit, AgentInvNext, PTL DEF AgentSpec

\* The counters of an invocation keep to their limits (core/guardrails.py), the last
\* step past a limit included, and the list of calls to its window.
THEOREM AgentTypeCorrect == AgentSpec => []AgentTypeOK
<1>1. AgentInv => AgentTypeOK
  BY DEF AgentInv
<1> QED BY <1>1, AgentInvariant, PTL

-----------------------------------------------------------------------------
(* What runs                                                               *)

\* A step that runs a tool has passed the plugins and the gates.
LEMMA RunningIsRunCall ==
    ASSUME AgentInv, [AgentNext]_agentVars, Running # "none"
    PROVE  \E c \in Requests : RunCall(c) /\ Running = c.tool
<1>0. Sound(loop) /\ loop' # loop /\ Running = loop'.ran
  BY DEF AgentInv, AgentTypeOK, Sound, Running
<1>1. ~ \E e \in Events, code \in BOOLEAN : Deliver(e, code)
  BY <1>0, NewLoopType DEF Deliver
<1>2. ~BeginAgent
  <2>1. [NewLoop EXCEPT !.pc = "model", !.inv = loop.inv, !.looked = loop.looked,
                        !.reviewed = loop.reviewed, !.rejected = loop.rejected].ran = "none"
    BY NewLoopType DEF Sound, Loop
  <2> QED BY <1>0, <2>1, IdleType DEF BeginAgent
<1>3. ~CallModel
  <2> SUFFICES ASSUME CallModel PROVE FALSE
    OBVIOUS
  <2>1. PICK b : b = BeforeModel(loop)
    OBVIOUS
  <2>2. PICK l : l = [b EXCEPT !.ran = "none",
                               !.models = IF @ < MaxModelCalls THEN @ + 1 ELSE @]
    OBVIOUS
  <2>3. Sound(b)
    BY <1>0, <2>1, BeforeModelType
  <2>4. Sound(l) /\ l.ran = "none"
    <3>1. b.models \in 0..MaxModelCalls
      BY <2>3 DEF Sound, Loop
    <3>2. (IF b.models < MaxModelCalls THEN b.models + 1 ELSE b.models) \in 0..MaxModelCalls
      BY <3>1, AgentAssumption
    <3> QED BY <2>2, <2>3, <3>2 DEF Sound, Loop
  <2>5. \/ loop' = Idle
        \/ loop' = Ended(l)
        \/ \E n \in 1..MaxBatch : loop' = [Forget(l) EXCEPT !.pc = "tools", !.left = n]
    BY <2>1, <2>2 DEF CallModel
  <2>6. Forget(l) \in Loop /\ Forget(l).ran = "none"
    BY <2>4, ForgetType DEF Sound, SameRun
  <2>7. \A n \in 1..MaxBatch : [Forget(l) EXCEPT !.pc = "tools", !.left = n].ran = "none"
    BY <2>6 DEF Loop
  <2> QED BY <1>0, <2>4, <2>5, <2>7, IdleType, EndedType
<1>4. ASSUME NEW c \in Requests, RefuseCall(c) PROVE FALSE
  <2>1. PICK k : k = Checked(loop, c).l
    OBVIOUS
  <2>2. PICK a : a = Answered(k, c, FALSE)
    OBVIOUS
  <2>3. Sound(a)
    BY <1>0, <1>4, <2>1, <2>2, CheckedType, AnsweredType DEF SameRun, RefuseCall, AgentInv
  <2>4. [a EXCEPT !.ran = "none"].ran = "none"
    BY <2>3 DEF Sound, Loop
  <2> QED BY <1>0, <1>4, <2>1, <2>2, <2>4, IdleType DEF RefuseCall
<1>5. ASSUME NEW c \in Requests, RunCall(c) PROVE Running = c.tool
  <2>1. PICK k : k = Checked(loop, c).l
    OBVIOUS
  <2>2. PICK l : l = Ran(k, c)
    OBVIOUS
  <2>3. Sound(l) /\ l.pc = "tools" /\ l.left # 0 /\ l.ran = c.tool
    BY <1>0, <1>5, <2>1, <2>2, CheckedType, RanType DEF SameRun, RunCall, AgentInv
  <2>4. CASE \E ok \in BOOLEAN : loop' = Answered(l, c, ok)
    BY <1>0, <2>3, <2>4, AnsweredType
  <2>5. CASE loop' = Answered([l EXCEPT !.ending = TRUE], c, TRUE)
    <3>1. PICK e : e = [l EXCEPT !.ending = TRUE]
      OBVIOUS
    <3>2. Sound(e) /\ e.pc = "tools" /\ e.left # 0 /\ e.ran = c.tool
      BY <2>3, <3>1 DEF Loop, Sound
    <3> QED BY <1>0, <2>5, <3>1, <3>2, AnsweredType
  <2> QED BY <1>5, <2>1, <2>2, <2>4, <2>5 DEF RunCall
<1> QED BY <1>0, <1>1, <1>2, <1>3, <1>4, <1>5 DEF AgentNext, AgentStep, Closes, agentVars

\* create_issue and the review tool run only with the permission of the delivery in hand,
\* whatever other deliveries left in the session (callbacks.py:106).
THEOREM OnlyWithPermission == AgentSpec => PermissionOfTheDelivery
<1>1. ASSUME AgentInv, [AgentNext]_agentVars
      PROVE  /\ Running = "create_issue" => MayCreateIssue(event)
             /\ Running = "review" => ModeOf(event) = "audit"
  <2> SUFFICES ASSUME Running \in {"create_issue", "review"}
               PROVE  /\ Running = "create_issue" => MayCreateIssue(event)
                      /\ Running = "review" => ModeOf(event) = "audit"
    OBVIOUS
  <2>1. PICK c \in Requests : RunCall(c) /\ Running = c.tool
    BY <1>1, RunningIsRunCall
  <2>2. Gate(c) /\ loop.pc = "tools"
    BY <2>1 DEF RunCall
  <2> QED BY <1>1, <2>1, <2>2 DEF Gate, AgentInv, OwnState
<1> QED BY <1>1, AgentInvariant, PTL DEF AgentSpec, PermissionOfTheDelivery

\* In an audit of code the review tool runs only after an investigative tool ran in the
\* same invocation (callbacks.py:617-630).
THEOREM LooksBeforeReviewing == AgentSpec => ReviewAfterLooking
<1>1. ASSUME AgentInv, [AgentNext]_agentVars, Running = "review", S.code PROVE loop.seen
  <2>1. PICK c \in Requests : RunCall(c) /\ Running = c.tool
    BY <1>1, RunningIsRunCall
  <2>2. Gate(c) /\ loop.pc = "tools"
    BY <2>1 DEF RunCall
  <2> QED BY <1>1, <2>1, <2>2 DEF Gate, AgentInv, Looked
<1>2. AgentInv /\ [AgentNext]_agentVars => [Running = "review" /\ S.code => loop.seen]_agentVars
  BY <1>1
<1> QED BY <1>2, AgentInvariant, PTL DEF AgentSpec, ReviewAfterLooking

\* A halted run runs no tool any more (guardrails.py): the plugin that finds the halt
\* answers every further call in its place.
THEOREM NothingAfterTheHalt == AgentSpec => HaltIsFinal
<1>1. ASSUME AgentInv, [AgentNext]_agentVars, Running # "none" PROVE loop.halt = "no"
  <2>1. PICK c \in Requests : RunCall(c)
    BY <1>1, RunningIsRunCall
  <2>2. ~Checked(loop, c).refused
    BY <2>1 DEF RunCall
  <2> QED BY <1>1, <2>2, CheckedType DEF AgentInv, AgentTypeOK, Sound
<1>2. AgentInv /\ [AgentNext]_agentVars => [Running # "none" => loop.halt = "no"]_agentVars
  BY <1>1
<1> QED BY <1>2, AgentInvariant, PTL DEF AgentSpec, HaltIsFinal

-----------------------------------------------------------------------------
(***************************************************************************)
(* What the model is shown, proved for any window and any sizes of its     *)
(* outputs: the conversation itself never holds an output without its      *)
(* calls, and where the window begins with an output it begins right after *)
(* the first content, which made the calls.                                *)
(***************************************************************************)

Contents == [role : {"user", "model", "call", "tool"}, size : Nat, pruned : BOOLEAN]

\* Every output follows the content that made its calls.
Paired(c) == \A i \in 1..Len(c) : c[i].role = "tool" => i > 1 /\ c[i - 1].role = "call"

ContextInv ==
    /\ contents \in Seq(Contents) /\ Len(contents) <= MaxContents
    /\ Paired(contents)
    /\ Paired(view)

-----------------------------------------------------------------------------
(* Sets of numbers                                                         *)

\* The largest of a set of numbers that has a bound.
LEMMA MaxIsMember ==
    ASSUME NEW T \in SUBSET Nat, T # {}, NEW b \in Nat, \A m \in T : m <= b
    PROVE  Sets!Max(T) \in T
<1>1. PICK n \in T : \A m \in T : n >= m
  BY NatMax
<1> QED BY <1>1 DEF Sets!Max

-----------------------------------------------------------------------------
(* The two plugins                                                         *)

\* The window begins at the second content or at one that is no output.
LEMMA StartIs ==
    ASSUME NEW c \in Seq(Contents), Len(c) > MaxEvents
    PROVE  /\ Start(c) \in 2..Len(c)
           /\ Start(c) = 2 \/ c[Start(c)].role # "tool"
<1>1. PICK n \in Nat : n = Len(c)
  OBVIOUS
<1>2. PICK b : b = n - (MaxEvents - 1) + 1
  OBVIOUS
<1>3. b \in Nat /\ 2 <= b /\ b <= n
  BY <1>1, <1>2, ContextAssumption
<1>4. PICK T : T = {2} \cup {i \in 3..b : c[i].role # "tool"}
  OBVIOUS
<1>5. T \in SUBSET Nat /\ T # {} /\ \A m \in T : m <= b
  BY <1>3, <1>4
<1>6. Sets!Max(T) \in T
  BY <1>3, <1>5, MaxIsMember
<1>7. Start(c) = Sets!Max(T)
  BY <1>1, <1>2, <1>4 DEF Start
<1> QED BY <1>1, <1>3, <1>4, <1>6, <1>7

LEMMA WindowPaired ==
    ASSUME NEW c \in Seq(Contents), Paired(c)
    PROVE  Paired(Window(c))
<1>1. CASE Len(c) <= MaxEvents
  BY <1>1 DEF Window
<1>2. CASE Len(c) > MaxEvents
  <2>1. PICK s : s = Start(c)
    OBVIOUS
  <2>2. s \in 2..Len(c) /\ (s = 2 \/ c[s].role # "tool")
    BY <1>2, <2>1, StartIs
  <2>3. PICK n \in Nat : n = Len(c)
    OBVIOUS
  <2>4. Window(c) = <<c[1]>> \o SubSeq(c, s, n)
    <3>1. ~(n <= MaxEvents)
      BY <1>2, <2>3, ContextAssumption
    <3> QED BY <2>1, <2>3, <3>1 DEF Window
  <2>5. c[1] \in Contents
    BY <2>2
  <2>6. /\ SubSeq(c, s, n) \in Seq(Contents) /\ Len(SubSeq(c, s, n)) = n - s + 1
        /\ \A i \in 1..(n - s + 1) : SubSeq(c, s, n)[i] = c[s + i - 1]
    BY <2>2, <2>3
  <2>7. PICK w : w = Window(c)
    OBVIOUS
  <2>8. /\ Len(w) = n - s + 2
        /\ w[1] = c[1]
        /\ \A i \in 2..(n - s + 2) : w[i] = c[s + i - 2]
    <3>1. PICK q \in Seq(Contents) : q = SubSeq(c, s, n)
      BY <2>6
    <3>2. w = <<c[1]>> \o q
      BY <2>4, <2>7, <3>1
    <3>3. Len(q) = n - s + 1 /\ \A i \in 1..(n - s + 1) : q[i] = c[s + i - 1]
      BY <2>6, <3>1
    <3>4. Len(w) = 1 + Len(q) /\ w[1] = c[1] /\ \A i \in 2..(1 + Len(q)) : w[i] = q[i - 1]
      BY <2>5, <3>2
    <3>5. ASSUME NEW i \in 2..(n - s + 2) PROVE w[i] = c[s + i - 2]
      <4>1. i - 1 \in 1..(n - s + 1) /\ i \in 2..(1 + Len(q))
        BY <2>2, <2>3, <3>3
      <4>2. w[i] = q[i - 1] /\ q[i - 1] = c[s + (i - 1) - 1]
        BY <3>3, <3>4, <4>1
      <4>3. s + (i - 1) - 1 = s + i - 2
        BY <2>2
      <4> QED BY <4>2, <4>3
    <3> QED BY <2>2, <2>3, <3>3, <3>4, <3>5
  <2>9. ASSUME NEW i \in 1..Len(w), w[i].role = "tool"
        PROVE  i > 1 /\ w[i - 1].role = "call"
    <3>1. i # 1
      BY <2>2, <2>3, <2>8, <2>9 DEF Paired
    <3>2. i \in 2..(n - s + 2)
      BY <2>2, <2>3, <2>8, <3>1
    <3>3. s + i - 2 \in 1..n /\ w[i] = c[s + i - 2]
      BY <2>2, <2>3, <2>8, <3>2
    <3>4. c[s + i - 2].role = "tool" => c[(s + i - 2) - 1].role = "call"
      BY <2>3, <3>3 DEF Paired
    <3>5. CASE i = 2
      <4>1. s + i - 2 = s /\ s = 2
        BY <2>2, <2>9, <3>3, <3>5
      <4>2. c[1].role = "call"
        BY <2>9, <3>3, <3>4, <4>1
      <4> QED BY <2>8, <3>5, <4>2
    <3>6. CASE i # 2
      <4>1. i - 1 \in 2..(n - s + 2) /\ s + (i - 1) - 2 = (s + i - 2) - 1
        BY <2>2, <2>3, <3>2, <3>6
      <4>2. w[i - 1] = c[(s + i - 2) - 1]
        BY <2>8, <4>1
      <4> QED BY <2>9, <3>2, <3>3, <3>4, <4>2
    <3> QED BY <3>5, <3>6
  <2> QED BY <2>7, <2>9 DEF Paired
<1> QED BY <1>1, <1>2, ContextAssumption

\* Emptying old outputs changes no role.
LEMMA PrunedIs ==
    ASSUME NEW c \in Seq(Contents)
    PROVE  /\ Pruned(c) \in Seq(Contents) /\ Len(Pruned(c)) = Len(c)
           /\ \A i \in 1..Len(c) : Pruned(c)[i].role = c[i].role
<1>1. CASE Pruned(c) = c
  BY <1>1
<1>2. CASE Pruned(c) = [i \in 1..Len(c) |-> IF i \in OldOutputs(c)
                                            THEN [c[i] EXCEPT !.pruned = TRUE] ELSE c[i]]
  <2>1. PICK n \in Nat : n = Len(c)
    OBVIOUS
  <2>2. \A e \in Contents : /\ [e EXCEPT !.pruned = TRUE] \in Contents
                            /\ [e EXCEPT !.pruned = TRUE].role = e.role
    BY DEF Contents
  <2>3. \A i \in 1..n : c[i] \in Contents
    BY <2>1
  <2>4. PICK O : O = OldOutputs(c)
    OBVIOUS
  <2>5. Pruned(c) = [i \in 1..n |-> IF i \in O THEN [c[i] EXCEPT !.pruned = TRUE] ELSE c[i]]
    BY <1>2, <2>1, <2>4
  <2>6. Pruned(c) \in [1..n -> Contents]
    BY <2>2, <2>3, <2>5
  <2>7. Pruned(c) \in Seq(Contents) /\ Len(Pruned(c)) = n
    BY <2>6
  <2> QED BY <2>1, <2>2, <2>3, <2>5, <2>7
<1> QED BY <1>1, <1>2 DEF Pruned

-----------------------------------------------------------------------------
(* The conversation                                                        *)

\* A content at the end: its calls, if it is an output, are the content before it.
LEMMA AppendPaired ==
    ASSUME NEW c \in Seq(Contents), Paired(c), NEW e \in Contents,
           e.role = "tool" => Len(c) > 0 /\ c[Len(c)].role = "call"
    PROVE  Append(c, e) \in Seq(Contents) /\ Paired(Append(c, e))
<1>1. PICK n \in Nat : n = Len(c)
  OBVIOUS
<1>2. PICK a : a = Append(c, e)
  OBVIOUS
<1>3. /\ a \in Seq(Contents) /\ Len(a) = n + 1 /\ a[n + 1] = e
      /\ \A i \in 1..n : a[i] = c[i]
  BY <1>1, <1>2
<1>4. ASSUME NEW i \in 1..Len(a), a[i].role = "tool"
      PROVE  i > 1 /\ a[i - 1].role = "call"
  <2>1. CASE i = n + 1
    BY <1>1, <1>3, <1>4, <2>1
  <2>2. CASE i \in 1..n
    <3>1. i > 1 /\ c[i - 1].role = "call"
      BY <1>1, <1>3, <1>4, <2>2 DEF Paired
    <3>2. i - 1 \in 1..n
      BY <2>2, <3>1
    <3> QED BY <1>3, <3>1, <3>2
  <2> QED BY <1>3, <2>1, <2>2
<1> QED BY <1>2, <1>3, <1>4 DEF Paired

LEMMA EntryType ==
    ASSUME NEW role \in {"user", "model", "call", "tool"}, NEW size \in Nat
    PROVE  Entry(role, size) \in Contents /\ Entry(role, size).role = role
BY DEF Entry, Contents

LEMMA ContextInvNext == ContextInv /\ [ContextNext]_contextVars => ContextInv'
<1> SUFFICES ASSUME ContextInv, [ContextNext]_contextVars PROVE ContextInv'
  OBVIOUS
<1>0. contents \in Seq(Contents) /\ Paired(contents) /\ Len(contents) \in Nat
  BY DEF ContextInv
<1>1. ASSUME Ask PROVE ContextInv'
  <2>1. PICK e : e = Entry("user", 0)
    OBVIOUS
  <2>2. e \in Contents /\ e.role = "user"
    BY <2>1, EntryType
  <2>3. contents' = Append(contents, e) /\ Len(contents) < MaxContents /\ view' = view
    BY <1>1, <2>1 DEF Ask
  <2>4. contents' \in Seq(Contents) /\ Paired(contents')
    BY <1>0, <2>2, <2>3, AppendPaired
  <2>5. Len(contents') = Len(contents) + 1
    BY <1>0, <2>3
  <2> QED BY <1>0, <2>3, <2>4, <2>5, ContextAssumption DEF ContextInv
<1>2. ASSUME NEW role \in {"model", "call"}, Reply(role) PROVE ContextInv'
  <2>1. PICK e : e = Entry(role, 0)
    OBVIOUS
  <2>2. e \in Contents /\ e.role = role
    BY <2>1, EntryType
  <2>3. PICK p : p = Pruned(contents)
    OBVIOUS
  <2>4. /\ p \in Seq(Contents) /\ Len(p) = Len(contents)
        /\ \A i \in 1..Len(contents) : p[i].role = contents[i].role
    BY <1>0, <2>3, PrunedIs
  <2>5. Paired(p)
    BY <1>0, <2>4 DEF Paired
  <2>6. contents' = Append(p, e) /\ Len(contents) < MaxContents /\ view' = Window(contents)
    BY <1>2, <2>1, <2>3 DEF Reply
  <2>7. contents' \in Seq(Contents) /\ Paired(contents')
    BY <2>2, <2>4, <2>5, <2>6, AppendPaired
  <2>8. Len(contents') = Len(contents) + 1
    BY <1>0, <2>4, <2>6
  <2>9. Paired(view')
    BY <1>0, <2>6, WindowPaired
  <2> QED BY <1>0, <2>6, <2>7, <2>8, <2>9, ContextAssumption DEF ContextInv
<1>3. ASSUME NEW size \in Sizes, Output(size) PROVE ContextInv'
  <2>1. PICK e : e = Entry("tool", size)
    OBVIOUS
  <2>2. e \in Contents
    BY <2>1, EntryType, ContextAssumption
  <2>3. contents' = Append(contents, e) /\ Len(contents) < MaxContents /\ view' = view
    BY <1>3, <2>1 DEF Output
  <2>4. Len(contents) > 0 /\ contents[Len(contents)].role = "call"
    BY <1>0, <1>3 DEF Output, LastRole
  <2>5. contents' \in Seq(Contents) /\ Paired(contents')
    BY <1>0, <2>2, <2>3, <2>4, AppendPaired
  <2>6. Len(contents') = Len(contents) + 1
    BY <1>0, <2>3
  <2> QED BY <1>0, <2>3, <2>5, <2>6, ContextAssumption DEF ContextInv
<1>4. CASE UNCHANGED contextVars
  BY <1>4 DEF contextVars, ContextInv
<1> QED BY <1>1, <1>2, <1>3, <1>4 DEF ContextNext

\* Every output of a tool follows the content that made its calls, in the
\* conversation and in what each call of the model is shown of it.
THEOREM ContextInvariant == ContextSpec => []ContextInv
<1>1. ContextInit => ContextInv
  BY ContextAssumption DEF ContextInit, ContextInv, Paired
<1> QED BY <1>1, ContextInvNext, PTL DEF ContextSpec

\* Every output the model is shown follows its calls (plugins.py:38), wherever the window
\* begins and whatever was emptied: the history plugin moves the beginning back over
\* outputs, as far as the second content.
THEOREM OutputsKeepTheirCalls == ContextSpec => []NoOrphanedOutput
<1>1. ContextInv => NoOrphanedOutput
  BY DEF ContextInv, Paired, NoOrphanedOutput
<1> QED BY <1>1, ContextInvariant, PTL

-----------------------------------------------------------------------------
(***************************************************************************)
(* The bounded memory of sessions, for any set of sessions and any limit:  *)
(* the session a delivery holds is in memory, and neither the sessions nor *)
(* the states of their users outgrow the limit.  The invariant ties the    *)
(* three maps of the service together: the order lists the sessions in     *)
(* memory and nothing else, and every user has one of these.               *)
(***************************************************************************)

InMemory(order) == Seqs!ToSet(order)

StoreInv ==
    /\ held \in Sessions
    /\ stage \in {"idle", "missing", "used"}
    /\ lru \in Seq(Sessions) /\ Len(lru) <= MaxSessions
    /\ stored = InMemory(lru)
    /\ users \subseteq stored
    /\ stage = "missing" => held \notin stored
    /\ stage = "used" => held \in stored

-----------------------------------------------------------------------------
(* The order                                                               *)

LEMMA InMemoryDef ==
    ASSUME NEW T, NEW s \in Seq(T)
    PROVE  InMemory(s) = {s[i] : i \in 1..Len(s)}
BY DEF InMemory, Seqs!ToSet

\* Taking one position out leaves the others in their order.
LEMMA RemoveAtProperties ==
    ASSUME NEW T, NEW s \in Seq(T), NEW p \in 1..Len(s)
    PROVE  /\ Seqs!RemoveAt(s, p) \in Seq(T)
           /\ Len(Seqs!RemoveAt(s, p)) = Len(s) - 1
           /\ \A i \in 1..(Len(s) - 1) :
                 Seqs!RemoveAt(s, p)[i] = IF i < p THEN s[i] ELSE s[i + 1]
<1> DEFINE a == SubSeq(s, 1, p - 1)
           b == SubSeq(s, p + 1, Len(s))
<1>1. Len(s) \in Nat /\ p \in Int /\ \A i \in 1..Len(s) : s[i] \in T
  BY LenProperties, ElementOfSeq
<1>2. /\ a \in Seq(T) /\ Len(a) = p - 1
      /\ \A i \in 1..(p - 1) : a[i] = s[i]
  <2>1. 1 \in Int /\ p - 1 \in Int /\ \A i \in 1..(p - 1) : s[i] \in T
    BY <1>1
  <2>2. /\ a \in Seq(T) /\ Len(a) = IF 1 <= p - 1 THEN (p - 1) - 1 + 1 ELSE 0
        /\ \A i \in 1..((p - 1) - 1 + 1) : a[i] = s[1 + i - 1]
    BY <2>1, SubSeqProperties
  <2> HIDE DEF a
  <2> QED
    BY <1>1, <2>2
<1>3. /\ b \in Seq(T) /\ Len(b) = Len(s) - p
      /\ \A i \in 1..(Len(s) - p) : b[i] = s[p + i]
  <2>1. p + 1 \in Int /\ Len(s) \in Int /\ \A i \in (p + 1)..Len(s) : s[i] \in T
    BY <1>1
  <2>2. /\ b \in Seq(T) /\ Len(b) = IF p + 1 <= Len(s) THEN Len(s) - (p + 1) + 1 ELSE 0
        /\ \A i \in 1..(Len(s) - (p + 1) + 1) : b[i] = s[(p + 1) + i - 1]
    BY <2>1, SubSeqProperties
  <2> HIDE DEF b
  <2> QED
    BY <1>1, <2>2
<1>4. Seqs!RemoveAt(s, p) = a \o b
  BY DEF Seqs!RemoveAt
<1> HIDE DEF a, b
<1>5. /\ a \o b \in Seq(T)
      /\ Len(a \o b) = Len(a) + Len(b)
      /\ \A i \in 1..(Len(a) + Len(b)) : (a \o b)[i] = IF i <= Len(a) THEN a[i] ELSE b[i - Len(a)]
  BY <1>2, <1>3, ConcatProperties
<1> QED
  BY <1>1, <1>2, <1>3, <1>4, <1>5

\* A session that is touched is the last of the order; the others stay in it, and it
\* only grows by a session it did not have.
LEMMA TouchedProperties ==
    ASSUME NEW order \in Seq(Sessions), NEW k \in Sessions
    PROVE  /\ Touched(order, k) \in Seq(Sessions)
           /\ Touched(order, k)[Len(Touched(order, k))] = k
           /\ InMemory(Touched(order, k)) = InMemory(order) \cup {k}
           /\ k \in InMemory(order) => Len(Touched(order, k)) = Len(order)
           /\ k \notin InMemory(order) => Len(Touched(order, k)) = Len(order) + 1
<1>1. InMemory(order) = {order[i] : i \in 1..Len(order)}
  BY InMemoryDef
<1>2. Len(order) \in Nat
  BY LenProperties
<1>3. CASE Positions(order, k) = {}
  <2> DEFINE t == Append(order, k)
  <2>1. Touched(order, k) = t
    BY <1>3 DEF Touched
  <2>2. /\ t \in Seq(Sessions) /\ Len(t) = Len(order) + 1
        /\ \A i \in 1..Len(order) : t[i] = order[i]
        /\ t[Len(order) + 1] = k
    BY AppendProperties
  <2>3. InMemory(t) = {t[i] : i \in 1..Len(t)}
    BY <2>2, InMemoryDef
  <2>4. k \notin InMemory(order)
    BY <1>1, <1>3 DEF Positions
  <2> HIDE DEF t
  <2>5. 1..Len(t) = 1..Len(order) \cup {Len(order) + 1}
    BY <1>2, <2>2
  <2>6. InMemory(t) = InMemory(order) \cup {k}
    BY <1>1, <2>2, <2>3, <2>5
  <2> QED
    BY <2>1, <2>2, <2>4, <2>6
<1>4. CASE Positions(order, k) # {}
  <2> DEFINE p == CHOOSE i \in Positions(order, k) : TRUE
             rest == Seqs!RemoveAt(order, p)
             t == Append(rest, k)
  <2>1. Touched(order, k) = t
    BY <1>4 DEF Touched
  <2>2. p \in 1..Len(order) /\ order[p] = k
    BY <1>4 DEF Positions
  <2> HIDE DEF p
  <2>3. /\ rest \in Seq(Sessions) /\ Len(rest) = Len(order) - 1
        /\ \A i \in 1..(Len(order) - 1) : rest[i] = IF i < p THEN order[i] ELSE order[i + 1]
    BY <2>2, RemoveAtProperties
  <2> HIDE DEF rest
  <2>4. /\ t \in Seq(Sessions) /\ Len(t) = Len(rest) + 1
        /\ \A i \in 1..Len(rest) : t[i] = rest[i]
        /\ t[Len(rest) + 1] = k
    BY <2>3, AppendProperties
  <2>5. InMemory(t) = {t[i] : i \in 1..Len(t)}
    BY <2>4, InMemoryDef
  <2> HIDE DEF t
  <2>6. Len(t) = Len(order) /\ t[Len(order)] = k
    BY <1>2, <2>3, <2>4
  <2>7. k \in InMemory(order)
    BY <1>1, <2>2
  <2>8. InMemory(t) \subseteq InMemory(order)
    <3>1. SUFFICES ASSUME NEW i \in 1..Len(order) PROVE t[i] \in InMemory(order)
      BY <2>5, <2>6
    <3>2. CASE i = Len(order)
      BY <2>6, <2>7, <3>2
    <3>3. CASE i # Len(order)
      <4>1. t[i] = IF i < p THEN order[i] ELSE order[i + 1]
        BY <1>2, <2>3, <2>4, <3>3
      <4>2. i \in 1..Len(order) /\ i + 1 \in 1..Len(order)
        BY <1>2, <3>3
      <4> QED
        BY <1>1, <4>1, <4>2
    <3> QED
      BY <3>2, <3>3
  <2>9. InMemory(order) \subseteq InMemory(t)
    <3>1. SUFFICES ASSUME NEW j \in 1..Len(order) PROVE order[j] \in InMemory(t)
      BY <1>1
    <3>2. CASE j < p
      <4>1. j \in 1..Len(t) /\ t[j] = order[j]
        BY <1>2, <2>2, <2>3, <2>4, <2>6, <3>2
      <4> QED
        BY <2>5, <4>1
    <3>3. CASE j = p
      <4>1. Len(order) \in 1..Len(t) /\ t[Len(order)] = order[j]
        BY <1>2, <2>2, <2>6, <3>3
      <4> QED
        BY <2>5, <4>1
    <3>4. CASE j > p
      <4>1. j - 1 \in 1..Len(t) /\ t[j - 1] = order[j]
        BY <1>2, <2>2, <2>3, <2>4, <2>6, <3>4
      <4> QED
        BY <2>5, <4>1
    <3> QED
      BY <2>2, <3>2, <3>3, <3>4
  <2> QED
    BY <2>1, <2>4, <2>6, <2>7, <2>8, <2>9
<1> QED
  BY <1>3, <1>4

\* Eviction keeps the end of the order, and no more than fits.
LEMMA KeptProperties ==
    ASSUME NEW order \in Seq(Sessions), order # << >>
    PROVE  /\ Kept(order) \in Seq(Sessions)
           /\ Len(Kept(order)) <= MaxSessions
           /\ InMemory(Kept(order)) \subseteq InMemory(order)
           /\ order[Len(order)] \in InMemory(Kept(order))
<1>1. Len(order) \in Nat /\ Len(order) # 0 /\ \A i \in 1..Len(order) : order[i] \in Sessions
  BY LenProperties, EmptySeq, ElementOfSeq
<1>2. MaxSessions \in Nat /\ MaxSessions >= 1
  BY SessionAssumption
<1>3. InMemory(order) = {order[i] : i \in 1..Len(order)}
  BY InMemoryDef
<1>4. CASE Len(order) <= MaxSessions
  <2>1. Kept(order) = order
    BY <1>1, <1>2, <1>4 DEF Kept
  <2>2. Len(order) \in 1..Len(order)
    BY <1>1
  <2> QED
    BY <1>3, <1>4, <2>1, <2>2
<1>5. CASE Len(order) > MaxSessions
  <2> DEFINE m == Len(order) - MaxSessions + 1
             kept == SubSeq(order, m, Len(order))
  <2>1. Kept(order) = kept
    BY <1>5 DEF Kept
  <2>2. m \in Int /\ m >= 1 /\ m <= Len(order) /\ Len(order) - m + 1 = MaxSessions
    BY <1>1, <1>2, <1>5
  <2> HIDE DEF m
  <2>3. Len(order) \in Int /\ \A i \in m..Len(order) : order[i] \in Sessions
    BY <1>1, <2>2
  <2>4. /\ kept \in Seq(Sessions)
        /\ Len(kept) = IF m <= Len(order) THEN Len(order) - m + 1 ELSE 0
        /\ \A i \in 1..(Len(order) - m + 1) : kept[i] = order[m + i - 1]
    BY <2>2, <2>3, SubSeqProperties
  <2> HIDE DEF kept
  <2>5. Len(kept) = MaxSessions /\ \A i \in 1..MaxSessions : kept[i] = order[m + i - 1]
    BY <2>2, <2>4
  <2>6. InMemory(kept) = {kept[i] : i \in 1..Len(kept)}
    BY <2>4, InMemoryDef
  <2>7. InMemory(kept) \subseteq InMemory(order)
    <3>1. \A i \in 1..MaxSessions : m + i - 1 \in 1..Len(order)
      BY <1>1, <1>2, <2>2
    <3> QED
      BY <1>3, <2>5, <2>6, <3>1
  <2>8. order[Len(order)] \in InMemory(kept)
    <3>1. MaxSessions \in 1..MaxSessions /\ m + MaxSessions - 1 = Len(order)
      BY <1>1, <1>2, <2>2
    <3> QED
      BY <2>5, <2>6, <3>1
  <2> QED
    BY <1>2, <2>1, <2>4, <2>5, <2>7, <2>8
<1> QED
  BY <1>1, <1>2, <1>4, <1>5

-----------------------------------------------------------------------------
(* The invariant                                                           *)

LEMMA StoreInitInv == StoreInit => StoreInv
<1> SUFFICES ASSUME StoreInit PROVE StoreInv
  OBVIOUS
<1>1. lru \in Seq(Sessions) /\ Len(lru) = 0
  BY EmptySeq DEF StoreInit
<1>2. InMemory(lru) = {}
  <2>1. InMemory(lru) = {lru[i] : i \in 1..Len(lru)}
    BY <1>1, InMemoryDef
  <2>2. 1..Len(lru) = {}
    BY <1>1
  <2> QED
    BY <2>1, <2>2
<1> QED
  BY <1>1, <1>2, SessionAssumption DEF StoreInit, StoreInv

LEMMA TakeKeepsInv ==
    ASSUME StoreInv, NEW k \in Sessions, Take(k)
    PROVE  StoreInv'
<1>1. CASE k \in stored
  <2>1. lru' = Touched(lru, k) /\ held' = k /\ stage' = "used" /\ UNCHANGED <<stored, users>>
    BY <1>1 DEF Take
  <2>2. /\ lru' \in Seq(Sessions) /\ Len(lru') = Len(lru)
        /\ InMemory(lru') = InMemory(lru) \cup {k}
    BY <1>1, <2>1, TouchedProperties DEF StoreInv
  <2> QED
    BY <1>1, <2>1, <2>2 DEF StoreInv
<1>2. CASE k \notin stored
  BY <1>2 DEF Take, StoreInv
<1> QED
  BY <1>1, <1>2

LEMMA CreateKeepsInv ==
    ASSUME StoreInv, CreateSession
    PROVE  StoreInv'
<1> DEFINE order == Touched(lru, held)
<1>1. /\ stored' = (stored \cup {held}) \ Evicted(order)
      /\ lru' = Kept(order) /\ users' = users \ Evicted(order)
      /\ held' = held /\ stage' = "used"
  BY DEF CreateSession, UsersLeft
<1>2. /\ lru \in Seq(Sessions) /\ held \in Sessions
      /\ stored = InMemory(lru) /\ users \subseteq stored
  BY DEF StoreInv
<1>3. /\ order \in Seq(Sessions)
      /\ order[Len(order)] = held
      /\ InMemory(order) = InMemory(lru) \cup {held}
      /\ Len(order) \in {Len(lru), Len(lru) + 1}
  BY <1>2, TouchedProperties
<1> HIDE DEF order
<1>4. order # << >>
  <2>1. InMemory(order) = {order[i] : i \in 1..Len(order)}
    BY <1>3, InMemoryDef
  <2>2. PICK i \in 1..Len(order) : order[i] = held
    BY <1>3, <2>1
  <2>3. Len(order) # 0
    BY <2>2
  <2> QED
    BY <2>3, EmptySeq
<1>5. /\ Kept(order) \in Seq(Sessions) /\ Len(Kept(order)) <= MaxSessions
      /\ InMemory(Kept(order)) \subseteq InMemory(order)
      /\ held \in InMemory(Kept(order))
  BY <1>3, <1>4, KeptProperties
<1>6. Evicted(order) = InMemory(order) \ InMemory(Kept(order))
  BY DEF Evicted, InMemory
<1>7. stored' = InMemory(Kept(order)) /\ users' \subseteq stored' /\ held \in stored'
  BY <1>1, <1>2, <1>3, <1>5, <1>6
<1> QED
  BY <1>1, <1>2, <1>5, <1>7 DEF StoreInv

LEMMA UseKeepsInv ==
    ASSUME StoreInv, Use
    PROVE  StoreInv'
<1>1. /\ held \in stored /\ lru' = Touched(lru, held)
      /\ users' = users \cup {held} /\ UNCHANGED <<stored, held, stage>>
  BY DEF Use, StoreInv
<1>2. /\ lru' \in Seq(Sessions) /\ Len(lru') = Len(lru)
      /\ InMemory(lru') = InMemory(lru) \cup {held}
  BY <1>1, TouchedProperties DEF StoreInv
<1> QED
  BY <1>1, <1>2 DEF StoreInv

\* The inductive invariant of the store, for any sessions and any limit.
THEOREM StoreInvariant == StoreSpec => []StoreInv
<1>1. StoreInit => StoreInv
  BY StoreInitInv
<1>2. StoreInv /\ [StoreNext]_storeVars => StoreInv'
  <2>1. ASSUME StoreInv, Leave PROVE StoreInv'
    BY <2>1 DEF Leave, StoreInv
  <2>2. ASSUME StoreInv, UNCHANGED storeVars PROVE StoreInv'
    BY <2>2 DEF storeVars, StoreInv
  <2> QED
    BY <2>1, <2>2, TakeKeepsInv, CreateKeepsInv, UseKeepsInv DEF StoreNext
<1> QED
  BY <1>1, <1>2, PTL DEF StoreSpec

\* The session of the delivery in hand is in memory until the delivery is over
\* (session_service.py:40-66), for any limit, also when only one session fits.
THEOREM HeldSessionIsKept == StoreSpec => []HeldSessionStays
<1>1. StoreInv => HeldSessionStays
  BY DEF StoreInv, HeldSessionStays
<1> QED
  BY <1>1, StoreInvariant, PTL

\* Neither the sessions nor the states of their users outgrow the limit
\* (session_service.py:46-66).
THEOREM MemoryIsBounded == StoreSpec => []MemoryBounded
<1>1. StoreInv => MemoryBounded
  <2> SUFFICES ASSUME StoreInv PROVE MemoryBounded
    OBVIOUS
  <2> DEFINE n == Len(lru)
             f == [i \in 1..n |-> lru[i]]
  <2>1. n \in Nat /\ n <= MaxSessions /\ MaxSessions \in Nat
    BY LenProperties, SessionAssumption DEF StoreInv
  <2>2. stored = {lru[i] : i \in 1..n}
    BY InMemoryDef DEF StoreInv
  <2> HIDE DEF n
  <2>3. IsFiniteSet(1..n) /\ Cardinality(1..n) = n
    <3>1. /\ IsFiniteSet(1..n)
          /\ Cardinality(1..n) = IF 1 > n THEN 0 ELSE n - 1 + 1
      BY <2>1, FS_Interval
    <3> QED
      BY <2>1, <3>1
  <2>4. f \in Surjection(1..n, stored)
    BY <2>2 DEF Surjection
  <2>5. IsFiniteSet(stored) /\ Cardinality(stored) <= Cardinality(1..n)
    BY <2>3, <2>4, FS_Surjection
  <2>6. IsFiniteSet(users) /\ Cardinality(users) <= Cardinality(stored)
    BY <2>5, FS_Subset DEF StoreInv
  <2>7. Cardinality(stored) \in Nat /\ Cardinality(users) \in Nat
    BY <2>5, <2>6, FS_CardinalityType
  <2> QED
    BY <2>1, <2>3, <2>5, <2>6, <2>7 DEF MemoryBounded
<1> QED
  BY <1>1, StoreInvariant, PTL

=============================================================================
