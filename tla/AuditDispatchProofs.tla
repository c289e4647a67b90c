------------------------ MODULE AuditDispatchProofs ------------------------
(***************************************************************************)
(* From webhook to audit, proved for any number of commits, messages,      *)
(* attempts and failures.                                                  *)
(*                                                                         *)
(* DispatchInv says, of a worker in the middle of an event, what it may    *)
(* still rely on although GitHub has moved on since it looked: that CI was *)
(* once green (Gate), that the files it read are of its commit or of a     *)
(* later one (Known), and that the claim it holds is nobody else's         *)
(* (Claims).                                                               *)
(***************************************************************************)
EXTENDS AuditDispatch, TLAPS

\* Nothing is known of a commit before it is pushed.
Known ==
    /\ \A i \in DOMAIN sent : sent[i].head <= head
    /\ \A h \in Heads : checkpoint[h] # "none" => h <= head
    /\ job.pc # "idle" =>
          /\ job.head \in Heads /\ job.head <= head /\ job.kind # "none"
          /\ job.kind # "resume" => job.id \in DOMAIN sent
    /\ job.files # NoHead => job.head <= job.files /\ job.files <= head

\* Past the CI gate.
Gated == {"live", "prep", "files", "run", "turn", "submit", "after"}

Gate ==
    /\ \A h \in Heads, s \in Signals : ci[h][s] = "passed" => s \in green[h]
    /\ (At("status") /\ job.checks = "passed") \/ job.pc \in Gated => green[job.head] # {}
    /\ \A h \in reviews : green[h] # {}

\* An event between its claim and the model run, and between its claim and the
\* end of the event.
Underway == job.kind # "resume" /\ job.pc \in {"prep", "files", "run"}
Claiming == Underway \/ (job.kind # "resume" /\ job.pc \in {"turn", "submit", "after"})

Claims ==
    /\ audited \subseteq claimed
    /\ Claiming => job.head \in claimed
    /\ Underway => job.head \notin audited

\* The events after which a claim may stay although no audit earned it.
Excused == {"close", "quota", "tokenError"}

Earned ==
    /\ \A h \in Heads : checkpoint[h] \in {"paused", "due"} => "quota" \in happened
    /\ \A h \in Heads : checkpoint[h] = "completed" => h \in reviews
    /\ job.kind = "resume" => "quota" \in happened
    /\ ~open => "close" \in happened
    /\ job.pc \in {"prep", "files", "run"} => job.head \notin reviews
    /\ happened \cap Excused = {} =>
          claimed \subseteq audited \cup (IF Underway THEN {job.head} ELSE {})

DispatchInv == DispatchTypeOK /\ Known /\ Gate /\ Claims /\ Earned

-----------------------------------------------------------------------------
(* The steps the actions share                                             *)

\* The parts of a job that name its event.
SameEvent ==
    /\ job'.id = job.id /\ job'.kind = job.kind /\ job'.head = job.head

LEMMA IdleType ==
    /\ Idle \in Job /\ Idle.pc = "idle" /\ Idle.id = 0 /\ Idle.kind = "none"
    /\ Idle.files = NoHead /\ Idle.head = NoHead
BY DispatchAssumption DEF Idle, Job, CIStates

LEMMA GotoType ==
    ASSUME job \in Job, NEW pc \in {"suite", "checks", "live", "prep", "run", "turn",
                                    "submit", "after", "ack", "deadLetter"},
           Goto(pc)
    PROVE  /\ job' \in Job /\ job'.pc = pc /\ SameEvent
           /\ job'.files = job.files /\ job'.checks = job.checks
BY DEF Goto, Job, SameEvent

LEMMA ReturnType ==
    ASSUME job \in Job, Return
    PROVE  /\ job' \in Job
           /\ \/ job' = Idle
              \/ job'.pc = "ack" /\ SameEvent /\ job'.files = job.files
                 /\ job.kind # "resume"
BY IdleType DEF Return, Job, SameEvent

LEMMA RaiseType ==
    ASSUME job \in Job, Raise
    PROVE  /\ job' \in Job
           /\ \/ job' = Idle
              \/ job'.pc \in {"tier0", "ack", "deadLetter"} /\ SameEvent
                 /\ job'.files = job.files
<1>1. CASE job' = Idle
  BY <1>1, IdleType
<1>2. CASE Goto("ack") \/ Goto("deadLetter")
  BY <1>2, GotoType
<1>3. CASE Retry
  <2>1. job.attempt + 1 \in 0..MaxAttempts
    BY <1>3, DispatchAssumption DEF Retry, Job
  <2>2. job' = [job EXCEPT !.pc = "tier0", !.attempt = job.attempt + 1]
    BY <1>3 DEF Retry, Job
  <2> QED BY <2>1, <2>2 DEF Job, SameEvent
<1> QED BY <1>1, <1>2, <1>3 DEF Raise

\* An event that is over: the worker idles, or has to acknowledge or retry it.
Over ==
    /\ job' \in Job
    /\ \/ job' = Idle
       \/ /\ job'.pc \in {"tier0", "ack", "deadLetter"} /\ SameEvent
          /\ job'.files = job.files

LEMMA OverReturn == ASSUME job \in Job, Return \/ Raise PROVE Over
BY ReturnType, RaiseType DEF Over

LEMMA ForgetType ==
    ASSUME DispatchTypeOK, Forget
    PROVE  processed' \subseteq processed /\ swept' \subseteq swept /\ UNCHANGED closedMark
BY DEF Forget

LEMMA FaultType ==
    ASSUME DispatchTypeOK, NEW kind, Fault(kind) \/ Fine
    PROVE  budget' \in 0..MaxFaults /\ happened' \subseteq FaultKinds \cup AuthorActions
           /\ happened \subseteq happened'
BY DispatchAssumption DEF DispatchTypeOK, Fault, Fine

\* What every step of the worker leaves alone or keeps in its type.
Frame ==
    /\ UNCHANGED <<head, open, ci, green, sent>>
    /\ queue' \subseteq queue /\ processed' \subseteq DOMAIN sent
    /\ swept' \subseteq Heads /\ closedMark' \in BOOLEAN
    /\ budget' \in 0..MaxFaults /\ happened' \subseteq FaultKinds \cup AuthorActions
    /\ happened \subseteq happened'

\* What a step may write to the checkpoints: those of its own commit.
OwnCheckpoint ==
    /\ checkpoint' \in [Heads -> Statuses]
    /\ \A h \in Heads : checkpoint'[h] # checkpoint[h] =>
          /\ h = job.head
          /\ \/ checkpoint'[h] = "pending"
             \/ checkpoint'[h] = "paused" /\ "quota" \in happened'
             \/ checkpoint'[h] = "completed" /\ h \in reviews'

LEMMA SameCheckpoint ==
    ASSUME DispatchTypeOK, UNCHANGED checkpoint
    PROVE  OwnCheckpoint
BY DEF DispatchTypeOK, OwnCheckpoint

\* An event that ends keeps the invariant if it leaves no unearned claim behind.
LEMMA OverInv ==
    ASSUME DispatchInv, Over, Frame, OwnCheckpoint, job.pc # "idle",
           reviews \subseteq reviews', reviews' \subseteq Heads,
           \A h \in reviews' : green[h] # {},
           claimed' \subseteq claimed, audited' \subseteq audited, audited' \subseteq claimed',
           happened' \cap Excused = {} => claimed' \subseteq audited'
    PROVE  DispatchInv'
<1>1. job' \in Job /\ job'.pc \notin Gated /\ job'.pc # "status"
  BY IdleType DEF Over, Gated
<1>2. DispatchTypeOK'
  BY <1>1 DEF DispatchInv, DispatchTypeOK, Frame, OwnCheckpoint
<1>3. Known'
  <2>1. \A h \in Heads : checkpoint'[h] # "none" => h <= head'
    BY DEF DispatchInv, Known, Frame, OwnCheckpoint
  <2>2. job' = Idle \/ (SameEvent /\ job'.files = job.files)
    BY DEF Over
  <2>3. CASE job' = Idle
    BY <2>1, <2>3, IdleType DEF DispatchInv, Known, Frame
  <2>4. CASE SameEvent /\ job'.files = job.files
    BY <2>1, <2>4 DEF DispatchInv, Known, Frame, SameEvent
  <2> QED BY <2>2, <2>3, <2>4
<1>4. Gate'
  BY <1>1 DEF DispatchInv, Gate, Frame, At
<1>5. Claims' /\ ~Underway'
  BY <1>1 DEF Claims, Claiming, Underway, Gated
<1>6. Earned'
  <2>1. job'.kind = "resume" => job.kind = "resume"
    BY IdleType DEF Over, SameEvent
  <2>2. \A h \in Heads : checkpoint'[h] \in {"paused", "due"} => "quota" \in happened'
    BY DEF DispatchInv, Earned, Frame, OwnCheckpoint
  <2>3. \A h \in Heads : checkpoint'[h] = "completed" => h \in reviews'
    BY DEF DispatchInv, Earned, Frame, OwnCheckpoint
  <2> QED BY <1>1, <1>5, <2>1, <2>2, <2>3 DEF DispatchInv, Earned, Frame, Gated
<1> QED BY <1>2, <1>3, <1>4, <1>5, <1>6 DEF DispatchInv

\* An event that goes on without a claim, or with one it had.
LEMMA GoOnInv ==
    ASSUME DispatchInv, Frame, OwnCheckpoint, job.pc # "idle",
           job' \in Job, SameEvent,
           job'.files # NoHead => job.head <= job'.files /\ job'.files <= head,
           (job'.pc = "status" /\ job'.checks = "passed") \/ job'.pc \in Gated
              => green[job.head] # {},
           reviews \subseteq reviews', reviews' \subseteq Heads,
           \A h \in reviews' : green[h] # {},
           job'.pc \in {"prep", "files", "run"} => job.head \notin reviews',
           audited' \subseteq claimed', claimed' \subseteq Heads,
           Claiming' => job.head \in claimed',
           Underway' => job.head \notin audited',
           happened' \cap Excused = {} =>
              claimed' \subseteq audited' \cup (IF Underway' THEN {job.head} ELSE {})
    PROVE  DispatchInv'
<1>1. DispatchTypeOK'
  BY DEF DispatchInv, DispatchTypeOK, Frame, OwnCheckpoint
<1>2. Known'
  BY DEF DispatchInv, Known, Frame, OwnCheckpoint, SameEvent
<1>3. Gate'
  BY DEF DispatchInv, Gate, Frame, At, SameEvent
<1>4. Claims'
  BY DEF Claims, Claiming, Underway, SameEvent
<1>5. Earned'
  <2>1. \A h \in Heads : checkpoint'[h] \in {"paused", "due"} => "quota" \in happened'
    BY DEF DispatchInv, Earned, Frame, OwnCheckpoint
  <2>2. \A h \in Heads : checkpoint'[h] = "completed" => h \in reviews'
    BY DEF DispatchInv, Earned, Frame, OwnCheckpoint
  <2> QED BY <2>1, <2>2 DEF DispatchInv, Earned, Frame, SameEvent
<1> QED BY <1>1, <1>2, <1>3, <1>4, <1>5 DEF DispatchInv

-----------------------------------------------------------------------------
(* Tier 0 and Tier 1                                                       *)

\* Before its claim an event owes nothing.
Early ==
    /\ ~Claiming /\ ~Underway
    /\ audited \subseteq claimed /\ claimed \subseteq Heads
    /\ happened \cap Excused = {} => claimed \subseteq audited
    /\ reviews \subseteq Heads /\ \A h \in reviews : green[h] # {}
    /\ job \in Job /\ DispatchTypeOK
    /\ job.files # NoHead => job.head <= job.files /\ job.files <= head

LEMMA EarlyFacts ==
    ASSUME DispatchInv, job.pc \notin Gated \ {"live"}
    PROVE  Early
BY DEF Early, DispatchInv, DispatchTypeOK, Known, Claims, Claiming, Underway, Earned, Gate, Gated

LEMMA Tier0Inv ==
    ASSUME DispatchInv, Tier0
    PROVE  DispatchInv'
<1>0. job.pc = "tier0" /\ job.pc \notin Gated
  BY DEF Tier0, At, Gated
<1>a. Early
  BY <1>0, EarlyFacts
<1>1. /\ job.pc = "tier0" /\ Fine /\ UNCHANGED <<reviews, checkpoint, claimed, audited, happened>>
      /\ UNCHANGED <<head, open, ci, green, queue, sent>>
  BY DEF Tier0, At, github, pubsub, history, memory, Fine, Record
<1>2. OwnCheckpoint
  BY <1>a, <1>1, SameCheckpoint DEF Early
<1>3. Frame
  <2>1. Record => processed' \subseteq DOMAIN sent /\ swept' \subseteq Heads /\ UNCHANGED closedMark
    BY <1>0 DEF Record, DispatchInv, DispatchTypeOK, Known
  <2> QED BY <1>a, <1>1, <2>1, FaultType DEF Early, Frame, Tier0, memory, DispatchTypeOK
<1>4. CASE Return
  <2>1. Over
    BY <1>a, <1>4, OverReturn DEF Early
  <2> QED BY <1>a, <1>1, <1>2, <1>3, <2>1, OverInv DEF Early
<1>5. CASE Goto("suite") \/ Goto("checks")
  <2>1. job' \in Job /\ job'.pc \in {"suite", "checks"} /\ SameEvent /\ job'.files = job.files
    BY <1>a, <1>5, GotoType DEF Early
  <2>2. ~Claiming' /\ ~Underway'
    BY <2>1 DEF Claiming, Underway
  <2> QED BY <1>a, <1>1, <1>2, <1>3, <2>1, <2>2, GoOnInv DEF Early, Gated
<1> QED BY <1>4, <1>5 DEF Tier0

\* review_if_ci_green: a nested event, or nothing.
LEMMA SuiteInv ==
    ASSUME DispatchInv, Suite
    PROVE  DispatchInv'
<1>0. job.pc = "suite" /\ job.pc \notin Gated
  BY DEF Suite, At, Gated
<1>a. Early
  BY <1>0, EarlyFacts
<1>1. /\ UNCHANGED <<reviews, checkpoint, claimed, audited>>
      /\ Frame /\ OwnCheckpoint
  BY <1>a, FaultType, SameCheckpoint
     DEF Early, Suite, github, pubsub, memory, Frame, DispatchTypeOK
<1>2. CASE Return
  <2>1. Over
    BY <1>a, <1>2, OverReturn DEF Early
  <2> QED BY <1>a, <1>0, <1>1, <2>1, OverInv DEF Early, Frame
<1>3. CASE job' = [job EXCEPT !.pc = "checks", !.nested = TRUE]
  <2>1. job' \in Job /\ job'.pc = "checks" /\ SameEvent /\ job'.files = job.files
    BY <1>a, <1>3 DEF Early, Job, SameEvent
  <2>2. ~Claiming' /\ ~Underway'
    BY <2>1 DEF Claiming, Underway
  <2> QED BY <1>a, <1>0, <1>1, <2>1, <2>2, GoOnInv DEF Early, Gated, Frame
<1> QED BY <1>2, <1>3 DEF Suite

\* A green summary has a signal that passed.
LEMMA SummaryPassed ==
    ASSUME NEW states
    PROVE  /\ Summary(states) \in CIStates
           /\ Summary(states) = "passed" => "passed" \in states
BY DEF Summary, CIStates

LEMMA EvaluateChecksInv ==
    ASSUME DispatchInv, EvaluateChecks
    PROVE  DispatchInv'
<1>0. job.pc = "checks" /\ job.pc \notin Gated
  BY DEF EvaluateChecks, At, Gated
<1>a. Early
  BY <1>0, EarlyFacts
<1>1. /\ UNCHANGED <<reviews, checkpoint, claimed, audited>>
      /\ Frame /\ OwnCheckpoint
  BY <1>a, FaultType, SameCheckpoint
     DEF Early, EvaluateChecks, github, pubsub, memory, Frame, DispatchTypeOK
<1>2. CASE Return
  <2>1. Over
    BY <1>a, <1>2, OverReturn DEF Early
  <2> QED BY <1>a, <1>0, <1>1, <2>1, OverInv DEF Early, Frame
<1>3. CASE job' = [job EXCEPT !.pc = "status", !.checks = CheckRuns]
  <2>1. CheckRuns \in CIStates
    BY SummaryPassed DEF CheckRuns
  <2>2. /\ job' \in Job /\ job'.pc = "status" /\ SameEvent /\ job'.files = job.files
        /\ job'.checks = CheckRuns
    BY <1>a, <1>3, <2>1 DEF Early, Job, SameEvent
  <2>3. ~Claiming' /\ ~Underway'
    BY <2>2 DEF Claiming, Underway
  <2>4. CheckRuns = "passed" => green[job.head] # {}
    <3> HAVE CheckRuns = "passed"
    <3>1. PICK s \in Signals : ci[job.head][s] = "passed"
      BY SummaryPassed DEF CheckRuns
    <3>2. job.head \in Heads
      BY <1>0 DEF DispatchInv, Known
    <3> QED BY <3>1, <3>2 DEF DispatchInv, Gate
  <2> QED BY <1>a, <1>0, <1>1, <2>2, <2>3, <2>4, GoOnInv DEF Early, Gated, Frame
<1> QED BY <1>2, <1>3 DEF EvaluateChecks

\* The CI gate: a commit gets past it only if some signal of it has passed.
LEMMA EvaluateStatusInv ==
    ASSUME DispatchInv, EvaluateStatus
    PROVE  DispatchInv'
<1>0. job.pc = "status" /\ job.pc \notin Gated
  BY DEF EvaluateStatus, At, Gated
<1>a. Early
  BY <1>0, EarlyFacts
<1>1. /\ UNCHANGED <<reviews, checkpoint, claimed, audited>>
      /\ Frame /\ OwnCheckpoint
  BY <1>a, FaultType, SameCheckpoint
     DEF Early, EvaluateStatus, github, pubsub, memory, Frame, DispatchTypeOK
<1>2. CASE Return
  <2>1. Over
    BY <1>a, <1>2, OverReturn DEF Early
  <2> QED BY <1>a, <1>0, <1>1, <2>1, OverInv DEF Early, Frame
<1>3. CASE Goto("live") /\ Summary({job.checks, CombinedStatus}) = "passed"
  <2>1. /\ job' \in Job /\ job'.pc = "live" /\ SameEvent /\ job'.files = job.files
    BY <1>a, <1>3, GotoType DEF Early
  <2>2. ~Claiming' /\ ~Underway'
    BY <2>1 DEF Claiming, Underway
  <2>3. green[job.head] # {}
    <3>1. job.checks = "passed" \/ CombinedStatus = "passed"
      BY <1>3, SummaryPassed
    <3>2. CASE job.checks = "passed"
      BY <1>0, <3>2 DEF DispatchInv, Gate, At
    <3>3. CASE CombinedStatus = "passed"
      <4>1. PICK s \in Signals : ci[job.head][s] = "passed"
        BY <3>3, SummaryPassed DEF CombinedStatus
      <4>2. job.head \in Heads
        BY <1>0 DEF DispatchInv, Known
      <4> QED BY <4>1, <4>2 DEF DispatchInv, Gate
    <3> QED BY <3>1, <3>2, <3>3
  <2> QED BY <1>a, <1>0, <1>1, <2>1, <2>2, <2>3, GoOnInv DEF Early, Frame
<1> QED BY <1>2, <1>3 DEF EvaluateStatus

\* The claim: granted only where no other event has one.
LEMMA LiveInv ==
    ASSUME DispatchInv, Live
    PROVE  DispatchInv'
<1>0. job.pc = "live" /\ job.pc \in Gated
  BY DEF Live, At, Gated
<1>a. Early
  BY <1>0, EarlyFacts
<1>b. green[job.head] # {} /\ job.head \in Heads
  BY <1>0 DEF DispatchInv, Gate, Known
<1>1. UNCHANGED <<reviews, checkpoint, audited>> /\ Frame /\ OwnCheckpoint
  BY <1>a, FaultType, SameCheckpoint
     DEF Early, Live, github, pubsub, memory, Frame, DispatchTypeOK
<1>2. CASE Return /\ UNCHANGED claimed
  <2>1. Over
    BY <1>a, <1>2, OverReturn DEF Early
  <2> QED BY <1>a, <1>0, <1>1, <1>2, <2>1, OverInv DEF Early, Frame
<1>3. CASE /\ Goto("prep") /\ ~Stale /\ ~ClaimTaken
           /\ claimed' = IF job.kind = "resume" THEN claimed ELSE claimed \cup {job.head}
  <2>1. /\ job' \in Job /\ job'.pc = "prep" /\ SameEvent /\ job'.files = job.files
    BY <1>a, <1>3, GotoType DEF Early
  <2>2. job.head \notin reviews
    BY <1>3 DEF Stale
  <2>3. job.kind # "resume" => job.head \notin audited
    BY <1>3, <1>a DEF Early, ClaimTaken
  <2>4. /\ audited' \subseteq claimed' /\ claimed' \subseteq Heads
        /\ Claiming' => job.head \in claimed'
        /\ Underway' => job.head \notin audited'
        /\ Underway' <=> job.kind # "resume"
    BY <1>a, <1>b, <1>1, <1>3, <2>1, <2>3 DEF Early, Claiming, Underway, SameEvent
  <2>5. happened' \cap Excused = {} =>
          claimed' \subseteq audited' \cup (IF Underway' THEN {job.head} ELSE {})
    BY <1>a, <1>1, <1>3, <2>4 DEF Early, Frame
  <2> QED BY <1>a, <1>b, <1>0, <1>1, <2>1, <2>2, <2>4, <2>5, GoOnInv DEF Early, Frame
<1> QED BY <1>2, <1>3 DEF Live

-----------------------------------------------------------------------------
(* Tier 2                                                                  *)

\* After its claim an event has a commit with a green signal, and the claim is
\* its own.
Late ==
    /\ job \in Job /\ DispatchTypeOK /\ job.pc \notin {"idle", "status"}
    /\ job.head \in Heads /\ job.head <= head /\ head \in Heads
    /\ green[job.head] # {}
    /\ job.files # NoHead => job.head <= job.files /\ job.files <= head
    /\ reviews \subseteq Heads /\ \A h \in reviews : green[h] # {}
    /\ audited \subseteq claimed /\ claimed \subseteq Heads
    /\ job.kind # "resume" => job.head \in claimed
    /\ job.pc \in {"prep", "files", "run"} =>
          /\ job.head \notin reviews
          /\ job.kind # "resume" => job.head \notin audited
    /\ happened \cap Excused = {} =>
          claimed \subseteq audited \cup (IF Underway THEN {job.head} ELSE {})

LEMMA LateFacts ==
    ASSUME DispatchInv, job.pc \in Gated \ {"live"}
    PROVE  Late
BY DEF Late, DispatchInv, DispatchTypeOK, Known, Claims, Claiming, Underway, Earned, Gate, Gated

\* The next step towards the run, with the claims as they are.
LEMMA ToRunInv ==
    ASSUME DispatchInv, Late, Frame, job.pc \in {"prep", "files"},
           job' \in Job, SameEvent, job'.pc \in {"files", "run"},
           job'.files # NoHead => job.head <= job'.files /\ job'.files <= head,
           UNCHANGED <<reviews, checkpoint, claimed, audited>>
    PROVE  DispatchInv'
<1>1. OwnCheckpoint
  BY SameCheckpoint DEF Late
<1>2. Underway' <=> Underway
  BY DEF Underway, SameEvent
<1>3. Claiming' => job.head \in claimed'
  BY DEF Claiming, Underway, SameEvent, Late
<1>4. Underway' => job.head \notin audited'
  BY <1>2 DEF Underway, Late
<1> QED BY <1>1, <1>2, <1>3, <1>4, GoOnInv DEF Late, Gated, Frame

LEMMA PrepInv ==
    ASSUME DispatchInv, Prep
    PROVE  DispatchInv'
<1>0. job.pc = "prep" /\ Late
  BY LateFacts DEF Prep, At, Gated
<1>1. UNCHANGED <<reviews, checkpoint, audited>> /\ OwnCheckpoint
  BY <1>0, SameCheckpoint DEF Prep, github, Late
<1>2. Frame
  <2>1. Forget => processed' \subseteq processed /\ swept' \subseteq swept /\ UNCHANGED closedMark
    BY <1>0, ForgetType DEF Late
  <2>2. Raise => Forget
    BY DEF Raise
  <2> QED BY <1>0, <2>1, <2>2, FaultType
          DEF Prep, github, pubsub, memory, Frame, DispatchTypeOK, Late
<1>3. CASE job' = [job EXCEPT !.pc = "run",
                              !.diff = IF job.files = NoHead THEN job.head ELSE @,
                              !.files = IF @ = NoHead THEN job.head ELSE @]
           /\ UNCHANGED memory
  <2>1. /\ job' \in Job /\ SameEvent /\ job'.pc = "run"
        /\ job'.files = IF job.files = NoHead THEN job.head ELSE job.files
    BY <1>0, <1>3 DEF Late, Job, SameEvent
  <2>2. job'.files # NoHead => job.head <= job'.files /\ job'.files <= head
    <3>1. job.head \in Nat /\ head \in Nat /\ job.head <= head
      BY <1>0, DispatchAssumption DEF Late
    <3>2. CASE job.files = NoHead
      BY <2>1, <3>1, <3>2
    <3>3. CASE job.files # NoHead
      BY <1>0, <2>1, <3>3 DEF Late
    <3> QED BY <3>2, <3>3
  <2> QED BY <1>0, <1>1, <1>2, <1>3, <2>1, <2>2, ToRunInv DEF memory
<1>4. CASE job' = [job EXCEPT !.pc = "files", !.diff = head] /\ UNCHANGED memory
  <2>1. job' \in Job /\ SameEvent /\ job'.pc = "files" /\ job'.files = job.files
    BY <1>0, <1>4 DEF Late, Job, SameEvent
  <2> QED BY <1>0, <1>1, <1>2, <1>4, <2>1, ToRunInv DEF memory, Late
<1>5. CASE ~open /\ Return /\ UNCHANGED claimed
  <2>1. "close" \in happened'
    BY <1>2, <1>5 DEF DispatchInv, Earned, Frame
  <2>2. Over
    BY <1>0, <1>5, OverReturn DEF Late
  <2> QED BY <1>0, <1>1, <1>2, <1>5, <2>1, <2>2, OverInv DEF Late, Excused, Frame
<1>6. CASE Goto("run") /\ UNCHANGED memory
  <2>1. job' \in Job /\ SameEvent /\ job'.pc = "run" /\ job'.files = job.files
    BY <1>0, <1>6, GotoType DEF Late
  <2> QED BY <1>0, <1>1, <1>2, <1>6, <2>1, ToRunInv DEF memory, Late
<1>7. CASE Raise /\ UNCHANGED claimed /\ Fault("tokenError")
  <2>1. "tokenError" \in happened'
    BY <1>7 DEF Fault
  <2>2. Over
    BY <1>0, <1>7, OverReturn DEF Late
  <2> QED BY <1>0, <1>1, <1>2, <1>7, <2>1, <2>2, OverInv DEF Late, Excused, Frame
<1> QED BY <1>3, <1>4, <1>5, <1>6, <1>7 DEF Prep

LEMMA ReadFilesInv ==
    ASSUME DispatchInv, ReadFiles
    PROVE  DispatchInv'
<1>0. job.pc = "files" /\ Late
  BY LateFacts DEF ReadFiles, At, Gated
<1>1. UNCHANGED <<reviews, checkpoint, claimed, audited>> /\ Frame
  BY <1>0, FaultType DEF ReadFiles, github, pubsub, memory, Frame, DispatchTypeOK, Late
<1>2. CASE job' = [job EXCEPT !.pc = "run", !.files = head]
  <2>1. job' \in Job /\ SameEvent /\ job'.pc = "run" /\ job'.files = head
    BY <1>0, <1>2 DEF Late, Job, SameEvent
  <2> QED BY <1>0, <1>1, <2>1, ToRunInv, DispatchAssumption DEF Late
<1>3. CASE Goto("run")
  <2>1. job' \in Job /\ SameEvent /\ job'.pc = "run" /\ job'.files = job.files
    BY <1>0, <1>3, GotoType DEF Late
  <2> QED BY <1>0, <1>1, <2>1, ToRunInv DEF Late
<1> QED BY <1>2, <1>3 DEF ReadFiles

\* A run that failed gives the claim back; what it leaves is earned.
LEMMA Released ==
    ASSUME Late, claimed' = claimed \ {job.head}, audited' = audited \ {job.head},
           happened \subseteq happened'
    PROVE  /\ claimed' \subseteq claimed /\ audited' \subseteq audited
           /\ audited' \subseteq claimed'
           /\ happened' \cap Excused = {} => claimed' \subseteq audited'
BY DEF Late

LEMMA EndFailedOver ==
    ASSUME Late, EndFailed
    PROVE  /\ Over
           /\ claimed' = claimed \ {job.head} /\ audited' = audited \ {job.head}
           /\ processed' \subseteq processed /\ swept' \subseteq swept /\ UNCHANGED closedMark
BY OverReturn, ForgetType DEF EndFailed, ReleaseClaim, Late

LEMMA RunInv ==
    ASSUME DispatchInv, Run
    PROVE  DispatchInv'
<1>0. job.pc = "run" /\ Late
  BY LateFacts DEF Run, At, Gated
<1>1. Frame /\ UNCHANGED <<reviews, happened>>
  <2>1. EndFailed => processed' \subseteq processed /\ swept' \subseteq swept /\ UNCHANGED closedMark
    BY <1>0, EndFailedOver
  <2> QED BY <1>0, <2>1, FaultType
          DEF Run, github, pubsub, memory, Frame, Fine, DispatchTypeOK, Late
<1>2. CASE EndFailed /\ UNCHANGED checkpoint
  <2>1. OwnCheckpoint
    BY <1>0, <1>2, SameCheckpoint DEF Late
  <2> QED BY <1>0, <1>1, <1>2, <2>1, EndFailedOver, Released, OverInv DEF Late
<1>3. CASE Settled /\ Return /\ UNCHANGED <<memory, checkpoint, audited>>
  <2>1. "quota" \in happened'
    BY <1>0, <1>1, <1>3 DEF Settled, Late, DispatchInv, Earned
  <2>2. Over /\ OwnCheckpoint
    BY <1>0, <1>3, OverReturn, SameCheckpoint DEF Late
  <2> QED BY <1>0, <1>1, <1>3, <2>1, <2>2, OverInv DEF Late, Excused, memory
<1>4. CASE /\ Goto("turn")
           /\ checkpoint' = [checkpoint EXCEPT ![job.head] = IF @ = "none" THEN "pending" ELSE @]
           /\ audited' = IF job.kind = "resume" THEN audited ELSE audited \cup {job.head}
           /\ UNCHANGED <<processed, claimed, closedMark>>
  <2>1. job' \in Job /\ SameEvent /\ job'.pc = "turn" /\ job'.files = job.files
    BY <1>0, <1>4, GotoType DEF Late
  <2>2. OwnCheckpoint
    BY <1>0, <1>4 DEF OwnCheckpoint, Late, DispatchTypeOK, Statuses
  <2>3. ~Underway' /\ (Claiming' => job.head \in claimed')
    BY <1>0, <1>4, <2>1 DEF Underway, Claiming, SameEvent, Late
  <2>4. audited' \subseteq claimed' /\ claimed' \subseteq Heads
    BY <1>0, <1>4 DEF Late
  <2>5. happened' \cap Excused = {} => claimed' \subseteq audited'
    BY <1>0, <1>1, <1>4 DEF Late, Underway
  <2> QED BY <1>0, <1>1, <2>1, <2>2, <2>3, <2>4, <2>5, GoOnInv DEF Late, Gated
<1> QED BY <1>2, <1>3, <1>4 DEF Run

LEMMA RunFailsInv ==
    ASSUME DispatchInv, Late, RunFails, UNCHANGED <<github, pubsub>>
    PROVE  DispatchInv'
<1>1. /\ claimed' = claimed \ {job.head} /\ audited' = audited \ {job.head}
      /\ processed' \subseteq processed /\ swept' \subseteq swept /\ UNCHANGED closedMark
      /\ Over
  <2>1. CASE EndFailed
    BY <2>1, EndFailedOver
  <2>2. CASE Raise /\ ReleaseClaim /\ audited' = audited \ {job.head}
    BY <2>2, ForgetType, OverReturn DEF Raise, ReleaseClaim, Late
  <2> QED BY <2>1, <2>2 DEF RunFails
<1>2. Frame
  BY <1>1, FaultType DEF RunFails, Frame, github, pubsub, Late, DispatchTypeOK
<1>3. OwnCheckpoint
  BY SameCheckpoint DEF RunFails, OwnCheckpoint, Late, DispatchTypeOK, Statuses, Fault
<1> QED BY <1>1, <1>2, <1>3, Released, OverInv DEF Late, github, Frame

\* A run that ended well keeps its claim, which its audit has earned.
LEMMA WellInv ==
    ASSUME DispatchInv, Late, Frame, OwnCheckpoint, ~Underway, Return,
           reviews \subseteq reviews', reviews' \subseteq Heads,
           \A h \in reviews' : green[h] # {}, UNCHANGED <<claimed, audited>>
    PROVE  DispatchInv'
BY OverReturn, OverInv DEF Late, Frame

\* The same, while the event goes on.
LEMMA OnInv ==
    ASSUME DispatchInv, Late, Frame, OwnCheckpoint, ~Underway,
           job' \in Job, SameEvent, job'.pc \in {"submit", "after"}, job'.files = job.files,
           reviews \subseteq reviews', reviews' \subseteq Heads,
           \A h \in reviews' : green[h] # {}, UNCHANGED <<claimed, audited>>
    PROVE  DispatchInv'
<1>1. ~Underway' /\ (Claiming' => job.head \in claimed')
  BY DEF Underway, Claiming, SameEvent, Late
<1> QED BY <1>1, GoOnInv DEF Late, Frame, Gated

LEMMA TurnInv ==
    ASSUME DispatchInv, Turn
    PROVE  DispatchInv'
<1>0. job.pc = "turn" /\ Late /\ ~Underway /\ UNCHANGED reviews
  BY LateFacts DEF Turn, At, Gated, Underway, github
<1>1. CASE Goto("submit") /\ UNCHANGED <<memory, checkpoint, audited>> /\ Fine
  <2>1. Frame /\ OwnCheckpoint
    BY <1>0, <1>1, FaultType, SameCheckpoint
       DEF Turn, github, pubsub, memory, Frame, DispatchTypeOK, Late
  <2> QED BY <1>0, <1>1, <2>1, GotoType, OnInv DEF Late, memory
<1>2. CASE Return /\ UNCHANGED <<memory, checkpoint, audited>> /\ Fault("silent")
  <2>1. Frame /\ OwnCheckpoint
    BY <1>0, <1>2, FaultType, SameCheckpoint
       DEF Turn, github, pubsub, memory, Frame, DispatchTypeOK, Late
  <2> QED BY <1>0, <1>2, <2>1, WellInv DEF Late, memory
<1> QED BY <1>0, <1>1, <1>2, RunFailsInv DEF Turn

LEMMA FinishInv ==
    ASSUME DispatchInv, Finish
    PROVE  DispatchInv'
<1>0. job.pc = "after" /\ Late /\ ~Underway /\ UNCHANGED reviews
  BY LateFacts DEF Finish, At, Gated, Underway, github
<1>1. CASE Return /\ UNCHANGED <<memory, checkpoint, audited>> /\ Fine
  <2>1. Frame /\ OwnCheckpoint
    BY <1>0, <1>1, FaultType, SameCheckpoint
       DEF Finish, github, pubsub, memory, Frame, DispatchTypeOK, Late
  <2> QED BY <1>0, <1>1, <2>1, WellInv DEF Late, memory
<1> QED BY <1>0, <1>1, RunFailsInv DEF Finish

LEMMA SubmitInv ==
    ASSUME DispatchInv, Submit
    PROVE  DispatchInv'
<1>0. job.pc = "submit" /\ Late /\ ~Underway
  BY LateFacts DEF Submit, At, Gated, Underway
<1>1. /\ reviews \subseteq reviews' /\ reviews' \subseteq Heads
      /\ \A h \in reviews' : green[h] # {}
      /\ ~Refused => job.head \in reviews'
  BY <1>0 DEF Submit, Late
<1>2. Frame
  <2>1. EndFailed => processed' \subseteq processed /\ swept' \subseteq swept /\ UNCHANGED closedMark
    BY <1>0, EndFailedOver
  <2> QED BY <1>0, <2>1, FaultType
          DEF Submit, pubsub, memory, Frame, Fine, DispatchTypeOK, Late
<1>3. CASE Goto("after") /\ UNCHANGED <<memory, checkpoint, audited>>
  <2>1. OwnCheckpoint
    BY <1>0, <1>3, SameCheckpoint DEF Late
  <2> QED BY <1>0, <1>1, <1>2, <1>3, <2>1, GotoType, OnInv DEF Late, memory
<1>4. CASE EndFailed /\ UNCHANGED checkpoint
  <2>1. OwnCheckpoint
    BY <1>0, <1>4, SameCheckpoint DEF Late
  <2> QED BY <1>0, <1>1, <1>2, <1>4, <2>1, EndFailedOver, Released, OverInv DEF Late, Frame
<1>5. CASE /\ ~Refused /\ Return /\ UNCHANGED <<memory, audited>>
           /\ checkpoint' = [checkpoint EXCEPT ![job.head] = "completed"]
  <2>1. OwnCheckpoint
    BY <1>0, <1>1, <1>5 DEF OwnCheckpoint, Late, DispatchTypeOK, Statuses
  <2> QED BY <1>0, <1>1, <1>2, <1>5, <2>1, WellInv DEF memory
<1> QED BY <1>3, <1>4, <1>5 DEF Submit

-----------------------------------------------------------------------------
(* The loop                                                                *)

\* A step of the loop: no event is underway, and only the job and the queue
\* change.
LEMMA LoopInv ==
    ASSUME DispatchInv, job.pc \in {"idle", "ack", "deadLetter"}, Frame,
           UNCHANGED <<reviews, claimed, audited, checkpoint>>,
           job' \in Job, job'.pc \in {"idle", "tier0", "ack", "deadLetter"},
           job'.files \in {NoHead, job.files}, job'.head = job.head \/ job'.files = NoHead,
           job'.pc # "idle" =>
              /\ job'.head \in Heads /\ job'.head <= head /\ job'.kind # "none"
              /\ job'.kind # "resume" => job'.id \in DOMAIN sent,
           job'.kind = "resume" => job.kind = "resume" \/ "quota" \in happened
    PROVE  DispatchInv'
<1>1. Early
  BY EarlyFacts DEF Gated
<1>2. DispatchTypeOK'
  BY <1>1 DEF Early, DispatchTypeOK, Frame
<1>3. Known'
  BY <1>1 DEF Early, DispatchInv, Known, Frame
<1>4. Gate'
  BY DEF DispatchInv, Gate, Frame, At, Gated
<1>5. ~Underway' /\ Claims'
  BY <1>1 DEF Claims, Claiming, Underway, Early
<1>6. Earned'
  BY <1>1, <1>5 DEF DispatchInv, Earned, Frame, Early
<1> QED BY <1>2, <1>3, <1>4, <1>5, <1>6 DEF DispatchInv

\* An event at its beginning.
LEMMA BeginType ==
    ASSUME NEW id \in Ids \cup {0}, NEW kind \in MessageKinds \cup {"resume"},
           NEW h \in Heads,
           job' = [pc |-> "tier0", id |-> id, kind |-> kind, head |-> h, nested |-> FALSE,
                   attempt |-> 1, checks |-> "passed", diff |-> NoHead, files |-> NoHead]
    PROVE  /\ job' \in Job /\ job'.pc = "tier0" /\ job'.files = NoHead
           /\ job'.id = id /\ job'.kind = kind /\ job'.head = h
<1>1. 1 \in 0..MaxAttempts /\ "passed" \in CIStates
  BY DispatchAssumption DEF CIStates
<1>2. kind \in MessageKinds \cup {"none", "resume"}
  OBVIOUS
<1> QED BY <1>1, <1>2 DEF Job

LEMMA PullInv ==
    ASSUME DispatchInv, NEW i \in queue, Pull(i)
    PROVE  DispatchInv'
<1>1. job.pc = "idle" /\ i \in DOMAIN sent /\ sent[i] \in Message /\ i \in Ids
  BY DispatchAssumption DEF Pull, At, DispatchInv, DispatchTypeOK, Ids
<1>2. /\ job' \in Job /\ job'.pc = "tier0" /\ job'.files = NoHead /\ job'.id = i
      /\ job'.kind = sent[i].kind /\ job'.head = sent[i].head
      /\ job'.kind \in MessageKinds
  <2>1. sent[i].kind \in MessageKinds /\ sent[i].head \in Heads
    BY <1>1 DEF Message
  <2>2. job' = [pc |-> "tier0", id |-> i, kind |-> sent[i].kind, head |-> sent[i].head,
                nested |-> FALSE, attempt |-> 1, checks |-> "passed", diff |-> NoHead,
                files |-> NoHead]
    BY DEF Pull, Idle
  <2> QED BY <1>1, <2>1, <2>2, BeginType
<1>3. Frame /\ UNCHANGED <<reviews, claimed, audited, checkpoint>>
  BY DEF Pull, Frame, github, pubsub, memory, history, DispatchInv, DispatchTypeOK
<1>4. job'.head \in Heads /\ job'.head <= head /\ job'.kind \notin {"none", "resume"}
  BY <1>1, <1>2 DEF Message, MessageKinds, PullRequestKinds, DispatchInv, Known
<1> QED BY <1>1, <1>2, <1>3, <1>4, LoopInv

LEMMA SweepInv ==
    ASSUME DispatchInv, NEW h \in Heads, Sweep(h)
    PROVE  DispatchInv'
<1>1. job.pc = "idle" /\ h <= head /\ "quota" \in happened
  BY DEF Sweep, At, DispatchInv, Known, Earned
<1>2. /\ job' \in Job /\ job'.pc = "tier0" /\ job'.files = NoHead
      /\ job'.kind = "resume" /\ job'.head = h
  <2>1. job' = [pc |-> "tier0", id |-> 0, kind |-> "resume", head |-> h,
                nested |-> FALSE, attempt |-> 1, checks |-> "passed", diff |-> NoHead,
                files |-> NoHead]
    BY DEF Sweep, Idle
  <2> QED BY <2>1, BeginType
<1>3. Frame /\ UNCHANGED <<reviews, claimed, audited, checkpoint>>
  BY DEF Sweep, Frame, github, pubsub, memory, history, DispatchInv, DispatchTypeOK
<1> QED BY <1>1, <1>2, <1>3, LoopInv

LEMMA AckInv ==
    ASSUME DispatchInv, Ack \/ DeadLetter
    PROVE  DispatchInv'
<1>1. job.pc \in {"ack", "deadLetter"} /\ job \in Job /\ DispatchTypeOK
  BY DEF Ack, DeadLetter, At, DispatchInv, DispatchTypeOK
<1>2. Frame /\ UNCHANGED <<reviews, claimed, audited, checkpoint>>
  BY <1>1, FaultType DEF Ack, DeadLetter, Frame, github, memory, DispatchTypeOK
<1>3. job' = Idle \/ Goto("deadLetter")
  BY DEF Ack, DeadLetter
<1>4. CASE job' = Idle
  BY <1>1, <1>2, <1>4, IdleType, LoopInv
<1>5. CASE Goto("deadLetter")
  <2>1. job' \in Job /\ job'.pc = "deadLetter" /\ SameEvent /\ job'.files = job.files
    BY <1>1, <1>5, GotoType
  <2> QED BY <1>1, <1>2, <2>1, LoopInv DEF SameEvent, DispatchInv, Known
<1> QED BY <1>3, <1>4, <1>5

-----------------------------------------------------------------------------
(* GitHub, Pub/Sub, time and the process                                   *)

\* One more webhook.
LEMMA SendType ==
    ASSUME DispatchTypeOK, NEW kind \in MessageKinds, NEW h \in Heads, Send(kind, h)
    PROVE  /\ sent' \in Seq(Message) /\ Len(sent') <= MaxMessages
           /\ DOMAIN sent \subseteq DOMAIN sent'
           /\ \A i \in DOMAIN sent : sent'[i] = sent[i]
           /\ \A i \in DOMAIN sent' : i \in DOMAIN sent \/ sent'[i].head = h
           /\ queue' \subseteq DOMAIN sent'
<1> DEFINE m == [kind |-> kind, head |-> h]
<1>1. m \in Message /\ m.head = h
  BY DEF Message
<1>2. sent \in Seq(Message) /\ Len(sent) < MaxMessages /\ sent' = Append(sent, m)
  BY DEF DispatchTypeOK, Send
<1> HIDE DEF m
<1>3. /\ sent' \in Seq(Message) /\ Len(sent') = Len(sent) + 1 /\ Len(sent) \in Nat
      /\ \A i \in 1..Len(sent) : sent'[i] = sent[i]
      /\ sent'[Len(sent) + 1] = m
  BY <1>1, <1>2
<1>4. DOMAIN sent = 1..Len(sent) /\ DOMAIN sent' = 1..(Len(sent) + 1)
  BY <1>2, <1>3
<1>5. queue' = queue \cup {Len(sent')}
  BY DEF Send
<1> QED BY <1>1, <1>2, <1>3, <1>4, <1>5, DispatchAssumption DEF DispatchTypeOK

\* GitHub, its webhooks and the checkpoints change; the worker and its memory do
\* not.
Outside ==
    /\ UNCHANGED <<reviews, processed, claimed, closedMark, swept, job, audited>>
    /\ DispatchTypeOK'
    /\ head <= head'
    /\ DOMAIN sent \subseteq DOMAIN sent' /\ \A i \in DOMAIN sent' : sent'[i].head <= head'
    /\ happened \subseteq happened'
    /\ ~open' => "close" \in happened'
    /\ \A h \in Heads : /\ checkpoint'[h] # "none" => checkpoint[h] # "none"
                        /\ checkpoint'[h] = "completed" => checkpoint[h] = "completed"
                        /\ checkpoint'[h] \in {"paused", "due"} => checkpoint[h] \in {"paused", "due"}
    /\ \A h \in Heads : green[h] \subseteq green'[h]
    /\ \A h \in Heads, s \in Signals : ci'[h][s] = "passed" => s \in green'[h]

LEMMA OutsideInv ==
    ASSUME DispatchInv, Outside
    PROVE  DispatchInv'
<1>0. /\ head \in Nat /\ head' \in Nat /\ Heads \subseteq Nat
      /\ job \in Job /\ job.files \in Heads \cup {NoHead} /\ reviews \subseteq Heads
      /\ job.pc \in Gated \cup {"status"} => job.head \in Heads
  BY DispatchAssumption DEF Outside, DispatchInv, DispatchTypeOK, Job, Known, Gated
<1>1. Known'
  <2>1. \A h \in Heads : checkpoint'[h] # "none" => h <= head'
    <3> SUFFICES ASSUME NEW h \in Heads, checkpoint'[h] # "none" PROVE h <= head'
      OBVIOUS
    <3>1. h \in Nat /\ h <= head /\ head <= head'
      BY <1>0 DEF DispatchInv, Known, Outside
    <3> QED BY <1>0, <3>1
  <2>2. job'.pc # "idle" =>
           /\ job'.head \in Heads /\ job'.head <= head' /\ job'.kind # "none"
           /\ job'.kind # "resume" => job'.id \in DOMAIN sent'
    <3>1. job' = job /\ head <= head' /\ DOMAIN sent \subseteq DOMAIN sent'
      BY DEF Outside
    <3>2. job.pc # "idle" => /\ job.head \in Heads /\ job.head <= head /\ job.kind # "none"
                             /\ job.kind # "resume" => job.id \in DOMAIN sent
      BY DEF DispatchInv, Known
    <3>3. job.pc # "idle" => job.head \in Nat
      BY <1>0, <3>2
    <3> QED BY <1>0, <3>1, <3>2, <3>3
  <2>3. job'.files # NoHead => job'.head <= job'.files /\ job'.files <= head'
    <3>1. job' = job /\ head <= head'
      BY DEF Outside
    <3>2. job.files # NoHead => job.files \in Nat /\ job.head <= job.files /\ job.files <= head
      BY <1>0 DEF DispatchInv, Known
    <3> QED BY <1>0, <3>1, <3>2
  <2> QED BY <2>1, <2>2, <2>3 DEF Known, Outside
<1>2. Gate'
  BY <1>0 DEF DispatchInv, Gate, Outside, At
<1>3. Claims'
  BY DEF DispatchInv, Claims, Claiming, Underway, Outside
<1>4. Earned'
  BY DEF DispatchInv, Earned, Underway, Outside
<1> QED BY <1>1, <1>2, <1>3, <1>4 DEF DispatchInv, Outside

LEMMA PushInv ==
    ASSUME DispatchInv, Push \/ Close \/ Reopen
    PROVE  DispatchInv'
<1>0. DispatchTypeOK /\ head \in Nat /\ Heads \subseteq Nat
  BY DispatchAssumption DEF DispatchInv, DispatchTypeOK
<1>1. PICK kind \in MessageKinds, h \in Heads : Send(kind, h) /\ h = head'
  BY <1>0 DEF Push, Close, Reopen, MessageKinds, PullRequestKinds, DispatchTypeOK
<1>2. /\ sent' \in Seq(Message) /\ Len(sent') <= MaxMessages
      /\ DOMAIN sent \subseteq DOMAIN sent'
      /\ \A i \in DOMAIN sent : sent'[i] = sent[i]
      /\ \A i \in DOMAIN sent' : i \in DOMAIN sent \/ sent'[i].head = h
      /\ queue' \subseteq DOMAIN sent'
  BY <1>0, <1>1, SendType
<1>3. /\ head <= head' /\ head' \in Heads /\ open' \in BOOLEAN
      /\ happened' \subseteq FaultKinds \cup AuthorActions /\ UNCHANGED budget
      /\ happened \subseteq happened'
      /\ ~open' => "close" \in happened'
  <2>1. CASE Push
    <3>1. head' = head + 1 /\ head + 1 \in Heads /\ open' = open
          /\ budget' = budget /\ happened' = happened
      BY <2>1 DEF Push, history
    <3> QED BY <1>0, <3>1 DEF DispatchTypeOK, DispatchInv, Earned
  <2>2. CASE Close
    <3>1. head' = head /\ open' = FALSE /\ budget' = budget
          /\ happened' = happened \cup {"close"} /\ "close" \in AuthorActions
      BY <2>2 DEF Close, Author
    <3>2. "close" \in happened'
      BY <3>1
    <3>3. happened \subseteq FaultKinds \cup AuthorActions /\ head \in Heads
      BY <1>0 DEF DispatchTypeOK
    <3>4. happened' \subseteq FaultKinds \cup AuthorActions
      BY <3>1, <3>3
    <3>5. head <= head' /\ head' \in Heads /\ UNCHANGED budget
      BY <1>0, <3>1, <3>3
    <3>6. open' \in BOOLEAN
      BY <3>1
    <3>7. happened \subseteq happened'
      BY <3>1
    <3> QED BY <3>2, <3>4, <3>5, <3>6, <3>7
  <2>3. CASE Reopen
    <3>1. head' = head /\ open' = TRUE /\ budget' = budget
          /\ happened' = happened \cup {"reopen"} /\ "reopen" \in AuthorActions
      BY <2>3 DEF Reopen, Author
    <3> QED BY <1>0, <3>1 DEF DispatchTypeOK
  <2> QED BY <2>1, <2>2, <2>3
<1>4. UNCHANGED <<ci, reviews, green, processed, claimed, closedMark, swept, checkpoint, job,
                  audited>>
  BY DEF Push, Close, Reopen, memory, history
<1>5. DispatchTypeOK'
  BY <1>0, <1>2, <1>3, <1>4 DEF DispatchTypeOK
<1>6. \A i \in DOMAIN sent' : sent'[i].head <= head'
  <2> SUFFICES ASSUME NEW i \in DOMAIN sent' PROVE sent'[i].head <= head'
    OBVIOUS
  <2>1. CASE i \in DOMAIN sent
    <3>0. sent[i] \in Message
      BY <1>0, <2>1 DEF DispatchTypeOK
    <3>1. sent[i].head <= head /\ sent[i].head \in Nat
      BY <1>0, <2>1, <3>0 DEF DispatchInv, Known, Message
    <3>2. head' \in Nat
      BY <1>0, <1>3
    <3> QED BY <1>0, <1>2, <1>3, <2>1, <3>1, <3>2
  <2>2. CASE sent'[i].head = h
    <3>1. head' \in Nat
      BY <1>0, <1>3
    <3> QED BY <1>1, <2>2, <3>1
  <2> QED BY <1>2, <2>1, <2>2
<1>7. \A h1 \in Heads, s \in Signals : ci'[h1][s] = "passed" => s \in green'[h1]
  BY <1>4 DEF DispatchInv, Gate
<1> QED BY <1>2, <1>3, <1>4, <1>5, <1>6, <1>7, OutsideInv DEF Outside

LEMMA SettleInv ==
    ASSUME DispatchInv, NEW h \in Heads, NEW s \in Signals,
           NEW result \in {"passed", "failed"}, Settle(h, s, result)
    PROVE  DispatchInv'
<1>0. DispatchTypeOK /\ head \in Nat /\ Heads \subseteq Nat /\ h <= head
  BY DispatchAssumption DEF DispatchInv, DispatchTypeOK, Settle
<1>1. /\ ci' = [ci EXCEPT ![h][s] = result]
      /\ green' = [green EXCEPT ![h] = IF result = "passed" THEN @ \cup {s} ELSE @]
      /\ UNCHANGED <<head, open, reviews, processed, claimed, closedMark, swept, checkpoint,
                     job, audited, budget, happened>>
  BY DEF Settle, memory, history
<1>2. ci' \in [Heads -> [Signals -> CIStates]] /\ green' \in [Heads -> SUBSET Signals]
  BY <1>0, <1>1 DEF DispatchTypeOK, CIStates
<1>3. /\ sent' \in Seq(Message) /\ Len(sent') <= MaxMessages
      /\ DOMAIN sent \subseteq DOMAIN sent'
      /\ \A i \in DOMAIN sent' : \/ (i \in DOMAIN sent /\ sent'[i] = sent[i])
                                   \/ sent'[i].head = h
      /\ queue' \subseteq DOMAIN sent'
  <2>1. CASE UNCHANGED pubsub
    BY <1>0, <2>1 DEF pubsub, DispatchTypeOK
  <2>2. ASSUME NEW kind \in {"suitePassed", "suiteFailed"}, Send(kind, h)
        PROVE  /\ sent' \in Seq(Message) /\ Len(sent') <= MaxMessages
               /\ DOMAIN sent \subseteq DOMAIN sent'
               /\ \A i \in DOMAIN sent' :
                     (i \in DOMAIN sent /\ sent'[i] = sent[i]) \/ sent'[i].head = h
               /\ queue' \subseteq DOMAIN sent'
    BY <1>0, <2>2, SendType DEF MessageKinds
  <2> QED BY <2>1, <2>2 DEF Settle
<1>4. DispatchTypeOK'
  BY <1>0, <1>1, <1>2, <1>3 DEF DispatchTypeOK
<1>5. \A i \in DOMAIN sent' : sent'[i].head <= head'
  BY <1>0, <1>1, <1>3 DEF DispatchInv, Known
<1>6. /\ \A g \in Heads : green[g] \subseteq green'[g]
      /\ \A g \in Heads, t \in Signals : ci'[g][t] = "passed" => t \in green'[g]
  BY <1>0, <1>1 DEF DispatchTypeOK, DispatchInv, Gate
<1> QED BY <1>0, <1>1, <1>3, <1>4, <1>5, <1>6, OutsideInv DEF Outside, DispatchInv, Earned

LEMMA SignalInv ==
    ASSUME DispatchInv, NEW h \in Heads, (\E s \in Signals : Start(h, s)) \/ Rerun(h)
    PROVE  DispatchInv'
<1>0. DispatchTypeOK /\ head \in Nat
  BY DispatchAssumption DEF DispatchInv, DispatchTypeOK
<1>1. PICK s \in Signals : ci' = [ci EXCEPT ![h][s] = "pending"]
  BY DEF Start, Rerun
<1>2. /\ UNCHANGED <<head, open, reviews, green, queue, sent, processed, claimed, closedMark,
                     swept, checkpoint, job, audited, budget>>
      /\ happened \subseteq happened' /\ happened' \subseteq FaultKinds \cup AuthorActions
  BY <1>0 DEF Start, Rerun, Author, pubsub, memory, history, DispatchTypeOK
<1>3. ci' \in [Heads -> [Signals -> CIStates]]
  BY <1>0, <1>1 DEF DispatchTypeOK, CIStates
<1>4. DispatchTypeOK'
  BY <1>0, <1>2, <1>3 DEF DispatchTypeOK
<1>5. \A g \in Heads, t \in Signals : ci'[g][t] = "passed" => t \in green'[g]
  BY <1>0, <1>1, <1>2 DEF DispatchTypeOK, DispatchInv, Gate
<1> QED BY <1>0, <1>2, <1>4, <1>5, OutsideInv DEF Outside, DispatchInv, Earned, Known

LEMMA BackoffEndsInv ==
    ASSUME DispatchInv, NEW h \in Heads, BackoffEnds(h)
    PROVE  DispatchInv'
<1>0. DispatchTypeOK /\ head \in Nat /\ checkpoint[h] = "paused"
  BY DispatchAssumption DEF DispatchInv, DispatchTypeOK, BackoffEnds
<1>1. /\ checkpoint' = [checkpoint EXCEPT ![h] = "due"]
      /\ UNCHANGED <<head, open, ci, reviews, green, queue, sent, processed, claimed,
                     closedMark, swept, job, audited, budget, happened>>
  BY DEF BackoffEnds, github, pubsub, memory, history
<1>2. DispatchTypeOK'
  BY <1>0, <1>1 DEF DispatchTypeOK, Statuses
<1>3. \A g \in Heads : /\ checkpoint'[g] # "none" => checkpoint[g] # "none"
                       /\ checkpoint'[g] = "completed" => checkpoint[g] = "completed"
                       /\ checkpoint'[g] \in {"paused", "due"} => checkpoint[g] \in {"paused", "due"}
  BY <1>0, <1>1 DEF DispatchTypeOK
<1> QED BY <1>0, <1>1, <1>2, <1>3, OutsideInv DEF Outside, DispatchInv, Earned, Known, Gate

LEMMA RedeliverInv ==
    ASSUME DispatchInv, NEW i \in DOMAIN sent, Redeliver(i)
    PROVE  DispatchInv'
<1>0. DispatchTypeOK /\ head \in Nat
  BY DispatchAssumption DEF DispatchInv, DispatchTypeOK
<1>1. /\ queue' = queue \cup {i}
      /\ UNCHANGED <<head, open, ci, reviews, green, sent, processed, claimed,
                     closedMark, swept, checkpoint, job, audited>>
  BY DEF Redeliver, github, memory
<1>2. /\ budget' \in 0..MaxFaults /\ happened' \subseteq FaultKinds \cup AuthorActions
      /\ happened \subseteq happened'
  BY <1>0, FaultType DEF Redeliver
<1>3. DispatchTypeOK'
  BY <1>0, <1>1, <1>2 DEF DispatchTypeOK
<1> QED BY <1>0, <1>1, <1>2, <1>3, OutsideInv DEF Outside, DispatchInv, Earned, Known, Gate

\* An entry of the registries expires while the worker idles.
LEMMA ForgottenInv ==
    ASSUME DispatchInv, Forgotten
    PROVE  DispatchInv'
<1>0. job.pc = "idle" /\ Early
  BY EarlyFacts DEF Forgotten, At, Gated
<1>1. UNCHANGED <<head, open, ci, reviews, green, queue, sent, processed, swept, checkpoint,
                  job, budget, happened>>
  BY DEF Forgotten, github, pubsub
<1>2. /\ claimed' \subseteq claimed /\ audited' \subseteq claimed' /\ closedMark' \in BOOLEAN
      /\ claimed \subseteq audited => claimed' \subseteq audited'
  BY <1>0 DEF Forgotten, Early, DispatchTypeOK
<1>3. DispatchTypeOK'
  BY <1>0, <1>1, <1>2 DEF Early, DispatchTypeOK
<1>4. Known' /\ Gate'
  BY <1>1 DEF DispatchInv, Known, Gate, At
<1>5. Claims'
  BY <1>0, <1>1, <1>2 DEF Claims, Claiming, Underway
<1>6. Earned'
  BY <1>0, <1>1, <1>2 DEF DispatchInv, Earned, Early, Underway
<1> QED BY <1>3, <1>4, <1>5, <1>6 DEF DispatchInv

LEMMA CrashInv ==
    ASSUME DispatchInv, Crash
    PROVE  DispatchInv'
<1>0. DispatchTypeOK
  BY DEF DispatchInv
<1>1. /\ processed' = {} /\ claimed' = {} /\ swept' = {} /\ closedMark' = FALSE
      /\ job' = Idle /\ audited' = {}
      /\ UNCHANGED <<head, open, ci, reviews, green, queue, sent, checkpoint>>
  BY DEF Crash, github, pubsub
<1>2. /\ budget' \in 0..MaxFaults /\ happened' \subseteq FaultKinds \cup AuthorActions
      /\ happened \subseteq happened'
  BY <1>0, FaultType DEF Crash
<1>3. DispatchTypeOK'
  BY <1>0, <1>1, <1>2, IdleType DEF DispatchTypeOK
<1>4. Known' /\ Gate' /\ Claims'
  BY <1>1, IdleType DEF DispatchInv, Known, Gate, Claims, At, Claiming, Underway, Gated
<1>5. Earned'
  BY <1>1, <1>2, IdleType DEF DispatchInv, Earned, Underway
<1> QED BY <1>3, <1>4, <1>5 DEF DispatchInv

-----------------------------------------------------------------------------
(* The invariant                                                           *)

LEMMA DispatchInvInit == DispatchInit => DispatchInv
<1> SUFFICES ASSUME DispatchInit PROVE DispatchInv
  OBVIOUS
<1> DEFINE m == [kind |-> "opened", head |-> 1]
<1>1. m \in Message /\ m.head = 1
  BY DispatchAssumption DEF Message, MessageKinds, PullRequestKinds
<1>2. sent = <<m>> /\ job = Idle
  BY DEF DispatchInit
<1> HIDE DEF m
<1>3. sent \in Seq(Message) /\ Len(sent) = 1 /\ DOMAIN sent = {1} /\ sent[1] = m
  BY <1>1, <1>2
<1>4. DispatchTypeOK
  <2>1. ci \in [Heads -> [Signals -> CIStates]] /\ checkpoint \in [Heads -> Statuses]
    BY DEF DispatchInit, CIStates, Statuses
  <2>2. green \in [Heads -> SUBSET Signals]
    BY DEF DispatchInit
  <2>3. Len(sent) <= MaxMessages /\ budget \in 0..MaxFaults
    BY <1>3, DispatchAssumption DEF DispatchInit
  <2> QED BY <1>2, <1>3, <2>1, <2>2, <2>3, IdleType, DispatchAssumption
          DEF DispatchInit, DispatchTypeOK
<1>5. Known
  BY <1>1, <1>2, <1>3, IdleType DEF DispatchInit, Known
<1>6. Gate /\ Claims
  BY <1>2, IdleType DEF DispatchInit, Gate, Claims, At, Claiming, Underway, Gated
<1>7. Earned
  BY <1>2, IdleType DEF DispatchInit, Earned, Underway
<1> QED BY <1>4, <1>5, <1>6, <1>7 DEF DispatchInv

LEMMA HandleInv == ASSUME DispatchInv, Handle PROVE DispatchInv'
BY Tier0Inv, SuiteInv, EvaluateChecksInv, EvaluateStatusInv, LiveInv, PrepInv, ReadFilesInv,
   RunInv, TurnInv, SubmitInv, FinishInv, AckInv DEF Handle

LEMMA EnvironmentInv == ASSUME DispatchInv, Environment PROVE DispatchInv'
BY PushInv, SettleInv, SignalInv, RedeliverInv, ForgottenInv, CrashInv DEF Environment

LEMMA DispatchInvNext == DispatchInv /\ [DispatchNext]_vars => DispatchInv'
<1> SUFFICES ASSUME DispatchInv, [DispatchNext]_vars PROVE DispatchInv'
  OBVIOUS
<1>1. CASE Worker
  BY <1>1, PullInv, SweepInv, HandleInv DEF Worker
<1>2. CASE Environment
  BY <1>2, EnvironmentInv
<1>3. CASE \E h \in Heads : BackoffEnds(h)
  BY <1>3, BackoffEndsInv
<1>4. CASE UNCHANGED vars
  BY <1>4 DEF vars, github, pubsub, memory, history, DispatchInv, DispatchTypeOK, Known, Gate,
              Claims, Claiming, Underway, Earned, At
<1> QED BY <1>1, <1>2, <1>3, <1>4 DEF DispatchNext

\* Every state of the worker satisfies DispatchInv: whatever GitHub, Pub/Sub, the
\* registries and the process do between two calls of an event handler, what the event
\* has established so far still holds.
THEOREM DispatchInvariant == DispatchSpec => []DispatchInv
BY DispatchInvInit, DispatchInvNext, PTL DEF DispatchSpec

\* Every variable of the dispatch keeps to its type: the registries hold only ids of
\* webhooks that were sent, and attempt never exceeds the retries worker.py allows.
THEOREM DispatchTypeCorrect == DispatchSpec => []DispatchTypeOK
<1>1. DispatchInv => DispatchTypeOK
  BY DEF DispatchInv
<1> QED BY <1>1, DispatchInvariant, PTL

-----------------------------------------------------------------------------
(* What the invariant gives                                                *)

\* Some signal of CI has passed on every commit with an automatic review, whichever
\* signals the repository has.
SomeSignalPassed == \A h \in reviews : green[h] # {}

\* No automatic review stands on a commit no CI signal ever passed on, for any set of
\* signals: what evaluate_ci promises once an absent signal does not count.
THEOREM ReviewedAfterSomeSignal == DispatchSpec => []SomeSignalPassed
<1>1. DispatchInv => SomeSignalPassed
  BY DEF DispatchInv, Gate, SomeSignalPassed
<1> QED BY <1>1, DispatchInvariant, PTL

\* In a repository with one CI signal, an automatic review is only ever posted on a
\* commit on which it has passed (ci_gate.py): with several, one that GitHub has not
\* been told of yet is not waited for.
THEOREM OneSignalReviewedOnlyAfterGreen ==
    ASSUME NEW s, Signals = {s}
    PROVE  DispatchSpec => []ReviewedOnlyAfterGreen
<1>1. ASSUME DispatchInv, NEW h \in reviews PROVE green[h] = Signals
  <2>1. green[h] \in SUBSET Signals /\ green[h] # {}
    BY <1>1 DEF DispatchInv, DispatchTypeOK, Gate
  <2> QED BY <2>1
<1>2. DispatchInv => ReviewedOnlyAfterGreen
  BY <1>1 DEF ReviewedOnlyAfterGreen
<1> QED BY <1>2, DispatchInvariant, PTL

\* An idle worker holds a claim only for a commit whose audit ended well, unless one of
\* the three excuses has happened (reconciliation.py:38): every path out of an event
\* gives back what the event claimed.
THEOREM EveryClaimEarned == DispatchSpec => []ClaimEarned
<1>1. DispatchInv => ClaimEarned
  BY DEF DispatchInv, Earned, ClaimEarned, Excused, Underway, At
<1> QED BY <1>1, DispatchInvariant, PTL

\* A posted review is about the files the model was shown, or it was shown none: the
\* files are read at or after the event's commit, and Submit posts only while
\* that commit is still the head.
THEOREM EveryReviewMatchesFiles == DispatchSpec => ReviewMatchesFiles
<1>1. ASSUME DispatchInv, [DispatchNext]_vars, NEW h \in reviews' \ reviews
      PROVE  job.files \in {NoHead, h}
  <2>1. Submit /\ ~Refused /\ h = job.head
    BY <1>1 DEF DispatchNext, Worker, Handle, Environment, vars, github, pubsub, memory, history,
       Pull, Sweep, Tier0, Suite, EvaluateChecks, EvaluateStatus, Live, Prep, ReadFiles, Run,
       Turn, Submit, Finish, Ack, DeadLetter, Push, Close, Reopen, Settle, Start, Rerun,
       Redeliver, Forgotten, Crash, BackoffEnds
  <2>2. h = head /\ head \in Nat /\ job.files \in Nat
    BY <1>1, <2>1, DispatchAssumption DEF Refused, DispatchInv, DispatchTypeOK, Job, NoHead
  <2>3. job.files # NoHead => job.head <= job.files /\ job.files <= head
    BY <1>1 DEF DispatchInv, Known
  <2> QED BY <2>1, <2>2, <2>3
<1>2. DispatchInv /\ [DispatchNext]_vars
        => [\A h \in reviews' \ reviews : job.files \in {NoHead, h}]_vars
  BY <1>1
<1> QED BY <1>2, DispatchInvariant, PTL DEF DispatchSpec, ReviewMatchesFiles

\* An event pays for a model run of a commit only if no earlier event's run of it ended
\* without failure: the claim Live takes is exclusive up to the run.
THEOREM NeverASecondAudit == DispatchSpec => NoSecondAudit
<1>1. DispatchInv => ((At("run") /\ job'.pc = "turn" /\ job.kind # "resume")
                        => job.head \notin audited)
  BY DEF DispatchInv, Claims, Underway, At
<1> QED BY <1>1, DispatchInvariant, PTL DEF DispatchSpec, NoSecondAudit

=============================================================================
