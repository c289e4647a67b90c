---------------------------- MODULE AuditRunProofs ----------------------------
(***************************************************************************)
(* The runs of an audit: when an attempt fails over and when it gives up,  *)
(* and what a run leaves behind.                                           *)
(***************************************************************************)
EXTENDS AuditRun, FiniteSetTheorems, TLAPS

(***************************************************************************)
(* What holds of the runs of an audit for every chain of models, every     *)
(* number of turns and every number of commits: each attempt costs a model *)
(* that was not tried before, so a run can only give up on a model it      *)
(* cannot reach after it has gone through them all.                        *)
(***************************************************************************)

\* While the models take their turns nothing has ended the run, and each attempt but the
\* first went to a model that was not tried before.
AttemptsAreModels ==
    run.pc = "turn" => /\ run.ended = "no"
                       /\ Cardinality(run.tried) = run.attempt + 1

RunInv == RunTypeOK /\ AttemptsAreModels

-----------------------------------------------------------------------------
(* A run's record.  The fields a turn may change stay in their types.      *)

LEMMA AnyModelIsModel == AnyModel \in Models
<1>1. PICK m \in Models : TRUE
  BY RunAssumption
<1> QED
  BY <1>1 DEF AnyModel

LEMMA NewRunTyped ==
    ASSUME head \in Heads, reply \in 0..MaxRuns,
           NEW mode \in {"audit", "talk"}, NEW explicit \in BOOLEAN, NEW code \in BOOLEAN,
           NEW model \in Models
    PROVE  /\ NewRun(mode, explicit, code, model) \in Run
           /\ NewRun(mode, explicit, code, model).pc = "turn"
           /\ NewRun(mode, explicit, code, model).ended = "no"
           /\ NewRun(mode, explicit, code, model).attempt = 0
           /\ NewRun(mode, explicit, code, model).tried = {model}
  BY RunAssumption DEF NewRun, Run

LEMMA OverTyped ==
    ASSUME head \in Heads, reply \in 0..MaxRuns,
           NEW r, r.head \in Heads, r.reviewed \in BOOLEAN, r.posts \in Nat, r.broken \in BOOLEAN
    PROVE  /\ Over(r) \in Run
           /\ Over(r).pc = "done"
           /\ Over(r).ended = "no" /\ Over(r).attempt = 0
<1> DEFINE n == NewRun("talk", FALSE, FALSE, AnyModel)
<1>1. n \in Run
  BY NewRunTyped, AnyModelIsModel
<1>4. n.ended = "no" /\ n.attempt = 0
  BY NewRunTyped, AnyModelIsModel
<1>2. 0 \in 0..MaxRuns
  BY RunAssumption
<1>3. Over(r) = [n EXCEPT !.pc = "done", !.head = r.head, !.prior = 0,
                          !.reviewed = r.reviewed, !.posts = r.posts, !.broken = r.broken]
  BY DEF Over
<1> HIDE DEF n
<1> QED
  BY <1>1, <1>2, <1>3, <1>4 DEF Run

\* Every model a run tried is one of Models, so there is an attempt left for another one.
LEMMA AttemptLeft ==
    ASSUME RunInv, run.pc = "turn"
    PROVE  RetriesLeft
<1>1. /\ run \in Run /\ run.tried \subseteq Models /\ run.attempt \in Nat
      /\ Cardinality(run.tried) = run.attempt + 1
  BY RunAssumption DEF RunInv, RunTypeOK, AttemptsAreModels, Run
<1>2. /\ Cardinality(run.tried) <= Cardinality(Models)
      /\ Cardinality(Models) \in Nat
  BY <1>1, RunAssumption, FS_Subset, FS_CardinalityType
<1> QED
  BY <1>1, <1>2, RunAssumption DEF RetriesLeft

\* A turn that ends leaves a typed record, and the attempt as it was if another turn follows.
LEMMA EndTurnTyped ==
    ASSUME NEW r \in Run, r.ended = "no", r.pc = "turn", EndTurn(r)
    PROVE  /\ run' \in Run
           /\ run'.ended \in {"no", "well"}
           /\ run'.pc = "turn" => /\ run'.ended = "no"
                                  /\ run'.tried = r.tried
                                  /\ run'.attempt = r.attempt
           /\ run'.tried = r.tried /\ run'.attempt = r.attempt
<1>1. CASE AnotherTurn(r)
  <2>1. r.turn + 1 \in 1..MaxTurns
    BY <1>1, RunAssumption DEF AnotherTurn, Run
  <2>2. run' = [r EXCEPT !.turn = @ + 1, !.explored = FALSE]
    BY <1>1 DEF EndTurn
  <2> QED
    BY <2>1, <2>2 DEF Run
<1>2. CASE ~AnotherTurn(r)
  <2>1. run' = [r EXCEPT !.pc = "final", !.ended = "well"]
    BY <1>2 DEF EndTurn
  <2> QED
    BY <2>1 DEF Run
<1> QED
  BY <1>1, <1>2

-----------------------------------------------------------------------------
(* The actions, one by one.                                                *)

LEMMA BeginKeeps == ASSUME RunInv, Begin PROVE RunInv'
<1>1. PICK mode \in {"audit", "talk"}, explicit \in BOOLEAN, code \in BOOLEAN, target \in Models :
          \E model \in Selected(target) : Start(mode, explicit, code, model)
  BY DEF Begin
<1>2. PICK model \in Selected(target) : Start(mode, explicit, code, model)
  BY <1>1
<1>3. model \in Models
  BY RunAssumption DEF Selected, ChainNow
<1> DEFINE new == NewRun(mode, explicit, code, model)
<1>4. /\ new \in Run /\ new.pc = "turn" /\ new.ended = "no"
      /\ new.attempt = 0 /\ new.tried = {model}
  BY <1>3, NewRunTyped DEF RunInv, RunTypeOK
<1>5. /\ UNCHANGED <<github, session, depleted>>
      /\ runs' = runs + 1 /\ runs < MaxRuns
      /\ \/ /\ run' = [Over([new EXCEPT !.reviewed = TRUE])
                            EXCEPT !.explicit = explicit, !.ended = "skipped"]
            /\ checkpoint' = checkpoint
         \/ /\ run' = new
            /\ \/ checkpoint' = checkpoint
               \/ checkpoint' = [checkpoint EXCEPT ![head] = "pending"]
  BY <1>2 DEF Start
<1> HIDE DEF new
<1>6. /\ run' \in Run
      /\ AttemptsAreModels'
  <2>1. CASE run' = new
    <3>1. Cardinality({model}) = 1
      BY FS_Singleton
    <3> QED
      BY <1>4, <2>1, <3>1 DEF AttemptsAreModels
  <2>2. CASE run' = [Over([new EXCEPT !.reviewed = TRUE])
                          EXCEPT !.explicit = explicit, !.ended = "skipped"]
    <3> DEFINE r == [new EXCEPT !.reviewed = TRUE]
    <3>1. r.head \in Heads /\ r.reviewed \in BOOLEAN /\ r.posts \in Nat /\ r.broken \in BOOLEAN
      BY <1>4 DEF Run
    <3>2. Over(r) \in Run /\ Over(r).pc = "done"
      BY <3>1, OverTyped DEF RunInv, RunTypeOK
    <3> HIDE DEF r
    <3>3. run' \in Run /\ run'.pc = "done"
      BY <2>2, <3>2 DEF Run, r
    <3> QED
      BY <3>3 DEF AttemptsAreModels
  <2> QED
    BY <1>5, <2>1, <2>2
<1>7. checkpoint' \in [Heads -> Statuses]
  BY <1>5 DEF RunInv, RunTypeOK, Statuses
<1>8. runs' \in 0..MaxRuns
  BY <1>5, RunAssumption DEF RunInv, RunTypeOK
<1> QED
  BY <1>5, <1>6, <1>7, <1>8 DEF RunInv, RunTypeOK, github, session

\* A step of a turn that only changes the record keeps the invariant if the record is
\* typed and the attempt is what it was.
LEMMA SameAttemptKeeps ==
    ASSUME RunInv, run.pc = "turn", run' \in Run,
           run'.pc = "turn" => run'.ended = "no" /\ run'.tried = run.tried
                               /\ run'.attempt = run.attempt,
           UNCHANGED <<head, closed, replied, checkpoint, depleted, runs>>,
           reviews' \subseteq [commit : Heads, about : Heads],
           analysis' \in Heads \cup {None}, reply' \in 0..MaxRuns
    PROVE  RunInv'
  BY DEF RunInv, RunTypeOK, AttemptsAreModels

LEMMA PostedTyped ==
    ASSUME RunInv, NEW about \in Heads, Posted(about)
    PROVE  reviews' \subseteq [commit : Heads, about : Heads]
<1>1. run.head \in Heads
  BY DEF RunInv, RunTypeOK, Run
<1>2. [commit |-> run.head, about |-> about] \in [commit : Heads, about : Heads]
  BY <1>1
<1> QED
  BY <1>2 DEF RunInv, RunTypeOK, Posted

LEMMA ToolKeeps ==
    ASSUME RunInv, (\E deep \in BOOLEAN : Investigate(deep)) \/ RejectReview \/ RefuseReview
    PROVE  RunInv'
<1>1. run \in Run /\ run.pc = "turn" /\ run.ended = "no"
  BY DEF RunInv, RunTypeOK, AttemptsAreModels, Investigate, RejectReview, RefuseReview,
         Admitted, Auditing, At
<1>2. UNCHANGED <<github, checkpoint, session, depleted, runs>>
  BY DEF Investigate, RejectReview, RefuseReview
<1>3. run' \in Run /\ run'.ended = "no" /\ run'.tried = run.tried /\ run'.attempt = run.attempt
  <2>1. ASSUME NEW deep \in BOOLEAN, Investigate(deep)
        PROVE  /\ run' \in Run /\ run'.ended = "no"
               /\ run'.tried = run.tried /\ run'.attempt = run.attempt
    BY <1>1, <2>1 DEF Investigate, Run
  <2>2. CASE RejectReview
    BY <1>1, <2>2 DEF RejectReview, Run
  <2>3. CASE RefuseReview
    BY <1>1, <2>3 DEF RefuseReview, Run
  <2> QED
    BY <2>1, <2>2, <2>3
<1> QED
  BY <1>1, <1>2, <1>3, SameAttemptKeeps DEF RunInv, RunTypeOK, github, session

LEMMA PostKeeps == ASSUME RunInv, PostReview PROVE RunInv'
<1>1. /\ run \in Run /\ run.pc = "turn" /\ run.ended = "no"
      /\ Posted(run.head)
      /\ UNCHANGED <<head, closed, replied, checkpoint, session, depleted, runs>>
  BY DEF RunInv, RunTypeOK, AttemptsAreModels, PostReview, Admitted, Auditing, At
<1>2. /\ run' \in Run /\ run'.ended = "no"
      /\ run'.tried = run.tried /\ run'.attempt = run.attempt
  <2>1. run.posts + 1 \in Nat
    BY <1>1 DEF Run
  <2> QED
    BY <1>1, <2>1 DEF PostReview, Run
<1>3. reviews' \subseteq [commit : Heads, about : Heads]
  <2>1. run.head \in Heads
    BY <1>1 DEF Run
  <2> QED
    BY <1>1, <2>1, PostedTyped
<1> QED
  BY <1>1, <1>2, <1>3, SameAttemptKeeps DEF RunInv, RunTypeOK, session

LEMMA BreakKeeps == ASSUME RunInv, BreakReview PROVE RunInv'
<1>1. /\ run \in Run /\ run.pc = "turn" /\ run.ended = "no"
      /\ UNCHANGED <<head, closed, replied, checkpoint, session, depleted, runs>>
  BY DEF RunInv, RunTypeOK, AttemptsAreModels, BreakReview, Admitted, Auditing, At
<1>2. /\ run' \in Run /\ run'.ended = "no"
      /\ run'.tried = run.tried /\ run'.attempt = run.attempt
  <2>1. run.posts + 1 \in Nat
    BY <1>1 DEF Run
  <2>2. CASE run' = [run EXCEPT !.reviewed = TRUE, !.rejected = FALSE, !.broken = TRUE]
    BY <1>1, <2>2 DEF Run
  <2>3. CASE run' = [run EXCEPT !.reviewed = TRUE, !.rejected = FALSE, !.broken = TRUE,
                                !.posts = @ + 1]
    BY <1>1, <2>1, <2>3 DEF Run
  <2> QED
    BY <2>2, <2>3 DEF BreakReview
<1>3. reviews' \subseteq [commit : Heads, about : Heads]
  <2>1. run.head \in Heads
    BY <1>1 DEF Run
  <2>2. CASE UNCHANGED reviews
    BY <2>2 DEF RunInv, RunTypeOK
  <2>3. CASE Posted(run.head)
    BY <2>1, <2>3, PostedTyped
  <2> QED
    BY <2>2, <2>3 DEF BreakReview
<1> QED
  BY <1>1, <1>2, <1>3, SameAttemptKeeps DEF RunInv, RunTypeOK, session

LEMMA AnswerKeeps == ASSUME RunInv, Answer PROVE RunInv'
<1>1. /\ run \in Run /\ run.pc = "turn" /\ run.ended = "no"
      /\ UNCHANGED <<github, checkpoint, depleted, runs>>
  BY DEF RunInv, RunTypeOK, AttemptsAreModels, Answer, At
<1> DEFINE r == [run EXCEPT !.text = run.mode = "talk"]
<1>2. /\ r \in Run /\ r.pc = "turn" /\ r.ended = "no"
      /\ r.tried = run.tried /\ r.attempt = run.attempt
  BY <1>1 DEF Run
<1>3. EndTurn(r)
  BY DEF Answer
<1> HIDE DEF r
<1>4. /\ run' \in Run
      /\ run'.pc = "turn" => run'.ended = "no" /\ run'.tried = run.tried
                             /\ run'.attempt = run.attempt
  BY <1>2, <1>3, EndTurnTyped
<1>5. analysis' \in Heads \cup {None} /\ reply' \in 0..MaxRuns
  BY <1>1 DEF Answer, RunInv, RunTypeOK, Run
<1> QED
  BY <1>1, <1>4, <1>5, SameAttemptKeeps DEF RunInv, RunTypeOK, github

LEMMA SilenceKeeps == ASSUME RunInv, Silence PROVE RunInv'
<1>1. /\ run \in Run /\ run.pc = "turn" /\ run.ended = "no"
      /\ UNCHANGED <<github, checkpoint, session, depleted, runs>>
  BY DEF RunInv, RunTypeOK, AttemptsAreModels, Silence, At
<1>2. /\ run' \in Run
      /\ run'.pc = "turn" => run'.ended = "no" /\ run'.tried = run.tried
                             /\ run'.attempt = run.attempt
  <2>1. CASE EndTurn(run)
    BY <1>1, <2>1, EndTurnTyped
  <2>2. CASE run' = [run EXCEPT !.pc = "final", !.ended = "well"]
    BY <1>1, <2>2 DEF Run
  <2> QED
    BY <2>1, <2>2 DEF Silence
<1> QED
  BY <1>1, <1>2, SameAttemptKeeps DEF RunInv, RunTypeOK, github, session

LEMMA StopKeeps == ASSUME RunInv, Fatal \/ Abort PROVE RunInv'
<1>1. /\ run \in Run /\ run.pc = "turn"
      /\ UNCHANGED <<github, checkpoint, session, depleted, runs>>
  BY DEF RunInv, RunTypeOK, Fatal, Abort, Admitted, Auditing, At
<1>2. run' \in Run /\ run'.pc = "final"
  BY <1>1 DEF Fatal, Abort, GivesUp, Run
<1> QED
  BY <1>1, <1>2, SameAttemptKeeps DEF RunInv, RunTypeOK, github, session

\* A failover moves to an untried model, so the models it went through grow by one.
LEMMA TransientKeeps == ASSUME RunInv, Transient PROVE RunInv'
<1>1. /\ run \in Run /\ run.pc = "turn" /\ run.head \in Heads
      /\ UNCHANGED <<github, session, runs>>
  BY DEF RunInv, RunTypeOK, Transient, At, Run
<1>2. RetriesLeft
  BY <1>1, AttemptLeft
<1>3. /\ depleted' = depleted \cup {run.model}
      /\ depleted' \subseteq Models
  BY <1>1, <1>2 DEF Transient, RunInv, RunTypeOK, Run
<1>4. CASE Untried = {}
  <2>1. /\ run' = [run EXCEPT !.pc = "final", !.ended = "unavailable"]
        /\ checkpoint' = [checkpoint EXCEPT ![run.head] = "paused"]
    BY <1>2, <1>4 DEF Transient, GivesUp
  <2>2. run' \in Run /\ run'.pc = "final"
    BY <1>1, <2>1 DEF Run
  <2>3. checkpoint' \in [Heads -> Statuses]
    BY <2>1 DEF RunInv, RunTypeOK, Statuses
  <2> QED
    BY <1>1, <1>3, <2>2, <2>3 DEF RunInv, RunTypeOK, AttemptsAreModels, github, session
<1>5. CASE Untried # {}
  <2>1. PICK m \in Untried :
          run' = [run EXCEPT !.model = m, !.tried = @ \cup {m}, !.attempt = @ + 1, !.turn = 1,
                             !.explored = FALSE, !.prior = reply]
    BY <1>2, <1>5 DEF Transient
  <2>2. m \in Models /\ m \notin run.tried
    BY RunAssumption DEF Untried, ChainNow
  <2>3. /\ run.attempt + 1 \in 0..MaxRetries /\ 1 \in 1..MaxTurns
        /\ reply \in 0..MaxRuns
        /\ run.tried \cup {m} \in SUBSET Models
    BY <1>1, <1>2, <2>2, RunAssumption DEF RetriesLeft, RunInv, RunTypeOK, Run
  <2>4. /\ run' \in Run
        /\ run'.ended = run.ended
        /\ run'.tried = run.tried \cup {m}
        /\ run'.attempt = run.attempt + 1
    BY <1>1, <2>1, <2>2, <2>3 DEF Run
  <2>5. Cardinality(run.tried \cup {m}) = Cardinality(run.tried) + 1
    <3>1. IsFiniteSet(run.tried)
      BY <1>1, RunAssumption, FS_Subset DEF Run
    <3> QED
      BY <2>2, <3>1, FS_AddElement
  <2>6. run.ended = "no" /\ Cardinality(run.tried) = run.attempt + 1
    BY <1>1 DEF RunInv, AttemptsAreModels
  <2>7. AttemptsAreModels'
    BY <2>4, <2>5, <2>6 DEF AttemptsAreModels
  <2>8. checkpoint' = checkpoint
    BY <1>2, <1>5 DEF Transient
  <2> QED
    BY <1>1, <1>3, <2>4, <2>7, <2>8 DEF RunInv, RunTypeOK, github, session
<1> QED
  BY <1>4, <1>5

LEMMA RunOver ==
    ASSUME RunInv, NEW r \in Run, run' = Over(r)
    PROVE  /\ run' \in Run /\ run'.pc = "done"
           /\ run'.ended = "no" /\ run'.attempt = 0
<1>1. r.head \in Heads /\ r.reviewed \in BOOLEAN /\ r.posts \in Nat /\ r.broken \in BOOLEAN
  BY DEF Run
<1> QED
  BY <1>1, OverTyped DEF RunInv, RunTypeOK

LEMMA FinishKeeps == ASSUME RunInv, FinishAudit \/ FinishTalk PROVE RunInv'
<1>1. /\ run \in Run /\ run.pc = "final" /\ run.head \in Heads
      /\ UNCHANGED <<head, closed, session, depleted, runs>>
  BY DEF RunInv, RunTypeOK, FinishAudit, FinishTalk, At, Run
<1>2. CASE FinishAudit /\ Posted(Payload) /\ ~(run' = Over(run) /\ UNCHANGED <<reviews, checkpoint>>)
  <2> DEFINE r == [run EXCEPT !.reviewed = TRUE, !.posts = @ + 1]
  <2>0. run.posts + 1 \in Nat
    BY <1>1 DEF Run
  <2>1. r \in Run
    BY <1>1, <2>0 DEF Run
  <2>2. /\ run' = Over(r) /\ Payload # None
        /\ checkpoint' = [checkpoint EXCEPT ![run.head] = "completed"]
        /\ replied' = replied
    BY <1>2 DEF FinishAudit
  <2> HIDE DEF r
  <2>3. run' \in Run /\ run'.pc = "done"
    BY <2>1, <2>2, RunOver
  <2>4. Payload \in Heads
    BY <2>2 DEF Payload, RunInv, RunTypeOK
  <2>5. reviews' \subseteq [commit : Heads, about : Heads]
    BY <1>2, <2>4, PostedTyped
  <2>6. checkpoint' \in [Heads -> Statuses]
    BY <2>2 DEF RunInv, RunTypeOK, Statuses
  <2> QED
    BY <1>1, <2>2, <2>3, <2>5, <2>6 DEF RunInv, RunTypeOK, AttemptsAreModels, session
<1>3. CASE FinishAudit /\ run' = Over(run) /\ UNCHANGED <<reviews, checkpoint>>
  <2>1. run' \in Run /\ run'.pc = "done"
    BY <1>1, <1>3, RunOver
  <2>2. replied' = replied
    BY <1>3 DEF FinishAudit
  <2> QED
    BY <1>1, <1>3, <2>1, <2>2 DEF RunInv, RunTypeOK, AttemptsAreModels, session
<1>4. CASE FinishTalk
  <2>1. run' \in Run /\ run'.pc = "done"
    BY <1>1, <1>4, RunOver DEF FinishTalk
  <2>2. replied' \in 0..MaxRuns
    BY <1>1, <1>4, RunAssumption DEF FinishTalk, FreshReply, RunInv, RunTypeOK
  <2>3. UNCHANGED <<reviews, checkpoint>>
    BY <1>4 DEF FinishTalk
  <2> QED
    BY <1>1, <2>1, <2>2, <2>3 DEF RunInv, RunTypeOK, AttemptsAreModels, session
<1>5. FinishAudit => Posted(Payload) \/ (run' = Over(run) /\ UNCHANGED <<reviews, checkpoint>>)
  BY DEF FinishAudit
<1> QED
  BY <1>2, <1>3, <1>4, <1>5

LEMMA EnvironmentKeeps == ASSUME RunInv, Environment PROVE RunInv'
<1>1. CASE Push
  BY <1>1, RunAssumption DEF Push, RunInv, RunTypeOK, AttemptsAreModels, session, Heads
<1>2. CASE Close
  BY <1>2 DEF Close, RunInv, RunTypeOK, AttemptsAreModels, session
<1>3. ASSUME NEW m \in Models, Recover(m) PROVE RunInv'
  BY <1>3 DEF Recover, RunInv, RunTypeOK, AttemptsAreModels, session, github
<1>4. ASSUME NEW h \in Heads, BackoffEnds(h) PROVE RunInv'
  BY <1>4 DEF BackoffEnds, RunInv, RunTypeOK, AttemptsAreModels, session, github, Statuses
<1>5. CASE Evict
  BY <1>5, RunAssumption DEF Evict, RunInv, RunTypeOK, AttemptsAreModels, github
<1>6. CASE Restart
  <2>1. [run EXCEPT !.reviewed = FALSE] \in Run
    BY DEF RunInv, RunTypeOK, Run
  <2>2. run' \in Run /\ run'.pc = "done"
    BY <1>6, <2>1, RunOver DEF Restart
  <2> QED
    BY <1>6, <2>2, RunAssumption DEF Restart, RunInv, RunTypeOK, AttemptsAreModels, github
<1> QED
  BY <1>1, <1>2, <1>3, <1>4, <1>5, <1>6 DEF Environment

LEMMA InitHolds == ASSUME RunInit PROVE RunInv
<1> DEFINE r == [head |-> head, reviewed |-> FALSE, posts |-> 0, broken |-> FALSE]
<1>1. head \in Heads /\ reply \in 0..MaxRuns /\ 0 \in 0..MaxRuns
  BY RunAssumption DEF RunInit, Heads
<1>2. r.head \in Heads /\ r.reviewed \in BOOLEAN /\ r.posts \in Nat /\ r.broken \in BOOLEAN
  BY <1>1
<1>3. Over(r) \in Run /\ Over(r).pc = "done"
  BY <1>1, <1>2, OverTyped
<1>4. run = Over(r)
  BY DEF RunInit
<1> HIDE DEF r
<1>5. run \in Run /\ run.pc = "done"
  BY <1>3, <1>4
<1>6. checkpoint \in [Heads -> Statuses]
  BY DEF RunInit, Statuses
<1> QED
  BY <1>1, <1>5, <1>6 DEF RunInit, RunInv, RunTypeOK, AttemptsAreModels

LEMMA StepKeeps == ASSUME RunInv, [RunNext]_vars PROVE RunInv'
<1>1. CASE Begin
  BY <1>1, BeginKeeps
<1>2. CASE Turn
  BY <1>2, ToolKeeps, PostKeeps, BreakKeeps, AnswerKeeps, SilenceKeeps, TransientKeeps, StopKeeps
     DEF Turn
<1>3. CASE FinishAudit \/ FinishTalk
  BY <1>3, FinishKeeps
<1>4. CASE Environment
  BY <1>4, EnvironmentKeeps
<1>5. CASE UNCHANGED vars
  BY <1>5 DEF vars, github, session, RunInv, RunTypeOK, AttemptsAreModels
<1> QED
  BY <1>1, <1>2, <1>3, <1>4, <1>5 DEF RunNext

\* Of the steps taken in a turn only a failover starts an attempt or finds a model
\* unavailable.
LEMMA OnlyTransient ==
    ASSUME RunInv, [RunNext]_vars, run.pc = "turn", ~Transient
    PROVE  run'.attempt \in {run.attempt, 0} /\ run'.ended # "unavailable"
<1> DEFINE Quiet == run'.attempt \in {run.attempt, 0} /\ run'.ended # "unavailable"
<1>1. run \in Run /\ run.ended = "no"
  BY DEF RunInv, RunTypeOK, AttemptsAreModels
<1>2. ASSUME NEW r \in Run, r.ended = "no", r.pc = "turn", r.attempt = run.attempt, EndTurn(r)
      PROVE  Quiet
  BY <1>2, EndTurnTyped
<1>3. CASE run' = run
  BY <1>1, <1>3
<1>4. ASSUME NEW deep \in BOOLEAN, Investigate(deep) PROVE Quiet
  BY <1>1, <1>4 DEF Investigate, Run
<1>5. CASE RejectReview
  BY <1>1, <1>5 DEF RejectReview, Run
<1>6. CASE RefuseReview
  BY <1>1, <1>6 DEF RefuseReview, Run
<1>7. CASE PostReview
  <2>1. run.posts + 1 \in Nat
    BY <1>1 DEF Run
  <2> QED
    BY <1>1, <1>7, <2>1 DEF PostReview, Run
<1>8. CASE BreakReview
  BY <1>1, <1>8 DEF BreakReview, Run
<1>9. CASE Answer
  <2> DEFINE r == [run EXCEPT !.text = run.mode = "talk"]
  <2>1. r \in Run /\ r.ended = "no" /\ r.pc = "turn" /\ r.attempt = run.attempt
    BY <1>1 DEF Run
  <2>2. EndTurn(r)
    BY <1>9 DEF Answer
  <2> QED
    BY <1>2, <2>1, <2>2
<1>10. CASE Silence
  <2>1. CASE EndTurn(run)
    BY <1>1, <1>2, <2>1
  <2>2. CASE run' = [run EXCEPT !.pc = "final", !.ended = "well"]
    BY <1>1, <2>2 DEF Run
  <2> QED
    BY <1>10, <2>1, <2>2 DEF Silence
<1>11. CASE Fatal \/ Abort
  BY <1>1, <1>11 DEF Fatal, Abort, GivesUp, Run
<1>12. CASE Restart
  <2>1. [run EXCEPT !.reviewed = FALSE] \in Run
    BY <1>1 DEF Run
  <2> QED
    BY <1>12, <2>1, RunOver DEF Restart
<1>13. ~Begin /\ ~FinishAudit /\ ~FinishTalk
  BY DEF Begin, Start, FinishAudit, FinishTalk, At
<1>14. CASE Environment
  BY <1>3, <1>12, <1>14 DEF Environment, Push, Close, Recover, BackoffEnds, Evict, At
<1>15. CASE Turn
  BY <1>4, <1>5, <1>6, <1>7, <1>8, <1>9, <1>10, <1>11, <1>15 DEF Turn
<1> QED
  BY <1>3, <1>13, <1>14, <1>15 DEF RunNext, vars

\* No other step of any run pauses a review.
LEMMA OnlyTransientPauses ==
    ASSUME RunInv, [RunNext]_vars, ~Transient,
           NEW h \in Heads, checkpoint[h] # "paused"
    PROVE  checkpoint'[h] # "paused"
<1>1. checkpoint \in [Heads -> Statuses] /\ head \in Heads
  BY DEF RunInv, RunTypeOK
<1>2. run.head \in Heads
  BY DEF RunInv, RunTypeOK, Run
<1>3. CASE checkpoint' = checkpoint
  BY <1>3
<1>4. CASE Begin
  <2>1. PICK mode \in {"audit", "talk"}, explicit \in BOOLEAN, code \in BOOLEAN,
             target \in Models :
          \E model \in Selected(target) : Start(mode, explicit, code, model)
    BY <1>4 DEF Begin
  <2>2. PICK model \in Selected(target) : Start(mode, explicit, code, model)
    BY <2>1
  <2>3. checkpoint' = checkpoint \/ checkpoint' = [checkpoint EXCEPT ![head] = "pending"]
    BY <2>2 DEF Start
  <2> QED
    BY <1>1, <2>3
<1>5. CASE FinishAudit \/ FinishTalk
  BY <1>1, <1>2, <1>5 DEF FinishAudit, FinishTalk
<1>6. CASE Environment
  BY <1>1, <1>3, <1>6 DEF Environment, Push, Close, Recover, BackoffEnds, Evict, Restart
<1>7. CASE Turn
  BY <1>3, <1>7 DEF Turn, Investigate, RejectReview, PostReview, RefuseReview, BreakReview,
                    Answer, Silence, Fatal, Abort
<1>8. CASE UNCHANGED vars
  BY <1>3, <1>8 DEF vars
<1> QED
  BY <1>4, <1>5, <1>6, <1>7, <1>8 DEF RunNext

-----------------------------------------------------------------------------
(* Theorems                                                                *)

\* The inductive invariant: a run in its turns has tried one model for each attempt.
THEOREM RunInvariant == RunSpec => []RunInv
<1>1. RunInit => RunInv
  BY InitHolds
<1>2. RunInv /\ [RunNext]_vars => RunInv'
  BY StepKeeps
<1> QED
  BY <1>1, <1>2, PTL DEF RunSpec

\* Type correctness for every chain, and every bound of turns, commits and runs.
THEOREM RunTypeCorrect == RunSpec => []RunTypeOK
<1>1. RunInv => RunTypeOK
  BY DEF RunInv
<1> QED
  BY <1>1, RunInvariant, PTL

\* However long the chain, whatever cools down or recovers meanwhile: a model that failed in
\* a run is not selected by it again (the failover of _advance_model_chain).
THEOREM FailoverIsFresh == RunSpec => NoModelRecycled
<1>1. RunInv /\ [RunNext]_vars
        => [At("turn") /\ run'.attempt > run.attempt => run'.model \notin run.tried]_vars
  <2> SUFFICES ASSUME RunInv, [RunNext]_vars, run.pc = "turn", run'.attempt > run.attempt
               PROVE  run'.model \notin run.tried
    BY DEF At
  <2>1. run \in Run /\ run.attempt \in Nat
    BY RunAssumption DEF RunInv, RunTypeOK, Run
  <2>2. Transient
    BY <2>1, OnlyTransient
  <2>3. CASE Untried = {} \/ ~RetriesLeft
    <3>1. \E how \in {"unavailable"} : GivesUp(how)
      BY <2>2, <2>3 DEF Transient
    <3> QED
      BY <2>1, <3>1 DEF GivesUp, Run
  <2>4. CASE Untried # {} /\ RetriesLeft
    <3>1. PICK m \in Untried : run'.model = m
      BY <2>1, <2>2, <2>4 DEF Transient, Run
    <3> QED
      BY <3>1 DEF Untried
  <2> QED
    BY <2>3, <2>4
<1> QED
  BY <1>1, RunInvariant, PTL DEF RunSpec, NoModelRecycled

\* For every chain shorter than the retries: a run that ends on a model it cannot reach has
\* paused its commit (the loop never ends on its last attempt, which pauses nothing).
THEOREM UnavailablePauses == RunSpec => UnavailableIsPaused
<1>1. RunInv /\ [RunNext]_vars
        => [(At("turn") /\ run'.ended = "unavailable") => checkpoint'[run.head] = "paused"]_vars
  <2> SUFFICES ASSUME RunInv, [RunNext]_vars, run.pc = "turn", run'.ended = "unavailable"
               PROVE  checkpoint'[run.head] = "paused"
    BY DEF At
  <2>1. run \in Run /\ run.head \in Heads /\ run.ended = "no"
        /\ checkpoint \in [Heads -> Statuses]
    BY DEF RunInv, RunTypeOK, AttemptsAreModels, Run
  <2>2. Transient /\ RetriesLeft
    BY OnlyTransient, AttemptLeft
  <2>3. CASE Untried = {}
    BY <2>1, <2>2, <2>3 DEF Transient
  <2>4. CASE Untried # {}
    <3>1. PICK m \in Untried :
            run' = [run EXCEPT !.model = m, !.tried = @ \cup {m}, !.attempt = @ + 1,
                               !.turn = 1, !.explored = FALSE, !.prior = reply]
      BY <2>2, <2>4 DEF Transient
    <3>2. run'.ended = "no"
      BY <2>1, <3>1 DEF Run
    <3> QED
      BY <3>2
  <2> QED
    BY <2>3, <2>4
<1> QED
  BY <1>1, RunInvariant, PTL DEF RunSpec, UnavailableIsPaused

\* For every chain: a review is paused only by a run that tried all of it, or all but models
\* that cool down from other runs while one it tried has recovered.
THEOREM PauseNeedsExhaustion == RunSpec => PausedOnlyWhenExhausted
<1> DEFINE Exhausted == \/ Chain \subseteq run.tried
                        \/ /\ Chain \subseteq run.tried \cup depleted'
                           /\ \E m \in Chain \cap run.tried : m \notin depleted'
<1>1. RunInv /\ [RunNext]_vars
        => [\A h \in Heads : (checkpoint[h] # "paused" /\ checkpoint'[h] = "paused")
               => Exhausted]_vars
  <2> SUFFICES ASSUME RunInv, [RunNext]_vars,
                      NEW h \in Heads, checkpoint[h] # "paused", checkpoint'[h] = "paused"
               PROVE  Exhausted
    OBVIOUS
  <2>1. Transient
    BY OnlyTransientPauses
  <2>2. RetriesLeft
    BY <2>1, AttemptLeft DEF Transient, At
  <2>3. Untried = {} /\ depleted' = depleted \cup {run.model}
    BY <2>1, <2>2 DEF Transient
  <2>4. CASE Chain \subseteq depleted'
    BY <2>3, <2>4 DEF Untried, ChainNow
  <2>5. CASE ~(Chain \subseteq depleted')
    BY <2>3, <2>5 DEF Untried, ChainNow
  <2> QED
    BY <2>4, <2>5
<1> QED
  BY <1>1, RunInvariant, PTL DEF RunSpec, PausedOnlyWhenExhausted

-----------------------------------------------------------------------------
(***************************************************************************)
(* What a run leaves behind, for every chain of models and every number of *)
(* runs, turns and commits: it posts one review in one answer, reports only *)
(* a review that is there, completes only a commit that has one, and        *)
(* replies with its own answer.                                             *)
(***************************************************************************)

HasReview(h) == \E r \in reviews : r.commit = h

\* A review of the tool is there from then on and leaves the invocation ending, so that
\* the turns are over when the answer's calls are.
PostsCounted ==
    /\ run.posts > 0 => HasReview(run.head)
    /\ run.ending => run.reviewed
    /\ (run.posts > 0 /\ ~run.broken)
          => (run.pc = "turn" => run.ending) /\ (run.pc = "final" => run.reviewed)

\* While a run goes on no checkpoint excuses the review it reports.
ReviewedTold ==
    (run.reviewed /\ ~run.broken)
    => \/ HasReview(run.head)
       \/ run.head < head
       \/ run.pc = "done" /\ checkpoint[run.head] \in {"paused", "due"}

\* The session's reply is of this run, or was there when the attempt began.
ReplyKnown == run.pc # "done" => reply \in {run.prior, runs}

\* A step of a turn that leaves what the run has posted and reported as it was.
RecordKept ==
    /\ run'.head = run.head /\ run'.reviewed = run.reviewed
    /\ run'.posts = run.posts /\ run'.broken = run.broken
    /\ run'.ending = run.ending
    /\ run'.prior = run.prior /\ run'.pc \in {"turn", "final"}

ResultInv ==
    /\ run.head <= head
    /\ CompletedMeansReviewed
    /\ PostsCounted
    /\ ReviewedTold
    /\ ReplyKnown

-----------------------------------------------------------------------------
(* What the operators on a run's record keep                               *)

LEMMA EndTurnRecord ==
    ASSUME NEW r \in Run, r.pc = "turn", EndTurn(r)
    PROVE  /\ run'.head = r.head /\ run'.reviewed = r.reviewed /\ run'.posts = r.posts
           /\ run'.broken = r.broken /\ run'.prior = r.prior
           /\ run'.ending = r.ending
           /\ run'.pc \in {"turn", "final"}
           /\ r.reviewed => run'.pc = "final"
<1>1. CASE AnotherTurn(r)
  <2>1. run' = [r EXCEPT !.turn = @ + 1, !.explored = FALSE] /\ ~r.reviewed
    BY <1>1 DEF EndTurn, AnotherTurn
  <2> QED
    BY <2>1 DEF Run
<1>2. CASE ~AnotherTurn(r)
  <2>1. run' = [r EXCEPT !.pc = "final", !.ended = "well"]
    BY <1>2 DEF EndTurn
  <2> QED
    BY <2>1 DEF Run
<1> QED
  BY <1>1, <1>2

LEMMA OverRecord ==
    ASSUME RunInv, NEW r
    PROVE  /\ Over(r).head = r.head /\ Over(r).reviewed = r.reviewed
           /\ Over(r).posts = r.posts /\ Over(r).broken = r.broken
           /\ Over(r).pc = "done" /\ ~Over(r).ending
<1> DEFINE n == NewRun("talk", FALSE, FALSE, AnyModel)
<1>1. n \in Run /\ ~n.ending
  BY NewRunTyped, AnyModelIsModel DEF RunInv, RunTypeOK, NewRun
<1>2. Over(r) = [n EXCEPT !.pc = "done", !.head = r.head, !.prior = 0,
                          !.reviewed = r.reviewed, !.posts = r.posts, !.broken = r.broken]
  BY DEF Over
<1> HIDE DEF n
<1> QED
  BY <1>1, <1>2 DEF Run

LEMMA PostedIsThere ==
    ASSUME NEW about, Posted(about), run'.head = run.head
    PROVE  HasReview(run.head)' /\ reviews \subseteq reviews'
<1> DEFINE review == [commit |-> run.head, about |-> about]
<1>1. review \in reviews' /\ reviews \subseteq reviews'
  BY DEF Posted
<1>2. review.commit = run'.head
  OBVIOUS
<1> HIDE DEF review
<1> QED
  BY <1>1, <1>2 DEF HasReview

\* A step that posts nothing and reports nothing new.
LEMMA QuietStep ==
    ASSUME RunInv, ResultInv,
           run'.head = run.head, run'.reviewed = run.reviewed,
           run'.posts = run.posts, run'.broken = run.broken, run'.ending = run.ending,
           run'.pc = run.pc \/ (run.pc = "turn" /\ run'.pc = "final"),
           UNCHANGED <<head, reviews>>,
           \A h \in Heads : /\ checkpoint'[h] = "completed" => checkpoint[h] = "completed"
                            /\ run.pc = "done" /\ checkpoint[h] \in {"paused", "due"}
                               => checkpoint'[h] \in {"paused", "due"},
           run'.pc # "done" => reply' \in {run'.prior, runs'}
    PROVE  ResultInv'
<1>1. run.head \in Heads
  BY DEF RunInv, RunTypeOK, Run
<1>2. run'.head <= head' /\ CompletedMeansReviewed' /\ ReplyKnown'
  BY DEF ResultInv, CompletedMeansReviewed, ReplyKnown
<1>3. PostsCounted'
  <2>1. run.posts > 0 => HasReview(run.head)'
    BY DEF ResultInv, PostsCounted, HasReview
  <2> QED
    BY <2>1 DEF ResultInv, PostsCounted
<1>4. ReviewedTold'
  BY <1>1 DEF ResultInv, ReviewedTold, HasReview
<1> QED
  BY <1>2, <1>3, <1>4 DEF ResultInv

-----------------------------------------------------------------------------
(* The actions, one by one                                                 *)

LEMMA BeginResult == ASSUME RunInv, ResultInv, Begin PROVE ResultInv'
<1>1. PICK mode \in {"audit", "talk"}, explicit \in BOOLEAN, code \in BOOLEAN, target \in Models :
          \E model \in Selected(target) : Start(mode, explicit, code, model)
  BY DEF Begin
<1>2. PICK model \in Selected(target) : Start(mode, explicit, code, model)
  BY <1>1
<1> DEFINE new == NewRun(mode, explicit, code, model)
<1>3. /\ new.head = head /\ new.posts = 0 /\ ~new.reviewed /\ ~new.broken
      /\ ~new.ending /\ new.prior = reply /\ new.pc = "turn"
  BY DEF NewRun
<1>4. UNCHANGED <<github, session, depleted>>
  BY <1>2 DEF Start
<1>5. head \in Nat /\ head \in Heads /\ checkpoint \in [Heads -> Statuses]
  BY RunAssumption DEF RunInv, RunTypeOK, Heads
<1>6. CASE mode = "audit" /\ Settled
  <2> DEFINE told == [new EXCEPT !.reviewed = TRUE]
             ended == Over(told)
  <2>1. /\ run' = [ended EXCEPT !.explicit = explicit, !.ended = "skipped"]
        /\ checkpoint' = checkpoint
    BY <1>2, <1>6 DEF Start
  <2>2. model \in Models
    BY <1>2, RunAssumption DEF Selected, ChainNow
  <2>3. new \in Run
    BY <2>2, NewRunTyped DEF RunInv, RunTypeOK
  <2>4. told.head = head /\ told.posts = 0 /\ told.reviewed /\ ~told.broken
    <3> HIDE DEF new
    <3> QED
      BY <1>3, <2>3 DEF Run
  <2>5. ended.head = head /\ ended.posts = 0 /\ ended.reviewed /\ ~ended.broken /\ ended.pc = "done"
        /\ ~ended.ending
    BY <2>4, OverRecord
  <2>6. ended \in Run
    <3> HIDE DEF new
    <3>0. told \in Run
      BY <2>3 DEF Run
    <3> HIDE DEF told
    <3>1. told.head \in Heads /\ told.reviewed \in BOOLEAN /\ told.posts \in Nat
          /\ told.broken \in BOOLEAN
      BY <3>0 DEF Run
    <3> QED
      BY <3>1, OverTyped DEF RunInv, RunTypeOK
  <2> HIDE DEF ended
  <2>7. run'.head = head /\ run'.posts = 0 /\ run'.pc = "done" /\ ~run'.ending
    BY <2>1, <2>5, <2>6 DEF Run
  <2>8. HasReview(head) \/ checkpoint[head] \in {"paused", "due"}
    BY <1>5, <1>6 DEF Settled, ResultInv, CompletedMeansReviewed, HasReview
  <2> QED
    BY <1>4, <1>5, <2>1, <2>7, <2>8
       DEF ResultInv, CompletedMeansReviewed, PostsCounted, ReviewedTold, ReplyKnown,
           HasReview, github
<1>7. CASE ~(mode = "audit" /\ Settled)
  <2>1. /\ run' = new
        /\ checkpoint' = checkpoint \/ checkpoint' = [checkpoint EXCEPT ![head] = "pending"]
    BY <1>2, <1>7 DEF Start
  <2> HIDE DEF new
  <2>2. run'.head <= head' /\ PostsCounted' /\ ReviewedTold' /\ ReplyKnown'
    BY <1>3, <1>4, <1>5, <2>1 DEF PostsCounted, ReviewedTold, ReplyKnown, github, session
  <2>3. CompletedMeansReviewed'
    BY <1>4, <1>5, <2>1 DEF ResultInv, CompletedMeansReviewed, github
  <2> QED
    BY <2>2, <2>3 DEF ResultInv
<1> QED
  BY <1>6, <1>7

LEMMA QuietTurn ==
    ASSUME RunInv, ResultInv,
           \/ \E deep \in BOOLEAN : Investigate(deep)
           \/ RejectReview \/ Answer \/ Silence \/ Fatal \/ Abort
    PROVE  ResultInv'
<1>1. run \in Run /\ run.pc = "turn" /\ reply \in {run.prior, runs}
  BY DEF RunInv, RunTypeOK, ResultInv, ReplyKnown, Investigate, RejectReview, Answer, Silence,
         Fatal, Abort, Admitted, Auditing, At
<1>2. ASSUME NEW deep \in BOOLEAN, Investigate(deep) PROVE RecordKept
  BY <1>1, <1>2 DEF Investigate, Run, RecordKept
<1>3. ASSUME RejectReview \/ Fatal \/ Abort PROVE RecordKept
  <2>1. CASE RejectReview
    BY <1>1, <2>1 DEF RejectReview, Run, RecordKept
  <2>2. CASE Fatal
    BY <1>1, <2>2 DEF Fatal, GivesUp, Run, RecordKept
  <2>3. CASE Abort
    BY <1>1, <2>3 DEF Abort, Run, RecordKept
  <2> QED
    BY <1>3, <2>1, <2>2, <2>3
<1>4. ASSUME Answer PROVE RecordKept
  <2> DEFINE r == [run EXCEPT !.text = run.mode = "talk"]
  <2>1. /\ r \in Run /\ r.pc = "turn"
        /\ r.head = run.head /\ r.reviewed = run.reviewed /\ r.posts = run.posts
        /\ r.broken = run.broken /\ r.prior = run.prior /\ r.ending = run.ending
    BY <1>1 DEF Run
  <2>2. EndTurn(r)
    BY <1>4 DEF Answer
  <2> HIDE DEF r
  <2> QED
    BY <2>1, <2>2, EndTurnRecord DEF RecordKept
<1>5. ASSUME Silence PROVE RecordKept
  <2>1. CASE EndTurn(run)
    BY <1>1, <2>1, EndTurnRecord DEF RecordKept
  <2>2. CASE run' = [run EXCEPT !.pc = "final", !.ended = "well"]
    BY <1>1, <2>2 DEF Run, RecordKept
  <2> QED
    BY <1>5, <2>1, <2>2 DEF Silence
<1>6. RecordKept
  BY <1>2, <1>3, <1>4, <1>5
<1>7. UNCHANGED <<head, reviews, checkpoint, runs>> /\ reply' \in {reply, runs}
  BY DEF Investigate, RejectReview, Answer, Silence, Fatal, Abort, github, session
<1> QED
  BY <1>1, <1>6, <1>7, QuietStep DEF RecordKept

LEMMA TransientResult == ASSUME RunInv, ResultInv, Transient PROVE ResultInv'
<1>1. /\ run \in Run /\ run.pc = "turn" /\ checkpoint \in [Heads -> Statuses]
      /\ reply \in {run.prior, runs}
      /\ UNCHANGED <<head, reviews, reply, runs>>
  BY DEF RunInv, RunTypeOK, ResultInv, ReplyKnown, Transient, At, github, session
<1>2. checkpoint' = checkpoint \/ checkpoint' = [checkpoint EXCEPT ![run.head] = "paused"]
  BY DEF Transient
<1>3. /\ run'.head = run.head /\ run'.reviewed = run.reviewed
      /\ run'.posts = run.posts /\ run'.broken = run.broken /\ run'.ending = run.ending
      /\ run'.prior \in {run.prior, reply} /\ run'.pc \in {"turn", "final"}
  BY <1>1 DEF Transient, GivesUp, Run
<1> QED
  BY <1>1, <1>2, <1>3, QuietStep

LEMMA RefuseResult == ASSUME RunInv, ResultInv, RefuseReview PROVE ResultInv'
<1>1. /\ run \in Run /\ run.pc = "turn" /\ ~Postable
      /\ run' = [run EXCEPT !.reviewed = TRUE, !.rejected = FALSE]
      /\ UNCHANGED <<head, reviews, checkpoint, reply, runs>>
  BY DEF RunInv, RunTypeOK, RefuseReview, Admitted, Auditing, At, github, session
<1>2. head \in Nat /\ run.head \in Nat
  BY <1>1 DEF RunInv, RunTypeOK, Run, Heads
<1>3. HasReview(run.head) \/ run.head < head
  BY <1>1, <1>2 DEF Postable, HasReview, ResultInv
<1>4. /\ run'.head = run.head /\ run'.posts = run.posts /\ run'.broken = run.broken
      /\ run'.prior = run.prior /\ run'.pc = "turn" /\ run'.reviewed
      /\ run'.ending = run.ending
  BY <1>1 DEF Run
<1> QED
  BY <1>1, <1>3, <1>4 DEF ResultInv, CompletedMeansReviewed, PostsCounted, ReviewedTold,
                          ReplyKnown, HasReview

LEMMA PostResult == ASSUME RunInv, ResultInv, PostReview PROVE ResultInv'
<1>1. /\ run \in Run /\ run.pc = "turn" /\ run.posts \in Nat
      /\ Posted(run.head)
      /\ UNCHANGED <<head, checkpoint, reply, runs>>
  BY DEF RunInv, RunTypeOK, Run, PostReview, Admitted, Auditing, At, session
<1>2. /\ run'.head = run.head /\ run'.reviewed /\ run'.ending
      /\ run'.broken = run.broken /\ run'.prior = run.prior /\ run'.pc = "turn"
  BY <1>1 DEF PostReview, Run
<1>3. HasReview(run.head)' /\ reviews \subseteq reviews'
  BY <1>1, <1>2, PostedIsThere DEF HasReview
<1> QED
  BY <1>1, <1>2, <1>3 DEF ResultInv, CompletedMeansReviewed, PostsCounted, ReviewedTold,
                          ReplyKnown, HasReview

LEMMA BreakResult == ASSUME RunInv, ResultInv, BreakReview PROVE ResultInv'
<1>1. /\ run \in Run /\ run.pc = "turn"
      /\ reviews \subseteq reviews'
      /\ UNCHANGED <<head, checkpoint, reply, runs>>
  BY DEF RunInv, RunTypeOK, BreakReview, Admitted, Auditing, At, session, Posted
<1>2. /\ run'.head = run.head /\ run'.broken /\ run'.prior = run.prior /\ run'.pc = "turn"
      /\ run'.reviewed
  BY <1>1 DEF BreakReview, Run
<1>3. run'.posts > 0 => HasReview(run.head)'
  <2>1. CASE Posted(run.head)
    BY <1>2, <2>1, PostedIsThere DEF HasReview
  <2>2. CASE run'.posts = run.posts
    BY <1>1, <1>2, <2>2 DEF ResultInv, PostsCounted, HasReview
  <2> QED
    BY <1>1, <2>1, <2>2 DEF BreakReview, Run
<1> QED
  BY <1>1, <1>2, <1>3 DEF ResultInv, CompletedMeansReviewed, PostsCounted, ReviewedTold, ReplyKnown,
                          HasReview

LEMMA FinishResult == ASSUME RunInv, ResultInv, FinishAudit \/ FinishTalk PROVE ResultInv'
<1>1. /\ run \in Run /\ run.pc = "final" /\ run.posts \in Nat /\ run.head \in Heads
      /\ checkpoint \in [Heads -> Statuses] /\ head' = head
  BY DEF RunInv, RunTypeOK, Run, FinishAudit, FinishTalk, At
<1>2. CASE run' = Over(run) /\ UNCHANGED <<reviews, checkpoint>>
  <2>1. /\ run'.head = run.head /\ run'.reviewed = run.reviewed /\ run'.posts = run.posts
        /\ run'.broken = run.broken /\ run'.pc = "done" /\ ~run'.ending
    BY <1>2, OverRecord
  <2> QED
    BY <1>1, <1>2, <2>1 DEF ResultInv, CompletedMeansReviewed, PostsCounted, ReviewedTold,
                            ReplyKnown, HasReview
<1>3. CASE /\ ~Suppressed /\ Posted(Payload)
           /\ run' = Over([run EXCEPT !.reviewed = TRUE, !.posts = @ + 1])
           /\ checkpoint' = [checkpoint EXCEPT ![run.head] = "completed"]
  <2> DEFINE r == [run EXCEPT !.reviewed = TRUE, !.posts = @ + 1]
  <2>1. /\ r.head = run.head /\ r.reviewed /\ r.posts = run.posts + 1 /\ r.broken = run.broken
    BY <1>1 DEF Run
  <2>2. run' = Over(r)
    BY <1>3
  <2> HIDE DEF r
  <2>3. /\ run'.head = run.head /\ run'.posts = run.posts + 1
        /\ run'.broken = run.broken /\ run'.pc = "done" /\ ~run'.ending
    BY <2>1, <2>2, OverRecord
  <2>4. HasReview(run.head)' /\ reviews \subseteq reviews'
    BY <1>3, <2>3, PostedIsThere DEF HasReview
  <2> QED
    BY <1>1, <1>3, <2>3, <2>4 DEF ResultInv, CompletedMeansReviewed, PostsCounted,
                                        ReviewedTold, ReplyKnown, HasReview
<1> QED
  BY <1>2, <1>3 DEF FinishAudit, FinishTalk

LEMMA EnvironmentResult == ASSUME RunInv, ResultInv, Environment PROVE ResultInv'
<1>0. /\ run \in Run /\ run.head \in Nat /\ head \in Nat
      /\ checkpoint \in [Heads -> Statuses]
  BY DEF RunInv, RunTypeOK, Run, Heads
<1>1. CASE Push
  BY <1>0, <1>1 DEF Push, ResultInv, CompletedMeansReviewed, PostsCounted, ReviewedTold,
                    ReplyKnown, HasReview, session
<1>2. CASE Close \/ \E m \in Models : Recover(m)
  <2>1. UNCHANGED <<head, reviews, checkpoint, reply, run, runs>>
    BY <1>2 DEF Close, Recover, github, session
  <2> QED
    BY <2>1, QuietStep DEF ResultInv, ReplyKnown
<1>3. ASSUME NEW h \in Heads, BackoffEnds(h) PROVE ResultInv'
  <2>1. /\ UNCHANGED <<head, reviews, reply, run, runs>> /\ checkpoint[h] = "paused"
        /\ checkpoint' = [checkpoint EXCEPT ![h] = "due"]
    BY <1>3 DEF BackoffEnds, github, session
  <2> QED
    BY <1>0, <2>1, QuietStep DEF ResultInv, ReplyKnown
<1>4. CASE Evict
  <2>1. UNCHANGED <<head, reviews, checkpoint, run, runs>> /\ run.pc = "done"
    BY <1>4 DEF Evict, github, At
  <2> QED
    BY <2>1, QuietStep
<1>5. CASE Restart
  <2> DEFINE r == [run EXCEPT !.reviewed = FALSE]
  <2>1. r.head = run.head /\ ~r.reviewed /\ r.posts = run.posts /\ r.broken = run.broken
    BY <1>0 DEF Run
  <2>2. run' = Over(r) /\ UNCHANGED <<head, reviews, checkpoint, runs>>
    BY <1>5 DEF Restart, github
  <2> HIDE DEF r
  <2>3. /\ run'.head = run.head /\ ~run'.reviewed /\ run'.posts = run.posts
        /\ run'.broken = run.broken /\ run'.pc = "done" /\ ~run'.ending
    BY <2>1, <2>2, OverRecord
  <2> QED
    BY <2>2, <2>3 DEF ResultInv, CompletedMeansReviewed, PostsCounted, ReviewedTold,
                      ReplyKnown, HasReview
<1> QED
  BY <1>1, <1>2, <1>3, <1>4, <1>5 DEF Environment

\* Reviews are only posted by the tool in a turn and by the end of an audit.
LEMMA PostsGrow ==
    ASSUME RunInv, [RunNext]_vars, run'.posts > run.posts
    PROVE  \/ run.pc = "turn" /\ (PostReview \/ (BreakReview /\ Postable))
           \/ run.pc = "final" /\ FinishAudit /\ Postable /\ ~Suppressed
<1>1. run \in Run /\ run.posts \in Nat /\ head \in Heads /\ reply \in 0..MaxRuns
  BY DEF RunInv, RunTypeOK, Run
<1> DEFINE Less == ~(run'.posts > run.posts)
<1>2. CASE Begin
  <2>1. PICK mode \in {"audit", "talk"}, explicit \in BOOLEAN, code \in BOOLEAN, target \in Models :
            \E model \in Selected(target) : Start(mode, explicit, code, model)
    BY <1>2 DEF Begin
  <2>2. PICK model \in Selected(target) : Start(mode, explicit, code, model)
    BY <2>1
  <2>3. model \in Models
    BY RunAssumption DEF Selected, ChainNow
  <2> DEFINE new == NewRun(mode, explicit, code, model)
             told == [new EXCEPT !.reviewed = TRUE]
             ended == Over(told)
  <2>4. new \in Run /\ new.posts = 0
    BY <1>1, <2>3, NewRunTyped DEF NewRun
  <2>5. \/ run' = [ended EXCEPT !.explicit = explicit, !.ended = "skipped"]
        \/ run' = new
    BY <2>2 DEF Start
  <2> HIDE DEF new
  <2>6. told \in Run /\ told.posts = 0
    BY <2>4 DEF Run
  <2> HIDE DEF told
  <2>7. ended.posts = 0 /\ ended \in Run
    <3>1. told.head \in Heads /\ told.reviewed \in BOOLEAN /\ told.posts \in Nat
          /\ told.broken \in BOOLEAN
      BY <2>6 DEF Run
    <3> QED
      BY <1>1, <2>6, <3>1, OverRecord, OverTyped
  <2> HIDE DEF ended
  <2>8. run'.posts = 0
    BY <2>4, <2>5, <2>7 DEF Run
  <2> QED
    BY <1>1, <2>8
<1>3. ASSUME Turn, ~PostReview, ~BreakReview PROVE run'.posts = run.posts
  <2>1. CASE Transient
    BY <1>1, <2>1 DEF Transient, GivesUp, Run
  <2>2. CASE RefuseReview
    BY <1>1, <2>2 DEF RefuseReview, Run
  <2>3. CASE Answer
    <3> DEFINE r == [run EXCEPT !.text = run.mode = "talk"]
    <3>1. r \in Run /\ r.pc = "turn" /\ r.posts = run.posts /\ EndTurn(r)
      BY <1>1, <2>3 DEF Answer, At, Run
    <3> HIDE DEF r
    <3> QED
      BY <3>1, EndTurnRecord
  <2>4. CASE Silence
    <3>1. CASE EndTurn(run)
      BY <1>1, <2>4, <3>1, EndTurnRecord DEF Silence, At
    <3>2. CASE run' = [run EXCEPT !.pc = "final", !.ended = "well"]
      BY <1>1, <3>2 DEF Run
    <3> QED
      BY <2>4, <3>1, <3>2 DEF Silence
  <2>5. CASE RejectReview \/ Fatal \/ Abort
    BY <1>1, <2>5 DEF RejectReview, Fatal, Abort, GivesUp, Run
  <2>6. ASSUME NEW deep \in BOOLEAN, Investigate(deep) PROVE run'.posts = run.posts
    BY <1>1, <2>6 DEF Investigate, Run
  <2> QED
    BY <1>3, <2>1, <2>2, <2>3, <2>4, <2>5, <2>6 DEF Turn
<1>4. CASE BreakReview
  <2>1. CASE run' = [run EXCEPT !.reviewed = TRUE, !.rejected = FALSE, !.broken = TRUE]
    <3>1. run'.posts = run.posts
      BY <1>1, <2>1 DEF Run
    <3> QED
      BY <1>1, <3>1
  <2>2. CASE Postable
    BY <1>4, <2>2 DEF BreakReview, Admitted, Auditing, At
  <2> QED
    BY <1>4, <2>1, <2>2 DEF BreakReview
<1>5. CASE PostReview
  BY <1>5 DEF PostReview, Admitted, Auditing, At
<1>6. ASSUME run' = Over(run) PROVE Less
  BY <1>1, <1>6, OverRecord
<1>7. CASE FinishAudit \/ FinishTalk
  BY <1>6, <1>7 DEF FinishAudit, FinishTalk, At
<1>8. CASE Environment
  <2>1. CASE Restart
    <3> DEFINE r == [run EXCEPT !.reviewed = FALSE]
    <3>1. r.posts = run.posts /\ run' = Over(r)
      BY <1>1, <2>1 DEF Restart, Run
    <3> HIDE DEF r
    <3> QED
      BY <1>1, <3>1, OverRecord
  <2> QED
    BY <1>1, <1>8, <2>1 DEF Environment, Push, Close, Recover, BackoffEnds, Evict
<1>9. CASE UNCHANGED vars
  BY <1>1, <1>9 DEF vars
<1> QED
  BY <1>1, <1>2, <1>3, <1>4, <1>5, <1>7, <1>8, <1>9 DEF RunNext

LEMMA InitResult == ASSUME RunInit PROVE ResultInv
<1> DEFINE r == [head |-> head, reviewed |-> FALSE, posts |-> 0, broken |-> FALSE]
<1>1. RunInv
  BY InitHolds
<1>2. run = Over(r) /\ head = 1 /\ checkpoint = [h \in Heads |-> "none"]
  BY DEF RunInit
<1>3. run.head = 1 /\ ~run.reviewed /\ run.posts = 0 /\ run.pc = "done" /\ ~run.ending
  BY <1>1, <1>2, OverRecord
<1> QED
  BY <1>2, <1>3 DEF ResultInv, CompletedMeansReviewed, PostsCounted, ReviewedTold, ReplyKnown

-----------------------------------------------------------------------------
(* Theorems                                                                *)

\* What a run posted, reported and said agrees with the pull request, the checkpoint
\* and the session, for any number of runs.
THEOREM ResultInvariant == RunSpec => []ResultInv
<1>1. RunInit => ResultInv
  BY InitResult
<1>2. RunInv /\ ResultInv /\ [RunNext]_vars => ResultInv'
  <2> SUFFICES ASSUME RunInv, ResultInv, [RunNext]_vars PROVE ResultInv'
    OBVIOUS
  <2>1. CASE Turn
    BY <2>1, QuietTurn, TransientResult, RefuseResult, PostResult, BreakResult DEF Turn
  <2>2. CASE UNCHANGED vars
    <3>1. UNCHANGED <<head, reviews, checkpoint, reply, run, runs>>
      BY <2>2 DEF vars, github, session
    <3> QED
      BY <3>1, QuietStep DEF ResultInv, ReplyKnown
  <2> QED
    BY <2>1, <2>2, BeginResult, FinishResult, EnvironmentResult DEF RunNext
<1> QED
  BY <1>1, <1>2, RunInvariant, PTL DEF RunSpec

\* For any chain and any number of turns, attempts and posts: a second review of a run
\* (github_tools.py:962) is forced, and posted in the answer that posted the first or
\* after the tool's own failure.
THEOREM OnePost == RunSpec => OneReviewPerAnswer
<1>1. RunInv /\ ResultInv /\ [RunNext]_vars
        => [(run.posts >= 1 /\ run'.posts > run.posts)
               => run.explicit /\ (run.ending \/ run.broken)]_vars
  <2> SUFFICES ASSUME RunInv, ResultInv, [RunNext]_vars, run.posts >= 1, run'.posts > run.posts
               PROVE  run.explicit /\ (run.ending \/ run.broken)
    OBVIOUS
  <2>1. run.posts \in Nat /\ run.posts > 0 /\ HasReview(run.head)
    BY DEF RunInv, RunTypeOK, Run, ResultInv, PostsCounted
  <2>2. Postable => run.explicit
    BY <2>1 DEF Postable, HasReview
  <2>3. CASE run.pc = "turn"
    <3>1. PostReview \/ (BreakReview /\ Postable)
      BY <2>1, <2>3, PostsGrow
    <3> QED
      BY <2>1, <2>2, <2>3, <3>1 DEF PostReview, ResultInv, PostsCounted
  <2>4. CASE run.pc # "turn"
    <3>1. FinishAudit /\ Postable /\ ~Suppressed
      BY <2>1, <2>4, PostsGrow
    <3> QED
      BY <2>1, <2>2, <3>1 DEF FinishAudit, At, Suppressed, ResultInv, PostsCounted
  <2> QED
    BY <2>3, <2>4
<1> QED
  BY <1>1, RunInvariant, ResultInvariant, PTL DEF RunSpec, OneReviewPerAnswer

\* A reported review is on GitHub, or its commit is no longer the head, or waits for
\* the sweep (core/execution.py:724-782), through any pushes and restarts.
THEOREM ReportsAreTrue == RunSpec => []ReportedReviewExists
<1>1. RunInv /\ ResultInv => ReportedReviewExists
  <2> SUFFICES ASSUME RunInv, ResultInv, run.reviewed, ~run.broken
               PROVE  \/ \E r \in reviews : r.commit = run.head
                      \/ head # run.head
                      \/ checkpoint[run.head] \in {"paused", "due"}
    BY DEF ReportedReviewExists
  <2>1. head \in Nat /\ run.head \in Nat
    BY DEF RunInv, RunTypeOK, Run, Heads
  <2> QED
    BY <2>1 DEF ResultInv, ReviewedTold, HasReview
<1> QED
  BY <1>1, RunInvariant, ResultInvariant, PTL

\* A checkpoint says "completed" only of a commit with a review
\* (core/execution.py:300-445), for any number of commits.
THEOREM CompletedIsReviewed == RunSpec => []CompletedMeansReviewed
<1>1. ResultInv => CompletedMeansReviewed
  BY DEF ResultInv
<1> QED
  BY <1>1, ResultInvariant, PTL

\* A run that gave up posts nothing at its end, whatever analysis the session keeps
\* (core/execution.py:323-362).
THEOREM FailedRunIsSilent == RunSpec => NoReviewFromFailedRun
<1>1. [RunNext]_vars => [(At("final") /\ reviews' # reviews) => run.ended = "well"]_vars
  <2> SUFFICES ASSUME [RunNext]_vars, run.pc = "final", reviews' # reviews
               PROVE  run.ended = "well"
    BY DEF At
  <2>1. ~Turn /\ ~Begin
    BY DEF Turn, Begin, Start, Investigate, RejectReview, PostReview, RefuseReview, BreakReview,
           Answer, Silence, Transient, Fatal, Abort, Admitted, Auditing, At
  <2>2. ~Environment /\ ~FinishTalk
    BY DEF Environment, Push, Close, Recover, BackoffEnds, Evict, Restart, FinishTalk, github
  <2>3. FinishAudit
    BY <2>1, <2>2 DEF RunNext, vars, github
  <2> QED
    BY <2>3 DEF FinishAudit, Payload
<1> QED
  BY <1>1, PTL DEF RunSpec, NoReviewFromFailedRun

\* A reply is the answer of the run that posts it, never one the session kept of an
\* earlier run (core/execution.py:450-478), however many attempts the run took.
THEOREM ReplyIsOfItsRun == RunSpec => ReplyIsFresh
<1>1. ResultInv /\ [RunNext]_vars => [replied' # replied => replied' = runs]_vars
  <2> SUFFICES ASSUME ResultInv, [RunNext]_vars, replied' # replied
               PROVE  replied' = runs
    OBVIOUS
  <2>1. ~Turn /\ ~Begin /\ ~FinishAudit
    BY DEF Turn, Begin, Start, Investigate, RejectReview, PostReview, RefuseReview, BreakReview,
           Answer, Silence, Transient, Fatal, Abort, FinishAudit, github
  <2>2. ~Environment
    BY DEF Environment, Push, Close, Recover, BackoffEnds, Evict, Restart, github
  <2>3. FinishTalk
    BY <2>1, <2>2 DEF RunNext, vars, github
  <2> QED
    BY <2>3 DEF FinishTalk, FreshReply, At, ResultInv, ReplyKnown
<1> QED
  BY <1>1, ResultInvariant, PTL DEF RunSpec, ReplyIsFresh

=============================================================================
